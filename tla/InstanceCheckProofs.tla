------------------------ MODULE InstanceCheckProofs ------------------------
(***************************************************************************)
(* Proofs of the safety properties of InstanceCheck, for any set of nodes  *)
(* and any bound on the polls.  The invariant is built in layers: the      *)
(* types, the mutex, the user's own key, and then the shared pair, which   *)
(* is settled from the moment a goroutine holds it in hand.                *)
(***************************************************************************)
EXTENDS InstanceCheck, TLAPS

\* A goroutine is between Lock and Unlock exactly when it owns sshKeyMu.
InLock(n) == pc[n] \in {"locked", "savePriv", "savePub", "unlock", "unlockErr"}
MutexInv == \A n \in Nodes : InLock(n) <=> sshKeyMu = n

\* With a key of the user's own nobody comes near the mutex, and only that key
\* is handed out.
UserInv ==
    userKey # "absent" => \A n \in Nodes :
        /\ ~InLock(n) /\ pc[n] # "lock"
        /\ pc[n] \in {"send", "dial"} => key[n].public = UserKey
        /\ sent[n] \subseteq {UserKey} /\ authorized[n] \subseteq {UserKey}

\* The pair a goroutine generated, until both halves are on disk.
SavingInv ==
    \A n \in Nodes :
        /\ pc[n] \in {"savePriv", "savePub"} =>
              key[n].signer = key[n].public /\ key[n].signer # NoFile
        /\ pc[n] = "savePub" => priv = key[n].signer

\* The files are not about to change: both are there and nobody is saving.
Settled == LocalSSHKeyExists /\ \A n \in Nodes : pc[n] \notin {"savePriv", "savePub"}

HoldsPair(n) == pc[n] \in {"unlock", "send", "dial"}

\* Whoever holds the shared pair in hand, or has handed it out, holds what the
\* files hold, and the files are settled.
SharedInv ==
    userKey = "absent" => \A n \in Nodes :
        /\ HoldsPair(n) => Settled /\ key[n].signer = priv /\ key[n].public = pub
        /\ sent[n] # {} => Settled
        /\ sent[n] \subseteq {pub}
        /\ authorized[n] # {} => Settled /\ priv = pub
        /\ authorized[n] \subseteq {priv}

\* A node is probed only after it trusts the pair.
ProbedInv ==
    connect = "on" => \A n \in Nodes :
        /\ pc[n] \in {"probe", "running"} => createdSSHKey[n] = "yes"
        /\ userKey = "absent" /\ createdSSHKey[n] = "yes" => priv \in authorized[n]

KeyInv == MutexInv /\ UserInv /\ SavingInv /\ SharedInv /\ ProbedInv

-----------------------------------------------------------------------------
\* No step leaves the types.
LEMMA TypeStep ==
    ASSUME TypeOK, Next
    PROVE  TypeOK'
<1>1. CASE Ended
  BY <1>1 DEF Ended, vars, fileVars, nodeVars, loopVars, TypeOK
<1>2. ASSUME NEW n \in Nodes, IsAWSInstanceRunning(n) PROVE TypeOK'
  <2> USE InstanceCheckAssumption DEF Goto, fileVars, nodeVars
  <2>1. CASE WaitRunning(n)
    BY <2>1, <1>2 DEF WaitRunning, TypeOK, NoFile, OldKey
  <2>2. CASE Poll(n)
    BY <2>2, <1>2 DEF Poll, LoopGoesOn, TypeOK, NoFile, OldKey
  <2>3. CASE GiveUp(n)
    BY <2>3, <1>2 DEF GiveUp, LoopGoesOn, TypeOK, NoFile, OldKey
  <2>4. CASE Probe(n)
    BY <2>4, <1>2 DEF Probe, TypeOK, NoFile, OldKey
  <2>5. CASE LoadUserKey(n)
    <3>1. [signer |-> UserKey, public |-> UserKey] \in [signer : Int, public : Int]
      BY <2>5, <1>2 DEF LoadUserKey, TypeOK, UserKey
    <3>2. key' \in [Nodes -> [signer : Int, public : Int]]
      BY <2>5, <1>2 DEF LoadUserKey, TypeOK, UserKey
    <3> QED
      BY <3>1, <3>2, <2>5 DEF LoadUserKey, TypeOK
  <2>6. CASE Lock(n)
    BY <2>6, <1>2 DEF Lock, LockFree, TypeOK, NoFile, OldKey
  <2>7. CASE LoadSharedKey(n)
    <3>1. [signer |-> priv, public |-> pub] \in [signer : Int, public : Int]
      BY <2>7, <1>2 DEF LoadSharedKey, TypeOK
    <3>2. key' \in [Nodes -> [signer : Int, public : Int]]
      BY <3>1, <2>7, <1>2 DEF LoadSharedKey, TypeOK
    <3> QED
      BY <3>1, <3>2, <2>7 DEF LoadSharedKey, TypeOK
  <2>8. CASE GenerateSSHKeypair(n)
    BY <2>8, <1>2 DEF GenerateSSHKeypair, LocalSSHKeyExists, TypeOK, NoFile, OldKey
  <2>9. CASE SavePrivate(n)
    <3>1. key[n].public \in Int /\ key[n].signer \in Int
      BY <2>9, <1>2 DEF SavePrivate, TypeOK
    <3>2. priv' \in Int
      BY <3>1, <2>9, <1>2 DEF SavePrivate, TypeOK, Corrupt
    <3> QED
      BY <3>1, <3>2, <2>9 DEF SavePrivate, TypeOK
  <2>10. CASE SavePublic(n)
    <3>1. key[n].public \in Int /\ key[n].signer \in Int
      BY <2>10, <1>2 DEF SavePublic, TypeOK
    <3>2. pub' \in Int
      BY <3>1, <2>10, <1>2 DEF SavePublic, TypeOK, Corrupt
    <3> QED
      BY <3>1, <3>2, <2>10 DEF SavePublic, TypeOK
  <2>11. CASE Unlock(n)
    BY <2>11, <1>2 DEF Unlock, UnlockOnError, TypeOK, NoFile, OldKey
  <2>12. CASE SendSSHPublicKey(n)
    <3>1. key[n].public \in Int
      BY <2>12, <1>2 DEF SendSSHPublicKey, TypeOK
    <3>2. sent' \in [Nodes -> SUBSET Int]
      BY <3>1, <2>12, <1>2 DEF SendSSHPublicKey, TypeOK
    <3> QED
      BY <3>1, <3>2, <2>12 DEF SendSSHPublicKey, TypeOK
  <2>13. CASE DialAndAuthorize(n)
    <3>1. key[n].public \in Int /\ key[n].signer \in Int
      BY <2>13, <1>2 DEF DialAndAuthorize, TypeOK
    <3>2. authorized' \in [Nodes -> SUBSET Int]
      BY <2>13, <1>2 DEF DialAndAuthorize, TypeOK
    <3>3. /\ createdSSHKey' \in [Nodes -> {"yes", "no"}]
          /\ pc' \in [Nodes -> {"wait", "poll", "key", "lock", "locked", "savePriv",
                               "savePub", "unlock", "unlockErr", "send", "dial", "probe",
                               "running", "failed"}]
      BY <2>13, <1>2 DEF DialAndAuthorize, TypeOK
    <3> QED
      BY <3>1, <3>2, <3>3, <2>13 DEF DialAndAuthorize, TypeOK
  <2>14. QED
    BY <1>2, <2>1, <2>2, <2>3, <2>4, <2>5, <2>6, <2>7, <2>8, <2>9, <2>10, <2>11,
       <2>12, <2>13
    DEF IsAWSInstanceRunning, AssignNewSSHKey
<1>3. QED
  BY <1>1, <1>2 DEF Next

\* Only Lock and Unlock move the mutex, and only for the goroutine they move.
LEMMA MutexStep ==
    ASSUME TypeOK, MutexInv, Next
    PROVE  MutexInv'
<1>1. CASE Ended
  BY <1>1 DEF Ended, vars, fileVars, nodeVars, loopVars, MutexInv, InLock
<1>2. ASSUME NEW n \in Nodes, IsAWSInstanceRunning(n) PROVE MutexInv'
  <2> USE InstanceCheckAssumption
      DEF Goto, fileVars, nodeVars, TypeOK, MutexInv, InLock
  <2>1. CASE WaitRunning(n)
    BY <2>1, <1>2 DEF WaitRunning
  <2>2. CASE Poll(n)
    BY <2>2, <1>2 DEF Poll, LoopGoesOn
  <2>3. CASE GiveUp(n)
    BY <2>3, <1>2 DEF GiveUp, LoopGoesOn
  <2>4. CASE Probe(n)
    BY <2>4, <1>2 DEF Probe
  <2>5. CASE LoadUserKey(n)
    BY <2>5, <1>2 DEF LoadUserKey
  <2>6. CASE Lock(n)
    BY <2>6, <1>2 DEF Lock, LockFree
  <2>7. CASE LoadSharedKey(n)
    BY <2>7, <1>2 DEF LoadSharedKey, LocalSSHKeyExists
  <2>8. CASE GenerateSSHKeypair(n)
    BY <2>8, <1>2 DEF GenerateSSHKeypair, LocalSSHKeyExists
  <2>9. CASE SavePrivate(n)
    BY <2>9, <1>2 DEF SavePrivate
  <2>10. CASE SavePublic(n)
    BY <2>10, <1>2 DEF SavePublic
  <2>11. CASE Unlock(n)
    BY <2>11, <1>2 DEF Unlock, UnlockOnError
  <2>12. CASE SendSSHPublicKey(n)
    BY <2>12, <1>2 DEF SendSSHPublicKey
  <2>13. CASE DialAndAuthorize(n)
    BY <2>13, <1>2 DEF DialAndAuthorize, CanDial
  <2>14. QED
    BY <1>2, <2>1, <2>2, <2>3, <2>4, <2>5, <2>6, <2>7, <2>8, <2>9, <2>10, <2>11,
       <2>12, <2>13
    DEF IsAWSInstanceRunning, AssignNewSSHKey
<1>3. QED
  BY <1>1, <1>2 DEF Next

\* A user's key keeps everyone away from the mutex.
LEMMA UserStep ==
    ASSUME TypeOK, UserInv, Next
    PROVE  UserInv'
<1>1. CASE Ended
  BY <1>1 DEF Ended, vars, fileVars, nodeVars, loopVars, UserInv, InLock
<1>2. ASSUME NEW n \in Nodes, IsAWSInstanceRunning(n) PROVE UserInv'
  <2> USE InstanceCheckAssumption
      DEF Goto, fileVars, nodeVars, TypeOK, UserInv, InLock, UserKey
  <2>1. CASE WaitRunning(n)
    BY <2>1, <1>2 DEF WaitRunning
  <2>2. CASE Poll(n)
    BY <2>2, <1>2 DEF Poll, LoopGoesOn
  <2>3. CASE GiveUp(n)
    BY <2>3, <1>2 DEF GiveUp, LoopGoesOn
  <2>4. CASE Probe(n)
    BY <2>4, <1>2 DEF Probe
  <2>5. CASE LoadUserKey(n)
    BY <2>5, <1>2 DEF LoadUserKey
  <2>6. CASE Lock(n)
    BY <2>6, <1>2 DEF Lock, LockFree
  <2>7. CASE LoadSharedKey(n)
    BY <2>7, <1>2 DEF LoadSharedKey, LocalSSHKeyExists
  <2>8. CASE GenerateSSHKeypair(n)
    BY <2>8, <1>2 DEF GenerateSSHKeypair, LocalSSHKeyExists
  <2>9. CASE SavePrivate(n)
    BY <2>9, <1>2 DEF SavePrivate
  <2>10. CASE SavePublic(n)
    BY <2>10, <1>2 DEF SavePublic
  <2>11. CASE Unlock(n)
    BY <2>11, <1>2 DEF Unlock, UnlockOnError
  <2>12. CASE SendSSHPublicKey(n)
    BY <2>12, <1>2 DEF SendSSHPublicKey
  <2>13. CASE DialAndAuthorize(n)
    BY <2>13, <1>2 DEF DialAndAuthorize, CanDial
  <2>14. QED
    BY <1>2, <2>1, <2>2, <2>3, <2>4, <2>5, <2>6, <2>7, <2>8, <2>9, <2>10, <2>11,
       <2>12, <2>13
    DEF IsAWSInstanceRunning, AssignNewSSHKey
<1>3. QED
  BY <1>1, <1>2 DEF Next

\* A pair being saved is the one generated, and no other goroutine writes.
LEMMA SavingStep ==
    ASSUME TypeOK, MutexInv, SavingInv, Next
    PROVE  SavingInv'
<1>1. CASE Ended
  BY <1>1 DEF Ended, vars, fileVars, nodeVars, loopVars, SavingInv
<1>2. ASSUME NEW n \in Nodes, IsAWSInstanceRunning(n) PROVE SavingInv'
  <2> USE InstanceCheckAssumption
      DEF Goto, fileVars, nodeVars, TypeOK, MutexInv, InLock, SavingInv, NoFile, OldKey
  <2>1. CASE WaitRunning(n)
    BY <2>1, <1>2 DEF WaitRunning
  <2>2. CASE Poll(n)
    BY <2>2, <1>2 DEF Poll, LoopGoesOn
  <2>3. CASE GiveUp(n)
    BY <2>3, <1>2 DEF GiveUp, LoopGoesOn
  <2>4. CASE Probe(n)
    BY <2>4, <1>2 DEF Probe
  <2>5. CASE LoadUserKey(n)
    BY <2>5, <1>2 DEF LoadUserKey
  <2>6. CASE Lock(n)
    BY <2>6, <1>2 DEF Lock, LockFree
  <2>7. CASE LoadSharedKey(n)
    BY <2>7, <1>2 DEF LoadSharedKey, LocalSSHKeyExists
  <2>8. CASE GenerateSSHKeypair(n)
    BY <2>8, <1>2 DEF GenerateSSHKeypair, LocalSSHKeyExists
  <2>9. CASE SavePrivate(n)
    BY <2>9, <1>2 DEF SavePrivate
  <2>10. CASE SavePublic(n)
    BY <2>10, <1>2 DEF SavePublic
  <2>11. CASE Unlock(n)
    BY <2>11, <1>2 DEF Unlock, UnlockOnError
  <2>12. CASE SendSSHPublicKey(n)
    BY <2>12, <1>2 DEF SendSSHPublicKey
  <2>13. CASE DialAndAuthorize(n)
    BY <2>13, <1>2 DEF DialAndAuthorize, CanDial
  <2>14. QED
    BY <1>2, <2>1, <2>2, <2>3, <2>4, <2>5, <2>6, <2>7, <2>8, <2>9, <2>10, <2>11,
       <2>12, <2>13
    DEF IsAWSInstanceRunning, AssignNewSSHKey
<1>3. QED
  BY <1>1, <1>2 DEF Next

\* A pair in hand stays the pair on disk.
LEMMA SharedStep ==
    ASSUME TypeOK, KeyInv, Next
    PROVE  SharedInv'
<1>1. CASE Ended
  BY <1>1
  DEF Ended, vars, fileVars, nodeVars, loopVars, SharedInv, KeyInv, Settled, HoldsPair,
      LocalSSHKeyExists
<1>2. ASSUME NEW n \in Nodes, IsAWSInstanceRunning(n) PROVE SharedInv'
  <2> USE InstanceCheckAssumption
      DEF Goto, fileVars, nodeVars, TypeOK, KeyInv, MutexInv, InLock, UserInv, SavingInv,
          SharedInv, Settled, HoldsPair, LocalSSHKeyExists, NoFile, UserKey, Corrupt, OldKey
  <2>1. CASE WaitRunning(n)
    BY <2>1, <1>2 DEF WaitRunning
  <2>2. CASE Poll(n)
    BY <2>2, <1>2 DEF Poll, LoopGoesOn
  <2>3. CASE GiveUp(n)
    BY <2>3, <1>2 DEF GiveUp, LoopGoesOn
  <2>4. CASE Probe(n)
    BY <2>4, <1>2 DEF Probe
  <2>5. CASE LoadUserKey(n)
    BY <2>5, <1>2 DEF LoadUserKey
  <2>6. CASE Lock(n)
    BY <2>6, <1>2 DEF Lock, LockFree
  <2>7. CASE LoadSharedKey(n)
    BY <2>7, <1>2 DEF LoadSharedKey
  <2>8. CASE GenerateSSHKeypair(n)
    BY <2>8, <1>2 DEF GenerateSSHKeypair
  <2>9. CASE SavePrivate(n)
    <3> SUFFICES ASSUME userKey = "absent" PROVE SharedInv'
      BY <2>9 DEF SavePrivate
    <3>1. pc[n] = "savePriv" /\ ~Settled
      BY <2>9, <1>2 DEF SavePrivate
    <3>2. \A m \in Nodes : sent[m] = {} /\ authorized[m] = {} /\ ~HoldsPair(m)
      BY <3>1
    <3>3. \A m \in Nodes : sent'[m] = {} /\ authorized'[m] = {} /\ ~HoldsPair(m)'
      BY <2>9, <1>2, <3>2 DEF SavePrivate
    <3>4. QED
      BY <3>3
  <2>10. CASE SavePublic(n)
    <3> SUFFICES ASSUME userKey = "absent" PROVE SharedInv'
      BY <2>10 DEF SavePublic
    <3>1. pc[n] = "savePub" /\ sshKeyMu = n /\ ~Settled
      BY <2>10, <1>2 DEF SavePublic
    <3>2. \A m \in Nodes : sent[m] = {} /\ authorized[m] = {} /\ ~HoldsPair(m)
      BY <3>1
    <3>3. \A m \in Nodes : sent'[m] = {} /\ authorized'[m] = {}
      BY <2>10, <3>2 DEF SavePublic
    <3>4. \A m \in Nodes \ {n} : ~HoldsPair(m)' /\ pc'[m] \notin {"savePriv", "savePub"}
      BY <2>10, <1>2, <3>1, <3>2 DEF SavePublic
    <3>5. HoldsPair(n)' => /\ pub' = key[n].public /\ key' = key /\ priv' = priv
                           /\ pc'[n] = "unlock"
      BY <2>10, <1>2 DEF SavePublic
    <3>6. HoldsPair(n)' => Settled' /\ key'[n].signer = priv' /\ key'[n].public = pub'
      BY <3>1, <3>4, <3>5, <1>2
    <3>7. QED
      BY <3>3, <3>4, <3>6
  <2>11. CASE Unlock(n)
    BY <2>11, <1>2 DEF Unlock, UnlockOnError
  <2>12. CASE SendSSHPublicKey(n)
    BY <2>12, <1>2 DEF SendSSHPublicKey
  <2>13. CASE DialAndAuthorize(n)
    BY <2>13, <1>2 DEF DialAndAuthorize, CanDial
  <2>14. QED
    BY <1>2, <2>1, <2>2, <2>3, <2>4, <2>5, <2>6, <2>7, <2>8, <2>9, <2>10, <2>11,
       <2>12, <2>13
    DEF IsAWSInstanceRunning, AssignNewSSHKey
<1>3. QED
  BY <1>1, <1>2 DEF Next

\* Only a node that trusts the pair is probed.
LEMMA ProbedStep ==
    ASSUME TypeOK, KeyInv, Next
    PROVE  ProbedInv'
<1>1. CASE Ended
  BY <1>1 DEF Ended, vars, fileVars, nodeVars, loopVars, ProbedInv, KeyInv
<1>2. ASSUME NEW n \in Nodes, IsAWSInstanceRunning(n) PROVE ProbedInv'
  <2> USE InstanceCheckAssumption
      DEF Goto, fileVars, nodeVars, TypeOK, KeyInv, MutexInv, InLock, SavingInv, SharedInv,
          ProbedInv, Settled, HoldsPair, LocalSSHKeyExists
  <2>1. CASE WaitRunning(n)
    BY <2>1, <1>2 DEF WaitRunning
  <2>2. CASE Poll(n)
    BY <2>2, <1>2 DEF Poll, LoopGoesOn
  <2>3. CASE GiveUp(n)
    BY <2>3, <1>2 DEF GiveUp, LoopGoesOn
  <2>4. CASE Probe(n)
    BY <2>4, <1>2 DEF Probe
  <2>5. CASE LoadUserKey(n)
    BY <2>5, <1>2 DEF LoadUserKey
  <2>6. CASE Lock(n)
    BY <2>6, <1>2 DEF Lock, LockFree
  <2>7. CASE LoadSharedKey(n)
    BY <2>7, <1>2 DEF LoadSharedKey
  <2>8. CASE GenerateSSHKeypair(n)
    BY <2>8, <1>2 DEF GenerateSSHKeypair
  <2>9. CASE SavePrivate(n)
    BY <2>9, <1>2 DEF SavePrivate
  <2>10. CASE SavePublic(n)
    BY <2>10, <1>2 DEF SavePublic
  <2>11. CASE Unlock(n)
    BY <2>11, <1>2 DEF Unlock, UnlockOnError
  <2>12. CASE SendSSHPublicKey(n)
    BY <2>12, <1>2 DEF SendSSHPublicKey
  <2>13. CASE DialAndAuthorize(n)
    BY <2>13, <1>2 DEF DialAndAuthorize, CanDial
  <2>14. QED
    BY <1>2, <2>1, <2>2, <2>3, <2>4, <2>5, <2>6, <2>7, <2>8, <2>9, <2>10, <2>11,
       <2>12, <2>13
    DEF IsAWSInstanceRunning, AssignNewSSHKey
<1>3. QED
  BY <1>1, <1>2 DEF Next

-----------------------------------------------------------------------------
\* The invariant starts and is kept.
LEMMA KeyInvInit == Init => TypeOK /\ KeyInv
  BY InstanceCheckAssumption
  DEF Init, TypeOK, KeyInv, MutexInv, InLock, UserInv, SavingInv, SharedInv, HoldsPair,
      ProbedInv, NoFile, Corrupt, OldKey

LEMMA KeyInvStep == TypeOK /\ KeyInv /\ [Next]_vars => TypeOK' /\ KeyInv'
<1> SUFFICES ASSUME TypeOK, KeyInv, [Next]_vars PROVE TypeOK' /\ KeyInv'
  OBVIOUS
<1>1. CASE Next
  <2>1. TypeOK'
    BY <1>1, TypeStep
  <2>2. MutexInv'
    BY <1>1, MutexStep DEF KeyInv
  <2>3. UserInv'
    BY <1>1, UserStep DEF KeyInv
  <2>4. SavingInv'
    BY <1>1, SavingStep DEF KeyInv
  <2>5. SharedInv'
    BY <1>1, SharedStep
  <2>6. ProbedInv'
    BY <1>1, ProbedStep
  <2>7. QED
    BY <2>1, <2>2, <2>3, <2>4, <2>5, <2>6 DEF KeyInv
<1>2. CASE UNCHANGED vars
  BY <1>2
  DEF vars, fileVars, nodeVars, loopVars, TypeOK, KeyInv, MutexInv, InLock, UserInv,
      SavingInv, SharedInv, Settled, HoldsPair, ProbedInv, LocalSSHKeyExists
<1>3. QED
  BY <1>1, <1>2

\* The inductive invariant holds in every run, for any set of nodes.
THEOREM KeyInvariance == Spec => [](TypeOK /\ KeyInv)
  BY KeyInvInit, KeyInvStep, PTL DEF Spec

\* The types, as the run checks them.
THEOREM TypeCorrect == Spec => []TypeOK
  BY KeyInvariance, PTL

\* Every node found running trusts the pair kube_aws_rsa holds, for any number
\* of goroutines and whatever writes failed.
THEOREM SharedKeyCorrect == Spec => []NodesTrustSharedKey
<1>1. KeyInv => NodesTrustSharedKey
  BY DEF KeyInv, SharedInv, ProbedInv, NodesTrustSharedKey
<1>2. QED
  BY <1>1, KeyInvariance, PTL

\* A user's own key, good or bad, keeps the deployer away from kube_aws_rsa.
UserKeyComesFirst ==
    userKey # "absent" =>
        sshKeyMu = Nobody /\ \A n \in Nodes : authorized[n] \subseteq {UserKey}

\* A user's own key keeps the deployer away from the shared one.
THEOREM UserKeyCorrect == Spec => []UserKeyComesFirst
<1>1. TypeOK /\ KeyInv => UserKeyComesFirst
  BY DEF TypeOK, KeyInv, MutexInv, UserInv, UserKeyComesFirst
<1>2. QED
  BY <1>1, KeyInvariance, PTL

\* The files are never rewritten once a node trusts them: only SavePrivate and
\* SavePublic write, and SharedInv keeps every goroutine out of those.
THEOREM TrustedKeyCorrect == Spec => TrustedKeyStays
<1>1. ASSUME TypeOK, KeyInv, [Next]_vars
      PROVE  [(\E n \in Nodes : authorized[n] \ {UserKey} # {}) => UNCHANGED fileVars]_vars
  <2>1. SUFFICES ASSUME NEW m \in Nodes, authorized[m] \ {UserKey} # {}, Next
                 PROVE  UNCHANGED fileVars
    BY <1>1
  <2>2. userKey = "absent"
    BY <1>1, <2>1 DEF KeyInv, UserInv
  <2>3. Settled
    BY <1>1, <2>1, <2>2 DEF KeyInv, SharedInv
  <2>4. CASE Ended
    BY <2>4 DEF Ended, vars
  <2>5. ASSUME NEW n \in Nodes, IsAWSInstanceRunning(n) PROVE UNCHANGED fileVars
    <3>1. ~SavePrivate(n) /\ ~SavePublic(n)
      BY <2>3 DEF Settled, SavePrivate, SavePublic
    <3>2. QED
      BY <2>5, <3>1
      DEF IsAWSInstanceRunning, AssignNewSSHKey, fileVars, WaitRunning, Poll, GiveUp,
          Probe, LoadUserKey, Lock, LoadSharedKey, GenerateSSHKeypair, Unlock,
          SendSSHPublicKey, DialAndAuthorize
  <2>6. QED
    BY <2>1, <2>4, <2>5 DEF Next
<1>2. QED
  BY <1>1, KeyInvariance, PTL DEF Spec, TrustedKeyStays

-----------------------------------------------------------------------------
(***************************************************************************)
(* InstanceCheck implements SharedKey.                                     *)
(***************************************************************************)

\* No half that cannot be read is handed out, and the user's own pair is never
\* written to kube_aws_rsa.
SoundInv ==
    /\ priv # UserKey
    /\ \A n \in Nodes :
          /\ pc[n] \in {"savePriv", "savePub"} => key[n].signer # UserKey
          /\ (sent[n] \cup authorized[n]) \cap {NoFile, Corrupt} = {}

\* What goes to a machine was read or made under the mutex (assignNewSSHKey).
LEMMA SoundStep ==
    ASSUME TypeOK, KeyInv, SoundInv, [Next]_vars
    PROVE  SoundInv'
<1> USE InstanceCheckAssumption
    DEF Goto, fileVars, nodeVars, TypeOK, SoundInv, NoFile, Corrupt, OldKey, UserKey
<1>1. CASE Ended \/ UNCHANGED vars
  BY <1>1 DEF Ended, vars, loopVars
<1>2. ASSUME NEW n \in Nodes, IsAWSInstanceRunning(n) PROVE SoundInv'
  <2>1. CASE WaitRunning(n) \/ Poll(n) \/ GiveUp(n) \/ Probe(n)
    BY <2>1, <1>2 DEF WaitRunning, Poll, GiveUp, Probe
  <2>2. CASE LoadUserKey(n) \/ Lock(n) \/ LoadSharedKey(n)
    BY <2>2, <1>2 DEF LoadUserKey, Lock, LoadSharedKey
  <2>3. CASE GenerateSSHKeypair(n)
    BY <2>3, <1>2 DEF GenerateSSHKeypair
  <2>4. CASE SavePrivate(n)
    BY <2>4, <1>2 DEF SavePrivate
  <2>5. CASE SavePublic(n) \/ Unlock(n)
    BY <2>5, <1>2 DEF SavePublic, Unlock
  <2>6. CASE SendSSHPublicKey(n)
    <3>1. pc[n] = "send" => key[n].public # NoFile
      BY <1>2 DEF KeyInv, UserInv, SharedInv, Settled, HoldsPair, LocalSSHKeyExists
    <3> QED
      BY <2>6, <1>2, <3>1 DEF SendSSHPublicKey
  <2>7. CASE DialAndAuthorize(n)
    <3>1. pc[n] = "dial" => key[n].public # NoFile
      BY <1>2 DEF KeyInv, UserInv, SharedInv, Settled, HoldsPair, LocalSSHKeyExists
    <3>2. pc[n] = "dial" /\ CanDial(n) => key[n].public # Corrupt
      BY <1>2 DEF KeyInv, UserInv, SharedInv, HoldsPair, CanDial
    <3> QED
      BY <2>7, <1>2, <3>1, <3>2 DEF DialAndAuthorize
  <2> QED
    BY <1>2, <2>1, <2>2, <2>3, <2>4, <2>5, <2>6, <2>7
    DEF IsAWSInstanceRunning, AssignNewSSHKey
<1> QED
  BY <1>1, <1>2 DEF Next

\* Before the first poll no machine trusts anything, whatever the files hold (Init).
LEMMA SharedInit == Init => SoundInv /\ Shared!Init
  BY DEF Init, SoundInv, Shared!Init, NoFile, Corrupt, OldKey, UserKey

\* The refinement mapping, by name.
Needed == IF connect = "on" /\ userKey = "absent" THEN "yes" ELSE "no"
Trusted == [n \in Nodes |-> authorized[n] \ {UserKey}]
Verdict == [n \in Nodes |-> IF pc[n] \in {"running", "failed"} THEN pc[n] ELSE "none"]

\* A step that touches neither the files nor a machine nor ends a check is none of
\* SharedKey's.
LEMMA QuietStep ==
    ASSUME UNCHANGED <<connect, userKey, priv, pub, authorized>>, Verdict' = Verdict
    PROVE  UNCHANGED Shared!sharedVars
  BY DEF Shared!sharedVars, Verdict

\* Every step of a check is one of SharedKey or changes nothing there: the files are
\* written before anybody trusts them, the machine of a dial comes to trust the
\* pair on disk, and a machine is found running after that.
LEMMA SharedNext ==
    ASSUME TypeOK, KeyInv, SoundInv, [Next]_vars
    PROVE  [Shared!Next]_(Shared!sharedVars)
<1> USE DEF Goto, fileVars, nodeVars
<1>t. pc \in [Nodes -> {"wait", "poll", "key", "lock", "locked", "savePriv", "savePub",
                        "unlock", "unlockErr", "send", "dial", "probe", "running", "failed"}]
      /\ priv \in Int /\ pub \in Int /\ authorized \in [Nodes -> SUBSET Int]
  BY DEF TypeOK
<1>1. CASE Ended \/ UNCHANGED vars
  BY <1>1, QuietStep DEF Ended, vars, loopVars, Verdict
<1>2. ASSUME NEW n \in Nodes, IsAWSInstanceRunning(n) PROVE [Shared!Next]_(Shared!sharedVars)
  <2>1. CASE Poll(n) \/ LoadUserKey(n) \/ Lock(n) \/ LoadSharedKey(n)
  <3>1. /\ UNCHANGED <<connect, userKey, priv, pub, authorized>>
        /\ pc[n] \notin {"running", "failed"}
        /\ \E l \in {"poll", "key", "probe", "send", "lock", "locked", "unlockErr", "unlock"} :
              pc' = [pc EXCEPT ![n] = l]
      BY <2>1, <1>2, <1>t DEF Poll, LoadUserKey, Lock, LoadSharedKey
    <3>2. Verdict' = Verdict
      BY <3>1, <1>t DEF Verdict
    <3> QED
      BY <3>1, <3>2, QuietStep
  <2>2. CASE GenerateSSHKeypair(n) \/ Unlock(n) \/ SendSSHPublicKey(n)
    <3>1. /\ UNCHANGED <<connect, userKey, priv, pub, authorized>>
          /\ pc[n] \notin {"running", "failed"}
          /\ \E l \in {"savePriv", "send", "poll", "dial"} : pc' = [pc EXCEPT ![n] = l]
      BY <2>2, <1>2, <1>t DEF GenerateSSHKeypair, Unlock, SendSSHPublicKey
    <3>2. Verdict' = Verdict
      BY <3>1, <1>t DEF Verdict
    <3> QED
      BY <3>1, <3>2, QuietStep
  <2>3. CASE WaitRunning(n) \/ GiveUp(n) \/ Probe(n)
    <3>1. /\ UNCHANGED <<connect, userKey, priv, pub, authorized>>
          /\ pc[n] \notin {"running", "failed"}
          /\ \/ \E l \in {"poll", "failed"} : pc' = [pc EXCEPT ![n] = l]
             \/ pc[n] = "probe" /\ pc' = [pc EXCEPT ![n] = "running"]
      BY <2>3, <1>2, <1>t DEF WaitRunning, GiveUp, Probe
    <3>2. CASE pc' = [pc EXCEPT ![n] = "poll"]
      <4>1. Verdict' = Verdict
        BY <3>1, <3>2, <1>t DEF Verdict
      <4> QED
        BY <3>1, <4>1, QuietStep
    <3>3. CASE pc' = [pc EXCEPT ![n] = "failed"]
      <4>1. Verdict[n] = "none" /\ Verdict' = [Verdict EXCEPT ![n] = "failed"]
        BY <3>1, <3>3, <1>t, <1>2 DEF Verdict
      <4>2. Shared!Return(n)
        BY <3>1, <4>1 DEF Shared!Return, Verdict
      <4> QED
        BY <4>2, <1>2 DEF Shared!Next
    <3>4. CASE pc[n] = "probe" /\ pc' = [pc EXCEPT ![n] = "running"]
      <4>1. Verdict[n] = "none" /\ Verdict' = [Verdict EXCEPT ![n] = "running"]
        BY <3>1, <3>4, <1>t, <1>2 DEF Verdict
      <4>2. Needed = "yes" => Trusted[n] # {}
        <5>1. Needed = "yes" => priv \in authorized[n] /\ priv # UserKey
          BY <3>4, <1>2 DEF KeyInv, ProbedInv, SoundInv, Needed
        <5> QED
          BY <5>1, <1>2 DEF Trusted
      <4>3. Shared!Return(n)
        BY <3>1, <4>1, <4>2 DEF Shared!Return, Verdict, Needed, Trusted
      <4> QED
        BY <4>3, <1>2 DEF Shared!Next
    <3> QED
      BY <3>1, <3>2, <3>3, <3>4
  <2>4. CASE SavePrivate(n) \/ SavePublic(n)
    <3>1. /\ UNCHANGED <<connect, userKey, authorized>>
          /\ pc[n] \in {"savePriv", "savePub"}
          /\ \E l \in {"savePub", "unlock", "unlockErr"} : pc' = [pc EXCEPT ![n] = l]
          /\ priv' \in Int /\ pub' \in Int
      BY <2>4, <1>2, TypeStep, <1>t DEF SavePrivate, SavePublic, Next, IsAWSInstanceRunning,
         AssignNewSSHKey, TypeOK
    <3>2. Verdict' = Verdict
      BY <3>1, <1>t DEF Verdict
    <3>3. userKey = "absent" /\ ~Settled
      BY <3>1, <1>2 DEF KeyInv, UserInv, InLock, Settled
    <3>4. Trusted = [m \in Nodes |-> {}]
      BY <3>3 DEF KeyInv, SharedInv, Trusted
    <3>5. Shared!Write
      BY <3>1, <3>2, <3>4 DEF Shared!Write, Trusted, Verdict
    <3> QED
      BY <3>5 DEF Shared!Next
  <2>5. CASE DialAndAuthorize(n)
    <3>1. /\ UNCHANGED <<connect, userKey, priv, pub>> /\ pc[n] = "dial"
          /\ \E l \in {"poll", "probe"} : pc' = [pc EXCEPT ![n] = l]
          /\ \/ UNCHANGED authorized
             \/ /\ CanDial(n)
                /\ authorized' = [authorized EXCEPT ![n] = authorized[n] \cup {key[n].public}]
      BY <2>5, <1>2, <1>t DEF DialAndAuthorize
    <3>2. Verdict' = Verdict /\ Verdict[n] = "none"
      BY <3>1, <1>t, <1>2 DEF Verdict
    <3>3. CASE UNCHANGED authorized
      BY <3>1, <3>2, <3>3, QuietStep
    <3>4. CASE /\ CanDial(n) /\ userKey = "absent"
               /\ authorized' = [authorized EXCEPT ![n] = authorized[n] \cup {key[n].public}]
      <4>1. key[n].signer = priv /\ key[n].public = pub /\ priv = pub /\ authorized[n] \subseteq {priv}
        BY <3>4, <3>1, <1>2 DEF KeyInv, SharedInv, HoldsPair, CanDial
      <4>2. authorized' = [authorized EXCEPT ![n] = {priv}]
        BY <4>1, <3>4
      <4>3. priv \in Int \ {NoFile, Corrupt} /\ priv # UserKey
        <5>1. priv \in sent[n] \cup authorized[n]
          BY <4>1, <3>4 DEF CanDial
        <5> QED
          BY <5>1, <1>2, <1>t DEF SoundInv
      <4>4. Trusted' = [Trusted EXCEPT ![n] = {priv}]
        BY <4>2, <4>3, <1>t DEF Trusted
      <4>5. Shared!Trust(n)
        BY <3>1, <3>2, <4>1, <4>3, <4>4 DEF Shared!Trust, Verdict, Trusted
      <4> QED
        BY <4>5, <1>2 DEF Shared!Next
    <3>5. CASE /\ userKey # "absent"
               /\ authorized' = [authorized EXCEPT ![n] = authorized[n] \cup {key[n].public}]
      <4>1. key[n].public = UserKey
        BY <3>1, <3>5, <1>2 DEF KeyInv, UserInv
      <4>2. Trusted' = Trusted
        BY <4>1, <3>5, <1>t DEF Trusted
      <4> QED
        BY <3>1, <3>2, <4>2 DEF Shared!sharedVars, Verdict, Trusted
    <3> QED
      BY <3>1, <3>3, <3>4, <3>5
  <2> QED
    BY <1>2, <2>1, <2>2, <2>3, <2>4, <2>5 DEF IsAWSInstanceRunning, AssignNewSSHKey
<1> QED
  BY <1>1, <1>2 DEF Next

\* The checks keep the promise of SharedKey, for any set of nodes and any bound on
\* the polls.
THEOREM SharedKeyImplemented == Spec => ImplementsSharedKey
  BY KeyInvariance, KeyInvInit, KeyInvStep, SharedInit, SoundStep, SharedNext, PTL
  DEF Spec, ImplementsSharedKey, Shared!Spec

\* The promise itself: one key, whole, for all machines that trust a shared key and
\* for all found running where it is needed (OneKey of SharedKey).
THEOREM OneKeyCorrect == Spec => []Shared!OneKey
<1>1. Shared!Init => Shared!OneKey
  BY DEF Shared!Init, Shared!OneKey
<1>2. ASSUME Shared!OneKey, [Shared!Next]_(Shared!sharedVars) PROVE Shared!OneKey'
  <2> USE DEF Shared!OneKey
  <2>1. CASE UNCHANGED Shared!sharedVars
    BY <1>2, <2>1 DEF Shared!sharedVars
  <2>2. CASE Shared!Write
    BY <1>2, <2>2 DEF Shared!Write
  <2>3. ASSUME NEW n \in Nodes, Shared!Trust(n) PROVE Shared!OneKey'
    BY <1>2, <2>3 DEF Shared!Trust
  <2>4. ASSUME NEW n \in Nodes, Shared!Return(n) PROVE Shared!OneKey'
    BY <1>2, <2>4 DEF Shared!Return
  <2> QED
    BY <1>2, <2>1, <2>2, <2>3, <2>4 DEF Shared!Next
<1> QED
  BY <1>1, <1>2, SharedKeyImplemented, PTL DEF ImplementsSharedKey, Shared!Spec

-----------------------------------------------------------------------------
(***************************************************************************)
(* Why a check returns (ChecksReturn), as far as single steps show it.     *)
(***************************************************************************)

\* Who waits for sshKeyMu waits for another goroutine, and that one is between its
\* Lock and its Unlock, where no step depends on anybody.
HolderIsAtWork ==
    \A n \in Nodes : pc[n] = "lock" /\ ~LockFree =>
        \E m \in Nodes \ {n} : sshKeyMu = m /\ InLock(m)

\* The mutex is never left locked behind a return of assignNewSSHKey.
THEOREM HolderCorrect == Spec => []HolderIsAtWork
<1>1. TypeOK /\ KeyInv => HolderIsAtWork
  BY DEF TypeOK, KeyInv, MutexInv, InLock, LockFree, HolderIsAtWork
<1> QED
  BY <1>1, KeyInvariance, PTL

\* How far a goroutine is from the head of the poll loop, or from its return, and
\* how many steps it can take at most.
StepsInPoll == [key |-> 10, lock |-> 9, locked |-> 8, savePriv |-> 7, savePub |-> 6,
                unlock |-> 5, send |-> 4, dial |-> 3, probe |-> 2, unlockErr |-> 2,
                wait |-> 2, poll |-> 1, running |-> 0, failed |-> 0]
StepsToGo(n) == 10 * (MaxPolls - polls[n]) + StepsInPoll[pc[n]]

\* Every step brings one check nearer to its return and leaves the others where
\* they are; a check takes ten steps per poll, at most, and two more.
EveryStepCounts ==
    \E n \in Nodes : /\ StepsToGo(n)' < StepsToGo(n)
                     /\ \A m \in Nodes \ {n} : StepsToGo(m)' = StepsToGo(m)
Bounded == \A n \in Nodes : StepsToGo(n) \in 0 .. 10 * MaxPolls + 2

\* The distances, one by one.
LEMMA Distances ==
    /\ DOMAIN StepsInPoll = {"wait", "poll", "key", "lock", "locked", "savePriv", "savePub",
                             "unlock", "unlockErr", "send", "dial", "probe", "running", "failed"}
    /\ StepsInPoll["key"] = 10 /\ StepsInPoll["lock"] = 9 /\ StepsInPoll["locked"] = 8
    /\ StepsInPoll["savePriv"] = 7 /\ StepsInPoll["savePub"] = 6 /\ StepsInPoll["unlock"] = 5
    /\ StepsInPoll["send"] = 4 /\ StepsInPoll["dial"] = 3 /\ StepsInPoll["probe"] = 2
    /\ StepsInPoll["unlockErr"] = 2 /\ StepsInPoll["wait"] = 2 /\ StepsInPoll["poll"] = 1
    /\ StepsInPoll["running"] = 0 /\ StepsInPoll["failed"] = 0
  BY DEF StepsInPoll

\* No retry of assignNewSSHKey is free: each costs a poll (isAWSInstanceRunning).
LEMMA StepCounts ==
    ASSUME TypeOK, NEW n \in Nodes, IsAWSInstanceRunning(n)
    PROVE  EveryStepCounts
<1> USE DEF Goto
<1>t. /\ pc \in [Nodes -> DOMAIN StepsInPoll] /\ polls \in [Nodes -> 0 .. MaxPolls]
      /\ MaxPolls \in Nat
  BY Distances, InstanceCheckAssumption DEF TypeOK
<1>1. ASSUME NEW l \in DOMAIN StepsInPoll, pc' = [pc EXCEPT ![n] = l],
             \/ polls' = polls /\ StepsInPoll[l] < StepsInPoll[pc[n]]
             \/ /\ polls' = [polls EXCEPT ![n] = @ + 1]
                /\ pc[n] = "poll" /\ l \in {"poll", "key", "probe"}
      PROVE  EveryStepCounts
  <2>1. \A m \in Nodes \ {n} : pc'[m] = pc[m] /\ polls'[m] = polls[m]
    BY <1>1, <1>t
  <2>2. pc'[n] = l
    BY <1>1, <1>t
  <2>3. CASE polls' = polls /\ StepsInPoll[l] < StepsInPoll[pc[n]]
    <3>1. polls[n] \in Nat /\ StepsInPoll[l] \in Nat /\ StepsInPoll[pc[n]] \in Nat
      BY <1>t, Distances
    <3>2. StepsToGo(n)' < StepsToGo(n)
      BY <2>2, <2>3, <3>1, <1>t DEF StepsToGo
    <3> QED
      BY <2>1, <3>2 DEF EveryStepCounts, StepsToGo
  <2>4. CASE /\ polls' = [polls EXCEPT ![n] = @ + 1]
             /\ pc[n] = "poll" /\ l \in {"poll", "key", "probe"}
    <3>1. polls'[n] = polls[n] + 1 /\ polls[n] \in Nat
      BY <2>4, <1>t
    <3>2. StepsInPoll[pc[n]] = 1 /\ StepsInPoll[l] \in {1, 2, 10}
      BY <2>4, Distances
    <3>3. StepsToGo(n)' < StepsToGo(n)
      BY <2>2, <3>1, <3>2, <1>t DEF StepsToGo
    <3> QED
      BY <2>1, <3>3 DEF EveryStepCounts, StepsToGo
  <2> QED
    BY <1>1, <2>3, <2>4
<1>2. CASE Poll(n)
  <2>1. polls' = [polls EXCEPT ![n] = @ + 1] /\ pc[n] = "poll"
    BY <1>2 DEF Poll
  <2>2. \E l \in {"poll", "key", "probe"} : pc' = [pc EXCEPT ![n] = l]
    BY <1>2, <1>t DEF Poll
  <2> QED
    BY <2>1, <2>2, <1>1, Distances
<1>3. ASSUME ~Poll(n)
      PROVE  /\ polls' = polls
             /\ \E l \in DOMAIN StepsInPoll :
                   pc' = [pc EXCEPT ![n] = l] /\ StepsInPoll[l] < StepsInPoll[pc[n]]
  <2> USE Distances
  <2>1. CASE WaitRunning(n) \/ GiveUp(n) \/ Probe(n)
    BY <2>1 DEF WaitRunning, GiveUp, Probe
  <2>2. CASE LoadUserKey(n)
    BY <2>2 DEF LoadUserKey
  <2>3. CASE Lock(n)
    BY <2>3 DEF Lock
  <2>4. CASE LoadSharedKey(n)
    BY <2>4 DEF LoadSharedKey
  <2>5. CASE GenerateSSHKeypair(n)
    BY <2>5 DEF GenerateSSHKeypair
  <2>6. CASE SavePrivate(n)
    BY <2>6 DEF SavePrivate
  <2>7. CASE SavePublic(n)
    BY <2>7 DEF SavePublic
  <2>8. CASE Unlock(n)
    BY <2>8 DEF Unlock
  <2>9. CASE SendSSHPublicKey(n)
    BY <2>9 DEF SendSSHPublicKey
  <2>10. CASE DialAndAuthorize(n)
    BY <2>10 DEF DialAndAuthorize
  <2> QED
    BY <1>3, <2>1, <2>2, <2>3, <2>4, <2>5, <2>6, <2>7, <2>8, <2>9, <2>10
    DEF IsAWSInstanceRunning, AssignNewSSHKey
<1> QED
  BY <1>1, <1>2, <1>3

\* No check goes round in circles, for any bound on the polls: with HolderCorrect, all
\* of them return.
THEOREM ProgressCorrect == Spec => []Bounded /\ [][EveryStepCounts]_vars
<1>1. TypeOK => \A n \in Nodes : StepsToGo(n) \in Nat
  BY Distances, InstanceCheckAssumption DEF TypeOK, StepsToGo
<1>2. TypeOK /\ [Next]_vars => [EveryStepCounts]_vars
  BY StepCounts DEF Next, Ended
<1>3. Init => Bounded
  BY Distances, InstanceCheckAssumption DEF Init, Bounded, StepsToGo
<1>4. ASSUME TypeOK, TypeOK', Bounded, [Next]_vars PROVE Bounded'
  <2>1. \A n \in Nodes : StepsToGo(n)' <= StepsToGo(n)
    <3>1. CASE EveryStepCounts
      <4>1. \A n \in Nodes : StepsToGo(n) \in Nat /\ StepsToGo(n)' \in Nat
        BY <1>1, <1>4, Distances, InstanceCheckAssumption DEF TypeOK, StepsToGo
      <4> QED
        BY <3>1, <4>1 DEF EveryStepCounts
    <3>2. CASE UNCHANGED vars
      BY <3>2, <1>1, <1>4 DEF vars, loopVars, StepsToGo
    <3> QED
      BY <1>2, <1>4, <3>1, <3>2
  <2>2. \A n \in Nodes : StepsToGo(n)' \in Nat
    BY <1>4, Distances, InstanceCheckAssumption DEF TypeOK, StepsToGo
  <2> QED
    BY <1>4, <2>1, <2>2, InstanceCheckAssumption DEF Bounded
<1> QED
  BY <1>1, <1>2, <1>3, <1>4, KeyInvariance, PTL DEF Spec
=============================================================================
