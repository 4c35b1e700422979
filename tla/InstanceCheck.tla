--------------------------- MODULE InstanceCheck ---------------------------
(***************************************************************************)
(* isAWSInstanceRunning, run by one goroutine per instance, down to the    *)
(* files: the bounded poll loop, assignNewSSHKey with the key pair the     *)
(* goroutines share through ~/.ssh/kube_aws_rsa and sshKeyMu, EC2 instance *)
(* connect, and the probes over ssh that use the key file.                 *)
(*                                                                         *)
(* A key pair is a positive number, and so are the private and the public  *)
(* half in a file.  Key 1 is one an earlier run left, later ones are fresh.*)
(***************************************************************************)
EXTENDS Integers, FiniteSets

CONSTANTS Nodes,     \* the instances under check
          MaxPolls,  \* iterations of the poll loop (30 in the code)
          Nobody     \* the owner of a free mutex

ASSUME InstanceCheckAssumption == MaxPolls \in Nat \ {0} /\ Nobody \notin Nodes

NoFile == 0
Corrupt == -1        \* a file cut short by a failed write
OldKey == 1
UserKey == -2        \* a pair in ~/.ssh/id_rsa or ~/.ssh/id_ed25519

VARIABLES
    connect,     \* the flag Ec2InstanceConnect: "on" or "off"
    userKey,     \* the user's own pair: "absent", "good" or "bad" (unreadable)
    priv, pub,   \* the files kube_aws_rsa and kube_aws_rsa.pub
    sshKeyMu,    \* the goroutine that holds the mutex, or Nobody
    fresh,       \* the next key GenerateSSHKeypair returns
    pc,          \* where each goroutine is
    polls,       \* iterations of the poll loop begun
    createdSSHKey, \* "yes" once assignNewSSHKey succeeded
    key,         \* the pair in hand: [signer, public]
    sent,        \* the public keys given to instance connect for the node
    authorized   \* the public keys in the node's authorized_keys

fileVars == <<priv, pub>>
nodeVars == <<sent, authorized>>
loopVars == <<pc, polls, createdSSHKey>>
vars == <<connect, userKey, fileVars, sshKeyMu, fresh, loopVars, key, nodeVars>>

Init ==
    /\ connect \in {"on", "off"}
    /\ userKey \in {"absent", "good", "bad"}
    /\ priv \in {NoFile, Corrupt, OldKey} /\ pub \in {NoFile, Corrupt, OldKey}
    /\ sshKeyMu = Nobody
    /\ fresh = OldKey + 1
    /\ pc = [n \in Nodes |-> "wait"]
    /\ polls = [n \in Nodes |-> 0]
    /\ createdSSHKey = [n \in Nodes |-> "no"]
    /\ key = [n \in Nodes |-> [signer |-> NoFile, public |-> NoFile]]
    /\ sent = [n \in Nodes |-> {}]
    /\ authorized = [n \in Nodes |-> {}]

Goto(n, label) == pc' = [pc EXCEPT ![n] = label]

-----------------------------------------------------------------------------
(***************************************************************************)
(* The poll loop of isAWSInstanceRunning.                                  *)
(***************************************************************************)

\* The instance-running waiter, five minutes at most.
WaitRunning(n) ==
    /\ pc[n] = "wait"
    /\ Goto(n, "poll") \/ Goto(n, "failed")
    /\ UNCHANGED <<connect, userKey, fileVars, sshKeyMu, fresh, polls, createdSSHKey,
                   key, nodeVars>>

LoopGoesOn(n) == polls[n] < MaxPolls

\* One iteration up to the key: not running yet, or no interface yet, is a
\* continue.
Poll(n) ==
    /\ pc[n] = "poll" /\ LoopGoesOn(n)
    /\ polls' = [polls EXCEPT ![n] = @ + 1]
    /\ \/ UNCHANGED pc
       \/ Goto(n, IF connect = "on" /\ createdSSHKey[n] = "no" THEN "key" ELSE "probe")
    /\ UNCHANGED <<connect, userKey, fileVars, sshKeyMu, fresh, createdSSHKey, key,
                   nodeVars>>

\* The loop ran out.
GiveUp(n) ==
    /\ pc[n] = "poll" /\ ~LoopGoesOn(n)
    /\ Goto(n, "failed")
    /\ UNCHANGED <<connect, userKey, fileVars, sshKeyMu, fresh, polls, createdSSHKey,
                   key, nodeVars>>

\* The ssh probes: containerd, cloud-init and, on the control plane, the API
\* server.  The machine decides how they end.
Probe(n) ==
    /\ pc[n] = "probe"
    /\ \/ Goto(n, "poll")
       \/ Goto(n, "running")
    /\ UNCHANGED <<connect, userKey, fileVars, sshKeyMu, fresh, polls, createdSSHKey,
                   key, nodeVars>>

-----------------------------------------------------------------------------
(***************************************************************************)
(* assignNewSSHKey.  An error returns to the poll loop.                    *)
(***************************************************************************)

\* The user's own key comes first, and one that cannot be loaded is an error.
LoadUserKey(n) ==
    /\ pc[n] = "key"
    /\ \/ /\ userKey = "good"
          /\ key' = [key EXCEPT ![n] = [signer |-> UserKey, public |-> UserKey]]
          /\ Goto(n, "send")
       \/ userKey = "bad" /\ Goto(n, "poll") /\ UNCHANGED key
       \/ userKey = "absent" /\ Goto(n, "lock") /\ UNCHANGED key
    /\ UNCHANGED <<connect, userKey, fileVars, sshKeyMu, fresh, polls, createdSSHKey,
                   nodeVars>>

LockFree_Skipped == TRUE      \* fault: no mutex
LockFree == sshKeyMu = Nobody

Lock(n) ==
    /\ pc[n] = "lock" /\ LockFree
    /\ sshKeyMu' = n
    /\ Goto(n, "locked")
    /\ UNCHANGED <<connect, userKey, fileVars, fresh, polls, createdSSHKey, key,
                   nodeVars>>

LocalSSHKeyExists == priv # NoFile /\ pub # NoFile

\* The shared pair is on disk: the public half is taken as it is, the private
\* half has to parse.
LoadSharedKey(n) ==
    /\ pc[n] = "locked" /\ LocalSSHKeyExists
    /\ IF priv = Corrupt
         THEN Goto(n, "unlockErr") /\ UNCHANGED key
         ELSE /\ key' = [key EXCEPT ![n] = [signer |-> priv, public |-> pub]]
              /\ Goto(n, "unlock")
    /\ UNCHANGED <<connect, userKey, fileVars, sshKeyMu, fresh, polls, createdSSHKey,
                   nodeVars>>

GenerateSSHKeypair(n) ==
    /\ pc[n] = "locked" /\ ~LocalSSHKeyExists
    /\ key' = [key EXCEPT ![n] = [signer |-> fresh, public |-> fresh]]
    /\ fresh' = fresh + 1
    /\ Goto(n, "savePriv")
    /\ UNCHANGED <<connect, userKey, fileVars, sshKeyMu, polls, createdSSHKey, nodeVars>>

\* SaveSSHKeyAs.  A write that fails leaves the file as it was or truncated.
SavePrivate(n) ==
    /\ pc[n] = "savePriv"
    /\ \/ priv' = key[n].signer /\ Goto(n, "savePub")
       \/ priv' \in {priv, Corrupt} /\ Goto(n, "unlockErr")
    /\ UNCHANGED <<connect, userKey, pub, sshKeyMu, fresh, polls, createdSSHKey, key,
                   nodeVars>>

SavePublic(n) ==
    /\ pc[n] = "savePub"
    /\ \/ pub' = key[n].public /\ Goto(n, "unlock")
       \/ pub' \in {pub, Corrupt} /\ Goto(n, "unlockErr")
    /\ UNCHANGED <<connect, userKey, priv, sshKeyMu, fresh, polls, createdSSHKey, key,
                   nodeVars>>

UnlockOnError_Leaks == sshKeyMu        \* fault: an early return keeps the mutex
UnlockOnError == Nobody

Unlock(n) ==
    /\ \/ pc[n] = "unlock" /\ Goto(n, "send") /\ sshKeyMu' = Nobody
       \/ pc[n] = "unlockErr" /\ Goto(n, "poll") /\ sshKeyMu' = UnlockOnError
    /\ UNCHANGED <<connect, userKey, fileVars, fresh, polls, createdSSHKey, key, nodeVars>>

\* EC2 refuses a public key it cannot read, and holds one it takes for a minute:
\* the dial may find it expired.
SendSSHPublicKey(n) ==
    /\ pc[n] = "send"
    /\ \/ Goto(n, "poll") /\ UNCHANGED sent
       \/ /\ key[n].public # Corrupt
          /\ sent' = [sent EXCEPT ![n] = @ \cup {key[n].public}]
          /\ Goto(n, "dial")
    /\ UNCHANGED <<connect, userKey, fileVars, sshKeyMu, fresh, polls, createdSSHKey,
                   key, authorized>>

\* ssh.Dial with the signer, then the command that appends the public key to
\* authorized_keys (it may have run although its session failed), and AddSSHKey.
CanDial_Skipped(n) == TRUE    \* fault: the signer is not tried
CanDial(n) == key[n].signer \in sent[n] \cup authorized[n]

\* Fault: an error of the dial is logged but the loop does not continue.
DialAndAuthorize_NoContinue(n) ==
    /\ pc[n] = "dial"
    /\ \/ Goto(n, "probe") /\ UNCHANGED <<createdSSHKey, authorized>>
       \/ /\ CanDial(n)
          /\ authorized' = [authorized EXCEPT ![n] = @ \cup {key[n].public}]
          /\ Goto(n, "probe") /\ createdSSHKey' = [createdSSHKey EXCEPT ![n] = "yes"]
    /\ UNCHANGED <<connect, userKey, fileVars, sshKeyMu, fresh, polls, key, sent>>

DialAndAuthorize(n) ==
    /\ pc[n] = "dial"
    /\ \/ Goto(n, "poll") /\ UNCHANGED <<createdSSHKey, authorized>>
       \/ /\ CanDial(n)
          /\ authorized' = [authorized EXCEPT ![n] = @ \cup {key[n].public}]
          /\ \/ Goto(n, "poll") /\ UNCHANGED createdSSHKey
             \/ Goto(n, "probe") /\ createdSSHKey' = [createdSSHKey EXCEPT ![n] = "yes"]
    /\ UNCHANGED <<connect, userKey, fileVars, sshKeyMu, fresh, polls, key, sent>>

-----------------------------------------------------------------------------
AssignNewSSHKey(n) ==
    \/ LoadUserKey(n) \/ Lock(n) \/ LoadSharedKey(n) \/ GenerateSSHKeypair(n)
    \/ SavePrivate(n) \/ SavePublic(n) \/ Unlock(n)
    \/ SendSSHPublicKey(n) \/ DialAndAuthorize(n)

IsAWSInstanceRunning(n) ==
    \/ WaitRunning(n) \/ Poll(n) \/ GiveUp(n) \/ Probe(n)
    \/ AssignNewSSHKey(n)

Returned(n) == pc[n] \in {"running", "failed"}

\* Every goroutine has returned.
Ended == (\A n \in Nodes : Returned(n)) /\ UNCHANGED vars

Next == (\E n \in Nodes : IsAWSInstanceRunning(n)) \/ Ended

Spec == Init /\ [][Next]_vars

\* Go schedules every goroutine, and a mutex waiter is not starved (Go hands
\* the mutex over after a millisecond of waiting).
FairSpec == Spec /\ \A n \in Nodes : /\ WF_vars(IsAWSInstanceRunning(n))
                                     /\ SF_vars(Lock(n))

-----------------------------------------------------------------------------
(***************************************************************************)
(* Properties.                                                             *)
(***************************************************************************)
TypeOK ==
    /\ connect \in {"on", "off"} /\ userKey \in {"absent", "good", "bad"}
    /\ priv \in Int /\ pub \in Int
    /\ sshKeyMu \in Nodes \cup {Nobody}
    /\ fresh \in Nat \ {NoFile, OldKey}
    /\ pc \in [Nodes -> {"wait", "poll", "key", "lock", "locked", "savePriv", "savePub",
                         "unlock", "unlockErr", "send", "dial", "probe", "running",
                         "failed"}]
    /\ polls \in [Nodes -> 0 .. MaxPolls]
    /\ createdSSHKey \in [Nodes -> {"yes", "no"}]
    /\ key \in [Nodes -> [signer : Int, public : Int]]
    /\ sent \in [Nodes -> SUBSET Int]
    /\ authorized \in [Nodes -> SUBSET Int]

\* Up and the e2e framework use one key for all nodes ("every node trusts the
\* shared key that assignNewSSHKey persisted"): the pair kube_aws_rsa holds at
\* the end is trusted by every node that got a key or was found running, whatever
\* writes failed on the way and in whatever order the goroutines came.
NodesTrustSharedKey ==
    connect = "on" /\ userKey = "absent" =>
        \A n \in Nodes : createdSSHKey[n] = "yes" \/ pc[n] = "running" =>
            priv = pub /\ priv \in authorized[n]

\* From the moment a node trusts a shared key its files are never rewritten: no
\* goroutine that comes later replaces the pair others already work with.
TrustedKeyStays ==
    [][(\E n \in Nodes : authorized[n] \ {UserKey} # {}) => UNCHANGED fileVars]_vars

\* The checks behave as SharedKey says: one pair, whole, for all nodes, that is
\* never replaced once a node trusts it, and one verdict per check.
Shared == INSTANCE SharedKey WITH
    Key <- Int \ {NoFile, Corrupt},
    needed <- IF connect = "on" /\ userKey = "absent" THEN "yes" ELSE "no",
    pair <- <<priv, pub>>,
    trusted <- [n \in Nodes |-> authorized[n] \ {UserKey}],
    verdict <- [n \in Nodes |-> IF pc[n] \in {"running", "failed"} THEN pc[n] ELSE "none"]

ImplementsSharedKey == Shared!Spec

\* Every check returns: the mutex is released on every path and the poll loop is
\* bounded.
ChecksReturn == \A n \in Nodes : <>Returned(n)
=============================================================================
