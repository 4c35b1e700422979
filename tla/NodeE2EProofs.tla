--------------------------- MODULE NodeE2EProofs ---------------------------
(***************************************************************************)
(* Proofs of the safety properties of NodeE2E, for any set of images made  *)
(* from any AMIs.  The invariant has one part for what a goroutine has in  *)
(* hand at each place, one for the results the main goroutine counts, one  *)
(* for what the deferred calls have left behind them, and one for tests    *)
(* that each launched an instance of their own.                            *)
(***************************************************************************)
EXTENDS NodeE2E, FiniteSetTheorems, TLAPS

Typed == TypeOK /\ (proc = "running" => interrupts \in 0 .. 1)

Hosted == {"wait", "key", "probe", "run", "remove", "delete"}
Sent == {"send", "done"}

\* Nothing is launched twice: a test that has not launched yet has no instance
\* of its name, and the instance a test has in hand is one that was launched.
HandInv ==
    \A i \in Images :
        /\ pc[i] \in {"find", "launch"} => machine[i] = "none"
        /\ host[i] # None => machine[host[i]] # "none"
        /\ pc[i] \in Hosted \/ (pc[i] \in Sent /\ result[i] # "noHost") => host[i] \in Instances

Done == {i \in Images : pc[i] = "done"}

\* What was received is what the tests that are done had to say.
ResultsInv ==
    /\ received = Cardinality(Done)
    /\ exitOk = "yes" => \A i \in Done : result[i] = "ok"
    /\ exitOk = "no" => \E i \in Done : result[i] # "ok"
    /\ Exited => received = NumTests
    /\ proc = "exit0" => exitOk = "yes"
    /\ proc = "exit1" => exitOk = "no"

CleanedUp(i) ==
    /\ i \notin files
    /\ deleteInstances = "on" => machine[host[i]] = "terminated" \/ i \in terminateErr

\* The deferred calls of a test, in their order.
DefersInv ==
    /\ connect = "off" => files = {}
    /\ \A i \in Images :
          /\ pc[i] = "delete" => i \notin files
          /\ pc[i] \in Sent /\ result[i] # "noHost" => CleanedUp(i)

\* Without reuse a test is alone with the instance it launched.
AloneInv ==
    reuse = "off" => \A i \in Images :
        /\ host[i] \in {None, i}
        /\ pc[i] \in {"key", "probe", "run"} => machine[i] = "running"
        /\ pc[i] \in {"probe", "run"} /\ connect = "on" => overrides[i] = i /\ i \in files

\* A test whose suite has run, and that is past its key file.
Left(j) == pc[j] \in {"delete", "send", "done"} /\ result[j] \in {"ok", "err"}

\* A test that shares the instance and is past its suite.
Sharer(i) == \E j \in Images \ {i} : host[j] = host[i] /\ Left(j)

\* What may become of an instance, and of the key registered for it, while tests
\* that share it are at work.
SharedInv ==
    /\ \A i \in Images :
          /\ pc[i] \in {"remove", "delete"} => result[i] \in {"ok", "err"}
          /\ pc[i] \in {"key", "probe", "run"} => HostRuns(i) \/ Sharer(i)
          /\ pc[i] \in {"probe", "run"} /\ connect = "on" => overrides[host[i]] # None
    /\ \A m \in Instances : overrides[m] # None =>
          /\ pc[overrides[m]] \notin {"find", "launch"} /\ host[overrides[m]] = m
          /\ overrides[m] \in files \/ Left(overrides[m])

IInv == Typed /\ HandInv /\ ResultsInv /\ DefersInv /\ AloneInv /\ SharedInv

-----------------------------------------------------------------------------
\* The number of results is a number.
LEMMA ImagesCounted == Cardinality(Images) \in Nat /\ IsFiniteSet(Images)
  BY NodeE2EAssumption, FS_CardinalityType

\* The program starts inside the invariant.
LEMMA InitIInv == Init => IInv
<1> SUFFICES ASSUME Init PROVE IInv
  OBVIOUS
<1> USE NodeE2EAssumption, ImagesCounted DEF Init, Instances
<1>1. Typed
  BY DEF Typed, TypeOK
<1>2. HandInv
  BY DEF HandInv, Hosted, Sent
<1>3. ResultsInv
  <2>1. Done = {}
    BY DEF Done
  <2>2. Cardinality({}) = 0
    BY FS_EmptySet
  <2> QED
    BY <2>1, <2>2 DEF ResultsInv, Exited
<1>4. DefersInv
  BY DEF DefersInv, Sent
<1>5. AloneInv
  BY DEF AloneInv
<1>6. SharedInv
  BY DEF SharedInv
<1> QED
  BY <1>1, <1>2, <1>3, <1>4, <1>5, <1>6 DEF IInv

\* What a step of a test leaves alone, whichever step it is.
LEMMA TestFrame ==
    ASSUME NEW i \in Images, TestAWSImage(i)
    PROVE  /\ proc = "running" /\ UNCHANGED <<flags, proc, interrupts>>
           /\ pc[i] # "send" => UNCHANGED <<received, exitOk>>
           /\ pc[i] # "delete" => UNCHANGED terminateErr
<1> USE DEF At, main
<1>1. CASE SendResult(i)
  BY <1>1 DEF SendResult
<1>2. CASE DeleteAWSInstance(i) /\ UNCHANGED <<flags, main, interrupts>>
  BY <1>2 DEF DeleteAWSInstance
<1>3. CASE /\ \/ FindInstance(i) \/ LaunchNewInstance(i) \/ WaitRunning(i)
              \/ AssignNewSSHKey(i) \/ ProbeContainerd(i)
              \/ RunRemote(i) \/ RemoveKeyFile(i)
           /\ UNCHANGED <<flags, terminateErr, main, interrupts>>
  <2>1. proc = "running"
    BY <1>3 DEF FindInstance, LaunchNewInstance, WaitRunning, AssignNewSSHKey,
                ProbeContainerd, RunRemote, RemoveKeyFile
  <2> QED
    BY <1>3, <2>1
<1> QED
  BY <1>1, <1>2, <1>3 DEF TestAWSImage

FlagsTyped == /\ {reuse, deleteInstances, connect} \subseteq {"on", "off"}
              /\ ami \in [Instances -> AMIs]
TestsTyped == /\ pc \in [Images -> {"find", "launch", "wait", "key", "probe", "run", "remove",
                                    "delete", "send", "done"}]
              /\ host \in [Images -> Instances \cup {None}]
              /\ result \in [Images -> {"none", "ok", "err", "noHost"}]
MachinesTyped == /\ machine \in [Instances -> {"none", "running", "terminated"}]
                 /\ overrides \in [Instances -> Images \cup {None}]
                 /\ files \subseteq Images /\ litter \subseteq Images
                 /\ terminateErr \subseteq Images
MainTyped == /\ received \in 0 .. Cardinality(Images)
             /\ exitOk \in {"yes", "no"}
             /\ interrupts \in 0 .. 2
             /\ proc \in {"running", "exit0", "exit1", "killed"}
             /\ proc = "running" => interrupts \in 0 .. 1

\* The types, a part at a time.
LEMMA TypedParts ==
    /\ Typed <=> FlagsTyped /\ TestsTyped /\ MachinesTyped /\ MainTyped
    /\ Typed' <=> FlagsTyped' /\ TestsTyped' /\ MachinesTyped' /\ MainTyped'
BY DEF Typed, TypeOK, FlagsTyped, TestsTyped, MachinesTyped, MainTyped

\* A test moves its own goroutine only, to places and results there are.
LEMMA TestsTypedStep ==
    ASSUME TestsTyped, NEW i \in Images, TestAWSImage(i)
    PROVE  TestsTyped'
<1> USE DEF TestsTyped, Goto, Instances
<1>e. CASE ReturnError(i)
  BY <1>e DEF ReturnError
<1>1. CASE FindInstance(i)
  BY <1>1, <1>e DEF FindInstance, Reusable
<1>2. CASE LaunchNewInstance(i)
  BY <1>2, <1>e DEF LaunchNewInstance
<1>3. CASE WaitRunning(i)
  BY <1>3, <1>e DEF WaitRunning
<1>4. CASE AssignNewSSHKey(i)
  BY <1>4, <1>e DEF AssignNewSSHKey
<1>5. CASE ProbeContainerd(i)
  BY <1>5, <1>e DEF ProbeContainerd
<1>6. CASE RunRemote(i)
  BY <1>6 DEF RunRemote, AfterTest
<1>7. CASE RemoveKeyFile(i)
  BY <1>7 DEF RemoveKeyFile
<1>8. CASE DeleteAWSInstance(i)
  BY <1>8 DEF DeleteAWSInstance
<1>9. CASE SendResult(i)
  BY <1>9 DEF SendResult
<1> QED
  BY <1>1, <1>2, <1>3, <1>4, <1>5, <1>6, <1>7, <1>8, <1>9 DEF TestAWSImage

\* What a test does to the instances and the key files.
LEMMA MachinesTypedStep ==
    ASSUME MachinesTyped, NEW i \in Images, TestAWSImage(i)
    PROVE  MachinesTyped'
<1> USE DEF MachinesTyped, keys
<1> USE TestFrame DEF At, Instances
<1>e. CASE ReturnError(i) /\ pc[i] # "delete"
  BY <1>e DEF ReturnError
<1>1. CASE FindInstance(i)
  BY <1>1, <1>e DEF FindInstance
<1>2. CASE LaunchNewInstance(i)
  BY <1>2, <1>e DEF LaunchNewInstance
<1>3. CASE WaitRunning(i)
  BY <1>3, <1>e DEF WaitRunning
<1>4. CASE AssignNewSSHKey(i)
  BY <1>4, <1>e DEF AssignNewSSHKey
<1>5. CASE ProbeContainerd(i)
  BY <1>5, <1>e DEF ProbeContainerd
<1>6. CASE RunRemote(i)
  BY <1>6 DEF RunRemote
<1>7. CASE RemoveKeyFile(i)
  BY <1>7 DEF RemoveKeyFile
<1>8. CASE DeleteAWSInstance(i)
  BY <1>8 DEF DeleteAWSInstance
<1>9. CASE SendResult(i)
  BY <1>9 DEF SendResult
<1> QED
  BY <1>1, <1>2, <1>3, <1>4, <1>5, <1>6, <1>7, <1>8, <1>9 DEF TestAWSImage

\* No step leaves the types.
LEMMA TypedStep ==
    ASSUME Typed, Next
    PROVE  Typed'
<1> USE NodeE2EAssumption, ImagesCounted, TypedParts
<1>1. ASSUME NEW i \in Images, TestAWSImage(i) PROVE Typed'
  <2>1. FlagsTyped'
    BY <1>1, TestFrame DEF FlagsTyped, flags
  <2>2. MainTyped'
    <3>1. CASE SendResult(i)
      BY <1>1, <3>1, TestFrame DEF MainTyped, SendResult, ExitOk, NumTests
    <3>2. CASE pc[i] # "send"
      BY <1>1, <3>2, TestFrame DEF MainTyped
    <3>3. pc[i] = "send" => SendResult(i)
      BY <1>1 DEF TestAWSImage, At, FindInstance, LaunchNewInstance, WaitRunning,
                  AssignNewSSHKey, ProbeContainerd, RunRemote, RemoveKeyFile, DeleteAWSInstance
    <3> QED
      BY <3>1, <3>2, <3>3
  <2> QED
    BY <1>1, <2>1, <2>2, TestsTypedStep, MachinesTypedStep
<1>2. CASE Exit
  BY <1>2 DEF Exit, flags, keys, FlagsTyped, TestsTyped, MachinesTyped, MainTyped
<1>3. CASE Interrupt
  BY <1>3 DEF Interrupt, HandlerExits, flags, keys, FlagsTyped, TestsTyped, MachinesTyped,
              MainTyped
<1>4. CASE Ended
  BY <1>4 DEF Ended, vars, flags, keys, main, FlagsTyped, TestsTyped, MachinesTyped, MainTyped
<1> QED
  BY <1>1, <1>2, <1>3, <1>4 DEF Next

-----------------------------------------------------------------------------
\* Exit, Interrupt and Ended leave the tests and the instances alone.
LEMMA OtherSteps ==
    ASSUME Exit \/ Interrupt \/ Ended
    PROVE  UNCHANGED <<flags, pc, host, result, machine, keys, terminateErr, received, exitOk>>
<1>1. CASE Exit
  BY <1>1 DEF Exit
<1>2. CASE Interrupt
  BY <1>2 DEF Interrupt
<1>3. CASE Ended
  BY <1>3 DEF Ended, vars, main
<1> QED
  BY <1>1, <1>2, <1>3

\* What a test has in hand was launched, and it launches only once.
LEMMA HandStep ==
    ASSUME Typed, HandInv, Next
    PROVE  HandInv'
<1> USE NodeE2EAssumption DEF HandInv, Hosted, Sent
<1>t. TestsTyped /\ MachinesTyped
  BY TypedParts
<1>1. ASSUME NEW i \in Images, TestAWSImage(i) PROVE HandInv'
  <2> USE <1>1, <1>t DEF TestsTyped, MachinesTyped, At, Goto, Instances
  <2>e. CASE ReturnError(i)
    BY <2>e DEF ReturnError
  <2>1. CASE FindInstance(i)
    BY <2>1, <2>e DEF FindInstance, Reusable
  <2>2. CASE LaunchNewInstance(i)
    BY <2>2, <2>e DEF LaunchNewInstance
  <2>3. CASE WaitRunning(i)
    BY <2>3, <2>e DEF WaitRunning
  <2>4. CASE AssignNewSSHKey(i)
    BY <2>4, <2>e DEF AssignNewSSHKey
  <2>5. CASE ProbeContainerd(i)
    BY <2>5, <2>e DEF ProbeContainerd
  <2>6. CASE RunRemote(i)
    BY <2>6 DEF RunRemote, AfterTest
  <2>7. CASE RemoveKeyFile(i)
    BY <2>7 DEF RemoveKeyFile
  <2>8. CASE DeleteAWSInstance(i)
    BY <2>8 DEF DeleteAWSInstance
  <2>9. CASE SendResult(i)
    BY <2>9 DEF SendResult
  <2> QED
    BY <2>1, <2>2, <2>3, <2>4, <2>5, <2>6, <2>7, <2>8, <2>9 DEF TestAWSImage
<1>2. CASE Exit \/ Interrupt \/ Ended
  BY <1>2, OtherSteps
<1> QED
  BY <1>1, <1>2 DEF Next

\* The deferred calls have run before the result is sent.
LEMMA DefersStep ==
    ASSUME Typed, HandInv, DefersInv, Next
    PROVE  DefersInv'
<1> USE NodeE2EAssumption DEF HandInv, DefersInv, CleanedUp, Hosted, Sent
<1>t. TestsTyped /\ MachinesTyped /\ FlagsTyped
  BY TypedParts
<1>1. ASSUME NEW i \in Images, TestAWSImage(i) PROVE DefersInv'
  <2> USE <1>1, <1>t, TestFrame DEF TestsTyped, MachinesTyped, FlagsTyped, At, Goto, Instances,
          flags, keys
  <2>e. CASE ReturnError(i) /\ pc[i] \notin Sent \cup {"delete"}
    BY <2>e DEF ReturnError
  <2>1. CASE FindInstance(i)
    BY <2>1, <2>e DEF FindInstance, Reusable
  <2>2. CASE LaunchNewInstance(i)
    BY <2>2, <2>e DEF LaunchNewInstance
  <2>3. CASE WaitRunning(i)
    BY <2>3, <2>e DEF WaitRunning
  <2>4. CASE AssignNewSSHKey(i)
    BY <2>4, <2>e DEF AssignNewSSHKey
  <2>5. CASE ProbeContainerd(i)
    BY <2>5, <2>e DEF ProbeContainerd
  <2>6. CASE RunRemote(i)
    BY <2>6 DEF RunRemote, AfterTest
  <2>7. CASE RemoveKeyFile(i)
    BY <2>7 DEF RemoveKeyFile
  <2>8. CASE DeleteAWSInstance(i)
    BY <2>8 DEF DeleteAWSInstance
  <2>9. CASE SendResult(i)
    BY <2>9 DEF SendResult
  <2> QED
    BY <2>1, <2>2, <2>3, <2>4, <2>5, <2>6, <2>7, <2>8, <2>9 DEF TestAWSImage
<1>2. CASE Exit \/ Interrupt \/ Ended
  BY <1>2, OtherSteps DEF flags, keys
<1> QED
  BY <1>1, <1>2 DEF Next

\* Without reuse no test comes near the instance of another.
LEMMA AloneStep ==
    ASSUME Typed, HandInv, AloneInv, Next
    PROVE  AloneInv'
<1> USE NodeE2EAssumption DEF HandInv, AloneInv, Hosted, Sent
<1>t. TestsTyped /\ MachinesTyped /\ FlagsTyped
  BY TypedParts
<1>1. ASSUME NEW i \in Images, TestAWSImage(i) PROVE AloneInv'
  <2> USE <1>1, <1>t, TestFrame DEF TestsTyped, MachinesTyped, FlagsTyped, At, Goto, Instances,
          flags, keys
  <2>e. CASE ReturnError(i)
    BY <2>e DEF ReturnError
  <2>1. CASE FindInstance(i)
    BY <2>1, <2>e DEF FindInstance, Reusable
  <2>2. CASE LaunchNewInstance(i)
    BY <2>2, <2>e DEF LaunchNewInstance
  <2>3. CASE WaitRunning(i)
    BY <2>3, <2>e DEF WaitRunning, HostRuns
  <2>4. CASE AssignNewSSHKey(i)
    BY <2>4, <2>e DEF AssignNewSSHKey, HostRuns
  <2>5. CASE ProbeContainerd(i)
    BY <2>5, <2>e DEF ProbeContainerd
  <2>6. CASE RunRemote(i)
    BY <2>6 DEF RunRemote, AfterTest
  <2>7. CASE RemoveKeyFile(i)
    BY <2>7 DEF RemoveKeyFile
  <2>8. CASE DeleteAWSInstance(i)
    BY <2>8 DEF DeleteAWSInstance
  <2>9. CASE SendResult(i)
    BY <2>9 DEF SendResult
  <2> QED
    BY <2>1, <2>2, <2>3, <2>4, <2>5, <2>6, <2>7, <2>8, <2>9 DEF TestAWSImage
<1>2. CASE Exit \/ Interrupt \/ Ended
  BY <1>2, OtherSteps DEF flags, keys
<1> QED
  BY <1>1, <1>2 DEF Next

\* Who has left stays so, and nobody loses the instance in hand.
LEMMA LeftStays ==
    ASSUME Typed, NEW i \in Images, TestAWSImage(i)
    PROVE  /\ \A j \in Images : Left(j) => Left(j)'
           /\ \A j \in Images : host'[j] = host[j] \/ (j = i /\ pc[j] \in {"find", "launch"})
           /\ \A j \in Images \ {i} : pc'[j] = pc[j] /\ result'[j] = result[j]
<1>t. TestsTyped
  BY TypedParts
<1> USE <1>t DEF TestsTyped, At, Goto, Left, ReturnError
<1>1. CASE FindInstance(i)
  BY <1>1 DEF FindInstance
<1>2. CASE LaunchNewInstance(i)
  BY <1>2 DEF LaunchNewInstance
<1>3. CASE WaitRunning(i)
  BY <1>3 DEF WaitRunning
<1>4. CASE AssignNewSSHKey(i)
  BY <1>4 DEF AssignNewSSHKey
<1>5. CASE ProbeContainerd(i)
  BY <1>5 DEF ProbeContainerd
<1>6. CASE RunRemote(i)
  BY <1>6 DEF RunRemote
<1>7. CASE RemoveKeyFile(i)
  BY <1>7 DEF RemoveKeyFile
<1>8. CASE DeleteAWSInstance(i)
  BY <1>8 DEF DeleteAWSInstance
<1>9. CASE SendResult(i)
  BY <1>9 DEF SendResult
<1> QED
  BY <1>1, <1>2, <1>3, <1>4, <1>5, <1>6, <1>7, <1>8, <1>9 DEF TestAWSImage

\* Whoever shares an instance takes it, or its key, away only when done with it.
LEMMA SharedStep ==
    ASSUME Typed, HandInv, SharedInv, Next
    PROVE  SharedInv'
<1>t. TestsTyped /\ MachinesTyped /\ FlagsTyped
  BY TypedParts
<1>1. ASSUME NEW i \in Images, TestAWSImage(i) PROVE SharedInv'
  <2> USE <1>1, <1>t, NodeE2EAssumption
      DEF TestsTyped, MachinesTyped, At, Goto, Instances, ReturnError, flags, keys
  <2>l. /\ \A j \in Images : Left(j) => Left(j)'
        /\ \A j \in Images : host'[j] = host[j] \/ (j = i /\ pc[j] \in {"find", "launch"})
        /\ \A j \in Images \ {i} : pc'[j] = pc[j] /\ result'[j] = result[j]
    BY LeftStays
  <2>h. \A j \in Images : pc[j] \in {"key", "probe", "run"} => host[j] \in Instances
    BY DEF HandInv, Hosted
  <2>c. connect' = connect
    BY TestFrame
  <2>1. \A j \in Images : pc'[j] \in {"remove", "delete"} => result'[j] \in {"ok", "err"}
    <3>1. pc'[i] \in {"remove", "delete"} => result'[i] \in {"ok", "err"}
      BY DEF SharedInv, TestAWSImage, FindInstance, LaunchNewInstance, WaitRunning,
             AssignNewSSHKey, ProbeContainerd, RunRemote, RemoveKeyFile, DeleteAWSInstance,
             SendResult, AfterTest
    <3> QED
      BY <3>1, <2>l DEF SharedInv
  <2>2. ASSUME NEW j \in Images, pc'[j] \in {"key", "probe", "run"}
        PROVE  machine'[host'[j]] = "running" \/ Sharer(j)'
    <3>1. CASE pc[j] \in {"key", "probe", "run"}
      <4>1. host'[j] = host[j]
        BY <2>l, <3>1
      <4>2. CASE Sharer(j)
        <5>1. PICK k \in Images \ {j} : host[k] = host[j] /\ Left(k)
          BY <4>2 DEF Sharer
        <5>2. host'[k] = host[k]
          BY <5>1, <2>l DEF Left
        <5> QED
          BY <5>1, <5>2, <4>1, <2>l DEF Sharer
      <4>3. CASE HostRuns(j) /\ ~DeleteAWSInstance(i)
        <5>1. \A k \in Instances : machine[k] = "running" => machine'[k] = "running"
          BY <4>3 DEF TestAWSImage, FindInstance, LaunchNewInstance, WaitRunning,
             AssignNewSSHKey, ProbeContainerd, RunRemote, RemoveKeyFile, SendResult
        <5> QED
          BY <5>1, <4>1, <4>3, <3>1, <2>h DEF HostRuns
      <4>4. CASE HostRuns(j) /\ DeleteAWSInstance(i)
        <5>1. pc[i] = "delete" /\ pc'[i] = "send" /\ result' = result /\ host' = host
              /\ (machine' = machine \/ machine' = [machine EXCEPT ![host[i]] = "terminated"])
          BY <4>4 DEF DeleteAWSInstance
        <5>2. Left(i)' /\ i # j
          BY <5>1, <3>1 DEF SharedInv, Left
        <5>3. CASE host[i] = host[j]
          BY <5>1, <5>2, <5>3 DEF Sharer
        <5>4. CASE host[i] # host[j]
          <6>1. machine'[host[j]] = machine[host[j]]
            BY <5>1, <5>4, <3>1, <2>h
          <6> QED
            BY <6>1, <4>1, <4>4 DEF HostRuns
        <5> QED
          BY <5>3, <5>4
      <4> QED
        BY <3>1, <4>2, <4>3, <4>4 DEF SharedInv
    <3>2. CASE pc[j] \notin {"key", "probe", "run"}
      <4>1. j = i
        BY <2>2, <2>l, <3>2
      <4>2. WaitRunning(i) /\ HostRuns(i) /\ UNCHANGED <<host, machine>>
        BY <2>2, <3>2, <4>1 DEF TestAWSImage, FindInstance, LaunchNewInstance, WaitRunning,
           AssignNewSSHKey, ProbeContainerd, RunRemote, RemoveKeyFile, DeleteAWSInstance,
           SendResult, AfterTest
      <4> QED
        BY <4>1, <4>2 DEF HostRuns
    <3> QED
      BY <3>1, <3>2
  <2>3. ASSUME NEW j \in Images, pc'[j] \in {"probe", "run"}, connect' = "on"
        PROVE  overrides'[host'[j]] # None
    <3>1. CASE pc[j] \in {"probe", "run"}
      <4>1. host'[j] = host[j] /\ overrides[host[j]] # None /\ host[j] \in Instances
        BY <3>1, <2>l, <2>c, <2>h, <2>3 DEF SharedInv
      <4>2. overrides' = overrides \/ overrides' = [overrides EXCEPT ![host[i]] = i]
        BY DEF TestAWSImage, FindInstance, LaunchNewInstance, WaitRunning, AssignNewSSHKey,
           ProbeContainerd, RunRemote, RemoveKeyFile, DeleteAWSInstance, SendResult
      <4> QED
        BY <4>1, <4>2
    <3>2. CASE pc[j] \notin {"probe", "run"}
      <4>1. j = i
        BY <2>3, <2>l, <3>2
      <4>2. /\ AssignNewSSHKey(i) /\ pc[i] = "key" /\ host' = host
            /\ overrides' = [overrides EXCEPT ![host[i]] = i]
        BY <2>3, <3>2, <4>1, <2>c DEF TestAWSImage, FindInstance, LaunchNewInstance, WaitRunning,
           AssignNewSSHKey, ProbeContainerd, RunRemote, RemoveKeyFile, DeleteAWSInstance,
           SendResult, AfterTest
      <4> QED
        BY <4>1, <4>2, <2>h
    <3> QED
      BY <3>1, <3>2
  <2>4. ASSUME NEW m \in Instances, overrides'[m] # None
        PROVE  /\ pc'[overrides'[m]] \notin {"find", "launch"} /\ host'[overrides'[m]] = m
               /\ overrides'[m] \in files' \/ Left(overrides[m])'
    <3> DEFINE k == overrides[m]
    <3>1. CASE overrides'[m] # overrides[m]
      <4>1. /\ AssignNewSSHKey(i) /\ host' = host /\ pc'[i] = "probe"
            /\ overrides' = [overrides EXCEPT ![host[i]] = i] /\ i \in files'
        BY <3>1 DEF TestAWSImage, FindInstance, LaunchNewInstance, WaitRunning, AssignNewSSHKey,
           ProbeContainerd, RunRemote, RemoveKeyFile, DeleteAWSInstance, SendResult
      <4>2. host[i] = m /\ overrides'[m] = i
        BY <3>1, <4>1
      <4> QED
        BY <4>1, <4>2
    <3>2. CASE overrides'[m] = overrides[m]
      <4>1. /\ k \in Images /\ pc[k] \notin {"find", "launch"} /\ host[k] = m
            /\ k \in files \/ Left(k)
        BY <2>4, <3>2 DEF SharedInv
      <4>2. host'[k] = host[k]
        BY <4>1, <2>l
      <4>3. pc'[k] \notin {"find", "launch"}
        <5>1. pc[i] # "find" => pc'[i] \notin {"find", "launch"}
          BY DEF TestAWSImage, FindInstance, LaunchNewInstance, WaitRunning, AssignNewSSHKey,
             ProbeContainerd, RunRemote, RemoveKeyFile, DeleteAWSInstance, SendResult, AfterTest
        <5> QED
          BY <5>1, <4>1, <2>l
      <4>4. k \in files => k \in files' \/ (k = i /\ RemoveKeyFile(i))
        BY DEF TestAWSImage, FindInstance, LaunchNewInstance, WaitRunning, AssignNewSSHKey,
           ProbeContainerd, RunRemote, RemoveKeyFile, DeleteAWSInstance, SendResult
      <4>5. RemoveKeyFile(i) => Left(i)'
        BY DEF RemoveKeyFile, SharedInv, Left
      <4> QED
        BY <3>2, <4>1, <4>2, <4>3, <4>4, <4>5, <2>l
    <3> QED
      BY <3>1, <3>2
  <2> QED
    BY <2>1, <2>2, <2>3, <2>4 DEF SharedInv, HostRuns
<1>2. CASE Exit \/ Interrupt \/ Ended
  BY <1>2, OtherSteps DEF flags, keys, SharedInv, HostRuns, Sharer, Left
<1> QED
  BY <1>1, <1>2 DEF Next

\* Steps of a goroutine that do not end it leave Done alone.
LEMMA DoneFrame ==
    ASSUME TestsTyped, NEW i \in Images, TestAWSImage(i), ~SendResult(i)
    PROVE  /\ Done' = Done
           /\ \A j \in Done : result'[j] = result[j]
           /\ UNCHANGED <<received, exitOk, proc>>
<1>1. pc[i] # "send" /\ pc[i] # "done"
  BY DEF TestAWSImage, At, FindInstance, LaunchNewInstance, WaitRunning, AssignNewSSHKey,
         ProbeContainerd, RunRemote, RemoveKeyFile, DeleteAWSInstance
<1>2. \/ pc' = pc
      \/ \E l \in {"launch", "wait", "key", "probe", "run", "remove", "delete", "send"} :
            pc' = [pc EXCEPT ![i] = l]
  BY DEF TestAWSImage, Goto, FindInstance, LaunchNewInstance, WaitRunning, AssignNewSSHKey,
         ProbeContainerd, RunRemote, RemoveKeyFile, DeleteAWSInstance, ReturnError, AfterTest
<1>3. \E r \in {"none", "ok", "err", "noHost"} : result' = result \/ result' = [result EXCEPT ![i] = r]
  BY DEF TestAWSImage, FindInstance, LaunchNewInstance, WaitRunning, AssignNewSSHKey,
         ProbeContainerd, RunRemote, RemoveKeyFile, DeleteAWSInstance, ReturnError
<1>4. Done' = Done
  BY <1>1, <1>2 DEF Done, TestsTyped
<1>5. \A j \in Done : result'[j] = result[j]
  BY <1>1, <1>3 DEF Done, TestsTyped
<1> QED
  BY <1>1, <1>4, <1>5, TestFrame

\* The main goroutine's count and status are about the tests that are done.
LEMMA ResultsStep ==
    ASSUME Typed, HandInv, ResultsInv, Next
    PROVE  ResultsInv'
<1> USE NodeE2EAssumption, ImagesCounted
<1>t. TestsTyped /\ MainTyped
  BY TypedParts
<1>1. ASSUME NEW i \in Images, TestAWSImage(i), ~SendResult(i) PROVE ResultsInv'
  BY <1>t, <1>1, DoneFrame DEF ResultsInv, Exited, NumTests
<1>2. ASSUME NEW i \in Images, SendResult(i) PROVE ResultsInv'
  <2>1. TestAWSImage(i)
    BY <1>2 DEF TestAWSImage
  <2>2. proc = "running" /\ proc' = proc
    BY <2>1, TestFrame
  <2>3. Done' = Done \cup {i} /\ i \notin Done
    BY <1>2, <1>t DEF SendResult, At, Goto, Done, TestsTyped
  <2>4. IsFiniteSet(Done)
    BY FS_Subset DEF Done
  <2>5. Cardinality(Done') = Cardinality(Done) + 1
    BY <2>3, <2>4, FS_AddElement
  <2>6. received' = Cardinality(Done')
    BY <2>5, <1>2 DEF SendResult, ResultsInv
  <2>7. result' = result /\ exitOk' = ExitOk(result[i])
    BY <1>2 DEF SendResult
  <2>8. exitOk' = "yes" => \A j \in Done' : result'[j] = "ok"
    BY <2>3, <2>7 DEF ResultsInv, ExitOk
  <2>9. exitOk' = "no" => \E j \in Done' : result'[j] # "ok"
    <3>1. CASE exitOk = "no"
      BY <3>1, <2>3, <2>7 DEF ResultsInv
    <3>2. CASE exitOk = "yes"
      BY <3>2, <2>3, <2>7 DEF ExitOk
    <3> QED
      BY <3>1, <3>2, <1>t DEF MainTyped
  <2> QED
    BY <2>2, <2>6, <2>8, <2>9 DEF ResultsInv, Exited
<1>3. CASE Exit
  <2>1. Done' = Done
    BY <1>3 DEF Exit, Done
  <2> QED
    BY <1>3, <1>t, <2>1 DEF Exit, ResultsInv, Exited, MainTyped, NumTests
<1>4. CASE Interrupt
  <2>1. Done' = Done
    BY <1>4 DEF Interrupt, Done
  <2> QED
    BY <1>4, <2>1 DEF Interrupt, ResultsInv, Exited, NumTests
<1>5. CASE Ended
  <2>1. Done' = Done
    BY <1>5 DEF Ended, vars, Done
  <2> QED
    BY <1>5, <2>1 DEF Ended, vars, main, ResultsInv, Exited, NumTests
<1> QED
  BY <1>1, <1>2, <1>3, <1>4, <1>5 DEF Next

\* IInv is inductive.
LEMMA IInvStep ==
    ASSUME IInv, [Next]_vars
    PROVE  IInv'
<1>1. CASE Next
  BY <1>1, TypedStep, HandStep, ResultsStep, DefersStep, AloneStep, SharedStep DEF IInv
<1>2. CASE UNCHANGED vars
  BY <1>2 DEF IInv, vars, flags, keys, main, Typed, TypeOK, HandInv, ResultsInv, DefersInv,
              AloneInv, SharedInv, Sharer, Left, HostRuns, Done, Exited, CleanedUp, NumTests
<1> QED
  BY <1>1, <1>2

\* Every reachable state is inside the invariant.
LEMMA Invariance == Spec => []IInv
<1> QED
  BY InitIInv, IInvStep, PTL DEF Spec

\* At exit every test is done.
LEMMA AllDone == IInv /\ Exited => Done = Images
<1> SUFFICES ASSUME IInv, Exited PROVE Done = Images
  OBVIOUS
<1>1. Cardinality(Done) = Cardinality(Images)
  BY DEF IInv, ResultsInv, NumTests
<1>2. Done \subseteq Images
  BY DEF Done
<1> QED
  BY <1>1, <1>2, ImagesCounted, FS_Subset

-----------------------------------------------------------------------------
\* The types of NodeE2E for any set of images and AMIs.
THEOREM TypeCorrect == Spec => []TypeOK
<1>1. IInv => TypeOK
  BY DEF IInv, Typed
<1> QED
  BY <1>1, Invariance, PTL

\* A suite runs on an instance that is up and trusts the key registered for it, its own
\* without reuse-instances; only a test it shares it with may take it away, and only
\* when its own suite is over (getAWSInstance, AddSSHKey, testAWSImage).
THEOREM IsolationCorrect == Spec => []TestsAreIsolated
<1>1. ASSUME IInv PROVE TestsAreIsolated
  <2> SUFFICES ASSUME NEW i \in Images, pc[i] = "run"
               PROVE  /\ reuse = "off" => host[i] = i /\ SSHWorks(i)
                      /\ ~SSHWorks(i) => Sharer(i)
    BY DEF TestsAreIsolated, Sharer, Left
  <2>t. FlagsTyped /\ TestsTyped /\ MachinesTyped
    BY <1>1, TypedParts DEF IInv
  <2>1. host[i] \in Instances
    BY <1>1 DEF IInv, HandInv, Hosted
  <2>2. reuse = "off" => host[i] = i /\ SSHWorks(i)
    BY <1>1, <2>1, NodeE2EAssumption
    DEF IInv, AloneInv, SSHWorks, HostRuns, Instances
  <2>3. HostRuns(i) \/ Sharer(i)
    BY <1>1 DEF IInv, SharedInv
  <2>4. ASSUME connect = "on", overrides[host[i]] \notin files PROVE Sharer(i)
    <3> DEFINE k == overrides[host[i]]
    <3>1. k # None
      BY <1>1, <2>4 DEF IInv, SharedInv
    <3>2. k \in Images
      BY <2>1, <2>t, <3>1 DEF MachinesTyped
    <3>3. host[k] = host[i] /\ Left(k)
      BY <1>1, <2>1, <2>4, <3>1 DEF IInv, SharedInv
    <3>4. k # i
      BY <3>3 DEF Left
    <3> QED
      BY <3>2, <3>3, <3>4 DEF Sharer
  <2> QED
    BY <2>2, <2>3, <2>4 DEF SSHWorks
<1> QED
  BY <1>1, Invariance, PTL

\* The exit status of RunRemoteTestSuite is the conjunction of all results.
THEOREM StatusCorrect == Spec => []StatusCoversEveryTest
<1>1. IInv => StatusCoversEveryTest
  <2> SUFFICES ASSUME IInv, Exited PROVE StatusCoversEveryTest
    BY DEF StatusCoversEveryTest, Exited
  <2>1. Done = Images
    BY AllDone
  <2> QED
    BY <2>1 DEF IInv, ResultsInv, StatusCoversEveryTest
<1> QED
  BY <1>1, Invariance, PTL

\* The deferred calls of every test precede the exit (testAWSImage).
THEOREM CleanUpCorrect == Spec => []CleanUpPrecedesExit
<1>1. IInv => CleanUpPrecedesExit
  <2> SUFFICES ASSUME IInv, Exited PROVE CleanUpPrecedesExit
    BY DEF CleanUpPrecedesExit
  <2>1. \A i \in Images : pc[i] = "done"
    BY AllDone DEF Done
  <2> QED
    BY <2>1 DEF IInv, DefersInv, CleanedUp, Sent, CleanUpPrecedesExit
<1> QED
  BY <1>1, Invariance, PTL

-----------------------------------------------------------------------------
(***************************************************************************)
(* Why a run comes to its end (RunEnds), as far as single steps show it:   *)
(* nobody waits for a partner that does not come, and every step brings a  *)
(* goroutine nearer to its end.                                            *)
(***************************************************************************)

\* The main goroutine receives one result per image: a test that sends is always
\* awaited, and when all have sent the loop of RunRemoteTestSuite is over.
EveryResultIsAwaited ==
    /\ \A i \in Images : pc[i] = "send" => received < NumTests
    /\ (\A i \in Images : pc[i] = "done") => received = NumTests

\* The results channel of StartTests leaves nobody behind, for any set of images.
THEOREM AwaitedCorrect == Spec => []EveryResultIsAwaited
<1>1. IInv => EveryResultIsAwaited
  <2> SUFFICES ASSUME IInv PROVE EveryResultIsAwaited
    OBVIOUS
  <2>1. received = Cardinality(Done) /\ Done \subseteq Images /\ IsFiniteSet(Done)
    BY ImagesCounted, FS_Subset DEF IInv, ResultsInv, Done
  <2>2. ASSUME NEW i \in Images, pc[i] = "send" PROVE received < NumTests
    <3>1. Done # Images
      BY <2>2 DEF Done
    <3> QED
      BY <2>1, <3>1, ImagesCounted, FS_Subset, FS_CardinalityType DEF NumTests
  <2>3. ASSUME \A i \in Images : pc[i] = "done" PROVE received = NumTests
    BY <2>1, <2>3 DEF Done, NumTests
  <2> QED
    BY <2>2, <2>3 DEF EveryResultIsAwaited
<1> QED
  BY <1>1, Invariance, PTL

\* How many steps a test is from its end, at most.
StepsToGo == [find |-> 9, launch |-> 8, wait |-> 7, key |-> 6, probe |-> 5, run |-> 4,
              remove |-> 3, delete |-> 2, send |-> 1, done |-> 0]

\* The distances, one by one.
LEMMA Distances ==
    /\ DOMAIN StepsToGo = {"find", "launch", "wait", "key", "probe", "run", "remove", "delete",
                           "send", "done"}
    /\ StepsToGo["find"] = 9 /\ StepsToGo["launch"] = 8 /\ StepsToGo["wait"] = 7
    /\ StepsToGo["key"] = 6 /\ StepsToGo["probe"] = 5 /\ StepsToGo["run"] = 4
    /\ StepsToGo["remove"] = 3 /\ StepsToGo["delete"] = 2 /\ StepsToGo["send"] = 1
    /\ StepsToGo["done"] = 0
  BY DEF StepsToGo

\* Every step moves one test nearer to its end, or leaves its first key file behind, or
\* is one of two signals at most, or the exit: a run is over after ten steps per image
\* and three more.
EveryStepCounts ==
    \/ \E i \in Images : /\ StepsToGo[pc'[i]] < StepsToGo[pc[i]]
                         /\ \A j \in Images \ {i} : pc'[j] = pc[j]
                         /\ UNCHANGED <<interrupts, proc>>
    \/ \E i \in Images \ litter : /\ litter' = litter \cup {i}
                                  /\ UNCHANGED <<pc, interrupts, proc>>
    \/ interrupts' = interrupts + 1 /\ interrupts' <= 2 /\ UNCHANGED pc
    \/ proc = "running" /\ proc' # "running" /\ UNCHANGED <<pc, interrupts>>

\* No goroutine of the suite goes round in circles (testAWSImage, StartTests).
THEOREM ProgressCorrect == Spec => [][EveryStepCounts]_vars
<1>1. ASSUME IInv, [Next]_vars PROVE [EveryStepCounts]_vars
  <2> USE DEF Goto, At, ReturnError
  <2>t. pc \in [Images -> DOMAIN StepsToGo] /\ interrupts \in 0 .. 2
        /\ (proc = "running" => interrupts \in 0 .. 1)
    BY <1>1, Distances DEF IInv, Typed, TypeOK
  <2>1. ASSUME NEW i \in Images, TestAWSImage(i) PROVE [EveryStepCounts]_vars
    <3>1. UNCHANGED <<interrupts, proc>>
      BY <2>1, TestFrame
    <3>2. \/ \E l \in DOMAIN StepsToGo :
                pc' = [pc EXCEPT ![i] = l] /\ StepsToGo[l] < StepsToGo[pc[i]]
          \/ /\ litter' = litter \cup {i}
             /\ UNCHANGED <<flags, pc, host, result, machine, overrides, files, terminateErr,
                            main, interrupts>>
      <4> USE Distances
      <4>1. CASE FindInstance(i)
        BY <4>1 DEF FindInstance
      <4>2. CASE LaunchNewInstance(i)
        BY <4>2 DEF LaunchNewInstance
      <4>3. CASE WaitRunning(i)
        BY <4>3 DEF WaitRunning
      <4>4. CASE AssignNewSSHKey(i)
        <5>1. pc[i] = "key" /\ ~DeleteAWSInstance(i) /\ ~SendResult(i)
          BY <4>4 DEF AssignNewSSHKey, DeleteAWSInstance, SendResult
        <5>2. UNCHANGED <<flags, terminateErr, main, interrupts>>
          BY <2>1, <5>1 DEF TestAWSImage
        <5>3. \/ \E l \in {"probe", "send"} : pc' = [pc EXCEPT ![i] = l]
              \/ /\ litter' = litter \cup {i}
                 /\ UNCHANGED <<pc, host, result, machine, overrides, files>>
          BY <4>4 DEF AssignNewSSHKey
        <5> QED
          BY <5>1, <5>2, <5>3
      <4>5. CASE ProbeContainerd(i)
        BY <4>5 DEF ProbeContainerd
      <4>6. CASE RunRemote(i)
        BY <4>6 DEF RunRemote, AfterTest
      <4>7. CASE RemoveKeyFile(i)
        BY <4>7 DEF RemoveKeyFile
      <4>8. CASE DeleteAWSInstance(i)
        BY <4>8 DEF DeleteAWSInstance
      <4>9. CASE SendResult(i)
        BY <4>9 DEF SendResult
      <4> QED
        BY <2>1, <4>1, <4>2, <4>3, <4>4, <4>5, <4>6, <4>7, <4>8, <4>9 DEF TestAWSImage
    <3> QED
      BY <2>t, <3>1, <3>2 DEF EveryStepCounts, vars, keys, main
  <2>2. CASE Exit
    BY <2>2 DEF Exit, EveryStepCounts
  <2>3. CASE Interrupt
    BY <2>3, <2>t DEF Interrupt, EveryStepCounts
  <2>4. CASE Ended \/ UNCHANGED vars
    BY <2>4 DEF Ended
  <2> QED
    BY <1>1, <2>1, <2>2, <2>3, <2>4 DEF Next
<1> QED
  BY <1>1, Invariance, PTL DEF Spec
=============================================================================
