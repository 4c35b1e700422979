--------------------------- MODULE DeployerProofs ---------------------------
(***************************************************************************)
(* Proofs about Deployer for every number of workers, and at the end about *)
(* LogDump, whose behaviours are behaviours of Deployer.                   *)
(***************************************************************************)
EXTENDS LogDump, FiniteSetTheorems, TLAPS

\* Instances whose goroutine has called wg.Add and not yet wg.Done.
Active == {i \in Image : gpc[i] \notin {"none", "done"}}

(***************************************************************************)
(* The inductive invariant, in layers.                                     *)
(***************************************************************************)

\* The creation loop: an instance is being checked exactly when the loop has
\* passed its image, and runner.instances follows the loop variable.
LoopInv ==
    /\ \A i \in Image : gpc[i] # "none" <=> i < image
    /\ pc \in {"build", "up"} => image = 0
    /\ pc \in {"create", "launched", "started"} => image <= NumNodes
    /\ pc \in {"wait", "select", "close"} => image = NumNodes + 1
    /\ waiter # "none" => image = NumNodes + 1
    /\ instances = IF pc = "started" THEN image + 1 ELSE image

WgInv == wg = Cardinality(Active)

\* Up has no result before it leaves its select.
ResultInv ==
    /\ pc \in {"build", "up", "create", "launched", "started", "wait", "select", "close"}
          => upErr = "none"
    /\ upErr = "ok" => waiter = "done"

\* A goroutine gets past its failed check only by handing over the error.
CheckInv ==
    /\ waiter = "done" => \A i \in Image : gpc[i] = "done"
    /\ \A i \in Image :
          /\ gpc[i] \in {"none", "checking", "download"} => gerr[i] = "none"
          /\ gpc[i] = "sending" => gerr[i] = "err"
          /\ gpc[i] \in {"returning", "done"} =>
                \/ gerr[i] = "ok"
                \/ gerr[i] = "err" /\ (pc = "close" \/ upErr = "err")
    /\ (pc = "close" \/ fatalErrors = "closed") =>
          \E i \in Image : gerr[i] = "err" /\ gpc[i] \in {"returning", "done"}
    /\ proc = "panicked" =>
          \E i, j \in Image : i # j /\ gerr[i] = "err" /\ gerr[j] = "err"

\* The range loop of Down stays within the recorded instances.
DownInv ==
    \A w \in Downer : dnext[w] <= dlen[w] /\ dlen[w] <= instances

CoreInv == TypeOK /\ LoopInv /\ WgInv /\ ResultInv /\ CheckInv /\ DownInv

\* What EC2 runs, against the loop and runner.instances.
CloudInv ==
    /\ \A i \in Image : i < instances => cloud[i] # "none"
    /\ \A i \in Image : cloud[i] # "none" =>
          \/ i < instances
          \/ i = image /\ (pc = "launched" \/ upErr = "err")
    /\ pc = "launched" => cloud[image] # "none"
    /\ pc = "create" => \A i \in Image : i >= image => cloud[i] = "none"

\* The control plane address is known from the end of the first iteration on.
AddressInv ==
    /\ controlPlaneIP = IF image = 0 THEN NoIP ELSE 0
    /\ WorkersKnowControlPlane

\* A Down loop has terminated what it has passed.
TerminatedInv ==
    /\ \A w \in Downer : \A i \in Image : i < dnext[w] => cloud[i] = "gone"
    /\ \A w \in Downer : dpc[w] = "ok" => dnext[w] = dlen[w]
    /\ dpc["main"] # "idle" => pc \in {"down", "finish"}
    /\ dpc["main"] \in {"loop", "ok"} => dlen["main"] = instances

RunnerInv ==
    /\ runner = "nil" => \A i \in Image : cloud[i] = "none"
    /\ proc = "nilpanic" => runner = "nil"
    /\ pc \in {"create", "launched", "started"} => runner = "set"

\* A run ends in Finish or in the handler, after the Down that goes with it.
EndInv ==
    /\ proc = "exited" => pc = "finish"
    /\ pc = "finish" /\ opts.down =>
          dpc["main"] \in {"ok", "err"} \/ \A i \in Image : cloud[i] = "none"
    /\ proc = "interrupted" /\ opts.down => dpc["handler"] \in {"ok", "err"}

IInv == CoreInv /\ CloudInv /\ AddressInv /\ TerminatedInv /\ RunnerInv /\ EndInv

-----------------------------------------------------------------------------
(***************************************************************************)
(* The wait group counts the active goroutines.                            *)
(***************************************************************************)

\* A set of images is finite and has at most NumNodes + 1 elements.
LEMMA ImagesFinite ==
    ASSUME NEW S \in SUBSET Image
    PROVE  IsFiniteSet(S) /\ Cardinality(S) \in 0 .. NumNodes + 1
<1>1. IsFiniteSet(Image) /\ Cardinality(Image) = NumNodes + 1
    BY FS_Interval, NumNodesAssumption DEF Image
<1>2. QED
    BY <1>1, FS_Subset, FS_CardinalityType, NumNodesAssumption

\* Starting a goroutine makes one more active.
LEMMA ActiveGrows ==
    ASSUME TypeOK, NEW i \in Image, gpc[i] = "none",
           gpc' = [gpc EXCEPT ![i] = "checking"]
    PROVE  Cardinality(Active') = Cardinality(Active) + 1
<1>1. Active' = Active \cup {i} /\ i \notin Active
    BY DEF Active, TypeOK
<1>2. IsFiniteSet(Active)
    BY ImagesFinite DEF Active
<1>3. QED
    BY <1>1, <1>2, FS_AddElement

\* The deferred Done makes one fewer active.
LEMMA ActiveShrinks ==
    ASSUME TypeOK, NEW i \in Image, gpc[i] = "returning",
           gpc' = [gpc EXCEPT ![i] = "done"]
    PROVE  Cardinality(Active') = Cardinality(Active) - 1
<1>1. Active' = Active \ {i} /\ i \in Active
    BY DEF Active, TypeOK
<1>2. IsFiniteSet(Active)
    BY ImagesFinite DEF Active
<1>3. QED
    BY <1>1, <1>2, FS_RemoveElement

-----------------------------------------------------------------------------
LEMMA CoreStep == CoreInv /\ [Next]_vars => CoreInv'
<1> SUFFICES ASSUME CoreInv, [Next]_vars PROVE CoreInv'
    OBVIOUS
<1> USE NumNodesAssumption DEF CoreInv, Image, NoIP, Downer, At, CheckAt, DownAt, mainVars,
        runnerVars, ec2Vars, checkVars, chanVars, downVars, UpFails, NewAWSRunner,
        MissingAddress, FirstIP, WgDoneClosed, AfterSend, OnCheckError, WgDone, TerminateError
<1>1. CASE Build
  <2>1. LoopInv' /\ ResultInv'
    BY <1>1 DEF TypeOK, LoopInv, ResultInv, CheckInv, Build
  <2>2. WgInv'
    BY <1>1 DEF WgInv, Active, Build
  <2>3. CheckInv'
    BY <1>1 DEF TypeOK, LoopInv, ResultInv, CheckInv, Build
  <2>4. DownInv'
    BY <1>1 DEF TypeOK, LoopInv, DownInv, Build
  <2>5. TypeOK'
    BY <1>1 DEF TypeOK, LoopInv, DownInv, Build
  <2>6. QED
    BY <2>1, <2>2, <2>3, <2>4, <2>5
<1>2. CASE SkipUp
    BY <1>2 DEF TypeOK, LoopInv, WgInv, ResultInv, CheckInv, DownInv, Active, SkipUp
<1>3. CASE EnterUp
  <2>1. LoopInv' /\ ResultInv'
    BY <1>3 DEF TypeOK, LoopInv, ResultInv, CheckInv, EnterUp
  <2>2. WgInv'
    BY <1>3 DEF WgInv, Active, EnterUp
  <2>3. CheckInv'
    BY <1>3 DEF TypeOK, LoopInv, ResultInv, CheckInv, EnterUp
  <2>4. DownInv'
    BY <1>3 DEF TypeOK, LoopInv, DownInv, EnterUp
  <2>5. TypeOK'
    BY <1>3 DEF TypeOK, LoopInv, DownInv, EnterUp
  <2>6. QED
    BY <2>1, <2>2, <2>3, <2>4, <2>5
<1>4. CASE RunInstances
  <2>1. LoopInv' /\ ResultInv'
    BY <1>4 DEF TypeOK, LoopInv, ResultInv, CheckInv, RunInstances
  <2>2. WgInv'
    BY <1>4 DEF WgInv, Active, RunInstances
  <2>3. CheckInv'
    BY <1>4 DEF TypeOK, LoopInv, ResultInv, CheckInv, RunInstances
  <2>4. DownInv'
    BY <1>4 DEF TypeOK, LoopInv, DownInv, RunInstances
  <2>5. TypeOK'
    BY <1>4 DEF TypeOK, LoopInv, DownInv, RunInstances
  <2>6. QED
    BY <2>1, <2>2, <2>3, <2>4, <2>5
<1>5. CASE RecordInstance
  <2>1. LoopInv' /\ ResultInv'
    BY <1>5 DEF TypeOK, LoopInv, ResultInv, CheckInv, RecordInstance
  <2>2. WgInv'
    BY <1>5 DEF WgInv, Active, RecordInstance
  <2>3. CheckInv'
    BY <1>5 DEF TypeOK, LoopInv, ResultInv, CheckInv, RecordInstance
  <2>4. DownInv'
    BY <1>5 DEF TypeOK, LoopInv, DownInv, RecordInstance
  <2>5. TypeOK'
    BY <1>5 DEF TypeOK, LoopInv, DownInv, RecordInstance
  <2>6. QED
    BY <2>1, <2>2, <2>3, <2>4, <2>5
<1>6. CASE StartCheck
  <2>1. LoopInv' /\ ResultInv'
    BY <1>6 DEF TypeOK, LoopInv, ResultInv, CheckInv, StartCheck
  <2>2. WgInv'
    <3>1. image \in Image /\ gpc[image] = "none"
      BY <1>6 DEF TypeOK, LoopInv, StartCheck
    <3>2. gpc' = [gpc EXCEPT ![image] = "checking"]
      BY <1>6 DEF StartCheck
    <3>3. Cardinality(Active') = Cardinality(Active) + 1
      BY <3>1, <3>2, ActiveGrows
    <3>4. QED
      BY <1>6, <3>3 DEF WgInv, StartCheck
  <2>3. CheckInv'
    BY <1>6 DEF TypeOK, LoopInv, ResultInv, CheckInv, StartCheck
  <2>4. DownInv'
    BY <1>6 DEF TypeOK, LoopInv, DownInv, StartCheck
  <2>5. TypeOK'
    <3>1. wg' \in 0 .. NumNodes + 1
      BY <2>2, ImagesFinite DEF WgInv, Active
    <3>2. QED
      BY <1>6, <3>1 DEF TypeOK, LoopInv, StartCheck
  <2>6. QED
    BY <2>1, <2>2, <2>3, <2>4, <2>5
<1>7. CASE StartWaiter
  <2>1. LoopInv' /\ ResultInv'
    BY <1>7 DEF TypeOK, LoopInv, ResultInv, CheckInv, StartWaiter
  <2>2. WgInv'
    BY <1>7 DEF WgInv, Active, StartWaiter
  <2>3. CheckInv'
    BY <1>7 DEF TypeOK, LoopInv, ResultInv, CheckInv, StartWaiter
  <2>4. DownInv'
    BY <1>7 DEF TypeOK, LoopInv, DownInv, StartWaiter
  <2>5. TypeOK'
    BY <1>7 DEF TypeOK, LoopInv, DownInv, StartWaiter
  <2>6. QED
    BY <2>1, <2>2, <2>3, <2>4, <2>5
<1>8. CASE SelectDone
  <2>1. LoopInv' /\ ResultInv'
    BY <1>8 DEF TypeOK, LoopInv, ResultInv, CheckInv, SelectDone
  <2>2. WgInv'
    BY <1>8 DEF WgInv, Active, SelectDone
  <2>3. CheckInv'
    BY <1>8 DEF TypeOK, LoopInv, ResultInv, CheckInv, SelectDone
  <2>4. DownInv'
    BY <1>8 DEF TypeOK, LoopInv, DownInv, SelectDone
  <2>5. TypeOK'
    BY <1>8 DEF TypeOK, LoopInv, DownInv, SelectDone
  <2>6. QED
    BY <2>1, <2>2, <2>3, <2>4, <2>5
<1>9. ASSUME NEW i \in Image, SelectError(i) PROVE CoreInv'
  <2>1. LoopInv' /\ ResultInv'
    BY <1>9 DEF TypeOK, LoopInv, ResultInv, CheckInv, SelectError
  <2>2. WgInv'
    <3>1. Active' = Active
      BY <1>9 DEF Active, TypeOK, SelectError
    <3>2. QED
      BY <1>9, <3>1 DEF WgInv, SelectError
  <2>3. CheckInv'
    BY <1>9 DEF TypeOK, LoopInv, ResultInv, CheckInv, SelectError
  <2>4. DownInv'
    BY <1>9 DEF TypeOK, LoopInv, DownInv, SelectError
  <2>5. TypeOK'
    BY <1>9 DEF TypeOK, LoopInv, DownInv, SelectError
  <2>6. QED
    BY <2>1, <2>2, <2>3, <2>4, <2>5
<1>10. CASE CloseFatalErrors
  <2>1. LoopInv' /\ ResultInv'
    BY <1>10 DEF TypeOK, LoopInv, ResultInv, CheckInv, CloseFatalErrors
  <2>2. WgInv'
    BY <1>10 DEF WgInv, Active, CloseFatalErrors
  <2>3. CheckInv'
    BY <1>10 DEF TypeOK, LoopInv, ResultInv, CheckInv, CloseFatalErrors
  <2>4. DownInv'
    BY <1>10 DEF TypeOK, LoopInv, DownInv, CloseFatalErrors
  <2>5. TypeOK'
    BY <1>10 DEF TypeOK, LoopInv, DownInv, CloseFatalErrors
  <2>6. QED
    BY <2>1, <2>2, <2>3, <2>4, <2>5
<1>11. CASE Test
    BY <1>11 DEF TypeOK, LoopInv, WgInv, ResultInv, CheckInv, DownInv, Active, Test
<1>12. CASE DeferredDown
    BY <1>12 DEF TypeOK, LoopInv, WgInv, ResultInv, CheckInv, DownInv, Active, DeferredDown
<1>13. CASE DownReturned
    BY <1>13 DEF TypeOK, LoopInv, WgInv, ResultInv, CheckInv, DownInv, Active, DownReturned
<1>14. CASE Finish
    BY <1>14 DEF TypeOK, LoopInv, WgInv, ResultInv, CheckInv, DownInv, Active, Finish
<1>15. ASSUME NEW i \in Image, CheckPasses(i) PROVE CoreInv'
  <2>1. LoopInv' /\ ResultInv'
    BY <1>15 DEF TypeOK, LoopInv, ResultInv, CheckInv, CheckPasses
  <2>2. WgInv'
    <3>1. Active' = Active
      BY <1>15 DEF Active, TypeOK, CheckPasses
    <3>2. QED
      BY <1>15, <3>1 DEF WgInv, CheckPasses
  <2>3. CheckInv'
    <3>1. gerr[i] = "none"
      BY <1>15 DEF CheckInv, CheckPasses
    <3>2. \A j \in Image : j # i => gpc'[j] = gpc[j] /\ gerr'[j] = gerr[j]
      BY <1>15 DEF TypeOK, CheckPasses
    <3>3. \/ gpc'[i] = "download" /\ gerr'[i] = "none"
          \/ gpc'[i] = "returning" /\ gerr'[i] = "ok"
      BY <1>15, <3>1 DEF TypeOK, CheckPasses
    <3>4. waiter # "done"
      BY <1>15 DEF CheckInv, CheckPasses
    <3>5. QED
      BY <1>15, <3>1, <3>2, <3>3, <3>4 DEF CheckInv, CheckPasses
  <2>4. DownInv'
    BY <1>15 DEF TypeOK, LoopInv, DownInv, CheckPasses
  <2>5. TypeOK'
    <3>1. CASE controlPlaneIP = i /\ kubeconfig = "unset"
      BY <1>15, <3>1 DEF TypeOK, CheckPasses
    <3>2. CASE ~(controlPlaneIP = i /\ kubeconfig = "unset")
      <4>1. /\ gpc' = [gpc EXCEPT ![i] = "returning"]
            /\ gerr' = [gerr EXCEPT ![i] = "ok"]
        BY <1>15, <3>2 DEF CheckPasses
      <4>2. QED
        BY <1>15, <4>1 DEF TypeOK, CheckPasses
    <3>3. QED
      BY <3>1, <3>2
  <2>6. QED
    BY <2>1, <2>2, <2>3, <2>4, <2>5
<1>16. ASSUME NEW i \in Image, DownloadKubeConfig(i) PROVE CoreInv'
  <2>1. LoopInv' /\ ResultInv'
    BY <1>16 DEF TypeOK, LoopInv, ResultInv, CheckInv, DownloadKubeConfig
  <2>2. WgInv'
    <3>1. Active' = Active
      BY <1>16 DEF Active, TypeOK, DownloadKubeConfig
    <3>2. QED
      BY <1>16, <3>1 DEF WgInv, DownloadKubeConfig
  <2>3. CheckInv'
    <3>1. gerr[i] = "none"
      BY <1>16 DEF CheckInv, DownloadKubeConfig
    <3>2. \A j \in Image : j # i => gpc'[j] = gpc[j] /\ gerr'[j] = gerr[j]
      BY <1>16 DEF TypeOK, DownloadKubeConfig
    <3>3. \/ gpc'[i] = "download" /\ gerr'[i] = "none"
          \/ gpc'[i] = "returning" /\ gerr'[i] = "ok"
      BY <1>16, <3>1 DEF TypeOK, DownloadKubeConfig
    <3>4. waiter # "done"
      BY <1>16 DEF CheckInv, DownloadKubeConfig
    <3>5. QED
      BY <1>16, <3>1, <3>2, <3>3, <3>4 DEF CheckInv, DownloadKubeConfig
  <2>4. DownInv'
    BY <1>16 DEF TypeOK, LoopInv, DownInv, DownloadKubeConfig
  <2>5. TypeOK'
    BY <1>16 DEF TypeOK, LoopInv, DownInv, DownloadKubeConfig
  <2>6. QED
    BY <2>1, <2>2, <2>3, <2>4, <2>5
<1>17. ASSUME NEW i \in Image, CheckFails(i) PROVE CoreInv'
  <2>1. LoopInv' /\ ResultInv'
    BY <1>17 DEF TypeOK, LoopInv, ResultInv, CheckInv, CheckFails
  <2>2. WgInv'
    <3>1. Active' = Active
      BY <1>17 DEF Active, TypeOK, CheckFails
    <3>2. QED
      BY <1>17, <3>1 DEF WgInv, CheckFails
  <2>3. CheckInv'
    BY <1>17 DEF TypeOK, LoopInv, ResultInv, CheckInv, CheckFails
  <2>4. DownInv'
    BY <1>17 DEF TypeOK, LoopInv, DownInv, CheckFails
  <2>5. TypeOK'
    BY <1>17 DEF TypeOK, LoopInv, DownInv, CheckFails
  <2>6. QED
    BY <2>1, <2>2, <2>3, <2>4, <2>5
<1>18. ASSUME NEW i \in Image, SendPanics(i) PROVE CoreInv'
  <2>1. LoopInv' /\ ResultInv'
    BY <1>18 DEF TypeOK, LoopInv, ResultInv, CheckInv, SendPanics
  <2>2. WgInv'
    BY <1>18 DEF WgInv, Active, SendPanics
  <2>3. CheckInv'
    BY <1>18 DEF TypeOK, LoopInv, ResultInv, CheckInv, SendPanics
  <2>4. DownInv'
    BY <1>18 DEF TypeOK, LoopInv, DownInv, SendPanics
  <2>5. TypeOK'
    BY <1>18 DEF TypeOK, LoopInv, DownInv, SendPanics
  <2>6. QED
    BY <2>1, <2>2, <2>3, <2>4, <2>5
<1>19. ASSUME NEW i \in Image, CheckReturns(i) PROVE CoreInv'
  <2>1. LoopInv' /\ ResultInv'
    BY <1>19 DEF TypeOK, LoopInv, ResultInv, CheckInv, CheckReturns
  <2>2. WgInv'
    <3>1. Cardinality(Active') = Cardinality(Active) - 1
      BY <1>19, ActiveShrinks DEF TypeOK, LoopInv, CheckReturns
    <3>2. QED
      BY <1>19, <3>1 DEF WgInv, CheckReturns
  <2>3. CheckInv'
    BY <1>19 DEF TypeOK, LoopInv, ResultInv, CheckInv, CheckReturns
  <2>4. DownInv'
    BY <1>19 DEF TypeOK, LoopInv, DownInv, CheckReturns
  <2>5. TypeOK'
    <3>1. wg' \in 0 .. NumNodes + 1
      BY <2>2, ImagesFinite DEF WgInv, Active
    <3>2. QED
      BY <1>19, <3>1 DEF TypeOK, LoopInv, CheckReturns
  <2>6. QED
    BY <2>1, <2>2, <2>3, <2>4, <2>5
<1>20. CASE CloseWgDone
  <2>1. LoopInv' /\ ResultInv'
    BY <1>20 DEF TypeOK, LoopInv, ResultInv, CheckInv, CloseWgDone
  <2>2. WgInv'
    BY <1>20 DEF WgInv, Active, CloseWgDone
  <2>3. CheckInv'
    <3>1. Active = {}
      BY <1>20, ImagesFinite, FS_EmptySet DEF Active, WgInv, CloseWgDone
    <3>2. \A i \in Image : gpc[i] = "done"
      BY <1>20, <3>1 DEF Active, TypeOK, LoopInv, CloseWgDone
    <3>3. QED
      BY <1>20, <3>2 DEF CheckInv, CloseWgDone
  <2>4. DownInv'
    BY <1>20 DEF TypeOK, LoopInv, DownInv, CloseWgDone
  <2>5. TypeOK'
    BY <1>20 DEF TypeOK, LoopInv, DownInv, CloseWgDone
  <2>6. QED
    BY <2>1, <2>2, <2>3, <2>4, <2>5
<1>21. ASSUME NEW w \in Downer, DownStart(w) PROVE CoreInv'
    BY <1>21 DEF TypeOK, LoopInv, WgInv, ResultInv, CheckInv, DownInv, Active, DownStart
<1>22. ASSUME NEW w \in Downer, Terminate(w) PROVE CoreInv'
  <2>1. LoopInv' /\ ResultInv'
    BY <1>22 DEF TypeOK, LoopInv, ResultInv, CheckInv, Terminate
  <2>2. WgInv'
    BY <1>22 DEF WgInv, Active, Terminate
  <2>3. CheckInv'
    BY <1>22 DEF TypeOK, LoopInv, ResultInv, CheckInv, Terminate
  <2>4. DownInv'
    BY <1>22 DEF TypeOK, LoopInv, DownInv, Terminate
  <2>5. TypeOK'
    <3>1. dlen[w] \in 0 .. NumNodes + 1 /\ dnext[w] \in 0 .. NumNodes + 1
      BY DEF TypeOK
    <3>2. dnext[w] + 1 \in 0 .. NumNodes + 1
      BY <1>22, <3>1 DEF Terminate
    <3>3. cloud' \in [Image -> {"none", "live", "gone"}]
      BY <1>22 DEF TypeOK, Terminate
    <3>4. dnext' \in [Downer -> 0 .. NumNodes + 1]
      BY <1>22, <3>2 DEF TypeOK, Terminate
    <3>5. dpc' \in [Downer -> {"idle", "started", "loop", "ok", "err"}]
      BY <1>22 DEF TypeOK, Terminate
    <3>6. QED
      BY <1>22, <3>3, <3>4, <3>5 DEF TypeOK, Terminate
  <2>6. QED
    BY <2>1, <2>2, <2>3, <2>4, <2>5
<1>23. ASSUME NEW w \in Downer, DownDone(w) PROVE CoreInv'
    BY <1>23 DEF TypeOK, LoopInv, WgInv, ResultInv, CheckInv, DownInv, Active, DownDone
<1>24. CASE Interrupt
    BY <1>24 DEF TypeOK, LoopInv, WgInv, ResultInv, CheckInv, DownInv, Active, Interrupt
<1>25. CASE HandlerExits
    BY <1>25 DEF TypeOK, LoopInv, WgInv, ResultInv, CheckInv, DownInv, Active, HandlerExits
<1>26. CASE UNCHANGED vars
    BY <1>26 DEF vars, TypeOK, LoopInv, WgInv, ResultInv, CheckInv, DownInv, Active
<1>27. QED
    BY <1>1, <1>2, <1>3, <1>4, <1>5, <1>6, <1>7, <1>8, <1>9, <1>10, <1>11, <1>12, <1>13,
       <1>14, <1>15, <1>16, <1>17, <1>18, <1>19, <1>20, <1>21, <1>22, <1>23, <1>24, <1>25,
       <1>26 DEF Next, RealMain, Up, Down, Check, Handler, Ended
-----------------------------------------------------------------------------
(***************************************************************************)
(* What CoreInv gives: typing, and the two properties of the checks.       *)
(***************************************************************************)

LEMMA CoreInit == Init => CoreInv
<1> SUFFICES ASSUME Init PROVE CoreInv
    OBVIOUS
<1> USE NumNodesAssumption DEF Init, Image, NoIP, Downer
<1>1. TypeOK
    BY DEF TypeOK
<1>2. LoopInv /\ ResultInv /\ DownInv
    BY DEF LoopInv, ResultInv, DownInv
<1>3. WgInv
  <2>1. Active = {}
    BY DEF Active
  <2>2. QED
    BY <2>1, FS_EmptySet DEF WgInv
<1>4. CheckInv
    BY DEF CheckInv
<1>5. QED
    BY <1>1, <1>2, <1>3, <1>4 DEF CoreInv

LEMMA CoreAlways == Spec => []CoreInv
    BY CoreInit, CoreStep, PTL DEF Spec

\* Every variable keeps its type; the wait group counter never goes negative.
THEOREM TypeCorrect == Spec => []TypeOK
<1>1. CoreInv => TypeOK
    BY DEF CoreInv
<1>2. QED
    BY <1>1, CoreAlways, PTL

\* Up never returns nil over a failed or unfinished check.
THEOREM UpOkCorrect == Spec => []UpOkMeansVerified
<1>1. CoreInv => UpOkMeansVerified
    BY DEF CoreInv, ResultInv, CheckInv, UpOkMeansVerified
<1>2. QED
    BY <1>1, CoreAlways, PTL

\* The panic on the closed channel takes two failed checks.
THEOREM PanicCorrect == Spec => []PanicNeedsTwoFailures
<1>1. CoreInv => PanicNeedsTwoFailures
  <2> DEFINE Failed == {i \in Image : gerr[i] = "err"}
  <2> SUFFICES ASSUME CoreInv, proc = "panicked" PROVE Cardinality(Failed) >= 2
    BY DEF PanicNeedsTwoFailures
  <2>1. PICK i, j \in Image : i # j /\ gerr[i] = "err" /\ gerr[j] = "err"
    BY DEF CoreInv, CheckInv
  <2>2. IsFiniteSet(Failed) /\ Cardinality(Failed) \in 0 .. NumNodes + 1
    BY ImagesFinite
  <2>3. Failed # {}
    BY <2>1
  <2>4. Cardinality(Failed) # 0
    BY <2>2, <2>3, FS_EmptySet
  <2>5. ~ \E x : Failed = {x}
    BY <2>1
  <2>6. Cardinality(Failed) # 1
    BY <2>2, <2>5, FS_Singleton
  <2>7. QED
    BY <2>2, <2>4, <2>6, NumNodesAssumption
<1>2. QED
    BY <1>1, CoreAlways, PTL

-----------------------------------------------------------------------------
(***************************************************************************)
(* The instances in EC2: which are recorded, how they join, which are gone.*)
(***************************************************************************)

LEMMA CloudStep == CoreInv /\ CloudInv /\ [Next]_vars => CloudInv'
<1> SUFFICES ASSUME CoreInv, CloudInv, [Next]_vars PROVE CloudInv'
    OBVIOUS
<1> USE NumNodesAssumption DEF Image, NoIP, Downer, At, CheckAt, DownAt, mainVars,
        runnerVars, ec2Vars, checkVars, chanVars, downVars, UpFails, NewAWSRunner,
        MissingAddress, FirstIP, WgDoneClosed, AfterSend, OnCheckError, WgDone, TerminateError
<1>1. CASE Build
    BY <1>1 DEF CoreInv, TypeOK, LoopInv, ResultInv, DownInv, CloudInv, Build
<1>2. CASE SkipUp
    BY <1>2 DEF CoreInv, TypeOK, LoopInv, ResultInv, DownInv, CloudInv, SkipUp
<1>3. CASE EnterUp
    BY <1>3 DEF CoreInv, TypeOK, LoopInv, ResultInv, DownInv, CloudInv, EnterUp
<1>4. CASE RunInstances
    BY <1>4 DEF CoreInv, TypeOK, LoopInv, ResultInv, DownInv, CloudInv, RunInstances
<1>5. CASE RecordInstance
    BY <1>5 DEF CoreInv, TypeOK, LoopInv, ResultInv, DownInv, CloudInv, RecordInstance
<1>6. CASE StartCheck
    BY <1>6 DEF CoreInv, TypeOK, LoopInv, ResultInv, DownInv, CloudInv, StartCheck
<1>7. CASE StartWaiter
    BY <1>7 DEF CoreInv, TypeOK, LoopInv, ResultInv, DownInv, CloudInv, StartWaiter
<1>8. CASE SelectDone
    BY <1>8 DEF CoreInv, TypeOK, LoopInv, ResultInv, DownInv, CloudInv, SelectDone
<1>9. ASSUME NEW i \in Image, SelectError(i) PROVE CloudInv'
    BY <1>9 DEF CoreInv, TypeOK, LoopInv, ResultInv, DownInv, CloudInv, SelectError
<1>10. CASE CloseFatalErrors
    BY <1>10 DEF CoreInv, TypeOK, LoopInv, ResultInv, DownInv, CloudInv, CloseFatalErrors
<1>11. CASE Test
    BY <1>11 DEF CoreInv, TypeOK, LoopInv, ResultInv, DownInv, CloudInv, Test
<1>12. CASE DeferredDown
    BY <1>12 DEF CoreInv, TypeOK, LoopInv, ResultInv, DownInv, CloudInv, DeferredDown
<1>13. CASE DownReturned
    BY <1>13 DEF CoreInv, TypeOK, LoopInv, ResultInv, DownInv, CloudInv, DownReturned
<1>14. CASE Finish
    BY <1>14 DEF CoreInv, TypeOK, LoopInv, ResultInv, DownInv, CloudInv, Finish
<1>15. ASSUME NEW i \in Image, CheckPasses(i) PROVE CloudInv'
    BY <1>15 DEF CoreInv, TypeOK, LoopInv, ResultInv, DownInv, CloudInv, CheckPasses
<1>16. ASSUME NEW i \in Image, DownloadKubeConfig(i) PROVE CloudInv'
    BY <1>16 DEF CoreInv, TypeOK, LoopInv, ResultInv, DownInv, CloudInv, DownloadKubeConfig
<1>17. ASSUME NEW i \in Image, CheckFails(i) PROVE CloudInv'
    BY <1>17 DEF CoreInv, TypeOK, LoopInv, ResultInv, DownInv, CloudInv, CheckFails
<1>18. ASSUME NEW i \in Image, SendPanics(i) PROVE CloudInv'
    BY <1>18 DEF CoreInv, TypeOK, LoopInv, ResultInv, DownInv, CloudInv, SendPanics
<1>19. ASSUME NEW i \in Image, CheckReturns(i) PROVE CloudInv'
    BY <1>19 DEF CoreInv, TypeOK, LoopInv, ResultInv, DownInv, CloudInv, CheckReturns
<1>20. CASE CloseWgDone
    BY <1>20 DEF CoreInv, TypeOK, LoopInv, ResultInv, DownInv, CloudInv, CloseWgDone
<1>21. ASSUME NEW w \in Downer, DownStart(w) PROVE CloudInv'
    BY <1>21 DEF CoreInv, TypeOK, LoopInv, ResultInv, DownInv, CloudInv, DownStart
<1>22. ASSUME NEW w \in Downer, Terminate(w) PROVE CloudInv'
    BY <1>22 DEF CoreInv, TypeOK, LoopInv, ResultInv, DownInv, CloudInv, Terminate
<1>23. ASSUME NEW w \in Downer, DownDone(w) PROVE CloudInv'
    BY <1>23 DEF CoreInv, TypeOK, LoopInv, ResultInv, DownInv, CloudInv, DownDone
<1>24. CASE Interrupt
    BY <1>24 DEF CoreInv, TypeOK, LoopInv, ResultInv, DownInv, CloudInv, Interrupt
<1>25. CASE HandlerExits
    BY <1>25 DEF CoreInv, TypeOK, LoopInv, ResultInv, DownInv, CloudInv, HandlerExits
<1>26. CASE UNCHANGED vars
    BY <1>26 DEF vars, CoreInv, TypeOK, LoopInv, ResultInv, DownInv, CloudInv
<1>27. QED
    BY <1>1, <1>2, <1>3, <1>4, <1>5, <1>6, <1>7, <1>8, <1>9, <1>10, <1>11, <1>12, <1>13,
       <1>14, <1>15, <1>16, <1>17, <1>18, <1>19, <1>20, <1>21, <1>22, <1>23, <1>24, <1>25,
       <1>26 DEF Next, RealMain, Up, Down, Check, Handler, Ended

LEMMA AddressStep == CoreInv /\ CloudInv /\ AddressInv /\ [Next]_vars => AddressInv'
<1> SUFFICES ASSUME CoreInv, CloudInv, AddressInv, [Next]_vars PROVE AddressInv'
    OBVIOUS
<1> USE NumNodesAssumption DEF Image, NoIP, Downer, At, CheckAt, DownAt, mainVars,
        runnerVars, ec2Vars, checkVars, chanVars, downVars, UpFails, NewAWSRunner,
        MissingAddress, FirstIP, WgDoneClosed, AfterSend, OnCheckError, WgDone, TerminateError
<1>1. CASE Build
    BY <1>1 DEF CoreInv, TypeOK, LoopInv, ResultInv, DownInv, CloudInv, AddressInv,
       WorkersKnowControlPlane, Build
<1>2. CASE SkipUp
    BY <1>2 DEF CoreInv, TypeOK, LoopInv, ResultInv, DownInv, CloudInv, AddressInv,
       WorkersKnowControlPlane, SkipUp
<1>3. CASE EnterUp
    BY <1>3 DEF CoreInv, TypeOK, LoopInv, ResultInv, DownInv, CloudInv, AddressInv,
       WorkersKnowControlPlane, EnterUp
<1>4. CASE RunInstances
    BY <1>4 DEF CoreInv, TypeOK, LoopInv, ResultInv, DownInv, CloudInv, AddressInv,
       WorkersKnowControlPlane, RunInstances
<1>5. CASE RecordInstance
    BY <1>5 DEF CoreInv, TypeOK, LoopInv, ResultInv, DownInv, CloudInv, AddressInv,
       WorkersKnowControlPlane, RecordInstance
<1>6. CASE StartCheck
    BY <1>6 DEF CoreInv, TypeOK, LoopInv, ResultInv, DownInv, CloudInv, AddressInv,
       WorkersKnowControlPlane, StartCheck
<1>7. CASE StartWaiter
    BY <1>7 DEF CoreInv, TypeOK, LoopInv, ResultInv, DownInv, CloudInv, AddressInv,
       WorkersKnowControlPlane, StartWaiter
<1>8. CASE SelectDone
    BY <1>8 DEF CoreInv, TypeOK, LoopInv, ResultInv, DownInv, CloudInv, AddressInv,
       WorkersKnowControlPlane, SelectDone
<1>9. ASSUME NEW i \in Image, SelectError(i) PROVE AddressInv'
    BY <1>9 DEF CoreInv, TypeOK, LoopInv, ResultInv, DownInv, CloudInv, AddressInv,
       WorkersKnowControlPlane, SelectError
<1>10. CASE CloseFatalErrors
    BY <1>10 DEF CoreInv, TypeOK, LoopInv, ResultInv, DownInv, CloudInv, AddressInv,
       WorkersKnowControlPlane, CloseFatalErrors
<1>11. CASE Test
    BY <1>11 DEF CoreInv, TypeOK, LoopInv, ResultInv, DownInv, CloudInv, AddressInv,
       WorkersKnowControlPlane, Test
<1>12. CASE DeferredDown
    BY <1>12 DEF CoreInv, TypeOK, LoopInv, ResultInv, DownInv, CloudInv, AddressInv,
       WorkersKnowControlPlane, DeferredDown
<1>13. CASE DownReturned
    BY <1>13 DEF CoreInv, TypeOK, LoopInv, ResultInv, DownInv, CloudInv, AddressInv,
       WorkersKnowControlPlane, DownReturned
<1>14. CASE Finish
    BY <1>14 DEF CoreInv, TypeOK, LoopInv, ResultInv, DownInv, CloudInv, AddressInv,
       WorkersKnowControlPlane, Finish
<1>15. ASSUME NEW i \in Image, CheckPasses(i) PROVE AddressInv'
    BY <1>15 DEF CoreInv, TypeOK, LoopInv, ResultInv, DownInv, CloudInv, AddressInv,
       WorkersKnowControlPlane, CheckPasses
<1>16. ASSUME NEW i \in Image, DownloadKubeConfig(i) PROVE AddressInv'
    BY <1>16 DEF CoreInv, TypeOK, LoopInv, ResultInv, DownInv, CloudInv, AddressInv,
       WorkersKnowControlPlane, DownloadKubeConfig
<1>17. ASSUME NEW i \in Image, CheckFails(i) PROVE AddressInv'
    BY <1>17 DEF CoreInv, TypeOK, LoopInv, ResultInv, DownInv, CloudInv, AddressInv,
       WorkersKnowControlPlane, CheckFails
<1>18. ASSUME NEW i \in Image, SendPanics(i) PROVE AddressInv'
    BY <1>18 DEF CoreInv, TypeOK, LoopInv, ResultInv, DownInv, CloudInv, AddressInv,
       WorkersKnowControlPlane, SendPanics
<1>19. ASSUME NEW i \in Image, CheckReturns(i) PROVE AddressInv'
    BY <1>19 DEF CoreInv, TypeOK, LoopInv, ResultInv, DownInv, CloudInv, AddressInv,
       WorkersKnowControlPlane, CheckReturns
<1>20. CASE CloseWgDone
    BY <1>20 DEF CoreInv, TypeOK, LoopInv, ResultInv, DownInv, CloudInv, AddressInv,
       WorkersKnowControlPlane, CloseWgDone
<1>21. ASSUME NEW w \in Downer, DownStart(w) PROVE AddressInv'
    BY <1>21 DEF CoreInv, TypeOK, LoopInv, ResultInv, DownInv, CloudInv, AddressInv,
       WorkersKnowControlPlane, DownStart
<1>22. ASSUME NEW w \in Downer, Terminate(w) PROVE AddressInv'
    BY <1>22 DEF CoreInv, TypeOK, LoopInv, ResultInv, DownInv, CloudInv, AddressInv,
       WorkersKnowControlPlane, Terminate
<1>23. ASSUME NEW w \in Downer, DownDone(w) PROVE AddressInv'
    BY <1>23 DEF CoreInv, TypeOK, LoopInv, ResultInv, DownInv, CloudInv, AddressInv,
       WorkersKnowControlPlane, DownDone
<1>24. CASE Interrupt
    BY <1>24 DEF CoreInv, TypeOK, LoopInv, ResultInv, DownInv, CloudInv, AddressInv,
       WorkersKnowControlPlane, Interrupt
<1>25. CASE HandlerExits
    BY <1>25 DEF CoreInv, TypeOK, LoopInv, ResultInv, DownInv, CloudInv, AddressInv,
       WorkersKnowControlPlane, HandlerExits
<1>26. CASE UNCHANGED vars
    BY <1>26 DEF vars, CoreInv, TypeOK, LoopInv, ResultInv, DownInv, CloudInv, AddressInv,
       WorkersKnowControlPlane
<1>27. QED
    BY <1>1, <1>2, <1>3, <1>4, <1>5, <1>6, <1>7, <1>8, <1>9, <1>10, <1>11, <1>12, <1>13,
       <1>14, <1>15, <1>16, <1>17, <1>18, <1>19, <1>20, <1>21, <1>22, <1>23, <1>24, <1>25,
       <1>26 DEF Next, RealMain, Up, Down, Check, Handler, Ended

LEMMA TerminatedStep == CoreInv /\ CloudInv /\ TerminatedInv /\ [Next]_vars => TerminatedInv'
<1> SUFFICES ASSUME CoreInv, CloudInv, TerminatedInv, [Next]_vars PROVE TerminatedInv'
    OBVIOUS
<1> USE NumNodesAssumption DEF Image, NoIP, Downer, At, CheckAt, DownAt, mainVars,
        runnerVars, ec2Vars, checkVars, chanVars, downVars, UpFails, NewAWSRunner,
        MissingAddress, FirstIP, WgDoneClosed, AfterSend, OnCheckError, WgDone, TerminateError
<1>1. CASE Build
    BY <1>1 DEF CoreInv, TypeOK, LoopInv, ResultInv, DownInv, CloudInv, TerminatedInv, Build
<1>2. CASE SkipUp
    BY <1>2 DEF CoreInv, TypeOK, LoopInv, ResultInv, DownInv, CloudInv, TerminatedInv, SkipUp
<1>3. CASE EnterUp
    BY <1>3 DEF CoreInv, TypeOK, LoopInv, ResultInv, DownInv, CloudInv, TerminatedInv, EnterUp
<1>4. CASE RunInstances
    BY <1>4 DEF CoreInv, TypeOK, LoopInv, ResultInv, DownInv, CloudInv, TerminatedInv, RunInstances
<1>5. CASE RecordInstance
    BY <1>5 DEF CoreInv, TypeOK, LoopInv, ResultInv, DownInv, CloudInv, TerminatedInv,
       RecordInstance
<1>6. CASE StartCheck
    BY <1>6 DEF CoreInv, TypeOK, LoopInv, ResultInv, DownInv, CloudInv, TerminatedInv, StartCheck
<1>7. CASE StartWaiter
    BY <1>7 DEF CoreInv, TypeOK, LoopInv, ResultInv, DownInv, CloudInv, TerminatedInv, StartWaiter
<1>8. CASE SelectDone
    BY <1>8 DEF CoreInv, TypeOK, LoopInv, ResultInv, DownInv, CloudInv, TerminatedInv, SelectDone
<1>9. ASSUME NEW i \in Image, SelectError(i) PROVE TerminatedInv'
    BY <1>9 DEF CoreInv, TypeOK, LoopInv, ResultInv, DownInv, CloudInv, TerminatedInv, SelectError
<1>10. CASE CloseFatalErrors
    BY <1>10 DEF CoreInv, TypeOK, LoopInv, ResultInv, DownInv, CloudInv, TerminatedInv,
       CloseFatalErrors
<1>11. CASE Test
    BY <1>11 DEF CoreInv, TypeOK, LoopInv, ResultInv, DownInv, CloudInv, TerminatedInv, Test
<1>12. CASE DeferredDown
    BY <1>12 DEF CoreInv, TypeOK, LoopInv, ResultInv, DownInv, CloudInv, TerminatedInv, DeferredDown
<1>13. CASE DownReturned
    BY <1>13 DEF CoreInv, TypeOK, LoopInv, ResultInv, DownInv, CloudInv, TerminatedInv, DownReturned
<1>14. CASE Finish
    BY <1>14 DEF CoreInv, TypeOK, LoopInv, ResultInv, DownInv, CloudInv, TerminatedInv, Finish
<1>15. ASSUME NEW i \in Image, CheckPasses(i) PROVE TerminatedInv'
    BY <1>15 DEF CoreInv, TypeOK, LoopInv, ResultInv, DownInv, CloudInv, TerminatedInv, CheckPasses
<1>16. ASSUME NEW i \in Image, DownloadKubeConfig(i) PROVE TerminatedInv'
    BY <1>16 DEF CoreInv, TypeOK, LoopInv, ResultInv, DownInv, CloudInv, TerminatedInv,
       DownloadKubeConfig
<1>17. ASSUME NEW i \in Image, CheckFails(i) PROVE TerminatedInv'
    BY <1>17 DEF CoreInv, TypeOK, LoopInv, ResultInv, DownInv, CloudInv, TerminatedInv, CheckFails
<1>18. ASSUME NEW i \in Image, SendPanics(i) PROVE TerminatedInv'
    BY <1>18 DEF CoreInv, TypeOK, LoopInv, ResultInv, DownInv, CloudInv, TerminatedInv, SendPanics
<1>19. ASSUME NEW i \in Image, CheckReturns(i) PROVE TerminatedInv'
    BY <1>19 DEF CoreInv, TypeOK, LoopInv, ResultInv, DownInv, CloudInv, TerminatedInv, CheckReturns
<1>20. CASE CloseWgDone
    BY <1>20 DEF CoreInv, TypeOK, LoopInv, ResultInv, DownInv, CloudInv, TerminatedInv, CloseWgDone
<1>21. ASSUME NEW w \in Downer, DownStart(w) PROVE TerminatedInv'
    BY <1>21 DEF CoreInv, TypeOK, LoopInv, ResultInv, DownInv, CloudInv, TerminatedInv, DownStart
<1>22. ASSUME NEW w \in Downer, Terminate(w) PROVE TerminatedInv'
  <2> USE DEF CoreInv, TypeOK, DownInv, TerminatedInv
  <2>1. CASE dpc' = [dpc EXCEPT ![w] = "err"] /\ UNCHANGED <<cloud, dnext>>
    BY <1>22, <2>1 DEF Terminate
  <2>2. CASE /\ cloud' = [cloud EXCEPT ![dnext[w]] = "gone"]
             /\ dnext' = [dnext EXCEPT ![w] = @ + 1]
             /\ UNCHANGED dpc
    <3>1. dpc[w] = "loop" /\ UNCHANGED <<pc, instances, dlen>>
      BY <1>22 DEF Terminate
    <3>2. ASSUME NEW v \in Downer, NEW i \in Image, i < dnext'[v] PROVE cloud'[i] = "gone"
      <4>1. i = dnext[w] \/ i < dnext[v]
        BY <2>2, <3>2
      <4>2. QED
        BY <2>2, <4>1
    <3>3. QED
      BY <2>2, <3>1, <3>2
  <2>3. QED
    BY <1>22, <2>1, <2>2 DEF Terminate
<1>23. ASSUME NEW w \in Downer, DownDone(w) PROVE TerminatedInv'
    BY <1>23 DEF CoreInv, TypeOK, LoopInv, ResultInv, DownInv, CloudInv, TerminatedInv, DownDone
<1>24. CASE Interrupt
    BY <1>24 DEF CoreInv, TypeOK, LoopInv, ResultInv, DownInv, CloudInv, TerminatedInv, Interrupt
<1>25. CASE HandlerExits
    BY <1>25 DEF CoreInv, TypeOK, LoopInv, ResultInv, DownInv, CloudInv, TerminatedInv, HandlerExits
<1>26. CASE UNCHANGED vars
    BY <1>26 DEF vars, CoreInv, TypeOK, LoopInv, ResultInv, DownInv, CloudInv, TerminatedInv
<1>27. QED
    BY <1>1, <1>2, <1>3, <1>4, <1>5, <1>6, <1>7, <1>8, <1>9, <1>10, <1>11, <1>12, <1>13,
       <1>14, <1>15, <1>16, <1>17, <1>18, <1>19, <1>20, <1>21, <1>22, <1>23, <1>24, <1>25,
       <1>26 DEF Next, RealMain, Up, Down, Check, Handler, Ended

LEMMA RunnerStep == CoreInv /\ CloudInv /\ RunnerInv /\ [Next]_vars => RunnerInv'
<1> SUFFICES ASSUME CoreInv, CloudInv, RunnerInv, [Next]_vars PROVE RunnerInv'
    OBVIOUS
<1> USE NumNodesAssumption DEF Image, NoIP, Downer, At, CheckAt, DownAt, mainVars,
        runnerVars, ec2Vars, checkVars, chanVars, downVars, UpFails, NewAWSRunner,
        MissingAddress, FirstIP, WgDoneClosed, AfterSend, OnCheckError, WgDone, TerminateError
<1>1. CASE Build
    BY <1>1 DEF CoreInv, TypeOK, LoopInv, ResultInv, DownInv, CloudInv, RunnerInv, Build
<1>2. CASE SkipUp
    BY <1>2 DEF CoreInv, TypeOK, LoopInv, ResultInv, DownInv, CloudInv, RunnerInv, SkipUp
<1>3. CASE EnterUp
    BY <1>3 DEF CoreInv, TypeOK, LoopInv, ResultInv, DownInv, CloudInv, RunnerInv, EnterUp
<1>4. CASE RunInstances
    BY <1>4 DEF CoreInv, TypeOK, LoopInv, ResultInv, DownInv, CloudInv, RunnerInv, RunInstances
<1>5. CASE RecordInstance
    BY <1>5 DEF CoreInv, TypeOK, LoopInv, ResultInv, DownInv, CloudInv, RunnerInv, RecordInstance
<1>6. CASE StartCheck
    BY <1>6 DEF CoreInv, TypeOK, LoopInv, ResultInv, DownInv, CloudInv, RunnerInv, StartCheck
<1>7. CASE StartWaiter
    BY <1>7 DEF CoreInv, TypeOK, LoopInv, ResultInv, DownInv, CloudInv, RunnerInv, StartWaiter
<1>8. CASE SelectDone
    BY <1>8 DEF CoreInv, TypeOK, LoopInv, ResultInv, DownInv, CloudInv, RunnerInv, SelectDone
<1>9. ASSUME NEW i \in Image, SelectError(i) PROVE RunnerInv'
    BY <1>9 DEF CoreInv, TypeOK, LoopInv, ResultInv, DownInv, CloudInv, RunnerInv, SelectError
<1>10. CASE CloseFatalErrors
    BY <1>10 DEF CoreInv, TypeOK, LoopInv, ResultInv, DownInv, CloudInv, RunnerInv, CloseFatalErrors
<1>11. CASE Test
    BY <1>11 DEF CoreInv, TypeOK, LoopInv, ResultInv, DownInv, CloudInv, RunnerInv, Test
<1>12. CASE DeferredDown
    BY <1>12 DEF CoreInv, TypeOK, LoopInv, ResultInv, DownInv, CloudInv, RunnerInv, DeferredDown
<1>13. CASE DownReturned
    BY <1>13 DEF CoreInv, TypeOK, LoopInv, ResultInv, DownInv, CloudInv, RunnerInv, DownReturned
<1>14. CASE Finish
    BY <1>14 DEF CoreInv, TypeOK, LoopInv, ResultInv, DownInv, CloudInv, RunnerInv, Finish
<1>15. ASSUME NEW i \in Image, CheckPasses(i) PROVE RunnerInv'
    BY <1>15 DEF CoreInv, TypeOK, LoopInv, ResultInv, DownInv, CloudInv, RunnerInv, CheckPasses
<1>16. ASSUME NEW i \in Image, DownloadKubeConfig(i) PROVE RunnerInv'
    BY <1>16 DEF CoreInv, TypeOK, LoopInv, ResultInv, DownInv, CloudInv, RunnerInv,
       DownloadKubeConfig
<1>17. ASSUME NEW i \in Image, CheckFails(i) PROVE RunnerInv'
    BY <1>17 DEF CoreInv, TypeOK, LoopInv, ResultInv, DownInv, CloudInv, RunnerInv, CheckFails
<1>18. ASSUME NEW i \in Image, SendPanics(i) PROVE RunnerInv'
    BY <1>18 DEF CoreInv, TypeOK, LoopInv, ResultInv, DownInv, CloudInv, RunnerInv, SendPanics
<1>19. ASSUME NEW i \in Image, CheckReturns(i) PROVE RunnerInv'
    BY <1>19 DEF CoreInv, TypeOK, LoopInv, ResultInv, DownInv, CloudInv, RunnerInv, CheckReturns
<1>20. CASE CloseWgDone
    BY <1>20 DEF CoreInv, TypeOK, LoopInv, ResultInv, DownInv, CloudInv, RunnerInv, CloseWgDone
<1>21. ASSUME NEW w \in Downer, DownStart(w) PROVE RunnerInv'
    BY <1>21 DEF CoreInv, TypeOK, LoopInv, ResultInv, DownInv, CloudInv, RunnerInv, DownStart
<1>22. ASSUME NEW w \in Downer, Terminate(w) PROVE RunnerInv'
    BY <1>22 DEF CoreInv, TypeOK, LoopInv, ResultInv, DownInv, CloudInv, RunnerInv, Terminate
<1>23. ASSUME NEW w \in Downer, DownDone(w) PROVE RunnerInv'
    BY <1>23 DEF CoreInv, TypeOK, LoopInv, ResultInv, DownInv, CloudInv, RunnerInv, DownDone
<1>24. CASE Interrupt
    BY <1>24 DEF CoreInv, TypeOK, LoopInv, ResultInv, DownInv, CloudInv, RunnerInv, Interrupt
<1>25. CASE HandlerExits
    BY <1>25 DEF CoreInv, TypeOK, LoopInv, ResultInv, DownInv, CloudInv, RunnerInv, HandlerExits
<1>26. CASE UNCHANGED vars
    BY <1>26 DEF vars, CoreInv, TypeOK, LoopInv, ResultInv, DownInv, CloudInv, RunnerInv
<1>27. QED
    BY <1>1, <1>2, <1>3, <1>4, <1>5, <1>6, <1>7, <1>8, <1>9, <1>10, <1>11, <1>12, <1>13,
       <1>14, <1>15, <1>16, <1>17, <1>18, <1>19, <1>20, <1>21, <1>22, <1>23, <1>24, <1>25,
       <1>26 DEF Next, RealMain, Up, Down, Check, Handler, Ended

LEMMA EndStep == CoreInv /\ CloudInv /\ EndInv /\ [Next]_vars => EndInv'
<1> SUFFICES ASSUME CoreInv, CloudInv, EndInv, [Next]_vars PROVE EndInv'
    OBVIOUS
<1> USE NumNodesAssumption DEF Image, NoIP, Downer, At, CheckAt, DownAt, mainVars,
        runnerVars, ec2Vars, checkVars, chanVars, downVars, UpFails, NewAWSRunner,
        MissingAddress, FirstIP, WgDoneClosed, AfterSend, OnCheckError, WgDone, TerminateError
<1>1. CASE Build
    BY <1>1 DEF CoreInv, TypeOK, LoopInv, ResultInv, DownInv, CloudInv, EndInv, Build
<1>2. CASE SkipUp
    BY <1>2 DEF CoreInv, TypeOK, LoopInv, ResultInv, DownInv, CloudInv, EndInv, SkipUp
<1>3. CASE EnterUp
    BY <1>3 DEF CoreInv, TypeOK, LoopInv, ResultInv, DownInv, CloudInv, EndInv, EnterUp
<1>4. CASE RunInstances
    BY <1>4 DEF CoreInv, TypeOK, LoopInv, ResultInv, DownInv, CloudInv, EndInv, RunInstances
<1>5. CASE RecordInstance
    BY <1>5 DEF CoreInv, TypeOK, LoopInv, ResultInv, DownInv, CloudInv, EndInv, RecordInstance
<1>6. CASE StartCheck
    BY <1>6 DEF CoreInv, TypeOK, LoopInv, ResultInv, DownInv, CloudInv, EndInv, StartCheck
<1>7. CASE StartWaiter
    BY <1>7 DEF CoreInv, TypeOK, LoopInv, ResultInv, DownInv, CloudInv, EndInv, StartWaiter
<1>8. CASE SelectDone
    BY <1>8 DEF CoreInv, TypeOK, LoopInv, ResultInv, DownInv, CloudInv, EndInv, SelectDone
<1>9. ASSUME NEW i \in Image, SelectError(i) PROVE EndInv'
    BY <1>9 DEF CoreInv, TypeOK, LoopInv, ResultInv, DownInv, CloudInv, EndInv, SelectError
<1>10. CASE CloseFatalErrors
    BY <1>10 DEF CoreInv, TypeOK, LoopInv, ResultInv, DownInv, CloudInv, EndInv, CloseFatalErrors
<1>11. CASE Test
    BY <1>11 DEF CoreInv, TypeOK, LoopInv, ResultInv, DownInv, CloudInv, EndInv, Test
<1>12. CASE DeferredDown
    BY <1>12 DEF CoreInv, TypeOK, LoopInv, ResultInv, DownInv, CloudInv, EndInv, DeferredDown
<1>13. CASE DownReturned
    BY <1>13 DEF CoreInv, TypeOK, LoopInv, ResultInv, DownInv, CloudInv, EndInv, DownReturned
<1>14. CASE Finish
    BY <1>14 DEF CoreInv, TypeOK, LoopInv, ResultInv, DownInv, CloudInv, EndInv, Finish
<1>15. ASSUME NEW i \in Image, CheckPasses(i) PROVE EndInv'
    BY <1>15 DEF CoreInv, TypeOK, LoopInv, ResultInv, DownInv, CloudInv, EndInv, CheckPasses
<1>16. ASSUME NEW i \in Image, DownloadKubeConfig(i) PROVE EndInv'
    BY <1>16 DEF CoreInv, TypeOK, LoopInv, ResultInv, DownInv, CloudInv, EndInv,
       DownloadKubeConfig
<1>17. ASSUME NEW i \in Image, CheckFails(i) PROVE EndInv'
    BY <1>17 DEF CoreInv, TypeOK, LoopInv, ResultInv, DownInv, CloudInv, EndInv, CheckFails
<1>18. ASSUME NEW i \in Image, SendPanics(i) PROVE EndInv'
    BY <1>18 DEF CoreInv, TypeOK, LoopInv, ResultInv, DownInv, CloudInv, EndInv, SendPanics
<1>19. ASSUME NEW i \in Image, CheckReturns(i) PROVE EndInv'
    BY <1>19 DEF CoreInv, TypeOK, LoopInv, ResultInv, DownInv, CloudInv, EndInv, CheckReturns
<1>20. CASE CloseWgDone
    BY <1>20 DEF CoreInv, TypeOK, LoopInv, ResultInv, DownInv, CloudInv, EndInv, CloseWgDone
<1>21. ASSUME NEW w \in Downer, DownStart(w) PROVE EndInv'
    BY <1>21 DEF CoreInv, TypeOK, LoopInv, ResultInv, DownInv, CloudInv, EndInv, DownStart
<1>22. ASSUME NEW w \in Downer, Terminate(w) PROVE EndInv'
    BY <1>22 DEF CoreInv, TypeOK, LoopInv, ResultInv, DownInv, CloudInv, EndInv, Terminate
<1>23. ASSUME NEW w \in Downer, DownDone(w) PROVE EndInv'
    BY <1>23 DEF CoreInv, TypeOK, LoopInv, ResultInv, DownInv, CloudInv, EndInv, DownDone
<1>24. CASE Interrupt
    BY <1>24 DEF CoreInv, TypeOK, LoopInv, ResultInv, DownInv, CloudInv, EndInv, Interrupt
<1>25. CASE HandlerExits
    BY <1>25 DEF CoreInv, TypeOK, LoopInv, ResultInv, DownInv, CloudInv, EndInv, HandlerExits
<1>26. CASE UNCHANGED vars
    BY <1>26 DEF vars, CoreInv, TypeOK, LoopInv, ResultInv, DownInv, CloudInv, EndInv
<1>27. QED
    BY <1>1, <1>2, <1>3, <1>4, <1>5, <1>6, <1>7, <1>8, <1>9, <1>10, <1>11, <1>12, <1>13,
       <1>14, <1>15, <1>16, <1>17, <1>18, <1>19, <1>20, <1>21, <1>22, <1>23, <1>24, <1>25,
       <1>26 DEF Next, RealMain, Up, Down, Check, Handler, Ended

-----------------------------------------------------------------------------
(***************************************************************************)
(* The inductive invariant, and the properties that follow from it.        *)
(***************************************************************************)

LEMMA InvInit == Init => IInv
<1>1. Init => CloudInv /\ AddressInv /\ TerminatedInv /\ RunnerInv /\ EndInv
    BY NumNodesAssumption DEF Init, CloudInv, AddressInv, TerminatedInv, RunnerInv, EndInv,
       WorkersKnowControlPlane, Image, NoIP, Downer
<1>2. QED
    BY <1>1, CoreInit DEF IInv

LEMMA InvStep == IInv /\ [Next]_vars => IInv'
    BY CoreStep, CloudStep, AddressStep, TerminatedStep, RunnerStep, EndStep DEF IInv

\* The inductive invariant holds in every run, for any number of workers.
THEOREM Invariance == Spec => []IInv
    BY InvInit, InvStep, PTL DEF Spec

\* At most one instance is out of reach of Down, and it is the last launched.
THEOREM OrphanCorrect == Spec => []OrphanIsLast
<1>1. IInv => OrphanIsLast
    BY NumNodesAssumption DEF IInv, CoreInv, TypeOK, CloudInv, OrphanIsLast, Image
<1>2. QED
    BY <1>1, Invariance, PTL

\* Workers join the control plane, the control plane joins nobody.
THEOREM JoinCorrect == Spec => []WorkersKnowControlPlane
<1>1. IInv => WorkersKnowControlPlane
    BY DEF IInv, AddressInv
<1>2. QED
    BY <1>1, Invariance, PTL

\* A run whose Up and Down succeeded checked every instance and left none.
THEOREM CleanRunCorrect == Spec => []CleanRunLeavesNothing
<1>1. IInv => CleanRunLeavesNothing
  <2> SUFFICES ASSUME IInv, upErr = "ok", dpc["main"] = "ok", NEW i \in Image
               PROVE  gerr[i] = "ok" /\ cloud[i] = "gone"
    BY DEF CleanRunLeavesNothing
  <2>1. gerr[i] = "ok"
    BY DEF IInv, CoreInv, ResultInv, CheckInv
  <2>2. image = NumNodes + 1 /\ pc # "started"
    BY DEF IInv, CoreInv, LoopInv, ResultInv
  <2>3. dnext["main"] = NumNodes + 1
    BY <2>2 DEF IInv, CoreInv, LoopInv, TerminatedInv, Downer
  <2>4. i < dnext["main"]
    BY <2>3, NumNodesAssumption DEF Image
  <2>5. cloud[i] = "gone"
    BY <2>4 DEF IInv, TerminatedInv, Downer
  <2>6. QED
    BY <2>1, <2>5
<1>2. QED
    BY <1>1, Invariance, PTL

\* What outlives a run has one of the four causes.
THEOREM SurvivorsCorrect == Spec => []SurvivorsExplained
<1>1. IInv => SurvivorsExplained
  <2> SUFFICES ASSUME IInv, proc # "running", opts.down, NEW i \in Image, cloud[i] = "live",
                      proc \notin {"panicked", "fatal"}
               PROVE  \/ proc = "exited" /\ LeftBy("main", i)
                      \/ proc = "interrupted" /\ LeftBy("handler", i)
    BY DEF SurvivorsExplained
  <2>1. \A w \in Downer : dpc[w] \in {"ok", "err"} => LeftBy(w, i)
    <3> SUFFICES ASSUME NEW w \in Downer, dpc[w] \in {"ok", "err"} PROVE LeftBy(w, i)
      OBVIOUS
    <3>1. ~(i < dnext[w])
      BY DEF IInv, TerminatedInv
    <3>2. dpc[w] = "ok" => dnext[w] = dlen[w]
      BY DEF IInv, TerminatedInv
    <3>3. i \in Int /\ dnext[w] \in Int /\ dlen[w] \in Int
      BY NumNodesAssumption DEF IInv, CoreInv, TypeOK, Image
    <3>4. QED
      BY <3>1, <3>2, <3>3 DEF LeftBy
  <2>2. proc \in {"exited", "interrupted"}
    BY DEF IInv, CoreInv, TypeOK, RunnerInv
  <2>3. QED
    BY <2>1, <2>2 DEF IInv, EndInv, Downer
<1>2. QED
    BY <1>1, Invariance, PTL

\* Down with a nil runner panics, and nothing had been launched.
THEOREM NilRunnerCorrect == Spec => []NilRunnerLosesNothing
<1>1. IInv => NilRunnerLosesNothing
    BY DEF IInv, RunnerInv, NilRunnerLosesNothing
<1>2. QED
    BY <1>1, Invariance, PTL

-----------------------------------------------------------------------------
(***************************************************************************)
(* Deployer implements ClusterLifecycle: RunInstances is Launch, a check   *)
(* that passes is PassCheck, the return of Up is Decide, TerminateInstances*)
(* is Terminate, and every other step stutters.                            *)
(***************************************************************************)
Checked == {i \in Image : gerr[i] = "ok"}
Verdict == CASE upErr = "none" -> "pending"
             [] upErr = "ok" -> "up"
             [] upErr = "err" -> "failed"

LEMMA LifecycleInit == Init => Lifecycle!Init
    BY DEF Init, Lifecycle!Init, Lifecycle!Image, Image

LEMMA LifecycleStep == IInv /\ [Next]_vars => [Lifecycle!Next]_(Lifecycle!lifecycleVars)
<1> DEFINE Matched == Lifecycle!Next \/ UNCHANGED <<cloud, Checked, Verdict>>
<1> SUFFICES ASSUME IInv, [Next]_vars PROVE Matched
    BY DEF Lifecycle!lifecycleVars, Checked, Verdict
<1> USE NumNodesAssumption DEF IInv, CoreInv, TypeOK, Image, At, CheckAt, DownAt,
        mainVars, runnerVars, ec2Vars, checkVars, chanVars, downVars, UpFails,
        NewAWSRunner, MissingAddress, FirstIP, WgDoneClosed, AfterSend, OnCheckError,
        WgDone, TerminateError
<1>1. CASE Build
    BY <1>1 DEF Build, ResultInv, CheckInv, Checked, Verdict
<1>2. CASE SkipUp
    BY <1>2 DEF SkipUp, ResultInv, CheckInv, Checked, Verdict
<1>3. CASE EnterUp
    BY <1>3 DEF EnterUp, ResultInv, LoopInv, CheckInv, DownInv, CloudInv, Checked, Verdict, Downer,
       Lifecycle!Next, Lifecycle!Launch, Lifecycle!PassCheck, Lifecycle!Terminate, Lifecycle!Decide, Lifecycle!Image
<1>4. CASE RunInstances
    BY <1>4 DEF RunInstances, ResultInv, LoopInv, CheckInv, DownInv, CloudInv, Checked,
       Verdict, Downer,
       Lifecycle!Next, Lifecycle!Launch, Lifecycle!PassCheck, Lifecycle!Terminate, Lifecycle!Decide, Lifecycle!Image
<1>5. CASE RecordInstance
    BY <1>5 DEF RecordInstance, ResultInv, LoopInv, CheckInv, DownInv, CloudInv, Checked,
       Verdict, Downer,
       Lifecycle!Next, Lifecycle!Launch, Lifecycle!PassCheck, Lifecycle!Terminate, Lifecycle!Decide, Lifecycle!Image
<1>6. CASE StartCheck
    BY <1>6 DEF StartCheck, ResultInv, CheckInv, Checked, Verdict
<1>7. CASE StartWaiter
    BY <1>7 DEF StartWaiter, ResultInv, CheckInv, Checked, Verdict
<1>8. CASE SelectDone
    BY <1>8 DEF SelectDone, ResultInv, LoopInv, CheckInv, DownInv, CloudInv, Checked,
       Verdict, Downer,
       Lifecycle!Next, Lifecycle!Launch, Lifecycle!PassCheck, Lifecycle!Terminate, Lifecycle!Decide, Lifecycle!Image
<1>9. ASSUME NEW i \in Image, SelectError(i) PROVE Matched
    BY <1>9 DEF SelectError, ResultInv, CheckInv, Checked, Verdict
<1>10. CASE CloseFatalErrors
    BY <1>10 DEF CloseFatalErrors, ResultInv, LoopInv, CheckInv, DownInv, CloudInv, Checked,
       Verdict, Downer,
       Lifecycle!Next, Lifecycle!Launch, Lifecycle!PassCheck, Lifecycle!Terminate, Lifecycle!Decide, Lifecycle!Image
<1>11. CASE Test
    BY <1>11 DEF Test, ResultInv, CheckInv, Checked, Verdict
<1>12. CASE DeferredDown
    BY <1>12 DEF DeferredDown, ResultInv, CheckInv, Checked, Verdict
<1>13. CASE DownReturned
    BY <1>13 DEF DownReturned, ResultInv, CheckInv, Checked, Verdict
<1>14. CASE Finish
    BY <1>14 DEF Finish, ResultInv, CheckInv, Checked, Verdict
<1>15. ASSUME NEW i \in Image, CheckPasses(i) PROVE Matched
  <2>1. \/ UNCHANGED gerr
        \/ gerr' = [gerr EXCEPT ![i] = "ok"]
    BY <1>15 DEF CheckPasses
  <2>2. UNCHANGED <<cloud, upErr>>
    BY <1>15 DEF CheckPasses
  <2>3. cloud[i] # "none"
    BY <1>15 DEF CheckPasses, LoopInv, CloudInv
  <2>4. UNCHANGED Checked \/ Checked' = Checked \cup {i}
    BY <2>1 DEF Checked
  <2>5. QED
    BY <2>2, <2>3, <2>4 DEF Checked, Verdict, Lifecycle!Next, Lifecycle!PassCheck, Lifecycle!Image
<1>16. ASSUME NEW i \in Image, DownloadKubeConfig(i) PROVE Matched
  <2>1. \/ UNCHANGED gerr
        \/ gerr' = [gerr EXCEPT ![i] = "ok"]
    BY <1>16 DEF DownloadKubeConfig
  <2>2. UNCHANGED <<cloud, upErr>>
    BY <1>16 DEF DownloadKubeConfig
  <2>3. cloud[i] # "none"
    BY <1>16 DEF DownloadKubeConfig, LoopInv, CloudInv
  <2>4. UNCHANGED Checked \/ Checked' = Checked \cup {i}
    BY <2>1 DEF Checked
  <2>5. QED
    BY <2>2, <2>3, <2>4 DEF Checked, Verdict, Lifecycle!Next, Lifecycle!PassCheck, Lifecycle!Image
<1>17. ASSUME NEW i \in Image, CheckFails(i) PROVE Matched
    BY <1>17 DEF CheckFails, ResultInv, CheckInv, Checked, Verdict
<1>18. ASSUME NEW i \in Image, SendPanics(i) PROVE Matched
    BY <1>18 DEF SendPanics, ResultInv, CheckInv, Checked, Verdict
<1>19. ASSUME NEW i \in Image, CheckReturns(i) PROVE Matched
    BY <1>19 DEF CheckReturns, ResultInv, CheckInv, Checked, Verdict
<1>20. CASE CloseWgDone
    BY <1>20 DEF CloseWgDone, ResultInv, CheckInv, Checked, Verdict
<1>21. ASSUME NEW w \in Downer, DownStart(w) PROVE Matched
    BY <1>21 DEF DownStart, ResultInv, CheckInv, Checked, Verdict
<1>22. ASSUME NEW w \in Downer, Terminate(w) PROVE Matched
  <2>1. UNCHANGED <<gerr, upErr>>
    BY <1>22 DEF Terminate
  <2>2. UNCHANGED Checked /\ UNCHANGED Verdict
    BY <2>1 DEF Checked, Verdict
  <2>3. CASE UNCHANGED cloud
    BY <2>2, <2>3
  <2>4. CASE dnext[w] < dlen[w] /\ cloud' = [cloud EXCEPT ![dnext[w]] = "gone"]
    <3>1. dnext[w] \in Image /\ cloud[dnext[w]] # "none"
      BY <2>4 DEF DownInv, LoopInv, CloudInv, Downer
    <3>2. Lifecycle!Terminate(dnext[w])
      BY <2>2, <2>4, <3>1 DEF Lifecycle!Terminate, Checked, Verdict
    <3>3. QED
      BY <3>1, <3>2 DEF Lifecycle!Next, Lifecycle!Image
  <2>5. QED
    BY <1>22, <2>3, <2>4 DEF Terminate
<1>23. ASSUME NEW w \in Downer, DownDone(w) PROVE Matched
    BY <1>23 DEF DownDone, ResultInv, CheckInv, Checked, Verdict
<1>24. CASE Interrupt
    BY <1>24 DEF Interrupt, ResultInv, CheckInv, Checked, Verdict
<1>25. CASE HandlerExits
    BY <1>25 DEF HandlerExits, ResultInv, CheckInv, Checked, Verdict
<1>26. CASE UNCHANGED vars
    BY <1>26 DEF vars, Checked, Verdict
<1> HIDE DEF Matched
<1>27. QED
    BY <1>1, <1>2, <1>3, <1>4, <1>5, <1>6, <1>7, <1>8, <1>9, <1>10, <1>11, <1>12, <1>13,
       <1>14, <1>15, <1>16, <1>17, <1>18, <1>19, <1>20, <1>21, <1>22, <1>23, <1>24, <1>25,
       <1>26 DEF Next, RealMain, Up, Down, Check, Handler, Ended, Downer

\* Every behaviour of a run is one the abstract life cycle allows.
THEOREM LifecycleImplemented == Spec => ImplementsLifecycle
    BY Invariance, LifecycleInit, LifecycleStep, PTL
    DEF Spec, ImplementsLifecycle, Lifecycle!Spec

-----------------------------------------------------------------------------
(***************************************************************************)
(* Why a run comes to its end (Termination), as far as single steps show   *)
(* it: some goroutine can always take a step, and every step uses up one   *)
(* of a number fixed by the command line.                                  *)
(***************************************************************************)

\* The goroutine that waits for all checks is there when the select waits for it, and
\* RealMain waits for a Down it has begun.
WaitInv ==
    /\ pc \in {"build", "up", "create", "launched", "started", "wait"} => waiter = "none"
    /\ pc \in {"select", "close"} => waiter # "none"
    /\ pc = "down" => dpc["main"] # "idle"

\* The goroutines that can take a step of their own, signals apart.  Every place that
\* is not named has one that depends on nobody.
SomebodyCanStep ==
    proc = "running" =>
        \/ pc \notin {"select", "down", "finish"}
        \/ pc = "select" /\ (WgDoneClosed \/ \E i \in Image : gpc[i] = "sending")
        \/ pc = "down" /\ dpc["main"] \in {"ok", "err"}
        \/ pc = "finish" /\ dpc["handler"] = "idle"
        \/ \E i \in Image : gpc[i] \in {"checking", "download", "returning"}
        \/ waiter = "waiting" /\ wg = 0
        \/ \E w \in Downer : \/ dpc[w] = "started"
                             \/ dpc[w] = "loop" /\ dnext[w] <= dlen[w]
        \/ dpc["handler"] \in {"ok", "err"}

\* WaitInv is inductive: StartWaiter comes before the select, DeferredDown before the
\* wait for Down.
LEMMA WaitStep == CoreInv /\ WaitInv /\ [Next]_vars => WaitInv'
<1> SUFFICES ASSUME CoreInv, WaitInv, [Next]_vars PROVE WaitInv'
  OBVIOUS
<1> USE DEF WaitInv, At, CheckAt, DownAt, mainVars, chanVars, downVars
<1>t. /\ dpc \in [Downer -> {"idle", "started", "loop", "ok", "err"}]
      /\ "main" \in Downer /\ "handler" \in Downer
  BY DEF CoreInv, TypeOK, Downer
<1>1. CASE Build \/ SkipUp \/ EnterUp \/ RunInstances \/ RecordInstance \/ StartCheck
  BY <1>1 DEF Build, SkipUp, EnterUp, RunInstances, RecordInstance, StartCheck, UpFails,
              MissingAddress
<1>2. CASE StartWaiter \/ SelectDone \/ (\E i \in Image : SelectError(i)) \/ CloseFatalErrors
  BY <1>2 DEF StartWaiter, SelectDone, SelectError, CloseFatalErrors, UpFails
<1>3. CASE Test \/ DownReturned \/ Finish
  BY <1>3 DEF Test, DownReturned, Finish
<1>4. CASE DeferredDown
  BY <1>4, <1>t DEF DeferredDown
<1>5. ASSUME NEW w \in Downer, Down(w) PROVE WaitInv'
  <2>1. UNCHANGED <<pc, waiter>> /\ (dpc' = dpc \/ \E l \in {"loop", "ok", "err"} :
                                                      dpc' = [dpc EXCEPT ![w] = l])
    BY <1>5 DEF Down, DownStart, Terminate, DownDone, TerminateError
  <2> QED
    BY <2>1, <1>t
<1>6. ASSUME NEW i \in Image, Check(i) PROVE WaitInv'
  BY <1>6 DEF Check, CheckPasses, DownloadKubeConfig, CheckFails, SendPanics, CheckReturns
<1>7. CASE CloseWgDone
  BY <1>7 DEF CloseWgDone
<1>8. CASE Interrupt
  BY <1>8, <1>t DEF Interrupt
<1>9. CASE HandlerExits
  BY <1>9 DEF HandlerExits
<1>10. CASE Ended \/ UNCHANGED vars
  BY <1>10 DEF Ended, vars
<1> QED
  BY <1>1, <1>2, <1>3, <1>4, <1>5, <1>6, <1>7, <1>8, <1>9, <1>10, <1>t
  DEF Next, RealMain, Up, Handler

\* WaitInv holds in every run.
LEMMA WaitAlways == Spec => []WaitInv
<1>1. Init => WaitInv
  BY DEF Init, WaitInv
<1> QED
  BY <1>1, WaitStep, CoreAlways, PTL DEF Spec

\* No run of kubetest2-ec2 blocks: the select of Up has an answer or somebody at work
\* on one, and so has the handshake of RealMain with the handler.
THEOREM NobodyBlocks == Spec => []SomebodyCanStep
<1>1. ASSUME CoreInv, WaitInv PROVE SomebodyCanStep
  <2> SUFFICES ASSUME proc = "running", pc \in {"select", "down", "finish"}
               PROVE  SomebodyCanStep
    BY DEF SomebodyCanStep
  <2> USE DEF SomebodyCanStep, Downer
  <2>t. /\ dpc \in [Downer -> {"idle", "started", "loop", "ok", "err"}]
        /\ gpc \in [Image -> {"none", "checking", "download", "sending", "returning", "done"}]
        /\ \A w \in Downer : dnext[w] <= dlen[w]
    BY <1>1 DEF CoreInv, TypeOK, DownInv
  <2>1. CASE pc = "select"
    <3>1. CASE Active = {}
      <4>1. wg = 0
        BY <1>1, <3>1, FS_EmptySet DEF CoreInv, WgInv
      <4>2. waiter \in {"waiting", "done"}
        BY <1>1, <2>1 DEF CoreInv, TypeOK, WaitInv
      <4> QED
        BY <2>1, <4>1, <4>2 DEF WgDoneClosed
    <3>2. CASE Active # {}
      BY <2>1, <2>t, <3>2 DEF Active
    <3> QED
      BY <3>1, <3>2
  <2>2. CASE pc = "down"
    BY <1>1, <2>2, <2>t DEF WaitInv
  <2>3. CASE pc = "finish"
    BY <2>3, <2>t
  <2> QED
    BY <2>1, <2>2, <2>3
<1> QED
  BY <1>1, CoreAlways, WaitAlways, PTL

\* RealMain has left Up only with a result of Up, or without having launched anything.
UpLeftInv ==
    /\ pc \in {"test", "deferred", "down", "finish"} => upErr # "none" \/ image = 0
    /\ proc = "exited" => pc = "finish"

\* Whatever the order of the checks, the channel and the closer: once RealMain is past
\* Up, a check that failed has made Up return an error.
NoFailureSwallowed ==
    pc \in {"test", "deferred", "down", "finish"} \/ proc = "exited" =>
        \A i \in Image : gerr[i] = "err" => upErr = "err"

\* UpLeftInv is inductive: every way out of Up sets its result.
LEMMA UpLeftStep == CoreInv /\ UpLeftInv /\ [Next]_vars => UpLeftInv'
<1> SUFFICES ASSUME CoreInv, UpLeftInv, [Next]_vars PROVE UpLeftInv'
  OBVIOUS
<1> USE DEF UpLeftInv, At, CheckAt, DownAt, mainVars, chanVars, downVars
<1>1. CASE Build \/ SkipUp \/ EnterUp \/ RunInstances \/ RecordInstance \/ StartCheck
  BY <1>1 DEF Build, SkipUp, EnterUp, RunInstances, RecordInstance, StartCheck, UpFails,
              MissingAddress, CoreInv, LoopInv
<1>2. CASE StartWaiter \/ SelectDone \/ (\E i \in Image : SelectError(i)) \/ CloseFatalErrors
  BY <1>2 DEF StartWaiter, SelectDone, SelectError, CloseFatalErrors, UpFails
<1>3. CASE Test \/ DeferredDown \/ DownReturned \/ Finish
  BY <1>3 DEF Test, DeferredDown, DownReturned, Finish
<1>4. ASSUME NEW w \in Downer, Down(w) PROVE UpLeftInv'
  BY <1>4 DEF Down, DownStart, Terminate, DownDone
<1>5. ASSUME NEW i \in Image, Check(i) PROVE UpLeftInv'
  BY <1>5 DEF Check, CheckPasses, DownloadKubeConfig, CheckFails, SendPanics, CheckReturns
<1>6. CASE CloseWgDone \/ Interrupt \/ HandlerExits
  BY <1>6 DEF CloseWgDone, Interrupt, HandlerExits
<1>7. CASE Ended \/ UNCHANGED vars
  BY <1>7 DEF Ended, vars
<1> QED
  BY <1>1, <1>2, <1>3, <1>4, <1>5, <1>6, <1>7 DEF Next, RealMain, Up, Handler, Downer

\* The safety half of FailureReported, for any number of workers: no failed check is
\* lost between its goroutine, fatalErrors, the wait group and the result of Up.
THEOREM FailuresSurface == Spec => []NoFailureSwallowed
<1>1. Init => UpLeftInv
  BY DEF Init, UpLeftInv
<1>2. ASSUME CoreInv, UpLeftInv PROVE NoFailureSwallowed
  <2> SUFFICES ASSUME pc \in {"test", "deferred", "down", "finish"},
                      NEW i \in Image, gerr[i] = "err"
               PROVE  upErr = "err"
    BY <1>2 DEF UpLeftInv, NoFailureSwallowed
  <2>1. gpc[i] # "none"
    BY <1>2 DEF CoreInv, CheckInv
  <2>2. image # 0
    BY <1>2, <2>1, NumNodesAssumption DEF CoreInv, LoopInv, Image
  <2>3. upErr # "ok"
    BY <1>2 DEF CoreInv, ResultInv, CheckInv
  <2> QED
    BY <1>2, <2>2, <2>3 DEF UpLeftInv, CoreInv, TypeOK
<1> QED
  BY <1>1, <1>2, UpLeftStep, CoreAlways, PTL DEF Spec

\* The steps left to the main goroutine, at most: three per image, and the rest of
\* RealMain.
MainAfter ==
    [build |-> 3 * NumNodes + 11, up |-> 3 * NumNodes + 10,
     create |-> 6, launched |-> 5, started |-> 4, wait |-> 6, select |-> 5, close |-> 4,
     test |-> 3, deferred |-> 2, down |-> 1, finish |-> 0]
MainSteps ==
    MainAfter[pc] + IF pc \in {"create", "launched", "started"}
                      THEN 3 * (NumNodes + 1 - image) ELSE 0

\* Four steps per check: each is counted in as many of these sets as it has left.
In(places) == {i \in Image : gpc[i] \in places}
CheckSteps ==
    Cardinality(In({"none"})) + Cardinality(In({"none", "checking"}))
    + Cardinality(In({"none", "checking", "download", "sending"}))
    + Cardinality(In({"none", "checking", "download", "sending", "returning"}))

WaiterSteps == IF waiter = "none" THEN 2 ELSE IF waiter = "waiting" THEN 1 ELSE 0

\* Down goes through the range it fixed at its start, once for each Downer.
DownSteps(w) ==
    IF dpc[w] = "idle" THEN NumNodes + 4
    ELSE IF dpc[w] = "started" THEN NumNodes + 3
    ELSE IF dpc[w] = "loop" THEN dlen[w] - dnext[w] + 1
    ELSE 0

MainDownSteps == DownSteps("main")
HandlerDownSteps == DownSteps("handler")

ProcSteps == IF proc = "running" THEN 1 ELSE 0

\* The steps left to the run, at most.
StepsToGo == MainSteps + CheckSteps + WaiterSteps + MainDownSteps + HandlerDownSteps + ProcSteps

\* Every step of the process uses one up.
EveryStepCounts == StepsToGo' < StepsToGo

\* A run with NumNodes workers is over after 9 * NumNodes + 26 steps.
Bounded == StepsToGo \in 0 .. 9 * NumNodes + 26

\* The distances of the main goroutine, one by one.
LEMMA MainDistances ==
    /\ MainAfter["build"] = 3 * NumNodes + 11 /\ MainAfter["up"] = 3 * NumNodes + 10
    /\ MainAfter["create"] = 6 /\ MainAfter["launched"] = 5 /\ MainAfter["started"] = 4
    /\ MainAfter["wait"] = 6 /\ MainAfter["select"] = 5 /\ MainAfter["close"] = 4
    /\ MainAfter["test"] = 3 /\ MainAfter["deferred"] = 2 /\ MainAfter["down"] = 1
    /\ MainAfter["finish"] = 0
  BY DEF MainAfter

\* The parts are numbers.
LEMMA PartsTyped ==
    ASSUME CoreInv
    PROVE  /\ MainSteps \in Nat /\ CheckSteps \in Nat /\ WaiterSteps \in Nat
           /\ MainDownSteps \in Nat /\ HandlerDownSteps \in Nat
           /\ ProcSteps \in Nat /\ StepsToGo \in Nat
<1> USE NumNodesAssumption
<1>1. MainSteps \in Nat
  <2>1. image \in 0 .. NumNodes + 1
    BY DEF CoreInv, TypeOK
  <2> QED
    BY <2>1, MainDistances DEF CoreInv, TypeOK, MainSteps
<1>2. CheckSteps \in Nat
  <2>1. \A P : In(P) \in SUBSET Image
    BY DEF In
  <2>2. \A P : Cardinality(In(P)) \in Nat
    BY <2>1, ImagesFinite
  <2> QED
    BY <2>2 DEF CheckSteps
<1>3. WaiterSteps \in Nat /\ ProcSteps \in Nat
  BY DEF WaiterSteps, ProcSteps
<1>4. ASSUME NEW w \in Downer PROVE DownSteps(w) \in Nat
  <2>1. dlen[w] \in Nat /\ dnext[w] \in Nat /\ dnext[w] <= dlen[w]
    BY DEF CoreInv, TypeOK, DownInv
  <2> QED
    BY <2>1 DEF DownSteps
<1>5. "main" \in Downer /\ "handler" \in Downer
  BY DEF Downer
<1> QED
  BY <1>1, <1>2, <1>3, <1>4, <1>5 DEF StepsToGo, MainDownSteps, HandlerDownSteps

\* A check that moves on has fewer steps left: it leaves one of the sets at least and
\* enters none.
LEMMA CheckMoves ==
    ASSUME CoreInv, NEW i \in Image, NEW l,
           gpc' = [gpc EXCEPT ![i] = l],
           \/ gpc[i] = "none" /\ l = "checking"
           \/ gpc[i] = "checking" /\ l \in {"download", "sending", "returning"}
           \/ gpc[i] \in {"download", "sending"} /\ l = "returning"
           \/ gpc[i] = "returning" /\ l = "done"
    PROVE  CheckSteps' < CheckSteps
<1> DEFINE A == {"none"}
           B == {"none", "checking"}
           C == {"none", "checking", "download", "sending"}
           D == {"none", "checking", "download", "sending", "returning"}
<1>t. gpc \in [Image -> {"none", "checking", "download", "sending", "returning", "done"}]
  BY DEF CoreInv, TypeOK
<1>1. /\ In(A)' \subseteq In(A) /\ In(B)' \subseteq In(B)
      /\ In(C)' \subseteq In(C) /\ In(D)' \subseteq In(D)
  BY <1>t DEF In
<1>2. In(A)' # In(A) \/ In(B)' # In(B) \/ In(C)' # In(C) \/ In(D)' # In(D)
  BY <1>t DEF In
<1>3. \A P : In(P) \in SUBSET Image
  BY DEF In
<1>4. ASSUME NEW S \in SUBSET Image, NEW T \in SUBSET S
      PROVE  /\ Cardinality(S) \in Nat /\ Cardinality(T) \in Nat
             /\ Cardinality(T) <= Cardinality(S)
             /\ T # S => Cardinality(T) < Cardinality(S)
  <2>1. IsFiniteSet(S) /\ Cardinality(S) \in Nat
    BY ImagesFinite, NumNodesAssumption
  <2>2. T \in SUBSET Image
    OBVIOUS
  <2>3. Cardinality(T) \in Nat
    BY <2>2, ImagesFinite, NumNodesAssumption
  <2> QED
    BY <2>1, <2>3, FS_Subset
<1> HIDE DEF A, B, C, D
<1>5. /\ Cardinality(In(A)') <= Cardinality(In(A)) /\ Cardinality(In(B)') <= Cardinality(In(B))
      /\ Cardinality(In(C)') <= Cardinality(In(C)) /\ Cardinality(In(D)') <= Cardinality(In(D))
      /\ \/ Cardinality(In(A)') < Cardinality(In(A)) \/ Cardinality(In(B)') < Cardinality(In(B))
         \/ Cardinality(In(C)') < Cardinality(In(C)) \/ Cardinality(In(D)') < Cardinality(In(D))
  BY <1>1, <1>2, <1>3, <1>4
<1>6. /\ Cardinality(In(A)) \in Nat /\ Cardinality(In(B)) \in Nat
      /\ Cardinality(In(C)) \in Nat /\ Cardinality(In(D)) \in Nat
      /\ Cardinality(In(A)') \in Nat /\ Cardinality(In(B)') \in Nat
      /\ Cardinality(In(C)') \in Nat /\ Cardinality(In(D)') \in Nat
  BY <1>1, <1>3, <1>4
<1>7. /\ CheckSteps = Cardinality(In(A)) + Cardinality(In(B)) + Cardinality(In(C)) + Cardinality(In(D))
      /\ CheckSteps' = Cardinality(In(A)') + Cardinality(In(B)') + Cardinality(In(C)') + Cardinality(In(D)')
  BY DEF CheckSteps, A, B, C, D
<1> QED
  BY <1>5, <1>6, <1>7

\* A step of Down leaves fewer (Down, TerminateInstances).
LEMMA DownMoves ==
    ASSUME CoreInv, NEW w \in Downer, Down(w)
    PROVE  /\ UNCHANGED <<pc, image, gpc, waiter>>
           /\ \A v \in Downer \ {w} : DownSteps(v)' = DownSteps(v)
           /\ \/ DownSteps(w)' < DownSteps(w) /\ UNCHANGED proc
              \/ DownSteps(w)' = DownSteps(w) /\ proc = "running" /\ proc' # "running"
<1> USE NumNodesAssumption DEF DownAt, mainVars, checkVars, chanVars, downVars, DownSteps
<1>t. /\ dpc \in [Downer -> {"idle", "started", "loop", "ok", "err"}]
      /\ dnext \in [Downer -> 0 .. NumNodes + 1] /\ dlen \in [Downer -> 0 .. NumNodes + 1]
      /\ instances \in 0 .. NumNodes + 1
      /\ \A v \in Downer : dnext[v] <= dlen[v]
  BY DEF CoreInv, TypeOK, DownInv
<1>1. CASE DownStart(w)
  BY <1>1, <1>t DEF DownStart
<1>2. CASE Terminate(w)
  BY <1>2, <1>t DEF Terminate, TerminateError
<1>3. CASE DownDone(w)
  BY <1>3, <1>t DEF DownDone
<1> QED
  BY <1>1, <1>2, <1>3 DEF Down

\* A step of a check leaves fewer to it, or ends the process (Up).
LEMMA CheckCounts ==
    ASSUME CoreInv, NEW i \in Image, Check(i)
    PROVE  /\ UNCHANGED <<pc, image, waiter, downVars>>
           /\ \/ CheckSteps' < CheckSteps /\ UNCHANGED proc
              \/ UNCHANGED gpc /\ proc = "running" /\ proc' # "running"
<1> USE DEF CheckAt, mainVars, checkVars, chanVars
<1>1. CASE CheckPasses(i)
  <2>1. gpc[i] = "checking" /\ \E l \in {"download", "returning"} : gpc' = [gpc EXCEPT ![i] = l]
    BY <1>1 DEF CheckPasses
  <2> QED
    BY <1>1, <2>1, CheckMoves DEF CheckPasses
<1>2. CASE DownloadKubeConfig(i)
  <2>1. CASE gpc' = [gpc EXCEPT ![i] = "returning"] /\ proc' = proc
    <3>1. gpc[i] = "download"
      BY <1>2 DEF DownloadKubeConfig
    <3>2. CheckSteps' < CheckSteps
      BY <2>1, <3>1, CheckMoves
    <3> QED
      BY <1>2, <2>1, <3>2 DEF DownloadKubeConfig
  <2>2. CASE gpc' = gpc /\ proc' = "fatal"
    BY <1>2, <2>2 DEF DownloadKubeConfig
  <2> QED
    BY <1>2, <2>1, <2>2 DEF DownloadKubeConfig
<1>3. CASE CheckFails(i)
  <2>1. gpc[i] = "checking" /\ gpc' = [gpc EXCEPT ![i] = "sending"]
    BY <1>3 DEF CheckFails, OnCheckError
  <2> QED
    BY <1>3, <2>1, CheckMoves DEF CheckFails
<1>4. CASE SendPanics(i)
  BY <1>4 DEF SendPanics
<1>5. CASE CheckReturns(i)
  <2>1. gpc[i] = "returning" /\ gpc' = [gpc EXCEPT ![i] = "done"]
    BY <1>5 DEF CheckReturns
  <2> QED
    BY <1>5, <2>1, CheckMoves DEF CheckReturns
<1> QED
  BY <1>1, <1>2, <1>3, <1>4, <1>5 DEF Check

\* A part that no variable of changes is the same.
LEMMA PartsKept ==
    /\ UNCHANGED <<pc, image>> => MainSteps' = MainSteps
    /\ UNCHANGED gpc => CheckSteps' = CheckSteps
    /\ UNCHANGED waiter => WaiterSteps' = WaiterSteps
    /\ UNCHANGED downVars => MainDownSteps' = MainDownSteps /\ HandlerDownSteps' = HandlerDownSteps
    /\ UNCHANGED proc => ProcSteps' = ProcSteps
<1>1. UNCHANGED <<pc, image>> => MainSteps' = MainSteps
  BY DEF MainSteps, MainAfter
<1>2. UNCHANGED gpc => CheckSteps' = CheckSteps
  BY DEF CheckSteps, In
<1>3. UNCHANGED waiter => WaiterSteps' = WaiterSteps
  BY DEF WaiterSteps
<1>4. UNCHANGED downVars => MainDownSteps' = MainDownSteps /\ HandlerDownSteps' = HandlerDownSteps
  BY DEF DownSteps, downVars, MainDownSteps, HandlerDownSteps
<1>5. UNCHANGED proc => ProcSteps' = ProcSteps
  BY DEF ProcSteps
<1> QED
  BY <1>1, <1>2, <1>3, <1>4, <1>5

\* A step of RealMain in Up leaves the main goroutine fewer (RealMain, Up).
LEMMA MainMoves ==
    ASSUME CoreInv,
           \/ Build \/ SkipUp \/ EnterUp \/ RunInstances \/ RecordInstance \/ StartCheck
           \/ StartWaiter \/ SelectDone \/ (\E i \in Image : SelectError(i))
           \/ CloseFatalErrors \/ Test \/ DeferredDown \/ DownReturned
    PROVE  MainSteps' < MainSteps
<1> USE NumNodesAssumption, MainDistances DEF MainSteps, At, mainVars
<1>t. image \in 0 .. NumNodes + 1
      /\ (pc \in {"create", "launched", "started"} => image <= NumNodes)
      /\ (pc \in {"build", "up"} => image = 0)
  BY DEF CoreInv, TypeOK, LoopInv
<1>1. CASE Build
  BY <1>1, <1>t DEF Build
<1>2. CASE SkipUp
  BY <1>2, <1>t DEF SkipUp
<1>3. CASE EnterUp
  BY <1>3, <1>t DEF EnterUp, UpFails
<1>4. CASE RunInstances
  BY <1>4, <1>t DEF RunInstances, UpFails
<1>5. CASE RecordInstance
  BY <1>5, <1>t DEF RecordInstance, MissingAddress, UpFails
<1>6. CASE StartCheck
  BY <1>6, <1>t DEF StartCheck
<1>7. CASE StartWaiter
  BY <1>7 DEF StartWaiter
<1>8. CASE SelectDone
  BY <1>8 DEF SelectDone
<1>9. CASE \E i \in Image : SelectError(i)
  BY <1>9 DEF SelectError
<1>10. CASE CloseFatalErrors
  BY <1>10 DEF CloseFatalErrors, UpFails
<1>11. CASE Test
  BY <1>11 DEF Test
<1>12. CASE DeferredDown
  BY <1>12 DEF DeferredDown
<1>13. CASE DownReturned
  BY <1>13 DEF DownReturned
<1> QED
  BY <1>1, <1>2, <1>3, <1>4, <1>5, <1>6, <1>7, <1>8, <1>9, <1>10, <1>11, <1>12, <1>13

\* Sums, for the provers.
LEMMA Sums ==
    /\ \A a, b, c, d \in Int : a <= b /\ c <= d => a + c <= b + d
    /\ \A a, b, c, d \in Int : a <= b /\ c <= d /\ (a < b \/ c < d) => a + c < b + d
  OBVIOUS

\* With no part grown and one smaller, the sum is smaller.
LEMMA Fewer ==
    ASSUME CoreInv, CoreInv',
           MainSteps' = MainSteps \/ MainSteps' < MainSteps,
           CheckSteps' = CheckSteps \/ CheckSteps' < CheckSteps,
           WaiterSteps' = WaiterSteps \/ WaiterSteps' < WaiterSteps,
           MainDownSteps' = MainDownSteps \/ MainDownSteps' < MainDownSteps,
           HandlerDownSteps' = HandlerDownSteps \/ HandlerDownSteps' < HandlerDownSteps,
           ProcSteps' = ProcSteps \/ ProcSteps' < ProcSteps,
           \/ MainSteps' < MainSteps \/ CheckSteps' < CheckSteps \/ WaiterSteps' < WaiterSteps
           \/ MainDownSteps' < MainDownSteps \/ HandlerDownSteps' < HandlerDownSteps
           \/ ProcSteps' < ProcSteps
    PROVE  EveryStepCounts
<1>1. /\ MainSteps \in Int /\ CheckSteps \in Int /\ WaiterSteps \in Int
      /\ MainDownSteps \in Int /\ HandlerDownSteps \in Int /\ ProcSteps \in Int
  BY PartsTyped
<1>2. (CoreInv => /\ MainSteps \in Nat /\ CheckSteps \in Nat /\ WaiterSteps \in Nat
                  /\ MainDownSteps \in Nat /\ HandlerDownSteps \in Nat /\ ProcSteps \in Nat)'
  BY PartsTyped, PTL
<1>3. /\ MainSteps' \in Int /\ CheckSteps' \in Int /\ WaiterSteps' \in Int
      /\ MainDownSteps' \in Int /\ HandlerDownSteps' \in Int /\ ProcSteps' \in Int
  BY <1>2
<1>4. \A a, b \in Int : a + b \in Int /\ (a = b => a <= b) /\ (a < b => a <= b)
  OBVIOUS
<1> DEFINE A2 == MainSteps + CheckSteps
           A3 == A2 + WaiterSteps
           A4 == A3 + MainDownSteps
           A5 == A4 + HandlerDownSteps
<1>5. /\ A2 \in Int /\ A2' \in Int /\ A2' <= A2
      /\ MainSteps' < MainSteps \/ CheckSteps' < CheckSteps => A2' < A2
  BY <1>1, <1>3, <1>4, Sums
<1> HIDE DEF A2
<1>6. /\ A3 \in Int /\ A3' \in Int /\ A3' <= A3
      /\ A2' < A2 \/ WaiterSteps' < WaiterSteps => A3' < A3
  BY <1>1, <1>3, <1>4, <1>5, Sums
<1> HIDE DEF A3
<1>7. /\ A4 \in Int /\ A4' \in Int /\ A4' <= A4
      /\ A3' < A3 \/ MainDownSteps' < MainDownSteps => A4' < A4
  BY <1>1, <1>3, <1>4, <1>6, Sums
<1> HIDE DEF A4
<1>8. /\ A5 \in Int /\ A5' \in Int /\ A5' <= A5
      /\ A4' < A4 \/ HandlerDownSteps' < HandlerDownSteps => A5' < A5
  BY <1>1, <1>3, <1>4, <1>7, Sums
<1> HIDE DEF A5
<1>9. A5' < A5 \/ ProcSteps' < ProcSteps
  BY <1>5, <1>6, <1>7, <1>8
<1>10. A5' + ProcSteps' < A5 + ProcSteps
  BY <1>1, <1>3, <1>4, <1>8, <1>9, Sums
<1>11. StepsToGo = A5 + ProcSteps /\ StepsToGo' = A5' + ProcSteps'
  BY DEF StepsToGo, A5, A4, A3, A2
<1> QED
  BY <1>10, <1>11 DEF EveryStepCounts

\* Every step of every goroutine uses up one of the steps left to the run.
LEMMA StepCounts ==
    ASSUME IInv, IInv', WaitInv, Next, ~Ended
    PROVE  EveryStepCounts
<1>c. CoreInv /\ CoreInv'
  BY DEF IInv
<1>d. proc = "running" /\ proc' # "running" => ProcSteps' < ProcSteps
  BY DEF ProcSteps
<1>1. CASE Build \/ SkipUp \/ EnterUp \/ RunInstances \/ RecordInstance \/ SelectDone
           \/ CloseFatalErrors \/ Test \/ DownReturned
  <2>1. MainSteps' < MainSteps
    BY <1>1, MainMoves DEF IInv
  <2>2. UNCHANGED <<gpc, waiter, downVars, proc>>
    BY <1>1 DEF Build, SkipUp, EnterUp, RunInstances, RecordInstance, SelectDone,
                CloseFatalErrors, Test, DownReturned, checkVars, chanVars
  <2> QED
    BY <2>1, <2>2, <1>c, PartsKept, Fewer
<1>2. CASE StartCheck
  <2>1. MainSteps' < MainSteps
    BY <1>2, MainMoves DEF IInv
  <2>2. UNCHANGED <<waiter, downVars, proc>> /\ gpc' = [gpc EXCEPT ![image] = "checking"]
        /\ pc = "started"
    BY <1>2 DEF StartCheck, chanVars, At
  <2>3. image \in Image /\ gpc[image] = "none"
    BY <2>2, NumNodesAssumption DEF IInv, CoreInv, TypeOK, LoopInv, Image
  <2>4. CheckSteps' < CheckSteps
    BY <2>2, <2>3, CheckMoves DEF IInv
  <2> QED
    BY <2>1, <2>2, <2>4, <1>c, PartsKept, Fewer
<1>3. CASE StartWaiter
  <2>1. MainSteps' < MainSteps
    BY <1>3, MainMoves DEF IInv
  <2>2. UNCHANGED <<gpc, downVars, proc>> /\ WaiterSteps' < WaiterSteps
    BY <1>3 DEF StartWaiter, At, checkVars, WaiterSteps, WaitInv
  <2> QED
    BY <2>1, <2>2, <1>c, PartsKept, Fewer
<1>4. ASSUME NEW i \in Image, SelectError(i) PROVE EveryStepCounts
  <2>1. MainSteps' < MainSteps
    BY <1>4, MainMoves DEF IInv
  <2>2. UNCHANGED <<waiter, downVars, proc>> /\ gpc' = [gpc EXCEPT ![i] = "returning"]
        /\ gpc[i] = "sending"
    BY <1>4 DEF SelectError, chanVars, AfterSend, CheckAt
  <2>3. CheckSteps' < CheckSteps
    BY <2>2, CheckMoves DEF IInv
  <2> QED
    BY <2>1, <2>2, <2>3, <1>c, PartsKept, Fewer
<1>5. CASE DeferredDown
  <2>1. MainSteps' < MainSteps
    BY <1>5, MainMoves DEF IInv
  <2>2. UNCHANGED <<gpc, waiter, proc>>
    BY <1>5 DEF DeferredDown, checkVars, chanVars
  <2>3. (MainDownSteps' = MainDownSteps \/ MainDownSteps' < MainDownSteps) /\ HandlerDownSteps' = HandlerDownSteps
    <3>1. /\ dpc["main"] = "idle" /\ UNCHANGED <<dnext, dlen>>
          /\ dpc' = dpc \/ dpc' = [dpc EXCEPT !["main"] = "started"]
          /\ dpc \in [Downer -> {"idle", "started", "loop", "ok", "err"}]
      BY <1>5 DEF DeferredDown, At, IInv, TerminatedInv, CoreInv, TypeOK, downVars
    <3> QED
      BY <3>1, NumNodesAssumption DEF MainDownSteps, HandlerDownSteps, DownSteps, Downer
  <2> QED
    BY <2>1, <2>2, <2>3, <1>c, PartsKept, Fewer
<1>6. CASE Finish \/ HandlerExits
  <2>1. /\ UNCHANGED <<pc, image, gpc, waiter, downVars>>
        /\ proc = "running" /\ proc' # "running"
    BY <1>6 DEF Finish, HandlerExits, At, DownAt, mainVars, checkVars, chanVars
  <2> QED
    BY <2>1, <1>c, <1>d, PartsKept, Fewer
<1>7. ASSUME NEW w \in Downer, Down(w) PROVE EveryStepCounts
  <2>1. UNCHANGED <<pc, image, gpc, waiter>>
    BY <1>7, DownMoves DEF IInv
  <2>2. \/ /\ MainDownSteps' = MainDownSteps \/ MainDownSteps' < MainDownSteps
           /\ HandlerDownSteps' = HandlerDownSteps \/ HandlerDownSteps' < HandlerDownSteps
           /\ MainDownSteps' < MainDownSteps \/ HandlerDownSteps' < HandlerDownSteps
           /\ UNCHANGED proc
        \/ MainDownSteps' = MainDownSteps /\ HandlerDownSteps' = HandlerDownSteps /\ proc = "running" /\ proc' # "running"
    <3>1. /\ \A v \in Downer \ {w} : DownSteps(v)' = DownSteps(v)
          /\ \/ DownSteps(w)' < DownSteps(w) /\ UNCHANGED proc
             \/ DownSteps(w)' = DownSteps(w) /\ proc = "running" /\ proc' # "running"
      BY <1>7, DownMoves DEF IInv
    <3>2. CASE w = "main"
      BY <3>1, <3>2 DEF MainDownSteps, HandlerDownSteps, Downer
    <3>3. CASE w = "handler"
      BY <3>1, <3>3 DEF MainDownSteps, HandlerDownSteps, Downer
    <3> QED
      BY <3>2, <3>3 DEF Downer
  <2> QED
    BY <2>1, <2>2, <1>c, <1>d, PartsKept, Fewer
<1>8. ASSUME NEW i \in Image, Check(i) PROVE EveryStepCounts
  <2>1. /\ UNCHANGED <<pc, image, waiter, downVars>>
        /\ \/ CheckSteps' < CheckSteps /\ UNCHANGED proc
           \/ UNCHANGED gpc /\ proc = "running" /\ proc' # "running"
    BY <1>8, CheckCounts DEF IInv
  <2> QED
    BY <2>1, <1>c, <1>d, PartsKept, Fewer
<1>9. CASE CloseWgDone
  <2>1. UNCHANGED <<pc, image, gpc, downVars, proc>> /\ WaiterSteps' < WaiterSteps
    BY <1>9 DEF CloseWgDone, mainVars, checkVars, WaiterSteps
  <2> QED
    BY <2>1, <1>c, PartsKept, Fewer
<1>10. CASE Interrupt
  <2>1. UNCHANGED <<pc, image, gpc, waiter>>
    BY <1>10 DEF Interrupt, mainVars, checkVars, chanVars
  <2>2. CASE UNCHANGED downVars /\ proc' = "interrupted"
    BY <1>10, <2>1, <2>2, <1>c, <1>d, PartsKept, Fewer
    DEF Interrupt, DownAt
  <2>3. CASE dpc' = [dpc EXCEPT !["handler"] = "started"] /\ UNCHANGED <<proc, dnext, dlen>>
    <3>1. dpc["handler"] = "idle" /\ dpc \in [Downer -> {"idle", "started", "loop", "ok", "err"}]
      BY <1>10 DEF Interrupt, DownAt, IInv, CoreInv, TypeOK
    <3>2. MainDownSteps' = MainDownSteps /\ HandlerDownSteps' < HandlerDownSteps
      BY <2>3, <3>1, NumNodesAssumption DEF MainDownSteps, HandlerDownSteps, DownSteps, Downer
    <3> QED
      BY <2>1, <2>3, <3>2, <1>c, PartsKept, Fewer
  <2> QED
    BY <1>10, <2>2, <2>3 DEF Interrupt, downVars
<1> QED
  BY <1>1, <1>2, <1>3, <1>4, <1>5, <1>6, <1>7, <1>8, <1>9, <1>10
  DEF Next, RealMain, Up, Handler, Downer

\* No goroutine of a run goes round in circles, whatever fails and whenever a signal
\* comes, for any number of workers: with NobodyBlocks, the run ends.
THEOREM ProgressCorrect == Spec => []Bounded /\ [][EveryStepCounts]_vars
<1>1. ASSUME IInv, IInv', WaitInv, [Next]_vars PROVE [EveryStepCounts]_vars
  BY <1>1, StepCounts DEF Ended
<1>2. Init => Bounded
  <2> SUFFICES ASSUME Init PROVE Bounded
    OBVIOUS
  <2>1. MainSteps = 3 * NumNodes + 11 /\ WaiterSteps = 2 /\ ProcSteps = 1
    BY MainDistances, NumNodesAssumption DEF Init, MainSteps, WaiterSteps, ProcSteps
  <2>2. DownSteps("main") = NumNodes + 4 /\ DownSteps("handler") = NumNodes + 4
    BY DEF Init, DownSteps, Downer
  <2>3. \A P : In(P) \in SUBSET Image
    BY DEF In
  <2>4. CheckSteps \in 0 .. 4 * NumNodes + 4
    <3>1. \A P : Cardinality(In(P)) \in 0 .. NumNodes + 1
      BY <2>3, ImagesFinite
    <3> QED
      BY <3>1, NumNodesAssumption DEF CheckSteps
  <2> QED
    BY <2>1, <2>2, <2>4, NumNodesAssumption DEF Bounded, StepsToGo, MainDownSteps, HandlerDownSteps
<1>3. ASSUME IInv, IInv', Bounded, [EveryStepCounts]_vars PROVE Bounded'
  <2>1. StepsToGo \in Nat
    BY <1>3, PartsTyped DEF IInv
  <2>2. (CoreInv => StepsToGo \in Nat)'
    BY PartsTyped, PTL
  <2>3. StepsToGo' \in Nat
    BY <1>3, <2>2 DEF IInv
  <2>4. UNCHANGED vars => StepsToGo' = StepsToGo
    <3>1. UNCHANGED vars => UNCHANGED <<pc, image, gpc, waiter, downVars, proc>>
      BY DEF vars, mainVars, checkVars, chanVars
    <3> QED
      BY <3>1, PartsKept DEF StepsToGo, Downer, MainDownSteps, HandlerDownSteps
  <2> QED
    BY <1>3, <2>1, <2>3, <2>4, NumNodesAssumption DEF Bounded, EveryStepCounts
<1> QED
  BY <1>1, <1>2, <1>3, Invariance, WaitAlways, PTL DEF Spec

-----------------------------------------------------------------------------
(***************************************************************************)
(* The log dumps.                                                          *)
(***************************************************************************)
DumpRecord == [at : {"idle", "mkdir", "pods", "journal", "done", "failed"},
               next : 0 .. NumNodes + 1, len : 0 .. NumNodes + 1, seen : 0 .. NumNodes + 1]

LogTyped ==
    /\ logsDir \in {"absent", "present", "impossible"}
    /\ log \in [Image -> {"none", "up", "lost", "down"}]
    /\ dump \in [Dumper -> DumpRecord]

Rival(d) == \E e \in Dumper \ {d} : dump[e].at \in {"pods", "journal", "done"}

\* Who finds the directory made after all owes it to a rival.
RivalInv ==
    \A d \in Dumper :
        /\ dump[d].at = "mkdir" /\ logsDir = "present" => Rival(d)
        /\ dump[d].at = "failed" => logsDir = "impossible" \/ Rival(d)

\* What a dump has tried to write behind its loop.
WrittenInv ==
    \A d \in Dumper :
        /\ dump[d].seen <= instances
        /\ IF dump[d].at = "journal"
             THEN dump[d].len = dump[d].seen /\ dump[d].next <= dump[d].len
             ELSE dump[d].next = 0
        /\ \A i \in Image :
              /\ dump[d].at = "journal" /\ i < dump[d].next => log[i] # "none"
              /\ dump[d].at = "done" /\ i < dump[d].seen => log[i] # "none"

\* Down terminates nothing before its dump is over.
OrderInv ==
    \A w \in Downer :
        IF dpc[w] \in {"idle", "started"} THEN dnext[w] = 0 ELSE Dumped(Of(w))

GoneInv == \A i \in Image : cloud[i] = "gone" => \E w \in Downer : i < dnext[w]

\* A log of a machine that is gone was written by another goroutine's dump.
DownLogInv ==
    \A i \in Image : log[i] = "down" => \E w \in Downer :
        i < dnext[w] /\ \E d \in Dumper \ {Of(w)} : dump[d].at \in {"journal", "done"}

LInv == LogTyped /\ RivalInv /\ WrittenInv /\ OrderInv /\ GoneInv /\ DownLogInv

\* The dump of a Down is a dump, and none of a check.
LEMMA OfType == \A w \in Downer : Of(w) \in Dumper /\ Of(w) \notin Image
  BY NumNodesAssumption DEF Of, Dumper, Downer, Image

\* The invariant holds before anything is dumped (LogInit).
LEMMA LogInitInv == LogInit => LInv
<1> SUFFICES ASSUME LogInit PROVE LInv
  OBVIOUS
<1> USE DEF LogInit, Init, NoDump
<1>1. LogTyped
  BY NumNodesAssumption DEF LogTyped, DumpRecord
<1>2. RivalInv
  BY DEF RivalInv
<1>3. WrittenInv
  BY DEF WrittenInv
<1>4. OrderInv
  BY DEF OrderInv
<1>5. GoneInv
  BY DEF GoneInv
<1>6. DownLogInv
  BY DEF DownLogInv
<1> QED
  BY <1>1, <1>2, <1>3, <1>4, <1>5, <1>6 DEF LInv

\* What one step of a dump does to the record of that dump, and to no other.
LEMMA Others ==
    ASSUME LogTyped, NEW d \in Dumper, DumpClusterLogs(d)
    PROVE  /\ DOMAIN dump' = Dumper
           /\ \A e \in Dumper \ {d} : dump'[e] = dump[e]
           /\ dump[d].at \notin {"done", "failed"}
  BY DEF LogTyped, DumpRecord, DumpClusterLogs, Stat, Mkdir, DumpOthers, DumpRemoteLogs,
         Moved, Idle

\* A step of a dump preserves the invariant (DumpClusterLogs).
LEMMA DumpStep ==
    ASSUME IInv, LInv, NEW d \in Dumper, DumpClusterLogs(d)
    PROVE  LInv'
<1> USE DEF LInv
<1>u. UNCHANGED vars
  BY DEF DumpClusterLogs
<1>v. UNCHANGED <<cloud, dpc, dnext, instances>>
  BY <1>u DEF vars, ec2Vars, downVars, runnerVars
<1>i. instances \in 0 .. NumNodes + 1
  BY DEF IInv, CoreInv, TypeOK
<1>o. /\ \A e \in Dumper \ {d} : dump'[e] = dump[e]
      /\ dump[d].at \notin {"done", "failed"}
  BY Others
<1>t. dump[d] \in DumpRecord /\ dump \in [Dumper -> DumpRecord] /\ log \in [Image -> {"none", "up", "lost", "down"}]
  BY DEF LogTyped
<1>5. OrderInv'
  BY <1>o, <1>v, OfType DEF OrderInv, Dumped
<1>6. GoneInv'
  BY <1>v DEF GoneInv
<1>1. CASE Stat(d)
  <2>0. /\ UNCHANGED <<logsDir, log>>
        /\ dump'[d] = [dump[d] EXCEPT !.at = IF logsDir = "present" THEN "pods" ELSE "mkdir"]
        /\ dump' = [dump EXCEPT ![d] = dump'[d]]
        /\ dump[d].at = "idle"
    BY <1>1, <1>t DEF Stat, Moved, Idle, StatPasses
  <2>1. LogTyped'
    BY <2>0, <1>t DEF LogTyped, DumpRecord
  <2>2. RivalInv'
    BY <2>0, <1>o, <1>t DEF RivalInv, Rival, DumpRecord
  <2>3. WrittenInv'
    BY <2>0, <1>o, <1>t, <1>v DEF WrittenInv, DumpRecord
  <2>4. DownLogInv'
    BY <2>0, <1>o, <1>t, <1>v DEF DownLogInv, DumpRecord
  <2> QED
    BY <2>1, <2>2, <2>3, <2>4, <1>5, <1>6
<1>2. CASE Mkdir(d)
  <2>0. /\ UNCHANGED log
        /\ dump[d].at = "mkdir"
        /\ dump'[d].seen = dump[d].seen /\ dump'[d].next = dump[d].next
        /\ \/ logsDir = "absent" /\ logsDir' = "present" /\ dump'[d].at = "pods"
           \/ logsDir # "absent" /\ logsDir' = logsDir /\ dump'[d].at = "failed"
    BY <1>2, <1>t DEF Mkdir, Moved, DumpRecord
  <2>1. LogTyped'
    BY <1>2, <1>t DEF LogTyped, DumpRecord, Mkdir, Moved
  <2>2. RivalInv'
    BY <2>0, <1>o, <1>t DEF RivalInv, Rival, LogTyped
  <2>3. WrittenInv'
    BY <2>0, <1>o, <1>t, <1>v DEF WrittenInv
  <2>4. DownLogInv'
    BY <2>0, <1>o, <1>t, <1>v DEF DownLogInv
  <2> QED
    BY <2>1, <2>2, <2>3, <2>4, <1>5, <1>6
<1>3. CASE DumpOthers(d)
  <2>0. /\ UNCHANGED <<logsDir, log>>
        /\ dump[d].at = "pods"
        /\ dump'[d].at = "journal" /\ dump'[d].seen = instances /\ dump'[d].len = instances
        /\ dump'[d].next = dump[d].next
    BY <1>3, <1>t DEF DumpOthers, DumpRecord
  <2>1. LogTyped'
    <3>2. dump' \in [Dumper -> DumpRecord]
      BY <1>3, <1>t, <1>i DEF DumpOthers, DumpRecord
    <3> QED
      BY <2>0, <3>2 DEF LogTyped
  <2>2. RivalInv'
    BY <2>0, <1>o, <1>t DEF RivalInv, Rival
  <2>3. WrittenInv'
    <3>1. dump[d].next = 0
      BY <2>0 DEF WrittenInv
    <3> QED
      BY <2>0, <3>1, <1>o, <1>t, <1>v, <1>i, NumNodesAssumption DEF WrittenInv, Image
  <2>4. DownLogInv'
    BY <2>0, <1>o, <1>t, <1>v DEF DownLogInv
  <2> QED
    BY <2>1, <2>2, <2>3, <2>4, <1>5, <1>6
<1>4. CASE DumpRemoteLogs(d)
  <2> DEFINE i == dump[d].next
  <2>0. /\ UNCHANGED logsDir
        /\ dump[d].at = "journal" /\ dump'[d].seen = dump[d].seen
        /\ i \in 0 .. NumNodes + 1 /\ dump[d].len \in 0 .. NumNodes + 1
        /\ dump[d].seen \in 0 .. NumNodes + 1
        /\ dump'[d].at \in {"journal", "done"}
    BY <1>4, <1>t DEF DumpRemoteLogs, DumpRecord
  <2>2. RivalInv'
    BY <2>0, <1>o, <1>t DEF RivalInv, Rival
  <2>a. CASE i < dump[d].len
    <3>0. /\ i \in Image /\ i < dump[d].seen /\ i < instances
          /\ \E content \in Written(i) : log' = [log EXCEPT ![i] = content]
          /\ dump'[d].at = "journal" /\ dump'[d].next = i + 1 /\ dump'[d].len = dump[d].len
      <4>1. i \in Image
        BY <2>0, <2>a, NumNodesAssumption DEF Image
      <4>2. i < dump[d].seen /\ i < instances
        BY <2>0, <2>a, <1>i, NumNodesAssumption DEF WrittenInv
      <4> QED
        BY <1>4, <2>a, <4>1, <4>2, <1>t, <2>0, NumNodesAssumption DEF DumpRemoteLogs, DumpRecord
    <3>s. Written(i) \subseteq {"up", "lost", "down"}
      BY <3>0, <1>t DEF Written, SSH
    <3>w. "down" \in Written(i) => cloud[i] # "live" \/ log[i] = "down"
      BY DEF Written, SSH
    <3>l. /\ log'[i] \in Written(i) /\ \A j \in Image \ {i} : log'[j] = log[j]
          /\ log' \in [Image -> {"none", "up", "lost", "down"}]
      BY <3>0, <3>s, <1>t
    <3>1. LogTyped'
      <4>1. i + 1 \in 0 .. NumNodes + 1
        BY <3>0, NumNodesAssumption DEF Image
      <4>2. dump' = [dump EXCEPT ![d].next = i + 1]
        BY <1>4, <2>a, <2>0, NumNodesAssumption DEF DumpRemoteLogs
      <4>3. dump' \in [Dumper -> DumpRecord]
        BY <4>1, <4>2, <1>t DEF DumpRecord
      <4> QED
        BY <2>0, <3>l, <4>3 DEF LogTyped
    <3>3. WrittenInv'
      <4> SUFFICES ASSUME NEW e \in Dumper
                   PROVE  /\ dump'[e].seen <= instances'
                          /\ IF dump'[e].at = "journal"
                               THEN dump'[e].len = dump'[e].seen /\ dump'[e].next <= dump'[e].len
                               ELSE dump'[e].next = 0
                          /\ \A j \in Image :
                                /\ dump'[e].at = "journal" /\ j < dump'[e].next => log'[j] # "none"
                                /\ dump'[e].at = "done" /\ j < dump'[e].seen => log'[j] # "none"
        BY DEF WrittenInv
      <4>0. \A j \in Image : log[j] # "none" => log'[j] # "none"
        BY <3>l, <3>s
      <4>1. CASE e # d
        BY <4>1, <4>0, <1>o, <1>v, <2>0 DEF WrittenInv
      <4>2. CASE e = d
        <5>1. \A j \in Image : j < i + 1 => j < i \/ j = i
          BY <3>0, NumNodesAssumption DEF Image
        <5>2. \A j \in Image : j < i + 1 => log'[j] # "none"
          BY <5>1, <4>0, <3>l, <3>s, <2>0 DEF WrittenInv
        <5>3. i + 1 <= dump[d].len /\ dump[d].len = dump[d].seen
          BY <2>a, <2>0 DEF WrittenInv
        <5> QED
          BY <4>2, <5>2, <5>3, <3>0, <2>0, <1>v DEF WrittenInv
      <4> QED
        BY <4>1, <4>2
    <3>4. DownLogInv'
      <4> SUFFICES ASSUME NEW j \in Image, log'[j] = "down"
                   PROVE  \E w \in Downer : j < dnext[w] /\
                              \E e \in Dumper \ {Of(w)} : dump'[e].at \in {"journal", "done"}
        BY <1>v DEF DownLogInv
      <4>1. CASE log[j] = "down"
        BY <4>1, <1>o, <2>0 DEF DownLogInv
      <4>2. CASE log[j] # "down"
        <5>1. j = i /\ cloud[i] # "live"
          BY <4>2, <3>l, <3>w
        <5>2. cloud[i] = "gone"
          BY <5>1, <3>0 DEF IInv, CoreInv, TypeOK, CloudInv
        <5>3. PICK w \in Downer : i < dnext[w]
          BY <5>2, <3>0 DEF GoneInv
        <5>4. dpc[w] \notin {"idle", "started"}
          BY <5>3, <3>0, <2>0, NumNodesAssumption DEF OrderInv, Image
        <5>5. Dumped(Of(w))
          BY <5>4 DEF OrderInv
        <5>6. d # Of(w)
          BY <5>5, <2>0 DEF Dumped
        <5> QED
          BY <5>1, <5>3, <5>6, <2>0
      <4> QED
        BY <4>1, <4>2
    <3> QED
      BY <3>1, <2>2, <3>3, <3>4, <1>5, <1>6
  <2>b. CASE ~(i < dump[d].len)
    <3>0. /\ i = dump[d].len /\ UNCHANGED log
          /\ dump' = [dump EXCEPT ![d].at = "done", ![d].next = 0, ![d].len = 0]
          /\ dump'[d].at = "done" /\ dump'[d].next = 0
      BY <1>4, <2>b, <1>t DEF DumpRemoteLogs, DumpRecord
    <3>1. LogTyped'
      <4>1. 0 \in 0 .. NumNodes + 1
        BY NumNodesAssumption
      <4>2. dump' \in [Dumper -> DumpRecord]
        BY <3>0, <4>1, <1>t DEF DumpRecord
      <4> QED
        BY <2>0, <3>0, <4>2 DEF LogTyped
    <3>3. WrittenInv'
      <4>1. /\ dump[d].len = dump[d].seen /\ dump[d].seen <= instances
            /\ \A j \in Image : j < dump[d].seen => log[j] # "none"
        BY <3>0, <2>0 DEF WrittenInv
      <4> QED
        BY <4>1, <3>0, <2>0, <1>o, <1>v DEF WrittenInv
    <3>4. DownLogInv'
      BY <3>0, <2>0, <1>o, <1>v DEF DownLogInv
    <3> QED
      BY <3>1, <2>2, <3>3, <3>4, <1>5, <1>6
  <2> QED
    BY <2>a, <2>b
<1> QED
  BY <1>1, <1>2, <1>3, <1>4 DEF DumpClusterLogs

\* The other steps are those of Deployer; of what the invariant is about they
\* change the machines, runner.instances and the progress of Down.
LEMMA LaunchStep ==
    ASSUME IInv, LInv, Launch PROVE LInv'
<1> USE DEF LInv
<1>1. UNCHANGED <<logsDir, log, dump, dpc, dnext>>
  BY DEF Launch, dumpVars, RunInstances, RecordInstance, downVars
<1>2. instances' \in Int /\ instances <= instances'
  BY DEF Launch, RunInstances, RecordInstance, MissingAddress, runnerVars, IInv, CoreInv, TypeOK
<1>3. \A i \in Image : cloud'[i] = "gone" => cloud[i] = "gone"
  BY DEF Launch, RunInstances, RecordInstance, ec2Vars, IInv, CoreInv, TypeOK
<1>4. LogTyped' /\ RivalInv'
  BY <1>1 DEF LogTyped, RivalInv, Rival
<1>5. WrittenInv'
  <2>1. instances \in Int /\ \A d \in Dumper : dump[d].seen \in Int
    BY NumNodesAssumption DEF LogTyped, DumpRecord, IInv, CoreInv, TypeOK
  <2> QED
    BY <1>1, <1>2, <2>1 DEF WrittenInv
<1>6. OrderInv' /\ GoneInv' /\ DownLogInv'
  BY <1>1, <1>3 DEF OrderInv, GoneInv, DownLogInv, Dumped
<1> QED
  BY <1>4, <1>5, <1>6

\* A step of Down preserves the invariant: it has dumped before it terminates (Down).
LEMMA DownStep ==
    ASSUME IInv, LInv, NEW w \in Downer, DownLogged(w) PROVE LInv'
<1> USE DEF LInv
<1>1. UNCHANGED <<logsDir, log, dump, instances>>
  BY DEF DownLogged, dumpVars, DownStart, Terminate, DownDone, runnerVars
<1>2. LogTyped' /\ RivalInv' /\ WrittenInv'
  BY <1>1 DEF LogTyped, RivalInv, Rival, WrittenInv
<1>t. /\ dpc \in [Downer -> {"idle", "started", "loop", "ok", "err"}]
      /\ dnext \in [Downer -> 0 .. NumNodes + 1] /\ cloud \in [Image -> {"none", "live", "gone"}]
  BY DEF IInv, CoreInv, TypeOK
<1>3. CASE DownStart(w) /\ (Dumped(Of(w)) \/ (runner = "nil" /\ dump[Of(w)].at = "pods"))
  <2>1. UNCHANGED cloud /\ dpc[w] = "started"
    BY <1>3 DEF DownStart, ec2Vars, DownAt
  <2>2. dnext' = dnext
    BY <1>3, <2>1, <1>t DEF DownStart, downVars, OrderInv
  <2>3. OrderInv'
    BY <1>1, <1>3, <2>1, <2>2, <1>t DEF OrderInv, DownStart, downVars, Dumped
  <2>4. GoneInv' /\ DownLogInv'
    BY <1>1, <2>1, <2>2 DEF GoneInv, DownLogInv
  <2> QED
    BY <1>2, <2>3, <2>4
<1>4. CASE Terminate(w)
  <2> DEFINE i == dnext[w]
  <2>1. /\ dpc[w] = "loop" /\ dpc'[w] \in {"loop", "err"}
        /\ \A v \in Downer \ {w} : dpc'[v] = dpc[v] /\ dnext'[v] = dnext[v]
        /\ \/ dnext'[w] = i + 1 /\ cloud' = [cloud EXCEPT ![i] = "gone"]
           \/ dnext'[w] = i /\ cloud' = cloud
    BY <1>4, <1>t DEF Terminate, TerminateError, DownAt
  <2>2. \A v \in Downer : dnext[v] \in Nat /\ dnext'[v] \in Nat /\ dnext[v] <= dnext'[v]
    BY <2>1, <1>t, NumNodesAssumption
  <2>3. OrderInv'
    BY <1>1, <2>1 DEF OrderInv, Dumped
  <2>4. \A j \in Image : j \in Int /\ \A v \in Downer : j < dnext[v] => j < dnext'[v]
    BY <2>2, NumNodesAssumption DEF Image
  <2>5. GoneInv'
    BY <2>1, <2>4, <1>t, NumNodesAssumption DEF GoneInv, Image
  <2>6. DownLogInv'
    BY <1>1, <2>4 DEF DownLogInv
  <2> QED
    BY <1>2, <2>3, <2>5, <2>6
<1>5. CASE DownDone(w)
  BY <1>1, <1>2, <1>5, <1>t DEF DownDone, ec2Vars, DownAt, OrderInv, GoneInv, DownLogInv, Dumped
<1> QED
  BY <1>3, <1>4, <1>5 DEF DownLogged

\* What the steps that touch neither leave alone.
LEMMA QuietStep ==
    ASSUME IInv, LInv, UNCHANGED <<dumpVars, cloud, instances, dnext>>,
           \A w \in Downer : dpc'[w] = dpc[w] \/ (dpc[w] = "idle" /\ dpc'[w] = "started")
    PROVE  LInv'
  BY DEF LInv, dumpVars, LogTyped, RivalInv, Rival, WrittenInv, OrderInv, Dumped, GoneInv,
         DownLogInv

\* The steps of Deployer that touch neither the machines nor the loops of Down.
LEMMA QuietSteps ==
    ASSUME IInv,
           \/ Build \/ SkipUp \/ EnterUp \/ StartCheck \/ StartWaiter \/ SelectDone
           \/ (\E i \in Image : SelectError(i)) \/ CloseFatalErrors
           \/ Test \/ DeferredDown \/ DownReturned \/ Finish
           \/ \E i \in Image : CheckPasses(i) \/ CheckFails(i) \/ DownloadKubeConfig(i)
                                  \/ SendPanics(i) \/ CheckReturns(i)
           \/ CloseWgDone \/ Interrupt \/ HandlerExits \/ Ended \/ UNCHANGED vars
    PROVE  /\ UNCHANGED <<cloud, instances, dnext>>
           /\ \A w \in Downer :
                 dpc'[w] = dpc[w] \/ (dpc[w] = "idle" /\ dpc'[w] = "started")
<1> USE DEF ec2Vars, downVars, runnerVars, vars
<1>1. CASE Build \/ SkipUp \/ EnterUp \/ StartCheck \/ StartWaiter \/ SelectDone
  BY <1>1 DEF Build, SkipUp, EnterUp, StartCheck, StartWaiter, SelectDone
<1>2. CASE (\E i \in Image : SelectError(i)) \/ CloseFatalErrors \/ Test \/ DownReturned \/ Finish
  BY <1>2 DEF SelectError, CloseFatalErrors, Test, DownReturned, Finish
<1>3. CASE DeferredDown
  <2>1. dpc["main"] = "idle" /\ dpc \in [Downer -> {"idle", "started", "loop", "ok", "err"}]
    BY <1>3 DEF IInv, TerminatedInv, CoreInv, TypeOK, DeferredDown, At
  <2> QED
    BY <1>3, <2>1 DEF DeferredDown
<1>4. CASE \E i \in Image : CheckPasses(i) \/ CheckFails(i) \/ DownloadKubeConfig(i)
                              \/ SendPanics(i) \/ CheckReturns(i)
  BY <1>4 DEF CheckPasses, CheckFails, DownloadKubeConfig, SendPanics, CheckReturns
<1>5. CASE Interrupt
  BY <1>5 DEF Interrupt, DownAt, IInv, CoreInv, TypeOK
<1>6. CASE CloseWgDone \/ HandlerExits \/ Ended \/ UNCHANGED vars
  BY <1>6 DEF CloseWgDone, HandlerExits, Ended
<1> QED
  BY <1>1, <1>2, <1>3, <1>4, <1>5, <1>6

\* The steps of LogDump: a dump, one of Deployer that goes with it, or another.
LEMMA LogCases ==
    ASSUME [LogNext]_logVars
    PROVE  \/ \E d \in Dumper : DumpClusterLogs(d)
           \/ Launch
           \/ \E w \in Downer : DownLogged(w)
           \/ UNCHANGED dumpVars /\
                \/ Build \/ SkipUp \/ EnterUp \/ StartCheck \/ StartWaiter \/ SelectDone
                \/ (\E i \in Image : SelectError(i)) \/ CloseFatalErrors
                \/ Test \/ DeferredDown \/ DownReturned \/ Finish
                \/ \E i \in Image : CheckPasses(i) \/ CheckFails(i) \/ DownloadKubeConfig(i)
                                       \/ SendPanics(i) \/ CheckReturns(i)
                \/ CloseWgDone \/ Interrupt \/ HandlerExits \/ Ended \/ UNCHANGED vars
<1>1. UpDump \in Dumper /\ (\A w \in Downer : Of(w) \in Dumper) /\ Image \subseteq Dumper
      /\ "main" \in Downer /\ "handler" \in Downer
  BY OfType DEF Dumper, Downer
<1>2. CASE LoggedMain
  BY <1>1, <1>2 DEF LoggedMain
<1>3. CASE \E i \in Image : LoggedCheck(i)
  BY <1>1, <1>3 DEF LoggedCheck
<1>4. CASE LoggedDown
  BY <1>1, <1>4 DEF LoggedDown
<1> QED
  BY <1>2, <1>3, <1>4 DEF LogNext, logVars

\* A dump changes nothing Deployer knows, and every other step is one of its own.
LEMMA LogDumpStep == [LogNext]_logVars => [Next]_vars
<1> SUFFICES ASSUME [LogNext]_logVars PROVE [Next]_vars
  OBVIOUS
<1>1. CASE \E d \in Dumper : DumpClusterLogs(d)
  BY <1>1 DEF DumpClusterLogs
<1>2. CASE Launch
  BY <1>2 DEF Launch, Next, RealMain, Up
<1>3. ASSUME NEW w \in Downer, DownLogged(w) PROVE Next
  <2>1. Down(w)
    BY <1>3 DEF DownLogged, Down
  <2> QED
    BY <2>1 DEF Next, RealMain, Handler, Downer
<1>4. (\/ Build \/ SkipUp \/ EnterUp \/ StartCheck \/ StartWaiter \/ SelectDone
       \/ (\E i \in Image : SelectError(i)) \/ CloseFatalErrors
       \/ Test \/ DeferredDown \/ DownReturned \/ Finish
       \/ \E i \in Image : CheckPasses(i) \/ CheckFails(i) \/ DownloadKubeConfig(i)
                              \/ SendPanics(i) \/ CheckReturns(i)
       \/ CloseWgDone \/ Interrupt \/ HandlerExits \/ Ended \/ UNCHANGED vars)
      => [Next]_vars
  BY DEF Next, RealMain, Up, Check, Handler
<1> QED
  BY LogCases, <1>1, <1>2, <1>3, <1>4

\* Every step of LogDump preserves the invariant.
LEMMA LogStep == IInv /\ LInv /\ [LogNext]_logVars => LInv'
<1> SUFFICES ASSUME IInv, LInv, [LogNext]_logVars PROVE LInv'
  OBVIOUS
<1> QED
  BY LogCases, DumpStep, LaunchStep, DownStep, QuietSteps, QuietStep

\* Every behaviour of LogDump is one of Deployer (DumpClusterLogs changes nothing
\* the deployer reads), so that what is proved above holds with the dumps.
THEOREM LogDumpImplementsDeployer == LogSpec => Spec
<1>1. LogInit => Init
  BY DEF LogInit
<1> QED
  BY <1>1, LogDumpStep, PTL DEF LogSpec, Spec

\* The invariants of Deployer and of the dumps hold together in every run.
LEMMA LogInvariance == LogSpec => [](IInv /\ LInv)
  BY LogDumpImplementsDeployer, Invariance, LogInitInv, LogStep, PTL DEF LogSpec

\* A dump fails over the directory only when another goroutine dumps (Mkdir).
THEOREM RivalCorrect == LogSpec => []FailedDumpHasRival
<1>1. LInv => FailedDumpHasRival
  BY DEF LInv, RivalInv, Rival, FailedDumpHasRival
<1> QED
  BY <1>1, LogInvariance, PTL

\* No machine is terminated before its logs were asked for, but for the reasons named,
\* for any number of workers (Down, DumpClusterLogs).
THEOREM LogsCorrect == LogSpec => []LogsBeforeTermination
<1>1. ASSUME IInv, LInv PROVE LogsBeforeTermination
  <2> SUFFICES ASSUME NEW i \in Image, cloud[i] = "gone", log[i] # "up"
               PROVE  \E w \in Downer :
                         /\ i < dnext[w] /\ dump[Of(w)].at \notin Working \cup {"idle"}
                         /\ \/ dump[Of(w)].at = "failed"
                            \/ i >= dump[Of(w)].seen
                            \/ log[i] = "lost"
                            \/ log[i] = "down" /\ Writers(w) # {}
    BY <1>1 DEF LogsBeforeTermination
  <2>1. ASSUME NEW w \in Downer, i < dnext[w] PROVE dump[Of(w)].at \in {"done", "failed"}
    BY <1>1, <2>1, NumNodesAssumption DEF LInv, OrderInv, Dumped, Image
  <2>2. CASE log[i] = "down"
    BY <1>1, <2>1, <2>2 DEF LInv, DownLogInv, Writers, Working
  <2>3. CASE log[i] # "down"
    <3>1. log[i] \in {"none", "lost"}
      BY <1>1, <2>3 DEF LInv, LogTyped
    <3>2. PICK w \in Downer : i < dnext[w]
      BY <1>1 DEF LInv, GoneInv
    <3>3. dump[Of(w)].at \in {"done", "failed"}
      BY <2>1, <3>2
    <3>4. i \in Nat /\ dump[Of(w)].seen \in Nat
      BY <1>1, OfType, NumNodesAssumption DEF Image, LInv, LogTyped, DumpRecord
    <3>5. log[i] = "none" => dump[Of(w)].at = "failed" \/ ~(i < dump[Of(w)].seen)
      BY <1>1, <3>3, OfType DEF LInv, WrittenInv
    <3> QED
      BY <3>1, <3>2, <3>3, <3>4, <3>5 DEF Working
  <2> QED
    BY <2>2, <2>3
<1> QED
  BY <1>1, LogInvariance, PTL

-----------------------------------------------------------------------------
(***************************************************************************)
(* Why a run ends with the dumps in its way (Termination, as the run       *)
(* log_dump checks it), as far as single steps show it.                    *)
(***************************************************************************)
\* Whoever began a dump is still at the call of it.
CallerInv == proc = "running" => \A d \in Dumper : dump[d].at \in Working => Calls(d)

\* A dump that was begun has a step to take, and its caller waits for its end; only a
\* Down without a runner ends in a panic over it.
DumpsGoOn ==
    proc = "running" => \A d \in Dumper : dump[d].at \in Working =>
        /\ Calls(d)
        /\ dump[d].at = "pods" => runner = "set" \/ \E w \in Downer : d = Of(w)
        /\ dump[d].at = "journal" => dump[d].next <= dump[d].len

\* The steps left to a dump, at most: one per file, and those before the first.
DumpSteps(d) ==
    CASE dump[d].at = "idle" -> NumNodes + 5
      [] dump[d].at = "mkdir" -> NumNodes + 4
      [] dump[d].at = "pods" -> NumNodes + 3
      [] dump[d].at = "journal" -> dump[d].len - dump[d].next + 1
      [] OTHER -> 0

DumpStepCounts ==
    \E d \in Dumper : /\ DumpSteps(d)' < DumpSteps(d)
                      /\ \A e \in Dumper \ {d} : dump'[e] = dump[e]

\* Every step uses up one of the steps left to the run or to one of its dumps.
EveryLogStepCounts ==
    \/ EveryStepCounts /\ UNCHANGED dump
    \/ DumpStepCounts /\ UNCHANGED vars

DumpsBounded == \A d \in Dumper : DumpSteps(d) \in 0 .. NumNodes + 5

\* A step that takes nobody away from the call of a working dump.
LEMMA CallersStay ==
    ASSUME CallerInv, UNCHANGED dump, proc' = "running" => proc = "running",
           \A i \in Image : gpc[i] = "checking" /\ dump[i].at \in Working =>
                               gpc'[i] = "checking",
           pc \in {"create", "launched"} /\ dump[UpDump].at \in Working =>
               pc' \in {"create", "launched"},
           \A w \in Downer : dpc[w] = "started" /\ dump[Of(w)].at \in Working =>
                                dpc'[w] = "started"
    PROVE  CallerInv'
<1> SUFFICES ASSUME proc = "running", proc' = "running",
                    NEW d \in Dumper, dump[d].at \in Working
             PROVE  Calls(d)'
  BY DEF CallerInv
<1>1. Calls(d)
  BY DEF CallerInv
<1> QED
  BY <1>1 DEF Calls, CheckAt, At, DownAt

\* Nobody leaves a dump behind (DumpClusterLogs is a plain call).
LEMMA CallerStep ==
    ASSUME IInv, LInv, CallerInv, [LogNext]_logVars
    PROVE  CallerInv'
<1> USE DEF At, CheckAt, DownAt, mainVars, checkVars, chanVars, downVars, dumpVars
<1>t. /\ dpc \in [Downer -> {"idle", "started", "loop", "ok", "err"}]
      /\ gpc \in [Image -> {"none", "checking", "download", "sending", "returning", "done"}]
      /\ "main" \in Downer /\ "handler" \in Downer
  BY DEF IInv, CoreInv, TypeOK, Downer
<1>1. ASSUME NEW d \in Dumper, DumpClusterLogs(d) PROVE CallerInv'
  <2>1. UNCHANGED <<proc, pc, gpc, dpc>> /\ \A e \in Dumper \ {d} : dump'[e] = dump[e]
    BY <1>1, Others DEF LInv, DumpClusterLogs, vars
  <2>2. \A e \in Dumper : Calls(e)' <=> Calls(e)
    BY <2>1 DEF Calls
  <2>3. proc = "running" => Calls(d)
    BY <1>1 DEF CallerInv, Working, DumpClusterLogs, Stat, Mkdir, DumpOthers, DumpRemoteLogs
  <2> QED
    BY <2>1, <2>2, <2>3 DEF CallerInv
<1>2. CASE Launch
  <2>1. dump[UpDump].at \notin Working /\ UNCHANGED <<proc, gpc, dpc, dump>>
    BY <1>2 DEF Launch, Idle, Dumped, Working, RunInstances, RecordInstance
  <2> QED
    BY <2>1, CallersStay
<1>3. ASSUME NEW w \in Downer, DownLogged(w) PROVE CallerInv'
  <2>1. UNCHANGED <<pc, gpc, dump>>
    BY <1>3 DEF DownLogged, DownStart, Terminate, DownDone
  <2>2. CASE proc' # "running"
    BY <2>2 DEF CallerInv
  <2>3. CASE proc' = "running"
    <3>1. proc = "running" /\ \E l \in {"loop", "ok", "err"} :
                                 dpc' = dpc \/ dpc' = [dpc EXCEPT ![w] = l]
      BY <1>3 DEF DownLogged, DownStart, Terminate, TerminateError, DownDone
    <3>2. dpc[w] = "started" => Dumped(Of(w))
      BY <1>3, <2>3 DEF DownLogged, DownStart, Terminate, DownDone
    <3>3. \A v \in Downer : dpc[v] = "started" /\ dump[Of(v)].at \in Working =>
                               dpc'[v] = "started"
      BY <3>1, <3>2, <1>t DEF Dumped, Working
    <3> QED
      BY <2>1, <3>1, <3>3, CallersStay
  <2> QED
    BY <2>2, <2>3
<1>4. CASE /\ Build \/ SkipUp \/ EnterUp \/ StartCheck \/ StartWaiter \/ SelectDone
              \/ (\E i \in Image : SelectError(i)) \/ CloseFatalErrors
              \/ Test \/ DeferredDown \/ DownReturned \/ Finish
           /\ UNCHANGED dumpVars
  <2>1. pc \notin {"create", "launched"} /\ proc = "running" /\ UNCHANGED dump
    BY <1>4 DEF Build, SkipUp, EnterUp, StartCheck, StartWaiter, SelectDone, SelectError,
                CloseFatalErrors, Test, DeferredDown, DownReturned, Finish
  <2>2. \A i \in Image : gpc[i] = "checking" => gpc'[i] = "checking"
    BY <1>4, <1>t DEF Build, SkipUp, EnterUp, StartCheck, StartWaiter, SelectDone, SelectError,
                CloseFatalErrors, Test, DeferredDown, DownReturned, Finish
  <2>3. \A w \in Downer : dpc[w] = "started" => dpc'[w] = "started"
    BY <1>4, <1>t DEF Build, SkipUp, EnterUp, StartCheck, StartWaiter, SelectDone, SelectError,
                CloseFatalErrors, Test, DeferredDown, DownReturned, Finish
  <2> QED
    BY <2>1, <2>2, <2>3, CallersStay
<1>5. ASSUME NEW i \in Image,
             \/ CheckPasses(i) /\ Idle(i)
             \/ CheckFails(i) /\ Dumped(i)
             \/ DownloadKubeConfig(i) \/ SendPanics(i) \/ CheckReturns(i),
             UNCHANGED dumpVars
      PROVE  CallerInv'
  <2>1. UNCHANGED <<pc, dpc, dump>> /\ proc = "running"
    BY <1>5 DEF CheckPasses, CheckFails, DownloadKubeConfig, SendPanics, CheckReturns
  <2>2. gpc[i] = "checking" => dump[i].at \notin Working
    BY <1>5 DEF Idle, Dumped, Working, DownloadKubeConfig, SendPanics, CheckReturns
  <2>3. \A j \in Image \ {i} : gpc'[j] = gpc[j]
    BY <1>5, <1>t DEF CheckPasses, CheckFails, DownloadKubeConfig, SendPanics, CheckReturns
  <2> QED
    BY <2>1, <2>2, <2>3, CallersStay
<1>6. CASE (CloseWgDone \/ Interrupt \/ HandlerExits \/ Ended) /\ UNCHANGED dumpVars
  <2>1. UNCHANGED <<pc, gpc, dump>> /\ (proc' = "running" => proc = "running")
    BY <1>6 DEF CloseWgDone, Interrupt, HandlerExits, Ended, vars
  <2>2. \A w \in Downer : dpc[w] = "started" => dpc'[w] = "started"
    BY <1>6, <1>t DEF CloseWgDone, Interrupt, HandlerExits, Ended, vars
  <2> QED
    BY <2>1, <2>2, CallersStay
<1>7. CASE UNCHANGED logVars
  <2>1. UNCHANGED <<proc, pc, gpc, dpc, dump>>
    BY <1>7 DEF logVars, vars
  <2> QED
    BY <2>1, CallersStay
<1>8. UpDump \in Dumper /\ (\A w \in Downer : Of(w) \in Dumper) /\ Image \subseteq Dumper
  BY OfType DEF Dumper
<1>9. CASE LoggedMain
  BY <1>1, <1>2, <1>3, <1>4, <1>8, <1>9, <1>t DEF LoggedMain
<1>10. CASE \E i \in Image : LoggedCheck(i)
  BY <1>1, <1>5, <1>8, <1>10 DEF LoggedCheck
<1>11. CASE LoggedDown
  BY <1>1, <1>3, <1>8, <1>11, <1>t DEF LoggedDown
<1> QED
  BY <1>6, <1>7, <1>9, <1>10, <1>11 DEF LogNext

\* No goroutine is stuck in a dump, or waits for one that nobody makes, for any number
\* of workers: with NobodyBlocks, a run can always go on.
THEOREM DumpsNeverBlock == LogSpec => [](SomebodyCanStep /\ DumpsGoOn)
<1>1. LogInit => CallerInv
  BY DEF LogInit, NoDump, CallerInv, Working
<1>2. ASSUME IInv, LInv, CallerInv PROVE DumpsGoOn
  <2> SUFFICES ASSUME proc = "running", NEW d \in Dumper, dump[d].at \in Working
               PROVE  /\ Calls(d)
                      /\ dump[d].at = "pods" => runner = "set" \/ \E w \in Downer : d = Of(w)
                      /\ dump[d].at = "journal" => dump[d].next <= dump[d].len
    BY DEF DumpsGoOn
  <2>1. Calls(d)
    BY <1>2 DEF CallerInv
  <2>2. CASE d \in Image /\ CheckAt(d, "checking")
    <3>1. cloud[d] # "none"
      BY <1>2, <2>2, NumNodesAssumption
      DEF CheckAt, IInv, CoreInv, TypeOK, LoopInv, CloudInv, Image
    <3>2. runner = "set"
      BY <1>2, <2>2, <3>1 DEF IInv, RunnerInv, CoreInv, TypeOK
    <3> QED
      BY <1>2, <2>1, <3>2 DEF LInv, WrittenInv
  <2>3. CASE At("create") \/ At("launched")
    BY <1>2, <2>1, <2>3 DEF At, IInv, RunnerInv, LInv, WrittenInv
  <2>4. CASE \E w \in Downer : d = Of(w)
    BY <1>2, <2>1, <2>4 DEF LInv, WrittenInv
  <2> QED
    BY <2>1, <2>2, <2>3, <2>4 DEF Calls
<1>3. LogSpec => []CallerInv
  BY <1>1, CallerStep, LogInvariance, PTL DEF LogSpec
<1> QED
  BY <1>2, <1>3, LogInvariance, LogDumpImplementsDeployer, NobodyBlocks, PTL

\* A dump comes nearer to its end with every step (DumpClusterLogs).
LEMMA DumpCounts ==
    ASSUME IInv, LInv, NEW d \in Dumper, DumpClusterLogs(d)
    PROVE  DumpStepCounts
<1>t. /\ dump \in [Dumper -> DumpRecord] /\ instances \in 0 .. NumNodes + 1
      /\ dump[d].at \in {"idle", "mkdir", "pods", "journal", "done", "failed"}
      /\ dump[d].len \in 0 .. NumNodes + 1 /\ dump[d].next \in 0 .. NumNodes + 1
      /\ IF dump[d].at = "journal" THEN dump[d].next <= dump[d].len ELSE dump[d].next = 0
  BY DEF LInv, LogTyped, DumpRecord, WrittenInv, IInv, CoreInv, TypeOK
<1>1. \A e \in Dumper \ {d} : dump'[e] = dump[e]
  BY Others DEF LInv
<1>2. DumpSteps(d)' < DumpSteps(d)
  <2> USE NumNodesAssumption, <1>t DEF DumpSteps
  <2>1. CASE Stat(d)
    <3>1. dump[d].at = "idle" /\ dump'[d].at \in {"pods", "mkdir"}
      BY <2>1 DEF Stat, Idle, Moved, DumpRecord
    <3> QED
      BY <3>1
  <2>2. CASE Mkdir(d)
    <3>1. dump[d].at = "mkdir" /\ dump'[d].at \in {"pods", "failed"}
      BY <2>2 DEF Mkdir, Moved, DumpRecord
    <3> QED
      BY <3>1
  <2>3. CASE DumpOthers(d)
    <3>1. /\ dump[d].at = "pods" /\ dump'[d].at = "journal"
          /\ dump'[d].len = instances /\ dump'[d].next = dump[d].next
      BY <2>3 DEF DumpOthers, DumpRecord
    <3> QED
      BY <3>1
  <2>4. CASE DumpRemoteLogs(d)
    <3>1. /\ dump[d].at = "journal"
          /\ \/ /\ dump[d].next < dump[d].len
                /\ dump'[d].at = "journal" /\ dump'[d].len = dump[d].len
                /\ dump'[d].next = dump[d].next + 1
             \/ dump'[d].at = "done"
      BY <2>4 DEF DumpRemoteLogs, DumpRecord
    <3> QED
      BY <3>1
  <2> QED
    BY <2>1, <2>2, <2>3, <2>4 DEF DumpClusterLogs
<1> QED
  BY <1>1, <1>2 DEF DumpStepCounts

\* No run goes round in circles over its dumps, whoever makes them and in whatever order,
\* for any number of workers.
THEOREM LogProgressCorrect ==
    LogSpec => []Bounded /\ []DumpsBounded /\ [][EveryLogStepCounts]_logVars
<1>1. ASSUME LInv PROVE DumpsBounded
  <2> SUFFICES ASSUME NEW d \in Dumper PROVE DumpSteps(d) \in 0 .. NumNodes + 5
    BY DEF DumpsBounded
  <2>1. /\ dump[d].at \in {"idle", "mkdir", "pods", "journal", "done", "failed"}
        /\ dump[d].len \in 0 .. NumNodes + 1 /\ dump[d].next \in 0 .. NumNodes + 1
        /\ dump[d].at = "journal" => dump[d].next <= dump[d].len
    BY <1>1 DEF LInv, LogTyped, DumpRecord, WrittenInv
  <2> QED
    BY <2>1, NumNodesAssumption DEF DumpSteps
<1>2. ASSUME IInv, IInv', WaitInv, LInv, [LogNext]_logVars PROVE [EveryLogStepCounts]_logVars
  <2>1. ASSUME NEW d \in Dumper, DumpClusterLogs(d) PROVE EveryLogStepCounts
    BY <1>2, <2>1, DumpCounts DEF EveryLogStepCounts, DumpClusterLogs
  <2>2. CASE UNCHANGED dumpVars
    <3>1. [Next]_vars
      BY <1>2, LogDumpStep
    <3>2. CASE Next /\ ~Ended
      BY <1>2, <2>2, <3>2, StepCounts DEF EveryLogStepCounts, dumpVars
    <3>3. CASE UNCHANGED vars
      BY <2>2, <3>3 DEF logVars
    <3> QED
      BY <3>1, <3>2, <3>3 DEF Ended
  <2>3. Launch \/ (\E w \in Downer : DownLogged(w)) => UNCHANGED dumpVars
    BY DEF Launch, DownLogged
  <2> QED
    BY <1>2, <2>1, <2>2, <2>3, LogCases
<1> QED
  BY <1>1, <1>2, LogInvariance, LogDumpImplementsDeployer, ProgressCorrect, WaitAlways, PTL
  DEF LogSpec
=============================================================================
