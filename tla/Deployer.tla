------------------------------ MODULE Deployer ------------------------------
(***************************************************************************)
(* One run of kubetest2-ec2: the main goroutine that executes RealMain     *)
(* (Build, Up, Test and the deferred Down), the signal handler goroutine   *)
(* RealMain starts, one goroutine per launched instance that checks it,    *)
(* and the goroutine that turns the wait group into a channel.  All of     *)
(* them share deployer.runner and the two channels made by Up.             *)
(*                                                                         *)
(* Images are the entries of runner.internalAWSImages in their order: 0 is *)
(* the control plane, 1..NumNodes are the workers.  The private address of *)
(* the instance launched for image i is i; NoIP is the empty string.       *)
(***************************************************************************)
EXTENDS Integers, FiniteSets

CONSTANT NumNodes   \* the flag --num-nodes: how many workers to launch

ASSUME NumNodesAssumption == NumNodes \in Nat

Image == 0 .. NumNodes
NoIP == -1
Downer == {"main", "handler"}   \* the two goroutines that call Down

VARIABLES
    opts,            \* flags: [build, up, test, down -> BOOLEAN]
    proc,            \* the process: running, or the way it ended
    pc,              \* the main goroutine
    image,           \* the loop variable of Up: next image to launch
    runner,          \* d.runner: "nil" or "set"
    instances,       \* len(runner.instances): images 0 .. instances - 1
    controlPlaneIP,  \* runner.controlPlaneIP
    cloud,           \* what EC2 runs: Image -> {"none", "live", "gone"}
    joinIP,          \* control plane address in the user data of an instance
    gpc,             \* the goroutine that checks an instance
    gerr,            \* what isAWSInstanceRunning returned to it
    wg,              \* the counter of the wait group
    waiter,          \* the goroutine on wg.Wait(): "done" once wgDone is closed
    fatalErrors,     \* the channel: "open" or "closed"
    kubeconfig,      \* d.KubeconfigPath: "unset" or "path"
    upErr, testErr,  \* results of Up and of the tester
    dpc, dnext, dlen \* Down in each Downer: where it is, its range loop

mainVars == <<pc, image, upErr, testErr>>
runnerVars == <<runner, instances, controlPlaneIP>>
ec2Vars == <<cloud, joinIP>>
checkVars == <<gpc, gerr, wg>>
chanVars == <<waiter, fatalErrors>>
downVars == <<dpc, dnext, dlen>>
vars == <<opts, proc, mainVars, runnerVars, ec2Vars, checkVars, chanVars,
          kubeconfig, downVars>>

(***************************************************************************)
(* The flags are fixed by the command line; --kubeconfig may be given.     *)
(***************************************************************************)
Init ==
    /\ opts \in [build : BOOLEAN, up : BOOLEAN, test : BOOLEAN, down : BOOLEAN]
    /\ proc = "running"
    /\ pc = "build" /\ image = 0 /\ upErr = "none" /\ testErr = "none"
    /\ runner = "nil" /\ instances = 0 /\ controlPlaneIP = NoIP
    /\ cloud = [i \in Image |-> "none"]
    /\ joinIP = [i \in Image |-> NoIP]
    /\ gpc = [i \in Image |-> "none"]
    /\ gerr = [i \in Image |-> "none"]
    /\ wg = 0 /\ waiter = "none" /\ fatalErrors = "open"
    /\ kubeconfig \in {"unset", "path"}
    /\ dpc = [w \in Downer |-> "idle"]
    /\ dnext = [w \in Downer |-> 0]
    /\ dlen = [w \in Downer |-> 0]

\* Where the goroutines of a running process are.
At(label) == proc = "running" /\ pc = label
CheckAt(i, label) == proc = "running" /\ gpc[i] = label
DownAt(w, labels) == proc = "running" /\ dpc[w] \in labels

-----------------------------------------------------------------------------
(***************************************************************************)
(* Main goroutine: RealMain and Up.                                        *)
(***************************************************************************)

\* NewAWSRunner keeps the new runner in the deployer.
NewAWSRunner_Local == UNCHANGED runner   \* fault: only Up knows the runner
NewAWSRunner == runner' = "set"

\* Build makes a runner of its own; when it fails RealMain returns before it
\* has deferred Down.
Build ==
    /\ At("build")
    /\ \/ ~opts.build /\ pc' = "up" /\ UNCHANGED runner
       \/ opts.build /\ NewAWSRunner /\ pc' \in {"up", "finish"}
    /\ UNCHANGED <<opts, proc, image, upErr, testErr, instances, controlPlaneIP,
                   ec2Vars, checkVars, chanVars, kubeconfig, downVars>>

\* Up returns an error to RealMain, which runs its deferred functions.
UpFails == upErr' = "err" /\ pc' = "deferred"

SkipUp ==
    /\ At("up") /\ ~opts.up
    /\ pc' = "test"
    /\ UNCHANGED <<opts, proc, image, upErr, testErr, runnerVars, ec2Vars,
                   checkVars, chanVars, kubeconfig, downVars>>

\* verifyKubectl, NewAWSRunner and Validate.
EnterUp ==
    /\ At("up") /\ opts.up
    /\ \/ UpFails /\ UNCHANGED runner            \* no kubectl: no runner yet
       \/ UpFails /\ NewAWSRunner               \* Validate failed
       \/ pc' = "create" /\ NewAWSRunner /\ UNCHANGED upErr
    /\ UNCHANGED <<opts, proc, image, testErr, instances, controlPlaneIP, ec2Vars,
                   checkVars, chanVars, kubeconfig, downVars>>

\* createAWSInstance up to RunInstances.  The user data of the instance gets
\* the control plane address known now.
RunInstances ==
    /\ At("create")
    /\ \/ UpFails /\ UNCHANGED ec2Vars
       \/ /\ pc' = "launched"
          /\ cloud' = [cloud EXCEPT ![image] = "live"]
          /\ joinIP' = [joinIP EXCEPT ![image] = controlPlaneIP]
          /\ UNCHANGED upErr
    /\ UNCHANGED <<opts, proc, image, testErr, runnerVars, checkVars, chanVars,
                   kubeconfig, downVars>>

\* createAWSInstance returns nil and an error when EC2 reported no address.
MissingAddress_Continues ==              \* fault: Up goes on with the next image
    /\ image' = image + 1 /\ UNCHANGED upErr
    /\ pc' = IF image < NumNodes THEN "create" ELSE "wait"
MissingAddress == UpFails /\ UNCHANGED image

\* Otherwise it returns the instance, which Up appends to runner.instances.
RecordInstance ==
    /\ At("launched")
    /\ \/ MissingAddress /\ UNCHANGED instances
       \/ pc' = "started" /\ instances' = instances + 1 /\ UNCHANGED <<image, upErr>>
    /\ UNCHANGED <<opts, proc, testErr, runner, controlPlaneIP, ec2Vars,
                   checkVars, chanVars, kubeconfig, downVars>>

\* The first instance is the control plane.
FirstIP_Latest(i) == i                   \* fault: every instance overwrites it
FirstIP(i) == IF controlPlaneIP = NoIP THEN i ELSE controlPlaneIP

\* The rest of the loop body starts the goroutine that checks the instance.
StartCheck ==
    /\ At("started")
    /\ controlPlaneIP' = FirstIP(image)
    /\ wg' = wg + 1
    /\ gpc' = [gpc EXCEPT ![image] = "checking"]
    /\ image' = image + 1
    /\ pc' = IF image < NumNodes THEN "create" ELSE "wait"
    /\ UNCHANGED <<opts, proc, upErr, testErr, runner, instances, ec2Vars, gerr,
                   chanVars, kubeconfig, downVars>>

StartWaiter ==
    /\ At("wait")
    /\ waiter' = "waiting" /\ pc' = "select"
    /\ UNCHANGED <<opts, proc, image, upErr, testErr, runnerVars, ec2Vars,
                   checkVars, fatalErrors, kubeconfig, downVars>>

WgDoneClosed_Ignored == TRUE             \* fault: a select that does not wait
WgDoneClosed == waiter = "done"

\* select, case <-wgDone: Up goes on to its readiness waits, none of which can
\* make it fail, and returns nil.
SelectDone ==
    /\ At("select") /\ WgDoneClosed
    /\ upErr' = "ok" /\ pc' = "test"
    /\ UNCHANGED <<opts, proc, image, testErr, runnerVars, ec2Vars, checkVars,
                   chanVars, kubeconfig, downVars>>

AfterSend_Again == "sending"             \* fault: the goroutine reports twice
AfterSend == "returning"

\* select, case err := <-fatalErrors: the channel has no buffer, so receiving
\* releases the goroutine that sends.
SelectError(i) ==
    /\ At("select") /\ CheckAt(i, "sending")
    /\ gpc' = [gpc EXCEPT ![i] = AfterSend]
    /\ pc' = "close"
    /\ UNCHANGED <<opts, proc, image, upErr, testErr, runnerVars, ec2Vars, gerr,
                   wg, chanVars, kubeconfig, downVars>>

CloseFatalErrors ==
    /\ At("close")
    /\ fatalErrors' = "closed" /\ UpFails
    /\ UNCHANGED <<opts, proc, image, testErr, runnerVars, ec2Vars, checkVars,
                   waiter, kubeconfig, downVars>>

Test ==
    /\ At("test")
    /\ testErr' \in IF opts.test THEN {"ok", "err"} ELSE {testErr}
    /\ pc' = "deferred"
    /\ UNCHANGED <<opts, proc, image, upErr, runnerVars, ec2Vars, checkVars,
                   chanVars, kubeconfig, downVars>>

\* The deferred functions of RealMain: Down, then the end of the handler.
DeferredDown ==
    /\ At("deferred")
    /\ \/ ~opts.down /\ pc' = "finish" /\ UNCHANGED dpc
       \/ opts.down /\ pc' = "down" /\ dpc' = [dpc EXCEPT !["main"] = "started"]
    /\ UNCHANGED <<opts, proc, image, upErr, testErr, runnerVars, ec2Vars,
                   checkVars, chanVars, kubeconfig, dnext, dlen>>

DownReturned ==
    /\ At("down") /\ DownAt("main", {"ok", "err"})
    /\ pc' = "finish"
    /\ UNCHANGED <<opts, proc, image, upErr, testErr, runnerVars, ec2Vars,
                   checkVars, chanVars, kubeconfig, downVars>>

\* done <- true waits for the handler to be back at its select.
Finish ==
    /\ At("finish") /\ DownAt("handler", {"idle"})
    /\ proc' = "exited"
    /\ UNCHANGED <<opts, mainVars, runnerVars, ec2Vars, checkVars, chanVars,
                   kubeconfig, downVars>>

-----------------------------------------------------------------------------
(***************************************************************************)
(* The goroutine that checks the instance of image i.                      *)
(***************************************************************************)

\* isAWSInstanceRunning found the instance up.  The control plane still has to
\* hand over its kubeconfig, unless the deployer has one.
CheckPasses(i) ==
    /\ CheckAt(i, "checking")
    /\ IF controlPlaneIP = i /\ kubeconfig = "unset"
         THEN gpc' = [gpc EXCEPT ![i] = "download"] /\ UNCHANGED gerr
         ELSE /\ gpc' = [gpc EXCEPT ![i] = "returning"]
              /\ gerr' = [gerr EXCEPT ![i] = "ok"]
    /\ UNCHANGED <<opts, proc, mainVars, runnerVars, ec2Vars, wg, chanVars,
                   kubeconfig, downVars>>

\* downloadKubeConfig ends the process with klog.Fatalf on any error.
DownloadKubeConfig(i) ==
    /\ CheckAt(i, "download")
    /\ \/ /\ kubeconfig' = "path"
          /\ gpc' = [gpc EXCEPT ![i] = "returning"]
          /\ gerr' = [gerr EXCEPT ![i] = "ok"]
          /\ UNCHANGED proc
       \/ proc' = "fatal" /\ UNCHANGED <<kubeconfig, gpc, gerr>>
    /\ UNCHANGED <<opts, mainVars, runnerVars, ec2Vars, wg, chanVars, downVars>>

OnCheckError_LogOnly == "returning"      \* fault: the error is only logged
OnCheckError == "sending"

\* The instance never came up: dump the logs, then send on fatalErrors.
CheckFails(i) ==
    /\ CheckAt(i, "checking")
    /\ gpc' = [gpc EXCEPT ![i] = OnCheckError]
    /\ gerr' = [gerr EXCEPT ![i] = "err"]
    /\ UNCHANGED <<opts, proc, mainVars, runnerVars, ec2Vars, wg, chanVars,
                   kubeconfig, downVars>>

\* A send on a closed channel panics, blocked in the send or not.
SendPanics(i) ==
    /\ CheckAt(i, "sending") /\ fatalErrors = "closed"
    /\ proc' = "panicked"
    /\ UNCHANGED <<opts, mainVars, runnerVars, ec2Vars, checkVars, chanVars,
                   kubeconfig, downVars>>

WgDone_Twice == wg - 2                   \* fault: Done in the body and deferred
WgDone_Missing == wg                     \* fault: an exit without Done
WgDone == wg - 1

\* The deferred wg.Done().
CheckReturns(i) ==
    /\ CheckAt(i, "returning")
    /\ gpc' = [gpc EXCEPT ![i] = "done"]
    /\ wg' = WgDone
    /\ UNCHANGED <<opts, proc, mainVars, runnerVars, ec2Vars, gerr, chanVars,
                   kubeconfig, downVars>>

\* wg.Wait() returned: close(wgDone).
CloseWgDone ==
    /\ proc = "running" /\ waiter = "waiting" /\ wg = 0
    /\ waiter' = "done"
    /\ UNCHANGED <<opts, proc, mainVars, runnerVars, ec2Vars, checkVars,
                   fatalErrors, kubeconfig, downVars>>

-----------------------------------------------------------------------------
(***************************************************************************)
(* Down, run by the main goroutine or by the signal handler.               *)
(***************************************************************************)

\* The log dump and the range over d.runner.instances, whose length is fixed
\* here.  Without a runner both dereference nil.
DownStart(w) ==
    /\ DownAt(w, {"started"})
    /\ IF runner = "set"
         THEN /\ dpc' = [dpc EXCEPT ![w] = "loop"]
              /\ dnext' = [dnext EXCEPT ![w] = 0]
              /\ dlen' = [dlen EXCEPT ![w] = instances]
              /\ UNCHANGED proc
         ELSE proc' = "nilpanic" /\ UNCHANGED downVars
    /\ UNCHANGED <<opts, mainVars, runnerVars, ec2Vars, checkVars, chanVars,
                   kubeconfig>>

TerminateError_Continues(w) ==           \* fault: the error is only logged
    dnext' = [dnext EXCEPT ![w] = @ + 1] /\ UNCHANGED dpc
TerminateError(w) == dpc' = [dpc EXCEPT ![w] = "err"] /\ UNCHANGED dnext

\* One TerminateInstances call; the first error ends Down.
Terminate(w) ==
    /\ DownAt(w, {"loop"}) /\ dnext[w] < dlen[w]
    /\ \/ /\ cloud' = [cloud EXCEPT ![dnext[w]] = "gone"]
          /\ dnext' = [dnext EXCEPT ![w] = @ + 1]
          /\ UNCHANGED dpc
       \/ TerminateError(w) /\ UNCHANGED cloud
    /\ UNCHANGED <<opts, proc, mainVars, runnerVars, joinIP, checkVars, chanVars,
                   kubeconfig, dlen>>

DownDone(w) ==
    /\ DownAt(w, {"loop"}) /\ dnext[w] = dlen[w]
    /\ dpc' = [dpc EXCEPT ![w] = "ok"]
    /\ UNCHANGED <<opts, proc, mainVars, runnerVars, ec2Vars, checkVars, chanVars,
                   kubeconfig, dnext, dlen>>

\* The handler receives SIGINT, SIGTERM or SIGHUP (a run that neither brings up
\* nor tests ignores them).
Interrupt ==
    /\ DownAt("handler", {"idle"}) /\ (opts.up \/ opts.test)
    /\ IF opts.down
         THEN dpc' = [dpc EXCEPT !["handler"] = "started"] /\ UNCHANGED proc
         ELSE proc' = "interrupted" /\ UNCHANGED dpc
    /\ UNCHANGED <<opts, mainVars, runnerVars, ec2Vars, checkVars, chanVars,
                   kubeconfig, dnext, dlen>>

HandlerExits_AtOnce ==                   \* fault: the exit does not wait for Down
    /\ DownAt("handler", {"started", "loop", "ok", "err"})
    /\ proc' = "interrupted"
    /\ UNCHANGED <<opts, mainVars, runnerVars, ec2Vars, checkVars, chanVars,
                   kubeconfig, downVars>>

\* Whatever Down returned, the handler calls os.Exit(0).
HandlerExits ==
    /\ DownAt("handler", {"ok", "err"})
    /\ proc' = "interrupted"
    /\ UNCHANGED <<opts, mainVars, runnerVars, ec2Vars, checkVars, chanVars,
                   kubeconfig, downVars>>

-----------------------------------------------------------------------------
Up == \/ EnterUp \/ RunInstances \/ RecordInstance \/ StartCheck \/ StartWaiter
      \/ SelectDone \/ (\E i \in Image : SelectError(i)) \/ CloseFatalErrors

Down(w) == DownStart(w) \/ Terminate(w) \/ DownDone(w)

RealMain == \/ Build \/ SkipUp \/ Up \/ Test
            \/ DeferredDown \/ Down("main") \/ DownReturned \/ Finish

Check(i) == \/ CheckPasses(i) \/ DownloadKubeConfig(i) \/ CheckFails(i)
            \/ SendPanics(i) \/ CheckReturns(i)

Handler == Interrupt \/ Down("handler") \/ HandlerExits

\* A process that has ended takes no step.
Ended == proc # "running" /\ UNCHANGED vars

Next == \/ RealMain
        \/ \E i \in Image : Check(i)
        \/ CloseWgDone
        \/ Handler
        \/ Ended

Spec == Init /\ [][Next]_vars

(***************************************************************************)
(* Go runs every goroutine that can run, and every call to AWS, to ssh and *)
(* to the tester returns: the SDK and the loops around it are bounded.     *)
(* A signal may never arrive, so Interrupt is not fair.                    *)
(***************************************************************************)
Fairness ==
    /\ WF_vars(RealMain)
    /\ \A i \in Image : WF_vars(Check(i))
    /\ WF_vars(CloseWgDone)
    /\ WF_vars(Down("handler") \/ HandlerExits)

FairSpec == Spec /\ Fairness

-----------------------------------------------------------------------------
(***************************************************************************)
(* Properties.                                                             *)
(***************************************************************************)

\* Every variable has its type.  That the wait group counter never goes below
\* zero is part of it: sync.WaitGroup panics when Done is called too often.
TypeOK ==
    /\ opts \in [build : BOOLEAN, up : BOOLEAN, test : BOOLEAN, down : BOOLEAN]
    /\ proc \in {"running", "exited", "interrupted", "panicked", "nilpanic", "fatal"}
    /\ pc \in {"build", "up", "create", "launched", "started", "wait", "select",
               "close", "test", "deferred", "down", "finish"}
    /\ image \in 0 .. NumNodes + 1
    /\ runner \in {"nil", "set"} /\ kubeconfig \in {"unset", "path"}
    /\ instances \in 0 .. NumNodes + 1
    /\ controlPlaneIP \in Image \cup {NoIP}
    /\ cloud \in [Image -> {"none", "live", "gone"}]
    /\ joinIP \in [Image -> Image \cup {NoIP}]
    /\ gpc \in [Image -> {"none", "checking", "download", "sending", "returning", "done"}]
    /\ gerr \in [Image -> {"none", "ok", "err"}]
    /\ wg \in 0 .. NumNodes + 1
    /\ waiter \in {"none", "waiting", "done"}
    /\ fatalErrors \in {"open", "closed"}
    /\ upErr \in {"none", "ok", "err"} /\ testErr \in {"none", "ok", "err"}
    /\ dpc \in [Downer -> {"idle", "started", "loop", "ok", "err"}]
    /\ dnext \in [Downer -> 0 .. NumNodes + 1]
    /\ dlen \in [Downer -> 0 .. NumNodes + 1]

\* When Up returned nil, isAWSInstanceRunning returned nil for the control
\* plane and for every worker: no failed check is lost between the channel,
\* the wait group and the select of Up.
UpOkMeansVerified == upErr = "ok" => \A i \in Image : gerr[i] = "ok"

\* Up closes fatalErrors under the feet of its senders, but one failed check
\* alone never makes the process panic: it takes a second one.
PanicNeedsTwoFailures ==
    proc = "panicked" => Cardinality({i \in Image : gerr[i] = "err"}) >= 2

\* An instance EC2 runs that is missing from runner.instances, out of reach of
\* Down, is the last one launched: Up is still creating it or failed on it.
OrphanIsLast ==
    \A i \in Image : cloud[i] # "none" /\ i >= instances =>
        i = image /\ (pc = "launched" \/ upErr = "err")

\* Every worker was launched with the address of the control plane in its user
\* data, and the control plane with none, so that only it runs kubeadm init.
WorkersKnowControlPlane ==
    \A i \in Image : cloud[i] # "none" => joinIP[i] = IF i = 0 THEN NoIP ELSE 0

\* A run that ended with Up, the tester and Down all successful verified every
\* instance and left none behind.
CleanRunLeavesNothing ==
    proc = "exited" /\ upErr = "ok" /\ dpc["main"] = "ok" =>
        \A i \in Image : gerr[i] = "ok" /\ cloud[i] = "gone"

\* What a Down that returned has left: what Up recorded too late to be in its
\* range, and what follows the instance whose TerminateInstances failed.
LeftBy(w, i) ==
    /\ dpc[w] \in {"ok", "err"}
    /\ i >= dlen[w] \/ (dpc[w] = "err" /\ i >= dnext[w])

\* An instance that outlives a run told to take its instances down has one of
\* four causes: a panic, klog.Fatalf, or the Down that ended the run, the main
\* goroutine's or the signal handler's, having left it as LeftBy says.
SurvivorsExplained ==
    proc # "running" /\ opts.down => \A i \in Image : cloud[i] = "live" =>
        \/ proc \in {"panicked", "fatal"}
        \/ proc = "exited" /\ LeftBy("main", i)
        \/ proc = "interrupted" /\ LeftBy("handler", i)

\* Down dereferences d.runner; when it is nil no instance was launched yet, so
\* the panic loses nothing.
NilRunnerLosesNothing ==
    proc = "nilpanic" => \A i \in Image : cloud[i] = "none"

\* The run ends: the select of Up always gets one of its two answers, and the
\* handshake at the end of RealMain is always taken.
Termination == <>(proc # "running")

\* A failed check makes Up return an error, unless a signal or a crash ends the
\* process first: RealMain never runs to its end over one.
FailureReported ==
    (\E i \in Image : gerr[i] = "err") ~>
        (upErr = "err" \/ proc \notin {"running", "exited"})

\* The run behaves as ClusterLifecycle says.
Lifecycle == INSTANCE ClusterLifecycle WITH
    machine <- cloud,
    checked <- {i \in Image : gerr[i] = "ok"},
    verdict <- CASE upErr = "none" -> "pending"
                 [] upErr = "ok" -> "up"
                 [] upErr = "err" -> "failed"

ImplementsLifecycle == Lifecycle!Spec

-----------------------------------------------------------------------------
(***************************************************************************)
(* What the documentation says and the code does not do.                   *)
(***************************************************************************)
NoneLive == \A i \in Image : cloud[i] # "live"

\* kubetest2 (app.go): "down should be called both when Up and Test fails to
\* ensure resources are being cleaned up" - yet a second failing check panics
\* on the closed channel while Down is still on its way.
PanicLeavesNothing == proc = "panicked" /\ opts.down => NoneLive

\* kubetest2 on a signal: "gracefully attempting to cleanup resources.." - yet
\* Up goes on launching while the handler runs Down.
InterruptLeavesNothing ==
    proc = "interrupted" /\ dpc["handler"] = "ok" => NoneLive
=============================================================================
