------------------------------ MODULE NodeE2E ------------------------------
(***************************************************************************)
(* The node e2e runner: RunRemoteTestSuite starts one goroutine per image  *)
(* (StartTests), each finds or launches an instance (getAWSInstance), runs *)
(* the suite on it, and through its deferred calls removes its key file    *)
(* and terminates the instance before it sends its result; the main        *)
(* goroutine counts the results and exits.                                 *)
(*                                                                         *)
(* The instance launched for an image bears the image's name; Old is one   *)
(* that was running before, tagged with the AMI it was made from.          *)
(***************************************************************************)
EXTENDS Integers, FiniteSets

CONSTANTS Images,   \* the prepared images, one test each
          AMIs,     \* what they are made from; several images may share one
          Old,      \* an instance that runs already
          None      \* no instance, no key file

ASSUME NodeE2EAssumption ==
    /\ IsFiniteSet(Images) /\ AMIs # {}
    /\ Old \notin Images /\ None \notin Images \cup {Old}

Instances == Images \cup {Old}

VARIABLES
    reuse, deleteInstances, connect,  \* the flags, "on" or "off"
    ami,        \* the AMI of each image and of Old
    pc,         \* where each test's goroutine is
    host,       \* the instance a test has in hand
    result,     \* a test's result so far
    machine,    \* the instances in EC2
    overrides,  \* sshKeyOverrides: whose key file ssh uses for an instance
    files,      \* the tests whose key file exists
    litter,     \* those that left the key file of a failed attempt behind
    terminateErr, \* the tests whose TerminateInstances failed
    received,   \* results the main goroutine received
    exitOk,     \* the main goroutine's conjunction of ExitOK
    interrupts, \* SIGINTs received
    proc        \* the process

flags == <<reuse, deleteInstances, connect, ami>>
keys == <<overrides, files, litter>>
main == <<received, exitOk, proc>>
vars == <<flags, pc, host, result, machine, keys, terminateErr, main, interrupts>>

Init ==
    /\ reuse \in {"on", "off"} /\ deleteInstances \in {"on", "off"}
    /\ connect \in {"on", "off"}
    /\ ami \in [Instances -> AMIs]
    /\ pc = [i \in Images |-> "find"]
    /\ host = [i \in Images |-> None]
    /\ result = [i \in Images |-> "none"]
    /\ machine = [m \in Instances |-> IF m = Old THEN "running" ELSE "none"]
    /\ overrides = [m \in Instances |-> None]
    /\ files = {} /\ litter = {}
    /\ terminateErr = {}
    /\ received = 0 /\ exitOk = "yes" /\ interrupts = 0
    /\ proc = "running"

At(i, label) == proc = "running" /\ pc[i] = label
Goto(i, label) == pc' = [pc EXCEPT ![i] = label]

-----------------------------------------------------------------------------
(***************************************************************************)
(* getAWSInstance.  Its errors return before testAWSImage defers anything. *)
(***************************************************************************)
ReturnError(i) ==
    /\ Goto(i, "send")
    /\ result' = [result EXCEPT ![i] = "noHost"]
    /\ UNCHANGED <<host, machine, keys>>

Reusable_Always(i) == {m \in Instances : machine[m] = "running" /\ ami[m] = ami[i]}
                               \* fault: the flag reuse-instances is not asked
Reusable(i) == {m \in Instances : reuse = "on" /\ machine[m] = "running" /\ ami[m] = ami[i]}

\* DescribeInstances by the AMI's tag, and the choice it leads to.
FindInstance(i) ==
    /\ At(i, "find")
    /\ \/ ReturnError(i)
       \/ \E m \in Reusable(i) :
             /\ host' = [host EXCEPT ![i] = m]
             /\ Goto(i, "wait") /\ UNCHANGED <<result, machine, keys>>
       \/ /\ Reusable(i) = {}
          /\ Goto(i, "launch") /\ UNCHANGED <<host, result, machine, keys>>

LaunchNewInstance(i) ==
    /\ At(i, "launch")
    /\ \/ ReturnError(i)
       \/ /\ machine' = [machine EXCEPT ![i] = "running"]
          /\ host' = [host EXCEPT ![i] = i]
          /\ Goto(i, "wait") /\ UNCHANGED <<result, keys>>

HostRuns(i) == machine[host[i]] = "running"

WaitRunning(i) ==
    /\ At(i, "wait")
    /\ \/ ReturnError(i)
       \/ HostRuns(i) /\ Goto(i, "key") /\ UNCHANGED <<host, result, machine, keys>>

\* Of the fifty iterations of the poll loop the ones that change nothing are
\* stuttering steps; it may end without success after any of them.  The key is
\* made once and registered for the instance, whoever else uses it; an attempt that
\* fails once the file is created leaves it there, and another may follow.
AssignNewSSHKey(i) ==
    /\ At(i, "key")
    /\ \/ ReturnError(i)
       \/ /\ connect = "on" /\ HostRuns(i)
          /\ files' = files \cup {i}
          /\ overrides' = [overrides EXCEPT ![host[i]] = i]
          /\ Goto(i, "probe") /\ UNCHANGED <<host, result, machine, litter>>
       \/ /\ connect = "on" /\ HostRuns(i)
          /\ litter' = litter \cup {i}
          /\ UNCHANGED <<pc, host, result, machine, overrides, files>>
       \/ /\ connect = "off"
          /\ Goto(i, "probe") /\ UNCHANGED <<host, result, machine, keys>>

SSHWorks(i) == HostRuns(i) /\ (connect = "on" => overrides[host[i]] \in files)

ProbeContainerd(i) ==
    /\ At(i, "probe")
    /\ \/ ReturnError(i)
       \/ SSHWorks(i) /\ Goto(i, "run") /\ UNCHANGED <<host, result, machine, keys>>

-----------------------------------------------------------------------------
(***************************************************************************)
(* testAWSImage with the instance in hand: RunRemote, then the deferred    *)
(* calls, last deferred first, and the result.                             *)
(***************************************************************************)
AfterTest_ErrorSkips(r) == IF r = "ok" THEN "remove" ELSE "send"
                               \* fault: an early return before the defers
AfterTest(r) == "remove"

RunRemote(i) ==
    /\ At(i, "run")
    /\ \E r \in {"ok", "err"} :
          /\ r = "ok" => SSHWorks(i)
          /\ result' = [result EXCEPT ![i] = r]
          /\ Goto(i, AfterTest(r))
    /\ UNCHANGED <<host, machine, keys>>

RemoveKeyFile(i) ==
    /\ At(i, "remove")
    /\ files' = IF connect = "on" THEN files \ {i} ELSE files
    /\ Goto(i, "delete")
    /\ UNCHANGED <<host, result, machine, overrides, litter>>

\* deleteAWSInstance, whose error is only logged.
DeleteAWSInstance(i) ==
    /\ At(i, "delete")
    /\ Goto(i, "send")
    /\ \/ /\ deleteInstances = "on"
          /\ machine' = [machine EXCEPT ![host[i]] = "terminated"]
          /\ UNCHANGED terminateErr
       \/ /\ deleteInstances = "on"
          /\ terminateErr' = terminateErr \cup {i} /\ UNCHANGED machine
       \/ deleteInstances = "off" /\ UNCHANGED <<machine, terminateErr>>
    /\ UNCHANGED <<host, result, keys>>

-----------------------------------------------------------------------------
(***************************************************************************)
(* The main goroutine of RunRemoteTestSuite, and SIGINT.                   *)
(***************************************************************************)
NumTests_OneMore == Cardinality(Images) + 1    \* fault: StartTests miscounts
NumTests == Cardinality(Images)

ExitOk_LastWins(r) == IF r = "ok" THEN "yes" ELSE "no"   \* fault: no conjunction
ExitOk(r) == IF exitOk = "yes" /\ r = "ok" THEN "yes" ELSE "no"

\* results <- testAWSImage(...) and tr := <-results, a rendezvous.
SendResult(i) ==
    /\ At(i, "send") /\ received < NumTests
    /\ received' = received + 1
    /\ exitOk' = ExitOk(result[i])
    /\ Goto(i, "done")
    /\ UNCHANGED <<flags, host, result, machine, keys, terminateErr, interrupts, proc>>

Exit ==
    /\ proc = "running" /\ received = NumTests
    /\ proc' = IF exitOk = "yes" THEN "exit0" ELSE "exit1"
    /\ UNCHANGED <<flags, pc, host, result, machine, keys, terminateErr, received, exitOk,
                   interrupts>>

HandlerExits_OnThird == interrupts = 2   \* fault: one receive too many
HandlerExits == interrupts = 1

\* The first SIGINT is ignored, the second exits on the spot.
Interrupt ==
    /\ proc = "running"
    /\ interrupts' = interrupts + 1
    /\ proc' = IF HandlerExits THEN "killed" ELSE proc
    /\ UNCHANGED <<flags, pc, host, result, machine, keys, terminateErr, received, exitOk>>

TestAWSImage(i) ==
    \/ /\ \/ FindInstance(i) \/ LaunchNewInstance(i) \/ WaitRunning(i)
          \/ AssignNewSSHKey(i) \/ ProbeContainerd(i)
          \/ RunRemote(i) \/ RemoveKeyFile(i)
       /\ UNCHANGED <<flags, terminateErr, main, interrupts>>
    \/ DeleteAWSInstance(i) /\ UNCHANGED <<flags, main, interrupts>>
    \/ SendResult(i)

Ended == proc # "running" /\ UNCHANGED vars

Next == (\E i \in Images : TestAWSImage(i)) \/ Exit \/ Interrupt \/ Ended

Spec == Init /\ [][Next]_vars

\* Go schedules every goroutine; the poll loop and every remote call return.
FairSpec == Spec /\ WF_vars(Exit) /\ \A i \in Images : WF_vars(TestAWSImage(i))

-----------------------------------------------------------------------------
(***************************************************************************)
(* Properties.                                                             *)
(***************************************************************************)
TypeOK ==
    /\ {reuse, deleteInstances, connect} \subseteq {"on", "off"}
    /\ ami \in [Instances -> AMIs]
    /\ pc \in [Images -> {"find", "launch", "wait", "key", "probe", "run", "remove", "delete",
                          "send", "done"}]
    /\ host \in [Images -> Instances \cup {None}]
    /\ result \in [Images -> {"none", "ok", "err", "noHost"}]
    /\ machine \in [Instances -> {"none", "running", "terminated"}]
    /\ overrides \in [Instances -> Images \cup {None}]
    /\ files \subseteq Images /\ litter \subseteq Images /\ terminateErr \subseteq Images
    /\ received \in 0 .. Cardinality(Images)
    /\ exitOk \in {"yes", "no"}
    /\ interrupts \in 0 .. 2
    /\ proc \in {"running", "exit0", "exit1", "killed"}

Exited == proc \in {"exit0", "exit1"}

\* While a suite runs, its instance is up and can be reached with the key registered
\* for it, and without reuse-instances the instance is its own.  With the flag a suite
\* may lose its instance or its key, but only to a test it shares the instance with,
\* whose own suite is over.
TestsAreIsolated ==
    \A i \in Images : pc[i] = "run" =>
        /\ reuse = "off" => host[i] = i /\ SSHWorks(i)
        /\ ~SSHWorks(i) => \E j \in Images \ {i} :
              /\ host[j] = host[i]
              /\ pc[j] \in {"delete", "send", "done"} /\ result[j] \in {"ok", "err"}

\* The exit status is about every image: zero only if all suites passed, in
\* whatever order the results came.
StatusCoversEveryTest ==
    /\ proc = "exit0" => \A i \in Images : result[i] = "ok"
    /\ proc = "exit1" => \E i \in Images : result[i] # "ok"

\* The process does not exit under a goroutine at work: at exit the main goroutine
\* has the result of every test, and each whose instance came up has removed the key
\* file it used and, if told to, asked EC2 to terminate the instance.
CleanUpPrecedesExit ==
    Exited => \A i \in Images :
        /\ pc[i] = "done"
        /\ result[i] # "noHost" =>
            /\ i \notin files
            /\ deleteInstances = "on" =>
                  machine[host[i]] = "terminated" \/ i \in terminateErr

\* Every run comes to its end.
RunEnds == <>(proc # "running")

\* What the flag delete-instances says, "If true, delete any instances created":
\* an instance that never came up is created all the same, and getAWSInstance
\* returns its error before testAWSImage defers the deletion.
DeletesAllCreated ==
    Exited /\ deleteInstances = "on" /\ terminateErr = {} =>
        \A i \in Images : machine[i] # "running"
=============================================================================
