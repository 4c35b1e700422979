------------------------------ MODULE LogDump -------------------------------
(***************************************************************************)
(* A run of kubetest2-ec2 with its log dumps.  DumpClusterLogs runs in     *)
(* every goroutine whose check failed, in Up when an instance cannot be    *)
(* launched, and at the head of each Down; it works on runner.instances    *)
(* and on one directory, with nothing to keep the goroutines apart.        *)
(*                                                                         *)
(* The steps of Deployer are taken as they are, except that each waits for *)
(* the dump its goroutine makes first.  Of the seven files a dump writes   *)
(* for an instance the last, journal.log, stands for all.                  *)
(***************************************************************************)
EXTENDS Deployer

\* The dumps a run may make, as numbers: i by the goroutine that checks instance
\* i, one by Up over a failed launch, and one by each of the two that call Down.
UpDump == -1
Of(w) == IF w = "main" THEN -2 ELSE -3
Dumper == Image \cup {UpDump} \cup {Of(w) : w \in Downer}

VARIABLES
    logsDir,   \* artifacts/logs: "absent", "present" or "impossible" (no parent)
    log,       \* journal.log: "none" if nobody tried to write it, else what came of it
    dump       \* where each dump is: [at, next, len, seen]

dumpVars == <<logsDir, log, dump>>
logVars == <<vars, dumpVars>>

NoDump == [at |-> "idle", next |-> 0, len |-> 0, seen |-> 0]

LogInit ==
    /\ Init
    /\ logsDir \in {"absent", "present", "impossible"}
    /\ log = [i \in Image |-> "none"]
    /\ dump = [d \in Dumper |-> NoDump]

Idle(d) == dump[d].at = "idle"
Dumped_NotAwaited(d) == TRUE             \* fault: the dump runs on its own
Dumped(d) == dump[d].at \in {"done", "failed"}

-----------------------------------------------------------------------------
(***************************************************************************)
(* DumpClusterLogs.                                                        *)
(***************************************************************************)

\* Where it is called: a check or a launch that is going to fail, or Down.
Calls(d) ==
    \/ d \in Image /\ CheckAt(d, "checking")
    \/ d = UpDump /\ (At("create") \/ At("launched"))
    \/ \E w \in Downer : d = Of(w) /\ DownAt(w, {"started"})

Moved(d, label) == [dump EXCEPT ![d].at = label]

StatPasses_Fresh == FALSE                \* fault: an existing directory is an error
StatPasses == logsDir = "present"

\* os.Stat of the log directory.
Stat(d) ==
    /\ Calls(d) /\ Idle(d)
    /\ dump' = Moved(d, IF StatPasses THEN "pods" ELSE "mkdir")
    /\ UNCHANGED <<logsDir, log>>

\* os.Mkdir fails without a parent, and when another goroutine came first.
Mkdir(d) ==
    /\ proc = "running" /\ dump[d].at = "mkdir"
    /\ \/ logsDir = "absent" /\ logsDir' = "present" /\ dump' = Moved(d, "pods")
       \/ logsDir # "absent" /\ dump' = Moved(d, "failed") /\ UNCHANGED logsDir
    /\ UNCHANGED log

\* dumpVPCCNILogs and the six loops after it range over d.runner.instances, which
\* takes a runner.  They make directories and files that are not followed here, and
\* whatever fails in them they only log.  range fixes the length of each loop when it
\* begins, so that of the loop over the journals is fixed at the end of theirs.
DumpOthers(d) ==
    /\ proc = "running" /\ dump[d].at = "pods" /\ runner = "set"
    /\ dump' = [dump EXCEPT ![d].at = "journal", ![d].len = instances, ![d].seen = instances]
    /\ UNCHANGED <<logsDir, log>>

\* What ssh returned is written whether it worked or not: the machine's logs ("up"),
\* or, with an error, what was printed before it, be it that the machine was up
\* and ssh did not get through or its command failed ("lost"), or that the machine
\* was gone ("down").
SSH(i) == IF cloud[i] = "live" THEN {"up", "lost"} ELSE {"down"}

\* os.Create truncates the file of an earlier dump.  It fails when the directory of
\* the instance could not be made, or for reasons of its own: what ssh returned is
\* dropped then, and the file stays as it was.
Written(i) == SSH(i) \cup {IF log[i] = "none" THEN "lost" ELSE log[i]}

\* dumpRemoteLogs, instance by instance.
DumpRemoteLogs(d) ==
    /\ proc = "running" /\ dump[d].at = "journal"
    /\ LET i == dump[d].next IN
       \/ /\ i < dump[d].len
          /\ \E content \in Written(i) : log' = [log EXCEPT ![i] = content]
          /\ dump' = [dump EXCEPT ![d].next = i + 1]
       \/ /\ i = dump[d].len
          /\ dump' = [dump EXCEPT ![d].at = "done", ![d].next = 0, ![d].len = 0]
          /\ UNCHANGED log
    /\ UNCHANGED logsDir

DumpClusterLogs(d) ==
    /\ Stat(d) \/ Mkdir(d) \/ DumpOthers(d) \/ DumpRemoteLogs(d)
    /\ UNCHANGED vars

-----------------------------------------------------------------------------
(***************************************************************************)
(* The steps of Deployer around the dumps.                                 *)
(***************************************************************************)

\* A launch that fails is dumped first, one that succeeds is not.
Launch ==
    /\ RunInstances \/ RecordInstance
    /\ IF upErr' = "err" THEN Dumped(UpDump) ELSE Idle(UpDump)
    /\ UNCHANGED dumpVars

\* Down of a nil runner panics in the dump's first loop, or after a failed dump.
DownLogged(w) ==
    /\ \/ DownStart(w) /\ (Dumped(Of(w)) \/ (runner = "nil" /\ dump[Of(w)].at = "pods"))
       \/ Terminate(w) \/ DownDone(w)
    /\ UNCHANGED dumpVars

LoggedMain ==
    \/ Launch \/ DownLogged("main") \/ DumpClusterLogs(UpDump) \/ DumpClusterLogs(Of("main"))
    \/ /\ \/ Build \/ SkipUp \/ EnterUp \/ StartCheck \/ StartWaiter \/ SelectDone
          \/ (\E i \in Image : SelectError(i)) \/ CloseFatalErrors
          \/ Test \/ DeferredDown \/ DownReturned \/ Finish
       /\ UNCHANGED dumpVars

LoggedCheck(i) ==
    \/ DumpClusterLogs(i)
    \/ /\ \/ CheckPasses(i) /\ Idle(i)
          \/ CheckFails(i) /\ Dumped(i)
          \/ DownloadKubeConfig(i) \/ SendPanics(i) \/ CheckReturns(i)
       /\ UNCHANGED dumpVars

LoggedDown == DownLogged("handler") \/ DumpClusterLogs(Of("handler"))

LogNext ==
    \/ LoggedMain
    \/ \E i \in Image : LoggedCheck(i)
    \/ LoggedDown
    \/ (CloseWgDone \/ Interrupt \/ HandlerExits \/ Ended) /\ UNCHANGED dumpVars

LogSpec == LogInit /\ [][LogNext]_logVars

\* What goes on of itself: all but a signal.
Runs ==
    \/ LoggedMain \/ LoggedDown \/ \E i \in Image : LoggedCheck(i)
    \/ (CloseWgDone \/ HandlerExits) /\ UNCHANGED dumpVars

\* While some goroutine can run, Go runs one, and every ssh and scp of a dump returns.
\* No goroutine needs to be favoured: none of them goes on for ever.
LogFairness == WF_logVars(Runs)

-----------------------------------------------------------------------------
(***************************************************************************)
(* Properties.                                                             *)
(***************************************************************************)

\* A machine is not terminated before its logs were asked for.  When they are not
\* there, the Down that terminated it had a dump that failed, or one whose loop began
\* before Up recorded the machine; or that dump did ask, and ssh or the file failed;
\* or a rival's dump has overwritten since what it wrote.
Working == {"mkdir", "pods", "journal"}
Writers(w) == {d \in Dumper \ {Of(w)} : dump[d].at \in {"journal", "done"}}
LogsBeforeTermination ==
    \A i \in Image : cloud[i] = "gone" /\ log[i] # "up" =>
        \E w \in Downer :
            /\ i < dnext[w] /\ dump[Of(w)].at \notin Working \cup {"idle"}
            /\ \/ dump[Of(w)].at = "failed"
               \/ i >= dump[Of(w)].seen
               \/ log[i] = "lost"
               \/ log[i] = "down" /\ Writers(w) # {}

\* A dump fails because there is no place for logs, or because the goroutine
\* that won the race for the directory is dumping, or has dumped, itself.
FailedDumpHasRival ==
    \A d \in Dumper : dump[d].at = "failed" =>
        \/ logsDir = "impossible"
        \/ \E e \in Dumper \ {d} : dump[e].at \in {"pods", "journal", "done"}
=============================================================================
