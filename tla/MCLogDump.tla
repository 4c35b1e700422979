----------------------------- MODULE MCLogDump ------------------------------
(***************************************************************************)
(* LogDump with the command lines that differ for the dumps: Up with Down, *)
(* Up without Down, and Down without Up.  The run of Deployer has all.     *)
(***************************************************************************)
EXTENDS LogDump

MCFlags(build, up, test, down) ==
    opts = [build |-> build, up |-> up, test |-> test, down |-> down]

MCLogInit ==
    /\ LogInit
    /\ \/ MCFlags(TRUE, TRUE, FALSE, TRUE) /\ kubeconfig = "path" /\ logsDir # "present"
       \/ MCFlags(FALSE, TRUE, FALSE, FALSE) /\ kubeconfig = "unset"
       \/ MCFlags(TRUE, FALSE, TRUE, TRUE) /\ kubeconfig = "path"

MCLogSpec == MCLogInit /\ [][LogNext]_logVars /\ LogFairness
=============================================================================
