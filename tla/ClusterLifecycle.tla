-------------------------- MODULE ClusterLifecycle --------------------------
(***************************************************************************)
(* What one run of the deployer promises about its machines, whatever      *)
(* goroutine does the work: machines are launched in the order of the      *)
(* images and only while Up is undecided; Up is declared good only when    *)
(* every machine has been checked; a machine is only ever terminated, and  *)
(* never comes back.                                                       *)
(***************************************************************************)
EXTENDS Integers

CONSTANT NumNodes   \* a natural number

Image == 0 .. NumNodes

VARIABLES machine,   \* Image -> {"none", "live", "gone"}
          checked,   \* machines found running, with their node services up
          verdict    \* of Up: "pending", "up" or "failed"

lifecycleVars == <<machine, checked, verdict>>

Init ==
    /\ machine = [i \in Image |-> "none"]
    /\ checked = {}
    /\ verdict = "pending"

\* Launches go in image order and stop with the verdict.
Launch(i) ==
    /\ verdict = "pending"
    /\ machine[i] = "none"
    /\ \A j \in 0 .. i - 1 : machine[j] # "none"
    /\ machine' = [machine EXCEPT ![i] = "live"]
    /\ UNCHANGED <<checked, verdict>>

PassCheck(i) ==
    /\ machine[i] # "none"
    /\ checked' = checked \cup {i}
    /\ UNCHANGED <<machine, verdict>>

Decide ==
    /\ verdict = "pending"
    /\ \/ verdict' = "failed"
       \/ verdict' = "up" /\ checked = Image
    /\ UNCHANGED <<machine, checked>>

Terminate(i) ==
    /\ machine[i] # "none"
    /\ machine' = [machine EXCEPT ![i] = "gone"]
    /\ UNCHANGED <<checked, verdict>>

Next == \/ \E i \in Image : Launch(i) \/ PassCheck(i) \/ Terminate(i)
        \/ Decide

Spec == Init /\ [][Next]_lifecycleVars
=============================================================================
