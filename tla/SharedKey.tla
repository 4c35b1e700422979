------------------------------ MODULE SharedKey ------------------------------
(***************************************************************************)
(* What the checks of the machines promise about the key pair they share,  *)
(* whoever makes it and whatever fails on the way: the pair on disk may be *)
(* replaced until the first machine trusts it, a machine only ever comes   *)
(* to trust that pair, whole and with halves that belong together, and a   *)
(* check that needs the key finds a machine running only when the machine  *)
(* trusts it.  Each check has one verdict.                                 *)
(***************************************************************************)
EXTENDS Integers

CONSTANTS Nodes,   \* the machines under check
          Key      \* the numbers that stand for a half that can be read

VARIABLES needed,    \* "yes" if the checks hand out the shared key
          pair,      \* the files: <<private half, public half>>
          trusted,   \* the shared keys in the authorized_keys of each machine
          verdict    \* of each check: "none", "running" or "failed"

sharedVars == <<needed, pair, trusted, verdict>>

Init ==
    /\ needed \in {"yes", "no"}
    /\ pair \in Int \X Int
    /\ trusted = [n \in Nodes |-> {}]
    /\ verdict = [n \in Nodes |-> "none"]

\* A pair is made, or half of one, while nobody trusts what it replaces.
Write ==
    /\ \A n \in Nodes : trusted[n] = {}
    /\ pair' \in Int \X Int
    /\ UNCHANGED <<needed, trusted, verdict>>

Trust(n) ==
    /\ verdict[n] = "none"
    /\ pair[1] = pair[2] /\ pair[1] \in Key
    /\ trusted' = [trusted EXCEPT ![n] = {pair[1]}]
    /\ UNCHANGED <<needed, pair, verdict>>

Return(n) ==
    /\ verdict[n] = "none"
    /\ \/ verdict' = [verdict EXCEPT ![n] = "failed"]
       \/ /\ needed = "yes" => trusted[n] # {}
          /\ verdict' = [verdict EXCEPT ![n] = "running"]
    /\ UNCHANGED <<needed, pair, trusted>>

Next == Write \/ \E n \in Nodes : Trust(n) \/ Return(n)

Spec == Init /\ [][Next]_sharedVars

\* All machines that trust a shared key trust the pair on disk, and so do all that
\* were found running where the key is needed.
OneKey ==
    \A n \in Nodes :
        /\ trusted[n] # {} => pair[1] = pair[2] /\ trusted[n] = {pair[1]}
        /\ needed = "yes" /\ verdict[n] = "running" => trusted[n] # {}
=============================================================================
