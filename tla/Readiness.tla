----------------------------- MODULE Readiness -----------------------------
(***************************************************************************)
(* The end of Up: every instance passed its check, and Up now waits for    *)
(* the cluster (nodes, their readiness, cloud-init of the control plane,   *)
(* the external cloud provider) while the cluster changes under it.  None  *)
(* of the waits has a result Up acts on: a failure is logged, and running  *)
(* out of polls for the nodes is not even that.                            *)
(*                                                                         *)
(* Node 0 is the control plane.  The instances of the cloud controller     *)
(* manager pod are numbered, 0 is none.                                    *)
(***************************************************************************)
EXTENDS Naturals, FiniteSets

CONSTANTS NumNodes,   \* the flag --num-nodes: workers
          MaxPolls,   \* polls of each waiting loop (30 in the code)
          MaxPods     \* bound: how often the provider pod is created

ASSUME ReadinessAssumption ==
    NumNodes \in Nat /\ MaxPolls \in Nat \ {0} /\ MaxPods \in Nat \ {0}

Node == 0 .. NumNodes

VARIABLES
    kubeconfig,    \* the file kubectl gets: of "ours" or a "foreign" cluster
    external,      \* the flag ExternalCloudProvider: "on" or "off"
    registered,    \* nodes the API server knows
    ready,         \* nodes that are Ready now
    wereReady,     \* nodes that have been Ready at some time
    cloudInit,     \* cloud-init of the control plane: "running", "done", "error"
    pod, podsReady,\* the provider pod now, and the ones that were Ready once
    pc,            \* the main goroutine in the end of Up
    polls,         \* iterations of the current loop
    targets,       \* nodes "kubectl wait nodes --all" still waits for
    podName,       \* controllerPodName
    nodesShort,    \* "yes" if waitForKubectlNodes used up its polls
    logged         \* "yes" if one of the waits logged an error or a warning

nodeVars == <<registered, ready, wereReady>>
podVars == <<pod, podsReady>>
clusterVars == <<nodeVars, cloudInit, podVars>>
flags == <<kubeconfig, external>>
upVars == <<pc, polls, targets, podName, nodesShort, logged>>
vars == <<flags, clusterVars, upVars>>

\* The check of the control plane saw its own node; --kubeconfig may name
\* the cluster of somebody else.
Init ==
    /\ kubeconfig \in {"ours", "foreign"} /\ external \in {"on", "off"}
    /\ registered \in {S \in SUBSET Node : 0 \in S}
    /\ ready = {} /\ wereReady = {}
    /\ cloudInit = "running" /\ pod = 0 /\ podsReady = {}
    /\ pc = "nodes" /\ polls = 0 /\ targets = {} /\ podName = 0
    /\ nodesShort = "no" /\ logged = "no"

-----------------------------------------------------------------------------
(***************************************************************************)
(* What kubectl reports.  It may fail at any time; a foreign cluster has   *)
(* any number of nodes and pods, in any condition.                         *)
(***************************************************************************)
NodeCounts ==
    IF kubeconfig = "ours" THEN {Cardinality(registered)} ELSE 0 .. NumNodes + 2
NodesToWaitFor == IF kubeconfig = "ours" THEN registered ELSE {}
Pods == IF kubeconfig = "ours" THEN {pod} ELSE 0 .. MaxPods
WasReady(n) == n \in ready
PodIsReady == kubeconfig = "foreign" \/ (pod = podName /\ pod \in podsReady)

\* The loops go on; a wait ends and the next one starts.
LoopGoesOn_OneMore == polls <= MaxPolls           \* fault: off by one
LoopGoesOn == polls < MaxPolls
PollAgain_NotCounted == UNCHANGED <<pc, polls>>   \* fault: retries without a bound
PollAgain == polls' = polls + 1 /\ UNCHANGED pc
Proceed(label) == pc' = label /\ polls' = 0

\* A wait that failed is logged; Up goes on.
LogIt == logged' = "yes"

-----------------------------------------------------------------------------
EnoughNodes_AnyMore(c) == c >= 1                  \* fault: any node will do
EnoughNodes(c) == c = NumNodes + 1

\* One iteration of waitForKubectlNodes.
CountNodes ==
    /\ pc = "nodes" /\ LoopGoesOn
    /\ \/ LogIt /\ Proceed("ready")
       \/ /\ UNCHANGED logged
          /\ \E c \in NodeCounts :
                IF EnoughNodes(c) THEN Proceed("ready") ELSE PollAgain
    /\ UNCHANGED <<flags, clusterVars, targets, podName, nodesShort>>

CountingEnds ==
    /\ pc = "nodes" /\ polls = MaxPolls
    /\ nodesShort' = "yes" /\ Proceed("ready")
    /\ UNCHANGED <<flags, clusterVars, targets, podName, logged>>

-----------------------------------------------------------------------------
\* waitForKubectlNodesToBeReady: "kubectl wait --all" lists the nodes once and
\* waits for each of them in turn; without a node it fails.
ListNodesToWaitFor ==
    /\ pc = "ready"
    /\ \/ targets' = NodesToWaitFor /\ pc' = "kubectlWait" /\ UNCHANGED logged
       \/ pc' = "cloudInit" /\ LogIt /\ UNCHANGED targets
    /\ UNCHANGED <<flags, clusterVars, polls, podName, nodesShort>>

NodeIsReady ==
    /\ pc = "kubectlWait"
    /\ \E n \in targets : WasReady(n) /\ targets' = targets \ {n}
    /\ UNCHANGED <<flags, clusterVars, pc, polls, podName, nodesShort, logged>>

KubectlWaitEnds ==
    /\ pc = "kubectlWait" /\ pc' = "cloudInit"
    /\ \/ targets = {} /\ UNCHANGED logged
       \/ LogIt
    /\ UNCHANGED <<flags, clusterVars, polls, targets, podName, nodesShort>>

-----------------------------------------------------------------------------
AfterCloudInit == Proceed(IF external = "on" THEN "pods" ELSE "returned")

\* The output contains "status: done".
StatusIsDone == cloudInit = "done"

\* One iteration of waitForCloudInitComplete; Up logs its error.
CloudInitStatus ==
    /\ pc = "cloudInit" /\ LoopGoesOn
    /\ \/ PollAgain /\ UNCHANGED logged                   \* ssh failed
       \/ StatusIsDone /\ AfterCloudInit /\ UNCHANGED logged
       \/ ~StatusIsDone /\ cloudInit = "error" /\ AfterCloudInit /\ LogIt
       \/ cloudInit = "running" /\ PollAgain /\ UNCHANGED logged
    /\ UNCHANGED <<flags, clusterVars, targets, podName, nodesShort>>

CloudInitTimesOut ==
    /\ pc = "cloudInit" /\ polls = MaxPolls
    /\ AfterCloudInit /\ LogIt
    /\ UNCHANGED <<flags, clusterVars, targets, podName, nodesShort>>

-----------------------------------------------------------------------------
\* One iteration of waitForExternalProviderPods.
ListPods ==
    /\ pc = "pods" /\ LoopGoesOn
    /\ \/ Proceed("returned") /\ LogIt /\ UNCHANGED podName
       \/ /\ UNCHANGED logged
          /\ \E q \in Pods :
               \/ q = 0 /\ PollAgain /\ UNCHANGED podName
               \/ q # 0 /\ podName' = q /\ Proceed("podWait")
    /\ UNCHANGED <<flags, clusterVars, targets, nodesShort>>

ListingPodsEnds ==
    /\ pc = "pods" /\ polls = MaxPolls
    /\ Proceed("podWait")
    /\ UNCHANGED <<flags, clusterVars, targets, podName, nodesShort, logged>>

\* kubectl waits for the pod listed first; it fails when that one is gone by
\* now, does not get Ready in time, or none was found.
WaitForPod ==
    /\ pc = "podWait" /\ Proceed("returned")
    /\ \/ podName # 0 /\ PodIsReady /\ UNCHANGED logged
       \/ LogIt
    /\ UNCHANGED <<flags, clusterVars, targets, podName, nodesShort>>

Up ==
    \/ CountNodes \/ CountingEnds
    \/ ListNodesToWaitFor \/ NodeIsReady \/ KubectlWaitEnds
    \/ CloudInitStatus \/ CloudInitTimesOut
    \/ ListPods \/ ListingPodsEnds \/ WaitForPod

-----------------------------------------------------------------------------
(***************************************************************************)
(* The cluster: workers join or not, conditions change, the user data      *)
(* script ends, the pod is created, gets Ready and is replaced.            *)
(***************************************************************************)
Join ==
    /\ \E n \in Node \ registered : registered' = registered \cup {n}
    /\ UNCHANGED <<flags, upVars, ready, wereReady, cloudInit, podVars>>

ReadyCondition ==
    /\ \E n \in registered :
         \/ ready' = ready \cup {n} /\ wereReady' = wereReady \cup {n}
         \/ ready' = ready \ {n} /\ UNCHANGED wereReady
    /\ UNCHANGED <<flags, upVars, registered, cloudInit, podVars>>

CloudInitEnds ==
    /\ cloudInit = "running" /\ cloudInit' \in {"done", "error"}
    /\ UNCHANGED <<flags, upVars, nodeVars, podVars>>

ProviderPod ==
    /\ \/ pod < MaxPods /\ pod' = pod + 1 /\ UNCHANGED podsReady
       \/ pod # 0 /\ podsReady' = podsReady \cup {pod} /\ UNCHANGED pod
    /\ UNCHANGED <<flags, upVars, nodeVars, cloudInit>>

Next == Up \/ Join \/ ReadyCondition \/ CloudInitEnds \/ ProviderPod

Spec == Init /\ [][Next]_vars

-----------------------------------------------------------------------------
TypeOK ==
    /\ kubeconfig \in {"ours", "foreign"} /\ external \in {"on", "off"}
    /\ registered \subseteq Node /\ ready \subseteq Node /\ wereReady \subseteq Node
    /\ cloudInit \in {"running", "done", "error"}
    /\ pod \in 0 .. MaxPods /\ podsReady \subseteq 1 .. MaxPods
    /\ pc \in {"nodes", "ready", "kubectlWait", "cloudInit", "pods", "podWait",
               "returned"}
    /\ polls \in 0 .. MaxPolls
    /\ targets \subseteq Node /\ podName \in 0 .. MaxPods
    /\ nodesShort \in {"no", "yes"}
    /\ logged \in {"no", "yes"}

(***************************************************************************)
(* What a silent Up is worth.  When no wait logged anything and kubectl    *)
(* spoke to the cluster just made, every node that took part in the wait   *)
(* has been Ready, all of them unless the count used up its polls, the     *)
(* post-install script ended well, and the external provider's pod that    *)
(* was found has been Ready.  (They need not be Ready still.)              *)
(***************************************************************************)
SilentUpWasReady ==
    pc = "returned" /\ logged = "no" /\ kubeconfig = "ours" =>
        /\ nodesShort = "no" => wereReady = Node
        /\ 0 \in wereReady
        /\ cloudInit = "done"
        /\ external = "on" => podName \in podsReady
=============================================================================
