-------------------------- MODULE ReadinessProofs --------------------------
(***************************************************************************)
(* Theorems about Readiness, for any number of workers, polls and pods.    *)
(* The inductive invariant says what each wait has left true behind it, as *)
(* long as it logged nothing.                                              *)
(***************************************************************************)
EXTENDS Readiness, FiniteSetTheorems, TLAPS

AfterNodes == {"ready", "kubectlWait", "cloudInit", "pods", "podWait", "returned"}
AfterReady == {"cloudInit", "pods", "podWait", "returned"}
AfterCloud == {"pods", "podWait", "returned"}

\* The nodes took part in the count.
Counted == kubeconfig = "ours" /\ logged = "no" /\ nodesShort = "no"

\* kubectl waited for every node it listed.
Waited == kubeconfig = "ours" /\ logged = "no"

NodesInv ==
    /\ 0 \in registered
    /\ pc \in AfterNodes /\ Counted => registered = Node
    /\ pc = "kubectlWait" /\ kubeconfig = "ours" => 0 \in targets \cup wereReady
    /\ pc = "kubectlWait" /\ Counted => Node \subseteq targets \cup wereReady
    /\ pc \in AfterReady /\ Waited => 0 \in wereReady
    /\ pc \in AfterReady /\ Waited /\ Counted => Node \subseteq wereReady

CloudInv ==
    pc \in AfterCloud /\ logged = "no" => cloudInit = "done"

PodInv ==
    /\ pc \in {"pods", "podWait"} => external = "on"
    /\ pc = "returned" /\ external = "on" /\ kubeconfig = "ours" /\ logged = "no"
         => podName \in podsReady

Typed == TypeOK /\ ready \subseteq wereReady

IInv == Typed /\ NodesInv /\ CloudInv /\ PodInv

\* A set of nodes as large as Node is Node.
LEMMA AllCounted ==
    ASSUME NEW S \in SUBSET Node, Cardinality(S) = NumNodes + 1
    PROVE  S = Node
<1>1. IsFiniteSet(Node) /\ Cardinality(Node) = NumNodes + 1
  <2>1. 0 \in Int /\ NumNodes \in Int /\ 0 <= NumNodes
      BY ReadinessAssumption
  <2>2. Cardinality(0 .. NumNodes) = NumNodes - 0 + 1 /\ IsFiniteSet(0 .. NumNodes)
      BY <2>1, FS_Interval
  <2>3. QED
      BY <2>1, <2>2 DEF Node
<1>2. S # Node => Cardinality(S) < Cardinality(Node)
    BY <1>1, FS_Subset
<1>3. QED
    BY <1>1, <1>2, ReadinessAssumption

-----------------------------------------------------------------------------
LEMMA InitIInv == Init => IInv
<1> SUFFICES ASSUME Init PROVE IInv
    OBVIOUS
<1> USE ReadinessAssumption DEF Init
<1>1. Typed
    BY DEF Typed, TypeOK
<1>2. NodesInv
    BY DEF NodesInv, AfterNodes, AfterReady
<1>3. CloudInv /\ PodInv
    BY DEF CloudInv, PodInv, AfterCloud
<1>4. QED
    BY <1>1, <1>2, <1>3 DEF IInv

LEMMA TypedStep == Typed /\ [Next]_vars => Typed'
<1> SUFFICES ASSUME Typed, [Next]_vars PROVE Typed'
    OBVIOUS
<1> USE ReadinessAssumption
    DEF Typed, TypeOK, flags, clusterVars, nodeVars, podVars, upVars,
        LoopGoesOn, PollAgain, Proceed, LogIt
<1>1. CASE UNCHANGED vars
    BY <1>1 DEF vars
<1>2. CASE CountNodes
  <2>1. polls' \in 0 .. MaxPolls
      BY <1>2 DEF CountNodes
  <2>2. pc' \in {"nodes"} \cup AfterNodes
      BY <1>2 DEF CountNodes, AfterNodes
  <2>3. logged' \in {"no", "yes"}
      BY <1>2 DEF CountNodes
  <2>9. QED
      BY <1>2, <2>1, <2>2, <2>3 DEF CountNodes, AfterNodes
<1>3. CASE CountingEnds
    BY <1>3 DEF CountingEnds
<1>4. CASE ListNodesToWaitFor
    BY <1>4 DEF ListNodesToWaitFor, NodesToWaitFor
<1>5. CASE NodeIsReady
    BY <1>5 DEF NodeIsReady
<1>6. CASE KubectlWaitEnds
    BY <1>6 DEF KubectlWaitEnds
<1>7. CASE CloudInitStatus
  <2>1. polls' \in 0 .. MaxPolls
      BY <1>7 DEF CloudInitStatus, AfterCloudInit
  <2>2. pc' \in {"nodes"} \cup AfterNodes
      BY <1>7 DEF CloudInitStatus, AfterCloudInit, AfterNodes
  <2>3. logged' \in {"no", "yes"}
      BY <1>7 DEF CloudInitStatus, AfterCloudInit
  <2>9. QED
      BY <1>7, <2>1, <2>2, <2>3 DEF CloudInitStatus, AfterCloudInit, AfterNodes
<1>8. CASE CloudInitTimesOut
    BY <1>8 DEF CloudInitTimesOut, AfterCloudInit
<1>9. CASE ListPods
  <2>1. polls' \in 0 .. MaxPolls
      BY <1>9 DEF ListPods
  <2>2. pc' \in {"nodes"} \cup AfterNodes
      BY <1>9 DEF ListPods, AfterNodes
  <2>3. logged' \in {"no", "yes"}
      BY <1>9 DEF ListPods
  <2>4. podName' \in 0 .. MaxPods
      BY <1>9 DEF ListPods, Pods
  <2>9. QED
      BY <1>9, <2>1, <2>2, <2>3, <2>4 DEF ListPods, AfterNodes
<1>10. CASE ListingPodsEnds
    BY <1>10 DEF ListingPodsEnds
<1>11. CASE WaitForPod
  <2>1. polls' \in 0 .. MaxPolls
      BY <1>11 DEF WaitForPod
  <2>2. pc' \in {"nodes"} \cup AfterNodes
      BY <1>11 DEF WaitForPod, AfterNodes
  <2>3. logged' \in {"no", "yes"}
      BY <1>11 DEF WaitForPod
  <2>9. QED
      BY <1>11, <2>1, <2>2, <2>3 DEF WaitForPod, AfterNodes
<1>12. CASE Join
    BY <1>12 DEF Join
<1>13. CASE ReadyCondition
    BY <1>13 DEF ReadyCondition
<1>14. CASE CloudInitEnds
    BY <1>14 DEF CloudInitEnds
<1>15. CASE ProviderPod
  <2>1. pod' \in 0 .. MaxPods /\ podsReady' \subseteq 1 .. MaxPods
    <3>1. CASE pod < MaxPods /\ pod' = pod + 1 /\ UNCHANGED podsReady
        BY <3>1
    <3>2. CASE pod # 0 /\ podsReady' = podsReady \cup {pod} /\ UNCHANGED pod
      <4>1. pod \in 1 .. MaxPods
          BY <3>2
      <4>2. QED
          BY <3>2, <4>1
    <3>3. QED
        BY <1>15, <3>1, <3>2 DEF ProviderPod
  <2>2. QED
      BY <1>15, <2>1 DEF ProviderPod
<1>16. QED
    BY <1>1, <1>2, <1>3, <1>4, <1>5, <1>6, <1>7, <1>8, <1>9, <1>10, <1>11, <1>12,
       <1>13, <1>14, <1>15 DEF Next, Up

LEMMA NodesStep == Typed /\ NodesInv /\ [Next]_vars => NodesInv'
<1> SUFFICES ASSUME Typed, NodesInv, [Next]_vars PROVE NodesInv'
    OBVIOUS
<1> USE ReadinessAssumption
    DEF Typed, TypeOK, NodesInv, Counted, Waited, AfterNodes, AfterReady, flags,
        clusterVars, nodeVars, podVars, upVars, Proceed, LogIt
<1>1. CASE UNCHANGED vars
    BY <1>1 DEF vars
<1>2. CASE CountNodes
  <2>1. pc' = "nodes" \/ (pc' = "ready" /\ (logged' = "yes" \/ kubeconfig # "ours"
                                           \/ registered = Node))
    <3>1. ASSUME NEW c \in NodeCounts, EnoughNodes(c), kubeconfig = "ours"
          PROVE  registered = Node
        BY <3>1, AllCounted DEF NodeCounts, EnoughNodes
    <3>2. QED
        BY <1>2, <3>1 DEF CountNodes, PollAgain
  <2>2. QED
      BY <1>2, <2>1 DEF CountNodes
<1>3. CASE CountingEnds
    BY <1>3 DEF CountingEnds
<1>4. CASE ListNodesToWaitFor
    BY <1>4 DEF ListNodesToWaitFor, NodesToWaitFor
<1>5. CASE NodeIsReady
    BY <1>5 DEF NodeIsReady, WasReady
<1>6. CASE KubectlWaitEnds
    BY <1>6 DEF KubectlWaitEnds
<1>7. CASE CloudInitStatus
    BY <1>7 DEF CloudInitStatus, AfterCloudInit, PollAgain
<1>8. CASE CloudInitTimesOut
    BY <1>8 DEF CloudInitTimesOut, AfterCloudInit
<1>9. CASE ListPods
    BY <1>9 DEF ListPods, PollAgain
<1>10. CASE ListingPodsEnds
    BY <1>10 DEF ListingPodsEnds
<1>11. CASE WaitForPod
    BY <1>11 DEF WaitForPod
<1>12. CASE Join
    BY <1>12 DEF Join
<1>13. CASE ReadyCondition
    BY <1>13 DEF ReadyCondition
<1>14. CASE CloudInitEnds
    BY <1>14 DEF CloudInitEnds
<1>15. CASE ProviderPod
    BY <1>15 DEF ProviderPod
<1>16. QED
    BY <1>1, <1>2, <1>3, <1>4, <1>5, <1>6, <1>7, <1>8, <1>9, <1>10, <1>11, <1>12,
       <1>13, <1>14, <1>15 DEF Next, Up

LEMMA CloudAndPodStep ==
    Typed /\ CloudInv /\ PodInv /\ [Next]_vars => CloudInv' /\ PodInv'
<1> SUFFICES ASSUME Typed, CloudInv, PodInv, [Next]_vars PROVE CloudInv' /\ PodInv'
    OBVIOUS
<1> USE DEF Typed, TypeOK, CloudInv, PodInv, AfterCloud, flags, clusterVars, nodeVars,
        podVars, upVars, Proceed, LogIt
<1>1. CASE UNCHANGED vars
    BY <1>1 DEF vars
<1>2. CASE CountNodes
    BY <1>2 DEF CountNodes, PollAgain
<1>3. CASE CountingEnds
    BY <1>3 DEF CountingEnds
<1>4. CASE ListNodesToWaitFor
    BY <1>4 DEF ListNodesToWaitFor
<1>5. CASE NodeIsReady
    BY <1>5 DEF NodeIsReady
<1>6. CASE KubectlWaitEnds
    BY <1>6 DEF KubectlWaitEnds
<1>7. CASE CloudInitStatus
    BY <1>7 DEF CloudInitStatus, AfterCloudInit, PollAgain, StatusIsDone
<1>8. CASE CloudInitTimesOut
    BY <1>8 DEF CloudInitTimesOut, AfterCloudInit
<1>9. CASE ListPods
    BY <1>9 DEF ListPods, PollAgain
<1>10. CASE ListingPodsEnds
    BY <1>10 DEF ListingPodsEnds
<1>11. CASE WaitForPod
    BY <1>11 DEF WaitForPod, PodIsReady
<1>12. CASE Join
    BY <1>12 DEF Join
<1>13. CASE ReadyCondition
    BY <1>13 DEF ReadyCondition
<1>14. CASE CloudInitEnds
    BY <1>14 DEF CloudInitEnds
<1>15. CASE ProviderPod
    BY <1>15 DEF ProviderPod
<1>16. QED
    BY <1>1, <1>2, <1>3, <1>4, <1>5, <1>6, <1>7, <1>8, <1>9, <1>10, <1>11, <1>12,
       <1>13, <1>14, <1>15 DEF Next, Up

LEMMA Inductive == Spec => []IInv
<1>1. IInv /\ [Next]_vars => IInv'
    BY TypedStep, NodesStep, CloudAndPodStep DEF IInv
<1>2. QED
    BY <1>1, InitIInv, PTL DEF Spec

-----------------------------------------------------------------------------
\* Every variable keeps its type; no loop polls more often than its bound.
THEOREM TypeCorrect == Spec => []TypeOK
<1>1. IInv => TypeOK
    BY DEF IInv, Typed
<1>2. QED
    BY <1>1, Inductive, PTL

\* An Up that logged nothing found the cluster ready, part by part.
THEOREM SilentUpCorrect == Spec => []SilentUpWasReady
<1>1. IInv => SilentUpWasReady
    BY DEF IInv, Typed, TypeOK, NodesInv, CloudInv, PodInv, SilentUpWasReady, Counted,
       Waited, AfterReady, AfterCloud
<1>2. QED
    BY <1>1, Inductive, PTL

-----------------------------------------------------------------------------
(***************************************************************************)
(* Why the waits end (UpEnds of Bootstrap), as far as single steps show    *)
(* it, whatever the cluster does.                                          *)
(***************************************************************************)

\* The steps still to come, at most: those of the waits that follow, and of the loop
\* that is on.
StepsAfter == [nodes |-> 2 * MaxPolls + NumNodes + 7, ready |-> 2 * MaxPolls + NumNodes + 6,
               kubectlWait |-> 2 * MaxPolls + 4, cloudInit |-> MaxPolls + 3,
               pods |-> 2, podWait |-> 1, returned |-> 0]
StepsInLoop == IF pc \in {"nodes", "cloudInit", "pods"} THEN MaxPolls - polls
               ELSE IF pc = "kubectlWait" THEN Cardinality(targets)
               ELSE 0
StepsToGo == StepsAfter[pc] + StepsInLoop

\* A step of Up brings it nearer to its return, and no step of the cluster moves it.
EveryStepCounts == StepsToGo' < StepsToGo \/ UNCHANGED upVars

\* The end of Up takes three rounds of polls, a step per node and seven more, at most.
Bounded == StepsToGo \in 0 .. 3 * MaxPolls + NumNodes + 7

\* The distances, one by one.
LEMMA Distances ==
    /\ StepsAfter["nodes"] = 2 * MaxPolls + NumNodes + 7
    /\ StepsAfter["ready"] = 2 * MaxPolls + NumNodes + 6
    /\ StepsAfter["kubectlWait"] = 2 * MaxPolls + 4
    /\ StepsAfter["cloudInit"] = MaxPolls + 3
    /\ StepsAfter["pods"] = 2 /\ StepsAfter["podWait"] = 1 /\ StepsAfter["returned"] = 0
  BY DEF StepsAfter

\* There are at most as many targets as nodes (kubectl wait --all).
LEMMA TargetsCounted ==
    ASSUME NEW S \in SUBSET Node
    PROVE  IsFiniteSet(S) /\ Cardinality(S) \in 0 .. NumNodes + 1
<1>1. IsFiniteSet(Node) /\ Cardinality(Node) = NumNodes + 1
  BY FS_Interval, ReadinessAssumption DEF Node
<1> QED
  BY <1>1, FS_Subset, FS_CardinalityType, ReadinessAssumption

\* Every wait of Up has a bound, and none starts over.
LEMMA StepCounts ==
    ASSUME TypeOK, Up
    PROVE  StepsToGo' < StepsToGo
<1> USE ReadinessAssumption, Distances DEF StepsToGo, StepsInLoop, Proceed, PollAgain, LoopGoesOn
<1>t. polls \in 0 .. MaxPolls /\ Cardinality(targets) \in 0 .. NumNodes + 1
      /\ MaxPolls \in Nat /\ NumNodes \in Nat
  BY TargetsCounted DEF TypeOK
<1>1. CASE CountNodes
  BY <1>1, <1>t DEF CountNodes
<1>2. CASE CountingEnds
  BY <1>2, <1>t DEF CountingEnds
<1>3. CASE ListNodesToWaitFor
  <2>1. NodesToWaitFor \in SUBSET Node
    BY DEF TypeOK, NodesToWaitFor
  <2>2. Cardinality(NodesToWaitFor) \in 0 .. NumNodes + 1
    BY <2>1, TargetsCounted
  <2> QED
    BY <1>3, <1>t, <2>2 DEF ListNodesToWaitFor
<1>4. CASE NodeIsReady
  <2>1. PICK n \in targets : targets' = targets \ {n} /\ pc = "kubectlWait" /\ pc' = pc
    BY <1>4 DEF NodeIsReady
  <2>2. IsFiniteSet(targets)
    BY TargetsCounted DEF TypeOK
  <2>3. Cardinality(targets') = Cardinality(targets) - 1
    BY <2>1, <2>2, FS_RemoveElement
  <2> QED
    BY <2>1, <2>3, <1>t
<1>5. CASE KubectlWaitEnds
  BY <1>5, <1>t DEF KubectlWaitEnds
<1>6. CASE CloudInitStatus
  BY <1>6, <1>t DEF CloudInitStatus, AfterCloudInit
<1>7. CASE CloudInitTimesOut
  BY <1>7, <1>t DEF CloudInitTimesOut, AfterCloudInit
<1>8. CASE ListPods
  BY <1>8, <1>t DEF ListPods
<1>9. CASE ListingPodsEnds
  BY <1>9, <1>t DEF ListingPodsEnds
<1>10. CASE WaitForPod
  BY <1>10, <1>t DEF WaitForPod
<1> QED
  BY <1>1, <1>2, <1>3, <1>4, <1>5, <1>6, <1>7, <1>8, <1>9, <1>10 DEF Up

\* The distance is a number, and never more than at the start.
LEMMA Distance ==
    ASSUME TypeOK
    PROVE  StepsToGo \in Nat
<1>1. polls \in 0 .. MaxPolls /\ Cardinality(targets) \in Nat
  BY TargetsCounted, ReadinessAssumption DEF TypeOK
<1> QED
  BY <1>1, Distances, ReadinessAssumption DEF TypeOK, StepsToGo, StepsInLoop

\* Up comes to its return in a bounded number of steps of its own, whatever the
\* cluster does and for any number of nodes and polls.
THEOREM ProgressCorrect == Spec => []Bounded /\ [][EveryStepCounts]_vars
<1>1. ASSUME TypeOK, [Next]_vars PROVE EveryStepCounts
  BY <1>1, StepCounts
  DEF Next, EveryStepCounts, Join, ReadyCondition, CloudInitEnds, ProviderPod, vars
<1>2. Init => Bounded
  BY Distances, ReadinessAssumption DEF Init, Bounded, StepsToGo, StepsInLoop
<1>3. ASSUME TypeOK, TypeOK', Bounded, [Next]_vars PROVE Bounded'
  <2>1. StepsToGo \in Nat
    BY <1>3, Distance
  <2>2. (TypeOK => StepsToGo \in Nat)'
    BY Distance, PTL
  <2>3. UNCHANGED upVars => StepsToGo' = StepsToGo
    BY DEF upVars, StepsToGo, StepsInLoop, StepsAfter
  <2> QED
    BY <1>1, <1>3, <2>1, <2>2, <2>3, ReadinessAssumption DEF Bounded, EveryStepCounts
<1> QED
  BY <1>1, <1>2, <1>3, TypeCorrect, PTL DEF Spec
=============================================================================
