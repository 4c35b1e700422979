-------------------------- MODULE BootstrapProofs --------------------------
(***************************************************************************)
(* Proofs about Bootstrap, for any number of workers, polls, uploads and   *)
(* sizes.  The invariant follows the scripts: what each place in them      *)
(* leaves behind, what a pass of wait_for_update may have read, and what   *)
(* cloud-init may say.  With it every step is a step Readiness allows, and *)
(* what is proved of Readiness holds of these machines.                    *)
(***************************************************************************)
EXTENDS Bootstrap, TLAPS

\* Readiness with its theorems, on these machines.
Checked == INSTANCE ReadinessProofs WITH registered <- registered \cup {0}

BootsTyped ==
    /\ boot \in [Node -> {"boot", "etag", "size", "download", "kubeadm", "network",
                          "provider", "addons", "end"}]
    /\ last \in [Node -> Reading] /\ etag \in [Node -> 0 .. MaxUploads]
    /\ readings \in [Node -> 0 .. MaxReadings]
    /\ object \in 0 .. MaxUploads
    /\ staging \in {"bucket", "url"} /\ script \in {"ubuntu", "al2023"}
    /\ phase \in {"check", "waits", "failed"}
    /\ external \in {"on", "off"} /\ kubeconfig \in {"ours", "foreign"}
    /\ registered \subseteq Node /\ installed \subseteq Node
    /\ deployed \subseteq {"network", "provider", "addons"}

\* A node is in the cluster, and may be Ready, only by way of its script.
JoinInv ==
    /\ \A n \in Node : boot[n] = "kubeadm" => n \in installed
    /\ registered \subseteq installed
    /\ ready \subseteq registered /\ wereReady \subseteq registered
    /\ phase = "waits" => 0 \in registered

\* Post-install runs in its order, and cloud-init says done at its end only.
PostInv ==
    /\ boot[0] # "end" => cloudInit = "running"
    /\ boot[0] \in {"provider", "addons"} => "network" \in deployed
    /\ boot[0] = "addons" /\ external = "on" => "provider" \in deployed
    /\ cloudInit = "done" =>
          /\ {"network", "addons"} \subseteq deployed
          /\ external = "on" => "provider" \in deployed

\* A reading took its etag no later than its size, and both before now.
TakenBefore(r, now) ==
    r = NoReading \/ \E o \in Tarballs : r.etag \in 1 .. o /\ o <= now /\ r.size = Size[o]

ReadingInv ==
    \A n \in Node :
        /\ boot[n] = "etag" => TakenBefore(last[n], object)
        /\ boot[n] = "size" => /\ TakenBefore(last[n], etag[n])
                               /\ etag[n] # 0 /\ etag[n] <= object
        /\ boot[n] = "boot" => last[n] = NoReading

BInv == BootsTyped /\ JoinInv /\ PostInv /\ ReadingInv /\ StableIsOneTarball

-----------------------------------------------------------------------------
\* At the start the cluster is taken for registered with its control plane.
LEMMA InitRefines == BootInit => FreeCluster!Init
<1> SUFFICES ASSUME BootInit PROVE FreeCluster!Init
  OBVIOUS
<1>1. registered \cup {0} \subseteq FreeCluster!Node
  BY ReadinessAssumption DEF BootInit, FreeCluster!Node
<1>2. /\ kubeconfig \in {"ours", "foreign"} /\ external \in {"on", "off"}
      /\ ready = {} /\ wereReady = {}
      /\ cloudInit = "running" /\ pod = 0 /\ podsReady = {}
      /\ pc = "nodes" /\ polls = 0 /\ targets = {} /\ podName = 0
      /\ nodesShort = "no" /\ logged = "no"
  BY DEF BootInit
<1> QED
  BY <1>1, <1>2 DEF FreeCluster!Init

\* The waits see the same cluster, once the control plane is registered.
LEMMA UpRefines ==
    ASSUME 0 \in registered, registered' = registered, Up
    PROVE  FreeCluster!Up
<1>0. registered \cup {0} = registered /\ (registered \cup {0})' = registered
  OBVIOUS
<1>a. FreeCluster!NodeCounts = NodeCounts
  <2>1. Cardinality(registered \cup {0}) = Cardinality(registered)
    BY <1>0, Zenon
  <2>2. FreeCluster!Cardinality(registered \cup {0}) = Cardinality(registered \cup {0})
    BY DEF Cardinality, FreeCluster!Cardinality
  <2> HIDE <1>0
  <2> QED
    BY <2>1, <2>2 DEF NodeCounts, FreeCluster!NodeCounts
<1>b. \A c : FreeCluster!EnoughNodes(c) <=> EnoughNodes(c)
  BY DEF EnoughNodes, FreeCluster!EnoughNodes
<1> USE <1>0, <1>a DEF flags, FreeCluster!flags, clusterVars, FreeCluster!clusterVars, nodeVars,
             FreeCluster!nodeVars, podVars, FreeCluster!podVars, LoopGoesOn,
             FreeCluster!LoopGoesOn, PollAgain, FreeCluster!PollAgain, Proceed,
             FreeCluster!Proceed, LogIt, FreeCluster!LogIt,
             NodesToWaitFor, FreeCluster!NodesToWaitFor, Pods, FreeCluster!Pods, WasReady, FreeCluster!WasReady, PodIsReady,
             FreeCluster!PodIsReady, AfterCloudInit, FreeCluster!AfterCloudInit, StatusIsDone,
             FreeCluster!StatusIsDone
<1>1. ASSUME CountNodes PROVE FreeCluster!CountNodes
  BY <1>1, <1>b DEF CountNodes, FreeCluster!CountNodes
<1>2. ASSUME CountingEnds PROVE FreeCluster!CountingEnds
  BY <1>2 DEF CountingEnds, FreeCluster!CountingEnds
<1>3. ASSUME ListNodesToWaitFor PROVE FreeCluster!ListNodesToWaitFor
  BY <1>3 DEF ListNodesToWaitFor, FreeCluster!ListNodesToWaitFor
<1>4. ASSUME NodeIsReady PROVE FreeCluster!NodeIsReady
  BY <1>4 DEF NodeIsReady, FreeCluster!NodeIsReady
<1>5. ASSUME KubectlWaitEnds PROVE FreeCluster!KubectlWaitEnds
  BY <1>5 DEF KubectlWaitEnds, FreeCluster!KubectlWaitEnds
<1>6. ASSUME CloudInitStatus PROVE FreeCluster!CloudInitStatus
  BY <1>6 DEF CloudInitStatus, FreeCluster!CloudInitStatus
<1>7. ASSUME CloudInitTimesOut PROVE FreeCluster!CloudInitTimesOut
  BY <1>7 DEF CloudInitTimesOut, FreeCluster!CloudInitTimesOut
<1>8. ASSUME ListPods PROVE FreeCluster!ListPods
  BY <1>8 DEF ListPods, FreeCluster!ListPods
<1>9. ASSUME ListingPodsEnds PROVE FreeCluster!ListingPodsEnds
  BY <1>9 DEF ListingPodsEnds, FreeCluster!ListingPodsEnds
<1>10. ASSUME WaitForPod PROVE FreeCluster!WaitForPod
  BY <1>10 DEF WaitForPod, FreeCluster!WaitForPod
<1> QED
  BY <1>1, <1>2, <1>3, <1>4, <1>5, <1>6, <1>7, <1>8, <1>9, <1>10 DEF Up, FreeCluster!Up

Mapped == <<flags, registered \cup {0}, ready, wereReady, cloudInit, podVars, upVars>>

\* Every step of the machines and of Up is one Readiness allows.
LEMMA StepRefines ==
    ASSUME BInv, BootNext
    PROVE  FreeCluster!Next \/ UNCHANGED Mapped
<1> USE ReadinessAssumption DEF BInv, Mapped, podVars, upVars, nodeVars, flags
<1>0. 0 \in Node
  BY DEF Node
<1>1. CASE Stage \/ ChecksPass \/ CheckFails \/ Ended
  BY <1>1 DEF Stage, ChecksPass, CheckFails, Ended, vars, clusterVars, allVars
<1>2. ASSUME NEW n \in Node, Machine(n) PROVE FreeCluster!Next \/ UNCHANGED Mapped
  <2>0. UNCHANGED <<flags, upVars, ready, wereReady, podVars, s3Vars, script, deployed, phase>>
    BY <1>2 DEF Machine
  <2>1. CASE UNCHANGED <<registered, cloudInit>>
    BY <2>0, <2>1
  <2>2. CASE Kubeadm(n)
    <3>1. registered' = registered \cup {n} /\ UNCHANGED cloudInit
      BY <2>2 DEF Kubeadm
    <3>2. CASE n \in registered \cup {0}
      BY <2>0, <3>1, <3>2
    <3>3. CASE n \notin registered \cup {0}
      <4>1. FreeCluster!Join
        BY <2>0, <3>1, <3>3
           DEF FreeCluster!Join, FreeCluster!Node, FreeCluster!flags, FreeCluster!upVars,
               FreeCluster!podVars, Node
      <4> QED
        BY <4>1 DEF FreeCluster!Next
    <3> QED
      BY <3>2, <3>3
  <2>3. CASE ScriptFails(n)
    <3>1. UNCHANGED registered /\ boot[n] # "end"
      BY <2>3 DEF ScriptFails
    <3>2. CASE UNCHANGED cloudInit
      BY <2>0, <3>1, <3>2
    <3>3. CASE ~UNCHANGED cloudInit
      <4>1. n = 0 /\ cloudInit' = "error" /\ cloudInit = "running"
        BY <2>3, <3>1, <3>3 DEF ScriptFails, PostInv
      <4>2. FreeCluster!CloudInitEnds
        BY <2>0, <3>1, <4>1
           DEF FreeCluster!CloudInitEnds, FreeCluster!flags, FreeCluster!upVars,
               FreeCluster!nodeVars, FreeCluster!podVars
      <4> QED
        BY <4>2 DEF FreeCluster!Next
    <3> QED
      BY <3>2, <3>3
  <2> QED
    BY <1>2, <2>1, <2>2, <2>3 DEF Machine
<1>3. CASE PostInstall
  <2>0. UNCHANGED <<flags, upVars, nodeVars, podVars>>
    BY <1>3 DEF PostInstall
  <2>1. CASE UNCHANGED cloudInit
    BY <2>0, <2>1
  <2>2. CASE ~UNCHANGED cloudInit
    <3>1. boot[0] # "end" /\ cloudInit' \in {"done", "error"}
      BY <1>3, <2>2 DEF PostInstall, DeployNetwork, ApplyProvider, WaitForDNS, PostInstallFails,
                        ExitStatus, At
    <3>2. FreeCluster!CloudInitEnds
      BY <2>0, <3>1
         DEF PostInv, FreeCluster!CloudInitEnds, FreeCluster!flags, FreeCluster!upVars,
             FreeCluster!nodeVars, FreeCluster!podVars
    <3> QED
      BY <3>2 DEF FreeCluster!Next
  <2> QED
    BY <2>1, <2>2
<1>4. CASE NodeCondition
  <2>1. FreeCluster!ReadyCondition
    BY <1>4 DEF NodeCondition, MayBeReady, JoinInv, FreeCluster!ReadyCondition,
                FreeCluster!flags, FreeCluster!upVars, FreeCluster!podVars
  <2> QED
    BY <2>1 DEF FreeCluster!Next
<1>5. CASE Controller
  <2>1. FreeCluster!ProviderPod
    BY <1>5 DEF Controller, ProviderPod, FreeCluster!ProviderPod, FreeCluster!flags,
                FreeCluster!upVars, FreeCluster!nodeVars
  <2> QED
    BY <2>1 DEF FreeCluster!Next
<1>6. CASE phase = "waits" /\ Up /\ UNCHANGED bootVars
  <2>1. 0 \in registered
    BY <1>6 DEF JoinInv
  <2>2. UNCHANGED registered
    BY <1>6 DEF Up, CountNodes, CountingEnds, ListNodesToWaitFor, NodeIsReady,
                KubectlWaitEnds, CloudInitStatus, CloudInitTimesOut, ListPods,
                ListingPodsEnds, WaitForPod, clusterVars
  <2>3. FreeCluster!Up
    BY <1>6, <2>1, <2>2, UpRefines
  <2> QED
    BY <2>3 DEF FreeCluster!Next
<1> QED
  BY <1>1, <1>2, <1>3, <1>4, <1>5, <1>6 DEF BootNext, BringUp

-----------------------------------------------------------------------------
\* The scripts start inside the invariant.
LEMMA InitBInv == BootInit => BInv
<1> SUFFICES ASSUME BootInit PROVE BInv
  OBVIOUS
<1> USE ReadinessAssumption, BootstrapAssumption DEF BootInit
<1>1. BootsTyped
  BY DEF BootsTyped, Reading, NoReading
<1>2. JoinInv /\ PostInv
  BY DEF JoinInv, PostInv, Node
<1>3. ReadingInv /\ StableIsOneTarball
  BY DEF ReadingInv, StableIsOneTarball, TakenBefore
<1> QED
  BY <1>1, <1>2, <1>3 DEF BInv

\* What a machine's script moves.
Scripts == <<boot, last, etag, readings, installed, registered, cloudInit, deployed, script,
             object, staging, external>>

\* Up, the conditions of the nodes and the pod leave the scripts alone.
LEMMA ScriptsFrame ==
    ASSUME NodeCondition \/ Controller \/ BringUp \/ Ended
    PROVE  UNCHANGED Scripts /\ UNCHANGED kubeconfig
<1> USE DEF Scripts, bootVars, s3Vars, machineVars, waitVars
<1>1. CASE NodeCondition
  BY <1>1 DEF NodeCondition, flags
<1>2. CASE Controller
  BY <1>2 DEF Controller, ProviderPod, flags, nodeVars
<1>3. CASE ChecksPass \/ CheckFails \/ Ended
  BY <1>3 DEF ChecksPass, CheckFails, Ended, vars, flags, clusterVars, nodeVars, allVars
<1>4. CASE Up /\ UNCHANGED bootVars
  BY <1>4 DEF Up, CountNodes, CountingEnds, ListNodesToWaitFor, NodeIsReady, KubectlWaitEnds,
              CloudInitStatus, CloudInitTimesOut, ListPods, ListingPodsEnds, WaitForPod,
              clusterVars, nodeVars, flags
<1> QED
  BY <1>1, <1>2, <1>3, <1>4 DEF BringUp

\* What Up and the pod do to the nodes' conditions and the phase.
LEMMA ClusterFrame ==
    ASSUME Controller \/ BringUp \/ Ended
    PROVE  /\ UNCHANGED <<ready, wereReady>>
           /\ phase' = "waits" => phase = "waits" \/ 0 \in registered
           /\ phase' \in {phase, "waits", "failed"}
<1> USE DEF bootVars
<1>1. CASE Controller
  BY <1>1 DEF Controller, ProviderPod, nodeVars
<1>2. CASE ChecksPass \/ CheckFails \/ Ended
  BY <1>2 DEF ChecksPass, CheckFails, Ended, vars, clusterVars, nodeVars, allVars
<1>3. CASE Up /\ UNCHANGED bootVars
  BY <1>3 DEF Up, CountNodes, CountingEnds, ListNodesToWaitFor, NodeIsReady, KubectlWaitEnds,
              CloudInitStatus, CloudInitTimesOut, ListPods, ListingPodsEnds, WaitForPod,
              clusterVars, nodeVars
<1> QED
  BY <1>1, <1>2, <1>3 DEF BringUp

\* A machine's script and the upload of another job leave the conditions and
\* the phase alone; post-install moves the control plane only.
LEMMA MachineFrame ==
    ASSUME NEW n \in Node, Machine(n)
    PROVE  UNCHANGED <<kubeconfig, external, ready, wereReady, object, staging, script, deployed,
                       phase>>
  BY DEF Machine, flags, s3Vars

LEMMA PostFrame ==
    ASSUME PostInstall
    PROVE  UNCHANGED <<kubeconfig, external, ready, wereReady, registered, object, staging,
                       script, last, etag, readings, installed, phase>>
  BY DEF PostInstall, flags, s3Vars, nodeVars, waitVars

LEMMA StageFrame ==
    ASSUME Stage
    PROVE  /\ object < MaxUploads /\ object' = object + 1
           /\ UNCHANGED <<kubeconfig, external, ready, wereReady, registered, staging, script,
                          boot, last, etag, readings, installed, phase, cloudInit, deployed>>
  BY DEF Stage, vars, flags, clusterVars, nodeVars, machineVars, waitVars

-----------------------------------------------------------------------------
\* No step leaves the types of the scripts.
LEMMA TypedStep ==
    ASSUME BootsTyped, BootNext
    PROVE  BootsTyped'
<1> USE ReadinessAssumption, BootstrapAssumption DEF BootsTyped
<1>1. CASE Stage
  <2>1. object' \in 0 .. MaxUploads
    BY <1>1, StageFrame
  <2> QED
    BY <1>1, <2>1, StageFrame
<1>2. ASSUME NEW n \in Node, Machine(n) PROVE BootsTyped'
  <2> USE <1>2, MachineFrame DEF Goto, At, Reading, NoReading
  <2>1. CASE Boot(n) /\ UNCHANGED <<registered, cloudInit>>
    BY <2>1 DEF Boot, waitVars
  <2>2. CASE GetEtag(n) /\ UNCHANGED <<registered, cloudInit>>
    BY <2>2 DEF GetEtag
  <2>3. CASE GetSize(n) /\ UNCHANGED <<registered, cloudInit>>
    <3>1. Size[object] \in Nat
      BY <2>3 DEF GetSize, Tarballs
    <3>2. Current(n) \in Reading
      BY <3>1 DEF Current
    <3>3. CASE UNCHANGED <<last, readings>>
      BY <2>3, <3>3 DEF GetSize
    <3>4. ASSUME ~UNCHANGED <<last, readings>> PROVE BootsTyped'
      <4>1. readings[n] < MaxReadings /\ readings' = [readings EXCEPT ![n] = @ + 1]
        BY <2>3, <3>4 DEF GetSize
      <4>2. readings' \in [Node -> 0 .. MaxReadings]
        BY <4>1
      <4>3. last' \in [Node -> Reading] /\ boot' = [boot EXCEPT ![n] = "etag"] /\ UNCHANGED <<etag, installed>>
        BY <2>3, <3>2, <3>4 DEF GetSize
      <4> QED
        BY <2>3, <4>2, <4>3
    <3> QED
      BY <3>3, <3>4
  <2>4. CASE Download(n) /\ UNCHANGED <<registered, cloudInit>>
    <3>1. last' \in [Node -> Reading] /\ etag' \in [Node -> 0 .. MaxUploads]
          /\ readings' \in [Node -> 0 .. MaxReadings]
      BY <2>4 DEF Download, Forget
    <3> QED
      BY <2>4, <3>1 DEF Download
  <2>5. CASE Kubeadm(n)
    BY <2>5 DEF Kubeadm, AfterKubeadm, waitVars
  <2>6. CASE ScriptFails(n)
    <3>1. last' \in [Node -> Reading] /\ etag' \in [Node -> 0 .. MaxUploads]
          /\ readings' \in [Node -> 0 .. MaxReadings]
      BY <2>6 DEF ScriptFails, Forget
    <3> QED
      BY <2>6, <3>1 DEF ScriptFails, AfterKubeadm
  <2> QED
    BY <2>1, <2>2, <2>3, <2>4, <2>5, <2>6 DEF Machine
<1>3. CASE PostInstall
  <2>1. \E l \in {"provider", "addons", "end"} : boot' = [boot EXCEPT ![0] = l]
    BY <1>3 DEF PostInstall, DeployNetwork, ApplyProvider, WaitForDNS, PostInstallFails, Goto
  <2>2. deployed' \subseteq {"network", "provider", "addons"}
    BY <1>3 DEF PostInstall, DeployNetwork, ApplyProvider, WaitForDNS, PostInstallFails, Deploy
  <2> QED
    BY <1>3, <2>1, <2>2, PostFrame
<1>4. CASE NodeCondition \/ Controller \/ BringUp \/ Ended
  <2>1. phase' \in {phase, "waits", "failed"}
    BY <1>4, ClusterFrame DEF NodeCondition, bootVars
  <2> QED
    BY <1>4, <2>1, ScriptsFrame DEF Scripts
<1> QED
  BY <1>1, <1>2, <1>3, <1>4 DEF BootNext

\* A node that joins has installed its tarball, and only joined nodes get Ready.
LEMMA JoinStep ==
    ASSUME BootsTyped, JoinInv, BootNext
    PROVE  JoinInv'
<1> USE ReadinessAssumption, BootstrapAssumption DEF BootsTyped, JoinInv
<1>1. CASE Stage
  BY <1>1, StageFrame
<1>2. ASSUME NEW n \in Node, Machine(n) PROVE JoinInv'
  <2> USE <1>2, MachineFrame DEF Goto, At
  <2>1. CASE Boot(n) /\ UNCHANGED <<registered, cloudInit>>
    BY <2>1 DEF Boot
  <2>2. CASE GetEtag(n) /\ UNCHANGED <<registered, cloudInit>>
    BY <2>2 DEF GetEtag
  <2>3. CASE GetSize(n) /\ UNCHANGED <<registered, cloudInit>>
    BY <2>3 DEF GetSize
  <2>4. CASE Download(n) /\ UNCHANGED <<registered, cloudInit>>
    BY <2>4 DEF Download
  <2>5. CASE Kubeadm(n)
    BY <2>5 DEF Kubeadm, AfterKubeadm
  <2>6. CASE ScriptFails(n)
    BY <2>6 DEF ScriptFails, AfterKubeadm
  <2> QED
    BY <2>1, <2>2, <2>3, <2>4, <2>5, <2>6 DEF Machine
<1>3. CASE PostInstall
  <2>1. \E l \in {"provider", "addons", "end"} : boot' = [boot EXCEPT ![0] = l]
    BY <1>3 DEF PostInstall, DeployNetwork, ApplyProvider, WaitForDNS, PostInstallFails, Goto
  <2> QED
    BY <1>3, <2>1, PostFrame
<1>4. CASE NodeCondition
  BY <1>4, ScriptsFrame DEF Scripts, NodeCondition, MayBeReady, bootVars
<1>5. CASE Controller \/ BringUp \/ Ended
  BY <1>5, ScriptsFrame, ClusterFrame DEF Scripts
<1> QED
  BY <1>1, <1>2, <1>3, <1>4, <1>5 DEF BootNext

\* cloud-init says done only when post-install reached its last command.
LEMMA PostStep ==
    ASSUME BootsTyped, PostInv, BootNext
    PROVE  PostInv'
<1> USE ReadinessAssumption, BootstrapAssumption DEF BootsTyped, PostInv
<1>0. 0 \in Node
  BY DEF Node
<1>1. CASE Stage
  BY <1>1, StageFrame
<1>2. ASSUME NEW n \in Node, Machine(n) PROVE PostInv'
  <2> USE <1>0, <1>2, MachineFrame DEF Goto, At
  <2>1. CASE Boot(n) /\ UNCHANGED <<registered, cloudInit>>
    BY <2>1 DEF Boot
  <2>2. CASE GetEtag(n) /\ UNCHANGED <<registered, cloudInit>>
    BY <2>2 DEF GetEtag
  <2>3. CASE GetSize(n) /\ UNCHANGED <<registered, cloudInit>>
    BY <2>3 DEF GetSize
  <2>4. CASE Download(n) /\ UNCHANGED <<registered, cloudInit>>
    BY <2>4 DEF Download
  <2>5. CASE Kubeadm(n)
    BY <2>5 DEF Kubeadm, AfterKubeadm, Initialises
  <2>6. CASE ScriptFails(n)
    BY <2>6 DEF ScriptFails, AfterKubeadm, Initialises
  <2> QED
    BY <2>1, <2>2, <2>3, <2>4, <2>5, <2>6 DEF Machine
<1>3. CASE PostInstall
  <2> USE <1>0, <1>3, PostFrame DEF Goto, At, Deploy
  <2>1. CASE DeployNetwork
    BY <2>1 DEF DeployNetwork
  <2>2. CASE ApplyProvider
    BY <2>2 DEF ApplyProvider
  <2>3. CASE WaitForDNS
    BY <2>3 DEF WaitForDNS
  <2>4. CASE PostInstallFails
    BY <2>4 DEF PostInstallFails, ExitStatus
  <2> QED
    BY <2>1, <2>2, <2>3, <2>4 DEF PostInstall
<1>4. CASE NodeCondition \/ Controller \/ BringUp \/ Ended
  BY <1>4, ScriptsFrame DEF Scripts
<1> QED
  BY <1>1, <1>2, <1>3, <1>4 DEF BootNext

\* Later is later.
LEMMA TakenLater ==
    ASSUME NEW r \in Reading, NEW a \in Nat, NEW b \in Nat, a <= b, TakenBefore(r, a)
    PROVE  TakenBefore(r, b)
<1> USE DEF Tarballs
<1> QED
  BY BootstrapAssumption DEF TakenBefore

\* Two equal passes are one tarball: the etag read second is the one that was
\* there when the first size was read.
LEMMA EqualPasses ==
    ASSUME NEW r \in Reading, NEW e \in 1 .. MaxUploads, TakenBefore(r, e), r.etag = e
    PROVE  r.etag # 0 /\ r.size = Size[r.etag]
<1>1. r # NoReading
  BY DEF NoReading
<1>2. PICK o \in Tarballs : r.etag \in 1 .. o /\ o <= e /\ r.size = Size[o]
  BY <1>1 DEF TakenBefore
<1>3. o = e
  BY <1>2, BootstrapAssumption DEF Tarballs
<1> QED
  BY <1>2, <1>3, BootstrapAssumption

\* What a pass of wait_for_update holds was read in order, and what it calls
\* stable is one tarball.
LEMMA ReadingStep ==
    ASSUME BootsTyped, ReadingInv, StableIsOneTarball, BootNext
    PROVE  ReadingInv' /\ StableIsOneTarball'
<1> DEFINE Inv(n) ==
        /\ boot[n] = "etag" => TakenBefore(last[n], object)
        /\ boot[n] = "size" => /\ TakenBefore(last[n], etag[n])
                               /\ etag[n] # 0 /\ etag[n] <= object
        /\ boot[n] = "boot" => last[n] = NoReading
        /\ boot[n] = "download" /\ staging = "bucket" =>
              last[n].etag # 0 /\ last[n].size = Size[last[n].etag]
<1>0. /\ (\A n \in Node : Inv(n)) <=> ReadingInv /\ StableIsOneTarball
      /\ (\A n \in Node : Inv(n)') <=> ReadingInv' /\ StableIsOneTarball'
  BY DEF ReadingInv, StableIsOneTarball
<1> SUFFICES ASSUME NEW m \in Node PROVE Inv(m)'
  BY <1>0
<1>i. Inv(m)
  BY <1>0
<1>t. /\ boot \in [Node -> {"boot", "etag", "size", "download", "kubeadm", "network",
                            "provider", "addons", "end"}]
      /\ last \in [Node -> Reading] /\ etag \in [Node -> 0 .. MaxUploads]
      /\ object \in 0 .. MaxUploads /\ staging \in {"bucket", "url"}
  BY DEF BootsTyped
<1>m. MaxUploads \in Nat
  BY BootstrapAssumption
<1>s. ASSUME UNCHANGED <<object, staging>>, boot'[m] = boot[m], last'[m] = last[m],
             etag'[m] = etag[m]
      PROVE  Inv(m)'
  BY <1>i, <1>s DEF TakenBefore
<1>e. ASSUME UNCHANGED staging, boot'[m] \in {"kubeadm", "network", "provider", "addons", "end"}
      PROVE  Inv(m)'
  BY <1>e
<1>1. CASE Stage
  <2>1. object \in Nat /\ object' = object + 1 /\ object' \in Nat
        /\ UNCHANGED <<staging, boot, last, etag>>
    BY <1>1, <1>t, <1>m, StageFrame
  <2>2. CASE boot[m] = "etag"
    <3>1. TakenBefore(last[m], object')
      BY <1>i, <1>t, <2>1, <2>2, TakenLater
    <3> QED
      BY <2>1, <2>2, <3>1 DEF TakenBefore
  <2>3. CASE boot[m] = "size"
    <3>1. etag[m] <= object'
      BY <1>i, <1>t, <2>1, <2>3
    <3> QED
      BY <1>i, <2>1, <2>3, <3>1 DEF TakenBefore
  <2>4. CASE boot[m] \notin {"etag", "size"}
    BY <1>i, <2>1, <2>4
  <2> QED
    BY <2>2, <2>3, <2>4
<1>2. ASSUME NEW n \in Node, Machine(n) PROVE Inv(m)'
  <2>0. UNCHANGED <<object, staging>>
    BY <1>2, MachineFrame
  <2>1. CASE m # n
    <3>1. boot'[m] = boot[m]
      BY <1>2, <1>t, <2>1 DEF Machine, Boot, GetEtag, GetSize, Download, Kubeadm, ScriptFails,
                              AfterKubeadm, Goto
    <3>2. last'[m] = last[m] /\ etag'[m] = etag[m]
      BY <1>2, <1>t, <2>1 DEF Machine, Boot, GetEtag, GetSize, Download, Kubeadm, ScriptFails,
                              Forget, waitVars
    <3> QED
      BY <1>s, <2>0, <3>1, <3>2
  <2>2. CASE m = n /\ Boot(n)
    <3>1. last' = last /\ boot[m] = "boot"
          /\ boot'[m] = IF staging = "url" THEN "download" ELSE "etag"
      BY <1>t, <2>2 DEF Boot, waitVars, At, Goto
    <3> QED
      BY <1>i, <2>0, <3>1 DEF TakenBefore
  <2>3. CASE m = n /\ GetEtag(n)
    <3>1. last' = last /\ etag'[m] = object /\ object # 0 /\ boot[m] = "etag" /\ boot'[m] = "size"
      BY <1>t, <2>3 DEF GetEtag, At, Goto
    <3> QED
      BY <1>i, <1>t, <2>0, <3>1 DEF TakenBefore
  <2>4. CASE m = n /\ GetSize(n)
    <3>1. etag' = etag /\ boot[m] = "size" /\ object # 0
      BY <2>4 DEF GetSize, At
    <3>2. CASE IsStable(n) /\ Goto(n, "download") /\ last' = last
      <4>1. last[m].etag = etag[m] /\ boot'[m] = "download"
        BY <1>t, <2>4, <3>2 DEF IsStable, Current, Goto
      <4>2. last[m] \in Reading /\ etag[m] \in 1 .. MaxUploads /\ TakenBefore(last[m], etag[m])
        BY <1>i, <1>t, <3>1
      <4>3. last[m].etag # 0 /\ last[m].size = Size[last[m].etag]
        BY <4>1, <4>2, EqualPasses
      <4> QED
        BY <2>0, <3>2, <4>1, <4>3
    <3>3. CASE Goto(n, "etag") /\ last' = [last EXCEPT ![n] = Current(n)]
      <4>1. boot'[m] = "etag" /\ last'[m] = Current(m)
        BY <1>t, <2>4, <3>3 DEF Goto
      <4>2. TakenBefore(Current(m), object)
        <5>1. Current(m).etag \in 1 .. object /\ Current(m).size = Size[object]
              /\ object \in Tarballs
          BY <1>i, <1>t, <1>m, <3>1 DEF Current, Tarballs
        <5> QED
          BY <1>t, <5>1 DEF TakenBefore
      <4> QED
        BY <2>0, <4>1, <4>2 DEF TakenBefore
    <3> QED
      BY <2>4, <3>2, <3>3 DEF GetSize
  <2>5. CASE m = n /\ (Download(n) \/ Kubeadm(n) \/ ScriptFails(n))
    <3>1. boot'[m] \in {"kubeadm", "network", "end"}
      BY <1>t, <2>5 DEF Download, Kubeadm, ScriptFails, AfterKubeadm, Goto
    <3> QED
      BY <1>e, <2>0, <3>1
  <2> QED
    BY <1>2, <2>1, <2>2, <2>3, <2>4, <2>5 DEF Machine
<1>3. CASE PostInstall
  <2>1. UNCHANGED <<object, staging, last, etag>>
    BY <1>3, PostFrame
  <2>2. \E l \in {"provider", "addons", "end"} : boot' = [boot EXCEPT ![0] = l]
    BY <1>3 DEF PostInstall, DeployNetwork, ApplyProvider, WaitForDNS, PostInstallFails, Goto
  <2>3. CASE m = 0
    BY <1>e, <1>t, <2>1, <2>2, <2>3
  <2>4. CASE m # 0
    BY <1>s, <1>t, <2>1, <2>2, <2>4
  <2> QED
    BY <2>3, <2>4
<1>4. CASE NodeCondition \/ Controller \/ BringUp \/ Ended
  BY <1>4, <1>s, ScriptsFrame DEF Scripts
<1> QED
  BY <1>1, <1>2, <1>3, <1>4 DEF BootNext

\* BInv is inductive.
LEMMA BInvStep ==
    ASSUME BInv, [BootNext]_allVars
    PROVE  BInv'
<1>1. CASE BootNext
  BY <1>1, TypedStep, JoinStep, PostStep, ReadingStep DEF BInv
<1>2. CASE UNCHANGED allVars
  <2>1. UNCHANGED <<vars, bootVars>>
    BY <1>2 DEF allVars
  <2>2. UNCHANGED Scripts /\ UNCHANGED <<kubeconfig, phase, ready, wereReady>>
    BY <2>1 DEF vars, bootVars, Scripts, flags, clusterVars, nodeVars, s3Vars, machineVars,
                waitVars
  <2> QED
    BY <2>2 DEF Scripts, BInv, BootsTyped, JoinInv, PostInv, ReadingInv, TakenBefore,
                StableIsOneTarball
<1> QED
  BY <1>1, <1>2

\* Every reachable state is inside the invariant.
LEMMA BInvariance == BootSpec => []BInv
<1> QED
  BY InitBInv, BInvStep, PTL DEF BootSpec

-----------------------------------------------------------------------------
\* Two passes of wait_for_update that agree saw one tarball, although each
\* reads the etag and the size in calls of their own.
THEOREM StableCorrect == BootSpec => []StableIsOneTarball
<1>1. BInv => StableIsOneTarball
  BY DEF BInv
<1> QED
  BY <1>1, BInvariance, PTL

\* The machines' scripts and Up do only what Readiness allows its free cluster.
THEOREM RefinementCorrect == BootSpec => ReadinessAllows
<1>1. ASSUME BInv, [BootNext]_allVars PROVE [FreeCluster!Next]_FreeCluster!vars
  <2>1. UNCHANGED Mapped => UNCHANGED FreeCluster!vars
    BY DEF Mapped, flags, podVars, upVars, FreeCluster!vars, FreeCluster!flags,
           FreeCluster!clusterVars, FreeCluster!nodeVars, FreeCluster!podVars, FreeCluster!upVars
  <2>2. UNCHANGED allVars => UNCHANGED Mapped
    BY DEF Mapped, allVars, vars, clusterVars, nodeVars
  <2> QED
    BY <1>1, <2>1, <2>2, StepRefines
<1> QED
  BY InitRefines, BInvariance, <1>1, PTL DEF BootSpec, ReadinessAllows, FreeCluster!Spec

-----------------------------------------------------------------------------
\* The two names of Readiness on these machines are one.
LEMMA SameSteps ==
    FreeCluster!Next => Checked!Next
<1> SUFFICES ASSUME FreeCluster!Next PROVE Checked!Next
  OBVIOUS
<1>a. FreeCluster!NodeCounts = Checked!NodeCounts
  <2>1. \A S : FreeCluster!Cardinality(S) = Checked!Cardinality(S)
    BY DEF FreeCluster!Cardinality, Checked!Cardinality
  <2> QED
    BY <2>1 DEF FreeCluster!NodeCounts, Checked!NodeCounts
<1>b. \A c : FreeCluster!EnoughNodes(c) <=> Checked!EnoughNodes(c)
  BY DEF FreeCluster!EnoughNodes, Checked!EnoughNodes
<1> USE <1>a, <1>b
    DEF FreeCluster!flags, Checked!flags, FreeCluster!clusterVars, Checked!clusterVars,
        FreeCluster!nodeVars, Checked!nodeVars, FreeCluster!podVars, Checked!podVars,
        FreeCluster!upVars, Checked!upVars, FreeCluster!LoopGoesOn, Checked!LoopGoesOn,
        FreeCluster!PollAgain, Checked!PollAgain, FreeCluster!Proceed, Checked!Proceed,
        FreeCluster!LogIt, Checked!LogIt, FreeCluster!NodesToWaitFor, Checked!NodesToWaitFor,
        FreeCluster!Pods, Checked!Pods, FreeCluster!WasReady, Checked!WasReady,
        FreeCluster!PodIsReady, Checked!PodIsReady, FreeCluster!AfterCloudInit,
        Checked!AfterCloudInit, FreeCluster!StatusIsDone, Checked!StatusIsDone,
        FreeCluster!Node, Checked!Node
<1>1. ASSUME FreeCluster!CountNodes PROVE Checked!CountNodes
  BY <1>1 DEF FreeCluster!CountNodes, Checked!CountNodes
<1>2. ASSUME FreeCluster!CountingEnds PROVE Checked!CountingEnds
  BY <1>2 DEF FreeCluster!CountingEnds, Checked!CountingEnds
<1>3. ASSUME FreeCluster!ListNodesToWaitFor PROVE Checked!ListNodesToWaitFor
  BY <1>3 DEF FreeCluster!ListNodesToWaitFor, Checked!ListNodesToWaitFor
<1>4. ASSUME FreeCluster!NodeIsReady PROVE Checked!NodeIsReady
  BY <1>4 DEF FreeCluster!NodeIsReady, Checked!NodeIsReady
<1>5. ASSUME FreeCluster!KubectlWaitEnds PROVE Checked!KubectlWaitEnds
  BY <1>5 DEF FreeCluster!KubectlWaitEnds, Checked!KubectlWaitEnds
<1>6. ASSUME FreeCluster!CloudInitStatus PROVE Checked!CloudInitStatus
  BY <1>6 DEF FreeCluster!CloudInitStatus, Checked!CloudInitStatus
<1>7. ASSUME FreeCluster!CloudInitTimesOut PROVE Checked!CloudInitTimesOut
  BY <1>7 DEF FreeCluster!CloudInitTimesOut, Checked!CloudInitTimesOut
<1>8. ASSUME FreeCluster!ListPods PROVE Checked!ListPods
  BY <1>8 DEF FreeCluster!ListPods, Checked!ListPods
<1>9. ASSUME FreeCluster!ListingPodsEnds PROVE Checked!ListingPodsEnds
  BY <1>9 DEF FreeCluster!ListingPodsEnds, Checked!ListingPodsEnds
<1>10. ASSUME FreeCluster!WaitForPod PROVE Checked!WaitForPod
  BY <1>10 DEF FreeCluster!WaitForPod, Checked!WaitForPod
<1>11. ASSUME FreeCluster!Join PROVE Checked!Join
  BY <1>11 DEF FreeCluster!Join, Checked!Join
<1>12. ASSUME FreeCluster!ReadyCondition PROVE Checked!ReadyCondition
  BY <1>12 DEF FreeCluster!ReadyCondition, Checked!ReadyCondition
<1>13. ASSUME FreeCluster!CloudInitEnds PROVE Checked!CloudInitEnds
  BY <1>13 DEF FreeCluster!CloudInitEnds, Checked!CloudInitEnds
<1>14. ASSUME FreeCluster!ProviderPod PROVE Checked!ProviderPod
  BY <1>14 DEF FreeCluster!ProviderPod, Checked!ProviderPod
<1> QED
  BY <1>1, <1>2, <1>3, <1>4, <1>5, <1>6, <1>7, <1>8, <1>9, <1>10, <1>11, <1>12, <1>13, <1>14
     DEF FreeCluster!Next, Checked!Next, FreeCluster!Up, Checked!Up

LEMMA SameSpec == FreeCluster!Spec => Checked!Spec
<1>1. FreeCluster!Init => Checked!Init
  BY DEF FreeCluster!Init, Checked!Init, FreeCluster!Node, Checked!Node
<1>2. UNCHANGED FreeCluster!vars => UNCHANGED Checked!vars
  BY DEF FreeCluster!vars, Checked!vars, FreeCluster!flags, Checked!flags,
         FreeCluster!clusterVars, Checked!clusterVars, FreeCluster!nodeVars, Checked!nodeVars,
         FreeCluster!podVars, Checked!podVars, FreeCluster!upVars, Checked!upVars
<1>3. [FreeCluster!Next]_FreeCluster!vars => [Checked!Next]_Checked!vars
  BY SameSteps, <1>2
<1> QED
  BY <1>1, <1>3, PTL DEF FreeCluster!Spec, Checked!Spec

\* What a silent Up is worth on these machines: what it is worth on any.
THEOREM SilentUpOfMachines == BootSpec => []SilentUpWasReady
<1>1. Checked!Spec => []Checked!SilentUpWasReady
  BY ReadinessAssumption, Checked!SilentUpCorrect
<1>2. Checked!SilentUpWasReady => SilentUpWasReady
  BY DEF Checked!SilentUpWasReady, SilentUpWasReady, Checked!Node, Node
<1> QED
  BY RefinementCorrect, SameSpec, <1>1, <1>2, PTL DEF ReadinessAllows

\* The types of Bootstrap and of the waits on top of it.
THEOREM BootTypeCorrect == BootSpec => []BootTypeOK
<1>1. Checked!Spec => []Checked!TypeOK
  BY ReadinessAssumption, Checked!TypeCorrect
<1>2. Checked!TypeOK /\ BInv => BootTypeOK
  <2> SUFFICES ASSUME Checked!TypeOK, BInv PROVE BootTypeOK
    OBVIOUS
  <2>1. TypeOK
    BY DEF Checked!TypeOK, TypeOK, BInv, BootsTyped, Checked!Node, Node
  <2> QED
    BY <2>1 DEF BInv, BootsTyped, BootTypeOK
<1> QED
  BY RefinementCorrect, SameSpec, BInvariance, <1>1, <1>2, PTL DEF ReadinessAllows

\* A silent Up stands behind a deployed cluster: the one word of cloud-init
\* that Up asks for covers the network, the provider and the add-ons.
THEOREM DeployedCorrect == BootSpec => []SilentUpWasDeployed
<1>1. BInv /\ SilentUpWasReady => SilentUpWasDeployed
  <2> SUFFICES ASSUME BInv, SilentUpWasReady, phase = "waits", pc = "returned",
                      logged = "no", kubeconfig = "ours"
               PROVE  /\ {"network", "addons"} \subseteq deployed
                      /\ external = "on" => "provider" \in deployed
                      /\ registered \subseteq installed
                      /\ nodesShort = "no" => registered = Node
    BY DEF SilentUpWasDeployed
  <2>1. cloudInit = "done" /\ (nodesShort = "no" => wereReady = Node)
    BY DEF SilentUpWasReady
  <2>2. registered \subseteq installed /\ wereReady \subseteq registered
        /\ registered \subseteq Node
    BY DEF BInv, JoinInv, BootsTyped
  <2>3. /\ {"network", "addons"} \subseteq deployed
        /\ external = "on" => "provider" \in deployed
    BY <2>1 DEF BInv, PostInv
  <2> QED
    BY <2>1, <2>2, <2>3
<1> QED
  BY BInvariance, SilentUpOfMachines, <1>1, PTL

\* The waits of Up end in a bounded number of its own steps, whatever the machines,
\* their scripts and the uploads of other jobs do meanwhile.
THEOREM ProgressOfMachines ==
    BootSpec => []Checked!Bounded /\ [][Checked!EveryStepCounts]_(Checked!vars)
<1>1. Checked!Spec => []Checked!Bounded /\ [][Checked!EveryStepCounts]_(Checked!vars)
  BY ReadinessAssumption, Checked!ProgressCorrect
<1> QED
  BY RefinementCorrect, SameSpec, <1>1, PTL DEF ReadinessAllows
=============================================================================
