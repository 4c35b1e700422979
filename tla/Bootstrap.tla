----------------------------- MODULE Bootstrap -----------------------------
(***************************************************************************)
(* The machines' side of Up.  Every machine runs the user data it was      *)
(* launched with: it waits until the staged tarball looks stable, installs *)
(* it and becomes the control plane or joins it; the control plane then    *)
(* deploys the network and the cloud provider (run-kubeadm.sh,             *)
(* run-post-install.sh, al2023.sh).  Other jobs may stage the same version *)
(* meanwhile.  These machines take the place of the free cluster Readiness *)
(* is about, and Up starts to wait when the control plane passed its check.*)
(*                                                                         *)
(* Tarballs are numbered in the order in which their uploads end; 0 is     *)
(* none.  S3 shows an object only when its upload is complete.  The model  *)
(* ends with Up.                                                           *)
(***************************************************************************)
EXTENDS Readiness

CONSTANTS MaxReadings,  \* iterations of wait_for_update's loop (20 in the code)
          MaxUploads,   \* bound: tarballs staged under this version
          Size          \* the size of each of them

Tarballs == 1 .. MaxUploads

ASSUME BootstrapAssumption ==
    /\ MaxReadings \in Nat \ {0} /\ MaxUploads \in Nat \ {0}
    /\ Size \in [Tarballs -> Nat \ {0}]

Reading == [etag : 0 .. MaxUploads, size : Nat]
NoReading == [etag |-> 0, size |-> 0]

VARIABLES
    staging,    \* {{STAGING_BUCKET}}: a "bucket", or a "url" of release artifacts
    object,     \* the tarball S3 has now
    script,     \* the user data of the control plane: "ubuntu" or "al2023"
    boot,       \* where each machine is in it
    last,       \* previous_etag and previous_size of each machine
    etag,       \* current_etag
    readings,   \* iterations of the loop
    installed,  \* the machines that installed a tarball
    deployed,   \* of "network", "provider" and "addons" what post-install deployed
    phase       \* Up: "check", "waits" or "failed"

s3Vars == <<staging, object>>
waitVars == <<last, etag, readings>>
machineVars == <<script, boot, waitVars, installed, deployed>>
bootVars == <<s3Vars, machineVars, phase>>
allVars == <<vars, bootVars>>

\* ValidateS3Bucket found some object of this version, not necessarily the
\* tarball of this architecture.
BootInit ==
    /\ kubeconfig \in {"ours", "foreign"} /\ external \in {"on", "off"}
    /\ registered = {} /\ ready = {} /\ wereReady = {}
    /\ cloudInit = "running" /\ pod = 0 /\ podsReady = {}
    /\ pc = "nodes" /\ polls = 0 /\ targets = {} /\ podName = 0
    /\ nodesShort = "no" /\ logged = "no"
    /\ staging \in {"bucket", "url"} /\ object \in {0, 1}
    /\ staging = "url" => object = 1
    /\ script \in {"ubuntu", "al2023"}
    /\ boot = [n \in Node |-> "boot"]
    /\ last = [n \in Node |-> NoReading] /\ etag = [n \in Node |-> 0]
    /\ readings = [n \in Node |-> 0] /\ installed = {}
    /\ deployed = {}
    /\ phase = "check"

At(n, label) == boot[n] = label
Goto(n, label) == boot' = [boot EXCEPT ![n] = label]

-----------------------------------------------------------------------------
\* Stage of another job ends an upload under the same key.
Stage ==
    /\ staging = "bucket" /\ object < MaxUploads
    /\ object' = object + 1
    /\ UNCHANGED <<vars, staging, machineVars, phase>>

(***************************************************************************)
(* run-kubeadm.sh, and the same lines in al2023.sh.                        *)
(***************************************************************************)
Boot(n) ==
    /\ At(n, "boot")
    /\ Goto(n, IF staging = "url" THEN "download" ELSE "etag")
    /\ UNCHANGED <<waitVars, installed>>

\* get_etag and get_size are a call of their own each.
GetEtag(n) ==
    /\ At(n, "etag") /\ object # 0
    /\ etag' = [etag EXCEPT ![n] = object] /\ Goto(n, "size")
    /\ UNCHANGED <<last, readings, installed>>

Current(n) == [etag |-> etag[n], size |-> Size[object]]

IsStable_SizeOnly(n) == Current(n).size = last[n].size   \* fault: etags not compared
IsStable(n) == Current(n) = last[n]

GetSize(n) ==
    /\ At(n, "size") /\ object # 0
    /\ \/ IsStable(n) /\ Goto(n, "download") /\ UNCHANGED <<last, readings>>
       \/ /\ ~IsStable(n) /\ readings[n] < MaxReadings
          /\ last' = [last EXCEPT ![n] = Current(n)]
          /\ readings' = [readings EXCEPT ![n] = @ + 1]
          /\ Goto(n, "etag")
    /\ UNCHANGED <<etag, installed>>

\* The variables of wait_for_update are of no use any more.
Forget(n) ==
    /\ last' = [last EXCEPT ![n] = NoReading]
    /\ etag' = [etag EXCEPT ![n] = 0] /\ readings' = [readings EXCEPT ![n] = 0]

Download(n) ==
    /\ At(n, "download") /\ object # 0
    /\ installed' = installed \cup {n} /\ Goto(n, "kubeadm") /\ Forget(n)

\* {{KUBEADM_CONTROL_PLANE}}; al2023.sh only ever joins.
Initialises(n) == n = 0 /\ script = "ubuntu"

\* What a machine does when run-kubeadm.sh is over, whatever its exit status:
\* cloud-init goes on with run-post-install.sh, which is empty for a worker.
AfterKubeadm(n) == Goto(n, IF Initialises(n) THEN "network" ELSE "end")

\* kubeadm join needs an API server behind the control plane's address.
Kubeadm(n) ==
    /\ At(n, "kubeadm")
    /\ Initialises(n) \/ (n # 0 /\ 0 \in registered)
    /\ registered' = registered \cup {n} /\ AfterKubeadm(n)
    /\ UNCHANGED <<waitVars, installed, cloudInit>>

\* set -e: a call that fails, an object that is not there and the timeout of
\* wait_for_update all end the script.
ScriptFails(n) ==
    /\ boot[n] \in {"etag", "size", "download", "kubeadm"}
    /\ AfterKubeadm(n) /\ Forget(n)
    /\ cloudInit' = IF n = 0 /\ script = "al2023" THEN "error" ELSE cloudInit
    /\ UNCHANGED <<installed, registered>>

-----------------------------------------------------------------------------
(***************************************************************************)
(* run-post-install.sh of the control plane.                               *)
(***************************************************************************)
Deploy(part) == deployed' = deployed \cup {part}

DeployNetwork ==
    /\ At(0, "network") /\ 0 \in registered
    /\ Deploy("network") /\ Goto(0, IF external = "on" THEN "provider" ELSE "addons")
    /\ UNCHANGED cloudInit

ApplyProvider ==
    /\ At(0, "provider")
    /\ Deploy("provider") /\ Goto(0, "addons")
    /\ UNCHANGED cloudInit

\* The last command waits for the DNS pods, which need a node.
WaitForDNS ==
    /\ At(0, "addons") /\ wereReady # {}
    /\ Deploy("addons") /\ Goto(0, "end") /\ cloudInit' = "done"

ExitStatus_Ignored == {"done", "error"}   \* fault: the script is run without set -e
ExitStatus == {"error"}

PostInstallFails ==
    /\ boot[0] \in {"network", "provider", "addons"}
    /\ Goto(0, "end") /\ cloudInit' \in ExitStatus
    /\ UNCHANGED deployed

PostInstall ==
    /\ DeployNetwork \/ ApplyProvider \/ WaitForDNS \/ PostInstallFails
    /\ UNCHANGED <<flags, upVars, nodeVars, podVars,
                   s3Vars, script, waitVars, installed, phase>>

Machine(n) ==
    /\ \/ (Boot(n) \/ GetEtag(n) \/ GetSize(n) \/ Download(n)) /\ UNCHANGED <<registered, cloudInit>>
       \/ Kubeadm(n) \/ ScriptFails(n)
    /\ UNCHANGED <<flags, upVars, ready, wereReady, podVars, s3Vars, script, deployed, phase>>

-----------------------------------------------------------------------------
(***************************************************************************)
(* The cluster on these machines.  A node is Ready only with a network.    *)
(***************************************************************************)
MayBeReady(n) == n \in registered /\ "network" \in deployed

NodeCondition ==
    /\ \E n \in Node :
         \/ MayBeReady(n) /\ ready' = ready \cup {n} /\ wereReady' = wereReady \cup {n}
         \/ n \in ready /\ ready' = ready \ {n} /\ UNCHANGED wereReady
    /\ UNCHANGED <<flags, upVars, registered, cloudInit, podVars, bootVars>>

Controller == "provider" \in deployed /\ ProviderPod /\ UNCHANGED bootVars

-----------------------------------------------------------------------------
(***************************************************************************)
(* Up: the checks of all instances, then the waits.  A worker passes its   *)
(* check as soon as it has booted, the control plane with its own node.    *)
(***************************************************************************)
ChecksPass_AnyNode ==   \* fault: an answer of the machine is enough
    /\ phase = "check" /\ phase' = "waits"
    /\ \A n \in Node : boot[n] # "boot"
    /\ UNCHANGED <<vars, s3Vars, machineVars>>
ChecksPass ==
    /\ phase = "check" /\ phase' = "waits"
    /\ 0 \in registered /\ \A n \in Node : boot[n] # "boot"
    /\ UNCHANGED <<vars, s3Vars, machineVars>>

CheckFails ==
    /\ phase = "check" /\ phase' = "failed"
    /\ UNCHANGED <<vars, s3Vars, machineVars>>

BringUp == ChecksPass \/ CheckFails \/ (phase = "waits" /\ Up /\ UNCHANGED bootVars)

UpHasEnded == phase = "failed" \/ pc = "returned"

Ended == UpHasEnded /\ UNCHANGED allVars

BootNext ==
    \/ /\ ~UpHasEnded
       /\ \/ Stage \/ (\E n \in Node : Machine(n)) \/ PostInstall
          \/ NodeCondition \/ Controller \/ BringUp
    \/ Ended

BootSpec == BootInit /\ [][BootNext]_allVars

\* isAWSInstanceRunning and every wait are bounded; the machines owe nothing.
FairBootSpec == BootSpec /\ WF_allVars(BringUp)

-----------------------------------------------------------------------------
BootTypeOK ==
    /\ TypeOK
    /\ staging \in {"bucket", "url"} /\ script \in {"ubuntu", "al2023"}
    /\ object \in 0 .. MaxUploads
    /\ boot \in [Node -> {"boot", "etag", "size", "download", "kubeadm", "network",
                          "provider", "addons", "end"}]
    /\ last \in [Node -> Reading] /\ etag \in [Node -> 0 .. MaxUploads]
    /\ readings \in [Node -> 0 .. MaxReadings]
    /\ installed \subseteq Node
    /\ deployed \subseteq {"network", "provider", "addons"}
    /\ phase \in {"check", "waits", "failed"}

(***************************************************************************)
(* wait_for_update reads etag and size in two calls, so a single pass may  *)
(* see the etag of one tarball and the size of the next.  What it calls    *)
(* stable is nevertheless one tarball: two equal passes cannot both be     *)
(* torn, because an etag does not come back.                               *)
(***************************************************************************)
StableIsOneTarball ==
    \A n \in Node : boot[n] = "download" /\ staging = "bucket" =>
        last[n].etag # 0 /\ last[n].size = Size[last[n].etag]

(***************************************************************************)
(* Up asks the control plane for one word, cloud-init's status.  When no   *)
(* wait logged anything, that word stands for all the scripts did: the     *)
(* network, if asked for the cloud provider, and the add-ons that come     *)
(* last are deployed, and every node that was counted runs a tarball it    *)
(* installed itself.                                                       *)
(***************************************************************************)
SilentUpWasDeployed ==
    phase = "waits" /\ pc = "returned" /\ logged = "no" /\ kubeconfig = "ours" =>
        /\ {"network", "addons"} \subseteq deployed
        /\ external = "on" => "provider" \in deployed
        /\ registered \subseteq installed
        /\ nodesShort = "no" => registered = Node

(***************************************************************************)
(* Up ends, with the error of a check or with a cluster, even if the       *)
(* tarball is never stable, no worker joins and post-install hangs.        *)
(***************************************************************************)
UpEnds == <>UpHasEnded

(***************************************************************************)
(* Whatever the machines do, Readiness allows: its free cluster covers     *)
(* them, once the control plane is taken for registered from the start     *)
(* (the checks pass only when it is).                                      *)
(***************************************************************************)
FreeCluster == INSTANCE Readiness WITH registered <- registered \cup {0}
ReadinessAllows == FreeCluster!Spec
=============================================================================
