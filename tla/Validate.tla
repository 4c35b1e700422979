------------------------------ MODULE Validate ------------------------------
(***************************************************************************)
(* Validate turns the options into the machines Up will launch: it looks   *)
(* up the images that were not given as an AMI, picks the user data that   *)
(* goes with them, moves the default instance types to the architecture of *)
(* the build, checks the staged build and fills in the templates.  Every   *)
(* call to AWS and every read of a file may fail, and ends it.             *)
(*                                                                         *)
(* "none" stands for an option that is empty.                              *)
(***************************************************************************)
EXTENDS Naturals, Sequences

CONSTANT NumNodes   \* the flag --num-nodes: workers

ASSUME ValidateAssumption == NumNodes \in Nat

Machine == {"controlPlane", "worker"}
OperatingSystems == {"ubuntu", "al2023"}
LookedUp == [none |-> "ami-ubuntu", ubuntu |-> "ami-ubuntu", al2023 |-> "ami-al2023"]
AMIs == {"ami", "ami-ubuntu", "ami-al2023"}           \* "ami": given as such
UserDataFor ==
    [none |-> "ubuntu2604.yaml", ubuntu |-> "ubuntu2604.yaml", al2023 |-> "al2023.sh"]

Images == {"none", "ami", "other"} \cup OperatingSystems
Embedded == {"ubuntu2604.yaml", "al2023.sh"}
Files == {"none", "onDisk"} \cup Embedded
Types == {"r5d.xlarge", "r7g.xlarge", "other"}       \* both defaults, any other

VARIABLES
    given,     \* the options image, file and type of each machine, as given
    image,     \* Image and WorkerImage
    file,      \* UserDataFile and WorkerUserDataFile
    type,      \* InstanceType and WorkerInstanceType
    arch,      \* TargetBuildArch
    nvidia,    \* which of --device-plugin-nvidia and --dra-nvidia are set
    staging,   \* StageLocation: "none", a "bucket" or a "url"
    pc,        \* the next step of Validate
    userData,  \* what getUserData made for each machine
    images     \* internalAWSImages

options == <<given, arch, nvidia, staging>>
vars == <<options, image, file, type, pc, userData, images>>

NoUserData == [template |-> "none", open |-> [f \in {} |-> {}]]

Init ==
    /\ given \in [image : [Machine -> Images], file : [Machine -> Files],
                  type : [Machine -> {"r5d.xlarge", "other"}]]
    /\ image = given.image /\ file = given.file /\ type = given.type
    /\ arch \in {"amd64", "arm64"} /\ nvidia \in {"atMostOne", "both"}
    /\ staging \in {"none", "bucket", "url"}
    /\ pc = "flags" /\ userData = [m \in Machine |-> NoUserData] /\ images = <<>>

Goto(label) == pc' = label
Fail == pc' = "failed"

-----------------------------------------------------------------------------
\* The flags that exclude each other, and InitializeServices.
CheckFlags ==
    /\ pc = "flags"
    /\ (nvidia # "both" /\ Goto("bucket")) \/ Fail
    /\ UNCHANGED <<options, image, file, type, userData, images>>

CheckBucket ==
    /\ pc = "bucket"
    /\ \/ staging # "none" /\ Goto("controlPlane image")
       \/ staging # "url" /\ Fail
    /\ UNCHANGED <<options, image, file, type, userData, images>>

\* Both blocks move both types.
FitTypes_FirstOnly ==   \* fault: the control plane's type, twice
    type' = [type EXCEPT !["controlPlane"] =
                IF @ = "r5d.xlarge" /\ arch = "arm64" THEN "r7g.xlarge" ELSE @]
FitTypes ==
    type' = [m \in Machine |->
                IF type[m] = "r5d.xlarge" /\ arch = "arm64" THEN "r7g.xlarge" ELSE type[m]]

PickUserData_Again(m) ==   \* fault: the option of the control plane, twice
    file' = [file EXCEPT !["controlPlane"] = IF file[m] = "none" THEN UserDataFor[image[m]] ELSE @]
PickUserData(m) ==
    file' = [file EXCEPT ![m] = IF @ = "none" THEN UserDataFor[image[m]] ELSE @]

\* What is not the name of an operating system must be an AMI.
LookUpImage(m, here, next) ==
    /\ pc = here
    /\ \/ /\ image[m] \in DOMAIN LookedUp /\ Goto(next)
          /\ PickUserData(m) /\ FitTypes
          /\ image' = [image EXCEPT ![m] = LookedUp[@]]
       \/ /\ image[m] \in DOMAIN LookedUp /\ Fail            \* GetSSMImage
          /\ PickUserData(m) /\ UNCHANGED <<image, type>>
       \/ image[m] \in AMIs /\ Goto(next) /\ UNCHANGED <<image, file, type>>
       \/ image[m] = "other" /\ Fail /\ UNCHANGED <<image, file, type>>
    /\ UNCHANGED <<options, userData, images>>

\* ensureInstanceProfileAndRole, the version and ValidateS3Bucket.
EnsureProfile ==
    /\ pc = "profile"
    /\ Goto("version") \/ Fail
    /\ UNCHANGED <<options, image, file, type, userData, images>>

CheckVersion ==
    /\ pc = "version"
    /\ Goto("controlPlane data") \/ Fail
    /\ UNCHANGED <<options, image, file, type, userData, images>>

-----------------------------------------------------------------------------
(***************************************************************************)
(* The templates: what is open in each file, which files are embedded in   *)
(* the user data (compressed, so no later replacement reaches them), and   *)
(* who fills what.                                                         *)
(***************************************************************************)
EmbeddedAs ==
    [CONFIGURE_SH |-> "configure.sh", KUBEADM_INIT_YAML |-> "kubeadm-init.yaml",
     KUBEADM_JOIN_YAML |-> "kubeadm-join.yaml", RUN_KUBEADM_SH |-> "run-kubeadm.sh",
     RUN_POST_INSTALL_SH |-> "run-post-install.sh"]
Services == {"CONTAINERD_INSTALL_SERVICE", "CONTAINERD_SERVICE", "CONTAINERD_TARGET",
             "KUBEADM_CONF", "KUBELET_SERVICE", "CREDENTIAL_PROVIDER_YAML"}
Staged == {"STAGING_BUCKET", "STAGING_VERSION"}
PerNode == {"HOSTNAME_OVERRIDE", "NODE_IP", "PROVIDER_ID"}
Cloud == {"EXTERNAL_CLOUD_PROVIDER"}
AddOns == {"EXTERNAL_CLOUD_PROVIDER_IMAGE", "EXTERNAL_LOAD_BALANCER", "ENABLE_DRA_NVIDIA",
           "ENABLE_NVIDIA_DEVICE_PLUGIN"}
Secrets == {"KUBEADM_TOKEN", "KUBEADM_CERTIFICATE_KEY"}

Placeholders(f) ==
  CASE f = "ubuntu2604.yaml" -> DOMAIN EmbeddedAs \cup Services
                                  \cup {"KUBEADM_CONTROL_PLANE", "KUBEADM_CONTROL_PLANE_IP"}
    [] f = "al2023.sh" -> Staged \cup PerNode \cup Cloud
            \cup {"FEATURE_GATES", "KUBEADM_CONTROL_PLANE_IP", "KUBEADM_TOKEN", "NODE_LABELS"}
    [] f = "configure.sh" -> {"CONTAINERD_PULL_REFS"}
    [] f = "kubeadm-init.yaml" -> PerNode \cup Cloud
            \cup {"BOOTSTRAP_TOKEN", "EXTRA_SANS", "FEATURE_GATES", "KUBERNETES_VERSION",
                  "POD_CIDR", "RUNTIME_CONFIG"}
    [] f = "kubeadm-join.yaml" -> PerNode \cup Cloud
            \cup {"BOOTSTRAP_TOKEN", "FEATURE_GATES", "KUBEADM_CONTROL_PLANE_IP"}
    [] f = "run-kubeadm.sh" -> Staged \cup Secrets \cup Cloud
    [] f = "run-post-install.sh" -> Cloud \cup AddOns
    [] OTHER -> {}                    \* a template of the user's own

\* The replacements getUserData makes in the text and in each embedded file.
InText == Staged \cup Secrets \cup Cloud \cup AddOns \cup Services \cup DOMAIN EmbeddedAs
            \cup {"KUBEADM_CLUSTER_ID", "FEATURE_GATES", "NODE_LABELS", "KUBEADM_CONTROL_PLANE"}
FilledIn_TextOnly(f) ==   \* fault: run-kubeadm.sh is left to the replacements in the text
  IF f = "run-kubeadm.sh" THEN Secrets \cup Cloud ELSE Placeholders(f)
FilledIn(f) ==
  CASE f = "configure.sh" -> {"CONTAINERD_PULL_REFS"}
    [] f = "kubeadm-init.yaml" -> Cloud \cup {"RUNTIME_CONFIG", "FEATURE_GATES"}
    [] f = "kubeadm-join.yaml" -> Cloud \cup {"FEATURE_GATES"}
    [] f = "run-kubeadm.sh" -> Staged \cup Secrets \cup Cloud
    [] f = "run-post-install.sh" -> Cloud \cup AddOns \cup {"FEATURE_GATES"}
    [] OTHER -> InText

\* Filled later: by LaunchNewInstance, and by sed when the machine boots.
AtLaunch == {"KUBEADM_CONTROL_PLANE_IP"}
FilledLater(f) ==
  CASE f = "kubeadm-init.yaml" -> PerNode
            \cup {"BOOTSTRAP_TOKEN", "EXTRA_SANS", "KUBERNETES_VERSION", "POD_CIDR"}
    [] f = "kubeadm-join.yaml" -> PerNode \cup {"BOOTSTRAP_TOKEN", "KUBEADM_CONTROL_PLANE_IP"}
    [] f = "al2023.sh" -> PerNode \cup AtLaunch
    [] f \in {"ubuntu2604.yaml", "onDisk"} -> AtLaunch
    [] OTHER -> {}

Template(m) == IF file[m] = "none" THEN "ubuntu2604.yaml" ELSE file[m]
FilesOf(t) == {t} \cup {EmbeddedAs[p] : p \in Placeholders(t) \cap DOMAIN EmbeddedAs}

\* Any file may be missing, and the result too large.
GetUserData(m, here, next) ==
    /\ pc = here
    /\ \/ /\ Goto(next)
          /\ userData' = [userData EXCEPT ![m] =
                [template |-> Template(m),
                 open |-> [f \in FilesOf(Template(m)) |-> Placeholders(f) \ FilledIn(f)]]]
       \/ Fail /\ UNCHANGED userData
    /\ UNCHANGED <<options, image, file, type, images>>

ImageFor(m) == [ami |-> image[m], userData |-> userData[m], instanceType |-> type[m]]

PrepareImages ==
    /\ pc = "images" /\ Goto("passed")
    /\ images' = [i \in 1 .. NumNodes + 1 |->
                    ImageFor(IF i = 1 THEN "controlPlane" ELSE "worker")]
    /\ UNCHANGED <<options, image, file, type, userData>>

Ended == pc \in {"passed", "failed"} /\ UNCHANGED vars

Next ==
    \/ CheckFlags \/ CheckBucket
    \/ LookUpImage("controlPlane", "controlPlane image", "worker image")
    \/ LookUpImage("worker", "worker image", "profile")
    \/ EnsureProfile \/ CheckVersion
    \/ GetUserData("controlPlane", "controlPlane data", "worker data")
    \/ GetUserData("worker", "worker data", "images")
    \/ PrepareImages \/ Ended

Spec == Init /\ [][Next]_vars

-----------------------------------------------------------------------------
TypeOK ==
    /\ given \in [image : [Machine -> Images], file : [Machine -> Files],
                  type : [Machine -> Types]]
    /\ image \in [Machine -> Images \cup AMIs] /\ file \in [Machine -> Files]
    /\ type \in [Machine -> Types]
    /\ arch \in {"amd64", "arm64"} /\ nvidia \in {"atMostOne", "both"}
    /\ staging \in {"none", "bucket", "url"}
    /\ pc \in {"flags", "bucket", "controlPlane image", "worker image", "profile", "version",
               "controlPlane data", "worker data", "images", "passed", "failed"}

MachineAt(i) == IF i = 1 THEN "controlPlane" ELSE "worker"

(***************************************************************************)
(* The two blocks of Validate differ in the options they set only.  A      *)
(* machine gets the user data the user named for it, else the script of    *)
(* the operating system named for it, else (an AMI) the one for Ubuntu,    *)
(* whatever was said of the other machine.                                 *)
(***************************************************************************)
ScriptFollowsImage ==
    \A i \in DOMAIN images : LET m == MachineAt(i) IN
        images[i].userData.template =
            IF given.file[m] # "none" THEN given.file[m]
            ELSE IF given.image[m] = "al2023" THEN "al2023.sh" ELSE "ubuntu2604.yaml"

(***************************************************************************)
(* A machine has the instance type given for it, with one exception: on    *)
(* arm64 the default for amd64 becomes the one for arm64 as soon as the    *)
(* image of either machine is looked up, for then it is an arm64 image.    *)
(* So a machine with a looked-up image never keeps the wrong default; one  *)
(* with an AMI of its own moves along with the other, or keeps the default *)
(* when both have AMIs.                                                    *)
(***************************************************************************)
SomeLookUp == \E m \in Machine : given.image[m] # "ami"
MachinesFitArch ==
    \A i \in DOMAIN images : LET m == MachineAt(i) IN
        images[i].instanceType =
            IF given.type[m] = "r5d.xlarge" /\ arch = "arm64" /\ SomeLookUp
            THEN "r7g.xlarge" ELSE given.type[m]

(***************************************************************************)
(* No file a machine uses still holds a placeholder when nobody is left to *)
(* fill it: what is embedded is compressed, so each file needs its own     *)
(* replacements, and the rest must be known at launch or to the machine.   *)
(* (A control plane does not read kubeadm-join.yaml, a worker does not     *)
(* read kubeadm-init.yaml.)                                                *)
(***************************************************************************)
Uses(m) == IF m = "controlPlane" THEN {"kubeadm-init.yaml"} ELSE {"kubeadm-join.yaml"}
NothingLeftToFill ==
    \A i \in DOMAIN images : LET open == images[i].userData.open IN
        \A f \in DOMAIN open :
            f \notin {"kubeadm-init.yaml", "kubeadm-join.yaml"} \/ f \in Uses(MachineAt(i))
                => open[f] \subseteq FilledLater(f)
=============================================================================
