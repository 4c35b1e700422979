--------------------------- MODULE ValidateProofs ---------------------------
(***************************************************************************)
(* Proofs about Validate for every number of workers.  The invariant       *)
(* follows each option to the machines: what the option of a machine has   *)
(* become once its image is settled, what getUserData made of it, and what *)
(* ends up in internalAWSImages.                                           *)
(***************************************************************************)
EXTENDS Validate, TLAPS

BeforeImages == {"flags", "bucket", "controlPlane image"}
BeforeWorker == BeforeImages \cup {"worker image"}
BeforeData == BeforeWorker \cup {"profile", "version", "controlPlane data"}
BeforeWorkerData == BeforeData \cup {"worker data"}

\* The image of a machine has not been looked at, or no longer matters.
Pending(m) ==
    \/ pc = "failed"
    \/ pc \in (IF m = "controlPlane" THEN BeforeImages ELSE BeforeWorker)

\* Before its block of Validate a machine has the options as given, after it an
\* AMI and the user data that goes with the image named.
OptionInv ==
    \A m \in Machine :
        /\ pc # "failed" /\ Pending(m) => image[m] = given.image[m] /\ file[m] = given.file[m]
        /\ ~Pending(m) =>
              /\ image[m] = IF given.image[m] = "ami" THEN "ami" ELSE LookedUp[given.image[m]]
              /\ given.image[m] \in DOMAIN LookedUp \cup {"ami"}
              /\ file[m] = IF given.file[m] = "none" /\ given.image[m] # "ami"
                             THEN UserDataFor[given.image[m]] ELSE given.file[m]

\* The type of a machine is the one given, or what the look-ups so far made of it.
Moves(m) == given.type[m] = "r5d.xlarge" /\ arch = "arm64"
TypeInv ==
    pc # "failed" => \A m \in Machine :
        type[m] = IF Moves(m) /\ (\E n \in Machine : ~Pending(n) /\ given.image[n] # "ami")
                  THEN "r7g.xlarge" ELSE given.type[m]

\* What getUserData makes of a template.
Made(m) == [template |-> Template(m),
            open |-> [f \in FilesOf(Template(m)) |-> Placeholders(f) \ FilledIn(f)]]

DataInv ==
    pc # "failed" =>
        /\ pc \notin BeforeData => userData["controlPlane"] = Made("controlPlane")
        /\ pc \notin BeforeWorkerData => userData["worker"] = Made("worker")

\* The machines are those the options came to.
ImagesInv ==
    IF pc = "passed"
      THEN images = [i \in 1 .. NumNodes + 1 |-> ImageFor(MachineAt(i))]
      ELSE images = <<>>

IInv == TypeOK /\ OptionInv /\ TypeInv /\ DataInv /\ ImagesInv

-----------------------------------------------------------------------------
\* Nothing in a file stays open but what is filled later (getUserData and the
\* templates of config/).
LEMMA FilledWhole == \A f : Placeholders(f) \ FilledIn(f) \subseteq FilledLater(f)
<1> SUFFICES ASSUME NEW f PROVE Placeholders(f) \ FilledIn(f) \subseteq FilledLater(f)
  OBVIOUS
<1> USE DEF Placeholders, FilledIn, FilledLater, InText, AtLaunch, Staged, Secrets, Cloud,
        AddOns, Services, PerNode
<1>1. CASE f = "ubuntu2604.yaml"
  BY <1>1
<1>2. CASE f = "al2023.sh"
  BY <1>2
<1>3. CASE f = "configure.sh"
  BY <1>3
<1>4. CASE f = "kubeadm-init.yaml"
  BY <1>4
<1>5. CASE f = "kubeadm-join.yaml"
  BY <1>5
<1>6. CASE f = "run-kubeadm.sh"
  BY <1>6
<1>7. CASE f = "run-post-install.sh"
  BY <1>7
<1>8. CASE f \notin {"ubuntu2604.yaml", "al2023.sh", "configure.sh", "kubeadm-init.yaml",
                     "kubeadm-join.yaml", "run-kubeadm.sh", "run-post-install.sh"}
  BY <1>8
<1> QED
  BY <1>1, <1>2, <1>3, <1>4, <1>5, <1>6, <1>7, <1>8

\* Validate starts inside the invariant (Init).
LEMMA InitIInv == Init => IInv
<1> SUFFICES ASSUME Init PROVE IInv
  OBVIOUS
<1> USE DEF Init, Machine, Types
<1>1. TypeOK
  BY DEF TypeOK
<1>2. OptionInv
  BY DEF OptionInv, Pending, BeforeImages, BeforeWorker
<1>3. TypeInv
  BY DEF TypeInv, Pending, BeforeImages, BeforeWorker
<1>4. DataInv
  BY DEF DataInv, BeforeData, BeforeWorkerData, BeforeWorker, BeforeImages
<1>5. ImagesInv
  BY DEF ImagesInv
<1> QED
  BY <1>1, <1>2, <1>3, <1>4, <1>5 DEF IInv

\* The look-ups, as functions.
LEMMA Tables ==
    /\ DOMAIN LookedUp = {"none", "ubuntu", "al2023"}
    /\ LookedUp["none"] = "ami-ubuntu" /\ LookedUp["ubuntu"] = "ami-ubuntu"
    /\ LookedUp["al2023"] = "ami-al2023"
    /\ UserDataFor["none"] = "ubuntu2604.yaml" /\ UserDataFor["ubuntu"] = "ubuntu2604.yaml"
    /\ UserDataFor["al2023"] = "al2023.sh"
  BY DEF LookedUp, UserDataFor

\* The block of a machine settles its image, and the user data that goes with it.
LEMMA LookUpStep ==
    ASSUME IInv, NEW m \in Machine, NEW here, NEW next,
           \/ m = "controlPlane" /\ here = "controlPlane image" /\ next = "worker image"
           \/ m = "worker" /\ here = "worker image" /\ next = "profile",
           LookUpImage(m, here, next)
    PROVE  IInv'
<1> USE Tables DEF IInv, Goto, Fail
<1>1. /\ pc = here /\ pc' \in {next, "failed"} /\ UNCHANGED <<options, userData, images>>
      /\ given' = given /\ arch' = arch
  BY DEF LookUpImage, options
<1>t. /\ image \in [Machine -> Images \cup AMIs] /\ file \in [Machine -> Files]
      /\ type \in [Machine -> Types]
  BY DEF TypeOK
<1>2. /\ image' \in [Machine -> Images \cup AMIs] /\ file' \in [Machine -> Files]
  <2>1. \A o \in DOMAIN LookedUp : LookedUp[o] \in AMIs /\ UserDataFor[o] \in Files
    BY DEF AMIs, Files, Embedded
  <2> QED
    BY <2>1, <1>t DEF LookUpImage, PickUserData
<1>3. type' \in [Machine -> Types]
  BY <1>t DEF LookUpImage, FitTypes, Types
<1>4. TypeOK'
  BY <1>1, <1>2, <1>3 DEF TypeOK, options
<1>5. OptionInv'
  <2>1. CASE pc' = "failed"
    BY <2>1 DEF OptionInv, Pending
  <2>2. CASE pc' = next
    <3>1. /\ image[m] = given.image[m] /\ file[m] = given.file[m]
      BY <1>1 DEF OptionInv, Pending, BeforeImages, BeforeWorker, Machine
    <3>2. \/ /\ image[m] \in DOMAIN LookedUp
             /\ image' = [image EXCEPT ![m] = LookedUp[image[m]]]
             /\ file' = [file EXCEPT ![m] = IF file[m] = "none" THEN UserDataFor[image[m]]
                                                              ELSE file[m]]
          \/ image[m] \in AMIs /\ UNCHANGED <<image, file>>
      BY <2>2, <1>1 DEF LookUpImage, PickUserData
    <3>3. given.image[m] \in Images
      BY DEF TypeOK
    <3>4. given.image[m] \in DOMAIN LookedUp \/ given.image[m] = "ami"
      BY <3>1, <3>2, <3>3 DEF Images, AMIs, OperatingSystems
    <3>5. /\ image'[m] = IF given.image[m] = "ami" THEN "ami" ELSE LookedUp[given.image[m]]
          /\ file'[m] = IF given.file[m] = "none" /\ given.image[m] # "ami"
                          THEN UserDataFor[given.image[m]] ELSE given.file[m]
      BY <3>1, <3>2, <3>4, <1>t DEF AMIs
    <3>6. \A n \in Machine \ {m} : image'[n] = image[n] /\ file'[n] = file[n]
      BY <3>2, <1>t
    <3>7. \A n \in Machine \ {m} : Pending(n)' <=> Pending(n)
      BY <2>2, <1>1 DEF Pending, BeforeImages, BeforeWorker, Machine
    <3>8. ~Pending(m)' /\ pc # "failed"
      BY <2>2, <1>1 DEF Pending, BeforeImages, BeforeWorker
    <3> SUFFICES ASSUME NEW n \in Machine
                 PROVE
                   /\ ~Pending(n)' <=> ~(Pending(n) /\ n # m)
                   /\ Pending(n) /\ n # m => image'[n] = given.image[n] /\ file'[n] = given.file[n]
                   /\ ~(Pending(n) /\ n # m) =>
                        /\ image'[n] = IF given.image[n] = "ami" THEN "ami"
                                      ELSE LookedUp[given.image[n]]
                        /\ given.image[n] \in DOMAIN LookedUp \cup {"ami"}
                        /\ file'[n] = IF given.file[n] = "none" /\ given.image[n] # "ami"
                                        THEN UserDataFor[given.image[n]] ELSE given.file[n]
      BY <1>1 DEF OptionInv
    <3>9. CASE n = m
      BY <3>9, <3>4, <3>5, <3>8
    <3>10. CASE n # m
      <4>1. image'[n] = image[n] /\ file'[n] = file[n] /\ (Pending(n)' <=> Pending(n))
        BY <3>10, <3>6, <3>7
      <4>2. Pending(n) => image[n] = given.image[n] /\ file[n] = given.file[n]
        BY <3>8 DEF OptionInv
      <4>3. ~Pending(n) =>
              /\ image[n] = IF given.image[n] = "ami" THEN "ami" ELSE LookedUp[given.image[n]]
              /\ given.image[n] \in DOMAIN LookedUp \cup {"ami"}
              /\ file[n] = IF given.file[n] = "none" /\ given.image[n] # "ami"
                            THEN UserDataFor[given.image[n]] ELSE given.file[n]
        BY DEF OptionInv
      <4> QED
        BY <4>1, <4>2, <4>3, <3>10
    <3> QED
      BY <3>9, <3>10
  <2> QED
    BY <1>1, <2>1, <2>2
<1>6. TypeInv'
  <2> SUFFICES ASSUME pc' = next, NEW n \in Machine
               PROVE  type'[n] =
                        IF Moves(n) /\ (\E k \in Machine : ~Pending(k)' /\ given.image[k] # "ami")
                        THEN "r7g.xlarge" ELSE given.type[n]
    BY <1>1 DEF TypeInv, Moves, Pending
  <2>1. pc # "failed" /\ image[m] = given.image[m] /\ next # "failed"
    BY <1>1 DEF OptionInv, Pending, BeforeImages, BeforeWorker, Machine
  <2>2. type[n] = IF Moves(n) /\ (\E k \in Machine : ~Pending(k) /\ given.image[k] # "ami")
                  THEN "r7g.xlarge" ELSE given.type[n]
    BY <2>1 DEF TypeInv
  <2>3. ~Pending(m)' /\ \A k \in Machine \ {m} : Pending(k)' <=> Pending(k)
    BY <1>1, <2>1 DEF Pending, BeforeImages, BeforeWorker, Machine
  <2>4. CASE image[m] \in DOMAIN LookedUp /\ FitTypes
    <3>1. \E k \in Machine : ~Pending(k)' /\ given.image[k] # "ami"
      BY <2>1, <2>3, <2>4
    <3>2. type'[n] = IF type[n] = "r5d.xlarge" /\ arch = "arm64" THEN "r7g.xlarge" ELSE type[n]
      BY <2>4 DEF FitTypes
    <3>3. arch = "arm64" /\ given.type[n] = "r5d.xlarge" <=> Moves(n)
      BY DEF Moves
    <3> QED
      BY <2>2, <3>1, <3>2, <3>3
  <2>5. CASE image[m] \in AMIs /\ UNCHANGED type
    <3>1. given.image[m] = "ami"
      BY <2>1, <2>5 DEF TypeOK, Images, AMIs, OperatingSystems
    <3>2. Pending(m)
      BY <1>1 DEF Pending, BeforeImages, BeforeWorker
    <3>3. (\E k \in Machine : ~Pending(k)' /\ given.image[k] # "ami")
            <=> (\E k \in Machine : ~Pending(k) /\ given.image[k] # "ami")
      BY <2>3, <3>1, <3>2
    <3> QED
      BY <2>2, <2>5, <3>3
  <2> QED
    BY <2>1, <2>4, <2>5, <1>1 DEF LookUpImage
<1>7. DataInv'
  BY <1>1 DEF DataInv, BeforeData, BeforeWorkerData, BeforeWorker, BeforeImages
<1>8. ImagesInv'
  BY <1>1 DEF ImagesInv
<1> QED
  BY <1>4, <1>5, <1>6, <1>7, <1>8

\* getUserData takes the template the options came to (GetUserData).
LEMMA UserDataStep ==
    ASSUME IInv, DOMAIN userData = Machine, NEW m \in Machine, NEW here, NEW next,
           \/ m = "controlPlane" /\ here = "controlPlane data" /\ next = "worker data"
           \/ m = "worker" /\ here = "worker data" /\ next = "images",
           GetUserData(m, here, next)
    PROVE  IInv' /\ DOMAIN userData' = Machine
<1> USE DEF IInv, Goto, Fail
<1>1. /\ pc = here /\ pc' \in {next, "failed"}
      /\ UNCHANGED <<given, arch, nvidia, staging, image, file, type, images>>
  BY DEF GetUserData, options
<1>2. /\ DOMAIN userData' = Machine
      /\ pc' # "failed" => userData'[m] = Made(m)
      /\ \A n \in Machine \ {m} : userData'[n] = userData[n]
  BY <1>1 DEF GetUserData, Made
<1>3. TypeOK'
  BY <1>1 DEF TypeOK
<1>4. \A n \in Machine : ~Pending(n)
  BY <1>1 DEF Pending, BeforeWorker, BeforeImages, Machine
<1>5. OptionInv' /\ TypeInv'
  <2>1. \A n \in Machine : pc' # "failed" => ~Pending(n)'
    BY <1>1 DEF Pending, BeforeWorker, BeforeImages, Machine
  <2> QED
    BY <2>1, <1>1, <1>4 DEF OptionInv, TypeInv, Moves, Pending
<1>6. DataInv'
  <2>1. \A n \in Machine : Made(n)' = Made(n)
    BY <1>1 DEF Made, Template
  <2> QED
    BY <2>1, <1>1, <1>2
    DEF DataInv, BeforeData, BeforeWorkerData, BeforeWorker, BeforeImages, Machine
<1>7. ImagesInv'
  BY <1>1 DEF ImagesInv
<1> QED
  BY <1>2, <1>3, <1>5, <1>6, <1>7

\* The other steps look things up, or put together what is there.
LEMMA PlainStep ==
    ASSUME IInv, CheckFlags \/ CheckBucket \/ EnsureProfile \/ CheckVersion \/ UNCHANGED vars
    PROVE  IInv'
<1> USE DEF IInv, Goto, Fail
<1>1. UNCHANGED <<given, arch, nvidia, staging, image, file, type, userData, images>>
  BY DEF CheckFlags, CheckBucket, EnsureProfile, CheckVersion, vars, options
<1>2. \/ pc' = pc
      \/ pc # "passed" /\ pc' = "failed"
      \/ <<pc, pc'>> \in {<<"flags", "bucket">>, <<"bucket", "controlPlane image">>,
                         <<"profile", "version">>, <<"version", "controlPlane data">>}
  BY DEF CheckFlags, CheckBucket, EnsureProfile, CheckVersion, vars
<1>3. TypeOK'
  BY <1>1, <1>2 DEF TypeOK
<1>4. OptionInv' /\ TypeInv'
  <2>1. \A m \in Machine : pc' = "failed" \/ (Pending(m)' <=> Pending(m))
    BY <1>2 DEF Pending, BeforeWorker, BeforeImages, Machine
  <2> QED
    BY <2>1, <1>1, <1>2 DEF OptionInv, TypeInv, Moves, Pending
<1>5. DataInv'
  <2>1. \A m \in Machine : Made(m)' = Made(m)
    BY <1>1 DEF Made, Template
  <2> QED
    BY <2>1, <1>1, <1>2 DEF DataInv, BeforeData, BeforeWorkerData, BeforeWorker, BeforeImages,
       Machine
<1>6. ImagesInv'
  <2>1. MachineAt(1)' = MachineAt(1) /\ \A m : ImageFor(m)' = ImageFor(m)
    BY <1>1 DEF MachineAt, ImageFor
  <2> QED
    BY <2>1, <1>1, <1>2 DEF ImagesInv
<1> QED
  BY <1>3, <1>4, <1>5, <1>6

\* prepareAWSImages lists what the options came to (PrepareImages).
LEMMA PrepareStep == ASSUME IInv, PrepareImages PROVE IInv'
<1> USE DEF IInv, Goto
<1>1. /\ pc = "images" /\ pc' = "passed"
      /\ UNCHANGED <<given, arch, nvidia, staging, image, file, type, userData>>
  BY DEF PrepareImages, options
<1>2. TypeOK'
  BY <1>1 DEF TypeOK
<1>3. OptionInv' /\ TypeInv'
  BY <1>1 DEF OptionInv, TypeInv, Moves, Pending, BeforeWorker, BeforeImages, Machine
<1>4. DataInv'
  <2>1. \A m \in Machine : Made(m)' = Made(m)
    BY <1>1 DEF Made, Template
  <2> QED
    BY <2>1, <1>1 DEF DataInv, BeforeData, BeforeWorkerData, BeforeWorker, BeforeImages, Machine
<1>5. ImagesInv'
  <2>1. \A m : ImageFor(m)' = ImageFor(m)
    BY <1>1 DEF ImageFor
  <2> QED
    BY <2>1, <1>1 DEF ImagesInv, PrepareImages, MachineAt
<1> QED
  BY <1>2, <1>3, <1>4, <1>5

-----------------------------------------------------------------------------
\* The invariant and the domain of userData, which getUserData fills one machine
\* at a time.
DataOf == DOMAIN userData = Machine

LEMMA IInvStep == IInv /\ DataOf /\ [Next]_vars => IInv' /\ DataOf'
<1> SUFFICES ASSUME IInv, DataOf, [Next]_vars PROVE IInv' /\ DataOf'
  OBVIOUS
<1> USE DEF DataOf
<1>1. CASE CheckFlags \/ CheckBucket \/ EnsureProfile \/ CheckVersion \/ Ended \/ UNCHANGED vars
  BY <1>1, PlainStep DEF CheckFlags, CheckBucket, EnsureProfile, CheckVersion, Ended, vars
<1>2. CASE \/ LookUpImage("controlPlane", "controlPlane image", "worker image")
           \/ LookUpImage("worker", "worker image", "profile")
  <2>1. IInv'
    BY <1>2, LookUpStep DEF Machine
  <2> QED
    BY <1>2, <2>1 DEF LookUpImage
<1>3. CASE \/ GetUserData("controlPlane", "controlPlane data", "worker data")
           \/ GetUserData("worker", "worker data", "images")
  BY <1>3, UserDataStep DEF Machine
<1>4. CASE PrepareImages
  BY <1>4, PrepareStep DEF PrepareImages
<1> QED
  BY <1>1, <1>2, <1>3, <1>4 DEF Next

LEMMA Invariance == Spec => []IInv
<1>1. Init => DataOf
  BY DEF Init, DataOf
<1> QED
  BY <1>1, InitIInv, IInvStep, PTL DEF Spec

-----------------------------------------------------------------------------
\* Every option keeps its type, for any number of workers.
THEOREM TypeCorrect == Spec => []TypeOK
<1>1. IInv => TypeOK
  BY DEF IInv
<1> QED
  BY <1>1, Invariance, PTL

\* What a machine of internalAWSImages was made from.
LEMMA Passed ==
    ASSUME IInv, NEW i \in DOMAIN images
    PROVE  /\ pc = "passed" /\ MachineAt(i) \in Machine /\ ~Pending(MachineAt(i))
           /\ images[i] = [ami |-> image[MachineAt(i)], userData |-> Made(MachineAt(i)),
                           instanceType |-> type[MachineAt(i)]]
<1>1. pc = "passed"
  BY DEF IInv, ImagesInv
<1>2. /\ userData["controlPlane"] = Made("controlPlane") /\ userData["worker"] = Made("worker")
      /\ \A m \in Machine : ~Pending(m)
  BY <1>1 DEF IInv, DataInv, BeforeData, BeforeWorkerData, BeforeWorker, BeforeImages,
              Pending, Machine
<1>3. MachineAt(i) \in Machine
  BY DEF MachineAt, Machine
<1>4. images[i] = ImageFor(MachineAt(i))
  BY <1>1 DEF IInv, ImagesInv
<1> QED
  BY <1>1, <1>2, <1>3, <1>4 DEF ImageFor, Machine

\* Each machine has the user data its own options name (Validate and getUserData).
THEOREM ScriptCorrect == Spec => []ScriptFollowsImage
<1>1. ASSUME IInv PROVE ScriptFollowsImage
  <2> SUFFICES ASSUME NEW i \in DOMAIN images
               PROVE  images[i].userData.template =
                        IF given.file[MachineAt(i)] # "none" THEN given.file[MachineAt(i)]
                        ELSE IF given.image[MachineAt(i)] = "al2023" THEN "al2023.sh"
                        ELSE "ubuntu2604.yaml"
    BY DEF ScriptFollowsImage
  <2> DEFINE m == MachineAt(i)
  <2>1. m \in Machine /\ ~Pending(m) /\ images[i].userData.template = Template(m)
    BY <1>1, Passed DEF Made
  <2>2. /\ given.image[m] \in DOMAIN LookedUp \cup {"ami"}
        /\ file[m] = IF given.file[m] = "none" /\ given.image[m] # "ami"
                       THEN UserDataFor[given.image[m]] ELSE given.file[m]
    BY <1>1, <2>1 DEF IInv, OptionInv
  <2> QED
    BY <2>1, <2>2, Tables DEF Template
<1> QED
  BY <1>1, Invariance, PTL

\* The type of every machine, whatever was given: the default for amd64 moves to the
\* one for arm64 as soon as either image is looked up (the two blocks of Validate).
THEOREM ArchCorrect == Spec => []MachinesFitArch
<1>1. ASSUME IInv PROVE MachinesFitArch
  <2> SUFFICES ASSUME NEW i \in DOMAIN images
               PROVE  images[i].instanceType =
                        IF Moves(MachineAt(i)) /\ SomeLookUp
                        THEN "r7g.xlarge" ELSE given.type[MachineAt(i)]
    BY DEF MachinesFitArch, Moves
  <2>1. /\ MachineAt(i) \in Machine /\ pc # "failed"
        /\ images[i].instanceType = type[MachineAt(i)]
    BY <1>1, Passed
  <2>2. \A n \in Machine : ~Pending(n)
    BY <1>1, Passed DEF Pending, BeforeWorker, BeforeImages
  <2> QED
    BY <1>1, <2>1, <2>2 DEF IInv, TypeInv, SomeLookUp
<1> QED
  BY <1>1, Invariance, PTL

\* No file a machine uses holds a placeholder nobody fills (getUserData).
THEOREM FilledCorrect == Spec => []NothingLeftToFill
<1>1. ASSUME IInv PROVE NothingLeftToFill
  <2> SUFFICES ASSUME NEW i \in DOMAIN images, NEW f \in DOMAIN images[i].userData.open
               PROVE  images[i].userData.open[f] \subseteq FilledLater(f)
    BY DEF NothingLeftToFill
  <2>1. images[i].userData.open =
          [g \in FilesOf(Template(MachineAt(i))) |-> Placeholders(g) \ FilledIn(g)]
    <3>1. images[i].userData = Made(MachineAt(i))
      BY <1>1, Passed
    <3> QED
      BY <3>1 DEF Made
  <2> QED
    BY <2>1, FilledWhole
<1> QED
  BY <1>1, Invariance, PTL
=============================================================================
