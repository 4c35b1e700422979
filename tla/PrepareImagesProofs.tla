------------------------ MODULE PrepareImagesProofs ------------------------
(***************************************************************************)
(* Proofs about PrepareImages, for any images of the config file and of    *)
(* the command line.  The loop's invariant: the images behind it are       *)
(* exactly those prepared, each as its entry and the flags say, and none   *)
(* of them was in conflict.                                                *)
(***************************************************************************)
EXTENDS PrepareImages, TLAPS

InputsTyped ==
    /\ userDataFile \in {None, Cli} /\ instanceProfile \in {None, Cli}
    /\ imageUserData \in Optional /\ imageProfile \in Optional

Behind == IF status = "ok" THEN Images ELSE Config \ todo

LoopInv ==
    /\ status = "ok" => todo = {}
    /\ \A r \in ret : r.image \in Behind
    /\ \A i \in Behind : \E r \in ret : r.image = i
    /\ \A i \in Config \ todo : ~Conflict(i)

Profiles ==
    \A r \in ret : r.profile = Wanted(r.image, imageProfile, instanceProfile)

Data ==
    \A r \in ret : Wanted(r.image, imageUserData, userDataFile) # None =>
        r.userData = Wanted(r.image, imageUserData, userDataFile)

IInv == InputsTyped /\ TypeOK /\ LoopInv /\ Profiles /\ Data

-----------------------------------------------------------------------------
\* What an image's entry names is the image's own.
LEMMA OptionalValue ==
    ASSUME NEW f \in Optional, NEW i \in Config
    PROVE  f[i] \in {None, i}
BY DEF Optional

\* Nothing is prepared at first.
LEMMA InitIInv == Init => IInv
BY DEF Init, IInv, InputsTyped, TypeOK, LoopInv, Profiles, Data, Behind

\* An iteration of the loop over the config images.
LEMMA ConfigStep ==
    ASSUME IInv, NEW i \in Config, PrepareConfigImage(i)
    PROVE  IInv'
<1> DEFINE new == Prepared(i, userData', Either(imageProfile[i], instanceProfile))
<1> USE PrepareImagesAssumption DEF IInv
<1>1. /\ ret' = ret \cup {new} /\ todo' = todo \ {i} /\ i \in todo
      /\ status = "config" /\ status' = "config" /\ ~Conflict(i)
      /\ userData' = IF DataFile(i) # None THEN DataFile(i) ELSE userData
      /\ UNCHANGED inputs
  BY DEF PrepareConfigImage, Rest, ReadUserData
<1>2. /\ imageUserData[i] \in {None, i} /\ imageProfile[i] \in {None, i}
      /\ userDataFile \in {None, Cli} /\ instanceProfile \in {None, Cli}
  BY OptionalValue DEF InputsTyped
<1>3. /\ DataFile(i) \in Config \cup {Cli, None}
      /\ Either(imageProfile[i], instanceProfile) \in Config \cup {Cli, None}
  BY <1>2 DEF DataFile, Either
<1>4. /\ new.image = i /\ new.userData = userData'
      /\ new.profile = Either(imageProfile[i], instanceProfile)
  BY DEF Prepared
<1>5. InputsTyped'
  BY <1>1 DEF inputs, InputsTyped
<1>6. userData' \in Config \cup {Cli, None}
  BY <1>1, <1>3 DEF TypeOK
<1>7. \A r \in ret : r.image # i
  BY <1>1 DEF LoopInv, Behind
<1>8. TypeOK'
  <2>1. new \in [image : Images, userData : Config \cup {Cli, None},
                 profile : Config \cup {Cli, None}]
    BY <1>3, <1>6 DEF Prepared, Images
  <2> QED
    BY <1>1, <1>4, <1>6, <1>7, <2>1 DEF TypeOK
<1>9. LoopInv'
  <2>1. \A j \in Config : Conflict(j)' <=> Conflict(j)
    BY <1>1 DEF inputs, Conflict
  <2>2. Behind' = Behind \cup {i}
    BY <1>1 DEF Behind, LoopInv
  <2> QED
    BY <1>1, <1>4, <2>1, <2>2 DEF LoopInv
<1>10. Profiles'
  <2>1. new.profile = Wanted(i, imageProfile, instanceProfile)
    BY <1>4 DEF Wanted
  <2>2. \A r : Wanted(r.image, imageProfile, instanceProfile)'
                  = Wanted(r.image, imageProfile, instanceProfile)
    BY <1>1 DEF inputs, Wanted
  <2> QED
    BY <1>1, <1>4, <2>1, <2>2 DEF Profiles, inputs
<1>11. Data'
  <2>1. Wanted(i, imageUserData, userDataFile) = DataFile(i)
    BY DEF Wanted, DataFile
  <2> QED
    BY <1>1, <1>4, <2>1 DEF Data, inputs
<1> QED
  BY <1>5, <1>8, <1>9, <1>10, <1>11

\* The images of the command line come last and all at once.
LEMMA ListedStep ==
    ASSUME IInv, PrepareListedImages, status' = "ok"
    PROVE  IInv'
<1> USE PrepareImagesAssumption DEF IInv
<1>1. /\ status = "config" /\ todo = {} /\ todo' = {}
      /\ userData' = IF Listed # {} /\ userDataFile # None THEN userDataFile ELSE userData
      /\ ret' = ret \cup {Prepared(i, userData', instanceProfile) : i \in Listed}
      /\ UNCHANGED inputs
  BY DEF PrepareListedImages
<1>2. userDataFile \in {None, Cli} /\ instanceProfile \in {None, Cli}
  BY DEF InputsTyped
<1>3. userData' \in Config \cup {Cli, None}
  BY <1>1, <1>2 DEF TypeOK
<1>4. \A i \in Listed :
         /\ Prepared(i, userData', instanceProfile).image = i
         /\ Prepared(i, userData', instanceProfile).userData = userData'
         /\ Prepared(i, userData', instanceProfile).profile = instanceProfile
         /\ Prepared(i, userData', instanceProfile) \in
               [image : Images, userData : Config \cup {Cli, None},
                profile : Config \cup {Cli, None}]
  BY <1>2, <1>3 DEF Prepared, Images
<1>5. \A r \in ret : r.image \in Config
  BY <1>1 DEF LoopInv, Behind
<1>6. InputsTyped'
  BY <1>1 DEF inputs, InputsTyped
<1>7. TypeOK'
  BY <1>1, <1>3, <1>4, <1>5 DEF TypeOK
<1>8. LoopInv'
  <2>1. \A j \in Config : Conflict(j)' <=> Conflict(j)
    BY <1>1 DEF inputs, Conflict
  <2>2. Behind = Config /\ Behind' = Images
    BY <1>1 DEF Behind
  <2> QED
    BY <1>1, <1>4, <2>1, <2>2 DEF LoopInv, Images
<1>9. Profiles'
  <2>1. \A i \in Listed : Wanted(i, imageProfile, instanceProfile) = instanceProfile
    BY DEF Wanted
  <2> QED
    BY <1>1, <1>4, <2>1 DEF Profiles, inputs
<1>10. Data'
  <2>1. \A i \in Listed : Wanted(i, imageUserData, userDataFile) = userDataFile
    BY DEF Wanted
  <2> QED
    BY <1>1, <1>4, <2>1 DEF Data, inputs
<1> QED
  BY <1>6, <1>7, <1>8, <1>9, <1>10

\* IInv is inductive.
LEMMA IInvStep ==
    ASSUME IInv, [Next]_vars
    PROVE  IInv'
<1> USE DEF IInv, InputsTyped, TypeOK, LoopInv, Profiles, Data, Behind, Conflict, Wanted, inputs
<1>1. CASE \E i \in Config : PrepareConfigImage(i)
  BY <1>1, ConfigStep
<1>2. CASE \E i \in Config : ConfigImageError(i)
  BY <1>2 DEF ConfigImageError
<1>3. CASE PrepareListedImages
  <2>1. CASE status' = "ok"
    BY <1>3, <2>1, ListedStep
  <2>2. CASE status' # "ok"
    BY <1>3, <2>2 DEF PrepareListedImages
  <2> QED
    BY <2>1, <2>2
<1>4. CASE UNCHANGED vars
  BY <1>4 DEF vars
<1> QED
  BY <1>1, <1>2, <1>3, <1>4 DEF Next, Ended

-----------------------------------------------------------------------------
\* Types, and no image is prepared twice.
THEOREM TypeCorrect == Spec => []TypeOK
<1>1. IInv => TypeOK
  BY DEF IInv
<1> QED
  BY InitIInv, IInvStep, <1>1, PTL DEF Spec

\* All images are prepared, with the profile the entry or the flag names, and
\* never with both (prepareAWSImages).
THEOREM ProfileCorrect == Spec => []ProfileFollowsImage
<1>1. IInv => ProfileFollowsImage
  <2> SUFFICES ASSUME IInv, status = "ok" PROVE ProfileFollowsImage
    BY DEF ProfileFollowsImage
  <2>1. {r.image : r \in ret} = Images
    BY DEF IInv, LoopInv, Behind
  <2>2. \A i \in Config : ~(instanceProfile # None /\ imageProfile[i] # None)
    BY DEF IInv, LoopInv, Conflict
  <2> QED
    BY <2>1, <2>2 DEF IInv, Profiles, ProfileFollowsImage
<1> QED
  BY InitIInv, IInvStep, <1>1, PTL DEF Spec

\* The variable shared by the iterations never hides a file that is named.
THEOREM UserDataCorrect == Spec => []NamedUserDataIsUsed
<1>1. IInv => NamedUserDataIsUsed
  BY DEF IInv, Data, NamedUserDataIsUsed
<1> QED
  BY InitIInv, IInvStep, <1>1, PTL DEF Spec
=============================================================================
