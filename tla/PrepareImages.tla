--------------------------- MODULE PrepareImages ---------------------------
(***************************************************************************)
(* prepareAWSImages of the node e2e runner: the images of the config file  *)
(* are taken in the order a Go map is ranged over, which is any order, and *)
(* then the images named on the command line.  Files of user data are      *)
(* named by their owner: an image, or Cli for the command line.            *)
(***************************************************************************)
CONSTANTS Config,   \* the images of --image-config-file
          Listed,   \* the images of --images
          Cli,      \* what the command line gives
          None      \* nothing given

ASSUME PrepareImagesAssumption ==
    /\ Config \cap Listed = {}
    /\ Cli # None /\ {Cli, None} \cap (Config \cup Listed) = {}

VARIABLES
    userDataFile, instanceProfile,   \* the flags: None or Cli
    ssm,                             \* the config images that name an SSM path
    imageUserData, imageProfile,     \* what each config image says: None or itself
    todo,                            \* config images the loop has not reached
    userData,                        \* the variable of that name, read so far
    ret,                             \* the prepared images
    status                           \* "config", "listed", "ok" or "err"

inputs == <<userDataFile, instanceProfile, ssm, imageUserData, imageProfile>>
vars == <<inputs, todo, userData, ret, status>>

Optional == {f \in [Config -> Config \cup {None}] : \A i \in Config : f[i] \in {None, i}}

Init ==
    /\ userDataFile \in {None, Cli} /\ instanceProfile \in {None, Cli}
    /\ ssm \in SUBSET Config
    /\ imageUserData \in Optional /\ imageProfile \in Optional
    /\ todo = Config
    /\ userData = None
    /\ ret = {}
    /\ status = "config"

Either(own, cli) == IF cli # None THEN cli ELSE own

\* User data, and the profile, come from the image or from the command line.
Conflict_DataOnly(i) == userDataFile # None /\ imageUserData[i] # None
                             \* fault: the profile is not looked at
Conflict(i) == \/ userDataFile # None /\ imageUserData[i] # None
               \/ instanceProfile # None /\ imageProfile[i] # None

DataFile(i) == Either(imageUserData[i], userDataFile)

\* The one variable serves all iterations.
ReadUserData_Once(i) == IF userData # None THEN userData ELSE DataFile(i)
                             \* fault: a file is read only when none was read yet
ReadUserData(i) == IF DataFile(i) # None THEN DataFile(i) ELSE userData

Prepared(i, data, profile) == [image |-> i, userData |-> data, profile |-> profile]

Rest_Restarts(i) == Config \ {i}   \* fault: the range starts over
Rest(i) == todo \ {i}

PrepareConfigImage(i) ==
    /\ status = "config" /\ i \in todo /\ ~Conflict(i)
    /\ todo' = Rest(i)
    /\ userData' = ReadUserData(i)
    /\ ret' = ret \cup {Prepared(i, userData', Either(imageProfile[i], instanceProfile))}
    /\ UNCHANGED <<inputs, status>>

\* A conflict, SSM or an unreadable file ends the preparation.
ConfigImageError(i) ==
    /\ status = "config" /\ i \in todo
    /\ Conflict(i) \/ i \in ssm \/ DataFile(i) # None
    /\ status' = "err"
    /\ UNCHANGED <<inputs, todo, userData, ret>>

\* The images of the command line share what its user data file holds, read
\* once for them; without one, whatever userData holds.
PrepareListedImages ==
    /\ status = "config" /\ todo = {}
    /\ \/ /\ userData' = IF Listed # {} /\ userDataFile # None THEN userDataFile ELSE userData
          /\ ret' = ret \cup {Prepared(i, userData', instanceProfile) : i \in Listed}
          /\ status' = "ok"
       \/ /\ Listed # {} /\ userDataFile # None
          /\ status' = "err" /\ UNCHANGED <<userData, ret>>
    /\ UNCHANGED <<inputs, todo>>

Ended == status \in {"ok", "err"} /\ UNCHANGED vars

Next == \/ \E i \in Config : PrepareConfigImage(i) \/ ConfigImageError(i)
        \/ PrepareListedImages
        \/ Ended

Spec == Init /\ [][Next]_vars

-----------------------------------------------------------------------------
(***************************************************************************)
(* Properties.                                                             *)
(***************************************************************************)
Images == Config \cup Listed
Wanted(i, own, cli) == IF i \in Config THEN Either(own[i], cli) ELSE cli

TypeOK ==
    /\ todo \subseteq Config
    /\ userData \in Config \cup {Cli, None}
    /\ ret \subseteq [image : Images, userData : Config \cup {Cli, None},
                      profile : Config \cup {Cli, None}]
    /\ \A r, s \in ret : r.image = s.image => r = s
    /\ status \in {"config", "ok", "err"}

\* A preparation that ends well has every image, each with the instance profile
\* of its own entry or of the command line, in whatever order the map was ranged
\* over, and none that names both.
ProfileFollowsImage ==
    status = "ok" =>
        /\ {r.image : r \in ret} = Images
        /\ \A r \in ret : r.profile = Wanted(r.image, imageProfile, instanceProfile)
        /\ \A i \in Config : ~(instanceProfile # None /\ imageProfile[i] # None)

\* An image that names user data gets that file, and a file on the command line
\* reaches every image.
NamedUserDataIsUsed ==
    status = "ok" => \A r \in ret :
        Wanted(r.image, imageUserData, userDataFile) # None =>
            r.userData = Wanted(r.image, imageUserData, userDataFile)

\* The comment at aws_runner.go:171, "user data can only be from an image config
\* or the command line": an image without user data starts without any.  The
\* code gives it what an image before it, in the map's order, had.
NoForeignUserData ==
    status = "ok" => \A r \in ret :
        r.userData = Wanted(r.image, imageUserData, userDataFile)
=============================================================================
