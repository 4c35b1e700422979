-------------------------------- MODULE IAM --------------------------------
(***************************************************************************)
(* ensureInstanceProfileAndRole, run by several kubetest2-ec2 processes    *)
(* against one AWS account: EnsureRole and EnsureInstanceProfile look for  *)
(* the shared role and instance profile and make what they do not find.    *)
(* Both are found by name only, and each is made in several calls.         *)
(*                                                                         *)
(* An object is represented by the process that made it: Absent is none,   *)
(* Earlier a complete one made before.  A list call reads one page of an   *)
(* eventually consistent service, so it may miss an object that exists.    *)
(***************************************************************************)
EXTENDS Naturals

CONSTANTS Processes,       \* concurrent or successive runs of kubetest2-ec2
          NumPolicies,     \* policies EnsureRole attaches (8 in the code)
          Absent, Earlier  \* makers that are no process of the model

ASSUME IAMAssumption ==
    /\ NumPolicies \in Nat \ {0}
    /\ Absent \notin Processes /\ Earlier \notin Processes /\ Absent # Earlier

VARIABLES
    role,       \* the maker of the role
    attached,   \* how many of the policies the role has
    profile,    \* the maker of the instance profile
    holder,     \* what the profile holds: "nothing" or "role"
    elsewhere,  \* whether another profile of the account holds the role
    pc,         \* where each process is in Validate
    roleErr     \* the processes that logged "error with ensure role"

vars == <<role, attached, profile, holder, elsewhere, pc, roleErr>>

Maker == Processes \cup {Absent, Earlier}
InRole == {"listRoles", "createRole", "attach"}
InProfile == {"listProfiles", "createProfile", "listForRole", "addRole"}
Label == InRole \cup InProfile \cup {"passed", "failed", "stopped"}

Init ==
    /\ \/ role = Absent /\ attached = 0 /\ elsewhere = "no"
       \/ role = Earlier /\ attached = NumPolicies /\ elsewhere \in {"no", "yes"}
    /\ \/ profile = Absent /\ holder = "nothing"
       \/ role = Earlier /\ profile = Earlier /\ holder = "role"
    /\ pc = [p \in Processes |-> "listRoles"]
    /\ roleErr = {}

Goto(p, label) == pc' = [pc EXCEPT ![p] = label]

-----------------------------------------------------------------------------
(***************************************************************************)
(* EnsureRole.                                                             *)
(***************************************************************************)

RoleFound_AttachesAgain(p) == Goto(p, "attach")   \* fault: tops up any role
RoleFound(p) == Goto(p, "listProfiles")

ListRoles(p) ==
    /\ pc[p] = "listRoles"
    /\ \/ role # Absent /\ RoleFound(p)
       \/ Goto(p, "createRole")
    /\ UNCHANGED <<role, attached, profile, holder, elsewhere, roleErr>>

CreateRole(p) ==
    /\ pc[p] = "createRole" /\ role = Absent
    /\ role' = p /\ Goto(p, "attach")
    /\ UNCHANGED <<attached, profile, holder, elsewhere, roleErr>>

\* The loop over policies goes on.
MorePolicies_OneMore == attached + 1 <= NumPolicies   \* fault: one past the end
MorePolicies_FirstOnly == FALSE                       \* fault: returns in the loop
MorePolicies == attached + 1 < NumPolicies

AttachRolePolicy(p) ==
    /\ pc[p] = "attach"
    /\ attached' = attached + 1
    /\ Goto(p, IF MorePolicies THEN "attach" ELSE "listProfiles")
    /\ UNCHANGED <<role, profile, holder, elsewhere, roleErr>>

\* Any call fails, CreateRole also because the name is taken; the caller
\* logs the error and goes on with the profile.
EnsureRoleFails(p) ==
    /\ pc[p] \in InRole
    /\ roleErr' = roleErr \cup {p} /\ Goto(p, "listProfiles")
    /\ UNCHANGED <<role, attached, profile, holder, elsewhere>>

EnsureRole(p) ==
    ListRoles(p) \/ CreateRole(p) \/ AttachRolePolicy(p) \/ EnsureRoleFails(p)

-----------------------------------------------------------------------------
(***************************************************************************)
(* EnsureInstanceProfile.                                                  *)
(***************************************************************************)

ListInstanceProfiles(p) ==
    /\ pc[p] = "listProfiles"
    /\ \/ profile # Absent /\ Goto(p, "passed")
       \/ Goto(p, "createProfile")
    /\ UNCHANGED <<role, attached, profile, holder, elsewhere, roleErr>>

CreateInstanceProfile(p) ==
    /\ pc[p] = "createProfile" /\ profile = Absent
    /\ profile' = p /\ Goto(p, "listForRole")
    /\ UNCHANGED <<role, attached, holder, elsewhere, roleErr>>

\* Any profile that holds the role counts, not only the one just made.
RoleIsHeld_Negated == ~(holder = "role" \/ elsewhere = "yes")  \* fault: test reversed
RoleIsHeld == holder = "role" \/ elsewhere = "yes"

ListInstanceProfilesForRole(p) ==
    /\ pc[p] = "listForRole" /\ role # Absent
    /\ Goto(p, IF RoleIsHeld THEN "passed" ELSE "addRole")
    /\ UNCHANGED <<role, attached, profile, holder, elsewhere, roleErr>>

AddRoleToInstanceProfile(p) ==
    /\ pc[p] = "addRole"
    /\ holder' = "role" /\ Goto(p, "passed")
    /\ UNCHANGED <<role, attached, profile, elsewhere, roleErr>>

\* Any call fails; Validate returns the error.
EnsureInstanceProfileFails(p) ==
    /\ pc[p] \in InProfile
    /\ Goto(p, "failed")
    /\ UNCHANGED <<role, attached, profile, holder, elsewhere, roleErr>>

EnsureInstanceProfile(p) ==
    \/ ListInstanceProfiles(p) \/ CreateInstanceProfile(p)
    \/ ListInstanceProfilesForRole(p) \/ AddRoleToInstanceProfile(p)
    \/ EnsureInstanceProfileFails(p)

-----------------------------------------------------------------------------

\* The process is interrupted or killed between two calls.
Stop(p) ==
    /\ pc[p] \in InRole \cup InProfile
    /\ Goto(p, "stopped")
    /\ UNCHANGED <<role, attached, profile, holder, elsewhere, roleErr>>

\* Every process is through, or has ended.
Ended ==
    /\ \A p \in Processes : pc[p] \in {"passed", "failed", "stopped"}
    /\ UNCHANGED vars

Next == \/ \E p \in Processes : EnsureRole(p) \/ EnsureInstanceProfile(p) \/ Stop(p)
        \/ Ended

Spec == Init /\ [][Next]_vars

-----------------------------------------------------------------------------
TypeOK ==
    /\ role \in Maker /\ profile \in Maker
    /\ attached \in 0 .. NumPolicies
    /\ holder \in {"nothing", "role"} /\ elsewhere \in {"no", "yes"}
    /\ pc \in [Processes -> Label]
    /\ roleErr \subseteq Processes

(***************************************************************************)
(* A process goes past Validate with an instance profile that lacks the    *)
(* role (its machines get no credentials) only if the maker of the profile *)
(* is between its calls, failed or stopped there, or the role sits in      *)
(* another profile: the early return of EnsureInstanceProfile relies on    *)
(* somebody else having finished.                                          *)
(***************************************************************************)
EmptyProfileExplained ==
    \A p \in Processes : pc[p] = "passed" =>
        /\ profile # Absent
        /\ holder = "nothing" =>
            \/ elsewhere = "yes"
            \/ /\ profile \in Processes
               /\ pc[profile] \in {"listForRole", "addRole", "failed", "stopped"}

(***************************************************************************)
(* A process goes past EnsureRole over a role that lacks policies, or over *)
(* none, only if its own EnsureRole failed, or the maker of the role is    *)
(* still attaching, failed to, or was stopped: the error the caller only   *)
(* logs and the early return are the two ways, and there is no third.      *)
(***************************************************************************)
PartialRoleExplained ==
    \A p \in Processes : pc[p] \in InProfile \cup {"passed"} =>
        \/ p \in roleErr
        \/ /\ role # Absent
           /\ attached < NumPolicies =>
                /\ role \in Processes
                /\ pc[role] \in {"attach", "stopped"} \/ role \in roleErr

(***************************************************************************)
(* Only the process that made the role attaches policies and only the one  *)
(* that made the profile puts the role in it, and what they added stays:   *)
(* two processes never both fill an object, but nobody completes one whose *)
(* maker is gone either.                                                   *)
(***************************************************************************)
OnlyMakersComplete ==
    [][ /\ attached' # attached =>
             attached' > attached /\ \E p \in Processes : role = p /\ pc[p] = "attach"
        /\ holder' # holder =>
             holder' = "role" /\ \E p \in Processes : profile = p /\ pc[p] = "addRole" ]_vars
=============================================================================
