--------------------------- MODULE LaunchProofs ---------------------------
(***************************************************************************)
(* Proofs about IAM, for any set of processes and number of policies, and  *)
(* about Launch, for any machines, subnets and polls besides.  The         *)
(* invariant of IAM ties each object to the progress of its maker.  Launch *)
(* implements IAM, so what is proved of IAM holds of it; its own invariant *)
(* says what a process has settled at each step, and that every machine    *)
(* bears what its owner has settled.                                       *)
(***************************************************************************)
EXTENDS Launch, TLAPS

(***************************************************************************)
(* The role and the instance profile.                                      *)
(***************************************************************************)
\* The profile: who holds a place in the calls made it, and a maker that has
\* passed left it filled or found the role in another profile.
ProfileInv ==
    /\ profile = Absent => holder = "nothing"
    /\ profile = Earlier => holder = "role"
    /\ \A p \in Processes :
         /\ pc[p] \in {"listForRole", "addRole"} => profile = p
         /\ pc[p] = "passed" => profile # Absent
         /\ profile = p =>
              /\ pc[p] \in {"listForRole", "addRole", "passed", "failed", "stopped"}
              /\ pc[p] = "passed" => holder = "role" \/ elsewhere = "yes"

\* The role: who attaches made it, and a maker that is done attached all.
RoleInv ==
    /\ role = Absent => attached = 0
    /\ role = Earlier => attached = NumPolicies
    /\ \A p \in Processes :
         /\ pc[p] = "attach" => role = p /\ attached < NumPolicies
         /\ pc[p] \in InProfile \cup {"passed"} => role # Absent \/ p \in roleErr
         /\ role = p =>
              /\ pc[p] \notin {"listRoles", "createRole"}
              /\ \/ attached = NumPolicies
                 \/ pc[p] \in {"attach", "stopped"} \/ p \in roleErr

IInv == TypeOK /\ ProfileInv /\ RoleInv

-----------------------------------------------------------------------------
LEMMA InitIInv == Init => IInv
<1> SUFFICES ASSUME Init PROVE IInv
    OBVIOUS
<1> USE IAMAssumption DEF Init
<1>1. TypeOK
    BY DEF TypeOK, Maker, Label, InRole
<1>2. ProfileInv
    BY DEF ProfileInv
<1>3. RoleInv
    BY DEF RoleInv, InProfile
<1>4. QED
    BY <1>1, <1>2, <1>3 DEF IInv

LEMMA TypeStep == TypeOK /\ RoleInv /\ [Next]_vars => TypeOK'
<1> SUFFICES ASSUME TypeOK, RoleInv, [Next]_vars PROVE TypeOK'
    OBVIOUS
<1> USE IAMAssumption DEF TypeOK, Maker, Label, InRole, InProfile, Goto
<1>1. CASE UNCHANGED vars
    BY <1>1 DEF vars
<1>2. ASSUME NEW p \in Processes, ListRoles(p) PROVE TypeOK'
    BY <1>2 DEF ListRoles, RoleFound
<1>3. ASSUME NEW p \in Processes, CreateRole(p) PROVE TypeOK'
    BY <1>3 DEF CreateRole
<1>4. ASSUME NEW p \in Processes, AttachRolePolicy(p) PROVE TypeOK'
  <2>1. attached < NumPolicies
      BY <1>4 DEF AttachRolePolicy, RoleInv
  <2>2. attached' \in 0 .. NumPolicies
      BY <1>4, <2>1 DEF AttachRolePolicy
  <2>3. pc' \in [Processes -> Label]
      BY <1>4 DEF AttachRolePolicy
  <2>4. QED
      BY <1>4, <2>2, <2>3 DEF AttachRolePolicy
<1>5. ASSUME NEW p \in Processes, EnsureRoleFails(p) PROVE TypeOK'
    BY <1>5 DEF EnsureRoleFails
<1>6. ASSUME NEW p \in Processes, ListInstanceProfiles(p) PROVE TypeOK'
    BY <1>6 DEF ListInstanceProfiles
<1>7. ASSUME NEW p \in Processes, CreateInstanceProfile(p) PROVE TypeOK'
    BY <1>7 DEF CreateInstanceProfile
<1>8. ASSUME NEW p \in Processes, ListInstanceProfilesForRole(p) PROVE TypeOK'
    BY <1>8 DEF ListInstanceProfilesForRole
<1>9. ASSUME NEW p \in Processes, AddRoleToInstanceProfile(p) PROVE TypeOK'
    BY <1>9 DEF AddRoleToInstanceProfile
<1>10. ASSUME NEW p \in Processes, EnsureInstanceProfileFails(p) PROVE TypeOK'
    BY <1>10 DEF EnsureInstanceProfileFails
<1>11. ASSUME NEW p \in Processes, Stop(p) PROVE TypeOK'
    BY <1>11 DEF Stop
<1>12. QED
    BY <1>1, <1>2, <1>3, <1>4, <1>5, <1>6, <1>7, <1>8, <1>9, <1>10, <1>11
       DEF Next, Ended, EnsureRole, EnsureInstanceProfile

LEMMA ProfileStep == TypeOK /\ ProfileInv /\ [Next]_vars => ProfileInv'
<1> SUFFICES ASSUME TypeOK, ProfileInv, [Next]_vars PROVE ProfileInv'
    OBVIOUS
<1> USE IAMAssumption DEF TypeOK, ProfileInv, InRole, InProfile, Goto
<1>1. CASE UNCHANGED vars
    BY <1>1 DEF vars
<1>2. ASSUME NEW p \in Processes, ListRoles(p) PROVE ProfileInv'
    BY <1>2 DEF ListRoles, RoleFound
<1>3. ASSUME NEW p \in Processes, CreateRole(p) PROVE ProfileInv'
    BY <1>3 DEF CreateRole
<1>4. ASSUME NEW p \in Processes, AttachRolePolicy(p) PROVE ProfileInv'
    BY <1>4 DEF AttachRolePolicy
<1>5. ASSUME NEW p \in Processes, EnsureRoleFails(p) PROVE ProfileInv'
    BY <1>5 DEF EnsureRoleFails
<1>6. ASSUME NEW p \in Processes, ListInstanceProfiles(p) PROVE ProfileInv'
    BY <1>6 DEF ListInstanceProfiles
<1>7. ASSUME NEW p \in Processes, CreateInstanceProfile(p) PROVE ProfileInv'
    BY <1>7 DEF CreateInstanceProfile
<1>8. ASSUME NEW p \in Processes, ListInstanceProfilesForRole(p) PROVE ProfileInv'
    BY <1>8 DEF ListInstanceProfilesForRole, RoleIsHeld
<1>9. ASSUME NEW p \in Processes, AddRoleToInstanceProfile(p) PROVE ProfileInv'
    BY <1>9 DEF AddRoleToInstanceProfile
<1>10. ASSUME NEW p \in Processes, EnsureInstanceProfileFails(p) PROVE ProfileInv'
    BY <1>10 DEF EnsureInstanceProfileFails
<1>11. ASSUME NEW p \in Processes, Stop(p) PROVE ProfileInv'
    BY <1>11 DEF Stop
<1>12. QED
    BY <1>1, <1>2, <1>3, <1>4, <1>5, <1>6, <1>7, <1>8, <1>9, <1>10, <1>11
       DEF Next, Ended, EnsureRole, EnsureInstanceProfile

LEMMA RoleStep == TypeOK /\ RoleInv /\ [Next]_vars => RoleInv'
<1> SUFFICES ASSUME TypeOK, RoleInv, [Next]_vars PROVE RoleInv'
    OBVIOUS
<1> USE IAMAssumption DEF TypeOK, RoleInv, InRole, InProfile, Goto
<1>1. CASE UNCHANGED vars
    BY <1>1 DEF vars
<1>2. ASSUME NEW p \in Processes, ListRoles(p) PROVE RoleInv'
    BY <1>2 DEF ListRoles, RoleFound
<1>3. ASSUME NEW p \in Processes, CreateRole(p) PROVE RoleInv'
    BY <1>3 DEF CreateRole
<1>4. ASSUME NEW p \in Processes, AttachRolePolicy(p) PROVE RoleInv'
    BY <1>4 DEF AttachRolePolicy, MorePolicies
<1>5. ASSUME NEW p \in Processes, EnsureRoleFails(p) PROVE RoleInv'
    BY <1>5 DEF EnsureRoleFails
<1>6. ASSUME NEW p \in Processes, ListInstanceProfiles(p) PROVE RoleInv'
    BY <1>6 DEF ListInstanceProfiles
<1>7. ASSUME NEW p \in Processes, CreateInstanceProfile(p) PROVE RoleInv'
    BY <1>7 DEF CreateInstanceProfile
<1>8. ASSUME NEW p \in Processes, ListInstanceProfilesForRole(p) PROVE RoleInv'
    BY <1>8 DEF ListInstanceProfilesForRole
<1>9. ASSUME NEW p \in Processes, AddRoleToInstanceProfile(p) PROVE RoleInv'
    BY <1>9 DEF AddRoleToInstanceProfile
<1>10. ASSUME NEW p \in Processes, EnsureInstanceProfileFails(p) PROVE RoleInv'
    BY <1>10 DEF EnsureInstanceProfileFails
<1>11. ASSUME NEW p \in Processes, Stop(p) PROVE RoleInv'
    BY <1>11 DEF Stop
<1>12. QED
    BY <1>1, <1>2, <1>3, <1>4, <1>5, <1>6, <1>7, <1>8, <1>9, <1>10, <1>11
       DEF Next, Ended, EnsureRole, EnsureInstanceProfile

LEMMA Inductive == Spec => []IInv
<1>1. IInv /\ [Next]_vars => IInv'
    BY TypeStep, ProfileStep, RoleStep DEF IInv
<1>2. QED
    BY <1>1, InitIInv, PTL DEF Spec

-----------------------------------------------------------------------------
\* Every variable keeps its type; the role never gets more policies than
\* EnsureRole lists.
THEOREM TypeCorrect == Spec => []TypeOK
<1>1. IInv => TypeOK
    BY DEF IInv
<1>2. QED
    BY <1>1, Inductive, PTL

\* A process passes Validate over a profile without the role only for the
\* reasons EmptyProfileExplained lists.
THEOREM EmptyProfileCorrect == Spec => []EmptyProfileExplained
<1>1. IInv => EmptyProfileExplained
    BY IAMAssumption DEF IInv, TypeOK, Maker, ProfileInv, EmptyProfileExplained
<1>2. QED
    BY <1>1, Inductive, PTL

\* A process passes EnsureRole over an incomplete role only for the reasons
\* PartialRoleExplained lists.
THEOREM PartialRoleCorrect == Spec => []PartialRoleExplained
<1>1. IInv => PartialRoleExplained
    BY IAMAssumption
       DEF IInv, TypeOK, Maker, RoleInv, PartialRoleExplained, InProfile
<1>2. QED
    BY <1>1, Inductive, PTL

\* Policies and the role are added by the makers of the role and the profile
\* and by nobody else, and never taken away.
THEOREM MakersCorrect == Spec => OnlyMakersComplete
<1> DEFINE Added ==
      /\ attached' # attached =>
           attached' > attached /\ \E p \in Processes : role = p /\ pc[p] = "attach"
      /\ holder' # holder =>
           holder' = "role" /\ \E p \in Processes : profile = p /\ pc[p] = "addRole"
<1>1. IInv /\ [Next]_vars => [Added]_vars
  <2> SUFFICES ASSUME IInv, [Next]_vars PROVE Added
      OBVIOUS
  <2> USE DEF IInv, TypeOK
  <2>1. ASSUME attached' # attached
        PROVE  attached' > attached /\ \E p \in Processes : role = p /\ pc[p] = "attach"
    <3>1. PICK p \in Processes : AttachRolePolicy(p)
        BY <2>1 DEF Next, Ended, vars, EnsureRole, ListRoles, CreateRole, EnsureRoleFails,
           EnsureInstanceProfile, ListInstanceProfiles, CreateInstanceProfile,
           ListInstanceProfilesForRole, AddRoleToInstanceProfile,
           EnsureInstanceProfileFails, Stop
    <3>2. QED
        BY <3>1 DEF AttachRolePolicy, RoleInv
  <2>2. ASSUME holder' # holder
        PROVE  holder' = "role" /\ \E p \in Processes : profile = p /\ pc[p] = "addRole"
    <3>1. PICK p \in Processes : AddRoleToInstanceProfile(p)
        BY <2>2 DEF Next, Ended, vars, EnsureRole, ListRoles, CreateRole, EnsureRoleFails,
           AttachRolePolicy, EnsureInstanceProfile, ListInstanceProfiles,
           CreateInstanceProfile, ListInstanceProfilesForRole,
           EnsureInstanceProfileFails, Stop
    <3>2. QED
        BY <3>1 DEF AddRoleToInstanceProfile, ProfileInv
  <2>3. QED
      BY <2>1, <2>2
<1>2. QED
    BY <1>1, Inductive, PTL DEF Spec, OnlyMakersComplete, Added

-----------------------------------------------------------------------------
(***************************************************************************)
(* The launch.                                                             *)
(***************************************************************************)
LaunchTyped ==
    /\ family \in [Processes -> {"ipv4", "ipv6"}] /\ step \in [Processes -> Steps]
    /\ subnetID \in [Processes -> Subnets \cup {NoSubnet}]
    /\ instances \in [Processes -> 0 .. NumImages]
    /\ machines \subseteq [owner : Processes, nth : 1 .. NumImages, subnet : Subnets]
    /\ seen \in [Processes -> States]
    /\ polls \in [Processes -> 0 .. MaxPolls]
    /\ sshRule \in {"no", "yes"} /\ warned \subseteq Processes

Admitted(p) == sshRule = "yes" \/ p \in warned

\* What a process has settled when it is at each step.
SettledInv ==
    \A p \in Processes :
        /\ subnetID[p] # NoSubnet => subnetID[p] \in Eligible(p)
        /\ step[p] = "validate" => subnetID[p] = NoSubnet /\ instances[p] = 0
        /\ step[p] \in {"ingress", "launch", "wait"} => subnetID[p] # NoSubnet
        /\ step[p] \in {"subnet", "ingress", "launch", "wait"} => instances[p] < NumImages
        /\ step[p] \in {"launch", "wait"} => Admitted(p)
        /\ step[p] = "subnet" /\ subnetID[p] # NoSubnet => Admitted(p)

\* The last machine of a process that is not recorded.
Unrecorded(p) ==
    \/ step[p] \in {"wait", "killed"}
    \/ /\ step[p] = "error"
       /\ seen[p] = "bare" \/ (seen[p] = "pending" /\ polls[p] = MaxPolls)

MachinesInv ==
    \A m \in machines :
        /\ m.subnet = subnetID[m.owner] /\ subnetID[m.owner] # NoSubnet
        /\ Admitted(m.owner)
        /\ m.nth <= instances[m.owner] + 1
        /\ m.nth = instances[m.owner] + 1 => Unrecorded(m.owner)

LInv == LaunchTyped /\ SettledInv /\ MachinesInv

-----------------------------------------------------------------------------
\* No process has settled anything at first.
LEMMA InitLInv == LaunchInit => LInv
<1> SUFFICES ASSUME LaunchInit PROVE LInv
  OBVIOUS
<1> USE LaunchAssumption DEF LaunchInit
<1>1. LaunchTyped
  BY DEF LaunchTyped, Steps, States
<1>2. SettledInv /\ MachinesInv
  BY DEF SettledInv, MachinesInv
<1> QED
  BY <1>1, <1>2 DEF LInv

\* No step leaves the types.
LEMMA LaunchTypeStep ==
    ASSUME LInv, NEW p \in Processes, StartLaunching(p) \/ CreateAWSInstance(p) \/ Kill(p)
    PROVE  LaunchTyped'
<1> USE LaunchAssumption DEF LInv, LaunchTyped, Steps, At, StepTo, ec2Vars, pollVars
<1>1. CASE StartLaunching(p)
  BY <1>1 DEF StartLaunching
<1>2. CASE PickSubnetID(p)
  BY <1>2 DEF PickSubnetID, Eligible
<1>3. CASE KeepSubnetID(p)
  BY <1>3 DEF KeepSubnetID
<1>4. CASE EnsureSSHSelfIngress(p)
  BY <1>4 DEF EnsureSSHSelfIngress
<1>5. CASE RunInstances(p)
  <2>1. instances[p] + 1 \in 1 .. NumImages /\ subnetID[p] \in Subnets
    BY <1>5 DEF RunInstances, SettledInv
  <2>2. machines' \subseteq [owner : Processes, nth : 1 .. NumImages, subnet : Subnets]
    BY <1>5, <2>1 DEF RunInstances
  <2> QED
    BY <1>5, <2>2 DEF RunInstances
<1>6. CASE DescribeInstances(p)
  <2>1. polls' \in [Processes -> 0 .. MaxPolls]
    BY <1>6 DEF DescribeInstances
  <2>2. seen[p] \in {"pending", "addressed"}
    BY <1>6 DEF DescribeInstances, States, Running
  <2>3. Later[seen[p]] \subseteq States
    BY <2>2 DEF Later, States
  <2>4. seen' \in [Processes -> States]
    BY <1>6, <2>3 DEF DescribeInstances
  <2> QED
    BY <1>6, <2>1, <2>4 DEF DescribeInstances
<1>7. CASE Record(p)
  <2>1. instances' \in [Processes -> 0 .. NumImages]
    BY <1>7 DEF Record, SettledInv
  <2>2. polls' \in [Processes -> 0 .. MaxPolls] /\ seen' \in [Processes -> States]
    BY <1>7 DEF Record, StartOver, States
  <2>3. step' \in [Processes -> Steps]
    BY <1>7 DEF Record, NextStep
  <2> QED
    BY <1>7, <2>1, <2>2, <2>3 DEF Record
<1>8. CASE MissingAddress(p) \/ CallFails(p) \/ Kill(p)
  BY <1>8 DEF MissingAddress, CallFails, Kill
<1> QED
  BY <1>1, <1>2, <1>3, <1>4, <1>5, <1>6, <1>7, <1>8 DEF CreateAWSInstance

\* A process keeps the subnet it picked and the rule it made sure of.
LEMMA SettledStep ==
    ASSUME LInv, NEW p \in Processes, StartLaunching(p) \/ CreateAWSInstance(p) \/ Kill(p)
    PROVE  SettledInv'
<1> USE LaunchAssumption DEF LInv, LaunchTyped, SettledInv, Admitted, At, StepTo, ec2Vars,
        pollVars, Eligible
<1>1. CASE StartLaunching(p)
  BY <1>1 DEF StartLaunching
<1>2. CASE PickSubnetID(p)
  BY <1>2 DEF PickSubnetID, MustPick
<1>3. CASE KeepSubnetID(p)
  BY <1>3 DEF KeepSubnetID, MustPick
<1>4. CASE EnsureSSHSelfIngress(p)
  BY <1>4 DEF EnsureSSHSelfIngress
<1>5. CASE RunInstances(p)
  BY <1>5 DEF RunInstances
<1>6. CASE DescribeInstances(p)
  BY <1>6 DEF DescribeInstances
<1>7. CASE Record(p)
  BY <1>7 DEF Record, NextStep
<1>8. CASE MissingAddress(p) \/ CallFails(p) \/ Kill(p)
  BY <1>8 DEF MissingAddress, CallFails, Kill
<1> QED
  BY <1>1, <1>2, <1>3, <1>4, <1>5, <1>6, <1>7, <1>8 DEF CreateAWSInstance

\* A machine keeps what its owner settled, and only the last one is open.
LEMMA MachinesStep ==
    ASSUME LInv, NEW p \in Processes, StartLaunching(p) \/ CreateAWSInstance(p) \/ Kill(p)
    PROVE  MachinesInv'
<1> USE LaunchAssumption DEF LInv, LaunchTyped, MachinesInv, Unrecorded, Admitted, At, StepTo,
        ec2Vars, pollVars
<1>1. CASE StartLaunching(p)
  BY <1>1 DEF StartLaunching
<1>2. CASE PickSubnetID(p)
  BY <1>2 DEF PickSubnetID, MustPick
<1>3. CASE KeepSubnetID(p)
  BY <1>3 DEF KeepSubnetID
<1>4. CASE EnsureSSHSelfIngress(p)
  BY <1>4 DEF EnsureSSHSelfIngress
<1>5. CASE RunInstances(p)
  BY <1>5 DEF RunInstances, SettledInv
<1>6. CASE DescribeInstances(p)
  BY <1>6 DEF DescribeInstances
<1>7. CASE Record(p)
  BY <1>7 DEF Record, StartOver
<1>8. CASE MissingAddress(p)
  BY <1>8 DEF MissingAddress, WaitIsOver, Running
<1>9. CASE CallFails(p) \/ Kill(p)
  BY <1>9 DEF CallFails, Kill
<1> QED
  BY <1>1, <1>2, <1>3, <1>4, <1>5, <1>6, <1>7, <1>8, <1>9 DEF CreateAWSInstance

\* LInv is inductive.
LEMMA LInvStep ==
    ASSUME LInv, [LaunchNext]_allVars
    PROVE  LInv'
<1>1. ASSUME NEW p \in Processes, StartLaunching(p) \/ CreateAWSInstance(p) \/ Kill(p)
      PROVE  LInv'
  BY <1>1, LaunchTypeStep, SettledStep, MachinesStep DEF LInv
<1>2. CASE UNCHANGED launchVars
  BY <1>2 DEF launchVars, ec2Vars, pollVars, LInv, LaunchTyped, SettledInv, MachinesInv,
              Admitted, Unrecorded, Eligible
<1> QED
  BY <1>1, <1>2 DEF LaunchNext, allVars

\* Every reachable state is inside the invariant.
LEMMA LInvariance == LaunchSpec => []LInv
  BY InitLInv, LInvStep, PTL DEF LaunchSpec

-----------------------------------------------------------------------------
\* Launching does not touch the role and the profile: Launch implements IAM.
THEOREM LaunchImplementsIAM == LaunchSpec => Spec
<1>1. LaunchInit => Init
  BY DEF LaunchInit
<1>2. ASSUME [LaunchNext]_allVars PROVE [Next]_vars
  <2>1. ASSUME NEW p \in Processes, StartLaunching(p) \/ CreateAWSInstance(p) \/ Kill(p)
        PROVE  UNCHANGED vars
    BY <2>1 DEF StartLaunching, CreateAWSInstance, Kill, PickSubnetID, KeepSubnetID,
                EnsureSSHSelfIngress, RunInstances, DescribeInstances, Record, MissingAddress,
                CallFails
  <2> QED
    BY <1>2, <2>1 DEF LaunchNext, allVars
<1> QED
  BY <1>1, <1>2, PTL DEF LaunchSpec, Spec

\* The types of Launch, and of IAM below it.
THEOREM LaunchTypeCorrect == LaunchSpec => []LaunchTypeOK
<1>1. LInv /\ TypeOK => LaunchTypeOK
  BY DEF LInv, LaunchTyped, LaunchTypeOK
<1> QED
  BY <1>1, LInvariance, LaunchImplementsIAM, TypeCorrect, PTL

\* The machines of a process share one eligible subnet and, unless it logged
\* that it failed to see to it, the rule that lets them ssh to each other.
THEOREM ConnectedCorrect == LaunchSpec => []ClusterIsConnected
<1>1. LInv => ClusterIsConnected
  BY DEF LInv, LaunchTyped, SettledInv, MachinesInv, Admitted, ClusterIsConnected
<1> QED
  BY <1>1, LInvariance, PTL

\* An instance that is not recorded is the last its process launched.
THEOREM AccountsCorrect == LaunchSpec => []MachinesAccounted
<1>1. LInv => MachinesAccounted
  BY DEF LInv, LaunchTyped, MachinesInv, Unrecorded, MachinesAccounted
<1> QED
  BY <1>1, LInvariance, PTL

\* The explanations of IAM hold while machines are launched.
THEOREM LaunchKeepsIAM ==
    LaunchSpec => []EmptyProfileExplained /\ []PartialRoleExplained /\ OnlyMakersComplete
  BY LaunchImplementsIAM, EmptyProfileCorrect, PartialRoleCorrect, MakersCorrect, PTL
=============================================================================
