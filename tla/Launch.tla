------------------------------- MODULE Launch -------------------------------
(***************************************************************************)
(* The processes of IAM go on to launch their machines, one after the      *)
(* other (createAWSInstance).  Before the first one a process picks one    *)
(* subnet of the default VPC for all of them, and tries to let the         *)
(* machines of the default security group, which all processes share, ssh  *)
(* to each other.  EC2 gives a machine its address and starts it some time *)
(* after the launch, in either order; a machine that has no address when   *)
(* the polls end is not recorded.                                          *)
(***************************************************************************)
EXTENDS IAM

CONSTANTS NumImages,   \* machines of each process
          Subnets,     \* subnets of the default VPC
          Unsuited,    \* those in us-east-1e
          WithIPv6,    \* those with an associated IPv6 block
          NoSubnet,    \* AWSRunner.subnetID before one is picked
          MaxPolls     \* polls of WaitForInstanceToRun (30 in the code)

ASSUME LaunchAssumption ==
    /\ NumImages \in Nat \ {0} /\ MaxPolls \in Nat \ {0}
    /\ Unsuited \subseteq Subnets /\ WithIPv6 \subseteq Subnets /\ NoSubnet \notin Subnets

VARIABLES
    family,      \* --ip-family: "ipv4", or "ipv6" for ipv6 and dual
    step,        \* where each process is in createAWSInstance
    subnetID,    \* AWSRunner.subnetID
    instances,   \* how many machines each process has recorded
    machines,    \* the machines EC2 has: their owner, number and subnet
    seen,        \* what DescribeInstances last told of the machine
    polls,       \* iterations of WaitForInstanceToRun
    sshRule,     \* whether the default group admits ssh from itself
    warned       \* processes that logged "could not ensure ssh ingress"

pollVars == <<seen, polls>>
ec2Vars == <<machines, sshRule>>
launchVars == <<family, step, subnetID, instances, ec2Vars, pollVars, warned>>
allVars == <<vars, launchVars>>

Steps == {"validate", "subnet", "ingress", "launch", "wait", "launched", "error", "killed"}
\* "bare" is running without an address, "addressed" not running yet with one.
States == {"pending", "addressed", "bare", "running"}
Later == [pending |-> States, addressed |-> {"addressed", "running"}]
Running == {"bare", "running"}

LaunchInit ==
    /\ Init
    /\ family \in [Processes -> {"ipv4", "ipv6"}]
    /\ step = [p \in Processes |-> "validate"]
    /\ subnetID = [p \in Processes |-> NoSubnet]
    /\ instances = [p \in Processes |-> 0] /\ machines = {}
    /\ seen = [p \in Processes |-> "pending"] /\ polls = [p \in Processes |-> 0]
    /\ sshRule \in {"no", "yes"} /\ warned = {}

At(p, label) == step[p] = label
StepTo(p, label) == step' = [step EXCEPT ![p] = label]

-----------------------------------------------------------------------------
StartLaunching(p) ==
    /\ At(p, "validate") /\ pc[p] = "passed" /\ StepTo(p, "subnet")
    /\ UNCHANGED <<vars, family, subnetID, instances, ec2Vars, pollVars, warned>>

MustPick_EachTime(p) == TRUE                  \* fault: the choice is not kept
MustPick(p) == subnetID[p] = NoSubnet
Eligible(p) == (Subnets \ Unsuited) \cap (IF family[p] = "ipv6" THEN WithIPv6 ELSE Subnets)

PickSubnetID(p) ==
    /\ At(p, "subnet") /\ MustPick(p)
    /\ \E s \in Eligible(p) : subnetID' = [subnetID EXCEPT ![p] = s]
    /\ StepTo(p, "ingress")
    /\ UNCHANGED <<vars, family, instances, ec2Vars, pollVars, warned>>

KeepSubnetID(p) ==
    /\ At(p, "subnet") /\ ~MustPick(p) /\ StepTo(p, "launch")
    /\ UNCHANGED <<vars, family, subnetID, instances, ec2Vars, pollVars, warned>>

\* The rule may be there already: a duplicate is a success.
EnsureSSHSelfIngress(p) ==
    /\ At(p, "ingress") /\ StepTo(p, "launch")
    /\ \/ sshRule' = "yes" /\ UNCHANGED warned
       \/ warned' = warned \cup {p} /\ UNCHANGED sshRule
    /\ UNCHANGED <<vars, family, subnetID, instances, machines, pollVars>>

\* LaunchNewInstance: GetInstanceProfileArn finds the profile by its name.
RunInstances(p) ==
    /\ At(p, "launch") /\ profile # Absent /\ StepTo(p, "wait")
    /\ machines' = machines \cup
                     {[owner |-> p, nth |-> instances[p] + 1, subnet |-> subnetID[p]]}
    /\ UNCHANGED <<vars, family, subnetID, instances, pollVars, sshRule, warned>>

-----------------------------------------------------------------------------
\* EC2 may have given the machine its address, or started it, or both, meanwhile.
\* The call may fail: the iteration is over all the same.  The loop ends at the first
\* answer that says running.
DescribeInstances(p) ==
    /\ At(p, "wait") /\ polls[p] < MaxPolls /\ seen[p] \notin Running
    /\ polls' = [polls EXCEPT ![p] = @ + 1]
    /\ \E s \in Later[seen[p]] : seen' = [seen EXCEPT ![p] = s]
    /\ UNCHANGED <<vars, family, step, subnetID, instances, ec2Vars, warned>>

WaitIsOver_FirstAnswer(p) == polls[p] > 0     \* fault: any state will do
WaitIsOver(p) == seen[p] \in Running \/ polls[p] = MaxPolls

NextStep(p) == IF instances'[p] < NumImages THEN "subnet" ELSE "launched"

\* The next launch starts with the variables of a new one.
StartOver(p) ==
    /\ seen' = [seen EXCEPT ![p] = "pending"] /\ polls' = [polls EXCEPT ![p] = 0]

\* createAWSInstance returns, and Up records the machine.
Record(p) ==
    /\ At(p, "wait") /\ WaitIsOver(p) /\ seen[p] \in {"addressed", "running"}
    /\ instances' = [instances EXCEPT ![p] = @ + 1]
    /\ StepTo(p, NextStep(p)) /\ StartOver(p)
    /\ UNCHANGED <<vars, family, subnetID, machines, sshRule, warned>>

\* Only the addresses are looked at, not the state.
MissingAddress(p) ==
    /\ At(p, "wait") /\ WaitIsOver(p) /\ seen[p] \in {"pending", "bare"}
    /\ StepTo(p, "error")
    /\ UNCHANGED <<vars, family, subnetID, instances, ec2Vars, pollVars, warned>>

\* No default VPC or eligible subnet, no profile found, no capacity.
CallFails(p) ==
    /\ step[p] \in {"subnet", "launch"} /\ (At(p, "subnet") => MustPick(p))
    /\ StepTo(p, "error")
    /\ UNCHANGED <<vars, family, subnetID, instances, ec2Vars, pollVars, warned>>

CreateAWSInstance(p) ==
    \/ PickSubnetID(p) \/ KeepSubnetID(p) \/ EnsureSSHSelfIngress(p)
    \/ RunInstances(p) \/ DescribeInstances(p) \/ Record(p) \/ MissingAddress(p)
    \/ CallFails(p)

Kill(p) ==
    /\ step[p] \in {"subnet", "ingress", "launch", "wait"} /\ StepTo(p, "killed")
    /\ UNCHANGED <<vars, family, subnetID, instances, ec2Vars, pollVars, warned>>

LaunchNext ==
    \/ Next /\ UNCHANGED launchVars
    \/ \E p \in Processes : \/ StartLaunching(p) \/ CreateAWSInstance(p)
                            \/ Kill(p)

LaunchSpec == LaunchInit /\ [][LaunchNext]_allVars

-----------------------------------------------------------------------------
LaunchTypeOK ==
    /\ TypeOK
    /\ family \in [Processes -> {"ipv4", "ipv6"}] /\ step \in [Processes -> Steps]
    /\ subnetID \in [Processes -> Subnets \cup {NoSubnet}]
    /\ instances \in [Processes -> 0 .. NumImages]
    /\ machines \subseteq [owner : Processes, nth : 1 .. NumImages, subnet : Subnets]
    /\ seen \in [Processes -> States]
    /\ polls \in [Processes -> 0 .. MaxPolls]
    /\ sshRule \in {"no", "yes"} /\ warned \subseteq Processes

(***************************************************************************)
(* The machines of one process are a cluster that can be reached through   *)
(* its control plane: they share one subnet, one that fits the IP family,  *)
(* and the group they share with other clusters admits ssh between them    *)
(* unless the process logged that it could not be made to.                 *)
(***************************************************************************)
ClusterIsConnected ==
    \A m \in machines :
        /\ m.subnet \in Eligible(m.owner)
        /\ \A o \in machines : o.owner = m.owner => o.subnet = m.subnet
        /\ sshRule = "yes" \/ m.owner \in warned

(***************************************************************************)
(* A machine EC2 has and its process did not record (Down will not end it) *)
(* is the last one the process launched, and it still waits for it, was    *)
(* killed over it, or gave up on it over a missing address: because it saw *)
(* it running before it had one, or after all its polls.                   *)
(***************************************************************************)
MachinesAccounted ==
    \A m \in machines : m.nth > instances[m.owner] =>
        /\ m.nth = instances[m.owner] + 1
        /\ \/ step[m.owner] \in {"wait", "killed"}
           \/ step[m.owner] = "error" /\ \/ seen[m.owner] = "bare"
                                         \/ /\ seen[m.owner] = "pending"
                                            /\ polls[m.owner] = MaxPolls
=============================================================================
