# Verification of provider-aws-test-infra

TLA+ models of the programs in this repository, the TLC runs that check them on
small instances, and TLAPS proofs of their most important properties for every
instance. Paths are relative to the repository; `pkg/` stands for
`kubetest2-ec2/pkg/deployer/`.

## 1. The system

The repository holds two programs that bring up EC2 machines, test Kubernetes on
them and take them down again.

* **kubetest2-ec2** is a kubetest2 deployer. kubetest2's `RealMain` (vendored,
  `vendor/sigs.k8s.io/kubetest2/pkg/app/app.go`) calls `Build`, `Up`, the tester
  and `Down`, the last one deferred, and from a signal handler as well. `Up`
  launches a control plane and the workers one after the other, checks each in a
  goroutine of its own, and waits for the cluster.
* **The node e2e runner** (`test/e2e_node/`) runs the kubelet's node tests on one
  machine per image, in parallel, under `RunRemoteTestSuite` (vendored,
  `k8s.io/kubernetes/test/e2e_node/remote`).

### Inventory

| Component | State it keeps | Operations | Interacts with |
|---|---|---|---|
| Life cycle and deployer (`app.go`, `pkg/up.go`, `pkg/deployer.go`) | `d.runner`, `runner.instances`, `controlPlaneIP`, channels `fatalErrors` and `wgDone`, a wait group, results of Up and the tester | Build, Up, Test, Down, the signal handler | goroutines share `d.runner` and the channels; EC2 holds the machines |
| Instance check and ssh keys (`pkg/runner.go`, `pkg/utils/sshkey.go`) | the files `~/.ssh/kube_aws_rsa{,.pub}`, `sshKeyMu`, `createdSSHKey`, the node's `authorized_keys` | `isAWSInstanceRunning`, `assignNewSSHKey` and the helpers that load, generate and save keys | one goroutine per machine; EC2 instance connect; ssh |
| SSH helper (`pkg/remote/ssh.go`) | flags, host and key override maps | `SSH`, `SCP` | called by all checks, waits and dumps |
| Instance profile and role (`pkg/utils/role.go`, `instanceprofile.go`) | objects in the AWS account, shared by all runs | `EnsureRole`, `EnsureInstanceProfile` | other kubetest2-ec2 processes, through IAM |
| Readiness waits (`pkg/deployer.go`, `pkg/up.go`) | none of their own | four waits at the end of Up | the cluster, through kubectl and ssh |
| EC2 launch (`pkg/utils/ec2.go`) | the subnet picked first | `LaunchNewInstance`, `PickSubnetID`, `EnsureSSHSelfIngress` | EC2; the default security group is shared by all runs |
| Validation and images (`pkg/runner.go`, `pkg/utils/{ssm,s3,userdata}.go`) | option fields it fills in | `Validate`, `prepareAWSImages`, `getUserData` | SSM, S3 |
| Build and staging (`pkg/build.go`, `pkg/build/`) | the tarball in S3 | `Build`, `Stage` | machines download what was staged |
| Log dump (`pkg/dump.go`) | the logs directory | `DumpClusterLogs` | called by Up, by failing checks and by both Downs, possibly at once |
| Bootstrap (`kubetest2-ec2/config/`) | files of a machine | `wait_for_update`, kubeadm init or join, post-install | S3; the control plane's API server |
| Node e2e runner (`test/e2e_node/remote/aws/aws_runner.go`) | instances, key files, results channel | `StartTests`, `testAWSImage`, `getAWSInstance`, `deleteAWSInstance` | one goroutine per image; tests may share an instance |
| Node e2e images (same file) | the prepared images | `prepareAWSImages` | the image config, a Go map |
| Scripts (`hack/`, `kubetest2-ec2/scripts/`) | none | AMI build, S3 population, dependency bumps | run by hand |

### What is hard in it, and what correct means

* **Life cycle.** Up races its checks, which race each other to an unbuffered
  channel Up closes after the first receive; the signal handler's Down races Up.
  Correct: Up succeeds only when every check did; every machine that may outlive
  the run is accounted for; a failed check surfaces; the run ends.
* **Keys.** All goroutines look for one key pair and create it when it is
  missing, with writes that fail half-way and retries over what was left.
  Correct: all nodes trust the one pair on disk and nobody replaces it.
* **IAM.** Runs share objects that are found by name but made in several calls.
  Correct: whoever goes on over an incomplete object does so for a known reason.
* **Launch.** Several runs share one account, one default group and its rule for
  ssh. Correct: a run's machines form one connected cluster, and a machine the
  run did not record is accounted for.
* **Readiness and bootstrap.** The machines wait for a tarball other jobs may
  replace, their scripts fail half-way, every wait of Up can fail or time out and
  none has a result that stops Up. Correct: Up ends; what a machine calls stable is one
  tarball; and an Up that logged nothing left a cluster that was deployed and ready.
* **Validation.** Two nearly equal blocks fill in the options of the two kinds of
  machine. Correct: each machine gets what its own options say.
* **Log dump.** Goroutines dump into one directory while machines are terminated.
  Correct: a machine's logs are asked for before it goes, and are there afterwards, or
  there is a known reason.
* **Node e2e.** Tests share instances, key files and one results channel, and
  the process exits when the count is complete. Correct: tests do not disturb
  each other, the exit status covers all, clean-up precedes the exit.

`PROJECT.json` lists every component with its status and every hazard at its
line, with the properties that watch it.

## 2. Modules

| Module | Models | Lines of code behind it |
|---|---|---|
| `ClusterLifecycle` | the abstract promise: launches in order, a verdict only over checked machines, termination for good | (specification) |
| `Deployer` | one run of kubetest2-ec2: main goroutine, checks, closer of `wgDone`, signal handler | `app.go` 50-203, `up.go` 107-234, `deployer.go` 154-168, `runner.go` 587-643 |
| `DeployerProofs` | theorems about `Deployer`, that it implements `ClusterLifecycle`, and about `LogDump`, that it implements `Deployer` | |
| `InstanceCheck` | the goroutine that checks one machine, down to the key files | `runner.go` 215-333, 647-740, `sshkey.go` |
| `SharedKey` | the abstract promise: one whole pair, never replaced once a machine trusts it, and one verdict per check | (specification) |
| `InstanceCheckProofs` | theorems about `InstanceCheck`, and that it implements `SharedKey` | |
| `LogDump`, `MCLogDump` | `Deployer` with the log dump each of its goroutines makes | `dump.go`, `ssh.go` 118-159, its callers |
| `IAM` | several processes that ensure the role and the profile | `role.go`, `instanceprofile.go`, `runner.go` 357-368 |
| `Launch` | the processes of `IAM` as they go on to launch their machines (extends `IAM`) | `ec2.go`, `runner.go` 587-643 |
| `LaunchProofs` | theorems about `IAM` and about `Launch`, and that `Launch` implements `IAM` | |
| `Readiness` | the end of Up against a cluster free to do anything | `deployer.go` 189-328, `up.go` 185-199, 236-286 |
| `ReadinessProofs` | theorems about `Readiness` | |
| `Bootstrap`, `MCBootstrap` | the machines that run their user data, S3, and Up waiting for them (extends `Readiness`) | `config/run-kubeadm.sh`, `run-post-install.sh`, `al2023.sh`, `ubuntu2604.yaml` |
| `BootstrapProofs` | theorems about `Bootstrap`, and that it implements `Readiness` | |
| `Validate` | the options of kubetest2-ec2 turned into machines | `Validate` and `getUserData` of `runner.go`, `ssm.go`, `userdata.go` |
| `ValidateProofs` | theorems about `Validate` | |
| `NodeE2E` | the node e2e runner | `aws_runner.go` 103-113, 229-454, `run_remote_suite.go` |
| `NodeE2EProofs` | theorems about `NodeE2E` | |
| `PrepareImages` | the node e2e runner's image loop | `aws_runner.go` 115-227 |
| `PrepareImagesProofs` | theorems about `PrepareImages` | |

`PROJECT.json` maps every definition to its lines. Operators with a suffix
(`FirstIP_Latest`, `LockFree_Skipped`) and a `fault:` comment are not part of the
models: each is a plausible bug of the definition without the suffix, and TLC
finds the property it is paired with violated when it takes that definition's
place.

### Deployer

State: `pc`, `image` (the loop variable of Up), `instances` (the length of
`runner.instances`, since images are launched and recorded in order), `cloud`
(what EC2 runs), `gpc`/`gerr` (the checks), `wg`, `waiter` and `fatalErrors` (the
wait group and the channels), `dpc`, `dnext`, `dlen` (the range loop of Down, once
in the main goroutine and once in the handler). A send on `fatalErrors` and its
receive are one rendezvous (`SelectError`); a send after the close is
`SendPanics`. `DownStart` fixes the range length, as Go does. The ways a process
can end are kept apart in `proc`: a normal return, `os.Exit(0)` in the handler,
a panic on the closed channel, a nil `d.runner`, and `klog.Fatalf` in
`downloadKubeConfig`.

Build and Validate are one step each, and a check is a step with two outcomes
here; `InstanceCheck` opens the check, `Validate` and `IAM` open Validate, `Launch`
the launch, and `Readiness` what follows the select (`SelectDone` of `Deployer` cannot
fail, because no wait returns an error to Up).

### LogDump

Takes the steps of `Deployer` as they are, and makes each step that reports a
failed check or launch, and each Down, wait for the dump its goroutine makes
first. A dump is `os.Stat` and `os.Mkdir` of the log directory as separate steps,
the loops of the earlier files (`DumpOthers`: they take a runner, and fail without
consequence), and the loop over `journal.log`, instance by instance, whose range is
fixed when that loop begins. The files of an instance are written alike; the last
stands for all. `dump.go` writes what ssh returned even when ssh failed, and a later
dump truncates what an earlier one wrote, so `log` says what the file holds: "up", the
logs of a machine that was up; "lost", less than that, because ssh did not get through
to a machine that was up, or the file could not be created; "down", what ssh printed
about a machine that was gone. The directories of the instances are not followed: that
one may be missing is among the reasons for which creating the file may fail.

### InstanceCheck

A key pair is a number, and each half of the pair on disk has its own (`priv`,
`pub`), so that a half-written pair, a leftover of an earlier run and a
mismatched pair are all states. The initial states hold every combination an
earlier run may have left. `assignNewSSHKey` is a step per file access and per
remote call; the mutex is held between `Lock` and `Unlock`/`UnlockOnError`.

`SharedKey` says the same without goroutines, polls or mutex: its `pair` is the two
files, `trusted` what each machine's `authorized_keys` holds besides the user's own
key, `verdict` whether the check has returned and how. Writing is allowed until the
first machine trusts the pair, trusting only while the pair is whole.

### IAM

`role` and `profile` are the process that made the object; `attached` counts
policies, `holder` says whether the profile holds the role, `elsewhere` whether
another profile does. List calls may miss an object, which covers eventual
consistency and the code's reading of the first page only. `Stop` is a process
interrupted between two calls.

### Launch

Each process that passed Validate picks a subnet once (`subnetID`), tries the rule
for ssh in the group all processes share, and launches its images one by one. EC2
gives a machine its address and starts it some polls after the launch, in either order.
`WaitForInstanceToRun` stops at the first answer that says running, with or without an
address, and `createAWSInstance` then looks at the addresses only; a machine that runs
but has none yet ("bare") is given up on the spot. A process may be killed between any
two steps. The steps of `IAM` are unchanged, and `LaunchImplementsIAM` proves that
no step of a launch disturbs them.

### Readiness and Bootstrap

In `Readiness` the cluster moves by itself: nodes join, get ready and flap, cloud-init
ends well or badly, the provider's pod is created, gets ready and is replaced. Each
iteration of a waiting loop is a step. `logged` records the waits that logged a
failure, `nodesShort` the one that can run out silently. `kubeconfig` is
"foreign" when `--kubeconfig` named another cluster: kubectl then reports
anything.

In `Bootstrap` that cluster is what the repository's scripts make. Tarballs are
numbered in the order their uploads end; `GetEtag` and `GetSize` are the two calls
of `wait_for_update`, with uploads of other jobs (`Stage`) between them. `Kubeadm`,
`PostInstall` and `ScriptFails` follow the order of the scripts, and that cloud-init
goes on with the next script after one that failed. `FreeCluster` is `Readiness`
with the control plane taken for registered from the start: `ReadinessAllows` says
that the machines do only what `Readiness` allows.

### Validate

The sequence of look-ups, defaults and template fillings, one step each, over every
combination of the image, user data file and instance type of both kinds of
machine. A template is the set of placeholders still open in each file it embeds,
since the embedded files are compressed and nothing reaches them afterwards.

### NodeE2E and PrepareImages

One process per image (`find`, `launch`, `wait`, `key`, `probe`, `run`, and the
deferred `remove`, `delete`, `send`), EC2 machines, the override map and the key
files, `litter` among them: the private key file an attempt of `assignNewSSHKey` leaves
behind when it fails after `os.CreateTemp`, and which nobody removes. `PrepareImages` takes the config images in any order, as ranging over a
Go map does, and keeps the variable the loop carries from one to the next.

## 3. Runs

| Run | Instance | Shows |
|---|---|---|
| `deployer_safety` | control plane, 2 workers (585k states) | types; `UpOkMeansVerified`; a panic needs two failures; an orphan is the last launch; workers know the control plane; a clean run leaves nothing; every survivor is explained; a nil runner loses nothing; `ClusterLifecycle` is implemented |
| `log_dump` | control plane, 1 worker, 3 command lines, 3 states of the directory (814k) | before a machine is terminated its logs were asked for, and if they are not there the reason is known; a dump that fails for the directory leaves a rival at work; with the dumps in the way the run still ends (`Termination`) and a failed check is reported (`FailureReported`) |
| `deployer_PanicLeavesNothing` | 2 workers, **violated** | a second failing check panics under the deferred Down |
| `deployer_InterruptLeavesNothing` | 2 workers, **violated** | Up launches on while the handler runs Down |
| `instance_check` | 2 goroutines, 3 polls (86k) | one key on all nodes; a trusted key stays; `SharedKey` is implemented; every check returns |
| `launch` | 2 processes, 2 policies, 2 machines each, 3 subnets | incomplete profiles and roles are explained; only makers complete an object; clusters are connected; machines are accounted for |
| `bring_up` | control plane and worker, 2 readings, 3 tarballs, 2 polls, 2 pods (633k) | what is stable is one tarball; a silent Up was ready and was deployed; Up ends; `Readiness` allows all of it |
| `validate` | every combination of options | each machine has the script and the filled-in files of its own options, and exactly the type given for it, or the arm64 default for the amd64 one |
| `node_e2e` | 2 images, 2 AMIs (267k) | isolation, or who took the instance or key of a suite away; exit status, every test reported and cleaned up before the exit, the run ends |
| `node_e2e_DeletesAllCreated` | 2 images, **violated** | an instance that never came up is not deleted |
| `prepare_images_safety` | 3 config images, 1 listed (23k) | each image once, with its profile and the user data named for it |
| `prepare_images_user_data` | same, **violated** | an image without user data inherits another's |

### Findings

The four violated runs each check a sentence of the repository against the code:

1. `up.go:167` closes `fatalErrors` after the first error; the next failing check
   panics on its send (`up.go:152`) and the process dies before Down is through,
   while kubetest2 promises that Down runs when Up fails (`app.go:141`).
2. On a signal the handler terminates what is recorded and calls `os.Exit`,
   while Up goes on launching: its newest machines outlive the "graceful"
   clean-up (`app.go:101`).
3. `delete-instances`, "If true, delete any instances created"
   (`run_remote_suite.go:39`), does not cover an instance that was launched and
   never became ready (`aws_runner.go:230-238`).
4. `userData` in `prepareAWSImages` is never reset, so an image that names no file
   gets the one read last in map order, although the comment at
   `aws_runner.go:171` says user data comes from the image config or the command
   line.

Noted while modelling, part of the models and of no run of their own:

* `--image al2023` is accepted for the control plane, but `al2023.sh` only joins
  (`Initialises` in `Bootstrap`): such a cluster never comes up, and the check of
  the control plane reports it.
* A dump that comes later truncates the logs an earlier one took while the machine
  was up (`os.Create`, `dump.go:94`), and writes even what a failed ssh returned
  (`dump.go:100`); `LogsBeforeTermination` names both cases.
* A machine that runs before it has an address is given up at once, although polls are
  left (`ec2.go:165`); `MachinesAccounted` names that case.
* A failed attempt of `assignNewSSHKey` may leave a private key in the temporary directory
  (`aws_runner.go:440-450`); `CleanUpPrecedesExit` is about the key file the test used.
* On arm64 a machine with an AMI of its own and the default type moves to the arm64 type
  when the image of the other machine is looked up (`runner.go:138-143`, 189-194);
  `MachinesFitArch` says so.
* Of two goroutines that find no log directory the second to call `os.Mkdir` skips
  its dump; when that is Down's, the machines are terminated under the other dump.
* When the wait for cloud-init runs out (`up.go:191`) Up logs it and succeeds, so
  the post-install script may still run; `SilentUpWasDeployed` speaks of an Up that
  logged nothing.

### Bounds, and why they are enough

* Two workers are the least with a first and a later worker, two goroutines that
  can fail after a third, and a machine recorded after Down fixed its range.
  `log_dump` takes one worker and the command lines that differ for the dumps: two
  checks race the channel, the wait group and the directory, with the two Downs. With
  Up and Down both, the directory is absent or impossible at first: once made it is present
  for all that come after. It is present at first with the other two command lines.
* Two goroutines and three polls in `InstanceCheck`: one poll to fail in, one to
  retry over what the first left, one to run out. The interplay is pairwise,
  through the files and the mutex.
* Two processes in `launch`: a maker of the role and profile and one that overtakes
  it or comes when it is gone; two policies, so that the loop can stop between them;
  two machines, so that one is launched with the subnet kept from the other; three
  subnets: unsuited, with IPv6, and without.
* Three tarballs and two readings: a pass may be torn by the second upload and
  repeated after it; the first and the last have the same size, so that size alone
  cannot tell them apart.
* `validate` enumerates all options; `NumNodes = 2` has a first and a later worker.
* Two polls tell a first poll, a later one and an exhausted loop apart; two pods
  allow a replacement between listing and waiting.
* Two images on one or two AMIs share an instance or do not; a third adds
  nothing but another sharer. In `PrepareImages` three config images let one
  come before, between and after those with user data.

`MaxPolls` stands for 30, `MaxReadings` for 20, `NumPolicies` for 8; `MaxPods` and
`MaxUploads` are bounds of the model only. No state constraint is used.

### Fairness

* `LogDump`, for the steps of `Deployer` and the dumps: weak fairness of all goroutines
  together (`Runs`). While one can run Go runs one, and every call the models make a step
  of is bounded (the SDK's waiters and retries, `ssh`, the tester). None needs to be
  favoured, since no step can be taken for ever (`LogProgressCorrect`). Signals are not
  fair.
* `InstanceCheck`: weak fairness of each goroutine, and strong fairness of `Lock`, since Go's mutex hands
  itself to a waiter that has starved for a millisecond.
* `NodeE2E`: weak fairness per test and of the main goroutine.
* `Bootstrap`: weak fairness of Up only (`BringUp`); the machines and the cluster owe
  nothing.

## 4. Proofs

All proofs are for any value of the constants, under the named assumptions of the
modules (`NumNodes` is a natural number, bounds are positive, special values are
distinct from nodes and processes).

**DeployerProofs.** `IInv` has six layers. `CoreInv`: the creation loop determines
which checks exist; `wg` equals the number of active checks (`WgInv`, by
cardinality lemmas `ActiveGrows` and `ActiveShrinks`); a goroutine gets past its
failed check only by handing the error over (`CheckInv`), which is what
makes `UpOkMeansVerified` and `PanicNeedsTwoFailures` inductive. `CloudInv` ties EC2 to
the loop (`OrphanIsLast`), `AddressInv` the control plane address to the first
iteration, `TerminatedInv` the loops of Down to what EC2 has lost
(`CleanRunLeavesNothing`), `RunnerInv` a nil runner to an empty cloud, and `EndInv` each
end of the process to the Down before it (`SurvivorsExplained`).
`LifecycleImplemented` maps every step to one of `ClusterLifecycle` or a stutter.

For the dumps, `LogDumpImplementsDeployer` shows that each step of `LogDump` is one of
`Deployer` or leaves its variables alone, so `IInv` holds there too. `LInv` adds
`RivalInv` (a directory found made after all owes it to another dump), `WrittenInv`
(a dump has tried to write each file behind its loop), `OrderInv` (no Down
terminates before its dump is over), `GoneInv` (a machine that is gone is behind the
loop of a Down) and `DownLogInv` (a log of a machine that is gone was written by
another goroutine).

**InstanceCheckProofs.** `MutexInv` (in the critical section iff owner), `UserInv`,
`SavingInv` (the pair on its way to disk), `SharedInv`: whoever holds the shared
pair, or has handed it out, holds what the files hold and nobody is saving.
`ProbedInv` carries that to the nodes found running. `TrustedKeyStays`, an action
property, follows from `SharedInv`. For the refinement `SoundInv` adds that a half
that cannot be read never goes to a machine, in whatever state the files were found,
and the user's own key never into the shared files; each step is then
one of `SharedKey` or a stutter (`SharedKeyImplemented`), and `OneKey`, the invariant of
the abstract specification, holds of the goroutines (`OneKeyCorrect`).

**ReadinessProofs.** `NodesInv`, `CloudInv` and `PodInv` say what each wait left true
behind it as long as it logged nothing. `AllCounted` turns the count kubectl
returned into "all nodes".

**NodeE2EProofs.** `HandInv` says whose machine a test has in hand, `ResultsInv` that
`received` counts the tests that are done and that `exitOk` is about exactly those
(so that the exit status covers all when the count is complete), `DefersInv` what
the deferred calls have done when a test sends its result, and `AloneInv` that
without reuse nobody else touches a test's machine. `SharedInv` is for reuse: the key
registered for a machine is that of a test which has the machine in hand, and the machine or
the file is there until a test that shares it is past its suite (`Left`). `TestsAreIsolated`
alone is not inductive: it needs to know whom the instance was launched for, and whose key
is registered.

**PrepareImagesProofs.** `LoopInv` ties the images prepared to the part of the map that
is behind the loop, in whatever order; `Profiles` and `Data` say what each got.

**BootstrapProofs.** `ReadingInv` carries the argument for `StableIsOneTarball`: a reading
took its etag no later than its size, and both before the next etag
(`TakenBefore`), so two equal readings enclose a time in which the object did not
change. `JoinInv` and `PostInv` order the scripts. `RefinementCorrect` maps each step
of a machine to a step of the free cluster or to a stutter, and through it the
theorems of `ReadinessProofs`, instantiated for these machines (`Checked`), give
`SilentUpOfMachines`.

**ValidateProofs.** `OptionInv` says what the options of each kind of machine have become
on either side of its block of `Validate`, `TypeInv` what the look-ups so far have made of the types,
`DataInv` what `getUserData` made of each template and `ImagesInv` what ends up in the
list of machines. The tables of the model (`LookedUp`, `UserDataFor`, the placeholders of
each file) are taken apart once, in the lemmas `Tables` and `FilledWhole`.

**LaunchProofs.** Of `IAM`, `ProfileInv` and `RoleInv` tie each object to the progress of
its maker; a property about "somebody else's object" is not inductive without
knowing where that somebody is. Of `Launch`, `SettledInv` says what a process has settled at each step of
`createAWSInstance`, `MachinesInv` that every machine has the subnet of its process and
that only the last may be unrecorded, and why. `LaunchImplementsIAM` carries the theorems about
`IAM` over (`LaunchKeepsIAM`).

**Progress.** The prover cannot conclude that a fair run ends, but both things such a
conclusion rests on are safety properties, and they are proved for every value of the
constants. One is that each step uses up one of a bounded number: `StepsToGo` adds up
what each goroutine has left, `EveryStepCounts` says that it decreases, so no behaviour,
fair or not, goes round in circles. The bound is `9 * NumNodes + 26` for a run, ten per poll
and two for each check, `3 * MaxPolls + NumNodes + 7` for the waits of Up whatever the
cluster does; ten per image and three for the node e2e runner, where each step is counted
and not summed. The other is that somebody can always go on.
`WaitInv` (the closer exists when the select waits for it, a Down has begun when
RealMain waits for it) and `wg = Cardinality(Active)` give `NobodyBlocks`: the select of Up
has an answer, or a check or the closer is at work on one. `CallerInv` extends it to
the dumps (`DumpsNeverBlock`): whoever began a dump is still at the call of it, and the
dump has a step to take. For the keys it is
`HolderIsAtWork`, for the results channel of the node e2e runner `EveryResultIsAwaited`.
`FailuresSurface` is the safety half of `FailureReported`: `UpLeftInv` says that RealMain
leaves Up only with a result, and a result over a failed check is an error.

`SomebodyCanStep` and its like name program points instead of `ENABLED`, which is out of the
prover's reach: for each the guard of the action there is one of the conditions
listed.

| Theorem | Module |
|---|---|
| `TypeCorrect`, `BootTypeCorrect`, `LaunchTypeCorrect` (the type invariants) | all proof modules |
| `UpOkCorrect`, `PanicCorrect`, `OrphanCorrect`, `JoinCorrect`, `CleanRunCorrect`, `SurvivorsCorrect`, `NilRunnerCorrect`, `FailuresSurface`, `LifecycleImplemented`, `NobodyBlocks`, `ProgressCorrect`; for the dumps `LogDumpImplementsDeployer`, `RivalCorrect`, `LogsCorrect`, `DumpsNeverBlock`, `LogProgressCorrect` | `DeployerProofs` |
| `SharedKeyCorrect`, `UserKeyCorrect`, `TrustedKeyCorrect`, `SharedKeyImplemented`, `OneKeyCorrect`, `HolderCorrect`, `ProgressCorrect` | `InstanceCheckProofs` |
| `EmptyProfileCorrect`, `PartialRoleCorrect`, `MakersCorrect` of `IAM`; `ConnectedCorrect`, `AccountsCorrect`, `LaunchImplementsIAM`, `LaunchKeepsIAM` | `LaunchProofs` |
| `SilentUpCorrect`, `ProgressCorrect` | `ReadinessProofs` |
| `StableCorrect`, `DeployedCorrect`, `RefinementCorrect`, `SilentUpOfMachines`, `ProgressOfMachines` | `BootstrapProofs` |
| `ScriptCorrect`, `ArchCorrect`, `FilledCorrect` | `ValidateProofs` |
| `IsolationCorrect`, `StatusCorrect`, `CleanUpCorrect`, `AwaitedCorrect`, `ProgressCorrect` | `NodeE2EProofs` |
| `ProfileCorrect`, `UserDataCorrect` | `PrepareImagesProofs` |

Only model-checked: liveness under fairness (`Termination`, `FailureReported`,
`ChecksReturn`, `UpEnds`, `RunEnds`), which is beyond the prover; the halves of it
that are not are proved, as said above. Every invariant and every action property that a
passing run checks is stated by a theorem, and so are the three refinements
(`ImplementsLifecycle`, `ImplementsSharedKey`, `ReadinessAllows`).

## 5. What the models take for granted

* An AWS call that reports a failure had no effect. (A launch whose answer is
  lost, a termination that happened after all, are not modelled.)
* The signal handler is registered before the first AWS call: `RealMain` starts
  the goroutine that calls `signal.Notify` long before Up launches anything.
* Private addresses are distinct; generated keys are fresh.
* Machines do not die by themselves.
* A slice read while it is appended to is seen at its old or its new length; the
  torn read Go allows has no defined outcome.
* One process per `HOME`: two would share the key files without a common mutex
  (the hazard at `sshkey.go:90`).

## 6. Not modelled

Command lines and option parsing of ssh, `make`, the version strings and the
look-up of the bucket, the scripts in `hack/` and the machine images, `configure.sh`
beyond its success or failure, `IsUp` (kubetest2 does not call it), random strings,
and vendored code other than the two callers named above. They compute or copy data
and take no part in the ordering the properties are about. `PROJECT.json` says it
component by component. Further limits:

* User data and kubeadm files of the user's own are taken to hold no placeholders; a
  `configure.sh` in the working directory, which overrides the embedded one, is not
  told apart from it.
* The node labels of `--dra-nvidia` reach `al2023` workers only; labels are left out.
* Of the log dump, a log directory that is there but cannot be examined, and the pod logs
  and CNI archives that are copied, are left out.
* Three hazards have no property: two processes with one `HOME`, a running instance
  without a public address, and a foreign kubeconfig with a matching node count.
  `PROJECT.json` says why at each.

## 7. What is left

* `Deployer`'s check, one step with two outcomes, is not tied by a proof to the verdict of
  `SharedKey`.
* `Build` and `Stage` as steps of their own, with the version they agree on, so that
  the upload of one's own tarball is ordered with the launch in `Bootstrap`.
