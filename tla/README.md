# TLA+ specification of pitr-tools

pitr-tools is a set of Go programs that run as Kubernetes Jobs (and one init
container, and one operator's tool) around a point-in-time-recovery drill: a
database is restored into a throw-away environment, the environment is verified,
and what was created is torn down again. This directory holds TLA+ modules that
model those programs, the TLC configurations that check them on small instances,
and proofs, checked by TLAPS, of the safety of each of those programs for every
value of its constants.

Line numbers refer to the files under `src/`. `PROJECT.json` maps every
definition to the lines it models.

## The system

A drill is identified by a correlation id. A Crossplane Composition (a chart that
is not in this repository) creates a `PITRSession`, the RDS `Instance` managed
resources, a `restore-<hash>` namespace and the Jobs; every object carries the id
as a label. The programs share no memory: they meet in the API server, and
the one object they both write is the ConfigMap `drill-result-<id>`.

| Component | State it keeps | Operations | Talks to |
|---|---|---|---|
| `cmd/verify` | items to look at and missing ones; its context; the copy of the ConfigMap it got | authenticate (api mode), look at each path or check, `WriteResult`, exit code | akeyless; API server; writes `drill-result` |
| `internal/result` | none | Create, else Get and Update of `drill-result`, replacing its data | API server |
| `cmd/verify/presence.go` | the list of results so far | five checks in a fixed order, `runChecks` | API server (reads) |
| `cmd/cleanup` | failureHandling as read, the verdict, deadlines, errors so far, its outcome, its copy of the ConfigMap | read spec, poll for the verdict, retain, tear down, record the outcome, exit code | API server: reads `PITRSession`, reads and writes `drill-result`, deletes everything of the drill |
| `cmd/wait-for-deps` | shared context, one goroutine per service and per watched selector, two error channels | probe, watch, cancel, join, return | services over HTTP, Pod watches |
| `cmd/drill-cleanup` | what AWS and Kubernetes listed | list orphans, delete them, feasibility | AWS RDS, API server |
| `cmd/canary-create`, `cmd/canary-delete` | none | one CreateSecret, one DeleteItem | akeyless |
| `cmd/notify`, `internal/slack` | none | one POST | Slack webhook |
| `cmd/diagnostic-collect` | none | reads the session, the managed resources, events and logs; prints the bundle; exits 0 | API server (reads) |
| `internal/akeyless` | a token | auth, create, delete, describe | akeyless |
| `internal/correlation`, `internal/log` | none | string functions; logging | - |

What makes each correct:

- **verify**: a verdict on record is the verdict of a whole run; the Job is done
  only when the report is stored (presence mode); a stored verdict does not change
  under the feet of whoever acts on it.
- **cleanup**: nothing the operator wants kept is deleted, whatever cannot be read;
  a success is kept for the retention; "Completed" means nothing is left; recording
  the outcome never damages the verdict; the Job comes to an end.
- **presence checks**: every check reports; with a success, all that the checks were shown
  is up when the verdict is given; the first failure reported is the one that explains the
  others.
- **wait-for-deps**: exit 0 only when all services answered and no watcher found
  anything; an error only when there is a cause; no goroutine outlives `waitAll`;
  it returns at once when it can and at the deadline when it must.
- **drill-cleanup**: only orphans are deleted, although the two sources are read at
  different times and drills come and go; every orphan is; nothing but the
  drills selected and nothing in a dry run, if those flags are where they are read. A
  restore time called feasible is so for all databases at once, and still is later.
- **canary-create, canary-delete, notify**: a complete Job vouches for its effect,
  although none of them remembers what the Pod before it did.
- **diagnostic-collect**: once it has its clients no failed read keeps it from its end; and
  where the operator keeps a failed drill a bundle that was printed stays.

What is hard to test in this code:

- verify and cleanup run side by side, are restarted by their Jobs at any step, and
  write the same ConfigMap with two different read-modify-write schemes;
- a call may fail before or after the server acted on it, and neither Job can tell;
- cleanup decides on a `preserve` it read long before, and its context may expire in
  the retention sleep, under the teardown, or under the report;
- cleanup's teardown deletes Jobs, among which is the one it runs in;
- `waitAll` shares one context between those it waits for and those it must stop,
  and drains channels that late senders might still use;
- the presence checks and drill-cleanup draw conclusions from several reads of a
  world that changes between them;
- a request of a one-call Job may take effect without an answer, or after the Pod that
  sent it is gone;
- nothing orders diagnostic-collect and the teardown, which deletes its Job.

`PROJECT.json` lists each hazard at its line with the properties that cover it.

## Modules

```
Cluster               API server, objects, drill-result ConfigMap (external)
 |- Verify            cmd/verify + internal/result
 |- Cleanup           cmd/cleanup
     Drill            both Jobs on one Cluster; the properties
      |               Policy == INSTANCE TeardownPolicy (abstract)
      |- DrillInvariants          the inductive invariant
      |   |- MCDrill              constants for TLC
      |   |- DrillTypeProofs
      |       DrillSafetyProofs
      |        DrillVerdictProofs
      |         DrillRefinementProofs   (with Diagnosis)
      |- Diagnosis    cmd/diagnostic-collect next to a whole drill
          MCDiagnosis
WaitForDeps           cmd/wait-for-deps; Gate == INSTANCE DependencyGate (abstract)
 |- MCWaitForDeps
 |- WaitForDepsProofs
Presence              cmd/verify/presence.go
 |- MCPresence
 |- PresenceProofs    Loop == INSTANCE Verify (its loop, in presence mode)
OrphanSweep           cmd/drill-cleanup, list and clean
 |- DrillCleanup      all of it, with feasibility
     |- MCDrillCleanup
     |- SweepProofs
OneCallJobs           canary-create, canary-delete, notify, internal/akeyless, internal/slack
 |- OneCallProofs
```

### Drill = Cluster + Verify + Cleanup

The API server is modelled from how the Jobs use it. `obj` says of each object
whether it is live, being deleted or gone; `cm` is the ConfigMap with its
resourceVersion (0: it does not exist) and the two keys that matter, `phase`
(verify's) and `cleanup_status` (cleanup's). `Request` is one call: it is answered,
or lost before the server acts, or the answer is lost; the last two cost one of
`MaxFaults`. `Create` is refused when the ConfigMap exists and `Update` when the
caller's copy is old, which is all the concurrency control the two Jobs have.
`published` and `consent` are history variables: what verdicts were ever stored,
whether `preserve` was ever false.

Each Job is a program counter (`vpc`, `cpc`) and the locals of its `main`. One
action is one call to the server with everything the code does up to the next one;
`VerifyPodDies` and `CleanupPodDies` may strike between any two actions, and
`CleanupPodStarts` and `VerifyPodStarts` are the Job controller's retries.

| Code | Actions |
|---|---|
| `pollUntilAuthSucceeds` (verify) | `Authenticate` |
| the loop over paths / `runChecks` | `LookAt(i)` |
| `writeWithClient` (result) | `VerifyCreates`, `VerifyGets`, `VerifyUpdates` |
| exit codes of both modes | `AfterWrite`, `VerifyExits` |
| `readFailureHandling` and its default | `ReadFailureHandling` |
| `pollResultPhase` | `PollGet`, `PollIntervalElapses`, `PollGivesUp` |
| the decision, the retention `select` | `Decide`, `RetentionEnds` |
| `executeTeardown` | `ListMRs`, `DeleteMR`, `DeleteNamespace`, `ListPeerJobs`, `DeletePeerJob` |
| `writeCleanupOutcome` | `ReportGet`, `ReportCreate`, `ReportUpdate` |
| exit code of cleanup | `CleanupExits` |

Time is counted in poll intervals from the creation of cleanup's context, up to its
expiry (`CtxEnd`, max-wait + 5 min); after that the clock stands still because no
call has an effect any more and every wait is over. With `Prompt = FALSE` time may
pass at every step (a slow server); with `Prompt = TRUE` only the waits take time.

`TeardownPolicy` is what cleanup promises without calls, clocks or Pods: consult the
operator, learn a verdict, tear down only when a success has ripened or a failure
may go, record "Completed" only when all is torn down and "Skipped" only for a kept
failure. `Drill` implements it with `verdict` = the verdict the current Pod acts on
and `torn` = the objects that are not live.

### WaitForDeps

`svc[s]` is the goroutine of `waitOne`, `watcher[w]` that of `watchPod` and the
closure around it, `mpc` is `waitAll`, `ctx` the shared context with its first cause
of death, `podErrs` the buffered channel. A watcher that detects an unrecoverable
Pod cancels (`Abort`) and sends (`SendError`) in two steps, as the code does, with
everyone else free to run in between. `pod`, `alarm`, `everBroken` and `refused` are the
outside world and its history. `PodStates` tells Pod statuses apart as
`unrecoverableReason` does. A request under way may still be answered with 200 after
the context is done: the answer may have been on its way.

`DependencyGate` is the promise: the gate opens only when every service has answered
and nothing was reported, it is refused only when there is trouble, and either is
final.

### Presence

One action per check (`RunCheck`), while managed resources, Deployments, ConfigMap
clones and the canary Job move between any two of them. Every check may fail to get
its list (`errors`); what it then reports is the code's answer, which for
mr-conditions-actionable is "passed". An MR is "degraded" when it is Ready and the last
operation on it has failed for good all the same: the two conditions are independent, and each
check looks at its own. A report has two history fields, whether the List was `answered`
and what it `listed`. `steady` says of a behaviour that what has come up stays up.

`SucceededIsGrounded` is all that a success says, and it is less than that the five
readings hold together. Of the MRs and Deployments it speaks of those that the check listed:
one that appears after its check is in no list, whatever becomes of it. Nor does it say
that no operation has failed: an MR can come to grief after the first check, and if it is
Ready or was not listed the success stands. The cluster's moves are Crossplane's, Helm's and the other Jobs', so they are
external.

### Diagnosis

`cmd/diagnostic-collect` composed with `Drill`, whose steps stay as they are but for one
thing: its Job, one of the peers, is gone only when its Pod is. The Pod reads the session
(from which it learns the restore namespace), the managed resources, then events and logs
(`ReadSession`, `ReadMRs`, `ReadLogsAndEmit`); each read may fail and the collection goes on.
The Pod exits with 0 in every case. Without one of its clients (l.147-161) that is at once,
`dpc = "gaveup"`; if the bundle cannot be marshalled (l.165-169) it is at the end, "unprinted". In
both cases the Job is complete, so no other Pod comes, and there is no bundle. The flags are taken
to be those the chart gives. The bundle is printed, so it lives in the Pod's log, and goes with the Job
(`CollectorGoes`). `dbundle` keeps of it which managed resources it shows and whether it
shows the namespace.

### OrphanSweep and DrillCleanup

`OrphanSweep` has the two reads of `findOrphans` in the order of the code, then one
`Sweep(i)` per candidate; `CloudMoves` creates and deletes managed resources and instances
between any two steps, with the two rules Crossplane keeps: an instance never precedes its
managed resource, and is deleted only after it. `asked` is the command line: the mode, `--dry-run`, the drills
that `--correlation-id` selects, which is a substring test (l.254), so they may be none, one
or several, and which of the flags come after the mode word. `flag.Parse` (l.79) stops at that
word, so the flags after it are not read: `Read`, and with it `dryRun` and `matching`, which is what
the program goes by. `SweptWasOrphan` is about the program, and its clauses on the filter and
on dry runs have a Read flag as their condition; `late_flags` shows what becomes of the forms the
source documents, which have the flags last.

`DrillCleanup` adds `--mode=feasibility` and is the whole tool: one `DescribeSource(db)` per
database in any order, while `SourceMoves` ships logs or takes a source's backups away.
`listed` is what `--source-dbs` lists, the empty set included. The documented form of this mode
has its flags first; without `--source-dbs` or `--restore-time` before the mode word it ends in
an error at once (`flagsOK`).

### OneCallJobs

`job[j]` is what the Job controller says, `pod[j]` the call that j's Pod is about to make or
waits for, `requests` what is on its way to a server. `Serve` is a server dealing with one
request: it acts and answers, or a fault strikes and it acts or not and answers with an
error or not at all. As a request outlives its Pod, an earlier Pod's creation may
take effect when canary-delete has already been answered. `CreateSecret`, `DeleteItem` and
`Post` say which answers each program takes for success, which is all they differ in.
`Reap` is the teardown of cmd/cleanup, at any time.

## Abstractions

- A name, a reason, a count or a message is left out; an id is a model value.
- Building the clients (in-cluster configuration, AWS configuration) is left out, and so is
  validating the flags but for feasibility and the one-call Jobs: such a Pod is one that
  dies at its first step, or, of diagnostic-collect, one that gives up with exit code 0.
- What was deleted does not come back: the Composition's re-creation of Jobs that the
  teardown deleted is not modelled.
- `--safety-margin` is not negative.
- `phase` takes the values verify writes. The branch of cleanup for any other value
  decides as for "Failed" and is never taken.
- `retentionAfterSuccess` that is absent or does not parse is `DefaultRetention`,
  which `ReadFailureHandling` may return for every session.
- A deletion of what is gone (NotFound) is success, as in the code. A namespace or a
  managed resource takes time to go; a Job deleted in the foreground waits for its Pod.
- `LookAt` finds an item missing at will: the environment may not have the data, and a
  transient error counts as missing. An item whose check lists objects can be found only
  while one of them is there: a check judges what its list returns, but not nothing
  (presence l.193).
- The five Gets of configmaps-cloned are one reading. The presence checks' diagnostics
  are left out.
- DescribeDBInstances returns any page of the right size; the real size is 100.

## Runs

| Run | Instance | What it shows |
|---|---|---|
| `drill_retries` (`MCDrill_presence.cfg`) | presence mode, 2 managed resources (symmetric), 1 peer, 2 Pods per Job, 1 fault anywhere, retention 0 or 1, max-wait 2 | the inductive invariant of the proofs; a drill that was never released and never a success loses nothing; "Completed" means clean, also across two cleanup Pods; a complete verify Job has its verdict on record; cleanup never changes the verdict; until the fault strikes, no verify Pod is spawned after a verdict and the verdict is final; Drill implements TeardownPolicy |
| `drill_slow` (`MCDrill_slow.cfg`) | api mode, JOB_NAME unset, every step may take time, 1 fault | the retention is honoured although the context may expire anywhere; a cleanup Pod always ends, also when it deletes the Job it runs in |
| `drill_live` (`MCDiagnosis_live.cfg`) | presence mode, no faults in the calls of verify and cleanup, 2 Pods per Job, diagnostic-collect as the peer, any of whose reads may fail | the cleanup Job completes, so it does not fall to its own reaping; a drill to be torn down is; the bundle of a drill that is kept is whole and stays; a collection that has its clients ends |
| `wait_gate` (`MCWaitForDeps_gate.cfg`) | 2 services, 2 watchers | the safety and liveness of `waitAll`, and that it implements DependencyGate |
| `presence_report` (`MCPresence_report.cfg`) | 2 managed resources, 1 Deployment, 1 ConfigMap, 1 API error | every run reports on all five checks; with a success in a steady cluster all that was listed is up at the end; a terminal failure comes first |
| `sweep` (`MCDrillCleanup_sweep.cfg`) | 2 drills with 2 and 1 instances and a tenant's database, 2 source databases with times 0 to 3, 2 failing calls, one page | every placing of the flags; only orphans are deleted, and with the flags before the mode word only those of the drills selected and none in a dry run; a clean without failures deletes them all; exit 0 of list means there are none; a feasible restore time stays feasible; a refusal has its reason |
| `one_call_jobs` (`OneCallJobs_retries.cfg`) | the three Jobs, 2 Pods each, 2 faults | a complete Job vouches for the canary, its removal, the message; a Job fails only after its faults; every Job ends |

The bounds. Two Pods of each Job are the least with a retry, and a third meets what the
second can: a Pod keeps nothing of the one before, so its world is `obj`, `cm` and
`preserve`, and all their combinations arise with two. One fault at any step reaches every single-failure path; what two faults might combine to is covered,
for the safety properties, by the proofs, which hold for any number of faults. Two managed resources are the least with "one
deletion of several fails". Max-wait 2, grace 1 and retentions 0 and 1 let the retention
fit and let the poll loop time out; `long_retention` has one that does not fit.
Two services and two watchers are the least for "one is ready and another is not" and
"one complains while another is being set up". Two drills with three instances are the least
for one live and one orphaned drill, one of them with several instances. Restore time 1,
margin 1 and latest times 0 to 3 lie on both sides of the ceiling, on it, and include "none".
In `one_call_jobs` two faults are as many as a Job has Pods, the least with which one fails.

Symmetry is used over managed resources in `drill_retries`, which has no liveness
property, and in `cause_lost`. Deadlock is not checked: every one of these programs ends.
With `DryRun = TRUE` no run is made, as little happens then; that a dry run deletes nothing is proved
(`DryRunIsDry`).

### Fairness

- `Drill`: weak fairness of `VerifyStep`, `CleanupStep` and `TimePasses`: Pods that run
  make progress, failed Pods are replaced while the Job lives (it is the Job controller's
  purpose), and the clock runs. Nothing is assumed of the operator, of finalizers or of
  when a fault strikes. A call always comes to an end, since each is made under a context
  with a deadline.
- `WaitForDeps`: weak fairness of `waitAll` and of each goroutine: the Go scheduler runs
  what can run. A probe ends because `http.Client` has a timeout. The deadline, the
  services, the Pods and the closing of watch streams are not relied on.
- `Diagnosis`: as `Drill`, each step with the collector unchanged, and weak fairness of
  `CollectorStep`: its reads are made under a context with a deadline. Nothing makes the
  collector's Job go before its Pod does.
- `Presence`: weak fairness of `RunCheck`: each check is one bounded call.
- `OneCallJobs`: weak fairness of each Job's Pods (`Pod(j)`: the Job controller replaces those
  that failed, clients have timeouts) and of what is on its way (`Server(j)`, which may
  end in a fault). Nothing is assumed of the chart, the teardown or of when a fault strikes.

## Where the code does not do what it says

Each has a run in which TLC finds the violation.

| Run | Source says | Code does |
|---|---|---|
| `long_retention` | "context canceled during retention sleep - proceeding with teardown immediately" (cleanup l.192) | the teardown uses the same expired context; every call fails, and that Pod tears nothing down (its replacement has a fresh context, and does if the retention fits into it) |
| `outcome_wiped` | observers "read the deterministic outcome" (cleanup l.242-244) | a verify report that comes later replaces the data as a whole and with it the outcome |
| `cause_lost` | "fail fast with structured cause" (wait-for-deps l.28-29) | the cancelled polls' errors are returned and the cause is dropped |
| `late_flags` | `clean --correlation-id 3054b9e0 [--dry-run]` deletes "every RDS instance for a specific drill", or, "in --dry-run mode, prints what would be deleted" (drill-cleanup l.20-23, 315) | `flag.Parse` (l.79) stops at the mode word: the flags keep their defaults, and every drill's orphans are deleted |
| `second_page` | "List ALL RDS instances", "Delete every orphan" (drill-cleanup l.240, 19) | one page of 100 is read |

For each, a theorem says where what the source says does hold, and so how far the
violation reaches:

| Run | Theorem | Holds where |
|---|---|---|
| `long_retention` | `TeardownFits` | no retention is longer than the grace period, only waits take time and nothing fails |
| `outcome_wiped` | `OutcomeFinal` | presence mode, from when both verdict and outcome are on record until a fault strikes; so what wipes an outcome is a verify Pod that reports after cleanup stopped waiting for it, api mode, or a retry after a fault |
| `cause_lost` | `CauseReturned` | every service answered; otherwise the services' errors go first |
| `late_flags` | `OnlyOrphansSwept` | the flags come before the mode word |
| `second_page` | `NoOrphanMissed`, `ZeroIsTrue` | all instances fit on one page |

Smaller differences seen on the way, for which no run is kept:

- cleanup: `preserve=true` "means no matter what, leave infra up" (l.134-136), but a
  success is torn down after the retention. An outcome whose write loses a race with verify
  is logged and not written again. A failure is torn down "after diagnostic-collect" (l.7),
  but nothing orders the two. "Composition-level housekeeping [...] stays around until the
  operator deletes the PITRSession" (l.20-23), but step 3 of the teardown deletes the
  drill's Jobs, and with diagnostic-collect's Job the only copy of its bundle.
- The repository's README (l.15) says that diagnostic-collect gates itself on `phase=Failed`
  and uploads to S3; it does neither. "Errors are recorded as files in the bundle"
  (diagnostic-collect l.182-183, and l.285): a List that fails leaves an empty list.
- verify: "even a fatal-shaped error returns Passed=false" (presence l.68-70), but
  mr-conditions-actionable passes when its List fails (l.555). "All 4" managed resources
  (l.161-162) and "all ... Ready=True" (l.170) are those that exist at that moment: with an MR that
  appears later, or whose operation fails for good after the first check, the verdict is
  Succeeded all the same. A managed resource with Synced=False
  (ReconcileError) is not found actionable (l.520). "Errors during the check process itself
  (e.g., k8s API unreachable) SHOULD still fail the Job" (main l.394-396): they become failed
  checks, so a verdict, and the Job is complete.
- wait-for-deps: a Pod in CreateContainerError is unrecoverable (l.25-28), but that is tested
  for init containers only. `FailuresSeen` delimits it: where no container is in
  CreateContainerError and no init container in CrashLoopBackOff, none is missed. A watch that the
  server closes is not re-established (l.312), so the guard ends silently.
- drill-cleanup: list exits 0 when Kubernetes does not answer (l.127-128), hence `checked` in
  `ZeroMeansNone`. A clean whose deletions fail exits 0 (l.349). Feasibility compares with
  the latest restorable time only, not with the earliest, and a `--source-dbs` of
  commas alone is feasible. Exit code 2, "at least one source's
  LatestRestorableTime < restoreTime + safety margin" (l.160), also follows a failed describe. A `--safety-margin` after the mode word has no effect.
- diagnostic-collect: "best-effort; don't fail the drill" (l.150) makes its Job complete
  without a bundle when a client cannot be built, and likewise when the bundle cannot be
  marshalled (l.168).
- canary-create: after a lost answer the next Pod fails on a secret that exists (so
  `FailureIsEarned` excuses it), and the failed Job leaves the canary behind. If the teardown
  deletes canary-delete's Job before it is done, so does that.

## Proofs

The theorems are checked by TLAPS for every value of the constants: any managed resources,
peers, services, watched selectors, instances, tags, databases; any number of Pods and faults;
any max-wait, grace, retention, margin; both modes of verify, dry run or not. They assume what the
modules assume of their constants: that names of different objects differ, and that
bounds and times are natural numbers. Where more is assumed the table says so.

| Module | Theorem | Property |
|---|---|---|
| `DrillTypeProofs` | `TypeCorrect` | `TypeOK` |
| `DrillSafetyProofs` | `Preservation` | `PreservedDrillStays` |
| | `Completeness` | `CompletedIsClean` |
| | `Retention` | `RetentionHonoured` |
| | `DryRunIsDry` | `DryRunTouchesNothing` |
| `DrillVerdictProofs` | `Reported` | `CompleteMeansReported` |
| | `OnlyVerifyJudges` | `VerdictIsVerifys` |
| | `Safety` | `SafetyInv`, from whose parts the others follow |
| | `OneVerdictOneJob` | `NoRespawnAfterVerdict` |
| | `VerdictFinal` | `VerdictIsFinal` |
| | `OutcomeFinal` | where `OutcomeStays` holds |
| | `TeardownFits` | `TeardownAfterRetention`, if `Prompt`, not `DryRun`, no faults and retentions of at most `Grace` |
| | `SelfSpared` | a cleanup Job that knows its name (`JobNameSet`) is never deleted, and loses a Pod to a fault only |
| | `PodsAdvance` | each step of a running Pod brings it nearer its end |
| `DrillRefinementProofs` | `PolicyRefined` | `PolicyImplemented` |
| | `DiagnosisCorrect` | `DiagnosisInv`, in which `TypeOK` and `SafetyInv` of the drill |
| | `DiagnosisRefinesPolicy` | `PolicyImplemented`, of a drill with a collector |
| | `EvidenceSurvives` | `PostMortem` |
| `WaitForDepsProofs` | `WaitTyped` | `TypeOK` |
| | `NilEarned` | `NilMeansReady` |
| | `NoneSkipped` | `NoTargetPassedOver` |
| | `ErrorsCaused` | `ErrorHasCause` |
| | `AllJoined` | `NothingOutlivesReturn` |
| | `GateRefined` | `GateImplemented` |
| | `WaitCorrect` | `WaitInv`, from whose parts the others follow |
| | `CauseReturned` | `CauseReported`, when all services answered |
| | `FailuresSeen` | `EveryFailureSeen`, if `PodStates` has neither "create" nor "initcrash" |
| | `WindingDown` | with the context done, each step of a goroutine brings it nearer its end |
| | `WatchersReleased` | waitAll waits for its watchers only with the context done |
| `PresenceProofs` | `StackCorrect` | `TypeOK` (and `GroundedInv`) |
| | `SuccessGrounded` | `SucceededIsGrounded` |
| | `FirstIsActionable` | `ActionableFirst` |
| | `AllReported` | a run that is over has reported on all five checks |
| | `StackIsVerifysLoop` | `runChecks` is the loop of `Verify`, and the verdict is the same |
| `SweepProofs` | `ToolTyped` | `ToolTypeOK` |
| | `OnlyOrphansSwept` | `SweptWasOrphan` |
| | `NoOrphanMissed` | `OrphansSwept`, if one page holds all instances (`OnePage`) |
| | `ZeroIsTrue` | `ZeroMeansNone`, if one page holds all instances (`OnePage`) |
| | `FeasibilitySound` | `FeasibleStays` |
| | `RefusalSound` | `RefusalIsGrounded` |
| `OneCallProofs` | `OneCallTyped` | `TypeOK` |
| | `CreationVouched` | `CanaryThere` |
| | `RemovalVouched` | `CanaryGone` |
| | `NotificationCounted` | `NotificationDelivered` |
| | `FailuresEarned` | `FailureIsEarned` |
| | `JobsBounded` | a Job takes at most four steps per Pod of its backoffLimit |
| | `OneCallSafety` | `OneCallInv`, from whose parts the others follow |

That `OnePage` is needed is what `second_page` shows.

### A drill

None of the properties is inductive. `SafetyInv` (module `DrillInvariants`, checked by
`drill_retries`) is, over `TypeOK`, and has seven parts:

- `ConsentInv`. That nothing is deleted without consent needs that the Pod which deletes
  has grounds, that its grounds were true when it read them, and that what was true then is
  still on record: `preserve` may since have been set again and the verdict replaced, which
  is why it speaks of the history `consent` and `published` and not of the present.
- `ProgressInv`. That "Completed" is true needs, at each stage of the teardown, that what
  earlier stages covered is not live unless an error is remembered; that stays true because
  no object ever becomes live again (lemma `NothingRevives`).
- `RetentionInv`. The timer of the retention is not before the retention's end, and a
  teardown that began earlier did so because the context is done, and cannot delete.
- `SnapshotInv`. A copy with the current resourceVersion has the current verdict, so that
  cleanup's conditional Update writes back what is there; hence a verdict that is on
  record stays on record, which is what `CompleteMeansReported` needs over retries.
- `ActingInv`. A Pod acts and reports on a verdict only, and "Skipped" is a kept failure:
  what the policy demands of an outcome, at the moment it is stored.
- `LastPodInv`. In presence mode a Pod that stores its verdict goes on to exit 0. Until a
  fault strikes, once a verdict was ever stored no Pod of verify can start: the one that
  stored it is at exit 0, or its Job is complete, or its Job was deleted under it. The last
  case is why killing the Pod in the teardown spawns none, and is needed because cleanup
  does not wait for verify's exit.
- `FitInv`. While only waits take time, the poll loop ends by max-wait, hence a retention of
  at most the grace period ends by the context's expiry, and until a fault strikes each call
  of the teardown that follows is answered.

The proofs go by actor: frame lemmas (`VerifyFrame`, `CleanupFrame`, `OtherFrame`) and
effect lemmas (`VerifyStores`, `CleanupStores`, `CleanupDeletes`) say what each process can
do to the shared state; then each part of the invariant has a lemma for its initial state
and for its step, the latter with one step per action of cleanup.

`PolicyRefined` maps each step to the policy: reading the spec is `Consult`, a verdict or the
end of the poll is `Learn`, an accepted deletion is `Tear`, storing an outcome is `Record`,
the death of a Pod forgets the verdict, and the passing of time may make it due. Each of these
has a lemma in terms of the policy's four variables; the step of cleanup then goes
action by action, and everything else leaves those variables alone. The invariant is needed
where the policy has a guard that the code does not test again: that a deletion in mid-teardown
is still on grounds (`ConsentInv`, `RetentionInv`), that an outcome is true (`ProgressInv`,
`ActingInv`), and that a write back carries the verdict on record (`SnapshotInv`).

### A drill with a collector

The collector shares nothing with the drill but the faults (`CollectorFrame`), so the step
lemmas of `DrillTypeProofs` and `DrillSafetyProofs` carry over, and with them every
safety property of a drill. Nor does it touch anything the policy speaks of, so a drill with
a collector implements the policy too. While a drill is kept nothing of it is touched (`NothingGone`, from
`PreservedDrillStays`), so what the collector lists is everything (`EvidenceInv`), and its
own Job is not deleted; and a drill that is kept now was kept before (`KeptBefore`).

### wait-for-deps

`WaitInv` is `TypeOK` and three parts. `JoinInv`: waitAll comes past a join only when what
it joins has ended. `ResultInv`: what it is about to return, in terms of what it joined; the
buffer of errors cannot change any more once the watchers have ended. `CauseInv` traces every
error to trouble in the world: a context that is done while main is still joining the
services was cancelled by a watcher or the deadline, never by main, which is the argument for
`ErrorHasCause`. `GateRefined` follows from the three. `SeenInv` says that a watcher that
watches has been told of an unrecoverable Pod: its watch starts with the present state of each
Pod, and each change is an event.

### Presence checks

`GroundedInv`: the reports are those of the checks in their order (`InOrder`), and what a
passed check saw still stands as long as nothing that came up goes down (`Standing`): every MR
and Deployment it listed is still there (`StillThere`), and those that two checks want ready
are (`Covered` says what the first check listed is among what the second lists). At
the end this holds of all reports at once, which makes five looks at five moments a
statement about one; about what was listed, and no more.

`StackIsVerifysLoop` ties Presence to Verify. With the checks as Verify's items, those not yet
reported as its `vtodo` and those that did not pass as its `vmissing`, every `RunCheck` is one
`LookAt`, made with the managed resources that are there by then, and `Phase` is Verify's
`Verdict`. So what Drill assumes of a look, that it may find an item missing at will and
finds it only over an object it needs, is what the five checks do.

### drill-cleanup

`ToolInv`: an instance never precedes its managed resource (`OriginInv`), so each candidate had
one; therefore one that Kubernetes does not list any more is gone for good (`CandidateInv`), which is what
makes the order of the two reads matter. The command line is never touched
(`AskedKept`), so what was read of it at the start stays so. `VerdictInv` carries a database's
rating along while its latest restorable time moves. The two theorems under `OnePage` use in addition that every
orphan from before the run is a candidate that is neither passed over nor skipped, where
the cardinality of a page enters (`FiniteSetTheorems`).

### One-call Jobs

The argument is one of accounting: `FailureInv` says that the faults spent are at least the Pods of a
Job that failed or will for want of an answer, and `PostInv` that the messages posted and those
on their way are at most the faults spent plus one, the one being due to the Pod that may
still report it. `OrderInv` says that requests belong to Jobs that exist and that
canary-delete came after canary-create was over; `LateInv` that a request whose Pod does not
wait for it any more cost a fault, or its Job was reaped. With it `CanaryGone` says how a canary
can be there after canary-delete has succeeded: only by such a late creation.

### Why things end

Liveness needs fairness, which the prover does not handle. What the code contributes to
it is safety, and that is proved:

- `PodsAdvance`: no Pod of verify or cleanup goes round in circles. Each of its steps comes
  nearer the end by rank, or stays in its loop with less left to do; the poll loop comes
  back to its read, and the retention ends, only after time has passed, of which there
  is as much as the context has. `NeverHangs` adds that Pods are scheduled and clocks run.
- `SelfSpared`: the cleanup Job excludes itself from what it reaps, so nothing but a fault
  stops a Pod that reports. `CleanupCompletes` adds that there are no faults.
- `WindingDown` and `WatchersReleased`: once `waitAll`'s context is done each service is at most
  three steps from its end and each watcher five, and `waitAll` waits for its watchers only
  then. `ReadyReturns`, `FailFast` and `DeadlineReturns` add that goroutines are scheduled.
- `AllReported`: five checks and each reports once. `EveryCheckReported` adds that they run.
- `JobsBounded`: each step of a one-call Job uses up one of four per Pod. `JobsEnd` adds that
  the Pods are started and the requests dealt with.

### Model-checked only

Liveness as such: `NeverHangs`, `CleanupCompletes`, `TeardownHappens`, `CollectionCompletes`,
`ReadyReturns`, `FailFast`, `DeadlineReturns`, `EveryCheckReported`, `JobsEnd`. It depends on
fairness and ENABLED. Every invariant and every action property of a passing run is proved.

## Not modelled

- `internal/correlation`: string functions without state; an id is a model value everywhere.
- `internal/log` and everything that is printed, the text of messages and bundles included.
- The build files.

Four hazards have no property. An MR that the Composition creates after cleanup's List
escapes the teardown (cleanup l.330): whether one can come so late is up to the chart, which
is not in this repository. A watch that the server closes ends the guard (wait-for-deps
l.312): the model has it, and no promise of the code is broken by it. A deletion that fails in
`clean` is only logged (drill-cleanup l.349): `OrphansSwept` speaks of runs without failed calls,
and nothing is promised of the others. What an empty `--source-dbs` should answer (l.186) is not said
anywhere either; the model answers as the code does.

## Plan

1. Done: `Cluster`, `Verify`, `Cleanup`, `Drill`, `TeardownPolicy`; `WaitForDeps` with
   `DependencyGate`; `Presence`; `OrphanSweep` and `DrillCleanup`; `OneCallJobs`; `Diagnosis`; their
   runs, and the proofs of all their safety properties.
2. Done: where the five violated claims do hold; the safety that liveness rests on; Presence's
   checks as the items of Verify.
3. Compose further: the moves of Presence's cluster tied to `Cluster`'s objects, which adds the
   teardown to what may go on between two checks; `OneCallJobs`' canary as the one that
   Presence's last check looks at.
4. Model, if the code comes to handle them: a watch that is established again, managed
   resources created after the teardown's List, more pages of DescribeDBInstances.
5. Prove: that the collector advances as `PodsAdvance` says of the other two; that a tool
   run of drill-cleanup is bounded by what it listed.
