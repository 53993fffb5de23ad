# TorqPro-AI: TLA+ models, model checks and proofs

TorqPro-AI is a FastAPI server for bolted-joint engineering (`src/backend`), a
React client (`src/frontend`) and a handful of operator tools (`src/tools`).
Most of its lines are formulas and tables. What these modules are about is,
first, the rest: the parts that keep durable state and in which several
requests, processes, failures and restarts meet; and second, the decisions taken
over those tables, where several engines must agree on data that may be missing
or contradictory. The first part of this file is the inventory, the second the
plan, the others describe what is modelled, checked and proved.

Run everything in this directory: `tlc -config X.cfg M` checks a run,
`tlapm M_proofs.tla` a proof module. `PROJECT.json` names the runs, the
correspondence between definitions and source lines, a mutation that refutes
each property, the findings, the hazards and the theorems.

## 1. Inventory

### How the server executes

The endpoints are plain `def` functions, so FastAPI runs each request in a
thread of its pool: requests interleave at every statement. Durable state is
kept in three ways, and each has hazards of its own:

- **JSON event files** (governance, washer decisions, washer evidence, washer
  closure, question-bank content): the whole file is read, changed and replaced
  with `os.replace` under an advisory `flock`. A reader takes no lock, and sees
  the file before or after a replacement, never in between.
- **SQLite** through `conn()`, one connection per `with` block; Python opens a
  transaction at the first statement that writes, so that no `SELECT` before it
  belongs to one, on the same connection or on an earlier one.
- **process memory**: module-global `_CACHE` lists in front of the washer
  files, and a deque of failed logins.

### Components

| Component | State | Operations | What is hard |
|---|---|---|---|
| Governance event store and command engine (`governance/store.py`, `service.py`) | one append-only file of events | nine commands (submit, approve, reject, activate, supersede, archive, resolve, reject, waive), all through `_execute_transition` | three unlocked reads, then a locked append; retries under an idempotency key; 503s; death of the process |
| Governance API (`governance/api.py`, `ownership.py`) | none | routes, the ownership guard, read-only projections | which writer may move which aggregate |
| Washer resolution decisions (`library/washer_resolution_service.py`, `_decisions.py`, `_decisions_store.py`) | a file of decisions and `_CACHE` | decide; queue, history and report views | a cache filled without a lock; a status validated before the lock |
| Washer-governance synchronization (`governance/adapters/*`, `tools/run_washer_governance_reconciliation.py`) | none of its own; writes the governance file | inline projection after a decision; a reconciliation pass in four modes | best effort, two processes, no memory of what is due, other clients of the same file |
| Washer source ledger (`library/washer_resolution.py`) | a read-only file | lookups | none at run time |
| Washer evidence and closure (`washer_resolution_evidence*`, `_closure*`) | two more files and caches | create evidence, evaluate readiness, close | a close reads three caches at four moments |
| Data packages, versions, release certificates (`app.py`) | SQLite tables | create and approve packages, activate, roll back, certify | version counting, approval not re-checked, a certificate over several reads |
| Calculations, projects, revisions (`app.py`) | SQLite tables | create, delete, submit, approve, reject, release | missing status guards, locks that outlive a rejection, ids that come back |
| Joints and joint revisions (`joints/service.py`) | SQLite tables | create, archive, revise, submit, approve, reject | status read on one connection and written on another; idempotent creation |
| Joint projections (`governance/adapters/joint_revision.py`, `joint_revision_query.py`) | none | project, search, sort, page, export | a list read first, each row again afterwards |
| Production validation (`production_validation/*`) | SQLite tables | studies, datasets, measurements, corrections, CSV import, approval | the same, over several tables |
| Question bank (`question_bank/*`) | a JSON content file and a SQLite lifecycle table | register, update, transition, delete, restore, archive, import, read | two stores kept in step by compensation |
| Document ingestion (`documents/*`) | a SQLite row per document | validate, convert, close, audit, fetch | a row left in `processing`; many ways to fail |
| AI gateway (`ai_gateway/*`) | an audit table | query, explain, reason on a trace; choice of a client | evidence read piecemeal; a server that replies anything |
| Tool register (`tools/*`) | SQLite tables | create, change, deactivate, capability studies, summary | lists assembled row by row |
| Assembly, friction and material engines (`calculation_engine/*`, `library/compatibility_engine.py`, `strength_*`) | none | assess, compare, match, recommend | engines that must agree; missing data must not look like a pass |
| Joint analysis, VDI 2230, torque recommendation | `audit_log` rows as traces | analyse, recommend | optional inputs in every combination |
| Library data files and their validators (`library/validator.py`, `strength_validator.py`, `population.py`) | read-only JSON files | validate, statistics, audit | nothing at run time waits for them |
| Authentication, users, licensing (`app.py`) | SQLite tables, a deque | login, user administration | single statements |
| Engineering core, standards, SPC | none | formulas and tables | floating-point |
| Frontend | browser state | forms, requests | retries, already in the models as the environment |

Interaction: the decide endpoint calls the washer service and then, best
effort, the synchronization; that and the reconciliation tool run governance
commands; governance's own HTTP clients share the event file; calculations read
the active data versions; release certificates read packages, versions and
golden cases; the governance pages read joint revisions; the AI gateway reads the
question bank and the traces of torque recommendations; every engine reads the
library.

### What makes each component correct

- governance: no event is lost or changed; a retried command takes effect once;
  the status an event claims to leave was real; an answer can be relied on; a
  request ends;
- washer decisions: the same, and the cache may lag but never shows what is not
  durable;
- synchronization: an event mirrors exactly one durable decision, at most once;
  a reported outcome is true; a decision that could not be projected does not
  disappear from sight;
- closure: at most one closure per resolution, resting on a terminal status, a
  decision and verified evidence that really were on record;
- data versions: one active version per dataset, approved, and each calculation
  traceable to the versions it was made with;
- revisions and studies: reviewed by another person, one outcome per review, an
  approved state that is never edited;
- question bank: a registered content version is never changed or lost, and the
  review trail says what the rows say;
- documents: what was answered and audited is what the row says, once;
- AI gateway: an answer rests on evidence that was validated, or on a torque that
  was recommended, and leaves with an audit row that says so;
- tools: what a list or summary shows was so, and nothing leaves the register;
- engines: more input never hides a finding, no score hides one, two engines give
  one answer, and nothing is claimed that the records do not support;
- validators: a library they find clean is one the engines can rely on.

`PROJECT.json` lists the hazards at their lines, each with the properties that
would fail if it went wrong, or with a note why none does: most of those without
are steps that do go wrong in the code and in the models alike, and section 5
describes what comes of them.

## 2. Plan

1. *done* `GovernanceLifecycle`, `GovernanceLedger`, `GovernanceService`,
   `MCGovernance`, `GovernanceService_proofs`: the store every other workflow
   is projected onto.
2. *done* `WasherLifecycle`, `WasherLedger`, `WasherDecisions`,
   `MCWasherDecisions`, `WasherDecisions_proofs`.
3. *done* `WasherGovernanceSync` on top of the two abstract ledgers,
   `MCWasherGovernanceSync`, `WasherGovernanceSync_proofs`.
4. *done* `WasherEvidence`, `WasherClosureLedger`, `WasherClosure`,
   `MCWasherClosure`, `WasherClosure_proofs`: evidence, readiness and closing on
   top of `WasherLedger`.
5. *done* `Requests`, `DataReleases`, `CalculationRecords`: packages, versions,
   activation, roll-back, certificates, calculations with their traces, reviews
   and releases, with SQLite transactions as steps.
6. *done* `JointRevisions`, `JointProjections`, `ValidationStudies`: the
   check-then-write life cycles.
7. *done* `QuestionBank`, which implements the abstract `QuestionArchive`.
8. *done* `Documents`, `ToolRegister`; `ModelProviders`, `AiGateway` on the
   question bank, `Reasoning` on `JointAnalysis`.
9. *done* `Assemblies`, `Materials`, `LibraryChecks`: the engines and the
   validators, as operators with a request step around them.
10. *done* `QuestionBank_proofs`, with the refinement of `QuestionArchive`, the
    answers of the gateway and the recommendations; `Records_proofs` for the joints
    and their projections, `Documents`, `ValidationStudies`, `DataReleases` and
    `CalculationRecords`, and `ToolRegister`; `Library_proofs` for the engines and
    the validators.
11. *open* accounts and sessions, the library registry and its caches.

`MCRecords` composes the modules of 5 to 9 for TLC.

## 3. Modules and the code

### Governance: `GovernanceLifecycle`, `GovernanceLedger`, `GovernanceService`

`GovernanceLifecycle` holds what is pure: the three lifecycle groups with their
transition tables, the effective status as the newest event of an aggregate
and group, the lookups, and `Normalized`, the comparison that separates a
replay from a conflict. A command is a record of the fields these functions
look at; `body` stands for reason, actor and metadata, `complete` for "all
required fields are there", `via` for the door it came through.

`GovernanceService` has one program counter per thread and one action per
file access, in the order of `_execute_transition`: `Accept` (route and
ownership guard), `FindKey`, `FindDecision`, `Validate` (status, table,
fields), `AppendLock`, `AppendRead`, `AppendWrite`, `Deliver`. `StoreFails` is
an `OSError` at any of the file accesses (503, lock released, nothing written:
the temporary file never replaces the real one). `Crash` is the death of the
server: threads and lock vanish, the file stays, and clients may send anything
again. The nine commands differ only in group and target status, hence in
data, so they are one set of `Commands`. `arrived` and `born` are history
variables: how long the log was when a request arrived.

`GovernanceLedger` is the abstract promise: one atomic step per decision, with
a fresh key, a fresh decision id and a move that is legal *now*.

### Washer decisions: `WasherLifecycle`, `WasherLedger`, `WasherDecisions`

`WasherDecisions` has a second program counter per thread, `load`, for
`_load()`: `LoadCheck` (is `_CACHE` set), `LoadRead` (parse the file),
`LoadFill` (assign `_CACHE`), and the return, which hands out whatever `_CACHE`
is *then*. If another thread's `reload()` came in between it is `None`, the
caller iterates `None` and the route answers 500: `LoadedNone`. `Decide` and
`Look` start a request; `ByKey` and `Status` are the two halves of
`decide_resolution` before the lock; `RecordLock`, `RecordRead`, `RecordWrite`
and `Reload` are `record_decision`. The lock protects the file, not the cache.

`WasherLedger` is weaker than `GovernanceLedger`, because the code is: one
decision per key, each a legal move from a status its resolution had at *some*
earlier length of the file.

### Evidence and closure: `WasherEvidence`, `WasherClosureLedger`, `WasherClosure`

`WasherEvidence` holds the pure part: which evidence counts (`Verified`), which
is damaged (`Corrupted`, a record whose fields do not give its checksum), the
newest decision, the existing closure. A record is named by its place in its
file.

`WasherClosure` has three files and three caches of one shape. `load` is a
thread's place in `_load()`, as in `WasherDecisions`, and `StoreAt` says which
store the read at a program counter goes to. A close request reads five times:
`Precheck` (is it closed), `EvaluateStatus`, `EvaluateHistory` (a second read
of the decisions, only for a terminal status), `EvaluateRecords` and
`EvaluateExisting`, whose verdict is the six blocking reasons together
(`Ready`). A readiness request starts at `EvaluateStatus` and ends with the
verdict; an evidence request goes straight to the append. `found` is the
`ClosureReadiness` a thread is collecting. `AppendLock`, `AppendRead`,
`WriteEvidence` or `WriteClosure`, and `Reload` are `append_evidence` and
`append_closure`: only closures are checked under the lock. `Look` is the
read-only routes.

Recording a decision is one step of `WasherLedger`, which `WasherDecisions`
implements, and its `reload()` a second one. `Curate` is another process that
appends under the store's lock: the server itself creates unverified evidence
only, so verified, rejected and damaged records come from outside, and the
server's cache does not hear of them. `Fails` and `Crash` are as before.

`WasherClosureLedger` is what is left under concurrency: at most one closure,
never for a blocked record, resting on a terminal status, a decision and
undamaged verified evidence, each of which was on record at *some* moment.

### Synchronization: `WasherGovernanceSync`

Two kinds of processes, the server's threads and the tool, run
`sync_washer_decision`: `Lookup` (eligibility, configuration, key, dry run),
then the governance command read by read (`FindKey`, `FindDecision`,
`Validate`, `AppendEvent`), or `StoreFails`. `Record` is one step of
`WasherLedger` followed by the projection, `Retry` a replayed decide request,
which projects again. `StartPass`, `NextDecision`, `EndScan` and `PrintReport`
are the tool, started with or without `--apply` and with or without a store.
`OtherClient` is one step of `GovernanceLedger` by somebody else on the same
file. `Restart` ends the server and may change its environment, `ToolKilled`
ends the tool.

What a module composed here may rely on is what the modules below it show:
recording is atomic because `WasherDecisions` implements `WasherLedger`; the
final append is one step because of the lock `GovernanceService` models. That
`OtherClient` is atomic is a simplification: overlapping governance clients are
the subject of `GovernanceService`. The lookups keep their own steps, so a
projection races with everything else.

A decision is named by its place in the file, since ids are generated and never
repeat. `synchronized_at` is the process that runs the attempt: two attempts
that can race have different stamps, one that repeats a finished attempt is
recognised by `Lookup`, which ignores the stamp, before the stamp is compared.

### Requests over SQLite: `Requests`

One function, `calls`, gives for each thread the record of what its request has
read so far: `at` is the step it is at, the other fields are the handler's local
variables. A handler is a chain of actions: one for each `SELECT` before the first
write (it holds no transaction, so others run in between), and one for
everything from the first write to the commit. `Leave` ends a request at any step:
the client has its answer, the handler raised, SQLite's busy timeout expired or
the process died. Since it may happen between any two steps and changes no
table, it stands for all of these. `Lists` is `ORDER BY` and `sorted`: the members
of a set in a given order, each in the place that the number of those before it
gives it.

### Joints: `JointRevisions`, `JointProjections`

`CheckJointCode`/`InsertJoint`, `CheckArchive`/`ArchiveJoint` and `GetJoint`,
`FindKeyOfRevision`, `NumberRevision`, `InsertRevision`, `RecheckKey` are
`create_joint`, `archive_joint` and `create_joint_revision`: the joint is read,
the idempotency key looked up, the number taken as `MAX + 1`, the row inserted
under two unique indexes, and after an `IntegrityError` the key looked up again.
`ReadForSubmit`, `ReadForReview`, `SubmitRevision`, `ApproveRevision`,
`RejectRevision` are the two halves of each status change, whose `UPDATE` asks
for nothing but the id. `JointProjections` reads the list of ids (`ListRevisions`),
then each row (`ReadNext`), and answers a query on what it read (`AnswerQuery`:
search, sort, page, export); `ProjectionsSpec` is these reads with the creations
and reviews of `JointRevisions` around them.

### Studies: `ValidationStudies`

Every handler of `production_validation/service.py`, with the check and the write
on connections of their own: `WriteStudy` is all status changes, from
`Transitions`; `InsertRecord`, `InvalidateRecord`, `ImportRows` are the
measurements, corrections (which append and invalidate) and CSV imports, whose
rows are numbered before the transaction.

### Data and calculations: `DataReleases`, `CalculationRecords`

`CheckContent` to `RollbackVersion` are the handlers of packages and versions;
`VersionNo` is the `COUNT + 1` with `INSERT OR IGNORE`. A certificate reads the
active versions, their packages and the golden cases one after the other
(`ReadActive`, `ReadPackages`, `ReadGolden`) and is written in the end
(`IssueCertificate`). `CalculationRecords` adds `AddCalculation` and, in a second
transaction, `InsertTrace`; `DeleteCalculations`, after which SQLite gives the
id away again; revisions with their locks; and `IssueRelease`, which reads the
calculations of a project one by one.

### Question bank: `QuestionBank`, `QuestionArchive`

`content` is the JSON file, `records` and `history` the SQLite rows,
`lifecycleAudit` the last audit entry of each kind. `CreateQuestion` and
`SaveUpdate` write the file first, `RegisterRecord` the row; `FailRegistration`
and `Compensate` take the entry out again. `ReadStatus`/`WriteStatus` and
`ReadRows`/`WriteFlags` are review and deletion, restoration, archival; an
import and a bulk operation are these, question by question. `List…` and `Get…`
are the two read paths with their different orders. `QuestionArchive` is the
promise: a version is committed once, with its content, and stays. `Archived`,
the refinement mapping, shows the content of the registered versions.

### Documents and tools: `Documents`, `ToolRegister`

An upload is `StartUpload`, `CreateRow`, `Extract`, `CloseRow`, `AuditOutcome`;
`Rejection` is the order of the content checks and `Outcomes` what conversion and
OCR can come to for a file. `ToolRegister` reads the tools first and the latest
study of each afterwards (`ReadTools`, `AttachLatest`); the clock is an input. An
ordered answer puts each row at the place that the rows before it give it.

### AI: `ModelProviders`, `AiGateway`, `Reasoning`

`ModelProviders` is without state: the registry the environment gives, what a probe
and a server may reply, and what each client and `validate_model_response` make of
it. `AiGateway` reads the evidence (`SelectValidated`, then `LoadEvidence` file by
file; an explanation arrives through `GetContent`), asks (`ModelCompletes`) and
records (`RecordInteraction`) before it answers. A query without evidence is
answered with a fixed notice, whatever the model said (`IsNotice`): its row names no
model. `Reasoning` adds torque
recommendations with a trace (`RecommendTorque`), rows damaged from outside
(`DamageTrace`), and the reasoning on a trace with optional wording. `AiSpec` has
all of this and the question bank on the same threads.

### Engines: `Assemblies`, `Materials`, `JointAnalysis`, `LibraryChecks`

These are operators, named after the functions they translate, and one action per
endpoint that stores the answer in `calls`, so that the properties can speak of
inputs and answers. Records of the library are sequences in file order, since the
first match counts. Messages are abstracted to the finding they report. In
`JointAnalysis` the stress area is the unit of area and a torque is measured by
the preload it gives: with geometry and friction fixed, both are proportional,
so whole numbers suffice for the comparisons with thresholds; what is lost is
rounding. `LibraryChecks` has the checks of `validator.py`,
`strength_validator.py`, `washer_resolution_validator.py` and `population.py`
as operators from a library to the positions they flag; the data files with their
defects are in `MCDataFiles`. `CompatibleBolts` is a field of the nut records that
no engine reads; it is there for a property to compare the engines with.

`MCRecords` puts all of this together. The components share a database file and the
threads, but no table, so its first state picks a `part` and the behaviour is
about that one.

## 4. Runs

| Run | Question | Bounds | Result |
|---|---|---|---|
| `gov_concurrent` | what survives concurrency, I/O failures and restarts | 2 threads, 5 colliding commands, 3 events | pass, about 45 s |
| `gov_serial` | is the service the atomic ledger when requests do not overlap | 1 thread, every move of two groups with 3 ids and 2 keys and four special commands, 3 events | pass, about 65 s |
| `gov_unique` | are decision ids unique | 2 threads, 2 events | violated |
| `washer_decisions` | file, cache and answers under concurrency; is it `WasherLedger` | 2 threads, 7 requests, 2 decisions | pass, 699 412 states |
| `washer_terminal` | is a terminal decision final | 2 threads, 4 requests, 2 decisions | violated |
| `washer_stale_cache` | is the cache fresh when nothing runs | as above | violated |
| `washer_sync` | projection, tool, other clients, kills, reconfiguration | 1 thread and the tool, 4 requests, 2 decisions, 1 foreign event | pass, 225 378 states |
| `washer_recoverable` | is every decision mirrored in the end | as above | violated |
| `washer_closure` | files, caches, answers and closures; is it `WasherClosureLedger` | 2 threads, 6 requests, 1 decision, 2 evidence records, 3 resolutions (open, blocked, unknown) | pass, 693 839 states |
| `washer_cites` | does a closure cite the decision that made the status terminal | 2 threads, 2 requests, 2 decisions, 1 evidence record | violated |
| `records` | do the SQLite components, and the engines, keep their promises | 2 threads, 2 users, the parts below | pass, 814 052 states |
| `joints_final` | is an approved joint revision final | 2 threads, 2 revisions | violated |

What the properties say, beyond one type invariant per module:

- `AppendOnly`: no event is lost or changed, whatever threads interleave in the
  read-modify-write cycle.
- `ThreadKnowledge`: what a thread learned from its unlocked reads is about the
  log as it was on arrival, and that is all it may use.
- `DuplicatesOverlap`: two events under a key or id only if the second request
  was under way when the first event was written. Hence a retry, which is sent
  after an answer, a 503 or a restart, never takes effect twice.
- `HonestPrevious`: the recorded previous status was real while the request was
  handled (governance) or at some earlier moment (washer, whose cache may lag).
- `AnswersJustified`: every answer names something in the log that justifies it.
- `EveryRequestEnds`: nobody waits for the file lock for ever.
- `UniqueDecisions`, `UniqueKeys`, `ImplementsLedger` (governance): without
  overlap the service is the ledger the ADR describes.
- `UniqueKeys`, `CacheIsPrefix`, `ImplementsLedger` (washer): with overlap.
- `EventsMirrorDecisions`, `MirroredOnce`, `OutcomesTrue`, `DecisionsSurface`:
  the projection invents nothing, repeats nothing unless two processes are at
  it at once, reports the truth, and repeated clean passes leave no decision
  without an event or a reported refusal.
- `OneClosure`, `CachesArePrefixes`, `AnswersJustified`, `ImplementsLedger`
  (closure): two requests that both pass the service's checks produce one
  closure, no cache shows a record that is not durable, "ready" and "appended"
  can be relied on, and nothing a closure cites is made up.
- `JointsSound`: numbers without gaps, a retry answered with the revision that won,
  a current revision that somebody else reviewed.
- `ProjectionsSound`: a listing is complete for the moment it began, with each id
  once, its pages partition it and its export is in the order asked for, what it shows as decided was decided.
- `StudiesSound`: a study past data collection was measured, an approval is by another
  person, a corrected measurement is invalid, sequence numbers are unique.
- `RecordsReleasedSoundly`: approved packages have versions, one version is active
  per data set, certificates and release packages say what was so, a lock comes
  from a review.
- `ArchiveKept` (refinement of `QuestionArchive`), `TrailsMatchRows`: no rival
  creation or roll-back changes what is registered; the history tells what the
  rows show.
- `DocumentsSound`, `ToolsSound`, `ToolsKept`: answers, log and rows agree.
- `AiAnswersSound`: `AnswersGrounded` (an answer cites what was validated, and has
  an audit row of its own that names its evidence and, unless it is the notice that
  there is none, the model),
  `RecommendationsSound` (a recommended torque holds on its inputs; more
  constraints never win a recommendation), `ReasoningGrounded` (a conclusion is
  the one recorded, for its owner).
- `AssessmentsSound`, `MaterialsSound`: no score hides a finding, more input hides
  none, engines agree, missing data is never taken for a pass; the numerals by which
  the engines pair bolts and nuts reject no pair that a nut's record lists
  (`RecordedPairsAccepted`), and the recommended nut lists its bolt but for class 4.8.
- `CleanLibrariesServe`: what the checks let through, the engines can read.

**Why the bounds are enough.** Every hazard here is between two actors: one reads,
the other writes, the first acts on what it read. Two threads (or a thread and
the tool) and two writes are the smallest instance of each, and the third
event lets a log continue after a duplicate or a race. The commands are picked
to collide: a key shared by different requests, an id shared by different
keys, rival terminal moves, a blank key, an incomplete request, an owned type.
The bounds are `MaxEvents`, `MaxDecisions`, `MaxOthers` and `MaxEvidence`; at the bound an
append can still fail, so no thread is stuck by it. The proofs need no bound. `washer_closure` treats its two
threads as symmetric, which is sound since its properties are all safety
properties and no definition tells threads apart; two evidence records allow a
damaged one to arrive before, between or after the reads that look for it.

**The parts of `records`.** Each is bounded for its own hazards. `joints`, `studies`,
`releases`, `calculations`, `reviews` and `documents` run two threads over
one joint, study or question and two rows of each table: one thread reads, the
other writes, the first acts. `certificates` starts from three versions of two
approved packages, so that an activation or a roll-back can fall between the
reads of a certificate; `calculations` starts with one approved package whose
version is active, since how versions come about is the subject of `releases`.
`answers` has one reviewer and one reader at a time, `projections` one writer and
one reader (its queries are chosen after the reads, which they do not
influence): two writers are the subject of `reviews` and `joints`. `answers` lets
one row into the audit table, `interactions` two (`MaxInteractions`): two questions
to the model overlap on a question bank that no longer changes, so that two
answers compete for their rows. The
tool register is checked in two parts, writers without studies and the studies of
one tool that may be deactivated. `reasoning` has one request at a time, with a
row damaged in between. `assemblies`, `materials` and `checks` read nothing a
request changes, so one request at a time is all there is; their inputs are
chosen so that every finding, and every pair of findings that might hide each
other, occurs (`MCLibrary`, `MCDataFiles`, `MCJointInputs`, where any subset of
the inputs of a joint may be missing).

`MCRecords` leaves out pairs of requests that cannot disturb each other: two
certificates, two releases, two traces, two submissions or locks write the same
or read only (`OneAt`); and a request that will insert a row starts when the bound
has room for it (`WithRoom`). The bounds are the `Max…` constants of
`Records.cfg`. Threads and users are symmetric, which is sound since all
properties are safety properties and nothing tells two of them apart. Deadlock is
not checked: at the bounds, all requests may be over.

**Fairness.** `GovernanceService`: weak fairness of `Handle(t)`, a thread that has
a request is scheduled; strong fairness of `AppendLock(t)`, since the lock is
taken and released again and again by others, and a waiter of `flock` is woken
when it is free; the critical section is finite. Nothing forces requests to
arrive, stores to fail or the server to die. `WasherGovernanceSync`: weak
fairness of a started projection and of a started scan. Nothing obliges a client
to retry or an operator to run the tool, so `DecisionsSurface` and
`DecisionsRecoverable` have the premise that clean `--apply` passes happen
again and again. The washer workflow has no liveness property,
`WasherClosure` and the components over SQLite none either: their requests
neither wait for each other nor retry.

## 5. Disagreements between the code and its documents

- `gov_unique`: `exceptions.py:101-102` says a decision id is unique across the
  store's whole history; a request that overlaps its own repetition is recorded
  twice, because the lookups are outside the lock and `append()` checks nothing.
- `washer_terminal`: ADR-0013 says terminal statuses have no outgoing
  transition; two overlapping decisions of one resolution are both recorded
  from `open`.
- `washer_stale_cache`: `reload()` says the next read re-parses the file; a
  reader that parsed before the write can fill the cache after the drop, and
  the server serves the old list until the next write.
- `washer_recoverable`: ADR-0015 says every recorded decision is synchronized
  inline or recoverable by a run of the tool; a second terminal decision of a
  resolution, or one whose synchronization key is taken, is refused by every
  run.
- `washer_cites`: `evaluate_closure_readiness` says the decision it takes is
  "for that terminal transition"; the status and the decision come from two
  reads of the cache, and a decision in between, or an older list, makes the
  closure cite another one.
- `joints_final`: `PHASE_2.8.17_COMPLETION_REPORT.md:137-146` says an approved
  revision is immutable; the status is read on one connection and written on
  another without a condition, so a rejection that read before an approval turns
  the approved revision into a rejected one.

What follows was seen while modelling and has no run.

*Washers.* Once two decisions of a resolution have
overlapped, a closed resolution can have an active status. A `GET` of a closure
can answer null after the closure was written, from a stale cache. A request
that loses the race for a key to a *different* request is answered with the
other's decision as `existing`, where a sequential client would get a conflict
(`record_decision` compares the key only). And the comment at
`washer_resolution_sync.py:388-391` on racing attempts is right that the race
is benign, but the loser reports `idempotency_conflict` rather than a replay,
since the two attempts carry different timestamps.

*Question bank.* `get_question` reads the content before the status
(`retrieval.py:310-312`): the content of a version that is compensated, created
anew and validated in between is answered as validated. The explain path records
`PASS` without having checked. The docstring of `update_question` promises a
failed update leaves things "exactly as if the update had never been attempted";
another update may have based version 3 on the compensated version 2. Deletion and
archival reach a version registered after the rows were read, for which there is
no audit row; the audit row of an archival can carry a stale `is_deleted`. Bulk
tagging writes what a stale read gave. A transition that read before a
deprecation leaves the "terminal" status. `get_publishable_questions` does not
look at `is_deleted`, and the audit rows of the AI gateway name no version. The
docstring of `import_export.py:74-75` says of an item that "either both succeed, or
neither remains"; if the process dies between the JSON entry and the row, the
entry remains.

*Documents.* A comment in `markitdown_adapter.py:416-423` relies on
`extraction_method`, which `mark_extracted` never writes: it stays what the
creation of the row set. The docstring of `ingestion_service.py:47-48` says that a
`"processing"` row is never the final state of a call; it is if the process dies
between the creation of the row and its closing.

*Production validation.* The phase documents call an approved study terminal and
its dataset locked; the table of transitions archives it, and a dataset or
measurement that was checked before the approval is written after it. Two
imports of one file may both pass the checksum lookup.

*Calculations.* `docs/00_PROJECT_VISION.md:58` and `01_DOMAIN_MODEL.md:180` speak
of immutable approvals; a rejection after an approval leaves `is_locked`, an
approved calculation can be deleted, and its id be given to another
(`app.py:583-594`). A roll-back activates the newest earlier version without asking
whether its package was rejected since. A calculation stays without a trace if the process dies
between the transactions. The system export reads its tables one by one.

*Joints.* Of two revisions in review, the older one approved last becomes the
current one.

*Governance views.* Pages are read row by row, so a page can show statuses that
never held together and successive pages may repeat or miss rows, though the
docstring of `joint_revision_query.py` speaks of a pure function of the current
data. The status route (`api.py:329-357`) reads the store four times.

*AI.* `get_model_client` promises that whenever the badge says ready, a query is
answered; the probe accepts another tag of the configured model, and a model can
go between probe and completion. The query path audits a timeout without its
category. A reply with a lone surrogate passes validation and, when it is the
answer, fails when it is hashed: no answer and no audit row (a query without
evidence has its notice all the same), and in reasoning the deterministic result is
lost as well, although the wording is documented as unable to affect it.
`DeterministicModelClient.calls` grows for ever.

*Tools and accounts.* A capability study may be saved for a tool deactivated in
between; answers re-read their row after the commit. `max_users` and
`max_projects` of a licence are shown, not enforced. Two administrators can
deactivate each other.

*Joint analysis.* Confidence `HIGH` is documented and cannot occur, since
provisional formulas always warn. A warning threshold at or above the failure
threshold, or a compressive load that makes the service force negative, makes an
input invalid, so the yield check is skipped and a torque is recommended, with
low confidence. The recommended torque may lie outside its own allowable window
without a finding. Without a load factor the lower end of the window ignores the
axial load. A stored status the reasoning does not know counts as sufficient
evidence with an empty conclusion.

*Assemblies and library.* `strength_classes.py:98-103` says that the pairing rules of
nuts "live in `compatible_bolt_classes`" rather than being inferred from the
designation. No engine reads that field: both compare numerals
(`strength_compatibility.py:36`, `compatibility_engine.py:35`). So any stronger nut
passes, listed or not, and for a 4.8 bolt nut "04" passes and is recommended
(`strength_compatibility.py:134-137`), whose record lists 3.6 and 4.6 only
(`bolt_nut_strength_classes.json:297-300`). `RecordedPairsAccepted` states that
4.8 is the only class whose recommended nut does not list it. The reason for `blocked` says no friction value is
recorded also when split values lack the geometry. A temperature record with one
bound counts as a range. "M12" resolves to the first record, a strength class
to the first whatever its standard. A library of which a part is validated and a
part approved is rated `engineering_recommendation_ready`, against its comment.
`run_all_integrity_checks` runs "every" check but those on threads, washers and
hardware. A null bound in the overlap check, and a null pitch of a fine thread
in `find_pitch_series`, raise a `TypeError`. Nothing compares a diameter with its
designation. No data file has a unit, so the unit check never applies. Class
"05" is known to the pairing and has no record.

## 6. Proofs

| Module | What it proves, for any threads, commands, sources and bounds |
|---|---|
| `LogLemmas` | what appending preserves: prefixes, indices, element types; a set listed in a total order of its members has each of them once, in that order |
| `GovernanceService_proofs` | types, mutual exclusion, `AppendOnly`, `ThreadKnowledge`, `DuplicatesOverlap`, `HonestPrevious`, `AnswersJustified`; with one thread also `UniqueDecisions`, `UniqueKeys` and the refinement of `GovernanceLedger` |
| `WasherDecisions_proofs` | types, `CacheIsPrefix`, `UniqueKeys`, `HonestPrevious`, `AnswersJustified`, the refinement of `WasherLedger` |
| `WasherClosure_proofs` | types, `CachesArePrefixes`, `OneClosure`, `AnswersJustified`, the refinement of `WasherClosureLedger` |
| `WasherGovernanceSync_proofs` | types, `EventsMirrorDecisions`, `MirroredOnce`, `OutcomesTrue`, for any decisions, threads and other events |
| `QuestionBank_proofs` | types, `TrailsMatchRows`, the refinement of `QuestionArchive` (`ArchiveKept`); types of `GatewaySpec` and of the reasonings, and `AiAnswersSound` of `AiSpec`, for any models, inputs and recommendations |
| `Records_proofs` | types and `JointsSound` of `JointRevisions`, types and `ProjectionsSound` of `ProjectionsSpec`, for any queries; types and `DocumentsSound` of `Documents`, types and `StudiesSound` of `ValidationStudies`, types and `RecordsReleasedSoundly` of `CalculationRecords` with `DataReleases`, types, `ToolsSound` and `ToolsKept` of `ToolRegister` |
| `Library_proofs` | for any library, data files and inputs: types and `AssessmentsSound` of `Assemblies`, types and `MaterialsSound` of `Materials`, `CleanLibrariesServe` of `LibraryChecks` |

The assumptions are those the modules state on their constants: commands and
requests have the listed fields, the sentinels are not threads or requests, the
source ledger gives each resolution a status, other clients of the command engine
come over HTTP with a known group and status (`OthersAssumption`; from that the
engine refuses the washer's type), an uploaded package is of a required data set and has a
confidence from 1 to 4, the inputs of a joint have the types and signs that its
request model validates, and the share of the load that the stiffnesses take is
a whole number (the model has no fractions), and NULL is no wording, error or
recommendation, and a query names an allowed column and order and counts its
pages from 1 (`QueriesAssumption`; NULL is not among the texts sorted by, nor a
number). Of the library the engines read, the assumptions say what the validators
see to or the request models require: records of one designation share a diameter and
a friction range runs upwards (`LibraryAssumption`), ids of materials do not repeat
and values and bounds are not negative (`MaterialsAssumption`). Of the data files
the validators read they say next to nothing, since those may have any defect: a
file is a list, an end of a range is a number or missing, a strength class has a
standard (`ChecksAssumption`). TLC evaluates them in the runs. Each module of
`MCRecords` is proved for its own specification, from empty tables; the run
checks the same properties of the same steps.

*Governance.* None of the properties is inductive. The strengthening is the
conjunction of

1. the lock invariant: whoever is in `read` or `write` holds the lock, and the
   copy to be written back *is* the file (`LockedCopyIsCurrent`). From it alone
   every step leaves the file or appends one event, which is `AppendOnly`;
2. `ThreadKnowledge`: facts about `SubSeq(events, 1, arrived[t])`, a part of
   the log that by 1 no step touches, so they survive the steps of others;
3. the history invariant (`DuplicatesOverlap`, `HonestPrevious` and the bounds
   of `born`), re-established at `AppendWrite` from 2;
4. `AnswersJustified`, which is about places and prefixes of the log that by 1
   stay what they are.

With one thread, `arrived[t]` is the length of the log until the thread itself
writes (the serial invariant), so what 2 says of the prefix holds of the log:
uniqueness, and the step of `GovernanceLedger`, follow.

*Washer decisions.* The lock invariant again, now with the key checked under the
lock (`Checked`); then `CacheIsPrefix`, which needs that every parsed list is a
prefix of a file that only grows; then the file invariant (unique keys, honest
previous statuses, and that the status a thread validated was seen in a prefix
of the file); then the answers. The refinement maps `RecordWrite` to
`Record(r)` of `WasherLedger`, with the length of the cache that was read as
witness, and every other step to a stutter.

*Closure.* There is one lock per file, so the lock invariant is stated per target
file: whoever is in `locked` or `write` holds that lock, and at `write` the
copy is the file and, for a closure, holds none of its resolution (`Checked`).
Hence each step leaves each file alone or appends one record, and `OneClosure`
and `CachesArePrefixes` follow. The refinement needs `FoundSeen`: the status, the
decision and the evidence in `found` were each read from a prefix of a file;
such a fact survives every step because files only grow. `WriteClosure` then
maps to `Close`, with those prefixes as witnesses, `WriteEvidence` and `Curate`
to `AddEvidence`, `RecordDecision` to `Decide`, everything else to a stutter.
`AnswersJustified` adds that an appended record stays at its place
(`AppendedPlace`).

*Joint revisions.* There is no lock, and what a request read may be out of date when
it writes. The invariant `JInv` is `TablesOK` (numbers, keys, current revisions)
and `CallsOK`: what each request has read is still *consistent* with the tables,
since rows are never deleted, their identity and author never change, and numbers
only grow. The unique indexes do the rest: a number read too early makes the
insertion fail. Each handler step has a lemma for each half, and a step of
one thread keeps `CallsOK` of the others because it only adds to the tables.

*Projections.* To `JInv` is added what a request knows that is half way through its
list (`CallOK`): the rows it has are those of the first of the ids it listed, and
each is as its revision once was. That survives reviews because no status returns
to draft and no reviewer is replaced by the author, so what was seen as submitted
is still no draft and what was seen as decided still has its second person. The
reads disturb nothing of `JointsSound` (`JointsStaySound`). The rest is about one
answer, which is `Answer` of those rows. Each column is first replaced by a
number (`BeforeByRank`), with ids breaking ties, so sorting is by a strict total
order, of which the list is the enumeration (`InOrderLists`). `Ceiling` says that
the quotient rounded up is the number of pages that start inside the list; the
first `k` pages put together are its first `k * page_size` rows, which is the
equation that `FlattenSeq` solves, and it has one solution by the least place at
which two would differ (`FlattenIs`, `PagesMakeList`).

*Synchronization.* `SyncInv` adds to the three properties what a process knows
at each step: where it is in the decisions, that an event it is about to append
mirrors a decision that still has none (unless the decision is `shared`, taken by
two processes at once), and that a recorded outcome stays true because both
files only grow. Two more facts are needed: no two processes are at one decision
outside `shared` (`Alone`), and no event moves a resolution back to "open"
(`ResolutionsFinal`), without which a mirror could have another previous status.

*Question bank.* `QInv` relates the two stores: a registered version has its
content (`RegisteredStored`), and a request that is still to register or to roll
back a version owns it alone, with the content there and the row not
(`OneOwner`, `Knows`). Therefore a roll-back removes only content that no row
shows, which is the step of `QuestionArchive` that changes nothing; a registration
is its `Commit`, and every other step a stutter. The trails need that what a
deletion lists was registered (`ListedRegistered`).

*Answers of the gateway.* `AiInv` adds to `QInv` what a request knows (`AiKnows`).
What it cites was validated when it was read, and stays so because the history
only grows; that the text is still what the archive holds follows because a
validated version is registered and `QInv` then keeps its content, whatever is
saved or rolled back meanwhile. Audit rows are only appended, and no two answers
have one (`OwnRows`). What a reasoning says of the row it was drawn from is kept
by all that can happen to a row, which is one damage; hence it is stated with
the recommendation of that row, and of the damage only what a later one cannot
refute. An explanation reads the content before the row, so of its one source
only that it was validated is known; that is all `AnswersGrounded` claims.

*Recommendations.* No invariant: every input that a request may have is shown
sound. The quantities are worked out with fields that may be missing, so each is
first brought to one equation (`QuantityFields`); then "no finding" is multiplied
by the sum of the stiffnesses, which is positive and takes the fractions out, and
gives the inequalities of `RecommendedHolds`. Leaving out a bound leaves every
quantity as it was or makes it `None` (`LessIsWorkedOut`), from which
`BoundsOnlyWithhold` follows finding by finding.

*Documents.* An upload holds its row from creating it to reporting its outcome, and
nobody else holds it; while it does, the row is as the upload left it and the log
does not report it. With this (`DocumentKnown`) each of the three writes, in
three transactions, keeps log and row in agreement whether or not the next comes.

*Studies.* The handlers read on one connection and write on another. `StudyKnown`
keeps what survives: a study that is there stays and keeps its author, and a
measurement that was counted stays a row of the study, valid or not (`Measured`
is never lost). The
numbers of an import are a recursive function of the file; that they are
numbers, and distinct, is proved by the least row that fails, since the
induction theorems are out of reach.

*Data releases and calculations.* `RecordsInv` says of versions that only packages of
the highest confidence have any and that those of a data set are numbered
`1..n`, so that the number of an approval is always free and `INSERT OR IGNORE`
never drops it. Of a certificate in preparation it says that the versions read
name each data set once and validate (rows keep their package, a package its
content), and that the cases counted as passed are all cases up to that count
(`AllPassed`, by cardinality). Of a release package in preparation it says that
an item shown as approved rests on a revision of that calculation that is
locked (`ItemTrue`), which survives as nothing unlocks a revision; its review by
a second person is then `LockedWasReviewed`, not what was read.

*Tool register.* An answer is put together in several reads, so what it has so far
need not be the register as it is, nor as it was at one moment. `ToolsInv` says
what remains true of it: each study shown was the latest of its tool in a prefix
of the studies table that is at least as long as the table was when the request
began to look for it (`seen`) and not longer than it is now; studies are only
added, so prefixes stay. That a list is as long as the set it orders is a fact of
finite sets with a total order: different members have different numbers of
members before them, so each place is somebody's.

*Gateway and reasonings, types.* `AiSpec` lets reasonings write to the audit table too,
so the types of the gateway alone are proved of `GatewaySpec`, by an induction of
their own (`GatewayInv`) on top of `QInv`: the rows of the table never go away, so
the row an answer names stays one. Those of the reasonings follow from `AiInv`:
damage leaves the result of a row, so what was concluded is still some row's.

*Assemblies.* No request writes here, so the invariant (`AssembliesInv`) is that
every answer a client holds is the function of its inputs that the code computes;
what is promised is then about functions, for every library. That one input fewer
brings no incompatibility to light is shown check by check (`PairWithheld` to
`ReferenceWithheld`): each check either does not read the field or, without it,
has too little data; the field may decide which record is found, hence a lemma on
finding as well (`ResolveWithheld`). The score counts fourteen checks, which needs
the cardinality of two disjoint sets, and its rounding to hundredths never
reaches 0 or 100 from inside (`PercentBounds`, by arithmetic on at most fourteen).
The strength tables agree class by class (`TablesAgree`), and so do they with the lists
of the nut records, nut by nut (`ListedPair`) and bolt by bolt (`RecommendedPair`).

*Materials.* The order of a ranking is total because margins are compared as
fractions, by cross-multiplication, which is transitive for positive denominators
(`RatioTransitive`), and ties fall to the id; then the list is the enumeration of
the matches along that order, each once (`RankedListing`, from the listing lemmas
of `LogLemmas`). A margin is the least ratio of value to bound (`MarginTightest`),
from which `WidestMarginFirst` follows without fractions.

*Library checks.* The engines are instantiated with the records of the file that was
checked (`Engine(d)`), so each promise has the emptiness of the reports on one side
and what an engine computes on the other. The reports of one kind of file extend
each other, and a joint report is clean when both parts are (`JoinedClean`). The
condition an engine looks up is the one meant, because ids do not repeat
(`FoundById`); of two records of a strength class that both hold a diameter the
overlap check reports one (`HoldingOverlap`), hence at most one is found
(`OneClassFound`); and every legal decision moves a record that was active (`LegalMoves`), so none
becomes active that was not.

**Only model-checked.** Liveness (`EveryRequestEnds`, `DecisionsSurface`), which
the prover cannot handle. `RecordsTypeOK` of the composition `MCRecords`: each of its
conjuncts is proved of the specification of its own module, whose steps the
composition takes; that it takes no others, and starts some parts from filled
tables, is part of the run.

## 7. Not modelled

- Formatting, logging, HTTP status numbers, Pydantic field validation, CSV and
  report rendering, model schemas: no property is about them. `complete` stands
  for the required-field checks.
- Floating-point engines: engineering core, standards, SPC, stress and buckling
  formulas, calibration cases. Formulas without state; `JointAnalysis` has the
  comparisons that decide a recommendation, not the arithmetic.
- Library searches, the generators of data files and the verification scripts
  of `src/tools`: they run by hand on files.
- The library registry, its loader and caches. Population files and attached
  sources can differ, `reload` refreshes one loader, and the checksum is computed
  after the records were read; files change only with a new deployment.
- Accounts, login, licensing, settings: single statements over a row.
- The governance history and status views of one aggregate, and the AI gateway's
  routes that read its audit table: they write nothing.
- The frontend, except for what it may send.
- Two servers on one file: the lock would cover the files, but every process
  has its own washer cache, which only its own writes drop. The models have one
  server process, as `start` scripts and the Docker file run it.
- The washer store's second function, `append_decision`, is called by no
  service.
