# Company OS runtime: specifications, model checks and proofs

The repository is a runtime that lets model-driven "departments" do a company's
work under a human gate. A goal becomes a workflow, a workflow becomes a *run*,
and a run is an append-only event log whose last event is the run's state.
Around the runs stand a queue that plans goals into runs, gates to the outside
world, an outbox that calls people, a memory of lessons, and a store (SQLite)
that copies and shares some of this. This directory specifies that machinery in
TLA+, checks it with TLC and proves its safety with TLAPS.

## Inventory

| part | state | operations | how it interacts |
|---|---|---|---|
| run state machine (`run_state`, `run_verbs`, `run_outcomes`, `run_review`) | one JSONL log per run; each event carries the whole state: run status, cycle budget, spend, steps with status, attempts, reviews, claim and submissions, messages | 17 verbs, all but two through `mutate` | called by the driver, agent API, CLI and console; writes `audit.jsonl` before its event |
| driver (`executor_*`, `checking`) | none that lasts: a snapshot per pass; evidence files | `advance`, `drive_step`, `drive_check` | calls verbs under ids derived from step, attempts, releases and verb |
| agent API (`agent_work`) | none | claim, submit, heartbeat, give up | calls verbs under fresh ids with the token its claim returned |
| people (`approvals`, `service_runs`, CLI) | a note of each decision in the store | approve, reject, cancel, extend, expire a claim | calls verbs; the terminal uses the driver's id scheme, the console its own |
| triggers (`triggers`, `db_triggers`) | schedules, webhook nonces, intake rows with status and attempts | fire, enqueue, withdraw, start, adopt, settle | start runs under an id derived from the intake row |
| scheduler (`scheduler`, `scheduler_sweep`, `health`) | lock file of the single instance | one pass: schedules, intake, drive every movable run, watch, mirror | one supervised process; a command may run a pass next to it |
| connectors (`connectors`, `db_connectors`, `live_gateway`, `db_runs`) | connectors, authorizations, approvals, receipts | register, enable, authorize, revoke, approve, execute, settle, reconcile | consumes an approval once, then performs an outward call |
| notices (`notify`, `escalation`) | append-only outbox | scan, raise, deliver, acknowledge | read, decide, append; the lock covers the append alone |
| memory (`memory`) | append-only chained file | propose, decide, recall | the driver proposes lessons, people decide |
| audit, durability | hash chain; archives | append, verify, backup, restore | every gated transition appends |
| store (`db*`, `projection`) | rows per run, notes, projects, views, idempotency keys | project, note, create, save, reset, purge, backup, restore | follows the logs; shared by all signed-in sessions |
| identity, observability, planner, backends, console | sessions, counters, I/O | | see "Not modelled" |

What is hard here: several processes (scheduler, a hand-started driver, API
workers, people) write one run, one queue, one file in any order; model calls and
outward calls take minutes, so claims lapse and answers are lost; processes die
between two writes; requests are retried under the same id; budgets (cycles,
attempts, reviews, money, queue depth) run out inside any operation.
`PROJECT.json` lists each such hazard at its line, with the properties that cover
it or, where the code does not keep the one that would, the instance showing so.

## Modules

Each component has a module, a module of properties, an `MC` module with the
definitions of its instances and, most of them, a module of proofs.

| module | models | state |
|---|---|---|
| `RunCore` | one run, its log, its audit entries, its artifact files | `run` is the last event, `log` every event's id, name, actor and target, `audit` the entries written, `disk` what each file contains |
| `RunLifecycle` | abstract: what the owner of a run is promised | `done` (finished steps) and `phase` |
| `RunDriver` | composed with `RunCore`: drivers, outside workers, people, time | `proc` is where each driver is in `advance` and what it has read, `api` the same of each HTTP worker; `cleared` is history: work that passed its grade or that a person accepted |
| `TriggerQueue` | what may start work and the queue it waits in | `schedules`, `nonces`, `client` (each caller in its request), `saw` (what was in when it found room), `intake` rows and `line`, the order they are read in; `ahead` is history: what the caller of a waiting row had seen |
| `Scheduler` | composed with `TriggerQueue`: the passes that empty the queue and drive runs | `run` (a run file and whether it moves, waits or is over), `sweeper`, `lock`; `faults` is history |
| `RequestLine` | abstract: requests, each answered once, and none while one waits that had come in when it was asked | `asking`, `ahead`, `answer` |
| `ConnectorGate` | connectors, approvals, receipts and the callers that spend an approval | `connector`, `authorization`, `approval`, `receipt`, `audit`, `call`; `sent` and `took` are history: what left and what the provider did |
| `OutwardPromise` | abstract: one call per approval, never given back | `permission`, `sent` |
| `Outbox` | the scan, the outbox file, the commands that deliver and acknowledge | `world` (what is the matter where), `outbox`, `process`; `told`, `repeats`, `late` are history |
| `CompanyMemory` | the chained file of lessons and its writers | `memory`, `pen` |
| `Archive` | composed with `CompanyMemory`: runs' evidence, the backup that reads all of it | `evidence`, `pinned`, `keeper`, `archive`; `stirred` is history |
| `ReadModel` | the store's copy of the runs, the notes of decisions, the store's backups | `log`, `decided`, `db`, `copy`, `aside`, `projector`, `request` |
| `Workspace` | projects and console views, their revisions and idempotency keys | `db`, `copy`, `creation`, `session`; `epoch` is history |

How `RunCore` reads the code:

* A call that raises `SystemExit`, and a replay of an id already in the log,
  leave the files as they are; they are stuttering steps. `Next` offers every
  verb every id already used as well as a fresh one.
* The run lock makes a verb atomic. A process can still die inside `mutate`,
  after an audit entry and before the event (`Record`'s second disjunct).
* `mutate` refuses an ended run, ends a run out of cycles under the caller's id
  (`Exhaust`), and otherwise costs one cycle. `ExtendBudget` is the one verb that
  writes its event itself and the one that leaves an end state.
* A claim's expiry is a clock reading; `live` says whether it has passed, and
  `ClaimLapses` is time passing.
* Submissions are reduced to the hash pinned by the last one, a message to its
  edge, kind and payload hash; wording, references and attribution are left out.
* Every verb may be called by every agent, human, holder and token at any
  moment: the properties do not rest on the callers behaving.

How `RunDriver` reads the code:

* A call is the verb's action of `RunCore` under the caller's id (`Calls`), or a
  replay, or the call that finds the run out of cycles, or a refusal; the driver
  then goes on as the code does in each case. Whether a refusal is possible is
  read off the verb's conditions (`Refusal`).
* One action per moment at which the code reads or writes something others can
  change: `StartPass` (`advance` reads the run), `PickStep` and `PickCheck`,
  `Prepare` (`token_for` and `request_id`, two reads right after each other, taken
  as one), the `Call...` actions, `Decide` (held work, ceiling, or dispatch),
  `Dispatch` (hand-offs re-hashed), `Reply` and `Verdict` (minutes later, the
  model's answer, and the file written before the verb is called).
* What was claimed is judged by the pass's copy, what was taken is read again, as
  in `drive_step`. Ids are the code's: step, attempts, releases and verb.
* A driver works on one step at a time, which is `MYORG_MAX_PARALLEL_STEPS` unless
  it is raised. `Overlap` says whether a second driver may run next to it, as
  `executor.py` started by hand does; without it the scheduler's lock holds.
* The limit on `advance`'s rounds is left out: a driver that reaches it is started
  again by the next sweep.

How the others read it:

* `TriggerQueue` and `Scheduler`: every read and every transaction of the store is
  a step, so the depth check and the insertion are two, and so are a schedule's
  claim and its row. A sweeper is cut during the planner's call and between the
  creation of the run file and the settling of the row. Services hold the lock of
  `single_instance` while they loop, commands take none. A run is reduced to
  whether it moves, waits for a person or is over, which is what `classify` asks; a
  run that moves may go on moving for ever.
* The order of the queue is that of `created_at`, which is stamped before the
  transaction that inserts the row and after the look at the depth. So a row comes in
  anywhere behind the rows its caller had seen (`EnqueueTrigger`), perhaps ahead of
  one that a sweeper has in hand. The clock that stamps is taken never to step back.
* `ConnectorGate`: a call is cut at every transaction, at every audit line and at
  the network. The result of a send says what the caller learns; what the
  provider did is separate, and unknown where the answer is. Addresses, TLS and
  response limits are among the reasons for a result.
* `Outbox`: a notice's words are reduced to the count they contain (steps done,
  attempts spent), because that is what decides whether a fact has changed; the
  matter it is about is carried next to them and seen by no operation.
* `CompanyMemory` and `Archive`: a record follows the number of the line its
  writer took the hash of, which stands for the hash. A run is the hand-over of
  one step, file first and event second; a backup visits them one reading at a
  time, in the order of the code.
* `ReadModel`: a projection lists the runs, reads one log, and writes one row in
  one transaction each. A restore puts the store aside and then replaces it.
* `Workspace`: a request is one transaction and its answer may be lost; a save of the
  view is answered by a second reading after it (`AnswerSave`). A revision is
  compared as the code compares it, by its number alone.

`Trouble`, `Network` and `Verdicts` name which of the events that may go wrong an
instance includes. `MaxTime`, `MaxAdmin`, `MaxWakes`, `MaxCrashes`, `MaxMishaps`,
`MaxNews`, `MaxCount`, `MaxTries`, `MaxSaves`, `MaxRecords`, `MaxDrafts` and `MaxEvents`
are bounds of the instances, without a counterpart in the code; every other
number is one of its limits.

## Runs

| run | instance | shows |
|---|---|---|
| `run_gates` | a green step, and a yellow one behind it; 2 holders, 6 cycles and one extension, one crash | ends, claims, attempts, parks, audit entries, ledger, tokens, refinement of `RunLifecycle` |
| `run_review` | a checked step and a red one, 2 messages, 6 cycles | each submission is judged once and for the right reason |
| `driver_restart` | one checked step, one live driver at a time of two, crashes between calls and one inside a call, lapses, holds, returns, rejections | only cleared work is handed over, its file stays what was pinned, and a verdict is on the file its reviewer read |
| `driver_diamond` | two steps of one pass and one that joins them, unit costs, a ceiling of 2, crashes between calls and one inside a call, a failing model | dependencies, the bill, no dispatch over the ceiling; the run settles |
| `driver_outside` | a driver, a worker and a person with all their verbs on one step, one of them dying inside a call | a superseded worker changes nothing |
| `queue_service` | two ideas, two services, two attempts, a crash, outages, bad plans, suspensions | answered one at a time, none before one its caller had seen in the queue, at the request's own expense, and in the end if every run comes to rest; refinement of `RequestLine` |
| `queue_clock` | an hourly schedule, a delivery, an administrator, withdrawals, resends, cancellations, a failing disk, a service that stops, a queue at its cap | the queue's overshoot is bounded by its callers; firings keep their distance, and each claimed one has no row yet; what was taken out unread stays out |
| `connector` | a live and a fixture connector, one approval, 2 callers, 2 keys, 2 deaths, every network result | one call per approval (refinement of `OutwardPromise`), traced, told truthfully, answered to its own caller |
| `outbox` | a run that waits, changes and stalls; one scanner, one terminal, a failed and a late send, a death | delivered means seen; nothing is repeated without cause; standing needs are told |
| `read_model` | a run of 4 events, two decisions, a scheduler and a projection by hand, a death or a restore | the store is never ahead, and catches up |
| `books` | two lessons, a driver and a person, a run with two drafts, one backup | the chain holds; a backup nothing moved under is faithful |
| `workspace` | two windows, one creation sent again, two saves each, a purge, a reset or a restore | created once; a save of a pack replaces what its author had read |

Bounds. Cycles are the program's own bound on a run: six let a step be requested,
held, approved, taken and finished with one to spare, and eight carry a checked
step through a return, a resubmission and an approval. Two holders are enough for
one to supersede the other, one crash for an entry without its event (a driver that made
the call dies with it), and a
ceiling of 2 with unit costs is reached in the middle of the diamond's first
pass. Two requests are the fewest that have an order, two attempts the fewest
that differ from the last one; a cap of 0 or 1 is reached by every second caller.
Two callers, two keys and one approval are every way to share one of the three.
Three news of one place let it need a person, stop needing one and need one
again. Where a property relates two actors (a writer and a backup, two windows,
two projections) the instance has exactly these two, and one mishap may fall
between any two of their steps. Symmetry is used in runs that check no liveness, over
holders, messages, approvals and keys, and sessions and packs, which no
definition tells apart. `MCQueueTakenOut` is `WithdrawalIsFinal` once more, where a service and a
command sweep the queue, one of them dies, and callers send again what was withdrawn
(7.63 million states). The type invariants are theorems and take no place in the
runs. Deadlock is not checked: a run that ended, an answered
queue and a company in which nothing is the matter have nothing more to do, and the
bounds stop the rest.

Fairness. The runs of `RunProperties`, `ConnectorProperties`, `ArchiveProperties` and
`WorkspaceProperties` assume none. The others assume what a scheduler does that is
alive and supervised:

* `DriverFairness`: it sweeps the runs `health.classify` calls running or stalled
  (`Movable`) again and again, a driver that has begun a pass goes on, and claims
  lapse by the clock. A person need not decide, a driver need not be started by
  hand, a worker need not answer. `RunsSettle` supposes that a reviewer answers in
  the end: one that never does is asked again on every pass.
* `Scheduler`'s `Fairness`: a service takes the lock when it is free and goes on
  with its pass (weak), and a planner that is asked again and again answers in the end
  (strong). Nothing is assumed of the runs: `RunsSettle` does not hold of all of them
  (`MCDriverYellowRetry`, `MCDriverReviewCrash`), and one that never settles holds the
  intake for ever. `RequestsAnswered` says so: its antecedents are that each run moves
  only for a time (`MovesOnlyForATime`) and that the organization does not stay
  suspended; without the first it fails (second table below).
* `Outbox`: whoever scans and whoever delivers goes on with what it can do; the
  operator's command fails `MaxTries` times for one notice at most.
* `ReadModel`: the scheduler mirrors at the end of every pass; a projection by hand
  owes nothing.

## Where documents and code disagree

While the modules were written these statements were met that the code does not
keep. Each is a definition with a comment that quotes its origin, and TLC prints
a trace that breaks it. The first table has configurations of its own, for example
`tlc -config MCDriverFencing.cfg MCDriver`.

| configuration | property | what happens |
|---|---|---|
| `MCDriverFencing` | `DriversWriteTheirOwn` | a driver whose claim was taken over reads the new token back from the run and completes under it (`executor_core.py:141`) |
| `MCDriverSlowReviewer` | `VerdictOnWhatWasRead` | a verdict on one submission is applied to the one that replaced it (`checking.py:86`); where drivers do not overlap it holds (`driver_restart`) |
| `MCDriverYellowRetry` | `RunsSettle` | an approved yellow step that failed once can never be claimed again: its next claim has the id of the first (`executor_core.py:118-125`) |
| `MCDriverReviewCrash` | `RunsSettle` | a driver dies between message and verdict; later verdict messages collide with its id (`checking.py:101`) |
| `MCDriverStaleSubmit` | `EvidenceStays` | a submission that is refused has already overwritten the evidence (`agent_work.py:193`; `tests/test_agent_api.py:253`) |
| `MCQueueTwoSweepers` | `ClaimsBringWork` | a service and a command claim one firing one after the other; the second finds its row there; under the lock of the loop it holds (`queue_clock`) |
| `MCQueueWithdraw` | `WithdrawnStaysOut` | an idea is withdrawn while it is planned: the row says so and the run starts (`service_runs.py:173-175`); what no sweeper had read does stay out (`WithdrawalIsFinal`) |
| `MCConnectorUnknown` | `UnknownIsReconciledFirst` | a second approval and key let the same action leave again while the outcome of the first is unknown |

The second table changes an instance that passes.

| instance | change | property | what happens |
|---|---|---|---|
| `MCDriverRestart` | property added | `DriversWriteTheirOwn` | the second take in one attempt is swallowed as a replay, and its caller works without a claim |
| `MCDriverRestart` | property added | `AcceptedWorkIsOfThisAttempt` | held work the checker sent back is handed over again unchanged |
| `MCDriverDiamond` | people extend (`HumanVerbs = {"extend"}`), `MaxCycles = 5`, `Trouble = {"transient"}` | `NothingDispatchedOverCeiling` | a park that is refused because the run is out of cycles goes on to the work, and a person extends the run in between |
| `MCDriverYellowRetry` | `MaxCycles = 2` | `OutOfCyclesIsAStop` | a run whose last cycle a person spent is never swept and cannot be extended (`health.py:80`) |
| `MCDriverYellowRetry` | `MaxCycles = 2`, `CycleCeiling = 4`, `Workflow <- PlainWorkflow` with step `"draft"`, people extend by 2 | `RunsSettle` | the call that found the run out of cycles keeps the id its repetition needs after an extension |
| `MCDriverYellowRetry` | `Trouble = {"ungraded"}`, `Cli = TRUE` | `ParkedStepsCanBeDecided` | work held in an attempt that began with an approval cannot be approved at the terminal |
| `MCDriverStaleSubmit` | `Trouble = {"lapse", "ungraded"}`, people approve | `OnlyClearedWork` | held work a person accepted is replaced by a worker that is then refused |
| `MCDriverStaleSubmit` | one driver and no worker, `Workflow <- OneShotWorkflow`, unit costs, people approve | `ReadyStepsHaveAnAttemptLeft` | approving a cost stop gives back a step with no attempt left |
| `MCQueueService` | property added | `RetriesKeepTheFront` | a request that was stamped first and comes in last is answered before one that failed at the front and waits for its retry (`db_triggers.py:92`, against the comment at `106-116`); a clock that steps back does the same and is not modelled |
| `MCQueueService` | property added | `RequestsAnsweredWhateverRuns` | a run that is driven on every pass and never comes to rest, which `classify` calls running or stalled, holds the intake for ever (`triggers.py:207-216`) |
| `MCQueueService` | `"disk"` added to `Trouble` | `SettledMatchesRun` | a run whose creation fails after its first event costs the row its last chance, and the row is given up before the code looks for its run (`triggers.py:186-199`) |
| `MCConnectorCalls` | property added | `ReconciledMayGoOn` | the same request stays refused after it was reconciled |
| `MCConnectorCalls` | property added | `InFlightLeft` | a receipt may say in flight although nothing left (`db_connectors.py:216`) |
| `MCConnectorUnknown` | two secrets, two more changes | `AuthorizedForItsToken` | registering again with another token keeps the old authorization (`db_connectors.py:58-59`) |
| `MCOutboxTold` | `Terminals = {}` | `StandingNeedsAreTold` | notices wait in a file until somebody delivers them |
| `MCOutboxTold` | `Scanners = {"sweep", "hand"}` | `DeliveredMeansTold` | a second scan raises a notice in new words between the reading and the marking of the first, and the mark goes by the id |
| `MCOutboxTold` | property added | `EachMatterIsTold` | a new matter in the words of the last one is no news |
| `MCReadModelMirror` | property added | `DecisionsAreNoted` | a process dies between a decision and its note, for which nothing looks again (`db_identity.py:106-111`) |
| `MCReadModelMirror` | property added | `NothingNotedIsLost` | a restore races a note, which ends in no store and no copy |
| `MCArchiveBooks` | property added | `SoundArchiveIsFaithful` | a run moves between verification and copy |
| `MCArchiveBooks` | property added | `HealthyBooksAreSound` | verification meets a file whose event is still to come |
| `MCArchiveBooks` | property added | `ApprovalsStand` | a proposal decided upon an old reading undoes an approval (`memory.py:125-150`) |
| `MCArchiveBooks` | `EvidenceInRuns = FALSE` | `QuietArchiveIsFaithful` | evidence kept elsewhere is not in the archive (`durability.py:121`) |
| `MCWorkspaceShared` | `MaxMishaps = 0` | `ViewEditsBuildOnWhatWasRead` | the answer to a save of the view is read after its transaction and may name another window's revision (`db_workspace.py:49`); the console takes that number and keeps its own fields (`control-center.tsx:288`), so its next save replaces a text it never showed |
| `MCWorkspaceShared` | property added | `StaleWritersAreRefused` | after a reset revisions begin again, and an old window's number fits (`db_workspace.py:51-56`) |

Read in
passing and not modelled: a torn last line of the memory file raises an error
that its readers do not expect; a restore removes its target before it has
looked at every member of the archive; several steps dispatched at once may each pass
the ceiling (`executor_drive.py:28`); every approval of a cost stop adds the
ceiling as it stands (`run_verbs.py:90`); a run with one parked step waits with
its other steps (`scheduler_sweep.py:55`).

What is coarser than the code, inside what is modelled:

* `RunCore` hashes evidence inside the verb; `complete`, `hold` and `message` hash it
  just before they take the run's lock (`run_outcomes.py:137`, `run_verbs.py:177`,
  `run_review.py:66`).
* `RunDriver`: `Reply` is the driver's look whether the run ended, the grading and the
  writing of the file in one (`executor_drive.py:111-127`). A worker's token is read
  back by a second reading after its claim (`agent_work.py:147-156`), taken as one with
  it, and the holder it claims as is its department's (`100-103`), here its own. A
  grade that "meets" is also one of work without criteria or without a snapshot
  (`executor_grading.py:51-61`).
* `TriggerQueue`: `Timing` is a constant, while creating a schedule again may change its
  kind and interval (`db_triggers.py:46-49`).
* `ConnectorGate`: a receipt's key is that of one organization and connector
  (`db_connectors.py:131`). Connector and authorization are read in one step, in the
  code in two transactions (`live_gateway.py:132`, `139`). A call whose secret cannot be
  read (`174`) is one that goes no further. An error in the middle of a send counts
  among those before it (`87-97`), as the code counts it. The connectors' rows are not
  put back by a restore: a restored store could bring back an approval that was
  consumed, or lose a receipt.

## Proofs

A theorem holds for every value of the constants that meets the module's assumptions:
natural-number bounds, `None`-like values distinct from the rest, what the code
validates before it begins (`validate_workflow`), and that what is listed somewhere is
finite: the schedules, ideas and deliveries of a history (`FiniteAssumption`), the
processes (`ProcessAssumption`, which also says that a sweeper is no caller of the
intake), the places an outbox scans (`PlacesAssumption`). The instances of the runs
meet them, and TLC evaluates them there. A hypothesis that is about how the program is
run, and not about its data, stands in the theorem.

| module | theorems | argument |
|---|---|---|
| `RunProofs` | types, `DependenciesDone`, `EndMatchesSteps`, `ClaimsMatchWork`, `TokensOutrank`; `AttemptsAccounted`, `EveryParkDecidedOnce`, `EverySubmissionJudgedOnce`, `GatedTransitionsAudited`, `LedgerBalances`, `BillAddsUp`; the refinement of `RunLifecycle` | a sound state per verb; one event, one step turned, one entry in each book |
| `RunDriverProofs` | all of these under drivers, workers and people; `WorkersWriteTheirOwn`; where drivers do not overlap `VerdictOnWhatWasRead`; for a lone driver `OnlyClearedWork`, `EvidenceStays` and, unless somebody extends the run, `NothingDispatchedOverCeiling` | what a lone driver read is still so when it acts; a step waiting for its verdict is written by its checker alone |
| `QueueProofs` | types, `QueueBounded`, `FiringsSpaced`, `WithdrawalIsFinal`; `OneAtATime` and `ClaimsBringWork` for a supervised loop alone; with disks that do not fail while a run is created `SettledMatchesRun` and `AttemptsAreTheRequestsOwn`; without withdrawals the refinement of `RequestLine` | the one sweeper that is not idle holds the lock, so what it read of the queue is true when it acts on it; whoever is about to enter found room |
| `ConnectorProofs` | types, `ReceiptsTellTheTruth`, `NothingLeavesUnrecorded`, `AnswersAreOnesOwn`, `EnabledMeansAuthorized`, `OneCallPerApproval` | an approval belongs to the one receipt that consumed it and the receipt to the one caller that wrote it; whoever reads a receipt instead can no longer send |
| `OutboxProofs` | types; `DeliveredMeansTold` and `SameFactOnce` for one scanner and one terminal | the two never write one id: a scan raises ids that are absent or delivered, a delivery holds ids that are neither, and only the one that holds an id changes which of the two it is; a notice to be told again is a debt somebody is to blame for |
| `ArchiveProofs` | `ChainIntact`, `QuietArchiveIsFaithful` with the evidence beside the logs | the holder of the lock knows the last line; each reading of a backup nothing moved under is still true at its end |
| `ReadModelProofs` | types, `StoreFollowsTheLog` | whatever may still be written into the store, a row that was read, a decision, a backup, is already true of the logs, which only grow |
| `WorkspaceProofs` | `AppliedOnce`, and of packs `EditsBuildOnWhatWasRead` | the event of a creation is in every store and backup that has its project; a revision of a pack names one text between two restores |

`RunProofs`, soundness. The invariant has to be stronger than any of the properties. A
claim on work in progress only makes sense next to the bound on tokens (no token
exceeds the last event's number), and ending a run keeps `EndMatchesSteps` only
because no refused step can hide in an active run. `IInv` is therefore `TypeOK` and
`Sound(run, run.seq)`, the conjunction of the dependency, end, cap, token, checker and
claim facts. Each verb computes a state and hands it to `Record`; so there is one
lemma that a handed-over state which is sound up to the next number leaves the run
sound (`RecordSound`, `MutateSound`), lemmas for what the verbs build states from
(`PutSound`, `ChargeSound`, `StopSound`, `FinishSound`, `DropClaims`, `SwapStatus`),
and one lemma per verb on top of them.

`RunProofs`, the books. The counting properties compare a step's fields with the
number of events of each kind in the log. `Accounts` is inductive next to `IInv`: it
says that the log is finite, that ledger and audit trail balance, and for each step
what its counts (`Tally`) owe to its status: the attempts, the parks and who decided
them, the submissions and who judged them, with the one park or submission that is
still open counted apart, and that a step under review is completed only with a
message that says so. No verb needs a proof of its own for it. `Turn` says what an
event may do to the one step it names, `Quiet` what happens to the others (nothing, or
they come free), and each verb is shown to enter its event and turn its step
(`EnteredAs`, `Stirred`); that any turn books itself is one lemma, and that a new
event counts once, for its own kind and step, another (`LogGrows`). The same `Moves`
say that a step of a run is a step of `RunLifecycle` or none. TLC checks `Accounts` on
the instances of both runs of `RunProperties` (51767 and 50132 states).

`RunProofs`, the bill. `BillAddsUp` sums a field over the steps with a fold, and
what a fold computes is a statement about every set of steps. No induction theorem is
needed for it: of the parts of `Steps` for which the statement fails, if there are
any, one has the fewest elements (`SmallestPart`), and the fold takes one step out of
it and goes on with a smaller part. So the sum of nothing is nothing, raising one
step's cost raises the sum by as much, and no other change matters; each verb then
charges the run and one step alike, or neither (`Charged`, `Unbilled`).

`RunDriverProofs` carries this to the callers. It is no corollary of the theorems
about `Spec`, because callers derive ids that `Next` of `RunCore` does not offer; but
the verb lemmas hold for any id. `DriverInv` adds to `IInv` what a call relies on: a
driver between two actions still holds arguments of the right kind, read from a copy
that may be stale, and a worker's token was granted to it and is the step's only while
the step is its own. It rests on one assumption more, `ReviewFileAssumption`: every
review count has a name for its message file. With it the books, the bill, the order
of tokens and the refinement of `RunLifecycle` hold for any number of drivers, workers
and people, whoever dies.

`LoneReviewerJudgesWhatItRead` needs no more than that drivers do not overlap
(`Overlap = FALSE`); workers and people may be there. A review takes minutes and its
verdict is written without looking at the submission again, so `ReaderInv` says that
whatever a reviewing driver read is what waits: the copy of the pass for the steps it
has still to review, the file it read for the one under its hands. It holds because a
step under review is written by its verdict alone (`Waits`, `NoVerdict`), which only
the driver that is awake can give.

The rest of `RunDriverProofs` is about a driver that is quite alone: `Overlap = FALSE` (the
scheduler's lock, and nobody starts `executor.py` by hand) and `Workers = {}`. Both
are needed: with an outside worker `EvidenceStays` and `OnlyClearedWork` are false
(`MCDriverStaleSubmit`). `LoneInv` says that one driver at most is awake, that what it
took from its copy is still so (`Aware`: the status of each step it has still to do,
the step under its hands in progress, the file it is about to hand over cleared), and
that what was handed over is as it was graded (`InHand`). It holds because people and
the clock leave steps that are ready or in progress as they are (`Steady`). TLC checks
it, and `ReaderInv`, on `driver_restart` and `driver_diamond` (158560 and 43494 states).

`LoneDriverMindsTheCeiling` adds `Spending`. The ceiling is looked at in `Decide`, a
dispatch comes later, and in between nobody but this driver adds to the bill. What
makes it hard is the park: `over_budget` is followed by the call whatever `hold`
answered. So the proof has to show that a park cannot be refused while the run goes
on: the step is in progress, its token is the one just read, and no event carries the
park's id but a park of that step (`ParkIds`). It can be refused by the cycle limit,
which ends the run unless somebody extends it, so nobody may extend (see the table
above); if the driver dies while that end is written, there is no call either
(`Hears`). TLC checks `Spending` on `driver_diamond` and with no ceiling at all
(43494 and 47137 states).

`ConnectorProofs` is the largest of the others. Its invariant `CInv` has a part for
callers (`CallsOK`: where a caller is says what it has read), for receipts
(`ReceiptsOK`), for the one caller of a receipt that is still open (`Alone`), and for
what the histories say of an approval that was spent (`SpentOK`, `AuditOK`,
`OutcomeOK`). The refinement of `OutwardPromise` then goes step by step: each action
of the gate changes one approval along its one path, or sends under one that was
consumed and not yet used, or leaves both alone.

`QueueProofs` names what each promise rests on. `Alone` (no command beside the
supervised loop): the lock then makes every other desk idle, and `Fit` may say of the
one that works what it has read, that whatever a row in its hands has to wait for is
answered or stands before it on the same page (`Foremen`, `Turn`), and that no fresh
run is there when it is about to create one. `Orderly` adds disks that do not fail
while a run is created: before the run's first event the failure costs the request a
chance for a fault that is not its own; after it `CreationRefused` spends an attempt
on a request that has a run, and `GiveUp` may mark it failed. `Unwithdrawn` adds that
nobody takes a request out: `WithdrawnStaysOut` is violated in `MCQueueWithdraw`, and
with it the order of the line. A new request may come to stand ahead of one in hand,
but only ahead of requests whose callers had not seen it, so nothing the working
sweeper relies on changes. The steps the promise sees are a caller's look at the depth
and its end, a request's insertion, the creation of its run and giving up on it.

`QueueBounded` and `FiringsSpaced` need none of these, nor a disk that works. `Room`
counts the rows together with everybody who has looked at the depth and not yet acted
on it (`Entering`): each of them found the queue below its cap, and there are no more
of them than callers and sweepers. `Timely` says that no schedule is due again within
its interval of the last firing and that no sweeper is ahead of the clock, so that of
two who claim one firing only the first finds it due.

`ClaimsBringWork` needs `Alone`. `Fired` says that the rows of a schedule are of times
that have passed and that the schedule has moved on from; of the times a sweeper has
read (`Firings`) none has a row while it holds the lock, whatever the administrator
does to the schedules meanwhile, because a new due time lies in the future.
`WithdrawalIsFinal` needs nothing: a row that was taken out is written by nobody who
does not have it in hand (`RowWrites`), and a sweeper takes in hand what it reads as
queued, so what is out of everybody's hands stays there (`NobodyTakesItUp`), with any
number of services and commands. That nobody has it in hand is part of the property,
since the statement without it is `WithdrawnStaysOut`, which is false.

`OutboxProofs` needs `Sole` because the statement is false with two scanners (see the
table above); the types hold with any number of them, since a record is replaced and
never removed, so that `mark_delivered` finds the id it is given. `SameFactOnce`
compares how often something was told again with how often a late answer or a death is
to blame. The count alone is not inductive: a repeat happens long after its cause.
`Owed` is the set of notices somebody has seen that wait all the same and that nobody
is about to mark; each is a debt, and `Blamed` says that repeats and debts together
never exceed the mishaps. That a scan makes no debt needs the dates: a notice says
what was so in its day, and one that is raised again speaks of a later matter than the
record it replaces (`OfItsDay`, `Later`), of which nobody was told. TLC checks
`OnceInv` on `outbox` and with more news (150298 and 12.8 million states).

Only model-checked: the liveness properties (`RunsSettle`, `RequestsAnswered`,
`StandingNeedsAreTold`, `MirrorCatchesUp`), which are out of this prover's reach.
Every other property the runs check is a theorem, under the hypotheses named here.

## Plan

1. Proofs: what holds of the ceiling when people extend (at most one call goes out for
   each refused park), and of evidence beside outside workers whose claims do not lapse.
2. Steps dispatched in parallel by one driver, and the halt of an organization that
   is suspended in the middle of a run.
3. The audit log's own hash chain, and the restore of an archive.

## Not modelled

Model backends, prompts, skills and tools (subprocesses and text: their outcomes
are choices of the driver and the intake); the planner's prompts and repairs (one
call with three outcomes); command lines and the HTTP layer's parsing and roles;
identity and sessions (hashing and lookups, sequential and tested directly);
observability (counts read from files); the store's own runs and gates of its
first release, its migrations and its chain of operational events; the browser
console. Evidence and message files are contents that differ or agree; the hashes
that pin them are taken to be injective.
