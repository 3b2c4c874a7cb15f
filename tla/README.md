# Verification of for-mygirl in TLA+

for-mygirl is a private self-discipline diary. A person tells a chat what she did, an agent turns
the text into a draft, the person confirms it, the agent writes it to a Feishu table, and the
backend keeps a local record that can be shown, commented on and scored. This directory holds
TLA+ modules that model the parts of it whose behaviour is decided by ordering, concurrency and
failure, the TLC configurations that check them, and proofs of the most important theorems.

## 1. The system

    frontend (React)  --HTTP-->  backend (Spring Boot, MySQL)  --HTTP-->  third_two (Python, default)
                                   |  every second: the poller                or third (Python, legacy:
                                   v                                          API + worker + Redis + MySQL)
                              seven record tables                                |
                                                                            LLM planner, Feishu tools

The backend never talks to Feishu: it starts an asynchronous workflow at an agent service
("third") that answers with a session id, follows it by polling, and passes on the user's answers
with `resume`. Two services implement that contract; `third_two` is the default.

### Components

| component | source | state it keeps | operations |
|---|---|---|---|
| third_two rolling task | `third_two/executor.py`, `reducer.py`, `repository.py`, `policy.py`, `contracts.py` | one `TaskState` row per task and its artifacts, in memory | invoke, the planner/tool loop, resume (approve, modify, cancel, answer) |
| third_two actions | `third_two/actions.py`, `action_catalog.py` | none: reads artifacts | read, prepare, match, write, draft |
| third_two compatibility API | `third_two/compat/router.py`, `api.py` | none | reshapes the task into the third contract |
| third_two planner, debug, news router | `third_two/planner.py`, `debug/`, `news_focus_router.py` | none | LLM prompt and parser; presentation |
| record session | `record/RecordService.java`, `RecordWorkflowProcessor.java` | via persistence | create session, send message, confirm, resume, cancel; the poller |
| business persistence | `persistence/BusinessRepository.java` | RECORD_SESSION, RECORD_MESSAGE, RECORD_DRAFT, RECORD_WORKFLOW_TASK, DAILY_RECORD, FEISHU_SYNC, RECORD_DISPLAY | one SQL statement per method, or a few |
| third client and contract | `thirdclient/` | none | invoke, get, snapshot, resume |
| ops back office | `ops/OpsService.java` | none of its own | retrySync, lists, single-row edits |
| points | `points/` | POINT_ACCOUNT, POINT_LEDGER, rewards, redemptions | check in, score a record, add and redeem rewards |
| relationship binding | `relationship/` | bindings, people | invite, accept, reject, cancel, switch view |
| news focus | `newsfocus/`, `third/news_focus/` | daily runs and items, what was shown; feed health in Redis | refresh on schedule and in a catch-up container, prune |
| identity | `identity/` | users, sessions | log in, log out, expire, bootstrap |
| Feishu configuration | `feishu/` | credentials, table configs | save, choose the default |
| comments, traces, users, common | `comment/`, `trace/`, `user/`, `common/` | single rows | single statements |
| legacy third engine | `third/api.py`, `worker.py`, `workflow/executor.py`, `runtime/`, `storage/` | sessions, plans, steps, confirmations, idempotency keys; Redis stream, locks | submit, consume, run steps, confirm, redeliver |
| legacy third agents, plan validation | `third/workflow/*`, `third/agents/` | a cache of probe verdicts | plans from keywords or a model, plan validation, business agents, choice of a provider |
| Feishu tools | `third/Tool/`, `third/workflow/field_cache.py` | the field cache, a mock store | normalise a request, read, write, change columns |
| frontend | `frontend/src/` | React state | chat, polling loop, confirmation cards |
| migrations | `backend/src/main/resources/db/migration/` | | unique keys the handlers rely on |

### How they interact, and what is hard about it

* **third_two.** A request thread gets a deep copy of the task row, runs the loop
  *decide, gate, dispatch, persist, reduce, save* and overwrites the row at each save. The
  repository's lock covers one get or save. The planner is an LLM: any registered action may come
  out of it in any order. A write to Feishu must have been confirmed by the user, and may time
  out after Feishu has applied it. The process may restart and lose every task.
  The backend sees it through snapshots that are put together from two reads.
  *Correct means*: only approved writes; a write that succeeded is never sent again; a write
  knows its record; retries and steps are bounded; the row waits exactly while it holds a question;
  a request always returns; a final state is final.
* **Record session.** Request handlers are transactions; the poller is a series of autocommitted
  statements between which users act, `third` goes on, or the backend restarts. `third` is not
  part of any transaction: a rollback leaves a workflow running there.
  *Correct means*: one open tracking task per workflow, closed tasks stay closed, every task is
  settled, a successful write becomes a local record, `success` is never made up, a confirmed
  session has its record, sync and display rows, and the display keeps in step with the record.
* **Points, bindings, news.** Read-then-write sequences under REPEATABLE READ or without a
  transaction: balances, two-way bindings and the daily run can be overwritten by a concurrent
  request. *Correct means*: the balance is the ledger's sum and a reward is paid once; at most one
  partner, bound both ways; a ready edition is not lost and does not repeat an earlier one.
* **Legacy engine.** At-least-once delivery, a lock with a time to live, steps and idempotency
  marks in a database. *Correct means*: a session is run by one worker at a time, a step left
  running is not skipped, a Feishu write is not repeated, a message ends acknowledged or in the
  dead-letter list.

* **Feishu tables.** A request is normalised when it is validated, shown to the user, and normalised
  again by the tool that writes, each time against columns that came from a cache other workers and
  other people change. *Correct means*: what is sent is what was shown, to the record that was read;
  the columns read after a change are the changed ones; the result says how much was done.
* **LLM routes.** Threads share a cache of verdicts about the primary provider; the probe runs outside
  the lock. *Correct means*: a verdict is not used after its time, a provider that failed is left alone
  for a while, and only an outage leads to another provider.

`PROJECT.json` lists the hazards at their lines.

## 2. Modules

| module | models | role |
|---|---|---|
| `RollingTask` | `RollingTaskExecutor` with reducer, repository, dispatcher and policy | specification and properties |
| `RollingTaskProofs` | | theorems about `RollingTask` |
| `ConfirmedWrites` | what `third_two/README.md` promises about writes | abstract specification |
| `RollingTaskRefines` | | refinement mapping from `RollingTask` to `ConfirmedWrites` |
| `CompatView` | the snapshot endpoint of `third_two/compat/router.py`; extends `RollingTask` | specification and property |
| `RollingTaskRefinementProofs` | | the refinement, and theorems that need more than one of these modules |
| `MCRollingTask`, `MCCompatView` | | planner instances for TLC, without and with the view |
| `RecordSession` | `RecordService`, the record statements of `BusinessRepository`, `retrySync`, the poller; `third` as its environment | specification and properties |
| `MCRecordSession` | | fault sets for TLC |
| `RecordSessionProofs` | | theorems about `RecordSession` |
| `LegacyPlans` | keywords, plan templates, guard and validator of the legacy engine | operators, no state |
| `LegacyWorkflow` | its API, Redis stream and locks, worker and executor; extends `LegacyPlans` | specification and properties |
| `MCLegacyWorkflow` | | LLM plans and fault sets for TLC |
| `LegacyWorkflowProofs` | | theorems about `LegacyWorkflow`: types, locks, messages, sessions, and what it sends |
| `FeishuRequests` | how third's tools normalise names, values, searches and requests | operators, no state |
| `FeishuSchema` | how changes of columns are checked, and what operations do to a table; extends `FeishuRequests` | operators, no state |
| `FeishuStep` | the steps of one session with their data: agents, validation, tools, field cache, and the others who edit the table; extends `FeishuSchema`, `LegacyPlans` | specification and properties |
| `FeishuStepProofs` | | theorems about `FeishuStep` |
| `Recursion` | | lemmas on what recursive functions and folds compute, for `FeishuStepProofs` and `ServicesProofs` |
| `LlmRoutes` | `llm_routes.py`: probing, verdicts, fallbacks | specification and properties |
| `NewsFocus` | catalogue, feed health, collection, grouping, selection; the backend's refresh and storage | specification and properties |
| `Relationship` | bindings of two users, statement by statement | specification and property |
| `Points` | points, rewards and scores as transactions; extends `Relationship` | specification and properties |
| `ServicesProofs` | | theorems about `Relationship`, `Points`, `LlmRoutes` and `NewsFocus` |
| `MCServices` | | composes the last four groups, of which one moves in a behaviour; instances for TLC |
| `MCServicesProofs` | | that the composition behaves as each of its parts |

Definitions carry the source's names; `PROJECT.json` maps each to its lines. A definition whose
comment starts with *Fault:* is a plausible bug: the next definition with that bug in it. It is not
used by the specification; substituting it must make the property named for it in `PROJECT.json`
fail, which shows that the property does say something about the code.

### RollingTask

| state | code |
|---|---|
| `task` | the row `InMemoryTaskRepository._tasks[id]` (`TaskState`); `status = "lost"` after a restart |
| `prepared`, `candidates`, `draft` | the latest artifact of each key the code reads |
| `operation` | `goal.business_context.operation`, which the policy looks at |
| `call[h]` | request thread `h`: the statement it is at and its local variables (deep copy of the row, decision, hash, observation, reply) |
| `nextId`, `turns` | fresh interaction ids; accepted resumes, bounded by `MaxTurns` |
| `granted`, `dispatched`, `skipped` | ghosts: what the user approved, what was sent to Feishu, what was reported as already done. No guard reads them |

A step runs a handler up to its next repository write. `Invoke`, `ResumeRead` with
`ResumeApprove`, `ResumeReply`, `ResumeCancel` and `EnterLoop` are the two endpoints;
`StopAtMaxSteps`, `PlannerFails`, `Decide` the top of `run_until_boundary`; `StopRepeating`,
`AskUser`, `Finish`, `RejectUnprepared`, `SkipExecuted`, `AskConfirmation`, `Proceed` its gate;
`DispatchRaises`, `GenerateDraft`, `ReadTable`, `PrepareOperation`, `MatchRecord`, `ExecuteWrite`
the dispatcher; `Persist` and `Commit` the end of the loop's body; `Restart` the process.
Abstractions: texts, ids and timestamps; the hash is injective, so it is the data it digests;
`decision_signatures` is kept as the last signature and the length of its run, because
`_is_repeating` looks at nothing else. The tools are external: each returns any outcome
`_observation_from_tool` distinguishes, and a write that times out may have been applied.

**The promise.** `ConfirmedWrites` has four variables and five actions (`Ask`, `Approve`, `Decline`,
`Send`, `End`) and says nothing of planners, steps, retries or rows. `RollingTaskRefines` maps
`open` to "the row's status is not final", `asked` to the hash in the row's open confirmation,
`approved` to the hashes the user granted, and `sent` to what went to Feishu, with its outcome.
Every other step of the executor, its saves among them, is a stutter.

**The view.** `CompatView` adds `viewer`, a request for a snapshot between its two reads: `ReadRow`
takes the row's status and question in the words of the contract, `ReadArtifacts` adds the outputs and
answers. Any number of steps of the loop fit between them.

### RecordSession

| state | code |
|---|---|
| `session`, `said`, `drafts`, `tasks`, `record`, `syncs`, `display` | the seven tables' rows for one session; rows are numbered in insertion order, 0 is NULL |
| `third` | external: the workflows, by start; status, number of questions, whether it has an output |
| `cancelling` | a cancel request between its status check and its update |
| `poller` | the statement the poller is at, the tasks it selected, the task and workflow status it read |
| `faults` | rollbacks, failing calls and restarts so far, bounded by `MaxFaults` |

`CreateSession`, `SendMessage`, `Confirm`, `ResumeCancel`, `ResumeReply`, `ResumeApprove` and
`RetrySync` are the `@Transactional` handlers, one step each, because they lock the rows they
change; `cancel` is two steps, because its check takes no lock. `Rollback` is a handler whose
transaction fails after `third` accepted its call. The poller's steps are `Scan`, the first read of
a task (`DropCancelled`, `CallFails`, `StillRunning`, `Asked`, `Ended`), then one action per SQL
statement of a new draft (`ReplaceDrafts`, `InsertDraft`, `Preview`, `Mark`, `Complete`), of
`completeConfirm` (`LockDraft`, `MarkConfirming`, `InsertRecord` or `DuplicateRecord`,
`InsertSync` or `SnapshotFails`, `InsertDisplay`, `MarkConfirmed`) and of a retried sync
(`UpdateSync`, `UpdateRecord`, `UpdateDisplay`). `Crash` restarts the backend between two of them.
`ThirdAsks` and `ThirdEnds` are the agent service as the backend sees it. Abstractions: chat
replies are not kept, because no handler reads them; whether a question is a confirmation or a
clarification is left open, so both answers are possible; a confirmation id is the workflow and
the number of its question.

### LegacyWorkflow

| state | code |
|---|---|
| `session`, `plans`, `steps`, `artifacts`, `confirmations`, `idempotency` | the MySQL rows; an artifact is its key, an idempotency key is the session's text and the request that was validated |
| `messages`, `deadLetters` | the Redis stream with its pending list (delivery count, acknowledged or not) and the dead-letter stream |
| `lock` | the session lock's key. The model remembers who set it, to tell a dead holder from a slow one; the code does not, and `ReleaseLock` deletes whatever is there |
| `worker` | each worker: the call it is at, its message, plan and step |
| `request`, `answers` | the API request in progress; resume requests so far, bounded by `MaxAnswers` |
| `sent`, `faults` | ghosts: the writes sent, the faults so far (bounded by `MaxFaults`) |

Nothing here is a transaction over two rows, so a step ends at each commit and a worker can die
after it. `Invoke`, `ResumeResolve`, `ResumeStep`, `ResumeSession` and `Enqueue` are the API;
`ConsumeClaimed`, `ConsumeNew`, `AcquireLock`, `AckMessage`, `ReleaseLock` and the three `Bury`
actions are `worker.process_one`; the actions under `Execute` are `executor.run_session`. Time
is abstracted: an unacknowledged message may be claimed and a dead worker's lock may expire at any
moment. Four kinds of fault are counted separately: `crash` (a worker dies), `api` (the API dies
inside a request), `slow_claim` (a message is claimed while its worker still works on it) and
`slow_lock` (the lock expires under its holder). A property that a fault does break in the code
names that fault as its exception, so it stays meaningful under all the others: for example
`WriteSentOnce` holds under crashes and early claims and excepts only the expired lock.
`NoSessionLeftBehind` excepts an API request that dies, an expired lock, and an early claim *together
with* a dead worker: the message is claimed from a slow worker, the slow one ends and acknowledges it for
both, the other runs the session again and dies. No run has two faults, so only the proof, which is about any
number of them, shows that this exception is needed and that no other is.
`LegacyPlans` keeps of a step its kind, what it calls, the artifacts it reads and the one it saves,
which is all the validator and the executor look at. A text is what it says: the set of the keyword
lists it has a word of. `DetectTemplate` looks at the lists in the order of the code, `GuardLlmPlan`
replaces an LLM's plan by a template's where the words ask for it, and the validator's checks of the
text are among its conditions.

### FeishuStep, FeishuSchema, FeishuRequests

| state | code |
|---|---|
| `feishu` | the table: columns in order, and each record's values by column. The process's mock store, if the session is configured for it |
| `cache`, `elsewhere` | the rows of the field cache; the list another worker has read and will save |
| `job` | what was asked: template, text, and whether a model or Feishu is configured |
| `step` | the step that runs: its place, what it listed, its field context, the operations to carry out and how many are done |
| `artifacts`, `standing` | the session's artifacts, its status |
| `meddled`, `faults` | what others did and which calls failed so far, bounded by `MaxMeddling`, `MaxFaults` |
| `shown`, `sent` | ghosts: the operations the user was asked about, with the columns they were made from; the operations sent |

Where `LegacyWorkflow` has messages, locks and crashes and no data, `FeishuStep` has the data of one
session that is not interrupted. Its actions are the read of the cache or of the table, the business
agents (by a model or by rules), the validation step, the question and its answer, the tools one call
to Feishu at a time, and the write to the cache after a change. `Meddle` is someone who edits the
table, `ReadElsewhere` and `SaveElsewhere` another worker that reads the columns and later caches them, `CallFails` a
call that Feishu refused or whose answer was lost. Names are opaque: three constants say what
the alias table, the configured map and `strip` do to them. A value keeps its Python type and what its
text can be read as (a number, a truth value, a date), which is what the conversions look at.

### LlmRoutes

`verdicts` is the cache (provider, status, until when, and when its probe began), `calling[c]` what a
thread does (looking, probing, calling the primary provider or one of the fallbacks), `clock` the
monotonic clock, `reported` a ghost that remembers a reported failure. A look and a store are one step
each, because the lock covers them; the probe between them is not. Exceptions are what the
classification looks at: status code, class name, text.

### NewsFocus

| state | code |
|---|---|
| `minute`, `zone` | now, in Shanghai, where days are counted; how far the container's time is behind |
| `catalog`, `health` | Redis: the imported feeds, and which are left alone after failures |
| `runs`, `remembered` | the daily editions with their items; what was shown, by fingerprint and local time |
| `refresher[r]` | a refresh: its date, what it must leave out, what it collected and chose, the status it read before it records a failure |
| `late` | ghost: an edition was published later than on its day. No guard reads it |

A refresh asks what was shown in the week before its day, takes or imports the catalogue, collects (every feed that does
not rest answers or fails), leaves out what was shown and what is older than 72 hours, groups the rest (today's first, 20 of a
category), has a model choose and publishes; if nothing is left, or the model fails, it records that. Between any two of
these, the other refresher may do any of its steps and time goes on. Entries of the same minute come in any order. A
model returns all candidates, the first of them twice and a stranger, or nothing; what the code filters out of its answer
is filtered.

### Relationship and Points

`bindings` has one entry for each direction of a pair, `views` what each person looks at, `tabs[t]` the
request in progress. A relationship request is no transaction: it reads what it decides on in one step
and writes one direction of a binding in each of the next, so that other requests, or a crash, come
between. In `Points` a request is a transaction under repeatable read: its snapshot is one step, its
writes and commit another, and the difference a new score books is taken from the snapshot. `balance`,
`ledger`, `rewards`, `redemptions` and `comments` are the tables. Three ghosts tell the cases in which
the code does not keep what the properties ask for: `overlapped` (a request began while another was
under way), `crashes`, and `overwritten` (a score was changed that was not the one read).

## 3. What the runs check

| run | question | bounds |
|---|---|---|
| `rolling_update` | Does the executor implement `ConfirmedWrites`? May an update be sent that was not approved? Is the question current, and can a user act on every snapshot, wherever its two reads fall? Is a final row ever rewritten? | one request at a time, 2 records, 5 steps, 3 answers, tasks of both operations |
| `rolling_retry` | Can a write be repeated after success or more often than the retry limit allows, does a draft task ever write, does every request return? | 7 steps: a prepare, a confirmation, three timeouts and a repetition fit |
| `rolling_confirmed_record` | Does a write hit the record that was confirmed? **Violated**, see below | 2 records, 7 steps |
| `record_session` | Do the rows of a session stay consistent under every interleaving of user, poller, `third` and two faults of any kind? | 2 workflows with a question each, 1 message, 1 confirmation, 1 retry |
| `record_liveness` | Is every tracked task settled and every successful write recorded, and does the display keep in step? | the same, polls of one task, one restart |
| `record_untracked_answer` | Has every answer its own tracking task? **Violated** | 2 questions in a workflow |
| `record_cancel_race` | Can a confirming session be cancelled? **Violated** | no faults |
| `legacy_delivery` | Are writes kept behind their questions and sent once, is a session run by one worker, is no session or message left behind? | 2 workers, 1 session, 2 deliveries, 2 answers, one fault of any kind; any text of three wordings (a write, columns and then a write, the deletion of a column); plans from the templates these lead to and four LLM variants |
| `legacy_refused` | Is a refused write never sent? **Violated** | one crash, 1 answer |
| `legacy_early_write` | Does every accepted plan ask before it writes? **Violated** | 1 worker, no faults |
| `legacy_same_request` | Do two sessions with the same request write it once? **Violated** | 2 sessions, 2 workers, no faults |
| `services` | Is what is sent to a table what was shown, and does the result say what was done? Are verdicts about a provider fresh and its failures heeded? Does a ready edition stay, and does it leave out earlier days? Are bindings mutual, accounts the sum of their ledgers, rewards paid once? | one part moves at a time: a table of 2 columns and 2 records, one edit by others, one failing call; 2 threads, a clock of 2; 2 refreshers, 2 refreshes over two days; 3 persons, 4 requests, 2 at once, one crash |

The bounds are the smallest at which the cases that matter occur: two records are what a match, a
second match and an ambiguous match need; two workflows are what an edit racing a confirmation
needs, or a retry racing one; a poll of one task is what starvation needs;
two workers, two deliveries and one fault are what a redelivery, a lock that is refused and a buried
message need, and the second answer covers a repeated or contradicting one. The LLM variants are the
create plan with a renamed request, without its confirmation, without an artifact it reads, and with
a second write, and the template that changes a field and then creates a record (two questions, two
writes). For a table, one edit by others and one failing call reach every pair of steps an edit or a
failure can come between, since a session is a fixed sequence of at most a dozen steps; the requests
are chosen so that each conversion, each name (alias, mapped, padded) and each place of a rejection occurs.
Two threads and two clock ticks are what a probe that ends after a failure, or after its verdict's time, needs;
two refreshes are a race or a repetition, in the afternoon, at midnight or on the next morning; four
requests, two at once, are an invitation, its acceptance and another request that overlaps either, and
a second start with a bound pair leaves all of them for rewards and scores. Every
action of the specifications fires in the passing runs. `CHECK_DEADLOCK FALSE` is set because a
finished task or a settled session really stops.

**Exceptions the properties name.** A property of `services` that the code breaks in a known case
names the case. `BindingsAreMutual` is about requests that did not overlap and did not crash;
`AccountsAddUp` excepts a score that was overwritten by another request after it was read;
`ReadyDayStays` excepts an edition published between another refresh's look and its write;
`UnhealthyIsSkipped` lets a probe that ends after a failure was reported lift it; `LeavesOutEarlierDays`
is about the six days before, excepts everything after an edition that was published later than on its day, and
asks for an edition of its own day only where the container's time is Shanghai's; `WritesAsConfirmed`,
`SchemaAfterIsCurrent` and `AcceptedChangesApply` except columns that others changed in between. No
document rules these cases out, so they are not listed as disagreements; the model contains them all.

**Fairness.** `RollingTask!FairSpec` is weak fairness of a handler's next step: planner and tool
calls have time limits, and a thread is not suspended otherwise. It is not assumed that a user
resumes. `RecordSession!FairSpec` is weak fairness of the poller (the scheduler runs it every
second) and of each workflow of `third` (which limits its steps and calls). Nothing is assumed of
users, rollbacks or crashes, which are bounded. For `LegacyWorkflow` the end of every message is a
safety question: `NoMessageStuck` says that something can be done as long as a message is not
acknowledged, and each delivery counts towards the limit that buries it.

### Disagreements with the documents

1. `rolling_confirmed_record`: the hash the user approves covers the decision and the prepared
   request, while a request without a record id falls back to `facts.selected_record_id` at the
   moment of the write. Match r1, confirm, time out, match r2: the old approval
   releases a write to r2. `third_two/README.md:46` and `docs/architecture.md:51` say otherwise.
2. `record_untracked_answer`: a client sends the same action id for each question of a workflow
   and the task of the first answer is found again, closed: nothing follows the workflow any more.
   `docs/数据库/codex.md:464` says each resume saves a task.
3. `record_cancel_race`: `cancel` overwrites a session that a concurrent `confirm` has moved to
   `confirming`. `docs/接口文档.md:911` forbids it.
4. `legacy_refused`: a worker dies after its session began to wait and before it acknowledged its
   message; the user refuses; the message is delivered again, `_next_pending_step` passes over
   the failed confirm step and the write is sent. `third/README.md:427` says a refused workflow
   does not write.
5. `legacy_early_write`: the validator asks that a write plan contains a confirm step, not where it
   stands. `third/README.md:413` puts the gate before every write.
6. `legacy_same_request`: an idempotency key that is running stops nobody.
   `third/docs/workflow-db-er.md:331` says the second task waits.

## 4. What is proved

The theorems hold for every value of the constants: any number of records, payloads, steps, workflows, sessions,
workers, messages, persons, requests, threads, refreshes or columns, any planner, any limits, and any number of
faults of every kind. What they assume:

* Each module's assumptions on its constants, which TLC evaluates in every run that extends the module. The
  `ConstantsAssumption` of `RollingTask`, `RecordSession` and `LegacyWorkflow` says that limits are positive, bounds
  are numbers and absent values are distinct from present ones; `LlmPlansAssumption` that what an LLM returns parses as
  a plan; `NamesAssumption` and `JobsAssumption` that the name maps are functions and that a job is a request;
  `StartsAssumption` that the rows a behaviour starts from are rows that requests, one after the other, can have left
  (bindings go both ways, nobody has two, each person has a view, the rewards there are not redeemed yet), and that these requests
  count against the bound; `PersonsAssumption` that nobody has the name of the absent person;
  `RouteAssumption` that times to live are positive; `FailuresAssumption` that the client library
  does not raise a refusal's class for a status of 500 or more;
  `TimeAssumption` that times are numbers and the container's clock is at most a day behind Shanghai's;
  `FeedsAssumption` that a feed's entries are a list; `WordsAssumption` that whatever a person, a model or somebody else
  calls a column is one of `Names`, of which there are finitely many; `AmountsAssumption` that a user's score and the LLM's are numbers from 0 and a
  reward costs something, which the controllers and `PointService` see to; `InitialTableAssumption` that a table gives each
  of its columns an id and a name of its own, as Feishu does. `FeishuBounds`, `RouteBounds`, `NewsBounds` and
  `RelationshipBounds` say of the model's own bounds that they are numbers, and that the clock starts within its bound.
* `OneAtATime` (column *handlers*: one): requests of one task do not overlap. It is an assumption about the
  callers: the service does not enforce it. With two handlers the properties that assume it fail, because the
  repository has no compare-and-set; the hazards list these cases.
* `NamesSettle`, a hypothesis of `WhatWasConfirmedIsSent` only: the configured map leaves its own results alone. The map is
  empty unless the environment or the table's configuration says otherwise (`third/agents/shared/config.py:185` and `:211`), and
  then this says that the alias table leaves its own results alone, which it does; `MCServices` assumes it of its instance, so that TLC evaluates it. It is needed: with a map
  from `memo` to `note` and from `note` to `task`, TLC finds a request that is shown with `note` and sent with `task`.
* `LlmAsksFirst`, a hypothesis of `WritesWereAnswered` only: an LLM's plan that passes the validator asks before it
  writes. The templates do, which is proved; the validator does not see to it, which is what `legacy_early_write` shows.
  `SentAfterAnswers` needs no such hypothesis: every question that *is* in front of a sent write was answered.

| theorem | module | handlers | says |
|---|---|---|---|
| `TypeCorrect` | `RollingTaskProofs` | any | `[]TypeOK` |
| `OnlyApprovedWrites` | `RollingTaskProofs` | one | `[]WritesWereApproved` |
| `ExecutedOnce` | `RollingTaskProofs` | one | `[]NoWriteAfterSuccess` |
| `RetriesStop` | `RollingTaskProofs` | one | `[]RetriesAreBounded` |
| `WaitingHasQuestion` | `RollingTaskRefinementProofs` | any | a row waits exactly while it holds a question |
| `DraftsOnly` | `RollingTaskRefinementProofs` | any | `[]DraftTasksOnlyDraft` |
| `ExecutorKeepsPromise` | `RollingTaskRefinementProofs` | one | `KeepsPromise`: the executor implements `ConfirmedWrites` |
| `QuestionIsCurrent` | `RollingTaskRefinementProofs` | one | `[]ConfirmationIsCurrent` |
| `EndedStaysEnded` | `RollingTaskRefinementProofs` | one | `TerminalIsFinal` |
| `ViewKeepsTask` | `RollingTaskRefinementProofs` | any | `ViewSpec => Spec`, so all of the above hold of a task that is looked at |
| `SnapshotsAreSound` | `RollingTaskRefinementProofs` | one | `[]SnapshotsCanBeActedOn` |
| `RowsAreTyped` | `RecordSessionProofs` | | `[]TypeOK` of `RecordSession` |
| `ConfirmationIsComplete` | `RecordSessionProofs` | | `[]ConfirmedIsComplete` |
| `OneTracker` | `RecordSessionProofs` | | `[]OneTrackerPerWorkflow` |
| `SuccessIsGenuine` | `RecordSessionProofs` | | `[]SuccessIsReal` |
| `ClosedForGood` | `RecordSessionProofs` | | `ClosedTasksStayClosed` |
| `DisplayKeepsStep` | `RecordSessionProofs` | | `[]DisplayFollowsRecord` |
| `TypeIsCorrect` | `LegacyWorkflowProofs` | | `[]TypeOK` of `LegacyWorkflow` |
| `OneWorkerRuns` | `LegacyWorkflowProofs` | | `[]OneWorkerPerSession` |
| `QueueIsKept` | `LegacyWorkflowProofs` | | `[]QueueInv`: runs have locks, buried messages are copied, sessions go on |
| `NobodyIsLeftBehind` | `LegacyWorkflowProofs` | | `[]NoSessionLeftBehind` |
| `SentAfterAnswers` | `LegacyWorkflowProofs` | | a sent write is one of a stored plan, and the questions before it were answered |
| `WritesWereAnswered` | `LegacyWorkflowProofs` | | `[]NoWriteWithoutAnswer`, if the LLM asks first |
| `WritesAreSentOnce` | `LegacyWorkflowProofs` | | `[]WriteSentOnce` |
| `SuccessIsFinal` | `LegacyWorkflowProofs` | | `[]SuccessIsNotRepeated` |
| `SessionsAreTyped` | `FeishuStepProofs` | | `[]FeishuTypeOK` |
| `ReportsAreTrue` | `FeishuStepProofs` | | `[]ReportCountsApplied` |
| `MockIsNeverLeft` | `FeishuStepProofs` | | `[]MockStaysMock` |
| `TargetsWereRead` | `FeishuStepProofs` | | `[]TargetWasRead` |
| `ColumnsAreCurrent` | `FeishuStepProofs` | | `[]SchemaAfterIsCurrent` |
| `AcceptedChangesGoThrough` | `FeishuStepProofs` | | `[]AcceptedChangesApply` |
| `WhatWasConfirmedIsSent` | `FeishuStepProofs` | | `[]WritesAsConfirmed`, if names settle |
| `RoutesAreTyped`, `NewsIsTyped`, `CoupleIsTyped` | `ServicesProofs` | | the type invariants of `LlmRoutes`, `NewsFocus`, and `Points` with `Relationship` |
| `VerdictsAreFresh` | `ServicesProofs` | | `VerdictIsFresh` of `LlmRoutes` |
| `UnhealthyPrimaryIsSkipped` | `ServicesProofs` | | `UnhealthyIsSkipped` of `LlmRoutes` |
| `RefusalsEndTheCall` | `ServicesProofs` | | `[]RefusalsAreFinal` of `LlmRoutes` |
| `ReadyDaysStay` | `ServicesProofs` | | `ReadyDayStays` of `NewsFocus` |
| `EarlierDaysAreLeftOut` | `ServicesProofs` | | `LeavesOutEarlierDays` of `NewsFocus` |
| `BindingsStayMutual` | `ServicesProofs` | | `[]BindingsAreMutual` of `Relationship`, with the requests of `Points` |
| `RewardsPaidOnce` | `ServicesProofs` | | `[]RewardsArePaidOnce` of `Points` |
| `AccountsBalance` | `ServicesProofs` | | `[]AccountsAddUp` of `Points` |
| `PartsGoTheirWay` | `MCServicesProofs` | | `Spec => FeishuSpec /\ RouteSpec /\ NewsSpec /\ CoupleSpec`: each theorem about a part holds in the run `services` |
| `PartsAreTyped` | `MCServicesProofs` | | `[]TypeOK` of `MCServices` |

The inductive invariants, and why each is needed:

* `IndInv` (`TypeCorrect`). No copy of the row ever counts more than `max_steps` actions. `TypeOK` is
  not inductive: that `Apply` stays within `MaxSteps` needs that a handler past the loop's first check
  holds a copy below the limit, and that a handler about to write holds a hash (`Midway`).
* `ApprovalInv` (`OnlyApprovedWrites`). Every hash in a row's or copy's `approved` set was granted by
  the user, and a handler at a write holds a granted hash *equal to the hash of the request that is
  stored now*: the dispatcher reads the prepared request a second time, so the approval is worth
  something only because no other handler can replace the request in between.
* `ExecutedInv` (`ExecutedOnce`). The hashes of all writes that succeeded are in the `executed` set of the row,
  or of the copy about to be saved, and a handler at a write holds a hash outside it.
* `RetryInv` (`RetriesStop`). The row, or the one copy that is being worked on, has counted every write that timed out,
  but for the one whose answer is about to be committed, and would not go on after the third (`Counted`, `AlmostCounted`).
* `QuestionInv` (`WaitingHasQuestion`). The row *and every copy a handler holds* wait exactly while they hold a
  question; that holds under overlapping requests because every save writes both fields of one copy.
* `RowInv` (`ExecutorKeepsPromise`, `QuestionIsCurrent`, `EndedStaysEnded`). A handler that works holds
  the row itself, not an old copy of it (`Serves`): its row is in use and asks nothing; an open confirmation is about
  the request that is stored; and nothing granted is forgotten by the row while it lives. From these each action
  is one action of `ConfirmedWrites`, or none.
* `DraftInv` (`DraftsOnly`). In a draft task no copy waits or keeps a decision, and a decision past the gate is
  one of the drafting actions.
* `ViewInv` (`SnapshotsAreSound`). Question numbers only grow (`Numbered`), so a question that is still open is the
  one the viewer read (`Honest`), and since an open confirmation is current the artifacts read later belong to it
  (`Complete`); a draft task finishes only with its draft (`Drafted`), and drafts are never removed.
* `IndInv` of `RecordSession` (all its theorems). The poller acts on what it read some statements ago, so
  the invariant is about what nobody can take from it meanwhile. The tasks it has selected, and the one it is at, are
  still pending (`PollerOK`), because users close only tasks that wait for them; so no closed task is touched. A
  workflow it saw succeed still has, and the sync row of a retry is about the retry's workflow (`RowFine`); so
  what it writes is `Justified`. And `WrittenOK` says which rows `completeConfirm` has written when it is at each of its
  statements, which is what `confirmed` needs. A new task follows a new workflow, or the one whose open task
  the same step closes; so no workflow has two.
* `DisplayInv` (`DisplayKeepsStep`). Which of the two writes is missing at each statement between them (`Shown`); and
  a retry is of a record that exists (`RecordFirst`), so no display row is updated that was never inserted.
* `QueueInv` (`LegacyWorkflowProofs`). `TypeInv` is `TypeOK` with what refers to what: a worker's step is a step of
  a stored plan, a request's confirmation exists and was decided. `LockInv`: a worker inside the locked section holds the lock,
  unless one expired under its holder; `OneWorkerRuns` follows. `HolderInv`: a message that is held is pending, and
  held by one worker unless it was claimed early. `BuriedInv`: a message is copied to the dead letters before it
  is acknowledged. `LeftInv` says for each status what still comes: a queued session has a message, a running
  one a message or a worker that runs it, a waiting one a question that is not approved, a request that is at work on it, or a message.
  The message that counts is *another* than the one its worker is about to acknowledge; that is
  the difference between a redelivery that helps and one that does not.
* `AnswersInv`, `StepsInv`, `SentInv` (`SentAfterAnswers`, `WritesWereAnswered`). A confirm step that is not open was
  answered, by the API or because a later delivery found it decided; a worker that carries out a step has passed no
  open question; so every entry of `sent` is a write behind answered questions. Answers and plans never go away (`Grows`).
* `OnceInv` (`WritesAreSentOnce`). The step of a sent write is not open, and a worker on its way to a write is at one that
  was not sent and has marked it as running. A session has one plan, because the planner runs only where no plan is stored.
* `NotedInv` (`SuccessIsFinal`). A success is in the idempotency table, or the worker that got it is between the answer
  and the note; that worker is the only one in the session, by `LockInv`.
* `SessionInv` (`FeishuStepProofs`). The data of a session, by the place it is at. `ByPlan`: its artifacts are exactly
  those of the steps before the current one, and every template's list of steps reads what an earlier step saved, asks before
  it writes, and reads the columns after it changed them. `Drafted`, `Matched`, `CheckedRecords`, `CheckedChange`: what an
  agent or the validation saved has the form the next one relies on. `AskedFor`: what the user was shown is what the
  tool will carry out. `SentRight`: what was sent, followed by what is left, is what was shown, and all but the last call so far
  succeeded; `ReportsAreTrue` is that, read at the end of the tool. `MockInv`, `Targets` and `ColumnsInv` follow one thing each through all the steps:
  that a request says mock, that a target's record id was in this session's search result, that the cache holds
  the table's columns after a change, or is empty.
* `ChangeInv` (`AcceptedChangesGoThrough`). As long as nobody else has touched the table and the cache had the columns, every
  copy of them, in the cache, in the artifacts and in the worker's hands, shows the columns as they were before the change
  (`KeptAsGiven`). So the plan that was accepted was made of the columns the tool finds. Half way through the list
  (`HalfWay`) the table has the names that the validation planned with, and every column that a later operation names is
  still there (`LeftToSend`); so no operation meets a column that is gone or a name that is taken. What the
  validation accepts comes down to `FollowsUp`, one condition on each operation and the names planned by those before it.
* `WordsInv`, `RequestsSettle`, `AsShown`, `SentAsShown` (`WhatWasConfirmedIsSent`). Every name in a draft, a stored request or a copy of the
  columns is one of `Names`, and every copy of the columns is one that a table can have (`WordsInv`). A request that passed
  validation has nothing left to normalise in the columns it was checked against (`RequestsSettle`); so, as long as those are the columns the tool reads,
  the tool's second pass gives back what the user was shown (`AsShown`), and what is sent and what is left to send are that,
  in its order (`SentAsShown`).
* `RouteInv` (`LlmRoutes`). A healthy verdict ends `ProbeTtl` after its probe *began*, and as long as a reported failure
  counts, the cache says unhealthy, unless a probe ended since. What a caller has tried
  failed without a refusal, and of the providers it has passed every ready one was tried (`InTurn`).
* `FocusInv` (`ReadyDaysStay`, `EarlierDaysAreLeftOut`). The day of a refresh is not after today (`DaysArePast`), so what is
  pruned by it is older than yesterday. Unless an edition came out late: whatever an edition of the last week shows is
  remembered with a time of that edition's own day (`DaysRemembered`); and a refresh under way leaves out all that the editions of the
  six days before *its* day show now (`DaysLeftOut`), first in the list it sends along and then in what it chose, though others publish
  meanwhile. Each half needs the other: a stamp is lost only if a later edition shows the item again. That the choice
  shows nothing it was to leave out follows through filter, groups and selection, each of which only picks from
  what it was given (`PickedAreWanted`).
* `BindingInv` (`BindingsStayMutual`). While requests neither overlap nor die, one request is under way; between the two
  directions of an acceptance the pair is half bound, and writing the other direction makes it whole (`Relies`).
* `RewardInv` (`RewardsPaidOnce`). A reward is redeemed, has its ledger row and is counted once, or none of the three
  (`PaidOnce`). A second transaction whose snapshot still shows the reward as active is refused by the ledger's unique key;
  nothing in the snapshot itself would stop it.
* `AccountInv` (`AccountsBalance`). Both the sum of the ledger and the sum of the scores are taken over sets that change by one
  entry (`OneElementLess`). The ledger's unique keys see to it that one request adds one entry; between the two statements of a
  transaction, and for the score that a request has replaced but not yet paid for, the invariant says which of the two sums
  is ahead, and by how much.

What recursive functions and folds compute is proved in `Recursion`: a property of numbers that fails somewhere fails for a
least number, and a set with one element more is folded as the set without it and then that element. Both are shown from
the existence of least elements, for one set at a time, so they need no operator as a parameter.

Each proof has one step per action of `Next`; lemmas for a save, a reply and the loop's steps are
stated once. TLC checked each invariant first on the instances of section 3.

Where a proof needed a property to say more, or less, the model was changed and checked again.
`NoSessionLeftBehind` was one: it did not except an early claim together with a crash, and `LeftInv` could not be proved
without it. `LeavesOutEarlierDays` was another: as it first stood it was true within the bounds of `services` and no further.
A refresh that begins before midnight and publishes after it stamps what it shows with the new day, or stamps again what the day before
shows; a later refresh of the new day then does not leave that out. Two days and three refreshes of one feed are enough for TLC to find it, so
the property now names the case (`late`) and the week after which things are forgotten; with these, and the same three
refreshes over three days in three zones, TLC finds nothing, and the theorem says why. `NewsIsTyped` found one in the model itself:
a refresh that had seen a ready edition, and then had nothing to publish, brought that edition's row back without a status if
another refresh had dropped it meanwhile. The code writes no row in that case, and now neither does `Recorded`.

Only model-checked, and why:

* All liveness, and `NoMessageStuck`: fairness and ENABLED are beyond the prover. Every other invariant and action
  property of a passing run is stated by a theorem.

## 5. What is not modelled

* Prompts, planner quality, JSON reshaping, message texts, DTOs, styling: no control state.
* Feishu, the LLM, feeds and XML, MySQL, Redis and the HTTP libraries: external, as the outcomes their
  callers distinguish.
* Several backend instances polling at once: the deployment runs one.
* Overlapping requests of one `third_two` task are in the module and in three theorems, but not in the runs.
* In `CompatView`: a question of nothing but blanks, which the executor keeps and the contract refuses;
  timelines and the deprecated endpoints, which only read.
* In `LegacyWorkflow`: a database or Redis that is down for a while, the `max_steps` limit of 50
  (no plan comes near it), the in-memory fallback for one process, and the read-only endpoints. The
  snapshot endpoint answers 500 while a session waits whose confirmation was just resolved.
* In `FeishuStep`: a session interrupted between two steps (that is `LegacyWorkflow`), more than one page of a search
  (the code reads one), and the review template, whose build function does not exist in the code, so naming it
  only fails the plan.
* `Points` and `Relationship`: the back office, which may edit any row.
* Not modelled at all: identity (sessions that expire or are revoked: single rows), the Feishu configuration (one
  transaction, and a library's encryption), the planner's prompt and parser, debug pages, dashboards, and the frontend
  beyond the ids it sends back.

## 6. Plan

Done: `RollingTask` with its refinement, view and proofs; `RecordSession` and its proofs; `LegacyPlans`,
`LegacyWorkflow` and its proofs; the Feishu tools, LLM routes, news, bindings and points, and proofs of all their
safety properties. What remains, in order of importance:

1. `ConfirmedWrites` as the environment of `RecordSession` in place of `third`.
2. `ChatClient`: the frontend's polling loop and in-flight guard against the record API.
3. `Identity`, `FeishuConfig`.
