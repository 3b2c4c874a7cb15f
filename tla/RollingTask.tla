----------------------------- MODULE RollingTask -----------------------------
(***************************************************************************)
(* One task of third_two, the default agent: RollingTaskExecutor with its  *)
(* TaskStateReducer, InMemoryTaskRepository, ActionDispatcher and policy.  *)
(*                                                                         *)
(* Every HTTP request (invoke or resume) is a handler thread that works on *)
(* its own deep copy of the task row and overwrites the row at each save;  *)
(* the repository's lock covers a single get or save, never a whole loop.  *)
(* A handler's step runs up to its next write of the repository; the       *)
(* gate's several reads of the prepared request count as one.              *)
(*                                                                         *)
(* The planner (an LLM) is external: any registered action may come out of *)
(* it.  Tools (Feishu) are external: any outcome the adapter distinguishes *)
(* may come back, and a write that times out may still have been applied.  *)
(***************************************************************************)
EXTENDS Integers, Sequences, FiniteSets

CONSTANTS
    Handlers,        \* request threads that may be inside the service at once
    Records,         \* record ids of the Feishu table
    Payloads,        \* the contents a prepare action can put in a request
    PlannerActions,  \* the actions the planner chooses from in this instance
    Operations,      \* business operations the caller declares in metadata
    MaxSteps,        \* TaskState.max_steps
    RepeatLimit,     \* RollingTaskExecutor.repeat_limit
    MaxTurns,        \* bound: resume calls accepted over the task's life
    NoRecord,        \* absent record id
    NoPayload        \* absent content

WriteActions == {"create_record", "update_record", "delete_record", "change_fields"}
LocatingWrites == {"update_record", "delete_record"}
PrepareActions == {"prepare_create_record", "prepare_update_record",
                   "prepare_delete_record", "prepare_schema_change"}
ReadActions == {"read_table_schema", "read_records"}
Catalog == WriteActions \cup PrepareActions \cup ReadActions
             \cup {"generate_record_draft", "match_record", "ask_user", "finish"}
OperationOf == [prepare_create_record |-> "create_record",
                prepare_update_record |-> "update_record",
                prepare_delete_record |-> "delete_record",
                prepare_schema_change |-> "change_fields"]

ASSUME ConstantsAssumption ==
    /\ PlannerActions \subseteq Catalog
    /\ Operations \subseteq {"general", "draft_generate"}
    /\ MaxSteps \in Nat \ {0}
    /\ RepeatLimit \in Nat /\ RepeatLimit >= 2
    /\ MaxTurns \in Nat
    /\ NoRecord \notin Records
    /\ NoPayload \notin Payloads

-----------------------------------------------------------------------------
(* Data.  Absent values are records of the same shape.                     *)

MaybeRecord == Records \cup {NoRecord}
MaybePayload == Payloads \cup {NoPayload}
Arguments == [body : MaybePayload, rid : MaybeRecord]
NoArguments == [body |-> NoPayload, rid |-> NoRecord]

Decision == [name : Catalog, arguments : Arguments]
NoDecision == [name |-> "none", arguments |-> NoArguments]

PreparedOperation == [operation : WriteActions, body : MaybePayload, rid : MaybeRecord]
NoPrepared == [operation |-> "none", body |-> NoPayload, rid |-> NoRecord]

\* What _execution_hash digests; the digest is injective, so it is the data.
Hash == [decision : Decision, prepared : PreparedOperation]
NoHash == [decision |-> NoDecision, prepared |-> NoPrepared]

NoInteraction == [id |-> 0, kind |-> "none", hash |-> NoHash]

ObservationStatus == {"success", "no_match", "needs_input", "conflict",
                      "retryable_error", "terminal_error"}
\* An Observation and the artifact it publishes, if any.
Observed(status) == [status |-> status, key |-> "none", prepared |-> NoPrepared,
                     candidates |-> {}, selected |-> NoRecord]
NoObservation == Observed("success")

TerminalStatus == {"completed", "failed", "cancelled"}

\* initial_task_state: the row create_task inserts.
NewTask == [status |-> "running", step_count |-> 0,
            pending_interaction |-> NoInteraction, pending_decision |-> NoDecision,
            approved |-> {}, executed |-> {},
            last_signature |-> NoDecision, streak |-> 0,
            retry_counts |-> [a \in Catalog |-> 0], selected |-> NoRecord]

-----------------------------------------------------------------------------
VARIABLES
    operation,   \* goal.business_context.operation, fixed at creation
    task,        \* the row in InMemoryTaskRepository._tasks
    prepared,    \* latest prepared_operation artifact
    candidates,  \* records of the latest candidate_records artifact
    draft,       \* a record_draft artifact exists
    nextId,      \* fresh interaction ids
    turns,       \* resume calls accepted so far (bounded by MaxTurns)
    call,        \* per handler: where it is and its local copies
    granted,     \* ghost: what the user approved: the hash, and the record it then meant
    dispatched,  \* ghost: the write requests sent to Feishu, in order
    skipped      \* ghost: writes reported as already done

vars == <<operation, task, prepared, candidates, draft, nextId, turns, call,
          granted, dispatched, skipped>>
artifacts == <<prepared, candidates, draft>>
ghosts == <<granted, dispatched, skipped>>

Idle == [pc |-> "idle", st |-> NewTask, decision |-> NoDecision, hash |-> NoHash,
         observation |-> NoObservation, reply |-> "none"]

Init ==
    /\ operation \in Operations
    /\ task = [NewTask EXCEPT !.status = "absent"]
    /\ prepared = NoPrepared
    /\ candidates = {}
    /\ draft = FALSE
    /\ nextId = 1
    /\ turns = 0
    /\ call = [h \in Handlers |-> Idle]
    /\ granted = {}
    /\ dispatched = << >>
    /\ skipped = {}

-----------------------------------------------------------------------------
(* TaskStateReducer and the pure parts of the executor.                    *)

\* Fault: a fourth retry is allowed.
ApplyWithExtraRetry(st, d, ob) ==
    LET tries == st.retry_counts[d.name] + (IF ob.status = "retryable_error" THEN 1 ELSE 0)
        fails == \/ ob.status = "terminal_error" \/ tries > 3
                 \/ st.step_count + 1 >= MaxSteps
    IN [st EXCEPT
          !.status = IF fails THEN "failed" ELSE "running",
          !.step_count = @ + 1,
          !.last_signature = d,
          !.streak = IF st.last_signature # d THEN 1
                     ELSE IF @ < RepeatLimit - 1 THEN @ + 1 ELSE @,
          !.retry_counts = [@ EXCEPT ![d.name] = tries],
          !.selected = IF ob.selected # NoRecord THEN ob.selected ELSE @,
          !.pending_decision = NoDecision]
\* TaskStateReducer.apply.  decision_signatures is kept as the last signature and
\* the length of its run: _is_repeating looks at nothing else.
Apply(st, d, ob) ==
    LET steps == st.step_count + 1
        tries == st.retry_counts[d.name] + (IF ob.status = "retryable_error" THEN 1 ELSE 0)
        fails == \/ ob.status = "terminal_error"
                 \/ ob.status = "retryable_error" /\ tries >= 3
                 \/ steps >= MaxSteps
    IN [st EXCEPT
          !.status = IF fails THEN "failed" ELSE "running",
          !.step_count = steps,
          !.last_signature = d,
          !.streak = IF st.last_signature # d THEN 1
                     ELSE IF @ < RepeatLimit - 1 THEN @ + 1 ELSE @,
          !.retry_counts = [@ EXCEPT ![d.name] = tries],
          !.selected = IF ob.selected # NoRecord THEN ob.selected ELSE @,
          !.pending_decision = NoDecision]

\* _is_repeating: the last repeat_limit - 1 signatures all equal this one.
IsRepeating(st, d) == st.last_signature = d /\ st.streak >= RepeatLimit - 1

\* _execution_hash
ExecutionHash(d, p) == [decision |-> d, prepared |-> p]

\* The record a write would touch: the request's, else facts.selected_record_id.
TargetOf(st, d, p) ==
    IF d.name \notin LocatingWrites THEN NoRecord
    ELSE IF p.rid # NoRecord THEN p.rid ELSE st.selected

\* _write_precondition_error
WritePrecondition(st, d, p) ==
    /\ p.operation = d.name
    /\ d.name \in LocatingWrites => TargetOf(st, d, p) # NoRecord

\* required_business_decision, else the planner's choice.
ArgumentsOf(a) ==
    CASE a \in {"prepare_update_record", "prepare_delete_record"} -> 
           [body : Payloads, rid : MaybeRecord]
      [] a \in {"prepare_create_record", "prepare_schema_change"} ->
           [body : Payloads, rid : {NoRecord}]
      [] a = "match_record" -> [body : {NoPayload}, rid : MaybeRecord]
      [] OTHER -> {NoArguments}
PlannerDecisions ==
    UNION {{[name |-> a, arguments |-> g] : g \in ArgumentsOf(a)} : a \in PlannerActions}
RequiredDecision ==
    [name |-> IF draft THEN "finish" ELSE "generate_record_draft",
     arguments |-> NoArguments]
\* Fault: the policy is not consulted.
UnforcedDecisions(st) ==
    IF st.pending_decision # NoDecision THEN {st.pending_decision} ELSE PlannerDecisions
NextDecisions(st) ==
    IF st.pending_decision # NoDecision THEN {st.pending_decision}
    ELSE IF operation = "draft_generate" THEN {RequiredDecision}
    ELSE PlannerDecisions

-----------------------------------------------------------------------------
(* A handler's control flow.                                               *)

At(h, where) == call[h].pc = where

\* save_task, which overwrites the row whatever it holds by now, then the loop test.
Save(h, st) ==
    /\ task' = st
    /\ call' = [call EXCEPT ![h] =
                  IF st.status = "running" THEN [Idle EXCEPT !.pc = "loop", !.st = st]
                  ELSE Idle]

\* POST /v1/workflows/invoke: create_task, then run_until_boundary.
Invoke(h) ==
    /\ At(h, "idle")
    /\ task.status = "absent"
    /\ Save(h, NewTask)
    /\ UNCHANGED <<operation, artifacts, nextId, turns, ghosts>>

\* The loop's first check.
StopAtMaxSteps(h) ==
    /\ At(h, "loop")
    /\ call[h].st.step_count >= MaxSteps
    /\ Save(h, [call[h].st EXCEPT !.status = "failed"])
    /\ UNCHANGED <<operation, artifacts, nextId, turns, ghosts>>

\* _next_decision raises, or names an action that is not registered.
PlannerFails(h) ==
    /\ At(h, "loop")
    /\ call[h].st.step_count < MaxSteps
    /\ call[h].st.pending_decision = NoDecision
    /\ operation # "draft_generate"
    /\ Save(h, [call[h].st EXCEPT !.status = "failed"])
    /\ UNCHANGED <<operation, artifacts, nextId, turns, ghosts>>

\* Fault: no step limit.
DecideForever(h) ==
    /\ At(h, "loop")
    /\ \E d \in NextDecisions(call[h].st) :
         call' = [call EXCEPT ![h] = [@ EXCEPT !.pc = "gate", !.decision = d]]
    /\ UNCHANGED <<operation, task, artifacts, nextId, turns, ghosts>>
Decide(h) ==
    /\ At(h, "loop")
    /\ call[h].st.step_count < MaxSteps
    /\ \E d \in NextDecisions(call[h].st) :
         call' = [call EXCEPT ![h] = [@ EXCEPT !.pc = "gate", !.decision = d]]
    /\ UNCHANGED <<operation, task, artifacts, nextId, turns, ghosts>>

-----------------------------------------------------------------------------
(* The gate: what the loop does with a decision before dispatching it.     *)

StopRepeating(h) ==
    LET c == call[h] IN
    /\ At(h, "gate")
    /\ IsRepeating(c.st, c.decision)
    /\ Save(h, [c.st EXCEPT !.status = "failed"])
    /\ UNCHANGED <<operation, artifacts, nextId, turns, ghosts>>

\* The reducer runs first, and its status is overwritten.
AskUser(h) ==
    LET c == call[h] IN
    /\ At(h, "gate")
    /\ ~IsRepeating(c.st, c.decision)
    /\ c.decision.name = "ask_user"
    /\ Save(h, [Apply(c.st, c.decision, Observed("needs_input")) EXCEPT
                  !.status = "waiting_user",
                  !.pending_interaction = [id |-> nextId, kind |-> "clarify", hash |-> NoHash]])
    /\ nextId' = nextId + 1
    /\ UNCHANGED <<operation, artifacts, turns, ghosts>>

Finish(h) ==
    LET c == call[h] IN
    /\ At(h, "gate")
    /\ ~IsRepeating(c.st, c.decision)
    /\ c.decision.name = "finish"
    /\ Save(h, [Apply(c.st, c.decision, Observed("success")) EXCEPT !.status = "completed"])
    /\ UNCHANGED <<operation, artifacts, nextId, turns, ghosts>>

\* A decision the loop goes on with: neither repeating nor an interaction nor an output.
Passes(h) == /\ At(h, "gate")
             /\ ~IsRepeating(call[h].st, call[h].decision)
             /\ call[h].decision.name \notin {"ask_user", "finish"}
IsWrite(h) == call[h].decision.name \in WriteActions
Ready(h) == WritePrecondition(call[h].st, call[h].decision, prepared)
HashNow(h) == ExecutionHash(call[h].decision, prepared)

\* Fault: the observation is not applied, so no step is counted.
RejectUncounted(h) ==
    /\ Passes(h) /\ IsWrite(h) /\ ~Ready(h)
    /\ Save(h, call[h].st)
    /\ UNCHANGED <<operation, artifacts, nextId, turns, ghosts>>
RejectUnprepared(h) ==
    /\ Passes(h) /\ IsWrite(h) /\ ~Ready(h)
    /\ Save(h, Apply(call[h].st, call[h].decision, Observed("needs_input")))
    /\ UNCHANGED <<operation, artifacts, nextId, turns, ghosts>>

SkipExecuted(h) ==
    LET c == call[h] IN
    /\ Passes(h) /\ IsWrite(h) /\ Ready(h)
    /\ HashNow(h) \in c.st.executed
    /\ Save(h, Apply(c.st, c.decision, Observed("success")))
    /\ skipped' = skipped \cup
         {[hash |-> HashNow(h), target |-> TargetOf(c.st, c.decision, prepared)]}
    /\ UNCHANGED <<operation, artifacts, nextId, turns, granted, dispatched>>

\* Fault: the decision to confirm is not kept.
AskWithoutDecision(h) ==
    LET c == call[h] IN
    /\ Passes(h) /\ IsWrite(h) /\ Ready(h)
    /\ HashNow(h) \notin c.st.executed
    /\ HashNow(h) \notin c.st.approved
    /\ Save(h, [c.st EXCEPT
                  !.status = "waiting_user",
                  !.pending_interaction = [id |-> nextId, kind |-> "confirm", hash |-> HashNow(h)]])
    /\ nextId' = nextId + 1
    /\ UNCHANGED <<operation, artifacts, turns, ghosts>>
\* _wait_for_confirmation: no step is counted and the decision is kept.
AskConfirmation(h) ==
    LET c == call[h] IN
    /\ Passes(h) /\ IsWrite(h) /\ Ready(h)
    /\ HashNow(h) \notin c.st.executed
    /\ HashNow(h) \notin c.st.approved
    /\ Save(h, [c.st EXCEPT
                  !.status = "waiting_user",
                  !.pending_decision = c.decision,
                  !.pending_interaction = [id |-> nextId, kind |-> "confirm", hash |-> HashNow(h)]])
    /\ nextId' = nextId + 1
    /\ UNCHANGED <<operation, artifacts, turns, ghosts>>

\* Fault: no approval is needed.
ProceedUnapproved(h) ==
    /\ Passes(h)
    /\ IsWrite(h) => Ready(h) /\ HashNow(h) \notin call[h].st.executed
    /\ call' = [call EXCEPT ![h] =
                  [@ EXCEPT !.pc = "dispatch",
                            !.hash = IF IsWrite(h) THEN HashNow(h) ELSE NoHash]]
    /\ UNCHANGED <<operation, task, artifacts, nextId, turns, ghosts>>
Proceed(h) ==
    LET c == call[h] IN
    /\ Passes(h)
    /\ IsWrite(h) => /\ Ready(h)
                     /\ HashNow(h) \notin c.st.executed
                     /\ HashNow(h) \in c.st.approved
    /\ call' = [call EXCEPT ![h] =
                  [@ EXCEPT !.pc = "dispatch",
                            !.hash = IF IsWrite(h) THEN HashNow(h) ELSE NoHash]]
    /\ UNCHANGED <<operation, task, artifacts, nextId, turns, ghosts>>

-----------------------------------------------------------------------------
(* ActionDispatcher.dispatch: one tool or prepare call.                    *)

Yields(h, ob) == call' = [call EXCEPT ![h] = [@ EXCEPT !.pc = "persist", !.observation = ob]]

\* The dispatcher raises: the executor turns it into a terminal_error.
DispatchRaises(h) ==
    /\ At(h, "dispatch")
    /\ Yields(h, Observed("terminal_error"))
    /\ UNCHANGED <<operation, task, artifacts, nextId, turns, ghosts>>

GenerateDraft(h) ==
    /\ At(h, "dispatch")
    /\ call[h].decision.name = "generate_record_draft"
    /\ Yields(h, [Observed("success") EXCEPT !.key = "record_draft"])
    /\ UNCHANGED <<operation, task, artifacts, nextId, turns, ghosts>>

\* A failed read still replaces the candidate_records artifact, without records.
ReadTable(h) ==
    /\ At(h, "dispatch")
    /\ call[h].decision.name \in ReadActions
    /\ IF call[h].decision.name = "read_records"
       THEN \/ \E found \in SUBSET Records :
                 Yields(h, [Observed(IF found = {} THEN "no_match" ELSE "success") EXCEPT
                              !.key = "candidate_records", !.candidates = found])
            \/ \E failure \in {"retryable_error", "no_match", "needs_input", "terminal_error"} :
                 Yields(h, [Observed(failure) EXCEPT !.key = "candidate_records"])
       ELSE \E status \in {"success", "retryable_error", "no_match", "needs_input", "terminal_error"} :
              Yields(h, Observed(status))
    /\ UNCHANGED <<operation, task, artifacts, nextId, turns, ghosts>>

\* A request with validation errors is published as prepared_operation all the same.
PrepareOperation(h) ==
    LET d == call[h].decision IN
    /\ At(h, "dispatch")
    /\ d.name \in PrepareActions
    /\ \E status \in {"success", "needs_input"} :
         Yields(h, [Observed(status) EXCEPT
                      !.key = "prepared_operation",
                      !.prepared = [operation |-> OperationOf[d.name],
                                    body |-> d.arguments.body, rid |-> d.arguments.rid]])
    /\ UNCHANGED <<operation, task, artifacts, nextId, turns, ghosts>>

\* _match_record
Matched(requested, found) ==
    IF found = {} THEN Observed("no_match")
    ELSE IF requested # NoRecord
         THEN IF requested \in found
              THEN [Observed("success") EXCEPT !.selected = requested]
              ELSE Observed("conflict")
         ELSE IF \E r \in found : found = {r}
              THEN [Observed("success") EXCEPT !.selected = CHOOSE r \in found : TRUE]
              ELSE Observed("needs_input")
MatchRecord(h) ==
    /\ At(h, "dispatch")
    /\ call[h].decision.name = "match_record"
    /\ Yields(h, Matched(call[h].decision.arguments.rid, candidates))
    /\ UNCHANGED <<operation, task, artifacts, nextId, turns, ghosts>>

\* _execute_write: the request is read again here, after the gate.
ExecuteWrite(h) ==
    LET c == call[h] IN
    /\ At(h, "dispatch")
    /\ c.decision.name \in WriteActions
    /\ IF prepared.operation # c.decision.name
       THEN Yields(h, Observed("needs_input")) /\ UNCHANGED dispatched
       ELSE \E outcome \in {"success", "retryable_error", "no_match", "needs_input", "terminal_error"},
               applied \in BOOLEAN :
              /\ outcome = "success" => applied
              /\ applied => outcome \in {"success", "retryable_error"}
              /\ Yields(h, Observed(outcome))
              /\ dispatched' = Append(dispatched,
                   [hash |-> ExecutionHash(c.decision, prepared),
                    target |-> TargetOf(c.st, c.decision, prepared),
                    outcome |-> outcome, applied |-> applied])
    /\ UNCHANGED <<operation, task, artifacts, nextId, turns, granted, skipped>>

-----------------------------------------------------------------------------
(* Back in the loop: _persist_observation, then hashes, reducer and save.  *)

Persist(h) ==
    LET ob == call[h].observation IN
    /\ At(h, "persist")
    /\ call' = [call EXCEPT ![h] = [@ EXCEPT !.pc = "commit"]]
    /\ prepared' = IF ob.key = "prepared_operation" THEN ob.prepared ELSE prepared
    /\ candidates' = IF ob.key = "candidate_records" THEN ob.candidates ELSE candidates
    /\ draft' = (draft \/ ob.key = "record_draft")
    /\ UNCHANGED <<operation, task, nextId, turns, ghosts>>

\* Fault: the approval is consumed, the execution is not remembered.
ConsumedOnly(c) ==
    IF c.decision.name \in WriteActions /\ c.observation.status = "success"
    THEN [c.st EXCEPT !.approved = @ \ {c.hash}]
    ELSE c.st
\* A successful write consumes its approval.
Consumed(c) ==
    IF c.decision.name \in WriteActions /\ c.observation.status = "success"
    THEN [c.st EXCEPT !.executed = @ \cup {c.hash}, !.approved = @ \ {c.hash}]
    ELSE c.st

Commit(h) ==
    LET c == call[h] IN
    /\ At(h, "commit")
    /\ Save(h, Apply(Consumed(c), c.decision, c.observation))
    /\ UNCHANGED <<operation, artifacts, nextId, turns, ghosts>>

-----------------------------------------------------------------------------
(* POST .../resume.  A call whose interaction id is not the pending one is *)
(* refused with 400 and changes nothing, so only accepted calls are steps. *)

\* Fault: the status is not checked.
ResumeReadAnyStatus(h) ==
    /\ At(h, "idle")
    /\ turns < MaxTurns
    /\ call' = [call EXCEPT ![h] =
                  [Idle EXCEPT !.pc = "resume", !.st = task,
                               !.reply = IF task.pending_interaction.kind = "confirm"
                                         THEN "approve" ELSE "answer"]]
    /\ turns' = turns + 1
    /\ UNCHANGED <<operation, task, artifacts, nextId, ghosts>>
ResumeRead(h) ==
    /\ At(h, "idle")
    /\ turns < MaxTurns
    /\ task.status = "waiting_user"
    /\ \E reply \in {"approve", "modify", "cancel", "answer"} :
         /\ reply \in {"approve", "modify"} => task.pending_interaction.kind = "confirm"
         /\ reply = "answer" => task.pending_interaction.kind # "confirm"
         /\ call' = [call EXCEPT ![h] =
                       [Idle EXCEPT !.pc = "resume", !.st = task, !.reply = reply]]
    /\ turns' = turns + 1
    /\ UNCHANGED <<operation, task, artifacts, nextId, ghosts>>

ResumeCancel(h) ==
    /\ At(h, "resume") /\ call[h].reply = "cancel"
    /\ Save(h, [call[h].st EXCEPT !.status = "cancelled",
                                  !.pending_interaction = NoInteraction,
                                  !.pending_decision = NoDecision])
    /\ UNCHANGED <<operation, artifacts, nextId, turns, ghosts>>

\* After its save a resume re-enters run_until_boundary, which reads the row again.
SaveAndEnter(h, st) ==
    /\ task' = st
    /\ call' = [call EXCEPT ![h] = [Idle EXCEPT !.pc = "enter"]]

ResumeApprove(h) ==
    LET st == call[h].st IN
    /\ At(h, "resume") /\ call[h].reply = "approve"
    /\ SaveAndEnter(h, [st EXCEPT !.approved = @ \cup {st.pending_interaction.hash},
                                  !.pending_interaction = NoInteraction,
                                  !.status = "running"])
    /\ granted' = granted \cup
         {[hash |-> st.pending_interaction.hash,
           target |-> TargetOf(st, st.pending_decision, st.pending_interaction.hash.prepared)]}
    /\ UNCHANGED <<operation, artifacts, nextId, turns, dispatched, skipped>>

\* modify (of a confirmation) and answer (to a question) drop the kept decision.
ResumeReply(h) ==
    /\ At(h, "resume") /\ call[h].reply \in {"modify", "answer"}
    /\ SaveAndEnter(h, [call[h].st EXCEPT !.pending_interaction = NoInteraction,
                                          !.pending_decision = NoDecision,
                                          !.status = "running"])
    /\ UNCHANGED <<operation, artifacts, nextId, turns, ghosts>>

EnterLoop(h) ==
    /\ At(h, "enter")
    /\ call' = [call EXCEPT ![h] = IF task.status = "running"
                                   THEN [Idle EXCEPT !.pc = "loop", !.st = task]
                                   ELSE Idle]
    /\ UNCHANGED <<operation, task, artifacts, nextId, turns, ghosts>>

\* The process restarts: the repository is in memory, so the task is gone.
Restart ==
    /\ task.status # "lost" /\ task.status # "absent"
    /\ task' = [NewTask EXCEPT !.status = "lost"]
    /\ call' = [h \in Handlers |-> Idle]
    /\ UNCHANGED <<operation, artifacts, nextId, turns, ghosts>>

-----------------------------------------------------------------------------
Gate(h) == \/ StopRepeating(h) \/ AskUser(h) \/ Finish(h) \/ RejectUnprepared(h)
           \/ SkipExecuted(h) \/ AskConfirmation(h) \/ Proceed(h)
Dispatch(h) == \/ DispatchRaises(h) \/ GenerateDraft(h) \/ ReadTable(h)
               \/ PrepareOperation(h) \/ MatchRecord(h) \/ ExecuteWrite(h)
Resume(h) == ResumeCancel(h) \/ ResumeApprove(h) \/ ResumeReply(h)

\* What a handler inside the service does next.
Advance(h) ==
    \/ StopAtMaxSteps(h) \/ PlannerFails(h) \/ Decide(h)
    \/ Gate(h) \/ Dispatch(h) \/ Persist(h) \/ Commit(h)
    \/ Resume(h) \/ EnterLoop(h)

Next == \/ \E h \in Handlers : Invoke(h) \/ ResumeRead(h) \/ Advance(h)
        \/ Restart

Spec == Init /\ [][Next]_vars

\* A handler thread keeps running: planner and tool calls have time limits.
FairSpec == Spec /\ \A h \in Handlers : WF_vars(Advance(h))
-----------------------------------------------------------------------------
(* Properties.                                                             *)

Interaction == [id : Nat, kind : {"none", "clarify"}, hash : {NoHash}]
                 \cup [id : Nat, kind : {"confirm"}, hash : Hash]
TaskRow ==
    [status : {"absent", "running", "waiting_user", "lost"} \cup TerminalStatus,
     step_count : 0..MaxSteps,
     pending_interaction : Interaction,
     pending_decision : Decision \cup {NoDecision},
     approved : SUBSET Hash, executed : SUBSET Hash,
     last_signature : Decision \cup {NoDecision}, streak : 0..(RepeatLimit - 1),
     retry_counts : [Catalog -> Nat], selected : MaybeRecord]
Observation ==
    [status : ObservationStatus,
     key : {"none", "prepared_operation", "candidate_records", "record_draft"},
     prepared : PreparedOperation \cup {NoPrepared},
     candidates : SUBSET Records, selected : MaybeRecord]
Places == {"idle", "enter", "loop", "gate", "dispatch", "persist", "commit", "resume"}
Call == [pc : Places, st : TaskRow, decision : Decision \cup {NoDecision},
         hash : Hash \cup {NoHash}, observation : Observation,
         reply : {"none", "approve", "modify", "cancel", "answer"}]
Confirmed == [hash : Hash, target : MaybeRecord]
Dispatched == [hash : Hash, target : MaybeRecord, outcome : ObservationStatus,
               applied : BOOLEAN]

\* Every variable has the type the code gives it; in particular no handler's copy of the
\* row ever counts more than max_steps actions, the waits included.
TypeOK ==
    /\ operation \in Operations
    /\ task \in TaskRow
    /\ prepared \in PreparedOperation \cup {NoPrepared}
    /\ candidates \in SUBSET Records
    /\ draft \in BOOLEAN
    /\ nextId \in Nat
    /\ turns \in 0..MaxTurns
    /\ call \in [Handlers -> Call]
    /\ granted \in SUBSET Confirmed
    /\ dispatched \in Seq(Dispatched)
    /\ skipped \in SUBSET Confirmed

\* A write reaches Feishu only with the action, arguments and prepared request whose hash
\* the user approved: README "the confirmation is bound to the hash of the payload".
WritesWereApproved ==
    \A i \in DOMAIN dispatched : \E g \in granted : g.hash = dispatched[i].hash

\* Once a write has succeeded, the same action with the same request is never sent again
\* (executed_action_hashes), however often the planner picks it.
NoWriteAfterSuccess ==
    \A i, j \in DOMAIN dispatched :
        i < j /\ dispatched[i].outcome = "success" => dispatched[i].hash # dispatched[j].hash

\* What the user is shown is what approval releases: while a confirmation is open, its
\* hash is that of the kept decision and of the latest prepared request.
ConfirmationIsCurrent ==
    task.pending_interaction.kind = "confirm" =>
        /\ task.pending_decision # NoDecision
        /\ task.pending_interaction.hash = ExecutionHash(task.pending_decision, prepared)
        /\ prepared.operation = task.pending_decision.name

\* The row waits for the user exactly while it holds a question to answer; otherwise a
\* resume could never be accepted, or an answered question could be answered again.
WaitsWithQuestion ==
    (task.status = "waiting_user") <=> (task.pending_interaction # NoInteraction)

\* A task the backend declared draft_generate never writes and never stops to ask.
DraftTasksOnlyDraft ==
    operation = "draft_generate" => dispatched = << >> /\ task.status # "waiting_user"

\* An action that timed out is repeated at most twice in the task's whole life, whatever
\* the planner does in between: each repetition of a write may apply it once more.
RetriesAreBounded ==
    \A a \in WriteActions :
        Cardinality({i \in DOMAIN dispatched : /\ dispatched[i].hash.decision.name = a
                                              /\ dispatched[i].outcome = "retryable_error"}) <= 3

\* A completed, failed or cancelled row is never written again (until a restart loses it).
TerminalIsFinal ==
    [][task.status \in TerminalStatus => task' = task \/ task'.status = "lost"]_vars

\* Every request is answered: the loop reaches a boundary (a final state or a question),
\* because every turn of it counts a step, except the one that asks for a confirmation.
EveryCallReturns == \A h \in Handlers : (call[h].pc # "idle") ~> (call[h].pc = "idle")

\* docs/architecture.md "an update or a delete must determine one record_id", README "the
\* confirmation is bound to the payload actually executed": a write touches the record
\* that the request meant when the user approved it.
WritesHitConfirmedRecord ==
    \A i \in DOMAIN dispatched :
        [hash |-> dispatched[i].hash, target |-> dispatched[i].target] \in granted
=============================================================================
