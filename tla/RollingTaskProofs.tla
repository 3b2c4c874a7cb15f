-------------------------- MODULE RollingTaskProofs --------------------------
(***************************************************************************)
(* Theorems about RollingTask, for every value of its constants: the types *)
(* and the step bound for any number of concurrent handlers, and, when the *)
(* requests of a task do not overlap, that only approved writes are sent.  *)
(***************************************************************************)
EXTENDS RollingTask, FiniteSetTheorems, TLAPS

\* What a handler's place says about its local copies.
Midway(c) ==
    /\ c.pc \in {"gate", "dispatch", "persist", "commit"} =>
         /\ c.decision \in Decision
         /\ c.st.step_count < MaxSteps
    /\ c.pc \in {"dispatch", "persist", "commit"} /\ c.decision.name \in WriteActions =>
         c.hash \in Hash
    /\ c.reply = "approve" => c.st.pending_interaction.kind = "confirm"

IndInv == TypeOK /\ \A h \in Handlers : Midway(call[h])

-----------------------------------------------------------------------------
(* Types of the operators.                                                 *)

\* The reducer returns a task row, and counts one step.
LEMMA ApplyType ==
    ASSUME NEW st \in TaskRow, st.step_count < MaxSteps,
           NEW d \in Decision, NEW ob \in Observation
    PROVE  Apply(st, d, ob) \in TaskRow
<1> DEFINE steps == st.step_count + 1
           tries == st.retry_counts[d.name] + (IF ob.status = "retryable_error" THEN 1 ELSE 0)
           run == IF st.last_signature # d THEN 1
                  ELSE IF st.streak < RepeatLimit - 1 THEN st.streak + 1 ELSE st.streak
           chosen == IF ob.selected # NoRecord THEN ob.selected ELSE st.selected
<1>1. d.name \in Catalog
  BY DEF Decision
<1>2. tries \in Nat
  BY <1>1 DEF TaskRow
<1>3. steps \in 0..MaxSteps
  BY ConstantsAssumption DEF TaskRow
<1>4. run \in 0..(RepeatLimit - 1)
  BY ConstantsAssumption DEF TaskRow
<1>5. chosen \in MaybeRecord
  BY DEF TaskRow, Observation
<1>6. [st.retry_counts EXCEPT ![d.name] = tries] \in [Catalog -> Nat]
  BY <1>1, <1>2 DEF TaskRow
<1> HIDE DEF steps, tries, run, chosen
<1>7. Apply(st, d, ob) =
        [st EXCEPT
          !.status = IF \/ ob.status = "terminal_error"
                        \/ ob.status = "retryable_error" /\ tries >= 3
                        \/ steps >= MaxSteps
                     THEN "failed" ELSE "running",
          !.step_count = steps,
          !.last_signature = d,
          !.streak = run,
          !.retry_counts = [st.retry_counts EXCEPT ![d.name] = tries],
          !.selected = chosen,
          !.pending_decision = NoDecision]
  BY DEF Apply, steps, tries, run, chosen
<1> QED
  BY <1>3, <1>4, <1>5, <1>6, <1>7 DEF TaskRow, TerminalStatus

\* The empty values are of their types.
LEMMA EmptyTypes == /\ NewTask \in TaskRow
                    /\ Idle \in Call
                    /\ NoArguments \in Arguments
                    /\ NoInteraction \in Interaction
                    /\ \A s \in ObservationStatus : Observed(s) \in Observation
<1>1. NoArguments \in Arguments
  BY DEF NoArguments, Arguments, MaybePayload, MaybeRecord
<1>2. NoInteraction \in Interaction
  BY DEF NoInteraction, Interaction
<1>3. NewTask \in TaskRow
  BY <1>2, ConstantsAssumption DEF NewTask, TaskRow, MaybeRecord
<1>4. \A s \in ObservationStatus : Observed(s) \in Observation
  BY DEF Observed, Observation, MaybeRecord
<1>5. NoObservation \in Observation
  BY <1>4 DEF NoObservation, ObservationStatus
<1>6. Idle \in Call
  BY <1>3, <1>5 DEF Idle, Call, Places
<1> QED
  BY <1>1, <1>2, <1>3, <1>4, <1>6

\* The planner and the policy return decisions.
LEMMA DecisionTypes == PlannerDecisions \subseteq Decision /\ RequiredDecision \in Decision
<1>1. ASSUME NEW a \in PlannerActions PROVE ArgumentsOf(a) \subseteq Arguments
  <2>1. [body : Payloads, rid : MaybeRecord] \subseteq Arguments
    BY DEF Arguments, MaybePayload
  <2>2. [body : Payloads, rid : {NoRecord}] \subseteq Arguments
    BY DEF Arguments, MaybePayload, MaybeRecord
  <2>3. [body : {NoPayload}, rid : MaybeRecord] \subseteq Arguments
    BY DEF Arguments, MaybePayload
  <2>4. {NoArguments} \subseteq Arguments
    BY EmptyTypes
  <2> QED
    BY <2>1, <2>2, <2>3, <2>4 DEF ArgumentsOf
<1>2. PlannerDecisions \subseteq Decision
  <2> SUFFICES ASSUME NEW a \in PlannerActions, NEW g \in ArgumentsOf(a)
               PROVE  [name |-> a, arguments |-> g] \in Decision
    BY DEF PlannerDecisions
  <2> QED
    BY <1>1, ConstantsAssumption DEF Decision
<1>3. RequiredDecision \in Decision
  BY EmptyTypes DEF RequiredDecision, Decision, Catalog
<1> QED
  BY <1>2, <1>3

\* match_record returns an observation, whatever the candidates.
LEMMA MatchedType ==
    ASSUME NEW requested \in MaybeRecord, NEW found \in SUBSET Records
    PROVE  Matched(requested, found) \in Observation
<1>1. \A s \in ObservationStatus, r \in MaybeRecord :
        [Observed(s) EXCEPT !.selected = r] \in Observation
  BY EmptyTypes DEF Observation
<1>2. CASE found = {}
  BY <1>2, EmptyTypes DEF Matched, ObservationStatus
<1>3. CASE found # {} /\ requested # NoRecord
  BY <1>1, <1>3, EmptyTypes DEF Matched, ObservationStatus
<1>4. CASE found # {} /\ requested = NoRecord
  <2>1. (CHOOSE r \in found : TRUE) \in MaybeRecord
    BY <1>4 DEF MaybeRecord
  <2> QED
    BY <1>1, <1>4, <2>1, EmptyTypes DEF Matched, ObservationStatus
<1> QED
  BY <1>2, <1>3, <1>4

\* A hash computed by the gate for a prepared write is a real hash.
LEMMA HashNowType ==
    ASSUME IndInv, NEW h \in Handlers, Passes(h), IsWrite(h), Ready(h)
    PROVE  HashNow(h) \in Hash
<1>1. call[h].decision \in Decision
  BY DEF IndInv, Midway, Passes, At
<1>2. prepared \in PreparedOperation
  BY DEF IndInv, TypeOK, Ready, WritePrecondition, IsWrite, WriteActions, NoPrepared
<1> QED
  BY <1>1, <1>2 DEF HashNow, ExecutionHash, Hash

\* The record a write would touch is a record or none.
LEMMA TargetType ==
    ASSUME NEW st \in TaskRow, NEW d, NEW p \in PreparedOperation \cup {NoPrepared}
    PROVE  TargetOf(st, d, p) \in MaybeRecord
BY DEF TargetOf, TaskRow, PreparedOperation, NoPrepared, MaybeRecord

-----------------------------------------------------------------------------
(* The invariant is inductive.                                             *)

CallsOK == call \in [Handlers -> Call] /\ \A h \in Handlers : Midway(call[h])

\* Replacing one handler's local state by a good one keeps all of them good.
LEMMA CallUpdate ==
    ASSUME CallsOK, NEW h \in Handlers, NEW c \in Call, Midway(c),
           call' = [call EXCEPT ![h] = c]
    PROVE  CallsOK'
BY DEF CallsOK

\* The states a call starts from and returns to are good.
LEMMA IdleMidway == /\ Midway(Idle)
                    /\ \A st : Midway([Idle EXCEPT !.pc = "loop", !.st = st])
                    /\ Midway([Idle EXCEPT !.pc = "enter"])
BY DEF Midway, Idle

\* A save of a task row leaves a task row and good local states.
LEMMA SaveTypes ==
    ASSUME IndInv, NEW h \in Handlers, NEW st \in TaskRow, Save(h, st)
    PROVE  task' \in TaskRow /\ CallsOK'
<1>1. CallsOK
  BY DEF IndInv, TypeOK, CallsOK
<1>2. [Idle EXCEPT !.pc = "loop", !.st = st] \in Call
  BY EmptyTypes DEF Call, Places
<1>3. CASE st.status = "running"
  BY <1>1, <1>2, <1>3, IdleMidway, CallUpdate DEF Save
<1>4. CASE st.status # "running"
  BY <1>1, <1>4, IdleMidway, EmptyTypes, CallUpdate DEF Save
<1> QED
  BY <1>3, <1>4 DEF Save

\* The same for the save of a resume.
LEMMA SaveAndEnterTypes ==
    ASSUME IndInv, NEW h \in Handlers, NEW st \in TaskRow, SaveAndEnter(h, st)
    PROVE  task' \in TaskRow /\ CallsOK'
<1>1. CallsOK
  BY DEF IndInv, TypeOK, CallsOK
<1>2. [Idle EXCEPT !.pc = "enter"] \in Call
  BY EmptyTypes DEF Call, Places
<1> QED
  BY <1>1, <1>2, IdleMidway, CallUpdate DEF SaveAndEnter

\* A handler that got an observation moves on to persist it.
LEMMA YieldsTypes ==
    ASSUME IndInv, NEW h \in Handlers, At(h, "dispatch"),
           NEW ob \in Observation, Yields(h, ob)
    PROVE  CallsOK'
<1> DEFINE c == [call[h] EXCEPT !.pc = "persist", !.observation = ob]
<1>1. call[h] \in Call /\ Midway(call[h]) /\ CallsOK
  BY DEF IndInv, TypeOK, CallsOK
<1>2. c \in Call
  BY <1>1 DEF Call, Places
<1>3. Midway(c)
  BY <1>1 DEF Midway, At, Call
<1>4. call' = [call EXCEPT ![h] = c]
  BY DEF Yields
<1> QED
  BY <1>1, <1>2, <1>3, <1>4, CallUpdate

\* The invariant holds initially.
LEMMA InitIndInv == Init => IndInv
<1> SUFFICES ASSUME Init PROVE IndInv
  OBVIOUS
<1>1. task \in TaskRow
  BY EmptyTypes DEF Init, TaskRow
<1>2. call \in [Handlers -> Call] /\ \A h \in Handlers : Midway(call[h])
  BY EmptyTypes, IdleMidway DEF Init
<1>3. dispatched \in Seq(Dispatched)
  BY DEF Init
<1>4. turns \in 0..MaxTurns
  BY ConstantsAssumption DEF Init
<1>5. candidates \in SUBSET Records /\ granted \in SUBSET Confirmed /\ skipped \in SUBSET Confirmed
  BY DEF Init
<1> QED
  BY <1>1, <1>2, <1>3, <1>4, <1>5 DEF Init, IndInv, TypeOK

\* The steps of a handler that end in a save or stay in the loop.
LEMMA LoopIndInv ==
    ASSUME IndInv, NEW h \in Handlers,
           Invoke(h) \/ StopAtMaxSteps(h) \/ PlannerFails(h) \/ Decide(h)
    PROVE  IndInv'
<1>1. call[h] \in Call /\ Midway(call[h]) /\ CallsOK /\ call[h].st \in TaskRow
  BY DEF IndInv, TypeOK, CallsOK, Call
<1>2. [call[h].st EXCEPT !.status = "failed"] \in TaskRow
  BY <1>1 DEF TaskRow, TerminalStatus
<1>3. CASE Invoke(h)
  <2>1. task' \in TaskRow /\ CallsOK'
    BY <1>3, EmptyTypes, SaveTypes DEF Invoke
  <2> QED
    BY <1>3, <2>1 DEF Invoke, IndInv, TypeOK, CallsOK, artifacts, ghosts
<1>4. CASE StopAtMaxSteps(h)
  <2>1. task' \in TaskRow /\ CallsOK'
    BY <1>2, <1>4, SaveTypes DEF StopAtMaxSteps
  <2> QED
    BY <1>4, <2>1 DEF StopAtMaxSteps, IndInv, TypeOK, CallsOK, artifacts, ghosts
<1>5. CASE PlannerFails(h)
  <2>1. task' \in TaskRow /\ CallsOK'
    BY <1>2, <1>5, SaveTypes DEF PlannerFails
  <2> QED
    BY <1>5, <2>1 DEF PlannerFails, IndInv, TypeOK, CallsOK, artifacts, ghosts
<1>6. CASE Decide(h)
  <2>1. PICK d \in NextDecisions(call[h].st) :
          call' = [call EXCEPT ![h] = [call[h] EXCEPT !.pc = "gate", !.decision = d]]
    BY <1>6, <1>1 DEF Decide, CallsOK
  <2>2. d \in Decision
    BY <1>1, DecisionTypes DEF NextDecisions, TaskRow
  <2> DEFINE c == [call[h] EXCEPT !.pc = "gate", !.decision = d]
  <2>3. c \in Call
    BY <1>1, <2>2 DEF Call, Places
  <2>4. Midway(c)
    BY <1>1, <1>6, <2>2 DEF Midway, Decide, Call
  <2>5. CallsOK'
    BY <1>1, <2>1, <2>3, <2>4, CallUpdate
  <2> QED
    BY <1>6, <2>5 DEF Decide, IndInv, TypeOK, CallsOK, artifacts, ghosts
<1> QED
  BY <1>3, <1>4, <1>5, <1>6

\* The gate.
LEMMA GateIndInv ==
    ASSUME IndInv, NEW h \in Handlers, Gate(h)
    PROVE  IndInv'
<1> DEFINE c == call[h]
           d == call[h].decision
           st == call[h].st
<1>1. c \in Call /\ Midway(c) /\ CallsOK /\ st \in TaskRow
  BY DEF IndInv, TypeOK, CallsOK, Call
<1>2. At(h, "gate") => d \in Decision /\ st.step_count < MaxSteps
  BY <1>1 DEF At, Midway
<1>3. \A s \in ObservationStatus : At(h, "gate") => Apply(st, d, Observed(s)) \in TaskRow
  BY <1>1, <1>2, EmptyTypes, ApplyType
<1>4. nextId \in Nat
  BY DEF IndInv, TypeOK
<1>5. CASE StopRepeating(h)
  <2>1. [st EXCEPT !.status = "failed"] \in TaskRow
    BY <1>1 DEF TaskRow, TerminalStatus
  <2>2. task' \in TaskRow /\ CallsOK'
    BY <1>5, <2>1, SaveTypes DEF StopRepeating
  <2> QED
    BY <1>5, <2>2 DEF StopRepeating, IndInv, TypeOK, CallsOK, artifacts, ghosts
<1>6. CASE AskUser(h)
  <2> DEFINE question == [id |-> nextId, kind |-> "clarify", hash |-> NoHash]
             row == [Apply(st, d, Observed("needs_input")) EXCEPT
                       !.status = "waiting_user", !.pending_interaction = question]
  <2>1. question \in Interaction
    BY <1>4 DEF Interaction
  <2>2. row \in TaskRow
    BY <1>3, <1>6, <2>1 DEF TaskRow, AskUser, ObservationStatus
  <2>3. task' \in TaskRow /\ CallsOK'
    BY <1>6, <2>2, SaveTypes DEF AskUser
  <2> QED
    BY <1>6, <2>3 DEF AskUser, IndInv, TypeOK, CallsOK, artifacts, ghosts
<1>7. CASE Finish(h)
  <2>1. [Apply(st, d, Observed("success")) EXCEPT !.status = "completed"] \in TaskRow
    BY <1>3, <1>7 DEF TaskRow, TerminalStatus, Finish, ObservationStatus
  <2>2. task' \in TaskRow /\ CallsOK'
    BY <1>7, <2>1, SaveTypes DEF Finish
  <2> QED
    BY <1>7, <2>2 DEF Finish, IndInv, TypeOK, CallsOK, artifacts, ghosts
<1>8. CASE RejectUnprepared(h)
  <2>1. task' \in TaskRow /\ CallsOK'
    BY <1>3, <1>8, SaveTypes DEF RejectUnprepared, Passes, ObservationStatus
  <2> QED
    BY <1>8, <2>1 DEF RejectUnprepared, IndInv, TypeOK, CallsOK, artifacts, ghosts
<1>9. CASE SkipExecuted(h)
  <2>1. task' \in TaskRow /\ CallsOK'
    BY <1>3, <1>9, SaveTypes DEF SkipExecuted, Passes, ObservationStatus
  <2>2. [hash |-> HashNow(h), target |-> TargetOf(st, d, prepared)] \in Confirmed
    BY <1>1, <1>9, HashNowType, TargetType DEF SkipExecuted, Confirmed, IndInv, TypeOK
  <2> QED
    BY <1>9, <2>1, <2>2 DEF SkipExecuted, IndInv, TypeOK, CallsOK, artifacts
<1>10. CASE AskConfirmation(h)
  <2> DEFINE question == [id |-> nextId, kind |-> "confirm", hash |-> HashNow(h)]
             row == [st EXCEPT !.status = "waiting_user", !.pending_decision = d,
                               !.pending_interaction = question]
  <2>1. HashNow(h) \in Hash
    BY <1>10, HashNowType DEF AskConfirmation
  <2>2. question \in Interaction
    BY <1>4, <2>1 DEF Interaction
  <2>3. d \in Decision
    BY <1>2, <1>10 DEF AskConfirmation, Passes
  <2>4. row \in TaskRow
    BY <1>1, <2>2, <2>3 DEF TaskRow
  <2>5. task' \in TaskRow /\ CallsOK'
    BY <1>10, <2>4, SaveTypes DEF AskConfirmation
  <2> QED
    BY <1>10, <2>5 DEF AskConfirmation, IndInv, TypeOK, CallsOK, artifacts, ghosts
<1>11. CASE Proceed(h)
  <2> DEFINE hash == IF IsWrite(h) THEN HashNow(h) ELSE NoHash
             next == [call[h] EXCEPT !.pc = "dispatch", !.hash = hash]
  <2>1. hash \in Hash \cup {NoHash} /\ (IsWrite(h) => hash \in Hash)
    BY <1>11, HashNowType DEF Proceed
  <2>2. next \in Call
    BY <1>1, <2>1 DEF Call, Places
  <2>3. Midway(next)
    BY <1>1, <1>2, <1>11, <2>1 DEF Midway, Proceed, Passes, IsWrite, Call
  <2>4. CallsOK'
    BY <1>1, <1>11, <2>2, <2>3, CallUpdate DEF Proceed
  <2> QED
    BY <1>11, <2>4 DEF Proceed, IndInv, TypeOK, CallsOK, artifacts, ghosts
<1> QED
  BY <1>5, <1>6, <1>7, <1>8, <1>9, <1>10, <1>11 DEF Gate

\* Attaching an artifact to an observation gives an observation.
LEMMA PublishTypes ==
    ASSUME NEW ob \in Observation
    PROVE  /\ [ob EXCEPT !.key = "candidate_records"] \in Observation
           /\ \A f \in SUBSET Records :
                [ob EXCEPT !.key = "candidate_records", !.candidates = f] \in Observation
           /\ \A p \in PreparedOperation :
                [ob EXCEPT !.key = "prepared_operation", !.prepared = p] \in Observation
BY DEF Observation

\* The dispatcher.
LEMMA DispatchIndInv ==
    ASSUME IndInv, NEW h \in Handlers, Dispatch(h)
    PROVE  IndInv'
<1> DEFINE c == call[h]
<1>1. c \in Call /\ Midway(c) /\ CallsOK /\ c.st \in TaskRow
  BY DEF IndInv, TypeOK, CallsOK, Call
<1>2. At(h, "dispatch") => c.decision \in Decision
  BY <1>1 DEF At, Midway
<1>3. CASE DispatchRaises(h)
  <2>1. CallsOK'
    BY <1>3, EmptyTypes, YieldsTypes DEF DispatchRaises, ObservationStatus
  <2> QED
    BY <1>3, <2>1 DEF DispatchRaises, IndInv, TypeOK, CallsOK, artifacts, ghosts
<1>4. CASE GenerateDraft(h)
  <2>1. [Observed("success") EXCEPT !.key = "record_draft"] \in Observation
    BY EmptyTypes DEF Observation, ObservationStatus
  <2>2. CallsOK'
    BY <1>4, <2>1, YieldsTypes DEF GenerateDraft
  <2> QED
    BY <1>4, <2>2 DEF GenerateDraft, IndInv, TypeOK, CallsOK, artifacts, ghosts
<1>5. CASE ReadTable(h)
  <2>1. \A s \in ObservationStatus, f \in SUBSET Records :
          /\ Observed(s) \in Observation
          /\ [Observed(s) EXCEPT !.key = "candidate_records", !.candidates = f] \in Observation
          /\ [Observed(s) EXCEPT !.key = "candidate_records"] \in Observation
    BY EmptyTypes, PublishTypes
  <2>2. \E ob \in Observation : Yields(h, ob)
    <3>1. CASE call[h].decision.name = "read_records"
      BY <1>5, <2>1, <3>1 DEF ReadTable, ObservationStatus
    <3>2. CASE call[h].decision.name # "read_records"
      BY <1>5, <2>1, <3>2 DEF ReadTable, ObservationStatus
    <3> QED
      BY <3>1, <3>2
  <2>3. CallsOK'
    BY <1>5, <2>2, YieldsTypes DEF ReadTable
  <2> QED
    BY <1>5, <2>3 DEF ReadTable, IndInv, TypeOK, CallsOK, artifacts, ghosts
<1>6. CASE PrepareOperation(h)
  <2> DEFINE p == [operation |-> OperationOf[c.decision.name],
                   body |-> c.decision.arguments.body, rid |-> c.decision.arguments.rid]
  <2>1. p \in PreparedOperation
    <3>1. c.decision.arguments \in Arguments
      BY <1>2, <1>6 DEF PrepareOperation, Decision
    <3>2. OperationOf[c.decision.name] \in WriteActions
      BY <1>6 DEF PrepareOperation, PrepareActions, OperationOf, WriteActions
    <3> QED
      BY <3>1, <3>2 DEF Arguments, PreparedOperation
  <2> HIDE DEF p
  <2>2. \A s \in ObservationStatus :
          [Observed(s) EXCEPT !.key = "prepared_operation", !.prepared = p] \in Observation
    BY <2>1, EmptyTypes, PublishTypes
  <2>3. \E ob \in Observation : Yields(h, ob)
    BY <1>6, <2>2 DEF PrepareOperation, ObservationStatus, p
  <2>4. CallsOK'
    BY <1>6, <2>3, YieldsTypes DEF PrepareOperation
  <2> QED
    BY <1>6, <2>4 DEF PrepareOperation, IndInv, TypeOK, CallsOK, artifacts, ghosts
<1>7. CASE MatchRecord(h)
  <2>1. c.decision.arguments.rid \in MaybeRecord
    BY <1>2, <1>7 DEF MatchRecord, Decision, Arguments
  <2>2. Matched(c.decision.arguments.rid, candidates) \in Observation
    BY <2>1, MatchedType DEF IndInv, TypeOK
  <2>3. CallsOK'
    BY <1>7, <2>2, YieldsTypes DEF MatchRecord
  <2> QED
    BY <1>7, <2>3 DEF MatchRecord, IndInv, TypeOK, CallsOK, artifacts, ghosts
<1>8. CASE ExecuteWrite(h)
  <2>1. CASE prepared.operation # c.decision.name
    <3>1. CallsOK'
      BY <1>8, <2>1, EmptyTypes, YieldsTypes DEF ExecuteWrite, ObservationStatus
    <3> QED
      BY <1>8, <2>1, <3>1 DEF ExecuteWrite, IndInv, TypeOK, CallsOK, artifacts, ghosts
  <2>2. CASE prepared.operation = c.decision.name
    <3> DEFINE target == TargetOf(c.st, c.decision, prepared)
               hash == ExecutionHash(c.decision, prepared)
    <3>1. PICK outcome \in {"success", "retryable_error", "no_match", "needs_input", "terminal_error"},
               applied \in BOOLEAN :
            /\ Yields(h, Observed(outcome))
            /\ dispatched' = Append(dispatched, [hash |-> hash, target |-> target,
                                                 outcome |-> outcome, applied |-> applied])
      BY <1>8, <2>2 DEF ExecuteWrite
    <3>2. prepared \in PreparedOperation
      BY <1>8, <2>2 DEF ExecuteWrite, WriteActions, NoPrepared, IndInv, TypeOK
    <3>3. hash \in Hash
      BY <1>2, <1>8, <3>2 DEF ExecuteWrite, ExecutionHash, Hash
    <3>4. target \in MaybeRecord
      BY <1>1, <3>2, TargetType
    <3> HIDE DEF hash, target
    <3>5. [hash |-> hash, target |-> target, outcome |-> outcome, applied |-> applied] \in Dispatched
      BY <3>1, <3>3, <3>4 DEF Dispatched, ObservationStatus
    <3>6. dispatched' \in Seq(Dispatched)
      BY <3>1, <3>5 DEF IndInv, TypeOK
    <3>7. CallsOK'
      BY <1>8, <3>1, EmptyTypes, YieldsTypes DEF ExecuteWrite, ObservationStatus
    <3> QED
      BY <1>8, <3>6, <3>7 DEF ExecuteWrite, IndInv, TypeOK, CallsOK, artifacts
  <2> QED
    BY <2>1, <2>2
<1> QED
  BY <1>3, <1>4, <1>5, <1>6, <1>7, <1>8 DEF Dispatch

\* The end of a turn of the loop.
LEMMA RecordIndInv ==
    ASSUME IndInv, NEW h \in Handlers, Persist(h) \/ Commit(h)
    PROVE  IndInv'
<1> DEFINE c == call[h]
<1>1. c \in Call /\ Midway(c) /\ CallsOK /\ c.st \in TaskRow /\ c.observation \in Observation
  BY DEF IndInv, TypeOK, CallsOK, Call
<1>2. CASE Persist(h)
  <2> DEFINE next == [c EXCEPT !.pc = "commit"]
  <2>1. next \in Call /\ Midway(next)
    BY <1>1, <1>2 DEF Call, Places, Midway, Persist, At
  <2>2. CallsOK'
    BY <1>1, <1>2, <2>1, CallUpdate DEF Persist
  <2>3. /\ prepared' \in PreparedOperation \cup {NoPrepared}
        /\ candidates' \in SUBSET Records
        /\ draft' \in BOOLEAN
    BY <1>1, <1>2 DEF Persist, Observation, IndInv, TypeOK
  <2> QED
    BY <1>2, <2>2, <2>3 DEF Persist, IndInv, TypeOK, CallsOK, ghosts
<1>3. CASE Commit(h)
  <2>1. Consumed(c) \in TaskRow /\ Consumed(c).step_count = c.st.step_count
    <3>1. CASE c.decision.name \in WriteActions /\ c.observation.status = "success"
      <4>1. c.hash \in Hash
        BY <1>1, <1>3, <3>1 DEF Commit, At, Midway
      <4> QED
        BY <1>1, <3>1, <4>1 DEF Consumed, TaskRow
    <3>2. CASE ~(c.decision.name \in WriteActions /\ c.observation.status = "success")
      BY <1>1, <3>2 DEF Consumed
    <3> QED
      BY <3>1, <3>2
  <2>2. c.decision \in Decision /\ c.st.step_count < MaxSteps
    BY <1>1, <1>3 DEF Commit, At, Midway
  <2>3. Apply(Consumed(c), c.decision, c.observation) \in TaskRow
    BY <1>1, <2>1, <2>2, ApplyType
  <2>4. task' \in TaskRow /\ CallsOK'
    BY <1>3, <2>3, SaveTypes DEF Commit
  <2> QED
    BY <1>3, <2>4 DEF Commit, IndInv, TypeOK, CallsOK, artifacts, ghosts
<1> QED
  BY <1>2, <1>3

\* The resume calls.
LEMMA ResumeIndInv ==
    ASSUME IndInv, NEW h \in Handlers, ResumeRead(h) \/ Resume(h) \/ EnterLoop(h)
    PROVE  IndInv'
<1> DEFINE st == call[h].st
<1>1. call[h] \in Call /\ Midway(call[h]) /\ CallsOK /\ st \in TaskRow /\ task \in TaskRow
  BY DEF IndInv, TypeOK, CallsOK, Call
<1>2. CASE ResumeRead(h)
  <2>1. PICK reply \in {"approve", "modify", "cancel", "answer"} :
          /\ reply = "approve" => task.pending_interaction.kind = "confirm"
          /\ call' = [call EXCEPT ![h] =
                        [Idle EXCEPT !.pc = "resume", !.st = task, !.reply = reply]]
    BY <1>2 DEF ResumeRead
  <2> DEFINE next == [Idle EXCEPT !.pc = "resume", !.st = task, !.reply = reply]
  <2>2. next \in Call
    BY <1>1, EmptyTypes DEF Call, Places
  <2>3. Midway(next)
    BY <2>1 DEF Midway, Idle
  <2>4. CallsOK'
    BY <1>1, <2>1, <2>2, <2>3, CallUpdate
  <2>5. turns' \in 0..MaxTurns
    BY <1>2, ConstantsAssumption DEF ResumeRead, IndInv, TypeOK
  <2> QED
    BY <1>2, <2>4, <2>5 DEF ResumeRead, IndInv, TypeOK, CallsOK, artifacts, ghosts
<1>3. CASE ResumeCancel(h)
  <2>1. [st EXCEPT !.status = "cancelled", !.pending_interaction = NoInteraction,
                   !.pending_decision = NoDecision] \in TaskRow
    BY <1>1, EmptyTypes DEF TaskRow, TerminalStatus
  <2>2. task' \in TaskRow /\ CallsOK'
    BY <1>3, <2>1, SaveTypes DEF ResumeCancel
  <2> QED
    BY <1>3, <2>2 DEF ResumeCancel, IndInv, TypeOK, CallsOK, artifacts, ghosts
<1>4. CASE ResumeApprove(h)
  <2> DEFINE asked == st.pending_interaction.hash
             target == TargetOf(st, st.pending_decision, asked.prepared)
  <2>1. asked \in Hash
    BY <1>1, <1>4 DEF ResumeApprove, Midway, TaskRow, Interaction
  <2>2. [st EXCEPT !.approved = @ \cup {asked}, !.pending_interaction = NoInteraction,
                   !.status = "running"] \in TaskRow
    BY <1>1, <2>1, EmptyTypes DEF TaskRow
  <2>3. task' \in TaskRow /\ CallsOK'
    BY <1>4, <2>2, SaveAndEnterTypes DEF ResumeApprove
  <2>4. target \in MaybeRecord
    BY <1>1, <2>1, TargetType DEF Hash
  <2>5. [hash |-> asked, target |-> target] \in Confirmed
    BY <2>1, <2>4 DEF Confirmed
  <2> QED
    BY <1>4, <2>3, <2>5 DEF ResumeApprove, IndInv, TypeOK, CallsOK, artifacts
<1>5. CASE ResumeReply(h)
  <2>1. [st EXCEPT !.pending_interaction = NoInteraction, !.pending_decision = NoDecision,
                   !.status = "running"] \in TaskRow
    BY <1>1, EmptyTypes DEF TaskRow
  <2>2. task' \in TaskRow /\ CallsOK'
    BY <1>5, <2>1, SaveAndEnterTypes DEF ResumeReply
  <2> QED
    BY <1>5, <2>2 DEF ResumeReply, IndInv, TypeOK, CallsOK, artifacts, ghosts
<1>6. CASE EnterLoop(h)
  <2>1. [Idle EXCEPT !.pc = "loop", !.st = task] \in Call
    BY <1>1, EmptyTypes DEF Call, Places
  <2>2. CallsOK'
    BY <1>1, <1>6, <2>1, EmptyTypes, IdleMidway, CallUpdate DEF EnterLoop
  <2> QED
    BY <1>6, <2>2 DEF EnterLoop, IndInv, TypeOK, CallsOK, artifacts, ghosts
<1> QED
  BY <1>2, <1>3, <1>4, <1>5, <1>6 DEF Resume

\* A restart.
LEMMA RestartIndInv == IndInv /\ Restart => IndInv'
<1> SUFFICES ASSUME IndInv, Restart PROVE IndInv'
  OBVIOUS
<1>1. task' \in TaskRow
  BY EmptyTypes DEF Restart, TaskRow
<1>2. call' \in [Handlers -> Call] /\ \A h \in Handlers : Midway(call'[h])
  BY EmptyTypes, IdleMidway DEF Restart
<1> QED
  BY <1>1, <1>2 DEF Restart, IndInv, TypeOK, artifacts, ghosts

\* Every step preserves the invariant.
LEMMA NextIndInv == IndInv /\ [Next]_vars => IndInv'
<1> SUFFICES ASSUME IndInv, [Next]_vars PROVE IndInv'
  OBVIOUS
<1>1. ASSUME NEW h \in Handlers, Invoke(h) \/ ResumeRead(h) \/ Advance(h) PROVE IndInv'
  BY <1>1, LoopIndInv, GateIndInv, DispatchIndInv, RecordIndInv, ResumeIndInv DEF Advance
<1>2. CASE Restart
  BY <1>2, RestartIndInv
<1>3. CASE UNCHANGED vars
  BY <1>3 DEF vars, artifacts, ghosts, IndInv, TypeOK
<1> QED
  BY <1>1, <1>2, <1>3 DEF Next

\* Types, and with them the step bound, hold for any number of overlapping requests: no
\* copy of the row counts more than max_steps actions.
THEOREM TypeCorrect == Spec => []TypeOK
<1>1. Init => IndInv
  BY InitIndInv
<1>2. IndInv /\ [Next]_vars => IndInv'
  BY NextIndInv
<1>3. IndInv => TypeOK
  BY DEF IndInv
<1> QED
  BY <1>1, <1>2, <1>3, PTL DEF Spec

-----------------------------------------------------------------------------
(* Requests that do not overlap: one handler at a time serves the task.    *)

OneAtATime == \A h, k \in Handlers : h = k

GrantedHashes == {g.hash : g \in granted}

\* Everything a copy of the row holds as approved was approved by the user, and a write on
\* its way to the dispatcher is one of those, with the request it will read there.
ApprovalInv ==
    /\ task.approved \subseteq GrantedHashes
    /\ \A h \in Handlers :
         /\ call[h].st.approved \subseteq GrantedHashes
         /\ call[h].pc = "dispatch" /\ call[h].decision.name \in WriteActions =>
              /\ call[h].hash \in GrantedHashes
              /\ call[h].hash = ExecutionHash(call[h].decision, prepared)
    /\ WritesWereApproved

\* The reducer does not touch the approvals and the executed hashes.
LEMMA ApplyKeepsHashes ==
    ASSUME NEW st \in TaskRow, NEW d, NEW ob
    PROVE  /\ Apply(st, d, ob).approved = st.approved
           /\ Apply(st, d, ob).executed = st.executed
BY DEF Apply, TaskRow

\* Replacing a handler's local state outside the dispatcher.
LEMMA CallApprovals ==
    ASSUME IndInv, ApprovalInv, NEW h \in Handlers, NEW c,
           c.st.approved \subseteq GrantedHashes, c.pc # "dispatch",
           call' = [call EXCEPT ![h] = c], UNCHANGED <<prepared, granted, dispatched>>,
           task'.approved \subseteq GrantedHashes
    PROVE  ApprovalInv'
<1>1. GrantedHashes' = GrantedHashes /\ WritesWereApproved'
  BY DEF ApprovalInv, GrantedHashes, WritesWereApproved
<1>2. \A k \in Handlers : call'[k] = IF k = h THEN c ELSE call[k]
  BY DEF IndInv, TypeOK
<1> QED
  BY <1>1, <1>2 DEF ApprovalInv

\* A save of a row whose approvals are granted.
LEMMA SaveApprovals ==
    ASSUME IndInv, ApprovalInv, NEW h \in Handlers, NEW st \in TaskRow,
           st.approved \subseteq GrantedHashes, Save(h, st),
           UNCHANGED <<prepared, granted, dispatched>>
    PROVE  ApprovalInv'
<1>1. Idle.st.approved = {} /\ Idle.pc = "idle"
  BY DEF Idle, NewTask
<1>2. /\ [Idle EXCEPT !.pc = "loop", !.st = st].st = st
      /\ [Idle EXCEPT !.pc = "loop", !.st = st].pc = "loop"
  BY DEF Idle
<1>3. CASE st.status = "running"
  BY <1>2, <1>3, CallApprovals DEF Save
<1>4. CASE st.status # "running"
  BY <1>1, <1>4, CallApprovals DEF Save
<1> QED
  BY <1>3, <1>4

\* The steps before the dispatcher.
LEMMA LoopApproval ==
    ASSUME IndInv, ApprovalInv, NEW h \in Handlers,
           Invoke(h) \/ StopAtMaxSteps(h) \/ PlannerFails(h) \/ Decide(h)
    PROVE  ApprovalInv'
<1> DEFINE st == call[h].st
<1>1. call[h] \in Call /\ st \in TaskRow /\ st.approved \subseteq GrantedHashes
  BY DEF IndInv, TypeOK, Call, ApprovalInv
<1>2. /\ [st EXCEPT !.status = "failed"] \in TaskRow
      /\ [st EXCEPT !.status = "failed"].approved = st.approved
  BY <1>1 DEF TaskRow, TerminalStatus
<1>3. CASE Invoke(h)
  <2>1. NewTask.approved = {}
    BY DEF NewTask
  <2> QED
    BY <1>3, <2>1, EmptyTypes, SaveApprovals DEF Invoke, artifacts, ghosts
<1>4. CASE StopAtMaxSteps(h)
  BY <1>1, <1>2, <1>4, SaveApprovals DEF StopAtMaxSteps, artifacts, ghosts
<1>5. CASE PlannerFails(h)
  BY <1>1, <1>2, <1>5, SaveApprovals DEF PlannerFails, artifacts, ghosts
<1>6. CASE Decide(h)
  <2>1. PICK d \in NextDecisions(st) :
          call' = [call EXCEPT ![h] = [call[h] EXCEPT !.pc = "gate", !.decision = d]]
    BY <1>6 DEF Decide, IndInv, TypeOK
  <2> DEFINE c == [call[h] EXCEPT !.pc = "gate", !.decision = d]
  <2>2. c.st = st /\ c.pc = "gate"
    BY <1>1 DEF Call
  <2>3. UNCHANGED <<prepared, granted, dispatched, task>>
    BY <1>6 DEF Decide, artifacts, ghosts
  <2> HIDE DEF c
  <2> QED
    BY <1>1, <2>1, <2>2, <2>3, CallApprovals DEF c, ApprovalInv
<1> QED
  BY <1>3, <1>4, <1>5, <1>6

\* The gate: Proceed lets a write through only with a granted hash.
LEMMA GateApproval ==
    ASSUME IndInv, ApprovalInv, NEW h \in Handlers, Gate(h)
    PROVE  ApprovalInv'
<1> DEFINE st == call[h].st
           d == call[h].decision
<1>1. call[h] \in Call /\ st \in TaskRow /\ st.approved \subseteq GrantedHashes /\ Midway(call[h])
  BY DEF IndInv, TypeOK, Call, ApprovalInv
<1>2. At(h, "gate") => d \in Decision /\ st.step_count < MaxSteps
  BY <1>1 DEF At, Midway
<1>3. \A s \in ObservationStatus : At(h, "gate") =>
        /\ Apply(st, d, Observed(s)) \in TaskRow
        /\ Apply(st, d, Observed(s)).approved = st.approved
  BY <1>1, <1>2, EmptyTypes, ApplyType, ApplyKeepsHashes
<1>4. nextId \in Nat
  BY DEF IndInv, TypeOK
<1>5. CASE StopRepeating(h)
  <2>1. /\ [st EXCEPT !.status = "failed"] \in TaskRow
        /\ [st EXCEPT !.status = "failed"].approved = st.approved
    BY <1>1 DEF TaskRow, TerminalStatus
  <2> QED
    BY <1>1, <1>5, <2>1, SaveApprovals DEF StopRepeating, artifacts, ghosts
<1>6. CASE AskUser(h)
  <2> DEFINE question == [id |-> nextId, kind |-> "clarify", hash |-> NoHash]
             row == [Apply(st, d, Observed("needs_input")) EXCEPT
                       !.status = "waiting_user", !.pending_interaction = question]
  <2>1. question \in Interaction
    BY <1>4 DEF Interaction
  <2>2. row \in TaskRow /\ row.approved = st.approved
    BY <1>3, <1>6, <2>1 DEF TaskRow, AskUser, ObservationStatus
  <2> QED
    BY <1>1, <1>6, <2>2, SaveApprovals DEF AskUser, artifacts, ghosts
<1>7. CASE Finish(h)
  <2> DEFINE row == [Apply(st, d, Observed("success")) EXCEPT !.status = "completed"]
  <2>1. row \in TaskRow /\ row.approved = st.approved
    BY <1>3, <1>7 DEF TaskRow, TerminalStatus, Finish, ObservationStatus
  <2> QED
    BY <1>1, <1>7, <2>1, SaveApprovals DEF Finish, artifacts, ghosts
<1>8. CASE RejectUnprepared(h)
  BY <1>1, <1>3, <1>8, SaveApprovals
  DEF RejectUnprepared, Passes, ObservationStatus, artifacts, ghosts
<1>9. CASE SkipExecuted(h)
  BY <1>1, <1>3, <1>9, SaveApprovals DEF SkipExecuted, Passes, ObservationStatus, artifacts
<1>10. CASE AskConfirmation(h)
  <2> DEFINE question == [id |-> nextId, kind |-> "confirm", hash |-> HashNow(h)]
             row == [st EXCEPT !.status = "waiting_user", !.pending_decision = d,
                               !.pending_interaction = question]
  <2>1. HashNow(h) \in Hash
    BY <1>10, HashNowType DEF AskConfirmation
  <2>2. question \in Interaction
    BY <1>4, <2>1 DEF Interaction
  <2>3. d \in Decision
    BY <1>2, <1>10 DEF AskConfirmation, Passes
  <2>4. row \in TaskRow /\ row.approved = st.approved
    BY <1>1, <2>2, <2>3 DEF TaskRow
  <2> QED
    BY <1>1, <1>10, <2>4, SaveApprovals DEF AskConfirmation, artifacts, ghosts
<1>11. CASE Proceed(h)
  <2> DEFINE c == [call[h] EXCEPT !.pc = "dispatch",
                                  !.hash = IF IsWrite(h) THEN HashNow(h) ELSE NoHash]
  <2>1. c.st = st /\ c.decision = d /\ (IsWrite(h) => c.hash = HashNow(h))
    BY <1>1 DEF Call
  <2>2. IsWrite(h) => HashNow(h) \in GrantedHashes
    BY <1>1, <1>11 DEF Proceed
  <2>3. \A k \in Handlers : call'[k] = IF k = h THEN c ELSE call[k]
    BY <1>11 DEF Proceed, IndInv, TypeOK
  <2>4. UNCHANGED <<task, prepared, granted, dispatched>>
    BY <1>11 DEF Proceed, artifacts, ghosts
  <2>5. GrantedHashes' = GrantedHashes /\ WritesWereApproved'
    BY <2>4 DEF ApprovalInv, GrantedHashes, WritesWereApproved
  <2> HIDE DEF c
  <2> QED
    BY <1>1, <2>1, <2>2, <2>3, <2>4, <2>5 DEF ApprovalInv, IsWrite, HashNow
<1> QED
  BY <1>5, <1>6, <1>7, <1>8, <1>9, <1>10, <1>11 DEF Gate

\* The write that is sent carries the hash the gate checked.
LEMMA DispatchApproval ==
    ASSUME IndInv, ApprovalInv, NEW h \in Handlers, Dispatch(h)
    PROVE  ApprovalInv'
<1>1. call[h] \in Call /\ At(h, "dispatch")
  BY DEF IndInv, TypeOK, Dispatch, DispatchRaises, GenerateDraft, ReadTable,
         PrepareOperation, MatchRecord, ExecuteWrite
<1>2. PICK ob : Yields(h, ob)
  BY DEF Dispatch, DispatchRaises, GenerateDraft, ReadTable, PrepareOperation,
         MatchRecord, ExecuteWrite
<1> DEFINE c == [call[h] EXCEPT !.pc = "persist", !.observation = ob]
<1>3. \A k \in Handlers : call'[k] = IF k = h THEN c ELSE call[k]
  BY <1>2 DEF Yields, IndInv, TypeOK
<1>4. c.st = call[h].st /\ c.pc = "persist"
  BY <1>1 DEF Call
<1>5. UNCHANGED <<task, prepared, granted>>
  BY DEF Dispatch, DispatchRaises, GenerateDraft, ReadTable, PrepareOperation,
         MatchRecord, ExecuteWrite, artifacts, ghosts
<1>6. WritesWereApproved'
  <2>1. CASE UNCHANGED dispatched
    BY <1>5, <2>1 DEF ApprovalInv, WritesWereApproved
  <2>2. CASE dispatched' # dispatched
    <3>1. ExecuteWrite(h) /\ prepared.operation = call[h].decision.name
      BY <2>2 DEF Dispatch, DispatchRaises, GenerateDraft, ReadTable, PrepareOperation,
                  MatchRecord, ExecuteWrite, ghosts
    <3>2. PICK target, outcome, applied :
            dispatched' = Append(dispatched,
              [hash |-> ExecutionHash(call[h].decision, prepared), target |-> target,
               outcome |-> outcome, applied |-> applied])
      BY <3>1 DEF ExecuteWrite
    <3>3. ExecutionHash(call[h].decision, prepared) \in GrantedHashes
      BY <1>1, <3>1 DEF ApprovalInv, At, ExecuteWrite
    <3>4. dispatched \in Seq(Dispatched)
      BY DEF IndInv, TypeOK
    <3>5. \A i \in DOMAIN dispatched' :
            \/ i \in DOMAIN dispatched /\ dispatched'[i] = dispatched[i]
            \/ dispatched'[i].hash = ExecutionHash(call[h].decision, prepared)
      BY <3>2, <3>4
    <3> QED
      BY <1>5, <3>3, <3>5 DEF ApprovalInv, WritesWereApproved, GrantedHashes
  <2> QED
    BY <2>1, <2>2
<1>7. GrantedHashes' = GrantedHashes
  BY <1>5 DEF GrantedHashes
<1> HIDE DEF c
<1> QED
  BY <1>3, <1>4, <1>5, <1>6, <1>7 DEF ApprovalInv

\* Persisting an artifact may change the prepared request; no other write is on its way then.
LEMMA RecordApproval ==
    ASSUME IndInv, ApprovalInv, OneAtATime, NEW h \in Handlers, Persist(h) \/ Commit(h)
    PROVE  ApprovalInv'
<1> DEFINE c == call[h]
<1>1. /\ c \in Call /\ c.st \in TaskRow /\ c.observation \in Observation
      /\ c.st.approved \subseteq GrantedHashes /\ Midway(c)
  BY DEF IndInv, TypeOK, Call, ApprovalInv
<1>2. CASE Persist(h)
  <2> DEFINE next == [c EXCEPT !.pc = "commit"]
  <2>1. next.st = c.st /\ next.pc = "commit"
    BY <1>1 DEF Call
  <2>2. \A k \in Handlers : k = h /\ call'[k] = next
    BY <1>2 DEF Persist, IndInv, TypeOK, OneAtATime
  <2>3. UNCHANGED <<task, granted, dispatched>>
    BY <1>2 DEF Persist, ghosts
  <2>4. GrantedHashes' = GrantedHashes /\ WritesWereApproved'
    BY <2>3 DEF ApprovalInv, GrantedHashes, WritesWereApproved
  <2> HIDE DEF next
  <2> QED
    BY <1>1, <2>1, <2>2, <2>3, <2>4 DEF ApprovalInv
<1>3. CASE Commit(h)
  <2>1. c.decision \in Decision /\ c.st.step_count < MaxSteps
    BY <1>1, <1>3 DEF Commit, At, Midway
  <2>2. /\ Consumed(c) \in TaskRow /\ Consumed(c).step_count = c.st.step_count
        /\ Consumed(c).approved \subseteq c.st.approved
    <3>1. CASE c.decision.name \in WriteActions /\ c.observation.status = "success"
      <4>1. c.hash \in Hash
        BY <1>1, <1>3, <3>1 DEF Commit, At, Midway
      <4> QED
        BY <1>1, <3>1, <4>1 DEF Consumed, TaskRow
    <3>2. CASE ~(c.decision.name \in WriteActions /\ c.observation.status = "success")
      BY <1>1, <3>2 DEF Consumed
    <3> QED
      BY <3>1, <3>2
  <2>3. /\ Apply(Consumed(c), c.decision, c.observation) \in TaskRow
        /\ Apply(Consumed(c), c.decision, c.observation).approved = Consumed(c).approved
    BY <1>1, <2>1, <2>2, ApplyType, ApplyKeepsHashes
  <2> QED
    BY <1>1, <1>3, <2>2, <2>3, SaveApprovals DEF Commit, artifacts, ghosts
<1> QED
  BY <1>2, <1>3

\* The resume calls: only an approval adds a hash, and it is recorded as granted.
LEMMA ResumeApproval ==
    ASSUME IndInv, ApprovalInv, NEW h \in Handlers, ResumeRead(h) \/ Resume(h) \/ EnterLoop(h)
    PROVE  ApprovalInv'
<1> DEFINE st == call[h].st
           entering == [Idle EXCEPT !.pc = "enter"]
<1>1. /\ call[h] \in Call /\ st \in TaskRow /\ st.approved \subseteq GrantedHashes
      /\ task \in TaskRow /\ task.approved \subseteq GrantedHashes
  BY DEF IndInv, TypeOK, Call, ApprovalInv
<1>2. /\ entering.st.approved = {} /\ entering.pc = "enter"
      /\ Idle.st.approved = {} /\ Idle.pc = "idle"
  BY DEF Idle, NewTask
<1>3. CASE ResumeRead(h)
  <2>1. PICK reply :
          call' = [call EXCEPT ![h] = [Idle EXCEPT !.pc = "resume", !.st = task, !.reply = reply]]
    BY <1>3 DEF ResumeRead
  <2> DEFINE c == [Idle EXCEPT !.pc = "resume", !.st = task, !.reply = reply]
  <2>2. c.st = task /\ c.pc = "resume"
    BY DEF Idle
  <2>3. UNCHANGED <<task, prepared, granted, dispatched>>
    BY <1>3 DEF ResumeRead, artifacts, ghosts
  <2> HIDE DEF c
  <2> QED
    BY <1>1, <2>1, <2>2, <2>3, CallApprovals DEF c
<1>4. CASE ResumeCancel(h)
  <2> DEFINE row == [st EXCEPT !.status = "cancelled", !.pending_interaction = NoInteraction,
                               !.pending_decision = NoDecision]
  <2>1. row \in TaskRow /\ row.approved = st.approved
    BY <1>1, EmptyTypes DEF TaskRow, TerminalStatus
  <2> QED
    BY <1>1, <1>4, <2>1, SaveApprovals DEF ResumeCancel, artifacts, ghosts
<1>5. CASE ResumeApprove(h)
  <2> DEFINE asked == st.pending_interaction.hash
  <2>1. GrantedHashes' = GrantedHashes \cup {asked}
    <3> DEFINE g == [hash |-> asked,
                     target |-> TargetOf(st, st.pending_decision, asked.prepared)]
    <3>1. granted' = granted \cup {g} /\ g.hash = asked
      BY <1>5 DEF ResumeApprove
    <3> HIDE DEF g, asked
    <3> QED
      BY <3>1 DEF GrantedHashes
  <2>2. task'.approved = st.approved \cup {asked}
    BY <1>1, <1>5 DEF ResumeApprove, SaveAndEnter, TaskRow
  <2>3. \A k \in Handlers : call'[k] = IF k = h THEN entering ELSE call[k]
    BY <1>5 DEF ResumeApprove, SaveAndEnter, IndInv, TypeOK
  <2>4. UNCHANGED <<prepared, dispatched>>
    BY <1>5 DEF ResumeApprove, artifacts
  <2>5. WritesWereApproved'
    BY <1>5, <2>4 DEF ResumeApprove, ApprovalInv, WritesWereApproved
  <2> HIDE DEF entering
  <2> QED
    BY <1>1, <1>2, <2>1, <2>2, <2>3, <2>4, <2>5 DEF ApprovalInv
<1>6. CASE ResumeReply(h)
  <2>1. task'.approved = st.approved
    BY <1>1, <1>6 DEF ResumeReply, SaveAndEnter, TaskRow
  <2>2. call' = [call EXCEPT ![h] = entering]
    BY <1>6 DEF ResumeReply, SaveAndEnter
  <2>3. UNCHANGED <<prepared, granted, dispatched>>
    BY <1>6 DEF ResumeReply, artifacts, ghosts
  <2> HIDE DEF entering
  <2> QED
    BY <1>1, <1>2, <2>1, <2>2, <2>3, CallApprovals
<1>7. CASE EnterLoop(h)
  <2> DEFINE c == [Idle EXCEPT !.pc = "loop", !.st = task]
  <2>1. c.st = task /\ c.pc = "loop"
    BY DEF Idle
  <2>2. call' = [call EXCEPT ![h] = c] \/ call' = [call EXCEPT ![h] = Idle]
    BY <1>7 DEF EnterLoop
  <2>3. UNCHANGED <<task, prepared, granted, dispatched>>
    BY <1>7 DEF EnterLoop, artifacts, ghosts
  <2> HIDE DEF c
  <2> QED
    BY <1>1, <1>2, <2>1, <2>2, <2>3, CallApprovals
<1> QED
  BY <1>3, <1>4, <1>5, <1>6, <1>7 DEF Resume

\* Every step keeps the approvals straight.
LEMMA NextApproval == OneAtATime /\ IndInv /\ ApprovalInv /\ [Next]_vars => ApprovalInv'
<1> SUFFICES ASSUME OneAtATime, IndInv, ApprovalInv, [Next]_vars PROVE ApprovalInv'
  OBVIOUS
<1>1. ASSUME NEW h \in Handlers, Invoke(h) \/ ResumeRead(h) \/ Advance(h) PROVE ApprovalInv'
  BY <1>1, LoopApproval, GateApproval, DispatchApproval, RecordApproval, ResumeApproval
  DEF Advance
<1>2. CASE Restart
  <2>1. task'.approved = {} /\ \A h \in Handlers : call'[h] = Idle
    BY <1>2 DEF Restart, NewTask
  <2>2. Idle.st.approved = {} /\ Idle.pc = "idle"
    BY DEF Idle, NewTask
  <2>3. WritesWereApproved'
    BY <1>2 DEF Restart, ghosts, ApprovalInv, WritesWereApproved
  <2> QED
    BY <2>1, <2>2, <2>3 DEF ApprovalInv
<1>3. CASE UNCHANGED vars
  BY <1>3 DEF vars, artifacts, ghosts, ApprovalInv, GrantedHashes, WritesWereApproved
<1> QED
  BY <1>1, <1>2, <1>3 DEF Next

\* README, "the confirmation is bound to the hash of the payload that will be executed":
\* a task served by one request at a time never sends a write whose action, arguments and
\* prepared request the user has not approved, whatever the planner and the tools do.
THEOREM OnlyApprovedWrites == OneAtATime => (Spec => []WritesWereApproved)
<1>1. Init => ApprovalInv
  <2>1. Idle.st.approved = {} /\ Idle.pc = "idle"
    BY DEF Idle, NewTask
  <2>2. Init => task.approved = {}
    BY DEF Init, NewTask
  <2> QED
    BY <2>1, <2>2 DEF Init, ApprovalInv, WritesWereApproved
<1>2. OneAtATime /\ IndInv /\ ApprovalInv /\ [Next]_vars => ApprovalInv'
  BY NextApproval
<1>3. ApprovalInv => WritesWereApproved
  BY DEF ApprovalInv
<1>4. Spec => []IndInv
  BY InitIndInv, NextIndInv, PTL DEF Spec
<1>5. ASSUME OneAtATime PROVE Spec => []WritesWereApproved
  <2>1. IndInv /\ ApprovalInv /\ [Next]_vars => ApprovalInv'
    BY <1>2, <1>5
  <2> QED
    BY <1>1, <1>3, <1>4, <2>1, PTL DEF Spec
<1> QED
  BY <1>5

-----------------------------------------------------------------------------
(* A write that succeeded is not sent again.                               *)

Succeeded == {dispatched[i].hash : i \in {j \in DOMAIN dispatched : dispatched[j].outcome = "success"}}

\* The copy of the row that counts knows every success, except the one whose observation
\* is about to be committed; and a write on its way to the dispatcher has not succeeded yet.
ExecutedInv ==
    /\ NoWriteAfterSuccess
    /\ task.status = "absent" => task.executed = {}
    /\ task.status = "lost" => \A h \in Handlers : call[h].pc = "idle"
    /\ task.status # "lost" => \A h \in Handlers :
         LET c == call[h] IN
         /\ c.pc \in {"idle", "enter"} => Succeeded \subseteq task.executed
         /\ c.pc \in {"resume", "loop", "gate", "dispatch"} => Succeeded \subseteq c.st.executed
         /\ c.pc \in {"persist", "commit"} =>
              \/ Succeeded \subseteq c.st.executed
              \/ /\ c.decision.name \in WriteActions /\ c.observation.status = "success"
                 /\ Succeeded \subseteq c.st.executed \cup {c.hash}
         /\ c.pc = "dispatch" /\ c.decision.name \in WriteActions => c.hash \notin c.st.executed

\* A save of a row that knows every success.
LEMMA SaveExecuted ==
    ASSUME IndInv, ExecutedInv, OneAtATime, NEW h \in Handlers, NEW st \in TaskRow,
           Succeeded \subseteq st.executed, st.status \notin {"lost", "absent"},
           Save(h, st), UNCHANGED dispatched
    PROVE  ExecutedInv'
<1>1. Succeeded' = Succeeded /\ NoWriteAfterSuccess'
  BY DEF ExecutedInv, Succeeded, NoWriteAfterSuccess
<1>2. /\ [Idle EXCEPT !.pc = "loop", !.st = st].pc = "loop"
      /\ [Idle EXCEPT !.pc = "loop", !.st = st].st = st
      /\ Idle.pc = "idle"
  BY DEF Idle
<1>3. \A k \in Handlers : k = h
  BY DEF OneAtATime
<1>4. task' = st
  BY DEF Save
<1>5. call'[h] = IF st.status = "running" THEN [Idle EXCEPT !.pc = "loop", !.st = st] ELSE Idle
  BY DEF Save, IndInv, TypeOK
<1>6. CASE st.status = "running"
  BY <1>1, <1>2, <1>3, <1>4, <1>5, <1>6 DEF ExecutedInv
<1>7. CASE st.status # "running"
  BY <1>1, <1>2, <1>3, <1>4, <1>5, <1>7 DEF ExecutedInv
<1> QED
  BY <1>6, <1>7

\* A change of the only handler's local state.
LEMMA CallExecuted ==
    ASSUME IndInv, ExecutedInv, OneAtATime, NEW h \in Handlers, NEW c,
           call' = [call EXCEPT ![h] = c], UNCHANGED <<task, dispatched>>,
           task.status # "lost",
           \/ c.pc \in {"idle", "enter"} /\ Succeeded \subseteq task.executed
           \/ c.pc \in {"resume", "loop", "gate"} /\ Succeeded \subseteq c.st.executed
           \/ /\ c.pc = "dispatch" /\ Succeeded \subseteq c.st.executed
              /\ c.decision.name \in WriteActions => c.hash \notin c.st.executed
           \/ /\ c.pc \in {"persist", "commit"}
              /\ \/ Succeeded \subseteq c.st.executed
                 \/ /\ c.decision.name \in WriteActions /\ c.observation.status = "success"
                    /\ Succeeded \subseteq c.st.executed \cup {c.hash}
    PROVE  ExecutedInv'
<1>1. Succeeded' = Succeeded /\ NoWriteAfterSuccess'
  BY DEF ExecutedInv, Succeeded, NoWriteAfterSuccess
<1>2. \A k \in Handlers : k = h /\ call'[k] = c
  BY DEF OneAtATime, IndInv, TypeOK
<1> QED
  BY <1>1, <1>2 DEF ExecutedInv

\* A request is being served only while the task is there.
LEMMA ServedIsThere ==
    ASSUME ExecutedInv, NEW h \in Handlers, call[h].pc # "idle"
    PROVE  task.status # "lost"
BY DEF ExecutedInv

\* The steps before the gate.
LEMMA LoopExecuted ==
    ASSUME IndInv, ExecutedInv, OneAtATime, NEW h \in Handlers,
           Invoke(h) \/ StopAtMaxSteps(h) \/ PlannerFails(h) \/ Decide(h)
    PROVE  ExecutedInv'
<1> DEFINE st == call[h].st
           row == [st EXCEPT !.status = "failed"]
<1>1. call[h] \in Call /\ st \in TaskRow
  BY DEF IndInv, TypeOK, Call
<1>2. row \in TaskRow /\ row.executed = st.executed /\ row.status = "failed"
  BY <1>1 DEF TaskRow, TerminalStatus
<1>3. At(h, "loop") => task.status # "lost" /\ Succeeded \subseteq st.executed
  BY ServedIsThere DEF At, ExecutedInv
<1>4. CASE Invoke(h)
  <2>1. Succeeded \subseteq NewTask.executed /\ NewTask.status = "running"
    BY <1>4 DEF Invoke, At, ExecutedInv, NewTask
  <2> QED
    BY <1>4, <2>1, EmptyTypes, SaveExecuted DEF Invoke, ghosts
<1>5. CASE StopAtMaxSteps(h)
  <2> HIDE DEF row
  <2> QED
    BY <1>2, <1>3, <1>5, SaveExecuted DEF StopAtMaxSteps, ghosts, row
<1>6. CASE PlannerFails(h)
  BY <1>2, <1>3, <1>6, SaveExecuted DEF PlannerFails, ghosts
<1>7. CASE Decide(h)
  <2>1. PICK d \in NextDecisions(st) :
          call' = [call EXCEPT ![h] = [call[h] EXCEPT !.pc = "gate", !.decision = d]]
    BY <1>7 DEF Decide, IndInv, TypeOK
  <2> DEFINE c == [call[h] EXCEPT !.pc = "gate", !.decision = d]
  <2>2. c.st = st /\ c.pc = "gate"
    BY <1>1 DEF Call
  <2>3. UNCHANGED <<task, dispatched>>
    BY <1>7 DEF Decide, ghosts
  <2> HIDE DEF c
  <2> QED
    BY <1>3, <1>7, <2>1, <2>2, <2>3, CallExecuted DEF c, Decide
<1> QED
  BY <1>4, <1>5, <1>6, <1>7

\* The gate: Proceed lets a write through only if its hash has not been executed.
LEMMA GateExecuted ==
    ASSUME IndInv, ExecutedInv, OneAtATime, NEW h \in Handlers, Gate(h)
    PROVE  ExecutedInv'
<1> DEFINE st == call[h].st
           d == call[h].decision
<1>1. call[h] \in Call /\ st \in TaskRow /\ Midway(call[h])
  BY DEF IndInv, TypeOK, Call
<1>2. At(h, "gate")
  BY DEF Gate, StopRepeating, AskUser, Finish, RejectUnprepared, SkipExecuted,
         AskConfirmation, Proceed, Passes
<1>3. task.status # "lost" /\ Succeeded \subseteq st.executed
  BY <1>2, ServedIsThere DEF At, ExecutedInv
<1>4. d \in Decision /\ st.step_count < MaxSteps
  BY <1>1, <1>2 DEF At, Midway
<1>5. \A s \in ObservationStatus :
        /\ Apply(st, d, Observed(s)) \in TaskRow
        /\ Apply(st, d, Observed(s)).executed = st.executed
        /\ Apply(st, d, Observed(s)).status \in {"running", "failed"}
  <2>1. \A s \in ObservationStatus : Apply(st, d, Observed(s)).status \in {"running", "failed"}
    BY <1>1 DEF Apply, TaskRow
  <2> QED
    BY <1>1, <1>4, <2>1, EmptyTypes, ApplyType, ApplyKeepsHashes
<1>6. nextId \in Nat
  BY DEF IndInv, TypeOK
<1>7. CASE StopRepeating(h)
  <2> DEFINE row == [st EXCEPT !.status = "failed"]
  <2>1. row \in TaskRow /\ row.executed = st.executed /\ row.status = "failed"
    BY <1>1 DEF TaskRow, TerminalStatus
  <2> QED
    BY <1>3, <1>7, <2>1, SaveExecuted DEF StopRepeating, ghosts
<1>8. CASE AskUser(h)
  <2> DEFINE question == [id |-> nextId, kind |-> "clarify", hash |-> NoHash]
             row == [Apply(st, d, Observed("needs_input")) EXCEPT
                       !.status = "waiting_user", !.pending_interaction = question]
  <2>1. question \in Interaction
    BY <1>6 DEF Interaction
  <2>2. row \in TaskRow /\ row.executed = st.executed /\ row.status = "waiting_user"
    BY <1>5, <2>1 DEF TaskRow, ObservationStatus
  <2> QED
    BY <1>3, <1>8, <2>2, SaveExecuted DEF AskUser, ghosts
<1>9. CASE Finish(h)
  <2> DEFINE row == [Apply(st, d, Observed("success")) EXCEPT !.status = "completed"]
  <2>1. row \in TaskRow /\ row.executed = st.executed /\ row.status = "completed"
    BY <1>5 DEF TaskRow, TerminalStatus, ObservationStatus
  <2> QED
    BY <1>3, <1>9, <2>1, SaveExecuted DEF Finish, ghosts
<1>10. CASE RejectUnprepared(h)
  BY <1>3, <1>5, <1>10, SaveExecuted DEF RejectUnprepared, ObservationStatus, ghosts
<1>11. CASE SkipExecuted(h)
  BY <1>3, <1>5, <1>11, SaveExecuted DEF SkipExecuted, ObservationStatus
<1>12. CASE AskConfirmation(h)
  <2> DEFINE question == [id |-> nextId, kind |-> "confirm", hash |-> HashNow(h)]
             row == [st EXCEPT !.status = "waiting_user", !.pending_decision = d,
                               !.pending_interaction = question]
  <2>1. HashNow(h) \in Hash
    BY <1>12, HashNowType DEF AskConfirmation
  <2>2. question \in Interaction
    BY <1>6, <2>1 DEF Interaction
  <2>3. row \in TaskRow /\ row.executed = st.executed /\ row.status = "waiting_user"
    BY <1>1, <1>4, <2>2 DEF TaskRow
  <2> QED
    BY <1>3, <1>12, <2>3, SaveExecuted DEF AskConfirmation, ghosts
<1>13. CASE Proceed(h)
  <2> DEFINE c == [call[h] EXCEPT !.pc = "dispatch",
                                  !.hash = IF IsWrite(h) THEN HashNow(h) ELSE NoHash]
  <2>1. c.st = st /\ c.decision = d /\ c.pc = "dispatch" /\ (IsWrite(h) => c.hash = HashNow(h))
    BY <1>1 DEF Call
  <2>2. IsWrite(h) => HashNow(h) \notin st.executed
    BY <1>13 DEF Proceed
  <2>3. call' = [call EXCEPT ![h] = c] /\ UNCHANGED <<task, dispatched>>
    BY <1>13 DEF Proceed, ghosts, IndInv, TypeOK
  <2> HIDE DEF c
  <2> QED
    BY <1>3, <2>1, <2>2, <2>3, CallExecuted DEF IsWrite
<1> QED
  BY <1>7, <1>8, <1>9, <1>10, <1>11, <1>12, <1>13 DEF Gate

\* The dispatcher: what is sent had not succeeded, and its success is known to the handler.
LEMMA DispatchExecuted ==
    ASSUME IndInv, ApprovalInv, ExecutedInv, OneAtATime, NEW h \in Handlers, Dispatch(h)
    PROVE  ExecutedInv'
<1> DEFINE st == call[h].st
           d == call[h].decision
<1>1. call[h] \in Call /\ At(h, "dispatch")
  BY DEF IndInv, TypeOK, Dispatch, DispatchRaises, GenerateDraft, ReadTable,
         PrepareOperation, MatchRecord, ExecuteWrite
<1>2. /\ task.status # "lost" /\ Succeeded \subseteq st.executed
      /\ d.name \in WriteActions => call[h].hash \notin st.executed
  BY <1>1, ServedIsThere DEF At, ExecutedInv
<1>3. UNCHANGED task
  BY DEF Dispatch, DispatchRaises, GenerateDraft, ReadTable, PrepareOperation,
         MatchRecord, ExecuteWrite
<1>4. CASE UNCHANGED dispatched
  <2>1. PICK ob : Yields(h, ob)
    BY DEF Dispatch, DispatchRaises, GenerateDraft, ReadTable, PrepareOperation,
           MatchRecord, ExecuteWrite
  <2> DEFINE c == [call[h] EXCEPT !.pc = "persist", !.observation = ob]
  <2>2. c.st = st /\ c.pc = "persist"
    BY <1>1 DEF Call
  <2>3. call' = [call EXCEPT ![h] = c]
    BY <2>1 DEF Yields
  <2> HIDE DEF c
  <2> QED
    BY <1>2, <1>3, <1>4, <2>2, <2>3, CallExecuted
<1>5. CASE dispatched' # dispatched
  <2> DEFINE hash == ExecutionHash(d, prepared)
  <2>1. ExecuteWrite(h) /\ prepared.operation = d.name
    BY <1>5 DEF Dispatch, DispatchRaises, GenerateDraft, ReadTable, PrepareOperation,
                MatchRecord, ExecuteWrite, ghosts
  <2>2. PICK target, outcome, applied :
          /\ outcome \in ObservationStatus
          /\ Yields(h, Observed(outcome))
          /\ dispatched' = Append(dispatched, [hash |-> hash, target |-> target,
                                               outcome |-> outcome, applied |-> applied])
    <3> DEFINE tgt == TargetOf(call[h].st, call[h].decision, prepared)
    <3>1. PICK o \in {"success", "retryable_error", "no_match", "needs_input", "terminal_error"},
               b \in BOOLEAN :
            /\ Yields(h, Observed(o))
            /\ dispatched' = Append(dispatched,
                 [hash |-> ExecutionHash(call[h].decision, prepared), target |-> tgt,
                  outcome |-> o, applied |-> b])
      BY <2>1 DEF ExecuteWrite
    <3>2. o \in ObservationStatus
      BY DEF ObservationStatus
    <3> HIDE DEF tgt
    <3> QED
      BY <3>1, <3>2
  <2> DEFINE c == [call[h] EXCEPT !.pc = "persist", !.observation = Observed(outcome)]
             sent == [hash |-> hash, target |-> target,
                      outcome |-> outcome, applied |-> applied]
  <2>3. /\ c.st = st /\ c.pc = "persist" /\ c.decision = d /\ c.hash = call[h].hash
        /\ c.observation.status = outcome
    BY <1>1 DEF Call, Observed
  <2>4. \A k \in Handlers : k = h /\ call'[k] = c
    BY <2>2 DEF Yields, OneAtATime, IndInv, TypeOK
  <2>5. d.name \in WriteActions /\ call[h].hash = hash
    BY <1>1, <2>1 DEF ApprovalInv, At, ExecuteWrite
  <2>6. dispatched \in Seq(Dispatched)
    BY DEF IndInv, TypeOK
  <2> HIDE DEF hash, c
  <2>7. /\ DOMAIN dispatched' = 1..(Len(dispatched) + 1)
        /\ DOMAIN dispatched = 1..Len(dispatched)
        /\ \A i \in DOMAIN dispatched : dispatched'[i] = dispatched[i]
        /\ dispatched'[Len(dispatched) + 1] = sent
    BY <2>2, <2>6
  <2>8. sent.hash = hash /\ sent.outcome = outcome
    OBVIOUS
  <2> HIDE DEF sent
  <2>9. \A i \in DOMAIN dispatched : dispatched[i].outcome = "success" => dispatched[i].hash # hash
    BY <1>2, <2>5 DEF Succeeded
  <2>10. NoWriteAfterSuccess'
    <3> SUFFICES ASSUME NEW i \in DOMAIN dispatched', NEW j \in DOMAIN dispatched', i < j,
                        dispatched'[i].outcome = "success"
                 PROVE  dispatched'[i].hash # dispatched'[j].hash
      BY DEF NoWriteAfterSuccess
    <3>1. Len(dispatched) \in Nat
      BY <2>6
    <3>2. i \in DOMAIN dispatched
      BY <2>7, <3>1
    <3>3. CASE j \in DOMAIN dispatched
      BY <2>7, <3>2, <3>3 DEF ExecutedInv, NoWriteAfterSuccess
    <3>4. CASE j \notin DOMAIN dispatched
      <4>1. j = Len(dispatched) + 1
        BY <2>7, <3>1, <3>4
      <4> QED
        BY <2>7, <2>8, <2>9, <3>2, <4>1
    <3> QED
      BY <3>3, <3>4
  <2>11. \/ Succeeded' \subseteq st.executed
         \/ outcome = "success" /\ Succeeded' \subseteq st.executed \cup {hash}
    <3>1. \A i \in DOMAIN dispatched' :
            \/ i \in DOMAIN dispatched /\ dispatched'[i] = dispatched[i]
            \/ dispatched'[i] = sent
      <4>1. Len(dispatched) \in Nat
        BY <2>6
      <4> QED
        BY <2>7, <4>1
    <3>2. \A i \in DOMAIN dispatched : dispatched[i].outcome = "success" =>
            dispatched[i].hash \in st.executed
      BY <1>2 DEF Succeeded
    <3> QED
      BY <2>8, <3>1, <3>2 DEF Succeeded
  <2> QED
    BY <1>2, <1>3, <2>3, <2>4, <2>5, <2>10, <2>11 DEF ExecutedInv
<1> QED
  BY <1>4, <1>5

\* The end of the turn: the success becomes part of the row.
LEMMA RecordExecuted ==
    ASSUME IndInv, ExecutedInv, OneAtATime, NEW h \in Handlers, Persist(h) \/ Commit(h)
    PROVE  ExecutedInv'
<1> DEFINE c == call[h]
<1>1. c \in Call /\ c.st \in TaskRow /\ c.observation \in Observation /\ Midway(c)
  BY DEF IndInv, TypeOK, Call
<1>2. /\ task.status # "lost"
      /\ \/ Succeeded \subseteq c.st.executed
         \/ /\ c.decision.name \in WriteActions /\ c.observation.status = "success"
            /\ Succeeded \subseteq c.st.executed \cup {c.hash}
  BY ServedIsThere DEF Persist, Commit, At, ExecutedInv
<1>3. CASE Persist(h)
  <2> DEFINE next == [c EXCEPT !.pc = "commit"]
  <2>1. /\ next.st = c.st /\ next.pc = "commit" /\ next.decision = c.decision
        /\ next.hash = c.hash /\ next.observation = c.observation
    BY <1>1 DEF Call
  <2>2. call' = [call EXCEPT ![h] = next] /\ UNCHANGED <<task, dispatched>>
    BY <1>3 DEF Persist, ghosts, IndInv, TypeOK
  <2> HIDE DEF next
  <2> QED
    BY <1>2, <2>1, <2>2, CallExecuted
<1>4. CASE Commit(h)
  <2>1. c.decision \in Decision /\ c.st.step_count < MaxSteps
    BY <1>1, <1>4 DEF Commit, At, Midway
  <2>2. /\ Consumed(c) \in TaskRow /\ Consumed(c).step_count = c.st.step_count
        /\ Succeeded \subseteq Consumed(c).executed
    <3>1. CASE c.decision.name \in WriteActions /\ c.observation.status = "success"
      <4>1. c.hash \in Hash
        BY <1>1, <1>4, <3>1 DEF Commit, At, Midway
      <4> QED
        BY <1>1, <1>2, <3>1, <4>1 DEF Consumed, TaskRow
    <3>2. CASE ~(c.decision.name \in WriteActions /\ c.observation.status = "success")
      BY <1>1, <1>2, <3>2 DEF Consumed
    <3> QED
      BY <3>1, <3>2
  <2> DEFINE row == Apply(Consumed(c), c.decision, c.observation)
  <2>3. row \in TaskRow /\ row.executed = Consumed(c).executed
    BY <1>1, <2>1, <2>2, ApplyType, ApplyKeepsHashes
  <2>4. row.status \in {"running", "failed"}
    BY <2>2 DEF Apply, TaskRow
  <2>5. Save(h, row) /\ UNCHANGED dispatched
    BY <1>4 DEF Commit, ghosts
  <2> HIDE DEF row
  <2> QED
    BY <2>2, <2>3, <2>4, <2>5, SaveExecuted
<1> QED
  BY <1>3, <1>4

\* The resume calls work on a copy of the row and keep what was executed.
LEMMA ResumeExecuted ==
    ASSUME IndInv, ExecutedInv, OneAtATime, NEW h \in Handlers,
           ResumeRead(h) \/ Resume(h) \/ EnterLoop(h)
    PROVE  ExecutedInv'
<1> DEFINE st == call[h].st
           entering == [Idle EXCEPT !.pc = "enter"]
<1>1. call[h] \in Call /\ st \in TaskRow /\ task \in TaskRow
  BY DEF IndInv, TypeOK, Call
<1>2. entering.pc = "enter" /\ Idle.pc = "idle"
  BY DEF Idle
<1>3. At(h, "resume") => task.status # "lost" /\ Succeeded \subseteq st.executed
  BY ServedIsThere DEF At, ExecutedInv
<1>4. \A row \in TaskRow :
        /\ SaveAndEnter(h, row) /\ row.executed = st.executed /\ row.status = "running"
        /\ At(h, "resume") /\ UNCHANGED dispatched
        => ExecutedInv'
  <2> SUFFICES ASSUME NEW row \in TaskRow, SaveAndEnter(h, row), row.executed = st.executed,
                      row.status = "running", At(h, "resume"), UNCHANGED dispatched
               PROVE  ExecutedInv'
    OBVIOUS
  <2>1. task' = row /\ \A k \in Handlers : k = h /\ call'[k] = entering
    BY DEF SaveAndEnter, OneAtATime, IndInv, TypeOK
  <2>2. Succeeded' = Succeeded /\ NoWriteAfterSuccess'
    BY DEF ExecutedInv, Succeeded, NoWriteAfterSuccess
  <2> HIDE DEF entering
  <2> QED
    BY <1>2, <1>3, <2>1, <2>2 DEF ExecutedInv
<1>5. CASE ResumeRead(h)
  <2>1. PICK reply :
          call' = [call EXCEPT ![h] = [Idle EXCEPT !.pc = "resume", !.st = task, !.reply = reply]]
    BY <1>5 DEF ResumeRead
  <2> DEFINE c == [Idle EXCEPT !.pc = "resume", !.st = task, !.reply = reply]
  <2>2. c.st = task /\ c.pc = "resume"
    BY DEF Idle
  <2>3. UNCHANGED <<task, dispatched>> /\ task.status = "waiting_user" /\ call[h].pc = "idle"
    BY <1>5 DEF ResumeRead, ghosts, At
  <2>4. Succeeded \subseteq task.executed
    BY <2>3 DEF ExecutedInv
  <2> HIDE DEF c
  <2> QED
    BY <2>1, <2>2, <2>3, <2>4, CallExecuted DEF c
<1>6. CASE ResumeCancel(h)
  <2> DEFINE row == [st EXCEPT !.status = "cancelled", !.pending_interaction = NoInteraction,
                               !.pending_decision = NoDecision]
  <2>1. row \in TaskRow /\ row.executed = st.executed /\ row.status = "cancelled"
    BY <1>1, EmptyTypes DEF TaskRow, TerminalStatus
  <2> QED
    BY <1>3, <1>6, <2>1, SaveExecuted DEF ResumeCancel, ghosts
<1>7. CASE ResumeApprove(h)
  <2> DEFINE row == [st EXCEPT !.approved = @ \cup {st.pending_interaction.hash},
                               !.pending_interaction = NoInteraction, !.status = "running"]
  <2>1. st.pending_interaction.hash \in Hash
    BY <1>1, <1>7 DEF ResumeApprove, IndInv, Midway, TaskRow, Interaction
  <2>2. row \in TaskRow /\ row.executed = st.executed /\ row.status = "running"
    BY <1>1, <2>1, EmptyTypes DEF TaskRow
  <2>3. SaveAndEnter(h, row) /\ At(h, "resume") /\ UNCHANGED dispatched
    BY <1>7 DEF ResumeApprove
  <2> HIDE DEF row
  <2> QED
    BY <1>4, <2>2, <2>3
<1>8. CASE ResumeReply(h)
  <2> DEFINE row == [st EXCEPT !.pending_interaction = NoInteraction,
                               !.pending_decision = NoDecision, !.status = "running"]
  <2>1. row \in TaskRow /\ row.executed = st.executed /\ row.status = "running"
    BY <1>1, EmptyTypes DEF TaskRow
  <2>2. SaveAndEnter(h, row) /\ At(h, "resume") /\ UNCHANGED dispatched
    BY <1>8 DEF ResumeReply, ghosts
  <2> HIDE DEF row
  <2> QED
    BY <1>4, <2>1, <2>2
<1>9. CASE EnterLoop(h)
  <2> DEFINE c == [Idle EXCEPT !.pc = "loop", !.st = task]
  <2>1. c.st = task /\ c.pc = "loop"
    BY DEF Idle
  <2>2. call' = [call EXCEPT ![h] = c] \/ call' = [call EXCEPT ![h] = Idle]
    BY <1>9 DEF EnterLoop
  <2>3. UNCHANGED <<task, dispatched>>
    BY <1>9 DEF EnterLoop, ghosts
  <2>4. task.status # "lost" /\ Succeeded \subseteq task.executed
    BY <1>9, ServedIsThere DEF EnterLoop, At, ExecutedInv
  <2> HIDE DEF c
  <2> QED
    BY <1>2, <2>1, <2>2, <2>3, <2>4, CallExecuted
<1> QED
  BY <1>5, <1>6, <1>7, <1>8, <1>9 DEF Resume

\* Every step keeps the executed hashes straight.
LEMMA NextExecuted ==
    OneAtATime /\ IndInv /\ ApprovalInv /\ ExecutedInv /\ [Next]_vars => ExecutedInv'
<1> SUFFICES ASSUME OneAtATime, IndInv, ApprovalInv, ExecutedInv, [Next]_vars
             PROVE  ExecutedInv'
  OBVIOUS
<1>1. ASSUME NEW h \in Handlers, Invoke(h) \/ ResumeRead(h) \/ Advance(h) PROVE ExecutedInv'
  BY <1>1, LoopExecuted, GateExecuted, DispatchExecuted, RecordExecuted, ResumeExecuted
  DEF Advance
<1>2. CASE Restart
  <2>1. task'.status = "lost" /\ \A h \in Handlers : call'[h].pc = "idle"
    BY <1>2 DEF Restart, NewTask, Idle
  <2>2. NoWriteAfterSuccess'
    BY <1>2 DEF Restart, ghosts, ExecutedInv, NoWriteAfterSuccess
  <2> QED
    BY <2>1, <2>2 DEF ExecutedInv
<1>3. CASE UNCHANGED vars
  BY <1>3 DEF vars, artifacts, ghosts, ExecutedInv, Succeeded, NoWriteAfterSuccess
<1> QED
  BY <1>1, <1>2, <1>3 DEF Next

\* README, "a write action is confirmed first and executed only once": when the requests of
\* a task do not overlap, a write that Feishu reported as done is never sent again.
THEOREM ExecutedOnce == OneAtATime => (Spec => []NoWriteAfterSuccess)
<1>1. Init => ApprovalInv /\ ExecutedInv
  <2>1. Idle.st.approved = {} /\ Idle.pc = "idle"
    BY DEF Idle, NewTask
  <2>2. Init => task.approved = {} /\ task.executed = {} /\ task.status = "absent"
    BY DEF Init, NewTask
  <2> QED
    BY <2>1, <2>2 DEF Init, ApprovalInv, WritesWereApproved, ExecutedInv,
                      NoWriteAfterSuccess, Succeeded
<1>2. ExecutedInv => NoWriteAfterSuccess
  BY DEF ExecutedInv
<1>3. Spec => []IndInv
  BY InitIndInv, NextIndInv, PTL DEF Spec
<1>4. ASSUME OneAtATime PROVE Spec => []NoWriteAfterSuccess
  <2>1. IndInv /\ ApprovalInv /\ ExecutedInv /\ [Next]_vars => (ApprovalInv /\ ExecutedInv)'
    BY <1>4, NextApproval, NextExecuted
  <2> QED
    BY <1>1, <1>2, <1>3, <2>1, PTL DEF Spec
<1> QED
  BY <1>4

-----------------------------------------------------------------------------
(* A write that timed out is repeated a bounded number of times.           *)

RetriesOf(a) == {i \in DOMAIN dispatched : /\ dispatched[i].hash.decision.name = a
                                           /\ dispatched[i].outcome = "retryable_error"}

\* The row has counted every write that timed out, and would go on after it.
Counted(st) ==
    \A a \in WriteActions : /\ Cardinality(RetriesOf(a)) <= st.retry_counts[a]
                            /\ st.retry_counts[a] <= 2
\* The same, but for the one whose observation is about to be committed.
AlmostCounted(c) ==
    \A a \in WriteActions :
        /\ c.st.retry_counts[a] <= 2
        /\ IF c.decision.name = a /\ c.observation.status = "retryable_error"
           THEN Cardinality(RetriesOf(a)) <= c.st.retry_counts[a] + 1
           ELSE Cardinality(RetriesOf(a)) <= c.st.retry_counts[a]

\* As for the executed hashes, one copy of the row counts: the row itself between two
\* requests, the handler's copy while one is served.
RetryInv ==
    /\ RetriesAreBounded
    /\ task.status = "absent" => \A a \in WriteActions : Cardinality(RetriesOf(a)) = 0
    /\ task.status \in {"absent", "lost"} => \A h \in Handlers : call[h].pc = "idle"
    /\ task.status # "lost" => \A h \in Handlers :
         /\ call[h].pc \in {"idle", "enter"} /\ task.status \in {"running", "waiting_user"} =>
              Counted(task)
         /\ call[h].pc \in {"resume", "loop", "gate", "dispatch"} => Counted(call[h].st)
         /\ call[h].pc \in {"persist", "commit"} => AlmostCounted(call[h])

LEMMA WritesAreActions == WriteActions \subseteq Catalog
BY DEF WriteActions, Catalog

\* The reducer counts a retry, and goes on only below three of them.
LEMMA ApplyCounts ==
    ASSUME NEW st \in TaskRow, NEW d \in Decision, NEW ob, NEW a \in WriteActions
    PROVE  /\ d.name = a /\ ob.status = "retryable_error" =>
                /\ Apply(st, d, ob).retry_counts[a] = st.retry_counts[a] + 1
                /\ Apply(st, d, ob).status = "running" => st.retry_counts[a] + 1 <= 2
           /\ ~(d.name = a /\ ob.status = "retryable_error") =>
                Apply(st, d, ob).retry_counts[a] = st.retry_counts[a]
<1>1. /\ st.retry_counts \in [Catalog -> Nat] /\ a \in Catalog /\ d.name \in Catalog
  BY WritesAreActions DEF TaskRow, Decision
<1> DEFINE tries == st.retry_counts[d.name] + (IF ob.status = "retryable_error" THEN 1 ELSE 0)
<1>2. /\ tries \in Nat
      /\ ob.status = "retryable_error" => tries = st.retry_counts[d.name] + 1
      /\ ob.status # "retryable_error" => tries = st.retry_counts[d.name]
  BY <1>1
<1>3. Apply(st, d, ob).retry_counts = [st.retry_counts EXCEPT ![d.name] = tries]
  BY DEF Apply, TaskRow
<1>4. ob.status = "retryable_error" /\ Apply(st, d, ob).status = "running" => ~(tries >= 3)
  BY DEF Apply, TaskRow
<1> HIDE DEF tries
<1> QED
  BY <1>1, <1>2, <1>3, <1>4

\* A save of a row that has counted every retry, if it is one that goes on.
LEMMA SaveCounts ==
    ASSUME IndInv, RetryInv, OneAtATime, NEW h \in Handlers, NEW st \in TaskRow,
           st.status \in {"running", "waiting_user"} => Counted(st),
           st.status \notin {"lost", "absent"},
           Save(h, st), UNCHANGED dispatched
    PROVE  RetryInv'
<1>1. \A a : RetriesOf(a)' = RetriesOf(a)
  BY DEF RetriesOf
<1>2. RetriesAreBounded'
  BY DEF RetryInv, RetriesAreBounded
<1>3. /\ [Idle EXCEPT !.pc = "loop", !.st = st].pc = "loop"
      /\ [Idle EXCEPT !.pc = "loop", !.st = st].st = st
      /\ Idle.pc = "idle"
  BY DEF Idle
<1>4. task' = st /\ \A k \in Handlers : k = h
  BY DEF Save, OneAtATime
<1>5. call'[h] = IF st.status = "running" THEN [Idle EXCEPT !.pc = "loop", !.st = st] ELSE Idle
  BY DEF Save, IndInv, TypeOK
<1>6. CASE st.status = "running"
  <2>1. call'[h].pc = "loop" /\ call'[h].st = st
    BY <1>3, <1>5, <1>6
  <2>2. Counted(call[h].st)'
    BY <1>1, <1>6, <2>1 DEF Counted
  <2> QED
    BY <1>2, <1>4, <1>6, <2>1, <2>2 DEF RetryInv
<1>7. CASE st.status # "running"
  <2>1. call'[h].pc = "idle"
    BY <1>3, <1>5, <1>7
  <2>2. st.status = "waiting_user" => Counted(task)'
    BY <1>1, <1>4 DEF Counted
  <2> QED
    BY <1>2, <1>4, <1>7, <2>1, <2>2 DEF RetryInv
<1> QED
  BY <1>6, <1>7

\* A change of the only handler's local state.
LEMMA CallCounts ==
    ASSUME IndInv, RetryInv, OneAtATime, NEW h \in Handlers, NEW c,
           call' = [call EXCEPT ![h] = c], UNCHANGED <<task, dispatched>>,
           task.status \notin {"absent", "lost"},
           \/ /\ c.pc \in {"idle", "enter"}
              /\ task.status \in {"running", "waiting_user"} => Counted(task)
           \/ c.pc \in {"resume", "loop", "gate", "dispatch"} /\ Counted(c.st)
           \/ c.pc \in {"persist", "commit"} /\ AlmostCounted(c)
    PROVE  RetryInv'
<1>1. \A a : RetriesOf(a)' = RetriesOf(a)
  BY DEF RetriesOf
<1>2. RetriesAreBounded'
  BY DEF RetryInv, RetriesAreBounded
<1>3. \A k \in Handlers : k = h /\ call'[k] = c
  BY DEF OneAtATime, IndInv, TypeOK
<1>4. task' = task
  OBVIOUS
<1>5. CASE /\ c.pc \in {"idle", "enter"}
           /\ task.status \in {"running", "waiting_user"} => Counted(task)
  <2>1. task.status \in {"running", "waiting_user"} => Counted(task)'
    BY <1>1, <1>4, <1>5 DEF Counted
  <2> QED
    BY <1>1, <1>2, <1>3, <1>4, <1>5, <2>1 DEF RetryInv
<1>6. CASE c.pc \in {"resume", "loop", "gate", "dispatch"} /\ Counted(c.st)
  <2>1. Counted(call[h].st)'
    BY <1>1, <1>3, <1>6 DEF Counted
  <2> QED
    BY <1>1, <1>2, <1>3, <1>4, <1>6, <2>1 DEF RetryInv
<1>7. CASE c.pc \in {"persist", "commit"} /\ AlmostCounted(c)
  <2>1. AlmostCounted(call[h])'
    BY <1>1, <1>3, <1>7 DEF AlmostCounted
  <2> QED
    BY <1>1, <1>2, <1>3, <1>4, <1>7, <2>1 DEF RetryInv
<1> QED
  BY <1>5, <1>6, <1>7

\* Only the counts matter: any other field may change.
LEMMA CountsKept ==
    ASSUME NEW st, NEW row, Counted(st),
           \A a \in WriteActions : row.retry_counts[a] = st.retry_counts[a]
    PROVE  Counted(row)
BY DEF Counted

\* The steps before the gate.
LEMMA LoopCounts ==
    ASSUME IndInv, RetryInv, OneAtATime, NEW h \in Handlers,
           Invoke(h) \/ StopAtMaxSteps(h) \/ PlannerFails(h) \/ Decide(h)
    PROVE  RetryInv'
<1> DEFINE st == call[h].st
           row == [st EXCEPT !.status = "failed"]
<1>1. call[h] \in Call /\ st \in TaskRow
  BY DEF IndInv, TypeOK, Call
<1>2. row \in TaskRow /\ row.status = "failed"
  BY <1>1 DEF TaskRow, TerminalStatus
<1>3. At(h, "loop") => task.status \notin {"absent", "lost"} /\ Counted(st)
  BY DEF At, RetryInv
<1>4. CASE Invoke(h)
  <2>1. task.status = "absent" /\ Save(h, NewTask) /\ UNCHANGED dispatched
    BY <1>4 DEF Invoke, ghosts
  <2>2. Counted(NewTask)
    <3>1. \A a \in WriteActions : NewTask.retry_counts[a] = 0
      BY WritesAreActions DEF NewTask
    <3> QED
      BY <2>1, <3>1 DEF RetryInv, Counted
  <2>3. NewTask.status = "running"
    BY DEF NewTask
  <2> QED
    BY <2>1, <2>2, <2>3, EmptyTypes, SaveCounts
<1>5. CASE StopAtMaxSteps(h) \/ PlannerFails(h)
  <2>1. Save(h, row) /\ UNCHANGED dispatched
    BY <1>5 DEF StopAtMaxSteps, PlannerFails, ghosts
  <2> HIDE DEF row
  <2> QED
    BY <1>2, <2>1, SaveCounts
<1>6. CASE Decide(h)
  <2>1. PICK d \in NextDecisions(st) :
          call' = [call EXCEPT ![h] = [call[h] EXCEPT !.pc = "gate", !.decision = d]]
    BY <1>6 DEF Decide, IndInv, TypeOK
  <2> DEFINE c == [call[h] EXCEPT !.pc = "gate", !.decision = d]
  <2>2. c.st = st /\ c.pc = "gate"
    BY <1>1 DEF Call
  <2>3. UNCHANGED <<task, dispatched>> /\ At(h, "loop")
    BY <1>6 DEF Decide, ghosts
  <2> HIDE DEF c
  <2>4. call' = [call EXCEPT ![h] = c]
    BY <2>1 DEF c
  <2> QED
    BY <1>3, <2>2, <2>3, <2>4, CallCounts
<1> QED
  BY <1>4, <1>5, <1>6

\* The gate never counts a retry: it makes observations of its own that are none.
LEMMA GateCounts ==
    ASSUME IndInv, RetryInv, OneAtATime, NEW h \in Handlers, Gate(h)
    PROVE  RetryInv'
<1> DEFINE st == call[h].st
           d == call[h].decision
<1>1. call[h] \in Call /\ st \in TaskRow /\ Midway(call[h])
  BY DEF IndInv, TypeOK, Call
<1>2. At(h, "gate")
  BY DEF Gate, StopRepeating, AskUser, Finish, RejectUnprepared, SkipExecuted,
         AskConfirmation, Proceed, Passes
<1>3. task.status \notin {"absent", "lost"} /\ Counted(st)
  BY <1>2 DEF At, RetryInv
<1>4. d \in Decision /\ st.step_count < MaxSteps
  BY <1>1, <1>2 DEF At, Midway
<1>5. \A s \in {"needs_input", "success"} :
        /\ Apply(st, d, Observed(s)) \in TaskRow
        /\ Apply(st, d, Observed(s)).status \in {"running", "failed"}
        /\ \A a \in WriteActions : Apply(st, d, Observed(s)).retry_counts[a] = st.retry_counts[a]
  <2> SUFFICES ASSUME NEW s \in {"needs_input", "success"}
               PROVE  /\ Apply(st, d, Observed(s)) \in TaskRow
                      /\ Apply(st, d, Observed(s)).status \in {"running", "failed"}
                      /\ \A a \in WriteActions :
                           Apply(st, d, Observed(s)).retry_counts[a] = st.retry_counts[a]
    OBVIOUS
  <2>1. Apply(st, d, Observed(s)).status \in {"running", "failed"}
    BY <1>1 DEF Apply, TaskRow
  <2>2. Observed(s).status = s /\ s \in ObservationStatus /\ s # "retryable_error"
    BY DEF Observed, ObservationStatus
  <2>3. Apply(st, d, Observed(s)) \in TaskRow
    BY <1>1, <1>4, <2>2, EmptyTypes, ApplyType
  <2>4. \A a \in WriteActions : Apply(st, d, Observed(s)).retry_counts[a] = st.retry_counts[a]
    BY <1>1, <1>4, <2>2, ApplyCounts
  <2> QED
    BY <2>1, <2>3, <2>4
<1>6. nextId \in Nat
  BY DEF IndInv, TypeOK
<1>7. CASE StopRepeating(h)
  <2> DEFINE row == [st EXCEPT !.status = "failed"]
  <2>1. row \in TaskRow /\ row.status = "failed"
    BY <1>1 DEF TaskRow, TerminalStatus
  <2> QED
    BY <1>7, <2>1, SaveCounts DEF StopRepeating, ghosts
<1>8. CASE AskUser(h)
  <2> DEFINE question == [id |-> nextId, kind |-> "clarify", hash |-> NoHash]
             row == [Apply(st, d, Observed("needs_input")) EXCEPT
                       !.status = "waiting_user", !.pending_interaction = question]
  <2>1. question \in Interaction
    BY <1>6 DEF Interaction
  <2>2. /\ row \in TaskRow /\ row.status = "waiting_user"
        /\ row.retry_counts = Apply(st, d, Observed("needs_input")).retry_counts
    BY <1>5, <2>1 DEF TaskRow
  <2>3. Save(h, row) /\ UNCHANGED dispatched
    BY <1>8 DEF AskUser, ghosts
  <2> HIDE DEF row
  <2>4. Counted(row)
    BY <1>3, <1>5, <2>2, CountsKept
  <2> QED
    BY <2>2, <2>3, <2>4, SaveCounts
<1>9. CASE Finish(h)
  <2> DEFINE row == [Apply(st, d, Observed("success")) EXCEPT !.status = "completed"]
  <2>1. row \in TaskRow /\ row.status = "completed"
    BY <1>5 DEF TaskRow, TerminalStatus
  <2> QED
    BY <1>9, <2>1, SaveCounts DEF Finish, ghosts
<1>10. CASE RejectUnprepared(h) \/ SkipExecuted(h)
  <2>1. PICK s \in {"needs_input", "success"} : Save(h, Apply(st, d, Observed(s)))
    BY <1>10 DEF RejectUnprepared, SkipExecuted
  <2>2. UNCHANGED dispatched
    BY <1>10 DEF RejectUnprepared, SkipExecuted, ghosts
  <2> DEFINE row == Apply(st, d, Observed(s))
  <2>3. row \in TaskRow /\ row.status \in {"running", "failed"}
        /\ \A a \in WriteActions : row.retry_counts[a] = st.retry_counts[a]
    BY <1>5
  <2>4. Save(h, row)
    BY <2>1
  <2> HIDE DEF row
  <2>5. Counted(row)
    BY <1>3, <2>3, CountsKept
  <2> QED
    BY <2>2, <2>3, <2>4, <2>5, SaveCounts
<1>11. CASE AskConfirmation(h)
  <2> DEFINE question == [id |-> nextId, kind |-> "confirm", hash |-> HashNow(h)]
             row == [st EXCEPT !.status = "waiting_user", !.pending_decision = d,
                               !.pending_interaction = question]
  <2>1. HashNow(h) \in Hash
    BY <1>11, HashNowType DEF AskConfirmation
  <2>2. question \in Interaction
    BY <1>6, <2>1 DEF Interaction
  <2>3. row \in TaskRow /\ row.retry_counts = st.retry_counts /\ row.status = "waiting_user"
    BY <1>1, <1>4, <2>2 DEF TaskRow
  <2>4. Save(h, row) /\ UNCHANGED dispatched
    BY <1>11 DEF AskConfirmation, ghosts
  <2> HIDE DEF row
  <2>5. Counted(row)
    BY <1>3, <2>3, CountsKept
  <2> QED
    BY <2>3, <2>4, <2>5, SaveCounts
<1>12. CASE Proceed(h)
  <2> DEFINE c == [call[h] EXCEPT !.pc = "dispatch",
                                  !.hash = IF IsWrite(h) THEN HashNow(h) ELSE NoHash]
  <2>1. c.st = st /\ c.pc = "dispatch"
    BY <1>1 DEF Call
  <2>2. call' = [call EXCEPT ![h] = c] /\ UNCHANGED <<task, dispatched>>
    BY <1>12 DEF Proceed, ghosts, IndInv, TypeOK
  <2> HIDE DEF c
  <2> QED
    BY <1>3, <2>1, <2>2, CallCounts
<1> QED
  BY <1>7, <1>8, <1>9, <1>10, <1>11, <1>12 DEF Gate

\* A set of positions of the sequence is finite.
LEMMA RetriesFinite ==
    ASSUME IndInv, NEW a
    PROVE  IsFiniteSet(RetriesOf(a)) /\ Cardinality(RetriesOf(a)) \in Nat
<1>1. DOMAIN dispatched = 1..Len(dispatched) /\ Len(dispatched) \in Nat
  BY DEF IndInv, TypeOK
<1>2. IsFiniteSet(1..Len(dispatched))
  BY <1>1, FS_Interval
<1>3. RetriesOf(a) \subseteq 1..Len(dispatched)
  BY <1>1 DEF RetriesOf
<1>4. IsFiniteSet(RetriesOf(a))
  BY <1>2, <1>3, FS_Subset
<1> QED
  BY <1>4, FS_CardinalityType

\* The dispatcher: one more write that timed out is one more, and it was counted below three.
LEMMA DispatchCounts ==
    ASSUME IndInv, RetryInv, OneAtATime, NEW h \in Handlers, Dispatch(h)
    PROVE  RetryInv'
<1> DEFINE st == call[h].st
           d == call[h].decision
<1>1. call[h] \in Call /\ At(h, "dispatch") /\ st \in TaskRow /\ Midway(call[h])
  BY DEF IndInv, TypeOK, Dispatch, DispatchRaises, GenerateDraft, ReadTable,
         PrepareOperation, MatchRecord, ExecuteWrite, Call
<1>2. task.status \notin {"absent", "lost"} /\ Counted(st)
  BY <1>1 DEF At, RetryInv
<1>3. UNCHANGED task
  BY DEF Dispatch, DispatchRaises, GenerateDraft, ReadTable, PrepareOperation,
         MatchRecord, ExecuteWrite
<1>4. \A a \in WriteActions : Cardinality(RetriesOf(a)) \in Nat /\ st.retry_counts[a] \in Nat
  BY <1>1, RetriesFinite, WritesAreActions DEF TaskRow
<1>5. CASE UNCHANGED dispatched
  <2>1. PICK ob : Yields(h, ob)
    BY DEF Dispatch, DispatchRaises, GenerateDraft, ReadTable, PrepareOperation,
           MatchRecord, ExecuteWrite
  <2> DEFINE c == [call[h] EXCEPT !.pc = "persist", !.observation = ob]
  <2>2. c.st = st /\ c.pc = "persist"
    BY <1>1 DEF Call
  <2>3. call' = [call EXCEPT ![h] = c]
    BY <2>1 DEF Yields
  <2> HIDE DEF c
  <2>4. AlmostCounted(c)
    BY <1>2, <1>4, <2>2 DEF Counted, AlmostCounted
  <2> QED
    BY <1>2, <1>3, <1>5, <2>2, <2>3, <2>4, CallCounts
<1>6. CASE dispatched' # dispatched
  <2>1. ExecuteWrite(h) /\ prepared.operation = d.name
    BY <1>6 DEF Dispatch, DispatchRaises, GenerateDraft, ReadTable, PrepareOperation,
                MatchRecord, ExecuteWrite, ghosts
  <2>2. PICK outcome \in ObservationStatus :
          \E sent : /\ sent.hash.decision = d /\ sent.outcome = outcome
                    /\ Yields(h, Observed(outcome))
                    /\ dispatched' = Append(dispatched, sent)
    <3> DEFINE hash == ExecutionHash(call[h].decision, prepared)
               tgt == TargetOf(call[h].st, call[h].decision, prepared)
    <3>1. PICK o \in {"success", "retryable_error", "no_match", "needs_input", "terminal_error"} :
            \E b \in BOOLEAN :
              /\ Yields(h, Observed(o))
              /\ dispatched' = Append(dispatched,
                   [hash |-> hash, target |-> tgt, outcome |-> o, applied |-> b])
      BY <2>1 DEF ExecuteWrite
    <3>2. o \in ObservationStatus /\ hash.decision = d
      BY DEF ObservationStatus, ExecutionHash
    <3> HIDE DEF hash, tgt
    <3> QED
      BY <3>1, <3>2
  <2>3. PICK sent : /\ sent.hash.decision = d /\ sent.outcome = outcome
                    /\ Yields(h, Observed(outcome))
                    /\ dispatched' = Append(dispatched, sent)
    BY <2>2
  <2> DEFINE c == [call[h] EXCEPT !.pc = "persist", !.observation = Observed(outcome)]
             n == Len(dispatched) + 1
  <2>4. /\ c.st = st /\ c.pc = "persist" /\ c.decision = d
        /\ c.observation.status = outcome
    BY <1>1 DEF Call, Observed
  <2>5. \A k \in Handlers : k = h /\ call'[k] = c
    BY <2>3 DEF Yields, OneAtATime, IndInv, TypeOK
  <2> HIDE DEF c
  <2>6. /\ DOMAIN dispatched' = 1..n /\ DOMAIN dispatched = 1..Len(dispatched)
        /\ Len(dispatched) \in Nat
        /\ \A i \in DOMAIN dispatched : dispatched'[i] = dispatched[i]
        /\ dispatched'[n] = sent
    <3>1. dispatched \in Seq(Dispatched)
      BY DEF IndInv, TypeOK
    <3> QED
      BY <2>3, <3>1
  <2>7. ASSUME NEW a \in WriteActions
        PROVE  RetriesOf(a)' = IF d.name = a /\ outcome = "retryable_error"
                               THEN RetriesOf(a) \cup {n} ELSE RetriesOf(a)
    <3>1. RetriesOf(a)' = {i \in 1..n : /\ dispatched'[i].hash.decision.name = a
                                        /\ dispatched'[i].outcome = "retryable_error"}
      BY <2>6 DEF RetriesOf
    <3>2. \A i \in 1..n : i = n \/ i \in 1..Len(dispatched)
      BY <2>6
    <3>3. RetriesOf(a) = {i \in 1..Len(dispatched) :
                            /\ dispatched[i].hash.decision.name = a
                            /\ dispatched[i].outcome = "retryable_error"}
      BY <2>6 DEF RetriesOf
    <3>4. n \in 1..n /\ \A i \in 1..Len(dispatched) : i \in 1..n
      BY <2>6
    <3>5. sent.hash.decision.name = a <=> d.name = a
      BY <2>3
    <3> HIDE DEF n
    <3> QED
      BY <2>3, <2>6, <3>1, <3>2, <3>3, <3>4, <3>5
  <2>8. ASSUME NEW a \in WriteActions
        PROVE  IF d.name = a /\ outcome = "retryable_error"
               THEN Cardinality(RetriesOf(a))' = Cardinality(RetriesOf(a)) + 1
               ELSE Cardinality(RetriesOf(a))' = Cardinality(RetriesOf(a))
    <3>1. IsFiniteSet(RetriesOf(a))
      BY RetriesFinite
    <3>2. n \notin 1..Len(dispatched) /\ RetriesOf(a) \subseteq 1..Len(dispatched)
      BY <2>6 DEF RetriesOf
    <3> HIDE DEF n
    <3>3. Cardinality(RetriesOf(a) \cup {n}) = Cardinality(RetriesOf(a)) + 1
      BY <3>1, <3>2, FS_AddElement
    <3> QED
      BY <2>7, <3>3
  <2>9. AlmostCounted(call[h])'
    <3>1. call'[h] = c
      BY <2>5
    <3> SUFFICES ASSUME NEW a \in WriteActions
                 PROVE  /\ c.st.retry_counts[a] <= 2
                        /\ IF c.decision.name = a /\ c.observation.status = "retryable_error"
                           THEN Cardinality(RetriesOf(a))' <= c.st.retry_counts[a] + 1
                           ELSE Cardinality(RetriesOf(a))' <= c.st.retry_counts[a]
      BY <3>1 DEF AlmostCounted
    <3> QED
      BY <1>2, <1>4, <2>4, <2>8 DEF Counted
  <2>10. RetriesAreBounded'
    <3>1. \A a \in WriteActions : Cardinality(RetriesOf(a))' <= 3
      BY <1>2, <1>4, <2>8 DEF Counted
    <3> QED
      BY <3>1 DEF RetriesAreBounded, RetriesOf
  <2> QED
    BY <1>2, <1>3, <2>4, <2>5, <2>9, <2>10 DEF RetryInv
<1> QED
  BY <1>5, <1>6

\* The end of the turn: the row counts the retry, or ends the task at the third.
LEMMA RecordCounts ==
    ASSUME IndInv, RetryInv, OneAtATime, NEW h \in Handlers, Persist(h) \/ Commit(h)
    PROVE  RetryInv'
<1> DEFINE c == call[h]
<1>1. c \in Call /\ c.st \in TaskRow /\ c.observation \in Observation /\ Midway(c)
  BY DEF IndInv, TypeOK, Call
<1>2. task.status \notin {"absent", "lost"} /\ AlmostCounted(c)
  BY DEF Persist, Commit, At, RetryInv
<1>3. CASE Persist(h)
  <2> DEFINE next == [c EXCEPT !.pc = "commit"]
  <2>1. /\ next.st = c.st /\ next.pc = "commit" /\ next.decision = c.decision
        /\ next.observation = c.observation
    BY <1>1 DEF Call
  <2>2. call' = [call EXCEPT ![h] = next] /\ UNCHANGED <<task, dispatched>>
    BY <1>3 DEF Persist, ghosts, IndInv, TypeOK
  <2> HIDE DEF next
  <2>3. AlmostCounted(next)
    BY <1>2, <2>1 DEF AlmostCounted
  <2> QED
    BY <1>2, <2>1, <2>2, <2>3, CallCounts
<1>4. CASE Commit(h)
  <2>1. c.decision \in Decision /\ c.st.step_count < MaxSteps
    BY <1>1, <1>4 DEF Commit, At, Midway
  <2>2. /\ Consumed(c) \in TaskRow /\ Consumed(c).step_count = c.st.step_count
        /\ Consumed(c).retry_counts = c.st.retry_counts
    <3>1. CASE c.decision.name \in WriteActions /\ c.observation.status = "success"
      <4>1. c.hash \in Hash
        BY <1>1, <1>4, <3>1 DEF Commit, At, Midway
      <4> QED
        BY <1>1, <3>1, <4>1 DEF Consumed, TaskRow
    <3>2. CASE ~(c.decision.name \in WriteActions /\ c.observation.status = "success")
      BY <1>1, <3>2 DEF Consumed
    <3> QED
      BY <3>1, <3>2
  <2> DEFINE row == Apply(Consumed(c), c.decision, c.observation)
  <2>3. row \in TaskRow
    BY <1>1, <2>1, <2>2, ApplyType
  <2>4. row.status \in {"running", "failed"}
    BY <2>2 DEF Apply, TaskRow
  <2>5. Save(h, row) /\ UNCHANGED dispatched
    BY <1>4 DEF Commit, ghosts
  <2>6. ASSUME NEW a \in WriteActions
        PROVE  /\ c.decision.name = a /\ c.observation.status = "retryable_error" =>
                    /\ row.retry_counts[a] = c.st.retry_counts[a] + 1
                    /\ row.status = "running" => c.st.retry_counts[a] + 1 <= 2
               /\ ~(c.decision.name = a /\ c.observation.status = "retryable_error") =>
                    row.retry_counts[a] = c.st.retry_counts[a]
    BY <2>1, <2>2, ApplyCounts
  <2> HIDE DEF row
  <2>7. row.status = "running" => Counted(row)
    BY <1>2, <2>6 DEF AlmostCounted, Counted
  <2> QED
    BY <2>3, <2>4, <2>5, <2>7, SaveCounts
<1> QED
  BY <1>3, <1>4

\* A resume takes the counts over with the row: they are never reset.
LEMMA ResumeCounts ==
    ASSUME IndInv, RetryInv, OneAtATime, NEW h \in Handlers,
           ResumeRead(h) \/ Resume(h) \/ EnterLoop(h)
    PROVE  RetryInv'
<1> DEFINE st == call[h].st
           entering == [Idle EXCEPT !.pc = "enter"]
<1>1. call[h] \in Call /\ st \in TaskRow /\ task \in TaskRow
  BY DEF IndInv, TypeOK, Call
<1>2. entering.pc = "enter" /\ Idle.pc = "idle"
  BY DEF Idle
<1>3. At(h, "resume") => task.status \notin {"absent", "lost"} /\ Counted(st)
  BY DEF At, RetryInv
<1>4. ASSUME NEW row \in TaskRow, SaveAndEnter(h, row), row.retry_counts = st.retry_counts,
             row.status = "running", At(h, "resume"), UNCHANGED dispatched
      PROVE  RetryInv'
  <2>1. task' = row /\ \A k \in Handlers : k = h /\ call'[k] = entering
    BY <1>4 DEF SaveAndEnter, OneAtATime, IndInv, TypeOK
  <2>2. \A a : RetriesOf(a)' = RetriesOf(a)
    BY <1>4 DEF RetriesOf
  <2>3. RetriesAreBounded'
    BY <1>4 DEF RetryInv, RetriesAreBounded
  <2> HIDE DEF entering
  <2>4. Counted(row)
    BY <1>3, <1>4, CountsKept
  <2>5. Counted(task)'
    BY <2>1, <2>2, <2>4 DEF Counted
  <2> QED
    BY <1>2, <1>4, <2>1, <2>3, <2>5 DEF RetryInv
<1>5. CASE ResumeRead(h)
  <2>1. PICK reply :
          call' = [call EXCEPT ![h] = [Idle EXCEPT !.pc = "resume", !.st = task, !.reply = reply]]
    BY <1>5 DEF ResumeRead
  <2> DEFINE c == [Idle EXCEPT !.pc = "resume", !.st = task, !.reply = reply]
  <2>2. c.st = task /\ c.pc = "resume"
    BY DEF Idle
  <2>3. UNCHANGED <<task, dispatched>> /\ task.status = "waiting_user" /\ call[h].pc = "idle"
    BY <1>5 DEF ResumeRead, ghosts, At
  <2>4. Counted(task)
    BY <2>3 DEF RetryInv
  <2> HIDE DEF c
  <2>5. call' = [call EXCEPT ![h] = c]
    BY <2>1 DEF c
  <2> QED
    BY <2>2, <2>3, <2>4, <2>5, CallCounts
<1>6. CASE ResumeCancel(h)
  <2> DEFINE row == [st EXCEPT !.status = "cancelled", !.pending_interaction = NoInteraction,
                               !.pending_decision = NoDecision]
  <2>1. row \in TaskRow /\ row.status = "cancelled"
    BY <1>1, EmptyTypes DEF TaskRow, TerminalStatus
  <2> QED
    BY <1>6, <2>1, SaveCounts DEF ResumeCancel, ghosts
<1>7. CASE ResumeApprove(h)
  <2> DEFINE row == [st EXCEPT !.approved = @ \cup {st.pending_interaction.hash},
                               !.pending_interaction = NoInteraction, !.status = "running"]
  <2>1. st.pending_interaction.hash \in Hash
    BY <1>1, <1>7 DEF ResumeApprove, IndInv, Midway, TaskRow, Interaction
  <2>2. row \in TaskRow /\ row.retry_counts = st.retry_counts /\ row.status = "running"
    BY <1>1, <2>1, EmptyTypes DEF TaskRow
  <2>3. SaveAndEnter(h, row) /\ At(h, "resume") /\ UNCHANGED dispatched
    BY <1>7 DEF ResumeApprove
  <2> HIDE DEF row
  <2> QED
    BY <1>4, <2>2, <2>3
<1>8. CASE ResumeReply(h)
  <2> DEFINE row == [st EXCEPT !.pending_interaction = NoInteraction,
                               !.pending_decision = NoDecision, !.status = "running"]
  <2>1. row \in TaskRow /\ row.retry_counts = st.retry_counts /\ row.status = "running"
    BY <1>1, EmptyTypes DEF TaskRow
  <2>2. SaveAndEnter(h, row) /\ At(h, "resume") /\ UNCHANGED dispatched
    BY <1>8 DEF ResumeReply, ghosts
  <2> HIDE DEF row
  <2> QED
    BY <1>4, <2>1, <2>2
<1>9. CASE EnterLoop(h)
  <2> DEFINE c == [Idle EXCEPT !.pc = "loop", !.st = task]
  <2>1. c.st = task /\ c.pc = "loop"
    BY DEF Idle
  <2>2. \/ task.status = "running" /\ call' = [call EXCEPT ![h] = c]
        \/ task.status # "running" /\ call' = [call EXCEPT ![h] = Idle]
    BY <1>9 DEF EnterLoop
  <2>3. UNCHANGED <<task, dispatched>>
    BY <1>9 DEF EnterLoop, ghosts
  <2>4. /\ task.status \notin {"absent", "lost"}
        /\ task.status \in {"running", "waiting_user"} => Counted(task)
    BY <1>9 DEF EnterLoop, At, RetryInv
  <2> HIDE DEF c
  <2>5. CASE task.status = "running" /\ call' = [call EXCEPT ![h] = c]
    BY <2>1, <2>3, <2>4, <2>5, CallCounts
  <2>6. CASE task.status # "running" /\ call' = [call EXCEPT ![h] = Idle]
    BY <1>2, <2>3, <2>4, <2>6, CallCounts
  <2> QED
    BY <2>2, <2>5, <2>6
<1> QED
  BY <1>5, <1>6, <1>7, <1>8, <1>9 DEF Resume

LEMMA NextCounts == OneAtATime /\ IndInv /\ RetryInv /\ [Next]_vars => RetryInv'
<1> SUFFICES ASSUME OneAtATime, IndInv, RetryInv, [Next]_vars PROVE RetryInv'
  OBVIOUS
<1>1. ASSUME NEW h \in Handlers, Invoke(h) \/ ResumeRead(h) \/ Advance(h) PROVE RetryInv'
  BY <1>1, LoopCounts, GateCounts, DispatchCounts, RecordCounts, ResumeCounts DEF Advance
<1>2. CASE Restart
  <2>1. task'.status = "lost" /\ \A h \in Handlers : call'[h].pc = "idle"
    BY <1>2 DEF Restart, NewTask, Idle
  <2>2. RetriesAreBounded'
    BY <1>2 DEF Restart, ghosts, RetryInv, RetriesAreBounded
  <2> QED
    BY <2>1, <2>2 DEF RetryInv
<1>3. CASE UNCHANGED vars
  <2>1. UNCHANGED << task, call, dispatched >>
    BY <1>3 DEF vars, ghosts
  <2>2. \A a : RetriesOf(a)' = RetriesOf(a)
    BY <2>1 DEF RetriesOf
  <2> QED
    BY <2>1, <2>2 DEF RetryInv, RetriesAreBounded, Counted, AlmostCounted
<1> QED
  BY <1>1, <1>2, <1>3 DEF Next

\* When the requests of a task do not overlap, a kind of write is sent at most three times
\* with an outcome that stays unknown, whatever other actions, questions and answers come
\* between: the counter belongs to the row, and no resume resets it.
THEOREM RetriesStop == OneAtATime => (Spec => []RetriesAreBounded)
<1>1. Init => RetryInv
  <2> SUFFICES ASSUME Init PROVE RetryInv
    OBVIOUS
  <2>1. task.status = "absent" /\ \A h \in Handlers : call[h].pc = "idle"
    BY DEF Init, NewTask, Idle
  <2>2. \A a : RetriesOf(a) = {}
    BY DEF Init, RetriesOf
  <2>3. Cardinality({}) = 0
    BY FS_EmptySet
  <2>4. RetriesAreBounded
    <3>1. \A a \in WriteActions : Cardinality(RetriesOf(a)) <= 3
      BY <2>2, <2>3
    <3> QED
      BY <3>1 DEF RetriesAreBounded, RetriesOf
  <2> QED
    BY <2>1, <2>2, <2>3, <2>4 DEF RetryInv
<1>2. RetryInv => RetriesAreBounded
  BY DEF RetryInv
<1>3. Spec => []IndInv
  BY InitIndInv, NextIndInv, PTL DEF Spec
<1>4. ASSUME OneAtATime PROVE Spec => []RetriesAreBounded
  <2>1. IndInv /\ RetryInv /\ [Next]_vars => RetryInv'
    BY <1>4, NextCounts
  <2> QED
    BY <1>1, <1>2, <1>3, <2>1, PTL DEF Spec
<1> QED
  BY <1>4
=============================================================================
