---------------------- MODULE RollingTaskRefinementProofs ----------------------
(***************************************************************************)
(* Theorems about the row of RollingTask and the promise it keeps: a row   *)
(* waits exactly while it holds a question, for any number of handlers;    *)
(* and when the requests of a task do not overlap, the question is that of *)
(* the latest prepared request, a final row stays final, and every step is *)
(* a step of ConfirmedWrites or a stutter.  The last part is about the     *)
(* snapshots the backend reads of the row.                                 *)
(***************************************************************************)
EXTENDS RollingTaskProofs, RollingTaskRefines, CompatView, SequenceTheorems

Working == {"loop", "gate", "dispatch", "persist", "commit"}

\* A handler at work holds a running copy without a question.
AtWork(c) == c.pc \in Working => /\ c.st.status = "running"
                                 /\ c.st.pending_interaction = NoInteraction

QuestionInv == WaitsWithQuestion /\ \A h \in Handlers : AtWork(call[h])

\* The row of a question, asked for in either way, waits; a row without one does not.
Sound(row) == (row.status = "waiting_user") <=> (row.pending_interaction # NoInteraction)

-----------------------------------------------------------------------------
(* A row waits exactly while it holds a question: any number of handlers.  *)

\* The reducer leaves the question alone, and its status is running or failed.
LEMMA ApplyKeepsQuestion ==
    ASSUME NEW st \in TaskRow, NEW d, NEW ob
    PROVE  /\ Apply(st, d, ob).pending_interaction = st.pending_interaction
           /\ Apply(st, d, ob).status \in {"running", "failed"}
BY DEF Apply, TaskRow

\* A saved row whose question and status agree keeps the invariant.
LEMMA SaveQuestion ==
    ASSUME IndInv, QuestionInv, NEW h \in Handlers, NEW st, Sound(st), Save(h, st)
    PROVE  QuestionInv'
<1> DEFINE c == [Idle EXCEPT !.pc = "loop", !.st = st]
<1>1. c.st = st /\ Idle.pc = "idle"
  BY DEF Idle
<1>2. AtWork(Idle) /\ (st.status = "running" => AtWork(c))
  BY <1>1 DEF AtWork, Working, Sound
<1>3. task' = st /\ call' = [call EXCEPT ![h] = IF st.status = "running" THEN c ELSE Idle]
  BY DEF Save
<1> HIDE DEF c
<1>4. \A k \in Handlers : 
        call'[k] = call[k] \/ call'[k] = Idle \/ (call'[k] = c /\ st.status = "running")
  BY <1>3 DEF IndInv, TypeOK
<1> QED
  BY <1>2, <1>3, <1>4 DEF QuestionInv, AtWork, WaitsWithQuestion, Sound

\* So does a change of a handler's local state.
LEMMA CallQuestion ==
    ASSUME IndInv, QuestionInv, NEW h \in Handlers, NEW c, AtWork(c),
           call' = [call EXCEPT ![h] = c], UNCHANGED task
    PROVE  QuestionInv'
<1>1. \A k \in Handlers : call'[k] = call[k] \/ call'[k] = c
  BY DEF IndInv, TypeOK
<1> QED
  BY <1>1 DEF QuestionInv, AtWork, WaitsWithQuestion

\* The steps before the gate.
LEMMA LoopQuestion ==
    ASSUME IndInv, QuestionInv, NEW h \in Handlers,
           Invoke(h) \/ StopAtMaxSteps(h) \/ PlannerFails(h) \/ Decide(h)
    PROVE  QuestionInv'
<1> DEFINE st == call[h].st
           row == [st EXCEPT !.status = "failed"]
<1>1. call[h] \in Call /\ st \in TaskRow
  BY DEF IndInv, TypeOK, Call
<1>2. At(h, "loop") => st.status = "running" /\ st.pending_interaction = NoInteraction
  BY DEF At, QuestionInv, AtWork, Working
<1>3. At(h, "loop") => Sound(row)
  BY <1>1, <1>2 DEF TaskRow, Sound
<1>4. CASE Invoke(h)
  <2>1. Sound(NewTask)
    BY DEF NewTask, Sound
  <2> QED
    BY <1>4, <2>1, SaveQuestion DEF Invoke
<1>5. CASE StopAtMaxSteps(h)
  BY <1>3, <1>5, SaveQuestion DEF StopAtMaxSteps
<1>6. CASE PlannerFails(h)
  BY <1>3, <1>6, SaveQuestion DEF PlannerFails
<1>7. CASE Decide(h)
  <2>1. PICK d \in NextDecisions(st) :
          call' = [call EXCEPT ![h] = [call[h] EXCEPT !.pc = "gate", !.decision = d]]
    BY <1>7 DEF Decide, IndInv, TypeOK
  <2> DEFINE c == [call[h] EXCEPT !.pc = "gate", !.decision = d]
  <2>2. c.st = st
    BY <1>1 DEF Call
  <2>3. AtWork(c)
    BY <1>2, <1>7, <2>2 DEF AtWork, Decide
  <2> HIDE DEF c
  <2> QED
    BY <1>7, <2>1, <2>3, CallQuestion DEF c, Decide
<1> QED
  BY <1>4, <1>5, <1>6, <1>7

\* The gate: only AskUser and AskConfirmation put a question, and they let the row wait.
LEMMA GateQuestion ==
    ASSUME IndInv, QuestionInv, NEW h \in Handlers, Gate(h)
    PROVE  QuestionInv'
<1> DEFINE st == call[h].st
           d == call[h].decision
<1>1. call[h] \in Call /\ st \in TaskRow
  BY DEF IndInv, TypeOK, Call
<1>2. At(h, "gate")
  BY DEF Gate, StopRepeating, AskUser, Finish, RejectUnprepared, SkipExecuted,
         AskConfirmation, Proceed, Passes
<1>3. st.status = "running" /\ st.pending_interaction = NoInteraction
  BY <1>2 DEF At, QuestionInv, AtWork, Working
<1>4. \A s \in ObservationStatus : Sound(Apply(st, d, Observed(s)))
  BY <1>1, <1>3, ApplyKeepsQuestion DEF Sound
<1>5. CASE StopRepeating(h)
  <2>1. Sound([st EXCEPT !.status = "failed"])
    BY <1>1, <1>3 DEF TaskRow, Sound
  <2> QED
    BY <1>5, <2>1, SaveQuestion DEF StopRepeating
<1>6. CASE AskUser(h)
  <2> DEFINE question == [id |-> nextId, kind |-> "clarify", hash |-> NoHash]
             next == Apply(st, d, Observed("needs_input"))
             row == [next EXCEPT !.status = "waiting_user", !.pending_interaction = question]
  <2>1. question # NoInteraction
    BY DEF NoInteraction
  <2>2. row.status = "waiting_user" /\ row.pending_interaction = question
    <3>1. next \in TaskRow
      BY <1>1, <1>2, EmptyTypes, ApplyType DEF IndInv, Midway, At, ObservationStatus
    <3> HIDE DEF next
    <3> QED
      BY <3>1 DEF TaskRow
  <2>3. Save(h, row)
    BY <1>6 DEF AskUser
  <2> HIDE DEF row, question
  <2> QED
    BY <2>1, <2>2, <2>3, SaveQuestion DEF Sound
<1>7. CASE Finish(h)
  <2> DEFINE next == Apply(st, d, Observed("success"))
             row == [next EXCEPT !.status = "completed"]
  <2>1. next \in TaskRow /\ next.pending_interaction = NoInteraction
    BY <1>1, <1>2, <1>3, EmptyTypes, ApplyType, ApplyKeepsQuestion
    DEF IndInv, Midway, At, ObservationStatus
  <2> HIDE DEF next
  <2>2. Sound(row)
    BY <2>1 DEF TaskRow, Sound
  <2>3. Save(h, row)
    BY <1>7 DEF Finish, next
  <2> QED
    BY <2>2, <2>3, SaveQuestion
<1>8. CASE RejectUnprepared(h)
  BY <1>4, <1>8, SaveQuestion DEF RejectUnprepared, ObservationStatus
<1>9. CASE SkipExecuted(h)
  BY <1>4, <1>9, SaveQuestion DEF SkipExecuted, ObservationStatus
<1>10. CASE AskConfirmation(h)
  <2> DEFINE question == [id |-> nextId, kind |-> "confirm", hash |-> HashNow(h)]
             row == [st EXCEPT !.status = "waiting_user", !.pending_decision = d,
                               !.pending_interaction = question]
  <2>1. question # NoInteraction
    BY DEF NoInteraction
  <2>2. row.status = "waiting_user" /\ row.pending_interaction = question
    BY <1>1 DEF TaskRow
  <2>3. Save(h, row)
    BY <1>10 DEF AskConfirmation
  <2> HIDE DEF row, question
  <2> QED
    BY <2>1, <2>2, <2>3, SaveQuestion DEF Sound
<1>11. CASE Proceed(h)
  <2> DEFINE c == [call[h] EXCEPT !.pc = "dispatch",
                                  !.hash = IF IsWrite(h) THEN HashNow(h) ELSE NoHash]
  <2>1. c.st = st
    BY <1>1 DEF Call
  <2>2. AtWork(c)
    BY <1>3, <2>1 DEF AtWork
  <2>3. call' = [call EXCEPT ![h] = c] /\ UNCHANGED task
    BY <1>11 DEF Proceed, IndInv, TypeOK
  <2> HIDE DEF c
  <2> QED
    BY <2>2, <2>3, CallQuestion
<1> QED
  BY <1>5, <1>6, <1>7, <1>8, <1>9, <1>10, <1>11 DEF Gate

\* The dispatcher only yields an observation, and Persist publishes it.
LEMMA DispatchQuestion ==
    ASSUME IndInv, QuestionInv, NEW h \in Handlers, Dispatch(h) \/ Persist(h)
    PROVE  QuestionInv'
<1>1. call[h] \in Call /\ call[h].pc \in Working
  BY DEF IndInv, TypeOK, Dispatch, DispatchRaises, GenerateDraft, ReadTable, PrepareOperation,
         MatchRecord, ExecuteWrite, Persist, At, Working
<1>2. AtWork(call[h])
  BY DEF QuestionInv
<1>3. CASE Dispatch(h)
  <2>1. UNCHANGED task /\ \E ob : Yields(h, ob)
    BY <1>3 DEF Dispatch, DispatchRaises, GenerateDraft, ReadTable, PrepareOperation,
                MatchRecord, ExecuteWrite
  <2>2. PICK ob : Yields(h, ob)
    BY <2>1
  <2> DEFINE c == [call[h] EXCEPT !.pc = "persist", !.observation = ob]
  <2>3. c.st = call[h].st
    BY <1>1 DEF Call
  <2>4. AtWork(c)
    BY <1>1, <1>2, <2>3 DEF AtWork
  <2>5. call' = [call EXCEPT ![h] = c]
    BY <2>2 DEF Yields
  <2> HIDE DEF c
  <2> QED
    BY <2>1, <2>4, <2>5, CallQuestion
<1>4. CASE Persist(h)
  <2> DEFINE c == [call[h] EXCEPT !.pc = "commit"]
  <2>1. c.st = call[h].st
    BY <1>1 DEF Call
  <2>2. AtWork(c)
    BY <1>1, <1>2, <2>1 DEF AtWork
  <2>3. call' = [call EXCEPT ![h] = c] /\ UNCHANGED task
    BY <1>4 DEF Persist, IndInv, TypeOK
  <2> HIDE DEF c
  <2> QED
    BY <2>2, <2>3, CallQuestion
<1> QED
  BY <1>3, <1>4

\* What the consumed copy of a row is.
LEMMA ConsumedRow ==
    ASSUME IndInv, NEW h \in Handlers, At(h, "commit")
    PROVE  LET c == call[h] IN
           /\ Consumed(c) \in TaskRow
           /\ Consumed(c).status = c.st.status
           /\ Consumed(c).step_count = c.st.step_count
           /\ Consumed(c).pending_interaction = c.st.pending_interaction
           /\ Consumed(c).approved \cup Consumed(c).executed
                = c.st.approved \cup c.st.executed
                    \cup (IF c.decision.name \in WriteActions /\ c.observation.status = "success"
                          THEN {c.hash} ELSE {})
<1> DEFINE c == call[h]
<1>1. c \in Call /\ c.st \in TaskRow /\ Midway(c)
  BY DEF IndInv, TypeOK, Call
<1>2. CASE c.decision.name \in WriteActions /\ c.observation.status = "success"
  <2>1. c.hash \in Hash
    BY <1>1, <1>2 DEF At, Midway
  <2> HIDE DEF c
  <2> QED
    BY <1>1, <1>2, <2>1 DEF Consumed, TaskRow, c
<1>3. CASE ~(c.decision.name \in WriteActions /\ c.observation.status = "success")
  BY <1>1, <1>3 DEF Consumed
<1> QED
  BY <1>2, <1>3

\* The end of the turn.
LEMMA CommitQuestion ==
    ASSUME IndInv, QuestionInv, NEW h \in Handlers, Commit(h)
    PROVE  QuestionInv'
<1> DEFINE c == call[h]
           row == Apply(Consumed(c), c.decision, c.observation)
<1>1. At(h, "commit") /\ Save(h, row)
  BY DEF Commit
<1>2. c.st.pending_interaction = NoInteraction
  BY <1>1 DEF QuestionInv, AtWork, Working, At
<1>3. Sound(row)
  BY <1>1, <1>2, ConsumedRow, ApplyKeepsQuestion DEF Sound
<1> HIDE DEF row
<1> QED
  BY <1>1, <1>3, SaveQuestion

\* An answer takes the question away and lets the row run, or ends it.
LEMMA ResumeQuestion ==
    ASSUME IndInv, QuestionInv, NEW h \in Handlers, ResumeRead(h) \/ Resume(h) \/ EnterLoop(h)
    PROVE  QuestionInv'
<1> DEFINE st == call[h].st
           entering == [Idle EXCEPT !.pc = "enter"]
<1>1. call[h] \in Call /\ st \in TaskRow /\ task \in TaskRow
  BY DEF IndInv, TypeOK, Call
<1>2. entering.pc = "enter" /\ Idle.pc = "idle"
  BY DEF Idle
<1>3. AtWork(entering) /\ AtWork(Idle)
  BY <1>2 DEF AtWork, Working
<1>4. ASSUME NEW row, Sound(row), SaveAndEnter(h, row)
      PROVE  QuestionInv'
  <2>1. task' = row /\ \A k \in Handlers : call'[k] = call[k] \/ call'[k] = entering
    BY <1>4 DEF SaveAndEnter, IndInv, TypeOK
  <2> HIDE DEF entering
  <2> QED
    BY <1>3, <1>4, <2>1 DEF QuestionInv, AtWork, WaitsWithQuestion, Sound
<1>5. CASE ResumeRead(h)
  <2>1. PICK reply :
          call' = [call EXCEPT ![h] = [Idle EXCEPT !.pc = "resume", !.st = task, !.reply = reply]]
    BY <1>5 DEF ResumeRead
  <2> DEFINE c == [Idle EXCEPT !.pc = "resume", !.st = task, !.reply = reply]
  <2>2. c.pc = "resume"
    BY DEF Idle
  <2>3. AtWork(c)
    BY <2>2 DEF AtWork, Working
  <2>4. UNCHANGED task
    BY <1>5 DEF ResumeRead
  <2> HIDE DEF c
  <2> QED
    BY <2>1, <2>3, <2>4, CallQuestion DEF c
<1>6. CASE ResumeCancel(h)
  <2> DEFINE row == [st EXCEPT !.status = "cancelled", !.pending_interaction = NoInteraction,
                               !.pending_decision = NoDecision]
  <2>1. Sound(row)
    BY <1>1 DEF TaskRow, Sound
  <2>2. Save(h, row)
    BY <1>6 DEF ResumeCancel
  <2> HIDE DEF row
  <2> QED
    BY <2>1, <2>2, SaveQuestion
<1>7. CASE ResumeApprove(h)
  <2> DEFINE row == [st EXCEPT !.approved = @ \cup {st.pending_interaction.hash},
                               !.pending_interaction = NoInteraction, !.status = "running"]
  <2>1. Sound(row)
    BY <1>1 DEF TaskRow, Sound
  <2>2. SaveAndEnter(h, row)
    BY <1>7 DEF ResumeApprove
  <2> HIDE DEF row
  <2> QED
    BY <1>4, <2>1, <2>2
<1>8. CASE ResumeReply(h)
  <2> DEFINE row == [st EXCEPT !.pending_interaction = NoInteraction,
                               !.pending_decision = NoDecision, !.status = "running"]
  <2>1. Sound(row)
    BY <1>1 DEF TaskRow, Sound
  <2>2. SaveAndEnter(h, row)
    BY <1>8 DEF ResumeReply
  <2> HIDE DEF row
  <2> QED
    BY <1>4, <2>1, <2>2
<1>9. CASE EnterLoop(h)
  <2> DEFINE c == [Idle EXCEPT !.pc = "loop", !.st = task]
  <2>1. c.st = task
    BY DEF Idle
  <2>2. task.status = "running" => AtWork(c)
    BY <2>1 DEF AtWork, QuestionInv, WaitsWithQuestion
  <2>3. /\ UNCHANGED task
        /\ \/ task.status = "running" /\ call' = [call EXCEPT ![h] = c]
           \/ call' = [call EXCEPT ![h] = Idle]
    BY <1>9 DEF EnterLoop
  <2> HIDE DEF c
  <2> QED
    BY <1>3, <2>2, <2>3, CallQuestion
<1> QED
  BY <1>5, <1>6, <1>7, <1>8, <1>9 DEF Resume

LEMMA InitQuestion == Init => QuestionInv
<1>1. AtWork(Idle)
  BY DEF AtWork, Working, Idle
<1>2. Init => task.status = "absent" /\ task.pending_interaction = NoInteraction
  BY DEF Init, NewTask
<1>3. Init => \A h \in Handlers : call[h] = Idle
  BY DEF Init
<1> QED
  BY <1>1, <1>2, <1>3 DEF QuestionInv, WaitsWithQuestion, AtWork

LEMMA NextQuestion == IndInv /\ QuestionInv /\ [Next]_vars => QuestionInv'
<1> SUFFICES ASSUME IndInv, QuestionInv, [Next]_vars PROVE QuestionInv'
  OBVIOUS
<1>1. ASSUME NEW h \in Handlers, Invoke(h) \/ ResumeRead(h) \/ Advance(h) PROVE QuestionInv'
  BY <1>1, LoopQuestion, GateQuestion, DispatchQuestion, CommitQuestion, ResumeQuestion
  DEF Advance
<1>2. CASE Restart
  <2>1. task'.status = "lost" /\ task'.pending_interaction = NoInteraction
    BY <1>2 DEF Restart, NewTask
  <2>2. \A h \in Handlers : call'[h] = Idle /\ Idle.pc = "idle"
    BY <1>2 DEF Restart, Idle
  <2> QED
    BY <2>1, <2>2 DEF QuestionInv, WaitsWithQuestion, AtWork, Working
<1>3. CASE UNCHANGED vars
  BY <1>3 DEF vars, QuestionInv, WaitsWithQuestion, AtWork
<1> QED
  BY <1>1, <1>2, <1>3 DEF Next

\* A row that waits has a question to answer, and a row with a question waits, however many
\* requests of the task overlap: no save of an old copy separates the two.
THEOREM WaitingHasQuestion == Spec => []WaitsWithQuestion
<1>1. Spec => []IndInv
  BY InitIndInv, NextIndInv, PTL DEF Spec
<1>2. QuestionInv => WaitsWithQuestion
  BY DEF QuestionInv
<1> QED
  BY <1>1, <1>2, InitQuestion, NextQuestion, PTL DEF Spec

-----------------------------------------------------------------------------
(* Requests that do not overlap: the handler's copy is the row.            *)

\* What ConfirmationIsCurrent says of a row and a prepared request.
Current(row, p) ==
    row.pending_interaction.kind = "confirm" =>
        /\ row.pending_decision # NoDecision
        /\ row.pending_interaction.hash = ExecutionHash(row.pending_decision, p)
        /\ p.operation = row.pending_decision.name

\* The copy of the request being served, and the status it found.
Serves(c) ==
    /\ c.pc \notin {"idle", "enter"} => c.st = task
    /\ c.pc = "enter" => task.status = "running"
    /\ c.pc = "resume" => task.status = "waiting_user"

Known(row) == row.approved \cup row.executed

\* With it, what was granted is still known to the row: approved, or executed since.
RowInv ==
    /\ ConfirmationIsCurrent
    /\ task.status = "absent" => GrantedHashes = {}
    /\ task.status # "lost" => GrantedHashes \subseteq Known(task)
    /\ \A h \in Handlers : Serves(call[h])

\* A step of the promise, or none.
Keeps == [Promise!Next]_(Promise!promises)

LEMMA NoHashIsNone == NoHash \notin Hash
BY DEF NoHash, Hash, Decision, NoDecision, Catalog, WriteActions, PrepareActions, ReadActions

\* The row is in use, and asks nothing, while a handler works.
LEMMA RowAtWork ==
    ASSUME IndInv, QuestionInv, RowInv, NEW h \in Handlers, call[h].pc \in Working
    PROVE  /\ call[h].st = task /\ task.status = "running"
           /\ task.pending_interaction = NoInteraction
           /\ InUse(task) /\ AskedBy(task) = NoHash
<1>1. call[h].st = task
  BY DEF RowInv, Serves, Working
<1>2. task.status = "running" /\ task.pending_interaction = NoInteraction
  BY <1>1 DEF QuestionInv, AtWork
<1> QED
  BY <1>1, <1>2 DEF InUse, AskedBy, TerminalStatus, NoInteraction

\* The same while a user's answer is taken in.
LEMMA RowAtResume ==
    ASSUME IndInv, RowInv, NEW h \in Handlers, At(h, "resume")
    PROVE  call[h].st = task /\ task.status = "waiting_user" /\ InUse(task)
BY DEF RowInv, Serves, At, InUse, TerminalStatus

\* Nothing the promise sees changes.
LEMMA Stutter ==
    ASSUME UNCHANGED << task, granted, dispatched >>
    PROVE  Keeps
BY DEF Keeps, Promise!promises, InUse, AskedBy, Attempts

\* A row is saved that asks nothing: a stutter, or the end.
LEMMA RowStep ==
    ASSUME UNCHANGED << granted, dispatched >>, InUse(task),
           task'.pending_interaction.kind # "confirm", task'.status # "lost",
           AskedBy(task) = NoHash \/ ~InUse(task')
    PROVE  Keeps
<1>1. AskedBy(task)' = NoHash /\ InUse(task)' = InUse(task')
  BY DEF AskedBy, InUse
<1>2. UNCHANGED << {g.hash : g \in granted}, Attempts >>
  BY DEF Attempts
<1>3. InUse(task') \in BOOLEAN /\ InUse(task) \in BOOLEAN
  BY DEF InUse
<1>4. CASE InUse(task')
  BY <1>1, <1>2, <1>3, <1>4 DEF Keeps, Promise!promises
<1>5. CASE ~InUse(task')
  BY <1>1, <1>2, <1>3, <1>5 DEF Keeps, Promise!Next, Promise!End
<1> QED
  BY <1>4, <1>5

\* The only handler saves a row, or changes its local state.
LEMMA SaveRow ==
    ASSUME OneAtATime, IndInv, NEW h \in Handlers, NEW row, Save(h, row),
           Current(row, prepared'), GrantedHashes' \subseteq Known(row), row.status # "absent"
    PROVE  RowInv'
<1> DEFINE c == [Idle EXCEPT !.pc = "loop", !.st = row]
<1>1. c.st = row /\ c.pc = "loop" /\ Idle.pc = "idle"
  BY DEF Idle
<1>2. task' = row /\ call'[h] = IF row.status = "running" THEN c ELSE Idle
  BY DEF Save, IndInv, TypeOK
<1> HIDE DEF c
<1>3. Serves(call[h])'
  BY <1>1, <1>2 DEF Serves
<1>4. \A k \in Handlers : k = h
  BY DEF OneAtATime
<1> QED
  BY <1>2, <1>3, <1>4 DEF RowInv, ConfirmationIsCurrent, Current, Known

LEMMA CallRow ==
    ASSUME OneAtATime, IndInv, RowInv, NEW h \in Handlers, NEW c,
           call' = [call EXCEPT ![h] = c], UNCHANGED << task, granted >>,
           Serves(c), Current(task, prepared')
    PROVE  RowInv'
<1>1. call'[h] = c /\ \A k \in Handlers : k = h
  BY DEF OneAtATime, IndInv, TypeOK
<1> QED
  BY <1>1 DEF RowInv, Serves, ConfirmationIsCurrent, Current, Known, GrantedHashes

\* A handler at work saves a row that knows as much and asks nothing.
LEMMA SaveKeeps ==
    ASSUME OneAtATime, IndInv, QuestionInv, RowInv, NEW h \in Handlers, NEW row,
           call[h].pc \in Working, Save(h, row), UNCHANGED << granted, dispatched >>,
           row.pending_interaction.kind # "confirm", row.status \notin {"lost", "absent"},
           Known(call[h].st) \subseteq Known(row)
    PROVE  RowInv' /\ Keeps
<1>1. task' = row /\ InUse(task) /\ AskedBy(task) = NoHash
  BY RowAtWork DEF Save
<1>2. GrantedHashes' \subseteq Known(row)
  BY RowAtWork DEF RowInv, GrantedHashes
<1> QED
  BY <1>1, <1>2, SaveRow, RowStep DEF Current

\* The steps before the gate.
LEMMA LoopRow ==
    ASSUME OneAtATime, IndInv, QuestionInv, RowInv, ApprovalInv, NEW h \in Handlers,
           StopAtMaxSteps(h) \/ PlannerFails(h) \/ Decide(h)
    PROVE  RowInv' /\ Keeps
<1> DEFINE st == call[h].st
           row == [st EXCEPT !.status = "failed"]
<1>1. call[h] \in Call /\ st \in TaskRow
  BY DEF IndInv, TypeOK, Call
<1>2. At(h, "loop") /\ call[h].pc \in Working
  BY DEF StopAtMaxSteps, PlannerFails, Decide, At, Working
<1>3. st = task /\ st.pending_interaction = NoInteraction
  BY <1>2, RowAtWork
<1>4. /\ row.pending_interaction.kind # "confirm" /\ row.status = "failed"
      /\ Known(st) \subseteq Known(row)
  BY <1>1, <1>3 DEF TaskRow, Known, NoInteraction
<1>5. CASE StopAtMaxSteps(h) \/ PlannerFails(h)
  <2>1. Save(h, row) /\ UNCHANGED << granted, dispatched >>
    BY <1>5 DEF StopAtMaxSteps, PlannerFails, ghosts
  <2> HIDE DEF row
  <2> QED
    BY <1>2, <1>4, <2>1, SaveKeeps
<1>6. CASE Decide(h)
  <2>1. PICK d \in NextDecisions(st) :
          call' = [call EXCEPT ![h] = [call[h] EXCEPT !.pc = "gate", !.decision = d]]
    BY <1>6 DEF Decide, IndInv, TypeOK
  <2> DEFINE c == [call[h] EXCEPT !.pc = "gate", !.decision = d]
  <2>2. c.st = st /\ c.pc = "gate"
    BY <1>1 DEF Call
  <2>3. Serves(c)
    BY <1>3, <2>2 DEF Serves
  <2>4. UNCHANGED << task, granted, dispatched, prepared >>
    BY <1>6 DEF Decide, ghosts, artifacts
  <2>5. Current(task, prepared')
    BY <1>3 DEF Current, NoInteraction
  <2> HIDE DEF c
  <2> QED
    BY <2>1, <2>3, <2>4, <2>5, CallRow, Stutter DEF c
<1> QED
  BY <1>5, <1>6

\* A task is created; the row was absent and nothing has been granted.
LEMMA InvokeRow ==
    ASSUME OneAtATime, IndInv, QuestionInv, RowInv, ApprovalInv, NEW h \in Handlers, Invoke(h)
    PROVE  RowInv' /\ Keeps
<1>1. task.status = "absent" /\ Save(h, NewTask) /\ UNCHANGED << granted, dispatched >>
  BY DEF Invoke, ghosts
<1>2. NewTask.pending_interaction = NoInteraction /\ NewTask.status = "running"
  BY DEF NewTask
<1>3. InUse(task) /\ task' = NewTask /\ AskedBy(task) = NoHash
  BY <1>1 DEF InUse, TerminalStatus, Save, QuestionInv, WaitsWithQuestion, AskedBy, NoInteraction
<1>4. GrantedHashes' \subseteq Known(NewTask)
  BY <1>1 DEF RowInv, GrantedHashes
<1> QED
  BY <1>1, <1>2, <1>3, <1>4, SaveRow, RowStep DEF Current, NoInteraction

\* The gate, except for the question about a write.
LEMMA GateRow ==
    ASSUME OneAtATime, IndInv, QuestionInv, RowInv, NEW h \in Handlers,
           \/ StopRepeating(h) \/ AskUser(h) \/ Finish(h)
           \/ RejectUnprepared(h) \/ SkipExecuted(h) \/ Proceed(h)
    PROVE  RowInv' /\ Keeps
<1> DEFINE st == call[h].st
           d == call[h].decision
           Next1(s) == Apply(st, d, Observed(s))
<1>1. call[h] \in Call /\ st \in TaskRow
  BY DEF IndInv, TypeOK, Call
<1>2. At(h, "gate") /\ call[h].pc \in Working
  BY DEF StopRepeating, AskUser, Finish, RejectUnprepared, SkipExecuted, Proceed, Passes, At, Working
<1>3. st = task /\ st.pending_interaction = NoInteraction
  BY <1>2, RowAtWork
<1>4. \A s \in ObservationStatus :
        /\ Next1(s) \in TaskRow
        /\ Next1(s).pending_interaction = NoInteraction
        /\ Next1(s).status \in {"running", "failed"}
        /\ Known(Next1(s)) = Known(st)
  <2>1. d \in Decision /\ st.step_count < MaxSteps
    BY <1>2 DEF IndInv, Midway, At
  <2> SUFFICES ASSUME NEW s \in ObservationStatus
               PROVE  /\ Next1(s) \in TaskRow
                      /\ Next1(s).pending_interaction = NoInteraction
                      /\ Next1(s).status \in {"running", "failed"}
                      /\ Known(Next1(s)) = Known(st)
    OBVIOUS
  <2>2. Next1(s) \in TaskRow
    BY <1>1, <2>1, EmptyTypes, ApplyType
  <2>3. Next1(s).approved = st.approved /\ Next1(s).executed = st.executed
    BY <1>1, ApplyKeepsHashes
  <2> QED
    BY <1>1, <1>3, <2>2, <2>3, ApplyKeepsQuestion DEF Known
<1>5. CASE StopRepeating(h)
  <2> DEFINE row == [st EXCEPT !.status = "failed"]
  <2>1. /\ row.pending_interaction.kind # "confirm" /\ row.status = "failed"
        /\ Known(st) = Known(row)
    BY <1>1, <1>3 DEF TaskRow, Known, NoInteraction
  <2>2. Save(h, row) /\ UNCHANGED << granted, dispatched >>
    BY <1>5 DEF StopRepeating, ghosts
  <2> HIDE DEF row
  <2> QED
    BY <1>2, <2>1, <2>2, SaveKeeps
<1>6. CASE AskUser(h)
  <2> DEFINE question == [id |-> nextId, kind |-> "clarify", hash |-> NoHash]
             next == Next1("needs_input")
             row == [next EXCEPT !.status = "waiting_user", !.pending_interaction = question]
  <2>1. next \in TaskRow /\ Known(next) = Known(st)
    BY <1>4 DEF ObservationStatus
  <2>2. Save(h, row) /\ UNCHANGED << granted, dispatched >>
    BY <1>6 DEF AskUser, ghosts
  <2> HIDE DEF next
  <2>3. /\ row.pending_interaction.kind # "confirm" /\ row.status = "waiting_user"
        /\ Known(st) = Known(row)
    BY <2>1 DEF TaskRow, Known
  <2> HIDE DEF row
  <2> QED
    BY <1>2, <2>2, <2>3, SaveKeeps
<1>7. CASE Finish(h)
  <2> DEFINE next == Next1("success")
             row == [next EXCEPT !.status = "completed"]
  <2>1. next \in TaskRow /\ Known(next) = Known(st) /\ next.pending_interaction = NoInteraction
    BY <1>4 DEF ObservationStatus
  <2>2. Save(h, row) /\ UNCHANGED << granted, dispatched >>
    BY <1>7 DEF Finish, ghosts
  <2> HIDE DEF next
  <2>3. /\ row.pending_interaction.kind # "confirm" /\ row.status = "completed"
        /\ Known(st) = Known(row)
    BY <2>1 DEF TaskRow, Known, NoInteraction
  <2> HIDE DEF row
  <2> QED
    BY <1>2, <2>2, <2>3, SaveKeeps
<1>8. CASE RejectUnprepared(h) \/ SkipExecuted(h)
  <2>1. PICK s \in {"needs_input", "success"} : Save(h, Next1(s))
    BY <1>8 DEF RejectUnprepared, SkipExecuted
  <2>2. UNCHANGED << granted, dispatched >>
    BY <1>8 DEF RejectUnprepared, SkipExecuted, ghosts
  <2>3. /\ Next1(s).pending_interaction.kind # "confirm"
        /\ Next1(s).status \notin {"lost", "absent"} /\ Known(st) = Known(Next1(s))
    BY <1>4 DEF ObservationStatus, NoInteraction
  <2> HIDE DEF Next1
  <2> QED
    BY <1>2, <2>1, <2>2, <2>3, SaveKeeps
<1>9. CASE Proceed(h)
  <2> DEFINE c == [call[h] EXCEPT !.pc = "dispatch",
                                  !.hash = IF IsWrite(h) THEN HashNow(h) ELSE NoHash]
  <2>1. c.st = st /\ c.pc = "dispatch"
    BY <1>1 DEF Call
  <2>2. call' = [call EXCEPT ![h] = c] /\ UNCHANGED << task, granted, dispatched, prepared >>
    BY <1>9 DEF Proceed, ghosts, artifacts, IndInv, TypeOK
  <2>3. Serves(c) /\ Current(task, prepared')
    BY <1>3, <2>1 DEF Serves, Current, NoInteraction
  <2> HIDE DEF c
  <2> QED
    BY <2>2, <2>3, CallRow, Stutter
<1> QED
  BY <1>5, <1>6, <1>7, <1>8, <1>9

\* The question about a write: it is the promise's, about a write not granted before.
LEMMA AskRow ==
    ASSUME OneAtATime, IndInv, QuestionInv, RowInv, NEW h \in Handlers, AskConfirmation(h)
    PROVE  RowInv' /\ Keeps
<1> DEFINE st == call[h].st
           d == call[h].decision
           question == [id |-> nextId, kind |-> "confirm", hash |-> HashNow(h)]
           row == [st EXCEPT !.status = "waiting_user", !.pending_decision = d,
                             !.pending_interaction = question]
<1>1. call[h] \in Call /\ st \in TaskRow
  BY DEF IndInv, TypeOK, Call
<1>2. At(h, "gate") /\ call[h].pc \in Working
  BY DEF AskConfirmation, Passes, At, Working
<1>3. st = task /\ task.status = "running" /\ InUse(task) /\ AskedBy(task) = NoHash
  BY <1>2, RowAtWork
<1>4. HashNow(h) \in Hash
  BY HashNowType DEF AskConfirmation
<1>5. HashNow(h) \notin GrantedHashes
  BY <1>3 DEF AskConfirmation, RowInv, Known
<1>6. /\ row.status = "waiting_user" /\ row.pending_decision = d
      /\ row.pending_interaction = question /\ Known(row) = Known(st)
  BY <1>1 DEF TaskRow, Known
<1>7. Save(h, row) /\ UNCHANGED << granted, dispatched, prepared >>
  BY DEF AskConfirmation, artifacts, ghosts
<1> HIDE DEF row
<1>8. Current(row, prepared')
  <2>1. d # NoDecision
    BY <1>2 DEF IndInv, Midway, At, Decision, NoDecision, Catalog, WriteActions,
                PrepareActions, ReadActions
  <2>2. prepared.operation = d.name
    BY DEF AskConfirmation, Ready, WritePrecondition
  <2> QED
    BY <1>6, <1>7, <2>1, <2>2 DEF Current, HashNow
<1>9. GrantedHashes' \subseteq Known(row)
  BY <1>3, <1>6, <1>7 DEF RowInv, GrantedHashes
<1>10. RowInv'
  BY <1>6, <1>7, <1>8, <1>9, SaveRow
<1>11. task' = row
  BY <1>7 DEF Save
<1>12. AskedBy(task)' = HashNow(h) /\ InUse(task)' = TRUE
  BY <1>6, <1>11 DEF AskedBy, InUse, TerminalStatus
<1>13. UNCHANGED Attempts
  BY <1>7 DEF Attempts
<1>14. Promise!Ask
  BY <1>3, <1>4, <1>5, <1>7, <1>12, <1>13 DEF Promise!Ask, GrantedHashes
<1> QED
  BY <1>10, <1>14 DEF Keeps, Promise!Next

\* The attempts, as the promise sees them.
LEMMA AttemptsAppend ==
    ASSUME dispatched \in Seq(Dispatched), NEW e, dispatched' = Append(dispatched, e)
    PROVE  Attempts' = Append(Attempts, [write |-> e.hash, done |-> e.outcome = "success"])
<1> DEFINE a == [write |-> e.hash, done |-> e.outcome = "success"]
           n == Len(dispatched)
<1>1. /\ n \in Nat
      /\ DOMAIN dispatched = 1..n /\ DOMAIN dispatched' = 1..(n + 1)
      /\ \A i \in 1..n : dispatched'[i] = dispatched[i]
      /\ dispatched'[n + 1] = e
  OBVIOUS
<1>2. Attempts \in Seq({Attempts[i] : i \in 1..n}) /\ Len(Attempts) = n
  <2>1. Attempts = [i \in 1..n |-> [write |-> dispatched[i].hash,
                                    done |-> dispatched[i].outcome = "success"]]
    BY <1>1 DEF Attempts
  <2> HIDE DEF n
  <2> QED
    BY <1>1, <2>1
<1>3. Attempts' = [i \in 1..(n + 1) |-> IF i = n + 1 THEN a ELSE Attempts[i]]
  <2>1. Attempts' = [i \in 1..(n + 1) |-> [write |-> dispatched'[i].hash,
                                           done |-> dispatched'[i].outcome = "success"]]
    BY <1>1 DEF Attempts
  <2>2. \A i \in 1..n : Attempts[i] = [write |-> dispatched[i].hash,
                                       done |-> dispatched[i].outcome = "success"]
    BY <1>1 DEF Attempts
  <2> HIDE DEF n
  <2>3. \A i \in 1..(n + 1) : i = n + 1 \/ i \in 1..n
    BY <1>1
  <2>4. \A i \in 1..(n + 1) :
          [write |-> dispatched'[i].hash, done |-> dispatched'[i].outcome = "success"]
            = IF i = n + 1 THEN a ELSE Attempts[i]
    BY <1>1, <2>2, <2>3
  <2> HIDE DEF a
  <2> QED
    BY <2>1, <2>4
<1> DEFINE S == {Attempts[i] : i \in 1..n} \cup {a}
           longer == [i \in 1..(n + 1) |-> IF i = n + 1 THEN a ELSE Attempts[i]]
<1>4. Attempts \in Seq(S) /\ a \in S
  <2> HIDE DEF a, n
  <2> QED
    BY <1>2, SeqMonotonic
<1>5. longer \in Seq(S) /\ Len(longer) = n + 1
  <2>1. \A i \in 1..(n + 1) : (IF i = n + 1 THEN a ELSE Attempts[i]) \in S
    BY <1>1
  <2> HIDE DEF a, S, n
  <2> QED
    BY <1>1, <2>1
<1>6. /\ Append(Attempts, a) \in Seq(S) /\ Len(Append(Attempts, a)) = n + 1
      /\ \A i \in 1..n : Append(Attempts, a)[i] = Attempts[i]
      /\ Append(Attempts, a)[n + 1] = a
  <2> HIDE DEF a, S, n
  <2> QED
    BY <1>2, <1>4, AppendProperties
<1>7. \A i \in 1..(n + 1) : Append(Attempts, a)[i] = longer[i]
  <2> HIDE DEF a, S, n
  <2> QED
    BY <1>1, <1>6
<1> HIDE DEF a, S, n, longer
<1>8. Append(Attempts, a) = longer
  BY <1>5, <1>6, <1>7, SeqEqual
<1> QED
  BY <1>3, <1>8 DEF a, longer

LEMMA DoneIsSucceeded == Promise!Done = Succeeded
<1>1. DOMAIN Attempts = DOMAIN dispatched
  BY DEF Attempts
<1>2. \A i \in DOMAIN dispatched : /\ Attempts[i].write = dispatched[i].hash
                                   /\ Attempts[i].done <=> dispatched[i].outcome = "success"
  BY DEF Attempts
<1> QED
  BY <1>1, <1>2 DEF Promise!Done, Succeeded

\* The dispatcher: a write that is sent is one the promise lets through.
LEMMA DispatchRow ==
    ASSUME OneAtATime, IndInv, QuestionInv, RowInv, ApprovalInv, ExecutedInv,
           NEW h \in Handlers, Dispatch(h)
    PROVE  RowInv' /\ Keeps
<1> DEFINE st == call[h].st
           d == call[h].decision
<1>1. /\ call[h] \in Call /\ st \in TaskRow
      /\ At(h, "dispatch") /\ call[h].pc \in Working
  BY DEF IndInv, TypeOK, Call, Dispatch, DispatchRaises, GenerateDraft, ReadTable,
         PrepareOperation, MatchRecord, ExecuteWrite, At, Working
<1>2. /\ st = task /\ task.status = "running" /\ task.pending_interaction = NoInteraction
      /\ InUse(task) /\ AskedBy(task) = NoHash
  BY <1>1, RowAtWork
<1>3. UNCHANGED << task, granted, prepared >>
  BY DEF Dispatch, DispatchRaises, GenerateDraft, ReadTable, PrepareOperation, MatchRecord,
         ExecuteWrite, ghosts, artifacts
<1>4. RowInv'
  <2>1. PICK ob : Yields(h, ob)
    BY DEF Dispatch, DispatchRaises, GenerateDraft, ReadTable, PrepareOperation, MatchRecord,
           ExecuteWrite
  <2> DEFINE c == [call[h] EXCEPT !.pc = "persist", !.observation = ob]
  <2>2. c.st = st /\ c.pc = "persist"
    BY <1>1 DEF Call
  <2>3. call' = [call EXCEPT ![h] = c]
    BY <2>1 DEF Yields
  <2>4. Serves(c) /\ Current(task, prepared')
    BY <1>2, <2>2 DEF Serves, Current, NoInteraction
  <2> HIDE DEF c
  <2> QED
    BY <1>3, <2>3, <2>4, CallRow
<1>5. CASE UNCHANGED dispatched
  BY <1>3, <1>4, <1>5, Stutter
<1>6. CASE dispatched' # dispatched
  <2>1. ExecuteWrite(h) /\ d.name \in WriteActions
    BY <1>6 DEF Dispatch, DispatchRaises, GenerateDraft, ReadTable, PrepareOperation,
                MatchRecord, ExecuteWrite, ghosts
  <2>2. PICK e : /\ dispatched' = Append(dispatched, e)
                 /\ e.hash = ExecutionHash(d, prepared)
    <3> DEFINE tgt == TargetOf(st, d, prepared)
               hash == ExecutionHash(d, prepared)
    <3>1. PICK o \in {"success", "retryable_error", "no_match", "needs_input", "terminal_error"},
               b \in BOOLEAN :
            dispatched' = Append(dispatched,
              [hash |-> hash, target |-> tgt, outcome |-> o, applied |-> b])
      BY <1>6, <2>1 DEF ExecuteWrite
    <3> HIDE DEF tgt, hash
    <3> QED
      BY <3>1 DEF hash
  <2>3. /\ e.hash = call[h].hash /\ e.hash \in GrantedHashes
        /\ e.hash \notin Succeeded
    BY <1>1, <1>2, <2>1, <2>2 DEF ApprovalInv, ExecutedInv, At, NoWriteAfterSuccess
  <2>4. Attempts' = Append(Attempts, [write |-> e.hash, done |-> e.outcome = "success"])
    BY <2>2, AttemptsAppend DEF IndInv, TypeOK
  <2>5. /\ e.hash \in {g.hash : g \in granted} \ Promise!Done
        /\ (e.outcome = "success") \in BOOLEAN
    BY <2>3, DoneIsSucceeded DEF GrantedHashes
  <2>6. UNCHANGED << InUse(task), AskedBy(task), {g.hash : g \in granted} >>
    BY <1>3 DEF InUse, AskedBy
  <2>7. Promise!Send
    BY <1>2, <2>4, <2>5, <2>6 DEF Promise!Send
  <2> QED
    BY <1>4, <2>7 DEF Keeps, Promise!Next
<1> QED
  BY <1>5, <1>6

\* The end of the turn: what was consumed stays known.
LEMMA RecordRow ==
    ASSUME OneAtATime, IndInv, QuestionInv, RowInv, NEW h \in Handlers, Persist(h) \/ Commit(h)
    PROVE  RowInv' /\ Keeps
<1> DEFINE c == call[h]
<1>1. c \in Call /\ c.st \in TaskRow /\ c.pc \in Working
  BY DEF IndInv, TypeOK, Call, Persist, Commit, At, Working
<1>2. c.st = task /\ task.pending_interaction = NoInteraction
  BY <1>1, RowAtWork
<1>3. CASE Persist(h)
  <2> DEFINE next == [c EXCEPT !.pc = "commit"]
  <2>1. next.st = c.st /\ next.pc = "commit"
    BY <1>1 DEF Call
  <2>2. call' = [call EXCEPT ![h] = next] /\ UNCHANGED << task, granted, dispatched >>
    BY <1>3 DEF Persist, ghosts, IndInv, TypeOK
  <2>3. Serves(next) /\ Current(task, prepared')
    BY <1>2, <2>1 DEF Serves, Current, NoInteraction
  <2> HIDE DEF next
  <2> QED
    BY <2>2, <2>3, CallRow, Stutter
<1>4. CASE Commit(h)
  <2> DEFINE used == Consumed(c)
             row == Apply(used, c.decision, c.observation)
  <2>1. At(h, "commit") /\ Save(h, row) /\ UNCHANGED << granted, dispatched >>
    BY <1>4 DEF Commit, ghosts
  <2>2. /\ used \in TaskRow /\ used.pending_interaction = NoInteraction
        /\ Known(c.st) \subseteq Known(used)
    BY <1>2, <2>1, ConsumedRow DEF Known
  <2> HIDE DEF used
  <2>3. /\ row.pending_interaction = NoInteraction /\ row.status \in {"running", "failed"}
        /\ Known(row) = Known(used)
    BY <2>2, ApplyKeepsQuestion, ApplyKeepsHashes DEF Known
  <2> HIDE DEF row
  <2> QED
    BY <1>1, <2>1, <2>2, <2>3, SaveKeeps DEF NoInteraction
<1> QED
  BY <1>3, <1>4

\* An answer is saved, and the handler enters the loop.
LEMMA EnterRow ==
    ASSUME OneAtATime, IndInv, NEW h \in Handlers, NEW row, SaveAndEnter(h, row),
           row.status = "running", row.pending_interaction = NoInteraction,
           GrantedHashes' \subseteq Known(row)
    PROVE  RowInv'
<1> DEFINE c == [Idle EXCEPT !.pc = "enter"]
<1>1. c.pc = "enter"
  BY DEF Idle
<1>2. task' = row /\ \A k \in Handlers : k = h /\ call'[k] = c
  BY DEF SaveAndEnter, OneAtATime, IndInv, TypeOK
<1> HIDE DEF c
<1> QED
  BY <1>1, <1>2 DEF RowInv, Serves, ConfirmationIsCurrent, Known, NoInteraction

\* The user's answers: approve, decline or cancel; an answer to another question is a stutter.
LEMMA ResumeRow ==
    ASSUME OneAtATime, IndInv, QuestionInv, RowInv, NEW h \in Handlers, Resume(h)
    PROVE  RowInv' /\ Keeps
<1> DEFINE st == call[h].st
<1>1. /\ call[h] \in Call /\ st \in TaskRow /\ At(h, "resume")
      /\ call[h].reply = "approve" => st.pending_interaction.kind = "confirm"
  BY DEF IndInv, TypeOK, Call, Midway, Resume, ResumeCancel, ResumeApprove, ResumeReply
<1>2. /\ st = task /\ task.status = "waiting_user" /\ InUse(task)
      /\ GrantedHashes \subseteq Known(st)
  BY <1>1, RowAtResume DEF RowInv
<1>3. NoInteraction.kind # "confirm"
  BY DEF NoInteraction
<1>4. CASE ResumeCancel(h)
  <2> DEFINE row == [st EXCEPT !.status = "cancelled", !.pending_interaction = NoInteraction,
                               !.pending_decision = NoDecision]
  <2>1. /\ row.status = "cancelled" /\ row.pending_interaction = NoInteraction
        /\ Known(row) = Known(st)
    BY <1>1 DEF TaskRow, Known
  <2>2. Save(h, row) /\ UNCHANGED << granted, dispatched >>
    BY <1>4 DEF ResumeCancel, ghosts
  <2> HIDE DEF row
  <2>3. task' = row /\ ~InUse(task')
    BY <2>1, <2>2 DEF Save, InUse, TerminalStatus
  <2>4. RowInv'
    BY <1>2, <1>3, <2>1, <2>2, SaveRow DEF Current, GrantedHashes
  <2> QED
    BY <1>2, <1>3, <2>1, <2>2, <2>3, <2>4, RowStep
<1>5. CASE ResumeReply(h)
  <2> DEFINE row == [st EXCEPT !.pending_interaction = NoInteraction,
                               !.pending_decision = NoDecision, !.status = "running"]
  <2>1. /\ row.status = "running" /\ row.pending_interaction = NoInteraction
        /\ Known(row) = Known(st)
    BY <1>1 DEF TaskRow, Known
  <2>2. SaveAndEnter(h, row) /\ UNCHANGED << granted, dispatched >>
    BY <1>5 DEF ResumeReply, ghosts
  <2> HIDE DEF row
  <2>3. task' = row
    BY <2>2 DEF SaveAndEnter
  <2>4. RowInv'
    BY <1>2, <2>1, <2>2, EnterRow DEF GrantedHashes
  <2>5. AskedBy(task)' = NoHash /\ InUse(task)' = InUse(task) /\ InUse(task)
    BY <1>2, <1>3, <2>1, <2>3 DEF AskedBy, InUse, TerminalStatus
  <2>6. UNCHANGED << {g.hash : g \in granted}, Attempts >>
    BY <2>2 DEF Attempts
  <2>7. Promise!Decline \/ UNCHANGED Promise!promises
    BY <2>5, <2>6 DEF Promise!Decline, Promise!promises
  <2> QED
    BY <2>4, <2>7 DEF Keeps, Promise!Next
<1>6. CASE ResumeApprove(h)
  <2> DEFINE asked == st.pending_interaction.hash
             row == [st EXCEPT !.approved = @ \cup {asked},
                               !.pending_interaction = NoInteraction, !.status = "running"]
             g == [hash |-> asked, target |-> TargetOf(st, st.pending_decision, asked.prepared)]
  <2>1. SaveAndEnter(h, row) /\ UNCHANGED dispatched /\ granted' = granted \cup {g}
    BY <1>6 DEF ResumeApprove
  <2>2. AskedBy(task) = asked /\ asked \in Hash /\ g.hash = asked
    BY <1>1, <1>2, <1>6 DEF AskedBy, ResumeApprove, TaskRow, Interaction
  <2> HIDE DEF g
  <2>3. {x.hash : x \in granted'} = {x.hash : x \in granted} \cup {asked}
    BY <2>1, <2>2
  <2>4. /\ row.status = "running" /\ row.pending_interaction = NoInteraction
        /\ Known(row) = Known(st) \cup {asked}
    BY <1>1 DEF TaskRow, Known
  <2> HIDE DEF row, asked
  <2>5. RowInv'
    BY <1>2, <2>1, <2>3, <2>4, EnterRow DEF GrantedHashes
  <2>6. task' = row
    BY <2>1 DEF SaveAndEnter
  <2>7. AskedBy(task)' = NoHash /\ InUse(task)' = InUse(task)
    BY <1>2, <1>3, <2>4, <2>6 DEF AskedBy, InUse, TerminalStatus
  <2>8. UNCHANGED Attempts
    BY <2>1 DEF Attempts
  <2>9. AskedBy(task) # NoHash
    BY <2>2, NoHashIsNone
  <2>10. Promise!Approve
    BY <1>2, <2>2, <2>3, <2>7, <2>8, <2>9 DEF Promise!Approve
  <2> QED
    BY <2>5, <2>10 DEF Keeps, Promise!Next
<1> QED
  BY <1>4, <1>5, <1>6 DEF Resume

\* The endpoints read the row, and the promise sees nothing of it.
LEMMA FetchRow ==
    ASSUME OneAtATime, IndInv, QuestionInv, RowInv, NEW h \in Handlers, ResumeRead(h) \/ EnterLoop(h)
    PROVE  RowInv' /\ Keeps
<1>1. UNCHANGED << task, granted, dispatched, prepared >>
  BY DEF ResumeRead, EnterLoop, ghosts, artifacts
<1>2. Current(task, prepared')
  BY <1>1 DEF Current, RowInv, ConfirmationIsCurrent
<1>3. CASE ResumeRead(h)
  <2>1. PICK reply :
          call' = [call EXCEPT ![h] = [Idle EXCEPT !.pc = "resume", !.st = task, !.reply = reply]]
    BY <1>3 DEF ResumeRead
  <2> DEFINE c == [Idle EXCEPT !.pc = "resume", !.st = task, !.reply = reply]
  <2>2. c.st = task /\ c.pc = "resume"
    BY DEF Idle
  <2>3. Serves(c)
    BY <1>3, <2>2 DEF Serves, ResumeRead
  <2> HIDE DEF c
  <2> QED
    BY <1>1, <1>2, <2>1, <2>3, CallRow, Stutter DEF c
<1>4. CASE EnterLoop(h)
  <2> DEFINE c == [Idle EXCEPT !.pc = "loop", !.st = task]
  <2>1. c.st = task /\ c.pc = "loop" /\ Idle.pc = "idle"
    BY DEF Idle
  <2>2. Serves(c) /\ Serves(Idle)
    BY <2>1 DEF Serves
  <2>3. call' = [call EXCEPT ![h] = c] \/ call' = [call EXCEPT ![h] = Idle]
    BY <1>4 DEF EnterLoop
  <2> HIDE DEF c
  <2> QED
    BY <1>1, <1>2, <2>2, <2>3, CallRow, Stutter
<1> QED
  BY <1>3, <1>4

LEMMA InitRow == Init => RowInv /\ Promise!Init
<1> SUFFICES ASSUME Init PROVE RowInv /\ Promise!Init
  OBVIOUS
<1>1. task.status = "absent" /\ task.pending_interaction.kind = "none"
  BY DEF Init, NewTask, NoInteraction
<1>2. granted = {} /\ dispatched = << >> /\ \A h \in Handlers : call[h].pc = "idle"
  BY DEF Init, Idle
<1>3. RowInv
  BY <1>1, <1>2 DEF RowInv, ConfirmationIsCurrent, Serves, GrantedHashes
<1>4. InUse(task) = TRUE /\ AskedBy(task) = NoHash
  BY <1>1 DEF InUse, TerminalStatus, AskedBy
<1>5. Attempts = << >>
  BY <1>2 DEF Attempts
<1>6. {g.hash : g \in granted} = {}
  BY <1>2
<1> QED
  BY <1>3, <1>4, <1>5, <1>6 DEF Promise!Init

\* Every step keeps the row straight, and the promise.
LEMMA NextRow ==
    OneAtATime /\ IndInv /\ ApprovalInv /\ ExecutedInv /\ QuestionInv /\ RowInv /\ [Next]_vars
      => RowInv' /\ Keeps
<1> SUFFICES ASSUME OneAtATime, IndInv, ApprovalInv, ExecutedInv, QuestionInv, RowInv, [Next]_vars
             PROVE  RowInv' /\ Keeps
  OBVIOUS
<1>1. ASSUME NEW h \in Handlers, Invoke(h) \/ ResumeRead(h) \/ Advance(h) PROVE RowInv' /\ Keeps
  BY <1>1, InvokeRow, LoopRow, GateRow, AskRow, DispatchRow, RecordRow, ResumeRow, FetchRow
  DEF Advance, Gate
<1>2. CASE Restart
  <2>1. /\ task'.status = "lost" /\ task'.pending_interaction = NoInteraction
        /\ UNCHANGED << granted, dispatched, prepared >>
    BY <1>2 DEF Restart, NewTask, ghosts, artifacts
  <2>2. \A h \in Handlers : call'[h].pc = "idle"
    BY <1>2 DEF Restart, Idle
  <2>3. RowInv'
    BY <2>1, <2>2 DEF RowInv, Serves, ConfirmationIsCurrent, NoInteraction
  <2>4. AskedBy(task)' = NoHash /\ InUse(task)' = FALSE
    BY <2>1 DEF AskedBy, InUse, NoInteraction
  <2>5. UNCHANGED << {g.hash : g \in granted}, Attempts >>
    BY <2>1 DEF Attempts
  <2>6. CASE InUse(task)
    BY <2>3, <2>4, <2>5, <2>6 DEF Keeps, Promise!Next, Promise!End
  <2>7. CASE ~InUse(task)
    <3>1. AskedBy(task) = NoHash /\ InUse(task) = FALSE
      BY <2>7 DEF AskedBy, InUse, TerminalStatus, QuestionInv, WaitsWithQuestion, NoInteraction
    <3> QED
      BY <2>3, <2>4, <2>5, <3>1 DEF Keeps, Promise!promises
  <2> QED
    BY <2>6, <2>7
<1>3. CASE UNCHANGED vars
  <2>1. UNCHANGED << task, granted, dispatched, prepared, call >>
    BY <1>3 DEF vars, artifacts, ghosts
  <2> QED
    BY <2>1, Stutter DEF RowInv, ConfirmationIsCurrent, Serves, Known, GrantedHashes
<1> QED
  BY <1>1, <1>2, <1>3 DEF Next

\* All that is known of a task whose requests do not overlap.
TaskInv == IndInv /\ ApprovalInv /\ ExecutedInv /\ QuestionInv /\ RowInv

LEMMA TaskInvariant == OneAtATime => (Spec => []TaskInv)
<1>1. Init => TaskInv
  <2>1. Idle.st.approved = {} /\ Idle.pc = "idle"
    BY DEF Idle, NewTask
  <2>2. Init => task.approved = {} /\ task.executed = {} /\ task.status = "absent"
    BY DEF Init, NewTask
  <2>3. Init => ApprovalInv
    BY <2>1, <2>2 DEF Init, ApprovalInv, WritesWereApproved
  <2>4. Init => ExecutedInv
    BY <2>1, <2>2 DEF Init, ExecutedInv, NoWriteAfterSuccess, Succeeded
  <2> QED
    BY <2>3, <2>4, InitIndInv, InitQuestion, InitRow DEF TaskInv
<1>2. ASSUME OneAtATime PROVE Spec => []TaskInv
  <2>1. TaskInv /\ [Next]_vars => TaskInv'
    BY <1>2, NextIndInv, NextApproval, NextExecuted, NextQuestion, NextRow DEF TaskInv
  <2> QED
    BY <1>1, <2>1, PTL DEF Spec
<1> QED
  BY <1>2

\* README, "safety boundaries": the executor carries out ConfirmedWrites.  Its user is asked
\* once about a write, nothing is sent that was not approved, that was done before, while a
\* question is open, or after the end, whatever the planner, the tools and restarts do.
THEOREM ExecutorKeepsPromise == OneAtATime => (Spec => KeepsPromise)
<1>1. Init => Promise!Init
  BY InitRow
<1>2. ASSUME OneAtATime PROVE Spec => KeepsPromise
  <2>1. TaskInv /\ [Next]_vars => [Promise!Next]_(Promise!promises)
    BY <1>2, NextRow DEF TaskInv, Keeps
  <2>2. Spec => []TaskInv
    BY <1>2, TaskInvariant
  <2> QED
    BY <1>1, <2>1, <2>2, PTL DEF Spec, KeepsPromise, Promise!Spec
<1> QED
  BY <1>2

\* What the user is asked is what an approval would release: no step of the loop replaces the
\* prepared request behind an open question.
THEOREM QuestionIsCurrent == OneAtATime => (Spec => []ConfirmationIsCurrent)
<1>1. TaskInv => ConfirmationIsCurrent
  BY DEF TaskInv, RowInv
<1>2. ASSUME OneAtATime PROVE Spec => []ConfirmationIsCurrent
  <2>1. Spec => []TaskInv
    BY <1>2, TaskInvariant
  <2> QED
    BY <1>1, <2>1, PTL
<1> QED
  BY <1>2

\* A task that has ended is never written again, until a restart loses it.
THEOREM EndedStaysEnded == OneAtATime => (Spec => TerminalIsFinal)
<1>1. TaskInv /\ [Next]_vars
        => [task.status \in TerminalStatus => task' = task \/ task'.status = "lost"]_vars
  <2> SUFFICES ASSUME TaskInv, Next, task.status \in TerminalStatus
               PROVE  task' = task \/ task'.status = "lost"
    OBVIOUS
  <2>1. task.status \notin {"absent", "running", "waiting_user"}
    BY DEF TerminalStatus
  <2>2. \A h \in Handlers : call[h].pc \notin Working \cup {"enter", "resume"}
    BY <2>1, RowAtWork DEF TaskInv, RowInv, Serves
  <2>3. ASSUME NEW h \in Handlers, Advance(h) PROVE call[h].pc \in Working \cup {"enter", "resume"}
    BY <2>3 DEF Advance, StopAtMaxSteps, PlannerFails, Decide, Gate, StopRepeating, AskUser, Finish,
                RejectUnprepared, SkipExecuted, AskConfirmation, Proceed, Passes, Dispatch,
                DispatchRaises, GenerateDraft, ReadTable, PrepareOperation, MatchRecord,
                ExecuteWrite, Persist, Commit, Resume, ResumeCancel, ResumeApprove, ResumeReply,
                EnterLoop, At, Working
  <2>4. ASSUME NEW h \in Handlers PROVE ~Invoke(h) /\ ~ResumeRead(h)
    BY <2>1 DEF Invoke, ResumeRead
  <2>5. Restart
    BY <2>2, <2>3, <2>4 DEF Next
  <2> QED
    BY <2>5 DEF Restart, NewTask
<1>2. ASSUME OneAtATime PROVE Spec => TerminalIsFinal
  <2>1. Spec => []TaskInv
    BY <1>2, TaskInvariant
  <2> QED
    BY <1>1, <2>1, PTL DEF Spec, TerminalIsFinal
<1> QED
  BY <1>2

-----------------------------------------------------------------------------
(* A task that only drafts: any number of handlers.                        *)

Drafting == {"generate_record_draft", "finish"}

\* Neither the row nor a copy keeps a decision, and the policy's decisions are harmless.
DraftInv ==
    operation = "draft_generate" =>
        /\ dispatched = << >> /\ task.status # "waiting_user"
        /\ task.pending_decision = NoDecision
        /\ \A h \in Handlers :
             /\ call[h].pc # "resume" /\ call[h].st.pending_decision = NoDecision
             /\ call[h].st.status # "waiting_user"
             /\ call[h].pc \in Working \ {"loop"} => call[h].decision.name \in Drafting

\* A save of a row that does not wait and keeps no decision.
LEMMA SaveDraft ==
    ASSUME IndInv, DraftInv, NEW h \in Handlers, NEW row, Save(h, row), UNCHANGED << operation, dispatched >>,
           operation = "draft_generate" =>
             row.status # "waiting_user" /\ row.pending_decision = NoDecision
    PROVE  DraftInv'
<1> DEFINE c == [Idle EXCEPT !.pc = "loop", !.st = row]
<1>1. /\ c.st = row /\ c.pc = "loop" /\ Idle.pc = "idle"
      /\ Idle.st.pending_decision = NoDecision /\ Idle.st.status = "running"
  BY DEF Idle, NewTask
<1>2. task' = row /\ \A k \in Handlers : call'[k] \in {call[k], c, Idle}
  BY DEF Save, IndInv, TypeOK
<1> HIDE DEF c
<1> QED
  BY <1>1, <1>2 DEF DraftInv, Working

LEMMA CallDraft ==
    ASSUME IndInv, DraftInv, NEW h \in Handlers, NEW c, call' = [call EXCEPT ![h] = c],
           UNCHANGED << operation, dispatched, task >>,
           operation = "draft_generate" =>
             /\ c.pc # "resume" /\ c.st.pending_decision = NoDecision
             /\ c.st.status # "waiting_user"
             /\ c.pc \in Working \ {"loop"} => c.decision.name \in Drafting
    PROVE  DraftInv'
<1>1. \A k \in Handlers : call'[k] \in {call[k], c}
  BY DEF IndInv, TypeOK
<1> QED
  BY <1>1 DEF DraftInv

LEMMA LoopDraft ==
    ASSUME IndInv, DraftInv, NEW h \in Handlers,
           Invoke(h) \/ StopAtMaxSteps(h) \/ PlannerFails(h) \/ Decide(h)
    PROVE  DraftInv'
<1> DEFINE st == call[h].st
<1>1. call[h] \in Call /\ st \in TaskRow
  BY DEF IndInv, TypeOK, Call
<1>2. CASE Invoke(h)
  BY <1>2, SaveDraft DEF Invoke, NewTask, ghosts
<1>3. CASE StopAtMaxSteps(h) \/ PlannerFails(h)
  <2> DEFINE row == [st EXCEPT !.status = "failed"]
  <2>1. row.status = "failed" /\ row.pending_decision = st.pending_decision
    BY <1>1 DEF TaskRow
  <2>2. Save(h, row) /\ UNCHANGED << operation, dispatched >>
    BY <1>3 DEF StopAtMaxSteps, PlannerFails, ghosts
  <2> HIDE DEF row
  <2> QED
    BY <2>1, <2>2, SaveDraft DEF DraftInv
<1>4. CASE Decide(h)
  <2>1. PICK d \in NextDecisions(st) :
          call' = [call EXCEPT ![h] = [call[h] EXCEPT !.pc = "gate", !.decision = d]]
    BY <1>4 DEF Decide, IndInv, TypeOK
  <2> DEFINE c == [call[h] EXCEPT !.pc = "gate", !.decision = d]
  <2>2. c.st = st /\ c.pc = "gate" /\ c.decision = d
    BY <1>1 DEF Call
  <2>3. operation = "draft_generate" => d.name \in Drafting
    BY <2>1 DEF DraftInv, NextDecisions, RequiredDecision, Drafting
  <2>4. UNCHANGED << operation, dispatched, task >>
    BY <1>4 DEF Decide, ghosts
  <2> HIDE DEF c
  <2> QED
    BY <2>1, <2>2, <2>3, <2>4, CallDraft DEF c, DraftInv
<1> QED
  BY <1>2, <1>3, <1>4

LEMMA GateDraft ==
    ASSUME IndInv, DraftInv, NEW h \in Handlers, Gate(h)
    PROVE  DraftInv'
<1> DEFINE st == call[h].st
           d == call[h].decision
<1>1. call[h] \in Call /\ st \in TaskRow /\ At(h, "gate")
  BY DEF IndInv, TypeOK, Call, Gate, StopRepeating, AskUser, Finish, RejectUnprepared,
         SkipExecuted, AskConfirmation, Proceed, Passes
<1>2. UNCHANGED << operation, dispatched >>
  BY DEF Gate, StopRepeating, AskUser, Finish, RejectUnprepared, SkipExecuted,
         AskConfirmation, Proceed, ghosts
<1>3. operation = "draft_generate" =>
        /\ d.name \in Drafting /\ ~IsWrite(h) /\ d.name # "ask_user"
        /\ st.pending_decision = NoDecision /\ st.status # "waiting_user"
  BY <1>1 DEF DraftInv, At, Working, Drafting, IsWrite, WriteActions
<1>4. CASE StopRepeating(h)
  <2> DEFINE row == [st EXCEPT !.status = "failed"]
  <2>1. row.status = "failed" /\ row.pending_decision = st.pending_decision
    BY <1>1 DEF TaskRow
  <2>2. Save(h, row)
    BY <1>4 DEF StopRepeating
  <2> HIDE DEF row
  <2> QED
    BY <1>2, <1>3, <2>1, <2>2, SaveDraft
<1>5. CASE Finish(h)
  <2> DEFINE next == Apply(st, d, Observed("success"))
             row == [next EXCEPT !.status = "completed"]
  <2>1. next \in TaskRow /\ next.pending_decision = NoDecision
    <3>1. next \in TaskRow
      BY <1>1, EmptyTypes, ApplyType DEF IndInv, Midway, At, ObservationStatus
    <3>2. next.pending_decision = NoDecision
      BY <1>1 DEF Apply, TaskRow
    <3> QED
      BY <3>1, <3>2
  <2>2. Save(h, row)
    BY <1>5 DEF Finish
  <2> HIDE DEF next
  <2>3. row.status = "completed" /\ row.pending_decision = NoDecision
    BY <2>1 DEF TaskRow
  <2> HIDE DEF row
  <2> QED
    BY <1>2, <2>2, <2>3, SaveDraft
<1>6. CASE Proceed(h)
  <2> DEFINE c == [call[h] EXCEPT !.pc = "dispatch",
                                  !.hash = IF IsWrite(h) THEN HashNow(h) ELSE NoHash]
  <2>1. c.st = st /\ c.pc = "dispatch" /\ c.decision = d
    BY <1>1 DEF Call
  <2>2. call' = [call EXCEPT ![h] = c] /\ UNCHANGED task
    BY <1>6 DEF Proceed, IndInv, TypeOK
  <2> HIDE DEF c
  <2> QED
    BY <1>2, <1>3, <2>1, <2>2, CallDraft
<1>7. CASE AskUser(h) \/ RejectUnprepared(h) \/ SkipExecuted(h) \/ AskConfirmation(h)
  <2>1. operation # "draft_generate"
    BY <1>3, <1>7 DEF AskUser, RejectUnprepared, SkipExecuted, AskConfirmation
  <2> QED
    BY <1>2, <2>1 DEF DraftInv
<1> QED
  BY <1>4, <1>5, <1>6, <1>7 DEF Gate

LEMMA DispatchDraft ==
    ASSUME IndInv, DraftInv, NEW h \in Handlers, Dispatch(h) \/ Persist(h) \/ Commit(h)
    PROVE  DraftInv'
<1> DEFINE c == call[h]
<1>1. c \in Call /\ c.st \in TaskRow /\ c.pc \in Working \ {"loop"} /\ UNCHANGED operation
  BY DEF IndInv, TypeOK, Call, Dispatch, DispatchRaises, GenerateDraft, ReadTable,
         PrepareOperation, MatchRecord, ExecuteWrite, Persist, Commit, At, Working
<1> SUFFICES ASSUME operation = "draft_generate" PROVE DraftInv'
  BY <1>1 DEF DraftInv
<1>2. /\ c.decision.name \in Drafting /\ c.decision.name \notin WriteActions
      /\ c.st.pending_decision = NoDecision /\ c.st.status # "waiting_user"
  BY <1>1 DEF DraftInv, Drafting, WriteActions
<1>3. CASE Dispatch(h)
  <2>1. PICK ob : Yields(h, ob)
    BY <1>3 DEF Dispatch, DispatchRaises, GenerateDraft, ReadTable, PrepareOperation,
                MatchRecord, ExecuteWrite
  <2>2. UNCHANGED << dispatched, task >>
    BY <1>2, <1>3 DEF Dispatch, DispatchRaises, GenerateDraft, ReadTable, PrepareOperation,
                      MatchRecord, ExecuteWrite, ghosts
  <2> DEFINE n == [c EXCEPT !.pc = "persist", !.observation = ob]
  <2>3. n.st = c.st /\ n.pc = "persist" /\ n.decision = c.decision
    BY <1>1 DEF Call
  <2>4. call' = [call EXCEPT ![h] = n]
    BY <2>1 DEF Yields
  <2> HIDE DEF n
  <2> QED
    BY <1>1, <1>2, <2>2, <2>3, <2>4, CallDraft
<1>4. CASE Persist(h)
  <2> DEFINE n == [c EXCEPT !.pc = "commit"]
  <2>1. n.st = c.st /\ n.pc = "commit" /\ n.decision = c.decision
    BY <1>1 DEF Call
  <2>2. call' = [call EXCEPT ![h] = n] /\ UNCHANGED << dispatched, task >>
    BY <1>4 DEF Persist, ghosts, IndInv, TypeOK
  <2> HIDE DEF n
  <2> QED
    BY <1>1, <1>2, <2>1, <2>2, CallDraft
<1>5. CASE Commit(h)
  <2> DEFINE row == Apply(Consumed(c), c.decision, c.observation)
  <2>1. Consumed(c) \in TaskRow
    BY <1>5, ConsumedRow DEF Commit
  <2>2. row.status \in {"running", "failed"} /\ row.pending_decision = NoDecision
    BY <2>1 DEF Apply, TaskRow
  <2>3. Save(h, row) /\ UNCHANGED dispatched
    BY <1>5 DEF Commit, ghosts
  <2> HIDE DEF row
  <2> QED
    BY <1>1, <2>2, <2>3, SaveDraft
<1> QED
  BY <1>3, <1>4, <1>5

LEMMA ResumeDraft ==
    ASSUME IndInv, DraftInv, NEW h \in Handlers, ResumeRead(h) \/ Resume(h) \/ EnterLoop(h)
    PROVE  DraftInv'
<1>1. UNCHANGED << operation, dispatched >>
  BY DEF ResumeRead, Resume, ResumeCancel, ResumeApprove, ResumeReply, EnterLoop, ghosts
<1>2. CASE ResumeRead(h) \/ Resume(h)
  <2>1. operation # "draft_generate"
    BY <1>2 DEF DraftInv, ResumeRead, Resume, ResumeCancel, ResumeApprove, ResumeReply, At
  <2> QED
    BY <1>1, <2>1 DEF DraftInv
<1>3. CASE EnterLoop(h)
  <2> DEFINE c == [Idle EXCEPT !.pc = "loop", !.st = task]
  <2>1. /\ c.st = task /\ c.pc = "loop" /\ Idle.pc = "idle"
        /\ Idle.st.pending_decision = NoDecision /\ Idle.st.status = "running"
    BY DEF Idle, NewTask
  <2>2. call' = [call EXCEPT ![h] = c] \/ call' = [call EXCEPT ![h] = Idle]
    BY <1>3 DEF EnterLoop
  <2>3. UNCHANGED task
    BY <1>3 DEF EnterLoop
  <2> HIDE DEF c
  <2> QED
    BY <1>1, <2>1, <2>2, <2>3, CallDraft DEF DraftInv, Working
<1> QED
  BY <1>2, <1>3

LEMMA InitDraft == Init => DraftInv
<1>1. Init => task.status = "absent" /\ task.pending_decision = NoDecision
  BY DEF Init, NewTask
<1>2. Idle.pc = "idle" /\ Idle.st.pending_decision = NoDecision /\ Idle.st.status = "running"
  BY DEF Idle, NewTask
<1>3. Init => dispatched = << >> /\ \A h \in Handlers : call[h] = Idle
  BY DEF Init
<1> QED
  BY <1>1, <1>2, <1>3 DEF DraftInv, Working

LEMMA NextDraft == IndInv /\ DraftInv /\ [Next]_vars => DraftInv'
<1> SUFFICES ASSUME IndInv, DraftInv, [Next]_vars PROVE DraftInv'
  OBVIOUS
<1>1. ASSUME NEW h \in Handlers, Invoke(h) \/ ResumeRead(h) \/ Advance(h) PROVE DraftInv'
  BY <1>1, LoopDraft, GateDraft, DispatchDraft, ResumeDraft DEF Advance
<1>2. CASE Restart
  <2>1. task'.status = "lost" /\ task'.pending_decision = NoDecision
    BY <1>2 DEF Restart, NewTask
  <2>2. Idle.pc = "idle" /\ Idle.st.pending_decision = NoDecision /\ Idle.st.status = "running"
    BY DEF Idle, NewTask
  <2>3. UNCHANGED << operation, dispatched >> /\ \A h \in Handlers : call'[h] = Idle
    BY <1>2 DEF Restart, ghosts
  <2> QED
    BY <2>1, <2>2, <2>3 DEF DraftInv, Working
<1>3. CASE UNCHANGED vars
  BY <1>3 DEF vars, ghosts, DraftInv
<1> QED
  BY <1>1, <1>2, <1>3 DEF Next

\* The policy: a task the backend started to draft a record never writes to Feishu and never
\* stops to ask, for any number of requests at once and whatever the planner would do.
THEOREM DraftsOnly == Spec => []DraftTasksOnlyDraft
<1>1. DraftInv => DraftTasksOnlyDraft
  BY DEF DraftInv, DraftTasksOnlyDraft
<1>2. Spec => []IndInv
  BY InitIndInv, NextIndInv, PTL DEF Spec
<1> QED
  BY <1>1, <1>2, InitDraft, NextDraft, PTL DEF Spec

-----------------------------------------------------------------------------
(* The snapshots the backend reads of a task: CompatView.                  *)

\* Questions are numbered, from 1.
Numbered ==
    /\ nextId > 0
    /\ \/ task.pending_interaction = NoInteraction
       \/ /\ task.pending_interaction.id \in 1..(nextId - 1)
          /\ task.pending_interaction.kind \in InteractionKind

\* A draft task finishes only with its draft.
Drafted ==
    operation = "draft_generate" =>
        /\ task.status = "completed" => draft
        /\ \A h \in Handlers : At(h, "gate") /\ call[h].decision.name = "finish" => draft

\* What a snapshot, or the row it begins with, says of the row as it is now.
Honest(snapshot) ==
    /\ Accepted(snapshot)
    /\ \/ snapshot.confirmation = NoConfirmation
       \/ /\ snapshot.confirmation.id \in 1..(nextId - 1)
          /\ snapshot.confirmation.id = task.pending_interaction.id
               => snapshot.confirmation.kind = task.pending_interaction.kind
    /\ operation = "draft_generate" /\ snapshot.status = "success" => draft

Complete(snapshot) ==
    /\ /\ snapshot.confirmation.kind = "confirm"
       /\ snapshot.confirmation.id = task.pending_interaction.id
       => snapshot.outputs.writePayload = task.pending_interaction.hash.prepared
    /\ operation = "draft_generate" /\ snapshot.status = "success" => snapshot.outputs.draft

\* A viewer is a record that holds a snapshot.
Viewing ==
    viewer = [pc |-> viewer.pc,
              shown |-> [status |-> viewer.shown.status,
                         confirmation |-> viewer.shown.confirmation,
                         outputs |-> viewer.shown.outputs]]

ViewInv ==
    /\ Numbered /\ Drafted /\ Viewing
    /\ viewer.pc \in {"row", "shown"} => Honest(viewer.shown)
    /\ viewer.pc = "shown" => Complete(viewer.shown)

-----------------------------------------------------------------------------
(* Steps of the task.                                                      *)

\* A step leaves the question, takes it away, or asks one with a new number.
QuestionStep ==
    \/ task'.pending_interaction = task.pending_interaction /\ nextId' = nextId
    \/ task'.pending_interaction = NoInteraction /\ nextId' = nextId
    \/ /\ task'.pending_interaction.id = nextId /\ nextId' = nextId + 1
       /\ task'.pending_interaction.kind \in InteractionKind

LEMMA LoopAsks ==
    ASSUME TaskInv, NEW h \in Handlers,
           \/ Invoke(h) \/ StopAtMaxSteps(h) \/ PlannerFails(h) \/ Decide(h)
           \/ Dispatch(h) \/ Persist(h) \/ ResumeRead(h) \/ EnterLoop(h)
    PROVE  QuestionStep
<1> DEFINE st == call[h].st
<1>1. st \in TaskRow
  BY DEF TaskInv, IndInv, TypeOK, Call
<1>2. CASE Invoke(h)
  BY <1>2 DEF Invoke, Save, NewTask, QuestionStep
<1>3. CASE StopAtMaxSteps(h) \/ PlannerFails(h)
  <2>1. st.pending_interaction = NoInteraction
    BY <1>3, RowAtWork DEF StopAtMaxSteps, PlannerFails, At, Working, TaskInv
  <2>2. Save(h, [st EXCEPT !.status = "failed"]) /\ nextId' = nextId
    BY <1>3 DEF StopAtMaxSteps, PlannerFails
  <2>3. task'.pending_interaction = st.pending_interaction
    BY <1>1, <2>2 DEF Save, TaskRow
  <2> QED
    BY <2>1, <2>2, <2>3 DEF QuestionStep
<1>4. CASE Decide(h) \/ Dispatch(h) \/ Persist(h) \/ ResumeRead(h) \/ EnterLoop(h)
  <2>1. UNCHANGED << task, nextId >>
    BY <1>4 DEF Decide, Dispatch, DispatchRaises, GenerateDraft, ReadTable, PrepareOperation,
                MatchRecord, ExecuteWrite, Persist, ResumeRead, EnterLoop
  <2> QED
    BY <2>1 DEF QuestionStep
<1> QED
  BY <1>2, <1>3, <1>4

LEMMA GateAsks ==
    ASSUME TaskInv, NEW h \in Handlers, Gate(h)
    PROVE  QuestionStep
<1> DEFINE st == call[h].st
           d == call[h].decision
           Next1(s) == Apply(st, d, Observed(s))
<1>1. st \in TaskRow /\ call[h].pc \in Working
  BY DEF TaskInv, IndInv, TypeOK, Call, Gate, StopRepeating, AskUser, Finish, RejectUnprepared,
         SkipExecuted, AskConfirmation, Proceed, Passes, At, Working
<1>2. st.pending_interaction = NoInteraction
  BY <1>1, RowAtWork DEF TaskInv
<1>3. \A s : Next1(s).pending_interaction = NoInteraction
  BY <1>1, <1>2, ApplyKeepsQuestion
<1>4. \A s : DOMAIN Next1(s) = DOMAIN st
  BY DEF Apply
<1>5. "pending_interaction" \in DOMAIN st /\ "status" \in DOMAIN st
  BY <1>1 DEF TaskRow
<1>6. CASE StopRepeating(h)
  BY <1>1, <1>2, <1>6 DEF StopRepeating, Save, TaskRow, QuestionStep
<1>7. CASE AskUser(h)
  <2> DEFINE q == [id |-> nextId, kind |-> "clarify", hash |-> NoHash]
  <2>1. task' = [Next1("needs_input") EXCEPT !.status = "waiting_user", !.pending_interaction = q]
    BY <1>7 DEF AskUser, Save
  <2> HIDE DEF Next1
  <2>2. task'.pending_interaction = q
    BY <1>4, <1>5, <2>1
  <2>3. nextId' = nextId + 1
    BY <1>7 DEF AskUser
  <2> QED
    BY <2>2, <2>3 DEF QuestionStep, InteractionKind
<1>8. CASE Finish(h)
  <2>1. task' = [Next1("success") EXCEPT !.status = "completed"] /\ nextId' = nextId
    BY <1>8 DEF Finish, Save
  <2> HIDE DEF Next1
  <2> QED
    BY <1>3, <1>4, <1>5, <2>1 DEF QuestionStep
<1>9. CASE RejectUnprepared(h) \/ SkipExecuted(h)
  <2>1. \E s : task' = Next1(s)
    BY <1>9 DEF RejectUnprepared, SkipExecuted, Save
  <2>2. nextId' = nextId
    BY <1>9 DEF RejectUnprepared, SkipExecuted
  <2> HIDE DEF Next1
  <2> QED
    BY <1>3, <2>1, <2>2 DEF QuestionStep
<1>10. CASE AskConfirmation(h)
  <2> DEFINE q == [id |-> nextId, kind |-> "confirm", hash |-> HashNow(h)]
  <2>1. task' = [st EXCEPT !.status = "waiting_user", !.pending_decision = d, !.pending_interaction = q]
    BY <1>10 DEF AskConfirmation, Save
  <2>2. task'.pending_interaction = q
    BY <1>1, <2>1 DEF TaskRow
  <2>3. nextId' = nextId + 1
    BY <1>10 DEF AskConfirmation
  <2> QED
    BY <2>2, <2>3 DEF QuestionStep, InteractionKind
<1>11. CASE Proceed(h)
  BY <1>11 DEF Proceed, QuestionStep
<1> QED
  BY <1>6, <1>7, <1>8, <1>9, <1>10, <1>11 DEF Gate

LEMMA EndAsks ==
    ASSUME TaskInv, NEW h \in Handlers, Commit(h) \/ Resume(h)
    PROVE  QuestionStep
<1> DEFINE st == call[h].st
<1>1. st \in TaskRow /\ nextId' = nextId
  BY DEF TaskInv, IndInv, TypeOK, Call, Commit, Resume, ResumeCancel, ResumeApprove, ResumeReply
<1>2. CASE Commit(h)
  <2>1. st.pending_interaction = NoInteraction
    BY <1>2, RowAtWork DEF Commit, At, Working, TaskInv
  <2>2. Consumed(call[h]) \in TaskRow /\ Consumed(call[h]).pending_interaction = st.pending_interaction
    BY <1>1, <1>2, ConsumedRow DEF Commit, TaskInv, Consumed, TaskRow
  <2>3. task' = Apply(Consumed(call[h]), call[h].decision, call[h].observation)
    BY <1>2 DEF Commit, Save
  <2> QED
    BY <1>1, <2>1, <2>2, <2>3, ApplyKeepsQuestion DEF QuestionStep
<1>3. CASE Resume(h)
  <2>1. task'.pending_interaction = NoInteraction
    BY <1>1, <1>3 DEF Resume, ResumeCancel, ResumeApprove, ResumeReply, Save, SaveAndEnter, TaskRow
  <2> QED
    BY <1>1, <2>1 DEF QuestionStep
<1> QED
  BY <1>2, <1>3

LEMMA NextAsks == TaskInv /\ [Next]_vars => QuestionStep
<1> SUFFICES ASSUME TaskInv, [Next]_vars PROVE QuestionStep
  OBVIOUS
<1>1. ASSUME NEW h \in Handlers, Invoke(h) \/ ResumeRead(h) \/ Advance(h) PROVE QuestionStep
  BY <1>1, LoopAsks, GateAsks, EndAsks DEF Advance
<1>2. CASE Restart
  BY <1>2 DEF Restart, NewTask, QuestionStep
<1>3. CASE UNCHANGED vars
  BY <1>3 DEF vars, QuestionStep
<1> QED
  BY <1>1, <1>2, <1>3 DEF Next

LEMMA NextNumbered == TaskInv /\ Numbered /\ [Next]_vars => Numbered'
<1>1. TaskInv => nextId \in Nat
  BY DEF TaskInv, IndInv, TypeOK
<1> QED
  BY <1>1, NextAsks DEF Numbered, QuestionStep

\* Only Finish completes a row, only Decide brings a handler to the gate, and a draft stays.
LEMMA NextCompletes ==
    ASSUME IndInv, [Next]_vars
    PROVE  /\ operation' = operation /\ (draft => draft')
           /\ task'.status = "completed" => task' = task \/ \E h \in Handlers : Finish(h)
           /\ \A k \in Handlers :
                At(k, "gate")' => \/ At(k, "gate") /\ call'[k].decision = call[k].decision
                                 \/ call'[k].decision \in NextDecisions(call[k].st)
<1> DEFINE Kept == operation' = operation /\ (draft => draft')
           Completes == task'.status = "completed" => task' = task \/ \E h \in Handlers : Finish(h)
           Decides(k) == At(k, "gate")' => \/ At(k, "gate") /\ call'[k].decision = call[k].decision
                                          \/ call'[k].decision \in NextDecisions(call[k].st)
<1>1. Idle.pc = "idle"
  BY DEF Idle
<1>2. call \in [Handlers -> Call]
  BY DEF IndInv, TypeOK
<1>3. ASSUME NEW h \in Handlers, NEW c, call' = [call EXCEPT ![h] = c], c.pc # "gate"
      PROVE  \A k \in Handlers : Decides(k)
  BY <1>2, <1>3 DEF At
<1>4. ASSUME NEW h \in Handlers, NEW row, Save(h, row)
      PROVE  \A k \in Handlers : Decides(k)
  <2> DEFINE c == [Idle EXCEPT !.pc = "loop", !.st = row]
  <2>1. c.pc = "loop"
    BY DEF Idle
  <2>2. call' = [call EXCEPT ![h] = c] \/ call' = [call EXCEPT ![h] = Idle]
    BY <1>4 DEF Save
  <2> HIDE DEF c, Decides
  <2> QED
    BY <1>1, <1>3, <2>1, <2>2
<1>5. ASSUME NEW h \in Handlers, Invoke(h) \/ ResumeRead(h) \/ Advance(h)
      PROVE  Kept /\ Completes /\ \A k \in Handlers : Decides(k)
  <2> DEFINE st == call[h].st
  <2>1. st \in TaskRow /\ call[h] \in Call
    BY DEF IndInv, TypeOK, Call
  <2>2. CASE Invoke(h)
    <3>1. Save(h, NewTask) /\ Kept
      BY <2>2 DEF Invoke, artifacts
    <3>2. Completes
      BY <3>1 DEF Save, NewTask
    <3> HIDE DEF Decides
    <3> QED
      BY <1>4, <3>1, <3>2
  <2>3. CASE StopAtMaxSteps(h) \/ PlannerFails(h) \/ StopRepeating(h)
    <3> DEFINE row == [st EXCEPT !.status = "failed"]
    <3>1. Save(h, row) /\ Kept
      BY <2>3 DEF StopAtMaxSteps, PlannerFails, StopRepeating, artifacts
    <3>2. row.status = "failed"
      BY <2>1 DEF TaskRow
    <3> HIDE DEF row
    <3>3. Completes
      BY <3>1, <3>2 DEF Save
    <3> HIDE DEF Decides
    <3> QED
      BY <1>4, <3>1, <3>3
  <2>4. CASE Decide(h)
    <3>1. PICK d \in NextDecisions(st) :
            call' = [call EXCEPT ![h] = [call[h] EXCEPT !.pc = "gate", !.decision = d]]
      BY <2>4, <1>2 DEF Decide
    <3>2. Kept /\ task' = task
      BY <2>4 DEF Decide, artifacts
    <3>3. \A k \in Handlers : call'[k] = call[k] \/ (k = h /\ call'[k].decision = d)
      BY <1>2, <2>1, <3>1 DEF Call
    <3>4. \A k \in Handlers : Decides(k)
      BY <3>1, <3>3 DEF At
    <3> QED
      BY <3>2, <3>4
  <2>5. CASE AskUser(h)
    <3> DEFINE q == [id |-> nextId, kind |-> "clarify", hash |-> NoHash]
               next == Apply(st, call[h].decision, Observed("needs_input"))
               row == [next EXCEPT !.status = "waiting_user", !.pending_interaction = q]
    <3>1. Save(h, row) /\ Kept
      BY <2>5 DEF AskUser, artifacts
    <3>2. "status" \in DOMAIN next
      BY <2>1 DEF Apply, TaskRow
    <3> HIDE DEF next
    <3>3. row.status = "waiting_user"
      BY <3>2
    <3> HIDE DEF row
    <3>4. Completes
      BY <3>1, <3>3 DEF Save
    <3> HIDE DEF Decides
    <3> QED
      BY <1>4, <3>1, <3>4
  <2>6. CASE Finish(h)
    <3>1. Kept /\ Completes /\ \E row : Save(h, row)
      BY <2>6 DEF Finish, artifacts
    <3> HIDE DEF Decides
    <3> QED
      BY <1>4, <3>1
  <2>7. CASE RejectUnprepared(h) \/ SkipExecuted(h)
    <3>1. PICK s : Save(h, Apply(st, call[h].decision, Observed(s)))
      BY <2>7 DEF RejectUnprepared, SkipExecuted
    <3>2. Kept
      BY <2>7 DEF RejectUnprepared, SkipExecuted, artifacts
    <3>3. Completes
      BY <2>1, <3>1, ApplyKeepsQuestion DEF Save
    <3> HIDE DEF Decides
    <3> QED
      BY <1>4, <3>1, <3>2, <3>3
  <2>8. CASE AskConfirmation(h)
    <3> DEFINE row == [st EXCEPT !.status = "waiting_user", !.pending_decision = call[h].decision,
                                 !.pending_interaction =
                                   [id |-> nextId, kind |-> "confirm", hash |-> HashNow(h)]]
    <3>1. Save(h, row) /\ Kept
      BY <2>8 DEF AskConfirmation, artifacts
    <3>2. row.status = "waiting_user"
      BY <2>1 DEF TaskRow
    <3> HIDE DEF row
    <3>3. Completes
      BY <3>1, <3>2 DEF Save
    <3> HIDE DEF Decides
    <3> QED
      BY <1>4, <3>1, <3>3
  <2>9. CASE Proceed(h)
    <3> DEFINE c == [call[h] EXCEPT !.pc = "dispatch",
                                    !.hash = IF IsWrite(h) THEN HashNow(h) ELSE NoHash]
    <3>1. c.pc = "dispatch"
      BY <2>1 DEF Call
    <3>2. call' = [call EXCEPT ![h] = c] /\ Kept /\ Completes
      BY <2>9, <1>2 DEF Proceed, artifacts
    <3> HIDE DEF c, Decides
    <3> QED
      BY <1>3, <3>1, <3>2
  <2>10. CASE Dispatch(h)
    <3>1. UNCHANGED << operation, task, draft >>
      BY <2>10 DEF Dispatch, DispatchRaises, GenerateDraft, ReadTable, PrepareOperation,
                   MatchRecord, ExecuteWrite, artifacts
    <3>2. PICK ob : Yields(h, ob)
      BY <2>10 DEF Dispatch, DispatchRaises, GenerateDraft, ReadTable, PrepareOperation,
                   MatchRecord, ExecuteWrite
    <3> DEFINE c == [call[h] EXCEPT !.pc = "persist", !.observation = ob]
    <3>3. c.pc = "persist"
      BY <2>1 DEF Call
    <3>4. call' = [call EXCEPT ![h] = c]
      BY <3>2, <1>2 DEF Yields
    <3> HIDE DEF c, Decides
    <3> QED
      BY <1>3, <3>1, <3>3, <3>4
  <2>11. CASE Persist(h)
    <3> DEFINE c == [call[h] EXCEPT !.pc = "commit"]
    <3>1. c.pc = "commit"
      BY <2>1 DEF Call
    <3>2. call' = [call EXCEPT ![h] = c] /\ Kept /\ task' = task
      BY <2>11, <1>2 DEF Persist
    <3> HIDE DEF c, Decides
    <3> QED
      BY <1>3, <3>1, <3>2
  <2>12. CASE Commit(h)
    <3> DEFINE row == Apply(Consumed(call[h]), call[h].decision, call[h].observation)
    <3>1. Save(h, row) /\ Kept
      BY <2>12 DEF Commit, artifacts
    <3>2. row.status # "completed"
      BY <2>12, ConsumedRow, ApplyKeepsQuestion DEF Commit
    <3> HIDE DEF row
    <3>3. Completes
      BY <3>1, <3>2 DEF Save
    <3> HIDE DEF Decides
    <3> QED
      BY <1>4, <3>1, <3>3
  <2>13. CASE ResumeRead(h) \/ EnterLoop(h)
    <3>1. Kept /\ task' = task
      BY <2>13 DEF ResumeRead, EnterLoop, artifacts
    <3>2. \E c : c.pc # "gate" /\ call' = [call EXCEPT ![h] = c]
      BY <2>13 DEF ResumeRead, EnterLoop, Idle
    <3> HIDE DEF Decides
    <3> QED
      BY <1>3, <3>1, <3>2
  <2>14. CASE ResumeCancel(h)
    <3> DEFINE row == [st EXCEPT !.status = "cancelled", !.pending_interaction = NoInteraction,
                                 !.pending_decision = NoDecision]
    <3>1. Save(h, row) /\ Kept
      BY <2>14 DEF ResumeCancel, artifacts
    <3>2. row.status = "cancelled"
      BY <2>1 DEF TaskRow
    <3> HIDE DEF row
    <3>3. Completes
      BY <3>1, <3>2 DEF Save
    <3> HIDE DEF Decides
    <3> QED
      BY <1>4, <3>1, <3>3
  <2>15. CASE ResumeApprove(h) \/ ResumeReply(h)
    <3> DEFINE entering == [Idle EXCEPT !.pc = "enter"]
    <3>1. Kept
      BY <2>15 DEF ResumeApprove, ResumeReply, artifacts
    <3>2. task'.status = "running" /\ call' = [call EXCEPT ![h] = entering]
      BY <2>1, <2>15 DEF ResumeApprove, ResumeReply, SaveAndEnter, TaskRow
    <3>3. entering.pc = "enter"
      BY DEF Idle
    <3> HIDE DEF entering, Decides
    <3> QED
      BY <1>3, <3>1, <3>2, <3>3
  <2> HIDE DEF Kept, Completes, Decides
  <2> QED
    BY <1>5, <2>2, <2>3, <2>4, <2>5, <2>6, <2>7, <2>8, <2>9, <2>10, <2>11, <2>12, <2>13,
       <2>14, <2>15 DEF Advance, Gate, Resume
<1>6. CASE Restart
  BY <1>1, <1>6 DEF Restart, NewTask, artifacts, At
<1>7. CASE UNCHANGED vars
  BY <1>7 DEF vars, artifacts, At
<1> HIDE DEF Kept, Completes, Decides
<1>8. Kept /\ Completes /\ \A k \in Handlers : Decides(k)
  <2>1. Restart => Kept /\ Completes /\ \A k \in Handlers : Decides(k)
    BY <1>6 DEF Kept, Completes, Decides
  <2>2. UNCHANGED vars => Kept /\ Completes /\ \A k \in Handlers : Decides(k)
    BY <1>7 DEF Kept, Completes, Decides
  <2> QED
    BY <1>5, <2>1, <2>2 DEF Next
<1> QED
  BY <1>8 DEF Kept, Completes, Decides

LEMMA NextDrafted == IndInv /\ DraftInv /\ Drafted /\ [Next]_vars => Drafted'
<1> SUFFICES ASSUME IndInv, DraftInv, Drafted, [Next]_vars, operation = "draft_generate"
             PROVE  Drafted'
  BY NextCompletes DEF Drafted
<1>1. draft => draft'
  BY NextCompletes
<1>2. task'.status = "completed" => draft
  <2>1. ASSUME NEW h \in Handlers, Finish(h) PROVE draft
    BY <2>1 DEF Finish, Drafted
  <2> QED
    BY <2>1, NextCompletes DEF Drafted
<1>3. ASSUME NEW k \in Handlers, At(k, "gate")', call'[k].decision.name = "finish"
      PROVE  draft
  <2>1. call[k].st.pending_decision = NoDecision
    BY DEF DraftInv
  <2>2. call'[k].decision \in NextDecisions(call[k].st) => draft
    BY <1>3, <2>1 DEF NextDecisions, RequiredDecision
  <2> QED
    BY <1>3, <2>2, NextCompletes DEF Drafted
<1> QED
  BY <1>1, <1>2, <1>3 DEF Drafted, At

-----------------------------------------------------------------------------
(* Steps of the viewer.                                                    *)

\* A step of the task leaves a snapshot as true of the new row as it was of the old.
LEMMA TaskStepView ==
    ASSUME TaskInv, DraftInv, ViewInv, [Next]_vars, UNCHANGED viewer
    PROVE  ViewInv'
<1> DEFINE s == viewer.shown
<1>1. Numbered' /\ Drafted' /\ Viewing'
  BY NextNumbered, NextDrafted DEF TaskInv, ViewInv, Viewing
<1>2. operation' = operation /\ (draft => draft') /\ QuestionStep /\ nextId \in Nat
  BY NextCompletes, NextAsks DEF TaskInv, IndInv, TypeOK
<1>3. NoInteraction.id = 0 /\ NoConfirmation.kind # "confirm"
  BY DEF NoInteraction, NoConfirmation
<1>4. Honest(s) => Honest(s)'
  BY <1>2, <1>3 DEF Honest, QuestionStep, Accepted
<1>5. Honest(s) /\ Complete(s) => Complete(s)'
  <2>1. Honest(s) /\ s.confirmation.kind = "confirm" => s.confirmation.id \in 1..(nextId - 1)
    BY <1>3 DEF Honest
  <2> QED
    BY <1>2, <1>3, <2>1 DEF Complete, QuestionStep
<1> QED
  BY <1>1, <1>4, <1>5 DEF ViewInv

LEMMA ReadRowView ==
    ASSUME TaskInv, ViewInv, ReadRow
    PROVE  ViewInv'
<1> DEFINE s == Snapshot(task, NoOutputs)
<1>1. s.status = LegacyStatus(task.status) /\ s.confirmation = Confirmation(task)
  BY DEF Snapshot
<1>2. /\ s.status \in WorkflowStatus
      /\ s.status = "success" <=> task.status = "completed"
      /\ s.status = "waiting_user" <=> task.status = "waiting_user"
  <2>1. task.status \in {"running", "waiting_user", "completed", "failed", "cancelled"}
    BY DEF ReadRow, TaskInv, IndInv, TypeOK, TaskRow, TerminalStatus
  <2> QED
    BY <1>1, <2>1 DEF LegacyStatus, WorkflowStatus
<1>3. operation = "draft_generate" /\ s.status = "success" => draft
  BY <1>2 DEF ViewInv, Drafted
<1>4. Honest(s)
  <2>1. CASE task.pending_interaction = NoInteraction
    <3>1. Confirmation(task) = NoConfirmation /\ task.status # "waiting_user"
      BY <2>1 DEF Confirmation, TaskInv, QuestionInv, WaitsWithQuestion
    <3> QED
      BY <1>1, <1>2, <1>3, <3>1 DEF Honest, Accepted
  <2>2. CASE task.pending_interaction # NoInteraction
    <3>1. /\ Confirmation(task).id = task.pending_interaction.id
          /\ Confirmation(task).kind = task.pending_interaction.kind
      BY <2>2 DEF Confirmation
    <3>2. /\ task.pending_interaction.id \in 1..(nextId - 1)
          /\ task.pending_interaction.kind \in InteractionKind
      BY <2>2 DEF ViewInv, Numbered
    <3>3. Confirmation(task) # NoConfirmation
      BY <3>1, <3>2 DEF NoConfirmation, InteractionKind
    <3> QED
      <4>1. /\ s.confirmation.id \in 1..(nextId - 1) /\ s.confirmation.kind \in InteractionKind
            /\ s.confirmation # NoConfirmation /\ s.confirmation.id # 0
        BY <1>1, <3>1, <3>2, <3>3
      <4> HIDE DEF s
      <4> QED
        BY <1>1, <1>2, <1>3, <3>1, <4>1 DEF Honest, Accepted
  <2> QED
    BY <2>1, <2>2
<1>5. viewer' = [pc |-> "row", shown |-> s]
  BY DEF ReadRow
<1>6. viewer'.pc = "row" /\ viewer'.shown = s
  BY <1>5
<1>7. Viewing'
  BY <1>5 DEF Viewing, Snapshot
<1>8. UNCHANGED << operation, task, draft, nextId, call >>
  BY DEF ReadRow, vars, artifacts
<1> HIDE DEF s
<1> QED
  BY <1>4, <1>6, <1>7, <1>8 DEF ViewInv, Numbered, Drafted, Honest, At

LEMMA ReadArtifactsView ==
    ASSUME TaskInv, ViewInv, ReadArtifacts
    PROVE  ViewInv'
<1> DEFINE s == viewer.shown
           t == viewer'.shown
<1>1. Honest(s) /\ Viewing
  BY DEF ViewInv, ReadArtifacts
<1>2. viewer' = [pc |-> "shown",
                  shown |-> [status |-> s.status, confirmation |-> s.confirmation,
                             outputs |-> Outputs]]
  <2>1. viewer' = [viewer EXCEPT !.pc = "shown", !.shown.outputs = Outputs]
    BY DEF ReadArtifacts
  <2> HIDE DEF s
  <2>2. viewer = [pc |-> viewer.pc, shown |-> [status |-> s.status, confirmation |-> s.confirmation,
                                               outputs |-> s.outputs]]
    BY <1>1 DEF Viewing, s
  <2>3. PICK p, st, co, ou : viewer = [pc |-> p, shown |-> [status |-> st, confirmation |-> co,
                                                            outputs |-> ou]]
    BY <2>2
  <2>4. viewer' = [pc |-> "shown", shown |-> [status |-> st, confirmation |-> co, outputs |-> Outputs]]
    BY <2>1, <2>3
  <2> QED
    BY <2>3, <2>4 DEF s
<1>3. t.status = s.status /\ t.confirmation = s.confirmation /\ t.outputs = Outputs
  BY <1>2
<1>4. UNCHANGED << operation, task, draft, nextId, call, prepared >>
  BY DEF ReadArtifacts, vars, artifacts
<1>5. Outputs.writePayload = prepared /\ Outputs.draft = draft
  BY DEF Outputs
<1>6. Honest(s)'
  BY <1>1, <1>3, <1>4 DEF Honest, Accepted
<1>7. ASSUME s.confirmation.kind = "confirm", s.confirmation.id = task.pending_interaction.id
      PROVE  prepared = task.pending_interaction.hash.prepared
  <2>1. task.pending_interaction.kind = "confirm"
    BY <1>1, <1>7 DEF Honest, NoConfirmation
  <2>2. task.pending_interaction.hash = ExecutionHash(task.pending_decision, prepared)
    BY <2>1 DEF TaskInv, RowInv, ConfirmationIsCurrent
  <2> QED
    BY <2>2 DEF ExecutionHash
<1>8. Complete(s)'
  BY <1>1, <1>3, <1>4, <1>5, <1>7 DEF Complete, Honest
<1>9. Viewing' /\ viewer'.pc = "shown"
  BY <1>2 DEF Viewing
<1> QED
  BY <1>4, <1>6, <1>8, <1>9 DEF ViewInv, Numbered, Drafted, At

LEMMA NextView == TaskInv /\ DraftInv /\ ViewInv /\ [ViewNext]_viewVars => ViewInv'
<1> SUFFICES ASSUME TaskInv, DraftInv, ViewInv, [ViewNext]_viewVars PROVE ViewInv'
  OBVIOUS
<1>1. CASE /\ \E h \in Handlers : Invoke(h) \/ ResumeRead(h) \/ Advance(h)
           /\ UNCHANGED viewer
  BY <1>1, TaskStepView DEF Next
<1>2. ASSUME viewer' = NoView, Numbered', Drafted' PROVE ViewInv'
  BY <1>2 DEF ViewInv, NoView, Viewing, Snapshot
<1>3. CASE Restart /\ viewer' = NoView
  BY <1>2, <1>3, NextNumbered, NextDrafted DEF Next, ViewInv, TaskInv
<1>4. CASE Leave
  <2>1. UNCHANGED << operation, task, draft, nextId, call >>
    BY <1>4 DEF Leave, vars, artifacts
  <2> QED
    BY <1>2, <1>4, <2>1 DEF Leave, ViewInv, Numbered, Drafted, At
<1>5. CASE UNCHANGED viewVars
  BY <1>5, TaskStepView DEF viewVars
<1> QED
  BY <1>1, <1>3, <1>4, <1>5, ReadRowView, ReadArtifactsView DEF ViewNext

-----------------------------------------------------------------------------
\* Reading a snapshot changes nothing: with the viewer, the task does what it does without.
THEOREM ViewKeepsTask == ViewSpec => Spec
<1>1. ViewInit => Init
  BY DEF ViewInit
<1>2. [ViewNext]_viewVars => [Next]_vars
  BY DEF ViewNext, viewVars, Next, ReadRow, ReadArtifacts, Leave
<1> QED
  BY <1>1, <1>2, PTL DEF ViewSpec, Spec

\* However the backend's reads of the row and of the artifacts fall between the steps of the
\* loop, the snapshot is one the contract accepts, its open confirmation shows the request an
\* approval releases, and a draft task shown as a success shows its draft.
THEOREM SnapshotsAreSound == OneAtATime => (ViewSpec => []SnapshotsCanBeActedOn)
<1>1. ViewInit => ViewInv
  <2>1. Init => /\ task.pending_interaction = NoInteraction /\ task.status = "absent"
                /\ nextId = 1 /\ \A h \in Handlers : call[h].pc = "idle"
    BY DEF Init, NewTask, Idle
  <2>2. viewer = NoView => Viewing /\ viewer.pc = "none"
    BY DEF Viewing, NoView, Snapshot
  <2> QED
    BY <2>1, <2>2 DEF ViewInit, ViewInv, Numbered, Drafted, At
<1>2. ViewInv => SnapshotsCanBeActedOn
  BY DEF ViewInv, Honest, Complete, SnapshotsCanBeActedOn
<1>3. ASSUME OneAtATime PROVE ViewSpec => []SnapshotsCanBeActedOn
  <2>1. Spec => []TaskInv
    BY <1>3, TaskInvariant
  <2>2. Spec => []DraftInv
    <3>1. Spec => []IndInv
      BY InitIndInv, NextIndInv, PTL DEF Spec
    <3> QED
      BY <3>1, InitDraft, NextDraft, PTL DEF Spec
  <2>3. ViewSpec => Spec
    BY ViewKeepsTask
  <2>4. ViewSpec => ViewInit /\ [][ViewNext]_viewVars
    BY DEF ViewSpec
  <2> QED
    BY <1>1, <1>2, <2>1, <2>2, <2>3, <2>4, NextView, PTL
<1> QED
  BY <1>3
===============================================================================
