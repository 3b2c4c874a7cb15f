---------------------------- MODULE RecordSession ----------------------------
(***************************************************************************)
(* One record session of the Spring Boot backend: RecordService, the rows  *)
(* BusinessRepository keeps for it, OpsService.retrySync, and the          *)
(* scheduled poller (RecordWorkflowProcessor) that carries the results of  *)
(* the asynchronous third workflows back into those rows.                  *)
(*                                                                         *)
(* The request handlers are @Transactional and lock what they change: a    *)
(* handler is one step, except cancel, whose status check takes no lock.   *)
(* The poller has no transaction: each of its SQL statements is a step.    *)
(*                                                                         *)
(* third is external: a workflow runs, may ask the user, and ends.  What   *)
(* an HTTP call did there is not undone when the local transaction is.     *)
(* Whether a question is a confirmation or a clarification is left open.   *)
(* Chat replies (ai messages) are left out: no handler reads them.         *)
(***************************************************************************)
EXTENDS Integers, Sequences, FiniteSets

CONSTANTS
    Messages,      \* client message ids of the user's texts
    Confirms,      \* client confirm ids of the user's confirmations
    Requests,      \* request ids of the back office's retries
    Faults,        \* kinds of fault that may happen in this instance
    PollLimit,     \* tasks one poll takes (10 in the code)
    MaxWorkflows,  \* bound: third workflows started for the session
    MaxQuestions,  \* bound: questions one workflow asks
    MaxFaults      \* bound: faults in one behaviour

ASSUME ConstantsAssumption ==
    /\ Faults \subseteq {"rollback", "network", "crash"}
    /\ PollLimit \in Nat \ {0}
    /\ MaxWorkflows \in Nat /\ MaxQuestions \in Nat /\ MaxFaults \in Nat

-----------------------------------------------------------------------------
(* Data.  Rows are numbered in the order of their inserts; 0 is NULL.      *)

Workflows == 1..MaxWorkflows
\* A confirmation id is the workflow and the number of its question; the number 0 stands
\* for the id resumeConfirm makes up from the workflow when the client sends none.
Questions == Workflows \X (0..MaxQuestions)
NoAction == <<0, 0>>
Actions == Messages \cup Confirms \cup Requests \cup Questions

Trigger == {"message", "confirm", "resume", "retry_sync"}
PendingStatus == {"submitted", "running"}
ClosedStatus == {"completed", "failed", "cancelled"}
TerminalStatus == {"success", "failed", "cancelled"}

Idle == [pc |-> "idle", queue |-> {}, task |-> 0, saw |-> "none", draft |-> 0]

VARIABLES
    session,    \* RECORD_SESSION: status and current_draft_id
    said,       \* client_message_id of the user's RECORD_MESSAGE rows
    drafts,     \* RECORD_DRAFT: status, by version
    tasks,      \* RECORD_WORKFLOW_TASK, by task_sequence
    record,     \* DAILY_RECORD: unique per session
    syncs,      \* FEISHU_SYNC, by insert
    display,    \* RECORD_DISPLAY.display_status
    third,      \* external: the workflows, by start
    cancelling, \* a cancel has passed its check
    poller,     \* where the poller is and what it has read
    faults      \* faults so far

vars == <<session, said, drafts, tasks, record, syncs, display, third, cancelling,
          poller, faults>>
rows == <<session, said, drafts, tasks, record, syncs, display>>
outcome == <<record, syncs, display>>

Init ==
    /\ session = [status |-> "absent", current |-> 0]
    /\ said = {}
    /\ drafts = << >>
    /\ tasks = << >>
    /\ record = [status |-> "none", draft |-> 0, action |-> NoAction, third |-> 0]
    /\ syncs = << >>
    /\ display = "none"
    /\ third = << >>
    /\ cancelling = FALSE
    /\ poller = Idle
    /\ faults = 0

Exists == session.status # "absent"
CanFault(kind) == kind \in Faults /\ faults < MaxFaults

-----------------------------------------------------------------------------
(* third, from its callers' side.                                          *)

Started == [status |-> "running", asks |-> 0, output |-> FALSE]
Invoked == Append(third, Started)
CanInvoke == Len(third) < MaxWorkflows
NewWorkflow == Len(third) + 1

\* The workflow reaches a question; output says whether its snapshot holds a create_record
\* payload, or at its end a draft, that becomes a local draft.
ThirdAsks(w) ==
    /\ third[w].status = "running"
    /\ third[w].asks < MaxQuestions
    /\ \E output \in BOOLEAN :
         third' = [third EXCEPT ![w] = [status |-> "waiting_user", asks |-> @.asks + 1,
                                        output |-> output]]
    /\ UNCHANGED <<rows, cancelling, poller, faults>>

ThirdEnds(w) ==
    /\ third[w].status = "running"
    /\ \E status \in {"success", "failed"}, output \in BOOLEAN :
         /\ output => status = "success"
         /\ third' = [third EXCEPT ![w].status = status, ![w].output = output]
    /\ UNCHANGED <<rows, cancelling, poller, faults>>

-----------------------------------------------------------------------------
(* Statements of BusinessRepository used by several handlers.              *)

\* createWorkflowTask: the row of the same trigger and action is returned as it is.
TaskExists(trigger, action) ==
    \E i \in DOMAIN tasks : tasks[i].trigger = trigger /\ tasks[i].action = action
WithTask(rowsSoFar, task) ==
    IF TaskExists(task.trigger, task.action) THEN rowsSoFar ELSE Append(rowsSoFar, task)
NewTask(trigger, action, w, draft) ==
    [trigger |-> trigger, action |-> action, third |-> w, conf |-> NoAction,
     draft |-> draft, sync |-> 0, status |-> "submitted"]

\* confirmDraft and reopenDraft: one draft gets the status, every other is replaced.
OnlyDraft(d, status) == [i \in DOMAIN drafts |-> IF i = d THEN status ELSE "replaced"]
ReplaceActive == [i \in DOMAIN drafts |-> IF drafts[i] = "active" THEN "replaced" ELSE drafts[i]]

Closed(i, status) == [tasks EXCEPT ![i].status = status]
\* Fault: every task that is neither done nor waiting is polled, failed ones too.
NotDone == {i \in DOMAIN tasks : tasks[i].status \notin {"completed", "cancelled", "waiting_user"}}
\* pendingWorkflowTasks
Pending == {i \in DOMAIN tasks : tasks[i].status \in PendingStatus}

-----------------------------------------------------------------------------
(* The user's requests.                                                    *)

\* Any session of the caller is accepted: no handler below reads its status.
CreateSession ==
    /\ ~Exists
    /\ session' = [session EXCEPT !.status = "editing"]
    /\ UNCHANGED <<said, drafts, tasks, outcome, third, cancelling, poller, faults>>

\* A message id that is already stored is answered from the store.
SendMessage(m) ==
    /\ Exists /\ CanInvoke
    /\ m \notin said
    /\ said' = said \cup {m}
    /\ third' = Invoked
    /\ tasks' = WithTask(tasks, NewTask("message", m, NewWorkflow, 0))
    /\ UNCHANGED <<session, drafts, outcome, cancelling, poller, faults>>

\* Any draft of the session may be named, replaced ones included.
Confirm(c, d) ==
    /\ Exists /\ CanInvoke
    /\ record.action # c
    /\ drafts' = OnlyDraft(d, "confirmed")
    /\ session' = [status |-> "confirming", current |-> d]
    /\ third' = Invoked
    /\ tasks' = WithTask(tasks, NewTask("confirm", c, NewWorkflow, d))
    /\ UNCHANGED <<said, outcome, cancelling, poller, faults>>

\* resumeConfirm up to the call of third: the latest task waits for the user, and so does
\* its workflow; the client sends back the task's action id, or none.
Answering(i, action) ==
    /\ tasks # << >> /\ i = Len(tasks)
    /\ tasks[i].status = "waiting_user"
    /\ third[tasks[i].third].status = "waiting_user"
    /\ action \in {tasks[i].action, <<tasks[i].third, 0>>}
    /\ record.action # action
Question(w) == <<w, third[w].asks>>
\* Fault: the answered task is left waiting.
LeftWaiting(i, status) == [tasks EXCEPT ![i].conf = Question(tasks[i].third)]
\* The source task as the new task's creation finds it.
Answered(i, status) ==
    [tasks EXCEPT ![i].status = status, ![i].conf = Question(tasks[i].third)]
AnswerTask(i, trigger, action, status) ==
    [NewTask(trigger, action, tasks[i].third, tasks[i].draft) EXCEPT
       !.conf = Question(tasks[i].third), !.status = status]

ResumeCancel(i, action) ==
    LET d == tasks[i].draft IN
    /\ Answering(i, action)
    /\ third' = [third EXCEPT ![tasks[i].third].status = "cancelled"]
    /\ tasks' = WithTask(Answered(i, "cancelled"), AnswerTask(i, "resume", action, "cancelled"))
    /\ drafts' = IF d = 0 THEN drafts ELSE OnlyDraft(d, "active")
    /\ session' = IF d = 0 THEN session ELSE [status |-> "previewing", current |-> d]
    /\ UNCHANGED <<said, outcome, cancelling, poller, faults>>

\* answer and modify: the new task is found by the question it answers.
ResumeReply(i, action) ==
    LET w == tasks[i].third IN
    /\ Answering(i, action)
    /\ third' = [third EXCEPT ![w].status = "running"]
    /\ tasks' = WithTask(Answered(i, "completed"), AnswerTask(i, "message", Question(w), "submitted"))
    /\ said' = said \cup {Question(w)}
    /\ UNCHANGED <<session, drafts, outcome, cancelling, poller, faults>>

ResumeApprove(i, action) ==
    /\ Answering(i, action)
    /\ third' = [third EXCEPT ![tasks[i].third].status = "running"]
    /\ tasks' = WithTask(Answered(i, "completed"), AnswerTask(i, "resume", action, "submitted"))
    /\ UNCHANGED <<session, said, drafts, outcome, cancelling, poller, faults>>

\* cancel: the check and the update are two statements of a REPEATABLE READ transaction,
\* and the read takes no lock.
CancelCheck ==
    /\ ~cancelling
    /\ session.status \in {"editing", "previewing"}
    /\ cancelling' = TRUE
    /\ UNCHANGED <<rows, third, poller, faults>>
CancelWrite ==
    /\ cancelling
    /\ cancelling' = FALSE
    /\ session' = [session EXCEPT !.status = "cancelled"]
    /\ UNCHANGED <<said, drafts, tasks, outcome, third, poller, faults>>

\* The transaction of a handler fails after third has accepted its call.
Rollback ==
    /\ CanFault("rollback")
    /\ \/ Exists /\ CanInvoke /\ third' = Invoked
       \/ \E i \in DOMAIN tasks, status \in {"running", "cancelled"} :
            /\ Answering(i, tasks[i].action)
            /\ third' = [third EXCEPT ![tasks[i].third].status = status]
    /\ faults' = faults + 1
    /\ UNCHANGED <<rows, cancelling, poller>>

\* Fault: the sync row is not inserted.
RetryWithoutSync(r) ==
    /\ record.status # "none" /\ CanInvoke
    /\ third' = Invoked
    /\ tasks' = WithTask(tasks, [NewTask("retry_sync", r, NewWorkflow, 0) EXCEPT
                                   !.sync = Len(syncs) + 1])
    /\ UNCHANGED <<session, said, drafts, outcome, cancelling, poller, faults>>
\* OpsService.retrySync.  The request id comes from the caller's header if it sent one.
RetrySync(r) ==
    /\ record.status # "none" /\ CanInvoke
    /\ third' = Invoked
    /\ syncs' = Append(syncs, [status |-> "syncing", third |-> NewWorkflow])
    /\ tasks' = WithTask(tasks, [NewTask("retry_sync", r, NewWorkflow, 0) EXCEPT
                                   !.sync = Len(syncs) + 1])
    /\ UNCHANGED <<session, said, drafts, record, display, cancelling, poller, faults>>

-----------------------------------------------------------------------------
(* The poller: processPendingWorkflowTasks, then processWorkflowTask for   *)
(* each task it selected.                                                  *)

\* Fault: off by one.
SelectedBelowLimit == {i \in Pending : Cardinality({j \in Pending : j <= i}) < PollLimit}
Selected == {i \in Pending : Cardinality({j \in Pending : j <= i}) <= PollLimit}
Scan ==
    /\ poller.pc = "idle"
    /\ Pending # {}
    /\ poller' = [Idle EXCEPT !.pc = "next", !.queue = Selected]
    /\ UNCHANGED <<rows, third, cancelling, faults>>

\* The poller is done with its task: the next one of the queue, or the next poll.
Rest(queue) == IF queue = {} THEN Idle ELSE [Idle EXCEPT !.pc = "next", !.queue = queue]
Settle(i, status) ==
    /\ tasks' = Closed(i, status)
    /\ poller' = Rest(poller.queue)
Goto(pc) == poller' = [poller EXCEPT !.pc = pc]

First(i) ==
    /\ poller.pc = "next"
    /\ i \in poller.queue /\ \A j \in poller.queue : i <= j
Left(i) == poller.queue \ {i}
SettleHead(i, status) ==
    /\ tasks' = Closed(i, status)
    /\ poller' = Rest(Left(i))
Work(i, pc) ==
    poller' = [poller EXCEPT !.pc = pc, !.queue = Left(i), !.task = i,
                             !.saw = third[tasks[i].third].status]

DropCancelled(i) ==
    /\ First(i)
    /\ session.status = "cancelled"
    /\ SettleHead(i, "cancelled")
    /\ UNCHANGED <<session, said, drafts, outcome, third, cancelling, faults>>

\* Any failing call of third ends the task: the catch of processWorkflowTask.
CallFails(i) ==
    /\ First(i)
    /\ session.status # "cancelled"
    /\ CanFault("network")
    /\ SettleHead(i, "failed")
    /\ faults' = faults + 1
    /\ UNCHANGED <<session, said, drafts, outcome, third, cancelling>>

Reading(i, statuses) ==
    /\ First(i)
    /\ session.status # "cancelled"
    /\ third[tasks[i].third].status \in statuses

StillRunning(i) ==
    /\ Reading(i, {"running"})
    /\ SettleHead(i, "running")
    /\ UNCHANGED <<session, said, drafts, outcome, third, cancelling, faults>>

\* applyWaitingUserTask
Asked(i) ==
    /\ Reading(i, {"waiting_user"})
    /\ IF tasks[i].trigger = "retry_sync"
       THEN /\ third' = [third EXCEPT ![tasks[i].third].status = "running"]
            /\ SettleHead(i, "running")
       ELSE /\ IF tasks[i].trigger = "message" /\ third[tasks[i].third].output
               THEN Work(i, "replace") ELSE Work(i, "mark")
            /\ UNCHANGED <<tasks, third>>
    /\ UNCHANGED <<session, said, drafts, outcome, cancelling, faults>>

\* Fault: a resumed confirmation is not taken for one.
RecordsFirstAnswer(t) == t.trigger = "confirm" /\ t.draft # 0
RecordsOutcome(t) == t.trigger \in {"confirm", "resume"} /\ t.draft # 0
\* applyTerminalTask and the first lines of its three cases.
Ended(i) ==
    LET t == tasks[i]  w == third[t.third] IN
    /\ Reading(i, TerminalStatus)
    /\ CASE t.trigger = "message" ->
              IF w.status # "success" THEN SettleHead(i, "failed")
              ELSE IF w.output THEN Work(i, "replace") /\ UNCHANGED tasks
              ELSE SettleHead(i, "completed")
         [] t.trigger = "retry_sync" -> Work(i, "update_sync") /\ UNCHANGED tasks
         [] OTHER -> IF RecordsOutcome(t) THEN Work(i, "lock") /\ UNCHANGED tasks
                     ELSE SettleHead(i, "completed")
    /\ UNCHANGED <<session, said, drafts, outcome, third, cancelling, faults>>

-----------------------------------------------------------------------------
(* A new draft: replaceActiveDrafts and insertDraft, three statements.     *)

ReplaceDrafts ==
    /\ poller.pc = "replace"
    /\ drafts' = ReplaceActive
    /\ Goto("insert")
    /\ UNCHANGED <<session, said, tasks, outcome, third, cancelling, faults>>
InsertDraft ==
    /\ poller.pc = "insert"
    /\ drafts' = Append(drafts, "active")
    /\ poller' = [poller EXCEPT !.pc = "preview", !.draft = Len(drafts) + 1]
    /\ UNCHANGED <<session, said, tasks, outcome, third, cancelling, faults>>
Preview ==
    /\ poller.pc = "preview"
    /\ session' = [status |-> "previewing", current |-> poller.draft]
    /\ Goto(IF poller.saw = "waiting_user" THEN "mark" ELSE "complete")
    /\ UNCHANGED <<said, drafts, tasks, outcome, third, cancelling, faults>>

\* markWorkflowTaskWaitingUser
Mark ==
    LET i == poller.task IN
    /\ poller.pc = "mark"
    /\ tasks' = [tasks EXCEPT ![i].status = "waiting_user",
                              ![i].conf = Question(tasks[i].third),
                              ![i].draft = IF poller.draft # 0 THEN poller.draft ELSE @]
    /\ poller' = Rest(poller.queue)
    /\ UNCHANGED <<session, said, drafts, outcome, third, cancelling, faults>>

Complete ==
    /\ poller.pc = "complete"
    /\ Settle(poller.task, "completed")
    /\ UNCHANGED <<session, said, drafts, outcome, third, cancelling, faults>>

-----------------------------------------------------------------------------
(* completeConfirm, one action per statement.                              *)

RecordStatus == IF poller.saw = "success" THEN "success" ELSE "sync_failed"
SyncStatus == IF poller.saw = "success" THEN "success" ELSE "failed"
Mine == tasks[poller.task]

LockDraft ==
    /\ poller.pc = "lock"
    /\ drafts' = OnlyDraft(Mine.draft, "confirmed")
    /\ Goto("confirming")
    /\ UNCHANGED <<session, said, tasks, outcome, third, cancelling, faults>>
\* Fault: confirmed at once.
MarkConfirmedEarly ==
    /\ poller.pc = "confirming"
    /\ session' = [status |-> "confirmed", current |-> Mine.draft]
    /\ Goto("record")
    /\ UNCHANGED <<said, drafts, tasks, outcome, third, cancelling, faults>>
MarkConfirming ==
    /\ poller.pc = "confirming"
    /\ session' = [status |-> "confirming", current |-> Mine.draft]
    /\ Goto("record")
    /\ UNCHANGED <<said, drafts, tasks, outcome, third, cancelling, faults>>

InsertRecord ==
    /\ poller.pc = "record"
    /\ record.status = "none"
    /\ record' = [status |-> RecordStatus, draft |-> Mine.draft, action |-> Mine.action,
                  third |-> Mine.third]
    /\ Goto("sync")
    /\ UNCHANGED <<session, said, drafts, tasks, syncs, display, third, cancelling, faults>>
\* uq_daily_record_session_once
DuplicateRecord ==
    /\ poller.pc = "record"
    /\ record.status # "none"
    /\ Settle(poller.task, "failed")
    /\ UNCHANGED <<session, said, drafts, outcome, third, cancelling, faults>>

\* Fault: the sync row does not look at how the workflow ended.
InsertSyncSucceeded ==
    /\ poller.pc = "sync"
    /\ syncs' = Append(syncs, [status |-> "success", third |-> Mine.third])
    /\ Goto("display")
    /\ UNCHANGED <<session, said, drafts, tasks, record, display, third, cancelling, faults>>
InsertSync ==
    /\ poller.pc = "sync"
    /\ syncs' = Append(syncs, [status |-> SyncStatus, third |-> Mine.third])
    /\ Goto("display")
    /\ UNCHANGED <<session, said, drafts, tasks, record, display, third, cancelling, faults>>
\* The snapshot for the sync row is read after the record has been inserted.
SnapshotFails ==
    /\ poller.pc = "sync"
    /\ CanFault("network")
    /\ Settle(poller.task, "failed")
    /\ faults' = faults + 1
    /\ UNCHANGED <<session, said, drafts, outcome, third, cancelling>>
InsertDisplay ==
    /\ poller.pc = "display"
    /\ display' = RecordStatus
    /\ Goto("confirmed")
    /\ UNCHANGED <<session, said, drafts, tasks, record, syncs, third, cancelling, faults>>
MarkConfirmed ==
    /\ poller.pc = "confirmed"
    /\ session' = [session EXCEPT !.status = "confirmed"]
    /\ Goto("complete")
    /\ UNCHANGED <<said, drafts, tasks, outcome, third, cancelling, faults>>

-----------------------------------------------------------------------------
(* applyTerminalRetrySyncTask                                              *)

UpdateSync ==
    /\ poller.pc = "update_sync"
    /\ syncs' = [syncs EXCEPT ![Mine.sync].status = SyncStatus]
    /\ Goto("update_record")
    /\ UNCHANGED <<session, said, drafts, tasks, record, display, third, cancelling, faults>>
\* Fault: a failed retry does not change the record.
UpdateRecordOnSuccess ==
    /\ poller.pc = "update_record"
    /\ record' = IF poller.saw = "success" THEN [record EXCEPT !.status = "success"] ELSE record
    /\ Goto("update_display")
    /\ UNCHANGED <<session, said, drafts, tasks, syncs, display, third, cancelling, faults>>
UpdateRecord ==
    /\ poller.pc = "update_record"
    /\ record' = [record EXCEPT !.status = RecordStatus]
    /\ Goto("update_display")
    /\ UNCHANGED <<session, said, drafts, tasks, syncs, display, third, cancelling, faults>>
UpdateDisplay ==
    /\ poller.pc = "update_display"
    /\ display' = IF display = "none" THEN "none" ELSE RecordStatus
    /\ Settle(poller.task, IF poller.saw = "success" THEN "completed" ELSE "failed")
    /\ UNCHANGED <<session, said, drafts, record, syncs, third, cancelling, faults>>

\* The backend restarts between two statements of the poller.
Crash ==
    /\ CanFault("crash")
    /\ poller # Idle
    /\ poller' = Idle
    /\ faults' = faults + 1
    /\ UNCHANGED <<rows, third, cancelling>>

-----------------------------------------------------------------------------
Resume == \E i \in DOMAIN tasks :
            \E action \in {tasks[i].action, <<tasks[i].third, 0>>} :
              \/ ResumeCancel(i, action) \/ ResumeReply(i, action) \/ ResumeApprove(i, action)
User ==
    \/ CreateSession
    \/ \E m \in Messages : SendMessage(m)
    \/ \E c \in Confirms, d \in DOMAIN drafts : Confirm(c, d)
    \/ Resume
    \/ CancelCheck \/ CancelWrite
    \/ \E r \in Requests : RetrySync(r)
Fetch(i) == \/ DropCancelled(i) \/ CallFails(i) \/ StillRunning(i) \/ Asked(i) \/ Ended(i)
Statement ==
    \/ ReplaceDrafts \/ InsertDraft \/ Preview \/ Mark \/ Complete
    \/ LockDraft \/ MarkConfirming \/ InsertRecord \/ DuplicateRecord
    \/ InsertSync \/ SnapshotFails \/ InsertDisplay \/ MarkConfirmed
    \/ UpdateSync \/ UpdateRecord \/ UpdateDisplay
Poll == Scan \/ (\E i \in poller.queue : Fetch(i)) \/ Statement
Third == \E w \in DOMAIN third : ThirdAsks(w) \/ ThirdEnds(w)

Next == User \/ Poll \/ Third \/ Rollback \/ Crash

Spec == Init /\ [][Next]_vars

\* The scheduler runs the poller every second, and third's own time limits make every
\* workflow ask or end.
FairSpec ==
    /\ Spec
    /\ WF_vars(Poll)
    /\ \A w \in Workflows : WF_vars(w \in DOMAIN third /\ (ThirdAsks(w) \/ ThirdEnds(w)))
-----------------------------------------------------------------------------
(* Properties.                                                             *)

TaskRow == [trigger : Trigger, action : Actions, third : Workflows,
            conf : Questions \cup {NoAction}, draft : Nat, sync : Nat,
            status : PendingStatus \cup ClosedStatus \cup {"waiting_user"}]
RecordRow == [status : {"none", "success", "sync_failed"}, draft : Nat,
              action : Actions \cup {NoAction}, third : 0..MaxWorkflows]
SyncRow == [status : {"syncing", "success", "failed"}, third : Workflows]
Workflow == [status : {"running", "waiting_user"} \cup TerminalStatus,
             asks : 0..MaxQuestions, output : BOOLEAN]
Places == {"idle", "next", "replace", "insert", "preview", "mark", "complete",
           "lock", "confirming", "record", "sync", "display", "confirmed",
           "update_sync", "update_record", "update_display"}
Poller == [pc : Places, queue : SUBSET Nat, task : Nat,
           saw : {"none", "waiting_user"} \cup TerminalStatus, draft : Nat]

TasksRefer ==
    \A i \in DOMAIN tasks : /\ tasks[i].third \in DOMAIN third
                            /\ tasks[i].draft \in 0..Len(drafts)
                            /\ tasks[i].sync \in 0..Len(syncs)
                            /\ tasks[i].trigger = "retry_sync" => tasks[i].sync # 0

\* Every row refers to rows that exist: a task to its draft, sync row and workflow, the
\* session and the record to their drafts, the poller to tasks.
TypeOK ==
    /\ session \in [status : {"absent", "editing", "previewing", "confirming", "confirmed",
                             "cancelled"},
                    current : 0..Len(drafts)]
    /\ said \subseteq Messages \cup Questions
    /\ drafts \in Seq({"active", "replaced", "confirmed"})
    /\ tasks \in Seq(TaskRow)
    /\ TasksRefer
    /\ record \in RecordRow /\ record.draft \in 0..Len(drafts)
    /\ syncs \in Seq(SyncRow)
    /\ display \in {"none", "success", "sync_failed"}
    /\ third \in Seq(Workflow) /\ Len(third) <= MaxWorkflows
    /\ cancelling \in BOOLEAN
    /\ poller \in Poller
    /\ poller.queue \subseteq DOMAIN tasks /\ poller.task \in 0..Len(tasks)
    /\ poller.draft \in 0..Len(drafts)
    /\ faults \in 0..MaxFaults

\* docs "a failed Feishu write must not lose the record; DAILY_RECORD, FEISHU_SYNC and the
\* display status are kept": a session is confirmed only when all three rows are there,
\* whatever crashed or failed on the way.
ConfirmedIsComplete ==
    session.status = "confirmed" => /\ record.status # "none"
                                    /\ syncs # << >>
                                    /\ display # "none"

\* Success is never made up: a record, its display or a sync row says success only if a
\* workflow that was to write this record did succeed.
SuccessIsReal ==
    /\ \A s \in DOMAIN syncs : syncs[s].status = "success" => third[syncs[s].third].status = "success"
    /\ record.status = "success" \/ display = "success" =>
         \/ third[record.third].status = "success"
         \/ \E s \in DOMAIN syncs : third[syncs[s].third].status = "success"

\* At most one open task follows a workflow: with two, the poller would apply the same
\* result twice, and the user would be asked the same question twice.
OneTrackerPerWorkflow ==
    \A i, j \in DOMAIN tasks :
        /\ tasks[i].third = tasks[j].third
        /\ tasks[i].status \notin ClosedStatus
        /\ tasks[j].status \notin ClosedStatus
        => i = j

\* docs "display_status keeps in step with DAILY_RECORD.status": while the poller is not in
\* the middle of a task, and without faults, the display shows the record's status.
DisplayFollowsRecord ==
    poller.pc \in {"idle", "next"} /\ faults = 0 => display = record.status

\* A task that was completed, failed or cancelled is not touched again: neither a late
\* poll nor an answer to an older question can reopen it.
ClosedTasksStayClosed ==
    [][\A i \in DOMAIN tasks : tasks[i].status \in ClosedStatus => tasks'[i] = tasks[i]]_vars

\* However small the poll, no submitted task waits for ever behind the others.
TasksResolve ==
    \A i \in 1..(MaxWorkflows * (MaxQuestions + 1)) :
        (i \in Pending) ~> (i \notin Pending)

\* When a followed workflow has written a draft to Feishu, the session gets a local record,
\* or the task's end says why not; across restarts of the backend.
SuccessIsRecorded ==
    \A i \in 1..(MaxWorkflows * (MaxQuestions + 1)) :
        (/\ i \in Pending
         /\ tasks[i].trigger \in {"confirm", "resume"} /\ tasks[i].draft # 0
         /\ third[tasks[i].third].status = "success")
        ~> (record.status # "none" \/ (i \in DOMAIN tasks /\ tasks[i].status = "cancelled"))

\* docs "every message, confirmation or resume that triggers third must save a
\* RECORD_WORKFLOW_TASK, which the front end polls": a workflow that went on after the
\* user's answers has a row for its start and one for each answer.
AnswersAreTracked ==
    \A i \in DOMAIN tasks :
        LET w == tasks[i].third IN
        third[w].status = "running" /\ tasks[i].trigger # "retry_sync" =>
            Cardinality({j \in DOMAIN tasks : tasks[j].third = w}) = 1 + third[w].asks

\* docs "a session that has entered confirming or confirmed may not be cancelled".
ConfirmingIsNotCancelled ==
    [][session.status \in {"confirming", "confirmed"} => session'.status # "cancelled"]_vars
=============================================================================
