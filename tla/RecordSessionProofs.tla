------------------------- MODULE RecordSessionProofs -------------------------
(***************************************************************************)
(* Theorems about RecordSession, for any number of messages, retries,      *)
(* workflows, questions and faults, and polls of any size: the safety      *)
(* properties the run record_session checks.                               *)
(*                                                                         *)
(* The poller has no transaction, so what it does next rests on what it    *)
(* read before.  The invariant says what of that users, third and a        *)
(* restart cannot take away.                                               *)
(***************************************************************************)
EXTENDS RecordSession, SequenceTheorems, TLAPS

RowOK ==
    /\ session \in [status : {"absent", "editing", "previewing", "confirming", "confirmed",
                             "cancelled"},
                    current : 0..Len(drafts)]
    /\ said \subseteq Messages \cup Questions
    /\ drafts \in Seq({"active", "replaced", "confirmed"})
    /\ cancelling \in BOOLEAN
    /\ faults \in 0..MaxFaults

ThirdOK == third \in Seq(Workflow) /\ Len(third) <= MaxWorkflows

\* A row refers to rows that exist; its sync row is about the workflow it follows.
RowFine(t, workflows, versions, inserts) ==
    /\ t \in TaskRow
    /\ t.third \in DOMAIN workflows
    /\ t.draft \in 0..Len(versions)
    /\ t.sync \in 0..Len(inserts)
    /\ t.trigger = "retry_sync" => t.sync # 0
    /\ t.sync # 0 => inserts[t.sync].third = t.third

TasksOK == /\ tasks \in Seq(TaskRow)
           /\ \A i \in DOMAIN tasks : RowFine(tasks[i], third, drafts, syncs)

Succeeded(w) == w \in DOMAIN third /\ third[w].status = "success"

SyncsOK ==
    /\ syncs \in Seq(SyncRow)
    /\ \A s \in DOMAIN syncs : /\ syncs[s].third \in DOMAIN third
                               /\ syncs[s].status = "success" => Succeeded(syncs[s].third)

\* Some workflow that was to write the record succeeded.
Justified == \/ Succeeded(record.third)
             \/ \E s \in DOMAIN syncs : Succeeded(syncs[s].third)

RecordOK ==
    /\ record \in RecordRow /\ record.draft \in 0..Len(drafts)
    /\ display \in {"none", "success", "sync_failed"}
    /\ display # "none" => record.status # "none"
    /\ record.status = "success" \/ display = "success" => Justified

Busy == poller.pc \in Places \ {"idle", "next"}

\* The tasks a poll has still before it are pending, and so is the one it is at: only the
\* poller closes a task that nobody was asked about.  What it saw of a success is still true.
PollerOK ==
    /\ poller \in Poller
    /\ poller.queue \subseteq Pending
    /\ poller.task \in 0..Len(tasks) /\ poller.draft \in 0..Len(drafts)
    /\ Busy => /\ poller.task \in Pending \ poller.queue
               /\ poller.saw = "success" => Succeeded(Mine.third)
    /\ poller.pc \in {"update_sync", "update_record", "update_display"} =>
         Mine.trigger = "retry_sync"

\* How far completeConfirm has come.
WrittenOK ==
    /\ poller.pc \in {"sync", "display", "confirmed"} => record.status # "none"
    /\ poller.pc \in {"sync", "display"} /\ poller.saw = "success" => Justified
    /\ poller.pc \in {"display", "confirmed"} => syncs # << >>
    /\ poller.pc = "confirmed" => display # "none"

IndInv == /\ RowOK /\ ThirdOK /\ TasksOK /\ SyncsOK /\ RecordOK /\ PollerOK /\ WrittenOK
          /\ ConfirmedIsComplete /\ OneTrackerPerWorkflow

StaysClosed == \A i \in DOMAIN tasks : tasks[i].status \in ClosedStatus => tasks'[i] = tasks[i]

-----------------------------------------------------------------------------
(* Rows are only added, and a success stays one.                           *)

ThirdGrows ==
    /\ ThirdOK'
    /\ DOMAIN third \subseteq DOMAIN third'
    /\ \A w \in DOMAIN third : third[w].status = "success" => third'[w].status = "success"
Grows ==
    /\ ThirdGrows
    /\ Len(drafts) \in Nat /\ Len(drafts') \in Nat /\ Len(drafts) <= Len(drafts')
    /\ Len(syncs) \in Nat /\ Len(syncs') \in Nat /\ Len(syncs) <= Len(syncs')
    /\ \A s \in DOMAIN syncs : s \in DOMAIN syncs' /\ syncs'[s].third = syncs[s].third

LEMMA GrowsAlike ==
    ASSUME RowOK, ThirdOK, SyncsOK, UNCHANGED << third, drafts, syncs >>
    PROVE  Grows
BY DEF RowOK, ThirdOK, SyncsOK, Grows, ThirdGrows

LEMMA RowStaysFine ==
    ASSUME Grows, SyncsOK, NEW t, RowFine(t, third, drafts, syncs)
    PROVE  RowFine(t, third', drafts', syncs')
BY DEF Grows, ThirdGrows, RowFine, SyncsOK

LEMMA SuccessStays ==
    ASSUME Grows
    PROVE  /\ \A w : Succeeded(w) => Succeeded(w)'
           /\ Justified /\ record'.third = record.third => Justified'
BY DEF Grows, ThirdGrows, Succeeded, Justified

LEMMA SyncsStay ==
    ASSUME Grows, SyncsOK, UNCHANGED syncs
    PROVE  SyncsOK'
BY SuccessStays DEF SyncsOK, Grows, ThirdGrows

LEMMA RecordStays ==
    ASSUME Grows, RecordOK, UNCHANGED << record, display >>
    PROVE  RecordOK'
BY SuccessStays DEF RecordOK, Grows, ThirdGrows, RecordRow

LEMMA TasksStay ==
    ASSUME Grows, SyncsOK, TasksOK, UNCHANGED tasks
    PROVE  TasksOK'
BY RowStaysFine DEF TasksOK

\* The poller goes on while others change the tables, if what is pending stays so.
PendingStays ==
    /\ Len(tasks) \in Nat /\ Len(tasks') \in Nat /\ Len(tasks) <= Len(tasks')
    /\ \A i \in Pending : /\ i \in Pending'
                           /\ tasks'[i].third = tasks[i].third
                           /\ tasks'[i].trigger = tasks[i].trigger

LEMMA PollerStays ==
    ASSUME Grows, PendingStays, PollerOK, WrittenOK,
           UNCHANGED << poller, record, syncs, display >>
    PROVE  PollerOK' /\ WrittenOK'
<1>1. PollerOK'
  BY SuccessStays DEF PollerOK, Grows, ThirdGrows, PendingStays, Busy, Mine, Poller, Places
<1>2. WrittenOK'
  BY SuccessStays DEF WrittenOK
<1> QED
  BY <1>1, <1>2

\* Two tables of tasks with the same rows.
LEMMA SameTasks ==
    ASSUME TasksOK, OneTrackerPerWorkflow, UNCHANGED tasks
    PROVE  PendingStays /\ OneTrackerPerWorkflow' /\ StaysClosed
BY DEF TasksOK, PendingStays, Pending, OneTrackerPerWorkflow, StaysClosed

-----------------------------------------------------------------------------
(* Tasks that are added, asked about, or settled.                          *)

\* createWorkflowTask adds the row, or finds an older one.
LEMMA Added ==
    ASSUME NEW s \in Seq(TaskRow), NEW t \in TaskRow
    PROVE  /\ WithTask(s, t) \in Seq(TaskRow)
           /\ Len(WithTask(s, t)) \in {Len(s), Len(s) + 1}
           /\ \A i \in 1..Len(s) : WithTask(s, t)[i] = s[i]
           /\ \A i \in DOMAIN WithTask(s, t) : i \notin 1..Len(s) => WithTask(s, t)[i] = t
BY DEF WithTask

LEMMA AddedFine ==
    ASSUME NEW s \in Seq(TaskRow), NEW t,
           \A i \in 1..Len(s) : RowFine(s[i], third', drafts', syncs'),
           RowFine(t, third', drafts', syncs'),
           tasks' = WithTask(s, t)
    PROVE  /\ TasksOK'
           /\ Len(tasks') \in {Len(s), Len(s) + 1}
           /\ \A i \in 1..Len(s) : tasks'[i] = s[i]
           /\ \A i \in DOMAIN tasks' : i \notin 1..Len(s) => tasks'[i] = t
<1>1. t \in TaskRow
  BY DEF RowFine
<1>2. /\ tasks' \in Seq(TaskRow)
      /\ Len(tasks') \in {Len(s), Len(s) + 1}
      /\ \A i \in 1..Len(s) : tasks'[i] = s[i]
      /\ \A i \in DOMAIN tasks' : i \notin 1..Len(s) => tasks'[i] = t
  BY <1>1, Added
<1>3. \A i \in DOMAIN tasks' : RowFine(tasks'[i], third', drafts', syncs')
  BY <1>2
<1> QED
  BY <1>2, <1>3 DEF TasksOK

\* A request that starts a workflow: nobody follows it yet.
LEMMA Starts ==
    ASSUME IndInv, Grows, NEW t, RowFine(t, third', drafts', syncs'), t.third \notin DOMAIN third,
           tasks' = WithTask(tasks, t)
    PROVE  TasksOK' /\ PendingStays /\ OneTrackerPerWorkflow' /\ StaysClosed
<1>1. /\ tasks \in Seq(TaskRow)
      /\ \A i \in 1..Len(tasks) : RowFine(tasks[i], third, drafts, syncs)
  BY DEF IndInv, TasksOK
<1>2. \A i \in 1..Len(tasks) : RowFine(tasks[i], third', drafts', syncs')
  BY <1>1, RowStaysFine DEF IndInv
<1>3. /\ TasksOK'
      /\ Len(tasks') \in {Len(tasks), Len(tasks) + 1}
      /\ \A i \in 1..Len(tasks) : tasks'[i] = tasks[i]
      /\ \A i \in DOMAIN tasks' : i \notin 1..Len(tasks) => tasks'[i] = t
  BY <1>1, <1>2, AddedFine
<1>4. PendingStays /\ StaysClosed
  BY <1>1, <1>3 DEF PendingStays, Pending, StaysClosed, TasksOK
<1>5. OneTrackerPerWorkflow'
  <2> SUFFICES ASSUME NEW i \in DOMAIN tasks', NEW j \in DOMAIN tasks',
                      tasks'[i].third = tasks'[j].third,
                      tasks'[i].status \notin ClosedStatus, tasks'[j].status \notin ClosedStatus
               PROVE  i = j
    BY DEF OneTrackerPerWorkflow
  <2>1. \A k \in 1..Len(tasks) : tasks[k].third # t.third
    BY <1>1 DEF RowFine
  <2>2. DOMAIN tasks = 1..Len(tasks) /\ DOMAIN tasks' = 1..Len(tasks') /\ Len(tasks) \in Nat
    BY <1>1, <1>3 DEF TasksOK
  <2>3. CASE i \in 1..Len(tasks) /\ j \in 1..Len(tasks)
    BY <2>2, <2>3, <1>3 DEF IndInv, OneTrackerPerWorkflow
  <2>4. CASE i \notin 1..Len(tasks) /\ j \notin 1..Len(tasks)
    <3>1. Len(tasks') = Len(tasks) \/ Len(tasks') = Len(tasks) + 1
      BY <1>3
    <3>2. i \in 1..Len(tasks') /\ j \in 1..Len(tasks') /\ Len(tasks) \in Nat
      BY <2>2
    <3>3. \A k \in 1..Len(tasks') : k \notin 1..Len(tasks) => k = Len(tasks) + 1
      BY <3>1, <3>2
    <3> QED
      BY <2>4, <3>2, <3>3
  <2> QED
    BY <2>1, <2>2, <2>3, <2>4, <1>3
<1> QED
  BY <1>3, <1>4, <1>5

\* The user's answer closes the task that asked, and may add one that goes on from there.
LEMMA Answers ==
    ASSUME IndInv, Grows, NEW i, tasks # << >>, i = Len(tasks), tasks[i].status = "waiting_user",
           Question(tasks[i].third) \in Questions,
           NEW st \in ClosedStatus,
           NEW t, RowFine(t, third', drafts', syncs'), t.third = tasks[i].third,
           tasks' = WithTask(Answered(i, st), t)
    PROVE  TasksOK' /\ PendingStays /\ OneTrackerPerWorkflow' /\ StaysClosed
<1> DEFINE row == [tasks[i] EXCEPT !.status = st, !.conf = Question(tasks[i].third)]
<1>1. /\ tasks \in Seq(TaskRow) /\ Len(tasks) \in Nat
      /\ DOMAIN tasks = 1..Len(tasks) /\ i \in 1..Len(tasks)
      /\ \A j \in 1..Len(tasks) : RowFine(tasks[j], third, drafts, syncs)
  BY DEF IndInv, TasksOK
<1>2. /\ row \in TaskRow /\ row.third = tasks[i].third /\ row.status = st
      /\ RowFine(row, third, drafts, syncs)
  <2>1. tasks[i] \in TaskRow
    BY <1>1
  <2>2. row \in TaskRow /\ row.third = tasks[i].third /\ row.status = st
        /\ row.draft = tasks[i].draft /\ row.sync = tasks[i].sync
        /\ row.trigger = tasks[i].trigger
    BY <2>1 DEF TaskRow, ClosedStatus
  <2> HIDE DEF row
  <2> QED
    BY <1>1, <2>2 DEF RowFine
<1>3. Answered(i, st) = [tasks EXCEPT ![i] = row]
  BY <1>1 DEF Answered
<1> HIDE DEF row
<1>4. /\ Answered(i, st) \in Seq(TaskRow) /\ Len(Answered(i, st)) = Len(tasks)
      /\ \A j \in 1..Len(tasks) : Answered(i, st)[j] = IF j = i THEN row ELSE tasks[j]
  BY <1>1, <1>2, <1>3, ExceptSeq
<1>5. \A j \in 1..Len(tasks) : RowFine(Answered(i, st)[j], third', drafts', syncs')
  BY <1>1, <1>2, <1>4, RowStaysFine DEF IndInv
<1>6. /\ TasksOK'
      /\ Len(tasks') \in {Len(tasks), Len(tasks) + 1}
      /\ \A j \in 1..Len(tasks) : tasks'[j] = IF j = i THEN row ELSE tasks[j]
      /\ \A j \in DOMAIN tasks' : j \notin 1..Len(tasks) => tasks'[j] = t
  BY <1>4, <1>5, AddedFine
<1>7. DOMAIN tasks' = 1..Len(tasks')
  BY <1>6 DEF TasksOK
<1>8. PendingStays
  <2>1. i \notin Pending /\ Pending \subseteq 1..Len(tasks)
    BY <1>1 DEF Pending, PendingStatus
  <2>2. \A j \in Pending : j \in 1..Len(tasks) /\ tasks'[j] = tasks[j]
    BY <1>6, <2>1
  <2>3. Len(tasks') \in Nat /\ Len(tasks) <= Len(tasks')
    BY <1>1, <1>6
  <2>4. \A j \in Pending : j \in Pending'
    BY <1>7, <2>2, <2>3, <1>1 DEF Pending
  <2> QED
    BY <1>1, <2>2, <2>3, <2>4 DEF PendingStays
<1>9. StaysClosed
  BY <1>1, <1>6 DEF StaysClosed, ClosedStatus
<1>10. OneTrackerPerWorkflow'
  <2>1. ASSUME NEW j \in 1..Len(tasks), tasks'[j].status \notin ClosedStatus
        PROVE  tasks'[j] = tasks[j] /\ tasks[j].third # t.third
    <3>1. j # i /\ tasks'[j] = tasks[j]
      BY <1>2, <1>6, <2>1
    <3> QED
      BY <1>1, <2>1, <3>1 DEF IndInv, OneTrackerPerWorkflow, ClosedStatus
  <2> SUFFICES ASSUME NEW j \in DOMAIN tasks', NEW k \in DOMAIN tasks',
                      tasks'[j].third = tasks'[k].third,
                      tasks'[j].status \notin ClosedStatus, tasks'[k].status \notin ClosedStatus
               PROVE  j = k
    BY DEF OneTrackerPerWorkflow
  <2>2. CASE j \in 1..Len(tasks) /\ k \in 1..Len(tasks)
    BY <1>1, <2>1, <2>2 DEF IndInv, OneTrackerPerWorkflow
  <2>3. CASE j \notin 1..Len(tasks) /\ k \notin 1..Len(tasks)
    <3>1. Len(tasks') = Len(tasks) \/ Len(tasks') = Len(tasks) + 1
      BY <1>6
    <3>2. j \in 1..Len(tasks') /\ k \in 1..Len(tasks') /\ Len(tasks) \in Nat
      BY <1>1, <1>7
    <3>3. \A n \in 1..Len(tasks') : n \notin 1..Len(tasks) => n = Len(tasks) + 1
      BY <3>1, <3>2
    <3> QED
      BY <2>3, <3>2, <3>3
  <2>4. CASE (j \in 1..Len(tasks)) # (k \in 1..Len(tasks))
    BY <1>6, <2>1, <2>4
  <2> QED
    BY <2>2, <2>3, <2>4
<1> QED
  BY <1>6, <1>8, <1>9, <1>10

\* The poller leaves its task, or the first of its queue, with a new status.
LEMMA Settles ==
    ASSUME IndInv, Grows, NEW i \in Pending, NEW t,
           RowFine(t, third', drafts', syncs'), t.third = tasks[i].third,
           tasks' = [tasks EXCEPT ![i] = t],
           NEW q \in SUBSET (Pending \ {i}), poller' = Rest(q)
    PROVE  TasksOK' /\ OneTrackerPerWorkflow' /\ StaysClosed /\ PollerOK' /\ WrittenOK'
<1>1. /\ tasks \in Seq(TaskRow) /\ Len(tasks) \in Nat
      /\ DOMAIN tasks = 1..Len(tasks) /\ i \in 1..Len(tasks)
      /\ \A j \in 1..Len(tasks) : RowFine(tasks[j], third, drafts, syncs)
  BY DEF IndInv, TasksOK, Pending
<1>2. /\ tasks' \in Seq(TaskRow) /\ Len(tasks') = Len(tasks) /\ DOMAIN tasks' = 1..Len(tasks)
      /\ \A j \in 1..Len(tasks) : tasks'[j] = IF j = i THEN t ELSE tasks[j]
  <2>1. t \in TaskRow
    BY DEF RowFine
  <2> QED
    BY <1>1, <2>1, ExceptSeq
<1>3. TasksOK'
  BY <1>1, <1>2, RowStaysFine DEF TasksOK, IndInv
<1>4. StaysClosed
  BY <1>1, <1>2 DEF StaysClosed, Pending, PendingStatus, ClosedStatus
<1>5. OneTrackerPerWorkflow'
  <2>1. \A j \in 1..Len(tasks) : /\ tasks'[j].third = tasks[j].third
                                 /\ tasks'[j].status \notin ClosedStatus
                                      => tasks[j].status \notin ClosedStatus
    BY <1>1, <1>2 DEF Pending, PendingStatus, ClosedStatus
  <2> QED
    BY <1>1, <1>2, <2>1 DEF OneTrackerPerWorkflow, IndInv
<1>6. PollerOK' /\ WrittenOK'
  <2>1. q \subseteq Pending' /\ q \subseteq Nat
    BY <1>1, <1>2 DEF Pending
  <2>2. /\ poller' \in Poller /\ poller'.queue = q /\ poller'.pc \in {"idle", "next"}
        /\ poller'.task = 0 /\ poller'.draft = 0
    BY <2>1 DEF Rest, Idle, Poller, Places
  <2>3. Len(drafts') \in Nat
    BY DEF Grows, ThirdGrows
  <2> QED
    BY <1>1, <1>2, <2>1, <2>2, <2>3 DEF PollerOK, WrittenOK, Busy
<1> QED
  BY <1>3, <1>4, <1>5, <1>6

-----------------------------------------------------------------------------
(* What the requests do to third and to the drafts.                        *)

LEMMA NewThird ==
    ASSUME ThirdOK, CanInvoke, third' = Invoked
    PROVE  ThirdGrows /\ NewWorkflow \in (DOMAIN third' \cap Workflows) \ DOMAIN third
<1>1. Started \in Workflow
  BY ConstantsAssumption DEF Started, Workflow
<1>2. /\ third \in Seq(Workflow) /\ Len(third) \in Nat /\ Len(third) < MaxWorkflows
      /\ DOMAIN third = 1..Len(third) /\ MaxWorkflows \in Nat
  BY ConstantsAssumption DEF ThirdOK, CanInvoke
<1>3. /\ third' \in Seq(Workflow) /\ Len(third') = Len(third) + 1
      /\ DOMAIN third' = 1..(Len(third) + 1)
      /\ \A w \in 1..Len(third) : third'[w] = third[w]
  BY <1>1, <1>2 DEF Invoked
<1> QED
  BY <1>2, <1>3 DEF ThirdGrows, ThirdOK, NewWorkflow, Workflows

\* third goes on with a workflow it waits for, or gives it up.
LEMMA ThirdMoves ==
    ASSUME ThirdOK, NEW w \in DOMAIN third, third[w].status # "success", NEW x \in Workflow,
           third' = [third EXCEPT ![w] = x]
    PROVE  ThirdGrows
<1>1. /\ third \in Seq(Workflow) /\ Len(third) \in Nat /\ w \in 1..Len(third)
      /\ DOMAIN third = 1..Len(third)
  BY DEF ThirdOK
<1>2. /\ third' \in Seq(Workflow) /\ Len(third') = Len(third)
      /\ \A v \in 1..Len(third) : third'[v] = IF v = w THEN x ELSE third[v]
  BY <1>1, ExceptSeq
<1> QED
  BY <1>1, <1>2 DEF ThirdGrows, ThirdOK

LEMMA SameLength ==
    ASSUME RowOK, NEW new, DOMAIN new = DOMAIN drafts,
           \A i \in DOMAIN drafts : new[i] \in {"active", "replaced", "confirmed"},
           new = [i \in DOMAIN drafts |-> new[i]]
    PROVE  /\ new \in Seq({"active", "replaced", "confirmed"}) /\ Len(new) = Len(drafts)
<1>1. drafts \in Seq({"active", "replaced", "confirmed"}) /\ DOMAIN drafts = 1..Len(drafts)
      /\ Len(drafts) \in Nat
  BY DEF RowOK
<1>2. new = [i \in 1..Len(drafts) |-> new[i]]
  BY <1>1
<1>3. new \in Seq({"active", "replaced", "confirmed"})
  BY <1>1, <1>2
<1> QED
  BY <1>1, <1>3

LEMMA DraftsMarked ==
    ASSUME RowOK
    PROVE  /\ \A d \in Nat, status \in {"active", "confirmed"} :
                /\ OnlyDraft(d, status) \in Seq({"active", "replaced", "confirmed"})
                /\ Len(OnlyDraft(d, status)) = Len(drafts)
           /\ ReplaceActive \in Seq({"active", "replaced", "confirmed"})
           /\ Len(ReplaceActive) = Len(drafts)
<1>1. \A i \in DOMAIN drafts : drafts[i] \in {"active", "replaced", "confirmed"}
  BY DEF RowOK
<1>2. /\ ReplaceActive \in Seq({"active", "replaced", "confirmed"})
      /\ Len(ReplaceActive) = Len(drafts)
  BY <1>1, SameLength DEF ReplaceActive
<1>3. ASSUME NEW d \in Nat, NEW status \in {"active", "confirmed"}
      PROVE  /\ OnlyDraft(d, status) \in Seq({"active", "replaced", "confirmed"})
             /\ Len(OnlyDraft(d, status)) = Len(drafts)
  BY SameLength DEF OnlyDraft
<1> QED
  BY <1>2, <1>3

\* What is left of the invariant when a step does not touch the poller and its rows.
LEMMA Untouched ==
    ASSUME IndInv, Grows, PendingStays, UNCHANGED << poller, record, syncs, display >>,
           session'.status = "confirmed" => session.status = "confirmed"
    PROVE  ThirdOK' /\ SyncsOK' /\ RecordOK' /\ PollerOK' /\ WrittenOK' /\ ConfirmedIsComplete'
<1>1. ThirdOK'
  BY DEF Grows, ThirdGrows
<1>2. SyncsOK'
  BY SyncsStay DEF IndInv
<1>3. RecordOK'
  BY RecordStays DEF IndInv
<1>4. PollerOK' /\ WrittenOK'
  BY PollerStays DEF IndInv
<1>5. ConfirmedIsComplete'
  BY DEF IndInv, ConfirmedIsComplete
<1> QED
  BY <1>1, <1>2, <1>3, <1>4, <1>5

-----------------------------------------------------------------------------
(* The requests.                                                           *)

\* The invariant holds after a step, and no closed task was touched by it.
Preserved == IndInv' /\ StaysClosed

\* A step that changes the session row or the cancel only.
LEMMA RowOnly ==
    ASSUME IndInv, RowOK',
           UNCHANGED << drafts, tasks, record, syncs, display, third, poller >>,
           session'.status = "confirmed" => session.status = "confirmed"
    PROVE  Preserved
<1>1. Grows
  BY GrowsAlike DEF IndInv
<1>2. PendingStays /\ OneTrackerPerWorkflow' /\ StaysClosed
  BY SameTasks DEF IndInv
<1>3. TasksOK'
  BY <1>1, TasksStay DEF IndInv
<1> QED
  BY <1>1, <1>2, <1>3, Untouched DEF Preserved, IndInv

LEMMA CreateSessionStep == ASSUME IndInv, CreateSession PROVE Preserved
<1>1. RowOK' /\ session'.status = "editing"
  BY DEF CreateSession, IndInv, RowOK
<1> QED
  BY <1>1, RowOnly DEF CreateSession, outcome

LEMMA CancelCheckStep == ASSUME IndInv, CancelCheck PROVE Preserved
<1>1. RowOK' /\ session'.status = session.status
  BY DEF CancelCheck, IndInv, RowOK, rows
<1> QED
  BY <1>1, RowOnly DEF CancelCheck, rows

LEMMA CancelWriteStep == ASSUME IndInv, CancelWrite PROVE Preserved
<1>1. RowOK' /\ session'.status = "cancelled"
  BY DEF CancelWrite, IndInv, RowOK
<1> QED
  BY <1>1, RowOnly DEF CancelWrite, outcome

\* A new row of createWorkflowTask.
LEMMA NewTaskFine ==
    ASSUME NEW trigger \in Trigger \ {"retry_sync"}, NEW action \in Actions, NEW w \in Workflows,
           w \in DOMAIN third', NEW d \in 0..Len(drafts'), Len(drafts') \in Nat, Len(syncs') \in Nat
    PROVE  /\ RowFine(NewTask(trigger, action, w, d), third', drafts', syncs')
           /\ NewTask(trigger, action, w, d).third = w
BY DEF RowFine, NewTask, TaskRow, PendingStatus

LEMMA SendMessageStep ==
    ASSUME IndInv, NEW m \in Messages, SendMessage(m)
    PROVE  Preserved
<1> DEFINE t == NewTask("message", m, NewWorkflow, 0)
<1>1. /\ CanInvoke /\ third' = Invoked /\ tasks' = WithTask(tasks, t)
      /\ said' = said \cup {m}
      /\ UNCHANGED << session, drafts, record, syncs, display, cancelling, poller, faults >>
  BY DEF SendMessage, outcome
<1>2. ThirdGrows /\ NewWorkflow \in (DOMAIN third' \cap Workflows) \ DOMAIN third
  BY <1>1, NewThird DEF IndInv
<1>3. Grows
  BY <1>1, <1>2 DEF IndInv, RowOK, SyncsOK, Grows
<1>4. RowFine(t, third', drafts', syncs') /\ t.third = NewWorkflow
  BY <1>2, <1>3, NewTaskFine DEF Trigger, Actions, Grows
<1>5. TasksOK' /\ PendingStays /\ OneTrackerPerWorkflow' /\ StaysClosed
  BY <1>1, <1>2, <1>3, <1>4, Starts
<1>6. RowOK'
  BY <1>1 DEF IndInv, RowOK
<1> QED
  BY <1>1, <1>3, <1>5, <1>6, Untouched DEF Preserved, IndInv

LEMMA ConfirmStep ==
    ASSUME IndInv, NEW c \in Confirms, NEW d \in DOMAIN drafts, Confirm(c, d)
    PROVE  Preserved
<1> DEFINE t == NewTask("confirm", c, NewWorkflow, d)
<1>1. /\ CanInvoke /\ third' = Invoked /\ tasks' = WithTask(tasks, t)
      /\ drafts' = OnlyDraft(d, "confirmed")
      /\ session' = [status |-> "confirming", current |-> d]
      /\ UNCHANGED << said, record, syncs, display, cancelling, poller, faults >>
  BY DEF Confirm, outcome
<1>2. ThirdGrows /\ NewWorkflow \in (DOMAIN third' \cap Workflows) \ DOMAIN third
  BY <1>1, NewThird DEF IndInv
<1>3. drafts' \in Seq({"active", "replaced", "confirmed"}) /\ Len(drafts') = Len(drafts)
  <2>1. RowOK /\ d \in Nat
    BY DEF IndInv, RowOK
  <2>2. /\ OnlyDraft(d, "confirmed") \in Seq({"active", "replaced", "confirmed"})
        /\ Len(OnlyDraft(d, "confirmed")) = Len(drafts)
    BY <2>1, DraftsMarked
  <2> QED
    BY <1>1, <2>2
<1>4. d \in 0..Len(drafts') /\ Len(drafts') \in Nat /\ Len(drafts) \in Nat
  BY <1>3 DEF IndInv, RowOK
<1>5. Grows
  BY <1>1, <1>2, <1>3, <1>4 DEF IndInv, SyncsOK, Grows
<1>6. RowFine(t, third', drafts', syncs') /\ t.third = NewWorkflow
  BY <1>2, <1>4, <1>5, NewTaskFine DEF Trigger, Actions, Grows
<1>7. TasksOK' /\ PendingStays /\ OneTrackerPerWorkflow' /\ StaysClosed
  BY <1>1, <1>2, <1>5, <1>6, Starts
<1>8. RowOK' /\ session'.status = "confirming"
  BY <1>1, <1>3, <1>4 DEF IndInv, RowOK
<1> QED
  BY <1>1, <1>5, <1>7, <1>8, Untouched DEF Preserved, IndInv

LEMMA RetrySyncStep ==
    ASSUME IndInv, NEW r \in Requests, RetrySync(r)
    PROVE  Preserved
<1> DEFINE row == [status |-> "syncing", third |-> NewWorkflow]
           t == [NewTask("retry_sync", r, NewWorkflow, 0) EXCEPT !.sync = Len(syncs) + 1]
<1>1. /\ CanInvoke /\ third' = Invoked /\ tasks' = WithTask(tasks, t)
      /\ syncs' = Append(syncs, row) /\ record.status # "none"
      /\ UNCHANGED << session, said, drafts, record, display, cancelling, poller, faults >>
  BY DEF RetrySync
<1>2. ThirdGrows /\ NewWorkflow \in (DOMAIN third' \cap Workflows) \ DOMAIN third
  BY <1>1, NewThird DEF IndInv
<1>3. row \in SyncRow /\ row.status # "success" /\ row.third = NewWorkflow
  BY <1>2 DEF SyncRow
<1>4. /\ syncs \in Seq(SyncRow) /\ Len(syncs) \in Nat /\ DOMAIN syncs = 1..Len(syncs)
  BY DEF IndInv, SyncsOK
<1> HIDE DEF row
<1>5. /\ syncs' \in Seq(SyncRow) /\ Len(syncs') = Len(syncs) + 1
      /\ DOMAIN syncs' = 1..(Len(syncs) + 1)
      /\ \A s \in 1..Len(syncs) : syncs'[s] = syncs[s]
      /\ syncs'[Len(syncs) + 1] = row
  BY <1>1, <1>3, <1>4
<1>6. Grows
  BY <1>1, <1>2, <1>4, <1>5 DEF IndInv, RowOK, Grows
<1>7. RowFine(t, third', drafts', syncs') /\ t.third = NewWorkflow
  <2>1. /\ t \in TaskRow /\ t.third = NewWorkflow /\ t.draft = 0 /\ t.sync = Len(syncs) + 1
    BY <1>2, <1>4 DEF NewTask, TaskRow, Trigger, Actions, PendingStatus
  <2> QED
    BY <1>2, <1>3, <1>4, <1>5, <1>6, <2>1 DEF RowFine, Grows
<1>8. TasksOK' /\ PendingStays /\ OneTrackerPerWorkflow' /\ StaysClosed
  BY <1>1, <1>2, <1>6, <1>7, Starts
<1>9. RowOK'
  BY <1>1 DEF IndInv, RowOK
<1>10. SyncsOK'
  <2>1. \A s \in 1..Len(syncs) :
          /\ syncs[s].third \in DOMAIN third'
          /\ syncs[s].status = "success" => third'[syncs[s].third].status = "success"
    BY <1>2, <1>4 DEF IndInv, SyncsOK, ThirdGrows, Succeeded
  <2> QED
    BY <1>2, <1>3, <1>4, <1>5, <2>1 DEF SyncsOK, Succeeded
<1>11. Justified => Justified'
  BY <1>1, <1>6, SuccessStays
<1>12. RecordOK'
  BY <1>1, <1>11 DEF IndInv, RecordOK, RowOK
<1>13. PollerOK'
  BY <1>1, <1>6, <1>8, SuccessStays DEF IndInv, PollerOK, Grows, PendingStays, Busy, Mine, Poller,
     Places
<1>14. WrittenOK' /\ ConfirmedIsComplete'
  BY <1>1, <1>5, <1>4, <1>11 DEF IndInv, WrittenOK, ConfirmedIsComplete
<1> QED
  BY <1>2, <1>8, <1>9, <1>10, <1>12, <1>13, <1>14 DEF Preserved, IndInv, ThirdGrows

-----------------------------------------------------------------------------
(* The answers to a question.                                              *)

LEMMA WorkflowRow ==
    ASSUME ThirdOK, NEW w \in DOMAIN third
    PROVE  third[w] \in Workflow /\ third[w].asks \in 0..MaxQuestions
<1>1. third[w] \in Workflow
  BY DEF ThirdOK
<1> QED
  BY <1>1 DEF Workflow

LEMMA GoesOn ==
    ASSUME ThirdOK, NEW w \in DOMAIN third, third[w].status # "success",
           NEW st \in {"running", "waiting_user"} \cup TerminalStatus,
           third' = [third EXCEPT ![w].status = st]
    PROVE  ThirdGrows
<1> DEFINE x == [third[w] EXCEPT !.status = st]
<1>1. x \in Workflow
  BY WorkflowRow DEF Workflow, TerminalStatus
<1>2. third' = [third EXCEPT ![w] = x]
  OBVIOUS
<1> HIDE DEF x
<1> QED
  BY <1>1, <1>2, ThirdMoves

LEMMA AnswerIsFor ==
    ASSUME IndInv, NEW i \in DOMAIN tasks, NEW action \in {tasks[i].action, << tasks[i].third, 0 >>},
           Answering(i, action)
    PROVE  /\ tasks # << >> /\ i = Len(tasks) /\ tasks[i].status = "waiting_user"
           /\ tasks[i] \in TaskRow /\ tasks[i].draft \in 0..Len(drafts)
           /\ tasks[i].third \in DOMAIN third /\ third[tasks[i].third].status = "waiting_user"
           /\ Question(tasks[i].third) \in Questions /\ action \in Actions
<1>1. /\ tasks[i] \in TaskRow /\ tasks[i].third \in DOMAIN third
      /\ tasks[i].draft \in 0..Len(drafts)
  BY DEF IndInv, TasksOK, RowFine
<1>2. tasks[i].third \in Workflows /\ tasks[i].action \in Actions
  BY <1>1 DEF TaskRow
<1>3. third[tasks[i].third].asks \in 0..MaxQuestions /\ 0 \in 0..MaxQuestions
  BY <1>1, WorkflowRow, ConstantsAssumption DEF IndInv
<1> QED
  BY <1>1, <1>2, <1>3 DEF Answering, Question, Questions, Actions

LEMMA AnswerTaskFine ==
    ASSUME IndInv, Grows, NEW i \in DOMAIN tasks, tasks[i] \in TaskRow,
           tasks[i].third \in DOMAIN third, tasks[i].draft \in 0..Len(drafts),
           Question(tasks[i].third) \in Questions,
           NEW trigger \in Trigger \ {"retry_sync"}, NEW action \in Actions,
           NEW st \in {"submitted", "cancelled"}
    PROVE  /\ RowFine(AnswerTask(i, trigger, action, st), third', drafts', syncs')
           /\ AnswerTask(i, trigger, action, st).third = tasks[i].third
<1> DEFINE t == AnswerTask(i, trigger, action, st)
<1>1. /\ t \in TaskRow /\ t.third = tasks[i].third /\ t.draft = tasks[i].draft
      /\ t.sync = 0 /\ t.trigger = trigger
  BY DEF AnswerTask, NewTask, TaskRow, PendingStatus, ClosedStatus
<1> HIDE DEF t
<1> QED
  BY <1>1 DEF RowFine, Grows, ThirdGrows, t

\* The rest of a step that answers.
LEMMA AnswerStep ==
    ASSUME IndInv, NEW i \in DOMAIN tasks, NEW action \in {tasks[i].action, << tasks[i].third, 0 >>},
           Answering(i, action),
           NEW going \in {"running", "cancelled"}, NEW st \in ClosedStatus,
           NEW trigger \in Trigger \ {"retry_sync"}, NEW a \in Actions,
           NEW new \in {"submitted", "cancelled"},
           third' = [third EXCEPT ![tasks[i].third].status = going],
           tasks' = WithTask(Answered(i, st), AnswerTask(i, trigger, a, new)),
           RowOK', Len(drafts') = Len(drafts),
           UNCHANGED << record, syncs, display, poller >>,
           session'.status = "confirmed" => session.status = "confirmed"
    PROVE  Preserved
<1>1. /\ tasks # << >> /\ i = Len(tasks) /\ tasks[i].status = "waiting_user"
      /\ tasks[i] \in TaskRow /\ tasks[i].draft \in 0..Len(drafts)
      /\ tasks[i].third \in DOMAIN third /\ third[tasks[i].third].status = "waiting_user"
      /\ Question(tasks[i].third) \in Questions
  BY AnswerIsFor
<1>2. ThirdGrows
  BY <1>1, GoesOn DEF IndInv, TerminalStatus
<1>3. Grows
  BY <1>2 DEF IndInv, RowOK, SyncsOK, Grows
<1>4. /\ RowFine(AnswerTask(i, trigger, a, new), third', drafts', syncs')
      /\ AnswerTask(i, trigger, a, new).third = tasks[i].third
  BY <1>1, <1>3, AnswerTaskFine
<1>5. TasksOK' /\ PendingStays /\ OneTrackerPerWorkflow' /\ StaysClosed
  BY <1>1, <1>3, <1>4, Answers
<1> QED
  BY <1>3, <1>5, Untouched DEF Preserved, IndInv

LEMMA ResumeStep == ASSUME IndInv, Resume PROVE Preserved
<1> SUFFICES ASSUME NEW i \in DOMAIN tasks,
                    NEW action \in {tasks[i].action, << tasks[i].third, 0 >>},
                    ResumeCancel(i, action) \/ ResumeReply(i, action) \/ ResumeApprove(i, action)
             PROVE  Preserved
  BY DEF Resume
<1>1. Answering(i, action)
  BY DEF ResumeCancel, ResumeReply, ResumeApprove
<1>2. /\ tasks[i].draft \in 0..Len(drafts) /\ Question(tasks[i].third) \in Questions
      /\ Question(tasks[i].third) \in Actions /\ action \in Actions
  BY <1>1, AnswerIsFor DEF Actions
<1>3. "message" \in Trigger \ {"retry_sync"} /\ "resume" \in Trigger \ {"retry_sync"}
      /\ "completed" \in ClosedStatus /\ "cancelled" \in ClosedStatus
  BY DEF Trigger, ClosedStatus
<1>4. CASE ResumeCancel(i, action)
  <2> DEFINE d == tasks[i].draft
  <2>1. /\ third' = [third EXCEPT ![tasks[i].third].status = "cancelled"]
        /\ tasks' = WithTask(Answered(i, "cancelled"), AnswerTask(i, "resume", action, "cancelled"))
        /\ drafts' = IF d = 0 THEN drafts ELSE OnlyDraft(d, "active")
        /\ session' = IF d = 0 THEN session ELSE [status |-> "previewing", current |-> d]
        /\ UNCHANGED << said, record, syncs, display, cancelling, poller, faults >>
    BY <1>4 DEF ResumeCancel, outcome
  <2>2. RowOK /\ d \in Nat /\ Len(drafts) \in Nat
    BY <1>2 DEF IndInv, RowOK
  <2>3. /\ OnlyDraft(d, "active") \in Seq({"active", "replaced", "confirmed"})
        /\ Len(OnlyDraft(d, "active")) = Len(drafts)
    BY <2>2, DraftsMarked
  <2>4. Len(drafts') = Len(drafts) /\ drafts' \in Seq({"active", "replaced", "confirmed"})
    BY <2>1, <2>2, <2>3 DEF RowOK
  <2>5. RowOK' /\ (session'.status = "confirmed" => session.status = "confirmed")
    BY <1>2, <2>1, <2>2, <2>4 DEF RowOK
  <2> QED
    BY <1>1, <1>2, <1>3, <2>1, <2>4, <2>5, AnswerStep
<1>5. CASE ResumeReply(i, action)
  <2>1. /\ third' = [third EXCEPT ![tasks[i].third].status = "running"]
        /\ tasks' = WithTask(Answered(i, "completed"),
                             AnswerTask(i, "message", Question(tasks[i].third), "submitted"))
        /\ said' = said \cup {Question(tasks[i].third)}
        /\ UNCHANGED << session, drafts, record, syncs, display, cancelling, poller, faults >>
    BY <1>5 DEF ResumeReply, outcome
  <2>2. RowOK'
    BY <1>2, <2>1 DEF IndInv, RowOK
  <2> QED
    BY <1>1, <1>2, <1>3, <2>1, <2>2, AnswerStep
<1>6. CASE ResumeApprove(i, action)
  <2>1. /\ third' = [third EXCEPT ![tasks[i].third].status = "running"]
        /\ tasks' = WithTask(Answered(i, "completed"), AnswerTask(i, "resume", action, "submitted"))
        /\ UNCHANGED << session, said, drafts, record, syncs, display, cancelling, poller, faults >>
    BY <1>6 DEF ResumeApprove, outcome
  <2>2. RowOK'
    BY <2>1 DEF IndInv, RowOK
  <2> QED
    BY <1>1, <1>2, <1>3, <2>1, <2>2, AnswerStep
<1> QED
  BY <1>4, <1>5, <1>6

-----------------------------------------------------------------------------
(* third, a rollback, and a crash.                                         *)

\* A step that changes third, or the number of faults, and nothing else.
LEMMA ThirdOnly ==
    ASSUME IndInv, ThirdGrows, faults' \in 0..MaxFaults, UNCHANGED << rows, cancelling, poller >>
    PROVE  Preserved
<1>1. /\ UNCHANGED << session, said, drafts, tasks, record, syncs, display, cancelling, poller >>
  BY DEF rows
<1>2. Grows
  BY <1>1 DEF IndInv, RowOK, SyncsOK, Grows
<1>3. PendingStays /\ OneTrackerPerWorkflow' /\ StaysClosed
  BY <1>1, SameTasks DEF IndInv
<1>4. TasksOK'
  BY <1>1, <1>2, TasksStay DEF IndInv
<1>5. RowOK'
  BY <1>1 DEF IndInv, RowOK
<1> QED
  BY <1>1, <1>2, <1>3, <1>4, <1>5, Untouched DEF Preserved, IndInv

LEMMA ThirdStep ==
    ASSUME IndInv, NEW w \in DOMAIN third, ThirdAsks(w) \/ ThirdEnds(w)
    PROVE  Preserved
<1>1. third[w].status = "running" /\ UNCHANGED << rows, cancelling, poller, faults >>
  BY DEF ThirdAsks, ThirdEnds
<1>2. third[w] \in Workflow /\ third[w].asks \in 0..MaxQuestions /\ MaxQuestions \in Nat
  BY WorkflowRow, ConstantsAssumption DEF IndInv
<1>3. faults' \in 0..MaxFaults
  BY <1>1 DEF IndInv, RowOK
<1>4. CASE ThirdAsks(w)
  <2>1. PICK output \in BOOLEAN :
          third' = [third EXCEPT ![w] = [status |-> "waiting_user", asks |-> @.asks + 1,
                                         output |-> output]]
    BY <1>4 DEF ThirdAsks
  <2> DEFINE x == [status |-> "waiting_user", asks |-> third[w].asks + 1, output |-> output]
  <2>2. x \in Workflow /\ third' = [third EXCEPT ![w] = x]
    <3>1. third[w].asks + 1 \in 0..MaxQuestions
      BY <1>2, <1>4 DEF ThirdAsks
    <3> QED
      BY <2>1, <3>1 DEF Workflow
  <2> HIDE DEF x
  <2>3. ThirdGrows
    BY <1>1, <2>2, ThirdMoves DEF IndInv
  <2> QED
    BY <1>1, <1>3, <2>3, ThirdOnly
<1>5. CASE ThirdEnds(w)
  <2>1. PICK status \in {"success", "failed"}, output \in BOOLEAN :
          third' = [third EXCEPT ![w].status = status, ![w].output = output]
    BY <1>5 DEF ThirdEnds
  <2> DEFINE x == [third[w] EXCEPT !.status = status, !.output = output]
  <2>2. x \in Workflow /\ third' = [third EXCEPT ![w] = x]
    BY <1>2, <2>1 DEF Workflow, TerminalStatus
  <2> HIDE DEF x
  <2>3. ThirdGrows
    BY <1>1, <2>2, ThirdMoves DEF IndInv
  <2> QED
    BY <1>1, <1>3, <2>3, ThirdOnly
<1> QED
  BY <1>4, <1>5

LEMMA RollbackStep == ASSUME IndInv, Rollback PROVE Preserved
<1>1. UNCHANGED << rows, cancelling, poller >> /\ faults' \in 0..MaxFaults
  BY ConstantsAssumption DEF Rollback, CanFault, IndInv, RowOK
<1>2. CASE CanInvoke /\ third' = Invoked
  <2>1. ThirdGrows
    BY <1>2, NewThird DEF IndInv
  <2> QED
    BY <1>1, <2>1, ThirdOnly
<1>3. ASSUME NEW i \in DOMAIN tasks, NEW status \in {"running", "cancelled"},
             Answering(i, tasks[i].action),
             third' = [third EXCEPT ![tasks[i].third].status = status]
      PROVE  Preserved
  <2>1. tasks[i].third \in DOMAIN third /\ third[tasks[i].third].status = "waiting_user"
    BY <1>3, AnswerIsFor
  <2>2. ThirdGrows
    BY <1>3, <2>1, GoesOn DEF IndInv, TerminalStatus
  <2> QED
    BY <1>1, <2>2, ThirdOnly
<1> QED
  BY <1>2, <1>3 DEF Rollback

\* A step that changes the poller, or the number of faults, and nothing else.
LEMMA PollerOnly ==
    ASSUME IndInv, UNCHANGED << rows, third, cancelling >>, faults' \in 0..MaxFaults,
           PollerOK', WrittenOK'
    PROVE  Preserved
<1>1. /\ UNCHANGED << session, said, drafts, tasks, record, syncs, display, third, cancelling >>
  BY DEF rows
<1>2. Grows
  BY <1>1, GrowsAlike DEF IndInv
<1>3. OneTrackerPerWorkflow' /\ StaysClosed
  BY <1>1, SameTasks DEF IndInv
<1>4. TasksOK' /\ SyncsOK' /\ RecordOK'
  BY <1>1, <1>2, TasksStay, SyncsStay, RecordStays DEF IndInv
<1>5. RowOK' /\ ThirdOK' /\ ConfirmedIsComplete'
  BY <1>1 DEF IndInv, RowOK, ThirdOK, ConfirmedIsComplete
<1> QED
  BY <1>3, <1>4, <1>5 DEF Preserved, IndInv

LEMMA CrashStep == ASSUME IndInv, Crash PROVE Preserved
<1>1. UNCHANGED << rows, third, cancelling >> /\ poller' = Idle /\ faults' \in 0..MaxFaults
  BY ConstantsAssumption DEF Crash, CanFault, IndInv, RowOK
<1>2. PollerOK' /\ WrittenOK'
  BY <1>1 DEF PollerOK, WrittenOK, Busy, Idle, Poller, Places, IndInv, RowOK, TasksOK, rows
<1> QED
  BY <1>1, <1>2, PollerOnly

LEMMA ScanStep == ASSUME IndInv, Scan PROVE Preserved
<1>1. /\ UNCHANGED << rows, third, cancelling, faults >>
      /\ poller' = [Idle EXCEPT !.pc = "next", !.queue = Selected]
  BY DEF Scan
<1>2. Selected \subseteq Pending /\ Pending \subseteq Nat /\ UNCHANGED Pending
  BY <1>1 DEF Selected, Pending, rows, IndInv, TasksOK
<1>3. Selected \in SUBSET Nat /\ Selected \subseteq Pending'
  BY <1>2
<1>4. /\ poller'.pc = "next" /\ poller'.queue = Selected /\ poller'.task = 0 /\ poller'.draft = 0
      /\ poller' \in Poller
  BY <1>1, <1>3 DEF Idle, Poller, Places
<1>5. Len(drafts') \in Nat /\ Len(tasks') \in Nat
  BY <1>1 DEF rows, IndInv, RowOK, TasksOK
<1>6. PollerOK' /\ WrittenOK'
  BY <1>3, <1>4, <1>5 DEF PollerOK, WrittenOK, Busy
<1>7. faults' \in 0..MaxFaults
  BY <1>1 DEF IndInv, RowOK
<1> QED
  BY <1>1, <1>6, <1>7, PollerOnly

-----------------------------------------------------------------------------
(* The poller reads what third says of its next task.                      *)

\* A task gets a new status, and the poller is done with it.
LEMMA SettleStep ==
    ASSUME IndInv, ThirdGrows, NEW i \in Pending,
           NEW st \in PendingStatus \cup ClosedStatus, tasks' = Closed(i, st),
           NEW q \in SUBSET (Pending \ {i}), poller' = Rest(q), faults' \in 0..MaxFaults,
           UNCHANGED << session, said, drafts, record, syncs, display, cancelling >>
    PROVE  Preserved
<1> DEFINE t == [tasks[i] EXCEPT !.status = st]
<1>1. tasks[i] \in TaskRow /\ RowFine(tasks[i], third, drafts, syncs) /\ i \in DOMAIN tasks
  BY DEF IndInv, TasksOK, Pending, RowFine
<1>2. Grows
  BY DEF IndInv, RowOK, SyncsOK, Grows
<1>3. /\ t \in TaskRow /\ t.third = tasks[i].third /\ t.draft = tasks[i].draft
      /\ t.sync = tasks[i].sync /\ t.trigger = tasks[i].trigger
  BY <1>1 DEF TaskRow, PendingStatus, ClosedStatus
<1>4. tasks' = [tasks EXCEPT ![i] = t]
  BY DEF Closed
<1> HIDE DEF t
<1>5. RowFine(t, third, drafts, syncs)
  BY <1>1, <1>3 DEF RowFine
<1>6. RowFine(t, third', drafts', syncs')
  BY <1>2, <1>5, RowStaysFine DEF IndInv
<1>7. TasksOK' /\ OneTrackerPerWorkflow' /\ StaysClosed /\ PollerOK' /\ WrittenOK'
  BY <1>2, <1>3, <1>4, <1>6, Settles
<1>8. SyncsOK' /\ RecordOK'
  BY <1>2, SyncsStay, RecordStays DEF IndInv
<1>9. RowOK' /\ ThirdOK' /\ ConfirmedIsComplete'
  BY DEF IndInv, RowOK, ThirdGrows, ConfirmedIsComplete
<1> QED
  BY <1>7, <1>8, <1>9 DEF Preserved, IndInv

LEMMA SettleHeadStep ==
    ASSUME IndInv, ThirdGrows, NEW i \in poller.queue,
           NEW st \in PendingStatus \cup ClosedStatus, SettleHead(i, st), faults' \in 0..MaxFaults,
           UNCHANGED << session, said, drafts, record, syncs, display, cancelling >>
    PROVE  Preserved
<1>1. i \in Pending /\ Left(i) \in SUBSET (Pending \ {i})
  BY DEF IndInv, PollerOK, Left
<1> QED
  BY <1>1, SettleStep DEF SettleHead

LEMMA WorkStep ==
    ASSUME IndInv, NEW i \in poller.queue,
           third[tasks[i].third].status \in {"waiting_user"} \cup TerminalStatus,
           NEW pc \in {"replace", "mark", "update_sync", "lock"},
           pc = "update_sync" => tasks[i].trigger = "retry_sync",
           Work(i, pc), UNCHANGED << rows, third, cancelling, faults >>
    PROVE  Preserved
<1>1. i \in Pending /\ i \in DOMAIN tasks /\ i \in Nat /\ poller \in Poller
  BY DEF IndInv, PollerOK, Pending, TasksOK
<1>2. /\ poller' \in Poller /\ poller'.pc = pc /\ poller'.queue = Left(i) /\ poller'.task = i
      /\ poller'.saw = third[tasks[i].third].status /\ poller'.draft = poller.draft
  BY <1>1 DEF Work, Left, Poller, Places, TerminalStatus
<1>3. UNCHANGED Pending /\ Left(i) \subseteq Pending \ {i} /\ Mine' = tasks[i]
  BY <1>2 DEF Pending, rows, Left, IndInv, PollerOK, Mine
<1>4. tasks[i].third \in DOMAIN third /\ i \in 0..Len(tasks)
  BY <1>1 DEF IndInv, TasksOK, RowFine
<1>5. PollerOK'
  <2>1. poller'.queue \subseteq Pending'
    BY <1>2, <1>3
  <2>2. poller'.task \in 0..Len(tasks') /\ poller'.draft \in 0..Len(drafts')
    BY <1>2, <1>4 DEF rows, IndInv, PollerOK
  <2>3. poller'.task \in (Pending \ poller.queue)'
    BY <1>1, <1>2, <1>3
  <2>4. poller'.saw = "success" => Succeeded(Mine.third)'
    BY <1>2, <1>3, <1>4 DEF Succeeded
  <2> QED
    BY <1>2, <1>3, <2>1, <2>2, <2>3, <2>4 DEF PollerOK
<1>6. WrittenOK' /\ faults' \in 0..MaxFaults
  BY <1>2 DEF WrittenOK, IndInv, RowOK
<1> QED
  BY <1>5, <1>6, PollerOnly

LEMMA SameThird ==
    ASSUME IndInv, UNCHANGED third
    PROVE  ThirdGrows
BY DEF IndInv, ThirdOK, ThirdGrows

LEMMA FetchStep ==
    ASSUME IndInv, NEW i \in poller.queue, Fetch(i)
    PROVE  Preserved
<1>1. /\ {"running", "completed", "failed", "cancelled"} \subseteq PendingStatus \cup ClosedStatus
      /\ faults \in 0..MaxFaults /\ tasks[i].third \in DOMAIN third
  BY DEF PendingStatus, ClosedStatus, IndInv, RowOK, PollerOK, Pending, TasksOK, RowFine
<1>2. CASE DropCancelled(i)
  BY <1>1, <1>2, SameThird, SettleHeadStep DEF DropCancelled, outcome
<1>3. CASE CallFails(i)
  <2>1. faults' \in 0..MaxFaults
    BY <1>1, <1>3, ConstantsAssumption DEF CallFails, CanFault
  <2> QED
    BY <1>1, <1>3, <2>1, SameThird, SettleHeadStep DEF CallFails, outcome
<1>4. CASE StillRunning(i)
  BY <1>1, <1>4, SameThird, SettleHeadStep DEF StillRunning, outcome
<1>5. CASE Asked(i)
  <2>1. /\ third[tasks[i].third].status = "waiting_user"
        /\ UNCHANGED << session, said, drafts, record, syncs, display, cancelling, faults >>
    BY <1>5 DEF Asked, Reading, outcome
  <2>2. CASE tasks[i].trigger = "retry_sync"
    <3>1. /\ third' = [third EXCEPT ![tasks[i].third].status = "running"]
          /\ SettleHead(i, "running")
      BY <1>5, <2>2 DEF Asked
    <3>2. ThirdGrows
      BY <1>1, <2>1, <3>1, GoesOn DEF IndInv
    <3> QED
      BY <1>1, <2>1, <3>1, <3>2, SettleHeadStep
  <2>3. CASE tasks[i].trigger # "retry_sync"
    <3>1. (Work(i, "replace") \/ Work(i, "mark")) /\ UNCHANGED << tasks, third >>
      BY <1>5, <2>3 DEF Asked
    <3> QED
      BY <2>1, <3>1, WorkStep DEF rows
  <2> QED
    BY <2>2, <2>3
<1>6. CASE Ended(i)
  <2>1. /\ third[tasks[i].third].status \in TerminalStatus
        /\ UNCHANGED << session, said, drafts, record, syncs, display, third, cancelling, faults >>
        /\ \/ SettleHead(i, "failed")
           \/ SettleHead(i, "completed")
           \/ Work(i, "replace") /\ UNCHANGED tasks
           \/ Work(i, "update_sync") /\ UNCHANGED tasks /\ tasks[i].trigger = "retry_sync"
           \/ Work(i, "lock") /\ UNCHANGED tasks
    BY <1>6 DEF Ended, Reading, outcome
  <2>2. CASE SettleHead(i, "failed") \/ SettleHead(i, "completed")
    BY <1>1, <2>1, <2>2, SameThird, SettleHeadStep
  <2>3. ASSUME NEW pc \in {"replace", "update_sync", "lock"}, Work(i, pc), UNCHANGED tasks,
               pc = "update_sync" => tasks[i].trigger = "retry_sync"
        PROVE  Preserved
    BY <2>1, <2>3, WorkStep DEF rows
  <2> QED
    BY <2>1, <2>2, <2>3
<1> QED
  BY <1>2, <1>3, <1>4, <1>5, <1>6 DEF Fetch

-----------------------------------------------------------------------------
(* The poller's statements.                                                *)

\* What the poller knows while it is busy with a task.
LEMMA AtWork ==
    ASSUME IndInv, Busy
    PROVE  /\ poller.task \in Pending /\ poller.queue \in SUBSET (Pending \ {poller.task})
           /\ Mine \in TaskRow /\ RowFine(Mine, third, drafts, syncs)
           /\ Mine.draft \in 0..Len(drafts)
           /\ Mine.third \in DOMAIN third /\ Mine.third \in Workflows
           /\ poller.draft \in 0..Len(drafts) /\ Len(drafts) \in Nat
           /\ poller.saw = "success" => Succeeded(Mine.third)
<1>1. /\ poller.task \in Pending /\ poller.queue \in SUBSET (Pending \ {poller.task})
      /\ poller.draft \in 0..Len(drafts) /\ Len(drafts) \in Nat
      /\ poller.saw = "success" => Succeeded(Mine.third)
  BY DEF IndInv, PollerOK, RowOK
<1>2. Mine \in TaskRow /\ RowFine(Mine, third, drafts, syncs)
  BY <1>1 DEF IndInv, TasksOK, Pending, Mine, RowFine
<1> QED
  BY <1>1, <1>2 DEF RowFine, TaskRow

\* A statement that leaves the tasks to their workflows, and the poller at its task.
LEMMA StatementStep ==
    ASSUME IndInv, Busy, Grows, UNCHANGED << tasks, third >>,
           NEW pc \in Places \ {"idle", "next", "update_sync"},
           pc \in {"update_record", "update_display"} => Mine.trigger = "retry_sync",
           NEW d \in 0..Len(drafts'), poller' = [poller EXCEPT !.pc = pc, !.draft = d],
           RowOK', SyncsOK', RecordOK', ConfirmedIsComplete',
           pc \in {"sync", "display", "confirmed"} => WrittenOK'
    PROVE  Preserved
<1>1. /\ poller \in Poller /\ d \in Nat
  BY DEF IndInv, PollerOK, Grows
<1>2. /\ poller' \in Poller /\ poller'.pc = pc /\ poller'.queue = poller.queue
      /\ poller'.task = poller.task /\ poller'.saw = poller.saw /\ poller'.draft = d
  BY <1>1 DEF Poller
<1>3. UNCHANGED Pending /\ UNCHANGED Mine
  BY <1>2 DEF Pending, Mine
<1>4. poller.saw = "success" => Succeeded(Mine.third)'
  BY <1>3, AtWork DEF Succeeded
<1>5. PollerOK'
  BY <1>2, <1>3, <1>4 DEF IndInv, PollerOK, Busy
<1>6. WrittenOK'
  BY <1>2 DEF WrittenOK
<1>7. OneTrackerPerWorkflow' /\ StaysClosed
  BY SameTasks DEF IndInv
<1>8. TasksOK'
  BY TasksStay DEF IndInv
<1> QED
  BY <1>5, <1>6, <1>7, <1>8 DEF Preserved, IndInv, Grows, ThirdGrows

LEMMA GotoKeepsDraft ==
    ASSUME IndInv, NEW pc, Goto(pc)
    PROVE  /\ poller' = [poller EXCEPT !.pc = pc, !.draft = poller.draft]
           /\ pc \in Places => poller'.pc = pc /\ poller'.saw = poller.saw
BY DEF IndInv, PollerOK, Goto, Poller

\* A statement about the drafts or the session: neither the record nor its syncs change.
LEMMA DraftStatement ==
    ASSUME IndInv, Busy, RowOK', Len(drafts) <= Len(drafts'),
           UNCHANGED << tasks, record, syncs, display, third >>,
           session'.status = "confirmed" => session.status = "confirmed",
           NEW pc \in {"insert", "preview", "mark", "complete", "confirming", "record"},
           NEW d \in 0..Len(drafts'), poller' = [poller EXCEPT !.pc = pc, !.draft = d]
    PROVE  Preserved
<1>1. Grows
  BY SameThird DEF IndInv, RowOK, SyncsOK, Grows
<1>2. SyncsOK' /\ RecordOK' /\ ConfirmedIsComplete'
  BY <1>1, SyncsStay, RecordStays DEF IndInv, ConfirmedIsComplete
<1>3. pc \in Places \ {"idle", "next", "update_sync"}
  BY DEF Places
<1> QED
  BY <1>1, <1>2, <1>3, StatementStep

LEMMA ReplaceDraftsStep == ASSUME IndInv, ReplaceDrafts PROVE Preserved
<1>1. /\ Busy /\ drafts' = ReplaceActive /\ Goto("insert")
      /\ UNCHANGED << session, said, tasks, record, syncs, display, third, cancelling, faults >>
  BY DEF ReplaceDrafts, Busy, Places, outcome
<1>2. /\ drafts' \in Seq({"active", "replaced", "confirmed"}) /\ Len(drafts') = Len(drafts)
  BY <1>1, DraftsMarked DEF IndInv
<1>3. RowOK' /\ poller.draft \in 0..Len(drafts') /\ Len(drafts) <= Len(drafts')
  BY <1>1, <1>2, AtWork DEF IndInv, RowOK
<1>4. poller' = [poller EXCEPT !.pc = "insert", !.draft = poller.draft]
  BY <1>1, GotoKeepsDraft
<1> QED
  BY <1>1, <1>3, <1>4, DraftStatement

LEMMA InsertDraftStep == ASSUME IndInv, InsertDraft PROVE Preserved
<1>1. /\ Busy /\ drafts' = Append(drafts, "active")
      /\ poller' = [poller EXCEPT !.pc = "preview", !.draft = Len(drafts) + 1]
      /\ UNCHANGED << session, said, tasks, record, syncs, display, third, cancelling, faults >>
  BY DEF InsertDraft, Busy, Places, outcome
<1>2. /\ drafts' \in Seq({"active", "replaced", "confirmed"}) /\ Len(drafts') = Len(drafts) + 1
      /\ Len(drafts) \in Nat
  BY <1>1 DEF IndInv, RowOK
<1>3. RowOK' /\ Len(drafts) + 1 \in 0..Len(drafts') /\ Len(drafts) <= Len(drafts')
  BY <1>1, <1>2 DEF IndInv, RowOK
<1> QED
  BY <1>1, <1>3, DraftStatement

LEMMA PreviewStep == ASSUME IndInv, Preview PROVE Preserved
<1>1. /\ Busy /\ session' = [status |-> "previewing", current |-> poller.draft]
      /\ Goto("mark") \/ Goto("complete")
      /\ UNCHANGED << said, drafts, tasks, record, syncs, display, third, cancelling, faults >>
  BY DEF Preview, Busy, Places, outcome
<1>2. /\ poller.draft \in 0..Len(drafts') /\ Len(drafts) <= Len(drafts') /\ RowOK'
      /\ session'.status = "previewing"
  BY <1>1, AtWork DEF IndInv, RowOK
<1>3. \/ poller' = [poller EXCEPT !.pc = "mark", !.draft = poller.draft]
      \/ poller' = [poller EXCEPT !.pc = "complete", !.draft = poller.draft]
  BY <1>1, GotoKeepsDraft
<1> QED
  BY <1>1, <1>2, <1>3, DraftStatement

LEMMA LockDraftStep == ASSUME IndInv, LockDraft PROVE Preserved
<1>1. /\ Busy /\ drafts' = OnlyDraft(Mine.draft, "confirmed") /\ Goto("confirming")
      /\ UNCHANGED << session, said, tasks, record, syncs, display, third, cancelling, faults >>
  BY DEF LockDraft, Busy, Places, outcome
<1>2. Mine.draft \in Nat /\ RowOK
  BY <1>1, AtWork DEF IndInv
<1>3. /\ drafts' \in Seq({"active", "replaced", "confirmed"}) /\ Len(drafts') = Len(drafts)
  BY <1>1, <1>2, DraftsMarked
<1>4. RowOK' /\ poller.draft \in 0..Len(drafts') /\ Len(drafts) <= Len(drafts')
  BY <1>1, <1>3, AtWork DEF IndInv, RowOK
<1>5. poller' = [poller EXCEPT !.pc = "confirming", !.draft = poller.draft]
  BY <1>1, GotoKeepsDraft
<1> QED
  BY <1>1, <1>4, <1>5, DraftStatement

LEMMA MarkConfirmingStep == ASSUME IndInv, MarkConfirming PROVE Preserved
<1>1. /\ Busy /\ session' = [status |-> "confirming", current |-> Mine.draft] /\ Goto("record")
      /\ UNCHANGED << said, drafts, tasks, record, syncs, display, third, cancelling, faults >>
  BY DEF MarkConfirming, Busy, Places, outcome
<1>2. /\ poller.draft \in 0..Len(drafts') /\ Len(drafts) <= Len(drafts') /\ RowOK'
      /\ session'.status = "confirming"
  BY <1>1, AtWork DEF IndInv, RowOK
<1>3. poller' = [poller EXCEPT !.pc = "record", !.draft = poller.draft]
  BY <1>1, GotoKeepsDraft
<1> QED
  BY <1>1, <1>2, <1>3, DraftStatement

\* markWorkflowTaskWaitingUser
LEMMA MarkStep == ASSUME IndInv, Mark PROVE Preserved
<1> DEFINE i == poller.task
           t == [tasks[i] EXCEPT !.status = "waiting_user", !.conf = Question(tasks[i].third),
                                 !.draft = IF poller.draft # 0 THEN poller.draft ELSE @]
<1>1. /\ Busy /\ poller' = Rest(poller.queue)
      /\ tasks' = [tasks EXCEPT ![i].status = "waiting_user",
                                ![i].conf = Question(tasks[i].third),
                                ![i].draft = IF poller.draft # 0 THEN poller.draft ELSE @]
      /\ UNCHANGED << session, said, drafts, record, syncs, display, third, cancelling, faults >>
  BY DEF Mark, Busy, Places, outcome
<1>2. /\ i \in Pending /\ poller.queue \in SUBSET (Pending \ {i})
      /\ tasks[i] \in TaskRow /\ RowFine(tasks[i], third, drafts, syncs)
      /\ tasks[i].third \in DOMAIN third /\ tasks[i].third \in Workflows
      /\ tasks[i].draft \in 0..Len(drafts) /\ poller.draft \in 0..Len(drafts)
      /\ Len(drafts) \in Nat
  BY <1>1, AtWork DEF Mine
<1>3. Question(tasks[i].third) \in Questions
  BY <1>2, WorkflowRow, ConstantsAssumption DEF IndInv, Question, Questions
<1>4. /\ t \in TaskRow /\ t.third = tasks[i].third /\ t.draft \in 0..Len(drafts)
      /\ t.sync = tasks[i].sync /\ t.trigger = tasks[i].trigger
  <2>1. \A d \in 0..Len(drafts) : d \in Nat
    BY <1>2
  <2>2. PICK d \in 0..Len(drafts) :
          t = [tasks[i] EXCEPT !.status = "waiting_user", !.conf = Question(tasks[i].third),
                               !.draft = d]
    BY <1>2
  <2> HIDE DEF t
  <2> QED
    BY <1>2, <1>3, <2>1, <2>2 DEF TaskRow
<1>5. tasks' = [tasks EXCEPT ![i] = t]
  BY <1>1, <1>2 DEF Pending, IndInv, TasksOK
<1> HIDE DEF t
<1>6. RowFine(t, third', drafts', syncs')
  BY <1>1, <1>2, <1>4 DEF RowFine
<1>7. Grows
  BY <1>1, GrowsAlike DEF IndInv
<1>8. TasksOK' /\ OneTrackerPerWorkflow' /\ StaysClosed /\ PollerOK' /\ WrittenOK'
  BY <1>1, <1>2, <1>4, <1>5, <1>6, <1>7, Settles
<1>9. SyncsOK' /\ RecordOK'
  BY <1>1, <1>7, SyncsStay, RecordStays DEF IndInv
<1>10. RowOK' /\ ThirdOK' /\ ConfirmedIsComplete'
  BY <1>1 DEF IndInv, RowOK, ThirdOK, ConfirmedIsComplete
<1> QED
  BY <1>8, <1>9, <1>10 DEF Preserved, IndInv

\* The three ways a task ends after the poller has begun to write.
LEMMA SettledStep ==
    ASSUME IndInv, Complete \/ DuplicateRecord \/ SnapshotFails
    PROVE  Preserved
<1>1. /\ Busy /\ UNCHANGED << session, said, drafts, record, syncs, display, third, cancelling >>
      /\ Settle(poller.task, "completed") \/ Settle(poller.task, "failed")
      /\ faults' \in 0..MaxFaults
  BY ConstantsAssumption
     DEF Complete, DuplicateRecord, SnapshotFails, Busy, Places, outcome, CanFault, IndInv, RowOK
<1>2. poller.task \in Pending /\ poller.queue \in SUBSET (Pending \ {poller.task})
  BY <1>1, AtWork
<1>3. {"completed", "failed"} \subseteq PendingStatus \cup ClosedStatus
  BY DEF PendingStatus, ClosedStatus
<1> QED
  BY <1>1, <1>2, <1>3, SameThird, SettleStep DEF Settle

-----------------------------------------------------------------------------
(* completeConfirm and applyTerminalRetrySyncTask.                         *)

LEMMA InsertRecordStep == ASSUME IndInv, InsertRecord PROVE Preserved
<1>1. /\ Busy /\ record.status = "none" /\ Goto("sync")
      /\ record' = [status |-> RecordStatus, draft |-> Mine.draft, action |-> Mine.action,
                    third |-> Mine.third]
      /\ UNCHANGED << session, said, drafts, tasks, syncs, display, third, cancelling, faults >>
  BY DEF InsertRecord, Busy, Places
<1>2. Grows
  BY <1>1, GrowsAlike DEF IndInv
<1>3. /\ Mine \in TaskRow /\ Mine.draft \in 0..Len(drafts) /\ Mine.third \in Workflows
      /\ poller.draft \in 0..Len(drafts')
      /\ poller.saw = "success" => Succeeded(Mine.third)
  BY <1>1, AtWork
<1>4. /\ record' \in RecordRow /\ record'.draft = Mine.draft /\ record'.third = Mine.third
      /\ record'.status = RecordStatus /\ RecordStatus \in {"success", "sync_failed"}
      /\ RecordStatus = "success" => poller.saw = "success"
  BY <1>1, <1>3, ConstantsAssumption DEF RecordRow, RecordStatus, TaskRow, Workflows
<1>5. poller.saw = "success" => Justified'
  BY <1>1, <1>3, <1>4 DEF Justified, Succeeded
<1>6. display = "none"
  BY <1>1 DEF IndInv, RecordOK
<1>7. RowOK' /\ SyncsOK' /\ RecordOK' /\ ConfirmedIsComplete'
  BY <1>1, <1>2, <1>3, <1>4, <1>5, <1>6, SyncsStay
     DEF IndInv, RowOK, RecordOK, ConfirmedIsComplete
<1>8. /\ poller' = [poller EXCEPT !.pc = "sync", !.draft = poller.draft]
      /\ "sync" \in Places \ {"idle", "next", "update_sync"}
      /\ poller'.pc = "sync" /\ poller'.saw = poller.saw
  BY <1>1, GotoKeepsDraft DEF Places
<1>9. WrittenOK'
  BY <1>4, <1>5, <1>8 DEF WrittenOK
<1> QED
  BY <1>1, <1>2, <1>3, <1>7, <1>8, <1>9, StatementStep

LEMMA InsertSyncStep == ASSUME IndInv, InsertSync PROVE Preserved
<1> DEFINE row == [status |-> SyncStatus, third |-> Mine.third]
<1>1. /\ Busy /\ poller.pc = "sync" /\ syncs' = Append(syncs, row) /\ Goto("display")
      /\ UNCHANGED << session, said, drafts, tasks, record, display, third, cancelling, faults >>
  BY DEF InsertSync, Busy, Places
<1>2. /\ Mine.third \in DOMAIN third /\ Mine.third \in Workflows /\ poller.draft \in 0..Len(drafts')
      /\ poller.saw = "success" => Succeeded(Mine.third)
  BY <1>1, AtWork
<1>3. row \in SyncRow /\ row.third = Mine.third /\ (row.status = "success" => Succeeded(Mine.third))
  BY <1>2 DEF SyncStatus, SyncRow
<1> HIDE DEF row
<1>4. /\ syncs \in Seq(SyncRow) /\ Len(syncs) \in Nat /\ DOMAIN syncs = 1..Len(syncs)
      /\ syncs' \in Seq(SyncRow) /\ Len(syncs') = Len(syncs) + 1
      /\ DOMAIN syncs' = 1..(Len(syncs) + 1)
      /\ \A s \in 1..Len(syncs) : syncs'[s] = syncs[s]
      /\ syncs'[Len(syncs) + 1] = row
  BY <1>1, <1>3 DEF IndInv, SyncsOK
<1>5. Grows
  BY <1>1, <1>4, SameThird DEF IndInv, RowOK, Grows
<1>6. SyncsOK'
  BY <1>1, <1>2, <1>3, <1>4 DEF IndInv, SyncsOK, Succeeded
<1>7. RecordOK' /\ RowOK' /\ ConfirmedIsComplete'
  BY <1>1, <1>4, <1>5, RecordStays DEF IndInv, RowOK, ConfirmedIsComplete
<1>8. /\ poller' = [poller EXCEPT !.pc = "display", !.draft = poller.draft]
      /\ "display" \in Places \ {"idle", "next", "update_sync"}
      /\ poller'.pc = "display" /\ poller'.saw = poller.saw
  BY <1>1, GotoKeepsDraft DEF Places
<1>9. WrittenOK'
  BY <1>1, <1>4, <1>5, <1>8, SuccessStays DEF IndInv, WrittenOK
<1> QED
  BY <1>1, <1>2, <1>5, <1>6, <1>7, <1>8, <1>9, StatementStep

LEMMA InsertDisplayStep == ASSUME IndInv, InsertDisplay PROVE Preserved
<1>1. /\ Busy /\ poller.pc = "display" /\ display' = RecordStatus /\ Goto("confirmed")
      /\ UNCHANGED << session, said, drafts, tasks, record, syncs, third, cancelling, faults >>
  BY DEF InsertDisplay, Busy, Places
<1>2. Grows /\ poller.draft \in 0..Len(drafts')
  BY <1>1, GrowsAlike, AtWork DEF IndInv
<1>3. /\ display' \in {"success", "sync_failed"}
      /\ display' = "success" => poller.saw = "success"
  BY <1>1 DEF RecordStatus
<1>4. Justified => Justified'
  BY <1>1, <1>2, SuccessStays
<1>5. RowOK' /\ SyncsOK' /\ RecordOK' /\ ConfirmedIsComplete'
  BY <1>1, <1>2, <1>3, <1>4, SyncsStay
     DEF IndInv, RowOK, RecordOK, WrittenOK, ConfirmedIsComplete
<1>6. /\ poller' = [poller EXCEPT !.pc = "confirmed", !.draft = poller.draft]
      /\ "confirmed" \in Places \ {"idle", "next", "update_sync"}
      /\ poller'.pc = "confirmed"
  BY <1>1, GotoKeepsDraft DEF Places
<1>7. WrittenOK'
  BY <1>1, <1>3, <1>6 DEF IndInv, WrittenOK
<1> QED
  BY <1>1, <1>2, <1>5, <1>6, <1>7, StatementStep

LEMMA MarkConfirmedStep == ASSUME IndInv, MarkConfirmed PROVE Preserved
<1>1. /\ Busy /\ poller.pc = "confirmed" /\ Goto("complete")
      /\ session' = [session EXCEPT !.status = "confirmed"]
      /\ UNCHANGED << said, drafts, tasks, record, syncs, display, third, cancelling, faults >>
  BY DEF MarkConfirmed, Busy, Places, outcome
<1>2. Grows /\ poller.draft \in 0..Len(drafts')
  BY <1>1, GrowsAlike, AtWork DEF IndInv
<1>3. RowOK' /\ SyncsOK' /\ RecordOK' /\ ConfirmedIsComplete'
  BY <1>1, <1>2, SyncsStay, RecordStays DEF IndInv, RowOK, WrittenOK, ConfirmedIsComplete
<1>4. /\ poller' = [poller EXCEPT !.pc = "complete", !.draft = poller.draft]
      /\ "complete" \in Places \ {"idle", "next", "update_sync"}
  BY <1>1, GotoKeepsDraft DEF Places
<1> QED
  BY <1>1, <1>2, <1>3, <1>4, StatementStep

\* The sync row of a retry is about the retry's workflow.
LEMMA RetriesSync ==
    ASSUME IndInv, poller.pc \in {"update_sync", "update_record", "update_display"}
    PROVE  /\ Busy /\ Mine.trigger = "retry_sync"
           /\ Mine.sync \in DOMAIN syncs /\ syncs[Mine.sync].third = Mine.third
           /\ syncs[Mine.sync] \in SyncRow
           /\ poller.saw = "success" => Justified
<1>1. Busy /\ Mine.trigger = "retry_sync"
  BY DEF IndInv, PollerOK, Busy, Places
<1>2. RowFine(Mine, third, drafts, syncs) /\ (poller.saw = "success" => Succeeded(Mine.third))
  BY <1>1, AtWork
<1>3. /\ Mine.sync \in DOMAIN syncs /\ syncs[Mine.sync].third = Mine.third
      /\ syncs[Mine.sync] \in SyncRow
  BY <1>1, <1>2 DEF RowFine, IndInv, SyncsOK
<1> QED
  BY <1>1, <1>2, <1>3 DEF Justified

LEMMA UpdateSyncStep == ASSUME IndInv, UpdateSync PROVE Preserved
<1> DEFINE s == Mine.sync
           row == [syncs[s] EXCEPT !.status = SyncStatus]
<1>1. /\ Busy /\ Mine.trigger = "retry_sync" /\ Goto("update_record")
      /\ syncs' = [syncs EXCEPT ![s].status = SyncStatus]
      /\ s \in DOMAIN syncs /\ syncs[s].third = Mine.third /\ syncs[s] \in SyncRow
      /\ UNCHANGED << session, said, drafts, tasks, record, display, third, cancelling, faults >>
  BY RetriesSync DEF UpdateSync
<1>2. /\ Mine.third \in DOMAIN third /\ poller.draft \in 0..Len(drafts')
      /\ poller.saw = "success" => Succeeded(Mine.third)
  BY <1>1, AtWork
<1>3. row \in SyncRow /\ row.third = Mine.third /\ (row.status = "success" => Succeeded(Mine.third))
  BY <1>1, <1>2 DEF SyncStatus, SyncRow
<1>4. syncs' = [syncs EXCEPT ![s] = row]
  BY <1>1
<1> HIDE DEF row
<1>5. /\ syncs \in Seq(SyncRow) /\ Len(syncs) \in Nat /\ DOMAIN syncs = 1..Len(syncs)
      /\ s \in 1..Len(syncs)
  BY <1>1 DEF IndInv, SyncsOK
<1>6. /\ syncs' \in Seq(SyncRow) /\ Len(syncs') = Len(syncs) /\ DOMAIN syncs' = 1..Len(syncs)
      /\ \A n \in 1..Len(syncs) : syncs'[n] = IF n = s THEN row ELSE syncs[n]
  BY <1>3, <1>4, <1>5, ExceptSeq
<1>7. Grows
  BY <1>1, <1>3, <1>5, <1>6, SameThird DEF IndInv, RowOK, Grows
<1>8. SyncsOK'
  BY <1>1, <1>2, <1>3, <1>5, <1>6 DEF IndInv, SyncsOK, Succeeded
<1>9. RecordOK' /\ RowOK' /\ ConfirmedIsComplete'
  BY <1>1, <1>5, <1>6, <1>7, RecordStays DEF IndInv, RowOK, ConfirmedIsComplete
<1>10. /\ poller' = [poller EXCEPT !.pc = "update_record", !.draft = poller.draft]
       /\ "update_record" \in Places \ {"idle", "next", "update_sync"}
  BY <1>1, GotoKeepsDraft DEF Places
<1> QED
  BY <1>1, <1>2, <1>7, <1>8, <1>9, <1>10, StatementStep

LEMMA UpdateRecordStep == ASSUME IndInv, UpdateRecord PROVE Preserved
<1>1. /\ Busy /\ Mine.trigger = "retry_sync" /\ Goto("update_display")
      /\ poller.saw = "success" => Justified
      /\ record' = [record EXCEPT !.status = RecordStatus]
      /\ UNCHANGED << session, said, drafts, tasks, syncs, display, third, cancelling, faults >>
  BY RetriesSync DEF UpdateRecord
<1>2. Grows /\ poller.draft \in 0..Len(drafts')
  BY <1>1, GrowsAlike, AtWork DEF IndInv
<1>3. /\ record' \in RecordRow /\ record'.third = record.third /\ record'.draft = record.draft
      /\ record'.status \in {"success", "sync_failed"}
      /\ record'.status = "success" => poller.saw = "success"
  BY <1>1 DEF IndInv, RecordOK, RecordRow, RecordStatus
<1>4. Justified => Justified'
  BY <1>2, <1>3, SuccessStays
<1>5. RowOK' /\ SyncsOK' /\ RecordOK' /\ ConfirmedIsComplete'
  BY <1>1, <1>2, <1>3, <1>4, SyncsStay DEF IndInv, RowOK, RecordOK, ConfirmedIsComplete
<1>6. /\ poller' = [poller EXCEPT !.pc = "update_display", !.draft = poller.draft]
      /\ "update_display" \in Places \ {"idle", "next", "update_sync"}
  BY <1>1, GotoKeepsDraft DEF Places
<1> QED
  BY <1>1, <1>2, <1>5, <1>6, StatementStep

LEMMA UpdateDisplayStep == ASSUME IndInv, UpdateDisplay PROVE Preserved
<1> DEFINE i == poller.task
<1>1. /\ Busy /\ (poller.saw = "success" => Justified)
      /\ display' = IF display = "none" THEN "none" ELSE RecordStatus
      /\ tasks' = Closed(i, "completed") \/ tasks' = Closed(i, "failed")
      /\ poller' = Rest(poller.queue)
      /\ UNCHANGED << session, said, drafts, record, syncs, third, cancelling, faults >>
  BY RetriesSync DEF UpdateDisplay, Settle
<1>2. PICK st \in {"completed", "failed"} : tasks' = Closed(i, st)
  BY <1>1
<1> DEFINE t == [tasks[i] EXCEPT !.status = st]
<1>3. /\ i \in Pending /\ poller.queue \in SUBSET (Pending \ {i})
      /\ tasks[i] \in TaskRow /\ RowFine(tasks[i], third, drafts, syncs)
  BY <1>1, AtWork DEF Mine
<1>4. Grows
  BY <1>1, GrowsAlike DEF IndInv
<1>5. /\ t \in TaskRow /\ t.third = tasks[i].third /\ t.draft = tasks[i].draft
      /\ t.sync = tasks[i].sync /\ t.trigger = tasks[i].trigger
  BY <1>3 DEF TaskRow, ClosedStatus
<1>6. tasks' = [tasks EXCEPT ![i] = t]
  BY <1>2 DEF Closed
<1> HIDE DEF t
<1>7. RowFine(t, third', drafts', syncs')
  BY <1>1, <1>3, <1>5 DEF RowFine
<1>8. TasksOK' /\ OneTrackerPerWorkflow' /\ StaysClosed /\ PollerOK' /\ WrittenOK'
  BY <1>1, <1>3, <1>4, <1>5, <1>6, <1>7, Settles
<1>9. Justified => Justified'
  BY <1>1, <1>4, SuccessStays
<1>10. /\ display' \in {"none", "success", "sync_failed"}
       /\ display' = "none" <=> display = "none"
       /\ display' = "success" => poller.saw = "success"
  BY <1>1 DEF RecordStatus
<1>11. RowOK' /\ ThirdOK' /\ SyncsOK' /\ RecordOK' /\ ConfirmedIsComplete'
  BY <1>1, <1>4, <1>9, <1>10, SyncsStay DEF IndInv, RowOK, ThirdOK, RecordOK, ConfirmedIsComplete
<1> QED
  BY <1>8, <1>11 DEF Preserved, IndInv

LEMMA StatementPreserves == ASSUME IndInv, Statement PROVE Preserved
BY ReplaceDraftsStep, InsertDraftStep, PreviewStep, MarkStep, SettledStep, LockDraftStep,
   MarkConfirmingStep, InsertRecordStep, InsertSyncStep, InsertDisplayStep, MarkConfirmedStep,
   UpdateSyncStep, UpdateRecordStep, UpdateDisplayStep
   DEF Statement

-----------------------------------------------------------------------------
(* The theorems.                                                           *)

LEMMA InitHolds == Init => IndInv
<1> SUFFICES ASSUME Init PROVE IndInv
  OBVIOUS
<1>1. RowOK
  <2>1. drafts \in Seq({"active", "replaced", "confirmed"}) /\ 0 \in 0..Len(drafts)
    BY DEF Init
  <2>2. session \in [status : {"absent", "editing", "previewing", "confirming", "confirmed",
                              "cancelled"},
                     current : 0..Len(drafts)]
    BY <2>1 DEF Init
  <2>3. said \subseteq Messages \cup Questions /\ cancelling \in BOOLEAN
    BY DEF Init
  <2>4. faults \in 0..MaxFaults
    BY ConstantsAssumption DEF Init
  <2> QED
    BY <2>1, <2>2, <2>3, <2>4 DEF RowOK
<1>2. ThirdOK /\ TasksOK /\ SyncsOK
  BY ConstantsAssumption DEF Init, ThirdOK, TasksOK, SyncsOK
<1>3. RecordOK
  BY ConstantsAssumption DEF Init, RecordOK, RecordRow
<1>4. PollerOK /\ WrittenOK
  BY DEF Init, PollerOK, WrittenOK, Idle, Poller, Places, Busy
<1>5. ConfirmedIsComplete /\ OneTrackerPerWorkflow
  BY DEF Init, ConfirmedIsComplete, OneTrackerPerWorkflow
<1> QED
  BY <1>1, <1>2, <1>3, <1>4, <1>5 DEF IndInv

LEMMA StepHolds == IndInv /\ [Next]_vars => Preserved
<1> SUFFICES ASSUME IndInv, [Next]_vars PROVE Preserved
  OBVIOUS
<1>1. CASE User
  BY <1>1, CreateSessionStep, SendMessageStep, ConfirmStep, ResumeStep, CancelCheckStep,
     CancelWriteStep, RetrySyncStep DEF User
<1>2. CASE Poll
  BY <1>2, ScanStep, FetchStep, StatementPreserves DEF Poll
<1>3. CASE Third
  BY <1>3, ThirdStep DEF Third
<1>4. CASE Rollback
  BY <1>4, RollbackStep
<1>5. CASE Crash
  BY <1>5, CrashStep
<1>6. CASE UNCHANGED vars
  <2>1. RowOK' /\ UNCHANGED << drafts, tasks, record, syncs, display, third, poller, session >>
    BY <1>6 DEF vars, IndInv, RowOK
  <2> QED
    BY <2>1, RowOnly
<1> QED
  BY <1>1, <1>2, <1>3, <1>4, <1>5, <1>6 DEF Next

LEMMA AlwaysHolds == Spec => [](IndInv)
<1>1. IndInv /\ [Next]_vars => IndInv'
  BY StepHolds DEF Preserved
<1> QED
  BY InitHolds, <1>1, PTL DEF Spec

\* Every row of the session refers to rows that exist, and so does what the poller has read.
THEOREM RowsAreTyped == Spec => []TypeOK
<1>1. IndInv => TypeOK
  <2> SUFFICES ASSUME IndInv PROVE TypeOK
    OBVIOUS
  <2>1. poller.queue \subseteq DOMAIN tasks
    BY DEF IndInv, PollerOK, Pending
  <2>2. TasksRefer
    BY DEF IndInv, TasksOK, RowFine, TasksRefer
  <2>3. /\ session \in [status : {"absent", "editing", "previewing", "confirming", "confirmed",
                                  "cancelled"},
                         current : 0..Len(drafts)]
        /\ said \subseteq Messages \cup Questions
        /\ drafts \in Seq({"active", "replaced", "confirmed"})
        /\ cancelling \in BOOLEAN /\ faults \in 0..MaxFaults
    BY DEF IndInv, RowOK
  <2>4. /\ tasks \in Seq(TaskRow) /\ syncs \in Seq(SyncRow)
        /\ third \in Seq(Workflow) /\ Len(third) <= MaxWorkflows
    BY DEF IndInv, TasksOK, SyncsOK, ThirdOK
  <2>5. /\ record \in RecordRow /\ record.draft \in 0..Len(drafts)
        /\ display \in {"none", "success", "sync_failed"}
    BY DEF IndInv, RecordOK
  <2>6. /\ poller \in Poller /\ poller.task \in 0..Len(tasks) /\ poller.draft \in 0..Len(drafts)
    BY DEF IndInv, PollerOK
  <2> QED
    BY <2>1, <2>2, <2>3, <2>4, <2>5, <2>6 DEF TypeOK
<1> QED
  BY AlwaysHolds, <1>1, PTL

\* A confirmed session has its record, its sync row and its display, whatever crashed, failed
\* or raced on the way there.
THEOREM ConfirmationIsComplete == Spec => []ConfirmedIsComplete
<1>1. IndInv => ConfirmedIsComplete
  BY DEF IndInv
<1> QED
  BY AlwaysHolds, <1>1, PTL

\* A workflow is followed by at most one open task, however many requests, answers and polls
\* interleave.
THEOREM OneTracker == Spec => []OneTrackerPerWorkflow
<1>1. IndInv => OneTrackerPerWorkflow
  BY DEF IndInv
<1> QED
  BY AlwaysHolds, <1>1, PTL

\* No record, display or sync row says success unless a workflow that was to write the
\* record succeeded.
THEOREM SuccessIsGenuine == Spec => []SuccessIsReal
<1>1. IndInv => SuccessIsReal
  BY DEF IndInv, SyncsOK, RecordOK, Justified, Succeeded, SuccessIsReal
<1> QED
  BY AlwaysHolds, <1>1, PTL

\* No later poll and no later answer touches a task that has been closed.
THEOREM ClosedForGood == Spec => ClosedTasksStayClosed
<1>1. IndInv /\ [Next]_vars => [StaysClosed]_vars
  BY StepHolds DEF Preserved
<1>2. StaysClosed <=>
        \A i \in DOMAIN tasks : tasks[i].status \in ClosedStatus => tasks'[i] = tasks[i]
  BY DEF StaysClosed
<1> QED
  BY AlwaysHolds, <1>1, <1>2, PTL DEF Spec, ClosedTasksStayClosed

-----------------------------------------------------------------------------
(* The display.  Without faults it shows the record's status, but while    *)
(* the poller is between the two writes.                                   *)

\* The back office retries a record that is there.
RecordFirst == \A i \in DOMAIN tasks : tasks[i].trigger = "retry_sync" => record.status # "none"

Between == {"sync", "display", "update_display"}
Shown ==
    /\ poller.pc \in {"update_sync", "update_record", "update_display"} => record.status # "none"
    /\ faults = 0 =>
         /\ poller.pc \notin Between => display = record.status
         /\ poller.pc \in {"sync", "display"} => display = "none" /\ record.status = RecordStatus
         /\ poller.pc = "update_display" => display # "none" /\ record.status = RecordStatus
DisplayInv == RecordFirst /\ Shown

SameTriggers ==
    /\ DOMAIN tasks' = DOMAIN tasks
    /\ \A i \in DOMAIN tasks : tasks'[i].trigger = tasks[i].trigger

LEMMA StatusOnly ==
    ASSUME IndInv, NEW i, NEW st, tasks' = Closed(i, st)
    PROVE  SameTriggers
<1>1. \A j \in DOMAIN tasks : tasks[j] \in TaskRow
  BY DEF IndInv, TasksOK
<1> QED
  BY <1>1 DEF Closed, SameTriggers, TaskRow

LEMMA MarkOnly ==
    ASSUME IndInv, Mark
    PROVE  SameTriggers
<1>1. \A j \in DOMAIN tasks : tasks[j] \in TaskRow
  BY DEF IndInv, TasksOK
<1>2. tasks' = [tasks EXCEPT ![poller.task].status = "waiting_user",
                             ![poller.task].conf = Question(tasks[poller.task].third),
                             ![poller.task].draft = IF poller.draft # 0 THEN poller.draft ELSE @]
  BY DEF Mark
<1> QED
  BY <1>1, <1>2 DEF SameTriggers, TaskRow

\* A row that is added is a retry only if the record is there.
LEMMA FirstAdded ==
    ASSUME NEW s \in Seq(TaskRow), NEW t \in TaskRow, tasks' = WithTask(s, t),
           \A i \in DOMAIN s : s[i].trigger = "retry_sync" => record.status # "none",
           t.trigger = "retry_sync" => record.status # "none",
           UNCHANGED record
    PROVE  RecordFirst'
<1>1. /\ tasks' \in Seq(TaskRow)
      /\ \A i \in 1..Len(s) : tasks'[i] = s[i]
      /\ \A i \in DOMAIN tasks' : i \notin 1..Len(s) => tasks'[i] = t
  BY Added
<1> QED
  BY <1>1 DEF RecordFirst

LEMMA FirstStays ==
    ASSUME RecordFirst, SameTriggers, record'.status # "none" \/ record' = record
    PROVE  RecordFirst'
BY DEF RecordFirst, SameTriggers

LEMMA RecordFirstStep ==
    ASSUME IndInv, RecordFirst, [Next]_vars
    PROVE  RecordFirst'
<1>1. /\ tasks \in Seq(TaskRow) /\ DOMAIN tasks = 1..Len(tasks)
      /\ \A i \in DOMAIN tasks : tasks[i] \in TaskRow
  BY DEF IndInv, TasksOK
<1>2. ASSUME UNCHANGED << tasks, record >> PROVE RecordFirst'
  BY <1>2 DEF RecordFirst
<1>3. ASSUME NEW m \in Messages, SendMessage(m) PROVE RecordFirst'
  <2> DEFINE t == NewTask("message", m, NewWorkflow, 0)
  <2>1. /\ CanInvoke /\ third' = Invoked /\ tasks' = WithTask(tasks, t) /\ UNCHANGED record
    BY <1>3 DEF SendMessage, outcome
  <2>2. NewWorkflow \in Workflows
    BY <2>1, NewThird DEF IndInv
  <2>3. t \in TaskRow /\ t.trigger = "message"
    <3>1. 0 \in Nat /\ NoAction \in Questions \cup {NoAction} /\ m \in Actions
      BY DEF Actions
    <3> QED
      BY <2>2, <3>1 DEF NewTask, TaskRow, Trigger, PendingStatus
  <2> HIDE DEF t
  <2> QED
    BY <1>1, <2>1, <2>3, FirstAdded DEF RecordFirst
<1>4. ASSUME NEW c \in Confirms, NEW d \in DOMAIN drafts, Confirm(c, d) PROVE RecordFirst'
  <2> DEFINE t == NewTask("confirm", c, NewWorkflow, d)
  <2>1. /\ CanInvoke /\ third' = Invoked /\ tasks' = WithTask(tasks, t) /\ UNCHANGED record
    BY <1>4 DEF Confirm, outcome
  <2>2. NewWorkflow \in Workflows /\ d \in Nat
    BY <2>1, NewThird DEF IndInv, RowOK
  <2>3. t \in TaskRow /\ t.trigger = "confirm"
    <3>1. 0 \in Nat /\ NoAction \in Questions \cup {NoAction} /\ c \in Actions
      BY DEF Actions
    <3> QED
      BY <2>2, <3>1 DEF NewTask, TaskRow, Trigger, PendingStatus
  <2> HIDE DEF t
  <2> QED
    BY <1>1, <2>1, <2>3, FirstAdded DEF RecordFirst
<1>5. ASSUME NEW r \in Requests, RetrySync(r) PROVE RecordFirst'
  <2> DEFINE t == [NewTask("retry_sync", r, NewWorkflow, 0) EXCEPT !.sync = Len(syncs) + 1]
  <2>1. /\ CanInvoke /\ third' = Invoked /\ tasks' = WithTask(tasks, t) /\ UNCHANGED record
        /\ record.status # "none"
    BY <1>5 DEF RetrySync
  <2>2. NewWorkflow \in Workflows /\ Len(syncs) \in Nat
    BY <2>1, NewThird DEF IndInv, SyncsOK
  <2>3. t \in TaskRow
    <3>1. 0 \in Nat /\ NoAction \in Questions \cup {NoAction} /\ r \in Actions
      BY DEF Actions
    <3> QED
      BY <2>2, <3>1 DEF NewTask, TaskRow, Trigger, PendingStatus
  <2> HIDE DEF t
  <2> QED
    BY <1>1, <2>1, <2>3, FirstAdded DEF RecordFirst
<1>6. ASSUME Resume PROVE RecordFirst'
  <2>0. PICK i \in DOMAIN tasks : \E action \in {tasks[i].action, << tasks[i].third, 0 >>} :
          ResumeCancel(i, action) \/ ResumeReply(i, action) \/ ResumeApprove(i, action)
    BY <1>6 DEF Resume
  <2>1. PICK action \in {tasks[i].action, << tasks[i].third, 0 >>} :
          ResumeCancel(i, action) \/ ResumeReply(i, action) \/ ResumeApprove(i, action)
    BY <2>0
  <2>2. Answering(i, action) /\ UNCHANGED record
    BY <2>1 DEF ResumeCancel, ResumeReply, ResumeApprove, outcome
  <2>3. /\ tasks[i] \in TaskRow /\ tasks[i].third \in Workflows /\ tasks[i].draft \in Nat
        /\ Question(tasks[i].third) \in Questions /\ action \in Actions
    BY <1>1, <2>2, AnswerIsFor DEF TaskRow
  <2>4. ASSUME NEW st \in ClosedStatus, NEW trigger \in Trigger \ {"retry_sync"}, NEW a \in Actions,
               NEW new \in PendingStatus \cup ClosedStatus,
               tasks' = WithTask(Answered(i, st), AnswerTask(i, trigger, a, new))
        PROVE  RecordFirst'
    <3> DEFINE t == AnswerTask(i, trigger, a, new)
               row == [tasks[i] EXCEPT !.status = st, !.conf = Question(tasks[i].third)]
               s == Answered(i, st)
    <3>1. t \in TaskRow /\ t.trigger = trigger
      BY <2>3 DEF AnswerTask, NewTask, TaskRow
    <3>2. row \in TaskRow /\ row.trigger = tasks[i].trigger
      BY <2>3 DEF TaskRow
    <3>3. s = [tasks EXCEPT ![i] = row]
      BY DEF Answered
    <3> HIDE DEF t, row
    <3>4. s \in Seq(TaskRow) /\ Len(s) = Len(tasks)
          /\ \A j \in 1..Len(tasks) : s[j] = IF j = i THEN row ELSE tasks[j]
      BY <1>1, <3>2, <3>3, ExceptSeq
    <3>5. \A j \in DOMAIN s : s[j].trigger = "retry_sync" => record.status # "none"
      BY <1>1, <3>2, <3>4 DEF RecordFirst
    <3>6. tasks' = WithTask(s, t)
      BY <2>4 DEF t
    <3> HIDE DEF s
    <3> QED
      BY <2>2, <3>1, <3>4, <3>5, <3>6, FirstAdded
  <2>5. /\ "completed" \in ClosedStatus /\ "cancelled" \in ClosedStatus
        /\ "cancelled" \in PendingStatus \cup ClosedStatus
        /\ "submitted" \in PendingStatus \cup ClosedStatus
        /\ "message" \in Trigger \ {"retry_sync"} /\ "resume" \in Trigger \ {"retry_sync"}
        /\ Question(tasks[i].third) \in Actions
    BY <2>3 DEF ClosedStatus, PendingStatus, Trigger, Actions
  <2> QED
    BY <2>1, <2>3, <2>4, <2>5 DEF ResumeCancel, ResumeReply, ResumeApprove
<1>7. ASSUME NEW i \in poller.queue, Fetch(i) PROVE RecordFirst'
  <2>1. UNCHANGED record /\ (SameTriggers \/ UNCHANGED tasks)
    BY <1>7, StatusOnly
       DEF Fetch, DropCancelled, CallFails, StillRunning, Asked, Ended, SettleHead, outcome
  <2> QED
    BY <1>2, <2>1, FirstStays
<1>8. ASSUME Statement PROVE RecordFirst'
  <2>1. \/ UNCHANGED tasks
        \/ SameTriggers
    BY <1>8, StatusOnly, MarkOnly
       DEF Statement, ReplaceDrafts, InsertDraft, Preview, Complete, LockDraft, MarkConfirming,
           InsertRecord, DuplicateRecord, InsertSync, SnapshotFails, InsertDisplay, MarkConfirmed,
           UpdateSync, UpdateRecord, UpdateDisplay, Settle
  <2>2. record' = record \/ record'.status # "none"
    <3>1. RecordStatus # "none"
      BY DEF RecordStatus
    <3> QED
      BY <1>8, <3>1
         DEF Statement, ReplaceDrafts, InsertDraft, Preview, Mark, Complete, LockDraft,
             MarkConfirming, InsertRecord, DuplicateRecord, InsertSync, SnapshotFails,
             InsertDisplay, MarkConfirmed, UpdateSync, UpdateRecord, UpdateDisplay, outcome,
             IndInv, RecordOK, RecordRow
  <2> QED
    BY <2>1, <2>2, FirstStays DEF SameTriggers
<1> QED
  BY <1>2, <1>3, <1>4, <1>5, <1>6, <1>7, <1>8
     DEF Next, User, Poll, Third, CreateSession, CancelCheck, CancelWrite, Scan, ThirdAsks,
         ThirdEnds, Rollback, Crash, rows, outcome, vars

\* Whoever leaves record and display alone, and does not come to stand between them.
LEMMA ShownStays ==
    ASSUME Shown, UNCHANGED << record, display >>, faults' = 0 => faults = 0,
           poller.pc \notin Between, poller'.pc \notin Between,
           poller'.pc \in {"update_sync", "update_record"} => record.status # "none"
    PROVE  Shown'
BY DEF Shown, Between

LEMMA RestIsOutside ==
    ASSUME NEW q, poller' = Rest(q)
    PROVE  poller'.pc \in {"idle", "next"}
BY DEF Rest, Idle

LEMMA ShownFetch ==
    ASSUME IndInv, DisplayInv, NEW i \in poller.queue, Fetch(i)
    PROVE  Shown'
<1>1. /\ UNCHANGED << record, display >> /\ poller.pc = "next"
      /\ faults' = faults \/ faults' = faults + 1
  BY DEF Fetch, DropCancelled, CallFails, StillRunning, Asked, Ended, Reading, First, outcome
<1>2. faults' = 0 => faults = 0
  BY <1>1 DEF IndInv, RowOK
<1>3. /\ poller'.pc \in {"idle", "next", "replace", "mark", "lock", "update_sync"}
      /\ poller'.pc = "update_sync" => tasks[i].trigger = "retry_sync"
  <2>1. poller \in Poller
    BY DEF IndInv, PollerOK
  <2>2. ASSUME NEW pc, Work(i, pc) PROVE poller'.pc = pc
    BY <2>1, <2>2 DEF Work, Poller
  <2>3. ASSUME NEW st, SettleHead(i, st) PROVE poller'.pc \in {"idle", "next"}
    BY <2>3, RestIsOutside DEF SettleHead
  <2>4. CASE DropCancelled(i) \/ CallFails(i) \/ StillRunning(i)
    BY <2>3, <2>4 DEF DropCancelled, CallFails, StillRunning
  <2>5. CASE Asked(i)
    BY <2>2, <2>3, <2>5 DEF Asked
  <2>6. CASE Ended(i)
    <3>1. CASE tasks[i].trigger = "message"
      BY <2>2, <2>3, <2>6, <3>1 DEF Ended
    <3>2. CASE tasks[i].trigger = "retry_sync"
      BY <2>2, <2>3, <2>6, <3>2 DEF Ended
    <3>3. CASE tasks[i].trigger \notin {"message", "retry_sync"}
      BY <2>2, <2>3, <2>6, <3>3 DEF Ended
    <3> QED
      BY <3>1, <3>2, <3>3
  <2> QED
    BY <2>4, <2>5, <2>6 DEF Fetch
<1>4. i \in DOMAIN tasks
  BY DEF IndInv, PollerOK, Pending
<1>5. poller'.pc = "update_sync" => record.status # "none"
  BY <1>3, <1>4 DEF DisplayInv, RecordFirst
<1>6. poller.pc \notin Between /\ poller'.pc \notin Between /\ poller'.pc # "update_record"
  BY <1>1, <1>3 DEF Between
<1> QED
  BY <1>1, <1>2, <1>5, <1>6, ShownStays DEF DisplayInv

LEMMA ShownStatement ==
    ASSUME IndInv, DisplayInv, Statement
    PROVE  Shown'
<1>1. poller \in Poller /\ faults \in Nat /\ record \in RecordRow
  BY ConstantsAssumption DEF IndInv, PollerOK, RowOK, RecordOK
<1>2. ASSUME NEW pc, Goto(pc) PROVE poller'.pc = pc /\ poller'.saw = poller.saw
  BY <1>1, <1>2 DEF Goto, Poller
<1>3. CASE ReplaceDrafts \/ Preview \/ LockDraft \/ MarkConfirming \/ MarkConfirmed
  <2>1. /\ UNCHANGED << record, display, faults >>
        /\ poller.pc \in {"replace", "preview", "lock", "confirming", "confirmed"}
        /\ poller'.pc \in {"insert", "mark", "complete", "confirming", "record"}
    BY <1>2, <1>3 DEF ReplaceDrafts, Preview, LockDraft, MarkConfirming, MarkConfirmed, outcome
  <2> QED
    BY <2>1, ShownStays DEF Between, DisplayInv
<1>4. CASE InsertDraft
  <2>1. /\ UNCHANGED << record, display, faults >> /\ poller.pc = "insert" /\ poller'.pc = "preview"
    BY <1>1, <1>4 DEF InsertDraft, outcome, Poller
  <2> QED
    BY <2>1, ShownStays DEF Between, DisplayInv
<1>5. CASE Mark \/ Complete \/ DuplicateRecord
  <2>1. /\ UNCHANGED << record, display, faults >>
        /\ poller.pc \in {"mark", "complete", "record"}
        /\ poller'.pc \in {"idle", "next"}
    BY <1>5, RestIsOutside DEF Mark, Complete, DuplicateRecord, Settle, outcome
  <2> QED
    BY <2>1, ShownStays DEF Between, DisplayInv
<1>6. CASE SnapshotFails
  <2>1. faults' = faults + 1 /\ poller'.pc \in {"idle", "next"}
    BY <1>6, RestIsOutside DEF SnapshotFails, Settle
  <2> QED
    BY <1>1, <2>1 DEF Shown
<1>7. CASE InsertRecord
  <2>1. /\ poller.pc = "record" /\ record.status = "none" /\ record'.status = RecordStatus
        /\ UNCHANGED << display, faults >>
        /\ poller'.pc = "sync" /\ poller'.saw = poller.saw
    BY <1>2, <1>7 DEF InsertRecord
  <2>2. RecordStatus' = RecordStatus
    BY <2>1 DEF RecordStatus
  <2> QED
    BY <2>1, <2>2 DEF DisplayInv, Shown, Between
<1>8. CASE InsertSync
  <2>1. /\ poller.pc = "sync" /\ poller'.pc = "display" /\ poller'.saw = poller.saw
        /\ UNCHANGED << record, display, faults >>
    BY <1>2, <1>8 DEF InsertSync
  <2>2. RecordStatus' = RecordStatus
    BY <2>1 DEF RecordStatus
  <2> QED
    BY <2>1, <2>2 DEF DisplayInv, Shown, Between
<1>9. CASE InsertDisplay
  <2>1. /\ poller.pc = "display" /\ poller'.pc = "confirmed" /\ display' = RecordStatus
        /\ UNCHANGED << record, faults >>
    BY <1>2, <1>9 DEF InsertDisplay
  <2> QED
    BY <2>1 DEF DisplayInv, Shown, Between
<1>10. CASE UpdateSync
  <2>1. /\ poller.pc = "update_sync" /\ poller'.pc = "update_record"
        /\ UNCHANGED << record, display, faults >>
    BY <1>2, <1>10 DEF UpdateSync
  <2> QED
    BY <2>1 DEF DisplayInv, Shown, Between
<1>11. CASE UpdateRecord
  <2>1. /\ poller.pc = "update_record" /\ poller'.pc = "update_display" /\ poller'.saw = poller.saw
        /\ record' = [record EXCEPT !.status = RecordStatus]
        /\ UNCHANGED << display, faults >>
    BY <1>2, <1>11 DEF UpdateRecord
  <2>2. RecordStatus' = RecordStatus /\ record'.status = RecordStatus /\ RecordStatus # "none"
    BY <1>1, <2>1 DEF RecordStatus, RecordRow
  <2> QED
    BY <2>1, <2>2 DEF DisplayInv, Shown, Between
<1>12. CASE UpdateDisplay
  <2>1. /\ poller.pc = "update_display" /\ poller'.pc \in {"idle", "next"}
        /\ display' = IF display = "none" THEN "none" ELSE RecordStatus
        /\ UNCHANGED << record, faults >>
    BY <1>12, RestIsOutside DEF UpdateDisplay, Settle
  <2> QED
    BY <2>1 DEF DisplayInv, Shown, Between
<1> QED
  BY <1>3, <1>4, <1>5, <1>6, <1>7, <1>8, <1>9, <1>10, <1>11, <1>12 DEF Statement

LEMMA DisplayHolds == Spec => []DisplayInv
<1>1. Init => DisplayInv
  BY DEF Init, DisplayInv, RecordFirst, Shown, Between, Idle
<1>2. IndInv /\ DisplayInv /\ [Next]_vars => DisplayInv'
  <2> SUFFICES ASSUME IndInv, DisplayInv, [Next]_vars PROVE Shown'
    BY RecordFirstStep DEF DisplayInv
  <2>1. ASSUME UNCHANGED << record, display, poller >>, faults' = 0 => faults = 0 PROVE Shown'
    <3>1. RecordStatus' = RecordStatus
      BY <2>1 DEF RecordStatus
    <3> QED
      BY <2>1, <3>1 DEF DisplayInv, Shown, Between
  <2>2. CASE User \/ Third \/ UNCHANGED vars
    <3>1. UNCHANGED << record, display, poller, faults >>
      BY <2>2 DEF User, Third, CreateSession, SendMessage, Confirm, Resume, ResumeCancel,
                  ResumeReply, ResumeApprove, CancelCheck, CancelWrite, RetrySync, ThirdAsks,
                  ThirdEnds, rows, outcome, vars
    <3> QED
      BY <2>1, <3>1
  <2>3. CASE Rollback
    <3>1. UNCHANGED << record, display, poller >> /\ faults' = faults + 1 /\ faults \in Nat
      BY <2>3, ConstantsAssumption DEF Rollback, rows, IndInv, RowOK
    <3> QED
      BY <2>1, <3>1
  <2>4. CASE Crash
    <3>1. poller' = Idle /\ faults' = faults + 1 /\ faults \in Nat
      BY <2>4, ConstantsAssumption DEF Crash, IndInv, RowOK
    <3> QED
      BY <3>1 DEF Shown, Idle
  <2>5. CASE Scan
    <3>1. /\ UNCHANGED << record, display, faults >> /\ poller.pc = "idle" /\ poller'.pc = "next"
      BY <2>5 DEF Scan, rows, Idle
    <3> QED
      BY <3>1, ShownStays DEF Between, DisplayInv
  <2> QED
    BY <2>2, <2>3, <2>4, <2>5, ShownFetch, ShownStatement DEF Next, Poll
<1> QED
  BY AlwaysHolds, <1>1, <1>2, PTL DEF Spec

\* While the poller is not in the middle of a task, and no fault has happened, the display
\* shows the record's status: the two are written by separate statements, first by
\* completeConfirm and then by every retry, and nobody else writes either.
THEOREM DisplayKeepsStep == Spec => []DisplayFollowsRecord
<1>1. DisplayInv => DisplayFollowsRecord
  BY DEF DisplayInv, Shown, Between, DisplayFollowsRecord
<1> QED
  BY DisplayHolds, <1>1, PTL
=============================================================================
