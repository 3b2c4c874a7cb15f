---------------------------- MODULE LegacyWorkflow ----------------------------
(***************************************************************************)
(* The legacy engine (third): the API that submits and resumes sessions,   *)
(* the Redis stream that carries them to the workers, the lock of a        *)
(* session, and the executor that runs a session's plan step by step on    *)
(* the rows in MySQL.                                                      *)
(*                                                                         *)
(* Every database and Redis call commits by itself, so a worker's step in  *)
(* this model ends at such a call and a worker can die after each.  Time   *)
(* is abstracted: a message nobody works on becomes claimable at some      *)
(* moment, the lock of a dead worker expires at some moment.  That a       *)
(* worker which is merely slow loses its message or its lock is a fault.   *)
(***************************************************************************)
EXTENDS LegacyPlans

CONSTANTS
    Sessions,       \* workflow sessions
    Workers,        \* worker processes of the consumer group
    Asked,          \* the users' texts, as sets of keywords
    UseLlm,         \* THIRD_WORKFLOWAGENT_USE_LLM
    LlmPlans(_),    \* plans the LLM may answer a text with
    MaxDeliveries,  \* workflow_max_deliveries (5 in the code)
    Faults,         \* kinds of fault that may happen in this instance
    MaxFaults,      \* bound: faults in one behaviour
    MaxAnswers      \* bound: resume requests

ASSUME ConstantsAssumption ==
    /\ Asked \subseteq SUBSET Words
    /\ UseLlm \in BOOLEAN
    /\ MaxDeliveries \in Nat \ {0}
    /\ Faults \subseteq {"crash", "api", "slow_claim", "slow_lock"}
    /\ MaxFaults \in Nat /\ MaxAnswers \in Nat
    /\ 0 \notin Workers

\* What the LLM answers is at least a plan; any other answer is the plan that fails.
ASSUME LlmPlansAssumption == \A asks \in Asked : \A plan \in LlmPlans(asks) : IsPlan(plan)

VARIABLES
    session,        \* workflow_sessions: status, and the user's text
    plans,          \* workflow_plans of a session, oldest first
    steps,          \* workflow_steps: the status of each step of each plan
    artifacts,      \* keys of the session's session_artifacts
    confirmations,  \* workflow_confirmations of a session, oldest first
    idempotency,    \* workflow_idempotency_keys: status by session text and request
    messages,       \* the stream and its pending list, in the order of the ids
    deadLetters,    \* messages copied to the dead-letter stream
    lock,           \* who set the lock's key; 0 if it is not set (the code stores no owner)
    worker,         \* what each worker is doing
    request,        \* the API request in progress
    answers,        \* resume requests so far
    sent,           \* ghost: writes sent to Feishu
    faults          \* kinds of the faults so far

rows == <<session, plans, steps, artifacts, confirmations, idempotency>>
vars == <<rows, messages, deadLetters, lock, worker, request, answers, sent, faults>>

SessionStatus == {"none", "queued", "running", "waiting_user", "success", "failed", "cancelled"}

Off == [pc |-> "off", msg |-> 0, plan |-> 0, step |-> 0, outcome |-> "ok"]
NoRequest == [pc |-> "none", of |-> 0, confirmation |-> 0, approved |-> FALSE]

Init ==
    /\ session = [s \in Sessions |-> [status |-> "none", asks |-> {}]]
    /\ plans = [s \in Sessions |-> << >>]
    /\ steps = [s \in Sessions |-> << >>]
    /\ artifacts = [s \in Sessions |-> {}]
    /\ confirmations = [s \in Sessions |-> << >>]
    /\ idempotency = [k \in Asked \X RequestKeys |-> "none"]
    /\ messages = << >>
    /\ deadLetters = {}
    /\ lock = [s \in Sessions |-> 0]
    /\ worker = [w \in Workers |-> Off]
    /\ request = NoRequest
    /\ answers = 0
    /\ sent = << >>
    /\ faults = << >>

Of(w) == messages[worker[w].msg].of
Status(s, status) == session' = [session EXCEPT ![s].status = status]
Goto(w, pc) == worker' = [worker EXCEPT ![w].pc = pc]
SetStep(s, p, i, status) == steps' = [steps EXCEPT ![s][p][i] = status]

Fault(kind) ==
    /\ kind \in Faults /\ Len(faults) < MaxFaults
    /\ faults' = Append(faults, kind)

-----------------------------------------------------------------------------
(* The API.  One request at a time; each of its statements is a step.      *)

Enqueued(s) == messages' = Append(messages, [of |-> s, count |-> 0, state |-> "new"])

\* POST /v1/workflows/invoke: the row is inserted, then the message is added.
Invoke(s, asks) ==
    /\ request = NoRequest /\ session[s].status = "none"
    /\ session' = [session EXCEPT ![s] = [status |-> "queued", asks |-> asks]]
    /\ request' = [NoRequest EXCEPT !.pc = "enqueue", !.of = s]
    /\ UNCHANGED <<plans, steps, artifacts, confirmations, idempotency, messages,
                   deadLetters, lock, worker, answers, sent, faults>>

\* A user sees an open confirmation while the session waits for her; one that was answered
\* may be answered again.  The endpoint looks at neither status.
Shown(s, c) == confirmations[s][c].status # "waiting" \/ session[s].status = "waiting_user"

\* POST /v1/workflows/{id}/resume: the answer is stored,
ResumeResolve(s, c, approved) ==
    /\ request = NoRequest /\ answers < MaxAnswers /\ Shown(s, c)
    /\ confirmations' = [confirmations EXCEPT ![s][c].status =
                             IF approved THEN "approved" ELSE "rejected"]
    /\ request' = [pc |-> "step", of |-> s, confirmation |-> c, approved |-> approved]
    /\ answers' = answers + 1
    /\ UNCHANGED <<session, plans, steps, artifacts, idempotency, messages, deadLetters,
                   lock, worker, sent, faults>>

\* ... the confirm step is closed,
ResumeStep ==
    /\ request.pc = "step"
    /\ LET c == confirmations[request.of][request.confirmation] IN
       SetStep(request.of, c.plan, c.step, IF request.approved THEN "success" ELSE "failed")
    /\ request' = [request EXCEPT !.pc = "session"]
    /\ UNCHANGED <<session, plans, artifacts, confirmations, idempotency, messages,
                   deadLetters, lock, worker, answers, sent, faults>>

\* ... the session is set to queued or cancelled,
ResumeSession ==
    /\ request.pc = "session"
    /\ Status(request.of, IF request.approved THEN "queued" ELSE "cancelled")
    /\ request' = IF request.approved THEN [request EXCEPT !.pc = "enqueue"] ELSE NoRequest
    /\ UNCHANGED <<plans, steps, artifacts, confirmations, idempotency, messages,
                   deadLetters, lock, worker, answers, sent, faults>>

\* ... and an approved session is sent to the workers again.
Enqueue ==
    /\ request.pc = "enqueue"
    /\ Enqueued(request.of)
    /\ request' = NoRequest
    /\ UNCHANGED <<rows, deadLetters, lock, worker, answers, sent, faults>>

-----------------------------------------------------------------------------
(* The worker: one message.                                                *)

BusyWith(m) == \E w \in Workers : worker[w].pc # "off" /\ worker[w].msg = m

\* Fault: the number of deliveries is not compared with the limit.
DeliverForever(w, m) ==
    /\ messages' = [messages EXCEPT ![m].count = @ + 1, ![m].state = "pending"]
    /\ worker' = [worker EXCEPT ![w] = [Off EXCEPT !.pc = "lock", !.msg = m]]

\* A delivery counts, and beyond the limit the message is to be buried.  Counting stops there.
Deliver(w, m) ==
    LET count == IF messages[m].count > MaxDeliveries THEN messages[m].count
                 ELSE messages[m].count + 1 IN
    /\ messages' = [messages EXCEPT ![m].count = count, ![m].state = "pending"]
    /\ worker' = [worker EXCEPT ![w] =
                     [Off EXCEPT !.pc = IF count > MaxDeliveries THEN "bury" ELSE "lock",
                                 !.msg = m]]

\* Fault: a message at the limit is not claimed any more, so it is never buried.
ClaimBelowLimit(w) ==
    /\ worker[w].pc = "off"
    /\ \E m \in DOMAIN messages :
          /\ messages[m].state = "pending" /\ messages[m].count < MaxDeliveries
          /\ IF BusyWith(m) THEN Fault("slow_claim") ELSE UNCHANGED faults
          /\ Deliver(w, m)
    /\ UNCHANGED <<rows, deadLetters, lock, request, answers, sent>>

\* XAUTOCLAIM: a pending message that was not acknowledged for workflow_pending_idle_ms.
ConsumeClaimed(w) ==
    /\ worker[w].pc = "off"
    /\ \E m \in DOMAIN messages :
          /\ messages[m].state = "pending"
          /\ IF BusyWith(m) THEN Fault("slow_claim") ELSE UNCHANGED faults
          /\ Deliver(w, m)
    /\ UNCHANGED <<rows, deadLetters, lock, request, answers, sent>>

\* XREADGROUP: the oldest message not delivered yet.
ConsumeNew(w) ==
    /\ worker[w].pc = "off"
    /\ LET new == {m \in DOMAIN messages : messages[m].state = "new"} IN
       /\ new # {}
       /\ Deliver(w, FirstOf(new))
    /\ UNCHANGED <<rows, deadLetters, lock, request, answers, sent, faults>>

Ack(m) == messages' = [messages EXCEPT ![m].state = "acked"]

\* A message delivered too often: the session fails,
BuryFail(w) ==
    /\ worker[w].pc = "bury"
    /\ Status(Of(w), "failed")
    /\ Goto(w, "dead_letter")
    /\ UNCHANGED <<plans, steps, artifacts, confirmations, idempotency, messages,
                   deadLetters, lock, request, answers, sent, faults>>

\* ... the message is copied to the dead-letter stream,
BuryCopy(w) ==
    /\ worker[w].pc = "dead_letter"
    /\ deadLetters' = deadLetters \cup {worker[w].msg}
    /\ Goto(w, "ack_dead")
    /\ UNCHANGED <<rows, messages, lock, request, answers, sent, faults>>

\* ... and acknowledged.
BuryAck(w) ==
    /\ worker[w].pc = "ack_dead"
    /\ Ack(worker[w].msg)
    /\ worker' = [worker EXCEPT ![w] = Off]
    /\ UNCHANGED <<rows, deadLetters, lock, request, answers, sent, faults>>

\* Fault: the finally clause that releases the lock covers the worker that did not get it.
AcquireOrRelease(w) ==
    /\ worker[w].pc = "lock"
    /\ IF lock[Of(w)] = 0
         THEN lock' = [lock EXCEPT ![Of(w)] = w] /\ Goto(w, "start")
         ELSE lock' = [lock EXCEPT ![Of(w)] = 0] /\ worker' = [worker EXCEPT ![w] = Off]
    /\ UNCHANGED <<rows, messages, deadLetters, request, answers, sent, faults>>

\* Fault: a message whose session is locked is acknowledged instead of left pending.
AcquireOrDrop(w) ==
    /\ worker[w].pc = "lock"
    /\ IF lock[Of(w)] = 0
         THEN lock' = [lock EXCEPT ![Of(w)] = w] /\ Goto(w, "start") /\ UNCHANGED messages
         ELSE UNCHANGED lock /\ worker' = [worker EXCEPT ![w] = Off] /\ Ack(worker[w].msg)
    /\ UNCHANGED <<rows, deadLetters, request, answers, sent, faults>>

\* SET NX: a worker that does not get the lock leaves the message pending.
AcquireLock(w) ==
    /\ worker[w].pc = "lock"
    /\ IF lock[Of(w)] = 0
         THEN lock' = [lock EXCEPT ![Of(w)] = w] /\ Goto(w, "start")
         ELSE UNCHANGED lock /\ worker' = [worker EXCEPT ![w] = Off]
    /\ UNCHANGED <<rows, messages, deadLetters, request, answers, sent, faults>>

\* The session has been run: its message is acknowledged,
AckMessage(w) ==
    /\ worker[w].pc = "ack"
    /\ Ack(worker[w].msg)
    /\ Goto(w, "release")
    /\ UNCHANGED <<rows, deadLetters, lock, request, answers, sent, faults>>

\* ... and the lock's key deleted, whoever has set it.
ReleaseLock(w) ==
    /\ worker[w].pc = "release"
    /\ lock' = [lock EXCEPT ![Of(w)] = 0]
    /\ worker' = [worker EXCEPT ![w] = Off]
    /\ UNCHANGED <<rows, messages, deadLetters, request, answers, sent, faults>>

-----------------------------------------------------------------------------
(* The executor.  All of it changes the session's rows only.               *)

Untouched == UNCHANGED <<messages, deadLetters, lock, request, answers, faults>>

PlanOf(w) == plans[Of(w)][worker[w].plan]
StepOf(w) == PlanOf(w).steps[worker[w].step]

\* run_session starts: whatever the session's status was, it is running now.
RunSession(w) ==
    /\ worker[w].pc = "start"
    /\ Status(Of(w), "running")
    /\ Goto(w, "plan")
    /\ UNCHANGED <<plans, steps, artifacts, confirmations, idempotency, sent>> /\ Untouched

\* _ensure_plan: the latest plan of the session, if there is one,
FindPlan(w) ==
    /\ worker[w].pc = "plan"
    /\ LET s == Of(w) IN
       worker' = [worker EXCEPT ![w].plan = Len(plans[s]),
                                ![w].pc = IF plans[s] = << >> THEN "planning" ELSE "pick"]
    /\ UNCHANGED <<rows, sent>> /\ Untouched

\* ... else one of the workflow agent: the keywords name a template, an LLM answers anything.
RawPlans(asks) ==
    IF UseLlm THEN {GuardLlmPlan(asks, plan) : plan \in LlmPlans(asks)}
    ELSE {RuleBasedPlan(asks)}

SavePlan(w) ==
    /\ worker[w].pc = "planning"
    /\ LET s == Of(w) IN
       \E raw \in RawPlans(session[s].asks) :
          LET plan == NormalizeWriteValidationArtifact(raw) IN
          /\ ValidateWorkflowPlan(raw)
          /\ plans' = [plans EXCEPT ![s] = Append(@, plan)]
          /\ steps' = [steps EXCEPT ![s] = Append(@, [i \in DOMAIN plan.steps |-> "pending"])]
          /\ worker' = [worker EXCEPT ![w].plan = Len(plans'[s]), ![w].pc = "pick"]
    /\ UNCHANGED <<session, artifacts, confirmations, idempotency, sent>> /\ Untouched

\* The agent raises, or its plan is not valid.
PlanFails(w) ==
    /\ worker[w].pc = "planning"
    /\ UseLlm
    /\ Goto(w, "fail_session")
    /\ UNCHANGED <<rows, sent>> /\ Untouched

\* Fault: a step that waits for the user is not looked at again.
NextPendingOnly(statuses) == FirstOf({i \in DOMAIN statuses : statuses[i] = "pending"})

\* Fault: a step a dead worker left running is started again.
NextUnfinished(statuses) ==
    FirstOf({i \in DOMAIN statuses : statuses[i] \in {"pending", "running", "waiting_user"}})

\* _next_pending_step: the first step that is pending or waits for the user, 0 if none is.
NextPendingStep(statuses) ==
    FirstOf({i \in DOMAIN statuses : statuses[i] \in {"pending", "waiting_user"}})

\* A confirm step goes its own way; any other is set to running.
PickStep(w) ==
    /\ worker[w].pc = "pick"
    /\ LET s == Of(w)
           p == worker[w].plan
           i == NextPendingStep(steps[s][p])
       IN  IF i = 0
             THEN Goto(w, "finish") /\ UNCHANGED steps
           ELSE IF plans[s][p].steps[i].kind = "confirm"
             THEN /\ worker' = [worker EXCEPT ![w].step = i, ![w].pc = "confirm"]
                  /\ UNCHANGED steps
             ELSE /\ SetStep(s, p, i, "running")
                  /\ worker' = [worker EXCEPT ![w].step = i, ![w].pc = "context"]
    /\ UNCHANGED <<session, plans, artifacts, confirmations, idempotency, sent>> /\ Untouched

\* _build_step_context: a missing artifact fails the session and leaves the step running.
BuildStepContext(w) ==
    /\ worker[w].pc = "context"
    /\ Goto(w, IF StepOf(w).needs \subseteq artifacts[Of(w)] THEN "execute" ELSE "fail_session")
    /\ UNCHANGED <<rows, sent>> /\ Untouched

\* The idempotency key of a step: the text and the request that was validated for it.
HasKey(step) == step.needs \cap RequestKeys # {}
RequestOf(step) ==
    IF "validation.write_payload" \in step.needs THEN "validation.write_payload"
    ELSE "validation.schema_change_payload"
Key(s, request_key) == <<session[s].asks, request_key>>
AlreadyWritten(s, step) == HasKey(step) /\ idempotency[Key(s, RequestOf(step))] = "success"

\* A step without side effects yields its output,
ExecuteStep(w) ==
    /\ worker[w].pc = "execute" /\ ~IsWrite(StepOf(w))
    /\ worker' = [worker EXCEPT ![w].pc = "save", ![w].outcome = "ok"]
    /\ UNCHANGED <<rows, sent>> /\ Untouched

\* ... a write that succeeded before is answered from the idempotency table,
SkipWrite(w) ==
    /\ worker[w].pc = "execute" /\ IsWrite(StepOf(w)) /\ AlreadyWritten(Of(w), StepOf(w))
    /\ worker' = [worker EXCEPT ![w].pc = "save", ![w].outcome = "ok"]
    /\ UNCHANGED <<rows, sent>> /\ Untouched

\* The confirm steps in front of step i of a plan.
GatesBefore(plan, i) == {g \in 1..(i - 1) : plan.steps[g].kind = "confirm"}

\* The answers to step g of plan p, by status.
Answered(s, p, g) ==
    {confirmations[s][c].status : c \in {d \in DOMAIN confirmations[s] :
        confirmations[s][d].plan = p /\ confirmations[s][d].step = g}}

\* ... any other is sent to Feishu; the tools return a failed call as data, not as an error.
SendWrite(w) ==
    /\ worker[w].pc = "execute" /\ IsWrite(StepOf(w)) /\ ~AlreadyWritten(Of(w), StepOf(w))
    /\ LET s == Of(w)
           p == worker[w].plan
           i == worker[w].step
       IN  \E outcome \in {"ok", "error"} :
              /\ worker' = [worker EXCEPT ![w].pc = "save", ![w].outcome = outcome]
              /\ sent' = Append(sent, [of |-> s, plan |-> p, step |-> i, outcome |-> outcome,
                    refused |-> \E g \in GatesBefore(PlanOf(w), i) : "rejected" \in Answered(s, p, g)])
    /\ UNCHANGED rows /\ Untouched

\* The agent, the validation or the tool raises.
StepRaises(w) ==
    /\ worker[w].pc = "execute"
    /\ Goto(w, "fail_step")
    /\ UNCHANGED <<rows, sent>> /\ Untouched

\* _save_step_output: the artifact, and a running key for a validated request that has
\* none (a crash between the two leaves no other trace than a missing key, and a missing
\* key reads like a running one).
SaveStepOutput(w) ==
    /\ worker[w].pc = "save"
    /\ LET s == Of(w)
           saved == StepOf(w).gives
       IN  /\ artifacts' = [artifacts EXCEPT ![s] = @ \cup {saved}]
           /\ idempotency' =
                 IF saved \in RequestKeys /\ idempotency[Key(s, saved)] # "success"
                   THEN [idempotency EXCEPT ![Key(s, saved)] = "running"] ELSE idempotency
    /\ Goto(w, IF IsWrite(StepOf(w)) THEN "mark" ELSE "done")
    /\ UNCHANGED <<session, plans, steps, confirmations, sent>> /\ Untouched

\* Fault: the check of the output's error is inverted.
MarkFailures(w) ==
    /\ worker[w].pc = "mark"
    /\ idempotency' =
          IF HasKey(StepOf(w)) /\ worker[w].outcome = "error"
            THEN [idempotency EXCEPT ![Key(Of(w), RequestOf(StepOf(w)))] = "success"]
            ELSE idempotency
    /\ Goto(w, "done")
    /\ UNCHANGED <<session, plans, steps, artifacts, confirmations, sent>> /\ Untouched

\* _mark_idempotency_success_if_needed
MarkIdempotency(w) ==
    /\ worker[w].pc = "mark"
    /\ idempotency' =
          IF HasKey(StepOf(w)) /\ worker[w].outcome = "ok"
            THEN [idempotency EXCEPT ![Key(Of(w), RequestOf(StepOf(w)))] = "success"]
            ELSE idempotency
    /\ Goto(w, "done")
    /\ UNCHANGED <<session, plans, steps, artifacts, confirmations, sent>> /\ Untouched

StepDone(w) ==
    /\ worker[w].pc = "done"
    /\ SetStep(Of(w), worker[w].plan, worker[w].step, "success")
    /\ Goto(w, "pick")
    /\ UNCHANGED <<session, plans, artifacts, confirmations, idempotency, sent>> /\ Untouched

FailStep(w) ==
    /\ worker[w].pc = "fail_step"
    /\ SetStep(Of(w), worker[w].plan, worker[w].step, "failed")
    /\ Goto(w, "fail_session")
    /\ UNCHANGED <<session, plans, artifacts, confirmations, idempotency, sent>> /\ Untouched

FailSession(w) ==
    /\ worker[w].pc = "fail_session"
    /\ Status(Of(w), "failed")
    /\ Goto(w, "ack")
    /\ UNCHANGED <<plans, steps, artifacts, confirmations, idempotency, sent>> /\ Untouched

\* _run_confirm_step: an open confirmation of the session is used again, else one is created.
RunConfirmStep(w) ==
    /\ worker[w].pc = "confirm"
    /\ LET s == Of(w)
           open == \E c \in DOMAIN confirmations[s] : confirmations[s][c].status = "waiting"
       IN  \/ /\ open
              /\ Goto(w, "await")
              /\ UNCHANGED confirmations
           \/ /\ ~open /\ StepOf(w).needs \subseteq artifacts[s]
              /\ confirmations' = [confirmations EXCEPT ![s] =
                    Append(@, [plan |-> worker[w].plan, step |-> worker[w].step,
                               status |-> "waiting"])]
              /\ Goto(w, "await")
           \/ /\ ~open /\ ~(StepOf(w).needs \subseteq artifacts[s])
              /\ Goto(w, "fail_session")
              /\ UNCHANGED confirmations
    /\ UNCHANGED <<session, plans, steps, artifacts, idempotency, sent>> /\ Untouched

AwaitStep(w) ==
    /\ worker[w].pc = "await"
    /\ SetStep(Of(w), worker[w].plan, worker[w].step, "waiting_user")
    /\ Goto(w, "await_session")
    /\ UNCHANGED <<session, plans, artifacts, confirmations, idempotency, sent>> /\ Untouched

\* (The copy of the confirmation among the artifacts is left out: no step reads it.)
AwaitSession(w) ==
    /\ worker[w].pc = "await_session"
    /\ Status(Of(w), "waiting_user")
    /\ Goto(w, "ack")
    /\ UNCHANGED <<plans, steps, artifacts, confirmations, idempotency, sent>> /\ Untouched

FinishSession(w) ==
    /\ worker[w].pc = "finish"
    /\ Status(Of(w), "success")
    /\ Goto(w, "ack")
    /\ UNCHANGED <<plans, steps, artifacts, confirmations, idempotency, sent>> /\ Untouched

-----------------------------------------------------------------------------
(* Faults and time.                                                        *)

\* A worker process dies and is started again: its message and its lock stay behind.
Crash(w) ==
    /\ worker[w].pc # "off" /\ Fault("crash")
    /\ worker' = [worker EXCEPT ![w] = Off]
    /\ UNCHANGED <<rows, messages, deadLetters, lock, request, answers, sent>>

\* The API process dies in the middle of a request.
ApiCrash ==
    /\ request # NoRequest /\ Fault("api")
    /\ request' = NoRequest
    /\ UNCHANGED <<rows, messages, deadLetters, lock, worker, answers, sent>>

\* The workers that run session s.
Running(s) ==
    {w \in Workers : worker[w].pc \notin {"off", "lock", "bury", "dead_letter", "ack_dead"} /\ Of(w) = s}

\* The lock's time to live ends: after its worker is gone, or (fault) while it works.
LockExpires(s) ==
    /\ lock[s] # 0
    /\ IF lock[s] \in Running(s) THEN Fault("slow_lock") ELSE UNCHANGED faults
    /\ lock' = [lock EXCEPT ![s] = 0]
    /\ UNCHANGED <<rows, messages, deadLetters, worker, request, answers, sent>>

-----------------------------------------------------------------------------
User == \E s \in Sessions :
           \/ \E asks \in Asked : Invoke(s, asks)
           \/ \E c \in DOMAIN confirmations[s], approved \in BOOLEAN : ResumeResolve(s, c, approved)

Api == ResumeStep \/ ResumeSession \/ Enqueue

Execute(w) ==
    \/ RunSession(w) \/ FindPlan(w) \/ SavePlan(w) \/ PlanFails(w) \/ PickStep(w)
    \/ BuildStepContext(w) \/ ExecuteStep(w) \/ SkipWrite(w) \/ SendWrite(w) \/ StepRaises(w)
    \/ SaveStepOutput(w) \/ MarkIdempotency(w) \/ StepDone(w) \/ FailStep(w) \/ FailSession(w)
    \/ RunConfirmStep(w) \/ AwaitStep(w) \/ AwaitSession(w) \/ FinishSession(w)

ProcessOne(w) ==
    \/ ConsumeClaimed(w) \/ ConsumeNew(w) \/ BuryFail(w) \/ BuryCopy(w) \/ BuryAck(w)
    \/ AcquireLock(w) \/ AckMessage(w) \/ ReleaseLock(w) \/ Execute(w)

Next ==
    \/ User \/ Api \/ ApiCrash
    \/ \E w \in Workers : ProcessOne(w) \/ Crash(w)
    \/ \E s \in Sessions : LockExpires(s)

Spec == Init /\ [][Next]_vars

-----------------------------------------------------------------------------
(* Properties.                                                             *)

Happened(kind) == \E i \in DOMAIN faults : faults[i] = kind

StepStatus == {"pending", "running", "waiting_user", "success", "failed"}

\* Every row is of its type, and a message has never been counted beyond the delivery that
\* buries it.
TypeOK ==
    /\ session \in [Sessions -> [status : SessionStatus, asks : SUBSET Words]]
    /\ \A s \in Sessions :
          /\ DOMAIN steps[s] = DOMAIN plans[s]
          /\ \A p \in DOMAIN plans[s] :
                /\ DOMAIN steps[s][p] = DOMAIN plans[s][p].steps
                /\ \A i \in DOMAIN steps[s][p] : steps[s][p][i] \in StepStatus
          /\ \A c \in DOMAIN confirmations[s] :
                confirmations[s][c].status \in {"waiting", "approved", "rejected"}
          /\ lock[s] \in Workers \cup {0}
    /\ \A m \in DOMAIN messages :
          /\ messages[m].of \in Sessions
          /\ messages[m].count \in 0..(MaxDeliveries + 1)
          /\ messages[m].state \in {"new", "pending", "acked"}
    /\ deadLetters \subseteq DOMAIN messages

\* A write is sent only behind a confirm step, and after every confirm step in front of it
\* has been answered: no failure, redelivery or repeated answer carries a run past an open
\* question.  (Of plans that ask first: the validator does not look at the order.)
NoWriteWithoutAnswer ==
    \A k \in DOMAIN sent :
        LET gates == GatesBefore(plans[sent[k].of][sent[k].plan], sent[k].step) IN
        /\ gates # {}
        /\ \A g \in gates :
              Answered(sent[k].of, sent[k].plan, g) \cap {"approved", "rejected"} # {}

\* A step sends its write at most once, whatever is delivered again, unless a lock expired
\* under the worker that held it.
WriteSentOnce ==
    Happened("slow_lock") \/
    \A j, k \in DOMAIN sent :
        j # k => <<sent[j].of, sent[j].step>> # <<sent[k].of, sent[k].step>>

\* Within a session, a request that Feishu has carried out is not sent again by a later step
\* of the plan, unless a worker died before it could note the success.
SuccessIsNotRepeated ==
    Happened("slow_lock") \/ Happened("crash") \/
    \A k \in DOMAIN sent : \A j \in 1..(k - 1) :
        LET earlier == plans[sent[j].of][sent[j].plan].steps[sent[j].step]
            later == plans[sent[k].of][sent[k].plan].steps[sent[k].step]
        IN  sent[j].outcome = "ok" /\ sent[j].of = sent[k].of
            /\ HasKey(earlier) /\ HasKey(later) => RequestOf(earlier) # RequestOf(later)

\* Two workers run a session at the same time only if a lock expired under its holder.
OneWorkerPerSession ==
    Happened("slow_lock") \/ \A s \in Sessions : Cardinality(Running(s)) <= 1

\* Somebody will still work on the session: a message, a worker or a request.
WorkIsComing(s) ==
    \/ \E m \in DOMAIN messages : messages[m].of = s /\ messages[m].state # "acked"
    \/ \E w \in Workers : worker[w].pc # "off" /\ Of(w) = s
    \/ request # NoRequest /\ request.of = s

\* A session that is not final is being worked on, or waits with a question that can be
\* answered.  It may be left behind only by a request that died between its statements, by
\* a message that was buried, or by a refusal that arrived while its question was put again;
\* and when a lock expired under its holder, or when a message was claimed from a slow worker
\* and a worker died: the first acknowledges the message of both, then the second runs the
\* session again and dies.
NoSessionLeftBehind ==
    \/ Happened("slow_lock")
    \/ Happened("slow_claim") /\ Happened("crash")
    \/ Happened("api")
    \/ \A s \in Sessions :
          session[s].status \in {"queued", "running", "waiting_user"} =>
            \/ WorkIsComing(s)
            \/ \E m \in deadLetters : messages[m].of = s
            \/ /\ session[s].status = "waiting_user"
               /\ \E c \in DOMAIN confirmations[s] : confirmations[s][c].status # "approved"

\* The queue never gets stuck: as long as a message is not acknowledged, a worker can take it,
\* go on with it, or will be able to when a lock expires.  (Each delivery counts, so together
\* with TypeOK every message ends: acknowledged after a run, or buried.)
NoMessageStuck ==
    \/ \A m \in DOMAIN messages : messages[m].state = "acked"
    \/ ENABLED ((\E w \in Workers : ProcessOne(w)) \/ (\E s \in Sessions : LockExpires(s)))

\* A request that Feishu has carried out, or is carrying out, is not sent again, by whatever
\* session: a running idempotency key makes others wait, a successful one answers them.
RequestCarriedOutOnce ==
    \A k \in DOMAIN sent : \A j \in 1..(k - 1) :
        LET written(n) == plans[sent[n].of][sent[n].plan].steps[sent[n].step]
        IN  HasKey(written(j)) /\ HasKey(written(k)) /\ sent[j].outcome = "ok" =>
                Key(sent[j].of, RequestOf(written(j))) # Key(sent[k].of, RequestOf(written(k)))

\* A write the user has refused is not sent.
RefusedIsNotWritten == \A k \in DOMAIN sent : ~sent[k].refused
===============================================================================
