------------------------------ MODULE CompatView ------------------------------
(***************************************************************************)
(* What the backend sees of a third_two task: the compatibility API's      *)
(* snapshot, in the words of the third contract (v1).                      *)
(*                                                                         *)
(* A snapshot is put together from two reads of the repository, the row    *)
(* and then the list of artifacts, while handlers go on working.           *)
(***************************************************************************)
EXTENDS RollingTask

VARIABLE viewer  \* a request for the snapshot: what it has of it so far

viewVars == <<vars, viewer>>

-----------------------------------------------------------------------------
(* The row and the artifacts in the words of the contract.                 *)

WorkflowStatus == {"queued", "running", "waiting_user", "success", "failed", "cancelled"}
InteractionKind == {"clarify", "confirm", "choose_candidate"}

LegacyStatus(status) == IF status = "completed" THEN "success" ELSE status

NoConfirmation == [id |-> 0, kind |-> "none", step |-> "none"]

\* The confirmation: the open question, and the decision that waits for its answer.
Confirmation(row) ==
    IF row.pending_interaction = NoInteraction THEN NoConfirmation
    ELSE [id |-> row.pending_interaction.id, kind |-> row.pending_interaction.kind,
          step |-> IF row.pending_interaction.kind = "confirm"
                   THEN row.pending_interaction.hash.decision.name ELSE "none"]

\* The outputs the backend reads: the draft, and the request that would be written.
Outputs == [draft |-> draft, writePayload |-> prepared]
NoOutputs == [draft |-> FALSE, writePayload |-> NoPrepared]

Snapshot(row, outputs) ==
    [status |-> LegacyStatus(row.status), confirmation |-> Confirmation(row), outputs |-> outputs]

\* The response models accept the snapshot; one they refuse is answered with 500.
Accepted(snapshot) ==
    /\ snapshot.status \in WorkflowStatus
    /\ snapshot.confirmation # NoConfirmation => snapshot.confirmation.kind \in InteractionKind
    /\ snapshot.status = "waiting_user" =>
          snapshot.confirmation # NoConfirmation /\ snapshot.confirmation.id # 0

-----------------------------------------------------------------------------
NoView == [pc |-> "none", shown |-> Snapshot(NewTask, NoOutputs)]

ViewInit == Init /\ viewer = NoView

\* GET /v1/workflows/{id}/snapshot reads the row; a task that is not there is a 404,
ReadRow ==
    /\ viewer.pc = "none"
    /\ task.status \notin {"absent", "lost"}
    /\ viewer' = [pc |-> "row", shown |-> Snapshot(task, NoOutputs)]
    /\ UNCHANGED vars

\* Fault: the open question is read again with the artifacts, the status is not.
ReadArtifactsAndQuestion ==
    /\ viewer.pc = "row"
    /\ viewer' = [viewer EXCEPT !.pc = "shown", !.shown.outputs = Outputs,
                                 !.shown.confirmation = Confirmation(task)]
    /\ UNCHANGED vars
\* ... then the artifacts, and answers.
ReadArtifacts ==
    /\ viewer.pc = "row"
    /\ viewer' = [viewer EXCEPT !.pc = "shown", !.shown.outputs = Outputs]
    /\ UNCHANGED vars

\* The backend asks again later.
Leave == viewer.pc = "shown" /\ viewer' = NoView /\ UNCHANGED vars

ViewNext ==
    \/ /\ \E h \in Handlers : Invoke(h) \/ ResumeRead(h) \/ Advance(h)
       /\ UNCHANGED viewer
    \/ Restart /\ viewer' = NoView
    \/ ReadRow \/ ReadArtifacts \/ Leave

ViewSpec == ViewInit /\ [][ViewNext]_viewVars

-----------------------------------------------------------------------------
(* Properties.                                                             *)

\* Whenever it is read, and however the loop goes on between the two reads, a snapshot
\*  - is one the contract accepts: a task shown as waiting shows its question (the backend
\*    takes a refused snapshot for a failed workflow);
\*  - misleads nobody: as long as its confirmation can still be answered, the request it
\*    shows is the one an approval releases;
\*  - is complete: a draft task shown as a success shows its draft.
SnapshotsCanBeActedOn ==
    viewer.pc = "shown" =>
        /\ Accepted(viewer.shown)
        /\ /\ viewer.shown.confirmation.kind = "confirm"
           /\ viewer.shown.confirmation.id = task.pending_interaction.id
           => viewer.shown.outputs.writePayload = task.pending_interaction.hash.prepared
        /\ operation = "draft_generate" /\ viewer.shown.status = "success"
           => viewer.shown.outputs.draft
===============================================================================
