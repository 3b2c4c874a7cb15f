-------------------------- MODULE RollingTaskRefines --------------------------
(* RollingTask keeps the promises of ConfirmedWrites: the refinement mapping. *)
EXTENDS RollingTask

\* The write the row asks about, and whether the row is still in use.
AskedBy(row) == IF row.pending_interaction.kind = "confirm"
                THEN row.pending_interaction.hash ELSE NoHash
InUse(row) == row.status \notin TerminalStatus \cup {"lost"}

Attempts == [i \in DOMAIN dispatched |->
               [write |-> dispatched[i].hash, done |-> dispatched[i].outcome = "success"]]

Promise == INSTANCE ConfirmedWrites WITH
    Writes <- Hash, NoWrite <- NoHash,
    open <- InUse(task), asked <- AskedBy(task),
    approved <- {g.hash : g \in granted}, sent <- Attempts

\* Every step of the executor, seen through its row and what it sends, is a step the promise
\* allows: the loop may save, retry, restart and lose the row in any order, and still the user
\* is asked once about a write, nothing is sent while a question is open or after the end.
KeepsPromise == Promise!Spec
=============================================================================
