--------------------------- MODULE ConfirmedWrites ---------------------------
(***************************************************************************)
(* What an agent service promises the backend, and the backend its user,   *)
(* about the writes of one task (third_two/README.md, "safety boundaries"):*)
(* a write is shown before it is sent, is sent only if it was approved,    *)
(* never while a question is open, never again once it was done, and never *)
(* after the task has ended.  How the service decides what to write, and   *)
(* how often it tries, is left open.                                       *)
(***************************************************************************)
EXTENDS Naturals, Sequences

CONSTANTS
    Writes,   \* whatever identifies a write
    NoWrite   \* no write: not one of Writes

VARIABLES
    open,      \* the task has not ended
    asked,     \* the write the user is being asked about, or NoWrite
    approved,  \* the writes the user has approved
    sent       \* the attempts, in order: [write, done]

promises == << open, asked, approved, sent >>

Done == {sent[i].write : i \in {j \in DOMAIN sent : sent[j].done}}

Init ==
    /\ open = TRUE
    /\ asked = NoWrite
    /\ approved = {}
    /\ sent = << >>

\* The user is asked about one write at a time, and about none that was approved before.
Ask ==
    /\ open /\ asked = NoWrite
    /\ asked' \in Writes \ approved
    /\ UNCHANGED << open, approved, sent >>

Approve ==
    /\ open /\ asked # NoWrite
    /\ approved' = approved \cup {asked}
    /\ asked' = NoWrite
    /\ UNCHANGED << open, sent >>

\* The user wants something else.
Decline ==
    /\ open /\ asked # NoWrite
    /\ asked' = NoWrite
    /\ UNCHANGED << open, approved, sent >>

Send ==
    /\ open /\ asked = NoWrite
    /\ \E w \in approved \ Done, done \in BOOLEAN :
         sent' = Append(sent, [write |-> w, done |-> done])
    /\ UNCHANGED << open, asked, approved >>

\* Completed, failed, cancelled or lost with the process: an open question is dropped.
End ==
    /\ open
    /\ open' = FALSE
    /\ asked' = NoWrite
    /\ UNCHANGED << approved, sent >>

Next == Ask \/ Approve \/ Decline \/ Send \/ End
Spec == Init /\ [][Next]_promises
=============================================================================
