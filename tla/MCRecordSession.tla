--------------------------- MODULE MCRecordSession ---------------------------
(* Instances of RecordSession for TLC.                                     *)
EXTENDS RecordSession, TLC

AllFaults == {"rollback", "network", "crash"}
CrashesOnly == {"crash"}

\* The client's ids are opaque: nothing orders or names them.
IdSymmetry == Permutations(Messages) \cup Permutations(Confirms) \cup Permutations(Requests)
=============================================================================
