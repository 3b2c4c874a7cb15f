---------------------------- MODULE MCRollingTask ----------------------------
(* Instances of RollingTask for TLC.                                       *)
EXTENDS RollingTaskRefines, TLC

\* The planner may update one of two records, and has to find it first.
UpdateActions == {"prepare_update_record", "read_records", "match_record",
                  "update_record", "ask_user", "finish"}

\* The planner prepares, writes, asks and repeats: enough for retries and steps to run out.
RetryActions == {"prepare_create_record", "create_record", "read_table_schema", "match_record",
                 "ask_user", "finish"}

BothOperations == {"general", "draft_generate"}
GeneralOnly == {"general"}

\* Records are interchangeable: no definition orders or names them.
RecordSymmetry == Permutations(Records)
=============================================================================
