-------------------------- MODULE MCLegacyWorkflow --------------------------
(* Instances of LegacyWorkflow for TLC. *)
EXTENDS LegacyWorkflow

\* "Write it into the table", "add a column, then write a record", "delete a field".
Write == {"into", "sheet"}
AddThenWrite == {"add", "column", "then write"}
DeleteField == {"delete", "field"}

Create == {Write}
AnyText == {Write, AddThenWrite, DeleteField}

\* An LLM that names a template or writes its own steps.  To "write": the create plan under
\* another name of the request, one that asks for no confirmation, one that reads an artifact
\* nobody has saved, one that writes twice, a read.  To the others: the template, for the
\* deletion of a field under its own risk or a lower one.
HandWritten(text) ==
    LET create == BuildPlanFromTemplate("create_record", text, "")
        renamed == [create EXCEPT !.steps[3].gives = "validation.create",
                                  !.steps[4].needs = {"validation.create"},
                                  !.steps[5].needs = {"validation.create"}]
        without(i) == [create EXCEPT !.steps = SubSeq(@, 1, i - 1) \o SubSeq(@, i + 1, Len(@))]
        twice == [create EXCEPT !.steps = Append(@, [@[5] EXCEPT !.gives = "write_result_2"])]
    IN  CASE text = Write -> {renamed, without(4), without(2), twice,
                              BuildPlanFromTemplate("read_records", text, "")}
          [] text = AddThenWrite ->
                {BuildPlanFromTemplate("change_schema_then_create_record", text, "")}
          [] text = DeleteField ->
                {BuildPlanFromTemplate("change_schema", text, risk) : risk \in {"", "write"}}

\* An LLM that puts the write in front of the question.
EarlyWrite(text) ==
    LET create == BuildPlanFromTemplate("create_record", text, "") IN
    {[create EXCEPT !.steps[4] = create.steps[5], !.steps[5] = create.steps[4]]}

NoPlans(text) == {}
NoFault == {}
AnyFault == {"crash", "api", "slow_claim", "slow_lock"}
CrashOnly == {"crash"}
=============================================================================
