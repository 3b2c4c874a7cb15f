----------------------------- MODULE LegacyPlans -----------------------------
(***************************************************************************)
(* Workflow plans of the legacy engine (third): the templates that build   *)
(* them, and the validator every plan passes before it is stored.          *)
(*                                                                         *)
(* A user's text is the set of the keywords it contains, one word standing *)
(* for all those that every keyword list of the code treats alike.         *)
(***************************************************************************)
EXTENDS Integers, Sequences, FiniteSets

READ_SCHEMA_TOOL == "tool_ReadFeishuBitableSchema"
READ_TOOL == "tool_ReadFeishuBitable"
CREATE_TOOL == "tool_CreateFeishuBitableRecord"
UPDATE_TOOL == "tool_UpdateFeishuBitableRecord"
DELETE_TOOL == "tool_DeleteFeishuBitableRecord"
CHANGE_SCHEMA_TOOL == "tool_ChangeFeishuBitableFields"

WRITE_TOOLS == {CREATE_TOOL, UPDATE_TOOL, DELETE_TOOL, CHANGE_SCHEMA_TOOL}
ALLOWED_TOOLS == WRITE_TOOLS \cup {READ_SCHEMA_TOOL, READ_TOOL}

\* The prompts that are registered and enabled for the business agents.
AgentCatalog == {"parse_feishu_record.v1", "parse_record_draft.v1",
                 "search_feishu_record.v1", "parse_feishu_schema_change.v1"}

-----------------------------------------------------------------------------
(* What a text asks for, by its keywords.                                  *)

Words == {
    "draft",                        \* a record draft
    "delete", "clear",              \* delete, remove; clear up
    "change", "revise",             \* change to, adjust; edit, update
    "rename",
    "add", "keep",                  \* add, create; save, note down
    "into",                         \* write into, sync to: with its target
    "field", "column",              \* field; column, structure, schema
    "period",                       \* daily, weekly, monthly
    "sheet", "feishu",              \* (multi-dimensional) table; Feishu
    "then write" }                  \* then write, add one record

Says(text, words) == text \cap words # {}

DRAFT_KEYWORDS == {"draft"}
DELETE_KEYWORDS == {"delete", "clear"}
UPDATE_KEYWORDS == {"change", "revise"}
CREATE_KEYWORDS == {"add", "keep", "into"}
SCHEMA_KEYWORDS == {"field", "column"}

LooksLikeSchemaChange(text) ==
    \/ "rename" \in text /\ "field" \in text
    \/ Says(text, SCHEMA_KEYWORDS) /\ Says(text, {"add", "delete", "rename", "change"})
    \/ "period" \in text /\ Says(text, SCHEMA_KEYWORDS \cup {"sheet"})

LooksLikeRecordWriteAfterSchema(text) == "then write" \in text \/ {"into", "feishu"} \subseteq text

\* Deletion comes before update, and update before creation: a text that contains words of
\* several lists is taken for the first.
DetectIntent(text) ==
    CASE Says(text, DELETE_KEYWORDS) -> "delete_feishu_record"
      [] ~Says(text, DELETE_KEYWORDS) /\ Says(text, UPDATE_KEYWORDS) -> "update_feishu_record"
      [] ~Says(text, DELETE_KEYWORDS \cup UPDATE_KEYWORDS) /\ Says(text, CREATE_KEYWORDS)
           -> "create_feishu_record"
      [] OTHER -> "read_feishu_records"

DetectTemplate(text) ==
    IF Says(text, DRAFT_KEYWORDS) THEN "record_draft"
    ELSE IF LooksLikeSchemaChange(text)
      THEN IF LooksLikeRecordWriteAfterSchema(text)
             THEN "change_schema_then_create_record" ELSE "change_schema"
      ELSE CASE DetectIntent(text) = "delete_feishu_record" -> "delete_record"
             [] DetectIntent(text) = "update_feishu_record" -> "update_record"
             [] DetectIntent(text) = "create_feishu_record" -> "create_record"
             [] OTHER -> "read_records"

LooksLikeWriteToFeishu(text) == Says(text, {"feishu", "sheet"}) /\ "into" \in text
LooksLikeFieldDelete(text) == "field" \in text /\ Says(text, DELETE_KEYWORDS)
SchemaRiskLevel(text) == IF LooksLikeFieldDelete(text) THEN "delete" ELSE "write"

-----------------------------------------------------------------------------
(* Steps.  needs: the artifacts it reads; gives: the artifact it saves.    *)

Step(kind, uses, needs, gives) ==
    [kind |-> kind, uses |-> uses, needs |-> needs, gives |-> gives]

ReadSchemaStep(gives) == Step("tool", READ_SCHEMA_TOOL, {}, gives)

ParseRecordPayloadStep(payload, needs) ==
    Step("agent", "parse_feishu_record.v1", needs, payload)

ParseSchemaChangeStep ==
    Step("agent", "parse_feishu_schema_change.v1", {"feishu.table_schema"},
         "feishu.schema_change_payload")

SchemaChangeValidationStep ==
    Step("validation", "", {"feishu.table_schema", "feishu.schema_change_payload"},
         "validation.schema_change_payload")

ConfirmStep(needs, gives) == Step("confirm", "", needs, gives)

ChangeFieldsStep ==
    Step("tool", CHANGE_SCHEMA_TOOL, {"validation.schema_change_payload"},
         "feishu.schema_change_result")

ReadCandidateRecordsStep(payload) ==
    Step("tool", READ_TOOL, {payload}, "feishu.candidate_records")

MatchRecordStep(payload) ==
    Step("agent", "search_feishu_record.v1", {payload, "feishu.candidate_records"},
         "feishu.record_match")

RecordWriteTail(tool, needs) ==
    << Step("validation", "", needs, "validation.write_payload"),
       ConfirmStep({"validation.write_payload"}, "confirmation.write"),
       Step("tool", tool, {"validation.write_payload"}, "write_result") >>

-----------------------------------------------------------------------------
(* Templates.                                                              *)

\* (The artifact that becomes the final answer is left out: it decides no step.)
Plan(template, intent, risk, text, steps) ==
    [template |-> template, intent |-> intent, risk_level |-> risk, original_input |-> text,
     requires_confirmation |-> risk # "read", steps |-> steps]

RecordDraftPlan(text) ==
    Plan("record_draft", "generate_record_draft", "read", text,
         << Step("agent", "parse_record_draft.v1", {}, "record.draft") >>)

ReadPlan(text) ==
    Plan("read_records", "read_feishu_records", "read", text,
         << Step("tool", READ_TOOL, {}, "feishu.records") >>)

WritePlan(text, template, intent, risk, tool, payload) ==
    LET matched == tool \in {UPDATE_TOOL, DELETE_TOOL}
        search == IF matched
                    THEN << ReadCandidateRecordsStep(payload), MatchRecordStep(payload) >>
                    ELSE << >>
        inputs == {"feishu.table_schema", payload}
                    \cup (IF matched THEN {"feishu.record_match"} ELSE {})
    IN  Plan(template, intent, risk, text,
             << ReadSchemaStep("feishu.table_schema"),
                ParseRecordPayloadStep(payload, {"feishu.table_schema"}) >>
             \o search \o RecordWriteTail(tool, inputs))

SchemaChangePlan(text, risk) ==
    Plan("change_schema", "change_feishu_schema", risk, text,
         << ReadSchemaStep("feishu.table_schema"), ParseSchemaChangeStep,
            SchemaChangeValidationStep,
            ConfirmStep({"validation.schema_change_payload"}, "confirmation.schema_change"),
            ChangeFieldsStep, ReadSchemaStep("feishu.table_schema_after") >>)

SchemaThenCreatePlan(text, risk) ==
    Plan("change_schema_then_create_record", "change_feishu_schema_then_create_record", risk, text,
         SchemaChangePlan(text, risk).steps
         \o << ParseRecordPayloadStep("feishu.create_payload", {"feishu.table_schema_after"}) >>
         \o RecordWriteTail(CREATE_TOOL, {"feishu.table_schema_after", "feishu.create_payload"}))

RecordTemplates == {"create_record", "update_record", "delete_record"}
Templates == RecordTemplates \cup
    {"record_draft", "read_records", "change_schema", "change_schema_then_create_record"}

\* risk is what the LLM said of the plan, "" if it said nothing; only the two templates that
\* change fields look at it.
BuildPlanFromTemplate(template, text, risk) ==
    LET schemaRisk == IF risk = "" THEN SchemaRiskLevel(text) ELSE risk IN
    CASE template = "record_draft" -> RecordDraftPlan(text)
      [] template = "read_records" -> ReadPlan(text)
      [] template = "create_record" ->
            WritePlan(text, template, "create_feishu_record", "write", CREATE_TOOL, "feishu.create_payload")
      [] template = "update_record" ->
            WritePlan(text, template, "update_feishu_record", "write", UPDATE_TOOL, "feishu.update_payload")
      [] template = "delete_record" ->
            WritePlan(text, template, "delete_feishu_record", "delete", DELETE_TOOL, "feishu.delete_payload")
      [] template = "change_schema" -> SchemaChangePlan(text, schemaRisk)
      [] template = "change_schema_then_create_record" -> SchemaThenCreatePlan(text, schemaRisk)

\* Without an LLM the keywords choose the template.
RuleBasedPlan(text) == BuildPlanFromTemplate(DetectTemplate(text), text, "")

\* An LLM plan for a text whose keywords ask for a record write, and not for a change of
\* fields, is replaced by the template unless it names that template and its intent itself;
\* its steps are then taken as they are.
GuardLlmPlan(text, plan) ==
    LET template == DetectTemplate(text)
        expected == BuildPlanFromTemplate(template, text, "")
    IN  IF /\ template \in RecordTemplates /\ ~LooksLikeSchemaChange(text)
           /\ plan.template # template \/ plan.intent # expected.intent
          THEN expected ELSE plan

-----------------------------------------------------------------------------
(* The validator.                                                          *)

\* A plan as the validator reads it: anything whose steps are no list of objects is refused.
IsPlan(plan) ==
    /\ DOMAIN plan = {"template", "intent", "risk_level", "original_input",
                      "requires_confirmation", "steps"}
    /\ plan.steps \in Seq({plan.steps[i] : i \in DOMAIN plan.steps})
    /\ \A i \in DOMAIN plan.steps : DOMAIN plan.steps[i] = {"kind", "uses", "needs", "gives"}

IsWrite(step) == step.kind = "tool" /\ step.uses \in WRITE_TOOLS

WriteToolsSeen(plan) == {plan.steps[i].uses : i \in {j \in DOMAIN plan.steps : IsWrite(plan.steps[j])}}

\* Step i is of a known kind, uses something registered, and reads what was saved before it.
ValidStep(steps, i) ==
    /\ steps[i].kind \in {"tool", "agent", "validation", "confirm"}
    /\ steps[i].kind = "tool" => steps[i].uses \in ALLOWED_TOOLS
    /\ steps[i].kind = "agent" => steps[i].uses \in AgentCatalog
    /\ steps[i].needs \subseteq {steps[j].gives : j \in 1..(i - 1)}

\* Only the presence of the three kinds is looked at, not where they stand.
ValidWritePlan(plan) ==
    /\ plan.requires_confirmation
    /\ {"agent", "validation", "confirm"} \subseteq {plan.steps[i].kind : i \in DOMAIN plan.steps}

ValidUpdateDeleteMatchFlow(steps) ==
    /\ \E i \in DOMAIN steps : /\ steps[i].uses = READ_TOOL
                               /\ steps[i].gives = "feishu.candidate_records"
    /\ \E i \in DOMAIN steps : /\ steps[i].uses = "search_feishu_record.v1"
                               /\ steps[i].gives = "feishu.record_match"
    /\ \E i \in DOMAIN steps : /\ steps[i].kind = "validation"
                               /\ "feishu.record_match" \in steps[i].needs

\* The first of the given places, 0 if there is none.
FirstOf(places) == IF places = {} THEN 0 ELSE CHOOSE i \in places : \A j \in places : i <= j

ValidSchemaChangeFlow(plan) ==
    LET steps == plan.steps
        payload == FirstOf({i \in DOMAIN steps : /\ steps[i].uses = "parse_feishu_schema_change.v1"
                                                 /\ steps[i].gives = "feishu.schema_change_payload"})
        checked == FirstOf({i \in DOMAIN steps : /\ steps[i].kind = "validation"
                                                 /\ steps[i].gives = "validation.schema_change_payload"})
        confirm == FirstOf({i \in DOMAIN steps : /\ steps[i].kind = "confirm"
                                                 /\ "validation.schema_change_payload" \in steps[i].needs})
        change == FirstOf({i \in DOMAIN steps : /\ steps[i].uses = CHANGE_SCHEMA_TOOL
                                                /\ "validation.schema_change_payload" \in steps[i].needs})
        refresh == FirstOf({i \in DOMAIN steps : /\ steps[i].uses = READ_SCHEMA_TOOL
                                                 /\ steps[i].gives = "feishu.table_schema_after"})
        parse == FirstOf({i \in DOMAIN steps : /\ steps[i].uses = "parse_feishu_record.v1"
                                               /\ "feishu.table_schema_after" \in steps[i].needs})
    IN  /\ 0 < payload /\ payload < checked /\ checked < confirm
        /\ confirm < change /\ change < refresh
        /\ LooksLikeFieldDelete(plan.original_input) => plan.risk_level = "delete"
        /\ plan.template = "change_schema_then_create_record" => parse > 0
        /\ parse > 0 => refresh < parse

ValidateWorkflowPlan(plan) ==
    LET tools == WriteToolsSeen(plan) IN
    /\ plan.steps # << >>
    /\ plan.intent = "read_feishu_records" => ~LooksLikeWriteToFeishu(plan.original_input)
    /\ \A i \in DOMAIN plan.steps : ValidStep(plan.steps, i)
    /\ plan.template \in Templates \cup {""}
    /\ tools # {} => ValidWritePlan(plan)
    /\ tools \cap {UPDATE_TOOL, DELETE_TOOL} # {} => ValidUpdateDeleteMatchFlow(plan.steps)
    /\ CHANGE_SCHEMA_TOOL \in tools => ValidSchemaChangeFlow(plan)

\* What the validation steps save is the request of a write; other names for it are replaced.
RequestKeys == {"validation.write_payload", "validation.schema_change_payload"}

NormalizeWriteValidationArtifact(plan) ==
    LET steps == plan.steps
        aliases == {steps[i].gives : i \in {j \in DOMAIN steps : steps[j].kind = "validation"}}
                     \ RequestKeys
        renamed(step) ==
            [step EXCEPT !.gives = IF step.kind = "validation" /\ @ \in aliases
                                     THEN "validation.write_payload" ELSE @,
                         !.needs = IF @ \cap aliases = {} THEN @
                                     ELSE (@ \ aliases) \cup {"validation.write_payload"}]
    IN  IF WriteToolsSeen(plan) = {} THEN plan
        ELSE [plan EXCEPT !.steps = [i \in DOMAIN steps |-> renamed(steps[i])]]
==============================================================================
