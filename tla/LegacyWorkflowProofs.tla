------------------------ MODULE LegacyWorkflowProofs ------------------------
(***************************************************************************)
(* The legacy engine, for any number of sessions, workers and faults.      *)
(*                                                                         *)
(* First its rows, queue and lock: every row is of its type and refers to  *)
(* rows that exist, one worker runs a session at a time, and no session is *)
(* left behind.  The invariant is QueueInv, whose parts are proved one by  *)
(* one: TypeInv (the rows), LockInv (who runs a session holds its key),    *)
(* HolderInv (who holds a message), BuriedInv (dead letters) and LeftInv   *)
(* (what a session that is not final waits for).                           *)
(*                                                                         *)
(* Then what it sends to Feishu, for every plan it may store: a write      *)
(* follows the answers to the questions before it, a step sends its write  *)
(* at most once, and a request that was carried out is not repeated.       *)
(***************************************************************************)
EXTENDS LegacyWorkflow, FiniteSetTheorems, SequenceTheorems, WellFoundedInduction, TLAPS

-----------------------------------------------------------------------------
(* Plans.                                                                  *)

Less == {pair \in Nat \X Nat : pair[1] < pair[2]}

LEMMA LessIsWellFounded == IsWellFoundedOn(Less, Nat)
BY NatLessThanWellFounded DEF OpToRel, Less

\* The first of some places is one of them, and none of them is before it.
LEMMA FirstIsFirst ==
    ASSUME NEW places, places \subseteq Nat
    PROVE  /\ FirstOf(places) \in Nat
           /\ places # {} => FirstOf(places) \in places /\ \A j \in places : FirstOf(places) <= j
<1>1. CASE places = {}
  BY <1>1 DEF FirstOf
<1>2. CASE places # {}
  <2>1. PICK i \in places : \A j \in places : ~(<<j, i>> \in Less)
    BY <1>2, LessIsWellFounded, WFMin
  <2>2. ASSUME NEW j \in places PROVE i <= j
    <3>1. i \in Nat /\ j \in Nat
      OBVIOUS
    <3>2. j < i => <<j, i>> \in Less
      BY <3>1 DEF Less
    <3> QED
      BY <2>1, <3>1, <3>2
  <2> DEFINE first == CHOOSE k \in places : \A j \in places : k <= j
  <2>3. first \in places /\ \A j \in places : first <= j
    BY <2>2
  <2>4. FirstOf(places) = first
    BY <1>2 DEF FirstOf
  <2> QED
    BY <2>3, <2>4
<1> QED
  BY <1>1, <1>2

Artifacts == {"feishu.table_schema", "feishu.table_schema_after", "feishu.schema_change_payload",
              "feishu.schema_change_result", "feishu.create_payload", "feishu.update_payload",
              "feishu.delete_payload", "feishu.candidate_records", "feishu.record_match",
              "feishu.records", "record.draft", "validation.write_payload",
              "validation.schema_change_payload", "confirmation.write",
              "confirmation.schema_change", "write_result"}
TemplateStep == [kind : {"tool", "agent", "validation", "confirm"},
                 uses : ALLOWED_TOOLS \cup AgentCatalog \cup {""},
                 needs : SUBSET Artifacts, gives : Artifacts]

\* A write has a question before it.
AsksFirst(list) ==
    \A i \in DOMAIN list : IsWrite(list[i]) => \E g \in 1..(i - 1) : list[g].kind = "confirm"
FromTemplate(list) == list \in Seq(TemplateStep) /\ AsksFirst(list)

LEMMA Joined ==
    ASSUME NEW s, FromTemplate(s), NEW t, FromTemplate(t)
    PROVE  FromTemplate(s \o t)
<1>1. /\ s \o t \in Seq(TemplateStep)
      /\ Len(s \o t) = Len(s) + Len(t)
      /\ \A i \in 1..(Len(s) + Len(t)) : (s \o t)[i] = IF i <= Len(s) THEN s[i] ELSE t[i - Len(s)]
  BY ConcatProperties DEF FromTemplate
<1> DEFINE st == s \o t
<1>2. /\ s \in Seq(TemplateStep) /\ t \in Seq(TemplateStep)
      /\ Len(s) \in Nat /\ Len(t) \in Nat
      /\ DOMAIN s = 1..Len(s) /\ DOMAIN t = 1..Len(t) /\ DOMAIN st = 1..(Len(s) + Len(t))
  BY <1>1 DEF FromTemplate
<1> HIDE DEF st
<1>3. ASSUME NEW i \in DOMAIN st, IsWrite(st[i])
      PROVE  \E g \in 1..(i - 1) : st[g].kind = "confirm"
  <2>1. CASE i <= Len(s)
    <3>1. st[i] = s[i] /\ i \in DOMAIN s
      BY <1>1, <1>2, <2>1 DEF st
    <3>2. PICK g \in 1..(i - 1) : s[g].kind = "confirm"
      BY <1>3, <3>1 DEF FromTemplate, AsksFirst
    <3>3. st[g] = s[g]
      BY <1>1, <1>2, <2>1 DEF st
    <3> QED
      BY <3>2, <3>3
  <2>2. CASE ~(i <= Len(s))
    <3>1. st[i] = t[i - Len(s)] /\ i - Len(s) \in DOMAIN t
      BY <1>1, <1>2, <2>2 DEF st
    <3>2. PICK g \in 1..(i - Len(s) - 1) : t[g].kind = "confirm"
      BY <1>3, <3>1 DEF FromTemplate, AsksFirst
    <3>3. st[g + Len(s)] = t[g] /\ g + Len(s) \in 1..(i - 1)
      BY <1>1, <1>2, <2>2 DEF st
    <3> QED
      BY <3>2, <3>3
  <2> QED
    BY <2>1, <2>2
<1> QED
  BY <1>1, <1>3 DEF FromTemplate, AsksFirst, st

LEMMA ToolNames ==
    /\ {CREATE_TOOL, UPDATE_TOOL, DELETE_TOOL, CHANGE_SCHEMA_TOOL, READ_TOOL, READ_SCHEMA_TOOL}
         = ALLOWED_TOOLS
    /\ READ_TOOL \notin WRITE_TOOLS /\ READ_SCHEMA_TOOL \notin WRITE_TOOLS
BY DEF ALLOWED_TOOLS, WRITE_TOOLS, CREATE_TOOL, UPDATE_TOOL, DELETE_TOOL, CHANGE_SCHEMA_TOOL,
       READ_TOOL, READ_SCHEMA_TOOL

LEMMA ReadingStep ==
    ASSUME NEW kind \in {"tool", "agent", "validation", "confirm"},
           NEW uses \in AgentCatalog \cup {"", READ_TOOL, READ_SCHEMA_TOOL},
           NEW needs \in SUBSET Artifacts, NEW gives \in Artifacts
    PROVE  /\ Step(kind, uses, needs, gives) \in TemplateStep
           /\ kind # "tool" \/ uses \in {READ_TOOL, READ_SCHEMA_TOOL} => ~IsWrite(Step(kind, uses, needs, gives))
BY ToolNames DEF Step, TemplateStep, IsWrite

LEMMA OneStep ==
    ASSUME NEW e \in TemplateStep, ~IsWrite(e)
    PROVE  FromTemplate(<< e >>)
BY DEF FromTemplate, AsksFirst

LEMMA WriteTail ==
    ASSUME NEW tool \in WRITE_TOOLS, NEW needs \in SUBSET Artifacts
    PROVE  FromTemplate(RecordWriteTail(tool, needs))
<1> DEFINE a == Step("validation", "", needs, "validation.write_payload")
           b == ConfirmStep({"validation.write_payload"}, "confirmation.write")
           c == Step("tool", tool, {"validation.write_payload"}, "write_result")
<1>1. a \in TemplateStep /\ ~IsWrite(a)
  BY ReadingStep DEF Artifacts
<1>2. b \in TemplateStep /\ ~IsWrite(b) /\ b.kind = "confirm"
  BY DEF ConfirmStep, Step, TemplateStep, IsWrite, Artifacts
<1>3. c \in TemplateStep
  BY DEF Step, TemplateStep, Artifacts, ALLOWED_TOOLS
<1>4. RecordWriteTail(tool, needs) = << a, b, c >>
  BY DEF RecordWriteTail
<1> HIDE DEF a, b, c
<1>5. << a, b, c >> \in Seq(TemplateStep)
  BY <1>1, <1>2, <1>3
<1>6. AsksFirst(<< a, b, c >>)
  BY <1>1, <1>2 DEF AsksFirst
<1> QED
  BY <1>4, <1>5, <1>6 DEF FromTemplate

\* A plan of a template: the steps are a list, and a write has a question before it.
TemplatePlan(plan) == IsPlan(plan) /\ FromTemplate(plan.steps)

\* A function on 1..n is a list.
LEMMA Listed ==
    ASSUME NEW f, NEW n \in Nat, f = [i \in 1..n |-> f[i]]
    PROVE  f \in Seq({f[i] : i \in DOMAIN f}) /\ Len(f) = n /\ DOMAIN f = 1..n
<1> DEFINE values == {f[i] : i \in 1..n}
<1>1. DOMAIN f = 1..n
  OBVIOUS
<1>2. f \in [1..n -> values]
  OBVIOUS
<1> HIDE DEF values
<1>3. f \in Seq(values) /\ Len(f) = n
  <2>1. f \in Seq(values)
    BY <1>2, SeqDef
  <2> QED
    BY <1>1, <2>1, LenProperties
<1> QED
  BY <1>1, <1>3 DEF values

LEMMA PlanOfSteps ==
    ASSUME NEW template, NEW intent, NEW risk, NEW text, NEW list, FromTemplate(list)
    PROVE  TemplatePlan(Plan(template, intent, risk, text, list))
<1> DEFINE plan == Plan(template, intent, risk, text, list)
<1>1. /\ DOMAIN plan = {"template", "intent", "risk_level", "original_input",
                        "requires_confirmation", "steps"}
      /\ plan.steps = list
  BY DEF Plan
<1>2. list \in Seq({list[i] : i \in DOMAIN list})
  <2>1. /\ list \in Seq(TemplateStep) /\ Len(list) \in Nat /\ list = [i \in 1..Len(list) |-> list[i]]
    BY LenProperties DEF FromTemplate
  <2> QED
    BY <2>1, Listed
<1>3. ASSUME NEW i \in DOMAIN list PROVE DOMAIN list[i] = {"kind", "uses", "needs", "gives"}
  <2>1. list[i] \in TemplateStep
    BY DEF FromTemplate
  <2> QED
    BY <2>1 DEF TemplateStep
<1> HIDE DEF plan
<1> QED
  BY <1>1, <1>2, <1>3 DEF TemplatePlan, IsPlan, plan

LEMMA ReadPlans ==
    ASSUME NEW text
    PROVE  TemplatePlan(RecordDraftPlan(text)) /\ TemplatePlan(ReadPlan(text))
<1>1. FromTemplate(<< Step("agent", "parse_record_draft.v1", {}, "record.draft") >>)
  BY ReadingStep, OneStep DEF AgentCatalog, Artifacts
<1>2. FromTemplate(<< Step("tool", READ_TOOL, {}, "feishu.records") >>)
  BY ReadingStep, OneStep DEF Artifacts
<1> QED
  BY <1>1, <1>2, PlanOfSteps DEF RecordDraftPlan, ReadPlan

LEMMA TwoSteps ==
    ASSUME NEW d \in TemplateStep, NEW e \in TemplateStep, ~IsWrite(d), ~IsWrite(e)
    PROVE  FromTemplate(<< d, e >>)
BY DEF FromTemplate, AsksFirst

Payloads == {"feishu.create_payload", "feishu.update_payload", "feishu.delete_payload"}

LEMMA WritePlans ==
    ASSUME NEW text, NEW template, NEW intent, NEW risk, NEW tool \in WRITE_TOOLS,
           NEW payload \in Payloads
    PROVE  TemplatePlan(WritePlan(text, template, intent, risk, tool, payload))
<1> DEFINE matched == tool \in {UPDATE_TOOL, DELETE_TOOL}
           candidates == << ReadCandidateRecordsStep(payload), MatchRecordStep(payload) >>
           search == IF matched THEN candidates ELSE << >>
           inputs == {"feishu.table_schema", payload}
                       \cup (IF matched THEN {"feishu.record_match"} ELSE {})
           head == << ReadSchemaStep("feishu.table_schema"),
                      ParseRecordPayloadStep(payload, {"feishu.table_schema"}) >>
           tail == RecordWriteTail(tool, inputs)
<1>1. /\ payload \in Artifacts
      /\ {"feishu.table_schema", "feishu.record_match", "feishu.candidate_records"} \subseteq Artifacts
      /\ "parse_feishu_record.v1" \in AgentCatalog /\ "search_feishu_record.v1" \in AgentCatalog
  BY DEF Payloads, Artifacts, AgentCatalog
<1>2. FromTemplate(tail)
  <2>1. inputs \in SUBSET Artifacts
    BY <1>1
  <2> QED
    BY <2>1, WriteTail
<1>3. FromTemplate(head)
  <2>1. /\ ReadSchemaStep("feishu.table_schema") \in TemplateStep
        /\ ~IsWrite(ReadSchemaStep("feishu.table_schema"))
    BY <1>1, ReadingStep DEF ReadSchemaStep
  <2>2. /\ ParseRecordPayloadStep(payload, {"feishu.table_schema"}) \in TemplateStep
        /\ ~IsWrite(ParseRecordPayloadStep(payload, {"feishu.table_schema"}))
    BY <1>1, ReadingStep DEF ParseRecordPayloadStep
  <2> QED
    BY <2>1, <2>2, TwoSteps
<1>4. FromTemplate(candidates)
  <2>1. /\ ReadCandidateRecordsStep(payload) \in TemplateStep
        /\ ~IsWrite(ReadCandidateRecordsStep(payload))
    BY <1>1, ReadingStep DEF ReadCandidateRecordsStep
  <2>2. MatchRecordStep(payload) \in TemplateStep /\ ~IsWrite(MatchRecordStep(payload))
    BY <1>1, ReadingStep DEF MatchRecordStep
  <2> QED
    BY <2>1, <2>2, TwoSteps
<1>5. FromTemplate(<< >>)
  BY DEF FromTemplate, AsksFirst
<1>6. WritePlan(text, template, intent, risk, tool, payload)
        = Plan(template, intent, risk, text, head \o search \o tail)
  BY DEF WritePlan
<1>7. FromTemplate(search)
  BY <1>4, <1>5
<1> HIDE DEF head, search, tail
<1>8. FromTemplate(head \o search \o tail)
  BY <1>2, <1>3, <1>7, Joined
<1> QED
  BY <1>6, <1>8, PlanOfSteps

LEMMA SchemaPlans ==
    ASSUME NEW text, NEW risk
    PROVE  /\ TemplatePlan(SchemaChangePlan(text, risk))
           /\ TemplatePlan(SchemaThenCreatePlan(text, risk))
<1> DEFINE a == ReadSchemaStep("feishu.table_schema")
           b == ParseSchemaChangeStep
           c == SchemaChangeValidationStep
           d == ConfirmStep({"validation.schema_change_payload"}, "confirmation.schema_change")
           e == ChangeFieldsStep
           f == ReadSchemaStep("feishu.table_schema_after")
           change == << a, b, c, d, e, f >>
           parse == << ParseRecordPayloadStep("feishu.create_payload", {"feishu.table_schema_after"}) >>
           tail == RecordWriteTail(CREATE_TOOL, {"feishu.table_schema_after", "feishu.create_payload"})
<1>1. /\ {"feishu.table_schema", "feishu.table_schema_after", "feishu.schema_change_payload",
          "feishu.schema_change_result", "validation.schema_change_payload",
          "confirmation.schema_change", "feishu.create_payload"} \subseteq Artifacts
      /\ "parse_feishu_record.v1" \in AgentCatalog /\ "parse_feishu_schema_change.v1" \in AgentCatalog
      /\ CREATE_TOOL \in WRITE_TOOLS /\ CHANGE_SCHEMA_TOOL \in ALLOWED_TOOLS
  BY DEF Artifacts, AgentCatalog, WRITE_TOOLS, ALLOWED_TOOLS
<1>2. a \in TemplateStep /\ ~IsWrite(a) /\ f \in TemplateStep /\ ~IsWrite(f)
  BY <1>1, ReadingStep DEF ReadSchemaStep
<1>3. b \in TemplateStep /\ ~IsWrite(b)
  BY <1>1, ReadingStep DEF ParseSchemaChangeStep
<1>4. c \in TemplateStep /\ ~IsWrite(c)
  BY <1>1, ReadingStep DEF SchemaChangeValidationStep
<1>5. d \in TemplateStep /\ ~IsWrite(d) /\ d.kind = "confirm"
  BY <1>1 DEF ConfirmStep, Step, TemplateStep, IsWrite
<1>6. e \in TemplateStep
  BY <1>1 DEF ChangeFieldsStep, Step, TemplateStep
<1>7. FromTemplate(parse)
  <2> DEFINE p == ParseRecordPayloadStep("feishu.create_payload", {"feishu.table_schema_after"})
  <2>1. p \in TemplateStep /\ ~IsWrite(p)
    BY <1>1, ReadingStep DEF ParseRecordPayloadStep
  <2> QED
    BY <2>1, OneStep
<1>8. FromTemplate(tail)
  BY <1>1, WriteTail
<1>9. SchemaChangePlan(text, risk) = Plan("change_schema", "change_feishu_schema", risk, text, change)
  BY DEF SchemaChangePlan
<1> HIDE DEF a, b, c, d, e, f
<1>10. FromTemplate(change)
  <2>1. change \in Seq(TemplateStep)
    BY <1>2, <1>3, <1>4, <1>5, <1>6
  <2>2. AsksFirst(change)
    <3>1. /\ ~IsWrite(change[1]) /\ ~IsWrite(change[2]) /\ ~IsWrite(change[3])
          /\ ~IsWrite(change[4]) /\ ~IsWrite(change[6]) /\ change[4].kind = "confirm"
          /\ DOMAIN change = 1..6
      BY <1>2, <1>3, <1>4, <1>5
    <3> HIDE DEF change
    <3> QED
      BY <3>1 DEF AsksFirst
  <2> QED
    BY <2>1, <2>2 DEF FromTemplate
<1> HIDE DEF change
<1>11. /\ TemplatePlan(SchemaChangePlan(text, risk))
       /\ SchemaChangePlan(text, risk).steps = change
  BY <1>9, <1>10, PlanOfSteps DEF Plan
<1>12. SchemaThenCreatePlan(text, risk) =
         Plan("change_schema_then_create_record", "change_feishu_schema_then_create_record", risk,
              text, change \o parse \o tail)
  BY <1>11 DEF SchemaThenCreatePlan
<1> HIDE DEF parse, tail
<1>13. FromTemplate(change \o parse \o tail)
  BY <1>7, <1>8, <1>10, Joined
<1> QED
  BY <1>11, <1>12, <1>13, PlanOfSteps

LEMMA RulesMakeTemplatePlans ==
    ASSUME NEW text
    PROVE  TemplatePlan(RuleBasedPlan(text))
<1> DEFINE plan == RuleBasedPlan(text)
           template == DetectTemplate(text)
           risk == SchemaRiskLevel(text)
<1>1. template \in Templates
  <2>1. DetectIntent(text) \in {"delete_feishu_record", "update_feishu_record",
                                "create_feishu_record", "read_feishu_records"}
    BY DEF DetectIntent
  <2> QED
    BY <2>1 DEF DetectTemplate, Templates, RecordTemplates
<1>2. plan = BuildPlanFromTemplate(template, text, "")
  BY DEF RuleBasedPlan
<1> HIDE DEF template, plan
<1>3. /\ {CREATE_TOOL, UPDATE_TOOL, DELETE_TOOL} \subseteq WRITE_TOOLS
      /\ {"feishu.create_payload", "feishu.update_payload", "feishu.delete_payload"} \subseteq Payloads
  BY DEF WRITE_TOOLS, Payloads
<1>4. CASE template = "record_draft"
  BY <1>2, <1>4, ReadPlans DEF BuildPlanFromTemplate, plan
<1>5. CASE template = "read_records"
  BY <1>2, <1>5, ReadPlans DEF BuildPlanFromTemplate, plan
<1>6. CASE template = "create_record"
  BY <1>2, <1>3, <1>6, WritePlans DEF BuildPlanFromTemplate, plan
<1>7. CASE template = "update_record"
  BY <1>2, <1>3, <1>7, WritePlans DEF BuildPlanFromTemplate, plan
<1>8. CASE template = "delete_record"
  BY <1>2, <1>3, <1>8, WritePlans DEF BuildPlanFromTemplate, plan
<1>9. CASE template = "change_schema"
  BY <1>2, <1>9, SchemaPlans DEF BuildPlanFromTemplate, plan
<1>10. CASE template = "change_schema_then_create_record"
  BY <1>2, <1>10, SchemaPlans DEF BuildPlanFromTemplate, plan
<1> QED
  BY <1>1, <1>4, <1>5, <1>6, <1>7, <1>8, <1>9, <1>10 DEF Templates, RecordTemplates, plan

\* The validator renames artifacts; the steps keep their places, kinds and tools.
LEMMA RenamedAlike ==
    ASSUME NEW raw, IsPlan(raw)
    PROVE  LET plan == NormalizeWriteValidationArtifact(raw) IN
           /\ IsPlan(plan)
           /\ DOMAIN plan.steps = DOMAIN raw.steps
           /\ \A i \in DOMAIN raw.steps : /\ plan.steps[i].kind = raw.steps[i].kind
                                          /\ plan.steps[i].uses = raw.steps[i].uses
<1> DEFINE plan == NormalizeWriteValidationArtifact(raw)
           list == raw.steps
           aliases == {list[i].gives : i \in {j \in DOMAIN list : list[j].kind = "validation"}}
                        \ RequestKeys
           renamed(step) ==
               [step EXCEPT !.gives = IF step.kind = "validation" /\ @ \in aliases
                                        THEN "validation.write_payload" ELSE @,
                            !.needs = IF @ \cap aliases = {} THEN @
                                        ELSE (@ \ aliases) \cup {"validation.write_payload"}]
<1>1. CASE WriteToolsSeen(raw) = {}
  BY <1>1 DEF NormalizeWriteValidationArtifact
<1>2. CASE WriteToolsSeen(raw) # {}
  <2>1. plan = [raw EXCEPT !.steps = [i \in DOMAIN list |-> renamed(list[i])]]
    BY <1>2 DEF NormalizeWriteValidationArtifact
  <2>2. ASSUME NEW i \in DOMAIN list
        PROVE  /\ DOMAIN renamed(list[i]) = {"kind", "uses", "needs", "gives"}
               /\ renamed(list[i]).kind = list[i].kind
               /\ renamed(list[i]).uses = list[i].uses
    BY DEF IsPlan
  <2>3. /\ DOMAIN plan = DOMAIN raw
        /\ plan.steps = [i \in DOMAIN list |-> renamed(list[i])]
    BY <2>1 DEF IsPlan
  <2>4. Len(list) \in Nat /\ DOMAIN list = 1..Len(list)
    BY LenProperties DEF IsPlan
  <2> HIDE DEF plan, renamed
  <2>5. plan.steps = [i \in 1..Len(list) |-> plan.steps[i]]
    BY <2>3, <2>4
  <2>6. plan.steps \in Seq({plan.steps[i] : i \in DOMAIN plan.steps})
    BY <2>4, <2>5, Listed
  <2> QED
    BY <2>2, <2>3, <2>6 DEF IsPlan, plan
<1> QED
  BY <1>1, <1>2

\* What _ensure_plan may store.
StoredPlans ==
    {NormalizeWriteValidationArtifact(raw) :
        raw \in {r \in UNION {RawPlans(asks) : asks \in Asked} : ValidateWorkflowPlan(r)}}

LEMMA RawPlansArePlans ==
    ASSUME NEW asks \in Asked, NEW raw \in RawPlans(asks)
    PROVE  IsPlan(raw)
<1>1. CASE ~UseLlm
  BY <1>1, RulesMakeTemplatePlans DEF RawPlans, TemplatePlan
<1>2. CASE UseLlm
  <2>1. PICK plan \in LlmPlans(asks) : raw = GuardLlmPlan(asks, plan)
    BY <1>2 DEF RawPlans
  <2>2. raw = plan \/ raw = RuleBasedPlan(asks)
    BY <2>1 DEF GuardLlmPlan, RuleBasedPlan
  <2> QED
    BY <2>2, LlmPlansAssumption, RulesMakeTemplatePlans DEF TemplatePlan
<1> QED
  BY <1>1, <1>2

LEMMA StoredPlansArePlans ==
    ASSUME NEW plan \in StoredPlans
    PROVE  IsPlan(plan) /\ Len(plan.steps) \in Nat /\ DOMAIN plan.steps = 1..Len(plan.steps)
<1>1. PICK raw \in UNION {RawPlans(asks) : asks \in Asked} :
         plan = NormalizeWriteValidationArtifact(raw)
  BY DEF StoredPlans
<1>2. IsPlan(raw)
  BY RawPlansArePlans
<1>3. IsPlan(plan)
  BY <1>1, <1>2, RenamedAlike
<1> QED
  BY <1>3, LenProperties DEF IsPlan

-----------------------------------------------------------------------------
(* Types.                                                                  *)

Places == {"off", "lock", "bury", "dead_letter", "ack_dead", "start", "plan", "planning", "pick",
           "context", "execute", "save", "mark", "done", "fail_step", "fail_session", "confirm",
           "await", "await_session", "finish", "ack", "release"}

\* A worker that does not run its message's session (yet, or any more),
OutsideLock == {"off", "lock", "bury", "dead_letter", "ack_dead"}

\* ... one that is at a step of the plan, and one that has not said yet how the run ended.
AtStep == {"context", "execute", "save", "mark", "done", "fail_step", "confirm", "await"}
Executing == Places \ (OutsideLock \cup {"start", "ack", "release"})

SessionRow == [status : SessionStatus, asks : SUBSET Words]
StepRows == UNION {[DOMAIN plan.steps -> StepStatus] : plan \in StoredPlans}
Confirmation == [plan : Nat, step : Nat, status : {"waiting", "approved", "rejected"}]
Message == [of : Sessions, count : 0..(MaxDeliveries + 1), state : {"new", "pending", "acked"}]
WorkerRow == [pc : Places, msg : Nat, plan : Nat, step : Nat, outcome : {"ok", "error"}]
Request == [pc : {"none", "step", "session", "enqueue"}, of : Sessions \cup {0},
            confirmation : Nat, approved : BOOLEAN]

Started(s) == session[s].status # "none"

SessionsOK == /\ session \in [Sessions -> SessionRow]
              /\ \A s \in Sessions : Started(s) => session[s].asks \in Asked

PlansOK == /\ plans \in [Sessions -> Seq(StoredPlans)]
           /\ \A s \in Sessions : \A p \in DOMAIN plans[s] : Started(s)

StepsOK ==
    /\ steps \in [Sessions -> Seq(StepRows)]
    /\ \A s \in Sessions :
          /\ DOMAIN steps[s] = DOMAIN plans[s]
          /\ \A p \in DOMAIN plans[s] : steps[s][p] \in [DOMAIN plans[s][p].steps -> StepStatus]

\* A confirmation is about a step of a plan of its session.
IsOf(c, s) == c.plan \in DOMAIN plans[s] /\ c.step \in DOMAIN plans[s][c.plan].steps
ConfirmationsOK ==
    /\ confirmations \in [Sessions -> Seq(Confirmation)]
    /\ \A s \in Sessions : \A c \in DOMAIN confirmations[s] : IsOf(confirmations[s][c], s)

MessagesOK == /\ messages \in Seq(Message)
              /\ \A m \in DOMAIN messages : Started(messages[m].of)

\* What a worker works on exists.
WorkerFine(row) ==
    /\ row \in WorkerRow
    /\ row.pc # "off" => row.msg \in DOMAIN messages
    /\ row.pc \in AtStep \cup {"pick"} => row.plan \in DOMAIN plans[messages[row.msg].of]
    /\ row.pc \in AtStep =>
         row.step \in DOMAIN plans[messages[row.msg].of][row.plan].steps
WorkersOK == DOMAIN worker = Workers /\ \A w \in Workers : WorkerFine(worker[w])
                 /\ worker \in [Workers -> WorkerRow]

LockTyped == lock \in [Sessions -> Workers \cup {0}]

RequestOK ==
    /\ request \in Request
    /\ request.pc = "none" => request = NoRequest
    /\ request.pc # "none" => request.of \in Sessions /\ Started(request.of)
    /\ request.pc \in {"step", "session"} =>
         /\ request.confirmation \in DOMAIN confirmations[request.of]
         /\ confirmations[request.of][request.confirmation].status # "waiting"

TypeInv ==
    /\ SessionsOK /\ PlansOK /\ StepsOK /\ ConfirmationsOK /\ MessagesOK
    /\ deadLetters \subseteq DOMAIN messages
    /\ LockTyped /\ WorkersOK /\ RequestOK /\ faults \in Seq(Faults)

\* Nothing that was referred to goes away.
SessionsGrow ==
    \A s \in Sessions : Started(s) => Started(s)' /\ session'[s].asks = session[s].asks
PlansGrow ==
    \A s \in Sessions : \A p \in DOMAIN plans[s] :
        p \in DOMAIN plans'[s] /\ plans'[s][p] = plans[s][p]
ConfirmationsGrow ==
    \A s \in Sessions : \A c \in DOMAIN confirmations[s] :
        /\ c \in DOMAIN confirmations'[s]
        /\ confirmations'[s][c].plan = confirmations[s][c].plan
        /\ confirmations'[s][c].step = confirmations[s][c].step
        /\ confirmations[s][c].status # "waiting" => confirmations'[s][c].status # "waiting"
MessagesGrow ==
    \A m \in DOMAIN messages : m \in DOMAIN messages' /\ messages'[m].of = messages[m].of
FaultsGrow == \A i \in DOMAIN faults : i \in DOMAIN faults' /\ faults'[i] = faults[i]

Grows == SessionsGrow /\ PlansGrow /\ ConfirmationsGrow /\ MessagesGrow /\ FaultsGrow

LEMMA UnchangedGrows ==
    /\ UNCHANGED session => SessionsGrow
    /\ UNCHANGED plans => PlansGrow
    /\ UNCHANGED confirmations => ConfirmationsGrow
    /\ UNCHANGED messages => MessagesGrow
    /\ UNCHANGED faults => FaultsGrow
BY DEF SessionsGrow, PlansGrow, ConfirmationsGrow, MessagesGrow, FaultsGrow, Started

LEMMA InitTyped == Init => TypeInv
<1> SUFFICES ASSUME Init PROVE TypeInv
  OBVIOUS
<1>1. SessionsOK
  BY DEF Init, SessionsOK, SessionRow, SessionStatus, Started
<1>2. PlansOK /\ StepsOK /\ ConfirmationsOK
  BY DEF Init, PlansOK, StepsOK, ConfirmationsOK
<1>3. MessagesOK /\ deadLetters \subseteq DOMAIN messages /\ LockTyped /\ faults \in Seq(Faults)
  BY DEF Init, MessagesOK, LockTyped
<1>4. WorkersOK
  BY DEF Init, WorkersOK, WorkerFine, WorkerRow, Off, Places, AtStep
<1>5. RequestOK
  BY DEF Init, RequestOK, Request, NoRequest
<1> QED
  BY <1>1, <1>2, <1>3, <1>4, <1>5 DEF TypeInv

\* What an unchanged variable keeps.
LEMMA SessionsStay == ASSUME SessionsOK, UNCHANGED session PROVE SessionsOK'
BY DEF SessionsOK, Started

LEMMA StepsStay == ASSUME StepsOK, UNCHANGED <<plans, steps>> PROVE StepsOK'
BY DEF StepsOK

LEMMA ConfirmationsStay ==
    ASSUME ConfirmationsOK, Grows, UNCHANGED confirmations
    PROVE  ConfirmationsOK'
BY DEF ConfirmationsOK, Grows, PlansGrow, IsOf

LEMMA MessagesAreOfSessions ==
    ASSUME MessagesOK, NEW m \in DOMAIN messages
    PROVE  messages[m].of \in Sessions /\ Started(messages[m].of)
<1>1. messages[m] \in Message
  BY DEF MessagesOK
<1> QED
  BY <1>1 DEF Message, MessagesOK

LEMMA MessagesStay == ASSUME MessagesOK, Grows, UNCHANGED messages PROVE MessagesOK'
<1>1. \A m \in DOMAIN messages : Started(messages[m].of)'
  BY MessagesAreOfSessions DEF Grows, SessionsGrow
<1> QED
  BY <1>1 DEF MessagesOK

LEMMA RequestStays ==
    ASSUME RequestOK, Grows, UNCHANGED request
    PROVE  RequestOK'
BY DEF RequestOK, Grows, SessionsGrow, ConfirmationsGrow

LEMMA FineStays ==
    ASSUME Grows, MessagesOK, NEW row, WorkerFine(row)
    PROVE  WorkerFine(row)'
<1>1. row.pc # "off" => messages[row.msg].of \in Sessions
  BY MessagesAreOfSessions DEF WorkerFine
<1> QED
  BY <1>1 DEF Grows, PlansGrow, MessagesGrow, WorkerFine, AtStep

\* A step of a worker.
LEMMA WorkerSteps ==
    ASSUME Grows, MessagesOK, WorkersOK, NEW w \in Workers, NEW row,
           WorkerFine(row)', worker' = [worker EXCEPT ![w] = row]
    PROVE  WorkersOK' /\ worker'[w] = row /\ \A v \in Workers \ {w} : worker'[v] = worker[v]
<1>1. /\ worker' \in [Workers -> WorkerRow]
      /\ worker'[w] = row /\ \A v \in Workers \ {w} : worker'[v] = worker[v]
  BY DEF WorkersOK, WorkerFine
<1>2. ASSUME NEW v \in Workers PROVE WorkerFine(worker[v])'
  BY <1>1, FineStays DEF WorkersOK
<1> QED
  BY <1>1, <1>2 DEF WorkersOK

LEMMA WorkersStay == ASSUME Grows, MessagesOK, WorkersOK, UNCHANGED worker PROVE WorkersOK'
<1>1. ASSUME NEW v \in Workers PROVE WorkerFine(worker[v])'
  BY FineStays DEF WorkersOK
<1> QED
  BY <1>1 DEF WorkersOK

LEMMA OffIsFine == WorkerFine(Off) /\ WorkerFine(Off)'
BY DEF WorkerFine, Off, WorkerRow, Places, AtStep

\* Each part of the invariant is established again or left alone.
LEMMA Reestablished ==
    ASSUME TypeInv, Grows,
           UNCHANGED session \/ SessionsOK', UNCHANGED plans \/ PlansOK',
           UNCHANGED <<plans, steps>> \/ StepsOK',
           UNCHANGED confirmations \/ ConfirmationsOK', UNCHANGED messages \/ MessagesOK',
           UNCHANGED deadLetters \/ (deadLetters \subseteq DOMAIN messages)',
           UNCHANGED lock \/ LockTyped', UNCHANGED worker \/ WorkersOK',
           UNCHANGED request \/ RequestOK', UNCHANGED faults \/ (faults \in Seq(Faults))'
    PROVE  TypeInv'
<1>1. SessionsOK' /\ PlansOK' /\ StepsOK'
  BY SessionsStay, StepsStay DEF TypeInv, PlansOK, Grows, SessionsGrow
<1>2. ConfirmationsOK' /\ MessagesOK' /\ RequestOK' /\ WorkersOK'
  BY ConfirmationsStay, MessagesStay, RequestStays, WorkersStay DEF TypeInv
<1>3. (deadLetters \subseteq DOMAIN messages)'
  BY DEF TypeInv, Grows, MessagesGrow
<1>4. LockTyped' /\ (faults \in Seq(Faults))'
  BY DEF TypeInv, LockTyped
<1> QED
  BY <1>1, <1>2, <1>3, <1>4 DEF TypeInv

LEMMA StepIsSet ==
    ASSUME PlansOK, StepsOK, NEW s \in Sessions, NEW p \in DOMAIN plans[s],
           NEW i \in DOMAIN plans[s][p].steps, NEW status \in StepStatus,
           SetStep(s, p, i, status), UNCHANGED plans
    PROVE  /\ StepsOK'
           /\ \A t \in Sessions : \A q \in DOMAIN plans[t] : \A j \in DOMAIN plans[t][q].steps :
                 steps'[t][q][j] =
                     IF t = s /\ q = p /\ j = i THEN status ELSE steps[t][q][j]
<1> DEFINE row == [steps[s][p] EXCEPT ![i] = status]
           list == [steps[s] EXCEPT ![p] = row]
<1>1. steps' = [steps EXCEPT ![s] = list]
  BY DEF SetStep
<1>2. /\ row \in [DOMAIN plans[s][p].steps -> StepStatus]
      /\ \A j \in DOMAIN plans[s][p].steps : row[j] = IF j = i THEN status ELSE steps[s][p][j]
  BY DEF StepsOK
<1>3. row \in StepRows
  <2>1. plans[s][p] \in StoredPlans
    BY DEF PlansOK
  <2> QED
    BY <1>2, <2>1 DEF StepRows
<1> HIDE DEF row
<1>4. /\ steps[s] \in Seq(StepRows) /\ p \in 1..Len(steps[s])
  BY DEF StepsOK
<1>5. /\ list \in Seq(StepRows) /\ DOMAIN list = DOMAIN steps[s]
      /\ \A q \in DOMAIN plans[s] : list[q] = IF q = p THEN row ELSE steps[s][q]
  BY <1>3, <1>4, ExceptSeq DEF StepsOK
<1> HIDE DEF list
<1>6. /\ steps' \in [Sessions -> Seq(StepRows)]
      /\ \A t \in Sessions : steps'[t] = IF t = s THEN list ELSE steps[t]
  BY <1>1, <1>5 DEF StepsOK
<1>7. StepsOK'
  <2>1. ASSUME NEW t \in Sessions
        PROVE  /\ DOMAIN steps'[t] = DOMAIN plans[t]
               /\ \A q \in DOMAIN plans[t] : steps'[t][q] \in [DOMAIN plans[t][q].steps -> StepStatus]
    <3>1. /\ DOMAIN steps[t] = DOMAIN plans[t]
          /\ \A q \in DOMAIN plans[t] : steps[t][q] \in [DOMAIN plans[t][q].steps -> StepStatus]
      BY DEF StepsOK
    <3>2. CASE t = s
      BY <1>2, <1>5, <1>6, <3>1, <3>2
    <3>3. CASE t # s
      BY <1>6, <3>1, <3>3
    <3> QED
      BY <3>2, <3>3
  <2> QED
    BY <1>6, <2>1 DEF StepsOK
<1>8. ASSUME NEW t \in Sessions, NEW q \in DOMAIN plans[t], NEW j \in DOMAIN plans[t][q].steps
      PROVE  steps'[t][q][j] = IF t = s /\ q = p /\ j = i THEN status ELSE steps[t][q][j]
  BY <1>2, <1>5, <1>6
<1> QED
  BY <1>7, <1>8

\* A session's status changes.
LEMMA StatusIsSet ==
    ASSUME SessionsOK, NEW s \in Sessions, Started(s), NEW status \in SessionStatus \ {"none"},
           Status(s, status)
    PROVE  /\ SessionsOK' /\ SessionsGrow
           /\ session'[s].status = status
           /\ \A t \in Sessions : session'[t].asks = session[t].asks
           /\ \A t \in Sessions \ {s} : session'[t] = session[t]
<1> DEFINE row == [session[s] EXCEPT !.status = status]
<1>1. session' = [session EXCEPT ![s] = row]
  BY DEF Status
<1>2. row \in SessionRow /\ row.status = status /\ row.asks = session[s].asks
  BY DEF SessionsOK, SessionRow
<1> HIDE DEF row
<1>3. /\ session' \in [Sessions -> SessionRow]
      /\ \A t \in Sessions : session'[t] = IF t = s THEN row ELSE session[t]
  BY <1>1, <1>2 DEF SessionsOK
<1> QED
  BY <1>2, <1>3 DEF SessionsOK, SessionsGrow, Started

Preserved == TypeInv' /\ Grows

LEMMA InvokeTyped ==
    ASSUME TypeInv, NEW s \in Sessions, NEW asks \in Asked, Invoke(s, asks)
    PROVE  Preserved
<1> DEFINE row == [status |-> "queued", asks |-> asks]
<1>1. row \in SessionRow
  BY ConstantsAssumption DEF SessionRow, SessionStatus
<1>2. session' = [session EXCEPT ![s] = row] /\ ~Started(s)
  BY DEF Invoke, Started
<1>3. /\ session' \in [Sessions -> SessionRow]
      /\ \A t \in Sessions : session'[t] = IF t = s THEN row ELSE session[t]
  BY <1>1, <1>2 DEF TypeInv, SessionsOK
<1>4. SessionsOK' /\ SessionsGrow /\ Started(s)'
  BY <1>2, <1>3 DEF TypeInv, SessionsOK, SessionsGrow, Started
<1>5. Grows
  BY <1>4, UnchangedGrows DEF Grows, Invoke
<1>6. RequestOK'
  BY <1>4 DEF Invoke, RequestOK, Request, NoRequest
<1> QED
  BY <1>4, <1>5, <1>6, Reestablished DEF Preserved, Invoke

LEMMA ResumeResolveTyped ==
    ASSUME TypeInv, NEW s \in Sessions, NEW c \in DOMAIN confirmations[s], NEW approved \in BOOLEAN,
           ResumeResolve(s, c, approved)
    PROVE  Preserved
<1> DEFINE row == [confirmations[s][c] EXCEPT !.status = IF approved THEN "approved" ELSE "rejected"]
           list == [confirmations[s] EXCEPT ![c] = row]
<1>1. confirmations' = [confirmations EXCEPT ![s] = list]
  BY DEF ResumeResolve
<1>2. /\ confirmations[s] \in Seq(Confirmation) /\ c \in 1..Len(confirmations[s])
      /\ confirmations[s][c] \in Confirmation
  BY DEF TypeInv, ConfirmationsOK
<1>3. /\ row \in Confirmation /\ row.status # "waiting"
      /\ row.plan = confirmations[s][c].plan /\ row.step = confirmations[s][c].step
  BY <1>2 DEF Confirmation
<1> HIDE DEF row
<1>4. /\ list \in Seq(Confirmation) /\ DOMAIN list = DOMAIN confirmations[s]
      /\ \A d \in DOMAIN list : list[d] = IF d = c THEN row ELSE confirmations[s][d]
  BY <1>2, <1>3, ExceptSeq
<1> HIDE DEF list
<1>5. /\ confirmations' \in [Sessions -> Seq(Confirmation)]
      /\ \A t \in Sessions : confirmations'[t] = IF t = s THEN list ELSE confirmations[t]
  BY <1>1, <1>4 DEF TypeInv, ConfirmationsOK
<1>6. ConfirmationsGrow
  BY <1>3, <1>4, <1>5 DEF ConfirmationsGrow
<1>7. Grows
  BY <1>6, UnchangedGrows DEF Grows, ResumeResolve
<1>8. ConfirmationsOK'
  <2>1. ASSUME NEW t \in Sessions, NEW d \in DOMAIN confirmations'[t]
        PROVE  IsOf(confirmations[t][d], t)'
    <3>1. /\ d \in DOMAIN confirmations[t]
          /\ confirmations'[t][d].plan = confirmations[t][d].plan
          /\ confirmations'[t][d].step = confirmations[t][d].step
      BY <1>3, <1>4, <1>5
    <3>2. IsOf(confirmations[t][d], t)
      BY <3>1 DEF TypeInv, ConfirmationsOK
    <3> QED
      BY <3>1, <3>2 DEF IsOf, ResumeResolve
  <2> QED
    BY <1>5, <2>1 DEF ConfirmationsOK
<1>9. RequestOK'
  <2>1. Started(s)
    <3>1. IsOf(confirmations[s][c], s)
      BY DEF TypeInv, ConfirmationsOK
    <3> QED
      BY <3>1 DEF TypeInv, PlansOK, IsOf
  <2> QED
    BY <1>3, <1>4, <1>5, <2>1 DEF ResumeResolve, RequestOK, Request, Started
<1> QED
  BY <1>7, <1>8, <1>9, Reestablished DEF Preserved, ResumeResolve

LEMMA ResumeStepTyped ==
    ASSUME TypeInv, ResumeStep
    PROVE  Preserved
<1> DEFINE s == request.of
           c == confirmations[s][request.confirmation]
           status == IF request.approved THEN "success" ELSE "failed"
<1>1. /\ s \in Sessions /\ Started(s) /\ request.confirmation \in DOMAIN confirmations[s]
      /\ request.pc = "step" /\ request \in Request
  BY DEF TypeInv, RequestOK, ResumeStep
<1>2. c.plan \in DOMAIN plans[s] /\ c.step \in DOMAIN plans[s][c.plan].steps
  BY <1>1 DEF TypeInv, ConfirmationsOK, IsOf
<1>3. SetStep(s, c.plan, c.step, status) /\ status \in StepStatus /\ UNCHANGED plans
  BY DEF ResumeStep, StepStatus
<1> HIDE DEF status
<1>4. StepsOK'
  BY <1>1, <1>2, <1>3, StepIsSet DEF TypeInv
<1>5. Grows
  BY UnchangedGrows DEF Grows, ResumeStep
<1>6. RequestOK'
  <2>1. /\ request' \in Request /\ request'.pc = "session" /\ request'.of = request.of
        /\ request'.confirmation = request.confirmation
    BY <1>1 DEF ResumeStep, Request
  <2> QED
    BY <1>1, <2>1 DEF ResumeStep, RequestOK, TypeInv, Started
<1> QED
  BY <1>4, <1>5, <1>6, Reestablished DEF Preserved, ResumeStep

LEMMA ResumeSessionTyped ==
    ASSUME TypeInv, ResumeSession
    PROVE  Preserved
<1> DEFINE s == request.of
           status == IF request.approved THEN "queued" ELSE "cancelled"
<1>1. /\ s \in Sessions /\ Started(s) /\ request.pc = "session" /\ request \in Request
  BY DEF TypeInv, RequestOK, ResumeSession
<1>2. Status(s, status) /\ status \in SessionStatus \ {"none"}
  BY DEF ResumeSession, SessionStatus
<1> HIDE DEF status
<1>3. SessionsOK' /\ SessionsGrow
  BY <1>1, <1>2, StatusIsSet DEF TypeInv
<1>4. Grows
  BY <1>3, UnchangedGrows DEF Grows, ResumeSession
<1>5. RequestOK'
  <2>1. CASE request.approved
    <3>1. /\ request' \in Request /\ request'.pc = "enqueue" /\ request'.of = request.of
      BY <1>1, <2>1 DEF ResumeSession, Request
    <3> QED
      BY <1>1, <1>3, <3>1 DEF RequestOK, SessionsGrow
  <2>2. CASE ~request.approved
    <3>1. request' = NoRequest
      BY <2>2 DEF ResumeSession
    <3> QED
      BY <3>1 DEF RequestOK, NoRequest, Request
  <2> QED
    BY <2>1, <2>2
<1> QED
  BY <1>3, <1>4, <1>5, Reestablished DEF Preserved, ResumeSession

LEMMA NoRequestIsFine == request' = NoRequest => RequestOK'
BY DEF RequestOK, NoRequest, Request

\* A message is added at the end.
LEMMA EnqueueTyped ==
    ASSUME TypeInv, Enqueue
    PROVE  /\ Preserved
           /\ Len(messages') = Len(messages) + 1 /\ DOMAIN messages' = 1..Len(messages')
           /\ messages'[Len(messages')] = [of |-> request.of, count |-> 0, state |-> "new"]
           /\ \A m \in DOMAIN messages : messages'[m] = messages[m]
<1> DEFINE new == [of |-> request.of, count |-> 0, state |-> "new"]
<1>1. request.of \in Sessions /\ Started(request.of)
  BY DEF TypeInv, RequestOK, Enqueue
<1>2. new \in Message
  BY <1>1, ConstantsAssumption DEF Message
<1>3. messages \in Seq(Message) /\ messages' = Append(messages, new)
  BY DEF TypeInv, MessagesOK, Enqueue, Enqueued
<1>4. /\ messages' \in Seq(Message)
      /\ Len(messages') = Len(messages) + 1 /\ DOMAIN messages' = 1..Len(messages')
      /\ messages'[Len(messages')] = new
      /\ \A m \in DOMAIN messages : messages'[m] = messages[m]
  BY <1>2, <1>3, AppendProperties
<1>5. new.of = request.of
  OBVIOUS
<1> HIDE DEF new
<1>6. MessagesGrow
  BY <1>3, <1>4 DEF MessagesGrow
<1>7. Grows
  BY <1>6, UnchangedGrows DEF Grows, Enqueue, rows
<1>8. MessagesOK'
  <2>1. ASSUME NEW m \in DOMAIN messages' PROVE Started(messages'[m].of)
    <3>1. m \in DOMAIN messages \/ m = Len(messages')
      BY <1>3, <1>4
    <3> QED
      BY <1>1, <1>4, <1>5, <3>1, MessagesAreOfSessions DEF TypeInv
  <2> QED
    BY <1>4, <2>1 DEF MessagesOK, Started, Enqueue, rows
<1> QED
  BY <1>4, <1>7, <1>8, NoRequestIsFine, Reestablished DEF Preserved, Enqueue, rows, new

LEMMA FaultIsNoted ==
    ASSUME TypeInv, NEW kind, Fault(kind)
    PROVE  FaultsGrow /\ (faults \in Seq(Faults))' /\ Happened(kind)'
<1>1. /\ faults' \in Seq(Faults) /\ Len(faults') = Len(faults) + 1
      /\ \A i \in 1..Len(faults) : faults'[i] = faults[i]
      /\ faults'[Len(faults) + 1] = kind /\ DOMAIN faults = 1..Len(faults) /\ Len(faults) \in Nat
      /\ DOMAIN faults' = 1..Len(faults')
  BY AppendProperties DEF TypeInv, Fault
<1> QED
  BY <1>1 DEF FaultsGrow, Happened

LEMMA ApiCrashTyped ==
    ASSUME TypeInv, ApiCrash
    PROVE  Preserved /\ Happened("api")'
<1>1. FaultsGrow /\ (faults \in Seq(Faults))' /\ Happened("api")'
  BY FaultIsNoted DEF ApiCrash
<1>2. Grows
  BY <1>1, UnchangedGrows DEF Grows, ApiCrash, rows
<1> QED
  BY <1>1, <1>2, NoRequestIsFine, Reestablished DEF Preserved, ApiCrash, rows

LEMMA CrashTyped ==
    ASSUME TypeInv, NEW w \in Workers, Crash(w)
    PROVE  /\ Preserved /\ Happened("crash")'
           /\ worker'[w] = Off /\ \A v \in Workers \ {w} : worker'[v] = worker[v]
<1>1. FaultsGrow /\ (faults \in Seq(Faults))' /\ Happened("crash")'
  BY FaultIsNoted DEF Crash
<1>2. Grows
  BY <1>1, UnchangedGrows DEF Grows, Crash, rows
<1>3. WorkersOK' /\ worker'[w] = Off /\ \A v \in Workers \ {w} : worker'[v] = worker[v]
  BY <1>2, OffIsFine, WorkerSteps DEF Crash, TypeInv
<1> QED
  BY <1>1, <1>2, <1>3, Reestablished DEF Preserved, Crash, rows

LEMMA LockExpiresTyped ==
    ASSUME TypeInv, NEW s \in Sessions, LockExpires(s)
    PROVE  Preserved /\ (lock[s] \in Running(s) => Happened("slow_lock")')
<1>1. FaultsGrow /\ (faults \in Seq(Faults))' /\ (lock[s] \in Running(s) => Happened("slow_lock")')
  BY FaultIsNoted, UnchangedGrows DEF LockExpires, TypeInv
<1>2. Grows
  BY <1>1, UnchangedGrows DEF Grows, LockExpires, rows
<1>3. LockTyped'
  BY DEF LockExpires, TypeInv, LockTyped
<1> QED
  BY <1>1, <1>2, <1>3, Reestablished DEF Preserved, LockExpires, rows

\* A message of the list changes, not the session it is of.
LEMMA MessageIsSet ==
    ASSUME TypeInv, NEW m \in DOMAIN messages, NEW row \in Message, row.of = messages[m].of,
           messages' = [messages EXCEPT ![m] = row], UNCHANGED session
    PROVE  /\ MessagesOK' /\ MessagesGrow /\ DOMAIN messages' = DOMAIN messages
           /\ messages'[m] = row
           /\ \A n \in DOMAIN messages \ {m} : messages'[n] = messages[n]
<1>1. messages \in Seq(Message) /\ m \in 1..Len(messages) /\ DOMAIN messages = 1..Len(messages)
  BY DEF TypeInv, MessagesOK
<1>2. /\ messages' \in Seq(Message) /\ Len(messages') = Len(messages)
      /\ \A n \in 1..Len(messages) : messages'[n] = IF n = m THEN row ELSE messages[n]
  BY <1>1, ExceptSeq
<1>3. DOMAIN messages' = DOMAIN messages
  BY <1>1, <1>2
<1>4. \A n \in DOMAIN messages : messages'[n].of = messages[n].of /\ Started(messages[n].of)
  BY <1>1, <1>2, MessagesAreOfSessions DEF TypeInv
<1> QED
  BY <1>1, <1>2, <1>3, <1>4 DEF MessagesOK, MessagesGrow, Started

LEMMA AckIsSet ==
    ASSUME TypeInv, NEW m \in DOMAIN messages, Ack(m), UNCHANGED session
    PROVE  /\ MessagesOK' /\ MessagesGrow /\ DOMAIN messages' = DOMAIN messages
           /\ messages'[m].state = "acked" /\ messages'[m].of = messages[m].of
           /\ \A n \in DOMAIN messages \ {m} : messages'[n] = messages[n]
<1> DEFINE row == [messages[m] EXCEPT !.state = "acked"]
<1>1. messages[m] \in Message
  BY DEF TypeInv, MessagesOK
<1>2. row \in Message /\ row.of = messages[m].of /\ row.state = "acked"
  BY <1>1 DEF Message
<1>3. messages' = [messages EXCEPT ![m] = row]
  BY DEF Ack
<1> HIDE DEF row
<1> QED
  BY <1>2, <1>3, MessageIsSet

LEMMA DeliverTyped ==
    ASSUME TypeInv, NEW w \in Workers, NEW m \in DOMAIN messages, Deliver(w, m),
           UNCHANGED <<rows, deadLetters, lock, request>>,
           FaultsGrow, (faults \in Seq(Faults))'
    PROVE  /\ Preserved /\ DOMAIN messages' = DOMAIN messages
           /\ messages'[m].state = "pending" /\ messages'[m].of = messages[m].of
           /\ \A n \in DOMAIN messages \ {m} : messages'[n] = messages[n]
           /\ worker'[w].msg = m /\ worker'[w].pc \in {"lock", "bury"}
           /\ \A v \in Workers \ {w} : worker'[v] = worker[v]
<1> DEFINE count == IF messages[m].count > MaxDeliveries THEN messages[m].count
                    ELSE messages[m].count + 1
           row == [messages[m] EXCEPT !.count = count, !.state = "pending"]
           off == [Off EXCEPT !.pc = IF count > MaxDeliveries THEN "bury" ELSE "lock", !.msg = m]
<1>1. messages[m] \in Message /\ m \in Nat
  BY DEF TypeInv, MessagesOK
<1>2. count \in 0..(MaxDeliveries + 1)
  BY <1>1, ConstantsAssumption DEF Message
<1>3. PICK state : state = off
  OBVIOUS
<1>4. messages' = [messages EXCEPT ![m] = row] /\ worker' = [worker EXCEPT ![w] = state]
  BY <1>3 DEF Deliver
<1>5. state \in WorkerRow /\ state.pc \in {"lock", "bury"} /\ state.msg = m
  BY <1>1, <1>3 DEF Off, WorkerRow, Places
<1> HIDE DEF count
<1>11. row \in Message /\ row.of = messages[m].of /\ row.state = "pending"
  BY <1>1, <1>2 DEF Message
<1> HIDE DEF row
<1>6. /\ MessagesOK' /\ MessagesGrow /\ DOMAIN messages' = DOMAIN messages
      /\ messages'[m] = row
      /\ \A n \in DOMAIN messages \ {m} : messages'[n] = messages[n]
  BY <1>4, <1>11, MessageIsSet DEF rows
<1>7. Grows
  BY <1>6, UnchangedGrows DEF Grows, rows
<1>8. WorkerFine(state)'
  BY <1>5, <1>6 DEF WorkerFine, AtStep
<1>9. WorkersOK' /\ worker'[w] = state /\ \A v \in Workers \ {w} : worker'[v] = worker[v]
  BY <1>4, <1>7, <1>8, WorkerSteps DEF TypeInv
<1>10. TypeInv'
  BY <1>6, <1>7, <1>9, Reestablished DEF rows
<1> QED
  BY <1>5, <1>6, <1>7, <1>9, <1>10, <1>11 DEF Preserved

\* What a delivery does to the queue, whoever it comes from.
Delivered(w) ==
    \E m \in DOMAIN messages :
        /\ worker[w].pc = "off" /\ messages[m].state # "acked"
        /\ messages[m].state = "new" \/ (BusyWith(m) => Happened("slow_claim")')
        /\ DOMAIN messages' = DOMAIN messages
        /\ messages'[m].state = "pending" /\ messages'[m].of = messages[m].of
        /\ \A n \in DOMAIN messages \ {m} : messages'[n] = messages[n]
        /\ worker'[w].msg = m /\ worker'[w].pc \in {"lock", "bury"}
        /\ \A v \in Workers \ {w} : worker'[v] = worker[v]

LEMMA ConsumeTyped ==
    ASSUME TypeInv, NEW w \in Workers, ConsumeClaimed(w) \/ ConsumeNew(w)
    PROVE  /\ Preserved /\ Delivered(w)
           /\ UNCHANGED <<rows, deadLetters, lock, request, sent>>
<1>1. CASE ConsumeClaimed(w)
  <2>1. PICK m \in DOMAIN messages :
           /\ messages[m].state = "pending"
           /\ IF BusyWith(m) THEN Fault("slow_claim") ELSE UNCHANGED faults
           /\ Deliver(w, m)
    BY <1>1 DEF ConsumeClaimed
  <2>2. /\ FaultsGrow /\ (faults \in Seq(Faults))'
        /\ BusyWith(m) => Happened("slow_claim")'
    BY <2>1, FaultIsNoted, UnchangedGrows DEF TypeInv
  <2>3. UNCHANGED <<rows, deadLetters, lock, request, answers, sent>> /\ worker[w].pc = "off"
    BY <1>1 DEF ConsumeClaimed
  <2>4. /\ Preserved /\ DOMAIN messages' = DOMAIN messages
        /\ messages'[m].state = "pending" /\ messages'[m].of = messages[m].of
        /\ \A n \in DOMAIN messages \ {m} : messages'[n] = messages[n]
        /\ worker'[w].msg = m /\ worker'[w].pc \in {"lock", "bury"}
        /\ \A v \in Workers \ {w} : worker'[v] = worker[v]
    BY <2>1, <2>2, <2>3, DeliverTyped
  <2>5. Delivered(w)
    BY <2>1, <2>2, <2>3, <2>4 DEF Delivered
  <2> QED
    BY <2>3, <2>4, <2>5
<1>2. CASE ConsumeNew(w)
  <2> DEFINE new == {n \in DOMAIN messages : messages[n].state = "new"}
             m == FirstOf(new)
  <2>1. new # {} /\ Deliver(w, m) /\ worker[w].pc = "off"
        /\ UNCHANGED <<rows, deadLetters, lock, request, answers, sent, faults>>
    BY <1>2 DEF ConsumeNew
  <2>2. new \subseteq Nat
    BY DEF TypeInv, MessagesOK
  <2>3. m \in new
    BY <2>1, <2>2, FirstIsFirst
  <2>4. m \in DOMAIN messages /\ messages[m].state = "new"
    BY <2>3
  <2> HIDE DEF new, m
  <2>5. FaultsGrow /\ (faults \in Seq(Faults))'
    BY <2>1, UnchangedGrows DEF TypeInv
  <2>6. /\ Preserved /\ DOMAIN messages' = DOMAIN messages
        /\ messages'[m].state = "pending" /\ messages'[m].of = messages[m].of
        /\ \A n \in DOMAIN messages \ {m} : messages'[n] = messages[n]
        /\ worker'[w].msg = m /\ worker'[w].pc \in {"lock", "bury"}
        /\ \A v \in Workers \ {w} : worker'[v] = worker[v]
    BY <2>1, <2>4, <2>5, DeliverTyped
  <2>7. Delivered(w)
    BY <2>1, <2>4, <2>6 DEF Delivered
  <2> QED
    BY <2>1, <2>6, <2>7
<1> QED
  BY <1>1, <1>2

\* Worker w goes on with its message; the others stay where they are.
Moves(w, pc) ==
    /\ worker'[w].pc = pc /\ worker'[w].msg = worker[w].msg
    /\ \A v \in Workers \ {w} : worker'[v] = worker[v]
SameStep(w) == worker'[w].plan = worker[w].plan /\ worker'[w].step = worker[w].step

LEMMA Goes ==
    ASSUME TypeInv, Grows, NEW w \in Workers, NEW pc \in Places \ {"off"}, Goto(w, pc),
           worker[w].pc # "off", pc \in AtStep \cup {"pick"} => worker[w].pc \in AtStep
    PROVE  WorkersOK' /\ Moves(w, pc) /\ SameStep(w) /\ worker'[w].outcome = worker[w].outcome
<1>1. PICK row : row = [worker[w] EXCEPT !.pc = pc]
  OBVIOUS
<1>2. worker' = [worker EXCEPT ![w] = row]
  BY <1>1 DEF Goto
<1>3. worker[w] \in WorkerRow /\ WorkerFine(worker[w])
  BY DEF TypeInv, WorkersOK
<1>4. /\ row \in WorkerRow /\ row.pc = pc /\ row.msg = worker[w].msg
      /\ row.plan = worker[w].plan /\ row.step = worker[w].step
      /\ row.outcome = worker[w].outcome
  BY <1>1, <1>3 DEF WorkerRow
<1>5. WorkerFine(row)
  BY <1>3, <1>4 DEF WorkerFine
<1>6. WorkerFine(row)'
  BY <1>5, FineStays DEF TypeInv
<1>7. WorkersOK' /\ worker'[w] = row /\ \A v \in Workers \ {w} : worker'[v] = worker[v]
  BY <1>2, <1>6, WorkerSteps DEF TypeInv
<1> QED
  BY <1>4, <1>7 DEF Moves, SameStep

LEMMA WorkerIsAt ==
    ASSUME TypeInv, NEW w \in Workers, worker[w].pc # "off"
    PROVE  /\ worker[w].msg \in DOMAIN messages
           /\ Of(w) \in Sessions /\ Started(Of(w))
           /\ worker[w].pc \in AtStep \cup {"pick"} => worker[w].plan \in DOMAIN plans[Of(w)]
           /\ worker[w].pc \in AtStep => worker[w].step \in DOMAIN plans[Of(w)][worker[w].plan].steps
BY MessagesAreOfSessions DEF TypeInv, WorkersOK, WorkerFine, Of

LEMMA BuryFailTyped ==
    ASSUME TypeInv, NEW w \in Workers, BuryFail(w)
    PROVE  /\ Preserved /\ Moves(w, "dead_letter")
           /\ session'[Of(w)].status = "failed"
           /\ \A t \in Sessions \ {Of(w)} : session'[t] = session[t]
<1>1. worker[w].pc = "bury" /\ Of(w) \in Sessions /\ Started(Of(w))
  BY WorkerIsAt DEF BuryFail
<1>2. /\ SessionsOK' /\ SessionsGrow /\ session'[Of(w)].status = "failed"
      /\ \A t \in Sessions \ {Of(w)} : session'[t] = session[t]
  <2>1. "failed" \in SessionStatus \ {"none"} /\ Status(Of(w), "failed")
    BY DEF BuryFail, SessionStatus
  <2> QED
    BY <1>1, <2>1, StatusIsSet DEF TypeInv
<1>3. Grows
  BY <1>2, UnchangedGrows DEF Grows, BuryFail
<1>4. WorkersOK' /\ Moves(w, "dead_letter")
  <2>1. "dead_letter" \in Places \ {"off"} /\ "dead_letter" \notin AtStep \cup {"pick"}
        /\ Goto(w, "dead_letter")
    BY DEF BuryFail, Places, AtStep
  <2> QED
    BY <1>1, <1>3, <2>1, Goes
<1> QED
  BY <1>2, <1>3, <1>4, Reestablished DEF Preserved, BuryFail

LEMMA BuryCopyTyped ==
    ASSUME TypeInv, NEW w \in Workers, BuryCopy(w)
    PROVE  Preserved /\ Moves(w, "ack_dead") /\ worker[w].msg \in DOMAIN messages
<1>1. worker[w].pc = "dead_letter" /\ worker[w].msg \in DOMAIN messages
  BY WorkerIsAt DEF BuryCopy
<1>2. Grows
  BY UnchangedGrows DEF Grows, BuryCopy, rows
<1>3. WorkersOK' /\ Moves(w, "ack_dead")
  <2>1. "ack_dead" \in Places \ {"off"} /\ "ack_dead" \notin AtStep \cup {"pick"}
        /\ Goto(w, "ack_dead")
    BY DEF BuryCopy, Places, AtStep
  <2> QED
    BY <1>1, <1>2, <2>1, Goes
<1>4. (deadLetters \subseteq DOMAIN messages)'
  BY <1>1 DEF BuryCopy, TypeInv
<1> QED
  BY <1>1, <1>2, <1>3, <1>4, Reestablished DEF Preserved, BuryCopy, rows

\* A message is acknowledged.
Acked(m) ==
    /\ DOMAIN messages' = DOMAIN messages
    /\ messages'[m].state = "acked" /\ messages'[m].of = messages[m].of
    /\ \A n \in DOMAIN messages \ {m} : messages'[n] = messages[n]

LEMMA BuryAckTyped ==
    ASSUME TypeInv, NEW w \in Workers, BuryAck(w)
    PROVE  /\ Preserved /\ Acked(worker[w].msg)
           /\ worker'[w] = Off /\ \A v \in Workers \ {w} : worker'[v] = worker[v]
<1>1. worker[w].pc = "ack_dead" /\ worker[w].msg \in DOMAIN messages
  BY WorkerIsAt DEF BuryAck
<1>2. MessagesOK' /\ MessagesGrow /\ Acked(worker[w].msg)
  BY <1>1, AckIsSet DEF BuryAck, rows, Acked
<1>3. Grows
  BY <1>2, UnchangedGrows DEF Grows, BuryAck, rows
<1>4. WorkersOK' /\ worker'[w] = Off /\ \A v \in Workers \ {w} : worker'[v] = worker[v]
  BY <1>3, OffIsFine, WorkerSteps DEF BuryAck, TypeInv
<1> QED
  BY <1>2, <1>3, <1>4, Reestablished DEF Preserved, BuryAck, rows

LEMMA AcquireLockTyped ==
    ASSUME TypeInv, NEW w \in Workers, AcquireLock(w)
    PROVE  /\ Preserved
           /\ \/ /\ lock[Of(w)] = 0 /\ Moves(w, "start")
                 /\ lock'[Of(w)] = w /\ \A t \in Sessions \ {Of(w)} : lock'[t] = lock[t]
              \/ /\ UNCHANGED lock
                 /\ worker'[w] = Off /\ \A v \in Workers \ {w} : worker'[v] = worker[v]
<1>1. worker[w].pc = "lock" /\ Of(w) \in Sessions
  BY WorkerIsAt DEF AcquireLock
<1>2. Grows
  BY UnchangedGrows DEF Grows, AcquireLock, rows
<1>3. CASE lock[Of(w)] = 0
  <2>1. lock' = [lock EXCEPT ![Of(w)] = w] /\ Goto(w, "start")
    BY <1>3 DEF AcquireLock
  <2>2. "start" \in Places \ {"off"} /\ "start" \notin AtStep \cup {"pick"}
    BY DEF Places, AtStep
  <2>3. WorkersOK' /\ Moves(w, "start")
    BY <1>1, <1>2, <2>1, <2>2, Goes
  <2>4. LockTyped' /\ lock'[Of(w)] = w /\ \A t \in Sessions \ {Of(w)} : lock'[t] = lock[t]
    BY <1>1, <2>1 DEF TypeInv, LockTyped
  <2> QED
    BY <1>2, <1>3, <2>3, <2>4, Reestablished DEF Preserved, AcquireLock, rows
<1>4. CASE lock[Of(w)] # 0
  <2>1. worker' = [worker EXCEPT ![w] = Off] /\ UNCHANGED lock
    BY <1>4 DEF AcquireLock
  <2>2. WorkersOK' /\ worker'[w] = Off /\ \A v \in Workers \ {w} : worker'[v] = worker[v]
    BY <1>2, <2>1, OffIsFine, WorkerSteps DEF TypeInv
  <2> QED
    BY <1>2, <2>1, <2>2, Reestablished DEF Preserved, AcquireLock, rows
<1> QED
  BY <1>3, <1>4

LEMMA AckMessageTyped ==
    ASSUME TypeInv, NEW w \in Workers, AckMessage(w)
    PROVE  Preserved /\ Moves(w, "release") /\ Acked(worker[w].msg)
<1>1. worker[w].pc = "ack" /\ worker[w].msg \in DOMAIN messages
  BY WorkerIsAt DEF AckMessage
<1>2. MessagesOK' /\ MessagesGrow /\ Acked(worker[w].msg)
  BY <1>1, AckIsSet DEF AckMessage, rows, Acked
<1>3. Grows
  BY <1>2, UnchangedGrows DEF Grows, AckMessage, rows
<1>4. WorkersOK' /\ Moves(w, "release")
  <2>1. "release" \in Places \ {"off"} /\ "release" \notin AtStep \cup {"pick"} /\ Goto(w, "release")
    BY DEF AckMessage, Places, AtStep
  <2> QED
    BY <1>1, <1>3, <2>1, Goes
<1> QED
  BY <1>2, <1>3, <1>4, Reestablished DEF Preserved, AckMessage, rows

LEMMA ReleaseLockTyped ==
    ASSUME TypeInv, NEW w \in Workers, ReleaseLock(w)
    PROVE  /\ Preserved
           /\ worker'[w] = Off /\ \A v \in Workers \ {w} : worker'[v] = worker[v]
           /\ \A t \in Sessions \ {Of(w)} : lock'[t] = lock[t]
<1>1. worker[w].pc = "release" /\ Of(w) \in Sessions
  BY WorkerIsAt DEF ReleaseLock
<1>2. Grows
  BY UnchangedGrows DEF Grows, ReleaseLock, rows
<1>3. WorkersOK' /\ worker'[w] = Off /\ \A v \in Workers \ {w} : worker'[v] = worker[v]
  BY <1>2, OffIsFine, WorkerSteps DEF ReleaseLock, TypeInv
<1>4. LockTyped' /\ \A t \in Sessions \ {Of(w)} : lock'[t] = lock[t]
  BY <1>1 DEF ReleaseLock, TypeInv, LockTyped
<1> QED
  BY <1>2, <1>3, <1>4, Reestablished DEF Preserved, ReleaseLock, rows

-----------------------------------------------------------------------------
(* The executor's steps.                                                   *)

\* A step of the executor that changes no row (but artifacts, keys and the ghost).
LEMMA GoesOnly ==
    ASSUME TypeInv, NEW w \in Workers, NEW pc \in Places \ {"off"}, Goto(w, pc),
           worker[w].pc # "off", pc \in AtStep \cup {"pick"} => worker[w].pc \in AtStep,
           UNCHANGED <<session, plans, steps, confirmations>>, Untouched
    PROVE  Preserved /\ Moves(w, pc) /\ SameStep(w)
<1>1. Grows
  BY UnchangedGrows DEF Grows, Untouched
<1>2. WorkersOK' /\ Moves(w, pc) /\ SameStep(w)
  BY <1>1, Goes
<1> QED
  BY <1>1, <1>2, Reestablished DEF Preserved, Untouched

\* A step that ends with the session in another status.
LEMMA StatusTyped ==
    ASSUME TypeInv, NEW w \in Workers, NEW status \in SessionStatus \ {"none"},
           NEW pc \in Places \ {"off"}, pc \notin AtStep \cup {"pick"},
           worker[w].pc # "off", Status(Of(w), status), Goto(w, pc),
           UNCHANGED <<plans, steps, confirmations>>, Untouched
    PROVE  /\ Preserved /\ Moves(w, pc) /\ session'[Of(w)].status = status
           /\ \A t \in Sessions \ {Of(w)} : session'[t] = session[t]
           /\ \A t \in Sessions : session'[t].asks = session[t].asks
<1>1. Of(w) \in Sessions /\ Started(Of(w))
  BY WorkerIsAt
<1>2. /\ SessionsOK' /\ SessionsGrow /\ session'[Of(w)].status = status
      /\ \A t \in Sessions \ {Of(w)} : session'[t] = session[t]
      /\ \A t \in Sessions : session'[t].asks = session[t].asks
  BY <1>1, StatusIsSet DEF TypeInv
<1>3. Grows
  BY <1>2, UnchangedGrows DEF Grows, Untouched
<1>4. WorkersOK' /\ Moves(w, pc)
  BY <1>3, Goes
<1> QED
  BY <1>2, <1>3, <1>4, Reestablished DEF Preserved, Untouched

\* A step that ends with the step of the plan in another status.
LEMMA SetStepTyped ==
    ASSUME TypeInv, NEW w \in Workers, NEW status \in StepStatus,
           NEW pc \in Places \ {"off"}, pc \notin AtStep, worker[w].pc \in AtStep,
           SetStep(Of(w), worker[w].plan, worker[w].step, status), Goto(w, pc),
           UNCHANGED <<session, plans, confirmations>>, Untouched
    PROVE  /\ Preserved /\ Moves(w, pc) /\ SameStep(w)
           /\ \A t \in Sessions : \A q \in DOMAIN plans[t] : \A j \in DOMAIN plans[t][q].steps :
                 steps'[t][q][j] =
                     IF t = Of(w) /\ q = worker[w].plan /\ j = worker[w].step THEN status
                     ELSE steps[t][q][j]
<1>1. worker[w].pc # "off"
  BY DEF AtStep
<1>2. /\ Of(w) \in Sessions /\ worker[w].plan \in DOMAIN plans[Of(w)]
      /\ worker[w].step \in DOMAIN plans[Of(w)][worker[w].plan].steps
  BY <1>1, WorkerIsAt
<1>3. /\ StepsOK'
      /\ \A t \in Sessions : \A q \in DOMAIN plans[t] : \A j \in DOMAIN plans[t][q].steps :
                 steps'[t][q][j] =
                     IF t = Of(w) /\ q = worker[w].plan /\ j = worker[w].step THEN status
                     ELSE steps[t][q][j]
  BY <1>2, StepIsSet DEF TypeInv
<1>4. Grows
  BY UnchangedGrows DEF Grows, Untouched
<1>5. WorkersOK' /\ Moves(w, pc) /\ SameStep(w)
  BY <1>1, <1>4, Goes
<1> QED
  BY <1>3, <1>4, <1>5, Reestablished DEF Preserved, Untouched

LEMMA RunSessionTyped ==
    ASSUME TypeInv, NEW w \in Workers, RunSession(w)
    PROVE  /\ Preserved /\ Moves(w, "plan") /\ session'[Of(w)].status = "running"
           /\ \A t \in Sessions \ {Of(w)} : session'[t] = session[t]
           /\ \A t \in Sessions : session'[t].asks = session[t].asks
<1>1. /\ worker[w].pc # "off" /\ Status(Of(w), "running") /\ Goto(w, "plan")
      /\ "running" \in SessionStatus \ {"none"} /\ "plan" \in Places \ {"off"}
      /\ "plan" \notin AtStep \cup {"pick"}
      /\ UNCHANGED <<plans, steps, confirmations>> /\ Untouched
  BY DEF RunSession, SessionStatus, Places, AtStep
<1> QED
  BY <1>1, StatusTyped

LEMMA FailSessionTyped ==
    ASSUME TypeInv, NEW w \in Workers, FailSession(w)
    PROVE  /\ Preserved /\ Moves(w, "ack") /\ session'[Of(w)].status = "failed"
           /\ \A t \in Sessions \ {Of(w)} : session'[t] = session[t]
           /\ \A t \in Sessions : session'[t].asks = session[t].asks
<1>1. /\ worker[w].pc # "off" /\ Status(Of(w), "failed") /\ Goto(w, "ack")
      /\ "failed" \in SessionStatus \ {"none"} /\ "ack" \in Places \ {"off"}
      /\ "ack" \notin AtStep \cup {"pick"}
      /\ UNCHANGED <<plans, steps, confirmations>> /\ Untouched
  BY DEF FailSession, SessionStatus, Places, AtStep
<1> QED
  BY <1>1, StatusTyped

LEMMA FinishSessionTyped ==
    ASSUME TypeInv, NEW w \in Workers, FinishSession(w)
    PROVE  /\ Preserved /\ Moves(w, "ack") /\ session'[Of(w)].status = "success"
           /\ \A t \in Sessions \ {Of(w)} : session'[t] = session[t]
           /\ \A t \in Sessions : session'[t].asks = session[t].asks
<1>1. /\ worker[w].pc # "off" /\ Status(Of(w), "success") /\ Goto(w, "ack")
      /\ "success" \in SessionStatus \ {"none"} /\ "ack" \in Places \ {"off"}
      /\ "ack" \notin AtStep \cup {"pick"}
      /\ UNCHANGED <<plans, steps, confirmations>> /\ Untouched
  BY DEF FinishSession, SessionStatus, Places, AtStep
<1> QED
  BY <1>1, StatusTyped

LEMMA AwaitSessionTyped ==
    ASSUME TypeInv, NEW w \in Workers, AwaitSession(w)
    PROVE  /\ Preserved /\ Moves(w, "ack") /\ session'[Of(w)].status = "waiting_user"
           /\ \A t \in Sessions \ {Of(w)} : session'[t] = session[t]
           /\ \A t \in Sessions : session'[t].asks = session[t].asks
<1>1. /\ worker[w].pc # "off" /\ Status(Of(w), "waiting_user") /\ Goto(w, "ack")
      /\ "waiting_user" \in SessionStatus \ {"none"} /\ "ack" \in Places \ {"off"}
      /\ "ack" \notin AtStep \cup {"pick"}
      /\ UNCHANGED <<plans, steps, confirmations>> /\ Untouched
  BY DEF AwaitSession, SessionStatus, Places, AtStep
<1> QED
  BY <1>1, StatusTyped

LEMMA FindPlanTyped ==
    ASSUME TypeInv, NEW w \in Workers, FindPlan(w)
    PROVE  /\ Preserved
           /\ \/ plans[Of(w)] = << >> /\ Moves(w, "planning")
              \/ /\ plans[Of(w)] # << >> /\ Moves(w, "pick")
                 /\ worker'[w].plan = Len(plans[Of(w)])
<1> DEFINE s == Of(w)
           pc == IF plans[s] = << >> THEN "planning" ELSE "pick"
<1>1. worker[w].pc = "plan" /\ s \in Sessions
  BY WorkerIsAt DEF FindPlan
<1>2. plans[s] \in Seq(StoredPlans) /\ Len(plans[s]) \in Nat /\ DOMAIN plans[s] = 1..Len(plans[s])
  BY <1>1 DEF TypeInv, PlansOK
<1>3. plans[s] # << >> => Len(plans[s]) \in DOMAIN plans[s]
  BY <1>2, EmptySeq
<1>4. PICK row : row = [worker[w] EXCEPT !.plan = Len(plans[s]), !.pc = pc]
  OBVIOUS
<1>5. worker' = [worker EXCEPT ![w] = row]
  BY <1>4 DEF FindPlan
<1>6. worker[w] \in WorkerRow /\ worker[w].msg \in DOMAIN messages
  BY <1>1 DEF TypeInv, WorkersOK, WorkerFine
<1>7. /\ row \in WorkerRow /\ row.pc = pc /\ row.msg = worker[w].msg /\ row.plan = Len(plans[s])
  BY <1>2, <1>4, <1>6 DEF WorkerRow, Places
<1>8. Grows /\ UNCHANGED <<messages, plans>>
  BY UnchangedGrows DEF Grows, FindPlan, rows, Untouched
<1>9. WorkerFine(row)'
  BY <1>3, <1>6, <1>7, <1>8 DEF WorkerFine, AtStep, Of
<1>10. WorkersOK' /\ worker'[w] = row /\ \A v \in Workers \ {w} : worker'[v] = worker[v]
  BY <1>5, <1>8, <1>9, WorkerSteps DEF TypeInv
<1>11. TypeInv'
  BY <1>8, <1>10, Reestablished DEF FindPlan, rows, Untouched
<1> QED
  BY <1>7, <1>8, <1>10, <1>11 DEF Preserved, Moves

\* A plan is stored behind the others, with all of its steps pending.
LEMMA SavePlanTyped ==
    ASSUME TypeInv, NEW w \in Workers, SavePlan(w)
    PROVE  /\ Preserved /\ Moves(w, "pick")
           /\ Len(plans'[Of(w)]) = Len(plans[Of(w)]) + 1
           /\ worker'[w].plan = Len(plans'[Of(w)])
           /\ \A t \in Sessions \ {Of(w)} : plans'[t] = plans[t] /\ steps'[t] = steps[t]
           /\ \A p \in DOMAIN plans[Of(w)] : steps'[Of(w)][p] = steps[Of(w)][p]
           /\ \A i \in DOMAIN plans'[Of(w)][Len(plans'[Of(w)])].steps :
                 steps'[Of(w)][Len(plans'[Of(w)])][i] = "pending"
<1>1. PICK s : s = Of(w)
  OBVIOUS
<1>2. s \in Sessions /\ Started(s) /\ worker[w].msg \in DOMAIN messages /\ worker[w] \in WorkerRow
  BY <1>1, WorkerIsAt DEF SavePlan, TypeInv, WorkersOK
<1>3. PICK raw \in RawPlans(session[s].asks) :
         LET plan == NormalizeWriteValidationArtifact(raw) IN
         /\ ValidateWorkflowPlan(raw)
         /\ plans' = [plans EXCEPT ![s] = Append(@, plan)]
         /\ steps' = [steps EXCEPT ![s] = Append(@, [i \in DOMAIN plan.steps |-> "pending"])]
         /\ worker' = [worker EXCEPT ![w].plan = Len(plans'[s]), ![w].pc = "pick"]
  BY <1>1 DEF SavePlan
<1>4. PICK plan : plan = NormalizeWriteValidationArtifact(raw)
  OBVIOUS
<1>5. plan \in StoredPlans
  <2>1. session[s].asks \in Asked
    BY <1>2 DEF TypeInv, SessionsOK
  <2> QED
    BY <1>3, <1>4, <2>1 DEF StoredPlans
<1>6. PICK fresh : fresh = [i \in DOMAIN plan.steps |-> "pending"]
  OBVIOUS
<1>7. fresh \in [DOMAIN plan.steps -> StepStatus] /\ fresh \in StepRows
  <2>1. fresh \in [DOMAIN plan.steps -> StepStatus]
    BY <1>6 DEF StepStatus
  <2> QED
    BY <1>5, <2>1 DEF StepRows
<1>8. /\ plans[s] \in Seq(StoredPlans) /\ steps[s] \in Seq(StepRows)
      /\ DOMAIN steps[s] = DOMAIN plans[s] /\ Len(steps[s]) = Len(plans[s])
      /\ Len(plans[s]) \in Nat /\ DOMAIN plans[s] = 1..Len(plans[s])
  BY <1>2 DEF TypeInv, PlansOK, StepsOK
<1> DEFINE n == Len(plans[s]) + 1
<1>9. /\ Append(plans[s], plan) \in Seq(StoredPlans) /\ Len(Append(plans[s], plan)) = n
      /\ DOMAIN Append(plans[s], plan) = 1..n
      /\ Append(plans[s], plan)[n] = plan
      /\ \A p \in DOMAIN plans[s] : Append(plans[s], plan)[p] = plans[s][p]
  BY <1>5, <1>8, AppendProperties
<1>10. /\ Append(steps[s], fresh) \in Seq(StepRows) /\ DOMAIN Append(steps[s], fresh) = 1..n
       /\ Append(steps[s], fresh)[n] = fresh
       /\ \A p \in DOMAIN plans[s] : Append(steps[s], fresh)[p] = steps[s][p]
  <2>1. /\ Append(steps[s], fresh) \in Seq(StepRows)
        /\ Len(Append(steps[s], fresh)) = Len(steps[s]) + 1
        /\ Append(steps[s], fresh)[Len(steps[s]) + 1] = fresh
        /\ \A p \in 1..Len(steps[s]) : Append(steps[s], fresh)[p] = steps[s][p]
    BY <1>7, <1>8, AppendProperties
  <2>2. DOMAIN Append(steps[s], fresh) = 1..Len(Append(steps[s], fresh))
    BY <2>1, LenProperties
  <2> QED
    BY <1>8, <2>1, <2>2
<1>11. /\ plans' = [plans EXCEPT ![s] = Append(plans[s], plan)]
       /\ steps' = [steps EXCEPT ![s] = Append(steps[s], fresh)]
  BY <1>3, <1>4, <1>6
<1>12. /\ plans' \in [Sessions -> Seq(StoredPlans)]
       /\ plans'[s] = Append(plans[s], plan) /\ \A t \in Sessions \ {s} : plans'[t] = plans[t]
  BY <1>2, <1>9, <1>11 DEF TypeInv, PlansOK
<1>13. /\ steps' \in [Sessions -> Seq(StepRows)]
       /\ steps'[s] = Append(steps[s], fresh) /\ \A t \in Sessions \ {s} : steps'[t] = steps[t]
  BY <1>2, <1>10, <1>11 DEF TypeInv, StepsOK
<1> HIDE DEF n
<1>14. PlansGrow
  BY <1>9, <1>12 DEF PlansGrow
<1>15. Grows /\ UNCHANGED <<session, confirmations, messages>>
  BY <1>14, UnchangedGrows DEF Grows, SavePlan, Untouched
<1>16. PlansOK'
  BY <1>2, <1>12, <1>15 DEF TypeInv, PlansOK, Started
<1>17. StepsOK'
  <2>1. /\ DOMAIN steps'[s] = DOMAIN plans'[s]
        /\ \A p \in DOMAIN plans'[s] : steps'[s][p] \in [DOMAIN plans'[s][p].steps -> StepStatus]
    <3>1. ASSUME NEW p \in DOMAIN plans'[s]
          PROVE  steps'[s][p] \in [DOMAIN plans'[s][p].steps -> StepStatus]
      <4>1. CASE p = n
        BY <1>7, <1>9, <1>10, <1>12, <1>13, <4>1
      <4>2. CASE p # n
        <5>1. p \in DOMAIN plans[s]
          BY <1>8, <1>9, <1>12, <4>2 DEF n
        <5>2. steps[s][p] \in [DOMAIN plans[s][p].steps -> StepStatus]
          BY <1>2, <5>1 DEF TypeInv, StepsOK
        <5> QED
          BY <1>9, <1>10, <1>12, <1>13, <5>1, <5>2
      <4> QED
        BY <4>1, <4>2
    <3> QED
      BY <1>9, <1>10, <1>12, <1>13, <3>1
  <2>2. ASSUME NEW t \in Sessions \ {s}
        PROVE  /\ DOMAIN steps'[t] = DOMAIN plans'[t]
               /\ \A p \in DOMAIN plans'[t] : steps'[t][p] \in [DOMAIN plans'[t][p].steps -> StepStatus]
    BY <1>12, <1>13 DEF TypeInv, StepsOK
  <2> QED
    BY <1>13, <2>1, <2>2 DEF StepsOK
<1>18. PICK row : row = [worker[w] EXCEPT !.plan = n, !.pc = "pick"]
  OBVIOUS
<1>25. Len(plans'[s]) = n /\ n \in Nat
  BY <1>8, <1>9, <1>12 DEF n
<1>19. worker' = [worker EXCEPT ![w] = row]
  <2>1. worker' = [worker EXCEPT ![w].plan = n, ![w].pc = "pick"]
    BY <1>3, <1>25
  <2> QED
    BY <1>18, <2>1
<1>20. /\ row \in WorkerRow /\ row.pc = "pick" /\ row.msg = worker[w].msg /\ row.plan = n
       /\ n \in 1..n
  <2>1. "pick" \in Places /\ n \in 1..n
    BY <1>8 DEF Places, n
  <2> QED
    BY <1>2, <1>18, <1>25, <2>1 DEF WorkerRow
<1>21. WorkerFine(row)'
  BY <1>1, <1>2, <1>9, <1>12, <1>15, <1>20 DEF WorkerFine, AtStep, Of
<1>22. WorkersOK' /\ worker'[w] = row /\ \A v \in Workers \ {w} : worker'[v] = worker[v]
  BY <1>15, <1>19, <1>21, WorkerSteps DEF TypeInv
<1>23. TypeInv'
  BY <1>15, <1>16, <1>17, <1>22, Reestablished DEF SavePlan, Untouched
<1>24. \A i \in DOMAIN plan.steps : fresh[i] = "pending"
  BY <1>6
<1> QED
  BY <1>1, <1>9, <1>10, <1>12, <1>13, <1>15, <1>20, <1>22, <1>23, <1>24 DEF Preserved, Moves, n

LEMMA PlanFailsTyped ==
    ASSUME TypeInv, NEW w \in Workers, PlanFails(w)
    PROVE  Preserved /\ Moves(w, "fail_session")
<1>1. /\ worker[w].pc # "off" /\ Goto(w, "fail_session")
      /\ "fail_session" \in Places \ {"off"} /\ "fail_session" \notin AtStep \cup {"pick"}
      /\ UNCHANGED <<session, plans, steps, confirmations>> /\ Untouched
  BY DEF PlanFails, Places, AtStep, rows
<1> QED
  BY <1>1, GoesOnly

LEMMA BuildStepContextTyped ==
    ASSUME TypeInv, NEW w \in Workers, BuildStepContext(w)
    PROVE  Preserved /\ SameStep(w) /\ (Moves(w, "execute") \/ Moves(w, "fail_session"))
<1>1. /\ worker[w].pc # "off" /\ worker[w].pc \in AtStep
      /\ Goto(w, "execute") \/ Goto(w, "fail_session")
      /\ UNCHANGED <<session, plans, steps, confirmations>> /\ Untouched
  BY DEF BuildStepContext, AtStep, rows
<1>2. "execute" \in Places \ {"off"} /\ "fail_session" \in Places \ {"off"}
  BY DEF Places
<1>3. CASE Goto(w, "execute")
  BY <1>1, <1>2, <1>3, GoesOnly
<1>4. CASE Goto(w, "fail_session")
  BY <1>1, <1>2, <1>4, GoesOnly
<1> QED
  BY <1>1, <1>3, <1>4

LEMMA StepRaisesTyped ==
    ASSUME TypeInv, NEW w \in Workers, StepRaises(w)
    PROVE  Preserved /\ Moves(w, "fail_step") /\ SameStep(w)
<1>1. /\ worker[w].pc # "off" /\ worker[w].pc \in AtStep /\ Goto(w, "fail_step")
      /\ "fail_step" \in Places \ {"off"}
      /\ UNCHANGED <<session, plans, steps, confirmations>> /\ Untouched
  BY DEF StepRaises, Places, AtStep, rows
<1> QED
  BY <1>1, GoesOnly

LEMMA SaveStepOutputTyped ==
    ASSUME TypeInv, NEW w \in Workers, SaveStepOutput(w)
    PROVE  /\ Preserved /\ SameStep(w) /\ worker'[w].outcome = worker[w].outcome
           /\ Moves(w, IF IsWrite(StepOf(w)) THEN "mark" ELSE "done")
<1> DEFINE next == IF IsWrite(StepOf(w)) THEN "mark" ELSE "done"
<1>1. PICK pc : pc = next
  OBVIOUS
<1>2. /\ worker[w].pc # "off" /\ worker[w].pc \in AtStep /\ Goto(w, pc)
      /\ pc \in Places \ {"off"}
      /\ UNCHANGED <<session, plans, steps, confirmations>> /\ Untouched
  BY <1>1 DEF SaveStepOutput, Places, AtStep
<1>3. Grows
  BY <1>2, UnchangedGrows DEF Grows, Untouched
<1> HIDE DEF next
<1>4. Preserved /\ Moves(w, pc) /\ SameStep(w)
  BY <1>2, GoesOnly
<1>5. worker'[w].outcome = worker[w].outcome
  BY <1>2, <1>3, Goes
<1> QED
  BY <1>1, <1>4, <1>5 DEF next

LEMMA MarkIdempotencyTyped ==
    ASSUME TypeInv, NEW w \in Workers, MarkIdempotency(w)
    PROVE  Preserved /\ Moves(w, "done") /\ SameStep(w)
<1>1. /\ worker[w].pc # "off" /\ worker[w].pc \in AtStep /\ Goto(w, "done")
      /\ "done" \in Places \ {"off"}
      /\ UNCHANGED <<session, plans, steps, confirmations>> /\ Untouched
  BY DEF MarkIdempotency, Places, AtStep
<1> QED
  BY <1>1, GoesOnly

\* A step that is waiting to be run, or for the user, is open.
Open(status) == status \in {"pending", "waiting_user"}

\* What a worker that picks a step finds.
Picked(w, i) ==
    /\ i \in DOMAIN plans[Of(w)][worker[w].plan].steps
    /\ Open(steps[Of(w)][worker[w].plan][i])
    /\ \A j \in DOMAIN plans[Of(w)][worker[w].plan].steps :
          Open(steps[Of(w)][worker[w].plan][j]) => i <= j
    /\ worker'[w].step = i

LEMMA NextPendingIsFirst ==
    ASSUME TypeInv, NEW w \in Workers, worker[w].pc = "pick"
    PROVE  LET list == steps[Of(w)][worker[w].plan]
               i == NextPendingStep(list)
           IN  i # 0 => /\ i \in Nat /\ i \in DOMAIN plans[Of(w)][worker[w].plan].steps
                        /\ Open(list[i])
                        /\ \A j \in DOMAIN plans[Of(w)][worker[w].plan].steps : Open(list[j]) => i <= j
<1> DEFINE list == steps[Of(w)][worker[w].plan]
           open == {i \in DOMAIN list : list[i] \in {"pending", "waiting_user"}}
<1>1. Of(w) \in Sessions /\ worker[w].plan \in DOMAIN plans[Of(w)]
  BY WorkerIsAt DEF AtStep
<1>2. /\ DOMAIN list = DOMAIN plans[Of(w)][worker[w].plan].steps
      /\ plans[Of(w)][worker[w].plan] \in StoredPlans
  BY <1>1 DEF TypeInv, StepsOK, PlansOK
<1>3. DOMAIN list \subseteq Nat \ {0}
  BY <1>2, StoredPlansArePlans
<1>4. NextPendingStep(list) = FirstOf(open)
  BY DEF NextPendingStep
<1>5. open \subseteq Nat
  BY <1>3
<1>6. FirstOf(open) # 0 => open # {}
  BY DEF FirstOf
<1> QED
  BY <1>2, <1>4, <1>5, <1>6, FirstIsFirst DEF Open

LEMMA PickStepTyped ==
    ASSUME TypeInv, NEW w \in Workers, PickStep(w)
    PROVE  /\ Preserved /\ worker'[w].plan = worker[w].plan
           /\ \/ Moves(w, "finish") /\ UNCHANGED steps
              \/ \E i \in Nat :
                    /\ Picked(w, i)
                    /\ \/ /\ plans[Of(w)][worker[w].plan].steps[i].kind = "confirm"
                          /\ Moves(w, "confirm") /\ UNCHANGED steps
                       \/ /\ plans[Of(w)][worker[w].plan].steps[i].kind # "confirm"
                          /\ Moves(w, "context")
                          /\ \A t \in Sessions : \A q \in DOMAIN plans[t] :
                                \A j \in DOMAIN plans[t][q].steps :
                                   steps'[t][q][j] =
                                       IF t = Of(w) /\ q = worker[w].plan /\ j = i THEN "running"
                                       ELSE steps[t][q][j]
<1>1. PICK s, p, i : s = Of(w) /\ p = worker[w].plan /\ i = NextPendingStep(steps[s][p])
  OBVIOUS
<1>2. /\ worker[w].pc = "pick" /\ worker[w].pc # "off" /\ s \in Sessions /\ p \in DOMAIN plans[s]
      /\ worker[w] \in WorkerRow /\ worker[w].msg \in DOMAIN messages
  BY <1>1, WorkerIsAt DEF PickStep, AtStep, TypeInv, WorkersOK
<1>3. i # 0 => /\ i \in Nat /\ i \in DOMAIN plans[s][p].steps /\ Open(steps[s][p][i])
               /\ \A j \in DOMAIN plans[s][p].steps : Open(steps[s][p][j]) => i <= j
  BY <1>1, <1>2, NextPendingIsFirst
<1>4. Grows /\ UNCHANGED <<plans, confirmations, session>> /\ Untouched
  BY UnchangedGrows DEF Grows, PickStep, Untouched
<1>5. CASE i = 0
  <2>1. Goto(w, "finish") /\ UNCHANGED steps /\ "finish" \in Places \ {"off"}
        /\ "finish" \notin AtStep \cup {"pick"}
    BY <1>1, <1>5 DEF PickStep, Places, AtStep
  <2>2. Preserved /\ Moves(w, "finish") /\ SameStep(w)
    BY <1>2, <1>4, <2>1, GoesOnly
  <2> QED
    BY <2>1, <2>2 DEF SameStep
<1>6. ASSUME i # 0, NEW pc \in {"confirm", "context"},
             worker' = [worker EXCEPT ![w].step = i, ![w].pc = pc]
      PROVE  /\ WorkersOK' /\ Moves(w, pc) /\ worker'[w].step = i
             /\ worker'[w].plan = worker[w].plan
  <2>1. PICK row : row = [worker[w] EXCEPT !.step = i, !.pc = pc]
    OBVIOUS
  <2>2. worker' = [worker EXCEPT ![w] = row]
    BY <1>6, <2>1
  <2>3. /\ row \in WorkerRow /\ row.pc = pc /\ row.msg = worker[w].msg /\ row.plan = p
        /\ row.step = i
    <3>1. pc \in Places
      BY DEF Places
    <3> QED
      BY <1>1, <1>2, <1>3, <1>6, <2>1, <3>1 DEF WorkerRow
  <2>4. WorkerFine(row)
    BY <1>1, <1>2, <1>3, <1>6, <2>3 DEF WorkerFine, Of
  <2>5. WorkerFine(row)'
    BY <1>4, <2>4, FineStays DEF TypeInv
  <2>6. WorkersOK' /\ worker'[w] = row /\ \A v \in Workers \ {w} : worker'[v] = worker[v]
    BY <1>4, <2>2, <2>5, WorkerSteps DEF TypeInv
  <2> QED
    BY <1>1, <2>3, <2>6 DEF Moves
<1>7. CASE i # 0 /\ plans[s][p].steps[i].kind = "confirm"
  <2>1. worker' = [worker EXCEPT ![w].step = i, ![w].pc = "confirm"] /\ UNCHANGED steps
    BY <1>1, <1>7 DEF PickStep
  <2>2. /\ WorkersOK' /\ Moves(w, "confirm") /\ worker'[w].step = i
        /\ worker'[w].plan = worker[w].plan
    BY <1>6, <1>7, <2>1
  <2>3. TypeInv'
    BY <1>4, <2>1, <2>2, Reestablished DEF Untouched
  <2>4. Picked(w, i)
    BY <1>1, <1>3, <1>7, <2>2 DEF Picked
  <2> QED
    BY <1>1, <1>3, <1>4, <1>7, <2>1, <2>2, <2>3, <2>4 DEF Preserved
<1>8. CASE i # 0 /\ plans[s][p].steps[i].kind # "confirm"
  <2>1. /\ worker' = [worker EXCEPT ![w].step = i, ![w].pc = "context"]
        /\ SetStep(s, p, i, "running") /\ "running" \in StepStatus
    BY <1>1, <1>8 DEF PickStep, StepStatus
  <2>2. /\ WorkersOK' /\ Moves(w, "context") /\ worker'[w].step = i
        /\ worker'[w].plan = worker[w].plan
    BY <1>6, <1>8, <2>1
  <2>3. /\ StepsOK'
        /\ \A t \in Sessions : \A q \in DOMAIN plans[t] : \A j \in DOMAIN plans[t][q].steps :
              steps'[t][q][j] = IF t = s /\ q = p /\ j = i THEN "running" ELSE steps[t][q][j]
    BY <1>2, <1>3, <1>4, <1>8, <2>1, StepIsSet DEF TypeInv
  <2>4. TypeInv'
    BY <1>4, <2>2, <2>3, Reestablished DEF Untouched
  <2>5. Picked(w, i)
    BY <1>1, <1>3, <1>8, <2>2 DEF Picked
  <2> QED
    BY <1>1, <1>3, <1>4, <1>8, <2>2, <2>3, <2>4, <2>5 DEF Preserved
<1> QED
  BY <1>5, <1>7, <1>8

LEMMA OutcomeTyped ==
    ASSUME TypeInv, NEW w \in Workers, NEW outcome \in {"ok", "error"}, worker[w].pc = "execute",
           worker' = [worker EXCEPT ![w].pc = "save", ![w].outcome = outcome],
           UNCHANGED rows, Untouched
    PROVE  Preserved /\ Moves(w, "save") /\ SameStep(w) /\ worker'[w].outcome = outcome
<1>1. Grows
  BY UnchangedGrows DEF Grows, Untouched, rows
<1>2. worker[w] \in WorkerRow /\ WorkerFine(worker[w]) /\ worker[w].pc \in AtStep
  BY DEF TypeInv, WorkersOK, AtStep
<1>3. PICK row : row = [worker[w] EXCEPT !.pc = "save", !.outcome = outcome]
  OBVIOUS
<1>4. worker' = [worker EXCEPT ![w] = row]
  BY <1>3
<1>5. /\ row \in WorkerRow /\ row.pc = "save" /\ row.msg = worker[w].msg
      /\ row.plan = worker[w].plan /\ row.step = worker[w].step /\ row.outcome = outcome
  <2>1. "save" \in Places
    BY DEF Places
  <2> QED
    BY <1>2, <1>3, <2>1 DEF WorkerRow
<1>6. WorkerFine(row)
  BY <1>2, <1>5 DEF WorkerFine, AtStep
<1>7. WorkerFine(row)'
  BY <1>1, <1>6, FineStays DEF TypeInv
<1>8. WorkersOK' /\ worker'[w] = row /\ \A v \in Workers \ {w} : worker'[v] = worker[v]
  BY <1>1, <1>4, <1>7, WorkerSteps DEF TypeInv
<1>9. TypeInv'
  BY <1>1, <1>8, Reestablished DEF rows, Untouched
<1> QED
  BY <1>1, <1>5, <1>8, <1>9 DEF Preserved, Moves, SameStep

LEMMA ExecuteTyped ==
    ASSUME TypeInv, NEW w \in Workers, ExecuteStep(w) \/ SkipWrite(w)
    PROVE  Preserved /\ Moves(w, "save") /\ SameStep(w)
<1>1. /\ worker[w].pc = "execute" /\ UNCHANGED rows /\ Untouched /\ "ok" \in {"ok", "error"}
      /\ worker' = [worker EXCEPT ![w].pc = "save", ![w].outcome = "ok"]
  BY DEF ExecuteStep, SkipWrite
<1> QED
  BY <1>1, OutcomeTyped

\* The entry a write leaves.
WriteOf(w, outcome) ==
    [of |-> Of(w), plan |-> worker[w].plan, step |-> worker[w].step, outcome |-> outcome,
     refused |-> \E g \in GatesBefore(PlanOf(w), worker[w].step) :
                     "rejected" \in Answered(Of(w), worker[w].plan, g)]

LEMMA SendWriteTyped ==
    ASSUME TypeInv, NEW w \in Workers, SendWrite(w)
    PROVE  /\ Preserved /\ Moves(w, "save") /\ SameStep(w) /\ worker'[w].outcome \in {"ok", "error"}
           /\ sent' = Append(sent, WriteOf(w, worker'[w].outcome))
<1>1. PICK outcome \in {"ok", "error"} :
         /\ worker' = [worker EXCEPT ![w].pc = "save", ![w].outcome = outcome]
         /\ sent' = Append(sent, WriteOf(w, outcome))
  BY DEF SendWrite, WriteOf
<1>2. worker[w].pc = "execute" /\ UNCHANGED rows /\ Untouched
  BY DEF SendWrite
<1> QED
  BY <1>1, <1>2, OutcomeTyped

LEMMA StepDoneTyped ==
    ASSUME TypeInv, NEW w \in Workers, StepDone(w)
    PROVE  /\ Preserved /\ Moves(w, "pick") /\ SameStep(w)
           /\ \A t \in Sessions : \A q \in DOMAIN plans[t] : \A j \in DOMAIN plans[t][q].steps :
                 steps'[t][q][j] =
                     IF t = Of(w) /\ q = worker[w].plan /\ j = worker[w].step THEN "success"
                     ELSE steps[t][q][j]
<1>1. /\ worker[w].pc \in AtStep /\ "success" \in StepStatus /\ "pick" \in Places \ {"off"}
      /\ "pick" \notin AtStep /\ Goto(w, "pick")
      /\ SetStep(Of(w), worker[w].plan, worker[w].step, "success")
      /\ UNCHANGED <<session, plans, confirmations>> /\ Untouched
  BY DEF StepDone, AtStep, StepStatus, Places
<1> QED
  BY <1>1, SetStepTyped

LEMMA FailStepTyped ==
    ASSUME TypeInv, NEW w \in Workers, FailStep(w)
    PROVE  /\ Preserved /\ Moves(w, "fail_session") /\ SameStep(w)
           /\ \A t \in Sessions : \A q \in DOMAIN plans[t] : \A j \in DOMAIN plans[t][q].steps :
                 steps'[t][q][j] =
                     IF t = Of(w) /\ q = worker[w].plan /\ j = worker[w].step THEN "failed"
                     ELSE steps[t][q][j]
<1>1. /\ worker[w].pc \in AtStep /\ "failed" \in StepStatus /\ "fail_session" \in Places \ {"off"}
      /\ "fail_session" \notin AtStep /\ Goto(w, "fail_session")
      /\ SetStep(Of(w), worker[w].plan, worker[w].step, "failed")
      /\ UNCHANGED <<session, plans, confirmations>> /\ Untouched
  BY DEF FailStep, AtStep, StepStatus, Places
<1> QED
  BY <1>1, SetStepTyped

LEMMA AwaitStepTyped ==
    ASSUME TypeInv, NEW w \in Workers, AwaitStep(w)
    PROVE  /\ Preserved /\ Moves(w, "await_session") /\ SameStep(w)
           /\ \A t \in Sessions : \A q \in DOMAIN plans[t] : \A j \in DOMAIN plans[t][q].steps :
                 steps'[t][q][j] =
                     IF t = Of(w) /\ q = worker[w].plan /\ j = worker[w].step THEN "waiting_user"
                     ELSE steps[t][q][j]
<1>1. /\ worker[w].pc \in AtStep /\ "waiting_user" \in StepStatus
      /\ "await_session" \in Places \ {"off"}
      /\ "await_session" \notin AtStep /\ Goto(w, "await_session")
      /\ SetStep(Of(w), worker[w].plan, worker[w].step, "waiting_user")
      /\ UNCHANGED <<session, plans, confirmations>> /\ Untouched
  BY DEF AwaitStep, AtStep, StepStatus, Places
<1> QED
  BY <1>1, SetStepTyped

\* A question is open for the session.
AsksUser(s) == \E c \in DOMAIN confirmations[s] : confirmations[s][c].status = "waiting"

LEMMA RunConfirmStepTyped ==
    ASSUME TypeInv, NEW w \in Workers, RunConfirmStep(w)
    PROVE  /\ Preserved /\ SameStep(w)
           /\ \/ Moves(w, "await") /\ AsksUser(Of(w))'
              \/ Moves(w, "fail_session")
           /\ \A t \in Sessions : \A c \in DOMAIN confirmations[t] :
                 confirmations'[t][c] = confirmations[t][c]
<1>1. PICK s, row : s = Of(w)
                    /\ row = [plan |-> worker[w].plan, step |-> worker[w].step, status |-> "waiting"]
  OBVIOUS
<1>2. /\ worker[w].pc = "confirm" /\ worker[w].pc # "off" /\ worker[w].pc \in AtStep
      /\ UNCHANGED <<session, plans, steps>> /\ Untouched
  BY DEF RunConfirmStep, AtStep
<1>3. "await" \in Places \ {"off"} /\ "fail_session" \in Places \ {"off"}
  BY DEF Places
<1>4. s \in Sessions /\ row \in Confirmation /\ IsOf(row, s) /\ row.status = "waiting"
  <2>1. s \in Sessions /\ IsOf(row, s)
    BY <1>1, <1>2, WorkerIsAt DEF IsOf
  <2>2. worker[w] \in WorkerRow
    BY DEF TypeInv, WorkersOK
  <2> QED
    BY <1>1, <2>1, <2>2 DEF WorkerRow, Confirmation
<1>5. CASE AsksUser(s) /\ Goto(w, "await") /\ UNCHANGED confirmations
  <2>1. Preserved /\ Moves(w, "await") /\ SameStep(w)
    BY <1>2, <1>3, <1>5, GoesOnly
  <2>2. Of(w)' = s
    BY <1>1, <1>2, <2>1 DEF Of, Moves, Untouched
  <2> QED
    BY <1>5, <2>1, <2>2 DEF AsksUser
<1>6. CASE Goto(w, "fail_session") /\ UNCHANGED confirmations
  <2>1. Preserved /\ Moves(w, "fail_session") /\ SameStep(w)
    BY <1>2, <1>3, <1>6, GoesOnly
  <2> QED
    BY <1>6, <2>1
<1>7. CASE /\ confirmations' = [confirmations EXCEPT ![s] = Append(confirmations[s], row)]
           /\ Goto(w, "await")
  <2>1. PICK list : list = Append(confirmations[s], row)
    OBVIOUS
  <2>2. confirmations[s] \in Seq(Confirmation)
    BY <1>4 DEF TypeInv, ConfirmationsOK
  <2>3. /\ list \in Seq(Confirmation) /\ Len(list) = Len(confirmations[s]) + 1
        /\ list[Len(list)] = row
        /\ \A c \in 1..Len(confirmations[s]) : list[c] = confirmations[s][c]
    BY <1>4, <2>1, <2>2, AppendProperties
  <2>4. /\ DOMAIN confirmations[s] = 1..Len(confirmations[s]) /\ Len(confirmations[s]) \in Nat
        /\ DOMAIN list = 1..Len(list)
    BY <2>2, <2>3, LenProperties
  <2>5. /\ confirmations' \in [Sessions -> Seq(Confirmation)] /\ confirmations'[s] = list
        /\ \A t \in Sessions \ {s} : confirmations'[t] = confirmations[t]
    BY <1>4, <1>7, <2>1, <2>3 DEF TypeInv, ConfirmationsOK
  <2>6. \A t \in Sessions : \A c \in DOMAIN confirmations[t] :
           c \in DOMAIN confirmations'[t] /\ confirmations'[t][c] = confirmations[t][c]
    BY <2>3, <2>4, <2>5
  <2>7. ConfirmationsGrow
    BY <2>6 DEF ConfirmationsGrow
  <2>8. Grows
    BY <1>2, <2>7, UnchangedGrows DEF Grows, Untouched
  <2>9. ConfirmationsOK'
    <3>1. ASSUME NEW t \in Sessions, NEW c \in DOMAIN confirmations'[t]
          PROVE  IsOf(confirmations'[t][c], t)
      <4>1. CASE c \in DOMAIN confirmations[t]
        <5>1. IsOf(confirmations[t][c], t)
          BY <4>1 DEF TypeInv, ConfirmationsOK
        <5> QED
          BY <2>6, <4>1, <5>1
      <4>2. CASE c \notin DOMAIN confirmations[t]
        <5>1. t = s /\ c = Len(list)
          BY <2>3, <2>4, <2>5, <4>2
        <5> QED
          BY <1>4, <2>3, <2>5, <5>1
      <4> QED
        BY <4>1, <4>2
    <3> QED
      BY <1>2, <2>5, <3>1 DEF ConfirmationsOK, IsOf
  <2>10. WorkersOK' /\ Moves(w, "await") /\ SameStep(w)
    BY <1>2, <1>3, <1>7, <2>8, Goes
  <2>11. TypeInv'
    BY <1>2, <2>8, <2>9, <2>10, Reestablished DEF Untouched
  <2>12. AsksUser(s)'
    BY <1>4, <2>3, <2>4, <2>5 DEF AsksUser
  <2>13. Of(w)' = s
    BY <1>1, <1>2, <2>10 DEF Of, Moves, Untouched
  <2> QED
    BY <2>6, <2>8, <2>10, <2>11, <2>12, <2>13 DEF Preserved, AsksUser
<1>8. \/ AsksUser(s) /\ Goto(w, "await") /\ UNCHANGED confirmations
      \/ Goto(w, "fail_session") /\ UNCHANGED confirmations
      \/ /\ confirmations' = [confirmations EXCEPT ![s] = Append(confirmations[s], row)]
         /\ Goto(w, "await")
  BY <1>1 DEF RunConfirmStep, AsksUser
<1> QED
  BY <1>5, <1>6, <1>7, <1>8

-----------------------------------------------------------------------------
(* Every step preserves the types.                                         *)

LEMMA ExecuteStepsTyped ==
    ASSUME TypeInv, NEW w \in Workers, Execute(w)
    PROVE  Preserved
BY RunSessionTyped, FindPlanTyped, SavePlanTyped, PlanFailsTyped, PickStepTyped,
   BuildStepContextTyped, ExecuteTyped, SendWriteTyped, StepRaisesTyped, SaveStepOutputTyped,
   MarkIdempotencyTyped, StepDoneTyped, FailStepTyped, FailSessionTyped, RunConfirmStepTyped,
   AwaitStepTyped, AwaitSessionTyped, FinishSessionTyped DEF Execute

LEMMA WorkerStepsTyped ==
    ASSUME TypeInv, NEW w \in Workers, ProcessOne(w)
    PROVE  Preserved
BY ConsumeTyped, BuryFailTyped, BuryCopyTyped, BuryAckTyped, AcquireLockTyped, AckMessageTyped,
   ReleaseLockTyped, ExecuteStepsTyped DEF ProcessOne

LEMMA StutterTyped ==
    ASSUME TypeInv, UNCHANGED vars
    PROVE  Preserved
<1>1. Grows
  BY UnchangedGrows DEF Grows, vars, rows
<1> QED
  BY <1>1, Reestablished DEF Preserved, vars, rows

LEMMA TypeStep ==
    ASSUME TypeInv, [Next]_vars
    PROVE  Preserved
<1>1. CASE User
  BY <1>1, InvokeTyped, ResumeResolveTyped DEF User
<1>2. CASE Api \/ ApiCrash
  BY <1>2, ResumeStepTyped, ResumeSessionTyped, EnqueueTyped, ApiCrashTyped DEF Api
<1>3. CASE \E w \in Workers : ProcessOne(w) \/ Crash(w)
  BY <1>3, WorkerStepsTyped, CrashTyped
<1>4. CASE \E s \in Sessions : LockExpires(s)
  BY <1>4, LockExpiresTyped
<1>5. CASE UNCHANGED vars
  BY <1>5, StutterTyped
<1> QED
  BY <1>1, <1>2, <1>3, <1>4, <1>5 DEF Next

\* Every row of the engine is of its type, and refers to rows that exist: the plan and the step
\* a worker is at, the confirmation a request answers, the message a worker holds.
THEOREM RowsAreTyped == Spec => []TypeInv
<1>1. Init => TypeInv
  BY InitTyped
<1>2. TypeInv /\ [Next]_vars => TypeInv'
  BY TypeStep DEF Preserved
<1> QED
  BY <1>1, <1>2, PTL DEF Spec

\* Every row is of its type, and a message is never counted beyond the delivery that buries it
\* (run_session, process_one and the repository).
THEOREM TypeIsCorrect == Spec => []TypeOK
<1>1. ASSUME TypeInv PROVE TypeOK
  <2>1. session \in [Sessions -> [status : SessionStatus, asks : SUBSET Words]]
    BY <1>1 DEF TypeInv, SessionsOK, SessionRow
  <2>2. ASSUME NEW s \in Sessions
        PROVE  /\ DOMAIN steps[s] = DOMAIN plans[s]
               /\ \A p \in DOMAIN plans[s] :
                     /\ DOMAIN steps[s][p] = DOMAIN plans[s][p].steps
                     /\ \A i \in DOMAIN steps[s][p] : steps[s][p][i] \in StepStatus
               /\ \A c \in DOMAIN confirmations[s] :
                     confirmations[s][c].status \in {"waiting", "approved", "rejected"}
               /\ lock[s] \in Workers \cup {0}
    <3>1. \A c \in DOMAIN confirmations[s] : confirmations[s][c] \in Confirmation
      BY <1>1 DEF TypeInv, ConfirmationsOK
    <3> QED
      BY <1>1, <3>1 DEF TypeInv, StepsOK, LockTyped, Confirmation
  <2>3. \A m \in DOMAIN messages : messages[m] \in Message
    BY <1>1 DEF TypeInv, MessagesOK
  <2>4. deadLetters \subseteq DOMAIN messages
    BY <1>1 DEF TypeInv
  <2> QED
    BY <2>1, <2>2, <2>3, <2>4 DEF TypeOK, Message
<1> QED
  BY <1>1, RowsAreTyped, PTL

-----------------------------------------------------------------------------
(* The lock.                                                               *)

\* A worker that runs a session holds the session's lock, unless a lock has expired under its
\* holder.
LockInv ==
    \A w \in Workers : worker[w].pc \notin OutsideLock =>
        Happened("slow_lock") \/ lock[Of(w)] = w

\* A worker that stays where it is, or leaves the lock's section.
Stays(v) == /\ worker'[v].msg = worker[v].msg
            /\ worker'[v].pc \notin OutsideLock => worker[v].pc \notin OutsideLock

LEMMA LockKept ==
    ASSUME TypeInv, Grows, LockInv, NEW v \in Workers, Stays(v), lock'[Of(v)] = lock[Of(v)],
           worker'[v].pc \notin OutsideLock
    PROVE  Happened("slow_lock")' \/ lock'[Of(v)'] = v
<1>1. worker[v].pc \notin OutsideLock /\ worker[v].msg \in DOMAIN messages
  BY WorkerIsAt DEF Stays, OutsideLock
<1>2. Of(v)' = Of(v)
  BY <1>1 DEF Of, Stays, Grows, MessagesGrow
<1>3. Happened("slow_lock") => Happened("slow_lock")'
  BY DEF Happened, Grows, FaultsGrow
<1> QED
  BY <1>1, <1>2, <1>3 DEF LockInv

\* The executor's steps keep the worker at its message, and to the session's rows.
LEMMA ExecuteMoves ==
    ASSUME TypeInv, NEW w \in Workers, Execute(w)
    PROVE  /\ worker[w].pc \in Executing \cup {"start"} /\ Untouched
           /\ \E pc \in Executing \cup {"ack"} : Moves(w, pc)
<1>1. worker[w].pc \in Executing \cup {"start"} /\ Untouched
  BY DEF Execute, RunSession, FindPlan, SavePlan, PlanFails, PickStep, BuildStepContext, ExecuteStep,
         SkipWrite, SendWrite, StepRaises, SaveStepOutput, MarkIdempotency, StepDone, FailStep,
         FailSession, RunConfirmStep, AwaitStep, AwaitSession, FinishSession,
         Executing, Places, OutsideLock
<1>2. \E pc \in {"plan", "planning", "pick", "context", "execute", "save", "mark", "done", "fail_step",
                 "fail_session", "confirm", "await", "await_session", "finish", "ack"} : Moves(w, pc)
  <2>1. CASE RunSession(w) \/ FindPlan(w) \/ SavePlan(w) \/ PlanFails(w) \/ PickStep(w)
    BY <2>1, RunSessionTyped, FindPlanTyped, SavePlanTyped, PlanFailsTyped, PickStepTyped
  <2>2. CASE BuildStepContext(w) \/ ExecuteStep(w) \/ SkipWrite(w) \/ SendWrite(w) \/ StepRaises(w)
    BY <2>2, BuildStepContextTyped, ExecuteTyped, SendWriteTyped, StepRaisesTyped
  <2>3. CASE SaveStepOutput(w) \/ MarkIdempotency(w) \/ StepDone(w) \/ FailStep(w) \/ FailSession(w)
    <3>1. SaveStepOutput(w) => Moves(w, "mark") \/ Moves(w, "done")
      BY SaveStepOutputTyped
    <3> QED
      BY <2>3, <3>1, MarkIdempotencyTyped, StepDoneTyped, FailStepTyped, FailSessionTyped
  <2>4. CASE RunConfirmStep(w) \/ AwaitStep(w) \/ AwaitSession(w) \/ FinishSession(w)
    BY <2>4, RunConfirmStepTyped, AwaitStepTyped, AwaitSessionTyped, FinishSessionTyped
  <2> QED
    BY <2>1, <2>2, <2>3, <2>4 DEF Execute
<1> QED
  BY <1>1, <1>2 DEF Executing, Places, OutsideLock

LEMMA LockStep ==
    ASSUME TypeInv, LockInv, [Next]_vars
    PROVE  LockInv'
<1>1. Grows
  BY TypeStep DEF Preserved
<1>2. ASSUME UNCHANGED lock, \A v \in Workers : Stays(v)
      PROVE  LockInv'
  BY <1>1, <1>2, LockKept DEF LockInv
<1>3. ASSUME UNCHANGED worker PROVE \A v \in Workers : Stays(v)
  BY <1>3 DEF Stays
<1>4. ASSUME NEW w \in Workers, NEW pc, Moves(w, pc),
             pc \in OutsideLock \/ worker[w].pc \notin OutsideLock
      PROVE  \A v \in Workers : Stays(v)
  BY <1>4 DEF Stays, Moves
<1>5. CASE User \/ Api \/ ApiCrash \/ UNCHANGED vars
  <2>1. UNCHANGED <<lock, worker>>
    BY <1>5 DEF User, Invoke, ResumeResolve, Api, ResumeStep, ResumeSession, Enqueue, ApiCrash, vars
  <2> QED
    BY <1>2, <1>3, <2>1
<1>6. ASSUME NEW w \in Workers, Execute(w)
      PROVE  LockInv'
  <2>1. /\ worker[w].pc \notin OutsideLock /\ UNCHANGED lock
        /\ \E pc : Moves(w, pc)
    BY <1>6, ExecuteMoves DEF Executing, OutsideLock, Untouched
  <2> QED
    BY <1>2, <1>4, <2>1
<1>7. ASSUME NEW w \in Workers, Crash(w) \/ BuryAck(w)
      PROVE  LockInv'
  <2>1. worker'[w] = Off /\ (\A v \in Workers \ {w} : worker'[v] = worker[v]) /\ UNCHANGED lock
    BY <1>7, CrashTyped, BuryAckTyped DEF Crash, BuryAck
  <2>2. \A v \in Workers \ {w} : Stays(v)
    BY <2>1 DEF Stays
  <2> QED
    BY <1>1, <2>1, <2>2, LockKept DEF LockInv, Off, OutsideLock
<1>8. ASSUME NEW w \in Workers, ConsumeClaimed(w) \/ ConsumeNew(w)
      PROVE  LockInv'
  <2>1. /\ worker'[w].pc \in OutsideLock /\ (\A v \in Workers \ {w} : worker'[v] = worker[v])
        /\ UNCHANGED lock
    BY <1>8, ConsumeTyped DEF Delivered, OutsideLock
  <2>2. \A v \in Workers \ {w} : Stays(v)
    BY <2>1 DEF Stays
  <2> QED
    BY <1>1, <2>1, <2>2, LockKept DEF LockInv
<1>9. ASSUME NEW w \in Workers, BuryFail(w) \/ BuryCopy(w) \/ AckMessage(w)
      PROVE  LockInv'
  <2>1. CASE BuryFail(w) \/ BuryCopy(w)
    <3>1. (Moves(w, "dead_letter") \/ Moves(w, "ack_dead")) /\ UNCHANGED lock
      BY <2>1, BuryFailTyped, BuryCopyTyped DEF BuryFail, BuryCopy
    <3> QED
      BY <1>2, <1>4, <3>1 DEF OutsideLock
  <2>2. CASE AckMessage(w)
    <3>1. Moves(w, "release") /\ UNCHANGED lock /\ worker[w].pc \notin OutsideLock
      BY <2>2, AckMessageTyped DEF AckMessage, OutsideLock
    <3> QED
      BY <1>2, <1>4, <3>1
  <2> QED
    BY <1>9, <2>1, <2>2
<1>10. ASSUME NEW w \in Workers, AcquireLock(w)
       PROVE  LockInv'
  <2>1. worker[w].pc = "lock" /\ worker[w].msg \in DOMAIN messages /\ UNCHANGED messages
    BY <1>10, WorkerIsAt DEF AcquireLock
  <2>2. CASE /\ lock[Of(w)] = 0 /\ Moves(w, "start")
             /\ lock'[Of(w)] = w /\ \A t \in Sessions \ {Of(w)} : lock'[t] = lock[t]
    <3>1. ASSUME NEW v \in Workers, worker'[v].pc \notin OutsideLock
          PROVE  Happened("slow_lock")' \/ lock'[Of(v)'] = v
      <4>1. CASE v = w
        BY <2>1, <2>2, <4>1 DEF Of, Moves
      <4>2. CASE v # w
        <5>1. worker'[v] = worker[v] /\ Of(v)' = Of(v) /\ worker[v].pc # "off"
          BY <2>1, <2>2, <3>1, <4>2 DEF Of, Moves, OutsideLock
        <5>2. Of(v) \in Sessions
          BY <5>1, WorkerIsAt
        <5>3. Happened("slow_lock") \/ lock[Of(v)] = v
          BY <3>1, <5>1 DEF LockInv
        <5>4. lock[Of(v)] = v => lock'[Of(v)] = v
          BY <2>2, <5>2, ConstantsAssumption
        <5> QED
          BY <1>1, <5>1, <5>3, <5>4 DEF Grows, FaultsGrow, Happened
      <4> QED
        BY <4>1, <4>2
    <3> QED
      BY <3>1 DEF LockInv
  <2>3. CASE /\ UNCHANGED lock
             /\ worker'[w] = Off /\ \A v \in Workers \ {w} : worker'[v] = worker[v]
    <3>1. \A v \in Workers \ {w} : Stays(v)
      BY <2>3 DEF Stays
    <3> QED
      BY <1>1, <2>3, <3>1, LockKept DEF LockInv, Off, OutsideLock
  <2> QED
    BY <1>10, <2>2, <2>3, AcquireLockTyped
<1>11. ASSUME NEW w \in Workers, ReleaseLock(w)
       PROVE  LockInv'
  <2>1. /\ worker'[w] = Off /\ \A v \in Workers \ {w} : worker'[v] = worker[v]
        /\ \A t \in Sessions \ {Of(w)} : lock'[t] = lock[t]
    BY <1>11, ReleaseLockTyped
  <2>2. worker[w].pc \notin OutsideLock /\ UNCHANGED messages
    BY <1>11 DEF ReleaseLock, OutsideLock
  <2>3. ASSUME NEW v \in Workers \ {w}, worker'[v].pc \notin OutsideLock
        PROVE  Happened("slow_lock")' \/ lock'[Of(v)'] = v
    <3>1. worker'[v] = worker[v] /\ Of(v)' = Of(v) /\ worker[v].pc # "off"
      BY <2>1, <2>2, <2>3 DEF Of, OutsideLock
    <3>2. Of(v) \in Sessions
      BY <3>1, WorkerIsAt
    <3>3. Happened("slow_lock") \/ (lock[Of(v)] = v /\ lock[Of(w)] = w)
      BY <2>2, <2>3, <3>1 DEF LockInv
    <3> QED
      BY <1>1, <2>1, <3>1, <3>2, <3>3 DEF Grows, FaultsGrow, Happened
  <2> QED
    BY <2>1, <2>3 DEF LockInv, Off, OutsideLock
<1>12. ASSUME NEW s \in Sessions, LockExpires(s)
       PROVE  LockInv'
  <2>1. /\ UNCHANGED <<worker, messages>>
        /\ lock[s] \in Running(s) => Happened("slow_lock")'
        /\ \A t \in Sessions \ {s} : lock'[t] = lock[t]
    BY <1>12, LockExpiresTyped DEF LockExpires, TypeInv, LockTyped
  <2>2. ASSUME NEW v \in Workers, worker'[v].pc \notin OutsideLock
        PROVE  Happened("slow_lock")' \/ lock'[Of(v)'] = v
    <3>1. Of(v)' = Of(v) /\ worker[v].pc \notin OutsideLock /\ worker[v].pc # "off"
      BY <2>1, <2>2 DEF Of, OutsideLock
    <3>2. Of(v) \in Sessions
      BY <3>1, WorkerIsAt
    <3>3. Happened("slow_lock") \/ lock[Of(v)] = v
      BY <3>1 DEF LockInv
    <3>4. Of(v) = s => v \in Running(s)
      BY <3>1 DEF Running, OutsideLock
    <3> QED
      BY <1>1, <2>1, <3>1, <3>2, <3>3, <3>4 DEF Grows, FaultsGrow, Happened
  <2> QED
    BY <2>2 DEF LockInv
<1> QED
  BY <1>5, <1>6, <1>7, <1>8, <1>9, <1>10, <1>11, <1>12 DEF Next, ProcessOne

\* Two workers run a session at the same time only if a lock expired under its holder: SET NX
\* gives the key to one of them, and only the holder deletes it.
THEOREM OneWorkerRuns == Spec => []OneWorkerPerSession
<1>1. Init => LockInv
  BY DEF Init, LockInv, Off, OutsideLock
<1>2. TypeInv /\ LockInv /\ [Next]_vars => LockInv'
  BY LockStep
<1>3. ASSUME TypeInv, LockInv PROVE OneWorkerPerSession
  <2> SUFFICES ASSUME ~Happened("slow_lock"), NEW s \in Sessions
               PROVE  Cardinality(Running(s)) <= 1
    BY DEF OneWorkerPerSession
  <2>1. Running(s) \subseteq {lock[s]}
    BY <1>3 DEF Running, LockInv, OutsideLock
  <2>2. IsFiniteSet({lock[s]}) /\ Cardinality({lock[s]}) = 1
    BY FS_Singleton
  <2> QED
    BY <2>1, <2>2, FS_Subset, FS_CardinalityType
<1> QED
  BY <1>1, <1>2, <1>3, RowsAreTyped, PTL DEF Spec

-----------------------------------------------------------------------------
(* Messages and who holds them.                                            *)

LEMMA FaultsStay == ASSUME Grows, NEW kind, Happened(kind) PROVE Happened(kind)'
BY DEF Grows, FaultsGrow, Happened

\* A worker holds a message that was delivered; the message is pending until the worker
\* acknowledges it, and has no other holder unless it was claimed from a slow one.
HolderInv ==
    /\ \A w \in Workers : worker[w].pc # "off" => messages[worker[w].msg].state # "new"
    /\ Happened("slow_claim") \/
       \A w \in Workers : worker[w].pc # "off" =>
          /\ worker[w].pc # "release" => messages[worker[w].msg].state = "pending"
          /\ \A v \in Workers :
                worker[v].pc # "off" /\ worker[v].msg = worker[w].msg => v = w

\* A worker that goes on with its message, which stays as it is.
Holds(v) ==
    worker'[v].pc # "off" =>
      /\ worker[v].pc # "off" /\ worker'[v].msg = worker[v].msg
      /\ worker'[v].pc # "release" => worker[v].pc # "release"
      /\ messages'[worker[v].msg].state = messages[worker[v].msg].state

LEMMA HolderKept ==
    ASSUME Grows, HolderInv, \A v \in Workers : Holds(v)
    PROVE  HolderInv'
<1>1. \A w \in Workers : worker'[w].pc # "off" => messages'[worker'[w].msg].state # "new"
  BY DEF HolderInv, Holds
<1>2. CASE Happened("slow_claim")
  BY <1>1, <1>2, FaultsStay DEF HolderInv
<1>3. CASE ~Happened("slow_claim")
  <2>1. ASSUME NEW w \in Workers, worker'[w].pc # "off"
        PROVE  /\ worker'[w].pc # "release" => messages'[worker'[w].msg].state = "pending"
               /\ \A v \in Workers :
                     worker'[v].pc # "off" /\ worker'[v].msg = worker'[w].msg => v = w
    BY <1>3, <2>1 DEF HolderInv, Holds
  <2> QED
    BY <1>1, <2>1 DEF HolderInv
<1> QED
  BY <1>2, <1>3

LEMMA HolderStep ==
    ASSUME TypeInv, HolderInv, [Next]_vars
    PROVE  HolderInv'
<1>1. Grows
  BY TypeStep DEF Preserved
<1>2. CASE User \/ ResumeStep \/ ResumeSession \/ ApiCrash \/ (\E s \in Sessions : LockExpires(s))
           \/ UNCHANGED vars
  <2>1. UNCHANGED <<messages, worker>>
    BY <1>2 DEF User, Invoke, ResumeResolve, ResumeStep, ResumeSession, ApiCrash, LockExpires, vars
  <2> QED
    BY <1>1, <2>1, HolderKept DEF Holds
<1>3. CASE Enqueue
  <2>1. UNCHANGED worker /\ \A m \in DOMAIN messages : messages'[m] = messages[m]
    BY <1>3, EnqueueTyped DEF Enqueue
  <2>2. ASSUME NEW v \in Workers PROVE Holds(v)
    BY <2>1, WorkerIsAt DEF Holds
  <2> QED
    BY <1>1, <2>2, HolderKept
<1>4. ASSUME NEW w \in Workers, Execute(w) \/ BuryFail(w) \/ BuryCopy(w) PROVE HolderInv'
  <2>1. /\ UNCHANGED messages /\ worker[w].pc \notin {"off", "release"}
        /\ \E pc : Moves(w, pc)
    BY <1>4, ExecuteMoves, BuryFailTyped, BuryCopyTyped
       DEF Untouched, BuryFail, BuryCopy, Executing, OutsideLock
  <2>2. \A v \in Workers : Holds(v)
    BY <2>1 DEF Holds, Moves
  <2> QED
    BY <1>1, <2>2, HolderKept
<1>5. ASSUME NEW w \in Workers, AcquireLock(w) \/ ReleaseLock(w) \/ Crash(w) PROVE HolderInv'
  <2>1. /\ UNCHANGED messages
        /\ \/ Moves(w, "start") /\ worker[w].pc = "lock"
           \/ worker'[w] = Off /\ \A v \in Workers \ {w} : worker'[v] = worker[v]
    BY <1>5, AcquireLockTyped, ReleaseLockTyped, CrashTyped DEF AcquireLock, ReleaseLock, Crash
  <2>2. \A v \in Workers : Holds(v)
    BY <2>1 DEF Holds, Moves, Off
  <2> QED
    BY <1>1, <2>2, HolderKept
<1>6. ASSUME NEW w \in Workers, ConsumeClaimed(w) \/ ConsumeNew(w) PROVE HolderInv'
  <2>1. PICK m \in DOMAIN messages :
            /\ worker[w].pc = "off" /\ messages[m].state # "acked"
            /\ messages[m].state = "new" \/ (BusyWith(m) => Happened("slow_claim")')
            /\ messages'[m].state = "pending"
            /\ \A n \in DOMAIN messages \ {m} : messages'[n] = messages[n]
            /\ worker'[w].msg = m /\ worker'[w].pc \in {"lock", "bury"}
            /\ \A v \in Workers \ {w} : worker'[v] = worker[v]
    BY <1>6, ConsumeTyped DEF Delivered
  <2>2. \A v \in Workers \ {w} : worker[v].pc # "off" => worker[v].msg \in DOMAIN messages
    BY WorkerIsAt
  <2>3. \A v \in Workers : worker'[v].pc # "off" => messages'[worker'[v].msg].state # "new"
    BY <2>1, <2>2 DEF HolderInv
  <2>4. CASE Happened("slow_claim") \/ Happened("slow_claim")'
    BY <1>1, <2>3, <2>4, FaultsStay DEF HolderInv
  <2>5. CASE ~Happened("slow_claim") /\ ~Happened("slow_claim")'
    <3>1. \A v \in Workers : worker[v].pc # "off" => worker[v].msg # m
      BY <2>1, <2>5 DEF HolderInv, BusyWith
    <3>2. ASSUME NEW v \in Workers, worker'[v].pc # "off"
          PROVE  /\ worker'[v].pc # "release" => messages'[worker'[v].msg].state = "pending"
                 /\ \A u \in Workers :
                       worker'[u].pc # "off" /\ worker'[u].msg = worker'[v].msg => u = v
      BY <2>1, <2>2, <2>5, <3>1, <3>2 DEF HolderInv
    <3> QED
      BY <2>3, <3>2 DEF HolderInv
  <2> QED
    BY <2>4, <2>5
<1>7. ASSUME NEW w \in Workers, AckMessage(w) \/ BuryAck(w) PROVE HolderInv'
  <2>1. /\ worker[w].pc \in {"ack", "ack_dead"} /\ Acked(worker[w].msg)
        /\ \/ worker'[w].pc = "release" /\ worker'[w].msg = worker[w].msg
           \/ worker'[w].pc = "off"
        /\ \A v \in Workers \ {w} : worker'[v] = worker[v]
    BY <1>7, AckMessageTyped, BuryAckTyped DEF Moves, AckMessage, BuryAck, Off
  <2>2. \A v \in Workers : worker[v].pc # "off" => worker[v].msg \in DOMAIN messages
    BY WorkerIsAt
  <2>3. \A v \in Workers : worker'[v].pc # "off" => messages'[worker'[v].msg].state # "new"
    BY <2>1, <2>2 DEF HolderInv, Acked
  <2>4. CASE Happened("slow_claim")
    BY <1>1, <2>3, <2>4, FaultsStay DEF HolderInv
  <2>5. CASE ~Happened("slow_claim")
    <3>1. \A v \in Workers \ {w} : worker[v].pc # "off" => worker[v].msg # worker[w].msg
      BY <2>1, <2>5 DEF HolderInv
    <3>2. ASSUME NEW v \in Workers, worker'[v].pc # "off"
          PROVE  /\ worker'[v].pc # "release" => messages'[worker'[v].msg].state = "pending"
                 /\ \A u \in Workers :
                       worker'[u].pc # "off" /\ worker'[u].msg = worker'[v].msg => u = v
      BY <2>1, <2>2, <2>5, <3>1, <3>2 DEF HolderInv, Acked
    <3> QED
      BY <2>3, <3>2 DEF HolderInv
  <2> QED
    BY <2>4, <2>5
<1> QED
  BY <1>2, <1>3, <1>4, <1>5, <1>6, <1>7 DEF Next, Api, ProcessOne

\* A worker that acknowledges a buried message has copied it.
BuriedInv == \A w \in Workers : worker[w].pc = "ack_dead" => worker[w].msg \in deadLetters

LEMMA BuriedStep ==
    ASSUME TypeInv, BuriedInv, [Next]_vars
    PROVE  BuriedInv' /\ deadLetters \subseteq deadLetters'
<1>1. ASSUME deadLetters \subseteq deadLetters',
             \A v \in Workers : worker'[v].pc = "ack_dead" =>
                 \/ worker'[v] = worker[v]
                 \/ worker'[v].msg \in deadLetters'
      PROVE  BuriedInv' /\ deadLetters \subseteq deadLetters'
  BY <1>1 DEF BuriedInv
<1>2. CASE User \/ Api \/ ApiCrash \/ (\E s \in Sessions : LockExpires(s)) \/ UNCHANGED vars
  <2>1. UNCHANGED <<deadLetters, worker>>
    BY <1>2 DEF User, Invoke, ResumeResolve, Api, ResumeStep, ResumeSession, Enqueue, ApiCrash,
                LockExpires, vars
  <2> QED
    BY <1>1, <2>1
<1>3. ASSUME NEW w \in Workers, Execute(w) \/ BuryFail(w) \/ AckMessage(w)
      PROVE  BuriedInv' /\ deadLetters \subseteq deadLetters'
  <2>1. \E pc \in Executing \cup {"ack", "dead_letter", "release"} : Moves(w, pc)
    BY <1>3, ExecuteMoves, BuryFailTyped, AckMessageTyped
  <2>2. UNCHANGED deadLetters
    BY <1>3, ExecuteMoves DEF Untouched, BuryFail, AckMessage
  <2> QED
    BY <1>1, <2>1, <2>2 DEF Moves, Executing, OutsideLock
<1>4. ASSUME NEW w \in Workers, BuryCopy(w)
      PROVE  BuriedInv' /\ deadLetters \subseteq deadLetters'
  BY <1>1, <1>4, BuryCopyTyped DEF Moves, BuryCopy
<1>5. ASSUME NEW w \in Workers, AcquireLock(w) \/ ReleaseLock(w) \/ Crash(w) \/ BuryAck(w)
      PROVE  BuriedInv' /\ deadLetters \subseteq deadLetters'
  <2>1. /\ UNCHANGED deadLetters
        /\ \/ Moves(w, "start")
           \/ worker'[w] = Off /\ \A v \in Workers \ {w} : worker'[v] = worker[v]
    BY <1>5, AcquireLockTyped, ReleaseLockTyped, CrashTyped, BuryAckTyped
       DEF AcquireLock, ReleaseLock, Crash, BuryAck
  <2> QED
    BY <1>1, <2>1 DEF Moves, Off
<1>6. ASSUME NEW w \in Workers, ConsumeClaimed(w) \/ ConsumeNew(w)
      PROVE  BuriedInv' /\ deadLetters \subseteq deadLetters'
  <2>1. /\ worker'[w].pc \in {"lock", "bury"} /\ UNCHANGED deadLetters
        /\ \A v \in Workers \ {w} : worker'[v] = worker[v]
    BY <1>6, ConsumeTyped DEF Delivered
  <2> QED
    BY <1>1, <2>1
<1> QED
  BY <1>2, <1>3, <1>4, <1>5, <1>6 DEF Next, ProcessOne

-----------------------------------------------------------------------------
(* No session is left behind.                                              *)

Requested(s) == request # NoRequest /\ request.of = s

\* Something else than message m will have the session worked on, or has given it up.
Another(s, m) ==
    \/ Requested(s)
    \/ \E n \in DOMAIN messages \ {m} : messages[n].of = s /\ messages[n].state # "acked"
    \/ \E n \in deadLetters : messages[n].of = s
    \/ Happened("api")

\* The session has a question that is not approved.
Waits(s) == \E c \in DOMAIN confirmations[s] : confirmations[s][c].status # "approved"

\* What a worker knows of its session until it has acknowledged the message.
ExecFine(w) ==
    /\ worker[w].pc \in Executing => session[Of(w)].status # "waiting_user"
    /\ worker[w].pc \in {"await", "await_session"} => AsksUser(Of(w))
    /\ worker[w].pc \in {"ack", "release"} => session[Of(w)].status # "running"
    /\ worker[w].pc \in Executing \cup {"ack"} /\ session[Of(w)].status = "queued" =>
         Another(Of(w), worker[w].msg)
    /\ worker[w].pc = "ack" /\ session[Of(w)].status = "waiting_user" =>
         Waits(Of(w)) \/ Another(Of(w), worker[w].msg)

LeftFine(s) ==
    /\ session[s].status = "queued" => Another(s, 0)
    /\ session[s].status = "running" =>
         Another(s, 0) \/ \E w \in Workers : worker[w].pc \in Executing /\ Of(w) = s
    /\ session[s].status = "waiting_user" => Waits(s) \/ Another(s, 0)

\* The faults that may leave a session behind.
Cut == Happened("slow_lock") \/ (Happened("slow_claim") /\ Happened("crash"))

LeftInv == \/ Cut
           \/ (\A w \in Workers : ExecFine(w)) /\ (\A s \in Sessions : LeftFine(s))

\* A step that takes nothing from the session.
Steady(s) ==
    /\ session'[s].status = session[s].status
    /\ AsksUser(s) => AsksUser(s)' \/ session[s].status = "waiting_user"
    /\ Waits(s) => Waits(s)' \/ Requested(s)'
    /\ \A m \in DOMAIN messages \cup {0} : Another(s, m) => Another(s, m)'

LEMMA OfStays ==
    ASSUME TypeInv, Grows, NEW v \in Workers, worker[v].pc # "off", worker'[v].msg = worker[v].msg
    PROVE  Of(v)' = Of(v) /\ Of(v) \in Sessions /\ worker[v].msg \in DOMAIN messages
BY WorkerIsAt DEF Of, Grows, MessagesGrow

LEMMA OneRunner ==
    ASSUME LockInv, ~Happened("slow_lock"), NEW v \in Workers, NEW w \in Workers,
           worker[v].pc \notin OutsideLock, worker[w].pc \notin OutsideLock, Of(v) = Of(w)
    PROVE  v = w
BY DEF LockInv

LEMMA AnotherKept ==
    ASSUME TypeInv, Grows, deadLetters \subseteq deadLetters', NEW s, NEW m, NEW k \in {m, 0},
           Another(s, m), Requested(s) => Requested(s)',
           \A n \in DOMAIN messages \ {m} :
               messages[n].of = s /\ messages[n].state # "acked" => messages'[n].state # "acked"
    PROVE  Another(s, k)'
<1>1. Happened("api") => Happened("api")'
  BY FaultsStay
<1>2. \A n \in deadLetters : messages[n].of = s => n \in deadLetters' /\ messages'[n].of = s
  BY DEF TypeInv, Grows, MessagesGrow
<1>3. \A n \in DOMAIN messages \ {m} : messages[n].of = s /\ messages[n].state # "acked" =>
         n \in DOMAIN messages' \ {k} /\ messages'[n].of = s /\ messages'[n].state # "acked"
  <2>1. \A n \in DOMAIN messages : n # 0
    BY DEF TypeInv, MessagesOK
  <2> QED
    BY <2>1 DEF Grows, MessagesGrow
<1> QED
  BY <1>1, <1>2, <1>3 DEF Another

LEMMA ExecSteady ==
    ASSUME TypeInv, Grows, NEW v \in Workers, ExecFine(v), worker'[v] = worker[v],
           worker[v].pc \in Executing \cup {"ack", "release"} => Steady(Of(v))
    PROVE  ExecFine(v)'
<1>1. CASE worker[v].pc \in Executing \cup {"ack", "release"}
  <2>1. worker[v].pc # "off"
    BY <1>1 DEF Executing, OutsideLock
  <2>2. PICK s \in Sessions : s = Of(v) /\ s = Of(v)' /\ worker[v].msg \in DOMAIN messages
    BY <2>1, OfStays
  <2>3. Steady(s)
    BY <1>1, <2>2
  <2>4. Requested(s)' => Another(s, worker[v].msg)'
    BY DEF Another
  <2>5. {"await", "await_session"} \subseteq Executing
    BY DEF Executing, Places, OutsideLock
  <2>6. Another(s, worker[v].msg) => Another(s, worker[v].msg)'
    BY <2>2, <2>3 DEF Steady
  <2>7. Another(s, worker[v].msg)' => Another(Of(v), worker[v].msg)'
    BY <2>2
  <2>8. ASSUME worker[v].pc \in {"await", "await_session"} PROVE AsksUser(s)'
    BY <2>2, <2>3, <2>5, <2>8 DEF ExecFine, Steady
  <2>9. session'[s].status = session[s].status /\ (Waits(s) => Waits(s)' \/ Requested(s)')
    BY <2>3 DEF Steady
  <2>10. AsksUser(s)' => AsksUser(Of(v))'
    BY <2>2
  <2>11. Waits(s)' => Waits(Of(v))'
    BY <2>2
  <2> QED
    BY <2>2, <2>4, <2>6, <2>7, <2>8, <2>9, <2>10, <2>11 DEF ExecFine
<1>2. CASE worker[v].pc \notin Executing \cup {"ack", "release"}
  BY <1>2 DEF ExecFine, Executing, Places, OutsideLock
<1> QED
  BY <1>1, <1>2

LEMMA NothingToKnow ==
    ASSUME NEW v \in Workers, worker'[v].pc \notin Executing \cup {"ack", "release"}
    PROVE  ExecFine(v)'
BY DEF ExecFine, Executing, Places, OutsideLock

\* The session becomes queued with something under way, or final.
LEMMA ExecOfDecided ==
    ASSUME TypeInv, Grows, NEW v \in Workers, ExecFine(v), worker'[v] = worker[v],
           NEW s, s = Of(v), session'[s].status \notin {"running", "waiting_user"},
           session'[s].status = "queued" => \A m \in DOMAIN messages : Another(s, m)',
           AsksUser(s) => AsksUser(s)'
    PROVE  ExecFine(v)'
<1>1. CASE worker[v].pc = "off"
  BY <1>1, NothingToKnow DEF Executing, OutsideLock
<1>2. CASE worker[v].pc # "off"
  <2>1. Of(v)' = s /\ worker[v].msg \in DOMAIN messages
    BY <1>2, OfStays
  <2>2. session'[s].status = "queued" => Another(Of(v), worker[v].msg)'
    BY <2>1
  <2>3. AsksUser(s)' => AsksUser(Of(v))'
    BY <2>1
  <2> QED
    BY <2>1, <2>2, <2>3 DEF ExecFine
<1> QED
  BY <1>1, <1>2

LEMMA LeftSteady ==
    ASSUME NEW s, LeftFine(s), Steady(s),
           \/ Another(s, 0)'
           \/ \A v \in Workers : worker[v].pc \in Executing /\ Of(v) = s =>
                                   worker'[v].pc \in Executing /\ Of(v)' = s
    PROVE  LeftFine(s)'
<1>1. Requested(s)' => Another(s, 0)'
  BY DEF Another
<1>2. /\ session'[s].status = session[s].status
      /\ Waits(s) => Waits(s)' \/ Requested(s)'
      /\ Another(s, 0) => Another(s, 0)'
  BY DEF Steady
<1> QED
  BY <1>1, <1>2 DEF LeftFine

\* When neither the session's rows nor the queue change for the worse.
LEMMA SteadyStep ==
    ASSUME TypeInv, Grows, deadLetters \subseteq deadLetters', NEW s \in Sessions,
           session'[s].status = session[s].status,
           \A c \in DOMAIN confirmations[s] : confirmations'[s][c] = confirmations[s][c],
           Requested(s) => Requested(s)',
           \A n \in DOMAIN messages :
               messages[n].of = s /\ messages[n].state # "acked" => messages'[n].state # "acked"
    PROVE  Steady(s)
<1>1. \A c \in DOMAIN confirmations[s] : c \in DOMAIN confirmations'[s]
  BY DEF Grows, ConfirmationsGrow
<1>2. \A m \in DOMAIN messages \cup {0} : Another(s, m) => Another(s, m)'
  BY AnotherKept
<1> QED
  BY <1>1, <1>2 DEF Steady, AsksUser, Waits

\* What the executor's steps do to the session's rows: they run it, end it, ask the user, or
\* leave its status alone.
LEMMA ExecuteRows ==
    ASSUME TypeInv, NEW w \in Workers, Execute(w)
    PROVE  /\ \A t \in Sessions \ {Of(w)} : session'[t] = session[t]
           /\ \A t \in Sessions : \A c \in DOMAIN confirmations[t] :
                 confirmations'[t][c] = confirmations[t][c]
           /\ \/ session'[Of(w)].status = "running" /\ Moves(w, "plan")
              \/ session'[Of(w)].status \in {"failed", "success"} /\ Moves(w, "ack")
              \/ /\ worker[w].pc = "await_session"
                 /\ session'[Of(w)].status = "waiting_user" /\ Moves(w, "ack")
              \/ /\ session'[Of(w)].status = session[Of(w)].status
                 /\ worker[w].pc \in Executing
                 /\ \E pc \in Executing : Moves(w, pc)
                 /\ worker'[w].pc = "await" => AsksUser(Of(w))'
                 /\ worker'[w].pc = "await_session" => worker[w].pc = "await"
<1>1. worker[w].pc # "off" /\ Of(w) \in Sessions
  <2>1. worker[w].pc # "off"
    BY ExecuteMoves DEF Executing, OutsideLock
  <2> QED
    BY <2>1, WorkerIsAt
<1>2. CASE RunSession(w)
  BY <1>2, RunSessionTyped DEF RunSession
<1>3. CASE FailSession(w) \/ FinishSession(w)
  BY <1>3, FailSessionTyped, FinishSessionTyped DEF FailSession, FinishSession
<1>4. CASE AwaitSession(w)
  BY <1>4, AwaitSessionTyped DEF AwaitSession
<1>5. ASSUME UNCHANGED session, worker[w].pc \in Executing,
             \A t \in Sessions : \A c \in DOMAIN confirmations[t] :
                 confirmations'[t][c] = confirmations[t][c],
             NEW pc \in {"planning", "pick", "context", "execute", "save", "mark", "done", "fail_step",
                 "fail_session", "confirm", "await", "await_session", "finish"}, Moves(w, pc),
             pc = "await" => AsksUser(Of(w))', pc = "await_session" => worker[w].pc = "await"
      PROVE  /\ \A t \in Sessions \ {Of(w)} : session'[t] = session[t]
             /\ \A t \in Sessions : \A c \in DOMAIN confirmations[t] :
                   confirmations'[t][c] = confirmations[t][c]
             /\ session'[Of(w)].status = session[Of(w)].status
             /\ worker[w].pc \in Executing
             /\ \E place \in Executing : Moves(w, place)
             /\ worker'[w].pc = "await" => AsksUser(Of(w))'
             /\ worker'[w].pc = "await_session" => worker[w].pc = "await"
  <2>1. pc \in Executing /\ worker'[w].pc = pc
    BY <1>5 DEF Executing, Places, OutsideLock, Moves
  <2> QED
    BY <1>5, <2>1
<1>6. CASE FindPlan(w) \/ SavePlan(w) \/ PlanFails(w) \/ PickStep(w)
  <2>1. /\ UNCHANGED <<session, confirmations>> /\ worker[w].pc \in {"plan", "planning", "pick"}
        /\ \E pc \in {"planning", "pick", "fail_session", "finish", "confirm", "context"} : Moves(w, pc)
    BY <1>6, FindPlanTyped, SavePlanTyped, PlanFailsTyped, PickStepTyped
       DEF FindPlan, SavePlan, PlanFails, PickStep, rows
  <2>2. worker[w].pc \in Executing
    BY <2>1 DEF Executing, Places, OutsideLock
  <2> QED
    BY <1>5, <2>1, <2>2
<1>7. CASE BuildStepContext(w) \/ ExecuteStep(w) \/ SkipWrite(w) \/ SendWrite(w) \/ StepRaises(w)
  <2>1. /\ UNCHANGED <<session, confirmations>> /\ worker[w].pc \in {"context", "execute"}
        /\ \E pc \in {"execute", "fail_session", "save", "fail_step"} : Moves(w, pc)
    BY <1>7, BuildStepContextTyped, ExecuteTyped, SendWriteTyped, StepRaisesTyped
       DEF BuildStepContext, ExecuteStep, SkipWrite, SendWrite, StepRaises, rows
  <2>2. worker[w].pc \in Executing
    BY <2>1 DEF Executing, Places, OutsideLock
  <2> QED
    BY <1>5, <2>1, <2>2
<1>8. CASE SaveStepOutput(w) \/ MarkIdempotency(w) \/ StepDone(w) \/ FailStep(w)
  <2>1. SaveStepOutput(w) => Moves(w, "mark") \/ Moves(w, "done")
    BY SaveStepOutputTyped
  <2>2. /\ UNCHANGED <<session, confirmations>> /\ worker[w].pc \in {"save", "mark", "done", "fail_step"}
        /\ \E pc \in {"mark", "done", "pick", "fail_session"} : Moves(w, pc)
    BY <1>8, <2>1, MarkIdempotencyTyped, StepDoneTyped, FailStepTyped
       DEF SaveStepOutput, MarkIdempotency, StepDone, FailStep
  <2>3. worker[w].pc \in Executing
    BY <2>2 DEF Executing, Places, OutsideLock
  <2> QED
    BY <1>5, <2>2, <2>3
<1>9. CASE RunConfirmStep(w)
  <2>1. /\ UNCHANGED session /\ worker[w].pc \in Executing
        /\ \A t \in Sessions : \A c \in DOMAIN confirmations[t] :
              confirmations'[t][c] = confirmations[t][c]
        /\ \/ Moves(w, "await") /\ AsksUser(Of(w))'
           \/ Moves(w, "fail_session")
    BY <1>9, RunConfirmStepTyped DEF RunConfirmStep, Executing, Places, OutsideLock
  <2>2. CASE Moves(w, "await") /\ AsksUser(Of(w))'
    BY <1>5, <2>1, <2>2
  <2>3. CASE Moves(w, "fail_session")
    BY <1>5, <2>1, <2>3
  <2> QED
    BY <2>1, <2>2, <2>3
<1>10. CASE AwaitStep(w)
  <2>1. /\ UNCHANGED <<session, confirmations>> /\ worker[w].pc \in Executing
        /\ worker[w].pc = "await" /\ Moves(w, "await_session")
    BY <1>10, AwaitStepTyped DEF AwaitStep, Executing, Places, OutsideLock
  <2> QED
    BY <1>5, <2>1
<1> QED
  BY <1>2, <1>3, <1>4, <1>6, <1>7, <1>8, <1>9, <1>10 DEF Execute

\* The parts of LeftInv, when no fault has cut a session off.
Uncut == /\ TypeInv /\ LockInv /\ HolderInv /\ BuriedInv /\ ~Happened("slow_lock")
         /\ \A w \in Workers : ExecFine(w)
         /\ \A s \in Sessions : LeftFine(s)

LEMMA LeftByExecute ==
    ASSUME Uncut, NEW w \in Workers, Execute(w)
    PROVE  (\A v \in Workers : ExecFine(v)') /\ (\A t \in Sessions : LeftFine(t)')
<1> USE DEF Uncut
<1>1. Grows /\ worker[w].pc \in Executing \cup {"start"} /\ UNCHANGED <<deadLetters, messages, request>>
  BY ExecuteStepsTyped, ExecuteMoves DEF Preserved, Untouched
<1>2. /\ worker[w].pc \notin OutsideLock /\ worker[w].pc # "off"
      /\ worker[w].pc \notin {"ack", "release"}
  BY <1>1 DEF Executing, OutsideLock
<1>3. PICK s \in Sessions : s = Of(w)
  BY <1>2, WorkerIsAt
<1>4. \A t \in Sessions : \A c \in DOMAIN confirmations[t] : confirmations'[t][c] = confirmations[t][c]
  BY ExecuteRows
<1>5. \A t \in Sessions : Requested(t) => Requested(t)'
  BY <1>1 DEF Requested
<1>6. ASSUME NEW t \in Sessions, session'[t].status = session[t].status PROVE Steady(t)
  BY <1>1, <1>4, <1>5, <1>6, SteadyStep
<1>7. \A t \in Sessions \ {s} : Steady(t)
  BY <1>3, <1>6, ExecuteRows
<1>8. \A v \in Workers \ {w} : worker'[v] = worker[v]
  BY ExecuteRows DEF Moves
<1>9. worker'[w].msg = worker[w].msg /\ Of(w)' = s
  BY <1>1, <1>2, <1>3, ExecuteRows, OfStays DEF Moves
<1>10. ASSUME NEW v \in Workers \ {w} PROVE ExecFine(v)'
  <2>1. CASE worker[v].pc \in Executing \cup {"ack", "release"}
    <3>1. worker[v].pc \notin OutsideLock /\ worker[v].pc # "off"
      BY <2>1 DEF Executing, OutsideLock
    <3>2. Of(v) \in Sessions /\ Of(v) # s
      BY <1>2, <1>3, <3>1, OneRunner, WorkerIsAt
    <3> QED
      BY <1>1, <1>7, <1>8, <3>2, ExecSteady
  <2>2. CASE worker[v].pc \notin Executing \cup {"ack", "release"}
    BY <1>8, <2>2, NothingToKnow
  <2> QED
    BY <2>1, <2>2
<1>11. ASSUME NEW t \in Sessions \ {s} PROVE LeftFine(t)'
  <2>1. ASSUME NEW v \in Workers, worker[v].pc \in Executing, Of(v) = t
        PROVE  worker'[v].pc \in Executing /\ Of(v)' = t
    <3>1. v # w
      BY <1>3, <2>1
    <3>2. worker'[v] = worker[v] /\ worker[v].pc # "off"
      BY <1>8, <2>1, <3>1 DEF Executing, OutsideLock
    <3> QED
      BY <1>1, <2>1, <3>2, OfStays
  <2> QED
    BY <1>7, <2>1, LeftSteady
<1>12. AsksUser(s) => Waits(s)'
  <2>1. \A c \in DOMAIN confirmations[s] : c \in DOMAIN confirmations'[s]
    BY <1>1 DEF Grows, ConfirmationsGrow
  <2> QED
    BY <1>4, <2>1 DEF AsksUser, Waits
<1>13. CASE session'[s].status = "running" /\ Moves(w, "plan")
  <2>1. worker'[w].pc = "plan" /\ "plan" \in Executing
    BY <1>13 DEF Moves, Executing, Places, OutsideLock
  <2>2. ExecFine(w)'
    BY <1>9, <1>13, <2>1 DEF ExecFine
  <2>3. LeftFine(s)'
    BY <1>9, <1>13, <2>1 DEF LeftFine
  <2> QED
    BY <1>10, <1>11, <2>2, <2>3
<1>14. CASE session'[s].status \in {"failed", "success"} /\ Moves(w, "ack")
  <2>1. worker'[w].pc = "ack" /\ "ack" \notin Executing
    BY <1>14 DEF Moves, Executing
  <2>2. ExecFine(w)'
    BY <1>9, <1>14, <2>1 DEF ExecFine
  <2>3. LeftFine(s)'
    BY <1>14 DEF LeftFine
  <2> QED
    BY <1>10, <1>11, <2>2, <2>3
<1>15. CASE /\ worker[w].pc = "await_session"
            /\ session'[s].status = "waiting_user" /\ Moves(w, "ack")
  <2>1. worker'[w].pc = "ack" /\ "ack" \notin Executing
    BY <1>15 DEF Moves, Executing
  <2>2. Waits(s)'
    BY <1>3, <1>12, <1>15 DEF ExecFine
  <2>3. Waits(Of(w))'
    BY <1>9, <2>2
  <2>4. ExecFine(w)'
    BY <1>9, <1>15, <2>1, <2>3 DEF ExecFine
  <2>5. LeftFine(s)'
    BY <1>15, <2>2 DEF LeftFine
  <2> QED
    BY <1>10, <1>11, <2>4, <2>5
<1>16. CASE /\ session'[s].status = session[s].status
            /\ worker[w].pc \in Executing
            /\ \E pc \in Executing : Moves(w, pc)
            /\ worker'[w].pc = "await" => AsksUser(Of(w))'
            /\ worker'[w].pc = "await_session" => worker[w].pc = "await"
  <2>1. Steady(s)
    BY <1>6, <1>16
  <2>2. worker'[w].pc \in Executing /\ worker'[w].pc \notin {"ack", "release"}
    BY <1>16 DEF Moves, Executing
  <2>3. session[s].status # "waiting_user" /\ session'[s].status # "waiting_user"
    BY <1>3, <1>16 DEF ExecFine
  <2>4. ASSUME worker'[w].pc = "await_session" PROVE AsksUser(Of(w))'
    <3>1. AsksUser(s)
      BY <1>3, <1>16, <2>4 DEF ExecFine
    <3>2. AsksUser(s)'
      BY <2>1, <2>3, <3>1 DEF Steady
    <3> QED
      BY <1>9, <3>2
  <2>5. ASSUME session'[s].status = "queued" PROVE Another(Of(w), worker[w].msg)'
    <3>1. PICK m \in DOMAIN messages : m = worker[w].msg
      BY <1>2, WorkerIsAt
    <3>2. Another(s, m)
      BY <1>3, <1>16, <2>5, <3>1 DEF ExecFine
    <3>3. Another(s, m)'
      BY <2>1, <3>2 DEF Steady
    <3> QED
      BY <1>9, <3>1, <3>3
  <2>6. ExecFine(w)'
    BY <1>9, <1>16, <2>2, <2>3, <2>4, <2>5 DEF ExecFine
  <2>7. LeftFine(s)'
    <3>1. ASSUME NEW v \in Workers, worker[v].pc \in Executing, Of(v) = s
          PROVE  worker'[v].pc \in Executing /\ Of(v)' = s
      <4>1. worker[v].pc \notin OutsideLock
        BY <3>1 DEF Executing
      <4>2. v = w
        BY <1>2, <1>3, <3>1, <4>1, OneRunner
      <4> QED
        BY <1>9, <2>2, <4>2
    <3> QED
      BY <2>1, <3>1, LeftSteady
  <2> QED
    BY <1>10, <1>11, <2>6, <2>7
<1> QED
  BY <1>3, <1>13, <1>14, <1>15, <1>16, ExecuteRows

\* A worker stays, or steps aside with something else under way for its session.
Aside(v) ==
    \/ worker'[v] = worker[v]
    \/ /\ worker'[v].pc \notin Executing \cup {"ack", "release"}
       /\ worker[v].pc \in Executing => \A t \in Sessions : Of(v) = t => Another(t, 0)'

LEMMA LeftAside ==
    ASSUME Uncut, Grows, \A v \in Workers : Aside(v), NEW s, \A t \in Sessions \ {s} : Steady(t),
           \/ s \in Sessions => Steady(s)
           \/ /\ session'[s].status \notin {"running", "waiting_user"}
              /\ session'[s].status = "queued" =>
                    \A m \in DOMAIN messages \cup {0} : Another(s, m)'
              /\ AsksUser(s) => AsksUser(s)'
    PROVE  (\A v \in Workers : ExecFine(v)') /\ (\A t \in Sessions : LeftFine(t)')
<1> USE DEF Uncut
<1>1. ASSUME NEW v \in Workers PROVE ExecFine(v)'
  <2>1. CASE worker'[v].pc \notin Executing \cup {"ack", "release"}
    BY <2>1, NothingToKnow
  <2>2. CASE worker'[v] = worker[v] /\ worker[v].pc \in Executing \cup {"ack", "release"}
    <3>1. Of(v) \in Sessions
      BY <2>2, WorkerIsAt DEF Executing, OutsideLock
    <3>2. CASE Steady(Of(v))
      BY <2>2, <3>2, ExecSteady
    <3>3. CASE ~Steady(Of(v))
      <4>1. s = Of(v)
        BY <3>1, <3>3
      <4>2. /\ session'[s].status \notin {"running", "waiting_user"}
            /\ session'[s].status = "queued" => \A m \in DOMAIN messages \cup {0} : Another(s, m)'
            /\ AsksUser(s) => AsksUser(s)'
        BY <3>1, <3>3, <4>1
      <4> QED
        BY <2>2, <4>1, <4>2, ExecOfDecided
    <3> QED
      BY <3>2, <3>3
  <2> QED
    BY <2>1, <2>2 DEF Aside
<1>2. ASSUME NEW t \in Sessions PROVE LeftFine(t)'
  <2>1. CASE Steady(t)
    <3>1. \/ Another(t, 0)'
          \/ \A v \in Workers : worker[v].pc \in Executing /\ Of(v) = t =>
                                   worker'[v].pc \in Executing /\ Of(v)' = t
      <4>1. SUFFICES ASSUME ~Another(t, 0)', NEW v \in Workers, worker[v].pc \in Executing, Of(v) = t
                     PROVE  worker'[v].pc \in Executing /\ Of(v)' = t
        OBVIOUS
      <4>2. worker'[v] = worker[v] /\ worker[v].pc # "off"
        BY <4>1 DEF Aside, Executing, OutsideLock
      <4> QED
        BY <4>1, <4>2, OfStays
    <3> QED
      BY <2>1, <3>1, LeftSteady
  <2>2. CASE ~Steady(t)
    BY <2>2 DEF LeftFine
  <2> QED
    BY <2>1, <2>2
<1> QED
  BY <1>1, <1>2

\* Where nothing happens to the queue and to the confirmations.
LEMMA RowsSteady ==
    ASSUME TypeInv, Grows, UNCHANGED <<messages, deadLetters, confirmations>>,
           NEW s \in Sessions, session'[s].status = session[s].status,
           Requested(s) => Requested(s)'
    PROVE  Steady(s)
BY SteadyStep

LEMMA LeftByQueue ==
    ASSUME Uncut, NEW w \in Workers, ~Cut',
           \/ ConsumeClaimed(w) \/ ConsumeNew(w) \/ BuryCopy(w) \/ BuryAck(w)
           \/ AcquireLock(w) \/ ReleaseLock(w) \/ Crash(w)
    PROVE  (\A v \in Workers : ExecFine(v)') /\ (\A t \in Sessions : LeftFine(t)')
<1>1. TypeInv /\ HolderInv /\ BuriedInv
  BY DEF Uncut
<1>2. Grows
  BY <1>1, ConsumeTyped, BuryCopyTyped, BuryAckTyped, AcquireLockTyped, ReleaseLockTyped, CrashTyped
     DEF Preserved
<1>3. UNCHANGED <<session, confirmations, request>>
  BY DEF ConsumeClaimed, ConsumeNew, BuryCopy, BuryAck, AcquireLock, ReleaseLock, Crash, rows
<1>4. deadLetters \subseteq deadLetters'
  BY DEF ConsumeClaimed, ConsumeNew, BuryCopy, BuryAck, AcquireLock, ReleaseLock, Crash
<1>5. ASSUME NEW s \in Sessions,
             \A n \in DOMAIN messages :
               messages[n].of = s /\ messages[n].state # "acked" => messages'[n].state # "acked"
      PROVE  Steady(s)
  <2>1. Requested(s) => Requested(s)'
    BY <1>3 DEF Requested
  <2> QED
    BY <1>1, <1>2, <1>3, <1>4, <1>5, <2>1, SteadyStep
<1>6. ASSUME \A t \in Sessions : Steady(t), \A v \in Workers \ {w} : worker'[v] = worker[v],
             worker'[w].pc \notin Executing \cup {"ack", "release"},
             worker[w].pc \in Executing => \A t \in Sessions : Of(w) = t => Another(t, 0)'
      PROVE  (\A v \in Workers : ExecFine(v)') /\ (\A t \in Sessions : LeftFine(t)')
  <2>1. \A v \in Workers : Aside(v)
    BY <1>6 DEF Aside
  <2> QED
    BY <1>2, <1>6, <2>1, LeftAside
<1>7. {"off", "lock", "bury", "dead_letter", "ack_dead", "start"} \cap (Executing \cup {"ack", "release"}) = {}
  BY DEF Executing, OutsideLock
<1>8. CASE ConsumeClaimed(w) \/ ConsumeNew(w)
  <2>1. PICK m \in DOMAIN messages :
            /\ worker[w].pc = "off" /\ messages'[m].state = "pending"
            /\ \A n \in DOMAIN messages \ {m} : messages'[n] = messages[n]
            /\ worker'[w].pc \in {"lock", "bury"}
            /\ \A v \in Workers \ {w} : worker'[v] = worker[v]
    BY <1>1, <1>8, ConsumeTyped DEF Delivered
  <2>2. \A t \in Sessions : Steady(t)
    BY <1>5, <2>1
  <2> QED
    BY <1>6, <1>7, <2>1, <2>2
<1>9. CASE BuryCopy(w)
  <2>1. /\ worker[w].pc = "dead_letter" /\ worker'[w].pc = "ack_dead" /\ UNCHANGED messages
        /\ \A v \in Workers \ {w} : worker'[v] = worker[v]
    BY <1>1, <1>9, BuryCopyTyped DEF Moves, BuryCopy
  <2>2. \A t \in Sessions : Steady(t)
    BY <1>5, <2>1
  <2> QED
    BY <1>6, <1>7, <2>1, <2>2
<1>10. CASE BuryAck(w)
  <2>1. PICK m \in DOMAIN messages : m = worker[w].msg
    BY <1>1, <1>10, WorkerIsAt DEF BuryAck
  <2>2. /\ worker[w].pc = "ack_dead" /\ worker'[w].pc = "off" /\ Acked(m)
        /\ \A v \in Workers \ {w} : worker'[v] = worker[v]
    <3>1. /\ Acked(worker[w].msg) /\ worker'[w] = Off
          /\ \A v \in Workers \ {w} : worker'[v] = worker[v]
      BY <1>1, <1>10, BuryAckTyped
    <3>2. Acked(m)
      BY <2>1, <3>1 DEF Acked
    <3> QED
      BY <1>10, <3>1, <3>2 DEF BuryAck, Off
  <2>3. m \in deadLetters'
    BY <1>1, <1>4, <2>1, <2>2 DEF BuriedInv
  <2>4. ASSUME NEW t \in Sessions PROVE Steady(t)
    <3>1. CASE messages[m].of # t
      BY <1>5, <2>2, <3>1 DEF Acked
    <3>2. CASE messages[m].of = t
      <4>1. messages'[m].of = t
        BY <2>2, <3>2 DEF Acked
      <4>2. \A k \in DOMAIN messages \cup {0} : Another(t, k)'
        BY <2>3, <4>1 DEF Another
      <4> QED
        BY <1>3, <4>2 DEF Steady, AsksUser, Waits
    <3> QED
      BY <3>1, <3>2
  <2> QED
    BY <1>6, <1>7, <2>2, <2>4
<1>11. CASE AcquireLock(w) \/ ReleaseLock(w)
  <2>1. /\ worker[w].pc \in {"lock", "release"} /\ worker'[w].pc \in {"start", "off"}
        /\ UNCHANGED messages /\ \A v \in Workers \ {w} : worker'[v] = worker[v]
    BY <1>1, <1>11, AcquireLockTyped, ReleaseLockTyped DEF Moves, AcquireLock, ReleaseLock, Off
  <2>2. \A t \in Sessions : Steady(t)
    BY <1>5, <2>1
  <2>3. worker[w].pc \notin Executing
    BY <2>1 DEF Executing, OutsideLock
  <2> QED
    BY <1>6, <1>7, <2>1, <2>2, <2>3
<1>12. CASE Crash(w)
  <2>1. /\ worker'[w].pc = "off" /\ UNCHANGED messages /\ Happened("crash")'
        /\ \A v \in Workers \ {w} : worker'[v] = worker[v]
    <3>1. /\ worker'[w] = Off /\ Happened("crash")'
          /\ \A v \in Workers \ {w} : worker'[v] = worker[v]
      BY <1>1, <1>12, CrashTyped
    <3>2. UNCHANGED messages
      BY <1>12 DEF Crash
    <3> QED
      BY <3>1, <3>2 DEF Off
  <2>2. \A t \in Sessions : Steady(t)
    BY <1>5, <2>1
  <2>3. ~Happened("slow_claim")
    BY <1>2, <2>1, FaultsStay DEF Cut
  <2>4. ASSUME worker[w].pc \in Executing, NEW t \in Sessions, Of(w) = t PROVE Another(t, 0)'
    <3>1. worker[w].pc # "release" /\ worker[w].pc # "off"
      BY <2>4 DEF Executing, OutsideLock
    <3>2. messages[worker[w].msg].state = "pending" /\ worker[w].msg \in DOMAIN messages
      BY <1>1, <2>3, <3>1, WorkerIsAt DEF HolderInv
    <3>3. worker[w].msg \in DOMAIN messages \ {0} /\ messages[worker[w].msg].of = t
      BY <1>1, <2>4, <3>2 DEF TypeInv, MessagesOK, Of
    <3>4. \E n \in DOMAIN messages \ {0} : messages[n].of = t /\ messages[n].state # "acked"
      BY <3>2, <3>3
    <3> QED
      BY <2>1, <3>4 DEF Another
  <2> QED
    BY <1>6, <1>7, <2>1, <2>2, <2>4
<1> QED
  BY <1>8, <1>9, <1>10, <1>11, <1>12

LEMMA LeftByBuryFail ==
    ASSUME Uncut, NEW w \in Workers, BuryFail(w)
    PROVE  (\A v \in Workers : ExecFine(v)') /\ (\A t \in Sessions : LeftFine(t)')
<1>1. TypeInv /\ Grows /\ Of(w) \in Sessions
  BY BuryFailTyped, WorkerIsAt DEF Preserved, BuryFail, Uncut
<1>2. PICK s \in Sessions : s = Of(w)
  BY <1>1
<1>3. /\ UNCHANGED <<messages, deadLetters, confirmations, request>> /\ worker[w].pc = "bury"
      /\ session'[s].status = "failed" /\ \A t \in Sessions \ {s} : session'[t] = session[t]
      /\ worker'[w].pc = "dead_letter" /\ \A v \in Workers \ {w} : worker'[v] = worker[v]
  BY <1>1, <1>2, BuryFailTyped DEF BuryFail, Moves
<1>4. ASSUME NEW t \in Sessions \ {s} PROVE Steady(t)
  BY <1>1, <1>3, RowsSteady DEF Requested
<1>5. \A v \in Workers : Aside(v)
  BY <1>3 DEF Aside, Executing, OutsideLock
<1>6. AsksUser(s) => AsksUser(s)'
  BY <1>3 DEF AsksUser
<1> QED
  BY <1>1, <1>3, <1>4, <1>5, <1>6, LeftAside

LEMMA LeftByAck ==
    ASSUME Uncut, NEW w \in Workers, AckMessage(w)
    PROVE  (\A v \in Workers : ExecFine(v)') /\ (\A t \in Sessions : LeftFine(t)')
<1> USE DEF Uncut
<1>1. /\ Grows /\ Of(w) \in Sessions /\ worker[w].msg \in DOMAIN messages /\ worker[w].pc = "ack"
      /\ UNCHANGED <<session, confirmations, request, deadLetters>>
  BY AckMessageTyped, WorkerIsAt DEF Preserved, AckMessage, rows
<1>2. PICK s \in Sessions, m \in DOMAIN messages : s = Of(w) /\ m = worker[w].msg
  BY <1>1
<1>3. /\ messages[m].of = s /\ \A n \in DOMAIN messages \ {m} : messages'[n] = messages[n]
      /\ worker'[w].pc = "release" /\ worker'[w].msg = m /\ \A v \in Workers \ {w} : worker'[v] = worker[v]
  BY <1>2, AckMessageTyped DEF Moves, Acked, Of
<1>4. \A t \in Sessions : Requested(t) => Requested(t)'
  BY <1>1 DEF Requested
<1>5. ASSUME NEW t \in Sessions \ {s} PROVE Steady(t)
  BY <1>1, <1>3, <1>4, SteadyStep
<1>6. ASSUME Another(s, m) PROVE Another(s, 0)'
  BY <1>1, <1>3, <1>4, <1>6, AnotherKept
<1>7. Waits(s) => Waits(s)'
  BY <1>1 DEF Waits
<1>8. ASSUME NEW v \in Workers PROVE ExecFine(v)'
  <2>1. CASE v = w
    <3>1. Of(w)' = s
      BY <1>1, <1>2, <1>3, OfStays
    <3>2. session'[s].status # "running"
      BY <1>1, <1>2 DEF ExecFine
    <3> QED
      BY <1>3, <2>1, <3>1, <3>2 DEF ExecFine, Executing, OutsideLock
  <2>2. CASE v # w
    <3>1. CASE worker[v].pc \in Executing \cup {"ack", "release"}
      <4>1. worker[v].pc \notin OutsideLock /\ worker[v].pc # "off" /\ worker[w].pc \notin OutsideLock
        BY <1>1, <3>1 DEF Executing, OutsideLock
      <4>2. Of(v) \in Sessions \ {s}
        BY <1>2, <2>2, <4>1, OneRunner, WorkerIsAt
      <4> QED
        BY <1>1, <1>3, <1>5, <2>2, <4>2, ExecSteady
    <3>2. CASE worker[v].pc \notin Executing \cup {"ack", "release"}
      BY <1>3, <2>2, <3>2, NothingToKnow
    <3> QED
      BY <3>1, <3>2
  <2> QED
    BY <2>1, <2>2
<1>9. ASSUME NEW t \in Sessions PROVE LeftFine(t)'
  <2>1. CASE t = s
    <3>1. /\ session[s].status # "running"
          /\ session[s].status = "queued" => Another(s, m)
          /\ session[s].status = "waiting_user" => Waits(s) \/ Another(s, m)
      BY <1>1, <1>2 DEF ExecFine
    <3> QED
      BY <1>1, <1>6, <1>7, <2>1, <3>1 DEF LeftFine
  <2>2. CASE t # s
    <3>1. ASSUME NEW v \in Workers, worker[v].pc \in Executing, Of(v) = t
          PROVE  worker'[v].pc \in Executing /\ Of(v)' = t
      <4>1. v # w /\ worker[v].pc # "off"
        BY <1>1, <3>1 DEF Executing, OutsideLock
      <4> QED
        BY <1>1, <1>3, <3>1, <4>1, OfStays
    <3> QED
      BY <1>5, <2>2, <3>1, LeftSteady
  <2> QED
    BY <2>1, <2>2
<1> QED
  BY <1>8, <1>9

LEMMA LeftByUser ==
    ASSUME Uncut, User
    PROVE  (\A v \in Workers : ExecFine(v)') /\ (\A t \in Sessions : LeftFine(t)')
<1>1. TypeInv
  BY DEF Uncut
<1>2. CASE \E s \in Sessions, asks \in Asked : Invoke(s, asks)
  <2>1. PICK s \in Sessions, asks \in Asked : Invoke(s, asks)
    BY <1>2
  <2>2. Grows /\ UNCHANGED <<messages, deadLetters, confirmations, worker>>
    BY <1>1, <2>1, InvokeTyped DEF Preserved, Invoke
  <2>3. /\ session'[s].status = "queued" /\ \A t \in Sessions \ {s} : session'[t] = session[t]
        /\ request = NoRequest /\ request'.of = s /\ request' # NoRequest
    BY <1>1, <2>1 DEF Invoke, TypeInv, SessionsOK, NoRequest
  <2>4. \A t \in Sessions \ {s} : Steady(t)
    BY <1>1, <2>2, <2>3, RowsSteady DEF Requested
  <2>5. \A m : Another(s, m)'
    BY <2>3 DEF Another, Requested
  <2>6. AsksUser(s) => AsksUser(s)'
    BY <2>2 DEF AsksUser
  <2>7. \A v \in Workers : Aside(v)
    BY <2>2 DEF Aside
  <2> QED
    BY <2>2, <2>3, <2>4, <2>5, <2>6, <2>7, LeftAside
<1>3. CASE \E s \in Sessions : \E c \in DOMAIN confirmations[s], approved \in BOOLEAN :
               ResumeResolve(s, c, approved)
  <2>1. PICK s \in Sessions : \E c \in DOMAIN confirmations[s], approved \in BOOLEAN :
               ResumeResolve(s, c, approved)
    BY <1>3
  <2>2. PICK c \in DOMAIN confirmations[s], approved \in BOOLEAN : ResumeResolve(s, c, approved)
    BY <2>1
  <2>3. Grows /\ UNCHANGED <<session, messages, deadLetters, worker>>
    BY <1>1, <2>2, ResumeResolveTyped DEF Preserved, ResumeResolve
  <2>4. /\ request = NoRequest /\ request'.of = s /\ request' # NoRequest
        /\ Shown(s, c)
    BY <2>2 DEF ResumeResolve, NoRequest
  <2>5. /\ \A t \in Sessions \ {s} : confirmations'[t] = confirmations[t]
        /\ \A d \in DOMAIN confirmations[s] \ {c} : confirmations'[s][d] = confirmations[s][d]
        /\ \A d \in DOMAIN confirmations[s] : d \in DOMAIN confirmations'[s]
    BY <1>1, <2>2, <2>3 DEF ResumeResolve, TypeInv, ConfirmationsOK, Grows, ConfirmationsGrow
  <2>6. \A t \in Sessions : ~Requested(t)
    BY <2>4 DEF Requested
  <2>7. \A t \in Sessions \ {s} : Steady(t)
    BY <1>1, <2>3, <2>5, <2>6, SteadyStep
  <2>8. Requested(s)' /\ \A m : Another(s, m)'
    BY <2>4 DEF Another, Requested
  <2>9. AsksUser(s) => AsksUser(s)' \/ session[s].status = "waiting_user"
    BY <2>4, <2>5 DEF AsksUser, Shown
  <2>10. Steady(s)
    BY <2>3, <2>8, <2>9 DEF Steady
  <2>11. \A v \in Workers : Aside(v)
    BY <2>3 DEF Aside
  <2> QED
    BY <2>3, <2>7, <2>10, <2>11, LeftAside
<1> QED
  BY <1>2, <1>3 DEF User

LEMMA LeftByRequest ==
    ASSUME Uncut, ResumeStep \/ ResumeSession \/ Enqueue \/ ApiCrash
    PROVE  (\A v \in Workers : ExecFine(v)') /\ (\A t \in Sessions : LeftFine(t)')
<1>1. TypeInv
  BY DEF Uncut
<1>2. Grows /\ UNCHANGED <<deadLetters, confirmations, worker>>
  BY <1>1, ResumeStepTyped, ResumeSessionTyped, EnqueueTyped, ApiCrashTyped
     DEF Preserved, ResumeStep, ResumeSession, Enqueue, ApiCrash, rows
<1>3. \A v \in Workers : Aside(v)
  BY <1>2 DEF Aside
<1>4. ASSUME \A t \in Sessions : Steady(t)
      PROVE  (\A v \in Workers : ExecFine(v)') /\ (\A t \in Sessions : LeftFine(t)')
  BY <1>2, <1>3, <1>4, LeftAside
<1>5. CASE ResumeStep
  <2>1. /\ UNCHANGED <<session, messages>> /\ request'.pc = "session" /\ request'.of = request.of
    BY <1>1, <1>5 DEF ResumeStep, TypeInv, RequestOK, Request
  <2>2. \A t \in Sessions : Requested(t) => Requested(t)'
    BY <2>1 DEF Requested, NoRequest
  <2> QED
    BY <1>1, <1>2, <1>4, <2>1, <2>2, RowsSteady
<1>6. CASE ResumeSession
  <2>1. PICK s \in Sessions : s = request.of /\ Started(s)
    BY <1>1, <1>6 DEF ResumeSession, TypeInv, RequestOK
  <2>2. /\ session'[s].status = IF request.approved THEN "queued" ELSE "cancelled"
        /\ \A t \in Sessions \ {s} : session'[t] = session[t]
    <3>1. PICK status \in {"queued", "cancelled"} :
             status = IF request.approved THEN "queued" ELSE "cancelled"
      OBVIOUS
    <3>2. Status(s, status) /\ status \in SessionStatus \ {"none"}
      BY <1>6, <2>1, <3>1 DEF ResumeSession, SessionStatus
    <3>3. session'[s].status = status /\ \A t \in Sessions \ {s} : session'[t] = session[t]
      BY <1>1, <2>1, <3>2, StatusIsSet DEF TypeInv
    <3> QED
      BY <3>1, <3>3
  <2>3. UNCHANGED messages /\ (request.approved => request'.of = s /\ request'.pc = "enqueue")
    BY <1>1, <1>6, <2>1 DEF ResumeSession, TypeInv, RequestOK, Request
  <2>4. \A t \in Sessions \ {s} : ~Requested(t)
    BY <2>1 DEF Requested
  <2>5. \A t \in Sessions \ {s} : Steady(t)
    BY <1>1, <1>2, <2>2, <2>3, <2>4, RowsSteady
  <2>6. session'[s].status = "queued" => \A m : Another(s, m)'
    BY <2>2, <2>3 DEF Another, Requested, NoRequest
  <2>7. AsksUser(s) => AsksUser(s)'
    BY <1>2 DEF AsksUser
  <2>8. session'[s].status \notin {"running", "waiting_user"}
    BY <2>2
  <2> QED
    BY <1>2, <1>3, <2>5, <2>6, <2>7, <2>8, LeftAside
<1>7. CASE Enqueue
  <2>1. /\ Len(messages') = Len(messages) + 1 /\ DOMAIN messages' = 1..Len(messages')
        /\ messages'[Len(messages')] = [of |-> request.of, count |-> 0, state |-> "new"]
        /\ \A m \in DOMAIN messages : messages'[m] = messages[m]
        /\ UNCHANGED session
    BY <1>1, <1>7, EnqueueTyped DEF Enqueue, rows
  <2>2. PICK n : n = Len(messages')
    OBVIOUS
  <2>3. /\ n \in DOMAIN messages' /\ n \notin DOMAIN messages \cup {0}
        /\ messages'[n].of = request.of /\ messages'[n].state # "acked"
    BY <1>1, <2>1, <2>2, LenProperties DEF TypeInv, MessagesOK
  <2>4. ASSUME NEW t \in Sessions PROVE Steady(t)
    <3>1. CASE Requested(t)
      <4>1. \A m \in DOMAIN messages \cup {0} : Another(t, m)'
        BY <2>3, <3>1 DEF Requested, Another
      <4> QED
        BY <1>2, <2>1, <4>1 DEF Steady, AsksUser, Waits
    <3>2. CASE ~Requested(t)
      BY <1>1, <1>2, <2>1, <3>2, SteadyStep
    <3> QED
      BY <3>1, <3>2
  <2> QED
    BY <1>4, <2>4
<1>8. CASE ApiCrash
  <2>1. UNCHANGED session /\ Happened("api")'
    BY <1>1, <1>8, ApiCrashTyped DEF ApiCrash, rows
  <2>2. ASSUME NEW t \in Sessions PROVE Steady(t)
    <3>1. \A m \in DOMAIN messages \cup {0} : Another(t, m)'
      BY <2>1 DEF Another
    <3> QED
      BY <1>2, <2>1, <3>1 DEF Steady, AsksUser, Waits
  <2> QED
    BY <1>4, <2>2
<1> QED
  BY <1>5, <1>6, <1>7, <1>8

LEMMA LeftStep ==
    ASSUME TypeInv, LockInv, HolderInv, BuriedInv, LeftInv, [Next]_vars
    PROVE  LeftInv'
<1> SUFFICES ASSUME ~Cut'
             PROVE  (\A v \in Workers : ExecFine(v)') /\ (\A t \in Sessions : LeftFine(t)')
  BY DEF LeftInv
<1>1. Grows
  BY TypeStep DEF Preserved
<1>2. ~Cut
  BY <1>1, FaultsStay DEF Cut
<1>3. Uncut
  BY <1>2 DEF Uncut, LeftInv, Cut
<1>4. CASE User \/ Api \/ ApiCrash
  BY <1>3, <1>4, LeftByUser, LeftByRequest DEF Api
<1>5. ASSUME NEW w \in Workers, ProcessOne(w) \/ Crash(w)
      PROVE  (\A v \in Workers : ExecFine(v)') /\ (\A t \in Sessions : LeftFine(t)')
  BY <1>3, <1>5, LeftByQueue, LeftByBuryFail, LeftByAck, LeftByExecute DEF ProcessOne
<1>6. CASE (\E s \in Sessions : LockExpires(s)) \/ UNCHANGED vars
  <2>1. UNCHANGED <<session, confirmations, messages, deadLetters, worker, request>>
    BY <1>6 DEF LockExpires, vars, rows
  <2>2. \A t \in Sessions : Steady(t)
    BY <1>1, <2>1, RowsSteady DEF Requested
  <2>3. \A v \in Workers : Aside(v)
    BY <2>1 DEF Aside
  <2> QED
    BY <1>1, <1>3, <2>2, <2>3, LeftAside
<1> QED
  BY <1>4, <1>5, <1>6 DEF Next

\* The queue, the lock and what the sessions wait for, together.
QueueInv == TypeInv /\ LockInv /\ HolderInv /\ BuriedInv /\ LeftInv

\* A worker that runs a session holds its lock and its message, a buried message is among the
\* dead letters before it is acknowledged, and a session that is not final is on its way to
\* somebody (process_one, the Redis queue and the session statuses run_session writes).
THEOREM QueueIsKept == Spec => []QueueInv
<1>1. Init => QueueInv
  <2> SUFFICES ASSUME Init PROVE QueueInv
    OBVIOUS
  <2>1. \A w \in Workers : worker[w].pc = "off"
    BY DEF Init, Off
  <2>2. LockInv /\ HolderInv /\ BuriedInv
    BY <2>1 DEF LockInv, HolderInv, BuriedInv, OutsideLock
  <2>3. \A w \in Workers : ExecFine(w)
    BY <2>1 DEF ExecFine, Executing, OutsideLock
  <2>4. \A s \in Sessions : LeftFine(s)
    BY DEF Init, LeftFine
  <2> QED
    BY <2>2, <2>3, <2>4, InitTyped DEF QueueInv, LeftInv
<1>2. QueueInv /\ [Next]_vars => QueueInv'
  BY TypeStep, LockStep, HolderStep, BuriedStep, LeftStep DEF QueueInv, Preserved
<1> QED
  BY <1>1, <1>2, PTL DEF Spec

\* A session that is not final is being worked on, was buried, or waits with a question that can
\* be answered, whatever crashes and redeliveries happen, except after the faults the property
\* names (invoke and resume enqueue after the row, process_one acknowledges after the run).
THEOREM NobodyIsLeftBehind == Spec => []NoSessionLeftBehind
<1>1. ASSUME QueueInv PROVE NoSessionLeftBehind
  <2> SUFFICES ASSUME ~Cut, ~Happened("api"), NEW s \in Sessions,
                      session[s].status \in {"queued", "running", "waiting_user"}
               PROVE  \/ WorkIsComing(s)
                      \/ \E m \in deadLetters : messages[m].of = s
                      \/ /\ session[s].status = "waiting_user"
                         /\ \E c \in DOMAIN confirmations[s] : confirmations[s][c].status # "approved"
    BY DEF NoSessionLeftBehind, Cut
  <2>1. LeftFine(s)
    BY <1>1 DEF QueueInv, LeftInv
  <2>2. Another(s, 0) => WorkIsComing(s) \/ \E m \in deadLetters : messages[m].of = s
    BY DEF Another, Requested, WorkIsComing
  <2>3. (\E w \in Workers : worker[w].pc \in Executing /\ Of(w) = s) => WorkIsComing(s)
    BY DEF WorkIsComing, Executing, OutsideLock
  <2> QED
    BY <2>1, <2>2, <2>3 DEF LeftFine, Waits
<1> QED
  BY <1>1, QueueIsKept, PTL

-----------------------------------------------------------------------------
(* Answers.                                                                *)

SentRow == [of : Sessions, plan : Nat, step : Nat, outcome : {"ok", "error"}, refused : BOOLEAN]

\* Question g of plan p has an answer, and so have all the questions before step i.
GateAnswered(s, p, g) ==
    \E c \in DOMAIN confirmations[s] :
        /\ confirmations[s][c].plan = p /\ confirmations[s][c].step = g
        /\ confirmations[s][c].status # "waiting"
GatesAnswered(s, p, i) ==
    \A g \in 1..(i - 1) : plans[s][p].steps[g].kind = "confirm" => GateAnswered(s, p, g)

\* A confirm step that is not open was answered.
AnswersInv ==
    \A s \in Sessions : \A p \in DOMAIN plans[s] : \A g \in DOMAIN plans[s][p].steps :
        plans[s][p].steps[g].kind = "confirm" /\ ~Open(steps[s][p][g]) => GateAnswered(s, p, g)

\* A worker that carries out a step is at no confirm step, and past all questions before it.
Carrying == {"context", "execute", "save", "mark", "done", "fail_step"}
StepsInv ==
    \A w \in Workers :
        /\ worker[w].pc \in Carrying => StepOf(w).kind # "confirm"
        /\ worker[w].pc \in {"context", "execute"} =>
             GatesAnswered(Of(w), worker[w].plan, worker[w].step)

\* An entry is about a write of a stored plan, and all questions before it were answered.
SentFine(entry) ==
    /\ entry \in SentRow
    /\ entry.plan \in DOMAIN plans[entry.of]
    /\ entry.step \in DOMAIN plans[entry.of][entry.plan].steps
    /\ IsWrite(plans[entry.of][entry.plan].steps[entry.step])
    /\ GatesAnswered(entry.of, entry.plan, entry.step)
SentInv == sent \in Seq(SentRow) /\ \A k \in DOMAIN sent : SentFine(sent[k])

LEMMA AnswerStays ==
    ASSUME Grows, NEW s \in Sessions, NEW p, NEW g, GateAnswered(s, p, g)
    PROVE  GateAnswered(s, p, g)'
BY DEF Grows, ConfirmationsGrow, GateAnswered

LEMMA AnswersStay ==
    ASSUME Grows, NEW s \in Sessions, NEW p \in DOMAIN plans[s], NEW i, GatesAnswered(s, p, i)
    PROVE  GatesAnswered(s, p, i)'
<1>1. plans'[s][p] = plans[s][p]
  BY DEF Grows, PlansGrow
<1> QED
  BY <1>1, AnswerStays DEF GatesAnswered

LEMMA EntryStays ==
    ASSUME Grows, NEW entry, SentFine(entry)
    PROVE  SentFine(entry)'
<1>1. entry.of \in Sessions
  BY DEF SentFine, SentRow
<1>2. GatesAnswered(entry.of, entry.plan, entry.step)'
  BY <1>1, AnswersStay DEF SentFine
<1> QED
  BY <1>1, <1>2 DEF SentFine, Grows, PlansGrow

\* Where the steps stay as they are, or none but a step without question is closed.
LEMMA AnswersKept ==
    ASSUME TypeInv, Grows, AnswersInv, UNCHANGED plans,
           \A s \in Sessions : \A p \in DOMAIN plans[s] : \A g \in DOMAIN plans[s][p].steps :
              \/ Open(steps'[s][p][g])
              \/ steps'[s][p][g] = steps[s][p][g]
              \/ plans[s][p].steps[g].kind # "confirm"
              \/ GateAnswered(s, p, g)
    PROVE  AnswersInv'
<1>1. ASSUME NEW s \in Sessions, NEW p \in DOMAIN plans[s], NEW g \in DOMAIN plans[s][p].steps,
             plans[s][p].steps[g].kind = "confirm", ~Open(steps'[s][p][g])
      PROVE  GateAnswered(s, p, g)'
  <2>1. GateAnswered(s, p, g)
    BY <1>1 DEF AnswersInv
  <2> QED
    BY <2>1, AnswerStays
<1> QED
  BY <1>1 DEF AnswersInv, Open

\* A worker that goes on, or another one.
LEMMA StepKept ==
    ASSUME TypeInv, Grows, StepsInv, NEW v \in Workers,
           worker'[v].msg = worker[v].msg, worker'[v].plan = worker[v].plan,
           worker'[v].step = worker[v].step, worker'[v].pc \in Carrying, worker[v].pc \in Carrying,
           worker'[v].pc \in {"context", "execute"} => worker[v].pc \in {"context", "execute"}
    PROVE  /\ StepOf(v)'.kind # "confirm"
           /\ worker'[v].pc \in {"context", "execute"} =>
                GatesAnswered(Of(v), worker[v].plan, worker[v].step)'
<1>1. worker[v].pc # "off" /\ worker[v].pc \in AtStep
  BY DEF Carrying, AtStep
<1>2. PICK s, p, i : /\ s \in Sessions /\ s = Of(v) /\ Of(v)' = s
                     /\ p = worker[v].plan /\ i = worker[v].step
  BY <1>1, OfStays
<1>3. p \in DOMAIN plans[s] /\ i \in DOMAIN plans[s][p].steps
  BY <1>1, <1>2, WorkerIsAt
<1>4. plans'[s][p] = plans[s][p]
  BY <1>2, <1>3 DEF Grows, PlansGrow
<1>5. StepOf(v)'.kind # "confirm"
  BY <1>2, <1>4 DEF StepsInv, StepOf, PlanOf
<1>6. ASSUME worker'[v].pc \in {"context", "execute"} PROVE GatesAnswered(s, p, i)'
  BY <1>2, <1>3, <1>6, AnswersStay DEF StepsInv
<1> QED
  BY <1>2, <1>5, <1>6

\* A worker stays where it is, goes on with its plan, or is outside of it.
LEMMA WorkerMoves ==
    ASSUME TypeInv, [Next]_vars, NEW v \in Workers
    PROVE  \/ worker'[v] = worker[v]
           \/ Execute(v)
           \/ worker'[v].pc \in OutsideLock \cup {"start", "release"}
<1>1. CASE User \/ Api \/ ApiCrash \/ (\E s \in Sessions : LockExpires(s)) \/ UNCHANGED vars
  BY <1>1 DEF User, Invoke, ResumeResolve, Api, ResumeStep, ResumeSession, Enqueue, ApiCrash,
              LockExpires, vars
<1>2. ASSUME NEW w \in Workers, Execute(w), v # w PROVE worker'[v] = worker[v]
  BY <1>2, ExecuteMoves DEF Moves
<1>3. ASSUME NEW w \in Workers,
             \/ ConsumeClaimed(w) \/ ConsumeNew(w) \/ BuryFail(w) \/ BuryCopy(w) \/ BuryAck(w)
             \/ AcquireLock(w) \/ AckMessage(w) \/ ReleaseLock(w) \/ Crash(w)
      PROVE  worker'[v] = worker[v] \/ worker'[v].pc \in OutsideLock \cup {"start", "release"}
  <2>1. CASE ConsumeClaimed(w) \/ ConsumeNew(w)
    BY <2>1, ConsumeTyped DEF Delivered, OutsideLock
  <2>2. CASE BuryFail(w) \/ BuryCopy(w) \/ BuryAck(w)
    BY <2>2, BuryFailTyped, BuryCopyTyped, BuryAckTyped DEF Moves, Off, OutsideLock
  <2>3. CASE AcquireLock(w) \/ AckMessage(w)
    BY <2>3, AcquireLockTyped, AckMessageTyped DEF Moves, Off, OutsideLock
  <2>4. CASE ReleaseLock(w) \/ Crash(w)
    BY <2>4, ReleaseLockTyped, CrashTyped DEF Off, OutsideLock
  <2> QED
    BY <1>3, <2>1, <2>2, <2>3, <2>4
<1> QED
  BY <1>1, <1>2, <1>3 DEF Next, ProcessOne

\* A worker that carries out a step has picked it, or goes on with it.
LEMMA CarriesOn ==
    ASSUME TypeInv, NEW w \in Workers, Execute(w), worker'[w].pc \in Carrying
    PROVE  \/ PickStep(w)
           \/ /\ SameStep(w) /\ worker'[w].msg = worker[w].msg /\ worker[w].pc \in Carrying
              /\ worker'[w].pc \in {"context", "execute"} => worker[w].pc \in {"context", "execute"}
<1>1. CASE RunSession(w) \/ FindPlan(w) \/ SavePlan(w) \/ PlanFails(w)
  BY <1>1, RunSessionTyped, FindPlanTyped, SavePlanTyped, PlanFailsTyped DEF Moves, Carrying
<1>2. CASE BuildStepContext(w)
  BY <1>2, BuildStepContextTyped DEF BuildStepContext, Moves, Carrying
<1>3. CASE ExecuteStep(w) \/ SkipWrite(w) \/ SendWrite(w)
  BY <1>3, ExecuteTyped, SendWriteTyped DEF ExecuteStep, SkipWrite, SendWrite, Moves, Carrying
<1>4. CASE StepRaises(w)
  BY <1>4, StepRaisesTyped DEF StepRaises, Moves, Carrying
<1>5. CASE SaveStepOutput(w)
  BY <1>5, SaveStepOutputTyped DEF SaveStepOutput, Moves, Carrying
<1>6. CASE MarkIdempotency(w)
  BY <1>6, MarkIdempotencyTyped DEF MarkIdempotency, Moves, Carrying
<1>7. CASE StepDone(w) \/ FailStep(w) \/ FailSession(w) \/ FinishSession(w)
  BY <1>7, StepDoneTyped, FailStepTyped, FailSessionTyped, FinishSessionTyped DEF Moves, Carrying
<1>8. CASE RunConfirmStep(w) \/ AwaitStep(w) \/ AwaitSession(w)
  BY <1>8, RunConfirmStepTyped, AwaitStepTyped, AwaitSessionTyped DEF Moves, Carrying
<1> QED
  BY <1>1, <1>2, <1>3, <1>4, <1>5, <1>6, <1>7, <1>8 DEF Execute

LEMMA StepsStep ==
    ASSUME TypeInv, StepsInv, AnswersInv, [Next]_vars
    PROVE  StepsInv'
<1>1. Grows
  BY TypeStep DEF Preserved
<1>2. SUFFICES ASSUME NEW v \in Workers, worker'[v].pc \in Carrying
               PROVE  /\ StepOf(v)'.kind # "confirm"
                      /\ worker'[v].pc \in {"context", "execute"} =>
                           GatesAnswered(Of(v), worker[v].plan, worker[v].step)'
  BY DEF StepsInv, Carrying
<1>3. CASE worker'[v] = worker[v]
  BY <1>1, <1>2, <1>3, StepKept
<1>4. CASE Execute(v)
  <2>1. CASE PickStep(v)
    <3>1. PICK i \in Nat :
             /\ Picked(v, i) /\ plans[Of(v)][worker[v].plan].steps[i].kind # "confirm"
             /\ worker'[v].msg = worker[v].msg
      BY <1>2, <2>1, PickStepTyped DEF Carrying, Moves
    <3>2. worker[v].pc = "pick" /\ worker[v].pc # "off"
      BY <2>1 DEF PickStep
    <3>3. PICK s, p : /\ s \in Sessions /\ s = Of(v) /\ Of(v)' = s
                      /\ p = worker[v].plan /\ p \in DOMAIN plans[s] /\ worker'[v].plan = p
      BY <1>1, <2>1, <3>1, <3>2, OfStays, WorkerIsAt, PickStepTyped DEF AtStep
    <3>4. /\ i \in DOMAIN plans[s][p].steps /\ worker'[v].step = i
          /\ \A j \in DOMAIN plans[s][p].steps : Open(steps[s][p][j]) => i <= j
      BY <3>1, <3>3 DEF Picked
    <3>5. plans'[s][p] = plans[s][p]
      BY <1>1, <3>3 DEF Grows, PlansGrow
    <3>6. DOMAIN plans[s][p].steps = 1..Len(plans[s][p].steps) /\ Len(plans[s][p].steps) \in Nat
      <4>1. plans[s][p] \in StoredPlans
        BY <3>3 DEF TypeInv, PlansOK
      <4> QED
        BY <4>1, StoredPlansArePlans
    <3>7. GatesAnswered(s, p, i)
      <4>1. SUFFICES ASSUME NEW g \in 1..(i - 1), plans[s][p].steps[g].kind = "confirm"
                     PROVE  GateAnswered(s, p, g)
        BY DEF GatesAnswered
      <4>2. g \in DOMAIN plans[s][p].steps /\ ~(i <= g)
        BY <3>4, <3>6, <4>1
      <4> QED
        BY <3>3, <3>4, <4>1, <4>2 DEF AnswersInv
    <3>8. GatesAnswered(s, p, i)'
      BY <1>1, <3>3, <3>7, AnswersStay
    <3>9. StepOf(v)'.kind # "confirm"
      BY <3>1, <3>3, <3>4, <3>5 DEF StepOf, PlanOf
    <3> QED
      BY <3>3, <3>4, <3>8, <3>9
  <2>2. CASE ~PickStep(v)
    BY <1>1, <1>2, <1>4, <2>2, CarriesOn, StepKept DEF SameStep
  <2> QED
    BY <2>1, <2>2
<1> QED
  BY <1>2, <1>3, <1>4, WorkerMoves DEF Carrying, OutsideLock

LEMMA AnswersStep ==
    ASSUME TypeInv, StepsInv, AnswersInv, [Next]_vars
    PROVE  AnswersInv'
<1>1. Grows
  BY TypeStep DEF Preserved
<1>2. ASSUME UNCHANGED <<plans, steps>> PROVE AnswersInv'
  BY <1>1, <1>2, AnswersKept
<1>3. CASE User \/ ResumeSession \/ Enqueue \/ ApiCrash \/ (\E s \in Sessions : LockExpires(s))
           \/ UNCHANGED vars
  BY <1>2, <1>3 DEF User, Invoke, ResumeResolve, ResumeSession, Enqueue, ApiCrash, LockExpires, vars, rows
<1>4. CASE ResumeStep
  <2>1. PICK s, c : /\ s \in Sessions /\ c \in DOMAIN confirmations[s]
                    /\ s = request.of /\ c = request.confirmation
                    /\ confirmations[s][c].status # "waiting" /\ IsOf(confirmations[s][c], s)
    BY <1>4 DEF ResumeStep, TypeInv, RequestOK, ConfirmationsOK
  <2>2. PICK p, i, status : /\ status \in StepStatus
                            /\ p = confirmations[s][c].plan /\ i = confirmations[s][c].step
                            /\ SetStep(s, p, i, status)
    <3>1. SetStep(s, confirmations[s][c].plan, confirmations[s][c].step,
                  IF request.approved THEN "success" ELSE "failed")
      BY <1>4, <2>1 DEF ResumeStep
    <3> QED
      BY <3>1 DEF StepStatus
  <2>3. p \in DOMAIN plans[s] /\ i \in DOMAIN plans[s][p].steps /\ UNCHANGED plans
    BY <1>4, <2>1, <2>2 DEF IsOf, ResumeStep
  <2>4. \A t \in Sessions : \A q \in DOMAIN plans[t] : \A j \in DOMAIN plans[t][q].steps :
           steps'[t][q][j] = IF t = s /\ q = p /\ j = i THEN status ELSE steps[t][q][j]
    BY <2>1, <2>2, <2>3, StepIsSet DEF TypeInv
  <2>5. GateAnswered(s, p, i)
    BY <2>1, <2>2 DEF GateAnswered
  <2>6. \A t \in Sessions : \A q \in DOMAIN plans[t] : \A j \in DOMAIN plans[t][q].steps :
           steps'[t][q][j] = steps[t][q][j] \/ GateAnswered(t, q, j)
    BY <2>4, <2>5
  <2> QED
    BY <1>1, <2>3, <2>6, AnswersKept
<1>5. ASSUME NEW w \in Workers, SavePlan(w) PROVE AnswersInv'
  <2>1. worker[w].pc # "off" /\ UNCHANGED session
    BY <1>5 DEF SavePlan
  <2>2. PICK s, n : s = Of(w) /\ s \in Sessions /\ n = Len(plans'[s])
    BY <1>5, <2>1, WorkerIsAt
  <2>3. /\ n = Len(plans[s]) + 1
        /\ \A t \in Sessions \ {s} : plans'[t] = plans[t] /\ steps'[t] = steps[t]
        /\ \A p \in DOMAIN plans[s] : steps'[s][p] = steps[s][p]
        /\ \A i \in DOMAIN plans'[s][n].steps : steps'[s][n][i] = "pending"
    BY <1>5, <2>2, SavePlanTyped
  <2>4. /\ DOMAIN plans[s] = 1..Len(plans[s]) /\ Len(plans[s]) \in Nat
        /\ DOMAIN plans'[s] = 1..n
    <3>1. plans[s] \in Seq(StoredPlans) /\ plans'[s] \in Seq(StoredPlans)
      BY <1>5, <2>2, SavePlanTyped DEF Preserved, TypeInv, PlansOK
    <3> QED
      BY <2>2, <3>1, LenProperties
  <2>5. ASSUME NEW t \in Sessions, NEW p \in DOMAIN plans'[t], NEW g \in DOMAIN plans'[t][p].steps,
               plans'[t][p].steps[g].kind = "confirm", ~Open(steps'[t][p][g])
        PROVE  GateAnswered(t, p, g)'
    <3>1. CASE t = s /\ p = n
      BY <2>3, <2>5, <3>1 DEF Open
    <3>2. CASE ~(t = s /\ p = n)
      <4>1. p \in DOMAIN plans[t] /\ steps'[t][p] = steps[t][p] /\ plans'[t][p] = plans[t][p]
        <5>1. p \in DOMAIN plans[t]
          BY <2>3, <2>4, <3>2
        <5>2. plans'[t][p] = plans[t][p]
          BY <1>1, <5>1 DEF Grows, PlansGrow
        <5> QED
          BY <2>3, <5>1, <5>2
      <4>2. GateAnswered(t, p, g)
        BY <2>5, <4>1 DEF AnswersInv
      <4> QED
        BY <1>1, <4>2, AnswerStays
    <3> QED
      BY <3>1, <3>2
  <2> QED
    BY <2>5 DEF AnswersInv, Open
<1>6. ASSUME NEW w \in Workers, PickStep(w) PROVE AnswersInv'
  <2>1. UNCHANGED plans
    BY <1>6 DEF PickStep
  <2>2. CASE UNCHANGED steps
    BY <1>2, <2>1, <2>2
  <2>3. CASE ~UNCHANGED steps
    <3>1. PICK i \in Nat :
             /\ Picked(w, i) /\ plans[Of(w)][worker[w].plan].steps[i].kind # "confirm"
             /\ \A t \in Sessions : \A q \in DOMAIN plans[t] : \A j \in DOMAIN plans[t][q].steps :
                   steps'[t][q][j] = IF t = Of(w) /\ q = worker[w].plan /\ j = i THEN "running"
                                     ELSE steps[t][q][j]
      BY <1>6, <2>3, PickStepTyped
    <3>2. \A t \in Sessions : \A q \in DOMAIN plans[t] : \A j \in DOMAIN plans[t][q].steps :
             steps'[t][q][j] = steps[t][q][j] \/ plans[t][q].steps[j].kind # "confirm"
      BY <3>1
    <3> QED
      BY <1>1, <2>1, <3>2, AnswersKept
  <2> QED
    BY <2>2, <2>3
<1>7. ASSUME NEW w \in Workers, StepDone(w) \/ FailStep(w) \/ AwaitStep(w) PROVE AnswersInv'
  <2>1. UNCHANGED plans
    BY <1>7 DEF StepDone, FailStep, AwaitStep
  <2>2. PICK status \in {"success", "failed", "waiting_user"} :
           /\ status = "waiting_user" \/ worker[w].pc \in Carrying
           /\ \A t \in Sessions : \A q \in DOMAIN plans[t] : \A j \in DOMAIN plans[t][q].steps :
                 steps'[t][q][j] =
                     IF t = Of(w) /\ q = worker[w].plan /\ j = worker[w].step THEN status
                     ELSE steps[t][q][j]
    BY <1>7, StepDoneTyped, FailStepTyped, AwaitStepTyped DEF StepDone, FailStep, Carrying
  <2>3. worker[w].pc \in Carrying =>
           plans[Of(w)][worker[w].plan].steps[worker[w].step].kind # "confirm"
    BY DEF StepsInv, StepOf, PlanOf
  <2>4. \A t \in Sessions : \A q \in DOMAIN plans[t] : \A j \in DOMAIN plans[t][q].steps :
           \/ Open(steps'[t][q][j]) \/ steps'[t][q][j] = steps[t][q][j]
           \/ plans[t][q].steps[j].kind # "confirm"
    BY <2>2, <2>3 DEF Open
  <2> QED
    BY <1>1, <2>1, <2>4, AnswersKept
<1>8. ASSUME NEW w \in Workers, ProcessOne(w) \/ Crash(w),
             ~(SavePlan(w) \/ PickStep(w) \/ StepDone(w) \/ FailStep(w) \/ AwaitStep(w))
      PROVE  UNCHANGED <<plans, steps>>
  BY <1>8 DEF ProcessOne, Execute, ConsumeClaimed, ConsumeNew, BuryFail, BuryCopy, BuryAck, AcquireLock,
     AckMessage, ReleaseLock, Crash, RunSession, FindPlan, PlanFails, BuildStepContext, ExecuteStep,
     SkipWrite, SendWrite, StepRaises, SaveStepOutput, MarkIdempotency, FailSession, RunConfirmStep,
     AwaitSession, FinishSession, rows
<1> QED
  BY <1>2, <1>3, <1>4, <1>5, <1>6, <1>7, <1>8 DEF Next, Api

\* Only SendWrite adds an entry.
LEMMA OnlySends ==
    ASSUME [Next]_vars
    PROVE  UNCHANGED sent \/ \E w \in Workers : SendWrite(w)
<1>1. ASSUME NEW w \in Workers, ProcessOne(w) \/ Crash(w), ~SendWrite(w) PROVE UNCHANGED sent
  BY <1>1 DEF ProcessOne, Execute, ConsumeClaimed, ConsumeNew, BuryFail, BuryCopy, BuryAck, AcquireLock,
     AckMessage, ReleaseLock, Crash, RunSession, FindPlan, SavePlan, PlanFails, PickStep, BuildStepContext,
     ExecuteStep, SkipWrite, StepRaises, SaveStepOutput, MarkIdempotency, StepDone, FailStep, FailSession,
     RunConfirmStep, AwaitStep, AwaitSession, FinishSession
<1>2. CASE User \/ Api \/ ApiCrash \/ (\E s \in Sessions : LockExpires(s)) \/ UNCHANGED vars
  BY <1>2 DEF User, Invoke, ResumeResolve, Api, ResumeStep, ResumeSession, Enqueue, ApiCrash,
              LockExpires, vars
<1> QED
  BY <1>1, <1>2 DEF Next

\* What a write adds.
LEMMA WriteIsAdded ==
    ASSUME TypeInv, StepsInv, SentInv, NEW w \in Workers, SendWrite(w)
    PROVE  LET k == Len(sent) + 1 IN
           /\ sent' \in Seq(SentRow)
           /\ Len(sent) \in Nat /\ DOMAIN sent = 1..Len(sent) /\ DOMAIN sent' = 1..k
           /\ \A j \in DOMAIN sent : sent'[j] = sent[j]
           /\ sent'[k].of = Of(w) /\ sent'[k].plan = worker[w].plan
           /\ sent'[k].step = worker[w].step /\ sent'[k].outcome = worker'[w].outcome
           /\ SentFine(sent'[k])
<1>1. PICK entry, k : entry = WriteOf(w, worker'[w].outcome) /\ k = Len(sent) + 1
  OBVIOUS
<1>2. worker[w].pc = "execute" /\ IsWrite(StepOf(w)) /\ worker[w].pc # "off"
      /\ worker[w].pc \in AtStep
  BY DEF SendWrite, AtStep
<1>3. PICK s, p, i : s = Of(w) /\ p = worker[w].plan /\ i = worker[w].step
  OBVIOUS
<1>4. /\ s \in Sessions /\ p \in DOMAIN plans[s] /\ i \in DOMAIN plans[s][p].steps
  BY <1>2, <1>3, WorkerIsAt
<1>5. worker[w] \in WorkerRow
  BY DEF TypeInv, WorkersOK
<1>6. worker'[w].outcome \in {"ok", "error"} /\ sent' = Append(sent, entry)
  BY <1>1, SendWriteTyped
<1>7. /\ entry.of = s /\ entry.plan = p /\ entry.step = i /\ entry.outcome = worker'[w].outcome
      /\ entry \in SentRow
  <2>1. PICK refused \in BOOLEAN :
           entry = [of |-> s, plan |-> p, step |-> i, outcome |-> worker'[w].outcome,
                    refused |-> refused]
    BY <1>1, <1>3 DEF WriteOf
  <2> QED
    BY <1>3, <1>4, <1>5, <1>6, <2>1 DEF SentRow, WorkerRow
<1>8. SentFine(entry)
  <2>1. GatesAnswered(s, p, i)
    BY <1>2, <1>3 DEF StepsInv
  <2>2. IsWrite(plans[s][p].steps[i])
    BY <1>2, <1>3 DEF StepOf, PlanOf
  <2> QED
    BY <1>4, <1>7, <2>1, <2>2 DEF SentFine
<1>9. sent \in Seq(SentRow) /\ Len(sent) \in Nat /\ DOMAIN sent = 1..Len(sent)
  BY LenProperties DEF SentInv
<1>10. /\ sent' \in Seq(SentRow) /\ Len(sent') = k /\ sent'[k] = entry
       /\ \A j \in 1..Len(sent) : sent'[j] = sent[j]
  BY <1>1, <1>6, <1>7, <1>9, AppendProperties
<1>11. DOMAIN sent' = 1..k
  BY <1>10, LenProperties
<1> QED
  BY <1>1, <1>3, <1>7, <1>8, <1>9, <1>10, <1>11

LEMMA SentStep ==
    ASSUME TypeInv, StepsInv, SentInv, [Next]_vars
    PROVE  SentInv'
<1>1. Grows
  BY TypeStep DEF Preserved
<1>2. CASE UNCHANGED sent
  <2>1. \A k \in DOMAIN sent : SentFine(sent[k])'
    <3>1. SUFFICES ASSUME NEW k \in DOMAIN sent PROVE SentFine(sent[k])'
      OBVIOUS
    <3>2. PICK entry : entry = sent'[k]
      OBVIOUS
    <3>3. SentFine(entry)
      BY <1>2, <3>2 DEF SentInv
    <3>4. SentFine(entry)'
      BY <1>1, <3>3, EntryStays
    <3> QED
      BY <3>2, <3>4 DEF SentFine, GatesAnswered, GateAnswered
  <2> QED
    BY <1>2, <2>1 DEF SentInv
<1>3. ASSUME NEW w \in Workers, SendWrite(w) PROVE SentInv'
  <2>1. PICK k : k = Len(sent) + 1
    OBVIOUS
  <2>2. /\ sent' \in Seq(SentRow)
        /\ Len(sent) \in Nat /\ DOMAIN sent = 1..Len(sent) /\ DOMAIN sent' = 1..k
        /\ \A j \in DOMAIN sent : sent'[j] = sent[j]
        /\ SentFine(sent'[k])
    BY <1>3, <2>1, WriteIsAdded
  <2>3. \A j \in DOMAIN sent' : SentFine(sent'[j])
    BY <2>1, <2>2 DEF SentInv
  <2>4. ASSUME NEW j \in DOMAIN sent' PROVE SentFine(sent[j])'
    <3>1. PICK entry : entry = sent'[j]
      OBVIOUS
    <3>2. SentFine(entry)
      BY <2>3, <3>1
    <3>3. SentFine(entry)'
      BY <1>1, <3>2, EntryStays
    <3> QED
      BY <3>1, <3>3 DEF SentFine, GatesAnswered, GateAnswered
  <2> QED
    BY <2>2, <2>4 DEF SentInv
<1> QED
  BY <1>2, <1>3, OnlySends

\* No failure, redelivery or repeated answer carries a run past an open question: whatever is
\* sent is a write of a stored plan, and every question before it in the plan was answered
\* (run_session goes through the steps in their order and stops at a confirm step; only the
\* resume endpoint closes one).
THEOREM SentAfterAnswers == Spec => [](AnswersInv /\ StepsInv /\ SentInv)
<1>1. Init => AnswersInv /\ StepsInv /\ SentInv
  <2>1. Init => SentInv
    BY EmptySeq DEF Init, SentInv
  <2> QED
    BY <2>1 DEF Init, AnswersInv, StepsInv, Carrying, Off
<1>2. TypeInv /\ AnswersInv /\ StepsInv /\ SentInv /\ [Next]_vars
        => (AnswersInv /\ StepsInv /\ SentInv)'
  BY AnswersStep, StepsStep, SentStep
<1> QED
  BY <1>1, <1>2, RowsAreTyped, PTL DEF Spec

\* An LLM that asks before it writes.  (The validator wants a confirm step in the plan, but
\* does not look where it stands; without the LLM the templates ask first.)
LlmAsksFirst ==
    UseLlm => \A asks \in Asked : \A plan \in LlmPlans(asks) :
                  ValidateWorkflowPlan(plan) => AsksFirst(plan.steps)

LEMMA StoredPlansAskFirst ==
    ASSUME LlmAsksFirst, NEW plan \in StoredPlans
    PROVE  AsksFirst(plan.steps)
<1>1. PICK asks \in Asked : \E raw \in RawPlans(asks) :
         ValidateWorkflowPlan(raw) /\ plan = NormalizeWriteValidationArtifact(raw)
  BY DEF StoredPlans
<1>2. PICK raw \in RawPlans(asks) :
         ValidateWorkflowPlan(raw) /\ plan = NormalizeWriteValidationArtifact(raw)
  BY <1>1
<1>3. AsksFirst(raw.steps)
  <2>1. AsksFirst(RuleBasedPlan(asks).steps)
    BY RulesMakeTemplatePlans DEF TemplatePlan, FromTemplate
  <2>2. CASE ~UseLlm
    BY <1>2, <2>1, <2>2 DEF RawPlans
  <2>3. CASE UseLlm
    <3>1. PICK said \in LlmPlans(asks) : raw = GuardLlmPlan(asks, said)
      BY <1>2, <2>3 DEF RawPlans
    <3>2. raw = said \/ raw = RuleBasedPlan(asks)
      BY <3>1 DEF GuardLlmPlan, RuleBasedPlan
    <3> QED
      BY <1>2, <2>1, <2>3, <3>1, <3>2 DEF LlmAsksFirst
  <2> QED
    BY <2>2, <2>3
<1>4. /\ DOMAIN plan.steps = DOMAIN raw.steps
      /\ \A i \in DOMAIN raw.steps : /\ plan.steps[i].kind = raw.steps[i].kind
                                     /\ plan.steps[i].uses = raw.steps[i].uses
  BY <1>2, RawPlansArePlans, RenamedAlike
<1>5. DOMAIN raw.steps = 1..Len(raw.steps) /\ Len(raw.steps) \in Nat
  <2>1. IsPlan(raw)
    BY RawPlansArePlans
  <2> QED
    BY <2>1, LenProperties DEF IsPlan
<1> QED
  BY <1>3, <1>4, <1>5 DEF AsksFirst, IsWrite

\* A write is sent only behind a confirm step and after every confirm step in front of it has
\* been answered, if the plans of the LLM ask first (execute_tool behind _run_confirm_step and
\* the resume endpoint).
THEOREM WritesWereAnswered ==
    ASSUME LlmAsksFirst
    PROVE  Spec => []NoWriteWithoutAnswer
<1>1. ASSUME TypeInv, SentInv PROVE NoWriteWithoutAnswer
  <2>1. SUFFICES ASSUME NEW k \in DOMAIN sent
                 PROVE  LET gates == GatesBefore(plans[sent[k].of][sent[k].plan], sent[k].step) IN
                        /\ gates # {}
                        /\ \A g \in gates :
                              Answered(sent[k].of, sent[k].plan, g) \cap {"approved", "rejected"} # {}
    BY DEF NoWriteWithoutAnswer
  <2>2. PICK s, p, i : s = sent[k].of /\ p = sent[k].plan /\ i = sent[k].step
    OBVIOUS
  <2>3. /\ s \in Sessions /\ p \in DOMAIN plans[s] /\ i \in DOMAIN plans[s][p].steps
        /\ IsWrite(plans[s][p].steps[i]) /\ GatesAnswered(s, p, i)
    BY <1>1, <2>1, <2>2 DEF SentInv, SentFine, SentRow
  <2>4. plans[s][p] \in StoredPlans
    BY <1>1, <2>3 DEF TypeInv, PlansOK
  <2>5. GatesBefore(plans[s][p], i) # {}
    <3>1. AsksFirst(plans[s][p].steps)
      BY <2>4, StoredPlansAskFirst
    <3> QED
      BY <2>3, <3>1 DEF AsksFirst, GatesBefore
  <2>6. ASSUME NEW g \in GatesBefore(plans[s][p], i)
        PROVE  Answered(s, p, g) \cap {"approved", "rejected"} # {}
    <3>1. PICK c \in DOMAIN confirmations[s] :
             /\ confirmations[s][c].plan = p /\ confirmations[s][c].step = g
             /\ confirmations[s][c].status # "waiting"
      BY <2>3 DEF GatesBefore, GatesAnswered, GateAnswered
    <3>2. confirmations[s][c].status \in {"waiting", "approved", "rejected"}
      <4>1. confirmations[s][c] \in Confirmation
        BY <1>1, <2>3, <3>1 DEF TypeInv, ConfirmationsOK
      <4> QED
        BY <4>1 DEF Confirmation
    <3> QED
      BY <3>1, <3>2 DEF Answered
  <2> QED
    BY <2>2, <2>5, <2>6
<1> QED
  BY <1>1, RowsAreTyped, SentAfterAnswers, PTL

-----------------------------------------------------------------------------
(* Writes that are not sent again.                                         *)

\* A step is opened again by nothing but a worker that waits for the user at it.
LEMMA ClosedStay ==
    ASSUME TypeInv, [Next]_vars, NEW s \in Sessions, NEW p \in DOMAIN plans[s],
           NEW i \in DOMAIN plans[s][p].steps, ~Open(steps[s][p][i]), Open(steps'[s][p][i])
    PROVE  \E w \in Workers : /\ AwaitStep(w) /\ s = Of(w)
                              /\ p = worker[w].plan /\ i = worker[w].step
<1>1. ~(UNCHANGED steps)
  OBVIOUS
<1>2. CASE User \/ ResumeSession \/ Enqueue \/ ApiCrash \/ (\E t \in Sessions : LockExpires(t))
           \/ UNCHANGED vars
  BY <1>1, <1>2 DEF User, Invoke, ResumeResolve, ResumeSession, Enqueue, ApiCrash, LockExpires, vars, rows
<1>3. CASE ResumeStep
  <2>1. PICK t, c : /\ t \in Sessions /\ c \in DOMAIN confirmations[t]
                    /\ t = request.of /\ c = request.confirmation
                    /\ IsOf(confirmations[t][c], t)
    BY <1>3 DEF ResumeStep, TypeInv, RequestOK, ConfirmationsOK
  <2>2. PICK q, j, status : /\ status \in {"success", "failed"}
                            /\ q = confirmations[t][c].plan /\ j = confirmations[t][c].step
                            /\ SetStep(t, q, j, status)
    <3>1. SetStep(t, confirmations[t][c].plan, confirmations[t][c].step,
                  IF request.approved THEN "success" ELSE "failed")
      BY <1>3, <2>1 DEF ResumeStep
    <3> QED
      BY <3>1
  <2>3. q \in DOMAIN plans[t] /\ j \in DOMAIN plans[t][q].steps /\ UNCHANGED plans
        /\ status \in StepStatus
    BY <1>3, <2>1, <2>2 DEF IsOf, ResumeStep, StepStatus
  <2>4. steps'[s][p][i] = IF s = t /\ p = q /\ i = j THEN status ELSE steps[s][p][i]
    BY <2>1, <2>2, <2>3, StepIsSet DEF TypeInv
  <2> QED
    BY <2>2, <2>4 DEF Open
<1>4. ASSUME NEW w \in Workers, SavePlan(w) PROVE FALSE
  BY <1>4, SavePlanTyped
<1>5. ASSUME NEW w \in Workers, PickStep(w) PROVE FALSE
  BY <1>1, <1>5, PickStepTyped DEF Open
<1>6. ASSUME NEW w \in Workers, StepDone(w) \/ FailStep(w) PROVE FALSE
  BY <1>6, StepDoneTyped, FailStepTyped DEF Open
<1>7. ASSUME NEW w \in Workers, AwaitStep(w)
      PROVE  s = Of(w) /\ p = worker[w].plan /\ i = worker[w].step
  BY <1>7, AwaitStepTyped
<1>8. ASSUME NEW w \in Workers, ProcessOne(w) \/ Crash(w),
             ~(SavePlan(w) \/ PickStep(w) \/ StepDone(w) \/ FailStep(w) \/ AwaitStep(w))
      PROVE  UNCHANGED steps
  BY <1>8 DEF ProcessOne, Execute, ConsumeClaimed, ConsumeNew, BuryFail, BuryCopy, BuryAck, AcquireLock,
     AckMessage, ReleaseLock, Crash, RunSession, FindPlan, PlanFails, BuildStepContext, ExecuteStep,
     SkipWrite, SendWrite, StepRaises, SaveStepOutput, MarkIdempotency, FailSession, RunConfirmStep,
     AwaitSession, FinishSession, rows
<1> QED
  BY <1>1, <1>2, <1>3, <1>4, <1>5, <1>6, <1>7, <1>8 DEF Next, Api

\* Only SavePlan adds a plan.
LEMMA OnlySaves ==
    ASSUME [Next]_vars
    PROVE  UNCHANGED plans \/ \E w \in Workers : SavePlan(w)
<1>1. ASSUME NEW w \in Workers, ProcessOne(w) \/ Crash(w), ~SavePlan(w) PROVE UNCHANGED plans
  BY <1>1 DEF ProcessOne, Execute, ConsumeClaimed, ConsumeNew, BuryFail, BuryCopy, BuryAck, AcquireLock,
     AckMessage, ReleaseLock, Crash, RunSession, FindPlan, SendWrite, PlanFails, PickStep, BuildStepContext,
     ExecuteStep, SkipWrite, StepRaises, SaveStepOutput, MarkIdempotency, StepDone, FailStep, FailSession,
     RunConfirmStep, AwaitStep, AwaitSession, FinishSession, rows
<1>2. CASE User \/ Api \/ ApiCrash \/ (\E s \in Sessions : LockExpires(s)) \/ UNCHANGED vars
  BY <1>2 DEF User, Invoke, ResumeResolve, Api, ResumeStep, ResumeSession, Enqueue, ApiCrash,
              LockExpires, vars, rows
<1> QED
  BY <1>1, <1>2 DEF Next

\* How a worker gets to a place.
LEMMA ArrivesAt ==
    ASSUME TypeInv, NEW w \in Workers, Execute(w)
    PROVE  /\ worker'[w].pc = "planning" => FindPlan(w)
           /\ worker'[w].pc \in {"context", "confirm"} => PickStep(w)
           /\ worker'[w].pc = "execute" => BuildStepContext(w)
           /\ worker'[w].pc = "await" => RunConfirmStep(w)
           /\ worker'[w].pc = "save" => ExecuteStep(w) \/ SkipWrite(w) \/ SendWrite(w)
           /\ worker'[w].pc = "mark" => SaveStepOutput(w)
<1>1. CASE RunSession(w) \/ FindPlan(w) \/ SavePlan(w) \/ PlanFails(w)
  BY <1>1, RunSessionTyped, FindPlanTyped, SavePlanTyped, PlanFailsTyped DEF Moves
<1>2. CASE BuildStepContext(w) \/ PickStep(w)
  BY <1>2, BuildStepContextTyped, PickStepTyped DEF Moves
<1>3. CASE ExecuteStep(w) \/ SkipWrite(w) \/ SendWrite(w)
  BY <1>3, ExecuteTyped, SendWriteTyped DEF Moves
<1>4. CASE StepRaises(w) \/ MarkIdempotency(w)
  BY <1>4, StepRaisesTyped, MarkIdempotencyTyped DEF Moves
<1>5. CASE SaveStepOutput(w)
  BY <1>5, SaveStepOutputTyped DEF Moves
<1>6. CASE StepDone(w) \/ FailStep(w) \/ FailSession(w) \/ FinishSession(w)
  BY <1>6, StepDoneTyped, FailStepTyped, FailSessionTyped, FinishSessionTyped DEF Moves
<1>7. CASE RunConfirmStep(w) \/ AwaitStep(w) \/ AwaitSession(w)
  BY <1>7, RunConfirmStepTyped, AwaitStepTyped, AwaitSessionTyped DEF Moves
<1> QED
  BY <1>1, <1>2, <1>3, <1>4, <1>5, <1>6, <1>7 DEF Execute

\* As long as no lock expired under its holder a session has one plan, a worker at a step has
\* not sent its write, and the step of a write that was sent is not picked again.
WasSent(s, i) == \E k \in DOMAIN sent : sent[k].of = s /\ sent[k].step = i
OnePlan == \A s \in Sessions : Len(plans[s]) <= 1
NotSentYet ==
    \A w \in Workers :
        /\ worker[w].pc = "planning" => plans[Of(w)] = << >>
        /\ worker[w].pc \in {"context", "execute", "confirm", "await"} => ~WasSent(Of(w), worker[w].step)
        /\ worker[w].pc \in {"context", "execute"} =>
              ~Open(steps[Of(w)][worker[w].plan][worker[w].step])
SentClosed == \A k \in DOMAIN sent : ~Open(steps[sent[k].of][sent[k].plan][sent[k].step])
OnceInv == Happened("slow_lock") \/ (OnePlan /\ NotSentYet /\ SentClosed /\ WriteSentOnce)

LEMMA PlansOfOne ==
    ASSUME TypeInv, OnePlan, NEW s \in Sessions, NEW p \in DOMAIN plans[s], NEW q \in DOMAIN plans[s]
    PROVE  p = q
<1>1. Len(plans[s]) \in Nat /\ DOMAIN plans[s] = 1..Len(plans[s]) /\ Len(plans[s]) <= 1
  BY LenProperties DEF TypeInv, PlansOK, OnePlan
<1> QED
  BY <1>1

LEMMA OnePlanStep ==
    ASSUME TypeInv, OnePlan, NotSentYet, [Next]_vars
    PROVE  OnePlan'
<1>1. ASSUME NEW w \in Workers, SavePlan(w) PROVE OnePlan'
  <2>1. worker[w].pc = "planning" /\ worker[w].pc # "off"
    BY <1>1 DEF SavePlan
  <2>2. PICK s : s = Of(w) /\ s \in Sessions
    BY <2>1, WorkerIsAt
  <2>3. plans[s] = << >>
    BY <2>1, <2>2 DEF NotSentYet
  <2>4. Len(plans'[s]) = Len(plans[s]) + 1 /\ \A t \in Sessions \ {s} : plans'[t] = plans[t]
    BY <1>1, <2>2, SavePlanTyped
  <2>5. Len(plans'[s]) = 1
    BY <2>3, <2>4
  <2>6. ASSUME NEW t \in Sessions PROVE Len(plans'[t]) <= 1
    <3>1. CASE t = s
      <4>1. Len(plans'[t]) = 1
        BY <2>5, <3>1
      <4> QED
        BY <4>1, SMT
    <3>2. CASE t # s
      <4>1. plans'[t] = plans[t]
        BY <2>4, <3>2
      <4> QED
        BY <4>1 DEF OnePlan
    <3> QED
      BY <3>1, <3>2
  <2> QED
    BY <2>6 DEF OnePlan
<1> QED
  BY <1>1, OnlySaves DEF OnePlan

\* A worker that stays at its place: the others run other sessions.
LEMMA StaysNotSent ==
    ASSUME TypeInv, LockInv, StepsInv, SentInv, ~Happened("slow_lock"), NotSentYet, [Next]_vars,
           NEW v \in Workers, worker'[v] = worker[v]
    PROVE  /\ worker[v].pc = "planning" => plans'[Of(v)] = << >>
           /\ worker[v].pc \in {"context", "execute", "confirm", "await"} =>
                ~WasSent(Of(v), worker[v].step)'
           /\ worker[v].pc \in {"context", "execute"} =>
                ~Open(steps'[Of(v)][worker[v].plan][worker[v].step])
<1>1. Grows
  BY TypeStep DEF Preserved
<1>2. ASSUME worker[v].pc = "planning" PROVE plans'[Of(v)] = << >>
  <2>1. Of(v) \in Sessions /\ plans[Of(v)] = << >> /\ worker[v].pc \notin OutsideLock
    BY <1>2, WorkerIsAt DEF NotSentYet, OutsideLock
  <2>2. ASSUME NEW w \in Workers, SavePlan(w) PROVE plans'[Of(v)] = plans[Of(v)]
    <3>1. worker'[w].pc = "pick" /\ worker[w].pc \notin OutsideLock
      BY <2>2, SavePlanTyped DEF Moves, SavePlan, OutsideLock
    <3>2. Of(w) # Of(v)
      BY <1>2, <2>1, <3>1, OneRunner
    <3> QED
      BY <2>1, <2>2, <3>2, SavePlanTyped
  <2> QED
    BY <2>1, <2>2, OnlySaves
<1>3. ASSUME worker[v].pc \in {"context", "execute", "confirm", "await"}
      PROVE  ~WasSent(Of(v), worker[v].step)'
  <2>1. /\ worker[v].pc # "off" /\ worker[v].pc \notin OutsideLock
        /\ ~WasSent(Of(v), worker[v].step) /\ Of(v)' = Of(v)
    <3>1. worker[v].pc # "off"
      BY <1>3
    <3> QED
      BY <1>1, <1>3, <3>1, OfStays DEF NotSentYet, OutsideLock
  <2>2. PICK s, i : s = Of(v) /\ s = Of(v)' /\ i = worker[v].step /\ i = worker'[v].step
    BY <2>1
  <2>3. ASSUME NEW w \in Workers, SendWrite(w) PROVE ~WasSent(s, i)'
    <3>1. worker'[w].pc = "save" /\ worker[w].pc \notin OutsideLock
      BY <2>3, SendWriteTyped DEF Moves, SendWrite, OutsideLock
    <3>2. Of(w) # s
      BY <1>3, <2>1, <2>2, <3>1, OneRunner
    <3>3. PICK k : k = Len(sent) + 1
      OBVIOUS
    <3>4. /\ Len(sent) \in Nat /\ DOMAIN sent = 1..Len(sent) /\ DOMAIN sent' = 1..k
          /\ \A j \in DOMAIN sent : sent'[j] = sent[j]
          /\ sent'[k].of = Of(w)
      BY <2>3, <3>3, WriteIsAdded
    <3> QED
      BY <2>1, <2>2, <3>2, <3>3, <3>4 DEF WasSent
  <2>4. CASE UNCHANGED sent
    BY <2>1, <2>2, <2>4 DEF WasSent
  <2> QED
    BY <2>2, <2>3, <2>4, OnlySends DEF WasSent
<1>4. ASSUME worker[v].pc \in {"context", "execute"}
      PROVE  ~Open(steps'[Of(v)][worker[v].plan][worker[v].step])
  <2>1. /\ worker[v].pc # "off" /\ worker[v].pc \notin OutsideLock /\ worker[v].pc \in AtStep
        /\ ~Open(steps[Of(v)][worker[v].plan][worker[v].step])
    BY <1>4 DEF NotSentYet, OutsideLock, AtStep
  <2>2. /\ Of(v) \in Sessions /\ worker[v].plan \in DOMAIN plans[Of(v)]
        /\ worker[v].step \in DOMAIN plans[Of(v)][worker[v].plan].steps
    BY <2>1, WorkerIsAt
  <2>3. ASSUME NEW w \in Workers, AwaitStep(w) PROVE Of(v) # Of(w)
    <3>1. worker[w].pc = "await" /\ worker[w].pc \notin OutsideLock
      BY <2>3 DEF AwaitStep, OutsideLock
    <3> QED
      BY <1>4, <2>1, <3>1, OneRunner
  <2> QED
    BY <2>1, <2>2, <2>3, ClosedStay
<1> QED
  BY <1>2, <1>3, <1>4

LEMMA NotSentStep ==
    ASSUME TypeInv, LockInv, StepsInv, SentInv, ~Happened("slow_lock"),
           OnePlan, NotSentYet, SentClosed, [Next]_vars
    PROVE  NotSentYet'
<1>1. Grows
  BY TypeStep DEF Preserved
<1>2. ASSUME NEW v \in Workers,
             worker'[v].pc \in {"planning", "context", "execute", "confirm", "await"}
      PROVE  /\ worker'[v].pc = "planning" => plans'[Of(v)'] = << >>
             /\ worker'[v].pc \in {"context", "execute", "confirm", "await"} =>
                  ~WasSent(Of(v), worker[v].step)'
             /\ worker'[v].pc \in {"context", "execute"} =>
                  ~Open(steps'[Of(v)'][worker'[v].plan][worker'[v].step])
  <2>1. CASE worker'[v] = worker[v]
    <3>1. Of(v)' = Of(v)
      BY <1>1, <1>2, <2>1, OfStays
    <3> QED
      BY <2>1, <3>1, StaysNotSent
  <2>2. CASE Execute(v)
    <3>1. worker[v].pc # "off" /\ worker'[v].msg = worker[v].msg
      BY <2>2, ExecuteMoves DEF Moves, Executing, Places, OutsideLock
    <3>2. PICK s, i : s = Of(v) /\ s = Of(v)' /\ s \in Sessions /\ i = worker'[v].step
      BY <1>1, <3>1, OfStays
    <3>3. CASE FindPlan(v)
      <4>1. worker'[v].pc = "planning" /\ plans[s] = << >> /\ UNCHANGED plans
        BY <1>2, <3>2, <3>3, FindPlanTyped DEF Moves, FindPlan, rows
      <4> QED
        BY <3>2, <4>1
    <3>4. CASE PickStep(v)
      <4>1. worker'[v].pc \in {"context", "confirm"} /\ UNCHANGED <<plans, sent>>
            /\ worker'[v].plan = worker[v].plan
        BY <1>2, <3>4, PickStepTyped DEF Moves, PickStep
      <4>2. PICK p : /\ p = worker[v].plan /\ p = worker'[v].plan /\ p \in DOMAIN plans[s]
                     /\ worker[v].pc = "pick"
        BY <3>1, <3>2, <3>4, <4>1, WorkerIsAt DEF PickStep
      <4>3. /\ i \in DOMAIN plans[s][p].steps /\ Open(steps[s][p][i])
            /\ worker'[v].pc = "context" => steps'[s][p][i] = "running"
        <5>1. PICK j \in Nat :
                 /\ Picked(v, j)
                 /\ worker'[v].pc = "context" =>
                       \A t \in Sessions : \A q \in DOMAIN plans[t] :
                          \A h \in DOMAIN plans[t][q].steps :
                             steps'[t][q][h] =
                                 IF t = Of(v) /\ q = worker[v].plan /\ h = j THEN "running"
                                 ELSE steps[t][q][h]
          BY <3>4, <4>1, PickStepTyped DEF Moves
        <5> QED
          BY <3>2, <4>2, <5>1 DEF Picked
      <4>4. ~WasSent(s, i)
        <5>1. SUFFICES ASSUME NEW k \in DOMAIN sent, sent[k].of = s, sent[k].step = i PROVE FALSE
          BY DEF WasSent
        <5>2. sent[k].plan \in DOMAIN plans[s]
          BY <5>1 DEF SentInv, SentFine
        <5>3. sent[k].plan = p
          BY <3>2, <4>2, <5>2, PlansOfOne
        <5> QED
          BY <4>3, <5>1, <5>3 DEF SentClosed
      <4>5. ~WasSent(s, i)'
        BY <4>1, <4>4 DEF WasSent
      <4>6. worker'[v].pc = "context" => ~Open(steps'[s][p][i])
        BY <4>3 DEF Open
      <4> QED
        BY <3>2, <4>1, <4>2, <4>5, <4>6 DEF WasSent
    <3>5. CASE BuildStepContext(v) \/ RunConfirmStep(v)
      <4>1. /\ UNCHANGED <<plans, steps, sent>> /\ SameStep(v)
            /\ worker'[v].pc \in {"execute", "await"}
            /\ worker'[v].pc = "execute" => worker[v].pc = "context"
            /\ worker[v].pc \in {"context", "confirm"}
        BY <1>2, <3>5, BuildStepContextTyped, RunConfirmStepTyped
           DEF BuildStepContext, RunConfirmStep, Moves, rows
      <4>2. ~WasSent(s, i) /\ i = worker[v].step
        BY <3>2, <4>1 DEF NotSentYet, SameStep
      <4>3. ~WasSent(s, i)'
        BY <4>1, <4>2 DEF WasSent
      <4>4. worker'[v].pc = "execute" => ~Open(steps'[s][worker'[v].plan][i])
        BY <3>2, <4>1, <4>2 DEF NotSentYet, SameStep
      <4> QED
        BY <3>2, <4>1, <4>3, <4>4 DEF WasSent
    <3> QED
      BY <1>2, <2>2, <3>3, <3>4, <3>5, ArrivesAt
  <2> QED
    BY <1>2, <2>1, <2>2, WorkerMoves DEF OutsideLock
<1> QED
  BY <1>2 DEF NotSentYet

LEMMA SentClosedStep ==
    ASSUME TypeInv, StepsInv, SentInv, NotSentYet, SentClosed, [Next]_vars
    PROVE  SentClosed'
<1>1. ASSUME NEW k \in DOMAIN sent PROVE ~Open(steps'[sent[k].of][sent[k].plan][sent[k].step])
  <2>1. PICK s, p, i : s = sent[k].of /\ p = sent[k].plan /\ i = sent[k].step
    OBVIOUS
  <2>2. /\ s \in Sessions /\ p \in DOMAIN plans[s] /\ i \in DOMAIN plans[s][p].steps
        /\ ~Open(steps[s][p][i])
    BY <2>1 DEF SentInv, SentFine, SentRow, SentClosed
  <2>3. ASSUME NEW w \in Workers, AwaitStep(w) PROVE ~(s = Of(w) /\ i = worker[w].step)
    BY <2>1, <2>3 DEF AwaitStep, NotSentYet, WasSent
  <2> QED
    BY <2>1, <2>2, <2>3, ClosedStay
<1>2. CASE UNCHANGED sent
  BY <1>1, <1>2 DEF SentClosed
<1>3. ASSUME NEW w \in Workers, SendWrite(w) PROVE SentClosed'
  <2>1. PICK k : k = Len(sent) + 1
    OBVIOUS
  <2>2. /\ Len(sent) \in Nat /\ DOMAIN sent = 1..Len(sent) /\ DOMAIN sent' = 1..k
        /\ \A j \in DOMAIN sent : sent'[j] = sent[j]
        /\ sent'[k].of = Of(w) /\ sent'[k].plan = worker[w].plan /\ sent'[k].step = worker[w].step
    BY <1>3, <2>1, WriteIsAdded
  <2>3. ~Open(steps'[sent'[k].of][sent'[k].plan][sent'[k].step])
    <3>1. UNCHANGED steps /\ worker[w].pc = "execute"
      BY <1>3 DEF SendWrite, rows
    <3> QED
      BY <2>2, <3>1 DEF NotSentYet
  <2>4. ASSUME NEW j \in DOMAIN sent' PROVE ~Open(steps'[sent'[j].of][sent'[j].plan][sent'[j].step])
    <3>1. j = k \/ j \in DOMAIN sent
      BY <2>1, <2>2
    <3> QED
      BY <1>1, <2>2, <2>3, <3>1
  <2> QED
    BY <2>4 DEF SentClosed, Open
<1> QED
  BY <1>2, <1>3, OnlySends

LEMMA OnceStep ==
    ASSUME TypeInv, LockInv, StepsInv, SentInv, OnceInv, [Next]_vars
    PROVE  OnceInv'
<1>1. Grows
  BY TypeStep DEF Preserved
<1>2. SUFFICES ASSUME ~Happened("slow_lock")'
               PROVE  (OnePlan /\ NotSentYet /\ SentClosed /\ WriteSentOnce)'
  BY DEF OnceInv
<1>3. ~Happened("slow_lock")
  BY <1>1, <1>2, FaultsStay
<1>4. OnePlan /\ NotSentYet /\ SentClosed /\ WriteSentOnce
  BY <1>3 DEF OnceInv
<1>5. OnePlan' /\ NotSentYet' /\ SentClosed'
  BY <1>3, <1>4, OnePlanStep, NotSentStep, SentClosedStep
<1>6. \A j, k \in DOMAIN sent : j # k => <<sent[j].of, sent[j].step>> # <<sent[k].of, sent[k].step>>
  BY <1>3, <1>4 DEF WriteSentOnce
<1>7. ASSUME UNCHANGED sent PROVE WriteSentOnce'
  BY <1>6, <1>7 DEF WriteSentOnce
<1>8. ASSUME NEW w \in Workers, SendWrite(w) PROVE WriteSentOnce'
  <2>1. PICK n : n = Len(sent) + 1
    OBVIOUS
  <2>2. /\ Len(sent) \in Nat /\ DOMAIN sent = 1..Len(sent) /\ DOMAIN sent' = 1..n
        /\ \A j \in DOMAIN sent : sent'[j] = sent[j]
        /\ sent'[n].of = Of(w) /\ sent'[n].step = worker[w].step
    BY <1>8, <2>1, WriteIsAdded
  <2>3. ASSUME NEW j \in DOMAIN sent PROVE ~(sent[j].of = Of(w) /\ sent[j].step = worker[w].step)
    BY <1>4, <1>8, <2>3 DEF NotSentYet, WasSent, SendWrite
  <2>4. ASSUME NEW j \in DOMAIN sent', NEW k \in DOMAIN sent', j # k
        PROVE  ~(sent'[j].of = sent'[k].of /\ sent'[j].step = sent'[k].step)
    <3>1. CASE j \in DOMAIN sent /\ k \in DOMAIN sent
      BY <1>6, <2>2, <2>4, <3>1
    <3>2. CASE j = n /\ k \in DOMAIN sent
      BY <2>2, <2>3, <3>2
    <3>3. CASE j \in DOMAIN sent /\ k = n
      BY <2>2, <2>3, <3>3
    <3> QED
      BY <2>1, <2>2, <2>4, <3>1, <3>2, <3>3
  <2> QED
    BY <2>4 DEF WriteSentOnce
<1>9. WriteSentOnce'
  BY <1>7, <1>8, OnlySends
<1> QED
  BY <1>5, <1>9

\* A step sends its write at most once, whatever is delivered again, unless a lock expired
\* under the worker that held it: the status it left behind keeps the next run from picking it
\* (execute_tool, _next_pending_step).
THEOREM WritesAreSentOnce == Spec => []WriteSentOnce
<1>1. Init => OnceInv
  <2> SUFFICES ASSUME Init PROVE OnceInv
    OBVIOUS
  <2>1. OnePlan /\ SentClosed
    BY DEF Init, OnePlan, SentClosed
  <2>2. NotSentYet
    BY DEF Init, NotSentYet, Off
  <2>3. WriteSentOnce
    BY DEF Init, WriteSentOnce
  <2> QED
    BY <2>1, <2>2, <2>3 DEF OnceInv
<1>2. TypeInv /\ LockInv /\ StepsInv /\ SentInv /\ OnceInv /\ [Next]_vars => OnceInv'
  BY OnceStep
<1>3. OnceInv => WriteSentOnce
  BY DEF OnceInv, WriteSentOnce
<1>4. QueueInv => LockInv
  BY DEF QueueInv
<1> QED
  BY <1>1, <1>2, <1>3, <1>4, RowsAreTyped, QueueIsKept, SentAfterAnswers, PTL DEF Spec

-----------------------------------------------------------------------------
(* Requests that are not repeated.                                         *)

Written(entry) == plans[entry.of][entry.plan].steps[entry.step]
NoteKey(entry) == Key(entry.of, RequestOf(Written(entry)))
Noted(entry) == idempotency[NoteKey(entry)] = "success"

\* The worker that got the success is about to note it.
Notes(w, entry) ==
    /\ worker[w].pc \in {"save", "mark"} /\ worker[w].outcome = "ok"
    /\ Of(w) = entry.of /\ worker[w].plan = entry.plan /\ worker[w].step = entry.step

KeysOK == DOMAIN idempotency = Asked \X RequestKeys
SuccessNoted ==
    \A entry \in {sent[k] : k \in DOMAIN sent} :
        entry.outcome = "ok" /\ HasKey(Written(entry)) =>
            Noted(entry) \/ \E w \in Workers : Notes(w, entry)
NotedInv ==
    \/ Happened("slow_lock") \/ Happened("crash")
    \/ SuccessNoted /\ SuccessIsNotRepeated

LEMMA KeyOfRequest ==
    ASSUME TypeInv, NEW s \in Sessions, Started(s), NEW step, HasKey(step)
    PROVE  Key(s, RequestOf(step)) \in Asked \X RequestKeys
BY DEF TypeInv, SessionsOK, HasKey, RequestOf, RequestKeys, Key

LEMMA WrittenStays ==
    ASSUME TypeInv, Grows, NEW entry, SentFine(entry)
    PROVE  /\ entry.of \in Sessions /\ Started(entry.of)
           /\ Written(entry)' = Written(entry) /\ NoteKey(entry)' = NoteKey(entry)
           /\ HasKey(Written(entry)) => NoteKey(entry) \in Asked \X RequestKeys
<1>1. entry.of \in Sessions /\ Started(entry.of)
  BY DEF SentFine, SentRow, TypeInv, PlansOK
<1>2. Written(entry)' = Written(entry)
  BY <1>1 DEF Grows, PlansGrow, Written, SentFine
<1>3. NoteKey(entry)' = NoteKey(entry)
  BY <1>1, <1>2 DEF Grows, SessionsGrow, NoteKey, Key, RequestOf
<1>4. HasKey(Written(entry)) => NoteKey(entry) \in Asked \X RequestKeys
  BY <1>1, KeyOfRequest DEF NoteKey
<1> QED
  BY <1>1, <1>2, <1>3, <1>4

\* A success that was noted stays.
LEMMA IdempotencyStep ==
    ASSUME TypeInv, KeysOK, [Next]_vars
    PROVE  /\ KeysOK'
           /\ \A key \in Asked \X RequestKeys : idempotency[key] = "success" => idempotency'[key] = "success"
<1>1. ASSUME NEW w \in Workers, SaveStepOutput(w)
      PROVE  UNCHANGED idempotency
             \/ \E key : /\ idempotency' = [idempotency EXCEPT ![key] = "running"]
                         /\ idempotency[key] # "success"
  BY <1>1 DEF SaveStepOutput
<1>2. ASSUME NEW w \in Workers, MarkIdempotency(w)
      PROVE  UNCHANGED idempotency \/ \E key : idempotency' = [idempotency EXCEPT ![key] = "success"]
  BY <1>2 DEF MarkIdempotency
<1>3. ASSUME NEW w \in Workers, ProcessOne(w) \/ Crash(w), ~SaveStepOutput(w), ~MarkIdempotency(w)
      PROVE  UNCHANGED idempotency
  BY <1>3 DEF ProcessOne, Execute, ConsumeClaimed, ConsumeNew, BuryFail, BuryCopy, BuryAck, AcquireLock,
     AckMessage, ReleaseLock, Crash, RunSession, FindPlan, SavePlan, SendWrite, PlanFails, PickStep,
     BuildStepContext, ExecuteStep, SkipWrite, StepRaises, StepDone, FailStep, FailSession,
     RunConfirmStep, AwaitStep, AwaitSession, FinishSession, rows
<1>4. CASE User \/ Api \/ ApiCrash \/ (\E s \in Sessions : LockExpires(s)) \/ UNCHANGED vars
  <2>1. UNCHANGED idempotency
    BY <1>4 DEF User, Invoke, ResumeResolve, Api, ResumeStep, ResumeSession, Enqueue, ApiCrash,
                LockExpires, vars, rows
  <2> QED
    BY <2>1 DEF KeysOK
<1> QED
  BY <1>1, <1>2, <1>3, <1>4 DEF Next, KeysOK

\* A worker that is about to note a success goes on, or dies.
LEMMA NoterMoves ==
    ASSUME TypeInv, [Next]_vars, NEW v \in Workers, worker[v].pc \in {"save", "mark"}
    PROVE  \/ worker'[v] = worker[v]
           \/ SaveStepOutput(v) \/ MarkIdempotency(v)
           \/ Happened("crash")'
<1>1. CASE User \/ Api \/ ApiCrash \/ (\E s \in Sessions : LockExpires(s)) \/ UNCHANGED vars
  BY <1>1 DEF User, Invoke, ResumeResolve, Api, ResumeStep, ResumeSession, Enqueue, ApiCrash,
              LockExpires, vars
<1>2. ASSUME NEW w \in Workers, Execute(w), v # w PROVE worker'[v] = worker[v]
  BY <1>2, ExecuteMoves DEF Moves
<1>3. CASE Execute(v)
  BY <1>3 DEF Execute, RunSession, FindPlan, SavePlan, SendWrite, PlanFails, PickStep,
     BuildStepContext, ExecuteStep, SkipWrite, StepRaises, StepDone, FailStep, FailSession,
     RunConfirmStep, AwaitStep, AwaitSession, FinishSession
<1>4. ASSUME NEW w \in Workers,
             \/ ConsumeClaimed(w) \/ ConsumeNew(w) \/ BuryFail(w) \/ BuryCopy(w) \/ BuryAck(w)
             \/ AcquireLock(w) \/ AckMessage(w) \/ ReleaseLock(w)
      PROVE  worker'[v] = worker[v]
  <2>1. v # w
    BY <1>4 DEF ConsumeClaimed, ConsumeNew, BuryFail, BuryCopy, BuryAck, AcquireLock, AckMessage,
                ReleaseLock
  <2>2. CASE ConsumeClaimed(w) \/ ConsumeNew(w)
    BY <2>1, <2>2, ConsumeTyped DEF Delivered
  <2>3. CASE BuryFail(w) \/ BuryCopy(w) \/ BuryAck(w)
    BY <2>1, <2>3, BuryFailTyped, BuryCopyTyped, BuryAckTyped DEF Moves
  <2>4. CASE AcquireLock(w) \/ AckMessage(w) \/ ReleaseLock(w)
    BY <2>1, <2>4, AcquireLockTyped, AckMessageTyped, ReleaseLockTyped DEF Moves
  <2> QED
    BY <1>4, <2>2, <2>3, <2>4
<1>5. ASSUME NEW w \in Workers, Crash(w) PROVE Happened("crash")'
  BY <1>5, CrashTyped
<1> QED
  BY <1>1, <1>2, <1>3, <1>4, <1>5 DEF Next, ProcessOne

\* A success that was noted, or is about to be, is noted or about to be.
LEMMA NotesStay ==
    ASSUME TypeInv, KeysOK, [Next]_vars, ~Happened("crash")', NEW entry, SentFine(entry),
           HasKey(Written(entry)), Noted(entry) \/ \E w \in Workers : Notes(w, entry)
    PROVE  Noted(entry)' \/ \E w \in Workers : Notes(w, entry)'
<1>1. Grows
  BY TypeStep DEF Preserved
<1>2. /\ NoteKey(entry)' = NoteKey(entry) /\ NoteKey(entry) \in Asked \X RequestKeys
      /\ Written(entry)' = Written(entry)
  BY <1>1, WrittenStays
<1>3. CASE Noted(entry)
  BY <1>2, <1>3, IdempotencyStep DEF Noted
<1>4. ASSUME NEW v \in Workers, Notes(v, entry) PROVE Noted(entry)' \/ Notes(v, entry)'
  <2>1. worker[v].pc \in {"save", "mark"} /\ worker[v].pc # "off" /\ StepOf(v) = Written(entry)
    BY <1>4 DEF Notes, StepOf, PlanOf, Written
  <2>2. CASE worker'[v] = worker[v]
    <3>1. Of(v)' = Of(v)
      BY <1>1, <2>1, <2>2, OfStays
    <3> QED
      BY <1>4, <2>2, <3>1 DEF Notes
  <2>3. CASE SaveStepOutput(v)
    <3>1. IsWrite(StepOf(v))
      BY <2>1 DEF SentFine, Written
    <3>2. /\ worker'[v].pc = "mark" /\ worker'[v].outcome = worker[v].outcome /\ SameStep(v)
          /\ worker'[v].msg = worker[v].msg
      BY <2>3, <3>1, SaveStepOutputTyped DEF Moves
    <3>3. Of(v)' = Of(v)
      BY <1>1, <2>1, <3>2, OfStays
    <3> QED
      BY <1>4, <3>2, <3>3 DEF Notes, SameStep
  <2>4. CASE MarkIdempotency(v)
    <3>1. idempotency' = [idempotency EXCEPT ![Key(Of(v), RequestOf(StepOf(v)))] = "success"]
      BY <1>4, <2>1, <2>4 DEF MarkIdempotency, Notes
    <3>2. Key(Of(v), RequestOf(StepOf(v))) = NoteKey(entry)
      BY <1>4, <2>1 DEF Notes, NoteKey
    <3>3. idempotency'[NoteKey(entry)] = "success"
      BY <1>2, <3>1, <3>2 DEF KeysOK
    <3> QED
      BY <1>2, <3>3 DEF Noted
  <2> QED
    BY <2>1, <2>2, <2>3, <2>4, NoterMoves
<1> QED
  BY <1>3, <1>4

\* A worker that sends a write has found no success of the same request in its session.
LEMMA SentUnnoted ==
    ASSUME TypeInv, LockInv, ~Happened("slow_lock"), SentInv, SuccessNoted,
           NEW w \in Workers, SendWrite(w), HasKey(StepOf(w)), NEW j \in DOMAIN sent,
           sent[j].outcome = "ok", sent[j].of = Of(w), HasKey(Written(sent[j]))
    PROVE  RequestOf(Written(sent[j])) # RequestOf(StepOf(w))
<1>1. SUFFICES ASSUME RequestOf(Written(sent[j])) = RequestOf(StepOf(w)) PROVE FALSE
  OBVIOUS
<1>2. ~Noted(sent[j])
  BY <1>1 DEF Noted, NoteKey, SendWrite, AlreadyWritten
<1>3. PICK v \in Workers : Notes(v, sent[j])
  BY <1>2 DEF SuccessNoted
<1>4. v = w
  BY <1>3, OneRunner DEF Notes, SendWrite, OutsideLock
<1> QED
  BY <1>3, <1>4 DEF Notes, SendWrite

LEMMA NotedStep ==
    ASSUME TypeInv, LockInv, StepsInv, SentInv, KeysOK, NotedInv, [Next]_vars
    PROVE  NotedInv'
<1>1. Grows
  BY TypeStep DEF Preserved
<1>2. SUFFICES ASSUME ~Happened("slow_lock")', ~Happened("crash")'
               PROVE  SuccessNoted' /\ SuccessIsNotRepeated'
  BY DEF NotedInv
<1>3. ~Happened("slow_lock") /\ ~Happened("crash")
  BY <1>1, <1>2, FaultsStay
<1>4. SuccessNoted /\ SuccessIsNotRepeated
  BY <1>3 DEF NotedInv
<1>5. ASSUME NEW k \in DOMAIN sent, NEW entry, entry = sent[k], entry.outcome = "ok",
             HasKey(Written(entry)')
      PROVE  Noted(entry)' \/ \E w \in Workers : Notes(w, entry)'
  <2>1. SentFine(entry)
    BY <1>5 DEF SentInv
  <2>2. HasKey(Written(entry))
    BY <1>1, <1>5, <2>1, WrittenStays
  <2> QED
    BY <1>2, <1>4, <1>5, <2>1, <2>2, NotesStay DEF SuccessNoted
<1>6. ASSUME NEW j \in DOMAIN sent
      PROVE  plans'[sent[j].of][sent[j].plan].steps[sent[j].step] = Written(sent[j])
  <2>1. PICK entry : entry = sent[j]
    OBVIOUS
  <2>2. Written(entry)' = Written(entry)
    BY <1>1, <2>1, WrittenStays DEF SentInv
  <2> QED
    BY <2>1, <2>2 DEF Written
<1>7. ASSUME NEW k \in DOMAIN sent, NEW j \in 1..(k - 1),
             sent[j].outcome = "ok", sent[j].of = sent[k].of,
             HasKey(Written(sent[j])), HasKey(Written(sent[k]))
      PROVE  RequestOf(Written(sent[j])) # RequestOf(Written(sent[k]))
  BY <1>3, <1>4, <1>7 DEF SuccessIsNotRepeated, Written
<1>8. Len(sent) \in Nat /\ DOMAIN sent = 1..Len(sent)
  BY LenProperties DEF SentInv
<1>9. CASE UNCHANGED sent
  <2>1. SuccessNoted'
    BY <1>5, <1>9 DEF SuccessNoted
  <2>2. ASSUME NEW k \in DOMAIN sent', NEW j \in 1..(k - 1),
               sent'[j].outcome = "ok", sent'[j].of = sent'[k].of,
               HasKey(Written(sent[j])'), HasKey(Written(sent[k])')
        PROVE  RequestOf(Written(sent[j])') # RequestOf(Written(sent[k])')
    <3>1. k \in DOMAIN sent /\ j \in DOMAIN sent
      BY <1>8, <1>9
    <3>2. Written(sent[j])' = Written(sent[j]) /\ Written(sent[k])' = Written(sent[k])
      BY <1>6, <1>9, <3>1 DEF Written
    <3> QED
      BY <1>7, <1>9, <2>2, <3>1, <3>2
  <2>3. SuccessIsNotRepeated'
    BY <2>2 DEF SuccessIsNotRepeated, Written
  <2> QED
    BY <2>1, <2>3
<1>10. CASE \E w \in Workers : SendWrite(w)
  <2>1. PICK w \in Workers : SendWrite(w)
    BY <1>10
  <2>2. PICK n, new : n = Len(sent) + 1 /\ new = sent'[n]
    OBVIOUS
  <2>3. /\ DOMAIN sent' = 1..n /\ \A j \in DOMAIN sent : sent'[j] = sent[j]
        /\ new.of = Of(w) /\ new.plan = worker[w].plan /\ new.step = worker[w].step
        /\ new.outcome = worker'[w].outcome
    BY <2>1, <2>2, WriteIsAdded
  <2>4. /\ UNCHANGED <<plans, messages>> /\ worker'[w].pc = "save" /\ worker'[w].msg = worker[w].msg
        /\ SameStep(w)
    BY <2>1, SendWriteTyped DEF Moves, SendWrite, rows, Untouched
  <2>5. Written(new)' = StepOf(w)
    BY <2>3, <2>4 DEF Written, StepOf, PlanOf
  <2>6. \A k \in DOMAIN sent' : k = n \/ k \in DOMAIN sent
    BY <1>8, <2>2, <2>3
  <2>7. SuccessNoted'
    <3>1. SUFFICES ASSUME NEW k \in DOMAIN sent', NEW entry, entry = sent'[k], entry.outcome = "ok",
                          HasKey(Written(entry)')
                   PROVE  Noted(entry)' \/ \E v \in Workers : Notes(v, entry)'
      BY DEF SuccessNoted
    <3>2. CASE k \in DOMAIN sent
      BY <1>5, <2>3, <3>1, <3>2
    <3>3. CASE k = n
      <4>1. Of(w)' = entry.of
        BY <2>2, <2>3, <2>4, <3>1, <3>3 DEF Of
      <4>2. Notes(w, entry)'
        BY <2>2, <2>3, <2>4, <3>1, <3>3, <4>1 DEF Notes, SameStep
      <4> QED
        BY <4>2
    <3> QED
      BY <2>6, <3>2, <3>3
  <2>8. ASSUME NEW k \in DOMAIN sent', NEW j \in 1..(k - 1),
               sent'[j].outcome = "ok", sent'[j].of = sent'[k].of,
               HasKey(Written(sent[j])'), HasKey(Written(sent[k])')
        PROVE  RequestOf(Written(sent[j])') # RequestOf(Written(sent[k])')
    <3>1. j \in DOMAIN sent
      BY <1>8, <2>2, <2>3
    <3>2. Written(sent[j])' = Written(sent[j]) /\ sent'[j] = sent[j]
      BY <1>6, <2>3, <3>1 DEF Written
    <3>3. CASE k \in DOMAIN sent
      <4>1. Written(sent[k])' = Written(sent[k]) /\ sent'[k] = sent[k]
        BY <1>6, <2>3, <3>3 DEF Written
      <4> QED
        BY <1>7, <2>8, <3>2, <3>3, <4>1
    <3>4. CASE k = n
      <4>1. Written(sent[k])' = StepOf(w) /\ sent'[k] = new
        BY <2>2, <2>5, <3>4 DEF Written
      <4>2. sent[j].of = Of(w) /\ sent[j].outcome = "ok"
        BY <2>3, <2>8, <3>2, <4>1
      <4>3. HasKey(StepOf(w)) /\ HasKey(Written(sent[j]))
        BY <2>8, <3>2, <4>1
      <4> QED
        BY <1>3, <1>4, <2>1, <3>1, <3>2, <4>1, <4>2, <4>3, SentUnnoted
    <3> QED
      BY <2>6, <3>3, <3>4
  <2>9. SuccessIsNotRepeated'
    BY <2>8 DEF SuccessIsNotRepeated, Written
  <2> QED
    BY <2>7, <2>9
<1> QED
  BY <1>9, <1>10, OnlySends

\* Within a session a request that Feishu has carried out is not sent again by a later step,
\* unless a lock expired under its holder or a worker died before it could note the success
\* (find_success_output before the tool is run, mark_idempotency_success after it).
THEOREM SuccessIsFinal == Spec => []SuccessIsNotRepeated
<1>1. Init => KeysOK /\ NotedInv
  BY DEF Init, KeysOK, NotedInv, SuccessNoted, SuccessIsNotRepeated
<1>2. TypeInv /\ KeysOK /\ [Next]_vars => KeysOK'
  BY IdempotencyStep
<1>3. TypeInv /\ LockInv /\ StepsInv /\ SentInv /\ KeysOK /\ NotedInv /\ [Next]_vars => NotedInv'
  BY NotedStep
<1>4. NotedInv => SuccessIsNotRepeated
  BY DEF NotedInv, SuccessIsNotRepeated
<1>5. QueueInv => LockInv
  BY DEF QueueInv
<1> QED
  BY <1>1, <1>2, <1>3, <1>4, <1>5, RowsAreTyped, QueueIsKept, SentAfterAnswers, PTL DEF Spec
=============================================================================
