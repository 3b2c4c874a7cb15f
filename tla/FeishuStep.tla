----------------------------- MODULE FeishuStep -----------------------------
(***************************************************************************)
(* One session of the legacy engine (third), as its steps see a Feishu     *)
(* table: agents turn a text into requests, validation turns requests into *)
(* what the user is shown, tools read the table's columns again and write. *)
(* LegacyWorkflow has the other half of the engine: messages, locks, keys, *)
(* crashes.  Here the data counts, and who else touches the table and the  *)
(* cache of its columns meanwhile.                                         *)
(*                                                                         *)
(* A model's answers are taken from Drafts and ChangeDrafts, what rules    *)
(* read from the text; both may be wrong.  A failing step fails the session.  *)
(***************************************************************************)
EXTENDS FeishuSchema, LegacyPlans

CONSTANTS
    Jobs,            \* what may be asked for: see NoJob
    Drafts,          \* requests a model may answer with: [raws, batch, mock]
    ChangeDrafts,    \* column changes a model may answer with: [raws, mock]
    InitialTable,    \* the table at the start
    Meddlings,       \* what others may do to the table: operations, as Apply takes them
    MaxMeddling,     \* bound: what others do, to the table or to the cache
    MaxFaults        \* bound: calls to Feishu that fail

\* What is asked for has a template, and requests come in lists.
IsList(s) == s \in Seq({s[i] : i \in DOMAIN s})
IsRequest(raw) == raw = RawRequest(raw.given, raw.pairs, raw.rid, raw.conditions, raw.page)
ASSUME JobsAssumption ==
    /\ \A j \in Jobs : /\ j.template \in Templates
                       /\ IsList(j.asked.renames) /\ IsList(j.asked.deletes) /\ IsList(j.asked.creates)
    /\ \A draft \in Drafts \cup ChangeDrafts : IsList(draft.raws)
    /\ \A draft \in Drafts : \A i \in DOMAIN draft.raws : IsRequest(draft.raws[i])
\* Whatever a person, a rule or a model calls a column is one of Names.
NamesColumns(raws) ==
    \A i \in DOMAIN raws : {raws[i].source, raws[i].field, raws[i].target} \subseteq Names \cup {NoName}
NamesValues(pairs) == \A i \in DOMAIN pairs : pairs[i].name \in Names
ASSUME WordsAssumption ==
    /\ \A j \in Jobs : NamesColumns(j.asked.renames) /\ NamesColumns(j.asked.deletes) /\ NamesColumns(j.asked.creates)
    /\ \A draft \in ChangeDrafts : NamesColumns(draft.raws)
    /\ \A draft \in Drafts : \A i \in DOMAIN draft.raws :
         IsList(draft.raws[i].pairs) /\ NamesValues(draft.raws[i].pairs)
    /\ \A op \in Meddlings :
         /\ op.do \in {"create_field", "update_field", "delete_field", "create_record", "update_record", "delete_record"}
         /\ op.do \in {"create_field", "update_field"} => op.name \in Names /\ op.type \in Nat
\* A table gives each of its columns an id of its own, and a name of its own.
ASSUME InitialTableAssumption ==
    LET fields == InitialTable.fields
    IN  /\ DOMAIN InitialTable = {"fields", "records"}
        /\ IsList(fields)
        /\ \A i \in DOMAIN fields : fields[i] \in [id : Nat \ {NoId}, name : Names, type : Nat]
        /\ \A i, j \in DOMAIN fields :
             fields[i].id = fields[j].id \/ fields[i].name = fields[j].name => i = j
ASSUME FeishuBounds == MaxMeddling \in Nat /\ MaxFaults \in Nat

VARIABLES
    feishu,     \* the table the session works on: Feishu's, or the process's mock store
    cache,      \* rows of the field cache, << >> if there are none or they expired
    elsewhere,  \* columns another worker has read and will save to the cache
    job,        \* what was asked and how the process is configured
    step,       \* [at, where, listed, context, ops, done] of the running step
    artifacts,  \* the session's artifacts by key
    standing,   \* "new", "running", "waiting", "success", "failed", "cancelled"
    meddled,    \* how often others touched table or cache
    faults,     \* how many calls failed
    shown,      \* ghost: what the user was last asked: [ops, context, result, meddled]
    sent        \* ghost: [op, backend, context, done] of every operation sent since

feishuVars == << feishu, cache, elsewhere, job, step, artifacts, standing, meddled, faults, shown, sent >>

NoList == << >>
NothingAsked == [renames |-> << >>, deletes |-> << >>, creates |-> << >>]
NoJob == [template |-> "none", real |-> FALSE, llm |-> FALSE,
          text |-> Text(<< >>, << >>, NoRecord), asked |-> NothingAsked, deletes |-> FALSE]
At(n) == [at |-> n, where |-> "start", listed |-> NoList, context |-> NoContext,
          ops |-> << >>, done |-> 0]

NothingShown == [ops |-> << >>, context |-> NoContext, result |-> "none", meddled |-> 0]

FeishuInit ==
    /\ feishu = InitialTable
    /\ cache \in {NoList, InitialTable.fields}
    /\ elsewhere = NoList
    /\ job = NoJob
    /\ step = At(1)
    /\ artifacts = << >>
    /\ standing = "new"
    /\ meddled = 0 /\ faults = 0
    /\ shown = NothingShown /\ sent = << >>

Steps == BuildPlanFromTemplate(job.template, {}, "").steps
Current == Steps[step.at]
Uses(tools) == standing = "running" /\ Current.kind = "tool" /\ Current.uses \in tools
Operation == CASE job.template = "update_record" -> "update_record"
               [] job.template = "delete_record" -> "delete_record"
               [] OTHER -> "create_record"

\* A session is invoked.  config is read anew by every step, and does not change.
Invoke ==
    /\ standing = "new"
    /\ standing' = "running"
    /\ job' \in Jobs
    /\ UNCHANGED << feishu, cache, elsewhere, step, artifacts, meddled, faults, shown, sent >>

\* The step's output is saved, and the next step runs, or the session is done.
Save(data) ==
    /\ artifacts' = [k \in DOMAIN artifacts \cup {Current.gives} |->
                       IF k = Current.gives THEN data ELSE artifacts[k]]
    /\ step' = At(step.at + 1)
    /\ standing' = IF step.at = Len(Steps) THEN "success" ELSE "running"
Fail ==
    /\ standing' = "failed"
    /\ UNCHANGED << step, artifacts >>

-----------------------------------------------------------------------------
(* Reading the columns: load_table_fields_context, in every tool but the   *)
(* one that changes columns.                                               *)

Loads == Uses(ALLOWED_TOOLS \ {CHANGE_SCHEMA_TOOL})
Load(context) == step' = [step EXCEPT !.where = "loaded", !.context = context, !.listed = NoList]

\* The mock store's own columns.
LoadMock ==
    /\ Loads /\ step.where = "start" /\ ~job.real
    /\ Load(Context("mock", feishu.fields))
    /\ UNCHANGED << feishu, cache, elsewhere, job, artifacts, standing, meddled, faults, shown, sent >>

\* The cached columns, if there are any.
LoadCached ==
    /\ Loads /\ step.where = "start" /\ job.real /\ cache # NoList
    /\ Load(Context("feishu", cache))
    /\ UNCHANGED << feishu, cache, elsewhere, job, artifacts, standing, meddled, faults, shown, sent >>

\* Else Feishu's, which are saved to the cache a moment later.  The refresh lock is asked for,
\* and its answer is not looked at.
ListFields ==
    /\ Loads /\ step.where = "start" /\ job.real /\ cache = NoList
    /\ step' = [step EXCEPT !.where = "listed", !.listed = feishu.fields]
    /\ UNCHANGED << feishu, cache, elsewhere, job, artifacts, standing, meddled, faults, shown, sent >>
SaveListed ==
    /\ Loads /\ step.where = "listed"
    /\ cache' = step.listed
    /\ Load(Context("feishu", step.listed))
    /\ UNCHANGED << feishu, elsewhere, job, artifacts, standing, meddled, faults, shown, sent >>
ListFails ==
    /\ Loads /\ step.where = "start" /\ job.real /\ cache = NoList
    /\ faults < MaxFaults
    /\ faults' = faults + 1
    /\ Load(Context("feishu_error", << >>))
    /\ UNCHANGED << feishu, cache, elsewhere, job, artifacts, standing, meddled, shown, sent >>

\* tool_ReadFeishuBitableSchema: an error is part of its output.
ReadSchema ==
    /\ Uses({READ_SCHEMA_TOOL}) /\ step.where = "loaded"
    /\ Save(step.context)
    /\ UNCHANGED << feishu, cache, elsewhere, job, meddled, faults, shown, sent >>

-----------------------------------------------------------------------------
(* The agents.                                                             *)

IsAgent(prompt) == standing = "running" /\ Current.kind = "agent" /\ Current.uses = prompt

\* _table_fields_from_artifacts: the columns after a change, if this step is given them.
TableFields ==
    IF "feishu.table_schema_after" \in Current.needs THEN artifacts["feishu.table_schema_after"]
    ELSE artifacts["feishu.table_schema"]

\* mock: what the request says of the backend; the rules say what the configuration says.
Draft(raws, batch, mock) == [raws |-> raws, batch |-> batch, mock |-> mock]
RuleDraft(context) ==
    Draft(<< BuildWriteRequest(Operation, job.text, context.fields) >>, FALSE, ~job.real)

\* A model's batch is for creations only; an answer without the request's key fails.
ParseRecord ==
    /\ IsAgent("parse_feishu_record.v1")
    /\ \E draft \in IF job.llm THEN Drafts ELSE {RuleDraft(TableFields)} :
         /\ draft.batch => Operation = "create_record"
         /\ Save([draft |-> draft, context |-> TableFields])
    /\ UNCHANGED << feishu, cache, elsewhere, job, meddled, faults, shown, sent >>

RuleChange(context) == [raws |-> RuleActions(job.asked, context.fields), mock |-> ~job.real]
ParseSchemaChange ==
    /\ IsAgent("parse_feishu_schema_change.v1")
    /\ \E draft \in IF job.llm THEN ChangeDrafts ELSE {RuleChange(TableFields)} :
         Save([draft |-> draft, context |-> TableFields])
    /\ UNCHANGED << feishu, cache, elsewhere, job, meddled, faults, shown, sent >>

\* The rules' draft of a day's record: it needs no table.
ParseRecordDraft ==
    /\ IsAgent("parse_record_draft.v1")
    /\ Save("draft")
    /\ UNCHANGED << feishu, cache, elsewhere, job, meddled, faults, shown, sent >>

\* No provider, no prompt, or an answer that is not the object it should be.
AgentFails ==
    /\ standing = "running" /\ Current.kind = "agent" /\ job.llm
    /\ faults < MaxFaults
    /\ faults' = faults + 1
    /\ Fail
    /\ UNCHANGED << feishu, cache, elsewhere, job, meddled, shown, sent >>

PayloadKeys == {"feishu.create_payload", "feishu.update_payload", "feishu.delete_payload"}
Payload == artifacts[CHOOSE k \in PayloadKeys \cap Current.needs : TRUE]

\* tool_ReadFeishuBitable.  The candidates' search carries the first draft's id or conditions.
ReadRequest ==
    LET raw == Payload.draft.raws[1]
    IN  IF Current.needs = {} THEN
          [rid |-> job.text.rid, conditions |-> ExtractFilterConditions(job.text, step.context.fields)]
        ELSE [rid |-> IF "record_id" \in raw.given THEN raw.rid ELSE NoRecord,
              conditions |-> IF "lookup" \in raw.given THEN raw.conditions ELSE {}]

\* The columns a search asks Feishu about: those it was given, or the table's own.
SearchedFields == IF step.context.source = "feishu" /\ step.context.fields # << >>
                    THEN FieldNames(step.context.fields) ELSE FieldNames(feishu.fields)
Found(request) ==
    IF ~job.real THEN SelectRecords(feishu, request.rid, request.conditions)
    ELSE IF request.rid # NoRecord THEN SelectRecords(feishu, request.rid, {})
    ELSE SelectRecords(feishu, NoRecord, FeishuFilter(request.conditions, SearchedFields))
ReadRecords ==
    /\ Uses({READ_TOOL}) /\ step.where = "loaded"
    /\ Save(SortSeq(SetToSeq(Found(ReadRequest)), LAMBDA a, b : a < b))
    /\ UNCHANGED << feishu, cache, elsewhere, job, meddled, faults, shown, sent >>
ReadFails ==
    /\ Uses({READ_TOOL}) /\ step.where = "loaded" /\ job.real
    /\ faults < MaxFaults
    /\ faults' = faults + 1
    /\ Save(<< >>)
    /\ UNCHANGED << feishu, cache, elsewhere, job, meddled, shown, sent >>

\* _search_feishu_record.  A model may name any record; the rules take the one that was asked
\* for if it is among the candidates, else the first.
Candidates == artifacts["feishu.candidate_records"]
RuleMatch == LET asked == Payload.draft.raws[1].rid
             IN  IF asked \in ToSet(Candidates) THEN asked ELSE Candidates[1]
\* Fault: the model's record is taken as it is.
UnsureMatchedRecord(rid, candidates) == rid # NoRecord
\* _ensure_matched_record
EnsureMatchedRecord(rid, candidates) == rid # NoRecord /\ rid \in ToSet(candidates)

Answers == IF job.llm THEN Records(InitialTable) \cup ToSet(Candidates)
           ELSE IF Candidates = << >> THEN {} ELSE {RuleMatch}

MatchRecord ==
    /\ IsAgent("search_feishu_record.v1")
    /\ Candidates # << >>
    /\ \E rid \in Answers : EnsureMatchedRecord(rid, Candidates) /\ Save(rid)
    /\ UNCHANGED << feishu, cache, elsewhere, job, meddled, faults, shown, sent >>
MatchFails ==
    /\ IsAgent("search_feishu_record.v1")
    /\ Candidates = << >> \/ \E rid \in Answers : ~EnsureMatchedRecord(rid, Candidates)
    /\ Fail
    /\ UNCHANGED << feishu, cache, elsewhere, job, meddled, faults, shown, sent >>

-----------------------------------------------------------------------------
(* Validation and the question.                                            *)

Validates == standing = "running" /\ Current.kind = "validation"

\* _request_with_record_match, _normalize_batch_create_request.  A record that was matched always
\* has an id, so the search for the only match (_apply_unique_lookup) is never needed.
Explicit(raw) ==
    IF "feishu.record_match" \in Current.needs
      THEN [raw EXCEPT !.rid = artifacts["feishu.record_match"], !.given = @ \cup {"record_id"}]
      ELSE raw
Normalized(raws, defs) ==
    [i \in DOMAIN raws |-> NormalizeWriteRequest(Operation, Explicit(raws[i]), job.text, defs)]
Invalid(requests) == requests = << >> \/ \E i \in DOMAIN requests : requests[i].invalid

\* The operations a sequence of requests comes down to.
Writes(requests) ==
    [i \in DOMAIN requests |-> RecordWrite(Operation, requests[i].rid, requests[i].fields)]

ValidateRecord ==
    LET requests == Normalized(Payload.draft.raws, Payload.context.fields) IN
    /\ Validates /\ Current.needs \cap PayloadKeys # {}
    /\ IF Invalid(requests) THEN Fail
       ELSE Save([requests |-> requests, ops |-> Writes(requests),
                  context |-> Payload.context, mock |-> Payload.draft.mock])
    /\ UNCHANGED << feishu, cache, elsewhere, job, meddled, faults, shown, sent >>

\* Whether a change must go to Feishu, and the columns are not Feishu's:
\* real_write_configuration_error, _schema_change_configuration_error.
Backend(mock) == IF job.real \/ ~mock THEN "feishu" ELSE "mock"
\* Fault: only the configuration is asked, not the request.
ConfiguredOnly(mock, context) == job.real /\ context.source # "feishu"
ConfigurationError(mock, context) == Backend(mock) = "feishu" /\ context.source # "feishu"

\* _run_schema_change_validation
ValidateSchemaChange ==
    LET payload == artifacts["feishu.schema_change_payload"]
        checked == NormalizeSchemaActions(payload.draft.raws, payload.context.fields, job.deletes)
    IN  /\ Validates /\ "feishu.schema_change_payload" \in Current.needs
        /\ IF checked.invalid \/ ConfigurationError(payload.draft.mock, payload.context) THEN Fail
           ELSE Save([requests |-> << >>, ops |-> checked.actions,
                      context |-> payload.context, mock |-> payload.draft.mock])
        /\ UNCHANGED << feishu, cache, elsewhere, job, meddled, faults, shown, sent >>

\* The preview of a confirm step, and the answer.
Ask ==
    LET checked == artifacts[CHOOSE k \in Current.needs : TRUE] IN
    /\ standing = "running" /\ Current.kind = "confirm"
    /\ standing' = "waiting"
    /\ shown' = [ops |-> checked.ops, context |-> checked.context,
                 result |-> Steps[step.at + 1].gives, meddled |-> meddled]
    /\ sent' = << >>
    /\ UNCHANGED << feishu, cache, elsewhere, job, step, artifacts, meddled, faults >>
Confirm ==
    /\ standing = "waiting"
    /\ Save("confirmed")
    /\ UNCHANGED << feishu, cache, elsewhere, job, meddled, faults, shown, sent >>
Refuse ==
    /\ standing = "waiting"
    /\ standing' = "cancelled"
    /\ UNCHANGED << feishu, cache, elsewhere, job, step, artifacts, meddled, faults, shown, sent >>

-----------------------------------------------------------------------------
(* The tools that write.                                                   *)

RECORD_TOOLS == WRITE_TOOLS \ {CHANGE_SCHEMA_TOOL}

\* _build_tool_payload: the validated request, wherever the tool's inputs have it.
Validated == artifacts[CHOOSE k \in Current.needs \cap RequestKeys : TRUE]

\* Each request is normalized once more, against the columns just read, all before the first is
\* sent: run_tool_CreateFeishuBitableRecord and its like.
Prepared1(defs) == [i \in DOMAIN Validated.requests |->
    NormalizeWriteRequest(Operation, Reread(Validated.requests[i]), job.text, defs)]
Refused(requests) == Invalid(requests) \/ ConfigurationError(Validated.mock, step.context)

\* Fault: a failing batch forgets what it has done.
FinishEmpty(error) ==
    /\ Save([ok |-> ~error, count |-> IF error THEN 0 ELSE step.done])
    /\ UNCHANGED << job, meddled, shown >>
Finish(error) ==
    /\ Save([ok |-> ~error, count |-> step.done])
    /\ UNCHANGED << job, meddled, shown >>

PrepareWrite ==
    LET requests == Prepared1(step.context.fields) IN
    /\ Uses(RECORD_TOOLS) /\ step.where = "loaded"
    /\ ~Refused(requests)
    /\ step' = [step EXCEPT !.where = "writing", !.ops = Writes(requests)]
    /\ UNCHANGED << feishu, cache, elsewhere, job, artifacts, standing, meddled, faults, shown, sent >>
RefuseWrite ==
    /\ Uses(RECORD_TOOLS) /\ step.where = "loaded"
    /\ Refused(Prepared1(step.context.fields))
    /\ Finish(TRUE)
    /\ UNCHANGED << feishu, cache, elsewhere, faults, sent >>

\* run_tool_ChangeFeishuBitableFields carries out the actions as they were validated.
StartChange ==
    /\ Uses({CHANGE_SCHEMA_TOOL}) /\ step.where = "start"
    /\ step' = [step EXCEPT !.where = "writing", !.ops = Validated.ops, !.context = Validated.context]
    /\ UNCHANGED << feishu, cache, elsewhere, job, artifacts, standing, meddled, faults, shown, sent >>

Writing == Uses(WRITE_TOOLS) /\ step.where = "writing"
Sent(done) == Append(sent, [op |-> Head(step.ops), backend |-> Backend(Validated.mock),
                            context |-> step.context, done |-> done])

\* One operation after the other; the first that fails ends the tool.
Send ==
    /\ Writing /\ step.ops # << >>
    /\ Accepts(feishu, Head(step.ops), Backend(Validated.mock))
    /\ feishu' = Apply(feishu, Head(step.ops))
    /\ step' = [step EXCEPT !.ops = Tail(@), !.done = @ + 1]
    /\ sent' = Sent(TRUE)
    /\ UNCHANGED << cache, elsewhere, job, artifacts, standing, meddled, faults, shown >>
SendRejected ==
    /\ Writing /\ step.ops # << >>
    /\ ~Accepts(feishu, Head(step.ops), Backend(Validated.mock))
    /\ sent' = Sent(FALSE)
    /\ Finish(TRUE)
    /\ UNCHANGED << feishu, cache, elsewhere, faults >>
\* The call fails on its way there, or its answer on the way back.
SendLost ==
    /\ Writing /\ step.ops # << >> /\ Backend(Validated.mock) = "feishu"
    /\ faults < MaxFaults
    /\ faults' = faults + 1
    /\ \/ feishu' = feishu /\ sent' = Sent(FALSE)
       \/ /\ Accepts(feishu, Head(step.ops), "feishu")
          /\ feishu' = Apply(feishu, Head(step.ops))
          /\ sent' = Sent(TRUE)
    /\ Finish(TRUE)
    /\ UNCHANGED << cache, elsewhere >>

WriteDone ==
    /\ Writing /\ step.ops = << >>
    /\ Uses(RECORD_TOOLS) \/ Backend(Validated.mock) = "mock"
    /\ Finish(FALSE)
    /\ UNCHANGED << feishu, cache, elsewhere, faults, sent >>

\* After a change of Feishu's columns the cache is replaced (_refresh_real_field_cache); if that
\* fails, or an action did, the cache stays as it is.
Refreshing == Writing /\ step.ops = << >> /\ Uses({CHANGE_SCHEMA_TOOL}) /\ Backend(Validated.mock) = "feishu"
RefreshList ==
    /\ Refreshing
    /\ step' = [step EXCEPT !.where = "refreshing", !.listed = feishu.fields]
    /\ UNCHANGED << feishu, cache, elsewhere, job, artifacts, standing, meddled, faults, shown, sent >>
RefreshFails ==
    /\ Refreshing
    /\ faults < MaxFaults
    /\ faults' = faults + 1
    /\ Finish(TRUE)
    /\ UNCHANGED << feishu, cache, elsewhere, sent >>
\* Fault: the old rows are left to expire.
CacheKept(listed) == cache
CacheAfterChange(listed) == listed
RefreshSave ==
    /\ Uses({CHANGE_SCHEMA_TOOL}) /\ step.where = "refreshing"
    /\ cache' = CacheAfterChange(step.listed)
    /\ Finish(FALSE)
    /\ UNCHANGED << feishu, elsewhere, faults, sent >>

-----------------------------------------------------------------------------
(* The others.                                                             *)

\* Somebody edits the table.  What happens once the session is over is left out.
Live == standing \in {"new", "running", "waiting"}
Meddle(op) ==
    /\ Live /\ meddled < MaxMeddling
    /\ Accepts(feishu, op, "feishu")
    /\ feishu' = Apply(feishu, op)
    /\ meddled' = meddled + 1
    /\ UNCHANGED << cache, elsewhere, job, step, artifacts, standing, faults, shown, sent >>
ExpireCache ==
    /\ Live /\ cache # NoList
    /\ cache' = NoList
    /\ UNCHANGED << feishu, elsewhere, job, step, artifacts, standing, meddled, faults, shown, sent >>
\* Another worker finds the cache empty and fills it, too.
OtherLists ==
    /\ Live /\ meddled < MaxMeddling
    /\ cache = NoList /\ elsewhere = NoList
    /\ elsewhere' = feishu.fields
    /\ meddled' = meddled + 1
    /\ UNCHANGED << feishu, cache, job, step, artifacts, standing, faults, shown, sent >>
OtherSaves ==
    /\ Live /\ elsewhere # NoList
    /\ cache' = elsewhere
    /\ elsewhere' = NoList
    /\ meddled' = meddled + 1
    /\ UNCHANGED << feishu, job, step, artifacts, standing, faults, shown, sent >>

FeishuNext ==
    \/ Invoke
    \/ LoadMock \/ LoadCached \/ ListFields \/ SaveListed \/ ListFails \/ ReadSchema
    \/ ParseRecord \/ ParseSchemaChange \/ ParseRecordDraft \/ AgentFails
    \/ ReadRecords \/ ReadFails \/ MatchRecord \/ MatchFails
    \/ ValidateRecord \/ ValidateSchemaChange \/ Ask \/ Confirm \/ Refuse
    \/ PrepareWrite \/ RefuseWrite \/ StartChange
    \/ Send \/ SendRejected \/ SendLost \/ WriteDone
    \/ RefreshList \/ RefreshFails \/ RefreshSave
    \/ \E op \in Meddlings : Meddle(op)
    \/ ExpireCache \/ OtherLists \/ OtherSaves

FeishuSpec == FeishuInit /\ [][FeishuNext]_feishuVars

-----------------------------------------------------------------------------
(* Properties.                                                             *)

FeishuTypeOK ==
    /\ ToSet(feishu.fields) \subseteq [id : Nat \ {NoId}, name : Names, type : Nat]
    /\ job = NoJob \/ job \in Jobs
    /\ standing = "new" \/ step.at \in 1..(Len(Steps) + 1)
    /\ standing \in {"new", "running", "waiting", "success", "failed", "cancelled"}
    /\ meddled \in 0..(MaxMeddling + 1) /\ faults \in 0..MaxFaults

\* What a tool sends is what the user was shown, operation by operation, if the columns it read
\* are those the request was validated against: normalizing a request twice changes nothing.
WritesAsConfirmed ==
    (\A i \in DOMAIN sent : sent[i].context = shown.context)
      => IsPrefix([i \in DOMAIN sent |-> sent[i].op], shown.ops)

\* A record is updated or deleted only if this session's search returned it and the user saw
\* its id.
TargetWasRead ==
    \A i \in DOMAIN sent : sent[i].op.do \in {"update_record", "delete_record"} =>
        /\ sent[i].op.id \in ToSet(artifacts["feishu.candidate_records"])
        /\ sent[i].op.id = shown.ops[i].id

\* The columns read after a change that went well are those of the table, whatever was cached
\* before, if nobody else touched table or cache since the user was asked.
SchemaAfterIsCurrent ==
    /\ "feishu.table_schema_after" \in DOMAIN artifacts
    /\ shown.result = "feishu.schema_change_result" /\ artifacts[shown.result].ok
    /\ shown.meddled = meddled /\ faults = 0
    => artifacts["feishu.table_schema_after"].fields = feishu.fields

\* A change that passed validation is not turned down half way, if it names each column once
\* and nothing else happened: validation follows the names the earlier actions leave.
NamedOnce(ops) == \A i, j \in DOMAIN ops :
    ops[i].id # NoId /\ ops[i].id = ops[j].id => i = j
AcceptedChangesApply ==
    /\ shown.result = "feishu.schema_change_result" /\ NamedOnce(shown.ops)
    /\ meddled = 0 /\ faults = 0
    => \A i \in DOMAIN sent : sent[i].done

\* A result without an error means that all the user confirmed was done; one with an error
\* counts what was done, up to the one call whose answer was lost.
ReportCountsApplied ==
    shown.result \in DOMAIN artifacts =>
        LET result == artifacts[shown.result]
            done == Cardinality({i \in DOMAIN sent : sent[i].done})
        IN  /\ result.count <= done /\ done <= result.count + 1
            /\ result.ok => done = result.count /\ done = Len(shown.ops)

\* A process that is configured for the mock store sends nothing to Feishu, whatever a model
\* writes into its request.
MockStaysMock == ~job.real => \A i \in DOMAIN sent : sent[i].backend = "mock"
=============================================================================
