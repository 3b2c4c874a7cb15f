--------------------------- MODULE FeishuRequests ---------------------------
(***************************************************************************)
(* What third's Feishu tools make of a request before anything is sent:    *)
(* field names, values, search conditions and schema changes.  Pure        *)
(* operators, used by the validation step and again by the tool that       *)
(* writes.                                                                 *)
(*                                                                         *)
(* Names are opaque: Canonical, FieldNameMap and Stripped say what the     *)
(* alias table, the configuration and str.strip do to them.  A value keeps *)
(* its Python type and what its text can be read as.  A user's text is     *)
(* what it says of fields: [says] words it gives a value ("X is Y"),       *)
(* [sets] words it gives a new value ("change X to Y"), [rid] the record   *)
(* id it names.                                                            *)
(***************************************************************************)
EXTENDS Naturals, SequencesExt

CONSTANTS
    Names,         \* field names, and the words users and models write for them
    Canonical,     \* Canonical[n]: the semantic field a word stands for, else the word
    FieldNameMap,  \* config.feishu_field_name_map, on part of Names
    Stripped,      \* Stripped[n]: the name without surrounding blanks
    NoName         \* no such field

ASSUME NamesAssumption ==
    /\ IsFiniteSet(Names) /\ NoName \notin Names
    /\ Canonical \in [Names -> Names]
    /\ Stripped \in [Names -> Names]
    /\ \A n \in Names : Stripped[Stripped[n]] = Stripped[n]
    /\ DOMAIN FieldNameMap \subseteq Names
    /\ \A n \in DOMAIN FieldNameMap : FieldNameMap[n] \in Names

-----------------------------------------------------------------------------
(* Field names.                                                            *)

\* config.feishu_field_name_map.get(name) or ...get(canonical) or canonical
Mapped(name) ==
    IF name \in DOMAIN FieldNameMap THEN FieldNameMap[name]
    ELSE IF Canonical[name] \in DOMAIN FieldNameMap THEN FieldNameMap[Canonical[name]]
    ELSE Canonical[name]

\* What the map and the alias table make of a name they leave as it is.  They do where no map is
\* configured; one that is may lead from a name to a word for another column.
NamesSettle == \A n \in Names : Mapped(Stripped[Mapped(Stripped[n])]) = Mapped(Stripped[n])

\* write_support._resolve_field_name
ResolveFieldName(raw, available) ==
    LET original == Stripped[raw]
        mapped == Mapped(original)
        padded == {n \in available : Stripped[n] = mapped}
    IN  IF available = {} \/ mapped \in available THEN mapped
        ELSE IF original \in available THEN original
        ELSE IF padded # {} THEN CHOOSE n \in padded : TRUE
        ELSE NoName

\* feishu_client._resolve_field_name: no alias table, and the original name is no fallback.
ResolveForClient(raw, available) ==
    LET original == Stripped[raw]
        mapped == Stripped[IF original \in DOMAIN FieldNameMap THEN FieldNameMap[original] ELSE original]
        padded == {n \in available : Stripped[n] = mapped}
    IN  IF mapped \in available THEN mapped
        ELSE IF padded # {} THEN CHOOSE n \in padded : TRUE
        ELSE NoName

-----------------------------------------------------------------------------
(* Values.                                                                 *)

Forms == {"text", "number", "bool", "list", "dict"}
Contents == {"plain", "digits", "date", "truth", "empty"}
Value == [form : Forms, content : Contents]
NoValue == [form |-> "none", content |-> "empty"]
As(form, v) == [form |-> form, content |-> v.content]

SUPPORTED_FEISHU_FIELD_TYPES == {1, 2, 3, 4, 5, 7, 13, 15}
Untyped == 0       \* no definition, or the mock table's "mock"

ToNumber(v) == IF v.form = "number" THEN v
               ELSE IF v.form \in {"text", "dict"} /\ v.content = "digits" THEN As("number", v)
               ELSE NoValue
\* A bool is an int to Python, and passes as a time stamp.
ToDateMillis(v) == IF v.form \in {"number", "bool"} THEN v
                   ELSE IF v.form = "text" /\ v.content = "date" THEN As("number", v)
                   ELSE NoValue
ToBool(v) == IF v.form = "bool" THEN v
             ELSE IF v.form \in {"text", "number"} /\ v.content \in {"truth", "digits"}
                    THEN As("bool", v)
             ELSE NoValue
ToUrl(v) == IF v.form = "dict" THEN v ELSE IF v.content = "empty" THEN NoValue ELSE As("dict", v)

\* _normalize_field_value: NoValue is an error.
NormalizeFieldValue(v, type) ==
    CASE type = Untyped -> v
      [] type \in {1, 3, 13} -> As("text", v)
      [] type = 2 -> ToNumber(v)
      [] type = 4 -> As("list", v)
      [] type = 5 -> ToDateMillis(v)
      [] type = 7 -> ToBool(v)
      [] type = 15 -> ToUrl(v)
      [] OTHER -> NoValue

-----------------------------------------------------------------------------
(* The table a tool believes in: load_table_fields_context.                *)

\* source: "feishu", "mock", or "feishu_error" when the fields could not be read.
Context(source, defs) == [source |-> source, fields |-> defs]
NoContext == Context("none", << >>)
FieldNames(defs) == {defs[i].name : i \in DOMAIN defs}
\* _field_definitions_by_name: the last definition of a name counts.
DefinitionOf(name, defs) ==
    LET at == {i \in DOMAIN defs : defs[i].name = name}
    IN  defs[CHOOSE i \in at : \A j \in at : j <= i]
TypeOf(name, defs) == IF name \in FieldNames(defs) THEN DefinitionOf(name, defs).type ELSE Untyped

\* prepare_record_fields.  raw has numbered pairs; of two words for the same column the
\* later one wins.
Prepared(pair, defs) ==
    LET name == ResolveFieldName(pair.name, FieldNames(defs))
    IN  [name |-> name,
         value |-> IF name = NoName THEN NoValue
                   ELSE NormalizeFieldValue(pair.value, TypeOf(name, defs))]
Collected(got) ==
    LET good == {i \in DOMAIN got : got[i].value # NoValue}
        last(name) == CHOOSE i \in good : /\ got[i].name = name
                                          /\ \A j \in good : got[j].name = name => j <= i
    IN  [fields |-> [name \in {got[i].name : i \in good} |-> got[last(name)].value],
         rejected |-> good # DOMAIN got]
PrepareRecordFields(raw, defs) == Collected([i \in DOMAIN raw |-> Prepared(raw[i], defs)])

-----------------------------------------------------------------------------
(* Search conditions.                                                      *)

VALUELESS_OPERATORS == {"isEmpty", "isNotEmpty"}
\* OPERATOR_ALIASES; whatever is not in it becomes "is".
NormalizeOperator(op) ==
    CASE op \in {"isNot", "!="} -> "isNot"
      [] op \in {"contains", "like", "in", "isEmpty", "isNotEmpty"} -> op
      [] OTHER -> "is"
\* FEISHU_OPERATOR_ALIASES of the client also knows the comparisons.
NormalizeClientOperator(op) ==
    IF op \in {"isGreater", ">"} THEN "isGreater"
    ELSE IF op \in {"isLess", "<"} THEN "isLess" ELSE NormalizeOperator(op)

\* _prepare_lookup_conditions: a condition on an unknown field, or without a value, is dropped.
PrepareLookupConditions(conditions, defs) ==
    LET name(c) == ResolveFieldName(c.field, FieldNames(defs))
        op(c) == NormalizeOperator(c.op)
        kept == {c \in conditions : /\ name(c) # NoName
                                    /\ op(c) \in VALUELESS_OPERATORS \/ c.value.content # "empty"}
    IN  {[field |-> name(c), op |-> op(c), value |-> c.value] : c \in kept}

\* _prepare_request_fields_for_real_table and _to_feishu_filter: the same again, by the
\* client's rules.
FeishuFilter(conditions, available) ==
    LET name(c) == ResolveForClient(c.field, available)
        op(c) == NormalizeClientOperator(c.op)
        kept == {c \in conditions : /\ name(c) # NoName
                                    /\ op(c) \in VALUELESS_OPERATORS \/ c.value.content # "empty"}
    IN  {[field |-> name(c), op |-> op(c), value |-> c.value] : c \in kept}

-----------------------------------------------------------------------------
(* What the rules read out of a text.                                      *)

NoRecord == 0
Text(says, sets, rid) == [says |-> says, sets |-> sets, rid |-> rid]

\* _field_candidates: the table's columns under their own names, then the semantic fields it
\* lacks under all their words.
FieldCandidates(defs) ==
    LET columns == [i \in DOMAIN defs |-> [field |-> defs[i].name, words |-> {defs[i].name}]]
        others == {n \in Names : Canonical[n] = n /\ n \notin FieldNames(defs)}
        words(n) == {w \in Names : Canonical[w] = n}
    IN  columns \o SetToSeq({[field |-> n, words |-> words(n)] : n \in others})

\* _extract_assignments: one value per candidate, for the first of its words in the text.  A
\* pair has its candidate's number, so that the order stays.
ExtractAssignments(mentions, defs) ==
    LET candidates == FieldCandidates(defs)
        said(c) == c.words \cap DOMAIN mentions
        column(c) == ResolveFieldName(c.field, FieldNames(defs))
        usable(c) == said(c) # {} /\ (column(c) # NoName \/ FieldNames(defs) = {})
        pair(c) == [name |-> IF column(c) = NoName THEN c.field ELSE column(c),
                    value |-> mentions[CHOOSE w \in said(c) : TRUE]]
    IN  [i \in {j \in DOMAIN candidates : usable(candidates[j])} |-> pair(candidates[i])]

\* _build_lookup
BuildLookup(text, defs) ==
    LET found == {c \in ToSet(FieldCandidates(defs)) : c.words \cap DOMAIN text.says # {}}
    IN  PrepareLookupConditions(
          {[field |-> c.field, op |-> "is",
            value |-> text.says[CHOOSE w \in c.words \cap DOMAIN text.says : TRUE]] : c \in found}, defs)

\* The read tool's _extract_filter_conditions: only what the table has a column for, and the
\* alias table is not asked.
ResolveTableFieldName(name, available) ==
    LET mapped == IF name \in DOMAIN FieldNameMap THEN FieldNameMap[name] ELSE name
    IN  IF available = {} \/ mapped \in available THEN mapped
        ELSE IF name \in available THEN name ELSE NoName
ExtractFilterConditions(text, defs) ==
    LET name(w) == ResolveTableFieldName(w, FieldNames(defs))
    IN  {[field |-> name(w), op |-> "is", value |-> text.says[w]] :
           w \in {v \in DOMAIN text.says : name(v) # NoName}}

-----------------------------------------------------------------------------
(* Write requests.                                                         *)

\* A request as an agent writes it.  given: the keys it has; what it lacks is read out of the
\* text.  page: how many matches to ask for, 0 if it does not say.
RequestParts == {"fields", "record_id", "lookup"}
RawRequest(given, pairs, rid, conditions, page) ==
    [given |-> given, pairs |-> pairs, rid |-> rid, conditions |-> conditions, page |-> page]

\* build_write_request.  An update whose verbs give nothing, but that names its record, is read
\* as plain assignments.
BuildWriteRequest(operation, text, defs) ==
    LET assigned == ExtractAssignments(text.says, defs)
        updated == ExtractAssignments(text.sets, defs)
        pairs == IF operation # "update_record" THEN assigned
                 ELSE IF updated = << >> /\ text.rid # NoRecord THEN assigned ELSE updated
    IN  RawRequest(RequestParts, pairs, text.rid, BuildLookup(text, defs), 10)

AtMost(n, bound) == IF n <= bound THEN n ELSE bound

\* normalize_lookup: at most twenty matches are asked for.
NormalizeLookup(conditions, page, defs) ==
    [conditions |-> PrepareLookupConditions(conditions, defs),
     page |-> AtMost(IF page = 0 THEN 10 ELSE page, 20)]

\* normalize_write_request: what the agent left out is read out of the text,
Completed(explicit, generated) ==
    [explicit EXCEPT !.pairs = IF "fields" \in explicit.given THEN @ ELSE generated.pairs,
                     !.rid = IF "record_id" \in explicit.given THEN @ ELSE generated.rid,
                     !.conditions = IF "lookup" \in explicit.given THEN @ ELSE generated.conditions]
\* and what there is must fit the columns.  A deletion carries no fields.
Checked(operation, request, prepared, defs) ==
    LET keeps == operation # "delete_record"
    IN  [rid |-> request.rid,
         fields |-> IF keeps THEN prepared.fields ELSE << >>,
         lookup |-> NormalizeLookup(request.conditions, request.page, defs),
         invalid |-> keeps /\ (prepared.rejected \/ DOMAIN prepared.fields = {})]
CheckedRequest(operation, request, defs) ==
    Checked(operation, request, PrepareRecordFields(request.pairs, defs), defs)
NormalizeWriteRequest(operation, explicit, text, defs) ==
    CheckedRequest(operation, Completed(explicit, BuildWriteRequest(operation, text, defs)), defs)

\* Fault: the record's id is read out of the text again.
RereadWithoutId(request) ==
    LET pairs == SetToSeq({[name |-> n, value |-> request.fields[n]] : n \in DOMAIN request.fields})
    IN  RawRequest({"fields", "lookup"}, pairs, NoRecord, request.lookup.conditions, request.lookup.page)
\* The request that validation stored, as the tool reads it back (parse_tool_request).
Reread(request) ==
    LET pairs == SetToSeq({[name |-> n, value |-> request.fields[n]] : n \in DOMAIN request.fields})
    IN  RawRequest(RequestParts, pairs, request.rid, request.lookup.conditions, request.lookup.page)
=============================================================================
