---------------------------- MODULE FeishuSchema ----------------------------
(***************************************************************************)
(* Changes to the columns of a table: how a list of actions is checked     *)
(* before the user sees it, and what actions and record writes do to a     *)
(* table, be it the mock store or Feishu's.                                *)
(*                                                                         *)
(* A table is [fields, records]: its columns in order, and by record id    *)
(* the values of a record's columns.  A column is [id, name, type].        *)
(***************************************************************************)
EXTENDS FeishuRequests

NoId == 0
NoField == [id |-> NoId, name |-> NoName, type |-> Untyped]

\* An action as a model or a rule writes it: the column by its id, by source_field_name, or by
\* field_name; the new name; the type (Untyped if it has none); and its options: "none", "good",
\* or "bad" (empty or repeated names).
RawAction(do, id, source, field, target, type, options) ==
    [do |-> do, id |-> id, source |-> source, field |-> field, target |-> target,
     type |-> type, options |-> options]

\* SCHEMA_ACTION_ALIASES
CanonicalAction(do) ==
    CASE do = "add_field" -> "create_field"
      [] do \in {"rename_field", "modify_field"} -> "update_field"
      [] do = "remove_field" -> "delete_field"
      [] OTHER -> do

Clean(name) == IF name = NoName THEN NoName ELSE Stripped[name]
FieldsWithId(id, defs) == {i \in DOMAIN defs : defs[i].id = id}

\* _resolve_schema_field, in the columns as they were read: actions before this one do not count.
ResolveSchemaField(raw, defs) ==
    LET names == FieldNames(defs)
        name == IF Clean(raw.source) \in names THEN Clean(raw.source) ELSE Clean(raw.field)
    IN  IF raw.id # NoId /\ FieldsWithId(raw.id, defs) # {}
          THEN defs[CHOOSE i \in FieldsWithId(raw.id, defs) : TRUE]
        ELSE IF name \in names THEN DefinitionOf(name, defs) ELSE NoField

\* _normalize_schema_field_type and _normalize_schema_field_property
SchemaFieldType(type) == IF type = Untyped THEN 1 ELSE type
ValidOptions(type, options) == type \in {3, 4} => options = "good"

\* A normalized action: what the tool carries out, and what the user is shown.
Action(do, id, name, type) == [do |-> do, id |-> id, name |-> name, type |-> type]
Rejection == Action("rejected", NoId, NoName, Untyped)

NormalizeCreateFieldAction(raw, planned) ==
    LET name == Clean(raw.field)
        type == SchemaFieldType(raw.type)
    IN  IF name # NoName /\ name \notin planned /\ type \in SUPPORTED_FEISHU_FIELD_TYPES
             /\ ValidOptions(type, raw.options)
          THEN Action("create_field", NoId, name, type) ELSE Rejection

\* The options of a select column must be given again even if only its name changes.
NewName(raw, source) ==
    IF raw.target # NoName THEN Clean(raw.target)
    ELSE IF raw.field # NoName THEN Clean(raw.field) ELSE source.name
NormalizeUpdateFieldAction(raw, defs, planned) ==
    LET source == ResolveSchemaField(raw, defs)
        name == NewName(raw, source)
    IN  IF source # NoField /\ raw.type \in {Untyped, source.type}
             /\ (name = source.name \/ name \notin planned)
             /\ ValidOptions(source.type, raw.options)
          THEN Action("update_field", source.id, name, source.type) ELSE Rejection

NormalizeDeleteFieldAction(raw, defs, intended) ==
    LET source == ResolveSchemaField(raw, defs)
    IN  IF source # NoField /\ intended
          THEN Action("delete_field", source.id, source.name, source.type) ELSE Rejection

\* Fault: the names stay those of the table as it was read.
KnownNames(planned, action, defs) == planned
\* planned_names: the names the table has after the actions up to here.
PlannedNames(planned, action, defs) ==
    LET old == IF FieldsWithId(action.id, defs) = {} THEN {}
               ELSE {defs[CHOOSE i \in FieldsWithId(action.id, defs) : TRUE].name}
    IN  CASE action.do = "create_field" -> planned \cup {action.name}
          [] action.do = "update_field" -> (planned \ old) \cup {action.name}
          [] action.do = "delete_field" -> planned \ {action.name}
          [] OTHER -> planned

\* One action of _normalize_schema_actions.  intended: the text itself speaks of deleting a field.
NormalizeSchemaAction(raw, defs, planned, intended) ==
    LET do == CanonicalAction(raw.do)
    IN  CASE do = "create_field" -> NormalizeCreateFieldAction(raw, planned)
          [] do = "update_field" -> NormalizeUpdateFieldAction(raw, defs, planned)
          [] do = "delete_field" -> NormalizeDeleteFieldAction(raw, defs, intended)
          [] OTHER -> Rejection

\* The names after the first n actions.
NamesAfter(raws, defs, intended) ==
    LET planned[n \in 0..Len(raws)] ==
            IF n = 0 THEN FieldNames(defs)
            ELSE LET before == planned[n - 1]
                 IN  PlannedNames(before, NormalizeSchemaAction(raws[n], defs, before, intended), defs)
    IN  planned

\* _normalize_schema_actions
NormalizeSchemaActions(raws, defs, intended) ==
    LET planned == NamesAfter(raws, defs, intended)
        actions == [n \in 1..Len(raws) |->
                      NormalizeSchemaAction(raws[n], defs, planned[n - 1], intended)]
    IN  [actions |-> actions,
         invalid |-> raws = << >> \/ Rejection \in ToSet(actions)]

\* The rules' reading of a text (_parse_schema_change_without_llm): a column it asks for is left
\* out if there is one; renamings and deletions come before creations.  asked: its words, in
\* sequences of raw actions by kind.
RuleActions(asked, defs) ==
    LET known == FieldNames(defs) \cup {asked.renames[i].field : i \in DOMAIN asked.renames}
                   \cup {asked.deletes[i].field : i \in DOMAIN asked.deletes}
        new == {i \in DOMAIN asked.creates : asked.creates[i].field \notin known}
        nth(n) == CHOOSE i \in new : Cardinality({j \in new : j <= i}) = n
    IN  asked.renames \o asked.deletes
          \o [n \in 1..Cardinality(new) |-> asked.creates[nth(n)]]

-----------------------------------------------------------------------------
(* The table.                                                              *)

Records(table) == DOMAIN table.records
FirstFree(start, taken) == CHOOSE n \in start..(start + Cardinality(taken)) :
    n \notin taken /\ \A m \in start..(n - 1) : m \in taken
\* _next_mock_record_id and _next_mock_field_id: the count plus one, or the next free number.
NextRecordId(table) == FirstFree(Cardinality(Records(table)) + 1, Records(table))
NextFieldId(table) ==
    FirstFree(Len(table.fields) + 1, {table.fields[i].id : i \in DOMAIN table.fields})

\* A record's values after a column got another name.
Renamed(values, old, new) ==
    IF old \notin DOMAIN values \/ old = new THEN values
    ELSE [n \in (DOMAIN values \ {old}) \cup {new} |-> IF n = new THEN values[old] ELSE values[n]]
Without(values, name) == [n \in DOMAIN values \ {name} |-> values[n]]
ForEach(table, Change(_)) == [r \in Records(table) |-> Change(table.records[r])]

CreateField(table, action) ==
    [table EXCEPT !.fields = Append(@, [id |-> NextFieldId(table), name |-> action.name, type |-> action.type])]
UpdateField(table, action) ==
    LET at == CHOOSE i \in FieldsWithId(action.id, table.fields) : TRUE
        old == table.fields[at].name
    IN  [fields |-> [table.fields EXCEPT ![at].name = action.name],
         records |-> ForEach(table, LAMBDA values : Renamed(values, old, action.name))]
DeleteField(table, action) ==
    LET at == CHOOSE i \in FieldsWithId(action.id, table.fields) : TRUE
        old == table.fields[at].name
    IN  [fields |-> RemoveAt(table.fields, at),
         records |-> ForEach(table, LAMBDA values : Without(values, old))]

RecordWrite(do, rid, values) == [do |-> do, id |-> rid, values |-> values]
CreateRecord(table, write) ==
    LET rid == NextRecordId(table)
    IN  [table EXCEPT !.records = [r \in Records(table) \cup {rid} |->
                                     IF r = rid THEN write.values ELSE @[r]]]
UpdateRecord(table, write) ==
    [table EXCEPT !.records[write.id] =
       [n \in DOMAIN @ \cup DOMAIN write.values |->
          IF n \in DOMAIN write.values THEN write.values[n] ELSE @[n]]]
DeleteRecord(table, write) ==
    [table EXCEPT !.records = [r \in Records(table) \ {write.id} |-> @[r]]]

\* Whether the backend takes an operation.  The mock store knows no missing column and no
\* repeated name; Feishu refuses both.
Accepts(table, op, backend) ==
    LET others(id) == {table.fields[i].name : i \in DOMAIN table.fields \ FieldsWithId(id, table.fields)}
        strict == backend = "feishu"
    IN  /\ op.do \in {"update_field", "delete_field"} => FieldsWithId(op.id, table.fields) # {}
        /\ op.do \in {"create_field", "update_field"} /\ strict => op.name \notin others(op.id)
        /\ op.do \in {"update_record", "delete_record"} => op.id \in Records(table)
        /\ op.do \in {"create_record", "update_record"} /\ strict
             => DOMAIN op.values \subseteq FieldNames(table.fields)
Apply(table, op) ==
    CASE op.do = "create_field" -> CreateField(table, op)
      [] op.do = "update_field" -> UpdateField(table, op)
      [] op.do = "delete_field" -> DeleteField(table, op)
      [] op.do = "create_record" -> CreateRecord(table, op)
      [] op.do = "update_record" -> UpdateRecord(table, op)
      [] op.do = "delete_record" -> DeleteRecord(table, op)

\* _select_records of the mock store, and Feishu's search: the records that match every condition.
\* (Feishu's own reading of an operator is taken to be the mock's.)
RecordMatches(values, c) ==
    LET has == c.field \in DOMAIN values
    IN  CASE c.op \in {"is", "contains", "like"} ->
                 IF has THEN values[c.field].content = c.value.content
                            ELSE c.value.content = "empty"
          [] c.op = "isNotEmpty" -> has /\ values[c.field].content # "empty"
          [] OTHER -> TRUE
SelectRecords(table, rid, conditions) ==
    {r \in Records(table) : /\ rid # NoRecord => r = rid
                            /\ \A c \in conditions : RecordMatches(table.records[r], c)}
=============================================================================
