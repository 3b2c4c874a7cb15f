-------------------------- MODULE FeishuStepProofs --------------------------
(***************************************************************************)
(* What is proved about the steps of a session that works on a table, for  *)
(* any table, any text, any answer of a model, any edits by others and any *)
(* number of failing calls.                                                *)
(*                                                                         *)
(* A session is a fixed list of steps, each of which saves an artifact     *)
(* that no other one saves.  The first part says which lists there are,    *)
(* the second what they make of the artifacts; then there is one part for  *)
(* each property.                                                          *)
(***************************************************************************)
EXTENDS FeishuStep, FiniteSetTheorems, SequenceTheorems, Recursion, TLAPS

-----------------------------------------------------------------------------
(* The lists of steps.                                                     *)

SchemaKeys == {"feishu.table_schema", "feishu.table_schema_after"}
Confirmations == {"confirmation.write", "confirmation.schema_change"}

\* What a step saves tells what kind of step it is.
SavesOwn(s) ==
    /\ s.kind \in {"tool", "agent", "validation", "confirm"}
    /\ s.gives # "none"
    /\ s.kind = "tool" => s.uses \in ALLOWED_TOOLS
    /\ s.gives \in SchemaKeys <=> s.kind = "tool" /\ s.uses = READ_SCHEMA_TOOL
    /\ s.gives \in {"feishu.candidate_records", "feishu.records"}
         <=> s.kind = "tool" /\ s.uses = READ_TOOL
    /\ s.gives \in {"write_result", "feishu.schema_change_result"}
         <=> s.kind = "tool" /\ s.uses \in WRITE_TOOLS
    /\ s.gives = "feishu.schema_change_result" <=> s.kind = "tool" /\ s.uses = CHANGE_SCHEMA_TOOL
    /\ s.gives \in PayloadKeys <=> s.kind = "agent" /\ s.uses = "parse_feishu_record.v1"
    /\ s.gives = "feishu.schema_change_payload"
         <=> s.kind = "agent" /\ s.uses = "parse_feishu_schema_change.v1"
    /\ s.gives = "feishu.record_match" <=> s.kind = "agent" /\ s.uses = "search_feishu_record.v1"
    /\ s.gives \in RequestKeys <=> s.kind = "validation"
    /\ s.gives = "validation.schema_change_payload"
         <=> s.kind = "validation" /\ "feishu.schema_change_payload" \in s.needs
    /\ s.gives \in Confirmations <=> s.kind = "confirm"

\* What a step reads of the others.
ReadsRight(s) ==
    /\ s.kind = "validation" => s.needs \cap PayloadKeys # {} \/ "feishu.schema_change_payload" \in s.needs
    /\ s.kind = "tool" /\ s.uses \in WRITE_TOOLS =>
         s.needs = {IF s.uses = CHANGE_SCHEMA_TOOL THEN "validation.schema_change_payload"
                    ELSE "validation.write_payload"}
    /\ s.gives \in PayloadKeys => s.needs \cap SchemaKeys # {}
    /\ s.gives = "feishu.record_match" => "feishu.candidate_records" \in s.needs
    /\ s.gives = "feishu.schema_change_payload" => s.needs = {"feishu.table_schema"}
    /\ s.gives = "validation.schema_change_payload" => s.needs \cap PayloadKeys = {}

\* A list of n steps that can be run: each saves an artifact of its own, reads what earlier ones
\* have saved, and what it asks about is what the next one writes.
OwnKeys(p, n) == \A i, j \in 1..n : p[i].gives = p[j].gives => i = j
Closed(p, n) == \A i \in 1..n : \A k \in p[i].needs : \E j \in 1..(i - 1) : p[j].gives = k
AsksForNext(p, n) ==
    \A i \in 1..n : p[i].kind = "confirm" =>
        /\ i + 1 \in 1..n
        /\ p[i + 1].kind = "tool" /\ p[i + 1].uses \in WRITE_TOOLS
        /\ p[i].needs = p[i + 1].needs
WasAskedFor(p, n) ==
    \A i \in 1..n : p[i].kind = "tool" /\ p[i].uses \in WRITE_TOOLS =>
        i - 1 \in 1..n /\ p[i - 1].kind = "confirm"
ReadAfterChange(p, n) ==
    \A i, j \in 1..n :
        p[i].gives = "feishu.schema_change_result" /\ p[j].gives = "feishu.table_schema_after" => i < j
RunsTo(p, n) ==
    /\ DOMAIN p = 1..n /\ Len(p) = n /\ n \in Nat \ {0}
    /\ \A i \in 1..n : SavesOwn(p[i]) /\ ReadsRight(p[i])
    /\ OwnKeys(p, n) /\ Closed(p, n) /\ AsksForNext(p, n) /\ WasAskedFor(p, n) /\ ReadAfterChange(p, n)
Runs(p) == RunsTo(p, Len(p))

\* A record is matched exactly by the plans that change one.
Matches(p, operation) ==
    \A i \in 1..Len(p) : p[i].gives = "validation.write_payload" =>
        (operation # "create_record" <=> "feishu.record_match" \in p[i].needs)

LEMMA Names7 ==
    /\ ALLOWED_TOOLS = {CREATE_TOOL, UPDATE_TOOL, DELETE_TOOL, CHANGE_SCHEMA_TOOL, READ_TOOL, READ_SCHEMA_TOOL}
    /\ WRITE_TOOLS = {CREATE_TOOL, UPDATE_TOOL, DELETE_TOOL, CHANGE_SCHEMA_TOOL}
    /\ READ_TOOL \notin WRITE_TOOLS /\ READ_SCHEMA_TOOL \notin WRITE_TOOLS /\ READ_TOOL # READ_SCHEMA_TOOL
    /\ CHANGE_SCHEMA_TOOL \notin {CREATE_TOOL, UPDATE_TOOL, DELETE_TOOL}
BY DEF ALLOWED_TOOLS, WRITE_TOOLS, CREATE_TOOL, UPDATE_TOOL, DELETE_TOOL, CHANGE_SCHEMA_TOOL,
       READ_TOOL, READ_SCHEMA_TOOL

\* Each of the steps the templates are put together from.
Fits(s) == SavesOwn(s) /\ ReadsRight(s)

LEMMA ReadsSchema ==
    ASSUME NEW s, s.kind = "tool", s.uses = READ_SCHEMA_TOOL, s.gives \in SchemaKeys
    PROVE  Fits(s)
BY Names7 DEF Fits, SavesOwn, ReadsRight, SchemaKeys, Confirmations, PayloadKeys, RequestKeys

LEMMA ReadsRecords ==
    ASSUME NEW s, s.kind = "tool", s.uses = READ_TOOL, s.gives \in {"feishu.candidate_records", "feishu.records"}
    PROVE  Fits(s)
BY Names7 DEF Fits, SavesOwn, ReadsRight, SchemaKeys, Confirmations, PayloadKeys, RequestKeys

LEMMA ParsesRecord ==
    ASSUME NEW s, s.kind = "agent", s.uses = "parse_feishu_record.v1", s.gives \in PayloadKeys,
           s.needs \cap SchemaKeys # {}
    PROVE  Fits(s)
BY Names7 DEF Fits, SavesOwn, ReadsRight, SchemaKeys, Confirmations, PayloadKeys, RequestKeys

LEMMA ParsesChange ==
    ASSUME NEW s, s.kind = "agent", s.uses = "parse_feishu_schema_change.v1", s.gives = "feishu.schema_change_payload",
           s.needs = {"feishu.table_schema"}
    PROVE  Fits(s)
BY Names7 DEF Fits, SavesOwn, ReadsRight, SchemaKeys, Confirmations, PayloadKeys, RequestKeys

LEMMA ParsesDraft ==
    ASSUME NEW s, s.kind = "agent", s.uses = "parse_record_draft.v1", s.gives = "record.draft"
    PROVE  Fits(s)
BY Names7 DEF Fits, SavesOwn, ReadsRight, SchemaKeys, Confirmations, PayloadKeys, RequestKeys

LEMMA MatchesRecord ==
    ASSUME NEW s, s.kind = "agent", s.uses = "search_feishu_record.v1", s.gives = "feishu.record_match",
           "feishu.candidate_records" \in s.needs
    PROVE  Fits(s)
BY Names7 DEF Fits, SavesOwn, ReadsRight, SchemaKeys, Confirmations, PayloadKeys, RequestKeys

LEMMA ValidatesRecord ==
    ASSUME NEW s, s.kind = "validation", s.gives = "validation.write_payload", s.needs \cap PayloadKeys # {},
           "feishu.schema_change_payload" \notin s.needs
    PROVE  Fits(s)
BY Names7 DEF Fits, SavesOwn, ReadsRight, SchemaKeys, Confirmations, PayloadKeys, RequestKeys

LEMMA ValidatesChange ==
    ASSUME NEW s, s.kind = "validation", s.gives = "validation.schema_change_payload",
           "feishu.schema_change_payload" \in s.needs, s.needs \cap PayloadKeys = {}
    PROVE  Fits(s)
BY Names7 DEF Fits, SavesOwn, ReadsRight, SchemaKeys, Confirmations, PayloadKeys, RequestKeys

LEMMA AsksFirst ==
    ASSUME NEW s, s.kind = "confirm", s.gives \in Confirmations
    PROVE  Fits(s)
BY Names7 DEF Fits, SavesOwn, ReadsRight, SchemaKeys, Confirmations, PayloadKeys, RequestKeys

LEMMA WritesRecord ==
    ASSUME NEW s, s.kind = "tool", s.uses \in {CREATE_TOOL, UPDATE_TOOL, DELETE_TOOL}, s.gives = "write_result",
           s.needs = {"validation.write_payload"}
    PROVE  Fits(s)
BY Names7 DEF Fits, SavesOwn, ReadsRight, SchemaKeys, Confirmations, PayloadKeys, RequestKeys

LEMMA ChangesFields ==
    ASSUME NEW s, s.kind = "tool", s.uses = CHANGE_SCHEMA_TOOL, s.gives = "feishu.schema_change_result",
           s.needs = {"validation.schema_change_payload"}
    PROVE  Fits(s)
BY Names7 DEF Fits, SavesOwn, ReadsRight, SchemaKeys, Confirmations, PayloadKeys, RequestKeys

\* Lists put together, place by place.
LEMMA TwoJoined ==
    ASSUME NEW S, NEW f \in Seq(S), NEW g \in Seq(S)
    PROVE  /\ f \o g \in Seq(S) /\ Len(f \o g) = Len(f) + Len(g) /\ Len(f) \in Nat /\ Len(g) \in Nat
           /\ DOMAIN (f \o g) = 1..(Len(f) + Len(g))
           /\ \A i \in 1..Len(f) : (f \o g)[i] = f[i]
           /\ \A i \in 1..Len(g) : (f \o g)[Len(f) + i] = g[i]
<1>1. /\ f \o g \in Seq(S) /\ Len(f \o g) = Len(f) + Len(g)
      /\ \A i \in 1..Len(f) + Len(g) : (f \o g)[i] = IF i <= Len(f) THEN f[i] ELSE g[i - Len(f)]
  BY ConcatProperties
<1>2. Len(f) \in Nat /\ Len(g) \in Nat
  BY LenProperties
<1>3. DOMAIN (f \o g) = 1..(Len(f) + Len(g))
  BY <1>1, LenProperties
<1>4. \A i \in 1..Len(f) : (f \o g)[i] = f[i]
  BY <1>1, <1>2
<1>5. \A i \in 1..Len(g) : (f \o g)[Len(f) + i] = g[i]
  BY <1>1, <1>2
<1> QED
  BY <1>1, <1>2, <1>3, <1>4, <1>5

LEMMA Joined ==
    ASSUME NEW S, NEW f \in Seq(S), NEW g \in Seq(S), NEW h \in Seq(S)
    PROVE  /\ DOMAIN (f \o g \o h) = 1..(Len(f) + Len(g) + Len(h))
           /\ Len(f \o g \o h) = Len(f) + Len(g) + Len(h)
           /\ \A i \in 1..Len(f) : (f \o g \o h)[i] = f[i]
           /\ \A i \in 1..Len(g) : (f \o g \o h)[Len(f) + i] = g[i]
           /\ \A i \in 1..Len(h) : (f \o g \o h)[Len(f) + Len(g) + i] = h[i]
<1>1. PICK fg : fg = f \o g
  OBVIOUS
<1>2. /\ fg \in Seq(S) /\ Len(fg) = Len(f) + Len(g) /\ Len(f) \in Nat /\ Len(g) \in Nat
      /\ \A i \in 1..Len(f) : fg[i] = f[i]
      /\ \A i \in 1..Len(g) : fg[Len(f) + i] = g[i]
  BY <1>1, TwoJoined
<1>3. fg \in Seq(S)
  BY <1>2
<1>4. /\ Len(fg \o h) = Len(fg) + Len(h) /\ Len(h) \in Nat
      /\ DOMAIN (fg \o h) = 1..(Len(fg) + Len(h))
      /\ \A i \in 1..Len(fg) : (fg \o h)[i] = fg[i]
      /\ \A i \in 1..Len(h) : (fg \o h)[Len(fg) + i] = h[i]
  BY <1>3, TwoJoined
<1>5. \A i \in 1..Len(f) : (fg \o h)[i] = f[i]
  <2> SUFFICES ASSUME NEW i \in 1..Len(f) PROVE (fg \o h)[i] = f[i]
    OBVIOUS
  <2>1. i \in 1..Len(fg)
    BY <1>2
  <2> QED
    BY <1>2, <1>4, <2>1
<1>6. \A i \in 1..Len(g) : (fg \o h)[Len(f) + i] = g[i]
  <2> SUFFICES ASSUME NEW i \in 1..Len(g) PROVE (fg \o h)[Len(f) + i] = g[i]
    OBVIOUS
  <2>1. Len(f) + i \in 1..Len(fg)
    BY <1>2
  <2> QED
    BY <1>2, <1>4, <2>1
<1> QED
  BY <1>1, <1>2, <1>4, <1>5, <1>6

LEMMA FiveSteps ==
    ASSUME NEW a, NEW b, NEW c, NEW d, NEW e
    PROVE  LET p == << a, b >> \o << >> \o << c, d, e >> IN
           Len(p) = 5 /\ DOMAIN p = 1..5 /\ p[1] = a /\ p[2] = b /\ p[3] = c /\ p[4] = d /\ p[5] = e
<1> DEFINE S == {a, b, c, d, e}
           f == << a, b >>
           g == << >>
           h == << c, d, e >>
<1>1. f \in Seq(S) /\ g \in Seq(S) /\ h \in Seq(S)
  OBVIOUS
<1>2. Len(f) = 2 /\ Len(g) = 0 /\ Len(h) = 3 /\ f[1] = a /\ f[2] = b /\ h[1] = c /\ h[2] = d /\ h[3] = e
  OBVIOUS
<1> HIDE DEF S, f, g, h
<1>3. /\ DOMAIN (f \o g \o h) = 1..5 /\ Len(f \o g \o h) = 5
      /\ \A i \in 1..2 : (f \o g \o h)[i] = f[i]
      /\ \A i \in 1..3 : (f \o g \o h)[2 + i] = h[i]
  <2>1. /\ DOMAIN (f \o g \o h) = 1..(Len(f) + Len(g) + Len(h))
        /\ Len(f \o g \o h) = Len(f) + Len(g) + Len(h)
        /\ \A i \in 1..Len(f) : (f \o g \o h)[i] = f[i]
        /\ \A i \in 1..Len(g) : (f \o g \o h)[Len(f) + i] = g[i]
        /\ \A i \in 1..Len(h) : (f \o g \o h)[Len(f) + Len(g) + i] = h[i]
    BY <1>1, Joined
  <2> QED
    BY <1>2, <2>1
<1> QED
  BY <1>2, <1>3 DEF f, g, h

LEMMA SevenSteps ==
    ASSUME NEW a, NEW b, NEW c, NEW d, NEW e, NEW x, NEW y
    PROVE  LET p == << a, b >> \o << x, y >> \o << c, d, e >> IN
           /\ Len(p) = 7 /\ DOMAIN p = 1..7 /\ p[1] = a /\ p[2] = b /\ p[3] = x /\ p[4] = y
           /\ p[5] = c /\ p[6] = d /\ p[7] = e
<1> DEFINE S == {a, b, c, d, e, x, y}
           f == << a, b >>
           g == << x, y >>
           h == << c, d, e >>
<1>1. f \in Seq(S) /\ g \in Seq(S) /\ h \in Seq(S)
  OBVIOUS
<1>2. /\ Len(f) = 2 /\ Len(g) = 2 /\ Len(h) = 3 /\ f[1] = a /\ f[2] = b /\ g[1] = x /\ g[2] = y
      /\ h[1] = c /\ h[2] = d /\ h[3] = e
  OBVIOUS
<1> HIDE DEF S, f, g, h
<1>3. /\ DOMAIN (f \o g \o h) = 1..7 /\ Len(f \o g \o h) = 7
      /\ \A i \in 1..2 : (f \o g \o h)[i] = f[i]
      /\ \A i \in 1..2 : (f \o g \o h)[2 + i] = g[i]
      /\ \A i \in 1..3 : (f \o g \o h)[4 + i] = h[i]
  <2>1. /\ DOMAIN (f \o g \o h) = 1..(Len(f) + Len(g) + Len(h))
        /\ Len(f \o g \o h) = Len(f) + Len(g) + Len(h)
        /\ \A i \in 1..Len(f) : (f \o g \o h)[i] = f[i]
        /\ \A i \in 1..Len(g) : (f \o g \o h)[Len(f) + i] = g[i]
        /\ \A i \in 1..Len(h) : (f \o g \o h)[Len(f) + Len(g) + i] = h[i]
    BY <1>1, Joined
  <2> QED
    BY <1>2, <2>1
<1> QED
  BY <1>2, <1>3 DEF f, g, h

LEMMA TenSteps ==
    ASSUME NEW a, NEW b, NEW c, NEW d, NEW e, NEW x, NEW y, NEW z, NEW v, NEW w
    PROVE  LET p == << a, b, c, d, e, x >> \o << y >> \o << z, v, w >> IN
           /\ Len(p) = 10 /\ DOMAIN p = 1..10 /\ p[1] = a /\ p[2] = b /\ p[3] = c /\ p[4] = d
           /\ p[5] = e /\ p[6] = x /\ p[7] = y /\ p[8] = z /\ p[9] = v /\ p[10] = w
<1> DEFINE S == {a, b, c, d, e, x, y, z, v, w}
           f == << a, b, c, d, e, x >>
           g == << y >>
           h == << z, v, w >>
<1>1. f \in Seq(S) /\ g \in Seq(S) /\ h \in Seq(S)
  OBVIOUS
<1>2. /\ Len(f) = 6 /\ Len(g) = 1 /\ Len(h) = 3 /\ f[1] = a /\ f[2] = b /\ f[3] = c /\ f[4] = d
      /\ f[5] = e /\ f[6] = x /\ g[1] = y /\ h[1] = z /\ h[2] = v /\ h[3] = w
  OBVIOUS
<1> HIDE DEF S, f, g, h
<1>3. /\ DOMAIN (f \o g \o h) = 1..10 /\ Len(f \o g \o h) = 10
      /\ \A i \in 1..6 : (f \o g \o h)[i] = f[i]
      /\ (f \o g \o h)[6 + 1] = g[1]
      /\ \A i \in 1..3 : (f \o g \o h)[7 + i] = h[i]
  <2>1. /\ DOMAIN (f \o g \o h) = 1..(Len(f) + Len(g) + Len(h))
        /\ Len(f \o g \o h) = Len(f) + Len(g) + Len(h)
        /\ \A i \in 1..Len(f) : (f \o g \o h)[i] = f[i]
        /\ \A i \in 1..Len(g) : (f \o g \o h)[Len(f) + i] = g[i]
        /\ \A i \in 1..Len(h) : (f \o g \o h)[Len(f) + Len(g) + i] = h[i]
    BY <1>1, Joined
  <2>2. DOMAIN (f \o g \o h) = 1..10 /\ Len(f \o g \o h) = 10
    BY <1>2, <2>1
  <2>3. \A i \in 1..6 : (f \o g \o h)[i] = f[i]
    BY <1>2, <2>1
  <2>4. (f \o g \o h)[6 + 1] = g[1]
    BY <1>2, <2>1
  <2>5. Len(f) + Len(g) = 7 /\ Len(h) = 3
    BY <1>2
  <2>6. \A i \in 1..3 : (f \o g \o h)[7 + i] = h[i]
    BY <2>1, <2>5
  <2> QED
    BY <2>2, <2>3, <2>4, <2>6
<1> QED
  BY <1>2, <1>3 DEF f, g, h

LEMMA DraftSteps ==
    ASSUME NEW text
    PROVE  Runs(BuildPlanFromTemplate("record_draft", text, "").steps) /\ Matches(BuildPlanFromTemplate("record_draft", text, "").steps, "create_record")
<1> DEFINE a == Step("agent", "parse_record_draft.v1", {}, "record.draft")
<1>1. BuildPlanFromTemplate("record_draft", text, "").steps = << a >>
  BY DEF BuildPlanFromTemplate, RecordDraftPlan, Plan
<1>2. /\ a.kind = "agent" /\ a.uses = "parse_record_draft.v1" /\ a.gives = "record.draft"
      /\ a.needs = {}
  BY DEF Step
<1> HIDE DEF a
<1>3. PICK p : p = << a >>
  OBVIOUS
<1>4. /\ Len(p) = 1 /\ DOMAIN p = 1..1
      /\ p[1] = a
  BY <1>3
<1>5. /\ SavesOwn(a) /\ ReadsRight(a)
  <2>1. SavesOwn(a) /\ ReadsRight(a)
    BY <1>2, ParsesDraft DEF Fits
  <2> QED
    BY <2>1
<1>6. \A i \in 1..1 : SavesOwn(p[i]) /\ ReadsRight(p[i])
  BY <1>4, <1>5
<1>7. /\ p[1].gives = "record.draft"
  BY <1>4, <1>2
<1>8. /\ p[1].needs = {}
  BY <1>4, <1>7, <1>2
<1>9. /\ p[1].kind = "agent"
  BY <1>4, <1>2
<1>10. OwnKeys(p, 1)
  BY <1>7 DEF OwnKeys
<1>11. Closed(p, 1)
  <2>1. ASSUME NEW i \in 1..1, NEW k \in p[i].needs PROVE \E j \in 1..(i - 1) : p[j].gives = k
    <3>1. CASE i = 1
      BY <1>8, <2>1, <3>1
    <3> QED
      BY <2>1, <3>1
  <2> QED
    BY <2>1 DEF Closed
<1>12. AsksForNext(p, 1)
  BY <1>9 DEF AsksForNext
<1>13. WasAskedFor(p, 1)
  BY <1>9 DEF WasAskedFor
<1>14. ReadAfterChange(p, 1)
  BY <1>7 DEF ReadAfterChange
<1>15. Matches(p, "create_record")
  BY <1>4, <1>7 DEF Matches
<1>16. RunsTo(p, 1)
  BY <1>4, <1>6, <1>10, <1>11, <1>12, <1>13, <1>14 DEF RunsTo
<1>17. Runs(p)
  BY <1>4, <1>16 DEF Runs
<1> QED
  BY <1>1, <1>3, <1>15, <1>17

LEMMA ReadSteps ==
    ASSUME NEW text
    PROVE  Runs(BuildPlanFromTemplate("read_records", text, "").steps) /\ Matches(BuildPlanFromTemplate("read_records", text, "").steps, "create_record")
<1> DEFINE a == Step("tool", READ_TOOL, {}, "feishu.records")
<1>1. BuildPlanFromTemplate("read_records", text, "").steps = << a >>
  BY DEF BuildPlanFromTemplate, ReadPlan, Plan
<1>2. /\ a.kind = "tool" /\ a.uses = READ_TOOL /\ a.gives = "feishu.records"
      /\ a.needs = {}
  BY DEF Step
<1> HIDE DEF a
<1>3. PICK p : p = << a >>
  OBVIOUS
<1>4. /\ Len(p) = 1 /\ DOMAIN p = 1..1
      /\ p[1] = a
  BY <1>3
<1>5. /\ SavesOwn(a) /\ ReadsRight(a)
  <2>1. SavesOwn(a) /\ ReadsRight(a)
    BY <1>2, ReadsRecords DEF Fits
  <2> QED
    BY <2>1
<1>6. \A i \in 1..1 : SavesOwn(p[i]) /\ ReadsRight(p[i])
  BY <1>4, <1>5
<1>7. /\ p[1].gives = "feishu.records"
  BY <1>4, <1>2
<1>8. /\ p[1].needs = {}
  BY <1>4, <1>7, <1>2
<1>9. /\ p[1].kind = "tool" /\ p[1].uses \notin WRITE_TOOLS
  BY <1>4, <1>2, Names7
<1>10. OwnKeys(p, 1)
  BY <1>7 DEF OwnKeys
<1>11. Closed(p, 1)
  <2>1. ASSUME NEW i \in 1..1, NEW k \in p[i].needs PROVE \E j \in 1..(i - 1) : p[j].gives = k
    <3>1. CASE i = 1
      BY <1>8, <2>1, <3>1
    <3> QED
      BY <2>1, <3>1
  <2> QED
    BY <2>1 DEF Closed
<1>12. AsksForNext(p, 1)
  BY <1>9 DEF AsksForNext
<1>13. WasAskedFor(p, 1)
  BY <1>9 DEF WasAskedFor
<1>14. ReadAfterChange(p, 1)
  BY <1>7 DEF ReadAfterChange
<1>15. Matches(p, "create_record")
  BY <1>4, <1>7 DEF Matches
<1>16. RunsTo(p, 1)
  BY <1>4, <1>6, <1>10, <1>11, <1>12, <1>13, <1>14 DEF RunsTo
<1>17. Runs(p)
  BY <1>4, <1>16 DEF Runs
<1> QED
  BY <1>1, <1>3, <1>15, <1>17

LEMMA CreateSteps ==
    ASSUME NEW text
    PROVE  Runs(BuildPlanFromTemplate("create_record", text, "").steps) /\ Matches(BuildPlanFromTemplate("create_record", text, "").steps, "create_record")
<1> DEFINE a == ReadSchemaStep("feishu.table_schema")
           b == ParseRecordPayloadStep("feishu.create_payload", {"feishu.table_schema"})
           c == Step("validation", "", {"feishu.table_schema", "feishu.create_payload"}, "validation.write_payload")
           d == ConfirmStep({"validation.write_payload"}, "confirmation.write")
           e == Step("tool", CREATE_TOOL, {"validation.write_payload"}, "write_result")
<1>1. BuildPlanFromTemplate("create_record", text, "").steps = << a, b >> \o << >> \o << c, d, e >>
  BY Names7 DEF BuildPlanFromTemplate, WritePlan, Plan, RecordWriteTail, CREATE_TOOL, UPDATE_TOOL, DELETE_TOOL
<1>2. /\ a.kind = "tool" /\ a.uses = READ_SCHEMA_TOOL /\ a.gives = "feishu.table_schema"
      /\ a.needs = {}
  BY DEF ReadSchemaStep, Step
<1>3. /\ b.kind = "agent" /\ b.uses = "parse_feishu_record.v1" /\ b.gives = "feishu.create_payload"
      /\ b.needs = {"feishu.table_schema"}
  BY DEF ParseRecordPayloadStep, Step
<1>4. /\ c.kind = "validation" /\ c.uses = "" /\ c.gives = "validation.write_payload"
      /\ c.needs = {"feishu.table_schema", "feishu.create_payload"}
  BY DEF Step
<1>5. /\ d.kind = "confirm" /\ d.uses = "" /\ d.gives = "confirmation.write"
      /\ d.needs = {"validation.write_payload"}
  BY DEF ConfirmStep, Step
<1>6. /\ e.kind = "tool" /\ e.uses = CREATE_TOOL /\ e.gives = "write_result"
      /\ e.needs = {"validation.write_payload"}
  BY DEF Step
<1> HIDE DEF a, b, c, d, e
<1>7. PICK p : p = << a, b >> \o << >> \o << c, d, e >>
  OBVIOUS
<1>8. /\ Len(p) = 5 /\ DOMAIN p = 1..5
      /\ p[1] = a /\ p[2] = b /\ p[3] = c /\ p[4] = d /\ p[5] = e
  BY <1>7, FiveSteps
<1>9. /\ SavesOwn(a) /\ ReadsRight(a)
      /\ SavesOwn(b) /\ ReadsRight(b)
      /\ SavesOwn(c) /\ ReadsRight(c)
      /\ SavesOwn(d) /\ ReadsRight(d)
      /\ SavesOwn(e) /\ ReadsRight(e)
  <2>1. SavesOwn(a) /\ ReadsRight(a)
    BY <1>2, ReadsSchema DEF Fits, SchemaKeys
  <2>2. SavesOwn(b) /\ ReadsRight(b)
    BY <1>3, ParsesRecord DEF Fits, PayloadKeys, SchemaKeys
  <2>3. SavesOwn(c) /\ ReadsRight(c)
    BY <1>4, ValidatesRecord DEF Fits, PayloadKeys
  <2>4. SavesOwn(d) /\ ReadsRight(d)
    BY <1>5, AsksFirst DEF Fits, Confirmations
  <2>5. SavesOwn(e) /\ ReadsRight(e)
    BY <1>6, WritesRecord DEF Fits
  <2> QED
    BY <2>1, <2>2, <2>3, <2>4, <2>5
<1>10. \A i \in 1..5 : SavesOwn(p[i]) /\ ReadsRight(p[i])
  BY <1>8, <1>9
<1>11. /\ p[1].gives = "feishu.table_schema"
      /\ p[2].gives = "feishu.create_payload"
      /\ p[3].gives = "validation.write_payload"
      /\ p[4].gives = "confirmation.write"
      /\ p[5].gives = "write_result"
  BY <1>8, <1>2, <1>3, <1>4, <1>5, <1>6
<1>12. /\ p[1].needs = {}
      /\ p[2].needs = {p[1].gives}
      /\ p[3].needs = {p[1].gives, p[2].gives}
      /\ p[4].needs = {p[3].gives}
      /\ p[5].needs = {p[3].gives}
  BY <1>8, <1>11, <1>2, <1>3, <1>4, <1>5, <1>6
<1>13. /\ p[1].kind = "tool" /\ p[1].uses \notin WRITE_TOOLS
      /\ p[2].kind = "agent"
      /\ p[3].kind = "validation"
      /\ p[4].kind = "confirm"
      /\ p[5].kind = "tool" /\ p[5].uses \in WRITE_TOOLS
  <2>1. p[1].kind = "tool" /\ p[1].uses \notin WRITE_TOOLS
    BY <1>8, <1>2, Names7
  <2>2. p[2].kind = "agent"
    BY <1>8, <1>3
  <2>3. p[3].kind = "validation"
    BY <1>8, <1>4
  <2>4. p[4].kind = "confirm"
    BY <1>8, <1>5
  <2>5. p[5].kind = "tool" /\ p[5].uses \in WRITE_TOOLS
    BY <1>8, <1>6, Names7
  <2> QED
    BY <2>1, <2>2, <2>3, <2>4, <2>5
<1>14. OwnKeys(p, 5)
  BY <1>11 DEF OwnKeys
<1>15. Closed(p, 5)
  <2>1. ASSUME NEW i \in 1..5, NEW k \in p[i].needs PROVE \E j \in 1..(i - 1) : p[j].gives = k
    <3>1. CASE i = 1
      BY <1>12, <2>1, <3>1
    <3>2. CASE i = 2
      BY <1>12, <2>1, <3>2
    <3>3. CASE i = 3
      BY <1>12, <2>1, <3>3
    <3>4. CASE i = 4
      BY <1>12, <2>1, <3>4
    <3>5. CASE i = 5
      BY <1>12, <2>1, <3>5
    <3> QED
      BY <2>1, <3>1, <3>2, <3>3, <3>4, <3>5
  <2> QED
    BY <2>1 DEF Closed
<1>16. AsksForNext(p, 5)
  <2>1. \A i \in 1..5 : p[i].kind = "confirm" => i \in {4}
    BY <1>13
  <2>2. 5 \in 1..5 /\ p[5].kind = "tool" /\ p[5].uses \in WRITE_TOOLS /\ p[4].needs = p[5].needs
    BY <1>12, <1>13
  <2>3. 4 + 1 = 5
    OBVIOUS
  <2> QED
    BY <2>1, <2>2, <2>3 DEF AsksForNext
<1>17. WasAskedFor(p, 5)
  <2>1. \A i \in 1..5 : p[i].kind = "tool" /\ p[i].uses \in WRITE_TOOLS => i \in {5}
    BY <1>13
  <2> QED
    BY <2>1, <1>13 DEF WasAskedFor
<1>18. ReadAfterChange(p, 5)
  BY <1>11 DEF ReadAfterChange
<1>19. Matches(p, "create_record")
  <2>1. \A i \in 1..5 : p[i].gives = "validation.write_payload" => i = 3
    BY <1>11
  <2>2. p[3].needs = {"feishu.table_schema", "feishu.create_payload"}
    BY <1>8, <1>4
  <2>3. "feishu.record_match" \notin {"feishu.table_schema", "feishu.create_payload"}
    OBVIOUS
  <2> QED
    BY <1>8, <2>1, <2>2, <2>3 DEF Matches
<1>20. RunsTo(p, 5)
  BY <1>8, <1>10, <1>14, <1>15, <1>16, <1>17, <1>18 DEF RunsTo
<1>21. Runs(p)
  BY <1>8, <1>20 DEF Runs
<1> QED
  BY <1>1, <1>7, <1>19, <1>21

LEMMA UpdateSteps ==
    ASSUME NEW text
    PROVE  Runs(BuildPlanFromTemplate("update_record", text, "").steps) /\ Matches(BuildPlanFromTemplate("update_record", text, "").steps, "update_record")
<1> DEFINE a == ReadSchemaStep("feishu.table_schema")
           b == ParseRecordPayloadStep("feishu.update_payload", {"feishu.table_schema"})
           c == ReadCandidateRecordsStep("feishu.update_payload")
           d == MatchRecordStep("feishu.update_payload")
           e == Step("validation", "", {"feishu.table_schema", "feishu.update_payload", "feishu.record_match"}, "validation.write_payload")
           f == ConfirmStep({"validation.write_payload"}, "confirmation.write")
           g == Step("tool", UPDATE_TOOL, {"validation.write_payload"}, "write_result")
<1>1. BuildPlanFromTemplate("update_record", text, "").steps = << a, b >> \o << c, d >> \o << e, f, g >>
  BY Names7 DEF BuildPlanFromTemplate, WritePlan, Plan, RecordWriteTail, CREATE_TOOL, UPDATE_TOOL, DELETE_TOOL
<1>2. /\ a.kind = "tool" /\ a.uses = READ_SCHEMA_TOOL /\ a.gives = "feishu.table_schema"
      /\ a.needs = {}
  BY DEF ReadSchemaStep, Step
<1>3. /\ b.kind = "agent" /\ b.uses = "parse_feishu_record.v1" /\ b.gives = "feishu.update_payload"
      /\ b.needs = {"feishu.table_schema"}
  BY DEF ParseRecordPayloadStep, Step
<1>4. /\ c.kind = "tool" /\ c.uses = READ_TOOL /\ c.gives = "feishu.candidate_records"
      /\ c.needs = {"feishu.update_payload"}
  BY DEF ReadCandidateRecordsStep, Step
<1>5. /\ d.kind = "agent" /\ d.uses = "search_feishu_record.v1" /\ d.gives = "feishu.record_match"
      /\ d.needs = {"feishu.update_payload", "feishu.candidate_records"}
  BY DEF MatchRecordStep, Step
<1>6. /\ e.kind = "validation" /\ e.uses = "" /\ e.gives = "validation.write_payload"
      /\ e.needs = {"feishu.table_schema", "feishu.update_payload", "feishu.record_match"}
  BY DEF Step
<1>7. /\ f.kind = "confirm" /\ f.uses = "" /\ f.gives = "confirmation.write"
      /\ f.needs = {"validation.write_payload"}
  BY DEF ConfirmStep, Step
<1>8. /\ g.kind = "tool" /\ g.uses = UPDATE_TOOL /\ g.gives = "write_result"
      /\ g.needs = {"validation.write_payload"}
  BY DEF Step
<1> HIDE DEF a, b, c, d, e, f, g
<1>9. PICK p : p = << a, b >> \o << c, d >> \o << e, f, g >>
  OBVIOUS
<1>10. /\ Len(p) = 7 /\ DOMAIN p = 1..7
      /\ p[1] = a /\ p[2] = b /\ p[3] = c /\ p[4] = d /\ p[5] = e /\ p[6] = f /\ p[7] = g
  BY <1>9, SevenSteps
<1>11. /\ SavesOwn(a) /\ ReadsRight(a)
      /\ SavesOwn(b) /\ ReadsRight(b)
      /\ SavesOwn(c) /\ ReadsRight(c)
      /\ SavesOwn(d) /\ ReadsRight(d)
      /\ SavesOwn(e) /\ ReadsRight(e)
      /\ SavesOwn(f) /\ ReadsRight(f)
      /\ SavesOwn(g) /\ ReadsRight(g)
  <2>1. SavesOwn(a) /\ ReadsRight(a)
    BY <1>2, ReadsSchema DEF Fits, SchemaKeys
  <2>2. SavesOwn(b) /\ ReadsRight(b)
    BY <1>3, ParsesRecord DEF Fits, PayloadKeys, SchemaKeys
  <2>3. SavesOwn(c) /\ ReadsRight(c)
    BY <1>4, ReadsRecords DEF Fits
  <2>4. SavesOwn(d) /\ ReadsRight(d)
    BY <1>5, MatchesRecord DEF Fits
  <2>5. SavesOwn(e) /\ ReadsRight(e)
    BY <1>6, ValidatesRecord DEF Fits, PayloadKeys
  <2>6. SavesOwn(f) /\ ReadsRight(f)
    BY <1>7, AsksFirst DEF Fits, Confirmations
  <2>7. SavesOwn(g) /\ ReadsRight(g)
    BY <1>8, WritesRecord DEF Fits
  <2> QED
    BY <2>1, <2>2, <2>3, <2>4, <2>5, <2>6, <2>7
<1>12. \A i \in 1..7 : SavesOwn(p[i]) /\ ReadsRight(p[i])
  BY <1>10, <1>11
<1>13. /\ p[1].gives = "feishu.table_schema"
      /\ p[2].gives = "feishu.update_payload"
      /\ p[3].gives = "feishu.candidate_records"
      /\ p[4].gives = "feishu.record_match"
      /\ p[5].gives = "validation.write_payload"
      /\ p[6].gives = "confirmation.write"
      /\ p[7].gives = "write_result"
  BY <1>10, <1>2, <1>3, <1>4, <1>5, <1>6, <1>7, <1>8
<1>14. /\ p[1].needs = {}
      /\ p[2].needs = {p[1].gives}
      /\ p[3].needs = {p[2].gives}
      /\ p[4].needs = {p[2].gives, p[3].gives}
      /\ p[5].needs = {p[1].gives, p[2].gives, p[4].gives}
      /\ p[6].needs = {p[5].gives}
      /\ p[7].needs = {p[5].gives}
  BY <1>10, <1>13, <1>2, <1>3, <1>4, <1>5, <1>6, <1>7, <1>8
<1>15. /\ p[1].kind = "tool" /\ p[1].uses \notin WRITE_TOOLS
      /\ p[2].kind = "agent"
      /\ p[3].kind = "tool" /\ p[3].uses \notin WRITE_TOOLS
      /\ p[4].kind = "agent"
      /\ p[5].kind = "validation"
      /\ p[6].kind = "confirm"
      /\ p[7].kind = "tool" /\ p[7].uses \in WRITE_TOOLS
  <2>1. p[1].kind = "tool" /\ p[1].uses \notin WRITE_TOOLS
    BY <1>10, <1>2, Names7
  <2>2. p[2].kind = "agent"
    BY <1>10, <1>3
  <2>3. p[3].kind = "tool" /\ p[3].uses \notin WRITE_TOOLS
    BY <1>10, <1>4, Names7
  <2>4. p[4].kind = "agent"
    BY <1>10, <1>5
  <2>5. p[5].kind = "validation"
    BY <1>10, <1>6
  <2>6. p[6].kind = "confirm"
    BY <1>10, <1>7
  <2>7. p[7].kind = "tool" /\ p[7].uses \in WRITE_TOOLS
    BY <1>10, <1>8, Names7
  <2> QED
    BY <2>1, <2>2, <2>3, <2>4, <2>5, <2>6, <2>7
<1>16. OwnKeys(p, 7)
  BY <1>13 DEF OwnKeys
<1>17. Closed(p, 7)
  <2>1. ASSUME NEW i \in 1..7, NEW k \in p[i].needs PROVE \E j \in 1..(i - 1) : p[j].gives = k
    <3>1. CASE i = 1
      BY <1>14, <2>1, <3>1
    <3>2. CASE i = 2
      BY <1>14, <2>1, <3>2
    <3>3. CASE i = 3
      BY <1>14, <2>1, <3>3
    <3>4. CASE i = 4
      BY <1>14, <2>1, <3>4
    <3>5. CASE i = 5
      BY <1>14, <2>1, <3>5
    <3>6. CASE i = 6
      BY <1>14, <2>1, <3>6
    <3>7. CASE i = 7
      BY <1>14, <2>1, <3>7
    <3> QED
      BY <2>1, <3>1, <3>2, <3>3, <3>4, <3>5, <3>6, <3>7
  <2> QED
    BY <2>1 DEF Closed
<1>18. AsksForNext(p, 7)
  <2>1. \A i \in 1..7 : p[i].kind = "confirm" => i \in {6}
    BY <1>15
  <2>2. 7 \in 1..7 /\ p[7].kind = "tool" /\ p[7].uses \in WRITE_TOOLS /\ p[6].needs = p[7].needs
    BY <1>14, <1>15
  <2>3. 6 + 1 = 7
    OBVIOUS
  <2> QED
    BY <2>1, <2>2, <2>3 DEF AsksForNext
<1>19. WasAskedFor(p, 7)
  <2>1. \A i \in 1..7 : p[i].kind = "tool" /\ p[i].uses \in WRITE_TOOLS => i \in {7}
    BY <1>15
  <2> QED
    BY <2>1, <1>15 DEF WasAskedFor
<1>20. ReadAfterChange(p, 7)
  BY <1>13 DEF ReadAfterChange
<1>21. Matches(p, "update_record")
  <2>1. \A i \in 1..7 : p[i].gives = "validation.write_payload" => i = 5
    BY <1>13
  <2>2. p[5].needs = {"feishu.table_schema", "feishu.update_payload", "feishu.record_match"}
    BY <1>10, <1>6
  <2>3. "feishu.record_match" \in {"feishu.table_schema", "feishu.update_payload", "feishu.record_match"}
    OBVIOUS
  <2> QED
    BY <1>10, <2>1, <2>2, <2>3 DEF Matches
<1>22. RunsTo(p, 7)
  BY <1>10, <1>12, <1>16, <1>17, <1>18, <1>19, <1>20 DEF RunsTo
<1>23. Runs(p)
  BY <1>10, <1>22 DEF Runs
<1> QED
  BY <1>1, <1>9, <1>21, <1>23

LEMMA DeleteSteps ==
    ASSUME NEW text
    PROVE  Runs(BuildPlanFromTemplate("delete_record", text, "").steps) /\ Matches(BuildPlanFromTemplate("delete_record", text, "").steps, "delete_record")
<1> DEFINE a == ReadSchemaStep("feishu.table_schema")
           b == ParseRecordPayloadStep("feishu.delete_payload", {"feishu.table_schema"})
           c == ReadCandidateRecordsStep("feishu.delete_payload")
           d == MatchRecordStep("feishu.delete_payload")
           e == Step("validation", "", {"feishu.table_schema", "feishu.delete_payload", "feishu.record_match"}, "validation.write_payload")
           f == ConfirmStep({"validation.write_payload"}, "confirmation.write")
           g == Step("tool", DELETE_TOOL, {"validation.write_payload"}, "write_result")
<1>1. BuildPlanFromTemplate("delete_record", text, "").steps = << a, b >> \o << c, d >> \o << e, f, g >>
  BY Names7 DEF BuildPlanFromTemplate, WritePlan, Plan, RecordWriteTail, CREATE_TOOL, UPDATE_TOOL, DELETE_TOOL
<1>2. /\ a.kind = "tool" /\ a.uses = READ_SCHEMA_TOOL /\ a.gives = "feishu.table_schema"
      /\ a.needs = {}
  BY DEF ReadSchemaStep, Step
<1>3. /\ b.kind = "agent" /\ b.uses = "parse_feishu_record.v1" /\ b.gives = "feishu.delete_payload"
      /\ b.needs = {"feishu.table_schema"}
  BY DEF ParseRecordPayloadStep, Step
<1>4. /\ c.kind = "tool" /\ c.uses = READ_TOOL /\ c.gives = "feishu.candidate_records"
      /\ c.needs = {"feishu.delete_payload"}
  BY DEF ReadCandidateRecordsStep, Step
<1>5. /\ d.kind = "agent" /\ d.uses = "search_feishu_record.v1" /\ d.gives = "feishu.record_match"
      /\ d.needs = {"feishu.delete_payload", "feishu.candidate_records"}
  BY DEF MatchRecordStep, Step
<1>6. /\ e.kind = "validation" /\ e.uses = "" /\ e.gives = "validation.write_payload"
      /\ e.needs = {"feishu.table_schema", "feishu.delete_payload", "feishu.record_match"}
  BY DEF Step
<1>7. /\ f.kind = "confirm" /\ f.uses = "" /\ f.gives = "confirmation.write"
      /\ f.needs = {"validation.write_payload"}
  BY DEF ConfirmStep, Step
<1>8. /\ g.kind = "tool" /\ g.uses = DELETE_TOOL /\ g.gives = "write_result"
      /\ g.needs = {"validation.write_payload"}
  BY DEF Step
<1> HIDE DEF a, b, c, d, e, f, g
<1>9. PICK p : p = << a, b >> \o << c, d >> \o << e, f, g >>
  OBVIOUS
<1>10. /\ Len(p) = 7 /\ DOMAIN p = 1..7
      /\ p[1] = a /\ p[2] = b /\ p[3] = c /\ p[4] = d /\ p[5] = e /\ p[6] = f /\ p[7] = g
  BY <1>9, SevenSteps
<1>11. /\ SavesOwn(a) /\ ReadsRight(a)
      /\ SavesOwn(b) /\ ReadsRight(b)
      /\ SavesOwn(c) /\ ReadsRight(c)
      /\ SavesOwn(d) /\ ReadsRight(d)
      /\ SavesOwn(e) /\ ReadsRight(e)
      /\ SavesOwn(f) /\ ReadsRight(f)
      /\ SavesOwn(g) /\ ReadsRight(g)
  <2>1. SavesOwn(a) /\ ReadsRight(a)
    BY <1>2, ReadsSchema DEF Fits, SchemaKeys
  <2>2. SavesOwn(b) /\ ReadsRight(b)
    BY <1>3, ParsesRecord DEF Fits, PayloadKeys, SchemaKeys
  <2>3. SavesOwn(c) /\ ReadsRight(c)
    BY <1>4, ReadsRecords DEF Fits
  <2>4. SavesOwn(d) /\ ReadsRight(d)
    BY <1>5, MatchesRecord DEF Fits
  <2>5. SavesOwn(e) /\ ReadsRight(e)
    BY <1>6, ValidatesRecord DEF Fits, PayloadKeys
  <2>6. SavesOwn(f) /\ ReadsRight(f)
    BY <1>7, AsksFirst DEF Fits, Confirmations
  <2>7. SavesOwn(g) /\ ReadsRight(g)
    BY <1>8, WritesRecord DEF Fits
  <2> QED
    BY <2>1, <2>2, <2>3, <2>4, <2>5, <2>6, <2>7
<1>12. \A i \in 1..7 : SavesOwn(p[i]) /\ ReadsRight(p[i])
  BY <1>10, <1>11
<1>13. /\ p[1].gives = "feishu.table_schema"
      /\ p[2].gives = "feishu.delete_payload"
      /\ p[3].gives = "feishu.candidate_records"
      /\ p[4].gives = "feishu.record_match"
      /\ p[5].gives = "validation.write_payload"
      /\ p[6].gives = "confirmation.write"
      /\ p[7].gives = "write_result"
  BY <1>10, <1>2, <1>3, <1>4, <1>5, <1>6, <1>7, <1>8
<1>14. /\ p[1].needs = {}
      /\ p[2].needs = {p[1].gives}
      /\ p[3].needs = {p[2].gives}
      /\ p[4].needs = {p[2].gives, p[3].gives}
      /\ p[5].needs = {p[1].gives, p[2].gives, p[4].gives}
      /\ p[6].needs = {p[5].gives}
      /\ p[7].needs = {p[5].gives}
  BY <1>10, <1>13, <1>2, <1>3, <1>4, <1>5, <1>6, <1>7, <1>8
<1>15. /\ p[1].kind = "tool" /\ p[1].uses \notin WRITE_TOOLS
      /\ p[2].kind = "agent"
      /\ p[3].kind = "tool" /\ p[3].uses \notin WRITE_TOOLS
      /\ p[4].kind = "agent"
      /\ p[5].kind = "validation"
      /\ p[6].kind = "confirm"
      /\ p[7].kind = "tool" /\ p[7].uses \in WRITE_TOOLS
  <2>1. p[1].kind = "tool" /\ p[1].uses \notin WRITE_TOOLS
    BY <1>10, <1>2, Names7
  <2>2. p[2].kind = "agent"
    BY <1>10, <1>3
  <2>3. p[3].kind = "tool" /\ p[3].uses \notin WRITE_TOOLS
    BY <1>10, <1>4, Names7
  <2>4. p[4].kind = "agent"
    BY <1>10, <1>5
  <2>5. p[5].kind = "validation"
    BY <1>10, <1>6
  <2>6. p[6].kind = "confirm"
    BY <1>10, <1>7
  <2>7. p[7].kind = "tool" /\ p[7].uses \in WRITE_TOOLS
    BY <1>10, <1>8, Names7
  <2> QED
    BY <2>1, <2>2, <2>3, <2>4, <2>5, <2>6, <2>7
<1>16. OwnKeys(p, 7)
  BY <1>13 DEF OwnKeys
<1>17. Closed(p, 7)
  <2>1. ASSUME NEW i \in 1..7, NEW k \in p[i].needs PROVE \E j \in 1..(i - 1) : p[j].gives = k
    <3>1. CASE i = 1
      BY <1>14, <2>1, <3>1
    <3>2. CASE i = 2
      BY <1>14, <2>1, <3>2
    <3>3. CASE i = 3
      BY <1>14, <2>1, <3>3
    <3>4. CASE i = 4
      BY <1>14, <2>1, <3>4
    <3>5. CASE i = 5
      BY <1>14, <2>1, <3>5
    <3>6. CASE i = 6
      BY <1>14, <2>1, <3>6
    <3>7. CASE i = 7
      BY <1>14, <2>1, <3>7
    <3> QED
      BY <2>1, <3>1, <3>2, <3>3, <3>4, <3>5, <3>6, <3>7
  <2> QED
    BY <2>1 DEF Closed
<1>18. AsksForNext(p, 7)
  <2>1. \A i \in 1..7 : p[i].kind = "confirm" => i \in {6}
    BY <1>15
  <2>2. 7 \in 1..7 /\ p[7].kind = "tool" /\ p[7].uses \in WRITE_TOOLS /\ p[6].needs = p[7].needs
    BY <1>14, <1>15
  <2>3. 6 + 1 = 7
    OBVIOUS
  <2> QED
    BY <2>1, <2>2, <2>3 DEF AsksForNext
<1>19. WasAskedFor(p, 7)
  <2>1. \A i \in 1..7 : p[i].kind = "tool" /\ p[i].uses \in WRITE_TOOLS => i \in {7}
    BY <1>15
  <2> QED
    BY <2>1, <1>15 DEF WasAskedFor
<1>20. ReadAfterChange(p, 7)
  BY <1>13 DEF ReadAfterChange
<1>21. Matches(p, "delete_record")
  <2>1. \A i \in 1..7 : p[i].gives = "validation.write_payload" => i = 5
    BY <1>13
  <2>2. p[5].needs = {"feishu.table_schema", "feishu.delete_payload", "feishu.record_match"}
    BY <1>10, <1>6
  <2>3. "feishu.record_match" \in {"feishu.table_schema", "feishu.delete_payload", "feishu.record_match"}
    OBVIOUS
  <2> QED
    BY <1>10, <2>1, <2>2, <2>3 DEF Matches
<1>22. RunsTo(p, 7)
  BY <1>10, <1>12, <1>16, <1>17, <1>18, <1>19, <1>20 DEF RunsTo
<1>23. Runs(p)
  BY <1>10, <1>22 DEF Runs
<1> QED
  BY <1>1, <1>9, <1>21, <1>23

LEMMA ChangeSteps ==
    ASSUME NEW text
    PROVE  Runs(BuildPlanFromTemplate("change_schema", text, "").steps) /\ Matches(BuildPlanFromTemplate("change_schema", text, "").steps, "create_record")
<1> DEFINE a == ReadSchemaStep("feishu.table_schema")
           b == ParseSchemaChangeStep
           c == SchemaChangeValidationStep
           d == ConfirmStep({"validation.schema_change_payload"}, "confirmation.schema_change")
           e == ChangeFieldsStep
           f == ReadSchemaStep("feishu.table_schema_after")
<1>1. BuildPlanFromTemplate("change_schema", text, "").steps = << a, b, c, d, e, f >>
  BY DEF BuildPlanFromTemplate, SchemaChangePlan, Plan
<1>2. /\ a.kind = "tool" /\ a.uses = READ_SCHEMA_TOOL /\ a.gives = "feishu.table_schema"
      /\ a.needs = {}
  BY DEF ReadSchemaStep, Step
<1>3. /\ b.kind = "agent" /\ b.uses = "parse_feishu_schema_change.v1" /\ b.gives = "feishu.schema_change_payload"
      /\ b.needs = {"feishu.table_schema"}
  BY DEF ParseSchemaChangeStep, Step
<1>4. /\ c.kind = "validation" /\ c.uses = "" /\ c.gives = "validation.schema_change_payload"
      /\ c.needs = {"feishu.table_schema", "feishu.schema_change_payload"}
  BY DEF SchemaChangeValidationStep, Step
<1>5. /\ d.kind = "confirm" /\ d.uses = "" /\ d.gives = "confirmation.schema_change"
      /\ d.needs = {"validation.schema_change_payload"}
  BY DEF ConfirmStep, Step
<1>6. /\ e.kind = "tool" /\ e.uses = CHANGE_SCHEMA_TOOL /\ e.gives = "feishu.schema_change_result"
      /\ e.needs = {"validation.schema_change_payload"}
  BY DEF ChangeFieldsStep, Step
<1>7. /\ f.kind = "tool" /\ f.uses = READ_SCHEMA_TOOL /\ f.gives = "feishu.table_schema_after"
      /\ f.needs = {}
  BY DEF ReadSchemaStep, Step
<1> HIDE DEF a, b, c, d, e, f
<1>8. PICK p : p = << a, b, c, d, e, f >>
  OBVIOUS
<1>9. /\ Len(p) = 6 /\ DOMAIN p = 1..6
      /\ p[1] = a /\ p[2] = b /\ p[3] = c /\ p[4] = d /\ p[5] = e /\ p[6] = f
  BY <1>8
<1>10. /\ SavesOwn(a) /\ ReadsRight(a)
      /\ SavesOwn(b) /\ ReadsRight(b)
      /\ SavesOwn(c) /\ ReadsRight(c)
      /\ SavesOwn(d) /\ ReadsRight(d)
      /\ SavesOwn(e) /\ ReadsRight(e)
      /\ SavesOwn(f) /\ ReadsRight(f)
  <2>1. SavesOwn(a) /\ ReadsRight(a)
    BY <1>2, ReadsSchema DEF Fits, SchemaKeys
  <2>2. SavesOwn(b) /\ ReadsRight(b)
    BY <1>3, ParsesChange DEF Fits, SchemaKeys
  <2>3. SavesOwn(c) /\ ReadsRight(c)
    BY <1>4, ValidatesChange DEF Fits, PayloadKeys
  <2>4. SavesOwn(d) /\ ReadsRight(d)
    BY <1>5, AsksFirst DEF Fits, Confirmations
  <2>5. SavesOwn(e) /\ ReadsRight(e)
    BY <1>6, ChangesFields DEF Fits
  <2>6. SavesOwn(f) /\ ReadsRight(f)
    BY <1>7, ReadsSchema DEF Fits, SchemaKeys
  <2> QED
    BY <2>1, <2>2, <2>3, <2>4, <2>5, <2>6
<1>11. \A i \in 1..6 : SavesOwn(p[i]) /\ ReadsRight(p[i])
  BY <1>9, <1>10
<1>12. /\ p[1].gives = "feishu.table_schema"
      /\ p[2].gives = "feishu.schema_change_payload"
      /\ p[3].gives = "validation.schema_change_payload"
      /\ p[4].gives = "confirmation.schema_change"
      /\ p[5].gives = "feishu.schema_change_result"
      /\ p[6].gives = "feishu.table_schema_after"
  BY <1>9, <1>2, <1>3, <1>4, <1>5, <1>6, <1>7
<1>13. /\ p[1].needs = {}
      /\ p[2].needs = {p[1].gives}
      /\ p[3].needs = {p[1].gives, p[2].gives}
      /\ p[4].needs = {p[3].gives}
      /\ p[5].needs = {p[3].gives}
      /\ p[6].needs = {}
  BY <1>9, <1>12, <1>2, <1>3, <1>4, <1>5, <1>6, <1>7
<1>14. /\ p[1].kind = "tool" /\ p[1].uses \notin WRITE_TOOLS
      /\ p[2].kind = "agent"
      /\ p[3].kind = "validation"
      /\ p[4].kind = "confirm"
      /\ p[5].kind = "tool" /\ p[5].uses \in WRITE_TOOLS
      /\ p[6].kind = "tool" /\ p[6].uses \notin WRITE_TOOLS
  <2>1. p[1].kind = "tool" /\ p[1].uses \notin WRITE_TOOLS
    BY <1>9, <1>2, Names7
  <2>2. p[2].kind = "agent"
    BY <1>9, <1>3
  <2>3. p[3].kind = "validation"
    BY <1>9, <1>4
  <2>4. p[4].kind = "confirm"
    BY <1>9, <1>5
  <2>5. p[5].kind = "tool" /\ p[5].uses \in WRITE_TOOLS
    BY <1>9, <1>6, Names7
  <2>6. p[6].kind = "tool" /\ p[6].uses \notin WRITE_TOOLS
    BY <1>9, <1>7, Names7
  <2> QED
    BY <2>1, <2>2, <2>3, <2>4, <2>5, <2>6
<1>15. OwnKeys(p, 6)
  BY <1>12 DEF OwnKeys
<1>16. Closed(p, 6)
  <2>1. ASSUME NEW i \in 1..6, NEW k \in p[i].needs PROVE \E j \in 1..(i - 1) : p[j].gives = k
    <3>1. CASE i = 1
      BY <1>13, <2>1, <3>1
    <3>2. CASE i = 2
      BY <1>13, <2>1, <3>2
    <3>3. CASE i = 3
      BY <1>13, <2>1, <3>3
    <3>4. CASE i = 4
      BY <1>13, <2>1, <3>4
    <3>5. CASE i = 5
      BY <1>13, <2>1, <3>5
    <3>6. CASE i = 6
      BY <1>13, <2>1, <3>6
    <3> QED
      BY <2>1, <3>1, <3>2, <3>3, <3>4, <3>5, <3>6
  <2> QED
    BY <2>1 DEF Closed
<1>17. AsksForNext(p, 6)
  <2>1. \A i \in 1..6 : p[i].kind = "confirm" => i \in {4}
    BY <1>14
  <2>2. 5 \in 1..6 /\ p[5].kind = "tool" /\ p[5].uses \in WRITE_TOOLS /\ p[4].needs = p[5].needs
    BY <1>13, <1>14
  <2>3. 4 + 1 = 5
    OBVIOUS
  <2> QED
    BY <2>1, <2>2, <2>3 DEF AsksForNext
<1>18. WasAskedFor(p, 6)
  <2>1. \A i \in 1..6 : p[i].kind = "tool" /\ p[i].uses \in WRITE_TOOLS => i \in {5}
    BY <1>14
  <2> QED
    BY <2>1, <1>14 DEF WasAskedFor
<1>19. ReadAfterChange(p, 6)
  BY <1>12 DEF ReadAfterChange
<1>20. Matches(p, "create_record")
  BY <1>9, <1>12 DEF Matches
<1>21. RunsTo(p, 6)
  BY <1>9, <1>11, <1>15, <1>16, <1>17, <1>18, <1>19 DEF RunsTo
<1>22. Runs(p)
  BY <1>9, <1>21 DEF Runs
<1> QED
  BY <1>1, <1>8, <1>20, <1>22

LEMMA ChangeAndCreateSteps ==
    ASSUME NEW text
    PROVE  Runs(BuildPlanFromTemplate("change_schema_then_create_record", text, "").steps) /\ Matches(BuildPlanFromTemplate("change_schema_then_create_record", text, "").steps, "create_record")
<1> DEFINE a == ReadSchemaStep("feishu.table_schema")
           b == ParseSchemaChangeStep
           c == SchemaChangeValidationStep
           d == ConfirmStep({"validation.schema_change_payload"}, "confirmation.schema_change")
           e == ChangeFieldsStep
           f == ReadSchemaStep("feishu.table_schema_after")
           g == ParseRecordPayloadStep("feishu.create_payload", {"feishu.table_schema_after"})
           h == Step("validation", "", {"feishu.table_schema_after", "feishu.create_payload"}, "validation.write_payload")
           u == ConfirmStep({"validation.write_payload"}, "confirmation.write")
           v == Step("tool", CREATE_TOOL, {"validation.write_payload"}, "write_result")
<1>1. BuildPlanFromTemplate("change_schema_then_create_record", text, "").steps = << a, b, c, d, e, f >> \o << g >> \o << h, u, v >>
  BY DEF BuildPlanFromTemplate, SchemaThenCreatePlan, SchemaChangePlan, Plan, RecordWriteTail
<1>2. /\ a.kind = "tool" /\ a.uses = READ_SCHEMA_TOOL /\ a.gives = "feishu.table_schema"
      /\ a.needs = {}
  BY DEF ReadSchemaStep, Step
<1>3. /\ b.kind = "agent" /\ b.uses = "parse_feishu_schema_change.v1" /\ b.gives = "feishu.schema_change_payload"
      /\ b.needs = {"feishu.table_schema"}
  BY DEF ParseSchemaChangeStep, Step
<1>4. /\ c.kind = "validation" /\ c.uses = "" /\ c.gives = "validation.schema_change_payload"
      /\ c.needs = {"feishu.table_schema", "feishu.schema_change_payload"}
  BY DEF SchemaChangeValidationStep, Step
<1>5. /\ d.kind = "confirm" /\ d.uses = "" /\ d.gives = "confirmation.schema_change"
      /\ d.needs = {"validation.schema_change_payload"}
  BY DEF ConfirmStep, Step
<1>6. /\ e.kind = "tool" /\ e.uses = CHANGE_SCHEMA_TOOL /\ e.gives = "feishu.schema_change_result"
      /\ e.needs = {"validation.schema_change_payload"}
  BY DEF ChangeFieldsStep, Step
<1>7. /\ f.kind = "tool" /\ f.uses = READ_SCHEMA_TOOL /\ f.gives = "feishu.table_schema_after"
      /\ f.needs = {}
  BY DEF ReadSchemaStep, Step
<1>8. /\ g.kind = "agent" /\ g.uses = "parse_feishu_record.v1" /\ g.gives = "feishu.create_payload"
      /\ g.needs = {"feishu.table_schema_after"}
  BY DEF ParseRecordPayloadStep, Step
<1>9. /\ h.kind = "validation" /\ h.uses = "" /\ h.gives = "validation.write_payload"
      /\ h.needs = {"feishu.table_schema_after", "feishu.create_payload"}
  BY DEF Step
<1>10. /\ u.kind = "confirm" /\ u.uses = "" /\ u.gives = "confirmation.write"
      /\ u.needs = {"validation.write_payload"}
  BY DEF ConfirmStep, Step
<1>11. /\ v.kind = "tool" /\ v.uses = CREATE_TOOL /\ v.gives = "write_result"
      /\ v.needs = {"validation.write_payload"}
  BY DEF Step
<1> HIDE DEF a, b, c, d, e, f, g, h, u, v
<1>12. PICK p : p = << a, b, c, d, e, f >> \o << g >> \o << h, u, v >>
  OBVIOUS
<1>13. /\ Len(p) = 10 /\ DOMAIN p = 1..10
      /\ p[1] = a /\ p[2] = b /\ p[3] = c /\ p[4] = d /\ p[5] = e /\ p[6] = f /\ p[7] = g /\ p[8] = h /\ p[9] = u /\ p[10] = v
  BY <1>12, TenSteps
<1>14. /\ SavesOwn(a) /\ ReadsRight(a)
      /\ SavesOwn(b) /\ ReadsRight(b)
      /\ SavesOwn(c) /\ ReadsRight(c)
      /\ SavesOwn(d) /\ ReadsRight(d)
      /\ SavesOwn(e) /\ ReadsRight(e)
      /\ SavesOwn(f) /\ ReadsRight(f)
      /\ SavesOwn(g) /\ ReadsRight(g)
      /\ SavesOwn(h) /\ ReadsRight(h)
      /\ SavesOwn(u) /\ ReadsRight(u)
      /\ SavesOwn(v) /\ ReadsRight(v)
  <2>1. SavesOwn(a) /\ ReadsRight(a)
    BY <1>2, ReadsSchema DEF Fits, SchemaKeys
  <2>2. SavesOwn(b) /\ ReadsRight(b)
    BY <1>3, ParsesChange DEF Fits, SchemaKeys
  <2>3. SavesOwn(c) /\ ReadsRight(c)
    BY <1>4, ValidatesChange DEF Fits, PayloadKeys
  <2>4. SavesOwn(d) /\ ReadsRight(d)
    BY <1>5, AsksFirst DEF Fits, Confirmations
  <2>5. SavesOwn(e) /\ ReadsRight(e)
    BY <1>6, ChangesFields DEF Fits
  <2>6. SavesOwn(f) /\ ReadsRight(f)
    BY <1>7, ReadsSchema DEF Fits, SchemaKeys
  <2>7. SavesOwn(g) /\ ReadsRight(g)
    BY <1>8, ParsesRecord DEF Fits, PayloadKeys, SchemaKeys
  <2>8. SavesOwn(h) /\ ReadsRight(h)
    BY <1>9, ValidatesRecord DEF Fits, PayloadKeys
  <2>9. SavesOwn(u) /\ ReadsRight(u)
    BY <1>10, AsksFirst DEF Fits, Confirmations
  <2>10. SavesOwn(v) /\ ReadsRight(v)
    BY <1>11, WritesRecord DEF Fits
  <2> QED
    BY <2>1, <2>2, <2>3, <2>4, <2>5, <2>6, <2>7, <2>8, <2>9, <2>10
<1>15. \A i \in 1..10 : SavesOwn(p[i]) /\ ReadsRight(p[i])
  BY <1>13, <1>14
<1>16. /\ p[1].gives = "feishu.table_schema"
      /\ p[2].gives = "feishu.schema_change_payload"
      /\ p[3].gives = "validation.schema_change_payload"
      /\ p[4].gives = "confirmation.schema_change"
      /\ p[5].gives = "feishu.schema_change_result"
      /\ p[6].gives = "feishu.table_schema_after"
      /\ p[7].gives = "feishu.create_payload"
      /\ p[8].gives = "validation.write_payload"
      /\ p[9].gives = "confirmation.write"
      /\ p[10].gives = "write_result"
  BY <1>13, <1>2, <1>3, <1>4, <1>5, <1>6, <1>7, <1>8, <1>9, <1>10, <1>11
<1>17. /\ p[1].needs = {}
      /\ p[2].needs = {p[1].gives}
      /\ p[3].needs = {p[1].gives, p[2].gives}
      /\ p[4].needs = {p[3].gives}
      /\ p[5].needs = {p[3].gives}
      /\ p[6].needs = {}
      /\ p[7].needs = {p[6].gives}
      /\ p[8].needs = {p[6].gives, p[7].gives}
      /\ p[9].needs = {p[8].gives}
      /\ p[10].needs = {p[8].gives}
  <2>1. p[1].needs = {}
    BY <1>13, <1>16, <1>2
  <2>2. p[2].needs = {p[1].gives}
    BY <1>13, <1>16, <1>3
  <2>3. p[3].needs = {p[1].gives, p[2].gives}
    BY <1>13, <1>16, <1>4
  <2>4. p[4].needs = {p[3].gives}
    BY <1>13, <1>16, <1>5
  <2>5. p[5].needs = {p[3].gives}
    BY <1>13, <1>16, <1>6
  <2>6. p[6].needs = {}
    BY <1>13, <1>16, <1>7
  <2>7. p[7].needs = {p[6].gives}
    BY <1>13, <1>16, <1>8
  <2>8. p[8].needs = {p[6].gives, p[7].gives}
    BY <1>13, <1>16, <1>9
  <2>9. p[9].needs = {p[8].gives}
    BY <1>13, <1>16, <1>10
  <2>10. p[10].needs = {p[8].gives}
    BY <1>13, <1>16, <1>11
  <2> QED
    BY <2>1, <2>2, <2>3, <2>4, <2>5, <2>6, <2>7, <2>8, <2>9, <2>10
<1>18. /\ p[1].kind = "tool" /\ p[1].uses \notin WRITE_TOOLS
      /\ p[2].kind = "agent"
      /\ p[3].kind = "validation"
      /\ p[4].kind = "confirm"
      /\ p[5].kind = "tool" /\ p[5].uses \in WRITE_TOOLS
      /\ p[6].kind = "tool" /\ p[6].uses \notin WRITE_TOOLS
      /\ p[7].kind = "agent"
      /\ p[8].kind = "validation"
      /\ p[9].kind = "confirm"
      /\ p[10].kind = "tool" /\ p[10].uses \in WRITE_TOOLS
  <2>1. p[1].kind = "tool" /\ p[1].uses \notin WRITE_TOOLS
    BY <1>13, <1>2, Names7
  <2>2. p[2].kind = "agent"
    BY <1>13, <1>3
  <2>3. p[3].kind = "validation"
    BY <1>13, <1>4
  <2>4. p[4].kind = "confirm"
    BY <1>13, <1>5
  <2>5. p[5].kind = "tool" /\ p[5].uses \in WRITE_TOOLS
    BY <1>13, <1>6, Names7
  <2>6. p[6].kind = "tool" /\ p[6].uses \notin WRITE_TOOLS
    BY <1>13, <1>7, Names7
  <2>7. p[7].kind = "agent"
    BY <1>13, <1>8
  <2>8. p[8].kind = "validation"
    BY <1>13, <1>9
  <2>9. p[9].kind = "confirm"
    BY <1>13, <1>10
  <2>10. p[10].kind = "tool" /\ p[10].uses \in WRITE_TOOLS
    BY <1>13, <1>11, Names7
  <2> QED
    BY <2>1, <2>2, <2>3, <2>4, <2>5, <2>6, <2>7, <2>8, <2>9, <2>10
<1>19. OwnKeys(p, 10)
  BY <1>16 DEF OwnKeys
<1>20. Closed(p, 10)
  <2>1. ASSUME NEW i \in 1..10, NEW k \in p[i].needs PROVE \E j \in 1..(i - 1) : p[j].gives = k
    <3>1. CASE i = 1
      BY <1>17, <2>1, <3>1
    <3>2. CASE i = 2
      BY <1>17, <2>1, <3>2
    <3>3. CASE i = 3
      BY <1>17, <2>1, <3>3
    <3>4. CASE i = 4
      BY <1>17, <2>1, <3>4
    <3>5. CASE i = 5
      BY <1>17, <2>1, <3>5
    <3>6. CASE i = 6
      BY <1>17, <2>1, <3>6
    <3>7. CASE i = 7
      BY <1>17, <2>1, <3>7
    <3>8. CASE i = 8
      BY <1>17, <2>1, <3>8
    <3>9. CASE i = 9
      BY <1>17, <2>1, <3>9
    <3>10. CASE i = 10
      BY <1>17, <2>1, <3>10
    <3> QED
      BY <2>1, <3>1, <3>2, <3>3, <3>4, <3>5, <3>6, <3>7, <3>8, <3>9, <3>10
  <2> QED
    BY <2>1 DEF Closed
<1>21. AsksForNext(p, 10)
  <2>1. \A i \in 1..10 : p[i].kind = "confirm" => i \in {4, 9}
    BY <1>18
  <2>2. 5 \in 1..10 /\ p[5].kind = "tool" /\ p[5].uses \in WRITE_TOOLS /\ p[4].needs = p[5].needs
    BY <1>17, <1>18
  <2>3. 10 \in 1..10 /\ p[10].kind = "tool" /\ p[10].uses \in WRITE_TOOLS /\ p[9].needs = p[10].needs
    BY <1>17, <1>18
  <2>4. 4 + 1 = 5
    OBVIOUS
  <2>5. 9 + 1 = 10
    OBVIOUS
  <2> QED
    BY <2>1, <2>2, <2>3, <2>4, <2>5 DEF AsksForNext
<1>22. WasAskedFor(p, 10)
  <2>1. \A i \in 1..10 : p[i].kind = "tool" /\ p[i].uses \in WRITE_TOOLS => i \in {5, 10}
    BY <1>18
  <2> QED
    BY <2>1, <1>18 DEF WasAskedFor
<1>23. ReadAfterChange(p, 10)
  BY <1>16 DEF ReadAfterChange
<1>24. Matches(p, "create_record")
  <2>1. \A i \in 1..10 : p[i].gives = "validation.write_payload" => i = 8
    BY <1>16
  <2>2. p[8].needs = {"feishu.table_schema_after", "feishu.create_payload"}
    BY <1>13, <1>9
  <2>3. "feishu.record_match" \notin {"feishu.table_schema_after", "feishu.create_payload"}
    OBVIOUS
  <2> QED
    BY <1>13, <2>1, <2>2, <2>3 DEF Matches
<1>25. RunsTo(p, 10)
  BY <1>13, <1>15, <1>19, <1>20, <1>21, <1>22, <1>23 DEF RunsTo
<1>26. Runs(p)
  BY <1>13, <1>25 DEF Runs
<1> QED
  BY <1>1, <1>12, <1>24, <1>26

\* Every session's list of steps can be run.
LEMMA PlansRun ==
    ASSUME NEW template \in Templates
    PROVE  Runs(BuildPlanFromTemplate(template, {}, "").steps)
<1>1. CASE template = "record_draft"
  BY <1>1, DraftSteps
<1>2. CASE template = "read_records"
  BY <1>2, ReadSteps
<1>3. CASE template = "create_record"
  BY <1>3, CreateSteps
<1>4. CASE template = "update_record"
  BY <1>4, UpdateSteps
<1>5. CASE template = "delete_record"
  BY <1>5, DeleteSteps
<1>6. CASE template = "change_schema"
  BY <1>6, ChangeSteps
<1>7. CASE template = "change_schema_then_create_record"
  BY <1>7, ChangeAndCreateSteps
<1> QED
  BY <1>1, <1>2, <1>3, <1>4, <1>5, <1>6, <1>7 DEF Templates, RecordTemplates

LEMMA StepsRun ==
    ASSUME job \in Jobs
    PROVE  Runs(Steps) /\ Matches(Steps, Operation)
<1>1. job.template \in Templates
  BY JobsAssumption
<1>2. Runs(Steps)
  BY <1>1, PlansRun DEF Steps
<1>3. CASE job.template = "update_record"
  BY <1>2, <1>3, UpdateSteps DEF Steps, Operation
<1>4. CASE job.template = "delete_record"
  BY <1>2, <1>4, DeleteSteps DEF Steps, Operation
<1>5. CASE job.template \notin {"update_record", "delete_record"}
  <2>1. Operation = "create_record"
    BY <1>5 DEF Operation
  <2>2. Matches(Steps, "create_record")
    BY <1>1, <1>5, DraftSteps, ReadSteps, CreateSteps, ChangeSteps, ChangeAndCreateSteps
       DEF Steps, Templates, RecordTemplates
  <2> QED
    BY <1>2, <2>1, <2>2
<1> QED
  BY <1>3, <1>4, <1>5

-----------------------------------------------------------------------------
(* What a running step keeps.                                              *)

Doing(at, where, listed, context, ops, done) ==
    [at |-> at, where |-> where, listed |-> listed, context |-> context, ops |-> ops, done |-> done]
IsDoing(me) == me = Doing(me.at, me.where, me.listed, me.context, me.ops, me.done)

\* A running step with some of its fields changed.
Loaded(me, c, none) == [me EXCEPT !.where = "loaded", !.context = c, !.listed = none]
Lists(me, defs) == [me EXCEPT !.where = "listed", !.listed = defs]
Prepares(me, list) == [me EXCEPT !.where = "writing", !.ops = list]
Changes(me, list, c) == [me EXCEPT !.where = "writing", !.ops = list, !.context = c]
SendsOne(me) == [me EXCEPT !.ops = Tail(@), !.done = @ + 1]
Refreshes(me, defs) == [me EXCEPT !.where = "refreshing", !.listed = defs]

LEMMA OneField ==
    ASSUME NEW at, NEW where, NEW listed, NEW context, NEW ops, NEW done, NEW x,
           NEW me, me = Doing(at, where, listed, context, ops, done)
    PROVE  /\ Lists(me, x) = Doing(at, "listed", x, context, ops, done)
           /\ Prepares(me, x) = Doing(at, "writing", listed, context, x, done)
           /\ Refreshes(me, x) = Doing(at, "refreshing", x, context, ops, done)
<1>1. Lists(me, x) = Doing(at, "listed", x, context, ops, done)
  <2>1. PICK r : r = [me EXCEPT !.where = "listed"]
    OBVIOUS
  <2>2. r = Doing(at, "listed", listed, context, ops, done)
    BY <2>1 DEF Doing
  <2>3. Lists(me, x) = [r EXCEPT !.listed = x]
    BY <2>1 DEF Lists
  <2> QED
    BY <2>2, <2>3 DEF Doing
<1>2. Prepares(me, x) = Doing(at, "writing", listed, context, x, done)
  <2>1. PICK r : r = [me EXCEPT !.where = "writing"]
    OBVIOUS
  <2>2. r = Doing(at, "writing", listed, context, ops, done)
    BY <2>1 DEF Doing
  <2>3. Prepares(me, x) = [r EXCEPT !.ops = x]
    BY <2>1 DEF Prepares
  <2> QED
    BY <2>2, <2>3 DEF Doing
<1>3. Refreshes(me, x) = Doing(at, "refreshing", x, context, ops, done)
  <2>1. PICK r : r = [me EXCEPT !.where = "refreshing"]
    OBVIOUS
  <2>2. r = Doing(at, "refreshing", listed, context, ops, done)
    BY <2>1 DEF Doing
  <2>3. Refreshes(me, x) = [r EXCEPT !.listed = x]
    BY <2>1 DEF Refreshes
  <2> QED
    BY <2>2, <2>3 DEF Doing
<1> QED
  BY <1>1, <1>2, <1>3

LEMMA TwoFields ==
    ASSUME NEW at, NEW where, NEW listed, NEW context, NEW ops, NEW done, NEW x, NEW y,
           NEW me, me = Doing(at, where, listed, context, ops, done)
    PROVE  /\ Loaded(me, x, y) = Doing(at, "loaded", y, x, ops, done)
           /\ Changes(me, x, y) = Doing(at, "writing", listed, y, x, done)
<1>1. Loaded(me, x, y) = Doing(at, "loaded", y, x, ops, done)
  <2>1. PICK r : r = [me EXCEPT !.where = "loaded"]
    OBVIOUS
  <2>2. r = Doing(at, "loaded", listed, context, ops, done)
    BY <2>1 DEF Doing
  <2>3. PICK q : q = [r EXCEPT !.context = x]
    OBVIOUS
  <2>4. q = Doing(at, "loaded", listed, x, ops, done)
    BY <2>2, <2>3 DEF Doing
  <2>5. Loaded(me, x, y) = [q EXCEPT !.listed = y]
    BY <2>1, <2>3 DEF Loaded
  <2> QED
    BY <2>4, <2>5 DEF Doing
<1>2. Changes(me, x, y) = Doing(at, "writing", listed, y, x, done)
  <2>1. PICK r : r = Prepares(me, x)
    OBVIOUS
  <2>2. r = Doing(at, "writing", listed, context, x, done)
    BY <2>1, OneField
  <2>3. Changes(me, x, y) = [r EXCEPT !.context = y]
    BY <2>1 DEF Prepares, Changes
  <2> QED
    BY <2>2, <2>3 DEF Doing
<1> QED
  BY <1>1, <1>2

LEMMA SendsOneFields ==
    ASSUME NEW at, NEW where, NEW listed, NEW context, NEW ops, NEW done,
           NEW me, me = Doing(at, where, listed, context, ops, done)
    PROVE  SendsOne(me) = Doing(at, where, listed, context, Tail(ops), done + 1)
<1>1. PICK r : r = [me EXCEPT !.ops = Tail(@)]
  OBVIOUS
<1>2. r = Doing(at, where, listed, context, Tail(ops), done)
  BY <1>1 DEF Doing
<1>3. SendsOne(me) = [r EXCEPT !.done = @ + 1]
  BY <1>1 DEF SendsOne
<1> QED
  BY <1>2, <1>3 DEF Doing

-----------------------------------------------------------------------------
(* How a session goes along its list.                                      *)

Going == standing \in {"running", "waiting"}
Standings == {"new", "running", "waiting", "success", "failed", "cancelled"}

\* Where a tool may be.
Fitting(where) ==
    /\ where \in {"start", "listed", "loaded", "writing", "refreshing"}
    /\ where # "start" => Current.kind = "tool"
    /\ where \in {"listed", "loaded"} => Current.uses \in ALLOWED_TOOLS \ {CHANGE_SCHEMA_TOOL}
    /\ where = "writing" => Current.uses \in WRITE_TOOLS
    /\ where = "refreshing" => Current.uses = CHANGE_SCHEMA_TOOL

\* The artifacts are those of the steps before this one.
ByPlan ==
    /\ standing \in Standings
    /\ IsDoing(step)
    /\ standing = "new" =>
         job = NoJob /\ step = At(1) /\ artifacts = << >> /\ shown = NothingShown /\ sent = << >>
    /\ standing # "new" =>
         /\ job \in Jobs
         /\ step.at \in 1..(Len(Steps) + 1)
         /\ DOMAIN artifacts = {Steps[i].gives : i \in 1..(step.at - 1)}
    /\ Going => step.at \in 1..Len(Steps)
    /\ standing = "waiting" => Current.kind = "confirm"
    /\ standing = "running" => Fitting(step.where)

LEMMA AtFields ==
    ASSUME NEW n
    PROVE  /\ At(n) = Doing(n, "start", << >>, NoContext, << >>, 0)
           /\ IsDoing(At(n)) /\ At(n).at = n /\ At(n).where = "start" /\ At(n).ops = << >> /\ At(n).done = 0
BY DEF At, Doing, IsDoing, NoList

\* The step that runs, and what it will save.
LEMMA CurrentFacts ==
    ASSUME ByPlan, Going
    PROVE  /\ job \in Jobs /\ step.at \in 1..Len(Steps) /\ Len(Steps) \in Nat
           /\ Runs(Steps) /\ Matches(Steps, Operation)
           /\ SavesOwn(Current) /\ ReadsRight(Current)
           /\ Current.gives \notin DOMAIN artifacts
           /\ Current.needs \subseteq DOMAIN artifacts
           /\ DOMAIN artifacts = {Steps[i].gives : i \in 1..(step.at - 1)}
<1>1. job \in Jobs /\ step.at \in 1..Len(Steps) /\ DOMAIN artifacts = {Steps[i].gives : i \in 1..(step.at - 1)}
  BY DEF ByPlan, Going
<1>2. Runs(Steps) /\ Matches(Steps, Operation)
  BY <1>1, StepsRun
<1>3. Len(Steps) \in Nat /\ SavesOwn(Current) /\ ReadsRight(Current)
  BY <1>1, <1>2 DEF Runs, RunsTo, Current
<1>4. Current.gives \notin DOMAIN artifacts
  <2>1. SUFFICES ASSUME NEW i \in 1..(step.at - 1), Steps[i].gives = Current.gives PROVE FALSE
    BY <1>1
  <2>2. i \in 1..Len(Steps) /\ i # step.at
    BY <1>1, <1>3
  <2> QED
    BY <1>1, <1>2, <2>1, <2>2 DEF Runs, RunsTo, OwnKeys, Current
<1>5. Current.needs \subseteq DOMAIN artifacts
  BY <1>1, <1>2 DEF Runs, RunsTo, Closed, Current
<1> QED
  BY <1>1, <1>2, <1>3, <1>4, <1>5

\* What saving an artifact does.
Saved(data) ==
    /\ Going /\ job' = job
    /\ step' = At(step.at + 1)
    /\ standing' \in {"running", "success"}
    /\ standing' = "running" => step.at + 1 \in 1..Len(Steps)
    /\ Current.gives \notin DOMAIN artifacts
    /\ DOMAIN artifacts' = DOMAIN artifacts \cup {Current.gives}
    /\ artifacts'[Current.gives] = data
    /\ \A k \in DOMAIN artifacts : artifacts'[k] = artifacts[k]

LEMMA SavesNext ==
    ASSUME ByPlan, Going, job' = job, NEW data, Save(data)
    PROVE  ByPlan' /\ Saved(data)
<1>1. /\ job \in Jobs /\ step.at \in 1..Len(Steps) /\ Len(Steps) \in Nat
      /\ Current.gives \notin DOMAIN artifacts
      /\ DOMAIN artifacts = {Steps[i].gives : i \in 1..(step.at - 1)}
  BY CurrentFacts
<1>2. /\ artifacts' = [k \in DOMAIN artifacts \cup {Current.gives} |->
                         IF k = Current.gives THEN data ELSE artifacts[k]]
      /\ step' = At(step.at + 1)
      /\ standing' = IF step.at = Len(Steps) THEN "success" ELSE "running"
  BY DEF Save
<1>3. /\ DOMAIN artifacts' = DOMAIN artifacts \cup {Current.gives}
      /\ artifacts'[Current.gives] = data
      /\ \A k \in DOMAIN artifacts : artifacts'[k] = artifacts[k]
  BY <1>1, <1>2
<1>4. /\ step'.at = step.at + 1 /\ step'.where = "start" /\ IsDoing(step')
      /\ standing' \in {"running", "success"}
      /\ standing' = "running" => step.at + 1 \in 1..Len(Steps)
      /\ step.at + 1 \in 1..(Len(Steps) + 1)
  BY <1>1, <1>2, AtFields
<1>5. Saved(data)
  BY <1>1, <1>2, <1>3, <1>4 DEF Saved
<1>6. Steps' = Steps
  BY DEF Steps
<1>7. DOMAIN artifacts' = {Steps[i].gives : i \in 1..step.at}
  <2>1. \A k : k \in DOMAIN artifacts' <=> \E i \in 1..step.at : k = Steps[i].gives
    <3>1. \A i : i \in 1..step.at <=> i \in 1..(step.at - 1) \/ i = step.at
      BY <1>1
    <3> QED
      BY <1>1, <1>3, <3>1 DEF Current
  <2> QED
    BY <2>1
<1>8. step'.at - 1 = step.at
  BY <1>1, <1>4
<1> QED
  BY <1>1, <1>4, <1>5, <1>6, <1>7, <1>8 DEF ByPlan, Standings, Going, Fitting

\* A tool goes on.
MovesTo(where) ==
    /\ standing = "running" /\ Fitting(where) /\ where # "start"
    /\ IsDoing(step') /\ step'.at = step.at /\ step'.where = where
    /\ UNCHANGED << job, artifacts, standing, shown >>

LEMMA MovesOn ==
    ASSUME ByPlan, NEW where, MovesTo(where)
    PROVE  ByPlan'
<1>1. Steps' = Steps /\ Current' = Current
  BY DEF MovesTo, Steps, Current
<1>2. Fitting(step.where)'
  BY <1>1 DEF MovesTo, Fitting
<1> QED
  BY <1>1, <1>2 DEF ByPlan, MovesTo, Going

LEMMA EndsHere ==
    ASSUME ByPlan, standing \in {"running", "waiting"}, standing' \in {"failed", "cancelled"},
           UNCHANGED << job, step, artifacts >>
    PROVE  ByPlan'
<1>1. Steps' = Steps
  BY DEF Steps
<1> QED
  BY <1>1 DEF ByPlan, Standings, Going

LEMMA StaysPut ==
    ASSUME ByPlan, UNCHANGED << job, step, artifacts, standing, shown, sent >>
    PROVE  ByPlan'
<1>1. Steps' = Steps /\ Current' = Current
  BY DEF Steps, Current
<1> QED
  BY <1>1 DEF ByPlan, Going, Fitting

LEMMA AsksHere ==
    ASSUME ByPlan, Ask
    PROVE  ByPlan'
<1>1. Steps' = Steps /\ Current' = Current
  BY DEF Ask, Steps, Current
<1> QED
  BY <1>1 DEF ByPlan, Ask, Going, Standings

LEMMA InvokedHere ==
    ASSUME ByPlan, Invoke
    PROVE  ByPlan'
<1>1. step' = At(1) /\ artifacts' = << >> /\ job' \in Jobs /\ standing' = "running"
  BY DEF ByPlan, Invoke
<1>2. Runs(Steps')
  <2>1. job'.template \in Templates
    BY <1>1, JobsAssumption
  <2> QED
    BY <2>1, PlansRun DEF Steps
<1>3. Len(Steps') \in Nat \ {0}
  BY <1>2 DEF Runs, RunsTo
<1>4. IsDoing(step') /\ step'.at = 1 /\ step'.where = "start" /\ 1 \in 1..Len(Steps') /\ 1 \in 1..(Len(Steps') + 1)
  BY <1>1, <1>3, AtFields
<1>5. DOMAIN artifacts' = {Steps'[i].gives : i \in 1..(step'.at - 1)}
  <2>1. DOMAIN artifacts' = {}
    BY <1>1
  <2> QED
    BY <1>4, <2>1
<1> QED
  BY <1>1, <1>4, <1>5 DEF ByPlan, Standings, Going, Fitting

\* The table's columns are read: where a step is afterwards.
LEMMA LoadingMoves ==
    ASSUME ByPlan, LoadMock \/ LoadCached \/ ListFields \/ SaveListed \/ ListFails
    PROVE  \E where \in {"listed", "loaded"} : MovesTo(where)
<1>1. standing = "running" /\ IsDoing(step) /\ Current.kind = "tool" /\ Current.uses \in ALLOWED_TOOLS \ {CHANGE_SCHEMA_TOOL}
  BY DEF ByPlan, LoadMock, LoadCached, ListFields, SaveListed, ListFails, Loads, Uses
<1>2. UNCHANGED << job, artifacts, standing, shown >>
  BY DEF LoadMock, LoadCached, ListFields, SaveListed, ListFails
<1>3. Fitting("listed") /\ Fitting("loaded")
  BY <1>1 DEF Fitting
<1>4. ASSUME NEW context, Load(context)
      PROVE  MovesTo("loaded")
  <2>1. step' = Loaded(step, context, NoList)
    BY <1>4 DEF Load, Loaded
  <2>2. step' = Doing(step.at, "loaded", NoList, context, step.ops, step.done)
    BY <1>1, <2>1, TwoFields DEF IsDoing
  <2> QED
    BY <1>1, <1>2, <1>3, <2>2 DEF MovesTo, IsDoing, Doing
<1>5. CASE ListFields
  <2>1. step' = Lists(step, feishu.fields)
    BY <1>5 DEF ListFields, Lists
  <2>2. step' = Doing(step.at, "listed", feishu.fields, step.context, step.ops, step.done)
    BY <1>1, <2>1, OneField DEF IsDoing
  <2>3. MovesTo("listed")
    BY <1>1, <1>2, <1>3, <2>2 DEF MovesTo, IsDoing, Doing
  <2> QED
    BY <2>3
<1>6. CASE LoadMock
  BY <1>4, <1>6 DEF LoadMock
<1>7. CASE LoadCached
  BY <1>4, <1>7 DEF LoadCached
<1>8. CASE SaveListed
  BY <1>4, <1>8 DEF SaveListed
<1>9. CASE ListFails
  BY <1>4, <1>9 DEF ListFails
<1> QED
  BY <1>5, <1>6, <1>7, <1>8, <1>9

\* A tool that writes goes on: where it is afterwards, and what it has left to send.
LEMMA WritingMoves ==
    ASSUME ByPlan
    PROVE  /\ PrepareWrite => MovesTo("writing")
           /\ StartChange => MovesTo("writing")
           /\ Send => MovesTo("writing") /\ step'.ops = Tail(step.ops) /\ step'.done = step.done + 1
                      /\ step'.context = step.context
           /\ RefreshList => MovesTo("refreshing") /\ step'.ops = step.ops /\ step'.done = step.done
                             /\ step'.listed = feishu.fields
           /\ PrepareWrite => /\ step'.ops = Writes(Prepared1(step.context.fields))
                              /\ step'.done = step.done /\ step'.context = step.context
           /\ StartChange => /\ step'.ops = Validated.ops /\ step'.done = step.done
                             /\ step'.context = Validated.context
<1>1. IsDoing(step) /\ CHANGE_SCHEMA_TOOL \in WRITE_TOOLS
  BY Names7 DEF ByPlan
<1>2. step = Doing(step.at, step.where, step.listed, step.context, step.ops, step.done)
  BY <1>1 DEF IsDoing
<1>3. ASSUME PrepareWrite
      PROVE  /\ MovesTo("writing") /\ step'.ops = Writes(Prepared1(step.context.fields)) 
             /\ step'.done = step.done /\ step'.context = step.context
  <2>1. step' = Prepares(step, Writes(Prepared1(step.context.fields)))
    BY <1>3 DEF PrepareWrite, Prepares
  <2>2. step' = Doing(step.at, "writing", step.listed, step.context, Writes(Prepared1(step.context.fields)), step.done)
    BY <1>2, <2>1, OneField
  <2>3. standing = "running" /\ Fitting("writing") /\ UNCHANGED << job, artifacts, standing, shown >>
    BY <1>3 DEF PrepareWrite, Uses, Fitting, RECORD_TOOLS
  <2> QED
    BY <2>2, <2>3 DEF MovesTo, IsDoing, Doing
<1>4. ASSUME StartChange
      PROVE  /\ MovesTo("writing") /\ step'.ops = Validated.ops /\ step'.done = step.done
             /\ step'.context = Validated.context
  <2>1. step' = Changes(step, Validated.ops, Validated.context)
    BY <1>4 DEF StartChange, Changes
  <2>2. step' = Doing(step.at, "writing", step.listed, Validated.context, Validated.ops, step.done)
    BY <1>2, <2>1, TwoFields
  <2>3. standing = "running" /\ Fitting("writing") /\ UNCHANGED << job, artifacts, standing, shown >>
    BY <1>1, <1>4 DEF StartChange, Uses, Fitting
  <2> QED
    BY <2>2, <2>3 DEF MovesTo, IsDoing, Doing
<1>5. ASSUME Send
      PROVE  /\ MovesTo("writing") /\ step'.ops = Tail(step.ops) /\ step'.done = step.done + 1
             /\ step'.context = step.context
  <2>1. step' = SendsOne(step)
    BY <1>5 DEF Send, SendsOne
  <2>2. step' = Doing(step.at, step.where, step.listed, step.context, Tail(step.ops), step.done + 1)
    BY <1>2, <2>1, SendsOneFields
  <2>3. standing = "running" /\ step.where = "writing" /\ Fitting("writing") /\ UNCHANGED << job, artifacts, standing, shown >>
    BY <1>5 DEF Send, Writing, Uses, Fitting
  <2> QED
    BY <2>2, <2>3 DEF MovesTo, IsDoing, Doing
<1>6. ASSUME RefreshList
      PROVE  MovesTo("refreshing") /\ step'.ops = step.ops /\ step'.done = step.done /\ step'.listed = feishu.fields
  <2>1. step' = Refreshes(step, feishu.fields)
    BY <1>6 DEF RefreshList, Refreshes
  <2>2. step' = Doing(step.at, "refreshing", feishu.fields, step.context, step.ops, step.done)
    BY <1>2, <2>1, OneField
  <2>3. standing = "running" /\ Fitting("refreshing") /\ UNCHANGED << job, artifacts, standing, shown >>
    BY <1>6 DEF RefreshList, Refreshing, Writing, Uses, Fitting
  <2> QED
    BY <2>2, <2>3 DEF MovesTo, IsDoing, Doing
<1> QED
  BY <1>3, <1>4, <1>5, <1>6

\* The actions that save an artifact.
Saves ==
    \/ ReadSchema \/ ParseRecord \/ ParseSchemaChange \/ ParseRecordDraft
    \/ ReadRecords \/ ReadFails \/ MatchRecord
    \/ ValidateRecord /\ standing' # "failed"
    \/ ValidateSchemaChange /\ standing' # "failed"
    \/ Confirm
    \/ RefuseWrite \/ SendRejected \/ SendLost \/ WriteDone \/ RefreshFails \/ RefreshSave

LEMMA SavesDo ==
    ASSUME Saves
    PROVE  Going /\ job' = job /\ \E data : Save(data)
<1>1. CASE ReadSchema
  BY <1>1 DEF ReadSchema, Uses, Going
<1>2. CASE ParseRecord
  BY <1>2 DEF ParseRecord, IsAgent, Going
<1>3. CASE ParseSchemaChange
  BY <1>3 DEF ParseSchemaChange, IsAgent, Going
<1>4. CASE ParseRecordDraft
  BY <1>4 DEF ParseRecordDraft, IsAgent, Going
<1>5. CASE ReadRecords
  <2>1. PICK data : data = SortSeq(SetToSeq(Found(ReadRequest)), LAMBDA a, b : a < b)
    OBVIOUS
  <2> QED
    BY <1>5, <2>1 DEF ReadRecords, Uses, Going
<1>6. CASE ReadFails
  BY <1>6 DEF ReadFails, Uses, Going
<1>7. CASE MatchRecord
  BY <1>7 DEF MatchRecord, IsAgent, Going
<1>8. CASE ValidateRecord /\ standing' # "failed"
  BY <1>8 DEF ValidateRecord, Validates, Going, Fail
<1>9. CASE ValidateSchemaChange /\ standing' # "failed"
  BY <1>9 DEF ValidateSchemaChange, Validates, Going, Fail
<1>10. CASE Confirm
  BY <1>10 DEF Confirm, Going
<1>11. CASE RefuseWrite \/ SendRejected \/ SendLost \/ WriteDone \/ RefreshFails \/ RefreshSave
  BY <1>11 DEF RefuseWrite, SendRejected, SendLost, WriteDone, RefreshFails, RefreshSave, Refreshing,
               Finish, Writing, Uses, Going
<1> QED
  BY <1>1, <1>2, <1>3, <1>4, <1>5, <1>6, <1>7, <1>8, <1>9, <1>10, <1>11 DEF Saves

\* The actions of others, and those that end a session.
Others == (\E op \in Meddlings : Meddle(op)) \/ ExpireCache \/ OtherLists \/ OtherSaves
Ends ==
    \/ AgentFails \/ MatchFails \/ Refuse
    \/ ValidateRecord /\ standing' = "failed"
    \/ ValidateSchemaChange /\ standing' = "failed"

LEMMA OthersKeep ==
    ASSUME Others
    PROVE  UNCHANGED << job, step, artifacts, standing, faults, shown, sent >>
BY DEF Others, Meddle, ExpireCache, OtherLists, OtherSaves

LEMMA EndsKeep ==
    ASSUME Ends
    PROVE  /\ standing \in {"running", "waiting"} /\ standing' \in {"failed", "cancelled"}
           /\ UNCHANGED << feishu, cache, elsewhere, job, step, artifacts, meddled, shown, sent >>
<1>1. CASE AgentFails \/ MatchFails \/ Refuse
  BY <1>1 DEF AgentFails, MatchFails, Refuse, IsAgent, Fail
<1>2. CASE ValidateRecord /\ standing' = "failed"
  BY <1>2 DEF ValidateRecord, Validates, Fail, Save
<1>3. CASE ValidateSchemaChange /\ standing' = "failed"
  BY <1>3 DEF ValidateSchemaChange, Validates, Fail, Save
<1> QED
  BY <1>1, <1>2, <1>3 DEF Ends

LEMMA FeishuSteps ==
    ASSUME FeishuNext
    PROVE  \/ Invoke \/ Ask \/ Saves \/ Ends \/ Others
           \/ LoadMock \/ LoadCached \/ ListFields \/ SaveListed \/ ListFails
           \/ PrepareWrite \/ StartChange \/ Send \/ RefreshList
BY DEF FeishuNext, Saves, Ends, Others

LEMMA ByPlanStep ==
    ASSUME ByPlan, [FeishuNext]_feishuVars
    PROVE  ByPlan'
<1>1. CASE Invoke
  BY <1>1, InvokedHere
<1>2. CASE Ask
  BY <1>2, AsksHere
<1>3. CASE Saves
  BY <1>3, SavesDo, SavesNext
<1>4. CASE Ends
  BY <1>4, EndsKeep, EndsHere
<1>5. CASE Others
  BY <1>5, OthersKeep, StaysPut
<1>6. CASE LoadMock \/ LoadCached \/ ListFields \/ SaveListed \/ ListFails
  BY <1>6, LoadingMoves, MovesOn
<1>7. CASE PrepareWrite \/ StartChange \/ Send \/ RefreshList
  BY <1>7, WritingMoves, MovesOn
<1>8. CASE UNCHANGED feishuVars
  BY <1>8, StaysPut DEF feishuVars
<1> QED
  BY <1>1, <1>2, <1>3, <1>4, <1>5, <1>6, <1>7, <1>8, FeishuSteps

LEMMA ByPlanStarts ==
    ASSUME FeishuInit
    PROVE  ByPlan
BY AtFields DEF FeishuInit, ByPlan, Standings, Going

-----------------------------------------------------------------------------
(* Lists.                                                                  *)

Listed(s) == \E S : s \in Seq(S)

LEMMA ListFacts ==
    ASSUME NEW s, Listed(s)
    PROVE  Len(s) \in Nat /\ DOMAIN s = 1..Len(s) /\ (s = << >> <=> Len(s) = 0)
<1>1. PICK S : s \in Seq(S)
  BY DEF Listed
<1> QED
  BY <1>1, LenProperties, EmptySeq

LEMMA ListMade ==
    ASSUME NEW n \in Nat, NEW f, f = [i \in 1..n |-> f[i]]
    PROVE  Listed(f) /\ Len(f) = n
<1>1. PICK S : S = {f[i] : i \in 1..n}
  OBVIOUS
<1>2. \A i \in 1..n : f[i] \in S
  BY <1>1
<1>3. f \in [1..n -> S]
  BY <1>2
<1>4. f \in Seq(S)
  BY <1>3
<1>5. Listed(f)
  BY <1>4 DEF Listed
<1>6. Len(f) \in Nat /\ DOMAIN f = 1..Len(f) /\ DOMAIN f = 1..n
  BY <1>3, <1>5, ListFacts
<1> QED
  BY <1>5, <1>6

LEMMA ListRest ==
    ASSUME NEW s, Listed(s), s # << >>
    PROVE  /\ Listed(Tail(s)) /\ Len(Tail(s)) = Len(s) - 1
           /\ \A i \in 1..Len(Tail(s)) : Tail(s)[i] = s[i + 1]
           /\ Head(s) = s[1]
<1>1. PICK S : s \in Seq(S)
  BY DEF Listed
<1>2. Tail(s) \in Seq(S) /\ Len(Tail(s)) = Len(s) - 1 /\ Head(s) = s[1]
      /\ \A i \in 1..Len(Tail(s)) : Tail(s)[i] = s[i + 1]
  BY <1>1, HeadTailProperties
<1> QED
  BY <1>2 DEF Listed

LEMMA ListMore ==
    ASSUME NEW s, Listed(s), NEW x
    PROVE  /\ Listed(Append(s, x)) /\ Len(Append(s, x)) = Len(s) + 1
           /\ \A i \in 1..Len(s) : Append(s, x)[i] = s[i]
           /\ Append(s, x)[Len(s) + 1] = x
           /\ DOMAIN Append(s, x) = 1..(Len(s) + 1)
<1>1. PICK S : s \in Seq(S)
  BY DEF Listed
<1>2. PICK T : T = S \cup {x}
  OBVIOUS
<1>3. s \in Seq(T) /\ x \in T
  BY <1>1, <1>2
<1>4. Append(s, x) \in Seq(T)
  BY <1>3, AppendProperties
<1>5. Len(Append(s, x)) = Len(s) + 1 /\ Append(s, x)[Len(s) + 1] = x
      /\ \A i \in 1..Len(s) : Append(s, x)[i] = s[i]
  BY <1>3, AppendProperties
<1>6. Listed(Append(s, x))
  BY <1>4 DEF Listed
<1> QED
  BY <1>5, <1>6, ListFacts

LEMMA ListJoined ==
    ASSUME NEW s, NEW t, Listed(s), Listed(t)
    PROVE  Listed(s \o t)
<1>1. PICK S : s \in Seq(S)
  BY DEF Listed
<1>2. PICK T : t \in Seq(T)
  BY DEF Listed
<1>3. PICK U : U = S \cup T
  OBVIOUS
<1>4. s \in Seq(U) /\ t \in Seq(U)
  BY <1>1, <1>2, <1>3
<1>5. s \o t \in Seq(U)
  BY <1>4, ConcatProperties
<1> QED
  BY <1>5 DEF Listed

LEMMA ListOfOne ==
    ASSUME NEW x
    PROVE  Listed(<< x >>) /\ Len(<< x >>) = 1
<1>1. << x >> \in Seq({x})
  OBVIOUS
<1> QED
  BY <1>1 DEF Listed

LEMMA NoneListed == Listed(<< >>) /\ Len(<< >>) = 0
<1>1. << >> \in Seq({})
  OBVIOUS
<1> QED
  BY <1>1 DEF Listed

\* What validation makes of one action of a change.
LEMMA ActionsAreKnown ==
    ASSUME NEW raw, NEW defs, NEW planned, NEW intended
    PROVE  LET action == NormalizeSchemaAction(raw, defs, planned, intended)
           IN  action = Rejection \/ action.do \in {"create_field", "update_field", "delete_field"}
<1> DEFINE action == NormalizeSchemaAction(raw, defs, planned, intended)
           do == CanonicalAction(raw.do)
<1>1. \A name, type : Action("create_field", NoId, name, type).do = "create_field"
  BY DEF Action
<1>2. \A id, name, type : Action("update_field", id, name, type).do = "update_field"
                          /\ Action("delete_field", id, name, type).do = "delete_field"
  BY DEF Action
<1>3. CASE do = "create_field"
  <2>1. action = NormalizeCreateFieldAction(raw, planned)
    BY <1>3 DEF NormalizeSchemaAction
  <2> QED
    BY <1>1, <2>1 DEF NormalizeCreateFieldAction
<1>4. CASE do = "update_field"
  <2>1. action = NormalizeUpdateFieldAction(raw, defs, planned)
    BY <1>4 DEF NormalizeSchemaAction
  <2> QED
    BY <1>2, <2>1 DEF NormalizeUpdateFieldAction
<1>5. CASE do = "delete_field"
  <2>1. action = NormalizeDeleteFieldAction(raw, defs, intended)
    BY <1>5 DEF NormalizeSchemaAction
  <2> QED
    BY <1>2, <2>1 DEF NormalizeDeleteFieldAction
<1>6. CASE do \notin {"create_field", "update_field", "delete_field"}
  <2>1. action = Rejection
    BY <1>6 DEF NormalizeSchemaAction
  <2> QED
    BY <2>1
<1> QED
  BY <1>3, <1>4, <1>5, <1>6

LEMMA ChangesAreKnown ==
    ASSUME NEW raws, Listed(raws), NEW defs, NEW intended, ~NormalizeSchemaActions(raws, defs, intended).invalid
    PROVE  LET ops == NormalizeSchemaActions(raws, defs, intended).actions
           IN  /\ Listed(ops)
               /\ \A i \in 1..Len(ops) : ops[i].do \in {"create_field", "update_field", "delete_field"}
<1>1. PICK planned : planned = NamesAfter(raws, defs, intended)
  OBVIOUS
<1>2. PICK ops : ops = [n \in 1..Len(raws) |-> NormalizeSchemaAction(raws[n], defs, planned[n - 1], intended)]
  OBVIOUS
<1>3. /\ NormalizeSchemaActions(raws, defs, intended).actions = ops
      /\ Rejection \notin ToSet(ops)
  BY <1>1, <1>2 DEF NormalizeSchemaActions
<1>4. Len(raws) \in Nat
  BY ListFacts
<1>5. Listed(ops) /\ Len(ops) = Len(raws) /\ DOMAIN ops = 1..Len(raws)
  <2>1. ops = [n \in 1..Len(raws) |-> ops[n]]
    BY <1>2
  <2> QED
    BY <1>2, <1>4, <2>1, ListMade
<1>6. ASSUME NEW i \in 1..Len(raws)
      PROVE  ops[i].do \in {"create_field", "update_field", "delete_field"}
  <2>1. ops[i] = NormalizeSchemaAction(raws[i], defs, planned[i - 1], intended)
    BY <1>2
  <2>2. ops[i] # Rejection
    BY <1>3, <1>5 DEF ToSet
  <2> QED
    BY <2>1, <2>2, ActionsAreKnown
<1> QED
  BY <1>3, <1>5, <1>6

\* The rules' answers are lists, too.
LEMMA RuleActionsListed ==
    ASSUME NEW asked, IsList(asked.renames), IsList(asked.deletes), IsList(asked.creates), NEW defs
    PROVE  Listed(RuleActions(asked, defs))
<1> DEFINE known == FieldNames(defs) \cup {asked.renames[i].field : i \in DOMAIN asked.renames}
                      \cup {asked.deletes[i].field : i \in DOMAIN asked.deletes}
           new == {i \in DOMAIN asked.creates : asked.creates[i].field \notin known}
           nth(n) == CHOOSE i \in new : Cardinality({j \in new : j <= i}) = n
           rest == [n \in 1..Cardinality(new) |-> asked.creates[nth(n)]]
<1>1. Listed(asked.renames) /\ Listed(asked.deletes) /\ Listed(asked.creates)
  BY DEF IsList, Listed
<1>2. RuleActions(asked, defs) = asked.renames \o asked.deletes \o rest
  BY DEF RuleActions
<1>3. Cardinality(new) \in Nat
  <2>1. DOMAIN asked.creates = 1..Len(asked.creates) /\ Len(asked.creates) \in Nat
    BY <1>1, ListFacts
  <2>2. IsFiniteSet(1..Len(asked.creates))
    BY <2>1, FS_Interval
  <2>3. new \subseteq 1..Len(asked.creates)
    BY <2>1
  <2>4. IsFiniteSet(new)
    BY <2>2, <2>3, FS_Subset
  <2> HIDE DEF new
  <2> QED
    BY <2>4, FS_CardinalityType
<1> HIDE DEF nth, new
<1>4. Listed(rest)
  <2>1. rest = [n \in 1..Cardinality(new) |-> rest[n]]
    OBVIOUS
  <2> HIDE DEF rest
  <2> QED
    BY <1>3, <2>1, ListMade
<1>5. Listed(asked.renames \o asked.deletes)
  BY <1>1, ListJoined
<1> HIDE DEF rest
<1> QED
  BY <1>2, <1>4, <1>5, ListJoined

LEMMA WritesListed ==
    ASSUME NEW requests, Listed(requests)
    PROVE  /\ Listed(Writes(requests)) /\ Len(Writes(requests)) = Len(requests)
           /\ \A i \in 1..Len(requests) : /\ Writes(requests)[i].do = Operation
                                          /\ Writes(requests)[i].id = requests[i].rid
<1>1. Len(requests) \in Nat /\ DOMAIN requests = 1..Len(requests)
  BY ListFacts
<1>2. PICK ops : ops = [i \in 1..Len(requests) |-> RecordWrite(Operation, requests[i].rid, requests[i].fields)]
  OBVIOUS
<1>3. Writes(requests) = ops
  BY <1>1, <1>2 DEF Writes
<1>4. ops = [i \in 1..Len(requests) |-> ops[i]]
  BY <1>2
<1>5. Listed(ops) /\ Len(ops) = Len(requests)
  BY <1>1, <1>4, ListMade
<1>6. \A i \in 1..Len(requests) : ops[i].do = Operation /\ ops[i].id = requests[i].rid
  BY <1>2 DEF RecordWrite
<1> QED
  BY <1>3, <1>5, <1>6

\* A request keeps the record's id it gives, once when it is validated, and again when it is
\* read back.
LEMMA NormalizedKeepsRecord ==
    ASSUME NEW operation, NEW explicit, NEW text, NEW defs, "record_id" \in explicit.given,
           NEW given, NEW pairs, NEW rid, NEW conditions, NEW page,
           explicit = RawRequest(given, pairs, rid, conditions, page)
    PROVE  NormalizeWriteRequest(operation, explicit, text, defs).rid = rid
<1>1. PICK generated : generated = BuildWriteRequest(operation, text, defs)
  OBVIOUS
<1>2. Completed(explicit, generated).rid = rid
  BY DEF Completed, RawRequest
<1>3. PICK completed : completed = Completed(explicit, generated)
  OBVIOUS
<1>4. CheckedRequest(operation, completed, defs).rid = completed.rid
  BY DEF CheckedRequest, Checked
<1> QED
  BY <1>1, <1>2, <1>3, <1>4 DEF NormalizeWriteRequest

-----------------------------------------------------------------------------
(* What is in the artifacts.                                               *)

LEMMA KeyKept ==
    ASSUME NEW data, Saved(data), NEW k, k # Current.gives
    PROVE  /\ k \in DOMAIN artifacts' <=> k \in DOMAIN artifacts
           /\ k \in DOMAIN artifacts => artifacts'[k] = artifacts[k]
BY DEF Saved

ResultKeys == {"write_result", "feishu.schema_change_result"}

\* Finishing a tool that writes.
Finishes == RefuseWrite \/ SendRejected \/ SendLost \/ WriteDone \/ RefreshFails \/ RefreshSave

\* Each artifact is saved by one kind of step.
LEMMA Writers ==
    ASSUME ByPlan, Saves
    PROVE  /\ Current.gives \in SchemaKeys => ReadSchema
           /\ Current.gives = "feishu.candidate_records" => ReadRecords \/ ReadFails
           /\ Current.gives \in PayloadKeys => ParseRecord
           /\ Current.gives = "feishu.schema_change_payload" => ParseSchemaChange
           /\ Current.gives = "feishu.record_match" => MatchRecord
           /\ Current.gives = "validation.write_payload" => ValidateRecord
           /\ Current.gives = "validation.schema_change_payload" => ValidateSchemaChange
           /\ Current.gives \in Confirmations => Confirm
           /\ Current.gives \in ResultKeys <=> Finishes
<1>1. Going
  BY SavesDo
<1>2. SavesOwn(Current) /\ ReadsRight(Current)
  BY <1>1, CurrentFacts
<1>3. READ_TOOL # READ_SCHEMA_TOOL /\ READ_TOOL \notin WRITE_TOOLS /\ READ_SCHEMA_TOOL \notin WRITE_TOOLS
      /\ RECORD_TOOLS \subseteq WRITE_TOOLS /\ CHANGE_SCHEMA_TOOL \in WRITE_TOOLS
  BY Names7 DEF RECORD_TOOLS
<1> DEFINE kind == Current.kind
           uses == Current.uses
           gives == Current.gives
           needs == Current.needs
<1>4. ReadSchema => kind = "tool" /\ uses = READ_SCHEMA_TOOL
  BY DEF ReadSchema, Uses
<1>5. ParseRecord => kind = "agent" /\ uses = "parse_feishu_record.v1"
  BY DEF ParseRecord, IsAgent
<1>6. ParseSchemaChange => kind = "agent" /\ uses = "parse_feishu_schema_change.v1"
  BY DEF ParseSchemaChange, IsAgent
<1>7. ParseRecordDraft => kind = "agent" /\ uses = "parse_record_draft.v1"
  BY DEF ParseRecordDraft, IsAgent
<1>8. ReadRecords \/ ReadFails => kind = "tool" /\ uses = READ_TOOL
  BY DEF ReadRecords, ReadFails, Uses
<1>9. MatchRecord => kind = "agent" /\ uses = "search_feishu_record.v1"
  BY DEF MatchRecord, IsAgent
<1>10. ValidateRecord => kind = "validation" /\ needs \cap PayloadKeys # {}
  BY DEF ValidateRecord, Validates
<1>11. ValidateSchemaChange => kind = "validation" /\ "feishu.schema_change_payload" \in needs
  BY DEF ValidateSchemaChange, Validates
<1>12. Confirm => kind = "confirm"
  BY DEF Confirm, ByPlan
<1>13. Finishes => kind = "tool" /\ uses \in WRITE_TOOLS
  BY <1>3 DEF Finishes, RefuseWrite, SendRejected, SendLost, WriteDone, RefreshFails, RefreshSave, Refreshing,
         Writing, Uses
<1>14. Saves => \/ ReadSchema \/ ParseRecord \/ ParseSchemaChange \/ ParseRecordDraft
                \/ ReadRecords \/ ReadFails \/ MatchRecord \/ ValidateRecord \/ ValidateSchemaChange
                \/ Confirm \/ Finishes
  BY DEF Saves, Finishes
<1>15. /\ gives \in SchemaKeys <=> kind = "tool" /\ uses = READ_SCHEMA_TOOL
       /\ gives \in {"feishu.candidate_records", "feishu.records"} <=> kind = "tool" /\ uses = READ_TOOL
       /\ gives \in ResultKeys <=> kind = "tool" /\ uses \in WRITE_TOOLS
       /\ gives \in PayloadKeys <=> kind = "agent" /\ uses = "parse_feishu_record.v1"
       /\ gives = "feishu.schema_change_payload" <=> kind = "agent" /\ uses = "parse_feishu_schema_change.v1"
       /\ gives = "feishu.record_match" <=> kind = "agent" /\ uses = "search_feishu_record.v1"
       /\ gives \in {"validation.write_payload", "validation.schema_change_payload"} <=> kind = "validation"
       /\ gives = "validation.schema_change_payload"
            <=> kind = "validation" /\ "feishu.schema_change_payload" \in needs
       /\ gives \in Confirmations <=> kind = "confirm"
       /\ gives = "validation.schema_change_payload" => needs \cap PayloadKeys = {}
  BY <1>2 DEF SavesOwn, ReadsRight, ResultKeys, RequestKeys
<1> HIDE DEF kind, uses, gives, needs
<1>16. /\ gives \in SchemaKeys => ReadSchema
       /\ gives = "feishu.candidate_records" => ReadRecords \/ ReadFails
       /\ gives \in ResultKeys <=> Finishes
  BY <1>3, <1>4, <1>5, <1>6, <1>7, <1>8, <1>9, <1>10, <1>11, <1>12, <1>13, <1>14, <1>15
<1>17. /\ gives \in PayloadKeys => ParseRecord
       /\ gives = "feishu.schema_change_payload" => ParseSchemaChange
       /\ gives = "feishu.record_match" => MatchRecord
  BY <1>4, <1>5, <1>6, <1>7, <1>8, <1>9, <1>10, <1>11, <1>12, <1>13, <1>14, <1>15
<1>18. /\ gives = "validation.write_payload" => ValidateRecord
       /\ gives = "validation.schema_change_payload" => ValidateSchemaChange
       /\ gives \in Confirmations => Confirm
  BY <1>4, <1>5, <1>6, <1>7, <1>8, <1>9, <1>10, <1>11, <1>12, <1>13, <1>14, <1>15
<1> QED
  BY <1>16, <1>17, <1>18 DEF gives

\* The steps that write nothing.
LEMMA SavesQuietly ==
    ASSUME Saves, ~Finishes
    PROVE  UNCHANGED << feishu, cache, elsewhere, job, meddled, shown, sent >>
BY DEF Saves, Finishes, ReadSchema, ParseRecord, ParseSchemaChange, ParseRecordDraft, ReadRecords, ReadFails,
       MatchRecord, ValidateRecord, ValidateSchemaChange, Confirm

\* Whatever else happens, the artifacts stay.
LEMMA OnlySavesSave ==
    ASSUME ByPlan, [FeishuNext]_feishuVars, ~Saves, ~Invoke
    PROVE  UNCHANGED << job, artifacts >>
BY FeishuSteps, EndsKeep, OthersKeep
   DEF Ask, LoadMock, LoadCached, ListFields, SaveListed, ListFails, PrepareWrite, StartChange, Send, RefreshList,
       feishuVars

\* A draft of records is a list of requests,
Drafted ==
    \A k \in PayloadKeys \cap DOMAIN artifacts :
        /\ Listed(artifacts[k].draft.raws)
        /\ \A i \in DOMAIN artifacts[k].draft.raws : IsRequest(artifacts[k].draft.raws[i])
\* and a draft of a change a list of actions.
DraftedChange ==
    "feishu.schema_change_payload" \in DOMAIN artifacts =>
        Listed(artifacts["feishu.schema_change_payload"].draft.raws)
\* A matched record is one of the candidates.
Matched ==
    "feishu.record_match" \in DOMAIN artifacts =>
        /\ "feishu.candidate_records" \in DOMAIN artifacts
        /\ artifacts["feishu.record_match"] \in ToSet(artifacts["feishu.candidate_records"])

LEMMA InvokeClears ==
    ASSUME ByPlan, Invoke
    PROVE  DOMAIN artifacts' = {} /\ shown' = NothingShown /\ sent' = << >> /\ step' = At(1) /\ meddled' = meddled
           /\ feishu' = feishu /\ cache' = cache /\ standing' = "running"
BY DEF ByPlan, Invoke

LEMMA JobFacts ==
    ASSUME job \in Jobs
    PROVE  IsList(job.asked.renames) /\ IsList(job.asked.deletes) /\ IsList(job.asked.creates)
BY JobsAssumption

LEMMA DraftedStep ==
    ASSUME ByPlan, Drafted, [FeishuNext]_feishuVars
    PROVE  Drafted'
<1>1. CASE Invoke
  BY <1>1, InvokeClears DEF Drafted
<1>2. CASE ~Saves /\ ~Invoke
  BY <1>2, OnlySavesSave DEF Drafted
<1>3. CASE Saves
  <2>1. PICK data : Save(data)
    BY <1>3, SavesDo
  <2>2. Saved(data)
    BY <1>3, <2>1, SavesDo, SavesNext
  <2>3. ASSUME NEW k \in PayloadKeys \cap DOMAIN artifacts'
        PROVE  /\ Listed(artifacts'[k].draft.raws)
               /\ \A i \in DOMAIN artifacts'[k].draft.raws : IsRequest(artifacts'[k].draft.raws[i])
    <3>1. CASE k # Current.gives
      BY <2>2, <2>3, <3>1, KeyKept DEF Drafted
    <3>2. CASE k = Current.gives
      <4>1. ParseRecord /\ job \in Jobs
        BY <1>3, <2>3, <3>2, Writers, SavesDo, CurrentFacts
      <4>2. PICK draft : /\ draft \in IF job.llm THEN Drafts ELSE {RuleDraft(TableFields)}
                         /\ Save([draft |-> draft, context |-> TableFields])
        BY <4>1 DEF ParseRecord
      <4>3. artifacts'[k].draft = draft
        <5>1. Saved([draft |-> draft, context |-> TableFields])
          BY <1>3, <4>2, SavesDo, SavesNext
        <5> QED
          BY <3>2, <5>1 DEF Saved
      <4>4. CASE job.llm
        <5>1. draft \in Drafts
          BY <4>2, <4>4
        <5>2. IsList(draft.raws) /\ \A i \in DOMAIN draft.raws : IsRequest(draft.raws[i])
          BY <5>1, JobsAssumption
        <5> QED
          BY <4>3, <5>2 DEF IsList, Listed
      <4>5. CASE ~job.llm
        <5>1. PICK raw : raw = BuildWriteRequest(Operation, job.text, TableFields.fields)
          OBVIOUS
        <5>2. draft.raws = << raw >>
          BY <4>2, <4>5, <5>1 DEF RuleDraft, Draft
        <5>3. IsRequest(raw)
          BY <5>1 DEF IsRequest, BuildWriteRequest, RawRequest
        <5>4. Listed(draft.raws) /\ Len(draft.raws) = 1
          BY <5>2, ListOfOne
        <5>5. \A i \in DOMAIN draft.raws : draft.raws[i] = raw
          BY <5>2
        <5> QED
          BY <4>3, <5>3, <5>4, <5>5
      <4> QED
        BY <4>4, <4>5
    <3> QED
      BY <3>1, <3>2
  <2> QED
    BY <2>3 DEF Drafted
<1> QED
  BY <1>1, <1>2, <1>3

LEMMA DraftedChangeStep ==
    ASSUME ByPlan, DraftedChange, [FeishuNext]_feishuVars
    PROVE  DraftedChange'
<1> DEFINE k == "feishu.schema_change_payload"
<1>1. CASE Invoke
  BY <1>1, InvokeClears DEF DraftedChange
<1>2. CASE ~Saves /\ ~Invoke
  BY <1>2, OnlySavesSave DEF DraftedChange
<1>3. CASE Saves /\ Current.gives # k
  <2>1. PICK data : Save(data)
    BY <1>3, SavesDo
  <2>2. Saved(data)
    BY <1>3, <2>1, SavesDo, SavesNext
  <2> QED
    BY <1>3, <2>2, KeyKept DEF DraftedChange
<1>4. CASE Saves /\ Current.gives = k
  <2>1. ParseSchemaChange /\ job \in Jobs
    BY <1>4, Writers, SavesDo, CurrentFacts
  <2>2. PICK draft : /\ draft \in IF job.llm THEN ChangeDrafts ELSE {RuleChange(TableFields)}
                     /\ Save([draft |-> draft, context |-> TableFields])
    BY <2>1 DEF ParseSchemaChange
  <2>3. artifacts'[k].draft = draft
    <3>1. Saved([draft |-> draft, context |-> TableFields])
      BY <1>4, <2>2, SavesDo, SavesNext
    <3> QED
      BY <1>4, <3>1 DEF Saved
  <2>4. CASE job.llm
    <3>1. IsList(draft.raws)
      BY <2>2, <2>4, JobsAssumption
    <3> QED
      BY <2>3, <3>1 DEF IsList, Listed, DraftedChange
  <2>5. CASE ~job.llm
    <3>1. draft.raws = RuleActions(job.asked, TableFields.fields)
      BY <2>2, <2>5 DEF RuleChange
    <3>2. Listed(draft.raws)
      BY <2>1, <3>1, JobFacts, RuleActionsListed
    <3> QED
      BY <2>3, <3>2 DEF DraftedChange
  <2> QED
    BY <2>4, <2>5
<1> QED
  BY <1>1, <1>2, <1>3, <1>4

LEMMA MatchedStep ==
    ASSUME ByPlan, Matched, [FeishuNext]_feishuVars
    PROVE  Matched'
<1> DEFINE k == "feishu.record_match"
           c == "feishu.candidate_records"
<1>1. CASE Invoke
  BY <1>1, InvokeClears DEF Matched
<1>2. CASE ~Saves /\ ~Invoke
  BY <1>2, OnlySavesSave DEF Matched
<1>3. CASE Saves /\ Current.gives # k
  <2>1. PICK data : Save(data)
    BY <1>3, SavesDo
  <2>2. Saved(data)
    BY <1>3, <2>1, SavesDo, SavesNext
  <2>3. CASE k \notin DOMAIN artifacts
    BY <1>3, <2>2, <2>3, KeyKept DEF Matched
  <2>4. CASE k \in DOMAIN artifacts
    BY <1>3, <2>2, <2>4 DEF Matched, Saved
  <2> QED
    BY <2>3, <2>4
<1>4. CASE Saves /\ Current.gives = k
  <2>1. MatchRecord
    BY <1>4, Writers
  <2>2. PICK rid \in Answers : EnsureMatchedRecord(rid, Candidates) /\ Save(rid)
    BY <2>1 DEF MatchRecord
  <2>3. Saved(rid)
    BY <1>4, <2>2, SavesDo, SavesNext
  <2>4. c \in DOMAIN artifacts
    BY <1>4, SavesDo, CurrentFacts DEF ReadsRight
  <2>5. artifacts'[k] = rid /\ artifacts'[c] = artifacts[c] /\ c \in DOMAIN artifacts'
    BY <1>4, <2>3, <2>4 DEF Saved
  <2>6. rid \in ToSet(artifacts[c])
    BY <2>2 DEF EnsureMatchedRecord, Candidates
  <2> QED
    BY <2>5, <2>6 DEF Matched
<1> QED
  BY <1>1, <1>2, <1>3, <1>4

\* What validation lets pass of records: an operation for each request.  Where a record is
\* changed, it is the one that was matched.
CheckedRecords ==
    "validation.write_payload" \in DOMAIN artifacts =>
        LET a == artifacts["validation.write_payload"]
        IN  /\ Listed(a.requests) /\ Listed(a.ops) /\ Len(a.ops) = Len(a.requests)
            /\ \A i \in 1..Len(a.ops) : a.ops[i].do = Operation /\ a.ops[i].id = a.requests[i].rid
            /\ Operation # "create_record" =>
                 /\ "feishu.record_match" \in DOMAIN artifacts
                 /\ \A i \in 1..Len(a.ops) : a.requests[i].rid = artifacts["feishu.record_match"]
\* And of a change: a list of actions on columns.
CheckedChange ==
    "validation.schema_change_payload" \in DOMAIN artifacts =>
        LET ops == artifacts["validation.schema_change_payload"].ops
        IN  /\ Listed(ops)
            /\ \A i \in 1..Len(ops) : ops[i].do \in {"create_field", "update_field", "delete_field"}

\* A request gets the matched record's id.
WithRecord(raw, rid) == [raw EXCEPT !.rid = rid, !.given = @ \cup {"record_id"}]
LEMMA WithRecordKeeps ==
    ASSUME NEW raw, IsRequest(raw), NEW rid, NEW operation, NEW text, NEW defs
    PROVE  NormalizeWriteRequest(operation, WithRecord(raw, rid), text, defs).rid = rid
<1>1. PICK given, pairs, old, conditions, page : raw = RawRequest(given, pairs, old, conditions, page)
  BY DEF IsRequest
<1>2. PICK r : r = [raw EXCEPT !.rid = rid]
  OBVIOUS
<1>3. r = RawRequest(given, pairs, rid, conditions, page)
  BY <1>1, <1>2 DEF RawRequest
<1>4. WithRecord(raw, rid) = [r EXCEPT !.given = @ \cup {"record_id"}]
  BY <1>2 DEF WithRecord
<1>5. WithRecord(raw, rid) = RawRequest(given \cup {"record_id"}, pairs, rid, conditions, page)
  BY <1>3, <1>4 DEF RawRequest
<1>6. PICK more : more = given \cup {"record_id"}
  OBVIOUS
<1>7. PICK explicit : explicit = RawRequest(more, pairs, rid, conditions, page)
  OBVIOUS
<1>8. "record_id" \in explicit.given
  BY <1>6, <1>7 DEF RawRequest
<1>9. NormalizeWriteRequest(operation, explicit, text, defs).rid = rid
  BY <1>7, <1>8, NormalizedKeepsRecord
<1> QED
  BY <1>5, <1>6, <1>7, <1>9

LEMMA CheckedRecordsStep ==
    ASSUME ByPlan, Drafted, CheckedRecords, [FeishuNext]_feishuVars
    PROVE  CheckedRecords'
<1> DEFINE k == "validation.write_payload"
           m == "feishu.record_match"
<1>1. CASE Invoke
  BY <1>1, InvokeClears DEF CheckedRecords
<1>2. ASSUME job' = job
      PROVE  Operation' = Operation
  BY <1>2 DEF Operation
<1>3. CASE ~Saves /\ ~Invoke
  <2>1. artifacts' = artifacts /\ job' = job
    BY <1>3, OnlySavesSave
  <2> QED
    BY <1>2, <2>1 DEF CheckedRecords
<1>4. CASE Saves /\ Current.gives # k
  <2>1. PICK data : Save(data)
    BY <1>4, SavesDo
  <2>2. Saved(data)
    BY <1>4, <2>1, SavesDo, SavesNext
  <2>3. Operation' = Operation
    BY <1>2, <2>2 DEF Saved
  <2>4. CASE k \notin DOMAIN artifacts
    BY <1>4, <2>2, <2>4, KeyKept DEF CheckedRecords
  <2>5. CASE k \in DOMAIN artifacts
    <3>1. k \in DOMAIN artifacts' /\ artifacts'[k] = artifacts[k]
      BY <1>4, <2>2, <2>5 DEF Saved
    <3>2. m \in DOMAIN artifacts => m \in DOMAIN artifacts' /\ artifacts'[m] = artifacts[m]
      BY <1>4, <2>2 DEF Saved
    <3>3. PICK a : a = artifacts[k]
      OBVIOUS
    <3>4. CheckedRecords <=>
            /\ Listed(a.requests) /\ Listed(a.ops) /\ Len(a.ops) = Len(a.requests)
            /\ \A i \in 1..Len(a.ops) : a.ops[i].do = Operation /\ a.ops[i].id = a.requests[i].rid
            /\ Operation # "create_record" =>
                 /\ m \in DOMAIN artifacts
                 /\ \A i \in 1..Len(a.ops) : a.requests[i].rid = artifacts[m]
      BY <2>5, <3>3 DEF CheckedRecords
    <3> QED
      BY <2>3, <3>1, <3>2, <3>3, <3>4 DEF CheckedRecords
  <2> QED
    BY <2>4, <2>5
<1>5. CASE Saves /\ Current.gives = k
  <2>1. ValidateRecord /\ Going
    BY <1>5, Writers, SavesDo
  <2>2. PICK raws : raws = Payload.draft.raws
    OBVIOUS
  <2>3. PICK requests : requests = Normalized(raws, Payload.context.fields)
    OBVIOUS
  <2>4. PICK data : data = [requests |-> requests, ops |-> Writes(requests),
                            context |-> Payload.context, mock |-> Payload.draft.mock]
    OBVIOUS
  <2>5. Save(data)
    <3>1. standing' # "failed"
      <4>1. PICK other : Save(other)
        BY <1>5, SavesDo
      <4> QED
        BY <4>1 DEF Save
    <3> QED
      BY <2>1, <2>2, <2>3, <2>4, <3>1 DEF ValidateRecord, Fail
  <2>6. Saved(data)
    BY <2>5, <1>5, SavesDo, SavesNext
  <2>7. artifacts'[k] = data /\ Operation' = Operation
    BY <1>2, <1>5, <2>6 DEF Saved
  <2>8. /\ Current.needs \subseteq DOMAIN artifacts
        /\ Operation # "create_record" <=> m \in Current.needs
    <3>1. /\ Matches(Steps, Operation) /\ step.at \in 1..Len(Steps)
          /\ Current.needs \subseteq DOMAIN artifacts
      BY <2>1, CurrentFacts
    <3> QED
      BY <1>5, <3>1 DEF Matches, Current
  <2>9. Listed(raws) /\ \A i \in DOMAIN raws : IsRequest(raws[i])
    <3>1. PICK p : p = CHOOSE q \in PayloadKeys \cap Current.needs : TRUE
      OBVIOUS
    <3>2. p \in PayloadKeys \cap DOMAIN artifacts
      BY <2>1, <2>8, <3>1 DEF ValidateRecord
    <3>3. raws = artifacts[p].draft.raws
      BY <2>2, <3>1 DEF Payload
    <3> QED
      BY <3>2, <3>3 DEF Drafted
  <2>10. DOMAIN raws = 1..Len(raws) /\ Len(raws) \in Nat
    BY <2>9, ListFacts
  <2>11. Listed(requests) /\ Len(requests) = Len(raws)
    <3>1. requests = [i \in 1..Len(raws) |-> requests[i]]
      BY <2>3, <2>10 DEF Normalized
    <3> QED
      BY <2>10, <3>1, ListMade
  <2>12. ASSUME Operation # "create_record"
         PROVE  \A i \in 1..Len(raws) : requests[i].rid = artifacts[m]
    <3>1. SUFFICES ASSUME NEW i \in 1..Len(raws) PROVE requests[i].rid = artifacts[m]
      OBVIOUS
    <3>2. Explicit(raws[i]) = WithRecord(raws[i], artifacts[m])
      BY <2>8, <2>12 DEF Explicit, WithRecord
    <3>3. requests[i] = NormalizeWriteRequest(Operation, WithRecord(raws[i], artifacts[m]), job.text,
                                              Payload.context.fields)
      BY <2>3, <2>10, <3>2 DEF Normalized
    <3> QED
      BY <2>9, <2>10, <3>3, WithRecordKeeps
  <2>13. /\ Listed(Writes(requests)) /\ Len(Writes(requests)) = Len(requests)
         /\ \A i \in 1..Len(requests) : /\ Writes(requests)[i].do = Operation
                                        /\ Writes(requests)[i].id = requests[i].rid
    BY <2>11, WritesListed
  <2>14. data.requests = requests /\ data.ops = Writes(requests)
    BY <2>4
  <2>15. Operation # "create_record" => m \in DOMAIN artifacts' /\ artifacts'[m] = artifacts[m]
    BY <1>5, <2>6, <2>8 DEF Saved
  <2> QED
    BY <2>7, <2>11, <2>12, <2>13, <2>14, <2>15 DEF CheckedRecords
<1> QED
  BY <1>1, <1>3, <1>4, <1>5

LEMMA CheckedChangeStep ==
    ASSUME ByPlan, DraftedChange, CheckedChange, [FeishuNext]_feishuVars
    PROVE  CheckedChange'
<1> DEFINE k == "validation.schema_change_payload"
           d == "feishu.schema_change_payload"
<1>1. CASE Invoke
  BY <1>1, InvokeClears DEF CheckedChange
<1>2. CASE ~Saves /\ ~Invoke
  BY <1>2, OnlySavesSave DEF CheckedChange
<1>3. CASE Saves /\ Current.gives # k
  <2>1. PICK data : Save(data)
    BY <1>3, SavesDo
  <2>2. Saved(data)
    BY <1>3, <2>1, SavesDo, SavesNext
  <2> QED
    BY <1>3, <2>2, KeyKept DEF CheckedChange
<1>4. CASE Saves /\ Current.gives = k
  <2>1. ValidateSchemaChange /\ Going
    BY <1>4, Writers, SavesDo
  <2>2. PICK payload : payload = artifacts[d]
    OBVIOUS
  <2>3. PICK checked : checked = NormalizeSchemaActions(payload.draft.raws, payload.context.fields, job.deletes)
    OBVIOUS
  <2>4. PICK data : data = [requests |-> << >>, ops |-> checked.actions,
                            context |-> payload.context, mock |-> payload.draft.mock]
    OBVIOUS
  <2>5. Save(data) /\ ~checked.invalid
    <3>1. standing' # "failed"
      <4>1. PICK other : Save(other)
        BY <1>4, SavesDo
      <4> QED
        BY <4>1 DEF Save
    <3> QED
      BY <2>1, <2>2, <2>3, <2>4, <3>1 DEF ValidateSchemaChange, Fail
  <2>6. artifacts'[k] = data
    <3>1. Saved(data)
      BY <2>5, <1>4, SavesDo, SavesNext
    <3> QED
      BY <1>4, <3>1 DEF Saved
  <2>7. Listed(payload.draft.raws)
    <3>1. d \in DOMAIN artifacts
      BY <2>1, CurrentFacts DEF ValidateSchemaChange
    <3> QED
      BY <2>2, <3>1 DEF DraftedChange
  <2>8. /\ Listed(checked.actions)
        /\ \A i \in 1..Len(checked.actions) :
             checked.actions[i].do \in {"create_field", "update_field", "delete_field"}
    BY <2>3, <2>5, <2>7, ChangesAreKnown
  <2>9. data.ops = checked.actions
    BY <2>4
  <2> QED
    BY <2>6, <2>8, <2>9 DEF CheckedChange
<1> QED
  BY <1>1, <1>2, <1>3, <1>4

-----------------------------------------------------------------------------
(* What was shown, and what is sent.                                       *)

Loading == LoadMock \/ LoadCached \/ ListFields \/ SaveListed \/ ListFails

\* Where reading the columns gets a step.
LEMMA LoadingDoes ==
    ASSUME ByPlan
    PROVE  /\ Loading => step'.done = step.done /\ step'.at = step.at /\ UNCHANGED << feishu, meddled, sent, shown, job, artifacts, standing >>
           /\ LoadMock => step'.where = "loaded" /\ step'.context = Context("mock", feishu.fields)
           /\ LoadCached => step'.where = "loaded" /\ step'.context = Context("feishu", cache)
           /\ ListFields => step'.where = "listed" /\ step'.listed = feishu.fields
           /\ SaveListed => step'.where = "loaded" /\ step'.context = Context("feishu", step.listed)
           /\ ListFails => step'.where = "loaded" /\ step'.context = Context("feishu_error", << >>)
<1>1. step = Doing(step.at, step.where, step.listed, step.context, step.ops, step.done)
  BY DEF ByPlan, IsDoing
<1>2. ASSUME NEW context, Load(context)
      PROVE  step'.where = "loaded" /\ step'.context = context /\ step'.done = step.done /\ step'.at = step.at
  <2>1. step' = Loaded(step, context, NoList)
    BY <1>2 DEF Load, Loaded
  <2>2. step' = Doing(step.at, "loaded", NoList, context, step.ops, step.done)
    BY <1>1, <2>1, TwoFields
  <2> QED
    BY <2>2 DEF Doing
<1>3. ASSUME ListFields
      PROVE  step'.where = "listed" /\ step'.listed = feishu.fields /\ step'.done = step.done /\ step'.at = step.at
  <2>1. step' = Lists(step, feishu.fields)
    BY <1>3 DEF ListFields, Lists
  <2>2. step' = Doing(step.at, "listed", feishu.fields, step.context, step.ops, step.done)
    BY <1>1, <2>1, OneField
  <2> QED
    BY <2>2 DEF Doing
<1>4. LoadMock => step'.where = "loaded" /\ step'.context = Context("mock", feishu.fields) /\ step'.done = step.done /\ step'.at = step.at
  BY <1>2 DEF LoadMock
<1>5. LoadCached => step'.where = "loaded" /\ step'.context = Context("feishu", cache) /\ step'.done = step.done /\ step'.at = step.at
  BY <1>2 DEF LoadCached
<1>6. SaveListed => step'.where = "loaded" /\ step'.context = Context("feishu", step.listed) /\ step'.done = step.done /\ step'.at = step.at
  BY <1>2 DEF SaveListed
<1>7. ListFails => step'.where = "loaded" /\ step'.context = Context("feishu_error", << >>) /\ step'.done = step.done /\ step'.at = step.at
  BY <1>2 DEF ListFails
<1>8. Loading => UNCHANGED << feishu, meddled, sent, shown, job, artifacts, standing >>
  BY DEF Loading, LoadMock, LoadCached, ListFields, SaveListed, ListFails
<1> QED
  BY <1>3, <1>4, <1>5, <1>6, <1>7, <1>8 DEF Loading

AtWriteTool == standing = "running" /\ Current.kind = "tool" /\ Current.uses \in WRITE_TOOLS

\* The artifact of a validation that a tool carries out.
CheckedKey(uses) == IF uses = CHANGE_SCHEMA_TOOL THEN "validation.schema_change_payload"
                    ELSE "validation.write_payload"

LEMMA ValidatedIs ==
    ASSUME ByPlan, AtWriteTool
    PROVE  /\ Validated = artifacts[CheckedKey(Current.uses)]
           /\ CheckedKey(Current.uses) \in DOMAIN artifacts
           /\ Current.gives \in ResultKeys /\ Current.gives \notin DOMAIN artifacts
           /\ Current.gives = "feishu.schema_change_result" <=> Current.uses = CHANGE_SCHEMA_TOOL
<1>1. /\ SavesOwn(Current) /\ ReadsRight(Current) /\ Current.needs \subseteq DOMAIN artifacts
      /\ Current.gives \notin DOMAIN artifacts
  BY CurrentFacts DEF AtWriteTool, Going
<1>2. Current.needs = {CheckedKey(Current.uses)}
  BY <1>1 DEF AtWriteTool, ReadsRight, CheckedKey
<1>3. Current.needs \cap RequestKeys = {CheckedKey(Current.uses)}
  BY <1>2 DEF CheckedKey, RequestKeys
<1>4. (CHOOSE k \in {CheckedKey(Current.uses)} : TRUE) = CheckedKey(Current.uses)
  OBVIOUS
<1>5. Validated = artifacts[CheckedKey(Current.uses)]
  BY <1>3, <1>4 DEF Validated
<1>6. /\ Current.gives \in ResultKeys
      /\ Current.gives = "feishu.schema_change_result" <=> Current.uses = CHANGE_SCHEMA_TOOL
  BY <1>1 DEF AtWriteTool, SavesOwn, ResultKeys
<1> QED
  BY <1>1, <1>2, <1>5, <1>6

\* The step after a question writes what the question is about.
LEMMA AsksAboutNext ==
    ASSUME ByPlan, Going, Current.kind = "confirm"
    PROVE  LET next == Steps[step.at + 1]
           IN  /\ step.at + 1 \in 1..Len(Steps)
               /\ next.kind = "tool" /\ next.uses \in WRITE_TOOLS
               /\ Current.needs = {CheckedKey(next.uses)}
               /\ next.needs = {CheckedKey(next.uses)}
               /\ CheckedKey(next.uses) \in DOMAIN artifacts
               /\ next.gives \in ResultKeys /\ next.gives \notin DOMAIN artifacts
<1>1. /\ step.at \in 1..Len(Steps) /\ Len(Steps) \in Nat /\ Runs(Steps) /\ Current.needs \subseteq DOMAIN artifacts
      /\ DOMAIN artifacts = {Steps[i].gives : i \in 1..(step.at - 1)}
  BY CurrentFacts
<1> DEFINE next == Steps[step.at + 1]
<1>2. /\ step.at + 1 \in 1..Len(Steps)
      /\ next.kind = "tool" /\ next.uses \in WRITE_TOOLS /\ Current.needs = next.needs
  BY <1>1 DEF Runs, RunsTo, AsksForNext, Current
<1>3. SavesOwn(next) /\ ReadsRight(next)
  BY <1>1, <1>2 DEF Runs, RunsTo
<1>4. next.needs = {CheckedKey(next.uses)} /\ next.gives \in ResultKeys
  BY <1>2, <1>3 DEF SavesOwn, ReadsRight, CheckedKey, ResultKeys
<1>5. next.gives \notin DOMAIN artifacts
  <2>1. SUFFICES ASSUME NEW i \in 1..(step.at - 1), Steps[i].gives = next.gives PROVE FALSE
    BY <1>1
  <2>2. i \in 1..Len(Steps) /\ i # step.at + 1
    BY <1>1
  <2> QED
    BY <1>1, <1>2, <2>1, <2>2 DEF Runs, RunsTo, OwnKeys
<1> QED
  BY <1>1, <1>2, <1>4, <1>5

\* A tool that writes runs after a question only.
LEMMA WritesAfterQuestion ==
    ASSUME ByPlan, Saves, AtWriteTool'
    PROVE  Confirm
<1>1. PICK data : Save(data)
  BY SavesDo
<1>2. Saved(data) /\ Going
  BY <1>1, SavesDo, SavesNext
<1>3. /\ step.at \in 1..Len(Steps) /\ Len(Steps) \in Nat /\ Runs(Steps) /\ SavesOwn(Current)
  BY <1>2, CurrentFacts
<1>4. Steps' = Steps /\ step'.at = step.at + 1 /\ step.at + 1 \in 1..Len(Steps)
  BY <1>2, AtFields DEF Saved, Steps, AtWriteTool
<1>5. Current' = Steps[step.at + 1]
  BY <1>4 DEF Current
<1>6. Steps[step.at + 1].kind = "tool" /\ Steps[step.at + 1].uses \in WRITE_TOOLS
  BY <1>5 DEF AtWriteTool
<1>7. Steps[step.at + 1 - 1].kind = "confirm"
  BY <1>3, <1>4, <1>6 DEF Runs, RunsTo, WasAskedFor
<1>8. Current.kind = "confirm"
  BY <1>3, <1>7 DEF Current
<1>9. Current.gives \in Confirmations
  BY <1>3, <1>8 DEF SavesOwn
<1> QED
  BY <1>9, Writers

LEMMA NotAtFirst ==
    ASSUME ByPlan, Invoke
    PROVE  ~AtWriteTool'
<1>1. ByPlan'
  BY InvokedHere
<1>2. job' \in Jobs /\ step'.at = 1
  BY AtFields, InvokeClears DEF Invoke
<1>3. job'.template \in Templates
  BY <1>2, JobsAssumption
<1>4. Runs(Steps')
  BY <1>3, PlansRun DEF Steps
<1>5. 1 \in 1..Len(Steps') /\ Current' = Steps'[1]
  BY <1>2, <1>4 DEF Runs, RunsTo, Current
<1>6. 1 - 1 \notin 1..Len(Steps')
  BY <1>4 DEF Runs, RunsTo
<1> QED
  BY <1>4, <1>5, <1>6 DEF AtWriteTool, Runs, RunsTo, WasAskedFor

\* What was shown is what the tool is about to carry out.
AskedFor ==
    /\ shown.result \in ResultKeys \cup {"none"}
    /\ standing = "waiting" =>
         LET next == Steps[step.at + 1]
         IN  /\ sent = << >> /\ shown.result = next.gives
             /\ shown.ops = artifacts[CheckedKey(next.uses)].ops
    /\ AtWriteTool => shown.result = Current.gives /\ shown.ops = Validated.ops

LEMMA SameStep ==
    ASSUME UNCHANGED << job, artifacts, standing >>, step'.at = step.at
    PROVE  /\ Steps' = Steps /\ Current' = Current /\ Validated' = Validated /\ Operation' = Operation
           /\ AtWriteTool' <=> AtWriteTool
<1>1. Steps' = Steps /\ Operation' = Operation
  BY DEF Steps, Operation
<1>2. Current' = Current
  BY <1>1 DEF Current
<1> QED
  BY <1>1, <1>2 DEF Validated, AtWriteTool

LEMMA ShownStays ==
    ASSUME Saves
    PROVE  UNCHANGED << job, meddled, shown >>
<1>1. CASE Finishes
  BY <1>1 DEF Finishes, Finish, RefuseWrite, SendRejected, SendLost, WriteDone, RefreshFails, RefreshSave
<1> QED
  BY <1>1, SavesQuietly

LEMMA MovingOn ==
    ASSUME ByPlan, Loading \/ PrepareWrite \/ StartChange \/ Send \/ RefreshList
    PROVE  UNCHANGED << job, artifacts, standing, shown, meddled >> /\ step'.at = step.at
<1>1. CASE Loading
  BY <1>1, LoadingDoes
<1>2. CASE PrepareWrite \/ StartChange \/ Send \/ RefreshList
  BY <1>2, WritingMoves DEF MovesTo, PrepareWrite, StartChange, Send, RefreshList
<1> QED
  BY <1>1, <1>2

LEMMA NotAtWriteTool ==
    ASSUME standing' # "running"
    PROVE  ~AtWriteTool'
BY DEF AtWriteTool

\* What an answer changes.
LEMMA ConfirmDoes ==
    ASSUME ByPlan, Confirm
    PROVE  /\ Saved("confirmed") /\ Steps' = Steps
           /\ UNCHANGED << job, shown, sent, meddled >>
           /\ AtWriteTool' => /\ Current' = Steps[step.at + 1]
                              /\ Validated' = artifacts[CheckedKey(Steps[step.at + 1].uses)]
<1>1. Going /\ Current.kind = "confirm" /\ Save("confirmed") /\ UNCHANGED << job, shown, sent, meddled >>
  BY DEF Confirm, Going, ByPlan
<1>2. Saved("confirmed") /\ ByPlan'
  BY <1>1, SavesNext
<1>3. Steps' = Steps /\ Current' = Steps[step.at + 1]
  BY <1>2, AtFields DEF Saved, Steps, Current
<1>4. ASSUME AtWriteTool'
      PROVE  Validated' = artifacts[CheckedKey(Steps[step.at + 1].uses)]
  <2> DEFINE next == Steps[step.at + 1]
  <2>1. next.needs = {CheckedKey(next.uses)} /\ CheckedKey(next.uses) \in DOMAIN artifacts
    BY <1>1, AsksAboutNext
  <2>2. next.needs \cap RequestKeys = {CheckedKey(next.uses)}
    BY <2>1 DEF CheckedKey, RequestKeys
  <2>3. (CHOOSE k \in {CheckedKey(next.uses)} : TRUE) = CheckedKey(next.uses)
    OBVIOUS
  <2>4. Validated' = artifacts'[CheckedKey(next.uses)]
    BY <1>3, <2>2, <2>3 DEF Validated
  <2> QED
    BY <1>2, <2>1, <2>4 DEF Saved
<1> QED
  BY <1>1, <1>2, <1>3, <1>4

LEMMA AskDoes ==
    ASSUME ByPlan, Ask
    PROVE  LET next == Steps[step.at + 1]
               checked == artifacts[CheckedKey(next.uses)]
           IN  /\ standing' = "waiting" /\ Steps' = Steps /\ step' = step /\ artifacts' = artifacts /\ job' = job
               /\ shown'.ops = checked.ops /\ shown'.context = checked.context
               /\ shown'.result = next.gives /\ shown'.meddled = meddled
               /\ sent' = << >> /\ meddled' = meddled /\ feishu' = feishu /\ cache' = cache
               /\ next.gives \in ResultKeys /\ next.gives \notin DOMAIN artifacts
<1> DEFINE next == Steps[step.at + 1]
<1>1. Going /\ Current.kind = "confirm"
  BY DEF Ask, Going
<1>2. /\ Current.needs = {CheckedKey(next.uses)}
      /\ next.gives \in ResultKeys /\ next.gives \notin DOMAIN artifacts
  BY <1>1, AsksAboutNext
<1>3. (CHOOSE k \in Current.needs : TRUE) = CheckedKey(next.uses)
  BY <1>2
<1>4. Steps' = Steps
  BY DEF Ask, Steps
<1> QED
  BY <1>2, <1>3, <1>4 DEF Ask

LEMMA AskedForStep ==
    ASSUME ByPlan, AskedFor, [FeishuNext]_feishuVars
    PROVE  AskedFor'
<1>1. CASE Invoke
  BY <1>1, InvokeClears, NotAtFirst DEF AskedFor, NothingShown
<1>2. CASE Ask
  <2>1. ~AtWriteTool'
    BY <1>2, AskDoes, NotAtWriteTool
  <2> QED
    BY <1>2, <2>1, AskDoes DEF AskedFor
<1>3. CASE Confirm
  <2>1. standing' # "waiting"
    BY <1>3, ConfirmDoes DEF Saved
  <2> QED
    BY <1>3, <2>1, ConfirmDoes DEF AskedFor, Confirm
<1>4. CASE Saves /\ ~Confirm
  <2>1. PICK data : Save(data)
    BY <1>4, SavesDo
  <2>2. standing' # "waiting"
    BY <2>1 DEF Save
  <2> QED
    BY <1>4, <2>2, ShownStays, WritesAfterQuestion DEF AskedFor
<1>5. CASE Ends
  BY <1>5, EndsKeep, NotAtWriteTool DEF AskedFor
<1>6. CASE Others \/ UNCHANGED feishuVars
  <2>1. UNCHANGED << job, step, artifacts, standing, shown, sent >>
    BY <1>6, OthersKeep DEF feishuVars
  <2> QED
    BY <2>1, SameStep DEF AskedFor
<1>7. CASE Loading \/ PrepareWrite \/ StartChange \/ Send \/ RefreshList
  <2>1. standing = "running"
    BY <1>7 DEF Loading, LoadMock, LoadCached, ListFields, SaveListed, ListFails, Loads, PrepareWrite, StartChange,
           Send, Writing, RefreshList, Refreshing, Uses
  <2> QED
    BY <1>7, <2>1, MovingOn, SameStep DEF AskedFor
<1> QED
  BY <1>1, <1>2, <1>3, <1>4, <1>5, <1>6, <1>7, FeishuSteps DEF Loading

\* A tool has sent what it has not left to send, and so far all of it was done.
SentRight ==
    /\ standing = "waiting" => step.done = 0
    /\ standing = "running" /\ step.where \notin {"writing", "refreshing"} => step.done = 0
    /\ AtWriteTool /\ step.where \notin {"writing", "refreshing"} => sent = << >>
    /\ AtWriteTool /\ step.where \in {"writing", "refreshing"} =>
         /\ Listed(sent) /\ Listed(step.ops)
         /\ step.done = Len(sent) /\ Len(step.ops) + Len(sent) = Len(shown.ops)
         /\ \A i \in 1..Len(sent) : sent[i].done
    /\ AtWriteTool /\ step.where = "refreshing" => step.ops = << >>

LEMMA SendingRecords ==
    ASSUME ByPlan, CheckedRecords, PrepareWrite
    PROVE  Listed(step'.ops) /\ Len(step'.ops) = Len(Validated.ops)
<1>1. AtWriteTool /\ Current.uses # CHANGE_SCHEMA_TOOL
  BY DEF PrepareWrite, Uses, AtWriteTool, RECORD_TOOLS
<1>2. Validated = artifacts["validation.write_payload"] /\ "validation.write_payload" \in DOMAIN artifacts
  BY <1>1, ValidatedIs DEF CheckedKey
<1>3. Listed(Validated.requests) /\ Len(Validated.ops) = Len(Validated.requests)
  BY <1>2 DEF CheckedRecords
<1>4. PICK requests : requests = Prepared1(step.context.fields)
  OBVIOUS
<1>5. Listed(requests) /\ Len(requests) = Len(Validated.requests)
  <2>1. Len(Validated.requests) \in Nat /\ DOMAIN Validated.requests = 1..Len(Validated.requests)
    BY <1>3, ListFacts
  <2>2. requests = [i \in 1..Len(Validated.requests) |-> requests[i]]
    BY <1>4, <2>1 DEF Prepared1
  <2> QED
    BY <2>1, <2>2, ListMade
<1>6. step'.ops = Writes(requests)
  BY <1>4, WritingMoves
<1> QED
  BY <1>3, <1>5, <1>6, WritesListed

LEMMA SentRightStep ==
    ASSUME ByPlan, CheckedRecords, CheckedChange, AskedFor, SentRight, [FeishuNext]_feishuVars
    PROVE  SentRight'
<1>1. CASE Invoke
  BY <1>1, InvokeClears, NotAtFirst, AtFields DEF SentRight
<1>2. CASE Ask
  <2>1. ~AtWriteTool' /\ standing' = "waiting"
    BY <1>2, AskDoes, NotAtWriteTool
  <2>2. standing = "running" /\ Current.kind = "confirm" /\ step' = step
    BY <1>2 DEF Ask
  <2>3. step.where = "start"
    BY <2>2 DEF ByPlan, Fitting
  <2> QED
    BY <2>1, <2>2, <2>3 DEF SentRight
<1>3. CASE Confirm
  <2>1. standing' # "waiting" /\ step'.done = 0 /\ step'.where = "start" /\ standing = "waiting" /\ sent' = sent
    BY <1>3, ConfirmDoes, AtFields DEF Saved, Confirm
  <2> QED
    BY <2>1 DEF SentRight, AskedFor
<1>4. CASE Saves /\ ~Confirm
  <2>1. PICK data : Save(data)
    BY <1>4, SavesDo
  <2>2. standing' # "waiting" /\ step'.done = 0 /\ step'.where = "start"
    BY <2>1, AtFields DEF Save
  <2> QED
    BY <1>4, <2>2, WritesAfterQuestion DEF SentRight
<1>5. CASE Ends
  <2>1. standing' \notin {"running", "waiting"}
    BY <1>5, EndsKeep
  <2> QED
    BY <2>1, NotAtWriteTool DEF SentRight
<1>6. CASE Others \/ UNCHANGED feishuVars
  <2>1. UNCHANGED << job, step, artifacts, standing, shown, sent >>
    BY <1>6, OthersKeep DEF feishuVars
  <2> QED
    BY <2>1, SameStep DEF SentRight
<1>7. CASE Loading
  <2>1. /\ step'.done = step.done /\ UNCHANGED << sent, shown, standing >> /\ step'.where \in {"listed", "loaded"}
        /\ AtWriteTool' <=> AtWriteTool
    BY <1>7, LoadingDoes, SameStep DEF Loading
  <2>2. standing = "running" /\ step.where \in {"start", "listed"}
    BY <1>7 DEF Loading, LoadMock, LoadCached, ListFields, SaveListed, ListFails, Loads, Uses
  <2> QED
    BY <2>1, <2>2 DEF SentRight
<1>8. CASE PrepareWrite \/ StartChange
  <2>1. /\ UNCHANGED << standing, shown, sent >> /\ step'.where = "writing" /\ step'.done = step.done
        /\ AtWriteTool' <=> AtWriteTool
    BY <1>8, MovingOn, SameStep, WritingMoves DEF MovesTo, PrepareWrite, StartChange
  <2>2. AtWriteTool /\ step.where \in {"start", "loaded"}
    BY <1>8, Names7 DEF PrepareWrite, StartChange, Uses, AtWriteTool, RECORD_TOOLS
  <2>3. step'.done = 0 /\ sent' = << >>
    BY <2>1, <2>2 DEF SentRight, AtWriteTool
  <2>4. Listed(step'.ops) /\ Len(step'.ops) = Len(Validated.ops)
    <3>1. CASE PrepareWrite
      BY <3>1, SendingRecords
    <3>2. CASE StartChange
      <4>1. Validated = artifacts["validation.schema_change_payload"]
            /\ "validation.schema_change_payload" \in DOMAIN artifacts
        BY <2>2, <3>2, ValidatedIs DEF CheckedKey, StartChange, Uses
      <4> QED
        BY <3>2, <4>1, WritingMoves DEF CheckedChange
    <3> QED
      BY <1>8, <3>1, <3>2
  <2>5. shown'.ops = Validated.ops
    BY <2>1, <2>2 DEF AskedFor
  <2>6. Len(step'.ops) \in Nat
    BY <2>4, ListFacts
  <2>7. Listed(sent') /\ Len(sent') = 0
    BY <2>3, NoneListed
  <2> QED
    BY <2>1, <2>2, <2>3, <2>4, <2>5, <2>6, <2>7 DEF SentRight, AtWriteTool
<1>9. CASE Send
  <2>1. /\ UNCHANGED << standing, shown >> /\ step'.where = "writing" /\ step'.done = step.done + 1
        /\ step'.ops = Tail(step.ops)
        /\ AtWriteTool' <=> AtWriteTool
    BY <1>9, MovingOn, SameStep, WritingMoves DEF MovesTo
  <2>2. AtWriteTool /\ step.where = "writing" /\ step.ops # << >> /\ sent' = Sent(TRUE)
    BY <1>9 DEF Send, Writing, Uses, AtWriteTool
  <2>3. /\ Listed(sent) /\ Listed(step.ops)
        /\ step.done = Len(sent) /\ Len(step.ops) + Len(sent) = Len(shown.ops)
        /\ \A i \in 1..Len(sent) : sent[i].done
    BY <2>2 DEF SentRight
  <2>4. Listed(Tail(step.ops)) /\ Len(Tail(step.ops)) = Len(step.ops) - 1
    BY <2>2, <2>3, ListRest
  <2>5. PICK x : x = [op |-> Head(step.ops), backend |-> Backend(Validated.mock), context |-> step.context, done |-> TRUE]
    OBVIOUS
  <2>6. sent' = Append(sent, x) /\ x.done
    BY <2>2, <2>5 DEF Sent
  <2>7. /\ Listed(sent') /\ Len(sent') = Len(sent) + 1
        /\ \A i \in 1..Len(sent) : sent'[i] = sent[i]
        /\ sent'[Len(sent) + 1] = x
    BY <2>3, <2>6, ListMore
  <2>8. Len(sent) \in Nat /\ Len(step.ops) \in Nat
    BY <2>3, ListFacts
  <2>9. \A i \in 1..Len(sent') : sent'[i].done
    <3>1. \A i \in 1..(Len(sent) + 1) : i \in 1..Len(sent) \/ i = Len(sent) + 1
      BY <2>8
    <3> QED
      BY <2>3, <2>6, <2>7, <3>1
  <2>10. step'.done = Len(sent') /\ Len(step'.ops) + Len(sent') = Len(shown'.ops)
    <3>1. step'.done = Len(sent')
      BY <2>1, <2>3, <2>7
    <3>2. Len(step'.ops) = Len(step.ops) - 1
      BY <2>1, <2>4
    <3>3. Len(step.ops) - 1 + (Len(sent) + 1) = Len(step.ops) + Len(sent)
      <4>1. \A a, b \in Nat : a - 1 + (b + 1) = a + b
        OBVIOUS
      <4> QED
        BY <2>8, <4>1
    <3>4. shown' = shown
      BY <2>1
    <3> QED
      BY <2>3, <2>7, <3>1, <3>2, <3>3, <3>4
  <2> QED
    BY <2>1, <2>2, <2>4, <2>7, <2>9, <2>10 DEF SentRight, AtWriteTool
<1>10. CASE RefreshList
  <2>1. /\ UNCHANGED << standing, shown, sent >> /\ step'.where = "refreshing" /\ step'.done = step.done
        /\ step'.ops = step.ops
        /\ AtWriteTool' <=> AtWriteTool
    BY <1>10, MovingOn, SameStep, WritingMoves DEF MovesTo, RefreshList
  <2>2. AtWriteTool /\ step.where = "writing" /\ step.ops = << >>
    BY <1>10, Names7 DEF RefreshList, Refreshing, Writing, Uses, AtWriteTool
  <2> QED
    BY <2>1, <2>2 DEF SentRight, AtWriteTool
<1> QED
  BY <1>1, <1>2, <1>3, <1>4, <1>5, <1>6, <1>7, <1>8, <1>9, <1>10, FeishuSteps DEF Loading

-----------------------------------------------------------------------------
(* What is reported.                                                       *)

Done(list) == {i \in DOMAIN list : list[i].done}

LEMMA AllDone ==
    ASSUME NEW list, Listed(list), \A i \in 1..Len(list) : list[i].done
    PROVE  IsFiniteSet(Done(list)) /\ Cardinality(Done(list)) = Len(list) /\ Len(list) \in Nat
<1>1. DOMAIN list = 1..Len(list) /\ Len(list) \in Nat
  BY ListFacts
<1>2. Done(list) = 1..Len(list)
  BY <1>1 DEF Done
<1> QED
  BY <1>1, <1>2, FS_Interval

LEMMA OneMoreSent ==
    ASSUME NEW list, Listed(list), \A i \in 1..Len(list) : list[i].done, NEW x
    PROVE  Cardinality(Done(Append(list, x))) \in {Len(list), Len(list) + 1}
<1>1. DOMAIN list = 1..Len(list) /\ Len(list) \in Nat
  BY ListFacts
<1>2. PICK more : more = Append(list, x)
  OBVIOUS
<1>3. DOMAIN more = 1..(Len(list) + 1) /\ \A i \in 1..Len(list) : more[i].done
  BY <1>2, ListMore
<1>4. Done(more) = 1..Len(list) \/ Done(more) = 1..(Len(list) + 1)
  <2>1. \A i : i \in 1..(Len(list) + 1) <=> i \in 1..Len(list) \/ i = Len(list) + 1
    BY <1>1
  <2>2. CASE more[Len(list) + 1].done
    <3>1. Done(more) = 1..(Len(list) + 1)
      BY <1>3, <2>1, <2>2 DEF Done
    <3> QED
      BY <3>1
  <2>3. CASE ~more[Len(list) + 1].done
    <3>1. Len(list) + 1 \notin 1..Len(list)
      BY <1>1
    <3>2. Done(more) = 1..Len(list)
      BY <1>3, <2>1, <2>3, <3>1 DEF Done
    <3> QED
      BY <3>2
  <2> QED
    BY <2>2, <2>3
<1>5. Cardinality(1..Len(list)) = Len(list) /\ Cardinality(1..(Len(list) + 1)) = Len(list) + 1
  BY <1>1, FS_Interval
<1> QED
  BY <1>2, <1>4, <1>5

\* What a result says of the operations that were sent.
Counts(result) ==
    LET done == Cardinality({i \in DOMAIN sent : sent[i].done})
    IN  /\ result.count <= done /\ done <= result.count + 1
        /\ result.ok => done = result.count /\ done = Len(shown.ops)

\* How a tool ends.
LEMMA FinishDoes ==
    ASSUME ByPlan, SentRight, Finishes
    PROVE  \E ok \in BOOLEAN :
              /\ Saved([ok |-> ok, count |-> step.done])
              /\ AtWriteTool
              /\ ok => /\ step.where \in {"writing", "refreshing"} /\ step.ops = << >> /\ sent' = sent
              /\ sent' = sent \/ \E x : step.where = "writing" /\ sent' = Append(sent, x)
              /\ step.where \in {"loaded", "writing", "refreshing"}
<1>1. AtWriteTool
  BY Names7 DEF Finishes, RefuseWrite, SendRejected, SendLost, WriteDone, RefreshFails, RefreshSave, Refreshing,
         Writing, Uses, AtWriteTool, RECORD_TOOLS
<1>2. ASSUME NEW error \in BOOLEAN, Finish(error)
      PROVE  Saved([ok |-> ~error, count |-> step.done])
  BY <1>1, <1>2, SavesNext DEF Finish, AtWriteTool, Going
<1>3. CASE RefuseWrite
  <2>1. Saved([ok |-> FALSE, count |-> step.done])
    BY <1>2, <1>3 DEF RefuseWrite
  <2> QED
    BY <1>1, <1>3, <2>1 DEF RefuseWrite
<1>4. CASE SendRejected
  <2>1. Saved([ok |-> FALSE, count |-> step.done])
    BY <1>2, <1>4 DEF SendRejected
  <2>2. step.where = "writing" /\ \E x : sent' = Append(sent, x)
    BY <1>4 DEF SendRejected, Sent, Writing
  <2> QED
    BY <1>1, <2>1, <2>2
<1>5. CASE SendLost
  <2>1. Saved([ok |-> FALSE, count |-> step.done])
    BY <1>2, <1>5 DEF SendLost
  <2>2. step.where = "writing" /\ \E x : sent' = Append(sent, x)
    BY <1>5 DEF SendLost, Sent, Writing
  <2> QED
    BY <1>1, <2>1, <2>2
<1>6. CASE WriteDone
  <2>1. Saved([ok |-> TRUE, count |-> step.done])
    BY <1>2, <1>6 DEF WriteDone
  <2> QED
    BY <1>1, <1>6, <2>1 DEF WriteDone, Writing
<1>7. CASE RefreshFails
  <2>1. Saved([ok |-> FALSE, count |-> step.done])
    BY <1>2, <1>7 DEF RefreshFails
  <2> QED
    BY <1>1, <1>7, <2>1 DEF RefreshFails, Refreshing, Writing
<1>8. CASE RefreshSave
  <2>1. Saved([ok |-> TRUE, count |-> step.done])
    BY <1>2, <1>8 DEF RefreshSave
  <2>2. step.where = "refreshing" /\ step.ops = << >> /\ sent' = sent
    BY <1>1, <1>8 DEF RefreshSave, SentRight
  <2> QED
    BY <1>1, <2>1, <2>2
<1> QED
  BY <1>3, <1>4, <1>5, <1>6, <1>7, <1>8 DEF Finishes

LEMMA CountsAtEnd ==
    ASSUME ByPlan, AskedFor, SentRight, Finishes
    PROVE  shown.result = Current.gives /\ shown' = shown /\ Counts(artifacts[shown.result])'
<1>1. PICK ok \in BOOLEAN :
              /\ Saved([ok |-> ok, count |-> step.done])
              /\ AtWriteTool
              /\ ok => step.where \in {"writing", "refreshing"} /\ step.ops = << >> /\ sent' = sent
              /\ sent' = sent \/ \E x : step.where = "writing" /\ sent' = Append(sent, x)
              /\ step.where \in {"loaded", "writing", "refreshing"}
  BY FinishDoes
<1>2. shown.result = Current.gives /\ shown' = shown
  BY <1>1, ShownStays DEF AskedFor, Saves, Finishes
<1>3. artifacts'[shown.result].ok = ok /\ artifacts'[shown.result].count = step.done
  BY <1>1, <1>2 DEF Saved
<1>4. PICK done : done = Cardinality(Done(sent'))
  OBVIOUS
<1>5. SUFFICES /\ step.done <= done /\ done <= step.done + 1
               /\ ok => done = step.done /\ done = Len(shown.ops)
  <2>1. done = Cardinality({i \in DOMAIN sent' : sent'[i].done})
    BY <1>4 DEF Done
  <2> QED
    BY <1>2, <1>3, <2>1 DEF Counts
<1>6. Listed(sent) /\ step.done = Len(sent) /\ \A i \in 1..Len(sent) : sent[i].done
  <2>1. CASE step.where \in {"writing", "refreshing"}
    BY <1>1, <2>1 DEF SentRight
  <2>2. CASE step.where = "loaded"
    <3>1. sent = << >> /\ step.done = 0
      BY <1>1, <2>2 DEF SentRight, AtWriteTool
    <3>2. Listed(sent) /\ Len(sent) = 0
      BY <3>1, NoneListed
    <3> QED
      BY <3>1, <3>2
  <2> QED
    BY <1>1, <2>1, <2>2
<1>7. Cardinality(Done(sent)) = Len(sent) /\ Len(sent) \in Nat
  BY <1>6, AllDone
<1>8. CASE sent' = sent
  <2>1. done = Len(sent)
    BY <1>4, <1>7, <1>8
  <2>2. ASSUME ok
        PROVE  done = Len(shown.ops)
    <3>1. Len(step.ops) + Len(sent) = Len(shown.ops) /\ step.ops = << >>
      BY <1>1, <2>2 DEF SentRight
    <3>2. Len(step.ops) = 0
      BY <3>1, NoneListed
    <3> QED
      BY <1>7, <2>1, <3>1, <3>2
  <2> QED
    BY <1>6, <1>7, <2>1, <2>2
<1>9. CASE sent' # sent
  <2>1. PICK x : ~ok /\ sent' = Append(sent, x)
    BY <1>1, <1>9
  <2> QED
    BY <1>4, <1>6, <1>7, <2>1, OneMoreSent
<1> QED
  BY <1>8, <1>9

LEMMA ReportStep ==
    ASSUME ByPlan, AskedFor, SentRight, ReportCountsApplied, [FeishuNext]_feishuVars
    PROVE  ReportCountsApplied'
<1>1. CASE Invoke
  BY <1>1, InvokeClears DEF ReportCountsApplied
<1>2. CASE Ask
  BY <1>2, AskDoes DEF ReportCountsApplied
<1>3. CASE Finishes
  BY <1>3, CountsAtEnd DEF ReportCountsApplied, Counts
<1>4. CASE Saves /\ ~Finishes
  <2>1. PICK data : Saved(data)
    BY <1>4, SavesDo, SavesNext
  <2>2. shown.result # Current.gives
    <3>1. Current.gives \notin ResultKeys
      BY <1>4, Writers
    <3>2. Current.gives # "none"
      BY <2>1, CurrentFacts DEF Saved, SavesOwn
    <3> QED
      BY <3>1, <3>2 DEF AskedFor
  <2>3. UNCHANGED << shown, sent >>
    BY <1>4, SavesQuietly
  <2> QED
    BY <2>1, <2>2, <2>3, KeyKept DEF ReportCountsApplied
<1>5. CASE Ends \/ Others \/ UNCHANGED feishuVars
  BY <1>5, EndsKeep, OthersKeep DEF ReportCountsApplied, feishuVars
<1>6. CASE Loading \/ PrepareWrite \/ StartChange \/ RefreshList
  <2>1. UNCHANGED << artifacts, shown, sent >>
    BY <1>6, LoadingDoes DEF PrepareWrite, StartChange, RefreshList
  <2> QED
    BY <2>1 DEF ReportCountsApplied
<1>7. CASE Send
  <2>1. AtWriteTool /\ UNCHANGED << artifacts, shown >>
    BY <1>7 DEF Send, Writing, Uses, AtWriteTool
  <2>2. shown.result \notin DOMAIN artifacts
    BY <2>1, ValidatedIs DEF AskedFor
  <2> QED
    BY <2>1, <2>2 DEF ReportCountsApplied
<1> QED
  BY <1>1, <1>2, <1>3, <1>4, <1>5, <1>6, <1>7, FeishuSteps DEF Loading, Saves, Finishes

\* What holds of a session at any time.
SessionInv ==
    /\ ByPlan /\ Drafted /\ DraftedChange /\ Matched /\ CheckedRecords /\ CheckedChange
    /\ AskedFor /\ SentRight

LEMMA SessionStarts ==
    ASSUME FeishuInit
    PROVE  SessionInv
<1>1. ByPlan
  BY ByPlanStarts
<1>2. artifacts = << >> /\ standing = "new" /\ shown = NothingShown
  BY DEF FeishuInit
<1>3. DOMAIN artifacts = {}
  BY <1>2
<1>4. Drafted /\ DraftedChange /\ Matched /\ CheckedRecords /\ CheckedChange
  BY <1>3 DEF Drafted, DraftedChange, Matched, CheckedRecords, CheckedChange
<1>5. AskedFor /\ SentRight
  BY <1>2 DEF AskedFor, SentRight, AtWriteTool, NothingShown
<1> QED
  BY <1>1, <1>4, <1>5 DEF SessionInv

LEMMA SessionStep ==
    ASSUME SessionInv, [FeishuNext]_feishuVars
    PROVE  SessionInv'
BY ByPlanStep, DraftedStep, DraftedChangeStep, MatchedStep, CheckedRecordsStep, CheckedChangeStep, AskedForStep,
   SentRightStep DEF SessionInv

\* A write tool's report is true: without an error all that the user confirmed was done, and one
\* with an error counts what was done, up to the one call whose answer was lost.
THEOREM ReportsAreTrue == FeishuSpec => []ReportCountsApplied
<1>1. FeishuInit => SessionInv /\ ReportCountsApplied
  <2>1. FeishuInit => DOMAIN artifacts = {}
    BY DEF FeishuInit
  <2> QED
    BY <2>1, SessionStarts DEF ReportCountsApplied
<1>2. SessionInv /\ ReportCountsApplied /\ [FeishuNext]_feishuVars => SessionInv' /\ ReportCountsApplied'
  BY SessionStep, ReportStep DEF SessionInv
<1> QED
  BY <1>1, <1>2, PTL DEF FeishuSpec

-----------------------------------------------------------------------------
(* The mock store.                                                         *)

\* Without Feishu's configuration nothing is read from it, nor meant for it.
MockOnly ==
    /\ \A k \in SchemaKeys \cap DOMAIN artifacts : artifacts[k].source # "feishu"
    /\ "feishu.schema_change_payload" \in DOMAIN artifacts =>
         artifacts["feishu.schema_change_payload"].context.source # "feishu"
    /\ "validation.schema_change_payload" \in DOMAIN artifacts =>
         Backend(artifacts["validation.schema_change_payload"].mock) = "mock"
MockStep ==
    /\ standing = "running" => /\ step.where # "listed"
                               /\ step.where = "loaded" => step.context.source # "feishu"
    /\ AtWriteTool /\ step.where = "writing" => Backend(Validated.mock) = "mock"
MockInv == ~job.real => MockOnly /\ MockStep

LEMMA BackendStays ==
    ASSUME job' = job, NEW mock
    PROVE  Backend(mock)' = Backend(mock) /\ Backend(mock) \in {"feishu", "mock"}
BY DEF Backend

LEMMA MockOnlyStep ==
    ASSUME ByPlan, ~job.real, MockOnly, MockStep, [FeishuNext]_feishuVars, ~Invoke
    PROVE  MockOnly'
<1> DEFINE p == "feishu.schema_change_payload"
           v == "validation.schema_change_payload"
<1>1. job' = job
  <2>1. CASE Saves
    BY <2>1, SavesDo
  <2> QED
    BY <2>1, OnlySavesSave
<1>2. \A mock : Backend(mock)' = Backend(mock)
  BY <1>1 DEF Backend
<1>3. CASE ~Saves
  <2>1. artifacts' = artifacts
    BY <1>3, OnlySavesSave
  <2> QED
    BY <1>2, <2>1 DEF MockOnly
<1>4. CASE Saves
  <2>1. PICK data : Save(data) /\ Saved(data)
    BY <1>4, SavesDo, SavesNext
  <2>2. Current.needs \subseteq DOMAIN artifacts /\ SavesOwn(Current) /\ ReadsRight(Current)
    BY <2>1, CurrentFacts DEF Saved
  <2>3. ASSUME NEW k \in SchemaKeys \cap DOMAIN artifacts'
        PROVE  artifacts'[k].source # "feishu"
    <3>1. CASE k # Current.gives
      BY <2>1, <2>3, <3>1, KeyKept DEF MockOnly
    <3>2. CASE k = Current.gives
      <4>1. ReadSchema
        BY <1>4, <2>3, <3>2, Writers
      <4>2. Saved(step.context) /\ standing = "running" /\ step.where = "loaded"
        BY <1>4, <4>1, SavesDo, SavesNext DEF ReadSchema, Uses
      <4> QED
        BY <3>2, <4>2 DEF Saved, MockStep
    <3> QED
      BY <3>1, <3>2
  <2>4. ASSUME p \in DOMAIN artifacts'
        PROVE  artifacts'[p].context.source # "feishu"
    <3>1. CASE p # Current.gives
      BY <2>1, <2>4, <3>1, KeyKept DEF MockOnly
    <3>2. CASE p = Current.gives
      <4>1. ParseSchemaChange
        BY <1>4, <3>2, Writers
      <4>2. PICK draft : Save([draft |-> draft, context |-> TableFields])
        BY <4>1 DEF ParseSchemaChange
      <4>3. artifacts'[p].context = TableFields
        <5>1. Saved([draft |-> draft, context |-> TableFields])
          BY <1>4, <4>2, SavesDo, SavesNext
        <5> QED
          BY <3>2, <5>1 DEF Saved
      <4>4. Current.needs \cap SchemaKeys # {}
        BY <2>2, <3>2 DEF ReadsRight, SchemaKeys
      <4>5. TableFields.source # "feishu"
        BY <2>2, <4>4 DEF TableFields, SchemaKeys, MockOnly
      <4> QED
        BY <4>3, <4>5
    <3> QED
      BY <3>1, <3>2
  <2>5. ASSUME v \in DOMAIN artifacts'
        PROVE  Backend(artifacts'[v].mock) = "mock"
    <3>1. CASE v # Current.gives
      BY <2>1, <2>5, <3>1, KeyKept DEF MockOnly
    <3>2. CASE v = Current.gives
      <4>1. ValidateSchemaChange /\ standing' # "failed"
        BY <1>4, <2>1, <3>2, Writers DEF Saved
      <4>2. PICK payload : payload = artifacts[p]
        OBVIOUS
      <4>3. PICK checked : checked = NormalizeSchemaActions(payload.draft.raws, payload.context.fields, job.deletes)
        OBVIOUS
      <4>4. PICK item : item = [requests |-> << >>, ops |-> checked.actions,
                                context |-> payload.context, mock |-> payload.draft.mock]
        OBVIOUS
      <4>5. /\ Save(item) /\ ~ConfigurationError(payload.draft.mock, payload.context)
            /\ p \in Current.needs
        BY <4>1, <4>2, <4>3, <4>4 DEF ValidateSchemaChange, Fail
      <4>6. artifacts'[v] = item /\ item.mock = payload.draft.mock
        <5>1. Saved(item)
          BY <1>4, <4>5, SavesDo, SavesNext
        <5> QED
          BY <3>2, <4>4, <5>1 DEF Saved
      <4>7. payload.context.source # "feishu"
        BY <2>2, <4>2, <4>5 DEF MockOnly
      <4>8. Backend(payload.draft.mock) # "feishu"
        BY <4>5, <4>7 DEF ConfigurationError
      <4> QED
        BY <1>1, <4>6, <4>8, BackendStays
    <3> QED
      BY <3>1, <3>2
  <2> QED
    BY <1>2, <2>3, <2>4, <2>5 DEF MockOnly
<1> QED
  BY <1>3, <1>4

LEMMA MockStepStep ==
    ASSUME ByPlan, ~job.real, MockOnly, MockStep, [FeishuNext]_feishuVars, ~Invoke
    PROVE  MockStep'
<1>1. CASE Ask
  BY <1>1, AskDoes, NotAtWriteTool DEF MockStep
<1>2. CASE Saves
  <2>1. step' = At(step.at + 1)
    BY <1>2, SavesDo, SavesNext DEF Saved
  <2> QED
    BY <2>1, AtFields DEF MockStep
<1>3. CASE Ends
  <2>1. standing' # "running"
    BY <1>3, EndsKeep
  <2> QED
    BY <2>1, NotAtWriteTool DEF MockStep
<1>4. CASE Others \/ UNCHANGED feishuVars
  <2>1. UNCHANGED << job, step, artifacts, standing, shown, sent >>
    BY <1>4, OthersKeep DEF feishuVars
  <2>2. \A mock : Backend(mock)' = Backend(mock)
    BY <2>1 DEF Backend
  <2> QED
    BY <2>1, <2>2, SameStep DEF MockStep
<1>5. CASE Loading
  <2>1. standing = "running"
    BY <1>5 DEF Loading, LoadMock, LoadCached, ListFields, SaveListed, ListFails, Loads, Uses
  <2>2. LoadMock
    BY <1>5, <2>1 DEF Loading, LoadCached, ListFields, SaveListed, ListFails, MockStep
  <2>3. step'.where = "loaded" /\ step'.context = Context("mock", feishu.fields)
    BY <2>2, LoadingDoes
  <2> QED
    BY <2>3 DEF MockStep, Context
<1>6. CASE PrepareWrite
  <2>1. /\ step'.where = "writing" /\ UNCHANGED << job, artifacts, standing >> /\ step'.at = step.at
    BY <1>6, MovingOn, WritingMoves DEF MovesTo
  <2>2. Backend(Validated.mock) = "mock"
    <3>1. ~ConfigurationError(Validated.mock, step.context) /\ standing = "running" /\ step.where = "loaded"
      BY <1>6 DEF PrepareWrite, Refused, Uses
    <3>2. step.context.source # "feishu"
      BY <3>1 DEF MockStep
    <3>3. Backend(Validated.mock) # "feishu"
      BY <3>1, <3>2 DEF ConfigurationError
    <3> QED
      BY <3>3 DEF Backend
  <2>3. \A mock : Backend(mock)' = Backend(mock)
    BY <2>1 DEF Backend
  <2>4. Validated' = Validated
    BY <2>1, SameStep
  <2> QED
    BY <2>1, <2>2, <2>3, <2>4 DEF MockStep
<1>7. CASE StartChange
  <2>1. /\ step'.where = "writing" /\ UNCHANGED << job, artifacts, standing >> /\ step'.at = step.at
    BY <1>7, MovingOn, WritingMoves DEF MovesTo
  <2>2. AtWriteTool /\ Current.uses = CHANGE_SCHEMA_TOOL
    BY <1>7, Names7 DEF StartChange, Uses, AtWriteTool
  <2>3. Backend(Validated.mock) = "mock"
    BY <2>2, ValidatedIs DEF CheckedKey, MockOnly
  <2>4. \A mock : Backend(mock)' = Backend(mock)
    BY <2>1 DEF Backend
  <2>5. Validated' = Validated
    BY <2>1, SameStep
  <2> QED
    BY <2>1, <2>3, <2>4, <2>5 DEF MockStep
<1>8. CASE Send
  <2>1. /\ step'.where = "writing" /\ UNCHANGED << job, artifacts, standing >> /\ step'.at = step.at
    BY <1>8, MovingOn, WritingMoves DEF MovesTo
  <2>2. AtWriteTool /\ step.where = "writing"
    BY <1>8 DEF Send, Writing, Uses, AtWriteTool
  <2>3. \A mock : Backend(mock)' = Backend(mock)
    BY <2>1 DEF Backend
  <2>4. Validated' = Validated
    BY <2>1, SameStep
  <2> QED
    BY <2>1, <2>2, <2>3, <2>4 DEF MockStep
<1>9. CASE RefreshList
  <2>1. step'.where = "refreshing"
    BY <1>9, WritingMoves DEF MovesTo
  <2> QED
    BY <2>1 DEF MockStep
<1> QED
  BY <1>1, <1>2, <1>3, <1>4, <1>5, <1>6, <1>7, <1>8, <1>9, FeishuSteps DEF Loading

LEMMA MockInvStep ==
    ASSUME ByPlan, MockInv, [FeishuNext]_feishuVars
    PROVE  MockInv'
<1>1. CASE Invoke
  <2>1. DOMAIN artifacts' = {} /\ step'.where = "start"
    BY <1>1, InvokeClears, AtFields
  <2> QED
    BY <2>1 DEF MockInv, MockOnly, MockStep
<1>2. CASE ~Invoke
  <2>1. job' = job
    <3>1. CASE Saves
      BY <3>1, SavesDo
    <3> QED
      BY <1>2, <3>1, OnlySavesSave
  <2> QED
    BY <1>2, <2>1, MockOnlyStep, MockStepStep DEF MockInv
<1> QED
  BY <1>1, <1>2

\* One more operation is sent.
LEMMA SentMore ==
    ASSUME SessionInv, Writing, NEW done, sent' = Sent(done)
    PROVE  /\ Listed(sent) /\ Listed(sent') /\ Len(sent') = Len(sent) + 1 /\ Len(sent) \in Nat
           /\ \A i \in 1..Len(sent) : sent'[i] = sent[i]
           /\ sent'[Len(sent) + 1] = [op |-> Head(step.ops), backend |-> Backend(Validated.mock),
                                      context |-> step.context, done |-> done]
           /\ DOMAIN sent' = 1..(Len(sent) + 1) /\ DOMAIN sent = 1..Len(sent)
<1>1. PICK x : x = [op |-> Head(step.ops), backend |-> Backend(Validated.mock),
                    context |-> step.context, done |-> done]
  OBVIOUS
<1>2. sent' = Append(sent, x)
  BY <1>1 DEF Sent
<1>3. Listed(sent)
  BY DEF Writing, Uses, SessionInv, SentRight, AtWriteTool
<1> QED
  BY <1>1, <1>2, <1>3, ListMore, ListFacts

\* Whether an action sends something.
LEMMA SendsOrNot ==
    ASSUME SessionInv, [FeishuNext]_feishuVars
    PROVE  \/ sent' = sent
           \/ sent' = << >> /\ (Ask \/ Invoke)
           \/ /\ Writing /\ step.ops # << >>
              /\ \E done \in BOOLEAN : sent' = Sent(done)
              /\ UNCHANGED << job, shown >>
<1>1. CASE Invoke
  BY <1>1, InvokeClears DEF SessionInv
<1>2. CASE Ask
  BY <1>2 DEF Ask
<1>3. CASE Saves /\ ~Finishes
  BY <1>3, SavesQuietly
<1>4. CASE Finishes
  BY <1>4 DEF Finishes, RefuseWrite, SendRejected, SendLost, WriteDone, RefreshFails, RefreshSave, Finish
<1>5. CASE Ends \/ Others \/ UNCHANGED feishuVars
  BY <1>5, EndsKeep, OthersKeep DEF feishuVars
<1>6. CASE Loading \/ PrepareWrite \/ StartChange \/ RefreshList
  BY <1>6, LoadingDoes DEF SessionInv, PrepareWrite, StartChange, RefreshList
<1>7. CASE Send
  BY <1>7 DEF Send
<1> QED
  BY <1>1, <1>2, <1>3, <1>4, <1>5, <1>6, <1>7, FeishuSteps DEF Loading, Saves, Finishes

\* A process that is configured for the mock store sends nothing to Feishu, whatever a model
\* writes into its request: the columns it reads are not Feishu's, and a request meant for
\* Feishu is refused without Feishu's columns.
THEOREM MockIsNeverLeft == FeishuSpec => []MockStaysMock
<1>1. FeishuInit => SessionInv /\ MockInv /\ MockStaysMock
  <2>1. FeishuInit => DOMAIN artifacts = {} /\ DOMAIN sent = {} /\ standing = "new"
    BY DEF FeishuInit
  <2> QED
    BY <2>1, SessionStarts DEF MockInv, MockOnly, MockStep, AtWriteTool, MockStaysMock
<1>2. ASSUME SessionInv, MockInv, MockStaysMock, [FeishuNext]_feishuVars
      PROVE  MockStaysMock'
  <2>1. CASE sent' = << >> /\ (Ask \/ Invoke)
    BY <2>1 DEF MockStaysMock
  <2>2. CASE sent' = sent /\ ~Invoke
    <3>1. job' = job
      <4>1. CASE Saves
        BY <4>1, SavesDo
      <4> QED
        BY <1>2, <2>2, <4>1, OnlySavesSave DEF SessionInv
    <3> QED
      BY <1>2, <2>2, <3>1 DEF MockStaysMock
  <2>3. CASE Invoke
    <3>1. DOMAIN sent' = {}
      BY <1>2, <2>3, InvokeClears DEF SessionInv
    <3> QED
      BY <3>1 DEF MockStaysMock
  <2>4. ASSUME Writing, NEW done \in BOOLEAN, sent' = Sent(done), job' = job
        PROVE  MockStaysMock'
    <3>1. SUFFICES ASSUME ~job.real, NEW i \in DOMAIN sent' PROVE sent'[i].backend = "mock"
      BY <2>4 DEF MockStaysMock
    <3>2. AtWriteTool /\ step.where = "writing"
      BY <2>4 DEF Writing, Uses, AtWriteTool
    <3>3. Backend(Validated.mock) = "mock"
      BY <1>2, <3>1, <3>2 DEF MockInv, MockStep
    <3>4. PICK x : x = [op |-> Head(step.ops), backend |-> Backend(Validated.mock),
                        context |-> step.context, done |-> done]
      OBVIOUS
    <3>5. /\ sent'[Len(sent) + 1] = x /\ Len(sent) \in Nat
          /\ \A j \in 1..Len(sent) : sent'[j] = sent[j]
          /\ DOMAIN sent' = 1..(Len(sent) + 1) /\ DOMAIN sent = 1..Len(sent)
      BY <1>2, <2>4, <3>4, SentMore
    <3>6. CASE i = Len(sent) + 1
      BY <3>3, <3>4, <3>5, <3>6
    <3>7. CASE i # Len(sent) + 1
      <4>1. i \in 1..Len(sent)
        BY <3>1, <3>5, <3>7
      <4> QED
        BY <1>2, <3>1, <3>5, <4>1 DEF MockStaysMock
    <3> QED
      BY <3>6, <3>7
  <2> QED
    BY <1>2, <2>1, <2>2, <2>3, <2>4, SendsOrNot
<1>3. SessionInv /\ MockInv /\ MockStaysMock /\ [FeishuNext]_feishuVars
        => SessionInv' /\ MockInv' /\ MockStaysMock'
  BY <1>2, SessionStep, MockInvStep DEF SessionInv
<1> QED
  BY <1>1, <1>3, PTL DEF FeishuSpec

-----------------------------------------------------------------------------
(* The records that are changed.                                           *)

LEMMA ArtifactsKeep ==
    ASSUME ByPlan, [FeishuNext]_feishuVars, ~Invoke
    PROVE  /\ job' = job
           /\ \A k \in DOMAIN artifacts : k \in DOMAIN artifacts' /\ artifacts'[k] = artifacts[k]
<1>1. CASE Saves
  <2>1. PICK data : Saved(data)
    BY <1>1, SavesDo, SavesNext
  <2> QED
    BY <2>1 DEF Saved
<1>2. CASE ~Saves
  BY <1>2, OnlySavesSave
<1> QED
  BY <1>1, <1>2

LEMMA ShownKept ==
    ASSUME ByPlan, [FeishuNext]_feishuVars, ~Invoke, ~Ask
    PROVE  shown' = shown
<1>1. CASE Saves
  BY <1>1, ShownStays
<1>2. CASE Ends \/ Others \/ UNCHANGED feishuVars
  BY <1>2, EndsKeep, OthersKeep DEF feishuVars
<1>3. CASE Loading \/ PrepareWrite \/ StartChange \/ Send \/ RefreshList
  BY <1>3, MovingOn
<1> QED
  BY <1>1, <1>2, <1>3, FeishuSteps DEF Loading

ChangesRecord(op) == op.do \in {"update_record", "delete_record"}

\* What a tool has left to send is what was shown, as far as the record goes, and the record is
\* the one that was matched.
TargetsAreRead ==
    AtWriteTool /\ step.where = "writing" =>
        \A j \in 1..Len(step.ops) : ChangesRecord(step.ops[j]) =>
            /\ "feishu.record_match" \in DOMAIN artifacts
            /\ step.ops[j].id = artifacts["feishu.record_match"]
            /\ step.ops[j].id = shown.ops[Len(sent) + j].id

\* Reading a request back changes no record's id.
LEMMA RereadKeeps ==
    ASSUME NEW operation, NEW request, NEW text, NEW defs
    PROVE  NormalizeWriteRequest(operation, Reread(request), text, defs).rid = request.rid
<1>1. PICK pairs : pairs = SetToSeq({[name |-> n, value |-> request.fields[n]] : n \in DOMAIN request.fields})
  OBVIOUS
<1>2. PICK conditions, page, rid : conditions = request.lookup.conditions /\ page = request.lookup.page /\ rid = request.rid
  OBVIOUS
<1>3. PICK explicit : explicit = RawRequest(RequestParts, pairs, rid, conditions, page)
  OBVIOUS
<1>4. Reread(request) = explicit
  BY <1>1, <1>2, <1>3 DEF Reread
<1>5. "record_id" \in explicit.given
  BY <1>3 DEF RawRequest, RequestParts
<1>6. NormalizeWriteRequest(operation, explicit, text, defs).rid = rid
  BY <1>3, <1>5, NormalizedKeepsRecord
<1> QED
  BY <1>2, <1>4, <1>6

LEMMA TargetsPrepared ==
    ASSUME SessionInv, PrepareWrite
    PROVE  \A j \in 1..Len(step'.ops) : ChangesRecord(step'.ops[j]) =>
              /\ "feishu.record_match" \in DOMAIN artifacts
              /\ step'.ops[j].id = artifacts["feishu.record_match"]
              /\ step'.ops[j].id = shown.ops[j].id
<1>1. AtWriteTool /\ Current.uses # CHANGE_SCHEMA_TOOL
  BY DEF PrepareWrite, Uses, AtWriteTool, RECORD_TOOLS
<1>2. Validated = artifacts["validation.write_payload"] /\ "validation.write_payload" \in DOMAIN artifacts
  BY <1>1, ValidatedIs DEF CheckedKey, SessionInv
<1>3. /\ Listed(Validated.requests) /\ Len(Validated.ops) = Len(Validated.requests)
      /\ \A i \in 1..Len(Validated.ops) : Validated.ops[i].id = Validated.requests[i].rid
      /\ Operation # "create_record" =>
           /\ "feishu.record_match" \in DOMAIN artifacts
           /\ \A i \in 1..Len(Validated.ops) : Validated.requests[i].rid = artifacts["feishu.record_match"]
  BY <1>2 DEF CheckedRecords, SessionInv
<1>4. shown.ops = Validated.ops
  BY <1>1 DEF AskedFor, SessionInv
<1>5. PICK requests : requests = Prepared1(step.context.fields)
  OBVIOUS
<1>6. Len(Validated.requests) \in Nat /\ DOMAIN Validated.requests = 1..Len(Validated.requests)
  BY <1>3, ListFacts
<1>7. Listed(requests) /\ Len(requests) = Len(Validated.requests)
  <2>1. requests = [i \in 1..Len(Validated.requests) |-> requests[i]]
    BY <1>5, <1>6 DEF Prepared1
  <2> QED
    BY <1>6, <2>1, ListMade
<1>8. step'.ops = Writes(requests)
  BY <1>5, WritingMoves DEF SessionInv
<1>9. /\ Len(Writes(requests)) = Len(requests)
      /\ \A i \in 1..Len(requests) : Writes(requests)[i].do = Operation /\ Writes(requests)[i].id = requests[i].rid
  BY <1>7, WritesListed
<1>10. SUFFICES ASSUME NEW j \in 1..Len(Validated.requests), ChangesRecord(Writes(requests)[j])
       PROVE  /\ "feishu.record_match" \in DOMAIN artifacts
              /\ Writes(requests)[j].id = artifacts["feishu.record_match"]
              /\ Writes(requests)[j].id = shown.ops[j].id
  BY <1>7, <1>8, <1>9
<1>11. Operation # "create_record"
  BY <1>7, <1>9, <1>10 DEF ChangesRecord
<1>12. requests[j].rid = Validated.requests[j].rid
  <2>1. requests[j] = NormalizeWriteRequest(Operation, Reread(Validated.requests[j]), job.text, step.context.fields)
    BY <1>5, <1>6 DEF Prepared1
  <2> QED
    BY <2>1, RereadKeeps
<1> QED
  BY <1>3, <1>4, <1>7, <1>9, <1>11, <1>12

LEMMA TargetsStep ==
    ASSUME SessionInv, TargetsAreRead, [FeishuNext]_feishuVars
    PROVE  TargetsAreRead'
<1>1. ByPlan /\ SentRight /\ AskedFor /\ CheckedChange
  BY DEF SessionInv
<1>2. CASE Invoke \/ Ask \/ Ends
  BY <1>1, <1>2, NotAtFirst, AskDoes, EndsKeep, NotAtWriteTool DEF TargetsAreRead
<1>3. CASE Saves
  <2>1. step' = At(step.at + 1)
    BY <1>1, <1>3, SavesDo, SavesNext DEF Saved
  <2> QED
    BY <2>1, AtFields DEF TargetsAreRead
<1>4. CASE Others \/ UNCHANGED feishuVars
  <2>1. UNCHANGED << job, step, artifacts, standing, shown, sent >>
    BY <1>4, OthersKeep DEF feishuVars
  <2> QED
    BY <2>1, SameStep DEF TargetsAreRead
<1>5. CASE Loading \/ RefreshList
  <2>1. step'.where # "writing"
    BY <1>1, <1>5, LoadingDoes, WritingMoves DEF Loading, MovesTo
  <2> QED
    BY <2>1 DEF TargetsAreRead
<1>6. CASE PrepareWrite
  <2>1. UNCHANGED << artifacts, shown, sent >>
    BY <1>6, <1>1, MovingOn DEF PrepareWrite
  <2>2. AtWriteTool /\ step.where = "loaded"
    BY <1>6 DEF PrepareWrite, Uses, AtWriteTool, RECORD_TOOLS
  <2>3. sent = << >>
    BY <1>1, <2>2 DEF SentRight
  <2>4. Len(sent') = 0
    BY <2>1, <2>3, NoneListed
  <2>5. PICK ops : ops = step'.ops
    OBVIOUS
  <2>6. Listed(ops)
    BY <1>1, <1>6, <2>5, SendingRecords DEF SessionInv
  <2>7. \A j \in 1..Len(ops) : 0 + j = j
    BY <2>6, ListFacts
  <2>8. \A j \in 1..Len(ops) : ChangesRecord(ops[j]) =>
              /\ "feishu.record_match" \in DOMAIN artifacts
              /\ ops[j].id = artifacts["feishu.record_match"]
              /\ ops[j].id = shown.ops[j].id
    BY <1>6, <2>5, TargetsPrepared
  <2> QED
    BY <2>1, <2>4, <2>5, <2>7, <2>8 DEF TargetsAreRead
<1>7. CASE StartChange
  <2>1. AtWriteTool /\ Current.uses = CHANGE_SCHEMA_TOOL
    BY <1>7, Names7 DEF StartChange, Uses, AtWriteTool
  <2>2. Validated = artifacts["validation.schema_change_payload"]
        /\ "validation.schema_change_payload" \in DOMAIN artifacts
    BY <1>1, <2>1, ValidatedIs DEF CheckedKey
  <2>3. step'.ops = Validated.ops
    BY <1>1, <1>7, WritingMoves
  <2>4. \A j \in 1..Len(step'.ops) : ~ChangesRecord(step'.ops[j])
    BY <1>1, <2>2, <2>3 DEF CheckedChange, ChangesRecord
  <2> QED
    BY <2>4 DEF TargetsAreRead
<1>8. CASE Send
  <2>1. /\ UNCHANGED << artifacts, shown >> /\ step'.ops = Tail(step.ops)
    BY <1>1, <1>8, MovingOn, WritingMoves
  <2>2. Writing /\ AtWriteTool /\ step.where = "writing" /\ step.ops # << >> /\ sent' = Sent(TRUE)
    BY <1>8 DEF Send, Writing, Uses, AtWriteTool
  <2>3. Len(sent') = Len(sent) + 1 /\ Len(sent) \in Nat
    BY <2>2, SentMore
  <2>4. Listed(step.ops)
    BY <1>1, <2>2 DEF SentRight
  <2>5. /\ Listed(Tail(step.ops)) /\ Len(Tail(step.ops)) = Len(step.ops) - 1
        /\ \A j \in 1..Len(Tail(step.ops)) : Tail(step.ops)[j] = step.ops[j + 1]
        /\ Len(step.ops) \in Nat /\ Len(Tail(step.ops)) \in Nat
    BY <2>2, <2>4, ListRest, ListFacts
  <2>6. ASSUME NEW j \in 1..Len(Tail(step.ops)), ChangesRecord(Tail(step.ops)[j])
        PROVE  /\ "feishu.record_match" \in DOMAIN artifacts
               /\ Tail(step.ops)[j].id = artifacts["feishu.record_match"]
               /\ Tail(step.ops)[j].id = shown.ops[Len(sent) + 1 + j].id
    <3>1. j + 1 \in 1..Len(step.ops) /\ Len(sent) + (j + 1) = Len(sent) + 1 + j
      BY <2>3, <2>5
    <3>2. Tail(step.ops)[j] = step.ops[j + 1]
      BY <2>5
    <3> QED
      BY <2>2, <2>6, <3>1, <3>2 DEF TargetsAreRead
  <2> QED
    BY <2>1, <2>3, <2>6 DEF TargetsAreRead
<1> QED
  BY <1>2, <1>3, <1>4, <1>5, <1>6, <1>7, <1>8, FeishuSteps DEF Loading

\* Those that were sent.
SentTargets ==
    \A i \in DOMAIN sent : ChangesRecord(sent[i].op) =>
        /\ "feishu.candidate_records" \in DOMAIN artifacts
        /\ sent[i].op.id \in ToSet(artifacts["feishu.candidate_records"])
        /\ sent[i].op.id = shown.ops[i].id

\* A record is updated or deleted only if this session's search returned it and the user saw its
\* id: the id a search step settled on is kept by validation and when the tool reads the request
\* back, whatever a model put into its draft.
THEOREM TargetsWereRead == FeishuSpec => []TargetWasRead
<1>1. FeishuInit => SessionInv /\ TargetsAreRead /\ SentTargets
  <2>1. FeishuInit => DOMAIN sent = {} /\ standing = "new"
    BY DEF FeishuInit
  <2> QED
    BY <2>1, SessionStarts DEF TargetsAreRead, SentTargets, AtWriteTool
<1>2. ASSUME SessionInv, TargetsAreRead, SentTargets, [FeishuNext]_feishuVars
      PROVE  SentTargets'
  <2> DEFINE c == "feishu.candidate_records"
  <2>1. ByPlan
    BY <1>2 DEF SessionInv
  <2>2. CASE Invoke
    <3>1. DOMAIN sent' = {}
      BY <2>1, <2>2, InvokeClears
    <3> QED
      BY <3>1 DEF SentTargets
  <2>3. CASE Ask
    <3>1. DOMAIN sent' = {}
      BY <2>3 DEF Ask
    <3> QED
      BY <3>1 DEF SentTargets
  <2>4. CASE ~Invoke /\ ~Ask
    <3>1. shown' = shown /\ \A k \in DOMAIN artifacts : k \in DOMAIN artifacts' /\ artifacts'[k] = artifacts[k]
      BY <1>2, <2>1, <2>4, ShownKept, ArtifactsKeep
    <3>2. CASE sent' = sent
      BY <1>2, <3>1, <3>2 DEF SentTargets
    <3>3. ASSUME Writing, step.ops # << >>, NEW done \in BOOLEAN, sent' = Sent(done)
          PROVE  SentTargets'
      <4>1. AtWriteTool /\ step.where = "writing"
        BY <3>3 DEF Writing, Uses, AtWriteTool
      <4>2. Listed(step.ops)
        BY <1>2, <4>1 DEF SentRight, SessionInv
      <4>3. 1 \in 1..Len(step.ops) /\ Head(step.ops) = step.ops[1]
        <5>1. Len(step.ops) \in Nat /\ Len(step.ops) # 0
          BY <3>3, <4>2, ListFacts
        <5>2. 1 \in 1..Len(step.ops)
          BY <5>1
        <5> QED
          BY <3>3, <4>2, <5>2, ListRest
      <4>4. PICK x : x = [op |-> Head(step.ops), backend |-> Backend(Validated.mock),
                          context |-> step.context, done |-> done]
        OBVIOUS
      <4>5. /\ sent'[Len(sent) + 1] = x /\ Len(sent) \in Nat
            /\ \A j \in 1..Len(sent) : sent'[j] = sent[j]
            /\ DOMAIN sent' = 1..(Len(sent) + 1) /\ DOMAIN sent = 1..Len(sent)
        BY <1>2, <3>3, <4>4, SentMore
      <4>6. SUFFICES ASSUME NEW i \in DOMAIN sent', ChangesRecord(sent'[i].op)
                     PROVE  /\ c \in DOMAIN artifacts'
                            /\ sent'[i].op.id \in ToSet(artifacts'[c])
                            /\ sent'[i].op.id = shown'.ops[i].id
        BY DEF SentTargets, ChangesRecord
      <4>7. CASE i = Len(sent) + 1
        <5>1. sent'[i].op = step.ops[1]
          BY <4>3, <4>4, <4>5, <4>7
        <5>2. /\ "feishu.record_match" \in DOMAIN artifacts
              /\ step.ops[1].id = artifacts["feishu.record_match"]
              /\ step.ops[1].id = shown.ops[Len(sent) + 1].id
          BY <1>2, <4>1, <4>3, <4>6, <5>1 DEF TargetsAreRead
        <5>3. c \in DOMAIN artifacts /\ artifacts["feishu.record_match"] \in ToSet(artifacts[c])
          BY <1>2, <5>2 DEF Matched, SessionInv
        <5> QED
          BY <3>1, <4>7, <5>1, <5>2, <5>3
      <4>8. CASE i # Len(sent) + 1
        <5>1. i \in 1..Len(sent)
          BY <4>5, <4>6, <4>8
        <5>2. sent'[i] = sent[i] /\ i \in DOMAIN sent
          BY <4>5, <5>1
        <5> QED
          BY <1>2, <3>1, <4>6, <5>2 DEF SentTargets
      <4> QED
        BY <4>7, <4>8
    <3> QED
      BY <1>2, <2>4, <3>2, <3>3, SendsOrNot
  <2> QED
    BY <2>2, <2>3, <2>4
<1>3. SessionInv /\ TargetsAreRead /\ SentTargets /\ [FeishuNext]_feishuVars => SessionInv' /\ TargetsAreRead' /\ SentTargets'
  BY <1>2, SessionStep, TargetsStep
<1>4. SentTargets => TargetWasRead
  BY DEF SentTargets, TargetWasRead, ChangesRecord
<1> QED
  BY <1>1, <1>3, <1>4, PTL DEF FeishuSpec

-----------------------------------------------------------------------------
(* The columns after a change.                                             *)

Counted ==
    /\ meddled \in Nat /\ faults \in Nat
    /\ shown.meddled \in Nat /\ shown.meddled <= meddled

LEMMA CountsGrow ==
    ASSUME Counted, [FeishuNext]_feishuVars
    PROVE  meddled' \in {meddled, meddled + 1} /\ faults' \in {faults, faults + 1}
<1>1. CASE Finishes
  BY <1>1 DEF Finishes, Finish, RefuseWrite, SendRejected, SendLost, WriteDone, RefreshFails, RefreshSave
<1>2. CASE FeishuNext /\ ~Finishes
  BY <1>2
     DEF FeishuNext, Finishes, Invoke, LoadMock, LoadCached, ListFields, SaveListed, ListFails, ReadSchema,
         ParseRecord, ParseSchemaChange, ParseRecordDraft, AgentFails, ReadRecords, ReadFails, MatchRecord,
         MatchFails, ValidateRecord, ValidateSchemaChange, Ask, Confirm, Refuse, PrepareWrite, StartChange,
         Send, RefreshList, Meddle, ExpireCache, OtherLists, OtherSaves
<1> QED
  BY <1>1, <1>2 DEF feishuVars

LEMMA CountedStep ==
    ASSUME ByPlan, Counted, [FeishuNext]_feishuVars
    PROVE  Counted'
<1>1. meddled' \in Nat /\ faults' \in Nat /\ meddled <= meddled'
  BY CountsGrow DEF Counted
<1>2. CASE Invoke
  BY <1>1, <1>2, InvokeClears DEF Counted, NothingShown
<1>3. CASE Ask
  BY <1>1, <1>3, AskDoes DEF Counted
<1>4. CASE ~Invoke /\ ~Ask
  BY <1>1, <1>4, ShownKept DEF Counted
<1> QED
  BY <1>2, <1>3, <1>4

\* What was asked about is what a step of the plan does.
InPlan == shown.result \in ResultKeys =>
    standing # "new" /\ \E i \in 1..Len(Steps) : Steps[i].gives = shown.result

LEMMA InPlanStep ==
    ASSUME ByPlan, InPlan, [FeishuNext]_feishuVars
    PROVE  InPlan'
<1>1. CASE Invoke
  BY <1>1, InvokeClears DEF InPlan, NothingShown, ResultKeys
<1>2. CASE Ask
  <2>1. Going /\ Current.kind = "confirm"
    BY <1>2 DEF Ask, Going
  <2>2. step.at + 1 \in 1..Len(Steps)
    BY <2>1, AsksAboutNext
  <2> QED
    BY <1>2, <2>2, AskDoes DEF InPlan
<1>3. CASE ~Invoke /\ ~Ask
  <2>1. shown' = shown /\ job' = job
    BY <1>3, ShownKept, ArtifactsKeep
  <2>2. Steps' = Steps
    BY <2>1 DEF Steps
  <2>3. standing' = "new" => standing = "new"
    <3>1. ByPlan'
      BY ByPlanStep
    <3>2. CASE Saves
      BY <3>2, SavesDo, SavesNext DEF Saved
    <3>3. CASE Ends \/ Others \/ UNCHANGED feishuVars
      BY <3>3, EndsKeep, OthersKeep DEF feishuVars
    <3>4. CASE Loading \/ PrepareWrite \/ StartChange \/ Send \/ RefreshList
      BY <3>4, MovingOn
    <3> QED
      BY <1>3, <3>2, <3>3, <3>4, FeishuSteps DEF Loading
  <2> QED
    BY <2>1, <2>2, <2>3 DEF InPlan
<1> QED
  BY <1>1, <1>2, <1>3

\* The columns are read again after the change only.
LEMMA AfterNeedsChange ==
    ASSUME ByPlan, InPlan, shown.result = "feishu.schema_change_result",
           "feishu.table_schema_after" \in DOMAIN artifacts
    PROVE  "feishu.schema_change_result" \in DOMAIN artifacts
<1>1. PICK i \in 1..Len(Steps) : Steps[i].gives = "feishu.schema_change_result"
  BY DEF InPlan, ResultKeys
<1>2. /\ job \in Jobs /\ step.at \in 1..(Len(Steps) + 1)
      /\ DOMAIN artifacts = {Steps[n].gives : n \in 1..(step.at - 1)}
  BY DEF ByPlan, InPlan, ResultKeys
<1>3. PICK j \in 1..(step.at - 1) : Steps[j].gives = "feishu.table_schema_after"
  BY <1>2
<1>4. Runs(Steps) /\ Len(Steps) \in Nat
  BY <1>2, StepsRun DEF Runs, RunsTo
<1>5. j \in 1..Len(Steps)
  BY <1>2, <1>3, <1>4
<1>6. i < j
  BY <1>1, <1>3, <1>4, <1>5 DEF Runs, RunsTo, ReadAfterChange
<1>7. i \in 1..(step.at - 1)
  BY <1>1, <1>2, <1>3, <1>4, <1>6
<1> QED
  BY <1>1, <1>2, <1>7

LEMMA ChangeBeforeAfter ==
    ASSUME ByPlan, Going, Current.gives = "feishu.schema_change_result"
    PROVE  "feishu.table_schema_after" \notin DOMAIN artifacts
<1>1. /\ step.at \in 1..Len(Steps) /\ Len(Steps) \in Nat /\ Runs(Steps)
      /\ DOMAIN artifacts = {Steps[i].gives : i \in 1..(step.at - 1)}
  BY CurrentFacts
<1>2. SUFFICES ASSUME NEW j \in 1..(step.at - 1), Steps[j].gives = "feishu.table_schema_after" PROVE FALSE
  BY <1>1
<1>3. j \in 1..Len(Steps) /\ Steps[step.at].gives = "feishu.schema_change_result"
  BY <1>1 DEF Current
<1>4. step.at < j
  BY <1>1, <1>2, <1>3 DEF Runs, RunsTo, ReadAfterChange
<1> QED
  BY <1>1, <1>4

\* Nobody touched table or cache since the question about a change, and no call failed.
Undisturbed ==
    shown.result = "feishu.schema_change_result" /\ shown.meddled = meddled /\ faults = 0
Changed ==
    "feishu.schema_change_result" \in DOMAIN artifacts /\ artifacts["feishu.schema_change_result"].ok

\* While it is so, the columns the session knows are the table's: those that refresh the cache,
\* and after the change those in the cache, and those that are read.
ColumnsRefreshed == AtWriteTool /\ step.where = "refreshing" => step.listed = feishu.fields
ColumnsRead ==
    /\ job.real => cache \in {NoList, feishu.fields}
    /\ standing = "running" =>
         /\ step.where = "listed" => step.listed = feishu.fields
         /\ step.where = "loaded" => step.context.fields = feishu.fields
    /\ "feishu.table_schema_after" \in DOMAIN artifacts =>
         artifacts["feishu.table_schema_after"].fields = feishu.fields
ColumnsInv == Undisturbed => ColumnsRefreshed /\ (Changed => ColumnsRead)

LEMMA StaysUndisturbed ==
    ASSUME ByPlan, Counted, [FeishuNext]_feishuVars, ~Invoke, ~Ask, Undisturbed'
    PROVE  Undisturbed /\ meddled' = meddled /\ faults' = faults /\ shown' = shown
<1>1. shown' = shown
  BY ShownKept
<1>2. meddled' \in {meddled, meddled + 1} /\ faults' \in {faults, faults + 1}
  BY CountsGrow
<1>3. shown.meddled = meddled' /\ faults' = 0
  BY <1>1 DEF Undisturbed
<1>4. meddled' = meddled /\ faults' = faults
  BY <1>2, <1>3 DEF Counted
<1> QED
  BY <1>1, <1>3, <1>4 DEF Undisturbed

\* The change ends well.
LEMMA ChangeEnds ==
    ASSUME SessionInv, Counted, Undisturbed, ColumnsRefreshed, Finishes, faults' = faults
    PROVE  /\ ColumnsRefreshed' 
           /\ Changed' => ColumnsRead'
<1> DEFINE r == "feishu.schema_change_result"
           a == "feishu.table_schema_after"
<1>1. ByPlan /\ SentRight /\ AskedFor
  BY DEF SessionInv
<1>2. /\ AtWriteTool /\ Going /\ shown.result = Current.gives /\ Current.gives = r
      /\ Current.uses = CHANGE_SCHEMA_TOOL
  <2>1. AtWriteTool
    BY <1>1, FinishDoes
  <2> QED
    BY <1>1, <2>1, ValidatedIs DEF AskedFor, Undisturbed, AtWriteTool, Going
<1>3. PICK data : Save(data) /\ Saved(data)
  BY <1>1, SavesDo, SavesNext DEF Saves, Finishes
<1>4. step'.where = "start" /\ job' = job
  BY <1>3, AtFields DEF Saved
<1>5. ColumnsRefreshed'
  BY <1>4 DEF ColumnsRefreshed
<1>6. a \notin DOMAIN artifacts'
  <2>1. a \notin DOMAIN artifacts
    BY <1>1, <1>2, ChangeBeforeAfter
  <2> QED
    BY <1>2, <1>3, <2>1 DEF Saved
<1>7. ASSUME Finish(TRUE)
      PROVE  ~Changed'
  <2>1. Save([ok |-> FALSE, count |-> step.done])
    BY <1>7 DEF Finish
  <2>2. Saved([ok |-> FALSE, count |-> step.done])
    BY <1>1, <1>2, <1>4, <2>1, SavesNext
  <2>3. artifacts'[r].ok = FALSE
    BY <1>2, <2>2 DEF Saved
  <2> QED
    BY <2>3 DEF Changed
<1>8. CASE RefuseWrite \/ SendRejected \/ SendLost \/ RefreshFails
  BY <1>5, <1>7, <1>8 DEF RefuseWrite, SendRejected, SendLost, RefreshFails
<1>9. CASE WriteDone
  <2>1. Backend(Validated.mock) = "mock"
    BY <1>2, <1>9 DEF WriteDone, Uses, RECORD_TOOLS
  <2>2. ~job.real
    BY <2>1 DEF Backend
  <2> QED
    BY <1>4, <1>5, <1>6, <2>2 DEF ColumnsRead
<1>10. CASE RefreshSave
  <2>1. step.listed = feishu.fields
    BY <1>2, <1>10 DEF RefreshSave, ColumnsRefreshed
  <2>2. cache' = feishu.fields /\ feishu' = feishu
    BY <1>10, <2>1 DEF RefreshSave, CacheAfterChange
  <2> QED
    BY <1>4, <1>5, <1>6, <2>2 DEF ColumnsRead
<1> QED
  BY <1>8, <1>9, <1>10 DEF Finishes

LEMMA ColumnsInvStep ==
    ASSUME SessionInv, Counted, ColumnsInv, [FeishuNext]_feishuVars
    PROVE  ColumnsInv'
<1> DEFINE r == "feishu.schema_change_result"
           a == "feishu.table_schema_after"
<1>1. ByPlan /\ SentRight /\ AskedFor
  BY DEF SessionInv
<1>2. SUFFICES ASSUME Undisturbed' PROVE ColumnsRefreshed' /\ (Changed' => ColumnsRead')
  BY DEF ColumnsInv
<1>3. CASE Invoke
  BY <1>1, <1>2, <1>3, InvokeClears DEF Undisturbed, NothingShown
<1>4. CASE Ask
  <2>1. r \notin DOMAIN artifacts' /\ ~AtWriteTool'
    BY <1>1, <1>2, <1>4, AskDoes, NotAtWriteTool DEF Undisturbed
  <2> QED
    BY <2>1 DEF ColumnsRefreshed, Changed
<1>5. ASSUME ~Invoke, ~Ask
      PROVE  ColumnsRefreshed' /\ (Changed' => ColumnsRead')
  <2>1. Undisturbed /\ meddled' = meddled /\ faults' = faults /\ shown' = shown
    BY <1>1, <1>2, <1>5, StaysUndisturbed
  <2>2. ColumnsRefreshed /\ (Changed => ColumnsRead)
    BY <2>1 DEF ColumnsInv
  <2>3. shown.result = r /\ faults \in Nat /\ meddled \in Nat
    BY <2>1 DEF Undisturbed, Counted
  <2>4. CASE Finishes
    BY <2>1, <2>2, <2>4, ChangeEnds
  <2>5. CASE Saves /\ ~Finishes
    <3>1. PICK data : Saved(data)
      BY <1>1, <2>5, SavesDo, SavesNext
    <3>2. UNCHANGED << feishu, cache, job >> /\ step'.where = "start"
      BY <2>5, <3>1, SavesQuietly, AtFields DEF Saved
    <3>3. r # Current.gives
      BY <1>1, <2>5, Writers DEF ResultKeys
    <3>4. Changed' <=> Changed
      BY <3>1, <3>3, KeyKept DEF Changed
    <3>5. ASSUME Changed, a \in DOMAIN artifacts'
          PROVE  artifacts'[a].fields = feishu.fields
      <4>1. ColumnsRead
        BY <2>2, <3>5
      <4>2. CASE a # Current.gives
        BY <3>1, <3>5, <4>1, <4>2, KeyKept DEF ColumnsRead
      <4>3. CASE a = Current.gives
        <5>1. ReadSchema
          BY <1>1, <2>5, <4>3, Writers DEF SchemaKeys
        <5>2. Saved(step.context) /\ standing = "running" /\ step.where = "loaded"
          BY <1>1, <2>5, <5>1, SavesDo, SavesNext DEF ReadSchema, Uses
        <5> QED
          BY <4>1, <4>3, <5>2 DEF Saved, ColumnsRead
      <4> QED
        BY <4>2, <4>3
    <3>6. ColumnsRefreshed'
      BY <3>2 DEF ColumnsRefreshed
    <3>7. ASSUME Changed
          PROVE  ColumnsRead'
      BY <2>2, <3>2, <3>5, <3>7 DEF ColumnsRead
    <3> QED
      BY <3>4, <3>6, <3>7
  <2>6. CASE Ends
    <3>1. UNCHANGED << feishu, cache, job, artifacts >> /\ standing' # "running"
      BY <2>6, EndsKeep
    <3> QED
      BY <2>2, <3>1, NotAtWriteTool DEF ColumnsRefreshed, ColumnsRead, Changed
  <2>7. CASE Others \/ UNCHANGED feishuVars
    <3>1. UNCHANGED << job, step, artifacts, standing >>
      BY <2>7, OthersKeep DEF feishuVars
    <3>2. feishu' = feishu /\ cache' \in {cache, NoList}
      BY <2>1, <2>3, <2>7 DEF Others, Meddle, ExpireCache, OtherLists, OtherSaves, feishuVars
    <3> QED
      BY <2>2, <3>1, <3>2, SameStep DEF ColumnsRefreshed, ColumnsRead, Changed
  <2>8. CASE Loading
    <3>1. /\ UNCHANGED << feishu, artifacts, standing, job >> /\ step'.where \in {"listed", "loaded"}
          /\ standing = "running"
      BY <1>1, <2>8, LoadingDoes
         DEF Loading, LoadMock, LoadCached, ListFields, SaveListed, ListFails, Loads, Uses
    <3>2. ColumnsRefreshed'
      BY <3>1 DEF ColumnsRefreshed
    <3>3. Changed' <=> Changed
      BY <3>1 DEF Changed
    <3>4. ASSUME ColumnsRead
          PROVE  ColumnsRead'
      <4>1. CASE LoadMock
        <5>1. step'.where = "loaded" /\ step'.context = Context("mock", feishu.fields) /\ cache' = cache
          BY <1>1, <4>1, LoadingDoes DEF LoadMock
        <5> QED
          BY <3>1, <3>4, <5>1 DEF ColumnsRead, Context
      <4>2. CASE LoadCached
        <5>1. /\ step'.where = "loaded" /\ step'.context = Context("feishu", cache) /\ cache' = cache
              /\ job.real /\ cache # NoList
          BY <1>1, <4>2, LoadingDoes DEF LoadCached
        <5> QED
          BY <3>1, <3>4, <5>1 DEF ColumnsRead, Context
      <4>3. CASE ListFields
        <5>1. step'.where = "listed" /\ step'.listed = feishu.fields /\ cache' = cache
          BY <1>1, <4>3, LoadingDoes DEF ListFields
        <5> QED
          BY <3>1, <3>4, <5>1 DEF ColumnsRead
      <4>4. CASE SaveListed
        <5>1. /\ step'.where = "loaded" /\ step'.context = Context("feishu", step.listed) /\ cache' = step.listed
              /\ step.where = "listed"
          BY <1>1, <4>4, LoadingDoes DEF SaveListed
        <5> QED
          BY <3>1, <3>4, <5>1 DEF ColumnsRead, Context
      <4>5. CASE ListFails
        BY <2>1, <2>3, <4>5 DEF ListFails
      <4> QED
        BY <2>8, <4>1, <4>2, <4>3, <4>4, <4>5 DEF Loading
    <3> QED
      BY <2>2, <3>2, <3>3, <3>4
  <2>9. CASE PrepareWrite \/ StartChange
    <3>1. UNCHANGED << feishu, cache, artifacts, standing, job >> /\ step'.where = "writing"
      BY <1>1, <2>9, WritingMoves DEF MovesTo, PrepareWrite, StartChange
    <3> QED
      BY <2>2, <3>1 DEF ColumnsRefreshed, ColumnsRead, Changed
  <2>10. CASE Send
    <3>1. AtWriteTool /\ artifacts' = artifacts /\ step'.where = "writing"
      BY <1>1, <2>10, WritingMoves DEF MovesTo, Send, Writing, Uses, AtWriteTool
    <3>2. r \notin DOMAIN artifacts'
      BY <1>1, <2>3, <3>1, ValidatedIs DEF AskedFor
    <3> QED
      BY <3>1, <3>2 DEF ColumnsRefreshed, Changed
  <2>11. CASE RefreshList
    <3>1. /\ UNCHANGED << feishu, cache, artifacts, standing, job >> /\ step'.where = "refreshing"
          /\ step'.listed = feishu.fields
      BY <1>1, <2>11, WritingMoves DEF MovesTo, RefreshList
    <3> QED
      BY <2>2, <3>1 DEF ColumnsRefreshed, ColumnsRead, Changed
  <2> QED
    BY <1>5, <2>4, <2>5, <2>6, <2>7, <2>8, <2>9, <2>10, <2>11, FeishuSteps DEF Loading, Saves, Finishes
<1> QED
  BY <1>3, <1>4, <1>5

\* The columns that are read after a change that went well are the table's, whatever was cached
\* before and whatever expires in between, if nobody else touched table or cache since the user
\* was asked: the tool itself replaces what is cached by what the table has after the change.
THEOREM ColumnsAreCurrent == FeishuSpec => []SchemaAfterIsCurrent
<1>1. FeishuInit => SessionInv /\ Counted /\ InPlan /\ ColumnsInv
  <2>1. FeishuInit => shown = NothingShown /\ meddled = 0 /\ faults = 0
    BY DEF FeishuInit
  <2> QED
    BY <2>1, SessionStarts DEF Counted, InPlan, ColumnsInv, Undisturbed, NothingShown, ResultKeys
<1>2. SessionInv /\ Counted /\ InPlan /\ ColumnsInv /\ [FeishuNext]_feishuVars
        => SessionInv' /\ Counted' /\ InPlan' /\ ColumnsInv'
  BY SessionStep, CountedStep, InPlanStep, ColumnsInvStep DEF SessionInv
<1>3. SessionInv /\ Counted /\ InPlan /\ ColumnsInv => SchemaAfterIsCurrent
  BY AfterNeedsChange
     DEF SessionInv, SchemaAfterIsCurrent, ColumnsInv, Undisturbed, Changed, ColumnsRead
<1> QED
  BY <1>1, <1>2, <1>3, PTL DEF FeishuSpec

-----------------------------------------------------------------------------
(* Changes that were accepted.                                             *)

LEMMA FirstFreeIsFree ==
    ASSUME NEW start \in Nat, NEW taken, IsFiniteSet(taken)
    PROVE  FirstFree(start, taken) \notin taken /\ FirstFree(start, taken) \in Nat /\ FirstFree(start, taken) >= start
<1> DEFINE last == start + Cardinality(taken)
           free == {n \in start..last : n \notin taken}
<1>1. Cardinality(taken) \in Nat
  BY FS_CardinalityType
<1>2. free # {}
  <2>1. SUFFICES ASSUME start..last \subseteq taken PROVE FALSE
    OBVIOUS
  <2>2. Cardinality(start..last) = Cardinality(taken) + 1
    <3>1. start \in Int /\ last \in Int /\ ~(start > last) /\ last - start + 1 = Cardinality(taken) + 1
      BY <1>1
    <3> HIDE DEF last
    <3> QED
      BY <3>1, FS_Interval
  <2>3. Cardinality(start..last) <= Cardinality(taken)
    BY <2>1, FS_Subset
  <2> QED
    BY <1>1, <2>2, <2>3
<1>3. free \subseteq Nat
  OBVIOUS
<1>4. PICK n \in free : \A m \in free : n <= m
  <2> HIDE DEF free
  <2> QED
    BY <1>2, <1>3, LeastNumber
<1>5. n \in start..last /\ n \notin taken /\ \A m \in start..(n - 1) : m \in taken
  <2>1. ASSUME NEW m \in start..(n - 1), m \notin taken
        PROVE  FALSE
    <3>1. m \in start..last /\ m < n
      BY <1>1
    <3>2. n <= m
      BY <1>4, <2>1, <3>1
    <3> QED
      BY <3>1, <3>2
  <2> QED
    BY <2>1
<1> QED
  BY <1>5 DEF FirstFree

\* Columns as a table has them: each with an id of its own and a name of its own.
Distinct(fields) ==
    /\ Listed(fields)
    /\ \A i \in DOMAIN fields : {"id", "name"} \subseteq DOMAIN fields[i]
    /\ \A i, j \in DOMAIN fields : fields[i].id = fields[j].id \/ fields[i].name = fields[j].name => i = j

LEMMA OneWithId ==
    ASSUME NEW fields, Distinct(fields), NEW i \in DOMAIN fields
    PROVE  FieldsWithId(fields[i].id, fields) = {i} /\ (CHOOSE j \in FieldsWithId(fields[i].id, fields) : TRUE) = i
<1>1. FieldsWithId(fields[i].id, fields) = {i}
  BY DEF FieldsWithId, Distinct
<1> QED
  BY <1>1

LEMMA DefinitionIsThere ==
    ASSUME NEW defs, Listed(defs), NEW name, name \in FieldNames(defs)
    PROVE  \E i \in DOMAIN defs : DefinitionOf(name, defs) = defs[i]
<1> DEFINE at == {i \in DOMAIN defs : defs[i].name = name}
<1>1. Len(defs) \in Nat /\ DOMAIN defs = 1..Len(defs)
  BY ListFacts
<1>2. at # {} /\ at \subseteq 0..Len(defs)
  BY <1>1 DEF FieldNames
<1>3. \E i \in at : \A j \in at : j <= i
  <2> HIDE DEF at
  <2> QED
    BY <1>1, <1>2, GreatestNumber
<1>4. PICK i : i = CHOOSE k \in at : \A j \in at : j <= k
  OBVIOUS
<1>5. i \in at
  <2> HIDE DEF at
  <2> QED
    BY <1>3, <1>4
<1> QED
  BY <1>4, <1>5 DEF DefinitionOf

LEMMA ResolvedIsThere ==
    ASSUME NEW raw, NEW defs, Listed(defs), ResolveSchemaField(raw, defs) # NoField
    PROVE  \E i \in DOMAIN defs : ResolveSchemaField(raw, defs) = defs[i]
<1>1. FieldsWithId(raw.id, defs) # {} => (CHOOSE i \in FieldsWithId(raw.id, defs) : TRUE) \in DOMAIN defs
  <2>1. FieldsWithId(raw.id, defs) \subseteq DOMAIN defs
    BY DEF FieldsWithId
  <2> QED
    BY <2>1
<1> QED
  BY <1>1, DefinitionIsThere DEF ResolveSchemaField

\* An operation that fits columns with these names, and columns with other names, defs: those it
\* was checked against.
Suits(op, names, defs) ==
    /\ op.do \in {"create_field", "update_field", "delete_field"}
    /\ op.do = "create_field" => op.name \notin names
    /\ op.do # "create_field" => \E i \in DOMAIN defs : op.id = defs[i].id
    /\ \A i \in DOMAIN defs : op.id = defs[i].id =>
         /\ op.do = "update_field" => op.name = defs[i].name \/ op.name \notin names
         /\ op.do = "delete_field" => op.name = defs[i].name

LEMMA NormalizedSuits ==
    ASSUME NEW raw, NEW defs, Distinct(defs), NEW names, NEW intended,
           NormalizeSchemaAction(raw, defs, names, intended) # Rejection
    PROVE  Suits(NormalizeSchemaAction(raw, defs, names, intended), names, defs)
<1> DEFINE source == ResolveSchemaField(raw, defs)
<1>1. CASE CanonicalAction(raw.do) = "create_field"
  <2>1. PICK type : /\ NormalizeSchemaAction(raw, defs, names, intended) = Action("create_field", NoId, Clean(raw.field), type)
                    /\ Clean(raw.field) \notin names
    BY <1>1 DEF NormalizeSchemaAction, NormalizeCreateFieldAction
  <2> QED
    BY <2>1 DEF Suits, Action
<1>2. CASE CanonicalAction(raw.do) = "update_field"
  <2>1. PICK name : /\ NormalizeSchemaAction(raw, defs, names, intended) = Action("update_field", source.id, name, source.type)
                    /\ name = source.name \/ name \notin names
                    /\ source # NoField
    BY <1>2 DEF NormalizeSchemaAction, NormalizeUpdateFieldAction
  <2>2. PICK i \in DOMAIN defs : source = defs[i]
    BY <2>1, ResolvedIsThere DEF Distinct
  <2>3. \A j \in DOMAIN defs : defs[j].id = source.id => j = i
    BY <2>2 DEF Distinct
  <2> HIDE DEF source
  <2> QED
    BY <2>1, <2>2, <2>3 DEF Suits, Action
<1>3. CASE CanonicalAction(raw.do) = "delete_field"
  <2>1. /\ NormalizeSchemaAction(raw, defs, names, intended) = Action("delete_field", source.id, source.name, source.type)
        /\ source # NoField
    BY <1>3 DEF NormalizeSchemaAction, NormalizeDeleteFieldAction
  <2>2. PICK i \in DOMAIN defs : source = defs[i]
    BY <2>1, ResolvedIsThere DEF Distinct
  <2>3. \A j \in DOMAIN defs : defs[j].id = source.id => j = i
    BY <2>2 DEF Distinct
  <2> HIDE DEF source
  <2> QED
    BY <2>1, <2>2, <2>3 DEF Suits, Action
<1> QED
  BY <1>1, <1>2, <1>3 DEF NormalizeSchemaAction

\* The names a list of operations leaves, one after the other, each of which suits those before it.
NamesFollow(names, ops, defs) ==
    /\ names[0] = FieldNames(defs)
    /\ \A n \in 1..Len(ops) : /\ Suits(ops[n], names[n - 1], defs)
                              /\ names[n] = PlannedNames(names[n - 1], ops[n], defs)
FollowsUp(ops, defs) == \E names : NamesFollow(names, ops, defs)

\* Where an action's name comes from.
LEMMA ActionNames ==
    ASSUME NEW raw, NEW defs, NEW names, NEW intended
    PROVE  NormalizeSchemaAction(raw, defs, names, intended).name
             \in {NoName, Clean(raw.field), Clean(raw.target), ResolveSchemaField(raw, defs).name}
<1> DEFINE source == ResolveSchemaField(raw, defs)
           made == NormalizeSchemaAction(raw, defs, names, intended)
<1>1. \A do, id, name, type : Action(do, id, name, type).name = name
  BY DEF Action
<1>2. Rejection.name = NoName
  BY DEF Rejection, Action
<1>3. NormalizeCreateFieldAction(raw, names) = Rejection
      \/ \E type : NormalizeCreateFieldAction(raw, names) = Action("create_field", NoId, Clean(raw.field), type)
  BY DEF NormalizeCreateFieldAction
<1>4. NewName(raw, source) \in {Clean(raw.field), Clean(raw.target), source.name}
  BY DEF NewName
<1>5. NormalizeUpdateFieldAction(raw, defs, names) = Rejection
      \/ NormalizeUpdateFieldAction(raw, defs, names)
           = Action("update_field", source.id, NewName(raw, source), source.type)
  BY DEF NormalizeUpdateFieldAction
<1>6. NormalizeDeleteFieldAction(raw, defs, intended) = Rejection
      \/ NormalizeDeleteFieldAction(raw, defs, intended)
           = Action("delete_field", source.id, source.name, source.type)
  BY DEF NormalizeDeleteFieldAction
<1>7. \/ made = Rejection \/ made = NormalizeCreateFieldAction(raw, names)
      \/ made = NormalizeUpdateFieldAction(raw, defs, names)
      \/ made = NormalizeDeleteFieldAction(raw, defs, intended)
  BY DEF NormalizeSchemaAction
<1> HIDE DEF made, source
<1>8. \/ made.name \in {NoName, Clean(raw.field), source.name}
      \/ made.name = NewName(raw, source)
  BY <1>1, <1>2, <1>3, <1>5, <1>6, <1>7
<1> QED
  BY <1>4, <1>8 DEF made, source

LEMMA NamesAreDefined ==
    ASSUME NEW raws, Listed(raws), NEW defs, NEW intended
    PROVE  LET names == NamesAfter(raws, defs, intended)
           IN  /\ names[0] = FieldNames(defs)
               /\ \A n \in 1..Len(raws) :
                    names[n] = PlannedNames(names[n - 1],
                                 NormalizeSchemaAction(raws[n], defs, names[n - 1], intended), defs)
<1> DEFINE Next0(n, before) ==
             PlannedNames(before, NormalizeSchemaAction(raws[n], defs, before, intended), defs)
           Eq(g) == g = [n \in 0..Len(raws) |-> IF n = 0 THEN FieldNames(defs) ELSE Next0(n, g[n - 1])]
           U == FieldNames(defs) \cup {NoName}
                  \cup UNION {{Clean(raws[n].field), Clean(raws[n].target), ResolveSchemaField(raws[n], defs).name}
                                : n \in 1..Len(raws)}
<1>1. Len(raws) \in Nat
  BY ListFacts
<1>2. \A n \in 1..Len(raws), before \in SUBSET U : Next0(n, before) \in SUBSET U
  <2>1. SUFFICES ASSUME NEW n \in 1..Len(raws), NEW before \in SUBSET U
                 PROVE  Next0(n, before) \in SUBSET U
    OBVIOUS
  <2> DEFINE action == NormalizeSchemaAction(raws[n], defs, before, intended)
  <2>2. action.name \in U
    BY ActionNames
  <2>3. PlannedNames(before, action, defs) \subseteq before \cup {action.name}
    BY DEF PlannedNames
  <2> HIDE DEF action
  <2> QED
    BY <2>2, <2>3 DEF action
<1>3. PICK G \in [(1..Len(raws)) \X SUBSET U -> SUBSET U] :
        \A n \in 1..Len(raws), before \in SUBSET U : G[<< n, before >>] = Next0(n, before)
  <2> DEFINE G == [x \in (1..Len(raws)) \X SUBSET U |-> Next0(x[1], x[2])]
  <2> HIDE DEF U, Next0
  <2>1. \A n \in 1..Len(raws), before \in SUBSET U : G[<< n, before >>] = Next0(n, before)
    OBVIOUS
  <2>2. G \in [(1..Len(raws)) \X SUBSET U -> SUBSET U]
    BY <1>2
  <2> QED
    BY <2>1, <2>2
<1>4. PICK g : IsRecursion(g, Len(raws), SUBSET U, FieldNames(defs), G)
  <2>1. FieldNames(defs) \in SUBSET U
    OBVIOUS
  <2> HIDE DEF U
  <2> QED
    BY <1>1, <1>3, <2>1, RecursionUpTo
<1>5. \A n \in 0..Len(raws) : g[n] = IF n = 0 THEN FieldNames(defs) ELSE Next0(n, g[n - 1])
  <2> HIDE DEF U, Next0
  <2>1. /\ g \in [0..Len(raws) -> SUBSET U]
        /\ g = [n \in 0..Len(raws) |-> IF n = 0 THEN FieldNames(defs) ELSE G[<< n, g[n - 1] >>]]
    BY <1>4 DEF IsRecursion
  <2>2. ASSUME NEW n \in 0..Len(raws), n # 0
        PROVE  g[n] = Next0(n, g[n - 1])
    <3>1. n \in 1..Len(raws) /\ n - 1 \in 0..Len(raws)
      BY <1>1, <2>2
    <3>2. g[n - 1] \in SUBSET U
      BY <2>1, <3>1
    <3>3. g[n] = G[<< n, g[n - 1] >>]
      BY <2>1, <2>2
    <3> QED
      BY <1>3, <3>1, <3>2, <3>3
  <2> QED
    BY <2>1, <2>2
<1>6. Eq(g)
  <2> HIDE DEF Next0
  <2>1. DOMAIN g = 0..Len(raws) /\ g = [n \in DOMAIN g |-> g[n]]
    BY <1>4 DEF IsRecursion
  <2> QED
    BY <1>5, <2>1
<1>7. NamesAfter(raws, defs, intended) = CHOOSE h : Eq(h)
  BY DEF NamesAfter
<1>8. Eq(NamesAfter(raws, defs, intended))
  <2> HIDE DEF Eq
  <2> QED
    BY <1>6, <1>7
<1> DEFINE names == NamesAfter(raws, defs, intended)
<1>9. /\ names[0] = FieldNames(defs)
      /\ \A n \in 1..Len(raws) : names[n] = Next0(n, names[n - 1])
  <2> HIDE DEF names, Next0
  <2>1. names = [n \in 0..Len(raws) |-> IF n = 0 THEN FieldNames(defs) ELSE Next0(n, names[n - 1])]
    BY <1>8 DEF names
  <2>2. 0 \in 0..Len(raws) /\ \A n \in 1..Len(raws) : n \in 0..Len(raws) /\ n # 0
    BY <1>1
  <2> QED
    BY <2>1, <2>2
<1> QED
  BY <1>9

LEMMA CheckedFollowsUp ==
    ASSUME NEW raws, Listed(raws), NEW defs, Distinct(defs), NEW intended,
           ~NormalizeSchemaActions(raws, defs, intended).invalid
    PROVE  FollowsUp(NormalizeSchemaActions(raws, defs, intended).actions, defs)
<1>1. PICK names : names = NamesAfter(raws, defs, intended)
  OBVIOUS
<1>2. PICK ops : ops = [n \in 1..Len(raws) |-> NormalizeSchemaAction(raws[n], defs, names[n - 1], intended)]
  OBVIOUS
<1>3. /\ NormalizeSchemaActions(raws, defs, intended).actions = ops
      /\ Rejection \notin ToSet(ops)
  BY <1>1, <1>2 DEF NormalizeSchemaActions
<1>4. Len(raws) \in Nat
  BY ListFacts
<1>5. Listed(ops) /\ Len(ops) = Len(raws) /\ DOMAIN ops = 1..Len(raws)
  <2>1. ops = [n \in 1..Len(raws) |-> ops[n]]
    BY <1>2
  <2> QED
    BY <1>2, <1>4, <2>1, ListMade
<1>6. /\ names[0] = FieldNames(defs)
      /\ \A n \in 1..Len(raws) : names[n] = PlannedNames(names[n - 1], ops[n], defs)
  <2>1. /\ names[0] = FieldNames(defs)
        /\ \A n \in 1..Len(raws) :
             names[n] = PlannedNames(names[n - 1], NormalizeSchemaAction(raws[n], defs, names[n - 1], intended), defs)
    BY <1>1, NamesAreDefined
  <2> QED
    BY <1>2, <2>1
<1>7. ASSUME NEW n \in 1..Len(raws)
      PROVE  Suits(ops[n], names[n - 1], defs)
  <2>1. ops[n] = NormalizeSchemaAction(raws[n], defs, names[n - 1], intended)
    BY <1>2
  <2>2. ops[n] # Rejection
    BY <1>3, <1>5 DEF ToSet
  <2> QED
    BY <2>1, <2>2, NormalizedSuits
<1> QED
  BY <1>3, <1>5, <1>6, <1>7 DEF FollowsUp, NamesFollow

\* The column an operation is about is still there under the name it was checked with.
Kept(fields, defs, op) ==
    op.do # "create_field" =>
        \E i \in DOMAIN fields, j \in DOMAIN defs :
            fields[i].id = op.id /\ defs[j].id = op.id /\ fields[i].name = defs[j].name

\* Columns after one more operation.
GoesWell(fields, op, defs, new) ==
    /\ Distinct(new)
    /\ FieldNames(new) = PlannedNames(FieldNames(fields), op, defs)
    /\ \A other : /\ op.do = "create_field" \/ other.id # op.id
                  /\ Kept(fields, defs, other)
                  => Kept(new, defs, other)

LEMMA CreateGoesWell ==
    ASSUME NEW table, DOMAIN table = {"fields", "records"}, Distinct(table.fields),
           NEW defs, NEW op, op.do = "create_field", op.name \notin FieldNames(table.fields)
    PROVE  /\ DOMAIN CreateField(table, op) = {"fields", "records"}
           /\ GoesWell(table.fields, op, defs, CreateField(table, op).fields)
<1> DEFINE fields == table.fields
           ids == {fields[i].id : i \in DOMAIN fields}
           row == [id |-> NextFieldId(table), name |-> op.name, type |-> op.type]
           new == Append(fields, row)
<1>1. Len(fields) \in Nat /\ DOMAIN fields = 1..Len(fields)
  BY ListFacts DEF Distinct
<1>2. NextFieldId(table) \notin ids
  <2>1. IsFiniteSet(ids)
    <3>1. IsFiniteSet(DOMAIN fields)
      BY <1>1, FS_Interval
    <3> DEFINE f == [i \in DOMAIN fields |-> fields[i].id]
    <3>2. f \in Surjection(DOMAIN fields, ids)
      BY DEF Surjection
    <3> HIDE DEF f, ids
    <3> QED
      BY <3>1, <3>2, FS_Surjection
  <2>2. NextFieldId(table) = FirstFree(Len(fields) + 1, ids)
    BY DEF NextFieldId
  <2>3. Len(fields) + 1 \in Nat
    BY <1>1
  <2> HIDE DEF ids
  <2> QED
    BY <2>1, <2>2, <2>3, FirstFreeIsFree
<1>3. CreateField(table, op) = [table EXCEPT !.fields = new]
  BY DEF CreateField
<1>4. DOMAIN CreateField(table, op) = {"fields", "records"} /\ CreateField(table, op).fields = new
  BY <1>3
<1>5. /\ Listed(new) /\ DOMAIN new = 1..(Len(fields) + 1)
      /\ new[Len(fields) + 1] = row
      /\ \A i \in 1..Len(fields) : new[i] = fields[i]
  <2> HIDE DEF row
  <2> QED
    BY ListMore DEF Distinct
<1>6. DOMAIN row = {"id", "name", "type"} /\ row.id = NextFieldId(table) /\ row.name = op.name
  OBVIOUS
<1> HIDE DEF row, new
<1>7. \A i \in DOMAIN new : \/ i \in DOMAIN fields /\ new[i] = fields[i]
                            \/ i = Len(fields) + 1 /\ new[i] = row
  BY <1>1, <1>5
<1>8. \A i \in DOMAIN fields : i \in DOMAIN new /\ new[i] = fields[i] /\ i # Len(fields) + 1
  BY <1>1, <1>5
<1>9. Len(fields) + 1 \in DOMAIN new
  BY <1>1, <1>5
<1>10. \A i \in DOMAIN fields : fields[i].id # row.id /\ fields[i].name # row.name
  BY <1>2, <1>6 DEF FieldNames
<1>11. Distinct(new)
  <2>1. \A i \in DOMAIN new : {"id", "name"} \subseteq DOMAIN new[i]
    BY <1>6, <1>7 DEF Distinct
  <2>2. \A i, j \in DOMAIN new : new[i].id = new[j].id \/ new[i].name = new[j].name => i = j
    BY <1>7, <1>10 DEF Distinct
  <2> QED
    BY <1>5, <2>1, <2>2 DEF Distinct
<1>12. FieldNames(new) = FieldNames(fields) \cup {op.name}
  <2>1. \A x : x \in FieldNames(new) <=> x \in FieldNames(fields) \/ x = op.name
    BY <1>5, <1>6, <1>7, <1>8, <1>9 DEF FieldNames
  <2> QED
    BY <2>1
<1>13. ASSUME NEW other, Kept(fields, defs, other) PROVE Kept(new, defs, other)
  BY <1>8, <1>13 DEF Kept
<1>14. PlannedNames(FieldNames(fields), op, defs) = FieldNames(fields) \cup {op.name}
  BY DEF PlannedNames
<1> QED
  BY <1>4, <1>11, <1>12, <1>13, <1>14 DEF GoesWell

LEMMA UpdateGoesWell ==
    ASSUME NEW table, DOMAIN table = {"fields", "records"}, Distinct(table.fields),
           NEW defs, Distinct(defs), NEW op, op.do = "update_field",
           Suits(op, FieldNames(table.fields), defs), Kept(table.fields, defs, op)
    PROVE  /\ DOMAIN UpdateField(table, op) = {"fields", "records"}
           /\ GoesWell(table.fields, op, defs, UpdateField(table, op).fields)
<1> DEFINE fields == table.fields
<1>1. PICK at \in DOMAIN fields, j \in DOMAIN defs :
        fields[at].id = op.id /\ defs[j].id = op.id /\ fields[at].name = defs[j].name
  BY DEF Kept
<1>2. (CHOOSE i \in FieldsWithId(op.id, fields) : TRUE) = at
  BY <1>1, OneWithId
<1>3. FieldsWithId(op.id, defs) = {j} /\ (CHOOSE i \in FieldsWithId(op.id, defs) : TRUE) = j
  BY <1>1, OneWithId
<1> DEFINE new == [fields EXCEPT ![at].name = op.name]
           row == [fields[at] EXCEPT !.name = op.name]
<1>4. DOMAIN UpdateField(table, op) = {"fields", "records"} /\ UpdateField(table, op).fields = new
  BY <1>2 DEF UpdateField
<1>5. Len(fields) \in Nat /\ DOMAIN fields = 1..Len(fields)
  BY ListFacts DEF Distinct
<1>6. {"id", "name"} \subseteq DOMAIN row /\ row.id = fields[at].id /\ row.name = op.name
  BY DEF Distinct
<1>7. DOMAIN new = DOMAIN fields /\ new[at] = row /\ \A i \in DOMAIN fields : i # at => new[i] = fields[i]
  OBVIOUS
<1>8. Listed(new)
  <2>1. new = [i \in 1..Len(fields) |-> new[i]]
    BY <1>5
  <2> HIDE DEF new
  <2> QED
    BY <1>5, <2>1, ListMade
<1> HIDE DEF row, new
<1>9. op.name = fields[at].name \/ op.name \notin FieldNames(fields)
  BY <1>1 DEF Suits
<1>10. \A i \in DOMAIN fields : i # at => fields[i].id # row.id /\ fields[i].name # row.name
  BY <1>6, <1>9 DEF Distinct, FieldNames
<1>11. Distinct(new)
  <2>1. \A i \in DOMAIN new : {"id", "name"} \subseteq DOMAIN new[i]
    BY <1>6, <1>7 DEF Distinct
  <2>2. \A i, k \in DOMAIN new : new[i].id = new[k].id \/ new[i].name = new[k].name => i = k
    BY <1>7, <1>10 DEF Distinct
  <2> QED
    BY <1>8, <2>1, <2>2 DEF Distinct
<1>12. FieldNames(new) = (FieldNames(fields) \ {fields[at].name}) \cup {op.name}
  <2>1. \A x : x \in FieldNames(new) <=> x = op.name \/ \E i \in DOMAIN fields : i # at /\ x = fields[i].name
    BY <1>6, <1>7 DEF FieldNames
  <2>2. \A x : x \in FieldNames(fields) /\ x # fields[at].name
               <=> \E i \in DOMAIN fields : i # at /\ x = fields[i].name
    BY DEF FieldNames, Distinct
  <2> QED
    BY <2>1, <2>2
<1>13. PlannedNames(FieldNames(fields), op, defs) = (FieldNames(fields) \ {fields[at].name}) \cup {op.name}
  BY <1>1, <1>3 DEF PlannedNames
<1>14. ASSUME NEW other, other.id # op.id, Kept(fields, defs, other) PROVE Kept(new, defs, other)
  BY <1>1, <1>7, <1>14 DEF Kept
<1> QED
  BY <1>4, <1>11, <1>12, <1>13, <1>14 DEF GoesWell

LEMMA RemovedAt ==
    ASSUME NEW s, Listed(s), NEW at \in DOMAIN s
    PROVE  /\ Listed(RemoveAt(s, at)) /\ DOMAIN RemoveAt(s, at) = 1..(Len(s) - 1)
           /\ \A i \in 1..(Len(s) - 1) : RemoveAt(s, at)[i] = IF i < at THEN s[i] ELSE s[i + 1]
<1>1. PICK S : s \in Seq(S)
  BY DEF Listed
<1>2. Len(s) \in Nat /\ DOMAIN s = 1..Len(s)
  BY ListFacts
<1>3. RemoveAt(s, at) = SubSeq(s, 1, at - 1) \o SubSeq(s, at + 1, Len(s))
  BY DEF RemoveAt
<1> DEFINE a == SubSeq(s, 1, at - 1)
           b == SubSeq(s, at + 1, Len(s))
<1>4. a \in Seq(S) /\ Len(a) = at - 1 /\ \A i \in 1..(at - 1) : a[i] = s[i]
  BY <1>1, <1>2
<1>5. b \in Seq(S) /\ Len(b) = Len(s) - at /\ \A i \in 1..(Len(s) - at) : b[i] = s[at + i]
  BY <1>1, <1>2
<1> HIDE DEF a, b
<1>6. /\ a \o b \in Seq(S) /\ Len(a \o b) = Len(a) + Len(b)
      /\ \A i \in 1..(Len(a) + Len(b)) : (a \o b)[i] = IF i <= Len(a) THEN a[i] ELSE b[i - Len(a)]
  BY <1>4, <1>5, ConcatProperties
<1>7. Listed(a \o b)
  BY <1>6 DEF Listed
<1>8. Len(a) + Len(b) = Len(s) - 1
  BY <1>2, <1>4, <1>5
<1>9. DOMAIN (a \o b) = 1..(Len(s) - 1)
  BY <1>6, <1>7, <1>8, ListFacts
<1>10. ASSUME NEW i \in 1..(Len(s) - 1)
       PROVE  (a \o b)[i] = IF i < at THEN s[i] ELSE s[i + 1]
  <2>1. (a \o b)[i] = IF i <= Len(a) THEN a[i] ELSE b[i - Len(a)]
    BY <1>6, <1>8
  <2>2. CASE i < at
    BY <1>2, <1>4, <2>1, <2>2
  <2>3. CASE ~(i < at)
    <3>1. ~(i <= Len(a)) /\ i - Len(a) \in 1..(Len(s) - at) /\ at + (i - Len(a)) = i + 1
      BY <1>2, <1>4, <2>3
    <3> QED
      BY <1>5, <2>1, <2>3, <3>1
  <2> QED
    BY <2>2, <2>3
<1> QED
  BY <1>3, <1>7, <1>9, <1>10 DEF a, b

LEMMA DeleteGoesWell ==
    ASSUME NEW table, DOMAIN table = {"fields", "records"}, Distinct(table.fields),
           NEW defs, Distinct(defs), NEW op, op.do = "delete_field",
           Suits(op, FieldNames(table.fields), defs), Kept(table.fields, defs, op)
    PROVE  /\ DOMAIN DeleteField(table, op) = {"fields", "records"}
           /\ GoesWell(table.fields, op, defs, DeleteField(table, op).fields)
<1> DEFINE fields == table.fields
<1>1. PICK at \in DOMAIN fields, j \in DOMAIN defs :
        fields[at].id = op.id /\ defs[j].id = op.id /\ fields[at].name = defs[j].name
  BY DEF Kept
<1>2. (CHOOSE i \in FieldsWithId(op.id, fields) : TRUE) = at
  BY <1>1, OneWithId
<1> DEFINE new == RemoveAt(fields, at)
<1>3. DOMAIN DeleteField(table, op) = {"fields", "records"} /\ DeleteField(table, op).fields = new
  BY <1>2 DEF DeleteField
<1>4. Len(fields) \in Nat /\ DOMAIN fields = 1..Len(fields)
  BY ListFacts DEF Distinct
<1>5. /\ Listed(new) /\ DOMAIN new = 1..(Len(fields) - 1)
      /\ \A i \in 1..(Len(fields) - 1) : new[i] = IF i < at THEN fields[i] ELSE fields[i + 1]
  BY RemovedAt DEF Distinct
<1> HIDE DEF new
<1> DEFINE old == [i \in DOMAIN new |-> IF i < at THEN i ELSE i + 1]
<1>6. \A i \in DOMAIN new : old[i] = IF i < at THEN i ELSE i + 1
  OBVIOUS
<1> HIDE DEF old
<1>7. \A i \in DOMAIN new : old[i] \in DOMAIN fields /\ old[i] # at /\ new[i] = fields[old[i]]
  BY <1>4, <1>5, <1>6
<1>8. \A i, k \in DOMAIN new : old[i] = old[k] => i = k
  BY <1>4, <1>5, <1>6
<1>9. \A i \in DOMAIN fields : i # at => \E k \in DOMAIN new : new[k] = fields[i]
  <2>1. SUFFICES ASSUME NEW i \in DOMAIN fields, i # at
                 PROVE  \E k \in DOMAIN new : new[k] = fields[i]
    OBVIOUS
  <2>2. CASE i < at
    <3>1. i \in DOMAIN new
      BY <1>4, <1>5, <2>2
    <3> QED
      BY <1>5, <2>2, <3>1
  <2>3. CASE ~(i < at)
    <3>1. i - 1 \in DOMAIN new /\ ~(i - 1 < at) /\ i - 1 + 1 = i
      BY <1>4, <1>5, <2>1, <2>3
    <3> QED
      BY <1>5, <3>1
  <2> QED
    BY <2>2, <2>3
<1>10. Distinct(new)
  <2>1. \A i \in DOMAIN new : {"id", "name"} \subseteq DOMAIN new[i]
    BY <1>7 DEF Distinct
  <2>2. \A i, k \in DOMAIN new : new[i].id = new[k].id \/ new[i].name = new[k].name => i = k
    BY <1>7, <1>8 DEF Distinct
  <2> QED
    BY <1>5, <2>1, <2>2 DEF Distinct
<1>11. FieldNames(new) = FieldNames(fields) \ {fields[at].name}
  <2>1. \A x : x \in FieldNames(new) <=> \E i \in DOMAIN fields : i # at /\ x = fields[i].name
    BY <1>7, <1>9 DEF FieldNames
  <2>2. \A x : x \in FieldNames(fields) /\ x # fields[at].name
               <=> \E i \in DOMAIN fields : i # at /\ x = fields[i].name
    BY DEF FieldNames, Distinct
  <2> QED
    BY <2>1, <2>2
<1>12. op.name = fields[at].name
  BY <1>1 DEF Suits
<1>13. PlannedNames(FieldNames(fields), op, defs) = FieldNames(fields) \ {fields[at].name}
  BY <1>12 DEF PlannedNames
<1>14. ASSUME NEW other, other.id # op.id, Kept(fields, defs, other) PROVE Kept(new, defs, other)
  <2>1. CASE other.do = "create_field"
    BY <2>1 DEF Kept
  <2>2. CASE other.do # "create_field"
    <3>1. PICK i \in DOMAIN fields, k \in DOMAIN defs :
            fields[i].id = other.id /\ defs[k].id = other.id /\ fields[i].name = defs[k].name
      BY <1>14, <2>2 DEF Kept
    <3>2. i # at
      BY <1>1, <1>14, <3>1
    <3> QED
      BY <1>9, <3>1, <3>2 DEF Kept
  <2> QED
    BY <2>1, <2>2
<1> QED
  BY <1>3, <1>10, <1>11, <1>13, <1>14 DEF GoesWell

LEMMA ChangeGoesWell ==
    ASSUME NEW table, DOMAIN table = {"fields", "records"}, Distinct(table.fields),
           NEW defs, Distinct(defs), NEW op,
           Suits(op, FieldNames(table.fields), defs), Kept(table.fields, defs, op), NEW backend
    PROVE  /\ Accepts(table, op, backend)
           /\ DOMAIN Apply(table, op) = {"fields", "records"}
           /\ GoesWell(table.fields, op, defs, Apply(table, op).fields)
<1> DEFINE fields == table.fields
           others == {fields[i].name : i \in DOMAIN fields \ FieldsWithId(op.id, fields)}
<1>1. CASE op.do = "create_field"
  <2>1. op.name \notin FieldNames(fields) /\ others \subseteq FieldNames(fields)
    BY <1>1 DEF Suits, FieldNames
  <2>2. Accepts(table, op, backend)
    BY <1>1, <2>1 DEF Accepts
  <2>3. Apply(table, op) = CreateField(table, op)
    BY <1>1 DEF Apply
  <2> QED
    BY <1>1, <2>1, <2>2, <2>3, CreateGoesWell
<1>2. CASE op.do \in {"update_field", "delete_field"}
  <2>1. PICK at \in DOMAIN fields, j \in DOMAIN defs :
          fields[at].id = op.id /\ defs[j].id = op.id /\ fields[at].name = defs[j].name
    BY <1>2 DEF Kept
  <2>2. FieldsWithId(op.id, fields) = {at}
    BY <2>1, OneWithId
  <2>3. op.do = "update_field" => op.name \notin others
    <3>1. ASSUME op.do = "update_field"
          PROVE  op.name = fields[at].name \/ op.name \notin FieldNames(fields)
      BY <2>1, <3>1 DEF Suits
    <3>2. fields[at].name \notin others /\ others \subseteq FieldNames(fields)
      BY <2>2 DEF Distinct, FieldNames
    <3> QED
      BY <3>1, <3>2
  <2>4. Accepts(table, op, backend)
    BY <1>2, <2>2, <2>3 DEF Accepts
  <2>5. CASE op.do = "update_field"
    <3>1. Apply(table, op) = UpdateField(table, op)
      BY <2>5 DEF Apply
    <3> QED
      BY <2>4, <2>5, <3>1, UpdateGoesWell
  <2>6. CASE op.do = "delete_field"
    <3>1. Apply(table, op) = DeleteField(table, op)
      BY <2>6 DEF Apply
    <3> QED
      BY <2>4, <2>6, <3>1, DeleteGoesWell
  <2> QED
    BY <1>2, <2>5, <2>6
<1> QED
  BY <1>1, <1>2 DEF Suits

-----------------------------------------------------------------------------
(* A change that was accepted goes through.                                *)

F0 == InitialTable.fields
Quiet == meddled = 0 /\ faults = 0
AtChange == AtWriteTool /\ Current.uses = CHANGE_SCHEMA_TOOL

LEMMA QuietBefore ==
    ASSUME Counted, [FeishuNext]_feishuVars, Quiet'
    PROVE  Quiet /\ meddled' = meddled /\ faults' = faults
<1>1. meddled' \in {meddled, meddled + 1} /\ faults' \in {faults, faults + 1}
  BY CountsGrow
<1> QED
  BY <1>1 DEF Quiet, Counted

LEMMA FirstColumns == Distinct(F0) /\ DOMAIN InitialTable = {"fields", "records"}
<1>1. /\ DOMAIN InitialTable = {"fields", "records"} /\ IsList(F0)
      /\ \A i \in DOMAIN F0 : F0[i] \in [id : Nat \ {NoId}, name : Names, type : Nat]
      /\ \A i, j \in DOMAIN F0 : F0[i].id = F0[j].id \/ F0[i].name = F0[j].name => i = j
  BY InitialTableAssumption DEF F0
<1>2. Listed(F0)
  BY <1>1 DEF IsList, Listed
<1>3. \A i \in DOMAIN F0 : {"id", "name"} \subseteq DOMAIN F0[i]
  BY <1>1
<1> QED
  BY <1>1, <1>2, <1>3 DEF Distinct

\* What a tool has left to send: of a change, what was shown and not yet sent.
LeftToSend ==
    AtWriteTool /\ step.where = "writing" =>
        /\ Current.uses = CHANGE_SCHEMA_TOOL =>
             \A j \in 1..Len(step.ops) : step.ops[j] = shown.ops[Len(sent) + j]
        /\ Current.uses # CHANGE_SCHEMA_TOOL =>
             \A j \in 1..Len(step.ops) : step.ops[j].do \in {"create_record", "update_record", "delete_record"}

LEMMA PreparedRecords ==
    ASSUME SessionInv, PrepareWrite
    PROVE  \A j \in 1..Len(step'.ops) : step'.ops[j].do \in {"create_record", "update_record", "delete_record"}
<1>1. AtWriteTool /\ Current.uses # CHANGE_SCHEMA_TOOL
  BY DEF PrepareWrite, Uses, AtWriteTool, RECORD_TOOLS
<1>2. Validated = artifacts["validation.write_payload"] /\ "validation.write_payload" \in DOMAIN artifacts
  BY <1>1, ValidatedIs DEF CheckedKey, SessionInv
<1>3. Listed(Validated.requests)
  BY <1>2 DEF CheckedRecords, SessionInv
<1>4. PICK requests : requests = Prepared1(step.context.fields)
  OBVIOUS
<1>5. Len(Validated.requests) \in Nat /\ DOMAIN Validated.requests = 1..Len(Validated.requests)
  BY <1>3, ListFacts
<1>6. Listed(requests)
  <2>1. requests = [i \in 1..Len(Validated.requests) |-> requests[i]]
    BY <1>4, <1>5 DEF Prepared1
  <2> QED
    BY <1>5, <2>1, ListMade
<1>7. step'.ops = Writes(requests)
  BY <1>4, WritingMoves DEF SessionInv
<1>8. /\ Len(Writes(requests)) = Len(requests)
      /\ \A i \in 1..Len(requests) : Writes(requests)[i].do = Operation
  BY <1>6, WritesListed
<1>9. Operation \in {"create_record", "update_record", "delete_record"}
  BY DEF Operation
<1> QED
  BY <1>7, <1>8, <1>9

LEMMA LeftToSendStep ==
    ASSUME SessionInv, LeftToSend, [FeishuNext]_feishuVars
    PROVE  LeftToSend'
<1>1. ByPlan /\ SentRight /\ AskedFor /\ CheckedChange
  BY DEF SessionInv
<1>2. CASE Invoke \/ Ask \/ Ends
  BY <1>1, <1>2, NotAtFirst, AskDoes, EndsKeep, NotAtWriteTool DEF LeftToSend
<1>3. CASE Saves
  <2>1. step' = At(step.at + 1)
    BY <1>1, <1>3, SavesDo, SavesNext DEF Saved
  <2> QED
    BY <2>1, AtFields DEF LeftToSend
<1>4. CASE Others \/ UNCHANGED feishuVars
  <2>1. UNCHANGED << job, step, artifacts, standing, shown, sent >>
    BY <1>4, OthersKeep DEF feishuVars
  <2> QED
    BY <2>1, SameStep DEF LeftToSend
<1>5. CASE Loading \/ RefreshList
  <2>1. step'.where # "writing"
    BY <1>1, <1>5, LoadingDoes, WritingMoves DEF Loading, MovesTo
  <2> QED
    BY <2>1 DEF LeftToSend
<1>6. CASE PrepareWrite
  <2>1. Current' = Current /\ Current.uses # CHANGE_SCHEMA_TOOL
    BY <1>1, <1>6, MovingOn, SameStep DEF PrepareWrite, Uses, RECORD_TOOLS
  <2>2. PICK ops : ops = step'.ops
    OBVIOUS
  <2>3. \A j \in 1..Len(ops) : ops[j].do \in {"create_record", "update_record", "delete_record"}
    BY <1>6, <2>2, PreparedRecords
  <2> QED
    BY <2>1, <2>2, <2>3 DEF LeftToSend
<1>7. CASE StartChange
  <2>1. AtWriteTool /\ Current.uses = CHANGE_SCHEMA_TOOL /\ step.where = "start"
    BY <1>7, Names7 DEF StartChange, Uses, AtWriteTool
  <2>2. UNCHANGED << shown, sent >> /\ Current' = Current
    BY <1>1, <1>7, MovingOn, SameStep DEF StartChange
  <2>3. sent = << >>
    BY <1>1, <2>1 DEF SentRight
  <2>4. Len(sent') = 0
    BY <2>2, <2>3, NoneListed
  <2>5. step'.ops = Validated.ops /\ Validated.ops = shown.ops
    BY <1>1, <1>7, <2>1, WritingMoves DEF AskedFor
  <2>6. Validated = artifacts["validation.schema_change_payload"]
        /\ "validation.schema_change_payload" \in DOMAIN artifacts
    BY <1>1, <2>1, ValidatedIs DEF CheckedKey
  <2>7. Listed(shown.ops)
    BY <1>1, <2>5, <2>6 DEF CheckedChange
  <2>8. \A j \in 1..Len(shown.ops) : 0 + j = j
    BY <2>7, ListFacts
  <2> QED
    BY <2>1, <2>2, <2>4, <2>5, <2>8 DEF LeftToSend
<1>8. CASE Send
  <2>1. UNCHANGED << shown >> /\ step'.ops = Tail(step.ops) /\ Current' = Current
    BY <1>1, <1>8, MovingOn, WritingMoves, SameStep
  <2>2. Writing /\ AtWriteTool /\ step.where = "writing" /\ step.ops # << >> /\ sent' = Sent(TRUE)
    BY <1>8 DEF Send, Writing, Uses, AtWriteTool
  <2>3. Len(sent') = Len(sent) + 1 /\ Len(sent) \in Nat
    BY <2>2, SentMore
  <2>4. Listed(step.ops)
    BY <1>1, <2>2 DEF SentRight
  <2>5. /\ Listed(Tail(step.ops)) /\ Len(Tail(step.ops)) = Len(step.ops) - 1
        /\ \A j \in 1..Len(Tail(step.ops)) : Tail(step.ops)[j] = step.ops[j + 1]
        /\ Len(step.ops) \in Nat /\ Len(Tail(step.ops)) \in Nat
    BY <2>2, <2>4, ListRest, ListFacts
  <2>6. ASSUME NEW j \in 1..Len(Tail(step.ops))
        PROVE  /\ j + 1 \in 1..Len(step.ops) /\ Len(sent) + (j + 1) = Len(sent) + 1 + j
               /\ Tail(step.ops)[j] = step.ops[j + 1]
    BY <2>3, <2>5
  <2>7. ASSUME Current.uses = CHANGE_SCHEMA_TOOL, NEW j \in 1..Len(Tail(step.ops))
        PROVE  Tail(step.ops)[j] = shown.ops[Len(sent) + 1 + j]
    BY <2>2, <2>6, <2>7 DEF LeftToSend
  <2>8. ASSUME Current.uses # CHANGE_SCHEMA_TOOL, NEW j \in 1..Len(Tail(step.ops))
        PROVE  Tail(step.ops)[j].do \in {"create_record", "update_record", "delete_record"}
    BY <2>2, <2>6, <2>8 DEF LeftToSend
  <2> QED
    BY <2>1, <2>3, <2>7, <2>8 DEF LeftToSend
<1> QED
  BY <1>2, <1>3, <1>4, <1>5, <1>6, <1>7, <1>8, FeishuSteps DEF Loading

\* Writing a record leaves the columns.
LEMMA RecordsLeaveColumns ==
    ASSUME NEW table, DOMAIN table = {"fields", "records"}, NEW op,
           op.do \in {"create_record", "update_record", "delete_record"}
    PROVE  DOMAIN Apply(table, op) = {"fields", "records"} /\ Apply(table, op).fields = table.fields
<1>1. CASE op.do = "create_record"
  BY <1>1 DEF Apply, CreateRecord
<1>2. CASE op.do = "update_record"
  BY <1>2 DEF Apply, UpdateRecord
<1>3. CASE op.do = "delete_record"
  BY <1>3 DEF Apply, DeleteRecord
<1> QED
  BY <1>1, <1>2, <1>3

\* Before a change is through, and while nothing else happens, every copy of the columns is the
\* first one, and what validation let pass follows up on it.
Before == Quiet /\ "feishu.schema_change_result" \notin DOMAIN artifacts
TableAsGiven ==
    /\ DOMAIN feishu = {"fields", "records"}
    /\ feishu.fields = F0 \/ (AtChange /\ step.where \in {"writing", "refreshing"})
ReadAsGiven ==
    /\ elsewhere = NoList /\ cache \in {NoList, F0}
    /\ standing = "running" =>
         /\ step.where = "listed" => step.listed = F0
         /\ step.where = "loaded" => step.context.fields = F0
KeptAsGiven ==
    /\ "feishu.table_schema" \in DOMAIN artifacts => artifacts["feishu.table_schema"].fields = F0
    /\ "feishu.schema_change_payload" \in DOMAIN artifacts =>
         artifacts["feishu.schema_change_payload"].context.fields = F0
    /\ "validation.schema_change_payload" \in DOMAIN artifacts =>
         FollowsUp(artifacts["validation.schema_change_payload"].ops, F0)
\* Half way through a change, the columns have the names validation gave them, and those that
\* later operations are about are still there.
HalfWay(fields, n) ==
    \E names : /\ NamesFollow(names, shown.ops, F0)
               /\ Distinct(fields) /\ FieldNames(fields) = names[n]
               /\ \A m \in (n + 1)..Len(shown.ops) : Kept(fields, F0, shown.ops[m])
GoesThrough ==
    AtChange /\ step.where = "writing" /\ NamedOnce(shown.ops) => HalfWay(feishu.fields, Len(sent))
ChangeInv ==
    Before => TableAsGiven /\ ReadAsGiven /\ KeptAsGiven /\ GoesThrough

LEMMA NotChanging ==
    ASSUME ByPlan, standing \notin {"running"} \/ step.where \notin {"writing", "refreshing"} \/ ~AtChange, TableAsGiven
    PROVE  feishu.fields = F0
BY DEF TableAsGiven, AtChange, AtWriteTool

\* Where a change is at, no other tool is.
LEMMA AtOneTool ==
    ASSUME ByPlan
    PROVE  /\ Loading => ~AtChange
           /\ PrepareWrite => ~AtChange /\ AtWriteTool
           /\ Ends \/ Ask \/ Confirm => ~AtChange
           /\ Saves /\ ~Finishes => ~AtChange
<1>1. Loading \/ PrepareWrite => Current.uses # CHANGE_SCHEMA_TOOL
  BY DEF Loading, LoadMock, LoadCached, ListFields, SaveListed, ListFails, Loads, PrepareWrite, RECORD_TOOLS, Uses
<1>2. PrepareWrite => AtWriteTool
  BY DEF PrepareWrite, Uses, AtWriteTool, RECORD_TOOLS
<1>3. Ask \/ Confirm => Current.kind # "tool"
  BY DEF Ask, Confirm, ByPlan
<1>4. Ends => ~AtWriteTool
  BY DEF Ends, AgentFails, MatchFails, Refuse, IsAgent, ValidateRecord, ValidateSchemaChange, Validates, AtWriteTool
<1>5. ASSUME Saves, ~Finishes
      PROVE  ~AtChange
  <2>1. Current.gives \notin ResultKeys
    BY <1>5, Writers
  <2> QED
    BY <2>1, ValidatedIs DEF AtChange
<1> QED
  BY <1>1, <1>2, <1>3, <1>4, <1>5 DEF AtChange, AtWriteTool

LEMMA KeptAsGivenSaves ==
    ASSUME SessionInv, KeptAsGiven, ReadAsGiven, Saves
    PROVE  KeptAsGiven'
<1> DEFINE t == "feishu.table_schema"
           p == "feishu.schema_change_payload"
           v == "validation.schema_change_payload"
<1>1. ByPlan /\ Going
  BY SavesDo DEF SessionInv
<1>2. PICK data : Save(data) /\ Saved(data)
  BY <1>1, SavesDo, SavesNext
<1>3. Current.needs \subseteq DOMAIN artifacts /\ ReadsRight(Current)
  BY <1>1, CurrentFacts
<1>4. ASSUME t \in DOMAIN artifacts'
      PROVE  artifacts'[t].fields = F0
  <2>1. CASE t # Current.gives
    BY <1>2, <1>4, <2>1, KeyKept DEF KeptAsGiven
  <2>2. CASE t = Current.gives
    <3>1. ReadSchema
      BY <1>1, <2>2, Writers DEF SchemaKeys
    <3>2. Saved(step.context) /\ standing = "running" /\ step.where = "loaded"
      BY <1>1, <3>1, SavesDo, SavesNext DEF ReadSchema, Uses
    <3> QED
      BY <2>2, <3>2 DEF Saved, ReadAsGiven
  <2> QED
    BY <2>1, <2>2
<1>5. ASSUME p \in DOMAIN artifacts'
      PROVE  artifacts'[p].context.fields = F0
  <2>1. CASE p # Current.gives
    BY <1>2, <1>5, <2>1, KeyKept DEF KeptAsGiven
  <2>2. CASE p = Current.gives
    <3>1. ParseSchemaChange
      BY <1>1, <2>2, Writers
    <3>2. PICK draft : Save([draft |-> draft, context |-> TableFields])
      BY <3>1 DEF ParseSchemaChange
    <3>3. Saved([draft |-> draft, context |-> TableFields])
      BY <1>1, <3>2, SavesDo, SavesNext
    <3>4. Current.needs = {t}
      BY <1>3, <2>2 DEF ReadsRight
    <3>5. TableFields = artifacts[t] /\ t \in DOMAIN artifacts
      BY <1>3, <3>4 DEF TableFields
    <3> QED
      BY <2>2, <3>3, <3>5 DEF Saved, KeptAsGiven
  <2> QED
    BY <2>1, <2>2
<1>6. ASSUME v \in DOMAIN artifacts'
      PROVE  FollowsUp(artifacts'[v].ops, F0)
  <2>1. CASE v # Current.gives
    BY <1>2, <1>6, <2>1, KeyKept DEF KeptAsGiven
  <2>2. CASE v = Current.gives
    <3>1. ValidateSchemaChange /\ standing' # "failed"
      BY <1>1, <1>2, <2>2, Writers DEF Saved
    <3>2. PICK payload : payload = artifacts[p]
      OBVIOUS
    <3>3. PICK checked : checked = NormalizeSchemaActions(payload.draft.raws, payload.context.fields, job.deletes)
      OBVIOUS
    <3>4. PICK item : item = [requests |-> << >>, ops |-> checked.actions,
                              context |-> payload.context, mock |-> payload.draft.mock]
      OBVIOUS
    <3>5. Save(item) /\ ~checked.invalid /\ p \in Current.needs
      BY <3>1, <3>2, <3>3, <3>4 DEF ValidateSchemaChange, Fail
    <3>6. Saved(item)
      BY <1>1, <3>1, <3>5, SavesDo, SavesNext
    <3>7. p \in DOMAIN artifacts
      BY <1>3, <3>5
    <3>8. Listed(payload.draft.raws) /\ payload.context.fields = F0
      BY <3>2, <3>7 DEF SessionInv, DraftedChange, KeptAsGiven
    <3>9. FollowsUp(checked.actions, F0)
      BY <3>3, <3>5, <3>8, FirstColumns, CheckedFollowsUp
    <3>10. item.ops = checked.actions /\ artifacts'[v] = item
      BY <2>2, <3>4, <3>6 DEF Saved
    <3> QED
      BY <3>9, <3>10
  <2> QED
    BY <2>1, <2>2
<1> QED
  BY <1>4, <1>5, <1>6 DEF KeptAsGiven

\* One more operation of a change.
LEMMA OneMoreChange ==
    ASSUME SessionInv, LeftToSend, AtChange, step.where = "writing", step.ops # << >>,
           NamedOnce(shown.ops), HalfWay(feishu.fields, Len(sent)), DOMAIN feishu = {"fields", "records"},
           NEW backend
    PROVE  /\ Accepts(feishu, Head(step.ops), backend)
           /\ DOMAIN Apply(feishu, Head(step.ops)) = {"fields", "records"}
           /\ HalfWay(Apply(feishu, Head(step.ops)).fields, Len(sent) + 1)
<1> DEFINE n == Len(sent) + 1
           op == shown.ops[n]
           ops == shown.ops
           new == Apply(feishu, op).fields
<1>1. /\ Listed(sent) /\ Listed(step.ops) /\ Len(step.ops) + Len(sent) = Len(ops)
      /\ AtWriteTool
  BY DEF SessionInv, SentRight, AtChange
<1>2. Len(sent) \in Nat /\ Len(step.ops) \in Nat /\ Len(step.ops) # 0
  BY <1>1, ListFacts
<1>3. n \in 1..Len(ops) /\ 1 \in 1..Len(step.ops) /\ n - 1 = Len(sent) /\ Len(ops) \in Nat
  BY <1>1, <1>2
<1>4. Head(step.ops) = op
  BY <1>1, <1>3, ListRest DEF LeftToSend, AtChange
<1>5. Listed(ops)
  <2>1. Validated = artifacts["validation.schema_change_payload"]
        /\ "validation.schema_change_payload" \in DOMAIN artifacts
    BY <1>1, ValidatedIs DEF CheckedKey, SessionInv, AtChange
  <2> QED
    BY <1>1, <2>1 DEF CheckedChange, SessionInv, AskedFor
<1>6. DOMAIN ops = 1..Len(ops)
  BY <1>5, ListFacts
<1>7. PICK names : /\ NamesFollow(names, ops, F0)
                   /\ Distinct(feishu.fields) /\ FieldNames(feishu.fields) = names[n - 1]
                   /\ \A m \in n..Len(ops) : Kept(feishu.fields, F0, ops[m])
  BY <1>3 DEF HalfWay
<1>8. Suits(op, FieldNames(feishu.fields), F0) /\ Kept(feishu.fields, F0, op)
      /\ names[n] = PlannedNames(names[n - 1], op, F0)
  <2>1. n \in n..Len(ops)
    BY <1>3
  <2> QED
    BY <1>3, <1>7, <2>1 DEF NamesFollow
<1>9. /\ Accepts(feishu, op, backend)
      /\ DOMAIN Apply(feishu, op) = {"fields", "records"}
      /\ GoesWell(feishu.fields, op, F0, new)
  <2> HIDE DEF op
  <2> QED
    BY <1>7, <1>8, FirstColumns, ChangeGoesWell
<1>10. Distinct(new) /\ FieldNames(new) = names[n]
  BY <1>7, <1>8, <1>9 DEF GoesWell
<1>11. ASSUME NEW m \in (n + 1)..Len(ops)
       PROVE  Kept(new, F0, ops[m])
  <2>1. m \in n..Len(ops) /\ m \in 1..Len(ops) /\ m # n
    BY <1>3
  <2>2. Kept(feishu.fields, F0, ops[m]) /\ Suits(ops[m], names[m - 1], F0)
    BY <1>7, <2>1 DEF NamesFollow
  <2>3. CASE ops[m].do = "create_field"
    BY <2>3 DEF Kept
  <2>4. CASE op.do = "create_field"
    BY <1>9, <2>2, <2>4 DEF GoesWell
  <2>5. CASE ops[m].do # "create_field" /\ op.do # "create_field"
    <3>1. PICK i \in DOMAIN F0 : ops[m].id = F0[i].id
      BY <2>2, <2>5 DEF Suits
    <3>2. ops[m].id # NoId
      BY <3>1, InitialTableAssumption DEF F0
    <3>3. ops[m].id # op.id
      BY <1>3, <1>6, <2>1, <3>2 DEF NamedOnce
    <3> QED
      BY <1>9, <2>2, <3>3 DEF GoesWell
  <2> QED
    BY <2>3, <2>4, <2>5
<1>12. HalfWay(new, n)
  BY <1>7, <1>10, <1>11 DEF HalfWay
<1> QED
  BY <1>4, <1>9, <1>12

LEMMA KeptAtFirst ==
    ASSUME NEW ops, FollowsUp(ops, F0), ops = shown.ops
    PROVE  HalfWay(F0, 0)
<1>1. PICK names : NamesFollow(names, ops, F0)
  BY DEF FollowsUp
<1>2. ASSUME NEW m \in 1..Len(ops)
      PROVE  Kept(F0, F0, ops[m])
  <2>1. Suits(ops[m], names[m - 1], F0)
    BY <1>1 DEF NamesFollow
  <2> QED
    BY <2>1 DEF Suits, Kept
<1>3. FieldNames(F0) = names[0] /\ 0 + 1 = 1
  BY <1>1 DEF NamesFollow
<1>4. \A m \in (0 + 1)..Len(ops) : Kept(F0, F0, ops[m])
  BY <1>2, <1>3
<1> QED
  BY <1>1, <1>3, <1>4, FirstColumns DEF HalfWay

LEMMA ChangesKeepShape ==
    ASSUME NEW table, DOMAIN table = {"fields", "records"}, NEW op,
           op.do \in {"create_field", "update_field", "delete_field"}
    PROVE  DOMAIN Apply(table, op) = {"fields", "records"}
<1>1. CASE op.do = "create_field"
  BY <1>1 DEF Apply, CreateField
<1>2. CASE op.do = "update_field"
  BY <1>2 DEF Apply, UpdateField
<1>3. CASE op.do = "delete_field"
  BY <1>3 DEF Apply, DeleteField
<1> QED
  BY <1>1, <1>2, <1>3

\* The operation a tool sends next is of the tool's own kind.
LEMMA NextIsOfItsKind ==
    ASSUME SessionInv, LeftToSend, AtWriteTool, step.where = "writing", step.ops # << >>
    PROVE  /\ AtChange => Head(step.ops).do \in {"create_field", "update_field", "delete_field"}
           /\ ~AtChange => Head(step.ops).do \in {"create_record", "update_record", "delete_record"}
<1>1. Listed(sent) /\ Listed(step.ops) /\ Len(step.ops) + Len(sent) = Len(shown.ops) /\ shown.ops = Validated.ops
  BY DEF SessionInv, SentRight, AskedFor
<1>2. Len(sent) \in Nat /\ Len(step.ops) \in Nat /\ Len(step.ops) # 0
  BY <1>1, ListFacts
<1>3. 1 \in 1..Len(step.ops) /\ Len(sent) + 1 \in 1..Len(shown.ops)
  BY <1>1, <1>2
<1>4. Head(step.ops) = step.ops[1]
  BY <1>1, ListRest
<1>5. ASSUME AtChange
      PROVE  Head(step.ops).do \in {"create_field", "update_field", "delete_field"}
  <2>1. Validated = artifacts["validation.schema_change_payload"]
        /\ "validation.schema_change_payload" \in DOMAIN artifacts
    BY <1>5, ValidatedIs DEF CheckedKey, SessionInv, AtChange
  <2>2. Head(step.ops) = shown.ops[Len(sent) + 1]
    BY <1>3, <1>4, <1>5 DEF LeftToSend, AtChange
  <2> QED
    BY <1>1, <1>3, <2>1, <2>2 DEF CheckedChange, SessionInv
<1> QED
  BY <1>3, <1>4, <1>5 DEF LeftToSend, AtChange

LEMMA ChangeInvStep ==
    ASSUME SessionInv, Counted, LeftToSend, ChangeInv, [FeishuNext]_feishuVars
    PROVE  ChangeInv'
<1> DEFINE r == "feishu.schema_change_result"
           AllSo == TableAsGiven /\ ReadAsGiven /\ KeptAsGiven /\ GoesThrough
<1>1. ByPlan /\ SentRight /\ AskedFor
  BY DEF SessionInv
<1>2. SUFFICES ASSUME Before' PROVE AllSo'
  BY DEF ChangeInv
<1>3. Quiet /\ meddled' = meddled /\ faults' = faults /\ r \notin DOMAIN artifacts'
  BY <1>2, QuietBefore DEF Before
<1>4. faults' # faults + 1 /\ meddled' # meddled + 1
  BY <1>3 DEF Quiet
<1>5. CASE Invoke
  <2>1. DOMAIN artifacts = {} /\ standing = "new"
    BY <1>1, <1>5 DEF Invoke, ByPlan
  <2>2. TableAsGiven /\ ReadAsGiven
    BY <1>3, <2>1 DEF ChangeInv, Before
  <2>3. feishu.fields = F0
    BY <1>1, <2>1, <2>2, NotChanging
  <2>4. /\ DOMAIN artifacts' = {} /\ UNCHANGED << feishu, cache, elsewhere >> /\ step'.where = "start"
    BY <1>1, <1>5, InvokeClears, AtFields DEF Invoke
  <2> QED
    BY <2>2, <2>3, <2>4 DEF TableAsGiven, ReadAsGiven, KeptAsGiven, GoesThrough
<1>6. ASSUME ~Invoke
      PROVE  AllSo'
  <2>1. AllSo
    <3>1. r \notin DOMAIN artifacts
      BY <1>1, <1>3, <1>6, ArtifactsKeep
    <3> QED
      BY <1>3, <3>1 DEF ChangeInv, Before
  <2>2. CASE Saves
    <3>1. PICK data : Saved(data)
      BY <1>1, <2>2, SavesDo, SavesNext
    <3>2. step'.where = "start"
      BY <3>1, AtFields DEF Saved
    <3>3. ~AtChange
      BY <1>1, <1>3, <2>2, <3>1, AtOneTool, ValidatedIs DEF AtChange, Saved
    <3>4. UNCHANGED << feishu, cache, elsewhere >>
      <4>1. CASE ~Finishes
        BY <2>2, <4>1, SavesQuietly
      <4>2. CASE Finishes
        <5>1. ~SendLost /\ ~RefreshFails
          BY <1>4 DEF SendLost, RefreshFails
        <5>2. ~RefreshSave
          BY <3>3, Names7 DEF RefreshSave, Uses, AtChange, AtWriteTool
        <5> QED
          BY <4>2, <5>1, <5>2 DEF Finishes, RefuseWrite, SendRejected, WriteDone
      <4> QED
        BY <4>1, <4>2
    <3>5. feishu.fields = F0
      BY <1>1, <2>1, <3>3, NotChanging
    <3>6. KeptAsGiven'
      BY <2>1, <2>2, KeptAsGivenSaves
    <3> QED
      BY <2>1, <3>2, <3>4, <3>5, <3>6 DEF TableAsGiven, ReadAsGiven, GoesThrough
  <2>3. CASE Ask \/ Ends
    <3>1. UNCHANGED << feishu, cache, elsewhere, artifacts >> /\ standing' # "running"
      BY <2>3, EndsKeep DEF Ask
    <3>2. feishu.fields = F0
      BY <1>1, <2>1, <2>3, AtOneTool, NotChanging
    <3> QED
      BY <2>1, <3>1, <3>2, NotAtWriteTool DEF TableAsGiven, ReadAsGiven, KeptAsGiven, GoesThrough, AtChange
  <2>4. CASE Others \/ UNCHANGED feishuVars
    <3>1. UNCHANGED << job, step, artifacts, standing, shown, sent >>
      BY <2>4, OthersKeep DEF feishuVars
    <3>2. UNCHANGED << feishu, elsewhere >> /\ cache' \in {cache, NoList}
      BY <1>4, <2>4 DEF Others, Meddle, ExpireCache, OtherLists, OtherSaves, feishuVars
    <3>3. (AtChange' <=> AtChange)
      BY <3>1, SameStep DEF AtChange
    <3>4. TableAsGiven' /\ ReadAsGiven' /\ KeptAsGiven'
      BY <2>1, <3>1, <3>2, <3>3 DEF TableAsGiven, ReadAsGiven, KeptAsGiven
    <3>5. GoesThrough'
      BY <2>1, <3>1, <3>2, <3>3 DEF GoesThrough, HalfWay
    <3> QED
      BY <3>4, <3>5
  <2>5. CASE Loading
    <3>1. /\ UNCHANGED << feishu, artifacts, standing, job >> /\ step'.where \in {"listed", "loaded"}
      BY <1>1, <2>5, LoadingDoes DEF Loading
    <3>2. feishu.fields = F0
      BY <1>1, <2>1, <2>5, AtOneTool, NotChanging
    <3>3. ReadAsGiven'
      <4>1. CASE LoadMock
        <5>1. step'.where = "loaded" /\ step'.context = Context("mock", feishu.fields)
              /\ UNCHANGED << cache, elsewhere >>
          BY <1>1, <4>1, LoadingDoes DEF LoadMock
        <5> QED
          BY <2>1, <3>1, <3>2, <5>1 DEF ReadAsGiven, Context
      <4>2. CASE LoadCached
        <5>1. /\ step'.where = "loaded" /\ step'.context = Context("feishu", cache) /\ cache # NoList
              /\ UNCHANGED << cache, elsewhere >>
          BY <1>1, <4>2, LoadingDoes DEF LoadCached
        <5> QED
          BY <2>1, <3>1, <5>1 DEF ReadAsGiven, Context
      <4>3. CASE ListFields
        <5>1. step'.where = "listed" /\ step'.listed = feishu.fields /\ UNCHANGED << cache, elsewhere >>
          BY <1>1, <4>3, LoadingDoes DEF ListFields
        <5> QED
          BY <2>1, <3>1, <3>2, <5>1 DEF ReadAsGiven
      <4>4. CASE SaveListed
        <5>1. /\ step'.where = "loaded" /\ step'.context = Context("feishu", step.listed) /\ cache' = step.listed
              /\ elsewhere' = elsewhere /\ standing = "running" /\ step.where = "listed"
          BY <1>1, <4>4, LoadingDoes DEF SaveListed, Loads, Uses
        <5> QED
          BY <2>1, <3>1, <5>1 DEF ReadAsGiven, Context
      <4>5. CASE ListFails
        BY <1>4, <4>5 DEF ListFails
      <4> QED
        BY <2>5, <4>1, <4>2, <4>3, <4>4, <4>5 DEF Loading
    <3> QED
      BY <2>1, <3>1, <3>2, <3>3 DEF TableAsGiven, KeptAsGiven, GoesThrough
  <2>6. CASE PrepareWrite \/ StartChange \/ RefreshList
    <3>1. /\ UNCHANGED << feishu, cache, elsewhere, artifacts, standing, shown, sent, job >>
          /\ step'.where \in {"writing", "refreshing"} /\ step'.at = step.at
      BY <1>1, <2>6, MovingOn, WritingMoves DEF MovesTo, PrepareWrite, StartChange, RefreshList
    <3>2. (AtChange' <=> AtChange) /\ (AtWriteTool' <=> AtWriteTool)
      BY <3>1, SameStep DEF AtChange
    <3>3. TableAsGiven' /\ ReadAsGiven' /\ KeptAsGiven'
      <4>1. TableAsGiven'
        BY <1>1, <2>1, <3>1, <3>2, NotChanging DEF TableAsGiven
      <4> QED
        BY <2>1, <3>1, <4>1 DEF ReadAsGiven, KeptAsGiven
    <3>4. GoesThrough'
      <4>1. CASE PrepareWrite
        BY <1>1, <3>2, <4>1, AtOneTool DEF GoesThrough
      <4>2. CASE RefreshList
        <5>1. step'.where = "refreshing"
          BY <1>1, <4>2, WritingMoves DEF MovesTo
        <5> QED
          BY <5>1 DEF GoesThrough
      <4>3. CASE StartChange
        <5>1. AtWriteTool /\ AtChange /\ step.where = "start"
          BY <4>3, Names7 DEF StartChange, Uses, AtWriteTool, AtChange
        <5>2. feishu.fields = F0
          BY <1>1, <2>1, <5>1, NotChanging
        <5>3. sent = << >>
          BY <1>1, <5>1 DEF SentRight
        <5>4. Len(sent) = 0
          BY <5>3, NoneListed
        <5>5. /\ shown.ops = Validated.ops
              /\ Validated = artifacts["validation.schema_change_payload"]
              /\ "validation.schema_change_payload" \in DOMAIN artifacts
          BY <1>1, <5>1, ValidatedIs DEF CheckedKey, AskedFor, AtChange
        <5>6. HalfWay(feishu.fields, Len(sent))
          BY <2>1, <5>2, <5>4, <5>5, KeptAtFirst DEF KeptAsGiven
        <5> QED
          BY <3>1, <5>6 DEF GoesThrough, HalfWay
      <4> QED
        BY <2>6, <4>1, <4>2, <4>3
    <3> QED
      BY <3>3, <3>4
  <2>7. CASE Send
    <3>1. /\ UNCHANGED << cache, elsewhere, artifacts, standing, shown, job >>
          /\ step'.where = "writing" /\ step'.at = step.at
      BY <1>1, <2>7, MovingOn, WritingMoves DEF MovesTo, Send
    <3>2. (AtChange' <=> AtChange)
      BY <3>1, SameStep DEF AtChange
    <3>3. /\ Writing /\ AtWriteTool /\ step.where = "writing" /\ step.ops # << >> /\ sent' = Sent(TRUE)
          /\ feishu' = Apply(feishu, Head(step.ops))
      BY <2>7 DEF Send, Writing, Uses, AtWriteTool
    <3>4. Len(sent') = Len(sent) + 1
      BY <3>3, SentMore
    <3>5. DOMAIN feishu = {"fields", "records"}
      BY <2>1 DEF TableAsGiven
    <3>6. TableAsGiven'
      <4>1. CASE AtChange
        <5>1. Head(step.ops).do \in {"create_field", "update_field", "delete_field"}
          BY <3>3, <4>1, NextIsOfItsKind
        <5>2. DOMAIN feishu' = {"fields", "records"}
          BY <3>3, <3>5, <5>1, ChangesKeepShape
        <5> QED
          BY <3>1, <3>2, <4>1, <5>2 DEF TableAsGiven
      <4>2. CASE ~AtChange
        <5>1. Head(step.ops).do \in {"create_record", "update_record", "delete_record"}
          BY <3>3, <4>2, NextIsOfItsKind
        <5>2. DOMAIN feishu' = {"fields", "records"} /\ feishu'.fields = feishu.fields
          BY <3>3, <3>5, <5>1, RecordsLeaveColumns
        <5>3. feishu.fields = F0
          BY <1>1, <2>1, <4>2, NotChanging
        <5> QED
          BY <5>2, <5>3 DEF TableAsGiven
      <4> QED
        BY <4>1, <4>2
    <3>7. ReadAsGiven' /\ KeptAsGiven'
      BY <2>1, <3>1 DEF ReadAsGiven, KeptAsGiven
    <3>8. GoesThrough'
      <4>1. SUFFICES ASSUME AtChange, NamedOnce(shown.ops) PROVE HalfWay(feishu'.fields, Len(sent) + 1)
        BY <3>1, <3>2, <3>4 DEF GoesThrough, HalfWay, NamedOnce
      <4>2. HalfWay(feishu.fields, Len(sent))
        BY <2>1, <3>3, <4>1 DEF GoesThrough
      <4> QED
        BY <3>3, <3>5, <4>1, <4>2, OneMoreChange
    <3> QED
      BY <3>6, <3>7, <3>8
  <2> QED
    BY <1>6, <2>2, <2>3, <2>4, <2>5, <2>6, <2>7, FeishuSteps DEF Loading
<1> QED
  BY <1>5, <1>6

\* While a change is under way, all that was sent of it was done.
LEMMA AcceptedStep ==
    ASSUME SessionInv, Counted, LeftToSend, ChangeInv, AcceptedChangesApply, [FeishuNext]_feishuVars
    PROVE  AcceptedChangesApply'
<1> DEFINE r == "feishu.schema_change_result"
<1>1. ByPlan /\ AskedFor
  BY DEF SessionInv
<1>2. SUFFICES ASSUME shown'.result = r, NamedOnce(shown'.ops), Quiet', NEW i \in DOMAIN sent'
               PROVE  sent'[i].done
  BY DEF AcceptedChangesApply, Quiet, NamedOnce
<1>3. Quiet /\ meddled' = meddled /\ faults' = faults
  BY <1>2, QuietBefore
<1>4. faults' # faults + 1
  BY <1>3 DEF Quiet
<1>5. ~Invoke /\ ~Ask
  <2>1. Invoke => sent' = << >>
    BY <1>1, InvokeClears
  <2>2. Ask => sent' = << >>
    BY DEF Ask
  <2> QED
    BY <1>2, <2>1, <2>2
<1>6. shown' = shown
  BY <1>1, <1>5, ShownKept
<1>7. \A j \in DOMAIN sent : sent[j].done
  BY <1>2, <1>3, <1>6 DEF AcceptedChangesApply, Quiet
<1>8. CASE sent' = sent
  BY <1>2, <1>7, <1>8
<1>9. ASSUME Writing, step.ops # << >>, NEW done \in BOOLEAN, sent' = Sent(done)
      PROVE  sent'[i].done
  <2>1. AtWriteTool /\ step.where = "writing"
    BY <1>9 DEF Writing, Uses, AtWriteTool
  <2>2. AtChange /\ r \notin DOMAIN artifacts
    BY <1>1, <1>2, <1>6, <2>1, ValidatedIs DEF AskedFor, AtChange
  <2>3. HalfWay(feishu.fields, Len(sent)) /\ DOMAIN feishu = {"fields", "records"}
    BY <1>2, <1>3, <1>6, <2>1, <2>2 DEF ChangeInv, Before, GoesThrough, TableAsGiven
  <2>4. Accepts(feishu, Head(step.ops), Backend(Validated.mock))
    BY <1>2, <1>6, <1>9, <2>1, <2>2, <2>3, OneMoreChange
  <2>5. /\ Len(sent') = Len(sent) + 1 /\ Len(sent) \in Nat
        /\ \A j \in 1..Len(sent) : sent'[j] = sent[j]
        /\ DOMAIN sent' = 1..(Len(sent) + 1) /\ DOMAIN sent = 1..Len(sent)
    BY <1>9, SentMore
  <2>6. sent' = Sent(TRUE)
    <3>1. sent' # sent
      <4>1. \A n \in Nat : n + 1 # n
        OBVIOUS
      <4>2. Len(sent) + 1 # Len(sent)
        BY <2>5, <4>1
      <4> QED
        BY <2>5, <4>2
    <3>2. ~SendRejected /\ ~SendLost
      BY <1>4, <2>4 DEF SendRejected, SendLost
    <3>3. CASE Saves
      <4>1. Finishes
        BY <3>1, <3>3, SavesQuietly
      <4> QED
        BY <3>1, <3>2, <4>1 DEF Finishes, RefuseWrite, WriteDone, RefreshFails, RefreshSave
    <3>4. CASE Ends \/ Others \/ UNCHANGED feishuVars
      BY <3>1, <3>4, EndsKeep, OthersKeep DEF feishuVars
    <3>5. CASE Loading \/ PrepareWrite \/ StartChange \/ RefreshList
      BY <1>1, <3>1, <3>5, LoadingDoes DEF PrepareWrite, StartChange, RefreshList
    <3>6. CASE Send
      BY <3>6 DEF Send
    <3> QED
      BY <1>5, <3>3, <3>4, <3>5, <3>6, FeishuSteps DEF Loading
  <2>7. sent'[Len(sent) + 1].done
    <3>1. PICK x : x = [op |-> Head(step.ops), backend |-> Backend(Validated.mock),
                        context |-> step.context, done |-> TRUE]
      OBVIOUS
    <3>2. sent'[Len(sent) + 1] = x
      BY <1>9, <2>6, <3>1, SentMore
    <3> QED
      BY <3>1, <3>2
  <2>8. i \in 1..Len(sent) \/ i = Len(sent) + 1
    BY <1>2, <2>5
  <2> QED
    BY <1>7, <2>5, <2>7, <2>8
<1> QED
  BY <1>2, <1>5, <1>8, <1>9, SendsOrNot

\* A change that passed validation is not turned down half way, by the mock store or by Feishu,
\* if it names each column once and nothing else happens: whatever a model or the rules draft,
\* validation follows the names the earlier actions leave, and so does the table.
THEOREM AcceptedChangesGoThrough == FeishuSpec => []AcceptedChangesApply
<1>1. FeishuInit => SessionInv /\ Counted /\ LeftToSend /\ ChangeInv /\ AcceptedChangesApply
  <2>1. FeishuInit => /\ shown = NothingShown /\ meddled = 0 /\ faults = 0 /\ DOMAIN sent = {} /\ DOMAIN artifacts = {}
                      /\ standing = "new" /\ feishu = InitialTable /\ cache \in {NoList, F0} /\ elsewhere = NoList
    BY DEF FeishuInit, F0
  <2>2. FeishuInit => Counted /\ LeftToSend /\ AcceptedChangesApply
    BY <2>1 DEF Counted, NothingShown, LeftToSend, AtWriteTool, AcceptedChangesApply
  <2>3. FeishuInit => ChangeInv
    BY <2>1, FirstColumns
       DEF ChangeInv, TableAsGiven, ReadAsGiven, KeptAsGiven, GoesThrough, AtChange, AtWriteTool, F0
  <2> QED
    BY <2>2, <2>3, SessionStarts
<1>2. SessionInv /\ Counted /\ LeftToSend /\ ChangeInv /\ AcceptedChangesApply /\ [FeishuNext]_feishuVars
        => SessionInv' /\ Counted' /\ LeftToSend' /\ ChangeInv' /\ AcceptedChangesApply'
  BY SessionStep, CountedStep, LeftToSendStep, ChangeInvStep, AcceptedStep DEF SessionInv
<1> QED
  BY <1>1, <1>2, PTL DEF FeishuSpec

-----------------------------------------------------------------------------
(* Normalizing twice.                                                      *)

LEMMA MappedIsName ==
    ASSUME NEW n \in Names
    PROVE  Mapped(n) \in Names /\ Stripped[n] \in Names /\ Stripped[Stripped[n]] = Stripped[n]
BY NamesAssumption DEF Mapped

\* A name that was resolved stands for itself.
LEMMA ResolvedTwice ==
    ASSUME NamesSettle, NEW raw \in Names, NEW available, available \subseteq Names,
           NEW r, r = ResolveFieldName(raw, available), r # NoName
    PROVE  r \in Names /\ ResolveFieldName(r, available) = r
<1> DEFINE original == Stripped[raw]
           mapped == Mapped(original)
           padded == {n \in available : Stripped[n] = mapped}
<1>1. /\ original \in Names /\ Stripped[original] = original
      /\ mapped \in Names /\ Stripped[mapped] \in Names /\ Mapped(Stripped[mapped]) = mapped
  BY MappedIsName DEF NamesSettle
<1>2. r = IF available = {} \/ mapped \in available THEN mapped
          ELSE IF original \in available THEN original
          ELSE IF padded # {} THEN CHOOSE n \in padded : TRUE
          ELSE NoName
  BY DEF ResolveFieldName
<1>3. CASE available = {} \/ mapped \in available
  <2>1. r = mapped
    BY <1>2, <1>3
  <2>2. Mapped(Stripped[r]) = mapped
    BY <1>1, <2>1
  <2> HIDE DEF mapped, original, padded
  <2> QED
    BY <1>1, <1>3, <2>1, <2>2 DEF ResolveFieldName
<1>4. CASE available # {} /\ mapped \notin available /\ original \in available
  <2>1. r = original
    BY <1>2, <1>4
  <2>2. Stripped[r] = original /\ Mapped(original) = mapped
    BY <1>1, <2>1
  <2> HIDE DEF mapped, original, padded
  <2> QED
    BY <1>1, <1>4, <2>1, <2>2 DEF ResolveFieldName
<1>5. CASE available # {} /\ mapped \notin available /\ original \notin available
  <2>1. padded # {} /\ r = CHOOSE n \in padded : TRUE
    BY <1>2, <1>5
  <2>2. r \in padded
    <3> HIDE DEF padded
    <3> QED
      BY <2>1
  <2>3. r \in Names /\ Stripped[r] = mapped
    BY <2>2
  <2>4. Stripped[mapped] = mapped
    BY <2>3, MappedIsName
  <2>5. Mapped(mapped) = mapped
    BY <1>1, <2>4
  <2>6. ResolveFieldName(r, available) =
          IF available = {} \/ Mapped(mapped) \in available THEN Mapped(mapped)
          ELSE IF mapped \in available THEN mapped
          ELSE IF {n \in available : Stripped[n] = Mapped(mapped)} # {}
            THEN CHOOSE n \in {n \in available : Stripped[n] = Mapped(mapped)} : TRUE
          ELSE NoName
    BY <2>3 DEF ResolveFieldName
  <2>7. {n \in available : Stripped[n] = Mapped(mapped)} = padded
    BY <2>5
  <2> HIDE DEF mapped, original, padded
  <2> QED
    BY <1>5, <2>1, <2>3, <2>5, <2>6, <2>7
<1> QED
  BY <1>3, <1>4, <1>5

\* A value that was converted is left alone.
LEMMA ConvertedTwice ==
    ASSUME NEW v, NEW type, NEW w, w = NormalizeFieldValue(v, type), w # NoValue
    PROVE  NormalizeFieldValue(w, type) = w
<1>1. \A form : As(form, v).form = form /\ As(form, As(form, v)) = As(form, v)
  BY DEF As
<1>2. CASE type = Untyped
  <2>1. \A x : NormalizeFieldValue(x, type) = x
    BY <1>2 DEF NormalizeFieldValue, Untyped
  <2> QED
    BY <2>1
<1>3. CASE type \in {1, 3, 13}
  <2>1. \A x : NormalizeFieldValue(x, type) = As("text", x)
    BY <1>3 DEF NormalizeFieldValue, Untyped
  <2> QED
    BY <1>1, <2>1
<1>4. CASE type = 2
  <2>1. \A x : NormalizeFieldValue(x, type) = ToNumber(x)
    BY <1>4 DEF NormalizeFieldValue, Untyped
  <2>2. w.form = "number"
    BY <1>1, <2>1 DEF ToNumber
  <2> QED
    BY <2>1, <2>2 DEF ToNumber
<1>5. CASE type = 4
  <2>1. \A x : NormalizeFieldValue(x, type) = As("list", x)
    BY <1>5 DEF NormalizeFieldValue, Untyped
  <2> QED
    BY <1>1, <2>1
<1>6. CASE type = 5
  <2>1. \A x : NormalizeFieldValue(x, type) = ToDateMillis(x)
    BY <1>6 DEF NormalizeFieldValue, Untyped
  <2>2. w.form \in {"number", "bool"}
    BY <1>1, <2>1 DEF ToDateMillis
  <2> QED
    BY <2>1, <2>2 DEF ToDateMillis
<1>7. CASE type = 7
  <2>1. \A x : NormalizeFieldValue(x, type) = ToBool(x)
    BY <1>7 DEF NormalizeFieldValue, Untyped
  <2>2. w.form = "bool"
    BY <1>1, <2>1 DEF ToBool
  <2> QED
    BY <2>1, <2>2 DEF ToBool
<1>8. CASE type = 15
  <2>1. \A x : NormalizeFieldValue(x, type) = ToUrl(x)
    BY <1>8 DEF NormalizeFieldValue, Untyped
  <2>2. w.form = "dict"
    BY <1>1, <2>1 DEF ToUrl
  <2> QED
    BY <2>1, <2>2 DEF ToUrl
<1>9. CASE type \notin {Untyped, 1, 2, 3, 4, 5, 7, 13, 15}
  BY <1>9 DEF NormalizeFieldValue
<1> QED
  BY <1>2, <1>3, <1>4, <1>5, <1>6, <1>7, <1>8, <1>9

\* A finite set as a list: each element once.
LEMMA ListOfSet ==
    ASSUME NEW S, IsFiniteSet(S)
    PROVE  /\ Listed(SetToSeq(S))
           /\ \A i \in DOMAIN SetToSeq(S) : SetToSeq(S)[i] \in S
           /\ \A x \in S : \E i \in DOMAIN SetToSeq(S) : SetToSeq(S)[i] = x
           /\ IsFiniteSet(DOMAIN SetToSeq(S)) /\ DOMAIN SetToSeq(S) \subseteq Nat
<1> DEFINE last == Cardinality(S)
<1>1. last \in Nat /\ ExistsBijection(1..last, S)
  BY FS_CardinalityType
<1>2. \E f \in [1..last -> S] : IsInjective(f)
  BY <1>1 DEF ExistsBijection, Bijection, Injection
<1>3. PICK s : s = SetToSeq(S)
  OBVIOUS
<1>4. s \in [1..last -> S] /\ IsInjective(s)
  BY <1>2, <1>3 DEF SetToSeq
<1>5. s \in Injection(1..last, S)
  BY <1>4 DEF Injection
<1>6. IsFiniteSet(1..last) /\ Cardinality(1..last) = last
  <2>1. CASE last = 0
    BY <2>1, FS_EmptySet
  <2>2. CASE last # 0
    <3>1. 1 \in Int /\ last \in Int /\ ~(1 > last) /\ last - 1 + 1 = last
      BY <1>1, <2>2
    <3> HIDE DEF last
    <3> QED
      BY <3>1, FS_Interval
  <2> QED
    BY <2>1, <2>2
<1>7. s \in Surjection(1..last, S)
  BY <1>5, <1>6, FS_Injection
<1>8. \A x \in S : \E i \in 1..last : s[i] = x
  BY <1>7 DEF Surjection
<1>9. Listed(s)
  <2>1. s = [i \in 1..last |-> s[i]]
    BY <1>4
  <2> HIDE DEF last
  <2> QED
    BY <1>1, <2>1, ListMade
<1> QED
  BY <1>1, <1>3, <1>4, <1>6, <1>8, <1>9

\* Pairs, each under a number of its own.
Numbered(pairs) ==
    /\ DOMAIN pairs \subseteq Nat /\ IsFiniteSet(DOMAIN pairs)
    /\ \A i \in DOMAIN pairs : pairs[i].name \in Names

LEMMA GreatestOfThem ==
    ASSUME NEW S, S \subseteq Nat, IsFiniteSet(S), S # {}
    PROVE  \E n \in S : \A m \in S : m <= n
<1> DEFINE Good(T) == T = {} \/ \E n \in T : \A m \in T : m <= n
           W == {T \in SUBSET S : Good(T)}
<1>1. ASSUME NEW T \in SUBSET S, \A k \in T : T \ {k} \in W
      PROVE  T \in W
  <2>1. CASE T = {}
    BY <2>1
  <2>2. ASSUME NEW k \in T
        PROVE  Good(T)
    <3>1. Good(T \ {k}) /\ k \in Nat
      BY <1>1
    <3>2. CASE T \ {k} = {}
      <4>1. \A m \in T : m = k
        BY <3>2
      <4> QED
        BY <3>1, <4>1
    <3>3. CASE T \ {k} # {}
      <4>1. PICK n \in T \ {k} : \A m \in T \ {k} : m <= n
        BY <3>1, <3>3
      <4>2. n \in Nat /\ T \subseteq Nat
        OBVIOUS
      <4>3. CASE n <= k
        <5>1. \A m \in T : m <= k
          BY <3>1, <4>1, <4>2, <4>3
        <5> QED
          BY <5>1
      <4>4. CASE k <= n
        <5>1. \A m \in T : m <= n
          BY <4>1, <4>4
        <5> QED
          BY <5>1
      <4> QED
        BY <3>1, <4>2, <4>3, <4>4
    <3> QED
      BY <3>2, <3>3
  <2> QED
    BY <2>1, <2>2
<1>2. SUBSET S \subseteq W
  <2> HIDE DEF W
  <2> QED
    BY <1>1, OneElementLess
<1> QED
  BY <1>2

\* Of the words for a column the last one with a value counts.
TakenFrom(got, F) ==
    /\ F = [n \in DOMAIN F |-> F[n]]
    /\ DOMAIN F = {got[i].name : i \in {j \in DOMAIN got : got[j].value # NoValue}}
    /\ \A n \in DOMAIN F : \E i \in DOMAIN got :
         got[i].name = n /\ got[i].value = F[n] /\ F[n] # NoValue

LEMMA CollectedFields ==
    ASSUME NEW got, DOMAIN got \subseteq Nat, IsFiniteSet(DOMAIN got),
           NEW F, F = Collected(got).fields
    PROVE  TakenFrom(got, F)
<1> DEFINE good == {i \in DOMAIN got : got[i].value # NoValue}
           last(name) == CHOOSE i \in good : /\ got[i].name = name
                                             /\ \A j \in good : got[j].name = name => j <= i
<1>1. F = [name \in {got[i].name : i \in good} |-> got[last(name)].value]
  BY DEF Collected
<1>2. DOMAIN F = {got[i].name : i \in good}
  BY <1>1
<1>3. ASSUME NEW n \in DOMAIN F
      PROVE  \E i \in DOMAIN got : got[i].name = n /\ got[i].value = F[n] /\ F[n] # NoValue
  <2> DEFINE S == {i \in good : got[i].name = n}
  <2>1. S \subseteq DOMAIN got
    OBVIOUS
  <2>2. S # {} /\ S \subseteq Nat /\ IsFiniteSet(S)
    BY <1>2, <1>3, <2>1, FS_Subset
  <2>3. PICK i \in S : \A m \in S : m <= i
    <3> HIDE DEF S
    <3> QED
      BY <2>2, GreatestOfThem
  <2>4. i \in good /\ got[i].name = n /\ \A j \in good : got[j].name = n => j <= i
    BY <2>3
  <2>5. last(n) \in good /\ got[last(n)].name = n
    <3> HIDE DEF good
    <3> QED
      BY <2>4
  <2>6. F[n] = got[last(n)].value
    BY <1>1, <1>2, <1>3
  <2> HIDE DEF last
  <2> QED
    BY <2>5, <2>6
<1>4. F = [n \in DOMAIN F |-> F[n]]
  <2> HIDE DEF last, good
  <2> QED
    BY <1>1, <1>2
<1> QED
  BY <1>2, <1>3, <1>4 DEF TakenFrom

\* Values that validation has no more to do with.
Settled(F, defs) ==
    /\ F = [n \in DOMAIN F |-> F[n]]
    /\ \A n \in DOMAIN F : /\ n \in Names /\ ResolveFieldName(n, FieldNames(defs)) = n
                           /\ F[n] # NoValue /\ NormalizeFieldValue(F[n], TypeOf(n, defs)) = F[n]

LEMMA PreparedSettles ==
    ASSUME NamesSettle, NEW pairs, Numbered(pairs), NEW defs, FieldNames(defs) \subseteq Names
    PROVE  Settled(PrepareRecordFields(pairs, defs).fields, defs)
<1>1. PICK got : got = [i \in DOMAIN pairs |-> Prepared(pairs[i], defs)]
  OBVIOUS
<1>2. PICK F : F = Collected(got).fields
  OBVIOUS
<1>3. PrepareRecordFields(pairs, defs).fields = F
  BY <1>1, <1>2 DEF PrepareRecordFields
<1>4. DOMAIN got = DOMAIN pairs /\ DOMAIN got \subseteq Nat /\ IsFiniteSet(DOMAIN got)
  BY <1>1 DEF Numbered
<1>5. TakenFrom(got, F)
  BY <1>2, <1>4, CollectedFields
<1>6. ASSUME NEW n \in DOMAIN F
      PROVE  /\ n \in Names /\ ResolveFieldName(n, FieldNames(defs)) = n
             /\ F[n] # NoValue /\ NormalizeFieldValue(F[n], TypeOf(n, defs)) = F[n]
  <2>1. PICK i \in DOMAIN got : got[i].name = n /\ got[i].value = F[n] /\ F[n] # NoValue
    BY <1>5 DEF TakenFrom
  <2>2. pairs[i].name \in Names
    BY <1>4 DEF Numbered
  <2>3. PICK name : name = ResolveFieldName(pairs[i].name, FieldNames(defs))
    OBVIOUS
  <2>4. got[i] = [name |-> name,
                  value |-> IF name = NoName THEN NoValue
                            ELSE NormalizeFieldValue(pairs[i].value, TypeOf(name, defs))]
    BY <1>1, <1>4, <2>3 DEF Prepared
  <2>5. name = n /\ name # NoName /\ F[n] = NormalizeFieldValue(pairs[i].value, TypeOf(name, defs))
    BY <2>1, <2>4
  <2>6. n \in Names /\ ResolveFieldName(n, FieldNames(defs)) = n
    <3>1. PICK raw, available : raw = pairs[i].name /\ available = FieldNames(defs)
      OBVIOUS
    <3>2. /\ raw \in Names /\ available \subseteq Names
          /\ name = ResolveFieldName(raw, available) /\ name # NoName
      BY <2>2, <2>3, <2>5, <3>1
    <3>3. name \in Names /\ ResolveFieldName(name, available) = name
      BY <3>2, ResolvedTwice
    <3> QED
      BY <2>5, <3>1, <3>3
  <2>7. NormalizeFieldValue(F[n], TypeOf(n, defs)) = F[n]
    BY <2>1, <2>5, ConvertedTwice
  <2> QED
    BY <2>1, <2>6, <2>7
<1> QED
  BY <1>3, <1>5, <1>6 DEF Settled, TakenFrom

\* What was stored is read back as it was.
LEMMA ReadBack ==
    ASSUME NEW F, NEW defs, Settled(F, defs)
    PROVE  PrepareRecordFields(SetToSeq({[name |-> n, value |-> F[n]] : n \in DOMAIN F}), defs).fields = F
<1> DEFINE S == {[name |-> n, value |-> F[n]] : n \in DOMAIN F}
<1>1. PICK pairs : pairs = SetToSeq(S)
  OBVIOUS
<1>2. IsFiniteSet(S)
  <2>1. IsFiniteSet(DOMAIN F)
    BY NamesAssumption, FS_Subset DEF Settled
  <2> DEFINE f == [n \in DOMAIN F |-> [name |-> n, value |-> F[n]]]
  <2>2. f \in Surjection(DOMAIN F, S)
    BY DEF Surjection
  <2> HIDE DEF f, S
  <2> QED
    BY <2>1, <2>2, FS_Surjection
<1>3. /\ \A i \in DOMAIN pairs : pairs[i] \in S
      /\ \A x \in S : \E i \in DOMAIN pairs : pairs[i] = x
      /\ IsFiniteSet(DOMAIN pairs) /\ DOMAIN pairs \subseteq Nat
  <2> HIDE DEF S
  <2> QED
    BY <1>1, <1>2, ListOfSet
<1>4. PICK got : got = [i \in DOMAIN pairs |-> Prepared(pairs[i], defs)]
  OBVIOUS
<1>5. ASSUME NEW i \in DOMAIN pairs
      PROVE  /\ got[i] = pairs[i] /\ got[i].name \in DOMAIN F
             /\ got[i].value = F[got[i].name] /\ got[i].value # NoValue
  <2>1. PICK n \in DOMAIN F : pairs[i] = [name |-> n, value |-> F[n]]
    BY <1>3
  <2>2. /\ n \in Names /\ ResolveFieldName(n, FieldNames(defs)) = n
        /\ F[n] # NoValue /\ NormalizeFieldValue(F[n], TypeOf(n, defs)) = F[n]
    BY DEF Settled
  <2>3. n # NoName
    BY <2>2, NamesAssumption
  <2>4. got[i] = [name |-> n, value |-> F[n]]
    BY <1>4, <2>1, <2>2, <2>3 DEF Prepared
  <2> QED
    BY <2>1, <2>2, <2>4
<1>6. \A n \in DOMAIN F : \E i \in DOMAIN pairs : got[i].name = n
  <2>1. SUFFICES ASSUME NEW n \in DOMAIN F PROVE \E i \in DOMAIN pairs : got[i].name = n
    OBVIOUS
  <2>2. PICK i \in DOMAIN pairs : pairs[i] = [name |-> n, value |-> F[n]]
    BY <1>3
  <2> QED
    BY <1>5, <2>2
<1>7. PICK G : G = Collected(got).fields
  OBVIOUS
<1>8. DOMAIN got = DOMAIN pairs
  BY <1>4
<1> HIDE DEF S
<1>9. TakenFrom(got, G)
  BY <1>3, <1>7, <1>8, CollectedFields
<1>10. DOMAIN G = DOMAIN F
  <2>1. \A n : n \in DOMAIN G <=> n \in DOMAIN F
    BY <1>5, <1>6, <1>8, <1>9 DEF TakenFrom
  <2> QED
    BY <2>1
<1>11. \A n \in DOMAIN F : G[n] = F[n]
  BY <1>5, <1>8, <1>9, <1>10 DEF TakenFrom
<1>12. G = F
  BY <1>9, <1>10, <1>11 DEF Settled, TakenFrom
<1> QED
  BY <1>1, <1>4, <1>7, <1>12 DEF PrepareRecordFields, S

\* What a request comes down to.
SettledRequest(operation, F, defs) ==
    IF operation = "delete_record" THEN F = << >> ELSE Settled(F, defs)

LEMMA RequestTwice ==
    ASSUME NEW operation, NEW request, NEW text, NEW defs, SettledRequest(operation, request.fields, defs)
    PROVE  NormalizeWriteRequest(operation, Reread(request), text, defs).fields = request.fields
<1>1. PICK pairs : pairs = SetToSeq({[name |-> n, value |-> request.fields[n]] : n \in DOMAIN request.fields})
  OBVIOUS
<1>2. PICK conditions, page, rid : conditions = request.lookup.conditions /\ page = request.lookup.page /\ rid = request.rid
  OBVIOUS
<1>3. PICK explicit : explicit = RawRequest(RequestParts, pairs, rid, conditions, page)
  OBVIOUS
<1>4. Reread(request) = explicit
  BY <1>1, <1>2, <1>3 DEF Reread
<1>5. PICK completed : completed = Completed(explicit, BuildWriteRequest(operation, text, defs))
  OBVIOUS
<1>6. completed.pairs = pairs
  BY <1>3, <1>5 DEF Completed, RawRequest, RequestParts
<1>7. NormalizeWriteRequest(operation, Reread(request), text, defs)
        = Checked(operation, completed, PrepareRecordFields(pairs, defs), defs)
  BY <1>4, <1>5, <1>6 DEF NormalizeWriteRequest, CheckedRequest
<1>8. CASE operation = "delete_record"
  BY <1>7, <1>8 DEF Checked, SettledRequest
<1>9. CASE operation # "delete_record"
  <2>1. Settled(request.fields, defs)
    BY <1>9 DEF SettledRequest
  <2>2. PrepareRecordFields(pairs, defs).fields = request.fields
    BY <1>1, <2>1, ReadBack
  <2> QED
    BY <1>7, <1>9, <2>2 DEF Checked
<1> QED
  BY <1>8, <1>9

-----------------------------------------------------------------------------
(* Columns and words.                                                      *)

\* Columns as Feishu and the mock store have them.
Typed(fields) ==
    Listed(fields) /\ \A i \in DOMAIN fields : fields[i] \in [id : Nat \ {NoId}, name : Names, type : Nat]

LEMMA NoneTyped == Typed(<< >>) /\ Typed(NoContext.fields) /\ Typed(NoList)
BY NoneListed DEF Typed, NoContext, Context, NoList

LEMMA TypedNames ==
    ASSUME NEW defs, Typed(defs)
    PROVE  FieldNames(defs) \subseteq Names
BY DEF Typed, FieldNames

\* A name a column is found by is the column's, and one of Names.
LEMMA ResolvedIsName ==
    ASSUME NEW raw \in Names, NEW available, available \subseteq Names
    PROVE  ResolveFieldName(raw, available) \in Names \cup {NoName}
<1> DEFINE original == Stripped[raw]
           mapped == Mapped(original)
           padded == {n \in available : Stripped[n] = mapped}
<1>1. original \in Names /\ mapped \in Names
  BY MappedIsName
<1>2. padded # {} => (CHOOSE n \in padded : TRUE) \in padded
  <2> HIDE DEF padded
  <2> QED
    OBVIOUS
<1>3. padded \subseteq Names
  OBVIOUS
<1>4. ResolveFieldName(raw, available) =
        IF available = {} \/ mapped \in available THEN mapped
        ELSE IF original \in available THEN original
        ELSE IF padded # {} THEN CHOOSE n \in padded : TRUE
        ELSE NoName
  BY DEF ResolveFieldName
<1> HIDE DEF original, mapped, padded
<1> QED
  BY <1>1, <1>2, <1>3, <1>4

LEMMA JoinedElements ==
    ASSUME NEW s, NEW t, Listed(s), Listed(t)
    PROVE  /\ Listed(s \o t)
           /\ \A i \in DOMAIN (s \o t) : \/ \E j \in DOMAIN s : (s \o t)[i] = s[j]
                                         \/ \E j \in DOMAIN t : (s \o t)[i] = t[j]
<1>1. PICK S : s \in Seq(S)
  BY DEF Listed
<1>2. PICK T : t \in Seq(T)
  BY DEF Listed
<1>3. PICK U : U = S \cup T
  OBVIOUS
<1>4. s \in Seq(U) /\ t \in Seq(U)
  BY <1>1, <1>2, <1>3
<1>5. /\ s \o t \in Seq(U) /\ Len(s \o t) = Len(s) + Len(t)
      /\ \A i \in 1..(Len(s) + Len(t)) : (s \o t)[i] = IF i <= Len(s) THEN s[i] ELSE t[i - Len(s)]
  BY <1>4, ConcatProperties
<1>6. Listed(s \o t)
  BY <1>5 DEF Listed
<1>7. /\ DOMAIN (s \o t) = 1..(Len(s) + Len(t)) /\ Len(s) \in Nat /\ Len(t) \in Nat
      /\ DOMAIN s = 1..Len(s) /\ DOMAIN t = 1..Len(t)
  BY <1>5, <1>6, ListFacts
<1>8. ASSUME NEW i \in DOMAIN (s \o t)
      PROVE  \/ \E j \in DOMAIN s : (s \o t)[i] = s[j]
             \/ \E j \in DOMAIN t : (s \o t)[i] = t[j]
  <2>1. CASE i <= Len(s)
    BY <1>5, <1>7, <2>1
  <2>2. CASE ~(i <= Len(s))
    <3>1. i - Len(s) \in 1..Len(t)
      BY <1>7, <2>2
    <3> QED
      BY <1>5, <1>7, <2>2, <3>1
  <2> QED
    BY <2>1, <2>2
<1> QED
  BY <1>6, <1>8

LEMMA CandidateWords ==
    ASSUME NEW defs, Typed(defs)
    PROVE  /\ Listed(FieldCandidates(defs))
           /\ \A i \in DOMAIN FieldCandidates(defs) : FieldCandidates(defs)[i].field \in Names
<1> DEFINE columns == [i \in DOMAIN defs |-> [field |-> defs[i].name, words |-> {defs[i].name}]]
           others == {n \in Names : Canonical[n] = n /\ n \notin FieldNames(defs)}
           words(n) == {w \in Names : Canonical[w] = n}
           rest == {[field |-> n, words |-> words(n)] : n \in others}
<1>1. FieldCandidates(defs) = columns \o SetToSeq(rest)
  BY DEF FieldCandidates
<1>2. Len(defs) \in Nat /\ DOMAIN defs = 1..Len(defs)
  BY ListFacts DEF Typed
<1>3. Listed(columns) /\ \A i \in DOMAIN columns : columns[i].field \in Names
  <2>1. columns = [i \in 1..Len(defs) |-> columns[i]]
    BY <1>2
  <2>2. \A i \in DOMAIN columns : columns[i].field \in Names
    BY DEF Typed
  <2> HIDE DEF columns
  <2> QED
    BY <1>2, <2>1, <2>2, ListMade
<1>4. IsFiniteSet(rest) /\ \A c \in rest : c.field \in Names
  <2>1. IsFiniteSet(others)
    BY NamesAssumption, FS_Subset
  <2> HIDE DEF words
  <2> DEFINE f == [n \in others |-> [field |-> n, words |-> words(n)]]
  <2>2. f \in Surjection(others, rest)
    BY DEF Surjection
  <2>3. \A c \in rest : c.field \in Names
    OBVIOUS
  <2> HIDE DEF f, rest, others
  <2> QED
    BY <2>1, <2>2, <2>3, FS_Surjection
<1> HIDE DEF columns, rest
<1>5. PICK more : more = SetToSeq(rest)
  OBVIOUS
<1>6. Listed(more) /\ \A i \in DOMAIN more : more[i] \in rest
  BY <1>4, <1>5, ListOfSet
<1>7. \A i \in DOMAIN more : more[i].field \in Names
  BY <1>4, <1>6
<1>8. PICK all : all = columns \o more
  OBVIOUS
<1>9. /\ Listed(all)
      /\ \A i \in DOMAIN all : \/ \E j \in DOMAIN columns : all[i] = columns[j]
                               \/ \E j \in DOMAIN more : all[i] = more[j]
  BY <1>3, <1>6, <1>8, JoinedElements
<1>10. \A i \in DOMAIN all : all[i].field \in Names
  BY <1>3, <1>7, <1>9
<1> QED
  BY <1>1, <1>5, <1>8, <1>9, <1>10

\* What the rules read out of a text.
LEMMA AssignmentWords ==
    ASSUME NEW defs, Typed(defs), NEW mentions
    PROVE  Numbered(ExtractAssignments(mentions, defs))
<1>1. PICK candidates : candidates = FieldCandidates(defs)
  OBVIOUS
<1>2. Listed(candidates) /\ \A i \in DOMAIN candidates : candidates[i].field \in Names
  BY <1>1, CandidateWords
<1> DEFINE said(c) == c.words \cap DOMAIN mentions
           column(c) == ResolveFieldName(c.field, FieldNames(defs))
           usable(c) == said(c) # {} /\ (column(c) # NoName \/ FieldNames(defs) = {})
           pair(c) == [name |-> IF column(c) = NoName THEN c.field ELSE column(c),
                       value |-> mentions[CHOOSE w \in said(c) : TRUE]]
           pairs == [i \in {j \in DOMAIN candidates : usable(candidates[j])} |-> pair(candidates[i])]
<1>3. ExtractAssignments(mentions, defs) = pairs
  BY <1>1 DEF ExtractAssignments
<1>4. \A i \in DOMAIN candidates : column(candidates[i]) \in Names \cup {NoName}
  BY <1>2, TypedNames, ResolvedIsName
<1>5. \A c : pair(c).name = IF column(c) = NoName THEN c.field ELSE column(c)
  OBVIOUS
<1> HIDE DEF column, pair, usable
<1>6. DOMAIN pairs \subseteq DOMAIN candidates
  OBVIOUS
<1>7. \A i \in DOMAIN pairs : i \in DOMAIN candidates /\ pairs[i] = pair(candidates[i])
  OBVIOUS
<1> HIDE DEF pairs
<1>8. \A i \in DOMAIN pairs : pairs[i].name \in Names
  BY <1>2, <1>4, <1>5, <1>7
<1>9. Len(candidates) \in Nat /\ DOMAIN candidates = 1..Len(candidates)
  BY <1>2, ListFacts
<1>10. IsFiniteSet(DOMAIN pairs) /\ DOMAIN pairs \subseteq Nat
  <2>1. IsFiniteSet(1..Len(candidates))
    BY <1>9, FS_Interval
  <2> QED
    BY <1>6, <1>9, <2>1, FS_Subset
<1> QED
  BY <1>3, <1>8, <1>10 DEF Numbered

LEMMA BuiltWords ==
    ASSUME NEW operation, NEW text, NEW defs, Typed(defs)
    PROVE  Numbered(BuildWriteRequest(operation, text, defs).pairs)
<1>1. PICK assigned, updated : /\ assigned = ExtractAssignments(text.says, defs)
                               /\ updated = ExtractAssignments(text.sets, defs)
  OBVIOUS
<1>2. Numbered(assigned) /\ Numbered(updated)
  BY <1>1, AssignmentWords
<1>3. PICK pairs : pairs = IF operation # "update_record" THEN assigned
                           ELSE IF updated = << >> /\ text.rid # NoRecord THEN assigned ELSE updated
  OBVIOUS
<1>4. BuildWriteRequest(operation, text, defs).pairs = pairs
  BY <1>1, <1>3 DEF BuildWriteRequest, RawRequest
<1> QED
  BY <1>2, <1>3, <1>4

LEMMA ListWords ==
    ASSUME NEW pairs, IsList(pairs), NamesValues(pairs)
    PROVE  Numbered(pairs)
<1>1. Listed(pairs)
  BY DEF IsList, Listed
<1>2. Len(pairs) \in Nat /\ DOMAIN pairs = 1..Len(pairs)
  BY <1>1, ListFacts
<1>3. IsFiniteSet(1..Len(pairs))
  BY <1>2, FS_Interval
<1> QED
  BY <1>2, <1>3 DEF Numbered, NamesValues

\* What validation makes of a request has nothing left to be done.
LEMMA NormalizedSettles ==
    ASSUME NamesSettle, NEW operation, NEW explicit, IsRequest(explicit), Numbered(explicit.pairs),
           NEW text, NEW defs, Typed(defs)
    PROVE  SettledRequest(operation, NormalizeWriteRequest(operation, explicit, text, defs).fields, defs)
<1>1. PICK given, pairs, rid, conditions, page : explicit = RawRequest(given, pairs, rid, conditions, page)
  BY DEF IsRequest
<1>2. PICK generated : generated = BuildWriteRequest(operation, text, defs)
  OBVIOUS
<1>3. Numbered(generated.pairs)
  BY <1>2, BuiltWords
<1>4. PICK completed : completed = Completed(explicit, generated)
  OBVIOUS
<1>5. completed.pairs = IF "fields" \in given THEN pairs ELSE generated.pairs
  BY <1>1, <1>4 DEF Completed, RawRequest
<1>6. explicit.pairs = pairs
  BY <1>1 DEF RawRequest
<1>7. Numbered(completed.pairs)
  BY <1>3, <1>5, <1>6
<1>8. PICK F : F = PrepareRecordFields(completed.pairs, defs).fields
  OBVIOUS
<1>9. Settled(F, defs)
  BY <1>7, <1>8, TypedNames, PreparedSettles
<1>10. NormalizeWriteRequest(operation, explicit, text, defs).fields
         = IF operation # "delete_record" THEN F ELSE << >>
  BY <1>2, <1>4, <1>8 DEF NormalizeWriteRequest, CheckedRequest, Checked
<1> QED
  BY <1>9, <1>10 DEF SettledRequest

\* What becomes of the columns.
\* An operation that may be done to a table.
TypedOp(op) ==
    /\ op.do \in {"create_field", "update_field", "delete_field", "create_record", "update_record", "delete_record"}
    /\ op.do \in {"create_field", "update_field"} => op.name \in Names /\ op.type \in Nat

LEMMA TypedApply ==
    ASSUME NEW table, DOMAIN table = {"fields", "records"}, Typed(table.fields),
           NEW op, TypedOp(op), NEW backend, Accepts(table, op, backend)
    PROVE  DOMAIN Apply(table, op) = {"fields", "records"} /\ Typed(Apply(table, op).fields)
<1> DEFINE fields == table.fields
           at == CHOOSE i \in FieldsWithId(op.id, fields) : TRUE
<1>1. Listed(fields) /\ Len(fields) \in Nat /\ DOMAIN fields = 1..Len(fields)
      /\ \A i \in DOMAIN fields : fields[i] \in [id : Nat \ {NoId}, name : Names, type : Nat]
  BY ListFacts DEF Typed
<1>2. CASE op.do \in {"create_record", "update_record", "delete_record"}
  BY <1>2, RecordsLeaveColumns
<1>3. CASE op.do = "create_field"
  <2> DEFINE ids == {fields[i].id : i \in DOMAIN fields}
             row == [id |-> NextFieldId(table), name |-> op.name, type |-> op.type]
  <2>1. IsFiniteSet(ids)
    <3>1. IsFiniteSet(DOMAIN fields)
      BY <1>1, FS_Interval
    <3> DEFINE f == [i \in DOMAIN fields |-> fields[i].id]
    <3>2. f \in Surjection(DOMAIN fields, ids)
      BY DEF Surjection
    <3> HIDE DEF f, ids
    <3> QED
      BY <3>1, <3>2, FS_Surjection
  <2>2. PICK n : n = NextFieldId(table)
    OBVIOUS
  <2>3. n \in Nat /\ n >= Len(fields) + 1
    <3>1. Len(fields) + 1 \in Nat /\ n = FirstFree(Len(fields) + 1, ids)
      BY <1>1, <2>2 DEF NextFieldId
    <3> HIDE DEF ids
    <3> QED
      BY <2>1, <3>1, FirstFreeIsFree
  <2>4. row \in [id : Nat \ {NoId}, name : Names, type : Nat]
    <3>1. n # NoId
      BY <1>1, <2>3 DEF NoId
    <3> QED
      BY <1>3, <2>2, <2>3, <3>1 DEF TypedOp
  <2>5. Apply(table, op) = CreateField(table, op)
    BY <1>3 DEF Apply
  <2>6. DOMAIN CreateField(table, op) = {"fields", "records"} /\ CreateField(table, op).fields = Append(fields, row)
    BY DEF CreateField
  <2> HIDE DEF row
  <2>7. /\ Listed(Append(fields, row)) /\ DOMAIN Append(fields, row) = 1..(Len(fields) + 1)
        /\ Append(fields, row)[Len(fields) + 1] = row
        /\ \A i \in 1..Len(fields) : Append(fields, row)[i] = fields[i]
    BY <1>1, ListMore
  <2>8. \A i \in 1..(Len(fields) + 1) : i \in 1..Len(fields) \/ i = Len(fields) + 1
    BY <1>1
  <2>9. Typed(Append(fields, row))
    BY <1>1, <2>4, <2>7, <2>8 DEF Typed
  <2> QED
    BY <2>5, <2>6, <2>9
<1>4. CASE op.do = "update_field"
  <2> DEFINE new == [fields EXCEPT ![at].name = op.name]
             row == [fields[at] EXCEPT !.name = op.name]
  <2>1. Apply(table, op) = UpdateField(table, op)
    BY <1>4 DEF Apply
  <2>2. DOMAIN UpdateField(table, op) = {"fields", "records"} /\ UpdateField(table, op).fields = new
    BY DEF UpdateField
  <2>3. at \in DOMAIN fields
    <3>1. FieldsWithId(op.id, fields) # {} /\ FieldsWithId(op.id, fields) \subseteq DOMAIN fields
      BY <1>4 DEF Accepts, FieldsWithId
    <3> QED
      BY <3>1
  <2> HIDE DEF at
  <2>4. row \in [id : Nat \ {NoId}, name : Names, type : Nat]
    BY <1>1, <1>4, <2>3 DEF TypedOp
  <2>5. DOMAIN new = DOMAIN fields /\ new[at] = row /\ \A i \in DOMAIN fields : i # at => new[i] = fields[i]
    BY <2>3
  <2>6. Listed(new)
    <3>1. new = [i \in 1..Len(fields) |-> new[i]]
      BY <1>1
    <3> HIDE DEF new
    <3> QED
      BY <1>1, <3>1, ListMade
  <2> HIDE DEF new, row
  <2>7. \A i \in DOMAIN new : new[i] \in [id : Nat \ {NoId}, name : Names, type : Nat]
    BY <1>1, <2>4, <2>5
  <2> QED
    BY <2>1, <2>2, <2>6, <2>7 DEF Typed
<1>5. CASE op.do = "delete_field"
  <2> DEFINE new == RemoveAt(fields, at)
  <2>1. Apply(table, op) = DeleteField(table, op)
    BY <1>5 DEF Apply
  <2>2. DOMAIN DeleteField(table, op) = {"fields", "records"} /\ DeleteField(table, op).fields = new
    BY DEF DeleteField
  <2>3. at \in DOMAIN fields
    <3>1. FieldsWithId(op.id, fields) # {} /\ FieldsWithId(op.id, fields) \subseteq DOMAIN fields
      BY <1>5 DEF Accepts, FieldsWithId
    <3> QED
      BY <3>1
  <2> HIDE DEF at
  <2>4. /\ Listed(new) /\ DOMAIN new = 1..(Len(fields) - 1)
        /\ \A i \in 1..(Len(fields) - 1) : new[i] = IF i < at THEN fields[i] ELSE fields[i + 1]
    BY <1>1, <2>3, RemovedAt
  <2>5. \A i \in 1..(Len(fields) - 1) : i \in DOMAIN fields /\ i + 1 \in DOMAIN fields
    BY <1>1
  <2> HIDE DEF new
  <2>6. \A i \in DOMAIN new : new[i] \in [id : Nat \ {NoId}, name : Names, type : Nat]
    BY <1>1, <2>4, <2>5
  <2> QED
    BY <2>1, <2>2, <2>4, <2>6 DEF Typed
<1> QED
  BY <1>2, <1>3, <1>4, <1>5 DEF TypedOp

\* Validation's names and types.
LEMMA ActionTyped ==
    ASSUME NEW raw, {raw.source, raw.field, raw.target} \subseteq Names \cup {NoName}, NEW defs, Typed(defs),
           NEW planned, NEW intended, NEW op, op = NormalizeSchemaAction(raw, defs, planned, intended),
           op # Rejection
    PROVE  TypedOp(op)
<1> DEFINE source == ResolveSchemaField(raw, defs)
<1>1. \A n \in Names \cup {NoName} : n # NoName => Clean(n) \in Names
  BY MappedIsName DEF Clean
<1>2. source # NoField => source \in [id : Nat \ {NoId}, name : Names, type : Nat]
  <2>1. ASSUME source # NoField
        PROVE  \E i \in DOMAIN defs : source = defs[i]
    BY <2>1, ResolvedIsThere DEF Typed
  <2> HIDE DEF source
  <2> QED
    BY <2>1 DEF Typed
<1>3. CASE CanonicalAction(raw.do) = "create_field"
  <2>1. PICK name, type : name = Clean(raw.field) /\ type = SchemaFieldType(raw.type)
    OBVIOUS
  <2>2. op = Action("create_field", NoId, name, type) /\ name # NoName /\ type \in SUPPORTED_FEISHU_FIELD_TYPES
    BY <1>3, <2>1 DEF NormalizeSchemaAction, NormalizeCreateFieldAction
  <2>3. raw.field # NoName
    BY <2>1, <2>2 DEF Clean
  <2>4. name \in Names /\ type \in Nat
    BY <1>1, <2>1, <2>2, <2>3 DEF SUPPORTED_FEISHU_FIELD_TYPES
  <2> QED
    BY <2>2, <2>4 DEF TypedOp, Action
<1>4. CASE CanonicalAction(raw.do) = "update_field"
  <2>1. PICK name : name = NewName(raw, source)
    OBVIOUS
  <2>2. op = Action("update_field", source.id, name, source.type) /\ source # NoField
    BY <1>4, <2>1 DEF NormalizeSchemaAction, NormalizeUpdateFieldAction
  <2> HIDE DEF source
  <2>3. name \in Names /\ source.type \in Nat
    BY <1>1, <1>2, <2>1, <2>2 DEF NewName
  <2> QED
    BY <2>2, <2>3 DEF TypedOp, Action
<1>5. CASE CanonicalAction(raw.do) = "delete_field"
  <2>1. op = Action("delete_field", source.id, source.name, source.type)
    BY <1>5 DEF NormalizeSchemaAction, NormalizeDeleteFieldAction
  <2> QED
    BY <2>1 DEF TypedOp, Action
<1> QED
  BY <1>3, <1>4, <1>5 DEF NormalizeSchemaAction

LEMMA ChangesTyped ==
    ASSUME NEW raws, Listed(raws), NamesColumns(raws), NEW defs, Typed(defs), NEW intended,
           ~NormalizeSchemaActions(raws, defs, intended).invalid
    PROVE  LET ops == NormalizeSchemaActions(raws, defs, intended).actions
           IN  \A i \in DOMAIN ops : TypedOp(ops[i])
<1>1. PICK planned : planned = NamesAfter(raws, defs, intended)
  OBVIOUS
<1>2. PICK ops : ops = [n \in 1..Len(raws) |-> NormalizeSchemaAction(raws[n], defs, planned[n - 1], intended)]
  OBVIOUS
<1>3. /\ NormalizeSchemaActions(raws, defs, intended).actions = ops
      /\ Rejection \notin ToSet(ops)
  BY <1>1, <1>2 DEF NormalizeSchemaActions
<1>4. DOMAIN ops = 1..Len(raws) /\ DOMAIN raws = 1..Len(raws)
  BY <1>2, ListFacts
<1>5. ASSUME NEW i \in DOMAIN ops
      PROVE  TypedOp(ops[i])
  <2>1. PICK raw, before : raw = raws[i] /\ before = planned[i - 1]
    OBVIOUS
  <2>2. ops[i] = NormalizeSchemaAction(raw, defs, before, intended)
    BY <1>2, <1>4, <2>1
  <2>3. ops[i] # Rejection
    BY <1>3 DEF ToSet
  <2>4. {raw.source, raw.field, raw.target} \subseteq Names \cup {NoName}
    BY <1>4, <2>1 DEF NamesColumns
  <2> QED
    BY <2>2, <2>3, <2>4, ActionTyped
<1> QED
  BY <1>3, <1>5

\* The n-th of some numbers is one of them.
LEMMA NthElement ==
    ASSUME NEW last \in Nat, NEW new, new \subseteq 1..last, NEW n \in 1..Cardinality(new)
    PROVE  \E i \in new : Cardinality({j \in new : j <= i}) = n
<1> DEFINE upto(i) == {j \in new : j <= i}
           T == {i \in 0..last : Cardinality(upto(i)) >= n}
<1>1. IsFiniteSet(new)
  <2>1. IsFiniteSet(1..last)
    BY FS_Interval
  <2> QED
    BY <2>1, FS_Subset
<1>2. Cardinality(new) \in Nat /\ n \in Nat /\ n >= 1 /\ n <= Cardinality(new)
  BY <1>1, FS_CardinalityType
<1>3. \A i : IsFiniteSet(upto(i)) /\ Cardinality(upto(i)) \in Nat
  <2>1. SUFFICES ASSUME NEW i PROVE IsFiniteSet(upto(i)) /\ Cardinality(upto(i)) \in Nat
    OBVIOUS
  <2>2. upto(i) \subseteq new
    OBVIOUS
  <2> HIDE DEF upto
  <2> QED
    BY <1>1, <2>2, FS_Subset, FS_CardinalityType
<1> HIDE DEF T
<1>0. \A j \in new : j \in Nat /\ 1 <= j /\ j <= last
  OBVIOUS
<1>4. upto(last) = new /\ upto(0) = {}
  <2>1. \A j : j \in upto(last) <=> j \in new
    BY <1>0
  <2>2. \A j \in new : ~(j <= 0)
    BY <1>0
  <2> QED
    BY <2>1, <2>2
<1>5. last \in T /\ T \subseteq Nat
  <2>1. last \in 0..last /\ 0..last \subseteq Nat
    OBVIOUS
  <2> QED
    BY <1>2, <1>4, <2>1 DEF T
<1>6. PICK i \in T : \A m \in T : i <= m
  <2> HIDE DEF T
  <2> QED
    BY <1>5, LeastNumber
<1>7. i \in 0..last /\ Cardinality(upto(i)) >= n
  BY <1>6 DEF T
<1>8. i # 0
  <2>1. Cardinality(upto(0)) = 0
    BY <1>4, FS_EmptySet
  <2> QED
    BY <1>2, <1>7, <2>1
<1>9. i - 1 \in 0..last /\ i - 1 \notin T
  <2>1. i - 1 \in 0..last /\ ~(i <= i - 1)
    BY <1>7, <1>8
  <2> QED
    BY <1>6, <2>1
<1>10. ~(Cardinality(upto(i - 1)) >= n)
  BY <1>9 DEF T
<1>15. \A j \in new : j <= i <=> j <= i - 1 \/ j = i
  BY <1>0, <1>7
<1>11. i \in new
  <2>1. SUFFICES ASSUME i \notin new PROVE FALSE
    OBVIOUS
  <2>2. upto(i) = upto(i - 1)
    BY <1>15, <2>1
  <2> QED
    BY <1>7, <1>10, <2>2
<1>12. upto(i) = upto(i - 1) \cup {i} /\ i \notin upto(i - 1)
  <2>1. ~(i <= i - 1) /\ i <= i
    BY <1>7
  <2> QED
    BY <1>11, <1>15, <2>1
<1>13. Cardinality(upto(i)) = Cardinality(upto(i - 1)) + 1
  <2> HIDE DEF upto
  <2> QED
    BY <1>3, <1>12, FS_AddElement
<1>14. Cardinality(upto(i)) = n
  <2>1. PICK a, b : a = Cardinality(upto(i)) /\ b = Cardinality(upto(i - 1))
    OBVIOUS
  <2>2. a \in Nat /\ b \in Nat /\ a >= n /\ ~(b >= n) /\ a = b + 1
    BY <1>3, <1>7, <1>10, <1>13, <2>1
  <2> QED
    BY <1>2, <2>1, <2>2
<1> QED
  BY <1>11, <1>14

\* The rules call columns what the text calls them.
LEMMA RuleActionsNamed ==
    ASSUME NEW asked, IsList(asked.renames), IsList(asked.deletes), IsList(asked.creates),
           NamesColumns(asked.renames), NamesColumns(asked.deletes), NamesColumns(asked.creates), NEW defs
    PROVE  NamesColumns(RuleActions(asked, defs))
<1> DEFINE known == FieldNames(defs) \cup {asked.renames[i].field : i \in DOMAIN asked.renames}
                      \cup {asked.deletes[i].field : i \in DOMAIN asked.deletes}
           new == {i \in DOMAIN asked.creates : asked.creates[i].field \notin known}
           nth(n) == CHOOSE i \in new : Cardinality({j \in new : j <= i}) = n
           rest == [n \in 1..Cardinality(new) |-> asked.creates[nth(n)]]
<1>1. Listed(asked.renames) /\ Listed(asked.deletes) /\ Listed(asked.creates)
  BY DEF IsList, Listed
<1>2. RuleActions(asked, defs) = asked.renames \o asked.deletes \o rest
  BY DEF RuleActions
<1>3. new \subseteq 1..Len(asked.creates) /\ DOMAIN asked.creates = 1..Len(asked.creates) /\ Len(asked.creates) \in Nat
  BY <1>1, ListFacts
<1>4. Cardinality(new) \in Nat
  <2>1. IsFiniteSet(1..Len(asked.creates))
    BY <1>3, FS_Interval
  <2> HIDE DEF new
  <2> QED
    BY <1>3, <2>1, FS_Subset, FS_CardinalityType
<1>5. new \subseteq DOMAIN asked.creates
  OBVIOUS
<1> HIDE DEF new
<1>6. \A n \in 1..Cardinality(new) : nth(n) \in new
  <2>1. \A n \in 1..Cardinality(new) : \E i \in new : Cardinality({j \in new : j <= i}) = n
    BY <1>3, NthElement
  <2> QED
    BY <2>1
<1> HIDE DEF nth
<1>7. \A n \in DOMAIN rest : \E i \in DOMAIN asked.creates : rest[n] = asked.creates[i]
  BY <1>5, <1>6
<1>8. Listed(rest)
  <2>1. rest = [n \in 1..Cardinality(new) |-> rest[n]]
    OBVIOUS
  <2> HIDE DEF rest
  <2> QED
    BY <1>4, <2>1, ListMade
<1>9. NamesColumns(rest)
  <2> HIDE DEF rest
  <2> QED
    BY <1>7 DEF NamesColumns
<1> HIDE DEF rest
<1>10. \A s, t : Listed(s) /\ Listed(t) /\ NamesColumns(s) /\ NamesColumns(t) => Listed(s \o t) /\ NamesColumns(s \o t)
  <2>1. SUFFICES ASSUME NEW s, NEW t, Listed(s), Listed(t), NamesColumns(s), NamesColumns(t)
                 PROVE  Listed(s \o t) /\ NamesColumns(s \o t)
    OBVIOUS
  <2>2. PICK all : all = s \o t
    OBVIOUS
  <2>3. /\ Listed(all)
        /\ \A i \in DOMAIN all : (\E j \in DOMAIN s : all[i] = s[j]) \/ (\E j \in DOMAIN t : all[i] = t[j])
    BY <2>1, <2>2, JoinedElements
  <2> QED
    BY <2>1, <2>2, <2>3 DEF NamesColumns
<1>11. Listed(asked.renames \o asked.deletes) /\ NamesColumns(asked.renames \o asked.deletes)
  BY <1>1, <1>10
<1> QED
  BY <1>2, <1>8, <1>9, <1>10, <1>11

-----------------------------------------------------------------------------
(* Columns and words in a session.                                         *)

\* Wherever the columns are kept, they are columns,
ColumnsTyped ==
    /\ DOMAIN feishu = {"fields", "records"} /\ Typed(feishu.fields)
    /\ Typed(cache) /\ Typed(elsewhere)
    /\ Typed(step.listed) /\ Typed(step.context.fields)
ContextKeys == PayloadKeys \cup RequestKeys \cup {"feishu.schema_change_payload"}
KeptTyped ==
    /\ \A k \in SchemaKeys \cap DOMAIN artifacts : Typed(artifacts[k].fields)
    /\ \A k \in ContextKeys \cap DOMAIN artifacts : Typed(artifacts[k].context.fields)
\* what requests and changes call them are names,
DraftWords ==
    \A k \in PayloadKeys \cap DOMAIN artifacts :
        \A i \in DOMAIN artifacts[k].draft.raws : Numbered(artifacts[k].draft.raws[i].pairs)
ChangeWords ==
    "feishu.schema_change_payload" \in DOMAIN artifacts =>
        NamesColumns(artifacts["feishu.schema_change_payload"].draft.raws)
\* and the changes that validation lets pass keep it so.
ActionsTyped ==
    "validation.schema_change_payload" \in DOMAIN artifacts =>
        LET ops == artifacts["validation.schema_change_payload"].ops
        IN  \A i \in DOMAIN ops : TypedOp(ops[i])

\* An artifact was there before, or it is the one that is saved.
LEMMA SavesOrKeeps ==
    ASSUME ByPlan, [FeishuNext]_feishuVars, NEW k \in DOMAIN artifacts'
    PROVE  /\ job' = job
           /\ \/ k \in DOMAIN artifacts /\ artifacts'[k] = artifacts[k]
              \/ /\ Saves /\ k = Current.gives /\ Going
                 /\ SavesOwn(Current) /\ ReadsRight(Current) /\ Current.needs \subseteq DOMAIN artifacts
                 /\ \A data : Save(data) => artifacts'[k] = data
                 /\ standing' # "failed"
<1>1. CASE Invoke
  BY <1>1, InvokeClears
<1>2. CASE ~Saves /\ ~Invoke
  BY <1>2, OnlySavesSave
<1>3. CASE Saves
  <2>1. PICK data : Save(data)
    BY <1>3, SavesDo
  <2>2. Saved(data)
    BY <1>3, <2>1, SavesDo, SavesNext
  <2>3. CASE k # Current.gives
    BY <2>2, <2>3, KeyKept DEF Saved
  <2>4. CASE k = Current.gives
    <3>1. ASSUME NEW other, Save(other)
          PROVE  artifacts'[k] = other
      <4>1. Saved(other)
        BY <1>3, <3>1, SavesDo, SavesNext
      <4> QED
        BY <2>4, <4>1 DEF Saved
    <3>2. SavesOwn(Current) /\ ReadsRight(Current) /\ Current.needs \subseteq DOMAIN artifacts /\ Going
      BY <1>3, SavesDo, CurrentFacts
    <3> QED
      BY <1>3, <2>2, <2>4, <3>1, <3>2 DEF Saved
  <2> QED
    BY <2>3, <2>4
<1> QED
  BY <1>1, <1>2, <1>3

LEMMA TableFieldsTyped ==
    ASSUME ByPlan, KeptTyped, ParseRecord \/ ParseSchemaChange
    PROVE  Typed(TableFields.fields)
<1>1. SavesOwn(Current) /\ ReadsRight(Current) /\ Current.needs \subseteq DOMAIN artifacts
  BY CurrentFacts DEF ParseRecord, ParseSchemaChange, IsAgent, Going
<1>2. Current.needs \cap SchemaKeys # {}
  <2>1. CASE ParseRecord
    BY <1>1, <2>1 DEF ParseRecord, IsAgent, SavesOwn, ReadsRight
  <2>2. CASE ParseSchemaChange
    <3>1. Current.needs = {"feishu.table_schema"}
      BY <1>1, <2>2 DEF ParseSchemaChange, IsAgent, SavesOwn, ReadsRight
    <3> QED
      BY <3>1 DEF SchemaKeys
  <2> QED
    BY <2>1, <2>2
<1> QED
  BY <1>1, <1>2 DEF TableFields, KeptTyped, SchemaKeys

\* What a record's validation is about.
LEMMA PayloadIs ==
    ASSUME ByPlan, ValidateRecord
    PROVE  \E k \in PayloadKeys \cap DOMAIN artifacts : Payload = artifacts[k]
<1>1. Current.needs \subseteq DOMAIN artifacts /\ PayloadKeys \cap Current.needs # {}
  BY CurrentFacts DEF ValidateRecord, Validates, Going
<1>2. PICK k : k = CHOOSE q \in PayloadKeys \cap Current.needs : TRUE
  OBVIOUS
<1>3. k \in PayloadKeys \cap Current.needs
  BY <1>1, <1>2
<1> QED
  BY <1>1, <1>2, <1>3 DEF Payload

LEMMA KeptTypedStep ==
    ASSUME ByPlan, ColumnsTyped, KeptTyped, [FeishuNext]_feishuVars
    PROVE  KeptTyped'
<1>1. ASSUME NEW k \in SchemaKeys \cap DOMAIN artifacts'
      PROVE  Typed(artifacts'[k].fields)
  <2>1. CASE k \in DOMAIN artifacts /\ artifacts'[k] = artifacts[k]
    BY <1>1, <2>1 DEF KeptTyped
  <2>2. CASE Saves /\ k = Current.gives /\ \A data : Save(data) => artifacts'[k] = data
    <3>1. ReadSchema
      BY <1>1, <2>2, Writers
    <3>2. artifacts'[k] = step.context
      BY <2>2, <3>1 DEF ReadSchema
    <3> QED
      BY <3>2 DEF ColumnsTyped
  <2> QED
    BY <1>1, <2>1, <2>2, SavesOrKeeps
<1>2. ASSUME NEW k \in ContextKeys \cap DOMAIN artifacts'
      PROVE  Typed(artifacts'[k].context.fields)
  <2>1. CASE k \in DOMAIN artifacts /\ artifacts'[k] = artifacts[k]
    BY <1>2, <2>1 DEF KeptTyped
  <2>2. CASE Saves /\ k = Current.gives /\ standing' # "failed" /\ Current.needs \subseteq DOMAIN artifacts
             /\ \A data : Save(data) => artifacts'[k] = data
    <3>1. ParseRecord \/ ParseSchemaChange \/ ValidateRecord \/ ValidateSchemaChange
      BY <1>2, <2>2, Writers DEF ContextKeys, RequestKeys
    <3>2. CASE ParseRecord
      <4>1. PICK draft : Save([draft |-> draft, context |-> TableFields])
        BY <3>2 DEF ParseRecord
      <4>2. artifacts'[k] = [draft |-> draft, context |-> TableFields]
        BY <2>2, <4>1
      <4>3. artifacts'[k].context = TableFields
        BY <4>2
      <4> QED
        BY <3>2, <4>3, TableFieldsTyped
    <3>3. CASE ParseSchemaChange
      <4>1. PICK draft : Save([draft |-> draft, context |-> TableFields])
        BY <3>3 DEF ParseSchemaChange
      <4>2. artifacts'[k] = [draft |-> draft, context |-> TableFields]
        BY <2>2, <4>1
      <4>3. artifacts'[k].context = TableFields
        BY <4>2
      <4> QED
        BY <3>3, <4>3, TableFieldsTyped
    <3>4. CASE ValidateRecord
      <4>1. PICK q \in PayloadKeys \cap DOMAIN artifacts : Payload = artifacts[q]
        BY <3>4, PayloadIs
      <4>2. PICK requests : Save([requests |-> requests, ops |-> Writes(requests),
                                  context |-> Payload.context, mock |-> Payload.draft.mock])
        BY <2>2, <3>4 DEF ValidateRecord, Fail
      <4>3. artifacts'[k] = [requests |-> requests, ops |-> Writes(requests),
                             context |-> Payload.context, mock |-> Payload.draft.mock]
        BY <2>2, <4>2
      <4>4. artifacts'[k].context = Payload.context
        BY <4>3
      <4>5. q \in ContextKeys \cap DOMAIN artifacts
        BY <4>1 DEF ContextKeys
      <4> QED
        BY <4>1, <4>4, <4>5 DEF KeptTyped
    <3>5. CASE ValidateSchemaChange
      <4>1. PICK payload : payload = artifacts["feishu.schema_change_payload"]
        OBVIOUS
      <4>2. PICK ops : Save([requests |-> << >>, ops |-> ops,
                             context |-> payload.context, mock |-> payload.draft.mock])
        BY <2>2, <3>5, <4>1 DEF ValidateSchemaChange, Fail
      <4>3. artifacts'[k] = [requests |-> << >>, ops |-> ops,
                             context |-> payload.context, mock |-> payload.draft.mock]
        BY <2>2, <4>2
      <4>4. artifacts'[k].context = payload.context
        BY <4>3
      <4>5. "feishu.schema_change_payload" \in ContextKeys \cap DOMAIN artifacts
        BY <2>2, <3>5 DEF ValidateSchemaChange, ContextKeys
      <4> QED
        BY <4>1, <4>4, <4>5 DEF KeptTyped
    <3> QED
      BY <3>1, <3>2, <3>3, <3>4, <3>5
  <2> QED
    BY <1>2, <2>1, <2>2, SavesOrKeeps
<1> QED
  BY <1>1, <1>2 DEF KeptTyped

LEMMA DraftWordsStep ==
    ASSUME ByPlan, KeptTyped, DraftWords, [FeishuNext]_feishuVars
    PROVE  DraftWords'
<1> SUFFICES ASSUME NEW k \in PayloadKeys \cap DOMAIN artifacts', NEW i \in DOMAIN artifacts'[k].draft.raws
             PROVE  Numbered(artifacts'[k].draft.raws[i].pairs)
  BY DEF DraftWords
<1>1. CASE k \in DOMAIN artifacts /\ artifacts'[k] = artifacts[k]
  BY <1>1 DEF DraftWords
<1>2. CASE Saves /\ k = Current.gives /\ \A data : Save(data) => artifacts'[k] = data
  <2>1. ParseRecord
    BY <1>2, Writers
  <2>2. PICK draft : /\ draft \in IF job.llm THEN Drafts ELSE {RuleDraft(TableFields)}
                     /\ Save([draft |-> draft, context |-> TableFields])
    BY <2>1 DEF ParseRecord
  <2>3. artifacts'[k].draft = draft
    <3>1. artifacts'[k] = [draft |-> draft, context |-> TableFields]
      BY <1>2, <2>2
    <3> QED
      BY <3>1
  <2>4. CASE job.llm
    BY <2>2, <2>3, <2>4, WordsAssumption, ListWords
  <2>5. CASE ~job.llm
    <3>1. PICK raw : raw = BuildWriteRequest(Operation, job.text, TableFields.fields)
      OBVIOUS
    <3>2. draft.raws = << raw >>
      BY <2>2, <2>5, <3>1 DEF RuleDraft, Draft
    <3>3. Numbered(raw.pairs)
      BY <2>1, <3>1, TableFieldsTyped, BuiltWords
    <3>4. \A j \in DOMAIN draft.raws : draft.raws[j] = raw
      BY <3>2
    <3> QED
      BY <2>3, <3>3, <3>4
  <2> QED
    BY <2>4, <2>5
<1> QED
  BY <1>1, <1>2, SavesOrKeeps

LEMMA ChangeWordsStep ==
    ASSUME ByPlan, ChangeWords, [FeishuNext]_feishuVars
    PROVE  ChangeWords'
<1> DEFINE k == "feishu.schema_change_payload"
<1> SUFFICES ASSUME k \in DOMAIN artifacts'
             PROVE  NamesColumns(artifacts'[k].draft.raws)
  BY DEF ChangeWords
<1>1. CASE k \in DOMAIN artifacts /\ artifacts'[k] = artifacts[k]
  BY <1>1 DEF ChangeWords
<1>2. CASE Saves /\ k = Current.gives /\ Going /\ \A data : Save(data) => artifacts'[k] = data
  <2>1. ParseSchemaChange /\ job \in Jobs
    BY <1>2, Writers, CurrentFacts
  <2>2. PICK draft : /\ draft \in IF job.llm THEN ChangeDrafts ELSE {RuleChange(TableFields)}
                     /\ Save([draft |-> draft, context |-> TableFields])
    BY <2>1 DEF ParseSchemaChange
  <2>3. artifacts'[k].draft = draft
    <3>1. artifacts'[k] = [draft |-> draft, context |-> TableFields]
      BY <1>2, <2>2
    <3> QED
      BY <3>1
  <2>4. CASE job.llm
    BY <2>2, <2>3, <2>4, WordsAssumption
  <2>5. CASE ~job.llm
    <3>1. draft.raws = RuleActions(job.asked, TableFields.fields)
      BY <2>2, <2>5 DEF RuleChange
    <3>2. /\ IsList(job.asked.renames) /\ IsList(job.asked.deletes) /\ IsList(job.asked.creates)
          /\ NamesColumns(job.asked.renames) /\ NamesColumns(job.asked.deletes) /\ NamesColumns(job.asked.creates)
      BY <2>1, JobFacts, WordsAssumption
    <3>3. NamesColumns(draft.raws)
      BY <3>1, <3>2, RuleActionsNamed
    <3> QED
      BY <2>3, <3>3
  <2> QED
    BY <2>4, <2>5
<1> QED
  BY <1>1, <1>2, SavesOrKeeps

LEMMA ActionsTypedStep ==
    ASSUME SessionInv, KeptTyped, ChangeWords, ActionsTyped, [FeishuNext]_feishuVars
    PROVE  ActionsTyped'
<1> DEFINE k == "validation.schema_change_payload"
           d == "feishu.schema_change_payload"
<1>0. ByPlan /\ DraftedChange
  BY DEF SessionInv
<1> SUFFICES ASSUME k \in DOMAIN artifacts', NEW i \in DOMAIN artifacts'[k].ops
             PROVE  TypedOp(artifacts'[k].ops[i])
  BY DEF ActionsTyped
<1>1. CASE k \in DOMAIN artifacts /\ artifacts'[k] = artifacts[k]
  BY <1>1 DEF ActionsTyped
<1>2. CASE Saves /\ k = Current.gives /\ standing' # "failed" /\ Current.needs \subseteq DOMAIN artifacts
           /\ \A data : Save(data) => artifacts'[k] = data
  <2>1. ValidateSchemaChange
    BY <1>0, <1>2, Writers
  <2>2. PICK payload : payload = artifacts[d]
    OBVIOUS
  <2>3. PICK raws, defs : raws = payload.draft.raws /\ defs = payload.context.fields
    OBVIOUS
  <2>4. PICK checked : checked = NormalizeSchemaActions(raws, defs, job.deletes)
    OBVIOUS
  <2>5. PICK item : item = [requests |-> << >>, ops |-> checked.actions,
                            context |-> payload.context, mock |-> payload.draft.mock]
    OBVIOUS
  <2>6. Save(item) /\ ~checked.invalid /\ d \in DOMAIN artifacts
    BY <1>2, <2>1, <2>2, <2>3, <2>4, <2>5 DEF ValidateSchemaChange, Fail
  <2>7. artifacts'[k] = item /\ item.ops = checked.actions
    BY <1>2, <2>5, <2>6
  <2>8. Listed(raws) /\ NamesColumns(raws)
    BY <1>0, <2>2, <2>3, <2>6 DEF DraftedChange, ChangeWords
  <2>9. Typed(defs)
    BY <2>2, <2>3, <2>6 DEF KeptTyped, ContextKeys
  <2>10. \A j \in DOMAIN checked.actions : TypedOp(checked.actions[j])
    BY <2>4, <2>6, <2>8, <2>9, ChangesTyped
  <2> QED
    BY <2>7, <2>10
<1> QED
  BY <1>0, <1>1, <1>2, SavesOrKeeps

\* What reading and writing leave alone.
LEMMA RestStays ==
    ASSUME ByPlan
    PROVE  /\ LoadMock \/ LoadCached \/ SaveListed \/ ListFails => step'.listed = NoList
           /\ ListFields => step'.context = step.context
           /\ PrepareWrite \/ StartChange \/ Send => step'.listed = step.listed
           /\ RefreshList => step'.context = step.context
<1>1. step = Doing(step.at, step.where, step.listed, step.context, step.ops, step.done)
  BY DEF ByPlan, IsDoing
<1>2. ASSUME NEW context, Load(context)
      PROVE  step'.listed = NoList
  <2>1. step' = Loaded(step, context, NoList)
    BY <1>2 DEF Load, Loaded
  <2>2. step' = Doing(step.at, "loaded", NoList, context, step.ops, step.done)
    BY <1>1, <2>1, TwoFields
  <2> QED
    BY <2>2 DEF Doing
<1>3. LoadMock \/ LoadCached \/ SaveListed \/ ListFails => step'.listed = NoList
  BY <1>2 DEF LoadMock, LoadCached, SaveListed, ListFails
<1>4. ASSUME ListFields
      PROVE  step'.context = step.context
  <2>1. step' = Lists(step, feishu.fields)
    BY <1>4 DEF ListFields, Lists
  <2>2. step' = Doing(step.at, "listed", feishu.fields, step.context, step.ops, step.done)
    BY <1>1, <2>1, OneField
  <2> QED
    BY <2>2 DEF Doing
<1>5. ASSUME RefreshList
      PROVE  step'.context = step.context
  <2>1. step' = Refreshes(step, feishu.fields)
    BY <1>5 DEF RefreshList, Refreshes
  <2>2. step' = Doing(step.at, "refreshing", feishu.fields, step.context, step.ops, step.done)
    BY <1>1, <2>1, OneField
  <2> QED
    BY <2>2 DEF Doing
<1>6. ASSUME PrepareWrite
      PROVE  step'.listed = step.listed
  <2>1. step' = Prepares(step, Writes(Prepared1(step.context.fields)))
    BY <1>6 DEF PrepareWrite, Prepares
  <2>2. step' = Doing(step.at, "writing", step.listed, step.context, Writes(Prepared1(step.context.fields)), step.done)
    BY <1>1, <2>1, OneField
  <2> QED
    BY <2>2 DEF Doing
<1>7. ASSUME StartChange
      PROVE  step'.listed = step.listed
  <2>1. step' = Changes(step, Validated.ops, Validated.context)
    BY <1>7 DEF StartChange, Changes
  <2>2. step' = Doing(step.at, "writing", step.listed, Validated.context, Validated.ops, step.done)
    BY <1>1, <2>1, TwoFields
  <2> QED
    BY <2>2 DEF Doing
<1>8. ASSUME Send
      PROVE  step'.listed = step.listed
  <2>1. step' = SendsOne(step)
    BY <1>8 DEF Send, SendsOne
  <2>2. step' = Doing(step.at, step.where, step.listed, step.context, Tail(step.ops), step.done + 1)
    BY <1>1, <2>1, SendsOneFields
  <2> QED
    BY <2>2 DEF Doing
<1> QED
  BY <1>3, <1>4, <1>5, <1>6, <1>7, <1>8

\* An operation that is sent keeps the table a table.
LEMMA SendingKeepsTyped ==
    ASSUME SessionInv, LeftToSend, ColumnsTyped, ActionsTyped, Writing, step.ops # << >>,
           NEW backend, Accepts(feishu, Head(step.ops), backend)
    PROVE  LET new == Apply(feishu, Head(step.ops)) IN DOMAIN new = {"fields", "records"} /\ Typed(new.fields)
<1>1. AtWriteTool /\ step.where = "writing"
  BY DEF Writing, Uses, AtWriteTool
<1>2. PICK op : op = Head(step.ops)
  OBVIOUS
<1>3. TypedOp(op)
  <2>1. CASE ~AtChange
    <3>1. op.do \in {"create_record", "update_record", "delete_record"}
      BY <1>1, <1>2, <2>1, NextIsOfItsKind
    <3> QED
      BY <3>1 DEF TypedOp
  <2>2. CASE AtChange
    <3>1. /\ Listed(sent) /\ Listed(step.ops) /\ Len(step.ops) + Len(sent) = Len(shown.ops)
          /\ shown.ops = Validated.ops
      BY <1>1 DEF SessionInv, SentRight, AskedFor
    <3>2. Len(sent) \in Nat /\ Len(step.ops) \in Nat /\ Len(step.ops) # 0
      BY <3>1, ListFacts
    <3>3. 1 \in 1..Len(step.ops) /\ Len(sent) + 1 \in 1..Len(shown.ops)
      BY <3>1, <3>2
    <3>4. op = shown.ops[Len(sent) + 1]
      BY <1>1, <1>2, <2>2, <3>1, <3>3, ListRest DEF LeftToSend, AtChange
    <3>5. Validated = artifacts["validation.schema_change_payload"]
          /\ "validation.schema_change_payload" \in DOMAIN artifacts
      BY <2>2, ValidatedIs DEF CheckedKey, SessionInv, AtChange
    <3>6. Listed(shown.ops)
      BY <3>1, <3>5 DEF CheckedChange, SessionInv
    <3>7. Len(sent) + 1 \in DOMAIN shown.ops
      BY <3>3, <3>6, ListFacts
    <3> QED
      BY <3>1, <3>4, <3>5, <3>7 DEF ActionsTyped
  <2> QED
    BY <2>1, <2>2
<1> QED
  BY <1>2, <1>3, TypedApply DEF ColumnsTyped

\* A tool that is done leaves the columns what they were, or what the last call made of them.
LEMMA FinishKeepsTyped ==
    ASSUME SessionInv, LeftToSend, ColumnsTyped, ActionsTyped, Finishes
    PROVE  /\ DOMAIN feishu' = {"fields", "records"} /\ Typed(feishu'.fields)
           /\ Typed(cache') /\ Typed(elsewhere')
<1>1. CASE RefuseWrite \/ SendRejected \/ WriteDone \/ RefreshFails
  <2>1. UNCHANGED << feishu, cache, elsewhere >>
    BY <1>1 DEF RefuseWrite, SendRejected, WriteDone, RefreshFails
  <2> QED
    BY <2>1 DEF ColumnsTyped
<1>2. CASE RefreshSave
  <2>1. UNCHANGED << feishu, elsewhere >> /\ cache' = step.listed
    BY <1>2 DEF RefreshSave, CacheAfterChange
  <2> QED
    BY <2>1 DEF ColumnsTyped
<1>3. CASE SendLost
  <2>1. UNCHANGED << cache, elsewhere >> /\ Writing /\ step.ops # << >>
    BY <1>3 DEF SendLost
  <2>2. CASE feishu' = feishu
    BY <2>1, <2>2 DEF ColumnsTyped
  <2>3. CASE Accepts(feishu, Head(step.ops), "feishu") /\ feishu' = Apply(feishu, Head(step.ops))
    BY <2>1, <2>3, SendingKeepsTyped DEF ColumnsTyped
  <2> QED
    BY <1>3, <2>2, <2>3 DEF SendLost
<1> QED
  BY <1>1, <1>2, <1>3 DEF Finishes

LEMMA ColumnsTypedStep ==
    ASSUME SessionInv, LeftToSend, ColumnsTyped, KeptTyped, ActionsTyped, [FeishuNext]_feishuVars
    PROVE  ColumnsTyped'
<1>0. ByPlan
  BY DEF SessionInv
<1>1. CASE Invoke \/ Ask \/ Ends \/ UNCHANGED feishuVars
  <2>1. UNCHANGED << feishu, cache, elsewhere, step >>
    BY <1>1, EndsKeep DEF Invoke, Ask, feishuVars
  <2> QED
    BY <2>1 DEF ColumnsTyped
<1>2. CASE Others
  <2>1. step' = step
    BY <1>2, OthersKeep
  <2>2. ASSUME NEW op \in Meddlings, Meddle(op)
        PROVE  ColumnsTyped'
    <3>1. TypedOp(op)
      BY WordsAssumption DEF TypedOp
    <3>2. /\ Accepts(feishu, op, "feishu") /\ feishu' = Apply(feishu, op) /\ UNCHANGED << cache, elsewhere >>
      BY <2>2 DEF Meddle
    <3>3. DOMAIN feishu' = {"fields", "records"} /\ Typed(feishu'.fields)
      BY <3>1, <3>2, TypedApply DEF ColumnsTyped
    <3> QED
      BY <2>1, <3>2, <3>3 DEF ColumnsTyped
  <2>3. CASE ExpireCache \/ OtherLists \/ OtherSaves
    <3>1. /\ feishu' = feishu /\ cache' \in {cache, NoList, elsewhere}
          /\ elsewhere' \in {elsewhere, NoList, feishu.fields}
      BY <2>3 DEF ExpireCache, OtherLists, OtherSaves
    <3>2. Typed(cache') /\ Typed(elsewhere')
      BY <3>1, NoneTyped DEF ColumnsTyped
    <3> QED
      BY <2>1, <3>1, <3>2 DEF ColumnsTyped
  <2> QED
    BY <1>2, <2>2, <2>3 DEF Others
<1>3. CASE Saves
  <2>1. step' = At(step.at + 1)
    BY <1>0, <1>3, SavesDo, SavesNext DEF Saved
  <2>2. step'.listed = << >> /\ step'.context = NoContext
    BY <2>1, AtFields DEF Doing
  <2>3. Typed(step'.listed) /\ Typed(step'.context.fields)
    BY <2>2, NoneTyped
  <2>4. CASE Finishes
    BY <2>3, <2>4, FinishKeepsTyped DEF ColumnsTyped
  <2>5. CASE ~Finishes
    BY <1>3, <2>3, <2>5, SavesQuietly DEF ColumnsTyped
  <2> QED
    BY <2>4, <2>5
<1>4. CASE Loading
  <2>1. feishu' = feishu
    BY <1>0, <1>4, LoadingDoes
  <2>2. elsewhere' = elsewhere /\ cache' \in {cache, step.listed}
    BY <1>4 DEF Loading, LoadMock, LoadCached, ListFields, SaveListed, ListFails
  <2>3. step'.listed \in {NoList, feishu.fields}
    BY <1>0, <1>4, LoadingDoes, RestStays DEF Loading
  <2>4. \/ step'.context = step.context
        \/ step'.context.fields \in {feishu.fields, cache, step.listed, << >>}
    BY <1>0, <1>4, LoadingDoes, RestStays DEF Loading, Context
  <2>5. Typed(step'.listed) /\ Typed(step'.context.fields)
    BY <2>3, <2>4, NoneTyped DEF ColumnsTyped
  <2> QED
    BY <2>1, <2>2, <2>5 DEF ColumnsTyped
<1>5. CASE PrepareWrite \/ RefreshList
  <2>1. UNCHANGED << feishu, cache, elsewhere >>
    BY <1>5 DEF PrepareWrite, RefreshList
  <2>2. step'.context = step.context /\ step'.listed \in {step.listed, feishu.fields}
    BY <1>0, <1>5, WritingMoves, RestStays
  <2> QED
    BY <2>1, <2>2 DEF ColumnsTyped
<1>6. CASE StartChange
  <2>1. UNCHANGED << feishu, cache, elsewhere >>
    BY <1>6 DEF StartChange
  <2>2. step'.listed = step.listed /\ step'.context = Validated.context
    BY <1>0, <1>6, WritingMoves, RestStays
  <2>3. AtWriteTool
    BY <1>6, Names7 DEF StartChange, Uses, AtWriteTool
  <2>4. \E k \in ContextKeys \cap DOMAIN artifacts : Validated = artifacts[k]
    BY <1>0, <2>3, ValidatedIs DEF CheckedKey, ContextKeys, RequestKeys
  <2> QED
    BY <2>1, <2>2, <2>4 DEF ColumnsTyped, KeptTyped
<1>7. CASE Send
  <2>1. /\ UNCHANGED << cache, elsewhere >> /\ Writing /\ step.ops # << >>
        /\ Accepts(feishu, Head(step.ops), Backend(Validated.mock)) /\ feishu' = Apply(feishu, Head(step.ops))
    BY <1>7 DEF Send
  <2>2. step'.context = step.context /\ step'.listed = step.listed
    BY <1>0, <1>7, WritingMoves, RestStays
  <2> QED
    BY <2>1, <2>2, SendingKeepsTyped DEF ColumnsTyped
<1> QED
  BY <1>1, <1>2, <1>3, <1>4, <1>5, <1>6, <1>7, FeishuSteps DEF Loading

\* What holds of the columns and of what they are called.
WordsInv == ColumnsTyped /\ KeptTyped /\ DraftWords /\ ChangeWords /\ ActionsTyped

LEMMA WordsStart ==
    ASSUME FeishuInit
    PROVE  LeftToSend /\ WordsInv
<1>1. DOMAIN artifacts = {} /\ feishu = InitialTable /\ cache \in {NoList, F0} /\ elsewhere = NoList /\ step = At(1)
      /\ standing = "new"
  BY DEF FeishuInit, F0
<1>2. Typed(F0) /\ DOMAIN InitialTable = {"fields", "records"}
  BY InitialTableAssumption DEF F0, IsList, Listed, Typed
<1>3. step.listed = << >> /\ step.context = NoContext
  BY <1>1, AtFields DEF Doing
<1>4. ColumnsTyped
  BY <1>1, <1>2, <1>3, NoneTyped DEF ColumnsTyped, F0
<1>5. KeptTyped /\ DraftWords /\ ChangeWords /\ ActionsTyped
  BY <1>1 DEF KeptTyped, DraftWords, ChangeWords, ActionsTyped
<1>6. LeftToSend
  BY <1>1 DEF LeftToSend, AtWriteTool
<1> QED
  BY <1>4, <1>5, <1>6 DEF WordsInv

LEMMA WordsStep ==
    ASSUME SessionInv, LeftToSend, WordsInv, [FeishuNext]_feishuVars
    PROVE  WordsInv'
BY ColumnsTypedStep, KeptTypedStep, DraftWordsStep, ChangeWordsStep, ActionsTypedStep DEF WordsInv, SessionInv

(* No bound is passed: what another worker has still to save it has read   *)
(* while there was room for it.                                            *)

Bounded ==
    /\ meddled \in 0..(MaxMeddling + 1) /\ faults \in 0..MaxFaults
    /\ elsewhere # NoList => meddled <= MaxMeddling

LEMMA BoundedStep ==
    ASSUME Bounded, [FeishuNext]_feishuVars
    PROVE  Bounded'
<1>1. ASSUME UNCHANGED << meddled, elsewhere >>, faults' = faults \/ (faults < MaxFaults /\ faults' = faults + 1)
      PROVE  Bounded'
  BY <1>1, FeishuBounds DEF Bounded
<1>2. ASSUME NEW op, Meddle(op)
      PROVE  Bounded'
  BY <1>2, FeishuBounds DEF Meddle, Bounded
<1>3. CASE ExpireCache \/ OtherLists \/ OtherSaves
  BY <1>3, FeishuBounds DEF ExpireCache, OtherLists, OtherSaves, Bounded
<1>4. CASE Others
  BY <1>2, <1>3, <1>4 DEF Others
<1>5. CASE Ends \/ Invoke \/ Ask \/ UNCHANGED feishuVars
  BY <1>1, <1>5 DEF Ends, AgentFails, MatchFails, Refuse, ValidateRecord, ValidateSchemaChange, Invoke, Ask, feishuVars
<1>6. CASE LoadMock \/ LoadCached \/ ListFields \/ SaveListed \/ ListFails
           \/ PrepareWrite \/ StartChange \/ Send \/ RefreshList
  BY <1>1, <1>6 DEF LoadMock, LoadCached, ListFields, SaveListed, ListFails, PrepareWrite, StartChange, Send, RefreshList
<1>7. CASE RefuseWrite \/ SendRejected \/ SendLost \/ WriteDone \/ RefreshFails \/ RefreshSave
  BY <1>1, <1>7 DEF RefuseWrite, SendRejected, SendLost, WriteDone, RefreshFails, RefreshSave, Finish
<1>8. CASE ReadSchema \/ ParseRecord \/ ParseSchemaChange \/ ParseRecordDraft \/ ReadRecords \/ ReadFails
           \/ MatchRecord \/ ValidateRecord \/ ValidateSchemaChange \/ Confirm
  BY <1>1, <1>8 DEF ReadSchema, ParseRecord, ParseSchemaChange, ParseRecordDraft, ReadRecords, ReadFails,
       MatchRecord, ValidateRecord, ValidateSchemaChange, Confirm
<1> QED
  BY <1>4, <1>5, <1>6, <1>7, <1>8, FeishuSteps DEF Saves

\* Whatever is read, changed and written, by this session and by others, the table's columns are
\* columns, and a session that was invoked stands at a step of its plan or right after the last.
THEOREM SessionsAreTyped == FeishuSpec => []FeishuTypeOK
<1>1. FeishuInit => Bounded
  BY FeishuBounds DEF FeishuInit, Bounded
<1>2. ByPlan /\ WordsInv /\ Bounded => FeishuTypeOK
  <2> SUFFICES ASSUME ByPlan, WordsInv, Bounded PROVE FeishuTypeOK
    OBVIOUS
  <2>1. ToSet(feishu.fields) \subseteq [id : Nat \ {NoId}, name : Names, type : Nat]
    BY DEF WordsInv, ColumnsTyped, Typed, ToSet
  <2>2. /\ job = NoJob \/ job \in Jobs
        /\ standing = "new" \/ step.at \in 1..(Len(Steps) + 1)
        /\ standing \in {"new", "running", "waiting", "success", "failed", "cancelled"}
    BY DEF ByPlan, Standings
  <2> QED
    BY <2>1, <2>2 DEF Bounded, FeishuTypeOK
<1>3. FeishuInit => SessionInv /\ LeftToSend /\ WordsInv
  BY SessionStarts, WordsStart
<1>4. SessionInv /\ LeftToSend /\ WordsInv /\ Bounded /\ [FeishuNext]_feishuVars
      => SessionInv' /\ LeftToSend' /\ WordsInv' /\ Bounded'
  BY SessionStep, LeftToSendStep, WordsStep, BoundedStep DEF SessionInv
<1>5. SessionInv => ByPlan
  BY DEF SessionInv
<1> QED
  BY <1>1, <1>2, <1>3, <1>4, <1>5, PTL DEF FeishuSpec

-----------------------------------------------------------------------------
(* What is sent is what was confirmed.                                     *)

\* A request that got the matched record's id is a request, with the pairs it had.
LEMMA WithRecordIsRequest ==
    ASSUME NEW raw, IsRequest(raw), NEW rid
    PROVE  IsRequest(WithRecord(raw, rid)) /\ WithRecord(raw, rid).pairs = raw.pairs
<1>1. PICK given, pairs, old, conditions, page : raw = RawRequest(given, pairs, old, conditions, page)
  BY DEF IsRequest
<1>2. PICK r : r = [raw EXCEPT !.rid = rid]
  OBVIOUS
<1>3. r = RawRequest(given, pairs, rid, conditions, page)
  BY <1>1, <1>2 DEF RawRequest
<1>4. WithRecord(raw, rid) = [r EXCEPT !.given = @ \cup {"record_id"}]
  BY <1>2 DEF WithRecord
<1>5. PICK more : more = given \cup {"record_id"}
  OBVIOUS
<1>6. PICK explicit : explicit = RawRequest(more, pairs, rid, conditions, page)
  OBVIOUS
<1>7. WithRecord(raw, rid) = explicit
  BY <1>3, <1>4, <1>5, <1>6 DEF RawRequest
<1>8. IsRequest(explicit) /\ explicit.pairs = pairs
  BY <1>6 DEF IsRequest, RawRequest
<1>9. raw.pairs = pairs
  BY <1>1 DEF RawRequest
<1> QED
  BY <1>7, <1>8, <1>9

\* The requests that validation stored have nothing left to be done, in the columns they were
\* checked against, and the operations are theirs.
RequestsSettle ==
    "validation.write_payload" \in DOMAIN artifacts =>
        LET a == artifacts["validation.write_payload"]
        IN  /\ a.ops = Writes(a.requests)
            /\ \A i \in DOMAIN a.requests : SettledRequest(Operation, a.requests[i].fields, a.context.fields)

LEMMA RequestsSettleStep ==
    ASSUME NamesSettle, SessionInv, WordsInv, RequestsSettle, [FeishuNext]_feishuVars
    PROVE  RequestsSettle'
<1> DEFINE k == "validation.write_payload"
<1>0. ByPlan /\ Drafted /\ DraftWords /\ KeptTyped
  BY DEF SessionInv, WordsInv
<1> SUFFICES ASSUME k \in DOMAIN artifacts'
             PROVE  /\ artifacts'[k].ops = [i \in DOMAIN artifacts'[k].requests |->
                                       RecordWrite(Operation', artifacts'[k].requests[i].rid, artifacts'[k].requests[i].fields)]
                    /\ \A i \in DOMAIN artifacts'[k].requests :
                         SettledRequest(Operation', artifacts'[k].requests[i].fields, artifacts'[k].context.fields)
  BY DEF RequestsSettle, Writes
<1>1. job' = job
  BY <1>0, SavesOrKeeps
<1>2. Operation' = Operation
  BY <1>1 DEF Operation
<1>4. CASE k \in DOMAIN artifacts /\ artifacts'[k] = artifacts[k]
  BY <1>2, <1>4 DEF RequestsSettle, Writes
<1>5. CASE Saves /\ k = Current.gives /\ standing' # "failed" /\ \A data : Save(data) => artifacts'[k] = data
  <2>1. ValidateRecord
    BY <1>0, <1>5, Writers
  <2>2. PICK q \in PayloadKeys \cap DOMAIN artifacts : Payload = artifacts[q]
    BY <1>0, <2>1, PayloadIs
  <2>3. PICK raws, defs : raws = Payload.draft.raws /\ defs = Payload.context.fields
    OBVIOUS
  <2>4. PICK requests : requests = Normalized(raws, defs)
    OBVIOUS
  <2>5. PICK item : item = [requests |-> requests, ops |-> Writes(requests),
                            context |-> Payload.context, mock |-> Payload.draft.mock]
    OBVIOUS
  <2>6. Save(item)
    BY <1>5, <2>1, <2>3, <2>4, <2>5 DEF ValidateRecord, Fail
  <2>7. artifacts'[k] = item /\ item.requests = requests /\ item.ops = Writes(requests) /\ item.context.fields = defs
    BY <1>5, <2>3, <2>5, <2>6
  <2>8. DOMAIN requests = DOMAIN raws
    BY <2>4 DEF Normalized
  <2>9. ASSUME NEW i \in DOMAIN raws
        PROVE  SettledRequest(Operation, requests[i].fields, defs)
    <3>1. PICK raw : raw = raws[i]
      OBVIOUS
    <3>2. IsRequest(raw) /\ Numbered(raw.pairs)
      BY <1>0, <2>2, <2>3, <3>1 DEF Drafted, DraftWords
    <3>3. PICK explicit : explicit = Explicit(raw)
      OBVIOUS
    <3>4. explicit = raw \/ \E rid : explicit = WithRecord(raw, rid)
      BY <3>3 DEF Explicit, WithRecord
    <3>5. IsRequest(explicit) /\ Numbered(explicit.pairs)
      BY <3>2, <3>4, WithRecordIsRequest
    <3>6. Typed(defs)
      BY <1>0, <2>2, <2>3 DEF KeptTyped, ContextKeys
    <3>7. requests[i] = NormalizeWriteRequest(Operation, explicit, job.text, defs)
      BY <2>4, <3>1, <3>3 DEF Normalized
    <3> QED
      BY <3>5, <3>6, <3>7, NormalizedSettles
  <2>10. Writes(requests) = [i \in DOMAIN requests |-> RecordWrite(Operation, requests[i].rid, requests[i].fields)]
    BY DEF Writes
  <2> QED
    BY <1>2, <2>7, <2>8, <2>9, <2>10
<1> QED
  BY <1>0, <1>4, <1>5, SavesOrKeeps

\* The user was shown the columns that what is carried out was checked against.
ShownContext ==
    /\ standing = "waiting" =>
         shown.context = artifacts[CheckedKey(Steps[step.at + 1].uses)].context
    /\ AtWriteTool => shown.context = Validated.context

LEMMA ShownContextStep ==
    ASSUME ByPlan, ShownContext, [FeishuNext]_feishuVars
    PROVE  ShownContext'
<1>1. CASE Invoke
  BY <1>1, InvokeClears, NotAtFirst DEF ShownContext
<1>2. CASE Ask
  <2>1. ~AtWriteTool'
    BY <1>2, AskDoes, NotAtWriteTool
  <2> QED
    BY <1>2, <2>1, AskDoes DEF ShownContext
<1>3. CASE Confirm
  <2>1. standing' # "waiting"
    BY <1>3, ConfirmDoes DEF Saved
  <2> QED
    BY <1>3, <2>1, ConfirmDoes DEF ShownContext, Confirm
<1>4. CASE Saves /\ ~Confirm
  <2>1. PICK data : Save(data)
    BY <1>4, SavesDo
  <2>2. standing' # "waiting"
    BY <2>1 DEF Save
  <2> QED
    BY <1>4, <2>2, WritesAfterQuestion DEF ShownContext
<1>5. CASE Ends
  BY <1>5, EndsKeep, NotAtWriteTool DEF ShownContext
<1>6. CASE Others \/ UNCHANGED feishuVars
  <2>1. UNCHANGED << job, step, artifacts, standing, shown, sent >>
    BY <1>6, OthersKeep DEF feishuVars
  <2> QED
    BY <2>1, SameStep DEF ShownContext
<1>7. CASE Loading \/ PrepareWrite \/ StartChange \/ Send \/ RefreshList
  <2>1. standing = "running"
    BY <1>7 DEF Loading, LoadMock, LoadCached, ListFields, SaveListed, ListFails, Loads, PrepareWrite, StartChange,
           Send, Writing, RefreshList, Refreshing, Uses
  <2> QED
    BY <1>7, <2>1, MovingOn, SameStep DEF ShownContext
<1> QED
  BY <1>1, <1>2, <1>3, <1>4, <1>5, <1>6, <1>7, FeishuSteps DEF Loading

\* What a record tool has left to send is what was shown and not yet sent, if it reads the
\* columns the request was checked against.
AsShown ==
    AtWriteTool /\ step.where = "writing" /\ Current.uses # CHANGE_SCHEMA_TOOL /\ step.context = shown.context =>
        \A j \in 1..Len(step.ops) : step.ops[j] = shown.ops[Len(sent) + j]

LEMMA PreparedAsShown ==
    ASSUME SessionInv, RequestsSettle, ShownContext, PrepareWrite, step.context = shown.context
    PROVE  \A j \in 1..Len(step'.ops) : step'.ops[j] = shown.ops[j]
<1>1. AtWriteTool /\ Current.uses # CHANGE_SCHEMA_TOOL
  BY DEF PrepareWrite, Uses, AtWriteTool, RECORD_TOOLS
<1>2. Validated = artifacts["validation.write_payload"] /\ "validation.write_payload" \in DOMAIN artifacts
  BY <1>1, ValidatedIs DEF CheckedKey, SessionInv
<1>3. PICK old, defs : old = Validated.requests /\ defs = step.context.fields
  OBVIOUS
<1>4. /\ shown.ops = Writes(old) /\ defs = Validated.context.fields
      /\ \A i \in DOMAIN old : SettledRequest(Operation, old[i].fields, defs)
  BY <1>1, <1>2, <1>3 DEF AskedFor, SessionInv, ShownContext, RequestsSettle
<1>5. PICK requests : requests = Prepared1(defs)
  OBVIOUS
<1>6. DOMAIN requests = DOMAIN old
  BY <1>3, <1>5 DEF Prepared1
<1>7. ASSUME NEW i \in DOMAIN old
      PROVE  requests[i].rid = old[i].rid /\ requests[i].fields = old[i].fields
  <2>1. PICK request : request = old[i]
    OBVIOUS
  <2>2. requests[i] = NormalizeWriteRequest(Operation, Reread(request), job.text, defs)
    BY <1>3, <1>5, <2>1 DEF Prepared1
  <2> QED
    BY <1>4, <2>1, <2>2, RereadKeeps, RequestTwice
<1>8. Writes(requests) = Writes(old)
  BY <1>6, <1>7 DEF Writes
<1>9. step'.ops = Writes(requests)
  BY <1>3, <1>5, WritingMoves DEF SessionInv
<1> QED
  BY <1>4, <1>8, <1>9

LEMMA AsShownStep ==
    ASSUME SessionInv, RequestsSettle, ShownContext, AsShown, [FeishuNext]_feishuVars
    PROVE  AsShown'
<1>1. ByPlan /\ SentRight /\ AskedFor
  BY DEF SessionInv
<1>2. CASE Invoke \/ Ask \/ Ends
  BY <1>1, <1>2, NotAtFirst, AskDoes, EndsKeep, NotAtWriteTool DEF AsShown
<1>3. CASE Saves
  <2>1. step' = At(step.at + 1)
    BY <1>1, <1>3, SavesDo, SavesNext DEF Saved
  <2> QED
    BY <2>1, AtFields DEF AsShown
<1>4. CASE Others \/ UNCHANGED feishuVars
  <2>1. UNCHANGED << job, step, artifacts, standing, shown, sent >>
    BY <1>4, OthersKeep DEF feishuVars
  <2> QED
    BY <2>1, SameStep DEF AsShown
<1>5. CASE Loading \/ RefreshList
  <2>1. step'.where # "writing"
    BY <1>1, <1>5, LoadingDoes, WritingMoves DEF Loading, MovesTo
  <2> QED
    BY <2>1 DEF AsShown
<1>6. CASE PrepareWrite
  <2>1. UNCHANGED << shown, sent >>
    BY <1>6, <1>1, MovingOn DEF PrepareWrite
  <2>2. AtWriteTool /\ step.where = "loaded"
    BY <1>6 DEF PrepareWrite, Uses, AtWriteTool, RECORD_TOOLS
  <2>3. sent = << >>
    BY <1>1, <2>2 DEF SentRight
  <2>4. Len(sent') = 0
    BY <2>1, <2>3, NoneListed
  <2>5. PICK ops : ops = step'.ops
    OBVIOUS
  <2>6. Listed(ops)
    BY <1>1, <1>6, <2>5, SendingRecords DEF SessionInv
  <2>7. \A j \in 1..Len(ops) : 0 + j = j
    BY <2>6, ListFacts
  <2>8. step'.context = step.context
    BY <1>1, <1>6, WritingMoves
  <2>9. step.context = shown.context => \A j \in 1..Len(ops) : ops[j] = shown.ops[j]
    BY <1>6, <2>5, PreparedAsShown
  <2> QED
    BY <2>1, <2>4, <2>5, <2>7, <2>8, <2>9 DEF AsShown
<1>7. CASE StartChange
  <2>1. Current' = Current /\ Current.uses = CHANGE_SCHEMA_TOOL
    BY <1>1, <1>7, MovingOn, SameStep DEF StartChange, Uses
  <2> QED
    BY <2>1 DEF AsShown
<1>8. CASE Send
  <2>1. UNCHANGED << shown >> /\ step'.ops = Tail(step.ops) /\ Current' = Current /\ step'.context = step.context
    BY <1>1, <1>8, MovingOn, WritingMoves, SameStep
  <2>2. Writing /\ AtWriteTool /\ step.where = "writing" /\ step.ops # << >> /\ sent' = Sent(TRUE)
    BY <1>8 DEF Send, Writing, Uses, AtWriteTool
  <2>3. Len(sent') = Len(sent) + 1 /\ Len(sent) \in Nat
    BY <2>2, SentMore
  <2>4. Listed(step.ops)
    BY <1>1, <2>2 DEF SentRight
  <2>5. /\ Listed(Tail(step.ops)) /\ Len(Tail(step.ops)) = Len(step.ops) - 1
        /\ \A j \in 1..Len(Tail(step.ops)) : Tail(step.ops)[j] = step.ops[j + 1]
        /\ Len(step.ops) \in Nat /\ Len(Tail(step.ops)) \in Nat
    BY <2>2, <2>4, ListRest, ListFacts
  <2>6. ASSUME NEW j \in 1..Len(Tail(step.ops))
        PROVE  /\ j + 1 \in 1..Len(step.ops) /\ Len(sent) + (j + 1) = Len(sent) + 1 + j
               /\ Tail(step.ops)[j] = step.ops[j + 1]
    BY <2>3, <2>5
  <2>7. ASSUME Current.uses # CHANGE_SCHEMA_TOOL, step.context = shown.context, NEW j \in 1..Len(Tail(step.ops))
        PROVE  Tail(step.ops)[j] = shown.ops[Len(sent) + 1 + j]
    BY <2>2, <2>6, <2>7 DEF AsShown
  <2> QED
    BY <2>1, <2>3, <2>7 DEF AsShown
<1> QED
  BY <1>2, <1>3, <1>4, <1>5, <1>6, <1>7, <1>8, FeishuSteps DEF Loading

\* What was sent is what was shown, as far as it was sent in the columns that were shown.
SentAsShown ==
    /\ Listed(sent) /\ Listed(shown.ops) /\ Len(sent) <= Len(shown.ops)
    /\ \A i \in DOMAIN sent : sent[i].context = shown.context => sent[i].op = shown.ops[i]

LEMMA SentAsShownStep ==
    ASSUME SessionInv, LeftToSend, AsShown, SentAsShown, [FeishuNext]_feishuVars
    PROVE  SentAsShown'
<1>1. ByPlan /\ SentRight /\ AskedFor /\ CheckedRecords /\ CheckedChange
  BY DEF SessionInv
<1>2. CASE Invoke
  <2>1. sent' = << >> /\ shown'.ops = << >>
    BY <1>1, <1>2, InvokeClears DEF NothingShown
  <2>2. Listed(shown'.ops) /\ Len(shown'.ops) \in Nat /\ Len(sent') = 0 /\ Listed(sent') /\ DOMAIN sent' = {}
    BY <2>1, NoneListed, ListFacts DEF SentAsShown
  <2> QED
    BY <2>2 DEF SentAsShown
<1>3. CASE Ask
  <2> DEFINE next == Steps[step.at + 1]
  <2>1. Going /\ Current.kind = "confirm"
    BY <1>3 DEF Ask, Going
  <2>2. CheckedKey(next.uses) \in DOMAIN artifacts
    BY <1>1, <2>1, AsksAboutNext
  <2>3. PICK ops : ops = artifacts[CheckedKey(next.uses)].ops
    OBVIOUS
  <2>4. Listed(ops)
    BY <1>1, <2>2, <2>3 DEF CheckedKey, CheckedRecords, CheckedChange
  <2>5. sent' = << >> /\ shown'.ops = ops
    BY <1>1, <1>3, <2>3, AskDoes
  <2>6. Len(ops) \in Nat /\ Len(sent') = 0 /\ Listed(sent') /\ DOMAIN sent' = {}
    BY <2>4, <2>5, NoneListed, ListFacts
  <2> QED
    BY <2>4, <2>5, <2>6 DEF SentAsShown
<1>4. CASE ~Invoke /\ ~Ask /\ sent' = sent
  <2>1. shown' = shown
    BY <1>1, <1>4, ShownKept
  <2> QED
    BY <1>4, <2>1 DEF SentAsShown
<1>5. ASSUME ~Invoke, ~Ask, Writing, step.ops # << >>, NEW done \in BOOLEAN, sent' = Sent(done)
      PROVE  SentAsShown'
  <2>1. shown' = shown
    BY <1>1, <1>5, ShownKept
  <2>2. AtWriteTool /\ step.where = "writing"
    BY <1>5 DEF Writing, Uses, AtWriteTool
  <2>3. Listed(step.ops) /\ Len(step.ops) + Len(sent) = Len(shown.ops)
    BY <1>1, <2>2 DEF SentRight
  <2>4. Len(step.ops) \in Nat /\ Len(step.ops) # 0 /\ Head(step.ops) = step.ops[1] /\ Len(shown.ops) \in Nat
    BY <1>5, <2>3, ListFacts, ListRest DEF SentAsShown
  <2>5. PICK x : x = [op |-> Head(step.ops), backend |-> Backend(Validated.mock),
                      context |-> step.context, done |-> done]
    OBVIOUS
  <2>6. /\ Listed(sent') /\ Len(sent') = Len(sent) + 1 /\ Len(sent) \in Nat
        /\ \A i \in 1..Len(sent) : sent'[i] = sent[i]
        /\ sent'[Len(sent) + 1] = x
        /\ DOMAIN sent' = 1..(Len(sent) + 1) /\ DOMAIN sent = 1..Len(sent)
    BY <1>5, <2>5, SentMore
  <2>7. Len(sent') <= Len(shown'.ops)
    BY <2>1, <2>3, <2>4, <2>6
  <2>8. 1 \in 1..Len(step.ops)
    BY <2>4
  <2>9. step.context = shown.context => step.ops[1] = shown.ops[Len(sent) + 1]
    BY <2>2, <2>8 DEF AsShown, LeftToSend
  <2>10. x.context = shown.context => x.op = shown.ops[Len(sent) + 1]
    BY <2>4, <2>5, <2>9
  <2>11. ASSUME NEW i \in DOMAIN sent', sent'[i].context = shown.context
         PROVE  sent'[i].op = shown.ops[i]
    <3>1. CASE i = Len(sent) + 1
      BY <2>6, <2>10, <2>11, <3>1
    <3>2. CASE i # Len(sent) + 1
      <4>1. i \in DOMAIN sent /\ sent'[i] = sent[i]
        BY <2>6, <2>11, <3>2
      <4> QED
        BY <2>11, <4>1 DEF SentAsShown
    <3> QED
      BY <3>1, <3>2
  <2> QED
    BY <2>1, <2>6, <2>7, <2>11 DEF SentAsShown
<1> QED
  BY <1>2, <1>3, <1>4, <1>5, SendsOrNot

LEMMA SentConfirmed ==
    ASSUME SentAsShown
    PROVE  WritesAsConfirmed
<1>1. SUFFICES ASSUME \A i \in DOMAIN sent : sent[i].context = shown.context
      PROVE  IsPrefix([i \in DOMAIN sent |-> sent[i].op], shown.ops)
  BY DEF WritesAsConfirmed
<1>2. PICK n, m : n = Len(sent) /\ m = Len(shown.ops)
  OBVIOUS
<1>3. n \in Nat /\ m \in Nat /\ n <= m /\ DOMAIN sent = 1..n /\ Listed(shown.ops) /\ DOMAIN shown.ops = 1..m
  BY <1>2, ListFacts DEF SentAsShown
<1>4. PICK ops : ops = [i \in DOMAIN sent |-> sent[i].op]
  OBVIOUS
<1>5. ops = [i \in 1..n |-> ops[i]]
  BY <1>3, <1>4
<1>6. Listed(ops) /\ Len(ops) = n
  BY <1>3, <1>5, ListMade
<1>7. \A i \in 1..n : ops[i] = shown.ops[i]
  BY <1>1, <1>3, <1>4 DEF SentAsShown
<1>8. PICK S : ops \in Seq(S)
  BY <1>6 DEF Listed
<1>9. PICK T : shown.ops \in Seq(T)
  BY <1>3 DEF Listed
<1>10. SubSeq(ops, 1, n) = [i \in 1..n |-> ops[i]]
  BY <1>3, <1>6, <1>8, SubSeqProperties
<1>11. SubSeq(shown.ops, 1, n) = [i \in 1..n |-> shown.ops[i]]
  BY <1>2, <1>3, <1>9, SubSeqProperties
<1>12. SubSeq(ops, 1, n) = SubSeq(shown.ops, 1, n)
  BY <1>7, <1>10, <1>11
<1> QED
  BY <1>2, <1>3, <1>4, <1>6, <1>12 DEF IsPrefix

\* What a tool sends is what the user was shown, operation by operation, if the columns it read
\* are those the request was validated against: normalizing a request twice changes nothing,
\* however a model filled it in, if the field name map never leads on from its own results.
THEOREM WhatWasConfirmedIsSent ==
    ASSUME NamesSettle
    PROVE  FeishuSpec => []WritesAsConfirmed
<1>1. FeishuInit => /\ SessionInv /\ LeftToSend /\ WordsInv /\ RequestsSettle /\ ShownContext /\ AsShown
                    /\ SentAsShown
  <2>1. FeishuInit => DOMAIN artifacts = {} /\ sent = << >> /\ shown = NothingShown /\ standing = "new"
    BY DEF FeishuInit
  <2>2. FeishuInit => RequestsSettle /\ ShownContext /\ AsShown
    BY <2>1 DEF RequestsSettle, ShownContext, AsShown, AtWriteTool
  <2>3. FeishuInit => SentAsShown
    BY <2>1, NoneListed DEF SentAsShown, NothingShown
  <2> QED
    BY <2>2, <2>3, SessionStarts, WordsStart
<1>2. /\ SessionInv /\ LeftToSend /\ WordsInv /\ RequestsSettle /\ ShownContext /\ AsShown
      /\ SentAsShown /\ [FeishuNext]_feishuVars
      => /\ SessionInv' /\ LeftToSend' /\ WordsInv' /\ RequestsSettle' /\ ShownContext' /\ AsShown'
         /\ SentAsShown'
  BY SessionStep, LeftToSendStep, WordsStep, RequestsSettleStep, ShownContextStep, AsShownStep, SentAsShownStep
     DEF SessionInv
<1>3. SentAsShown => WritesAsConfirmed
  BY SentConfirmed
<1> QED
  BY <1>1, <1>2, <1>3, PTL DEF FeishuSpec
=============================================================================
