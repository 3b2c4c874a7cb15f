----------------------------- MODULE MCServices -----------------------------
(***************************************************************************)
(* The parts that do not share state with each other, checked in one run:  *)
(* subject says which of them moves, the others keep their initial state.  *)
(***************************************************************************)
EXTENDS FeishuStep, LlmRoutes, NewsFocus, Points, TLC

VARIABLE subject

(* A table of two columns and two records, and what is asked of it.        *)

MCNames == {"title", "task", "memo", "note", "padded"}
MCCanonical == [n \in MCNames |-> IF n = "task" THEN "title" ELSE n]
MCFieldNameMap == "memo" :> "note"
MCStripped == [n \in MCNames |-> IF n = "padded" THEN "note" ELSE n]
\* What WhatWasConfirmedIsSent asks for holds here.
ASSUME SettledNamesAssumption == NamesSettle

plain == [form |-> "text", content |-> "plain"]
other == [form |-> "text", content |-> "truth"]
digits == [form |-> "text", content |-> "digits"]
number == [form |-> "number", content |-> "digits"]

MCInitialTable ==
    [fields |-> << [id |-> 1, name |-> "task", type |-> 1], [id |-> 2, name |-> "note", type |-> 2] >>,
     records |-> 1 :> ("task" :> plain @@ "note" :> number) @@ 2 :> ("task" :> other @@ "note" :> number)]

Pair(n, v) == [name |-> n, value |-> v]
ByTask(v) == {[field |-> "task", op |-> "is", value |-> v]}
One(raw, mock) == Draft(<< raw >>, FALSE, mock)
MCDrafts ==
    {One(RawRequest({"fields", "lookup"}, << Pair("title", plain), Pair("memo", digits) >>, NoRecord, ByTask(plain), 0), TRUE),
     One(RawRequest({"fields", "record_id"}, << Pair("task", plain) >>, 2, {}, 0), TRUE),
     One(RawRequest({"fields"}, << Pair("task", plain) >>, NoRecord, {}, 0), FALSE),
     Draft(<< RawRequest({"fields"}, << Pair("task", plain) >>, NoRecord, {}, 0),
              RawRequest({"fields"}, << Pair("padded", digits) >>, NoRecord, {}, 0) >>, TRUE, TRUE),
     Draft(<< RawRequest({"fields"}, << Pair("task", plain) >>, NoRecord, {}, 0),
              RawRequest({"fields"}, << Pair("note", plain) >>, NoRecord, {}, 0) >>, TRUE, TRUE)}

Create(name, type, options) == RawAction("add_field", NoId, NoName, name, NoName, type, options)
Rename(source, name) == RawAction("rename_field", NoId, source, name, NoName, Untyped, "none")
Drop(name) == RawAction("delete_field", NoId, NoName, name, NoName, Untyped, "none")
MCChangeDrafts ==
    {[raws |-> << Create("title", 1, "none") >>, mock |-> TRUE],
     [raws |-> << Create("memo", 3, "good"), Create("memo", 1, "none") >>, mock |-> TRUE],
     [raws |-> << Rename("task", "title"), Create("task", 1, "none") >>, mock |-> TRUE],
     [raws |-> << Drop("note"), Rename("task", "note") >>, mock |-> TRUE],
     [raws |-> << Drop("note"), RawAction("update_field", 2, NoName, NoName, "title", 2, "none") >>, mock |-> TRUE],
     [raws |-> << Create("title", 1, "none") >>, mock |-> FALSE]}

Ask0(renames, deletes, creates) == [renames |-> renames, deletes |-> deletes, creates |-> creates]
Job(t, real, llm, text, asked, deletes) ==
    [template |-> t, real |-> real, llm |-> llm, text |-> text, asked |-> asked, deletes |-> deletes]
says == Text("task" :> plain @@ "memo" :> digits, << >>, NoRecord)
sets == Text("task" :> plain, "note" :> digits, 1)
MCAsked == Ask0(<< Rename("task", "title") >>, << >>, << Create("memo", 1, "none"), Create("title", 1, "none") >>)
MCJobs ==
    {Job(t, real, TRUE, says, NothingAsked, TRUE) : t \in RecordTemplates \cup {"change_schema", "change_schema_then_create_record"}, real \in BOOLEAN}
    \cup {Job(t, real, FALSE, says, MCAsked, FALSE) : t \in {"create_record", "change_schema_then_create_record", "read_records", "record_draft"}, real \in {TRUE}}
    \cup {Job(t, FALSE, FALSE, sets, NothingAsked, FALSE) : t \in {"update_record", "delete_record"}}
MCMeddlings == {Action("create_field", NoId, "title", 1), Action("update_field", 1, "title", 1),
   Action("delete_field", 2, "note", 2), RecordWrite("delete_record", 1, << >>)}

(* Providers of language models, and how calls to them fail.              *)
Rt(mode, probing, names, ready, samples, needed) ==
   [mode |-> mode, probing |-> probing, names |-> names, ready |-> ready, samples |-> samples, needed |-> needed]
both == << "deepseek", "unknown", "deepseek", "minimax" >>
MCRouteConfigs ==
  {Rt("auto", TRUE, << "deepseek" >>, {"openai", "deepseek"}, 1, 2),
   Rt("auto", FALSE, both, {"openai", "minimax"}, 0, 0),
   Rt("auto", TRUE, both, {"minimax"}, 2, 1),
   Rt("domestic", TRUE, both, {"deepseek", "minimax"}, 0, 0),
   Rt("primary", TRUE, both, {"openai"}, 0, 0),
   Rt("auto", TRUE, << >>, {}, 0, 0)}
MCFailures == {[code |-> 0, classes |-> {}, texts |-> {"timeout"}],
               [code |-> 0, classes |-> {"ratelimit"}, texts |-> {"connection"}],
               [code |-> 401, classes |-> {}, texts |-> {}]}

(* Feeds.                                                                  *)
Entry(id, url, key, at, words) == [id |-> id, url |-> url, key |-> key, at |-> at, words |-> words, labels |-> {}]
MCFeeds ==
  "chinanews" :> << Entry("c1", "u1", "k1", 4000, {"election"}) >>
  @@ "tech" :> << Entry("t0", "none", "k4", 4100, {"model"}), Entry("t1", "u3", "k1", 3300, {}), Entry("t2", "u4", "k3", 3200, {}) >>
Outline(feed, host, labels) == [feed |-> feed, host |-> host, labels |-> labels]
MCDocuments == << << Outline("chinanews", "example.com", {"news"}), Outline("talks", "example.com", {"podcast"}),
                    Outline("tech", "example.com", {"programming"}), Outline("mirror", "rsshub", {"news"}), Outline("tech", "example.com", {"news"}) >> >>

(* Two who are bound, and three who are not.                               *)
MCPersons == {"ann", "bob", "cid"}
Start(bound, rw) == [spent |-> IF bound = << >> THEN 0 ELSE 1, bindings |-> bound, views |-> [p \in MCPersons |-> IF bound = << >> THEN "user" ELSE "bound_admin"], rewards |-> rw]
MCStarts == {Start(<< >>, << >>), Start(<< "ann", "bob" >> :> "active" @@ << "bob", "ann" >> :> "active", "film" :> [owner |-> "ann", status |-> "active"])}
MCRecordOwner == "day" :> "ann"
MCCost == "film" :> 10 @@ "tea" :> 5

-----------------------------------------------------------------------------
Init == /\ subject \in {"feishu", "routes", "news", "couple"}
        /\ FeishuInit /\ RouteInit /\ NewsInit /\ CoupleInit
        /\ subject # "feishu" => cache = NoList

FeishuMoves == subject = "feishu" /\ FeishuNext /\ UNCHANGED << subject, routeVars, newsVars, coupleVars >>
RoutesMove == subject = "routes" /\ RouteNext /\ UNCHANGED << subject, feishuVars, newsVars, coupleVars >>
NewsMoves == subject = "news" /\ NewsNext /\ UNCHANGED << subject, feishuVars, routeVars, coupleVars >>
CoupleMoves == subject = "couple" /\ CoupleNext /\ UNCHANGED << subject, feishuVars, routeVars, newsVars >>
Next == FeishuMoves \/ RoutesMove \/ NewsMoves \/ CoupleMoves
Spec == Init /\ [][Next]_<< subject, feishuVars, routeVars, newsVars, coupleVars >>

TypeOK == FeishuTypeOK /\ RouteTypeOK /\ NewsTypeOK /\ CoupleTypeOK
=============================================================================
