----------------------------- MODULE NewsFocus -----------------------------
(***************************************************************************)
(* The daily news everybody shares.  third/news_focus collects headlines   *)
(* from a catalogue of feeds, groups them and has a model choose; the      *)
(* backend's newsfocus package asks for that once a day, by its scheduler  *)
(* or by a second container started to catch up (docs/future/03), stores   *)
(* the day's edition, and remembers for a week what it has shown.          *)
(*                                                                         *)
(* Time is counted in minutes of Shanghai, where the days are.  Words of   *)
(* a text are members of a set, and of each keyword list only a word or    *)
(* two is kept; which list is looked at first is what counts.              *)
(***************************************************************************)
EXTENDS Integers, SequencesExt

CONSTANTS
    Refreshers,      \* who asks: the scheduler, a catch-up container
    Documents,       \* the OPML documents: a sequence of sequences of [feed, host, labels]
    Feeds,           \* feed -> its entries, [id, url, key, at, words, labels], newest first
    Zones,           \* where else it may be, in minutes: the containers set no zone, so UTC
    MorningOf,       \* the minute it all begins
    Waits,           \* how far time may go on at once
    LastMinute,      \* bound: the clock
    MaxRefreshes     \* bound: refreshes begun

Day == 1440
ASSUME TimeAssumption == MorningOf \in Nat /\ Waits \subseteq Nat /\ Zones \subseteq 0..Day
ASSUME NewsBounds == LastMinute \in Nat /\ MorningOf <= LastMinute /\ MaxRefreshes \in Nat
ASSUME FeedsAssumption == \A feed \in DOMAIN Feeds : Feeds[feed] \in Seq(ToSet(Feeds[feed]))

VARIABLES
    minute,     \* now
    zone,       \* how many minutes the backend's local time is behind Shanghai's
    catalog,    \* Redis: the catalogue's snapshot, feed -> labels
    health,     \* Redis: feed -> [failures, retry, expires]
    runs,       \* NEWS_FOCUS_RUN and _ITEM: date -> [status, items], items: category -> sequence
    remembered, \* NEWS_FOCUS_SEEN: fingerprint -> the local time it was seen
    refresher,  \* what each refresh is doing, see Resting
    refreshes,  \* how many were begun
    late        \* ghost: whether an edition was published later than on its day

newsVars == << minute, zone, catalog, health, runs, remembered, refresher, refreshes, late >>

DateOf(t) == t \div Day
CATEGORY_ORDER == << "ai", "china_focus", "news", "open_source" >>
Categories == ToSet(CATEGORY_ORDER)
MAX_PER_FEED == 3
MAX_LLM_CANDIDATES_PER_CATEGORY == 20
MAX_ITEMS_PER_CATEGORY == 5
PRIMARY_HOURS == 24
FALLBACK_HOURS == 72
\* rows[:n]
UpTo(s, n) == SubSeq(s, 1, IF Len(s) < n THEN Len(s) ELSE n)
None == [status |-> "none", items |-> [c \in Categories |-> << >>]]

-----------------------------------------------------------------------------
(* third/news_focus/catalog.py                                             *)

CHINA_FOCUS_SOURCES == {"chinanews"}
source_is_allowed(o) ==
    /\ o.host \notin {"none", "rsshub", "nytimes.com"}
    /\ o.labels \cap {"podcast", "sports"} = {}

\* import_snapshot: of several documents with a feed the first is kept, and the fixed sources'
\* labels go before all.
Imported(reached) ==
    LET outlines == FlattenSeq([d \in DOMAIN Documents |->
                        SelectSeq(IF d \in reached THEN Documents[d] ELSE << >>, source_is_allowed)])
        First(feed) == outlines[Min({k \in DOMAIN outlines : outlines[k].feed = feed})]
    IN  [feed \in {o.feed : o \in ToSet(outlines)} \cup CHINA_FOCUS_SOURCES |->
           IF feed \in CHINA_FOCUS_SOURCES THEN {"china_focus"} ELSE First(feed).labels]

-----------------------------------------------------------------------------
(* third/news_focus/service.py: headlines.                                 *)

\* PublicNewsCollector._entries: of the first few, those with a date, a link and a title.
Entries(feed, labels) ==
    LET shortened == UpTo(Feeds[feed], MAX_PER_FEED)
        Whole(e) == e.at # 0 /\ e.url # "none" /\ e.key # "none"
    IN  {[e EXCEPT !.labels = labels] : e \in {e \in ToSet(shortened) : Whole(e)}}

\* The newest first; of the same minute any may be the first.
NewestFirst(entries) ==
    {s \in [1..Cardinality(entries) -> entries] :
        \A i, j \in DOMAIN s : i < j => s[i] # s[j] /\ s[i].at >= s[j].at}

\* One after the other, those of s that are wanted and like none that was taken before.
Picked(s, wanted, alike) ==
    LET picked[n \in 0..Len(s)] ==
          IF n = 0 THEN << >>
          ELSE LET before == picked[n - 1]
               IN  IF s[n] \in wanted /\ \A e \in ToSet(before) : << e, s[n] >> \notin alike
                     THEN Append(before, s[n]) ELSE before
    IN  picked[Len(s)]

\* filter_candidates, of sorted entries.  What is dated in the future passes.
Filtered(sorted, now, recent) ==
    LET fresh == {e \in ToSet(sorted) : e.at >= now - FALLBACK_HOURS * 60 /\ e.key \notin recent}
    IN  Picked(sorted, fresh, {p \in fresh \X fresh : p[1].url = p[2].url \/ p[1].key = p[2].key})

\* classify_candidate
Category(e) ==
    IF "china_focus" \in e.labels THEN "china_focus"
    ELSE IF "election" \in e.words THEN "none"
    ELSE IF "model" \in e.words \cup e.labels THEN "ai"
    ELSE IF "github" \in e.words \/ "programming" \in e.labels THEN "open_source"
    ELSE IF "report" \in e.words \/ {"news", "country"} \cap e.labels # {} THEN "news"
    ELSE "none"

\* group_candidates: today's headlines first, then older ones.
Grouped(sorted, now, recent) ==
    LET filtered == Filtered(sorted, now, recent)
        current == {e \in ToSet(filtered) : e.at >= now - PRIMARY_HOURS * 60}
        Of(c) == {e \in ToSet(filtered) : Category(e) = c}
    IN  [c \in Categories |->
           UpTo(Picked(filtered, Of(c) \cap current, {}) \o Picked(filtered, Of(c) \ current, {}),
                MAX_LLM_CANDIDATES_PER_CATEGORY)]

\* select_ranked_items: rows of another id are dropped, and all but the first of a topic.
Selected(candidates, rows) ==
    LET Named(row) == {e \in ToSet(candidates) : e.id = row.id}
        known == {row \in ToSet(rows) : Named(row) # {}}
        byTopic == Picked(rows, known, {p \in known \X known : p[1].topic = p[2].topic})
    IN  UpTo([k \in DOMAIN byTopic |-> CHOOSE e \in Named(byTopic[k]) : TRUE], MAX_ITEMS_PER_CATEGORY)

\* What a model may answer: all of them in order, or the first twice, under two topics, and one
\* it was not given.
Rows(candidates, twice) ==
    LET Row(e, topic) == [id |-> e.id, topic |-> topic]
    IN  IF candidates = << >> THEN << >>
        ELSE IF twice THEN << Row(candidates[1], 1), Row(candidates[1], 2), [id |-> "other", topic |-> 3] >>
        ELSE [k \in DOMAIN candidates |-> Row(candidates[k], k)]

-----------------------------------------------------------------------------
(* Feeds that fail rest for a while: NewsFocusStateStore.                  *)

Known(feed) == feed \in DOMAIN health /\ health[feed].expires > minute
source_available(feed, now) == Known(feed) => health[feed].retry <= now
Forgotten(feed) == [f \in DOMAIN health \ {feed} |-> health[f]]
\* Fault: the first failure is not counted.
FailuresFromZero(feed) == IF Known(feed) THEN health[feed].failures + 1 ELSE 0
FailuresOf(feed) == IF Known(feed) THEN health[feed].failures + 1 ELSE 1
source_failed(feed, now) ==
    LET failures == FailuresOf(feed)
        doubled == 5 * 2 ^ (IF failures - 2 < 8 THEN failures - 2 ELSE 8)
        wait == IF doubled < 12 * 60 THEN doubled ELSE 12 * 60
    IN  [f \in DOMAIN health \cup {feed} |->
           IF f # feed THEN health[f]
           ELSE [failures |-> failures, retry |-> IF failures < 2 THEN 0 ELSE now + wait,
                 expires |-> minute + Day]]

-----------------------------------------------------------------------------
(* NewsFocusService.refresh, and the request it sends to third.            *)

\* date: the day refreshed.  recent: the fingerprints sent along.  from: when third began.
\* sources: the catalogue used.  asked, found: feeds asked, what they gave.
\* edition: third's answer.  existing: the day's status, once it is read to record a failure.
Resting == [at |-> "rest", date |-> 0, recent |-> {}, from |-> 0, sources |-> << >>,
            asked |-> {}, found |-> {}, edition |-> << >>, existing |-> "unread"]

NewsInit ==
    /\ minute = MorningOf
    /\ zone = 0
    /\ catalog = << >> /\ health = << >>
    /\ runs = << >> /\ remembered = << >>
    /\ refresher = [r \in Refreshers |-> Resting]
    /\ refreshes = 0 /\ late = FALSE

Local(t) == t - zone
\* recentFingerprintsBefore: of the week before the date's first minute, by the stored local time.
\* Fault: the week ends a day early.
RecentBeforeYesterday(date) ==
    {k \in DOMAIN remembered : remembered[k] >= (date - 7) * Day /\ remembered[k] < (date - 1) * Day}
recentFingerprintsBefore(date) ==
    {k \in DOMAIN remembered : remembered[k] >= (date - 7) * Day /\ remembered[k] < date * Day}

SetZone ==
    /\ refreshes = 0 /\ zone = 0
    /\ zone' \in Zones
    /\ UNCHANGED << minute, catalog, health, runs, remembered, refresher, refreshes, late >>

Turns(r, next) == refresher' = [refresher EXCEPT ![r] = next]
BeginRefresh(r) ==
    /\ refresher[r].at = "rest" /\ refreshes < MaxRefreshes
    /\ refreshes' = refreshes + 1
    /\ Turns(r, [Resting EXCEPT !.at = "catalog", !.date = DateOf(minute), !.from = minute,
                                !.recent = recentFingerprintsBefore(DateOf(minute))])
    /\ UNCHANGED << minute, zone, catalog, health, runs, remembered, late >>

\* PublicNewsCollector.collect: all feeds are asked at once, but for those that rest, by the time
\* third began.
Collects(r, sources) ==
    Turns(r, [refresher[r] EXCEPT !.at = "collect", !.sources = sources,
                  !.asked = {feed \in DOMAIN sources : source_available(feed, refresher[r].from)}])
UseCatalog(r) ==
    /\ refresher[r].at = "catalog" /\ catalog # << >>
    /\ Collects(r, catalog)
    /\ UNCHANGED << minute, zone, catalog, health, runs, remembered, refreshes, late >>
\* The fixed sources are there even if no document can be fetched.
ImportCatalog(r) ==
    /\ refresher[r].at = "catalog" /\ catalog = << >>
    /\ \E reached \in SUBSET DOMAIN Documents :
         /\ catalog' = Imported(reached)
         /\ Collects(r, Imported(reached))
    /\ UNCHANGED << minute, zone, health, runs, remembered, refreshes, late >>

FeedAnswers(r, feed) ==
    /\ feed \in refresher[r].asked
    /\ Turns(r, [refresher[r] EXCEPT !.asked = @ \ {feed},
                     !.found = @ \cup Entries(feed, refresher[r].sources[feed])])
    /\ health' = Forgotten(feed)
    /\ UNCHANGED << minute, zone, catalog, runs, remembered, refreshes, late >>
FeedFails(r, feed) ==
    /\ feed \in refresher[r].asked
    /\ Turns(r, [refresher[r] EXCEPT !.asked = @ \ {feed}])
    /\ health' = source_failed(feed, refresher[r].from)
    /\ UNCHANGED << minute, zone, catalog, runs, remembered, refreshes, late >>

\* The model's choice, one answer per category; an answer that is not the JSON it should be leaves
\* its category empty.  Nothing to choose from is an empty edition, nothing chosen an error.
Items(edition) == UNION {ToSet(edition[c]) : c \in DOMAIN edition}
Edition(grouped, silent, twice) ==
    [c \in Categories |-> IF c \in silent THEN << >> ELSE Selected(grouped[c], Rows(grouped[c], twice))]
Choose(r) ==
    LET me == refresher[r] IN
    /\ me.at = "collect" /\ me.asked = {}
    /\ \E sorted \in NewestFirst(me.found) :
         LET grouped == Grouped(sorted, me.from, me.recent)
         IN  \E silent \in SUBSET {c \in Categories : grouped[c] # << >>}, twice \in BOOLEAN :
             LET edition == Edition(grouped, silent, twice)
             IN  Turns(r, [Resting EXCEPT !.date = me.date, !.edition = edition,
                    !.at = IF Items(edition) # {} THEN "publish"
                           ELSE IF Items(grouped) = {} THEN "empty" ELSE "failed"])
    /\ UNCHANGED << minute, zone, catalog, health, runs, remembered, refreshes, late >>

\* saveSuccess, one transaction: the day's edition is replaced, what it shows is remembered, and
\* what is older than yesterday, or than a week, is dropped.
Publish(r) ==
    LET me == refresher[r]
        shown == {e.key : e \in Items(me.edition)}
        stamped == [k \in DOMAIN remembered \cup shown |->
                      IF k \in shown THEN Local(minute) ELSE remembered[k]]
        days == {d \in DOMAIN runs \cup {me.date} : d >= me.date - 1}
    IN  /\ me.at = "publish"
        /\ runs' = [d \in days |-> IF d = me.date THEN [status |-> "ready", items |-> me.edition] ELSE runs[d]]
        /\ remembered' = [k \in {k \in DOMAIN stamped : stamped[k] >= Local(minute) - 7 * Day} |-> stamped[k]]
        /\ Turns(r, Resting)
        /\ late' = (late \/ DateOf(minute) # me.date)
        /\ UNCHANGED << minute, zone, catalog, health, refreshes >>

\* recordEmpty and recordFailure: the day's row is read, and a moment later it is written.  A third
\* that cannot be reached or answers with an error is a failure, too.
Unreachable(r) ==
    /\ refresher[r].at = "catalog"
    /\ Turns(r, [Resting EXCEPT !.at = "failed", !.date = refresher[r].date])
    /\ UNCHANGED << minute, zone, catalog, health, runs, remembered, refreshes, late >>
RunOf(date) == IF date \in DOMAIN runs THEN runs[date] ELSE None
ReadRun(r) ==
    /\ refresher[r].at \in {"empty", "failed"} /\ refresher[r].existing = "unread"
    /\ Turns(r, [refresher[r] EXCEPT !.existing = RunOf(refresher[r].date).status])
    /\ UNCHANGED << minute, zone, catalog, health, runs, remembered, refreshes, late >>
Written(date, run) == [d \in DOMAIN runs \cup {date} |-> IF d = date THEN run ELSE runs[d]]
\* Fault: the day's row is written whatever it was.
RecordAnyway(existing, date, status) == Written(date, [RunOf(date) EXCEPT !.status = status])
\* An edition that was there when it looked keeps its status, and one dropped since stays away.
Recorded(existing, date, status) ==
    IF existing = "ready" THEN runs ELSE Written(date, [RunOf(date) EXCEPT !.status = status])
RecordNothing(r) ==
    LET me == refresher[r] IN
    /\ me.at \in {"empty", "failed"} /\ me.existing # "unread"
    /\ runs' = Recorded(me.existing, me.date, me.at)
    /\ Turns(r, Resting)
    /\ UNCHANGED << minute, zone, catalog, health, remembered, refreshes, late >>

Pass(wait) ==
    /\ minute + wait <= LastMinute
    /\ minute' = minute + wait
    /\ UNCHANGED << zone, catalog, health, runs, remembered, refresher, refreshes, late >>

NewsNext ==
    \/ SetZone \/ \E wait \in Waits : Pass(wait)
    \/ \E r \in Refreshers :
        \/ BeginRefresh(r) \/ UseCatalog(r) \/ ImportCatalog(r)
        \/ \E feed \in DOMAIN Feeds : FeedAnswers(r, feed) \/ FeedFails(r, feed)
        \/ Choose(r) \/ Publish(r) \/ Unreachable(r) \/ ReadRun(r) \/ RecordNothing(r)

NewsSpec == NewsInit /\ [][NewsNext]_newsVars

-----------------------------------------------------------------------------
(* Reading, and properties.                                                *)

\* latestReady: today's edition, else yesterday's, which is marked stale.
Ready(date) == {d \in DOMAIN runs \cap {date - 1, date} : runs[d].status = "ready"}
HomeFocus(date) == IF Ready(date) = {} THEN [available |-> FALSE, focus |-> date, stale |-> FALSE]
                   ELSE [available |-> TRUE, focus |-> Max(Ready(date)), stale |-> Max(Ready(date)) # date]

NewsTypeOK ==
    /\ minute \in MorningOf..LastMinute /\ refreshes \in 0..MaxRefreshes
    /\ \A d \in DOMAIN runs : runs[d].status \in {"ready", "empty", "failed"}
    /\ \A f \in DOMAIN health : health[f].failures \in Nat \ {0}

\* A refresh that finds nothing, or fails, takes no edition from the readers, unless the edition
\* was published after that refresh had looked whether there is one.
ReadyDayStays ==
    [][\A d \in DOMAIN runs : runs[d].status = "ready" /\ HomeFocus(d).focus = d =>
         \/ d \in DOMAIN runs' /\ runs'[d].status = "ready"
         \/ d \notin DOMAIN runs' /\ d < DateOf(minute) - 1
         \/ \E r \in Refreshers : /\ refresher[r].date = d /\ refresher[r].existing # "ready"
                                   /\ refresher'[r] = Resting]_newsVars

\* A refresh leaves out what the editions of the six days before show, and, where the backend's
\* time is Shanghai's, nothing that only its own day shows: refreshing a day once more does not
\* empty it.  That is, if all came out on their own day: what one shows is remembered as of the
\* day it came out.
ShownOn(d) == {e.key : e \in Items(RunOf(d).items)}
LeavesOutEarlierDays ==
    [][\A r \in Refreshers : refresher[r].at = "rest" /\ refresher'[r].at = "catalog" =>
         LET today == refresher'[r].date
             recent == refresher'[r].recent
         IN  late \/ /\ \A d \in DOMAIN runs : today - 7 < d /\ d < today => ShownOn(d) \subseteq recent
                     /\ zone = 0 => ShownOn(today) \cap recent = {}]_newsVars
=============================================================================
