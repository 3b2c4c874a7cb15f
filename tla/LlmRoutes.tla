----------------------------- MODULE LlmRoutes -----------------------------
(***************************************************************************)
(* third/agents/shared/llm_routes.py: which provider a call to a language  *)
(* model goes to.  The primary provider's health is probed and kept in a   *)
(* cache the threads of a process share; a call that fails reports the     *)
(* provider unhealthy there and goes on to the next one.  The lock covers  *)
(* a look into the cache and a store, not the probe between them.          *)
(***************************************************************************)
EXTENDS Naturals, SequencesExt

CONSTANTS
    Callers,         \* threads that call a model or ask for a probe
    RouteConfigs,    \* [mode, probing, names, ready, samples, needed]
    Failures,        \* exceptions a call may raise: [code, classes, texts]
    ProbeTtl,        \* llm_probe_ttl_seconds
    UnhealthyTtl,    \* llm_unhealthy_ttl_seconds
    MaxClock,        \* bound: the monotonic clock
    MaxCalls         \* bound: calls and probes begun

ASSUME RouteAssumption == ProbeTtl \in Nat \ {0} /\ UnhealthyTtl \in Nat \ {0}
ASSUME RouteBounds == MaxClock \in Nat /\ MaxCalls \in Nat
\* The client library raises an error of the class of a refusal for a status below 500 only.
ASSUME FailuresAssumption ==
    \A e \in Failures : e.code \in 500..599 =>
        e.classes \cap {"authentication", "permissiondenied", "ratelimit", "badrequest", "invalidrequest"} = {}

VARIABLES
    routes,     \* the configuration
    clock,      \* time.monotonic()
    verdicts,   \* _PROBE_CACHE: provider -> [status, until, begun]
    calling,    \* caller -> what its call is doing, see Idle
    calls,      \* how many were begun
    reported    \* ghost: until when the last reported failure of the primary should hold,
                \* 0 once a probe of it has ended since

routeVars == << routes, clock, verdicts, calling, calls, reported >>

PRIMARY_PROVIDER == "openai"
FALLBACK_ELIGIBLE_ERROR_TYPES == {"connection_error", "timeout", "server_error", "proxy_error"}

\* classify_llm_exception: the first rule whose status code, class name or text fits decides.
Rule(codes, classes, texts, gives) == [codes |-> codes, classes |-> classes, texts |-> texts, gives |-> gives]
ClassRules == <<
    Rule({}, {"authentication", "permissiondenied"}, {}, "auth_error"),
    Rule({}, {"ratelimit"}, {}, "rate_limit"),
    Rule({}, {"badrequest", "invalidrequest"}, {}, "bad_request") >>
CodeRules == << Rule({401, 403}, {}, {}, "auth_error"), Rule({429}, {}, {}, "rate_limit"),
                Rule(500..599, {}, {}, "server_error") >>
TextRules == <<
    Rule({}, {"timeout"}, {"timeout"}, "timeout"),
    Rule({}, {"proxy"}, {"proxy"}, "proxy_error"),
    Rule({}, {"connection", "connect", "oserror"}, {"connection"}, "connection_error"),
    Rule({}, {"internalserver", "servererror"}, {}, "server_error") >>
Decide(rules, e) ==
    LET Fits(r) == e.code \in r.codes \/ e.classes \cap r.classes # {} \/ e.texts \cap r.texts # {}
        fitting == {k \in DOMAIN rules : Fits(rules[k])}
    IN  IF fitting = {} THEN "unknown_error" ELSE rules[Min(fitting)].gives
\* Fault: what the text says is looked at first.
ClassifyByText(e) == Decide(CodeRules \o TextRules \o ClassRules, e)
classify_llm_exception(e) == Decide(CodeRules \o ClassRules \o TextRules, e)

-----------------------------------------------------------------------------
(* The configuration.                                                      *)

NoRoutes == [mode |-> "none", probing |-> FALSE, names |-> << >>, ready |-> {}, samples |-> 0, needed |-> 0]

\* fallback_provider_specs: the configured names it knows, each where it is named first.
FirstMention(name) == Min({k \in DOMAIN routes.names : routes.names[k] = name})
FallbackProviders ==
    LET known == {"deepseek", "minimax"} \cap ToSet(routes.names)
        NamedBefore(name) == {n \in known : FirstMention(n) < FirstMention(name)}
    IN  [k \in 1..Cardinality(known) |-> CHOOSE name \in known : Cardinality(NamedBefore(name)) = k - 1]
AllProviders == << PRIMARY_PROVIDER >> \o FallbackProviders
ReadyFallbacks == ToSet(FallbackProviders) \cap routes.ready
route_domestic_enabled == routes.mode \in {"domestic", "fallback", "fallback_only"}
\* Whether there is a choice between the primary and somebody else.
Choosing == routes.mode = "auto" /\ ReadyFallbacks # {}

Samples == IF routes.samples = 0 THEN 1 ELSE routes.samples
MinSuccesses == IF routes.needed > Samples THEN Samples ELSE IF routes.needed = 0 THEN 1 ELSE routes.needed

\* job: "invoke", "probe", "refresh" (a probe that disregards the cache).  at: where it is.
\* i: its place in AllProviders.  tried: the calls made, [provider, failure].
Idle == [job |-> "none", at |-> "idle", i |-> 0, begun |-> 0, tried |-> << >>]

RouteInit ==
    /\ routes = NoRoutes
    /\ clock = 0
    /\ verdicts = << >>
    /\ calling = [c \in Callers |-> Idle]
    /\ calls = 0
    /\ reported = 0

Configure ==
    /\ routes = NoRoutes
    /\ routes' \in RouteConfigs
    /\ UNCHANGED << clock, verdicts, calling, calls, reported >>

Goes(c, next) == calling' = [calling EXCEPT ![c] = next]
CallEnds(c) == Goes(c, Idle)
Provider(c) == AllProviders[calling[c].i]

-----------------------------------------------------------------------------
(* RouteAwareChatModel.invoke                                              *)

\* Where a call begins: with the fallbacks, the primary, a look at its health, or an error.
FirstStop ==
    CASE route_domestic_enabled -> "fallback"
      [] ~route_domestic_enabled /\ ~Choosing ->
           IF PRIMARY_PROVIDER \in routes.ready THEN "primary" ELSE "idle"
      [] Choosing /\ PRIMARY_PROVIDER \notin routes.ready -> "fallback"
      [] OTHER -> IF routes.probing THEN "look" ELSE "primary"

BeginCall(c) ==
    /\ routes # NoRoutes /\ calls < MaxCalls
    /\ calling[c].at = "idle"
    /\ calls' = calls + 1
    /\ IF FirstStop = "idle" THEN CallEnds(c)
       ELSE Goes(c, [Idle EXCEPT !.job = "invoke", !.at = FirstStop,
                                 !.i = IF FirstStop = "fallback" THEN 2 ELSE 1])
    /\ UNCHANGED << routes, clock, verdicts, reported >>

\* Fault: a verdict that is there is left alone.
MarkIfUnknown(p) ==
    /\ verdicts' = [q \in DOMAIN verdicts \cup {p} |->
         IF q \in DOMAIN verdicts THEN verdicts[q]
         ELSE [status |-> "unhealthy", until |-> clock + UnhealthyTtl, begun |-> clock]]
    /\ reported' = IF p = PRIMARY_PROVIDER THEN clock + UnhealthyTtl ELSE reported
\* mark_provider_unhealthy
MarkUnhealthy(p) ==
    /\ verdicts' = [q \in DOMAIN verdicts \cup {p} |->
         IF q = p THEN [status |-> "unhealthy", until |-> clock + UnhealthyTtl, begun |-> clock]
         ELSE verdicts[q]]
    /\ reported' = IF p = PRIMARY_PROVIDER THEN clock + UnhealthyTtl ELSE reported

Tried(c, e) == [calling[c] EXCEPT !.tried = Append(@, [provider |-> Provider(c), failure |-> e])]
Answered(c) ==
    /\ calling[c].at \in {"primary", "fallback"}
    /\ calling[c].i <= Len(AllProviders) /\ Provider(c) \in routes.ready
    /\ CallEnds(c)
    /\ UNCHANGED << routes, clock, verdicts, calls, reported >>

\* An error of the primary provider, where no other can take over, is not reported.
CallFails(c, e) ==
    LET eligible == classify_llm_exception(e) \in FALLBACK_ELIGIBLE_ERROR_TYPES
        goesOn == eligible /\ (calling[c].at = "fallback" \/ Choosing)
    IN  /\ calling[c].at \in {"primary", "fallback"}
        /\ calling[c].i <= Len(AllProviders) /\ Provider(c) \in routes.ready
        /\ IF goesOn
             THEN /\ Goes(c, [Tried(c, e) EXCEPT !.at = "fallback", !.i = @ + 1])
                  /\ MarkUnhealthy(Provider(c))
             ELSE /\ CallEnds(c)
                  /\ UNCHANGED << verdicts, reported >>
        /\ UNCHANGED << routes, clock, calls >>

SkipUnready(c) ==
    /\ calling[c].at = "fallback" /\ calling[c].i <= Len(AllProviders)
    /\ Provider(c) \notin routes.ready
    /\ Goes(c, [calling[c] EXCEPT !.i = @ + 1])
    /\ UNCHANGED << routes, clock, verdicts, calls, reported >>
NoneLeft(c) ==
    /\ calling[c].at = "fallback" /\ calling[c].i > Len(AllProviders)
    /\ CallEnds(c)
    /\ UNCHANGED << routes, clock, verdicts, calls, reported >>

-----------------------------------------------------------------------------
(* get_cached_probe_result                                                 *)

\* probe_llm_routes, for the debug page: all providers, one after the other.
BeginProbe(c, job) ==
    /\ routes # NoRoutes /\ calls < MaxCalls
    /\ calling[c].at = "idle"
    /\ calls' = calls + 1
    /\ Goes(c, [Idle EXCEPT !.job = job, !.at = "look", !.i = 1])
    /\ UNCHANGED << routes, clock, verdicts, reported >>

\* What a verdict on its provider means to the caller.
Learn(c, status) ==
    LET me == [calling[c] EXCEPT !.begun = 0] IN
    CASE me.job = "invoke" /\ status = "healthy" -> Goes(c, [me EXCEPT !.at = "primary"])
      [] me.job = "invoke" /\ status # "healthy" -> Goes(c, [me EXCEPT !.at = "fallback", !.i = 2])
      [] me.job # "invoke" /\ me.i < Len(AllProviders) -> Goes(c, [me EXCEPT !.at = "look", !.i = @ + 1])
      [] OTHER -> CallEnds(c)

\* A verdict holds before the time it expires.
Cached(p) == p \in DOMAIN verdicts /\ verdicts[p].until > clock
LookUp(c) ==
    /\ calling[c].at = "look"
    /\ calling[c].job # "refresh" /\ Cached(Provider(c))
    /\ Learn(c, verdicts[Provider(c)].status)
    /\ UNCHANGED << routes, clock, verdicts, calls, reported >>
StartProbe(c) ==
    /\ calling[c].at = "look"
    /\ calling[c].job = "refresh" \/ ~Cached(Provider(c))
    /\ Goes(c, [calling[c] EXCEPT !.at = "probing", !.begun = clock])
    /\ UNCHANGED << routes, clock, verdicts, calls, reported >>

\* probe_provider: each sample is the answer it wants, another answer, or an exception.
Trouble == {"invalid_response"} \cup {classify_llm_exception(e) : e \in Failures}
Observations == {[good |-> Samples, last |-> "none"]} \cup [good : 0..(Samples - 1), last : Trouble]
ProbeStatus(seen) ==
    IF seen.good >= MinSuccesses THEN "healthy"
    ELSE IF seen.last \in {"auth_error", "permission_error"} THEN "auth_error"
    ELSE "unhealthy"

\* Fault: the verdict's time begins when the probe has ended.
ExpiresLate(begun) == clock + ProbeTtl
\* A verdict holds for a while from the probe's beginning, whatever was stored meanwhile.
ExpiresAt(begun) == begun + ProbeTtl
EndProbe(c) ==
    LET p == Provider(c)
        statuses == IF p \in routes.ready THEN {ProbeStatus(seen) : seen \in Observations}
                    ELSE {"misconfigured"}
        Found(status) == [status |-> status, until |-> ExpiresAt(calling[c].begun), begun |-> calling[c].begun]
    IN  /\ calling[c].at = "probing"
        /\ \E status \in statuses :
             /\ verdicts' = [q \in DOMAIN verdicts \cup {p} |-> IF q = p THEN Found(status) ELSE verdicts[q]]
             /\ Learn(c, status)
        /\ reported' = IF p = PRIMARY_PROVIDER THEN 0 ELSE reported
        /\ UNCHANGED << routes, clock, calls >>

Tick ==
    /\ routes # NoRoutes /\ clock < MaxClock
    /\ clock' = clock + 1
    /\ UNCHANGED << routes, verdicts, calling, calls, reported >>

RouteNext ==
    \/ Configure \/ Tick
    \/ \E c \in Callers :
        \/ BeginCall(c) \/ Answered(c) \/ SkipUnready(c) \/ NoneLeft(c)
        \/ \E e \in Failures : CallFails(c, e)
        \/ \E job \in {"probe", "refresh"} : BeginProbe(c, job)
        \/ LookUp(c) \/ StartProbe(c) \/ EndProbe(c)

RouteSpec == RouteInit /\ [][RouteNext]_routeVars

-----------------------------------------------------------------------------
(* Properties.                                                             *)

RouteTypeOK ==
    /\ clock \in 0..MaxClock /\ calls \in 0..MaxCalls
    /\ \A p \in DOMAIN verdicts :
         /\ verdicts[p].status \in {"healthy", "unhealthy", "auth_error", "misconfigured"}
         /\ verdicts[p].until \in Nat
    /\ \A c \in Callers :
         calling[c].at \in {"idle", "look", "probing", "primary", "fallback"}

\* One provider after the other is called only while the last one was out of reach: a refusal
\* of what was asked for (key, quota, parameters), whatever its text says, ends the call, and
\* none that is ready is passed over except the primary.
Refusal(e) == \/ e.code \in {401, 403, 429}
              \/ e.classes \cap {"authentication", "permissiondenied", "ratelimit", "badrequest"} # {}
RefusalsAreFinal ==
    \A c \in Callers : calling[c].job = "invoke" =>
        LET tried == calling[c].tried IN
        /\ \A k \in DOMAIN tried : ~Refusal(tried[k].failure)
        /\ calling[c].at = "fallback" =>
             \A k \in 2..(calling[c].i - 1) : AllProviders[k] \in routes.ready =>
                 \E n \in DOMAIN tried : tried[n].provider = AllProviders[k]

\* A call goes to the primary provider, where there is a choice, only on a verdict about how it
\* was less than ProbeTtl ago.
Admitted(c) == calling[c].at = "look" /\ calling'[c].at = "primary"
VerdictIsFresh ==
    [][\A c \in Callers : Admitted(c) =>
          /\ verdicts[PRIMARY_PROVIDER].status = "healthy"
          /\ clock < verdicts[PRIMARY_PROVIDER].begun + ProbeTtl]_routeVars

\* Nor is it called, by whichever thread, within UnhealthyTtl of a failure reported by any,
\* unless a probe has ended since.
UnhealthyIsSkipped ==
    [][\A c \in Callers : Admitted(c) => clock >= reported]_routeVars
=============================================================================
