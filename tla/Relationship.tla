---------------------------- MODULE Relationship ----------------------------
(***************************************************************************)
(* The backend's relationship package: two users invite each other, one of *)
(* them accepts, and either may then look at the other's records.  A row   *)
(* of USER_BINDING is one direction, a binding has two.  No operation is a *)
(* transaction: each reads, decides and writes in statements of their own. *)
(* The reads of one decision are taken together, the writes are not.       *)
(***************************************************************************)
EXTENDS Naturals, FiniteSets

CONSTANTS
    Persons,        \* users, none of them a back-office account
    Starts,         \* what the tables may hold at first: [bindings, views, rewards],
                    \* and how many requests have led there: spent
    Tabs,           \* requests that may be under way at once
    MaxRequests,    \* bound: requests begun
    MaxCrashes      \* bound: requests that die half way

ASSUME RelationshipBounds == MaxRequests \in Nat /\ MaxCrashes \in Nat

VARIABLES
    started,    \* whether the start was chosen
    bindings,   \* USER_BINDING: << requester, target >> -> status
    views,      \* APP_PERSON.current_view_role
    tabs,       \* what each request is doing, see Free
    requests,   \* how many were begun
    crashes,    \* how many died half way
    overlapped  \* ghost: whether a request began while another was under way

relationVars == << bindings, views >>
tabVars == << tabs, requests, crashes, overlapped >>

NoBinding == [pair \in {way \in Persons \X Persons : way[1] # way[2]} |-> "none"]
Free == [op |-> "none", at |-> "free", by |-> "none", with |-> "none"]

Targets(p) == {q \in Persons \ {p} : bindings[<< p, q >>] = "active"}
\* activeBinding: the latest row.  updated_at has whole seconds, so of several any may be the one.
ActiveTargets(p) == IF Targets(p) = {} THEN {"none"} ELSE Targets(p)
\* currentViewRole
ManagesBound(p) == views[p] = "bound_admin" /\ Targets(p) # {}

RelationshipInit ==
    /\ started = FALSE
    /\ bindings = NoBinding
    /\ views = [p \in Persons |-> "user"]
    /\ tabs = [t \in Tabs |-> Free]
    /\ requests = 0 /\ crashes = 0
    /\ overlapped = FALSE

Begins(t, work) ==
    /\ started /\ requests < MaxRequests
    /\ \E u \in Tabs : tabs[u].at = "free"
    /\ t = CHOOSE u \in Tabs : tabs[u].at = "free"
    /\ requests' = requests + 1
    /\ tabs' = [tabs EXCEPT ![t] = work]
    /\ overlapped' = (overlapped \/ \E u \in Tabs : tabs[u].at # "free")
    /\ UNCHANGED crashes
Work(op, at, p, q) == [op |-> op, at |-> at, by |-> p, with |-> q]
Moves(t, at) ==
    /\ tabs' = [tabs EXCEPT ![t].at = at]
    /\ UNCHANGED << requests, crashes, overlapped >>
RequestEnds(t) ==
    /\ tabs' = [tabs EXCEPT ![t] = Free]
    /\ UNCHANGED << requests, crashes, overlapped >>

\* A request of one statement.
AtOnce ==
    /\ started /\ requests < MaxRequests
    /\ requests' = requests + 1
    /\ UNCHANGED << tabs, crashes, overlapped >>

\* requireNoOtherActiveBinding, for what activeBinding may have returned of either.
\* Fault: the other side's binding is not asked for.
RequesterIsFree(p, q) == \E bound \in ActiveTargets(p) : bound \in {"none", q}
requireNoOtherActiveBinding(p, q) ==
    /\ \E bound \in ActiveTargets(p) : bound \in {"none", q}
    /\ \E bound \in ActiveTargets(q) : bound \in {"none", p}

\* A request that is turned down changes nothing, and is left out.
BeginInvite(t, p, q) ==
    /\ p # q
    /\ bindings[<< p, q >>] # "active"
    /\ requireNoOtherActiveBinding(p, q)
    /\ Begins(t, Work("invite", "write", p, q))
    /\ UNCHANGED relationVars
\* upsertPendingInvitation: the row becomes pending, whatever it was.
WriteInvite(t) ==
    /\ tabs[t].op = "invite"
    /\ bindings' = [bindings EXCEPT ![<< tabs[t].by, tabs[t].with >>] = "pending"]
    /\ RequestEnds(t)
    /\ UNCHANGED views

\* acceptInvitation: p accepts the invitation q sent.
BeginAccept(t, p, q) ==
    /\ p # q
    /\ bindings[<< q, p >>] = "pending"
    /\ requireNoOtherActiveBinding(p, q)
    /\ Begins(t, Work("accept", "write", p, q))
    /\ UNCHANGED relationVars
\* ensureActiveBinding, once for each direction.
Activate(t) ==
    LET p == tabs[t].by
        q == tabs[t].with
    IN  /\ tabs[t].op = "accept"
        /\ \/ /\ tabs[t].at = "write"
              /\ bindings' = [bindings EXCEPT ![<< q, p >>] = "active"]
              /\ Moves(t, "back")
           \/ /\ tabs[t].at = "back"
              /\ bindings' = [bindings EXCEPT ![<< p, q >>] = "active"]
              /\ RequestEnds(t)
        /\ UNCHANGED views

\* rejectInvitation by its target, cancelInvitation by its requester.
BeginWithdraw(t, op, p, q) ==
    /\ p # q
    /\ bindings[IF op = "reject" THEN << q, p >> ELSE << p, q >>] = "pending"
    /\ Begins(t, Work(op, "write", p, q))
    /\ UNCHANGED relationVars
WriteWithdraw(t) ==
    LET me == tabs[t] IN
    /\ me.op \in {"reject", "cancel"}
    /\ bindings' = IF me.op = "reject" THEN [bindings EXCEPT ![<< me.with, me.by >>] = "declined"]
                   ELSE [bindings EXCEPT ![<< me.by, me.with >>] = "cancelled"]
    /\ RequestEnds(t)
    /\ UNCHANGED views

\* switchViewRole
SwitchView(p, view) ==
    /\ AtOnce /\ views[p] # view
    /\ view = "bound_admin" => Targets(p) # {}
    /\ views' = [views EXCEPT ![p] = view]
    /\ UNCHANGED bindings

\* The backend stops, or the database refuses a statement, between two of a request's.
Crash(t) ==
    /\ tabs[t].op \in {"invite", "accept", "reject", "cancel"} /\ crashes < MaxCrashes
    /\ crashes' = crashes + 1
    /\ tabs' = [tabs EXCEPT ![t] = Free]
    /\ UNCHANGED << bindings, views, requests, overlapped >>

RelationshipNext ==
    \/ \E t \in Tabs : WriteInvite(t) \/ Activate(t) \/ WriteWithdraw(t) \/ Crash(t)
    \/ \E t \in Tabs, p, q \in Persons :
         \/ BeginInvite(t, p, q) \/ BeginAccept(t, p, q)
         \/ \E op \in {"reject", "cancel"} : BeginWithdraw(t, op, p, q)
    \/ \E p \in Persons, view \in {"user", "bound_admin"} : SwitchView(p, view)

-----------------------------------------------------------------------------
RelationshipTypeOK ==
    /\ bindings \in [DOMAIN NoBinding -> {"none", "pending", "active", "declined", "cancelled"}]
    /\ views \in [Persons -> {"user", "bound_admin"}]
    /\ requests \in 0..MaxRequests /\ crashes \in 0..MaxCrashes

\* Nobody is bound to two people, and who is bound is bound both ways.
Coupled(rows) ==
    \A p, q \in Persons : p # q /\ rows[<< p, q >>] = "active" =>
        /\ rows[<< q, p >>] = "active"
        /\ \A r \in Persons \ {p} : rows[<< p, r >>] = "active" => r = q

\* Whatever is invited, accepted, rejected and cancelled, one after the other, nobody is bound to
\* two people, and who is bound is bound both ways.
BindingsAreMutual ==
    ~overlapped /\ crashes = 0 /\ (\A t \in Tabs : tabs[t].at = "free")
      => \A p \in Persons :
            /\ Cardinality(Targets(p)) <= 1
            /\ \A q \in Targets(p) : p \in Targets(q)
=============================================================================
