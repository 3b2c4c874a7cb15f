------------------------------- MODULE Points -------------------------------
(***************************************************************************)
(* The backend's points and comment packages on top of Relationship: a     *)
(* user earns points by checking in and by the score the other gives a     *)
(* record, and spends them on rewards the other has set.  An operation is  *)
(* a transaction of MySQL at its default, repeatable read: what it reads   *)
(* is the snapshot of its first read, what it writes is applied to the     *)
(* latest committed rows.  The account's row is locked from the first      *)
(* write to the commit, so the writes of one transaction appear at once.   *)
(***************************************************************************)
EXTENDS Relationship, Integers, FiniteSetsExt

CONSTANTS
    RecordOwner,    \* record -> the user it belongs to
    Cost,           \* reward -> cost_points
    Today,          \* the day of a check-in
    AiScore,        \* the score a record has of its own
    Scores          \* scores the other may give

StartRows(start) == [pair \in DOMAIN NoBinding |->
    IF pair \in DOMAIN start.bindings THEN start.bindings[pair] ELSE "none"]
\* The tables hold at first what operations of the backend, run to their end one after the other,
\* may have left there.
ASSUME StartsAssumption ==
    \A start \in Starts :
        /\ DOMAIN start.bindings \subseteq DOMAIN NoBinding
        /\ \A pair \in DOMAIN start.bindings :
             start.bindings[pair] \in {"none", "pending", "active", "declined", "cancelled"}
        /\ Coupled(StartRows(start))
        /\ start.views \in [Persons -> {"user", "bound_admin"}] /\ start.spent \in 0..MaxRequests
        /\ DOMAIN start.rewards \subseteq DOMAIN Cost
        /\ \A w \in DOMAIN start.rewards : start.rewards[w] \in [owner : Persons, status : {"active"}]
\* The score of its own counts from nothing up, the other's goes to a hundred, a reward costs at least
\* a point.
ASSUME AmountsAssumption ==
    AiScore \in Nat /\ Scores \subseteq 0..100 /\ \A w \in DOMAIN Cost : Cost[w] \in Nat \ {0}
\* "none" stands for nobody.
ASSUME PersonsAssumption == "none" \notin Persons

VARIABLES
    balance,        \* POINT_ACCOUNT
    ledger,         \* POINT_LEDGER: << source_type, source_key >>, unique -> [owner, amount]
    rewards,        \* REWARD_ITEM: reward -> [owner, status]
    redemptions,    \* REWARD_REDEMPTION: reward -> how often
    comments,       \* RECORD_COMMENT: record -> the score given
    overwritten     \* ghost: whether an amount was changed that was not the one read

pointVars == << balance, ledger, rewards, redemptions, comments, overwritten >>
coupleVars == << started, relationVars, tabVars, pointVars >>

ScoredRecords == DOMAIN RecordOwner
Rewards == DOMAIN Cost

CoupleInit ==
    /\ RelationshipInit
    /\ balance = [p \in Persons |-> 0]
    /\ ledger = << >> /\ rewards = << >> /\ comments = << >>
    /\ redemptions = [w \in Rewards |-> 0]
    /\ overwritten = FALSE

Open ==
    /\ ~started
    /\ started' = TRUE
    /\ \E start \in Starts :
         /\ bindings' = StartRows(start)
         /\ views' = start.views
         /\ rewards' = start.rewards
         /\ requests' = start.spent
    /\ UNCHANGED << tabs, crashes, overlapped, balance, ledger, redemptions, comments, overwritten >>

\* A transaction with its snapshot.
Transaction(op, p, on) ==
    [op |-> op, at |-> "read", by |-> p, with |-> on,
     ledger |-> ledger, balance |-> balance, rewards |-> rewards]

\* A row's unique key is taken: the transaction is rolled back.
Taken(key) == key \in DOMAIN ledger
With(key, owner, amount) ==
    [k \in DOMAIN ledger \cup {key} |-> IF k = key THEN [owner |-> owner, amount |-> amount] ELSE ledger[k]]
\* Fault: a key that is there is written over.
PayAgain(key, owner, amount) ==
    /\ ledger' = With(key, owner, amount)
    /\ balance' = [balance EXCEPT ![owner] = @ + amount]
\* insertLedger
Pay(key, owner, amount) ==
    /\ ~Taken(key)
    /\ ledger' = With(key, owner, amount)
    /\ balance' = [balance EXCEPT ![owner] = @ + amount]
NothingPaid == UNCHANGED << balance, ledger >>

BeginCheckin(t, p) ==
    /\ Begins(t, Transaction("checkin", p, Today))
    /\ UNCHANGED << relationVars, pointVars >>
Checkin(t) ==
    LET me == tabs[t]
        key == << "checkin", << me.by, me.with >> >>
    IN  /\ me.op = "checkin"
        /\ \/ key \notin DOMAIN me.ledger /\ Pay(key, me.by, 10)
           \/ (key \in DOMAIN me.ledger \/ Taken(key)) /\ NothingPaid
        /\ RequestEnds(t)
        /\ UNCHANGED << relationVars, rewards, redemptions, comments, overwritten >>

\* CommentService.save and applyRecordScore: the other's score of a record.
Clamped(score) == LET points == (AiScore + score) \div 20 IN IF points > 10 THEN 10 ELSE points
BeginScore(t, p, r, score) ==
    /\ ManagesBound(p) /\ RecordOwner[r] \in Targets(p)
    /\ Begins(t, Transaction("score", p, [record |-> r, score |-> score]))
    /\ UNCHANGED << relationVars, pointVars >>
\* Fault: what was paid before is not taken off.
WholeAmount(next, previous) == next
Difference(next, previous) == next - previous
Score(t) ==
    LET me == tabs[t]
        r == me.with.record
        key == << "record_score", r >>
        owner == RecordOwner[r]
        points == Clamped(me.with.score)
        previous == me.ledger[key].amount
        Commented == comments' = [q \in DOMAIN comments \cup {r} |-> IF q = r THEN me.with.score ELSE comments[q]]
    IN  /\ me.op = "score"
        /\ CASE key \notin DOMAIN me.ledger /\ Taken(key) ->
                  NothingPaid /\ UNCHANGED << comments, overwritten >>
             [] key \notin DOMAIN me.ledger /\ ~Taken(key) ->
                  Pay(key, owner, points) /\ Commented /\ UNCHANGED overwritten
             [] key \in DOMAIN me.ledger /\ points = previous ->
                  NothingPaid /\ Commented /\ UNCHANGED overwritten
             [] OTHER ->
                  /\ ledger' = With(key, owner, points)
                  /\ balance' = [balance EXCEPT ![owner] = @ + Difference(points, previous)]
                  /\ Commented
                  /\ overwritten' = (overwritten \/ ledger[key].amount # previous)
        /\ RequestEnds(t)
        /\ UNCHANGED << relationVars, rewards, redemptions >>

\* addReward: one statement, for whom the user manages.
AddReward(p, w) ==
    /\ AtOnce /\ ManagesBound(p) /\ w \notin DOMAIN rewards
    /\ \E owner \in Targets(p) :
         rewards' = [v \in DOMAIN rewards \cup {w} |->
                       IF v = w THEN [owner |-> owner, status |-> "active"] ELSE rewards[v]]
    /\ UNCHANGED << relationVars, balance, ledger, redemptions, comments, overwritten >>

\* redeem: reward and balance are those of the snapshot.
BeginRedeem(t, p, w) ==
    /\ w \in DOMAIN rewards /\ rewards[w].owner = p /\ rewards[w].status = "active"
    /\ balance[p] >= Cost[w]
    /\ Begins(t, Transaction("redeem", p, w))
    /\ UNCHANGED << relationVars, pointVars >>
Redeem(t) ==
    LET me == tabs[t]
        key == << "reward_redeem", me.with >>
    IN  /\ me.op = "redeem"
        /\ \/ /\ Pay(key, me.by, -Cost[me.with])
              /\ rewards' = [rewards EXCEPT ![me.with].status = "redeemed"]
              /\ redemptions' = [redemptions EXCEPT ![me.with] = @ + 1]
           \/ Taken(key) /\ NothingPaid /\ UNCHANGED << rewards, redemptions >>
        /\ RequestEnds(t)
        /\ UNCHANGED << relationVars, comments, overwritten >>

CoupleNext ==
    \/ Open
    \/ UNCHANGED started /\ RelationshipNext /\ UNCHANGED pointVars
    \/ /\ UNCHANGED started
       /\ \/ \E t \in Tabs : Checkin(t) \/ Score(t) \/ Redeem(t)
          \/ \E t \in Tabs, p \in Persons :
               \/ BeginCheckin(t, p)
               \/ \E r \in ScoredRecords, score \in Scores : BeginScore(t, p, r, score)
               \/ \E w \in Rewards : BeginRedeem(t, p, w)
          \/ \E p \in Persons, w \in Rewards : AddReward(p, w)

CoupleSpec == CoupleInit /\ [][CoupleNext]_coupleVars

-----------------------------------------------------------------------------
CoupleTypeOK ==
    /\ RelationshipTypeOK
    /\ balance \in [Persons -> Int] /\ redemptions \in [Rewards -> Nat]
    /\ \A w \in DOMAIN rewards : rewards[w].status \in {"active", "redeemed"}

\* A reward is paid for, marked and noted once or not at all, however often it is redeemed at once;
\* and nobody checks in twice a day.
RewardsArePaidOnce ==
    \A w \in DOMAIN rewards :
        LET key == << "reward_redeem", w >>
            n == IF rewards[w].status = "redeemed" THEN 1 ELSE 0
        IN  /\ redemptions[w] = n
            /\ Taken(key) <=> n = 1
            /\ Taken(key) => ledger[key] = [owner |-> rewards[w].owner, amount |-> -Cost[w]]

\* An account's balance is the sum of its ledger, unless two scores of one record met: the second
\* takes its difference from an amount the first has already changed.
AccountsAddUp ==
    overwritten \/
    \A p \in Persons :
        balance[p] = MapThenSumSet(LAMBDA k : ledger[k].amount, {k \in DOMAIN ledger : ledger[k].owner = p})
=============================================================================
