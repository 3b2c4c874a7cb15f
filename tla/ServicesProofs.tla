--------------------------- MODULE ServicesProofs ---------------------------
(***************************************************************************)
(* Proofs about the services that share no state: the couple's bindings    *)
(* and rewards (Points on top of Relationship), the routes of the language *)
(* models (LlmRoutes) and the daily news (NewsFocus).                      *)
(***************************************************************************)
EXTENDS FiniteSetTheorems, SequenceTheorems, Recursion, Points, LlmRoutes, NewsFocus, TLAPS

-----------------------------------------------------------------------------
(* The couple's requests.                                                  *)

Busy(t) == tabs[t].at # "free"
NotBegun == \A t \in Tabs : tabs[t] = Free
TabsAreTyped ==
    /\ tabs = [t \in Tabs |-> tabs[t]]
    /\ \A t \in Tabs : {"op", "at", "by", "with"} \subseteq DOMAIN tabs[t]

LEMMA BeginsFacts ==
    ASSUME NEW t, NEW work, Begins(t, work)
    PROVE  /\ t \in Tabs /\ ~Busy(t) /\ started
           /\ tabs' = [tabs EXCEPT ![t] = work]
           /\ overlapped' = (overlapped \/ \E u \in Tabs : tabs[u].at # "free")
           /\ crashes' = crashes
BY DEF Begins, Busy

(* Rewards.                                                                *)

RewardKey(w) == << "reward_redeem", w >>
Unpaid(w) == w \notin DOMAIN rewards => redemptions[w] = 0 /\ ~Taken(RewardKey(w))
RewardIsTyped(w) == rewards[w] \in [owner : Persons, status : {"active", "redeemed"}]
Redeeming(t) ==
    tabs[t].op = "redeem" =>
        /\ tabs[t].with \in DOMAIN rewards
        /\ rewards[tabs[t].with].owner = tabs[t].by
PaidOnce(w) ==
    LET n == IF rewards[w].status = "redeemed" THEN 1 ELSE 0
    IN  /\ redemptions[w] = n
        /\ Taken(RewardKey(w)) <=> n = 1
        /\ Taken(RewardKey(w)) => ledger[RewardKey(w)] = [owner |-> rewards[w].owner, amount |-> -Cost[w]]

RewardInv ==
    /\ DOMAIN rewards \subseteq Rewards
    /\ redemptions = [w \in Rewards |-> redemptions[w]]
    /\ TabsAreTyped
    /\ ~started => NotBegun /\ DOMAIN ledger = {} /\ \A w \in Rewards : redemptions[w] = 0
    /\ \A w \in Rewards : Unpaid(w)
    /\ \A w \in DOMAIN rewards : RewardIsTyped(w) /\ PaidOnce(w)
    /\ \A t \in Tabs : Redeeming(t)

LEMMA WithFacts ==
    ASSUME NEW key, NEW owner, NEW amount, ledger' = With(key, owner, amount)
    PROVE  /\ \A k : Taken(k)' <=> (Taken(k) \/ k = key)
           /\ \A k : k # key /\ Taken(k) => ledger'[k] = ledger[k]
           /\ ledger'[key] = [owner |-> owner, amount |-> amount]
BY DEF With, Taken

LEMMA RewardInit == CoupleInit => RewardInv
BY DEF CoupleInit, RewardInv, TabsAreTyped, RelationshipInit, NotBegun, Unpaid, Redeeming, Free, Taken, Rewards

\* How a request's place changes.
LEMMA TabsStayTyped ==
    ASSUME TabsAreTyped, NEW t \in Tabs, NEW at, NEW work, {"op", "at", "by", "with"} \subseteq DOMAIN work,
           \/ tabs' = [tabs EXCEPT ![t] = work]
           \/ tabs' = [tabs EXCEPT ![t].at = at]
    PROVE  TabsAreTyped'
<1>1. CASE tabs' = [tabs EXCEPT ![t] = work]
  BY <1>1 DEF TabsAreTyped
<1>2. CASE tabs' = [tabs EXCEPT ![t].at = at]
  <2> DEFINE me == [tabs[t] EXCEPT !.at = at]
  <2>1. DOMAIN me = DOMAIN tabs[t]
    OBVIOUS
  <2>2. tabs' = [tabs EXCEPT ![t] = me]
    BY <1>2
  <2> HIDE DEF me
  <2> QED
    BY <2>1, <2>2 DEF TabsAreTyped
<1> QED
  BY <1>1, <1>2

\* What leaves the rewards and their keys as they are.
LEMMA RewardsAside ==
    ASSUME RewardInv, UNCHANGED << rewards, redemptions >>, started' = started,
           \A w \in Rewards : Taken(RewardKey(w))' <=> Taken(RewardKey(w)),
           \A w \in Rewards : Taken(RewardKey(w)) => ledger'[RewardKey(w)] = ledger[RewardKey(w)],
           TabsAreTyped', \A t \in Tabs : Redeeming(t)',
           started \/ (DOMAIN ledger' = DOMAIN ledger /\ tabs' = tabs)
    PROVE  RewardInv'
<1>1. \A w \in Rewards : Unpaid(w)'
  BY DEF RewardInv, Unpaid
<1>2. \A w \in DOMAIN rewards' : RewardIsTyped(w)' /\ PaidOnce(w)'
  BY DEF RewardInv, RewardIsTyped, PaidOnce
<1>3. ~started' => NotBegun' /\ DOMAIN ledger' = {} /\ \A w \in Rewards : redemptions'[w] = 0
  BY DEF RewardInv, NotBegun
<1> QED
  BY <1>1, <1>2, <1>3 DEF RewardInv

LEMMA RewardsAsideOfOthers ==
    ASSUME RewardInv, UNCHANGED << pointVars, started >>, RelationshipNext
    PROVE  RewardInv'
<1>1. /\ \A w \in Rewards : Taken(RewardKey(w))' <=> Taken(RewardKey(w))
      /\ \A w \in Rewards : Taken(RewardKey(w)) => ledger'[RewardKey(w)] = ledger[RewardKey(w)]
      /\ rewards' = rewards /\ redemptions' = redemptions /\ ledger' = ledger /\ started' = started
  BY DEF pointVars, Taken
<1>2. ASSUME NEW t \in Tabs, NEW work, {"op", "at", "by", "with"} \subseteq DOMAIN work,
             work.op # "redeem", started, tabs' = [tabs EXCEPT ![t] = work]
      PROVE  RewardInv'
  <2>1. TabsAreTyped'
    BY <1>2, TabsStayTyped DEF RewardInv
  <2>2. \A u \in Tabs : Redeeming(u)'
    BY <1>1, <1>2 DEF RewardInv, Redeeming, TabsAreTyped
  <2> QED
    BY <1>1, <1>2, <2>1, <2>2, RewardsAside
<1>3. ASSUME tabs' = tabs
      PROVE  RewardInv'
  <2>1. TabsAreTyped' /\ \A u \in Tabs : Redeeming(u)'
    BY <1>1, <1>3 DEF RewardInv, Redeeming, TabsAreTyped
  <2> QED
    BY <1>1, <1>3, <2>1, RewardsAside
<1>4. ASSUME NEW t \in Tabs, tabs[t].op # "none"
      PROVE  started
  BY <1>4 DEF RewardInv, NotBegun, Free
<1>5. ASSUME NEW t \in Tabs, WriteInvite(t) \/ WriteWithdraw(t) \/ Crash(t)
      PROVE  RewardInv'
  <2>1. tabs' = [tabs EXCEPT ![t] = Free] /\ tabs[t].op # "none"
    BY <1>5 DEF WriteInvite, WriteWithdraw, Crash, RequestEnds
  <2> QED
    BY <1>2, <1>4, <2>1 DEF Free
<1>6. ASSUME NEW t \in Tabs, Activate(t)
      PROVE  RewardInv'
  <2>1. CASE tabs' = [tabs EXCEPT ![t] = Free]
    BY <1>2, <1>4, <1>6, <2>1 DEF Free, Activate
  <2>2. CASE tabs' = [tabs EXCEPT ![t].at = "back"]
    <3> DEFINE me == [tabs[t] EXCEPT !.at = "back"]
    <3>1. /\ {"op", "at", "by", "with"} \subseteq DOMAIN me
          /\ me.op = tabs[t].op
      BY DEF RewardInv, TabsAreTyped
    <3>2. tabs' = [tabs EXCEPT ![t] = me]
      BY <2>2
    <3>3. tabs[t].op = "accept"
      BY <1>6 DEF Activate
    <3> HIDE DEF me
    <3> QED
      BY <1>2, <1>4, <3>1, <3>2, <3>3
  <2> QED
    BY <1>6, <2>1, <2>2 DEF Activate, RequestEnds, Moves
<1>7. ASSUME NEW t \in Tabs, NEW p \in Persons, NEW q \in Persons, NEW op \in {"reject", "cancel"},
             BeginInvite(t, p, q) \/ BeginAccept(t, p, q) \/ BeginWithdraw(t, op, p, q)
      PROVE  RewardInv'
  <2>1. PICK o \in {"invite", "accept", "reject", "cancel"} : Begins(t, Work(o, "write", p, q))
    BY <1>7 DEF BeginInvite, BeginAccept, BeginWithdraw
  <2>2. started /\ tabs' = [tabs EXCEPT ![t] = Work(o, "write", p, q)]
    BY <2>1, BeginsFacts
  <2> QED
    BY <1>2, <2>2 DEF Work
<1>8. ASSUME NEW p \in Persons, NEW view, SwitchView(p, view)
      PROVE  RewardInv'
  BY <1>3, <1>8 DEF SwitchView, AtOnce
<1> QED
  BY <1>5, <1>6, <1>7, <1>8 DEF RelationshipNext

LEMMA RewardsAtOpen == RewardInv /\ Open => RewardInv'
<1> SUFFICES ASSUME RewardInv, Open
             PROVE  RewardInv'
  OBVIOUS
<1>1. PICK start \in Starts : rewards' = start.rewards
  BY DEF Open
<1>2. /\ DOMAIN start.rewards \subseteq Rewards
      /\ \A w \in DOMAIN start.rewards : start.rewards[w] \in [owner : Persons, status : {"active"}]
  BY StartsAssumption DEF Rewards
<1>3. /\ ledger' = ledger /\ DOMAIN ledger = {} /\ started' = TRUE
      /\ redemptions' = redemptions /\ \A w \in Rewards : redemptions[w] = 0
      /\ tabs' = tabs /\ \A t \in Tabs : tabs[t] = Free
  BY DEF Open, RewardInv, NotBegun
<1>4. \A key : ~Taken(key)'
  BY <1>3 DEF Taken
<1>5. \A w \in DOMAIN rewards' : RewardIsTyped(w)' /\ PaidOnce(w)'
  BY <1>1, <1>2, <1>3, <1>4 DEF RewardIsTyped, PaidOnce
<1>6. TabsAreTyped' /\ \A t \in Tabs : Redeeming(t)'
  BY <1>3 DEF RewardInv, TabsAreTyped, Redeeming, Free
<1>7. \A w \in Rewards : Unpaid(w)'
  BY <1>3, <1>4 DEF Unpaid
<1> QED
  BY <1>1, <1>2, <1>3, <1>5, <1>6, <1>7 DEF RewardInv

\* A transaction begins, and none of its writes is applied yet.
LEMMA RewardsAtBegin ==
    ASSUME RewardInv, UNCHANGED << pointVars, started >>,
           NEW t, NEW op, NEW p, NEW on, Begins(t, Transaction(op, p, on)),
           op = "redeem" => on \in DOMAIN rewards /\ rewards[on].owner = p
    PROVE  RewardInv'
<1>1. t \in Tabs /\ started /\ tabs' = [tabs EXCEPT ![t] = Transaction(op, p, on)]
  BY BeginsFacts
<1>2. TabsAreTyped'
  BY <1>1, TabsStayTyped DEF RewardInv, Transaction
<1>3. \A u \in Tabs : Redeeming(u)'
  BY <1>1 DEF RewardInv, TabsAreTyped, Redeeming, Transaction, pointVars
<1>4. /\ \A w \in Rewards : Taken(RewardKey(w))' <=> Taken(RewardKey(w))
      /\ rewards' = rewards /\ redemptions' = redemptions /\ ledger' = ledger /\ started' = started
  BY DEF pointVars, Taken
<1> QED
  BY <1>1, <1>2, <1>3, <1>4, RewardsAside

LEMMA RequestEndsFacts ==
    ASSUME RewardInv, rewards' = rewards, NEW t \in Tabs, RequestEnds(t)
    PROVE  TabsAreTyped' /\ \A u \in Tabs : Redeeming(u)'
<1>1. tabs' = [tabs EXCEPT ![t] = Free]
  BY DEF RequestEnds
<1>2. TabsAreTyped'
  BY <1>1, TabsStayTyped DEF RewardInv, Free
<1>3. \A u \in Tabs : Redeeming(u)'
  BY <1>1 DEF RewardInv, TabsAreTyped, Redeeming, Free
<1> QED
  BY <1>2, <1>3

\* A check-in's or a score's row in the ledger is not that of a reward.
LEMMA RewardsAtCheckinOrScore ==
    ASSUME RewardInv, started' = started, NEW t \in Tabs, Checkin(t) \/ Score(t)
    PROVE  RewardInv'
<1>1. started
  <2>1. tabs[t].op \in {"checkin", "score"}
    <3>1. CASE Checkin(t)
      BY <3>1 DEF Checkin
    <3>2. CASE Score(t)
      BY <3>2 DEF Score
    <3> QED
      BY <3>1, <3>2
  <2>2. ~started => tabs[t] = Free
    BY DEF RewardInv, NotBegun
  <2> QED
    BY <2>1, <2>2 DEF Free
<1>2. rewards' = rewards /\ redemptions' = redemptions /\ RequestEnds(t)
  BY DEF Checkin, Score
<1>3. TabsAreTyped' /\ \A u \in Tabs : Redeeming(u)'
  BY <1>2, RequestEndsFacts
<1>4. ASSUME NEW owner, NEW amount, NEW key, \A w : key # RewardKey(w),
             ledger' = With(key, owner, amount) \/ ledger' = ledger
      PROVE  RewardInv'
  <2>1. /\ \A w \in Rewards : Taken(RewardKey(w))' <=> Taken(RewardKey(w))
        /\ \A w \in Rewards : Taken(RewardKey(w)) => ledger'[RewardKey(w)] = ledger[RewardKey(w)]
    <3>1. CASE ledger' = With(key, owner, amount)
      <4>1. /\ \A k : Taken(k)' <=> (Taken(k) \/ k = key)
            /\ \A k : k # key /\ Taken(k) => ledger'[k] = ledger[k]
        BY <3>1, WithFacts
      <4> QED
        BY <1>4, <4>1
    <3>2. CASE ledger' = ledger
      BY <3>2 DEF Taken
    <3> QED
      BY <1>4, <3>1, <3>2
  <2> QED
    BY <1>1, <1>2, <1>3, <2>1, RewardsAside
<1>5. CASE Checkin(t)
  <2> DEFINE key == << "checkin", << tabs[t].by, tabs[t].with >> >>
  <2>1. ledger' = With(key, tabs[t].by, 10) \/ ledger' = ledger
    BY <1>5 DEF Checkin, Pay, NothingPaid
  <2>2. \A w : key # RewardKey(w)
    BY DEF RewardKey
  <2> QED
    BY <1>4, <2>1, <2>2
<1>6. CASE Score(t)
  <2> DEFINE key == << "record_score", tabs[t].with.record >>
  <2>1. PICK owner, points : ledger' = With(key, owner, points) \/ ledger' = ledger
    BY <1>6 DEF Score, Pay, NothingPaid
  <2>2. \A w : key # RewardKey(w)
    BY DEF RewardKey
  <2> QED
    BY <1>4, <2>1, <2>2
<1> QED
  BY <1>5, <1>6

LEMMA RewardsAtAdd ==
    ASSUME RewardInv, started' = started, NEW p \in Persons, NEW w \in Rewards, AddReward(p, w)
    PROVE  RewardInv'
<1>1. /\ ledger' = ledger /\ redemptions' = redemptions /\ tabs' = tabs /\ started
      /\ w \notin DOMAIN rewards
  BY DEF AddReward, AtOnce
<1>2. PICK owner \in Targets(p) :
        rewards' = [v \in DOMAIN rewards \cup {w} |->
                      IF v = w THEN [owner |-> owner, status |-> "active"] ELSE rewards[v]]
  BY DEF AddReward
<1>3. owner \in Persons
  BY DEF Targets
<1>4. \A key : Taken(key)' <=> Taken(key)
  BY <1>1 DEF Taken
<1>5. /\ DOMAIN rewards' = DOMAIN rewards \cup {w}
      /\ rewards'[w] = [owner |-> owner, status |-> "active"]
      /\ \A v \in DOMAIN rewards : rewards'[v] = rewards[v]
  BY <1>1, <1>2
<1>6. RewardIsTyped(w)' /\ PaidOnce(w)'
  BY <1>1, <1>3, <1>4, <1>5 DEF RewardInv, RewardIsTyped, PaidOnce, Unpaid
<1>7. \A v \in DOMAIN rewards : RewardIsTyped(v)' /\ PaidOnce(v)'
  BY <1>1, <1>4, <1>5 DEF RewardInv, RewardIsTyped, PaidOnce
<1>8. \A v \in Rewards : Unpaid(v)'
  BY <1>1, <1>4, <1>5 DEF RewardInv, Unpaid
<1>9. TabsAreTyped' /\ \A t \in Tabs : Redeeming(t)'
  BY <1>1, <1>5 DEF RewardInv, TabsAreTyped, Redeeming
<1> QED
  BY <1>1, <1>5, <1>6, <1>7, <1>8, <1>9 DEF RewardInv

\* A redemption is refused by the key, or pays what nobody has paid yet.
LEMMA RewardsAtRedeem ==
    ASSUME RewardInv, started' = started, NEW t \in Tabs, Redeem(t)
    PROVE  RewardInv'
<1>0. PICK w, key : w = tabs[t].with /\ key = RewardKey(w)
  OBVIOUS
<1>1. started /\ RequestEnds(t) /\ tabs[t].op = "redeem"
  BY DEF Redeem, RewardInv, NotBegun, Free
<1>2. w \in DOMAIN rewards /\ w \in Rewards /\ rewards[w].owner = tabs[t].by
  BY <1>0, <1>1 DEF RewardInv, Redeeming
<1>3. CASE NothingPaid /\ UNCHANGED << rewards, redemptions >>
  <2>1. TabsAreTyped' /\ \A u \in Tabs : Redeeming(u)'
    BY <1>1, <1>3, RequestEndsFacts
  <2>2. /\ \A v \in Rewards : Taken(RewardKey(v))' <=> Taken(RewardKey(v))
        /\ ledger' = ledger
    BY <1>3 DEF NothingPaid, Taken
  <2> QED
    BY <1>1, <1>3, <2>1, <2>2, RewardsAside
<1>4. CASE /\ Pay(key, tabs[t].by, -Cost[w])
           /\ rewards' = [rewards EXCEPT ![w].status = "redeemed"]
           /\ redemptions' = [redemptions EXCEPT ![w] = @ + 1]
  <2>1. ~Taken(key) /\ ledger' = With(key, tabs[t].by, -Cost[w])
    BY <1>4 DEF Pay
  <2>2. /\ \A k : Taken(k)' <=> (Taken(k) \/ k = key)
        /\ \A k : k # key /\ Taken(k) => ledger'[k] = ledger[k]
        /\ ledger'[key] = [owner |-> tabs[t].by, amount |-> -Cost[w]]
    BY <2>1, WithFacts
  <2>3. \A v : RewardKey(v) = key <=> v = w
    BY <1>0 DEF RewardKey
  <2>4. redemptions[w] = 0
    BY <1>0, <1>2, <2>1 DEF RewardInv, PaidOnce
  <2> DEFINE row == [rewards[w] EXCEPT !.status = "redeemed"]
  <2>5. row.owner = rewards[w].owner /\ row.status = "redeemed" /\ row \in [owner : Persons, status : {"active", "redeemed"}]
    BY <1>2 DEF RewardInv, RewardIsTyped
  <2>6. rewards' = [rewards EXCEPT ![w] = row]
    BY <1>4
  <2> HIDE DEF row
  <2>7. /\ DOMAIN rewards' = DOMAIN rewards /\ rewards'[w] = row
        /\ \A v \in DOMAIN rewards : v # w => rewards'[v] = rewards[v]
    BY <1>2, <2>6
  <2>8. /\ DOMAIN redemptions' = DOMAIN redemptions /\ redemptions'[w] = 1
        /\ redemptions' = [v \in Rewards |-> redemptions'[v]]
        /\ \A v \in Rewards : v # w => redemptions'[v] = redemptions[v]
    BY <1>2, <1>4, <2>4 DEF RewardInv
  <2>9. Taken(key)'
    BY <2>2
  <2>10. RewardIsTyped(w)' /\ PaidOnce(w)'
    BY <1>0, <1>2, <2>2, <2>5, <2>7, <2>8, <2>9 DEF RewardIsTyped, PaidOnce
  <2>11. \A v \in DOMAIN rewards : v # w => RewardIsTyped(v)' /\ PaidOnce(v)'
    BY <2>2, <2>3, <2>7, <2>8 DEF RewardInv, RewardIsTyped, PaidOnce
  <2>12. \A v \in Rewards : Unpaid(v)'
    BY <1>2, <2>2, <2>3, <2>7, <2>8 DEF RewardInv, Unpaid
  <2>13. tabs' = [tabs EXCEPT ![t] = Free]
    BY <1>1 DEF RequestEnds
  <2>14. TabsAreTyped'
    BY <2>13, TabsStayTyped DEF RewardInv, Free
  <2>15. \A u \in Tabs : Redeeming(u)'
    BY <2>5, <2>7, <2>13 DEF RewardInv, TabsAreTyped, Redeeming, Free
  <2> QED
    BY <1>1, <2>7, <2>8, <2>10, <2>11, <2>12, <2>14, <2>15 DEF RewardInv
<1> QED
  BY <1>0, <1>3, <1>4 DEF Redeem, RewardKey

LEMMA RewardsAtStep == RewardInv /\ [CoupleNext]_coupleVars => RewardInv'
<1> SUFFICES ASSUME RewardInv, [CoupleNext]_coupleVars
             PROVE  RewardInv'
  OBVIOUS
<1>1. CASE Open
  BY <1>1, RewardsAtOpen
<1>2. CASE UNCHANGED started /\ RelationshipNext /\ UNCHANGED pointVars
  BY <1>2, RewardsAsideOfOthers
<1>3. ASSUME UNCHANGED started, NEW t \in Tabs, Checkin(t) \/ Score(t) \/ Redeem(t)
      PROVE  RewardInv'
  BY <1>3, RewardsAtCheckinOrScore, RewardsAtRedeem
<1>4. ASSUME UNCHANGED started, NEW t \in Tabs, NEW p \in Persons,
             \/ BeginCheckin(t, p)
             \/ \E r \in ScoredRecords, score \in Scores : BeginScore(t, p, r, score)
      PROVE  RewardInv'
  <2>1. PICK op, on : op # "redeem" /\ Begins(t, Transaction(op, p, on)) /\ UNCHANGED pointVars
    BY <1>4 DEF BeginCheckin, BeginScore
  <2> QED
    BY <1>4, <2>1, RewardsAtBegin
<1>5. ASSUME UNCHANGED started, NEW t \in Tabs, NEW p \in Persons, NEW w \in Rewards, BeginRedeem(t, p, w)
      PROVE  RewardInv'
  BY <1>5, RewardsAtBegin DEF BeginRedeem
<1>6. ASSUME UNCHANGED started, NEW p \in Persons, NEW w \in Rewards, AddReward(p, w)
      PROVE  RewardInv'
  BY <1>6, RewardsAtAdd
<1>7. CASE UNCHANGED coupleVars
  BY <1>7 DEF coupleVars, pointVars, tabVars, relationVars, RewardInv, TabsAreTyped, NotBegun,
       Unpaid, RewardIsTyped, PaidOnce, Redeeming, Taken
<1> QED
  BY <1>1, <1>2, <1>3, <1>4, <1>5, <1>6, <1>7 DEF CoupleNext

\* A reward is paid for once or not at all, however many requests redeem it at once: what a
\* request has read of the reward may be stale, and the ledger's key alone decides.
THEOREM RewardsPaidOnce == CoupleSpec => []RewardsArePaidOnce
<1>1. RewardInv => RewardsArePaidOnce
  BY DEF RewardInv, PaidOnce, RewardsArePaidOnce, RewardKey
<1> QED
  BY <1>1, RewardInit, RewardsAtStep, PTL DEF CoupleSpec

(* Sums.                                                                   *)

SumOf(l, S) == MapThenSumSet(LAMBDA k : l[k].amount, S)
IsSum(g, l, S) ==
    /\ g[{}] = 0
    /\ \A T \in SUBSET S : T # {} =>
         LET k == CHOOSE k \in T : TRUE IN g[T] = l[k].amount + g[T \ {k}]

LEMMA SumIsDefined ==
    ASSUME NEW l, NEW S, IsFiniteSet(S), \A k \in S : l[k].amount \in Int
    PROVE  \E g : IsSum(g, l, S) /\ SumOf(l, S) = g[S]
<1> DEFINE first(T) == CHOOSE k \in T : TRUE
           Eq(g) == g = [T \in SUBSET S |-> IF T = {} THEN 0 ELSE l[first(T)].amount + g[T \ {first(T)}]]
<1>1. \A T \in SUBSET S : T # {} => first(T) \in T
  OBVIOUS
<1>2. \E g : Eq(g)
  <2>1. PICK pick : \A T \in SUBSET S : pick[T] = first(T)
    <3>1. \A T \in SUBSET S : [U \in SUBSET S |-> first(U)][T] = first(T)
      OBVIOUS
    <3> QED
      BY <3>1
  <2>2. PICK G \in [S \X Int -> Int] : \A k \in S, n \in Int : G[<< k, n >>] = l[k].amount + n
    <3> DEFINE G == [x \in S \X Int |-> l[x[1]].amount + x[2]]
    <3>1. G \in [S \X Int -> Int] /\ \A k \in S, n \in Int : G[<< k, n >>] = l[k].amount + n
      OBVIOUS
    <3> QED
      BY <3>1
  <2>3. PICK g \in [SUBSET S -> Int] :
          \A T \in SUBSET S : g[T] = IF T = {} THEN 0 ELSE G[<< pick[T], g[T \ {pick[T]}] >>]
    <3>1. 0 \in Int /\ \A T \in SUBSET S : T # {} => pick[T] \in T
      BY <1>1, <2>1
    <3>2. \E g : IsFold(g, S, Int, 0, G, pick)
      BY <3>1, FoldIsDefined
    <3> QED
      BY <3>2 DEF IsFold
  <2>4. ASSUME NEW T \in SUBSET S
        PROVE  g[T] = IF T = {} THEN 0 ELSE l[first(T)].amount + g[T \ {first(T)}]
    <3>1. CASE T = {}
      BY <2>3, <3>1
    <3>2. CASE T # {}
      <4>1. pick[T] = first(T) /\ first(T) \in S /\ T \ {first(T)} \in SUBSET S
        BY <1>1, <2>1, <3>2
      <4>2. g[T \ {first(T)}] \in Int
        BY <2>3, <4>1
      <4>3. G[<< first(T), g[T \ {first(T)}] >>] = l[first(T)].amount + g[T \ {first(T)}]
        BY <2>2, <4>1, <4>2
      <4>4. g[T] = G[<< pick[T], g[T \ {pick[T]}] >>]
        BY <2>3, <3>2
      <4> QED
        BY <3>2, <4>1, <4>3, <4>4
    <3> QED
      BY <3>1, <3>2
  <2> HIDE DEF first
  <2>5. g = [T \in SUBSET S |-> IF T = {} THEN 0 ELSE l[first(T)].amount + g[T \ {first(T)}]]
    BY <2>3, <2>4
  <2> QED
    BY <2>5
<1> DEFINE h == CHOOSE iter : Eq(iter)
<1>3. Eq(h)
  BY <1>2
<1>4. SumOf(l, S) = h[S]
  BY DEF SumOf, MapThenSumSet, MapThenFoldSet
<1>5. IsSum(h, l, S)
  <2> HIDE DEF h
  <2>1. h[{}] = 0 /\ \A T \in SUBSET S : T # {} => h[T] = l[first(T)].amount + h[T \ {first(T)}]
    BY <1>3
  <2> QED
    BY <2>1 DEF IsSum
<1> QED
  BY <1>4, <1>5

LEMMA SumsAreInts ==
    ASSUME NEW l, NEW S, IsFiniteSet(S), \A k \in S : l[k].amount \in Int, NEW g, IsSum(g, l, S)
    PROVE  \A T \in SUBSET S : g[T] \in Int
<1> DEFINE W == {T \in SUBSET S : g[T] \in Int}
<1>1. ASSUME NEW T \in SUBSET S, \A k \in T : T \ {k} \in W
      PROVE  T \in W
  <2>1. CASE T = {}
    BY <2>1 DEF IsSum
  <2>2. CASE T # {}
    <3>1. PICK k \in T : g[T] = l[k].amount + g[T \ {k}]
      BY <2>2 DEF IsSum
    <3>2. g[T \ {k}] \in Int /\ l[k].amount \in Int
      BY <1>1
    <3> QED
      BY <3>1, <3>2
  <2> QED
    BY <2>1, <2>2
<1>2. SUBSET S \subseteq W
  <2> HIDE DEF W
  <2> QED
    BY <1>1, OneElementLess
<1> QED
  BY <1>2

\* Whichever element is taken out first.
LEMMA AnyFirst ==
    ASSUME NEW l, NEW S, IsFiniteSet(S), \A k \in S : l[k].amount \in Int, NEW g, IsSum(g, l, S)
    PROVE  \A T \in SUBSET S : \A k \in T : g[T] = l[k].amount + g[T \ {k}]
<1> DEFINE W == {T \in SUBSET S : \A k \in T : g[T] = l[k].amount + g[T \ {k}]}
<1>0. \A T \in SUBSET S : g[T] \in Int
  BY SumsAreInts
<1>1. ASSUME NEW T \in SUBSET S, \A k \in T : T \ {k} \in W
      PROVE  T \in W
  <2> SUFFICES ASSUME NEW k \in T
               PROVE  g[T] = l[k].amount + g[T \ {k}]
    OBVIOUS
  <2>1. PICK c \in T : g[T] = l[c].amount + g[T \ {c}]
    BY DEF IsSum
  <2>2. CASE c = k
    BY <2>1, <2>2
  <2>3. CASE c # k
    <3>1. k \in T \ {c} /\ c \in T \ {k} /\ (T \ {c}) \ {k} = (T \ {k}) \ {c}
      BY <2>3
    <3>2. /\ g[T \ {c}] = l[k].amount + g[(T \ {c}) \ {k}]
          /\ g[T \ {k}] = l[c].amount + g[(T \ {k}) \ {c}]
      BY <1>1, <3>1
    <3>3. /\ g[T \ {c}] \in Int /\ g[T \ {k}] \in Int /\ g[(T \ {k}) \ {c}] \in Int
          /\ l[k].amount \in Int /\ l[c].amount \in Int
      <4>1. T \ {c} \in SUBSET S /\ T \ {k} \in SUBSET S /\ (T \ {k}) \ {c} \in SUBSET S
        OBVIOUS
      <4> QED
        BY <1>0, <4>1
    <3>4. (T \ {c}) \ {k} = (T \ {k}) \ {c}
      OBVIOUS
    <3>5. /\ g[T] = l[c].amount + g[T \ {c}]
          /\ g[T \ {c}] = l[k].amount + g[(T \ {k}) \ {c}]
          /\ g[T \ {k}] = l[c].amount + g[(T \ {k}) \ {c}]
      BY <2>1, <3>2, <3>4
    <3>6. \A x, y, z \in Int : x + (y + z) = y + (x + z)
      OBVIOUS
    <3> QED
      BY <3>3, <3>5, <3>6
  <2> QED
    BY <2>2, <2>3
<1>2. SUBSET S \subseteq W
  <2> HIDE DEF W
  <2> QED
    BY <1>1, OneElementLess
<1> QED
  BY <1>2

\* Two lists that agree on a set have the same sum of it.
LEMMA SumsAgree ==
    ASSUME NEW l, NEW m, NEW S, NEW R, IsFiniteSet(S), IsFiniteSet(R),
           NEW g, IsSum(g, l, S), NEW h, IsSum(h, m, R),
           \A k \in S \cap R : l[k].amount = m[k].amount
    PROVE  \A T \in SUBSET (S \cap R) : g[T] = h[T]
<1> DEFINE W == {T \in SUBSET (S \cap R) : g[T] = h[T]}
<1>1. ASSUME NEW T \in SUBSET (S \cap R), \A k \in T : T \ {k} \in W
      PROVE  T \in W
  <2>1. CASE T = {}
    BY <2>1 DEF IsSum
  <2>2. CASE T # {}
    <3>1. PICK k \in T : g[T] = l[k].amount + g[T \ {k}] /\ h[T] = m[k].amount + h[T \ {k}]
      <4> DEFINE c == CHOOSE x \in T : TRUE
      <4>1. c \in T
        BY <2>2
      <4>2. T \in SUBSET S /\ T \in SUBSET R
        OBVIOUS
      <4>3. g[T] = l[c].amount + g[T \ {c}] /\ h[T] = m[c].amount + h[T \ {c}]
        BY <2>2, <4>2 DEF IsSum
      <4> HIDE DEF c
      <4> QED
        BY <4>1, <4>3
    <3> QED
      BY <1>1, <3>1
  <2> QED
    BY <2>1, <2>2
<1>2. IsFiniteSet(S \cap R)
  BY FS_Subset
<1>3. SUBSET (S \cap R) \subseteq W
  <2> HIDE DEF W
  <2> QED
    BY <1>1, <1>2, OneElementLess
<1> QED
  BY <1>3

\* The sum of a set is the amount of any one element and the sum of the others, which may be
\* taken from any list that agrees on them.
LEMMA SumSplits ==
    ASSUME NEW l, NEW m, NEW S, IsFiniteSet(S), NEW k \in S, \A j \in S : l[j].amount \in Int,
           \A j \in S \ {k} : l[j].amount = m[j].amount
    PROVE  /\ SumOf(l, S) = l[k].amount + SumOf(m, S \ {k})
           /\ SumOf(m, S \ {k}) \in Int
<1>1. IsFiniteSet(S \ {k}) /\ \A j \in S \ {k} : m[j].amount \in Int
  BY FS_Subset
<1>2. PICK g : IsSum(g, l, S) /\ SumOf(l, S) = g[S]
  BY SumIsDefined
<1>3. PICK h : IsSum(h, m, S \ {k}) /\ SumOf(m, S \ {k}) = h[S \ {k}]
  BY <1>1, SumIsDefined
<1>4. g[S] = l[k].amount + g[S \ {k}]
  BY <1>2, AnyFirst
<1>5. g[S \ {k}] = h[S \ {k}]
  BY <1>1, <1>2, <1>3, SumsAgree
<1>6. h[S \ {k}] \in Int
  BY <1>1, <1>3, SumsAreInts
<1> QED
  BY <1>2, <1>3, <1>4, <1>5, <1>6

LEMMA SumStays ==
    ASSUME NEW l, NEW m, NEW S, IsFiniteSet(S), \A j \in S : l[j].amount \in Int,
           \A j \in S : l[j].amount = m[j].amount
    PROVE  SumOf(l, S) = SumOf(m, S)
<1>1. PICK g : IsSum(g, l, S) /\ SumOf(l, S) = g[S]
  BY SumIsDefined
<1>2. PICK h : IsSum(h, m, S) /\ SumOf(m, S) = h[S]
  BY SumIsDefined
<1> QED
  BY <1>1, <1>2, SumsAgree

LEMMA SumOfNone == ASSUME NEW l PROVE SumOf(l, {}) = 0
<1>1. IsFiniteSet({})
  BY FS_EmptySet
<1>2. PICK g : IsSum(g, l, {}) /\ SumOf(l, {}) = g[{}]
  BY <1>1, SumIsDefined
<1> QED
  BY <1>2 DEF IsSum

(* Accounts.  A transaction's snapshot knows only rows that are still      *)
(* there, so that a sum changes by what a request adds to the balance.     *)

ScoreKey(r) == << "record_score", r >>
Own(l, p) == {k \in DOMAIN l : l[k].owner = p}
LedgerInv ==
    /\ IsFiniteSet(DOMAIN ledger)
    /\ \A k \in DOMAIN ledger : ledger[k].owner \in Persons /\ ledger[k].amount \in Int
    /\ \A r \in ScoredRecords : Taken(ScoreKey(r)) => ledger[ScoreKey(r)].owner = RecordOwner[r]
    /\ balance = [p \in Persons |-> balance[p]]
    /\ \A p \in Persons : balance[p] \in Int
    /\ overwritten \/ \A p \in Persons : balance[p] = SumOf(ledger, Own(ledger, p))
\* What a request under way will pay with.
Paying(t) ==
    LET me == tabs[t] IN
    /\ me.op \in {"checkin", "redeem"} => me.by \in Persons
    /\ me.op = "redeem" => me.with \in Rewards
    /\ me.op = "score" =>
         /\ me.with.record \in ScoredRecords /\ RecordOwner[me.with.record] \in Persons
         /\ me.with.score \in Scores
         /\ ScoreKey(me.with.record) \in DOMAIN me.ledger =>
              /\ Taken(ScoreKey(me.with.record))
              /\ me.ledger[ScoreKey(me.with.record)].amount \in Int
AccountInv ==
    /\ TabsAreTyped
    /\ LedgerInv
    /\ \A t \in Tabs : Paying(t)

LEMMA AccountInit == CoupleInit => AccountInv
<1> SUFFICES ASSUME CoupleInit
             PROVE  AccountInv
  OBVIOUS
<1>1. DOMAIN ledger = {} /\ balance = [p \in Persons |-> 0] /\ tabs = [t \in Tabs |-> Free]
  BY DEF CoupleInit, RelationshipInit
<1>2. \A p \in Persons : Own(ledger, p) = {} /\ SumOf(ledger, {}) = 0
  BY <1>1, SumOfNone DEF Own
<1>3. LedgerInv
  BY <1>1, <1>2, FS_EmptySet DEF LedgerInv, Taken
<1>4. TabsAreTyped /\ \A t \in Tabs : Paying(t)
  BY <1>1 DEF TabsAreTyped, Paying, Free
<1> QED
  BY <1>3, <1>4 DEF AccountInv

\* A row is added or changed, and the difference goes to its owner's account.
LEMMA LedgerChanges ==
    ASSUME LedgerInv, NEW key, NEW owner \in Persons, NEW amount \in Int, NEW delta \in Int,
           ledger' = With(key, owner, amount),
           balance' = [balance EXCEPT ![owner] = @ + delta],
           \A r \in ScoredRecords : key = ScoreKey(r) => owner = RecordOwner[r],
           overwritten => overwritten',
           IF Taken(key) THEN /\ ledger[key].owner = owner
                              /\ ~overwritten' => delta = amount - ledger[key].amount
                         ELSE delta = amount
    PROVE  LedgerInv'
<1>1. /\ DOMAIN ledger' = DOMAIN ledger \cup {key}
      /\ ledger'[key] = [owner |-> owner, amount |-> amount]
      /\ \A k \in DOMAIN ledger : k # key => ledger'[k] = ledger[k]
  BY DEF With
<1>2. IsFiniteSet(DOMAIN ledger')
  BY <1>1, FS_AddElement DEF LedgerInv
<1>3. \A k \in DOMAIN ledger' : ledger'[k].owner \in Persons /\ ledger'[k].amount \in Int
  BY <1>1 DEF LedgerInv
<1>4. \A r \in ScoredRecords : Taken(ScoreKey(r))' => ledger'[ScoreKey(r)].owner = RecordOwner[r]
  BY <1>1 DEF LedgerInv, Taken
<1>5. /\ balance' = [p \in Persons |-> balance'[p]]
      /\ \A p \in Persons : balance'[p] \in Int
      /\ balance'[owner] = balance[owner] + delta
      /\ \A p \in Persons : p # owner => balance'[p] = balance[p]
  BY DEF LedgerInv
<1>6. ASSUME ~overwritten', NEW p \in Persons
      PROVE  balance'[p] = SumOf(ledger', Own(ledger', p))
  <2>0. \A q \in Persons : balance[q] = SumOf(ledger, Own(ledger, q))
    BY <1>6 DEF LedgerInv
  <2>1. \A q : IsFiniteSet(Own(ledger, q)) /\ IsFiniteSet(Own(ledger', q))
    BY <1>2, FS_Subset DEF Own, LedgerInv
  <2>2. CASE p # owner
    <3>1. Own(ledger', p) = Own(ledger, p)
      BY <1>1, <2>2 DEF Own, Taken
    <3>2. \A k \in Own(ledger, p) : ledger[k].amount \in Int /\ ledger[k].amount = ledger'[k].amount
      BY <1>1, <2>2 DEF Own, Taken, LedgerInv
    <3>3. SumOf(ledger, Own(ledger, p)) = SumOf(ledger', Own(ledger, p))
      BY <2>1, <3>2, SumStays
    <3> QED
      BY <1>5, <2>0, <2>2, <3>1, <3>3
  <2>3. CASE p = owner
    <3> DEFINE new == Own(ledger', p)
               rest == new \ {key}
    <3>1. /\ key \in new
          /\ \A k \in new : ledger'[k].amount \in Int
          /\ \A k \in rest : ledger'[k].amount = ledger[k].amount
      BY <1>1, <1>3, <2>3 DEF Own
    <3>2. SumOf(ledger', new) = ledger'[key].amount + SumOf(ledger, rest) /\ SumOf(ledger, rest) \in Int
      <4>1. IsFiniteSet(new)
        BY <2>1
      <4> HIDE DEF new
      <4> QED
        BY <3>1, <4>1, SumSplits
    <3>3. CASE ~Taken(key)
      <4>1. rest = Own(ledger, p)
        BY <1>1, <2>3, <3>3 DEF Own, Taken
      <4> HIDE DEF new, rest
      <4>2. SumOf(ledger', new) = amount + balance[p]
        BY <1>1, <2>0, <3>2, <4>1
      <4>3. balance[p] \in Int /\ balance'[p] = balance[p] + amount
        BY <1>5, <2>3, <3>3 DEF LedgerInv
      <4> QED
        BY <4>2, <4>3 DEF new
    <3>4. CASE Taken(key)
      <4> DEFINE old == Own(ledger, p)
      <4>1. rest = old \ {key} /\ key \in old /\ \A k \in old : ledger[k].amount \in Int
        BY <1>1, <2>3, <3>4 DEF Own, Taken, LedgerInv
      <4>2. SumOf(ledger, old) = ledger[key].amount + SumOf(ledger, old \ {key})
        <5>1. IsFiniteSet(old)
          BY <2>1
        <5> HIDE DEF old
        <5> QED
          BY <4>1, <5>1, SumSplits
      <4>3. balance[p] = ledger[key].amount + SumOf(ledger, rest)
        BY <2>0, <4>1, <4>2
      <4>4. SumOf(ledger', new) = amount + SumOf(ledger, rest)
        BY <1>1, <3>2
      <4>5. ledger[key].amount \in Int /\ balance'[p] = balance[p] + (amount - ledger[key].amount)
        BY <1>5, <1>6, <2>3, <3>4, <4>1
      <4> HIDE DEF new, rest, old
      <4>6. \A a, b, c \in Int : (a + c) + (b - a) = b + c
        OBVIOUS
      <4> QED
        BY <3>2, <4>3, <4>4, <4>5, <4>6 DEF new
    <3> QED
      BY <3>3, <3>4
  <2> QED
    BY <2>2, <2>3
<1> QED
  BY <1>2, <1>3, <1>4, <1>5, <1>6 DEF LedgerInv

LEMMA LedgerStays == ASSUME LedgerInv, UNCHANGED << balance, ledger, overwritten >> PROVE LedgerInv'
BY DEF LedgerInv, Taken


\* How a request's place changes, as far as it pays.
LEMMA PayingStays ==
    ASSUME TabsAreTyped, \A u \in Tabs : Paying(u), \A k : Taken(k) => Taken(k)',
           NEW t \in Tabs, NEW work, tabs' = [tabs EXCEPT ![t] = work],
           \/ work.op \notin {"checkin", "redeem", "score"}
           \/ Paying(t)'
    PROVE  \A u \in Tabs : Paying(u)'
<1>1. tabs'[t] = work /\ \A u \in Tabs : u # t => tabs'[u] = tabs[u]
  BY DEF TabsAreTyped
<1> QED
  BY <1>1 DEF Paying

\* What leaves the ledger as it is.
LEMMA AccountsAside ==
    ASSUME AccountInv, UNCHANGED << balance, ledger, overwritten >>,
           \/ tabs' = tabs
           \/ \E t \in Tabs : \E work :
                /\ tabs' = [tabs EXCEPT ![t] = work]
                /\ {"op", "at", "by", "with"} \subseteq DOMAIN work
                /\ work.op \notin {"checkin", "redeem", "score"} \/ Paying(t)'
    PROVE  AccountInv'
<1>1. LedgerInv'
  BY LedgerStays DEF AccountInv
<1>2. \A k : Taken(k)' <=> Taken(k)
  BY DEF Taken
<1>3. CASE tabs' = tabs
  BY <1>1, <1>2, <1>3 DEF AccountInv, TabsAreTyped, Paying
<1>4. ASSUME NEW t \in Tabs, NEW work, tabs' = [tabs EXCEPT ![t] = work],
             {"op", "at", "by", "with"} \subseteq DOMAIN work,
             work.op \notin {"checkin", "redeem", "score"} \/ Paying(t)'
      PROVE  AccountInv'
  <2>1. TabsAreTyped'
    BY <1>4, TabsStayTyped DEF AccountInv
  <2>2. \A u \in Tabs : Paying(u)'
    BY <1>2, <1>4, PayingStays DEF AccountInv
  <2> QED
    BY <1>1, <2>1, <2>2 DEF AccountInv
<1> QED
  BY <1>3, <1>4

LEMMA AccountsAsideOfOthers ==
    ASSUME AccountInv, UNCHANGED pointVars, RelationshipNext
    PROVE  AccountInv'
<1>1. UNCHANGED << balance, ledger, overwritten >>
  BY DEF pointVars
<1>0. ASSUME NEW t \in Tabs, NEW work, tabs' = [tabs EXCEPT ![t] = work],
             {"op", "at", "by", "with"} \subseteq DOMAIN work,
             work.op \notin {"checkin", "redeem", "score"}
      PROVE  AccountInv'
  BY <1>0, <1>1, AccountsAside
<1>2. ASSUME NEW t \in Tabs, WriteInvite(t) \/ WriteWithdraw(t) \/ Crash(t)
      PROVE  AccountInv'
  <2>1. tabs' = [tabs EXCEPT ![t] = Free]
    BY <1>2 DEF WriteInvite, WriteWithdraw, Crash, RequestEnds
  <2> QED
    BY <1>0, <2>1 DEF Free
<1>3. ASSUME NEW t \in Tabs, Activate(t)
      PROVE  AccountInv'
  <2>1. CASE tabs' = [tabs EXCEPT ![t] = Free]
    BY <1>0, <2>1 DEF Free
  <2>2. CASE tabs' = [tabs EXCEPT ![t].at = "back"]
    <3> DEFINE me == [tabs[t] EXCEPT !.at = "back"]
    <3>1. /\ {"op", "at", "by", "with"} \subseteq DOMAIN me
          /\ me.op = tabs[t].op
      BY DEF AccountInv, TabsAreTyped
    <3>2. tabs' = [tabs EXCEPT ![t] = me]
      BY <2>2
    <3>3. tabs[t].op = "accept"
      BY <1>3 DEF Activate
    <3> HIDE DEF me
    <3> QED
      BY <1>0, <3>1, <3>2, <3>3
  <2> QED
    BY <1>3, <2>1, <2>2 DEF Activate, RequestEnds, Moves
<1>4. ASSUME NEW t \in Tabs, NEW p \in Persons, NEW q \in Persons, NEW op \in {"reject", "cancel"},
             BeginInvite(t, p, q) \/ BeginAccept(t, p, q) \/ BeginWithdraw(t, op, p, q)
      PROVE  AccountInv'
  <2>1. PICK o \in {"invite", "accept", "reject", "cancel"} : Begins(t, Work(o, "write", p, q))
    BY <1>4 DEF BeginInvite, BeginAccept, BeginWithdraw
  <2>2. tabs' = [tabs EXCEPT ![t] = Work(o, "write", p, q)]
    BY <2>1, BeginsFacts
  <2> QED
    BY <1>0, <2>2 DEF Work
<1>5. ASSUME NEW p \in Persons, NEW view, SwitchView(p, view)
      PROVE  AccountInv'
  BY <1>1, <1>5, AccountsAside DEF SwitchView, AtOnce
<1> QED
  BY <1>2, <1>3, <1>4, <1>5 DEF RelationshipNext

\* A transaction begins with the ledger as it is.
LEMMA AccountsAtBegin ==
    ASSUME AccountInv, UNCHANGED pointVars,
           NEW t, NEW op \in {"checkin", "redeem", "score"}, NEW p \in Persons, NEW on,
           Begins(t, Transaction(op, p, on)),
           op = "redeem" => on \in Rewards,
           op = "score" => /\ on.record \in ScoredRecords /\ RecordOwner[on.record] \in Persons
                           /\ on.score \in Scores
    PROVE  AccountInv'
<1>1. t \in Tabs /\ tabs' = [tabs EXCEPT ![t] = Transaction(op, p, on)]
  BY BeginsFacts
<1>2. tabs'[t] = Transaction(op, p, on)
  BY <1>1 DEF AccountInv, TabsAreTyped
<1>3. UNCHANGED << balance, ledger, overwritten >>
  BY DEF pointVars
<1>4. Paying(t)'
  BY <1>2, <1>3 DEF Paying, Transaction, Taken, AccountInv, LedgerInv
<1> QED
  BY <1>1, <1>3, <1>4, AccountsAside DEF Transaction

\* The end of a transaction that has changed the ledger, or not.
LEMMA AccountsAtEnd ==
    ASSUME AccountInv, LedgerInv', NEW t \in Tabs, RequestEnds(t), DOMAIN ledger \subseteq DOMAIN ledger'
    PROVE  AccountInv'
<1>1. tabs' = [tabs EXCEPT ![t] = Free]
  BY DEF RequestEnds
<1>2. TabsAreTyped'
  BY <1>1, TabsStayTyped DEF AccountInv, Free
<1>3. \A u \in Tabs : Paying(u)'
  BY <1>1, PayingStays DEF AccountInv, Free, Taken
<1> QED
  BY <1>2, <1>3 DEF AccountInv

LEMMA ClampedIsInt == \A score \in Scores : Clamped(score) \in Int
BY AmountsAssumption DEF Clamped

LEMMA AccountsAtPay ==
    ASSUME AccountInv, NEW t \in Tabs, RequestEnds(t), overwritten' = overwritten,
           NEW key, NEW owner \in Persons, NEW amount \in Int,
           \A r \in ScoredRecords : key = ScoreKey(r) => owner = RecordOwner[r],
           Pay(key, owner, amount) \/ NothingPaid
    PROVE  AccountInv'
<1>1. CASE NothingPaid
  <2>1. LedgerInv' /\ DOMAIN ledger \subseteq DOMAIN ledger'
    BY <1>1, LedgerStays DEF AccountInv, NothingPaid
  <2> QED
    BY <2>1, AccountsAtEnd
<1>2. CASE Pay(key, owner, amount)
  <2>1. /\ ~Taken(key) /\ ledger' = With(key, owner, amount)
        /\ balance' = [balance EXCEPT ![owner] = @ + amount]
    BY <1>2 DEF Pay
  <2>2. LedgerInv'
    BY <2>1, LedgerChanges DEF AccountInv
  <2>3. DOMAIN ledger \subseteq DOMAIN ledger'
    BY <2>1 DEF With
  <2> QED
    BY <2>2, <2>3, AccountsAtEnd
<1> QED
  BY <1>1, <1>2

LEMMA AccountsAtScore ==
    ASSUME AccountInv, NEW t \in Tabs, Score(t)
    PROVE  AccountInv'
<1>0. PICK r, key, points, owner : /\ r = tabs[t].with.record /\ key = ScoreKey(r)
                                   /\ points = Clamped(tabs[t].with.score) /\ owner = RecordOwner[r]
  OBVIOUS
<1>1. /\ tabs[t].op = "score" /\ RequestEnds(t)
      /\ owner \in Persons /\ points \in Int /\ r \in ScoredRecords
      /\ key \in DOMAIN tabs[t].ledger => Taken(key) /\ tabs[t].ledger[key].amount \in Int
  BY <1>0, ClampedIsInt DEF Score, AccountInv, Paying
<1>2. \A q \in ScoredRecords : key = ScoreKey(q) => owner = RecordOwner[q]
  BY <1>0 DEF ScoreKey
<1>3. CASE overwritten' = overwritten /\ (Pay(key, owner, points) \/ NothingPaid)
  BY <1>1, <1>2, <1>3, AccountsAtPay
<1>4. CASE /\ key \in DOMAIN tabs[t].ledger
           /\ ledger' = With(key, owner, points)
           /\ balance' = [balance EXCEPT ![owner] = @ + Difference(points, tabs[t].ledger[key].amount)]
           /\ overwritten' = (overwritten \/ ledger[key].amount # tabs[t].ledger[key].amount)
  <2>1. PICK delta : delta = points - tabs[t].ledger[key].amount
    OBVIOUS
  <2>2. delta \in Int /\ Taken(key)
    BY <1>1, <1>4, <2>1
  <2>3. ledger[key].owner = owner
    BY <1>0, <1>1, <2>2 DEF AccountInv, LedgerInv
  <2>4. balance' = [balance EXCEPT ![owner] = @ + delta]
    BY <1>4, <2>1 DEF Difference
  <2>5. /\ ~overwritten' => delta = points - ledger[key].amount
        /\ overwritten => overwritten'
    BY <1>4, <2>1
  <2>6. LedgerInv'
    <3>1. IF Taken(key) THEN /\ ledger[key].owner = owner
                             /\ ~overwritten' => delta = points - ledger[key].amount
                        ELSE delta = points
      BY <2>2, <2>3, <2>5
    <3>2. LedgerInv /\ ledger' = With(key, owner, points)
      BY <1>4 DEF AccountInv
    <3> QED
      BY <1>1, <1>2, <2>2, <2>4, <2>5, <3>1, <3>2, LedgerChanges
  <2>7. DOMAIN ledger \subseteq DOMAIN ledger'
    BY <1>4 DEF With
  <2> QED
    BY <1>1, <2>6, <2>7, AccountsAtEnd
<1> QED
  BY <1>0, <1>3, <1>4 DEF Score, ScoreKey

LEMMA AccountsAtStep == AccountInv /\ [CoupleNext]_coupleVars => AccountInv'
<1> SUFFICES ASSUME AccountInv, [CoupleNext]_coupleVars
             PROVE  AccountInv'
  OBVIOUS
<1>1. CASE Open
  BY <1>1, AccountsAside DEF Open
<1>2. CASE UNCHANGED started /\ RelationshipNext /\ UNCHANGED pointVars
  BY <1>2, AccountsAsideOfOthers
<1>3. ASSUME NEW t \in Tabs, Checkin(t)
      PROVE  AccountInv'
  <2> DEFINE key == << "checkin", << tabs[t].by, tabs[t].with >> >>
  <2>1. /\ RequestEnds(t) /\ overwritten' = overwritten /\ tabs[t].by \in Persons
        /\ Pay(key, tabs[t].by, 10) \/ NothingPaid
    BY <1>3 DEF Checkin, AccountInv, Paying
  <2>2. \A r : key # ScoreKey(r)
    BY DEF ScoreKey
  <2> QED
    BY <2>1, <2>2, AccountsAtPay
<1>4. ASSUME NEW t \in Tabs, Redeem(t)
      PROVE  AccountInv'
  <2> DEFINE key == << "reward_redeem", tabs[t].with >>
  <2>1. /\ RequestEnds(t) /\ overwritten' = overwritten /\ tabs[t].by \in Persons
        /\ tabs[t].with \in Rewards
        /\ Pay(key, tabs[t].by, -Cost[tabs[t].with]) \/ NothingPaid
    BY <1>4 DEF Redeem, AccountInv, Paying
  <2>2. \A r : key # ScoreKey(r)
    BY DEF ScoreKey
  <2>3. -Cost[tabs[t].with] \in Int
    BY <2>1, AmountsAssumption DEF Rewards
  <2> QED
    BY <2>1, <2>2, <2>3, AccountsAtPay
<1>5. ASSUME NEW t \in Tabs, NEW p \in Persons, BeginCheckin(t, p)
      PROVE  AccountInv'
  BY <1>5, AccountsAtBegin DEF BeginCheckin
<1>6. ASSUME NEW t \in Tabs, NEW p \in Persons, NEW r \in ScoredRecords, NEW score \in Scores,
             BeginScore(t, p, r, score)
      PROVE  AccountInv'
  <2>1. RecordOwner[r] \in Persons
    BY <1>6 DEF BeginScore, Targets
  <2> QED
    BY <1>6, <2>1, AccountsAtBegin DEF BeginScore
<1>7. ASSUME NEW t \in Tabs, NEW p \in Persons, NEW w \in Rewards, BeginRedeem(t, p, w)
      PROVE  AccountInv'
  BY <1>7, AccountsAtBegin DEF BeginRedeem
<1>8. ASSUME NEW p \in Persons, NEW w \in Rewards, AddReward(p, w)
      PROVE  AccountInv'
  BY <1>8, AccountsAside DEF AddReward, AtOnce
<1>9. CASE UNCHANGED coupleVars
  BY <1>9, AccountsAside DEF coupleVars, pointVars, tabVars
<1> QED
  BY <1>1, <1>2, <1>3, AccountsAtScore, <1>4, <1>5, <1>6, <1>7, <1>8, <1>9 DEF CoupleNext

\* An account's balance is the sum of its ledger, whatever is checked in, scored and redeemed at
\* once: except after a score that took its difference from an amount another had changed.
THEOREM AccountsBalance == CoupleSpec => []AccountsAddUp
<1>1. AccountInv => AccountsAddUp
  BY DEF AccountInv, LedgerInv, AccountsAddUp, SumOf, Own
<1> QED
  BY <1>1, AccountInit, AccountsAtStep, PTL DEF CoupleSpec

-----------------------------------------------------------------------------
(* Bindings.  As long as one request follows the other and none dies, the  *)
(* one under way knows its rows, and between the two directions of a       *)
(* binding it is the second that is missing.                               *)

Calm == ~overlapped /\ crashes = 0
Alone == \A t, u \in Tabs : Busy(t) /\ Busy(u) => t = u
Backing(t) == tabs[t].op = "accept" /\ tabs[t].at = "back"
Single(p, rows) == \A r \in Persons \ {p} : rows[<< p, r >>] # "active"
\* What a request under way relies on.
Relies(me, rows) ==
    LET p == me.by
        q == me.with
    IN  /\ me.op \in {"invite", "accept", "reject", "cancel"} => p \in Persons /\ q \in Persons /\ p # q
        /\ me.op = "invite" => rows[<< p, q >>] # "active"
        /\ me.op = "reject" => rows[<< q, p >>] # "active"
        /\ me.op = "cancel" => rows[<< p, q >>] # "active"
        /\ me.op = "accept" /\ me.at = "write" => Single(p, rows) /\ Single(q, rows)
        /\ me.op = "accept" /\ me.at = "back" => Coupled([rows EXCEPT ![<< p, q >>] = "active"])

BindingInv ==
    /\ TabsAreTyped
    /\ DOMAIN bindings = DOMAIN NoBinding
    /\ crashes \in Nat
    /\ ~started => NotBegun
    /\ \A t \in Tabs : ~Busy(t) => tabs[t].op = "none"
    /\ Calm =>
         /\ Alone
         /\ (\A t \in Tabs : ~Backing(t)) => Coupled(bindings)
         /\ \A t \in Tabs : Busy(t) => Relies(tabs[t], bindings)

LEMMA PairsAreRows == \A p, q \in Persons : p # q => << p, q >> \in DOMAIN NoBinding
BY DEF NoBinding

\* A row that neither was nor becomes active binds nobody.
LEMMA CoupledAside ==
    ASSUME NEW rows, DOMAIN rows = DOMAIN NoBinding, Coupled(rows),
           NEW pair, rows[pair] # "active", NEW status, status # "active"
    PROVE  Coupled([rows EXCEPT ![pair] = status])
<1> DEFINE next == [rows EXCEPT ![pair] = status]
<1>1. \A p, q \in Persons : p # q => (next[<< p, q >>] = "active" <=> rows[<< p, q >>] = "active")
  BY PairsAreRows
<1> QED
  BY <1>1 DEF Coupled

\* Two who are free become bound by both directions together.
LEMMA CoupledTogether ==
    ASSUME NEW rows, DOMAIN rows = DOMAIN NoBinding, Coupled(rows),
           NEW p \in Persons, NEW q \in Persons, p # q, Single(p, rows), Single(q, rows)
    PROVE  Coupled([[rows EXCEPT ![<< q, p >>] = "active"] EXCEPT ![<< p, q >>] = "active"])
<1> DEFINE half == [rows EXCEPT ![<< q, p >>] = "active"]
           next == [half EXCEPT ![<< p, q >>] = "active"]
<1>1. << p, q >> \in DOMAIN rows /\ << q, p >> \in DOMAIN rows
  BY PairsAreRows
<1>2. \A a, b \in Persons : a # b =>
        (next[<< a, b >>] = "active" <=>
           rows[<< a, b >>] = "active" \/ (a = p /\ b = q) \/ (a = q /\ b = p))
  BY <1>1, PairsAreRows
<1> HIDE DEF next, half
<1>3. ASSUME NEW a \in Persons, NEW b \in Persons, a # b, next[<< a, b >>] = "active"
      PROVE  /\ next[<< b, a >>] = "active"
             /\ \A r \in Persons \ {a} : next[<< a, r >>] = "active" => r = b
  <2>1. CASE rows[<< a, b >>] = "active"
    <3>1. rows[<< b, a >>] = "active" /\ \A r \in Persons \ {a} : rows[<< a, r >>] = "active" => r = b
      BY <1>3, <2>1 DEF Coupled
    <3>2. a # p /\ a # q /\ b # p /\ b # q
      BY <1>3, <2>1, <3>1 DEF Single
    <3> QED
      BY <1>2, <1>3, <3>1, <3>2
  <2>2. CASE a = p /\ b = q
    BY <1>2, <2>2 DEF Single
  <2>3. CASE a = q /\ b = p
    BY <1>2, <2>3 DEF Single
  <2> QED
    BY <1>2, <1>3, <2>1, <2>2, <2>3
<1> QED
  BY <1>3 DEF Coupled, next, half

\* Who may invite or accept whom: with no binding to anybody else, and none between the two.
LEMMA FreeToBind ==
    ASSUME Coupled(bindings), NEW p \in Persons, NEW q \in Persons, p # q,
           requireNoOtherActiveBinding(p, q), bindings[<< q, p >>] # "active"
    PROVE  Single(p, bindings) /\ Single(q, bindings)
<1>1. bindings[<< p, q >>] # "active"
  BY DEF Coupled
<1>2. ASSUME NEW a \in {p, q}, NEW b \in {p, q}, a # b,
             \E bound \in ActiveTargets(a) : bound \in {"none", b}
      PROVE  Single(a, bindings)
  <2>1. PICK bound \in ActiveTargets(a) : bound \in {"none", b}
    BY <1>2
  <2>2. b \notin Targets(a)
    BY <1>1, <1>2 DEF Targets
  <2>3. Targets(a) = {}
    BY <2>1, <2>2, PersonsAssumption DEF ActiveTargets, Targets
  <2> QED
    BY <1>2, <2>3 DEF Targets, Single
<1> QED
  BY <1>2 DEF requireNoOtherActiveBinding

LEMMA BindingsInit == CoupleInit => BindingInv
<1> SUFFICES ASSUME CoupleInit
             PROVE  BindingInv
  OBVIOUS
<1>1. /\ bindings = NoBinding /\ crashes = 0 /\ tabs = [t \in Tabs |-> Free]
  BY DEF CoupleInit, RelationshipInit
<1>2. Coupled(bindings)
  <2>1. \A p, q \in Persons : p # q => NoBinding[<< p, q >>] = "none"
    BY DEF NoBinding
  <2> QED
    BY <1>1, <2>1 DEF Coupled
<1>3. \A t \in Tabs : ~Busy(t) /\ tabs[t] = Free
  BY <1>1 DEF Busy, Free
<1>4. TabsAreTyped
  BY <1>1, <1>3 DEF TabsAreTyped, Free
<1> QED
  BY <1>1, <1>2, <1>3, <1>4 DEF BindingInv, NotBegun, Alone, Free

\* A request begins: the one that goes first knows what it has read.
LEMMA BindingsAtBegin ==
    ASSUME BindingInv, UNCHANGED << bindings, started >>, NEW t, NEW work, Begins(t, work),
           {"op", "at", "by", "with"} \subseteq DOMAIN work, work.at \in {"read", "write"},
           Coupled(bindings) => Relies(work, bindings)
    PROVE  BindingInv'
<1>1. /\ t \in Tabs /\ ~Busy(t) /\ started /\ tabs' = [tabs EXCEPT ![t] = work]
      /\ overlapped' = (overlapped \/ \E u \in Tabs : Busy(u)) /\ crashes' = crashes
  BY BeginsFacts DEF Busy
<1>2. TabsAreTyped'
  BY <1>1, TabsStayTyped DEF BindingInv
<1>3. tabs'[t] = work /\ \A u \in Tabs : u # t => tabs'[u] = tabs[u]
  BY <1>1 DEF BindingInv, TabsAreTyped
<1>4. ASSUME Calm'
      PROVE  /\ Alone' /\ Coupled(bindings')
             /\ \A u \in Tabs : Busy(u)' => Relies(tabs'[u], bindings')
  <2>1. Calm /\ \A u \in Tabs : ~Busy(u)
    BY <1>1, <1>4 DEF Calm
  <2>2. Coupled(bindings)
    BY <2>1 DEF BindingInv, Backing, Busy
  <2>3. \A u \in Tabs : Busy(u)' => u = t
    BY <1>3, <2>1 DEF Busy
  <2> QED
    BY <1>3, <2>2, <2>3 DEF Alone
<1>5. \A u \in Tabs : ~Busy(u)' => tabs'[u].op = "none"
  BY <1>1, <1>3 DEF BindingInv, Busy
<1> QED
  BY <1>1, <1>2, <1>4, <1>5 DEF BindingInv

\* A request ends, and leaves everybody free and the bindings whole.
LEMMA BindingsAtEnd ==
    ASSUME BindingInv, started' = started, NEW t \in Tabs, RequestEnds(t), tabs[t].op # "none",
           DOMAIN bindings' = DOMAIN bindings, Calm => Coupled(bindings')
    PROVE  BindingInv'
<1>1. tabs' = [tabs EXCEPT ![t] = Free] /\ overlapped' = overlapped /\ crashes' = crashes
  BY DEF RequestEnds
<1>2. Busy(t) /\ started
  BY DEF BindingInv, NotBegun, Free
<1>3. TabsAreTyped'
  BY <1>1, TabsStayTyped DEF BindingInv, Free
<1>4. tabs'[t] = Free /\ \A u \in Tabs : u # t => tabs'[u] = tabs[u]
  BY <1>1 DEF BindingInv, TabsAreTyped
<1>5. ASSUME Calm'
      PROVE  (\A u \in Tabs : ~Busy(u)') /\ Coupled(bindings')
  BY <1>1, <1>2, <1>4, <1>5 DEF BindingInv, Calm, Alone, Busy, Free
<1>6. \A u \in Tabs : ~Busy(u)' => tabs'[u].op = "none"
  BY <1>4 DEF BindingInv, Busy, Free
<1>7. Calm' => Alone' /\ Coupled(bindings')
               /\ \A u \in Tabs : Busy(u)' => Relies(tabs'[u], bindings')
  BY <1>5 DEF Alone
<1> QED
  BY <1>1, <1>2, <1>3, <1>6, <1>7 DEF BindingInv

\* While only one is under way, and it has not written the first of two directions, the bindings
\* are whole.
LEMMA BindingsAreWhole ==
    ASSUME BindingInv, Calm, NEW t \in Tabs, Busy(t), ~Backing(t)
    PROVE  Coupled(bindings) /\ Relies(tabs[t], bindings)
<1>1. \A u \in Tabs : ~Backing(u)
  BY DEF BindingInv, Alone, Busy, Backing
<1> QED
  BY <1>1 DEF BindingInv


LEMMA BindingsAtWrite ==
    ASSUME BindingInv, started' = started, NEW t \in Tabs, WriteInvite(t) \/ WriteWithdraw(t)
    PROVE  BindingInv'
<1>1. RequestEnds(t) /\ tabs[t].op \in {"invite", "reject", "cancel"}
  BY DEF WriteInvite, WriteWithdraw
<1>2. PICK p, q : p = tabs[t].by /\ q = tabs[t].with
  OBVIOUS
<1>3. PICK pair, status :
        /\ bindings' = [bindings EXCEPT ![pair] = status] /\ status # "active"
        /\ \/ tabs[t].op = "invite" /\ pair = << p, q >>
           \/ tabs[t].op = "reject" /\ pair = << q, p >>
           \/ tabs[t].op = "cancel" /\ pair = << p, q >>
  BY <1>2 DEF WriteInvite, WriteWithdraw
<1>4. Calm => Coupled(bindings')
  <2> SUFFICES ASSUME Calm
               PROVE  Coupled(bindings')
    OBVIOUS
  <2>1. Busy(t) /\ ~Backing(t)
    BY <1>1 DEF BindingInv, Backing
  <2>2. Coupled(bindings) /\ Relies(tabs[t], bindings)
    BY <2>1, BindingsAreWhole
  <2>3. bindings[pair] # "active"
    BY <1>2, <1>3, <2>2 DEF Relies
  <2> QED
    BY <1>3, <2>2, <2>3, CoupledAside DEF BindingInv
<1> QED
  BY <1>1, <1>3, <1>4, BindingsAtEnd

\* Between the two directions of a binding, nobody else has begun.
LEMMA BindingsAtActivate ==
    ASSUME BindingInv, started' = started, NEW t \in Tabs, Activate(t)
    PROVE  BindingInv'
<1>1. PICK p, q : p = tabs[t].by /\ q = tabs[t].with
  OBVIOUS
<1>2. tabs[t].op = "accept" /\ Busy(t)
  BY DEF Activate, BindingInv
<1>3. CASE /\ tabs[t].at = "back" /\ RequestEnds(t)
           /\ bindings' = [bindings EXCEPT ![<< p, q >>] = "active"]
  <2>1. Calm => Coupled(bindings')
    BY <1>1, <1>2, <1>3 DEF BindingInv, Relies
  <2> QED
    BY <1>2, <1>3, <2>1, BindingsAtEnd
<1>4. CASE /\ tabs[t].at = "write" /\ Moves(t, "back")
           /\ bindings' = [bindings EXCEPT ![<< q, p >>] = "active"]
  <2> DEFINE me == [tabs[t] EXCEPT !.at = "back"]
  <2>1. /\ tabs' = [tabs EXCEPT ![t] = me] /\ overlapped' = overlapped /\ crashes' = crashes
    BY <1>4 DEF Moves
  <2>2. me.op = "accept" /\ me.at = "back" /\ me.by = p /\ me.with = q
    BY <1>1, <1>2 DEF BindingInv, TabsAreTyped
  <2>3. {"op", "at", "by", "with"} \subseteq DOMAIN me
    BY DEF BindingInv, TabsAreTyped
  <2> HIDE DEF me
  <2>4. TabsAreTyped' /\ tabs'[t] = me /\ \A u \in Tabs : u # t => tabs'[u] = tabs[u]
    BY <2>1, <2>3, TabsStayTyped DEF BindingInv, TabsAreTyped
  <2>5. DOMAIN bindings' = DOMAIN bindings /\ started
    BY <1>2, <1>4 DEF BindingInv, NotBegun, Free
  <2>6. ASSUME Calm
        PROVE  Alone' /\ \A u \in Tabs : Busy(u)' => u = t
    BY <1>2, <2>2, <2>4, <2>6 DEF BindingInv, Alone, Busy
  <2>7. ASSUME Calm
        PROVE  Relies(me, bindings')
    <3>1. Coupled(bindings) /\ Relies(tabs[t], bindings)
      BY <1>2, <1>4, <2>7, BindingsAreWhole DEF Backing
    <3>2. p \in Persons /\ q \in Persons /\ p # q /\ Single(p, bindings) /\ Single(q, bindings)
      BY <1>1, <1>2, <1>4, <3>1 DEF Relies
    <3>3. Coupled([bindings' EXCEPT ![<< p, q >>] = "active"])
      BY <1>4, <3>1, <3>2, CoupledTogether DEF BindingInv
    <3> QED
      BY <2>2, <3>2, <3>3 DEF Relies
  <2>8. \A u \in Tabs : ~Busy(u)' => tabs'[u].op = "none"
    BY <2>2, <2>4 DEF BindingInv, Busy
  <2>9. Backing(t)'
    BY <2>2, <2>4 DEF Backing
  <2>10. Calm' => /\ Alone' /\ ((\A u \in Tabs : ~Backing(u)') => Coupled(bindings'))
                  /\ \A u \in Tabs : Busy(u)' => Relies(tabs'[u], bindings')
    BY <2>1, <2>4, <2>6, <2>7, <2>9 DEF Calm
  <2> QED
    BY <2>1, <2>4, <2>5, <2>8, <2>10 DEF BindingInv
<1> QED
  BY <1>1, <1>3, <1>4 DEF Activate

\* A request that dies leaves what it has written; nothing is promised from then on.
LEMMA BindingsAtCrash ==
    ASSUME BindingInv, started' = started, NEW t \in Tabs, Crash(t)
    PROVE  BindingInv'
<1>1. /\ tabs' = [tabs EXCEPT ![t] = Free] /\ bindings' = bindings /\ crashes' = crashes + 1
      /\ tabs[t].op # "none"
  BY DEF Crash
<1>2. started
  BY <1>1 DEF BindingInv, NotBegun, Free
<1>5. TabsAreTyped'
  BY <1>1, TabsStayTyped DEF BindingInv, Free
<1>3. ~Calm' /\ crashes' \in Nat
  BY <1>1 DEF BindingInv, Calm
<1>4. \A u \in Tabs : ~Busy(u)' => tabs'[u].op = "none"
  BY <1>1 DEF BindingInv, TabsAreTyped, Busy, Free
<1> QED
  BY <1>1, <1>2, <1>3, <1>4, <1>5 DEF BindingInv

LEMMA BindingsAtRest ==
    ASSUME BindingInv, UNCHANGED << bindings, tabs, crashes, overlapped, started >>
    PROVE  BindingInv'
BY DEF BindingInv, TabsAreTyped, NotBegun, Busy, Calm, Alone, Backing

LEMMA BindingsAtOpen == BindingInv /\ Open => BindingInv'
<1> SUFFICES ASSUME BindingInv, Open
             PROVE  BindingInv'
  OBVIOUS
<1>1. PICK start \in Starts : bindings' = StartRows(start)
  BY DEF Open
<1>2. Coupled(bindings') /\ DOMAIN bindings' = DOMAIN NoBinding
  BY <1>1, StartsAssumption DEF StartRows
<1>3. tabs' = tabs /\ crashes' = crashes /\ overlapped' = overlapped /\ started'
      /\ \A t \in Tabs : tabs[t] = Free
  BY DEF Open, BindingInv, NotBegun
<1>4. TabsAreTyped' /\ \A t \in Tabs : (~Busy(t))' /\ tabs'[t].op = "none"
  BY <1>3 DEF BindingInv, TabsAreTyped, Busy, Free
<1> QED
  BY <1>2, <1>3, <1>4 DEF BindingInv, Alone

LEMMA BindingsAtRelationship ==
    ASSUME BindingInv, started' = started, RelationshipNext
    PROVE  BindingInv'
<1>1. ASSUME NEW t \in Tabs, NEW p \in Persons, NEW q \in Persons, BeginInvite(t, p, q)
      PROVE  BindingInv'
  <2> DEFINE work == Work("invite", "write", p, q)
  <2>1. Begins(t, work) /\ bindings' = bindings /\ p # q /\ bindings[<< p, q >>] # "active"
    BY <1>1 DEF BeginInvite, relationVars
  <2>2. Relies(work, bindings) /\ work.at = "write" /\ {"op", "at", "by", "with"} \subseteq DOMAIN work
    BY <2>1 DEF Relies, Work
  <2> QED
    BY <2>1, <2>2, BindingsAtBegin
<1>2. ASSUME NEW t \in Tabs, NEW p \in Persons, NEW q \in Persons, BeginAccept(t, p, q)
      PROVE  BindingInv'
  <2> DEFINE work == Work("accept", "write", p, q)
  <2>1. /\ Begins(t, work) /\ bindings' = bindings /\ p # q
        /\ bindings[<< q, p >>] = "pending" /\ requireNoOtherActiveBinding(p, q)
    BY <1>2 DEF BeginAccept, relationVars
  <2>2. Coupled(bindings) => Relies(work, bindings)
    BY <2>1, FreeToBind DEF Relies, Work
  <2>3. work.at = "write" /\ {"op", "at", "by", "with"} \subseteq DOMAIN work
    BY DEF Work
  <2> QED
    BY <2>1, <2>2, <2>3, BindingsAtBegin
<1>3. ASSUME NEW t \in Tabs, NEW p \in Persons, NEW q \in Persons, NEW op \in {"reject", "cancel"},
             BeginWithdraw(t, op, p, q)
      PROVE  BindingInv'
  <2> DEFINE work == Work(op, "write", p, q)
  <2>1. /\ Begins(t, work) /\ bindings' = bindings /\ p # q
        /\ bindings[IF op = "reject" THEN << q, p >> ELSE << p, q >>] = "pending"
    BY <1>3 DEF BeginWithdraw, relationVars
  <2>2. Relies(work, bindings) /\ work.at = "write" /\ {"op", "at", "by", "with"} \subseteq DOMAIN work
    BY <2>1 DEF Relies, Work
  <2> QED
    BY <2>1, <2>2, BindingsAtBegin
<1>4. ASSUME NEW p \in Persons, NEW view, SwitchView(p, view)
      PROVE  BindingInv'
  BY <1>4, BindingsAtRest DEF SwitchView, AtOnce
<1> QED
  BY <1>1, <1>2, <1>3, <1>4, BindingsAtWrite, BindingsAtActivate, BindingsAtCrash DEF RelationshipNext

LEMMA BindingsAtStep == BindingInv /\ [CoupleNext]_coupleVars => BindingInv'
<1> SUFFICES ASSUME BindingInv, [CoupleNext]_coupleVars
             PROVE  BindingInv'
  OBVIOUS
<1>1. ASSUME UNCHANGED started, NEW t \in Tabs, Checkin(t) \/ Score(t) \/ Redeem(t)
      PROVE  BindingInv'
  <2>1. RequestEnds(t) /\ bindings' = bindings /\ tabs[t].op \in {"checkin", "score", "redeem"}
    BY <1>1 DEF Checkin, Score, Redeem, relationVars
  <2>2. Calm => Coupled(bindings')
    BY <2>1, BindingsAreWhole DEF BindingInv, Backing
  <2> QED
    BY <1>1, <2>1, <2>2, BindingsAtEnd
<1>2. ASSUME UNCHANGED started, NEW t \in Tabs, NEW p \in Persons,
             \/ BeginCheckin(t, p)
             \/ \E r \in ScoredRecords, score \in Scores : BeginScore(t, p, r, score)
             \/ \E w \in Rewards : BeginRedeem(t, p, w)
      PROVE  BindingInv'
  <2>1. PICK op, on : /\ op \in {"checkin", "score", "redeem"}
                      /\ Begins(t, Transaction(op, p, on)) /\ UNCHANGED bindings
    <3>1. CASE BeginCheckin(t, p)
      BY <3>1 DEF BeginCheckin, relationVars
    <3>2. CASE \E r \in ScoredRecords, score \in Scores : BeginScore(t, p, r, score)
      BY <3>2 DEF BeginScore, relationVars
    <3>3. CASE \E w \in Rewards : BeginRedeem(t, p, w)
      BY <3>3 DEF BeginRedeem, relationVars
    <3> QED
      BY <1>2, <3>1, <3>2, <3>3
  <2> DEFINE work == Transaction(op, p, on)
  <2>2. /\ Relies(work, bindings) /\ work.at = "read"
        /\ {"op", "at", "by", "with"} \subseteq DOMAIN work
    BY <2>1 DEF Relies, Transaction
  <2> QED
    BY <1>2, <2>1, <2>2, BindingsAtBegin
<1>3. ASSUME UNCHANGED started, NEW p \in Persons, NEW w \in Rewards, AddReward(p, w)
      PROVE  BindingInv'
  BY <1>3, BindingsAtRest DEF AddReward, AtOnce, relationVars
<1>4. CASE UNCHANGED coupleVars
  BY <1>4, BindingsAtRest DEF coupleVars, tabVars, relationVars
<1> QED
  BY <1>1, <1>2, <1>3, <1>4, BindingsAtOpen, BindingsAtRelationship DEF CoupleNext

\* Whatever is invited, accepted, rejected and cancelled, one after the other, nobody is bound to
\* two people, and who is bound is bound both ways: no request has to undo another's.
THEOREM BindingsStayMutual == CoupleSpec => []BindingsAreMutual
<1>1. BindingInv => BindingsAreMutual
  <2> SUFFICES ASSUME BindingInv, ~overlapped, crashes = 0, \A t \in Tabs : tabs[t].at = "free",
                      NEW p \in Persons
               PROVE  Cardinality(Targets(p)) <= 1 /\ \A q \in Targets(p) : p \in Targets(q)
    BY DEF BindingsAreMutual
  <2>1. Coupled(bindings)
    BY DEF BindingInv, Calm, Backing
  <2>2. \A q \in Targets(p) : p \in Targets(q) /\ Targets(p) = {q}
    BY <2>1 DEF Coupled, Targets
  <2>3. Cardinality(Targets(p)) <= 1
    <3>1. CASE Targets(p) = {}
      <4>1. Cardinality(Targets(p)) = 0
        BY <3>1, FS_EmptySet
      <4> QED
        BY <4>1
    <3>2. CASE \E q : Targets(p) = {q}
      <4>1. Cardinality(Targets(p)) = 1
        BY <3>2, FS_Singleton
      <4> QED
        BY <4>1
    <3> QED
      BY <2>2, <3>1, <3>2
  <2> QED
    BY <2>2, <2>3
<1> QED
  BY <1>1, BindingsInit, BindingsAtStep, PTL DEF CoupleSpec

(* The rows are of the kinds they should be, and no bound is passed.       *)

LEMMA RelationsStart == CoupleInit => RelationshipTypeOK
<1>1. CoupleInit => bindings \in [DOMAIN NoBinding -> {"none", "pending", "active", "declined", "cancelled"}]
  BY DEF CoupleInit, RelationshipInit, NoBinding
<1> QED
  BY <1>1, RelationshipBounds DEF CoupleInit, RelationshipInit, RelationshipTypeOK

LEMMA RelationsStep == RelationshipTypeOK /\ [CoupleNext]_coupleVars => RelationshipTypeOK'
<1> SUFFICES ASSUME RelationshipTypeOK, [CoupleNext]_coupleVars
             PROVE  RelationshipTypeOK'
  OBVIOUS
<1>0. PICK Pairs, Statuses, Roles :
        /\ Pairs = DOMAIN NoBinding /\ Statuses = {"none", "pending", "active", "declined", "cancelled"}
        /\ Roles = {"user", "bound_admin"}
  OBVIOUS
<1>1. /\ bindings \in [Pairs -> Statuses] /\ views \in [Persons -> Roles]
      /\ requests \in 0..MaxRequests /\ crashes \in 0..MaxCrashes
  BY <1>0 DEF RelationshipTypeOK
<1>2. ASSUME bindings' \in [Pairs -> Statuses], views' \in [Persons -> Roles],
             requests' \in 0..MaxRequests, crashes' \in 0..MaxCrashes
      PROVE  RelationshipTypeOK'
  BY <1>0, <1>2 DEF RelationshipTypeOK, NoBinding
<1>3. CASE Open
  <2>1. PICK start \in Starts :
          bindings' = StartRows(start) /\ views' = start.views /\ requests' = start.spent
    BY <1>3 DEF Open
  <2>2. StartRows(start) \in [Pairs -> Statuses]
    BY <1>0, <2>1, StartsAssumption DEF StartRows
  <2> QED
    BY <1>0, <1>1, <1>2, <1>3, <2>1, <2>2, StartsAssumption DEF Open
<1>4. ASSUME NEW t, NEW work, Begins(t, work), UNCHANGED relationVars
      PROVE  RelationshipTypeOK'
  BY <1>1, <1>2, <1>4, RelationshipBounds DEF Begins, relationVars
<1>5. ASSUME NEW t, RequestEnds(t), UNCHANGED relationVars
      PROVE  RelationshipTypeOK'
  BY <1>1, <1>2, <1>5 DEF RequestEnds, relationVars
<1>6. ASSUME NEW t \in Tabs, WriteInvite(t) \/ Activate(t) \/ WriteWithdraw(t)
      PROVE  RelationshipTypeOK'
  <2>1. views' = views /\ requests' = requests /\ crashes' = crashes
    BY <1>6 DEF WriteInvite, Activate, WriteWithdraw, RequestEnds, Moves
  <2>2. PICK status \in Statuses : \E pair : bindings' = [bindings EXCEPT ![pair] = status]
    BY <1>0, <1>6 DEF WriteInvite, Activate, WriteWithdraw
  <2> QED
    BY <1>1, <1>2, <2>1, <2>2
<1>7. ASSUME NEW t \in Tabs, Crash(t)
      PROVE  RelationshipTypeOK'
  BY <1>1, <1>2, <1>7, RelationshipBounds DEF Crash
<1>8. ASSUME AtOnce, bindings' = bindings, views' \in [Persons -> Roles]
      PROVE  RelationshipTypeOK'
  BY <1>1, <1>2, <1>8, RelationshipBounds DEF AtOnce
<1>9. ASSUME NEW p \in Persons, NEW view \in {"user", "bound_admin"}, SwitchView(p, view)
      PROVE  RelationshipTypeOK'
  BY <1>0, <1>1, <1>8, <1>9 DEF SwitchView
<1>10. CASE RelationshipNext
  BY <1>4, <1>6, <1>7, <1>9, <1>10 DEF RelationshipNext, BeginInvite, BeginAccept, BeginWithdraw
<1>11. ASSUME NEW t \in Tabs, Checkin(t) \/ Score(t) \/ Redeem(t)
       PROVE  RelationshipTypeOK'
  BY <1>5, <1>11 DEF Checkin, Score, Redeem
<1>12. ASSUME NEW t \in Tabs, NEW p \in Persons,
              \/ BeginCheckin(t, p) \/ \E w \in Rewards : BeginRedeem(t, p, w)
              \/ \E r \in ScoredRecords, score \in Scores : BeginScore(t, p, r, score)
       PROVE  RelationshipTypeOK'
  BY <1>4, <1>12 DEF BeginCheckin, BeginScore, BeginRedeem
<1>13. ASSUME NEW p \in Persons, NEW w \in Rewards, AddReward(p, w)
       PROVE  RelationshipTypeOK'
  BY <1>1, <1>8, <1>13 DEF AddReward, relationVars
<1>14. CASE UNCHANGED coupleVars
  BY <1>1, <1>2, <1>14 DEF coupleVars, relationVars, tabVars
<1> QED
  BY <1>3, <1>10, <1>11, <1>12, <1>13, <1>14 DEF CoupleNext

\* Bindings, views, accounts and rewards are of the kinds they should be, and no bound is passed.
THEOREM CoupleIsTyped == CoupleSpec => []CoupleTypeOK
<1> DEFINE Counted == redemptions \in [Rewards -> Nat]
<1>1. CoupleInit => Counted
  BY DEF CoupleInit
<1>2. Counted /\ [CoupleNext]_coupleVars => Counted'
  <2> SUFFICES ASSUME Counted, [CoupleNext]_coupleVars PROVE Counted'
    OBVIOUS
  <2>1. ASSUME NEW t \in Tabs, Redeem(t) PROVE Counted'
    BY <2>1 DEF Redeem
  <2>2. CASE redemptions' = redemptions
    BY <2>2
  <2> QED
    BY <2>1, <2>2 DEF CoupleNext, coupleVars, pointVars, Open, Checkin, Score, BeginCheckin, BeginScore,
         BeginRedeem, AddReward
<1>3. RelationshipTypeOK /\ AccountInv /\ RewardInv /\ Counted => CoupleTypeOK
  BY DEF AccountInv, LedgerInv, RewardInv, RewardIsTyped, CoupleTypeOK
<1> QED
  BY <1>1, <1>2, <1>3, RelationsStart, RelationsStep, AccountInit, AccountsAtStep, RewardInit, RewardsAtStep,
     PTL DEF CoupleSpec

-----------------------------------------------------------------------------
(* The routes of the language models: how a failure is classified.         *)

\* The least place of a short sequence.
LEMMA LeastOfTen ==
    ASSUME NEW S \in SUBSET (1..10), S # {}
    PROVE  Min(S) \in S /\ \A n \in S : Min(S) <= n
<1>1. \E x \in S : \A y \in S : x <= y
  <2> DEFINE Below(m) == (\E n \in 1..m : n \in S) => \E x \in S : \A y \in S : x <= y
  <2>1. Below(1)
    OBVIOUS
  <2>2. Below(2)
    BY <2>1
  <2>3. Below(3)
    BY <2>2
  <2>4. Below(4)
    BY <2>3
  <2>5. Below(5)
    BY <2>4
  <2>6. Below(6)
    BY <2>5
  <2>7. Below(7)
    BY <2>6
  <2>8. Below(8)
    BY <2>7
  <2>9. Below(9)
    BY <2>8
  <2>10. Below(10)
    BY <2>9
  <2> QED
    BY <2>10
<1> QED
  BY <1>1 DEF Min

\* A refusal is never taken for a provider that is out of reach, whatever its text says.
LEMMA RefusalIsNotEligible ==
    ASSUME NEW e \in Failures, Refusal(e)
    PROVE  classify_llm_exception(e) \notin FALLBACK_ELIGIBLE_ERROR_TYPES
<1> DEFINE rules == CodeRules \o ClassRules \o TextRules
           Fits(r) == e.code \in r.codes \/ e.classes \cap r.classes # {} \/ e.texts \cap r.texts # {}
           fitting == {k \in DOMAIN rules : Fits(rules[k])}
<1>1. /\ DOMAIN rules = 1..10
      /\ rules[1] = Rule({401, 403}, {}, {}, "auth_error")
      /\ rules[2] = Rule({429}, {}, {}, "rate_limit")
      /\ rules[3] = Rule(500..599, {}, {}, "server_error")
      /\ rules[4] = Rule({}, {"authentication", "permissiondenied"}, {}, "auth_error")
      /\ rules[5] = Rule({}, {"ratelimit"}, {}, "rate_limit")
      /\ rules[6] = Rule({}, {"badrequest", "invalidrequest"}, {}, "bad_request")
  BY DEF CodeRules, ClassRules, TextRules
<1> HIDE DEF rules
<1>2. \E k \in {1, 2, 4, 5, 6} : k \in fitting
  BY <1>1 DEF Refusal, Rule
<1>3. 3 \notin fitting
  BY <1>1, FailuresAssumption DEF Refusal, Rule
<1>4. Min(fitting) \in {1, 2, 4, 5, 6}
  <2>1. fitting \in SUBSET (1..10)
    BY <1>1
  <2> HIDE DEF fitting
  <2>2. Min(fitting) \in fitting /\ \A n \in fitting : Min(fitting) <= n
    BY <1>2, <2>1, LeastOfTen
  <2>3. PICK k \in {1, 2, 4, 5, 6} : k \in fitting
    BY <1>2
  <2>4. PICK m : m = Min(fitting)
    OBVIOUS
  <2>5. m \in 1..10 /\ m <= k /\ m # 3
    BY <1>3, <2>1, <2>2, <2>3, <2>4
  <2>6. m \in {1, 2, 4, 5, 6}
    BY <2>3, <2>5
  <2> QED
    BY <2>4, <2>6
<1>5. classify_llm_exception(e) = rules[Min(fitting)].gives
  BY <1>2 DEF classify_llm_exception, Decide, rules
<1>6. rules[Min(fitting)].gives \in {"auth_error", "rate_limit", "bad_request"}
  BY <1>1, <1>4 DEF Rule
<1> QED
  BY <1>5, <1>6 DEF FALLBACK_ELIGIBLE_ERROR_TYPES

-----------------------------------------------------------------------------
(* What a call knows, and what a verdict says.                             *)

IsSequence(s) == \E S : s \in Seq(S)

LEMMA ProvidersAreListed ==
    IsSequence(AllProviders) /\ Len(AllProviders) \in Nat /\ AllProviders[1] = PRIMARY_PROVIDER
<1> DEFINE known == {"deepseek", "minimax"} \cap ToSet(routes.names)
<1>1. Cardinality(known) \in Nat
  <2>1. IsFiniteSet({"deepseek", "minimax"})
    <3>1. IsFiniteSet({"deepseek"})
      BY FS_Singleton
    <3>2. IsFiniteSet({"deepseek"} \cup {"minimax"})
      BY <3>1, FS_AddElement
    <3> QED
      BY <3>2
  <2>2. IsFiniteSet(known)
    BY <2>1, FS_Subset
  <2> QED
    BY <2>2, FS_CardinalityType
<1>2. PICK n \in Nat : n = Cardinality(known)
  BY <1>1
<1>3. \E S : FallbackProviders \in Seq(S)
  <2> DEFINE NamedBefore(name) == {other \in known : FirstMention(other) < FirstMention(name)}
             Item(k) == CHOOSE name \in known : Cardinality(NamedBefore(name)) = k - 1
             S == {Item(k) : k \in 1..n}
  <2>1. FallbackProviders = [k \in 1..n |-> Item(k)]
    BY <1>2, Zenon DEF FallbackProviders
  <2> HIDE DEF Item
  <2>2. FallbackProviders \in [1..n -> S]
    BY <2>1
  <2> HIDE DEF S
  <2>3. FallbackProviders \in Seq(S)
    BY <2>2
  <2> QED
    BY <2>3
<1>4. PICK S : FallbackProviders \in Seq(S)
  BY <1>3
<1> DEFINE T == S \cup {PRIMARY_PROVIDER}
<1>5. FallbackProviders \in Seq(T) /\ << PRIMARY_PROVIDER >> \in Seq(T)
  BY <1>4
<1>6. /\ AllProviders \in Seq(T)
      /\ AllProviders[1] = << PRIMARY_PROVIDER >>[1]
  BY <1>5, ConcatProperties DEF AllProviders
<1> QED
  BY <1>6 DEF IsSequence

LEMMA ProvidersStay == routes' = routes => AllProviders' = AllProviders
BY DEF AllProviders, FallbackProviders, FirstMention

Call(job, at, i, begun, tried) == [job |-> job, at |-> at, i |-> i, begun |-> begun, tried |-> tried]
\* A call with some of its fields changed.
PutAt(me, at, i) == [me EXCEPT !.at = at, !.i = i]
Probes(me, begun) == [me EXCEPT !.at = "probing", !.begun = begun]
Begun(me, job, at, i) == [me EXCEPT !.job = job, !.at = at, !.i = i]
LEMMA CallFields ==
    ASSUME NEW job, NEW at, NEW i, NEW begun, NEW tried, NEW x, NEW y, NEW z,
           NEW me, me = Call(job, at, i, begun, tried)
    PROVE  /\ PutAt(me, x, y) = Call(job, x, y, begun, tried)
           /\ Probes(me, y) = Call(job, "probing", i, y, tried)
           /\ Begun(me, z, x, y) = Call(z, x, y, begun, tried)
<1>1. PutAt(me, x, y) = Call(job, x, y, begun, tried)
  <2>1. PICK moved : moved = [me EXCEPT !.at = x]
    OBVIOUS
  <2>2. moved = Call(job, x, i, begun, tried)
    BY <2>1 DEF Call
  <2>3. PutAt(me, x, y) = [moved EXCEPT !.i = y]
    BY <2>1 DEF PutAt
  <2> QED
    BY <2>2, <2>3 DEF Call
<1>2. Probes(me, y) = Call(job, "probing", i, y, tried)
  <2>1. PICK moved : moved = [me EXCEPT !.at = "probing"]
    OBVIOUS
  <2>2. moved = Call(job, "probing", i, begun, tried)
    BY <2>1 DEF Call
  <2>3. Probes(me, y) = [moved EXCEPT !.begun = y]
    BY <2>1 DEF Probes
  <2> QED
    BY <2>2, <2>3 DEF Call
<1>3. Begun(me, z, x, y) = Call(z, x, y, begun, tried)
  <2>1. PICK named : named = [me EXCEPT !.job = z]
    OBVIOUS
  <2>2. named = Call(z, at, i, begun, tried)
    BY <2>1 DEF Call
  <2>3. PICK put : put = [named EXCEPT !.at = x]
    OBVIOUS
  <2>4. put = Call(z, x, i, begun, tried)
    BY <2>2, <2>3 DEF Call
  <2>5. Begun(me, z, x, y) = [put EXCEPT !.i = y]
    BY <2>1, <2>3 DEF Begun
  <2> QED
    BY <2>4, <2>5 DEF Call
<1> QED
  BY <1>1, <1>2, <1>3

IsCall(me) == me = Call(me.job, me.at, me.i, me.begun, me.tried)
\* Every provider that was ready and passed over on the way down the list was tried.
InTurn(me) ==
    \A k \in 2..(me.i - 1) : AllProviders[k] \in routes.ready =>
        \E n \in DOMAIN me.tried : me.tried[n].provider = AllProviders[k]
CallIsSound(me) ==
    /\ IsCall(me)
    /\ me.i \in Nat /\ me.begun \in Nat /\ IsSequence(me.tried)
    /\ me.at \in {"idle", "look", "probing", "primary", "fallback"}
    /\ me.at = "primary" => me.i = 1
    /\ me.job = "invoke" /\ me.at \in {"look", "probing"} => me.i = 1
    /\ me.at \in {"primary", "fallback"} => me.job = "invoke"
    /\ \A k \in DOMAIN me.tried : ~Refusal(me.tried[k].failure)
    /\ me.at = "fallback" => InTurn(me)
CallsAreSound ==
    /\ calling = [c \in Callers |-> calling[c]]
    /\ routes = NoRoutes => \A c \in Callers : calling[c] = Idle
    /\ \A c \in Callers : CallIsSound(calling[c])
\* A healthy verdict is as old as the probe that gave it, and while a failure was reported of the
\* primary and no probe of it has ended since, its verdict is the reported one.
VerdictsAreSound ==
    /\ clock \in Nat /\ reported \in Nat
    /\ \A p \in DOMAIN verdicts :
         /\ verdicts[p].status \in {"healthy", "unhealthy", "auth_error", "misconfigured"}
         /\ verdicts[p].until \in Nat
    /\ \A p \in DOMAIN verdicts : verdicts[p].status = "healthy" =>
         verdicts[p].begun \in Nat /\ verdicts[p].until = verdicts[p].begun + ProbeTtl
    /\ reported > clock =>
         PRIMARY_PROVIDER \in DOMAIN verdicts /\ verdicts[PRIMARY_PROVIDER].status = "unhealthy"
RouteInv == CallsAreSound /\ VerdictsAreSound

LEMMA IdleIsSound == CallIsSound(Idle)
<1>1. << >> \in Seq({})
  OBVIOUS
<1> QED
  BY <1>1 DEF CallIsSound, IsCall, Call, Idle, IsSequence

LEMMA RoutesInit == RouteInit => RouteInv
<1> SUFFICES ASSUME RouteInit
             PROVE  RouteInv
  OBVIOUS
<1>1. CallsAreSound
  BY IdleIsSound DEF RouteInit, CallsAreSound
<1>2. VerdictsAreSound
  BY DEF RouteInit, VerdictsAreSound
<1> QED
  BY <1>1, <1>2 DEF RouteInv

LEMMA SoundStays ==
    ASSUME routes' = routes, NEW me, CallIsSound(me)
    PROVE  CallIsSound(me)'
BY ProvidersStay DEF CallIsSound, IsCall, InTurn, IsSequence, Refusal

LEMMA CallGoes ==
    ASSUME CallsAreSound, routes' = routes, NEW c \in Callers, NEW next,
           routes # NoRoutes, Goes(c, next), CallIsSound(next)
    PROVE  CallsAreSound'
<1>1. calling' = [calling EXCEPT ![c] = next]
  BY DEF Goes
<1>2. \A d \in Callers : CallIsSound(calling'[d])
  BY <1>1 DEF CallsAreSound
<1>3. ASSUME NEW d \in Callers
      PROVE  CallIsSound(calling[d])'
  <2>1. PICK me : me = calling'[d]
    OBVIOUS
  <2>2. CallIsSound(me)'
    BY <1>2, <2>1, SoundStays
  <2> QED
    BY <2>1, <2>2 DEF CallIsSound, IsCall, InTurn
<1> QED
  BY <1>1, <1>3 DEF CallsAreSound

LEMMA UnderWay ==
    ASSUME CallsAreSound, NEW c \in Callers, calling[c].at # "idle"
    PROVE  routes # NoRoutes /\ CallIsSound(calling[c])
BY DEF CallsAreSound, Idle

LEMMA CallsAtEnd ==
    ASSUME CallsAreSound, routes' = routes, NEW c \in Callers, routes # NoRoutes, CallEnds(c)
    PROVE  CallsAreSound'
BY IdleIsSound, CallGoes DEF CallEnds

\* Where a call goes on with its place in the list and what it has tried, or starts anew.
LEMMA CallsAtBegin ==
    ASSUME CallsAreSound, NEW c \in Callers,
           BeginCall(c) \/ \E job \in {"probe", "refresh"} : BeginProbe(c, job)
    PROVE  CallsAreSound'
<1>1. routes' = routes /\ routes # NoRoutes
  BY DEF BeginCall, BeginProbe
<1>2. ASSUME NEW job, NEW at \in {"look", "primary", "fallback"}, NEW i \in {1, 2},
             at = "primary" => i = 1,
             job = "invoke" /\ at \in {"look", "probing"} => i = 1,
             at \in {"primary", "fallback"} => job = "invoke",
             Goes(c, Begun(Idle, job, at, i))
      PROVE  CallsAreSound'
  <2>1. Idle = Call("none", "idle", 0, 0, << >>)
    BY DEF Idle, Call
  <2>2. Begun(Idle, job, at, i) = Call(job, at, i, 0, << >>)
    BY <2>1, CallFields
  <2>3. IsSequence(<< >>)
    BY IdleIsSound DEF CallIsSound, Idle
  <2>4. InTurn(Call(job, at, i, 0, << >>))
    BY DEF InTurn, Call
  <2>5. CallIsSound(Call(job, at, i, 0, << >>))
    BY <1>2, <2>3, <2>4 DEF CallIsSound, IsCall, Call
  <2> QED
    BY <1>1, <1>2, <2>2, <2>5, CallGoes
<1>3. CASE BeginCall(c)
  <2>1. CASE FirstStop = "idle"
    BY <1>1, <1>3, <2>1, CallsAtEnd DEF BeginCall
  <2>2. CASE FirstStop # "idle"
    <3>1. FirstStop \in {"fallback", "primary", "look"}
      BY <2>2 DEF FirstStop
    <3>2. PICK at, i : at = FirstStop /\ i = IF at = "fallback" THEN 2 ELSE 1
      OBVIOUS
    <3>3. Goes(c, Begun(Idle, "invoke", at, i))
      BY <1>3, <2>2, <3>2 DEF BeginCall, Begun
    <3> QED
      BY <1>2, <3>1, <3>2, <3>3
  <2> QED
    BY <2>1, <2>2
<1>4. ASSUME NEW job \in {"probe", "refresh"}, BeginProbe(c, job)
      PROVE  CallsAreSound'
  <2>1. Goes(c, Begun(Idle, job, "look", 1))
    BY <1>4 DEF BeginProbe, Begun
  <2> QED
    BY <1>2, <1>4, <2>1
<1> QED
  BY <1>3, <1>4

LEMMA CallsAtLearn ==
    ASSUME CallsAreSound, routes' = routes, NEW c \in Callers, NEW status,
           calling[c].at \in {"look", "probing"}, Learn(c, status)
    PROVE  CallsAreSound'
<1>1. routes # NoRoutes /\ CallIsSound(calling[c])
  BY UnderWay
<1> DEFINE me == [calling[c] EXCEPT !.begun = 0]
<1>2. PICK job, at, i, tried :
        job = calling[c].job /\ at = calling[c].at /\ i = calling[c].i /\ tried = calling[c].tried
  OBVIOUS
<1>3. me = Call(job, at, i, 0, tried)
  <2>1. calling[c] = Call(job, at, i, calling[c].begun, tried)
    BY <1>1, <1>2 DEF CallIsSound, IsCall
  <2> QED
    BY <2>1 DEF Call
<1>4. /\ i \in Nat /\ IsSequence(tried) /\ \A k \in DOMAIN tried : ~Refusal(tried[k].failure)
      /\ job = "invoke" => i = 1
  BY <1>1, <1>2 DEF CallIsSound
<1>5. me.job = job /\ me.i = i
  BY <1>3 DEF Call
<1> HIDE DEF me
<1>6. CASE job = "invoke" /\ status = "healthy"
  <2>1. Goes(c, [me EXCEPT !.at = "primary"])
    BY <1>5, <1>6 DEF Learn, me
  <2>2. [me EXCEPT !.at = "primary"] = Call(job, "primary", i, 0, tried)
    BY <1>3 DEF Call
  <2>3. CallIsSound(Call(job, "primary", i, 0, tried))
    BY <1>4, <1>6 DEF CallIsSound, IsCall, Call
  <2> QED
    BY <1>1, <2>1, <2>2, <2>3, CallGoes
<1>7. CASE job = "invoke" /\ status # "healthy"
  <2>1. Goes(c, [me EXCEPT !.at = "fallback", !.i = 2])
    BY <1>5, <1>7 DEF Learn, me
  <2>2. [me EXCEPT !.at = "fallback", !.i = 2] = Call(job, "fallback", 2, 0, tried)
    <3>1. PutAt(me, "fallback", 2) = Call(job, "fallback", 2, 0, tried)
      BY <1>3, CallFields
    <3> QED
      BY <3>1 DEF PutAt
  <2>3. CallIsSound(Call(job, "fallback", 2, 0, tried))
    BY <1>4, <1>7 DEF CallIsSound, IsCall, Call, InTurn
  <2> QED
    BY <1>1, <2>1, <2>2, <2>3, CallGoes
<1>8. CASE job # "invoke" /\ i < Len(AllProviders)
  <2>1. Goes(c, [me EXCEPT !.at = "look", !.i = i + 1])
    BY <1>5, <1>8 DEF Learn, me
  <2>2. [me EXCEPT !.at = "look", !.i = i + 1] = Call(job, "look", i + 1, 0, tried)
    <3>1. PutAt(me, "look", i + 1) = Call(job, "look", i + 1, 0, tried)
      BY <1>3, CallFields
    <3> QED
      BY <3>1 DEF PutAt
  <2>3. CallIsSound(Call(job, "look", i + 1, 0, tried))
    BY <1>4, <1>8 DEF CallIsSound, IsCall, Call
  <2> QED
    BY <1>1, <2>1, <2>2, <2>3, CallGoes
<1>9. CASE job # "invoke" /\ ~(i < Len(AllProviders))
  <2>1. CallEnds(c)
    BY <1>5, <1>9 DEF Learn, me
  <2> QED
    BY <1>1, <2>1, CallsAtEnd
<1> QED
  BY <1>6, <1>7, <1>8, <1>9

LEMMA CallsAtSkip ==
    ASSUME CallsAreSound, NEW c \in Callers, SkipUnready(c)
    PROVE  CallsAreSound'
<1>1. routes' = routes /\ routes # NoRoutes /\ CallIsSound(calling[c])
  BY UnderWay DEF SkipUnready
<1>2. PICK job, i, begun, tried :
        job = calling[c].job /\ i = calling[c].i /\ begun = calling[c].begun /\ tried = calling[c].tried
  OBVIOUS
<1>3. calling[c] = Call(job, "fallback", i, begun, tried)
  BY <1>1, <1>2 DEF CallIsSound, IsCall, SkipUnready
<1>4. AllProviders[i] \notin routes.ready
  BY <1>2 DEF SkipUnready, Provider
<1> DEFINE next == Call(job, "fallback", i + 1, begun, tried)
<1>5. Goes(c, next)
  <2>1. Goes(c, [calling[c] EXCEPT !.i = i + 1])
    BY <1>2 DEF SkipUnready
  <2>2. [calling[c] EXCEPT !.i = i + 1] = next
    BY <1>3 DEF Call
  <2> QED
    BY <2>1, <2>2
<1>6. i \in Nat /\ InTurn(calling[c])
  BY <1>1, <1>2 DEF CallIsSound, SkipUnready
<1>7. next.i = i + 1 /\ next.tried = tried
  BY DEF Call
<1>8. InTurn(next)
  <2> HIDE DEF next
  <2> QED
    BY <1>2, <1>4, <1>6, <1>7 DEF InTurn
<1>9. CallIsSound(next)
  BY <1>1, <1>2, <1>3, <1>6, <1>8 DEF CallIsSound, IsCall, Call
<1> QED
  BY <1>1, <1>5, <1>9, CallGoes

\* A call goes on after a failure that is no refusal, and notes whom it tried.
LEMMA CallsAtFailure ==
    ASSUME CallsAreSound, NEW c \in Callers, NEW e \in Failures, CallFails(c, e)
    PROVE  CallsAreSound'
<1>1. routes' = routes /\ routes # NoRoutes /\ CallIsSound(calling[c])
  BY UnderWay DEF CallFails
<1>2. PICK at, job, i, begun :
        /\ at \in {"primary", "fallback"} /\ at = calling[c].at /\ job = calling[c].job /\ i = calling[c].i /\ begun = calling[c].begun
  BY DEF CallFails
<1>3. PICK tried : tried = calling[c].tried
  OBVIOUS
<1>4. calling[c] = Call(job, at, i, begun, tried)
  BY <1>1, <1>2, <1>3 DEF CallIsSound, IsCall
<1>5. PICK S : tried \in Seq(S)
  BY <1>1, <1>3 DEF CallIsSound, IsSequence
<1>6. CASE CallEnds(c)
  BY <1>1, <1>6, CallsAtEnd
<1>7. CASE /\ classify_llm_exception(e) \in FALLBACK_ELIGIBLE_ERROR_TYPES
           /\ Goes(c, [Tried(c, e) EXCEPT !.at = "fallback", !.i = @ + 1])
  <2>1. ~Refusal(e)
    BY <1>7, RefusalIsNotEligible
  <2>2. PICK p : p = AllProviders[i]
    OBVIOUS
  <2> DEFINE row == [provider |-> p, failure |-> e]
  <2>3. PICK longer : longer = Append(tried, row)
    OBVIOUS
  <2>4. Tried(c, e) = Call(job, at, i, begun, longer)
    <3>1. Tried(c, e) = [calling[c] EXCEPT !.tried = longer]
      BY <1>2, <1>3, <2>2, <2>3 DEF Tried, Provider
    <3> QED
      BY <1>4, <3>1 DEF Call
  <2> HIDE DEF row
  <2>5. /\ longer \in Seq(S \cup {row}) /\ DOMAIN longer = 1..(Len(tried) + 1)
        /\ longer[Len(tried) + 1] = row /\ \A k \in 1..Len(tried) : longer[k] = tried[k]
        /\ DOMAIN tried = 1..Len(tried) /\ Len(tried) \in Nat
    <3>1. tried \in Seq(S \cup {row})
      BY <1>5
    <3> QED
      BY <2>3, <3>1, AppendProperties
  <2> DEFINE next == Call(job, "fallback", i + 1, begun, longer)
  <2>6. Goes(c, next)
    <3>1. PICK me : me = Tried(c, e)
      OBVIOUS
    <3>2. me.i = i
      BY <2>4, <3>1 DEF Call
    <3>3. Goes(c, [me EXCEPT !.at = "fallback", !.i = i + 1])
      BY <1>7, <3>1, <3>2
    <3>4. PutAt(me, "fallback", i + 1) = next
      BY <2>4, <3>1, CallFields
    <3> QED
      BY <3>3, <3>4 DEF PutAt
  <2>7. /\ i \in Nat /\ begun \in Nat /\ job = "invoke"
        /\ \A k \in DOMAIN tried : ~Refusal(tried[k].failure)
    BY <1>1, <1>2, <1>3 DEF CallIsSound
  <2>8. \A k \in DOMAIN longer : ~Refusal(longer[k].failure)
    <3>1. row.failure = e
      BY DEF row
    <3> QED
      BY <2>1, <2>5, <2>7, <3>1
  <2>9. InTurn(next)
    <3> SUFFICES ASSUME NEW k \in 2..i, AllProviders[k] \in routes.ready
                 PROVE  \E n \in DOMAIN longer : longer[n].provider = AllProviders[k]
      BY <2>7 DEF InTurn, Call
    <3>1. CASE k = i
      <4>1. longer[Len(tried) + 1].provider = AllProviders[k]
        BY <2>2, <2>5, <3>1 DEF row
      <4> QED
        BY <2>5, <4>1
    <3>2. CASE k # i
      <4>1. at = "fallback" /\ k \in 2..(i - 1)
        BY <1>1, <1>2, <2>7, <3>2 DEF CallIsSound
      <4>2. PICK n \in DOMAIN tried : tried[n].provider = AllProviders[k]
        BY <1>1, <1>2, <1>3, <4>1 DEF CallIsSound, InTurn
      <4> QED
        BY <2>5, <4>2
    <3> QED
      BY <3>1, <3>2
  <2>10. CallIsSound(next)
    BY <2>5, <2>7, <2>8, <2>9 DEF CallIsSound, IsCall, Call, IsSequence
  <2> QED
    BY <1>1, <2>6, <2>10, CallGoes
<1> QED
  BY <1>6, <1>7 DEF CallFails

LEMMA CallsAtProbe ==
    ASSUME CallsAreSound, clock \in Nat, NEW c \in Callers, StartProbe(c)
    PROVE  CallsAreSound'
<1>1. routes' = routes /\ routes # NoRoutes /\ CallIsSound(calling[c])
  BY UnderWay DEF StartProbe
<1>2. PICK job, i, tried : job = calling[c].job /\ i = calling[c].i /\ tried = calling[c].tried
  OBVIOUS
<1>3. [calling[c] EXCEPT !.at = "probing", !.begun = clock] = Call(job, "probing", i, clock, tried)
  <2>1. calling[c] = Call(job, "look", i, calling[c].begun, tried)
    BY <1>1, <1>2 DEF CallIsSound, IsCall, StartProbe
  <2>2. Probes(calling[c], clock) = Call(job, "probing", i, clock, tried)
    BY <2>1, CallFields
  <2> QED
    BY <2>2 DEF Probes
<1>4. CallIsSound(Call(job, "probing", i, clock, tried))
  BY <1>1, <1>2 DEF CallIsSound, IsCall, Call, StartProbe
<1> QED
  BY <1>1, <1>3, <1>4, CallGoes DEF StartProbe

LEMMA CallsAtRest ==
    ASSUME CallsAreSound, routes' = routes \/ routes = NoRoutes, calling' = calling
    PROVE  CallsAreSound'
<1>1. CASE routes' = routes
  <2>1. \A c \in Callers : CallIsSound(calling[c])'
    <3> TAKE c \in Callers
    <3>1. PICK me : me = calling[c]
      OBVIOUS
    <3>2. CallIsSound(me)'
      BY <1>1, <3>1, SoundStays DEF CallsAreSound
    <3> QED
      BY <3>1, <3>2 DEF CallIsSound, IsCall, InTurn
  <2> QED
    BY <1>1, <2>1 DEF CallsAreSound
<1>2. CASE routes = NoRoutes
  <2>1. \A c \in Callers : calling'[c] = Idle
    BY <1>2 DEF CallsAreSound
  <2>2. CallIsSound(Idle)'
    BY IdleIsSound DEF CallIsSound, IsCall, InTurn, Idle, Call, IsSequence
  <2>3. \A c \in Callers : CallIsSound(calling[c])'
    BY <2>1, <2>2 DEF CallIsSound, IsCall, InTurn
  <2> QED
    BY <2>1, <2>3 DEF CallsAreSound
<1> QED
  BY <1>1, <1>2

LEMMA VerdictsAtMark ==
    ASSUME VerdictsAreSound, clock' = clock, NEW p, MarkUnhealthy(p)
    PROVE  VerdictsAreSound'
BY RouteAssumption DEF VerdictsAreSound, MarkUnhealthy

\* A probe's verdict counts from where the probe began.
LEMMA VerdictsAtProbe ==
    ASSUME VerdictsAreSound, NEW c \in Callers, CallIsSound(calling[c]), EndProbe(c)
    PROVE  VerdictsAreSound'
<1>1. PICK p, begun : p = Provider(c) /\ begun = calling[c].begun
  OBVIOUS
<1>2. PICK row : /\ verdicts' = [q \in DOMAIN verdicts \cup {p} |-> IF q = p THEN row ELSE verdicts[q]]
                 /\ row.begun = begun /\ row.until = begun + ProbeTtl
                 /\ row.status \in {"healthy", "unhealthy", "auth_error", "misconfigured"}
  BY <1>1 DEF EndProbe, ExpiresAt, ProbeStatus
<1>3. begun \in Nat
  BY <1>1 DEF CallIsSound
<1>4. clock' = clock /\ reported' = IF p = PRIMARY_PROVIDER THEN 0 ELSE reported
  BY <1>1 DEF EndProbe
<1>5. row.until \in Nat
  BY <1>2, <1>3, RouteAssumption
<1> QED
  BY <1>2, <1>3, <1>4, <1>5 DEF VerdictsAreSound

LEMMA RoutesStep == RouteInv /\ [RouteNext]_routeVars => RouteInv'
<1> SUFFICES ASSUME CallsAreSound, VerdictsAreSound, [RouteNext]_routeVars
             PROVE  CallsAreSound' /\ VerdictsAreSound'
  BY DEF RouteInv
<1>1. ASSUME UNCHANGED << clock, verdicts, reported >>
      PROVE  VerdictsAreSound'
  BY <1>1 DEF VerdictsAreSound
<1>2. CASE Configure
  BY <1>1, <1>2, CallsAtRest DEF Configure
<1>3. CASE Tick
  <2>1. VerdictsAreSound'
    BY <1>3 DEF Tick, VerdictsAreSound
  <2> QED
    BY <1>3, <2>1, CallsAtRest DEF Tick
<1>4. ASSUME NEW c \in Callers, BeginCall(c) \/ \E job \in {"probe", "refresh"} : BeginProbe(c, job)
      PROVE  CallsAreSound' /\ VerdictsAreSound'
  BY <1>1, <1>4, CallsAtBegin DEF BeginCall, BeginProbe
<1>5. ASSUME NEW c \in Callers, Answered(c) \/ NoneLeft(c)
      PROVE  CallsAreSound' /\ VerdictsAreSound'
  BY <1>1, <1>5, UnderWay, CallsAtEnd DEF Answered, NoneLeft
<1>6. ASSUME NEW c \in Callers, SkipUnready(c)
      PROVE  CallsAreSound' /\ VerdictsAreSound'
  BY <1>1, <1>6, CallsAtSkip DEF SkipUnready
<1>7. ASSUME NEW c \in Callers, NEW e \in Failures, CallFails(c, e)
      PROVE  CallsAreSound' /\ VerdictsAreSound'
  <2>1. VerdictsAreSound'
    <3>1. CASE UNCHANGED << verdicts, reported >>
      BY <1>1, <1>7, <3>1 DEF CallFails
    <3>2. CASE MarkUnhealthy(Provider(c))
      BY <1>7, <3>2, VerdictsAtMark DEF CallFails
    <3> QED
      BY <1>7, <3>1, <3>2 DEF CallFails
  <2> QED
    BY <1>7, <2>1, CallsAtFailure
<1>8. ASSUME NEW c \in Callers, LookUp(c)
      PROVE  CallsAreSound' /\ VerdictsAreSound'
  BY <1>1, <1>8, CallsAtLearn DEF LookUp
<1>9. ASSUME NEW c \in Callers, StartProbe(c)
      PROVE  CallsAreSound' /\ VerdictsAreSound'
  BY <1>1, <1>9, CallsAtProbe DEF StartProbe, VerdictsAreSound
<1>10. ASSUME NEW c \in Callers, EndProbe(c)
       PROVE  CallsAreSound' /\ VerdictsAreSound'
  <2>1. CallsAreSound'
    <3>1. PICK status : Learn(c, status)
      BY <1>10 DEF EndProbe
    <3> QED
      BY <1>10, <3>1, CallsAtLearn DEF EndProbe
  <2>2. VerdictsAreSound'
    BY <1>10, VerdictsAtProbe DEF CallsAreSound
  <2> QED
    BY <2>1, <2>2
<1>11. CASE UNCHANGED routeVars
  BY <1>1, <1>11, CallsAtRest DEF routeVars
<1> QED
  BY <1>2, <1>3, <1>4, <1>5, <1>6, <1>7, <1>8, <1>9, <1>10, <1>11 DEF RouteNext

\* A call is let through to the primary only by what it finds in the cache.
LEMMA AdmittedByTheCache ==
    ASSUME RouteInv, [RouteNext]_routeVars, NEW c \in Callers, Admitted(c)
    PROVE  Cached(PRIMARY_PROVIDER) /\ verdicts[PRIMARY_PROVIDER].status = "healthy"
<1>1. calling[c].at = "look" /\ calling'[c].at = "primary"
  BY DEF Admitted
<1>2. ASSUME NEW d \in Callers, NEW next, Goes(d, next)
      PROVE  d = c /\ next.at = "primary"
  BY <1>1, <1>2 DEF RouteInv, CallsAreSound, Goes
<1>3. calling' # calling
  BY <1>1
<1>4. ASSUME NEW d \in Callers, BeginCall(d) \/ \E job \in {"probe", "refresh"} : BeginProbe(d, job)
      PROVE  FALSE
  BY <1>1, <1>2, <1>4 DEF BeginCall, BeginProbe, CallEnds
<1>5. ASSUME NEW d \in Callers,
             \/ Answered(d) \/ SkipUnready(d) \/ NoneLeft(d) \/ \E e \in Failures : CallFails(d, e)
      PROVE  FALSE
  BY <1>1, <1>2, <1>5 DEF Answered, SkipUnready, NoneLeft, CallFails, CallEnds
<1>6. ASSUME NEW d \in Callers, StartProbe(d)
      PROVE  FALSE
  <2>1. Goes(d, Probes(calling[d], clock))
    BY <1>6 DEF StartProbe, Probes
  <2>2. Probes(calling[d], clock).at = "probing"
    BY CallFields DEF RouteInv, CallsAreSound, CallIsSound, IsCall, Call
  <2> QED
    BY <1>2, <2>1, <2>2
<1>7. ASSUME NEW d \in Callers, EndProbe(d)
      PROVE  FALSE
  BY <1>1, <1>2, <1>7 DEF EndProbe, Learn, CallEnds
<1>8. PICK d \in Callers : LookUp(d)
  BY <1>3, <1>4, <1>5, <1>6, <1>7 DEF RouteNext, Configure, Tick, routeVars
<1> DEFINE me == [calling[c] EXCEPT !.begun = 0]
           status == verdicts[Provider(c)].status
<1>9. d = c /\ Cached(Provider(c)) /\ Learn(c, status)
  BY <1>2, <1>8 DEF LookUp, Learn, CallEnds
<1>10. me.job = calling[c].job /\ CallIsSound(calling[c])
  BY DEF RouteInv, CallsAreSound, CallIsSound, IsCall, Call
<1>11. calling[c].job = "invoke" /\ status = "healthy"
  <2>1. me = Call(me.job, me.at, me.i, 0, me.tried)
    BY <1>10 DEF CallIsSound, IsCall, Call
  <2>2. ASSUME NEW at, NEW i
        PROVE  ~Goes(c, PutAt(me, at, i)) \/ at = "primary"
    <3>1. PutAt(me, at, i).at = at
      BY <2>1, CallFields DEF Call
    <3> QED
      BY <1>2, <3>1
  <2>3. ~CallEnds(c)
    BY <1>2 DEF CallEnds, Idle
  <2>4. CASE me.job = "invoke" /\ status # "healthy"
    <3>1. Goes(c, PutAt(me, "fallback", 2))
      BY <1>9, <2>4 DEF Learn, PutAt
    <3> QED
      BY <2>2, <3>1
  <2>5. CASE me.job # "invoke" /\ me.i < Len(AllProviders)
    <3>1. Goes(c, PutAt(me, "look", me.i + 1))
      BY <1>9, <2>5 DEF Learn, PutAt
    <3> QED
      BY <2>2, <3>1
  <2>6. CASE me.job # "invoke" /\ ~(me.i < Len(AllProviders))
    BY <1>9, <2>3, <2>6 DEF Learn
  <2> QED
    BY <1>10, <2>4, <2>5, <2>6
<1>12. Provider(c) = PRIMARY_PROVIDER
  BY <1>1, <1>10, <1>11, ProvidersAreListed DEF CallIsSound, Provider
<1> QED
  BY <1>9, <1>11, <1>12

\* A call goes to the primary provider, where there is a choice, only on a verdict about how it
\* was less than ProbeTtl ago, however long a probe takes and whoever stores its verdict last.
THEOREM VerdictsAreFresh == RouteSpec => VerdictIsFresh
<1>1. RouteInv /\ [RouteNext]_routeVars =>
        [\A c \in Callers : Admitted(c) =>
            /\ verdicts[PRIMARY_PROVIDER].status = "healthy"
            /\ clock < verdicts[PRIMARY_PROVIDER].begun + ProbeTtl]_routeVars
  <2> SUFFICES ASSUME RouteInv, [RouteNext]_routeVars, NEW c \in Callers, Admitted(c)
               PROVE  /\ verdicts[PRIMARY_PROVIDER].status = "healthy"
                      /\ clock < verdicts[PRIMARY_PROVIDER].begun + ProbeTtl
    OBVIOUS
  <2> QED
    BY AdmittedByTheCache DEF RouteInv, VerdictsAreSound, Cached
<1> QED
  BY <1>1, RoutesInit, RoutesStep, PTL DEF RouteSpec, VerdictIsFresh

\* Nor is it called, by whichever thread, within UnhealthyTtl of a failure reported by any,
\* unless a probe has ended since.
THEOREM UnhealthyPrimaryIsSkipped == RouteSpec => UnhealthyIsSkipped
<1>1. RouteInv /\ [RouteNext]_routeVars =>
        [\A c \in Callers : Admitted(c) => clock >= reported]_routeVars
  <2> SUFFICES ASSUME RouteInv, [RouteNext]_routeVars, NEW c \in Callers, Admitted(c)
               PROVE  clock >= reported
    OBVIOUS
  <2> QED
    BY AdmittedByTheCache DEF RouteInv, VerdictsAreSound
<1> QED
  BY <1>1, RoutesInit, RoutesStep, PTL DEF RouteSpec, UnhealthyIsSkipped

\* A refusal of what was asked for ends the call, and no provider that is ready is passed over on
\* the way to another, except the primary.
THEOREM RefusalsEndTheCall == RouteSpec => []RefusalsAreFinal
<1>1. RouteInv => RefusalsAreFinal
  BY DEF RouteInv, CallsAreSound, CallIsSound, InTurn, RefusalsAreFinal
<1> QED
  BY <1>1, RoutesInit, RoutesStep, PTL DEF RouteSpec

\* Calls and verdicts are of the kinds they should be, and no bound is passed.
THEOREM RoutesAreTyped == RouteSpec => []RouteTypeOK
<1> DEFINE Bounded == clock \in 0..MaxClock /\ calls \in 0..MaxCalls
<1>1. RouteInit => Bounded
  BY RouteBounds DEF RouteInit
<1>2. Bounded /\ [RouteNext]_routeVars => Bounded'
  <2> SUFFICES ASSUME Bounded, [RouteNext]_routeVars PROVE Bounded'
    OBVIOUS
  <2>1. CASE Tick
    BY <2>1, RouteBounds DEF Tick
  <2>2. ASSUME NEW c \in Callers, BeginCall(c) \/ \E job \in {"probe", "refresh"} : BeginProbe(c, job)
        PROVE  Bounded'
    BY <2>2, RouteBounds DEF BeginCall, BeginProbe
  <2>3. CASE UNCHANGED << clock, calls >>
    BY <2>3
  <2> QED
    BY <2>1, <2>2, <2>3 DEF RouteNext, routeVars, Configure, Answered, CallFails, SkipUnready, NoneLeft,
         LookUp, StartProbe, EndProbe
<1>3. Bounded /\ RouteInv => RouteTypeOK
  BY DEF RouteInv, CallsAreSound, CallIsSound, VerdictsAreSound, RouteTypeOK
<1> QED
  BY <1>1, <1>2, <1>3, RoutesInit, RoutesStep, PTL DEF RouteSpec

-----------------------------------------------------------------------------
(* The daily news: what an edition is made of.                             *)

LEMMA PickedAreWanted ==
    ASSUME NEW X, NEW s \in Seq(X), NEW wanted, NEW alike
    PROVE  Picked(s, wanted, alike) \in Seq(X \cap wanted)
<1> DEFINE V == Seq(X \cap wanted)
           Next0(n, before) == IF s[n] \in wanted /\ \A e \in ToSet(before) : << e, s[n] >> \notin alike
                                 THEN Append(before, s[n]) ELSE before
           Eq(g) == g = [n \in 0..Len(s) |-> IF n = 0 THEN << >> ELSE Next0(n, g[n - 1])]
<1>1. Len(s) \in Nat /\ \A n \in 1..Len(s) : s[n] \in X
  OBVIOUS
<1>2. \A n \in 1..Len(s), before \in V : Next0(n, before) \in V
  BY <1>1
<1>3. PICK G \in [(1..Len(s)) \X V -> V] : \A n \in 1..Len(s), before \in V : G[<< n, before >>] = Next0(n, before)
  <2> DEFINE G == [x \in (1..Len(s)) \X V |-> Next0(x[1], x[2])]
  <2> HIDE DEF V, Next0
  <2>1. \A n \in 1..Len(s), before \in V : G[<< n, before >>] = Next0(n, before)
    OBVIOUS
  <2>2. G \in [(1..Len(s)) \X V -> V]
    BY <1>2
  <2> QED
    BY <2>1, <2>2
<1>4. PICK g : IsRecursion(g, Len(s), V, << >>, G)
  <2>1. << >> \in V
    OBVIOUS
  <2> HIDE DEF V
  <2> QED
    BY <1>1, <1>3, <2>1, RecursionUpTo
<1>5. Eq(g)
  <2> HIDE DEF V, Next0
  <2>1. /\ g \in [0..Len(s) -> V]
        /\ g = [n \in 0..Len(s) |-> IF n = 0 THEN << >> ELSE G[<< n, g[n - 1] >>]]
    BY <1>4 DEF IsRecursion
  <2>2. ASSUME NEW n \in 0..Len(s), n # 0
        PROVE  G[<< n, g[n - 1] >>] = Next0(n, g[n - 1])
    <3>1. n \in 1..Len(s) /\ n - 1 \in 0..Len(s)
      BY <1>1, <2>2
    <3> QED
      BY <1>3, <2>1, <3>1
  <2> QED
    BY <2>1, <2>2
<1>6. PICK h : Eq(h) /\ Picked(s, wanted, alike) = h[Len(s)]
  <2>1. Picked(s, wanted, alike) = (CHOOSE h : Eq(h))[Len(s)]
    BY DEF Picked
  <2> HIDE DEF Eq
  <2> QED
    BY <1>5, <2>1
<1>7. h[0] = << >> /\ \A n \in 0..(Len(s) - 1) : h[n + 1] = Next0(n + 1, h[n])
  <2> HIDE DEF Next0
  <2>1. 0 \in 0..Len(s) /\ \A n \in 0..(Len(s) - 1) : n + 1 \in 0..Len(s) /\ n + 1 # 0 /\ (n + 1) - 1 = n
    BY <1>1
  <2> QED
    BY <1>6, <2>1
<1> DEFINE T == {n \in 0..Len(s) : h[n] \in V}
<1>8. \A n \in 0..(Len(s) - 1) : n \in T => n + 1 \in T
  <2> HIDE DEF V, Next0
  <2>1. \A n \in 0..(Len(s) - 1) : n + 1 \in 1..Len(s) /\ n + 1 \in 0..Len(s)
    BY <1>1
  <2> QED
    BY <1>2, <1>7, <2>1
<1>9. 0 \in T
  <2>1. << >> \in V /\ 0 \in 0..Len(s)
    BY <1>1
  <2> HIDE DEF V, Next0
  <2> QED
    BY <1>7, <2>1
<1>10. \A n \in 0..Len(s) : n \in T
  <2> HIDE DEF T
  <2> QED
    BY <1>1, <1>8, <1>9, OneByOne
<1>11. Len(s) \in 0..Len(s)
  BY <1>1
<1> HIDE DEF V
<1> QED
  BY <1>6, <1>10, <1>11 DEF V

LEMMA MembersOf == ASSUME NEW X, NEW s \in Seq(X) PROVE ToSet(s) \subseteq X
BY DEF ToSet

LEMMA SomeOf == ASSUME NEW X, NEW s \in Seq(X), NEW n \in Nat PROVE UpTo(s, n) \in Seq(X)
<1>1. PICK m : m = (IF Len(s) < n THEN Len(s) ELSE n)
  OBVIOUS
<1>2. m \in Nat /\ m <= Len(s)
  BY <1>1
<1>3. SubSeq(s, 1, m) \in Seq(X)
  BY <1>2, SubSeqProperties
<1> QED
  BY <1>1, <1>3 DEF UpTo

LEMMA SortedAreOf ==
    ASSUME NEW found, IsFiniteSet(found), NEW sorted \in NewestFirst(found)
    PROVE  sorted \in Seq(found)
<1>1. PICK n \in Nat : n = Cardinality(found)
  BY FS_CardinalityType
<1>2. sorted \in [1..n -> found]
  BY <1>1 DEF NewestFirst
<1> QED
  BY <1>1, <1>2

\* What is put before the model is none of what was shown of late.
Unseen(found, recent) == {e \in found : e.key \notin recent}
LEMMA GroupedAreUnseen ==
    ASSUME NEW found, NEW sorted \in Seq(found), NEW now, NEW recent, NEW c \in Categories
    PROVE  Grouped(sorted, now, recent)[c] \in Seq(Unseen(found, recent))
<1> DEFINE filtered == Filtered(sorted, now, recent)
           current == {e \in ToSet(filtered) : e.at >= now - PRIMARY_HOURS * 60}
           Of(d) == {e \in ToSet(filtered) : Category(e) = d}
           first == Picked(filtered, Of(c) \cap current, {})
           second == Picked(filtered, Of(c) \ current, {})
           X == Unseen(found, recent)
<1>1. filtered \in Seq(X)
  <2>1. PICK fresh : /\ fresh \subseteq X
                     /\ \E alike : filtered = Picked(sorted, fresh, alike)
    <3>1. PICK fresh : /\ fresh = {e \in ToSet(sorted) : e.at >= now - FALLBACK_HOURS * 60 /\ e.key \notin recent}
                       /\ \E alike : filtered = Picked(sorted, fresh, alike)
      BY DEF Filtered
    <3>2. ToSet(sorted) \subseteq found
      BY MembersOf
    <3> HIDE DEF filtered
    <3> QED
      BY <3>1, <3>2 DEF Unseen
  <2>2. filtered \in Seq(found \cap fresh)
    <3>1. PICK alike : filtered = Picked(sorted, fresh, alike)
      BY <2>1
    <3> HIDE DEF filtered
    <3> QED
      BY <3>1, PickedAreWanted
  <2> HIDE DEF filtered, X
  <2>3. found \cap fresh \subseteq X
    BY <2>1
  <2> QED
    BY <2>2, <2>3
<1>2. first \in Seq(X) /\ second \in Seq(X)
  <2> HIDE DEF filtered, X
  <2>1. PICK a, b : a = Of(c) \cap current /\ b = Of(c) \ current
    OBVIOUS
  <2>2. Picked(filtered, a, {}) \in Seq(X \cap a) /\ Picked(filtered, b, {}) \in Seq(X \cap b)
    BY <1>1, PickedAreWanted
  <2>3. X \cap a \subseteq X /\ X \cap b \subseteq X
    OBVIOUS
  <2> HIDE DEF Of, current
  <2> QED
    BY <2>1, <2>2, <2>3
<1>3. Grouped(sorted, now, recent)[c] = UpTo(first \o second, MAX_LLM_CANDIDATES_PER_CATEGORY)
  BY DEF Grouped
<1>4. first \o second \in Seq(X)
  <2> HIDE DEF first, second, X
  <2> QED
    BY <1>2
<1>5. MAX_LLM_CANDIDATES_PER_CATEGORY \in Nat
  BY DEF MAX_LLM_CANDIDATES_PER_CATEGORY
<1> HIDE DEF first, second, X
<1> QED
  BY <1>3, <1>4, <1>5, SomeOf DEF X

LEMMA RowsAreAList ==
    ASSUME NEW X, NEW candidates \in Seq(X), NEW twice
    PROVE  \E Y : Rows(candidates, twice) \in Seq(Y)
<1> DEFINE Row(e, topic) == [id |-> e.id, topic |-> topic]
           other == [id |-> "other", topic |-> 3]
           Y == {Row(candidates[k], n) : k \in DOMAIN candidates, n \in Nat} \cup {other}
           each == [k \in DOMAIN candidates |-> Row(candidates[k], k)]
<1>1. \/ Rows(candidates, twice) = << >>
      \/ /\ candidates # << >>
         /\ \/ Rows(candidates, twice) = << Row(candidates[1], 1), Row(candidates[1], 2), other >>
            \/ Rows(candidates, twice) = each
  BY DEF Rows
<1>2. CASE Rows(candidates, twice) = << >>
  <2>1. << >> \in Seq({})
    OBVIOUS
  <2> QED
    BY <1>2, <2>1
<1>3. CASE candidates # << >> /\ Rows(candidates, twice) = << Row(candidates[1], 1), Row(candidates[1], 2), other >>
  <2>1. 1 \in DOMAIN candidates
    BY <1>3
  <2>2. Row(candidates[1], 1) \in Y /\ Row(candidates[1], 2) \in Y /\ other \in Y
    BY <2>1
  <2> HIDE DEF Row, other, Y
  <2>3. << Row(candidates[1], 1), Row(candidates[1], 2), other >> \in Seq(Y)
    BY <2>2
  <2> QED
    BY <1>3, <2>3
<1>4. CASE Rows(candidates, twice) = each
  <2>1. DOMAIN candidates = 1..Len(candidates) /\ Len(candidates) \in Nat
    OBVIOUS
  <2>2. \A k \in DOMAIN candidates : Row(candidates[k], k) \in Y
    BY <2>1
  <2> HIDE DEF Row, Y
  <2>3. each \in [1..Len(candidates) -> Y]
    BY <2>1, <2>2
  <2>4. each \in Seq(Y)
    BY <2>1, <2>3
  <2> QED
    BY <1>4, <2>4
<1> QED
  BY <1>1, <1>2, <1>3, <1>4

LEMMA SelectedAreCandidates ==
    ASSUME NEW X, NEW candidates \in Seq(X), NEW Y, NEW rows \in Seq(Y)
    PROVE  Selected(candidates, rows) \in Seq(X)
<1> DEFINE Named(row) == {e \in ToSet(candidates) : e.id = row.id}
           known == {row \in ToSet(rows) : Named(row) # {}}
           byTopic == Picked(rows, known, {p \in known \X known : p[1].topic = p[2].topic})
           chosen == [k \in DOMAIN byTopic |-> CHOOSE e \in Named(byTopic[k]) : TRUE]
<1>1. Selected(candidates, rows) = UpTo(chosen, MAX_ITEMS_PER_CATEGORY)
  BY DEF Selected
<1>2. PICK n \in Nat : byTopic \in [1..n -> known]
  <2> HIDE DEF known
  <2>1. byTopic \in Seq(Y \cap known)
    BY PickedAreWanted
  <2> HIDE DEF byTopic
  <2>2. byTopic \in [1..Len(byTopic) -> Y \cap known] /\ Len(byTopic) \in Nat
    BY <2>1
  <2> QED
    BY <2>2
<1>3. ASSUME NEW k \in 1..n PROVE (CHOOSE e \in Named(byTopic[k]) : TRUE) \in X
  <2>1. PICK row : row = byTopic[k]
    OBVIOUS
  <2>2. row \in known
    <3> HIDE DEF byTopic, known
    <3> QED
      BY <1>2, <2>1
  <2>3. Named(row) # {} /\ Named(row) \subseteq X
    <3>1. ToSet(candidates) \subseteq X
      BY MembersOf
    <3> QED
      BY <2>2, <3>1
  <2> HIDE DEF Named, byTopic
  <2> QED
    BY <2>1, <2>3
<1>4. chosen \in Seq(X)
  <2> HIDE DEF byTopic, Named
  <2>1. DOMAIN byTopic = 1..n
    BY <1>2
  <2>2. chosen \in [1..n -> X]
    BY <1>3, <2>1
  <2> HIDE DEF chosen
  <2> QED
    BY <2>2
<1>5. MAX_ITEMS_PER_CATEGORY \in Nat
  BY DEF MAX_ITEMS_PER_CATEGORY
<1> HIDE DEF chosen
<1> QED
  BY <1>1, <1>4, <1>5, SomeOf

-----------------------------------------------------------------------------
(* The daily news: what was shown is left out.                             *)

FocusTyped ==
    /\ minute \in Nat /\ refreshes \in Nat /\ zone \in 0..Day
    /\ refresher = [r \in Refreshers |-> refresher[r]]
    /\ \A r \in Refreshers : DOMAIN refresher[r] = DOMAIN Resting /\ IsFiniteSet(refresher[r].found)
NothingBefore ==
    refreshes = 0 => DOMAIN runs = {} /\ \A r \in Refreshers : refresher[r].at = "rest"
DaysArePast ==
    /\ \A d \in DOMAIN runs : d \in Int /\ d <= DateOf(minute) /\ "items" \in DOMAIN runs[d]
    /\ \A r \in Refreshers : refresher[r].at # "rest" =>
         refresher[r].date \in Int /\ refresher[r].date <= DateOf(minute)
\* What a day shows was seen on that day.
On(d) == (d * Day - zone)..((d + 1) * Day - zone - 1)
Remembers(d) == \A k \in ShownOn(d) : k \in DOMAIN remembered /\ remembered[k] \in On(d)
DaysRemembered == \A d \in DOMAIN runs : d > DateOf(minute) - 7 => Remembers(d)
\* What a refresh must not show, and, once it has chosen, does not.
Keys(edition) == {e.key : e \in Items(edition)}
LeavesOut(me, shown) ==
    /\ me.at \in {"catalog", "collect"} => shown \subseteq me.recent
    /\ me.at = "publish" => shown \cap Keys(me.edition) = {}
DaysLeftOut(me) ==
    \A d \in DOMAIN runs : me.date - 7 < d /\ d < me.date => LeavesOut(me, ShownOn(d))
NothingTwice == DaysRemembered /\ \A r \in Refreshers : DaysLeftOut(refresher[r])
FocusInv == FocusTyped /\ NothingBefore /\ DaysArePast /\ (late \/ NothingTwice)

\* A refresh that goes on: it keeps its day and what it leaves out, and chooses by that.
GoesOn(me, next) ==
    /\ DOMAIN next = DOMAIN Resting /\ IsFiniteSet(next.found) /\ next.date = me.date
    /\ me.at = "rest" => next.at = "rest"
    /\ next.at \in {"catalog", "collect"} => me.at \in {"catalog", "collect"} /\ next.recent = me.recent
    /\ next.at = "publish" => \/ me.at = "publish" /\ next.edition = me.edition
                              \/ me.at = "collect" /\ Keys(next.edition) \cap me.recent = {}
RefreshGoes(r) ==
    /\ \E next : Turns(r, next) /\ GoesOn(refresher[r], next)
    /\ UNCHANGED << minute, zone, runs, remembered, refreshes, late >>

LEMMA FewImages ==
    ASSUME NEW S, IsFiniteSet(S), NEW f, S \subseteq DOMAIN f
    PROVE  IsFiniteSet({f[x] : x \in S})
<1> DEFINE T == {f[x] : x \in S}
           g == [x \in S |-> f[x]]
<1>1. g \in Surjection(S, T)
  BY DEF Surjection
<1> QED
  BY <1>1, FS_Surjection

LEMMA FewEntries ==
    ASSUME NEW feed \in DOMAIN Feeds, NEW labels
    PROVE  IsFiniteSet(Entries(feed, labels))
<1>1. PICK shortened : shortened = UpTo(Feeds[feed], MAX_PER_FEED)
  OBVIOUS
<1>2. PICK X : shortened \in Seq(X)
  <2>1. MAX_PER_FEED \in Nat
    BY DEF MAX_PER_FEED
  <2> QED
    BY <1>1, <2>1, FeedsAssumption, SomeOf
<1>3. IsFiniteSet(ToSet(shortened))
  <2>1. PICK n \in Nat : n = Len(shortened)
    BY <1>2
  <2>2. DOMAIN shortened = 1..n
    BY <1>2, <2>1
  <2>3. ToSet(shortened) = {shortened[k] : k \in 1..n}
    BY <2>2 DEF ToSet
  <2>4. IsFiniteSet(1..n)
    BY FS_Interval
  <2> QED
    BY <2>2, <2>3, <2>4, FewImages
<1>4. PICK whole \in SUBSET ToSet(shortened) : Entries(feed, labels) = {[e EXCEPT !.labels = labels] : e \in whole}
  BY <1>1 DEF Entries
<1>5. IsFiniteSet(whole)
  BY <1>3, FS_Subset
<1>6. PICK f : f = [e \in whole |-> [e EXCEPT !.labels = labels]]
  OBVIOUS
<1>7. DOMAIN f = whole /\ Entries(feed, labels) = {f[e] : e \in whole}
  BY <1>4, <1>6
<1> QED
  BY <1>5, <1>7, FewImages

LEMMA EditionsAreUnseen ==
    ASSUME NEW found, IsFiniteSet(found), NEW sorted \in NewestFirst(found), NEW now, NEW recent,
           NEW silent, NEW twice
    PROVE  Keys(Edition(Grouped(sorted, now, recent), silent, twice)) \cap recent = {}
<1>0. PICK edition : edition = Edition(Grouped(sorted, now, recent), silent, twice)
  OBVIOUS
<1>1. sorted \in Seq(found)
  BY SortedAreOf
<1>2. ASSUME NEW c \in Categories PROVE ToSet(edition[c]) \subseteq Unseen(found, recent)
  <2>1. PICK candidates : candidates = Grouped(sorted, now, recent)[c]
    OBVIOUS
  <2>2. candidates \in Seq(Unseen(found, recent))
    BY <1>1, <2>1, GroupedAreUnseen
  <2>3. PICK rows : rows = Rows(candidates, twice)
    OBVIOUS
  <2>4. PICK Y : rows \in Seq(Y)
    BY <2>2, <2>3, RowsAreAList
  <2>5. Selected(candidates, rows) \in Seq(Unseen(found, recent))
    BY <2>2, <2>4, SelectedAreCandidates
  <2>6. edition[c] = << >> \/ edition[c] = Selected(candidates, rows)
    BY <1>0, <2>1, <2>3 DEF Edition
  <2>7. << >> \in Seq(Unseen(found, recent))
    OBVIOUS
  <2>8. edition[c] \in Seq(Unseen(found, recent))
    BY <2>5, <2>6, <2>7
  <2> QED
    BY <2>8, MembersOf
<1>3. DOMAIN edition = Categories
  BY <1>0 DEF Edition
<1>4. Keys(edition) \cap recent = {}
  BY <1>2, <1>3 DEF Keys, Items, Unseen
<1> QED
  BY <1>0, <1>4

LEMMA RefreshesGoOn ==
    ASSUME FocusTyped, NEW r \in Refreshers,
           \/ UseCatalog(r) \/ ImportCatalog(r) \/ Choose(r) \/ Unreachable(r) \/ ReadRun(r)
           \/ \E feed \in DOMAIN Feeds : FeedAnswers(r, feed) \/ FeedFails(r, feed)
    PROVE  RefreshGoes(r)
<1>0. PICK me : me = refresher[r]
  OBVIOUS
<1>1. DOMAIN me = DOMAIN Resting /\ IsFiniteSet(me.found)
  BY <1>0 DEF FocusTyped
<1>2. {"at", "date", "recent", "from", "sources", "asked", "found", "edition", "existing"} = DOMAIN me
  BY <1>1 DEF Resting
<1>3. ASSUME UseCatalog(r) \/ ImportCatalog(r)
      PROVE  RefreshGoes(r)
  <2>1. PICK sources : Collects(r, sources) /\ me.at = "catalog"
                       /\ UNCHANGED << minute, zone, runs, remembered, refreshes, late >>
    BY <1>0, <1>3 DEF UseCatalog, ImportCatalog
  <2>2. PICK asked : Turns(r, [me EXCEPT !.at = "collect", !.sources = sources, !.asked = asked])
    BY <1>0, <2>1 DEF Collects
  <2>3. PICK next : next = [me EXCEPT !.at = "collect", !.sources = sources, !.asked = asked]
    OBVIOUS
  <2>4. /\ DOMAIN next = DOMAIN me /\ next.found = me.found /\ next.date = me.date
        /\ next.at = "collect" /\ next.recent = me.recent
    BY <1>2, <2>3
  <2>5. GoesOn(me, next)
    BY <1>1, <2>1, <2>4 DEF GoesOn
  <2> QED
    BY <1>0, <2>1, <2>2, <2>3, <2>5 DEF RefreshGoes
<1>4. ASSUME NEW feed \in DOMAIN Feeds, FeedAnswers(r, feed)
      PROVE  RefreshGoes(r)
  <2>1. PICK asked, labels : Turns(r, [me EXCEPT !.asked = asked, !.found = me.found \cup Entries(feed, labels)])
    <3>1. Turns(r, [refresher[r] EXCEPT !.asked = @ \ {feed},
                      !.found = @ \cup Entries(feed, refresher[r].sources[feed])])
      BY <1>4 DEF FeedAnswers
    <3> QED
      BY <1>0, <3>1
  <2>2. PICK found : found = me.found \cup Entries(feed, labels)
    OBVIOUS
  <2>3. IsFiniteSet(found)
    BY <1>1, <2>2, FewEntries, FS_Union
  <2>4. PICK next : next = [me EXCEPT !.asked = asked, !.found = found]
    OBVIOUS
  <2>5. /\ DOMAIN next = DOMAIN me /\ next.found = found /\ next.date = me.date
        /\ next.at = me.at /\ next.recent = me.recent /\ next.edition = me.edition
    BY <1>2, <2>4
  <2>6. GoesOn(me, next)
    BY <1>1, <2>3, <2>5 DEF GoesOn
  <2> QED
    BY <1>0, <1>4, <2>1, <2>2, <2>4, <2>6 DEF RefreshGoes, FeedAnswers
<1>5. ASSUME NEW feed, FeedFails(r, feed)
      PROVE  RefreshGoes(r)
  <2>1. PICK asked : Turns(r, [me EXCEPT !.asked = asked])
    BY <1>0, <1>5 DEF FeedFails
  <2>2. PICK next : next = [me EXCEPT !.asked = asked]
    OBVIOUS
  <2>3. /\ DOMAIN next = DOMAIN me /\ next.found = me.found /\ next.date = me.date
        /\ next.at = me.at /\ next.recent = me.recent /\ next.edition = me.edition
    BY <1>2, <2>2
  <2>4. GoesOn(me, next)
    BY <1>1, <2>3 DEF GoesOn
  <2> QED
    BY <1>0, <1>5, <2>1, <2>2, <2>4 DEF RefreshGoes, FeedFails
<1>6. ASSUME Choose(r)
      PROVE  RefreshGoes(r)
  <2>0. PICK sorted \in NewestFirst(me.found) : \E silent, twice, at :
          /\ Turns(r, [Resting EXCEPT !.date = me.date,
                         !.edition = Edition(Grouped(sorted, me.from, me.recent), silent, twice), !.at = at])
          /\ at \in {"publish", "empty", "failed"}
    BY <1>0, <1>6 DEF Choose
  <2>1. PICK silent, twice, at :
          /\ Turns(r, [Resting EXCEPT !.date = me.date,
                         !.edition = Edition(Grouped(sorted, me.from, me.recent), silent, twice), !.at = at])
          /\ at \in {"publish", "empty", "failed"}
    BY <2>0
  <2>2. PICK edition : edition = Edition(Grouped(sorted, me.from, me.recent), silent, twice)
    OBVIOUS
  <2>3. Keys(edition) \cap me.recent = {}
    BY <1>1, <2>2, EditionsAreUnseen
  <2>4. PICK next : next = [Resting EXCEPT !.date = me.date, !.edition = edition, !.at = at]
    OBVIOUS
  <2>5. /\ DOMAIN next = DOMAIN Resting /\ next.found = {} /\ next.date = me.date
        /\ next.at = at /\ next.edition = edition
    BY <2>4 DEF Resting
  <2>6. me.at = "collect" /\ UNCHANGED << minute, zone, runs, remembered, refreshes, late >>
    BY <1>0, <1>6 DEF Choose
  <2>7. GoesOn(me, next)
    BY <2>1, <2>3, <2>5, <2>6, FS_EmptySet DEF GoesOn
  <2> QED
    BY <1>0, <2>1, <2>2, <2>4, <2>6, <2>7 DEF RefreshGoes
<1>7. ASSUME Unreachable(r)
      PROVE  RefreshGoes(r)
  <2>1. PICK next : next = [Resting EXCEPT !.at = "failed", !.date = me.date]
    OBVIOUS
  <2>2. /\ DOMAIN next = DOMAIN Resting /\ next.found = {} /\ next.date = me.date /\ next.at = "failed"
    BY <2>1 DEF Resting
  <2>3. Turns(r, next) /\ me.at = "catalog" /\ UNCHANGED << minute, zone, runs, remembered, refreshes, late >>
    BY <1>0, <1>7, <2>1 DEF Unreachable
  <2>4. GoesOn(me, next)
    BY <2>2, <2>3, FS_EmptySet DEF GoesOn
  <2> QED
    BY <1>0, <2>3, <2>4 DEF RefreshGoes
<1>8. ASSUME ReadRun(r)
      PROVE  RefreshGoes(r)
  <2>1. PICK existing : Turns(r, [me EXCEPT !.existing = existing])
    BY <1>0, <1>8 DEF ReadRun
  <2>2. PICK next : next = [me EXCEPT !.existing = existing]
    OBVIOUS
  <2>3. /\ DOMAIN next = DOMAIN me /\ next.found = me.found /\ next.date = me.date
        /\ next.at = me.at /\ next.recent = me.recent /\ next.edition = me.edition
    BY <1>2, <2>2
  <2>4. GoesOn(me, next)
    BY <1>1, <2>3 DEF GoesOn
  <2> QED
    BY <1>0, <1>8, <2>1, <2>2, <2>4 DEF RefreshGoes, ReadRun
<1> QED
  BY <1>3, <1>4, <1>5, <1>6, <1>7, <1>8

LEMMA DaysPass == \A t, u \in Nat : t <= u => DateOf(t) <= DateOf(u) /\ DateOf(t) \in Int
BY DEF DateOf, Day

LEMMA MinutesOfDays == \A t \in Nat : DateOf(t) * Day <= t /\ t <= DateOf(t) * Day + Day - 1
BY DEF DateOf, Day

LEMMA FocusInit == NewsInit => FocusInv
<1> SUFFICES ASSUME NewsInit PROVE FocusInv
  OBVIOUS
<1>1. FocusTyped
  <2>1. minute \in Nat /\ refreshes \in Nat /\ zone \in 0..Day
    BY TimeAssumption DEF NewsInit, Day
  <2>2. refresher = [r \in Refreshers |-> refresher[r]] /\ \A r \in Refreshers : refresher[r] = Resting
    BY DEF NewsInit
  <2>3. IsFiniteSet(Resting.found)
    BY FS_EmptySet DEF Resting
  <2> QED
    BY <2>1, <2>2, <2>3 DEF FocusTyped
<1>2. NothingBefore /\ DaysArePast
  BY DEF NewsInit, NothingBefore, DaysArePast, Resting
<1>3. NothingTwice
  BY DEF NewsInit, NothingTwice, DaysRemembered, DaysLeftOut
<1> QED
  BY <1>1, <1>2, <1>3 DEF FocusInv

\* Whoever does nothing leaves out what it left out, if the days show no more.
LEMMA StillLeftOut ==
    ASSUME NEW me, DaysLeftOut(me),
           \A d \in DOMAIN runs' : me.date - 7 < d /\ d < me.date /\ me.at # "rest" =>
             ShownOn(d)' = {} \/ (d \in DOMAIN runs /\ ShownOn(d)' = ShownOn(d))
    PROVE  \A d \in DOMAIN runs' : me.date - 7 < d /\ d < me.date => LeavesOut(me, ShownOn(d)')
BY DEF DaysLeftOut, LeavesOut

LEMMA FocusAtRest ==
    ASSUME FocusInv, UNCHANGED << runs, remembered, refresher, refreshes, late >>,
           minute' \in Nat, minute <= minute', zone' \in 0..Day, zone' = zone \/ refreshes = 0
    PROVE  FocusInv'
<1>0. FocusTyped /\ NothingBefore /\ DaysArePast /\ (late \/ NothingTwice)
  BY DEF FocusInv
<1>1. PICK today, next : today = DateOf(minute) /\ next = DateOf(minute')
  OBVIOUS
<1>2. today \in Int /\ next \in Int /\ today <= next
  BY <1>0, <1>1, DaysPass DEF FocusTyped
<1>3. DateOf(minute)' = next
  BY <1>1 DEF DateOf
<1>4. FocusTyped'
  BY <1>0 DEF FocusTyped
<1>5. NothingBefore'
  BY <1>0 DEF NothingBefore
<1>6. DaysArePast'
  <2>1. \A d \in DOMAIN runs : d \in Int /\ d <= next /\ "items" \in DOMAIN runs[d]
    BY <1>0, <1>1, <1>2 DEF DaysArePast
  <2>2. \A r \in Refreshers : refresher[r].at # "rest" => refresher[r].date \in Int /\ refresher[r].date <= next
    BY <1>0, <1>1, <1>2 DEF DaysArePast
  <2> QED
    BY <1>3, <2>1, <2>2 DEF DaysArePast
<1>7. ASSUME NothingTwice PROVE NothingTwice'
  <2>1. \A d : ShownOn(d)' = ShownOn(d)
    BY DEF ShownOn, RunOf
  <2>2. ASSUME NEW d \in DOMAIN runs', d > next - 7 PROVE Remembers(d)'
    <3>1. d \in DOMAIN runs /\ d \in Int /\ d > today - 7
      BY <1>0, <1>2, <2>2 DEF DaysArePast
    <3>2. Remembers(d)
      BY <1>1, <1>7, <3>1 DEF NothingTwice, DaysRemembered
    <3>3. zone' = zone
      BY <1>0, <3>1 DEF NothingBefore
    <3>4. On(d)' = On(d)
      BY <3>3 DEF On
    <3> QED
      BY <2>1, <3>2, <3>4 DEF Remembers
  <2>3. DaysRemembered'
    BY <1>3, <2>2 DEF DaysRemembered
  <2>4. \A r \in Refreshers : DaysLeftOut(refresher[r])'
    BY <1>7, <2>1 DEF NothingTwice, DaysLeftOut
  <2> QED
    BY <2>3, <2>4 DEF NothingTwice
<1> QED
  BY <1>0, <1>4, <1>5, <1>6, <1>7 DEF FocusInv

LEMMA RecentOfTheWeek ==
    ASSUME FocusTyped, NEW today \in Int, NEW d \in Int, today - 7 < d, d < today, Remembers(d)
    PROVE  ShownOn(d) \subseteq recentFingerprintsBefore(today)
<1>1. \A t \in On(d) : t >= (today - 7) * Day /\ t < today * Day
  BY DEF FocusTyped, On, Day
<1> QED
  BY <1>1 DEF Remembers, recentFingerprintsBefore

\* One refresh turns, the days stay as they are.
LEMMA FocusAtTurn ==
    ASSUME FocusInv, UNCHANGED << minute, zone, runs, remembered, late >>,
           NEW r \in Refreshers, NEW next, Turns(r, next), refreshes' \in Nat,
           refreshes' = 0 => refreshes = 0 /\ next.at = "rest",
           DOMAIN next = DOMAIN Resting, IsFiniteSet(next.found),
           next.at # "rest" => next.date \in Int /\ next.date <= DateOf(minute),
           NothingTwice => DaysLeftOut(next)
    PROVE  FocusInv'
<1>0. FocusTyped /\ NothingBefore /\ DaysArePast /\ (late \/ NothingTwice)
  BY DEF FocusInv
<1>1. /\ refresher' = [q \in Refreshers |-> refresher'[q]] /\ refresher'[r] = next
      /\ \A q \in Refreshers \ {r} : refresher'[q] = refresher[q]
  BY <1>0 DEF Turns, FocusTyped
<1>2. FocusTyped'
  BY <1>0, <1>1 DEF FocusTyped
<1>3. NothingBefore'
  BY <1>0, <1>1 DEF NothingBefore
<1>4. DateOf(minute)' = DateOf(minute)
  BY DEF DateOf
<1>5. DaysArePast'
  BY <1>0, <1>1, <1>4 DEF DaysArePast
<1>6. ASSUME NothingTwice PROVE NothingTwice'
  <2>1. \A d : ShownOn(d)' = ShownOn(d) /\ On(d)' = On(d)
    BY DEF ShownOn, RunOf, On
  <2>2. DaysRemembered'
    BY <1>4, <1>6, <2>1 DEF NothingTwice, DaysRemembered, Remembers
  <2>3. DaysLeftOut(next) /\ \A q \in Refreshers : DaysLeftOut(refresher[q])
    BY <1>6 DEF NothingTwice
  <2>4. \A q \in Refreshers : DaysLeftOut(refresher'[q])
    BY <1>1, <2>3
  <2>5. \A q \in Refreshers : DaysLeftOut(refresher[q])'
    BY <2>1, <2>4 DEF DaysLeftOut
  <2> QED
    BY <2>2, <2>5 DEF NothingTwice
<1> QED
  BY <1>0, <1>2, <1>3, <1>5, <1>6 DEF FocusInv

LEMMA FocusAtBegin ==
    ASSUME FocusInv, NEW r \in Refreshers, BeginRefresh(r)
    PROVE  FocusInv'
<1>0. FocusTyped /\ DaysArePast
  BY DEF FocusInv
<1>1. PICK today, recent : today = DateOf(minute) /\ recent = recentFingerprintsBefore(DateOf(minute))
  OBVIOUS
<1>2. PICK next : next = [Resting EXCEPT !.at = "catalog", !.date = today, !.from = minute, !.recent = recent]
  OBVIOUS
<1>3. Turns(r, next) /\ UNCHANGED << minute, zone, runs, remembered, late >> /\ refreshes' = refreshes + 1
  BY <1>1, <1>2 DEF BeginRefresh
<1>4. /\ DOMAIN next = DOMAIN Resting /\ next.found = {} /\ next.at = "catalog" /\ next.date = today
      /\ next.recent = recent
  BY <1>2 DEF Resting
<1>5. today \in Int
  BY <1>0, <1>1, DaysPass DEF FocusTyped
<1>6. refreshes' \in Nat /\ refreshes' # 0
  BY <1>0, <1>3 DEF FocusTyped
<1>7. ASSUME NothingTwice PROVE DaysLeftOut(next)
  <2>1. ASSUME NEW d \in DOMAIN runs, today - 7 < d, d < today
        PROVE  ShownOn(d) \subseteq recent
    <3>1. d \in Int /\ d > today - 7
      BY <1>0, <1>5, <2>1 DEF DaysArePast
    <3>2. Remembers(d)
      BY <1>1, <1>7, <3>1 DEF NothingTwice, DaysRemembered
    <3> QED
      BY <1>0, <1>1, <1>5, <2>1, <3>1, <3>2, RecentOfTheWeek
  <2> QED
    BY <1>4, <2>1 DEF DaysLeftOut, LeavesOut
<1>8. next.date <= DateOf(minute)
  BY <1>1, <1>4, <1>5
<1> QED
  BY <1>3, <1>4, <1>5, <1>6, <1>7, <1>8, FocusAtTurn, FS_EmptySet

LEMMA FocusGoesOn ==
    ASSUME FocusInv, NEW r \in Refreshers, RefreshGoes(r)
    PROVE  FocusInv'
<1>0. FocusTyped /\ NothingBefore /\ DaysArePast
  BY DEF FocusInv
<1>1. PICK next : Turns(r, next) /\ GoesOn(refresher[r], next)
  BY DEF RefreshGoes
<1>2. UNCHANGED << minute, zone, runs, remembered, refreshes, late >>
  BY DEF RefreshGoes
<1>3. PICK me : me = refresher[r]
  OBVIOUS
<1>4. ASSUME NEW shown, LeavesOut(me, shown) PROVE LeavesOut(next, shown)
  BY <1>1, <1>3, <1>4 DEF GoesOn, LeavesOut
<1>5. NothingTwice => DaysLeftOut(next)
  <2>1. NothingTwice => DaysLeftOut(me)
    BY <1>3 DEF NothingTwice
  <2>2. next.date = me.date
    BY <1>1, <1>3 DEF GoesOn
  <2> QED
    BY <1>4, <2>1, <2>2 DEF DaysLeftOut
<1>6. /\ refreshes' \in Nat /\ (refreshes' = 0 => refreshes = 0 /\ next.at = "rest")
      /\ (next.at # "rest" => next.date \in Int /\ next.date <= DateOf(minute))
  BY <1>0, <1>1, <1>2 DEF FocusTyped, NothingBefore, DaysArePast, GoesOn
<1>7. DOMAIN next = DOMAIN Resting /\ IsFiniteSet(next.found)
  BY <1>1 DEF GoesOn
<1> QED
  BY <1>1, <1>2, <1>5, <1>6, <1>7, FocusAtTurn

\* One refresh ends, and writes a day.
LEMMA FocusAtEnd ==
    ASSUME FocusInv, UNCHANGED << minute, zone, refreshes >>, NEW r \in Refreshers, Turns(r, Resting),
           refresher[r].at # "rest",
           \A d \in DOMAIN runs' : /\ d \in DOMAIN runs \/ d = refresher[r].date
                                   /\ "items" \in DOMAIN runs'[d],
           ~late' => /\ ~late /\ (NothingTwice => DaysRemembered')
                     /\ \A d \in DOMAIN runs' :
                          ShownOn(d)' = {} \/ d = DateOf(minute) \/ (d \in DOMAIN runs /\ ShownOn(d)' = ShownOn(d))
    PROVE  FocusInv'
<1>0. FocusTyped /\ NothingBefore /\ DaysArePast /\ (late \/ NothingTwice)
  BY DEF FocusInv
<1>1. /\ refresher' = [q \in Refreshers |-> refresher'[q]] /\ refresher'[r] = Resting
      /\ \A q \in Refreshers \ {r} : refresher'[q] = refresher[q]
  BY <1>0 DEF Turns, FocusTyped
<1>2. Resting.at = "rest" /\ IsFiniteSet(Resting.found)
  BY FS_EmptySet DEF Resting
<1>3. FocusTyped'
  BY <1>0, <1>1, <1>2 DEF FocusTyped
<1>4. NothingBefore'
  BY <1>0 DEF NothingBefore
<1>5. DateOf(minute)' = DateOf(minute)
  BY DEF DateOf
<1>6. DaysArePast'
  <2>1. \A d \in DOMAIN runs' : d \in Int /\ d <= DateOf(minute)
    BY <1>0 DEF DaysArePast
  <2>2. \A q \in Refreshers : refresher'[q].at # "rest" =>
          refresher'[q].date \in Int /\ refresher'[q].date <= DateOf(minute)
    BY <1>0, <1>1, <1>2 DEF DaysArePast
  <2> QED
    BY <1>5, <2>1, <2>2 DEF DaysArePast
<1>7. ASSUME ~late' PROVE NothingTwice'
  <2>1. NothingTwice /\ DaysRemembered'
    BY <1>0, <1>7
  <2>2. ASSUME NEW q \in Refreshers
        PROVE  DaysLeftOut(refresher[q])'
    <3>1. PICK me : me = refresher'[q]
      OBVIOUS
    <3>2. DaysLeftOut(me)
      <4>1. CASE q = r
        BY <1>1, <1>2, <3>1, <4>1 DEF DaysLeftOut, LeavesOut
      <4>2. CASE q # r
        BY <1>1, <2>1, <3>1, <4>2 DEF NothingTwice
      <4> QED
        BY <4>1, <4>2
    <3>3. me.at # "rest" => me.date \in Int /\ me.date <= DateOf(minute)
      BY <1>5, <1>6, <3>1 DEF DaysArePast
    <3>4. DateOf(minute) \in Int
      BY <1>0, DaysPass DEF FocusTyped
    <3>5. \A d \in DOMAIN runs' : me.date - 7 < d /\ d < me.date /\ me.at # "rest" =>
            ShownOn(d)' = {} \/ (d \in DOMAIN runs /\ ShownOn(d)' = ShownOn(d))
      BY <1>7, <3>3, <3>4
    <3>6. \A d \in DOMAIN runs' : me.date - 7 < d /\ d < me.date => LeavesOut(me, ShownOn(d)')
      BY <3>2, <3>5, StillLeftOut
    <3> QED
      BY <3>1, <3>6 DEF DaysLeftOut
  <2> QED
    BY <2>1, <2>2 DEF NothingTwice
<1> QED
  BY <1>3, <1>4, <1>6, <1>7 DEF FocusInv

LEMMA FocusAtPublish ==
    ASSUME FocusInv, NEW r \in Refreshers, Publish(r)
    PROVE  FocusInv'
<1>0. FocusTyped /\ DaysArePast
  BY DEF FocusInv
<1>1. PICK me : me = refresher[r]
  OBVIOUS
<1>2. PICK shown : shown = Keys(me.edition)
  OBVIOUS
<1>3. PICK stamped : stamped = [k \in DOMAIN remembered \cup shown |->
                                  IF k \in shown THEN minute - zone ELSE remembered[k]]
  OBVIOUS
<1>4. /\ me.at = "publish"
      /\ runs' = [d \in {d \in DOMAIN runs \cup {me.date} : d >= me.date - 1} |->
                    IF d = me.date THEN [status |-> "ready", items |-> me.edition] ELSE runs[d]]
      /\ remembered' = [k \in {k \in DOMAIN stamped : stamped[k] >= minute - zone - 7 * Day} |-> stamped[k]]
      /\ Turns(r, Resting) /\ late' = (late \/ DateOf(minute) # me.date)
      /\ UNCHANGED << minute, zone, refreshes >>
  BY <1>1, <1>2, <1>3 DEF Publish, Local, Keys
<1>5. \A d \in DOMAIN runs' :
        /\ d \in DOMAIN runs \/ d = me.date
        /\ IF d = me.date THEN runs'[d] = [status |-> "ready", items |-> me.edition]
           ELSE d \in DOMAIN runs /\ runs'[d] = runs[d]
  BY <1>4
<1>6. \A d \in DOMAIN runs' : "items" \in DOMAIN runs'[d]
  BY <1>0, <1>5 DEF DaysArePast
<1>7. \A d \in DOMAIN runs' : IF d = me.date THEN ShownOn(d)' = shown
                              ELSE d \in DOMAIN runs /\ ShownOn(d)' = ShownOn(d)
  BY <1>2, <1>5 DEF ShownOn, RunOf, Keys
<1>8. PICK today : today = DateOf(minute)
  OBVIOUS
<1>9. /\ today \in Int /\ today * Day <= minute /\ minute <= today * Day + Day - 1
      /\ zone \in Nat /\ minute \in Nat
  BY <1>0, <1>8, DaysPass, MinutesOfDays DEF FocusTyped
<1>10. ASSUME ~late', NothingTwice PROVE DaysRemembered'
  <2>1. me.date = today
    BY <1>4, <1>8, <1>10
  <2>2. \A d : On(d)' = On(d)
    BY <1>4 DEF On
  <2>3. ASSUME NEW k \in shown
        PROVE  k \in DOMAIN remembered' /\ remembered'[k] \in On(today)
    <3>1. k \in DOMAIN stamped /\ stamped[k] = minute - zone
      BY <1>3
    <3>2. minute - zone \in On(today) /\ minute - zone >= minute - zone - 7 * Day
      BY <1>9 DEF On, Day
    <3> QED
      BY <1>4, <3>1, <3>2
  <2>4. ASSUME NEW d \in DOMAIN runs', d > today - 7
        PROVE  Remembers(d)'
    <3>1. CASE d = today
      BY <1>7, <2>1, <2>2, <2>3, <3>1 DEF Remembers
    <3>2. CASE d # today
      <4>1. d \in DOMAIN runs /\ ShownOn(d)' = ShownOn(d)
        BY <1>7, <2>1, <3>2
      <4>2. d \in Int /\ d < today
        BY <1>0, <1>8, <1>9, <3>2, <4>1 DEF DaysArePast
      <4>3. Remembers(d)
        BY <1>8, <1>10, <2>4, <4>1 DEF NothingTwice, DaysRemembered
      <4>4. ShownOn(d) \cap shown = {}
        <5>1. DaysLeftOut(me)
          BY <1>1, <1>10 DEF NothingTwice
        <5>2. LeavesOut(me, ShownOn(d))
          BY <2>1, <2>4, <4>1, <4>2, <5>1 DEF DaysLeftOut
        <5> QED
          BY <1>2, <1>4, <5>2 DEF LeavesOut
      <4>5. ASSUME NEW k \in ShownOn(d)
            PROVE  k \in DOMAIN remembered' /\ remembered'[k] \in On(d)
        <5>1. k \in DOMAIN remembered /\ remembered[k] \in On(d)
          BY <4>3 DEF Remembers
        <5>2. k \in DOMAIN stamped /\ stamped[k] = remembered[k]
          BY <1>3, <4>4, <5>1
        <5>3. stamped[k] >= minute - zone - 7 * Day
          BY <1>9, <2>4, <4>2, <5>1, <5>2 DEF On, Day
        <5> QED
          BY <1>4, <5>1, <5>2, <5>3
      <4> QED
        BY <2>2, <4>1, <4>5 DEF Remembers
    <3> QED
      BY <3>1, <3>2
  <2>5. DateOf(minute)' = today
    BY <1>4, <1>8 DEF DateOf
  <2> QED
    BY <2>4, <2>5 DEF DaysRemembered
<1>11. ASSUME ~late'
       PROVE  /\ ~late /\ (NothingTwice => DaysRemembered')
              /\ \A d \in DOMAIN runs' :
                          ShownOn(d)' = {} \/ d = DateOf(minute) \/ (d \in DOMAIN runs /\ ShownOn(d)' = ShownOn(d))
  BY <1>4, <1>7, <1>10, <1>11
<1>12. me.at # "rest"
  BY <1>4
<1> QED
  BY <1>1, <1>4, <1>5, <1>6, <1>11, <1>12, FocusAtEnd

LEMMA FocusAtRecord ==
    ASSUME FocusInv, NEW r \in Refreshers, RecordNothing(r)
    PROVE  FocusInv'
<1>0. FocusTyped /\ DaysArePast
  BY DEF FocusInv
<1>1. PICK me : me = refresher[r]
  OBVIOUS
<1>2. /\ me.at # "rest" /\ Turns(r, Resting)
      /\ \/ runs' = runs
         \/ runs' = [d \in DOMAIN runs \cup {me.date} |->
                       IF d = me.date THEN [RunOf(me.date) EXCEPT !.status = me.at] ELSE runs[d]]
      /\ UNCHANGED << minute, zone, remembered, refreshes, late >>
  BY <1>1 DEF RecordNothing, Recorded, Written
<1>3. \A d : "items" \in DOMAIN RunOf(d) \/ (d \in DOMAIN runs /\ "items" \notin DOMAIN runs[d])
  BY DEF RunOf, None
<1>4. \A d : "items" \in DOMAIN RunOf(d)
  BY <1>0, <1>3 DEF DaysArePast
<1>5. ASSUME NEW d \in DOMAIN runs'
      PROVE  "items" \in DOMAIN runs'[d] /\ runs'[d].items = RunOf(d).items
  <2>1. CASE d # me.date \/ runs' = runs
    BY <1>2, <1>4, <2>1 DEF RunOf
  <2>2. CASE d = me.date /\ runs' # runs
    <3>1. PICK run : run = RunOf(d) /\ "items" \in DOMAIN run
      BY <1>4
    <3>2. runs'[d] = [run EXCEPT !.status = me.at]
      BY <1>2, <2>2, <3>1
    <3> QED
      BY <3>1, <3>2
  <2> QED
    BY <2>1, <2>2
<1>6. \A d \in DOMAIN runs' : ShownOn(d)' = ShownOn(d)
  BY <1>5 DEF ShownOn, RunOf
<1>7. \A d : d \notin DOMAIN runs => ShownOn(d) = {}
  <2>1. Items(None.items) = {}
    BY DEF Items, None, ToSet
  <2> QED
    BY <2>1 DEF ShownOn, RunOf
<1>8. \A d : On(d)' = On(d)
  BY <1>2 DEF On
<1>9. DateOf(minute)' = DateOf(minute)
  BY <1>2 DEF DateOf
<1>10. ASSUME NothingTwice PROVE DaysRemembered'
  <2>1. ASSUME NEW d \in DOMAIN runs', d > DateOf(minute) - 7
        PROVE  Remembers(d)
    BY <1>7, <1>10, <2>1 DEF NothingTwice, DaysRemembered, Remembers
  <2>2. \A d \in DOMAIN runs' : d > DateOf(minute) - 7 => Remembers(d)'
    BY <1>2, <1>6, <1>8, <2>1 DEF Remembers
  <2> QED
    BY <1>9, <2>2 DEF DaysRemembered
<1>11. \A d \in DOMAIN runs' : d \in DOMAIN runs \/ d = me.date
  BY <1>2
<1>12. \A d \in DOMAIN runs' :
                          ShownOn(d)' = {} \/ d = DateOf(minute) \/ (d \in DOMAIN runs /\ ShownOn(d)' = ShownOn(d))
  BY <1>6, <1>7
<1>13. ~late' => ~late
  BY <1>2
<1> QED
  BY <1>1, <1>2, <1>5, <1>10, <1>11, <1>12, <1>13, FocusAtEnd

LEMMA FocusStep == FocusInv /\ [NewsNext]_newsVars => FocusInv'
<1> SUFFICES ASSUME FocusInv, [NewsNext]_newsVars
             PROVE  FocusInv'
  OBVIOUS
<1>0. FocusTyped
  BY DEF FocusInv
<1>1. CASE UNCHANGED newsVars
  BY <1>0, <1>1, FocusAtRest DEF newsVars, FocusTyped
<1>2. CASE SetZone
  BY <1>0, <1>2, TimeAssumption, FocusAtRest DEF SetZone, FocusTyped
<1>3. ASSUME NEW wait \in Waits, Pass(wait) PROVE FocusInv'
  <2>1. minute' \in Nat /\ minute <= minute'
    BY <1>0, <1>3, TimeAssumption DEF Pass, FocusTyped
  <2> QED
    BY <1>0, <1>3, <2>1, FocusAtRest DEF Pass, FocusTyped
<1>4. ASSUME NEW r \in Refreshers,
             \/ UseCatalog(r) \/ ImportCatalog(r) \/ Choose(r) \/ Unreachable(r) \/ ReadRun(r)
             \/ \E feed \in DOMAIN Feeds : FeedAnswers(r, feed) \/ FeedFails(r, feed)
      PROVE  FocusInv'
  BY <1>0, <1>4, RefreshesGoOn, FocusGoesOn
<1> QED
  BY <1>1, <1>2, <1>3, <1>4, FocusAtBegin, FocusAtPublish, FocusAtRecord DEF NewsNext

\* A refresh leaves out what the six days before it show.
THEOREM EarlierDaysAreLeftOut == NewsSpec => LeavesOutEarlierDays
<1> DEFINE Leaves(r) ==
      refresher[r].at = "rest" /\ refresher'[r].at = "catalog" =>
         LET today == refresher'[r].date
             recent == refresher'[r].recent
         IN  late \/ /\ \A d \in DOMAIN runs : today - 7 < d /\ d < today => ShownOn(d) \subseteq recent
                     /\ zone = 0 => ShownOn(today) \cap recent = {}
<1>1. ASSUME FocusInv, [NewsNext]_newsVars, NEW r \in Refreshers,
             refresher[r].at = "rest", refresher'[r].at = "catalog"
      PROVE  Leaves(r)
  <2>0. FocusTyped /\ DaysArePast
    BY <1>1 DEF FocusInv
  <2>1. BeginRefresh(r)
    <3>1. ASSUME NEW q \in Refreshers, NEW next, Turns(q, next), next.at = "catalog" => refresher[q].at # "rest"
          PROVE  FALSE
      BY <1>1, <2>0, <3>1 DEF FocusTyped, Turns
    <3>2. ASSUME NEW q \in Refreshers, RefreshGoes(q) PROVE FALSE
      BY <3>1, <3>2 DEF RefreshGoes, GoesOn
    <3>3. ASSUME NEW q \in Refreshers, BeginRefresh(q), q # r PROVE FALSE
      BY <1>1, <2>0, <3>3 DEF FocusTyped, BeginRefresh, Turns
    <3>4. ASSUME NEW q \in Refreshers, Publish(q) \/ RecordNothing(q) PROVE FALSE
      BY <3>1, <3>4 DEF Publish, RecordNothing, Resting
    <3>5. refresher' # refresher
      BY <1>1
    <3> QED
      BY <1>1, <2>0, <3>2, <3>3, <3>4, <3>5, RefreshesGoOn DEF NewsNext, newsVars, SetZone, Pass
  <2>2. PICK today : today = DateOf(minute) /\ today \in Int
    BY <2>0, DaysPass DEF FocusTyped
  <2>3. refresher'[r].date = today /\ refresher'[r].recent = recentFingerprintsBefore(today)
    BY <2>0, <2>1, <2>2 DEF FocusTyped, BeginRefresh, Turns, Resting
  <2>4. CASE late
    BY <2>4
  <2>5. CASE ~late
    <3>1. DaysRemembered
      BY <1>1, <2>5 DEF FocusInv, NothingTwice
    <3>2. ASSUME NEW d \in DOMAIN runs, today - 7 < d, d < today
          PROVE  ShownOn(d) \subseteq recentFingerprintsBefore(today)
      <4>1. d \in Int /\ d > today - 7
        BY <2>0, <2>2, <3>2 DEF DaysArePast
      <4>2. Remembers(d)
        BY <2>2, <3>1, <4>1 DEF DaysRemembered
      <4> QED
        BY <2>0, <2>2, <3>2, <4>1, <4>2, RecentOfTheWeek
    <3>3. ASSUME zone = 0, NEW k \in ShownOn(today) PROVE k \notin recentFingerprintsBefore(today)
      <4>1. today \in DOMAIN runs
        <5>1. Items(None.items) = {}
          BY DEF Items, None, ToSet
        <5> QED
          BY <3>3, <5>1 DEF ShownOn, RunOf
      <4>2. remembered[k] \in On(today)
        BY <2>2, <3>1, <3>3, <4>1 DEF DaysRemembered, Remembers
      <4>3. remembered[k] >= today * Day /\ remembered[k] \in Int /\ today * Day \in Int
        BY <2>2, <3>3, <4>2 DEF On, Day
      <4> QED
        BY <4>3 DEF recentFingerprintsBefore
    <3> QED
      BY <2>3, <3>2, <3>3
  <2> QED
    BY <2>4, <2>5
<1>2. FocusInv /\ [NewsNext]_newsVars => [\A r \in Refreshers : Leaves(r)]_newsVars
  BY <1>1
<1> QED
  BY <1>2, FocusInit, FocusStep, PTL DEF NewsSpec, LeavesOutEarlierDays

\* A refresh that finds nothing, or fails, takes no edition from the readers, unless the edition
\* was published after that refresh had looked whether there is one; and what is dropped to make
\* room is older than yesterday.
THEOREM ReadyDaysStay == NewsSpec => ReadyDayStays
<1> DEFINE Stays(d) ==
      \/ d \in DOMAIN runs' /\ runs'[d].status = "ready"
      \/ d \notin DOMAIN runs' /\ d < DateOf(minute) - 1
      \/ \E r \in Refreshers : /\ refresher[r].date = d /\ refresher[r].existing # "ready"
                                /\ refresher'[r] = Resting
<1>1. ASSUME FocusInv, [NewsNext]_newsVars, NEW d \in DOMAIN runs, runs[d].status = "ready"
      PROVE  Stays(d)
  <2>0. FocusTyped /\ DaysArePast
    BY <1>1 DEF FocusInv
  <2>1. CASE runs' = runs
    BY <1>1, <2>1
  <2>2. ASSUME NEW r \in Refreshers, Publish(r)
        PROVE  Stays(d)
    <3>1. PICK date : date = refresher[r].date
      OBVIOUS
    <3>2. d \in Int /\ date \in Int /\ date <= DateOf(minute) /\ DateOf(minute) \in Int
      BY <1>1, <2>0, <2>2, <3>1, DaysPass DEF Publish, FocusTyped, DaysArePast
    <3>3. CASE d >= date - 1
      BY <1>1, <2>2, <3>1, <3>3 DEF Publish
    <3>4. CASE ~(d >= date - 1)
      <4>1. d \notin DOMAIN runs'
        BY <2>2, <3>1, <3>4 DEF Publish
      <4> QED
        BY <1>1, <3>2, <3>4, <4>1
    <3> QED
      BY <3>3, <3>4
  <2>3. ASSUME NEW r \in Refreshers, RecordNothing(r)
        PROVE  Stays(d)
    <3>1. CASE d # refresher[r].date
      BY <1>1, <2>3, <3>1 DEF RecordNothing, Recorded, Written
    <3>2. CASE d = refresher[r].date /\ refresher[r].existing = "ready"
      <4>1. runs' = runs
        BY <2>3, <3>2 DEF RecordNothing, Recorded
      <4> QED
        BY <1>1, <4>1
    <3>3. CASE d = refresher[r].date /\ refresher[r].existing # "ready"
      <4>1. refresher'[r] = Resting
        BY <1>1, <2>0, <2>3 DEF RecordNothing, Turns, FocusTyped
      <4> QED
        BY <3>3, <4>1
    <3> QED
      BY <3>1, <3>2, <3>3
  <2> QED
    BY <1>1, <2>1, <2>2, <2>3 DEF NewsNext, newsVars, SetZone, Pass, BeginRefresh, UseCatalog,
         ImportCatalog, FeedAnswers, FeedFails, Choose, Unreachable, ReadRun
<1>2. FocusInv /\ [NewsNext]_newsVars =>
        [\A d \in DOMAIN runs : runs[d].status = "ready" /\ HomeFocus(d).focus = d => Stays(d)]_newsVars
  BY <1>1
<1> QED
  BY <1>2, FocusInit, FocusStep, PTL DEF NewsSpec, ReadyDayStays

\* A day is ready, empty or failed, a feed in bad health has failed at least once, and no bound is
\* passed.
THEOREM NewsIsTyped == NewsSpec => []NewsTypeOK
<1> DEFINE Whole == NewsTypeOK /\ \A d \in DOMAIN runs : "status" \in DOMAIN runs[d]
<1>1. NewsInit => Whole
  BY TimeAssumption, NewsBounds DEF NewsInit, NewsTypeOK
<1>2. Whole /\ [NewsNext]_newsVars => Whole'
  <2> SUFFICES ASSUME Whole, [NewsNext]_newsVars PROVE Whole'
    OBVIOUS
  <2>1. minute \in MorningOf..LastMinute /\ refreshes \in 0..MaxRefreshes
    BY DEF NewsTypeOK
  <2>2. (minute \in MorningOf..LastMinute /\ refreshes \in 0..MaxRefreshes)'
    <3>1. ASSUME NEW wait \in Waits, Pass(wait) PROVE minute' \in MorningOf..LastMinute
      BY <2>1, <3>1, TimeAssumption, NewsBounds DEF Pass
    <3>2. ASSUME NEW r \in Refreshers, BeginRefresh(r) PROVE refreshes' \in 0..MaxRefreshes
      BY <2>1, <3>2, NewsBounds DEF BeginRefresh
    <3> QED
      BY <2>1, <3>1, <3>2 DEF NewsNext, newsVars, SetZone, Pass, BeginRefresh, UseCatalog, ImportCatalog,
           FeedAnswers, FeedFails, Choose, Publish, Unreachable, ReadRun, RecordNothing
  <2>3. ASSUME NEW d \in DOMAIN runs'
        PROVE  "status" \in DOMAIN runs'[d] /\ runs'[d].status \in {"ready", "empty", "failed"}
    <3>1. CASE runs' = runs
      BY <3>1, <2>3 DEF NewsTypeOK
    <3>2. ASSUME NEW r \in Refreshers, Publish(r)
          PROVE  "status" \in DOMAIN runs'[d] /\ runs'[d].status \in {"ready", "empty", "failed"}
      BY <2>3, <3>2 DEF NewsTypeOK, Publish
    <3>3. ASSUME NEW r \in Refreshers, RecordNothing(r), runs' # runs
          PROVE  "status" \in DOMAIN runs'[d] /\ runs'[d].status \in {"ready", "empty", "failed"}
      <4> DEFINE date == refresher[r].date
                 status == refresher[r].at
      <4>1. status \in {"empty", "failed"} /\ runs' = Written(date, [RunOf(date) EXCEPT !.status = status])
        BY <3>3 DEF RecordNothing, Recorded
      <4> HIDE DEF date, status
      <4>2. PICK run : run = RunOf(date) /\ "status" \in DOMAIN run
        <5>1. "status" \in DOMAIN None
          BY DEF None
        <5> QED
          BY <5>1 DEF RunOf
      <4>3. d # date => d \in DOMAIN runs /\ runs'[d] = runs[d]
        BY <2>3, <4>1 DEF Written
      <4>4. d = date => runs'[d] = [run EXCEPT !.status = status]
        BY <2>3, <4>1, <4>2 DEF Written
      <4>5. CASE d # date
        BY <4>3, <4>5 DEF NewsTypeOK
      <4>6. CASE d = date
        BY <4>1, <4>2, <4>4, <4>6
      <4> QED
        BY <4>5, <4>6
    <3> QED
      BY <3>1, <3>2, <3>3 DEF NewsNext, newsVars, SetZone, Pass, BeginRefresh, UseCatalog, ImportCatalog,
           FeedAnswers, FeedFails, Choose, Unreachable, ReadRun
  <2>4. ASSUME NEW f \in DOMAIN health'
        PROVE  health'[f].failures \in Nat \ {0}
    <3>1. CASE health' = health
      BY <3>1, <2>4 DEF NewsTypeOK
    <3>2. ASSUME NEW feed, health' = Forgotten(feed) PROVE health'[f].failures \in Nat \ {0}
      BY <2>4, <3>2 DEF NewsTypeOK, Forgotten
    <3>3. ASSUME NEW feed, NEW now, health' = source_failed(feed, now) PROVE health'[f].failures \in Nat \ {0}
      <4>1. FailuresOf(feed) \in Nat \ {0}
        BY DEF NewsTypeOK, FailuresOf, Known
      <4>2. PICK retry, expires : health' = [g \in DOMAIN health \cup {feed} |->
               IF g # feed THEN health[g]
               ELSE [failures |-> FailuresOf(feed), retry |-> retry, expires |-> expires]]
        BY <3>3 DEF source_failed
      <4> QED
        BY <2>4, <4>1, <4>2 DEF NewsTypeOK
    <3> QED
      BY <3>1, <3>2, <3>3 DEF NewsNext, newsVars, SetZone, Pass, BeginRefresh, UseCatalog, ImportCatalog,
           FeedAnswers, FeedFails, Choose, Publish, Unreachable, ReadRun, RecordNothing
  <2> QED
    BY <2>2, <2>3, <2>4 DEF NewsTypeOK
<1> QED
  BY <1>1, <1>2, PTL DEF NewsSpec
=============================================================================
