-------------------------- MODULE MCServicesProofs --------------------------
(***************************************************************************)
(* The parts that are checked in one run, MCServices, move one at a time:  *)
(* a behaviour of the run is one of each part.  So what FeishuStepProofs   *)
(* and ServicesProofs prove of a part holds in the run, whatever its       *)
(* constants are.                                                          *)
(***************************************************************************)
EXTENDS MCServices, FeishuStepProofs, ServicesProofs

vars == << subject, feishuVars, routeVars, newsVars, coupleVars >>

\* Every part of the run goes its own way, and rests while another one moves.
THEOREM PartsGoTheirWay == Spec => FeishuSpec /\ RouteSpec /\ NewsSpec /\ CoupleSpec
<1>1. Init => FeishuInit /\ RouteInit /\ NewsInit /\ CoupleInit
  BY DEF Init
<1>2. ASSUME [Next]_vars
      PROVE  /\ [FeishuNext]_feishuVars /\ [RouteNext]_routeVars
             /\ [NewsNext]_newsVars /\ [CoupleNext]_coupleVars
  <2>1. CASE FeishuMoves
    BY <2>1 DEF FeishuMoves
  <2>2. CASE RoutesMove
    BY <2>2 DEF RoutesMove
  <2>3. CASE NewsMoves
    BY <2>3 DEF NewsMoves
  <2>4. CASE CoupleMoves
    BY <2>4 DEF CoupleMoves
  <2>5. CASE UNCHANGED vars
    BY <2>5 DEF vars
  <2> QED
    BY <1>2, <2>1, <2>2, <2>3, <2>4, <2>5 DEF Next
<1> QED
  BY <1>1, <1>2, PTL DEF Spec, FeishuSpec, RouteSpec, NewsSpec, CoupleSpec, vars

\* The types of all parts hold in the run.
THEOREM PartsAreTyped == Spec => []TypeOK
<1>1. FeishuTypeOK /\ RouteTypeOK /\ NewsTypeOK /\ CoupleTypeOK => TypeOK
  BY DEF TypeOK
<1> QED
  BY <1>1, PartsGoTheirWay, SessionsAreTyped, RoutesAreTyped, NewsIsTyped, CoupleIsTyped, PTL
=============================================================================
