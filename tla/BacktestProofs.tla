--------------------------- MODULE BacktestProofs ---------------------------
(***************************************************************************)
(* Theorems about the risk gate, for every account and intent, and about   *)
(* the backtest, for every account, strategy profile, series of prices and *)
(* number of days.                                                         *)
(*                                                                         *)
(* The inductive invariant IInv of the backtest adds to the types          *)
(*   FlatBooks        a flat book carries no cost, so that the fill that   *)
(*                    opens a position, after which the tracker does not   *)
(*                    recompute, moves no equity;                          *)
(*   HighWaterLeads   the high water has seen the start and the equity;    *)
(*   TradeHasSize     a trade of the strategy has a remembered quantity;   *)
(*   EntryWithinDll   a position entered by the strategy's own trade was   *)
(*                    approved with the realized P&L the account still has. *)
(***************************************************************************)
EXTENDS Backtest, Facts

(***************************************************************************)
(* RiskGate: what the decision guarantees for every account size, tick     *)
(* value, buffer and intent.  These are about the operators alone.         *)
(***************************************************************************)

\* A quotient of a number that is not positive.
LEMMA DivOfNonPositive ==
    ASSUME NEW a \in Int, a <= 0, NEW b \in Nat \ {0}
    PROVE  a \div b <= 0
<1>1. a \div b <= 0 \div b
  BY DivMonotone
<1>2. 0 \div b = 0
  OBVIOUS
<1> QED  BY <1>1, <1>2

LEMMA PerTickType ==
    ASSUME NEW i \in Intent
    PROVE  /\ TickValue * Abs(i.qty) \in Nat \ {0}
           /\ Abs(i.qty) \in Nat \ {0} /\ i.qty \in Int /\ i.stop \in Nat
<1>1. i.qty \in Int /\ i.qty # 0 /\ i.stop \in Nat
  BY DEF Intent
<1>2. Abs(i.qty) \in Nat \ {0}
  BY <1>1 DEF Abs
<1>3. TickValue \in Nat \ {0}
  BY GateAssumption
<1> QED  BY <1>1, <1>2, <1>3

LEMMA PhantomType ==
    ASSUME NEW p \in Policies, NEW s \in AccountState
    PROVE  PhantomMll(p, s) \in Int
  BY PolicyAssumption
     DEF PhantomMll, AccountState, Smaller, Larger, Policies

-----------------------------------------------------------------------------

(***************************************************************************)
(* An approved intent with a bracket goes to the broker with a positive    *)
(* stop, and losing that stop and the safety buffer on top leaves equity   *)
(* at or above the floor (_augment_with_safety_buffer, spec 04 section     *)
(* 3.6).                                                                   *)
(***************************************************************************)
THEOREM ApprovedStopKeepsTheFloor ==
    ASSUME NEW p \in Policies, NEW i \in Intent, NEW s \in AccountState,
           NEW d \in Day, Approves(p, i, s, d), i.stop # NoBracket
    PROVE  LET a == Approved(p, i, s) IN
           /\ a.stop \in Nat \ {0} /\ a.stop <= i.stop /\ a.qty = i.qty
           /\ s.equity - WorstCaseLoss(a) - BufferTicks * TickValue * Abs(i.qty)
                >= PhantomMll(p, s)
<1> DEFINE a == Approved(p, i, s)
           tick == TickValue * Abs(i.qty)
           left == s.equity - PhantomMll(p, s)
           room == Room(p, i, s)
<1>1. /\ tick \in Nat \ {0} /\ i.stop \in Nat /\ Abs(i.qty) \in Nat \ {0}
  BY PerTickType
<1>2. left \in Int
  BY PhantomType DEF AccountState
<1>3. BufferTicks \in Nat /\ TickValue \in Nat \ {0}
  BY GateAssumption
<1>4. /\ left \div tick \in Int
      /\ (left \div tick) * tick <= left
  <2> HIDE DEF left, tick
  <2> QED  BY <1>1, <1>2, DivBelow
<1>5. room = left \div tick - BufferTicks /\ room \in Int
  BY <1>3, <1>4 DEF Room
<1>6. room > 0
  BY <1>5 DEF Approves, NoRoom
<1>7. a.stop = Smaller(i.stop, room) /\ a.qty = i.qty
  BY DEF Approved, SafeStop, Intent
<1>8. a.stop \in Nat \ {0} /\ a.stop <= i.stop /\ a.stop <= room
  <2>1. i.stop \in Nat \ {0}
    BY <1>1 DEF NoBracket
  <2> HIDE DEF room, a
  <2> QED  BY <1>5, <1>6, <1>7, <2>1 DEF Smaller
<1>9. (a.stop + BufferTicks) * tick <= left
  <2> HIDE DEF room, a, left, tick
  <2>1. a.stop + BufferTicks <= left \div tick
    BY <1>3, <1>4, <1>5, <1>8
  <2>2. (a.stop + BufferTicks) * tick <= (left \div tick) * tick
    BY <1>1, <1>3, <1>4, <1>8, <2>1
  <2> QED  BY <1>1, <1>2, <1>3, <1>4, <1>8, <2>2
<1>10. WorstCaseLoss(a) = a.stop * tick
  <2> HIDE DEF a
  <2>1. WorstCaseLoss(a) = a.stop * TickValue * Abs(i.qty)
    BY <1>7 DEF WorstCaseLoss
  <2> QED  BY <1>1, <1>3, <1>8, <2>1
<1>11. (a.stop + BufferTicks) * tick
         = WorstCaseLoss(a) + BufferTicks * TickValue * Abs(i.qty)
  <2> HIDE DEF a
  <2> QED  BY <1>1, <1>3, <1>8, <1>10
<1>12. WorstCaseLoss(a) \in Int /\ BufferTicks * TickValue * Abs(i.qty) \in Int
  <2> HIDE DEF a
  <2> QED  BY <1>1, <1>3, <1>8, <1>10
<1>13. PhantomMll(p, s) \in Int /\ s.equity \in Int
  BY PhantomType DEF AccountState
<1>14. s.equity - WorstCaseLoss(a) - BufferTicks * TickValue * Abs(i.qty)
         >= PhantomMll(p, s)
  <2> HIDE DEF a, tick
  <2> QED  BY <1>9, <1>11, <1>12, <1>13
<1> QED  BY <1>7, <1>8, <1>14

(***************************************************************************)
(* At or below the floor the gate approves nothing that makes the position *)
(* larger: rule 2a denies it without a bracket, the safety buffer with one.*)
(***************************************************************************)
THEOREM NothingGrowsAtTheFloor ==
    ASSUME NEW p \in Policies, NEW i \in Intent, NEW s \in AccountState,
           NEW d \in Day, Approves(p, i, s, d), s.equity <= PhantomMll(p, s)
    PROVE  ~OpensMore(i, s)
<1>1. CASE i.stop = NoBracket
  BY <1>1 DEF Approves, StopRequired
<1>2. CASE i.stop # NoBracket
  <2> DEFINE tick == TickValue * Abs(i.qty)
             left == s.equity - PhantomMll(p, s)
  <2>1. tick \in Nat \ {0}
    BY PerTickType
  <2>2. left \in Int /\ left <= 0
    BY PhantomType DEF AccountState
  <2>3. left \div tick \in Int /\ left \div tick <= 0
    <3> HIDE DEF left, tick
    <3> QED  BY <2>1, <2>2, DivBelow, DivOfNonPositive
  <2>4. Room(p, i, s) <= 0
    BY <2>3, GateAssumption DEF Room
  <2> QED  BY <1>2, <2>4 DEF Approves, NoRoom
<1> QED  BY <1>1, <1>2

-----------------------------------------------------------------------------

LEMMA CapIsMonotone ==
    ASSUME NEW p \in Policies, NEW s \in AccountState, NEW e \in Int,
           s.equity <= e
    PROVE  MaxPosition(p, s) <= MaxPosition(p, [s EXCEPT !.equity = e])
<1>1. /\ Ratio \in Nat /\ MaxMini \in Nat /\ Start \in Int
      /\ Tier1 \in Int /\ Tier2 \in Int
  BY PolicyAssumption
<1>2. s.equity \in Int /\ [s EXCEPT !.equity = e].equity = e
  BY DEF AccountState
<1>3. 2 * Ratio <= 3 * Ratio /\ 3 * Ratio <= 5 * Ratio /\ MaxMini * Ratio \in Int
  BY <1>1
<1>4. CASE p = "combine"
  BY <1>3, <1>4 DEF MaxPosition
<1>5. CASE p # "combine"
  BY <1>1, <1>2, <1>3, <1>5 DEF MaxPosition
<1> QED  BY <1>4, <1>5

(***************************************************************************)
(* "Monotone in equity" (spec 04 section 5.1, property 3): with everything *)
(* else equal, more equity never turns an approval into a denial, and the  *)
(* stop it allows is never tighter.                                        *)
(***************************************************************************)
THEOREM MonotoneInEquity ==
    ASSUME NEW p \in Policies, NEW i \in Intent, NEW s \in AccountState,
           NEW d \in Day, NEW e \in Int, s.equity <= e, Approves(p, i, s, d)
    PROVE  LET t == [s EXCEPT !.equity = e] IN
           /\ Approves(p, i, t, d)
           /\ Approved(p, i, s).stop <= Approved(p, i, t).stop
<1> DEFINE t == [s EXCEPT !.equity = e]
           tick == TickValue * Abs(i.qty)
<1>1. /\ t \in AccountState /\ t.equity = e /\ t.realized = s.realized
      /\ t.pos = s.pos /\ t.hw = s.hw /\ t.locked = s.locked
      /\ s.equity \in Int /\ s.pos \in Int /\ s.realized \in Int
  BY DEF AccountState
<1>2. /\ tick \in Nat \ {0} /\ Abs(i.qty) \in Nat \ {0}
      /\ i.qty \in Int /\ i.stop \in Nat
  BY PerTickType
<1>3. PhantomMll(p, t) = PhantomMll(p, s) /\ PhantomMll(p, s) \in Int
  <2>1. PhantomMll(p, t) = PhantomMll(p, s)
    BY <1>1 DEF PhantomMll
  <2> QED  BY <2>1, PhantomType
<1>4. Room(p, i, s) <= Room(p, i, t) /\ Room(p, i, s) \in Int /\ Room(p, i, t) \in Int
  <2> DEFINE small == s.equity - PhantomMll(p, s)
             large == t.equity - PhantomMll(p, t)
  <2>1. small \in Int /\ large \in Int /\ small <= large
    BY <1>1, <1>3
  <2>2. /\ small \div tick \in Int /\ large \div tick \in Int
        /\ small \div tick <= large \div tick
    <3> HIDE DEF small, large, tick
    <3> QED  BY <1>2, <2>1, DivBelow, DivMonotone
  <2> QED  BY <2>2, GateAssumption DEF Room
<1>5. /\ OpensMore(i, t) <=> OpensMore(i, s)
      /\ Projected(i, t) = Projected(i, s)
      /\ Abs(Projected(i, s)) \in Int
  BY <1>1, <1>2 DEF OpensMore, Projected, Abs
<1>6. WorstCaseLoss(i) \in Int
  BY <1>2, GateAssumption DEF WorstCaseLoss
<1>7. ~HardFlat(p, i, t, d) /\ ~StopRequired(i, t)
  BY <1>5 DEF Approves, HardFlat, StopRequired
<1>8. ~DllBreached(i, t)
  BY <1>1 DEF Approves, DllBreached
<1>9. ~MllBreached(p, i, t)
  BY <1>1, <1>3, <1>6 DEF Approves, MllBreached
<1>10. ~TooLarge(p, i, t)
  <2>1. MaxPosition(p, s) <= MaxPosition(p, t)
    BY <1>1, CapIsMonotone
  <2>2. MaxPosition(p, s) \in Int /\ MaxPosition(p, t) \in Int
    BY <1>1, PolicyAssumption DEF MaxPosition
  <2> QED  BY <1>5, <2>1, <2>2 DEF Approves, TooLarge
<1>11. ~NewsThrottled(i, t, d) /\ ~Inconsistent(p, d) /\ ~HighCancelRatio(d)
  BY <1>5 DEF Approves, NewsThrottled
<1>12. ~NoRoom(p, i, t)
  BY <1>4 DEF Approves, NoRoom
<1>13. Approves(p, i, t, d)
  BY <1>7, <1>8, <1>9, <1>10, <1>11, <1>12 DEF Approves
<1>14. Approved(p, i, s).stop <= Approved(p, i, t).stop
  <2>1. /\ Approved(p, i, s).stop = SafeStop(p, i, s)
        /\ Approved(p, i, t).stop = SafeStop(p, i, t)
    BY DEF Approved, Intent
  <2> HIDE DEF t
  <2> QED  BY <1>2, <1>4, <2>1 DEF SafeStop, Smaller, NoBracket
<1> QED  BY <1>13, <1>14

(***************************************************************************)
(* With a high water that has followed equity, on_tick gives the EFA       *)
(* policies the very floor of the Combine: high water less the maximum     *)
(* loss, until the high water reaches Start + Mll, and Start from then on. *)
(***************************************************************************)
THEOREM FloorOfEveryPolicy ==
    ASSUME NEW p \in Policies, NEW s \in AccountState,
           s.hw >= s.equity, s.hw >= Start, ~s.locked
    PROVE  PhantomMll(p, UpdateOnTick(p, s))
             = IF s.hw >= Start + Mll THEN Start ELSE s.hw - Mll
<1>1. s.hw \in Int /\ s.equity \in Int /\ Start \in Int /\ Mll \in Nat
  BY PolicyAssumption DEF AccountState
<1>2. CASE p = "efa"
  BY <1>1, <1>2 DEF UpdateOnTick, PhantomMll, Smaller, Larger
<1>3. CASE p = "combine"
  <2> DEFINE u == UpdateOnTick(p, s)
  <2>1. Larger(s.hw, s.equity) = s.hw
    BY <1>1 DEF Larger
  <2>2. u = [s EXCEPT !.hw = s.hw, !.locked = s.locked \/ s.hw >= Start + Mll]
    BY <1>3, <2>1 DEF UpdateOnTick
  <2>3. u.hw = s.hw /\ (u.locked <=> s.hw >= Start + Mll)
    <3>1. u.hw = s.hw /\ u.locked = (s.locked \/ s.hw >= Start + Mll)
      <4> HIDE DEF u
      <4> QED  BY <2>2 DEF AccountState
    <3> HIDE DEF u
    <3> QED  BY <3>1
  <2> HIDE DEF u
  <2>4. PhantomMll(p, u) = IF u.locked THEN Start ELSE u.hw - Mll
    BY <1>3 DEF PhantomMll
  <2>5. PhantomMll(p, u) = IF s.hw >= Start + Mll THEN Start ELSE s.hw - Mll
    BY <2>3, <2>4, Zenon
  <2> QED  BY <2>5 DEF u
<1> QED  BY <1>2, <1>3 DEF Policies

(***************************************************************************)
(* Backtest: the inductive invariant.                                      *)
(***************************************************************************)

FlatBooks == book.pos = 0 => book.cost = 0
HighWaterLeads == highWater >= Start /\ highWater >= Equity
TradeHasSize == strategy.side # 0 => strategy.openQty # 0
EntryWithinDll == ~orphaned /\ book.pos # 0 => book.realized > -DailyLoss

Accounts == TypeOK /\ FlatBooks /\ HighWaterLeads
Beliefs == BeliefMatchesAccount /\ TradeHasSize /\ EntryWithinDll
IInv == Accounts /\ Beliefs

(***************************************************************************)
(* The tier of a profit exists and is at least one contract.               *)
(***************************************************************************)
LEMMA TierType ==
    ASSUME NEW profit \in Int
    PROVE  TierFor(profit) \in Nat \ {0}
<1> DEFINE n == Len(Tiers)
           reached == {k \in 1..n : profit >= Tiers[k][1]}
<1>1. Tiers \in Seq(Int \X (Nat \ {0})) /\ n \in Nat /\ n >= 1
  BY StrategyAssumption
<1>2. IsFiniteSet(1..n) /\ Cardinality(1..n) = n
  <2> HIDE DEF n
  <2> QED  BY <1>1, FS_Interval
<1>3. IsFiniteSet(reached) /\ Cardinality(reached) <= n /\ Cardinality(reached) \in Nat
  <2>1. reached \subseteq 1..n
    OBVIOUS
  <2> HIDE DEF reached, n
  <2> QED  BY <1>2, <2>1, FS_Subset, FS_CardinalityType
<1>4. reached # {} => Cardinality(reached) # 0
  <2> HIDE DEF reached, n
  <2> QED  BY <1>3, FS_EmptySet
<1>5. \A k \in 1..n : Tiers[k][2] \in Nat \ {0}
  BY <1>1
<1> DEFINE k == IF reached = {} THEN 1 ELSE Cardinality(reached)
<1>6. k \in 1..n
  <2> HIDE DEF reached, n
  <2> QED  BY <1>1, <1>3, <1>4
<1>7. TierFor(profit) = Tiers[k][2]
  BY DEF TierFor
<1> HIDE DEF k, n, reached
<1> QED  BY <1>5, <1>6, <1>7

LEMMA EquityType ==
    ASSUME NEW b \in Book, NEW mark \in Int
    PROVE  EquityOf(b, mark) \in Int
<1>1. b.pos \in Int /\ b.cost \in Int /\ b.realized \in Int
  BY DEF Book
<1>2. Start \in Int /\ TickValue \in Int
  BY PolicyAssumption, GateAssumption
<1>3. mark * b.pos \in Int
  BY <1>1
<1>4. (mark * b.pos - b.cost) * TickValue \in Int
  BY <1>1, <1>2, <1>3
<1> QED  BY <1>1, <1>2, <1>4 DEF EquityOf

(***************************************************************************)
(* record_fill: types, the new position, and the equity at the price of    *)
(* the fill, which only a fill that reduces without closing moves.         *)
(***************************************************************************)
LEMMA FillType ==
    ASSUME NEW b \in Book, NEW q \in Int, NEW p \in Int
    PROVE  RecordFill(b, q, p) \in Book /\ RecordFill(b, q, p).pos = b.pos + q
<1>1. b.pos \in Int /\ b.cost \in Int /\ b.realized \in Int /\ b.pos + q \in Int
  BY DEF Book
<1>2. /\ p * q \in Int /\ p * b.pos \in Int /\ p * (b.pos + q) \in Int
      /\ Sign(b.pos) * p * Abs(q) \in Int
  BY <1>1 DEF Sign, Abs
<1>3. (p * b.pos - b.cost) * TickValue \in Int
  BY <1>1, <1>2, GateAssumption
<1>4. CASE b.pos = 0
  <2> DEFINE c == p * q
  <2>1. RecordFill(b, q, p) = [b EXCEPT !.pos = q, !.cost = c]
    BY <1>4 DEF RecordFill
  <2>2. c \in Int /\ q = b.pos + q
    BY <1>1, <1>2, <1>4
  <2> HIDE DEF c
  <2> QED  BY <1>1, <2>1, <2>2 DEF Book
<1>5. CASE b.pos # 0 /\ b.pos + q = 0
  <2>1. RecordFill(b, q, p)
          = [pos |-> 0, cost |-> 0,
             realized |-> b.realized + (p * b.pos - b.cost) * TickValue]
    BY <1>5 DEF RecordFill
  <2> QED  BY <1>1, <1>3, <1>5, <2>1 DEF Book
<1>6. CASE b.pos # 0 /\ b.pos + q # 0 /\ b.pos * (b.pos + q) < 0
  <2>1. RecordFill(b, q, p)
          = [pos |-> b.pos + q, cost |-> p * (b.pos + q),
             realized |-> b.realized + (p * b.pos - b.cost) * TickValue]
    BY <1>6 DEF RecordFill
  <2> QED  BY <1>1, <1>2, <1>3, <2>1 DEF Book
<1>7. CASE b.pos # 0 /\ b.pos + q # 0 /\ ~(b.pos * (b.pos + q) < 0)
  <2> DEFINE c == b.cost + Sign(b.pos) * p * Abs(q)
  <2>1. RecordFill(b, q, p) = [b EXCEPT !.pos = b.pos + q, !.cost = c]
    BY <1>7 DEF RecordFill
  <2>2. c \in Int
    BY <1>1, <1>2
  <2> HIDE DEF c
  <2> QED  BY <1>1, <2>1, <2>2 DEF Book
<1> QED  BY <1>4, <1>5, <1>6, <1>7

Reduces(b, n) == Sign(b.pos) = Sign(n.pos) /\ Abs(n.pos) < Abs(b.pos) /\ n.pos # 0

LEMMA FillEquity ==
    ASSUME NEW b \in Book, NEW q \in Int, NEW p \in Int,
           b.pos = 0 => b.cost = 0, q # 0
    PROVE  LET n == RecordFill(b, q, p) IN
           /\ n.pos = 0 => n.cost = 0
           /\ ~Reduces(b, n) => EquityOf(n, p) = EquityOf(b, p)
           /\ b.pos = 0 => n.realized = b.realized
<1> DEFINE n == RecordFill(b, q, p)
           profit == (p * b.pos - b.cost) * TickValue
<1>1. b.pos \in Int /\ b.cost \in Int /\ b.realized \in Int /\ b.pos + q \in Int
  BY DEF Book
<1>2. Start \in Int /\ TickValue \in Int
  BY PolicyAssumption, GateAssumption
<1>3. profit \in Int
  BY <1>1, <1>2
<1>4. EquityOf(b, p) = Start + b.realized + profit
  BY DEF EquityOf
<1>5. CASE b.pos = 0
  <2>1. n = [b EXCEPT !.pos = q, !.cost = p * q]
    BY <1>5 DEF RecordFill
  <2>2. n.pos = q /\ n.cost = p * q /\ n.realized = b.realized
    BY <2>1 DEF Book
  <2>3. EquityOf(n, p) = Start + b.realized + (p * q - p * q) * TickValue
    BY <2>2 DEF EquityOf
  <2>4. EquityOf(n, p) = Start + b.realized
    <3>1. p * q - p * q = 0 /\ 0 * TickValue = 0
      BY <1>2
    <3> HIDE DEF n
    <3> QED  BY <1>1, <1>2, <2>3, <3>1
  <2>5. EquityOf(b, p) = Start + b.realized
    <3>1. profit = 0
      BY <1>2, <1>5
    <3> HIDE DEF profit
    <3> QED  BY <1>1, <1>2, <1>4, <3>1
  <2> QED  BY <2>2, <2>4, <2>5
<1>6. CASE b.pos # 0 /\ b.pos + q = 0
  <2>1. n = [pos |-> 0, cost |-> 0, realized |-> b.realized + profit]
    BY <1>6 DEF RecordFill
  <2>2. n.pos = 0 /\ n.cost = 0 /\ n.realized = b.realized + profit
    BY <2>1
  <2>3. EquityOf(n, p) = Start + (b.realized + profit) + (p * 0 - 0) * TickValue
    BY <2>2 DEF EquityOf
  <2>4. EquityOf(n, p) = Start + (b.realized + profit)
    <3> HIDE DEF profit
    <3> QED  BY <1>1, <1>2, <1>3, <2>3
  <2>5. EquityOf(n, p) = EquityOf(b, p)
    <3> HIDE DEF profit, n
    <3> QED  BY <1>1, <1>2, <1>3, <1>4, <2>4
  <2> QED  BY <1>6, <2>2, <2>5
<1>7. CASE b.pos # 0 /\ b.pos + q # 0 /\ b.pos * (b.pos + q) < 0
  <2> DEFINE new == b.pos + q
  <2>1. n = [pos |-> new, cost |-> p * new, realized |-> b.realized + profit]
    BY <1>7 DEF RecordFill
  <2>2. n.pos = new /\ n.cost = p * new /\ n.realized = b.realized + profit
    BY <2>1
  <2>3. EquityOf(n, p) = Start + (b.realized + profit) + (p * new - p * new) * TickValue
    BY <2>2 DEF EquityOf
  <2>4. EquityOf(n, p) = Start + (b.realized + profit)
    <3> HIDE DEF profit, new
    <3>1. new \in Int
      BY <1>1 DEF new
    <3> QED  BY <1>1, <1>2, <1>3, <2>3, <3>1
  <2>5. EquityOf(n, p) = EquityOf(b, p)
    <3> HIDE DEF profit, n
    <3> QED  BY <1>1, <1>2, <1>3, <1>4, <2>4
  <2> QED  BY <1>7, <2>2, <2>5
<1>8. CASE b.pos # 0 /\ b.pos + q # 0 /\ ~(b.pos * (b.pos + q) < 0)
  <2> DEFINE c == b.cost + Sign(b.pos) * p * Abs(q)
  <2>1. n = [b EXCEPT !.pos = b.pos + q, !.cost = c]
    BY <1>8 DEF RecordFill
  <2>2. n.pos = b.pos + q /\ n.cost = c /\ n.realized = b.realized
    BY <2>1 DEF Book
  <2>3. (b.pos > 0 <=> b.pos + q > 0) /\ (b.pos < 0 <=> b.pos + q < 0)
    BY <1>1, <1>8
  <2>4. SUFFICES ASSUME ~Reduces(b, n) PROVE EquityOf(n, p) = EquityOf(b, p)
    BY <1>8, <2>2
  <2>5. Abs(b.pos + q) >= Abs(b.pos)
    <3>1. Sign(b.pos) = Sign(b.pos + q)
      BY <1>1, <2>3 DEF Sign
    <3>2. Abs(b.pos + q) \in Int /\ Abs(b.pos) \in Int
      BY <1>1 DEF Abs
    <3> HIDE DEF n
    <3> QED  BY <1>8, <2>2, <2>4, <3>1, <3>2 DEF Reduces
  <2>6. Sign(b.pos) * Abs(q) = q
    BY <1>1, <1>8, <2>3, <2>5 DEF Sign, Abs
  <2>7. Sign(b.pos) * p * Abs(q) = p * q
    <3>1. Sign(b.pos) \in Int /\ Abs(q) \in Int
      BY <1>1 DEF Sign, Abs
    <3>2. Sign(b.pos) * p * Abs(q) = p * (Sign(b.pos) * Abs(q))
      BY <3>1
    <3> QED  BY <2>6, <3>2
  <2>8. p * (b.pos + q) - c = p * b.pos - b.cost
    BY <1>1, <2>7
  <2>9. EquityOf(n, p) = Start + b.realized + (p * (b.pos + q) - c) * TickValue
    <3> HIDE DEF c, n
    <3> QED  BY <2>2 DEF EquityOf
  <2> QED  BY <1>4, <2>8, <2>9
<1> QED  BY <1>5, <1>6, <1>7, <1>8

-----------------------------------------------------------------------------

LEMMA EquityIsInt ==
    ASSUME TypeOK PROVE Equity \in Int /\ highWater \in Int /\ close \in Int
<1>1. book \in Book /\ close \in Int /\ highWater \in Int
  BY BacktestAssumption DEF TypeOK
<1> QED  BY <1>1, EquityType DEF Equity

(***************************************************************************)
(* The AccountState of the bar is the book's, and its floor is the floor   *)
(* of the persistent machine.                                              *)
(***************************************************************************)
LEMMA StateOfTheBar ==
    ASSUME Accounts
    PROVE  /\ state \in AccountState
           /\ state.equity = Equity /\ state.pos = book.pos
           /\ state.realized = book.realized
           /\ PhantomMll(policy, state) = Trailing!Floor
<1>1. /\ Equity \in Int /\ highWater \in Int /\ book \in Book
      /\ policy \in Policies /\ highWater >= Start /\ highWater >= Equity
  BY EquityIsInt DEF Accounts, HighWaterLeads, TypeOK
<1>2. /\ Snapshot \in AccountState /\ Snapshot.equity = Equity
      /\ Snapshot.realized = book.realized /\ Snapshot.pos = book.pos
      /\ Snapshot.hw = highWater /\ ~Snapshot.locked
  BY <1>1 DEF Snapshot, AccountState, Book
<1>3. Start \in Int /\ Mll \in Nat
  BY PolicyAssumption
<1>4. /\ state \in AccountState
      /\ state.equity = Snapshot.equity /\ state.pos = Snapshot.pos
      /\ state.realized = Snapshot.realized
  <2>1. CASE policy = "efa"
    BY <1>2, <2>1 DEF state, UpdateOnTick
  <2>2. CASE policy # "efa"
    <3> DEFINE hw == Larger(Snapshot.hw, Snapshot.equity)
               locked == Snapshot.locked \/ hw >= Start + Mll
    <3>1. state = [Snapshot EXCEPT !.hw = hw, !.locked = locked]
      BY <2>2 DEF state, UpdateOnTick
    <3>2. hw \in Int
      BY <1>1, <1>2 DEF Larger
    <3>3. locked \in BOOLEAN
      OBVIOUS
    <3> HIDE DEF hw, locked
    <3> QED  BY <1>2, <3>1, <3>2, <3>3 DEF AccountState
  <2> QED  BY <2>1, <2>2
<1>5. PhantomMll(policy, state)
        = IF Snapshot.hw >= Start + Mll THEN Start ELSE Snapshot.hw - Mll
  BY <1>1, <1>2, FloorOfEveryPolicy DEF state
<1>6. PhantomMll(policy, state) = Trailing!Floor
  BY <1>2, <1>5 DEF Trailing!Floor
<1> QED  BY <1>2, <1>4, <1>6

LEMMA IntentType ==
    ASSUME TypeOK, TradeHasSize
    PROVE  /\ TierQty \in Nat \ {0}
           /\ strategy.side # 0 => ExitIntent(strategy, TierQty) \in Intent
           /\ \A side \in {-1, 1}, stop \in Stops :
                 EntryIntent(side, stop, TierQty) \in Intent
<1>1. Equity - Start \in Int /\ strategy \in StrategyState
  BY EquityIsInt, PolicyAssumption DEF TypeOK
<1>2. TierQty \in Nat \ {0}
  <2>1. state.equity = Equity
    BY DEF state, UpdateOnTick, Snapshot
  <2> QED  BY <1>1, <2>1, TierType DEF TierQty
<1>3. ASSUME strategy.side # 0
      PROVE  ExitIntent(strategy, TierQty) \in Intent
  <2>1. CloseQty(strategy, TierQty) \in Nat \ {0}
    BY <1>1, <1>2 DEF CloseQty, StrategyState
  <2>2. strategy.side \in {-1, 1}
    BY <1>1, <1>3 DEF StrategyState, Sides
  <2>3. -strategy.side * CloseQty(strategy, TierQty) \in Int \ {0}
    BY <2>1, <2>2
  <2> QED  BY <2>3 DEF ExitIntent, Intent
<1>4. ASSUME NEW side \in {-1, 1}, NEW stop \in Stops
      PROVE  EntryIntent(side, stop, TierQty) \in Intent
  <2>1. side * TierQty \in Int \ {0} /\ stop \in Nat
    BY <1>2, StrategyAssumption
  <2> QED  BY <2>1 DEF EntryIntent, Intent
<1> QED  BY <1>2, <1>3, <1>4

LEMMA DecideStep ==
    ASSUME Accounts, NEW i \in Intent, NEW d \in BacktestDays,
           Decide(i, d), UNCHANGED close
    PROVE  /\ book' \in Book /\ highWater' \in Int
           /\ FlatBooks' /\ HighWaterLeads'
           /\ highWater' = Larger(highWater, Equity')
           /\ Approves(policy, i, state, d) => book'.pos = book.pos + i.qty
           /\ ~Approves(policy, i, state, d) => book' = book
           /\ book.pos = 0 => book'.realized = book.realized
           /\ ~Reduces(book, book') => Equity' = Equity
<1>1. /\ Equity \in Int /\ highWater \in Int /\ book \in Book /\ close \in Int
      /\ highWater >= Start /\ highWater >= Equity /\ Start \in Int
  BY EquityIsInt, PolicyAssumption DEF Accounts, HighWaterLeads, TypeOK
<1>2. i.qty \in Int /\ i.qty # 0
  BY DEF Intent
<1>3. CASE ~Approves(policy, i, state, d)
  <2>1. book' = book /\ highWater' = highWater
    BY <1>3 DEF Decide
  <2>2. Equity' = Equity
    BY <2>1 DEF Equity
  <2>3. highWater' = Larger(highWater, Equity')
    BY <1>1, <2>1, <2>2 DEF Larger
  <2> QED  BY <1>1, <1>3, <2>1, <2>2, <2>3
           DEF Accounts, FlatBooks, HighWaterLeads
<1>4. CASE Approves(policy, i, state, d)
  <2>1. Approved(policy, i, state).qty = i.qty
    BY DEF Approved, Intent
  <2>2. book' = RecordFill(book, i.qty, close)
    BY <1>4, <2>1 DEF Decide
  <2>3. book' \in Book /\ book'.pos = book.pos + i.qty
    BY <1>1, <1>2, <2>2, FillType
  <2>4. /\ book'.pos = 0 => book'.cost = 0
        /\ ~Reduces(book, book') => EquityOf(book', close) = EquityOf(book, close)
        /\ book.pos = 0 => book'.realized = book.realized
    BY <1>1, <1>2, <2>2, FillEquity DEF Accounts, FlatBooks
  <2>5. Equity' = EquityOf(book', close) /\ Equity = EquityOf(book, close)
        /\ Equity' \in Int
    BY <1>1, <2>3, EquityType DEF Equity
  <2>6. highWater' = Larger(highWater, Equity')
    <3>1. CASE book.pos = 0
      <4>1. ~Reduces(book, book')
        BY <1>2, <2>3, <3>1 DEF Reduces, Abs
      <4>2. Equity' = Equity
        BY <2>4, <2>5, <4>1
      <4>3. highWater' = highWater
        BY <1>4, <3>1 DEF Decide
      <4> QED  BY <1>1, <4>2, <4>3 DEF Larger
    <3>2. CASE book.pos # 0
      BY <1>4, <2>5, <3>2 DEF Decide, HighWater
    <3> QED  BY <3>1, <3>2
  <2>7. HighWaterLeads' /\ highWater' \in Int
    BY <1>1, <2>5, <2>6 DEF HighWaterLeads, Larger
  <2> QED  BY <1>4, <2>3, <2>4, <2>5, <2>6, <2>7 DEF FlatBooks
<1> QED  BY <1>3, <1>4

-----------------------------------------------------------------------------

LEMMA InitInv == Init => IInv /\ Trailing!Init
<1> SUFFICES ASSUME Init PROVE IInv /\ Trailing!Init
  OBVIOUS
<1>1. Start \in Int /\ TickValue \in Int /\ Mll \in Nat /\ close \in Int
  BY PolicyAssumption, GateAssumption, BacktestAssumption DEF Init
<1>2. book \in Book /\ book.pos = 0 /\ book.cost = 0 /\ book.realized = 0
  BY DEF Init, Book
<1>3. Equity = Start
  <2>1. Equity = Start + 0 + (close * 0 - 0) * TickValue
    BY <1>2 DEF Equity, EquityOf
  <2> QED  BY <1>1, <2>1
<1>4. TypeOK
  <2>1. FreshStrategy \in StrategyState
    BY StrategyAssumption DEF FreshStrategy, StrategyState, Sides
  <2>2. 0 \in 0..MaxDays
    BY BacktestAssumption
  <2>3. /\ policy \in Policies /\ pc \in {"mark", "decide"} /\ day \in 0..MaxDays
        /\ close \in Prices /\ highWater \in Int /\ strategy \in StrategyState
    BY <1>1, <2>1, <2>2 DEF Init
  <2>4. orphaned \in BOOLEAN
    BY DEF Init
  <2> QED  BY <1>2, <2>3, <2>4 DEF TypeOK
<1>5. Accounts
  BY <1>1, <1>2, <1>3, <1>4 DEF Init, Accounts, FlatBooks, HighWaterLeads
<1>6. Beliefs
  BY <1>2 DEF Init, Beliefs, BeliefMatchesAccount, TradeHasSize,
              EntryWithinDll, FreshStrategy
<1>7. Trailing!Init
  BY <1>1, <1>3 DEF Init, Trailing!Init
<1> QED  BY <1>5, <1>6, <1>7 DEF IInv

LEMMA MarkStep ==
    ASSUME IInv, NEW newDay \in BOOLEAN, NEW price \in Prices,
           Mark(newDay, price)
    PROVE  IInv' /\ highWater' = Larger(highWater, Equity') /\ Equity' \in Int
<1>1. /\ TypeOK /\ Equity \in Int /\ highWater \in Int /\ book \in Book
      /\ strategy \in StrategyState /\ highWater >= Start /\ Start \in Int
  BY EquityIsInt, PolicyAssumption
     DEF IInv, Accounts, HighWaterLeads, TypeOK
<1>2. /\ book' = book /\ close' = price /\ price \in Int
      /\ highWater' = HighWater(book, price)
  BY BacktestAssumption DEF Mark
<1>3. Equity' = EquityOf(book, price) /\ Equity' \in Int
  BY <1>1, <1>2, EquityType DEF Equity
<1>4. highWater' = Larger(highWater, Equity')
  BY <1>2, <1>3 DEF HighWater
<1>5. ResetDay(strategy) \in StrategyState
  <2>1. 0 \in 0..MaxTrades /\ 0 \in 0..RangeBars
    BY StrategyAssumption
  <2>2. 0 \in Sides
    BY DEF Sides
  <2> QED  BY <1>1, <2>1, <2>2 DEF ResetDay, FreshStrategy, StrategyState
<1>6. day' \in 0..MaxDays
  BY <1>1, BacktestAssumption DEF Mark, TypeOK
<1>7. orphaned' \in BOOLEAN /\ policy' \in Policies /\ pc' = "decide"
  BY <1>1 DEF Mark, TypeOK
<1>8. strategy' \in StrategyState
  BY <1>1, <1>5 DEF Mark
<1>9. TypeOK'
  <2>1. highWater' \in Int
    BY <1>1, <1>3, <1>4 DEF Larger
  <2> QED  BY <1>1, <1>2, <1>6, <1>7, <1>8, <2>1 DEF TypeOK
<1>10. HighWaterLeads' /\ FlatBooks'
  BY <1>1, <1>2, <1>3, <1>4
     DEF IInv, Accounts, HighWaterLeads, FlatBooks, Larger
<1>11. strategy.openQty \in Nat /\ strategy'.openQty = strategy.openQty
  BY <1>1 DEF Mark, ResetDay, FreshStrategy, StrategyState
<1>12. TradeHasSize'
  <2>1. newDay => strategy'.side = 0
    BY <1>1 DEF Mark, ResetDay, FreshStrategy, StrategyState
  <2> QED  BY <1>11, <2>1 DEF IInv, Beliefs, TradeHasSize, Mark
<1>13. BeliefMatchesAccount'
  <2> SUFFICES ASSUME ~orphaned'
               PROVE  book.pos \in {0, strategy'.side * strategy'.openQty}
    BY <1>2 DEF BeliefMatchesAccount
  <2>1. ~orphaned /\ ~(newDay /\ strategy.side # 0 /\ book.pos # 0)
    BY DEF Mark
  <2>2. book.pos \in {0, strategy.side * strategy.openQty}
    BY <2>1 DEF IInv, Beliefs, BeliefMatchesAccount
  <2>3. CASE ~newDay
    BY <2>2, <2>3 DEF Mark
  <2>4. CASE newDay /\ book.pos = 0
    BY <2>4
  <2>5. CASE newDay /\ strategy.side = 0
    <3>1. book.pos = 0
      BY <1>11, <2>2, <2>5
    <3> QED  BY <3>1
  <2> QED  BY <2>1, <2>3, <2>4, <2>5
<1>14. EntryWithinDll'
  BY <1>2 DEF IInv, Beliefs, EntryWithinDll, Mark
<1> QED  BY <1>3, <1>4, <1>9, <1>10, <1>12, <1>13, <1>14
         DEF IInv, Accounts, Beliefs

(***************************************************************************)
(* The exit of the strategy's own trade closes the position, unless the    *)
(* gate denies it.                                                         *)
(***************************************************************************)
LEMMA ExitStep ==
    ASSUME IInv, NEW d \in BacktestDays, Exit(d)
    PROVE  IInv' /\ highWater' = Larger(highWater, Equity') /\ Equity' \in Int
<1> DEFINE i == ExitIntent(strategy, TierQty)
           approved == Approves(policy, i, state, d)
<1>1. /\ TypeOK /\ Accounts /\ TradeHasSize
      /\ strategy \in StrategyState /\ book \in Book
  BY DEF IInv, Accounts, Beliefs, TypeOK
<1>2. /\ strategy.side # 0 /\ UNCHANGED close /\ Decide(i, d)
      /\ strategy' = AfterExit(strategy)
      /\ orphaned' = (orphaned \/ (book.pos # 0 /\ ~approved))
      /\ pc' = "mark" /\ policy' = policy /\ day' = day
  BY DEF Exit
<1>3. i \in Intent /\ i.stop = 0 /\ i.qty = -strategy.side * strategy.openQty
  <2>1. i \in Intent
    BY <1>1, <1>2, IntentType
  <2> QED  BY <1>1, <1>2, <2>1 DEF ExitIntent, CloseQty, TradeHasSize
<1> HIDE DEF i
<1>4. /\ book' \in Book /\ highWater' \in Int
      /\ FlatBooks' /\ HighWaterLeads'
      /\ highWater' = Larger(highWater, Equity')
      /\ approved => book'.pos = book.pos + i.qty
      /\ ~approved => book' = book
  BY <1>1, <1>2, <1>3, DecideStep
<1>5. strategy' \in StrategyState /\ strategy'.side = 0 /\ strategy'.openQty = 0
  <2>1. 0 \in Sides
    BY DEF Sides
  <2>3. strategy.trades \in 0..MaxTrades /\ strategy.built \in 0..RangeBars
    BY <1>1 DEF StrategyState
  <2>4. strategy' = [side |-> 0, entry |-> 0, stop |-> 0, openQty |-> 0,
                     trades |-> strategy.trades, built |-> strategy.built]
    BY <1>2 DEF AfterExit, FreshStrategy
  <2> QED  BY <2>1, <2>3, <2>4 DEF StrategyState
<1>6. TypeOK'
  BY <1>1, <1>2, <1>4, <1>5 DEF TypeOK
<1>7. ~orphaned' => book'.pos = 0
  <2> SUFFICES ASSUME ~orphaned' PROVE book'.pos = 0
    OBVIOUS
  <2>1. ~orphaned /\ (book.pos = 0 \/ approved)
    BY <1>2
  <2>2. book.pos \in {0, strategy.side * strategy.openQty}
    BY <2>1 DEF IInv, Beliefs, BeliefMatchesAccount
  <2>3. CASE book.pos = 0
    <3>1. i.qty \in Int /\ i.qty # 0
      BY <1>3 DEF Intent
    <3>2. state.pos = 0
      BY <1>1, <2>3, StateOfTheBar
    <3>3. OpensMore(i, state)
      BY <3>1, <3>2 DEF OpensMore, Projected, Abs
    <3>4. ~approved
      BY <1>3, <3>3 DEF Approves, StopRequired, NoBracket
    <3> QED  BY <1>4, <2>3, <3>4
  <2>4. CASE book.pos # 0
    <3>1. book'.pos = strategy.side * strategy.openQty
                        + -strategy.side * strategy.openQty
      BY <1>3, <1>4, <2>1, <2>2, <2>4
    <3>2. strategy.side \in Int /\ strategy.openQty \in Int
      BY <1>1 DEF StrategyState, Sides
    <3> QED  BY <3>1, <3>2
  <2> QED  BY <2>3, <2>4
<1>8. Beliefs'
  BY <1>5, <1>7 DEF Beliefs, BeliefMatchesAccount, TradeHasSize, EntryWithinDll
<1>9. Equity' \in Int
  BY <1>4, <1>6, EquityType, BacktestAssumption DEF Equity, TypeOK
<1> QED  BY <1>4, <1>6, <1>8, <1>9 DEF IInv, Accounts


(***************************************************************************)
(* An entry comes from a flat account, unless a trade was orphaned before, *)
(* and the approved one is the position the strategy remembers.            *)
(***************************************************************************)
LEMMA EnterStep ==
    ASSUME IInv, NEW side \in {-1, 1}, NEW stop \in Stops,
           NEW d \in BacktestDays, Enter(side, stop, d)
    PROVE  IInv' /\ highWater' = Larger(highWater, Equity') /\ Equity' \in Int
<1> DEFINE i == EntryIntent(side, stop, TierQty)
           approved == Approves(policy, i, state, d)
           qty == TierQty
<1>1. /\ TypeOK /\ Accounts /\ TradeHasSize /\ close \in Int
      /\ strategy \in StrategyState /\ book \in Book
  BY EquityIsInt DEF IInv, Accounts, Beliefs, TypeOK
<1>2. /\ strategy.side = 0 /\ strategy.trades < MaxTrades
      /\ UNCHANGED close /\ Decide(i, d)
      /\ strategy' = AfterEntry(strategy, side, stop, close, qty)
      /\ orphaned' = orphaned /\ pc' = "mark" /\ policy' = policy /\ day' = day
  BY DEF Enter, MayEnter
<1>3. i \in Intent /\ qty \in Nat \ {0} /\ i.qty = side * qty /\ stop \in Nat
  BY <1>1, IntentType, StrategyAssumption DEF EntryIntent
<1> HIDE DEF i, qty
<1>4. /\ book' \in Book /\ highWater' \in Int
      /\ FlatBooks' /\ HighWaterLeads'
      /\ highWater' = Larger(highWater, Equity')
      /\ approved => book'.pos = book.pos + i.qty
      /\ ~approved => book' = book
      /\ book.pos = 0 => book'.realized = book.realized
  BY <1>1, <1>2, <1>3, DecideStep
<1>5. /\ strategy' \in StrategyState /\ strategy'.side = side
      /\ strategy'.openQty = qty
  <2>1. strategy.trades + 1 \in 0..MaxTrades
    <3>1. strategy.trades \in 0..MaxTrades
      BY <1>1 DEF StrategyState
    <3>2. MaxTrades \in Nat
      BY StrategyAssumption
    <3>3. strategy.trades < MaxTrades
      BY <1>2
    <3> QED  BY <3>1, <3>2, <3>3
  <2>2. strategy.built \in 0..RangeBars /\ side \in Sides
    BY <1>1 DEF StrategyState, Sides
  <2>3. strategy' = [side |-> side, entry |-> close, stop |-> stop,
                     trades |-> strategy.trades + 1, built |-> strategy.built,
                     openQty |-> qty]
    BY <1>2 DEF AfterEntry
  <2> QED  BY <1>1, <1>3, <2>1, <2>2, <2>3 DEF StrategyState
<1>6. TypeOK'
  BY <1>1, <1>2, <1>4, <1>5 DEF TypeOK
<1>7. ~orphaned => book.pos = 0
  <2> SUFFICES ASSUME ~orphaned PROVE book.pos = 0
    OBVIOUS
  <2>1. book.pos \in {0, 0 * strategy.openQty}
    BY <1>2 DEF IInv, Beliefs, BeliefMatchesAccount
  <2>2. strategy.openQty \in Nat
    BY <1>1 DEF StrategyState
  <2> QED  BY <2>1, <2>2
<1>8. BeliefMatchesAccount'
  <2> SUFFICES ASSUME ~orphaned PROVE book'.pos \in {0, side * qty}
    BY <1>2, <1>5 DEF BeliefMatchesAccount
  <2>1. side * qty \in Int
    BY <1>3
  <2> QED  BY <1>3, <1>4, <1>7, <2>1
<1>9. EntryWithinDll'
  <2> SUFFICES ASSUME ~orphaned, book'.pos # 0
               PROVE  book'.realized > -DailyLoss
    BY <1>2 DEF EntryWithinDll
  <2>1. book.pos = 0 /\ approved
    BY <1>4, <1>7
  <2>2. ~DllBreached(i, state)
    BY <2>1 DEF Approves
  <2>3. state.realized = book.realized /\ book.realized \in Int
    BY <1>1, StateOfTheBar DEF Book
  <2>4. WorstCaseLoss(i) \in Nat
    <3>1. i.stop \in Nat /\ Abs(i.qty) \in Nat /\ TickValue \in Nat
      BY <1>3, PerTickType, GateAssumption
    <3> QED  BY <3>1 DEF WorstCaseLoss
  <2> QED  BY <1>4, <2>1, <2>2, <2>3, <2>4, GateAssumption DEF DllBreached
<1>10. TradeHasSize'
  BY <1>3, <1>5 DEF TradeHasSize
<1>11. Equity' \in Int
  BY <1>4, <1>6, EquityType, BacktestAssumption DEF Equity, TypeOK
<1> QED  BY <1>4, <1>6, <1>8, <1>9, <1>10, <1>11 DEF IInv, Accounts, Beliefs

LEMMA QuietStep ==
    ASSUME IInv,
           BuildRange \/ NoIntent \/ UNCHANGED vars
    PROVE  IInv' /\ highWater' = Larger(highWater, Equity') /\ Equity' \in Int
<1>1. /\ UNCHANGED <<policy, day, close, book, highWater, orphaned>>
      /\ pc' \in {"mark", "decide"}
  BY DEF BuildRange, NoIntent, vars, IInv, Accounts, TypeOK
<1>2. /\ TypeOK /\ strategy \in StrategyState
      /\ Equity \in Int /\ highWater \in Int /\ highWater >= Equity
  BY EquityIsInt DEF IInv, Accounts, TypeOK, HighWaterLeads
<1>3. /\ strategy' \in StrategyState /\ strategy'.side = strategy.side
      /\ strategy'.openQty = strategy.openQty
  <2>1. CASE BuildRange
    <3>1. strategy.built + 1 \in 0..RangeBars
      BY <1>2, <2>1, StrategyAssumption DEF BuildRange, BuildingRange, StrategyState
    <3> QED  BY <1>2, <2>1, <3>1 DEF BuildRange, StrategyState
  <2>2. CASE ~BuildRange
    BY <1>2, <2>2 DEF NoIntent, vars
  <2> QED  BY <2>1, <2>2
<1>4. Equity' = Equity
  BY <1>1 DEF Equity
<1>5. TypeOK'
  BY <1>1, <1>2, <1>3 DEF TypeOK
<1>6. highWater' = Larger(highWater, Equity')
  BY <1>1, <1>2, <1>4 DEF Larger
<1>7. FlatBooks' /\ HighWaterLeads'
  BY <1>1, <1>4 DEF IInv, Accounts, FlatBooks, HighWaterLeads
<1>8. Beliefs'
  BY <1>1, <1>3 DEF IInv, Beliefs, BeliefMatchesAccount, TradeHasSize, EntryWithinDll
<1> QED  BY <1>2, <1>4, <1>5, <1>6, <1>7, <1>8 DEF IInv, Accounts

LEMMA Step ==
    ASSUME IInv, [Next]_vars
    PROVE  IInv' /\ highWater' = Larger(highWater, Equity') /\ Equity' \in Int
<1>1. CASE \E newDay \in BOOLEAN, price \in Prices : Mark(newDay, price)
  BY <1>1, MarkStep
<1>2. CASE \E d \in BacktestDays : Exit(d)
  BY <1>2, ExitStep
<1>3. CASE \E side \in {-1, 1}, stop \in Stops, d \in BacktestDays :
              Enter(side, stop, d)
  BY <1>3, EnterStep
<1>4. CASE BuildRange \/ NoIntent \/ UNCHANGED vars
  BY <1>4, QuietStep
<1> QED  BY <1>1, <1>2, <1>3, <1>4 DEF Next

-----------------------------------------------------------------------------

LEMMA Invariance == Spec => []IInv
<1>1. Init => IInv
  BY InitInv
<1>2. IInv /\ [Next]_vars => IInv'
  BY Step
<1> QED  BY <1>1, <1>2, PTL DEF Spec

(***************************************************************************)
(* Type correctness.                                                       *)
(***************************************************************************)
THEOREM TypeCorrect == Spec => []TypeOK
<1>1. IInv => TypeOK
  BY DEF IInv, Accounts
<1> QED  BY <1>1, Invariance, PTL

(***************************************************************************)
(* The floor of a Combine account, computed from each bar's fresh          *)
(* AccountState, is the floor of one persistent machine.                   *)
(***************************************************************************)
THEOREM FloorIsPersistent == Spec => []FloorAgrees
<1>1. IInv => FloorAgrees
  BY StateOfTheBar DEF IInv, FloorAgrees
<1> QED  BY <1>1, Invariance, PTL

(***************************************************************************)
(* The bot's account implements the trailing maximum-loss machine.         *)
(***************************************************************************)
THEOREM ImplementsTrailing == Spec => TrailingSpec
<1>1. Init => Trailing!Init
  BY InitInv
<1>2. IInv /\ [Next]_vars => [Trailing!Tick]_(Trailing!vars)
  <2> SUFFICES ASSUME IInv, [Next]_vars PROVE Trailing!Tick
    BY DEF Trailing!Tick
  <2>1. highWater' = Larger(highWater, Equity') /\ Equity' \in Int
    BY Step
  <2>2. highWater' = Trailing!Higher(highWater, Equity')
    BY <2>1 DEF Trailing!Higher, Larger
  <2>3. (highWater' >= Start + Mll)
          = (highWater >= Start + Mll \/ highWater' >= Start + Mll)
    <3>1. highWater \in Int /\ highWater' \in Int /\ highWater' >= highWater
      BY <2>1, EquityIsInt DEF IInv, Accounts, Larger
    <3>2. Start + Mll \in Int
      BY PolicyAssumption
    <3>3. highWater >= Start + Mll => highWater' >= Start + Mll
      BY <3>1, <3>2
    <3> QED  BY <3>3
  <2> QED  BY <2>1, <2>2, <2>3 DEF Trailing!Tick
<1> QED  BY <1>1, <1>2, Invariance, PTL DEF Spec, TrailingSpec, Trailing!Spec

(***************************************************************************)
(* A higher high water has a floor that is at least as high.               *)
(***************************************************************************)
LEMMA HigherFloor ==
    ASSUME NEW h \in Int, NEW k \in Int, k >= h
    PROVE  (IF k >= Start + Mll THEN Start ELSE k - Mll)
             >= (IF h >= Start + Mll THEN Start ELSE h - Mll)
<1>1. Start \in Int /\ Mll \in Int
  BY PolicyAssumption
<1> QED  BY <1>1

\* The floor that FloorAgrees speaks of, wherever in the bar the engine is and
\* under either policy
FloorIsTrailing == PhantomMll(policy, state) = Trailing!Floor

(***************************************************************************)
(* The floor of the gate is a one-way ratchet.                             *)
(***************************************************************************)
THEOREM FloorIsARatchet == Spec => FloorNeverFalls
<1>1. IInv => FloorIsTrailing
  BY StateOfTheBar DEF IInv, FloorIsTrailing
<1>2. IInv /\ FloorIsTrailing /\ FloorIsTrailing' /\ [Next]_vars
        => [PhantomMll(policy, state)' >= PhantomMll(policy, state)]_vars
  <2> SUFFICES ASSUME IInv, FloorIsTrailing, FloorIsTrailing', [Next]_vars
               PROVE  PhantomMll(policy, state)' >= PhantomMll(policy, state)
    OBVIOUS
  <2>1. highWater' = Larger(highWater, Equity') /\ Equity' \in Int
    BY Step
  <2>2. highWater \in Int /\ highWater' \in Int /\ highWater' >= highWater
    BY <2>1, EquityIsInt DEF IInv, Accounts, Larger
  <2>3. Trailing!Floor'
          = IF highWater' >= Start + Mll THEN Start ELSE highWater' - Mll
    BY DEF Trailing!Floor
  <2>4. Trailing!Floor
          = IF highWater >= Start + Mll THEN Start ELSE highWater - Mll
    BY DEF Trailing!Floor
  <2>5. Trailing!Floor' >= Trailing!Floor
    BY <2>2, <2>3, <2>4, HigherFloor
  <2> QED  BY <2>5 DEF FloorIsTrailing
<1> QED  BY <1>1, <1>2, Invariance, PTL DEF Spec, FloorNeverFalls

(***************************************************************************)
(* Until a trade is forgotten or its exit denied, the account holds what   *)
(* the strategy believes it holds.                                         *)
(***************************************************************************)
THEOREM BeliefIsRight == Spec => []BeliefMatchesAccount
<1>1. IInv => BeliefMatchesAccount
  BY DEF IInv, Beliefs
<1> QED  BY <1>1, Invariance, PTL

(***************************************************************************)
(* Until then, at or above the floor, no rule denies the exit of the       *)
(* strategy's own trade: it closes the position, so rules 1, 2a, 4 and 5   *)
(* let it pass, and rule 2 passed the entry with the same realized P&L.    *)
(***************************************************************************)
THEOREM OwnExitPasses == Spec => []OwnExitIsApproved
<1>1. ASSUME IInv PROVE OwnExitIsApproved
  <2> SUFFICES ASSUME ~orphaned, strategy.side # 0, book.pos # 0,
                      state.equity >= PhantomMll(policy, state),
                      NEW d \in BacktestDays
               PROVE  Approves(policy, ExitIntent(strategy, TierQty), state, d)
    BY DEF OwnExitIsApproved
  <2> DEFINE i == ExitIntent(strategy, TierQty)
  <2>1. /\ TypeOK /\ Accounts /\ TradeHasSize /\ strategy \in StrategyState
        /\ book \in Book /\ policy \in Policies
    BY <1>1 DEF IInv, Accounts, Beliefs, TypeOK
  <2>2. i \in Intent /\ i.stop = 0 /\ i.qty = -strategy.side * strategy.openQty
    <3>1. i \in Intent
      BY <2>1, IntentType
    <3> QED  BY <2>1, <3>1 DEF ExitIntent, CloseQty, TradeHasSize
  <2> HIDE DEF i
  <2>3. /\ state \in AccountState /\ state.pos = book.pos
        /\ state.realized = book.realized
    BY <2>1, StateOfTheBar
  <2>4. book.pos = strategy.side * strategy.openQty
    BY <1>1 DEF IInv, Beliefs, BeliefMatchesAccount
  <2>5. Projected(i, state) = 0
    <3>1. strategy.side \in Int /\ strategy.openQty \in Int
      BY <2>1 DEF StrategyState, Sides
    <3> QED  BY <2>2, <2>3, <2>4, <3>1 DEF Projected
  <2>6. ~OpensMore(i, state) /\ Abs(Projected(i, state)) = 0
    <3>1. book.pos \in Int
      BY <2>1 DEF Book
    <3> QED  BY <2>3, <2>5, <3>1 DEF OpensMore, Abs
  <2>7. WorstCaseLoss(i) = 0
    <3>1. TickValue \in Nat /\ Abs(i.qty) \in Nat
      BY <2>2, PerTickType, GateAssumption
    <3> QED  BY <2>2, <3>1 DEF WorstCaseLoss
  <2>8. ~DllBreached(i, state)
    <3>1. book.realized > -DailyLoss /\ book.realized \in Int /\ DailyLoss \in Int
      BY <1>1, <2>1, GateAssumption DEF IInv, Beliefs, EntryWithinDll, Book
    <3> QED  BY <2>3, <2>7, <3>1 DEF DllBreached
  <2>9. ~MllBreached(policy, i, state)
    <3>1. PhantomMll(policy, state) \in Int /\ state.equity \in Int
      BY <2>1, <2>3, PhantomType DEF AccountState
    <3> QED  BY <2>7, <3>1 DEF MllBreached
  <2>10. ~TooLarge(policy, i, state)
    <3>1. MaxPosition(policy, state) \in Nat
      BY PolicyAssumption DEF MaxPosition
    <3> QED  BY <2>6, <3>1 DEF TooLarge
  <2>11. ~Inconsistent(policy, d) /\ ~HighCancelRatio(d)
    BY DEF BacktestDays, Inconsistent, HighCancelRatio
  <2>12. ~HardFlat(policy, i, state, d) /\ ~StopRequired(i, state)
         /\ ~NewsThrottled(i, state, d) /\ ~NoRoom(policy, i, state)
    BY <2>2, <2>6 DEF HardFlat, StopRequired, NewsThrottled, NoRoom, NoBracket
  <2>13. Approves(policy, i, state, d)
    BY <2>8, <2>9, <2>10, <2>11, <2>12 DEF Approves
  <2> QED  BY <2>13 DEF i
<1> QED  BY <1>1, Invariance, PTL


(***************************************************************************)
(* Every stop that goes out with an approved entry leaves the account      *)
(* above its floor by the safety buffer.                                   *)
(***************************************************************************)
THEOREM StopsAboveTheFloor == Spec => []StopsStayAboveFloor
<1>1. ASSUME IInv PROVE StopsStayAboveFloor
  <2> SUFFICES ASSUME NEW side \in {-1, 1}, NEW stop \in Stops,
                      NEW d \in BacktestDays,
                      Approves(policy, EntryIntent(side, stop, TierQty), state, d)
               PROVE  LET i == EntryIntent(side, stop, TierQty) IN
                      /\ Approved(policy, i, state).stop > 0
                      /\ Equity - WorstCaseLoss(Approved(policy, i, state))
                           - BufferTicks * TickValue * Abs(i.qty)
                         >= PhantomMll(policy, state)
    BY DEF StopsStayAboveFloor
  <2> DEFINE i == EntryIntent(side, stop, TierQty)
  <2>1. TypeOK /\ Accounts /\ TradeHasSize /\ policy \in Policies
    BY <1>1 DEF IInv, Accounts, Beliefs, TypeOK
  <2>2. i \in Intent
    BY <2>1, IntentType
  <2>3. i.stop # NoBracket
    BY StrategyAssumption DEF EntryIntent, NoBracket
  <2>4. d \in Day
    BY DEF BacktestDays, Day
  <2>5. state \in AccountState /\ state.equity = Equity
    BY <2>1, StateOfTheBar
  <2> HIDE DEF i
  <2>6. LET a == Approved(policy, i, state) IN
        /\ a.stop \in Nat \ {0}
        /\ state.equity - WorstCaseLoss(a) - BufferTicks * TickValue * Abs(i.qty)
             >= PhantomMll(policy, state)
    BY <2>1, <2>2, <2>3, <2>4, <2>5, ApprovedStopKeepsTheFloor DEF i
  <2>7. /\ Approved(policy, i, state).stop > 0
        /\ Equity - WorstCaseLoss(Approved(policy, i, state))
             - BufferTicks * TickValue * Abs(i.qty) >= PhantomMll(policy, state)
    BY <2>5, <2>6
  <2> QED  BY <2>7 DEF i
<1> QED  BY <1>1, Invariance, PTL

(***************************************************************************)
(* The decision of a bar, for the two action properties: an intent of the  *)
(* strategy is put to the gate, or the book stays as it is.                *)
(***************************************************************************)
LEMMA BookChanges ==
    ASSUME IInv, [Next]_vars, book' # book
    PROVE  /\ pc = "decide" /\ close' = close
           /\ \E i \in Intent, d \in BacktestDays :
                 Decide(i, d) /\ Approves(policy, i, state, d)
<1>1. TypeOK /\ TradeHasSize
  BY DEF IInv, Accounts, Beliefs
<1>2. CASE \E d \in BacktestDays : Exit(d)
  <2>1. PICK d \in BacktestDays : Exit(d)
    BY <1>2
  <2> DEFINE i == ExitIntent(strategy, TierQty)
  <2>2. i \in Intent
    BY <1>1, <2>1, IntentType DEF Exit
  <2>3. Decide(i, d) /\ pc = "decide" /\ close' = close
    BY <2>1 DEF Exit
  <2>4. Approves(policy, i, state, d)
    BY <2>3 DEF Decide
  <2> QED  BY <2>2, <2>3, <2>4
<1>3. CASE \E side \in {-1, 1}, stop \in Stops, d \in BacktestDays :
              Enter(side, stop, d)
  <2>1. PICK side \in {-1, 1}, stop \in Stops, d \in BacktestDays :
          Enter(side, stop, d)
    BY <1>3
  <2> DEFINE i == EntryIntent(side, stop, TierQty)
  <2>2. i \in Intent
    BY <1>1, IntentType
  <2>3. Decide(i, d) /\ pc = "decide" /\ close' = close
    BY <2>1 DEF Enter
  <2>4. Approves(policy, i, state, d)
    BY <2>3 DEF Decide
  <2> QED  BY <2>2, <2>3, <2>4
<1>4. CASE \/ \E newDay \in BOOLEAN, price \in Prices : Mark(newDay, price)
           \/ BuildRange
           \/ NoIntent
           \/ UNCHANGED vars
  BY <1>4 DEF Mark, BuildRange, NoIntent, vars
<1> QED  BY <1>2, <1>3, <1>4 DEF Next

(***************************************************************************)
(* At or below the floor no step of the bot makes the position larger.     *)
(***************************************************************************)
THEOREM TouchedOnlyShrinks == Spec => TouchedOnlyReduces
<1>1. ASSUME IInv, [Next]_vars, pc = "decide",
             state.equity <= PhantomMll(policy, state)
      PROVE  Abs(book'.pos) <= Abs(book.pos)
  <2>1. Accounts /\ book \in Book /\ policy \in Policies
    BY <1>1 DEF IInv, Accounts, TypeOK
  <2>2. CASE book' = book
    BY <2>1, <2>2 DEF Book, Abs
  <2>3. CASE book' # book
    <3>1. close' = close
          /\ \E i \in Intent, d \in BacktestDays :
                Decide(i, d) /\ Approves(policy, i, state, d)
      BY <1>1, <2>3, BookChanges
    <3>2. PICK i \in Intent, d \in BacktestDays :
            Decide(i, d) /\ Approves(policy, i, state, d)
      BY <3>1
    <3>3. d \in Day
      BY DEF BacktestDays, Day
    <3>4. state \in AccountState /\ state.pos = book.pos
      BY <2>1, StateOfTheBar
    <3>5. ~OpensMore(i, state)
      BY <1>1, <2>1, <3>2, <3>3, <3>4, NothingGrowsAtTheFloor
    <3>6. book'.pos = book.pos + i.qty
      BY <2>1, <3>1, <3>2, DecideStep
    <3>7. book.pos \in Int /\ i.qty \in Int
      BY <2>1 DEF Book, Intent
    <3> QED  BY <3>4, <3>5, <3>6, <3>7 DEF OpensMore, Projected, Abs
  <2> QED  BY <2>2, <2>3
<1>2. IInv /\ [Next]_vars
        => [pc = "decide" /\ state.equity <= PhantomMll(policy, state)
              => Abs(book'.pos) <= Abs(book.pos)]_vars
  BY <1>1
<1> QED  BY <1>2, Invariance, PTL DEF Spec, TouchedOnlyReduces

(***************************************************************************)
(* A fill moves no equity, one that reduces without closing excepted.      *)
(***************************************************************************)
THEOREM FillsAreNeutral == Spec => FillsMoveNoEquity
<1>1. ASSUME IInv, [Next]_vars, close' = close, ~ReducesOnly
      PROVE  Equity' = Equity
  <2>1. Accounts
    BY <1>1 DEF IInv
  <2>2. CASE book' = book
    BY <1>1, <2>2 DEF Equity
  <2>3. CASE book' # book
    <3>1. \E i \in Intent, d \in BacktestDays :
             Decide(i, d) /\ Approves(policy, i, state, d)
      BY <1>1, <2>3, BookChanges
    <3>2. ~Reduces(book, book')
      BY <1>1 DEF ReducesOnly, Reduces
    <3> QED  BY <1>1, <2>1, <3>1, <3>2, DecideStep
  <2> QED  BY <2>2, <2>3
<1>2. IInv /\ [Next]_vars
        => [close' = close /\ ~ReducesOnly => Equity' = Equity]_vars
  BY <1>1
<1> QED  BY <1>2, Invariance, PTL DEF Spec, FillsMoveNoEquity
=============================================================================
