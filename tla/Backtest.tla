------------------------------ MODULE Backtest ------------------------------
(***************************************************************************)
(* BacktestEngine._run_collect (backtest/engine.py): one strategy, the     *)
(* risk gate and the AccountStateTracker (backtest/tracker.py) over a      *)
(* series of bars of one symbol.  The live loop runs the same strategy,    *)
(* gate and tracker in the same order.                                     *)
(*                                                                         *)
(* The tracker's average entry is a quotient; cost is avg * position, so   *)
(* that money stays in integers.  Equity is not stored: a fill is always   *)
(* at the mark, so the tracker's unrealized P&L is never out of date.      *)
(* realized_pnl_today is what the tracker reports under that name, the     *)
(* realized P&L since the start.                                           *)
(*                                                                         *)
(* The backtest's journal provider knows no profits and nothing is ever    *)
(* canceled, so rules 6 and 7 never deny.  on_tick latches a flatten that  *)
(* no task of a backtest carries out, so the latch is left to LiveLoop.tla. *)
(***************************************************************************)
EXTENDS RiskGate, OrbStrategy

CONSTANTS
    Prices,     \* the prices of a bar, in ticks
    MaxDays     \* bound: Topstep days in the series

ASSUME BacktestAssumption == Prices \subseteq Int /\ MaxDays \in Nat

VARIABLES
    policy,      \* the DrawdownPolicy the bot was built with
    pc,          \* "mark" or "decide": where in the bar the engine is
    day,         \* number of Topstep days seen
    close,       \* close of the current bar, the tracker's mark
    book,        \* tracker: position, cost, realized P&L
    highWater,   \* tracker: _high_water
    strategy,    \* the strategy's own state
    orphaned     \* history: a trade was forgotten or its exit was denied

vars == <<policy, pc, day, close, book, highWater, strategy, orphaned>>

BacktestDays == [clock : {"open", "preempt", "closed"}, news : BOOLEAN,
                 inconsistent : {FALSE}, hft : {FALSE}]

Book == [pos : Int, cost : Int, realized : Int]

EquityOf(b, mark) == Start + b.realized + (mark * b.pos - b.cost) * TickValue
Equity == EquityOf(book, close)

HighWaterNotRatcheted(b, mark) == Larger(Start, EquityOf(b, mark))

\* _recompute_unrealized
HighWater(b, mark) == Larger(highWater, EquityOf(b, mark))

Snapshot ==
    [equity |-> Equity, realized |-> book.realized, pos |-> book.pos,
     hw |-> highWater, locked |-> FALSE]

\* The AccountState that the bar's mark and on_tick hand to the strategy and
\* the gate.  The bar has one intent at most, so nothing has changed when it
\* is read.
state == UpdateOnTick(policy, Snapshot)

Sign(n) == IF n > 0 THEN 1 ELSE -1

\* A flip that forgets to restart the average entry.
RecordFillKeepingEntry(b, q, p) ==
    LET new    == b.pos + q
        closed == b.realized + (p * b.pos - b.cost) * TickValue
    IN CASE b.pos = 0       -> [b EXCEPT !.pos = q, !.cost = p * q]
         [] b.pos # 0 /\ new = 0
                            -> [pos |-> 0, cost |-> 0, realized |-> closed]
         [] b.pos * new < 0 -> [pos |-> new, cost |-> -b.cost, realized |-> closed]
         [] OTHER           -> [b EXCEPT !.pos = new,
                                         !.cost = @ + Sign(b.pos) * p * Abs(q)]

(***************************************************************************)
(* AccountStateTracker.record_fill of q contracts at price p.  The last    *)
(* case also takes a fill that reduces the position without closing it,    *)
(* and averages the entry as if it had added to it.                        *)
(***************************************************************************)
RecordFill(b, q, p) ==
    LET new    == b.pos + q
        closed == b.realized + (p * b.pos - b.cost) * TickValue
    IN CASE b.pos = 0       -> [b EXCEPT !.pos = q, !.cost = p * q]
         [] b.pos # 0 /\ new = 0
                            -> [pos |-> 0, cost |-> 0, realized |-> closed]
         [] b.pos * new < 0 -> [pos |-> new, cost |-> p * new, realized |-> closed]
         [] OTHER           -> [b EXCEPT !.pos = new,
                                         !.cost = @ + Sign(b.pos) * p * Abs(q)]

Init ==
    /\ policy \in Policies
    /\ pc = "mark"
    /\ day = 0
    /\ close \in Prices
    /\ book = [pos |-> 0, cost |-> 0, realized |-> 0]
    /\ highWater = Start
    /\ strategy = FreshStrategy
    /\ orphaned = FALSE

(***************************************************************************)
(* The next bar: mark to market, snapshot, on_tick (which may latch a      *)
(* flatten).  The first bar of a Topstep day resets the strategy.          *)
(***************************************************************************)
Mark(newDay, price) ==
    /\ pc = "mark"
    /\ IF newDay THEN day < MaxDays ELSE day > 0
    /\ day' = IF newDay THEN day + 1 ELSE day
    /\ close' = price
    /\ highWater' = HighWater(book, price)
    /\ strategy' = IF newDay THEN ResetDay(strategy) ELSE strategy
    /\ orphaned' = (orphaned \/ (newDay /\ strategy.side # 0 /\ book.pos # 0))
    /\ pc' = "decide"
    /\ UNCHANGED <<policy, book>>

(***************************************************************************)
(* The gate decides about the bar's intent; an approved one is filled at   *)
(* the close.                                                              *)
(***************************************************************************)
Decide(i, d) ==
    IF Approves(policy, i, state, d)
    THEN /\ book' = RecordFill(book, Approved(policy, i, state).qty, close)
         /\ highWater' = IF book.pos = 0 THEN highWater
                         ELSE HighWater(book', close)
    ELSE UNCHANGED <<book, highWater>>

TierQty == TierFor(state.equity - Start)

\* The low and the high a bar with this close can have.
Wicks == {w \in Prices \X Prices : w[1] <= close /\ close <= w[2]}

\* The bar hits the stop or the target of the strategy's trade.
Exit(d) ==
    /\ pc = "decide"
    /\ strategy.side # 0
    /\ \E w \in Wicks : HitsExit(strategy, w[1], w[2])
    /\ LET exit == ExitIntent(strategy, TierQty) IN
       /\ Decide(exit, d)
       /\ orphaned' = (orphaned \/
                       (book.pos # 0 /\ ~Approves(policy, exit, state, d)))
    /\ strategy' = AfterExit(strategy)
    /\ pc' = "mark"
    /\ UNCHANGED <<policy, day, close>>

\* The bar breaks out of the range.
Enter(side, stop, d) ==
    /\ pc = "decide"
    /\ MayEnter(strategy)
    /\ Decide(EntryIntent(side, stop, TierQty), d)
    /\ strategy' = AfterEntry(strategy, side, stop, close, TierQty)
    /\ pc' = "mark"
    /\ UNCHANGED <<policy, day, close, orphaned>>

\* A bar of the opening range.
BuildRange ==
    /\ pc = "decide"
    /\ BuildingRange(strategy)
    /\ strategy' = [strategy EXCEPT !.built = @ + 1]
    /\ pc' = "mark"
    /\ UNCHANGED <<policy, day, close, book, highWater, orphaned>>

\* A bar without an intent: the trade's exits are not hit, or the strategy
\* has no trade and sees no breakout, has no ATR yet or is out of session.
NoIntent ==
    /\ pc = "decide"
    /\ strategy.side # 0 => \E w \in Wicks : ~HitsExit(strategy, w[1], w[2])
    /\ pc' = "mark"
    /\ UNCHANGED <<policy, day, close, book, highWater, strategy, orphaned>>

Next ==
    \/ \E newDay \in BOOLEAN, price \in Prices : Mark(newDay, price)
    \/ \E d \in BacktestDays : Exit(d)
    \/ \E side \in {-1, 1}, stop \in Stops, d \in BacktestDays : Enter(side, stop, d)
    \/ BuildRange
    \/ NoIntent

Spec == Init /\ [][Next]_vars

-----------------------------------------------------------------------------

TypeOK ==
    /\ policy \in Policies
    /\ pc \in {"mark", "decide"}
    /\ day \in 0..MaxDays
    /\ close \in Prices
    /\ book \in Book
    /\ highWater \in Int
    /\ strategy \in StrategyState
    /\ orphaned \in BOOLEAN

(***************************************************************************)
(* The account as one persistent trailing-drawdown machine.  The code has  *)
(* none: is_locked is FALSE in every new snapshot, and the EFA policies    *)
(* never move high_water_equity themselves.                                *)
(***************************************************************************)
Trailing == INSTANCE TrailingDrawdown
    WITH equity <- Equity, high <- highWater,
         locked <- highWater >= Start + Mll

TrailingSpec == Trailing!Spec

(***************************************************************************)
(* The floor of a Combine account, as the gate computes it from a          *)
(* snapshot, is that of the persistent machine: rebuilding the state on    *)
(* each bar loses nothing (tracker.snapshot, on_tick, phantom_mll).  The   *)
(* floor of an EFA account is not to trail within a day at all: see        *)
(* EfaFloorMovesAtDayEndOnly.                                              *)
(***************************************************************************)
FloorAgrees ==
    pc = "decide" /\ policy = "combine" => PhantomMll(policy, state) = Trailing!Floor

(***************************************************************************)
(* The floor the gate would compute never falls, whatever the marks, fills *)
(* and losses, on a new day and as it locks (spec 04 lines 264-274), though *)
(* each bar derives it from a snapshot that knows of no lock.              *)
(***************************************************************************)
FloorNeverFalls ==
    [][PhantomMll(policy, state)' >= PhantomMll(policy, state)]_vars

(***************************************************************************)
(* A fill moves no equity, since it is at the mark: what record_fill adds  *)
(* to the realized P&L it takes from the unrealized one, through opens,    *)
(* additions, closes and flips alike.  The fill that reduces a position    *)
(* without closing it is excepted: record_fill takes it for an addition.   *)
(***************************************************************************)
ReducesOnly == Sign(book.pos) = Sign(book'.pos) /\ Abs(book'.pos) < Abs(book.pos)
                  /\ book'.pos # 0
FillsMoveNoEquity == [][close' = close /\ ~ReducesOnly => Equity' = Equity]_vars

(***************************************************************************)
(* Once equity is at or below the floor no intent makes the position       *)
(* larger, be it an entry or an exit of a trade the account does not have. *)
(***************************************************************************)
TouchedOnlyReduces ==
    [][pc = "decide" /\ state.equity <= PhantomMll(policy, state)
         => Abs(book'.pos) <= Abs(book.pos)]_vars

(***************************************************************************)
(* The stop sent with an approved entry still loses less than what is left *)
(* above the floor, by the safety buffer at least (spec 04 section 3.6).   *)
(***************************************************************************)
StopsStayAboveFloor ==
    pc = "decide" =>
        \A side \in {-1, 1}, stop \in Stops, d \in BacktestDays :
            LET i == EntryIntent(side, stop, TierQty) IN
            Approves(policy, i, state, d) =>
                /\ Approved(policy, i, state).stop > 0
                /\ Equity - WorstCaseLoss(Approved(policy, i, state))
                      - BufferTicks * TickValue * Abs(i.qty)
                    >= PhantomMll(policy, state)

(***************************************************************************)
(* Until a trade is forgotten or the exit of one is denied, the account    *)
(* holds what the strategy believes it holds, or nothing because the entry *)
(* was denied: an exit closes the trade, and never flips or reduces it,    *)
(* whatever tier the profit has reached meanwhile.                         *)
(***************************************************************************)
BeliefMatchesAccount ==
    ~orphaned => book.pos \in {0, strategy.side * strategy.openQty}

(***************************************************************************)
(* Until then the gate denies the exit of a trade the account holds for    *)
(* one reason only: equity is below the floor.  Rule 2 cannot be the one,  *)
(* for the entry was approved with the same realized P&L.                  *)
(***************************************************************************)
OwnExitIsApproved ==
    /\ pc = "decide" /\ ~orphaned
    /\ strategy.side # 0 /\ book.pos # 0
    /\ state.equity >= PhantomMll(policy, state)
    => \A d \in BacktestDays :
          Approves(policy, ExitIntent(strategy, TierQty), state, d)

(***************************************************************************)
(* "A reducing-exposure intent is never denied by rules 2 or 3" (spec 04   *)
(* section 5.1, property 4).                                               *)
(***************************************************************************)
ClosesPassTheMoneyRules ==
    pc = "decide" /\ book.pos # 0 =>
        LET i == [qty |-> -book.pos, stop |-> NoBracket] IN
        ~DllBreached(i, state) /\ ~MllBreached(policy, i, state)

(***************************************************************************)
(* "Floor ratchets EoD only (NOT intraday)" (risk/efa_drawdown.py:4): the  *)
(* floor of an EFA account stays where it is within a Topstep day.  The    *)
(* tracker raises the high water at every mark, whatever the policy, and   *)
(* the floor follows it (tracker.mark_to_market, phantom_mll).             *)
(***************************************************************************)
EfaFloorMovesAtDayEndOnly ==
    [][policy = "efa" /\ day' = day
         => PhantomMll(policy, state)' = PhantomMll(policy, state)]_vars

(***************************************************************************)
(* "Our own open trade ... None when flat" (strategy/orb.py): a strategy   *)
(* without a trade stands on a flat account.                               *)
(***************************************************************************)
NoTradeMeansFlat == strategy.side = 0 => book.pos = 0
=============================================================================
