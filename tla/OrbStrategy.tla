---------------------------- MODULE OrbStrategy ----------------------------
(***************************************************************************)
(* The strategy most bots run: OpeningRangeBreakoutStrategy                *)
(* (strategy/orb.py) inside TieredSizingDecorator                          *)
(* (strategy/tiered_sizing.py).  Its state is a record                     *)
(*   side, entry, stop : its own open trade (side 0 when it has none)      *)
(*   trades, built     : trades and range bars of the Topstep day          *)
(*   openQty           : the decorator's size of the open leg, 0 for none  *)
(* The strategy sets this state when it EMITS an intent and is never told  *)
(* whether the gate approved it.                                           *)
(*                                                                         *)
(* Prices are in ticks.  The values of the range and of the ATR are left   *)
(* out: after the range is built a bar may break out either way, or not.   *)
(***************************************************************************)
EXTENDS Integers, Sequences, FiniteSets

CONSTANTS
    Tiers,        \* tier_breakpoints: <<profit, quantity>> in order of profit
    Stops,        \* the stop distances the ATR can give, in ticks
    TpMultiple,   \* tp_r_multiple
    RangeBars,    \* range_minutes
    MaxTrades     \* max_trades_per_day

ASSUME StrategyAssumption ==
    /\ Tiers \in Seq(Int \X (Nat \ {0})) /\ Tiers # <<>>
    /\ \A k \in 2..Len(Tiers) : Tiers[k - 1][1] <= Tiers[k][1]
    /\ Stops \subseteq Nat \ {0}
    /\ TpMultiple \in Nat /\ RangeBars \in Nat /\ MaxTrades \in Nat

Sides == {-1, 0, 1}

StrategyState == [side : Sides, entry : Int, stop : Nat, trades : 0..MaxTrades,
                  built : 0..RangeBars, openQty : Nat]

FreshStrategy == [side |-> 0, entry |-> 0, stop |-> 0, trades |-> 0,
                  built |-> 0, openQty |-> 0]

\* _tier_for: the quantity of the last breakpoint the profit has reached, of
\* the first one when it has reached none.
TierFor(profit) ==
    LET reached == {k \in 1..Len(Tiers) : profit >= Tiers[k][1]}
    IN Tiers[IF reached = {} THEN 1 ELSE Cardinality(reached)][2]

\* _reset_day: forgets the trade, whatever became of its position.  The
\* decorator's openQty is another object's and stays.
ResetDay(st) == [FreshStrategy EXCEPT !.openQty = st.openQty]

\* The bar touches the trade's stop or its target.
HitsExit(st, low, high) ==
    IF st.side = 1
    THEN high >= st.entry + st.stop * TpMultiple \/ low <= st.entry - st.stop
    ELSE low <= st.entry - st.stop * TpMultiple \/ high >= st.entry + st.stop

BuildingRangeOneMore(st) == st.side = 0 /\ st.built <= RangeBars

BuildingRange(st) == st.side = 0 /\ st.built < RangeBars
MayEnter(st) == st.side = 0 /\ st.built >= RangeBars /\ st.trades < MaxTrades

CloseQtyOfTier(st, tierQty) == tierQty

\* _resize of a non-BRACKET intent: the remembered quantity, else the tier's.
CloseQty(st, tierQty) == IF st.openQty # 0 THEN st.openQty ELSE tierQty

\* _maybe_emit_exit: a MARKET intent without a bracket.
ExitIntent(st, tierQty) == [qty |-> -st.side * CloseQty(st, tierQty), stop |-> 0]
AfterExit(st) == [FreshStrategy EXCEPT !.trades = st.trades, !.built = st.built]

\* _open_intent: a BRACKET intent of the current tier.
EntryIntent(side, stop, tierQty) == [qty |-> side * tierQty, stop |-> stop]
AfterEntry(st, side, stop, close, tierQty) ==
    [side |-> side, entry |-> close, stop |-> stop, trades |-> st.trades + 1,
     built |-> st.built, openQty |-> tierQty]
=============================================================================
