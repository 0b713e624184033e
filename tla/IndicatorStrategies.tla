------------------------ MODULE IndicatorStrategies ------------------------
(***************************************************************************)
(* MeanReversionStrategy (strategy/mean_reversion.py) and                  *)
(* TrendFollowingStrategy (strategy/trend_following.py), with what becomes *)
(* of their intents.  Both go by their own belief: they set the position   *)
(* when they emit an entry, clear it when they emit an exit, and are told  *)
(* of no fill.                                                             *)
(*                                                                         *)
(* An entry is a BRACKET intent and an exit a MARKET intent.  In the       *)
(* backtest and the simulated client the bracket has no effect; the        *)
(* TopstepX adapter sends it, and its stop and target rest at the exchange *)
(* until one of them fills or the position is closed                       *)
(* (topstepx_client.py 239-290).                                           *)
(*                                                                         *)
(* The indicators are left out but for what they decide: a bar may give an *)
(* entry signal, touch the stop, touch the target or the middle band, or   *)
(* turn the trend.  A Topstep day goes from 17:00 CT over the night; of    *)
(* the time of a bar its part of that day is kept: the evening, the        *)
(* morning up to session_end_ct, and the afternoon.                        *)
(***************************************************************************)
EXTENDS Integers, FiniteSets

CONSTANTS
    Strategies,     \* the strategies: "mean_reversion", "trend"
    BandBars,       \* bars until the bands, or the averages, are there
    EntryBars,      \* bars until the RSI, or the ATR, is there as well
    TradesPerDay,   \* max_trades_per_day
    Days            \* bound: Topstep days

ASSUME StrategiesAssumption ==
    /\ Strategies \subseteq {"mean_reversion", "trend"}
    /\ BandBars \in Nat /\ EntryBars \in Nat /\ BandBars <= EntryBars
    /\ TradesPerDay \in Nat /\ Days \in Nat \ {0}

VARIABLES
    kind, live,     \* the strategy; whether the exchange acts on brackets
    clock,          \* Topstep day and part of the day of the last bar
    belief,         \* the strategy: side of _position, trades, day, bars
    account,        \* signed position at the broker, in units of quantity
    brackets,       \* brackets that rest there: the side of each, and its day
    entries,        \* history: entries emitted in each Topstep day
    denied          \* history: the gate denied an intent

strategyVars == <<kind, live, clock, belief, account, brackets, entries, denied>>

Part == 0..2    \* evening, morning, afternoon
Evening == 0
Morning == 1

Fresh == [side |-> 0, trades |-> 0, day |-> 0, bars |-> 0]

StrategiesInit ==
    /\ kind \in Strategies /\ live \in BOOLEAN
    /\ clock = [day |-> 1, part |-> Evening]
    /\ belief = Fresh /\ account = 0 /\ brackets = {}
    /\ entries = [d \in 1..Days |-> 0] /\ denied = FALSE

\* _topstep_day_key differs: a new day, and the trades of the last one are
\* forgotten; the position is not.
RollDay(b, day) == IF b.day = day THEN b ELSE [b EXCEPT !.day = day, !.trades = 0]

\* Wall-clock time at or after session_end_ct: the evening is past it too.
IsAfterCutoff(part) == part # Morning

\* _bollinger, _wilder_rsi, _update_indicators: one more bar.
Update(b) == [b EXCEPT !.bars = IF @ < EntryBars THEN @ + 1 ELSE @]

\* What the bar can show: flat bars have no bands, warm or not.
Sees(b, seen) ==
    /\ b.bars < EntryBars => seen.signal = 0
    /\ kind = "mean_reversion" =>
          /\ b.bars < BandBars => ~seen.bands
          /\ ~seen.bands => seen.signal = 0
          /\ ~seen.turn
    /\ kind = "trend" => seen.bands

\* _maybe_emit_exit: the stop, or the middle band while there is one.
\* _maybe_exit: the cutoff, the target or the stop, or the turn of the trend.
Leaves(part, seen) ==
    IF kind = "mean_reversion" THEN seen.stop \/ (seen.bands /\ seen.target)
    ELSE IsAfterCutoff(part) \/ seen.stop \/ seen.target \/ seen.turn

EntersAnyTime(b, part, seen) == seen.signal # 0 /\ b.trades < TradesPerDay

Enters(b, part, seen) ==
    /\ seen.signal # 0
    /\ b.trades < TradesPerDay
    /\ kind = "trend" => ~IsAfterCutoff(part)

\* _open_intent
Opened(b, side) == [b EXCEPT !.side = side, !.trades = @ + 1]
\* _emit_close, _close_intent
Closed(b) == [b EXCEPT !.side = 0]

\* The gate lets the intent through, or the loop drops it.  Brackets are
\* attached to the position: they go when an order of the bot closes it.
Granted(granted, signed, resting) ==
    /\ account' = IF granted THEN account + signed ELSE account
    /\ brackets' = IF account' = 0 THEN {}
                   ELSE IF granted /\ live THEN brackets \cup resting ELSE brackets
    /\ denied' = (denied \/ ~granted)

Exit(b, granted) ==
    /\ belief' = Closed(b)
    /\ Granted(granted, -b.side, {})
    /\ UNCHANGED entries

Entry(b, side, granted) ==
    /\ belief' = Opened(b, side)
    /\ entries' = [entries EXCEPT ![b.day] = @ + 1]
    /\ Granted(granted, side, {[side |-> side, day |-> b.day, trade |-> b.trades]})

Nothing(b) == belief' = b /\ UNCHANGED <<account, brackets, entries, denied>>

OnBarBothWays(b, part, seen, granted) ==
    \/ b.side # 0 /\ Leaves(part, seen) /\ Exit(b, granted)
    \/ Enters(b, part, seen) /\ Entry(b, seen.signal, granted)
    \/ ~(b.side # 0 /\ Leaves(part, seen)) /\ ~Enters(b, part, seen) /\ Nothing(b)

\* on_bar: an open trade leaves or stays; only without one is there an entry.
OnBar(b, part, seen, granted) ==
    \/ b.side # 0 /\ Leaves(part, seen) /\ Exit(b, granted)
    \/ b.side = 0 /\ Enters(b, part, seen) /\ Entry(b, seen.signal, granted)
    \/ /\ IF b.side # 0 THEN ~Leaves(part, seen) ELSE ~Enters(b, part, seen)
       /\ Nothing(b)

Later(day, part) == day * 3 + part >= clock.day * 3 + clock.part

NextBar(day, part, seen, granted) ==
    /\ Later(day, part)
    /\ LET b == Update(RollDay(belief, day))
       IN Sees(b, seen) /\ OnBar(b, part, seen, granted)
    /\ clock' = [day |-> day, part |-> part]
    /\ UNCHANGED <<kind, live>>

\* The stop or the target of a bracket fills; the exchange cancels the other.
BracketFills(r) ==
    /\ r \in brackets
    /\ brackets' = brackets \ {r}
    /\ account' = account - r.side
    /\ UNCHANGED <<kind, live, clock, belief, entries, denied>>

Seen == [signal : {-1, 0, 1}, bands : BOOLEAN, stop : BOOLEAN, target : BOOLEAN,
         turn : BOOLEAN]

StrategiesNext ==
    \/ \E day \in 1..Days, part \in Part, seen \in Seen, granted \in BOOLEAN :
          NextBar(day, part, seen, granted)
    \/ \E r \in brackets : BracketFills(r)

StrategiesSpec == StrategiesInit /\ [][StrategiesNext]_strategyVars
-----------------------------------------------------------------------------
StrategiesTypeOK ==
    /\ kind \in Strategies /\ live \in BOOLEAN
    /\ clock \in [day : 1..Days, part : Part]
    /\ belief \in [side : {-1, 0, 1}, trades : 0..TradesPerDay, day : 0..Days,
                   bars : 0..EntryBars]
    /\ account \in Int
    /\ brackets \subseteq [side : {-1, 1}, day : 1..Days, trade : Nat]
    /\ entries \in [1..Days -> Nat] /\ denied \in BOOLEAN

(***************************************************************************)
(* Where brackets have no effect and the gate denies nothing, the account  *)
(* is what the strategy believes at every bar, over day changes and the    *)
(* warm-up: entries and exits take turns, each exit against its own entry  *)
(* (mean_reversion.py 150-184, trend_following.py 123-149).  And no        *)
(* Topstep day has more entries than max_trades_per_day, although a trade  *)
(* may outlast the day that it was counted in.                             *)
(***************************************************************************)
TurnsAreTaken ==
    /\ ~live /\ ~denied => account = belief.side
    /\ \A d \in 1..Days : entries[d] <= TradesPerDay

(***************************************************************************)
(* "Any open position at or after this wall-clock time generates a MARKET  *)
(* close intent" (trend_following.py 66-68): the trend strategy believes   *)
(* in no position after a bar past the cutoff, however long the bars were  *)
(* missing before it, and opens none until midnight.                       *)
(***************************************************************************)
FlatPastTheCutoff ==
    kind = "trend" /\ IsAfterCutoff(clock.part) => belief.side = 0

(***************************************************************************)
(* "the BRACKET attached below is informational for live brokers - sim     *)
(* engine + mid-band exit logic do the actual closing"                     *)
(* (mean_reversion.py 212-214): if the gate denies nothing, the strategy's *)
(* exits close what its entries opened, and never turn the account around. *)
(***************************************************************************)
BracketIsInformational ==
    kind = "mean_reversion" /\ ~denied => account \in {0, belief.side}
=============================================================================
