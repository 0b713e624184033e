---------------------------- MODULE TopstepxSim ----------------------------
(***************************************************************************)
(* The simulated Topstep account (execution/topstepx_sim): SimAccount and  *)
(* its transitions (account.py), the engine that fills orders and          *)
(* liquidates at the floor (engine.py), and the scenario runner that       *)
(* drives it bar by bar (scenarios.py run_scenario).                       *)
(*                                                                         *)
(* A position is kept with its cost, the signed quantity times the average *)
(* entry, so that an average needs no fraction.  An order takes the last   *)
(* mark of its symbol as the mid price, which is how _make_client wires    *)
(* it, or the close of the first bar when there is none yet.               *)
(***************************************************************************)
EXTENDS DrawdownPolicy, FiniteSets, Functions

CONSTANTS
    SimSymbols,     \* the symbols
    PointValue,     \* dollars per point of each
    Closes,         \* closes of bars, none of which is NoMark
    Slippage,       \* slippage_ticks in points
    SimSizes,       \* signed quantities of orders
    MaxSteps        \* bound: bars and orders of a scenario

ASSUME SimAssumption ==
    /\ IsFiniteSet(SimSymbols) /\ PointValue \in [SimSymbols -> Nat]
    /\ Closes \subseteq Nat \ {0} /\ Slippage \in Nat
    /\ SimSizes \subseteq Int \ {0} /\ MaxSteps \in Nat
    /\ Mll > 0      \* 2,000 in _make_client

VARIABLES
    sim,        \* the SimAccount: stage, realized, high, and for each symbol
                \* qty (0 for no position), cost and mark
    runner,     \* run_scenario: "running", "ended", "returned", "raised"
    terminal,   \* terminal_stage, "none" for None
    late,       \* the clock of the engine is past hard_flat_time_ct
    steps,
    cash,       \* history: what the fills paid and received, in dollars
    peak,       \* history: the most the account was ever worth
    reduced,    \* history: some fill reduced a position without closing it
    marked      \* history: the last step was a bar, with its tick

simVars == <<sim, runner, terminal, late, steps, cash, peak, reduced, marked>>

NoMark == 0
Stages == {"combine_active", "combine_passed", "combine_failed", "efa_active",
           "efa_payout", "efa_failed", "funded"}

\* _LEGAL_TRANSITIONS
Legal == {<<"combine_active", "combine_passed">>, <<"combine_active", "combine_failed">>,
          <<"combine_passed", "efa_active">>, <<"efa_active", "efa_payout">>,
          <<"efa_active", "efa_failed">>, <<"efa_payout", "funded">>,
          <<"efa_payout", "efa_active">>}

\* _compute_unrealized: a position without a mark counts for nothing.
Unrealized(a) ==
    LET gain == [s \in SimSymbols |->
                    IF a.mark[s] = NoMark THEN 0
                    ELSE (a.mark[s] * a.qty[s] - a.cost[s]) * PointValue[s]]
    IN SumFunctionOnSet(gain, SimSymbols)

Equity(a) == Start + a.realized + Unrealized(a)

Ratcheted(a) == [a EXCEPT !.high = Larger(a.high, Equity(a))]

Flips(qty, signed) == qty * (qty + signed) < 0
ClosesOut(qty, signed) == qty # 0 /\ qty + signed = 0

\* Same sign and smaller, which the code takes for impossible: the average
\* stays and nothing is realized.
Reduces(qty, signed) ==
    qty # 0 /\ qty * (qty + signed) > 0 /\ Abs(qty + signed) <= Abs(qty)

ReducedCost(qty, cost, signed) == (cost * (qty + signed)) \div qty

ApplyFillClosingAll(a, s, signed, price) ==
    LET qty == a.qty[s] left == qty + signed IN
    Ratcheted([a EXCEPT
        !.qty[s] = left,
        !.cost[s] = IF Flips(qty, signed) THEN price * left
                    ELSE IF ClosesOut(qty, signed) THEN 0
                    ELSE IF Reduces(qty, signed) THEN ReducedCost(qty, @, signed)
                    ELSE @ + price * signed,
        !.realized = IF Flips(qty, signed) \/ ClosesOut(qty, signed)
                     THEN @ - (price * signed + a.cost[s]) * PointValue[s] ELSE @])

\* apply_fill: a fill that closes or flips realizes what was open, one that
\* opens or adds averages.
ApplyFill(a, s, signed, price) ==
    LET qty == a.qty[s] left == qty + signed IN
    Ratcheted([a EXCEPT
        !.qty[s] = left,
        !.cost[s] = IF Flips(qty, signed) THEN price * left
                    ELSE IF ClosesOut(qty, signed) THEN 0
                    ELSE IF Reduces(qty, signed) THEN ReducedCost(qty, @, signed)
                    ELSE @ + price * signed,
        !.realized = IF Flips(qty, signed) \/ ClosesOut(qty, signed)
                     THEN @ + (price * qty - a.cost[s]) * PointValue[s] ELSE @])

MarkToMarket(a, s, price) == Ratcheted([a EXCEPT !.mark[s] = price])

\* _active_policy
ActivePolicy(a) ==
    IF a.stage \in {"efa_active", "efa_payout", "funded"} THEN "efa" ELSE "combine"

\* _as_state: is_locked is not kept, update_on_tick finds it again.
AsState(a) == [equity |-> Equity(a), realized |-> a.realized, pos |-> 0,
               hw |-> a.high, locked |-> FALSE]

Touched(a) ==
    LET p == ActivePolicy(a) IN
    Equity(a) <= PhantomMll(p, UpdateOnTick(p, AsState(a)))

\* _mark_failed: the stages that can fail; the others go on.
MarkFailed(a) ==
    CASE a.stage = "combine_active" -> [a EXCEPT !.stage = "combine_failed"]
      [] a.stage = "efa_active" -> [a EXCEPT !.stage = "efa_failed"]
      [] OTHER -> a

Failed(a) == a.stage \in {"combine_failed", "efa_failed"}

\* _flatten_at, without slippage
FlattenAt(a, s, price) ==
    IF a.qty[s] = 0 THEN a
    ELSE MarkToMarket(ApplyFill(a, s, -a.qty[s], price), s, price)

TickBeforeTheMark(a, s, price) ==
    IF Touched(a) THEN MarkFailed(FlattenAt(MarkToMarket(a, s, price), s, price))
    ELSE MarkToMarket(a, s, price)

Tick(a, s, price) ==
    LET m == MarkToMarket(a, s, price)
    IN IF Touched(m) THEN MarkFailed(FlattenAt(m, s, price)) ELSE m

\* eod: flatten past the hard flat, whatever the policy, and ratchet.
Eod(a, s, price, isLate) ==
    Ratcheted(IF isLate THEN FlattenAt(a, s, price) ELSE a)

\* What the fills say the account is worth.
Worth(a, c) ==
    LET value == [s \in SimSymbols |-> a.qty[s] * a.mark[s] * PointValue[s]]
    IN Start + c + SumFunctionOnSet(value, SimSymbols)

\* The scenarios that end with a promotion, by the stage they begin in.
TerminalOf(stage) == IF stage = "efa_active" THEN "efa_payout" ELSE "combine_passed"

SimInit ==
    /\ \E stage \in {"combine_active", "efa_active"} :
          /\ sim = [stage |-> stage, realized |-> 0, high |-> Start,
                    qty |-> [s \in SimSymbols |-> 0], cost |-> [s \in SimSymbols |-> 0],
                    mark |-> [s \in SimSymbols |-> NoMark]]
          /\ terminal \in {"none", TerminalOf(stage)}
    /\ runner = "running" /\ late = FALSE /\ steps = 0
    /\ cash = 0 /\ peak = Start /\ reduced = FALSE /\ marked = TRUE

\* The fills that turned a into b: what they paid for symbol s at this price.
Settle(b, s, price) ==
    /\ sim' = b
    /\ cash' = cash - (b.qty[s] - sim.qty[s]) * price * PointValue[s]

\* A bar of run_scenario: the clock, the tick, and the break when it failed.
SimBar(s, price, isLate) ==
    /\ runner = "running" /\ steps < MaxSteps
    /\ late' = isLate
    /\ LET m == MarkToMarket(sim, s, price)
       IN /\ Settle(Tick(sim, s, price), s, price)
          /\ peak' = Larger(peak, Worth(m, cash))
    /\ runner' = IF Failed(sim') THEN "ended" ELSE "running"
    /\ steps' = steps + 1 /\ marked' = TRUE
    /\ UNCHANGED <<terminal, reduced>>

\* mid_source of _make_client
Mid(s) == IF sim.mark[s] = NoMark THEN Closes ELSE {sim.mark[s]}

IncreasesSigned(qty, signed) == qty + signed > qty

\* _is_open_increasing
Increases(qty, signed) == Abs(qty + signed) > Abs(qty)

\* submit_order: the hard-flat clock, the cap, the fill and the mark.
SimOrder(s, signed) ==
    /\ runner = "running" /\ steps < MaxSteps
    /\ \E mid \in Mid(s) :
          LET fill == IF signed > 0 THEN mid + Slippage ELSE mid - Slippage
              filled == MarkToMarket(ApplyFill(sim, s, signed, fill), s, mid)
              allowed ==
                  /\ ~(late /\ Increases(sim.qty[s], signed))
                  /\ Abs(sim.qty[s] + signed)
                        <= MaxPosition(ActivePolicy(sim), AsState(sim))
          IN /\ allowed
             /\ Settle(filled, s, fill)
             /\ peak' = Larger(peak, Worth(filled, cash'))
             /\ reduced' = (reduced \/ Reduces(sim.qty[s], signed))
    /\ steps' = steps + 1 /\ marked' = FALSE
    /\ UNCHANGED <<runner, terminal, late>>

\* No scenario calls eod; the tests of the engine do.
SimEod(s, price) ==
    /\ runner = "running" /\ steps < MaxSteps
    /\ LET b == Eod(sim, s, price, late)
       IN Settle(b, s, price) /\ peak' = Larger(peak, Worth(b, cash'))
    /\ steps' = steps + 1 /\ marked' = FALSE
    /\ UNCHANGED <<runner, terminal, late, reduced>>

BarsEnd ==
    /\ runner = "running" /\ runner' = "ended"
    /\ UNCHANGED <<sim, terminal, late, steps, cash, peak, reduced, marked>>

\* The terminal_stage of the scenario, where advance_stage may raise.
Promote ==
    /\ runner = "ended"
    /\ IF terminal = "none" \/ terminal = sim.stage
       THEN runner' = "returned" /\ UNCHANGED sim
       ELSE IF <<sim.stage, terminal>> \in Legal
       THEN runner' = "returned" /\ sim' = [sim EXCEPT !.stage = terminal]
       ELSE runner' = "raised" /\ UNCHANGED sim
    /\ UNCHANGED <<terminal, late, steps, cash, peak, reduced, marked>>

SimNext ==
    \/ \E s \in SimSymbols, price \in Closes :
          \/ \E isLate \in BOOLEAN : SimBar(s, price, isLate)
          \/ SimEod(s, price)
    \/ \E s \in SimSymbols, signed \in SimSizes : SimOrder(s, signed)
    \/ BarsEnd \/ Promote

SimSpec == SimInit /\ [][SimNext]_simVars
-----------------------------------------------------------------------------
SimTypeOK ==
    /\ sim \in [stage : Stages, realized : Int, high : Int,
                qty : [SimSymbols -> Int], cost : [SimSymbols -> Int],
                mark : [SimSymbols -> Nat]]
    /\ runner \in {"running", "ended", "returned", "raised"}
    /\ terminal \in {"none", "combine_passed", "efa_payout"}
    /\ late \in BOOLEAN /\ steps \in 0..MaxSteps
    /\ cash \in Int /\ peak \in Int /\ reduced \in BOOLEAN /\ marked \in BOOLEAN

(***************************************************************************)
(* Balance and unrealized P&L, kept apart over opens, adds, closes, flips  *)
(* and liquidations (account.py 93-183), add up to what the fills paid and *)
(* received and what is still open is worth, as long as no fill has only   *)
(* reduced a position.                                                     *)
(***************************************************************************)
EquityIsWhatTheFillsSay == ~reduced => Equity(sim) = Worth(sim, cash)

(***************************************************************************)
(* The sim/live parity guarantee (engine.py 4-6): an account whose stage   *)
(* is still active after a bar is worth more than the floor of the most it *)
(* was ever worth.  The floor is worked out anew at each tick from the     *)
(* high water alone, which fills, marks and the liquidation itself move.   *)
(***************************************************************************)
SurvivorsAreAboveTheFloor ==
    marked /\ ~reduced /\ sim.stage \in {"combine_active", "efa_active"} =>
        LET p == ActivePolicy(sim)
            s == [AsState(sim) EXCEPT !.hw = peak]
        IN Worth(sim, cash) > PhantomMll(p, UpdateOnTick(p, s))

(***************************************************************************)
(* Past the hard-flat time no order makes a position larger, and no bar or *)
(* end of day does (engine.py 91-93, 188-191).                             *)
(***************************************************************************)
LateStepsOnlyReduce ==
    [][late /\ late' => \A s \in SimSymbols : Abs(sim'.qty[s]) <= Abs(sim.qty[s])]_simVars
=============================================================================
