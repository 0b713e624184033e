------------------------------ MODULE RiskGate ------------------------------
(***************************************************************************)
(* The decision of TopstepRiskGate (risk/gate.py): seven rules in order,   *)
(* then the stop-offset safety buffer.  A decision is a function of the    *)
(* intent, the AccountState and the day: the clock in Chicago, the news    *)
(* window, the consistency of the profits so far and the cancel/fill ratio. *)
(*                                                                         *)
(* An intent is [qty, stop]: a signed quantity, and the stop distance of   *)
(* its bracket in ticks or NoBracket.  Strategies emit MARKET, LIMIT and   *)
(* BRACKET intents only, so rule 2's stop check applies to all of them.    *)
(***************************************************************************)
EXTENDS DrawdownPolicy

CONSTANTS
    TickValue,        \* dollars per tick and contract
    DailyLoss,        \* _DLL_AMOUNT
    BufferTicks,      \* safety_buffer_ticks
    NewsCap,          \* max_position_during_window
    HardConsistency   \* consistency_mode = "hard"

ASSUME GateAssumption ==
    /\ TickValue \in Nat \ {0} /\ DailyLoss \in Nat /\ BufferTicks \in Nat
    /\ NewsCap \in Nat /\ HardConsistency \in BOOLEAN

NoBracket == 0

Intent == [qty : Int \ {0}, stop : Nat]
Day == [clock : {"open", "preempt", "closed"}, news : BOOLEAN,
        inconsistent : BOOLEAN, hft : BOOLEAN]

Projected(i, s) == s.pos + i.qty

\* is_open_increasing_exposure
OpensMore(i, s) == Abs(Projected(i, s)) > Abs(s.pos)

\* _worst_case_loss: nothing without a bracket
WorstCaseLoss(i) == i.stop * TickValue * Abs(i.qty)

HardFlat(p, i, s, d) ==
    EnforcesHardFlat(p) /\ d.clock # "open" /\ OpensMore(i, s)

\* Rule 2a that asks closes for a stop too.
StopRequiredOfAll(i, s) == i.stop = NoBracket
StopNeverRequired(i, s) == FALSE

StopRequired(i, s) == i.stop = NoBracket /\ OpensMore(i, s)
DllBreached(i, s) == s.realized - WorstCaseLoss(i) <= -DailyLoss
MllBreached(p, i, s) == s.equity - WorstCaseLoss(i) < PhantomMll(p, s)
TooLarge(p, i, s) == Abs(Projected(i, s)) > MaxPosition(p, s)
NewsThrottled(i, s, d) ==
    d.news /\ OpensMore(i, s) /\ Abs(Projected(i, s)) > NewsCap
Inconsistent(p, d) == p = "combine" /\ d.inconsistent /\ HardConsistency
HighCancelRatio(d) == d.hft

RoomWithoutBuffer(p, i, s) ==
    (s.equity - PhantomMll(p, s)) \div (TickValue * Abs(i.qty))

\* Ticks between the equity and the floor that are left to a stop.  int()
\* rounds towards zero and \div down, but both are positive together.
Room(p, i, s) ==
    (s.equity - PhantomMll(p, s)) \div (TickValue * Abs(i.qty)) - BufferTicks

NoRoom(p, i, s) == i.stop # NoBracket /\ Room(p, i, s) <= 0

\* with_stop: the stop that goes to the broker
SafeStop(p, i, s) ==
    IF i.stop = NoBracket THEN NoBracket ELSE Smaller(i.stop, Room(p, i, s))

\* approve_or_deny of an enabled strategy.  The code stops at the first rule
\* that denies; which one it names is left out.
Approves(p, i, s, d) ==
    /\ ~HardFlat(p, i, s, d)
    /\ ~StopRequired(i, s)
    /\ ~DllBreached(i, s)
    /\ ~MllBreached(p, i, s)
    /\ ~TooLarge(p, i, s)
    /\ ~NewsThrottled(i, s, d)
    /\ ~Inconsistent(p, d)
    /\ ~HighCancelRatio(d)
    /\ ~NoRoom(p, i, s)

\* The intent as approved.
Approved(p, i, s) == [i EXCEPT !.stop = SafeStop(p, i, s)]
=============================================================================
