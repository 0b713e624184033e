------------------------------ MODULE LiveLoop ------------------------------
(***************************************************************************)
(* One bot of the fleet while it trades: LiveTradingLoop.run               *)
(* (runtime/live_loop.py), the force-flatten state of its TopstepRiskGate  *)
(* (risk/gate.py), the dashboard requests that call the same gate          *)
(* (dashboard/v2/api.py flatten_all), its broker adapter                   *)
(* (execution/topstepx_client.py or backtest/sim_client.py) and the        *)
(* exchange behind it.                                                     *)
(*                                                                         *)
(* Everything runs on one asyncio event loop, so the code between two      *)
(* awaits that suspend is one action, and anything else may run at an      *)
(* await.  The two journal writes that follow an order are one await, as   *)
(* the loop does nothing between them.                                     *)
(*                                                                         *)
(* The gate's money rules are in RiskGate.tla; here a decision is          *)
(* abstracted to what the loop's control depends on (see Approvable).      *)
(***************************************************************************)
EXTENDS Integers, FiniteSets, Sequences

CONSTANTS
    Dash,              \* concurrent dashboard requests that may flatten
    Loop,              \* the bar loop itself, also a caller of the flatten
    Qty,               \* signed quantities a strategy may ask for
    Cap,               \* the policy's max_position for the symbol
    MaxIntents,        \* most intents Strategy.on_bar returns for one bar
    MaxBars,           \* the max_bars argument of run, 0 for None
    MaxOrders,         \* bound of the model: orders sent in a session
    Live,              \* TRUE: TopstepXExecutionClient, FALSE: SimExecutionClient
    BrokerCanClose,    \* the client has the optional close_all_positions
    GateKnowsSymbol,   \* the gate's symbol is the one the suite was opened for
    AllocatorSuspends  \* the fleet allocator is wired and its lock may be taken

NONE == "none"
Callers == Dash \cup {Loop}

ASSUME LoopAssumption == Loop \notin Dash
ASSUME QtyAssumption == Qty \subseteq Int \ {0}
ASSUME BoundAssumption ==
    /\ Cap \in Nat /\ MaxIntents \in Nat /\ MaxBars \in Nat /\ MaxOrders \in Nat
ASSUME FlagAssumption ==
    /\ Live \in BOOLEAN /\ BrokerCanClose \in BOOLEAN
    /\ GateKnowsSymbol \in BOOLEAN /\ AllocatorSuspends \in BOOLEAN

VARIABLES
    pc,        \* the await the loop is suspended at
    todo,      \* intents of this bar that are still to be decided on
    spos,      \* position in the snapshot taken at the start of the bar
    touched,   \* equity was at or below the floor in that snapshot
    bars,      \* bars_seen
    tpos,      \* AccountTracker's position
    gate,      \* _flattening, _strategy_disabled, _pending_flatten_reason
    ff,        \* each caller's progress inside force_flatten_now
    known,     \* adapter: order ids of _broker_ids
    inflight,  \* the order whose place_order call has not returned
    working,   \* exchange: orders resting that the bot placed
    legs,      \* exchange: resting stop and target pairs of filled brackets
    bpos,      \* exchange: position
    stop,      \* stop_event
    sent,      \* orders handed to the broker so far (also the last order id)
    late,      \* history: orders the exchange accepted after the disable
    covered,   \* history: ids the adapter knew when the first flatten began
    ffailed    \* history: a flatten has raised

loopVars == <<pc, todo, spos, touched, bars>>
gateVars == <<gate, ff, covered, ffailed>>
exchVars == <<working, legs, bpos>>
vars == <<pc, todo, spos, touched, bars, tpos, gate, ff, known, inflight,
          working, legs, bpos, stop, sent, late, covered, ffailed>>

\* The stream or max_bars is exhausted, the stop_event branch has returned, or
\* an exception has left run.
Ended == {"ended", "stopped", "raised"}
PCs == {"wait", "drain", "shutdown", "alloc", "place", "journal", "snapshot"}
       \cup Ended
Reasons == {NONE, "MLL_EQUITY_TOUCH", "SHUTDOWN", "KILL_SWITCH"}
Idle == [at |-> "idle", ids |-> {}]
NoOrder == [st |-> NONE, id |-> 0, qty |-> 0]
Abs(n) == IF n < 0 THEN -n ELSE n
\* The simulator has no position but the tracker's.
Position == IF Live THEN bpos ELSE tpos
WorkingIds == {o.id : o \in working}

Init ==
    /\ pc = "wait" /\ todo = <<>> /\ spos = 0 /\ touched = FALSE /\ bars = 0
    /\ tpos = 0
    /\ gate = [flattening |-> FALSE, disabled |-> FALSE, reason |-> NONE]
    /\ ff = [c \in Callers |-> Idle]
    /\ known = {} /\ inflight = NoOrder
    /\ working = {} /\ legs = {} /\ bpos = 0
    /\ stop = FALSE /\ sent = 0
    /\ late = 0 /\ covered = {} /\ ffailed = FALSE
-----------------------------------------------------------------------------
(* The gate: latch, and the end of a flatten. *)

\* _schedule_force_flatten: the first request wins.
Schedule(g, r) ==
    IF g.flattening THEN g ELSE [g EXCEPT !.flattening = TRUE, !.reason = r]

FinallyKeepsReason(g) == [g EXCEPT !.disabled = TRUE]
FinallyKeepsTrading(g) == [g EXCEPT !.reason = NONE]

\* The finally clause of force_flatten_now.
Finally(g) == [g EXCEPT !.reason = NONE, !.disabled = TRUE]

ApprovableWhenDisabled(q, g, pos, touch) ==
    /\ Abs(pos + q) <= Cap
    /\ touch => Abs(pos + q) <= Abs(pos)

\* approve_or_deny may approve: the strategy is enabled, the projected
\* position of the snapshot is within the cap, and a snapshot at the floor
\* only lets reducing orders through.  Any intent may be denied.
Approvable(q, g, pos, touch) ==
    /\ ~g.disabled
    /\ Abs(pos + q) <= Cap
    /\ touch => Abs(pos + q) <= Abs(pos)
-----------------------------------------------------------------------------
(* Placing an order and going on to the next intent of the bar. *)

\* place_order up to its first suspension.  The simulator never suspends: the
\* order is filled and booked in the same step.
SendOrder(q) ==
    /\ sent' = sent + 1
    /\ IF Live
       THEN /\ inflight' = [st |-> "sent", id |-> sent + 1, qty |-> q]
            /\ pc' = "place"
            /\ UNCHANGED <<tpos, known>>
       ELSE /\ tpos' = tpos + q
            /\ known' = known \cup {sent + 1}
            /\ pc' = "journal"
            /\ UNCHANGED inflight

SendNothing == UNCHANGED <<sent, inflight, tpos, known>>

\* The for loop over the intents, from the top of an iteration to its first
\* suspension: decide on the head of s, with gate state g and the snapshot.
NextIntent(s, g, pos, touch) ==
    \/ s = <<>> /\ pc' = "snapshot" /\ todo' = <<>> /\ SendNothing
    \/ s # <<>> /\ pc' = "journal" /\ todo' = Tail(s) /\ SendNothing
    \/ /\ s # <<>> /\ sent < MaxOrders
       /\ Approvable(Head(s), g, pos, touch)
       /\ IF AllocatorSuspends
          THEN pc' = "alloc" /\ todo' = s /\ SendNothing
          ELSE todo' = Tail(s) /\ SendOrder(Head(s))

BarBodyWithOldSnapshot(g) ==
    /\ spos' = tpos
    /\ touched' \in BOOLEAN
    /\ LET g2 == IF touched' THEN Schedule(g, "MLL_EQUITY_TOUCH") ELSE g IN
       /\ gate' = g2
       /\ \E n \in 0..MaxIntents : \E s \in [1..n -> Qty] :
              NextIntent(s, g2, spos, touched')
    /\ UNCHANGED <<bars, stop, late, ffailed>>

\* Mark, snapshot and tick, then the intents unless the schedule is closed.
BarBody(g) ==
    /\ spos' = tpos
    /\ touched' \in BOOLEAN
    /\ LET g2 == IF touched' THEN Schedule(g, "MLL_EQUITY_TOUCH") ELSE g IN
       /\ gate' = g2
       /\ \/ pc' = "snapshot" /\ todo' = <<>> /\ SendNothing
          \/ \E n \in 0..MaxIntents : \E s \in [1..n -> Qty] :
                NextIntent(s, g2, tpos, touched')
    /\ UNCHANGED <<bars, stop, late, ffailed>>
-----------------------------------------------------------------------------
(* force_flatten_now *)

\* cancel_all of the TopstepX client: nothing for another symbol.
CancelIds == IF GateKnowsSymbol THEN known ELSE {}

\* Without an order to cancel or a client that can close, nothing suspends.
Suspends == Live /\ (CancelIds # {} \/ BrokerCanClose)

Covered == IF \E d \in Callers : ff[d] # Idle THEN covered ELSE known

CancelsFrom(c, ids) ==
    ff' = [ff EXCEPT ![c] =
              [at |-> IF ids # {} THEN "cancel" ELSE "close", ids |-> ids]]

StartFlattenSkippingLast(c, g) ==
    /\ gate' = g /\ covered' = Covered
    /\ CancelsFrom(c, CancelIds \ {sent})

\* Every caller that finds a reason pending starts a flatten of its own.
StartFlatten(c, g) ==
    gate' = g /\ covered' = Covered /\ CancelsFrom(c, CancelIds)

\* A flatten that suspends nowhere is over at once.
FlattenAtOnce(g) == gate' = Finally(g) /\ covered' = Covered /\ UNCHANGED ff

\* A dashboard request; one that finds the flatten already done changes nothing.
Kill(c) ==
    /\ ff[c] = Idle
    /\ LET g == Schedule(gate, "KILL_SWITCH") IN
       /\ g.reason # NONE
       /\ IF Suspends THEN StartFlatten(c, g) ELSE FlattenAtOnce(g)
    /\ UNCHANGED <<loopVars, tpos, known, inflight, exchVars, stop, sent, late,
                   ffailed>>

\* The flatten of c is over.  The loop goes on with what it was called for.
FlattenDone(c) ==
    /\ ff' = [ff EXCEPT ![c] = Idle]
    /\ UNCHANGED covered
    /\ \/ /\ c = Loop /\ pc = "drain"
          /\ BarBody(Finally(gate))
       \/ /\ c # Loop \/ pc = "shutdown"
          /\ gate' = Finally(gate)
          /\ pc' = IF c = Loop THEN "stopped" ELSE pc
          /\ UNCHANGED <<todo, spos, touched, bars, tpos, known, inflight,
                         stop, sent, late, ffailed>>

\* One cancel_order of cancel_all: the exchange has answered.
CancelOne(c) ==
    /\ ff[c].at = "cancel"
    /\ \E i \in ff[c].ids :
          /\ \A j \in ff[c].ids : i <= j
          /\ working' = {o \in working : o.id # i}
          /\ UNCHANGED legs
          /\ IF ff[c].ids = {i} /\ ~BrokerCanClose
             THEN FlattenDone(c) /\ UNCHANGED bpos
             ELSE /\ CancelsFrom(c, ff[c].ids \ {i})
                  /\ UNCHANGED <<loopVars, tpos, gate, known, inflight, bpos,
                                 stop, sent, late, covered, ffailed>>

CloseAll(c) ==
    /\ ff[c].at = "close"
    /\ FlattenDone(c)
    /\ bpos' = 0
    /\ UNCHANGED <<working, legs>>

\* cancel_order or close_all_positions raises: the finally clause still runs,
\* and the exception ends the loop when it is the caller.
FlattenFails(c) ==
    /\ ff[c] # Idle
    /\ ff' = [ff EXCEPT ![c] = Idle]
    /\ gate' = Finally(gate)
    /\ ffailed' = TRUE
    /\ pc' = IF c = Loop THEN "raised" ELSE pc
    /\ UNCHANGED <<todo, spos, touched, bars, tpos, known, inflight, exchVars,
                   stop, sent, late, covered>>
-----------------------------------------------------------------------------
(* The loop. *)

\* async for: a bar arrives (or the stream ends).  Shutdown is looked at first.
SourceEnds ==
    /\ pc = "wait"
    /\ pc' = "ended"
    /\ UNCHANGED <<todo, spos, touched, bars, tpos, gateVars, known, inflight,
                   exchVars, stop, sent, late>>

ShutdownBar ==
    /\ pc = "wait" /\ stop
    /\ LET g == Schedule(gate, "SHUTDOWN") IN
       \/ /\ g.reason = NONE
          /\ pc' = "stopped"
          /\ UNCHANGED <<gate, ff, covered>>
       \/ /\ g.reason # NONE
          /\ IF Suspends
             THEN StartFlatten(Loop, g) /\ pc' = "shutdown"
             ELSE FlattenAtOnce(g) /\ pc' = "stopped"
    /\ UNCHANGED <<todo, spos, touched, bars, tpos, known, inflight, exchVars,
                   stop, sent, late, ffailed>>

\* A flatten of the previous bar (or of a dashboard still at work) is drained
\* before the bar is looked at.
Bar ==
    /\ pc = "wait" /\ ~stop
    /\ UNCHANGED exchVars
    /\ IF gate.reason = NONE
       THEN BarBody(gate) /\ UNCHANGED <<ff, covered>>
       ELSE IF Suspends
            THEN /\ StartFlatten(Loop, gate)
                 /\ pc' = "drain"
                 /\ UNCHANGED <<todo, spos, touched, bars, tpos, known,
                                inflight, stop, sent, late, ffailed>>
            ELSE /\ BarBody(Finally(gate))
                 /\ covered' = Covered
                 /\ UNCHANGED ff

\* The fleet allocator answers; a denial is journalled like the gate's.
AllocatorAnswers ==
    /\ pc = "alloc"
    /\ todo' = Tail(todo)
    /\ SendOrder(Head(todo)) \/ (pc' = "journal" /\ SendNothing)
    /\ UNCHANGED <<spos, touched, bars, gateVars, exchVars, stop, late>>

\* place_order returns.  The tracker books the order whatever the event says.
PlaceReturns ==
    /\ pc = "place" /\ inflight.st \in {"accepted", "rejected"}
    /\ tpos' = tpos + inflight.qty
    /\ known' = IF inflight.st = "accepted" THEN known \cup {inflight.id}
                ELSE known
    /\ inflight' = NoOrder
    /\ pc' = "journal"
    /\ UNCHANGED <<todo, spos, touched, bars, gateVars, exchVars, stop, sent,
                   late>>

\* The response is lost; the exchange may have or may still accept the order.
PlaceRaises ==
    /\ pc = "place"
    /\ pc' = "raised"
    /\ UNCHANGED <<todo, spos, touched, bars, tpos, gateVars, known, inflight,
                   exchVars, stop, sent, late>>

Journalled ==
    /\ pc = "journal"
    /\ NextIntent(todo, gate, spos, touched)
    /\ UNCHANGED <<spos, touched, bars, gateVars, exchVars, stop, late>>

SnapshotWrittenOffByOne ==
    /\ pc = "snapshot"
    /\ bars' = IF MaxBars = 0 THEN 0 ELSE bars + 1
    /\ pc' = IF MaxBars # 0 /\ bars + 1 > MaxBars THEN "ended" ELSE "wait"
    /\ UNCHANGED <<todo, spos, touched, tpos, gateVars, known, inflight,
                   exchVars, stop, sent, late>>

SnapshotWritten ==
    /\ pc = "snapshot"
    /\ bars' = IF MaxBars = 0 THEN 0 ELSE bars + 1
    /\ pc' = IF MaxBars # 0 /\ bars + 1 >= MaxBars THEN "ended" ELSE "wait"
    /\ UNCHANGED <<todo, spos, touched, tpos, gateVars, known, inflight,
                   exchVars, stop, sent, late>>

JournalRaises ==
    /\ pc \in {"journal", "snapshot"}
    /\ pc' = "raised"
    /\ UNCHANGED <<todo, spos, touched, bars, tpos, gateVars, known, inflight,
                   exchVars, stop, sent, late>>
-----------------------------------------------------------------------------
(* The exchange, and the signal handler. *)

ExchangeAccepts ==
    /\ inflight.st = "sent"
    /\ inflight' = [inflight EXCEPT !.st = "accepted"]
    /\ working' = working \cup {[id |-> inflight.id, qty |-> inflight.qty]}
    /\ late' = IF gate.disabled THEN late + 1 ELSE late
    /\ UNCHANGED <<loopVars, tpos, gateVars, known, legs, bpos, stop, sent>>

ExchangeRejects ==
    /\ inflight.st = "sent"
    /\ inflight' = [inflight EXCEPT !.st = "rejected"]
    /\ UNCHANGED <<loopVars, tpos, gateVars, known, exchVars, stop, sent, late>>

\* The fill of an entry, which every strategy sends as a BRACKET, leaves its stop
\* and target resting: one cancels the other, so they close the entry once.
\* place_order returned the parent's id only, so no adapter knows them.
ExchangeFills ==
    /\ \E o \in working, bracket \in BOOLEAN :
          /\ working' = working \ {o}
          /\ legs' = IF bracket THEN legs \cup {[id |-> o.id, qty |-> -o.qty]}
                     ELSE legs
          /\ bpos' = bpos + o.qty
    /\ UNCHANGED <<loopVars, tpos, gateVars, known, inflight, stop, sent, late>>

LegFills ==
    /\ \E l \in legs :
          /\ legs' = legs \ {l}
          /\ bpos' = bpos + l.qty
    /\ UNCHANGED working
    /\ UNCHANGED <<loopVars, tpos, gateVars, known, inflight, stop, sent, late>>

RequestStop ==
    /\ ~stop
    /\ stop' = TRUE
    /\ UNCHANGED <<loopVars, tpos, gateVars, known, inflight, exchVars, sent,
                   late>>

\* The session is over.
Stopped == pc \in Ended /\ UNCHANGED vars
-----------------------------------------------------------------------------
LoopSteps ==
    \/ SourceEnds \/ ShutdownBar \/ Bar \/ AllocatorAnswers \/ PlaceReturns
    \/ Journalled \/ SnapshotWritten

Next ==
    \/ LoopSteps \/ PlaceRaises \/ JournalRaises
    \/ \E c \in Callers : CancelOne(c) \/ CloseAll(c) \/ FlattenFails(c)
    \/ \E d \in Dash : Kill(d)
    \/ ExchangeAccepts \/ ExchangeRejects \/ ExchangeFills \/ LegFills
    \/ RequestStop \/ Stopped

Spec == Init /\ [][Next]_vars

(***************************************************************************)
(* asyncio runs every task that is ready, the exchange answers what it was *)
(* sent, and while the market is open the feed delivers a next bar.  Nobody *)
(* owes the system a kill switch, a SIGTERM, a fill or a failure.          *)
(***************************************************************************)
Fairness ==
    /\ WF_vars(LoopSteps)
    /\ \A c \in Callers : WF_vars(CancelOne(c) \/ CloseAll(c))
    /\ WF_vars(ExchangeAccepts \/ ExchangeRejects)

FairSpec == Spec /\ Fairness
-----------------------------------------------------------------------------
GateType == [flattening : BOOLEAN, disabled : BOOLEAN, reason : Reasons]
OrderType == [st : {NONE, "sent", "accepted", "rejected"}, id : Nat, qty : Int]

TypeOK ==
    /\ pc \in PCs /\ todo \in Seq(Qty) /\ spos \in Int /\ touched \in BOOLEAN
    /\ bars \in Nat /\ (MaxBars # 0 => bars <= MaxBars) /\ tpos \in Int
    /\ gate \in GateType
    /\ ff \in [Callers -> [at : {"idle", "cancel", "close"}, ids : SUBSET Nat]]
    /\ known \subseteq Nat
    /\ inflight \in OrderType
    /\ working \subseteq [id : Nat, qty : Int]
    /\ legs \subseteq [id : Nat, qty : Int]
    /\ bpos \in Int /\ stop \in BOOLEAN /\ sent \in Nat /\ late \in Nat
    /\ covered \subseteq Nat /\ ffailed \in BOOLEAN

(***************************************************************************)
(* A flatten request is never lost: once the latch is taken either its     *)
(* reason is still pending, for the loop's next drain or a caller at work, *)
(* or the strategy is disabled.  gate.py:377-408 keeps the two facts in    *)
(* three fields that three kinds of callers change between awaits.         *)
(***************************************************************************)
NoLostFlatten ==
    /\ gate.flattening => gate.reason # NONE \/ gate.disabled
    /\ \A c \in Callers : ff[c] # Idle => gate.flattening

(***************************************************************************)
(* After the disable at most one more order of this bot reaches the book:  *)
(* the one that had passed the gate (and was waiting for the allocator or  *)
(* for the exchange) when a dashboard's flatten finished (gate.py:113-119, *)
(* live_loop.py:255-277).                                                  *)
(***************************************************************************)
AtMostOneLateOrder == late <= 1

(***************************************************************************)
(* Once a flatten that did not raise is over, no order that the adapter    *)
(* knew when the first flatten began still rests at the exchange, however  *)
(* many callers cancel the same orders at the same time                    *)
(* (topstepx_client.py cancel_all, gate.py:395-408).                       *)
(***************************************************************************)
CoveredOrdersAreGone ==
    gate.disabled /\ ~ffailed => covered \cap WorkingIds = {}

(***************************************************************************)
(* No caller starts to cancel or close once the strategy is disabled: the  *)
(* flatten is carried out for one request (gate.py:377-393).               *)
(***************************************************************************)
NoFlattenAfterDisable ==
    [][\A c \in Callers :
          ff[c] = Idle /\ ff'[c] # Idle => ~gate.disabled]_vars

(***************************************************************************)
(* A loop that returns on stop_event leaves the exchange flat: live_loop.py *)
(* lines 17-18 "cancels open orders, closes positions at the broker", and  *)
(* 215-216 "On shutdown a force-flatten is issued so any open position is  *)
(* closed before control returns".                                         *)
(***************************************************************************)
ShutdownLeavesFlat ==
    pc = "stopped" => working = {} /\ legs = {} /\ Position = 0

(***************************************************************************)
(* The flatten that a shutdown starts misses no order the bot placed, even *)
(* while dashboards flatten as well and the market fills what they are     *)
(* cancelling: when it lets the loop return, none of them rests            *)
(* (live_loop.py:224-226, topstepx_client.py:381-393).  The legs of the    *)
(* brackets that filled are not among them: they do stay, as               *)
(* ShutdownLeavesFlat shows.                                               *)
(***************************************************************************)
ShutdownFlattenIsComplete ==
    [][pc = "shutdown" /\ pc' = "stopped" => working' = {}]_vars

(***************************************************************************)
(* The position the bot believes in stays within the cap of rule 4, which  *)
(* is checked against a snapshot that is one bar old (gate.py:275-293,     *)
(* live_loop.py:233-255).                                                  *)
(***************************************************************************)
TrackerWithinCap == Abs(tpos) <= Cap

(***************************************************************************)
(* So does the position at the exchange: "The per-bot gate enforces that   *)
(* bot's own position limits" (allocator.py:4), from a tracker that is to  *)
(* be told of "a completed fill" (tracker.py:49).                          *)
(***************************************************************************)
ExchangeWithinCap == Abs(Position) <= Cap

(***************************************************************************)
(* A requested flatten is carried out, unless the loop ends first: every   *)
(* latch finds a caller that drains it (live_loop.py:227-229).             *)
(***************************************************************************)
FlattenIsCarriedOut ==
    gate.flattening ~> gate.disabled \/ pc \in Ended

Latch == INSTANCE FlattenLatch WITH
    phase <- IF gate.disabled THEN "disabled"
             ELSE IF gate.flattening THEN "requested" ELSE "armed"

(***************************************************************************)
(* The loop, the dashboards and the adapter together implement the         *)
(* one-way latch of FlattenLatch.tla.                                      *)
(***************************************************************************)
LatchSpec == Latch!Spec
=============================================================================
