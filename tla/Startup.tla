------------------------------ MODULE Startup ------------------------------
(***************************************************************************)
(* A bot process over its restarts: runtime.main.main (runtime/main.py)    *)
(* with reconcile.py and hydrate.py, the part of the live loop that writes *)
(* the Journal (journal/journal.py), and the exchange, which goes on while *)
(* the process is down.  A process may die between any two awaits; the     *)
(* committed rows of the journal survive, the rest does not.               *)
(*                                                                         *)
(* Each await of main is a step, so the exchange may move between the      *)
(* three queries of snapshot_broker.  A configuration, a secret or a host  *)
(* that is refused ends the process before it has touched anything and is  *)
(* left out.                                                               *)
(*                                                                         *)
(* record_order and record_position have no caller under src/bot, so the   *)
(* journal's tables of orders and positions are always empty.  Money is in *)
(* integers: a fill of q at price p takes q * p from the cash.  No client  *)
(* has a close_all_positions, so a forced flatten only cancels orders.     *)
(***************************************************************************)
EXTENDS Integers, Sequences, FiniteSets, Functions

CONSTANTS
    Qty, Cap,      \* quantities of an order, the gate's position cap
    Prices,
    Start, Mll,    \* of the policy that _build_gate fixes
    Pnl,           \* the realized P&L a bar may end with
    MaxSessions, MaxOrders, MaxRows  \* bounds of the model

ASSUME StartupAssumption ==
    /\ Qty \subseteq Int /\ Cap \in Nat /\ Prices \subseteq Int
    /\ Start \in Int /\ Mll \in Nat /\ Pnl \subseteq Int
    /\ MaxSessions \in Nat /\ MaxOrders \in Nat /\ MaxRows \in Nat

VARIABLES
    pc,         \* the await main or its loop is at; "off": no process
    strict,     \* cfg.halt_on_journal_desync of this session
    session,    \* sessions so far
    seen,       \* bs_state as far as it has been read, and high_water_equity
    tracker,    \* AccountStateTracker of the session
    order,      \* the order being placed or recorded
    cache,      \* the journal's PnL cache
    rows,       \* journal file: equity_snapshots
    recorded,   \* journal file: orders that have a row in fills
    sent,       \* orders sent so far
    wire,       \* orders on their way to the exchange
    resting,    \* exchange: orders that a session placed
    legs,       \* exchange: resting stop and target pairs of filled brackets
    bpos, cash, \* exchange: position and cash of the account
    price,
    accepted,   \* history: orders the exchange has accepted
    unbooked,   \* history: contracts that legs moved while this session traded
    disturbed   \* history: the exchange moved under the session, see below

vars == <<pc, strict, session, seen, tracker, order, cache, rows, recorded,
          sent, wire, resting, legs, bpos, cash, price, accepted, unbooked,
          disturbed>>
fileVars == <<rows, recorded>>
bookVars == <<wire, resting, legs, bpos, cash, accepted, unbooked>>

NoOrder == [id |-> 0, qty |-> 0, session |-> 0]
NothingSeen == [pos |-> 0, orders |-> {}, equity |-> 0, high |-> 0]
NoTracker == [pos |-> 0, cash |-> 0, high |-> 0]
NoCache == [best |-> 0, net |-> 0]

Abs(n) == IF n < 0 THEN -n ELSE n
Larger(a, b) == IF a >= b THEN a ELSE b
Equity(position, money) == money + position * price

Init ==
    /\ pc = "off" /\ strict = TRUE /\ session = 0
    /\ seen = NothingSeen /\ tracker = NoTracker /\ order = NoOrder
    /\ cache = NoCache
    /\ rows = <<>> /\ recorded = {}
    /\ sent = 0 /\ wire = {} /\ resting = {} /\ legs = {}
    /\ bpos = 0 /\ price \in Prices /\ cash = Start
    /\ accepted = {} /\ unbooked = 0 /\ disturbed = FALSE
-----------------------------------------------------------------------------
(* Steps 4 to 8 of main. *)

Boot ==
    /\ pc = "off" /\ session < MaxSessions
    /\ session' = session + 1
    /\ strict' \in BOOLEAN
    /\ pc' = "open"
    /\ UNCHANGED <<seen, tracker, order, cache, fileVars, sent, bookVars,
                   price, disturbed>>

\* _recompute_pnl_cache: the best and the last of the snapshots in order.
IsReplay(snapshots, c) ==
    /\ c.best \in {0} \cup {snapshots[k].realized : k \in DOMAIN snapshots}
    /\ c.best >= 0
    /\ \A k \in DOMAIN snapshots : snapshots[k].realized <= c.best
    /\ c.net = IF snapshots = <<>> THEN 0 ELSE snapshots[Len(snapshots)].realized

Cache == [best : Pnl \cup {0}, net : Pnl \cup {0}]

OpenJournalWithoutReplay ==
    /\ pc = "open"
    /\ cache' = NoCache
    /\ pc' = "connect"
    /\ UNCHANGED <<strict, session, seen, tracker, order, fileVars, sent,
                   bookVars, price, disturbed>>

OpenJournal ==
    /\ pc = "open"
    /\ cache' \in Cache /\ IsReplay(rows, cache')
    /\ pc' = "connect"
    /\ UNCHANGED <<strict, session, seen, tracker, order, fileVars, sent,
                   bookVars, price, disturbed>>

ConnectBroker ==
    /\ pc = "connect"
    /\ pc' = "positions"
    /\ UNCHANGED <<strict, session, seen, tracker, order, cache, fileVars, sent,
                   bookVars, price, disturbed>>

ReadPositions ==
    /\ pc = "positions"
    /\ seen' = [seen EXCEPT !.pos = bpos]
    /\ disturbed' = FALSE
    /\ pc' = "orders"
    /\ UNCHANGED <<strict, session, tracker, order, cache, fileVars, sent,
                   bookVars, price>>

ReadOrders ==
    /\ pc = "orders"
    /\ seen' = [seen EXCEPT !.orders = resting \cup legs]
    /\ pc' = "account"
    /\ UNCHANGED <<strict, session, tracker, order, cache, fileVars, sent,
                   bookVars, price, disturbed>>

\* get_account gives the balance, which counts a position at its entry price:
\* here any price.
ReadAccount ==
    /\ pc = "account"
    /\ \E entry \in Prices : seen' = [seen EXCEPT !.equity = cash + bpos * entry]
    /\ pc' = "reconcile"
    /\ UNCHANGED <<strict, session, tracker, order, cache, fileVars, sent,
                   bookVars, price, disturbed>>

ReconciledPositionsOnly == seen.pos = 0
ReconciledOrdersOnly == seen.orders = {}

\* reconcile against a journal without positions and orders
Reconciled == seen.pos = 0 /\ seen.orders = {}

\* snapshot_journal; nobody else writes the journal meanwhile.
Reconcile ==
    /\ pc = "reconcile"
    /\ pc' = IF strict /\ ~Reconciled THEN "cleanup" ELSE "hydrate"
    /\ UNCHANGED <<strict, session, seen, tracker, order, cache, fileVars, sent,
                   bookVars, price, disturbed>>

\* hydrate_runtime's high_water_equity
HydratedHigh == IF rows = <<>> THEN seen.equity ELSE rows[Len(rows)].high

\* Of the RuntimeState the event loop keeps the equity: the tracker is flat and
\* has a new high water.  The snapshots are not looked at again.
LoopTracker == [pos |-> 0, cash |-> seen.equity, high |-> seen.equity]

\* A --check run goes to the cleanup instead of the event loop.
Hydrate ==
    /\ pc = "hydrate"
    /\ seen' = [NothingSeen EXCEPT !.high = HydratedHigh]
    /\ \/ pc' = "trading" /\ tracker' = LoopTracker
       \/ pc' = "cleanup" /\ UNCHANGED tracker
    /\ UNCHANGED <<strict, session, order, cache, fileVars, sent, bookVars,
                   price, disturbed>>
-----------------------------------------------------------------------------
(* The live loop, as far as it changes the account or the journal. *)

GateApprovesFromPosition(q) == Abs(tracker.pos) <= Cap
\* Of the gate's rules, the cap on the position; with the tracker as it is told.
GateApproves(q) == Abs(tracker.pos + q) <= Cap

\* An entry is sent as a BRACKET, one order with its stop and target, which
\* rest from its fill on (see Fills).
Send(q) ==
    /\ pc = "trading" /\ sent < MaxOrders
    /\ GateApproves(q)
    /\ sent' = sent + 1
    /\ order' = [id |-> sent + 1, qty |-> q, session |-> session]
    /\ wire' = wire \cup {order'}
    /\ pc' = "placing"
    /\ UNCHANGED <<strict, session, seen, tracker, cache, fileVars, resting,
                   legs, bpos, cash, price, accepted, unbooked, disturbed>>

\* place_order returns; the tracker books the order, accepted or not.
Booked ==
    tracker' = [tracker EXCEPT !.pos = @ + order.qty,
                               !.cash = @ - order.qty * price]

PlaceReturnsUnrecorded ==
    /\ pc = "placing" /\ order \notin wire
    /\ Booked
    /\ pc' = "trading" /\ order' = NoOrder
    /\ UNCHANGED <<strict, session, seen, cache, fileVars, sent, bookVars, price,
                   disturbed>>

PlaceReturns ==
    /\ pc = "placing" /\ order \notin wire
    /\ Booked
    /\ pc' = "recording"
    /\ UNCHANGED <<strict, session, seen, order, cache, fileVars, sent, bookVars,
                   price, disturbed>>

\* record_risk_decision and record_fill
RecordFill ==
    /\ pc = "recording"
    /\ recorded' = recorded \cup {order}
    /\ order' = NoOrder
    /\ pc' = "trading"
    /\ UNCHANGED <<strict, session, seen, tracker, cache, rows, sent, bookVars,
                   price, disturbed>>

\* force_flatten_now cancels the orders that this session's client knows of,
\* one await each, and disables the strategy for the rest of the session.
StartFlatten ==
    /\ pc = "trading"
    /\ pc' = "flattening"
    /\ UNCHANGED <<strict, session, seen, tracker, order, cache, fileVars, sent,
                   bookVars, price, disturbed>>

Own == {o \in resting : o.session = session}

CancelOne(o) ==
    /\ pc = "flattening" /\ o \in Own
    /\ resting' = resting \ {o}
    /\ UNCHANGED <<pc, strict, session, seen, tracker, order, cache, fileVars,
                   sent, wire, legs, bpos, cash, price, accepted, unbooked,
                   disturbed>>

FlattenDone ==
    /\ pc = "flattening" /\ Own = {}
    /\ pc' = "disabled"
    /\ UNCHANGED <<strict, session, seen, tracker, order, cache, fileVars, sent,
                   bookVars, price, disturbed>>

\* A bar: mark_to_market at its start and record_equity_snapshot at its end,
\* which commits a row and then brings the cache up to date.  The bar's own
\* fills are at the price it is marked at and leave the equity alone.
EndBar(realized) ==
    /\ pc \in {"trading", "disabled"} /\ Len(rows) < MaxRows
    /\ tracker' = [tracker EXCEPT !.high = Larger(@, Equity(tracker.pos, tracker.cash))]
    /\ rows' = Append(rows, [realized |-> realized, high |-> tracker'.high])
    /\ cache' = [best |-> Larger(cache.best, realized), net |-> realized]
    /\ UNCHANGED <<pc, strict, session, seen, order, recorded, sent, bookVars,
                   price, disturbed>>
-----------------------------------------------------------------------------
(* The ends of a session. *)

\* The loop ends, or a call of main or of the loop raises: the finally clause.
Trading == {"trading", "placing", "recording"}
Flattened == {"flattening", "disabled"}
Snapshotting == {"orders", "account", "reconcile", "hydrate"}

ToCleanup ==
    /\ pc \in {"positions"} \cup Snapshotting \cup Trading \cup Flattened
    /\ pc' = "cleanup"
    /\ UNCHANGED <<strict, session, seen, tracker, order, cache, fileVars, sent,
                   bookVars, price, disturbed>>

\* The process ends after its cleanup, or when opening or connecting raises,
\* which is before the try; or it is killed at any await.
Exit ==
    /\ pc # "off"
    /\ pc' = "off"
    /\ seen' = NothingSeen /\ tracker' = NoTracker /\ order' = NoOrder
    /\ cache' = NoCache
    /\ unbooked' = 0 /\ disturbed' = FALSE
    /\ UNCHANGED <<strict, session, fileVars, sent, wire, resting, legs, bpos,
                   cash, accepted, price>>
-----------------------------------------------------------------------------
(* The exchange. *)

Accepts(o) ==
    /\ o \in wire
    /\ wire' = wire \ {o}
    /\ resting' = resting \cup {o}
    /\ accepted' = accepted \cup {o}
    /\ disturbed' = (disturbed \/ o # order)
    /\ UNCHANGED <<pc, strict, session, seen, tracker, order, cache, fileVars,
                   sent, legs, bpos, cash, price, unbooked>>

\* Rejected, or lost on the way.
Rejects(o) ==
    /\ o \in wire
    /\ wire' = wire \ {o}
    /\ disturbed' = (disturbed \/ o = order)
    /\ UNCHANGED <<pc, strict, session, seen, tracker, order, cache, fileVars,
                   sent, resting, legs, bpos, cash, price, accepted, unbooked>>

Fills(o) ==
    /\ o \in resting
    /\ resting' = resting \ {o}
    /\ \E bracket \in BOOLEAN :
          legs' = IF bracket THEN legs \cup {[o EXCEPT !.qty = -@]} ELSE legs
    /\ bpos' = bpos + o.qty
    /\ cash' = cash - o.qty * price
    /\ disturbed' = (disturbed \/ pc \in Snapshotting)
    /\ UNCHANGED <<pc, strict, session, seen, tracker, order, cache, fileVars,
                   sent, wire, price, accepted, unbooked>>

\* The stop or the target of a bracket fills, which cancels the other.  Nobody
\* tells the tracker: it is told by PlaceReturns only.
LegFills(l) ==
    /\ l \in legs
    /\ legs' = legs \ {l}
    /\ bpos' = bpos + l.qty
    /\ cash' = cash - l.qty * price
    /\ unbooked' = IF pc \in Trading THEN unbooked + l.qty ELSE 0
    /\ disturbed' = (disturbed \/ pc \in Snapshotting)
    /\ UNCHANGED <<pc, strict, session, seen, tracker, order, cache, fileVars,
                   sent, wire, resting, price, accepted>>

PriceMoves ==
    /\ price' \in Prices
    /\ UNCHANGED <<pc, strict, session, seen, tracker, order, cache, fileVars,
                   sent, bookVars, disturbed>>

Next ==
    \/ Boot \/ OpenJournal \/ ConnectBroker
    \/ ReadPositions \/ ReadOrders \/ ReadAccount \/ Reconcile \/ Hydrate
    \/ \E q \in Qty : Send(q)
    \/ PlaceReturns \/ RecordFill \/ StartFlatten \/ FlattenDone
    \/ \E o \in Own : CancelOne(o)
    \/ \E realized \in Pnl : EndBar(realized)
    \/ ToCleanup \/ Exit
    \/ \E o \in wire : Accepts(o) \/ Rejects(o)
    \/ \E o \in resting : Fills(o)
    \/ \E l \in legs : LegFills(l)
    \/ PriceMoves

Spec == Init /\ [][Next]_vars
-----------------------------------------------------------------------------
Order == [id : Nat, qty : Int, session : Nat]
Row == [realized : Pnl, high : Int]

TypeOK ==
    /\ pc \in {"off", "open", "connect", "positions", "cleanup"}
              \cup Snapshotting \cup Trading \cup Flattened
    /\ strict \in BOOLEAN /\ disturbed \in BOOLEAN
    /\ session \in 0..MaxSessions /\ sent \in 0..MaxOrders
    /\ seen \in [pos : Int, orders : SUBSET Order, equity : Int, high : Int]
    /\ tracker \in [pos : -Cap..Cap, cash : Int, high : Int]
    /\ order \in Order
    /\ cache \in Cache
    /\ rows \in Seq(Row) /\ Len(rows) <= MaxRows
    /\ recorded \subseteq Order /\ wire \subseteq Order
    /\ resting \subseteq Order /\ accepted \subseteq Order
    /\ legs \subseteq Order /\ unbooked \in Int
    /\ bpos \in Int /\ cash \in Int /\ price \in Prices

(***************************************************************************)
(* A strict session that passes reconcile finds a flat account without     *)
(* orders, the legs of brackets included, whatever earlier sessions left   *)
(* and however they died, unless the exchange moved between the queries of *)
(* snapshot_broker: those are three awaits, and an order that fills        *)
(* between the first two is in neither answer (main.py 138-156, 424-441).  *)
(***************************************************************************)
OnlyFlatPassesReconcile ==
    pc = "hydrate" /\ strict /\ ~disturbed
        => bpos = 0 /\ resting = {} /\ legs = {}

(***************************************************************************)
(* How far the tracker of a session that passed reconcile can be from the  *)
(* exchange: by the orders that rest, by an order that was accepted and    *)
(* not yet answered, and by whatever the legs of its brackets have filled, *)
(* which place_order's return never books (live_loop.py 276-290,           *)
(* topstepx_client.py 268-286).  Nothing else parts them until a forced    *)
(* flatten, until the exchange rejects an order of the session, which is   *)
(* booked all the same, or takes a late one of an earlier session.         *)
(***************************************************************************)
PictureHolds ==
    pc \in Trading /\ strict /\ ~disturbed =>
        tracker.pos + unbooked
            + (IF pc = "placing" /\ order \in accepted THEN order.qty ELSE 0)
        = bpos + SumFunction([o \in resting |-> o.qty])

(***************************************************************************)
(* However often the process dies, a session leaves at most one accepted   *)
(* order without its row in fills: the one it was placing or recording     *)
(* (live_loop.py 276-303).                                                 *)
(***************************************************************************)
OneLostRowPerSession ==
    \A a, b \in accepted \ recorded : a.session = b.session => a = b

(***************************************************************************)
(* The journal's PnL cache is the replay of the committed snapshots, in    *)
(* every session: what it would give rule 6 survives a restart             *)
(* (journal.py 66-88, 225-252; no gate under src/bot is wired to it yet).  *)
(***************************************************************************)
CacheIsReplay == pc \notin {"off", "open"} => IsReplay(rows, cache)

\* phantom_mll of the Combine policy, with the lock derived on each tick
Floor(high) == IF high >= Start + Mll THEN Start ELSE high - Mll

(***************************************************************************)
(* "hydrate runtime (... high-water equity from journal's                  *)
(* equity_snapshots)" (spec 07 line 326): a session does not trade on a    *)
(* floor below the one that the journal's last snapshot implies.           *)
(***************************************************************************)
FloorSurvivesRestart ==
    pc \in Trading \cup Flattened /\ rows # <<>> =>
        Floor(tracker.high) >= Floor(rows[Len(rows)].high)
=============================================================================
