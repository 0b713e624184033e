---------------------------- MODULE BrokerOrders ----------------------------
(***************************************************************************)
(* The orders of a broker adapter: place_order, cancel_order and           *)
(* cancel_all of TopstepXExecutionClient (execution/topstepx_client.py)    *)
(* and IBExecutionClient (execution/ib_client.py), which all the bots of a *)
(* fleet share.  The TopstepX adapter waits for the exchange's answer; the *)
(* call may instead raise, before the exchange has the order, after it, or *)
(* while the order is still on its way.  The IB adapter hands the order    *)
(* over and answers in the same step.                                      *)
(*                                                                         *)
(* A caller may place any id: the ids of the strategies are made of a day  *)
(* and a counter (strategy/orb.py 189, mean_reversion.py 221), so two bots *)
(* with one strategy, or one bot after a restart, come to the same id.     *)
(* What the exchange does with a tag it has seen is not known: it may take *)
(* the order or reject it.  Of an intent only its symbol, its type and     *)
(* whether it has a limit price are kept.                                  *)
(*                                                                         *)
(* The table knows the parent of a bracket only.  Its stop and its target  *)
(* are cancelled with it while it rests, and rest on their own once it is  *)
(* filled: these are the legs.  A new process knows no order of the one    *)
(* before, and what that one left at the exchange is still there.          *)
(***************************************************************************)
EXTENDS Naturals, FiniteSets

CONSTANTS
    Rails,      \* the adapters: "topstepx", "ib"
    Callers,    \* the loops that share the adapter
    Ids,
    Symbols,
    Own,        \* the symbol of the suite, the one contract IB's connect qualifies
    Kinds,      \* <<order_type, has a limit price>> of the intents
    MaxSends,   \* bound: orders handed to the exchange
    MaxRestarts \* bound: new processes

ASSUME OrdersAssumption ==
    /\ Rails \subseteq {"topstepx", "ib"} /\ Own \in Symbols
    /\ MaxSends \in Nat /\ MaxRestarts \in Nat

VARIABLES
    rail,
    linked,     \* _suite or _ib is there
    calls,      \* the place_order call of each caller
    recent,     \* _recent: the status an id was answered with
    tracked,    \* _broker_ids, _open_trades: the order of an id, 0 for none
    sends,      \* orders handed over so far; each has its number
    air,        \* orders on the way to the exchange
    book,       \* orders that rest there
    legs,       \* filled brackets whose stop and target rest there
    sweep,      \* ids that a cancel_all still has to cancel
    lost,       \* history: orders whose call raised
    overlapped, \* history: ids placed while another call of theirs waited
    born,       \* history: orders that earlier processes handed over
    restarts

exchangeVars == <<air, book, legs>>
historyVars == <<lost, overlapped, born, restarts>>
ordersVars == <<rail, linked, calls, recent, tracked, sends, sweep, exchangeVars,
                historyVars>>

NoCall == [pc |-> "idle", id |-> 0, no |-> 0]
Waiting(id) == {c \in Callers : calls[c].pc # "idle" /\ calls[c].id = id}

OrdersInit ==
    /\ rail \in Rails /\ linked = FALSE
    /\ calls = [c \in Callers |-> NoCall]
    /\ recent = [i \in Ids |-> "none"] /\ tracked = [i \in Ids |-> 0]
    /\ sends = 0 /\ air = {} /\ book = {} /\ legs = {} /\ sweep = {}
    /\ lost = {} /\ overlapped = {} /\ born = 0 /\ restarts = 0

Link ==
    /\ ~linked /\ linked' = TRUE
    /\ UNCHANGED <<rail, calls, recent, tracked, sends, sweep, exchangeVars, historyVars>>

\* The process ends at any point and another one starts: its adapter begins
\* with empty tables, and nobody waits for what is on its way.
Restart ==
    /\ linked /\ restarts < MaxRestarts
    /\ restarts' = restarts + 1 /\ born' = sends
    /\ linked' = FALSE /\ sweep' = {} /\ overlapped' = {}
    /\ calls' = [c \in Callers |-> NoCall]
    /\ recent' = [i \in Ids |-> "none"] /\ tracked' = [i \in Ids |-> 0]
    /\ UNCHANGED <<rail, sends, lost, exchangeVars>>

\* The adapter can translate the intent.  IB brackets need a price to start
\* from, which no strategy's bracket has (mean_reversion.py 216-224).
Translates(kind) ==
    IF rail = "topstepx" THEN kind[1] # "STOP_LIMIT"
    ELSE kind[1] = "MARKET" \/ (kind[1] = "BRACKET" /\ kind[2])

NextOrder(id, kind) == [no |-> sends + 1, id |-> id, bracket |-> kind[1] = "BRACKET"]

\* TopstepX: what is answered is answered from the cache.  Another intent is
\* sent in the step that looked into it, to the suite's instrument whatever its
\* own symbol is.
Send(c, id, kind) ==
    /\ rail = "topstepx" /\ linked /\ calls[c].pc = "idle"
    /\ recent[id] = "none" /\ Translates(kind) /\ sends < MaxSends
    /\ sends' = sends + 1
    /\ air' = air \cup {NextOrder(id, kind)}
    /\ calls' = [calls EXCEPT ![c] = [pc |-> "sent", id |-> id, no |-> sends']]
    /\ overlapped' = IF Waiting(id) = {} THEN overlapped ELSE overlapped \cup {id}
    /\ UNCHANGED <<rail, linked, recent, tracked, book, legs, sweep, lost, born, restarts>>

\* IB: the trade is recorded and the id is answered at once.  Of a bracket's
\* three trades, which leave together with the last one, the parent is recorded.
Hand(c, id, kind, symbol) ==
    /\ rail = "ib" /\ linked /\ calls[c].pc = "idle"
    /\ recent[id] = "none" /\ symbol = Own /\ Translates(kind) /\ sends < MaxSends
    /\ sends' = sends + 1
    /\ air' = air \cup {NextOrder(id, kind)}
    /\ recent' = [recent EXCEPT ![id] = "PENDING"]
    /\ tracked' = [tracked EXCEPT ![id] = sends']
    /\ UNCHANGED <<rail, linked, calls, book, legs, sweep, historyVars>>

Heard(o, pc) == [c \in Callers |-> IF calls[c].pc = "sent" /\ calls[c].no = o.no
                                   THEN [calls[c] EXCEPT !.pc = pc] ELSE calls[c]]

ExchangeTakes(o) ==
    /\ o \in air
    /\ air' = air \ {o} /\ book' = book \cup {o}
    /\ calls' = Heard(o, "taken")
    /\ UNCHANGED <<rail, linked, recent, tracked, sends, legs, sweep, historyVars>>

ExchangeRefuses(o) ==
    /\ o \in air
    /\ air' = air \ {o}
    /\ calls' = Heard(o, "refused")
    /\ UNCHANGED <<rail, linked, recent, tracked, sends, book, legs, sweep, historyVars>>

ExchangeFillsOrder(o) ==
    /\ o \in book
    /\ book' = book \ {o}
    /\ legs' = IF o.bracket THEN legs \cup {o} ELSE legs
    /\ UNCHANGED <<rail, linked, calls, recent, tracked, sends, air, sweep, historyVars>>

\* The stop or the target fills, and the other one goes with it.
LegFills(o) ==
    /\ o \in legs
    /\ legs' = legs \ {o}
    /\ UNCHANGED <<rail, linked, calls, recent, tracked, sends, air, book, sweep,
                   historyVars>>

AnswerWithoutId(c) ==
    /\ calls[c].pc \in {"taken", "refused"}
    /\ recent' = [recent EXCEPT ![calls[c].id] =
                    IF calls[c].pc = "taken" THEN "PENDING" ELSE "REJECTED"]
    /\ calls' = [calls EXCEPT ![c] = NoCall]
    /\ UNCHANGED <<rail, linked, tracked, sends, sweep, exchangeVars, historyVars>>

AnswerForgotten(c) ==
    /\ calls[c].pc \in {"taken", "refused"}
    /\ tracked' = IF calls[c].pc = "taken"
                  THEN [tracked EXCEPT ![calls[c].id] = calls[c].no] ELSE tracked
    /\ calls' = [calls EXCEPT ![c] = NoCall]
    /\ UNCHANGED <<rail, linked, recent, sends, sweep, exchangeVars, historyVars>>

\* The response of place_order: both answers are cached, an accepted order can
\* be cancelled from now on.
Answer(c) ==
    /\ calls[c].pc \in {"taken", "refused"}
    /\ recent' = [recent EXCEPT ![calls[c].id] =
                    IF calls[c].pc = "taken" THEN "PENDING" ELSE "REJECTED"]
    /\ tracked' = IF calls[c].pc = "taken"
                  THEN [tracked EXCEPT ![calls[c].id] = calls[c].no] ELSE tracked
    /\ calls' = [calls EXCEPT ![c] = NoCall]
    /\ UNCHANGED <<rail, linked, sends, sweep, exchangeVars, historyVars>>

\* The call raises: nothing is cached, whatever becomes of the order.
CallRaises(c) ==
    /\ calls[c].pc # "idle"
    /\ lost' = lost \cup {calls[c].no}
    /\ calls' = [calls EXCEPT ![c] = NoCall]
    /\ UNCHANGED <<rail, linked, recent, tracked, sends, sweep, exchangeVars, overlapped,
                   born, restarts>>

\* The ids cancel_all goes through: none for another symbol than the adapter's,
\* under which every order is kept.  No id is ever removed from the table.
Listed(symbol) == {i \in Ids : symbol = Own /\ tracked[i] # 0}

\* TopstepX: cancel_all takes a copy of the ids.
CancelAll(symbol) ==
    /\ rail = "topstepx" /\ linked /\ sweep = {}
    /\ sweep' = Listed(symbol)
    /\ UNCHANGED <<rail, linked, calls, recent, tracked, sends, exchangeVars, historyVars>>

CancelOrder(id) ==
    /\ id \in sweep
    /\ sweep' = sweep \ {id}
    /\ book' = {o \in book : o.no # tracked[id]}
    /\ UNCHANGED <<rail, linked, calls, recent, tracked, sends, air, legs, historyVars>>

\* A cancellation raises, and with it cancel_all.
CancelRaises ==
    /\ sweep # {}
    /\ sweep' = {}
    /\ UNCHANGED <<rail, linked, calls, recent, tracked, sends, exchangeVars, historyVars>>

\* IB hands every cancellation over in one step, behind the orders that are
\* still on their way.
CancelAllTrades(symbol) ==
    /\ rail = "ib" /\ linked
    /\ LET Cancelled(o) == o.id \in Listed(symbol) /\ tracked[o.id] = o.no
       IN  /\ book' = {o \in book : ~Cancelled(o)}
           /\ air' = {o \in air : ~Cancelled(o)}
    /\ UNCHANGED <<rail, linked, calls, recent, tracked, sends, legs, sweep, historyVars>>

OrdersNext ==
    \/ Link \/ Restart
    \/ \E c \in Callers :
        \/ \E id \in Ids, kind \in Kinds :
              Send(c, id, kind) \/ \E symbol \in Symbols : Hand(c, id, kind, symbol)
        \/ Answer(c) \/ CallRaises(c)
    \/ \E o \in air \cup book :
        ExchangeTakes(o) \/ ExchangeRefuses(o) \/ ExchangeFillsOrder(o)
    \/ \E o \in legs : LegFills(o)
    \/ \E symbol \in Symbols : CancelAll(symbol) \/ CancelAllTrades(symbol)
    \/ CancelRaises
    \/ \E id \in Ids : CancelOrder(id)

OrdersSpec == OrdersInit /\ [][OrdersNext]_ordersVars
-----------------------------------------------------------------------------
OrderRecord == [no : 1..MaxSends, id : Ids, bracket : BOOLEAN]

OrdersTypeOK ==
    /\ rail \in Rails /\ linked \in BOOLEAN
    /\ \A c \in Callers : calls[c] = NoCall \/
          calls[c] \in [pc : {"sent", "taken", "refused"}, id : Ids, no : 1..MaxSends]
    /\ recent \in [Ids -> {"none", "PENDING", "REJECTED"}]
    /\ tracked \in [Ids -> 0..MaxSends] /\ sends \in 0..MaxSends
    /\ air \subseteq OrderRecord /\ book \subseteq OrderRecord /\ legs \subseteq OrderRecord
    /\ sweep \subseteq Ids /\ lost \subseteq 1..MaxSends /\ overlapped \subseteq Ids
    /\ born \in 0..sends /\ restarts \in 0..MaxRestarts

(***************************************************************************)
(* What cancel_all, called for the adapter's own symbol, can cancel and    *)
(* what it cannot (topstepx_client.py 298-357, 381-393; ib_client.py 139,  *)
(* 195, 223-230).  An order of the bots that rests at the exchange is in   *)
(* the table of its id.  Exactly these are not: the stop and the target of *)
(* a filled bracket, recorded nowhere; the orders of an earlier process;   *)
(* and of this one, an order whose place_order has not returned, or        *)
(* raised, or whose id was placed twice at the same time.                  *)
(***************************************************************************)
InTable(o) == o \in book /\ tracked[o.id] = o.no

OnlyLostAnswersAreOutOfReach ==
    \A o \in book \cup legs :
        \/ InTable(o)
        \/ o \in legs \/ o.no <= born
        \/ o.no \in lost \/ o.id \in overlapped
        \/ \E c \in Callers : calls[c].no = o.no

(***************************************************************************)
(* "place_order is idempotent on client_order_id" (ports.py 28-30), within *)
(* the life of one process: an id has a second order at the exchange only  *)
(* when the answer to an earlier one was lost, when two calls with that id *)
(* overlapped, or when the earlier one is of an earlier process, whose     *)
(* answers the new one has not (_recent begins empty).  Without any of     *)
(* these, what was answered stays answered, rejections included.           *)
(***************************************************************************)
SecondOrderNeedsALostAnswer ==
    \A i \in Ids \ overlapped :
        /\ \A o, p \in air \cup book :
              o.id = i /\ p.id = i /\ o.no < p.no => o.no \in lost \/ o.no <= born
        /\ recent[i] # "none" =>
             \A o \in air \cup book :
                 o.id = i /\ o.no # tracked[i] => o.no \in lost \/ o.no <= born
=============================================================================
