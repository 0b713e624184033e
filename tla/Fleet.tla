------------------------------- MODULE Fleet -------------------------------
(***************************************************************************)
(* The bots of a fleet share one account.  FleetAllocator                  *)
(* (runtime/fleet/allocator.py) is asked after a bot's own gate and before *)
(* the order goes out; FleetRuntime (runtime/fleet/runtime.py) runs one    *)
(* live loop per bot as a task of one event loop.                          *)
(*                                                                         *)
(* A step runs from one suspension to the next.  The bot reads every       *)
(* tracker's position when it CALLS approve_intent; the lock is taken      *)
(* after that, and can be waited for only if the market lookup suspends    *)
(* while a bot holds it.  The deployed lookup, get_market, never does; the *)
(* tests inject one that does.  The approved order is sent without another *)
(* suspension, and its fill is booked and its slot settled without one     *)
(* between them.                                                           *)
(***************************************************************************)
EXTENDS Integers, Sequences, FiniteSets, Functions

CONSTANTS
    Bots,
    SymbolOf,   \* the symbol of each bot, a function
    Qty,        \* the signed quantities a gate lets through
    BotCap,     \* the gate's own cap (max_position)
    Cap,        \* _cap_for: the account's cap in contracts
    NOBODY

ASSUME FleetAssumption ==
    /\ IsFiniteSet(Bots) /\ NOBODY \notin Bots
    /\ DOMAIN SymbolOf = Bots
    /\ Qty \subseteq Int \ {0} /\ BotCap \in Nat /\ Cap \in Nat

VARIABLES
    lookupSuspends,  \* the market lookup is a coroutine; fixed
    pc,              \* where each bot's loop is
    intent,          \* the quantity asked for or in flight
    seen,            \* the fleet's position on the symbol as the bot passed it
    holder, waiters, \* _lock: its holder, and the bots waiting in turn
    position,        \* each bot's tracker
    pending          \* _pending

vars == <<lookupSuspends, pc, intent, seen, holder, waiters, position, pending>>
lockVars == <<holder, waiters>>

Abs(n) == IF n < 0 THEN -n ELSE n

SharesSymbol(b) == {c \in Bots : SymbolOf[c] = SymbolOf[b]}

Total(b, quantities) == SumFunctionOnSet(quantities, SharesSymbol(b))

Init ==
    /\ lookupSuspends \in BOOLEAN
    /\ pc = [b \in Bots |-> "idle"]
    /\ intent = [b \in Bots |-> 0]
    /\ position = [b \in Bots |-> 0]
    /\ seen = [b \in Bots |-> 0]
    /\ holder = NOBODY
    /\ waiters = <<>>
    /\ pending = [b \in Bots |-> 0]

WithinCapWithoutPending(b, q, settled) == Abs(settled + q) <= Cap

WithinCap(b, q, settled) == Abs(settled + Total(b, pending) + q) <= Cap

Reserved(b, q) == pending' = [pending EXCEPT ![b] = @ + q]

(***************************************************************************)
(* The rest of approve_intent once the lock is held and the market known.  *)
(***************************************************************************)
Answer(b, q, settled) ==
    /\ seen' = [seen EXCEPT ![b] = 0]
    /\ IF WithinCap(b, q, settled)
       THEN /\ Reserved(b, q)
            /\ intent' = [intent EXCEPT ![b] = q]
            /\ pc' = [pc EXCEPT ![b] = "placing"]
       ELSE /\ intent' = [intent EXCEPT ![b] = 0]
            /\ pc' = [pc EXCEPT ![b] = "idle"]
            /\ UNCHANGED pending

GateApprovesFromPosition(b, q) == Abs(position[b]) <= BotCap

\* All that is left of the bot's own gate here: its position cap.
GateApproves(b, q) == Abs(position[b] + q) <= BotCap

\* The loop asks the allocator about an intent its gate approved.
Ask(b, q) ==
    /\ pc[b] = "idle"
    /\ GateApproves(b, q)
    /\ \/ /\ ~lookupSuspends
          /\ Answer(b, q, Total(b, position))
          /\ UNCHANGED lockVars
       \/ /\ lookupSuspends
          /\ intent' = [intent EXCEPT ![b] = q]
          /\ seen' = [seen EXCEPT ![b] = Total(b, position)]
          /\ IF holder = NOBODY /\ waiters = <<>>
             THEN /\ holder' = b
                  /\ pc' = [pc EXCEPT ![b] = "lookup"]
                  /\ UNCHANGED waiters
             ELSE /\ waiters' = Append(waiters, b)
                  /\ pc' = [pc EXCEPT ![b] = "waiting"]
                  /\ UNCHANGED holder
          /\ UNCHANGED pending
    /\ UNCHANGED <<lookupSuspends, position>>

\* The first waiter of a released lock gets to run.
Acquire(b) ==
    /\ holder = NOBODY /\ waiters # <<>> /\ Head(waiters) = b
    /\ holder' = b
    /\ waiters' = Tail(waiters)
    /\ pc' = [pc EXCEPT ![b] = "lookup"]
    /\ UNCHANGED <<lookupSuspends, intent, seen, position, pending>>

ReleaseOnlyIfReserved == holder' = IF pending' # pending THEN NOBODY ELSE holder

Release == holder' = NOBODY

LookupReturns(b) ==
    /\ pc[b] = "lookup"
    /\ Answer(b, intent[b], seen[b])
    /\ Release
    /\ UNCHANGED <<lookupSuspends, waiters, position>>

SettledNotAtAll(b) == UNCHANGED pending

\* settle_intent, which is release_intent
Settled(b) == pending' = [pending EXCEPT ![b] = @ - intent[b]]

\* place_order returned, accepted or rejected: the loop books a fill either
\* way, and settles the slot.
PlaceReturns(b) ==
    /\ pc[b] = "placing"
    /\ position' = [position EXCEPT ![b] = @ + intent[b]]
    /\ Settled(b)
    /\ intent' = [intent EXCEPT ![b] = 0]
    /\ pc' = [pc EXCEPT ![b] = "idle"]
    /\ UNCHANGED <<lookupSuspends, seen, lockVars>>

\* place_order raised: the bot's task ends, and nobody releases the slot.
PlaceRaises(b) ==
    /\ pc[b] = "placing"
    /\ pc' = [pc EXCEPT ![b] = "dead"]
    /\ UNCHANGED <<lookupSuspends, intent, seen, lockVars, position, pending>>

\* The bot's bars end, it is stopped, or its journal raises.
Ends(b) ==
    /\ pc[b] = "idle"
    /\ pc' = [pc EXCEPT ![b] = "ended"]
    /\ UNCHANGED <<lookupSuspends, intent, seen, lockVars, position, pending>>

Next ==
    \E b \in Bots :
        \/ \E q \in Qty : Ask(b, q)
        \/ Acquire(b)
        \/ LookupReturns(b)
        \/ PlaceReturns(b)
        \/ PlaceRaises(b)
        \/ Ends(b)

Spec == Init /\ [][Next]_vars

\* The event loop runs a ready task in the end, and a lookup returns.
FairSpec ==
    Spec /\ \A b \in Bots : WF_vars(Acquire(b)) /\ WF_vars(LookupReturns(b))

-----------------------------------------------------------------------------

Phases == {"idle", "waiting", "lookup", "placing", "dead", "ended"}

TypeOK ==
    /\ lookupSuspends \in BOOLEAN
    /\ pc \in [Bots -> Phases]
    /\ intent \in [Bots -> Int]
    /\ seen \in [Bots -> Int]
    /\ holder \in Bots \cup {NOBODY}
    /\ waiters \in Seq(Bots)
    /\ position \in [Bots -> -BotCap..BotCap]
    /\ pending \in [Bots -> Int]

(***************************************************************************)
(* What the bots of a symbol hold and what they have in flight stays       *)
(* within the account's cap, however their tasks interleave, as long as    *)
(* the market lookup does not suspend (approve_intent).  A lookup that     *)
(* suspends leaves a waiter with positions from before a settlement.       *)
(***************************************************************************)
CommittedWithinCap ==
    ~lookupSuspends =>
        \A b \in Bots : Abs(Total(b, position) + Total(b, pending)) <= Cap

(***************************************************************************)
(* A slot is taken exactly while its order is in flight: nothing is        *)
(* counted twice or leaked, but for the order whose place_order raised,    *)
(* which holds its slot for good (release_intent has no caller).           *)
(***************************************************************************)
PendingIsInFlight ==
    \A b \in Bots :
        pending[b] = IF pc[b] \in {"placing", "dead"} THEN intent[b] ELSE 0

(***************************************************************************)
(* Exactly the bot in the lookup holds the lock, and the waiters are the   *)
(* bots waiting for it, each once.                                         *)
(***************************************************************************)
LockIsHonest ==
    /\ \A b \in Bots : pc[b] = "lookup" <=> holder = b
    /\ \A b \in Bots : pc[b] = "waiting" <=> \E k \in DOMAIN waiters : waiters[k] = b
    /\ \A j, k \in DOMAIN waiters : waiters[j] = waiters[k] => j = k

(***************************************************************************)
(* Every intent put to the allocator is answered: a denial releases the    *)
(* lock as an approval does.                                               *)
(***************************************************************************)
EveryIntentIsAnswered ==
    \A b \in Bots : pc[b] \in {"waiting", "lookup"} ~> pc[b] \in {"placing", "idle"}

(***************************************************************************)
(* "The allocator enforces the COMBINED account-level cap" (allocator.py): *)
(* the fleet's booked position stays within it, with the deployed lookup.  *)
(***************************************************************************)
BookedWithinCap ==
    ~lookupSuspends => \A b \in Bots : Abs(Total(b, position)) <= Cap
=============================================================================
