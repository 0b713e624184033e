---------------------------- MODULE FleetProofs ----------------------------
(***************************************************************************)
(* Theorems about the fleet for every number of bots, every cap and every  *)
(* market lookup: first its orders (Fleet), then its life (FleetLifecycle),*)
(* which share no variable.  The account's cap is about sums over the bots *)
(* of a symbol; what those do is in Facts.                                 *)
(***************************************************************************)
EXTENDS Fleet, FleetLifecycle, Facts

Types ==
    /\ pc \in [Bots -> Phases]
    /\ intent \in [Bots -> Int]
    /\ waiters \in Seq(Bots)
    /\ position \in [Bots -> -BotCap..BotCap]
    /\ pending \in [Bots -> Int]

LEMMA AnswerStep ==
    ASSUME Types, NEW b \in Bots, NEW q \in Int, NEW settled,
           Answer(b, q, settled)
    PROVE  /\ pc' \in [Bots -> Phases] /\ intent' \in [Bots -> Int]
           /\ pending' \in [Bots -> Int]
           /\ \A c \in Bots \ {b} : pc'[c] = pc[c] /\ intent'[c] = intent[c]
                                      /\ pending'[c] = pending[c]
           /\ \/ pc'[b] = "placing" /\ intent'[b] = q /\ pending'[b] = pending[b] + q
              \/ pc'[b] = "idle" /\ intent'[b] = 0 /\ pending'[b] = pending[b]
<1>1. /\ pc \in [Bots -> Phases] /\ intent \in [Bots -> Int]
      /\ pending \in [Bots -> Int]
  BY DEF Types
<1>2. "placing" \in Phases /\ "idle" \in Phases
  BY DEF Phases
<1>4. CASE WithinCap(b, q, settled)
  <2>1. /\ pending' = [pending EXCEPT ![b] = pending[b] + q]
        /\ intent' = [intent EXCEPT ![b] = q]
        /\ pc' = [pc EXCEPT ![b] = "placing"]
    BY <1>4 DEF Answer, Reserved
  <2> QED  BY <1>1, <1>2, <2>1
<1>5. CASE ~WithinCap(b, q, settled)
  <2>1. /\ pending' = pending
        /\ intent' = [intent EXCEPT ![b] = 0]
        /\ pc' = [pc EXCEPT ![b] = "idle"]
    BY <1>5 DEF Answer
  <2> QED  BY <1>1, <1>2, <2>1
<1> QED  BY <1>4, <1>5

(***************************************************************************)
(* A bot's position does not move between its gate's decision and its      *)
(* fill, so the fill is within the cap the gate checked.                   *)
(***************************************************************************)
IntentFitsGate ==
    \A b \in Bots :
        pc[b] \in {"waiting", "lookup", "placing"}
          => -BotCap <= position[b] + intent[b] /\ position[b] + intent[b] <= BotCap

IInv == Types /\ PendingIsInFlight /\ IntentFitsGate /\ LockIsHonest

LEMMA InitInv == Init => IInv
<1> SUFFICES ASSUME Init PROVE IInv
  OBVIOUS
<1>1. "idle" \in Phases /\ 0 \in -BotCap..BotCap /\ <<>> \in Seq(Bots)
  BY FleetAssumption DEF Phases
<1>2. Types
  BY <1>1 DEF Init, Types
<1>3. PendingIsInFlight /\ IntentFitsGate
  BY DEF Init, PendingIsInFlight, IntentFitsGate
<1>4. LockIsHonest
  BY FleetAssumption DEF Init, LockIsHonest
<1> QED  BY <1>2, <1>3, <1>4 DEF IInv

(***************************************************************************)
(* The lock: a bot joins the queue once, at its end, and leaves it from    *)
(* the front when nobody holds the lock.                                   *)
(***************************************************************************)
LEMMA QueueGrows ==
    ASSUME Types, LockIsHonest, NEW b \in Bots, pc[b] = "idle",
           pc' = [pc EXCEPT ![b] = "waiting"],
           waiters' = Append(waiters, b), holder' = holder
    PROVE  LockIsHonest'
<1>1. pc \in [Bots -> Phases] /\ waiters \in Seq(Bots)
  BY DEF Types
<1>2. /\ DOMAIN waiters = 1..Len(waiters) /\ Len(waiters) \in Nat
      /\ DOMAIN waiters' = 1..(Len(waiters) + 1)
      /\ \A k \in 1..Len(waiters) : waiters'[k] = waiters[k]
      /\ waiters'[Len(waiters) + 1] = b
  BY <1>1
<1>3. \A k \in 1..Len(waiters) : waiters[k] # b
  BY <1>2 DEF LockIsHonest
<1>4. \A k \in DOMAIN waiters' : k \in 1..Len(waiters) \/ k = Len(waiters) + 1
  BY <1>2
<1>5. \A c \in Bots : pc'[c] = "lookup" <=> holder' = c
  BY <1>1 DEF LockIsHonest
<1>6. \A c \in Bots :
        pc'[c] = "waiting" <=> \E k \in DOMAIN waiters' : waiters'[k] = c
  <2>1. TAKE c \in Bots
  <2>2. CASE c = b
    BY <1>1, <1>2, <2>2
  <2>3. CASE c # b
    <3>1. pc'[c] = pc[c]
      BY <1>1, <2>3
    <3>2. (\E k \in DOMAIN waiters' : waiters'[k] = c)
            <=> \E k \in 1..Len(waiters) : waiters[k] = c
      BY <1>2, <1>4, <2>3
    <3> QED  BY <1>2, <3>1, <3>2 DEF LockIsHonest
  <2> QED  BY <2>2, <2>3
<1>7. \A j, k \in DOMAIN waiters' : waiters'[j] = waiters'[k] => j = k
  BY <1>2, <1>3, <1>4 DEF LockIsHonest
<1> QED  BY <1>5, <1>6, <1>7 DEF LockIsHonest

LEMMA QueueShrinks ==
    ASSUME Types, LockIsHonest, NEW b \in Bots, Acquire(b)
    PROVE  pc[b] = "waiting" /\ LockIsHonest'
<1>1. pc \in [Bots -> Phases] /\ waiters \in Seq(Bots) /\ NOBODY \notin Bots
  BY FleetAssumption DEF Types
<1>2. /\ holder = NOBODY /\ waiters # <<>> /\ Head(waiters) = b
      /\ holder' = b /\ waiters' = Tail(waiters)
      /\ pc' = [pc EXCEPT ![b] = "lookup"]
  BY DEF Acquire
<1>3. /\ DOMAIN waiters = 1..Len(waiters) /\ Len(waiters) \in Nat \ {0}
      /\ DOMAIN waiters' = 1..(Len(waiters) - 1) /\ waiters[1] = b
      /\ \A k \in 1..(Len(waiters) - 1) : waiters'[k] = waiters[k + 1]
  BY <1>1, <1>2
<1>4. pc[b] = "waiting"
  BY <1>3 DEF LockIsHonest
<1>5. \A c \in Bots : pc'[c] = "lookup" <=> holder' = c
  BY <1>1, <1>2 DEF LockIsHonest
<1>6. \A c \in Bots :
        pc'[c] = "waiting" <=> \E k \in DOMAIN waiters' : waiters'[k] = c
  <2>1. TAKE c \in Bots
  <2>2. CASE c = b
    <3>1. \A k \in 1..(Len(waiters) - 1) : waiters[k + 1] # b
      <4>1. \A k \in 1..(Len(waiters) - 1) :
              k + 1 \in 1..Len(waiters) /\ k + 1 # 1
        BY <1>3
      <4> QED  BY <1>3, <4>1 DEF LockIsHonest
    <3> QED  BY <1>1, <1>2, <1>3, <2>2, <3>1
  <2>3. CASE c # b
    <3>1. pc'[c] = pc[c]
      BY <1>1, <1>2, <2>3
    <3>2. (\E k \in DOMAIN waiters' : waiters'[k] = c)
            => \E k \in 1..Len(waiters) : waiters[k] = c
      BY <1>3
    <3>3. ASSUME NEW k \in 1..Len(waiters), waiters[k] = c
          PROVE  \E i \in DOMAIN waiters' : waiters'[i] = c
      <4>1. k # 1
        BY <1>3, <2>3, <3>3
      <4>2. k - 1 \in 1..(Len(waiters) - 1) /\ (k - 1) + 1 = k
        BY <1>3, <4>1
      <4> QED  BY <1>3, <3>3, <4>2
    <3> QED  BY <1>3, <3>1, <3>2, <3>3 DEF LockIsHonest
  <2> QED  BY <2>2, <2>3
<1>7. \A j, k \in DOMAIN waiters' : waiters'[j] = waiters'[k] => j = k
  <2>1. \A k \in 1..(Len(waiters) - 1) : k + 1 \in 1..Len(waiters)
    BY <1>3
  <2> QED  BY <1>3, <2>1 DEF LockIsHonest
<1> QED  BY <1>4, <1>5, <1>6, <1>7 DEF LockIsHonest

\* A bot's own step outside the lock leaves the lock as it is.
LEMMA QueueStays ==
    ASSUME Types, LockIsHonest, NEW b \in Bots,
           pc[b] \notin {"waiting", "lookup"}, pc'[b] \notin {"waiting", "lookup"},
           \A c \in Bots \ {b} : pc'[c] = pc[c],
           holder' = holder, waiters' = waiters
    PROVE  LockIsHonest'
  BY DEF LockIsHonest

LEMMA LockStep ==
    ASSUME Types, LockIsHonest, Types', NEW b \in Bots,
           \/ \E q \in Qty : Ask(b, q)
           \/ LookupReturns(b) \/ PlaceReturns(b) \/ PlaceRaises(b) \/ Ends(b)
    PROVE  LockIsHonest'
<1>1. pc \in [Bots -> Phases] /\ pc' \in [Bots -> Phases] /\ NOBODY \notin Bots
  BY FleetAssumption DEF Types
<1>2. ASSUME NEW q \in Int, NEW settled, Answer(b, q, settled)
      PROVE  /\ pc'[b] \in {"placing", "idle"}
             /\ \A c \in Bots \ {b} : pc'[c] = pc[c]
  BY <1>2, AnswerStep
<1>3. ASSUME NEW q \in Qty, Ask(b, q), ~lookupSuspends
      PROVE  LockIsHonest'
  <2>1. /\ q \in Int /\ Answer(b, q, Total(b, position))
        /\ pc[b] = "idle" /\ holder' = holder /\ waiters' = waiters
    BY <1>3, FleetAssumption DEF Ask, lockVars
  <2> QED  BY <1>2, <2>1, QueueStays
<1>4. ASSUME NEW q \in Qty, Ask(b, q), lookupSuspends,
             holder = NOBODY /\ waiters = <<>>
      PROVE  LockIsHonest'
  <2>1. /\ pc[b] = "idle" /\ pc' = [pc EXCEPT ![b] = "lookup"]
        /\ holder' = b /\ waiters' = waiters
    BY <1>4 DEF Ask
  <2> QED  BY <1>1, <1>4, <2>1 DEF LockIsHonest
<1>5. ASSUME NEW q \in Qty, Ask(b, q), lookupSuspends,
             ~(holder = NOBODY /\ waiters = <<>>)
      PROVE  LockIsHonest'
  <2>1. /\ pc[b] = "idle" /\ pc' = [pc EXCEPT ![b] = "waiting"]
        /\ holder' = holder /\ waiters' = Append(waiters, b)
    BY <1>5 DEF Ask
  <2> QED  BY <2>1, QueueGrows
<1>6. CASE LookupReturns(b)
  <2>1. /\ pc[b] = "lookup" /\ holder' = NOBODY /\ waiters' = waiters
        /\ Answer(b, intent[b], seen[b]) /\ intent[b] \in Int
    BY <1>6 DEF LookupReturns, Release, Types
  <2>2. pc'[b] \in {"placing", "idle"} /\ \A c \in Bots \ {b} : pc'[c] = pc[c]
    BY <1>2, <2>1
  <2> QED  BY <1>1, <2>1, <2>2 DEF LockIsHonest
<1>7. CASE PlaceReturns(b) \/ PlaceRaises(b) \/ Ends(b)
  <2>1. /\ pc[b] \in {"placing", "idle"} /\ holder' = holder /\ waiters' = waiters
        /\ \E p \in {"idle", "dead", "ended"} : pc' = [pc EXCEPT ![b] = p]
    BY <1>7 DEF PlaceReturns, PlaceRaises, Ends, lockVars
  <2>2. /\ pc'[b] \in {"idle", "dead", "ended"}
        /\ \A c \in Bots \ {b} : pc'[c] = pc[c]
    BY <1>1, <2>1
  <2> QED  BY <2>1, <2>2, QueueStays
<1> QED  BY <1>3, <1>4, <1>5, <1>6, <1>7

LEMMA AskStep ==
    ASSUME IInv, NEW b \in Bots, NEW q \in Qty, Ask(b, q)
    PROVE  IInv'
<1>1. q \in Int /\ BotCap \in Nat
  BY FleetAssumption
<1>2. /\ Types /\ pc \in [Bots -> Phases] /\ intent \in [Bots -> Int]
      /\ pending \in [Bots -> Int]
      /\ position \in [Bots -> -BotCap..BotCap] /\ waiters \in Seq(Bots)
  BY DEF IInv, Types
<1>3. /\ pc[b] = "idle" /\ position' = position
      /\ lookupSuspends' = lookupSuspends
      /\ -BotCap <= position[b] + q /\ position[b] + q <= BotCap
  <2>1. Abs(position[b] + q) <= BotCap
    BY DEF Ask, GateApproves
  <2>2. position[b] + q \in Int
    BY <1>1, <1>2
  <2> QED  BY <1>1, <2>1, <2>2 DEF Ask, Abs
<1>4. pending[b] = 0
  BY <1>3 DEF IInv, PendingIsInFlight
<1>5. CASE ~lookupSuspends
  <2>1. Answer(b, q, Total(b, position)) /\ UNCHANGED lockVars
    BY <1>5 DEF Ask
  <2>2. /\ pc' \in [Bots -> Phases] /\ intent' \in [Bots -> Int]
        /\ pending' \in [Bots -> Int]
        /\ \A c \in Bots \ {b} : pc'[c] = pc[c] /\ intent'[c] = intent[c]
                                   /\ pending'[c] = pending[c]
        /\ \/ pc'[b] = "placing" /\ intent'[b] = q /\ pending'[b] = pending[b] + q
           \/ pc'[b] = "idle" /\ intent'[b] = 0 /\ pending'[b] = pending[b]
    BY <1>1, <1>2, <2>1, AnswerStep
  <2>3. Types'
    BY <1>2, <1>3, <2>1, <2>2 DEF IInv, Types, lockVars
  <2>4. PendingIsInFlight'
    BY <1>1, <1>4, <2>2 DEF IInv, PendingIsInFlight
  <2>5. IntentFitsGate'
    BY <1>3, <2>2 DEF IInv, IntentFitsGate
  <2>6. LockIsHonest'
    BY <2>3, LockStep DEF IInv
  <2> QED  BY <2>3, <2>4, <2>5, <2>6 DEF IInv
<1>6. CASE lookupSuspends
  <2>1. intent' = [intent EXCEPT ![b] = q] /\ pending' = pending
    BY <1>6 DEF Ask
  <2>2. PICK place \in {"lookup", "waiting"} : pc' = [pc EXCEPT ![b] = place]
    BY <1>6 DEF Ask
  <2>3. place \in Phases
    BY DEF Phases
  <2>4. waiters' \in Seq(Bots)
    <3>1. waiters' = waiters \/ waiters' = Append(waiters, b)
      BY <1>6 DEF Ask
    <3>2. waiters \in Seq(Bots) /\ Append(waiters, b) \in Seq(Bots)
      BY <1>2
    <3> QED  BY <3>1, <3>2
  <2> QED
    <3>1. pc' \in [Bots -> Phases] /\ intent' \in [Bots -> Int]
      BY <1>1, <1>2, <2>1, <2>2, <2>3
    <3>2. PendingIsInFlight'
      BY <1>2, <1>3, <2>1, <2>2 DEF IInv, PendingIsInFlight
    <3>3. IntentFitsGate'
      BY <1>2, <1>3, <2>1, <2>2 DEF IInv, IntentFitsGate
    <3>4. Types'
      BY <1>2, <1>3, <2>1, <2>4, <3>1 DEF Types
    <3>5. LockIsHonest'
      BY <3>4, LockStep DEF IInv
    <3> QED  BY <3>2, <3>3, <3>4, <3>5 DEF IInv
<1> QED  BY <1>5, <1>6

LEMMA LookupReturnsStep ==
    ASSUME IInv, NEW b \in Bots, LookupReturns(b)
    PROVE  IInv'
<1>1. /\ Types /\ intent[b] \in Int
  BY DEF IInv, Types
<1>2. /\ pc[b] = "lookup" /\ position' = position /\ waiters' = waiters
      /\ Answer(b, intent[b], seen[b])
  BY DEF LookupReturns
<1>3. /\ pc' \in [Bots -> Phases] /\ intent' \in [Bots -> Int]
      /\ pending' \in [Bots -> Int]
      /\ \A c \in Bots \ {b} : pc'[c] = pc[c] /\ intent'[c] = intent[c]
                                 /\ pending'[c] = pending[c]
      /\ \/ /\ pc'[b] = "placing" /\ intent'[b] = intent[b]
            /\ pending'[b] = pending[b] + intent[b]
         \/ pc'[b] = "idle" /\ intent'[b] = 0 /\ pending'[b] = pending[b]
  BY <1>1, <1>2, AnswerStep
<1>4. pending[b] = 0
  BY <1>2 DEF IInv, PendingIsInFlight
<1>5. Types'
  BY <1>1, <1>2, <1>3 DEF Types
<1>6. PendingIsInFlight'
  BY <1>1, <1>3, <1>4 DEF IInv, PendingIsInFlight
<1>7. IntentFitsGate'
  BY <1>2, <1>3 DEF IInv, IntentFitsGate
<1>8. LockIsHonest'
  BY <1>5, LockStep DEF IInv
<1> QED  BY <1>5, <1>6, <1>7, <1>8 DEF IInv

LEMMA PlaceReturnsStep ==
    ASSUME IInv, NEW b \in Bots, PlaceReturns(b)
    PROVE  IInv'
<1>1. /\ pc \in [Bots -> Phases] /\ intent \in [Bots -> Int]
      /\ pending \in [Bots -> Int] /\ waiters \in Seq(Bots)
      /\ position \in [Bots -> -BotCap..BotCap] /\ BotCap \in Nat
  BY FleetAssumption DEF IInv, Types
<1>2. /\ pc[b] = "placing" /\ waiters' = waiters
      /\ position' = [position EXCEPT ![b] = @ + intent[b]]
      /\ pending' = [pending EXCEPT ![b] = @ - intent[b]]
      /\ intent' = [intent EXCEPT ![b] = 0]
      /\ pc' = [pc EXCEPT ![b] = "idle"]
  BY DEF PlaceReturns, Settled, lockVars
<1>3. pending[b] = intent[b]
  BY <1>2 DEF IInv, PendingIsInFlight
<1>4. position[b] + intent[b] \in -BotCap..BotCap
  BY <1>1, <1>2 DEF IInv, IntentFitsGate
<1>5. Types'
  BY <1>1, <1>2, <1>4 DEF Types, Phases
<1>6. PendingIsInFlight'
  BY <1>1, <1>2, <1>3 DEF IInv, PendingIsInFlight
<1>7. IntentFitsGate'
  BY <1>1, <1>2 DEF IInv, IntentFitsGate
<1>8. LockIsHonest'
  BY <1>5, LockStep DEF IInv
<1> QED  BY <1>5, <1>6, <1>7, <1>8 DEF IInv

\* The steps that move neither a quantity nor a position.
LEMMA OtherStep ==
    ASSUME IInv, NEW b \in Bots, Acquire(b) \/ PlaceRaises(b) \/ Ends(b)
    PROVE  IInv'
<1>1. Types /\ PendingIsInFlight /\ IntentFitsGate /\ LockIsHonest
  BY DEF IInv
<1>2. CASE Acquire(b)
  <2>1. /\ pc' = [pc EXCEPT ![b] = "lookup"] /\ waiters' = Tail(waiters)
        /\ waiters # <<>> /\ UNCHANGED <<intent, position, pending>>
    BY <1>2 DEF Acquire
  <2>2. pc[b] = "waiting" /\ LockIsHonest'
    BY <1>1, <1>2, QueueShrinks
  <2>3. Types'
    BY <1>1, <2>1 DEF Types, Phases
  <2>4. PendingIsInFlight' /\ IntentFitsGate'
    BY <1>1, <2>1, <2>2 DEF Types, PendingIsInFlight, IntentFitsGate
  <2> QED  BY <2>2, <2>3, <2>4 DEF IInv
<1>3. CASE PlaceRaises(b) \/ Ends(b)
  <2>1. /\ UNCHANGED <<intent, position, pending, waiters>>
        /\ \/ pc[b] = "placing" /\ pc' = [pc EXCEPT ![b] = "dead"]
           \/ pc[b] = "idle" /\ pc' = [pc EXCEPT ![b] = "ended"]
    BY <1>3 DEF PlaceRaises, Ends, lockVars
  <2>2. Types'
    BY <1>1, <2>1 DEF Types, Phases
  <2>3. PendingIsInFlight' /\ IntentFitsGate'
    BY <1>1, <2>1 DEF Types, PendingIsInFlight, IntentFitsGate
  <2>4. LockIsHonest'
    BY <1>1, <1>3, <2>2, LockStep
  <2> QED  BY <2>2, <2>3, <2>4 DEF IInv
<1> QED  BY <1>2, <1>3

LEMMA Step == IInv /\ [Next]_vars => IInv'
<1> SUFFICES ASSUME IInv, [Next]_vars PROVE IInv'
  OBVIOUS
<1>1. CASE UNCHANGED vars
  BY <1>1 DEF vars, IInv, Types, PendingIsInFlight, IntentFitsGate, LockIsHonest
<1>2. CASE Next
  <2>1. PICK b \in Bots : \/ \E q \in Qty : Ask(b, q)
                          \/ Acquire(b) \/ LookupReturns(b) \/ PlaceReturns(b)
                          \/ PlaceRaises(b) \/ Ends(b)
    BY <1>2 DEF Next
  <2> QED
    BY <2>1, AskStep, LookupReturnsStep, PlaceReturnsStep, OtherStep
<1> QED  BY <1>1, <1>2

(***************************************************************************)
(* The three facts that hold for every fleet: a slot is an order in        *)
(* flight, the lock and its queue say what the bots are doing, and no      *)
(* approved quantity outgrows the cap of its own bot's gate while it       *)
(* waits for the account.                                                  *)
(***************************************************************************)
LEMMA Inductive == Spec => []IInv
<1>1. Init => IInv
  BY InitInv
<1>2. IInv /\ [Next]_vars => IInv'
  BY Step
<1> QED  BY <1>1, <1>2, PTL DEF Spec

\* A slot is taken exactly while its order is in flight (settle_intent).
THEOREM PendingIsRight == Spec => []PendingIsInFlight
<1>1. IInv => PendingIsInFlight
  BY DEF IInv
<1> QED  BY <1>1, Inductive, PTL

\* asyncio.Lock's holder and queue agree with where the bots are.
THEOREM LockIsRight == Spec => []LockIsHonest
<1>1. IInv => LockIsHonest
  BY DEF IInv
<1> QED  BY <1>1, Inductive, PTL

\* What a bot asked for still fits its own gate when it is booked.
THEOREM IntentStillFits == Spec => []IntentFitsGate
<1>1. IInv => IntentFitsGate
  BY DEF IInv
<1> QED  BY <1>1, Inductive, PTL

(***************************************************************************)
(* The cap of the account.  What is held and in flight grows only with an  *)
(* approval, which the cap was checked for, and a fill moves a quantity    *)
(* from one of the two sums to the other.                                  *)
(***************************************************************************)
LEMMA TotalIsInt ==
    ASSUME NEW b \in Bots, NEW q \in [Bots -> Int]
    PROVE  Total(b, q) \in Int
<1>1. IsFiniteSet(SharesSymbol(b)) /\ SharesSymbol(b) \subseteq Bots
  BY FS_Subset, FleetAssumption DEF SharesSymbol
<1> QED  BY <1>1, SumIsInt DEF Total

LEMMA TotalMoves ==
    ASSUME NEW b \in Bots, NEW q \in [Bots -> Int],
           NEW c \in SharesSymbol(b), NEW d \in Int,
           NEW r, r[c] = q[c] + d, \A x \in Bots : x # c => r[x] = q[x]
    PROVE  Total(b, r) = Total(b, q) + d
<1> DEFINE A == SharesSymbol(b)
<1>1. IsFiniteSet(A) /\ A \subseteq Bots /\ c \in A
  BY FS_Subset, FleetAssumption DEF SharesSymbol
<1> HIDE DEF A
<1>2. /\ \A x \in A : q[x] \in Int
      /\ \A x \in A : x # c => r[x] = q[x]
  BY <1>1
<1>3. SumFunctionOnSet(r, A) = SumFunctionOnSet(q, A) + d
  BY <1>1, <1>2, SumMoves
<1> QED  BY <1>3 DEF Total, A

LEMMA TotalStays ==
    ASSUME NEW b \in Bots, NEW c \in Bots \ SharesSymbol(b),
           NEW q, NEW r, \A x \in Bots : x # c => r[x] = q[x]
    PROVE  Total(b, r) = Total(b, q)
<1> DEFINE A == SharesSymbol(b)
<1>1. IsFiniteSet(A) /\ A \subseteq Bots /\ c \notin A
  BY FS_Subset, FleetAssumption DEF SharesSymbol
<1> HIDE DEF A
<1>2. \A x \in A : r[x] = q[x]
  BY <1>1
<1>3. SumFunctionOnSet(r, A) = SumFunctionOnSet(q, A)
  BY <1>1, <1>2, SumAgrees
<1> QED  BY <1>3 DEF Total, A

LEMMA OneTotalPerSymbol ==
    ASSUME NEW b \in Bots, NEW c \in SharesSymbol(b)
    PROVE  \A q : Total(c, q) = Total(b, q)
<1>1. SharesSymbol(c) = SharesSymbol(b)
  BY DEF SharesSymbol
<1> QED  BY <1>1 DEF Total

\* With a lookup that does not suspend nobody is ever in the lock.
NobodyWaits == ~lookupSuspends => \A b \in Bots : pc[b] \notin {"waiting", "lookup"}

CapInv == NobodyWaits /\ CommittedWithinCap

LEMMA CapInit == Init => CapInv
<1> SUFFICES ASSUME Init PROVE CapInv
  OBVIOUS
<1>1. NobodyWaits
  BY DEF Init, NobodyWaits
<1>2. ASSUME NEW b \in Bots
      PROVE  Total(b, position) = 0 /\ Total(b, pending) = 0
  <2>1. IsFiniteSet(SharesSymbol(b)) /\ SharesSymbol(b) \subseteq Bots
    BY FS_Subset, FleetAssumption DEF SharesSymbol
  <2>2. \A c \in SharesSymbol(b) : position[c] = 0 /\ pending[c] = 0
    BY <2>1 DEF Init
  <2> QED  BY <2>1, <2>2, SumOfZeros DEF Total
<1>3. CommittedWithinCap
  <2>1. Abs(0 + 0) <= Cap
    BY FleetAssumption DEF Abs
  <2> QED  BY <1>2, <2>1 DEF CommittedWithinCap
<1> QED  BY <1>1, <1>3 DEF CapInv

\* An approval is within the cap for every bot that shares the symbol.
LEMMA ReserveKeepsTheCap ==
    ASSUME Types, CapInv, ~lookupSuspends, ~lookupSuspends',
           NEW b \in Bots, NEW q \in Int, position' = position,
           Answer(b, q, Total(b, position))
    PROVE  CommittedWithinCap'
<1>1. pending \in [Bots -> Int] /\ position \in [Bots -> Int]
  <2>1. position \in [Bots -> -BotCap..BotCap] /\ BotCap \in Nat
    BY FleetAssumption DEF Types
  <2> QED  BY <2>1 DEF Types
<1>2. CASE ~WithinCap(b, q, Total(b, position))
  <2>1. pending' = pending
    BY <1>2 DEF Answer
  <2> QED  BY <2>1 DEF CapInv, CommittedWithinCap, Total, SharesSymbol
<1>3. CASE WithinCap(b, q, Total(b, position))
  <2>1. pending' = [pending EXCEPT ![b] = @ + q]
    BY <1>3 DEF Answer, Reserved
  <2>2. Abs(Total(b, position) + Total(b, pending) + q) <= Cap
    BY <1>3 DEF WithinCap
  <2>3. ASSUME NEW c \in Bots
        PROVE  Abs(Total(c, position) + Total(c, pending')) <= Cap
    <3>1. /\ pending'[b] = pending[b] + q
          /\ \A x \in Bots : x # b => pending'[x] = pending[x]
      BY <1>1, <2>1
    <3>2. Total(c, position) \in Int /\ Total(c, pending) \in Int
      BY <1>1, TotalIsInt
    <3>3. CASE b \in SharesSymbol(c)
      <4>1. Total(b, position) = Total(c, position)
            /\ Total(b, pending) = Total(c, pending)
        BY <3>3, OneTotalPerSymbol
      <4>2. Total(c, pending') = Total(c, pending) + q
        BY <1>1, <3>1, <3>3, TotalMoves
      <4>3. Total(c, position) + Total(c, pending')
              = Total(b, position) + Total(b, pending) + q
        BY <3>2, <4>1, <4>2
      <4> QED  BY <2>2, <4>3
    <3>4. CASE b \notin SharesSymbol(c)
      <4>1. Total(c, pending') = Total(c, pending)
        BY <3>1, <3>4, TotalStays
      <4> QED  BY <4>1 DEF CapInv, CommittedWithinCap
    <3> QED  BY <3>3, <3>4
  <2>4. \A c \in Bots : Total(c, position)' = Total(c, position)
                        /\ Total(c, pending)' = Total(c, pending')
    BY DEF Total, SharesSymbol
  <2> QED  BY <2>3, <2>4 DEF CommittedWithinCap
<1> QED  BY <1>2, <1>3

\* A fill leaves the sum of what is held and in flight as it was.
LEMMA FillKeepsTheCap ==
    ASSUME Types, CapInv, ~lookupSuspends, ~lookupSuspends',
           NEW b \in Bots, PlaceReturns(b)
    PROVE  CommittedWithinCap'
<1>1. pending \in [Bots -> Int] /\ position \in [Bots -> Int] /\ intent[b] \in Int
  <2>1. position \in [Bots -> -BotCap..BotCap] /\ BotCap \in Nat
    BY FleetAssumption DEF Types
  <2> QED  BY <2>1 DEF Types
<1>2. /\ position'[b] = position[b] + intent[b]
      /\ pending'[b] = pending[b] + (-intent[b])
      /\ \A x \in Bots : x # b => position'[x] = position[x]
      /\ \A x \in Bots : x # b => pending'[x] = pending[x]
  BY <1>1 DEF PlaceReturns, Settled
<1>3. ASSUME NEW c \in Bots
      PROVE  Total(c, position') + Total(c, pending')
               = Total(c, position) + Total(c, pending)
  <2>1. Total(c, position) \in Int /\ Total(c, pending) \in Int
    BY <1>1, TotalIsInt
  <2>2. PICK d \in Int : d = -intent[b]
    BY <1>1
  <2>3. pending'[b] = pending[b] + d
    BY <1>2, <2>2
  <2>4. CASE b \in SharesSymbol(c)
    <3>1. Total(c, position') = Total(c, position) + intent[b]
      BY <1>1, <1>2, <2>4, TotalMoves
    <3>2. Total(c, pending') = Total(c, pending) + d
      <4>1. \A x \in Bots : x # b => pending'[x] = pending[x]
        BY <1>2
      <4> QED  BY <1>1, <2>3, <2>4, <4>1, TotalMoves
    <3> QED  BY <1>1, <2>1, <2>2, <3>1, <3>2
  <2>5. CASE b \notin SharesSymbol(c)
    BY <1>2, <2>5, TotalStays
  <2> QED  BY <2>4, <2>5
<1>4. \A c \in Bots : Total(c, position)' = Total(c, position')
                      /\ Total(c, pending)' = Total(c, pending')
  BY DEF Total, SharesSymbol
<1> QED  BY <1>3, <1>4 DEF CapInv, CommittedWithinCap

LEMMA CapStep == IInv /\ CapInv /\ [Next]_vars => CapInv'
<1> SUFFICES ASSUME IInv, CapInv, [Next]_vars PROVE CapInv'
  OBVIOUS
<1>t. /\ Types /\ LockIsHonest /\ pc \in [Bots -> Phases]
  BY DEF IInv, Types
<1>0. CASE UNCHANGED <<lookupSuspends, position, pending, pc>>
  BY <1>0 DEF CapInv, NobodyWaits, CommittedWithinCap, Total, SharesSymbol
<1>1. CASE lookupSuspends /\ lookupSuspends'
  BY <1>1 DEF CapInv, NobodyWaits, CommittedWithinCap
<1>2. ASSUME ~lookupSuspends, NEW b \in Bots, NEW q \in Qty, Ask(b, q)
      PROVE  CapInv'
  <2>1. /\ q \in Int /\ position' = position /\ ~lookupSuspends'
        /\ Answer(b, q, Total(b, position))
    BY <1>2, FleetAssumption DEF Ask
  <2>2. /\ pc'[b] \in {"placing", "idle"}
        /\ \A c \in Bots \ {b} : pc'[c] = pc[c]
    BY <1>t, <2>1, AnswerStep
  <2>3. NobodyWaits'
    BY <1>2, <2>2 DEF CapInv, NobodyWaits
  <2> QED  BY <1>t, <1>2, <2>1, <2>3, ReserveKeepsTheCap DEF CapInv
<1>3. ASSUME ~lookupSuspends, NEW b \in Bots, Acquire(b) \/ LookupReturns(b)
      PROVE  FALSE
  <2>1. Acquire(b) => pc[b] = "waiting"
    BY <1>t, QueueShrinks
  <2> QED  BY <1>3, <2>1 DEF LookupReturns, CapInv, NobodyWaits
<1>4. ASSUME ~lookupSuspends, NEW b \in Bots, PlaceReturns(b)
      PROVE  CapInv'
  <2>1. lookupSuspends' = lookupSuspends /\ pc' = [pc EXCEPT ![b] = "idle"]
    BY <1>4 DEF PlaceReturns
  <2>2. NobodyWaits'
    BY <1>t, <2>1 DEF CapInv, NobodyWaits
  <2> QED  BY <1>t, <1>4, <2>1, <2>2, FillKeepsTheCap DEF CapInv
<1>5. ASSUME ~lookupSuspends, NEW b \in Bots, PlaceRaises(b) \/ Ends(b)
      PROVE  CapInv'
  <2>1. /\ UNCHANGED <<lookupSuspends, position, pending>>
        /\ \E p \in {"dead", "ended"} : pc' = [pc EXCEPT ![b] = p]
    BY <1>5 DEF PlaceRaises, Ends
  <2>2. NobodyWaits'
    BY <1>t, <2>1 DEF CapInv, NobodyWaits
  <2>3. CommittedWithinCap'
    BY <2>1 DEF CapInv, CommittedWithinCap, Total, SharesSymbol
  <2> QED  BY <2>2, <2>3 DEF CapInv
<1>6. lookupSuspends' = lookupSuspends
  BY DEF vars, Next, Ask, Acquire, LookupReturns, PlaceReturns, PlaceRaises, Ends
<1>7. CASE ~lookupSuspends /\ Next
  <2>1. PICK b \in Bots : \/ \E q \in Qty : Ask(b, q)
                          \/ Acquire(b) \/ LookupReturns(b) \/ PlaceReturns(b)
                          \/ PlaceRaises(b) \/ Ends(b)
    BY <1>7 DEF Next
  <2> QED  BY <1>2, <1>3, <1>4, <1>5, <1>7, <2>1
<1>8. lookupSuspends \in BOOLEAN \/ lookupSuspends \/ ~lookupSuspends
  OBVIOUS
<1> QED  BY <1>0, <1>1, <1>6, <1>7 DEF vars

(***************************************************************************)
(* The account's cap holds for any number of bots and symbols, whatever    *)
(* the quantities, as long as approve_intent does not suspend before it    *)
(* reserves (allocator.py 115-127).                                        *)
(***************************************************************************)
THEOREM AccountWithinCap == Spec => []CommittedWithinCap
<1>1. Init => CapInv
  BY CapInit
<1>2. IInv /\ CapInv /\ [Next]_vars => CapInv'
  BY CapStep
<1>3. CapInv => CommittedWithinCap
  BY DEF CapInv
<1> QED  BY <1>1, <1>2, <1>3, Inductive, PTL DEF Spec
-----------------------------------------------------------------------------
(***************************************************************************)
(* FleetLifecycle: JournalsOutliveTheirLoops for any number of bots, by an *)
(* invariant that says how far the bots can be at each stage of run.       *)
(***************************************************************************)
Starting == main \in {"load", "connect", "build"}

Winding == main \in {"dashboard", "close", "disconnect", "over", "exit"}

SomethingLetGo == (\E b \in AllBots : journal[b] = "shut") \/ broker = "closed"

StageOfBots ==
    /\ Starting => ready = 0 /\ \A b \in AllBots : task[b] = "none"
    /\ \A b \in AllBots : b > ready => task[b] = "none"
    /\ main \in {"connect", "build", "journal", "setup"} => ready < fleet

LetGoLate == SomethingLetGo => Winding

WoundUp == Winding /\ ~aborted => \A b \in AllBots : Over(b)

\* A strategy is torn down once, and only by a loop that began.
TornDownOnce ==
    \A b \in AllBots : torn[b] = IF task[b] \in {"tearing", "done"} THEN 1 ELSE 0

LifeInv == LifeTypeOK /\ StageOfBots /\ LetGoLate /\ WoundUp /\ TornDownOnce

\* Initially nothing has begun (LifeInit).
LEMMA LifeInitially == LifeInit => LifeInv
<1> SUFFICES ASSUME LifeInit PROVE LifeInv
    OBVIOUS
<1> USE LifeAssumption DEF LifeInit, AllBots
<1>1. LifeTypeOK
  <2>1. endless \in BOOLEAN /\ aborted \in BOOLEAN
      BY Zenon
  <2> QED
      BY <2>1 DEF LifeTypeOK
<1>2. StageOfBots
    BY DEF StageOfBots, Starting
<1>3. LetGoLate
    BY DEF LetGoLate, SomethingLetGo, Winding
<1>4. WoundUp
    BY DEF WoundUp, Winding
<1>5. TornDownOnce
    BY DEF TornDownOnce
<1> QED
    BY <1>1, <1>2, <1>3, <1>4, <1>5 DEF LifeInv

\* A cancellation, whatever else the step does to main, keeps what is known of
\* the tasks (Task.cancel on every task).
LEMMA CancelKeeps ==
    ASSUME LifeInv, CancelTasks
    PROVE  /\ task' \in [AllBots -> {"none", "created", "running", "tearing", "done", "never"}]
           /\ torn' \in [AllBots -> Nat]
           /\ TornDownOnce'
           /\ \A b \in AllBots : Over(b) => Over(b)'
           /\ \A b \in AllBots : task[b] = "none" => task'[b] = "none"
<1>1. \A b \in AllBots : torn[b] \in Nat /\ torn[b] \in {0, 1}
    BY DEF LifeInv, LifeTypeOK, TornDownOnce
<1>2. torn' \in [AllBots -> Nat]
    BY <1>1 DEF CancelTasks
<1>3. task' \in [AllBots -> {"none", "created", "running", "tearing", "done", "never"}]
    BY DEF CancelTasks, LifeInv, LifeTypeOK
<1>4. TornDownOnce'
    BY DEF CancelTasks, LifeInv, LifeTypeOK, TornDownOnce
<1>5. \A b \in AllBots : Over(b) => Over(b)'
    BY DEF CancelTasks, LifeInv, LifeTypeOK, Over
<1>6. \A b \in AllBots : task[b] = "none" => task'[b] = "none"
    BY DEF CancelTasks, LifeInv, LifeTypeOK
<1> QED
    BY <1>2, <1>3, <1>4, <1>5, <1>6

\* The steps of run_fleet before FleetRuntime.run.
LEMMA StartingKeeps ==
    ASSUME LifeInv, LoadSpecs \/ ConnectFleetBroker \/ Build
    PROVE  LifeInv'
<1> USE LifeAssumption DEF BotsUnchanged, AllBots
<1>1. CASE LoadSpecs
  <2>1. LifeTypeOK'
    <3>1. endless' \in BOOLEAN /\ aborted' \in BOOLEAN
        BY <1>1, Zenon DEF LoadSpecs, LifeInv, LifeTypeOK, StageOfBots
    <3>2. /\ main' \in {"connect", "build", "journal", "over"}
          /\ dashboard' \in {"off", "up", "down", "failed"}
          /\ broker' \in {"off", "on", "closed"}
        BY <1>1 DEF LoadSpecs, LifeInv, LifeTypeOK
    <3>3. fleet' \in 0..MaxBots /\ ready' \in 0..fleet'
        BY <1>1 DEF LoadSpecs, LifeInv, LifeTypeOK, StageOfBots, Starting
    <3>4. UNCHANGED <<task, journal, torn, interrupted>>
        BY <1>1 DEF LoadSpecs
    <3> QED
        BY <3>1, <3>2, <3>3, <3>4 DEF LifeInv, LifeTypeOK
  <2>2. StageOfBots'
      BY <1>1 DEF LoadSpecs, LifeInv, LifeTypeOK, StageOfBots, Starting
  <2>3. LetGoLate'
      BY <1>1 DEF LoadSpecs, LifeInv, LifeTypeOK, StageOfBots, LetGoLate, SomethingLetGo,
                  Winding, Starting
  <2>4. WoundUp'
      BY <1>1 DEF LoadSpecs, LifeInv, LifeTypeOK, StageOfBots, WoundUp, Winding,
                  Starting, Over
  <2>5. TornDownOnce'
      BY <1>1 DEF LoadSpecs, LifeInv, LifeTypeOK, StageOfBots, TornDownOnce
  <2> QED
      BY <2>1, <2>2, <2>3, <2>4, <2>5 DEF LifeInv
<1>2. CASE ConnectFleetBroker
    BY <1>2 DEF ConnectFleetBroker, LifeInv, LifeTypeOK, StageOfBots, Starting, LetGoLate,
                SomethingLetGo, WoundUp, Winding, TornDownOnce, Over
<1>3. CASE Build
  <2>1. LifeTypeOK'
    <3>1. endless' \in BOOLEAN /\ aborted' \in BOOLEAN
        BY <1>3, Zenon DEF Build, LifeInv, LifeTypeOK, StageOfBots
    <3>2. /\ main' \in {"connect", "build", "journal", "over"}
          /\ dashboard' \in {"off", "up", "down", "failed"}
          /\ broker' \in {"off", "on", "closed"}
        BY <1>3 DEF Build, LifeInv, LifeTypeOK
    <3>3. fleet' \in 0..MaxBots /\ ready' \in 0..fleet'
        BY <1>3 DEF Build, LifeInv, LifeTypeOK, StageOfBots
    <3>4. UNCHANGED <<task, journal, torn, interrupted>>
        BY <1>3 DEF Build
    <3> QED
        BY <3>1, <3>2, <3>3, <3>4 DEF LifeInv, LifeTypeOK
  <2>2. StageOfBots'
      BY <1>3 DEF Build, LifeInv, LifeTypeOK, StageOfBots, Starting
  <2>3. LetGoLate'
      BY <1>3 DEF Build, LifeInv, LifeTypeOK, StageOfBots, LetGoLate, SomethingLetGo,
                  Winding, Starting
  <2>4. WoundUp'
      BY <1>3 DEF Build, LifeInv, LifeTypeOK, StageOfBots, WoundUp, Winding,
                  Starting, Over
  <2>5. TornDownOnce'
      BY <1>3 DEF Build, LifeInv, LifeTypeOK, StageOfBots, TornDownOnce
  <2> QED
      BY <2>1, <2>2, <2>3, <2>4, <2>5 DEF LifeInv
<1> QED
    BY <1>1, <1>2, <1>3

\* The steps of the setup of one bot (the loop over self._bots).
LEMMA SetupKeeps ==
    ASSUME LifeInv, OpenBotJournal \/ SetUpBot \/ SetupRaises
    PROVE  LifeInv'
<1> USE LifeAssumption DEF AllBots, NextBot
<1>1. CASE OpenBotJournal
  <2>1. NextBot \in AllBots /\ journal[NextBot] # "shut"
      BY <1>1 DEF OpenBotJournal, LifeInv, LifeTypeOK, StageOfBots, LetGoLate,
                  SomethingLetGo, Winding
  <2>2. /\ journal' \in [AllBots -> {"none", "open", "kept", "shut"}]
        /\ main' \in {"journal", "setup"}
        /\ \A b \in AllBots : journal'[b] = "shut" => journal[b] = "shut"
      BY <1>1, <2>1 DEF OpenBotJournal, LifeInv, LifeTypeOK
  <2> QED
      BY <1>1, <2>2 DEF OpenBotJournal, LifeInv, LifeTypeOK, StageOfBots, Starting,
                        LetGoLate, SomethingLetGo, WoundUp, Winding, TornDownOnce
<1>2. CASE SetUpBot
  <2>1. /\ NextBot \in AllBots /\ ready' \in 0..fleet
        /\ main' \in {"journal", "gather"}
        /\ main' = "journal" => ready' < fleet
        /\ ~SomethingLetGo
        /\ task[NextBot] = "none"
      BY <1>2 DEF SetUpBot, LifeInv, LifeTypeOK, StageOfBots, LetGoLate,
                  SomethingLetGo, Winding
  <2>2. /\ task' \in [AllBots -> {"none", "created", "running", "tearing", "done", "never"}]
        /\ \A b \in AllBots : b > ready' => task'[b] = "none"
        /\ TornDownOnce'
      BY <1>2, <2>1 DEF SetUpBot, LifeInv, LifeTypeOK, StageOfBots, TornDownOnce
  <2> QED
      BY <1>2, <2>1, <2>2 DEF SetUpBot, LifeInv, LifeTypeOK, StageOfBots, Starting,
                        LetGoLate, SomethingLetGo, WoundUp, Winding
<1>3. CASE SetupRaises
    BY <1>3 DEF SetupRaises, LifeInv, LifeTypeOK, StageOfBots, Starting, LetGoLate,
                SomethingLetGo, WoundUp, Winding, TornDownOnce
<1> QED
    BY <1>1, <1>2, <1>3

\* The steps of one bot's task (_run_one).
LEMMA TaskKeeps ==
    ASSUME LifeInv, NEW b \in AllBots, LoopStarts(b) \/ LoopEnds(b) \/ TeardownEnds(b)
    PROVE  LifeInv'
<1> USE LifeAssumption DEF AllBots
<1>1. b <= ready /\ ~Starting /\ ~Over(b)
    BY DEF LoopStarts, LoopEnds, TeardownEnds, LifeInv, StageOfBots, LifeTypeOK, Over
<1>2. ~(Winding /\ ~aborted)
    BY <1>1 DEF LifeInv, WoundUp
<1>3. /\ task' \in [AllBots -> {"none", "created", "running", "tearing", "done", "never"}]
      /\ torn' \in [AllBots -> Nat]
      /\ TornDownOnce'
      /\ \A a \in AllBots : a # b => task'[a] = task[a]
  <2>1. task \in [AllBots -> {"none", "created", "running", "tearing", "done", "never"}]
      BY DEF LifeInv, LifeTypeOK
  <2>2. torn \in [AllBots -> Nat] /\ TornDownOnce
      BY DEF LifeInv, LifeTypeOK
  <2>3. CASE LoopStarts(b) \/ TeardownEnds(b)
      BY <2>1, <2>2, <2>3 DEF LoopStarts, TeardownEnds, TornDownOnce
  <2>4. CASE LoopEnds(b)
    <3>1. torn' = [torn EXCEPT ![b] = torn[b] + 1] /\ torn[b] = 0
        BY <2>2, <2>4 DEF LoopEnds, TornDownOnce
    <3>2. task' = [task EXCEPT ![b] = "tearing"]
        BY <2>4 DEF LoopEnds
    <3> QED
        BY <2>1, <2>2, <3>1, <3>2 DEF TornDownOnce
  <2> QED
      BY <2>3, <2>4
<1>4. UNCHANGED <<main, endless, dashboard, broker, fleet, ready, journal, aborted,
                  interrupted>>
    BY DEF LoopStarts, LoopEnds, TeardownEnds
<1> QED
    BY <1>1, <1>2, <1>3, <1>4 DEF LifeInv, LifeTypeOK, StageOfBots, Starting, LetGoLate,
                                  SomethingLetGo, WoundUp, Winding

\* The end of run: gather and the finally clauses.
LEMMA CleanupKeeps ==
    ASSUME LifeInv,
           \/ Gather \/ StopDashboard \/ DisconnectBroker
           \/ \E b \in AllBots : CloseJournal(b)
    PROVE  LifeInv'
<1> USE LifeAssumption DEF BotsUnchanged
<1>1. CASE Gather
  <2>1. \A b \in AllBots : Over(b)
      BY <1>1 DEF Gather, LifeInv, LifeTypeOK, StageOfBots, Over, AllBots
  <2> QED
      BY <1>1, <2>1 DEF Gather, LifeInv, LifeTypeOK, StageOfBots, Starting, LetGoLate,
                  SomethingLetGo, WoundUp, Winding, TornDownOnce, Over
<1>2. CASE StopDashboard
    BY <1>2 DEF StopDashboard, LifeInv, LifeTypeOK, StageOfBots, Starting, LetGoLate,
                SomethingLetGo, WoundUp, Winding, TornDownOnce, Over
<1>3. CASE DisconnectBroker
    BY <1>3 DEF DisconnectBroker, LifeInv, LifeTypeOK, StageOfBots, Starting, LetGoLate,
                SomethingLetGo, WoundUp, Winding, TornDownOnce, Over
<1>4. ASSUME NEW b \in AllBots, CloseJournal(b)
      PROVE  LifeInv'
    BY <1>4 DEF CloseJournal, LifeInv, LifeTypeOK, StageOfBots, Starting, LetGoLate,
                SomethingLetGo, WoundUp, Winding, TornDownOnce, Over
<1> QED
    BY <1>1, <1>2, <1>3, <1>4

\* What breaks the fleet off from outside.
LEMMA BreakKeeps ==
    ASSUME LifeInv, Interrupt \/ PortTaken \/ CancelRest
    PROVE  LifeInv'
<1>1. CASE Interrupt /\ UNCHANGED <<task, torn>>
  <2>1. LifeTypeOK'
    <3>1. endless' \in BOOLEAN /\ aborted' \in BOOLEAN
        BY <1>1, Zenon DEF Interrupt, LifeInv, LifeTypeOK, StageOfBots
    <3> QED
        BY <1>1, <3>1 DEF Interrupt, LifeInv, LifeTypeOK, StageOfBots
  <2>2. StageOfBots'
      BY <1>1 DEF Interrupt, LifeInv, LifeTypeOK, StageOfBots, Starting
  <2>3. LetGoLate'
      BY <1>1 DEF Interrupt, LifeInv, LifeTypeOK, StageOfBots, LetGoLate, SomethingLetGo,
                  Winding, Starting
  <2>4. WoundUp'
      BY <1>1 DEF Interrupt, LifeInv, LifeTypeOK, StageOfBots, WoundUp, Winding,
                  Starting, Over
  <2>5. TornDownOnce'
      BY <1>1 DEF Interrupt, LifeInv, LifeTypeOK, StageOfBots, TornDownOnce
  <2> QED
      BY <2>1, <2>2, <2>3, <2>4, <2>5 DEF LifeInv
<1>2. CASE Interrupt /\ CancelTasks /\ main' = main /\ aborted' = aborted
    BY <1>2, CancelKeeps
       DEF Interrupt, LifeInv, LifeTypeOK, StageOfBots, Starting, LetGoLate,
           SomethingLetGo, WoundUp, Winding
<1>3. CASE PortTaken
  <2>1. CancelTasks
      BY <1>3 DEF PortTaken
  <2>2. LifeTypeOK'
    <3>1. endless' \in BOOLEAN /\ aborted' \in BOOLEAN
        BY <1>3, Zenon DEF PortTaken, LifeInv, LifeTypeOK
    <3> QED
        BY <1>3, <2>1, <3>1, CancelKeeps DEF PortTaken, LifeInv, LifeTypeOK
  <2>3. StageOfBots'
      BY <1>3, <2>1, CancelKeeps DEF PortTaken, LifeInv, StageOfBots, Starting
  <2>4. LetGoLate'
      BY <1>3 DEF PortTaken, LifeInv, LetGoLate, SomethingLetGo, Winding
  <2>5. WoundUp'
      BY <1>3, <2>1, CancelKeeps DEF PortTaken, LifeInv, WoundUp, Winding
  <2> QED
      BY <2>1, <2>2, <2>3, <2>4, <2>5, CancelKeeps DEF LifeInv
<1>4. CASE CancelRest
    BY <1>4, CancelKeeps
       DEF CancelRest, LifeInv, LifeTypeOK, StageOfBots, Starting, LetGoLate,
           SomethingLetGo, WoundUp, Winding
<1> QED
    BY <1>1, <1>2, <1>3, <1>4 DEF Interrupt

(***************************************************************************)
(* The invariant holds throughout the life of a fleet.                     *)
(***************************************************************************)
THEOREM LifeInvariant == LifeSpec => []LifeInv
<1>1. ASSUME LifeInv, [LifeNext]_lifeVars
      PROVE  LifeInv'
  <2>1. CASE UNCHANGED lifeVars
      BY <1>1, <2>1 DEF lifeVars, LifeInv, LifeTypeOK, StageOfBots, Starting, LetGoLate,
                        SomethingLetGo, WoundUp, Winding, TornDownOnce, Over
  <2>2. CASE LifeNext
      BY <1>1, <2>2, StartingKeeps, SetupKeeps, TaskKeeps, CleanupKeeps, BreakKeeps
         DEF LifeNext
  <2> QED
      BY <1>1, <2>1, <2>2
<1> QED
    BY <1>1, LifeInitially, PTL DEF LifeSpec

(***************************************************************************)
(* Type correctness, for any number of bots.                               *)
(***************************************************************************)
THEOREM LifeTypeCorrect == LifeSpec => []LifeTypeOK
<1>1. LifeInv => LifeTypeOK
    BY DEF LifeInv
<1> QED
    BY <1>1, LifeInvariant, PTL

(***************************************************************************)
(* Unless the setup of a bot was broken off, no journal and no broker is   *)
(* let go while a loop or its teardown runs (FleetRuntime.run, 201-227).   *)
(***************************************************************************)
THEOREM JournalsOutlive == LifeSpec => []JournalsOutliveTheirLoops
<1>1. LifeInv => JournalsOutliveTheirLoops
    BY DEF LifeInv, LetGoLate, SomethingLetGo, WoundUp, JournalsOutliveTheirLoops
<1> QED
    BY <1>1, LifeInvariant, PTL

(***************************************************************************)
(* No strategy is torn down twice, and none whose loop never began         *)
(* (_run_one, 229-253), whatever is cancelled when.                        *)
(***************************************************************************)
THEOREM TornDownAtMostOnce == LifeSpec => []TornDownOnce
<1>1. LifeInv => TornDownOnce
    BY DEF LifeInv
<1> QED
    BY <1>1, LifeInvariant, PTL
=============================================================================
