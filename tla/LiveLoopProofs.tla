--------------------------- MODULE LiveLoopProofs ---------------------------
(***************************************************************************)
(* Theorems about LiveLoop, for any number of dashboards, any quantities,  *)
(* any cap and every combination of the broker's and allocator's flags.    *)
(***************************************************************************)
EXTENDS LiveLoop, TLAPS

\* The three fields of the gate, also for a value in the middle of a step.
GateOK(g) ==
    /\ g \in GateType
    /\ g.flattening => g.reason # NONE \/ g.disabled
    /\ g.reason # NONE => g.flattening
    /\ g.disabled => g.flattening /\ g.reason = NONE

\* Nobody is inside a flatten that was not requested.
LatchInv ==
    /\ GateOK(gate)
    /\ \A c \in Callers : ff[c] # Idle => gate.flattening

\* An order can still become late only while it waits for the allocator or
\* the exchange, and there is one such order at a time.
LateInv ==
    /\ late <= 1
    /\ ~gate.disabled => late = 0
    /\ inflight.st = "sent" => pc \in {"place", "raised"}
    /\ late = 1 => pc # "alloc" /\ inflight.st # "sent"
    /\ pc = "alloc" => todo # <<>>

BarsInv == MaxBars # 0 /\ pc \notin Ended => bars < MaxBars

IInv == TypeOK /\ LatchInv /\ LateInv /\ BarsInv
-----------------------------------------------------------------------------
LEMMA SendOrderEffect ==
    ASSUME TypeOK, NEW q \in Qty, SendOrder(q)
    PROVE  /\ pc' \in {"place", "journal"}
           /\ sent' \in Nat /\ tpos' \in Int /\ known' \subseteq Nat
           /\ inflight' \in OrderType
           /\ inflight' = inflight \/ (inflight'.st = "sent" /\ pc' = "place")
  <1>1. q \in Int /\ sent + 1 \in Nat /\ tpos + q \in Int
    BY QtyAssumption DEF TypeOK
  <1>2. CASE Live
    <2>1. inflight' = [st |-> "sent", id |-> sent + 1, qty |-> q]
      BY <1>2 DEF SendOrder
    <2>2. inflight' \in OrderType /\ inflight'.st = "sent"
      BY <1>1, <2>1 DEF OrderType
    <2> QED BY <1>1, <1>2, <2>2 DEF TypeOK, SendOrder
  <1>3. CASE ~Live
    BY <1>1, <1>3 DEF TypeOK, SendOrder
  <1> QED BY <1>2, <1>3

\* What one iteration of the for loop may do, and that it sends nothing while
\* the strategy is disabled.
LEMMA NextIntentEffect ==
    ASSUME TypeOK, NEW s \in Seq(Qty), NEW g \in GateType, NEW pos, NEW touch,
           NextIntent(s, g, pos, touch)
    PROVE  /\ pc' \in {"snapshot", "journal", "place", "alloc"}
           /\ todo' \in Seq(Qty) /\ (pc' = "alloc" => todo' # <<>>)
           /\ sent' \in Nat /\ tpos' \in Int /\ known' \subseteq Nat
           /\ inflight' \in OrderType
           /\ inflight' = inflight \/ (inflight'.st = "sent" /\ pc' = "place")
           /\ g.disabled => /\ pc' \in {"snapshot", "journal"}
                            /\ SendNothing
  <1>1. s # <<>> => Head(s) \in Qty /\ Tail(s) \in Seq(Qty)
    OBVIOUS
  <1>2. CASE s = <<>> /\ pc' = "snapshot" /\ todo' = <<>> /\ SendNothing
    BY <1>2 DEF TypeOK, SendNothing
  <1>3. CASE s # <<>> /\ pc' = "journal" /\ todo' = Tail(s) /\ SendNothing
    BY <1>1, <1>3 DEF TypeOK, SendNothing
  <1>4. CASE /\ s # <<>> /\ ~g.disabled
             /\ AllocatorSuspends /\ pc' = "alloc" /\ todo' = s /\ SendNothing
    BY <1>4 DEF TypeOK, SendNothing
  <1>5. CASE /\ s # <<>> /\ ~g.disabled
             /\ todo' = Tail(s) /\ SendOrder(Head(s))
    BY <1>1, <1>5, SendOrderEffect
  <1> QED BY <1>2, <1>3, <1>4, <1>5 DEF NextIntent, Approvable

LEMMA ScheduleEffect ==
    ASSUME NEW g \in GateType, NEW r \in Reasons \ {NONE}
    PROVE  /\ Schedule(g, r) \in GateType
           /\ Schedule(g, r).flattening
           /\ Schedule(g, r).disabled = g.disabled
           /\ g.flattening => Schedule(g, r) = g
           /\ ~g.flattening => Schedule(g, r).reason = r
  BY DEF GateType, Schedule

LEMMA FinallyEffect ==
    ASSUME NEW g \in GateType
    PROVE  /\ Finally(g) \in GateType
           /\ Finally(g).flattening = g.flattening
           /\ Finally(g).disabled
           /\ Finally(g).reason = NONE
  BY DEF GateType, Finally, Reasons

LEMMA BarBodyEffect ==
    ASSUME TypeOK, NEW g, GateOK(g), BarBody(g)
    PROVE  /\ pc' \in {"snapshot", "journal", "place", "alloc"}
           /\ todo' \in Seq(Qty) /\ (pc' = "alloc" => todo' # <<>>)
           /\ spos' \in Int /\ touched' \in BOOLEAN
           /\ sent' \in Nat /\ tpos' \in Int /\ known' \subseteq Nat
           /\ inflight' \in OrderType
           /\ inflight' = inflight \/ (inflight'.st = "sent" /\ pc' = "place")
           /\ g.disabled => /\ pc' \in {"snapshot", "journal"}
                            /\ SendNothing
           /\ GateOK(gate')
           /\ g.flattening => gate' = g
           /\ gate'.disabled = g.disabled
           /\ UNCHANGED <<bars, stop, late, ffailed>>
  <1> DEFINE g2 == IF touched' THEN Schedule(g, "MLL_EQUITY_TOUCH") ELSE g
  <1>1. /\ GateOK(g2) /\ g2.disabled = g.disabled
        /\ g.flattening => g2 = g
    BY ScheduleEffect DEF GateOK, Reasons, NONE
  <1>2. /\ gate' = g2 /\ spos' \in Int /\ touched' \in BOOLEAN
        /\ UNCHANGED <<bars, stop, late, ffailed>>
    BY DEF BarBody, TypeOK
  <1>3. CASE pc' = "snapshot" /\ todo' = <<>> /\ SendNothing
    BY <1>1, <1>2, <1>3 DEF TypeOK, SendNothing
  <1>4. CASE \E n \in 0..MaxIntents : \E s \in [1..n -> Qty] :
                NextIntent(s, g2, tpos, touched')
    <2>1. PICK n \in 0..MaxIntents : \E s \in [1..n -> Qty] :
                NextIntent(s, g2, tpos, touched')
      BY <1>4
    <2>3. PICK s \in [1..n -> Qty] : NextIntent(s, g2, tpos, touched')
      BY <2>1
    <2>2. s \in Seq(Qty)
      BY BoundAssumption
    <2> QED BY <1>1, <1>2, <2>2, <2>3, NextIntentEffect DEF GateOK
  <1> QED BY <1>3, <1>4 DEF BarBody

FFType == [Callers -> [at : {"idle", "cancel", "close"}, ids : SUBSET Nat]]

LEMMA CancelsFromEffect ==
    ASSUME ff \in FFType, NEW c \in Callers, NEW ids \in SUBSET Nat,
           CancelsFrom(c, ids)
    PROVE  /\ ff' \in FFType
           /\ \A d \in Callers \ {c} : ff'[d] = ff[d]
  BY DEF CancelsFrom, FFType

LEMMA FlattenStarts ==
    ASSUME IInv, NEW c \in Callers, NEW g, GateOK(g), g.reason # NONE,
           g.disabled = gate.disabled, gate.flattening => g = gate,
           \/ StartFlatten(c, g)
           \/ FlattenAtOnce(g)
    PROVE  /\ GateOK(gate') /\ gate'.flattening
           /\ ff' \in FFType /\ covered' \subseteq Nat
           /\ ~gate.disabled
           /\ gate' = g \/ gate' = Finally(g)
  <1>1. known \subseteq Nat /\ covered \subseteq Nat /\ ff \in FFType
    BY DEF IInv, TypeOK, FFType
  <1>2. g \in GateType /\ g.flattening /\ ~g.disabled
    BY DEF GateOK
  <1>3. CancelIds \in SUBSET Nat /\ Covered \in SUBSET Nat
    BY <1>1 DEF CancelIds, Covered
  <1>4. CASE StartFlatten(c, g)
    BY <1>2, <1>3, <1>4, <1>1, CancelsFromEffect DEF StartFlatten
  <1>5. CASE FlattenAtOnce(g)
    BY <1>1, <1>2, <1>3, <1>5, FinallyEffect DEF FlattenAtOnce, GateOK
  <1> QED BY <1>4, <1>5

LEMMA FlattenEnds ==
    ASSUME IInv, NEW c \in Callers, ff[c] # Idle
    PROVE  GateOK(Finally(gate)) /\ Finally(gate).flattening
  BY FinallyEffect DEF IInv, LatchInv, GateOK

LEMMA IdleEffect ==
    ASSUME ff \in FFType, NEW c \in Callers, ff' = [ff EXCEPT ![c] = Idle]
    PROVE  ff' \in FFType /\ \A d \in Callers : ff'[d] # Idle => ff[d] # Idle
  BY DEF FFType, Idle

LEMMA FlattenDoneStep ==
    ASSUME IInv, NEW c \in Callers, ff[c] # Idle, FlattenDone(c),
           working' \subseteq [id : Nat, qty : Int],
           legs' \subseteq [id : Nat, qty : Int], bpos' \in Int
    PROVE  IInv'
  <1> DEFINE g == Finally(gate)
  <1>1. GateOK(g) /\ g.flattening /\ g.disabled
    BY FlattenEnds, FinallyEffect DEF IInv, LatchInv, GateOK
  <1>2. ff' \in FFType /\ covered' \subseteq Nat
    BY IdleEffect DEF IInv, TypeOK, FFType, FlattenDone
  <1>3. CASE c = Loop /\ pc = "drain" /\ BarBody(g)
    <2>1. /\ pc' \in {"snapshot", "journal"}
          /\ SendNothing
          /\ todo' \in Seq(Qty) /\ spos' \in Int /\ touched' \in BOOLEAN
          /\ gate' = g
          /\ UNCHANGED <<bars, stop, late, ffailed>>
      BY <1>1, <1>3, BarBodyEffect DEF IInv
    <2>2. TypeOK'
      BY <1>1, <1>2, <2>1 DEF IInv, TypeOK, GateOK, SendNothing, PCs, FFType
    <2>3. LatchInv'
      BY <1>1, <2>1 DEF LatchInv
    <2>4. LateInv'
      BY <1>1, <1>3, <2>1 DEF IInv, LateInv, SendNothing, TypeOK
    <2>5. BarsInv'
      BY <1>3, <2>1 DEF IInv, BarsInv, Ended
    <2> QED BY <2>2, <2>3, <2>4, <2>5 DEF IInv
  <1>4. CASE /\ c # Loop \/ pc = "shutdown"
             /\ gate' = g
             /\ pc' = IF c = Loop THEN "stopped" ELSE pc
             /\ UNCHANGED <<todo, spos, touched, bars, tpos, known, inflight,
                            stop, sent, late, ffailed>>
    <2>1. TypeOK'
      BY <1>1, <1>2, <1>4 DEF IInv, TypeOK, GateOK, PCs, Ended, FFType
    <2>2. LatchInv'
      BY <1>1, <1>4 DEF LatchInv
    <2>3. LateInv'
      BY <1>1, <1>4 DEF IInv, LateInv, TypeOK
    <2>4. BarsInv'
      BY <1>4 DEF IInv, BarsInv, Ended
    <2> QED BY <2>1, <2>2, <2>3, <2>4 DEF IInv
  <1> QED BY <1>3, <1>4 DEF FlattenDone
-----------------------------------------------------------------------------
LEMMA InitIInv == Init => IInv
  <1> SUFFICES ASSUME Init PROVE IInv
    OBVIOUS
  <1> USE DEF Init
  <1>1. gate \in GateType /\ GateOK(gate) /\ ~gate.disabled
    BY DEF GateType, GateOK, Reasons, NONE
  <1>2. NoOrder \in OrderType /\ NoOrder.st = NONE
    BY DEF OrderType, NoOrder
  <1>3. Idle \in [at : {"idle", "cancel", "close"}, ids : SUBSET Nat]
    BY DEF Idle
  <1>7. ff \in [Callers -> [at : {"idle", "cancel", "close"}, ids : SUBSET Nat]]
    BY <1>3
  <1>8. bars = 0 /\ (MaxBars # 0 => bars <= MaxBars)
    BY BoundAssumption
  <1>4. TypeOK
    <2>1. todo \in Seq(Qty) /\ pc \in PCs
      BY DEF PCs
    <2>2. /\ spos \in Int /\ tpos \in Int /\ bpos \in Int
          /\ sent \in Nat /\ late \in Nat /\ bars \in Nat
      OBVIOUS
    <2>3. touched \in BOOLEAN /\ stop \in BOOLEAN /\ ffailed \in BOOLEAN
      OBVIOUS
    <2>4. known \subseteq Nat /\ covered \subseteq Nat
      OBVIOUS
    <2>5. working \subseteq [id : Nat, qty : Int] /\ legs \subseteq [id : Nat, qty : Int]
      OBVIOUS
    <2> HIDE DEF Init
    <2> QED BY <1>1, <1>2, <1>7, <1>8, <2>1, <2>2, <2>3, <2>4,
                 <2>5 DEF TypeOK, Init
  <1>5. LatchInv BY <1>1 DEF LatchInv
  <1>6. LateInv /\ BarsInv
    BY <1>2, BoundAssumption DEF LateInv, BarsInv, NONE
  <1> QED BY <1>4, <1>5, <1>6 DEF IInv

\* Steps that touch neither the gate nor a flatten keep the gate part.
LEMMA SameGate ==
    ASSUME LatchInv, UNCHANGED <<gate, ff>>
    PROVE  LatchInv'
  BY DEF LatchInv, GateOK

LEMMA IInvStep ==
    ASSUME IInv, [Next]_vars
    PROVE  IInv'
  <1> USE DEF IInv
  <1>1. CASE SourceEnds
    <2>1. TypeOK' BY <1>1 DEF SourceEnds, TypeOK, PCs, Ended, gateVars, exchVars
    <2>2. LatchInv' BY <1>1, SameGate DEF SourceEnds, gateVars
    <2>3. LateInv' BY <1>1 DEF SourceEnds, LateInv, gateVars
    <2>4. BarsInv' BY <1>1 DEF SourceEnds, BarsInv, Ended
    <2> QED BY <2>1, <2>2, <2>3, <2>4
  <1>2. CASE ShutdownBar
    <2> DEFINE g == Schedule(gate, "SHUTDOWN")
    <2>1. /\ GateOK(g) /\ g.disabled = gate.disabled
          /\ gate.flattening => g = gate
      BY ScheduleEffect DEF LatchInv, GateOK, Reasons, NONE
    <2>2. /\ gate.disabled \/ ~gate.disabled
          /\ GateOK(gate') /\ (gate.flattening => gate'.flattening)
          /\ gate.disabled => gate' = gate
          /\ ff' \in FFType /\ covered' \subseteq Nat
          /\ ff' # ff => gate'.flattening
          /\ pc' \in {"stopped", "shutdown"}
      <3>1. CASE g.reason = NONE /\ pc' = "stopped"
                 /\ UNCHANGED <<gate, ff, covered>>
        BY <3>1 DEF LatchInv, TypeOK, FFType
      <3>2. CASE /\ g.reason # NONE
                 /\ pc' \in {"stopped", "shutdown"}
                 /\ StartFlatten(Loop, g) \/ FlattenAtOnce(g)
        <4>1. Loop \in Callers BY DEF Callers
        <4> QED BY <2>1, <3>2, <4>1, FlattenStarts
      <3> QED BY <1>2, <3>1, <3>2 DEF ShutdownBar
    <2>3. UNCHANGED <<todo, spos, touched, bars, tpos, known, inflight,
                      exchVars, stop, sent, late, ffailed>> /\ pc = "wait"
      BY <1>2 DEF ShutdownBar
    <2>4. TypeOK'
      BY <2>2, <2>3 DEF TypeOK, PCs, Ended, exchVars, GateOK, FFType
    <2>5. LatchInv'
      BY <2>2, <2>3 DEF LatchInv
    <2>6. LateInv' BY <2>2, <2>3 DEF LateInv, TypeOK
    <2>7. BarsInv' BY <2>2, <2>3 DEF BarsInv, Ended
    <2> QED BY <2>4, <2>5, <2>6, <2>7
  <1>3. CASE Bar
    <2>1. CASE gate.reason = NONE /\ BarBody(gate) /\ UNCHANGED <<ff, covered>>
      <3>1. GateOK(gate) BY DEF LatchInv
      <3>2. /\ pc = "wait" /\ UNCHANGED exchVars
            /\ pc' \in {"snapshot", "journal", "place", "alloc"}
            /\ todo' \in Seq(Qty) /\ (pc' = "alloc" => todo' # <<>>)
            /\ spos' \in Int /\ touched' \in BOOLEAN
            /\ sent' \in Nat /\ tpos' \in Int /\ known' \subseteq Nat
            /\ inflight' \in OrderType
            /\ inflight' = inflight \/ (inflight'.st = "sent" /\ pc' = "place")
            /\ gate.disabled => /\ pc' \in {"snapshot", "journal"}
                                /\ SendNothing
            /\ GateOK(gate')
            /\ gate.flattening => gate' = gate
            /\ gate'.disabled = gate.disabled
            /\ UNCHANGED <<bars, stop, late, ffailed, ff, covered>>
        BY <1>3, <2>1, <3>1, BarBodyEffect DEF Bar
      <3>3. TypeOK'
        BY <3>2 DEF TypeOK, PCs, exchVars, GateOK
      <3>4. LatchInv' BY <3>2 DEF LatchInv
      <3>5. LateInv' BY <3>2 DEF LateInv, SendNothing, TypeOK
      <3>6. BarsInv' BY <3>2 DEF BarsInv, Ended
      <3> QED BY <3>3, <3>4, <3>5, <3>6
    <2>2. CASE /\ gate.reason # NONE
               /\ StartFlatten(Loop, gate)
               /\ pc' = "drain"
               /\ UNCHANGED <<todo, spos, touched, bars, tpos, known,
                              inflight, stop, sent, late, ffailed>>
      <3>1. Loop \in Callers /\ GateOK(gate) BY DEF Callers, LatchInv
      <3>2. /\ GateOK(gate') /\ gate'.flattening
            /\ ff' \in FFType /\ covered' \subseteq Nat /\ ~gate.disabled
        BY <2>2, <3>1, FlattenStarts
      <3>3. TypeOK' BY <1>3, <2>2, <3>2 DEF Bar, TypeOK, PCs, exchVars, GateOK, FFType
      <3>4. LatchInv' BY <3>2 DEF LatchInv
      <3>5. LateInv' BY <1>3, <2>2, <3>2 DEF Bar, LateInv, TypeOK
      <3>6. BarsInv' BY <1>3, <2>2 DEF Bar, BarsInv, Ended
      <3> QED BY <3>3, <3>4, <3>5, <3>6
    <2>3. CASE /\ gate.reason # NONE
               /\ BarBody(Finally(gate))
               /\ covered' = Covered
               /\ UNCHANGED ff
      <3> DEFINE g == Finally(gate)
      <3>1. GateOK(g) /\ g.flattening /\ g.disabled /\ ~gate.disabled
        BY <2>3, FinallyEffect DEF LatchInv, GateOK
      <3>2. /\ pc = "wait" /\ UNCHANGED exchVars
            /\ pc' \in {"snapshot", "journal"} /\ SendNothing
            /\ todo' \in Seq(Qty) /\ spos' \in Int /\ touched' \in BOOLEAN
            /\ gate' = g
            /\ UNCHANGED <<bars, stop, late, ffailed, ff>>
        BY <1>3, <2>3, <3>1, BarBodyEffect DEF Bar
      <3>3. covered' \subseteq Nat BY <2>3 DEF Covered, TypeOK
      <3>4. TypeOK'
        BY <3>1, <3>2, <3>3 DEF TypeOK, PCs, exchVars, GateOK, SendNothing
      <3>5. LatchInv' BY <3>1, <3>2 DEF LatchInv
      <3>6. LateInv' BY <3>1, <3>2 DEF LateInv, SendNothing, TypeOK
      <3>7. BarsInv' BY <3>2 DEF BarsInv, Ended
      <3> QED BY <3>4, <3>5, <3>6, <3>7
    <2> QED BY <1>3, <2>1, <2>2, <2>3 DEF Bar
  <1>4. CASE AllocatorAnswers
    <2>1. /\ todo # <<>> /\ Head(todo) \in Qty /\ Tail(todo) \in Seq(Qty)
      BY <1>4 DEF AllocatorAnswers, LateInv, TypeOK
    <2>2. /\ pc' \in {"place", "journal"}
          /\ sent' \in Nat /\ tpos' \in Int /\ known' \subseteq Nat
          /\ inflight' \in OrderType
          /\ inflight' = inflight \/ (inflight'.st = "sent" /\ pc' = "place")
      <3>1. CASE SendOrder(Head(todo)) BY <2>1, <3>1, SendOrderEffect
      <3>2. CASE pc' = "journal" /\ SendNothing BY <3>2 DEF SendNothing, TypeOK
      <3> QED BY <1>4, <3>1, <3>2 DEF AllocatorAnswers
    <2>3. TypeOK'
      BY <1>4, <2>1, <2>2 DEF AllocatorAnswers, TypeOK, PCs, gateVars, exchVars
    <2>4. LatchInv' BY <1>4, SameGate DEF AllocatorAnswers, gateVars
    <2>5. LateInv'
      BY <1>4, <2>2 DEF AllocatorAnswers, LateInv, gateVars, TypeOK
    <2>6. BarsInv' BY <1>4 DEF AllocatorAnswers, BarsInv, Ended
    <2> QED BY <2>3, <2>4, <2>5, <2>6
  <1>5. CASE PlaceReturns
    <2>1. inflight.qty \in Int /\ inflight.id \in Nat
      BY DEF TypeOK, OrderType
    <2>2. inflight' \in OrderType /\ inflight'.st = NONE
      BY <1>5 DEF PlaceReturns, OrderType, NoOrder
    <2>7. tpos' \in Int
      BY <1>5, <2>1 DEF PlaceReturns, TypeOK
    <2>8. known' \subseteq Nat
      <3>1. known' = known \/ known' = known \cup {inflight.id}
        BY <1>5 DEF PlaceReturns
      <3> QED BY <2>1, <3>1 DEF TypeOK
    <2>3. TypeOK'
      BY <1>5, <2>2, <2>7, <2>8 DEF PlaceReturns, TypeOK, PCs, gateVars, exchVars
    <2>4. LatchInv' BY <1>5, SameGate DEF PlaceReturns, gateVars
    <2>5. LateInv' BY <1>5, <2>2 DEF PlaceReturns, LateInv, gateVars, NONE
    <2>6. BarsInv' BY <1>5 DEF PlaceReturns, BarsInv, Ended
    <2> QED BY <2>3, <2>4, <2>5, <2>6
  <1>6. CASE PlaceRaises
    <2>1. TypeOK' BY <1>6 DEF PlaceRaises, TypeOK, PCs, Ended, gateVars, exchVars
    <2>2. LatchInv' BY <1>6, SameGate DEF PlaceRaises, gateVars
    <2>3. LateInv' BY <1>6 DEF PlaceRaises, LateInv, gateVars
    <2>4. BarsInv' BY <1>6 DEF PlaceRaises, BarsInv, Ended
    <2> QED BY <2>1, <2>2, <2>3, <2>4
  <1>7. CASE Journalled
    <2>1. /\ pc' \in {"snapshot", "journal", "place", "alloc"}
          /\ todo' \in Seq(Qty) /\ (pc' = "alloc" => todo' # <<>>)
          /\ sent' \in Nat /\ tpos' \in Int /\ known' \subseteq Nat
          /\ inflight' \in OrderType
          /\ inflight' = inflight \/ (inflight'.st = "sent" /\ pc' = "place")
          /\ gate.disabled => pc' \in {"snapshot", "journal"} /\ SendNothing
      BY <1>7, NextIntentEffect DEF Journalled, TypeOK
    <2>2. TypeOK'
      BY <1>7, <2>1 DEF Journalled, TypeOK, PCs, gateVars, exchVars
    <2>3. LatchInv' BY <1>7, SameGate DEF Journalled, gateVars
    <2>4. LateInv'
      BY <1>7, <2>1 DEF Journalled, LateInv, gateVars, SendNothing, TypeOK
    <2>5. BarsInv' BY <1>7, <2>1 DEF Journalled, BarsInv, Ended
    <2> QED BY <2>2, <2>3, <2>4, <2>5
  <1>8. CASE SnapshotWritten
    <2>1. TypeOK'
      BY <1>8, BoundAssumption
         DEF SnapshotWritten, TypeOK, BarsInv, PCs, Ended, gateVars, exchVars
    <2>2. LatchInv' BY <1>8, SameGate DEF SnapshotWritten, gateVars
    <2>3. LateInv' BY <1>8 DEF SnapshotWritten, LateInv, gateVars
    <2>4. BarsInv'
      BY <1>8, BoundAssumption DEF SnapshotWritten, BarsInv, Ended, TypeOK
    <2> QED BY <2>1, <2>2, <2>3, <2>4
  <1>9. CASE JournalRaises
    <2>1. TypeOK'
      BY <1>9 DEF JournalRaises, TypeOK, PCs, Ended, gateVars, exchVars
    <2>2. LatchInv' BY <1>9, SameGate DEF JournalRaises, gateVars
    <2>3. LateInv' BY <1>9 DEF JournalRaises, LateInv, gateVars
    <2>4. BarsInv' BY <1>9 DEF JournalRaises, BarsInv, Ended
    <2> QED BY <2>1, <2>2, <2>3, <2>4
  <1>10. ASSUME NEW c \in Callers, CancelOne(c) PROVE IInv'
    <2>1. PICK i \in ff[c].ids :
             /\ working' = {o \in working : o.id # i}
             /\ UNCHANGED legs
             /\ IF ff[c].ids = {i} /\ ~BrokerCanClose
                THEN FlattenDone(c) /\ UNCHANGED bpos
                ELSE /\ CancelsFrom(c, ff[c].ids \ {i})
                     /\ UNCHANGED <<loopVars, tpos, gate, known, inflight,
                                    bpos, stop, sent, late, covered, ffailed>>
      BY <1>10 DEF CancelOne
    <2>2. ff[c] # Idle BY <1>10 DEF CancelOne, Idle
    <2>3. /\ working' \subseteq [id : Nat, qty : Int] /\ bpos \in Int
          /\ legs' \subseteq [id : Nat, qty : Int] /\ legs' = legs
      BY <2>1 DEF TypeOK
    <2>4. CASE FlattenDone(c) /\ UNCHANGED bpos
      BY <2>2, <2>3, <2>4, FlattenDoneStep
    <2>5. CASE /\ CancelsFrom(c, ff[c].ids \ {i})
               /\ UNCHANGED <<loopVars, tpos, gate, known, inflight,
                              bpos, stop, sent, late, covered, ffailed>>
      <3>1. ff \in FFType /\ ff[c].ids \ {i} \in SUBSET Nat
        BY DEF TypeOK, FFType
      <3>2. ff' \in FFType /\ \A d \in Callers \ {c} : ff'[d] = ff[d]
        BY <2>5, <3>1, CancelsFromEffect
      <3>3. TypeOK' BY <2>3, <2>5, <3>2 DEF TypeOK, loopVars, FFType
      <3>4. LatchInv' BY <2>2, <2>5, <3>2 DEF LatchInv, GateOK
      <3>5. LateInv' BY <2>5 DEF LateInv, loopVars
      <3>6. BarsInv' BY <2>5 DEF BarsInv, loopVars
      <3> QED BY <3>3, <3>4, <3>5, <3>6
    <2> QED BY <2>1, <2>4, <2>5
  <1>11. ASSUME NEW c \in Callers, CloseAll(c) PROVE IInv'
    <2>1. ff[c] # Idle BY <1>11 DEF CloseAll, Idle
    <2>2. /\ working' \subseteq [id : Nat, qty : Int] /\ bpos' \in Int
          /\ legs' \subseteq [id : Nat, qty : Int]
      BY <1>11 DEF CloseAll, TypeOK
    <2> QED BY <1>11, <2>1, <2>2, FlattenDoneStep DEF CloseAll
  <1>12. ASSUME NEW c \in Callers, FlattenFails(c) PROVE IInv'
    <2>1. GateOK(gate') /\ gate'.flattening /\ gate'.disabled
      BY <1>12, FlattenEnds, FinallyEffect DEF FlattenFails, LatchInv, GateOK
    <2>2. ff' \in FFType
      BY <1>12, IdleEffect DEF FlattenFails, TypeOK, FFType
    <2>3. TypeOK'
      BY <1>12, <2>1, <2>2
         DEF FlattenFails, TypeOK, PCs, Ended, exchVars, GateOK, FFType
    <2>4. LatchInv' BY <2>1 DEF LatchInv
    <2>5. LateInv' BY <1>12, <2>1 DEF FlattenFails, LateInv, TypeOK
    <2>6. BarsInv' BY <1>12 DEF FlattenFails, BarsInv, Ended
    <2> QED BY <2>3, <2>4, <2>5, <2>6
  <1>13. ASSUME NEW d \in Dash, Kill(d) PROVE IInv'
    <2> DEFINE g == Schedule(gate, "KILL_SWITCH")
    <2>1. /\ GateOK(g) /\ g.disabled = gate.disabled
          /\ gate.flattening => g = gate
      BY ScheduleEffect DEF LatchInv, GateOK, Reasons, NONE
    <2>2. d \in Callers BY DEF Callers
    <2>3. /\ g.reason # NONE
          /\ StartFlatten(d, g) \/ FlattenAtOnce(g)
          /\ UNCHANGED <<loopVars, tpos, known, inflight, exchVars, stop, sent,
                         late, ffailed>>
      BY <1>13 DEF Kill
    <2>4. /\ GateOK(gate') /\ gate'.flattening /\ ~gate.disabled
          /\ ff' \in FFType /\ covered' \subseteq Nat
      BY <2>1, <2>2, <2>3, FlattenStarts
    <2>5. TypeOK'
      BY <2>3, <2>4 DEF TypeOK, loopVars, exchVars, GateOK, FFType
    <2>6. LatchInv' BY <2>4 DEF LatchInv
    <2>7. LateInv' BY <2>3, <2>4 DEF LateInv, loopVars, TypeOK
    <2>8. BarsInv' BY <2>3 DEF BarsInv, loopVars
    <2> QED BY <2>5, <2>6, <2>7, <2>8
  <1>14. CASE ExchangeAccepts
    <2>1. /\ inflight' \in OrderType /\ inflight'.st = "accepted"
          /\ [id |-> inflight.id, qty |-> inflight.qty] \in [id : Nat, qty : Int]
      BY <1>14 DEF ExchangeAccepts, TypeOK, OrderType
    <2>2. TypeOK'
      BY <1>14, <2>1 DEF ExchangeAccepts, TypeOK, loopVars, gateVars
    <2>3. LatchInv' BY <1>14, SameGate DEF ExchangeAccepts, gateVars
    <2>4. LateInv'
      BY <1>14, <2>1 DEF ExchangeAccepts, LateInv, loopVars, gateVars, TypeOK
    <2>5. BarsInv' BY <1>14 DEF ExchangeAccepts, BarsInv, loopVars
    <2> QED BY <2>2, <2>3, <2>4, <2>5
  <1>15. CASE ExchangeRejects
    <2>1. inflight' \in OrderType /\ inflight'.st = "rejected"
      BY <1>15 DEF ExchangeRejects, TypeOK, OrderType
    <2>2. TypeOK'
      BY <1>15, <2>1 DEF ExchangeRejects, TypeOK, loopVars, gateVars, exchVars
    <2>3. LatchInv' BY <1>15, SameGate DEF ExchangeRejects, gateVars
    <2>4. LateInv'
      BY <1>15, <2>1 DEF ExchangeRejects, LateInv, loopVars, gateVars
    <2>5. BarsInv' BY <1>15 DEF ExchangeRejects, BarsInv, loopVars
    <2> QED BY <2>2, <2>3, <2>4, <2>5
  <1>16. CASE ExchangeFills
    <2>1. PICK o \in working :
             /\ working' = working \ {o} /\ bpos' = bpos + o.qty
             /\ \/ legs' = legs \cup {[id |-> o.id, qty |-> -o.qty]}
                \/ legs' = legs
      BY <1>16 DEF ExchangeFills
    <2>2. bpos' \in Int /\ legs' \subseteq [id : Nat, qty : Int]
      <3>1. o \in [id : Nat, qty : Int] BY DEF TypeOK
      <3>2. [id |-> o.id, qty |-> -o.qty] \in [id : Nat, qty : Int] BY <3>1
      <3> QED BY <2>1, <3>1, <3>2 DEF TypeOK
    <2>3. TypeOK'
      BY <1>16, <2>1, <2>2 DEF ExchangeFills, TypeOK, loopVars, gateVars
    <2>4. LatchInv' BY <1>16, SameGate DEF ExchangeFills, gateVars
    <2>5. LateInv' BY <1>16 DEF ExchangeFills, LateInv, loopVars, gateVars
    <2>6. BarsInv' BY <1>16 DEF ExchangeFills, BarsInv, loopVars
    <2> QED BY <2>3, <2>4, <2>5, <2>6
  <1>20. CASE LegFills
    <2>1. PICK l \in legs : legs' = legs \ {l} /\ bpos' = bpos + l.qty
      BY <1>20 DEF LegFills
    <2>2. bpos' \in Int BY <2>1 DEF TypeOK
    <2>3. TypeOK'
      BY <1>20, <2>1, <2>2 DEF LegFills, TypeOK, loopVars, gateVars
    <2>4. LatchInv' BY <1>20, SameGate DEF LegFills, gateVars
    <2>5. LateInv' BY <1>20 DEF LegFills, LateInv, loopVars, gateVars
    <2>6. BarsInv' BY <1>20 DEF LegFills, BarsInv, loopVars
    <2> QED BY <2>3, <2>4, <2>5, <2>6
  <1>17. CASE RequestStop
    <2>1. TypeOK' BY <1>17 DEF RequestStop, TypeOK, loopVars, gateVars, exchVars
    <2>2. LatchInv' BY <1>17, SameGate DEF RequestStop, gateVars
    <2>3. LateInv' BY <1>17 DEF RequestStop, LateInv, loopVars, gateVars
    <2>4. BarsInv' BY <1>17 DEF RequestStop, BarsInv, loopVars
    <2> QED BY <2>1, <2>2, <2>3, <2>4
  <1>18. CASE UNCHANGED vars
    BY <1>18 DEF vars, TypeOK, LatchInv, GateOK, LateInv, BarsInv
  <1>19. CASE Stopped BY <1>18, <1>19 DEF Stopped
  <1> QED
    BY <1>1, <1>2, <1>3, <1>4, <1>5, <1>6, <1>7, <1>8, <1>9, <1>10, <1>11,
       <1>12, <1>13, <1>14, <1>15, <1>16, <1>17, <1>18, <1>19, <1>20
       DEF Next, LoopSteps

LEMMA Invariance == Spec => []IInv
  BY InitIInv, IInvStep, PTL DEF Spec

(***************************************************************************)
(* Every reachable state is well typed.                                    *)
(***************************************************************************)
THEOREM TypeCorrect == Spec => []TypeOK
  BY Invariance, PTL DEF IInv

(***************************************************************************)
(* A latched flatten keeps its pending reason until it has disabled the    *)
(* strategy (gate.py:377-408).                                             *)
(***************************************************************************)
THEOREM NoFlattenIsLost == Spec => []NoLostFlatten
  <1>1. IInv => NoLostFlatten
    BY DEF IInv, LatchInv, GateOK, NoLostFlatten
  <1> QED BY <1>1, Invariance, PTL

(***************************************************************************)
(* However many dashboards and whatever the allocator does, one order at   *)
(* most reaches the book after the disable (gate.py:113-119,               *)
(* live_loop.py:255-277).                                                  *)
(***************************************************************************)
THEOREM OneLateOrder == Spec => []AtMostOneLateOrder
  <1>1. IInv => AtMostOneLateOrder
    BY DEF IInv, LateInv, AtMostOneLateOrder
  <1> QED BY <1>1, Invariance, PTL
-----------------------------------------------------------------------------
(* Implementation of FlattenLatch.  With an allocator that may suspend, the *)
(* order it is asked about can be sent after the disable; without, never.  *)

\* A step sends at most one order, and none while the strategy is disabled.
Sends(g) == \/ UNCHANGED sent
            \/ ~g.disabled /\ sent' = sent + 1

LEMMA NextIntentSends ==
    ASSUME NEW s, NEW g, NEW pos, NEW touch, NextIntent(s, g, pos, touch)
    PROVE  Sends(g)
  BY DEF NextIntent, Approvable, SendNothing, SendOrder, Sends

LEMMA BarBodySends ==
    ASSUME NEW g, GateOK(g), BarBody(g)
    PROVE  Sends(g)
  <1> DEFINE g2 == IF touched' THEN Schedule(g, "MLL_EQUITY_TOUCH") ELSE g
  <1>1. g2.disabled = g.disabled
    BY ScheduleEffect DEF GateOK, Reasons, NONE
  <1>2. CASE SendNothing
    BY <1>2 DEF SendNothing, Sends
  <1>3. CASE \E n \in 0..MaxIntents : \E s \in [1..n -> Qty] :
                NextIntent(s, g2, tpos, touched')
    BY <1>1, <1>3, NextIntentSends DEF Sends
  <1> QED BY <1>2, <1>3 DEF BarBody

\* What any step does to the three gate fields and the order count.
LatchStep ==
    /\ gate.disabled => gate'.disabled
    /\ gate.flattening => gate'.flattening
    /\ \/ UNCHANGED sent
       \/ ~gate.disabled /\ ~gate'.disabled /\ sent' = sent + 1

LEMMA StepKeepsLatch ==
    ASSUME IInv, ~AllocatorSuspends, pc # "alloc", [Next]_vars
    PROVE  LatchStep /\ pc' # "alloc"
  <1> USE DEF IInv
  <1>1. CASE Bar
    <2>1. CASE gate.reason = NONE /\ BarBody(gate)
      BY <2>1, BarBodyEffect, BarBodySends DEF LatchInv, LatchStep, Sends, BarBody, NextIntent, SendOrder
    <2>2. CASE gate.reason # NONE /\ StartFlatten(Loop, gate) /\ pc' = "drain"
               /\ UNCHANGED sent
      BY <2>2 DEF StartFlatten, LatchStep
    <2>3. CASE gate.reason # NONE /\ BarBody(Finally(gate))
      <3> DEFINE g == Finally(gate)
      <3>1. GateOK(g) /\ g.flattening /\ g.disabled
        BY <2>3, FinallyEffect DEF LatchInv, GateOK
      <3> QED BY <2>3, <3>1, BarBodyEffect, BarBodySends DEF LatchStep, Sends
    <2> QED BY <1>1, <2>1, <2>2, <2>3 DEF Bar
  <1>2. ASSUME NEW c \in Callers, ff[c] # Idle, FlattenDone(c)
        PROVE  LatchStep /\ pc' # "alloc"
    <2> DEFINE g == Finally(gate)
    <2>1. GateOK(g) /\ g.flattening /\ g.disabled
      BY <1>2, FlattenEnds, FinallyEffect DEF LatchInv, GateOK
    <2>2. CASE BarBody(g)
      BY <2>1, <2>2, BarBodyEffect, BarBodySends DEF LatchStep, Sends
    <2>3. CASE gate' = g /\ pc' \in {"stopped", pc} /\ UNCHANGED sent
      BY <2>1, <2>3 DEF LatchStep
    <2> QED BY <1>2, <2>2, <2>3 DEF FlattenDone
  <1>3. ASSUME NEW c \in Callers, CancelOne(c) PROVE LatchStep /\ pc' # "alloc"
    <2>1. ff[c] # Idle BY <1>3 DEF CancelOne, Idle
    <2>2. CASE UNCHANGED <<loopVars, gate, sent>>
      BY <2>2 DEF LatchStep, loopVars
    <2> QED BY <1>2, <1>3, <2>1, <2>2 DEF CancelOne
  <1>4. ASSUME NEW c \in Callers, CloseAll(c) PROVE LatchStep /\ pc' # "alloc"
    BY <1>2, <1>4 DEF CloseAll, Idle
  <1>5. ASSUME NEW c \in Callers, FlattenFails(c)
        PROVE  LatchStep /\ pc' # "alloc"
    BY <1>5, FlattenEnds, FinallyEffect
       DEF FlattenFails, LatchStep, LatchInv, GateOK
  <1>6. ASSUME NEW r \in {"SHUTDOWN", "KILL_SWITCH"}, NEW c,
               \/ UNCHANGED gate
               \/ StartFlatten(c, Schedule(gate, r))
               \/ FlattenAtOnce(Schedule(gate, r)),
               UNCHANGED sent
        PROVE  LatchStep
    <2> DEFINE g == Schedule(gate, r)
    <2>1. g \in GateType /\ g.flattening /\ g.disabled = gate.disabled
      BY ScheduleEffect DEF LatchInv, GateOK, Reasons, NONE
    <2>2. CASE UNCHANGED gate BY <1>6, <2>2 DEF LatchStep
    <2>3. CASE StartFlatten(c, g) BY <1>6, <2>1, <2>3 DEF StartFlatten, LatchStep
    <2>4. CASE FlattenAtOnce(g)
      BY <1>6, <2>1, <2>4, FinallyEffect DEF FlattenAtOnce, LatchStep
    <2> QED BY <1>6, <2>2, <2>3, <2>4
  <1>7. ASSUME NEW d \in Dash, Kill(d) PROVE LatchStep /\ pc' # "alloc"
    BY <1>6, <1>7 DEF Kill, loopVars
  <1>8. CASE ShutdownBar
    BY <1>6, <1>8 DEF ShutdownBar
  <1>9. CASE Journalled
    <2>1. Sends(gate) /\ pc' # "alloc"
      BY <1>9, NextIntentSends DEF Journalled, NextIntent, SendOrder
    <2> QED BY <1>9, <2>1 DEF Journalled, gateVars, Sends, LatchStep
  <1>10. CASE \/ SourceEnds \/ PlaceReturns \/ SnapshotWritten
              \/ PlaceRaises \/ JournalRaises \/ ExchangeAccepts
              \/ ExchangeRejects \/ ExchangeFills \/ LegFills \/ RequestStop \/ Stopped
              \/ UNCHANGED vars
    <2>1. UNCHANGED <<gate, sent>> /\ pc' # "alloc"
      BY <1>10 DEF SourceEnds, PlaceReturns, SnapshotWritten, PlaceRaises,
                   JournalRaises, ExchangeAccepts, ExchangeRejects,
                   ExchangeFills, LegFills, RequestStop, Stopped, vars, gateVars,
                   loopVars
    <2> QED BY <2>1 DEF LatchStep
  <1>11. CASE AllocatorAnswers BY <1>11 DEF AllocatorAnswers
  <1> QED
    BY <1>1, <1>3, <1>4, <1>5, <1>7, <1>8, <1>9, <1>10, <1>11
       DEF Next, LoopSteps

(***************************************************************************)
(* Without an allocator that suspends between the gate's approval and the  *)
(* broker call, the bot implements the one-way latch: no order is sent     *)
(* once the strategy is disabled, and it is never enabled again            *)
(* (gate.py:390-392).                                                      *)
(***************************************************************************)
THEOREM ImplementsLatch == ~AllocatorSuspends /\ Spec => LatchSpec
  <1> SUFFICES ASSUME ~AllocatorSuspends PROVE Spec => LatchSpec
    OBVIOUS
  <1> DEFINE NoAlloc == pc # "alloc"
             ph == IF gate.disabled THEN "disabled"
                   ELSE IF gate.flattening THEN "requested" ELSE "armed"
  <1>1. Init => Latch!Init /\ NoAlloc
    BY DEF Init, Latch!Init
  <1>2. IInv /\ NoAlloc /\ [Next]_vars => [Latch!Next]_Latch!vars /\ NoAlloc'
    <2> SUFFICES ASSUME IInv, NoAlloc, [Next]_vars
                 PROVE  [Latch!Next]_Latch!vars /\ NoAlloc'
      OBVIOUS
    <2>1. LatchStep /\ NoAlloc' BY StepKeepsLatch
    <2>2. /\ gate.disabled \in BOOLEAN /\ gate'.disabled \in BOOLEAN
          /\ gate.flattening \in BOOLEAN /\ gate'.flattening \in BOOLEAN
      BY IInvStep DEF IInv, TypeOK, GateType
    <2>3. [Latch!Next]_Latch!vars
      BY <2>1, <2>2
         DEF LatchStep, Latch!Next, Latch!Request, Latch!Send, Latch!Disable,
             Latch!vars
    <2> QED BY <2>1, <2>3
  <1> HIDE DEF NoAlloc
  <1> QED BY <1>1, <1>2, Invariance, PTL DEF Spec, LatchSpec, Latch!Spec
-----------------------------------------------------------------------------
(***************************************************************************)
(* No caller, in the loop or in a dashboard, starts to cancel or close     *)
(* once the strategy is disabled (gate.py:377-393).                        *)
(***************************************************************************)
THEOREM FlattenStartsBeforeDisable == Spec => NoFlattenAfterDisable
  <1> DEFINE Starts == \E c \in Callers : ff[c] = Idle /\ ff'[c] # Idle
  <1>1. IInv /\ [Next]_vars =>
          [\A c \in Callers : ff[c] = Idle /\ ff'[c] # Idle => ~gate.disabled]_vars
    <2> SUFFICES ASSUME IInv, Next, gate.disabled PROVE ~Starts
      OBVIOUS
    <2> USE DEF IInv
    <2>1. /\ gate.reason = NONE
          /\ \A r : Schedule(gate, r) = gate
          /\ ff \in FFType
      BY DEF LatchInv, GateOK, Schedule, TypeOK, FFType
    <2>2. ASSUME NEW c \in Callers, ff[c] # Idle,
                 \/ ff' = [ff EXCEPT ![c] = Idle]
                 \/ \E ids \in SUBSET Nat : CancelsFrom(c, ids)
          PROVE  ~Starts
      <3>1. \A d \in Callers \ {c} : ff'[d] = ff[d]
        BY <2>1, <2>2, CancelsFromEffect DEF FFType
      <3> QED BY <2>2, <3>1
    <2>3. ASSUME NEW c \in Callers, CancelOne(c) PROVE ~Starts
      <3>1. ff[c] # Idle /\ \A i \in ff[c].ids : ff[c].ids \ {i} \in SUBSET Nat
        BY <2>1, <2>3 DEF CancelOne, Idle, FFType
      <3> QED BY <2>2, <2>3, <3>1 DEF CancelOne, FlattenDone
    <2>4. ASSUME NEW c \in Callers, CloseAll(c) \/ FlattenFails(c)
          PROVE  ~Starts
      BY <2>2, <2>4 DEF CloseAll, FlattenFails, FlattenDone, Idle
    <2>5. ASSUME NEW d \in Dash, Kill(d) PROVE FALSE
      BY <2>1, <2>5 DEF Kill
    <2>6. CASE Bar \/ ShutdownBar
      <3>1. UNCHANGED ff BY <2>1, <2>6 DEF Bar, ShutdownBar
      <3> QED BY <3>1
    <2>7. CASE \/ SourceEnds \/ AllocatorAnswers \/ PlaceReturns \/ Journalled
               \/ SnapshotWritten \/ PlaceRaises \/ JournalRaises
               \/ ExchangeAccepts \/ ExchangeRejects \/ ExchangeFills \/ LegFills
               \/ RequestStop \/ Stopped
      <3>1. UNCHANGED ff
        BY <2>7 DEF SourceEnds, AllocatorAnswers, PlaceReturns, Journalled,
                    SnapshotWritten, PlaceRaises, JournalRaises,
                    ExchangeAccepts, ExchangeRejects, ExchangeFills, LegFills,
                    RequestStop, Stopped, vars, gateVars
      <3> QED BY <3>1
    <2> QED BY <2>3, <2>4, <2>5, <2>6, <2>7 DEF Next, LoopSteps
  <1> QED BY <1>1, Invariance, PTL DEF Spec, NoFlattenAfterDisable
-----------------------------------------------------------------------------
(* The orders a flatten covers. *)

\* Order ids: the adapter's are among those handed out, the order in flight
\* is not yet one of them, and the simulator never rests an order.
IdsInv ==
    /\ covered \subseteq known
    /\ \A k \in known : k <= sent
    /\ inflight.st = "sent" => inflight.id \notin known
    /\ inflight.st # NONE => inflight.id <= sent
    /\ ~Live => working = {} /\ inflight.st # "sent"

\* A caller still has to cancel whatever covered order is resting, until the
\* first caller is through.
CoverInv ==
    /\ \A c \in Callers :
          /\ ff[c].at = "idle" => ff[c] = Idle
          /\ ff[c].at = "cancel" => covered \cap WorkingIds \subseteq ff[c].ids
          /\ ff[c].at = "close" => covered \cap WorkingIds = {}
    /\ CoveredOrdersAreGone

\* The adapter or the simulator may register one more order id.
LEMMA SendKeepsIds ==
    ASSUME TypeOK, IdsInv, covered' \subseteq known \/ covered' = covered,
           UNCHANGED working,
           SendNothing \/ \E q \in Qty : SendOrder(q)
    PROVE  IdsInv'
  <1>0. sent \in Nat /\ inflight.id \in Nat /\ \A k \in known : k \in Nat
    BY DEF TypeOK, OrderType
  <1>1. CASE SendNothing
    BY <1>1 DEF SendNothing, IdsInv
  <1>2. CASE Live /\ \E q \in Qty : SendOrder(q)
    <2>1. PICK q \in Qty :
            /\ sent' = sent + 1
            /\ inflight' = [st |-> "sent", id |-> sent + 1, qty |-> q]
            /\ UNCHANGED known
      BY <1>2 DEF SendOrder
    <2>2. inflight'.id = sent + 1 /\ sent + 1 \notin known
      BY <1>0, <2>1 DEF IdsInv
    <2>3. \A k \in known' : k <= sent'
      BY <1>0, <2>1 DEF IdsInv
    <2> QED BY <1>2, <2>1, <2>2, <2>3 DEF IdsInv
  <1>3. CASE ~Live /\ \E q \in Qty : SendOrder(q)
    <2>1. sent' = sent + 1 /\ known' = known \cup {sent + 1}
          /\ UNCHANGED inflight
      BY <1>3 DEF SendOrder
    <2>2. \A k \in known' : k <= sent'
      BY <1>0, <2>1 DEF IdsInv
    <2>3. inflight.st # NONE => inflight.id <= sent'
      BY <1>0, <2>1 DEF IdsInv
    <2> QED BY <1>3, <2>1, <2>2, <2>3 DEF IdsInv
  <1> QED BY <1>1, <1>2, <1>3

LEMMA NextIntentOrders ==
    ASSUME NEW s \in Seq(Qty), NEW g, NEW pos, NEW touch,
           NextIntent(s, g, pos, touch)
    PROVE  SendNothing \/ \E q \in Qty : SendOrder(q)
  <1>1. s # <<>> => Head(s) \in Qty
    OBVIOUS
  <1> QED BY <1>1 DEF NextIntent

LEMMA BarBodyOrders ==
    ASSUME NEW g, BarBody(g)
    PROVE  /\ SendNothing \/ \E q \in Qty : SendOrder(q)
           /\ UNCHANGED ffailed
  <1> DEFINE g2 == IF touched' THEN Schedule(g, "MLL_EQUITY_TOUCH") ELSE g
  <1>1. CASE \E n \in 0..MaxIntents : \E s \in [1..n -> Qty] :
                NextIntent(s, g2, tpos, touched')
    <2>1. PICK n \in 0..MaxIntents : \E s \in [1..n -> Qty] :
                NextIntent(s, g2, tpos, touched')
      BY <1>1
    <2>2. PICK s \in [1..n -> Qty] : NextIntent(s, g2, tpos, touched')
      BY <2>1
    <2>3. s \in Seq(Qty) BY BoundAssumption
    <2> QED BY <2>2, <2>3, NextIntentOrders DEF BarBody
  <1> QED BY <1>1 DEF BarBody

LEMMA FewerResting ==
    ASSUME working' \subseteq working
    PROVE  WorkingIds' \subseteq WorkingIds
  BY DEF WorkingIds

LEMMA CoverSame ==
    ASSUME CoverInv, UNCHANGED <<ff, covered, ffailed>>,
           gate'.disabled = gate.disabled,
           covered \cap WorkingIds' \subseteq covered \cap WorkingIds
    PROVE  CoverInv'
  BY DEF CoverInv, CoveredOrdersAreGone

LEMMA CoverStart ==
    ASSUME IInv, IdsInv, CoverInv, GateKnowsSymbol, UNCHANGED working,
           NEW c \in Callers, NEW g, ~g.disabled,
           \/ Suspends /\ StartFlatten(c, g)
           \/ ~Suspends /\ FlattenAtOnce(g)
    PROVE  CoverInv' /\ covered' \subseteq known
  <1>1. /\ CancelIds = known /\ Covered \subseteq known
        /\ UNCHANGED WorkingIds /\ ff \in FFType
    BY DEF CancelIds, Covered, IdsInv, IInv, TypeOK, FFType, WorkingIds
  <1>2. CASE Suspends /\ StartFlatten(c, g)
    <2>1. ~gate'.disabled /\ covered' = Covered
      BY <1>2 DEF StartFlatten
    <2>2. /\ ff'[c].at \in {"cancel", "close"}
          /\ ff'[c].at = "cancel" => ff'[c].ids = known
          /\ ff'[c].at = "close" => known = {}
          /\ \A d \in Callers \ {c} : ff'[d] = ff[d]
      BY <1>1, <1>2 DEF StartFlatten, CancelsFrom, FFType
    <2>3. ASSUME NEW d \in Callers \ {c}
          PROVE  /\ ff'[d].at = "idle" => ff'[d] = Idle
                 /\ ff'[d].at = "cancel" =>
                       covered' \cap WorkingIds' \subseteq ff'[d].ids
                 /\ ff'[d].at = "close" => covered' \cap WorkingIds' = {}
      BY <1>1, <2>1, <2>2, <2>3 DEF CoverInv, Covered, Idle
    <2> QED BY <1>1, <2>1, <2>2, <2>3 DEF CoverInv, CoveredOrdersAreGone
  <1>3. CASE ~Suspends /\ FlattenAtOnce(g)
    <2>1. covered' = Covered /\ UNCHANGED ff
      BY <1>3 DEF FlattenAtOnce
    <2>2. covered' \cap WorkingIds' = {}
      BY <1>1, <1>3, <2>1 DEF Suspends, IdsInv, WorkingIds
    <2> QED BY <1>1, <2>1, <2>2 DEF CoverInv, CoveredOrdersAreGone
  <1> QED BY <1>2, <1>3

LEMMA CoverDone ==
    ASSUME IInv, CoverInv, NEW c \in Callers, ff' = [ff EXCEPT ![c] = Idle],
           UNCHANGED covered, working' \subseteq working,
           covered \cap WorkingIds' = {} \/ ffailed'
    PROVE  CoverInv'
  <1>1. ff \in FFType BY DEF IInv, TypeOK, FFType
  <1>2. /\ ff'[c] = Idle /\ Idle.at = "idle"
        /\ \A d \in Callers \ {c} : ff'[d] = ff[d]
    BY <1>1 DEF FFType, Idle
  <1>3. WorkingIds' \subseteq WorkingIds BY FewerResting
  <1> QED BY <1>2, <1>3 DEF CoverInv, CoveredOrdersAreGone

LEMMA IdsFewerResting ==
    ASSUME IdsInv, working' \subseteq working,
           UNCHANGED <<covered, known, sent, inflight>>
    PROVE  IdsInv'
  BY DEF IdsInv

LEMMA FlattenDoneOrders ==
    ASSUME IInv, IdsInv, CoverInv, NEW c \in Callers, ff[c] # Idle,
           FlattenDone(c), working' \subseteq working,
           covered \cap WorkingIds' = {}
    PROVE  IdsInv' /\ CoverInv'
  <1> DEFINE g == Finally(gate)
  <1>1. ff' = [ff EXCEPT ![c] = Idle] /\ UNCHANGED covered
    BY DEF FlattenDone
  <1>2. CoverInv' BY <1>1, CoverDone
  <1>3. UNCHANGED <<known, sent, inflight>>
    <2>1. CASE BarBody(g)
      <3>1. GateOK(g) /\ g.disabled
        BY FlattenEnds, FinallyEffect DEF IInv, LatchInv, GateOK
      <3> QED BY <2>1, <3>1, BarBodyEffect DEF IInv, SendNothing
    <2> QED BY <2>1 DEF FlattenDone
  <1> QED BY <1>1, <1>2, <1>3, IdsFewerResting

LEMMA OrdersStep ==
    ASSUME GateKnowsSymbol, IInv, IdsInv, CoverInv, [Next]_vars
    PROVE  IdsInv' /\ CoverInv'
  <1>1. ASSUME NEW c \in Callers, CancelOne(c) PROVE IdsInv' /\ CoverInv'
    <2>1. ff[c] # Idle /\ ff[c].at = "cancel" /\ ff \in FFType
      BY <1>1 DEF CancelOne, Idle, IInv, TypeOK, FFType
    <2>2. PICK i \in ff[c].ids :
             /\ working' = {o \in working : o.id # i}
             /\ UNCHANGED legs
             /\ IF ff[c].ids = {i} /\ ~BrokerCanClose
                THEN FlattenDone(c) /\ UNCHANGED bpos
                ELSE /\ CancelsFrom(c, ff[c].ids \ {i})
                     /\ UNCHANGED <<loopVars, tpos, gate, known, inflight,
                                    bpos, stop, sent, late, covered, ffailed>>
      BY <1>1 DEF CancelOne
    <2>3. /\ working' \subseteq working
          /\ WorkingIds' \subseteq WorkingIds \ {i}
      BY <2>2 DEF WorkingIds
    <2>4. covered \cap WorkingIds' \subseteq ff[c].ids \ {i}
      BY <2>1, <2>3 DEF CoverInv
    <2>5. CASE ff[c].ids = {i} /\ FlattenDone(c)
      BY <2>1, <2>3, <2>4, <2>5, FlattenDoneOrders
    <2>6. CASE /\ CancelsFrom(c, ff[c].ids \ {i})
               /\ UNCHANGED <<loopVars, tpos, gate, known, inflight,
                              bpos, stop, sent, late, covered, ffailed>>
      <3>1. /\ ff'[c].at \in {"cancel", "close"}
            /\ ff'[c].at = "cancel" => ff'[c].ids = ff[c].ids \ {i}
            /\ ff'[c].at = "close" => ff[c].ids \ {i} = {}
            /\ \A d \in Callers \ {c} : ff'[d] = ff[d]
        BY <2>1, <2>6 DEF CancelsFrom, FFType
      <3>2. CoverInv'
        BY <2>3, <2>4, <2>6, <3>1 DEF CoverInv, CoveredOrdersAreGone
      <3> QED BY <2>3, <2>6, <3>2, IdsFewerResting
    <2> QED BY <2>2, <2>5, <2>6
  <1>2. ASSUME NEW c \in Callers, CloseAll(c) PROVE IdsInv' /\ CoverInv'
    <2>1. /\ ff[c] # Idle /\ working' = working
          /\ covered \cap WorkingIds' = {}
      BY <1>2 DEF CloseAll, Idle, CoverInv, WorkingIds
    <2> QED BY <1>2, <2>1, FlattenDoneOrders DEF CloseAll
  <1>3. ASSUME NEW c \in Callers, FlattenFails(c) PROVE IdsInv' /\ CoverInv'
    BY <1>3, CoverDone, IdsFewerResting DEF FlattenFails, exchVars
  <1>4. ASSUME NEW r \in {"SHUTDOWN", "KILL_SWITCH"}, NEW c \in Callers,
               Schedule(gate, r).reason # NONE, UNCHANGED working,
               UNCHANGED <<known, sent, inflight>>,
               IF Suspends THEN StartFlatten(c, Schedule(gate, r))
               ELSE FlattenAtOnce(Schedule(gate, r))
        PROVE  IdsInv' /\ CoverInv'
    <2>1. ~Schedule(gate, r).disabled
      BY <1>4, ScheduleEffect DEF IInv, LatchInv, GateOK, Reasons, NONE
    <2>2. CoverInv' /\ covered' \subseteq known BY <1>4, <2>1, CoverStart
    <2> QED BY <1>4, <2>2 DEF IdsInv
  <1>5. ASSUME NEW d \in Dash, Kill(d) PROVE IdsInv' /\ CoverInv'
    <2>1. d \in Callers BY DEF Callers
    <2> QED BY <1>4, <1>5, <2>1 DEF Kill, exchVars
  <1>6. CASE ShutdownBar
    <2>1. Loop \in Callers BY DEF Callers
    <2>2. CASE UNCHANGED <<gate, ff, covered>>
      BY <1>6, <2>2, CoverSame, IdsFewerResting
         DEF ShutdownBar, exchVars, WorkingIds
    <2> QED BY <1>4, <1>6, <2>1, <2>2 DEF ShutdownBar, exchVars
  <1>7. CASE Bar
    <2>0. UNCHANGED working /\ UNCHANGED WorkingIds /\ Loop \in Callers
      BY <1>7 DEF Bar, exchVars, WorkingIds, Callers
    <2>1. CASE gate.reason = NONE /\ BarBody(gate) /\ UNCHANGED <<ff, covered>>
      <3>1. gate'.disabled = gate.disabled
        BY <2>1, BarBodyEffect DEF IInv, LatchInv
      <3>2. CoverInv' BY <2>0, <2>1, <3>1, BarBodyOrders, CoverSame
      <3> QED BY <2>0, <2>1, <3>2, BarBodyOrders, SendKeepsIds DEF IInv
    <2>2. CASE /\ gate.reason # NONE /\ Suspends /\ StartFlatten(Loop, gate)
               /\ UNCHANGED <<known, inflight, sent>>
      <3>1. ~gate.disabled BY <2>2 DEF IInv, LatchInv, GateOK
      <3>2. CoverInv' /\ covered' \subseteq known BY <2>0, <2>2, <3>1, CoverStart
      <3> QED BY <2>0, <2>2, <3>2 DEF IdsInv
    <2>3. CASE /\ gate.reason # NONE /\ ~Suspends /\ BarBody(Finally(gate))
               /\ covered' = Covered /\ UNCHANGED ff
      <3>1. /\ GateOK(Finally(gate)) /\ Finally(gate).disabled
            /\ Finally(gate).flattening /\ ~gate.disabled
        BY <2>3, FinallyEffect DEF IInv, LatchInv, GateOK
      <3>2. gate' = Finally(gate)
        BY <2>3, <3>1, BarBodyEffect DEF IInv
      <3>3. FlattenAtOnce(gate) BY <2>3, <3>2 DEF FlattenAtOnce
      <3>4. CoverInv' /\ covered' \subseteq known
        BY <2>0, <2>3, <3>1, <3>3, CoverStart
      <3> QED BY <2>0, <2>3, <3>4, BarBodyOrders, SendKeepsIds DEF IInv
    <2> QED BY <1>7, <2>1, <2>2, <2>3 DEF Bar
  <1>8. CASE Journalled \/ AllocatorAnswers
    <2>1. UNCHANGED <<gate, ff, covered, ffailed, working, WorkingIds>>
      BY <1>8 DEF Journalled, AllocatorAnswers, gateVars, exchVars, WorkingIds
    <2>2. SendNothing \/ \E q \in Qty : SendOrder(q)
      <3>1. CASE Journalled
        BY <3>1, NextIntentOrders DEF Journalled, IInv, TypeOK
      <3>2. CASE AllocatorAnswers
        <4>1. Head(todo) \in Qty
          BY <3>2 DEF AllocatorAnswers, IInv, LateInv, TypeOK
        <4> QED BY <3>2, <4>1 DEF AllocatorAnswers
      <3> QED BY <1>8, <3>1, <3>2
    <2> QED BY <2>1, <2>2, CoverSame, SendKeepsIds DEF IInv
  <1>9. CASE PlaceReturns
    <2>1. UNCHANGED <<gate, ff, covered, ffailed, working, WorkingIds, sent>>
      BY <1>9 DEF PlaceReturns, gateVars, exchVars, WorkingIds
    <2>2. CoverInv' BY <2>1, CoverSame
    <2>3. inflight'.st = NONE /\ NONE # "sent" BY <1>9 DEF PlaceReturns, NoOrder, NONE
    <2>4. \A k \in known' : k <= sent'
      BY <1>9, <2>1 DEF PlaceReturns, IdsInv, NONE
    <2>5. covered' \subseteq known'
      BY <1>9, <2>1 DEF PlaceReturns, IdsInv
    <2> QED BY <2>1, <2>2, <2>3, <2>4, <2>5 DEF IdsInv
  <1>10. CASE ExchangeAccepts
    <2>1. /\ inflight'.st = "accepted" /\ Live /\ inflight'.id = inflight.id
          /\ inflight.id <= sent
          /\ UNCHANGED <<gate, ff, covered, ffailed, known, sent>>
      BY <1>10 DEF ExchangeAccepts, gateVars, IdsInv, IInv, TypeOK, OrderType, NONE
    <2>2. WorkingIds' \subseteq WorkingIds \cup {inflight.id}
      BY <1>10 DEF ExchangeAccepts, WorkingIds
    <2>3. inflight.id \notin covered
      BY <1>10 DEF ExchangeAccepts, IdsInv
    <2>4. CoverInv' BY <2>1, <2>2, <2>3, CoverSame
    <2> QED BY <2>1, <2>4 DEF IdsInv
  <1>11. CASE ExchangeRejects
    <2>1. /\ inflight'.st = "rejected" /\ inflight'.id = inflight.id
          /\ inflight.id <= sent /\ (~Live => working = {})
          /\ UNCHANGED <<gate, ff, covered, ffailed, known, sent, working,
                         WorkingIds>>
      BY <1>11 DEF ExchangeRejects, gateVars, exchVars, WorkingIds, IInv,
                   TypeOK, OrderType, IdsInv, NONE
    <2> QED BY <2>1, CoverSame DEF IdsInv
  <1>12. CASE ExchangeFills
    <2>1. /\ working' \subseteq working
          /\ UNCHANGED <<gate, ff, covered, ffailed, known, sent, inflight>>
      BY <1>12 DEF ExchangeFills, gateVars
    <2> QED BY <2>1, FewerResting, CoverSame, IdsFewerResting
  <1>13. CASE \/ SourceEnds \/ SnapshotWritten \/ PlaceRaises \/ JournalRaises
              \/ LegFills \/ RequestStop \/ Stopped \/ UNCHANGED vars
    <2>1. UNCHANGED <<gate, ff, covered, ffailed, known, sent, inflight,
                      working, WorkingIds>>
      BY <1>13 DEF LegFills, SourceEnds, SnapshotWritten, PlaceRaises, JournalRaises,
                   RequestStop, Stopped, vars, gateVars, exchVars, WorkingIds
    <2> QED BY <2>1, CoverSame, IdsFewerResting
  <1> QED
    BY <1>1, <1>2, <1>3, <1>5, <1>6, <1>7, <1>8, <1>9, <1>10, <1>11, <1>12,
       <1>13 DEF Next, LoopSteps

(***************************************************************************)
(* When the gate's symbol is the suite's, a flatten that did not raise     *)
(* leaves none of the orders it covered resting, whoever carried it out    *)
(* and however many did at once (topstepx_client.py:381-393,               *)
(* gate.py:395-408).                                                       *)
(***************************************************************************)
THEOREM FlattenCoversItsOrders == GateKnowsSymbol /\ Spec => []CoveredOrdersAreGone
  <1> SUFFICES ASSUME GateKnowsSymbol PROVE Spec => []CoveredOrdersAreGone
    OBVIOUS
  <1>1. Init => IdsInv /\ CoverInv
    BY DEF Init, IdsInv, CoverInv, CoveredOrdersAreGone, Idle, NoOrder, NONE
  <1>2. IInv /\ IdsInv /\ CoverInv /\ [Next]_vars => IdsInv' /\ CoverInv'
    BY OrdersStep
  <1>3. CoverInv => CoveredOrdersAreGone
    BY DEF CoverInv
  <1> QED BY <1>1, <1>2, <1>3, Invariance, PTL DEF Spec
-----------------------------------------------------------------------------
(* The tracker and the cap. *)


\* With one intent a bar, the intent in hand was approved on the snapshot of
\* the bar, and the tracker has not moved since.
CapInv ==
    /\ TrackerWithinCap
    /\ pc = "alloc" => Tail(todo) = <<>> /\ Abs(tpos + Head(todo)) <= Cap
    /\ pc = "place" => todo = <<>> /\ Abs(tpos + inflight.qty) <= Cap
    /\ pc = "journal" => todo = <<>>

LEMMA SendWithinCap ==
    ASSUME TypeOK, CapInv, NEW q \in Qty, SendOrder(q), Abs(tpos + q) <= Cap,
           todo' = <<>>
    PROVE  CapInv'
  <1>1. CASE Live
    <2>1. /\ inflight' = [st |-> "sent", id |-> sent + 1, qty |-> q]
          /\ pc' = "place" /\ tpos' = tpos
      BY <1>1 DEF SendOrder
    <2>2. inflight'.qty = q
      BY <2>1
    <2> QED BY <2>1, <2>2 DEF CapInv, TrackerWithinCap
  <1>2. CASE ~Live
    BY <1>2 DEF SendOrder, CapInv, TrackerWithinCap
  <1> QED BY <1>1, <1>2

LEMMA NextIntentWithinCap ==
    ASSUME TypeOK, CapInv, NEW s \in Seq(Qty), NEW g, NEW touch,
           s = <<>> \/ Tail(s) = <<>>, NextIntent(s, g, tpos, touch)
    PROVE  CapInv'
  <1>1. s # <<>> => Head(s) \in Qty /\ Tail(s) = <<>>
    OBVIOUS
  <1>2. CASE s = <<>> /\ pc' = "snapshot" /\ todo' = <<>> /\ SendNothing
    BY <1>2 DEF CapInv, TrackerWithinCap, SendNothing
  <1>3. CASE s # <<>> /\ pc' = "journal" /\ todo' = Tail(s) /\ SendNothing
    BY <1>1, <1>3 DEF CapInv, TrackerWithinCap, SendNothing
  <1>4. CASE /\ s # <<>> /\ Abs(tpos + Head(s)) <= Cap
             /\ pc' = "alloc" /\ todo' = s /\ SendNothing
    BY <1>1, <1>4 DEF CapInv, TrackerWithinCap, SendNothing
  <1>5. CASE /\ s # <<>> /\ Abs(tpos + Head(s)) <= Cap
             /\ todo' = Tail(s) /\ SendOrder(Head(s))
    BY <1>1, <1>5, SendWithinCap
  <1> QED BY <1>2, <1>3, <1>4, <1>5 DEF NextIntent, Approvable

LEMMA BarBodyWithinCap ==
    ASSUME TypeOK, CapInv, MaxIntents <= 1, NEW g, BarBody(g)
    PROVE  CapInv'
  <1> DEFINE g2 == IF touched' THEN Schedule(g, "MLL_EQUITY_TOUCH") ELSE g
  <1>1. CASE pc' = "snapshot" /\ todo' = <<>> /\ SendNothing
    BY <1>1 DEF CapInv, TrackerWithinCap, SendNothing
  <1>2. CASE \E n \in 0..MaxIntents : \E s \in [1..n -> Qty] :
                NextIntent(s, g2, tpos, touched')
    <2>1. PICK n \in 0..MaxIntents : \E s \in [1..n -> Qty] :
                NextIntent(s, g2, tpos, touched')
      BY <1>2
    <2>2. PICK s \in [1..n -> Qty] : NextIntent(s, g2, tpos, touched')
      BY <2>1
    <2>3. s \in Seq(Qty) /\ Len(s) = n /\ n \in {0, 1}
      BY BoundAssumption
    <2>4. s = <<>> \/ Tail(s) = <<>>
      BY <2>3
    <2> QED BY <2>2, <2>3, <2>4, NextIntentWithinCap
  <1> QED BY <1>1, <1>2 DEF BarBody

LEMMA CapStep ==
    ASSUME IInv, CapInv, MaxIntents <= 1, [Next]_vars
    PROVE  CapInv'
  <1> USE DEF IInv
  <1>1. CASE Bar
    <2>1. CASE \E g : BarBody(g)
      BY <2>1, BarBodyWithinCap
    <2>2. CASE pc' = "drain" /\ UNCHANGED <<todo, tpos, inflight>>
      BY <2>2 DEF CapInv, TrackerWithinCap
    <2> QED BY <1>1, <2>1, <2>2 DEF Bar
  <1>2. CASE AllocatorAnswers
    <2>1. Head(todo) \in Qty
      BY <1>2 DEF AllocatorAnswers, LateInv, TypeOK
    <2>2. Tail(todo) = <<>> /\ Abs(tpos + Head(todo)) <= Cap
      BY <1>2 DEF AllocatorAnswers, CapInv
    <2>3. CASE SendOrder(Head(todo))
      BY <1>2, <2>1, <2>2, <2>3, SendWithinCap DEF AllocatorAnswers
    <2>4. CASE pc' = "journal" /\ SendNothing
      BY <1>2, <2>2, <2>4 DEF AllocatorAnswers, CapInv, TrackerWithinCap, SendNothing
    <2> QED BY <1>2, <2>3, <2>4 DEF AllocatorAnswers
  <1>3. CASE PlaceReturns
    BY <1>3 DEF PlaceReturns, CapInv, TrackerWithinCap
  <1>4. CASE Journalled
    <2>1. todo = <<>> /\ todo \in Seq(Qty)
      BY <1>4 DEF Journalled, CapInv, TypeOK
    <2>2. pc' = "snapshot" /\ UNCHANGED tpos
      BY <1>4, <2>1 DEF Journalled, NextIntent, SendNothing
    <2> QED BY <2>2 DEF CapInv, TrackerWithinCap
  <1>5. CASE SourceEnds \/ ShutdownBar \/ SnapshotWritten \/ PlaceRaises \/ JournalRaises
    BY <1>5 DEF SourceEnds, ShutdownBar, SnapshotWritten, PlaceRaises, JournalRaises,
                CapInv, TrackerWithinCap
  <1>6. ASSUME NEW c \in Callers, FlattenDone(c) PROVE CapInv'
    <2>1. CASE BarBody(Finally(gate))
      BY <2>1, BarBodyWithinCap
    <2>2. CASE UNCHANGED <<todo, tpos, inflight>> /\ pc' \in {"stopped", pc}
      BY <2>2 DEF CapInv, TrackerWithinCap
    <2> QED BY <1>6, <2>1, <2>2 DEF FlattenDone
  <1>7. ASSUME NEW c \in Callers, CancelOne(c) \/ CloseAll(c) \/ FlattenFails(c)
        PROVE  CapInv'
    <2>1. CASE UNCHANGED <<todo, tpos, inflight>> /\ pc' \in {"raised", pc}
      BY <2>1 DEF CapInv, TrackerWithinCap
    <2> QED BY <1>6, <1>7, <2>1 DEF CancelOne, CloseAll, FlattenFails, loopVars
  <1>8. CASE ExchangeAccepts \/ ExchangeRejects
    <2>1. inflight'.qty = inflight.qty
      BY <1>8 DEF ExchangeAccepts, ExchangeRejects, TypeOK, OrderType
    <2> QED BY <1>8, <2>1 DEF ExchangeAccepts, ExchangeRejects, CapInv, TrackerWithinCap,
                              loopVars
  <1>9. CASE \/ \E d \in Dash : Kill(d)
             \/ ExchangeFills \/ LegFills \/ RequestStop \/ Stopped \/ UNCHANGED vars
    <2>1. UNCHANGED <<pc, todo, tpos, inflight>>
      BY <1>9 DEF Kill, ExchangeFills, LegFills, RequestStop, Stopped, vars, loopVars
    <2> QED BY <2>1 DEF CapInv, TrackerWithinCap
  <1> QED BY <1>1, <1>2, <1>3, <1>4, <1>5, <1>7, <1>8, <1>9 DEF Next, LoopSteps

(***************************************************************************)
(* With at most one intent a bar, which is what the strategies return      *)
(* unless a signal strategy is told to return more, the position the bot   *)
(* believes in stays within the cap of rule 4: the intent that was         *)
(* approved on the snapshot is booked before another one is looked at      *)
(* (gate.py:275-293, live_loop.py:233-277).                                *)
(***************************************************************************)
THEOREM OneIntentKeepsTheCap == MaxIntents <= 1 /\ Spec => []TrackerWithinCap
  <1> SUFFICES ASSUME MaxIntents <= 1 PROVE Spec => []TrackerWithinCap
    OBVIOUS
  <1>1. Init => CapInv
    BY BoundAssumption DEF Init, CapInv, TrackerWithinCap, Abs
  <1>2. IInv /\ CapInv /\ [Next]_vars => CapInv'
    BY CapStep
  <1>3. CapInv => TrackerWithinCap
    BY DEF CapInv
  <1> QED BY <1>1, <1>2, <1>3, Invariance, PTL DEF Spec
-----------------------------------------------------------------------------
\* Outside place_order nothing is in flight, and the adapter knows whatever
\* rests; what the loop of a shutdown has still to cancel includes all of it.
ShutdownInv ==
    /\ pc \notin {"place", "raised"} => inflight = NoOrder /\ WorkingIds \subseteq known
    /\ pc = "place" => WorkingIds \subseteq known \cup {inflight.id}
    /\ pc = "place" /\ inflight.st \in {"sent", "rejected"} => WorkingIds \subseteq known
    /\ pc = "shutdown" /\ ff[Loop].at = "cancel" => WorkingIds \subseteq ff[Loop].ids
    /\ pc = "shutdown" /\ ff[Loop].at = "close" => working = {}
    /\ ~Live => working = {} /\ inflight = NoOrder

LEMMA SendKeepsShutdown ==
    ASSUME ShutdownInv, NEW q, SendOrder(q), pc \notin {"place", "raised"},
           working' \subseteq working
    PROVE  ShutdownInv'
  <1>1. /\ WorkingIds' \subseteq known /\ inflight = NoOrder
        /\ working = {} => working' = {}
    BY DEF WorkingIds, ShutdownInv
  <1>2. CASE Live
    <2>1. pc' = "place" /\ known' = known
      BY <1>2 DEF SendOrder
    <2> QED BY <1>1, <1>2, <2>1 DEF ShutdownInv
  <1>3. CASE ~Live
    <2>1. pc' = "journal" /\ known \subseteq known' /\ inflight' = inflight
      BY <1>3 DEF SendOrder
    <2> QED BY <1>1, <1>3, <2>1 DEF ShutdownInv
  <1> QED BY <1>2, <1>3

LEMMA SameOrdersKeepShutdown ==
    ASSUME ShutdownInv, pc \notin {"place", "raised"}, working' \subseteq working,
           UNCHANGED <<inflight, known>>, pc' \notin {"place", "shutdown"}
    PROVE  ShutdownInv'
  BY DEF ShutdownInv, WorkingIds

LEMMA NextIntentKeepsShutdown ==
    ASSUME ShutdownInv, NEW s, NEW g, NEW pos, NEW touch, NextIntent(s, g, pos, touch),
           pc \notin {"place", "raised"}, working' \subseteq working
    PROVE  ShutdownInv'
  <1>1. CASE pc' \in {"snapshot", "journal", "alloc"} /\ SendNothing
    BY <1>1, SameOrdersKeepShutdown DEF SendNothing
  <1>2. CASE SendOrder(Head(s))
    BY <1>2, SendKeepsShutdown
  <1> QED BY <1>1, <1>2 DEF NextIntent

LEMMA BarBodyKeepsShutdown ==
    ASSUME ShutdownInv, NEW g, BarBody(g), pc \notin {"place", "raised"},
           working' \subseteq working
    PROVE  ShutdownInv'
  <1> DEFINE g2 == IF touched' THEN Schedule(g, "MLL_EQUITY_TOUCH") ELSE g
  <1>1. CASE pc' = "snapshot" /\ SendNothing
    BY <1>1, SameOrdersKeepShutdown DEF SendNothing
  <1>2. CASE \E n \in 0..MaxIntents : \E s \in [1..n -> Qty] :
                NextIntent(s, g2, tpos, touched')
    BY <1>2, NextIntentKeepsShutdown
  <1> QED BY <1>1, <1>2 DEF BarBody

\* What a caller does in a flatten takes orders from the book, and nothing else
\* that the invariant speaks of.
LEMMA FewerOrdersKeepShutdown ==
    ASSUME ShutdownInv, working' \subseteq working, UNCHANGED <<pc, inflight, known>>,
           ff'[Loop] = ff[Loop]
    PROVE  ShutdownInv'
  <1>1. WorkingIds' \subseteq WorkingIds /\ (working = {} => working' = {})
    BY DEF WorkingIds
  <1> QED BY <1>1 DEF ShutdownInv

LEMMA LoopFFType ==
    ASSUME TypeOK, NEW c \in Callers
    PROVE  /\ Loop \in Callers
           /\ \A v : ff' = [ff EXCEPT ![c] = v] =>
                ff'[c] = v /\ (c # Loop => ff'[Loop] = ff[Loop])
  BY DEF TypeOK, Callers

\* The last call of a flatten: the loop of a shutdown stops with an empty book.
LEMMA FlattenDoneKeepsShutdown ==
    ASSUME TypeOK, ShutdownInv, NEW c \in Callers, FlattenDone(c),
           working' \subseteq working
    PROVE  ShutdownInv'
  <1>1. CASE c = Loop /\ pc = "drain" /\ BarBody(Finally(gate))
    BY <1>1, BarBodyKeepsShutdown
  <1>2. CASE c = Loop /\ pc = "shutdown" /\ pc' = "stopped" /\ UNCHANGED <<inflight, known>>
    BY <1>2, SameOrdersKeepShutdown
  <1>3. CASE c # Loop /\ UNCHANGED <<pc, inflight, known>>
    BY <1>3, LoopFFType, FewerOrdersKeepShutdown DEF FlattenDone
  <1> QED BY <1>1, <1>2, <1>3 DEF FlattenDone

LEMMA ShutdownStep ==
    ASSUME IInv, ShutdownInv, GateKnowsSymbol, [Next]_vars
    PROVE  ShutdownInv'
  <1> USE DEF IInv
  <1>1. CASE ShutdownBar
    <2>1. pc = "wait" /\ UNCHANGED <<working, inflight, known>>
      BY <1>1 DEF ShutdownBar, exchVars
    <2>2. CASE pc' = "stopped"
      BY <2>1, <2>2, SameOrdersKeepShutdown
    <2>3. CASE Suspends /\ (\E g : StartFlatten(Loop, g)) /\ pc' = "shutdown"
      <3>1. /\ inflight = NoOrder /\ WorkingIds \subseteq known
            /\ WorkingIds' = WorkingIds
        BY <2>1 DEF ShutdownInv, WorkingIds
      <3>2. Loop \in Callers /\ CancelsFrom(Loop, known)
        BY <2>3 DEF StartFlatten, CancelIds, Callers
      <3>3. ff'[Loop] = [at |-> IF known # {} THEN "cancel" ELSE "close", ids |-> known]
        BY <3>2, LoopFFType DEF CancelsFrom
      <3>4. known = {} => working = {}
        BY <3>1 DEF WorkingIds
      <3> QED BY <2>1, <2>3, <3>1, <3>3, <3>4 DEF ShutdownInv, Suspends
    <2> QED BY <1>1, <2>2, <2>3 DEF ShutdownBar
  <1>2. CASE Bar
    <2>1. pc = "wait" /\ UNCHANGED working
      BY <1>2 DEF Bar, exchVars
    <2>2. CASE \E g : BarBody(g)
      BY <2>1, <2>2, BarBodyKeepsShutdown
    <2>3. CASE pc' = "drain" /\ UNCHANGED <<known, inflight>>
      BY <2>1, <2>3, SameOrdersKeepShutdown
    <2> QED BY <1>2, <2>2, <2>3 DEF Bar
  <1>3. CASE AllocatorAnswers
    <2>1. pc = "alloc" /\ UNCHANGED working
      BY <1>3 DEF AllocatorAnswers, exchVars
    <2>2. CASE SendOrder(Head(todo))
      BY <2>1, <2>2, SendKeepsShutdown
    <2>3. CASE pc' = "journal" /\ SendNothing
      BY <2>1, <2>3, SameOrdersKeepShutdown DEF SendNothing
    <2> QED BY <1>3, <2>2, <2>3 DEF AllocatorAnswers
  <1>4. CASE PlaceReturns
    <2>1. WorkingIds' = WorkingIds /\ working' = working
      BY <1>4 DEF PlaceReturns, exchVars, WorkingIds
    <2> QED BY <1>4, <2>1 DEF PlaceReturns, ShutdownInv
  <1>5. CASE Journalled
    BY <1>5, NextIntentKeepsShutdown DEF Journalled, exchVars
  <1>6. CASE SourceEnds \/ SnapshotWritten
    BY <1>6, SameOrdersKeepShutdown DEF SourceEnds, SnapshotWritten, exchVars
  <1>7. CASE PlaceRaises \/ JournalRaises
    BY <1>7 DEF PlaceRaises, JournalRaises, exchVars, ShutdownInv
  <1>8. ASSUME NEW c \in Callers, CancelOne(c) PROVE ShutdownInv'
    <2>1. PICK i \in ff[c].ids : /\ working' = {o \in working : o.id # i}
                                 /\ \/ FlattenDone(c)
                                    \/ /\ CancelsFrom(c, ff[c].ids \ {i})
                                       /\ UNCHANGED <<pc, inflight, known>>
      BY <1>8 DEF CancelOne, loopVars
    <2>2. CASE FlattenDone(c)
      BY <2>1, <2>2, FlattenDoneKeepsShutdown
    <2>3. CASE c # Loop /\ ~FlattenDone(c)
      BY <2>1, <2>3, LoopFFType, FewerOrdersKeepShutdown DEF CancelsFrom
    <2>4. CASE c = Loop /\ ~FlattenDone(c)
      <3>1. ff'[Loop] = [at |-> IF ff[Loop].ids \ {i} # {} THEN "cancel" ELSE "close",
                         ids |-> ff[Loop].ids \ {i}]
        BY <2>1, <2>4, LoopFFType DEF CancelsFrom
      <3>2. WorkingIds' \subseteq WorkingIds \ {i} /\ (working = {} => working' = {})
        BY <2>1 DEF WorkingIds
      <3>3. WorkingIds' = {} => working' = {}
        BY DEF WorkingIds
      <3>4. ff[Loop].at = "cancel"
        BY <1>8, <2>4 DEF CancelOne
      <3> QED BY <2>1, <2>4, <3>1, <3>2, <3>3, <3>4 DEF ShutdownInv
    <2> QED BY <2>2, <2>3, <2>4
  <1>9. ASSUME NEW c \in Callers, CloseAll(c) PROVE ShutdownInv'
    BY <1>9, FlattenDoneKeepsShutdown DEF CloseAll
  <1>10. ASSUME NEW c \in Callers, FlattenFails(c) PROVE ShutdownInv'
    <2>1. UNCHANGED <<working, inflight, known>>
      BY <1>10 DEF FlattenFails, exchVars
    <2>2. CASE c = Loop
      BY <1>10, <2>1, <2>2 DEF FlattenFails, ShutdownInv
    <2>3. CASE c # Loop
      BY <1>10, <2>1, <2>3, LoopFFType, FewerOrdersKeepShutdown DEF FlattenFails
    <2> QED BY <2>2, <2>3
  <1>11. ASSUME NEW d \in Dash, Kill(d) PROVE ShutdownInv'
    <2>1. d \in Callers /\ d # Loop
      BY LoopAssumption DEF Callers
    <2>2. UNCHANGED <<pc, working, inflight, known>>
      BY <1>11 DEF Kill, loopVars, exchVars
    <2>3. ff'[Loop] = ff[Loop]
      BY <1>11, <2>1, LoopFFType DEF Kill, StartFlatten, FlattenAtOnce, CancelsFrom
    <2> QED BY <2>2, <2>3, FewerOrdersKeepShutdown
  <1>12. CASE ExchangeAccepts
    <2>1. /\ inflight.st = "sent" /\ pc \in {"place", "raised"} /\ Live
          /\ UNCHANGED <<pc, known, ff>>
      BY <1>12 DEF ExchangeAccepts, loopVars, gateVars, LateInv, ShutdownInv, NoOrder, NONE
    <2>2. inflight' = [inflight EXCEPT !.st = "accepted"]
      BY <1>12 DEF ExchangeAccepts
    <2>3. inflight'.st = "accepted" /\ inflight'.id = inflight.id
      BY <2>2 DEF TypeOK, OrderType
    <2>4. WorkingIds' \subseteq WorkingIds \cup {inflight.id}
      BY <1>12 DEF ExchangeAccepts, WorkingIds
    <2> QED BY <2>1, <2>3, <2>4 DEF ShutdownInv
  <1>13. CASE ExchangeRejects
    <2>1. /\ inflight.st = "sent" /\ pc \in {"place", "raised"} /\ Live
          /\ UNCHANGED <<pc, known, ff, working>>
      BY <1>13 DEF ExchangeRejects, loopVars, gateVars, exchVars, LateInv, ShutdownInv,
                   NoOrder, NONE
    <2>2. WorkingIds' = WorkingIds
      BY <2>1 DEF WorkingIds
    <2> QED BY <2>1, <2>2 DEF ShutdownInv
  <1>14. CASE ExchangeFills \/ LegFills \/ RequestStop \/ Stopped \/ UNCHANGED vars
    <2>1. working' \subseteq working /\ UNCHANGED <<pc, inflight, known, ff>>
      BY <1>14 DEF ExchangeFills, LegFills, RequestStop, Stopped, vars, loopVars, gateVars, exchVars
    <2> QED BY <2>1, FewerOrdersKeepShutdown
  <1> QED BY <1>1, <1>2, <1>3, <1>4, <1>5, <1>6, <1>7, <1>8, <1>9, <1>10, <1>11, <1>12,
             <1>13, <1>14 DEF Next, LoopSteps

(***************************************************************************)
(* While the gate's symbol is the suite's, the flatten that a shutdown     *)
(* waits for lets the loop return only when no order the bot placed rests, *)
(* however many dashboards cancel the same orders and whatever the         *)
(* exchange fills meanwhile (live_loop.py:224-226, topstepx_client.py:     *)
(* 381-393).  It rests on ShutdownInv: outside place_order the adapter     *)
(* knows every order it placed that rests.  The legs of brackets, which it *)
(* never knows, are not orders it placed.                                  *)
(***************************************************************************)
THEOREM ShutdownIsComplete == GateKnowsSymbol /\ Spec => ShutdownFlattenIsComplete
  <1> SUFFICES ASSUME GateKnowsSymbol PROVE Spec => ShutdownFlattenIsComplete
    OBVIOUS
  <1>1. Init => ShutdownInv
    BY DEF Init, ShutdownInv, WorkingIds
  <1>2. IInv /\ ShutdownInv /\ [Next]_vars => ShutdownInv'
    BY ShutdownStep
  <1>3. IInv /\ ShutdownInv /\ [Next]_vars =>
          [pc = "shutdown" /\ pc' = "stopped" => working' = {}]_vars
    <2> SUFFICES ASSUME IInv, ShutdownInv, Next, pc = "shutdown", pc' = "stopped"
                 PROVE  working' = {}
      OBVIOUS
    <2>1. ASSUME NEW c \in Callers, CancelOne(c)
          PROVE  working' = {}
      <3>1. PICK i \in ff[c].ids :
                /\ working' = {o \in working : o.id # i}
                /\ ff[c].at = "cancel"
                /\ ff[c].ids = {i} /\ FlattenDone(c)
        BY <2>1 DEF CancelOne, loopVars
      <3>2. c = Loop
        BY <3>1 DEF FlattenDone
      <3>3. WorkingIds \subseteq {i}
        BY <3>1, <3>2 DEF ShutdownInv
      <3> QED BY <3>1, <3>3 DEF WorkingIds
    <2>2. ASSUME NEW c \in Callers, CloseAll(c)
          PROVE  working' = {}
      <3>1. c = Loop
        BY <2>2 DEF CloseAll, FlattenDone
      <3> QED BY <2>2, <3>1 DEF CloseAll, ShutdownInv
    <2>3. ASSUME NEW c \in Callers PROVE ~FlattenFails(c)
      BY DEF FlattenFails
    <2>4. ASSUME NEW d \in Dash PROVE ~Kill(d)
      BY DEF Kill, loopVars
    <2>5. ~(\/ LoopSteps \/ PlaceRaises \/ JournalRaises \/ ExchangeAccepts
            \/ ExchangeRejects \/ ExchangeFills \/ LegFills \/ RequestStop \/ Stopped)
      BY DEF LoopSteps, SourceEnds, ShutdownBar, Bar, AllocatorAnswers, PlaceReturns,
             Journalled, SnapshotWritten, PlaceRaises, JournalRaises, ExchangeAccepts,
             ExchangeRejects, ExchangeFills, LegFills, RequestStop, Stopped, loopVars,
             vars, Ended
    <2> QED BY <2>1, <2>2, <2>3, <2>4, <2>5 DEF Next
  <1> QED BY <1>1, <1>2, <1>3, Invariance, PTL DEF Spec, ShutdownFlattenIsComplete
=============================================================================
