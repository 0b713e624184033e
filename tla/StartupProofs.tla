--------------------------- MODULE StartupProofs ---------------------------
(***************************************************************************)
(* What holds of a process over its restarts for every cap, set of prices, *)
(* number of sessions and of orders: the types with the cap that the       *)
(* tracker keeps, that only a flat account passes a strict reconciliation, *)
(* one lost row at most in a session, the replay of the profit cache, and  *)
(* that the picture a strict session starts from stays right.              *)
(***************************************************************************)
EXTENDS Startup, Facts

USE StartupAssumption

(***************************************************************************)
(* An order in flight fits the cap when it is booked, because the tracker  *)
(* does not move while place_order is awaited; the idle slot is NoOrder    *)
(* and real orders have ids from 1.                                        *)
(***************************************************************************)
PlacingFits == pc = "placing" => tracker.pos + order.qty \in -Cap..Cap
SlotIsIdle == pc \in {"off", "open", "connect", "positions"} \cup Snapshotting
                => order = NoOrder
RealIds == \A o \in wire : o.id > 0

Basics == TypeOK /\ PlacingFits /\ SlotIsIdle /\ RealIds

\* The parts of TypeOK that a step may touch.
LEMMA NoOrderIsOrder == NoOrder \in Order /\ NoOrder.id = 0
  BY DEF NoOrder, Order

LEMMA BasicsInit == Init => Basics
  <1> SUFFICES ASSUME Init PROVE Basics OBVIOUS
  <1>1. TypeOK
    <2>1. seen \in [pos : Int, orders : SUBSET Order, equity : Int, high : Int]
      BY DEF Init, NothingSeen
    <2>2. tracker \in [pos : -Cap..Cap, cash : Int, high : Int]
      BY DEF Init, NoTracker
    <2>3. order \in Order
      BY NoOrderIsOrder DEF Init
    <2>4. cache \in Cache
      BY DEF Init, NoCache, Cache
    <2>5. rows \in Seq(Row) /\ Len(rows) <= MaxRows
      BY DEF Init
    <2>6. pc = "off" /\ strict \in BOOLEAN /\ disturbed \in BOOLEAN
      BY Zenon DEF Init
    <2>7. /\ session \in 0..MaxSessions /\ sent \in 0..MaxOrders
          /\ bpos \in Int /\ cash \in Int /\ price \in Prices
      BY DEF Init
    <2>8. /\ recorded \subseteq Order /\ wire \subseteq Order
          /\ resting \subseteq Order /\ accepted \subseteq Order
          /\ legs \subseteq Order /\ unbooked \in Int
      BY DEF Init
    <2> QED BY <2>1, <2>2, <2>3, <2>4, <2>5, <2>6, <2>7, <2>8 DEF TypeOK
  <1>2. PlacingFits /\ SlotIsIdle /\ RealIds
    BY DEF Init, PlacingFits, SlotIsIdle, RealIds
  <1> QED BY <1>1, <1>2 DEF Basics

LEMMA BasicsStep == Basics /\ [Next]_vars => Basics'
  <1> SUFFICES ASSUME Basics, [Next]_vars PROVE Basics' OBVIOUS
  <1> USE DEF Basics, fileVars, bookVars, Trading, Flattened, Snapshotting
  <1>1. CASE Boot
    BY <1>1 DEF Boot, TypeOK, PlacingFits, SlotIsIdle, RealIds
  <1>2. CASE OpenJournal
    BY <1>2 DEF OpenJournal, TypeOK, PlacingFits, SlotIsIdle, RealIds
  <1>3. CASE ConnectBroker
    BY <1>3 DEF ConnectBroker, TypeOK, PlacingFits, SlotIsIdle, RealIds
  <1>4. CASE ReadPositions
    BY <1>4 DEF ReadPositions, TypeOK, PlacingFits, SlotIsIdle, RealIds
  <1>5. CASE ReadOrders
    BY <1>5 DEF ReadOrders, TypeOK, PlacingFits, SlotIsIdle, RealIds
  <1>6. CASE ReadAccount
    <2>1. PICK entry \in Prices :
             seen' = [seen EXCEPT !.equity = cash + bpos * entry]
      BY <1>6 DEF ReadAccount
    <2>2. cash + bpos * entry \in Int
      BY DEF TypeOK
    <2>3. seen' \in [pos : Int, orders : SUBSET Order, equity : Int, high : Int]
      BY <2>1, <2>2 DEF TypeOK
    <2> QED BY <1>6, <2>3 DEF ReadAccount, TypeOK, PlacingFits, SlotIsIdle, RealIds
  <1>7. CASE Reconcile
    BY <1>7 DEF Reconcile, TypeOK, PlacingFits, SlotIsIdle, RealIds
  <1>8. CASE Hydrate
    <2>1. HydratedHigh \in Int
      <3>1. CASE rows = <<>>
        BY <3>1 DEF HydratedHigh, TypeOK
      <3>2. CASE rows # <<>>
        <4>1. Len(rows) \in 1..Len(rows)
          BY <3>2 DEF TypeOK
        <4>2. rows[Len(rows)] \in Row
          BY <4>1 DEF TypeOK
        <4> QED BY <3>2, <4>2 DEF HydratedHigh, Row
      <3> QED BY <3>1, <3>2
    <2>2. seen' \in [pos : Int, orders : SUBSET Order, equity : Int, high : Int]
      <3>1. seen' = [NothingSeen EXCEPT !.high = HydratedHigh]
        BY <1>8 DEF Hydrate
      <3>2. PICK h \in Int : h = HydratedHigh
        BY <2>1
      <3>3. seen' = [pos |-> 0, orders |-> {}, equity |-> 0, high |-> h]
        BY <3>1, <3>2 DEF NothingSeen
      <3> QED BY <3>3
    <2>3. tracker' \in [pos : -Cap..Cap, cash : Int, high : Int]
      <3>1. seen.equity \in Int /\ 0 \in -Cap..Cap
        BY DEF TypeOK
      <3>2. LoopTracker \in [pos : -Cap..Cap, cash : Int, high : Int]
        BY <3>1 DEF LoopTracker
      <3>3. tracker' \in {LoopTracker, tracker}
        BY <1>8, Zenon DEF Hydrate
      <3> QED BY <3>2, <3>3 DEF TypeOK
    <2> QED BY <1>8, <2>2, <2>3 DEF Hydrate, TypeOK, PlacingFits, SlotIsIdle, RealIds
  <1>9. CASE \E q \in Qty : Send(q)
    <2>1. PICK q \in Qty : Send(q)
      BY <1>9
    <2>2. order' \in Order /\ order'.id > 0 /\ order'.qty = q
      BY <2>1 DEF Send, Order, TypeOK
    <2>3. tracker.pos + q \in -Cap..Cap
      BY <2>1 DEF Send, GateApproves, Abs, TypeOK
    <2>4. wire' \subseteq Order
      BY <2>1, <2>2 DEF Send, TypeOK
    <2> QED BY <2>1, <2>2, <2>3, <2>4 DEF Send, TypeOK, PlacingFits, SlotIsIdle, RealIds
  <1>10. CASE PlaceReturns
    <2>1. order.qty * price \in Int /\ order.qty \in Int
      BY DEF TypeOK, Order
    <2>2. PICK cost \in Int : cost = order.qty * price
      BY <2>1
    <2>3. tracker' = [tracker EXCEPT !.pos = @ + order.qty, !.cash = @ - cost]
      BY <1>10, <2>2 DEF PlaceReturns, Booked
    <2>4. tracker.pos + order.qty \in -Cap..Cap
      BY <1>10 DEF PlaceReturns, PlacingFits
    <2>5. tracker' \in [pos : -Cap..Cap, cash : Int, high : Int]
      <3>1. order.qty \in Int
        BY <2>1
      <3>2. tracker.cash - cost \in Int
        BY DEF TypeOK
      <3> QED BY <2>3, <2>4, <3>1, <3>2 DEF TypeOK
    <2> QED BY <1>10, <2>5 DEF PlaceReturns, TypeOK, PlacingFits, SlotIsIdle, RealIds
  <1>11. CASE RecordFill
    BY <1>11, NoOrderIsOrder
      DEF RecordFill, TypeOK, PlacingFits, SlotIsIdle, RealIds
  <1>12. CASE StartFlatten
    BY <1>12 DEF StartFlatten, TypeOK, PlacingFits, SlotIsIdle, RealIds
  <1>13. CASE FlattenDone
    BY <1>13 DEF FlattenDone, TypeOK, PlacingFits, SlotIsIdle, RealIds
  <1>14. CASE \E o \in Own : CancelOne(o)
    BY <1>14 DEF CancelOne, TypeOK, PlacingFits, SlotIsIdle, RealIds
  <1>15. CASE \E realized \in Pnl : EndBar(realized)
    <2>1. PICK realized \in Pnl : EndBar(realized)
      BY <1>15
    <2>2. tracker.pos * price \in Int
      BY DEF TypeOK
    <2>3. Larger(tracker.high, Equity(tracker.pos, tracker.cash)) \in Int
      BY <2>2 DEF Larger, Equity, TypeOK
    <2>4. tracker' \in [pos : -Cap..Cap, cash : Int, high : Int]
      BY <2>1, <2>3 DEF EndBar, TypeOK
    <2>5. [realized |-> realized, high |-> tracker'.high] \in Row
      BY <2>4 DEF Row
    <2>6. rows' \in Seq(Row)
      BY <2>1, <2>5 DEF EndBar, TypeOK
    <2>7. Len(rows') <= MaxRows
      BY <2>1 DEF EndBar, TypeOK
    <2>8. cache' \in Cache
      BY <2>1 DEF EndBar, Cache, Larger, TypeOK
    <2> QED BY <2>1, <2>4, <2>6, <2>7, <2>8
           DEF EndBar, TypeOK, PlacingFits, SlotIsIdle, RealIds
  <1>16. CASE ToCleanup
    BY <1>16 DEF ToCleanup, TypeOK, PlacingFits, SlotIsIdle, RealIds
  <1>17. CASE Exit
    <2>1. seen' \in [pos : Int, orders : SUBSET Order, equity : Int, high : Int]
      BY <1>17 DEF Exit, NothingSeen
    <2>2. tracker' \in [pos : -Cap..Cap, cash : Int, high : Int]
      BY <1>17 DEF Exit, NoTracker
    <2>3. cache' \in Cache
      BY <1>17 DEF Exit, NoCache, Cache
    <2>4. pc' = "off" /\ unbooked' = 0 /\ disturbed' \in BOOLEAN
      BY <1>17, Zenon DEF Exit
    <2>5. order' = NoOrder /\ order' \in Order
      BY <1>17, NoOrderIsOrder DEF Exit
    <2>6. UNCHANGED <<strict, session, rows, recorded, sent, wire, resting, legs,
                      bpos, cash, accepted, price>>
      BY <1>17, Zenon DEF Exit
    <2>7. pc' \in {"off"} /\ disturbed' \in BOOLEAN /\ unbooked' \in Int
      BY <2>4
    <2>8. TypeOK'
      BY <2>1, <2>2, <2>3, <2>5, <2>6, <2>7 DEF TypeOK
    <2>9. PlacingFits' /\ SlotIsIdle' /\ RealIds'
      BY <2>4, <2>5, <2>6 DEF PlacingFits, SlotIsIdle, RealIds
    <2> QED BY <2>8, <2>9
  <1>18. CASE \E o \in wire : Accepts(o) \/ Rejects(o)
    <2>1. PICK o \in wire : Accepts(o) \/ Rejects(o)
      BY <1>18
    <2> QED BY <2>1 DEF Accepts, Rejects, TypeOK, PlacingFits, SlotIsIdle, RealIds
  <1>19. CASE \E o \in resting : Fills(o)
    <2>1. PICK o \in resting : Fills(o)
      BY <1>19
    <2>2. o.qty \in Int /\ o.qty * price \in Int
      BY DEF TypeOK, Order
    <2>3. PICK cost \in Int : cost = o.qty * price
      BY <2>2
    <2>4. bpos' = bpos + o.qty /\ cash' = cash - cost
      BY <2>1, <2>3 DEF Fills
    <2>5. bpos' \in Int /\ cash' \in Int
      BY <2>2, <2>4 DEF TypeOK
    <2>6. legs' \subseteq Order
      <3>1. o \in Order /\ -o.qty \in Int
        BY <2>2 DEF TypeOK
      <3>2. [o EXCEPT !.qty = -@] \in Order
        BY <3>1 DEF Order
      <3>3. legs' = legs \cup {[o EXCEPT !.qty = -@]} \/ legs' = legs
        BY <2>1 DEF Fills
      <3> QED BY <3>2, <3>3 DEF TypeOK
    <2> QED BY <2>1, <2>5, <2>6 DEF Fills, TypeOK, PlacingFits, SlotIsIdle, RealIds
  <1>22. CASE \E l \in legs : LegFills(l)
    <2>1. PICK l \in legs : LegFills(l)
      BY <1>22
    <2>2. l.qty \in Int /\ l.qty * price \in Int
      BY DEF TypeOK, Order
    <2>3. PICK cost \in Int : cost = l.qty * price
      BY <2>2
    <2>4. /\ bpos' = bpos + l.qty /\ cash' = cash - cost
          /\ unbooked' \in {unbooked + l.qty, 0}
      BY <2>1, <2>3 DEF LegFills
    <2>7. unbooked' = unbooked + l.qty \/ unbooked' = 0
      BY <2>4
    <2>5. bpos' \in Int /\ cash' \in Int /\ unbooked' \in Int
      <3>1. bpos \in Int /\ cash \in Int /\ unbooked \in Int
        BY DEF TypeOK
      <3> QED BY <2>2, <2>4, <2>7, <3>1
    <2>6. legs' \subseteq Order
      BY <2>1 DEF LegFills, TypeOK
    <2> QED BY <2>1, <2>5, <2>6 DEF LegFills, TypeOK, PlacingFits, SlotIsIdle, RealIds
  <1>20. CASE PriceMoves
    BY <1>20 DEF PriceMoves, TypeOK, PlacingFits, SlotIsIdle, RealIds
  <1>21. CASE UNCHANGED vars
    BY <1>21 DEF vars, TypeOK, PlacingFits, SlotIsIdle, RealIds
  <1> QED
    BY <1>1, <1>2, <1>3, <1>4, <1>5, <1>6, <1>7, <1>8, <1>9, <1>10, <1>11,
       <1>12, <1>13, <1>14, <1>15, <1>16, <1>17, <1>18, <1>19, <1>20, <1>21, <1>22
    DEF Next

LEMMA BasicsHold == Spec => []Basics
  BY BasicsInit, BasicsStep, PTL DEF Spec

(***************************************************************************)
(* Every variable stays in its type, and the tracker's position stays      *)
(* within the cap of the gate over all sessions, whatever was awaited      *)
(* between the approval of an order and its booking.                       *)
(***************************************************************************)
THEOREM TypeCorrect == Spec => []TypeOK
  <1>1. Basics => TypeOK
    BY DEF Basics
  <1> QED BY <1>1, BasicsHold, PTL
-----------------------------------------------------------------------------
(***************************************************************************)
(* While the exchange stands still, what has been read of the snapshot is  *)
(* what the exchange has, a strict session reaches hydrate only over a     *)
(* clean reconciliation, and legs are counted from there on.               *)
(***************************************************************************)
PictureTaken ==
    /\ pc \in Snapshotting /\ ~disturbed => seen.pos = bpos
    /\ pc \in {"account", "reconcile", "hydrate"} /\ ~disturbed
         => seen.orders = resting \cup legs
    /\ pc = "hydrate" /\ strict => Reconciled
    /\ pc \notin Trading \cup Flattened \cup {"cleanup"} => unbooked = 0

LEMMA PictureStep ==
    Basics /\ PictureTaken /\ [Next]_vars => PictureTaken'
  <1> SUFFICES ASSUME Basics, PictureTaken, [Next]_vars PROVE PictureTaken'
    OBVIOUS
  <1> USE DEF PictureTaken, Reconciled, fileVars, bookVars, Snapshotting, Trading, Flattened
  <1>1. CASE ReadPositions
    BY <1>1 DEF ReadPositions, Basics, TypeOK
  <1>2. CASE ReadOrders
    BY <1>2 DEF ReadOrders, Basics, TypeOK
  <1>3. CASE ReadAccount
    BY <1>3 DEF ReadAccount, Basics, TypeOK
  <1>4. CASE Reconcile
    BY <1>4 DEF Reconcile
  <1>5. CASE \E o \in wire : Accepts(o) \/ Rejects(o)
    <2>1. PICK o \in wire : Accepts(o) \/ Rejects(o)
      BY <1>5
    <2>2. pc \in Snapshotting => o # order
      BY NoOrderIsOrder DEF Basics, SlotIsIdle, RealIds
    <2>3. pc \in Snapshotting /\ ~disturbed' => ~disturbed /\ resting' = resting
      BY <2>1, <2>2, Zenon DEF Accepts, Rejects
    <2>4. UNCHANGED <<pc, strict, seen, bpos, legs, unbooked>>
      BY <2>1 DEF Accepts, Rejects
    <2> QED BY <2>3, <2>4
  <1>6. CASE \E o \in resting : Fills(o)
    <2>1. pc \in Snapshotting => disturbed'
      BY <1>6, Zenon DEF Fills
    <2>2. UNCHANGED <<pc, strict, seen, unbooked>>
      BY <1>6 DEF Fills
    <2> QED BY <2>1, <2>2
  <1>10. CASE \E l \in legs : LegFills(l)
    <2>1. pc \in Snapshotting => disturbed'
      BY <1>10, Zenon DEF LegFills
    <2>2. UNCHANGED <<pc, strict, seen>>
      BY <1>10 DEF LegFills
    <2>3. pc \notin Trading => unbooked' = 0
      BY <1>10 DEF LegFills
    <2> QED BY <2>1, <2>2, <2>3
  <1>7. CASE \/ Boot \/ OpenJournal \/ ConnectBroker \/ Hydrate
             \/ \E q \in Qty : Send(q)
             \/ PlaceReturns \/ RecordFill \/ StartFlatten \/ FlattenDone
    BY <1>7 DEF Boot, OpenJournal, ConnectBroker, Hydrate, Send, PlaceReturns,
                RecordFill, StartFlatten, FlattenDone
  <1>8. CASE \/ \E o \in Own : CancelOne(o)
             \/ \E realized \in Pnl : EndBar(realized)
             \/ ToCleanup \/ Exit
    BY <1>8 DEF CancelOne, EndBar, ToCleanup, Exit
  <1>9. CASE PriceMoves \/ UNCHANGED vars
    BY <1>9 DEF PriceMoves, vars
  <1> QED BY <1>1, <1>2, <1>3, <1>4, <1>5, <1>6, <1>7, <1>8, <1>9,
             <1>10 DEF Next

(***************************************************************************)
(* For any number of sessions and of orders, and however they died: a      *)
(* strict session that the exchange did not move under passes reconcile    *)
(* only with a flat account and nothing resting, no leg of a bracket       *)
(* either.                                                                 *)
(***************************************************************************)
THEOREM OnlyFlatPasses == Spec => []OnlyFlatPassesReconcile
  <1>1. Init => PictureTaken
    BY DEF Init, PictureTaken, Snapshotting
  <1>2. PictureTaken => OnlyFlatPassesReconcile
    BY DEF PictureTaken, OnlyFlatPassesReconcile, Reconciled, Snapshotting
  <1> QED BY <1>1, <1>2, BasicsHold, PictureStep, PTL DEF Spec
-----------------------------------------------------------------------------
(***************************************************************************)
(* Orders without a row that the exchange has or may still get: one for a  *)
(* session at most; none of the present session before it sends, and only  *)
(* the order in its slot until the slot is recorded.                       *)
(***************************************************************************)
Unrecorded == (wire \cup accepted) \ recorded

RowsLost ==
    /\ \A a, b \in Unrecorded : a.session = b.session => a = b
    /\ \A a \in Unrecorded : a.session \in 0..session
    /\ pc \in {"placing", "recording"} =>
         \A a \in Unrecorded : a.session = session => a = order
    /\ pc \notin {"off", "cleanup", "placing", "recording"} =>
         \A a \in Unrecorded : a.session # session

LEMMA RowsStep == Basics /\ RowsLost /\ [Next]_vars => RowsLost'
  <1> SUFFICES ASSUME Basics, RowsLost, [Next]_vars PROVE RowsLost'
    OBVIOUS
  <1> USE DEF fileVars, bookVars
  <1>0. session \in Nat
    BY DEF Basics, TypeOK
  <1>1. CASE Boot
    <2>1. Unrecorded' = Unrecorded
      BY <1>1 DEF Boot, Unrecorded
    <2>2. pc' = "open" /\ session' = session + 1
      BY <1>1 DEF Boot
    <2>3. \A a \in Unrecorded : a.session \in 0..session /\ a.session # session + 1
      BY <1>0 DEF RowsLost
    <2> QED BY <1>0, <2>1, <2>2, <2>3 DEF RowsLost
  <1>2. CASE \E q \in Qty : Send(q)
    <2>1. PICK q \in Qty : Send(q)
      BY <1>2
    <2>2. Unrecorded' \subseteq Unrecorded \cup {order'}
      BY <2>1 DEF Send, Unrecorded
    <2>3. order'.session = session /\ session' = session
      BY <2>1 DEF Send
    <2>4. pc = "trading" /\ pc' = "placing"
      BY <2>1 DEF Send
    <2>5. \A a \in Unrecorded : a.session # session
      BY <2>4 DEF RowsLost
    <2>6. session \in 0..session
      BY <1>0
    <2>7. \A a \in Unrecorded' : a = order' \/ a \in Unrecorded
      BY <2>2
    <2>8. \A a, b \in Unrecorded' : a.session = b.session => a = b
      BY <2>3, <2>5, <2>7 DEF RowsLost
    <2>9. \A a \in Unrecorded' : a.session \in 0..session'
      BY <2>3, <2>6, <2>7 DEF RowsLost
    <2>10. \A a \in Unrecorded' : a.session = session' => a = order'
      BY <2>3, <2>5, <2>7
    <2> QED BY <2>4, <2>8, <2>9, <2>10 DEF RowsLost
  <1>3. CASE RecordFill
    <2>1. Unrecorded' = Unrecorded \ {order}
      BY <1>3 DEF RecordFill, Unrecorded
    <2>2. pc = "recording" /\ pc' = "trading" /\ session' = session
      BY <1>3 DEF RecordFill
    <2> QED BY <2>1, <2>2 DEF RowsLost
  <1>4. CASE \E o \in wire : Accepts(o) \/ Rejects(o)
    <2>1. PICK o \in wire : Accepts(o) \/ Rejects(o)
      BY <1>4
    <2>2. Unrecorded' \subseteq Unrecorded
      BY <2>1 DEF Accepts, Rejects, Unrecorded
    <2>3. UNCHANGED <<pc, session, order>>
      BY <2>1 DEF Accepts, Rejects
    <2> QED BY <2>2, <2>3 DEF RowsLost
  <1>5. CASE PlaceReturns
    BY <1>5 DEF PlaceReturns, RowsLost, Unrecorded
  <1>6. CASE \/ OpenJournal \/ ConnectBroker \/ ReadPositions \/ ReadOrders
             \/ ReadAccount \/ Reconcile \/ Hydrate
    BY <1>6 DEF OpenJournal, ConnectBroker, ReadPositions, ReadOrders,
                ReadAccount, Reconcile, Hydrate, RowsLost, Unrecorded
  <1>7. CASE \/ StartFlatten \/ FlattenDone
             \/ \E o \in Own : CancelOne(o)
             \/ \E realized \in Pnl : EndBar(realized)
    BY <1>7 DEF StartFlatten, FlattenDone, CancelOne, EndBar, RowsLost, Unrecorded
  <1>8. CASE \/ ToCleanup \/ Exit \/ \E o \in resting : Fills(o)
             \/ \E l \in legs : LegFills(l)
             \/ PriceMoves \/ UNCHANGED vars
    BY <1>8 DEF ToCleanup, Exit, Fills, LegFills, PriceMoves, vars, RowsLost,
                Unrecorded
  <1> QED BY <1>1, <1>2, <1>3, <1>4, <1>5, <1>6, <1>7, <1>8 DEF Next

(***************************************************************************)
(* A session, however it ends, leaves one accepted order at most without   *)
(* its row in fills, for any number of sessions and of orders.             *)
(***************************************************************************)
THEOREM OneRowAtMost == Spec => []OneLostRowPerSession
  <1>1. Init => RowsLost
    BY DEF Init, RowsLost, Unrecorded
  <1>2. RowsLost => OneLostRowPerSession
    BY DEF RowsLost, OneLostRowPerSession, Unrecorded
  <1> QED BY <1>1, <1>2, BasicsHold, RowsStep, PTL DEF Spec
-----------------------------------------------------------------------------
(***************************************************************************)
(* What record_equity_snapshot does to the cache is what a replay of the   *)
(* longer table would give.                                                *)
(***************************************************************************)
LEMMA ReplayOfAppend ==
    ASSUME NEW snapshots \in Seq(Row), NEW c \in Cache, IsReplay(snapshots, c),
           NEW realized \in Pnl, NEW high \in Int
    PROVE  IsReplay(Append(snapshots, [realized |-> realized, high |-> high]),
                    [best |-> Larger(c.best, realized), net |-> realized])
  <1> DEFINE row == [realized |-> realized, high |-> high]
             longer == Append(snapshots, row)
             new == [best |-> Larger(c.best, realized), net |-> realized]
             n == Len(snapshots)
  <1>1. row \in Row
    BY DEF Row
  <1>2. /\ n \in Nat /\ Len(longer) = n + 1 /\ DOMAIN longer = 1..(n + 1)
        /\ DOMAIN snapshots = 1..n
    BY <1>1
  <1>3. longer[n + 1] = row /\ \A k \in 1..n : longer[k] = snapshots[k]
    BY <1>1
  <1>4. \A k \in 1..n : snapshots[k].realized \in Int
    <2>1. \A k \in 1..n : snapshots[k] \in Row
      OBVIOUS
    <2> QED BY <2>1 DEF Row
  <1>5. c.best \in Int /\ realized \in Int
    <2>1. c.best \in Pnl \cup {0}
      BY DEF Cache
    <2>2. Pnl \subseteq Int /\ 0 \in Int
      OBVIOUS
    <2>3. realized \in Pnl
      OBVIOUS
    <2> QED BY <2>1, <2>2, <2>3, Zenon
  <1>6. /\ c.best \in {0} \cup {snapshots[k].realized : k \in 1..n}
        /\ c.best >= 0 /\ \A k \in 1..n : snapshots[k].realized <= c.best
    BY <1>2 DEF IsReplay
  <1>7. row.realized = realized /\ new.best = Larger(c.best, realized)
        /\ new.net = realized
    OBVIOUS
  <1> HIDE DEF row, longer, new, n
  <1>8. new.best >= 0 /\ new.best >= c.best /\ new.best >= realized
    BY <1>5, <1>6, <1>7 DEF Larger
  <1>9. \A k \in 1..(n + 1) : longer[k].realized <= new.best
    <2> SUFFICES ASSUME NEW k \in 1..(n + 1) PROVE longer[k].realized <= new.best
      OBVIOUS
    <2>1. CASE k = n + 1
      BY <1>3, <1>7, <1>8, <2>1
    <2>2. CASE k \in 1..n
      <3>1. longer[k].realized = snapshots[k].realized
        BY <1>3, <2>2
      <3>2. new.best \in Int
        BY <1>5, <1>7 DEF Larger
      <3> QED BY <1>4, <1>5, <1>6, <1>8, <2>2, <3>1, <3>2
    <2> QED BY <1>2, <2>1, <2>2
  <1>10. new.best \in {0} \cup {longer[k].realized : k \in 1..(n + 1)}
    <2>1. CASE new.best = realized
      BY <1>2, <1>3, <1>7, <2>1
    <2>2. CASE new.best = c.best
      BY <1>2, <1>3, <1>6, <2>2
    <2> QED BY <1>7, <2>1, <2>2 DEF Larger
  <1>11. longer # <<>> /\ new.net = longer[Len(longer)].realized
    BY <1>2, <1>3, <1>7
  <1>12. IsReplay(longer, new)
    BY <1>2, <1>8, <1>9, <1>10, <1>11 DEF IsReplay
  <1> QED BY <1>12 DEF longer, row, new

LEMMA CacheStep == Basics /\ CacheIsReplay /\ [Next]_vars => CacheIsReplay'
  <1> SUFFICES ASSUME Basics, CacheIsReplay, [Next]_vars PROVE CacheIsReplay'
    OBVIOUS
  <1> USE DEF fileVars, bookVars
  <1>1. CASE \E realized \in Pnl : EndBar(realized)
    <2>1. PICK realized \in Pnl : EndBar(realized)
      BY <1>1
    <2>2. rows \in Seq(Row) /\ cache \in Cache /\ tracker'.high \in Int
      BY BasicsStep DEF Basics, TypeOK
    <2>3. IsReplay(rows, cache)
      BY <2>1 DEF EndBar, CacheIsReplay
    <2>4. /\ rows' = Append(rows, [realized |-> realized, high |-> tracker'.high])
          /\ cache' = [best |-> Larger(cache.best, realized), net |-> realized]
      BY <2>1 DEF EndBar
    <2>5. IsReplay(rows', cache')
      BY <2>2, <2>3, <2>4, ReplayOfAppend
    <2> QED BY <2>5 DEF CacheIsReplay
  <1>2. CASE OpenJournal
    BY <1>2 DEF OpenJournal, CacheIsReplay
  <1>3. CASE Boot \/ Exit
    BY <1>3 DEF Boot, Exit, CacheIsReplay
  <1>4. CASE \/ ConnectBroker \/ ReadPositions \/ ReadOrders \/ ReadAccount
             \/ Reconcile \/ Hydrate \/ StartFlatten \/ FlattenDone
             \/ \E o \in Own : CancelOne(o)
    BY <1>4 DEF ConnectBroker, ReadPositions, ReadOrders, ReadAccount, Reconcile,
                Hydrate, StartFlatten, FlattenDone, CancelOne, CacheIsReplay
  <1>5. CASE \/ \E q \in Qty : Send(q)
             \/ PlaceReturns \/ RecordFill \/ ToCleanup
    BY <1>5 DEF Send, PlaceReturns, RecordFill, ToCleanup, CacheIsReplay,
                Trading, Flattened, Snapshotting
  <1>6. CASE \/ \E o \in wire : Accepts(o) \/ Rejects(o)
             \/ \E o \in resting : Fills(o)
             \/ \E l \in legs : LegFills(l)
             \/ PriceMoves \/ UNCHANGED vars
    BY <1>6 DEF Accepts, Rejects, Fills, LegFills, PriceMoves, vars, CacheIsReplay
  <1> QED BY <1>1, <1>2, <1>3, <1>4, <1>5, <1>6 DEF Next

(***************************************************************************)
(* The cache that the gate's rule 6 would be given is the replay of the    *)
(* committed snapshots, in every session and for any number of them.       *)
(***************************************************************************)
THEOREM CacheIsRight == Spec => []CacheIsReplay
  <1>1. Init => CacheIsReplay
    BY DEF Init, CacheIsReplay
  <1> QED BY <1>1, BasicsHold, CacheStep, PTL DEF Spec
-----------------------------------------------------------------------------
(***************************************************************************)
(* The picture a session trades on.  What the resting orders add up to     *)
(* changes with each order that the exchange takes or fills (Facts).       *)
(***************************************************************************)
Due(orders) == SumFunction([o \in orders |-> o.qty])

LEMMA DueIsInt ==
    ASSUME NEW S \in SUBSET Order, IsFiniteSet(S)
    PROVE  Due(S) \in Int
  <1> DEFINE q == [o \in S |-> o.qty]
  <1>1. \A o \in S : q[o] \in Int
    BY DEF Order
  <1>2. DOMAIN q = S
    OBVIOUS
  <1> HIDE DEF q
  <1>3. SumFunctionOnSet(q, S) \in Int
    BY <1>1, SumIsInt
  <1> QED BY <1>2, <1>3 DEF Due, SumFunction, q

LEMMA DueGrows ==
    ASSUME NEW S \in SUBSET Order, IsFiniteSet(S), NEW o \in Order, o \notin S
    PROVE  Due(S \cup {o}) = Due(S) + o.qty
  <1> DEFINE A == S \cup {o}
             q == [x \in A |-> x.qty]
             r == [x \in S |-> x.qty]
  <1>1. /\ DOMAIN q = A /\ DOMAIN r = S
        /\ q[o] = o.qty
        /\ \A x \in S : q[x] = r[x]
    OBVIOUS
  <1>2. q[o] \in Int /\ \A x \in S : q[x] \in Int
    BY DEF Order
  <1> HIDE DEF q, r
  <1>3. SumFunctionOnSet(q, S \cup {o}) = SumFunctionOnSet(q, S) + q[o]
    BY <1>2, SumGrows
  <1>4. SumFunctionOnSet(q, S) = SumFunctionOnSet(r, S)
    BY <1>1, SumAgrees
  <1>5. SumFunction(q) = SumFunction(r) + o.qty
    BY <1>1, <1>3, <1>4 DEF SumFunction
  <1> QED BY <1>5 DEF Due, q, r

LEMMA DueShrinks ==
    ASSUME NEW S \in SUBSET Order, IsFiniteSet(S), NEW o \in S
    PROVE  Due(S) = Due(S \ {o}) + o.qty
  <1> DEFINE R == S \ {o}
  <1>1. R \in SUBSET Order /\ IsFiniteSet(R) /\ o \in Order /\ o \notin R
    BY FS_Subset
  <1>2. R \cup {o} = S
    OBVIOUS
  <1> HIDE DEF R
  <1>3. Due(R \cup {o}) = Due(R) + o.qty
    BY <1>1, DueGrows
  <1> QED BY <1>2, <1>3 DEF R

LEMMA NothingDue == Due({}) = 0
  <1> DEFINE q == [o \in {} |-> o.qty]
  <1>1. DOMAIN q = {}
    OBVIOUS
  <1> HIDE DEF q
  <1>2. SumFunction(q) = 0
    BY <1>1, SumOfNone DEF SumFunction
  <1> QED BY <1>2 DEF Due, q

(***************************************************************************)
(* An order is in one place: on the wire, or at the exchange; its id is    *)
(* not used again; and while the exchange is true to the session, the      *)
(* order being placed is on the wire or accepted, and no other one of the  *)
(* session is under way.                                                   *)
(***************************************************************************)
OnePlace ==
    /\ IsFiniteSet(resting)
    /\ \A o \in wire \cup resting \cup accepted : o.id <= sent
    /\ \A o \in wire : o \notin resting /\ o \notin accepted
    /\ pc = "placing" /\ ~disturbed => order \in wire \cup accepted
    /\ pc \in {"trading", "recording"} => order \notin wire

LEMMA OnePlaceInit == Init => OnePlace
  BY FS_EmptySet DEF Init, OnePlace, NoOrder

LEMMA OnePlaceStep == Basics /\ OnePlace /\ [Next]_vars => OnePlace'
  <1> SUFFICES ASSUME Basics, OnePlace, [Next]_vars PROVE OnePlace'
    OBVIOUS
  <1> USE DEF OnePlace, fileVars, bookVars
  <1>1. CASE \/ Boot \/ OpenJournal \/ ConnectBroker
             \/ ReadPositions \/ ReadOrders \/ ReadAccount \/ Reconcile
    BY <1>1 DEF Boot, OpenJournal, ConnectBroker, ReadPositions, ReadOrders,
                ReadAccount, Reconcile
  <1>2. CASE Hydrate
    <2>1. order \notin wire
      BY <1>2, NoOrderIsOrder DEF Hydrate, Basics, SlotIsIdle, RealIds, Snapshotting
    <2> QED BY <1>2, <2>1 DEF Hydrate
  <1>3. ASSUME NEW q \in Qty, Send(q)
        PROVE  OnePlace'
    <2>1. /\ order'.id = sent + 1 /\ sent' = sent + 1 /\ sent \in Nat
          /\ wire' = wire \cup {order'} /\ pc' = "placing"
          /\ UNCHANGED <<resting, accepted>>
      BY <1>3 DEF Send, Basics, TypeOK
    <2>2. \A o \in wire \cup resting \cup accepted : o.id \in Nat
      BY DEF Basics, TypeOK, Order
    <2>3. order' \notin resting /\ order' \notin accepted
      BY <2>1, <2>2
    <2> QED BY <2>1, <2>2, <2>3
  <1>4. CASE PlaceReturns
    BY <1>4 DEF PlaceReturns
  <1>5. CASE RecordFill
    BY <1>5, NoOrderIsOrder DEF RecordFill, Basics, RealIds
  <1>6. CASE StartFlatten \/ FlattenDone \/ ToCleanup
    BY <1>6 DEF StartFlatten, FlattenDone, ToCleanup
  <1>7. CASE \E o \in Own : CancelOne(o)
    <2>1. PICK o \in Own : CancelOne(o)
      BY <1>7
    <2>2. IsFiniteSet(resting \ {o})
      BY FS_Subset
    <2> QED BY <2>1, <2>2 DEF CancelOne
  <1>8. CASE \/ \E realized \in Pnl : EndBar(realized)
             \/ Exit \/ PriceMoves \/ \E l \in legs : LegFills(l)
    BY <1>8 DEF EndBar, Exit, PriceMoves, LegFills
  <1>9. ASSUME NEW o \in wire, Accepts(o)
        PROVE  OnePlace'
    <2>1. /\ wire' = wire \ {o} /\ resting' = resting \cup {o}
          /\ accepted' = accepted \cup {o}
          /\ disturbed' = (disturbed \/ o # order)
          /\ UNCHANGED <<pc, order, sent>>
      BY <1>9 DEF Accepts
    <2>2. IsFiniteSet(resting')
      BY <2>1, FS_AddElement
    <2>3. pc = "placing" /\ ~disturbed' => order \in accepted'
      BY <2>1
    <2> QED BY <2>1, <2>2, <2>3
  <1>10. ASSUME NEW o \in wire, Rejects(o)
         PROVE  OnePlace'
    <2>1. /\ wire' = wire \ {o} /\ disturbed' = (disturbed \/ o = order)
          /\ UNCHANGED <<pc, order, sent, resting, accepted>>
      BY <1>10 DEF Rejects
    <2>2. pc = "placing" /\ ~disturbed' => order \in wire' \cup accepted
      BY <2>1
    <2> QED BY <2>1, <2>2
  <1>11. ASSUME NEW o \in resting, Fills(o)
         PROVE  OnePlace'
    <2>1. /\ resting' = resting \ {o}
          /\ disturbed' = (disturbed \/ pc \in Snapshotting)
          /\ UNCHANGED <<pc, order, sent, wire, accepted>>
      BY <1>11 DEF Fills
    <2>2. IsFiniteSet(resting')
      BY <2>1, FS_Subset
    <2>3. ~disturbed' => ~disturbed
      BY <2>1
    <2> QED BY <2>1, <2>2, <2>3
  <1>12. CASE UNCHANGED vars
    BY <1>12 DEF vars
  <1> QED BY <1>1, <1>2, <1>3, <1>4, <1>5, <1>6, <1>7, <1>8, <1>9, <1>10,
             <1>11, <1>12 DEF Next

\* What the session believes, and what it has coming (PictureHolds).
Answered == IF pc = "placing" /\ order \in accepted THEN order.qty ELSE 0

LEMMA PictureIsDue ==
    PictureHolds <=> (pc \in Trading /\ strict /\ ~disturbed =>
                        tracker.pos + unbooked + Answered = bpos + Due(resting))
  BY DEF PictureHolds, Answered, Due

\* A step that leaves the account and the belief alone.
LEMMA PictureStays ==
    ASSUME PictureHolds, UNCHANGED <<tracker, bpos, resting, unbooked>>,
           pc' \in Trading /\ strict' /\ ~disturbed'
             => pc \in Trading /\ strict /\ ~disturbed /\ Answered' = Answered
    PROVE  PictureHolds'
  BY DEF PictureHolds, Answered

LEMMA PictureHoldsStep ==
    Basics /\ OnePlace /\ PictureTaken /\ PictureHolds /\ [Next]_vars
      => PictureHolds'
  <1> SUFFICES ASSUME Basics, OnePlace, PictureTaken, PictureHolds, [Next]_vars
               PROVE  PictureHolds'
    OBVIOUS
  <1>t. /\ tracker.pos \in Int /\ bpos \in Int /\ unbooked \in Int
        /\ resting \in SUBSET Order /\ wire \in SUBSET Order
        /\ order \in Order /\ order.qty \in Int
        /\ IsFiniteSet(resting)
        /\ tracker \in [pos : -Cap..Cap, cash : Int, high : Int]
    BY DEF Basics, TypeOK, Order, OnePlace
  <1>d. Due(resting) \in Int
    BY <1>t, DueIsInt
  <1>1. CASE \/ Boot \/ OpenJournal \/ ConnectBroker \/ ReadPositions
             \/ ReadOrders \/ ReadAccount \/ Reconcile
             \/ StartFlatten \/ FlattenDone \/ ToCleanup \/ Exit
    <2>1. pc' \notin Trading
      BY <1>1 DEF Boot, OpenJournal, ConnectBroker, ReadPositions, ReadOrders,
                  ReadAccount, Reconcile, StartFlatten, FlattenDone, ToCleanup,
                  Exit, Trading
    <2> QED BY <2>1 DEF PictureHolds
  <1>2. CASE Hydrate
    <2>1. /\ pc = "hydrate" /\ pc' \in {"trading", "cleanup"}
          /\ pc' = "trading" => tracker' = LoopTracker
          /\ UNCHANGED <<strict, disturbed, bpos, resting, unbooked>>
      BY <1>2 DEF Hydrate, bookVars
    <2>2. (strict /\ ~disturbed => bpos = 0 /\ resting = {}) /\ unbooked = 0
      BY <2>1 DEF PictureTaken, Reconciled, Snapshotting, Trading, Flattened
    <2>3. pc' \in Trading => pc' = "trading" /\ tracker'.pos = 0 /\ Answered' = 0
      BY <2>1 DEF Trading, LoopTracker, Answered
    <2>4. ASSUME pc' \in Trading, strict', ~disturbed'
          PROVE  tracker'.pos + unbooked' + Answered' = bpos' + Due(resting')
      BY <2>1, <2>2, <2>3, <2>4, NothingDue
    <2>5. Due(resting)' = Due(resting')
      BY DEF Due
    <2> QED BY <2>4, <2>5 DEF PictureHolds, Answered, Due
  <1>3. ASSUME NEW q \in Qty, Send(q)
        PROVE  PictureHolds'
    <2>1. /\ pc = "trading" /\ pc' = "placing"
          /\ order'.id = sent + 1 /\ sent \in Nat
          /\ UNCHANGED <<strict, tracker, resting, bpos, accepted, unbooked, disturbed>>
      BY <1>3 DEF Send, Basics, TypeOK
    <2>2. order' \notin accepted
      <3>1. \A o \in accepted : o.id <= sent /\ o.id \in Nat
        BY DEF Basics, TypeOK, Order, OnePlace
      <3> QED BY <2>1, <3>1
    <2>3. Answered' = 0 /\ Answered = 0
      BY <2>1, <2>2 DEF Answered
    <2> QED BY <2>1, <2>3, PictureStays DEF Trading
  <1>4. CASE PlaceReturns
    <2>1. /\ pc = "placing" /\ pc' = "recording" /\ order \notin wire
          /\ tracker'.pos = tracker.pos + order.qty
          /\ UNCHANGED <<strict, resting, bpos, unbooked, disturbed>>
      BY <1>4, <1>t DEF PlaceReturns, Booked, bookVars
    <2>2. strict /\ ~disturbed => Answered = order.qty
      BY <2>1 DEF OnePlace, Answered
    <2>3. Answered' = 0
      BY <2>1 DEF Answered
    <2>4. ASSUME strict', ~disturbed'
          PROVE  tracker'.pos + unbooked' + Answered' = bpos' + Due(resting')
      <3>1. tracker.pos + unbooked + Answered = bpos + Due(resting)
        BY <2>1, <2>4, PictureIsDue DEF Trading
      <3> QED BY <1>t, <2>1, <2>2, <2>3, <2>4, <3>1
    <2>5. Due(resting)' = Due(resting')
      BY DEF Due
    <2> QED BY <2>4, <2>5 DEF PictureHolds, Answered, Due
  <1>5. CASE RecordFill
    <2>1. /\ pc = "recording" /\ pc' = "trading"
          /\ UNCHANGED <<strict, tracker, resting, bpos, unbooked, disturbed>>
      BY <1>5 DEF RecordFill, bookVars
    <2>2. Answered' = 0 /\ Answered = 0
      BY <2>1 DEF Answered
    <2> QED BY <2>1, <2>2, PictureStays DEF Trading
  <1>6. CASE \E o \in Own : CancelOne(o)
    <2>1. pc' \notin Trading
      BY <1>6 DEF CancelOne, Trading
    <2> QED BY <2>1 DEF PictureHolds
  <1>7. CASE \E realized \in Pnl : EndBar(realized)
    <2>1. PICK realized \in Pnl : EndBar(realized)
      BY <1>7
    <2>2. /\ tracker'.pos = tracker.pos
          /\ UNCHANGED <<pc, strict, order, accepted, resting, bpos, unbooked,
                         disturbed>>
      BY <1>t, <2>1 DEF EndBar, bookVars
    <2> QED BY <2>2 DEF PictureHolds
  <1>8. ASSUME NEW o \in wire, Accepts(o)
        PROVE  PictureHolds'
    <2>1. /\ resting' = resting \cup {o} /\ accepted' = accepted \cup {o}
          /\ disturbed' = (disturbed \/ o # order)
          /\ UNCHANGED <<pc, strict, tracker, order, bpos, unbooked>>
      BY <1>8 DEF Accepts
    <2>2. o \in Order /\ o \notin resting /\ o \notin accepted
      BY <1>t DEF OnePlace
    <2>3. Due(resting') = Due(resting) + o.qty
      BY <1>t, <2>1, <2>2, DueGrows
    <2>4. ASSUME pc' \in Trading, strict', ~disturbed'
          PROVE  tracker'.pos + unbooked' + Answered' = bpos' + Due(resting')
      <3>1. o = order /\ ~disturbed /\ strict /\ pc \in Trading
        BY <2>1, <2>4
      <3>2. pc = "placing"
        BY <3>1 DEF OnePlace, Trading
      <3>3. Answered = 0 /\ Answered' = order.qty
        BY <2>1, <2>2, <3>1, <3>2 DEF Answered
      <3>4. tracker.pos + unbooked + Answered = bpos + Due(resting)
        BY <3>1, PictureIsDue
      <3> QED BY <1>t, <1>d, <2>1, <2>3, <3>1, <3>3, <3>4
    <2>5. Due(resting)' = Due(resting')
      BY DEF Due
    <2> QED BY <2>4, <2>5 DEF PictureHolds, Answered, Due
  <1>9. ASSUME NEW o \in wire, Rejects(o)
        PROVE  PictureHolds'
    <2>1. /\ disturbed' = (disturbed \/ o = order)
          /\ UNCHANGED <<pc, strict, tracker, order, resting, bpos, accepted, unbooked>>
      BY <1>9 DEF Rejects
    <2>2. ~disturbed' => ~disturbed
      BY <2>1
    <2>3. Answered' = Answered
      BY <2>1 DEF Answered
    <2> QED BY <2>1, <2>2, <2>3, PictureStays
  <1>10. ASSUME NEW o \in resting, Fills(o)
         PROVE  PictureHolds'
    <2>1. /\ resting' = resting \ {o} /\ bpos' = bpos + o.qty
          /\ disturbed' = (disturbed \/ pc \in Snapshotting)
          /\ UNCHANGED <<pc, strict, tracker, order, accepted, unbooked>>
      BY <1>10 DEF Fills
    <2>2. Due(resting) = Due(resting') + o.qty
      BY <1>t, <2>1, DueShrinks
    <2>3. Due(resting') \in Int /\ o.qty \in Int
      <3>1. resting' \in SUBSET Order /\ IsFiniteSet(resting')
        BY <1>t, <2>1, FS_Subset
      <3> QED BY <1>t, <3>1, DueIsInt DEF Order
    <2>4. Answered' = Answered
      BY <2>1 DEF Answered
    <2>5. ASSUME pc' \in Trading, strict', ~disturbed'
          PROVE  tracker'.pos + unbooked' + Answered' = bpos' + Due(resting')
      <3>1. tracker.pos + unbooked + Answered = bpos + Due(resting)
        BY <2>1, <2>5, PictureIsDue
      <3> QED BY <1>t, <2>1, <2>2, <2>3, <2>4, <3>1
    <2>6. Due(resting)' = Due(resting')
      BY DEF Due
    <2> QED BY <2>5, <2>6 DEF PictureHolds, Answered, Due
  <1>12. ASSUME NEW l \in legs, LegFills(l)
         PROVE  PictureHolds'
    <2>1. /\ bpos' = bpos + l.qty
          /\ disturbed' = (disturbed \/ pc \in Snapshotting)
          /\ pc \in Trading => unbooked' = unbooked + l.qty
          /\ UNCHANGED <<pc, strict, tracker, order, resting, accepted>>
      BY <1>12 DEF LegFills
    <2>2. l.qty \in Int
      BY DEF Basics, TypeOK, Order
    <2>3. Answered' = Answered /\ Answered \in Int
      BY <1>t, <2>1 DEF Answered
    <2>4. ASSUME pc' \in Trading, strict', ~disturbed'
          PROVE  tracker'.pos + unbooked' + Answered' = bpos' + Due(resting')
      <3>1. tracker.pos + unbooked + Answered = bpos + Due(resting)
        BY <2>1, <2>4, PictureIsDue
      <3>2. unbooked' = unbooked + l.qty /\ tracker' = tracker /\ resting' = resting
        BY <2>1, <2>4
      <3> QED BY <1>t, <1>d, <2>1, <2>2, <2>3, <3>1, <3>2
    <2>5. Due(resting)' = Due(resting')
      BY DEF Due
    <2> QED BY <2>4, <2>5 DEF PictureHolds, Answered, Due
  <1>11. CASE PriceMoves \/ UNCHANGED vars
    BY <1>11 DEF PriceMoves, vars, bookVars, PictureHolds
  <1> QED BY <1>1, <1>2, <1>3, <1>4, <1>5, <1>6, <1>7, <1>8, <1>9, <1>10,
             <1>11, <1>12 DEF Next

(***************************************************************************)
(* Over any number of sessions and orders the tracker of a strict session  *)
(* differs from the account by what rests, by what was accepted and not    *)
(* answered, and by what the legs of its brackets filled, which nothing    *)
(* books (live_loop.py 276-290, topstepx_client.py 268-286); until a       *)
(* forced flatten, or an exchange that rejects an order or takes one of an *)
(* earlier session.                                                        *)
(***************************************************************************)
THEOREM PictureStaysRight == Spec => []PictureHolds
  <1>1. Init => PictureTaken /\ PictureHolds
    BY DEF Init, PictureTaken, PictureHolds, Snapshotting, Trading
  <1> QED BY <1>1, OnePlaceInit, OnePlaceStep, BasicsHold, PictureStep,
             PictureHoldsStep, PTL DEF Spec
=============================================================================
