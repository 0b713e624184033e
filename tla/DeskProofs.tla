----------------------------- MODULE DeskProofs -----------------------------
(***************************************************************************)
(* Theorems about four of the parts of MCDesk: the orders of a broker      *)
(* adapter, for any number of callers, ids and orders; the indicator       *)
(* strategies, for any number of days, trades a day and bars of warm-up;   *)
(* the reconnect of an adapter, for any deadlines, waits and lengths of an *)
(* attempt; and the simulated account, for any symbols, prices and sizes.  *)
(* The four share no variable and no step.                                 *)
(***************************************************************************)
EXTENDS BrokerOrders, BrokerSession, IndicatorStrategies, TopstepxSim, Facts

(***************************************************************************)
(* BrokerOrders: OnlyLostAnswersAreOutOfReach and                          *)
(* SecondOrderNeedsALostAnswer.  They lean on each other: an order leaves  *)
(* the table only when another one of its id is answered, and that takes   *)
(* two calls at once or a second order, which takes a lost answer.         *)
(***************************************************************************)

Orders == air \cup book

Sent(c) == calls[c].pc # "idle"

Of(c, o) == Sent(c) /\ calls[c].no = o.no

\* The numbers that orders, calls and the table know were given out.
Numbered ==
    /\ sends \in Nat /\ born \in Nat /\ born <= sends
    /\ \A o \in Orders : o.no \in 1..sends /\ o.id \in Ids
    /\ calls \in [Callers -> [pc : {"idle", "sent", "taken", "refused"},
                              id : Ids \cup {0}, no : Nat]]
    /\ \A c \in Callers : Sent(c) => calls[c].no \in 1..sends /\ calls[c].id \in Ids
    /\ tracked \in [Ids -> Nat]
    /\ recent \in [Ids -> {"none", "PENDING", "REJECTED"}]

\* A number is of one order and of one call, which agree on the id.
OneOfEach ==
    /\ \A o, p \in Orders : o.no = p.no => o = p
    /\ \A o \in air : o \notin book
    /\ \A c, d \in Callers : Sent(c) /\ Sent(d) /\ calls[c].no = calls[d].no => c = d
    /\ \A c \in Callers, o \in Orders :
          Of(c, o) => calls[c].id = o.id /\ calls[c].pc # "refused"

\* Nobody waits for an id that was answered, and one call at most for another,
\* unless calls overlapped.
Overlaps ==
    /\ \A c \in Callers :
          Sent(c) /\ recent[calls[c].id] # "none" => calls[c].id \in overlapped
    /\ \A c, d \in Callers :
          Sent(c) /\ Sent(d) /\ c # d /\ calls[c].id = calls[d].id
              => calls[c].id \in overlapped
    /\ \A i \in Ids : tracked[i] # 0 => recent[i] # "none"
    /\ rail = "ib" => \A c \in Callers : ~Sent(c)

\* The adapter cannot know of the order: its call raised, or was made in another
\* process.
Unknown(o) == o.no \in lost \/ o.no <= born

\* Every order, on its way or at the exchange, can be accounted for.
Accounted(o) ==
    \/ tracked[o.id] = o.no
    \/ Unknown(o) \/ o.id \in overlapped
    \/ \E c \in Callers : Of(c, o)

InReach == \A o \in Orders : Accounted(o)

\* The two halves of SecondOrderNeedsALostAnswer.
EarlierIsLost ==
    \A o, p \in Orders : o.id = p.id /\ o.id \notin overlapped /\ o.no < p.no => Unknown(o)

StraysAreLost ==
    \A o \in Orders :
        recent[o.id] # "none" /\ o.id \notin overlapped /\ o.no # tracked[o.id]
            => Unknown(o)

OrdersInv == Numbered /\ OneOfEach /\ Overlaps /\ InReach /\ EarlierIsLost /\ StraysAreLost

\* Initially no order was placed (OrdersInit).
LEMMA OrdersInitially == OrdersInit => OrdersInv
    BY DEF OrdersInit, OrdersInv, Numbered, OneOfEach, Overlaps, InReach, EarlierIsLost,
           StraysAreLost, Unknown, Orders, Sent, Of, NoCall

\* Cancellations, fills and the connection only take orders away (cancel_all,
\* cancel_order, and what the exchange does with what rests).
LEMMA TakingAwayKeeps ==
    ASSUME OrdersInv,
           UNCHANGED <<rail, calls, recent, tracked, sends, overlapped, lost, born>>,
           air' \subseteq air, book' \subseteq book
    PROVE  OrdersInv'
    BY DEF OrdersInv, Numbered, OneOfEach, Overlaps, InReach, Accounted, EarlierIsLost,
           StraysAreLost, Unknown, Orders, Sent, Of

\* A new process knows of no order and waits for none.
LEMMA RestartKeeps ==
    ASSUME OrdersInv, Restart
    PROVE  OrdersInv'
<1>1. /\ born' = sends /\ UNCHANGED <<rail, sends, air, book, lost, Orders>>
      /\ calls' = [c \in Callers |-> NoCall]
      /\ recent' = [i \in Ids |-> "none"] /\ tracked' = [i \in Ids |-> 0]
    BY DEF Restart, exchangeVars, Orders
<1>2. sends \in Nat /\ \A o \in Orders : o.no \in 1..sends /\ o.id \in Ids
    BY DEF OrdersInv, Numbered
<1>3. \A c \in Callers : ~Sent(c)'
    BY <1>1 DEF Sent, NoCall
<1>4. \A o \in Orders : Unknown(o)'
    BY <1>1, <1>2 DEF Unknown
<1>5. Numbered'
    BY <1>1, <1>2, <1>3 DEF Numbered, NoCall
<1>6. OneOfEach' /\ Overlaps'
    BY <1>1, <1>2, <1>3 DEF OrdersInv, OneOfEach, Overlaps, Of
<1>7. InReach' /\ EarlierIsLost' /\ StraysAreLost'
    BY <1>1, <1>4 DEF InReach, Accounted, EarlierIsLost, StraysAreLost
<1> QED
    BY <1>5, <1>6, <1>7 DEF OrdersInv

\* An order of a new number, with the call that waits for it (place_order of
\* the TopstepX adapter, before its await).
LEMMA SendKeeps ==
    ASSUME OrdersInv, NEW c \in Callers, NEW id \in Ids, NEW type, Send(c, id, type)
    PROVE  OrdersInv'
<1> DEFINE new == NextOrder(id, type)
<1>1. /\ sends \in Nat /\ sends' = sends + 1
      /\ Orders' = Orders \cup {new} /\ air' = air \cup {new} /\ book' = book
      /\ new.no = sends + 1 /\ new.id = id
      /\ UNCHANGED <<rail, recent, tracked, lost, born>>
      /\ recent[id] = "none" /\ ~Sent(c) /\ rail = "topstepx"
    BY DEF Send, OrdersInv, Numbered, Orders, Sent, NextOrder
<1>2. /\ \A o \in Orders : o.no \in 1..sends /\ o.id \in Ids
      /\ \A d \in Callers : Sent(d) => calls[d].no \in 1..sends /\ calls[d].id \in Ids
    BY DEF OrdersInv, Numbered
<1>3. /\ calls' = [calls EXCEPT ![c] = [pc |-> "sent", id |-> id, no |-> sends + 1]]
      /\ calls'[c].no = sends + 1 /\ calls'[c].id = id /\ calls'[c].pc = "sent"
      /\ \A d \in Callers : d # c => calls'[d] = calls[d]
    BY <1>1 DEF Send, OrdersInv, Numbered
<1>4. /\ overlapped \subseteq overlapped'
      /\ \A d \in Callers : Sent(d) /\ calls[d].id = id => id \in overlapped'
      /\ \A i : i # id => (i \in overlapped' <=> i \in overlapped)
    BY DEF Send, Waiting, Sent
<1>5. Sent(c)' /\ \A d \in Callers : d # c => (Sent(d)' <=> Sent(d))
    BY <1>3 DEF Sent
<1> HIDE DEF new
<1>6. Numbered'
    BY <1>1, <1>2, <1>3, <1>5 DEF OrdersInv, Numbered
<1>7. OneOfEach'
  <2>1. \A o, p \in Orders' : o.no = p.no => o = p
      BY <1>1, <1>2 DEF OrdersInv, OneOfEach
  <2>2. \A o \in air' : o \notin book'
      BY <1>1, <1>2 DEF OrdersInv, OneOfEach, Orders
  <2>3. \A a, d \in Callers : Sent(a)' /\ Sent(d)' /\ calls'[a].no = calls'[d].no => a = d
      BY <1>1, <1>2, <1>3, <1>5 DEF OrdersInv, OneOfEach
  <2>4. \A d \in Callers, o \in Orders' :
           Of(d, o)' => calls'[d].id = o.id /\ calls'[d].pc # "refused"
      BY <1>1, <1>2, <1>3, <1>5 DEF OrdersInv, OneOfEach, Of
  <2> QED
      BY <2>1, <2>2, <2>3, <2>4 DEF OneOfEach
<1>8. Overlaps'
    BY <1>1, <1>2, <1>3, <1>4, <1>5 DEF OrdersInv, Overlaps
<1>9. InReach'
    BY <1>1, <1>3, <1>4, <1>5 DEF OrdersInv, InReach, Accounted, Of, Unknown
<1>10. EarlierIsLost'
  <2> SUFFICES ASSUME NEW o \in Orders', NEW p \in Orders', o.id = p.id,
                      o.id \notin overlapped', o.no < p.no
               PROVE  Unknown(o)
      BY <1>1 DEF EarlierIsLost, Unknown
  <2>1. CASE p \in Orders /\ o \in Orders
      BY <1>4, <2>1 DEF OrdersInv, EarlierIsLost, Unknown
  <2>2. CASE p = new /\ o \in Orders
    <3>1. o.id = id /\ o.no # 0 /\ tracked[id] = 0
        BY <1>1, <1>2, <2>2 DEF OrdersInv, Overlaps
    <3>2. ~\E d \in Callers : Of(d, o)
        BY <1>4, <3>1, <2>2 DEF OrdersInv, OneOfEach, Of
    <3> QED
        BY <1>4, <2>2, <3>1, <3>2 DEF OrdersInv, InReach, Accounted, Unknown
  <2>3. CASE o = new
      BY <1>1, <1>2, <2>3
  <2> QED
      BY <1>1, <2>1, <2>2, <2>3
<1>11. StraysAreLost'
    BY <1>1, <1>4 DEF OrdersInv, StraysAreLost, Unknown
<1> QED
    BY <1>6, <1>7, <1>8, <1>9, <1>10, <1>11 DEF OrdersInv

\* An order that is answered in the step that hands it over (place_order of the
\* IB adapter).
LEMMA HandKeeps ==
    ASSUME OrdersInv, NEW c \in Callers, NEW id \in Ids, NEW type,
           NEW symbol, Hand(c, id, type, symbol)
    PROVE  OrdersInv'
<1> DEFINE new == NextOrder(id, type)
<1>1. /\ sends \in Nat /\ sends' = sends + 1
      /\ Orders' = Orders \cup {new} /\ air' = air \cup {new} /\ book' = book
      /\ new.no = sends + 1 /\ new.id = id
      /\ UNCHANGED <<rail, calls, lost, overlapped, born>>
      /\ recent[id] = "none" /\ rail = "ib"
      /\ recent' = [recent EXCEPT ![id] = "PENDING"]
      /\ tracked' = [tracked EXCEPT ![id] = sends + 1]
    BY DEF Hand, OrdersInv, Numbered, Orders, NextOrder, historyVars
<1>2. /\ \A o \in Orders : o.no \in 1..sends /\ o.id \in Ids
      /\ recent \in [Ids -> {"none", "PENDING", "REJECTED"}] /\ tracked \in [Ids -> Nat]
    BY DEF OrdersInv, Numbered
<1>3. \A d \in Callers : ~Sent(d) /\ ~Sent(d)'
    BY <1>1 DEF OrdersInv, Overlaps, Sent
<1>4. \A o \in Orders : o.id = id /\ id \notin overlapped => Unknown(o)
    BY <1>1, <1>2, <1>3 DEF OrdersInv, InReach, Accounted, Of, Overlaps, Unknown
<1> HIDE DEF new
<1>5. Numbered'
    BY <1>1, <1>2, <1>3 DEF OrdersInv, Numbered
<1>6. OneOfEach'
    BY <1>1, <1>2, <1>3 DEF OrdersInv, OneOfEach, Orders, Of
<1>7. Overlaps'
    BY <1>1, <1>2, <1>3 DEF OrdersInv, Overlaps
<1>8. InReach'
    BY <1>1, <1>2, <1>3, <1>4 DEF OrdersInv, InReach, Accounted, Of, Unknown
<1>9. EarlierIsLost'
    BY <1>1, <1>2, <1>4 DEF OrdersInv, EarlierIsLost, Unknown
<1>10. StraysAreLost'
    BY <1>1, <1>2, <1>4 DEF OrdersInv, StraysAreLost, Unknown
<1> QED
    BY <1>5, <1>6, <1>7, <1>8, <1>9, <1>10 DEF OrdersInv

\* The exchange takes or refuses an order, and its call hears of it.
LEMMA ExchangeKeeps ==
    ASSUME OrdersInv, NEW o \in Orders, ExchangeTakes(o) \/ ExchangeRefuses(o)
    PROVE  OrdersInv'
<1>1. /\ o \in air
      /\ UNCHANGED <<rail, recent, tracked, sends, lost, overlapped, born>>
      /\ Orders' \subseteq Orders /\ o \in Orders
    BY DEF ExchangeTakes, ExchangeRefuses, Orders, historyVars
<1>2. /\ calls' \in [Callers -> [pc : {"idle", "sent", "taken", "refused"},
                                 id : Ids \cup {0}, no : Nat]]
      /\ \A c \in Callers : /\ calls'[c].no = calls[c].no /\ calls'[c].id = calls[c].id
                            /\ Sent(c)' <=> Sent(c)
                            /\ calls'[c].pc = "refused" => \/ calls[c].pc = "refused"
                                                           \/ Of(c, o) /\ ExchangeRefuses(o)
  <2>1. calls \in [Callers -> [pc : {"idle", "sent", "taken", "refused"},
                               id : Ids \cup {0}, no : Nat]]
      BY DEF OrdersInv, Numbered
  <2>2. CASE ExchangeTakes(o)
      BY <2>1, <2>2 DEF ExchangeTakes, Heard, Sent
  <2>3. CASE ExchangeRefuses(o)
      BY <2>1, <2>3 DEF ExchangeRefuses, Heard, Sent, Of
  <2> QED
      BY <2>2, <2>3
<1>3. ExchangeRefuses(o) => \A p \in Orders' : p.no # o.no
    BY <1>1 DEF ExchangeRefuses, OrdersInv, OneOfEach, Orders
<1>4. Numbered'
    BY <1>1, <1>2 DEF OrdersInv, Numbered
<1>5. OneOfEach'
  <2>1. \A p \in air' : p \notin book'
      BY DEF ExchangeTakes, ExchangeRefuses, OrdersInv, OneOfEach
  <2>2. \A c \in Callers, p \in Orders' :
           Of(c, p)' => calls'[c].id = p.id /\ calls'[c].pc # "refused"
      BY <1>1, <1>2, <1>3 DEF OrdersInv, OneOfEach, Of
  <2> QED
      BY <1>1, <1>2, <2>1, <2>2 DEF OrdersInv, OneOfEach
<1>6. Overlaps'
    BY <1>1, <1>2 DEF OrdersInv, Overlaps
<1>7. InReach'
    BY <1>1, <1>2 DEF OrdersInv, InReach, Accounted, Of, Unknown
<1>8. EarlierIsLost' /\ StraysAreLost'
    BY <1>1 DEF OrdersInv, EarlierIsLost, StraysAreLost, Unknown
<1> QED
    BY <1>4, <1>5, <1>6, <1>7, <1>8 DEF OrdersInv

\* The answer is cached, and the id can be cancelled (place_order, after its
\* await).
LEMMA AnswerKeeps ==
    ASSUME OrdersInv, NEW c \in Callers, Answer(c)
    PROVE  OrdersInv'
<1> DEFINE id == calls[c].id
           no == calls[c].no
<1>1. /\ Sent(c) /\ id \in Ids /\ no \in 1..sends
      /\ UNCHANGED <<rail, sends, air, book, lost, overlapped, born, Orders>>
      /\ recent \in [Ids -> {"none", "PENDING", "REJECTED"}] /\ tracked \in [Ids -> Nat]
      /\ \A o \in Orders : o.no \in 1..sends /\ o.id \in Ids
    BY DEF Answer, Sent, OrdersInv, Numbered, Orders, exchangeVars, historyVars
<1>2. /\ recent' \in [Ids -> {"none", "PENDING", "REJECTED"}]
      /\ recent'[id] # "none" /\ \A i \in Ids : i # id => recent'[i] = recent[i]
    BY <1>1 DEF Answer
<1>3. /\ tracked' \in [Ids -> Nat]
      /\ \A i \in Ids : i # id => tracked'[i] = tracked[i]
      /\ tracked'[id] = IF calls[c].pc = "taken" THEN no ELSE tracked[id]
    BY <1>1 DEF Answer
<1>4. /\ calls' = [calls EXCEPT ![c] = NoCall]
      /\ \A d \in Callers : d # c => calls'[d] = calls[d]
      /\ ~Sent(c)'
      /\ \A d \in Callers : d # c => (Sent(d)' <=> Sent(d))
    BY DEF Answer, OrdersInv, Numbered, Sent, NoCall
<1>5. id \notin overlapped =>
        /\ recent[id] = "none" /\ tracked[id] = 0
        /\ \A d \in Callers : d # c /\ Sent(d) => calls[d].id # id
    BY <1>1 DEF OrdersInv, Overlaps
<1>6. \A o \in Orders : o.no = no => o.id = id /\ calls[c].pc = "taken"
    BY <1>1 DEF OrdersInv, OneOfEach, Of, Answer
<1>7. \A o \in Orders : o.id = id /\ id \notin overlapped => Unknown(o) \/ o.no = no
    BY <1>1, <1>5 DEF OrdersInv, InReach, Accounted, OneOfEach, Of, Unknown
<1>8. Numbered'
    BY <1>1, <1>2, <1>3, <1>4 DEF OrdersInv, Numbered, NoCall
<1>9. OneOfEach'
    BY <1>1, <1>4 DEF OrdersInv, OneOfEach, Of
<1>10. Overlaps'
  <2>1. \A d \in Callers :
          Sent(d)' /\ recent'[calls'[d].id] # "none" => calls'[d].id \in overlapped
      BY <1>2, <1>4, <1>5 DEF OrdersInv, Overlaps, Numbered
  <2>2. \A i \in Ids : tracked'[i] # 0 => recent'[i] # "none"
      BY <1>2, <1>3 DEF OrdersInv, Overlaps
  <2> QED
      BY <1>1, <1>4, <2>1, <2>2 DEF OrdersInv, Overlaps
<1>11. InReach'
  <2> SUFFICES ASSUME NEW o \in Orders PROVE Accounted(o)'
      BY <1>1 DEF InReach
  <2>1. CASE o.no = no
      BY <1>3, <1>6, <2>1 DEF Accounted, Unknown
  <2>2. CASE o.no # no /\ o.id = id
      BY <1>1, <1>7, <2>2 DEF Accounted, Unknown
  <2>3. CASE o.no # no /\ o.id # id
      BY <1>1, <1>3, <1>4, <2>3 DEF OrdersInv, InReach, Accounted, Of, Unknown
  <2> QED
      BY <2>1, <2>2, <2>3
<1>12. EarlierIsLost'
    BY <1>1 DEF OrdersInv, EarlierIsLost, Unknown
<1>13. StraysAreLost'
  <2> SUFFICES ASSUME NEW o \in Orders, recent'[o.id] # "none", o.id \notin overlapped,
                      o.no # tracked'[o.id]
               PROVE  Unknown(o)
      BY <1>1 DEF StraysAreLost, Unknown
  <2>1. CASE o.id = id
      BY <1>3, <1>6, <1>7, <2>1
  <2>2. CASE o.id # id
      BY <1>1, <1>2, <1>3, <2>2 DEF OrdersInv, StraysAreLost, Unknown
  <2> QED
      BY <2>1, <2>2
<1> QED
    BY <1>8, <1>9, <1>10, <1>11, <1>12, <1>13 DEF OrdersInv

\* The call raises: its order is lost from now on.
LEMMA RaiseKeeps ==
    ASSUME OrdersInv, NEW c \in Callers, CallRaises(c)
    PROVE  OrdersInv'
<1>1. /\ UNCHANGED <<rail, recent, tracked, sends, air, book, overlapped, born, Orders>>
      /\ lost' = lost \cup {calls[c].no}
    BY DEF CallRaises, Orders, exchangeVars
<1>2. /\ calls' = [calls EXCEPT ![c] = NoCall]
      /\ \A d \in Callers : d # c => calls'[d] = calls[d]
      /\ ~Sent(c)'
      /\ \A d \in Callers : d # c => (Sent(d)' <=> Sent(d))
    BY DEF CallRaises, OrdersInv, Numbered, Sent, NoCall
<1>3. Numbered'
    BY <1>1, <1>2 DEF OrdersInv, Numbered, NoCall
<1>4. OneOfEach'
    BY <1>1, <1>2 DEF OrdersInv, OneOfEach, Of
<1>5. Overlaps'
    BY <1>1, <1>2 DEF OrdersInv, Overlaps
<1>6. InReach'
  <2> SUFFICES ASSUME NEW o \in Orders PROVE Accounted(o)'
      BY <1>1 DEF InReach
  <2>1. CASE Of(c, o)
      BY <1>1, <2>1 DEF Of, Accounted, Unknown
  <2>2. CASE ~Of(c, o)
      BY <1>1, <1>2, <2>2 DEF OrdersInv, InReach, Accounted, Of, Unknown
  <2> QED
      BY <2>1, <2>2
<1>7. EarlierIsLost' /\ StraysAreLost'
    BY <1>1 DEF OrdersInv, EarlierIsLost, StraysAreLost, Unknown
<1> QED
    BY <1>3, <1>4, <1>5, <1>6, <1>7 DEF OrdersInv

(***************************************************************************)
(* The invariant holds, for any number of callers, ids and orders.         *)
(***************************************************************************)
THEOREM OrdersInvariant == OrdersSpec => []OrdersInv
<1>1. ASSUME OrdersInv, [OrdersNext]_ordersVars
      PROVE  OrdersInv'
  <2>1. CASE UNCHANGED ordersVars
      BY <1>1, <2>1, TakingAwayKeeps DEF ordersVars, exchangeVars, historyVars
  <2>2. CASE \E c \in Callers : \/ \E id \in Ids, type \in Kinds : Send(c, id, type)
                                \/ \E id \in Ids, type \in Kinds, symbol \in Symbols :
                                      Hand(c, id, type, symbol)
                                \/ Answer(c) \/ CallRaises(c)
      BY <1>1, <2>2, SendKeeps, HandKeeps, AnswerKeeps, RaiseKeeps
  <2>3. CASE \E o \in air \cup book :
                ExchangeTakes(o) \/ ExchangeRefuses(o) \/ ExchangeFillsOrder(o)
    <3>1. ASSUME NEW o \in Orders, ExchangeFillsOrder(o) PROVE OrdersInv'
        BY <1>1, <3>1, TakingAwayKeeps DEF ExchangeFillsOrder, historyVars
    <3> QED
        BY <1>1, <2>3, <3>1, ExchangeKeeps DEF Orders
  <2>4. CASE \/ Link \/ CancelRaises
             \/ \E symbol \in Symbols : CancelAll(symbol) \/ CancelAllTrades(symbol)
             \/ \E id \in Ids : CancelOrder(id)
             \/ \E o \in legs : LegFills(o)
    <3>1. /\ UNCHANGED <<rail, calls, recent, tracked, sends, overlapped, lost, born>>
          /\ air' \subseteq air /\ book' \subseteq book
        BY <2>4 DEF Link, CancelAll, CancelRaises, CancelAllTrades, CancelOrder, LegFills,
                    exchangeVars, historyVars
    <3> QED
        BY <1>1, <3>1, TakingAwayKeeps
  <2>5. CASE Restart
      BY <1>1, <2>5, RestartKeeps
  <2> QED
      BY <1>1, <2>1, <2>2, <2>3, <2>4, <2>5 DEF OrdersNext
<1> QED
    BY <1>1, OrdersInitially, PTL DEF OrdersSpec

(***************************************************************************)
(* cancel_all for the adapter's symbol reaches the orders that rest, but   *)
(* the stop and target of a filled bracket, orders of earlier processes,   *)
(* and those of lost answers and overlapping calls (place_order and        *)
(* cancel_all of both adapters).                                           *)
(***************************************************************************)
THEOREM OnlyLostAnswers == OrdersSpec => []OnlyLostAnswersAreOutOfReach
<1>1. OrdersInv => OnlyLostAnswersAreOutOfReach
  <2> SUFFICES ASSUME OrdersInv, NEW o \in book
               PROVE  \/ InTable(o) \/ o.no <= born \/ o.no \in lost
                      \/ o.id \in overlapped \/ \E c \in Callers : calls[c].no = o.no
      BY DEF OnlyLostAnswersAreOutOfReach
  <2>1. Accounted(o)
      BY DEF OrdersInv, InReach, Orders
  <2> QED
      BY <2>1 DEF Accounted, Unknown, Of, InTable
<1> QED
    BY <1>1, OrdersInvariant, PTL

(***************************************************************************)
(* An id has a second order only after a lost answer, with overlapping     *)
(* calls or after a restart: the promise of place_order (ports.py 28-30),  *)
(* as far as it holds.                                                     *)
(***************************************************************************)
THEOREM SecondOrders == OrdersSpec => []SecondOrderNeedsALostAnswer
<1>1. OrdersInv => SecondOrderNeedsALostAnswer
    BY DEF OrdersInv, EarlierIsLost, StraysAreLost, Unknown, Orders,
           SecondOrderNeedsALostAnswer
<1> QED
    BY <1>1, OrdersInvariant, PTL

-----------------------------------------------------------------------------
(***************************************************************************)
(* IndicatorStrategies: TurnsAreTaken and FlatPastTheCutoff.               *)
(***************************************************************************)

\* The strategy counts the entries of the day it is in, which is that of the
\* last bar; no later day has any.
CountsItsDay ==
    /\ belief.day \in {0, clock.day}
    /\ \A d \in 1..Days : d = belief.day => entries[d] = belief.trades
    /\ \A d \in 1..Days : d > belief.day => entries[d] = 0
    /\ \A d \in 1..Days : entries[d] <= TradesPerDay

\* Without brackets at the exchange and without denials the account follows.
AccountFollows ==
    /\ ~live => brackets = {}
    /\ ~live /\ ~denied => account = belief.side

StrategiesInv == StrategiesTypeOK /\ CountsItsDay /\ AccountFollows /\ FlatPastTheCutoff

Belief == [side : {-1, 0, 1}, trades : 0..TradesPerDay, day : 0..Days,
           bars : 0..EntryBars]

\* Initially the strategy has seen no bar (StrategiesInit).
LEMMA StrategiesInitially == StrategiesInit => StrategiesInv
<1> SUFFICES ASSUME StrategiesInit PROVE StrategiesInv
    OBVIOUS
<1> USE StrategiesAssumption DEF StrategiesInit
<1>1. live \in BOOLEAN /\ denied \in BOOLEAN
    BY Zenon
<1>2. StrategiesTypeOK
    BY <1>1 DEF StrategiesTypeOK, Fresh, Part, Evening
<1>3. CountsItsDay
    BY DEF CountsItsDay, Fresh
<1>4. AccountFollows /\ FlatPastTheCutoff
    BY DEF AccountFollows, FlatPastTheCutoff, Fresh
<1> QED
    BY <1>2, <1>3, <1>4 DEF StrategiesInv

\* What on_bar has before it decides: the day rolled over, one more bar.
LEMMA RolledDay ==
    ASSUME StrategiesInv, NEW day \in 1..Days, day >= clock.day
    PROVE  LET b == Update(RollDay(belief, day))
           IN /\ b \in Belief /\ b.side = belief.side /\ b.day = day
              /\ entries[day] = b.trades
              /\ \A d \in 1..Days : d > day => entries[d] = 0
<1> USE StrategiesAssumption
<1>1. /\ belief \in Belief /\ belief.day \in {0, clock.day} /\ clock.day \in 1..Days
      /\ entries \in [1..Days -> Nat]
    BY DEF StrategiesInv, StrategiesTypeOK, CountsItsDay, Belief
<1> DEFINE rolled == RollDay(belief, day)
<1>2. /\ rolled \in Belief /\ rolled.side = belief.side /\ rolled.day = day
      /\ rolled.trades = IF belief.day = day THEN belief.trades ELSE 0
  <2>1. CASE belief.day = day
      BY <1>1, <2>1 DEF RollDay
  <2>2. CASE belief.day # day
    <3> DEFINE dated == [belief EXCEPT !.day = day]
    <3>1. dated \in Belief /\ dated.side = belief.side /\ dated.day = day
        BY <1>1 DEF Belief
    <3>2. rolled = [dated EXCEPT !.trades = 0]
        BY <2>2 DEF RollDay
    <3> HIDE DEF dated, rolled
    <3> QED
        BY <2>2, <3>1, <3>2 DEF Belief
  <2> QED
      BY <2>1, <2>2
<1>3. entries[day] = rolled.trades /\ \A d \in 1..Days : d > day => entries[d] = 0
    BY <1>1, <1>2 DEF StrategiesInv, CountsItsDay
<1> HIDE DEF rolled
<1>4. /\ Update(rolled) \in Belief /\ Update(rolled).side = rolled.side
      /\ Update(rolled).day = rolled.day /\ Update(rolled).trades = rolled.trades
    BY <1>2 DEF Update, Belief
<1> QED
    BY <1>2, <1>3, <1>4 DEF rolled

\* What becomes of an intent.
LEMMA GrantedFollows ==
    ASSUME StrategiesInv, NEW granted \in BOOLEAN, NEW signed \in {-1, 0, 1},
           NEW resting, resting \subseteq [side : {-1, 1}, day : 1..Days, trade : Nat],
           Granted(granted, signed, resting)
    PROVE  /\ account' \in Int /\ denied' \in BOOLEAN
           /\ brackets' \subseteq [side : {-1, 1}, day : 1..Days, trade : Nat]
           /\ ~live => brackets' = {}
           /\ ~live /\ ~denied' => account' = belief.side + signed
<1>1. account \in Int /\ belief.side \in Int
    BY DEF StrategiesInv, StrategiesTypeOK
<1>2. denied' = (denied \/ ~granted)
    BY DEF Granted
<1>3. denied' \in BOOLEAN /\ (~denied' => ~denied /\ granted)
    BY <1>2
<1>4. /\ account' \in Int
      /\ granted => account' = account + signed
    BY <1>1 DEF Granted
<1>5. /\ brackets' \subseteq [side : {-1, 1}, day : 1..Days, trade : Nat]
      /\ ~live => brackets' = {}
    BY DEF Granted, StrategiesInv, StrategiesTypeOK, AccountFollows
<1>6. ~live /\ ~denied => account = belief.side
    BY DEF StrategiesInv, AccountFollows
<1> QED
    BY <1>1, <1>3, <1>4, <1>5, <1>6

\* A bar (on_bar of both strategies).
LEMMA BarKeeps ==
    ASSUME StrategiesInv, NEW day \in 1..Days, NEW part \in Part, NEW seen \in Seen,
           NEW granted \in BOOLEAN, NextBar(day, part, seen, granted)
    PROVE  StrategiesInv'
<1> USE StrategiesAssumption
<1> DEFINE b == Update(RollDay(belief, day))
<1>1. clock' = [day |-> day, part |-> part] /\ UNCHANGED <<kind, live>>
    BY DEF NextBar
<1>2. day >= clock.day
  <2>1. clock.day \in Int /\ clock.part \in 0..2 /\ part \in 0..2 /\ day \in Int
      BY DEF StrategiesInv, StrategiesTypeOK, Part
  <2>2. day * 3 + part >= clock.day * 3 + clock.part
      BY DEF NextBar, Later
  <2> HIDE DEF b
  <2> QED
      BY ONLY <2>1, <2>2
<1>3. /\ b \in Belief /\ b.side = belief.side /\ b.day = day /\ entries[day] = b.trades
      /\ \A d \in 1..Days : d > day => entries[d] = 0
    BY <1>2, RolledDay
<1>4. OnBar(b, part, seen, granted)
    BY DEF NextBar
<1>5. /\ kind \in Strategies /\ live \in BOOLEAN /\ entries \in [1..Days -> Nat]
      /\ clock' \in [day : 1..Days, part : Part] /\ clock'.day = day /\ clock'.part = part
      /\ \A d \in 1..Days : entries[d] <= TradesPerDay
    BY <1>1 DEF StrategiesInv, StrategiesTypeOK, CountsItsDay
<1> HIDE DEF b
<1>6. CASE b.side # 0 /\ Leaves(part, seen) /\ Exit(b, granted)
  <2>1. belief' \in Belief /\ belief'.side = 0 /\ belief'.day = day
        /\ belief'.trades = b.trades /\ entries' = entries
      BY <1>3, <1>6 DEF Exit, Closed, Belief
  <2>2. Granted(granted, -b.side, {}) /\ -b.side \in {-1, 0, 1}
      BY <1>3, <1>6 DEF Exit, Belief
  <2>3. /\ account' \in Int /\ denied' \in BOOLEAN
        /\ brackets' \subseteq [side : {-1, 1}, day : 1..Days, trade : Nat]
        /\ ~live => brackets' = {}
        /\ ~live /\ ~denied' => account' = belief.side + -b.side
      BY <2>2, GrantedFollows
  <2>4. StrategiesTypeOK'
      BY <1>1, <1>5, <2>1, <2>3 DEF StrategiesTypeOK, Belief
  <2>5. CountsItsDay'
      BY <1>3, <1>5, <2>1 DEF CountsItsDay
  <2>6. AccountFollows'
      BY <1>1, <1>3, <2>1, <2>3 DEF AccountFollows, Belief
  <2>7. FlatPastTheCutoff'
      BY <2>1 DEF FlatPastTheCutoff
  <2> QED
      BY <2>4, <2>5, <2>6, <2>7 DEF StrategiesInv
<1>7. CASE b.side = 0 /\ Enters(b, part, seen) /\ Entry(b, seen.signal, granted)
  <2>1. seen.signal \in {-1, 1} /\ b.trades < TradesPerDay
        /\ (kind = "trend" => ~IsAfterCutoff(part))
      BY <1>7 DEF Enters, Seen
  <2>2. /\ belief' \in Belief /\ belief'.side = seen.signal /\ belief'.day = day
        /\ belief'.trades = b.trades + 1
    <3> DEFINE sided == [b EXCEPT !.side = seen.signal]
    <3>1. /\ sided \in Belief /\ sided.side = seen.signal /\ sided.day = day
          /\ sided.trades = b.trades
        BY <1>3, <2>1 DEF Belief
    <3>2. belief' = [sided EXCEPT !.trades = b.trades + 1]
        BY <1>7, <3>1 DEF Entry, Opened
    <3> HIDE DEF sided
    <3> QED
        BY <2>1, <3>1, <3>2 DEF Belief
  <2>3. /\ entries' \in [1..Days -> Nat] /\ entries'[day] = entries[day] + 1
        /\ \A d \in 1..Days : d # day => entries'[d] = entries[d]
      BY <1>3, <1>5, <1>7 DEF Entry
  <2>4. /\ Granted(granted, seen.signal, {[side |-> seen.signal, day |-> b.day, trade |-> b.trades]})
        /\ {[side |-> seen.signal, day |-> b.day, trade |-> b.trades]}
              \subseteq [side : {-1, 1}, day : 1..Days, trade : Nat]
      BY <1>3, <1>7, <2>1 DEF Entry, Belief
  <2>5. /\ account' \in Int /\ denied' \in BOOLEAN
        /\ brackets' \subseteq [side : {-1, 1}, day : 1..Days, trade : Nat]
        /\ ~live => brackets' = {}
        /\ ~live /\ ~denied' => account' = belief.side + seen.signal
      BY <2>1, <2>4, GrantedFollows
  <2>6. StrategiesTypeOK'
      BY <1>1, <1>5, <2>2, <2>3, <2>5 DEF StrategiesTypeOK, Belief
  <2>7. CountsItsDay'
    <3>1. b.trades \in Nat
        BY <1>3 DEF Belief
    <3>2. \A d \in 1..Days : entries'[d] <= TradesPerDay
        BY <1>3, <1>5, <2>1, <2>3, <3>1
    <3>3. \A d \in 1..Days : d = belief'.day => entries'[d] = belief'.trades
        BY <1>3, <2>2, <2>3
    <3>4. \A d \in 1..Days : d > belief'.day => entries'[d] = 0
        BY <1>3, <2>2, <2>3
    <3> QED
        BY <1>5, <2>2, <3>2, <3>3, <3>4 DEF CountsItsDay
  <2>8. AccountFollows'
      BY <1>1, <1>3, <1>7, <2>1, <2>2, <2>5 DEF AccountFollows
  <2>9. FlatPastTheCutoff'
      BY <1>1, <1>5, <2>1 DEF FlatPastTheCutoff
  <2> QED
      BY <2>6, <2>7, <2>8, <2>9 DEF StrategiesInv
<1>8. CASE /\ IF b.side # 0 THEN ~Leaves(part, seen) ELSE ~Enters(b, part, seen)
           /\ Nothing(b)
  <2>1. belief' = b /\ UNCHANGED <<account, brackets, entries, denied>>
      BY <1>8 DEF Nothing
  <2>2. StrategiesTypeOK'
      BY <1>1, <1>3, <1>5, <2>1 DEF StrategiesInv, StrategiesTypeOK, Belief
  <2>3. CountsItsDay'
      BY <1>3, <1>5, <2>1 DEF CountsItsDay
  <2>4. AccountFollows'
      BY <1>1, <1>3, <2>1 DEF StrategiesInv, AccountFollows
  <2>5. FlatPastTheCutoff'
      BY <1>1, <1>5, <1>8, <2>1 DEF FlatPastTheCutoff, Leaves
  <2> QED
      BY <2>2, <2>3, <2>4, <2>5 DEF StrategiesInv
<1> QED
    BY <1>4, <1>6, <1>7, <1>8 DEF OnBar

\* A bracket fills: there is one only at a live exchange.
LEMMA BracketKeeps ==
    ASSUME StrategiesInv, NEW r \in brackets, BracketFills(r)
    PROVE  StrategiesInv'
<1>1. live /\ live' = live /\ r.side \in Int
    BY DEF BracketFills, StrategiesInv, StrategiesTypeOK, AccountFollows
<1>2. StrategiesTypeOK'
    BY <1>1 DEF BracketFills, StrategiesInv, StrategiesTypeOK
<1>3. CountsItsDay' /\ FlatPastTheCutoff'
    BY DEF BracketFills, StrategiesInv, CountsItsDay, FlatPastTheCutoff
<1>4. AccountFollows'
    BY <1>1 DEF AccountFollows
<1> QED
    BY <1>2, <1>3, <1>4 DEF StrategiesInv

(***************************************************************************)
(* The invariant holds over any number of days.                            *)
(***************************************************************************)
THEOREM StrategiesInvariant == StrategiesSpec => []StrategiesInv
<1>1. ASSUME StrategiesInv, [StrategiesNext]_strategyVars
      PROVE  StrategiesInv'
  <2>1. CASE UNCHANGED strategyVars
      BY <1>1, <2>1 DEF strategyVars, StrategiesInv, StrategiesTypeOK, CountsItsDay,
                        AccountFollows, FlatPastTheCutoff
  <2>2. CASE StrategiesNext
      BY <1>1, <2>2, BarKeeps, BracketKeeps DEF StrategiesNext
  <2> QED
      BY <1>1, <2>1, <2>2
<1> QED
    BY <1>1, StrategiesInitially, PTL DEF StrategiesSpec

(***************************************************************************)
(* Entries and exits take turns, and no day has too many entries.          *)
(***************************************************************************)
THEOREM Turns == StrategiesSpec => []TurnsAreTaken
<1>1. StrategiesInv => TurnsAreTaken
    BY DEF StrategiesInv, AccountFollows, CountsItsDay, TurnsAreTaken
<1> QED
    BY <1>1, StrategiesInvariant, PTL

(***************************************************************************)
(* The trend strategy holds nothing past the cutoff.                       *)
(***************************************************************************)
THEOREM FlatAfterTheCutoff == StrategiesSpec => []FlatPastTheCutoff
<1>1. StrategiesInv => FlatPastTheCutoff
    BY DEF StrategiesInv
<1> QED
    BY <1>1, StrategiesInvariant, PTL

(***************************************************************************)
(* BrokerSession: LatenessIsBounded.  An attempt begins before the         *)
(* deadline plus the longest wait, since the deadline was looked at before *)
(* that wait; so it ends before that plus the longest attempt.             *)
(***************************************************************************)

LastWait == Backoff[Len(Backoff)]

ReconnectTyped ==
    /\ adapter \in Adapters
    /\ reconnect \in [pc : {"none", "trying", "asleep", "flattening"}, clock : Nat,
                      attempt : Nat]

StartsInTime ==
    reconnect.pc \in {"trying", "asleep"} =>
        reconnect.clock < Deadline[adapter] + LastWait

EndsInTime ==
    reconnect.attempt > 0 /\ reconnect.pc \in {"none", "flattening"} =>
        /\ reconnect.clock >= Deadline[adapter]
        /\ reconnect.clock < Deadline[adapter] + LastWait + Longest(Durations)

ReconnectInv == ReconnectTyped /\ StartsInTime /\ EndsInTime

\* What the deployed waits and any finite set of durations satisfy.
WaitsGrow ==
    /\ \A n \in 1..Len(Backoff) : Backoff[n] <= LastWait
    /\ \E d \in Durations : \A e \in Durations : e <= d

(***************************************************************************)
(* No wait is longer than the last one, and each is at least a second.     *)
(***************************************************************************)
LEMMA WaitIsBounded ==
    ASSUME WaitsGrow, NEW n \in Nat \ {0}
    PROVE  Wait(n) \in Nat /\ LastWait \in Nat /\ Wait(n) <= LastWait /\ LastWait > 0
<1>1. Len(Backoff) \in Nat \ {0} /\ \A k \in 1..Len(Backoff) : Backoff[k] \in Nat \ {0}
    BY SessionAssumption
<1>2. LET k == IF n <= Len(Backoff) THEN n ELSE Len(Backoff)
      IN k \in 1..Len(Backoff)
    BY <1>1
<1> QED
    BY <1>1, <1>2 DEF Wait, LastWait, WaitsGrow

(***************************************************************************)
(* No attempt takes longer than the longest one.                           *)
(***************************************************************************)
LEMMA LongestIsLongest ==
    ASSUME WaitsGrow
    PROVE  Longest(Durations) \in Nat /\ \A d \in Durations : d <= Longest(Durations)
<1>1. PICK d \in Durations : \A e \in Durations : e <= d
    BY DEF WaitsGrow
<1>2. Longest(Durations) \in Durations
           /\ \A e \in Durations : e <= Longest(Durations)
    BY <1>1 DEF Longest
<1> QED
    BY <1>2, SessionAssumption

(***************************************************************************)
(* A failed attempt, the one step that moves the clock.                    *)
(***************************************************************************)
LEMMA FailureKeepsTheWindow ==
    ASSUME WaitsGrow, ReconnectInv, NEW d \in Durations, AttemptFails(d)
    PROVE  ReconnectInv'
<1> DEFINE c == reconnect.clock + d
           n == reconnect.attempt + 1
<1>1. /\ adapter' = adapter /\ adapter \in Adapters /\ Deadline[adapter] \in Nat
      /\ reconnect.pc = "trying" /\ reconnect.clock \in Nat
      /\ reconnect.attempt \in Nat /\ d \in Nat
    BY SessionAssumption DEF AttemptFails, ReconnectInv, ReconnectTyped
<1>2. c \in Nat /\ n \in Nat \ {0}
    BY <1>1
<1>3. Wait(n) \in Nat /\ LastWait \in Nat /\ Wait(n) <= LastWait
    BY <1>2, WaitIsBounded
<1>4. d <= Longest(Durations) /\ Longest(Durations) \in Nat
    BY LongestIsLongest
<1>5. reconnect.clock < Deadline[adapter] + LastWait
    BY <1>1 DEF ReconnectInv, StartsInTime
<1>6. c < Deadline[adapter] + LastWait + Longest(Durations)
    BY <1>1, <1>3, <1>4, <1>5
<1>7. CASE c >= Deadline[adapter]
  <2>1. PICK p \in {"none", "flattening"} :
            reconnect' = [pc |-> p, clock |-> c, attempt |-> n]
      BY <1>7 DEF AttemptFails
  <2> QED
      BY <2>1, <1>1, <1>2, <1>6, <1>7
      DEF ReconnectInv, ReconnectTyped, StartsInTime, EndsInTime, LastWait
<1>8. CASE ~(c >= Deadline[adapter])
  <2>1. reconnect' = [pc |-> "asleep", clock |-> c + Wait(n), attempt |-> n]
      BY <1>8 DEF AttemptFails
  <2>2. c + Wait(n) \in Nat /\ c + Wait(n) < Deadline[adapter] + LastWait
      BY <1>1, <1>2, <1>3, <1>8
  <2> HIDE DEF c, n
  <2> QED
      BY <2>1, <2>2, <1>1, <1>2
      DEF ReconnectInv, ReconnectTyped, StartsInTime, EndsInTime, LastWait
<1> QED
    BY <1>7, <1>8

(***************************************************************************)
(* The adapter gives up no earlier than its deadline, and later by less    *)
(* than the last wait and one attempt, whatever the deadlines and the      *)
(* waits: how late the code is, not what its documents promise.            *)
(***************************************************************************)
THEOREM LateByAWait == WaitsGrow /\ SessionSpec => []LatenessIsBounded
<1>1. ASSUME SessionInit
      PROVE  ReconnectInv
    BY <1>1 DEF SessionInit, NoReconnect, ReconnectInv, ReconnectTyped, StartsInTime,
                EndsInTime
<1>2. ASSUME WaitsGrow, ReconnectInv, [SessionNext]_sessionVars
      PROVE  ReconnectInv'
  <2>1. CASE UNCHANGED <<adapter, reconnect>>
      BY <1>2, <2>1
      DEF ReconnectInv, ReconnectTyped, StartsInTime, EndsInTime, LastWait
  <2>2. CASE \E d \in Durations : AttemptFails(d)
      BY <1>2, <2>2, FailureKeepsTheWindow
  <2>3. CASE Connected
      BY <1>2, <2>3
      DEF Connected, NoReconnect, ReconnectInv, ReconnectTyped, StartsInTime, EndsInTime
  <2>4. CASE Reconnect
    <3>1. /\ adapter' = adapter /\ adapter \in Adapters
          /\ reconnect' = [pc |-> "trying", clock |-> 0, attempt |-> 0]
        BY <1>2, <2>4 DEF Reconnect, ReconnectInv, ReconnectTyped
    <3>2. Deadline[adapter] \in Nat /\ LastWait \in Nat /\ LastWait > 0
        BY <1>2, <3>1, SessionAssumption, WaitIsBounded
    <3> QED
        BY <3>1, <3>2
        DEF ReconnectInv, ReconnectTyped, StartsInTime, EndsInTime, LastWait
  <2>5. CASE Wake
      BY <1>2, <2>5
      DEF Wake, ReconnectInv, ReconnectTyped, StartsInTime, EndsInTime, LastWait
  <2>6. CASE Flattened
      BY <1>2, <2>6
      DEF Flattened, ReconnectInv, ReconnectTyped, StartsInTime, EndsInTime, LastWait
  <2>7. CASE Connect \/ Proceed \/ ConnectFails \/ Disconnect
      BY <2>1, <2>7 DEF Connect, Proceed, ConnectFails, Disconnect
  <2>8. CASE UNCHANGED sessionVars
      BY <2>1, <2>8 DEF sessionVars
  <2> QED
      BY <1>2, <2>2, <2>3, <2>4, <2>5, <2>6, <2>7, <2>8 DEF SessionNext
<1>3. ReconnectInv => LatenessIsBounded
    BY DEF ReconnectInv, EndsInTime, LatenessIsBounded, LastWait
<1>4. WaitsGrow => WaitsGrow'
    BY DEF WaitsGrow, LastWait
<1> QED
    BY <1>1, <1>2, <1>3, <1>4, PTL DEF SessionSpec

(***************************************************************************)
(* TopstepxSim: LateStepsOnlyReduce.  Only the quantities matter; whatever *)
(* a fill, a mark or a failed account does to the money, they follow the   *)
(* fill alone.                                                             *)
(***************************************************************************)

SimFields == {"stage", "realized", "high", "qty", "cost", "mark"}

IsSim(a) ==
    /\ a = [x \in SimFields |-> a[x]]
    /\ a.qty \in [SimSymbols -> Int]

(***************************************************************************)
(* The high water is not a quantity.                                       *)
(***************************************************************************)
LEMMA RatchetKeepsQty ==
    ASSUME NEW a, IsSim(a)
    PROVE  IsSim(Ratcheted(a)) /\ Ratcheted(a).qty = a.qty
<1>1. PICK h : Ratcheted(a) = [a EXCEPT !.high = h]
    BY DEF Ratcheted
<1> QED
    BY <1>1 DEF IsSim, SimFields

(***************************************************************************)
(* Neither is a mark.                                                      *)
(***************************************************************************)
LEMMA MarkKeepsQty ==
    ASSUME NEW a, IsSim(a), NEW s, NEW price
    PROVE  IsSim(MarkToMarket(a, s, price)) /\ MarkToMarket(a, s, price).qty = a.qty
<1> DEFINE b == [a EXCEPT !.mark[s] = price]
<1>1. IsSim(b) /\ b.qty = a.qty
    BY DEF IsSim, SimFields
<1> QED
    BY <1>1, RatchetKeepsQty DEF MarkToMarket

(***************************************************************************)
(* A fill moves the quantity of its symbol by its own.                     *)
(***************************************************************************)
LEMMA FillMovesQty ==
    ASSUME NEW a, IsSim(a), NEW s \in SimSymbols, NEW signed \in Int, NEW price
    PROVE  /\ IsSim(ApplyFill(a, s, signed, price))
           /\ ApplyFill(a, s, signed, price).qty = [a.qty EXCEPT ![s] = @ + signed]
<1>1. PICK c, r :
          ApplyFill(a, s, signed, price) =
              Ratcheted([a EXCEPT !.qty[s] = a.qty[s] + signed, !.cost[s] = c,
                                  !.realized = r])
    BY DEF ApplyFill
<1> DEFINE b == [a EXCEPT !.qty[s] = a.qty[s] + signed, !.cost[s] = c, !.realized = r]
<1>2. PICK q, k : q = [a.qty EXCEPT ![s] = @ + signed] /\ k = [a.cost EXCEPT ![s] = c]
    OBVIOUS
<1>3. b = [a EXCEPT !.qty = q, !.cost = k, !.realized = r]
    BY <1>2
<1>4. q \in [SimSymbols -> Int]
    BY <1>2 DEF IsSim
<1>5. IsSim(b) /\ b.qty = q
    BY <1>3, <1>4 DEF IsSim, SimFields
<1> QED
    BY <1>1, <1>2, <1>5, RatchetKeepsQty

\* Every symbol has the quantity it had, or none.
KeptOrFlat(a, b) == \A s \in SimSymbols : b.qty[s] \in {a.qty[s], 0}

(***************************************************************************)
(* A flatten leaves a quantity alone or at zero.                           *)
(***************************************************************************)
LEMMA FlattenKeepsOrFlattens ==
    ASSUME NEW a, IsSim(a), NEW s \in SimSymbols, NEW price
    PROVE  IsSim(FlattenAt(a, s, price)) /\ KeptOrFlat(a, FlattenAt(a, s, price))
<1> DEFINE f == ApplyFill(a, s, -a.qty[s], price)
<1>1. CASE a.qty[s] = 0
    BY <1>1 DEF FlattenAt, KeptOrFlat
<1>2. CASE a.qty[s] # 0
  <2>1. PICK q \in Int : q = a.qty[s] /\ -q \in Int /\ q + (-q) = 0
      BY DEF IsSim
  <2>2a. f = ApplyFill(a, s, -q, price)
      BY <2>1
  <2> HIDE DEF f
  <2>2b. -q \in Int
      BY <2>1
  <2>2. IsSim(f) /\ f.qty = [a.qty EXCEPT ![s] = @ + (-q)]
      BY <2>2a, <2>2b, FillMovesQty
  <2>3. IsSim(MarkToMarket(f, s, price)) /\ MarkToMarket(f, s, price).qty = f.qty
      BY <2>2, MarkKeepsQty
  <2>4. FlattenAt(a, s, price) = MarkToMarket(f, s, price)
      BY <1>2 DEF FlattenAt, f
  <2> QED
      BY <2>1, <2>2, <2>3, <2>4 DEF KeptOrFlat, IsSim
<1> QED
    BY <1>1, <1>2

(***************************************************************************)
(* So does a tick, whether it fails the account or not.                    *)
(***************************************************************************)
LEMMA TickKeepsOrFlattens ==
    ASSUME NEW a, IsSim(a), NEW s \in SimSymbols, NEW price
    PROVE  IsSim(Tick(a, s, price)) /\ KeptOrFlat(a, Tick(a, s, price))
<1> DEFINE m == MarkToMarket(a, s, price)
           f == FlattenAt(m, s, price)
<1>1. IsSim(m) /\ m.qty = a.qty
    BY MarkKeepsQty
<1>2. Tick(a, s, price) = IF Touched(m) THEN MarkFailed(f) ELSE m
    BY DEF Tick
<1> HIDE DEF m
<1>3. IsSim(f) /\ KeptOrFlat(m, f)
    BY <1>1, FlattenKeepsOrFlattens
<1> HIDE DEF f
<1>4. IsSim(MarkFailed(f)) /\ MarkFailed(f).qty = f.qty
    BY <1>3 DEF MarkFailed, IsSim, SimFields
<1> QED
    BY <1>1, <1>2, <1>3, <1>4 DEF KeptOrFlat

(***************************************************************************)
(* And so does the end of a day.                                           *)
(***************************************************************************)
LEMMA EodKeepsOrFlattens ==
    ASSUME NEW a, IsSim(a), NEW s \in SimSymbols, NEW price, NEW isLate
    PROVE  IsSim(Eod(a, s, price, isLate)) /\ KeptOrFlat(a, Eod(a, s, price, isLate))
<1> DEFINE f == IF isLate THEN FlattenAt(a, s, price) ELSE a
<1>1. IsSim(f) /\ KeptOrFlat(a, f)
    BY FlattenKeepsOrFlattens DEF KeptOrFlat
<1>2. Eod(a, s, price, isLate) = Ratcheted(f)
    BY DEF Eod
<1> HIDE DEF f
<1> QED
    BY <1>1, <1>2, RatchetKeepsQty DEF KeptOrFlat

(***************************************************************************)
(* An order that is let through moves one quantity, and past the hard flat *)
(* not away from zero.                                                     *)
(***************************************************************************)
LEMMA OrderMovesOne ==
    ASSUME IsSim(sim), NEW s \in SimSymbols, NEW signed \in SimSizes, SimOrder(s, signed)
    PROVE  /\ IsSim(sim')
           /\ late => \A t \in SimSymbols : Abs(sim'.qty[t]) <= Abs(sim.qty[t])
<1>1. PICK mid, fill :
          /\ sim' = MarkToMarket(ApplyFill(sim, s, signed, fill), s, mid)
          /\ ~(late /\ Increases(sim.qty[s], signed))
    BY DEF SimOrder, Settle
<1> DEFINE b == ApplyFill(sim, s, signed, fill)
<1>2. signed \in Int
    BY SimAssumption
<1>3. IsSim(b) /\ b.qty = [sim.qty EXCEPT ![s] = @ + signed]
    BY <1>2, FillMovesQty
<1> HIDE DEF b
<1>4. IsSim(sim') /\ sim'.qty = b.qty
    BY <1>1, <1>3, MarkKeepsQty DEF b
<1>5. ASSUME late, NEW t \in SimSymbols
      PROVE  Abs(sim'.qty[t]) <= Abs(sim.qty[t])
  <2>1. sim.qty[t] \in Int /\ sim.qty[s] \in Int
      BY DEF IsSim
  <2>2. CASE t = s
    <3>1. sim'.qty[t] = sim.qty[s] + signed
        BY <1>3, <1>4, <2>2 DEF IsSim
    <3>2. ~(Abs(sim.qty[s] + signed) > Abs(sim.qty[s]))
        BY <1>1, <1>5 DEF Increases
    <3> QED
        BY <1>2, <2>1, <2>2, <3>1, <3>2 DEF Abs
  <2>3. CASE t # s
    <3>1. sim'.qty[t] = sim.qty[t]
        BY <1>3, <1>4, <2>3 DEF IsSim
    <3> QED
        BY <2>1, <3>1 DEF Abs
  <2> QED
      BY <2>2, <2>3
<1> QED
    BY <1>4, <1>5

(***************************************************************************)
(* Once and again past the hard flat, no step makes a position larger.     *)
(***************************************************************************)
LEMMA StepsKeepTheAccount ==
    ASSUME IsSim(sim), [SimNext]_simVars
    PROVE  /\ IsSim(sim')
           /\ late /\ late' => \A s \in SimSymbols : Abs(sim'.qty[s]) <= Abs(sim.qty[s])
<1> DEFINE NoLarger == \A s \in SimSymbols : Abs(sim'.qty[s]) <= Abs(sim.qty[s])
<1>1. ASSUME IsSim(sim'), KeptOrFlat(sim, sim')
      PROVE  NoLarger
    BY <1>1 DEF IsSim, KeptOrFlat, Abs
<1>2. ASSUME IsSim(sim'), sim'.qty = sim.qty
      PROVE  NoLarger
    BY <1>1, <1>2 DEF KeptOrFlat
<1> HIDE DEF NoLarger
<1>3. ASSUME NEW s \in SimSymbols, NEW price, NEW isLate, SimBar(s, price, isLate)
      PROVE  IsSim(sim') /\ NoLarger
    BY <1>1, <1>3, TickKeepsOrFlattens DEF SimBar, Settle
<1>4. ASSUME NEW s \in SimSymbols, NEW price, SimEod(s, price)
      PROVE  IsSim(sim') /\ NoLarger
    BY <1>1, <1>4, EodKeepsOrFlattens DEF SimEod, Settle
<1>5. ASSUME NEW s \in SimSymbols, NEW signed \in SimSizes, SimOrder(s, signed)
      PROVE  IsSim(sim') /\ (late => NoLarger)
    BY <1>5, OrderMovesOne DEF NoLarger
<1>6. CASE sim' = sim
    BY <1>2, <1>6 DEF NoLarger, IsSim
<1>7. CASE BarsEnd
    BY <1>6, <1>7 DEF BarsEnd
<1>8. CASE Promote
  <2>1. sim' = sim \/ sim' = [sim EXCEPT !.stage = terminal]
      BY <1>8 DEF Promote
  <2>2. IsSim(sim') /\ sim'.qty = sim.qty
      BY <2>1 DEF IsSim, SimFields
  <2> QED
      BY <1>2, <2>2 DEF NoLarger
<1>9. CASE UNCHANGED simVars
    BY <1>6, <1>9 DEF simVars
<1> QED
    BY <1>3, <1>4, <1>5, <1>7, <1>8, <1>9 DEF SimNext, NoLarger

(***************************************************************************)
(* Past the hard flat positions only get smaller, whatever the orders, the *)
(* prices and the floor.                                                   *)
(***************************************************************************)
THEOREM LateOnlyReduces == SimSpec => LateStepsOnlyReduce
<1>1. SimInit => IsSim(sim)
    BY DEF SimInit, IsSim, SimFields
<1>2. IsSim(sim) /\ [SimNext]_simVars => IsSim(sim)'
    BY StepsKeepTheAccount DEF IsSim
<1>3. ASSUME IsSim(sim), [SimNext]_simVars
      PROVE  [late /\ late' => \A s \in SimSymbols : Abs(sim'.qty[s]) <= Abs(sim.qty[s])]_simVars
    BY <1>3, StepsKeepTheAccount
<1> QED
    BY <1>1, <1>2, <1>3, PTL DEF SimSpec, LateStepsOnlyReduce

(***************************************************************************)
(* TopstepxSim: EquityIsWhatTheFillsSay and SurvivorsAreAboveTheFloor.     *)
(* What the account cost, its balance and the cash of the fills go         *)
(* together; the high water is the peak, although fills move it too.       *)
(***************************************************************************)

Gains(a) ==
    [s \in SimSymbols |-> IF a.mark[s] = NoMark THEN 0
                          ELSE (a.mark[s] * a.qty[s] - a.cost[s]) * PointValue[s]]
Values(a) == [s \in SimSymbols |-> a.qty[s] * a.mark[s] * PointValue[s]]
Costs(a) == [s \in SimSymbols |-> a.cost[s] * PointValue[s]]
Total(f) == SumFunctionOnSet(f, SimSymbols)

IsAccount(a) ==
    /\ IsSim(a) /\ a.cost \in [SimSymbols -> Int] /\ a.mark \in [SimSymbols -> Nat]
    /\ a.realized \in Int /\ a.high \in Int

\* A symbol without a mark was never traded.
MarksKnown(a) == \A s \in SimSymbols : a.mark[s] = NoMark => a.qty[s] = 0 /\ a.cost[s] = 0

Balanced(a, c) == c = a.realized - Total(Costs(a))

(***************************************************************************)
(* The arithmetic of a position: its value, and what flips, closes and     *)
(* adds pay for, with price p, quantity q, fill n, cost c and point value  *)
(* v.                                                                      *)
(***************************************************************************)
LEMMA GainIsValueWithoutCost ==
    ASSUME NEW m \in Int, NEW q \in Int, NEW c \in Int, NEW v \in Int
    PROVE  (m * q - c) * v = q * m * v - c * v
OBVIOUS

LEMMA FlipPays ==
    ASSUME NEW p \in Int, NEW q \in Int, NEW n \in Int, NEW c \in Int, NEW v \in Int
    PROVE  (p * q - c) * v - (p * (q + n) - c) * v = -(n * p * v)
OBVIOUS

LEMMA ClosePays ==
    ASSUME NEW p \in Int, NEW q \in Int, NEW n \in Int, NEW c \in Int, NEW v \in Int,
           q + n = 0
    PROVE  (p * q - c) * v - (0 - c) * v = -(n * p * v)
OBVIOUS

LEMMA AddPays ==
    ASSUME NEW p \in Int, NEW n \in Int, NEW c \in Int, NEW v \in Int
    PROVE  0 - ((c + p * n) - c) * v = -(n * p * v)
OBVIOUS

(***************************************************************************)
(* The sums are numbers, and the equity is one of them.                    *)
(***************************************************************************)
LEMMA EquityIsANumber ==
    ASSUME NEW a, IsAccount(a)
    PROVE  /\ \A s \in SimSymbols : Gains(a)[s] \in Int /\ Values(a)[s] \in Int
                                    /\ Costs(a)[s] \in Int
           /\ Total(Gains(a)) \in Int /\ Total(Values(a)) \in Int
           /\ Total(Costs(a)) \in Int
           /\ Equity(a) = Start + a.realized + Total(Gains(a)) /\ Equity(a) \in Int
<1>1. \A s \in SimSymbols : /\ a.mark[s] \in Int /\ a.qty[s] \in Int /\ a.cost[s] \in Int
                            /\ PointValue[s] \in Int
    BY SimAssumption DEF IsAccount, IsSim
<1>2. \A s \in SimSymbols : Gains(a)[s] \in Int /\ Values(a)[s] \in Int /\ Costs(a)[s] \in Int
  <2> SUFFICES ASSUME NEW s \in SimSymbols
               PROVE  Gains(a)[s] \in Int /\ Values(a)[s] \in Int /\ Costs(a)[s] \in Int
      OBVIOUS
  <2>1. PICK m \in Int, q \in Int, c \in Int, v \in Int :
            m = a.mark[s] /\ q = a.qty[s] /\ c = a.cost[s] /\ v = PointValue[s]
    <3>1. /\ a.mark[s] \in Int /\ a.qty[s] \in Int /\ a.cost[s] \in Int
          /\ PointValue[s] \in Int
        BY <1>1
    <3> QED
        BY <3>1
  <2>2. (m * q - c) * v \in Int /\ q * m * v \in Int /\ c * v \in Int
      OBVIOUS
  <2>3. Gains(a)[s] = IF m = NoMark THEN 0 ELSE (m * q - c) * v
      BY <2>1 DEF Gains
  <2>4. Values(a)[s] = q * m * v /\ Costs(a)[s] = c * v
      BY <2>1 DEF Values, Costs
  <2> QED
      BY <2>2, <2>3, <2>4
<1>3. IsFiniteSet(SimSymbols)
    BY SimAssumption
<1>4. Total(Gains(a)) \in Int /\ Total(Values(a)) \in Int /\ Total(Costs(a)) \in Int
    BY <1>2, <1>3, SumIsInt DEF Total
<1>5. Equity(a) = Start + a.realized + Total(Gains(a))
    BY DEF Equity, Unrealized, Gains, Total
<1> QED
    BY <1>2, <1>4, <1>5, PolicyAssumption DEF IsAccount

LEMMA EquityIsWorth ==
    ASSUME NEW a, IsAccount(a), MarksKnown(a), NEW c, Balanced(a, c)
    PROVE  Equity(a) = Worth(a, c)
<1>1. /\ \A s \in SimSymbols : Gains(a)[s] \in Int /\ Values(a)[s] \in Int
                                    /\ Costs(a)[s] \in Int
      /\ Total(Gains(a)) \in Int /\ Total(Values(a)) \in Int /\ Total(Costs(a)) \in Int
      /\ Equity(a) = Start + a.realized + Total(Gains(a))
    BY EquityIsANumber
<1>2. \A s \in SimSymbols : Gains(a)[s] = Values(a)[s] - Costs(a)[s]
  <2> SUFFICES ASSUME NEW s \in SimSymbols
               PROVE  Gains(a)[s] = Values(a)[s] - Costs(a)[s]
      OBVIOUS
  <2>1. PICK m \in Int, q \in Int, c2 \in Int, v \in Int :
            m = a.mark[s] /\ q = a.qty[s] /\ c2 = a.cost[s] /\ v = PointValue[s]
    <3>1. /\ a.mark[s] \in Int /\ a.qty[s] \in Int /\ a.cost[s] \in Int
          /\ PointValue[s] \in Int
        BY SimAssumption DEF IsAccount, IsSim
    <3> QED
        BY <3>1
  <2>2. Values(a)[s] = q * m * v /\ Costs(a)[s] = c2 * v
      BY <2>1 DEF Values, Costs
  <2>3. CASE m = NoMark
    <3>1. q = 0 /\ c2 = 0 /\ Gains(a)[s] = 0
        BY <2>1, <2>3 DEF MarksKnown, Gains
    <3>2. 0 * m * v = 0 /\ 0 * v = 0
        OBVIOUS
    <3> QED
        BY <2>2, <3>1, <3>2
  <2>4. CASE m # NoMark
    <3>1. Gains(a)[s] = (m * q - c2) * v
        BY <2>1, <2>4 DEF Gains
    <3> QED
        BY <2>2, <3>1, GainIsValueWithoutCost
  <2> QED
      BY <2>3, <2>4
<1>3. IsFiniteSet(SimSymbols)
    BY SimAssumption
<1>4. Total(Gains(a)) = Total(Values(a)) - Total(Costs(a))
    BY <1>1, <1>2, <1>3, SumTakesAway DEF Total
<1>5. Worth(a, c) = Start + c + Total(Values(a))
    BY DEF Worth, Values, Total
<1>6. a.realized \in Int /\ Start \in Int
    BY PolicyAssumption DEF IsAccount
<1> QED
    BY <1>1, <1>4, <1>5, <1>6 DEF Balanced

(***************************************************************************)
(* The equity moves with the balance and with the gain of one symbol.      *)
(***************************************************************************)
OthersAlike(a, b, s) ==
    \A t \in SimSymbols : t # s =>
        b.qty[t] = a.qty[t] /\ b.cost[t] = a.cost[t] /\ b.mark[t] = a.mark[t]

LEMMA EquityMoves ==
    ASSUME NEW a, IsAccount(a), NEW b, IsAccount(b), NEW s \in SimSymbols, NEW d \in Int,
           Gains(b)[s] = Gains(a)[s] + d, OthersAlike(a, b, s)
    PROVE  Equity(b) = Equity(a) + (b.realized - a.realized) + d
<1>1. \A t \in SimSymbols : t # s => Gains(b)[t] = Gains(a)[t]
    BY DEF Gains, OthersAlike
<1>2. Total(Gains(b)) = Total(Gains(a)) + d
  <2>1. IsFiniteSet(SimSymbols) /\ \A t \in SimSymbols : Gains(a)[t] \in Int
      BY SimAssumption, EquityIsANumber
  <2> QED
      BY <1>1, <2>1, SumMoves DEF Total
<1>3. /\ Equity(a) = Start + a.realized + Total(Gains(a)) /\ Total(Gains(a)) \in Int
      /\ Equity(b) = Start + b.realized + Total(Gains(b))
      /\ a.realized \in Int /\ b.realized \in Int /\ Start \in Int
    BY EquityIsANumber, PolicyAssumption DEF IsAccount
<1> QED
    BY <1>2, <1>3

LEMMA EquityStays ==
    ASSUME NEW a, NEW b, b.qty = a.qty, b.cost = a.cost, b.mark = a.mark,
           b.realized = a.realized
    PROVE  Equity(b) = Equity(a)
BY DEF Equity, Unrealized

(***************************************************************************)
(* What a ratchet, a mark and a fill are.                                  *)
(***************************************************************************)
LEMMA RatchetIs ==
    ASSUME NEW a, IsAccount(a), NEW b, b = Ratcheted(a)
    PROVE  /\ IsAccount(b) /\ b.stage = a.stage /\ b.realized = a.realized
           /\ b.qty = a.qty /\ b.cost = a.cost /\ b.mark = a.mark
           /\ Equity(b) = Equity(a) /\ b.high = Larger(a.high, Equity(b))
<1>1. Equity(a) \in Int
    BY EquityIsANumber
<1>2. PICK h \in Int : h = Larger(a.high, Equity(a))
    BY <1>1 DEF Larger, IsAccount
<1>3. b = [a EXCEPT !.high = h]
    BY <1>2 DEF Ratcheted
<1>4. /\ IsAccount(b) /\ b.stage = a.stage /\ b.realized = a.realized
      /\ b.qty = a.qty /\ b.cost = a.cost /\ b.mark = a.mark /\ b.high = h
  <2>1. a = [x \in SimFields |-> a[x]]
      BY DEF IsAccount, IsSim
  <2>2. b = [x \in SimFields |-> b[x]]
      BY <1>3, <2>1
  <2>3. /\ b.stage = a.stage /\ b.realized = a.realized
        /\ b.qty = a.qty /\ b.cost = a.cost /\ b.mark = a.mark /\ b.high = h
      BY <1>3, <2>1 DEF SimFields
  <2> QED
      BY <1>2, <2>2, <2>3 DEF IsAccount, IsSim
<1> QED
    BY <1>2, <1>4, EquityStays

LEMMA MarkIs ==
    ASSUME NEW a, IsAccount(a), NEW s \in SimSymbols, NEW price \in Nat,
           NEW b, b = MarkToMarket(a, s, price)
    PROVE  /\ IsAccount(b) /\ b.stage = a.stage /\ b.realized = a.realized
           /\ b.qty = a.qty /\ b.cost = a.cost /\ b.mark = [a.mark EXCEPT ![s] = price]
           /\ b.high = Larger(a.high, Equity(b))
<1>1. PICK k : k = [a.mark EXCEPT ![s] = price]
    OBVIOUS
<1>2. PICK m : m = [a EXCEPT !.mark = k]
    OBVIOUS
<1>3. /\ IsAccount(m) /\ m.stage = a.stage /\ m.realized = a.realized
      /\ m.qty = a.qty /\ m.cost = a.cost /\ m.mark = k /\ m.high = a.high
    BY <1>1, <1>2 DEF IsAccount, IsSim, SimFields
<1>4. b = Ratcheted(m)
    BY <1>1, <1>2 DEF MarkToMarket
<1> QED
    BY <1>1, <1>3, <1>4, RatchetIs

\* b is a after a fill of symbol s that does not only reduce.
FilledAs(a, b, s, signed, price) ==
    /\ IsAccount(b) /\ b.stage = a.stage /\ b.mark = a.mark
    /\ b.qty = [a.qty EXCEPT ![s] = a.qty[s] + signed]
    /\ b.cost = [a.cost EXCEPT ![s] = b.cost[s]]
    /\ (b.realized - a.realized) - (b.cost[s] - a.cost[s]) * PointValue[s]
          = -(signed * price * PointValue[s])
    /\ a.qty[s] = 0 => b.realized = a.realized
    /\ ClosesOut(a.qty[s], signed) => b.cost[s] = 0
    /\ b.high = Larger(a.high, Equity(b))

LEMMA FillIs ==
    ASSUME NEW a, IsAccount(a), NEW s \in SimSymbols, NEW signed \in Int, NEW price \in Int,
           ~Reduces(a.qty[s], signed), NEW b, b = ApplyFill(a, s, signed, price)
    PROVE  FilledAs(a, b, s, signed, price)
<1>1. PICK q \in Int, k \in Int, v \in Int :
          q = a.qty[s] /\ k = a.cost[s] /\ v = PointValue[s]
  <2>1. a.qty[s] \in Int /\ a.cost[s] \in Int /\ PointValue[s] \in Int
      BY SimAssumption DEF IsAccount, IsSim
  <2> QED
      BY <2>1
<1>2. PICK c : c = IF Flips(q, signed) THEN price * (q + signed)
                   ELSE IF ClosesOut(q, signed) THEN 0
                   ELSE k + price * signed
    OBVIOUS
<1>3. PICK r : r = IF Flips(q, signed) \/ ClosesOut(q, signed)
                   THEN (price * q - k) * v ELSE 0
    OBVIOUS
<1>4. /\ c \in Int /\ r \in Int
      /\ r - (c - k) * v = -(signed * price * v)
      /\ q = 0 => r = 0
      /\ ClosesOut(q, signed) => c = 0
  <2>1. CASE Flips(q, signed)
    <3>1. /\ c = price * (q + signed) /\ r = (price * q - k) * v
        BY <1>2, <1>3, <2>1
    <3>2. q # 0 /\ ~ClosesOut(q, signed)
      <4>1. q * (q + signed) < 0
          BY <2>1 DEF Flips
      <4>2. 0 * (0 + signed) = 0 /\ q * 0 = 0
          OBVIOUS
      <4> QED
          BY <4>1, <4>2 DEF ClosesOut
    <3>3. r - (c - k) * v = -(signed * price * v)
        BY <3>1, FlipPays
    <3>4. price * (q + signed) \in Int /\ (price * q - k) * v \in Int
        OBVIOUS
    <3> QED
        BY <3>1, <3>2, <3>3, <3>4
  <2>2. CASE ~Flips(q, signed) /\ ClosesOut(q, signed)
    <3>1. /\ c = 0 /\ r = (price * q - k) * v /\ q # 0 /\ q + signed = 0
        BY <1>2, <1>3, <2>2 DEF ClosesOut
    <3>2. r - (c - k) * v = -(signed * price * v)
        BY <3>1, ClosePays
    <3>3. (price * q - k) * v \in Int
        OBVIOUS
    <3> QED
        BY <3>1, <3>2, <3>3
  <2>3. CASE ~Flips(q, signed) /\ ~ClosesOut(q, signed)
    <3>1. c = k + price * signed /\ r = 0
        BY <1>2, <1>3, <2>3
    <3>2. r - (c - k) * v = -(signed * price * v)
        BY <3>1, AddPays
    <3>3. k + price * signed \in Int
        OBVIOUS
    <3> QED
        BY <2>3, <3>1, <3>2, <3>3
  <2> QED
      BY <2>1, <2>2, <2>3
<1>5. PICK qs, cs : /\ qs = [a.qty EXCEPT ![s] = q + signed]
                    /\ cs = [a.cost EXCEPT ![s] = c]
    OBVIOUS
<1>6. PICK x : x = a.realized + r
    OBVIOUS
<1>7. PICK m : m = [a EXCEPT !.qty = qs, !.cost = cs, !.realized = x]
    OBVIOUS
<1>8. /\ IsAccount(m) /\ m.stage = a.stage /\ m.realized = x
      /\ m.qty = qs /\ m.cost = cs /\ m.mark = a.mark /\ m.high = a.high
  <2>1. qs \in [SimSymbols -> Int] /\ cs \in [SimSymbols -> Int] /\ x \in Int
      BY <1>1, <1>4, <1>5, <1>6 DEF IsAccount, IsSim
  <2> QED
      BY <1>7, <2>1 DEF IsAccount, IsSim, SimFields
<1>9. b = Ratcheted(m)
  <2>1. ApplyFill(a, s, signed, price) =
            Ratcheted([a EXCEPT !.qty[s] = q + signed,
                !.cost[s] = IF Flips(q, signed) THEN price * (q + signed)
                    ELSE IF ClosesOut(q, signed) THEN 0
                    ELSE IF Reduces(q, signed) THEN ReducedCost(q, a.cost[s], signed)
                    ELSE a.cost[s] + price * signed,
                !.realized = IF Flips(q, signed) \/ ClosesOut(q, signed)
                     THEN a.realized + (price * q - a.cost[s]) * PointValue[s]
                     ELSE a.realized])
      BY <1>1 DEF ApplyFill
  <2>2. (IF Flips(q, signed) THEN price * (q + signed)
                    ELSE IF ClosesOut(q, signed) THEN 0
                    ELSE IF Reduces(q, signed) THEN ReducedCost(q, a.cost[s], signed)
                    ELSE a.cost[s] + price * signed) = c
      BY <1>1, <1>2
  <2>3. (IF Flips(q, signed) \/ ClosesOut(q, signed)
                     THEN a.realized + (price * q - a.cost[s]) * PointValue[s]
                     ELSE a.realized) = x
    <3>1. a.realized \in Int /\ a.realized + 0 = a.realized
        BY DEF IsAccount
    <3> QED
        BY <1>1, <1>3, <1>6, <3>1
  <2>4. ApplyFill(a, s, signed, price) =
            Ratcheted([a EXCEPT !.qty[s] = q + signed, !.cost[s] = c, !.realized = x])
      BY <2>1, <2>2, <2>3
  <2>5. [a EXCEPT !.qty[s] = q + signed, !.cost[s] = c, !.realized = x] = m
      BY <1>5, <1>7
  <2> QED
      BY <2>4, <2>5
<1>10. /\ IsAccount(b) /\ b.stage = a.stage /\ b.realized = x
       /\ b.qty = qs /\ b.cost = cs /\ b.mark = a.mark
       /\ b.high = Larger(a.high, Equity(b))
    BY <1>8, <1>9, RatchetIs
<1>11. /\ b.cost[s] = c /\ a.realized \in Int /\ b.realized - a.realized = r
       /\ r = 0 => b.realized = a.realized
    BY <1>4, <1>5, <1>6, <1>10 DEF IsAccount
<1>12. b.realized - a.realized - (b.cost[s] - a.cost[s]) * PointValue[s]
         = -(signed * price * PointValue[s])
    BY <1>1, <1>4, <1>11
<1> QED
    BY <1>1, <1>4, <1>5, <1>10, <1>11, <1>12 DEF FilledAs

(***************************************************************************)
(* Marks and fills keep the account balanced.                              *)
(***************************************************************************)
LEMMA FillBalances ==
    ASSUME NEW a, IsAccount(a), NEW c \in Int, Balanced(a, c), NEW s \in SimSymbols,
           NEW signed \in Int, NEW price \in Int, ~Reduces(a.qty[s], signed),
           NEW b, b = ApplyFill(a, s, signed, price)
    PROVE  Balanced(b, c - (b.qty[s] - a.qty[s]) * price * PointValue[s])
<1>0. FilledAs(a, b, s, signed, price)
    BY FillIs
<1>1. /\ b.cost = [a.cost EXCEPT ![s] = b.cost[s]]
      /\ (b.realized - a.realized) - (b.cost[s] - a.cost[s]) * PointValue[s]
            = -(signed * price * PointValue[s])
    BY <1>0 DEF FilledAs
<1>2. IsAccount(b) /\ b.qty = [a.qty EXCEPT ![s] = a.qty[s] + signed]
    BY <1>0 DEF FilledAs
<1>3. /\ a.qty[s] \in Int /\ a.cost[s] \in Int /\ PointValue[s] \in Int
      /\ a.realized \in Int /\ IsFiniteSet(SimSymbols)
      /\ b.realized \in Int /\ b.cost[s] \in Int
    BY <1>2, SimAssumption DEF IsAccount, IsSim
<1>4. b.qty[s] - a.qty[s] = signed
    BY <1>2, <1>3 DEF IsAccount, IsSim
<1>5. PICK w \in Int : w = PointValue[s]
    BY <1>3
<1>6. PICK k0 \in Int, k \in Int, r \in Int :
          k0 = a.cost[s] /\ k = b.cost[s] /\ r = b.realized - a.realized
    BY <1>3
<1>7. k * w = k0 * w + (k - k0) * w /\ (k - k0) * w \in Int /\ signed * price * w \in Int
    OBVIOUS
<1>8. Total(Costs(b)) = Total(Costs(a)) + (k - k0) * w
  <2>1. Costs(b)[s] = k * w /\ Costs(a)[s] = k0 * w
      BY <1>1, <1>5, <1>6 DEF Costs, IsAccount
  <2>2. Costs(b)[s] = Costs(a)[s] + (k - k0) * w
      BY <1>7, <2>1
  <2>3. \A t \in SimSymbols : t # s => Costs(b)[t] = Costs(a)[t]
      BY <1>1 DEF Costs, IsAccount
  <2>4. \A t \in SimSymbols : Costs(a)[t] \in Int
      BY EquityIsANumber
  <2> QED
      BY <1>3, <1>7, <2>2, <2>3, <2>4, SumMoves DEF Total
<1>9. Total(Costs(a)) \in Int
    BY EquityIsANumber
<1>10. r - (k - k0) * w = -(signed * price * w) /\ c = a.realized - Total(Costs(a))
    BY <1>1, <1>5, <1>6 DEF Balanced
<1>11. c - signed * price * w = a.realized + r - (Total(Costs(a)) + (k - k0) * w)
    BY <1>3, <1>7, <1>9, <1>10
<1>12. a.realized + r = b.realized
    BY <1>3, <1>6
<1>13. c - (b.qty[s] - a.qty[s]) * price * PointValue[s] = c - signed * price * w
    BY <1>4, <1>5
<1>14. a.realized + r - (Total(Costs(a)) + (k - k0) * w) = b.realized - Total(Costs(b))
    BY <1>3, <1>7, <1>8, <1>9, <1>12
<1>15. c - (b.qty[s] - a.qty[s]) * price * PointValue[s] = b.realized - Total(Costs(b))
    BY <1>11, <1>13, <1>14
<1> QED
    BY <1>15 DEF Balanced

\* The balance does not depend on marks, the high water or the stage.
LEMMA BalanceStays ==
    ASSUME NEW a, NEW b, b.cost = a.cost, b.realized = a.realized, NEW c, Balanced(a, c)
    PROVE  Balanced(b, c)
BY DEF Balanced, Costs

LEMMA MarkStaysKnown ==
    ASSUME NEW a, IsAccount(a), MarksKnown(a), NEW s \in SimSymbols,
           NEW price \in Nat \ {0}, NEW b, b = MarkToMarket(a, s, price)
    PROVE  MarksKnown(b) /\ b.mark[s] = price
<1>1. b.qty = a.qty /\ b.cost = a.cost /\ b.mark = [a.mark EXCEPT ![s] = price]
    BY MarkIs
<1> QED
    BY <1>1 DEF MarksKnown, NoMark, IsAccount

(***************************************************************************)
(* A fill at the mark of its symbol, and one of a symbol without a mark,   *)
(* leaves the equity where it was.                                         *)
(***************************************************************************)
LEMMA FirstFillIsFree ==
    ASSUME NEW a, IsAccount(a), MarksKnown(a), NEW s \in SimSymbols, NEW signed \in Int,
           NEW price \in Int, a.mark[s] = NoMark,
           ~Reduces(a.qty[s], signed), NEW b, b = ApplyFill(a, s, signed, price)
    PROVE  Equity(b) = Equity(a)
<1>0. FilledAs(a, b, s, signed, price)
    BY FillIs
<1>1. b.cost = [a.cost EXCEPT ![s] = b.cost[s]] /\ (a.qty[s] = 0 => b.realized = a.realized)
    BY <1>0 DEF FilledAs
<1>2. IsAccount(b) /\ b.qty = [a.qty EXCEPT ![s] = a.qty[s] + signed] /\ b.mark = a.mark
    BY <1>0 DEF FilledAs
<1>3. a.qty[s] = 0 /\ a.realized \in Int
    BY DEF MarksKnown, IsAccount
<1>4. b.realized = a.realized
    BY <1>1, <1>3
<1>5. Gains(b)[s] = Gains(a)[s] + 0
  <2>1. Gains(b)[s] = 0 /\ Gains(a)[s] = 0
      BY <1>2 DEF Gains
  <2> QED
      BY <2>1
<1>6. OthersAlike(a, b, s) /\ 0 \in Int
  <2>1. a.qty \in [SimSymbols -> Int] /\ a.cost \in [SimSymbols -> Int]
      BY DEF IsAccount, IsSim
  <2>2. \A t \in SimSymbols : t # s => b.qty[t] = a.qty[t]
      BY <1>2, <2>1
  <2>3. \A t \in SimSymbols : t # s => b.cost[t] = a.cost[t]
      BY <1>1, <2>1
  <2> QED
      BY <1>2, <2>2, <2>3 DEF OthersAlike
<1>7. Equity(b) = Equity(a) + (b.realized - a.realized) + 0
    BY <1>2, <1>5, <1>6, EquityMoves
<1>8. Equity(a) \in Int
    BY EquityIsANumber
<1> QED
    BY <1>3, <1>4, <1>7, <1>8

LEMMA MarkAgain ==
    ASSUME NEW a, IsAccount(a), NEW s \in SimSymbols, NEW price \in Nat,
           a.mark[s] = price, NEW b, b = MarkToMarket(a, s, price)
    PROVE  Equity(b) = Equity(a)
<1>1. /\ b.realized = a.realized /\ b.qty = a.qty /\ b.cost = a.cost
      /\ b.mark = [a.mark EXCEPT ![s] = price]
    BY MarkIs
<1>2. b.mark = a.mark
    BY <1>1 DEF IsAccount
<1> QED
    BY <1>1, <1>2, EquityStays

(***************************************************************************)
(* Closing a position leaves none of its gain open.                        *)
(***************************************************************************)
LEMMA FlattenIs ==
    ASSUME NEW a, IsAccount(a), MarksKnown(a), NEW c \in Int, Balanced(a, c),
           Equity(a) <= a.high, NEW s \in SimSymbols, NEW price \in Nat \ {0},
           NEW b, b = FlattenAt(a, s, price)
    PROVE  /\ IsAccount(b) /\ MarksKnown(b) /\ b.stage = a.stage
           /\ Balanced(b, c - (b.qty[s] - a.qty[s]) * price * PointValue[s])
           /\ b.high = Larger(a.high, Equity(b))
           /\ a.mark[s] = price => Equity(b) = Equity(a)
<1>0. /\ a.qty[s] \in Int /\ PointValue[s] \in Int /\ a.high \in Int
      /\ a.mark[s] \in Nat /\ a.cost[s] \in Int
    BY SimAssumption DEF IsAccount, IsSim
<1>1. CASE a.qty[s] = 0
  <2>1. b = a
      BY <1>1 DEF FlattenAt
  <2>2. Equity(a) \in Int
      BY EquityIsANumber
  <2>3. PICK w \in Int : w = PointValue[s]
      BY <1>0
  <2>4. (0 - 0) * price * w = 0
      OBVIOUS
  <2>5. c - (b.qty[s] - a.qty[s]) * price * PointValue[s] = c
      BY <1>1, <2>1, <2>3, <2>4
  <2>6. a.high = Larger(a.high, Equity(a))
      BY <1>0, <2>2 DEF Larger
  <2> QED
      BY <2>1, <2>5, <2>6
<1>2. CASE a.qty[s] # 0
  <2>1. PICK q \in Int : q = a.qty[s]
      BY <1>0
  <2>2. PICK n \in Int : n = -q
      BY <2>1
  <2>3. PICK f : f = ApplyFill(a, s, n, price)
      OBVIOUS
  <2>4. b = MarkToMarket(f, s, price)
      BY <1>2, <2>1, <2>2, <2>3 DEF FlattenAt
  <2>5. ~Reduces(a.qty[s], n) /\ ClosesOut(a.qty[s], n) /\ a.qty[s] + n = 0
    <3>1. q + n = 0 /\ q # 0
        BY <1>2, <2>1, <2>2
    <3>2. q * 0 = 0
        OBVIOUS
    <3> QED
        BY <2>1, <3>1, <3>2 DEF Reduces, ClosesOut
  <2>5a. FilledAs(a, f, s, n, price)
      BY <2>3, <2>5, FillIs
  <2>6. /\ f.cost = [a.cost EXCEPT ![s] = f.cost[s]]
        /\ (f.realized - a.realized) - (f.cost[s] - a.cost[s]) * PointValue[s]
              = -(n * price * PointValue[s])
        /\ ClosesOut(a.qty[s], n) => f.cost[s] = 0
      BY <2>5a DEF FilledAs
  <2>7. /\ IsAccount(f) /\ f.stage = a.stage /\ f.mark = a.mark
        /\ f.qty = [a.qty EXCEPT ![s] = a.qty[s] + n] /\ f.high = Larger(a.high, Equity(f))
      BY <2>5a DEF FilledAs
  <2>8. Balanced(f, c - (f.qty[s] - a.qty[s]) * price * PointValue[s])
      BY <2>3, <2>5, FillBalances
  <2>9. f.qty[s] = 0 /\ f.cost[s] = 0
      BY <2>5, <2>6, <2>7 DEF IsAccount, IsSim
  <2>10. /\ IsAccount(b) /\ b.stage = f.stage /\ b.realized = f.realized
         /\ b.qty = f.qty /\ b.cost = f.cost /\ b.mark = [f.mark EXCEPT ![s] = price]
         /\ b.high = Larger(f.high, Equity(b))
      BY <2>4, <2>7, MarkIs
  <2>11. Balanced(b, c - (b.qty[s] - a.qty[s]) * price * PointValue[s])
    <3>1. b.qty[s] = f.qty[s]
        BY <2>10
    <3> QED
        BY <2>8, <2>10, <3>1, BalanceStays
  <2>12. Equity(b) = Equity(f)
    <3>1. a.mark[s] # NoMark
        BY <1>2 DEF MarksKnown
    <3>2. PICK v \in Int : v = PointValue[s]
        BY <1>0
    <3>3. PICK mk \in Int : mk = a.mark[s]
        BY <1>0
    <3>4. (mk * 0 - 0) * v = 0 /\ (price * 0 - 0) * v = 0
        OBVIOUS
    <3>5. Gains(f)[s] = 0
        BY <2>7, <2>9, <3>2, <3>3, <3>4 DEF Gains
    <3>6. b.mark[s] = price /\ b.qty[s] = 0 /\ b.cost[s] = 0
        BY <2>7, <2>9, <2>10 DEF IsAccount
    <3>7. Gains(b)[s] = 0
        BY <3>2, <3>4, <3>6 DEF Gains
    <3>8. Gains(b)[s] = Gains(f)[s] + 0
        BY <3>5, <3>7
    <3>9. OthersAlike(f, b, s) /\ 0 \in Int
        BY <2>7, <2>10 DEF IsAccount, OthersAlike
    <3>10. Equity(b) = Equity(f) + (b.realized - f.realized) + 0
        BY <2>7, <2>10, <3>8, <3>9, EquityMoves
    <3>11. Equity(f) \in Int /\ f.realized \in Int
        BY <2>7, EquityIsANumber DEF IsAccount
    <3> QED
        BY <2>10, <3>10, <3>11
  <2>13. ASSUME a.mark[s] = price PROVE Equity(f) = Equity(a)
    <3>1. PICK v \in Int : v = PointValue[s]
        BY <1>0
    <3>2. PICK k0 \in Int : k0 = a.cost[s]
        BY <1>0
    <3>3. PICK d \in Int : d = -((price * q - k0) * v)
      <4>1. -((price * q - k0) * v) \in Int
          OBVIOUS
      <4> QED
          BY <4>1
    <3>4. (price * 0 - 0) * v = 0
        OBVIOUS
    <3>5. Gains(a)[s] = (price * q - k0) * v
        BY <2>1, <2>13, <3>1, <3>2 DEF Gains, NoMark
    <3>6. Gains(f)[s] = 0
        BY <2>7, <2>9, <2>13, <3>1, <3>4 DEF Gains
    <3>7. Gains(f)[s] = Gains(a)[s] + d
      <4>1. (price * q - k0) * v \in Int
          OBVIOUS
      <4> QED
          BY <3>3, <3>5, <3>6, <4>1
    <3>8. OthersAlike(a, f, s)
        BY <2>6, <2>7 DEF IsAccount, IsSim, OthersAlike
    <3>9. Equity(f) = Equity(a) + (f.realized - a.realized) + d
        BY <2>7, <3>7, <3>8, EquityMoves
    <3>10. f.realized - a.realized = -d
      <4> DEFINE r == f.realized - a.realized
      <4>0. r \in Int
          BY <2>7 DEF IsAccount
      <4>1. r - (0 - k0) * v = -((-q) * price * v)
          BY <2>2, <2>5, <2>6, <2>9, <3>1, <3>2
      <4> HIDE DEF r
      <4>2. -((-q) * price * v) + (0 - k0) * v = (price * q - k0) * v
          OBVIOUS
      <4>3. (0 - k0) * v \in Int /\ -((-q) * price * v) \in Int
          OBVIOUS
      <4>4. r = -d
          BY <3>3, <4>0, <4>1, <4>2, <4>3
      <4> QED
          BY <4>4 DEF r
    <3>11. Equity(a) \in Int /\ a.realized \in Int
        BY EquityIsANumber DEF IsAccount
    <3> QED
        BY <3>3, <3>9, <3>10, <3>11
  <2>14. b.high = Larger(a.high, Equity(b))
    <3>1. Equity(f) \in Int
        BY <2>7, EquityIsANumber
    <3> QED
        BY <1>0, <2>7, <2>10, <2>12, <3>1 DEF Larger
  <2>15. MarksKnown(b)
    <3>1. b.mark[s] # NoMark
        BY <2>7, <2>10 DEF NoMark, IsAccount
    <3>2. OthersAlike(a, f, s)
        BY <2>6, <2>7 DEF IsAccount, IsSim, OthersAlike
    <3>3. OthersAlike(f, b, s)
        BY <2>7, <2>10 DEF IsAccount, OthersAlike
    <3> QED
        BY <3>1, <3>2, <3>3 DEF MarksKnown, OthersAlike
  <2> QED
      BY <2>7, <2>10, <2>11, <2>12, <2>13, <2>14, <2>15
<1> QED
    BY <1>1, <1>2

(***************************************************************************)
(* The books of an account are right when its cash c accounts for its      *)
(* balance, its high water is the most it was worth, h, and it is worth no *)
(* more than that.  It is alive when no floor is touched.                  *)
(***************************************************************************)
Books(a, c, h) ==
    /\ IsAccount(a) /\ MarksKnown(a) /\ c \in Int /\ Balanced(a, c)
    /\ a.high = h /\ Equity(a) <= a.high

Active == {"combine_active", "efa_active"}

\* Larger of integers, and of three of which the last two are the same.
LEMMA LargerIs ==
    ASSUME NEW x \in Int, NEW y \in Int
    PROVE  /\ Larger(x, y) \in Int /\ y <= Larger(x, y) /\ x <= Larger(x, y)
           /\ Larger(Larger(x, y), y) = Larger(x, y)
           /\ x >= y => Larger(x, y) = x
BY DEF Larger

LEMMA BooksAreWorth ==
    ASSUME NEW a, NEW c, NEW h, Books(a, c, h)
    PROVE  Equity(a) = Worth(a, c) /\ Equity(a) \in Int /\ h \in Int
<1>1. IsAccount(a) /\ MarksKnown(a) /\ Balanced(a, c)
    BY DEF Books
<1>2. Equity(a) = Worth(a, c)
    BY <1>1, EquityIsWorth
<1>3. Equity(a) \in Int
    BY <1>1, EquityIsANumber
<1> QED
    BY <1>2, <1>3 DEF Books, IsAccount

\* An account with the right balance whose high water went up to its equity.
LEMMA BooksOf ==
    ASSUME NEW a, IsAccount(a), MarksKnown(a), NEW c \in Int, Balanced(a, c),
           NEW h \in Int, a.high = Larger(h, Equity(a))
    PROVE  Books(a, c, Larger(h, Worth(a, c)))
<1>1. Equity(a) = Worth(a, c) /\ Equity(a) \in Int
    BY EquityIsWorth, EquityIsANumber
<1>2. Equity(a) <= Larger(h, Equity(a))
    BY <1>1, LargerIs
<1> QED
    BY <1>1, <1>2 DEF Books

(***************************************************************************)
(* A mark moves the peak by what the account is worth at it.               *)
(***************************************************************************)
LEMMA MarkBooks ==
    ASSUME NEW a, NEW c, NEW h, Books(a, c, h), NEW s \in SimSymbols,
           NEW price \in Nat \ {0}, NEW m, m = MarkToMarket(a, s, price)
    PROVE  /\ Books(m, c, Larger(h, Worth(m, c)))
           /\ m.stage = a.stage /\ m.qty = a.qty /\ m.mark[s] = price
<1>1. IsAccount(a) /\ MarksKnown(a) /\ c \in Int /\ Balanced(a, c) /\ a.high = h /\ h \in Int
    BY DEF Books, IsAccount
<1>2. /\ IsAccount(m) /\ m.stage = a.stage /\ m.realized = a.realized
      /\ m.qty = a.qty /\ m.cost = a.cost /\ m.mark = [a.mark EXCEPT ![s] = price]
      /\ m.high = Larger(a.high, Equity(m))
  <2>1. price \in Nat
      OBVIOUS
  <2> QED
      BY <1>1, <2>1, MarkIs
<1>3. MarksKnown(m) /\ m.mark[s] = price
    BY <1>1, MarkStaysKnown
<1>4. Balanced(m, c)
    BY <1>1, <1>2, BalanceStays
<1>5. m.high = Larger(h, Equity(m))
    BY <1>1, <1>2
<1> QED
    BY <1>1, <1>2, <1>3, <1>4, <1>5, BooksOf

(***************************************************************************)
(* What the fills of a step at one price pay.                              *)
(***************************************************************************)
Paid(a, b, s, c, price) == c - (b.qty[s] - a.qty[s]) * price * PointValue[s]

LEMMA PaidIsInt ==
    ASSUME NEW a, IsAccount(a), NEW b, IsAccount(b), NEW s \in SimSymbols,
           NEW c \in Int, NEW price \in Int
    PROVE  Paid(a, b, s, c, price) \in Int
<1>1. a.qty[s] \in Int /\ b.qty[s] \in Int /\ PointValue[s] \in Int
    BY SimAssumption DEF IsAccount, IsSim
<1>2. PICK w \in Int : w = PointValue[s]
    BY <1>1
<1>3. PICK n \in Int : n = b.qty[s] - a.qty[s]
    BY <1>1
<1>4. n * price * w \in Int
    OBVIOUS
<1> QED
    BY <1>2, <1>3, <1>4 DEF Paid

\* A failed account has lost its stage and nothing else.
LEMMA FailedBooks ==
    ASSUME NEW a, NEW c, NEW h, Books(a, c, h), NEW b, b = MarkFailed(a)
    PROVE  Books(b, c, h) /\ b.stage \notin Active /\ b.qty = a.qty
<1>1. PICK g : b = [a EXCEPT !.stage = g] /\ g \notin Active
  <2>1. a = [a EXCEPT !.stage = a.stage]
      BY DEF Books, IsAccount, IsSim, SimFields
  <2>2. CASE a.stage = "combine_active"
      BY <2>2 DEF MarkFailed, Active
  <2>3. CASE a.stage = "efa_active"
      BY <2>3 DEF MarkFailed, Active
  <2>4. CASE a.stage \notin Active
      BY <2>1, <2>4 DEF MarkFailed, Active
  <2> QED
      BY <2>2, <2>3, <2>4 DEF Active
<1>2. IsAccount(a)
    BY DEF Books
<1>3. /\ IsAccount(b) /\ b.stage = g /\ b.realized = a.realized
      /\ b.qty = a.qty /\ b.cost = a.cost /\ b.mark = a.mark /\ b.high = a.high
    BY <1>1, <1>2 DEF IsAccount, IsSim, SimFields
<1>4. Equity(b) = Equity(a)
    BY <1>3, EquityStays
<1> QED
    BY <1>1, <1>3, <1>4, BalanceStays DEF Books, MarksKnown

(***************************************************************************)
(* A tick: the mark sets the peak, and the liquidation at that mark leaves *)
(* the equity, so also the high water, where it was.                       *)
(***************************************************************************)
LEMMA TickBooks ==
    ASSUME NEW a, NEW c, NEW h, Books(a, c, h), NEW s \in SimSymbols,
           NEW price \in Nat \ {0}, NEW b, b = Tick(a, s, price)
    PROVE  /\ Books(b, Paid(a, b, s, c, price), Larger(h, Worth(MarkToMarket(a, s, price), c)))
           /\ b.stage \in Active => ~Touched(b)
<1>1. PICK m : m = MarkToMarket(a, s, price)
    OBVIOUS
<1>2. PICK k : k = Larger(h, Worth(m, c))
    OBVIOUS
<1>3. Books(m, c, k) /\ m.stage = a.stage /\ m.qty = a.qty /\ m.mark[s] = price
    BY <1>1, <1>2, MarkBooks
<1>4. IsAccount(m) /\ MarksKnown(m) /\ c \in Int /\ Balanced(m, c) /\ m.high = k
      /\ Equity(m) <= m.high /\ k \in Int /\ IsAccount(a)
    BY <1>3 DEF Books, IsAccount
<1>5. b = IF Touched(m) THEN MarkFailed(FlattenAt(m, s, price)) ELSE m
    BY <1>1 DEF Tick
<1>6. CASE ~Touched(m)
  <2>1. b = m
      BY <1>5, <1>6
  <2>2. Paid(a, b, s, c, price) = c
    <3>1. PICK q \in Int, w \in Int : q = a.qty[s] /\ w = PointValue[s]
      <4>1. a.qty[s] \in Int /\ PointValue[s] \in Int
          BY <1>4, SimAssumption DEF IsAccount, IsSim
      <4> QED
          BY <4>1
    <3>2. c - (q - q) * price * w = c
      <4>1. (q - q) * price * w = 0
          OBVIOUS
      <4> QED
          BY <1>4, <4>1
    <3> QED
        BY <1>3, <2>1, <3>1, <3>2 DEF Paid
  <2> QED
      BY <1>1, <1>2, <1>3, <1>6, <2>1, <2>2
<1>7. CASE Touched(m)
  <2>1. PICK f : f = FlattenAt(m, s, price)
      OBVIOUS
  <2>2. /\ IsAccount(f) /\ MarksKnown(f)
        /\ Balanced(f, Paid(m, f, s, c, price))
        /\ f.high = Larger(m.high, Equity(f)) /\ Equity(f) = Equity(m)
      BY <1>3, <1>4, <2>1, FlattenIs DEF Paid
  <2>3. Paid(m, f, s, c, price) \in Int
      BY <1>4, <2>2, PaidIsInt
  <2>4. Equity(m) \in Int
      BY <1>4, EquityIsANumber
  <2>5. f.high = k /\ Equity(f) <= f.high
      BY <1>4, <2>2, <2>4 DEF Larger
  <2>6. Books(f, Paid(m, f, s, c, price), k)
      BY <2>2, <2>3, <2>5 DEF Books
  <2>7. /\ Books(b, Paid(m, f, s, c, price), k) /\ b.stage \notin Active /\ b.qty = f.qty
      BY <1>5, <1>7, <2>1, <2>6, FailedBooks
  <2>8. Paid(a, b, s, c, price) = Paid(m, f, s, c, price)
      BY <1>3, <2>7 DEF Paid
  <2> QED
      BY <1>1, <1>2, <2>7, <2>8
<1> QED
    BY <1>6, <1>7

(***************************************************************************)
(* An order: without a mark nothing was open, with one the order is marked *)
(* where it already was; so the fill itself never passes the peak.         *)
(***************************************************************************)
LEMMA OrderBooks ==
    ASSUME NEW a, NEW c, NEW h, Books(a, c, h), NEW s \in SimSymbols,
           NEW signed \in Int, NEW fill \in Int, NEW mid \in Nat \ {0},
           a.mark[s] # NoMark => mid = a.mark[s], ~Reduces(a.qty[s], signed),
           NEW b, b = MarkToMarket(ApplyFill(a, s, signed, fill), s, mid)
    PROVE  Books(b, Paid(a, b, s, c, fill), Larger(h, Worth(b, Paid(a, b, s, c, fill))))
<1>1. IsAccount(a) /\ MarksKnown(a) /\ c \in Int /\ Balanced(a, c) /\ a.high = h
      /\ Equity(a) <= a.high /\ h \in Int
    BY DEF Books, IsAccount
<1>2. PICK f : f = ApplyFill(a, s, signed, fill)
    OBVIOUS
<1>3. b = MarkToMarket(f, s, mid)
    BY <1>2
<1>4. FilledAs(a, f, s, signed, fill)
    BY <1>1, <1>2, FillIs
<1>5. Balanced(f, Paid(a, f, s, c, fill))
    BY <1>1, <1>2, FillBalances DEF Paid
<1>6. IsAccount(f) /\ f.mark = a.mark /\ f.high = Larger(h, Equity(f))
    BY <1>1, <1>4 DEF FilledAs
<1>7. /\ IsAccount(b) /\ b.realized = f.realized /\ b.qty = f.qty /\ b.cost = f.cost
      /\ b.mark = [f.mark EXCEPT ![s] = mid] /\ b.high = Larger(f.high, Equity(b))
    BY <1>3, <1>6, MarkIs
<1>8. Paid(a, b, s, c, fill) = Paid(a, f, s, c, fill)
    BY <1>7 DEF Paid
<1>9. Balanced(b, Paid(a, b, s, c, fill))
    BY <1>5, <1>7, <1>8, BalanceStays
<1>10. Paid(a, b, s, c, fill) \in Int
    BY <1>1, <1>7, PaidIsInt
<1>11. MarksKnown(b)
  <2>1. b.mark[s] = mid /\ \A t \in SimSymbols : t # s => b.mark[t] = a.mark[t]
      BY <1>6, <1>7 DEF IsAccount
  <2>2. a.qty \in [SimSymbols -> Int] /\ a.cost \in [SimSymbols -> Int]
      BY <1>1 DEF IsAccount, IsSim
  <2>3. \A t \in SimSymbols : t # s => b.qty[t] = a.qty[t] /\ b.cost[t] = a.cost[t]
      BY <1>4, <1>7, <2>2 DEF FilledAs
  <2> QED
      BY <1>1, <2>1, <2>3 DEF MarksKnown, NoMark
<1>12. Equity(a) \in Int /\ Equity(f) \in Int /\ Equity(b) \in Int
    BY <1>1, <1>6, <1>7, EquityIsANumber
<1>13. b.high = Larger(h, Equity(b))
  <2>1. CASE a.mark[s] = NoMark
    <3>1. Equity(f) = Equity(a)
        BY <1>1, <1>2, <2>1, FirstFillIsFree
    <3>2. f.high = h
        BY <1>1, <1>6, <1>12, <3>1 DEF Larger
    <3> QED
        BY <1>7, <3>2
  <2>2. CASE a.mark[s] # NoMark
    <3>1. f.mark[s] = mid
        BY <1>6, <2>2
    <3>2. Equity(b) = Equity(f)
        BY <1>3, <1>6, <3>1, MarkAgain
    <3> QED
        BY <1>1, <1>6, <1>7, <1>12, <3>2, LargerIs
  <2> QED
      BY <2>1, <2>2
<1> QED
    BY <1>1, <1>7, <1>9, <1>10, <1>11, <1>13, BooksOf

(***************************************************************************)
(* The end of a day is at most a fill at the close and its mark.           *)
(***************************************************************************)
LEMMA EodBooks ==
    ASSUME NEW a, NEW c, NEW h, Books(a, c, h), NEW s \in SimSymbols,
           NEW price \in Nat \ {0}, NEW isLate, NEW b, b = Eod(a, s, price, isLate)
    PROVE  Books(b, Paid(a, b, s, c, price), Larger(h, Worth(b, Paid(a, b, s, c, price))))
<1>1. IsAccount(a) /\ MarksKnown(a) /\ c \in Int /\ Balanced(a, c) /\ a.high = h
      /\ Equity(a) <= a.high /\ h \in Int
    BY DEF Books, IsAccount
<1>2. PICK f : f = IF isLate THEN FlattenAt(a, s, price) ELSE a
    OBVIOUS
<1>3. b = Ratcheted(f)
    BY <1>2 DEF Eod
<1>4. /\ IsAccount(f) /\ MarksKnown(f) /\ Balanced(f, Paid(a, f, s, c, price))
      /\ f.high = Larger(h, Equity(f))
  <2>1. CASE isLate
    <3>1. f = FlattenAt(a, s, price)
        BY <1>2, <2>1
    <3> QED
        BY <1>1, <3>1, FlattenIs DEF Paid
  <2>2. CASE ~isLate
    <3>1. f = a
        BY <1>2, <2>2
    <3>2. PICK q \in Int, w \in Int : q = a.qty[s] /\ w = PointValue[s]
      <4>1. a.qty[s] \in Int /\ PointValue[s] \in Int
          BY <1>1, SimAssumption DEF IsAccount, IsSim
      <4> QED
          BY <4>1
    <3>3. (q - q) * price * w = 0
        OBVIOUS
    <3>4. Paid(a, f, s, c, price) = c
        BY <1>1, <3>1, <3>2, <3>3 DEF Paid
    <3>5. Equity(a) \in Int
        BY <1>1, EquityIsANumber
    <3>6. a.high = Larger(h, Equity(a))
        BY <1>1, <3>5 DEF Larger
    <3> QED
        BY <1>1, <3>1, <3>4, <3>6
  <2> QED
      BY <2>1, <2>2
<1>5. /\ IsAccount(b) /\ b.realized = f.realized
      /\ b.qty = f.qty /\ b.cost = f.cost /\ b.mark = f.mark
      /\ Equity(b) = Equity(f) /\ b.high = Larger(f.high, Equity(b))
    BY <1>3, <1>4, RatchetIs
<1>6. Paid(a, b, s, c, price) = Paid(a, f, s, c, price)
    BY <1>5 DEF Paid
<1>7. Balanced(b, Paid(a, b, s, c, price)) /\ MarksKnown(b)
    BY <1>4, <1>5, <1>6, BalanceStays DEF MarksKnown
<1>8. Paid(a, b, s, c, price) \in Int
    BY <1>1, <1>5, PaidIsInt
<1>9. Equity(b) \in Int
    BY <1>5, EquityIsANumber
<1>10. b.high = Larger(h, Equity(b))
    BY <1>1, <1>4, <1>5, <1>9, LargerIs
<1> QED
    BY <1>1, <1>5, <1>7, <1>8, <1>10, BooksOf

(***************************************************************************)
(* The invariant: as long as no fill has only reduced a position, cash and *)
(* peak are the account's own, and after a bar an active account is above  *)
(* its floor.                                                              *)
(***************************************************************************)
SimInv ==
    /\ IsSim(sim) /\ reduced \in BOOLEAN
    /\ terminal \in {"none", "combine_passed", "efa_payout"}
    /\ ~reduced => Books(sim, cash, peak) /\ (marked /\ sim.stage \in Active => ~Touched(sim))

LEMMA SimBegins == SimInit => SimInv
<1> SUFFICES ASSUME SimInit PROVE SimInv
    OBVIOUS
<1>1. PICK stage \in Active :
          sim = [stage |-> stage, realized |-> 0, high |-> Start,
                 qty |-> [s \in SimSymbols |-> 0], cost |-> [s \in SimSymbols |-> 0],
                 mark |-> [s \in SimSymbols |-> NoMark]]
    BY DEF SimInit, Active
<1>2. terminal \in {"none", "combine_passed", "efa_payout"}
    BY DEF SimInit, TerminalOf
<1>3. cash = 0 /\ peak = Start /\ reduced = FALSE
    BY DEF SimInit
<1>4. /\ IsAccount(sim) /\ MarksKnown(sim) /\ sim.realized = 0 /\ sim.high = Start
      /\ sim.stage = stage
    BY <1>1, PolicyAssumption DEF IsAccount, IsSim, SimFields, MarksKnown, NoMark
<1>5. IsFiniteSet(SimSymbols)
    BY SimAssumption
<1>6. Total(Costs(sim)) = 0
  <2>1. \A s \in SimSymbols : Costs(sim)[s] = 0
    <3> SUFFICES ASSUME NEW s \in SimSymbols PROVE Costs(sim)[s] = 0
        OBVIOUS
    <3>1. PICK w \in Int : w = PointValue[s]
      <4>1. PointValue[s] \in Int
          BY SimAssumption
      <4> QED
          BY <4>1
    <3>2. 0 * w = 0 /\ sim.cost[s] = 0
        BY <1>1
    <3> QED
        BY <3>1, <3>2 DEF Costs
  <2> QED
      BY <1>5, <2>1, SumOfZeros DEF Total
<1>7. Total(Gains(sim)) = 0
  <2>1. \A s \in SimSymbols : Gains(sim)[s] = 0
      BY <1>1 DEF Gains
  <2> QED
      BY <1>5, <2>1, SumOfZeros DEF Total
<1>8. Equity(sim) = Start /\ Start \in Int
    BY <1>4, <1>7, EquityIsANumber, PolicyAssumption
<1>9. Balanced(sim, cash)
    BY <1>3, <1>4, <1>6 DEF Balanced
<1>10. Books(sim, cash, peak)
    BY <1>3, <1>4, <1>8, <1>9 DEF Books
<1>11. ~Touched(sim)
  <2>1. Mll \in Int /\ Mll > 0
      BY PolicyAssumption, SimAssumption
  <2>2. PICK a : a = AsState(sim)
      OBVIOUS
  <2>3. a = [equity |-> Start, realized |-> 0, pos |-> 0, hw |-> Start, locked |-> FALSE]
      BY <1>4, <1>8, <2>2 DEF AsState
  <2>4. CASE stage = "combine_active"
    <3>1. ActivePolicy(sim) = "combine"
        BY <1>4, <2>4 DEF ActivePolicy
    <3>2. Larger(Start, Start) = Start /\ ~(Start >= Start + Mll)
        BY <1>8, <2>1 DEF Larger
    <3>3. UpdateOnTick("combine", a) = a
      <4>1. UpdateOnTick("combine", a) =
                [a EXCEPT !.hw = Start, !.locked = a.locked \/ Start >= Start + Mll]
          BY <2>3, <3>2 DEF UpdateOnTick
      <4>2. (a.locked \/ Start >= Start + Mll) = FALSE
          BY <2>3, <3>2
      <4> QED
          BY <2>3, <4>1, <4>2
    <3>4. PhantomMll("combine", a) = Start - Mll
        BY <2>3 DEF PhantomMll
    <3> QED
        BY <1>8, <2>1, <2>2, <3>1, <3>3, <3>4 DEF Touched
  <2>5. CASE stage = "efa_active"
    <3>1. ActivePolicy(sim) = "efa"
        BY <1>4, <2>5 DEF ActivePolicy
    <3>2. UpdateOnTick("efa", a) = a
        BY DEF UpdateOnTick
    <3>3. PhantomMll("efa", a) = Start - Mll
        BY <1>8, <2>1, <2>3 DEF PhantomMll, Larger, Smaller
    <3> QED
        BY <1>8, <2>1, <2>2, <3>1, <3>2, <3>3 DEF Touched
  <2> QED
      BY <2>4, <2>5 DEF Active
<1> QED
    BY <1>2, <1>3, <1>4, <1>10, <1>11 DEF SimInv, IsAccount

LEMMA StepsKeepTheBooks ==
    ASSUME SimInv, [SimNext]_simVars
    PROVE  SimInv'
<1>1. IsSim(sim')
    BY StepsKeepTheAccount DEF SimInv
<1>2. ASSUME NEW s \in SimSymbols, NEW price \in Closes, NEW isLate \in BOOLEAN,
             SimBar(s, price, isLate)
      PROVE  SimInv'
  <2>1. /\ sim' = Tick(sim, s, price)
        /\ cash' = Paid(sim, sim', s, cash, price)
        /\ peak' = Larger(peak, Worth(MarkToMarket(sim, s, price), cash))
        /\ UNCHANGED <<terminal, reduced>>
      BY <1>2 DEF SimBar, Settle, Paid
  <2>2. price \in Nat \ {0}
      BY SimAssumption
  <2>3. ASSUME ~reduced
        PROVE  Books(sim', cash', peak') /\ (sim'.stage \in Active => ~Touched(sim'))
    <3>1. Books(sim, cash, peak)
        BY <2>3 DEF SimInv
    <3> QED
        BY <2>1, <2>2, <3>1, TickBooks
  <2> QED
      BY <1>1, <2>1, <2>3 DEF SimInv
<1>3. ASSUME NEW s \in SimSymbols, NEW price \in Closes, SimEod(s, price)
      PROVE  SimInv'
  <2>1. /\ sim' = Eod(sim, s, price, late)
        /\ cash' = Paid(sim, sim', s, cash, price)
        /\ peak' = Larger(peak, Worth(sim', cash'))
        /\ UNCHANGED <<terminal, reduced>> /\ marked' = FALSE
      BY <1>3 DEF SimEod, Settle, Paid
  <2>2. price \in Nat \ {0}
      BY SimAssumption
  <2>3. ASSUME ~reduced PROVE Books(sim', cash', peak')
    <3>1. Books(sim, cash, peak)
        BY <2>3 DEF SimInv
    <3> QED
        BY <2>1, <2>2, <3>1, EodBooks
  <2> QED
      BY <1>1, <2>1, <2>3 DEF SimInv
<1>4. ASSUME NEW s \in SimSymbols, NEW signed \in SimSizes, SimOrder(s, signed)
      PROVE  SimInv'
  <2>1. PICK mid, fill :
            /\ mid \in Mid(s)
            /\ fill = IF signed > 0 THEN mid + Slippage ELSE mid - Slippage
            /\ sim' = MarkToMarket(ApplyFill(sim, s, signed, fill), s, mid)
            /\ cash' = Paid(sim, sim', s, cash, fill)
            /\ peak' = Larger(peak, Worth(sim', cash'))
            /\ reduced' = (reduced \/ Reduces(sim.qty[s], signed))
      BY <1>4 DEF SimOrder, Settle, Paid
  <2>2. UNCHANGED terminal /\ marked' = FALSE
      BY <1>4 DEF SimOrder
  <2>3. reduced' \in BOOLEAN
      BY <2>1
  <2>4. ASSUME ~reduced' PROVE Books(sim', cash', peak')
    <3>1. ~reduced /\ ~Reduces(sim.qty[s], signed)
        BY <2>1, <2>4
    <3>2. Books(sim, cash, peak)
        BY <3>1 DEF SimInv
    <3>3. sim.mark[s] \in Nat
        BY <3>2 DEF Books, IsAccount
    <3>4. mid \in Nat \ {0} /\ (sim.mark[s] # NoMark => mid = sim.mark[s])
        BY <2>1, <3>3, SimAssumption DEF Mid, NoMark
    <3>5. signed \in Int /\ fill \in Int
        BY <2>1, <3>4, SimAssumption
    <3> QED
        BY <2>1, <3>1, <3>2, <3>4, <3>5, OrderBooks
  <2> QED
      BY <1>1, <2>2, <2>3, <2>4 DEF SimInv
<1>5. CASE UNCHANGED <<sim, terminal, cash, peak, reduced, marked>>
    BY <1>5 DEF SimInv
<1>6. CASE BarsEnd
    BY <1>5, <1>6 DEF BarsEnd
<1>7. CASE Promote
  <2>1. UNCHANGED <<terminal, cash, peak, reduced, marked>>
      BY <1>7 DEF Promote
  <2>2. CASE sim' = sim
      BY <1>5, <2>1, <2>2
  <2>3. CASE sim' # sim
    <3>1. terminal # "none" /\ sim' = [sim EXCEPT !.stage = terminal]
        BY <1>7, <2>3 DEF Promote
    <3>2. sim'.stage = terminal /\ terminal \notin Active
        BY <3>1 DEF SimInv, IsSim, SimFields, Active
    <3>3. ASSUME ~reduced PROVE Books(sim', cash, peak)
      <4>1. Books(sim, cash, peak)
          BY <3>3 DEF SimInv
      <4>2. PICK g : g = terminal
          OBVIOUS
      <4>3. /\ IsAccount(sim') /\ sim'.realized = sim.realized
            /\ sim'.qty = sim.qty /\ sim'.cost = sim.cost /\ sim'.mark = sim.mark
            /\ sim'.high = sim.high
          BY <3>1, <4>1 DEF Books, IsAccount, IsSim, SimFields
      <4>4. Equity(sim') = Equity(sim)
          BY <4>3, EquityStays
      <4> QED
          BY <4>1, <4>3, <4>4, BalanceStays DEF Books, MarksKnown
    <3> QED
        BY <1>1, <2>1, <3>2, <3>3 DEF SimInv
  <2> QED
      BY <2>2, <2>3
<1>8. CASE UNCHANGED simVars
    BY <1>5, <1>8 DEF simVars
<1> QED
    BY <1>2, <1>3, <1>4, <1>6, <1>7, <1>8 DEF SimNext

(***************************************************************************)
(* Balance and unrealized P&L add up to what the fills paid and received   *)
(* and what is still open is worth, as long as no fill only reduced a      *)
(* position (account.py 93-183).                                           *)
(***************************************************************************)
THEOREM FillsAddUp == SimSpec => []EquityIsWhatTheFillsSay
<1>1. SimInv => EquityIsWhatTheFillsSay
    BY BooksAreWorth DEF SimInv, EquityIsWhatTheFillsSay
<1>2. SimInv /\ [SimNext]_simVars => SimInv'
    BY StepsKeepTheBooks
<1> QED
    BY <1>1, <1>2, SimBegins, PTL DEF SimSpec

(***************************************************************************)
(* An account whose stage is still active after a bar is worth more than   *)
(* the floor of the most it was ever worth (engine.py 4-6).                *)
(***************************************************************************)
THEOREM FloorIsKept == SimSpec => []SurvivorsAreAboveTheFloor
<1>1. SimInv => SurvivorsAreAboveTheFloor
  <2> SUFFICES ASSUME SimInv, marked, ~reduced, sim.stage \in Active
               PROVE  Worth(sim, cash) >
                          PhantomMll(ActivePolicy(sim),
                                     UpdateOnTick(ActivePolicy(sim),
                                                  [AsState(sim) EXCEPT !.hw = peak]))
      BY DEF SurvivorsAreAboveTheFloor, Active
  <2>1. Books(sim, cash, peak) /\ ~Touched(sim)
      BY DEF SimInv
  <2>2. Equity(sim) = Worth(sim, cash) /\ Equity(sim) \in Int /\ peak \in Int
      BY <2>1, BooksAreWorth
  <2>3. PICK a : a = AsState(sim)
      OBVIOUS
  <2>4. a.hw = peak /\ [a EXCEPT !.hw = peak] = a /\ a.equity \in Int /\ a.hw \in Int
    <3>1. sim.high = peak
        BY <2>1 DEF Books
    <3>2. PICK e, r : e = Equity(sim) /\ r = sim.realized
        OBVIOUS
    <3>3. a = [equity |-> e, realized |-> r, pos |-> 0, hw |-> peak, locked |-> FALSE]
        BY <2>3, <3>1, <3>2 DEF AsState
    <3>4. a.hw = peak /\ a.equity = e
        BY <3>3
    <3>5. [a EXCEPT !.hw = peak] = a
      <4>1. a = [x \in {"equity", "realized", "pos", "hw", "locked"} |-> a[x]]
          BY <3>3
      <4> QED
          BY <3>4, <4>1
    <3> QED
        BY <2>2, <3>2, <3>4, <3>5
  <2>5. PICK p \in Policies : p = ActivePolicy(sim)
      BY DEF ActivePolicy, Policies
  <2>6. PICK w : w = UpdateOnTick(p, a)
      OBVIOUS
  <2>7. w.hw \in Int
    <3>1. PICK k \in Int : k = Larger(a.hw, a.equity)
        BY <2>4, LargerIs
    <3>2. w = a \/ \E b : w = [a EXCEPT !.hw = k, !.locked = b]
        BY <2>6, <3>1 DEF UpdateOnTick
    <3>3. w.hw = a.hw \/ w.hw = k
        BY <2>3, <3>2 DEF AsState
    <3> QED
        BY <2>4, <3>3
  <2>8. PhantomMll(p, w) \in Int
      BY <2>5, <2>7, PolicyAssumption DEF PhantomMll, Larger, Smaller
  <2>9. ~(Equity(sim) <= PhantomMll(p, w))
      BY <2>1, <2>3, <2>5, <2>6 DEF Touched
  <2>10. Worth(sim, cash) > PhantomMll(p, w)
      BY <2>2, <2>8, <2>9
  <2> QED
      BY <2>3, <2>4, <2>5, <2>6, <2>10
<1>2. SimInv /\ [SimNext]_simVars => SimInv'
    BY StepsKeepTheBooks
<1> QED
    BY <1>1, <1>2, SimBegins, PTL DEF SimSpec
=============================================================================
