----------------------------- MODULE SignalPath -----------------------------
(***************************************************************************)
(* The way of a signal from a chat channel to an order:                    *)
(* signals/discord_source.py with signals/parser.py, and                   *)
(* strategy/signal_strategy.py.                                            *)
(*                                                                         *)
(* A message that is accepted waits in the source's bounded queue; the     *)
(* pump task moves it to the strategy's deque; on_bar turns it into an     *)
(* order.  Both limits drop the newest signal.  All of it runs on one      *)
(* event loop: between two steps below every other step may happen, and    *)
(* the pump, whose get() does not suspend while there is something to get, *)
(* empties the source's queue in one activation.                           *)
(*                                                                         *)
(* The text of a message is abstracted to what the filters tell apart, its *)
(* kind.  inject() is a seam for tests and has no caller under src/bot.    *)
(***************************************************************************)
EXTENDS Naturals, Sequences, SequencesExt

CONSTANTS
    SourceSize,    \* max_queue_size of the source
    QueueSize,     \* max_queue_size of the strategy
    MaxPerBar,     \* max_signals_per_bar
    MaxSignals     \* bound of the model: messages that reach the queue

ASSUME SignalPathAssumption ==
    /\ SourceSize \in Nat \ {0} /\ QueueSize \in Nat \ {0}
    /\ MaxPerBar \in Nat \ {0} /\ MaxSignals \in Nat

VARIABLES
    accepted,  \* history: the signals parsed so far, in the order of arrival
    dropped,   \* history: ids dropped at a full queue or for a wrong symbol
    source,    \* DiscordSignalSource._queue
    closing,   \* how far close() is: "open", "client", "putting", "closed"
    pump,      \* _pump_task: "off", "running", "done"
    queue,     \* SignalStrategy._queue
    emitted    \* history: ids of the orders on_bar returned, in order

signalVars == <<accepted, dropped, source, closing, pump, queue, emitted>>

\* The first n elements of a sequence, or all of them.
FirstOf(s, n) == SubSeq(s, 1, IF n < Len(s) THEN n ELSE Len(s))

SignalSymbols == {"ours", "other"}
MessageKinds == {"bot", "elsewhere", "garbled"} \cup SignalSymbols
Signal == [id : 1..MaxSignals, symbol : SignalSymbols]
Sentinel == [id |-> 0, symbol |-> "ours"]

SignalsInit ==
    /\ accepted = <<>> /\ dropped = {} /\ emitted = <<>>
    /\ source = <<>> /\ queue = <<>>
    /\ closing = "open" /\ pump = "off"
-----------------------------------------------------------------------------
(* The source. *)

\* A text without one side and an entry price is not a signal.
Parse(kind) == IF kind \in SignalSymbols
               THEN {[id |-> Len(accepted) + 1, symbol |-> kind]}
               ELSE {}

\* put_nowait; a full queue drops the new event.
Enqueue(signal) ==
    IF Len(source) < SourceSize
    THEN source' = Append(source, signal) /\ UNCHANGED dropped
    ELSE dropped' = dropped \cup {signal.id} /\ UNCHANGED source

\* _handle_message: an author that is a bot and a channel that is not followed
\* are filtered before the parser sees the text.
Message(kind) ==
    /\ closing \in {"open", "client"}
    /\ kind \notin {"bot", "elsewhere"}
    /\ Len(accepted) < MaxSignals
    /\ \E signal \in Parse(kind) :
        /\ accepted' = Append(accepted, signal)
        /\ Enqueue(signal)
    /\ UNCHANGED <<closing, pump, queue, emitted>>

CloseSource ==
    /\ closing = "open"
    /\ closing' = "client"
    /\ UNCHANGED <<accepted, dropped, source, pump, queue, emitted>>

\* client.close() returns or raises.
ClientClosed ==
    /\ closing = "client"
    /\ closing' = "putting"
    /\ UNCHANGED <<accepted, dropped, source, pump, queue, emitted>>

ClosedWithoutWaking ==
    /\ closing = "putting"
    /\ closing' = "closed"
    /\ UNCHANGED <<accepted, dropped, source, pump, queue, emitted>>

\* put() waits for a place, however long that takes.
PutSentinel ==
    /\ closing = "putting" /\ Len(source) < SourceSize
    /\ source' = Append(source, Sentinel)
    /\ closing' = "closed"
    /\ UNCHANGED <<accepted, dropped, pump, queue, emitted>>
-----------------------------------------------------------------------------
(* The strategy. *)

\* setup() and start(): a pump that has not ended is kept.
StartPump ==
    /\ pump # "running"
    /\ pump' = "running"
    /\ UNCHANGED <<accepted, dropped, source, closing, queue, emitted>>

\* teardown() and stop(): the cancelled get() leaves the queue as it was.
StopPump ==
    /\ pump = "running"
    /\ pump' = "off"
    /\ UNCHANGED <<accepted, dropped, source, closing, queue, emitted>>

\* The events of one activation: up to the sentinel.
Upcoming == IF Contains(source, Sentinel)
            THEN SubSeq(source, 1, SelectInSeq(source, LAMBDA e : e = Sentinel) - 1)
            ELSE source

PumpIgnoresTheLimit ==
    /\ pump = "running" /\ source # <<>>
    /\ queue' = queue \o Upcoming
    /\ source' = SubSeq(source, Len(Upcoming) + 2, Len(source))
    /\ pump' = IF Contains(source, Sentinel) THEN "done" ELSE "running"
    /\ UNCHANGED <<accepted, dropped, closing, emitted>>

Pump ==
    /\ pump = "running" /\ source # <<>>
    /\ LET room == QueueSize - Len(queue)
           taken == FirstOf(Upcoming, room)
           rest == SubSeq(Upcoming, room + 1, Len(Upcoming))
       IN /\ queue' = queue \o taken
          /\ dropped' = dropped \cup {rest[i].id : i \in DOMAIN rest}
    /\ source' = SubSeq(source, Len(Upcoming) + 2, Len(source))
    /\ pump' = IF Contains(source, Sentinel) THEN "done" ELSE "running"
    /\ UNCHANGED <<accepted, closing, emitted>>

\* _symbols_match: one is a prefix of the other.
Matches(signal) == signal.symbol = "ours"

\* _build_intent: the order carries the id of its signal; side, quantity and
\* bracket are passed on.
Intent(signal) == signal.id

\* The signals of a sequence that match, in their order.
Matching(signals) ==
    LET upto[n \in 0..Len(signals)] ==
            IF n = 0 THEN <<>>
            ELSE IF Matches(signals[n]) THEN Append(upto[n - 1], signals[n])
            ELSE upto[n - 1]
    IN upto[Len(signals)]

BarReversed ==
    /\ LET matching == Matching(queue)
           taken == FirstOf(matching, MaxPerBar)
       IN /\ queue # <<>>
          /\ emitted' = emitted \o [i \in DOMAIN taken |-> Intent(taken[i])]
          /\ queue' = Reverse(SubSeq(matching, MaxPerBar + 1, Len(matching)))
          /\ dropped' = dropped \cup {queue[i].id : i \in {j \in DOMAIN queue : ~Matches(queue[j])}}
    /\ UNCHANGED <<accepted, source, closing, pump>>

BarScansTheQuota ==
    /\ queue # <<>>
    /\ LET head == FirstOf(queue, MaxPerBar)
           taken == Matching(head)
       IN /\ emitted' = emitted \o [i \in DOMAIN taken |-> Intent(taken[i])]
          /\ dropped' = dropped \cup {head[i].id : i \in {j \in DOMAIN head : ~Matches(head[j])}}
    /\ queue' = SubSeq(queue, MaxPerBar + 1, Len(queue))
    /\ UNCHANGED <<accepted, source, closing, pump>>

\* on_bar: the mismatches go, the first MaxPerBar matches become orders, and
\* the others are kept for the next bar.
SignalBar ==
    /\ queue # <<>>
    /\ LET matching == Matching(queue)
           taken == FirstOf(matching, MaxPerBar)
       IN /\ emitted' = emitted \o [i \in DOMAIN taken |-> Intent(taken[i])]
          /\ queue' = SubSeq(matching, MaxPerBar + 1, Len(matching))
          /\ dropped' = dropped \cup {queue[i].id : i \in {j \in DOMAIN queue : ~Matches(queue[j])}}
    /\ UNCHANGED <<accepted, source, closing, pump>>

SignalsNext ==
    \/ \E kind \in MessageKinds : Message(kind)
    \/ CloseSource \/ ClientClosed \/ PutSentinel
    \/ StartPump \/ StopPump \/ Pump \/ SignalBar

\* The pump and the coroutine of close() are scheduled; client.close() returns.
SignalsFairness ==
    /\ WF_signalVars(Pump) /\ WF_signalVars(ClientClosed) /\ WF_signalVars(PutSentinel)

SignalsSpec == SignalsInit /\ [][SignalsNext]_signalVars /\ SignalsFairness
-----------------------------------------------------------------------------
SignalsTypeOK ==
    /\ accepted \in Seq(Signal) /\ dropped \subseteq 1..MaxSignals
    /\ source \in Seq(Signal \cup {Sentinel}) /\ Len(source) <= SourceSize
    /\ queue \in Seq(Signal) /\ Len(queue) <= QueueSize
    /\ closing \in {"open", "client", "putting", "closed"}
    /\ pump \in {"off", "running", "done"}
    /\ emitted \in Seq(1..MaxSignals)
    /\ \A i \in DOMAIN accepted : accepted[i].id = i

(***************************************************************************)
(* No signal is lost unseen, emitted twice or overtaken: those that were   *)
(* not dropped are, in the order of their messages, the ones that became   *)
(* orders, the ones in the strategy's deque and the ones in the source's   *)
(* queue, across drains, teardowns, restarts of the pump and close()       *)
(* (discord_source.py 105-118, signal_strategy.py 110-190).                *)
(***************************************************************************)
Unbroken ==
    LET Numbers(signals) == [i \in DOMAIN signals |-> signals[i].id]
        line == emitted \o Numbers(queue) \o Numbers(Upcoming)
    IN /\ \A i, j \in DOMAIN line : i < j => line[i] < line[j]
       /\ Range(line) = DOMAIN accepted \ dropped

(***************************************************************************)
(* "Non-matching events are dropped without affecting the per-bar quota -  *)
(* ... spending a quota slot on them would starve real signals"            *)
(* (signal_strategy.py 157-162): a bar either emits its full quota or      *)
(* leaves nothing in the deque.                                            *)
(***************************************************************************)
QuotaGoesToMatches ==
    [][emitted' # emitted \/ (queue' # queue /\ source' = source) =>
         \/ Len(emitted') = Len(emitted) + MaxPerBar
         \/ queue' = <<>>]_signalVars

(***************************************************************************)
(* "close() ... unblock iter_signals" (discord_source.py 118-131): once    *)
(* close() is called, the pump's iteration ends, unless the pump was       *)
(* cancelled before; a source queue that is full delays close() only until *)
(* the pump has run.                                                       *)
(***************************************************************************)
CloseEndsThePump == closing \in {"client", "putting"} ~> pump # "running"
=============================================================================
