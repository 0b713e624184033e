------------------------------ MODULE BarFeed ------------------------------
(***************************************************************************)
(* The live bars of data/live_ib.py and data/aggregator.py, up to the loop *)
(* that consumes them (LiveBarSource, runtime/bar_source.py).              *)
(*                                                                         *)
(* A subscription gets its own list of 5-second bars from the client, which*)
(* only grows; an update emits barUpdateEvent with the whole list to every *)
(* handler of that client, whichever subscription the list is of.  Each    *)
(* handler counts what it has consumed, turns the rest into ticks and      *)
(* feeds an aggregator of its own, whose closed bars wait in an unbounded  *)
(* queue for the loop.  The updates may come late, several bars at once.   *)
(* connect() replaces the client and with it every subscription.           *)
(*                                                                         *)
(* Time is counted in 5-second bars, PerBar of them to an interval.        *)
(***************************************************************************)
EXTENDS Naturals, Sequences, FiniteSets, FiniteSetsExt

CONSTANTS
    Streams,   \* the subscriptions a client may have
    PerBar,    \* 5-second bars in an interval
    Prices,
    MaxTime, MaxConnects  \* bounds of the model

ASSUME BarFeedAssumption ==
    /\ PerBar \in Nat \ {0} /\ Prices \subseteq Nat
    /\ MaxTime \in Nat /\ MaxConnects \in Nat \ {0}

VARIABLES
    now,        \* time of the latest 5-second bar
    connects,   \* calls of connect so far
    list,       \* of each subscription, the client's list of 5-second bars
    open,       \* subscriptions of the present client
    seen,       \* seen_indexes of each handler
    last,       \* _last_tick_ts of each aggregator, 0 for None
    current,    \* _current of each aggregator
    closed,     \* queue of each subscription
    delivered,  \* history: bars the loop has got, in order
    shared      \* history: a second subscription was opened on this client

feedVars == <<now, connects, list, open, seen, last, current, closed, delivered,
              shared>>

NoBar == [start |-> 0, open |-> 0, high |-> 0, low |-> 0, close |-> 0, volume |-> 0]
Bar == [start : 1..MaxTime, open : Prices, high : Prices, low : Prices,
        close : Prices, volume : 1..MaxTime]
Rtb == [time : 1..MaxTime, close : Prices]

ForEach(v) == [s \in Streams |-> v]

Init ==
    /\ now = 0 /\ connects = 1 /\ open = {} /\ shared = FALSE
    /\ list = ForEach(<<>>) /\ closed = ForEach(<<>>)
    /\ seen = ForEach(0) /\ last = ForEach(0) /\ current = ForEach(NoBar)
    /\ delivered = <<>>
-----------------------------------------------------------------------------
(* The aggregator. *)

FloorToInterval(t) == ((t - 1) \div PerBar) * PerBar + 1

OpenedBar(rtb) == [start |-> FloorToInterval(rtb.time), open |-> rtb.close,
                high |-> rtb.close, low |-> rtb.close, close |-> rtb.close,
                volume |-> 1]

Merged(bar, rtb) == [bar EXCEPT !.high = Max({@, rtb.close}),
                                !.low = Min({@, rtb.close}),
                                !.close = rtb.close,
                                !.volume = @ + 1]

FeedOnEquality(agg, rtb) ==
    CASE agg.raised -> agg
      [] ~agg.raised /\ rtb.time <= agg.last -> [agg EXCEPT !.raised = TRUE]
      [] OTHER -> [agg EXCEPT !.last = rtb.time, !.current = OpenedBar(rtb),
                              !.out = IF agg.current = NoBar THEN @
                                      ELSE Append(@, agg.current)]

\* feed: a tick that is not later than the last one raises, and the handler
\* loses the rest of its slice; a tick over the boundary closes the bar.
Feed(agg, rtb) ==
    LET next == [agg EXCEPT !.last = rtb.time]
    IN CASE agg.raised -> agg
         [] ~agg.raised /\ rtb.time <= agg.last -> [agg EXCEPT !.raised = TRUE]
         [] ~agg.raised /\ rtb.time > agg.last /\ agg.current = NoBar ->
                [next EXCEPT !.current = OpenedBar(rtb)]
         [] OTHER ->
                IF FloorToInterval(rtb.time) > agg.current.start
                THEN [next EXCEPT !.current = OpenedBar(rtb), !.out = Append(@, agg.current)]
                ELSE [next EXCEPT !.current = Merged(@, rtb)]

\* on_bar_update of one handler.
Consumed(s, bars) ==
    LET after[i \in 0..Len(bars)] ==
            IF i <= seen[s]
            THEN [last |-> last[s], current |-> current[s], out |-> <<>>, raised |-> FALSE]
            ELSE Feed(after[i - 1], bars[i])
    IN after[Len(bars)]
-----------------------------------------------------------------------------
\* subscribe: reqRealTimeBars and a handler on the client's event.
Subscribe(s) ==
    /\ s \notin open
    /\ open' = open \cup {s}
    /\ shared' = (shared \/ open # {})
    /\ UNCHANGED <<now, connects, list, seen, last, current, closed, delivered>>

\* The exchange trades for another 5 seconds; every list gets the bar.
Trade(price) ==
    /\ now < MaxTime
    /\ now' = now + 1
    /\ list' = [s \in Streams |->
                  IF s \in open THEN Append(list[s], [time |-> now', close |-> price])
                  ELSE list[s]]
    /\ UNCHANGED <<connects, open, seen, last, current, closed, delivered, shared>>

UpdateFromTheStart(t) ==
    /\ t \in open /\ list[t] # <<>>
    /\ LET after == [s \in open |-> Consumed(s, list[t])]
           Upd(f, New(_)) == [s \in Streams |-> IF s \in open THEN New(s) ELSE f[s]]
       IN /\ last' = Upd(last, LAMBDA s : after[s].last)
          /\ current' = Upd(current, LAMBDA s : after[s].current)
          /\ closed' = Upd(closed, LAMBDA s : closed[s] \o after[s].out)
    /\ seen' = [s \in Streams |-> IF s \in open THEN 0 ELSE seen[s]]
    /\ UNCHANGED <<now, connects, list, open, delivered, shared>>

\* The client emits the list of one subscription.
OnBarUpdate(t) ==
    /\ t \in open /\ list[t] # <<>>
    /\ LET after == [s \in open |-> Consumed(s, list[t])]
           Upd(f, New(_)) == [s \in Streams |-> IF s \in open THEN New(s) ELSE f[s]]
       IN /\ last' = Upd(last, LAMBDA s : after[s].last)
          /\ current' = Upd(current, LAMBDA s : after[s].current)
          /\ closed' = Upd(closed, LAMBDA s : closed[s] \o after[s].out)
    /\ seen' = [s \in Streams |-> IF s \in open THEN Len(list[t]) ELSE seen[s]]
    /\ UNCHANGED <<now, connects, list, open, delivered, shared>>

\* The consumer of a subscription takes its next bar.
Deliver(s) ==
    /\ closed[s] # <<>>
    /\ delivered' = Append(delivered, [stream |-> s, bar |-> Head(closed[s])])
    /\ closed' = [closed EXCEPT ![s] = Tail(@)]
    /\ UNCHANGED <<now, connects, list, open, seen, last, current, shared>>

\* connect() again: a new client; subscribe() starts over with new locals.
ConnectAgain ==
    /\ connects < MaxConnects
    /\ connects' = connects + 1
    /\ list' = ForEach(<<>>) /\ open' = {} /\ shared' = FALSE
    /\ seen' = ForEach(0) /\ last' = ForEach(0)
    /\ current' = ForEach(NoBar) /\ closed' = ForEach(<<>>)
    /\ UNCHANGED <<now, delivered>>

Next ==
    \/ \E s \in Streams : Subscribe(s) \/ OnBarUpdate(s) \/ Deliver(s)
    \/ \E price \in Prices : Trade(price)
    \/ ConnectAgain

Spec == Init /\ [][Next]_feedVars
-----------------------------------------------------------------------------
TypeOK ==
    /\ now \in 0..MaxTime /\ connects \in 1..MaxConnects
    /\ open \subseteq Streams /\ shared \in BOOLEAN
    /\ \A s \in Streams :
        /\ list[s] \in Seq(Rtb) /\ closed[s] \in Seq(Bar)
        /\ seen[s] \in 0..MaxTime /\ last[s] \in 0..MaxTime
        /\ current[s] \in Bar \cup {NoBar}

(***************************************************************************)
(* "yields completed bars in chronological order ... must NOT yield        *)
(* duplicate bars on reconnect" (bar_source.py 26-32): what the consumer   *)
(* of a subscription gets is strictly later bar by bar, over reconnects,   *)
(* late updates, and updates meant for another subscription.               *)
(***************************************************************************)
BarsComeOnceAndInOrder ==
    \A i, j \in DOMAIN delivered :
        i < j /\ delivered[i].stream = delivered[j].stream =>
            delivered[i].bar.start < delivered[j].bar.start

(***************************************************************************)
(* A bar is the bar of its interval: of the 5-second bars consumed so far  *)
(* it has the first, highest, lowest and last price of those in its        *)
(* interval and the number of all of them; and the bar in the making is    *)
(* the one of the latest.  It holds for the only subscription of a client, *)
(* however late the updates come; a second one on the same client makes    *)
(* each handler skip what the other's list taught it to have seen          *)
(* (live_ib.py 106-123).                                                   *)
(***************************************************************************)
BarsAreWhole ==
    \A s \in open : ~shared /\ current[s] # NoBar =>
        LET Tick(i) == list[s][i]
            Whole(bar) ==
                LET ticks == {i \in 1..seen[s] : FloorToInterval(Tick(i).time) = bar.start}
                    prices == {Tick(i).close : i \in ticks}
                IN /\ bar.volume = Cardinality(ticks)
                   /\ bar.open = Tick(Min(ticks)).close
                   /\ bar.close = Tick(Max(ticks)).close
                   /\ bar.high = Max(prices) /\ bar.low = Min(prices)
        IN /\ seen[s] \in DOMAIN list[s] /\ last[s] = Tick(seen[s]).time
           /\ current[s].start = FloorToInterval(last[s]) /\ Whole(current[s])
           /\ \A k \in DOMAIN closed[s] : Whole(closed[s][k])
=============================================================================
