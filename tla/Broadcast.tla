----------------------------- MODULE Broadcast -----------------------------
(***************************************************************************)
(* The telemetry bus (observability/bus.py) with the dashboard's           *)
(* WebSocketBroadcaster as its sink (dashboard/v2/ws_bridge.py) and the    *)
(* route that registers the clients (dashboard/v2/ws_routes.py).           *)
(*                                                                         *)
(* alert() makes a task for each event, and the tasks start in that order. *)
(* A task puts its event into the queue of each client without waiting and *)
(* suspends only when it has to drop a client whose queue is full: it      *)
(* cancels the client's drain task, waits for its end and closes the       *)
(* socket.  A drain task sends one message at a time, for as long as the   *)
(* client takes to read it.                                                *)
(*                                                                         *)
(* The broadcaster is the only sink under src/bot; aalert() and            *)
(* close_all() have no caller there.  An event is a number with the        *)
(* channels it belongs to; its JSON is left out.                           *)
(***************************************************************************)
EXTENDS Naturals, Sequences, SequencesExt, FiniteSets, FiniteSetsExt

CONSTANTS
    Clients,
    Channels,   \* "fleet" and one for each bot, as model values
    Fleet,
    Filters,    \* the filters a client may subscribe to
    MaxQueue,   \* max_queue_per_client
    MaxEvents,  \* bound of the model
    ChannelsOf  \* channels of each event: Fleet, and its bot's if it has one

ASSUME BroadcastAssumption ==
    /\ Fleet \in Channels /\ Filters \subseteq SUBSET Channels
    /\ MaxQueue \in Nat \ {0} /\ MaxEvents \in Nat
    /\ \A e \in 1..MaxEvents : Fleet \in ChannelsOf[e] /\ ChannelsOf[e] \subseteq Channels

VARIABLES
    alerts,     \* events so far
    tasks,      \* fan-out tasks that have not started, in order
    fan,        \* of each event, where its fan-out task is
    clients,    \* _clients, in the order of registration
    conn,       \* the route of each client: "new", "open", "gone"
    filter,     \* state.channels; Channels for None
    queue, drain, sending, cancelled, dropped,  \* the rest of its _ClientState
    sent,       \* history: what each client was sent
    wsClosed,   \* history: sockets the broadcaster has closed
    late        \* history: events whose fan-out had to drop a client

busVars == <<alerts, tasks, fan, clients, conn, filter, queue, drain, sending,
             cancelled, dropped, sent, wsClosed, late>>
clientVars == <<conn, filter, sending, sent>>

Event == 1..MaxEvents
NoFan == [pc |-> "none", todo |-> <<>>]
Of(v) == [c \in Clients |-> v]

BusInit ==
    /\ alerts = 0 /\ tasks = <<>> /\ late = {}
    /\ fan = [e \in Event |-> NoFan]
    /\ clients = <<>> /\ conn = Of("new") /\ filter = Of(Channels)
    /\ queue = Of(<<>>) /\ drain = Of("none") /\ sending = Of(0)
    /\ cancelled = {} /\ dropped = {} /\ wsClosed = {}
    /\ sent = Of(<<>>)
-----------------------------------------------------------------------------
(* The route and the drain task of a client. *)

Register(c) ==
    /\ conn[c] = "new"
    /\ conn' = [conn EXCEPT ![c] = "open"]
    /\ clients' = Append(clients, c)
    /\ drain' = [drain EXCEPT ![c] = "get"]
    /\ UNCHANGED <<alerts, tasks, fan, filter, queue, sending, cancelled, dropped,
                   sent, wsClosed, late>>

\* A message of the client replaces its filter, if it is still a client.
Subscribe(c, channels) ==
    /\ conn[c] = "open" /\ Contains(clients, c)
    /\ filter' = [filter EXCEPT ![c] = channels]
    /\ UNCHANGED <<alerts, tasks, fan, clients, conn, queue, drain, sending,
                   cancelled, dropped, sent, wsClosed, late>>

\* receive_text raises: unregister removes the client and cancels its drain
\* task, and then waits for it with nothing left to do.
Disconnect(c) ==
    /\ conn[c] = "open"
    /\ conn' = [conn EXCEPT ![c] = "gone"]
    /\ clients' = RemoveFirst(clients, c)
    /\ cancelled' = IF Contains(clients, c) THEN cancelled \cup {c} ELSE cancelled
    /\ UNCHANGED <<alerts, tasks, fan, filter, queue, drain, sending, dropped,
                   sent, wsClosed, late>>

DrainTakes(c) ==
    /\ drain[c] = "get" /\ c \notin cancelled /\ queue[c] # <<>>
    /\ sending' = [sending EXCEPT ![c] = Head(queue[c])]
    /\ queue' = [queue EXCEPT ![c] = Tail(@)]
    /\ drain' = [drain EXCEPT ![c] = "send"]
    /\ UNCHANGED <<alerts, tasks, fan, clients, conn, filter, cancelled, dropped,
                   sent, wsClosed, late>>

SendReturns(c) ==
    /\ drain[c] = "send"
    /\ sent' = [sent EXCEPT ![c] = Append(@, sending[c])]
    /\ sending' = [sending EXCEPT ![c] = 0]
    /\ drain' = [drain EXCEPT ![c] = "get"]
    /\ UNCHANGED <<alerts, tasks, fan, clients, conn, filter, queue, cancelled,
                   dropped, wsClosed, late>>

\* A failed send drops the client; it stays in _clients until the route ends.
SendFails(c) ==
    /\ drain[c] = "send" /\ c \notin cancelled
    /\ dropped' = dropped \cup {c}
    /\ sending' = [sending EXCEPT ![c] = 0]
    /\ drain' = [drain EXCEPT ![c] = "close"]
    /\ UNCHANGED <<alerts, tasks, fan, clients, conn, filter, queue, cancelled,
                   sent, wsClosed, late>>

DrainClosed(c) ==
    /\ drain[c] = "close"
    /\ drain' = [drain EXCEPT ![c] = "done"]
    /\ wsClosed' = wsClosed \cup {c}
    /\ UNCHANGED <<alerts, tasks, fan, clients, conn, filter, queue, sending,
                   cancelled, dropped, sent, late>>

\* The CancelledError reaches the drain task at whichever await it is.
DrainCancelled(c) ==
    /\ c \in cancelled /\ drain[c] # "done"
    /\ drain' = [drain EXCEPT ![c] = "done"]
    /\ sending' = [sending EXCEPT ![c] = 0]
    /\ UNCHANGED <<alerts, tasks, fan, clients, conn, filter, queue, cancelled,
                   dropped, sent, wsClosed, late>>
-----------------------------------------------------------------------------
(* The bus and the fan-out task of an event. *)

\* alert in a running loop: a task, and a reference to it.
Alert ==
    /\ alerts < MaxEvents
    /\ alerts' = alerts + 1
    /\ tasks' = Append(tasks, alerts')
    /\ fan' = [fan EXCEPT ![alerts'].pc = "scheduled"]
    /\ UNCHANGED <<clients, clientVars, queue, drain, cancelled, dropped, wsClosed,
                   late>>

Wants(c, e) == c \notin dropped /\ filter[c] \cap ChannelsOf[e] # {}
FullLate(c) == Len(queue[c]) > MaxQueue
Full(c) == Len(queue[c]) >= MaxQueue

\* Put the event into the queues of todo, up to the first full one; there drop
\* the client.  Without one the task ends; its last sleep(0) changes nothing.
DeliverWaiting(e, todo) ==
    LET blocked == {i \in DOMAIN todo : Wants(todo[i], e) /\ Full(todo[i])}
        stop == IF blocked = {} THEN Len(todo) + 1 ELSE Min(blocked)
        served == {todo[i] : i \in {j \in 1..(stop - 1) : Wants(todo[j], e)}}
    IN /\ queue' = [c \in Clients |-> IF c \in served THEN Append(queue[c], e)
                                      ELSE queue[c]]
       /\ fan' = [fan EXCEPT ![e] = IF blocked = {} THEN NoFan
                    ELSE [pc |-> "scheduled", todo |-> SubSeq(todo, stop, Len(todo))]]
       /\ UNCHANGED <<clients, cancelled, dropped, late>>

Deliver(e, todo) ==
    LET blocked == {i \in DOMAIN todo : Wants(todo[i], e) /\ Full(todo[i])}
        stop == IF blocked = {} THEN Len(todo) + 1 ELSE Min(blocked)
        served == {todo[i] : i \in {j \in 1..(stop - 1) : Wants(todo[j], e)}}
    IN /\ queue' = [c \in Clients |-> IF c \in served THEN Append(queue[c], e)
                                      ELSE queue[c]]
       /\ fan' = [fan EXCEPT ![e] = IF blocked = {} THEN NoFan
                    ELSE [pc |-> "dropping", todo |-> SubSeq(todo, stop, Len(todo))]]
       /\ IF blocked = {}
          THEN UNCHANGED <<clients, cancelled, dropped, late>>
          ELSE /\ dropped' = dropped \cup {todo[stop]}
               /\ clients' = RemoveFirst(clients, todo[stop])
               /\ cancelled' = cancelled \cup {todo[stop]}
               /\ late' = late \cup {e}

\* _fan_out and receive: the task's first turn, over a snapshot of the clients.
Start ==
    /\ tasks # <<>>
    /\ tasks' = Tail(tasks)
    /\ Deliver(Head(tasks), clients)
    /\ UNCHANGED <<alerts, clientVars, drain, wsClosed>>

CloseAtOnce(e) ==
    /\ fan[e].pc = "dropping"
    /\ wsClosed' = wsClosed \cup {Head(fan[e].todo)}
    /\ fan' = [fan EXCEPT ![e].pc = "closing"]
    /\ UNCHANGED <<alerts, tasks, clients, clientVars, queue, drain, cancelled,
                   dropped, late>>

\* _drop goes on when the drain task has ended: it closes the socket,
CloseVictim(e) ==
    /\ fan[e].pc = "dropping" /\ drain[Head(fan[e].todo)] = "done"
    /\ wsClosed' = wsClosed \cup {Head(fan[e].todo)}
    /\ fan' = [fan EXCEPT ![e].pc = "closing"]
    /\ UNCHANGED <<alerts, tasks, clients, clientVars, queue, drain, cancelled,
                   dropped, late>>

ResumeFromTheTop(e) ==
    /\ fan[e].pc = "closing"
    /\ Deliver(e, clients)
    /\ UNCHANGED <<alerts, tasks, clientVars, drain, wsClosed>>

\* and when close() has returned or raised, the other clients are next.
Resume(e) ==
    /\ fan[e].pc = "closing"
    /\ Deliver(e, Tail(fan[e].todo))
    /\ UNCHANGED <<alerts, tasks, clientVars, drain, wsClosed>>

BusNext ==
    \/ \E c \in Clients :
        \/ Register(c) \/ Disconnect(c)
        \/ \E channels \in Filters : Subscribe(c, channels)
        \/ DrainTakes(c) \/ SendReturns(c) \/ SendFails(c) \/ DrainClosed(c)
        \/ DrainCancelled(c)
    \/ Alert \/ Start
    \/ \E e \in Event : CloseVictim(e) \/ Resume(e)

\* The tasks of the bus are scheduled, a cancellation arrives and a close()
\* returns.  A send need never return.
BusFairness ==
    /\ WF_busVars(Start)
    /\ \A e \in Event : WF_busVars(CloseVictim(e)) /\ WF_busVars(Resume(e))
    /\ \A c \in Clients : WF_busVars(DrainCancelled(c))

BusSpec == BusInit /\ [][BusNext]_busVars /\ BusFairness
-----------------------------------------------------------------------------
BusTypeOK ==
    /\ alerts \in 0..MaxEvents
    /\ tasks \in Seq(Event)
    /\ fan \in [Event -> [pc : {"none", "scheduled", "dropping", "closing"},
                          todo : Seq(Clients)]]
    /\ clients \in Seq(Clients)
    /\ conn \in [Clients -> {"new", "open", "gone"}]
    /\ filter \in [Clients -> SUBSET Channels]
    /\ queue \in [Clients -> Seq(Event)] /\ \A c \in Clients : Len(queue[c]) <= MaxQueue
    /\ drain \in [Clients -> {"none", "get", "send", "close", "done"}]
    /\ sending \in [Clients -> {0} \cup Event]
    /\ cancelled \subseteq Clients /\ dropped \subseteq Clients
    /\ wsClosed \subseteq Clients /\ late \subseteq Event
    /\ sent \in [Clients -> Seq(Event)]

(***************************************************************************)
(* A client gets no event twice, and the events in the order in which they *)
(* were alerted, but for those whose fan-out had to drop a slow client     *)
(* before it came to this one: while that task waits for the close, later  *)
(* events overtake it (ws_bridge.py 103-123).                              *)
(***************************************************************************)
EventsInOrder ==
    \A c \in Clients :
        LET got == sent[c] \o (IF sending[c] = 0 THEN <<>> ELSE <<sending[c]>>)
                           \o queue[c]
        IN \A i, j \in DOMAIN got :
            i < j => got[i] < got[j] \/ (got[j] \in late /\ got[i] # got[j])

(***************************************************************************)
(* The same over states of the right type: no queue is ever longer than    *)
(* max_queue_per_client (ws_bridge.py 59-63, 103-123).                     *)
(***************************************************************************)
OrderedStream == BusTypeOK /\ EventsInOrder

(***************************************************************************)
(* Once the broadcaster has closed a client's socket it sends nothing more *)
(* on it: the drain task is over by then (ws_bridge.py 181-204).           *)
(***************************************************************************)
NothingAfterClose ==
    [][\A c \in Clients : c \in wsClosed =>
            sending'[c] = sending[c] /\ sent'[c] = sent[c]]_busVars

(***************************************************************************)
(* "slow clients block only their own drain task, not ours" (ws_bridge.py  *)
(* 118-122): the fan-out of every event ends although no send ever         *)
(* returns.                                                                *)
(***************************************************************************)
FanOutEnds == \A e \in Event : fan[e].pc # "none" ~> fan[e].pc = "none"
=============================================================================
