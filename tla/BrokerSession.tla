--------------------------- MODULE BrokerSession ---------------------------
(***************************************************************************)
(* The connection of a broker adapter: TopstepXExecutionClient             *)
(* (execution/topstepx_client.py) and IBExecutionClient                    *)
(* (execution/ib_client.py).  connect() makes a new SDK client, goes       *)
(* through its awaits and keeps what it has made so far when one of them   *)
(* raises; the TopstepX adapter ends it with a task that authenticates     *)
(* again every 22 hours.  reconnect() tries connect() with a backoff until *)
(* a deadline, where the TopstepX adapter calls force_flatten.             *)
(*                                                                         *)
(* Nothing under src/bot calls reconnect(): it is taken as the tests call  *)
(* it.  Time is in seconds since the reconnect began; an attempt takes one *)
(* of Durations, a sleep as long as it was asked for.                      *)
(***************************************************************************)
EXTENDS Naturals, Sequences, FiniteSets

CONSTANTS
    Adapters,       \* the adapters: "topstepx", "ib"
    Deadline,       \* the seconds after which each gives up
    Backoff,        \* the waits between the attempts; the last one repeats
    Durations,      \* the seconds an attempt may take
    MaxReconnects   \* bound of the model

ASSUME SessionAssumption ==
    /\ Adapters \subseteq {"topstepx", "ib"}
    /\ Deadline \in [Adapters -> Nat]
    /\ Backoff \in Seq(Nat \ {0}) /\ Backoff # <<>>
    /\ Durations \subseteq Nat /\ MaxReconnects \in Nat

VARIABLES
    adapter,
    client,      \* _client or _ib: the number of the SDK client, 0 for None
    suite,       \* _suite (or the qualified contract), by its client's number
    at,          \* the await the connect in progress is at
    reconnect,   \* the reconnect in progress, its clock and its attempts
    reconnects,
    failed,      \* _reconnect_failed
    refreshing,  \* the refresh tasks that run, by their client's number
    task,        \* _jwt_refresh_task, 0 for None
    disconnected

sessionVars == <<adapter, client, suite, at, reconnect, reconnects, failed,
                 refreshing, task, disconnected>>

NoReconnect == [pc |-> "none", clock |-> 0, attempt |-> 0]
FirstAwait == [a \in Adapters |-> IF a = "topstepx" THEN "authenticate" ELSE "gateway"]

SessionInit ==
    /\ adapter \in Adapters
    /\ client = 0 /\ suite = 0
    /\ at = "idle" /\ reconnect = NoReconnect /\ reconnects = 0
    /\ failed = FALSE
    /\ refreshing = {} /\ task = 0 /\ disconnected = FALSE

\* The numbers of the SDK clients that something still refers to.
Referred == {client, suite, task} \cup refreshing

\* The first statement of connect: the factory.
BeginConnect ==
    /\ client' = CHOOSE n \in 1..(Cardinality(Referred) + 1) : n \notin Referred
    /\ at' = FirstAwait[adapter]

\* connect_broker, at startup.
Connect ==
    /\ at = "idle" /\ client = 0
    /\ BeginConnect
    /\ UNCHANGED <<adapter, suite, reconnect, reconnects, failed, refreshing, task,
                   disconnected>>

\* An await of connect returns; after the last one the session is complete.
Proceed ==
    LET next == [gateway |-> "contract", authenticate |-> "accounts",
                 accounts |-> "suite"]
    IN /\ at \in DOMAIN next
       /\ at' = next[at]
       /\ UNCHANGED <<adapter, client, suite, reconnect, reconnects, failed,
                      refreshing, task, disconnected>>

Connected ==
    /\ at \in {"contract", "suite"}
    /\ at' = "idle"
    /\ suite' = client
    /\ IF adapter = "topstepx"
       THEN task' = client /\ refreshing' = refreshing \cup {client}
       ELSE UNCHANGED <<task, refreshing>>
    /\ reconnect' = NoReconnect
    /\ UNCHANGED <<adapter, client, reconnects, failed, disconnected>>

\* An await of connect raises, or no account has the configured name.  The
\* caller of the first connect gets the exception.
ConnectFails ==
    /\ at # "idle" /\ reconnect.pc = "none"
    /\ at' = "idle"
    /\ UNCHANGED <<adapter, client, suite, reconnect, reconnects, failed,
                   refreshing, task, disconnected>>

Reconnect ==
    /\ at = "idle" /\ client # 0 /\ reconnect.pc = "none"
    /\ reconnects < MaxReconnects
    /\ reconnects' = reconnects + 1
    /\ reconnect' = [pc |-> "trying", clock |-> 0, attempt |-> 0]
    /\ BeginConnect
    /\ UNCHANGED <<adapter, suite, failed, refreshing, task, disconnected>>

Wait(attempt) == Backoff[IF attempt <= Len(Backoff) THEN attempt ELSE Len(Backoff)]

AttemptFailsSinceTheLast(d) ==
    /\ reconnect.pc = "trying"
    /\ at' = "idle"
    /\ IF d >= Deadline[adapter]
       THEN /\ failed' = TRUE
            /\ reconnect' = NoReconnect
       ELSE /\ reconnect' = [reconnect EXCEPT !.pc = "asleep"]
            /\ UNCHANGED failed
    /\ UNCHANGED <<adapter, client, suite, reconnects, refreshing, task,
                   disconnected>>

\* The except clause of reconnect, the deadline and the wait.
AttemptFails(d) ==
    /\ reconnect.pc = "trying"
    /\ at' = "idle"
    /\ LET clock == reconnect.clock + d
           attempt == reconnect.attempt + 1
       IN IF clock >= Deadline[adapter]
          THEN /\ failed' = TRUE
               /\ reconnect' = [pc |-> IF adapter = "topstepx" THEN "flattening"
                                       ELSE "none",
                                clock |-> clock, attempt |-> attempt]
          ELSE /\ reconnect' = [pc |-> "asleep", clock |-> clock + Wait(attempt),
                                attempt |-> attempt]
               /\ UNCHANGED failed
    /\ UNCHANGED <<adapter, client, suite, reconnects, refreshing, task,
                   disconnected>>

Wake ==
    /\ reconnect.pc = "asleep"
    /\ reconnect' = [reconnect EXCEPT !.pc = "trying"]
    /\ BeginConnect
    /\ UNCHANGED <<adapter, suite, reconnects, failed, refreshing, task, disconnected>>

\* The force_flatten callback returns, or raises and is logged.
Flattened ==
    /\ reconnect.pc = "flattening"
    /\ reconnect' = [reconnect EXCEPT !.pc = "none"]
    /\ UNCHANGED <<adapter, client, suite, at, reconnects, failed, refreshing,
                   task, disconnected>>

\* disconnect: the one refresh task that the adapter knows is cancelled and
\* awaited, and the suite is left as it is.
Disconnect ==
    /\ at = "idle" /\ reconnect.pc = "none" /\ client # 0 /\ ~disconnected
    /\ disconnected' = TRUE
    /\ refreshing' = refreshing \ {task}
    /\ task' = 0
    /\ UNCHANGED <<adapter, client, suite, at, reconnect, reconnects, failed>>

SessionNext ==
    \/ Connect \/ Proceed \/ Connected \/ ConnectFails
    \/ ~disconnected /\ Reconnect
    \/ \E d \in Durations : AttemptFails(d)
    \/ Wake \/ Flattened \/ Disconnect

\* A sleep ends, a call of the SDK returns or raises, and so does the callback.
SessionFairness ==
    WF_sessionVars(Proceed \/ Connected \/ (\E d \in Durations : AttemptFails(d))
                   \/ Wake \/ Flattened)

SessionSpec == SessionInit /\ [][SessionNext]_sessionVars /\ SessionFairness
-----------------------------------------------------------------------------
Awaits == {"authenticate", "accounts", "suite", "gateway", "contract"}

SessionTypeOK ==
    /\ adapter \in Adapters
    /\ client \in Nat /\ suite \in Nat /\ task \in refreshing \cup {0}
    /\ at \in {"idle"} \cup Awaits
    /\ reconnect \in [pc : {"none", "trying", "asleep", "flattening"}, clock : Nat,
                      attempt : Nat]
    /\ reconnects \in 0..MaxReconnects
    /\ failed \in BOOLEAN /\ disconnected \in BOOLEAN
    /\ refreshing \subseteq Nat \ {0}

Longest(S) == CHOOSE d \in S : \A e \in S : e <= d

(***************************************************************************)
(* "90-second reconnect deadline ... On expiry escalate to risk-gate       *)
(* force-flatten" (topstepx_client.py 11-12, 53-54; spec 02 lines 106 and  *)
(* 196): once the deadline has passed the TopstepX adapter tries no        *)
(* longer.  It escalates at the latest when the attempt ends that was      *)
(* under way at the deadline.                                              *)
(***************************************************************************)
EscalatesOnExpiry ==
    adapter = "topstepx" /\ reconnect.pc = "trying" =>
        reconnect.clock < Deadline[adapter]

(***************************************************************************)
(* How late the adapters are (topstepx_client.py 543-572; ib_client.py     *)
(* 313-329).  The deadline is looked at after an attempt only, before the  *)
(* sleep that follows it: an adapter gives up no earlier than its deadline *)
(* and later by less than the longest wait and one attempt.  For TopstepX  *)
(* that is later than its documents have it (EscalatesOnExpiry); that IB   *)
(* gives up at all is against spec 02 line 78, "continue retrying every    *)
(* 60s".                                                                   *)
(***************************************************************************)
LatenessIsBounded ==
    failed /\ reconnect.attempt > 0 /\ reconnect.pc \in {"none", "flattening"} =>
        /\ reconnect.clock >= Deadline[adapter]
        /\ reconnect.clock < Deadline[adapter] + Backoff[Len(Backoff)] + Longest(Durations)

(***************************************************************************)
(* A reconnect ends, by a connection or by giving up, however many of its  *)
(* attempts fail.                                                          *)
(***************************************************************************)
ReconnectEnds == reconnect.pc # "none" ~> reconnect.pc = "none"
=============================================================================
