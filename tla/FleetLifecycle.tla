--------------------------- MODULE FleetLifecycle ---------------------------
(***************************************************************************)
(* The life of a fleet process: run_fleet (runtime/main.py) loads the bot  *)
(* specs, connects one broker and builds the bots; FleetRuntime.run        *)
(* (runtime/fleet/runtime.py) sets them up one after the other, each with  *)
(* a task that starts at once, gathers their outcomes and cleans up.       *)
(*                                                                         *)
(* The setup of a bot awaits its journal, so the bots before it already    *)
(* trade.  An exception there, or Ctrl+C, which asyncio.run turns into a   *)
(* cancellation of the main coroutine, goes through the finally clause     *)
(* while their tasks still run; asyncio.run cancels those at the very end. *)
(* A dashboard that finds its port taken raises SystemExit (uvicorn),      *)
(* which _serve does not catch: it leaves the event loop, every task is    *)
(* cancelled, and the await of the side-car raises it again.               *)
(***************************************************************************)
EXTENDS Naturals, FiniteSets

CONSTANT MaxBots    \* bound: enabled bots

ASSUME LifeAssumption == MaxBots \in Nat

VARIABLES
    main,       \* where run_fleet is
    endless,    \* the bar sources do not end by themselves
    dashboard,  \* the side-car: "off", "up", "down", "failed"
    broker,     \* "off", "on", "closed"
    fleet,      \* number of enabled bots
    ready,      \* bots whose task was created
    task,       \* of each bot: "none", "created", "running", "tearing", "done",
                \* or "never" run
    journal,    \* of each bot: "none", "open", "kept" in the list, "shut"
    torn,       \* history: calls of teardown of each bot
    aborted,    \* history: the setup loop ended early
    interrupted \* history: Ctrl+C; "no", "early", or in the "cleanup"

lifeVars == <<main, endless, dashboard, broker, fleet, ready, task, journal, torn,
              aborted, interrupted>>

AllBots == 1..MaxBots

LifeInit ==
    /\ main = "load" /\ endless \in BOOLEAN /\ dashboard = "off" /\ broker = "off"
    /\ fleet = 0 /\ ready = 0
    /\ task = [b \in AllBots |-> "none"] /\ journal = [b \in AllBots |-> "none"]
    /\ torn = [b \in AllBots |-> 0] /\ aborted = FALSE /\ interrupted = "no"

BotsUnchanged == UNCHANGED <<ready, task, journal, torn, aborted, interrupted>>

\* load_bot_specs raises for a malformed or doubled spec; without an enabled
\* one run_fleet returns EXIT_NO_BOTS.
LoadSpecs ==
    /\ main = "load"
    /\ \E n \in AllBots :
          \/ main' = "connect" /\ fleet' = n
          \/ main' = "over" /\ UNCHANGED fleet
    /\ UNCHANGED <<endless, dashboard, broker>> /\ BotsUnchanged

\* The connection raises, or the broker is there.
ConnectFleetBroker ==
    /\ main = "connect"
    /\ \/ main' = "build" /\ broker' = "on"
       \/ main' = "over" /\ UNCHANGED broker
    /\ UNCHANGED <<endless, dashboard, fleet>> /\ BotsUnchanged

\* BotRegistry.build raises for an unknown id, a refused pair of schedule and
\* policy, parameters that do not fit, or a signal source without a setting;
\* nothing disconnects the broker then.  --check builds, disconnects and is done.
Build ==
    /\ main = "build"
    /\ \/ main' = "over" /\ broker' \in {"on", "closed"} /\ UNCHANGED dashboard
       \/ main' = "journal" /\ dashboard' \in {"off", "up"} /\ UNCHANGED broker
    /\ UNCHANGED <<endless, fleet>> /\ BotsUnchanged

NextBot == ready + 1

\* What run awaits comes back after the first step of the tasks it created.
TasksStarted == \A b \in AllBots : task[b] # "created"

\* Journal.connect, and then apply_migrations.
OpenBotJournal ==
    /\ main = "journal" /\ TasksStarted
    /\ journal' = [journal EXCEPT ![NextBot] = IF @ = "none" THEN "open" ELSE "kept"]
    /\ main' = IF journal'[NextBot] = "kept" THEN "setup" ELSE "journal"
    /\ UNCHANGED <<endless, dashboard, broker, fleet, ready, task, torn, aborted,
                   interrupted>>

\* The source, the setup hook and the task.
SetUpBot ==
    /\ main = "setup"
    /\ ready' = NextBot
    /\ task' = [task EXCEPT ![NextBot] = "created"]
    /\ main' = IF ready' = fleet THEN "gather" ELSE "journal"
    /\ UNCHANGED <<endless, dashboard, broker, fleet, journal, torn, aborted,
                   interrupted>>

\* Anything that the setup of a bot awaits or calls raises.
SetupRaises ==
    /\ main \in {"journal", "setup"} /\ TasksStarted
    /\ main' = "dashboard" /\ aborted' = TRUE
    /\ UNCHANGED <<endless, dashboard, broker, fleet, ready, task, journal, torn,
                   interrupted>>
-----------------------------------------------------------------------------
LoopStarts(b) ==
    /\ task[b] = "created"
    /\ task' = [task EXCEPT ![b] = "running"]
    /\ UNCHANGED <<main, endless, dashboard, broker, fleet, ready, journal, torn,
                   aborted, interrupted>>

LoopEndsWithoutTeardown(b) ==
    /\ task[b] = "running"
    /\ task' = [task EXCEPT ![b] = "done"]
    /\ UNCHANGED <<main, endless, dashboard, broker, fleet, ready, journal, torn,
                   aborted, interrupted>>

\* _run_one: the loop returns or raises, and teardown begins either way.
LoopEnds(b) ==
    /\ task[b] = "running"
    /\ task' = [task EXCEPT ![b] = "tearing"]
    /\ torn' = [torn EXCEPT ![b] = @ + 1]
    /\ UNCHANGED <<main, endless, dashboard, broker, fleet, ready, journal, aborted,
                   interrupted>>

\* teardown returns, or raises and is logged.
TeardownEnds(b) ==
    /\ task[b] = "tearing"
    /\ task' = [task EXCEPT ![b] = "done"]
    /\ UNCHANGED <<main, endless, dashboard, broker, fleet, ready, journal, torn,
                   aborted, interrupted>>

\* A cancellation ends a loop as an exception does, breaks off a teardown, and
\* keeps a task that has not had its first step from having one.
CancelTasks ==
    /\ task' = [b \in AllBots |-> CASE task[b] = "created" -> "never"
                                    [] task[b] = "running" -> "tearing"
                                    [] task[b] = "tearing" -> "done"
                                    [] OTHER -> task[b]]
    /\ torn' = [b \in AllBots |-> torn[b] + (IF task[b] = "running" THEN 1 ELSE 0)]

Over(b) == task[b] \in {"none", "never", "done"}

GatherTheFirst ==
    /\ main = "gather"
    /\ \E b \in 1..ready : Over(b)
    /\ main' = "dashboard"
    /\ UNCHANGED <<endless, dashboard, broker, fleet>> /\ BotsUnchanged

\* gather with return_exceptions: every task, failed ones and cancelled ones.
Gather ==
    /\ main = "gather"
    /\ \A b \in 1..ready : Over(b)
    /\ main' = "dashboard"
    /\ UNCHANGED <<endless, dashboard, broker, fleet>> /\ BotsUnchanged

\* Ctrl+C, once: it breaks off what run_fleet awaits, the cleanup included; a
\* gather cancels its tasks and waits.
Interrupt ==
    /\ interrupted = "no" /\ dashboard # "failed"
    /\ \/ /\ main \in {"connect", "journal", "setup"}
          /\ main' = IF main = "connect" THEN "over" ELSE "dashboard"
          /\ aborted' = TRUE /\ interrupted' = "early"
          /\ UNCHANGED <<task, torn>>
       \/ /\ main = "gather" /\ CancelTasks
          /\ interrupted' = "early"
          /\ UNCHANGED <<main, aborted>>
       \/ /\ main \in {"dashboard", "close"}
          /\ main' = "disconnect" /\ interrupted' = "cleanup"
          /\ UNCHANGED <<task, torn, aborted>>
    /\ UNCHANGED <<endless, dashboard, broker, fleet, ready, journal>>

\* The port of the dashboard is taken.
PortTaken ==
    /\ dashboard = "up" /\ dashboard' = "failed"
    /\ CancelTasks
    /\ \/ /\ main \in {"journal", "setup"}
          /\ main' = "dashboard" /\ aborted' = TRUE
       \/ /\ main \in {"gather", "dashboard"}
          /\ UNCHANGED <<main, aborted>>
    /\ UNCHANGED <<endless, broker, fleet, ready, journal, interrupted>>

\* The finally clause: the side-car has stopped by itself, stops now, or is
\* cancelled after two seconds; SystemExit is no Exception and goes through.
StopDashboard ==
    /\ main = "dashboard"
    /\ main' = IF dashboard = "failed" THEN "disconnect" ELSE "close"
    /\ dashboard' = IF dashboard = "up" THEN "down" ELSE dashboard
    /\ UNCHANGED <<endless, broker, fleet>> /\ BotsUnchanged

\* The journals of the list, one await each; an exception is passed over.
CloseJournal(b) ==
    /\ main = "close" /\ journal[b] = "kept"
    /\ \A a \in 1..(b - 1) : journal[a] # "kept"
    /\ journal' = [journal EXCEPT ![b] = "shut"]
    /\ UNCHANGED <<main, endless, dashboard, broker, fleet, ready, task, torn, aborted,
                   interrupted>>

\* The finally clause of run_fleet.
DisconnectBroker ==
    /\ \/ main = "close" /\ \A b \in AllBots : journal[b] # "kept"
       \/ main = "disconnect"
    /\ main' = "over" /\ broker' = "closed"
    /\ UNCHANGED <<endless, dashboard, fleet>> /\ BotsUnchanged

\* asyncio.run cancels what is left and waits for it.
CancelRest ==
    /\ main = "over" /\ main' = "exit"
    /\ CancelTasks
    /\ UNCHANGED <<endless, dashboard, broker, fleet, ready, journal, aborted,
                   interrupted>>

LifeNext ==
    \/ LoadSpecs \/ ConnectFleetBroker \/ Build
    \/ OpenBotJournal \/ SetUpBot \/ SetupRaises
    \/ \E b \in AllBots :
          LoopStarts(b) \/ LoopEnds(b) \/ TeardownEnds(b) \/ CloseJournal(b)
    \/ Gather \/ Interrupt \/ PortTaken
    \/ StopDashboard \/ DisconnectBroker \/ CancelRest

\* What run_fleet awaits returns or raises, teardowns end, and so do the bars
\* of sources that end.
LifeFairness ==
    /\ WF_lifeVars(\/ ConnectFleetBroker \/ Build \/ OpenBotJournal
                   \/ SetUpBot \/ SetupRaises \/ Gather \/ StopDashboard
                   \/ DisconnectBroker \/ CancelRest
                   \/ \E b \in AllBots : CloseJournal(b))
    /\ \A b \in AllBots : WF_lifeVars(LoopStarts(b) \/ TeardownEnds(b))
    /\ \A b \in AllBots : WF_lifeVars(~endless /\ LoopEnds(b))

LifeSpec == LifeInit /\ [][LifeNext]_lifeVars /\ LifeFairness
-----------------------------------------------------------------------------
LifeTypeOK ==
    /\ main \in {"load", "connect", "build", "journal", "setup", "gather",
                 "dashboard", "close", "disconnect", "over", "exit"}
    /\ endless \in BOOLEAN /\ dashboard \in {"off", "up", "down", "failed"}
    /\ broker \in {"off", "on", "closed"}
    /\ fleet \in 0..MaxBots /\ ready \in 0..fleet
    /\ task \in [AllBots -> {"none", "created", "running", "tearing", "done", "never"}]
    /\ journal \in [AllBots -> {"none", "open", "kept", "shut"}]
    /\ torn \in [AllBots -> Nat] /\ aborted \in BOOLEAN
    /\ interrupted \in {"no", "early", "cleanup"}

(***************************************************************************)
(* "return_exceptions=True keeps one bot's exception from crashing the     *)
(* rest of the fleet" (runtime.py 4-6, 201-227): unless the setup of some  *)
(* bot was broken off, no journal is closed while the loop of any bot, or  *)
(* its teardown, still runs - failures, Ctrl+C and a taken port included - *)
(* and the broker goes after all of them.                                  *)
(***************************************************************************)
JournalsOutliveTheirLoops ==
    ~aborted /\ ((\E b \in AllBots : journal[b] = "shut") \/ broker = "closed") =>
        \A b \in AllBots : Over(b)

(***************************************************************************)
(* "run the loop, then ALWAYS call teardown" (runtime.py 229-253): where   *)
(* the bars end, or something breaks the fleet off, the process ends; by   *)
(* then the strategy of every loop that began was torn down exactly once,  *)
(* however the setup went.  Only a cancellation keeps a task that was set  *)
(* up from its loop and its teardown, only a broken setup leaves a journal *)
(* out of the list, and one on the list stays open only if the cleanup     *)
(* itself was broken off.                                                  *)
(***************************************************************************)
Broken == interrupted # "no" \/ dashboard = "failed"

FleetWindsUp ==
    main # "load" /\ (~endless \/ Broken) ~>
        /\ main = "exit"
        /\ \A b \in AllBots :
              /\ Over(b) /\ torn[b] = (IF task[b] = "done" THEN 1 ELSE 0)
              /\ task[b] = "none" <=> b > ready
              /\ task[b] = "never" => Broken
              /\ journal[b] = "open" => aborted /\ b = ready + 1
              /\ journal[b] = "kept" => interrupted = "cleanup" \/ dashboard = "failed"
=============================================================================
