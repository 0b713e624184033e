# A TLA+ verification project for the futures bot

The bot trades index futures on a prop-firm account (a Topstep "Combine" or an
Express Funded Account, EFA). Strategies turn bars into order intents; a risk
gate enforces the rules of the account; the approved intents go to a broker
adapter. Several bots may share one account (a fleet). A mistake in the gate,
in the account picture it reads, or in the order of steps around it costs the
account, and most of these mistakes need several steps of several actors.

This directory holds the models (`*.tla`), the TLC configurations (`*.cfg`),
the proofs (`*Proofs.tla`) and `PROJECT.json`, which ties each definition to
the lines it models, each property to the hazard it is for and to a plausible
bug that breaks it. Paths below are relative to `src/src/bot/`.

To check: `tlc -config LiveLoop_kill.cfg MCLiveLoop` and so on for the runs
below; `tlapm LiveLoopProofs.tla` and so on for the proofs.

## 1. Inventory

### The parts and their state

| Part | State it keeps | Operations | What makes it correct |
|---|---|---|---|
| Live loop `runtime/live_loop.py` | position in the bar, intents left, `bars_seen`, the snapshot of the bar | `run`: drain, mark, decide, allocate, place, journal, stop | no order after a flatten; a requested flatten happens; one snapshot serves all intents of a bar without breaking the cap |
| Risk gate `risk/gate.py` | `_flattening`, `_strategy_disabled`, `_pending_flatten_reason` | `approve_or_deny`, `on_tick`, `force_flatten_now`, `maybe_force_flatten` | approved stops stay above the floor; closes pass; the latch is one-way and never lost |
| Drawdown policies `risk/combine_drawdown.py`, `risk/efa_drawdown.py` | none: they rewrite an `AccountState` | `update_on_tick`, `phantom_mll`, `max_position` | the floor is a ratchet, the lock permanent, though the state is rebuilt on each bar |
| Account tracker `backtest/tracker.py` | positions with average entry, realized P&L, high water | `record_fill`, `mark_to_market`, `snapshot` | fills at the mark move no equity; it agrees with the exchange |
| Backtest engine `backtest/engine.py` | the collected fills and equity | `_run_collect` | the same strategy, gate and tracker in the order of the live loop |
| Breakout strategy `strategy/orb.py` in `strategy/tiered_sizing.py` | its own trade, range, trades of the day; size of the open leg | `on_bar`, `_resize` | its belief about the trade matches the account |
| Fleet allocator `runtime/fleet/allocator.py` | `_pending`, `_lock` | `approve_intent`, `settle_intent`, `release_intent` | the bots together stay within the account's cap; slots neither leak nor count twice |
| Fleet process `runtime/fleet/runtime.py`, `registry.py`, `run_fleet` of `runtime/main.py` | one task, journal and gate per bot; the broker; the dashboard task | `run_until_complete`, set-up, gather, clean-up, `shutdown` | a bot that fails leaves the others alone; nothing is taken from a loop that runs; the process ends |
| Kill switch and profile routes `dashboard/v2/api.py` | none of its own | `flatten_all`, `put_override`, `create_profile`, `activate_profile`, `delete_profile` | the kill switch may run inside any await of the loop; a refused value is not stored |
| User profiles `dashboard/v2/profiles.py` | directories with overrides, an audit log, a lock file; the marker of the active one | `set_override`, `create`, `delete`, `set_active` | the log explains the overrides, though several processes write and may die |
| Broker adapters `execution/topstepx_client.py`, `execution/ib_client.py` | `_broker_ids` or `_open_trades`, `_recent`, the SDK client, the refresh task | `place_order`, `cancel_order`, `cancel_all`, `connect`, `reconnect`, `disconnect` | they know each order they may have to cancel; no id trades twice; a lost connection is answered in time |
| Mean reversion and trend `strategy/mean_reversion.py`, `strategy/trend_following.py` | `_position`, trades of the day, the warm-up | `on_bar` | their belief, which no fill corrects, matches the account |
| Startup `runtime/main.py`, `reconcile.py`, `hydrate.py` | journal and broker snapshots | eight steps of `main` | a restart trades only on a picture that agrees with the broker |
| Journal `journal/journal.py` | sqlite tables | `record_*`, reads | what a restart needs has been written |
| Signals `signals/`, `strategy/signal_strategy.py` | two bounded queues, a pump task | `on_message`, `close`, `setup`, `teardown`, `on_bar` | signals keep their order; a signal of another market costs no quota; close ends |
| Market data `data/live_ib.py`, `data/aggregator.py` | seen indexes, current bar | `on_bar_update`, `feed`, `connect` | each bar once, whole and in order |
| Telemetry `observability/bus.py`, `dashboard/v2/ws_bridge.py` | subscribers, queues of clients | `alert`, `receive`, `register`, `unregister`, `_drain` | each client gets its events once and in order; a slow one blocks nobody |
| Simulator `execution/topstepx_sim/` | the `SimAccount`: stage, balance, high water, positions with their marks | `submit_order`, `on_bar`, `end_of_day`, `run_scenario` | money adds up; an account below its floor does not survive the bar; nothing grows past the hard flat |

The other parts (news calendar, schedules, reports, historical data,
configuration, user interface, deployment) are listed in `PROJECT.json` with
what is left out of each and why.

### How they interact

One asyncio event loop runs everything: a task per bot (the live loop), the
tasks of the dashboard's requests, the client's own tasks and the telemetry.
Parts call one another directly; the only shared mutable state is the gate
(called by its loop and by the dashboard), the tracker (written by its loop,
read by the allocator for other bots), the allocator, the broker client
of a fleet, and the profile directory, which several dashboard processes may
share on disk. Two steps interleave only at an `await` that really suspends, and
several do not: the simulated client never suspends, the deployed market lookup
of the allocator never does, and a `cancel_all` without orders does not
either. The models take an action from one suspension to the next.

### What is hard here

* The flatten: three requesters (equity touch, kill switch, shutdown), up to
  several executors at the same time, with calls that may raise in between.
* The window between a decision and its execution: allocator, `place_order`,
  journal, each an await.
* Stale pictures: one snapshot per bar, a tracker that books what was only
  sent, a strategy that is never told the gate's decision, a drawdown state
  that is built anew on each bar, fleet positions read before a lock is waited
  for.
* Integer edges: a stop rounded to whole ticks of several contracts, the
  floor's equality cases, the tier boundaries, the flip of a position.
* An answer that is lost: the adapter does not know the order, and the exchange
  has it; an id that two bots make up independently.
* A client, a message or a request that is slow: bounded queues that drop, an
  await in the middle of a loop over a copied list, a connection that comes back
  at the deadline.
* A restart: what died with the process, what the exchange did meanwhile, and
  what the journal kept.

`PROJECT.json` "hazards" lists them one by one, each at its line, with the
properties that would catch it.

## 2. The models

### LiveLoop (with FlattenLatch as its abstract specification)

One bot while it trades: `LiveTradingLoop.run`, the force-flatten half of the
gate, the dashboard's `flatten_all`, the adapter and the exchange.

| Variable | In the code |
|---|---|
| `pc` | the await `run` is suspended at (`wait`: the bar stream; `drain`, `shutdown`: a flatten; `alloc`, `place`, `journal`, `snapshot`) or how it ended |
| `todo`, `spos`, `touched`, `bars` | the rest of `intents`, the bar's snapshot, `bars_seen` |
| `gate` | `_flattening`, `_strategy_disabled`, `_pending_flatten_reason` |
| `ff[c]` | where caller `c` is inside `force_flatten_now`: the ids it has still to cancel, or closing |
| `known`, `tpos` | the adapter's `_broker_ids`, the tracker's position |
| `inflight`, `working`, `legs`, `bpos` | the exchange: the order whose answer is out, resting orders, stop and target of the brackets that filled, position |
| `late`, `covered`, `ffailed` | history variables for the properties |

| Action | Code |
|---|---|
| `Bar`, `ShutdownBar`, `SourceEnds` | the head of `async for`, with the stop event looked at first and a pending flatten drained before the bar |
| `AllocatorAnswers`, `PlaceReturns`, `PlaceRaises`, `Journalled`, `SnapshotWritten`, `JournalRaises` | the continuation after each await up to the next one, and each await raising |
| `Kill` | a dashboard request up to its first suspension |
| `CancelOne`, `CloseAll`, `FlattenFails` | the body of `force_flatten_now`, one broker call at a time; the `finally` clause runs with the last one |
| `ExchangeAccepts`, `ExchangeRejects`, `ExchangeFills`, `LegFills` | the exchange, whose answer may be overtaken by anything |
| `RequestStop` | the signal handler |

The gate's money rules are abstracted to `Approvable`: disabled, over the cap,
or adding at the floor is denied; anything else may be approved or denied.
Two dashboards can cancel the same orders; each caller cancels the ids that
`list(self._broker_ids)` had when it began, in order of their ids.

A bracket is one order of the adapter, whose table has its parent only
(`topstepx_client.py` 272-286, 356). While the parent rests its stop and target are
cancelled with it; once it has filled they rest on their own (`legs`), no
`cancel_all` reaches them, and their fill moves the account alone. This is
so in `LiveLoop`, `Startup` and `BrokerOrders` alike. An order may or may not be a
bracket.

`FlattenLatch` is what the rest of the bot is promised: armed, requested,
disabled, never back, and no order once disabled. `LatchSpec` is LiveLoop seen
through that abstraction, with `phase` read off the gate's flags. It holds
when no allocator suspends between the approval and the broker call. When one
does, one order may be sent after the disable, which is why `AtMostOneLateOrder`
is stated as it is.

### RiskGate, DrawdownPolicy, TrailingDrawdown

`RiskGate` is `approve_or_deny` as a predicate: the seven rules in the order of
the code, then the buffer that shortens a stop (`Room`, `SafeStop`). The name of
the rule that denies is left out. Inputs the gate gets from others (the clock
in Chicago, the news window, the consistency of profits, the cancel ratio) are
a `Day` record. `DrawdownPolicy` has the Combine and EFA policies in integer
dollars. `TrailingDrawdown` is the drawdown as an account has it, one persistent
machine with a high water and a lock; the code has no such machine, and
`Backtest` is shown to implement it.

### OrbStrategy, Backtest

`OrbStrategy` has the strategy's and the sizing decorator's own state.
`Backtest` composes strategy, gate and tracker in the order of `_run_collect`,
two actions per bar: `Mark` (mark to market, snapshot, `on_tick`, new day) and
one of `Exit`, `Enter`, `BuildRange`, `NoIntent` (the intent, the gate's
decision, the fill at the close). The tracker's average entry is a quotient; the
model keeps `cost = average * position`, so money stays in integers. The
values of the opening range and the ATR are left out: a bar may break out
either way or not at all, and the stop distance is any member of `Stops`.

### Fleet, FleetLifecycle

`Fleet` has the bots of one account around `approve_intent`. A bot reads every
tracker when it calls (`seen`), then takes the lock or waits for it, then looks
the market up, then answers. `lookupSuspends` is fixed at the start: the
deployed lookup never suspends (then the call is one step), the one the tests
inject does. An order that raises ends its bot and keeps its slot; nothing calls
`release_intent`. The cap is kept for each symbol, so the bots of one symbol are
the unit; what they hold is a fold over them (`SumFunctionOnSet`).

`FleetLifecycle` is the process around them: `run_fleet` connects one broker and
builds the bots; `FleetRuntime.run` sets them up one after the other, each with
a task that starts at once, gathers them and cleans up. `main` is the await the
process is at, `task` where the loop of each bot is, `journal` whether a bot's
journal is open and on the list of those to close. A set-up may raise
(`SetupRaises`), Ctrl+C may come at any time (`Interrupt`), the dashboard may find
its port taken (`PortTaken`); each runs through the `finally` clauses as Python
would. Loading and building the bots are a step each, which may raise.

### Profiles, Broadcast

`Profiles` is `ProfileStore` and the routes that write it, with several dashboard
processes on one directory. Each has one request (`req`, with its `pc` at the next
file operation) and may die between two operations (`Crash`). `set_override` takes
the lock; `create` and `delete` do not: the directory, the reading of the source, the
copy of the overrides, the empty log and the removal of each file are steps of their
own, beside writers. `dir` numbers the incarnations of a profile's directory and
`inode` its lock files, as `flock` locks the file that was opened and not its
name: a writer that holds a removed lock file excludes nobody who makes another.
`blurred` names the profiles whose log need not explain them: a writer died between
its two writes, a delete has begun to remove files, `create` copied over an override
or emptied a log that had a row, or the lock file or directory was replaced under
a request.

`Broadcast` is the telemetry bus with the `WebSocketBroadcaster`: a fan-out task
per event (`tasks` until it starts, then `fan[e]`), a client list that it copies, a
bounded queue and a drain task per client (`queue`, `drain`, `sending`), and the drop of a slow client with
its two awaits (`CloseVictim`, `Resume`), during which other events, filters,
registrations and disconnects go on.

### BrokerOrders, BrokerSession

Both have the TopstepX and the Interactive Brokers adapter, fixed at the start
(`rail`, `adapter`).

`BrokerOrders` has `place_order`, `cancel_order` and `cancel_all` with the
adapter's tables: `recent` is `_recent`, `tracked` is `_broker_ids` or
`_open_trades`. On TopstepX a call waits for the exchange's answer and may raise
before the exchange has the order, after it, or while it is on its way; the
order goes its own way (`air`, `book`, then `legs`). IB hands over and answers in one
step. Two callers may place one id, since the ids are made of a day and a counter.
`cancel_all` has an effect for the adapter's own symbol only (`Listed`). `Restart` is
the end of the process and the start of another: the tables are empty, what is
on its way or rests stays, and `born` records how many orders are of earlier
processes.

`BrokerSession` has `connect` with its awaits, each of which may raise and leave
what was made so far, the refresh task, `disconnect`, and `reconnect` with the
real deadlines (90 and 300 seconds) and the real waits, counted in seconds.

### IndicatorStrategies

`mean_reversion.py` and `trend_following.py` over one belief protocol: `belief` is
`_position` with its side, the trades of the day, the day and the warm-up;
`account` is what the broker holds. The indicators are reduced to what they decide:
an entry signal, the stop, the target or middle band, the turn of the trend
(`Seen`). `live` says whether the exchange acts on a bracket, as it does on the
TopstepX rail and not in the backtest. The clock is a Topstep day and one of its
parts: evening, morning (before the cutoff), afternoon.

### SignalPath, BarFeed

`SignalPath` follows a signal from a chat message to an order: the source's queue
with its drop at the limit and the sentinel of `close`, the pump, which empties
it in one activation, the strategy's deque with its own limit, and `on_bar` with
its quota. `dropped` and `emitted` are histories.

`BarFeed` is the 5-second bars of the client (`list`, which only grows), the
handlers with their counters (`seen`), an aggregator and a queue for each
subscription. An update may come late and bring several bars; it reaches every
handler of the client, whichever subscription it is of.

### TopstepxSim

The simulated account: `sim` is the `SimAccount`; `SimOrder` is `submit_order`
(the hard-flat check, the cap, the fill, the mark), `SimBar` a bar of
`run_scenario` (the tick with its liquidation at the floor), `SimEod` the end of a
day, `Promote` the terminal stage of a scenario. A position is kept as quantity and
cost. The scenarios are sequences of these steps; the model takes every
sequence. `cash` and `peak` are computed from the fills alone, so that the
account's own sums can be compared with them.

### Startup

A bot process over its restarts: `runtime/main.py`'s `main` from opening the
journal to its cleanup, `reconcile.py`, `hydrate.py`, the writes of the loop
that outlive it, and an account that goes on while no process runs.

| Variable | In the code |
|---|---|
| `pc` | the await of `main` or of its loop; `cleanup` is the `finally` clause, `off` no process |
| `strict` | `cfg.halt_on_journal_desync` |
| `seen` | `bs_state` field by field, and the `high_water_equity` that `hydrate_runtime` reads |
| `tracker`, `order`, `cache` | the session's tracker, the order it is placing or recording, the journal's profit cache: lost with the process |
| `rows`, `recorded` | the committed rows of `equity_snapshots` and `fills`: these survive |
| `wire`, `resting`, `legs`, `bpos`, `cash`, `price` | orders on their way, and the account at the exchange with the stop and target of its brackets |
| `accepted`, `unbooked`, `disturbed` | history variables for the properties; `unbooked` is what legs have moved since the session began to trade |

`ReadPositions`, `ReadOrders` and `ReadAccount` are the three awaits of
`snapshot_broker`; `Reconcile` compares them with a journal whose tables of
orders and positions nothing fills, so `Reconciled` is "flat and no order".
`Hydrate` goes on to `_default_event_loop`, which builds a flat tracker with the
balance as its high water. `Exit` is the end of the process at any await. The
rules of the gate other than the position cap are left out, and the P&L in a
snapshot is any member of `Pnl`.

### How they are composed

Parts that act on one another are in one module: the loop, the latch half of the
gate, the kill switch, the adapter and the exchange in `LiveLoop`; the strategy,
the gate and the tracker in `Backtest`; bots, trackers and allocator in `Fleet`;
`main`, the journal, the loop's writes and the exchange in `Startup`; the routes
and the store in `Profiles`.

Parts that share no state and are asked the same kind of question are checked in
one run by an MC module that unites them: `MCFleet` (`Fleet`, `FleetLifecycle`,
`Broadcast`), `MCDisk` (`Startup`, `Profiles`), `MCDesk` (`SignalPath`, `BarFeed`,
`IndicatorStrategies`, `BrokerSession`, `BrokerOrders`, `TopstepxSim`). The
variable `part` picks one of them at the start of a behaviour; the others
stay as they start, with nothing enabled that the fairness speaks of. This is
the sum of the parts' state spaces, not their product.

## 3. The runs

| Run | Question | Result |
|---|---|---|
| `LiveLoop_kill` | two dashboards, two intents a bar, two bars, calls that may fail | no flatten is lost; at most one late order; the orders a successful flatten covered are gone; no flatten begins after the disable; the shutdown's flatten leaves no order the bot placed; the latch is implemented |
| `LiveLoop_live` | no bound on the bars, an allocator that suspends, fairness | a requested flatten is carried out unless the loop ends; with one intent a bar the tracked position stays within the cap; an order that waited for the allocator is the only late one |
| `LiveLoop_v_shutdown` | the clients that exist, without `close_all_positions` | violated: a shutdown leaves the position open, and the legs of its bracket |
| `LiveLoop_v_exchange_cap` | the position at the exchange | violated: a rejected order is booked, and later ones exceed the cap |
| `Backtest_bars` | every series of bars of three days, both policies | the rebuilt floor of a Combine account is the persistent one (`FloorAgrees`, and `TrailingSpec`: the tracker implements the trailing drawdown); stops stay above it; belief matches the account; own exits are denied below the floor only |
| `Backtest_v_efa` | "Floor ratchets EoD only (NOT intraday)" for an EFA account | violated: a mark within the day raises the high water, and the floor with it |
| `Fleet_all` | three bots, orders of -1 and 2 at a cap of 2, both lookups; three bots set up, failing, interrupted, wound up; two browsers that stall, filter and leave | what is held and in flight stays within the cap; a slot is an order in flight; every intent is answered; no journal is closed under a running loop unless a set-up broke off; the process ends, and each strategy that began was torn down once; each client gets its events once and in order, and nothing after its close; every fan-out ends |
| `Disk_all` | three sessions of one account that may die at any await; two processes on one profile directory, which may die | a strict session passes reconcile only flat; its picture of the position is then off by what is on the way, rests, or was filled by legs, and by nothing else; one fill row at most is lost in a session; the profit cache is the replay of the journal; the audit log explains the overrides |
| `Disk_v_floor` | "high-water equity from journal's `equity_snapshots`" | violated: after a drawdown and a restart the floor trails from the present balance |
| `Desk_all` | signals, bars, strategies, adapters and the simulator, each through every order of its steps | signals are neither lost unseen nor reordered, no quota goes to another market, close ends the pump; bars come once, whole and in order; entries and exits take turns, flat past the cutoff; cancel_all misses only legs of brackets, orders of an earlier process, of lost answers and of overlapping calls, and only the last three get an id a second order; a reconnect ends; the simulated money adds up, who survives a bar is above the floor, nothing grows past the hard flat |
| `Desk_v_reversed` | "the BRACKET attached below is informational for live brokers" | violated: the bracket closes the position, the strategy exits again and is the other way round |
| `Desk_v_deadline` | "90-second reconnect deadline" of TopstepX | violated: an attempt begins after the deadline, for the clock is looked at before the wait |

The violations are differences between what a comment or the specification of
the repository says and what the code does; "findings" quotes both sides.

### Bounds, and why they are enough

* LiveLoop: two dashboards, as a flatten is shared by at most the loop and
  others, and the second dashboard already meets every phase of the first.
  Two intents a bar reach "next intent with an old snapshot"; two bars reach
  "the drain of the previous bar's request". `MaxOrders` (3) bounds the ids; `MaxBars = 0` is the code's
  `None`. The passing runs have the clients of the repository, which cannot close a position
  (`BrokerCanClose`), but for `LiveLoop_live`. The cap of 1 with
  quantities of one contract is met, and exceeded, at once.
* `Live = FALSE`, the simulated client, has no suspension in placing or
  flattening. It is covered by the theorems, which hold for both; the runs
  take the interleaving one.
* Backtest: five prices, a maximum loss of 4 ticks and a daily limit of 3, so
  that the floor, the lock, the limit and equality at each are reached within
  three days; two tiers (one contract, two from a profit of 2), stops of 1 and 2
  ticks, one trade a day. Three days let a forgotten trade meet the next entry.
* Fleet: three bots make a queue of two behind the holder; the uneven
  quantities meet the cap exactly and overshoot it.
* FleetLifecycle: three bots, so that one is running, one is being set up and one is
  still to come when something breaks.
* Startup: three sessions, so that an order of a dead session may arrive while the
  process is down, during the next start, or two starts later; two orders in all,
  of one contract, and two rows. No property of the passing run reads money, so it has
  one price; `Disk_v_floor` has two, which make a drawdown.
* Profiles: two processes and two writes make each interleaving of two writers;
  one creation lets a name be taken again under a writer that holds its old lock;
  two keys tell an update that was lost from one that was not, and one value, which
  the strategy refuses, is enough for both.
* Broadcast: a queue of one is full at the second event; three events pass a
  client that is being dropped and one that comes later; two channels, one
  of which a client may leave out.
* BrokerOrders: two callers, ids and symbols, three orders, one restart: an id placed
  twice, with another or a new process in between. BrokerSession: two reconnects, attempts of 0 and 20 seconds
  against the real waits, so that the deadline is passed in the middle of the
  waits and after the longest of them.
* IndicatorStrategies: two trades a day over two days, so that a trade outlasts
  the day it was counted in; the bands come a bar before the first entry may.
* SignalPath: a source of two and a deque of three fill up with four signals; a
  quota of one leaves some behind. BarFeed: two 5-second bars an interval and five in
  all make two closed bars and an open one; two subscriptions, one reconnect.
* TopstepxSim: four steps of orders and bars in two symbols, one worth twice the other
  per point; prices 12 points apart, so that a maximum loss of 16 is passed by
  two contracts of the small market or one of the large, and not by one of
  the small.

### Fairness

`LiveLoop!FairSpec`: the event loop runs whatever task is ready, a broker call is
answered, and while the market is open the feed delivers a next bar (or ends).
Nothing is assumed of a kill switch, a SIGTERM, a fill or a failure. The feed
assumption is needed: a flatten latched by `on_tick` is drained when the next
bar arrives, and by nothing else (`live_loop.py` 227-229). `Fleet!FairSpec`: a
waiter whose turn it is gets the lock, a lookup returns.

`LifeFairness`: the process goes on through its set-up and clean-up, a task that was
created starts, a teardown ends, and a bar source that is not endless ends. No
failure and no Ctrl+C is assumed; a fleet whose sources are endless must end only
once something broke it off. `BusFairness`: tasks start, a
cancellation arrives, the close of a socket returns or raises. A send need never
return, which is what `FanOutEnds` is about. `SignalsFairness`: the pump runs, the chat
client closes, a `put` that waits for a place gets it. `SessionFairness`: a sleep
ends, a call of the SDK returns or raises, and so does the flatten callback.

## 4. The proofs

TLC checks the instances above; the theorems hold for all values of the
constants that satisfy the named assumptions: any number of dashboards, bots,
intents, bars and orders, any quantities, prices, tiers and limits.

* `LiveLoopProofs`. `IInv` is `TypeOK` with `LatchInv` (a taken latch has a
  reason pending or has disabled; whoever flattens finds it taken), `LateInv`
  (an order accepted after the disable was already past the gate, so there is none
  other on its way) and `BarsInv` (`bars` is below its bound while the loop runs;
  without it the type of `bars` is not inductive). From it: `TypeCorrect`,
  `NoFlattenIsLost`, `OneLateOrder`, `FlattenStartsBeforeDisable`, and
  `ImplementsLatch` under `~AllocatorSuspends`. `FlattenCoversItsOrders` needs a
  second invariant, `IdsInv /\ CoverInv`: ids are handed out once and in order,
  and what a caller has still to cancel includes every covered order that rests.
  It assumes `GateKnowsSymbol`; for another symbol `cancel_all` returns nothing.
  `ShutdownIsComplete` needs `ShutdownInv` in addition: outside `place_order` the adapter
  knows each order of the bot that rests. It says nothing of the legs, which
  do stay, nor of the position. And
  `OneIntentKeepsTheCap` shows that the snapshot of a bar is the tracker's state when its
  only intent is judged.
* `BacktestProofs`, about the operators of `RiskGate` alone:
  `ApprovedStopKeepsTheFloor` (the rounding of `Room` to whole ticks of several contracts included),
  `NothingGrowsAtTheFloor`, `MonotoneInEquity`, `FloorOfEveryPolicy`.
* `BacktestProofs`, about the state. `IInv` has the account half (`FlatBooks`, `HighWaterLeads`:
  without "the high water leads equity" the rebuilt state could lower the
  floor) and the belief half (`TradeHasSize`, `EntryWithinDll`: the entry was
  approved with the realized P&L its exit meets). From it come the
  properties of `Backtest_bars`, the refinement `ImplementsTrailing`, and three that no
  run checks: the floor never falls, positions only shrink at it
  (`TouchedOnlyReduces`), and a fill at the mark moves no equity
  (`FillsMoveNoEquity`).
* `FleetProofs`, the allocator. `IInv` is the types, the slots, `IntentFitsGate`
  (what a bot asked for still fits its own gate when it is booked; without it the
  position's range is not inductive) and the lock. From it: `PendingIsRight`,
  `LockIsRight`, `IntentStillFits`. `AccountWithinCap` adds `CapInv`: where the lookup
  suspends no one, nobody waits, so what a bot asks for is added to a total
  that is still the present one; a fill moves its quantity from the sum of the
  slots to the sum of the positions.
* `FleetProofs`, the process. `LifeInv` says for each await of the clean-up which
  tasks can still run. From it: `LifeTypeCorrect`, `JournalsOutlive`,
  `TornDownAtMostOnce`, for any number of bots.
* `Facts`. What the library has no facts for, or none these provers can use, proved
  without a theorem about a predicate: a claim that fails has a smallest
  counterexample. Among numbers it gives `UpTo` (an induction over 0..n, for a set)
  and `RecursionExists` (a recursive function over 0..n exists and obeys its
  equation); among finite sets it gives the sum of a function: `SumIsInt`, `SumAgrees`,
  `SumGrows`, `SumTakes`, `SumMoves`. `DivBelow` and `DivMonotone` are the quotient of
  integers.
* `StartupProofs`. `Basics` is the types with `PlacingFits` (the order in flight
  still fits the cap when it is booked; without it the tracker's range is not
  inductive), `SlotIsIdle` and `RealIds` (no order on the wire is the idle slot).
  `OnlyFlatPasses` needs `PictureTaken`: what has been read of the snapshot is what
  the exchange has while it stands still. `OneRowAtMost` needs `RowsLost`: among
  the orders that have no row, those still on the wire included, a session has
  one at most, and it is the one in its slot. `CacheIsRight` rests on
  `ReplayOfAppend`, a lemma about the replay alone.
  `PictureStaysRight` needs `OnePlace`: an order is on the wire or at the exchange,
  not in both, and its id is not used again; the tracker then differs from the
  exchange by the sum of the orders on the way and resting, which each step moves, and
  by what the legs of its brackets have filled (`unbooked`), which nothing books.
* `DashboardProofs`. `AuditExplains`: the invariant says who holds which lock file
  (`LocksHeld`), hence that a directory has one writer between
  its read and its append (`OneWriter`), and what that writer has read
  and written so far (`ReaderAgrees`, `FileAgrees`, `WriterAgrees`, `RowsAgree`).
  `ApartKeeps` frames the steps on other profiles. `ClosedIsLeftAlone`: only a
  registered client is ever dropped, and a socket is closed once its drain task has
  ended, which then never starts again. `StreamInOrder` adds `StreamInv`: what a client
  was sent, is being sent and has queued is one rising line of events but for the late
  ones, nothing in it is newer than the fan-out that has started last (`StartsInv`),
  and a fan-out that waits for the close of a slow client has its own event in no
  queue of the clients it has still to serve, each of which it has once.
* `DeskProofs`. For the adapters' orders: each number is one order in one place
  (`Numbered`, `OneOfEach`), an id in two places was placed by calls that overlapped
  (`Overlaps`) or has an earlier one the adapter cannot know of (`Unknown`: its answer was
  lost, or it is of an earlier process; `EarlierIsLost`, `StraysAreLost`); from
  it `OnlyLostAnswers` and `SecondOrders`. For the session: `LateByAWait`, under
  `WaitsGrow` (no wait is longer than the last, the attempts have a longest): the bound of
  the lateness that `Desk_v_deadline` shows, and no run's property. For
  the strategies: `Turns` and `FlatAfterTheCutoff`. For the simulated account:
  `LateOnlyReduces`, as ticks, liquidations and the end of a day keep each position or
  flatten it; and `SimInv`, which says of `cash` and `peak`, computed from the fills
  alone, that they are the account's own (`Books`) as long as no fill has only
  reduced a position, and that after a bar an active account is above its floor. From
  it `FillsAddUp` and `FloorIsKept`, for any number of symbols: a fill changes one
  term of the sum of open gains, and the products in it are compared symbol by symbol.
* `FeedProofs`, the signals. `SignalsInv` is the types, the place of the sentinel (last
  in its queue, and there only once `close` has put it) and `InLine`: orders, deque and
  source queue are three sequences of numbers that rise, each below the next, and
  together they are what was accepted and not dropped. The loop of `on_bar` is a
  recursive function (`Matching`); `UpTo` shows what it keeps and in which order. From
  it `SignalTypes`, `SignalsStayInLine` and `QuotaIsForMatches`.
* `FeedProofs`, the bars. `BarsInv` says of each aggregator that its bar in the making
  is of the interval of its last tick and later than the closed ones that wait
  (`AggIs`), and of each bar already delivered that its interval is over (`Over`):
  whatever waits for that stream, and whatever any list could still make of a
  stream that starts over after a reconnect, is later. Without the second the
  order across a reconnect is not inductive. From it `BarTypes` and
  `BarsKeepTheirOrder`. `WholeInv` adds that ticks rise in each list, that a stream
  that is not open has nothing, and that the handler of a client's only subscription
  has made whole bars of what it has seen of its list (`WholeAt`); `WholeStep` is one
  call of `feed`, `ConsumedWhole` the loop of `on_bar_update`. From it `BarsStayWhole`.

`OneIntentKeepsTheCap` and `ShutdownIsComplete` of `LiveLoopProofs` have a hypothesis
each: `MaxIntents <= 1` and `GateKnowsSymbol`. The first is what the strategies return
by default; a signal strategy may be configured to return more a bar
(`registry.py` 190), and then the snapshot of the bar is stale for the second.

Every safety invariant, every action property and both refinements that the passing
runs check are theorems. Only model-checked are the six liveness properties
(`FlattenIsCarriedOut`, `EveryIntentIsAnswered`, `FleetWindsUp`, `FanOutEnds`,
`CloseEndsThePump`, `ReconnectEnds`): the prover has no rule for fairness here. Loops
over data are recursive functions, whose existence and equation `Facts` proves; no
module declares a recursive operator.

The assumptions on the constants are the named ones of the modules; the runs evaluate
them for their instances.

## 5. What was observed and has no run of its own

Each of these can be read off the models or the code; none is counted as a
finding.

* A flatten that `on_tick` latches waits for the next bar. If the stream ends
  first it never happens; `FlattenIsCarriedOut` says so in its second alternative.
* The intents of one bar are judged against one snapshot, so two of them can
  take the tracked position past the cap. `TrackerWithinCap` is about one
  intent a bar. That is what the strategies return, except a signal strategy whose
  `max_signals_per_bar` is configured above its default of 1.
* The stop and the target of a bracket that filled are in no table of either adapter
  (`topstepx_client.py` 272-286, 356; `ib_client.py` 191-195, where 73-75 has "canceling the
  parent cancels the OCO group": it does while the parent rests). A flatten, a
  shutdown or a later `cancel_all` leaves them at the exchange; one that fills
  afterwards opens a position. The tracker, which is told of an order when
  `place_order` returns, is not told of their fills (`PictureHolds`), and neither is
  the strategy (`Desk_v_reversed`).
* `_flattening` is never reset, so a shutdown after a finished kill switch does
  nothing more; orders that slipped in as "late" stay.
* A second `force_flatten_now` that begins while the first is at work repeats
  the cancels. They are idempotent at the exchange (`CoveredOrdersAreGone`).
* `record_fill` averages a partial reduction into the entry price
  (`tracker.py` 68) instead of realizing it; `FillsMoveNoEquity` excepts that fill.
  No strategy with tiers reduces partially while its belief is right
  (`BeliefMatchesAccount`).
* `realized_pnl_today` is the P&L since the process started, so the daily limit
  never resets.
* A backtest latches the flatten and has no task that carries it out: it goes on
  trading where the live loop would be disabled. `TouchedOnlyReduces` bounds the damage.
* The journal has `record_order` and `record_position`, and nothing under `src/bot`
  calls them. Reconciliation therefore refuses every restart with an open
  position or order, also one whose fills are all recorded, and a strict bot starts
  again only when somebody has flattened the account.
* The three queries of `snapshot_broker` are not one: an order that fills between
  the first two is in neither answer, and a strict session passes reconcile with
  an open position. `OnlyFlatPassesReconcile` and `PictureHolds` except it by
  `disturbed`.
* Without the strict setting the loop starts with a flat tracker whatever was
  found; `RuntimeState.positions` has no reader.
* Nothing wires the journal to the gate as its `journal_provider`, so the cache
  that `CacheIsReplay` is about reaches rule 6 in tests only.
* Closes without a bracket are denied like any other intent when equity is at the
  floor or past the daily limit (`gate.py` 251), where
  `04-risk-engine.md` 713 says that a reducing intent is never denied by rules 2 or 3.
  `OwnExitIsApproved` is stated above the floor.
* The breakout strategy forgets its trade when the day turns or when its exit was
  denied (`orb.py` 156, 98): the position stays, and nothing closes it.
* The simulator ratchets the high water of an EFA stage at each mark as the tracker
  does (`Backtest_v_efa`), where `efa_drawdown.py` 4 and `04-risk-engine.md` 209 have
  the floor move at the end of the day only. `TrailingSpec` and `FloorIsARatchet` say how
  the floor trails under both policies, not when it ought to.
* The booked positions of a fleet may exceed the cap for a while when a sale in flight
  made room for a purchase that is booked first (`allocator.py` 123); what is
  committed does not. The cap is kept for each symbol string (`allocator.py` 118), so NQ
  and MNQ, or two expiries, do not share one.
* Orders. An id made of a day and a counter collides between two bots of one strategy
  and after a restart, where `02-execution-clients.md` 205 asks for ids that are unique
  across restarts; the second intent is answered with the first one's event and never
  sent, or, in a new process, whose `_recent` is empty, is sent again with no answer
  lost. A new process has no table of the orders of the one before.
  `cancel_all` of one bot cancels the orders of all bots on the shared
  client. The TopstepX adapter places on the instrument of its suite, whatever symbol the
  intent has. No strategy gives a bracket a limit price, without which the IB
  adapter raises for it.
* Connections. Nothing calls `reconnect` or passes `force_flatten`. Beside the lateness of
  `Desk_v_deadline` (about 123 seconds with attempts that fail at once), IB stops trying
  after about 303, where `02-execution-clients.md` 78 has it go on every 60 seconds.
  `connect` overwrites the refresh task it knows: the
  one of the connection before goes on (`topstepx_client.py` 501 says it runs until
  `disconnect`).
* The fleet. `request_shutdown` has no caller. A set-up that raises closes the journals of
  the bots that already run, where `runtime.py` 121 says that failures stay local; so does a
  dashboard whose port is taken, as `SystemExit` is not an `Exception`
  (`runtime.py` 16 says a crash there does not crash the fleet), except that then no
  journal is closed. A bot cancelled before its task's first step was set up and is
  never torn down. `run_fleet` takes no broker snapshot and does not reconcile, and
  `main` leaves the journal open when `connect_broker` raises (`main.py` 417, 534).
* Signals. Those that come outside the schedule wait and are traded when it opens, however
  old; nothing calls `close`, which would wait for a place in a full queue for
  ever if the pump was stopped.
* Bars. The event of a client is shared by its subscriptions: each handler counts what
  the other's list had, and skips as much of its own. `BarsAreWhole` excepts it by
  `shared`. A tick that the aggregator refuses loses the rest of its update.
* The event stream. While a fan-out awaits the close of a slow client, a later event
  overtakes it for clients further down the list; the stream of each client is in order
  up to that (`late`). `run_fleet` passes a bus that sends nothing.
* Profiles. Nothing reads a profile when a bot is built. `put_override` stores a value
  before it validates it (`api.py` 405 before 419), where `src/tests/dashboard/v2/test_api.py`
  190 expects a 400: the answer is 400 and the value stays, and each `activate` of the
  profile answers 400 from then on. Deleting the profile of the user in force
  makes `activate` raise. `create` and `delete` work without the lock and file by file
  (`profiles.py` 135-140, 149): a `set_override` of another process that lies between
  `create`'s directory and its empty log keeps its value and loses its row, and
  a delete that dies half way leaves a profile with some of its files.
* The simulator. A fill that reduces a position without closing it realizes nothing
  (`account.py` 127 calls it impossible); the fill is applied against the last mark before
  it is marked; a liquidation flattens the symbol that ticked and no other; a flip to
  the other side of equal size passes the hard flat; the stages `efa_payout`, `funded` and
  `combine_passed` never fail; a terminal stage after a failure raises.
* `deploy/com.user.topstepbot.plist` restarts the process on every exit but 0, also
  after the mismatch for which the specification wants a human review.

## 6. What is not modelled

Left out for good: text, logging, alerts and pages; file formats, statistics and
reports; the ratio adjustment of historical prices, which is arithmetic in reals;
configuration and secrets, which are validated before anything runs; the user
interface; tables of parameters (`strategy/profiles`); third-party clients beyond how the
adapters use them.

Within modelled parts: the heartbeat file and the telemetry calls of the loop, the
names of denial rules, the payout rule (no caller in the trading path; `update_on_eod`
is reached by the simulator only), the windows of a schedule and of the news
calendar (a bar is in or out), the values of indicators (a bar shows a signal or
not), the parser of chat messages, the preferences of a profile, the simulated and demo
bar sources, `run_fleet`'s refusals of bad bot specifications (one step that may
raise), the resting orders of a fleet on its shared client.

Out of the prover's reach: liveness and ENABLED, as section 4 says. Induction over data
is done by hand where it is needed, for numbers and finite sets (`Facts`).

## 7. Plan

Done, in the order of what could cost most: the loop and its latch, gate and
account, the fleet, restarts, the adapters, the strategies, the dashboard, the feeds and
the simulator. What would add most next:

1. The bots of a fleet over the shared client: one bot's `cancel_all` against another's
   resting orders (`gate.py` 395), by composing `Fleet` with `BrokerOrders`.
2. The windows of `runtime/fleet/schedule.py`, `risk/news.py` and
   `risk/cancel_tracker.py` as functions of the time, checked against a reference
   definition over midnight and the change of the clock.
3. A theorem that `cancel_all` of one bot reaches no other bot's order where the symbols
   differ, once 1 is modelled.
4. The monotonicity of the gate (`MonotoneInEquity`) for the rules that read the
   position as well, on the state of a backtest.
5. A fleet of one bot refines a bot without an allocator.
