------------------------------- MODULE MCDesk -------------------------------
(***************************************************************************)
(* What lies between a strategy and the outside world: the signals and the *)
(* bars that reach it (SignalPath.tla, BarFeed.tla), the strategies that   *)
(* go by their own belief (IndicatorStrategies.tla), the connection of a   *)
(* broker adapter and its orders (BrokerSession.tla, BrokerOrders.tla),    *)
(* and the simulated account (TopstepxSim.tla).  They share no state; a    *)
(* behaviour runs one of them, the others stay as they start.              *)
(***************************************************************************)
EXTENDS SignalPath, BarFeed, BrokerSession, BrokerOrders, IndicatorStrategies,
        TopstepxSim

VARIABLE part

MCInit ==
    /\ part \in {"signals", "bars", "strategies", "session", "orders", "sim"}
    /\ SignalsInit /\ Init
    /\ SessionInit /\ OrdersInit /\ StrategiesInit /\ SimInit
    /\ part # "strategies" => kind = "trend" /\ ~live
    /\ part # "session" => adapter = "topstepx"
    /\ part # "orders" => rail = "topstepx"
    /\ part # "sim" => sim.stage = "combine_active" /\ terminal = "none"

MCNext ==
    /\ UNCHANGED part
    /\ \/ part = "signals" /\ SignalsNext
       \/ part # "signals" /\ UNCHANGED signalVars
    /\ \/ part = "bars" /\ Next
       \/ part # "bars" /\ UNCHANGED feedVars
    /\ \/ part = "strategies" /\ StrategiesNext
       \/ part # "strategies" /\ UNCHANGED strategyVars
    /\ \/ part = "session" /\ SessionNext
       \/ part # "session" /\ UNCHANGED sessionVars
    /\ \/ part = "orders" /\ OrdersNext
       \/ part # "orders" /\ UNCHANGED ordersVars
    /\ \/ part = "sim" /\ SimNext
       \/ part # "sim" /\ UNCHANGED simVars

MCSpec ==
    /\ MCInit
    /\ [][MCNext]_<<part, signalVars, feedVars, strategyVars, sessionVars,
                    ordersVars, simVars>>
    /\ SignalsFairness /\ SessionFairness

AdapterDeadline == [topstepx |-> 90, ib |-> 300]
AdapterBackoff == <<1, 2, 4, 8, 16, 32, 60>>
OrderKinds == {<<"MARKET", FALSE>>, <<"BRACKET", FALSE>>, <<"BRACKET", TRUE>>}
Sizes == {-2, -1, 1, 2}
FullAndMicro == [nq |-> 2, mnq |-> 1]
=============================================================================
