------------------------------ MODULE MCFleet ------------------------------
(***************************************************************************)
(* What the tasks of one event loop share: the allocator (Fleet.tla), with *)
(* bots that all trade one symbol, selling one contract at a time and      *)
(* buying two, so that the cap is met exactly and overshot; the life of    *)
(* the fleet process (FleetLifecycle.tla); and the event stream to the     *)
(* browsers (Broadcast.tla).  They share no state; a behaviour runs one of *)
(* them, the others stay as they start, with nothing enabled that the      *)
(* fairness speaks of.                                                     *)
(***************************************************************************)
EXTENDS Fleet, FleetLifecycle, Broadcast

VARIABLE part

MCInit ==
    /\ part \in {"cap", "life", "stream"} /\ Init /\ LifeInit /\ BusInit
    /\ part # "life" => ~endless
    /\ part # "cap" => ~lookupSuspends

MCNext ==
    \/ part = "cap" /\ Next /\ UNCHANGED <<part, lifeVars, busVars>>
    \/ part = "life" /\ LifeNext /\ UNCHANGED <<part, vars, busVars>>
    \/ part = "stream" /\ BusNext /\ UNCHANGED <<part, vars, lifeVars>>

MCSpec ==
    /\ MCInit /\ [][MCNext]_<<part, vars, lifeVars, busVars>>
    /\ \A b \in Bots : WF_vars(Acquire(b)) /\ WF_vars(LookupReturns(b))
    /\ LifeFairness /\ BusFairness

OneSymbol == [b \in Bots |-> "MNQ"]
UnevenQty == {-1, 2}
\* The second event is of a bot whose channel some client has chosen.
MCChannelsOf == [e \in 1..MaxEvents |-> IF e = 2 THEN Channels ELSE {Fleet}]
AlphaOnly == {Channels \ {Fleet}}
=============================================================================
