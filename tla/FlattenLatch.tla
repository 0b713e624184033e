---------------------------- MODULE FlattenLatch ----------------------------
(***************************************************************************)
(* What a TopstepRiskGate promises the rest of the bot about the           *)
(* force-flatten, whatever the bar loop, the dashboard and the broker do:  *)
(* the session is armed until a flatten is requested, a request is never   *)
(* withdrawn, the strategy is disabled at most once and for good, and no   *)
(* order leaves the bot once it is.  LiveLoop.tla is the detailed          *)
(* specification that implements this one.                                 *)
(***************************************************************************)
EXTENDS Naturals

VARIABLES
    phase,  \* "armed", "requested" (latched, not carried out) or "disabled"
    sent    \* number of orders the bot has handed to its broker

vars == <<phase, sent>>

TypeOK ==
    /\ phase \in {"armed", "requested", "disabled"}
    /\ sent \in Nat

Init == phase = "armed" /\ sent = 0

\* An equity touch, a kill switch or a shutdown latches the request; the bar
\* that saw the touch may still send the reducing order it decided on.
Request ==
    /\ phase = "armed"
    /\ phase' = "requested"
    /\ sent' \in {sent, sent + 1}

Send ==
    /\ phase # "disabled"
    /\ sent' = sent + 1
    /\ UNCHANGED phase

\* The flatten has been carried out, or has failed: both disable the strategy.
Disable ==
    /\ phase # "disabled"
    /\ phase' = "disabled"
    /\ UNCHANGED sent

Next == Request \/ Send \/ Disable

Spec == Init /\ [][Next]_vars
=============================================================================
