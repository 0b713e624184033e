------------------------------- MODULE MCDisk -------------------------------
(***************************************************************************)
(* What processes leave on disk for the next one: the journal of the       *)
(* sessions of a bot (Startup.tla), with orders of one contract either way *)
(* and a realized P&L that is a loss or a profit, and the profile          *)
(* directories of the dashboard (Profiles.tla).  They share no state; a    *)
(* behaviour runs one of them, the other stays as it starts.               *)
(***************************************************************************)
EXTENDS Startup, Profiles

VARIABLE part

MCInit == part \in {"sessions", "profiles"} /\ Init /\ ProfilesInit

MCNext ==
    \/ part = "sessions" /\ Next /\ UNCHANGED <<part, profileVars>>
    \/ part = "profiles" /\ ProfilesNext /\ UNCHANGED <<part, vars>>

MCSpec == MCInit /\ [][MCNext]_<<part, vars, profileVars>>

UnitQty == {-1, 1}
TwoPrices == {1, 2}
BarPnl == {-1, 1}
=============================================================================
