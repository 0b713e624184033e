-------------------------- MODULE TrailingDrawdown --------------------------
(***************************************************************************)
(* The trailing maximum-loss floor as an account experiences it: one       *)
(* persistent machine whose high water and lock survive from tick to tick  *)
(* (spec 04 section 3.4).  The bot has no such machine: every bar builds a *)
(* new AccountState and derives the lock again from the tracker's high     *)
(* water.  Backtest.tla shows that the two agree.                          *)
(***************************************************************************)
EXTENDS Integers

CONSTANTS
    Start,  \* an integer
    Mll     \* a natural

VARIABLES equity, high, locked

vars == <<equity, high, locked>>

Floor == IF locked THEN Start ELSE high - Mll

TypeOK == equity \in Int /\ high \in Int /\ locked \in BOOLEAN

Init ==
    /\ equity = Start
    /\ high = Start
    /\ locked = (Mll = 0)

Higher(a, b) == IF a >= b THEN a ELSE b

Tick ==
    /\ equity' \in Int
    /\ high' = Higher(high, equity')
    /\ locked' = (locked \/ high' >= Start + Mll)

Spec == Init /\ [][Tick]_vars
=============================================================================
