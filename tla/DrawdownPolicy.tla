--------------------------- MODULE DrawdownPolicy ---------------------------
(***************************************************************************)
(* The drawdown policies a bot can be built with: CombineIntradayDrawdown  *)
(* (risk/combine_drawdown.py) and the two EFA policies                     *)
(* (risk/efa_drawdown.py).  Money is in integer dollars, an AccountState   *)
(* the record [equity, realized, pos, hw, locked] of one symbol; lock_point *)
(* is the starting balance whenever the state is locked.                   *)
(***************************************************************************)
EXTENDS Integers

CONSTANTS
    Start,          \* start_balance
    Mll,            \* mll_amount
    MaxMini,        \* max_mini of the Combine
    Ratio,          \* contracts of the symbol per mini (micro_to_full_ratio)
    Tier1, Tier2    \* EFA profits at which the cap rises (1500, 2000)

ASSUME PolicyAssumption ==
    /\ Start \in Int /\ Mll \in Nat /\ MaxMini \in Nat /\ Ratio \in Nat
    /\ Tier1 \in Int /\ Tier2 \in Int

Policies == {"combine", "efa"}

Abs(n) == IF n < 0 THEN -n ELSE n
Larger(a, b) == IF a >= b THEN a ELSE b
Smaller(a, b) == IF a <= b THEN a ELSE b

AccountState ==
    [equity : Int, realized : Int, pos : Int, hw : Int, locked : BOOLEAN]

UpdateOnTickWithoutLock(p, s) ==
    IF p = "efa" THEN s ELSE [s EXCEPT !.hw = Larger(s.hw, s.equity)]

\* update_on_tick.  The EFA policies leave the state alone.
UpdateOnTick(p, s) ==
    IF p = "efa" THEN s
    ELSE LET hw == Larger(s.hw, s.equity) IN
         [s EXCEPT !.hw = hw, !.locked = s.locked \/ hw >= Start + Mll]

PhantomMll(p, s) ==
    IF p = "combine"
    THEN IF s.locked THEN Start ELSE s.hw - Mll
    ELSE Start + Smaller(Larger(0, s.hw - Start) - Mll, 0)

\* max_position, in contracts of the symbol
MaxPosition(p, s) ==
    LET profit == s.equity - Start
        minis == IF p = "combine" THEN MaxMini
                 ELSE IF profit < Tier1 THEN 2
                 ELSE IF profit < Tier2 THEN 3 ELSE 5
    IN minis * Ratio

\* Combine accounts must be flat by 15:10 CT.
EnforcesHardFlat(p) == p = "combine"
=============================================================================
