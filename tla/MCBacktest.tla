----------------------------- MODULE MCBacktest -----------------------------
(***************************************************************************)
(* Backtest.tla on five prices and the sizing ladder's first step: one      *)
(* contract at the start, two from a profit of two ticks.                  *)
(***************************************************************************)
EXTENDS Backtest

Ticks == 0..4
TwoTiers == <<<<0, 1>>, <<2, 2>>>>
=============================================================================
