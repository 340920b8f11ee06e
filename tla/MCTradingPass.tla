---------------------------- MODULE MCTradingPass ----------------------------
(***************************************************************************)
(* TradingPass on small accounts: the constants the configurations share.  *)
(***************************************************************************)
EXTENDS TradingPass, TLC

CONSTANTS c1, c2, c3, c4, u1, u2, u3

\* One contract on one name; one on each of two; two on the first and one on
\* each other name.
OneName == c1 :> u1
TwoNames == c1 :> u1 @@ c2 :> u2
TwoNamesThreeContracts == c1 :> u1 @@ c2 :> u1 @@ c3 :> u2
ThreeNames == TwoNamesThreeContracts @@ c4 :> u3

\* The broker may move anywhere.
Anywhere == Places

\* ... only between passes.
BetweenPasses == {"idle"}

\* ... between passes and while exits are being sent.
WhileSelling == {"idle", "exits", "sold"}

\* ... between passes and while `_reconcile_holdings` runs.
WhileReconciling == {"idle", "reconcile", "fills"}

=============================================================================
