------------------------------- MODULE Broker -------------------------------
(***************************************************************************)
(* The paper account, as the agent can see and change it.                  *)
(*                                                                         *)
(* Everything here happens outside the repository: orders rest, fill,      *)
(* expire, and a person may close a position by hand.  It is modelled from *)
(* how src/src/agent/executor.py and src/src/agent/market.py use it:       *)
(* `positions` reports `held`, `open_orders` reports `buys` and `sells`,   *)
(* `bought_contracts` reports `bought`.                                    *)
(*                                                                         *)
(* One contract has at most one resting buy order, one resting sell order  *)
(* and one position; quantities are abstracted to "none", "some" and       *)
(* "all", which is what every rule of the agent tests.                     *)
(***************************************************************************)
EXTENDS Integers, FiniteSets

CONSTANTS
  Contract,      \* the option contracts that may be traded
  Underlying,    \* the symbols of the watchlist
  UnderlyingOf   \* the underlying of each contract

ASSUME UnderlyingAssumption == UnderlyingOf \in [Contract -> Underlying]

VARIABLES
  held,      \* contracts with an open long position
  buys,      \* contracts with a resting buy order
  partial,   \* resting buy orders of which a part has filled already
  sells,     \* contracts with a resting sell order
  patient,   \* resting sell orders that are limits, so may never fill
  bought,    \* contracts of the closed-order history whose buy filled
  departed   \* history: positions that left since their last `closed` event

brokerVars == <<held, buys, partial, sells, patient, bought, departed>>

BrokerTypeOK ==
  /\ held \subseteq Contract
  /\ buys \subseteq Contract
  /\ partial \subseteq buys
  /\ sells \subseteq Contract
  /\ patient \subseteq sells
  /\ bought \subseteq Contract
  /\ departed \subseteq Contract

(***************************************************************************)
(* The underlyings of a set of contracts, and the contracts the account is *)
(* exposed to: owned, or about to be owned if the order fills.             *)
(***************************************************************************)
UnderlyingsOf(S) == {UnderlyingOf[c] : c \in S}

Exposed == held \cup buys

(***************************************************************************)
(* What the market does with orders.  A limit may rest for ever; a market  *)
(* order fills, sooner or later.                                           *)
(***************************************************************************)
BuyFills(c) ==
  /\ c \in buys
  /\ held' = held \cup {c}
  /\ buys' = buys \ {c}
  /\ partial' = partial \ {c}
  /\ bought' = bought \cup {c}
  /\ UNCHANGED <<sells, patient, departed>>

BuyPartlyFills(c) ==
  /\ c \in buys \ partial
  /\ held' = held \cup {c}
  /\ partial' = partial \cup {c}
  /\ UNCHANGED <<buys, sells, patient, bought, departed>>

SellFills(c) ==
  /\ c \in sells
  /\ held' = held \ {c}
  /\ sells' = sells \ {c}
  /\ patient' = patient \ {c}
  /\ departed' = departed \cup {c}
  /\ UNCHANGED <<buys, partial, bought>>

\* Closed by hand, assigned, expired or liquidated: the agent sent no order.
LeavesUnasked(c) ==
  /\ c \in held
  /\ held' = held \ {c}
  /\ sells' = sells \ {c}
  /\ patient' = patient \ {c}
  /\ departed' = departed \cup {c}
  /\ UNCHANGED <<buys, partial, bought>>

\* Every order is sent with `--time-in-force day`: none survives the night.
\* A partly filled one enters the closed-order history as a buy that filled.
DayOrdersExpire ==
  /\ buys' = {}
  /\ partial' = {}
  /\ sells' = {}
  /\ patient' = {}
  /\ bought' = bought \cup partial
  /\ UNCHANGED <<held, departed>>

(***************************************************************************)
(* What the broker does with a request that reaches it.  A sell order is   *)
(* accepted for a position no resting order has already claimed.           *)
(***************************************************************************)
CanSell(c) == c \in held \ sells

AcceptBuy(c) ==
  /\ buys' = buys \cup {c}
  /\ UNCHANGED <<held, partial, sells, patient, bought, departed>>

AcceptSell(c, asLimit) ==
  /\ sells' = sells \cup {c}
  /\ patient' = IF asLimit THEN patient \cup {c} ELSE patient
  /\ UNCHANGED <<held, buys, partial, bought, departed>>

CancelBuy(c) ==
  /\ buys' = buys \ {c}
  /\ partial' = partial \ {c}
  /\ bought' = bought \cup (partial \cap {c})
  /\ UNCHANGED <<held, sells, patient, departed>>

CancelSell(c) ==
  /\ sells' = sells \ {c}
  /\ patient' = patient \ {c}
  /\ UNCHANGED <<held, buys, partial, bought, departed>>

=============================================================================
