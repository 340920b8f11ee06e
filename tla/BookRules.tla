------------------------------ MODULE BookRules ------------------------------
(***************************************************************************)
(* How a new trade must fit the book: the gates that look at the account,  *)
(* and what they leave of an order (src/src/agent/gates.py 80-120,         *)
(* 174-232, 257-277, 419-445, 508-573 and 629-686).  The gates that look   *)
(* at the contract alone are ContractRules; kill switch, clock and         *)
(* cooldown are in TradingPass.                                            *)
(*                                                                         *)
(* A context is the snapshot the gates judge by: the account's `equity`    *)
(* and `buying_power`, the `positions`, and the names on which an order is *)
(* `pending`.  Prices are in cents and money is in dollars, so a contract  *)
(* on 100 shares costs its price.  What a gate lets through of an order is *)
(* a quantity: the order's own (allow), less (shrink), or 0 (deny).        *)
(***************************************************************************)
EXTENDS Integers, FiniteSetsExt

CONSTANTS
  Symbols,           \* settings.symbols
  Group,             \* settings.correlation_groups, Ungrouped for the rest
  Ungrouped,
  MaxPositions,      \* settings.max_positions
  MaxPerGroup,       \* settings.max_per_group
  MaxSameDirection,  \* settings.max_same_direction
  RiskPerTrade,      \* settings.risk_per_trade, in per cent of equity
  MaxContracts       \* settings.max_contracts

ASSUME BookAssumption ==
  /\ IsFiniteSet(Symbols) /\ DOMAIN Group = Symbols
  /\ {MaxPositions, MaxPerGroup, MaxSameDirection, MaxContracts} \subseteq Nat
  /\ RiskPerTrade \in 0 .. 100

-----------------------------------------------------------------------------
(***************************************************************************)
(* The screen: may this name be considered at all.                         *)
(***************************************************************************)
\* The positions a gate counts with those of a name.
InGroupOf(underlying, positions) ==
  {p \in positions : Group[p.underlying] = Group[underlying]}

Pointing(right, positions) == {p \in positions : p.right = right}

Holds(ctx, underlying) == \E p \in ctx.positions : p.underlying = underlying

PositionSlots(ctx) ==
  Cardinality(ctx.positions) + Cardinality(ctx.pending) < MaxPositions

\* (Faulty variant: one too many.)
SectorOverrun(underlying, ctx) ==
  \/ Group[underlying] = Ungrouped
  \/ Cardinality(InGroupOf(underlying, ctx.positions)) <= MaxPerGroup

SectorConcentration(underlying, ctx) ==
  \/ Group[underlying] = Ungrouped
  \/ Cardinality(InGroupOf(underlying, ctx.positions)) < MaxPerGroup

NotAlreadyHeld(underlying, ctx) == ~Holds(ctx, underlying) /\ underlying \notin ctx.pending

Screen(underlying, ctx) ==
  /\ PositionSlots(ctx)
  /\ SectorConcentration(underlying, ctx)
  /\ NotAlreadyHeld(underlying, ctx)

-----------------------------------------------------------------------------
(***************************************************************************)
(* The size: what is left of an order.                                     *)
(***************************************************************************)
DirectionalBalance(draft, ctx) ==
  Cardinality(Pointing(draft.right, ctx.positions)) < MaxSameDirection

Affordable(money, price) == IF price <= 0 \/ money < price THEN 0 ELSE money \div price

Committed(ctx) == MapThenSumSet(LAMBDA p : p.quantity * p.price, ctx.positions)

Available(ctx) == Max({0, Min({ctx.buying_power, ctx.equity})})

RiskBudget(draft, ctx) ==
  Min({draft.quantity, MaxContracts,
       Affordable((ctx.equity * RiskPerTrade) \div 100, draft.limit)})

\* (Faulty variant: what the open book has cost is not taken off.)
BuyingPowerGross(draft, ctx) ==
  Min({draft.quantity, Affordable(Available(ctx), draft.limit)})

BuyingPower(draft, ctx) ==
  Min({draft.quantity, Affordable(Available(ctx) - Committed(ctx), draft.limit)})

\* The chain: cash is asked of the order as the budget has trimmed it.
Authorise(draft, ctx) ==
  IF DirectionalBalance(draft, ctx)
  THEN BuyingPower([draft EXCEPT !.quantity = RiskBudget(draft, ctx)], ctx)
  ELSE 0

\* What the walk goes on with once an order is in.  The position it adds names
\* no right, and a position that names none is a call.
\* (Faulty variants: it goes on with what it started from, or with nothing else.)
WithoutNewPosition(ctx, draft) == ctx

WithOnlyNewPosition(ctx, draft) ==
  [ctx EXCEPT !.positions =
     {[underlying |-> draft.underlying, right |-> "call",
       quantity |-> draft.quantity, price |-> draft.limit]}]

WithNewPosition(ctx, draft) ==
  [ctx EXCEPT !.positions =
     @ \cup {[underlying |-> draft.underlying, right |-> "call",
              quantity |-> draft.quantity, price |-> draft.limit]}]

=============================================================================
