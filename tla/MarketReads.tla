----------------------------- MODULE MarketReads -----------------------------
(***************************************************************************)
(* What the market reader makes of the answers it gets                     *)
(* (src/src/agent/market.py 112-210, 383-432), as far as a pass looks at a *)
(* position with them.  A field of an answer may be missing, or hold       *)
(* nothing that is a number; a call that fails answers with no field.      *)
(***************************************************************************)
EXTENDS Integers

CONSTANT Missing  \* what a field holds that is not there

ToFloat(field, default) == IF field = Missing THEN default ELSE field

\* A position whose mark is missing stands at what was paid for it.
\* (Faulty variant: at nothing, as every other number does.)
PositionAtNothing(held, mark) == [held EXCEPT !.current_price = ToFloat(mark, 0)]

PositionFromPayload(held, mark) ==
  [held EXCEPT !.current_price = ToFloat(mark, held.entry_price)]

\* An answer without either side is no quote, and one side alone is one.
OptionQuote(answer) == [bid |-> ToFloat(answer.bid, 0), ask |-> ToFloat(answer.ask, 0)]

\* Half-way, or the side there is; 0 is no price.
\* (Faulty variant: half-way, whatever is missing.)
StockPriceHalfWay(answer) == (ToFloat(answer.bid, 0) + ToFloat(answer.ask, 0)) \div 2

StockPrice(answer) ==
  LET bid == ToFloat(answer.bid, 0)
      ask == ToFloat(answer.ask, 0)
  IN IF bid > 0 /\ ask > 0 THEN (bid + ask) \div 2
     ELSE IF bid # 0 THEN bid ELSE ask

=============================================================================
