------------------------------ MODULE ExitRules ------------------------------
(***************************************************************************)
(* When a position is closed and what is sent then: `check_exit` and the   *)
(* choice of `_close` (src/src/agent/exits.py 88-281, src/src/agent/loop.py *)
(* 698-787, with the questions positions and rows answer, domain.py        *)
(* 228-275 and journal.py 188-206).                                        *)
(*                                                                         *)
(* Prices are in cents.  A position has its `right`, `strike`, `days` to   *)
(* expiry, `entry_price` and `current_price`; a row its `direction`,       *)
(* `entry_spot`, `peak_premium`, and the levels of the underlying,         *)
(* `stop_spot` and `target_spot`, in hundredths of a cent.  A spot of 0 is *)
(* one that could not be read, and so is a quote of NoQuote.               *)
(***************************************************************************)
EXTENDS Integers, Sequences

CONSTANTS
  StopLoss,       \* settings.stop_loss_pct, in per cent
  RewardToRisk,   \* settings.reward_to_risk
  PremiumTarget,  \* settings.premium_target_backstop_pct, in per cent
  TrailingStop,   \* settings.trailing_stop_pct, in per cent
  TrailingArm,    \* settings.trailing_arm_pct, in per cent
  CloseOut,       \* settings.close_before_expiry, in days
  StopMultiple,   \* settings.stop_atr_multiple
  FallbackStop,   \* settings.fallback_stop_pct, in per cent
  ExitAggression  \* settings.exit_aggression, in per cent of the spread

ASSUME ExitAssumption ==
  /\ {StopLoss, TrailingStop, ExitAggression} \subseteq 0 .. 100
  /\ {RewardToRisk, PremiumTarget, TrailingArm, CloseOut, StopMultiple,
      FallbackStop} \subseteq Nat

NoRow == [direction |-> "none", entry_spot |-> 0, stop_spot |-> 0, target_spot |-> 0,
          peak_premium |-> 0]

NoQuote == [bid |-> 0, ask |-> 0]

TakeProfit == StopLoss * RewardToRisk

-----------------------------------------------------------------------------
(***************************************************************************)
(* What a position and its row say.                                        *)
(***************************************************************************)
\* A position without an entry price has neither lost nor gained.
Lost(p, price, pct) == p.entry_price > 0 /\ price * 100 <= p.entry_price * (100 - pct)

Gained(p, price, pct) == p.entry_price > 0 /\ price * 100 >= p.entry_price * (100 + pct)

\* What exercise alone is worth, as far as the spot is known.
Intrinsic(p, spot) ==
  LET worth == IF p.right = "put" THEN p.strike - spot ELSE spot - p.strike
  IN IF spot > 0 /\ worth > 0 THEN worth ELSE 0

\* A mark below that is a broken quote, not a loss.
MarkForStops(p, spot) ==
  IF Intrinsic(p, spot) > p.current_price THEN Intrinsic(p, spot) ELSE p.current_price

BreachedStop(row, spot) ==
  IF row.direction = "up" THEN spot * 100 <= row.stop_spot ELSE spot * 100 >= row.stop_spot

ReachedTarget(row, spot) ==
  IF row.direction = "up" THEN spot * 100 >= row.target_spot ELSE spot * 100 <= row.target_spot

\* How far the underlying has gone against the thesis, and how far it may go.
Against(row, spot) ==
  IF row.entry_spot <= 0 THEN 0
  ELSE IF row.direction = "up" THEN (row.entry_spot - spot) * 100
  ELSE (spot - row.entry_spot) * 100

ToStop(row) ==
  LET apart == row.stop_spot - row.entry_spot * 100
  IN IF row.entry_spot <= 0 THEN 0 ELSE IF apart < 0 THEN -apart ELSE apart

ThesisIntact(row, spot) == ToStop(row) > 0 /\ 2 * Against(row, spot) < ToStop(row)

-----------------------------------------------------------------------------
(***************************************************************************)
(* The rules, and which of them speaks when several are due.               *)
(***************************************************************************)
\* Whether the underlying can be asked at all.
Keyed(row, spot) == row # NoRow /\ spot > 0

AtFloor(p, spot) == Lost(p, MarkForStops(p, spot), StopLoss)

\* Armed by the peak, not by the mark.
\* (Faulty variant: by the mark.)
TrailedByMark(p, row, spot) ==
  /\ row.peak_premium > 0
  /\ Gained(p, p.current_price, TrailingArm)
  /\ MarkForStops(p, spot) * 100 <= row.peak_premium * (100 - TrailingStop)

Trailed(p, row, spot) ==
  /\ row.peak_premium > 0
  /\ Gained(p, row.peak_premium, TrailingArm)
  /\ MarkForStops(p, spot) * 100 <= row.peak_premium * (100 - TrailingStop)

Due(rule, p, row, spot) ==
  CASE rule = "expiry" -> p.days <= CloseOut
    [] rule = "premium backstop" ->
         AtFloor(p, spot) /\ Keyed(row, spot) /\ ThesisIntact(row, spot)
    [] rule = "premium stop" -> AtFloor(p, spot)
    [] rule = "trailing stop" -> Trailed(p, row, spot)
    [] rule = "thesis stop" -> Keyed(row, spot) /\ BreachedStop(row, spot)
    [] rule = "take profit" ->
         IF Keyed(row, spot) THEN ReachedTarget(row, spot)
         ELSE Gained(p, p.current_price, TakeProfit)
    [] rule = "premium target" ->
         Keyed(row, spot) /\ Gained(p, p.current_price, PremiumTarget)

\* The first that is due speaks.
Precedence ==
  <<"expiry", "premium backstop", "premium stop", "trailing stop", "thesis stop",
    "take profit", "premium target">>

CheckExit(p, row, spot) ==
  LET due == {i \in DOMAIN Precedence : Due(Precedence[i], p, row, spot)}
  IN IF due = {} THEN "hold"
     ELSE Precedence[CHOOSE i \in due : \A j \in due : i <= j]

Urgent == {"premium backstop", "premium stop", "trailing stop", "thesis stop"}

-----------------------------------------------------------------------------
(***************************************************************************)
(* What is sent, if anything: an order at `limit`, or one at market.       *)
(***************************************************************************)
AtMarket == [sent |-> TRUE, market |-> TRUE, limit |-> 0]
AtLimit(price) == [sent |-> TRUE, market |-> FALSE, limit |-> price]
Nothing == [sent |-> FALSE, market |-> FALSE, limit |-> 0]

\* A bid that exercise alone beats is no price to sell at.
BidIsBroken(p, quote, spot) ==
  /\ Intrinsic(p, spot) > 0
  /\ quote.bid < Intrinsic(p, spot)

ProtectiveFloor(p, spot) == Intrinsic(p, spot) - 2

\* Rounded to the cent, halves down.
ExitLimitPrice(quote) ==
  quote.ask - ((quote.ask - quote.bid) * ExitAggression + 50) \div 100

\* (Faulty variant: without a quote nothing is sent.)
CloseWithQuoteOnly(p, rule, quote, spot, stale) ==
  IF BidIsBroken(p, quote, spot) THEN AtLimit(ProtectiveFloor(p, spot))
  ELSE IF stale \/ rule \in Urgent THEN AtMarket
  ELSE IF quote = NoQuote THEN Nothing
  ELSE AtLimit(ExitLimitPrice(quote))

\* (Faulty variant: an exit that did not fill is escalated before the quote is
\* looked at.)
CloseWithEagerly(p, rule, quote, spot, stale) ==
  IF stale THEN AtMarket
  ELSE IF BidIsBroken(p, quote, spot) THEN AtLimit(ProtectiveFloor(p, spot))
  ELSE IF rule \in Urgent \/ quote = NoQuote THEN AtMarket
  ELSE AtLimit(ExitLimitPrice(quote))

CloseWith(p, rule, quote, spot, stale) ==
  IF BidIsBroken(p, quote, spot) THEN AtLimit(ProtectiveFloor(p, spot))
  ELSE IF stale \/ rule \in Urgent \/ quote = NoQuote THEN AtMarket
  ELSE AtLimit(ExitLimitPrice(quote))

-----------------------------------------------------------------------------
(***************************************************************************)
(* The levels a row is opened with.  `band` is the average true range in   *)
(* per cent, 0 where it could not be measured.                             *)
(***************************************************************************)
StopDistance(band) == (IF band > 0 THEN band ELSE FallbackStop) * StopMultiple

StopAndTarget(spot, direction, band) ==
  LET stop == StopDistance(band)
      target == stop * RewardToRisk
  IN IF direction = "up"
     THEN [stop |-> spot * (100 - stop), target |-> spot * (100 + target)]
     ELSE [stop |-> spot * (100 + stop), target |-> spot * (100 - target)]

=============================================================================
