------------------------------ MODULE ExitWatch ------------------------------
(***************************************************************************)
(* One position from the order that opens it to the sale that closes it:   *)
(* the market moves its mark and its underlying, and each pass looks at it *)
(* once, raises the peak in its row, asks the exit rules and sends what    *)
(* they call for (src/src/agent/loop.py 395-436 and 741-787).              *)
(*                                                                         *)
(* TradingPass leaves the verdict of the rules open and has the failures   *)
(* of what is sent; EntryOrder has how the row comes to hold the price     *)
(* that was paid.  Here the rules are those of ExitRules, and what opens a *)
(* position is a contract that ContractRules let through.  What a pass     *)
(* looks at is what MarketReads makes of answers that may lack a mark, a   *)
(* side of a quote, or everything.                                         *)
(***************************************************************************)
EXTENDS ContractRules, ExitRules, MarketReads

CONSTANTS
  Chain,    \* the contracts on offer
  Strikes,  \* the strikes they may have
  Marks,    \* what the broker may mark a position at
  Spots,    \* where the underlying may stand
  Closes,   \* the daily closes that levels may be measured from
  Half,     \* how far each side of the underlying's quote is from where it stands
  Days,     \* the days to expiry that are told apart
  Bands,    \* average true ranges, 0 where there is none
  Answers   \* what may be answered when the contract's quote is asked for

ASSUME WatchAssumption ==
  /\ CloseOut = CloseBeforeExpiry
  /\ \A c \in Chain : c.right \in Rights /\ c.days \in Nat
                        /\ c.bid \in Nat \ {0} /\ c.ask \in Nat
  /\ Strikes \subseteq Nat /\ Days \subseteq Nat /\ Bands \subseteq Nat
  /\ Marks \subseteq Nat /\ Spots \subseteq Nat \ {0} /\ Closes \subseteq Nat \ {0}
  /\ Half \in Nat /\ \A s \in Spots : s > Half
  /\ \A q \in Answers : {q.bid, q.ask} \subseteq Nat \cup {Missing}

VARIABLES
  position,  \* the position, or Flat
  row,       \* its row, or NoRow
  spot,      \* where the underlying stands
  resting,   \* an exit order rests at the broker
  look,      \* the last pass: what it read, decided and sent
  best,      \* history: the highest mark a pass has seen the position at
  unmoved    \* history: the market has not moved since the levels were measured

vars == <<position, row, spot, resting, look, best, unmoved>>

Flat == [right |-> "none", strike |-> 0, days |-> 0, entry_price |-> 0, current_price |-> 0]

NoLook ==
  [rule |-> "none", mark |-> 0, spot |-> 0, quote |-> NoQuote, order |-> Nothing]

Held == position # Flat
Looked == look # NoLook

Verdicts == Urgent \cup {"hold", "expiry", "take profit", "premium target"}

Positions ==
  [right : Rights \cup {"none"}, strike : Nat, days : Nat,
   entry_price : Nat, current_price : Nat]
Rows ==
  [direction : {"up", "down", "none"}, entry_spot : Nat, stop_spot : Int,
   target_spot : Int, peak_premium : Nat]
Orders == [sent : BOOLEAN, market : BOOLEAN, limit : Int]
Quotes == {OptionQuote(answer) : answer \in Answers} \cup {NoQuote}
Looks ==
  [rule : Verdicts \cup {"none"}, mark : Nat, spot : Nat, quote : Quotes, order : Orders]

TypeOK ==
  /\ position \in Positions
  /\ Held => position.right \in Rights /\ position.entry_price > 0
  /\ row \in Rows
  /\ row # NoRow => row.direction # "none" /\ row.entry_spot > 0 /\ row.peak_premium > 0
  /\ spot \in Spots
  /\ resting \in BOOLEAN /\ unmoved \in BOOLEAN
  /\ look \in Looks
  /\ Looked => look.order.sent = (look.rule # "hold")
  /\ best \in Nat

Init ==
  /\ position = Flat /\ row = NoRow /\ spot \in Spots /\ resting = FALSE
  /\ look = NoLook /\ best = 0 /\ unmoved = FALSE

-----------------------------------------------------------------------------
(***************************************************************************)
(* How a position comes to be: bought by the agent, at its limit or below, *)
(* or there before it.                                                     *)
(***************************************************************************)
DirectionOf(right) == IF right = "call" THEN "up" ELSE "down"

\* The levels are measured from the last daily close of the brief, wherever the
\* underlying stands by now.
OpenHolding(c, close, band) ==
  LET levels == StopAndTarget(close, DirectionOf(c.right), band)
  IN [direction |-> DirectionOf(c.right), entry_spot |-> close, stop_spot |-> levels.stop,
      target_spot |-> levels.target, peak_premium |-> LimitPrice(c)]

PositionIn(c, strike, paid, mark) ==
  [right |-> c.right, strike |-> strike, days |-> c.days, entry_price |-> paid,
   current_price |-> mark]

\* The row has been corrected to what was paid by the time a pass looks.
Opened(c, strike, close, band, paid, mark) ==
  /\ ~Held
  /\ RightContract(c)
  /\ paid <= LimitPrice(c)
  /\ position' = PositionIn(c, strike, paid, mark)
  /\ row' = [OpenHolding(c, close, band) EXCEPT !.peak_premium = paid]
  /\ unmoved' = (close = spot)
  /\ UNCHANGED <<spot, resting, look, best>>

NotOurs(c, strike, paid, mark) ==
  /\ ~Held
  /\ position' = PositionIn(c, strike, paid, mark)
  /\ UNCHANGED <<row, spot, resting, look, best, unmoved>>

-----------------------------------------------------------------------------
(***************************************************************************)
(* A pass looks at the position.                                           *)
(***************************************************************************)
\* (Faulty variant: the peak stays what was paid.)
KeepPeak(r, mark) == r

RaisePeak(r, mark) ==
  IF r # NoRow /\ mark > r.peak_premium THEN [r EXCEPT !.peak_premium = mark] ELSE r

\* The contract is only quoted when there is something to sell.
Look(mark, stock, answer) ==
  LET held == PositionFromPayload(position, mark)
      marked == RaisePeak(row, held.current_price)
      seen == StockPrice(stock)
      rule == CheckExit(held, marked, seen)
      quote == IF rule = "hold" THEN NoQuote ELSE OptionQuote(answer)
      order == IF rule = "hold" THEN Nothing
               ELSE CloseWith(held, rule, quote, seen, resting)
  IN /\ Held /\ ~Looked
     /\ row' = marked
     /\ best' = IF held.current_price > best THEN held.current_price ELSE best
     /\ look' = [rule |-> rule, mark |-> held.current_price, spot |-> seen, quote |-> quote,
                 order |-> order]
     /\ resting' = (resting \/ order.sent)
     /\ UNCHANGED <<position, spot, unmoved>>

\* Of the underlying, both sides are quoted, one, or none.
StockQuotes == [bid : {spot - Half, Missing}, ask : {spot + Half, Missing}]

PassEnds ==
  /\ Looked
  /\ look' = NoLook
  /\ UNCHANGED <<position, row, spot, resting, best, unmoved>>

-----------------------------------------------------------------------------
(***************************************************************************)
(* The market.                                                             *)
(***************************************************************************)
MarketMoves(mark, to, days) ==
  /\ Held /\ ~Looked
  /\ days <= position.days
  /\ position' = [position EXCEPT !.current_price = mark, !.days = days]
  /\ spot' = to
  /\ unmoved' = FALSE
  /\ UNCHANGED <<row, resting, look, best>>

ExitFills ==
  /\ resting /\ ~Looked
  /\ position' = Flat /\ row' = NoRow /\ resting' = FALSE
  /\ best' = 0 /\ unmoved' = FALSE
  /\ UNCHANGED <<spot, look>>

ExitExpires ==
  /\ resting /\ ~Looked
  /\ resting' = FALSE
  /\ UNCHANGED <<position, row, spot, look, best, unmoved>>

Next ==
  \/ \E c \in Chain, strike \in Strikes :
       \E paid \in c.bid .. c.ask, mark \in c.bid .. c.ask :
         \/ \E close \in Closes, band \in Bands : Opened(c, strike, close, band, paid, mark)
         \/ NotOurs(c, strike, paid, mark)
  \/ \E mark \in {position.current_price, Missing}, stock \in StockQuotes, answer \in Answers :
       Look(mark, stock, answer)
  \/ PassEnds
  \/ \E mark \in Marks, to \in Spots, days \in Days : MarketMoves(mark, to, days)
  \/ ExitFills
  \/ ExitExpires

Spec == Init /\ [][Next]_vars

-----------------------------------------------------------------------------
(***************************************************************************)
(* What must hold of every look.                                           *)
(***************************************************************************)
\* What the position is worth, as far as the pass could see.
Honest ==
  IF Intrinsic(position, look.spot) > look.mark
  THEN Intrinsic(position, look.spot) ELSE look.mark

\* A position that a pass leaves alone has not lost what was budgeted for it,
\* nor given back a TrailingStop of the highest mark any pass has seen, once
\* that was a TrailingArm ahead, however long ago (exits.py 123-131, 195-240,
\* loop.py 404-420).
WhatIsKeptHasNotFallen ==
  Looked /\ look.rule = "hold" =>
    /\ Honest * 100 > position.entry_price * (100 - StopLoss)
    /\ row # NoRow /\ best * 100 >= position.entry_price * (100 + TrailingArm) =>
         Honest * 100 > best * (100 - TrailingStop)

\* Whatever the reason to close, and whatever has rested unfilled, nothing is
\* handed over for less than exercise would bring, but for the slack of two
\* cents: a market order goes out only against a bid that is not broken (loop.py
\* 698-724, 763-787).
NeverSoldBelowExercise ==
  look.order.sent =>
    IF look.order.market
    THEN Intrinsic(position, look.spot) = 0 \/ look.quote.bid >= Intrinsic(position, look.spot)
    ELSE look.order.limit >= Intrinsic(position, look.spot) - 2

\* What the gates let in, the exit rules do not put out again before the market
\* has moved from where the levels were measured (gates.py 392-418: that "is
\* incoherent"), whichever mark or side of a quote is missing (market.py 190-191,
\* 428-432).
NewPositionsAreKept == Looked /\ unmoved => look.rule = "hold"

\* A stop that is due stays due, and urgent, at any worse price: no rule gives
\* way to another because the position has fallen further (exits.py 223-231).
WorsePricesSellToo ==
  look.rule \in Urgent =>
    \A mark \in Marks : mark < look.mark =>
      CheckExit([position EXCEPT !.current_price = mark], row, look.spot) \in Urgent

(***************************************************************************)
(* Why: what a look decided stands until the look is over, the peak is     *)
(* never below a mark that a pass has seen, and while the market has not   *)
(* moved every price is one inside the quote that the gates let through.   *)
(***************************************************************************)
Seen == [position EXCEPT !.current_price = look.mark]

LookInv ==
  Looked =>
    /\ look.rule = CheckExit(Seen, row, look.spot)
    /\ look.rule # "hold" =>
         \E stale \in BOOLEAN :
           look.order = CloseWith(Seen, look.rule, look.quote, look.spot, stale)

PeakInv == row # NoRow => best <= row.peak_premium

FlatInv == ~Held => row = NoRow /\ best = 0 /\ ~resting /\ ~Looked /\ ~unmoved

\* Sides of its quote that are missing move the price that is read of the
\* underlying by half its spread, or leave none.
NearSpot == {0, spot - Half, spot, spot + Half}

FreshFrom(c, band) ==
  LET levels == StopAndTarget(spot, row.direction, band)
  IN /\ RightContract(c) /\ position.days = c.days
     /\ {position.entry_price, position.current_price, row.peak_premium} \subseteq c.bid .. c.ask
     /\ row.stop_spot = levels.stop /\ row.target_spot = levels.target
     /\ Looked => look.mark \in c.bid .. c.ask /\ look.spot \in NearSpot

FreshInv == unmoved => \E c \in Chain, band \in Bands : FreshFrom(c, band)

IInv == TypeOK /\ LookInv /\ PeakInv /\ FlatInv /\ FreshInv

(***************************************************************************)
(* What NewPositionsAreKept asks of the settings, which nothing in the     *)
(* code compares with each other: the widest quote that `MaxSpread` lets   *)
(* in is narrower than the way to each level of the premium, and half the  *)
(* spread of the underlying is less than the way to its stop and target.   *)
(***************************************************************************)
Above(pct) == (200 + MaxSpread) * 100 < (200 - MaxSpread) * (100 + pct)
Below(pct) == (200 + MaxSpread) * (100 - pct) < (200 - MaxSpread) * 100

SettingsLeaveRoom ==
  /\ Below(StopLoss)
  /\ Below(TrailingStop) \/ Above(TrailingArm)
  /\ Above(TakeProfit) /\ Above(PremiumTarget)
  /\ \A at \in Spots, band \in Bands :
       100 * Half < at * StopDistance(band) /\ 100 * Half < at * StopDistance(band) * RewardToRisk

=============================================================================
