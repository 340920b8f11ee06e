----------------------------- MODULE EntryOrder -----------------------------
(***************************************************************************)
(* One trade in quantities, prices and minutes: the entry order, the       *)
(* position it turns into, and the row that remembers what it was approved *)
(* at, what it cost and how high it has been.                              *)
(*                                                                         *)
(* TradingPass leaves open whether a resting entry is re-priced or given   *)
(* up on; this module is that decision (src/src/agent/loop.py 922-1066)    *)
(* and the levels it reads (src/src/agent/journal.py 310-389).  Passes     *)
(* come one after another; between two reads of a pass the order may fill, *)
(* in part or whole.  Beside them passes may overlap that were started by  *)
(* hand: the levels of the row are written so that they may.  Prices are   *)
(* whole cents, and time is counted in ticks, the interval of the full     *)
(* passes.                                                                 *)
(*                                                                         *)
(*   idle (levels) -> refresh -> quote -> reprice -> resubmit -> done      *)
(*                           \-> abandon ----------------------->          *)
(*   done -> idle,  or  done -> hold -> idle  with a new trade             *)
(***************************************************************************)
EXTENDS Integers

CONSTANTS
  MaxContracts,  \* settings.max_contracts
  MaxPrice,      \* bound: the highest price, in cents
  Aggression,    \* settings.entry_aggression, in per cent of the spread
  MaxChase,      \* settings.entry_reprice_max_chase_pct, in per cent
  RepriceAfter,  \* settings.entry_reprice_after_minutes, in ticks
  MaxAge,        \* settings.entry_order_max_age_minutes, in ticks
  Mishaps,       \* what may go wrong, see Mishap
  MaxMishaps,    \* bound: how often something may go wrong in a behaviour
  Overlapping,   \* passes that may run beside the schedule
  MaxTicks       \* bound: ages beyond it are not told apart

ASSUME EntryAssumption ==
  /\ MaxContracts \in Nat /\ MaxPrice \in Nat
  /\ Aggression \in 0 .. 100 /\ MaxChase \in Nat
  /\ RepriceAfter \in Nat /\ MaxAge \in Nat
  /\ MaxMishaps \in Nat /\ MaxTicks \in Nat

VARIABLES
  order,     \* the resting buy order, with what has filled of it
  position,  \* the position: how many, at which average price
  row,       \* the holdings row
  sold,      \* the agent's exit has filled and is not booked yet
  pc,        \* where the running pass is
  seen,      \* its snapshot of the order, and then the order it will send
  halted,    \* TRADING_HALTED as the pass read it
  ran,       \* a full pass has come by in this tick
  mishaps,   \* how often something has gone wrong
  overlap,   \* what an overlapping pass has read, and how far it is with the row
  approved,  \* history: what the gates approved
  since,     \* history: ticks since the gates approved it
  high       \* history: the highest mark a pass has applied to this row

historyVars == <<approved, since, high>>
vars == <<order, position, row, sold, pc, seen, halted, ran, mishaps, overlap, historyVars>>

Price == 1 .. MaxPrice
Age == 0 .. MaxTicks
Quantity == 0 .. MaxContracts

NoOrder == [qty |-> 0, filled |-> 0, limit |-> 0, age |-> 0]
Flat == [qty |-> 0, entry_price |-> 0]
NoRow == [entry_premium |-> 0, peak_premium |-> 0]

NoCopy == [at |-> "none", fill |-> 0, row |-> NoRow]

Orders == [qty : Quantity, filled : Quantity, limit : 0 .. MaxPrice, age : Age]
Rows == [entry_premium : 0 .. MaxPrice, peak_premium : 0 .. MaxPrice]

Copies == [at : {"none", "book", "row", "corrected"},
           fill : 0 .. MaxPrice, row : Rows]

Resting == order.qty > 0
Left(o) == o.qty - o.filled

Places == {"idle", "refresh", "quote", "abandon", "reprice", "resubmit", "done", "hold"}

TypeOK ==
  /\ order \in Orders /\ seen \in Orders
  /\ order.filled <= order.qty
  /\ position \in [qty : Nat, entry_price : 0 .. MaxPrice]
  /\ row \in Rows
  /\ sold \in BOOLEAN /\ halted \in BOOLEAN /\ ran \in BOOLEAN
  /\ pc \in Places
  /\ mishaps \in 0 .. MaxMishaps
  /\ overlap \in [Overlapping -> Copies]
  /\ approved \in [qty : Quantity, limit : 0 .. MaxPrice]
  /\ since \in Age
  /\ high \in 0 .. MaxPrice

At(place) == pc = place

\* "read" a read fails, "reject" the broker refuses the order, "lost" its
\* answer never arrives, "cancel" a cancel is not carried out, "crash" the
\* process dies, "unrecorded" it dies between an order and its row, "part" a
\* part of the order fills between the pass's look at it and its cancel,
\* "part_sold" what has filled is sold while the rest still rests, "overlap" a
\* pass starts beside the one the schedule may be running.
Mishap(kind) ==
  /\ kind \in Mishaps
  /\ mishaps < MaxMishaps
  /\ mishaps' = mishaps + 1

Fine == UNCHANGED mishaps

Init ==
  /\ order = NoOrder /\ position = Flat /\ row = NoRow /\ sold = FALSE
  /\ pc = "idle" /\ seen = NoOrder /\ halted = FALSE /\ ran = FALSE
  /\ mishaps = 0 /\ overlap = [p \in Overlapping |-> NoCopy]
  /\ approved = [qty |-> 0, limit |-> 0] /\ since = 0 /\ high = 0

-----------------------------------------------------------------------------
(***************************************************************************)
(* The row: what it is opened with, corrected to, and raised to.           *)
(***************************************************************************)
OpenedRow(limit) == [entry_premium |-> limit, peak_premium |-> limit]

\* `UPDATE`s of the row as it stands, whatever the pass has read of it.
\* (Faulty variant: the comparison is made in Python only.)
WrittenRow(r, mark) == [r EXCEPT !.peak_premium = mark]

RaisedRow(r, mark) ==
  IF mark > r.peak_premium THEN [r EXCEPT !.peak_premium = mark] ELSE r

\* The peak follows the fill while it is still what the row was opened with.
\* (Faulty variant: it stays.)
CorrectedPremiumOnly(r, fill) == [r EXCEPT !.entry_premium = fill]

CorrectedRow(r, fill) ==
  [entry_premium |-> fill,
   peak_premium |-> IF r.peak_premium \in 1 .. r.entry_premium THEN fill ELSE r.peak_premium]

\* Each is made only if what the pass has read calls for it.
RaisePeak(r, mark) == IF mark > r.peak_premium THEN RaisedRow(r, mark) ELSE r

CorrectEntryPremium(r, fill) == IF r.entry_premium = fill THEN r ELSE CorrectedRow(r, fill)

LevelsOf(r, fill, mark) == RaisePeak(CorrectEntryPremium(r, fill), mark)

(***************************************************************************)
(* The rules of re-pricing.                                                *)
(***************************************************************************)
\* (Faulty variant: per cent taken for a fraction.)
LimitFromQuoteUnscaled(bid, ask) == bid + (ask - bid) * Aggression

LimitFromQuote(bid, ask) == bid + ((ask - bid) * Aggression + 50) \div 100

\* What the trade was authorised at, for the ceiling.
\* (Faulty variant: the last price it rested at.)
AnchorOfLastPrice(o) == o.limit

Anchor(o) == IF row.entry_premium > 0 THEN row.entry_premium ELSE o.limit

WithinChase(price, anchor) == price * 100 <= anchor * (100 + MaxChase)

\* Still wholly unfilled, and old enough to be looked at.
Stale(o) == o.qty > 0 /\ o.filled = 0 /\ o.age >= RepriceAfter

TooOld(o) == o.age >= MaxAge

\* (Faulty variant: nothing is done about an order while halted.)
HopelessUnlessHalted(o) == Stale(o) /\ TooOld(o) /\ ~halted

Hopeless(o) == Stale(o) /\ TooOld(o)

\* (Faulty variant: an unmoved quote is re-priced to as well.)
HasNotFallen(fresh, o) == fresh >= o.limit

HasMoved(fresh, o) == fresh > o.limit

-----------------------------------------------------------------------------
(***************************************************************************)
(* The top of a pass: sales and strays are cleared, and the row of an open *)
(* position is corrected to its price and marked.                          *)
(***************************************************************************)
RowCleared == position.qty = 0 /\ (sold \/ ~Resting)

Levels(exits_only) ==
  /\ At("idle")
  /\ exits_only \/ ~ran
  /\ pc' = IF exits_only THEN "idle" ELSE "refresh"
  /\ sold' = (sold /\ position.qty > 0)
  /\ IF position.qty > 0 /\ row # NoRow
     THEN \E mark \in Price :
            /\ row' = LevelsOf(row, position.entry_price, mark)
            /\ high' = IF mark > high THEN mark ELSE high
     ELSE /\ row' = IF RowCleared THEN NoRow ELSE row
          /\ high' = high
  /\ halted' \in IF exits_only THEN {FALSE} ELSE BOOLEAN
  /\ Fine
  /\ UNCHANGED <<order, position, seen, ran, overlap, approved, since>>

(***************************************************************************)
(* `_refresh_resting_entries`.                                             *)
(***************************************************************************)
ReadRestingEntries ==
  /\ At("refresh")
  /\ seen' = order
  /\ pc' = IF Hopeless(order) THEN "abandon"
           ELSE IF Stale(order) /\ ~TooOld(order) /\ ~halted THEN "quote"
           ELSE "done"
  /\ Fine
  /\ UNCHANGED <<order, position, row, sold, halted, ran, overlap, historyVars>>

EntriesUnread ==
  /\ At("refresh")
  /\ pc' = "done"
  /\ Mishap("read")
  /\ UNCHANGED <<order, position, row, sold, seen, halted, ran, overlap, historyVars>>

\* From here `seen` holds the price the order is to be sent again at.
QuoteMoved(bid, ask) ==
  LET fresh == LimitFromQuote(bid, ask) IN
  /\ At("quote")
  /\ HasMoved(fresh, seen)
  /\ pc' = IF WithinChase(fresh, Anchor(seen)) THEN "reprice" ELSE "abandon"
  /\ seen' = [seen EXCEPT !.limit = fresh]
  /\ Fine
  /\ UNCHANGED <<order, position, row, sold, halted, ran, overlap, historyVars>>

\* No quote, a broken one, or one that has not gone up.
QuoteOfNoUse ==
  /\ At("quote")
  /\ pc' = "done"
  /\ Fine
  /\ UNCHANGED <<order, position, row, sold, seen, halted, ran, overlap, historyVars>>

Abandoned ==
  /\ At("abandon")
  /\ Resting
  /\ order' = NoOrder
  /\ pc' = "done"
  /\ Fine
  /\ UNCHANGED <<position, row, sold, seen, halted, ran, overlap, historyVars>>

RepriceCancels ==
  /\ At("reprice")
  /\ Resting
  /\ order' = NoOrder
  /\ pc' = "resubmit"
  /\ Fine
  /\ UNCHANGED <<position, row, sold, seen, halted, ran, overlap, historyVars>>

\* (Faulty variant: the order is sent again all the same.)
ResubmitsWhenCancelFails ==
  /\ pc \in {"abandon", "reprice"}
  /\ IF Resting THEN Mishap("cancel") ELSE Fine
  /\ pc' = IF pc = "abandon" THEN "done" ELSE "resubmit"
  /\ UNCHANGED <<order, position, row, sold, seen, halted, ran, overlap, historyVars>>

\* It has filled meanwhile, or the request fails: nothing is sent.
CancelFails ==
  /\ pc \in {"abandon", "reprice"}
  /\ IF Resting THEN Mishap("cancel") ELSE Fine
  /\ pc' = "done"
  /\ UNCHANGED <<order, position, row, sold, seen, halted, ran, overlap, historyVars>>

\* Symbol, side and quantity of the snapshot; a new order, of a new age.
SentAgain == [qty |-> seen.qty, filled |-> 0, limit |-> seen.limit, age |-> 0]

Resubmitted ==
  /\ At("resubmit")
  /\ order' = SentAgain
  /\ pc' = "done"
  /\ Fine
  /\ UNCHANGED <<position, row, sold, seen, halted, ran, overlap, historyVars>>

\* An ExecutionError here ends the process, whether the order arrived or not.
ResubmitFails ==
  /\ At("resubmit")
  /\ \/ Mishap("reject") /\ order' = order
     \/ Mishap("lost") /\ order' = SentAgain
  /\ pc' = "idle"
  /\ ran' = TRUE
  /\ seen' = NoOrder
  /\ halted' = FALSE
  /\ UNCHANGED <<position, row, sold, overlap, historyVars>>

(***************************************************************************)
(* The rest of the pass: it may open a new trade, and write down its row.  *)
(***************************************************************************)
Finish ==
  /\ At("done")
  /\ pc' = "idle"
  /\ ran' = TRUE
  /\ seen' = NoOrder
  /\ halted' = FALSE
  /\ Fine
  /\ UNCHANGED <<order, position, row, sold, overlap, historyVars>>

\* What overlapped the trade before is over by now: that trade's cooldown keeps
\* the name for a session at least.
BuyToOpen(quantity, limit) ==
  /\ At("done")
  /\ ~halted
  /\ ~Resting
  /\ position = Flat
  /\ ~sold
  /\ \A p \in Overlapping : overlap[p] = NoCopy
  /\ order' = [qty |-> quantity, filled |-> 0, limit |-> limit, age |-> 0]
  /\ approved' = [qty |-> quantity, limit |-> limit]
  /\ since' = 0
  /\ pc' = "hold"
  /\ Fine
  /\ UNCHANGED <<position, row, sold, seen, halted, ran, overlap, high>>

OpenHolding ==
  /\ At("hold")
  /\ row' = OpenedRow(approved.limit)
  /\ high' = 0
  /\ pc' = "done"
  /\ Fine
  /\ UNCHANGED <<order, position, sold, seen, halted, ran, overlap, approved, since>>

Crash ==
  /\ ~At("idle")
  /\ Mishap(IF pc = "hold" THEN "unrecorded" ELSE "crash")
  /\ pc' = "idle"
  /\ ran' = TRUE
  /\ seen' = NoOrder
  /\ halted' = FALSE
  /\ UNCHANGED <<order, position, row, sold, overlap, historyVars>>

(***************************************************************************)
(* A pass that overlaps: it reads the book and then the row, corrects and  *)
(* marks it as `Levels` does, but with whole passes, fills and other       *)
(* passes like it in between.  (What else it does is not repeated here.)   *)
(***************************************************************************)
passVars == <<order, position, sold, pc, seen, halted, ran>>

Overlap(p, from, copy) ==
  /\ overlap[p].at = from
  /\ overlap' = [overlap EXCEPT ![p] = copy]
  /\ UNCHANGED <<passVars, approved, since>>

OverlapReadsBook(p) ==
  /\ position.qty > 0
  /\ Overlap(p, "none", [NoCopy EXCEPT !.at = "book", !.fill = position.entry_price])
  /\ Mishap("overlap")
  /\ UNCHANGED <<row, high>>

OverlapReadsRow(p) ==
  /\ Overlap(p, "book",
             IF row = NoRow THEN NoCopy ELSE [overlap[p] EXCEPT !.at = "row", !.row = row])
  /\ Fine
  /\ UNCHANGED <<row, high>>

OverlapCorrects(p) ==
  LET copy == overlap[p] IN
  /\ Overlap(p, "row",
             [copy EXCEPT !.at = "corrected", !.row = CorrectEntryPremium(@, copy.fill)])
  /\ row' = IF row = NoRow \/ copy.row.entry_premium = copy.fill THEN row
            ELSE CorrectedRow(row, copy.fill)
  /\ Fine
  /\ UNCHANGED high

\* The mark was read with the book, and is not looked at before.  A row that is
\* gone is not written.
OverlapRaises(p, mark) ==
  LET copy == overlap[p] IN
  /\ Overlap(p, "corrected", NoCopy)
  /\ IF row # NoRow /\ mark > copy.row.peak_premium
     THEN /\ row' = RaisedRow(row, mark)
          /\ high' = IF mark > high THEN mark ELSE high
     ELSE UNCHANGED <<row, high>>
  /\ Fine

(***************************************************************************)
(* The market.                                                             *)
(***************************************************************************)
AveragePrice(n, price) ==
  (position.qty * position.entry_price + n * price) \div (position.qty + n)

Fills(n, price) ==
  /\ n \in 1 .. Left(order)
  /\ price <= order.limit
  /\ position' = [qty |-> position.qty + n, entry_price |-> AveragePrice(n, price)]
  /\ order' = IF n = Left(order) THEN NoOrder ELSE [order EXCEPT !.filled = @ + n]
  /\ IF pc \in {"quote", "reprice"} /\ n < Left(order) THEN Mishap("part") ELSE Fine
  /\ UNCHANGED <<row, sold, pc, seen, halted, ran, overlap, historyVars>>

\* The exit of the trade, as TradingPass has it.
PositionSold ==
  /\ position.qty > 0
  /\ position' = Flat
  /\ sold' = TRUE
  /\ IF Resting THEN Mishap("part_sold") ELSE Fine
  /\ UNCHANGED <<order, row, pc, seen, halted, ran, overlap, historyVars>>

DayOrderExpires ==
  /\ At("idle")
  /\ Resting
  /\ order' = NoOrder
  /\ Fine
  /\ UNCHANGED <<position, row, sold, pc, seen, halted, ran, overlap, historyVars>>

OneTickOlder(n) == IF n < MaxTicks THEN n + 1 ELSE n

Tick ==
  /\ At("idle")
  /\ ran
  /\ ran' = FALSE
  /\ since' = OneTickOlder(since)
  /\ order' = IF Resting THEN [order EXCEPT !.age = OneTickOlder(@)] ELSE order
  /\ Fine
  /\ UNCHANGED <<position, row, sold, pc, seen, halted, overlap, approved, high>>

-----------------------------------------------------------------------------
RefreshStep ==
  \/ ReadRestingEntries \/ EntriesUnread
  \/ \E bid, ask \in Price : bid <= ask /\ QuoteMoved(bid, ask)
  \/ QuoteOfNoUse
  \/ Abandoned \/ RepriceCancels \/ CancelFails
  \/ Resubmitted \/ ResubmitFails

Opens == \E quantity \in 1 .. MaxContracts, limit \in Price : BuyToOpen(quantity, limit)

PassStep == RefreshStep \/ OpenHolding \/ Finish

Market ==
  \/ \E n \in 1 .. MaxContracts, price \in Price : Fills(n, price)
  \/ PositionSold
  \/ DayOrderExpires
  \/ Tick

OverlappingStep ==
  \E p \in Overlapping :
    \/ OverlapReadsBook(p) \/ OverlapReadsRow(p) \/ OverlapCorrects(p)
    \/ \E mark \in Price : OverlapRaises(p, mark)

Next ==
  \/ Levels(FALSE) \/ Levels(TRUE)
  \/ PassStep
  \/ Opens
  \/ Crash
  \/ OverlappingStep
  \/ Market

Spec == Init /\ [][Next]_vars

\* Full passes go on being started and go on, and time goes by.
Fairness ==
  /\ WF_vars(Levels(FALSE))
  /\ WF_vars(PassStep)
  /\ WF_vars(Tick)

FairSpec == Spec /\ Fairness


-----------------------------------------------------------------------------
(***************************************************************************)
(* What must hold of every trade.                                          *)
(***************************************************************************)
\* What is owned and what may still fill never exceed the size the gates
\* approved, however often the order was cancelled and sent again (executor.py
\* 324-343, loop.py 990-994).
SizeStaysApproved == position.qty + Left(order) <= approved.qty

\* The chase is a total over all re-prices, measured from the price the gates
\* approved, not an allowance for each of them (loop.py 1019-1023).
ChaseIsATotal == Resting => WithinChase(order.limit, approved.limit)

\* A new order is as young as it claims, so the age limit alone bounds nothing;
\* but each re-price costs a cent of the chase, and so MaxAge more ticks of
\* life cost at least a cent (loop.py 996-1005, 1038-1054).
LifeIsBought ==
  Resting => since <= (order.limit - approved.limit) * MaxAge + order.age

\* Once the row holds what was paid, its peak is no phantom: the trade has cost
\* that much or been marked that high, the limit of an order nothing was bought
\* at being neither.  And a high that no part of the trade can have cost is
\* never walked back, whatever fills later and whatever another pass has read
\* before (journal.py 333-336 and 351-381, loop.py 404-420).
PeakIsReal ==
  /\ pc # "hold"
  /\ row # NoRow /\ position.qty > 0 /\ row.entry_premium = position.entry_price
  =>
    /\ row.peak_premium <= row.entry_premium \/ row.peak_premium <= high
    /\ high <= row.peak_premium \/ WithinChase(high, approved.limit)

\* No order that stays unfilled keeps its slot for ever, not even while the
\* kill switch is on (loop.py 1007-1012).
SlotsComeFree ==
  Resting /\ order.filled = 0 ~> ~Resting \/ order.filled > 0

(***************************************************************************)
(* Why.  The first part needs no assumption.                               *)
(***************************************************************************)
\* From the quote to the new order, what the pass has seen is the order that
\* still rests, below the price it is to be sent again at, and too young to be
\* given up.
LifeInv ==
  /\ LifeIsBought
  /\ Resting => order.limit >= approved.limit
  /\ pc \in {"quote", "reprice"} /\ Resting => order.age < MaxAge
  /\ pc = "quote" /\ Resting => seen.limit = order.limit
  /\ pc = "reprice" /\ Resting => seen.limit > order.limit
  /\ pc = "resubmit" =>
       /\ seen.limit >= approved.limit
       /\ since <= (seen.limit - approved.limit) * MaxAge

\* The second holds where no part fills between a pass's look and its cancel,
\* and no process dies between an order and its row.
NoSurprises == Mishaps \cap {"part", "unrecorded"} = {}

Untouched == position.qty = 0 /\ ~sold

Recorded == row.entry_premium = approved.limit

\* An order of which nothing has filled is all there is of its trade, and the
\* row is as the order wrote it; what is to be sent again is that order.
UntouchedInv ==
  /\ Resting /\ order.filled = 0 => Untouched
  /\ Resting /\ order.filled = 0 /\ pc # "hold" => Recorded
  /\ pc \in {"quote", "reprice"} /\ Resting => order.filled = 0 /\ seen.qty = order.qty
  /\ pc = "resubmit" =>
       Untouched /\ Recorded /\ ~Resting /\ seen.qty \in 1 .. approved.qty

ChaseInv ==
  /\ ChaseIsATotal
  /\ Resting => approved.limit \in Price
  /\ pc = "reprice" /\ Resting => WithinChase(seen.limit, approved.limit)
  /\ pc = "resubmit" =>
       approved.limit \in Price /\ WithinChase(seen.limit, approved.limit)

\* Only what has something to look at overlaps: no order that a pass may still
\* send again.  What it has read to have been paid, the chase allows.
OverlapInv ==
  \A p \in Overlapping : overlap[p] # NoCopy =>
    /\ WithinChase(overlap[p].fill, approved.limit)
    /\ Resting => order.filled > 0
    /\ pc # "resubmit"

\* Nothing costs more than the chase allows, so a peak that is walked back was
\* no higher than that.  Between an order and its row the row is that of the
\* trade before.
PeakInv ==
  /\ position.qty > 0 => WithinChase(position.entry_price, approved.limit)
  /\ pc # "hold" /\ row # NoRow =>
       /\ WithinChase(row.entry_premium, approved.limit)
       /\ row.peak_premium <= row.entry_premium \/ row.peak_premium <= high
       /\ high <= row.peak_premium \/ WithinChase(high, approved.limit)

IInv ==
  /\ TypeOK
  /\ LifeInv
  /\ NoSurprises =>
       SizeStaysApproved /\ UntouchedInv /\ ChaseInv /\ OverlapInv /\ PeakInv

=============================================================================
