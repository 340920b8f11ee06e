--------------------------- MODULE EntryOrderProofs ---------------------------
(***************************************************************************)
(* What EntryOrder's properties rest on: IInv is inductive.  The types and *)
(* the price of a longer life need nothing but the types of the constants; *)
(* size, ceiling and peak need NoSurprises.                                *)
(***************************************************************************)
EXTENDS EntryOrder, TLAPS

(***************************************************************************)
(* Prices.                                                                 *)
(***************************************************************************)
\* A quotient is bounded by what bounds its dividend.
LEMMA QuotientBound ==
  ASSUME NEW x \in Nat, NEW k \in Nat \ {0}, NEW m \in Nat, x <= m * k
  PROVE  x \div k \in 0 .. m
<1>1. x \div k \in Int /\ x \div k >= 0 /\ k * (x \div k) <= x
  BY Z3
<1>2. SUFFICES ASSUME x \div k >= m + 1 PROVE FALSE
  BY <1>1
<1>3. k * (x \div k) >= k * (m + 1)
  BY <1>1, <1>2, Z3
<1>4. k * (m + 1) > m * k
  BY Z3
<1> QED  BY <1>1, <1>3, <1>4, Z3

\* A limit priced from a sound quote lies inside its spread (entry.py 90-99).
LEMMA LimitInsideSpread ==
  ASSUME NEW bid \in Price, NEW ask \in Price, bid <= ask
  PROVE  LimitFromQuote(bid, ask) \in Price
<1> DEFINE d == ask - bid
<1>1. d \in Nat /\ Aggression \in 0 .. 100 /\ MaxPrice \in Nat
  BY EntryAssumption DEF Price
<1>2. d * Aggression <= d * 100 /\ d * Aggression >= 0 /\ d * Aggression \in Int
  BY <1>1, Z3
<1>3. (d * Aggression + 50) \div 100 \in 0 .. d
  <2> DEFINE p == d * Aggression
  <2>1. p \in Int /\ 0 <= p /\ p <= d * 100
    BY <1>2
  <2> HIDE DEF p, d
  <2>2. (p + 50) \div 100 \in 0 .. d
    BY <1>1, <2>1, Z3
  <2> QED  BY <2>2 DEF p
<1> QED  BY <1>1, <1>3 DEF LimitFromQuote, Price

LEMMA AverageInside ==
  ASSUME NEW q \in Nat, NEW e \in 0 .. MaxPrice, NEW n \in Nat \ {0}, NEW p \in Price
  PROVE  (q * e + n * p) \div (q + n) \in 0 .. MaxPrice
<1>1. MaxPrice \in Nat /\ e \in Nat /\ p \in Nat /\ q + n \in Nat \ {0}
  BY EntryAssumption DEF Price
<1>2. q * e <= q * MaxPrice /\ n * p <= n * MaxPrice /\ q * e \in Nat /\ n * p \in Nat
  BY <1>1, Z3 DEF Price
<1>3. q * MaxPrice + n * MaxPrice = MaxPrice * (q + n)
  BY <1>1, Z3
<1>4. q * e + n * p \in Nat /\ q * e + n * p <= MaxPrice * (q + n)
  <2> DEFINE a == q * e
             b == n * p
             c == q * MaxPrice
             d == n * MaxPrice
  <2>1. a \in Nat /\ b \in Nat /\ a <= c /\ b <= d /\ c \in Int /\ d \in Int
    BY <1>1, <1>2, Z3
  <2> HIDE DEF a, b, c, d
  <2>2. a + b \in Nat /\ a + b <= c + d
    BY <2>1
  <2> QED  BY <2>2, <1>3 DEF a, b, c, d
<1> QED  BY <1>1, <1>4, QuotientBound

\* Each cent between two prices is worth MaxAge ticks.
LEMMA OneCentBuysMaxAge ==
  ASSUME NEW l \in Int, NEW f \in Int, NEW a \in Int, f > l
  PROVE  (f - a) * MaxAge >= (l - a) * MaxAge + MaxAge
<1>1. MaxAge \in Nat /\ f - l >= 1 /\ f - l \in Int
  BY EntryAssumption
<1>2. (f - a) * MaxAge = (l - a) * MaxAge + (f - l) * MaxAge
  BY <1>1, Z3
<1>3. (f - l) * MaxAge >= MaxAge /\ (f - l) * MaxAge \in Int /\ (l - a) * MaxAge \in Int
  BY <1>1, Z3
<1> DEFINE x == (f - a) * MaxAge
           y == (l - a) * MaxAge
           z == (f - l) * MaxAge
<1>4. x = y + z /\ z >= MaxAge /\ z \in Int /\ y \in Int
  BY <1>2, <1>3
<1> HIDE DEF x, y, z
<1>5. x >= y + MaxAge
  BY <1>1, <1>4
<1> QED  BY <1>5 DEF x, y

\* The approved price is within the chase (loop.py 1045).
LEMMA ApprovedIsWithinChase ==
  ASSUME NEW l \in Nat
  PROVE  WithinChase(l, l)
BY EntryAssumption, Z3 DEF WithinChase


\* ... and so a price above the approved one is worth no fewer than none.
LEMMA ExtraLife ==
  ASSUME NEW l \in Int, NEW a \in Int, l >= a
  PROVE  (l - a) * MaxAge \in Nat
BY EntryAssumption, Z3

\* No order, no position and no row are typed as one of each.
LEMMA NothingIsTyped ==
  NoOrder \in Orders /\ Flat \in [qty : Nat, entry_price : 0 .. MaxPrice] /\ NoRow \in Rows
BY EntryAssumption DEF NoOrder, Flat, NoRow, Orders, Rows, Quantity, Age

LEMMA NoCopyIsTyped == NoCopy \in Copies
BY NothingIsTyped, EntryAssumption DEF NoCopy, Copies

\* The updates of a row give a row.
LEMMA UpdatesTyped ==
  ASSUME NEW r \in Rows, NEW fill \in 0 .. MaxPrice, NEW mark \in 0 .. MaxPrice
  PROVE  /\ CorrectedRow(r, fill) \in Rows /\ RaisedRow(r, mark) \in Rows
         /\ CorrectEntryPremium(r, fill) \in Rows
BY EntryAssumption DEF CorrectedRow, RaisedRow, CorrectEntryPremium, Rows

\* Correcting and raising a row gives a row (journal.py 329-389).
LEMMA LevelsTyped ==
  ASSUME NEW r \in Rows, NEW fill \in 0 .. MaxPrice, NEW mark \in Price
  PROVE  LevelsOf(r, fill, mark) \in Rows
<1>1. mark \in 0 .. MaxPrice
  BY EntryAssumption DEF Price
<1>2. CorrectEntryPremium(r, fill) \in Rows
  BY <1>1, UpdatesTyped
<1> QED  BY <1>1, <1>2, UpdatesTyped DEF LevelsOf, RaisePeak

\* Whatever goes wrong stays within its bound.
LEMMA MishapsAreCounted ==
  ASSUME mishaps \in 0 .. MaxMishaps, NEW kind, Mishap(kind) \/ Fine
  PROVE  mishaps' \in 0 .. MaxMishaps
BY EntryAssumption DEF Mishap, Fine

(***************************************************************************)
(* The steps.                                                              *)
(***************************************************************************)
\* Every step keeps the types; only a fill and a quote compute.
LEMMA TypeStep ==
  ASSUME TypeOK, [Next]_vars
  PROVE  TypeOK'
<1> USE EntryAssumption, NothingIsTyped
<1> USE DEF TypeOK, Places, Resting, At, historyVars
<1>0. \A p \in Price : p \in 0 .. MaxPrice
  BY DEF Price
<1>m. ASSUME NEW kind, Mishap(kind) \/ Fine PROVE mishaps' \in 0 .. MaxMishaps
  BY <1>m, MishapsAreCounted
<1>1. ASSUME NEW e \in BOOLEAN, Levels(e) PROVE TypeOK'
  <2>1. row' \in Rows /\ high' \in 0 .. MaxPrice
    BY <1>0, <1>1, LevelsTyped DEF Levels
  <2> QED  BY <1>m, <1>1, <2>1 DEF Levels
<1>2. CASE ReadRestingEntries \/ EntriesUnread \/ QuoteOfNoUse \/ CancelFails \/ Crash
  BY <1>2, <1>m DEF ReadRestingEntries, EntriesUnread, QuoteOfNoUse, CancelFails, Crash
<1>3. ASSUME NEW bid \in Price, NEW ask \in Price, bid <= ask, QuoteMoved(bid, ask)
      PROVE  TypeOK'
  <2>1. LimitFromQuote(bid, ask) \in 0 .. MaxPrice
    BY <1>0, <1>3, LimitInsideSpread
  <2>2. seen' \in Orders
    BY <1>3, <2>1 DEF QuoteMoved, Orders
  <2> QED  BY <1>m, <1>3, <2>2 DEF QuoteMoved
<1>4. CASE Abandoned \/ RepriceCancels \/ Finish \/ OpenHolding \/ PositionSold \/ DayOrderExpires
  <2>1. OpenedRow(approved.limit) \in Rows /\ 0 \in 0 .. MaxPrice
    BY DEF OpenedRow, Rows
  <2>2. NoOrder.filled <= NoOrder.qty
    BY DEF NoOrder
  <2>3. CASE Abandoned \/ RepriceCancels \/ DayOrderExpires
    BY <1>m, <2>2, <2>3 DEF Abandoned, RepriceCancels, DayOrderExpires
  <2>4. CASE Finish
    BY <1>m, <2>4 DEF Finish
  <2>5. CASE OpenHolding
    BY <1>m, <2>1, <2>5 DEF OpenHolding
  <2>6. CASE PositionSold
    BY <1>m, <2>6 DEF PositionSold
  <2> QED  BY <1>4, <2>3, <2>4, <2>5, <2>6
<1>5. CASE Resubmitted \/ ResubmitFails
  <2>1. SentAgain \in Orders /\ SentAgain.filled <= SentAgain.qty
    BY DEF SentAgain, Orders, Quantity, Age
  <2> QED  BY <1>5, <1>m, <2>1 DEF Resubmitted, ResubmitFails
<1>6. ASSUME NEW quantity \in 1 .. MaxContracts, NEW limit \in Price, BuyToOpen(quantity, limit)
      PROVE  TypeOK'
  <2>1. order' \in Orders /\ order'.filled <= order'.qty
    BY <1>6 DEF BuyToOpen, Orders, Quantity, Age, Price
  <2>2. approved' \in [qty : Quantity, limit : 0 .. MaxPrice] /\ since' \in Age
    BY <1>0, <1>6 DEF BuyToOpen, Quantity, Age
  <2> QED  BY <1>m, <1>6, <2>1, <2>2 DEF BuyToOpen
<1>7. ASSUME NEW n \in 1 .. MaxContracts, NEW price \in Price, Fills(n, price)
      PROVE  TypeOK'
  <2>1. AveragePrice(n, price) \in 0 .. MaxPrice
    BY <1>7, AverageInside DEF AveragePrice
  <2>2. position' \in [qty : Nat, entry_price : 0 .. MaxPrice]
    BY <1>7, <2>1 DEF Fills
  <2>3. order' \in Orders /\ order'.filled <= order'.qty
    BY <1>7 DEF Fills, Left, Orders, Quantity, NoOrder
  <2> QED  BY <1>m, <1>7, <2>2, <2>3 DEF Fills
<1>8. CASE Tick
  <2>1. \A a \in Age : OneTickOlder(a) \in Age
    BY DEF OneTickOlder, Age
  <2>2. order' \in Orders /\ order'.filled <= order'.qty
    BY <1>8, <2>1 DEF Tick, Orders, Quantity
  <2> QED  BY <1>m, <1>8, <2>1, <2>2 DEF Tick
<1>9. ASSUME NEW p \in Overlapping, NEW from, NEW copy \in Copies, Overlap(p, from, copy),
             row' \in Rows, high' \in 0 .. MaxPrice, NEW kind, Mishap(kind) \/ Fine
      PROVE  TypeOK'
  BY <1>m, <1>9 DEF Overlap, passVars
<1>10. ASSUME NEW p \in Overlapping PROVE overlap[p] \in Copies /\ overlap[p].row \in Rows
                                        /\ overlap[p].fill \in 0 .. MaxPrice
  BY <1>10 DEF Copies
<1>11. ASSUME NEW p \in Overlapping, OverlapReadsBook(p) PROVE TypeOK'
  <2>1. [NoCopy EXCEPT !.at = "book", !.fill = position.entry_price] \in Copies
    BY NoCopyIsTyped DEF Copies
  <2> QED  BY <1>9, <1>11, <2>1 DEF OverlapReadsBook
<1>12. ASSUME NEW p \in Overlapping, OverlapReadsRow(p) PROVE TypeOK'
  <2>1. [overlap[p] EXCEPT !.at = "row", !.row = row] \in Copies
    BY <1>10 DEF Copies
  <2> QED  BY <1>9, <1>12, <2>1, NoCopyIsTyped DEF OverlapReadsRow
<1>13. ASSUME NEW p \in Overlapping, OverlapCorrects(p) PROVE TypeOK'
  <2> DEFINE copy == [overlap[p] EXCEPT !.at = "corrected",
                                        !.row = CorrectEntryPremium(@, overlap[p].fill)]
  <2>1. copy \in Copies /\ CorrectedRow(row, overlap[p].fill) \in Rows
    <3>0. 0 \in 0 .. MaxPrice
      BY EntryAssumption
    <3>1. CorrectEntryPremium(overlap[p].row, overlap[p].fill) \in Rows
            /\ CorrectedRow(row, overlap[p].fill) \in Rows
      BY <1>10, <3>0, UpdatesTyped
    <3> QED  BY <1>10, <3>1 DEF Copies
  <2>2. Overlap(p, "row", copy) /\ row' \in Rows /\ high' = high /\ Fine
    BY <1>13, <2>1 DEF OverlapCorrects
  <2> HIDE DEF copy
  <2> QED  BY <1>9, <2>1, <2>2
<1>14. ASSUME NEW p \in Overlapping, NEW mark \in Price, OverlapRaises(p, mark) PROVE TypeOK'
  <2>1. RaisedRow(row, mark) \in Rows /\ mark \in 0 .. MaxPrice
    BY <1>0, UpdatesTyped
  <2>2. Overlap(p, "corrected", NoCopy) /\ row' \in Rows /\ high' \in 0 .. MaxPrice /\ Fine
    BY <1>14, <2>1 DEF OverlapRaises
  <2> QED  BY <1>9, <2>2, NoCopyIsTyped
<1>15. CASE UNCHANGED vars
  BY <1>15 DEF vars
<1> QED
  BY <1>1, <1>2, <1>3, <1>4, <1>5, <1>6, <1>7, <1>8, <1>11, <1>12, <1>13, <1>14, <1>15
     DEF Next, PassStep, RefreshStep, Opens, OverlappingStep, Market

\* What a step of an overlapping pass leaves alone.
LEMMA OverlapChanges ==
  ASSUME OverlappingStep
  PROVE  UNCHANGED <<passVars, approved, since>>
BY DEF OverlappingStep, OverlapReadsBook, OverlapReadsRow, OverlapCorrects, OverlapRaises, Overlap

\* Every step keeps what the age of an order rests on: a new one is only sent by
\* RepriceCancels and Resubmitted, at a cent more and before MaxAge.
LEMMA LifeStep ==
  ASSUME TypeOK, LifeInv, [Next]_vars
  PROVE  LifeInv'
<1> USE EntryAssumption
<1> USE DEF LifeInv, LifeIsBought, NoOrder, Resting, At, Mishap, Fine, historyVars
<1>0. /\ order.qty \in Int /\ order.limit \in Int /\ order.age \in Age
      /\ seen.limit \in Int /\ approved.limit \in Int /\ since \in Age
      /\ MaxAge \in Int
      /\ order \in Orders /\ seen \in Orders /\ approved \in [qty : Quantity, limit : 0 .. MaxPrice]
  BY DEF TypeOK, Orders, Age, Quantity
<1>1. ASSUME NEW e \in BOOLEAN, Levels(e) PROVE LifeInv'
  BY <1>1 DEF Levels
<1>2. CASE ReadRestingEntries
  BY <1>0, <1>2 DEF ReadRestingEntries, Stale, Hopeless, TooOld, Age
<1>3. ASSUME NEW bid \in Price, NEW ask \in Price, QuoteMoved(bid, ask) PROVE LifeInv'
  BY <1>0, <1>3 DEF QuoteMoved, HasMoved, Orders
<1>4. CASE RepriceCancels
  <2>1. (seen.limit - approved.limit) * MaxAge
          >= (order.limit - approved.limit) * MaxAge + MaxAge
    BY <1>0, <1>4, OneCentBuysMaxAge DEF RepriceCancels
  <2> DEFINE x == (seen.limit - approved.limit) * MaxAge
             y == (order.limit - approved.limit) * MaxAge
  <2>2. x >= y + MaxAge /\ since <= y + order.age /\ order.age < MaxAge
    BY <2>1, <1>4 DEF RepriceCancels
  <2>3. x \in Int /\ y \in Int
    BY <1>0, Z3
  <2> HIDE DEF x, y
  <2>4. since <= x
    BY <1>0, <2>2, <2>3 DEF Age
  <2>5. since <= (seen.limit - approved.limit) * MaxAge
    BY <2>4 DEF x
  <2> QED  BY <1>0, <1>4, <2>5 DEF RepriceCancels
<1>5. CASE Resubmitted \/ ResubmitFails
  BY <1>0, <1>5 DEF Resubmitted, ResubmitFails, SentAgain, Age
<1>6. CASE EntriesUnread \/ QuoteOfNoUse \/ Abandoned \/ CancelFails
  BY <1>6 DEF EntriesUnread, QuoteOfNoUse, Abandoned, CancelFails
<1>7. CASE Opens
  BY <1>0, <1>7 DEF Opens, BuyToOpen, Price
<1>8. CASE OpenHolding \/ Finish \/ Crash \/ PositionSold \/ DayOrderExpires
  BY <1>8 DEF OpenHolding, Finish, Crash, PositionSold, DayOrderExpires
<1>9. ASSUME NEW n \in 1 .. MaxContracts, NEW price \in Price, Fills(n, price)
      PROVE  LifeInv'
  BY <1>0, <1>9 DEF Fills, Orders
<1>10. CASE Tick
  <2>1. order'.qty = order.qty /\ order'.limit = order.limit
    BY <1>0, <1>10 DEF Tick, Orders
  <2>2. Resting => order'.age = OneTickOlder(order.age)
    BY <1>0, <1>10 DEF Tick, Orders
  <2>3. Resting => (order.limit - approved.limit) * MaxAge \in Nat
    BY <1>0, ExtraLife
  <2> DEFINE y == (order.limit - approved.limit) * MaxAge
  <2>4. Resting => y \in Nat /\ since <= y + order.age
    BY <2>3
  <2> HIDE DEF y
  <2>5. Resting => OneTickOlder(since) <= y + OneTickOlder(order.age)
    BY <1>0, <2>4 DEF OneTickOlder, Age
  <2>6. LifeIsBought'
    BY <1>10, <2>1, <2>2, <2>5 DEF Tick, y
  <2> QED  BY <1>10, <2>1, <2>6 DEF Tick
<1>11. CASE OverlappingStep
  BY <1>11, OverlapChanges DEF passVars
<1>12. CASE UNCHANGED vars
  BY <1>12 DEF vars
<1> QED
  BY <1>1, <1>2, <1>3, <1>4, <1>5, <1>6, <1>7, <1>8, <1>9, <1>10, <1>11, <1>12
     DEF Next, PassStep, RefreshStep, Market

\* Every step keeps the size: the pass acts on an order of which nothing has
\* filled, unless a part fills between its look and its cancel.
LEMMA UntouchedStep ==
  ASSUME NoSurprises, TypeOK, UntouchedInv, SizeStaysApproved, OverlapInv, [Next]_vars
  PROVE  UntouchedInv' /\ SizeStaysApproved'
<1> DEFINE Inv == UntouchedInv /\ SizeStaysApproved
<1> USE EntryAssumption
<1> USE DEF UntouchedInv, SizeStaysApproved, Untouched, Recorded, NoOrder, Resting, Left, At,
            historyVars
<1>0. /\ order.qty \in Nat /\ order.filled \in Nat /\ order.filled <= order.qty
      /\ order \in Orders /\ seen \in Orders /\ seen.qty \in Nat
      /\ approved \in [qty : Quantity, limit : 0 .. MaxPrice] /\ approved.qty \in Nat
      /\ position \in [qty : Nat, entry_price : 0 .. MaxPrice] /\ position.qty \in Nat
      /\ sold \in BOOLEAN
  BY DEF TypeOK, Orders, Quantity
<1>m. ~Mishap("part") /\ ~Mishap("unrecorded")
  BY DEF NoSurprises, Mishap
<1>1. ASSUME NEW e \in BOOLEAN, Levels(e) PROVE Inv'
  BY <1>0, <1>1 DEF Levels, RowCleared
<1>2. CASE ReadRestingEntries
  BY <1>0, <1>2 DEF ReadRestingEntries, Stale, Hopeless
<1>3. ASSUME NEW bid \in Price, NEW ask \in Price, QuoteMoved(bid, ask) PROVE Inv'
  BY <1>0, <1>3 DEF QuoteMoved, Orders
<1>4. CASE RepriceCancels
  BY <1>0, <1>4 DEF RepriceCancels
<1>5. CASE Resubmitted \/ ResubmitFails
  <2>1. /\ Untouched' /\ Recorded' /\ position'.qty = 0 /\ approved' = approved
        /\ pc' \in {"done", "idle"} /\ (order' = order \/ order' = SentAgain)
        /\ ~Resting /\ seen.qty \in 1 .. approved.qty
    BY <1>5 DEF Resubmitted, ResubmitFails
  <2> HIDE DEF Untouched, Recorded
  <2> QED  BY <1>0, <2>1 DEF SentAgain
<1>6. CASE EntriesUnread \/ QuoteOfNoUse \/ Abandoned \/ CancelFails
  BY <1>0, <1>6 DEF EntriesUnread, QuoteOfNoUse, Abandoned, CancelFails
<1>7. CASE Opens
  BY <1>0, <1>7 DEF Opens, BuyToOpen, Price, Flat
<1>8. CASE OpenHolding \/ Finish \/ DayOrderExpires
  BY <1>0, <1>8 DEF OpenHolding, OpenedRow, Finish, DayOrderExpires
<1>9. CASE Crash
  BY <1>0, <1>m, <1>9 DEF Crash
<1>10. CASE PositionSold
  BY <1>0, <1>10 DEF PositionSold, Flat
<1>11. ASSUME NEW n \in 1 .. MaxContracts, NEW price \in Price, Fills(n, price)
      PROVE  Inv'
  <2>1. position'.qty = position.qty + n /\ n \in 1 .. Left(order)
    BY <1>0, <1>11 DEF Fills
  <2>2. CASE n = Left(order)
    BY <1>0, <1>11, <2>1, <2>2 DEF Fills
  <2>3. CASE n < Left(order)
    <3>1. pc \notin {"quote", "reprice"}
      BY <1>m, <1>11, <2>3 DEF Fills
    <3>2. order'.qty = order.qty /\ order'.filled = order.filled + n
      BY <1>0, <1>11, <2>3 DEF Fills, Orders
    <3> QED  BY <1>0, <1>11, <2>1, <3>1, <3>2 DEF Fills
  <2> QED  BY <1>0, <2>1, <2>2, <2>3
<1>12. CASE Tick
  BY <1>0, <1>12 DEF Tick, Orders
<1>13. CASE OverlappingStep
  <2>1. PICK p \in Overlapping :
          \/ OverlapReadsBook(p) \/ OverlapReadsRow(p) \/ OverlapCorrects(p)
          \/ \E mark \in Price : OverlapRaises(p, mark)
    BY <1>13 DEF OverlappingStep
  <2>2. row' = row \/ overlap[p] # NoCopy
    BY <2>1 DEF OverlapReadsBook, OverlapReadsRow, OverlapCorrects, OverlapRaises, Overlap, NoCopy
  <2>3. CASE row' = row
    BY <1>13, <2>3, OverlapChanges DEF passVars
  <2>4. CASE overlap[p] # NoCopy
    <3>1. (Resting => order.filled > 0) /\ pc # "resubmit"
      BY <2>4 DEF OverlapInv
    <3> QED  BY <1>0, <1>13, <3>1, OverlapChanges DEF passVars
  <2> QED  BY <2>2, <2>3, <2>4
<1>14. CASE UNCHANGED vars
  BY <1>14 DEF vars
<1> QED
  BY <1>1, <1>2, <1>3, <1>4, <1>5, <1>6, <1>7, <1>8, <1>9, <1>10, <1>11, <1>12, <1>13, <1>14
     DEF Next, PassStep, RefreshStep, Market

\* Every step keeps the ceiling: while nothing has filled the row still holds
\* the approved price, so the anchor is that (loop.py 1019-1028).
LEMMA ChaseStep ==
  ASSUME NoSurprises, TypeOK, UntouchedInv, ChaseInv, [Next]_vars
  PROVE  ChaseInv'
<1> USE EntryAssumption
<1> USE DEF ChaseInv, ChaseIsATotal, NoOrder, Resting, At, historyVars
<1>0. /\ order.qty \in Int /\ order \in Orders /\ seen \in Orders
      /\ approved \in [qty : Quantity, limit : 0 .. MaxPrice]
  BY DEF TypeOK, Orders, Quantity
<1>1. ASSUME NEW e \in BOOLEAN, Levels(e) PROVE ChaseInv'
  BY <1>1 DEF Levels, WithinChase
<1>2. CASE ReadRestingEntries \/ EntriesUnread \/ QuoteOfNoUse \/ Abandoned \/ CancelFails
  BY <1>0, <1>2 DEF ReadRestingEntries, EntriesUnread, QuoteOfNoUse, Abandoned, CancelFails, WithinChase
<1>3. ASSUME NEW bid \in Price, NEW ask \in Price, QuoteMoved(bid, ask) PROVE ChaseInv'
  <2>1. Resting => Anchor(seen) = approved.limit
    BY <1>0, <1>3 DEF QuoteMoved, UntouchedInv, Recorded, Anchor, Price
  <2>2. pc' = "reprice" /\ Resting =>
          seen'.limit = LimitFromQuote(bid, ask)
          /\ WithinChase(LimitFromQuote(bid, ask), approved.limit)
    BY <1>0, <1>3, <2>1 DEF QuoteMoved, Orders
  <2> QED  BY <1>0, <1>3, <2>2 DEF QuoteMoved, WithinChase
<1>4. CASE RepriceCancels \/ Resubmitted \/ ResubmitFails
  BY <1>0, <1>4 DEF RepriceCancels, Resubmitted, ResubmitFails, SentAgain, WithinChase
<1>5. CASE Opens
  <2>1. \A l \in Price : WithinChase(l, l)
    BY ApprovedIsWithinChase DEF Price
  <2> QED  BY <1>0, <1>5, <2>1 DEF Opens, BuyToOpen, WithinChase
<1>6. CASE OpenHolding \/ Finish \/ Crash \/ PositionSold \/ DayOrderExpires
  BY <1>6 DEF OpenHolding, Finish, Crash, PositionSold, DayOrderExpires, WithinChase
<1>7. ASSUME NEW n \in 1 .. MaxContracts, NEW price \in Price, Fills(n, price) PROVE ChaseInv'
  BY <1>0, <1>7 DEF Fills, Orders, WithinChase
<1>8. CASE Tick
  BY <1>0, <1>8 DEF Tick, Orders, WithinChase
<1>9. CASE OverlappingStep
  BY <1>9, OverlapChanges DEF passVars, WithinChase
<1>10. CASE UNCHANGED vars
  BY <1>10 DEF vars, WithinChase
<1> QED
  BY <1>1, <1>2, <1>3, <1>4, <1>5, <1>6, <1>7, <1>8, <1>9, <1>10
     DEF Next, PassStep, RefreshStep, Market

\* Every step keeps apart what overlaps and what may be sent again: a pass only
\* cancels to send again what nothing has filled of (loop.py 990-994).
LEMMA OverlapStep ==
  ASSUME NoSurprises, TypeOK, UntouchedInv, OverlapInv, PeakInv, [Next]_vars
  PROVE  OverlapInv'
<1> USE DEF OverlapInv, Resting, At, historyVars
<1>0. /\ order \in Orders /\ order.qty \in Nat /\ order.filled \in Nat
      /\ position.qty \in Nat
  BY DEF TypeOK, Orders, Quantity
<1>1. ASSUME NEW p \in Overlapping, OverlapReadsBook(p) PROVE OverlapInv'
  <2>1. position.qty > 0
    BY <1>1 DEF OverlapReadsBook
  <2>2. (Resting => order.filled > 0) /\ pc # "resubmit"
    BY <1>0, <2>1 DEF UntouchedInv, Untouched
  <2>3. WithinChase(position.entry_price, approved.limit)
    BY <2>1 DEF PeakInv
  <2>4. UNCHANGED <<passVars, approved, since>>
    BY <1>1 DEF OverlapReadsBook, Overlap
  <2>5. \A q \in Overlapping : overlap'[q] # NoCopy =>
          overlap'[q].fill = position.entry_price \/ overlap[q] = overlap'[q]
    BY <1>1 DEF OverlapReadsBook, Overlap, TypeOK, NoCopy, Copies
  <2> QED  BY <2>2, <2>3, <2>4, <2>5 DEF passVars, WithinChase
<1>2. ASSUME NEW p \in Overlapping,
             \/ OverlapReadsRow(p) \/ OverlapCorrects(p)
             \/ \E mark \in Price : OverlapRaises(p, mark)
      PROVE  OverlapInv'
  <2>1. UNCHANGED <<passVars, approved, since>>
    BY <1>2 DEF OverlapReadsRow, OverlapCorrects, OverlapRaises, Overlap
  <2>2. overlap[p] # NoCopy
    BY <1>2 DEF OverlapReadsRow, OverlapCorrects, OverlapRaises, Overlap, NoCopy
  <2>a. overlap \in [Overlapping -> Copies] /\ overlap[p] \in Copies
    BY DEF TypeOK
  <2>b. /\ overlap' = [overlap EXCEPT ![p] = overlap'[p]]
        /\ overlap'[p] = NoCopy \/ overlap'[p].fill = overlap[p].fill
    <3>1. CASE OverlapReadsRow(p)
      BY <2>a, <3>1 DEF OverlapReadsRow, Overlap, Copies
    <3>2. CASE OverlapCorrects(p)
      BY <2>a, <3>2 DEF OverlapCorrects, Overlap, Copies
    <3>3. CASE \E mark \in Price : OverlapRaises(p, mark)
      BY <2>a, <3>3 DEF OverlapRaises, Overlap
    <3> QED  BY <1>2, <3>1, <3>2, <3>3
  <2>3. \A q \in Overlapping : overlap'[q] # NoCopy =>
          overlap[q] # NoCopy /\ overlap'[q].fill = overlap[q].fill
    BY <2>a, <2>b, <2>2
  <2> QED  BY <2>1, <2>3 DEF passVars, WithinChase
<1>3. CASE RepriceCancels
  <2>1. Resting /\ order.filled = 0
    BY <1>3 DEF RepriceCancels, UntouchedInv
  <2> QED  BY <1>3, <2>1 DEF RepriceCancels
<1>4. CASE Resubmitted \/ ResubmitFails
  BY <1>4 DEF Resubmitted, ResubmitFails
<1>5. CASE Opens
  BY <1>5 DEF Opens, BuyToOpen
<1>6. ASSUME NEW e \in BOOLEAN, Levels(e) PROVE OverlapInv'
  BY <1>6 DEF Levels, WithinChase
<1>7. CASE ReadRestingEntries \/ EntriesUnread \/ QuoteOfNoUse \/ CancelFails
  BY <1>7 DEF ReadRestingEntries, EntriesUnread, QuoteOfNoUse, CancelFails, WithinChase
<1>8. ASSUME NEW bid \in Price, NEW ask \in Price, QuoteMoved(bid, ask) PROVE OverlapInv'
  BY <1>8 DEF QuoteMoved, WithinChase
<1>9. CASE Abandoned \/ DayOrderExpires
  BY <1>9 DEF Abandoned, DayOrderExpires, NoOrder, WithinChase
<1>10. CASE OpenHolding \/ Finish \/ Crash \/ PositionSold
  BY <1>10 DEF OpenHolding, Finish, Crash, PositionSold, WithinChase
<1>11. ASSUME NEW n \in 1 .. MaxContracts, NEW price \in Price, Fills(n, price)
       PROVE  OverlapInv'
  <2>1. order' = NoOrder \/ order' = [order EXCEPT !.filled = @ + n]
    BY <1>11 DEF Fills
  <2>2. order'.qty > 0 => order'.filled > 0
    BY <1>0, <1>11, <2>1 DEF NoOrder, Orders
  <2> QED  BY <1>11, <2>2 DEF Fills, WithinChase
<1>12. CASE Tick
  BY <1>0, <1>12 DEF Tick, Orders, WithinChase
<1>13. CASE UNCHANGED vars
  BY <1>13 DEF vars, WithinChase
<1> QED
  BY <1>1, <1>2, <1>3, <1>4, <1>5, <1>6, <1>7, <1>8, <1>9, <1>10, <1>11, <1>12, <1>13
     DEF Next, PassStep, RefreshStep, OverlappingStep, Market

\* What is cheaper than a price within the chase is within it.
LEMMA WithinChaseBelow ==
  ASSUME NEW p \in Nat, NEW q \in Nat, NEW a \in Int, p <= q, WithinChase(q, a)
  PROVE  WithinChase(p, a)
<1> DEFINE c == a * (100 + MaxChase)
<1>1. q * 100 <= c /\ c \in Int
  BY EntryAssumption, Z3 DEF WithinChase
<1> HIDE DEF c
<1>2. p * 100 <= c
  BY <1>1
<1> QED  BY <1>2 DEF WithinChase, c

\* An average price is bounded by what bounds what was held and what is added.
LEMMA AverageIsNoDearer ==
  ASSUME NEW q \in Nat, NEW e \in Nat, NEW n \in Nat \ {0}, NEW p \in Nat,
         NEW m \in Nat, q = 0 \/ e <= m, p <= m
  PROVE  (q * e + n * p) \div (q + n) \in 0 .. m
<1>1. q * e <= q * m /\ n * p <= n * m /\ q * e \in Nat /\ n * p \in Nat
  BY Z3
<1>2. q * m + n * m = m * (q + n) /\ q + n \in Nat \ {0}
  BY Z3
<1>3. q * e + n * p \in Nat /\ q * e + n * p <= m * (q + n)
  <2> DEFINE a == q * e
             b == n * p
             c == q * m
             d == n * m
  <2>1. a \in Nat /\ b \in Nat /\ a <= c /\ b <= d /\ c \in Int /\ d \in Int
    BY <1>1, Z3
  <2> HIDE DEF a, b, c, d
  <2>2. a + b \in Nat /\ a + b <= c + d
    BY <2>1
  <2> QED  BY <2>2, <1>2 DEF a, b, c, d
<1> QED  BY <1>2, <1>3, QuotientBound

\* A row with a peak that is no phantom, and that no high beyond the chase is
\* above.
RealPeak(r, top, a) ==
  /\ WithinChase(r.entry_premium, a)
  /\ r.peak_premium <= r.entry_premium \/ r.peak_premium <= top
  /\ top <= r.peak_premium \/ WithinChase(top, a)

\* Neither update of a row makes a phantom of its peak or loses a high, whatever
\* has been read of the row (journal.py 343-348 and 374-386).
LEMMA UpdatesKeepThePeakReal ==
  ASSUME NEW r \in Rows, NEW top \in 0 .. MaxPrice, NEW a \in Int, RealPeak(r, top, a)
  PROVE  /\ \A fill \in 0 .. MaxPrice :
              WithinChase(fill, a) => RealPeak(CorrectedRow(r, fill), top, a)
         /\ \A mark \in Price :
              RealPeak(RaisedRow(r, mark), IF mark > top THEN mark ELSE top, a)
<1>0. r.entry_premium \in Nat /\ r.peak_premium \in Nat /\ top \in Nat
  BY EntryAssumption DEF Rows
<1>1. top <= r.entry_premium => WithinChase(top, a)
  BY <1>0, WithinChaseBelow DEF RealPeak
<1>2. ASSUME NEW fill \in 0 .. MaxPrice, WithinChase(fill, a)
      PROVE  RealPeak(CorrectedRow(r, fill), top, a)
  <2> DEFINE k == CorrectedRow(r, fill)
  <2>1. k.entry_premium = fill
    BY DEF CorrectedRow
  <2>2. k.peak_premium = fill \/ (k.peak_premium = r.peak_premium
                                  /\ ~(r.peak_premium \in 1 .. r.entry_premium))
    BY DEF CorrectedRow
  <2>3. k.peak_premium = fill =>
          r.peak_premium \in 1 .. r.entry_premium \/ r.peak_premium = fill
    BY DEF CorrectedRow
  <2> HIDE DEF k
  <2>4. k.peak_premium <= fill \/ k.peak_premium <= top
    BY <1>0, <1>2, <2>2, EntryAssumption DEF RealPeak
  <2>5. top <= k.peak_premium \/ WithinChase(top, a)
    BY <1>0, <1>1, <2>2, <2>3, EntryAssumption DEF RealPeak
  <2> QED  BY <1>2, <2>1, <2>4, <2>5 DEF RealPeak, k
<1>3. ASSUME NEW mark \in Price
      PROVE  RealPeak(RaisedRow(r, mark), IF mark > top THEN mark ELSE top, a)
  <2>1. /\ mark \in Nat
        /\ RaisedRow(r, mark).entry_premium = r.entry_premium
        /\ RaisedRow(r, mark).peak_premium =
             (IF mark > r.peak_premium THEN mark ELSE r.peak_premium)
    BY DEF RaisedRow, Rows, Price
  <2> QED  BY <1>0, <2>1 DEF RealPeak
<1> QED  BY <1>2, <1>3

\* A pass that does both at once does neither harm (loop.py 415-420).
LEMMA PeakLevels ==
  ASSUME NEW r \in Rows, NEW fill \in 0 .. MaxPrice, NEW mark \in Price,
         NEW top \in 0 .. MaxPrice, NEW a \in Int,
         WithinChase(fill, a), RealPeak(r, top, a)
  PROVE  RealPeak(LevelsOf(r, fill, mark), IF mark > top THEN mark ELSE top, a)
<1> DEFINE k == CorrectEntryPremium(r, fill)
<1>0. mark \in 0 .. MaxPrice
  BY EntryAssumption DEF Price
<1>1. k \in Rows
  BY <1>0, UpdatesTyped
<1>2. RealPeak(k, top, a)
  BY UpdatesKeepThePeakReal DEF CorrectEntryPremium
<1> HIDE DEF k
<1>3. RealPeak(RaisedRow(k, mark), IF mark > top THEN mark ELSE top, a)
  BY <1>1, <1>2, UpdatesKeepThePeakReal
<1>4. LevelsOf(r, fill, mark) = RaisedRow(k, mark)
  BY DEF LevelsOf, RaisePeak, RaisedRow, k
<1> QED  BY <1>3, <1>4

\* Every step keeps what the peak rests on.
LEMMA PeakStep ==
  ASSUME NoSurprises, TypeOK, UntouchedInv, ChaseInv, OverlapInv, PeakInv, [Next]_vars
  PROVE  PeakInv'
<1> USE EntryAssumption
<1> USE DEF PeakInv, Resting, At, historyVars
<1>0. /\ order.limit \in Nat /\ row \in Rows /\ approved.limit \in Int
      /\ approved \in [qty : Quantity, limit : 0 .. MaxPrice]
      /\ position \in [qty : Nat, entry_price : 0 .. MaxPrice]
      /\ position.qty \in Nat /\ position.entry_price \in 0 .. MaxPrice
      /\ high \in 0 .. MaxPrice
  BY DEF TypeOK, Orders
<1>m. ~Mishap("part") /\ ~Mishap("unrecorded")
  BY DEF NoSurprises, Mishap
<1>1. ASSUME NEW e \in BOOLEAN, Levels(e) PROVE PeakInv'
  <2>1. CASE position.qty > 0 /\ row # NoRow
    <3>1. PICK mark \in Price :
            /\ row' = LevelsOf(row, position.entry_price, mark)
            /\ high' = IF mark > high THEN mark ELSE high
      BY <1>1, <2>1 DEF Levels
    <3>2. pc = "idle" /\ pc' \in {"idle", "refresh"} /\ approved' = approved /\ position' = position
      BY <1>1 DEF Levels
    <3>3. RealPeak(row, high, approved.limit)
      BY <2>1, <3>2 DEF RealPeak
    <3>4. WithinChase(position.entry_price, approved.limit)
      BY <2>1
    <3>5. RealPeak(LevelsOf(row, position.entry_price, mark),
                   IF mark > high THEN mark ELSE high, approved.limit)
      BY <1>0, <3>3, <3>4, PeakLevels
    <3> QED  BY <3>1, <3>2, <3>4, <3>5 DEF RealPeak, WithinChase
  <2>2. CASE ~(position.qty > 0 /\ row # NoRow)
    BY <1>1, <2>2 DEF Levels, WithinChase
  <2> QED  BY <2>1, <2>2
<1>2. CASE RefreshStep \/ Finish \/ DayOrderExpires \/ Tick
  BY <1>2 DEF RefreshStep, ReadRestingEntries, EntriesUnread, QuoteMoved, QuoteOfNoUse, Abandoned,
     RepriceCancels, CancelFails, Resubmitted, ResubmitFails, Finish, DayOrderExpires, Tick, WithinChase
<1>3. CASE Opens
  BY <1>3 DEF Opens, BuyToOpen, Flat
<1>4. CASE OpenHolding
  <2>1. WithinChase(approved.limit, approved.limit)
    BY <1>0, ApprovedIsWithinChase
  <2> QED  BY <1>0, <1>4, <2>1 DEF OpenHolding, OpenedRow, WithinChase
<1>5. CASE Crash
  BY <1>m, <1>5 DEF Crash, WithinChase
<1>6. CASE PositionSold
  BY <1>6 DEF PositionSold, Flat, WithinChase
<1>7. ASSUME NEW n \in 1 .. MaxContracts, NEW price \in Price, Fills(n, price)
      PROVE  PeakInv'
  <2>1. Resting
    BY <1>0, <1>7 DEF Fills, Left, TypeOK, Orders, Quantity
  <2>2. price \in Nat /\ WithinChase(price, approved.limit)
    BY <1>0, <1>7, <2>1, WithinChaseBelow DEF Fills, ChaseInv, ChaseIsATotal, Price
  <2>3. WithinChase(AveragePrice(n, price), approved.limit)
    <3> DEFINE m == IF position.qty > 0 /\ position.entry_price > price
                    THEN position.entry_price ELSE price
    <3>0. n \in Nat \ {0} /\ approved.limit \in Int
      BY <1>0, <1>7
    <3>1. WithinChase(m, approved.limit) /\ m \in Nat
      BY <1>0, <2>2
    <3>2. /\ position.qty \in Nat /\ position.entry_price \in Nat
          /\ position.qty = 0 \/ position.entry_price <= m
          /\ price <= m
      BY <1>0, <2>2
    <3> HIDE DEF m
    <3>3. AveragePrice(n, price) \in 0 .. m
      BY <2>2, <3>0, <3>1, <3>2, AverageIsNoDearer, Zenon DEF AveragePrice
    <3> QED  BY <3>0, <3>1, <3>3, WithinChaseBelow
  <2>4. position'.entry_price = AveragePrice(n, price)
    BY <1>7 DEF Fills
  <2> QED  BY <1>7, <2>3, <2>4 DEF Fills, WithinChase
<1>8. CASE OverlappingStep
  <2>1. PICK p \in Overlapping :
          \/ OverlapReadsBook(p) \/ OverlapReadsRow(p) \/ OverlapCorrects(p)
          \/ \E mark \in Price : OverlapRaises(p, mark)
    BY <1>8 DEF OverlappingStep
  <2>2. UNCHANGED <<passVars, approved, since>>
    BY <1>8, OverlapChanges
  <2> SUFFICES ASSUME row # NoRow, pc # "hold", ~UNCHANGED <<row, high>>
               PROVE  RealPeak(row', high', approved.limit)
    <3>1. row = NoRow => UNCHANGED <<row, high>>
      BY <2>1 DEF OverlapReadsBook, OverlapReadsRow, OverlapCorrects, OverlapRaises
    <3> QED  BY <2>2, <3>1 DEF passVars, RealPeak, WithinChase
  <2>3. RealPeak(row, high, approved.limit)
    BY DEF RealPeak
  <2>4. CASE OverlapCorrects(p)
    <3>1. overlap[p].fill \in 0 .. MaxPrice
      BY DEF TypeOK, Copies
    <3>2. WithinChase(overlap[p].fill, approved.limit)
      BY <2>4 DEF OverlapInv, OverlapCorrects, Overlap, NoCopy
    <3>3. row' = CorrectedRow(row, overlap[p].fill) /\ high' = high
      BY <2>4 DEF OverlapCorrects
    <3> QED  BY <1>0, <2>3, <3>1, <3>2, <3>3, UpdatesKeepThePeakReal
  <2>5. ASSUME NEW mark \in Price, OverlapRaises(p, mark)
        PROVE  RealPeak(row', high', approved.limit)
    <3>1. row' = RaisedRow(row, mark) /\ high' = IF mark > high THEN mark ELSE high
      BY <2>5 DEF OverlapRaises
    <3> QED  BY <1>0, <2>3, <3>1, UpdatesKeepThePeakReal
  <2> QED  BY <2>1, <2>4, <2>5 DEF OverlapReadsBook, OverlapReadsRow
<1>9. CASE UNCHANGED vars
  BY <1>9 DEF vars, WithinChase
<1> QED
  BY <1>1, <1>2, <1>3, <1>4, <1>5, <1>6, <1>7, <1>8, <1>9 DEF Next, PassStep, Market

(***************************************************************************)
(* The theorems.                                                           *)
(***************************************************************************)
\* IInv is an invariant.
THEOREM Invariance == Spec => []IInv
<1>1. ASSUME Init PROVE IInv
  <2>1. /\ ~Resting /\ Left(order) = 0 /\ order.filled <= order.qty /\ position.qty = 0
        /\ pc = "idle" /\ row = NoRow /\ approved.qty = 0
    BY <1>1 DEF Init, Resting, Left, NoOrder, Flat
  <2>2. TypeOK
    <3>1. 0 \in 0 .. MaxMishaps /\ 0 \in Age /\ 0 \in 0 .. MaxPrice /\ 0 \in Quantity
      BY EntryAssumption DEF Age, Quantity
    <3> QED  BY <1>1, <2>1, <3>1, NothingIsTyped, NoCopyIsTyped DEF Init, TypeOK, Places
  <2>3. LifeInv /\ SizeStaysApproved /\ UntouchedInv /\ ChaseInv /\ OverlapInv /\ PeakInv
    BY <1>1, <2>1 DEF Init, LifeInv, LifeIsBought, SizeStaysApproved, UntouchedInv, ChaseInv,
       ChaseIsATotal, OverlapInv, PeakInv
  <2> QED  BY <2>2, <2>3 DEF IInv
<1>2. IInv /\ [Next]_vars => IInv'
  <2> SUFFICES ASSUME IInv, [Next]_vars PROVE IInv'
    OBVIOUS
  <2>1. TypeOK' /\ LifeInv'
    BY TypeStep, LifeStep DEF IInv
  <2>2. ASSUME NoSurprises
        PROVE  SizeStaysApproved' /\ UntouchedInv' /\ ChaseInv' /\ OverlapInv' /\ PeakInv'
    BY <2>2, UntouchedStep, ChaseStep, OverlapStep, PeakStep DEF IInv
  <2> QED  BY <2>1, <2>2 DEF IInv, NoSurprises
<1> QED  BY <1>1, <1>2, PTL DEF Spec

\* The variables have their types.
THEOREM TypeCorrect == Spec => []TypeOK
BY Invariance, PTL DEF IInv

\* An order outlives its age limit only by as many MaxAge as the cents it was
\* chased by, whatever goes wrong.
THEOREM LifeHasAPrice == Spec => []LifeIsBought
<1>1. IInv => LifeIsBought
  BY DEF IInv, LifeInv
<1> QED  BY Invariance, <1>1, PTL

\* Owned and resting contracts together never exceed the approved size, if no
\* part fills between look and cancel.
THEOREM ApprovedSizeStays ==
  ASSUME NoSurprises PROVE Spec => []SizeStaysApproved
<1>1. IInv => SizeStaysApproved
  BY DEF IInv
<1> QED  BY Invariance, <1>1, PTL

\* No order rests at a price further above the approved one than the chase
\* allows, if moreover every order gets its row.
THEOREM ChaseStaysATotal ==
  ASSUME NoSurprises PROVE Spec => []ChaseIsATotal
<1>1. IInv => ChaseIsATotal
  BY DEF IInv, ChaseInv
<1> QED  BY Invariance, <1>1, PTL

\* The peak of a row is no phantom, and a high above all the trade can have cost
\* is kept.
THEOREM PeaksAreReal ==
  ASSUME NoSurprises PROVE Spec => []PeakIsReal
<1>1. PeakInv => PeakIsReal
  BY DEF PeakInv, PeakIsReal
<1>2. IInv => PeakIsReal
  BY <1>1 DEF IInv
<1> QED  BY Invariance, <1>2, PTL
=============================================================================
