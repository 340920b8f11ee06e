--------------------------- MODULE ExitWatchProofs ---------------------------
(***************************************************************************)
(* Whatever the chain, the levels and the prices: what a pass keeps has    *)
(* not fallen, what it sells is not sold below exercise, a stop that is    *)
(* due stays due at a worse price, and what the gates let in is kept until *)
(* something has moved, if the settings leave room for it.                 *)
(***************************************************************************)
EXTENDS ExitWatch, TLAPS

-----------------------------------------------------------------------------
(***************************************************************************)
(* The rules.                                                              *)
(***************************************************************************)
LEMMA RulesAreNumbered == DOMAIN Precedence = 1 .. 7
  BY DEF Precedence

LEMMA RulesByNumber ==
  /\ Precedence[1] = "expiry"
  /\ Precedence[2] = "premium backstop"
  /\ Precedence[3] = "premium stop"
  /\ Precedence[4] = "trailing stop"
  /\ Precedence[5] = "thesis stop"
  /\ Precedence[6] = "take profit"
  /\ Precedence[7] = "premium target"
  BY DEF Precedence

LEMMA FirstOfSome ==
  ASSUME NEW S \in SUBSET (1 .. 7), S # {}
  PROVE  \E k \in S : \A j \in S : k <= j
  <1> SUFFICES ASSUME \A k \in S : \E j \in S : j < k PROVE FALSE
    OBVIOUS
  <1>1. 1 \notin S
    OBVIOUS
  <1>2. 2 \notin S
    BY <1>1
  <1>3. 3 \notin S
    BY <1>1, <1>2
  <1>4. 4 \notin S
    BY <1>1, <1>2, <1>3
  <1>5. 5 \notin S
    BY <1>1, <1>2, <1>3, <1>4
  <1>6. 6 \notin S
    BY <1>1, <1>2, <1>3, <1>4, <1>5
  <1>7. 7 \notin S
    BY <1>1, <1>2, <1>3, <1>4, <1>5, <1>6
  <1>8. PICK k \in S : TRUE
    OBVIOUS
  <1>9. k \in {1, 2, 3, 4, 5, 6, 7}
    OBVIOUS
  <1> QED
    BY <1>1, <1>2, <1>3, <1>4, <1>5, <1>6, <1>7, <1>8, <1>9

\* The rule that speaks is the first of those that are due (exits.py 148-246).
LEMMA FirstDueSpeaks ==
  ASSUME NEW p, NEW r, NEW seen, NEW i \in DOMAIN Precedence,
         Due(Precedence[i], p, r, seen),
         \A j \in DOMAIN Precedence : j < i => ~Due(Precedence[j], p, r, seen)
  PROVE  CheckExit(p, r, seen) = Precedence[i]
  <1> DEFINE due == {k \in DOMAIN Precedence : Due(Precedence[k], p, r, seen)}
  <1>1. DOMAIN Precedence = 1 .. 7
    BY RulesAreNumbered
  <1>2. i \in due /\ \A j \in due : i <= j
    BY <1>1
  <1>3. \A k \in due : (\A j \in due : k <= j) => k = i
    BY <1>1, <1>2
  <1>4. (CHOOSE k \in due : \A j \in due : k <= j) = i
    BY <1>2, <1>3
  <1> QED
    BY <1>2, <1>4 DEF CheckExit

\* Only a position of which no rule is due is kept (exits.py 148-246).
LEMMA KeptMeansNoneDue ==
  ASSUME NEW p, NEW r, NEW seen, CheckExit(p, r, seen) = "hold",
         NEW i \in DOMAIN Precedence
  PROVE  ~Due(Precedence[i], p, r, seen)
  <1> DEFINE due == {k \in DOMAIN Precedence : Due(Precedence[k], p, r, seen)}
  <1> SUFFICES ASSUME due # {} PROVE FALSE
    OBVIOUS
  <1>1. DOMAIN Precedence = 1 .. 7
    BY RulesAreNumbered
  <1>2. \E k \in due : \A j \in due : k <= j
    BY <1>1, FirstOfSome
  <1>3. (CHOOSE k \in due : \A j \in due : k <= j) \in 1 .. 7
    BY <1>1, <1>2
  <1>4. \A k \in 1 .. 7 : Precedence[k] # "hold"
    <2> TAKE k \in 1 .. 7
    <2>1. k \in {1, 2, 3, 4, 5, 6, 7}
      OBVIOUS
    <2> QED
      BY <2>1, RulesByNumber
  <1> QED
    BY <1>3, <1>4 DEF CheckExit

\* A rule of the urgent ones speaks exactly if one of them is due and the
\* close-out is not.
LEMMA WhoIsUrgent ==
  \A i \in 1 .. 7 : Precedence[i] \in Urgent <=> i \in 2 .. 5
  <1>1. /\ Precedence[2] \in Urgent /\ Precedence[3] \in Urgent
        /\ Precedence[4] \in Urgent /\ Precedence[5] \in Urgent
    BY RulesByNumber DEF Urgent
  <1>2. Precedence[1] \notin Urgent /\ Precedence[6] \notin Urgent /\ Precedence[7] \notin Urgent
    <2>1. "expiry" \notin Urgent
      BY DEF Urgent
    <2>2. "take profit" \notin Urgent
      BY DEF Urgent
    <2>3. "premium target" \notin Urgent
      BY DEF Urgent
    <2> QED
      BY <2>1, <2>2, <2>3, RulesByNumber, Zenon
  <1> TAKE i \in 1 .. 7
  <1>3. i \in {1, 6, 7} \/ i \in {2, 3, 4, 5}
    OBVIOUS
  <1>4. CASE i \in {2, 3, 4, 5}
    <2>1. Precedence[i] \in Urgent
      BY <1>1, <1>4, Zenon
    <2> QED
      BY <1>4, <2>1
  <1>5. CASE i \in {1, 6, 7}
    <2>1. Precedence[i] \notin Urgent
      BY <1>2, <1>5, Zenon
    <2>2. i \notin 2 .. 5
      BY <1>5
    <2> QED
      BY <2>1, <2>2
  <1> QED
    BY <1>3, <1>4, <1>5

LEMMA UrgentMeansDue ==
  ASSUME NEW p, NEW r, NEW seen, CheckExit(p, r, seen) \in Urgent
  PROVE  /\ ~Due(Precedence[1], p, r, seen)
         /\ \E i \in 2 .. 5 : Due(Precedence[i], p, r, seen)
  <1> DEFINE due == {k \in DOMAIN Precedence : Due(Precedence[k], p, r, seen)}
             first == CHOOSE k \in due : \A j \in due : k <= j
  <1>1. due # {} /\ CheckExit(p, r, seen) = Precedence[first]
    <2>1. "hold" \notin Urgent
      BY DEF Urgent
    <2> QED
      BY <2>1 DEF CheckExit
  <1>2. due \subseteq 1 .. 7
    BY RulesAreNumbered
  <1> HIDE DEF due
  <1>3. first \in due /\ \A j \in due : first <= j
    <2>1. \E k \in due : \A j \in due : k <= j
      BY <1>1, <1>2, FirstOfSome
    <2> QED
      BY <2>1
  <1> HIDE DEF first
  <1>4. first \in 2 .. 5
    BY <1>1, <1>2, <1>3, WhoIsUrgent
  <1> QED
    BY <1>2, <1>3, <1>4, RulesAreNumbered DEF due

LEMMA DueMeansUrgent ==
  ASSUME NEW p, NEW r, NEW seen, ~Due(Precedence[1], p, r, seen),
         NEW i \in 2 .. 5, Due(Precedence[i], p, r, seen)
  PROVE  CheckExit(p, r, seen) \in Urgent
  <1> DEFINE due == {k \in DOMAIN Precedence : Due(Precedence[k], p, r, seen)}
  <1>1. due \subseteq 1 .. 7 /\ i \in due /\ 1 \notin due
    BY RulesAreNumbered
  <1>2. \A k \in due : Due(Precedence[k], p, r, seen)
    OBVIOUS
  <1>3. \A k \in DOMAIN Precedence : k \notin due => ~Due(Precedence[k], p, r, seen)
    OBVIOUS
  <1> HIDE DEF due
  <1>4. PICK k \in due : \A j \in due : k <= j
    BY <1>1, FirstOfSome
  <1>5. k \in 2 .. 5
    BY <1>1, <1>4
  <1>6. CheckExit(p, r, seen) = Precedence[k]
    <2>1. \A j \in DOMAIN Precedence : j < k => j \notin due
      BY <1>1, <1>4, RulesAreNumbered
    <2> QED
      BY <1>1, <1>2, <1>3, <1>4, <2>1, FirstDueSpeaks, RulesAreNumbered
  <1> QED
    BY <1>5, <1>6, WhoIsUrgent

\* A verdict is one of the rules, or to hold.
LEMMA VerdictsOnly ==
  ASSUME NEW p, NEW r, NEW seen
  PROVE  CheckExit(p, r, seen) \in Verdicts
  <1> DEFINE due == {k \in DOMAIN Precedence : Due(Precedence[k], p, r, seen)}
  <1>1. CASE due = {}
    BY <1>1 DEF CheckExit, Verdicts
  <1>2. CASE due # {}
    <2>1. \E k \in due : \A j \in due : k <= j
      BY <1>2, FirstOfSome, RulesAreNumbered
    <2>2. (CHOOSE k \in due : \A j \in due : k <= j) \in 1 .. 7
      BY <2>1, RulesAreNumbered
    <2>3. \A k \in 1 .. 7 : Precedence[k] \in Verdicts
      <3> TAKE k \in 1 .. 7
      <3>1. k \in {1, 2, 3, 4, 5, 6, 7}
        OBVIOUS
      <3> QED
        BY <3>1, RulesByNumber, Zenon DEF Verdicts, Urgent
    <2> QED
      BY <1>2, <2>2, <2>3 DEF CheckExit
  <1> QED
    BY <1>1, <1>2

-----------------------------------------------------------------------------
(***************************************************************************)
(* The prices.                                                             *)
(***************************************************************************)
\* What is read of an answer are numbers, whatever it lacks (market.py 126-131,
\* 190-191, 405-407, 428-432).
LEMMA QuotesAreNumbers == \A q \in Quotes : q.bid \in Nat /\ q.ask \in Nat
  <1>1. ASSUME NEW field \in Nat \cup {Missing} PROVE ToFloat(field, 0) \in Nat
    BY <1>1 DEF ToFloat
  <1>2. ASSUME NEW answer \in Answers PROVE {answer.bid, answer.ask} \subseteq Nat \cup {Missing}
    BY WatchAssumption
  <1>3. ASSUME NEW answer \in Answers
        PROVE  OptionQuote(answer).bid \in Nat /\ OptionQuote(answer).ask \in Nat
    BY <1>1, <1>2 DEF OptionQuote
  <1> QED
    BY <1>3 DEF Quotes, NoQuote

LEMMA PriceIsANumber ==
  ASSUME NEW stock \in StockQuotes, spot \in Spots
  PROVE  StockPrice(stock) \in Nat
  <1>1. spot \in Nat /\ Half \in Nat /\ spot > Half
    BY WatchAssumption
  <1>2. stock.bid \in {spot - Half, Missing} /\ stock.ask \in {spot + Half, Missing}
    BY DEF StockQuotes
  <1>3. ToFloat(stock.bid, 0) \in Nat /\ ToFloat(stock.ask, 0) \in Nat
    BY <1>1, <1>2 DEF ToFloat
  <1> QED
    BY <1>3 DEF StockPrice

LEMMA ReadIsAPosition ==
  ASSUME NEW p \in Positions, NEW mark \in {p.current_price, Missing}
  PROVE  LET held == PositionFromPayload(p, mark)
         IN /\ held \in Positions /\ held.current_price \in Nat
            /\ held = [p EXCEPT !.current_price = held.current_price]
  <1>1. p.current_price \in Nat /\ p.entry_price \in Nat
    BY DEF Positions
  <1>2. ToFloat(mark, p.entry_price) \in Nat
    BY <1>1 DEF ToFloat
  <1> QED
    BY <1>2 DEF PositionFromPayload, Positions

LEMMA PricesAreNumbers ==
  ASSUME NEW p \in Positions, NEW seen \in Nat
  PROVE  /\ Intrinsic(p, seen) \in Nat
         /\ MarkForStops(p, seen) \in Nat
  <1>1. p.strike \in Nat /\ p.current_price \in Nat
    BY DEF Positions
  <1>2. Intrinsic(p, seen) \in Nat
    BY <1>1 DEF Intrinsic
  <1> QED
    BY <1>1, <1>2 DEF MarkForStops

\* What is sent is an order, whatever the reason.
LEMMA OrdersAreOrders ==
  ASSUME NEW p \in Positions, NEW rule, NEW quote \in Quotes, NEW seen \in Nat,
         NEW stale \in BOOLEAN
  PROVE  /\ CloseWith(p, rule, quote, seen, stale) \in Orders
         /\ CloseWith(p, rule, quote, seen, stale).sent
  <1>1. Intrinsic(p, seen) \in Nat
    BY PricesAreNumbers
  <1>2. ProtectiveFloor(p, seen) \in Int
    BY <1>1 DEF ProtectiveFloor
  <1>3. ExitLimitPrice(quote) \in Int
    <2>1. quote.bid \in Nat /\ quote.ask \in Nat /\ ExitAggression \in 0 .. 100
      BY QuotesAreNumbers, ExitAssumption
    <2>2. (quote.ask - quote.bid) * ExitAggression + 50 \in Int
      BY <2>1
    <2> QED
      BY <2>1, <2>2 DEF ExitLimitPrice
  <1>4. AtLimit(ProtectiveFloor(p, seen)) \in Orders /\ AtLimit(ExitLimitPrice(quote)) \in Orders
    BY <1>2, <1>3 DEF AtLimit, Orders
  <1>5. AtMarket \in Orders
    BY DEF AtMarket, Orders
  <1>6. CloseWith(p, rule, quote, seen, stale) \in
          {AtLimit(ProtectiveFloor(p, seen)), AtLimit(ExitLimitPrice(quote)), AtMarket}
    BY DEF CloseWith
  <1>7. \A x : AtLimit(x).sent
    BY DEF AtLimit
  <1>8. AtMarket.sent
    BY DEF AtMarket
  <1> QED
    BY <1>4, <1>5, <1>6, <1>7, <1>8

\* A spot and a band give levels that are numbers.
LEMMA LevelsAreNumbers ==
  ASSUME NEW at \in Nat, NEW direction, NEW band \in Nat
  PROVE  /\ StopAndTarget(at, direction, band).stop \in Int
         /\ StopAndTarget(at, direction, band).target \in Int
  <1>1. FallbackStop \in Nat /\ StopMultiple \in Nat /\ RewardToRisk \in Nat
    BY ExitAssumption
  <1>2. StopDistance(band) \in Nat
    BY <1>1 DEF StopDistance
  <1>3. StopDistance(band) * RewardToRisk \in Nat
    BY <1>1, <1>2
  <1> HIDE DEF StopDistance
  <1> QED
    BY <1>2, <1>3 DEF StopAndTarget

-----------------------------------------------------------------------------
(***************************************************************************)
(* The invariant.                                                          *)
(***************************************************************************)
LEMMA InitIInv == Init => IInv
  <1> SUFFICES ASSUME Init PROVE IInv
    OBVIOUS
  <1> USE DEF Init, Held, Looked
  <1>1. TypeOK
    <2>1. position \in Positions
      BY DEF Positions, Flat
    <2>2. row \in Rows
      BY DEF Rows, NoRow
    <2>3. look \in Looks
      BY DEF NoLook, Nothing, Looks, Orders, Quotes
    <2> QED
      BY <2>1, <2>2, <2>3 DEF TypeOK
  <1> QED
    BY <1>1 DEF IInv, LookInv, PeakInv, FlatInv, FreshInv

\* What has just been opened is a position, and is not Flat.
LEMMA OpenedIsHeld ==
  ASSUME NEW c \in Chain, NEW strike \in Strikes, NEW paid \in c.bid .. c.ask,
         NEW mark \in c.bid .. c.ask
  PROVE  /\ PositionIn(c, strike, paid, mark) \in Positions
         /\ PositionIn(c, strike, paid, mark).right \in Rights
         /\ PositionIn(c, strike, paid, mark).entry_price > 0
         /\ paid \in Nat /\ paid > 0
  <1>1. /\ c.right \in Rights /\ c.days \in Nat /\ strike \in Nat
        /\ c.bid \in Nat \ {0} /\ c.ask \in Nat
    BY WatchAssumption
  <1>2. paid \in Nat /\ paid > 0 /\ mark \in Nat
    BY <1>1
  <1> QED
    BY <1>1, <1>2 DEF PositionIn, Positions

LEMMA NothingElseIsFlat ==
  /\ Flat.right \notin Rights
  /\ \A q : q.right \in Rights => q # Flat
  BY DEF Flat, Rights

\* While the market has not moved, a look reads a mark inside the quote that the
\* position was bought in, and the underlying within half its spread (market.py
\* 190-191, 428-432).
LEMMA UnmovedReads ==
  ASSUME NEW mark \in {position.current_price, Missing}, NEW stock \in StockQuotes,
         NEW c, NEW band, FreshFrom(c, band), spot \in Spots, position \in Positions
  PROVE  /\ PositionFromPayload(position, mark).current_price \in c.bid .. c.ask
         /\ StockPrice(stock) \in NearSpot
  <1>1. spot \in Nat /\ Half \in Nat /\ spot > Half
    BY WatchAssumption
  <1>2. stock.bid \in {spot - Half, Missing} /\ stock.ask \in {spot + Half, Missing}
    BY DEF StockQuotes
  <1>3. ToFloat(stock.bid, 0) \in {spot - Half, 0} /\ ToFloat(stock.ask, 0) \in {spot + Half, 0}
    BY <1>2 DEF ToFloat
  <1>4. StockPrice(stock) \in NearSpot
    BY <1>1, <1>3 DEF StockPrice, NearSpot
  <1>5. position.current_price \in c.bid .. c.ask /\ position.entry_price \in c.bid .. c.ask
    BY DEF FreshFrom
  <1>6. PositionFromPayload(position, mark).current_price
          \in {position.current_price, position.entry_price}
    BY DEF PositionFromPayload, ToFloat, Positions
  <1> QED
    BY <1>4, <1>5, <1>6

LEMMA LookKeepsIInv ==
  ASSUME IInv, NEW mark \in {position.current_price, Missing}, NEW stock \in StockQuotes,
         NEW answer \in Answers, Look(mark, stock, answer)
  PROVE  IInv'
  <1> DEFINE held == PositionFromPayload(position, mark)
             price == held.current_price
             seen == StockPrice(stock)
             marked == RaisePeak(row, price)
             rule == CheckExit(held, marked, seen)
             quote == IF rule = "hold" THEN NoQuote ELSE OptionQuote(answer)
             order == IF rule = "hold" THEN Nothing
                      ELSE CloseWith(held, rule, quote, seen, resting)
  <1>1. /\ Held /\ row' = marked
        /\ best' = IF price > best THEN price ELSE best
        /\ look' = [rule |-> rule, mark |-> price, spot |-> seen, quote |-> quote,
                    order |-> order]
        /\ resting' = (resting \/ order.sent)
        /\ position' = position /\ spot' = spot /\ unmoved' = unmoved
    BY DEF Look
  <1>2. /\ position \in Positions /\ row \in Rows /\ best \in Nat
        /\ spot \in Spots /\ resting \in BOOLEAN /\ unmoved \in BOOLEAN
    BY DEF IInv, TypeOK
  <1>a. /\ held \in Positions /\ price \in Nat
        /\ held = [position EXCEPT !.current_price = price]
    BY <1>2, ReadIsAPosition
  <1>b. seen \in Nat /\ quote \in Quotes
    BY <1>2, PriceIsANumber DEF Quotes
  <1> HIDE DEF held, price, seen, quote
  <1>3. marked \in Rows /\ (marked = NoRow <=> row = NoRow)
    <2>1. CASE row # NoRow /\ price > row.peak_premium
      <3>1. marked = [row EXCEPT !.peak_premium = price]
        BY <2>1 DEF RaisePeak
      <3>2. marked \in Rows /\ marked.direction = row.direction
        BY <3>1, <1>2, <1>a DEF Rows
      <3>3. row.direction # "none" /\ NoRow.direction = "none"
        BY <2>1 DEF IInv, TypeOK, NoRow
      <3> QED
        BY <2>1, <3>2, <3>3
    <2>2. CASE ~(row # NoRow /\ price > row.peak_premium)
      BY <2>2, <1>2 DEF RaisePeak
    <2> QED
      BY <2>1, <2>2
  <1>4. row # NoRow =>
          /\ marked.direction = row.direction /\ marked.entry_spot = row.entry_spot
          /\ marked.peak_premium >= row.peak_premium
          /\ marked.peak_premium >= price
    BY <1>2, <1>a DEF RaisePeak, Rows
  <1>5. rule \in Verdicts
    BY VerdictsOnly
  <1>6. order \in Orders /\ (order.sent = (rule # "hold")) /\ order.sent \in BOOLEAN
    <2>1. CASE rule = "hold"
      <3>1. order = Nothing
        BY <2>1
      <3>2. Nothing \in Orders /\ Nothing.sent = FALSE
        BY DEF Nothing, Orders
      <3> HIDE DEF rule, order
      <3> QED
        BY <2>1, <3>1, <3>2, Zenon
    <2>2. CASE rule # "hold"
      BY <1>2, <1>a, <1>b, <2>2, OrdersAreOrders DEF Orders
    <2> QED
      BY <2>1, <2>2
  <1>7. TypeOK'
    <2>1. look' \in Looks
      <3> HIDE DEF rule, order
      <3> QED
        BY <1>1, <1>a, <1>b, <1>5, <1>6 DEF Looks
    <2>2. Looked' => look'.order.sent = (look'.rule # "hold")
      <3> HIDE DEF rule, order
      <3> QED
        BY <1>1, <1>6
    <2>3. row' # NoRow => row'.direction # "none" /\ row'.entry_spot > 0 /\ row'.peak_premium > 0
      <3>1. row # NoRow => row.direction # "none" /\ row.entry_spot > 0 /\ row.peak_premium > 0
        BY DEF IInv, TypeOK
      <3>2. marked.peak_premium \in Nat /\ row.peak_premium \in Nat
        BY <1>2, <1>3 DEF Rows
      <3> HIDE DEF marked
      <3> QED
        BY <1>1, <1>3, <1>4, <3>1, <3>2
    <2>4. best' \in Nat /\ resting' \in BOOLEAN
      <3> HIDE DEF rule, order
      <3> QED
        BY <1>1, <1>2, <1>a, <1>6
    <2>5. Held' => position'.right \in Rights /\ position'.entry_price > 0
      BY <1>1 DEF IInv, TypeOK, Held
    <2> HIDE DEF marked
    <2> QED
      BY <1>1, <1>2, <1>3, <2>1, <2>2, <2>3, <2>4, <2>5 DEF TypeOK
  <1>8. LookInv'
    <2>0. Seen' = held
      BY <1>1, <1>a DEF Seen
    <2>1. look'.rule = CheckExit(Seen', row', look'.spot)
      BY <1>1, <2>0
    <2>2. look'.rule # "hold" =>
            look'.order = CloseWith(Seen', look'.rule, look'.quote, look'.spot, resting)
      BY <1>1, <2>0
    <2> HIDE DEF rule, order, marked
    <2> QED
      BY <1>2, <2>1, <2>2 DEF LookInv
  <1>9. PeakInv'
    <2>1. row # NoRow => best <= row.peak_premium
      BY DEF IInv, PeakInv
    <2>2. marked.peak_premium \in Nat /\ row.peak_premium \in Nat
      BY <1>2, <1>3 DEF Rows
    <2> HIDE DEF marked
    <2> QED
      BY <1>1, <1>2, <1>a, <1>3, <1>4, <2>1, <2>2 DEF PeakInv
  <1>10. FlatInv'
    BY <1>1 DEF FlatInv, Held
  <1>11. FreshInv'
    <2> SUFFICES ASSUME unmoved PROVE \E c \in Chain, band \in Bands : FreshFrom(c, band)'
      BY <1>1 DEF FreshInv
    <2>1. PICK c \in Chain, band \in Bands : FreshFrom(c, band)
      BY DEF IInv, FreshInv
    <2>2. price \in c.bid .. c.ask /\ seen \in NearSpot
      BY <1>2, <2>1, UnmovedReads DEF price, seen, held
    <2>3. row.peak_premium \in c.bid .. c.ask
      BY <2>1 DEF FreshFrom
    <2>4. /\ marked.peak_premium \in {row.peak_premium, price}
          /\ marked.stop_spot = row.stop_spot /\ marked.target_spot = row.target_spot
          /\ marked.direction = row.direction
      BY <1>2 DEF RaisePeak, Rows
    <2>5. look'.mark = price /\ look'.spot = seen /\ NearSpot' = NearSpot
      <3> HIDE DEF rule, order
      <3> QED
        BY <1>1 DEF NearSpot
    <2> HIDE DEF marked, rule, order
    <2>6. FreshFrom(c, band)'
      BY <1>1, <2>1, <2>2, <2>3, <2>4, <2>5 DEF FreshFrom
    <2> QED
      BY <2>6
  <1> QED
    BY <1>7, <1>8, <1>9, <1>10, <1>11 DEF IInv

\* However a position is opened, its row starts at what was paid.
LEMMA OpeningKeepsIInv ==
  ASSUME IInv, NEW c \in Chain, NEW strike \in Strikes, NEW paid \in c.bid .. c.ask,
         NEW mark \in c.bid .. c.ask,
         \/ \E close \in Closes, band \in Bands : Opened(c, strike, close, band, paid, mark)
         \/ NotOurs(c, strike, paid, mark)
  PROVE  IInv'
  <1>1. /\ ~Held /\ position' = PositionIn(c, strike, paid, mark) /\ spot' = spot
        /\ resting' = resting /\ look' = look /\ best' = best
    BY DEF Opened, NotOurs
  <1>2. row = NoRow /\ best = 0 /\ ~resting /\ ~Looked
    BY <1>1 DEF IInv, FlatInv
  <1>3. position' \in Positions /\ position'.right \in Rights /\ position'.entry_price > 0
    BY <1>1, OpenedIsHeld
  <1>4. paid \in Nat /\ paid > 0 /\ spot \in Nat \ {0}
    BY OpenedIsHeld, WatchAssumption DEF IInv, TypeOK
  <1>5. /\ row' \in Rows
        /\ row' # NoRow => row'.direction # "none" /\ row'.entry_spot > 0 /\ row'.peak_premium > 0
        /\ unmoved' \in BOOLEAN
    <2>1. ASSUME NEW close \in Closes, NEW band \in Bands, Opened(c, strike, close, band, paid, mark)
          PROVE  /\ row' \in Rows /\ unmoved' \in BOOLEAN
                 /\ row'.direction # "none" /\ row'.entry_spot > 0 /\ row'.peak_premium > 0
      <3> DEFINE levels == StopAndTarget(close, DirectionOf(c.right), band)
      <3>1. levels.stop \in Int /\ levels.target \in Int
        BY LevelsAreNumbers, WatchAssumption
      <3>2. row' = [direction |-> DirectionOf(c.right), entry_spot |-> close,
                    stop_spot |-> levels.stop, target_spot |-> levels.target,
                    peak_premium |-> paid]
        BY <2>1 DEF Opened, OpenHolding
      <3>3. DirectionOf(c.right) \in {"up", "down"}
        BY DEF DirectionOf
      <3>4. unmoved' \in BOOLEAN
        BY <2>1 DEF Opened
      <3>5. close \in Nat \ {0}
        BY WatchAssumption
      <3> HIDE DEF levels
      <3> QED
        BY <1>4, <3>1, <3>2, <3>3, <3>4, <3>5 DEF Rows
    <2>2. CASE NotOurs(c, strike, paid, mark)
      BY <2>2 DEF NotOurs, IInv, TypeOK
    <2> QED
      BY <2>1, <2>2
  <1>6. TypeOK'
    BY <1>1, <1>3, <1>5 DEF IInv, TypeOK, Looked
  <1>7. Held' /\ ~Looked'
    BY <1>1, <1>2, <1>3, NothingElseIsFlat DEF Held, Looked
  <1>8. PeakInv'
    BY <1>1, <1>2, <1>5 DEF PeakInv, Rows
  <1>9. FreshInv'
    <2> SUFFICES ASSUME unmoved'
                 PROVE  \E d \in Chain, band \in Bands : FreshFrom(d, band)'
      BY DEF FreshInv
    <2>1. ~NotOurs(c, strike, paid, mark)
      BY <1>1 DEF NotOurs, IInv, FlatInv
    <2>2. PICK close \in Closes, band \in Bands : Opened(c, strike, close, band, paid, mark)
      BY <2>1
    <2>3. close = spot
      BY <2>2 DEF Opened
    <2>4. /\ row'.stop_spot = StopAndTarget(spot, DirectionOf(c.right), band).stop
          /\ row'.target_spot = StopAndTarget(spot, DirectionOf(c.right), band).target
          /\ row'.direction = DirectionOf(c.right) /\ row'.peak_premium = paid
      BY <2>2, <2>3 DEF Opened, OpenHolding
    <2>5. /\ position'.days = c.days /\ position'.entry_price = paid
          /\ position'.current_price = mark
      BY <1>1 DEF PositionIn
    <2>6. RightContract(c)
      BY <2>2 DEF Opened
    <2>7. FreshFrom(c, band)'
      BY <1>1, <1>7, <2>4, <2>5, <2>6 DEF FreshFrom
    <2> QED
      BY <2>7
  <1> QED
    BY <1>6, <1>7, <1>8, <1>9 DEF IInv, LookInv, FlatInv

LEMMA NextIInv == IInv /\ [Next]_vars => IInv'
  <1> SUFFICES ASSUME IInv, [Next]_vars PROVE IInv'
    OBVIOUS
  <1>1. ASSUME NEW c \in Chain, NEW strike \in Strikes, NEW paid \in c.bid .. c.ask,
               NEW mark \in c.bid .. c.ask,
               \/ \E close \in Closes, band \in Bands : Opened(c, strike, close, band, paid, mark)
               \/ NotOurs(c, strike, paid, mark)
        PROVE  IInv'
    BY <1>1, OpeningKeepsIInv
  <1>2. ASSUME NEW mark \in {position.current_price, Missing}, NEW stock \in StockQuotes,
               NEW answer \in Answers, Look(mark, stock, answer)
        PROVE  IInv'
    BY <1>2, LookKeepsIInv
  <1>3. CASE PassEnds
    <2>1. look' \in Looks
      BY <1>3 DEF PassEnds, NoLook, Nothing, Looks, Orders, Quotes
    <2>2. ~Looked'
      BY <1>3 DEF PassEnds, Looked
    <2>3. FreshInv'
      BY <1>3, <2>2 DEF PassEnds, IInv, FreshInv, FreshFrom
    <2> QED
      BY <1>3, <2>1, <2>2, <2>3 DEF PassEnds, IInv, TypeOK, LookInv, PeakInv, FlatInv, Held
  <1>4. ASSUME NEW mark \in Marks, NEW to \in Spots, NEW days \in Days,
               MarketMoves(mark, to, days)
        PROVE  IInv'
    <2>1. position' \in Positions /\ position'.right = position.right
            /\ position'.entry_price = position.entry_price
      BY <1>4, WatchAssumption DEF MarketMoves, IInv, TypeOK, Positions
    <2>2. Held' /\ position.right \in Rights /\ position.entry_price > 0
      BY <1>4, <2>1, NothingElseIsFlat DEF MarketMoves, IInv, TypeOK, Held
    <2>3. ~Looked'
      BY <1>4 DEF MarketMoves, Looked
    <2>4. row' = row /\ resting' = resting /\ look' = look /\ best' = best
            /\ unmoved' = FALSE /\ spot' = to
      BY <1>4 DEF MarketMoves
    <2>5. TypeOK'
      BY <2>1, <2>2, <2>3, <2>4 DEF IInv, TypeOK
    <2> QED
      BY <2>2, <2>3, <2>4, <2>5 DEF IInv, LookInv, PeakInv, FlatInv, FreshInv
  <1>5. CASE ExitFills
    <2>1. position' \in Positions /\ ~Held'
      BY <1>5 DEF ExitFills, Positions, Flat, Held
    <2>2. row' \in Rows /\ row' = NoRow
      BY <1>5 DEF ExitFills, Rows, NoRow
    <2>3. look' = look /\ ~Looked' /\ best' = 0 /\ resting' = FALSE /\ unmoved' = FALSE /\ spot' = spot
      BY <1>5 DEF ExitFills, Looked
    <2> QED
      BY <2>1, <2>2, <2>3 DEF IInv, TypeOK, LookInv, PeakInv, FlatInv, FreshInv
  <1>6. CASE ExitExpires
    <2>1. FreshInv'
      BY <1>6 DEF ExitExpires, IInv, FreshInv, FreshFrom, Looked, NearSpot
    <2> QED
      BY <1>6, <2>1 DEF ExitExpires, IInv, TypeOK, LookInv, PeakInv, FlatInv, Held, Looked
  <1>7. CASE UNCHANGED vars
    <2>1. FreshInv'
      BY <1>7 DEF vars, IInv, FreshInv, FreshFrom, Looked, NearSpot
    <2> QED
      BY <1>7, <2>1 DEF vars, IInv, TypeOK, LookInv, PeakInv, FlatInv, Held, Looked, Seen
  <1> QED
    BY <1>1, <1>2, <1>3, <1>4, <1>5, <1>6, <1>7 DEF Next

THEOREM AlwaysIInv == Spec => []IInv
  BY InitIInv, NextIInv, PTL DEF Spec

\* What a look saw is the position but for its mark.
LEMMA SeenIsAPosition ==
  ASSUME TypeOK
  PROVE  /\ Seen \in Positions /\ Seen.current_price = look.mark /\ look.mark \in Nat
         /\ Seen.right = position.right /\ Seen.strike = position.strike
         /\ Seen.days = position.days /\ Seen.entry_price = position.entry_price
  BY DEF TypeOK, Seen, Positions, Looks

-----------------------------------------------------------------------------
(***************************************************************************)
(* The theorems.                                                           *)
(***************************************************************************)
\* Positions, rows and orders are what they should be (the state that a pass of
\* loop.py 395-436 reads and leaves).
THEOREM TypeCorrect == Spec => []TypeOK
  <1>1. IInv => TypeOK
    BY DEF IInv
  <1> QED
    BY <1>1, AlwaysIInv, PTL

\* A position that a pass keeps is above its floor and above its trail, whatever
\* the levels (exits.py 123-131, 195-240).
THEOREM KeptHasNotFallen == Spec => []WhatIsKeptHasNotFallen
  <1>1. IInv => WhatIsKeptHasNotFallen
    <2> SUFFICES ASSUME IInv, Looked, look.rule = "hold"
                 PROVE  /\ Honest * 100 > position.entry_price * (100 - StopLoss)
                        /\ (row # NoRow
                             /\ best * 100 >= position.entry_price * (100 + TrailingArm)) =>
                           Honest * 100 > best * (100 - TrailingStop)
      BY DEF WhatIsKeptHasNotFallen
    <2> DEFINE worth == MarkForStops(Seen, look.spot)
    <2>1. CheckExit(Seen, row, look.spot) = "hold"
      BY DEF IInv, LookInv
    <2>2. /\ position \in Positions /\ look.spot \in Nat /\ row \in Rows /\ best \in Nat
          /\ position.entry_price \in Nat /\ position.entry_price > 0
          /\ row.peak_premium \in Nat
      BY DEF IInv, TypeOK, FlatInv, Positions, Rows, Looks
    <2>s. Seen \in Positions /\ Seen.entry_price = position.entry_price
      BY SeenIsAPosition DEF IInv
    <2>3. Honest = worth /\ worth \in Nat
      <3>1. Intrinsic(Seen, look.spot) = Intrinsic(position, look.spot)
        BY SeenIsAPosition DEF IInv, Intrinsic
      <3>2. Seen.current_price = look.mark
        BY SeenIsAPosition DEF IInv
      <3> QED
        BY <2>2, <2>s, <3>1, <3>2, PricesAreNumbers DEF Honest, MarkForStops
    <2>4. StopLoss \in Nat /\ TrailingArm \in Nat /\ TrailingStop \in 0 .. 100
      BY ExitAssumption
    <2>5. ~Due(Precedence[3], Seen, row, look.spot)
            /\ ~Due(Precedence[4], Seen, row, look.spot)
      BY <2>1, KeptMeansNoneDue, RulesAreNumbered
    <2>6. ~AtFloor(Seen, look.spot) /\ ~Trailed(Seen, row, look.spot)
      BY <2>5, RulesByNumber DEF Due
    <2> HIDE DEF worth
    <2>7. Honest * 100 > position.entry_price * (100 - StopLoss)
      BY <2>2, <2>s, <2>3, <2>4, <2>6 DEF AtFloor, Lost, worth
    <2>8. ASSUME row # NoRow, best * 100 >= position.entry_price * (100 + TrailingArm)
          PROVE  Honest * 100 > best * (100 - TrailingStop)
      <3>1. best <= row.peak_premium /\ row.peak_premium > 0
        BY <2>8 DEF IInv, TypeOK, PeakInv
      <3>2. Gained(Seen, row.peak_premium, TrailingArm)
        <4>1. row.peak_premium * 100 >= best * 100
          BY <2>2, <3>1
        <4>2. position.entry_price * (100 + TrailingArm) \in Nat
          BY <2>2, <2>4
        <4> QED
          BY <2>2, <2>s, <2>4, <2>8, <4>1, <4>2 DEF Gained
      <3>3. ~(worth * 100 <= row.peak_premium * (100 - TrailingStop))
        BY <2>6, <3>1, <3>2 DEF Trailed, worth
      <3>4. 100 - TrailingStop \in Nat
        BY <2>4
      <3>5. row.peak_premium * (100 - TrailingStop) >= best * (100 - TrailingStop)
        BY <2>2, <3>1, <3>4, Z3
      <3>6. /\ row.peak_premium * (100 - TrailingStop) \in Int
            /\ best * (100 - TrailingStop) \in Int
        BY <2>2, <3>4
      <3> QED
        BY <2>3, <3>3, <3>5, <3>6
    <2> QED
      BY <2>7, <2>8
  <1> QED
    BY <1>1, AlwaysIInv, PTL

\* What the limit needs of the quotes: the bid is the lower side, as it is where
\* both sides are quoted, or the limit is the bid itself, as it is by default.
BidIsTheWorst == ExitAggression = 100 \/ \A q \in Quotes : q.bid <= q.ask

LEMMA LimitIsABid ==
  ASSUME BidIsTheWorst, NEW quote \in Quotes
  PROVE  ExitLimitPrice(quote) \in Int /\ ExitLimitPrice(quote) >= quote.bid
  <1> DEFINE wide == quote.ask - quote.bid
             part == wide * ExitAggression
  <1>1. quote.bid \in Nat /\ quote.ask \in Nat /\ ExitAggression \in 0 .. 100
    BY QuotesAreNumbers, ExitAssumption
  <1>2. part \in Int /\ wide \in Int
    BY <1>1
  <1>3. part <= wide * 100
    <2>1. CASE ExitAggression = 100
      BY <1>1, <2>1
    <2>2. CASE quote.bid <= quote.ask
      <3>1. wide \in Nat
        BY <1>1, <2>2
      <3> HIDE DEF wide
      <3> QED
        BY <1>1, <3>1, Z3
    <2> QED
      BY <2>1, <2>2 DEF BidIsTheWorst
  <1>4. ExitLimitPrice(quote) = quote.ask - (part + 50) \div 100
    BY DEF ExitLimitPrice
  <1> HIDE DEF part
  <1>5. (part + 50) \div 100 <= wide /\ (part + 50) \div 100 \in Int
    BY <1>2, <1>3
  <1> QED
    BY <1>1, <1>4, <1>5

\* No order gives a position away for less than exercise would bring (loop.py
\* 698-724, 763-787).
THEOREM NeverBelowExercise ==
  ASSUME BidIsTheWorst
  PROVE  Spec => []NeverSoldBelowExercise
  <1>1. IInv => NeverSoldBelowExercise
    <2> SUFFICES ASSUME IInv, look.order.sent
                 PROVE  IF look.order.market
                        THEN Intrinsic(position, look.spot) = 0
                               \/ look.quote.bid >= Intrinsic(position, look.spot)
                        ELSE look.order.limit >= Intrinsic(position, look.spot) - 2
      BY DEF NeverSoldBelowExercise
    <2> DEFINE worth == Intrinsic(position, look.spot)
    <2>1. Looked
      BY DEF Looked, NoLook, Nothing
    <2>2. position \in Positions /\ look.spot \in Nat /\ look.quote \in Quotes
      BY DEF IInv, TypeOK, Looks
    <2>3. PICK stale \in BOOLEAN :
            look.order = CloseWith(Seen, look.rule, look.quote, look.spot, stale)
      BY <2>1 DEF IInv, TypeOK, LookInv
    <2>s. Intrinsic(Seen, look.spot) = worth
      BY SeenIsAPosition DEF IInv, Intrinsic
    <2>4. worth \in Nat /\ look.quote.bid \in Nat /\ look.quote.ask \in Nat
            /\ ExitAggression \in 0 .. 100
      BY <2>2, PricesAreNumbers, QuotesAreNumbers, ExitAssumption
    <2> HIDE DEF worth
    <2>5. CASE BidIsBroken(Seen, look.quote, look.spot)
      BY <2>3, <2>s, <2>4, <2>5 DEF CloseWith, AtLimit, ProtectiveFloor, worth
    <2>6. CASE ~BidIsBroken(Seen, look.quote, look.spot)
      <3>1. worth = 0 \/ look.quote.bid >= worth
        BY <2>s, <2>4, <2>6 DEF BidIsBroken
      <3>2. CASE look.order = AtMarket
        BY <3>1, <3>2 DEF AtMarket, worth
      <3>3. CASE look.order = AtLimit(ExitLimitPrice(look.quote))
        <4>1. ~look.order.market /\ look.order.limit = ExitLimitPrice(look.quote)
          BY <3>3 DEF AtLimit
        <4>2. ExitLimitPrice(look.quote) >= look.quote.bid
          BY <2>2, LimitIsABid
        <4>3. ExitLimitPrice(look.quote) \in Int
          BY <2>4, LimitIsABid, <2>2
        <4> QED
          BY <2>4, <3>1, <4>1, <4>2, <4>3 DEF worth
      <3> QED
        BY <2>3, <2>6, <3>2, <3>3 DEF CloseWith
    <2> QED
      BY <2>5, <2>6
  <1> QED
    BY <1>1, AlwaysIInv, PTL

\* A stop that is due is due, and urgent, at every worse price (exits.py 223-231).
THEOREM WorsePricesSell == Spec => []WorsePricesSellToo
  <1>1. IInv => WorsePricesSellToo
    <2> SUFFICES ASSUME IInv, look.rule \in Urgent, NEW mark \in Marks,
                        mark < look.mark
                 PROVE  CheckExit([position EXCEPT !.current_price = mark], row, look.spot)
                          \in Urgent
      BY DEF WorsePricesSellToo
    <2> DEFINE worse == [position EXCEPT !.current_price = mark]
    <2>1. Looked
      <3>1. "none" \notin Urgent
        BY DEF Urgent
      <3> QED
        BY <3>1 DEF Looked, NoLook
    <2>2. CheckExit(Seen, row, look.spot) \in Urgent
      BY <2>1 DEF IInv, LookInv
    <2>3. /\ Seen \in Positions /\ look.spot \in Nat /\ row \in Rows /\ mark \in Nat
          /\ Seen.entry_price \in Nat /\ Seen.current_price = look.mark /\ look.mark \in Nat
          /\ row.peak_premium \in Nat /\ StopLoss \in 0 .. 100 /\ TrailingStop \in 0 .. 100
      BY WatchAssumption, ExitAssumption, SeenIsAPosition DEF IInv, TypeOK, Positions, Rows, Looks
    <2>4. /\ worse \in Positions /\ worse.right = Seen.right
          /\ worse.strike = Seen.strike /\ worse.days = Seen.days
          /\ worse.entry_price = Seen.entry_price /\ worse.current_price = mark
      BY <2>3, SeenIsAPosition DEF IInv, TypeOK, Positions
    <2> HIDE DEF worse
    <2>5. /\ ~Due(Precedence[1], Seen, row, look.spot)
          /\ \E i \in 2 .. 5 : Due(Precedence[i], Seen, row, look.spot)
      BY <2>2, UrgentMeansDue
    <2>6. ~Due(Precedence[1], worse, row, look.spot)
      BY <2>4, <2>5, RulesByNumber DEF Due
    <2>7. MarkForStops(worse, look.spot) <= MarkForStops(Seen, look.spot)
      <3>1. Intrinsic(worse, look.spot) = Intrinsic(Seen, look.spot)
        BY <2>4 DEF Intrinsic
      <3>2. Intrinsic(Seen, look.spot) \in Nat
        BY <2>3, PricesAreNumbers
      <3> QED
        BY <2>3, <2>4, <3>1, <3>2 DEF MarkForStops
    <2>8. MarkForStops(worse, look.spot) \in Nat /\ MarkForStops(Seen, look.spot) \in Nat
      BY <2>3, <2>4, PricesAreNumbers
    <2>9. AtFloor(Seen, look.spot) => AtFloor(worse, look.spot)
      <3>1. Seen.entry_price * (100 - StopLoss) \in Int
        BY <2>3
      <3> QED
        BY <2>3, <2>4, <2>7, <2>8, <3>1 DEF AtFloor, Lost
    <2>10. Trailed(Seen, row, look.spot) => Trailed(worse, row, look.spot)
      <3>1. row.peak_premium * (100 - TrailingStop) \in Int
        BY <2>3
      <3> QED
        BY <2>3, <2>4, <2>7, <2>8, <3>1 DEF Trailed, Gained
    <2>11. \E i \in 2 .. 5 : Due(Precedence[i], worse, row, look.spot)
      <3>1. PICK i \in 2 .. 5 : Due(Precedence[i], Seen, row, look.spot)
        BY <2>5
      <3>2. i \in {2, 3, 4, 5}
        OBVIOUS
      <3>3. CASE i = 2
        <4>1. Due(Precedence[3], worse, row, look.spot)
          BY <2>9, <3>1, <3>3, RulesByNumber DEF Due
        <4> QED
          BY <4>1
      <3>4. CASE i = 3
        BY <2>9, <3>1, <3>4, RulesByNumber DEF Due
      <3>5. CASE i = 4
        BY <2>10, <3>1, <3>5, RulesByNumber DEF Due
      <3>6. CASE i = 5
        BY <3>1, <3>6, RulesByNumber DEF Due
      <3> QED
        BY <3>2, <3>3, <3>4, <3>5, <3>6
    <2> QED
      BY <2>6, <2>11, DueMeansUrgent DEF worse
  <1> QED
    BY <1>1, AlwaysIInv, PTL

\* Of two prices inside a quote, neither is far enough from the other for a ratio
\* that the whole quote is narrower than.
LEMMA InsideTheQuote ==
  ASSUME NEW b \in Nat, NEW a \in Nat, NEW x \in b .. a, NEW y \in b .. a, b > 0,
         NEW p \in Nat, NEW q \in Nat, NEW r \in Nat, NEW t \in Nat,
         p > 0, q > 0, a * p <= b * q, q * r < p * t
  PROVE  y * r < x * t
  <1>1. a * r < b * t
    <2>1. a * p \in Nat /\ b * q \in Nat /\ q * r \in Nat /\ p * t \in Nat
      OBVIOUS
    <2>2. (a * p) * t <= (b * q) * t
      BY <2>1, Z3
    <2>3. a * (q * r) < a * (p * t)
      BY <2>1, Z3
    <2>4. q * (a * r) < q * (b * t)
      <3>1. q * (a * r) = a * (q * r) /\ a * (p * t) = (a * p) * t /\ q * (b * t) = (b * q) * t
        BY Z3
      <3> QED
        BY <2>2, <2>3, <3>1, Z3
    <2>5. a * r \in Nat /\ b * t \in Nat
      OBVIOUS
    <2> QED
      BY <2>4, <2>5, Z3
  <1>2. y * r <= a * r
    BY Z3
  <1>3. b * t <= x * t
    BY Z3
  <1>4. y * r \in Nat /\ a * r \in Nat /\ b * t \in Nat /\ x * t \in Nat
    OBVIOUS
  <1> QED
    BY <1>1, <1>2, <1>3, <1>4

LEMMA Distributes ==
  ASSUME NEW x \in Nat, NEW m \in Nat
  PROVE  /\ x * (200 - m) = 200 * x - x * m
         /\ x * (200 + m) = 200 * x + x * m
  BY Z3

\* The quote of a contract that the spread gate let through, as such a ratio
\* (gates.py 374-390).
LEMMA LetInIsNarrow ==
  ASSUME NEW c \in Chain, RightContract(c), Below(StopLoss)
  PROVE  /\ c.bid \in Nat /\ c.ask \in Nat /\ c.bid > 0
         /\ 200 - MaxSpread \in Nat /\ 200 - MaxSpread > 0
         /\ 200 + MaxSpread \in Nat /\ 200 + MaxSpread > 0
         /\ c.ask * (200 - MaxSpread) <= c.bid * (200 + MaxSpread)
  <1>1. c.bid \in Nat /\ c.ask \in Nat /\ c.bid > 0
    BY WatchAssumption
  <1>2. MaxSpread \in Nat /\ StopLoss \in 0 .. 100
    BY ContractAssumption, ExitAssumption
  <1>3. 200 - MaxSpread > 0
    <2>1. (200 + MaxSpread) * (100 - StopLoss) \in Nat
      BY <1>2
    <2> QED
      BY <1>2, <2>1 DEF Below
  <1>4. (2 * (c.ask - c.bid)) * 100 <= MaxSpread * (c.ask + c.bid)
    <2>1. SpreadOf(c) = <<2 * (c.ask - c.bid), c.ask + c.bid>>
      BY <1>1 DEF SpreadOf
    <2> QED
      BY <2>1 DEF RightContract, NarrowEnough
  <1>5. MaxSpread * (c.ask + c.bid) = c.ask * MaxSpread + c.bid * MaxSpread
    BY <1>1, <1>2, Z3
  <1>6. /\ c.ask * (200 - MaxSpread) = 200 * c.ask - c.ask * MaxSpread
        /\ c.bid * (200 + MaxSpread) = 200 * c.bid + c.bid * MaxSpread
    BY <1>1, <1>2, Distributes
  <1>7. c.ask * MaxSpread \in Nat /\ c.bid * MaxSpread \in Nat
    BY <1>1, <1>2
  <1> QED
    BY <1>1, <1>2, <1>3, <1>4, <1>5, <1>6, <1>7

\* Nothing of a premium is far from what was paid while the market has not moved.
LEMMA PremiumRulesAreQuiet ==
  ASSUME SettingsLeaveRoom, NEW c \in Chain, RightContract(c),
         NEW p \in Positions, NEW r \in Rows, NEW seen \in Nat,
         p.entry_price \in c.bid .. c.ask, p.current_price \in c.bid .. c.ask,
         r.peak_premium \in c.bid .. c.ask
  PROVE  /\ ~AtFloor(p, seen) /\ ~Trailed(p, r, seen)
         /\ ~Gained(p, p.current_price, TakeProfit)
         /\ ~Gained(p, p.current_price, PremiumTarget)
  <1> DEFINE low == 200 - MaxSpread
             high == 200 + MaxSpread
             worth == MarkForStops(p, seen)
  <1>1. /\ c.bid \in Nat /\ c.ask \in Nat /\ c.bid > 0 /\ low \in Nat /\ low > 0
        /\ high \in Nat /\ high > 0 /\ c.ask * low <= c.bid * high
    BY LetInIsNarrow DEF SettingsLeaveRoom
  <1>2. /\ StopLoss \in 0 .. 100 /\ TrailingStop \in 0 .. 100 /\ TrailingArm \in Nat
        /\ TakeProfit \in Nat /\ PremiumTarget \in Nat
    BY ExitAssumption DEF TakeProfit
  <1>3. /\ Below(StopLoss) /\ (Below(TrailingStop) \/ Above(TrailingArm))
        /\ Above(TakeProfit) /\ Above(PremiumTarget)
    BY DEF SettingsLeaveRoom
  <1>4. worth \in Nat /\ worth >= p.current_price /\ p.current_price \in Nat
    BY PricesAreNumbers DEF MarkForStops, Positions
  <1> HIDE DEF worth
  <1>5. ASSUME NEW pct \in 0 .. 100, Below(pct), NEW x \in c.bid .. c.ask, NEW y \in c.bid .. c.ask
        PROVE  y * (100 - pct) < x * 100
    <2>1. high * (100 - pct) < low * 100 /\ 100 - pct \in Nat
      BY <1>5 DEF Below
    <2> HIDE DEF low, high
    <2> QED
      BY <1>1, <2>1, InsideTheQuote
  <1>6. ASSUME NEW pct \in Nat, Above(pct), NEW x \in c.bid .. c.ask, NEW y \in c.bid .. c.ask
        PROVE  y * 100 < x * (100 + pct)
    <2>1. high * 100 < low * (100 + pct) /\ 100 + pct \in Nat
      BY <1>6 DEF Above
    <2> HIDE DEF low, high
    <2> QED
      BY <1>1, <2>1, InsideTheQuote
  <1> HIDE DEF low, high
  <1>7. ~AtFloor(p, seen)
    <2>1. p.entry_price * (100 - StopLoss) < p.current_price * 100
      BY <1>2, <1>3, <1>5
    <2>2. p.entry_price * (100 - StopLoss) \in Int /\ p.current_price * 100 \in Int
      BY <1>1, <1>2
    <2> QED
      BY <1>4, <2>1, <2>2 DEF AtFloor, Lost, worth
  <1>8. ~Trailed(p, r, seen)
    <2>1. CASE Below(TrailingStop)
      <3>1. r.peak_premium * (100 - TrailingStop) < p.current_price * 100
        BY <1>2, <1>5, <2>1
      <3>2. r.peak_premium * (100 - TrailingStop) \in Int /\ p.current_price * 100 \in Int
        BY <1>1, <1>2
      <3> QED
        BY <1>4, <3>1, <3>2 DEF Trailed, worth
    <2>2. CASE Above(TrailingArm)
      <3>1. r.peak_premium * 100 < p.entry_price * (100 + TrailingArm)
        BY <1>2, <1>6, <2>2
      <3>2. r.peak_premium * 100 \in Int /\ p.entry_price * (100 + TrailingArm) \in Int
        BY <1>1, <1>2
      <3> QED
        BY <3>1, <3>2 DEF Trailed, Gained
    <2> QED
      BY <1>3, <2>1, <2>2
  <1>9. ASSUME NEW pct \in Nat, Above(pct) PROVE ~Gained(p, p.current_price, pct)
    <2>1. p.current_price * 100 < p.entry_price * (100 + pct)
      BY <1>6, <1>9
    <2>2. p.current_price * 100 \in Int /\ p.entry_price * (100 + pct) \in Int
      BY <1>1
    <2> QED
      BY <2>1, <2>2 DEF Gained
  <1> QED
    BY <1>2, <1>3, <1>7, <1>8, <1>9

\* Nor is the underlying near its levels.
LEMMA LevelsAreApart ==
  ASSUME SettingsLeaveRoom, spot \in Spots, NEW band \in Bands, NEW seen \in NearSpot, seen > 0,
         NEW r \in Rows, r.direction \in {"up", "down"},
         r.stop_spot = StopAndTarget(spot, r.direction, band).stop,
         r.target_spot = StopAndTarget(spot, r.direction, band).target
  PROVE  ~BreachedStop(r, seen) /\ ~ReachedTarget(r, seen)
  <1> DEFINE stop == StopDistance(band)
             target == stop * RewardToRisk
  <1>1. spot \in Nat /\ Half \in Nat /\ band \in Nat /\ FallbackStop \in Nat
          /\ StopMultiple \in Nat /\ RewardToRisk \in Nat
    BY WatchAssumption, ExitAssumption
  <1>2. stop \in Nat
    BY <1>1 DEF StopDistance
  <1>3. 100 * Half < spot * stop /\ 100 * Half < spot * target
    <2>1. 100 * Half < spot * stop * RewardToRisk
      BY DEF SettingsLeaveRoom
    <2>2. spot * stop * RewardToRisk = spot * target
      <3> HIDE DEF stop
      <3> QED
        BY <1>1, <1>2, Z3
    <2> QED
      BY <2>1, <2>2 DEF SettingsLeaveRoom
  <1>4. r.direction = "up" =>
          /\ r.stop_spot = spot * (100 - stop) /\ r.target_spot = spot * (100 + target)
    BY DEF StopAndTarget
  <1>5. r.direction = "down" =>
          /\ r.stop_spot = spot * (100 + stop) /\ r.target_spot = spot * (100 - target)
    BY DEF StopAndTarget
  <1> HIDE DEF stop
  <1>6. target \in Nat
    BY <1>1, <1>2
  <1> HIDE DEF target
  <1>7. /\ spot * (100 - stop) = 100 * spot - spot * stop
        /\ spot * (100 + stop) = 100 * spot + spot * stop
        /\ spot * (100 - target) = 100 * spot - spot * target
        /\ spot * (100 + target) = 100 * spot + spot * target
    BY <1>1, <1>2, <1>6, Z3
  <1>8. spot * stop \in Nat /\ spot * target \in Nat
    BY <1>1, <1>2, <1>6
  <1>9. seen \in Int /\ seen >= spot - Half /\ seen <= spot + Half
    BY <1>1 DEF NearSpot
  <1>10. CASE r.direction = "up"
    BY <1>1, <1>3, <1>4, <1>7, <1>8, <1>9, <1>10 DEF BreachedStop, ReachedTarget
  <1>11. CASE r.direction = "down"
    BY <1>1, <1>3, <1>5, <1>7, <1>8, <1>9, <1>11 DEF BreachedStop, ReachedTarget
  <1> QED
    BY <1>10, <1>11

\* What the gates let in is kept until the market moves, for all settings that
\* leave the room for it (gates.py 392-418).
THEOREM NewOnesAreKept ==
  ASSUME SettingsLeaveRoom
  PROVE  Spec => []NewPositionsAreKept
  <1>1. IInv => NewPositionsAreKept
    <2> SUFFICES ASSUME IInv, Looked, unmoved PROVE look.rule = "hold"
      BY DEF NewPositionsAreKept
    <2>1. PICK c \in Chain, band \in Bands : FreshFrom(c, band)
      BY DEF IInv, FreshInv
    <2>2. /\ Seen \in Positions /\ Seen.current_price = look.mark
          /\ Seen.days = position.days /\ Seen.entry_price = position.entry_price
      BY SeenIsAPosition DEF IInv
    <2>3. /\ row \in Rows /\ look.spot \in Nat /\ spot \in Spots /\ position \in Positions
      BY DEF IInv, TypeOK, Looks
    <2>4. /\ ~AtFloor(Seen, look.spot) /\ ~Trailed(Seen, row, look.spot)
          /\ ~Gained(Seen, Seen.current_price, TakeProfit)
          /\ ~Gained(Seen, Seen.current_price, PremiumTarget)
      BY <2>1, <2>2, <2>3, PremiumRulesAreQuiet DEF FreshFrom
    <2>5. Keyed(row, look.spot) =>
            ~BreachedStop(row, look.spot) /\ ~ReachedTarget(row, look.spot)
      <3>1. SUFFICES ASSUME Keyed(row, look.spot)
                     PROVE  ~BreachedStop(row, look.spot) /\ ~ReachedTarget(row, look.spot)
        OBVIOUS
      <3>2. row.direction \in {"up", "down"} /\ look.spot > 0
        BY <2>3, <3>1 DEF Keyed, IInv, TypeOK, Rows
      <3> QED
        BY <2>1, <2>3, <3>2, LevelsAreApart DEF FreshFrom
    <2>6. ~(Seen.days <= CloseOut)
      <3>1. c.days > CloseBeforeExpiry /\ position.days = c.days
        BY <2>1 DEF FreshFrom, RightContract, InExpiryWindow
      <3>2. c.days \in Nat /\ CloseBeforeExpiry \in Nat /\ CloseOut = CloseBeforeExpiry
        BY WatchAssumption, ContractAssumption
      <3> QED
        BY <2>2, <3>1, <3>2
    <2>7. \A i \in DOMAIN Precedence : ~Due(Precedence[i], Seen, row, look.spot)
      <3> TAKE i \in DOMAIN Precedence
      <3>1. i \in {1, 2, 3, 4, 5, 6, 7}
        BY RulesAreNumbered
      <3>2. CASE i = 1
        BY <2>6, <3>2, RulesByNumber DEF Due
      <3>3. CASE i = 2
        BY <2>4, <3>3, RulesByNumber DEF Due
      <3>4. CASE i = 3
        BY <2>4, <3>4, RulesByNumber DEF Due
      <3>5. CASE i = 4
        BY <2>4, <3>5, RulesByNumber DEF Due
      <3>6. CASE i = 5
        BY <2>5, <3>6, RulesByNumber DEF Due
      <3>7. CASE i = 6
        BY <2>4, <2>5, <3>7, RulesByNumber DEF Due
      <3>8. CASE i = 7
        BY <2>4, <3>8, RulesByNumber DEF Due
      <3> QED
        BY <3>1, <3>2, <3>3, <3>4, <3>5, <3>6, <3>7, <3>8
    <2>8. CheckExit(Seen, row, look.spot) = "hold"
      BY <2>7 DEF CheckExit
    <2> QED
      BY <2>8 DEF IInv, LookInv
  <1> QED
    BY <1>1, AlwaysIInv, PTL

=============================================================================
