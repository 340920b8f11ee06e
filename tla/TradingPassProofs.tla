-------------------------- MODULE TradingPassProofs --------------------------
(***************************************************************************)
(* What holds of every account, watchlist, limit and history: the type     *)
(* invariant of TradingPass and the properties that need nothing of the    *)
(* broker, for every value of the constants and every mishap.              *)
(*                                                                         *)
(* None of the properties is inductive.  Each gets the conjunct that says  *)
(* where in a pass its danger lies, what the pass has made sure of by      *)
(* then, and why the broker's moves in between cannot take that away.      *)
(***************************************************************************)
EXTENDS TradingPass, TLAPS

-----------------------------------------------------------------------------
(***************************************************************************)
(* The initial states and the steps.                                       *)
(***************************************************************************)
\* A mishap keeps to the bound on mishaps.
LEMMA MishapCounts ==
  ASSUME TypeOK, NEW kind, Mishap(kind)
  PROVE  mishaps' \in 0 .. MaxMishaps
  BY PassAssumption DEF TypeOK, Mishap

\* The initial states have the types and the places the invariant asks for.
LEMMA InitIInv == Init => IInv
<1> SUFFICES ASSUME Init PROVE IInv
  OBVIOUS
<1>1. TypeOK
  <2>1. /\ BrokerTypeOK
        /\ passes \in 0 .. PassesPerDay
        /\ mishaps \in 0 .. MaxMishaps
        /\ cooling \in [Underlying -> 0 .. CooldownDays]
    BY PassAssumption, CooldownAssumption DEF Init, BrokerTypeOK
  <2>. QED
    BY <2>1 DEF Init, TypeOK, JournalTypeOK, Places
<1>2. SessionInv /\ ForbiddenInv
  BY DEF Init, SessionInv, ForbiddenInv
<1>3. SalesInv
  BY DEF Init, SalesInv, Booking, Reconciling, Exiting, Looking
<1>. QED
  BY <1>1, <1>2, <1>3 DEF IInv

\* No step leaves the types.
LEMMA TypeStep == TypeOK /\ [Next]_vars => TypeOK'
<1> SUFFICES ASSUME TypeOK, [Next]_vars
             PROVE  TypeOK'
  OBVIOUS
<1> USE UnderlyingAssumption, CooldownAssumption, PassAssumption
    DEF TypeOK, BrokerTypeOK, JournalTypeOK, Places,
        outsideVars, brokerVars, journalVars, dayVars, modeVars,
        viewVars, loopVars, exitVars, entryVars
<1>1. ASSUME NEW only \in BOOLEAN, StartPass(only)
      PROVE  TypeOK'
  BY <1>1
     DEF StartPass, At, FreshLocals, Fine
<1>2. CASE Crash \/ AbortedRead \/ MarketClosed \/ ExitsOnlyDone \/
           SessionUnconfirmed
  BY <1>2, MishapCounts
     DEF Crash, AbortedRead, MarketClosed, ExitsOnlyDone, SessionUnconfirmed,
         At, EndPass, FreshLocals, Fine
<1>3. CASE NewDay
  <2>1. cooling' \in [Underlying -> 0 .. CooldownDays]
    BY <1>3 DEF NewDay, DateChanges, SessionsLeft
  <2>2. passes' \in 0 .. PassesPerDay /\ mishaps' \in 0 .. MaxMishaps
    BY <1>3, MishapCounts DEF NewDay, Fine
  <2>. QED
    BY <1>3, <2>1, <2>2 DEF NewDay, At, DayOrdersExpire, DateChanges
<1>4. ASSUME NEW c \in Contract, BrokerMoves(c)
      PROVE  TypeOK'
  BY <1>4
     DEF BrokerMoves, BuyFills, BuyPartlyFills, SellFills, LeavesUnasked,
         Fine, Mishap
<1>5. CASE ReadBook
  BY <1>5
     DEF ReadBook, At, Fine
<1>6. CASE ClockConfirmsOpen
  BY <1>6
     DEF ClockConfirmsOpen, At, Fine
<1>7. CASE ClockUnavailable
  BY <1>7
     DEF ClockUnavailable, At, Mishap
<1>8. ASSUME NEW c \in Contract, BookSale(c)
      PROVE  TypeOK'
  BY <1>8
     DEF BookSale, At, Fine, CompletedSales, RecordClosed
<1>9. ASSUME NEW c \in Contract, ClearBookedRow(c) \/ DropUnfilledRow(c) \/
                                 ClearStrayRow(c)
      PROVE  TypeOK'
  BY <1>9
     DEF ClearBookedRow, DropUnfilledRow, ClearStrayRow, At, Fine,
         CloseHolding
<1>10. ASSUME NEW c \in Contract, BookStray(c)
       PROVE  TypeOK'
  BY <1>10
     DEF BookStray, At, Fine, RecordClosed
<1>11. CASE SalesAllBooked \/ ReadPendingBuys \/ ReadFillHistory \/
            ReconcileUnread \/ Reconciled
  BY <1>11
     DEF SalesAllBooked, ReadPendingBuys, ReadFillHistory, ReconcileUnread,
         Reconciled, At, Fine, StaleRows, CompletedSales, Mishap
<1>12. CASE AnnounceFills \/ ReadRestingExits \/ ExitsDone
  BY <1>12
     DEF AnnounceFills, ReadRestingExits, ExitsDone, At, Fine, RecordOpened,
         UnannouncedFills, Mishap
<1>13. ASSUME NEW c \in Contract, ExitNotDue(c) \/ ExitDue(c)
       PROVE  TypeOK'
  <2>1. CASE ExitNotDue(c)
    BY <2>1 DEF ExitNotDue, At, Fine
  <2>2. CASE ExitDue(c)
    <3>1. PICK verdict \in Verdicts \ {"hold"}, quote \in Quotes, in_the_money \in InTheMoney :
             ExitFinds(c, verdict, quote, in_the_money)
      BY <2>2 DEF ExitDue
    <3>2. NamesAPrice(verdict, quote, in_the_money, c \in resting_exits) \in BOOLEAN
      BY DEF NamesAPrice
    <3>3. asLimit' \in BOOLEAN
      BY <3>1, <3>2 DEF ExitFinds
    <3>. QED
      BY <3>1, <3>3 DEF ExitFinds, At, Fine
  <2>. QED
    BY <1>13, <2>1, <2>2
<1>14. ASSUME NEW c \in Contract, CancelStaleExit(c)
       PROVE  TypeOK'
  BY <1>14
     DEF CancelStaleExit, At, Fine, Mishap, CancelSell
<1>15. ASSUME NEW c \in Contract, SellAccepted(c) \/ SellFailed(c)
       PROVE  TypeOK'
  BY <1>15, MishapCounts
     DEF SellAccepted, SellFailed, At, Fine, AcceptSell
<1>16. ASSUME NEW c \in Contract, RecordSale(c)
       PROVE  TypeOK'
  BY <1>16
     DEF RecordSale, At, Fine, RecordSold
<1>17. CASE Reread
  BY <1>17, MishapCounts
     DEF Reread, At, Fine
<1>18. CASE ReadRestingEntries
  BY <1>18
     DEF ReadRestingEntries, At, Fine, Mishap
<1>19. CASE EntriesRefreshed \/ ReadPending
  BY <1>19
     DEF EntriesRefreshed, ReadPending, At, Fine, UnderlyingsOf
<1>20. ASSUME NEW c \in Contract, EntryLeftAlone(c) \/ EntryAbandoned(c) \/
                                  RepriceCancels(c) \/ RepriceCannotCancel(c)
       PROVE  TypeOK'
  BY <1>20
     DEF EntryLeftAlone, EntryAbandoned, RepriceCancels, RepriceCannotCancel,
         At, Fine, Mishap, CancelBuy
<1>21. ASSUME NEW c \in Contract, RepriceUnverified(c)
       PROVE  TypeOK'
  BY <1>21, MishapCounts
     DEF RepriceUnverified, At, EndPass, FreshLocals
<1>22. ASSUME NEW c \in Contract, Resubmitted(c) \/ ResubmitFailed(c)
       PROVE  TypeOK'
  BY <1>22, MishapCounts
     DEF Resubmitted, ResubmitFailed, At, Fine, AcceptBuy, EndPass,
         FreshLocals
<1>23. CASE ScreenAndPropose
  BY <1>23
     DEF ScreenAndPropose, At, Fine, RecordDecision
<1>24. ASSUME NEW u \in Underlying, WalkRefuses(u)
       PROVE  TypeOK'
  BY <1>24
     DEF WalkRefuses, At, Fine, RecordDecision
<1>25. ASSUME NEW c \in Contract, WalkApproves(c)
       PROVE  TypeOK'
  BY <1>25
     DEF WalkApproves, At, Fine, RecordDecision
<1>26. ASSUME NEW c \in Contract, BuyAccepted(c) \/ BuyFailed(c)
       PROVE  TypeOK'
  BY <1>26
     DEF BuyAccepted, BuyFailed, At, Fine, AcceptBuy, Mishap
<1>27. ASSUME NEW c \in Contract, RecordOrder(c)
       PROVE  TypeOK'
  BY <1>27
     DEF RecordOrder, At, Fine, OpenHolding
<1>28. CASE WalkDone
  BY <1>28
     DEF WalkDone, At, Fine
<1>29. CASE Finish
  BY <1>29, MishapCounts
     DEF Finish, At, Fine, RecordOpened, UnannouncedFills, EndPass,
         FreshLocals
<1>30. CASE UNCHANGED vars
  BY <1>30 DEF vars
<1>. QED
  BY <1>1, <1>2, <1>3, <1>4, <1>5, <1>6, <1>7, <1>8, <1>9, <1>10, <1>11,
     <1>12, <1>13, <1>14, <1>15, <1>16, <1>17, <1>18, <1>19, <1>20, <1>21,
     <1>22, <1>23, <1>24, <1>25, <1>26, <1>27, <1>28, <1>29, <1>30
     DEF Next, PassStep, Advance, HandleContract

\* The clock is asked before anything is opened, and a date changes only
\* between passes: no decision is dated on a day without a session.
LEMMA SessionStep == IInv /\ [Next]_vars => SessionInv'
<1> SUFFICES ASSUME IInv, [Next]_vars
             PROVE  SessionInv'
  OBVIOUS
<1> USE DEF IInv, SessionInv,
            outsideVars, brokerVars, journalVars, dayVars, modeVars, viewVars,
            loopVars, exitVars, entryVars
<1>1. ASSUME NEW only \in BOOLEAN, StartPass(only)
      PROVE  SessionInv'
  BY <1>1
     DEF StartPass, At, FreshLocals, Fine
<1>2. CASE Crash \/ AbortedRead \/ MarketClosed \/ ExitsOnlyDone \/
           SessionUnconfirmed
  BY <1>2
     DEF Crash, AbortedRead, MarketClosed, ExitsOnlyDone, SessionUnconfirmed,
         At, EndPass, FreshLocals, Mishap, Fine
<1>3. CASE NewDay
  BY <1>3
     DEF NewDay, At, DayOrdersExpire, DateChanges, SessionsLeft, Fine, Mishap
<1>4. ASSUME NEW c \in Contract, BrokerMoves(c)
      PROVE  SessionInv'
  BY <1>4
     DEF BrokerMoves, BuyFills, BuyPartlyFills, SellFills, LeavesUnasked,
         Fine, Mishap
<1>5. CASE ReadBook
  BY <1>5
     DEF ReadBook, At, Fine
<1>6. CASE ClockConfirmsOpen \/ ClockUnavailable
  BY <1>6
     DEF ClockConfirmsOpen, ClockUnavailable, At, Fine, Mishap
<1>7. ASSUME NEW c \in Contract, BookSale(c)
      PROVE  SessionInv'
  BY <1>7
     DEF BookSale, At, Fine, CompletedSales, RecordClosed
<1>8. ASSUME NEW c \in Contract, ClearBookedRow(c) \/ DropUnfilledRow(c) \/
                                 ClearStrayRow(c)
      PROVE  SessionInv'
  BY <1>8
     DEF ClearBookedRow, DropUnfilledRow, ClearStrayRow, At, Fine,
         CloseHolding
<1>9. ASSUME NEW c \in Contract, BookStray(c)
      PROVE  SessionInv'
  BY <1>9
     DEF BookStray, At, Fine, RecordClosed
<1>10. CASE SalesAllBooked \/ ReadPendingBuys \/ ReadFillHistory \/
            ReconcileUnread \/ Reconciled
  BY <1>10
     DEF SalesAllBooked, ReadPendingBuys, ReadFillHistory, ReconcileUnread,
         Reconciled, At, Fine, StaleRows, CompletedSales, Mishap
<1>11. CASE AnnounceFills \/ ReadRestingExits \/ ExitsDone
  BY <1>11
     DEF AnnounceFills, ReadRestingExits, ExitsDone, At, Fine, RecordOpened,
         UnannouncedFills, Mishap
<1>12. ASSUME NEW c \in Contract, ExitNotDue(c) \/ ExitDue(c) \/
                                  CancelStaleExit(c)
       PROVE  SessionInv'
  BY <1>12
     DEF ExitNotDue, ExitDue, ExitFinds, CancelStaleExit, At, Fine, Mishap, CancelSell
<1>13. ASSUME NEW c \in Contract, SellAccepted(c) \/ SellFailed(c)
       PROVE  SessionInv'
  BY <1>13
     DEF SellAccepted, SellFailed, At, Fine, AcceptSell, Mishap
<1>14. ASSUME NEW c \in Contract, RecordSale(c)
       PROVE  SessionInv'
  BY <1>14
     DEF RecordSale, At, Fine, RecordSold
<1>15. CASE Reread \/ ReadRestingEntries \/ EntriesRefreshed \/ ReadPending
  BY <1>15
     DEF Reread, ReadRestingEntries, EntriesRefreshed, ReadPending, At, Fine,
         Mishap, UnderlyingsOf
<1>16. ASSUME NEW c \in Contract, EntryLeftAlone(c) \/ EntryAbandoned(c) \/
                                  RepriceCancels(c) \/ RepriceCannotCancel(c)
       PROVE  SessionInv'
  BY <1>16
     DEF EntryLeftAlone, EntryAbandoned, RepriceCancels, RepriceCannotCancel,
         At, Fine, Mishap, CancelBuy
<1>17. ASSUME NEW c \in Contract, RepriceUnverified(c)
       PROVE  SessionInv'
  BY <1>17
     DEF RepriceUnverified, At, Mishap, EndPass, FreshLocals
<1>18. ASSUME NEW c \in Contract, Resubmitted(c) \/ ResubmitFailed(c)
       PROVE  SessionInv'
  BY <1>18
     DEF Resubmitted, ResubmitFailed, At, Fine, AcceptBuy, Mishap, EndPass,
         FreshLocals
<1>19. CASE ScreenAndPropose
  BY <1>19
     DEF ScreenAndPropose, At, Fine, RecordDecision
<1>20. ASSUME NEW u \in Underlying, WalkRefuses(u)
       PROVE  SessionInv'
  BY <1>20
     DEF WalkRefuses, At, Fine, RecordDecision
<1>21. ASSUME NEW c \in Contract, WalkApproves(c)
       PROVE  SessionInv'
  BY <1>21
     DEF WalkApproves, At, Fine, RecordDecision
<1>22. ASSUME NEW c \in Contract, BuyAccepted(c) \/ BuyFailed(c)
       PROVE  SessionInv'
  BY <1>22
     DEF BuyAccepted, BuyFailed, At, Fine, AcceptBuy, Mishap
<1>23. ASSUME NEW c \in Contract, RecordOrder(c)
       PROVE  SessionInv'
  BY <1>23
     DEF RecordOrder, At, Fine, OpenHolding
<1>24. CASE WalkDone \/ Finish
  BY <1>24
     DEF WalkDone, Finish, At, Fine, Mishap, RecordOpened, UnannouncedFills,
         EndPass, FreshLocals
<1>25. CASE UNCHANGED vars
  BY <1>25 DEF vars
<1>. QED
  BY <1>1, <1>2, <1>3, <1>4, <1>5, <1>6, <1>7, <1>8, <1>9, <1>10, <1>11,
     <1>12, <1>13, <1>14, <1>15, <1>16, <1>17, <1>18, <1>19, <1>20, <1>21,
     <1>22, <1>23, <1>24, <1>25
     DEF Next, PassStep, Advance, HandleContract

\* An exits-only pass turns back at the second look at the book; a halted one
\* is let neither through a re-price nor through the gates; only the four
\* actions at the two places they miss send a buy order.
LEMMA ForbiddenStep ==
  IInv /\ [Next]_vars => /\ ForbiddenInv'
                         /\ halted \/ exits_only => buys' \subseteq buys
<1> DEFINE Kept == /\ ForbiddenInv'
                   /\ halted \/ exits_only => buys' \subseteq buys
<1> SUFFICES ASSUME IInv, [Next]_vars
             PROVE  Kept
  OBVIOUS
<1> USE DEF IInv, ForbiddenInv,
            outsideVars, brokerVars, journalVars, dayVars, modeVars, viewVars,
            loopVars, exitVars, entryVars
<1>1. ASSUME NEW only \in BOOLEAN, StartPass(only)
      PROVE  Kept
  BY <1>1
     DEF StartPass, At, FreshLocals, Fine
<1>2. CASE Crash \/ AbortedRead \/ MarketClosed \/ ExitsOnlyDone \/
           SessionUnconfirmed
  BY <1>2
     DEF Crash, AbortedRead, MarketClosed, ExitsOnlyDone, SessionUnconfirmed,
         At, EndPass, FreshLocals, Mishap, Fine
<1>3. CASE NewDay
  BY <1>3
     DEF NewDay, At, DayOrdersExpire, DateChanges, SessionsLeft, Fine, Mishap
<1>4. ASSUME NEW c \in Contract, BrokerMoves(c)
      PROVE  Kept
  BY <1>4
     DEF BrokerMoves, BuyFills, BuyPartlyFills, SellFills, LeavesUnasked,
         Fine, Mishap
<1>5. CASE ReadBook
  BY <1>5
     DEF ReadBook, At, Fine
<1>6. CASE ClockConfirmsOpen \/ ClockUnavailable
  BY <1>6
     DEF ClockConfirmsOpen, ClockUnavailable, At, Fine, Mishap
<1>7. ASSUME NEW c \in Contract, BookSale(c)
      PROVE  Kept
  BY <1>7
     DEF BookSale, At, Fine, CompletedSales, RecordClosed
<1>8. ASSUME NEW c \in Contract, ClearBookedRow(c) \/ DropUnfilledRow(c) \/
                                 ClearStrayRow(c)
      PROVE  Kept
  BY <1>8
     DEF ClearBookedRow, DropUnfilledRow, ClearStrayRow, At, Fine,
         CloseHolding
<1>9. ASSUME NEW c \in Contract, BookStray(c)
      PROVE  Kept
  BY <1>9
     DEF BookStray, At, Fine, RecordClosed
<1>10. CASE SalesAllBooked \/ ReadPendingBuys \/ ReadFillHistory \/
            ReconcileUnread \/ Reconciled
  BY <1>10
     DEF SalesAllBooked, ReadPendingBuys, ReadFillHistory, ReconcileUnread,
         Reconciled, At, Fine, StaleRows, CompletedSales, Mishap
<1>11. CASE AnnounceFills \/ ReadRestingExits \/ ExitsDone
  BY <1>11
     DEF AnnounceFills, ReadRestingExits, ExitsDone, At, Fine, RecordOpened,
         UnannouncedFills, Mishap
<1>12. ASSUME NEW c \in Contract, ExitNotDue(c) \/ ExitDue(c) \/
                                  CancelStaleExit(c)
       PROVE  Kept
  BY <1>12
     DEF ExitNotDue, ExitDue, ExitFinds, CancelStaleExit, At, Fine, Mishap, CancelSell
<1>13. ASSUME NEW c \in Contract, SellAccepted(c) \/ SellFailed(c)
       PROVE  Kept
  BY <1>13
     DEF SellAccepted, SellFailed, At, Fine, AcceptSell, Mishap
<1>14. ASSUME NEW c \in Contract, RecordSale(c)
       PROVE  Kept
  BY <1>14
     DEF RecordSale, At, Fine, RecordSold
<1>15. CASE Reread \/ ReadRestingEntries \/ EntriesRefreshed \/ ReadPending
  BY <1>15
     DEF Reread, ReadRestingEntries, EntriesRefreshed, ReadPending, At, Fine,
         Mishap, UnderlyingsOf
<1>16. ASSUME NEW c \in Contract, EntryLeftAlone(c) \/ EntryAbandoned(c) \/
                                  RepriceCancels(c) \/ RepriceCannotCancel(c)
       PROVE  Kept
  BY <1>16
     DEF EntryLeftAlone, EntryAbandoned, RepriceCancels, RepriceCannotCancel,
         At, Fine, Mishap, CancelBuy, MayReprice
<1>17. ASSUME NEW c \in Contract, RepriceUnverified(c)
       PROVE  Kept
  BY <1>17
     DEF RepriceUnverified, At, Mishap, EndPass, FreshLocals
<1>18. ASSUME NEW c \in Contract, Resubmitted(c) \/ ResubmitFailed(c)
       PROVE  Kept
  BY <1>18
     DEF Resubmitted, ResubmitFailed, At, Fine, AcceptBuy, Mishap, EndPass,
         FreshLocals
<1>19. CASE ScreenAndPropose
  BY <1>19
     DEF ScreenAndPropose, At, Fine, RecordDecision
<1>20. ASSUME NEW u \in Underlying, WalkRefuses(u)
       PROVE  Kept
  BY <1>20
     DEF WalkRefuses, At, Fine, RecordDecision
<1>21. ASSUME NEW c \in Contract, WalkApproves(c)
       PROVE  Kept
  BY <1>21
     DEF WalkApproves, At, Fine, RecordDecision, Eligible
<1>22. ASSUME NEW c \in Contract, BuyAccepted(c) \/ BuyFailed(c)
       PROVE  Kept
  BY <1>22
     DEF BuyAccepted, BuyFailed, At, Fine, AcceptBuy, Mishap
<1>23. ASSUME NEW c \in Contract, RecordOrder(c)
       PROVE  Kept
  BY <1>23
     DEF RecordOrder, At, Fine, OpenHolding
<1>24. CASE WalkDone \/ Finish
  BY <1>24
     DEF WalkDone, Finish, At, Fine, Mishap, RecordOpened, UnannouncedFills,
         EndPass, FreshLocals
<1>25. CASE UNCHANGED vars
  BY <1>25 DEF vars
<1>. QED
  BY <1>1, <1>2, <1>3, <1>4, <1>5, <1>6, <1>7, <1>8, <1>9, <1>10, <1>11,
     <1>12, <1>13, <1>14, <1>15, <1>16, <1>17, <1>18, <1>19, <1>20, <1>21,
     <1>22, <1>23, <1>24, <1>25
     DEF Next, PassStep, Advance, HandleContract

\* A sale stays on the books until its position is seen to have left, and what
\* the pass works on stays within the snapshot it took; the sale BookSale books
\* is one that snapshot no longer shows.
LEMMA SalesStep ==
  IInv /\ [Next]_vars => /\ SalesInv'
                         /\ pc = "book" /\ pc' = "book_row" => cur' \subseteq departed
<1> DEFINE Kept == /\ SalesInv'
                   /\ pc = "book" /\ pc' = "book_row" => cur' \subseteq departed
<1> SUFFICES ASSUME IInv, [Next]_vars
             PROVE  Kept
  OBVIOUS
<1> USE DEF IInv, SalesInv, Booking, Reconciling, Exiting, Looking,
            outsideVars, brokerVars, journalVars, dayVars, modeVars, viewVars,
            loopVars, exitVars, entryVars
<1>1. ASSUME NEW only \in BOOLEAN, StartPass(only)
      PROVE  Kept
  BY <1>1
     DEF StartPass, At, FreshLocals, Fine
<1>2. CASE Crash \/ AbortedRead \/ MarketClosed \/ ExitsOnlyDone \/
           SessionUnconfirmed
  BY <1>2
     DEF Crash, AbortedRead, MarketClosed, ExitsOnlyDone, SessionUnconfirmed,
         At, EndPass, FreshLocals, Mishap, Fine
<1>3. CASE NewDay
  BY <1>3
     DEF NewDay, At, DayOrdersExpire, DateChanges, SessionsLeft, Fine, Mishap
<1>4. ASSUME NEW c \in Contract, BrokerMoves(c)
      PROVE  Kept
  BY <1>4
     DEF BrokerMoves, BuyFills, BuyPartlyFills, SellFills, LeavesUnasked,
         Fine, Mishap
<1>5. CASE ReadBook
  BY <1>5
     DEF ReadBook, At, Fine
<1>6. CASE ClockConfirmsOpen \/ ClockUnavailable
  BY <1>6
     DEF ClockConfirmsOpen, ClockUnavailable, At, Fine, Mishap
<1>7. ASSUME NEW c \in Contract, BookSale(c)
      PROVE  Kept
  BY <1>7
     DEF BookSale, At, Fine, CompletedSales, RecordClosed
<1>8. ASSUME NEW c \in Contract, ClearBookedRow(c) \/ DropUnfilledRow(c) \/
                                 ClearStrayRow(c)
      PROVE  Kept
  BY <1>8
     DEF ClearBookedRow, DropUnfilledRow, ClearStrayRow, At, Fine,
         CloseHolding
<1>9. ASSUME NEW c \in Contract, BookStray(c)
      PROVE  Kept
  BY <1>9
     DEF BookStray, At, Fine, RecordClosed
<1>10. CASE SalesAllBooked \/ ReadPendingBuys \/ ReadFillHistory \/
            ReconcileUnread \/ Reconciled
  BY <1>10
     DEF SalesAllBooked, ReadPendingBuys, ReadFillHistory, ReconcileUnread,
         Reconciled, At, Fine, StaleRows, CompletedSales, Mishap
<1>11. CASE AnnounceFills \/ ReadRestingExits \/ ExitsDone
  BY <1>11
     DEF AnnounceFills, ReadRestingExits, ExitsDone, At, Fine, RecordOpened,
         UnannouncedFills, Mishap
<1>12. ASSUME NEW c \in Contract, ExitNotDue(c) \/ ExitDue(c) \/
                                  CancelStaleExit(c)
       PROVE  Kept
  BY <1>12
     DEF ExitNotDue, ExitDue, ExitFinds, CancelStaleExit, At, Fine, Mishap, CancelSell
<1>13. ASSUME NEW c \in Contract, SellAccepted(c) \/ SellFailed(c)
       PROVE  Kept
  BY <1>13
     DEF SellAccepted, SellFailed, At, Fine, CanSell, AcceptSell, Mishap
<1>14. ASSUME NEW c \in Contract, RecordSale(c)
       PROVE  Kept
  BY <1>14
     DEF RecordSale, At, Fine, RecordSold
<1>15. CASE Reread \/ ReadRestingEntries \/ EntriesRefreshed \/ ReadPending
  BY <1>15
     DEF Reread, ReadRestingEntries, EntriesRefreshed, ReadPending, At, Fine,
         Mishap, UnderlyingsOf
<1>16. ASSUME NEW c \in Contract, EntryLeftAlone(c) \/ EntryAbandoned(c) \/
                                  RepriceCancels(c) \/ RepriceCannotCancel(c)
       PROVE  Kept
  BY <1>16
     DEF EntryLeftAlone, EntryAbandoned, RepriceCancels, RepriceCannotCancel,
         At, Fine, Mishap, CancelBuy
<1>17. ASSUME NEW c \in Contract, RepriceUnverified(c)
       PROVE  Kept
  BY <1>17
     DEF RepriceUnverified, At, Mishap, EndPass, FreshLocals
<1>18. ASSUME NEW c \in Contract, Resubmitted(c) \/ ResubmitFailed(c)
       PROVE  Kept
  BY <1>18
     DEF Resubmitted, ResubmitFailed, At, Fine, AcceptBuy, Mishap, EndPass,
         FreshLocals
<1>19. CASE ScreenAndPropose
  BY <1>19
     DEF ScreenAndPropose, At, Fine, RecordDecision
<1>20. ASSUME NEW u \in Underlying, WalkRefuses(u)
       PROVE  Kept
  BY <1>20
     DEF WalkRefuses, At, Fine, RecordDecision
<1>21. ASSUME NEW c \in Contract, WalkApproves(c)
       PROVE  Kept
  BY <1>21
     DEF WalkApproves, At, Fine, RecordDecision
<1>22. ASSUME NEW c \in Contract, BuyAccepted(c) \/ BuyFailed(c)
       PROVE  Kept
  BY <1>22
     DEF BuyAccepted, BuyFailed, At, Fine, AcceptBuy, Mishap
<1>23. ASSUME NEW c \in Contract, RecordOrder(c)
       PROVE  Kept
  BY <1>23
     DEF RecordOrder, At, Fine, OpenHolding
<1>24. CASE WalkDone \/ Finish
  BY <1>24
     DEF WalkDone, Finish, At, Fine, Mishap, RecordOpened, UnannouncedFills,
         EndPass, FreshLocals
<1>25. CASE UNCHANGED vars
  BY <1>25 DEF vars
<1>. QED
  BY <1>1, <1>2, <1>3, <1>4, <1>5, <1>6, <1>7, <1>8, <1>9, <1>10, <1>11,
     <1>12, <1>13, <1>14, <1>15, <1>16, <1>17, <1>18, <1>19, <1>20, <1>21,
     <1>22, <1>23, <1>24, <1>25
     DEF Next, PassStep, Advance, HandleContract

\* The invariant is inductive, and so holds of every state of every behaviour.
THEOREM Invariance == Spec => []IInv
<1>1. Init => IInv
  BY InitIInv
<1>2. IInv /\ [Next]_vars => IInv'
  BY TypeStep, SessionStep, ForbiddenStep, SalesStep DEF IInv
<1>. QED
  BY <1>1, <1>2, PTL DEF Spec

-----------------------------------------------------------------------------
(***************************************************************************)
(* What follows from it.                                                   *)
(***************************************************************************)
\* Every reachable state of every account has the types that broker, journal
\* and pass give their variables: a pass never handles a contract, a name or
\* a place outside its domain, and no cooldown exceeds settings.cooldown_days.
THEOREM TypeCorrect == Spec => []TypeOK
<1>1. IInv => TypeOK
  BY DEF IInv
<1>. QED
  BY <1>1, Invariance, PTL

\* No day without a session counts towards a cooldown, whatever becomes of the
\* clock reads (loop.py 501-507): the reason entries wait for the clock.
THEOREM HolidaysNeverCount == Spec => []HolidaysDoNotCount
<1>1. IInv => HolidaysDoNotCount
  BY DEF IInv, SessionInv, HolidaysDoNotCount
<1>. QED
  BY <1>1, Invariance, PTL


\* With the kill switch on, and in an exits-only pass, no buy order leaves the
\* agent: not a new one, not a re-priced one (loop.py 447-461, 1007-1012).
THEOREM ForbiddenPassesOpenNothing == Spec => NothingOpensWhenForbidden
  BY Invariance, ForbiddenStep, PTL DEF Spec, NothingOpensWhenForbidden

\* Every sale booked is one whose position has left the book since the last
\* booking of its contract: none is booked early, on the strength of a stale
\* snapshot, and none twice, however often its exit was sent (loop.py 232-265).
THEOREM SalesAreBookedOnceTheyLeft == Spec => BookedSalesHaveLeft
  BY Invariance, SalesStep, PTL DEF Spec, BookedSalesHaveLeft

\* A step of the pass, of the broker or of the calendar is a step of the trade
\* book or leaves it alone.  Booking needs the sale to have left; an external
\* close needs the contract to be unsold, which it is because what is sold and
\* not yet booked is still in the snapshot, and what is being reconciled is not.
LEMMA TradeStep == IInv /\ [Next]_vars => [Trades!Next]_(Trades!vars)
<1> SUFFICES ASSUME IInv, [Next]_vars
             PROVE  [Trades!Next]_(Trades!vars)
  OBVIOUS
<1> DEFINE Kept == UNCHANGED <<held, departed, unbooked, BeingClosed>>
<1> USE DEF outsideVars, brokerVars, journalVars, dayVars, Trades!vars
<1>1. ASSUME NEW c \in Contract, BrokerMoves(c)
      PROVE  Trades!Next
  <2>1. CASE BuyFills(c) \/ BuyPartlyFills(c)
    <3>1. Trades!Enters(c)
      BY <1>1, <2>1 DEF BrokerMoves, BuyFills, BuyPartlyFills, loopVars, BeingClosed,
              Trades!Enters
    <3>. QED
      BY <3>1 DEF Trades!Next
  <2>2. CASE LeavesUnasked(c)
    <3>1. Trades!Leaves(c)
      BY <1>1, <2>2 DEF BrokerMoves, LeavesUnasked, loopVars, BeingClosed, Trades!Leaves
    <3>. QED
      BY <3>1 DEF Trades!Next
  <2>3. CASE SellFills(c)
    <3>1. Trades!Leaves(c)
      BY <1>1, <2>3 DEF BrokerMoves, SellFills, IInv, SalesInv, loopVars, BeingClosed,
              Trades!Leaves
    <3>. QED
      BY <3>1 DEF Trades!Next
  <2>. QED
    BY <1>1, <2>1, <2>2, <2>3 DEF BrokerMoves
<1>2. ASSUME NEW c \in Contract, BookSale(c)
      PROVE  Trades!Next
  <2>1. Trades!SaleIsClosed(c)
    BY <1>2
       DEF BookSale, At, CompletedSales, RecordClosed, IInv, SalesInv, Booking,
           BeingClosed, Trades!Nothing, Trades!SaleIsClosed
  <2>. QED
    BY <2>1 DEF Trades!Next
<1>3. ASSUME NEW c \in Contract, BookStray(c)
      PROVE  Trades!Next
  <2>1. c \notin unbooked
    BY <1>3 DEF BookStray, At, IInv, SalesInv, Reconciling
  <2>2. Trades!ClosedOutside(c)
    BY <1>3, <2>1 DEF BookStray, RecordClosed, At, BeingClosed, Trades!Nothing,
              Trades!ClosedOutside
  <2>. QED
    BY <2>2 DEF Trades!Next
<1>4. ASSUME NEW c \in Contract, RecordSale(c)
      PROVE  Trades!Next
  <2>1. Trades!SaleIsRecorded(c)
    BY <1>4
       DEF RecordSale, At, RecordSold, IInv, SalesInv, Exiting, Looking,
           BeingClosed, Trades!SaleIsRecorded
  <2>. QED
    BY <2>1 DEF Trades!Next
<1>5. ASSUME NEW c \in Contract,
             DropUnfilledRow(c) \/ ExitNotDue(c) \/ ExitDue(c) \/
             CancelStaleExit(c) \/ SellAccepted(c) \/ SellFailed(c)
      PROVE  Kept
  BY <1>5
     DEF At, BeingClosed, loopVars, DropUnfilledRow, CloseHolding, ExitNotDue,
         ExitDue, ExitFinds, CancelStaleExit, CancelSell, SellAccepted, SellFailed, AcceptSell
<1>6. ASSUME NEW c \in Contract,
             EntryLeftAlone(c) \/ EntryAbandoned(c) \/ RepriceCancels(c) \/
             RepriceCannotCancel(c) \/ RepriceUnverified(c) \/
             Resubmitted(c) \/ ResubmitFailed(c) \/
             WalkApproves(c) \/ BuyAccepted(c) \/ BuyFailed(c) \/ RecordOrder(c)
      PROVE  Kept
  BY <1>6
     DEF At, BeingClosed, loopVars, EndPass, FreshLocals, EntryLeftAlone,
         EntryAbandoned, RepriceCancels, RepriceCannotCancel,
         RepriceUnverified, Resubmitted, ResubmitFailed, CancelBuy, AcceptBuy,
         WalkApproves, RecordDecision, BuyAccepted, BuyFailed, RecordOrder,
         OpenHolding
<1>7. CASE Advance
  <2>1. Kept
    BY <1>7
       DEF At, BeingClosed, loopVars, EndPass, FreshLocals, Advance, ReadBook,
           AbortedRead, MarketClosed, ClockConfirmsOpen, ClockUnavailable, SalesAllBooked, ReadPendingBuys, ReadFillHistory,
           ReconcileUnread, Reconciled, AnnounceFills, RecordOpened,
           ReadRestingExits, ExitsDone, Reread, ExitsOnlyDone,
           ReadRestingEntries, EntriesRefreshed, ReadPending,
           SessionUnconfirmed, ScreenAndPropose, RecordDecision, WalkRefuses,
           WalkDone, Finish
  <2>. QED
    BY <2>1
<1>8. ASSUME NEW only \in BOOLEAN, StartPass(only)
      PROVE  Kept
  BY <1>8 DEF StartPass, At, FreshLocals, BeingClosed
<1>9. CASE NewDay \/ UNCHANGED vars
  <2>1. Kept
    BY <1>9
       DEF NewDay, DayOrdersExpire, DateChanges, At, loopVars, BeingClosed, vars
  <2>. QED
    BY <2>1
<1>10. ASSUME NEW c \in Contract, ClearBookedRow(c) \/ ClearStrayRow(c)
       PROVE  Trades!Next
  <2>1. Trades!Settled
    BY <1>10
       DEF ClearBookedRow, ClearStrayRow, CloseHolding, BeingClosed,
           Trades!Nothing, Trades!Settled
  <2>. QED
    BY <2>1 DEF Trades!Next
<1>11. CASE Crash
  <2>1. Trades!Settled
    BY <1>11
       DEF Crash, EndPass, FreshLocals, BeingClosed, Trades!Nothing, Trades!Settled
  <2>. QED
    BY <2>1 DEF Trades!Next
<1>. QED
  BY <1>1, <1>2, <1>3, <1>4, <1>5, <1>6, <1>7, <1>8, <1>9, <1>10, <1>11
     DEF Next, PassStep, HandleContract

\* The passes keep the account of trades that TradeBook asks for, at every size
\* of account, whatever the broker does between two of their steps and wherever
\* they die: no sale is closed before its position left, none is closed twice,
\* and none is written off as an exit the agent did not make.
THEOREM PassesKeepTheTradeBook == Spec => TradesAreAccountedFor
<1>1. Init => Trades!Init
  BY PassAssumption DEF Init, BeingClosed, Trades!Nothing, Trades!Init
<1>. QED
  BY <1>1, Invariance, TradeStep, PTL DEF Spec, TradesAreAccountedFor, Trades!Spec

=============================================================================
