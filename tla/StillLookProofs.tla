-------------------------- MODULE StillLookProofs --------------------------
(***************************************************************************)
(* TradingPass while the broker keeps still during the look: what a pass   *)
(* takes from its three lists is then true together, and the limits, the   *)
(* levels and the cooldowns hold.  Each theorem names the conditions it    *)
(* needs; ReconcileDoc and ReentryDoc show what happens without them.      *)
(* The invariant is StillInv, of which PassLevels checks every part.       *)
(***************************************************************************)
EXTENDS TradingPassProofs, FiniteSetTheorems

\* A name that `NotAlreadyHeld` lets through on a walk (gates.py 250-277)
\* is one the account has neither a position nor an order on.
LEMMA EligibleNamesAreNew ==
  ASSUME FitInv, pc \in {"walk", "buy"},
         NEW c \in Contract, Eligible(UnderlyingOf[c])
  PROVE  \A d \in Exposed : UnderlyingOf[d] # UnderlyingOf[c]
<1> SUFFICES ASSUME NEW d \in Exposed
             PROVE  UnderlyingOf[d] # UnderlyingOf[c]
  OBVIOUS
<1>1. CASE d \in positions
  BY <1>1 DEF Eligible, UnderlyingsOf
<1>2. CASE d \notin positions
  <2>1. UnderlyingOf[d] \in UnderlyingsOf(Exposed \ positions)
    BY <1>2 DEF UnderlyingsOf
  <2> QED
    BY <2>1 DEF FitInv, Deciding, JustSent, Eligible, UnderlyingsOf
<1> QED
  BY <1>1, <1>2

\* `GateContext.committed_slots` (gates.py 104-115) adds positions, pending and
\* ordered names, and so counts a name twice at times; it never counts fewer
\* slots than positions and orders fill.
LEMMA ExposureIsCounted ==
  ASSUME IInv, FitInv, pc \in {"walk", "buy"}
  PROVE  /\ IsFiniteSet(Exposed)
         /\ Cardinality(Exposed) \in Nat /\ CommittedSlots \in Nat
         /\ Cardinality(Exposed) <= CommittedSlots
<1> DEFINE Rest == Exposed \ positions
           Names == pending \cup ordered
           name == [c \in Rest |-> UnderlyingOf[c]]
<1>1. /\ IsFiniteSet(Exposed) /\ IsFiniteSet(positions) /\ IsFiniteSet(Rest)
      /\ IsFiniteSet(pending) /\ IsFiniteSet(ordered) /\ IsFiniteSet(Names)
  BY PassAssumption, FS_Subset DEF IInv, TypeOK, BrokerTypeOK, Exposed
<1>2. name \in Injection(Rest, Names)
  <2>1. name \in [Rest -> Names]
    BY DEF FitInv, Deciding, JustSent, UnderlyingsOf
  <2>2. \A c, d \in Rest : name[c] = name[d] => c = d
    BY DEF FitInv, OneEach, Committed
  <2> QED
    BY <2>1, <2>2 DEF Injection, IsInjective
<1>3. Cardinality(Rest) <= Cardinality(Names)
  BY <1>1, <1>2, FS_Injection
<1>4. /\ Cardinality(Exposed) <= Cardinality(positions) + Cardinality(Rest)
      /\ Cardinality(Names) <= Cardinality(pending) + Cardinality(ordered)
  <2>1. Cardinality(Rest) =
          Cardinality(Exposed) - Cardinality(Exposed \cap positions)
    BY <1>1, FS_Difference
  <2>2. Cardinality(Exposed \cap positions) <= Cardinality(positions)
    BY <1>1, FS_Intersection
  <2>3. Cardinality(Names) = Cardinality(pending) + Cardinality(ordered)
                             - Cardinality(pending \cap ordered)
    BY <1>1, FS_Union
  <2>4. IsFiniteSet(Exposed \cap positions) /\ IsFiniteSet(pending \cap ordered)
    BY <1>1, FS_Intersection
  <2> HIDE DEF Rest, Names
  <2> QED
    BY <1>1, <2>1, <2>2, <2>3, <2>4, FS_CardinalityType
<1> HIDE DEF Rest, Names
<1> QED
  BY <1>1, <1>3, <1>4, FS_CardinalityType DEF CommittedSlots

\* What the account is committed to only grows where an order of the walk is
\* sent (loop.py 628-629): a re-price sends again what it took off.
LEMMA CommittedStep ==
  ASSUME IInv, OrdersAreKnown, FitInv, [Next]_vars
  PROVE  \/ Committed' \subseteq Committed
         \/ pc = "buy" /\ \E c \in cur : Committed' = Committed \cup {c}
<1> DEFINE Kept ==
         \/ Committed' \subseteq Committed
         \/ pc = "buy" /\ \E c \in cur : Committed' = Committed \cup {c}
<1> USE DEF Committed, Exposed,
            outsideVars, brokerVars, journalVars, dayVars, modeVars, viewVars,
            loopVars, exitVars, entryVars

<1>1. ASSUME NEW only \in BOOLEAN, StartPass(only)
      PROVE  Kept
  BY <1>1
     DEF StartPass, At, FreshLocals, Fine
<1>2. CASE Crash \/ AbortedRead \/ MarketClosed \/ ExitsOnlyDone \/
           SessionUnconfirmed
  BY <1>2
     DEF Crash, AbortedRead, MarketClosed, ExitsOnlyDone,
         SessionUnconfirmed, At, EndPass, FreshLocals, Mishap, Fine
<1>3. CASE NewDay
  BY <1>3
     DEF NewDay, At, DayOrdersExpire, DateChanges, Fine, Mishap
<1>4. ASSUME NEW c \in Contract, BrokerMoves(c)
      PROVE  Kept
  BY <1>4
     DEF BrokerMoves, BuyFills, BuyPartlyFills, SellFills, LeavesUnasked,
         Fine, Mishap
<1>5. CASE ReadBook
  BY <1>5
     DEF ReadBook, At, Fine
<1>6. CASE ClockConfirmsOpen \/ ClockUnavailable
  BY <1>6
     DEF ClockConfirmsOpen, ClockUnavailable, At, Fine, Mishap
<1>7. ASSUME NEW c \in Contract, BookSale(c)
      PROVE  Kept
  BY <1>7
     DEF BookSale, At, Fine, CompletedSales, RecordClosed
<1>8. ASSUME NEW c \in Contract, ClearBookedRow(c) \/ DropUnfilledRow(c) \/
                                 ClearStrayRow(c)
      PROVE  Kept
  BY <1>8
     DEF ClearBookedRow, DropUnfilledRow, ClearStrayRow, At, Fine,
         CloseHolding
<1>9. ASSUME NEW c \in Contract, BookStray(c)
      PROVE  Kept
  BY <1>9
     DEF BookStray, At, Fine, RecordClosed
<1>10. CASE SalesAllBooked \/ ReadPendingBuys \/ ReadFillHistory \/
            ReconcileUnread \/ Reconciled
  BY <1>10
     DEF SalesAllBooked, ReadPendingBuys, ReadFillHistory, ReconcileUnread,
         Reconciled, At, Fine, StaleRows, CompletedSales, Mishap
<1>11. CASE AnnounceFills \/ ReadRestingExits \/ ExitsDone
  BY <1>11
     DEF AnnounceFills, ReadRestingExits, ExitsDone, At, Fine, RecordOpened,
         UnannouncedFills, Mishap
<1>12. ASSUME NEW c \in Contract, ExitNotDue(c) \/ ExitDue(c) \/
                                  CancelStaleExit(c)
       PROVE  Kept
  BY <1>12
     DEF ExitNotDue, ExitDue, ExitFinds, CancelStaleExit, At, Fine, Mishap, CancelSell
<1>13. ASSUME NEW c \in Contract, SellAccepted(c) \/ SellFailed(c)
       PROVE  Kept
  BY <1>13
     DEF SellAccepted, SellFailed, At, Fine, CanSell, AcceptSell, Mishap
<1>14. ASSUME NEW c \in Contract, RecordSale(c)
       PROVE  Kept
  BY <1>14
     DEF RecordSale, At, Fine, RecordSold
<1>15. CASE Reread \/ ReadRestingEntries \/ EntriesRefreshed \/ ReadPending
  BY <1>15
     DEF Reread, ReadRestingEntries, EntriesRefreshed, ReadPending, At,
         Fine, Mishap
<1>16. ASSUME NEW c \in Contract, EntryLeftAlone(c) \/ EntryAbandoned(c) \/
                                  RepriceCancels(c) \/ RepriceCannotCancel(c)
       PROVE  Kept
  BY <1>16
     DEF EntryLeftAlone, EntryAbandoned, RepriceCancels,
         RepriceCannotCancel, At, Fine, Mishap, CancelBuy
<1>17. ASSUME NEW c \in Contract, RepriceUnverified(c)
       PROVE  Kept
  BY <1>17
     DEF RepriceUnverified, At, Mishap, EndPass, FreshLocals
<1>18. ASSUME NEW c \in Contract, Resubmitted(c) \/ ResubmitFailed(c)
       PROVE  Kept
  BY <1>18
     DEF Resubmitted, ResubmitFailed, At, Fine, AcceptBuy, Mishap, EndPass,
         FreshLocals
<1>19. CASE ScreenAndPropose
  BY <1>19
     DEF ScreenAndPropose, At, Fine, RecordDecision
<1>20. ASSUME NEW u \in Underlying, WalkRefuses(u)
       PROVE  Kept
  BY <1>20
     DEF WalkRefuses, At, Fine, RecordDecision
<1>21. ASSUME NEW c \in Contract, WalkApproves(c)
       PROVE  Kept
  BY <1>21
     DEF WalkApproves, At, Fine, RecordDecision
<1>22. ASSUME NEW c \in Contract, BuyAccepted(c) \/ BuyFailed(c)
       PROVE  Kept
  BY <1>22
     DEF BuyAccepted, BuyFailed, At, Fine, AcceptBuy, Mishap
<1>23. ASSUME NEW c \in Contract, RecordOrder(c)
       PROVE  Kept
  BY <1>23
     DEF RecordOrder, At, Fine, OpenHolding
<1>24. CASE WalkDone \/ Finish
  BY <1>24
     DEF WalkDone, Finish, At, Fine, Mishap, RecordOpened, UnannouncedFills,
         EndPass, FreshLocals
<1>25. CASE UNCHANGED vars
  BY <1>25
     DEF vars
<1> QED
  BY <1>1, <1>2, <1>3, <1>4, <1>5, <1>6, <1>7, <1>8, <1>9, <1>10, <1>11,
     <1>12, <1>13, <1>14, <1>15, <1>16, <1>17, <1>18, <1>19, <1>20, <1>21,
     <1>22, <1>23, <1>24, <1>25
     DEF Next, PassStep, Advance, HandleContract

\* FitInv, where the pass stands: positions in the snapshot are those held for
\* as long as the look lasts, and nothing that filled in part is re-priced
\* (loop.py 993).
LEMMA FitPlaces ==
  ASSUME IInv, OrdersAreKnown, FitInv, [Next]_vars
  PROVE  /\ (\A c, d \in cur : c = d)'
         /\ (held \cap buys \subseteq partial)'
         /\ (pc \notin OutsideTheLook => positions = held)'
         /\ (pc \in {"reprice", "resubmit"} => todo \cap partial = {})'
         /\ (pc = "resubmit" => cur \cap held = {})'
<1> DEFINE Kept ==
         /\ (\A c, d \in cur : c = d)'
         /\ (held \cap buys \subseteq partial)'
         /\ (pc \notin OutsideTheLook => positions = held)'
         /\ (pc \in {"reprice", "resubmit"} => todo \cap partial = {})'
         /\ (pc = "resubmit" => cur \cap held = {})'
<1> USE DEF IInv, TypeOK, BrokerTypeOK, Places, OrdersAreKnown,
            StillDuringTheLook, OutsideTheLook, FitInv, outsideVars,
            brokerVars, journalVars, dayVars, modeVars, viewVars, loopVars,
            exitVars, entryVars

<1>1. ASSUME NEW only \in BOOLEAN, StartPass(only)
      PROVE  Kept
  BY <1>1
     DEF StartPass, At, FreshLocals, Fine
<1>2. CASE Crash \/ AbortedRead \/ MarketClosed \/ ExitsOnlyDone \/
           SessionUnconfirmed
  BY <1>2
     DEF Crash, AbortedRead, MarketClosed, ExitsOnlyDone,
         SessionUnconfirmed, At, EndPass, FreshLocals, Mishap, Fine
<1>3. CASE NewDay
  BY <1>3
     DEF NewDay, At, DayOrdersExpire, DateChanges, Fine, Mishap
<1>4. ASSUME NEW c \in Contract, BrokerMoves(c)
      PROVE  Kept
  BY <1>4
     DEF BrokerMoves, BuyFills, BuyPartlyFills, SellFills, LeavesUnasked,
         Fine, Mishap
<1>5. CASE ReadBook
  BY <1>5
     DEF ReadBook, At, Fine
<1>6. CASE ClockConfirmsOpen \/ ClockUnavailable
  BY <1>6
     DEF ClockConfirmsOpen, ClockUnavailable, At, Fine, Mishap
<1>7. ASSUME NEW c \in Contract, BookSale(c)
      PROVE  Kept
  BY <1>7
     DEF BookSale, At, Fine, CompletedSales, RecordClosed
<1>8. ASSUME NEW c \in Contract, ClearBookedRow(c) \/ DropUnfilledRow(c) \/
                                 ClearStrayRow(c)
      PROVE  Kept
  BY <1>8
     DEF ClearBookedRow, DropUnfilledRow, ClearStrayRow, At, Fine,
         CloseHolding
<1>9. ASSUME NEW c \in Contract, BookStray(c)
      PROVE  Kept
  BY <1>9
     DEF BookStray, At, Fine, RecordClosed
<1>10. CASE SalesAllBooked \/ ReadPendingBuys \/ ReadFillHistory \/
            ReconcileUnread \/ Reconciled
  BY <1>10
     DEF SalesAllBooked, ReadPendingBuys, ReadFillHistory, ReconcileUnread,
         Reconciled, At, Fine, StaleRows, CompletedSales, Mishap
<1>11. CASE AnnounceFills \/ ReadRestingExits \/ ExitsDone
  BY <1>11
     DEF AnnounceFills, ReadRestingExits, ExitsDone, At, Fine, RecordOpened,
         UnannouncedFills, Mishap
<1>12. ASSUME NEW c \in Contract, ExitNotDue(c) \/ ExitDue(c) \/
                                  CancelStaleExit(c)
       PROVE  Kept
  BY <1>12
     DEF ExitNotDue, ExitDue, ExitFinds, CancelStaleExit, At, Fine, Mishap, CancelSell
<1>13. ASSUME NEW c \in Contract, SellAccepted(c) \/ SellFailed(c)
       PROVE  Kept
  BY <1>13
     DEF SellAccepted, SellFailed, At, Fine, CanSell, AcceptSell, Mishap
<1>14. ASSUME NEW c \in Contract, RecordSale(c)
       PROVE  Kept
  BY <1>14
     DEF RecordSale, At, Fine, RecordSold
<1>15. CASE Reread \/ ReadRestingEntries \/ EntriesRefreshed \/ ReadPending
  BY <1>15
     DEF Reread, ReadRestingEntries, EntriesRefreshed, ReadPending, At,
         Fine, Mishap
<1>16. ASSUME NEW c \in Contract, EntryLeftAlone(c) \/ EntryAbandoned(c) \/
                                  RepriceCancels(c) \/ RepriceCannotCancel(c)
       PROVE  Kept
  BY <1>16
     DEF EntryLeftAlone, EntryAbandoned, RepriceCancels,
         RepriceCannotCancel, At, Fine, Mishap, CancelBuy
<1>17. ASSUME NEW c \in Contract, RepriceUnverified(c)
       PROVE  Kept
  BY <1>17
     DEF RepriceUnverified, At, Mishap, EndPass, FreshLocals
<1>18. ASSUME NEW c \in Contract, Resubmitted(c) \/ ResubmitFailed(c)
       PROVE  Kept
  BY <1>18
     DEF Resubmitted, ResubmitFailed, At, Fine, AcceptBuy, Mishap, EndPass,
         FreshLocals
<1>19. CASE ScreenAndPropose
  BY <1>19
     DEF ScreenAndPropose, At, Fine, RecordDecision
<1>20. ASSUME NEW u \in Underlying, WalkRefuses(u)
       PROVE  Kept
  BY <1>20
     DEF WalkRefuses, At, Fine, RecordDecision
<1>21. ASSUME NEW c \in Contract, WalkApproves(c)
       PROVE  Kept
  BY <1>21
     DEF WalkApproves, At, Fine, RecordDecision
<1>22. ASSUME NEW c \in Contract, BuyAccepted(c) \/ BuyFailed(c)
       PROVE  Kept
  BY <1>22, EligibleNamesAreNew
     DEF BuyAccepted, BuyFailed, At, Fine, AcceptBuy, Mishap, Exposed
<1>23. ASSUME NEW c \in Contract, RecordOrder(c)
       PROVE  Kept
  BY <1>23
     DEF RecordOrder, At, Fine, OpenHolding
<1>24. CASE WalkDone \/ Finish
  BY <1>24
     DEF WalkDone, Finish, At, Fine, Mishap, RecordOpened, UnannouncedFills,
         EndPass, FreshLocals
<1>25. CASE UNCHANGED vars
  BY <1>25
     DEF vars
<1> QED
  BY <1>1, <1>2, <1>3, <1>4, <1>5, <1>6, <1>7, <1>8, <1>9, <1>10, <1>11,
     <1>12, <1>13, <1>14, <1>15, <1>16, <1>17, <1>18, <1>19, <1>20, <1>21,
     <1>22, <1>23, <1>24, <1>25
     DEF Next, PassStep, Advance, HandleContract

\* FitInv, where the pass decides: every order outside the snapshot is among the
\* pending or the ordered names of its context (loop.py 471-499, 1069-1086).
LEMMA FitDecisions ==
  ASSUME IInv, OrdersAreKnown, FitInv, [Next]_vars
  PROVE  /\ (pc \in Deciding =>
               UnderlyingsOf(Exposed \ positions) \subseteq
                 pending \cup ordered \cup UnderlyingsOf(JustSent))'
         /\ (pc = "buy" => \A c \in cur : Eligible(UnderlyingOf[c]))'
<1> DEFINE Kept ==
         /\ (pc \in Deciding =>
               UnderlyingsOf(Exposed \ positions) \subseteq
                 pending \cup ordered \cup UnderlyingsOf(JustSent))'
         /\ (pc = "buy" => \A c \in cur : Eligible(UnderlyingOf[c]))'
<1> USE DEF IInv, TypeOK, BrokerTypeOK, Places, OrdersAreKnown,
            OutsideTheLook, FitInv, Deciding, JustSent, UnderlyingsOf,
            Exposed, Eligible, CommittedSlots, outsideVars, brokerVars,
            journalVars, dayVars, modeVars, viewVars, loopVars, exitVars,
            entryVars

<1>1. ASSUME NEW only \in BOOLEAN, StartPass(only)
      PROVE  Kept
  BY <1>1
     DEF StartPass, At, FreshLocals, Fine
<1>2. CASE Crash \/ AbortedRead \/ MarketClosed \/ ExitsOnlyDone \/
           SessionUnconfirmed
  BY <1>2
     DEF Crash, AbortedRead, MarketClosed, ExitsOnlyDone,
         SessionUnconfirmed, At, EndPass, FreshLocals, Mishap, Fine
<1>3. CASE NewDay
  BY <1>3
     DEF NewDay, At, DayOrdersExpire, DateChanges, Fine, Mishap
<1>4. ASSUME NEW c \in Contract, BrokerMoves(c)
      PROVE  Kept
  BY <1>4
     DEF BrokerMoves, BuyFills, BuyPartlyFills, SellFills, LeavesUnasked,
         Fine, Mishap
<1>5. CASE ReadBook
  BY <1>5
     DEF ReadBook, At, Fine
<1>6. CASE ClockConfirmsOpen \/ ClockUnavailable
  BY <1>6
     DEF ClockConfirmsOpen, ClockUnavailable, At, Fine, Mishap
<1>7. ASSUME NEW c \in Contract, BookSale(c)
      PROVE  Kept
  BY <1>7
     DEF BookSale, At, Fine, CompletedSales, RecordClosed
<1>8. ASSUME NEW c \in Contract, ClearBookedRow(c) \/ DropUnfilledRow(c) \/
                                 ClearStrayRow(c)
      PROVE  Kept
  BY <1>8
     DEF ClearBookedRow, DropUnfilledRow, ClearStrayRow, At, Fine,
         CloseHolding
<1>9. ASSUME NEW c \in Contract, BookStray(c)
      PROVE  Kept
  BY <1>9
     DEF BookStray, At, Fine, RecordClosed
<1>10. CASE SalesAllBooked \/ ReadPendingBuys \/ ReadFillHistory \/
            ReconcileUnread \/ Reconciled
  BY <1>10
     DEF SalesAllBooked, ReadPendingBuys, ReadFillHistory, ReconcileUnread,
         Reconciled, At, Fine, StaleRows, CompletedSales, Mishap
<1>11. CASE AnnounceFills \/ ReadRestingExits \/ ExitsDone
  BY <1>11
     DEF AnnounceFills, ReadRestingExits, ExitsDone, At, Fine, RecordOpened,
         UnannouncedFills, Mishap
<1>12. ASSUME NEW c \in Contract, ExitNotDue(c) \/ ExitDue(c) \/
                                  CancelStaleExit(c)
       PROVE  Kept
  BY <1>12
     DEF ExitNotDue, ExitDue, ExitFinds, CancelStaleExit, At, Fine, Mishap, CancelSell
<1>13. ASSUME NEW c \in Contract, SellAccepted(c) \/ SellFailed(c)
       PROVE  Kept
  BY <1>13
     DEF SellAccepted, SellFailed, At, Fine, CanSell, AcceptSell, Mishap
<1>14. ASSUME NEW c \in Contract, RecordSale(c)
       PROVE  Kept
  BY <1>14
     DEF RecordSale, At, Fine, RecordSold
<1>15. CASE Reread \/ ReadRestingEntries \/ EntriesRefreshed \/ ReadPending
  BY <1>15
     DEF Reread, ReadRestingEntries, EntriesRefreshed, ReadPending, At,
         Fine, Mishap
<1>16. ASSUME NEW c \in Contract, EntryLeftAlone(c) \/ EntryAbandoned(c) \/
                                  RepriceCancels(c) \/ RepriceCannotCancel(c)
       PROVE  Kept
  BY <1>16
     DEF EntryLeftAlone, EntryAbandoned, RepriceCancels,
         RepriceCannotCancel, At, Fine, Mishap, CancelBuy
<1>17. ASSUME NEW c \in Contract, RepriceUnverified(c)
       PROVE  Kept
  BY <1>17
     DEF RepriceUnverified, At, Mishap, EndPass, FreshLocals
<1>18. ASSUME NEW c \in Contract, Resubmitted(c) \/ ResubmitFailed(c)
       PROVE  Kept
  BY <1>18
     DEF Resubmitted, ResubmitFailed, At, Fine, AcceptBuy, Mishap, EndPass,
         FreshLocals
<1>19. CASE ScreenAndPropose
  BY <1>19
     DEF ScreenAndPropose, At, Fine, RecordDecision
<1>20. ASSUME NEW u \in Underlying, WalkRefuses(u)
       PROVE  Kept
  BY <1>20
     DEF WalkRefuses, At, Fine, RecordDecision
<1>21. ASSUME NEW c \in Contract, WalkApproves(c)
       PROVE  Kept
  BY <1>21
     DEF WalkApproves, At, Fine, RecordDecision
<1>22. ASSUME NEW c \in Contract, BuyAccepted(c) \/ BuyFailed(c)
       PROVE  Kept
  BY <1>22
     DEF BuyAccepted, BuyFailed, At, Fine, AcceptBuy, Mishap
<1>23. ASSUME NEW c \in Contract, RecordOrder(c)
       PROVE  Kept
  BY <1>23
     DEF RecordOrder, At, Fine, OpenHolding
<1>24. CASE WalkDone \/ Finish
  BY <1>24
     DEF WalkDone, Finish, At, Fine, Mishap, RecordOpened, UnannouncedFills,
         EndPass, FreshLocals
<1>25. CASE UNCHANGED vars
  BY <1>25
     DEF vars
<1> QED
  BY <1>1, <1>2, <1>3, <1>4, <1>5, <1>6, <1>7, <1>8, <1>9, <1>10, <1>11,
     <1>12, <1>13, <1>14, <1>15, <1>16, <1>17, <1>18, <1>19, <1>20, <1>21,
     <1>22, <1>23, <1>24, <1>25
     DEF Next, PassStep, Advance, HandleContract

\* FitInv, all of it: an order of the walk is on a new name and a free slot.
LEMMA FitStep ==
  ASSUME IInv, OrdersAreKnown, FitInv, [Next]_vars
  PROVE  FitInv'
<1>1. IsFiniteSet(Committed) /\ Cardinality(Committed) \in Nat
  <2>1. Committed \subseteq Contract
    BY DEF IInv, TypeOK, BrokerTypeOK, Committed, Exposed
  <2> QED
    BY <2>1, PassAssumption, FS_Subset, FS_CardinalityType
<1>2. Cardinality(Committed') <= MaxPositions /\ OneEach(Committed')
  <2>1. CASE Committed' \subseteq Committed
    <3>1. /\ Cardinality(Committed') <= Cardinality(Committed)
          /\ Cardinality(Committed') \in Nat
      BY <1>1, <2>1, FS_Subset, FS_CardinalityType
    <3> QED
      BY <1>1, <2>1, <3>1, PassAssumption DEF FitInv, OneEach
  <2>2. ASSUME pc = "buy", NEW c \in cur, Committed' = Committed \cup {c}
        PROVE  Cardinality(Committed') <= MaxPositions /\ OneEach(Committed')
    <3>1. c \in Contract /\ Eligible(UnderlyingOf[c])
      BY <2>2 DEF IInv, TypeOK, FitInv
    <3>2. Committed = Exposed
      BY <2>2 DEF Committed
    <3>3. \A d \in Committed : UnderlyingOf[d] # UnderlyingOf[c]
      BY <2>2, <3>1, <3>2, EligibleNamesAreNew
    <3>4. Cardinality(Committed) < MaxPositions
      BY <2>2, <3>1, <3>2, ExposureIsCounted, PassAssumption DEF Eligible
    <3>5. Cardinality(Committed') <= Cardinality(Committed) + 1
      BY <1>1, <2>2, FS_AddElement
    <3>6. Cardinality(Committed') \in Nat
      BY <1>1, <2>2, FS_AddElement, FS_CardinalityType
    <3> QED
      BY <1>1, <2>2, <3>3, <3>4, <3>5, <3>6, PassAssumption DEF FitInv, OneEach
  <2> QED
    BY <2>1, <2>2, CommittedStep
<1> QED
  BY <1>2, FitPlaces, FitDecisions DEF FitInv

\* RowsInv: only `_book_completed_sales` and `_reconcile_holdings` delete rows
\* (loop.py 67-174), and none of what is held or ordered.
LEMMA RowsStep ==
  ASSUME IInv, OrdersAreRecorded, FitInv, RowsInv, [Next]_vars
  PROVE  RowsInv'
<1> USE UnderlyingAssumption
    DEF IInv, TypeOK, BrokerTypeOK, Places, SalesInv, Looking, Booking,
        Reconciling, Exiting, OrdersAreRecorded, StillDuringTheLook,
        OutsideTheLook, FitInv, RowsInv, Committed, Exposed, JustSent,
        outsideVars, brokerVars, journalVars, dayVars, modeVars, viewVars,
        loopVars, exitVars, entryVars

<1>1. ASSUME NEW only \in BOOLEAN, StartPass(only)
      PROVE  RowsInv'
  BY <1>1
     DEF StartPass, At, FreshLocals, Fine
<1>2. CASE Crash \/ AbortedRead \/ MarketClosed \/ ExitsOnlyDone \/
           SessionUnconfirmed
  BY <1>2
     DEF Crash, AbortedRead, MarketClosed, ExitsOnlyDone,
         SessionUnconfirmed, At, EndPass, FreshLocals, Mishap, Fine
<1>3. CASE NewDay
  BY <1>3
     DEF NewDay, At, DayOrdersExpire, DateChanges, Fine, Mishap
<1>4. ASSUME NEW c \in Contract, BrokerMoves(c)
      PROVE  RowsInv'
  BY <1>4
     DEF BrokerMoves, BuyFills, BuyPartlyFills, SellFills, LeavesUnasked,
         Fine, Mishap
<1>5. CASE ReadBook
  BY <1>5
     DEF ReadBook, At, Fine
<1>6. CASE ClockConfirmsOpen \/ ClockUnavailable
  BY <1>6
     DEF ClockConfirmsOpen, ClockUnavailable, At, Fine, Mishap
<1>7. ASSUME NEW c \in Contract, BookSale(c)
      PROVE  RowsInv'
  BY <1>7
     DEF BookSale, At, Fine, CompletedSales, RecordClosed
<1>8. ASSUME NEW c \in Contract, ClearBookedRow(c) \/ DropUnfilledRow(c) \/
                                 ClearStrayRow(c)
      PROVE  RowsInv'
  BY <1>8
     DEF ClearBookedRow, DropUnfilledRow, ClearStrayRow, At, Fine,
         CloseHolding
<1>9. ASSUME NEW c \in Contract, BookStray(c)
      PROVE  RowsInv'
  BY <1>9
     DEF BookStray, At, Fine, RecordClosed
<1>10. CASE SalesAllBooked \/ ReadPendingBuys \/ ReadFillHistory \/
            ReconcileUnread \/ Reconciled
  BY <1>10
     DEF SalesAllBooked, ReadPendingBuys, ReadFillHistory, ReconcileUnread,
         Reconciled, At, Fine, StaleRows, CompletedSales, Mishap
<1>11. CASE AnnounceFills \/ ReadRestingExits \/ ExitsDone
  BY <1>11
     DEF AnnounceFills, ReadRestingExits, ExitsDone, At, Fine, RecordOpened,
         UnannouncedFills, Mishap
<1>12. ASSUME NEW c \in Contract, ExitNotDue(c) \/ ExitDue(c) \/
                                  CancelStaleExit(c)
       PROVE  RowsInv'
  BY <1>12
     DEF ExitNotDue, ExitDue, ExitFinds, CancelStaleExit, At, Fine, Mishap, CancelSell
<1>13. ASSUME NEW c \in Contract, SellAccepted(c) \/ SellFailed(c)
       PROVE  RowsInv'
  BY <1>13
     DEF SellAccepted, SellFailed, At, Fine, CanSell, AcceptSell, Mishap
<1>14. ASSUME NEW c \in Contract, RecordSale(c)
       PROVE  RowsInv'
  BY <1>14
     DEF RecordSale, At, Fine, RecordSold
<1>15. CASE Reread \/ ReadRestingEntries \/ EntriesRefreshed \/ ReadPending
  BY <1>15
     DEF Reread, ReadRestingEntries, EntriesRefreshed, ReadPending, At,
         Fine, Mishap
<1>16. ASSUME NEW c \in Contract, EntryLeftAlone(c) \/ EntryAbandoned(c) \/
                                  RepriceCancels(c) \/ RepriceCannotCancel(c)
       PROVE  RowsInv'
  BY <1>16
     DEF EntryLeftAlone, EntryAbandoned, RepriceCancels,
         RepriceCannotCancel, At, Fine, Mishap, CancelBuy
<1>17. ASSUME NEW c \in Contract, RepriceUnverified(c)
       PROVE  RowsInv'
  BY <1>17
     DEF RepriceUnverified, At, Mishap, EndPass, FreshLocals
<1>18. ASSUME NEW c \in Contract, Resubmitted(c) \/ ResubmitFailed(c)
       PROVE  RowsInv'
  BY <1>18
     DEF Resubmitted, ResubmitFailed, At, Fine, AcceptBuy, Mishap, EndPass,
         FreshLocals
<1>19. CASE ScreenAndPropose
  BY <1>19
     DEF ScreenAndPropose, At, Fine, RecordDecision
<1>20. ASSUME NEW u \in Underlying, WalkRefuses(u)
       PROVE  RowsInv'
  BY <1>20
     DEF WalkRefuses, At, Fine, RecordDecision
<1>21. ASSUME NEW c \in Contract, WalkApproves(c)
       PROVE  RowsInv'
  BY <1>21
     DEF WalkApproves, At, Fine, RecordDecision, Eligible, UnderlyingsOf
<1>22. ASSUME NEW c \in Contract, BuyAccepted(c) \/ BuyFailed(c)
       PROVE  RowsInv'
  BY <1>22
     DEF BuyAccepted, BuyFailed, At, Fine, AcceptBuy, Mishap, Eligible,
         UnderlyingsOf
<1>23. ASSUME NEW c \in Contract, RecordOrder(c)
       PROVE  RowsInv'
  BY <1>23
     DEF RecordOrder, At, Fine, OpenHolding
<1>24. CASE WalkDone \/ Finish
  BY <1>24
     DEF WalkDone, Finish, At, Fine, Mishap, RecordOpened, UnannouncedFills,
         EndPass, FreshLocals
<1>25. CASE UNCHANGED vars
  BY <1>25
     DEF vars
<1> QED
  BY <1>1, <1>2, <1>3, <1>4, <1>5, <1>6, <1>7, <1>8, <1>9, <1>10, <1>11,
     <1>12, <1>13, <1>14, <1>15, <1>16, <1>17, <1>18, <1>19, <1>20, <1>21,
     <1>22, <1>23, <1>24, <1>25
     DEF Next, PassStep, Advance, HandleContract

\* DepartureInv: bookings come before decisions in a pass (loop.py 375-385), and
\* what leaves after them is still in the snapshot the walk decides with.
LEMMA DepartureStep ==
  ASSUME IInv, DeparturesAreFound, FitInv, RowsInv, DepartureInv, [Next]_vars
  PROVE  DepartureInv'
<1> USE UnderlyingAssumption
    DEF IInv, TypeOK, BrokerTypeOK, Places, SalesInv, Looking, Booking,
        Reconciling, Exiting, DeparturesAreFound, OrdersAreRecorded,
        StillDuringTheLook, OutsideTheLook, FitInv, RowsInv, DepartureInv,
        Committed, Exposed, JustSent, Taken, Deciding, UnderlyingsOf,
        outsideVars, brokerVars, journalVars, dayVars, modeVars, viewVars,
        loopVars, exitVars, entryVars

<1>1. ASSUME NEW only \in BOOLEAN, StartPass(only)
      PROVE  DepartureInv'
  BY <1>1
     DEF StartPass, At, FreshLocals, Fine
<1>2. CASE Crash \/ AbortedRead \/ MarketClosed \/ ExitsOnlyDone \/
           SessionUnconfirmed
  BY <1>2
     DEF Crash, AbortedRead, MarketClosed, ExitsOnlyDone,
         SessionUnconfirmed, At, EndPass, FreshLocals, Mishap, Fine
<1>3. CASE NewDay
  BY <1>3
     DEF NewDay, At, DayOrdersExpire, DateChanges, Fine, Mishap
<1>4. ASSUME NEW c \in Contract, BrokerMoves(c)
      PROVE  DepartureInv'
  BY <1>4
     DEF BrokerMoves, BuyFills, BuyPartlyFills, SellFills, LeavesUnasked,
         Fine, Mishap
<1>5. CASE ReadBook
  BY <1>5
     DEF ReadBook, At, Fine
<1>6. CASE ClockConfirmsOpen \/ ClockUnavailable
  BY <1>6
     DEF ClockConfirmsOpen, ClockUnavailable, At, Fine, Mishap
<1>7. ASSUME NEW c \in Contract, BookSale(c)
      PROVE  DepartureInv'
  BY <1>7
     DEF BookSale, At, Fine, CompletedSales, RecordClosed
<1>8. ASSUME NEW c \in Contract, ClearBookedRow(c) \/ DropUnfilledRow(c) \/
                                 ClearStrayRow(c)
      PROVE  DepartureInv'
  BY <1>8
     DEF ClearBookedRow, DropUnfilledRow, ClearStrayRow, At, Fine,
         CloseHolding
<1>9. ASSUME NEW c \in Contract, BookStray(c)
      PROVE  DepartureInv'
  BY <1>9
     DEF BookStray, At, Fine, RecordClosed
<1>10. CASE SalesAllBooked \/ ReadPendingBuys \/ ReadFillHistory \/
            ReconcileUnread \/ Reconciled
  BY <1>10
     DEF SalesAllBooked, ReadPendingBuys, ReadFillHistory, ReconcileUnread,
         Reconciled, At, Fine, StaleRows, CompletedSales, Mishap
<1>11. CASE AnnounceFills \/ ReadRestingExits \/ ExitsDone
  BY <1>11
     DEF AnnounceFills, ReadRestingExits, ExitsDone, At, Fine, RecordOpened,
         UnannouncedFills, Mishap
<1>12. ASSUME NEW c \in Contract, ExitNotDue(c) \/ ExitDue(c) \/
                                  CancelStaleExit(c)
       PROVE  DepartureInv'
  BY <1>12
     DEF ExitNotDue, ExitDue, ExitFinds, CancelStaleExit, At, Fine, Mishap, CancelSell
<1>13. ASSUME NEW c \in Contract, SellAccepted(c) \/ SellFailed(c)
       PROVE  DepartureInv'
  BY <1>13
     DEF SellAccepted, SellFailed, At, Fine, CanSell, AcceptSell, Mishap
<1>14. ASSUME NEW c \in Contract, RecordSale(c)
       PROVE  DepartureInv'
  BY <1>14
     DEF RecordSale, At, Fine, RecordSold
<1>15. CASE Reread \/ ReadRestingEntries \/ EntriesRefreshed \/ ReadPending
  BY <1>15
     DEF Reread, ReadRestingEntries, EntriesRefreshed, ReadPending, At,
         Fine, Mishap
<1>16. ASSUME NEW c \in Contract, EntryLeftAlone(c) \/ EntryAbandoned(c) \/
                                  RepriceCancels(c) \/ RepriceCannotCancel(c)
       PROVE  DepartureInv'
  BY <1>16
     DEF EntryLeftAlone, EntryAbandoned, RepriceCancels,
         RepriceCannotCancel, At, Fine, Mishap, CancelBuy
<1>17. ASSUME NEW c \in Contract, RepriceUnverified(c)
       PROVE  DepartureInv'
  BY <1>17
     DEF RepriceUnverified, At, Mishap, EndPass, FreshLocals
<1>18. ASSUME NEW c \in Contract, Resubmitted(c) \/ ResubmitFailed(c)
       PROVE  DepartureInv'
  BY <1>18
     DEF Resubmitted, ResubmitFailed, At, Fine, AcceptBuy, Mishap, EndPass,
         FreshLocals
<1>19. CASE ScreenAndPropose
  BY <1>19
     DEF ScreenAndPropose, At, Fine, RecordDecision
<1>20. ASSUME NEW u \in Underlying, WalkRefuses(u)
       PROVE  DepartureInv'
  BY <1>20
     DEF WalkRefuses, At, Fine, RecordDecision
<1>21. ASSUME NEW c \in Contract, WalkApproves(c)
       PROVE  DepartureInv'
  BY <1>21
     DEF WalkApproves, At, Fine, RecordDecision, Eligible
<1>22. ASSUME NEW c \in Contract, BuyAccepted(c) \/ BuyFailed(c)
       PROVE  DepartureInv'
  BY <1>22
     DEF BuyAccepted, BuyFailed, At, Fine, AcceptBuy, Mishap, Eligible
<1>23. ASSUME NEW c \in Contract, RecordOrder(c)
       PROVE  DepartureInv'
  BY <1>23
     DEF RecordOrder, At, Fine, OpenHolding
<1>24. CASE WalkDone \/ Finish
  BY <1>24
     DEF WalkDone, Finish, At, Fine, Mishap, RecordOpened, UnannouncedFills,
         EndPass, FreshLocals
<1>25. CASE UNCHANGED vars
  BY <1>25
     DEF vars
<1> QED
  BY <1>1, <1>2, <1>3, <1>4, <1>5, <1>6, <1>7, <1>8, <1>9, <1>10, <1>11,
     <1>12, <1>13, <1>14, <1>15, <1>16, <1>17, <1>18, <1>19, <1>20, <1>21,
     <1>22, <1>23, <1>24, <1>25
     DEF Next, PassStep, Advance, HandleContract

\* An account that starts empty fits its limits.
LEMMA RecordedIsKnown == OrdersAreRecorded => OrdersAreKnown
BY FS_EmptySet, PassAssumption DEF OrdersAreRecorded, OrdersAreKnown, OneEach

\* The invariant holds before the first pass.
LEMMA InitStillInv == Init => StillInv
<1> SUFFICES ASSUME Init PROVE StillInv
  OBVIOUS
<1> USE DEF Init, Committed, Exposed, JustSent, UnderlyingsOf, OutsideTheLook,
            Deciding, Taken, Booking, Reconciling
<1>1. ASSUME OrdersAreKnown PROVE FitInv
  <2>1. Committed = Legacy
    OBVIOUS
  <2> QED
    BY <1>1, <2>1 DEF OrdersAreKnown, FitInv
<1>2. ASSUME OrdersAreRecorded PROVE RowsInv
  BY <1>2 DEF OrdersAreRecorded, RowsInv
<1>3. ASSUME DeparturesAreFound PROVE DepartureInv
  BY <1>3 DEF DeparturesAreFound, OrdersAreRecorded, DepartureInv
<1> QED
  BY <1>1, <1>2, <1>3 DEF StillInv

\* FitInv, RowsInv and DepartureInv are invariants, each under its conditions.
THEOREM StillInvariance == Spec => []StillInv
<1>1. IInv /\ StillInv /\ [Next]_vars => StillInv'
  <2> SUFFICES ASSUME IInv, StillInv, [Next]_vars PROVE StillInv'
    OBVIOUS
  <2>1. ASSUME OrdersAreKnown PROVE FitInv'
    BY <2>1, FitStep DEF StillInv
  <2>2. ASSUME OrdersAreRecorded PROVE RowsInv'
    BY <2>2, RowsStep, RecordedIsKnown DEF StillInv
  <2>3. ASSUME DeparturesAreFound PROVE DepartureInv'
    BY <2>3, DepartureStep, RecordedIsKnown DEF StillInv, DeparturesAreFound
  <2> QED
    BY <2>1, <2>2, <2>3
       DEF StillInv, OrdersAreKnown, OrdersAreRecorded, DeparturesAreFound,
           StillDuringTheLook
<1> QED
  BY <1>1, InitStillInv, Invariance, PTL DEF Spec

\* Positions and buy orders never exceed the slots (gates.py 173-195), whatever
\* is refused, cut off, cancelled or filled between two looks.
THEOREM SlotsAreRespected ==
  ASSUME OrdersAreKnown
  PROVE  Spec => []SlotsRespected
<1>1. IInv /\ StillInv => SlotsRespected
  <2> SUFFICES ASSUME IInv, StillInv PROVE SlotsRespected
    OBVIOUS
  <2>1. IsFiniteSet(Committed)
    <3>1. Committed \subseteq Contract
      BY DEF IInv, TypeOK, BrokerTypeOK, Committed, Exposed
    <3> QED
      BY <3>1, PassAssumption, FS_Subset
  <2>2. Exposed \subseteq Committed
    BY DEF Committed
  <2>3. /\ Cardinality(Exposed) <= Cardinality(Committed)
        /\ Cardinality(Exposed) \in Nat /\ Cardinality(Committed) \in Nat
    BY <2>1, <2>2, FS_Subset, FS_CardinalityType
  <2> QED
    BY <2>3, PassAssumption DEF StillInv, FitInv, SlotsRespected
<1> QED
  BY <1>1, Invariance, StillInvariance, PTL

\* Positions and buy orders are on different names (gates.py 258-277).
THEOREM OneEachUnderlying ==
  ASSUME OrdersAreKnown
  PROVE  Spec => []OnePerUnderlying
<1>1. StillInv => OnePerUnderlying
  BY DEF StillInv, FitInv, OneEach, Committed, OnePerUnderlying
<1> QED
  BY <1>1, StillInvariance, PTL

\* Whatever is owned, or may become owned, has the row its stops are computed
\* from (loop.py 125-127, 639-641), but for the order just sent.
THEOREM LevelsAreThere ==
  ASSUME OrdersAreRecorded
  PROVE  Spec => []LevelsExist
<1>1. StillInv => LevelsExist
  BY DEF StillInv, RowsInv, Committed, JustSent, LevelsExist
<1> QED
  BY <1>1, StillInvariance, PTL

\* No name is bought before its last departure is booked, which is what arms
\* the cooldown (gates.py 237-245).
THEOREM NoEarlyReentry ==
  ASSUME DeparturesAreFound
  PROVE  Spec => NoBuyBeforeDepartureIsBooked
<1>1. IInv /\ StillInv /\ [Next]_vars =>
        (pc = "walk" /\ pc' = "buy" =>
           UnderlyingsOf(cur') \cap UnderlyingsOf(departed) = {})
  <2> SUFFICES ASSUME IInv, StillInv, [Next]_vars, pc = "walk", pc' = "buy"
               PROVE  UnderlyingsOf(cur') \cap UnderlyingsOf(departed) = {}
    OBVIOUS
  <2>1. PICK c \in Contract : WalkApproves(c)
    BY DEF Next, PassStep, Advance, HandleContract, vars, StartPass, At,
           Crash, EndPass, NewDay, BrokerMoves, ReadBook, AbortedRead,
           MarketClosed, ClockConfirmsOpen, ClockUnavailable, SalesAllBooked,
           ReadPendingBuys, ReadFillHistory, ReconcileUnread, Reconciled,
           AnnounceFills, ReadRestingExits, ExitsDone, Reread, ExitsOnlyDone,
           ReadRestingEntries, EntriesRefreshed, ReadPending,
           SessionUnconfirmed, ScreenAndPropose, WalkRefuses, WalkDone,
           Finish, BookSale, ClearBookedRow, DropUnfilledRow, BookStray,
           ClearStrayRow, ExitNotDue, ExitDue, ExitFinds, CancelStaleExit, SellAccepted,
           SellFailed, RecordSale, EntryLeftAlone, EntryAbandoned,
           RepriceCancels, RepriceCannotCancel, RepriceUnverified,
           Resubmitted, ResubmitFailed, BuyAccepted, BuyFailed, RecordOrder
  <2>2. UnderlyingsOf(departed) \subseteq Taken
    BY DEF StillInv, DepartureInv, Deciding
  <2> QED
    BY <2>1, <2>2 DEF WalkApproves, Eligible, Taken, JustSent, UnderlyingsOf
<1>2. IInv /\ StillInv /\ [Next]_vars =>
        [pc = "walk" /\ pc' = "buy" =>
           UnderlyingsOf(cur') \cap UnderlyingsOf(departed) = {}]_vars
  BY <1>1
<1> QED
  BY <1>2, Invariance, StillInvariance, PTL
     DEF Spec, NoBuyBeforeDepartureIsBooked

=============================================================================
