----------------------------- MODULE TradingPass -----------------------------
(***************************************************************************)
(* One account, one profile: the passes cron starts, one after another, on *)
(* a broker that moves while they run.                                     *)
(*                                                                         *)
(* A pass is src/src/agent/loop.py `run_pass`, and `pc` names the place it *)
(* has reached.  Each action is one read of the broker, one request to it  *)
(* or one write to the journal, with the control flow up to the next one:  *)
(* between any two of them the broker may move and the process may die.    *)
(*                                                                         *)
(*   idle -> read -> clock -> book (book_row) -> reconcile -> fills        *)
(*        -> settle (settle_row) -> announce -> resting                    *)
(*        -> exits (cancel_exit, sell, sold) -> reread -> refresh          *)
(*        -> reprice (resubmit) -> pending -> screen                       *)
(*        -> walk (buy, hold) -> finish -> idle                            *)
(*                                                                         *)
(* The rules that decide with prices are left open here: whether an exit   *)
(* is due and how urgently, whether a resting entry is re-priced or given  *)
(* up on, which candidates the model and the order gates like.             *)
(***************************************************************************)
EXTENDS Broker, Journal

CONSTANTS
  MaxPositions,  \* settings.max_positions
  Modes,         \* how passes are run: TRUE dry, FALSE with --live
  Verdicts,      \* what check_exit may answer: "hold", "patient", "urgent"
  Quotes,        \* what an exit may find quoted: "sane", "broken", "none"
  InTheMoney,    \* whether a contract then is, as far as its spot is known
  MovesAt,       \* the places of a pass at which the broker may move
  Mishaps,       \* what may go wrong, see Mishap
  MaxMishaps,    \* bound: how often something may go wrong in a behaviour
  PassesPerDay,  \* passes that find the market open on each trading day
  Legacy         \* positions held before the agent's first pass

Places == {"idle", "read", "clock", "book", "book_row", "reconcile", "fills",
           "settle", "settle_row", "announce", "resting", "exits",
           "cancel_exit", "sell", "sold", "reread", "refresh", "reprice",
           "resubmit", "pending", "screen", "walk", "buy", "hold", "finish"}

ASSUME PassAssumption ==
  /\ IsFiniteSet(Contract)
  /\ IsFiniteSet(Underlying)
  /\ MaxPositions \in Nat
  /\ MaxMishaps \in Nat
  /\ PassesPerDay \in Nat
  /\ Modes \subseteq BOOLEAN
  /\ Verdicts \subseteq {"hold", "patient", "urgent"}
  /\ Quotes \subseteq {"sane", "broken", "none"}
  /\ InTheMoney \subseteq BOOLEAN
  /\ MovesAt \subseteq Places
  /\ Legacy \subseteq Contract

VARIABLES
  pc,            \* where the running pass is; "idle" when none runs
  dry_run,       \* the pass was started without --live
  exits_only,    \* the pass was started with --exits-only
  halted,        \* TRADING_HALTED as the pass read it
  clock_known,   \* the broker's clock could be read
  positions,     \* the pass's snapshot of the book
  todo,          \* what the loop it is in has still to look at
  strays,        \* rows `_reconcile_holdings` found to have left the book
  resting_exits, \* the pass's snapshot of resting sell orders
  cur,           \* the contract being handled, as a set of at most one
  asLimit,       \* the exit order about to be sent names a price
  closed_any,    \* result.closed > 0, until the re-read it decides on
  pending,       \* ctx.pending: underlyings with a resting order
  ordered,       \* underlyings this pass has ordered
  slate,         \* candidates left to walk
  trading_day,   \* the market opens today
  passes,        \* passes that found the market open today
  mishaps        \* how often something has gone wrong

\* The locals of run_pass, grouped by what they are for.
modeVars == <<dry_run, exits_only, halted, clock_known>>
viewVars == <<positions, closed_any>>
loopVars == <<todo, strays, cur>>
exitVars == <<resting_exits, asLimit>>
entryVars == <<pending, ordered, slate>>
dayVars == <<trading_day, passes>>
outsideVars == <<brokerVars, journalVars, dayVars>>
vars == <<outsideVars, pc, modeVars, viewVars, loopVars, exitVars, entryVars, mishaps>>

TypeOK ==
  /\ BrokerTypeOK
  /\ JournalTypeOK(Contract, Underlying)
  /\ pc \in Places
  /\ dry_run \in BOOLEAN /\ exits_only \in BOOLEAN
  /\ halted \in BOOLEAN /\ clock_known \in BOOLEAN
  /\ positions \subseteq Contract
  /\ todo \subseteq Contract
  /\ strays \subseteq Contract
  /\ resting_exits \subseteq Contract
  /\ cur \subseteq Contract
  /\ asLimit \in BOOLEAN /\ closed_any \in BOOLEAN
  /\ pending \subseteq Underlying
  /\ ordered \subseteq Underlying
  /\ slate \subseteq Underlying
  /\ trading_day \in BOOLEAN
  /\ passes \in 0 .. PassesPerDay
  /\ mishaps \in 0 .. MaxMishaps

-----------------------------------------------------------------------------
(***************************************************************************)
(* Control.                                                                *)
(***************************************************************************)
At(place) == pc = place

\* The locals of run_pass, as they are before a pass has read anything.
FreshLocals ==
  /\ clock_known' = FALSE
  /\ positions' = {} /\ todo' = {} /\ strays' = {} /\ resting_exits' = {}
  /\ cur' = {} /\ asLimit' = FALSE /\ closed_any' = FALSE
  /\ pending' = {} /\ ordered' = {} /\ slate' = {}

EndPass ==
  /\ pc' = "idle"
  /\ dry_run' = FALSE /\ exits_only' = FALSE /\ halted' = FALSE
  /\ FreshLocals

\* Something goes wrong: "read" a broker read fails, "clock" its clock does,
\* "reject" it refuses an order, "lost" it takes an order whose answer never
\* arrives, "cancel" a cancel is not carried out, "partial" an order fills in
\* part, "by_hand" a position leaves without the agent, "crash" the process
\* dies, "holiday" a weekday has no session.
Mishap(kind) ==
  /\ kind \in Mishaps
  /\ mishaps < MaxMishaps
  /\ mishaps' = mishaps + 1

Fine == UNCHANGED mishaps

Init ==
  /\ held = Legacy /\ buys = {} /\ partial = {} /\ sells = {} /\ patient = {}
  /\ bought = {} /\ departed = {}
  /\ holdings = {} /\ announced = {} /\ unbooked = {}
  /\ cooling = [u \in Underlying |-> 0] /\ closedToday = {} /\ decided = FALSE
  /\ pc = "idle" /\ dry_run = FALSE /\ exits_only = FALSE /\ halted = FALSE
  /\ clock_known = FALSE
  /\ positions = {} /\ todo = {} /\ strays = {} /\ resting_exits = {}
  /\ cur = {} /\ asLimit = FALSE /\ closed_any = FALSE
  /\ pending = {} /\ ordered = {} /\ slate = {}
  /\ trading_day = TRUE /\ passes = 0 /\ mishaps = 0

-----------------------------------------------------------------------------
(***************************************************************************)
(* Around the passes.  cron starts one every five minutes, the full one    *)
(* every fifteen; the lock run_pass.sh takes leaves one running at a time  *)
(* and is released when the process dies.                                  *)
(***************************************************************************)
StartPass(only) ==
  /\ At("idle")
  /\ pc' = "read"
  /\ dry_run' \in Modes
  /\ exits_only' = only
  /\ halted' \in BOOLEAN
  /\ FreshLocals
  /\ Fine
  /\ UNCHANGED outsideVars

Crash ==
  /\ ~At("idle")
  /\ Mishap("crash")
  /\ EndPass
  /\ UNCHANGED outsideVars

NewDay ==
  /\ At("idle")
  /\ passes = PassesPerDay \/ ~trading_day
  /\ DayOrdersExpire
  /\ DateChanges
  /\ passes' = 0
  /\ \/ trading_day' = TRUE /\ Fine
     \/ trading_day' = FALSE /\ Mishap("holiday")
  /\ UNCHANGED <<pc, modeVars, viewVars, loopVars, exitVars, entryVars>>

\* The market is open while the broker moves.
BrokerMoves(c) ==
  /\ pc \in MovesAt
  /\ trading_day
  /\ \/ BuyFills(c) /\ Fine
     \/ BuyPartlyFills(c) /\ Mishap("partial")
     \/ SellFills(c) /\ Fine
     \/ LeavesUnasked(c) /\ Mishap("by_hand")
  /\ UNCHANGED <<journalVars, dayVars, pc, modeVars, viewVars, loopVars,
                 exitVars, entryVars>>

-----------------------------------------------------------------------------
(***************************************************************************)
(* Seeing the world.                                                       *)
(***************************************************************************)
ReadBook ==
  /\ At("read")
  /\ positions' = held
  /\ pc' = "clock"
  /\ Fine
  /\ UNCHANGED <<outsideVars, modeVars, closed_any, loopVars, exitVars, entryVars>>

\* A read the pass cannot do without fails: it alerts and returns.
AbortedRead ==
  /\ At("read") \/ At("pending")
  /\ Mishap("read")
  /\ EndPass
  /\ UNCHANGED outsideVars

MarketClosed ==
  /\ At("clock")
  /\ EndPass
  /\ Fine
  /\ UNCHANGED outsideVars

ClockConfirmsOpen ==
  /\ At("clock")
  /\ trading_day
  /\ clock_known' = TRUE
  /\ passes' = IF passes < PassesPerDay THEN passes + 1 ELSE passes
  /\ pc' = "book"
  /\ Fine
  /\ UNCHANGED <<brokerVars, journalVars, trading_day, dry_run, exits_only,
                 halted, viewVars, loopVars, exitVars, entryVars>>

\* Without a clock regular hours decide, which know nothing of holidays.
ClockUnavailable ==
  /\ At("clock")
  /\ Mishap("clock")
  /\ pc' = "book"
  /\ UNCHANGED <<outsideVars, modeVars, viewVars, loopVars, exitVars, entryVars>>

-----------------------------------------------------------------------------
(***************************************************************************)
(* `_book_completed_sales`: the sales whose position the snapshot no       *)
(* longer shows.                                                           *)
(***************************************************************************)
\* (Faulty variants: every sale; only the sales of contracts with a row.)
AllSales == unbooked
SalesWithARow == (unbooked \cap holdings) \ positions

CompletedSales == unbooked \ positions

BookSale(c) ==
  /\ At("book")
  /\ c \in CompletedSales
  /\ RecordClosed(c, UnderlyingOf[c])
  /\ departed' = departed \ {c}
  /\ cur' = {c}
  /\ closed_any' = TRUE
  /\ pc' = "book_row"
  /\ Fine
  /\ UNCHANGED <<held, buys, partial, sells, patient, bought, dayVars, modeVars,
                 positions, todo, strays, exitVars, entryVars>>

ClearBookedRow(c) ==
  /\ At("book_row")
  /\ c \in cur
  /\ CloseHolding(c)
  /\ cur' = {}
  /\ pc' = "book"
  /\ Fine
  /\ UNCHANGED <<brokerVars, dayVars, modeVars, viewVars, todo, strays,
                 exitVars, entryVars>>

(***************************************************************************)
(* `_reconcile_holdings`: rows without a position, told apart by the open  *)
(* orders and the fill history, each read later than the snapshot.         *)
(***************************************************************************)
\* (Faulty variant: only rows whose fill was announced.)
StaleAnnouncedRows == announced \ positions

StaleRows == holdings \ positions

\* (Faulty variant: rows are reconciled before the sales are booked.)
ReconcileFirst ==
  /\ At("book")
  /\ todo' = StaleRows
  /\ pc' = IF StaleRows = {} THEN "announce" ELSE "reconcile"
  /\ Fine
  /\ UNCHANGED <<outsideVars, modeVars, viewVars, strays, cur, exitVars, entryVars>>

SalesAllBooked ==
  /\ At("book")
  /\ CompletedSales = {}
  /\ todo' = StaleRows
  /\ pc' = IF StaleRows = {} THEN "announce" ELSE "reconcile"
  /\ Fine
  /\ UNCHANGED <<outsideVars, modeVars, viewVars, strays, cur, exitVars, entryVars>>

\* (Faulty variant: the answer is not taken out of the stale rows.)
ReadPendingBuysInVain ==
  /\ At("reconcile")
  /\ todo' = todo
  /\ pc' = "fills"
  /\ Fine
  /\ UNCHANGED <<outsideVars, modeVars, viewVars, strays, cur, exitVars, entryVars>>

ReadPendingBuys ==
  /\ At("reconcile")
  /\ todo' = todo \ buys
  /\ pc' = "fills"
  /\ Fine
  /\ UNCHANGED <<outsideVars, modeVars, viewVars, strays, cur, exitVars, entryVars>>

\* (Faulty variant: every order counts as one that never filled.)
ReadNoFillHistory ==
  /\ At("fills")
  /\ strays' = {}
  /\ todo' = todo
  /\ pc' = "settle"
  /\ Fine
  /\ UNCHANGED <<outsideVars, modeVars, viewVars, cur, exitVars, entryVars>>

ReadFillHistory ==
  /\ At("fills")
  /\ strays' = todo \cap bought
  /\ todo' = todo \ bought
  /\ pc' = "settle"
  /\ Fine
  /\ UNCHANGED <<outsideVars, modeVars, viewVars, cur, exitVars, entryVars>>

\* Either read fails: the table is left alone for this pass.
ReconcileUnread ==
  /\ At("reconcile") \/ At("fills")
  /\ Mishap("read")
  /\ todo' = {}
  /\ pc' = "announce"
  /\ UNCHANGED <<outsideVars, modeVars, viewVars, strays, cur, exitVars, entryVars>>

\* The order never filled: an `unfilled` event, and the row goes.
DropUnfilledRow(c) ==
  /\ At("settle")
  /\ c \in todo
  /\ CloseHolding(c)
  /\ todo' = todo \ {c}
  /\ Fine
  /\ UNCHANGED <<brokerVars, dayVars, pc, modeVars, viewVars, strays, cur,
                 exitVars, entryVars>>

\* `record_external_close`: it filled once and is not in the book.
BookStray(c) ==
  /\ At("settle")
  /\ c \in strays
  /\ RecordClosed(c, UnderlyingOf[c])
  /\ departed' = departed \ {c}
  /\ strays' = strays \ {c}
  /\ cur' = {c}
  /\ pc' = "settle_row"
  /\ Fine
  /\ UNCHANGED <<held, buys, partial, sells, patient, bought, dayVars, modeVars,
                 viewVars, todo, exitVars, entryVars>>

ClearStrayRow(c) ==
  /\ At("settle_row")
  /\ c \in cur
  /\ CloseHolding(c)
  /\ cur' = {}
  /\ pc' = "settle"
  /\ Fine
  /\ UNCHANGED <<brokerVars, dayVars, modeVars, viewVars, todo, strays,
                 exitVars, entryVars>>

Reconciled ==
  /\ At("settle")
  /\ todo = {} /\ strays = {}
  /\ pc' = "announce"
  /\ Fine
  /\ UNCHANGED <<outsideVars, modeVars, viewVars, loopVars, exitVars, entryVars>>

\* `_announce_fills`.
AnnounceFills ==
  /\ At("announce")
  /\ RecordOpened(UnannouncedFills(positions))
  /\ pc' = "resting"
  /\ Fine
  /\ UNCHANGED <<brokerVars, dayVars, modeVars, viewVars, loopVars, exitVars, entryVars>>

-----------------------------------------------------------------------------
(***************************************************************************)
(* Exits.                                                                  *)
(***************************************************************************)
\* `_resting_exit_orders`; an unreadable list counts as an empty one.
ReadRestingExits ==
  /\ At("resting")
  /\ \/ resting_exits' = sells /\ Fine
     \/ resting_exits' = {} /\ Mishap("read")
  /\ todo' = positions
  /\ pc' = "exits"
  /\ UNCHANGED <<outsideVars, modeVars, viewVars, strays, cur, asLimit, entryVars>>

ExitNotDue(c) ==
  /\ At("exits")
  /\ c \in todo
  /\ "hold" \in Verdicts
  /\ todo' = todo \ {c}
  /\ Fine
  /\ UNCHANGED <<outsideVars, pc, modeVars, viewVars, strays, cur, exitVars, entryVars>>

\* Not to be sold below what exercise is worth: a bid that is lower, or none at
\* all, be it that nobody quotes or that the quote could not be read.
ProtectiveFloor(quote, in_the_money) == in_the_money /\ quote # "sane"

\* `_close` chooses the order: a limit at the floor if there is one, the market
\* when an earlier limit did not fill, when the exit is urgent or nobody quotes,
\* and a patient limit otherwise.
\* (Faulty variant: a limit that did not fill is followed by another.)
NamesAPricePatiently(verdict, quote, in_the_money, stale) ==
  \/ ProtectiveFloor(quote, in_the_money)
  \/ verdict = "patient" /\ quote # "none"

NamesAPrice(verdict, quote, in_the_money, stale) ==
  \/ ProtectiveFloor(quote, in_the_money)
  \/ ~stale /\ verdict = "patient" /\ quote # "none"

\* No bid is below the exercise value of a contract that has none.
ExitFinds(c, verdict, quote, in_the_money) ==
  /\ At("exits")
  /\ c \in todo
  /\ quote = "broken" => in_the_money
  /\ asLimit' = NamesAPrice(verdict, quote, in_the_money, c \in resting_exits)
  /\ cur' = {c}
  /\ todo' = todo \ {c}
  /\ pc' = IF c \in resting_exits THEN "cancel_exit" ELSE "sell"
  /\ Fine
  /\ UNCHANGED <<outsideVars, modeVars, viewVars, strays, resting_exits, entryVars>>

ExitDue(c) ==
  \E verdict \in Verdicts \ {"hold"}, quote \in Quotes, in_the_money \in InTheMoney :
     ExitFinds(c, verdict, quote, in_the_money)

\* The answer of the cancel is not looked at, and dry run does not stop it.
CancelStaleExit(c) ==
  /\ At("cancel_exit")
  /\ c \in cur
  /\ \/ CancelSell(c) /\ Fine
     \/ UNCHANGED brokerVars /\ Mishap("cancel")
  /\ pc' = "sell"
  /\ UNCHANGED <<journalVars, dayVars, modeVars, viewVars, loopVars, exitVars, entryVars>>

SellAccepted(c) ==
  /\ At("sell")
  /\ c \in cur
  /\ IF dry_run THEN UNCHANGED brokerVars
               ELSE CanSell(c) /\ AcceptSell(c, asLimit)
  /\ pc' = "sold"
  /\ Fine
  /\ UNCHANGED <<journalVars, dayVars, modeVars, viewVars, loopVars, exitVars, entryVars>>

\* ExecutionError: alerted, and the loop goes on to the next position.  The
\* broker refuses what is not there to sell; the answer to an order it did
\* take may be lost.
SellFailed(c) ==
  /\ At("sell")
  /\ c \in cur
  /\ \/ UNCHANGED brokerVars /\ ~CanSell(c) /\ Fine
     \/ UNCHANGED brokerVars /\ Mishap("reject")
     \/ CanSell(c) /\ ~dry_run /\ AcceptSell(c, asLimit) /\ Mishap("lost")
  /\ cur' = {} /\ asLimit' = FALSE
  /\ pc' = "exits"
  /\ UNCHANGED <<journalVars, dayVars, modeVars, viewVars, todo, strays,
                 resting_exits, entryVars>>

\* The order is out: the trade is `sold`, not yet `closed`.
RecordSale(c) ==
  /\ At("sold")
  /\ c \in cur
  /\ RecordSold(c)
  /\ closed_any' = TRUE
  /\ cur' = {} /\ asLimit' = FALSE
  /\ pc' = "exits"
  /\ Fine
  /\ UNCHANGED <<brokerVars, dayVars, modeVars, positions, todo, strays,
                 resting_exits, entryVars>>

ExitsDone ==
  /\ At("exits")
  /\ todo = {}
  /\ pc' = "reread"
  /\ resting_exits' = {}
  /\ Fine
  /\ UNCHANGED <<outsideVars, modeVars, viewVars, loopVars, asLimit, entryVars>>

\* The book is read again if anything closed; if that fails the old view
\* stays.  An exits-only pass ends here.
Reread ==
  /\ At("reread")
  /\ ~exits_only
  /\ pc' = "refresh"
  /\ \/ positions' = (IF closed_any THEN held ELSE positions) /\ Fine
     \/ closed_any /\ positions' = positions /\ Mishap("read")
  /\ closed_any' = FALSE
  /\ UNCHANGED <<outsideVars, modeVars, loopVars, exitVars, entryVars>>

ExitsOnlyDone ==
  /\ At("reread")
  /\ exits_only
  /\ EndPass
  /\ Fine
  /\ UNCHANGED outsideVars


-----------------------------------------------------------------------------
(***************************************************************************)
(* `_refresh_resting_entries`.  An order that has filled in part is left   *)
(* alone; age, quote and chase ceiling choose between the three outcomes.  *)
(***************************************************************************)
ReadRestingEntries ==
  /\ At("refresh")
  /\ \/ todo' = buys \ partial /\ pc' = "reprice" /\ Fine
     \/ todo' = {} /\ pc' = "pending" /\ Mishap("read")
  /\ UNCHANGED <<outsideVars, modeVars, viewVars, strays, cur, exitVars, entryVars>>

EntryLeftAlone(c) ==
  /\ At("reprice")
  /\ c \in todo
  /\ todo' = todo \ {c}
  /\ Fine
  /\ UNCHANGED <<outsideVars, pc, modeVars, viewVars, strays, cur, exitVars, entryVars>>

\* Too old, or the quote has run past the chase ceiling: cancelled if it still
\* can be, and the holdings row is left to `_reconcile_holdings`.
EntryAbandoned(c) ==
  /\ At("reprice")
  /\ c \in todo
  /\ \/ CancelBuy(c) /\ Fine
     \/ UNCHANGED brokerVars /\ Mishap("cancel")
  /\ todo' = todo \ {c}
  /\ UNCHANGED <<journalVars, dayVars, pc, modeVars, viewVars, strays, cur,
                 exitVars, entryVars>>

\* (Faulty variant: the kill switch is not asked.)
MayRepriceHalted == TRUE

MayReprice == ~halted

\* `reprice_buy_limit`: cancel, and submit again only if the cancel took.
RepriceCancels(c) ==
  /\ At("reprice")
  /\ c \in todo
  /\ MayReprice
  /\ c \in buys
  /\ CancelBuy(c)
  /\ todo' = todo \ {c}
  /\ cur' = {c}
  /\ pc' = "resubmit"
  /\ Fine
  /\ UNCHANGED <<journalVars, dayVars, modeVars, viewVars, strays, exitVars, entryVars>>

\* The cancel fails, or took but its answer was lost: nothing is submitted.
RepriceCannotCancel(c) ==
  /\ At("reprice")
  /\ c \in todo
  /\ MayReprice
  /\ \/ UNCHANGED brokerVars /\ c \notin buys /\ Fine
     \/ UNCHANGED brokerVars /\ Mishap("cancel")
     \/ c \in buys /\ CancelBuy(c) /\ Mishap("lost")
  /\ todo' = todo \ {c}
  /\ UNCHANGED <<journalVars, dayVars, pc, modeVars, viewVars, strays, cur,
                 exitVars, entryVars>>

\* `verify_paper` comes first; nothing in the pass catches its ExecutionError.
RepriceUnverified(c) ==
  /\ At("reprice")
  /\ c \in todo
  /\ MayReprice
  /\ Mishap("read")
  /\ EndPass
  /\ UNCHANGED outsideVars

Resubmitted(c) ==
  /\ At("resubmit")
  /\ c \in cur
  /\ IF dry_run THEN UNCHANGED brokerVars ELSE AcceptBuy(c)
  /\ cur' = {}
  /\ pc' = "reprice"
  /\ Fine
  /\ UNCHANGED <<journalVars, dayVars, modeVars, viewVars, todo, strays,
                 exitVars, entryVars>>

\* Nothing in the pass catches this ExecutionError: it ends the process.
ResubmitFailed(c) ==
  /\ At("resubmit")
  /\ c \in cur
  /\ \/ UNCHANGED brokerVars /\ Mishap("reject")
     \/ ~dry_run /\ AcceptBuy(c) /\ Mishap("lost")
  /\ EndPass
  /\ UNCHANGED <<journalVars, dayVars>>

EntriesRefreshed ==
  /\ At("reprice")
  /\ todo = {}
  /\ pc' = "pending"
  /\ Fine
  /\ UNCHANGED <<outsideVars, modeVars, viewVars, loopVars, exitVars, entryVars>>

-----------------------------------------------------------------------------
(***************************************************************************)
(* Entries.                                                                *)
(***************************************************************************)
\* `_pending_underlyings` counts every open order, exits included.  Entries
\* end here when the broker has not confirmed the session.
\* (Faulty variant: the clock is not asked for.)
ReadPendingUnconfirmed ==
  /\ At("pending")
  /\ pending' = UnderlyingsOf(buys \cup sells)
  /\ pc' = "screen"
  /\ Fine
  /\ UNCHANGED <<outsideVars, modeVars, viewVars, loopVars, exitVars, ordered, slate>>

ReadPending ==
  /\ At("pending")
  /\ clock_known
  /\ pending' = UnderlyingsOf(buys \cup sells)
  /\ pc' = "screen"
  /\ Fine
  /\ UNCHANGED <<outsideVars, modeVars, viewVars, loopVars, exitVars, ordered, slate>>

SessionUnconfirmed ==
  /\ At("pending")
  /\ ~clock_known
  /\ EndPass
  /\ Fine
  /\ UNCHANGED outsideVars

\* GateContext: the open positions are the snapshot and this pass's orders.
\* (Faulty variant: orders that rest do not take a slot.)
SlotsHeld == Cardinality(positions) + Cardinality(ordered)

CommittedSlots == Cardinality(positions) + Cardinality(ordered) + Cardinality(pending)

\* The entry gates that read the account or the journal, in `screen`'s order:
\* KillSwitch, PositionSlots, Cooldown, NotAlreadyHeld.  MarketOpen holds at
\* this point; SectorConcentration is one more reason a candidate may be left
\* out of the slate.
\* (Faulty variant: an order that rests does not count as held.)
EligibleWhilePending(u) ==
  /\ ~halted
  /\ CommittedSlots < MaxPositions
  /\ cooling[u] = 0
  /\ u \notin UnderlyingsOf(positions) \cup ordered

Eligible(u) ==
  /\ ~halted
  /\ CommittedSlots < MaxPositions
  /\ cooling[u] = 0
  /\ u \notin UnderlyingsOf(positions) \cup ordered
  /\ u \notin pending

\* Whatever is screened out, cannot be briefed or is declined leaves a
\* decision row; the rest is the slate.
ScreenAndPropose ==
  /\ At("screen")
  /\ slate' \in SUBSET {u \in Underlying : Eligible(u)}
  /\ IF slate' = Underlying THEN UNCHANGED journalVars ELSE RecordDecision
  /\ pc' = "walk"
  /\ Fine
  /\ UNCHANGED <<brokerVars, dayVars, modeVars, viewVars, loopVars, exitVars,
                 pending, ordered>>

\* Screened again against the context as it now stands, then authorised.
WalkRefuses(u) ==
  /\ At("walk")
  /\ u \in slate
  /\ RecordDecision
  /\ slate' = slate \ {u}
  /\ Fine
  /\ UNCHANGED <<brokerVars, dayVars, pc, modeVars, viewVars, loopVars,
                 exitVars, pending, ordered>>

WalkApproves(c) ==
  /\ At("walk")
  /\ UnderlyingOf[c] \in slate
  /\ Eligible(UnderlyingOf[c])
  /\ RecordDecision
  /\ slate' = slate \ {UnderlyingOf[c]}
  /\ cur' = {c}
  /\ pc' = "buy"
  /\ Fine
  /\ UNCHANGED <<brokerVars, dayVars, modeVars, viewVars, todo, strays,
                 exitVars, pending, ordered>>

BuyAccepted(c) ==
  /\ At("buy")
  /\ c \in cur
  /\ IF dry_run THEN UNCHANGED brokerVars ELSE AcceptBuy(c)
  /\ pc' = "hold"
  /\ Fine
  /\ UNCHANGED <<journalVars, dayVars, modeVars, viewVars, loopVars, exitVars, entryVars>>

\* ExecutionError: alerted, and the walk goes on with the context it had.
BuyFailed(c) ==
  /\ At("buy")
  /\ c \in cur
  /\ \/ UNCHANGED brokerVars /\ Mishap("reject")
     \/ ~dry_run /\ AcceptBuy(c) /\ Mishap("lost")
  /\ cur' = {}
  /\ pc' = "walk"
  /\ UNCHANGED <<journalVars, dayVars, modeVars, viewVars, todo, strays,
                 exitVars, entryVars>>

\* The levels are written, and the context learns of the order.
RecordOrder(c) ==
  /\ At("hold")
  /\ c \in cur
  /\ OpenHolding(c)
  /\ ordered' = ordered \cup {UnderlyingOf[c]}
  /\ cur' = {}
  /\ pc' = "walk"
  /\ Fine
  /\ UNCHANGED <<brokerVars, dayVars, modeVars, viewVars, todo, strays,
                 exitVars, pending, slate>>

WalkDone ==
  /\ At("walk")
  /\ slate = {}
  /\ pc' = "finish"
  /\ Fine
  /\ UNCHANGED <<outsideVars, modeVars, viewVars, loopVars, exitVars, entryVars>>

\* The book is read once more if anything was ordered, and what filled on the
\* spot is announced.
Finish ==
  /\ At("finish")
  /\ \/ /\ RecordOpened(IF ordered = {} THEN {} ELSE UnannouncedFills(held))
        /\ Fine
     \/ /\ ordered # {}
        /\ UNCHANGED journalVars
        /\ Mishap("read")
  /\ EndPass
  /\ UNCHANGED <<brokerVars, dayVars>>

-----------------------------------------------------------------------------
HandleContract(c) ==
  \/ BookSale(c) \/ ClearBookedRow(c)
  \/ DropUnfilledRow(c) \/ BookStray(c) \/ ClearStrayRow(c)
  \/ ExitNotDue(c) \/ ExitDue(c) \/ CancelStaleExit(c)
  \/ SellAccepted(c) \/ SellFailed(c) \/ RecordSale(c)
  \/ EntryLeftAlone(c) \/ EntryAbandoned(c)
  \/ RepriceCancels(c) \/ RepriceCannotCancel(c) \/ RepriceUnverified(c)
  \/ Resubmitted(c) \/ ResubmitFailed(c)
  \/ WalkApproves(c) \/ BuyAccepted(c) \/ BuyFailed(c) \/ RecordOrder(c)

Advance ==
  \/ ReadBook \/ AbortedRead
  \/ MarketClosed \/ ClockConfirmsOpen \/ ClockUnavailable
  \/ SalesAllBooked \/ ReadPendingBuys \/ ReadFillHistory \/ ReconcileUnread
  \/ Reconciled \/ AnnounceFills
  \/ ReadRestingExits \/ ExitsDone \/ Reread \/ ExitsOnlyDone
  \/ ReadRestingEntries \/ EntriesRefreshed
  \/ ReadPending \/ SessionUnconfirmed \/ ScreenAndPropose
  \/ \E u \in Underlying : WalkRefuses(u)
  \/ WalkDone \/ Finish

PassStep == Advance \/ \E c \in Contract : HandleContract(c)

Next ==
  \/ \E only \in BOOLEAN : StartPass(only)
  \/ PassStep
  \/ Crash
  \/ NewDay
  \/ \E c \in Contract : BrokerMoves(c)

Spec == Init /\ [][Next]_vars

-----------------------------------------------------------------------------
(***************************************************************************)
(* What holds whatever the broker and the network do.                      *)
(***************************************************************************)
\* A day without a session never counts towards a cooldown: decision rows are
\* dated only on days the broker confirmed, whatever the clock read did
\* (loop.py 501-504, journal.py 525-527).
HolidaysDoNotCount == decided => trading_day

\* While the kill switch is on, and in an exits-only pass, the agent places no
\* buy order, neither a new one nor a re-priced one (loop.py 447-461, 1007-1012,
\* gates.py 136-151).
NothingOpensWhenForbidden ==
  [][halted \/ exits_only => buys' \subseteq buys]_vars

\* Each sale is booked as `closed` once, for a position that has left the book
\* since the last `closed` of its contract, however many orders it took
\* (loop.py 236-251, journal.py 425-433).
BookedSalesHaveLeft ==
  [][pc = "book" /\ pc' = "book_row" => cur' \subseteq departed]_vars

(***************************************************************************)
(* Why it holds: the inductive invariant of the four properties above.     *)
(***************************************************************************)
\* Whoever knows the clock knows that today is a session, and only the places
\* past the look at the open orders, which ask for the clock, write decisions.
SessionInv ==
  /\ decided => trading_day
  /\ clock_known => trading_day /\ pc # "idle"
  /\ pc \in {"screen", "walk", "buy", "hold", "finish"} => clock_known

\* An exits-only pass never gets past its exits, and a halted one never gets
\* to the two places that send a buy order.
ForbiddenInv ==
  /\ exits_only => pc \notin {"refresh", "reprice", "resubmit", "pending",
                              "screen", "walk", "buy", "hold", "finish"}
  /\ halted => pc \notin {"resubmit", "buy", "hold"}

\* The places at which the first snapshot of the book is being worked on.
Booking == {"clock", "book", "book_row"}
Reconciling == {"reconcile", "fills", "settle", "settle_row"}
Exiting == {"exits", "cancel_exit", "sell", "sold"}
Looking == Booking \cup Reconciling \cup Exiting \cup {"announce", "resting"}

\* What is sold and not booked is either still held or has left: the position
\* cannot be both gone and forgotten.  The rest says that the stale snapshot
\* only errs on the safe side: it shows nothing that was not held when the
\* pass began, so whatever it shows is held or has left since, and a sale it
\* does not show has left for good.  A resting sell order is covered, and what
\* is being reconciled is no contract with a sale on the books.
SalesInv ==
  /\ sells \subseteq held
  /\ unbooked \subseteq held \cup departed
  /\ pc \in Booking => unbooked \ positions \subseteq departed
  /\ pc \in Looking => positions \subseteq held \cup departed
  /\ pc \in Reconciling => (todo \cup strays) \cap positions = {}
  /\ pc \in Reconciling => unbooked \subseteq positions
  /\ pc \notin {"settle", "settle_row"} => strays = {}
  /\ pc \in Exiting => todo \subseteq positions
  /\ pc \in {"cancel_exit", "sell", "sold"} => cur \subseteq positions

\* What every step keeps, and what the theorems rest on.
IInv == TypeOK /\ SessionInv /\ ForbiddenInv /\ SalesInv

(***************************************************************************)
(* What the pass implements.                                               *)
(***************************************************************************)
\* The two places at which a `closed` event has been written and the row of the
\* contract has yet to go.
BeingClosed == [sale |-> IF pc = "book_row" THEN cur ELSE {},
                outside |-> IF pc = "settle_row" THEN cur ELSE {}]

Trades == INSTANCE TradeBook
          WITH owned <- held, gone <- departed, sold <- unbooked, closing <- BeingClosed

\* Whatever a pass sees too late, and wherever it dies, the journal's account of
\* trades is that of TradeBook: a sale is recorded of what is or was there,
\* closed once and only after the position left, and never swallowed by a close
\* "outside the agent" (loop.py 99-174, 232-265, journal.py 425-433, 488-506).
TradesAreAccountedFor == Trades!Spec

(***************************************************************************)
(* What holds when the broker does not move between the pass's first look  *)
(* at the book and its last look at the open orders.                       *)
(***************************************************************************)
\* Every position and every resting order has the row that carries its stop
\* and target, once the order that made it is written down (loop.py 125-127,
\* 639-641).
LevelsExist ==
  \A c \in Exposed : c \in holdings \/ (pc = "hold" /\ c \in cur)

\* Positions and resting orders together never exceed the slots (gates.py
\* 107-115, 173-195).
SlotsRespected == Cardinality(Exposed) <= MaxPositions

\* One position or one order per underlying (gates.py 258-277).
OnePerUnderlying ==
  /\ \A c, d \in Exposed : UnderlyingOf[c] = UnderlyingOf[d] => c = d
  /\ held \cap buys \subseteq partial

\* No order is approved on a name while a position in it has left the book and
\* no `closed` event, which is what arms its cooldown, says so yet (gates.py
\* 237-245).
NoBuyBeforeDepartureIsBooked ==
  [][pc = "walk" /\ pc' = "buy" =>
       UnderlyingsOf(cur') \cap UnderlyingsOf(departed) = {}]_vars

(***************************************************************************)
(* Why it holds, and under which conditions.                               *)
(***************************************************************************)
\* The broker keeps still from the look at the book to the look at the open
\* orders; on the spot an order may fill.
OutsideTheLook == {"idle", "read", "screen", "walk", "buy", "hold", "finish"}

StillDuringTheLook == MovesAt \subseteq OutsideTheLook

OneEach(S) == \A c, d \in S : UnderlyingOf[c] = UnderlyingOf[d] => c = d

\* Every answer arrives, and what was there before the agent fits its limits.
OrdersAreKnown ==
  /\ StillDuringTheLook
  /\ "lost" \notin Mishaps
  /\ Cardinality(Legacy) <= MaxPositions /\ OneEach(Legacy)

\* ... every order gets its row, as none is cut off from it by a death, and
\* none is sold in parts; nothing was there before.
OrdersAreRecorded ==
  /\ StillDuringTheLook
  /\ Mishaps \cap {"lost", "crash", "partial"} = {}
  /\ Legacy = {}

\* ... and what leaves without an order of the agent is found to have left.
DeparturesAreFound ==
  /\ OrdersAreRecorded
  /\ "read" \notin Mishaps \/ "by_hand" \notin Mishaps

\* A re-price takes an order off only to send it again.
Committed == Exposed \cup IF pc = "resubmit" THEN cur ELSE {}

\* An order is out and the context of the walk has yet to learn of it.
JustSent == IF pc = "hold" THEN cur ELSE {}

Deciding == {"screen", "walk", "buy", "hold"}

\* What the context of the walk counts with: the names it takes for gone.
Taken == UnderlyingsOf(positions \cup JustSent) \cup pending \cup ordered

\* What the account is committed to fits the limits, and the context of a walk
\* leaves nothing of it out, so that what it lets through fits as well.
FitInv ==
  /\ Cardinality(Committed) <= MaxPositions /\ OneEach(Committed)
  /\ \A c, d \in cur : c = d
  /\ held \cap buys \subseteq partial
  /\ pc \notin OutsideTheLook => positions = held
  /\ pc \in {"reprice", "resubmit"} => todo \cap partial = {}
  /\ pc = "resubmit" => cur \cap held = {}
  /\ pc \in Deciding =>
       UnderlyingsOf(Exposed \ positions) \subseteq
         pending \cup ordered \cup UnderlyingsOf(JustSent)
  /\ pc = "buy" => \A c \in cur : Eligible(UnderlyingOf[c])

\* Rows are only taken away from contracts that are neither held nor ordered:
\* what has been sold is not ordered again before it is booked, and what is
\* being reconciled is known to be in neither list.
RowsInv ==
  /\ partial = {}
  /\ Committed \subseteq holdings \cup JustSent
  /\ unbooked \cap (Committed \ held) = {}
  /\ pc \notin Booking \cup {"idle", "read", "finish"} => unbooked \subseteq positions
  /\ pc \in {"book_row", "settle_row"} => cur \cap Exposed = {}
  /\ pc = "fills" => todo \cap Exposed = {}
  /\ pc \in {"settle", "settle_row"} => (todo \cup strays) \cap Exposed = {}

\* What has left is on record, as a sale or as a row of something that filled
\* once, and a pass that gets past its bookkeeping has booked all of it; what
\* leaves while it decides is still in its context.
DepartureInv ==
  /\ held \cup departed \subseteq bought
  /\ departed \cap Exposed = {}
  /\ departed \subseteq unbooked \cup holdings \cup JustSent
  /\ "by_hand" \notin Mishaps =>
       /\ sells \subseteq unbooked \cup IF pc = "sold" THEN cur ELSE {}
       /\ departed \subseteq unbooked
  /\ pc \in {"book_row", "settle_row"} => cur \cap departed = {}
  /\ pc \in {"reconcile", "fills"} => departed \subseteq todo
  /\ pc \in {"settle", "settle_row"} => departed \subseteq strays /\ todo \cap bought = {}
  /\ pc \notin OutsideTheLook \cup Booking \cup Reconciling => departed = {}
  /\ pc \in Deciding => UnderlyingsOf(departed) \subseteq Taken

\* Each part under the conditions it needs.
StillInv ==
  /\ OrdersAreKnown => FitInv
  /\ OrdersAreRecorded => RowsInv
  /\ DeparturesAreFound => DepartureInv

(***************************************************************************)
(* What must happen.                                                       *)
(***************************************************************************)
MarketSellFills(c) ==
  /\ c \in sells \ patient
  /\ pc \in MovesAt
  /\ trading_day
  /\ SellFills(c)
  /\ Fine
  /\ UNCHANGED <<journalVars, dayVars, pc, modeVars, viewVars, loopVars,
                 exitVars, entryVars>>

FullPassFindsMarketOpen == ~exits_only /\ ClockConfirmsOpen

\* cron goes on starting full passes (crontab.example 32-35) and a pass that
\* runs goes on; of the full passes of the sessions to come, some find the
\* market open, PassesPerDay of either kind on each day; days go by; a market
\* order fills sooner or later.
Fairness ==
  /\ SF_vars(StartPass(FALSE))
  /\ WF_vars(PassStep)
  /\ SF_vars(FullPassFindsMarketOpen)
  /\ SF_vars(NewDay)
  /\ \A c \in Contract : SF_vars(MarketSellFills(c))

FairSpec == Spec /\ Fairness

\* A sale whose position is gone gets booked (loop.py 375-380).
SalesGetBooked ==
  \A c \in Contract :
    c \in unbooked /\ c \notin held ~> (c \notin unbooked \/ c \in held)

\* A row with neither a position nor an order behind it goes (loop.py 99-174).
StaleRowsGo ==
  \A c \in Contract :
    c \in holdings \ Exposed ~> (c \notin holdings \/ c \in Exposed)

\* A pass that finds an exit resting finds no floor under it either, again and
\* again: out of the money, or with a bid that exercise does not beat.
EscalatesWithoutAFloor(c) ==
  /\ c \in resting_exits
  /\ \E verdict \in Verdicts \ {"hold"}, quote \in Quotes, in_the_money \in InTheMoney :
        /\ ~ProtectiveFloor(quote, in_the_money)
        /\ ExitFinds(c, verdict, quote, in_the_money)

QuotesRecover(c) == SF_vars(EscalatesWithoutAFloor(c))

\* A position whose exit stays due leaves, although its limits need never
\* fill: the next pass cancels the limit and goes to market (loop.py 747-757).
\* Not so for as long as there is a floor under it, which is a limit on every
\* pass (loop.py 763-770): in the money, a bid that stays below exercise value or
\* a quote that stays away holds the position.
DueExitsGetOut ==
  \A c \in Contract : QuotesRecover(c) => (c \in held ~> c \notin held)

\* Every cooldown ends (journal.py 511-532).
CooldownsEnd == \A u \in Underlying : cooling[u] > 0 ~> cooling[u] = 0

=============================================================================
