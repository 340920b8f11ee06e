# A verification project for the trading agent

The agent trades long options on one paper account. Cron starts a *pass* every
five minutes; a pass reads the account, sells what must be sold, looks for new
positions and exits. Nothing stays in memory: what one pass knows of another is
what the broker shows and what an SQLite journal recorded. Every stop is a
software stop, so what protects the money is that passes get three pictures of
the same account (positions, orders, journal) to agree, although they are read
at different times while the broker moves.

That agreement is the first thing this project is about. The second are the
rules each pass applies to what it sees: what of a model's answer counts as a
view, which trades may be opened, how an entry order is chased, when a position
is closed and with what order. The third is the schedule: that passes come one
at a time, and often enough. All of it is written in TLA+ and checked with TLC on
small instances; every safety property the passing runs check is proved with TLAPS
for all of them.

## Inventory

| Part | State | Operations | Hard behaviour |
| --- | --- | --- | --- |
| Pass orchestrator, `src/agent/loop.py` | locals of one pass: snapshot of the book, resting exits, pending names, orders of this pass, slate | `run_pass`: book sales, reconcile rows, announce fills, exits, re-price entries, screen, walk | snapshots that go stale inside the pass; failures and death between any two steps |
| Journal, `journal.py` | tables `holdings`, `events`, `decisions` (and metrics) | `open_holding`, `close_holding`, `record`, `record_decision`, `unbooked_sales`, `unannounced_fills`, `cooling_off` | one transaction per call, several calls per business step; cooldowns counted in sessions |
| Order execution, `executor.py` | none | buy, sell, cancel, re-price, list orders and fills | timeouts after the order arrived, refusals, cancel then submit, dry run |
| Broker account (external) | positions, orders, order history | fills, partial fills, expiry, closes by hand | moves whenever it likes |
| Schedule, `deploy/run_pass.sh`, `crontab.example`, `run.py` | lock file, the processes that hold it | start full or exits-only, dry or live; skip if one runs; tell of a failure | wrapper killed and Python not, overruns, reboots, overlap by hand, no key for the model |
| Entry gates, `gates.py` 123-277 | none (pure over `GateContext`) | kill switch, clock, slots, sector, cooldown, one per underlying | a context older than the account |
| Order gates, `gates.py` 292-573; `entry.py` | none | ten rules that refuse or shrink | reject-or-shrink, order of the chain |
| Exit rules, `exits.py` | peak premium in `holdings` | `check_exit`, levels, limit price | precedence of rules, high-water mark |
| Selection, `selector.py` | none | order the slate, fall back to confidence | a model's answer must stay a permutation |
| Proposer and models, `proposer.py`, `models.py` | none | ask, parse, validate, clamp | failed calls, answers cut off, several objects, words or NaN for numbers |
| Market reader, `market.py` | MCP session | account, positions, quotes, clock | reads that fail, fields that are missing |
| Notification, report, evaluation, profile, installer | none that is read back | output, set-up | none |

How they interact: cron starts `run_pass.sh`, which holds a lock for the life of
one `run.py trade`, which calls `run_pass`. `run_pass` reads through the market
reader and the executor, writes orders through the executor and rows through the
journal, and hands a snapshot (`GateContext`) to the gates.

What makes each part correct:

- *orchestrator and journal*: a sale is booked once, when its position is gone;
  what is owned or may become owned has the levels its stop needs; a name is not
  bought before its last departure has armed the cooldown; slots and one
  position per name hold for positions and orders together; the kill switch, an
  exits-only pass and an unconfirmed session open nothing; what is due happens.
- *executor*: a dry run changes nothing; a re-price never doubles an order.
- *schedule*: one pass of cron at a time, full passes that are never starved, and
  a book that is left unwatched for longer than a full pass may think only with
  a notice that is due, or for a reason that leaves nobody to send one.
- *rules*: gates only refuse or shrink; an exit rule cannot be masked by a softer
  one; selection drops and invents nothing.
- *proposer and models*: a trade rests on a view that some model stated; every
  failure reads as no view.
- *market reader*: a field that is missing does not read as a crash.

The hazards behind these are listed line by line in `PROJECT.json`.

## Modules

| Module | What it models |
| --- | --- |
| `Broker` | the account as the agent can see it (external): `held`, `buys` with `partial`, `sells` with `patient`, `bought` (the fill history) and the history variable `departed`, the contracts that left since their last `closed` event; what the market does with them and what requests do |
| `Journal` | `holdings`, and the events and decisions as the queries read them: `announced`, `unbooked`, `cooling`, `closedToday`, `decided`; one operator per transaction |
| `TradingPass` | extends both: one pass after another, one action per broker read, broker request or journal write, with the control flow up to the next; the properties; the inductive invariant; fairness. `MCTradingPass` gives the accounts, `TradingPassProofs` the theorems for every broker, `StillLookProofs` those for one that keeps still during the look |
| `TradeBook` | abstract: what the journal promises of trades, with nothing said of passes. `TradingPass` implements it (`TradesAreAccountedFor`) |
| `Schedule` | cron lines, wrappers, Python processes and the lock; when the book is looked at and what is said when it is not. `ScheduleProofs` has its theorems |
| `Cooldown` | the dated rows behind the cooldown and the query of `cooling_off`; part of `Schedule`, where it is shown to count as `Journal` does (`CountsSessions`) |
| `EntryOrder` | one trade in quantities, cents and minutes: re-pricing, giving up, the row's premium and peak, and passes that overlap on that row. `EntryOrderProofs` has its theorems |
| `ContractRules` | pure: `pick_contract`, the limit, and the order gates that look at nothing but proposal and contract |
| `BookRules` | pure: the gates that look at the account, entry and order gates both, the chain `authorise`, and the context the walk goes on with. `BookRulesProofs` has the lemmas about sums of money |
| `Selection` | pure: the order of the slate, for any answer of the selector; sorting and filtering by the places in a sequence. `SelectionProofs` shows that it keeps the slate |
| `ModelAnswers` | pure: what either backend and the proposer make of a reply, down to a proposal or none |
| `EntryWalk` | extends the four: pass after pass, replies, candidates, slate and walk, with the broker filling, dropping and closing in between; `MCEntryWalk` gives watchlist and replies, `EntryWalkProofs` has the theorems |
| `ExitRules` | pure: `check_exit` and its precedence, what `_close` sends, the levels a row is opened with |
| `MarketReads` | pure: what a position, the quote of a contract and the price of an underlying are read as when fields of the answers are missing |
| `ExitWatch` | extends `ContractRules`, `ExitRules` and `MarketReads`: one position from the contract that passed the gates to the sale, watched by one pass after another; `MCExitWatch` gives the prices, `ExitWatchProofs` has the theorems |

The other state machines are close-ups of what `TradingPass` leaves open, each
with its own small world: `Schedule` of when a pass runs, `EntryOrder` of the
re-price decision, `EntryWalk` of the screen and the walk, `ExitWatch` of the exit
verdict. What `TradingPass` is about, failing requests and reads that do not fit
together, is in turn left out of the close-ups.

### TradingPass

`pc` names the place a pass has reached, and the comment at the top of
`TradingPass` draws the order of the places. Between two places the broker may
move (`BrokerMoves`), the process may die (`Crash`), and each read or request
may fail in the ways the code tells apart. The steps and the code:

- `ReadBook`, `AbortedRead`, `MarketClosed`, `ClockConfirmsOpen`,
  `ClockUnavailable`: `loop.py` 329-371. Without a clock regular hours decide,
  which a holiday has too.
- `BookSale`/`ClearBookedRow`: `_book_completed_sales`, two transactions.
- `SalesAllBooked`, `ReadPendingBuys`, `ReadFillHistory`, `DropUnfilledRow`,
  `BookStray`/`ClearStrayRow`, `Reconciled`: `_reconcile_holdings`, with its two
  broker reads apart from each other and from the snapshot they are compared
  with.
- `ReadRestingExits`, `ExitNotDue`, `ExitDue`, `CancelStaleExit`,
  `SellAccepted`/`SellFailed`, `RecordSale`, `ExitsDone`, `Reread`: the exit loop
  and `_close`. Whether an exit is due, how urgently, what is quoted and whether
  the contract is in the money are left open (`Verdicts`, `Quotes`,
  `InTheMoney`). What `_close` makes of them is `NamesAPrice`: the floor of
  `ProtectiveFloor` comes before every other question, and in the money a quote
  that is missing has one just as one that is broken. `ExitRules` has the same
  order with prices (`BidIsBroken`, `CloseWith`).
- `ReadRestingEntries` to `EntriesRefreshed`: `_refresh_resting_entries` and
  `reprice_buy_limit`; age, quote and chase ceiling are left open. An
  `ExecutionError` from the re-price is caught by nobody and ends the process.
- `ReadPending` to `Finish`: context, screen, walk, buy, record, summary. Briefs,
  models, order gates and selection are left open: any subset of the eligible
  names may become the slate, in any order, and any of it may be refused again.

### TradeBook

Four sets: what is owned, what has left and was not written off since, what the
agent has sold and not written off, what has just been closed. In `TradingPass`
they are `held`, `departed`, `unbooked`, and a contract whose `closed` event has
been written while its row is still there (`BeingClosed`). A death between the
two transactions is a stutter or the step `Settled`. `TradeBook` is as weak as the
code is: a row whose order expired may be closed "outside the agent" a second
time (`loop.py` 152), but a *sale* never is.

### Schedule

- `LinesAt`: the two crontab lines, by the minute of the hour. `CronStarts`,
  `CronSkips`: `run_pass.sh` 68-79. `HoldsTheLock`: the lock lives on a descriptor
  that Python inherits, so it is held while either process is alive. `Dies`,
  `Killed`, `Reboot` take away Python, the wrapper, or everything. `Notice`:
  the wrapper's look at the exit status, which needs the wrapper alive, and what
  comes of it (`Notices`): posted; not posted, as no webhook is in `.env`, which
  `install.sh` 87-89 takes for a set-up too; or lost on the way, since `curl` has
  ten seconds and its failure is not looked at (`|| true`).
- `Built`/`NoModel`: `cmd_trade` builds the model before it looks at the book, and
  only for a full pass; without a key a full pass ends before its exits.
- `Looks`, `Screens`, `Ends`: what the schedule cares about in `run_pass`, which
  `TradingPass` has in full. A clock that cannot be read, or a market that is
  closed, ends a pass early.
- `Tick` is five minutes. A full pass that is in time may think over `Patience`
  of them; anything slower is the mishap `overrun`, since no call of the MCP
  session has a time-out.
- `Cooldown` keeps the age of the latest `closed` of each name and the ages of
  the days with a decision row, which is all that the query of `cooling_off`
  looks at, down to its floor `Reach` (ten times the cooldown in calendar days, and at least 30).

### EntryOrder

- `Levels`: `correct_entry_premium` then `raise_peak` at the top of each pass,
  the booking of a sale and the clearing of a stale row; in one step, since what
  can come between is in `TradingPass`.
- `OverlapReadsBook` to `OverlapRaises`: the same two updates by a pass that was
  started by hand and holds no lock, one step per read and write, with whole
  passes, fills and other such passes in between. Each compares in Python what
  it read before and writes with SQL that looks at the row as it is by then
  (`CorrectedRow`, `RaisedRow`). The rest of such a pass is not repeated here:
  it would act as the schedule's passes do. The property and the theorem are for
  any number of them.
- `ReadRestingEntries` to `CancelFails`: the loop body of
  `_refresh_resting_entries`: partly filled, too old, halted, no better quote,
  past the chase. `RepriceCancels`, `Resubmitted`, `ResubmitFails`:
  `reprice_buy_limit`, a cancel and a submit with the listing of before.
- `BuyToOpen`/`OpenHolding`: the walk, in two steps. `Crash` also stands for
  every error that nobody catches.
- `Tick` is the interval between full passes: `ran` keeps time from going on
  before a full pass has run, so an age in ticks is a number of passes.
- `Fills` may come at any moment, in parts, at the limit or below.

### EntryWalk

- `ReadAccount`: the `GateContext`. Account, positions and orders come from one
  look.
- `GatherAndReason`: one reply per eligible name, any of `Replies` from either kind
  of backend, and what `ModelAnswers` makes of it; or no brief at all.
- A reply is what one call brings back: nothing, or what was written before and
  after the thinking ended, if it ended. `Visible` cuts the thinking off,
  `HoldsAnObject` finds the JSON, `ValidProposal` and `UsableVerdict` are the two
  ways of validating, `StatedConfidence` and `NormaliseQuality` the clamps. Text
  is abstracted to the objects in it and numbers to whole per cent, plus the four
  things that are no such number: NaN, infinity, words, absent.
- `OrderTheSlate`: every candidate authorised alone, then `select`, whose answer
  is any of `Answers`. No backend and a failed backend are the empty answer,
  which orders alike.
- `RefusedOnTheWalk`, `BuyAccepted`, `BuyRefused`: screen again, authorise again,
  send, and go on with `WithNewPosition`.
- Kill switch, clock and cooldown are in `TradingPass` and always let pass here.
- Deltas and the middle of their band are whole hundredths, so rounding to two
  digits changes nothing; richness and decay are given with the contract
  (`pricing.py` computes them over reals), or unmeasured.

### ExitWatch

- `Opened`: a contract that `RightContract` let through, bought at its limit or
  below, with levels measured from the last daily close, which need not be where
  the underlying stands. `NotOurs`: a position without a row, any contract.
- `Look`: one turn of the exit loop: the position, the price of the underlying and,
  if there is something to sell, the quote, each as `MarketReads` makes it of an
  answer with any of its fields missing; then `raise_peak`, `check_exit`, `_close`.
  A failed call is an answer with no fields. A one-sided quote of the underlying
  is read as that side, so the pass sees a price that is `Half` a spread off.
- `MarketMoves`: mark, underlying and days to expiry move at will between looks;
  nothing ties the mark to the underlying, as on the feed the code complains of.
- Levels are in hundredths of a cent, so the percentages are exact.
- Whether a request fails is in `TradingPass`; here what is sent arrives.

Some definitions are followed by, or follow, a variant called faulty in its
comment (`AllSales`, `SlotsHeld`...). No specification uses them: they are the
plausible mistakes each property is tried against, listed in `PROJECT.json`.

### Abstractions of TradingPass

- Quantities are none, some, all: a contract has at most one buy order, one sell
  order and one position. Two orders of one side on one contract merge.
- Prices are gone: every decision that depends on one is a choice. Prices and
  quantities are in the other three machines.
- A cooldown is the counter `cooling`, which `cooling_off` recomputes from the
  tables each time; `DateChanges` is where a day becomes a completed session.
- The market is open on `trading_day` whenever the broker moves; a pass may find
  it closed on any day. `--ignore-clock`, a flag for trying things out, is left
  out, as are SQLite errors, which end the process as `Crash` does.
- `Init` is a fresh journal with positions (`Legacy`) from before the agent.
- `mishaps` counts what went wrong and `MaxMishaps` bounds it. Fills, refusals of
  what cannot be sold, and cancels of what is already gone are not mishaps.

## Runs

`WalkInv` and every `IInv` contain the `TypeOK` of their module. Names are model
values; there is no symmetry reduction, since underlyings,
groups and the order of the watchlist tell them apart. On `MCTradingPass`:

| Run | Account | Broker moves | Mishaps | Shows |
| --- | --- | --- | --- | --- |
| `PassLimits` | 4 contracts on 3 names, 2 slots, exits at market | outside the look | one: reads, clock, refusals, cancels, partial fills, closes by hand, crashes | `SlotsRespected`, `OnePerUnderlying` |
| `PassLevels` | 3 contracts on 2 names, 2 slots; dry and live passes | outside the look | two: clock, refusals, cancels, closes by hand, holidays | `TypeOK`, `HolidaysDoNotCount`, `LevelsExist`, `NothingOpensWhenForbidden`, `NoBuyBeforeDepartureIsBooked`, `StillInv` |
| `PassLive` | 1 legacy contract, in the money or not, with every quote, 2 sessions of cooldown, exits always due | anywhere | two of all but holidays | `IInv`, `BookedSalesHaveLeft`, `TradesAreAccountedFor`, `SalesGetBooked`, `StaleRowsGo`, `DueExitsGetOut`, `CooldownsEnd` |

*Outside the look* (`OutsideTheLook`) means: not between the pass's look at the
book and its look at the open orders. The code takes the two for one picture of the account; they are
not, and what that costs is shown by the violations below.

| Run | Instance | Shows |
| --- | --- | --- |
| `OrderLife` (`EntryOrder`) | up to 3 contracts, prices up to 4, a chase of 100 per cent, given up after 2 ticks; one mishap: reads, refusals, lost answers, cancels, crashes, a filled part sold, an overlapping pass | `IInv`, `SizeStaysApproved`, `ChaseIsATotal`, `LifeIsBought`, `PeakIsReal`, `SlotsComeFree` |
| `WalkBook` (`MCEntryWalk`) | two names of one group and one of none, 2 slots, 1 per group, 1 per direction, cash for three or so contracts; calls, puts, a contract no gate can price, a confidence beyond 100, one in words, a reply that was cut off | `WalkInv`, `OrdersArePaidFor`, `GroupsRespected`, `CallsAreCapped`, `NobodyIsForgotten`, `WeakestMissOut`, `TurnedAwayForGood`, `OnlyStatedViewsTrade` |
| `ExitLife` (`MCExitWatch`) | a call and a put with time left, and two inside the close-out window, on two strikes; marks and spots on and next to every level; every field of an answer there or missing | `IInv`, `WhatIsKeptHasNotFallen`, `NeverSoldBelowExercise`, `NewPositionsAreKept`, `WorsePricesSellToo` |
| `Schedule` | half an hour with two full lines and four exits-only ones, on any number of days, two wrappers, one name; two of: a death, a kill, a reboot, an overrun; every outcome of a notice | `IInv`, `OnePassAtATime`, `StopsAreWatched`, `UnwatchedIsAnnounced`, `FullPassesGoOn`, `CountsSessions` |

What they say, in a sentence each:

- `SlotsRespected`, `OnePerUnderlying`: positions and orders together keep the
  slots and one position per name; `LevelsExist`: what is owned or ordered has
  the levels its stop needs; `NoBuyBeforeDepartureIsBooked`: a name is not bought
  back before its departure has armed the cooldown; `HolidaysDoNotCount`: no
  session is counted on a day without one; `NothingOpensWhenForbidden`: no buy
  leaves a halted or an exits-only pass; `BookedSalesHaveLeft`,
  `TradesAreAccountedFor`: no sale is booked early, twice, or as somebody else's;
  `SalesGetBooked`, `StaleRowsGo`, `CooldownsEnd`: all of it happens in the end;
  `DueExitsGetOut`: so does an exit that stays due, for as long as its quotes
  recover.
- `SizeStaysApproved`: owned and resting together never exceed the size the gates
  approved; `ChaseIsATotal`: nor does the price exceed the approved one by more
  than the chase, over all re-prices; `LifeIsBought`: an order outlives the age
  limit only by what it was re-priced; `PeakIsReal`: the high-water mark is
  neither a phantom nor walked back, not even by a pass that read the row before
  another wrote it; `SlotsComeFree`: an unfilled order goes.
- `OrdersArePaidFor`: whatever one walk sends, the account can pay; `GroupsRespected`,
  `CallsAreCapped`: what is held and ordered keeps the shares, if no pass starts
  with an order of an earlier one still resting; `NobodyIsForgotten`: selection
  drops, repeats and invents nothing; `WeakestMissOut`: ordered by conviction,
  the walk reaches the weak after the strong; `TurnedAwayForGood`: whom the gates
  turned away before the walk they would turn away to its end, so asking them once,
  each as if it were the only trade, loses nobody; `OnlyStatedViewsTrade`: what is
  bought is the direction and at most the confidence some model stated.
- `WhatIsKeptHasNotFallen`: a position that a pass keeps has lost neither its
  budget nor its trail from the best mark any pass has seen; `NeverSoldBelowExercise`:
  no market order against a bid below intrinsic value and no limit more than two
  cents below it; `NewPositionsAreKept`: what the gates let in, the exit rules do
  not put out before anything has moved, whichever mark or side of a quote is
  missing; `WorsePricesSellToo`: no exit rule hides a stop at a lower mark.
- `OnePassAtATime`: the lock, whoever dies first; `StopsAreWatched`: an open market
  is looked at again one slot after the patience of a full pass is used up,
  model or no model; `UnwatchedIsAnnounced`: beyond that, a wrapper has seen a pass
  fail and has told, but for three silent ways: its notice does not get out, it is
  dead itself, or the pass goes on and on;
  `FullPassesGoOn`: the cheap passes do not starve the full ones;
  `CountsSessions`: the query over dated rows is the count-down of `Journal`.

The violations:

| Run | Expected violation |
| --- | --- |
| `ReentryDoc` | `NoBuyBeforeDepartureIsBooked`: the exit fills while the pass runs, the second look no longer shows the position, and the `closed` event that arms the cooldown is only written by the next pass. `gates.py` 237-239 promises the opposite |
| `ReconcileDoc` | `LevelsExist`: a buy fills between the look at the book and the look at the orders, is taken for a position that left, and loses its row (`loop.py` 125-127) |
| `SizeDoc` | `SizeStaysApproved`, with a part that fills between the listing and the cancel: the whole quantity is sent again (`loop.py` 990-992) |
| `LeanDoc` | `LeanIsCapped`: `_with_new_position` drops the right, so a put ordered on a walk is counted as a call and the next put passes (`gates.py` 421) |
| `NaNDoc` | `OnlyStatedViewsTrade`, with a model that says NaN: `json.loads` and `float` both read it, and the clamp makes it the highest confidence there is (`models.py` 327), although every failure is to mean no trade (`proposer.py` 18-19) |

Why the bounds are enough. Two slots let one pass send two orders and one wait
for the other; slots can then be exceeded only with a third name, and one
position per name only with a second contract on it. Every conflict of snapshots
is between two passes and one contract. One mishap reaches each failure branch;
two are needed for a holiday whose clock cannot be read, and to have one failure
hide another. A cooldown of two sessions tells the closing day from the days
after it. With `MaxPositions` 1 or three contracts `PassLimits` was also run with
two mishaps and showed nothing new.

A chase of 100 per cent over prices up to 4 leaves room for two re-prices from 2 and
for one that the sum of the chases forbids, with a part fill on either side of
each; three contracts fill in up to three parts, and ages up to 7 hold the life
of two chases. One overlapping pass, started at any point of a trade, meets every
write of another pass between its own reads and writes. In `WalkBook` two slots,
three names and an offer dearer than the other make every gate of `BookRules`
refuse someone on the walk who was approved alone, and cash for about three contracts makes `BuyingPower` shrink as well as
deny. The marks and spots of `ExitLife` lie on every threshold and one step off
it; `DteMin` is set below the close-out window there, since with the
configured 30 the window would never be what decides. Two closes are enough to
measure levels from, the one where the underlying stands and one where it does
not.

In `Schedule` half an hour holds every neighbourhood of lines: a full one after
an exits-only one, two exits-only ones in a row, and the end of a day. Two jobs
are enough for one that holds the lock and one that finds it held; two mishaps
let a kill and a death, or an overrun and a reboot, meet. `Patience` 3 is what
crontab.example 40-50 counts on: a full pass has until the next one. A cooldown
of 2 within a reach of 3 lets days pass the floor of the query.

What the passing runs leave out, because the code does not survive it (each is a
hazard in `PROJECT.json`): an answer lost after the broker took the order breaks
slots and levels; a death between order and row, or the remainder of a partly
filled entry whose filled part was sold, breaks levels; a reconciliation that
fails to read, after a close by hand, lets the name be bought back. In
`EntryOrder`, a part that fills during a re-price breaks the size, and a row that
was never written makes the chase an allowance per re-price. In `EntryWalk`, an
order that rests from one pass to the next is counted by no sector or direction
cap: both properties are stated for `~rested`; and neither a reply that says NaN
(`NaNDoc`) nor one that is cut off behind a draft is among the replies of `WalkBook`:
tokens that run out while the model thinks leave no closing tag, so the draft is
taken for its answer (`models.py` 377), and TLC finds `OnlyStatedViewsTrade` violated.

Things the code does that no property is about: an order that expired is booked
as `closed` if the contract was ever bought before (`loop.py` 152; `TradeBook`
allows it); a dry pass carries out its cancels and writes rows that look real
(`executor.py` 303; `PassLevels` has such passes); a position whose mark is missing
stands at its entry price, so no premium stop can see it fall
(`market.py` 191; `WhatIsKeptHasNotFallen` speaks of the mark the pass read); the exit
of a contract in the money that nobody quotes is a limit at its exercise value,
although a comment has it "take what the market gives rather than sit on an
unfillable order" (`loop.py` 779-780, which `_protective_floor` at 761 forestalls;
`ExitRules` and `TradingPass` have the order of the code);
entries are re-priced before it is known whether the session is confirmed
(`loop.py` 467; `TradingPass` has that order); the close-out before expiry speaks
before the premium floor that `exits.py` 97 says is checked first (`ExitRules` has the
order of the code).

### Fairness

`FairSpec` of `TradingPass` assumes: full passes go on being started and a running
pass goes on (cron; broker requests have a time-out, and a call of the MCP session,
which has none, is taken to return or to end with its process, a `Crash`); some full passes find the market open,
and `PassesPerDay` passes of either kind do on each trading day (the schedule
has dozens; the cron comment about the two minute lists is what keeps full
passes from always losing the lock); days go by; a *market* order fills sooner
or later. Nothing is assumed of limits: that a patient limit may rest for ever is
why an unfilled exit must be escalated, which is what `DueExitsGetOut` is about.
It is checked with every quote, in the money and out of it. In the money, a bid that
stays below exercise value, or a quote that stays away, makes the code repeat a
limit at the floor on every pass, and it promises no exit. So the property has a
premise, `QuotesRecover`: if passes that find an exit resting can again and again
find no floor under it, some of them do. That is asked of the market, and out of
the money it costs nothing; that one pass without a floor is enough, since it
escalates and does not wait again, is the code's. Without the premise TLC finds a
position held for ever by a missing quote.

`FairSpec` of `EntryOrder` assumes that full passes go on being started
(`Levels(FALSE)`), that a running one goes on (`PassStep`), and that time goes by.
It assumes nothing of the market: no order need fill or expire. `EntryWalk` and
`ExitWatch` state safety only.

`FairSpec` of `Schedule` assumes that time and cron go on (`Tick`, `CronStep`, weak),
that a process which runs goes on (`JobStep`, weak), that there are days on which
the market opens, and that the key of the model is there again and again on such
days (`NewDay(TRUE)`, `BuiltInSession`, strong: a missing key or a holiday may
come any number of times, not always). Nothing keeps exits-only passes from
taking the lock; that they cannot starve the full ones is `FullPassesGoOn`, and
holds because no line of theirs is due on the minute of a full one.

## Proofs

### TradingPass

`TradingPassProofs` proves, for every account, watchlist, slot and cooldown
bound, window of broker moves and number of mishaps:

- `TypeCorrect`: `Spec => []TypeOK`
- `HolidaysNeverCount`: `Spec => []HolidaysDoNotCount`
- `ForbiddenPassesOpenNothing`: `Spec => NothingOpensWhenForbidden`
- `SalesAreBookedOnceTheyLeft`: `Spec => BookedSalesHaveLeft`
- `PassesKeepTheTradeBook`: `Spec => TradesAreAccountedFor`, that is `Trades!Spec`
- `Invariance`: `Spec => []IInv`

from `UnderlyingAssumption`, `CooldownAssumption` and `PassAssumption`, which only
give the constants their types.

No property is inductive. `IInv` (in `TradingPass`, checked by `PassLive`) adds:

- `SessionInv`: who knows the clock is inside a pass on a trading day, and only
  places past the clock question write decisions. A date cannot change inside a
  pass, so no decision is ever dated on a holiday.
- `ForbiddenInv`: where an exits-only and a halted pass never are; the four actions
  that send a buy are at `resubmit` and `buy`.
- `SalesInv`: what is sold and unbooked is still held or has departed, so a sale
  cannot be gone and forgotten; the snapshot of the book shows only what is held
  or has departed since; hence what is sold, unbooked and *not* in the snapshot
  has departed, which is what booking relies on. The remaining conjuncts keep
  the loops of the pass inside that snapshot, and the rows being reconciled
  outside it: booking a departure from a row must not take away the departure
  of a position the exit loop is about to sell.

`TypeStep`, `SessionStep`, `ForbiddenStep` and `SalesStep` go through the actions
of `Next`; the last two also carry the two action properties. For the refinement
`TradeStep` does the same against the steps of `TradeBook`: `SalesInv` says that a
sale being booked is of what has left, and that a row being cleared is of nothing
sold; every other step of the pass leaves the four sets alone.

### TradingPass while the broker keeps still

Four properties of `TradingPass` are lost when the account moves between the look
at the book and the look at the orders, as `ReentryDoc` and `ReconcileDoc` show.
`StillLookProofs` proves them for every account, limit and number of mishaps under
what is named in `TradingPass`, each condition adding to the one before:

- `OrdersAreKnown`: the broker keeps still during the look, no answer of the broker
  is lost, and what was there before the agent fits the limits. Then
  `SlotsAreRespected`: `Spec => []SlotsRespected`, and `OneEachUnderlying`:
  `Spec => []OnePerUnderlying`.
- `OrdersAreRecorded`: no pass dies, nothing fills in part, nothing was there
  before. Then `LevelsAreThere`: `Spec => []LevelsExist`.
- `DeparturesAreFound`: not both failing reads and closes by hand. Then
  `NoEarlyReentry`: `Spec => NoBuyBeforeDepartureIsBooked`.

They are the conditions of `PassLimits` and `PassLevels`, without the bounds of
these. None can be dropped: with any one mishap of `OrdersAreRecorded` allowed, or a
position from before, TLC finds a violation of `LevelsExist`, and of
`NoBuyBeforeDepartureIsBooked` once closes by hand come with it.
`StillInv` says of each condition what it makes inductive, on top of `IInv`:

- `FitInv`: what is held and ordered (and what a re-price has taken off to send
  again) fits the limits, *and* the context of the walk leaves none of it out, but
  for the order that was just sent. The second half is the argument: the walk
  counts the snapshot's positions, the pending names and its own orders, and an
  order that fills stays in one of them.
- `RowsInv`: a row is only taken away from what is neither held nor ordered, for
  which what has been sold must not be ordered again before it is booked.
- `DepartureInv`: what has left has a row or a `sold` event and is in the fill
  history, and a pass past its bookkeeping has booked all of it, so what departs
  later is among the names its context still counts as taken.

`FitPlaces` and `FitDecisions` take the steps of a pass up to the screen and after
it; `ExposureIsCounted` turns the context's sum of three cardinalities into the
one of what is exposed.

### Schedule

For any number of jobs, any part of the hour, any patience and any number of
mishaps, from `ScheduleAssumption` and `CooldownAssumption`:

- `BookStaysInSight`: `Spec => []IInv`
- `PassesAreApart`: `Spec => []OnePassAtATime`
- `StopsAreNeverUnwatched`: `Spec => []StopsAreWatched`
- `SilenceHasACause`: `Spec => []UnwatchedIsAnnounced`, from `NoticesAssumption` too:
  something comes of every notice
- `PostedNoticesTell`: `Spec => []UnwatchedIsTold`, under `AllNoticesGetOut`: there is a
  webhook and it takes every notice. Then the first silent way is gone
- `QueryCountsSessions`: `Spec => CountsSessions`

`LockInv`: at most one job has a living process, since only a free lock lets one
start, and a wrapper never outlives its Python by itself. `LinesInv`: what is due
belongs to the minute. `OrphanInv`: a Python process without a wrapper that has
not looked yet is the work of a kill. `SightInv` is the argument about the gap. It
is stated while nothing has happened since the last look that stops passes from
looking (`Undisturbed`): then whoever runs and is past its look has been running
for at least as long as the gap, and for less than `Patience`; when a line is due
and nobody runs it is started and looks before the next minute, except for a
full pass without a model; and the line after a full one is an exits-only one,
which needs none. That bounds the gap by `Patience` and one slot.
`UnwatchedIsAnnounced` follows, as a death disturbs only if a live wrapper saw it: one
that nobody saw is of a pass that had looked already, or comes after a kill, which
disturbs by itself.

`QueryCountsSessions` compares the query with the counter: a day that gets older
adds one to the count exactly if it has a row and is younger than the close, for
which the count of a set of ages is needed (`FiniteSetTheorems`). Without the case
`OutOfReach` it does not hold: a close that passes the floor of the query is
forgotten, whether or not its sessions are over.

### EntryOrder

For all sizes, prices, ages, chases and numbers of mishaps, from
`EntryAssumption`, which types the constants:

- `TypeCorrect`: `Spec => []TypeOK`
- `LifeHasAPrice`: `Spec => []LifeIsBought`
- `ApprovedSizeStays`, `ChaseStaysATotal`, `PeaksAreReal`: `Spec => []SizeStaysApproved`,
  `[]ChaseIsATotal` and `[]PeakIsReal`, each under `NoSurprises`: no part fills
  between a pass's look at an order and its cancel, and no pass dies between an
  order and its row. `SizeDoc` shows why the first is needed.

`IInv` is `TypeOK`, `LifeInv`, and under `NoSurprises` also `UntouchedInv`
(what the pass has seen is the order that rests, so what it sends again is what
it cancelled), `ChaseInv` (the row keeps the approved premium for as long as
nothing has filled, which is what makes the chase a total), `OverlapInv` (a pass
that overlaps has seen something filled, so no order is chased meanwhile, and what
it has read to have been paid is within the chase) and `PeakInv` (where peak and
premium stand in each phase of a row). The steps go through the actions once per
part. For overlapping passes the core is `UpdatesKeepThePeakReal`: each of the two
`UPDATE`s keeps a real peak real on *any* row, so it does not matter what was
read before. Compared in Python alone, it would matter: that is the mutant of
`PeakIsReal`.

### EntryWalk

`EntryWalkProofs` proves for every watchlist, chain, reply, answer of the selector,
limit and amount of cash, from `ContractAssumption`, `BookAssumption` and
`WalkAssumption` (names from the watchlist, contracts with prices in whole cents
and finitely many of them per name, answers that are lists):

- `WalkTypeCorrect`: `Spec => []TypeOK`
- `BookIsPaidFor`: `Spec => []OrdersArePaidFor`
- `GroupsKeepTheirShare`, `CallsKeepTheirCap`: `Spec => []GroupsRespected`,
  `Spec => []CallsAreCapped`
- `WeakestGoWithout`: `Spec => []WeakestMissOut`
- `TurnedAwayStay`: `Spec => []TurnedAwayForGood`, inductive beside `WalkInv`
- `EveryNameIsWalkedOnce`: `Spec => []NobodyIsForgotten`, under `ListedOnce`: no
  symbol is twice in the watchlist. Nothing removes a duplicate from
  `settings.symbols`, and one listed twice is walked twice; the other theorems do
  not mind.
- `TradesAreStatedViews`: `Spec => []OnlyStatedViewsTrade`, under `RepliesAreWhole`:
  no reply says NaN, and none is cut off behind a draft. `NaNDoc` shows what the
  first is for, the hazard at `models.py` 377 the second.

`WalkInv` is inductive. Beside the type it has five parts:

- `NamesInv`: of what is held and ordered there is one trade per name, and the
  context of a running pass has every such name. So the caps may be counted in
  names, which a fill or a new mark does not change.
- `CashInv`: what the context still lets a walk spend, its buying power less what
  the positions in it have cost, is at most the cash there is. Each order takes
  the same amount off both; a close or an order that goes gives cash back and
  leaves the context.
- `CapsInv`: the caps, and that the context of a walk has every name and every
  call. Calls are in it as calls, puts ordered on the walk too, which errs on the
  safe side for calls only (`LeanDoc`). An order that rests from an earlier pass
  is a pending name and no position, hence `~rested`.
- `SlateInv`: what is approved is on the slate or walked, and worth sizing.
- `RankInv`: where conviction gives the order, what is left of the slate is sorted,
  and everything walked came before it.

`StepsKeep` goes through the actions. A step of the broker takes trades away or
renames none (`NothingNew`), and `BrokerKeeps` says that this is all the invariant
asks; what is left of each broker action is its cash. The rest are lemmas about
the operators:

- *Sums of money* (`BookRulesProofs`). A sum over a set is a fold, and its value
  would need induction. It is proved to be the cardinality of a set instead, one
  element per dollar of each position (`SumsCountDollars`), and what is needed of
  sums (one position more adds its cost: `CommittedOfOneMore`) then follows from
  what the library proves of cardinalities. Where an induction is unavoidable, it
  is a least counterexample (`LeastNumber`, `SmallestSubset`). `AuthorisedIsPaidFor`:
  what the chain of gates lets through, and what is committed, fit the buying
  power. `FullerBooksBuyLess`: with the same equity and buying power, and more
  positions that have cost no less, the chain lets through no more of any draft;
  an accepted order leaves such a context (`OneOrderMore`, `BuyingFillsTheBook`),
  which is the step of `TurnedAwayForGood`.
- *Order of the slate* (`SelectionProofs`). `SortedIsAnOrder`: a finite set has a
  sequence as its strict order has it, each element placed by the number of those
  before it. `SelectionKeepsTheSlate`: for any slate and any answer, selection
  gives a sequence of the same names, each once if it was listed once;
  `ConvictionDecides`: with no answer, or with no more names than slots, it is
  sorted by conviction.
- *Choice and views*. `PickIsUsable`: among finitely many usable contracts there
  is one than which none is better, so `pick_contract` gives one; tightness of
  quotes is a comparison of ratios, which is transitive since a usable contract
  has a bid (`TighterThanTighter`). `ViewsAreStated`: what a reply that is whole
  is taken for is what the model stated.

### ExitWatch

For every chain, quote, level and setting, from `ContractAssumption`,
`ExitAssumption` and `WatchAssumption`:

- `TypeCorrect`: `Spec => []TypeOK`
- `KeptHasNotFallen`: `Spec => []WhatIsKeptHasNotFallen`
- `NeverBelowExercise`: `Spec => []NeverSoldBelowExercise`, under `BidIsTheWorst`:
  quotes as they are read have the bid below the ask, or the exit limit is the
  bid, as it is by default. Without it a quote with no ask, which reads as an ask
  of 0, is answered with a limit below its bid.
- `WorsePricesSell`: `Spec => []WorsePricesSellToo`
- `NewOnesAreKept`: `Spec => []NewPositionsAreKept`, under `SettingsLeaveRoom`: the
  widest quote that `MaxSpread` lets in is narrower than the way to each level of
  the premium, and half the spread of the underlying less than the way to its
  stop and to its target. Nothing in the code compares these settings with each
  other (`settings.py` 322-338); those of the run satisfy it, which TLC evaluates
  (`SettingsFit`), and so do the defaults as far as the premium is concerned.

`IInv` adds to the type that a look's verdict is that of the rules on what is
still there (`LookInv`), that the peak of a row is no lower than any mark a pass
has seen (`PeakInv`), that nothing is left over from an earlier position
(`FlatInv`), and that until the market moves a position is what a contract that
passed the gates was bought as, with its cost, mark and peak inside that
contract's quote (`FreshInv`). `InsideTheQuote` is then the arithmetic: two prices
inside a quote are no further apart than the quote is wide. `QuotesAreNumbers`,
`PriceIsANumber` and `ReadIsAPosition` say that whatever is missing, what a look
works with is a number. Around it stand lemmas about the list of rules: the one
that speaks is the first that is due, what is kept is due by none, and an urgent
one speaks exactly if one is due and the close-out is not.

### Only model-checked

Liveness, which is out of the prover's reach with `ENABLED`: `SalesGetBooked`,
`StaleRowsGo`, `DueExitsGetOut`, `CooldownsEnd`, `SlotsComeFree`, `FullPassesGoOn`.
Every invariant and every action property of the passing runs has a theorem, each
under the hypotheses named above. A violation is what a run finds, and has none.

## Not modelled

- The MCP session, OCC symbols, chains, bars, headlines (`market.py`): in
  `TradingPass` a read succeeds or fails, in `ExitWatch` a field is there or not,
  in `EntryWalk` a brief has contracts. Rows of the account that are no long
  options are dropped by the reader and are in no model; nor is an answer that
  should be a list of positions and is an object without one, which reads as an
  empty account.
- Option formulas over reals (`pricing.py`): richness and decay come with a
  contract. Prompts and the wording of answers: what a prompt asks for binds
  nobody.
- The rest of a pass started by hand beside the schedule: two passes that screen
  and buy at once would each see the account without the other's orders.
  `EntryOrder` has only their levels, `OnePassAtATime` only the passes of cron.
- Notifications but for the one of the wrapper, reports, evaluation: output that
  nothing reads back. Profiles and installation: run once, by hand.
- Settings: every one the models use is a constant with the bounds its validation
  gives it; loading and merging the files is left out.
- The limit of 500 closed orders on the fill history (`executor.py` 369): the
  history of the model has none.

## Plan

Done: the pass with its journal and broker and the abstract book it keeps; the
schedule and the cooldown's tables; the entry order and passes that overlap on
its row; answers of models, gates, selection and the walk; the exit rules, the
reads they rest on and the watch; the proofs above. Left, in this order:

1. The four properties under `OrdersAreKnown` and its sequels with the broker
   moving during the look, but only in directions that do no harm (exits that
   fill between the reads of the reconciliation).
2. `GroupsRespected` and `CallsAreCapped` with resting orders: how far beyond the
   caps they may go, as a bound that holds without `~rested`.
3. Two whole passes at once in `TradingPass`, for double orders.
