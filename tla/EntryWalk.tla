------------------------------ MODULE EntryWalk ------------------------------
(***************************************************************************)
(* One pass after another fills the book: the candidates that pass the     *)
(* screen, the offers made for them, the slate, and the walk that orders   *)
(* one after the other while the context it judges by is kept up to date   *)
(* (src/src/agent/loop.py 488-674 and 1069-1086, src/src/agent/entry.py    *)
(* 112-152).                                                               *)
(*                                                                         *)
(* TradingPass has the same walk with the rules left open and the failures *)
(* spelled out.  Here the rules are those of ContractRules, BookRules and  *)
(* Selection, the views are what ModelAnswers makes of what the models     *)
(* reply, a pass reads positions and orders in one look, and a request is  *)
(* accepted or refused.                                                    *)
(*                                                                         *)
(*   idle -> offers -> slate -> walk -> idle                               *)
(***************************************************************************)
EXTENDS ContractRules, BookRules, Selection, ModelAnswers

CONSTANTS
  Watchlist,  \* settings.symbols as the sequence it is
  Replies,    \* what a model may reply about a name, and the contracts of its
              \* chain: records [reply, contracts]
  NoOffer,    \* a name of which there is no brief, so nobody is asked
  Answers,    \* what the selector may answer
  Prices,     \* the prices a position may be marked and closed at
  StartCash,
  MaxEquity   \* bound: marks do not rise beyond it

ASSUME WalkAssumption ==
  /\ Watchlist \in Seq(Symbols) /\ Symbols = ToSet(Watchlist)
  /\ \A r \in Replies : /\ r.reply \in Reply
                       /\ r.contracts \subseteq Contract /\ IsFiniteSet(r.contracts)
  /\ \A answer \in Answers : answer \in Seq(ToSet(answer))
  /\ Prices \subseteq Nat /\ StartCash \in Nat /\ MaxEquity \in Nat

VARIABLES
  book,      \* the open positions
  orders,    \* the resting buy orders
  cash,      \* what the broker still lets the account buy with
  pc,        \* where the running pass is
  ctx,       \* its GateContext
  offers,    \* what was put up for each candidate
  slate,     \* the names still to be walked
  walked,    \* history: the names that have been walked
  approved,  \* history: the names authorised each as if it were the only one
  ranked,    \* history: conviction gave the order
  rested     \* history: some pass has found an order of an earlier one resting

brokerVars == <<book, orders, cash>>
passVars == <<pc, ctx, offers, slate, walked, approved, ranked, rested>>
vars == <<brokerVars, passVars>>

Cost(o) == o.quantity * o.limit

Equity ==
  cash + MapThenSumSet(Cost, orders)
       + MapThenSumSet(LAMBDA p : p.quantity * p.price, book)

NoContext == [equity |-> 0, buying_power |-> 0, positions |-> {}, pending |-> {}]

Names(entries) == {e.underlying : e \in entries}

\* What is put up for a name: the view its reply is taken for, and the chain.
Offered(provider, r) ==
  LET view == Propose(provider, r.reply)
  IN [right |-> view.right, confidence |-> view.confidence, quality |-> view.quality,
      reply |-> r.reply, contracts |-> r.contracts]

Offers == {Offered(provider, r) : provider \in Providers, r \in Replies}

PositionType ==
  [underlying : Symbols, right : Rights, quantity : 1 .. MaxContracts, price : Nat]
OrderType ==
  [underlying : Symbols, right : Rights, quantity : 1 .. MaxContracts, limit : Nat]

TypeOK ==
  /\ book \subseteq PositionType
  /\ orders \subseteq OrderType
  /\ cash \in Int
  /\ pc \in {"idle", "offers", "slate", "walk"}
  /\ ctx \in [equity : Nat, buying_power : Int,
             positions : SUBSET PositionType, pending : SUBSET Symbols]
  /\ DOMAIN offers \subseteq Symbols
  /\ \A s \in DOMAIN offers : offers[s] \in Offers \cup {NoOffer}
  /\ ToSet(slate) \subseteq Symbols
  /\ walked \subseteq Symbols /\ approved \subseteq Symbols
  /\ ranked \in BOOLEAN /\ rested \in BOOLEAN

Init ==
  /\ book = {} /\ orders = {} /\ cash = StartCash
  /\ pc = "idle" /\ ctx = NoContext /\ offers = <<>> /\ slate = <<>>
  /\ walked = {} /\ approved = {} /\ ranked = TRUE /\ rested = FALSE

-----------------------------------------------------------------------------
(***************************************************************************)
(* The pass.                                                               *)
(***************************************************************************)
ReadAccount ==
  /\ pc = "idle"
  /\ ctx' = [equity |-> Equity, buying_power |-> cash,
             positions |-> book, pending |-> Names(orders)]
  /\ rested' = (rested \/ orders # {})
  /\ pc' = "offers"
  /\ UNCHANGED <<brokerVars, offers, slate, walked, approved, ranked>>

Candidates == {s \in Symbols : Screen(s, ctx)}

\* Appetite, not affordability: the gates cut it down.
DraftFor(s) ==
  [underlying |-> s, right |-> offers[s].right, quantity |-> MaxContracts,
   limit |-> LimitPrice(PickContract(offers[s]))]

\* The quantity `decide_entry` lets through.
DecideEntry(s) ==
  IF offers[s] # NoOffer /\ WorthSizing(offers[s]) THEN Authorise(DraftFor(s), ctx) ELSE 0

\* MODEL_PROVIDER may be another one on every pass.
GatherAndReason ==
  /\ pc = "offers"
  /\ \E provider \in Providers :
       offers' \in [Candidates -> {Offered(provider, r) : r \in Replies} \cup {NoOffer}]
  /\ pc' = "slate"
  /\ UNCHANGED <<brokerVars, ctx, slate, walked, approved, ranked, rested>>

FreeSlots ==
  Max({0, MaxPositions - (Cardinality(ctx.positions) + Cardinality(ctx.pending))})

\* Each candidate alone, and then all of them in an order.
OrderTheSlate(answer) ==
  LET eligible == {s \in DOMAIN offers : DecideEntry(s) > 0}
      all == Kept(Watchlist, {i \in DOMAIN Watchlist : Watchlist[i] \in eligible})
      conviction == [s \in eligible |-> offers[s].confidence]
  IN /\ pc = "slate"
     /\ approved' = eligible
     /\ slate' = Selected(all, conviction, FreeSlots, answer)
     /\ ranked' = (answer = <<>> \/ ~Competing(all, FreeSlots))
     /\ walked' = {}
     /\ pc' = "walk"
     /\ UNCHANGED <<brokerVars, ctx, offers, rested>>

\* Screened and authorised again, against the context as it now stands.
\* (Faulty variant: only screened.)
StillFitsTheScreen(s) == Screen(s, ctx)

StillFits(s) == Screen(s, ctx) /\ DecideEntry(s) > 0

Walked ==
  /\ slate' = Tail(slate)
  /\ walked' = walked \cup {Head(slate)}
  /\ UNCHANGED <<pc, offers, approved, ranked, rested>>

RefusedOnTheWalk ==
  /\ pc = "walk" /\ slate # <<>>
  /\ ~StillFits(Head(slate))
  /\ Walked
  /\ UNCHANGED <<brokerVars, ctx>>

BuyAccepted ==
  LET s == Head(slate)
      draft == [DraftFor(s) EXCEPT !.quantity = DecideEntry(s)]
  IN /\ pc = "walk" /\ slate # <<>>
     /\ StillFits(s)
     /\ orders' = orders \cup {draft}
     /\ cash' = cash - Cost(draft)
     /\ ctx' = WithNewPosition(ctx, draft)
     /\ Walked
     /\ UNCHANGED book

BuyRefused ==
  /\ pc = "walk" /\ slate # <<>>
  /\ StillFits(Head(slate))
  /\ Walked
  /\ UNCHANGED <<brokerVars, ctx>>

Finish ==
  /\ pc = "walk" /\ slate = <<>>
  /\ pc' = "idle"
  /\ ctx' = NoContext /\ offers' = <<>> /\ walked' = {} /\ approved' = {}
  /\ ranked' = TRUE
  /\ UNCHANGED <<brokerVars, slate, rested>>

-----------------------------------------------------------------------------
(***************************************************************************)
(* The broker.  It holds back what an order may cost until it fills or is  *)
(* gone.                                                                   *)
(***************************************************************************)
Fills(o) ==
  /\ orders' = orders \ {o}
  /\ book' = book \cup {[underlying |-> o.underlying, right |-> o.right,
                         quantity |-> o.quantity, price |-> o.limit]}
  /\ UNCHANGED <<cash, passVars>>

IsGone(o) ==
  /\ orders' = orders \ {o}
  /\ cash' = cash + Cost(o)
  /\ UNCHANGED <<book, passVars>>

Closes(p) ==
  /\ book' = book \ {p}
  /\ cash' = cash + p.quantity * p.price
  /\ UNCHANGED <<orders, passVars>>

MarkMoves(p, price) ==
  /\ book' = (book \ {p}) \cup {[p EXCEPT !.price = price]}
  /\ Equity + p.quantity * (price - p.price) <= MaxEquity
  /\ UNCHANGED <<orders, cash, passVars>>

PassStep ==
  \/ ReadAccount
  \/ GatherAndReason
  \/ \E answer \in Answers : OrderTheSlate(answer)
  \/ RefusedOnTheWalk \/ BuyAccepted \/ BuyRefused
  \/ Finish

BrokerMoves ==
  \/ \E o \in orders : Fills(o) \/ IsGone(o)
  \/ \E p \in book : Closes(p) \/ \E price \in Prices : MarkMoves(p, price)

Next == PassStep \/ BrokerMoves

Spec == Init /\ [][Next]_vars

-----------------------------------------------------------------------------
(***************************************************************************)
(* What must hold of the book.                                             *)
(***************************************************************************)
\* Every order can be paid for, however many one walk sends: each is sized
\* against the cash that those before it have left (gates.py 545-573, loop.py
\* 671-674).
OrdersArePaidFor == cash >= 0

\* A group never holds more than its share, orders included, as long as no pass
\* starts with an order of an earlier one still resting: the gate counts
\* positions and this walk's orders, and nothing else (gates.py 198-232).
GroupsRespected ==
  ~rested =>
    \A s \in Symbols : Group[s] # Ungrouped =>
      Cardinality(InGroupOf(s, book \cup orders)) <= MaxPerGroup

\* The book never leans further up than it may, under the same condition
\* (gates.py 419-445).
CallsAreCapped ==
  ~rested => Cardinality(Pointing("call", book \cup orders)) <= MaxSameDirection

\* Selection drops and invents nothing: what was approved is still to be walked
\* or has been, and is walked once (selector.py 154-179).
NobodyIsForgotten ==
  pc = "walk" =>
    /\ ToSet(slate) \cup walked = approved
    /\ ToSet(slate) \cap walked = {}
    /\ IsInjective(slate)

\* Authorised one by one, candidates are over-approved and never the reverse: who
\* was turned away as the only trade would be turned away at every later moment
\* of the walk, so nobody needs to be asked about again (loop.py 569-585).
TurnedAwayForGood ==
  pc = "walk" => \A s \in DOMAIN offers \ approved : DecideEntry(s) = 0

\* Where conviction gives the order, it is the weakest ideas that miss out when
\* slots or cash run out (loop.py 563-567).
WeakestMissOut ==
  pc = "walk" /\ ranked =>
    \A s \in walked : \A t \in ToSet(slate) : offers[s].confidence >= offers[t].confidence

\* Nothing is approved on a failed analysis, and nothing against the direction
\* the model named: whatever the reply looked like, behind a trade there is one
\* direction, thought through, with a number (models.py 13-20, proposer.py
\* 18-26).
OnlyStatedViewsTrade ==
  pc = "walk" => \A s \in approved : StatesAView(offers[s].reply, offers[s].right)

(***************************************************************************)
(* Why it holds: an invariant that every step keeps by itself.  Names are  *)
(* what is counted, as a position changes its price and an order turns     *)
(* into a position while both keep theirs.                                 *)
(***************************************************************************)
Held == book \cup orders

\* Two conditions that nothing in the code checks: no symbol is listed twice, and
\* a reply that was cut off holds nothing and none says NaN.
ListedOnce == IsInjective(Watchlist)

RepliesAreWhole ==
  \A r \in Replies :
    /\ r.reply.thought = "cut off" => r.reply.drafts = <<>> /\ r.reply.answers = <<>>
    /\ \A i \in DOMAIN r.reply.answers : r.reply.answers[i].confidence # NotANumber

\* One trade on a name, and what a walk has bought is in its context.
NamesInv ==
  /\ \A e, f \in Held : e.underlying = f.underlying => e = f
  /\ pc # "idle" => Names(Held) \subseteq Names(ctx.positions) \cup ctx.pending

\* What the context still allows to be spent is there to be spent.
CashInv ==
  /\ cash \in Nat
  /\ pc # "idle" => ctx.buying_power - Committed(ctx) <= cash

\* With nothing of an earlier pass resting, everything owned or ordered is a
\* position of the context: a call as a call, a put as either.
CapsInv ==
  ~rested =>
    /\ Cardinality(Names(Pointing("call", Held))) <= MaxSameDirection
    /\ \A s \in Symbols : Group[s] # Ungrouped =>
         Cardinality(Names(InGroupOf(s, Held))) <= MaxPerGroup
    /\ pc # "idle" =>
         /\ Names(Held) \subseteq Names(ctx.positions)
         /\ Names(Pointing("call", Held)) \subseteq Names(Pointing("call", ctx.positions))

\* The slate holds names that are worth sizing, and every approved name is on it
\* or has been walked, once if it is listed once.
SlateInv ==
  /\ slate \in Seq(Symbols)
  /\ offers \in [DOMAIN offers -> Offers \cup {NoOffer}]
  /\ pc = "walk" =>
       /\ approved \subseteq DOMAIN offers
       /\ \A s \in approved : offers[s] # NoOffer /\ WorthSizing(offers[s])
       /\ ToSet(slate) \cup walked = approved
       /\ ListedOnce => ToSet(slate) \cap walked = {} /\ IsInjective(slate)

\* Where conviction gives the order, it still does on what is left.
RankInv ==
  pc = "walk" /\ ranked =>
    /\ \A i, j \in DOMAIN slate :
         i < j => offers[slate[i]].confidence >= offers[slate[j]].confidence
    /\ WeakestMissOut

WalkInv ==
  /\ TypeOK
  /\ IsFiniteSet(Held) /\ IsFiniteSet(ctx.positions)
  /\ NamesInv /\ CashInv /\ CapsInv /\ SlateInv /\ RankInv

(***************************************************************************)
(* What the documentation promises and the code does not keep.             *)
(***************************************************************************)
\* "Caps how far the whole book may lean one way" (gates.py 420), either way.
LeanIsCapped ==
  ~rested => \A right \in Rights :
               Cardinality(Pointing(right, book \cup orders)) <= MaxSameDirection

=============================================================================
