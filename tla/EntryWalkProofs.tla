--------------------------- MODULE EntryWalkProofs ---------------------------
(***************************************************************************)
(* EntryWalk for every watchlist, every reply and every answer: the book   *)
(* is paid for, the caps hold, selection forgets nobody.  The invariant is *)
(* WalkInv, which WalkBook checks.                                         *)
(***************************************************************************)
EXTENDS EntryWalk, SelectionProofs, BookRulesProofs

-----------------------------------------------------------------------------
(***************************************************************************)
(* The contract.                                                           *)
(***************************************************************************)
\* In a finite set something comes before which nothing comes.
LEMMA FirstOfAnOrder ==
  ASSUME NEW S, IsFiniteSet(S), S # {}, NEW order,
         \A x \in S : <<x, x>> \notin order,
         \A x, y, z \in S : <<x, y>> \in order /\ <<y, z>> \in order => <<x, z>> \in order
  PROVE  \E x \in S : \A y \in S : <<y, x>> \notin order
<1> DEFINE Before(x) == {y \in S : <<y, x>> \in order}
           Some == {s \in SUBSET S : \E x \in S : s = Before(x)}
<1>1. \A x \in S : Before(x) \in Some
  OBVIOUS
<1>2. PICK x \in S : \A y \in S : Before(y) \subseteq Before(x) => Before(y) = Before(x)
  <2>1. Some \in SUBSET SUBSET S /\ Some # {}
    BY <1>1
  <2>2. \A s \in Some : \E x \in S : s = Before(x)
    OBVIOUS
  <2> HIDE DEF Some, Before
  <2>3. PICK m \in Some : \A s \in Some : s \subseteq m => s = m
    BY <2>1, SmallestSubset
  <2> QED
    BY <1>1, <2>2, <2>3
<1>3. ASSUME NEW y \in S, <<y, x>> \in order
      PROVE  FALSE
  <2>1. Before(y) \subseteq Before(x) /\ y \in Before(x) /\ y \notin Before(y)
    BY <1>3
  <2> QED
    BY <1>2, <2>1
<1> QED
  BY <1>3

\* What is tighter than the tighter is tighter, where there is a bid.
LEMMA TighterThanTighter ==
  ASSUME NEW c \in Contract, NEW d \in Contract, NEW e \in Contract,
         HasBid(c), HasBid(d), HasBid(e), TighterThan(c, d), TighterThan(d, e)
  PROVE  TighterThan(c, e)
<1> DEFINE wc == c.ask - c.bid
           wd == d.ask - d.bid
           we == e.ask - e.bid
           mc == c.ask + c.bid
           md == d.ask + d.bid
           me == e.ask + e.bid
<1>1. /\ wc \in Int /\ wd \in Int /\ we \in Int
      /\ mc \in Nat /\ md \in Nat /\ me \in Nat
      /\ mc > 0 /\ md > 0 /\ me > 0
  BY DEF Contract, HasBid
<1>2. wc * md < wd * mc /\ wd * me < we * md
  BY DEF TighterThan
<1>3. (TighterThan(c, e) <=> wc * me < we * mc)
  BY DEF TighterThan
<1> HIDE DEF wc, wd, we, mc, md, me
<1>4. wc * md * me < wd * mc * me
  BY <1>1, <1>2
<1>5. wd * me * mc < we * md * mc
  BY <1>1, <1>2
<1>6. wd * mc * me = wd * me * mc /\ wc * md * me = wc * me * md /\ we * md * mc = we * mc * md
  BY <1>1
<1>7. wc * me * md < we * mc * md
  BY <1>1, <1>4, <1>5, <1>6
<1>8. wc * me < we * mc
  BY <1>1, <1>7
<1> QED
  BY <1>3, <1>8

\* `pick_contract` answers one of the usable contracts when there are any.
LEMMA PickIsUsable ==
  ASSUME NEW offer, IsFiniteSet(offer.contracts), offer.contracts \subseteq Contract,
         Usable(offer) # {}
  PROVE  PickContract(offer) \in Usable(offer)
<1> DEFINE order == {p \in Usable(offer) \X Usable(offer) : Better(p[1], p[2])}
<1>1. IsFiniteSet(Usable(offer))
  BY FS_Subset DEF Usable
<1>2. \A x \in Usable(offer) : x \in Contract /\ HasBid(x)
  BY DEF Usable
<1>3. \A x \in Usable(offer) : OffTarget(x) \in Int
  BY <1>2, ContractAssumption DEF OffTarget, Distance, Contract
<1>4. \A x \in Usable(offer) : ~ Better(x, x)
  <2>1. \A x \in Usable(offer) : ~ TighterThan(x, x)
    BY <1>2 DEF TighterThan, Contract
  <2> QED
    BY <1>3, <2>1 DEF Better
<1>5. ASSUME NEW x \in Usable(offer), NEW y \in Usable(offer), NEW z \in Usable(offer),
             Better(x, y), Better(y, z)
      PROVE  Better(x, z)
  <2>1. TighterThan(x, y) /\ TighterThan(y, z) => TighterThan(x, z)
    BY <1>2, TighterThanTighter
  <2>2. /\ x.monthly \in BOOLEAN /\ y.monthly \in BOOLEAN /\ z.monthly \in BOOLEAN
    BY <1>2 DEF Contract
  <2> QED
    BY <1>3, <1>5, <2>1, <2>2 DEF Better
<1>6. \E x \in Usable(offer) : \A y \in Usable(offer) : <<y, x>> \notin order
  <2>1. \A x \in Usable(offer) : <<x, x>> \notin order
    BY <1>4
  <2>2. \A x, y, z \in Usable(offer) :
          <<x, y>> \in order /\ <<y, z>> \in order => <<x, z>> \in order
    BY <1>5
  <2> HIDE DEF order
  <2> QED
    BY <1>1, <2>1, <2>2, FirstOfAnOrder
<1>7. \E x \in Usable(offer) : \A y \in Usable(offer) : ~ Better(y, x)
  BY <1>6
<1> QED
  BY <1>7 DEF PickContract

\* A limit is a price, even on a quote whose ask is below its bid.
LEMMA LimitPriceIsAPrice ==
  ASSUME NEW c \in Contract
  PROVE  LimitPrice(c) \in Nat
<1> DEFINE w == c.ask - c.bid
<1>1. c.bid \in Nat /\ w \in Int /\ 0 - c.bid <= w /\ Aggression \in 0 .. 100
  BY ContractAssumption DEF Contract
<1>2. LimitPrice(c) = c.bid + (w * Aggression + 50) \div 100
  BY DEF LimitPrice
<1> HIDE DEF w
<1>3. w * Aggression \in Int /\ 0 - c.bid * 100 <= w * Aggression
  <2>1. CASE w >= 0
    BY <1>1, <2>1
  <2>2. CASE w < 0
    <3>1. w * 100 <= w * Aggression
      BY <1>1, <2>2
    <3> QED
      BY <1>1, <3>1
  <2> QED
    BY <1>1, <2>1, <2>2
<1> DEFINE x == w * Aggression
<1>4. x \in Int /\ 0 - c.bid * 100 <= x
  BY <1>3
<1> HIDE DEF x
<1>5. (x + 50) \div 100 \in Int /\ 0 - c.bid <= (x + 50) \div 100
  BY <1>1, <1>4
<1> QED
  BY <1>1, <1>2, <1>5 DEF x

-----------------------------------------------------------------------------
(***************************************************************************)
(* The offer.                                                              *)
(***************************************************************************)
\* Whatever the model replies, a view is a direction and a confidence in bounds.
LEMMA ViewsAreTyped ==
  ASSUME NEW provider \in Providers, NEW reply \in Reply
  PROVE  /\ Propose(provider, reply).right \in Rights
         /\ Propose(provider, reply).confidence \in 0 .. 100
<1>1. \A x : Clamp(0, 100, x) \in 0 .. 100
  BY DEF Clamp
<1>2. \A answer : StatedConfidence(answer) \in 0 .. 100
  BY <1>1 DEF StatedConfidence
<1> QED
  BY <1>2 DEF Propose, NoView, OptionRight, Rights

\* An offer carries such a view and the contracts of the chain.
LEMMA OffersAreTyped ==
  ASSUME NEW offer \in Offers
  PROVE  /\ offer.right \in Rights /\ offer.confidence \in 0 .. 100
         /\ offer.contracts \subseteq Contract /\ IsFiniteSet(offer.contracts)
<1>1. PICK provider \in Providers, r \in Replies : offer = Offered(provider, r)
  BY DEF Offers
<1>2. /\ r.reply \in Reply
      /\ r.contracts \subseteq Contract /\ IsFiniteSet(r.contracts)
  BY WalkAssumption
<1> DEFINE view == Propose(provider, r.reply)
<1>3. view.right \in Rights /\ view.confidence \in 0 .. 100
  BY <1>2, ViewsAreTyped
<1>4. /\ offer.right = view.right /\ offer.confidence = view.confidence
      /\ offer.contracts = r.contracts
  BY <1>1 DEF Offered
<1> QED
  BY <1>2, <1>3, <1>4

\* A sequence of one element has it.
LEMMA OnlyElement ==
  ASSUME NEW D, NEW seq \in Seq(D), Len(seq) = 1
  PROVE  1 \in DOMAIN seq /\ seq[1] \in D
OBVIOUS

\* A view of any confidence is one that the model stated.
LEMMA ViewsAreStated ==
  ASSUME RepliesAreWhole, NEW offer \in Offers, offer.confidence > 0
  PROVE  StatesAView(offer.reply, offer.right)
<1>1. PICK provider \in Providers, r \in Replies : offer = Offered(provider, r)
  BY DEF Offers
<1> DEFINE reply == r.reply
           view == Propose(provider, reply)
           answer == reply.answers[1]
<1>2. /\ reply \in Reply
      /\ reply.thought = "cut off" => reply.drafts = <<>> /\ reply.answers = <<>>
      /\ \A i \in DOMAIN reply.answers : reply.answers[i].confidence # NotANumber
  BY WalkAssumption DEF RepliesAreWhole
<1>3. offer.right = view.right /\ offer.confidence = view.confidence /\ offer.reply = reply
  BY <1>1 DEF Offered
<1>4. /\ Understood(provider, reply)
      /\ Visible(reply)[1].direction # "none"
      /\ view.right = OptionRight(Visible(reply)[1].direction)
      /\ view.confidence = StatedConfidence(Visible(reply)[1])
  <2> HIDE DEF reply
  <2> QED
    BY <1>3 DEF Propose, NoView
<1> HIDE DEF reply, view
<1>5. /\ reply.came
      /\ ValidProposal(reply) \/ UsableVerdict(reply)
  BY <1>4 DEF Understood
<1>6. reply.thought = "to the end" /\ Len(reply.answers) = 1
  <2>1. CASE reply.thought = "to the end"
    <3>1. Visible(reply) = reply.answers
      BY <2>1 DEF Visible
    <3> QED
      BY <1>5, <2>1, <3>1 DEF ValidProposal, UsableVerdict, HoldsAnObject
  <2>2. CASE reply.thought = "cut off"
    <3>1. Visible(reply) = <<>> \o <<>>
      BY <1>2, <2>2 DEF Visible
    <3>2. Len(Visible(reply)) = 0
      BY <3>1
    <3>3. ~ ValidProposal(reply)
      BY <2>2 DEF ValidProposal
    <3>4. ~ UsableVerdict(reply)
      BY <3>2 DEF UsableVerdict, HoldsAnObject
    <3> QED
      BY <1>5, <3>3, <3>4
  <2> QED
    BY <1>2, <2>1, <2>2 DEF Reply
<1>7. Visible(reply)[1] = answer
  BY <1>6 DEF Visible
<1>8. answer \in Answer /\ answer.confidence # NotANumber
  <2>1. reply.answers \in Seq(Answer)
    BY <1>2 DEF Reply
  <2>2. 1 \in DOMAIN reply.answers /\ answer \in Answer
    BY <1>6, <2>1, OnlyElement
  <2> QED
    BY <1>2, <2>2
<1> HIDE DEF answer
<1>9. answer.direction \in {"up", "down"}
  <2>1. answer.direction # "none" /\ answer.direction # "other"
    BY <1>4, <1>5, <1>6, <1>7 DEF ValidProposal, UsableVerdict, answer
  <2> QED
    BY <1>8, <2>1 DEF Answer
<1>10. answer.confidence # Wording
  <2>1. CASE ValidProposal(reply)
    <3>1. answer.confidence \in 0 .. 100
      BY <2>1 DEF ValidProposal, answer
    <3> QED
      BY <3>1, OddsAssumption
  <2>2. CASE UsableVerdict(reply)
    BY <1>7, <2>2 DEF UsableVerdict
  <2> QED
    BY <1>5, <2>1, <2>2
<1>11. StatedConfidence(answer) > 0
  BY <1>3, <1>4, <1>7
<1>12. answer.confidence \in Int \/ answer.confidence = Infinite
  BY <1>8, <1>10, <1>11 DEF Answer, Number, StatedConfidence
<1>13. answer.confidence \in Int => answer.confidence > 0
  BY <1>11, OddsAssumption DEF StatedConfidence, Clamp
<1> QED
  BY <1>3, <1>4, <1>5, <1>6, <1>7, <1>9, <1>12, <1>13 DEF StatesAView, answer

-----------------------------------------------------------------------------
(***************************************************************************)
(* Names.                                                                  *)
(***************************************************************************)
LEMMA NamesAreCounted ==
  ASSUME NEW S, IsFiniteSet(S)
  PROVE  /\ IsFiniteSet(Names(S)) /\ Cardinality(Names(S)) \in Nat
         /\ Cardinality(Names(S)) <= Cardinality(S)
         /\ (\A e, f \in S : e.underlying = f.underlying => e = f) =>
              Cardinality(Names(S)) = Cardinality(S)
<1> DEFINE name == [e \in S |-> e.underlying]
<1>1. name \in Surjection(S, Names(S))
  BY DEF Surjection, Names
<1>2. (\A e, f \in S : e.underlying = f.underlying => e = f) =>
        name \in Injection(S, Names(S))
  BY DEF Injection, IsInjective, Names
<1> HIDE DEF name
<1>3. /\ IsFiniteSet(Names(S))
      /\ Cardinality(Names(S)) <= Cardinality(S)
      /\ Cardinality(Names(S)) = Cardinality(S) <=> name \in Injection(S, Names(S))
  BY <1>1, FS_Surjection
<1> QED
  BY <1>2, <1>3, FS_CardinalityType

\* One name more than are among the entries of a set.
LEMMA OneNameMore ==
  ASSUME NEW S, IsFiniteSet(S), NEW m \in Nat, Cardinality(S) < m,
         NEW names \in SUBSET Names(S), NEW s, NEW more, more = names \cup {s}
  PROVE  Cardinality(more) <= m
<1>1. /\ IsFiniteSet(Names(S)) /\ Cardinality(Names(S)) \in Nat
      /\ Cardinality(Names(S)) <= Cardinality(S)
  BY NamesAreCounted
<1>2. IsFiniteSet(names) /\ Cardinality(names) <= Cardinality(Names(S))
  BY <1>1, FS_Subset
<1>3. Cardinality(names) \in Nat /\ Cardinality(S) \in Nat
  BY <1>2, FS_CardinalityType
<1>4. Cardinality(more) = Cardinality(names) \/ Cardinality(more) = Cardinality(names) + 1
  BY <1>2, FS_AddElement
<1> QED
  BY <1>1, <1>2, <1>3, <1>4

-----------------------------------------------------------------------------
(***************************************************************************)
(* The state.                                                              *)
(***************************************************************************)
\* An entry of the book has a price, and an order has a limit instead.
LEMMA OrdersAreNoPositions ==
  ASSUME NEW e \in PositionType, NEW o \in OrderType
  PROVE  e # o
<1>1. "price" \in DOMAIN e /\ "price" \notin DOMAIN o
  BY DEF PositionType, OrderType
<1> QED
  BY <1>1

\* What positions have cost is a number of dollars.
LEMMA PositionsArePriced ==
  ASSUME NEW S \in SUBSET PositionType, IsFiniteSet(S)
  PROVE  Priced(S) /\ MapThenSumSet(LAMBDA p : p.quantity * p.price, S) \in Nat
<1>1. MaxContracts \in Nat
  BY BookAssumption
<1>2. Priced(S)
  BY <1>1 DEF Priced, PositionType
<1> QED
  BY <1>2, CommittedIsNat

\* What the gates read of the context are numbers.
LEMMA ContextIsTyped ==
  ASSUME WalkInv
  PROVE  /\ ctx.equity \in Int /\ ctx.buying_power \in Int
         /\ Committed(ctx) \in Nat
<1>1. /\ ctx.equity \in Nat /\ ctx.buying_power \in Int
      /\ ctx.positions \in SUBSET PositionType /\ IsFiniteSet(ctx.positions)
  BY DEF WalkInv, TypeOK
<1>2. MapThenSumSet(LAMBDA p : p.quantity * p.price, ctx.positions) \in Nat
  BY <1>1, PositionsArePriced
<1>3. Committed(ctx) = MapThenSumSet(LAMBDA p : p.quantity * p.price, ctx.positions)
  BY DEF Committed
<1>4. Committed(ctx) \in Nat
  BY <1>2, <1>3, Zenon
<1> QED
  BY <1>1, <1>4

\* What the gates are asked about is an order for a price.
LEMMA DraftIsTyped ==
  ASSUME WalkInv, NEW s \in DOMAIN offers, offers[s] # NoOffer, WorthSizing(offers[s])
  PROVE  DraftFor(s) \in [underlying : Symbols, right : Rights, quantity : Nat, limit : Nat]
<1> DEFINE offer == offers[s]
<1>1. offer \in Offers /\ s \in Symbols
  BY DEF WalkInv, TypeOK
<1>2. WorthSizing(offer)
  OBVIOUS
<1>3. DraftFor(s) = [underlying |-> s, right |-> offer.right, quantity |-> MaxContracts,
                     limit |-> LimitPrice(PickContract(offer))]
  BY DEF DraftFor
<1> HIDE DEF offer
<1>4. /\ offer.right \in Rights
      /\ offer.contracts \subseteq Contract /\ IsFiniteSet(offer.contracts)
  BY <1>1, OffersAreTyped
<1>5. LimitPrice(PickContract(offer)) \in Nat
  <2>1. Usable(offer) # {}
    BY <1>2 DEF WorthSizing
  <2>2. PickContract(offer) \in Usable(offer)
    BY <1>4, <2>1, PickIsUsable
  <2>3. PickContract(offer) \in Contract
    BY <1>4, <2>2 DEF Usable
  <2> QED
    BY <2>3, LimitPriceIsAPrice
<1>6. MaxContracts \in Nat
  BY BookAssumption
<1> QED
  BY <1>1, <1>3, <1>4, <1>5, <1>6

\* What `decide_entry` lets through is worth sizing, is a proper order, leans no
\* further than allowed, and is paid for by what the context has left.
LEMMA DecidedDraft ==
  ASSUME WalkInv, NEW s \in DOMAIN offers, DecideEntry(s) > 0,
         NEW draft, draft = [DraftFor(s) EXCEPT !.quantity = DecideEntry(s)]
  PROVE  /\ offers[s] # NoOffer /\ WorthSizing(offers[s])
         /\ draft \in OrderType /\ draft.underlying = s
         /\ DirectionalBalance(draft, ctx)
         /\ Cost(draft) + Committed(ctx) <= ctx.buying_power
<1> DEFINE offer == offers[s]
           first == DraftFor(s)
           n == DecideEntry(s)
<1>1. offer # NoOffer /\ WorthSizing(offer) /\ n = Authorise(first, ctx)
  BY DEF DecideEntry
<1>2. first \in [underlying : Symbols, right : Rights, quantity : Nat, limit : Nat]
  BY <1>1, DraftIsTyped
<1>3. first.underlying = s /\ first.quantity = MaxContracts
  BY DEF DraftFor
<1>4. MaxContracts \in Nat
  BY BookAssumption
<1> HIDE DEF offer, first, n
<1>8. /\ ctx.equity \in Int /\ ctx.buying_power \in Int
      /\ Committed(ctx) \in Nat
  BY ContextIsTyped
<1>9. /\ n \in Nat /\ n <= first.quantity
      /\ n > 0 =>
           /\ DirectionalBalance(first, ctx)
           /\ first.limit > 0
           /\ n * first.limit + Committed(ctx) <= ctx.buying_power
  <2>1. first \in [underlying : Symbols, right : Rights, quantity : Nat, limit : Int]
    BY <1>2
  <2> QED
    BY <1>1, <1>8, <2>1, AuthorisedIsPaidFor
<1>10. n > 0 /\ draft = [first EXCEPT !.quantity = n]
  BY DEF n, first
<1>11. /\ draft.underlying = s /\ draft.right = first.right
       /\ draft.quantity = n /\ draft.limit = first.limit
  BY <1>2, <1>3, <1>10
<1>12. n \in 1 .. MaxContracts
  BY <1>3, <1>4, <1>9, <1>10
<1>13. draft \in OrderType
  BY <1>2, <1>10, <1>12 DEF OrderType
<1>14. DirectionalBalance(draft, ctx)
  BY <1>9, <1>10, <1>11 DEF DirectionalBalance
<1>15. Cost(draft) = n * first.limit
  BY <1>11 DEF Cost
<1> QED
  BY <1>1, <1>9, <1>10, <1>11, <1>13, <1>14, <1>15 DEF offer

-----------------------------------------------------------------------------
(***************************************************************************)
(* The broker moves.                                                       *)
(***************************************************************************)
\* Whatever is in `new` was there before, by its name and its direction.
NothingNew(new, old) ==
  \A e \in new : \E f \in old : f.underlying = e.underlying /\ f.right = e.right

OneEach(S) == \A e, f \in S : e.underlying = f.underlying => e = f

\* Then every count by name is what it was, or less.
LEMMA NothingNewNamesNothing ==
  ASSUME NEW old, IsFiniteSet(old), NEW new, NothingNew(new, old)
  PROVE  /\ Names(new) \subseteq Names(old)
         /\ Names(Pointing("call", new)) \subseteq Names(Pointing("call", old))
         /\ Cardinality(Names(Pointing("call", new)))
              <= Cardinality(Names(Pointing("call", old)))
         /\ \A s \in Symbols :
              Cardinality(Names(InGroupOf(s, new)))
                <= Cardinality(Names(InGroupOf(s, old)))
<1>1. Names(new) \subseteq Names(old)
  BY DEF NothingNew, Names
<1>2. Names(Pointing("call", new)) \subseteq Names(Pointing("call", old))
  BY DEF NothingNew, Names, Pointing
<1>3. \A s \in Symbols : Names(InGroupOf(s, new)) \subseteq Names(InGroupOf(s, old))
  BY DEF NothingNew, Names, InGroupOf
<1>4. /\ IsFiniteSet(Pointing("call", old))
      /\ \A s \in Symbols : IsFiniteSet(InGroupOf(s, old))
  BY FS_Subset DEF Pointing, InGroupOf
<1>5. Cardinality(Names(Pointing("call", new))) <= Cardinality(Names(Pointing("call", old)))
  <2>1. IsFiniteSet(Names(Pointing("call", old)))
    BY <1>4, NamesAreCounted
  <2> QED
    BY <1>2, <2>1, FS_Subset
<1>6. ASSUME NEW s \in Symbols
      PROVE  Cardinality(Names(InGroupOf(s, new))) <= Cardinality(Names(InGroupOf(s, old)))
  <2>1. IsFiniteSet(Names(InGroupOf(s, old)))
    BY <1>4, NamesAreCounted
  <2> QED
    BY <1>3, <2>1, FS_Subset
<1> QED
  BY <1>1, <1>2, <1>5, <1>6

\* Nothing that only takes away, and gives back no less than it takes, disturbs a
\* running pass.
LEMMA BrokerKeeps ==
  ASSUME WalkInv, UNCHANGED passVars,
         book' \subseteq PositionType, orders' \subseteq OrderType,
         IsFiniteSet(Held'), OneEach(Held'), NothingNew(Held', Held),
         cash' \in Nat, cash <= cash'
  PROVE  WalkInv'
<1>1. /\ ctx' = ctx /\ pc' = pc /\ offers' = offers /\ slate' = slate
      /\ walked' = walked /\ approved' = approved /\ ranked' = ranked
      /\ rested' = rested
  BY DEF passVars
<1>2. TypeOK'
  <2>1. cash' \in Int
    OBVIOUS
  <2> QED
    BY <1>1, <2>1 DEF WalkInv, TypeOK
<1>3. IsFiniteSet(Held') /\ IsFiniteSet(ctx.positions')
  BY <1>1 DEF WalkInv
<1>4. NamesInv'
  <2>1. Names(Held') \subseteq Names(Held)
    BY NothingNewNamesNothing DEF WalkInv
  <2> QED
    BY <1>1, <2>1 DEF WalkInv, NamesInv, OneEach
<1>5. CashInv'
  <2>1. Committed(ctx) \in Nat /\ ctx.buying_power \in Int
    BY ContextIsTyped
  <2>2. cash \in Nat
    BY DEF WalkInv, CashInv
  <2>3. ctx.buying_power - Committed(ctx) <= cash => ctx.buying_power - Committed(ctx) <= cash'
    BY <2>1, <2>2
  <2>4. pc # "idle" => ctx.buying_power - Committed(ctx) <= cash'
    BY <2>3 DEF WalkInv, CashInv
  <2> QED
    BY <1>1, <2>4 DEF CashInv
<1>6. CapsInv'
  <2> SUFFICES ASSUME ~ rested
               PROVE  /\ Cardinality(Names(Pointing("call", Held'))) <= MaxSameDirection
                      /\ \A s \in Symbols : Group[s] # Ungrouped =>
                           Cardinality(Names(InGroupOf(s, Held'))) <= MaxPerGroup
                      /\ pc # "idle" =>
                           /\ Names(Held') \subseteq Names(ctx.positions)
                           /\ Names(Pointing("call", Held'))
                                \subseteq Names(Pointing("call", ctx.positions))
    BY <1>1 DEF CapsInv
  <2>1. /\ Cardinality(Names(Pointing("call", Held))) <= MaxSameDirection
        /\ \A s \in Symbols : Group[s] # Ungrouped =>
             Cardinality(Names(InGroupOf(s, Held))) <= MaxPerGroup
        /\ pc # "idle" =>
             /\ Names(Held) \subseteq Names(ctx.positions)
             /\ Names(Pointing("call", Held)) \subseteq Names(Pointing("call", ctx.positions))
    BY DEF WalkInv, CapsInv
  <2>2. IsFiniteSet(Held)
    BY DEF WalkInv
  <2>3. /\ Names(Held') \subseteq Names(Held)
        /\ Names(Pointing("call", Held')) \subseteq Names(Pointing("call", Held))
        /\ Cardinality(Names(Pointing("call", Held')))
             <= Cardinality(Names(Pointing("call", Held)))
        /\ \A s \in Symbols :
             Cardinality(Names(InGroupOf(s, Held'))) <= Cardinality(Names(InGroupOf(s, Held)))
    BY <2>2, NothingNewNamesNothing
  <2>4. MaxSameDirection \in Nat /\ MaxPerGroup \in Nat
    BY BookAssumption
  <2>5. ASSUME NEW S, IsFiniteSet(S)
        PROVE  /\ Cardinality(Names(Pointing("call", S))) \in Nat
               /\ \A s \in Symbols : Cardinality(Names(InGroupOf(s, S))) \in Nat
    BY <2>5, FS_Subset, NamesAreCounted DEF Pointing, InGroupOf
  <2>6. Cardinality(Names(Pointing("call", Held'))) <= MaxSameDirection
    BY <2>1, <2>2, <2>3, <2>4, <2>5
  <2>7. ASSUME NEW s \in Symbols, Group[s] # Ungrouped
        PROVE  Cardinality(Names(InGroupOf(s, Held'))) <= MaxPerGroup
    BY <2>1, <2>2, <2>3, <2>4, <2>5, <2>7
  <2> QED
    BY <2>1, <2>3, <2>6, <2>7
<1>7. SlateInv'
  BY <1>1 DEF WalkInv, SlateInv
<1>8. RankInv'
  BY <1>1 DEF WalkInv, RankInv, WeakestMissOut
<1> QED
  BY <1>2, <1>3, <1>4, <1>5, <1>6, <1>7, <1>8 DEF WalkInv

\* What the invariant says of the broker.
LEMMA BookTypes ==
  ASSUME WalkInv
  PROVE  /\ book \subseteq PositionType /\ orders \subseteq OrderType
         /\ book \cap orders = {}
         /\ IsFiniteSet(Held) /\ OneEach(Held)
         /\ cash \in Nat
         /\ \A o \in orders : Cost(o) \in Nat
         /\ \A p \in book : p.quantity * p.price \in Nat
<1>1. book \subseteq PositionType /\ orders \subseteq OrderType
  BY DEF WalkInv, TypeOK
<1>2. book \cap orders = {}
  BY <1>1, OrdersAreNoPositions
<1>3. MaxContracts \in Nat
  BY BookAssumption
<1>4. ASSUME NEW o \in orders
      PROVE  Cost(o) \in Nat
  <2>1. o.quantity \in Nat /\ o.limit \in Nat
    BY <1>1, <1>3 DEF OrderType
  <2> QED
    BY <2>1 DEF Cost
<1>5. ASSUME NEW p \in book
      PROVE  p.quantity * p.price \in Nat
  <2>1. p.quantity \in Nat /\ p.price \in Nat
    BY <1>1, <1>3 DEF PositionType
  <2> QED
    BY <2>1
<1> QED
  BY <1>1, <1>2, <1>4, <1>5 DEF WalkInv, NamesInv, CashInv, OneEach

\* A filled order is a position under the same name and in the same direction.
LEMMA FillsKeeps ==
  ASSUME WalkInv, NEW o \in orders, Fills(o)
  PROVE  WalkInv'
<1> DEFINE p == [underlying |-> o.underlying, right |-> o.right,
                 quantity |-> o.quantity, price |-> o.limit]
<1>1. /\ book' = book \cup {p} /\ orders' = orders \ {o}
      /\ cash' = cash /\ UNCHANGED passVars
  BY DEF Fills
<1>2. o \in OrderType /\ o \in Held /\ o \notin book
  BY BookTypes DEF Held
<1>3. p \in PositionType /\ p.underlying = o.underlying /\ p.right = o.right
  BY <1>2 DEF OrderType, PositionType
<1> HIDE DEF p
<1>4. Held' = (Held \ {o}) \cup {p}
  BY <1>1, <1>2 DEF Held
<1>5. book' \subseteq PositionType /\ orders' \subseteq OrderType /\ cash' \in Nat /\ cash <= cash'
  BY <1>1, <1>3, BookTypes
<1>6. IsFiniteSet(Held')
  BY <1>4, BookTypes, FS_RemoveElement, FS_AddElement
<1>7. OneEach(Held')
  BY <1>2, <1>3, <1>4, BookTypes DEF OneEach
<1>8. NothingNew(Held', Held)
  BY <1>2, <1>3, <1>4 DEF NothingNew
<1> QED
  BY <1>1, <1>5, <1>6, <1>7, <1>8, BrokerKeeps

\* An order that goes gives back what it held.
LEMMA IsGoneKeeps ==
  ASSUME WalkInv, NEW o \in orders, IsGone(o)
  PROVE  WalkInv'
<1>1. /\ book' = book /\ orders' = orders \ {o}
      /\ cash' = cash + Cost(o) /\ UNCHANGED passVars
  BY DEF IsGone
<1>2. Held' \in SUBSET Held
  BY <1>1 DEF Held
<1>3. book' \subseteq PositionType /\ orders' \subseteq OrderType /\ cash' \in Nat /\ cash <= cash'
  BY <1>1, BookTypes
<1>4. IsFiniteSet(Held')
  BY <1>2, BookTypes, FS_Subset
<1>5. OneEach(Held') /\ NothingNew(Held', Held)
  BY <1>2, BookTypes DEF OneEach, NothingNew
<1> QED
  BY <1>1, <1>3, <1>4, <1>5, BrokerKeeps

\* A position that is sold brings in its price.
LEMMA ClosesKeeps ==
  ASSUME WalkInv, NEW p \in book, Closes(p)
  PROVE  WalkInv'
<1>1. /\ book' = book \ {p} /\ orders' = orders
      /\ cash' = cash + p.quantity * p.price /\ UNCHANGED passVars
  BY DEF Closes
<1>2. Held' \in SUBSET Held
  BY <1>1 DEF Held
<1>3. book' \subseteq PositionType /\ orders' \subseteq OrderType /\ cash' \in Nat /\ cash <= cash'
  <2>1. p.quantity * p.price \in Nat /\ cash \in Nat
    BY BookTypes
  <2> QED
    BY <1>1, <2>1, BookTypes
<1>4. IsFiniteSet(Held')
  BY <1>2, BookTypes, FS_Subset
<1>5. OneEach(Held') /\ NothingNew(Held', Held)
  BY <1>2, BookTypes DEF OneEach, NothingNew
<1> QED
  BY <1>1, <1>3, <1>4, <1>5, BrokerKeeps

\* A mark changes the price of a position, and neither its name nor its direction.
LEMMA MarkMovesKeeps ==
  ASSUME WalkInv, NEW p \in book, NEW price \in Prices, MarkMoves(p, price)
  PROVE  WalkInv'
<1> DEFINE q == [p EXCEPT !.price = price]
<1>1. /\ book' = (book \ {p}) \cup {q} /\ orders' = orders
      /\ cash' = cash /\ UNCHANGED passVars
  BY DEF MarkMoves
<1>2. p \in PositionType /\ p \in Held /\ p \notin orders
  BY BookTypes DEF Held
<1>3. q \in PositionType /\ q.underlying = p.underlying /\ q.right = p.right
  BY <1>2, WalkAssumption DEF PositionType
<1> HIDE DEF q
<1>4. Held' = (Held \ {p}) \cup {q}
  BY <1>1, <1>2 DEF Held
<1>5. book' \subseteq PositionType /\ orders' \subseteq OrderType /\ cash' \in Nat /\ cash <= cash'
  BY <1>1, <1>3, BookTypes
<1>6. IsFiniteSet(Held')
  BY <1>4, BookTypes, FS_RemoveElement, FS_AddElement
<1>7. OneEach(Held')
  BY <1>2, <1>3, <1>4, BookTypes DEF OneEach
<1>8. NothingNew(Held', Held)
  BY <1>2, <1>3, <1>4 DEF NothingNew
<1> QED
  BY <1>1, <1>5, <1>6, <1>7, <1>8, BrokerKeeps

-----------------------------------------------------------------------------
(***************************************************************************)
(* The pass.                                                               *)
(***************************************************************************)
\* What the resting orders hold back is a number of dollars.
LEMMA OrdersCostDollars ==
  ASSUME NEW S, IsFiniteSet(S), \A o \in S : Cost(o) \in Nat
  PROVE  MapThenSumSet(Cost, S) \in Nat
<1> DEFINE cost == [o \in S |-> Cost(o)]
           Sums(iter) ==
             iter = [s \in SUBSET S |->
                       IF s = {} THEN 0 ELSE Cost(First(s)) + iter[s \ {First(s)}]]
           sum == CHOOSE iter : Sums(iter)
           count == [s \in SUBSET S |-> Cardinality(Dollars(s, cost))]
<1>1. MapThenSumSet(Cost, S) = sum[S]
  BY DEF MapThenSumSet, MapThenFoldSet, First
<1>2. /\ cost \in [S -> Nat]
      /\ \A s \in SUBSET S : s # {} => cost[First(s)] = Cost(First(s))
  BY DEF First
<1> HIDE DEF cost
<1>3. Sums(count)
  <2>1. SumsUp(count, S, cost)
    <3>1. count = [s \in SUBSET S |-> Cardinality(Dollars(s, cost))]
      OBVIOUS
    <3> HIDE DEF count, Sums, sum
    <3> QED
      BY <1>2, <3>1, CountingSumsUp
  <2>2. count = [s \in SUBSET S |-> count[s]]
    OBVIOUS
  <2> HIDE DEF count
  <2> QED
    BY <1>2, <2>1, <2>2 DEF SumsUp
<1>4. Sums(sum)
  <2> HIDE DEF Sums, count
  <2> QED
    BY <1>3
<1>5. SumsUp(sum, S, cost)
  <2> HIDE DEF sum
  <2> QED
    BY <1>2, <1>4 DEF SumsUp
<1>6. S \in SUBSET S
  OBVIOUS
<1>7. sum[S] = Cardinality(Dollars(S, cost))
  <2> HIDE DEF sum, Sums, count
  <2> QED
    BY <1>2, <1>5, <1>6, SumsCountDollars
<1>8. Cardinality(Dollars(S, cost)) \in Nat
  BY <1>2, <1>6, DollarsAreFinite
<1> QED
  BY <1>1, <1>7, <1>8

\* Equity is a number of dollars.
LEMMA EquityIsTyped ==
  ASSUME WalkInv
  PROVE  Equity \in Nat
<1>1. IsFiniteSet(book) /\ IsFiniteSet(orders)
  BY BookTypes, FS_Subset DEF Held
<1> DEFINE x == MapThenSumSet(Cost, orders)
           y == MapThenSumSet(LAMBDA p : p.quantity * p.price, book)
<1>2. x \in Nat
  <2>1. \A o \in orders : Cost(o) \in Nat
    BY BookTypes
  <2> QED
    BY <1>1, <2>1, OrdersCostDollars
<1>3. y \in Nat
  <2>1. book \in SUBSET PositionType
    BY BookTypes
  <2> QED
    BY <1>1, <2>1, PositionsArePriced
<1>4. Equity = cash + x + y
  BY DEF Equity
<1>5. cash \in Nat
  BY BookTypes
<1> HIDE DEF x, y
<1> QED
  BY <1>2, <1>3, <1>4, <1>5

\* An empty book has no names.
LEMMA NamesOfNothing ==
  /\ IsFiniteSet({})
  /\ Names({}) = {} /\ Cardinality(Names({})) = 0
  /\ Pointing("call", {}) = {} /\ \A s : InGroupOf(s, {}) = {}
BY FS_EmptySet DEF Names, Pointing, InGroupOf

\* The empty account satisfies the invariant.
LEMMA InitEstablishes ==
  ASSUME Init
  PROVE  WalkInv
<1>1. /\ book = {} /\ orders = {} /\ cash = StartCash
      /\ pc = "idle" /\ ctx = NoContext /\ offers = <<>> /\ slate = <<>>
      /\ walked = {} /\ approved = {} /\ ranked = TRUE /\ rested = FALSE
  BY DEF Init
<1>2. /\ StartCash \in Nat /\ MaxSameDirection \in Nat /\ MaxPerGroup \in Nat
  BY BookAssumption, WalkAssumption
<1>3. Held = {} /\ ctx.positions = {}
  BY <1>1 DEF Held, NoContext
<1>4. TypeOK
  <2>1. ctx \in [equity : Nat, buying_power : Int,
                  positions : SUBSET PositionType, pending : SUBSET Symbols]
    BY <1>1 DEF NoContext
  <2>2. DOMAIN offers = {} /\ ToSet(slate) = {}
    BY <1>1 DEF ToSet
  <2>3. book \subseteq PositionType /\ orders \subseteq OrderType /\ cash \in Int
    BY <1>1, <1>2
  <2>4. /\ DOMAIN offers \subseteq Symbols
        /\ \A s \in DOMAIN offers : offers[s] \in Offers \cup {NoOffer}
        /\ ToSet(slate) \subseteq Symbols
    BY <2>2
  <2>5. /\ pc \in {"idle", "offers", "slate", "walk"}
        /\ walked \subseteq Symbols /\ approved \subseteq Symbols
        /\ ranked \in BOOLEAN /\ rested \in BOOLEAN
    BY <1>1
  <2> QED
    BY <2>1, <2>3, <2>4, <2>5 DEF TypeOK
<1>5. NamesInv /\ CashInv /\ RankInv
  BY <1>1, <1>2, <1>3 DEF NamesInv, CashInv, RankInv
<1>6. CapsInv
  <2>1. Cardinality(Names(Pointing("call", Held))) = 0
    BY <1>3, NamesOfNothing
  <2>2. \A s \in Symbols : Cardinality(Names(InGroupOf(s, Held))) = 0
    BY <1>3, NamesOfNothing
  <2> QED
    BY <1>1, <1>2, <2>1, <2>2 DEF CapsInv
<1>7. SlateInv
  BY <1>1 DEF SlateInv
<1> QED
  BY <1>3, <1>4, <1>5, <1>6, <1>7, FS_EmptySet DEF WalkInv

\* The context begins as what the account is (loop.py 490-499).
LEMMA ReadAccountKeeps ==
  ASSUME WalkInv, ReadAccount
  PROVE  WalkInv'
<1>1. /\ pc = "idle" /\ pc' = "offers"
      /\ ctx' = [equity |-> Equity, buying_power |-> cash,
                 positions |-> book, pending |-> Names(orders)]
      /\ rested' = (rested \/ orders # {})
      /\ book' = book /\ orders' = orders /\ cash' = cash
      /\ offers' = offers /\ slate' = slate /\ walked' = walked
      /\ approved' = approved /\ ranked' = ranked
  BY DEF ReadAccount, brokerVars
<1>2. /\ ctx'.buying_power = cash /\ ctx'.positions = book
      /\ ctx'.pending = Names(orders)
  BY <1>1
<1>3. Held' = Held
  BY <1>1 DEF Held
<1>4. TypeOK'
  <2>1. Equity \in Nat
    BY EquityIsTyped
  <2>2. /\ book \in SUBSET PositionType /\ Names(orders) \in SUBSET Symbols
        /\ cash \in Int /\ rested \in BOOLEAN
    BY DEF WalkInv, TypeOK, Names, OrderType
  <2>3. ctx' \in [equity : Nat, buying_power : Int,
                  positions : SUBSET PositionType, pending : SUBSET Symbols]
    BY <1>1, <2>1, <2>2
  <2> QED
    BY <1>1, <2>2, <2>3 DEF WalkInv, TypeOK
<1>5. IsFiniteSet(Held') /\ IsFiniteSet(ctx.positions')
  BY <1>2, <1>3, BookTypes, FS_Subset DEF Held
<1>6. NamesInv'
  <2>1. Names(Held) \subseteq Names(book) \cup Names(orders)
    BY DEF Held, Names
  <2> QED
    BY <1>2, <1>3, <2>1 DEF WalkInv, NamesInv
<1>7. CashInv'
  <2>1. book \in SUBSET PositionType /\ IsFiniteSet(book) /\ cash \in Nat
    BY BookTypes, FS_Subset DEF Held
  <2>2. MapThenSumSet(LAMBDA p : p.quantity * p.price, book) \in Nat
    BY <2>1, PositionsArePriced
  <2>3. Committed(ctx') = MapThenSumSet(LAMBDA p : p.quantity * p.price, ctx'.positions)
    BY DEF Committed
  <2>4. Committed(ctx') \in Nat
    BY <1>2, <2>2, <2>3, Zenon
  <2>5. cash - Committed(ctx') <= cash
    BY <2>1, <2>4
  <2> QED
    BY <1>1, <1>2, <2>1, <2>5 DEF CashInv
<1>8. CapsInv'
  <2>1. orders = {} => Held = book
    BY DEF Held
  <2> QED
    BY <1>1, <1>2, <1>3, <2>1 DEF WalkInv, CapsInv
<1>9. SlateInv'
  BY <1>1 DEF WalkInv, SlateInv
<1>10. RankInv'
  BY <1>1 DEF RankInv
<1> QED
  BY <1>4, <1>5, <1>6, <1>7, <1>8, <1>9, <1>10 DEF WalkInv

\* Whatever the models say, an offer is made for each candidate and no other name
\* (loop.py 509-559).
LEMMA GatherAndReasonKeeps ==
  ASSUME WalkInv, GatherAndReason
  PROVE  WalkInv'
<1>1. /\ pc = "offers" /\ pc' = "slate"
      /\ book' = book /\ orders' = orders /\ cash' = cash
      /\ ctx' = ctx /\ slate' = slate /\ walked' = walked
      /\ approved' = approved /\ ranked' = ranked /\ rested' = rested
  BY DEF GatherAndReason, brokerVars
<1>2. /\ DOMAIN offers' \subseteq Symbols
      /\ offers' \in [DOMAIN offers' -> Offers \cup {NoOffer}]
  <2>1. PICK provider \in Providers :
          offers' \in [Candidates -> {Offered(provider, r) : r \in Replies} \cup {NoOffer}]
    BY DEF GatherAndReason
  <2>2. {Offered(provider, r) : r \in Replies} \subseteq Offers
    BY DEF Offers
  <2>3. DOMAIN offers' = Candidates /\ Candidates \subseteq Symbols
    BY <2>1 DEF Candidates
  <2>4. \A s \in Candidates : offers'[s] \in Offers \cup {NoOffer}
    BY <2>1, <2>2
  <2>5. offers' = [s \in Candidates |-> offers'[s]]
    BY <2>1
  <2> HIDE DEF Candidates
  <2> QED
    BY <2>3, <2>4, <2>5
<1>3. Held' = Held
  BY <1>1 DEF Held
<1>4. TypeOK'
  BY <1>1, <1>2 DEF WalkInv, TypeOK
<1>5. NamesInv' /\ CashInv' /\ CapsInv'
  BY <1>1, <1>3 DEF WalkInv, NamesInv, CashInv, CapsInv
<1>6. SlateInv' /\ RankInv'
  BY <1>1, <1>2 DEF WalkInv, SlateInv, RankInv
<1> QED
  BY <1>1, <1>3, <1>4, <1>5, <1>6 DEF WalkInv

\* The end of a pass forgets its context.
LEMMA FinishKeeps ==
  ASSUME WalkInv, Finish
  PROVE  WalkInv'
<1>1. /\ pc = "walk" /\ pc' = "idle"
      /\ book' = book /\ orders' = orders /\ cash' = cash
      /\ ctx' = NoContext /\ offers' = <<>> /\ slate' = slate
      /\ walked' = {} /\ approved' = {} /\ ranked' = TRUE /\ rested' = rested
  BY DEF Finish, brokerVars
<1>2. DOMAIN offers' = {} /\ ctx'.positions = {}
  BY <1>1 DEF NoContext
<1>3. Held' = Held
  BY <1>1 DEF Held
<1>4. TypeOK'
  <2>1. ctx' \in [equity : Nat, buying_power : Int,
                  positions : SUBSET PositionType, pending : SUBSET Symbols]
    BY <1>1 DEF NoContext
  <2>2. /\ DOMAIN offers' \subseteq Symbols
        /\ \A s \in DOMAIN offers' : offers'[s] \in Offers \cup {NoOffer}
    BY <1>2
  <2> QED
    BY <1>1, <2>1, <2>2 DEF WalkInv, TypeOK
<1>5. NamesInv' /\ CashInv' /\ CapsInv'
  BY <1>1, <1>3 DEF WalkInv, NamesInv, CashInv, CapsInv
<1>6. SlateInv' /\ RankInv'
  BY <1>1 DEF WalkInv, SlateInv, RankInv
<1> QED
  BY <1>2, <1>3, <1>4, <1>5, <1>6, FS_EmptySet DEF WalkInv

\* `head` stands before `tail`, and together they are `seq`.
Splits(seq, D, head, tail) ==
  /\ tail \in Seq(D) /\ head = seq[1] /\ 1 \in DOMAIN seq
  /\ \A i \in DOMAIN tail : i \in Nat /\ i + 1 \in DOMAIN seq /\ tail[i] = seq[i + 1]
  /\ ToSet(seq) = {head} \cup ToSet(tail)

\* So do the head and the tail of a sequence.
LEMMA HeadAndTail ==
  ASSUME NEW D, NEW seq \in Seq(D), seq # <<>>
  PROVE  Splits(seq, D, Head(seq), Tail(seq))
<1> DEFINE head == Head(seq)
           tail == Tail(seq)
<1>1. /\ Len(seq) \in Nat /\ Len(seq) >= 1
      /\ DOMAIN seq = 1 .. Len(seq) /\ 1 \in DOMAIN seq
      /\ head = seq[1]
  OBVIOUS
<1>2. /\ tail \in Seq(D) /\ Len(tail) = Len(seq) - 1
      /\ DOMAIN tail = 1 .. Len(seq) - 1
      /\ \A i \in 1 .. Len(seq) - 1 : tail[i] = seq[i + 1]
  OBVIOUS
<1>3. \A i \in DOMAIN tail : i \in Nat /\ i + 1 \in DOMAIN seq /\ tail[i] = seq[i + 1]
  BY <1>1, <1>2
<1>4. ToSet(seq) = {head} \cup ToSet(tail)
  <2>1. ASSUME NEW i \in DOMAIN seq
        PROVE  seq[i] \in {head} \cup ToSet(tail)
    <3>1. CASE i = 1
      BY <1>1, <3>1
    <3>2. CASE i # 1
      <4>1. i - 1 \in DOMAIN tail /\ tail[i - 1] = seq[i]
        BY <1>1, <1>2, <3>2
      <4> QED
        BY <4>1 DEF ToSet
    <3> QED
      BY <3>1, <3>2
  <2>2. head \in ToSet(seq)
    BY <1>1 DEF ToSet
  <2>3. ASSUME NEW i \in DOMAIN tail
        PROVE  tail[i] \in ToSet(seq)
    BY <1>3 DEF ToSet
  <2> QED
    BY <2>1, <2>2, <2>3 DEF ToSet
<1> QED
  BY <1>1, <1>2, <1>3, <1>4 DEF Splits

\* One name of the slate is walked, whatever comes of it.
LEMMA WalkedKeepsTheSlate ==
  ASSUME WalkInv, pc = "walk", slate # <<>>, Walked
  PROVE  /\ ToSet(slate') \subseteq Symbols /\ walked' \subseteq Symbols
         /\ SlateInv' /\ RankInv'
<1> DEFINE head == Head(slate)
           tail == Tail(slate)
<1>1. /\ slate' = tail /\ walked' = walked \cup {head} /\ pc' = pc
      /\ offers' = offers /\ approved' = approved /\ ranked' = ranked
  BY DEF Walked
<1>2. /\ slate \in Seq(Symbols)
      /\ offers \in [DOMAIN offers -> Offers \cup {NoOffer}]
      /\ approved \subseteq DOMAIN offers
      /\ \A s \in approved : offers[s] # NoOffer /\ WorthSizing(offers[s])
      /\ ToSet(slate) \cup walked = approved
      /\ ListedOnce => ToSet(slate) \cap walked = {} /\ IsInjective(slate)
      /\ ToSet(slate) \subseteq Symbols /\ walked \subseteq Symbols
  BY DEF WalkInv, SlateInv, TypeOK
<1>3. /\ tail \in Seq(Symbols) /\ head = slate[1] /\ 1 \in DOMAIN slate
      /\ \A i \in DOMAIN tail :
           i \in Nat /\ i + 1 \in DOMAIN slate /\ tail[i] = slate[i + 1]
      /\ ToSet(slate) = {head} \cup ToSet(tail)
  <2>1. Splits(slate, Symbols, head, tail)
    BY <1>2, HeadAndTail
  <2> HIDE DEF head, tail
  <2> QED
    BY <2>1 DEF Splits
<1> HIDE DEF head, tail
<1>4. ToSet(slate') \subseteq Symbols /\ walked' \subseteq Symbols
  BY <1>1, <1>2, <1>3
<1>5. SlateInv'
  <2>1. ToSet(slate') \cup walked' = approved
    BY <1>1, <1>2, <1>3
  <2>2. ASSUME ListedOnce
        PROVE  ToSet(slate') \cap walked' = {} /\ IsInjective(slate')
    <3>1. ToSet(slate) \cap walked = {} /\ IsInjective(slate)
      BY <1>2, <2>2
    <3>2. \A i \in DOMAIN tail : tail[i] # head
      <4>1. \A i \in DOMAIN tail : i \in Nat /\ i # 0
        BY <1>3, LenProperties
      <4>2. \A i \in DOMAIN tail : i + 1 # 1 /\ i + 1 \in DOMAIN slate
        BY <1>3, <4>1
      <4> QED
        BY <1>3, <3>1, <4>2 DEF IsInjective
    <3>3. \A i, j \in DOMAIN tail : tail[i] = tail[j] => i = j
      <4> SUFFICES ASSUME NEW i \in DOMAIN tail, NEW j \in DOMAIN tail, tail[i] = tail[j]
                   PROVE  i = j
        OBVIOUS
      <4>1. i + 1 = j + 1
        BY <1>3, <3>1 DEF IsInjective
      <4> QED
        BY <1>3, <4>1
    <3>4. IsInjective(tail)
      BY <3>3 DEF IsInjective
    <3>5. head \notin ToSet(tail)
      BY <3>2 DEF ToSet
    <3> QED
      BY <1>1, <1>3, <3>1, <3>4, <3>5
  <2> QED
    BY <1>1, <1>2, <1>3, <2>1, <2>2 DEF SlateInv
<1>6. RankInv'
  <2> SUFFICES ASSUME ranked
               PROVE  /\ \A i, j \in DOMAIN tail :
                           i < j => offers[tail[i]].confidence >= offers[tail[j]].confidence
                      /\ \A s \in walked' : \A t \in ToSet(tail) :
                           offers[s].confidence >= offers[t].confidence
    BY <1>1 DEF RankInv, WeakestMissOut
  <2>1. /\ \A i, j \in DOMAIN slate :
             i < j => offers[slate[i]].confidence >= offers[slate[j]].confidence
        /\ \A s \in walked : \A t \in ToSet(slate) :
             offers[s].confidence >= offers[t].confidence
    BY DEF WalkInv, RankInv, WeakestMissOut
  <2>2. ASSUME NEW i \in DOMAIN tail, NEW j \in DOMAIN tail, i < j
        PROVE  offers[tail[i]].confidence >= offers[tail[j]].confidence
    <3>1. /\ i + 1 \in DOMAIN slate /\ j + 1 \in DOMAIN slate /\ i + 1 < j + 1
          /\ tail[i] = slate[i + 1] /\ tail[j] = slate[j + 1]
      BY <1>3, <2>2
    <3> QED
      BY <2>1, <3>1
  <2>3. ASSUME NEW j \in DOMAIN tail
        PROVE  offers[head].confidence >= offers[tail[j]].confidence
    <3>1. j + 1 \in DOMAIN slate /\ 1 < j + 1 /\ tail[j] = slate[j + 1]
      <4>1. DOMAIN tail = 1 .. Len(tail) /\ Len(tail) \in Nat
        BY <1>3, LenProperties
      <4> QED
        BY <1>3, <4>1
    <3> QED
      BY <1>3, <2>1, <3>1
  <2>4. \A t \in ToSet(tail) : offers[head].confidence >= offers[t].confidence
    BY <2>3 DEF ToSet
  <2>5. ToSet(tail) \subseteq ToSet(slate)
    BY <1>3
  <2> QED
    BY <1>1, <2>1, <2>2, <2>4, <2>5
<1> QED
  BY <1>4, <1>5, <1>6

\* A name that is refused, by the gates or by the broker, leaves all but the slate
\* as it is (loop.py 605-637).
LEMMA NothingBoughtKeeps ==
  ASSUME WalkInv, pc = "walk", slate # <<>>, Walked, UNCHANGED <<brokerVars, ctx>>
  PROVE  WalkInv'
<1>1. /\ pc' = pc
      /\ book' = book /\ orders' = orders /\ cash' = cash /\ ctx' = ctx
      /\ offers' = offers /\ approved' = approved /\ ranked' = ranked
      /\ rested' = rested
  BY DEF Walked, brokerVars
<1>2. Held' = Held
  BY <1>1 DEF Held
<1>3. /\ ToSet(slate') \subseteq Symbols /\ walked' \subseteq Symbols
      /\ SlateInv' /\ RankInv'
  BY WalkedKeepsTheSlate
<1>4. TypeOK'
  BY <1>1, <1>3 DEF WalkInv, TypeOK
<1>5. NamesInv' /\ CashInv' /\ CapsInv'
  BY <1>1, <1>2 DEF WalkInv, NamesInv, CashInv, CapsInv
<1> QED
  BY <1>1, <1>2, <1>3, <1>4, <1>5 DEF WalkInv

\* `select` puts the approved names in an order (selector.py 154-220, loop.py
\* 549-580).
LEMMA OrderTheSlateKeeps ==
  ASSUME WalkInv, NEW answer \in Answers, OrderTheSlate(answer)
  PROVE  WalkInv'
<1> DEFINE eligible == {s \in DOMAIN offers : DecideEntry(s) > 0}
           places == {i \in DOMAIN Watchlist : Watchlist[i] \in eligible}
           all == Kept(Watchlist, places)
           conviction == [s \in eligible |-> offers[s].confidence]
<1>1. /\ pc = "slate" /\ pc' = "walk"
      /\ approved' = eligible
      /\ slate' = Selected(all, conviction, FreeSlots, answer)
      /\ ranked' = (answer = <<>> \/ ~Competing(all, FreeSlots))
      /\ walked' = {}
      /\ book' = book /\ orders' = orders /\ cash' = cash
      /\ ctx' = ctx /\ offers' = offers /\ rested' = rested
  BY DEF OrderTheSlate, brokerVars
<1>2. \A s \in eligible : /\ s \in Symbols /\ offers[s] # NoOffer /\ WorthSizing(offers[s])
                          /\ offers[s] \in Offers
  BY DEF WalkInv, TypeOK, DecideEntry
<1>3. \A s \in eligible : conviction[s] = offers[s].confidence /\ conviction[s] \in Int
  <2>1. \A s \in eligible : offers[s].confidence \in 0 .. 100
    <3> HIDE DEF eligible
    <3> QED
      BY <1>2, OffersAreTyped
  <2> QED
    BY <2>1
<1>4. /\ all \in Seq(Symbols) /\ ToSet(all) = eligible
      /\ ListedOnce => IsInjective(all)
  <2>1. /\ Watchlist \in Seq(Symbols) /\ Symbols = ToSet(Watchlist)
        /\ DOMAIN Watchlist = 1 .. Len(Watchlist)
    BY WalkAssumption, LenProperties
  <2>2. Lists(all, Watchlist, places, Upwards(places))
    <3>1. places \in SUBSET (1 .. Len(Watchlist))
      BY <2>1
    <3> HIDE DEF places
    <3> QED
      BY <2>1, <3>1, KeptLists
  <2>3. \A s \in eligible : \E i \in places : Watchlist[i] = s
    <3>1. \A s \in eligible : s \in ToSet(Watchlist)
      BY <1>2, <2>1
    <3> HIDE DEF eligible
    <3> QED
      BY <3>1 DEF ToSet
  <2>4. ToSet(all) = {Watchlist[i] : i \in places} /\ all \in Seq(ToSet(Watchlist))
    BY <2>2 DEF Lists
  <2>5. {Watchlist[i] : i \in places} = eligible
    BY <2>3
  <2>6. ListedOnce => \A i, j \in places : Watchlist[i] = Watchlist[j] => i = j
    BY DEF ListedOnce, IsInjective
  <2>7. ListedOnce => IsInjective(all)
    BY <2>2, <2>6 DEF Lists
  <2> QED
    BY <2>1, <2>4, <2>5, <2>7
<1> HIDE DEF eligible, all, conviction
<1>5. answer \in Seq(ToSet(answer))
  BY WalkAssumption
<1>6. /\ slate' \in Seq(ToSet(all)) /\ ToSet(slate') = eligible
      /\ IsInjective(all) => IsInjective(slate')
  BY <1>1, <1>3, <1>4, <1>5, SelectionKeepsTheSlate
<1>7. slate' \in Seq(Symbols) /\ DOMAIN slate' = 1 .. Len(slate')
  <2>1. eligible \subseteq Symbols
    BY <1>2
  <2> QED
    BY <1>4, <1>6, <2>1, SeqMonotonic, LenProperties
<1>8. ranked' => \A i, j \in 1 .. Len(slate') :
                   i < j => conviction[slate'[i]] >= conviction[slate'[j]]
  BY <1>1, <1>3, <1>4, ConvictionDecides
<1>9. Held' = Held
  BY <1>1 DEF Held
<1>10. TypeOK'
  <2>1. /\ ToSet(slate') \subseteq Symbols /\ approved' \subseteq Symbols
        /\ ranked' \in BOOLEAN
    BY <1>1, <1>2, <1>6
  <2> QED
    BY <1>1, <2>1 DEF WalkInv, TypeOK
<1>11. NamesInv' /\ CashInv' /\ CapsInv'
  BY <1>1, <1>9 DEF WalkInv, NamesInv, CashInv, CapsInv
<1>12. SlateInv'
  <2>1. eligible \subseteq DOMAIN offers
    BY DEF eligible
  <2>2. ListedOnce => ToSet(slate') \cap walked' = {} /\ IsInjective(slate')
    BY <1>1, <1>4, <1>6
  <2> QED
    BY <1>1, <1>2, <1>6, <1>7, <2>1, <2>2 DEF WalkInv, SlateInv
<1>13. RankInv'
  <2>1. ASSUME NEW i \in DOMAIN slate'
        PROVE  conviction[slate'[i]] = offers[slate'[i]].confidence
    <3>1. slate'[i] \in eligible
      BY <1>6 DEF ToSet
    <3> QED
      BY <1>3, <3>1
  <2>2. ranked' => \A i, j \in DOMAIN slate' :
          i < j => offers[slate'[i]].confidence >= offers[slate'[j]].confidence
    BY <1>7, <1>8, <2>1
  <2> QED
    BY <1>1, <2>2 DEF RankInv, WeakestMissOut
<1> QED
  BY <1>1, <1>9, <1>10, <1>11, <1>12, <1>13 DEF WalkInv

\* The symbol an accepted order is for, the order, and the position the context
\* counts for it.
Chosen == Head(slate)

Bought == [DraftFor(Chosen) EXCEPT !.quantity = DecideEntry(Chosen)]

NewPosition == [underlying |-> Bought.underlying, right |-> "call",
                quantity |-> Bought.quantity, price |-> Bought.limit]

\* The context an accepted order leaves: its draft fits what was left, and is one
\* position more (loop.py 671-674, 1069-1086).
LEMMA OneOrderMore ==
  ASSUME WalkInv, BuyAccepted
  PROVE  /\ Chosen \in Symbols
         /\ Chosen \notin Names(ctx.positions) /\ Chosen \notin ctx.pending
         /\ Bought \in OrderType /\ Bought.underlying = Chosen
         /\ DirectionalBalance(Bought, ctx)
         /\ Cost(Bought) + Committed(ctx) <= ctx.buying_power
         /\ NewPosition \in PositionType
         /\ NewPosition.underlying = Chosen /\ NewPosition.right = "call"
         /\ NewPosition.quantity \in Nat /\ NewPosition.price \in Nat
         /\ Cost(Bought) = NewPosition.quantity * NewPosition.price
         /\ ctx'.positions = ctx.positions \cup {NewPosition} /\ ctx'.pending = ctx.pending
         /\ ctx'.equity = ctx.equity /\ ctx'.buying_power = ctx.buying_power
         /\ ctx' \in [equity : Nat, buying_power : Int,
                      positions : SUBSET PositionType, pending : SUBSET Symbols]
         /\ IsFiniteSet(ctx'.positions)
         /\ Committed(ctx') = Committed(ctx) + NewPosition.quantity * NewPosition.price
<1>1. /\ pc = "walk" /\ slate # <<>> /\ Screen(Chosen, ctx) /\ DecideEntry(Chosen) > 0
      /\ ctx' = [ctx EXCEPT !.positions = @ \cup {NewPosition}]
  BY DEF BuyAccepted, StillFits, WithNewPosition, Chosen, Bought, NewPosition
<1>3. Chosen \in DOMAIN offers /\ Chosen \in Symbols
  <2>1. Splits(slate, Symbols, Chosen, Tail(slate))
    BY <1>1, HeadAndTail DEF WalkInv, SlateInv, Chosen
  <2>2. Chosen \in ToSet(slate)
    BY <2>1 DEF Splits
  <2> QED
    BY <1>1, <2>2 DEF WalkInv, SlateInv, TypeOK
<1>4. /\ Bought \in OrderType /\ Bought.underlying = Chosen
      /\ DirectionalBalance(Bought, ctx)
      /\ Cost(Bought) + Committed(ctx) <= ctx.buying_power
  BY <1>1, <1>3, DecidedDraft DEF Bought
<1>5. /\ NewPosition \in PositionType
      /\ NewPosition.underlying = Chosen /\ NewPosition.right = "call"
      /\ NewPosition.quantity \in Nat /\ NewPosition.price \in Nat
      /\ Cost(Bought) = NewPosition.quantity * NewPosition.price
  <2>1. Bought.limit \in Nat /\ Bought.quantity \in 1 .. MaxContracts /\ MaxContracts \in Nat
    BY <1>4, BookAssumption DEF OrderType
  <2> QED
    BY <1>3, <1>4, <2>1 DEF PositionType, Rights, Cost, NewPosition
<1>6. /\ ctx \in [equity : Nat, buying_power : Int,
                 positions : SUBSET PositionType, pending : SUBSET Symbols]
      /\ IsFiniteSet(ctx.positions)
  BY DEF WalkInv, TypeOK
<1>7. /\ ctx'.positions = ctx.positions \cup {NewPosition} /\ ctx'.pending = ctx.pending
      /\ ctx'.buying_power = ctx.buying_power /\ ctx'.equity = ctx.equity
      /\ ctx' \in [equity : Nat, buying_power : Int,
                  positions : SUBSET PositionType, pending : SUBSET Symbols]
  BY <1>1, <1>5, <1>6
<1>8. /\ Chosen \notin Names(ctx.positions) /\ Chosen \notin ctx.pending
      /\ NewPosition \notin ctx.positions
  BY <1>1, <1>5 DEF Screen, NotAlreadyHeld, Holds, Names
<1>9. IsFiniteSet(ctx'.positions)
  BY <1>6, <1>7, FS_AddElement
<1>10. Committed(ctx') = Committed(ctx) + NewPosition.quantity * NewPosition.price
  <2>1. Priced(ctx.positions)
    BY <1>6, PositionsArePriced
  <2>2. MapThenSumSet(LAMBDA p : p.quantity * p.price, ctx'.positions) =
          MapThenSumSet(LAMBDA p : p.quantity * p.price, ctx.positions)
            + NewPosition.quantity * NewPosition.price
    BY <1>5, <1>7, <1>8, <2>1, CommittedOfOneMore
  <2> QED
    BY <2>2 DEF Committed
<1> QED
  BY <1>3, <1>4, <1>5, <1>7, <1>8, <1>9, <1>10

\* An accepted order is paid for and within the caps, and the context the walk goes
\* on with accounts for it (loop.py 628-674).
LEMMA BuyAcceptedKeeps ==
  ASSUME WalkInv, BuyAccepted
  PROVE  WalkInv'
<1> DEFINE s == Chosen
           draft == Bought
           x == NewPosition
<1>1. /\ pc = "walk" /\ slate # <<>> /\ Screen(s, ctx) /\ DecideEntry(s) > 0
      /\ orders' = orders \cup {draft} /\ cash' = cash - Cost(draft)
      /\ ctx' = [ctx EXCEPT !.positions = @ \cup {x}]
      /\ Walked /\ book' = book
  BY DEF BuyAccepted, StillFits, WithNewPosition, Chosen, Bought, NewPosition
<1>2. /\ pc' = pc /\ offers' = offers /\ approved' = approved /\ ranked' = ranked
      /\ rested' = rested
  BY <1>1 DEF Walked
<1>3. /\ s \in Symbols /\ s \notin Names(ctx.positions) /\ s \notin ctx.pending
      /\ draft \in OrderType /\ draft.underlying = s
      /\ DirectionalBalance(draft, ctx)
      /\ Cost(draft) + Committed(ctx) <= ctx.buying_power
      /\ x \in PositionType /\ x.underlying = s /\ x.right = "call"
      /\ x.quantity \in Nat /\ x.price \in Nat /\ Cost(draft) = x.quantity * x.price
      /\ ctx'.positions = ctx.positions \cup {x} /\ ctx'.pending = ctx.pending
      /\ ctx'.equity = ctx.equity /\ ctx'.buying_power = ctx.buying_power
      /\ ctx' \in [equity : Nat, buying_power : Int,
                   positions : SUBSET PositionType, pending : SUBSET Symbols]
      /\ IsFiniteSet(ctx'.positions)
      /\ Committed(ctx') = Committed(ctx) + x.quantity * x.price
  BY OneOrderMore
<1> HIDE DEF s, draft, x
<1>c. IsFiniteSet(ctx.positions)
  BY DEF WalkInv
<1>9. s \notin Names(Held)
  BY <1>1, <1>3 DEF WalkInv, NamesInv
<1>10. Held' = Held \cup {draft}
  BY <1>1 DEF Held
<1>11. IsFiniteSet(Held') /\ IsFiniteSet(ctx.positions')
  BY <1>c, <1>3, <1>10, BookTypes, FS_AddElement
<1>12. NamesInv'
  <2>1. OneEach(Held')
    BY <1>3, <1>9, <1>10, BookTypes DEF OneEach, Names
  <2>2. Names(Held') \subseteq Names(ctx'.positions) \cup ctx'.pending
    <3>1. Names(Held) \subseteq Names(ctx.positions) \cup ctx.pending
      BY <1>1 DEF WalkInv, NamesInv
    <3>2. Names(Held') = Names(Held) \cup {s}
      BY <1>3, <1>10 DEF Names
    <3>3. Names(ctx'.positions) = Names(ctx.positions) \cup {s}
      BY <1>3 DEF Names
    <3> QED
      BY <1>3, <3>1, <3>2, <3>3
  <2> QED
    BY <2>1, <2>2 DEF NamesInv, OneEach
<1>13. CashInv'
  <2>1. Committed(ctx') = Committed(ctx) + x.quantity * x.price
    BY <1>3
  <2>2. Committed(ctx) \in Nat /\ ctx.buying_power \in Int
    BY ContextIsTyped
  <2>3. Cost(draft) \in Nat
    BY <1>3
  <2>4. cash \in Nat /\ ctx.buying_power - Committed(ctx) <= cash
    BY <1>1 DEF WalkInv, CashInv
  <2>5. Cost(draft) <= cash
    BY <1>3, <2>2, <2>3, <2>4
  <2>6. cash' \in Nat
    BY <1>1, <2>3, <2>4, <2>5
  <2>7. Committed(ctx') = Committed(ctx) + Cost(draft)
    BY <1>3, <2>1
  <2>8. ctx.buying_power - Committed(ctx') <= cash'
    BY <1>1, <2>2, <2>3, <2>4, <2>7
  <2> QED
    BY <1>3, <2>6, <2>8 DEF CashInv
<1>14. CapsInv'
  <2> SUFFICES ASSUME ~ rested
               PROVE  /\ Cardinality(Names(Pointing("call", Held'))) <= MaxSameDirection
                      /\ \A g \in Symbols : Group[g] # Ungrouped =>
                           Cardinality(Names(InGroupOf(g, Held'))) <= MaxPerGroup
                      /\ Names(Held') \subseteq Names(ctx'.positions)
                      /\ Names(Pointing("call", Held'))
                           \subseteq Names(Pointing("call", ctx'.positions))
    BY <1>2 DEF CapsInv
  <2>1. /\ Cardinality(Names(Pointing("call", Held))) <= MaxSameDirection
        /\ \A g \in Symbols : Group[g] # Ungrouped =>
             Cardinality(Names(InGroupOf(g, Held))) <= MaxPerGroup
        /\ Names(Held) \subseteq Names(ctx.positions)
        /\ Names(Pointing("call", Held)) \subseteq Names(Pointing("call", ctx.positions))
    BY <1>1 DEF WalkInv, CapsInv
  <2>2. MaxSameDirection \in Nat /\ MaxPerGroup \in Nat
    BY BookAssumption
  <2>3. Cardinality(Names(Pointing("call", Held'))) <= MaxSameDirection
    <3>1. CASE draft.right = "call"
      <4>1. Names(Pointing("call", Held')) = Names(Pointing("call", Held)) \cup {s}
        BY <1>3, <1>10, <3>1 DEF Names, Pointing
      <4>2. Cardinality(Pointing("call", ctx.positions)) < MaxSameDirection
        BY <1>3, <3>1 DEF DirectionalBalance
      <4>3. IsFiniteSet(Pointing("call", ctx.positions))
        BY <1>c, FS_Subset DEF Pointing
      <4> QED
        BY <2>1, <2>2, <4>1, <4>2, <4>3, OneNameMore
    <3>2. CASE draft.right # "call"
      <4>1. Pointing("call", Held') = Pointing("call", Held)
        BY <1>10, <3>2 DEF Pointing
      <4> QED
        BY <2>1, <4>1
    <3> QED
      BY <3>1, <3>2
  <2>4. ASSUME NEW g \in Symbols, Group[g] # Ungrouped
        PROVE  Cardinality(Names(InGroupOf(g, Held'))) <= MaxPerGroup
    <3>1. CASE Group[g] = Group[s]
      <4>1. Names(InGroupOf(g, Held')) = Names(InGroupOf(g, Held)) \cup {s}
        BY <1>3, <1>10, <3>1 DEF Names, InGroupOf
      <4>2. Cardinality(InGroupOf(g, ctx.positions)) < MaxPerGroup
        BY <1>1, <2>4, <3>1 DEF Screen, SectorConcentration, InGroupOf
      <4>3. IsFiniteSet(InGroupOf(g, ctx.positions))
        BY <1>c, FS_Subset DEF InGroupOf
      <4>4. Names(InGroupOf(g, Held)) \subseteq Names(InGroupOf(g, ctx.positions))
        BY <2>1 DEF Names, InGroupOf
      <4> QED
        BY <2>2, <4>1, <4>2, <4>3, <4>4, OneNameMore
    <3>2. CASE Group[g] # Group[s]
      <4>1. InGroupOf(g, Held') = InGroupOf(g, Held)
        BY <1>3, <1>10, <3>2 DEF InGroupOf
      <4> QED
        BY <2>1, <2>4, <4>1
    <3> QED
      BY <3>1, <3>2
  <2>5. Names(Held') \subseteq Names(ctx'.positions)
    <3>1. Names(Held') = Names(Held) \cup {s}
      BY <1>3, <1>10 DEF Names
    <3>2. Names(ctx'.positions) = Names(ctx.positions) \cup {s}
      BY <1>3 DEF Names
    <3> QED
      BY <2>1, <3>1, <3>2
  <2>6. Names(Pointing("call", Held')) \subseteq Names(Pointing("call", ctx'.positions))
    <3>1. Names(Pointing("call", Held')) \subseteq Names(Pointing("call", Held)) \cup {s}
      BY <1>3, <1>10 DEF Names, Pointing
    <3>2. Names(Pointing("call", ctx'.positions)) =
            Names(Pointing("call", ctx.positions)) \cup {s}
      BY <1>3 DEF Names, Pointing
    <3> QED
      BY <2>1, <3>1, <3>2
  <2> QED
    BY <2>3, <2>4, <2>5, <2>6
<1>15. /\ ToSet(slate') \subseteq Symbols /\ walked' \subseteq Symbols
       /\ SlateInv' /\ RankInv'
  BY <1>1, WalkedKeepsTheSlate
<1>16. TypeOK'
  <2>1. cash' \in Int
    BY <1>13 DEF CashInv
  <2>2. book' \subseteq PositionType /\ orders' \subseteq OrderType
    BY <1>1, <1>3, BookTypes
  <2> QED
    BY <1>2, <1>3, <1>15, <2>1, <2>2 DEF WalkInv, TypeOK
<1> QED
  BY <1>11, <1>12, <1>13, <1>14, <1>15, <1>16 DEF WalkInv

-----------------------------------------------------------------------------
(***************************************************************************)
(* The theorems.                                                           *)
(***************************************************************************)
LEMMA StepsKeep ==
  ASSUME WalkInv, [Next]_vars
  PROVE  WalkInv'
<1>1. CASE ReadAccount
  BY <1>1, ReadAccountKeeps
<1>2. CASE GatherAndReason
  BY <1>2, GatherAndReasonKeeps
<1>3. ASSUME NEW answer \in Answers, OrderTheSlate(answer)
      PROVE  WalkInv'
  BY <1>3, OrderTheSlateKeeps
<1>4. CASE RefusedOnTheWalk
  BY <1>4, NothingBoughtKeeps DEF RefusedOnTheWalk
<1>5. CASE BuyAccepted
  BY <1>5, BuyAcceptedKeeps
<1>6. CASE BuyRefused
  BY <1>6, NothingBoughtKeeps DEF BuyRefused
<1>7. CASE Finish
  BY <1>7, FinishKeeps
<1>8. ASSUME NEW o \in orders, Fills(o)
      PROVE  WalkInv'
  BY <1>8, FillsKeeps
<1>9. ASSUME NEW o \in orders, IsGone(o)
      PROVE  WalkInv'
  BY <1>9, IsGoneKeeps
<1>10. ASSUME NEW p \in book, Closes(p)
       PROVE  WalkInv'
  BY <1>10, ClosesKeeps
<1>11. ASSUME NEW p \in book, NEW price \in Prices, MarkMoves(p, price)
       PROVE  WalkInv'
  BY <1>11, MarkMovesKeeps
<1>12. CASE UNCHANGED vars
  <2>1. /\ UNCHANGED passVars /\ book' = book /\ orders' = orders /\ cash' = cash
    BY <1>12 DEF vars, brokerVars
  <2>2. Held' = Held
    BY <2>1 DEF Held
  <2>3. NothingNew(Held', Held)
    BY <2>2 DEF NothingNew
  <2> QED
    BY <2>1, <2>2, <2>3, BookTypes, BrokerKeeps
<1> QED
  BY <1>1, <1>2, <1>3, <1>4, <1>5, <1>6, <1>7, <1>8, <1>9, <1>10, <1>11, <1>12
     DEF Next, PassStep, BrokerMoves

\* What `decide_entry` answers is a size.
LEMMA DecisionIsASize ==
  ASSUME WalkInv, NEW s \in DOMAIN offers
  PROVE  DecideEntry(s) \in Nat
<1>1. CASE offers[s] # NoOffer /\ WorthSizing(offers[s])
  <2>1. DecideEntry(s) = Authorise(DraftFor(s), ctx)
    BY <1>1 DEF DecideEntry
  <2>2. DraftFor(s) \in [underlying : Symbols, right : Rights, quantity : Nat, limit : Int]
    BY <1>1, DraftIsTyped
  <2>3. ctx.equity \in Int /\ ctx.buying_power \in Int /\ Committed(ctx) \in Nat
    BY ContextIsTyped
  <2> QED
    BY <2>1, <2>2, <2>3, AuthorisedIsPaidFor
<1>2. CASE ~(offers[s] # NoOffer /\ WorthSizing(offers[s]))
  BY <1>2 DEF DecideEntry
<1> QED
  BY <1>1, <1>2

\* After an accepted order the gates let through no more than before it.
LEMMA BuyingFillsTheBook ==
  ASSUME WalkInv, BuyAccepted, NEW s \in DOMAIN offers,
         offers[s] # NoOffer, WorthSizing(offers[s])
  PROVE  /\ Authorise(DraftFor(s), ctx') \in Nat
         /\ Authorise(DraftFor(s), ctx') <= Authorise(DraftFor(s), ctx)
<1> DEFINE x == NewPosition
<1>1. /\ x.quantity \in Nat /\ x.price \in Nat
      /\ ctx'.positions = ctx.positions \cup {x}
      /\ ctx'.equity = ctx.equity /\ ctx'.buying_power = ctx.buying_power
      /\ IsFiniteSet(ctx'.positions)
      /\ Committed(ctx') = Committed(ctx) + x.quantity * x.price
  BY OneOrderMore
<1> HIDE DEF x
<1>2. DraftFor(s) \in [underlying : Symbols, right : Rights, quantity : Nat, limit : Int]
  BY DraftIsTyped
<1>3. ctx.equity \in Int /\ ctx.buying_power \in Int /\ Committed(ctx) \in Nat
  BY ContextIsTyped
<1>4. x.quantity * x.price \in Nat
  BY <1>1
<1>5. Committed(ctx') \in Nat /\ Committed(ctx) <= Committed(ctx')
  BY <1>1, <1>3, <1>4
<1>6. ctx.positions \subseteq ctx'.positions
  BY <1>1
<1>7. Authorise(DraftFor(s), ctx') \in Nat
  BY <1>1, <1>2, <1>3, <1>5, AuthorisedIsPaidFor
<1> QED
  BY <1>1, <1>2, <1>3, <1>5, <1>6, <1>7, FullerBooksBuyLess

\* Within a walk the context only fills, so what was turned away stays turned away.
LEMMA TurnedAwayStep ==
  ASSUME WalkInv, TurnedAwayForGood, [Next]_vars
  PROVE  TurnedAwayForGood'
<1> SUFFICES ASSUME pc' = "walk", NEW s \in DOMAIN offers' \ approved'
             PROVE  DecideEntry(s)' = 0
  BY DEF TurnedAwayForGood
<1>1. ASSUME UNCHANGED <<ctx, offers>> PROVE DecideEntry(s)' = DecideEntry(s)
  BY <1>1 DEF DecideEntry, DraftFor
<1>2. ASSUME NEW answer \in Answers, OrderTheSlate(answer)
      PROVE  DecideEntry(s)' = 0
  <2>1. s \in DOMAIN offers /\ ~(DecideEntry(s) > 0) /\ UNCHANGED <<ctx, offers>>
    BY <1>2 DEF OrderTheSlate
  <2>2. DecideEntry(s) \in Nat
    BY <2>1, DecisionIsASize
  <2> QED
    BY <1>1, <2>1, <2>2
<1>3. CASE BuyAccepted
  <2>1. pc = "walk" /\ offers' = offers /\ approved' = approved
    BY <1>3 DEF BuyAccepted, Walked
  <2>2. s \in DOMAIN offers /\ DecideEntry(s) = 0
    BY <2>1 DEF TurnedAwayForGood
  <2>3. CASE offers[s] # NoOffer /\ WorthSizing(offers[s])
    <3>1. /\ DecideEntry(s) = Authorise(DraftFor(s), ctx)
          /\ DecideEntry(s)' = Authorise(DraftFor(s), ctx')
      BY <2>1, <2>3 DEF DecideEntry, DraftFor
    <3>2. /\ Authorise(DraftFor(s), ctx') \in Nat
          /\ Authorise(DraftFor(s), ctx') <= Authorise(DraftFor(s), ctx)
      BY <1>3, <2>2, <2>3, BuyingFillsTheBook
    <3> QED
      BY <2>2, <3>1, <3>2
  <2>4. CASE ~(offers[s] # NoOffer /\ WorthSizing(offers[s]))
    BY <2>1, <2>4 DEF DecideEntry
  <2> QED
    BY <2>3, <2>4
<1>4. ASSUME pc' = pc, UNCHANGED <<ctx, offers, approved>>
      PROVE  DecideEntry(s)' = 0
  BY <1>1, <1>4 DEF TurnedAwayForGood
<1>5. CASE RefusedOnTheWalk \/ BuyRefused \/ BrokerMoves \/ UNCHANGED vars
  <2>1. pc' = pc /\ UNCHANGED <<ctx, offers, approved>>
    BY <1>5 DEF RefusedOnTheWalk, BuyRefused, Walked, BrokerMoves, Fills, IsGone, Closes,
                MarkMoves, passVars, vars
  <2> QED
    BY <1>4, <2>1
<1>6. ~(ReadAccount \/ GatherAndReason \/ Finish)
  BY DEF ReadAccount, GatherAndReason, Finish
<1> QED
  BY <1>2, <1>3, <1>5, <1>6 DEF Next, PassStep

\* The parts of WalkInv hold together in every state.
THEOREM WalkInvariance == Spec => []WalkInv
<1>1. Init => WalkInv
  BY InitEstablishes
<1>2. WalkInv /\ [Next]_vars => WalkInv'
  BY StepsKeep
<1> QED
  BY <1>1, <1>2, PTL DEF Spec

\* Type correctness.
THEOREM WalkTypeCorrect == Spec => []TypeOK
<1>1. WalkInv => TypeOK
  BY DEF WalkInv
<1> QED
  BY <1>1, WalkInvariance, PTL

\* A walk never spends more than there is, however many orders it sends
\* (gates.py 545-573, loop.py 671-674).
THEOREM BookIsPaidFor == Spec => []OrdersArePaidFor
<1>1. WalkInv => OrdersArePaidFor
  BY DEF WalkInv, CashInv, OrdersArePaidFor
<1> QED
  BY <1>1, WalkInvariance, PTL

\* A correlation group never holds more than max_per_group, as long as no pass
\* starts with an order resting (gates.py 198-232).
THEOREM GroupsKeepTheirShare == Spec => []GroupsRespected
<1>1. ASSUME WalkInv, ~ rested, NEW s \in Symbols, Group[s] # Ungrouped
      PROVE  Cardinality(InGroupOf(s, book \cup orders)) <= MaxPerGroup
  <2>1. IsFiniteSet(InGroupOf(s, Held)) /\ OneEach(InGroupOf(s, Held))
    BY <1>1, BookTypes, FS_Subset DEF InGroupOf, OneEach
  <2>2. Cardinality(Names(InGroupOf(s, Held))) = Cardinality(InGroupOf(s, Held))
    BY <2>1, NamesAreCounted DEF OneEach
  <2>3. Cardinality(Names(InGroupOf(s, Held))) <= MaxPerGroup
    BY <1>1 DEF WalkInv, CapsInv
  <2> QED
    BY <2>2, <2>3 DEF Held
<1>2. WalkInv => GroupsRespected
  BY <1>1 DEF GroupsRespected
<1> QED
  BY <1>2, WalkInvariance, PTL

\* Under the same condition there are never more than max_same_direction calls
\* (gates.py 419-445).
THEOREM CallsKeepTheirCap == Spec => []CallsAreCapped
<1>1. ASSUME WalkInv, ~ rested
      PROVE  Cardinality(Pointing("call", book \cup orders)) <= MaxSameDirection
  <2>1. IsFiniteSet(Pointing("call", Held)) /\ OneEach(Pointing("call", Held))
    BY <1>1, BookTypes, FS_Subset DEF Pointing, OneEach
  <2>2. Cardinality(Names(Pointing("call", Held))) = Cardinality(Pointing("call", Held))
    BY <2>1, NamesAreCounted DEF OneEach
  <2>3. Cardinality(Names(Pointing("call", Held))) <= MaxSameDirection
    BY <1>1 DEF WalkInv, CapsInv
  <2> QED
    BY <2>2, <2>3 DEF Held
<1>2. WalkInv => CallsAreCapped
  BY <1>1 DEF CallsAreCapped
<1> QED
  BY <1>2, WalkInvariance, PTL

\* Who was turned away as the only trade would be turned away for the rest of the
\* walk (loop.py 569-585): authorising one by one loses no trade.
THEOREM TurnedAwayStay == Spec => []TurnedAwayForGood
<1>1. Init => TurnedAwayForGood
  BY DEF Init, TurnedAwayForGood
<1>2. WalkInv /\ TurnedAwayForGood /\ [Next]_vars => TurnedAwayForGood'
  BY TurnedAwayStep
<1> QED
  BY <1>1, <1>2, WalkInvariance, PTL DEF Spec

\* Where no symbol is listed twice, selection forgets nobody, and nobody is walked
\* twice (selector.py 154-179).
THEOREM EveryNameIsWalkedOnce ==
  ASSUME ListedOnce
  PROVE  Spec => []NobodyIsForgotten
<1>1. WalkInv => NobodyIsForgotten
  BY ListedOnce DEF WalkInv, SlateInv, NobodyIsForgotten
<1> QED
  BY <1>1, WalkInvariance, PTL

\* Where conviction gives the order, nobody is walked before one of more conviction
\* (loop.py 563-567, selector.py 182-184).
THEOREM WeakestGoWithout == Spec => []WeakestMissOut
<1>1. WalkInv => WeakestMissOut
  BY DEF WalkInv, RankInv, WeakestMissOut
<1> QED
  BY <1>1, WalkInvariance, PTL

\* Where no reply is cut off in the middle of a draft or says NaN, only what a model
\* thought through and put a number to is traded (models.py 13-20, proposer.py
\* 18-26).
THEOREM TradesAreStatedViews ==
  ASSUME RepliesAreWhole
  PROVE  Spec => []OnlyStatedViewsTrade
<1>1. ASSUME WalkInv, pc = "walk", NEW s \in approved
      PROVE  StatesAView(offers[s].reply, offers[s].right)
  <2>1. s \in DOMAIN offers /\ offers[s] # NoOffer /\ WorthSizing(offers[s])
    BY <1>1 DEF WalkInv, SlateInv
  <2>2. offers[s] \in Offers /\ offers[s].confidence > 0
    BY <1>1, <2>1 DEF WalkInv, TypeOK, WorthSizing
  <2> QED
    BY <2>2, RepliesAreWhole, ViewsAreStated
<1>2. WalkInv => OnlyStatedViewsTrade
  BY <1>1 DEF OnlyStatedViewsTrade
<1> QED
  BY <1>2, WalkInvariance, PTL

=============================================================================
