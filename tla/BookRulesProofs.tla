--------------------------- MODULE BookRulesProofs ---------------------------
(***************************************************************************)
(* What the sums and the size gates of BookRules answer, for every book.   *)
(*                                                                         *)
(* A sum over a set is a recursive function, of which nothing can be shown *)
(* by the induction theorems of the library; what it adds up is shown to   *)
(* be a cardinality instead, by looking at a smallest subset for which it  *)
(* would not be.                                                           *)
(***************************************************************************)
EXTENDS BookRules, FiniteSetTheorems, TLAPS

\* Every set of naturals has a least one.
LEMMA LeastNumber ==
  ASSUME NEW T \in SUBSET Nat, T # {}
  PROVE  \E n \in T : \A k \in T : n <= k
<1> DEFINE Smaller == {ss \in Nat \X Nat : ss[1] < ss[2]}
<1>1. IsWellFoundedOn(Smaller, Nat)
  BY NatLessThanWellFounded DEF OpToRel
<1>2. \A n, k \in Nat : <<k, n>> \notin Smaller => n <= k
  BY SMT
<1> HIDE DEF Smaller
<1>3. \E n \in T : \A k \in T : ~ (<<k, n>> \in Smaller)
  BY <1>1, WFMin
<1> QED
  BY <1>2, <1>3

\* Of the subsets of a finite set that have something in common, one has no
\* smaller one below it.
LEMMA SmallestSubset ==
  ASSUME NEW S, IsFiniteSet(S), NEW Bad \in SUBSET SUBSET S, Bad # {}
  PROVE  \E m \in Bad : \A s \in Bad : s \subseteq m => s = m
<1> DEFINE Sizes == {Cardinality(s) : s \in Bad}
<1>1. \A s \in Bad : IsFiniteSet(s) /\ Cardinality(s) \in Nat
  BY FS_Subset, FS_CardinalityType
<1>2. \E n \in Sizes : \A k \in Sizes : n <= k
  <2>1. Sizes \in SUBSET Nat /\ Sizes # {}
    BY <1>1
  <2> HIDE DEF Sizes
  <2> QED
    BY <2>1, LeastNumber
<1>3. PICK m \in Bad : \A s \in Bad : Cardinality(m) <= Cardinality(s)
  BY <1>2
<1>4. ASSUME NEW s \in Bad, s \subseteq m
      PROVE  s = m
  <2>1. Cardinality(s) <= Cardinality(m) /\ (Cardinality(m) = Cardinality(s) => m = s)
    BY <1>1, <1>4, FS_Subset
  <2> QED
    BY <1>1, <1>3, <2>1
<1> QED
  BY <1>4

\* One for each dollar that the elements of S cost.
Dollars(S, cost) == {d \in S \X Nat : d[2] \in 1 .. cost[d[1]]}

\* One element more adds its cost.
LEMMA DollarsOfOneMore ==
  ASSUME NEW D, NEW cost \in [D -> Nat],
         NEW S \in SUBSET D, IsFiniteSet(Dollars(S, cost)), NEW x \in D \ S,
         NEW T, T = S \cup {x}
  PROVE  /\ IsFiniteSet(Dollars(T, cost))
         /\ Cardinality(Dollars(T, cost)) = Cardinality(Dollars(S, cost)) + cost[x]
<1> DEFINE One == Dollars({x}, cost)
           count == [k \in 1 .. cost[x] |-> <<x, k>>]
<1>1. cost[x] \in Nat
  OBVIOUS
<1>2. IsFiniteSet(1 .. cost[x]) /\ Cardinality(1 .. cost[x]) = cost[x]
  BY <1>1, FS_Interval
<1>3. count \in Bijection(1 .. cost[x], One)
  <2>1. count \in [1 .. cost[x] -> One]
    BY <1>1 DEF Dollars
  <2>2. \A k, l \in 1 .. cost[x] : count[k] = count[l] => k = l
    OBVIOUS
  <2>3. \A d \in One : \E k \in 1 .. cost[x] : count[k] = d
    BY DEF Dollars
  <2> QED
    BY <2>1, <2>2, <2>3 DEF Bijection, Injection, Surjection, IsInjective
<1>4. IsFiniteSet(One) /\ Cardinality(One) = cost[x]
  BY <1>2, <1>3, FS_Bijection DEF ExistsBijection
<1>5. Dollars(T, cost) = Dollars(S, cost) \cup One
  BY DEF Dollars
<1>6. Dollars(S, cost) \cap One = {}
  BY DEF Dollars
<1> HIDE DEF One
<1>7. Cardinality(Dollars(S, cost)) \in Nat
  BY FS_CardinalityType
<1>8. /\ IsFiniteSet(Dollars(S, cost) \cup One)
      /\ Cardinality(Dollars(S, cost) \cup One) =
           Cardinality(Dollars(S, cost)) + Cardinality(One)
             - Cardinality(Dollars(S, cost) \cap One)
  BY <1>4, FS_Union
<1>9. Cardinality(Dollars(S, cost) \cap One) = 0
  BY <1>6, FS_EmptySet
<1>10. IsFiniteSet(Dollars(T, cost))
  BY <1>5, <1>8
<1>11. Cardinality(Dollars(T, cost)) = Cardinality(Dollars(S, cost) \cup One)
  BY <1>5
<1> QED
  BY <1>1, <1>4, <1>7, <1>8, <1>9, <1>10, <1>11

\* Nothing costs nothing.
LEMMA NoDollars ==
  ASSUME NEW cost
  PROVE  IsFiniteSet(Dollars({}, cost)) /\ Cardinality(Dollars({}, cost)) = 0
<1>1. Dollars({}, cost) = {}
  BY DEF Dollars
<1> QED
  BY <1>1, FS_EmptySet

\* What finitely many elements cost is finite.
LEMMA DollarsAreFinite ==
  ASSUME NEW D, NEW cost \in [D -> Nat], NEW S \in SUBSET D, IsFiniteSet(S)
  PROVE  IsFiniteSet(Dollars(S, cost)) /\ Cardinality(Dollars(S, cost)) \in Nat
<1> DEFINE Bad == {s \in SUBSET S : ~ IsFiniteSet(Dollars(s, cost))}
<1>1. ASSUME Bad # {}
      PROVE  FALSE
  <2>1. PICK m \in Bad : \A s \in Bad : s \subseteq m => s = m
    <3>1. Bad \in SUBSET SUBSET S
      OBVIOUS
    <3> HIDE DEF Bad
    <3> QED
      BY <1>1, <3>1, SmallestSubset
  <2>2. PICK x \in m : TRUE
    BY <2>1, NoDollars
  <2>3. IsFiniteSet(Dollars(m \ {x}, cost))
    BY <2>1, <2>2
  <2>4. m = (m \ {x}) \cup {x} /\ x \in D \ (m \ {x}) /\ m \ {x} \in SUBSET D
    BY <2>1, <2>2
  <2>5. IsFiniteSet(Dollars(m, cost))
    BY <2>3, <2>4, DollarsOfOneMore
  <2> QED
    BY <2>1, <2>5
<1> QED
  BY <1>1, FS_CardinalityType

\* The element that a sum takes next.
First(s) == CHOOSE x \in s : TRUE

\* It starts from nothing, and adds one element after the other.
SumsUp(sum, S, cost) ==
  \A s \in SUBSET S :
    sum[s] = IF s = {} THEN 0 ELSE cost[First(s)] + sum[s \ {First(s)}]

\* Adding up one element after another counts the dollars.
LEMMA SumsCountDollars ==
  ASSUME NEW D, NEW cost \in [D -> Nat], NEW S \in SUBSET D, IsFiniteSet(S),
         NEW sum, SumsUp(sum, S, cost)
  PROVE  sum[S] = Cardinality(Dollars(S, cost))
<1> DEFINE Bad == {s \in SUBSET S : sum[s] # Cardinality(Dollars(s, cost))}
<1>1. ASSUME Bad # {}
      PROVE  FALSE
  <2>1. PICK m \in Bad : \A s \in Bad : s \subseteq m => s = m
    <3>1. Bad \in SUBSET SUBSET S
      OBVIOUS
    <3> HIDE DEF Bad
    <3> QED
      BY <1>1, <3>1, SmallestSubset
  <2>2. m # {}
    <3>1. sum[{}] = 0
      BY DEF SumsUp
    <3> QED
      BY <2>1, <3>1, NoDollars
  <2> DEFINE x == First(m)
  <2>3. x \in m
    BY <2>2 DEF First
  <2>4. sum[m] = cost[x] + sum[m \ {x}]
    BY <2>1, <2>2 DEF SumsUp
  <2> HIDE DEF x
  <2>5. sum[m \ {x}] = Cardinality(Dollars(m \ {x}, cost))
    BY <2>1, <2>3
  <2>6. /\ IsFiniteSet(m \ {x})
        /\ m \ {x} \in SUBSET D /\ x \in D \ (m \ {x})
        /\ m = (m \ {x}) \cup {x}
    BY <2>1, <2>3, FS_Subset
  <2>7. IsFiniteSet(Dollars(m \ {x}, cost)) /\ Cardinality(Dollars(m \ {x}, cost)) \in Nat
    BY <2>6, DollarsAreFinite
  <2>8. Cardinality(Dollars(m, cost)) =
          Cardinality(Dollars(m \ {x}, cost)) + cost[x]
    BY <2>6, <2>7, DollarsOfOneMore
  <2>9. cost[x] \in Nat
    BY <2>6
  <2>10. sum[m] # Cardinality(Dollars(m, cost))
    BY <2>1
  <2> QED
    BY <2>4, <2>5, <2>7, <2>8, <2>9, <2>10
<1> QED
  BY <1>1

\* There is such a function: the one that counts the dollars.
LEMMA CountingSumsUp ==
  ASSUME NEW S, IsFiniteSet(S), NEW cost \in [S -> Nat],
         NEW count, count = [s \in SUBSET S |-> Cardinality(Dollars(s, cost))]
  PROVE  SumsUp(count, S, cost)
<1> SUFFICES ASSUME NEW s \in SUBSET S, s # {}
             PROVE  count[s] = cost[First(s)] + count[s \ {First(s)}]
  BY NoDollars DEF SumsUp
<1> DEFINE x == First(s)
<1>1. x \in s
  BY DEF First
<1> HIDE DEF x
<1>2. /\ IsFiniteSet(s \ {x}) /\ s \ {x} \in SUBSET S
      /\ x \in S \ (s \ {x})
      /\ s = (s \ {x}) \cup {x}
  BY <1>1, FS_Subset
<1>3. IsFiniteSet(Dollars(s \ {x}, cost)) /\ Cardinality(Dollars(s \ {x}, cost)) \in Nat
  BY <1>2, DollarsAreFinite
<1>4. Cardinality(Dollars(s, cost)) = Cardinality(Dollars(s \ {x}, cost)) + cost[x]
  BY <1>2, <1>3, DollarsOfOneMore
<1>5. cost[x] \in Nat
  BY <1>2
<1>6. count[s] = Cardinality(Dollars(s, cost))
  OBVIOUS
<1>7. count[s \ {x}] = Cardinality(Dollars(s \ {x}, cost))
  BY <1>2
<1> QED
  BY <1>3, <1>4, <1>5, <1>6, <1>7 DEF x

\* So what `committed` adds up is the number of dollars the entries have cost
\* (gates.py 80-120).
LEMMA CommittedCountsDollars ==
  ASSUME NEW S, IsFiniteSet(S), NEW cost, cost \in [S -> Nat],
         \A p \in S : cost[p] = p.quantity * p.price
  PROVE  MapThenSumSet(LAMBDA p : p.quantity * p.price, S) =
           Cardinality(Dollars(S, cost))
<1> DEFINE Sums(iter) ==
             iter = [s \in SUBSET S |->
                       IF s = {} THEN 0
                       ELSE First(s).quantity * First(s).price
                              + iter[s \ {First(s)}]]
           sum == CHOOSE iter : Sums(iter)
           count == [s \in SUBSET S |-> Cardinality(Dollars(s, cost))]
<1>1. MapThenSumSet(LAMBDA p : p.quantity * p.price, S) = sum[S]
  BY DEF MapThenSumSet, MapThenFoldSet, First
<1>2. \A s \in SUBSET S : s # {} =>
        cost[First(s)] = First(s).quantity * First(s).price
  BY DEF First
<1>3. Sums(count)
  <2>1. SumsUp(count, S, cost)
    <3>1. count = [s \in SUBSET S |-> Cardinality(Dollars(s, cost))]
      OBVIOUS
    <3> HIDE DEF count, Sums, sum
    <3> QED
      BY <3>1, CountingSumsUp
  <2>2. count = [s \in SUBSET S |-> count[s]]
    OBVIOUS
  <2> HIDE DEF count
  <2> QED
    BY <1>2, <2>1, <2>2 DEF SumsUp
<1>4. Sums(sum)
  <2> HIDE DEF Sums, count
  <2> QED
    BY <1>3
<1>5. SumsUp(sum, S, cost)
  <2> HIDE DEF sum
  <2> QED
    BY <1>2, <1>4 DEF SumsUp
<1>6. sum[S] = Cardinality(Dollars(S, cost))
  <2> HIDE DEF sum, Sums, count
  <2>1. S \in SUBSET S
    OBVIOUS
  <2> QED
    BY <1>5, <2>1, SumsCountDollars
<1> QED
  BY <1>1, <1>6

\* Entries have a quantity and a price.
Priced(S) ==
  /\ IsFiniteSet(S)
  /\ \A p \in S : p.quantity \in Nat /\ p.price \in Nat

\* What is committed to a finite book is a number of dollars, and one entry more
\* adds what it costs.
LEMMA CommittedIsNat ==
  ASSUME NEW S, Priced(S)
  PROVE  MapThenSumSet(LAMBDA p : p.quantity * p.price, S) \in Nat
<1> DEFINE cost == [p \in S |-> p.quantity * p.price]
<1>1. cost \in [S -> Nat]
  BY DEF Priced
<1>2. \A p \in S : cost[p] = p.quantity * p.price
  OBVIOUS
<1>3. IsFiniteSet(S)
  BY DEF Priced
<1> HIDE DEF cost
<1>4. MapThenSumSet(LAMBDA p : p.quantity * p.price, S) = Cardinality(Dollars(S, cost))
  BY <1>1, <1>2, <1>3, CommittedCountsDollars
<1>5. Cardinality(Dollars(S, cost)) \in Nat
  <2>1. S \in SUBSET S
    OBVIOUS
  <2> QED
    BY <1>1, <1>3, <2>1, DollarsAreFinite
<1> QED
  BY <1>4, <1>5

\* One entry more adds what it costs.
LEMMA CommittedOfOneMore ==
  ASSUME NEW S, Priced(S),
         NEW x, x \notin S, x.quantity \in Nat, x.price \in Nat,
         NEW T, T = S \cup {x}
  PROVE  MapThenSumSet(LAMBDA p : p.quantity * p.price, T) =
           MapThenSumSet(LAMBDA p : p.quantity * p.price, S) + x.quantity * x.price
<1> DEFINE cost == [p \in T |-> p.quantity * p.price]
           costS == [p \in S |-> p.quantity * p.price]
<1>1. Priced(T)
  BY FS_AddElement DEF Priced
<1>2. /\ cost \in [T -> Nat] /\ \A p \in T : cost[p] = p.quantity * p.price
      /\ costS \in [S -> Nat] /\ \A p \in S : costS[p] = p.quantity * p.price
  BY <1>1 DEF Priced
<1>3. IsFiniteSet(S) /\ IsFiniteSet(T)
  BY <1>1 DEF Priced
<1>4. cost[x] = x.quantity * x.price
  OBVIOUS
<1>5. \A p \in S : costS[p] = cost[p]
  OBVIOUS
<1> HIDE DEF cost, costS
<1>6. MapThenSumSet(LAMBDA p : p.quantity * p.price, T) = Cardinality(Dollars(T, cost))
  BY <1>2, <1>3, CommittedCountsDollars
<1>7. MapThenSumSet(LAMBDA p : p.quantity * p.price, S) = Cardinality(Dollars(S, costS))
  BY <1>2, <1>3, CommittedCountsDollars
<1>8. Dollars(S, costS) = Dollars(S, cost)
  BY <1>5 DEF Dollars
<1>9. S \in SUBSET T /\ x \in T \ S
  OBVIOUS
<1>10. IsFiniteSet(Dollars(S, cost))
  BY <1>2, <1>3, <1>9, DollarsAreFinite
<1>11. Cardinality(Dollars(T, cost)) = Cardinality(Dollars(S, cost)) + cost[x]
  BY <1>2, <1>9, <1>10, DollarsOfOneMore
<1> QED
  BY <1>4, <1>6, <1>7, <1>8, <1>11

-----------------------------------------------------------------------------
\* What is affordable can be paid for, and costs something.
LEMMA AffordableIsPaidFor ==
  ASSUME NEW money \in Int, NEW price \in Int
  PROVE  /\ Affordable(money, price) \in Nat
         /\ Affordable(money, price) > 0 =>
              /\ price > 0
              /\ Affordable(money, price) * price <= money
<1>1. CASE price <= 0 \/ money < price
  BY <1>1 DEF Affordable
<1>2. CASE price > 0 /\ money >= price
  <2>1. money \div price \in Nat
    BY <1>2
  <2>2. (money \div price) * price <= money
    BY <1>2
  <2>3. Affordable(money, price) = money \div price
    BY <1>2 DEF Affordable
  <2> QED
    BY <1>2, <2>1, <2>2, <2>3
<1> QED
  BY <1>1, <1>2

\* What the size gates let through is paid for by what the book leaves of the
\* buying power, and no more than the order asked for.
LEMMA AuthorisedIsPaidFor ==
  ASSUME NEW ctx, ctx.equity \in Int, ctx.buying_power \in Int,
         Committed(ctx) \in Nat,
         NEW U, NEW R,
         NEW draft \in [underlying : U, right : R, quantity : Nat, limit : Int],
         NEW n, n = Authorise(draft, ctx)
  PROVE  /\ n \in Nat /\ n <= draft.quantity
         /\ n > 0 =>
              /\ DirectionalBalance(draft, ctx)
              /\ draft.limit > 0
              /\ n * draft.limit + Committed(ctx) <= ctx.buying_power
<1> DEFINE budget == RiskBudget(draft, ctx)
           trimmed == [draft EXCEPT !.quantity = budget]
           rest == Available(ctx) - Committed(ctx)
           most == Affordable((ctx.equity * RiskPerTrade) \div 100, draft.limit)
<1>1. Available(ctx) \in Nat /\ (Available(ctx) > 0 => Available(ctx) <= ctx.buying_power)
  <2> DEFINE least == Min({ctx.buying_power, ctx.equity})
  <2>1. least \in Int /\ least <= ctx.buying_power
    BY DEF Min
  <2> HIDE DEF least
  <2>2. /\ Max({0, least}) \in Int /\ 0 <= Max({0, least})
        /\ Max({0, least}) = 0 \/ Max({0, least}) = least
    BY <2>1 DEF Max
  <2> QED
    BY <2>1, <2>2 DEF Available, least
<1>2. budget \in Nat /\ budget <= draft.quantity
  <2>1. most \in Nat
    <3>1. (ctx.equity * RiskPerTrade) \div 100 \in Int
      BY BookAssumption
    <3> QED
      BY <3>1, AffordableIsPaidFor
  <2>2. MaxContracts \in Nat
    BY BookAssumption
  <2> HIDE DEF most
  <2>3. /\ Min({draft.quantity, MaxContracts, most}) \in Nat
        /\ Min({draft.quantity, MaxContracts, most}) <= draft.quantity
    BY <2>1, <2>2 DEF Min
  <2> QED
    BY <2>3 DEF RiskBudget, most
<1>3. /\ trimmed.quantity = budget /\ trimmed.limit = draft.limit
  OBVIOUS
<1>4. rest \in Int
  BY <1>1
<1> DEFINE cash == Affordable(rest, draft.limit)
<1>5. cash \in Nat /\ (cash > 0 => draft.limit > 0 /\ cash * draft.limit <= rest)
  <2> HIDE DEF rest
  <2> QED
    BY <1>4, AffordableIsPaidFor
<1> HIDE DEF cash, budget, trimmed
<1>6. BuyingPower(trimmed, ctx) = Min({budget, cash})
  BY <1>3 DEF BuyingPower, cash
<1>7. /\ Min({budget, cash}) \in Nat
      /\ Min({budget, cash}) <= budget /\ Min({budget, cash}) <= cash
  <2>1. budget \in Nat /\ cash \in Nat
    BY <1>2, <1>5
  <2> QED
    BY <2>1 DEF Min
<1>8. n = IF DirectionalBalance(draft, ctx) THEN Min({budget, cash}) ELSE 0
  BY <1>6 DEF Authorise, trimmed, budget
<1>9. n \in Nat /\ n <= draft.quantity
  BY <1>2, <1>7, <1>8
<1>10. ASSUME n > 0
       PROVE  /\ DirectionalBalance(draft, ctx)
              /\ draft.limit > 0
              /\ n * draft.limit + Committed(ctx) <= ctx.buying_power
  <2>1. n <= cash /\ cash > 0 /\ DirectionalBalance(draft, ctx)
    BY <1>5, <1>7, <1>8, <1>10
  <2>2. draft.limit > 0 /\ cash * draft.limit <= rest
    BY <1>5, <2>1
  <2>3. n * draft.limit <= cash * draft.limit
    BY <1>5, <1>9, <2>1, <2>2
  <2>4. n * draft.limit \in Int /\ cash * draft.limit \in Int
    BY <1>5, <1>9
  <2>5. cash * draft.limit > 0
    BY <1>5, <2>1, <2>2
  <2> QED
    BY <1>1, <1>4, <2>1, <2>2, <2>3, <2>4, <2>5
<1> QED
  BY <1>9, <1>10

\* More money buys no less.
LEMMA AffordableIsMonotone ==
  ASSUME NEW less \in Int, NEW more \in Int, less <= more, NEW price \in Int
  PROVE  Affordable(less, price) <= Affordable(more, price)
<1>1. CASE price <= 0 \/ less < price
  <2>1. Affordable(less, price) = 0
    BY <1>1 DEF Affordable
  <2>2. Affordable(more, price) \in Nat
    BY AffordableIsPaidFor
  <2> QED
    BY <2>1, <2>2
<1>2. CASE price > 0 /\ less >= price
  <2>1. Affordable(less, price) = less \div price /\ Affordable(more, price) = more \div price
    BY <1>2 DEF Affordable
  <2>2. /\ less \div price \in Int /\ more \div price \in Int
        /\ (less \div price) * price <= less
        /\ more < (more \div price + 1) * price
    BY <1>2
  <2>3. SUFFICES ASSUME less \div price >= more \div price + 1 PROVE FALSE
    BY <2>1, <2>2
  <2>4. (less \div price) * price >= (more \div price + 1) * price
    <3> DEFINE q1 == less \div price
               q2 == more \div price + 1
    <3>1. q1 \in Int /\ q2 \in Int /\ q1 >= q2
      BY <2>2, <2>3
    <3> HIDE DEF q1, q2
    <3>2. q1 * price >= q2 * price
      BY <1>2, <3>1, Z3
    <3> QED
      BY <3>2 DEF q1, q2
  <2>5. /\ (less \div price) * price \in Int
        /\ (more \div price + 1) * price \in Int
    BY <2>2
  <2> QED
    BY <2>2, <2>4, <2>5
<1> QED
  BY <1>1, <1>2

\* On an account of the same size, more positions let through no more of an order:
\* a fuller book leans further and has cost more (gates.py 419-445, 545-573).
LEMMA FullerBooksBuyLess ==
  ASSUME NEW less, NEW more,
         less.equity \in Int, less.buying_power \in Int,
         more.equity = less.equity, more.buying_power = less.buying_power,
         less.positions \subseteq more.positions, IsFiniteSet(more.positions),
         Committed(less) \in Nat, Committed(more) \in Nat, Committed(less) <= Committed(more),
         NEW U, NEW R,
         NEW draft \in [underlying : U, right : R, quantity : Nat, limit : Int]
  PROVE  Authorise(draft, more) <= Authorise(draft, less)
<1> DEFINE budget == RiskBudget(draft, less)
           trimmed == [draft EXCEPT !.quantity = budget]
           before == Affordable(Available(less) - Committed(less), draft.limit)
           after == Affordable(Available(less) - Committed(more), draft.limit)
<1>1. RiskBudget(draft, more) = budget
  BY DEF RiskBudget
<1>2. Available(more) = Available(less)
  BY DEF Available
<1>3. Available(less) \in Int
  <2> DEFINE least == Min({less.buying_power, less.equity})
  <2>1. least \in Int
    BY DEF Min
  <2> HIDE DEF least
  <2>2. Max({0, least}) \in Int
    BY <2>1 DEF Max
  <2> QED
    BY <2>2 DEF Available, least
<1>4. after <= before /\ after \in Nat /\ before \in Nat
  <2>1. /\ Available(less) - Committed(more) \in Int
        /\ Available(less) - Committed(less) \in Int
        /\ Available(less) - Committed(more) <= Available(less) - Committed(less)
    BY <1>3
  <2>2. draft.limit \in Int
    OBVIOUS
  <2> QED
    BY <2>1, <2>2, AffordableIsMonotone, AffordableIsPaidFor
<1>5. budget \in Nat
  <2> DEFINE most == Affordable((less.equity * RiskPerTrade) \div 100, draft.limit)
  <2>1. most \in Nat
    <3>1. (less.equity * RiskPerTrade) \div 100 \in Int
      BY BookAssumption
    <3> QED
      BY <3>1, AffordableIsPaidFor
  <2>2. MaxContracts \in Nat
    BY BookAssumption
  <2> HIDE DEF most
  <2>3. Min({draft.quantity, MaxContracts, most}) \in Nat
    BY <2>1, <2>2 DEF Min
  <2> QED
    BY <2>3 DEF RiskBudget, most
<1>6. trimmed.quantity = budget /\ trimmed.limit = draft.limit
  OBVIOUS
<1> HIDE DEF before, after, budget, trimmed
<1>7. /\ BuyingPower(trimmed, less) = Min({budget, before})
      /\ BuyingPower(trimmed, more) = Min({budget, after})
  BY <1>2, <1>6 DEF BuyingPower, before, after
<1>8. /\ Min({budget, before}) \in Nat /\ Min({budget, after}) \in Nat
      /\ Min({budget, after}) <= Min({budget, before})
  BY <1>4, <1>5 DEF Min
<1>9. DirectionalBalance(draft, more) => DirectionalBalance(draft, less)
  <2>1. /\ Pointing(draft.right, less.positions) \subseteq Pointing(draft.right, more.positions)
        /\ IsFiniteSet(Pointing(draft.right, more.positions))
    BY FS_Subset DEF Pointing
  <2>2. /\ Cardinality(Pointing(draft.right, less.positions))
             <= Cardinality(Pointing(draft.right, more.positions))
        /\ Cardinality(Pointing(draft.right, less.positions)) \in Nat
        /\ Cardinality(Pointing(draft.right, more.positions)) \in Nat
    BY <2>1, FS_Subset, FS_CardinalityType
  <2> QED
    BY <2>2, BookAssumption DEF DirectionalBalance
<1>10. /\ Authorise(draft, less) =
            IF DirectionalBalance(draft, less) THEN BuyingPower(trimmed, less) ELSE 0
       /\ Authorise(draft, more) =
            IF DirectionalBalance(draft, more) THEN BuyingPower(trimmed, more) ELSE 0
  BY <1>1 DEF Authorise, trimmed, budget
<1> QED
  BY <1>7, <1>8, <1>9, <1>10

=============================================================================
