--------------------------- MODULE SelectionProofs ---------------------------
(***************************************************************************)
(* What sorting, filtering and `select` answer (src/src/agent/selector.py  *)
(* 154-220), for every slate and every answer of the model.                *)
(***************************************************************************)
EXTENDS Selection, FiniteSetTheorems, SequenceTheorems, TLAPS

\* A strict order on S that compares any two elements.
Orders(order, S) ==
  /\ \A x \in S : <<x, x>> \notin order
  /\ \A x, y \in S : x # y => <<x, y>> \in order \/ <<y, x>> \in order
  /\ \A x, y, z \in S : <<x, y>> \in order /\ <<y, z>> \in order => <<x, z>> \in order

\* Every finite set can be put into such an order: an element's place is the
\* number of those before it.
LEMMA SortedExists ==
  ASSUME NEW S, IsFiniteSet(S), NEW order, Orders(order, S)
  PROVE  \E seq \in [1 .. Cardinality(S) -> S] :
           \A i, j \in DOMAIN seq : i < j => <<seq[i], seq[j]>> \in order
<1> DEFINE n == Cardinality(S)
           Before(x) == {y \in S : <<y, x>> \in order}
           place == [x \in S |-> Cardinality(Before(x)) + 1]
           seq == [k \in 1 .. n |-> CHOOSE x \in S : place[x] = k]
<1>1. n \in Nat
  BY FS_CardinalityType
<1>2. \A x \in S : /\ IsFiniteSet(Before(x)) /\ Cardinality(Before(x)) \in Nat
                   /\ Cardinality(Before(x)) < n
  <2> SUFFICES ASSUME NEW x \in S
               PROVE  /\ IsFiniteSet(Before(x)) /\ Cardinality(Before(x)) \in Nat
                      /\ Cardinality(Before(x)) < n
    OBVIOUS
  <2>1. Before(x) \subseteq S /\ x \notin Before(x)
    BY DEF Orders
  <2>2. IsFiniteSet(Before(x)) /\ Cardinality(Before(x)) <= n
    BY <2>1, FS_Subset
  <2>3. Cardinality(Before(x)) # n
    BY <2>1, FS_Subset
  <2> QED
    BY <1>1, <2>2, <2>3, FS_CardinalityType
<1>3. \A x, y \in S : <<x, y>> \in order => place[x] < place[y]
  <2> SUFFICES ASSUME NEW x \in S, NEW y \in S, <<x, y>> \in order
               PROVE  place[x] < place[y]
    OBVIOUS
  <2>1. Before(x) \subseteq Before(y) /\ x \in Before(y) /\ x \notin Before(x)
    BY DEF Orders
  <2>2. Cardinality(Before(x)) <= Cardinality(Before(y))
    BY <1>2, <2>1, FS_Subset
  <2>3. Cardinality(Before(x)) # Cardinality(Before(y))
    BY <1>2, <2>1, FS_Subset
  <2>4. /\ place[x] = Cardinality(Before(x)) + 1
        /\ place[y] = Cardinality(Before(y)) + 1
    OBVIOUS
  <2> HIDE DEF Before, place
  <2> QED
    BY <1>2, <2>2, <2>3, <2>4
<1>4. place \in Injection(S, 1 .. n)
  <2>1. place \in [S -> 1 .. n]
    BY <1>1, <1>2
  <2>2. \A x, y \in S : place[x] = place[y] => x = y
    <3> HIDE DEF place
    <3> SUFFICES ASSUME NEW x \in S, NEW y \in S, place[x] = place[y], x # y
                 PROVE  FALSE
      OBVIOUS
    <3>1. place[x] < place[y] \/ place[y] < place[x]
      BY <1>3 DEF Orders
    <3>2. place[x] \in Int /\ place[y] \in Int
      BY <1>1, <2>1
    <3> QED
      BY <3>1, <3>2
  <2> QED
    BY <2>1, <2>2 DEF Injection, IsInjective
<1>5. place \in Surjection(S, 1 .. n)
  <2>1. IsFiniteSet(1 .. n) /\ Cardinality(1 .. n) = n
    BY <1>1, FS_Interval
  <2> HIDE DEF place
  <2> QED
    BY <1>4, <2>1, FS_Injection
<1>6. \A k \in 1 .. n : seq[k] \in S /\ place[seq[k]] = k
  <2> HIDE DEF place
  <2> QED
    BY <1>5 DEF Surjection
<1>7. \A i, j \in 1 .. n : i < j => <<seq[i], seq[j]>> \in order
  <2> HIDE DEF seq, place
  <2> SUFFICES ASSUME NEW i \in 1 .. n, NEW j \in 1 .. n, i < j,
                      <<seq[i], seq[j]>> \notin order
               PROVE  FALSE
    OBVIOUS
  <2>1. seq[i] # seq[j]
    BY <1>1, <1>6
  <2>2. place[seq[j]] < place[seq[i]]
    BY <1>3, <1>6, <2>1 DEF Orders
  <2> QED
    BY <1>1, <1>6, <2>2
<1>8. seq \in [1 .. n -> S] /\ DOMAIN seq = 1 .. n
  <2>1. \A k \in 1 .. n : (CHOOSE x \in S : place[x] = k) \in S
    BY <1>6
  <2> QED
    BY <2>1
<1> HIDE DEF seq
<1> QED
  BY <1>7, <1>8

\* Sorting keeps every element, once.
LEMMA SortedIsAnOrder ==
  ASSUME NEW S, IsFiniteSet(S), NEW order, Orders(order, S)
  PROVE  /\ Cardinality(S) \in Nat
         /\ Sorted(S, order) \in [1 .. Cardinality(S) -> S]
         /\ \A i, j \in 1 .. Cardinality(S) :
              i < j => <<Sorted(S, order)[i], Sorted(S, order)[j]>> \in order
         /\ \A i, j \in 1 .. Cardinality(S) :
              Sorted(S, order)[i] = Sorted(S, order)[j] => i = j
         /\ \A x \in S : \E i \in 1 .. Cardinality(S) : Sorted(S, order)[i] = x
<1> DEFINE n == Cardinality(S)
           s == Sorted(S, order)
<1>1. n \in Nat
  BY FS_CardinalityType
<1>2. s \in [1 .. n -> S] /\ \A i, j \in DOMAIN s : i < j => <<s[i], s[j]>> \in order
  BY SortedExists DEF Sorted
<1> HIDE DEF s
<1>3. \A i, j \in 1 .. n : s[i] = s[j] => i = j
  <2> SUFFICES ASSUME NEW i \in 1 .. n, NEW j \in 1 .. n, s[i] = s[j], i # j
               PROVE  FALSE
    OBVIOUS
  <2>1. <<s[i], s[j]>> \in order \/ <<s[j], s[i]>> \in order
    BY <1>1, <1>2
  <2> QED
    BY <1>2, <2>1 DEF Orders
<1>4. s \in Injection(1 .. n, S)
  BY <1>2, <1>3 DEF Injection, IsInjective
<1>5. s \in Surjection(1 .. n, S)
  <2>1. IsFiniteSet(1 .. n) /\ Cardinality(1 .. n) = n
    BY <1>1, FS_Interval
  <2> QED
    BY <1>4, <2>1, FS_Injection
<1>6. \A x \in S : \E i \in 1 .. n : s[i] = x
  BY <1>5 DEF Surjection
<1> QED
  BY <1>1, <1>2, <1>3, <1>6 DEF s

\* `kept` is what stands in these places of `seq`, as `order` has the places.
Lists(kept, seq, places, order) ==
  /\ kept \in Seq(ToSet(seq))
  /\ ToSet(kept) = {seq[i] : i \in places}
  /\ (\A i, j \in places : seq[i] = seq[j] => i = j) => IsInjective(kept)
  /\ \A k, l \in 1 .. Len(kept) : k < l =>
       \E i, j \in places : /\ <<i, j>> \in order
                            /\ kept[k] = seq[i] /\ kept[l] = seq[j]

\* Arranged does so.
LEMMA ArrangedLists ==
  ASSUME NEW D, NEW seq \in Seq(D), NEW places \in SUBSET (1 .. Len(seq)),
         NEW order, Orders(order, places)
  PROVE  Lists(Arranged(seq, places, order), seq, places, order)
<1> DEFINE n == Cardinality(places)
           place == Sorted(places, order)
           kept == Arranged(seq, places, order)
<1>1. Len(seq) \in Nat /\ DOMAIN seq = 1 .. Len(seq)
  BY LenProperties
<1>2. IsFiniteSet(places)
  <2>1. IsFiniteSet(1 .. Len(seq))
    BY <1>1, FS_Interval
  <2> QED
    BY <2>1, FS_Subset
<1>3. /\ n \in Nat /\ place \in [1 .. n -> places]
      /\ \A i, j \in 1 .. n : i < j => <<place[i], place[j]>> \in order
      /\ \A i, j \in 1 .. n : place[i] = place[j] => i = j
      /\ \A x \in places : \E i \in 1 .. n : place[i] = x
  BY <1>2, SortedIsAnOrder
<1>4. kept = [k \in 1 .. n |-> seq[place[k]]]
  <2>1. DOMAIN place = 1 .. n
    BY <1>3
  <2> QED
    BY <2>1 DEF Arranged
<1> HIDE DEF kept, place, n
<1>5. /\ DOMAIN kept = 1 .. n
      /\ \A k \in 1 .. n : place[k] \in places /\ kept[k] = seq[place[k]]
  BY <1>3, <1>4
<1>6. kept \in Seq(ToSet(seq)) /\ Len(kept) = n
  <2>1. kept \in [1 .. n -> ToSet(seq)]
    BY <1>1, <1>4, <1>5 DEF ToSet
  <2> QED
    BY <1>3, <2>1
<1>7. ToSet(kept) = {seq[i] : i \in places}
  <2>1. ASSUME NEW x \in places
        PROVE  \E i \in DOMAIN kept : kept[i] = seq[x]
    <3>1. PICK i \in 1 .. n : place[i] = x
      BY <1>3
    <3> QED
      BY <1>5, <3>1
  <2>2. ASSUME NEW i \in DOMAIN kept
        PROVE  \E x \in places : kept[i] = seq[x]
    <3>1. i \in 1 .. n
      BY <1>5
    <3> QED
      BY <1>5, <3>1
  <2> QED
    BY <2>1, <2>2 DEF ToSet
<1>8. ASSUME \A i, j \in places : seq[i] = seq[j] => i = j
      PROVE  IsInjective(kept)
  <2> SUFFICES ASSUME NEW k \in DOMAIN kept, NEW l \in DOMAIN kept,
                      kept[k] = kept[l]
               PROVE  k = l
    BY DEF IsInjective
  <2>1. k \in 1 .. n /\ l \in 1 .. n
    BY <1>5
  <2>2. /\ place[k] \in places /\ place[l] \in places
        /\ seq[place[k]] = seq[place[l]]
    BY <1>5, <2>1
  <2>3. place[k] = place[l]
    BY <1>8, <2>2
  <2> QED
    BY <1>3, <2>1, <2>3
<1>9. ASSUME NEW k \in 1 .. n, NEW l \in 1 .. n, k < l
      PROVE  \E i, j \in places : /\ <<i, j>> \in order
                                  /\ kept[k] = seq[i] /\ kept[l] = seq[j]
  <2>1. place[k] \in places /\ place[l] \in places
    BY <1>5
  <2>2. <<place[k], place[l]>> \in order
    BY <1>3, <1>9
  <2> QED
    BY <1>5, <2>1, <2>2
<1> QED
  BY <1>6, <1>7, <1>8, <1>9 DEF Lists, kept

\* Kept does, upwards.
LEMMA KeptLists ==
  ASSUME NEW D, NEW seq \in Seq(D), NEW places \in SUBSET (1 .. Len(seq))
  PROVE  Lists(Kept(seq, places), seq, places, Upwards(places))
<1>1. Orders(Upwards(places), places)
  <2>1. places \subseteq Nat
    BY LenProperties
  <2> QED
    BY <2>1 DEF Orders, Upwards
<1> QED
  BY <1>1, ArrangedLists DEF Kept

\* `by_confidence` does, the strongest first.
LEMMA ByConvictionLists ==
  ASSUME NEW D, NEW slate \in Seq(D), NEW conviction,
         \A s \in ToSet(slate) : conviction[s] \in Int
  PROVE  Lists(ByConviction(slate, conviction), slate, 1 .. Len(slate),
               Stronger(slate, conviction))
<1>1. Len(slate) \in Nat /\ DOMAIN slate = 1 .. Len(slate)
  BY LenProperties
<1>2. \A i \in 1 .. Len(slate) : conviction[slate[i]] \in Int
  BY <1>1 DEF ToSet
<1>3. Orders(Stronger(slate, conviction), 1 .. Len(slate))
  BY <1>1, <1>2 DEF Orders, Stronger
<1> QED
  BY <1>1, <1>3, ArrangedLists DEF ByConviction

\* Names of the slate that an answer mentions, each once.
LEMMA MentionedAreOfTheSlate ==
  ASSUME NEW slate, NEW E, NEW answer \in Seq(E)
  PROVE  /\ Mentioned(slate, answer) \in Seq(E)
         /\ ToSet(Mentioned(slate, answer)) \subseteq ToSet(slate)
         /\ IsInjective(Mentioned(slate, answer))
<1> DEFINE places == {i \in DOMAIN answer :
                        /\ answer[i] \in ToSet(slate)
                        /\ \A j \in 1 .. i - 1 : answer[j] # answer[i]}
           ranked == Mentioned(slate, answer)
<1>1. Len(answer) \in Nat /\ DOMAIN answer = 1 .. Len(answer)
  BY LenProperties
<1>2. places \in SUBSET (1 .. Len(answer))
  BY <1>1
<1>3. \A i, j \in places : answer[i] = answer[j] => i = j
  BY <1>1
<1>4. \A i \in places : answer[i] \in ToSet(slate)
  OBVIOUS
<1>5. ranked = Kept(answer, places)
  BY DEF Mentioned
<1> HIDE DEF places, ranked
<1>6. Lists(ranked, answer, places, Upwards(places))
  BY <1>2, <1>5, KeptLists
<1>7. ranked \in Seq(ToSet(answer)) /\ ToSet(answer) \subseteq E
  <2>1. \A i \in DOMAIN answer : answer[i] \in E
    BY <1>1
  <2> QED
    BY <1>6, <2>1 DEF Lists, ToSet
<1>8. ranked \in Seq(E)
  BY <1>7, SeqMonotonic
<1> QED
  BY <1>3, <1>4, <1>6, <1>8 DEF Lists, ranked

\* A sequence followed by what it left out of another is as long as that one.
LEMMA RankedThenForgotten ==
  ASSUME NEW D, NEW ranked \in Seq(D), NEW rest \in Seq(D),
         ToSet(ranked) \subseteq ToSet(rest),
         NEW left, left = Kept(rest, {i \in DOMAIN rest : rest[i] \notin ToSet(ranked)})
  PROVE  /\ ranked \o left \in Seq(D)
         /\ ToSet(ranked \o left) = ToSet(rest)
         /\ IsInjective(ranked) /\ IsInjective(rest) => IsInjective(ranked \o left)
<1> DEFINE places == {i \in DOMAIN rest : rest[i] \notin ToSet(ranked)}
           both == ranked \o left
<1>1. /\ Len(rest) \in Nat /\ DOMAIN rest = 1 .. Len(rest)
      /\ Len(ranked) \in Nat /\ DOMAIN ranked = 1 .. Len(ranked)
  BY LenProperties
<1>2. Lists(left, rest, places, Upwards(places))
  BY <1>1, KeptLists
<1>3. left \in Seq(D)
  <2>1. \A i \in DOMAIN rest : rest[i] \in D
    BY <1>1
  <2>2. left \in Seq(ToSet(rest)) /\ ToSet(rest) \subseteq D
    BY <1>2, <2>1 DEF Lists, ToSet
  <2> QED
    BY <2>2, SeqMonotonic
<1>4. Len(left) \in Nat /\ DOMAIN left = 1 .. Len(left)
  BY <1>3, LenProperties
<1>5. /\ both \in Seq(D)
      /\ Len(both) = Len(ranked) + Len(left)
      /\ DOMAIN both = 1 .. Len(ranked) + Len(left)
      /\ \A i \in 1 .. Len(ranked) + Len(left) :
           both[i] = IF i <= Len(ranked) THEN ranked[i] ELSE left[i - Len(ranked)]
  BY <1>3, ConcatProperties, LenProperties
<1>6. ToSet(left) = ToSet(rest) \ ToSet(ranked)
  <2>1. ToSet(left) = {rest[i] : i \in places}
    BY <1>2 DEF Lists
  <2> QED
    BY <2>1 DEF ToSet
<1> HIDE DEF places, both
<1>7. ToSet(both) = ToSet(ranked) \cup ToSet(left)
  <2>1. ASSUME NEW i \in DOMAIN both
        PROVE  both[i] \in ToSet(ranked) \cup ToSet(left)
    <3>1. CASE i <= Len(ranked)
      <4>1. i \in DOMAIN ranked /\ both[i] = ranked[i]
        BY <1>1, <1>4, <1>5, <3>1
      <4> QED
        BY <4>1 DEF ToSet
    <3>2. CASE i > Len(ranked)
      <4>1. i - Len(ranked) \in DOMAIN left /\ both[i] = left[i - Len(ranked)]
        BY <1>1, <1>4, <1>5, <3>2
      <4> QED
        BY <4>1 DEF ToSet
    <3> QED
      BY <1>1, <1>4, <1>5, <3>1, <3>2
  <2>2. ASSUME NEW i \in DOMAIN ranked
        PROVE  ranked[i] \in ToSet(both)
    <3>1. i \in DOMAIN both /\ both[i] = ranked[i]
      BY <1>1, <1>4, <1>5
    <3> QED
      BY <3>1 DEF ToSet
  <2>3. ASSUME NEW i \in DOMAIN left
        PROVE  left[i] \in ToSet(both)
    <3>1. i + Len(ranked) \in DOMAIN both /\ both[i + Len(ranked)] = left[i]
      BY <1>1, <1>4, <1>5
    <3> QED
      BY <3>1 DEF ToSet
  <2> QED
    BY <2>1, <2>2, <2>3 DEF ToSet
<1>8. ASSUME IsInjective(ranked), IsInjective(rest)
      PROVE  IsInjective(both)
  <2>1. IsInjective(left)
    <3>1. \A i, j \in places : rest[i] = rest[j] => i = j
      BY <1>8 DEF IsInjective, places
    <3> QED
      BY <1>2, <3>1 DEF Lists
  <2> SUFFICES ASSUME NEW i \in DOMAIN both, NEW j \in DOMAIN both,
                      both[i] = both[j]
               PROVE  i = j
    BY DEF IsInjective
  <2> DEFINE k == Len(ranked)
  <2>2. CASE i <= k /\ j <= k
    BY <1>1, <1>4, <1>5, <1>8, <2>2 DEF IsInjective
  <2>3. CASE i > k /\ j > k
    <3>1. /\ i - k \in DOMAIN left /\ both[i] = left[i - k]
          /\ j - k \in DOMAIN left /\ both[j] = left[j - k]
      BY <1>1, <1>4, <1>5, <2>3
    <3>2. i - k = j - k
      BY <2>1, <3>1 DEF IsInjective
    <3> QED
      BY <1>1, <1>4, <1>5, <3>2
  <2>4. ASSUME NEW x \in DOMAIN both, NEW y \in DOMAIN both, x <= k, y > k
        PROVE  both[x] # both[y]
    <3>1. x \in DOMAIN ranked /\ both[x] = ranked[x]
      BY <1>1, <1>4, <1>5, <2>4
    <3>2. y - k \in DOMAIN left /\ both[y] = left[y - k]
      BY <1>1, <1>4, <1>5, <2>4
    <3>3. both[x] \in ToSet(ranked) /\ both[y] \in ToSet(left)
      BY <3>1, <3>2 DEF ToSet
    <3> QED
      BY <1>6, <3>3
  <2>5. CASE i <= k /\ j > k
    BY <2>4, <2>5
  <2>6. CASE i > k /\ j <= k
    BY <2>4, <2>6
  <2>7. i \in Int /\ j \in Int /\ k \in Int
    BY <1>1, <1>4, <1>5
  <2> QED
    BY <2>2, <2>3, <2>5, <2>6, <2>7
<1> QED
  BY <1>5, <1>6, <1>7, <1>8 DEF both

\* `by_confidence` keeps every name and puts the strongest first.
LEMMA ByConvictionRanks ==
  ASSUME NEW D, NEW slate \in Seq(D), NEW conviction,
         \A s \in ToSet(slate) : conviction[s] \in Int,
         NEW ranked, ranked = ByConviction(slate, conviction)
  PROVE  /\ ranked \in Seq(ToSet(slate))
         /\ ToSet(ranked) = ToSet(slate)
         /\ IsInjective(slate) => IsInjective(ranked)
         /\ \A k, l \in 1 .. Len(ranked) :
              k < l => conviction[ranked[k]] >= conviction[ranked[l]]
<1>1. Lists(ranked, slate, 1 .. Len(slate), Stronger(slate, conviction))
  BY ByConvictionLists
<1>2. DOMAIN slate = 1 .. Len(slate)
  BY LenProperties
<1>3. ToSet(slate) = {slate[i] : i \in 1 .. Len(slate)}
  BY <1>2 DEF ToSet
<1>4. IsInjective(slate) =>
        \A i, j \in 1 .. Len(slate) : slate[i] = slate[j] => i = j
  BY <1>2 DEF IsInjective
<1>5. ASSUME NEW k \in 1 .. Len(ranked), NEW l \in 1 .. Len(ranked), k < l
      PROVE  conviction[ranked[k]] >= conviction[ranked[l]]
  <2>1. PICK i, j \in 1 .. Len(slate) :
          /\ <<i, j>> \in Stronger(slate, conviction)
          /\ ranked[k] = slate[i] /\ ranked[l] = slate[j]
    BY <1>1, <1>5 DEF Lists
  <2>2. conviction[slate[i]] \in Int /\ conviction[slate[j]] \in Int
    BY <1>2 DEF ToSet
  <2> QED
    BY <2>1, <2>2 DEF Stronger
<1> QED
  BY <1>1, <1>3, <1>4, <1>5 DEF Lists

\* `select` loses no candidate, invents and repeats none, whatever the model
\* answers (selector.py 154-179).
THEOREM SelectionKeepsTheSlate ==
  ASSUME NEW D, NEW slate \in Seq(D), NEW conviction,
         \A s \in ToSet(slate) : conviction[s] \in Int,
         NEW E, NEW answer \in Seq(E), NEW slots,
         NEW selected, selected = Selected(slate, conviction, slots, answer)
  PROVE  /\ selected \in Seq(ToSet(slate))
         /\ ToSet(selected) = ToSet(slate)
         /\ IsInjective(slate) => IsInjective(selected)
<1> DEFINE rest == ByConviction(slate, conviction)
           ranked == Mentioned(slate, answer)
           left == Kept(rest, {i \in DOMAIN rest : rest[i] \notin ToSet(ranked)})
<1>1. /\ rest \in Seq(ToSet(slate))
      /\ ToSet(rest) = ToSet(slate)
      /\ IsInjective(slate) => IsInjective(rest)
  BY ByConvictionRanks
<1>2. CASE ~Competing(slate, slots)
  BY <1>1, <1>2 DEF Selected
<1>3. CASE Competing(slate, slots)
  <2>1. selected = ranked \o left
    BY <1>3 DEF Selected, ApplyRanking
  <2>2. /\ ranked \in Seq(E) /\ ToSet(ranked) \subseteq ToSet(slate)
        /\ IsInjective(ranked)
    BY MentionedAreOfTheSlate
  <2> HIDE DEF rest, ranked
  <2>3. ranked \in Seq(ToSet(slate))
    <3>1. Len(ranked) \in Nat /\ ranked \in [1 .. Len(ranked) -> E]
      BY <2>2, LenProperties
    <3>2. \A i \in 1 .. Len(ranked) : ranked[i] \in ToSet(slate)
      BY <2>2, <3>1 DEF ToSet
    <3>3. ranked \in [1 .. Len(ranked) -> ToSet(slate)]
      BY <3>1, <3>2
    <3> QED
      BY <3>1, <3>3
  <2>4. ToSet(ranked) \subseteq ToSet(rest)
    BY <1>1, <2>2
  <2>5. /\ ranked \o left \in Seq(ToSet(slate))
        /\ ToSet(ranked \o left) = ToSet(rest)
        /\ IsInjective(ranked) /\ IsInjective(rest) => IsInjective(ranked \o left)
    BY <1>1, <2>3, <2>4, RankedThenForgotten
  <2> QED
    BY <1>1, <2>1, <2>2, <2>5
<1> QED
  BY <1>2, <1>3

\* Where the model has no say, or says nothing, conviction gives the order.
LEMMA ConvictionDecides ==
  ASSUME NEW D, NEW slate \in Seq(D), NEW conviction,
         \A s \in ToSet(slate) : conviction[s] \in Int,
         NEW answer, NEW slots, answer = <<>> \/ ~Competing(slate, slots),
         NEW selected, selected = Selected(slate, conviction, slots, answer)
  PROVE  \A k, l \in 1 .. Len(selected) :
           k < l => conviction[selected[k]] >= conviction[selected[l]]
<1> DEFINE rest == ByConviction(slate, conviction)
           ranked == Mentioned(slate, answer)
           places == {i \in DOMAIN rest : rest[i] \notin ToSet(ranked)}
           left == Kept(rest, places)
<1>1. /\ rest \in Seq(ToSet(slate))
      /\ \A k, l \in 1 .. Len(rest) :
           k < l => conviction[rest[k]] >= conviction[rest[l]]
  BY ByConvictionRanks
<1>2. CASE ~Competing(slate, slots)
  BY <1>1, <1>2 DEF Selected
<1>3. CASE Competing(slate, slots) /\ answer = <<>>
  <2>1. selected = ranked \o left
    BY <1>3 DEF Selected, ApplyRanking
  <2> DEFINE said == {i \in DOMAIN answer :
                        /\ answer[i] \in ToSet(slate)
                        /\ \A j \in 1 .. i - 1 : answer[j] # answer[i]}
  <2>2. ranked = <<>>
    <3>1. <<>> \in Seq({}) /\ Len(<<>>) = 0 /\ DOMAIN <<>> = {}
      OBVIOUS
    <3>2. said = {}
      BY <1>3, <3>1
    <3>3. Lists(Kept(answer, {}), answer, {}, Upwards({}))
      BY <1>3, <3>1, KeptLists
    <3>4. ToSet(Kept(answer, {})) = {} /\ Kept(answer, {}) \in Seq(ToSet(answer))
      BY <3>3 DEF Lists
    <3>5. DOMAIN Kept(answer, {}) = {}
      BY <3>4 DEF ToSet
    <3>6. ranked = Kept(answer, {})
      BY <3>2 DEF Mentioned
    <3> QED
      BY <3>4, <3>5, <3>6
  <2> HIDE DEF rest, ranked
  <2>3. DOMAIN rest = 1 .. Len(rest) /\ Len(rest) \in Nat
    BY <1>1, LenProperties
  <2>4. Lists(left, rest, places, Upwards(places))
    BY <1>1, <2>3, KeptLists
  <2>5. left \in Seq(ToSet(rest))
    BY <2>4 DEF Lists
  <2>6. selected = left
    BY <2>1, <2>2, <2>5, ConcatEmptySeq
  <2> SUFFICES ASSUME NEW k \in 1 .. Len(left), NEW l \in 1 .. Len(left), k < l
               PROVE  conviction[left[k]] >= conviction[left[l]]
    BY <2>6
  <2>7. PICK i, j \in places : /\ <<i, j>> \in Upwards(places)
                               /\ left[k] = rest[i] /\ left[l] = rest[j]
    BY <2>4 DEF Lists
  <2>8. i < j /\ i \in 1 .. Len(rest) /\ j \in 1 .. Len(rest)
    BY <2>3, <2>7 DEF Upwards
  <2> QED
    BY <1>1, <2>7, <2>8
<1> QED
  BY <1>2, <1>3

=============================================================================
