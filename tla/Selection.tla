------------------------------ MODULE Selection ------------------------------
(***************************************************************************)
(* The order in which the approved candidates are walked                   *)
(* (src/src/agent/selector.py 154-220).  A slate is a sequence of names,   *)
(* `conviction` gives each its confidence, and the answer of the selector  *)
(* is any sequence of names.  A selector that fails, or is not configured, *)
(* counts as one that names nothing: either way conviction orders them.    *)
(*                                                                         *)
(* Sorting and filtering go by the places in a sequence, and not by        *)
(* SortSeq and SelectSeq, of which the provers know nothing.               *)
(***************************************************************************)
EXTENDS Integers, SequencesExt

\* The elements of a finite set, one after the other as a strict order on them
\* (a set of pairs) has it.
Sorted(S, order) ==
  CHOOSE seq \in [1 .. Cardinality(S) -> S] :
    \A i, j \in DOMAIN seq : i < j => <<seq[i], seq[j]>> \in order

Upwards(places) == {p \in places \X places : p[1] < p[2]}

\* What stands in some places of a sequence, in the order given.
Arranged(seq, places, order) ==
  LET place == Sorted(places, order)
  IN [k \in DOMAIN place |-> seq[place[k]]]

Kept(seq, places) == Arranged(seq, places, Upwards(places))

\* (Faulty variant: the order of the slate is left as it is.)
ByWatchlist(slate, conviction) == slate

\* Stable: of two names held with equal conviction, the first stays first.
Stronger(slate, conviction) ==
  {p \in (1 .. Len(slate)) \X (1 .. Len(slate)) :
     \/ conviction[slate[p[1]]] > conviction[slate[p[2]]]
     \/ conviction[slate[p[1]]] = conviction[slate[p[2]]] /\ p[1] < p[2]}

ByConviction(slate, conviction) ==
  Arranged(slate, DOMAIN slate, Stronger(slate, conviction))

\* Names of the slate, each at its first mention.
Mentioned(slate, answer) ==
  Kept(answer, {i \in DOMAIN answer :
                  /\ answer[i] \in ToSet(slate)
                  /\ \A j \in 1 .. i - 1 : answer[j] # answer[i]})

\* (Faulty variant: what the answer forgot is dropped.)
ApplyRankingOnly(slate, answer, conviction) == Mentioned(slate, answer)

ApplyRanking(slate, answer, conviction) ==
  LET ranked == Mentioned(slate, answer)
      rest == ByConviction(slate, conviction)
  IN ranked \o Kept(rest, {i \in DOMAIN rest : rest[i] \notin ToSet(ranked)})

\* The selector is asked only when there are more names than slots.
Competing(slate, slots) == Len(slate) > 1 /\ slots < Len(slate)

Selected(slate, conviction, slots, answer) ==
  IF Competing(slate, slots)
  THEN ApplyRanking(slate, answer, conviction)
  ELSE ByConviction(slate, conviction)

=============================================================================
