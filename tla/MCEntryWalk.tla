----------------------------- MODULE MCEntryWalk -----------------------------
(***************************************************************************)
(* EntryWalk on a small watchlist: two names of one group and one that is  *)
(* in none, and a handful of offers.                                       *)
(***************************************************************************)
EXTENDS EntryWalk, TLC

CONSTANTS a, b, c, tech

MCWatchlist == <<a, b, c>>
MCSymbols == {a, b, c}
MCGroup == a :> tech @@ b :> tech @@ c :> Ungrouped

Quoted(right, monthly, price, decay) ==
  [right |-> right, monthly |-> monthly, delta |-> 65, bid |-> price, ask |-> price,
   days |-> 35, richness |-> 100, decay |-> decay]

Said(direction, confidence) ==
  [direction |-> direction, confidence |-> confidence, quality |-> 50]

\* What a model wrote once it had thought.
Written(answers) ==
  [came |-> TRUE, thought |-> "to the end", drafts |-> <<>>, answers |-> answers]

Replied(direction, confidence, contracts) ==
  [reply |-> Written(<<Said(direction, confidence)>>), contracts |-> contracts]

\* One whose tokens ran out before it had thought of anything to write.
CutOff == [came |-> TRUE, thought |-> "cut off", drafts |-> <<>>, answers |-> <<>>]

\* A call at 1 with a dearer weekly beside it, a call at 2 that is believed in
\* more than can be, a put, a put that no gate can price, a put with words for
\* a number, and a reply that was cut off.
MCReplies ==
  { Replied("up", 55, {Quoted("call", TRUE, 1, 100), Quoted("call", FALSE, 2, 100)}),
    Replied("up", 140, {Quoted("call", TRUE, 2, 100)}),
    Replied("down", 55, {Quoted("put", TRUE, 1, 100)}),
    Replied("down", 60, {Quoted("put", TRUE, 1, Unmeasured)}),
    Replied("down", Wording, {Quoted("put", TRUE, 1, 100)}),
    [reply |-> CutOff, contracts |-> {Quoted("call", TRUE, 1, 100)}] }

\* ... and NaN for one.
MCRepliesWithNaN == {Replied("up", NotANumber, {Quoted("call", TRUE, 1, 100)})}

\* Names left out, repeated, in any order, and one nobody asked about.
MCAnswers == {<<>>, <<b>>, <<c, b>>, <<c, c, a>>, <<"invented", b, a, c>>}

=============================================================================
