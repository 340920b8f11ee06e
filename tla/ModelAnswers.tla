----------------------------- MODULE ModelAnswers -----------------------------
(***************************************************************************)
(* What becomes of what a model answers: the two backends and the proposer *)
(* (src/src/agent/models.py 67-92, 150-189, 282-332 and 369-407,           *)
(* src/src/agent/proposer.py 42-90 and 248-315).                           *)
(*                                                                         *)
(* A reply is what one call brings back.  `came` is FALSE if it brought    *)
(* nothing: an exception, a refusal, no choices, an empty text.  Else the  *)
(* model thought, to the end or until its tokens ran out, and answered.    *)
(* `drafts` are the JSON objects it wrote down while it thought and        *)
(* `answers` those it wrote after; both are sequences, as a model that was *)
(* asked for one object may write none, or several.  In an object a number *)
(* is a whole one, of per cent for the confidence and of tenths for the    *)
(* quality, or one of the four things below.                               *)
(***************************************************************************)
EXTENDS Integers, Sequences

CONSTANTS
  NotANumber, \* NaN, which json.loads reads and float() makes
  Infinite,   \* as is Infinity
  Wording,    \* a text that float() does not read, a list, an object
  Absent      \* no such key; null too, but a confidence of null is Wording

ASSUME OddsAssumption ==
  /\ {NotANumber, Infinite, Wording, Absent} \cap Int = {}
  /\ NotANumber # Infinite /\ NotANumber # Wording /\ NotANumber # Absent
  /\ Infinite # Wording /\ Infinite # Absent /\ Wording # Absent

Number == Int \cup {NotANumber, Infinite, Wording, Absent}

Answer == [direction : {"up", "down", "none", "other"},
           confidence : Number, quality : Number]

Reply == [came : BOOLEAN, thought : {"to the end", "cut off"},
          drafts : Seq(Answer), answers : Seq(Answer)]

\* "anthropic" enforces a schema, "openai" asks for JSON and parses the reply.
Providers == {"anthropic", "openai"}

-----------------------------------------------------------------------------
(***************************************************************************)
(* Numbers.  Python's max(low, min(high, x)) answers `high` unless x is    *)
(* less than it, which NaN is not.                                         *)
(***************************************************************************)
Clamp(low, high, x) ==
  IF x \in Int /\ x < high THEN IF x > low THEN x ELSE low ELSE high

\* `normalise_quality`: rounded half up, and 0 for whatever is no number.
NormaliseQuality(value) ==
  IF value \in {Absent, Wording, NotANumber} THEN 0
  ELSE (Clamp(0, 100, value) + 5) \div 10

-----------------------------------------------------------------------------
(***************************************************************************)
(* The backends: which object they take for the answer, and what they make *)
(* of it.                                                                  *)
(***************************************************************************)
\* What is left once <think>...</think> is taken out.  A thought that was cut
\* off has no </think>, and stays.
Visible(reply) ==
  IF reply.thought = "to the end" THEN reply.answers ELSE reply.drafts \o reply.answers

\* The schema: a thought that was cut off has no answer, and the confidence has
\* its bounds, which NaN is not within.
ValidProposal(reply) ==
  /\ reply.thought = "to the end" /\ Len(reply.answers) = 1
  /\ reply.answers[1].direction # "other"
  /\ reply.answers[1].confidence \in 0 .. 100
  /\ reply.answers[1].quality # Wording

\* The span from the first brace to the last is JSON only if it is one object.
HoldsAnObject(objects) == Len(objects) = 1

\* (Faulty variant: a confidence that is no number is not asked about.)
UsableVerdictUnchecked(reply) ==
  /\ HoldsAnObject(Visible(reply))
  /\ Visible(reply)[1].direction # "other"

UsableVerdict(reply) ==
  /\ HoldsAnObject(Visible(reply))
  /\ Visible(reply)[1].direction # "other"
  /\ Visible(reply)[1].confidence # Wording

Understood(provider, reply) ==
  /\ reply.came
  /\ IF provider = "anthropic" THEN ValidProposal(reply) ELSE UsableVerdict(reply)

\* A verdict without a confidence has none.
StatedConfidence(answer) ==
  IF answer.confidence = Absent THEN 0 ELSE Clamp(0, 100, answer.confidence)

-----------------------------------------------------------------------------
(***************************************************************************)
(* `Proposer.propose`.  "none" is a view of no confidence, and so is every *)
(* failure.                                                                *)
(***************************************************************************)
NoView == [right |-> "call", confidence |-> 0, quality |-> 0]

OptionRight(direction) == IF direction = "up" THEN "call" ELSE "put"

Propose(provider, reply) ==
  IF Understood(provider, reply) /\ Visible(reply)[1].direction # "none"
  THEN LET answer == Visible(reply)[1]
       IN [right |-> OptionRight(answer.direction),
           confidence |-> StatedConfidence(answer),
           quality |-> NormaliseQuality(answer.quality)]
  ELSE NoView

-----------------------------------------------------------------------------
\* What may be traded on: the model thought it through and named one direction,
\* with a number of more than nothing behind it.
StatesAView(reply, right) ==
  /\ reply.came /\ reply.thought = "to the end" /\ Len(reply.answers) = 1
  /\ reply.answers[1].direction \in {"up", "down"}
  /\ right = OptionRight(reply.answers[1].direction)
  /\ \/ reply.answers[1].confidence = Infinite
     \/ reply.answers[1].confidence \in Int /\ reply.answers[1].confidence > 0

=============================================================================
