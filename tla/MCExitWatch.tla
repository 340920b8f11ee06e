----------------------------- MODULE MCExitWatch -----------------------------
(***************************************************************************)
(* ExitWatch on a chain of four contracts, with the levels of every rule   *)
(* hit, missed by a cent, and passed.                                      *)
(***************************************************************************)
EXTENDS ExitWatch

Quoted(right, days) ==
  [right |-> right, monthly |-> TRUE, delta |-> 65, bid |-> 24, ask |-> 25,
   days |-> days, richness |-> 100, decay |-> 100]

\* A call and a put with time left, and two that the close-out window shuts out.
MCChain == {Quoted(right, days) : right \in Rights, days \in {7, 35}}

\* Paid 24 or 25: the floor is at 18, the arm at 27 or 28, the trail of a peak
\* of 38 at 30, and the premium target at 36 or 38.
MCMarks == {12, 18, 19, 22, 25, 28, 30, 38}

\* From 100: half the way to the stop, the stop, the target, and short of each.
MCSpots == {92, 96, 98, 99, 100, 108}

\* None, one without a bid, one without an ask, and one with both.
MCAnswers ==
  {[bid |-> Missing, ask |-> Missing], [bid |-> Missing, ask |-> 5],
   [bid |-> 30, ask |-> Missing], [bid |-> 12, ask |-> 20]}

\* The settings of the run leave the room that a theorem asks for.
ASSUME SettingsFit == SettingsLeaveRoom

=============================================================================
