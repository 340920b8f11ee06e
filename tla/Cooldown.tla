------------------------------- MODULE Cooldown -------------------------------
(***************************************************************************)
(* The tables behind the cooldown, and the query made of them              *)
(* (src/src/agent/journal.py 244-282 and 511-608).  Journal keeps a number *)
(* of sessions left per name and counts it down; the program keeps no such *)
(* number.  It keeps rows that are dated, and counts the days between the  *)
(* latest `closed` of a name and today that have a decision row.           *)
(*                                                                         *)
(* A date is kept as its age: 0 is today, 1 the last day cron ran on.      *)
(* (Journal rows and the query take the same day for today: the agent runs *)
(* on a machine whose date is the UTC date while it trades.)               *)
(***************************************************************************)
EXTENDS Integers, FiniteSetsExt

CONSTANTS
  Underlying,    \* the symbols of the watchlist
  CooldownDays,  \* settings.cooldown_days, in sessions
  Reach          \* the query's floor: rows older than this are not looked at

ASSUME CooldownAssumption ==
  /\ IsFiniteSet(Underlying)
  /\ CooldownDays \in Nat
  /\ Reach \in Nat /\ CooldownDays < Reach

VARIABLES
  closed_age,    \* events: the age of the latest `closed` of a name, or Never
  decision_ages  \* decisions: the ages of the days with a row

cooldownVars == <<closed_age, decision_ages>>

Never == -1

Ages == 0 .. Reach

CooldownTypeOK ==
  /\ closed_age \in [Underlying -> Ages \cup {Never}]
  /\ decision_ages \subseteq Ages

-----------------------------------------------------------------------------
\* The days counted for a name: after its close, and before today.
\* (Faulty variant: today counts as soon as it has a row.)
SessionsWithToday(u) == {age \in decision_ages : age < closed_age[u]}

Sessions(u) == {age \in decision_ages : 0 < age /\ age < closed_age[u]}

\* `cooling_off`: a name that is not listed has no sessions left to wait.
CoolingOff ==
  [u \in Underlying |->
     IF closed_age[u] = Never THEN 0
     ELSE Max({0, CooldownDays - Cardinality(Sessions(u))})]

-----------------------------------------------------------------------------
RecordClosed(u) ==
  /\ closed_age' = [closed_age EXCEPT ![u] = 0]
  /\ UNCHANGED decision_ages

RecordDecision ==
  /\ decision_ages' = decision_ages \cup {0}
  /\ UNCHANGED closed_age

\* (Faulty variant: the query has no floor.)
OlderWithoutEnd(age) == IF age = Never THEN Never ELSE age + 1

\* Rows beyond the floor are there still, and never seen again.
Older(age) == IF age = Never \/ age = Reach THEN Never ELSE age + 1

DateChanges ==
  /\ closed_age' = [u \in Underlying |-> Older(closed_age[u])]
  /\ decision_ages' = {age + 1 : age \in decision_ages \ {Reach}}

=============================================================================
