------------------------------- MODULE Journal -------------------------------
(***************************************************************************)
(* The agent's memory between passes: src/src/agent/journal.py.            *)
(*                                                                         *)
(* The SQLite tables are kept to what a rule reads back.  `holdings` is    *)
(* the set of contracts with a row; the `events` table is kept as the      *)
(* answers of the queries made of it (`unannounced_fills`,                 *)
(* `unbooked_sales`, the latest `closed` day of `cooling_off`); the        *)
(* `decisions` table as whether today has a row, which is all a cooldown   *)
(* counts.  Each operator is one transaction, as each method of Journal is *)
(* one connection: a crash falls between operators, never inside one.      *)
(***************************************************************************)
EXTENDS Integers

CONSTANT CooldownDays   \* settings.cooldown_days, in sessions

ASSUME CooldownAssumption == CooldownDays \in Nat

VARIABLES
  holdings,     \* contracts with a holdings row: the levels its stop needs
  announced,    \* rows an `opened` event was written for since they were made
  unbooked,     \* contracts whose latest `sold` has no later `closed`
  cooling,      \* sessions of cooldown left, per underlying
  closedToday,  \* underlyings whose latest `closed` is dated today
  decided       \* whether a decision row is dated today

journalVars == <<holdings, announced, unbooked, cooling, closedToday, decided>>

JournalTypeOK(Contract, Underlying) ==
  /\ holdings \subseteq Contract
  /\ announced \subseteq holdings
  /\ unbooked \subseteq Contract
  /\ cooling \in [Underlying -> 0 .. CooldownDays]
  /\ closedToday \subseteq Underlying
  /\ decided \in BOOLEAN

\* `INSERT OR REPLACE`: a second order on a contract takes over its row, and
\* the fresh `opened_at` makes its fill one that was not announced yet.
OpenHolding(c) ==
  /\ holdings' = holdings \cup {c}
  /\ announced' = announced \ {c}
  /\ UNCHANGED <<unbooked, cooling, closedToday, decided>>

CloseHolding(c) ==
  /\ holdings' = holdings \ {c}
  /\ announced' = announced \ {c}
  /\ UNCHANGED <<unbooked, cooling, closedToday, decided>>

\* `unannounced_fills`: the held contracts with a row and no `opened` event
\* written since the row; recording `opened` for each takes it off the list.
UnannouncedFills(positions) == (holdings \ announced) \cap positions

RecordOpened(S) ==
  /\ announced' = announced \cup S
  /\ UNCHANGED <<holdings, unbooked, cooling, closedToday, decided>>

RecordSold(c) ==
  /\ unbooked' = unbooked \cup {c}
  /\ UNCHANGED <<holdings, announced, cooling, closedToday, decided>>

\* (Two faulty variants: one leaves the sale on the books, one waits for a
\* session too many.)
RecordClosedUnbooked(c, u) ==
  /\ cooling' = [cooling EXCEPT ![u] = CooldownDays]
  /\ closedToday' = closedToday \cup {u}
  /\ UNCHANGED <<holdings, announced, unbooked, decided>>

RecordClosedOneTooMany(c, u) ==
  /\ unbooked' = unbooked \ {c}
  /\ cooling' = [cooling EXCEPT ![u] = CooldownDays + 1]
  /\ closedToday' = closedToday \cup {u}
  /\ UNCHANGED <<holdings, announced, decided>>

\* A `closed` event books the latest sale of the contract, if there is one,
\* and is what `cooling_off` measures from, whatever the reason and the P&L.
RecordClosed(c, u) ==
  /\ unbooked' = unbooked \ {c}
  /\ cooling' = [cooling EXCEPT ![u] = CooldownDays]
  /\ closedToday' = closedToday \cup {u}
  /\ UNCHANGED <<holdings, announced, decided>>

RecordDecision ==
  /\ decided' = TRUE
  /\ UNCHANGED <<holdings, announced, unbooked, cooling, closedToday>>

\* The date changes.  A day counts as a session once it is over, if decisions
\* were recorded on it, for every close dated before it.
SessionsLeft(u) ==
  IF decided /\ u \notin closedToday /\ cooling[u] > 0
  THEN cooling[u] - 1
  ELSE cooling[u]

DateChanges ==
  /\ cooling' = [u \in DOMAIN cooling |-> SessionsLeft(u)]
  /\ closedToday' = {}
  /\ decided' = FALSE
  /\ UNCHANGED <<holdings, announced, unbooked>>

=============================================================================
