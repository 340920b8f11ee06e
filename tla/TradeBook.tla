------------------------------ MODULE TradeBook ------------------------------
(***************************************************************************)
(* What the journal promises of trades, with nothing said of passes,       *)
(* snapshots or failures (src/src/agent/loop.py 99-174 and 232-265,        *)
(* src/src/agent/journal.py 425-433 and 488-506).                          *)
(*                                                                         *)
(* A position leaves the account once, whoever sold it, and is then owed   *)
(* one `closed` event, from which its cooldown is measured.  A trade the   *)
(* agent sold itself is closed as that sale, with its reason and its       *)
(* profit, and only after the position has left.  A trade closed as one    *)
(* "outside the agent" is one the agent has sold nothing of.               *)
(***************************************************************************)
CONSTANT Contract

VARIABLES
  owned,  \* contracts with a position
  gone,   \* contracts whose position left and was not written off since
  sold,   \* contracts with a sale by the agent that was not written off since
  closing \* what has just been closed, as a sale or as done by someone else

vars == <<owned, gone, sold, closing>>

Nothing == [sale |-> {}, outside |-> {}]

Init ==
  /\ owned \subseteq Contract
  /\ gone = {}
  /\ sold = {}
  /\ closing = Nothing

Enters(c) ==
  /\ owned' = owned \cup {c}
  /\ UNCHANGED <<gone, sold, closing>>

Leaves(c) ==
  /\ c \in owned
  /\ owned' = owned \ {c}
  /\ gone' = gone \cup {c}
  /\ UNCHANGED <<sold, closing>>

\* The agent sells what it has, or had a moment ago.
SaleIsRecorded(c) ==
  /\ c \in owned \cup gone
  /\ sold' = sold \cup {c}
  /\ UNCHANGED <<owned, gone, closing>>

SaleIsClosed(c) ==
  /\ c \in sold \cap gone
  /\ gone' = gone \ {c}
  /\ sold' = sold \ {c}
  /\ closing' = [Nothing EXCEPT !.sale = {c}]
  /\ UNCHANGED owned

\* Nothing need have left: the row of an order that expired may look like one
\* whose position was closed.  A sale is never written off this way.
ClosedOutside(c) ==
  /\ c \notin sold
  /\ gone' = gone \ {c}
  /\ closing' = [Nothing EXCEPT !.outside = {c}]
  /\ UNCHANGED <<owned, sold>>

\* The row of what was closed goes as well, or the process dies before it can.
Settled ==
  /\ closing' = Nothing
  /\ UNCHANGED <<owned, gone, sold>>

Next ==
  \/ \E c \in Contract :
       \/ Enters(c) \/ Leaves(c)
       \/ SaleIsRecorded(c) \/ SaleIsClosed(c) \/ ClosedOutside(c)
  \/ Settled

Spec == Init /\ [][Next]_vars

=============================================================================
