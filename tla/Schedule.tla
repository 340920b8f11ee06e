------------------------------- MODULE Schedule -------------------------------
(***************************************************************************)
(* How passes come to run: two cron lines, the wrapper they start, the     *)
(* lock it takes, and the Python process under it (src/deploy/             *)
(* crontab.example, src/deploy/run_pass.sh, src/run.py 268-345).           *)
(*                                                                         *)
(* TradingPass starts a pass whenever none runs.  Here is why none does,   *)
(* how long the book may go unwatched, and what is said when it does.      *)
(* Time is the five minutes between two cron lines; a pass is              *)
(*                                                                         *)
(*   start -> look (and exits) -> screen (full only) -> think -> end       *)
(***************************************************************************)
EXTENDS Cooldown

CONSTANTS
  Job,         \* wrappers that may be alive at once
  Minutes,     \* bound: the minutes of a trading day at which a line may be due
  Patience,    \* for how many slots a full pass runs, if all goes well
  Notices,     \* what may come of a notice that is due, see Notice
  Mishaps,     \* what may go wrong, see Mishap
  MaxMishaps   \* bound: how often something may go wrong in a behaviour

ASSUME ScheduleAssumption ==
  /\ IsFiniteSet(Job)
  /\ Minutes \subseteq {5 * n : n \in 0 .. 11} /\ 0 \in Minutes
  /\ Patience \in Nat \ {0}
  /\ MaxMishaps \in Nat

ASSUME NoticesAssumption ==
  Notices # {} /\ Notices \subseteq {"posted", "failed", "no webhook"}

Kinds == {"full", "exits"}

\* A pass died or could not read the account, had no model, failed and its
\* wrapper said so, or could not; or something went wrong that no wrapper sees.
Happenings == {"died", "no model", "told", "unsent", "quiet"}

Stages == {"none", "start", "look", "screen", "think"}

VARIABLES
  minute,   \* of the hour; the trading day ends with the last of Minutes
  session,  \* the market opens today
  due,      \* cron lines of this minute that have not been started yet
  wrapper,  \* jobs whose run_pass.sh is alive
  stage,    \* where the Python process of a job is, "none" when it has none
  kind,     \* what a job was started as
  slots,    \* the five-minute slots a job has been running for
  gap,      \* slots since a pass last looked at the book of an open market
  since,    \* what has happened since, see Happenings
  mishaps

jobVars == <<wrapper, stage, kind, slots>>
watchVars == <<gap, since>>
timeVars == <<minute, session, due>>
vars == <<cooldownVars, timeVars, jobVars, watchVars, mishaps>>

TypeOK ==
  /\ CooldownTypeOK
  /\ minute \in Minutes /\ session \in BOOLEAN /\ due \subseteq Kinds
  /\ wrapper \subseteq Job
  /\ stage \in [Job -> Stages] /\ kind \in [Job -> Kinds]
  /\ slots \in [Job -> Nat]
  /\ gap \in Nat /\ since \subseteq Happenings
  /\ mishaps \in 0 .. MaxMishaps

Init ==
  /\ closed_age = [u \in Underlying |-> Never] /\ decision_ages = {}
  /\ minute = 0 /\ session = TRUE /\ due = {"full"}
  /\ wrapper = {} /\ stage = [j \in Job |-> "none"]
  /\ kind = [j \in Job |-> "full"] /\ slots = [j \in Job |-> 0]
  /\ gap = 0 /\ since = {} /\ mishaps = 0

-----------------------------------------------------------------------------
(***************************************************************************)
(* The crontab: */15, and the other multiples of five by name.             *)
(***************************************************************************)
FullMinutes == {m \in Minutes : m % 15 = 0}

\* (Faulty variant: */5.)
EveryFive == {m \in Minutes : m % 5 = 0}

ExitsMinutes == {m \in Minutes : m % 5 = 0 /\ m % 15 # 0}

LinesAt(m) ==
  (IF m \in FullMinutes THEN {"full"} ELSE {}) \cup
  (IF m \in ExitsMinutes THEN {"exits"} ELSE {})

Running == {j \in Job : stage[j] # "none"}

\* Something goes wrong: "dies" the Python process does, or cannot read the
\* account, "killed" its wrapper does, "reboot" the machine does, "overrun" a
\* pass takes longer than it should.
Mishap(what) ==
  /\ what \in Mishaps
  /\ mishaps < MaxMishaps
  /\ mishaps' = mishaps + 1

Fine == UNCHANGED mishaps

\* All is well with a job when the next minute comes: it has looked at the
\* book, and is a full pass with time left to think.
InTime(j) == kind[j] = "full" /\ stage[j] = "think" /\ slots[j] + 1 < Patience

TimePasses ==
  /\ slots' = [j \in Job |-> IF j \in Running THEN slots[j] + 1 ELSE 0]
  /\ IF \A j \in Running : InTime(j)
     THEN Fine /\ UNCHANGED since
     ELSE Mishap("overrun") /\ since' = since \cup {"quiet"}

Tick ==
  /\ due = {}
  /\ minute + 5 \in Minutes
  /\ minute' = minute + 5
  /\ due' = LinesAt(minute + 5)
  /\ gap' = IF session THEN gap + 1 ELSE 0
  /\ TimePasses
  /\ UNCHANGED <<cooldownVars, session, wrapper, stage, kind>>

\* Nights and weekends, on which cron starts nothing, take whatever is running
\* with them: no pass is that slow.
NewDay(open) ==
  /\ due = {} /\ minute + 5 \notin Minutes
  /\ Running = {}
  /\ DateChanges
  /\ minute' = 0 /\ session' = open /\ due' = LinesAt(0)
  /\ gap' = 0 /\ since' = {}
  /\ Fine
  /\ UNCHANGED jobVars

-----------------------------------------------------------------------------
(***************************************************************************)
(* run_pass.sh.  The lock belongs to the open descriptor 9, which Python   *)
(* inherits: it is free once neither of the two is alive.                  *)
(***************************************************************************)
\* (Faulty variant: the descriptor is closed on exec.)
HeldByItsWrapper(j) == j \in wrapper

HoldsTheLock(j) == j \in wrapper \/ stage[j] # "none"

LockFree == \A j \in Job : ~HoldsTheLock(j)

CronStarts(k, j) ==
  /\ k \in due
  /\ LockFree
  /\ j \notin wrapper /\ stage[j] = "none"
  /\ due' = due \ {k}
  /\ wrapper' = wrapper \cup {j}
  /\ stage' = [stage EXCEPT ![j] = "start"]
  /\ kind' = [kind EXCEPT ![j] = k]
  /\ slots' = [slots EXCEPT ![j] = 0]
  /\ Fine
  /\ UNCHANGED <<cooldownVars, minute, session, watchVars>>

\* A line of the log, and exit 0.
CronSkips(k) ==
  /\ k \in due
  /\ ~LockFree
  /\ due' = due \ {k}
  /\ Fine
  /\ UNCHANGED <<cooldownVars, minute, session, jobVars, watchVars>>

\* (Faulty variant: the status of the pass is lost.)
NoticeOfNothing(j, outcome) == {}

\* The wrapper tells of any exit other than 0, if it is there to see it, if .env
\* names a webhook (with no such line the script ends at the grep), and if curl
\* gets through in ten seconds, which is not asked.
Notice(j, outcome) ==
  IF j \notin wrapper THEN {} ELSE IF outcome = "posted" THEN {"told"} ELSE {"unsent"}

Gone(j) ==
  /\ stage' = [stage EXCEPT ![j] = "none"]
  /\ wrapper' = wrapper \ {j}
  /\ slots' = [slots EXCEPT ![j] = 0]

Fails(j, what) ==
  /\ Gone(j)
  /\ \E outcome \in Notices : since' = since \cup {what} \cup Notice(j, outcome)
  /\ UNCHANGED <<cooldownVars, timeVars, kind, gap>>

Dies(j) ==
  /\ stage[j] # "none"
  /\ Fails(j, "died")
  /\ Mishap("dies")

Killed(j) ==
  /\ j \in wrapper
  /\ wrapper' = wrapper \ {j}
  /\ since' = since \cup {"quiet"}
  /\ Mishap("killed")
  /\ UNCHANGED <<cooldownVars, timeVars, stage, kind, slots, gap>>

Reboot ==
  /\ Running # {}
  /\ wrapper' = {}
  /\ stage' = [j \in Job |-> "none"]
  /\ slots' = [j \in Job |-> 0]
  /\ since' = since \cup {"quiet"}
  /\ Mishap("reboot")
  /\ UNCHANGED <<cooldownVars, timeVars, kind, gap>>

-----------------------------------------------------------------------------
(***************************************************************************)
(* `cmd_trade`, and what of `run_pass` the schedule is about.              *)
(***************************************************************************)
\* (Faulty variant: every pass does.)
EveryPassNeedsAModel(j) == TRUE

NeedsAModel(j) == kind[j] = "full"

Enters(j, from, to) ==
  /\ stage[j] = from
  /\ stage' = [stage EXCEPT ![j] = to]
  /\ UNCHANGED <<timeVars, wrapper, kind, slots>>

\* `build_backend`, with the key it looks for in the environment; an exits-only
\* pass builds none.
Built(j) ==
  /\ Enters(j, "start", "look")
  /\ Fine
  /\ UNCHANGED <<cooldownVars, watchVars>>

\* ModelUnavailable: exit 1 before the book is looked at.
NoModel(j) ==
  /\ stage[j] = "start"
  /\ NeedsAModel(j)
  /\ Fails(j, "no model")
  /\ Fine

\* The exits have run; a sale of an earlier pass may have been booked.
Looks(j) ==
  /\ session
  /\ Enters(j, "look", IF kind[j] = "full" THEN "screen" ELSE "think")
  /\ gap' = 0 /\ since' = {}
  /\ UNCHANGED cooldownVars \/ \E u \in Underlying : RecordClosed(u)
  /\ Fine

\* Screening leaves a decision row for every name, sooner or later.
Screens(j) ==
  /\ Enters(j, "screen", "think")
  /\ RecordDecision
  /\ Fine
  /\ UNCHANGED watchVars

\* The pass has done what it was started for, or has found the market closed,
\* or looks for no entries as it cannot read the clock or the open orders.
Ends(j) ==
  /\ stage[j] \in {"screen", "think"} \/ (stage[j] = "look" /\ ~session)
  /\ Gone(j)
  /\ Fine
  /\ UNCHANGED <<cooldownVars, timeVars, kind, watchVars>>

JobStep(j) == Built(j) \/ NoModel(j) \/ Looks(j) \/ Screens(j) \/ Ends(j)

CronStep == \E k \in Kinds : CronSkips(k) \/ \E j \in Job : CronStarts(k, j)

Next ==
  \/ Tick \/ CronStep \/ Reboot
  \/ \E open \in BOOLEAN : NewDay(open)
  \/ \E j \in Job : JobStep(j) \/ Dies(j) \/ Killed(j)

Spec == Init /\ [][Next]_vars

BuiltInSession(j) == Built(j) /\ kind[j] = "full" /\ session

\* cron goes on, and so does every process that runs; there are days on which
\* the market opens, and the key of the model is not missing for good.
Fairness ==
  /\ WF_vars(Tick) /\ WF_vars(CronStep)
  /\ SF_vars(NewDay(TRUE))
  /\ \A j \in Job : WF_vars(JobStep(j)) /\ SF_vars(BuiltInSession(j))

FairSpec == Spec /\ Fairness

-----------------------------------------------------------------------------
(***************************************************************************)
(* Why a position is watched: the inductive invariant of what follows.     *)
(***************************************************************************)
\* One job holds the lock; a wrapper is there for as long as its Python.
LockInv ==
  /\ \A i, j \in Job : HoldsTheLock(i) /\ HoldsTheLock(j) => i = j
  /\ wrapper \subseteq Running

AboutToLook(j) == stage[j] \in {"start", "look"}

\* Nothing has happened that keeps passes from looking, or no wrapper saw it.
Undisturbed ==
  /\ "quiet" \notin since
  /\ "died" \notin since \/ since \cap {"told", "unsent"} = {}

\* A closed market leaves nothing unwatched.
LinesInv ==
  /\ due \subseteq LinesAt(minute)
  /\ ~session => gap = 0

\* A pass that no wrapper waits for, and that has not looked yet, is the work of
\* a kill.
OrphanInv == \A j \in Job : AboutToLook(j) /\ j \notin wrapper => "quiet" \in since

\* While nobody is about to look, the pass that thinks has looked not long ago,
\* or the full pass of this minute had no model; and the line after a full one
\* is never a full one.
SightInv ==
  Undisturbed =>
    /\ gap <= Patience + 1
    /\ \A j \in Job : AboutToLook(j) => due = {} /\ kind[j] \in LinesAt(minute)
    /\ \A j \in Running : AboutToLook(j) \/ (gap <= slots[j] /\ gap < Patience)
    /\ minute \in FullMinutes => gap <= Patience
    /\ due = {} /\ (\A j \in Job : ~AboutToLook(j)) =>
         gap < Patience \/ minute \in FullMinutes

WatchInv == LinesInv /\ OrphanInv /\ SightInv

IInv == TypeOK /\ LockInv /\ WatchInv

(***************************************************************************)
(* What the schedule is for.                                               *)
(***************************************************************************)
\* No two passes of cron read the same free slot, whoever of wrapper and Python
\* is killed first (run_pass.sh 16-18 and 68-79).
OnePassAtATime == Cardinality(Running) <= 1

\* As long as passes are in time and none dies, a position goes unwatched for no
\* longer than a full pass may think and one slot more, with or without a model
\* (crontab.example 40-50, run.py 283-287).
StopsAreWatched ==
  since \cap {"died", "quiet"} = {} => gap <= Patience + 1

\* Beyond that, a wrapper has seen a pass fail since the last look, and has told
\* somebody but for three ways nobody can be: a notice that does not get out, as
\* there is no webhook or curl fails; a wrapper that is gone; and a pass that goes
\* on and on (run_pass.sh 88-111, install.sh 87-89).
UnwatchedIsAnnounced ==
  gap > Patience + 1 => since \cap {"told", "unsent", "quiet"} # {}

\* The exits-only passes never keep the full ones from running for good
\* (crontab.example 46-49).
FullPassesGoOn == []<>(\E j \in Job : stage[j] = "screen")

\* The query over dated rows is the count-down that Journal keeps, for as long
\* as the latest close of every name is within its reach (journal.py 514-532):
\* days without a full pass that screened, days without a session and today
\* itself do not shorten a cooldown, and a name closed again starts over.
J == INSTANCE Journal
     WITH cooling <- CoolingOff,
          closedToday <- {u \in Underlying : closed_age[u] = 0},
          decided <- 0 \in decision_ages,
          holdings <- {}, announced <- {}, unbooked <- {}

OutOfReach(u) == closed_age[u] = Reach /\ closed_age'[u] = Never

CountsSessions ==
  [][\/ J!RecordDecision \/ J!DateChanges
     \/ \E u \in Underlying : J!RecordClosed(u, u) \/ OutOfReach(u)]_(J!journalVars)

=============================================================================
