---------------------------- MODULE ScheduleProofs ----------------------------
(***************************************************************************)
(* Schedule, for any number of jobs, any part of the hour, any patience    *)
(* and any number of mishaps.                                              *)
(***************************************************************************)
EXTENDS Schedule, FiniteSetTheorems, TLAPS

-----------------------------------------------------------------------------
\* The dates, the clock and the jobs are separate concerns, and provers differ
\* on them.
TimeTypeOK ==
  /\ minute \in Minutes /\ session \in BOOLEAN /\ due \subseteq Kinds

JobTypeOK ==
  /\ wrapper \subseteq Job
  /\ stage \in [Job -> Stages] /\ kind \in [Job -> Kinds]
  /\ slots \in [Job -> Nat]

WatchTypeOK ==
  gap \in Nat /\ since \subseteq Happenings /\ mishaps \in 0 .. MaxMishaps

LEMMA DatesStep == CooldownTypeOK /\ [Next]_vars => CooldownTypeOK'
<1> SUFFICES ASSUME CooldownTypeOK, [Next]_vars
             PROVE  CooldownTypeOK'
  OBVIOUS
<1>0. Reach \in Nat
  BY CooldownAssumption
<1>1. CASE UNCHANGED cooldownVars
  BY <1>1 DEF CooldownTypeOK, cooldownVars
<1>2. CASE DateChanges
  <2>1. \A age \in Ages \cup {Never} : Older(age) \in Ages \cup {Never}
    BY <1>0 DEF Older, Ages, Never
  <2>2. closed_age' \in [Underlying -> Ages \cup {Never}]
    BY <1>2, <2>1 DEF DateChanges, CooldownTypeOK
  <2>3. \A age \in Ages \ {Reach} : age + 1 \in Ages
    BY <1>0 DEF Ages
  <2>4. decision_ages' \subseteq Ages
    BY <1>2, <2>3 DEF DateChanges, CooldownTypeOK
  <2>. QED
    BY <2>2, <2>4 DEF CooldownTypeOK
<1>3. ASSUME NEW u \in Underlying, RecordClosed(u)
      PROVE  CooldownTypeOK'
  BY <1>0, <1>3 DEF RecordClosed, CooldownTypeOK, Ages
<1>4. CASE RecordDecision
  BY <1>0, <1>4 DEF RecordDecision, CooldownTypeOK, Ages
<1>5. \/ UNCHANGED cooldownVars \/ DateChanges \/ RecordDecision
      \/ \E u \in Underlying : RecordClosed(u)
  BY DEF Next, Tick, CronStep, CronStarts, CronSkips, Reboot, NewDay, JobStep, Built,
         NoModel, Fails, Looks, Screens, Ends, Dies, Killed, vars
<1>. QED
  BY <1>1, <1>2, <1>3, <1>4, <1>5

LEMMA TimeStep == TimeTypeOK /\ [Next]_vars => TimeTypeOK'
<1> SUFFICES ASSUME TimeTypeOK, [Next]_vars
             PROVE  TimeTypeOK'
  OBVIOUS
<1>0. 0 \in Minutes /\ \A m \in Minutes : LinesAt(m) \subseteq Kinds
  BY ScheduleAssumption DEF LinesAt, Kinds
<1>1. CASE Tick
  BY <1>0, <1>1 DEF Tick, TimeTypeOK
<1>2. ASSUME NEW open \in BOOLEAN, NewDay(open)
      PROVE  TimeTypeOK'
  BY <1>0, <1>2 DEF NewDay, TimeTypeOK
<1>3. CASE CronStep
  BY <1>3 DEF CronStep, CronStarts, CronSkips, TimeTypeOK
<1>4. CASE UNCHANGED timeVars
  BY <1>4 DEF timeVars, TimeTypeOK
<1>5. Tick \/ CronStep \/ (\E open \in BOOLEAN : NewDay(open)) \/ UNCHANGED timeVars
  BY DEF Next, Reboot, JobStep, Built, NoModel, Fails, Looks, Screens, Ends, Enters,
         Dies, Killed, vars
<1>. QED
  BY <1>1, <1>2, <1>3, <1>4, <1>5

LEMMA JobTypeStep == JobTypeOK /\ [Next]_vars => JobTypeOK'
<1> SUFFICES ASSUME JobTypeOK, [Next]_vars
             PROVE  JobTypeOK'
  OBVIOUS
<1>1. CASE Tick
  BY <1>1 DEF Tick, TimePasses, JobTypeOK
<1>2. CASE CronStep
  BY <1>2 DEF CronStep, CronStarts, CronSkips, JobTypeOK, Stages, Kinds, jobVars
<1>3. CASE Reboot
  BY <1>3 DEF Reboot, JobTypeOK, Stages
<1>4. ASSUME NEW j \in Job, Gone(j), UNCHANGED kind
      PROVE  JobTypeOK'
  BY <1>4 DEF Gone, JobTypeOK, Stages
<1>5. ASSUME NEW j \in Job, Built(j) \/ Looks(j) \/ Screens(j)
      PROVE  JobTypeOK'
  BY <1>5 DEF Built, Looks, Screens, Enters, JobTypeOK, Stages
<1>6. ASSUME NEW j \in Job, Killed(j)
      PROVE  JobTypeOK'
  BY <1>6 DEF Killed, JobTypeOK
<1>7. CASE UNCHANGED jobVars
  BY <1>7 DEF jobVars, JobTypeOK
<1>8. \/ Tick \/ CronStep \/ Reboot \/ UNCHANGED jobVars
      \/ \E j \in Job : \/ Gone(j) /\ UNCHANGED kind
                       \/ Built(j) \/ Looks(j) \/ Screens(j) \/ Killed(j)
  BY DEF Next, NewDay, JobStep, NoModel, Fails, Ends, Dies, vars
<1>. QED
  BY <1>1, <1>2, <1>3, <1>4, <1>5, <1>6, <1>7, <1>8

LEMMA WatchTypeStep == WatchTypeOK /\ [Next]_vars => WatchTypeOK'
<1> SUFFICES ASSUME WatchTypeOK, [Next]_vars
             PROVE  WatchTypeOK'
  OBVIOUS
<1>1. mishaps' \in 0 .. MaxMishaps
  <2>1. mishaps' = mishaps \/ (mishaps < MaxMishaps /\ mishaps' = mishaps + 1)
    BY DEF Next, Tick, TimePasses, CronStep, CronStarts, CronSkips, Reboot, NewDay,
           JobStep, Built, NoModel, Looks, Screens, Ends, Dies, Killed, Mishap, Fine, vars
  <2>2. MaxMishaps \in Nat
    BY ScheduleAssumption
  <2>. QED
    BY <2>1, <2>2 DEF WatchTypeOK
<1>2. gap' \in Nat
  <2>1. gap' = gap \/ gap' = gap + 1 \/ gap' = 0
    BY DEF Next, Tick, CronStep, CronStarts, CronSkips, Reboot, NewDay, JobStep, Built,
           NoModel, Fails, Looks, Screens, Ends, Dies, Killed, watchVars, vars
  <2>. QED
    BY <2>1 DEF WatchTypeOK
<1>3. since' \subseteq Happenings
  <2> USE DEF WatchTypeOK, Happenings
  <2>1. ASSUME NEW j \in Job, NEW what \in {"died", "no model"}, Fails(j, what)
        PROVE  since' \subseteq Happenings
    BY <2>1 DEF Fails, Notice
  <2>2. \/ UNCHANGED since \/ since' = {} \/ since' = since \cup {"quiet"}
        \/ \E j \in Job : Fails(j, "died") \/ Fails(j, "no model")
    BY DEF Next, Tick, TimePasses, CronStep, CronStarts, CronSkips, Reboot,
           NewDay, JobStep, Built, NoModel, Looks, Screens, Ends, Dies, Killed,
           watchVars, vars
  <2>. QED
    BY <2>1, <2>2
<1>. QED
  BY <1>1, <1>2, <1>3 DEF WatchTypeOK

LEMMA TypeSplit ==
  TypeOK <=> CooldownTypeOK /\ TimeTypeOK /\ JobTypeOK /\ WatchTypeOK
  BY DEF TypeOK, TimeTypeOK, JobTypeOK, WatchTypeOK

LEMMA LockStep == TypeOK /\ LockInv /\ [Next]_vars => LockInv'
<1> SUFFICES ASSUME TypeOK, LockInv, [Next]_vars
             PROVE  LockInv'
  OBVIOUS
<1> USE DEF TypeOK, LockInv, HoldsTheLock, Running, jobVars, Stages
<1>1. CASE Tick \/ UNCHANGED vars
  BY <1>1 DEF Tick, TimePasses, vars
<1>2. ASSUME NEW open \in BOOLEAN, NewDay(open)
      PROVE  LockInv'
  BY <1>2 DEF NewDay
<1>3. CASE CronStep
  BY <1>3 DEF CronStep, CronStarts, CronSkips, LockFree
<1>4. CASE Reboot
  BY <1>4 DEF Reboot
<1>5. ASSUME NEW j \in Job, JobStep(j) \/ Dies(j) \/ Killed(j)
      PROVE  LockInv'
  BY <1>5
     DEF JobStep, Dies, Killed, NoModel, Fails, Gone, Built, Screens, Ends, Looks, Enters
<1>. QED
  BY <1>1, <1>2, <1>3, <1>4, <1>5 DEF Next

-----------------------------------------------------------------------------
(***************************************************************************)
(* The minutes of the two lines.                                           *)
(***************************************************************************)
LEMMA OneLineAMinute ==
  ASSUME NEW m \in Minutes
  PROVE  LinesAt(m) = IF m \in FullMinutes THEN {"full"} ELSE {"exits"}
<1>1. PICK n \in 0 .. 11 : m = 5 * n
  BY ScheduleAssumption
<1>2. m % 5 = 0
  BY <1>1
<1>. QED
  BY <1>2 DEF LinesAt, FullMinutes, ExitsMinutes

LEMMA FullLinesAreApart ==
  ASSUME NEW m \in FullMinutes
  PROVE  m + 5 \notin FullMinutes
<1>1. m \in Minutes /\ m % 15 = 0
  BY DEF FullMinutes
<1>2. PICK n \in 0 .. 11 : m = 5 * n
  BY <1>1, ScheduleAssumption
<1>3. (m + 5) % 15 # 0
  BY <1>1, <1>2
<1>. QED
  BY <1>3 DEF FullMinutes

-----------------------------------------------------------------------------
(***************************************************************************)
(* The book stays in sight.                                                *)
(***************************************************************************)
LEMMA LinesStep == TypeOK /\ LinesInv /\ [Next]_vars => LinesInv'
<1> SUFFICES ASSUME TypeOK, LinesInv, [Next]_vars
             PROVE  LinesInv'
  OBVIOUS
<1>1. ASSUME due' \subseteq due, minute' = minute
      PROVE  due' \subseteq LinesAt(minute')
  BY <1>1 DEF LinesInv
<1>2. due' \subseteq LinesAt(minute')
  BY <1>1
     DEF Next, Tick, CronStep, CronStarts, CronSkips, Reboot, NewDay, JobStep, Built,
         NoModel, Fails, Looks, Screens, Ends, Enters, Dies, Killed, timeVars, vars
<1>3. gap' = 0 \/ (gap' = gap /\ session' = session) \/ (session /\ session' = session)
  BY DEF Next, Tick, CronStep, CronStarts, CronSkips, Reboot, NewDay, JobStep, Built,
         NoModel, Fails, Looks, Screens, Ends, Enters, Dies, Killed, timeVars, watchVars,
         vars
<1>4. ~session' => gap' = 0
  BY <1>3 DEF LinesInv
<1>. QED
  BY <1>2, <1>4 DEF LinesInv

LEMMA OrphanStep == TypeOK /\ LockInv /\ OrphanInv /\ [Next]_vars => OrphanInv'
<1> SUFFICES ASSUME TypeOK, LockInv, OrphanInv, [Next]_vars,
                    NEW i \in Job, AboutToLook(i)', i \notin wrapper'
             PROVE  "quiet" \in since'
  BY DEF OrphanInv
<1>0. stage \in [Job -> Stages] /\ wrapper \subseteq Job
  BY DEF TypeOK
<1>1. ASSUME AboutToLook(i), i \notin wrapper, since \subseteq since'
      PROVE  "quiet" \in since'
  BY <1>1 DEF OrphanInv
<1>2. CASE Tick
  BY <1>1, <1>2 DEF Tick, TimePasses, Fine, AboutToLook
<1>3. ASSUME NEW open \in BOOLEAN, NewDay(open)
      PROVE  FALSE
  BY <1>3 DEF NewDay, Running, AboutToLook, jobVars
<1>4. CASE CronStep
  BY <1>0, <1>1, <1>4 DEF CronStep, CronStarts, CronSkips, jobVars, watchVars, AboutToLook
<1>5. CASE Reboot
  BY <1>5 DEF Reboot
<1>6. ASSUME NEW j \in Job, Dies(j) \/ NoModel(j)
      PROVE  "quiet" \in since'
  BY <1>0, <1>1, <1>6 DEF Dies, NoModel, Fails, Gone, AboutToLook
<1>7. ASSUME NEW j \in Job, Killed(j)
      PROVE  "quiet" \in since'
  BY <1>7 DEF Killed
<1>8. ASSUME NEW j \in Job, Built(j) \/ Screens(j) \/ Ends(j)
      PROVE  "quiet" \in since'
  BY <1>0, <1>1, <1>8 DEF Built, Screens, Ends, Enters, Gone, watchVars, AboutToLook
<1>9. ASSUME NEW j \in Job, Looks(j)
      PROVE  FALSE
  BY <1>0, <1>9 DEF Looks, Enters, AboutToLook, LockInv, HoldsTheLock
<1>10. CASE UNCHANGED vars
  BY <1>1, <1>10 DEF vars, jobVars, watchVars, AboutToLook
<1>. QED
  BY <1>2, <1>3, <1>4, <1>5, <1>6, <1>7, <1>8, <1>9, <1>10 DEF Next, JobStep

LEMMA SightStep ==
  TypeOK /\ LockInv /\ LinesInv /\ OrphanInv /\ SightInv /\ [Next]_vars => SightInv'
<1> SUFFICES ASSUME TypeOK, LockInv, LinesInv, OrphanInv, SightInv, [Next]_vars,
                    Undisturbed'
             PROVE  /\ gap' <= Patience + 1
                    /\ \A j \in Job : AboutToLook(j)' =>
                         due' = {} /\ kind'[j] \in LinesAt(minute')
                    /\ \A j \in Running' :
                         AboutToLook(j)' \/ (gap' <= slots'[j] /\ gap' < Patience)
                    /\ minute' \in FullMinutes => gap' <= Patience
                    /\ due' = {} /\ (\A j \in Job : ~AboutToLook(j)') =>
                         gap' < Patience \/ minute' \in FullMinutes
  BY DEF SightInv
<1> DEFINE Goal == /\ gap' <= Patience + 1
                   /\ \A j \in Job : AboutToLook(j)' =>
                        due' = {} /\ kind'[j] \in LinesAt(minute')
                   /\ \A j \in Running' :
                        AboutToLook(j)' \/ (gap' <= slots'[j] /\ gap' < Patience)
                   /\ minute' \in FullMinutes => gap' <= Patience
                   /\ due' = {} /\ (\A j \in Job : ~AboutToLook(j)') =>
                        gap' < Patience \/ minute' \in FullMinutes
<1>0. /\ stage \in [Job -> Stages] /\ kind \in [Job -> Kinds]
      /\ slots \in [Job -> Nat] /\ wrapper \subseteq Job
      /\ gap \in Nat /\ minute \in Minutes
      /\ Patience \in Nat /\ Patience > 0
  BY ScheduleAssumption DEF TypeOK
<1>s. ASSUME Undisturbed
      PROVE  /\ gap <= Patience + 1
             /\ \A j \in Job : AboutToLook(j) => due = {} /\ kind[j] \in LinesAt(minute)
             /\ \A j \in Running : AboutToLook(j) \/ (gap <= slots[j] /\ gap < Patience)
             /\ minute \in FullMinutes => gap <= Patience
             /\ due = {} /\ (\A j \in Job : ~AboutToLook(j)) =>
                  gap < Patience \/ minute \in FullMinutes
  BY <1>s DEF SightInv
<1>1. ASSUME Tick
      PROVE  Goal
  <2>1. Undisturbed /\ (\A j \in Running : InTime(j)) /\ UNCHANGED <<stage, kind>>
    BY <1>1 DEF Tick, TimePasses, Undisturbed
  <2>2. \A j \in Job : ~AboutToLook(j) /\ ~AboutToLook(j)'
    BY <2>1 DEF InTime, Running, AboutToLook
  <2>3. gap' = 0 \/ gap' = gap + 1
    BY <1>1 DEF Tick
  <2>4. gap < Patience \/ (minute \in FullMinutes /\ gap <= Patience)
    BY <1>1, <1>s, <2>1, <2>2 DEF Tick
  <2>5. gap' <= Patience + 1
    BY <1>0, <2>3, <2>4
  <2>6. minute' \in FullMinutes => gap' <= Patience
    <3>1. minute' \in FullMinutes => minute \notin FullMinutes
      BY <1>1, FullLinesAreApart DEF Tick
    <3>. QED
      BY <1>0, <2>3, <2>4, <3>1
  <2>7. ASSUME NEW j \in Running'
        PROVE  gap' <= slots'[j] /\ gap' < Patience
    <3>1. j \in Job /\ j \in Running /\ slots'[j] = slots[j] + 1
      BY <1>1, <2>1, <2>7 DEF Running, Tick, TimePasses
    <3>2. slots[j] + 1 < Patience /\ gap <= slots[j]
      BY <1>s, <2>1, <2>2, <3>1 DEF InTime
    <3>3. slots[j] \in Nat
      BY <1>0, <3>1
    <3>. QED
      BY <1>0, <2>3, <3>1, <3>2, <3>3
  <2>8. due' # {}
    BY <1>1, OneLineAMinute DEF Tick
  <2>. QED
    BY <2>2, <2>5, <2>6, <2>7, <2>8
<1>2. ASSUME NEW open \in BOOLEAN, NewDay(open)
      PROVE  Goal
  <2>1. gap' = 0 /\ Running' = {} /\ \A j \in Job : ~AboutToLook(j)'
    BY <1>2 DEF NewDay, Running, AboutToLook, jobVars
  <2>. QED
    BY <1>0, <2>1
<1>3. ASSUME NEW k \in Kinds, NEW j \in Job, CronStarts(k, j)
      PROVE  Goal
  <2>1. Undisturbed /\ gap' = gap /\ minute' = minute
    BY <1>3 DEF CronStarts, watchVars, Undisturbed
  <2>2. due' = {} /\ k \in LinesAt(minute)
    BY <1>0, <1>3, OneLineAMinute DEF CronStarts, LinesInv
  <2>3. \A i \in Job : i # j => stage'[i] = "none"
    BY <1>0, <1>3 DEF CronStarts, LockFree, HoldsTheLock
  <2>4. stage'[j] = "start" /\ kind'[j] = k
    BY <1>0, <1>3 DEF CronStarts
  <2>. QED
    BY <1>s, <2>1, <2>2, <2>3, <2>4 DEF AboutToLook, Running
<1>4. ASSUME NEW k \in Kinds, CronSkips(k)
      PROVE  Goal
  <2>1. Undisturbed
    BY <1>4 DEF CronSkips, watchVars, Undisturbed
  <2>2. \A j \in Job : ~AboutToLook(j)
    BY <1>4, <1>s, <2>1 DEF CronSkips
  <2>3. \E j \in Running : TRUE
    BY <1>4 DEF CronSkips, LockFree, HoldsTheLock, LockInv, Running
  <2>4. gap < Patience
    BY <1>s, <2>1, <2>2, <2>3 DEF Running
  <2>. QED
    BY <1>4, <1>s, <2>1, <2>2, <2>4 DEF CronSkips, AboutToLook, Running, jobVars, watchVars
<1>5. ASSUME NEW j \in Job, Dies(j)
      PROVE  Goal
  <2>1. j \notin wrapper /\ Undisturbed
    BY <1>5, NoticesAssumption DEF Dies, Fails, Notice, Undisturbed
  <2>2. ~AboutToLook(j) /\ j \in Running
    BY <1>5, <2>1 DEF OrphanInv, Dies, Undisturbed, Running
  <2>3. gap < Patience
    BY <1>s, <2>1, <2>2
  <2>4. /\ UNCHANGED <<due, minute, kind, gap>>
        /\ stage' = [stage EXCEPT ![j] = "none"] /\ slots' = [slots EXCEPT ![j] = 0]
    BY <1>5 DEF Dies, Fails, Gone, timeVars
  <2>. QED
    BY <1>0, <1>s, <2>1, <2>3, <2>4 DEF AboutToLook, Running
<1>6. ASSUME NEW j \in Job, NoModel(j)
      PROVE  Goal
  <2>1. Undisturbed
    BY <1>6 DEF NoModel, Fails, Undisturbed
  <2>2. /\ UNCHANGED <<due, minute, kind, gap>>
        /\ stage' = [stage EXCEPT ![j] = "none"] /\ slots' = [slots EXCEPT ![j] = 0]
    BY <1>6 DEF NoModel, Fails, Gone, timeVars
  <2>3. kind[j] = "full" /\ kind[j] \in LinesAt(minute)
    BY <1>6, <1>s, <2>1 DEF NoModel, NeedsAModel, AboutToLook
  <2>4. minute \in FullMinutes
    BY <1>0, <2>3, OneLineAMinute
  <2>. QED
    BY <1>0, <1>s, <2>1, <2>2, <2>4 DEF AboutToLook, Running
<1>7. ASSUME NEW j \in Job, Built(j) \/ Screens(j)
      PROVE  Goal
  <2>1. Undisturbed
    BY <1>7 DEF Built, Screens, watchVars, Undisturbed
  <2>2. UNCHANGED <<due, minute, kind, gap, slots>>
    BY <1>7 DEF Built, Screens, Enters, timeVars, watchVars
  <2>3. \A i \in Job : AboutToLook(i)' <=> AboutToLook(i)
    BY <1>0, <1>7 DEF Built, Screens, Enters, AboutToLook
  <2>4. Running' = Running
    BY <1>0, <1>7 DEF Built, Screens, Enters, Running
  <2>5. Running \subseteq Job
    BY DEF Running
  <2>. QED
    BY <1>s, <2>1, <2>2, <2>3, <2>4, <2>5
<1>8. ASSUME NEW j \in Job, Looks(j)
      PROVE  Goal
  <2>1. gap' = 0 /\ UNCHANGED <<due, minute, kind, slots>>
    BY <1>8 DEF Looks, Enters, timeVars
  <2>2. \A i \in Job : ~AboutToLook(i)'
    BY <1>0, <1>8 DEF Looks, Enters, AboutToLook, LockInv, HoldsTheLock
  <2>. QED
    BY <1>0, <2>1, <2>2 DEF Running
<1>9. ASSUME NEW j \in Job, Ends(j)
      PROVE  Goal
  <2>1. Undisturbed
    BY <1>9 DEF Ends, watchVars, Undisturbed
  <2>2. /\ UNCHANGED <<due, minute, kind, gap>>
        /\ stage' = [stage EXCEPT ![j] = "none"] /\ slots' = [slots EXCEPT ![j] = 0]
    BY <1>9 DEF Ends, Gone, timeVars, watchVars
  <2>3. gap < Patience
    BY <1>0, <1>9, <1>s, <2>1 DEF Ends, LinesInv, AboutToLook, Running
  <2>. QED
    BY <1>0, <1>s, <2>1, <2>2, <2>3 DEF AboutToLook, Running
<1>10. ASSUME UNCHANGED vars
       PROVE  Goal
  <2>1. Undisturbed
    BY <1>10 DEF vars, watchVars, Undisturbed
  <2>. QED
    BY <1>10, <1>s, <2>1
       DEF vars, timeVars, jobVars, watchVars, AboutToLook, Running
<1>11. ~Reboot /\ \A j \in Job : ~Killed(j)
  BY DEF Reboot, Killed, Undisturbed
<1>. QED
  BY <1>1, <1>2, <1>3, <1>4, <1>5, <1>6, <1>7, <1>8, <1>9, <1>10, <1>11
     DEF Next, CronStep, JobStep

-----------------------------------------------------------------------------
(***************************************************************************)
(* The theorems about passes.                                              *)
(***************************************************************************)
LEMMA Initial == Init => IInv
<1> SUFFICES ASSUME Init
             PROVE  IInv
  OBVIOUS
<1>0. 0 \in Minutes /\ 0 \in FullMinutes /\ Patience \in Nat /\ MaxMishaps \in Nat
  BY ScheduleAssumption DEF FullMinutes
<1>1. CooldownTypeOK
  BY DEF Init, CooldownTypeOK
<1>2. TimeTypeOK /\ JobTypeOK /\ WatchTypeOK
  BY <1>0 DEF Init, TimeTypeOK, JobTypeOK, WatchTypeOK, Kinds, Stages
<1>3. LockInv
  BY DEF Init, LockInv, HoldsTheLock
<1>4. LinesInv /\ OrphanInv
  BY <1>0, OneLineAMinute DEF Init, LinesInv, OrphanInv, AboutToLook
<1>5. SightInv
  BY <1>0 DEF Init, SightInv, AboutToLook, Running
<1>. QED
  BY <1>1, <1>2, <1>3, <1>4, <1>5, TypeSplit DEF IInv, WatchInv

LEMMA Step == IInv /\ [Next]_vars => IInv'
<1> SUFFICES ASSUME IInv, [Next]_vars
             PROVE  IInv'
  OBVIOUS
<1>1. TypeOK'
  BY TypeSplit, DatesStep, TimeStep, JobTypeStep, WatchTypeStep
     DEF IInv, TypeOK, TimeTypeOK, JobTypeOK, WatchTypeOK
<1>2. LockInv'
  BY LockStep DEF IInv
<1>3. LinesInv' /\ OrphanInv' /\ SightInv'
  BY LinesStep, OrphanStep, SightStep DEF IInv, WatchInv
<1>. QED
  BY <1>1, <1>2, <1>3 DEF IInv, WatchInv

\* The inductive invariant holds in every reachable state: every state is well
\* typed, one job holds the lock, and the book stays in sight.
THEOREM BookStaysInSight == Spec => []IInv
  BY Initial, Step, PTL DEF Spec

\* The lock of run_pass.sh and the descriptor its Python inherits keep the
\* passes of cron apart, for any number of them and in whatever order wrapper
\* and Python are killed.
THEOREM PassesAreApart == Spec => []OnePassAtATime
<1>1. IInv => OnePassAtATime
  <2> SUFFICES ASSUME IInv
               PROVE  Cardinality(Running) <= 1
    BY DEF OnePassAtATime
  <2>1. \A i, j \in Running : i = j
    BY DEF IInv, LockInv, HoldsTheLock, Running
  <2>2. CASE Running = {}
    BY <2>2, FS_EmptySet
  <2>3. CASE Running # {}
    <3>1. PICK j \in Running : Running = {j}
      BY <2>1, <2>3
    <3>. QED
      BY <3>1, FS_Singleton
  <2>. QED
    BY <2>2, <2>3
<1>. QED
  BY <1>1, BookStaysInSight, PTL

\* Whatever the patience of a full pass and the part of the hour, an open market
\* is looked at again one slot after a full pass has used its patience up, with
\* or without a model, as long as passes are in time and none dies.
THEOREM StopsAreNeverUnwatched == Spec => []StopsAreWatched
<1>1. IInv => StopsAreWatched
  BY DEF IInv, WatchInv, SightInv, Undisturbed, StopsAreWatched
<1>. QED
  BY <1>1, BookStaysInSight, PTL

\* For any number of deaths, kills, reboots and overruns, a book that is out of
\* sight for longer has been announced, but for a notice that does not get out, a
\* dead wrapper and a pass that does not end.
THEOREM SilenceHasACause == Spec => []UnwatchedIsAnnounced
<1>1. TypeOK => (gap > Patience + 1 <=> ~(gap <= Patience + 1))
  <2>1. Patience \in Nat
    BY ScheduleAssumption
  <2>. QED
    BY <2>1 DEF TypeOK
<1>2. IInv => UnwatchedIsAnnounced
  BY <1>1 DEF IInv, WatchInv, SightInv, Undisturbed, UnwatchedIsAnnounced
<1>. QED
  BY <1>2, BookStaysInSight, PTL

\* With a webhook that takes every notice, somebody has been told (run_pass.sh
\* 98-111): then only a wrapper that is gone and a pass that goes on and on leave
\* the book unwatched in silence.
AllNoticesGetOut == Notices = {"posted"}

NothingUnsent == "unsent" \notin since

UnwatchedIsTold == gap > Patience + 1 => since \cap {"told", "quiet"} # {}

THEOREM PostedNoticesTell ==
  ASSUME AllNoticesGetOut
  PROVE  Spec => []UnwatchedIsTold
<1>1. Init => NothingUnsent
  BY DEF Init, NothingUnsent
<1>2. NothingUnsent /\ [Next]_vars => NothingUnsent'
  <2> SUFFICES ASSUME "unsent" \notin since, [Next]_vars
               PROVE  "unsent" \notin since'
    BY DEF NothingUnsent
  <2>1. ASSUME NEW j \in Job, NEW what \in {"died", "no model"}, Fails(j, what)
        PROVE  "unsent" \notin since'
    BY <2>1, AllNoticesGetOut DEF Fails, Notice, AllNoticesGetOut
  <2>2. CASE \E j \in Job : Dies(j) \/ NoModel(j)
    BY <2>1, <2>2 DEF Dies, NoModel
  <2>3. CASE Tick
    BY <2>3 DEF Tick, TimePasses
  <2>4. CASE (\E open \in BOOLEAN : NewDay(open)) \/ CronStep \/ UNCHANGED vars
    BY <2>4 DEF NewDay, CronStep, CronStarts, CronSkips, watchVars, vars
  <2>5. CASE Reboot \/ \E j \in Job : Killed(j)
    BY <2>5 DEF Reboot, Killed
  <2>6. CASE \E j \in Job : Built(j) \/ Looks(j) \/ Screens(j) \/ Ends(j)
    BY <2>6 DEF Built, Looks, Screens, Ends, watchVars
  <2>. QED
    BY <2>2, <2>3, <2>4, <2>5, <2>6 DEF Next, JobStep
<1>3. NothingUnsent /\ UnwatchedIsAnnounced => UnwatchedIsTold
  BY DEF NothingUnsent, UnwatchedIsAnnounced, UnwatchedIsTold
<1>. QED
  BY <1>1, <1>2, <1>3, SilenceHasACause, PTL DEF Spec

-----------------------------------------------------------------------------
(***************************************************************************)
(* The query over dated rows counts sessions down.                         *)
(***************************************************************************)
LEMMA NotBelowZero ==
  ASSUME NEW n \in Int
  PROVE  Max({0, n}) = IF n > 0 THEN n ELSE 0
<1>1. \E x \in {0, n} : \A y \in {0, n} : x >= y
  BY Z3
<1>. QED
  BY <1>1 DEF Max

\* The days before today and after a close are finitely many.
LEMMA SessionsAreFew ==
  ASSUME CooldownTypeOK, NEW u \in Underlying
  PROVE  IsFiniteSet(Sessions(u)) /\ Cardinality(Sessions(u)) \in Nat
<1>1. Sessions(u) \in SUBSET (0 .. Reach)
  BY DEF Sessions, CooldownTypeOK, Ages
<1>2. IsFiniteSet(0 .. Reach)
  BY CooldownAssumption, FS_Interval
<1>. QED
  BY <1>1, <1>2, FS_Subset, FS_CardinalityType

\* Tomorrow's count is today's, and today if it has a row and the close was
\* before it.
LEMMA TomorrowsSessions ==
  ASSUME CooldownTypeOK, DateChanges, NEW u \in Underlying,
         closed_age[u] \in Nat, closed_age[u] # Reach
  PROVE  Cardinality(Sessions(u)') =
           IF 0 \in decision_ages /\ closed_age[u] > 0
           THEN Cardinality(Sessions(u)) + 1
           ELSE Cardinality(Sessions(u))
<1> DEFINE Counted == {age \in decision_ages : age < closed_age[u]}
<1>0. Reach \in Nat
  BY CooldownAssumption
<1>1. closed_age'[u] = closed_age[u] + 1
  BY DEF DateChanges, Older, Never
<1>2. \A age \in decision_ages : age \in Nat /\ age <= Reach
  BY <1>0 DEF CooldownTypeOK, Ages
<1>3. closed_age[u] <= Reach
  BY <1>0 DEF CooldownTypeOK, Ages, Never
<1>4. Sessions(u)' = {age + 1 : age \in Counted}
  <2>1. ASSUME NEW day \in Sessions(u)'
        PROVE  \E age \in Counted : day = age + 1
    <3>1. day \in decision_ages' /\ day < closed_age[u] + 1
      BY <1>1, <2>1 DEF Sessions
    <3>2. PICK age \in decision_ages \ {Reach} : day = age + 1
      BY <3>1 DEF DateChanges
    <3>3. age < closed_age[u]
      BY <1>2, <3>1, <3>2
    <3>. QED
      BY <3>2, <3>3
  <2>2. ASSUME NEW age \in Counted
        PROVE  age + 1 \in Sessions(u)'
    <3>1. age \in decision_ages \ {Reach} /\ age \in Nat /\ age < closed_age[u]
      BY <1>0, <1>2, <1>3, <2>2
    <3>2. age + 1 \in decision_ages'
      BY <3>1 DEF DateChanges
    <3>. QED
      BY <1>1, <3>1, <3>2 DEF Sessions
  <2>. QED
    BY <2>1, <2>2
<1>5. IsFiniteSet(Counted) /\ Cardinality(Counted) \in Nat
  <2>1. Counted \in SUBSET (0 .. Reach)
    BY DEF CooldownTypeOK, Ages
  <2>2. IsFiniteSet(0 .. Reach)
    BY <1>0, FS_Interval
  <2>. HIDE DEF Counted
  <2>. QED
    BY <2>1, <2>2, FS_Subset, FS_CardinalityType
<1>6. Cardinality(Sessions(u)') = Cardinality(Counted)
  <2> DEFINE f == [age \in Counted |-> age + 1]
  <2>1. f \in Bijection(Counted, Sessions(u)')
    BY <1>2, <1>4 DEF Bijection, Injection, Surjection, IsInjective
  <2>2. ExistsBijection(Counted, Sessions(u)')
    BY <2>1 DEF ExistsBijection
  <2>. QED
    BY <1>5, <2>2, FS_Bijection
<1>7. Sessions(u) = Counted \ {0}
  BY <1>2 DEF Sessions
<1>8. 0 \in Counted <=> 0 \in decision_ages /\ closed_age[u] > 0
  OBVIOUS
<1>9. Cardinality(Counted \ {0}) =
        IF 0 \in Counted THEN Cardinality(Counted) - 1 ELSE Cardinality(Counted)
  BY <1>5, FS_RemoveElement
<1>. HIDE DEF Counted
<1>. QED
  BY <1>5, <1>6, <1>7, <1>8, <1>9

LEMMA DayCounts ==
  ASSUME CooldownTypeOK, DateChanges, \A u \in Underlying : ~OutOfReach(u)
  PROVE  J!DateChanges
<1>0. CooldownDays \in Nat /\ Reach \in Nat
  BY CooldownAssumption
<1>1. ASSUME NEW u \in Underlying
      PROVE  CoolingOff'[u] = J!SessionsLeft(u)
  <2>1. Cardinality(Sessions(u)) \in Nat
    BY SessionsAreFew
  <2>2. CASE closed_age[u] = Never
    <3>1. closed_age'[u] = Never
      BY <2>2 DEF DateChanges, Older
    <3>. QED
      BY <2>2, <3>1 DEF CoolingOff, J!SessionsLeft
  <2>3. CASE closed_age[u] # Never
    <3>1. closed_age[u] \in Nat
      BY <1>0, <2>3 DEF CooldownTypeOK, Ages
    <3>2. closed_age[u] # Reach
      BY <2>3 DEF OutOfReach, DateChanges, Older
    <3>3. closed_age'[u] # Never
      BY <2>3, <3>1, <3>2 DEF DateChanges, Older, Never
    <3>4. Cardinality(Sessions(u)') =
            IF 0 \in decision_ages /\ closed_age[u] > 0
            THEN Cardinality(Sessions(u)) + 1
            ELSE Cardinality(Sessions(u))
      BY <3>1, <3>2, TomorrowsSessions
    <3>5. CoolingOff[u] = Max({0, CooldownDays - Cardinality(Sessions(u))})
      BY <2>3 DEF CoolingOff
    <3>6. CoolingOff'[u] = Max({0, CooldownDays - Cardinality(Sessions(u)')})
      BY <3>3 DEF CoolingOff
    <3>7. u \in {v \in Underlying : closed_age[v] = 0} <=> closed_age[u] = 0
      OBVIOUS
    <3> DEFINE n == Cardinality(Sessions(u))  m == Cardinality(Sessions(u)')
    <3>8. m = IF 0 \in decision_ages /\ closed_age[u] > 0 THEN n + 1 ELSE n
      BY <3>4
    <3>9. n \in Nat
      BY <2>1
    <3>10. /\ CoolingOff[u] = IF CooldownDays - n > 0 THEN CooldownDays - n ELSE 0
           /\ CoolingOff'[u] = IF CooldownDays - m > 0 THEN CooldownDays - m ELSE 0
      BY <1>0, <3>5, <3>6, <3>8, <3>9, NotBelowZero
    <3>. HIDE DEF n, m
    <3>. QED
      BY <1>0, <3>1, <3>7, <3>8, <3>9, <3>10 DEF J!SessionsLeft
  <2>. QED
    BY <2>2, <2>3
<1>2. CoolingOff' = [u \in DOMAIN CoolingOff |-> J!SessionsLeft(u)]
  <2>1. DOMAIN CoolingOff = Underlying
    BY DEF CoolingOff
  <2>2. CoolingOff' = [u \in Underlying |-> CoolingOff'[u]]
    BY DEF CoolingOff
  <2>. QED
    BY <1>1, <2>1, <2>2
<1>3. \A u \in Underlying : closed_age'[u] # 0
  BY <1>0 DEF DateChanges, Older, CooldownTypeOK, Ages, Never
<1>4. 0 \notin decision_ages'
  BY <1>0 DEF DateChanges, CooldownTypeOK, Ages
<1>. QED
  BY <1>2, <1>3, <1>4 DEF J!DateChanges

LEMMA CloseCounts ==
  ASSUME CooldownTypeOK, NEW u \in Underlying, RecordClosed(u)
  PROVE  J!RecordClosed(u, u)
<1>1. closed_age' = [closed_age EXCEPT ![u] = 0] /\ decision_ages' = decision_ages
  BY DEF RecordClosed
<1>2. closed_age \in [Underlying -> Ages \cup {Never}]
  BY DEF CooldownTypeOK
<1>3. CoolingOff'[u] = CooldownDays
  <2>1. closed_age'[u] = 0 /\ CooldownDays \in Nat
    BY <1>1, <1>2, CooldownAssumption
  <2>2. Sessions(u)' = {}
    <3>1. Sessions(u)' = {age \in decision_ages : 0 < age /\ age < 0}
      BY <1>1, <2>1 DEF Sessions
    <3>2. \A age \in decision_ages : age \in Int
      BY CooldownAssumption DEF CooldownTypeOK, Ages
    <3>. QED
      BY <3>1, <3>2
  <2>3. Cardinality(Sessions(u)') = 0
    BY <2>2, FS_EmptySet
  <2>4. CoolingOff'[u] = Max({0, CooldownDays - Cardinality(Sessions(u)')})
    BY <2>1 DEF CoolingOff, Never
  <2>. QED
    BY <2>1, <2>3, <2>4, NotBelowZero
<1>4. ASSUME NEW v \in Underlying, v # u
      PROVE  CoolingOff'[v] = CoolingOff[v]
  <2>1. closed_age'[v] = closed_age[v]
    BY <1>1, <1>2, <1>4
  <2>2. Sessions(v)' = Sessions(v)
    BY <1>1, <2>1 DEF Sessions
  <2>. QED
    BY <2>1, <2>2 DEF CoolingOff
<1>5. CoolingOff' = [CoolingOff EXCEPT ![u] = CooldownDays]
  <2>1. CoolingOff' = [v \in Underlying |-> CoolingOff'[v]]
    BY DEF CoolingOff
  <2>2. DOMAIN CoolingOff = Underlying
    BY DEF CoolingOff
  <2>. QED
    BY <1>3, <1>4, <2>1, <2>2
<1>6. {v \in Underlying : closed_age'[v] = 0} = {v \in Underlying : closed_age[v] = 0} \cup {u}
  BY <1>1, <1>2
<1>. QED
  BY <1>1, <1>5, <1>6 DEF J!RecordClosed

LEMMA DecisionCounts ==
  ASSUME RecordDecision
  PROVE  J!RecordDecision
<1>1. closed_age' = closed_age /\ decision_ages' = decision_ages \cup {0}
  BY DEF RecordDecision
<1>2. \A u \in Underlying : Sessions(u)' = Sessions(u)
  BY <1>1 DEF Sessions
<1>3. CoolingOff' = CoolingOff
  BY <1>1, <1>2 DEF CoolingOff
<1>. QED
  BY <1>1, <1>3 DEF J!RecordDecision

\* For every watchlist, cooldown and history of dated rows, the query of
\* `cooling_off` counts sessions down as Journal does: it implements the
\* abstract counter but for a close that passes the floor of the query.
THEOREM QueryCountsSessions == Spec => CountsSessions
<1>1. IInv /\ [Next]_vars =>
        [\/ J!RecordDecision \/ J!DateChanges
         \/ \E u \in Underlying : J!RecordClosed(u, u) \/ OutOfReach(u)]_(J!journalVars)
  <2> SUFFICES ASSUME IInv, [Next]_vars
               PROVE  \/ J!RecordDecision \/ J!DateChanges
                      \/ \E u \in Underlying : J!RecordClosed(u, u) \/ OutOfReach(u)
                      \/ UNCHANGED J!journalVars
    OBVIOUS
  <2>0. CooldownTypeOK
    BY DEF IInv, TypeOK
  <2>1. CASE UNCHANGED cooldownVars
    <3>1. closed_age' = closed_age /\ decision_ages' = decision_ages
      BY <2>1 DEF cooldownVars
    <3>2. CoolingOff' = CoolingOff
      BY <3>1 DEF CoolingOff, Sessions
    <3>. QED
      BY <3>1, <3>2 DEF J!journalVars
  <2>2. DateChanges => J!DateChanges \/ \E u \in Underlying : OutOfReach(u)
    BY <2>0, DayCounts
  <2>3. RecordDecision => J!RecordDecision
    BY DecisionCounts
  <2>4. \A u \in Underlying : RecordClosed(u) => J!RecordClosed(u, u)
    BY <2>0, CloseCounts
  <2>5. \/ UNCHANGED cooldownVars \/ DateChanges \/ RecordDecision
        \/ \E u \in Underlying : RecordClosed(u)
    BY DEF Next, Tick, CronStep, CronStarts, CronSkips, Reboot, NewDay, JobStep, Built,
           NoModel, Fails, Looks, Screens, Ends, Dies, Killed, vars
  <2>. QED
    BY <2>1, <2>2, <2>3, <2>4, <2>5
<1>. QED
  BY <1>1, BookStaysInSight, PTL DEF CountsSessions, Spec

=============================================================================
