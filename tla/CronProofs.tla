----------------------------- MODULE CronProofs -----------------------------
(***************************************************************************)
(* The scheduler for any jobs, schedules, origins, number of slots and      *)
(* bounds: its types, its bookkeeping, and what it owes to a user who       *)
(* pauses, reschedules or moves a job while it runs or while the process    *)
(* dies.                                                                   *)
(***************************************************************************)
EXTENDS CronScheduler, FiniteSetTheorems, SequenceTheorems, TLAPS

Active(r) == run[r].task \in {"running", "over"}

\* Runs are numbered in the order they are claimed.
Numbered ==
    /\ \A r \in Runs : r > claimed => run[r] = NoRun
    /\ \A r \in touched : r <= claimed

\* A job is in flight for one run only, and the list of those about to be
\* claimed names each once and none that is in flight.
OnePerJob ==
    /\ \A q, r \in Runs : Active(q) /\ Active(r) /\ run[q].job = run[r].job => q = r
    /\ \A k, l \in 1..Len(todo) : todo[k] = todo[l] => k = l
    /\ \A k \in 1..Len(todo) : todo[k] \notin running

\* running_ids and the tasks agree, in either direction.
IdsMatchTasks ==
    /\ \A r \in Runs : Active(r) => run[r].job \in running
    /\ \A j \in running : \E r \in Runs : Active(r) /\ run[r].job = j

Flight == Numbered /\ OnePerJob /\ IdsMatchTasks

\* What the scheduler may claim at once fits the slots.
SlotsLeft == Cardinality(running) + Len(todo) <= MaxConcurrent

\* A held job is paused, in memory and in what a crash would bring back.
NotToRun(x) == x.here # "unused" /\ (x.here = "live" => Paused(x))

HeldIsPaused == \A j \in held : NotToRun(job[j]) /\ NotToRun(disk[j])

\* A run was claimed when it was due; once its job was touched, the job's next
\* time lies after the one the run was claimed for.
Later(r) ==
    run[r].task = "running" =>
        /\ run[r].as.next <= now
        /\ run[r].as.next < Never
        /\ r \in touched /\ Here(run[r].job) => job[run[r].job].next > run[r].as.next

TouchedIsLater == \A r \in Runs : Later(r)

\* The conversation a job remembers, now or after a crash.
Remembered(j, x) ==
    x.here = "live" /\ x.conv # 0 =>
        /\ x.conv \in 1..claimed /\ run[x.conv] # NoRun
        /\ run[x.conv].job = j
        /\ run[x.conv].as.origin = x.origin

OwnConversations == \A j \in Jobs : Remembered(j, job[j]) /\ Remembered(j, disk[j])

-----------------------------------------------------------------------------
(***************************************************************************)
(* Types and slots.                                                        *)
(***************************************************************************)
\* The number of claims of a job is bounded by the number of runs.
ClaimsCounted == \A j \in Jobs : claims[j] <= claimed

Base == TypeOK /\ ClaimsCounted /\ SlotsLeft

\* The next time of a schedule is a time, and it lies ahead.
LEMMA NextRunIsLater ==
    ASSUME NEW s \in Schedules, NEW t \in 0..MaxTime
    PROVE  NextRun(s, t) \in Times /\ NextRun(s, t) > t
<1>1. s.n \in Nat \ {0} /\ MaxTime + s.n < Never /\ MaxTime \in Nat /\ Never \in Nat
  BY CronAssumption
<1> QED
  BY <1>1 DEF NextRun, Times

LEMMA HereIsLive ==
    ASSUME TypeOK, NEW j \in Jobs
    PROVE  Here(j) <=> job[j] \in LiveJobs
  BY DEF TypeOK, Here, AllJobs, LiveJobs, NoJob, Gone

LEMMA JobsInFlight ==
    ASSUME NEW S \in SUBSET Jobs
    PROVE  IsFiniteSet(S) /\ Cardinality(S) \in Nat
  BY CronAssumption, FS_Subset, FS_CardinalityType

\* What the index walk returns.
LEMMA DueListIsShort ==
    ASSUME Base, NEW q \in DueLists
    PROVE  /\ q \in Seq(Jobs)
           /\ Cardinality(running) + Len(q) <= MaxConcurrent
           /\ \A k, l \in 1..Len(q) : q[k] = q[l] => k = l
           /\ \A k \in 1..Len(q) : q[k] \in Candidates
<1>1. /\ Cardinality(Candidates) \in Nat /\ Cardinality(running) \in Nat
      /\ MaxConcurrent \in Nat /\ Cardinality(running) <= MaxConcurrent
  <2>1. Candidates \subseteq Jobs /\ running \subseteq Jobs /\ Len(todo) \in Nat
    BY DEF Candidates, Base, TypeOK
  <2>2. Cardinality(Candidates) \in Nat /\ Cardinality(running) \in Nat
    BY <2>1, JobsInFlight
  <2> QED
    BY <2>1, <2>2, CronAssumption DEF Base, SlotsLeft
<1> DEFINE size == IF Cardinality(Candidates) < FreeSlots THEN Cardinality(Candidates)
                   ELSE FreeSlots
<1>2. size \in Nat /\ Cardinality(running) + size <= MaxConcurrent
  BY <1>1 DEF FreeSlots
<1>3. q \in [1..size -> Candidates] /\ IsInjective(q)
  BY DEF DueLists
<1> HIDE DEF size
<1>4. q \in Seq(Candidates) /\ Len(q) = size
  BY <1>2, <1>3, IsASeq, LenProperties
<1>5. q \in Seq(Jobs)
  BY <1>4, <1>3, <1>2, IsASeq DEF Candidates
<1> QED
  BY <1>2, <1>3, <1>4, <1>5 DEF IsInjective

LEMMA InitBase == Init => Base
<1> SUFFICES ASSUME Init PROVE Base
  OBVIOUS
<1> USE CronAssumption
<1>1. TypeOK
  <2>1. job \in [Jobs -> AllJobs] /\ disk \in [Jobs -> AllJobs]
    BY DEF Init, AllJobs
  <2>2. run \in [Runs -> AllRuns]
    BY DEF Init, AllRuns
  <2>3. todo \in Seq(Jobs) /\ claims \in [Jobs -> 0..MaxRuns]
    BY DEF Init
  <2>4. /\ now \in 0..MaxTime /\ claimed \in 0..MaxRuns /\ sched \in SchedSteps
        /\ running \subseteq Jobs /\ held \subseteq Jobs /\ touched \subseteq Runs
        /\ edits \in 0..MaxEdits /\ restarts \in 0..MaxRestarts
    BY DEF Init, SchedSteps
  <2>5. stop \in BOOLEAN
    BY Zenon DEF Init
  <2> QED
    BY <2>1, <2>2, <2>3, <2>4, <2>5 DEF TypeOK
<1>2. Cardinality(running) = 0 /\ Len(todo) = 0
  BY FS_EmptySet DEF Init
<1> QED
  BY <1>1, <1>2 DEF Base, ClaimsCounted, SlotsLeft, Init

\* The changes of a job by a user.
LEMMA EditBase ==
    ASSUME Base, NEW j \in Jobs, NEW x \in AllJobs, Edit(j, x),
           held' \subseteq Jobs, touched' \subseteq Runs,
           \/ claims' = claims
           \/ claims' = [claims EXCEPT ![j] = 0]
    PROVE  Base'
<1> USE CronAssumption
<1>1. job' \in [Jobs -> AllJobs] /\ disk' \in [Jobs -> AllJobs] /\ edits' \in 0..MaxEdits
  BY DEF Base, TypeOK, Edit
<1>2. claims' \in [Jobs -> 0..MaxRuns] /\ ClaimsCounted'
  <2>1. /\ claims \in [Jobs -> 0..MaxRuns] /\ claimed \in 0..MaxRuns /\ claimed' = claimed
        /\ \A i \in Jobs : claims[i] <= claimed
    BY DEF Base, TypeOK, ClaimsCounted, Edit
  <2>2. CASE claims' = claims
    BY <2>1, <2>2 DEF ClaimsCounted
  <2>3. CASE claims' = [claims EXCEPT ![j] = 0]
    BY <2>1, <2>3 DEF ClaimsCounted
  <2> QED
    BY <2>2, <2>3
<1>3. TypeOK'
  BY <1>1, <1>2 DEF Base, TypeOK, Edit, memVars
<1> QED
  BY <1>2, <1>3 DEF Base, SlotsLeft, Edit, memVars

LEMMA ManageBase ==
    ASSUME Base, NEW j \in Jobs, Manage(j)
    PROVE  Base'
<1> USE CronAssumption
<1>0. /\ TypeOK /\ now \in 0..MaxTime /\ job \in [Jobs -> AllJobs]
      /\ held \subseteq Jobs /\ touched \subseteq Runs
      /\ Executing(j) \subseteq Runs /\ LiveJobs \subseteq AllJobs /\ Gone \in AllJobs
      /\ Never \in Times /\ 0 \in 0..MaxRuns
  BY DEF Base, TypeOK, Executing, AllJobs, Times
<1>1. ASSUME NEW s \in Schedules, NEW o \in Origins, Insert(j, s, o) PROVE Base'
  <2>1. Job(s, NextRun(s, now), o) \in LiveJobs
    <3>1. NextRun(s, now) \in Times
      BY <1>0, NextRunIsLater
    <3> QED
      BY <3>1, CronAssumption DEF Job, LiveJobs
  <2>2. job' \in [Jobs -> AllJobs] /\ disk' \in [Jobs -> AllJobs]
    BY <1>0, <1>1, <2>1 DEF Insert
  <2>3. TypeOK'
    BY <1>0, <1>1, <2>2 DEF TypeOK, Insert, memVars, boundVars, histVars
  <2> QED
    BY <1>1, <2>3 DEF Base, SlotsLeft, ClaimsCounted, Insert, memVars, histVars
<1>2. ASSUME NEW s \in Schedules, Reschedule(j, s) PROVE Base'
  <2> DEFINE t == IF Paused(job[j]) /\ ~Completed(job[j]) THEN job[j].next
                  ELSE NextRun(s, now)
             x == [job[j] EXCEPT !.sched = s, !.next = t]
  <2>1. job[j] \in LiveJobs /\ job[j].next \in Times
    BY <1>0, <1>2, HereIsLive DEF Reschedule, LiveJobs
  <2>2. t \in Times
    BY <1>0, <2>1, NextRunIsLater
  <2>3. x \in AllJobs
    BY <1>0, <2>1, <2>2 DEF LiveJobs
  <2>4. Edit(j, x)
    BY <1>2 DEF Reschedule
  <2> HIDE DEF x
  <2> QED
    BY <1>0, <1>2, <2>3, <2>4, EditBase DEF Reschedule
<1>3. ASSUME NEW o \in Origins, Move(j, o) PROVE Base'
  <2>1. [job[j] EXCEPT !.origin = o, !.conv = 0] \in AllJobs
    <3>1. job[j] \in LiveJobs
      BY <1>0, <1>3, HereIsLive DEF Move
    <3> QED
      BY <3>1, <1>0 DEF LiveJobs
  <2> QED
    BY <1>0, <1>3, <2>1, EditBase DEF Move, histVars
<1>4. CASE Pause(j)
  <2>1. [job[j] EXCEPT !.next = Never] \in AllJobs
    <3>1. job[j] \in LiveJobs
      BY <1>0, <1>4, HereIsLive DEF Pause
    <3> QED
      BY <3>1, <1>0 DEF LiveJobs
  <2> QED
    BY <1>0, <1>4, <2>1, EditBase DEF Pause
<1>5. CASE Resume(j)
  <2>1. [job[j] EXCEPT !.next = NextRun(job[j].sched, now)] \in AllJobs
    <3>1. job[j] \in LiveJobs /\ job[j].sched \in Schedules
      BY <1>0, <1>5, HereIsLive DEF Resume, LiveJobs
    <3>2. NextRun(job[j].sched, now) \in Times
      BY <1>0, <3>1, NextRunIsLater
    <3> QED
      BY <3>1, <3>2, <1>0 DEF LiveJobs
  <2> QED
    BY <1>0, <1>5, <2>1, EditBase DEF Resume
<1>6. CASE Remove(j)
  BY <1>0, <1>6, EditBase DEF Remove, histVars
<1> QED
  BY <1>1, <1>2, <1>3, <1>4, <1>5, <1>6 DEF Manage

\* Crash and shutdown: the memory of the process is gone.
LEMMA StoppedBase ==
    ASSUME Base, Stopped, disk' \in [Jobs -> AllJobs], job' \in [Jobs -> AllJobs],
           UNCHANGED <<now, claimed, boundVars, histVars>>
    PROVE  Base'
<1> USE CronAssumption
<1>1. run' \in [Runs -> AllRuns]
  <2> SUFFICES ASSUME NEW r \in Runs
               PROVE  (IF run[r].task = "none" THEN run[r]
                       ELSE [run[r] EXCEPT !.task = "joined"]) \in AllRuns
    BY DEF Stopped
  <2>1. run[r] \in AllRuns
    BY DEF Base, TypeOK
  <2>2. CASE run[r] = NoRun
    BY <2>1, <2>2 DEF NoRun
  <2>3. CASE run[r] # NoRun
    BY <2>1, <2>3 DEF AllRuns
  <2> QED
    BY <2>2, <2>3
<1>2. TypeOK'
  <2>1. /\ sched' \in SchedSteps /\ todo' \in Seq(Jobs) /\ running' \subseteq Jobs
    BY DEF Stopped, SchedSteps
  <2>2. stop' \in BOOLEAN
    BY Zenon DEF Stopped
  <2> QED
    BY <1>1, <2>1, <2>2 DEF Base, TypeOK, boundVars, histVars
<1>3. Cardinality(running') + Len(todo') <= MaxConcurrent
  <2>1. Cardinality({}) = 0 /\ Len(<<>>) = 0
    BY FS_EmptySet
  <2> QED
    BY <2>1 DEF Stopped
<1> QED
  BY <1>2, <1>3 DEF Base, SlotsLeft, ClaimsCounted, histVars

LEMMA ServeBase ==
    ASSUME Base, Serve
    PROVE  Base'
<1> USE CronAssumption
<1>0. TypeOK /\ ClaimsCounted /\ SlotsLeft
  BY DEF Base
<1>1. CASE Interval
  BY <1>0, <1>1 DEF Base, TypeOK, ClaimsCounted, SlotsLeft, Interval, SchedSteps,
                    boundVars, histVars
<1>2. CASE Poll
  <2>1. todo' \in Seq(Jobs) /\ Cardinality(running) + Len(todo') <= MaxConcurrent
    BY <1>2, DueListIsShort DEF Poll
  <2> QED
    BY <1>0, <1>2, <2>1 DEF Base, TypeOK, ClaimsCounted, SlotsLeft, Poll, SchedSteps,
                            boundVars, histVars
<1>3. CASE ClaimsEnd
  <2>1. todo' \in Seq(Jobs) /\ Len(todo') = 0 /\ Len(todo) \in Nat
    BY <1>0, <1>3 DEF ClaimsEnd, TypeOK
  <2>2. Cardinality(running) \in Nat
    BY <1>0, JobsInFlight DEF TypeOK
  <2> QED
    BY <1>0, <1>3, <2>1, <2>2 DEF Base, TypeOK, ClaimsCounted, SlotsLeft, ClaimsEnd, SchedSteps,
                                  boundVars, histVars
<1>4. CASE Claim
  <2> DEFINE j == Head(todo)
             r == claimed + 1
  <2>1. /\ j \in Jobs /\ todo' \in Seq(Jobs) /\ Len(todo') = Len(todo) - 1 /\ Len(todo) \in Nat
    BY <1>0, <1>4, HeadTailProperties, LenProperties DEF Claim, TypeOK
  <2>2. /\ UNCHANGED <<now, job, disk, sched, stop, boundVars, held, touched>>
        /\ IF Claimable(j)
           THEN /\ r \in Runs
                /\ run' = [run EXCEPT ![r] = [job |-> j, as |-> job[j], task |-> "running",
                                              row |-> "open"]]
                /\ claimed' = r
                /\ running' = running \cup {j}
                /\ claims' = [claims EXCEPT ![j] = @ + 1]
           ELSE UNCHANGED <<run, claimed, running, claims>>
    BY <1>4 DEF Claim
  <2>3. IsFiniteSet(running) /\ Cardinality(running) \in Nat
    BY <1>0, JobsInFlight DEF TypeOK
  <2> HIDE DEF j, r
  <2>4. CASE Claimable(j)
    <3>1. job[j] \in LiveJobs
      BY <1>0, <2>1, <2>4, HereIsLive DEF Claimable, Due
    <3>2. [job |-> j, as |-> job[j], task |-> "running", row |-> "open"] \in AllRuns
      BY <2>1, <3>1 DEF AllRuns
    <3>3. run' \in [Runs -> AllRuns] /\ running' \subseteq Jobs
      BY <1>0, <2>1, <2>2, <2>4, <3>2 DEF TypeOK
    <3>4. /\ claimed \in 0..MaxRuns /\ claimed' \in 0..MaxRuns /\ claimed' = claimed + 1
      BY <1>0, <2>2, <2>4 DEF TypeOK, Runs, r
    <3>5. claims' \in [Jobs -> 0..MaxRuns] /\ ClaimsCounted'
      <4>1. /\ claims \in [Jobs -> 0..MaxRuns] /\ \A i \in Jobs : claims[i] <= claimed
            /\ claims' = [claims EXCEPT ![j] = claims[j] + 1]
        BY <1>0, <2>2, <2>4 DEF TypeOK, ClaimsCounted
      <4> QED
        BY <4>1, <2>1, <3>4 DEF ClaimsCounted
    <3>6. Cardinality(running') <= Cardinality(running) + 1
      <4>1. Cardinality(running \cup {j}) =
               IF j \in running THEN Cardinality(running) ELSE Cardinality(running) + 1
        BY <2>3, FS_AddElement
      <4>2. running' = running \cup {j}
        BY <2>2, <2>4
      <4> QED
        BY <2>3, <4>1, <4>2
    <3>7. Cardinality(running') \in Nat
      BY <3>3, JobsInFlight
    <3>8. SlotsLeft'
      BY <1>0, <2>1, <2>3, <3>6, <3>7 DEF SlotsLeft
    <3>9. TypeOK'
      BY <1>0, <2>1, <2>2, <3>3, <3>4, <3>5 DEF TypeOK, boundVars
    <3> QED
      BY <3>5, <3>8, <3>9 DEF Base
  <2>5. CASE ~Claimable(j)
    <3>1. TypeOK'
      BY <1>0, <2>1, <2>2, <2>5 DEF TypeOK, boundVars
    <3>2. ClaimsCounted' /\ SlotsLeft'
      BY <1>0, <2>1, <2>2, <2>3, <2>5 DEF ClaimsCounted, SlotsLeft
    <3> QED
      BY <3>1, <3>2 DEF Base
  <2> QED
    BY <2>4, <2>5
<1>5. ASSUME NEW r \in Runs, Join(r) PROVE Base'
  <2>1. run[r] \in AllRuns /\ run[r] # NoRun
    BY <1>0, <1>5 DEF TypeOK, Join, NoRun
  <2>2. [run[r] EXCEPT !.task = "joined"] \in AllRuns
    BY <2>1 DEF AllRuns
  <2>3. run' \in [Runs -> AllRuns]
    BY <1>0, <1>5, <2>2 DEF TypeOK, Join
  <2>4. TypeOK'
    BY <1>0, <1>5, <2>3 DEF TypeOK, Join, Released, SchedSteps, boundVars, histVars
  <2>5. Cardinality(running') <= Cardinality(running) /\ Cardinality(running) \in Nat
        /\ Cardinality(running') \in Nat
    <3>1. IsFiniteSet(running) /\ running' \in SUBSET running
      BY <1>0, <1>5, JobsInFlight DEF TypeOK, Join, Released
    <3> QED
      BY <3>1, FS_Subset, FS_CardinalityType
  <2> QED
    <3>1. todo' = todo /\ Len(todo) \in Nat
      BY <1>0, <1>5 DEF TypeOK, Join
    <3>2. SlotsLeft'
      BY <1>0, <2>5, <3>1 DEF SlotsLeft
    <3>3. ClaimsCounted'
      BY <1>0, <1>5 DEF ClaimsCounted, Join, histVars
    <3> QED
      BY <2>4, <3>2, <3>3 DEF Base
<1>6. CASE StopSelect
  BY <1>0, <1>6 DEF Base, TypeOK, ClaimsCounted, SlotsLeft, StopSelect, SchedSteps,
                    boundVars, histVars
<1>7. CASE ShutDown
  BY <1>0, <1>7, StoppedBase DEF ShutDown, TypeOK
<1> QED
  BY <1>1, <1>2, <1>3, <1>4, <1>5, <1>6, <1>7 DEF Serve

LEMMA FinishBase ==
    ASSUME Base, NEW r \in Runs, NEW conv \in {0, r}, Finish(r, conv)
    PROVE  Base'
<1> USE CronAssumption
<1> DEFINE j == run[r].job
<1>0. TypeOK /\ ClaimsCounted /\ SlotsLeft /\ now \in 0..MaxTime /\ run[r] \in AllRuns
      /\ run[r].task = "running"
  BY DEF Base, TypeOK, Finish
<1>1. run[r] # NoRun
  BY <1>0 DEF NoRun
<1>2. j \in Jobs
  BY <1>0, <1>1 DEF AllRuns
<1>3. run' \in [Runs -> AllRuns]
  <2>1. [run[r] EXCEPT !.task = "over", !.row = "finished"] \in AllRuns
    BY <1>0, <1>1 DEF AllRuns
  <2>2. run' = [run EXCEPT ![r] = [run[r] EXCEPT !.task = "over", !.row = "finished"]]
    BY <1>0 DEF Finish, TypeOK
  <2> QED
    BY <1>0, <2>1, <2>2 DEF TypeOK
<1>4. job' \in [Jobs -> AllJobs] /\ held' \subseteq Jobs
  <2>1. CASE Here(j)
    <3> DEFINE c == IF conv # 0 /\ SameRoute(j, r) THEN conv ELSE job[j].conv
               t == IF AsClaimed(j, r) THEN NextRun(job[j].sched, now) ELSE job[j].next
    <3>1. job[j] \in LiveJobs
      BY <1>0, <1>2, <2>1, HereIsLive
    <3>2. c \in 0..MaxRuns
      BY <3>1 DEF LiveJobs, Runs
    <3>3. t \in Times
      BY <1>0, <3>1, NextRunIsLater DEF LiveJobs
    <3>4. job' = [job EXCEPT ![j] = [job[j] EXCEPT !.finished = TRUE, !.conv = c, !.next = t]]
      BY <2>1 DEF Finish
    <3>6. held' \subseteq held
      <4>1. held' = held \/ held' = held \ {j}
        BY <2>1, Zenon DEF Finish
      <4> QED
        BY <4>1
    <3> HIDE DEF c, t
    <3>5. [job[j] EXCEPT !.finished = TRUE, !.conv = c, !.next = t] \in AllJobs
      BY <3>1, <3>2, <3>3 DEF LiveJobs, AllJobs
    <3> QED
      BY <1>0, <1>2, <3>4, <3>5, <3>6 DEF TypeOK
  <2>2. CASE ~Here(j)
    BY <1>0, <2>2 DEF Finish, TypeOK
  <2> QED
    BY <2>1, <2>2
<1>5. UNCHANGED <<now, disk, claimed, memVars, boundVars, touched, claims>>
  BY DEF Finish
<1>6. TypeOK'
  BY <1>0, <1>3, <1>4, <1>5 DEF TypeOK, memVars, boundVars
<1> QED
  BY <1>0, <1>5, <1>6 DEF Base, ClaimsCounted, SlotsLeft, memVars

LEMMA NextBase == Base /\ [Next]_vars => Base'
<1> SUFFICES ASSUME Base, [Next]_vars PROVE Base'
  OBVIOUS
<1> USE CronAssumption
<1>0. TypeOK /\ ClaimsCounted /\ SlotsLeft
  BY DEF Base
<1>1. CASE Tick
  BY <1>0, <1>1 DEF Base, TypeOK, ClaimsCounted, SlotsLeft, Tick, memVars, boundVars, histVars
<1>2. ASSUME NEW j \in Jobs, Manage(j) PROVE Base'
  BY <1>2, ManageBase
<1>3. CASE Serve
  BY <1>3, ServeBase
<1>4. ASSUME NEW r \in Runs, NEW conv \in {0, r}, Finish(r, conv) PROVE Base'
  BY <1>4, FinishBase
<1>5. CASE Cancel
  BY <1>0, <1>5 DEF Base, TypeOK, ClaimsCounted, SlotsLeft, Cancel, boundVars, histVars
<1>6. CASE Crash
  <2>1. job' \in [Jobs -> AllJobs]
    BY <1>0, <1>6 DEF Crash, TypeOK
  <2> QED
    BY <1>6, <2>1, StoppedBase DEF Crash
<1>7. CASE Restart
  BY <1>0, <1>7 DEF Base, TypeOK, ClaimsCounted, SlotsLeft, Restart, SchedSteps, histVars
<1>8. CASE UNCHANGED vars
  BY <1>0, <1>8 DEF Base, TypeOK, ClaimsCounted, SlotsLeft, vars
<1> QED
  BY <1>1, <1>2, <1>3, <1>4, <1>5, <1>6, <1>7, <1>8 DEF Next

LEMMA AlwaysBase == Spec => []Base
<1> QED
  BY InitBase, NextBase, PTL DEF Spec

\* The types of the store, the rows and the scheduler's memory hold in every
\* state: a next_run is never beyond the sentinel, and every live run's job was
\* a job (cron/types.rs, cron/store.rs).
THEOREM CronTypeCorrect == Spec => []TypeOK
<1>1. Base => TypeOK
  BY DEF Base
<1> QED
  BY <1>1, AlwaysBase, PTL

-----------------------------------------------------------------------------
(***************************************************************************)
(* Jobs in flight.                                                         *)
(***************************************************************************)
LEMMA InitFlight == Init => Flight
<1> SUFFICES ASSUME Init PROVE Flight
  OBVIOUS
<1>1. \A r \in Runs : run[r] = NoRun /\ ~Active(r)
  BY DEF Init, NoRun, Active
<1>2. Len(todo) = 0 /\ running = {} /\ touched = {}
  BY DEF Init
<1> QED
  BY <1>1, <1>2 DEF Flight, Numbered, OnePerJob, IdsMatchTasks

\* A step that leaves the tasks and the lists alone, and at most notes that runs
\* being executed were touched.
LEMMA SameFlight ==
    ASSUME Base, Flight, UNCHANGED <<run, claimed, running, todo>>,
           touched' \subseteq touched \cup {r \in Runs : run[r].task = "running"}
    PROVE  Flight'
<1>1. claimed \in 0..MaxRuns
  BY DEF Base, TypeOK
<1>2. \A r \in touched' : r <= claimed
  BY <1>1, CronAssumption DEF Flight, Numbered, NoRun, Runs
<1>3. Numbered'
  BY <1>2 DEF Flight, Numbered
<1>4. OnePerJob' /\ IdsMatchTasks'
  BY DEF Flight, OnePerJob, IdsMatchTasks, Active
<1> QED
  BY <1>3, <1>4 DEF Flight

LEMMA ManageFlight ==
    ASSUME Base, Flight, NEW j \in Jobs, Manage(j)
    PROVE  Flight'
<1>1. UNCHANGED <<run, claimed, running, todo>>
  BY DEF Manage, Insert, Reschedule, Move, Pause, Resume, Remove, Edit, memVars
<1>2. touched' \subseteq touched \cup {r \in Runs : run[r].task = "running"}
  <2>1. touched' = touched \/ touched' = touched \cup Executing(j)
    BY DEF Manage, Insert, Reschedule, Move, Pause, Resume, Remove, Edit, histVars
  <2> QED
    BY <2>1 DEF Executing
<1> QED
  BY <1>1, <1>2, SameFlight

\* The end of an execution keeps its job in flight.
LEMMA FinishFlight ==
    ASSUME Base, Flight, NEW r \in Runs, NEW conv \in {0, r}, Finish(r, conv)
    PROVE  Flight'
<1>1. /\ run[r].task = "running" /\ run' \in [Runs -> AllRuns] /\ run \in [Runs -> AllRuns]
      /\ run' = [run EXCEPT ![r].task = "over", ![r].row = "finished"]
      /\ UNCHANGED <<claimed, todo, running, touched>>
  BY FinishBase DEF Finish, memVars, Base, TypeOK
<1>2. /\ run[r] # NoRun
      /\ \A q \in Runs : q # r => run'[q] = run[q]
  BY <1>1 DEF NoRun
<1>3. run'[r].task = "over" /\ run'[r].job = run[r].job
  BY <1>1, <1>2 DEF AllRuns
<1>4. \A q \in Runs : /\ Active(q)' <=> Active(q)
                      /\ run'[q].job = run[q].job
  BY <1>1, <1>2, <1>3 DEF Active
<1>5. Numbered'
  BY <1>1, <1>2 DEF Flight, Numbered
<1>6. OnePerJob' /\ IdsMatchTasks'
  BY <1>1, <1>4 DEF Flight, OnePerJob, IdsMatchTasks
<1> QED
  BY <1>5, <1>6 DEF Flight

LEMMA StoppedFlight ==
    ASSUME Base, Flight, Stopped, UNCHANGED <<claimed, touched>>
    PROVE  Flight'
<1>1. \A r \in Runs : ~Active(r)' /\ (run[r] = NoRun => run'[r] = NoRun)
  <2> SUFFICES ASSUME NEW r \in Runs
               PROVE  ~Active(r)' /\ (run[r] = NoRun => run'[r] = NoRun)
    OBVIOUS
  <2>1. run[r] \in AllRuns
    BY DEF Base, TypeOK
  <2>2. run'[r] = IF run[r].task = "none" THEN run[r] ELSE [run[r] EXCEPT !.task = "joined"]
    BY DEF Stopped
  <2>3. CASE run[r] = NoRun
    BY <2>2, <2>3 DEF NoRun, Active
  <2>4. CASE run[r] # NoRun
    BY <2>1, <2>2, <2>4 DEF AllRuns, Active
  <2> QED
    BY <2>3, <2>4
<1>2. todo' = <<>> /\ running' = {} /\ Len(todo') = 0
  BY DEF Stopped
<1> QED
  BY <1>1, <1>2 DEF Flight, Numbered, OnePerJob, IdsMatchTasks

\* A claim starts a run of a job that had none.
LEMMA ClaimFlight ==
    ASSUME Base, Flight, Claim
    PROVE  Flight'
<1> DEFINE j == Head(todo)
<1>1. /\ j \in Jobs /\ todo' = Tail(todo) /\ Len(todo') = Len(todo) - 1 /\ Len(todo) \in Nat
      /\ \A i \in 1..Len(todo') : todo'[i] = todo[i + 1]
      /\ j = todo[1] /\ Len(todo) # 0
  BY HeadTailProperties, EmptySeq DEF Claim, Base, TypeOK
<1>2. j \notin running /\ \A i \in 1..Len(todo') : todo'[i] # j /\ todo'[i] \notin running
  <2>1. \A k, l \in 1..Len(todo) : todo[k] = todo[l] => k = l
    BY DEF Flight, OnePerJob
  <2>2. \A k \in 1..Len(todo) : todo[k] \notin running
    BY DEF Flight, OnePerJob
  <2>3. \A i \in 1..Len(todo') : i + 1 \in 1..Len(todo) /\ i + 1 # 1
    BY <1>1
  <2>4. 1 \in 1..Len(todo)
    BY <1>1
  <2> HIDE DEF j
  <2> QED
    BY <1>1, <2>1, <2>2, <2>3, <2>4
<1>3. \A k, l \in 1..Len(todo') : todo'[k] = todo'[l] => k = l
  <2>1. \A k, l \in 1..Len(todo) : todo[k] = todo[l] => k = l
    BY DEF Flight, OnePerJob
  <2>2. \A i \in 1..Len(todo') : i + 1 \in 1..Len(todo)
    BY <1>1
  <2> QED
    BY <1>1, <2>1, <2>2
<1>4. touched' = touched
  BY DEF Claim
<1>5. CASE Claimable(j)
  <2>1. PICK r \in Runs :
        /\ r = claimed + 1
        /\ run' = [run EXCEPT ![r] = [job |-> j, as |-> job[j], task |-> "running",
                                      row |-> "open"]]
        /\ claimed' = r
        /\ running' = running \cup {j}
    BY <1>5 DEF Claim
  <2>2. run \in [Runs -> AllRuns] /\ claimed \in Nat
    BY DEF Base, TypeOK
  <2>3. \A q \in Runs : q # r => run'[q] = run[q]
    BY <2>1, <2>2
  <2>4. run'[r].task = "running" /\ run'[r].job = j
    BY <2>1, <2>2
  <2>5. run[r] = NoRun
    BY <2>1, <2>2 DEF Flight, Numbered
  <2> HIDE DEF j
  <2>6. Active(r)' /\ \A q \in Runs : q # r => (Active(q)' <=> Active(q))
    BY <2>3, <2>4 DEF Active
  <2>7. \A q \in Runs : Active(q) => run[q].job \in running
    BY DEF Flight, IdsMatchTasks
  <2>8. \A q \in Runs : q # r /\ Active(q)' => run'[q].job # j
    BY <2>3, <2>6, <2>7, <1>2
  <2>9. ~Active(r)
    BY <2>5 DEF Active, NoRun
  <2>10. Numbered'
    <3>1. \A q \in Runs : q > claimed' => q > claimed /\ q # r
      BY <2>1, <2>2 DEF Runs
    <3>2. \A q \in touched' : q <= claimed /\ q \in Nat
      BY <1>4 DEF Flight, Numbered, Base, TypeOK, Runs
    <3> QED
      BY <3>1, <3>2, <2>1, <2>2, <2>3 DEF Flight, Numbered
  <2>11. OnePerJob'
    <3>1. \A p, q \in Runs : Active(p)' /\ Active(q)' /\ run'[p].job = run'[q].job => p = q
      <4>1. \A p, q \in Runs : Active(p) /\ Active(q) /\ run[p].job = run[q].job => p = q
        BY DEF Flight, OnePerJob
      <4> QED
        BY <4>1, <2>3, <2>4, <2>6, <2>8
    <3>2. \A k \in 1..Len(todo') : todo'[k] \notin running'
      BY <1>2, <2>1
    <3> QED
      BY <3>1, <3>2, <1>3 DEF OnePerJob
  <2>12. IdsMatchTasks'
    <3>1. \A q \in Runs : Active(q)' => run'[q].job \in running'
      BY <2>1, <2>3, <2>4, <2>6, <2>7
    <3>2. \A i \in running' : \E q \in Runs : Active(q)' /\ run'[q].job = i
      <4> SUFFICES ASSUME NEW i \in running' PROVE \E q \in Runs : Active(q)' /\ run'[q].job = i
        OBVIOUS
      <4>1. CASE i = j
        BY <4>1, <2>1, <2>4, <2>6
      <4>2. CASE i # j
        <5>1. PICK q \in Runs : Active(q) /\ run[q].job = i
          BY <4>2, <2>1 DEF Flight, IdsMatchTasks
        <5>2. q # r
          BY <5>1, <2>9
        <5> QED
          BY <5>1, <5>2, <2>3, <2>6
      <4> QED
        BY <4>1, <4>2
    <3> QED
      BY <3>1, <3>2 DEF IdsMatchTasks
  <2> QED
    BY <2>10, <2>11, <2>12 DEF Flight
<1>6. CASE ~Claimable(j)
  <2>1. UNCHANGED <<run, claimed, running>>
    BY <1>6 DEF Claim
  <2>2. Numbered' /\ IdsMatchTasks'
    BY <2>1, <1>4 DEF Flight, Numbered, IdsMatchTasks, Active
  <2>3. OnePerJob'
    BY <2>1, <1>2, <1>3 DEF Flight, OnePerJob, Active
  <2> QED
    BY <2>2, <2>3 DEF Flight
<1> QED
  BY <1>5, <1>6

\* A task that is joined takes its job out of flight.
LEMMA JoinFlight ==
    ASSUME Base, Flight, NEW r \in Runs, Join(r)
    PROVE  Flight'
<1> DEFINE j == run[r].job
<1>1. /\ run[r].task = "over" /\ run \in [Runs -> AllRuns]
      /\ run' = [run EXCEPT ![r].task = "joined"]
      /\ running' = running \ {j}
      /\ UNCHANGED <<claimed, todo, touched>>
  BY DEF Join, Released, histVars, Base, TypeOK
<1>2. /\ \A q \in Runs : q # r => run'[q] = run[q]
      /\ run[r] # NoRun /\ run'[r].task = "joined"
  BY <1>1 DEF AllRuns, NoRun
<1>3. ~Active(r)' /\ Active(r) /\ \A q \in Runs : q # r => (Active(q)' <=> Active(q))
  BY <1>1, <1>2 DEF Active
<1>4. \A p, q \in Runs : Active(p) /\ Active(q) /\ run[p].job = run[q].job => p = q
  BY DEF Flight, OnePerJob
<1>5. Numbered'
  BY <1>1, <1>2 DEF Flight, Numbered
<1>6. OnePerJob'
  <2>1. \A p, q \in Runs : Active(p)' /\ Active(q)' /\ run'[p].job = run'[q].job => p = q
    BY <1>2, <1>3, <1>4
  <2> QED
    BY <2>1, <1>1 DEF Flight, OnePerJob
<1>7. IdsMatchTasks'
  <2>1. ASSUME NEW q \in Runs, Active(q)' PROVE run'[q].job \in running'
    <3>1. q # r /\ Active(q) /\ run'[q].job = run[q].job
      BY <2>1, <1>2, <1>3
    <3>2. run[q].job \in running /\ run[q].job # j
      BY <3>1, <1>3, <1>4 DEF Flight, IdsMatchTasks
    <3> QED
      BY <3>1, <3>2, <1>1
  <2>2. ASSUME NEW i \in running' PROVE \E q \in Runs : Active(q)' /\ run'[q].job = i
    <3>1. i \in running /\ i # j
      BY <1>1
    <3>2. PICK q \in Runs : Active(q) /\ run[q].job = i
      BY <3>1 DEF Flight, IdsMatchTasks
    <3> QED
      BY <3>1, <3>2, <1>2, <1>3
  <2> QED
    BY <2>1, <2>2 DEF IdsMatchTasks
<1> QED
  BY <1>5, <1>6, <1>7 DEF Flight

LEMMA NextFlight == Base /\ Flight /\ [Next]_vars => Flight'
<1> SUFFICES ASSUME Base, Flight, [Next]_vars PROVE Flight'
  OBVIOUS
<1>1. CASE Tick
  BY <1>1, SameFlight DEF Tick, memVars, histVars
<1>2. ASSUME NEW j \in Jobs, Manage(j) PROVE Flight'
  BY <1>2, ManageFlight
<1>3. CASE Serve
  <2>1. CASE Interval
    BY <2>1, SameFlight DEF Interval, histVars
  <2>2. CASE Poll
    <3>1. UNCHANGED <<run, claimed, running, touched>> /\ todo' \in DueLists
      BY <2>2 DEF Poll, histVars
    <3>2. /\ \A k, l \in 1..Len(todo') : todo'[k] = todo'[l] => k = l
          /\ \A k \in 1..Len(todo') : todo'[k] \in Candidates
      BY <3>1, DueListIsShort
    <3>3. OnePerJob'
      BY <3>1, <3>2 DEF Flight, OnePerJob, Active, Candidates
    <3> QED
      BY <3>1, <3>3 DEF Flight, Numbered, IdsMatchTasks, Active
  <2>3. CASE ClaimsEnd
    <3>1. UNCHANGED <<run, claimed, running, touched>> /\ Len(todo') = 0
      BY <2>3 DEF ClaimsEnd, histVars
    <3>2. OnePerJob'
      BY <3>1 DEF Flight, OnePerJob, Active
    <3> QED
      BY <3>1, <3>2 DEF Flight, Numbered, IdsMatchTasks, Active
  <2>4. CASE Claim
    BY <2>4, ClaimFlight
  <2>5. ASSUME NEW r \in Runs, Join(r) PROVE Flight'
    BY <2>5, JoinFlight
  <2>6. CASE StopSelect
    BY <2>6, SameFlight DEF StopSelect, histVars
  <2>7. CASE ShutDown
    BY <2>7, StoppedFlight DEF ShutDown, histVars
  <2> QED
    BY <1>3, <2>1, <2>2, <2>3, <2>4, <2>5, <2>6, <2>7 DEF Serve
<1>4. ASSUME NEW r \in Runs, NEW conv \in {0, r}, Finish(r, conv) PROVE Flight'
  BY <1>4, FinishFlight
<1>5. CASE Cancel
  BY <1>5, SameFlight DEF Cancel, histVars
<1>6. CASE Crash
  BY <1>6, StoppedFlight DEF Crash, histVars
<1>7. CASE Restart
  BY <1>7, SameFlight DEF Restart, histVars
<1>8. CASE UNCHANGED vars
  BY <1>8, SameFlight DEF vars
<1> QED
  BY <1>1, <1>2, <1>3, <1>4, <1>5, <1>6, <1>7, <1>8 DEF Next

LEMMA AlwaysFlight == Spec => [](Base /\ Flight)
<1>1. Init => Base /\ Flight
  BY InitBase, InitFlight
<1>2. Base /\ Flight /\ [Next]_vars => Base' /\ Flight'
  BY NextBase, NextFlight
<1> QED
  BY <1>1, <1>2, PTL DEF Spec

\* A job has one execution at most: claim_job, the ids in flight and the index
\* walk that leaves them out together never start a second.
THEOREM JobsRunOnce == Spec => []OneRunPerJob
<1>1. Base /\ Flight => OneRunPerJob
  <2> SUFFICES ASSUME Base, Flight, NEW j \in Jobs
               PROVE  Cardinality(Executing(j)) <= 1
    BY DEF OneRunPerJob
  <2>1. CASE Executing(j) = {}
    BY <2>1, FS_EmptySet
  <2>2. CASE Executing(j) # {}
    <3>1. PICK r \in Runs : r \in Executing(j)
      BY <2>2 DEF Executing
    <3>2. Executing(j) = {r}
      BY <3>1 DEF Executing, Flight, OnePerJob, Active
    <3>3. Cardinality({r}) = 1
      BY FS_Singleton
    <3> QED
      BY <3>2, <3>3
  <2> QED
    BY <2>1, <2>2
<1> QED
  BY <1>1, AlwaysFlight, PTL

\* The tasks never outnumber the slots: a due list is at most as long as the
\* slots that were free, and the scheduler claims nothing beyond it.
THEOREM SlotsCorrect == Spec => []SlotsAreKept
<1>1. Base /\ Flight => SlotsAreKept
  <2> SUFFICES ASSUME Base, Flight PROVE SlotsAreKept
    OBVIOUS
  <2> DEFINE S == {r \in Runs : run[r].task = "running"}
             f == [r \in S |-> run[r].job]
  <2>1. f \in Injection(S, running)
    <3>1. \A r \in S : Active(r) /\ run[r].job \in running
      BY DEF Flight, IdsMatchTasks, Active
    <3>2. f \in [S -> running]
      BY <3>1
    <3>3. \A q, r \in S : f[q] = f[r] => q = r
      BY <3>1 DEF Flight, OnePerJob
    <3> QED
      BY <3>2, <3>3 DEF Injection, IsInjective
  <2>2. IsFiniteSet(running) /\ Cardinality(running) \in Nat /\ Len(todo) \in Nat
    BY JobsInFlight DEF Base, TypeOK
  <2>3. IsFiniteSet(S) /\ Cardinality(S) <= Cardinality(running)
    BY <2>1, <2>2, FS_Injection
  <2>4. Cardinality(S) \in Nat
    BY <2>3, FS_CardinalityType
  <2> QED
    BY <2>2, <2>3, <2>4, CronAssumption DEF SlotsAreKept, Base, SlotsLeft
<1> QED
  BY <1>1, AlwaysFlight, PTL

\* The ids in flight are those of the tasks that have not been joined.
THEOREM BookkeepingCorrect == Spec => []RunningIdsExact
<1>1. Base /\ Flight => RunningIdsExact
  BY DEF Flight, IdsMatchTasks, Active, RunningIdsExact
<1> QED
  BY <1>1, AlwaysFlight, PTL

-----------------------------------------------------------------------------
(***************************************************************************)
(* Rows: how the job a user edits, and what a crash would bring back of it, *)
(* change.                                                                 *)
(***************************************************************************)
\* A row changes by an edit, by the end of a run of its job, or falls back to
\* what was flushed; only a pause makes a job held.
LEMMA RowSteps ==
    ASSUME Base, [Next]_vars, NEW i \in Jobs
    PROVE  /\ disk'[i] \in {job[i], disk[i], job'[i]}
           /\ \/ job'[i] \in {job[i], disk[i]} /\ (i \in held' => i \in held)
              \/ Manage(i)
              \/ \E r \in Runs : \E conv \in {0, r} : Finish(r, conv) /\ run[r].job = i
<1>0. job \in [Jobs -> AllJobs] /\ disk \in [Jobs -> AllJobs]
  BY DEF Base, TypeOK
<1>1. CASE Tick
  BY <1>1 DEF Tick, histVars
<1>2. ASSUME NEW j \in Jobs, Manage(j)
      PROVE  /\ disk'[i] \in {job[i], disk[i], job'[i]}
             /\ \/ job'[i] \in {job[i], disk[i]} /\ (i \in held' => i \in held)
                \/ Manage(i)
  <2>1. disk' = job'
    BY <1>2 DEF Manage, Insert, Reschedule, Move, Pause, Resume, Remove, Edit
  <2>2. CASE i = j
    BY <1>2, <2>1, <2>2
  <2>3. CASE i # j
    <3>1. job'[i] = job[i]
      BY <1>0, <1>2, <2>3 DEF Manage, Insert, Reschedule, Move, Pause, Resume, Remove, Edit
    <3>2. i \in held' => i \in held
      BY <1>2, <2>3 DEF Manage, Insert, Reschedule, Move, Pause, Resume, Remove, Edit, histVars
    <3> QED
      BY <2>1, <3>1, <3>2
  <2> QED
    BY <2>2, <2>3
<1>3. CASE Serve
  BY <1>3 DEF Serve, Interval, Poll, ClaimsEnd, Claim, Join, StopSelect, ShutDown, histVars
<1>4. ASSUME NEW r \in Runs, NEW conv \in {0, r}, Finish(r, conv)
      PROVE  /\ disk'[i] = disk[i]
             /\ \/ job'[i] = job[i] /\ (i \in held' => i \in held)
                \/ run[r].job = i
  <2>1. disk' = disk
    BY <1>4 DEF Finish
  <2>2. run[r].job # i => job'[i] = job[i]
    BY <1>0, <1>4 DEF Finish
  <2>3. held' = held \/ held' = held \ {run[r].job}
    BY <1>4, Zenon DEF Finish
  <2> QED
    BY <2>1, <2>2, <2>3
<1>5. CASE Cancel
  BY <1>5 DEF Cancel, histVars
<1>6. CASE Crash
  BY <1>6 DEF Crash, histVars
<1>7. CASE Restart
  BY <1>7 DEF Restart, histVars
<1>8. CASE UNCHANGED vars
  BY <1>8 DEF vars
<1> QED
  BY <1>1, <1>2, <1>3, <1>4, <1>5, <1>6, <1>7, <1>8 DEF Next

\* What the end of a run makes of its job.
LEMMA FinishedRow ==
    ASSUME Base, NEW r \in Runs, NEW conv \in {0, r}, Finish(r, conv)
    PROVE  LET j == run[r].job
           IN  /\ run[r] \in AllRuns /\ run[r] # NoRun /\ j \in Jobs
               /\ ~Here(j) => job'[j] = job[j]
               /\ Here(j) =>
                     /\ job'[j] \in LiveJobs
                     /\ job'[j].sched = job[j].sched
                     /\ job'[j].origin = job[j].origin
                     /\ job'[j].conv = IF conv # 0 /\ SameRoute(j, r) THEN conv ELSE job[j].conv
                     /\ job'[j].next = IF AsClaimed(j, r) THEN NextRun(job[j].sched, now)
                                       ELSE job[j].next
<1> DEFINE j == run[r].job
<1>1. run[r] \in AllRuns /\ run[r] # NoRun /\ job \in [Jobs -> AllJobs] /\ TypeOK
  BY DEF Base, TypeOK, Finish, NoRun
<1>2. j \in Jobs
  BY <1>1 DEF AllRuns
<1>3. CASE ~Here(j)
  BY <1>1, <1>2, <1>3 DEF Finish
<1>4. CASE Here(j)
  <2> DEFINE c == IF conv # 0 /\ SameRoute(j, r) THEN conv ELSE job[j].conv
             t == IF AsClaimed(j, r) THEN NextRun(job[j].sched, now) ELSE job[j].next
  <2>1. job[j] \in LiveJobs
    BY <1>1, <1>2, <1>4, HereIsLive
  <2>2. job' = [job EXCEPT ![j] = [job[j] EXCEPT !.finished = TRUE, !.conv = c, !.next = t]]
    BY <1>4 DEF Finish
  <2> HIDE DEF c, t
  <2>3. job'[j] = [job[j] EXCEPT !.finished = TRUE, !.conv = c, !.next = t]
    BY <1>1, <1>2, <2>2
  <2>4. /\ job'[j].sched = job[j].sched /\ job'[j].origin = job[j].origin
        /\ job'[j].conv = c /\ job'[j].next = t /\ job'[j].here = "live"
    BY <2>1, <2>3 DEF LiveJobs
  <2>5. job' \in [Jobs -> AllJobs]
    BY FinishBase DEF Base, TypeOK
  <2>6. job'[j] \in LiveJobs
    <3>1. job'[j] \in AllJobs
      BY <1>2, <2>5
    <3> QED
      BY <2>4, <3>1 DEF AllJobs, NoJob, Gone
  <2> QED
    BY <1>1, <1>2, <1>4, <2>4, <2>6 DEF c, t
<1> QED
  BY <1>1, <1>2, <1>3, <1>4

LEMMA NextHeld == Base /\ HeldIsPaused /\ [Next]_vars => HeldIsPaused'
<1> SUFFICES ASSUME Base, HeldIsPaused, [Next]_vars, NEW i \in held'
             PROVE  NotToRun(job'[i]) /\ NotToRun(disk'[i])
  BY DEF HeldIsPaused
<1>0. Base' /\ i \in Jobs /\ job \in [Jobs -> AllJobs]
  BY NextBase DEF Base, TypeOK
<1>1. i \in held => NotToRun(job[i]) /\ NotToRun(disk[i])
  BY DEF HeldIsPaused
<1>2. CASE job'[i] \in {job[i], disk[i]} /\ i \in held
  BY <1>0, <1>1, <1>2, RowSteps
<1>3. CASE Manage(i)
  <2>1. disk' = job'
    BY <1>3 DEF Manage, Insert, Reschedule, Move, Pause, Resume, Remove, Edit
  <2>2. NotToRun(job'[i])
    <3>1. ASSUME NEW s \in Schedules, NEW o \in Origins, Insert(i, s, o) PROVE FALSE
      BY <3>1, <1>1 DEF Insert, histVars, NotToRun, NoJob
    <3>2. ASSUME NEW s \in Schedules, Reschedule(i, s) PROVE NotToRun(job'[i])
      <4>1. Paused(job'[i])
        BY <3>2 DEF Reschedule
      <4>2. job'[i].here = "live"
        BY <3>2, <1>0, HereIsLive DEF Reschedule, Edit, Base, LiveJobs
      <4> QED
        BY <4>1, <4>2 DEF NotToRun
    <3>3. ASSUME NEW o \in Origins, Move(i, o) PROVE NotToRun(job'[i])
      <4>1. NotToRun(job[i]) /\ job[i] \in LiveJobs
        BY <3>3, <1>0, <1>1, HereIsLive DEF Move, histVars, Base
      <4> QED
        BY <3>3, <1>0, <4>1 DEF Move, Edit, NotToRun, Paused, LiveJobs
    <3>4. CASE Pause(i)
      <4>1. job[i] \in LiveJobs
        BY <3>4, <1>0, HereIsLive DEF Pause, Base
      <4> QED
        BY <3>4, <1>0, <4>1 DEF Pause, Edit, NotToRun, Paused, LiveJobs
    <3>5. CASE Resume(i)
      BY <3>5 DEF Resume
    <3>6. CASE Remove(i)
      BY <3>6, <1>0 DEF Remove, Edit, NotToRun, Gone
    <3> QED
      BY <1>3, <3>1, <3>2, <3>3, <3>4, <3>5, <3>6 DEF Manage
  <2> QED
    BY <2>1, <2>2
<1>4. ASSUME NEW r \in Runs, NEW conv \in {0, r}, Finish(r, conv), run[r].job = i
      PROVE  NotToRun(job'[i]) /\ NotToRun(disk'[i])
  <2>1. i \in held
    <3>1. held' = held \/ held' = held \ {run[r].job}
      BY <1>4, Zenon DEF Finish
    <3> QED
      BY <3>1
  <2>2. disk' = disk
    BY <1>4 DEF Finish
  <2>3. CASE ~Here(i)
    BY <1>1, <1>4, <2>1, <2>2, <2>3, FinishedRow
  <2>4. CASE Here(i)
    <3>1. Paused(job[i])
      BY <1>1, <2>1, <2>4 DEF NotToRun, Here
    <3>2. job'[i].next = job[i].next /\ job'[i] \in LiveJobs
      BY <1>4, <2>4, <3>1, FinishedRow DEF AsClaimed
    <3> QED
      BY <1>1, <2>1, <2>2, <3>1, <3>2 DEF NotToRun, Paused, LiveJobs
  <2> QED
    BY <2>3, <2>4
<1> QED
  BY <1>0, <1>2, <1>3, <1>4, RowSteps

\* A paused job is not started until it is resumed or set to another time, in
\* whatever order the pause, the due list and a crash come: claim_job rereads
\* the job, and no flush brings back the times from before the pause.
THEOREM PauseCorrect == Spec => PauseHolds
<1>1. Init => HeldIsPaused
  BY DEF Init, HeldIsPaused
<1>2. Base /\ HeldIsPaused /\ [Next]_vars => \A j \in held : claims'[j] <= claims[j]
  <2> SUFFICES ASSUME Base, HeldIsPaused, [Next]_vars, NEW j \in held
               PROVE  claims'[j] <= claims[j]
    OBVIOUS
  <2>0. j \in Jobs /\ claims \in [Jobs -> 0..MaxRuns] /\ MaxRuns \in Nat
        /\ NotToRun(job[j])
    BY CronAssumption DEF Base, TypeOK, HeldIsPaused
  <2>1. CASE claims' = claims
    BY <2>0, <2>1
  <2>2. ASSUME NEW i \in Jobs, NEW s \in Schedules, Reschedule(i, s)
        PROVE  claims'[j] <= claims[j]
    <3>1. claims' = [claims EXCEPT ![i] = 0]
      BY <2>2 DEF Reschedule
    <3> QED
      BY <2>0, <3>1
  <2>3. CASE Claim
    <3>1. CASE Claimable(Head(todo))
      <4>1. Head(todo) # j
        BY <3>1, <2>0 DEF Claimable, Due, Here, NotToRun
      <4>2. claims' = [claims EXCEPT ![Head(todo)] = claims[Head(todo)] + 1]
        BY <2>3, <3>1 DEF Claim
      <4> QED
        BY <2>0, <4>1, <4>2
    <3>2. CASE ~Claimable(Head(todo))
      BY <2>1, <2>3, <3>2 DEF Claim
    <3> QED
      BY <3>1, <3>2
  <2>4. \/ claims' = claims \/ Claim
        \/ \E i \in Jobs : \E s \in Schedules : Reschedule(i, s)
    BY DEF Next, vars, Tick, Manage, Insert, Move, Pause, Resume, Remove, Serve, Interval, Poll,
           ClaimsEnd, Join, StopSelect, ShutDown, Finish, Cancel, Crash, Restart, histVars
  <2> QED
    BY <2>1, <2>2, <2>3, <2>4
<1>3. Base /\ HeldIsPaused /\ [Next]_vars => [\A j \in held : claims'[j] <= claims[j]]_vars
  BY <1>2
<1> QED
  BY <1>1, <1>3, InitBase, NextBase, NextHeld, PTL DEF Spec, PauseHolds

-----------------------------------------------------------------------------
(***************************************************************************)
(* Runs: what is kept of them, and the edits made while they execute.      *)
(***************************************************************************)
\* The steps that change the runs.
LEMMA RunSteps ==
    ASSUME [Next]_vars
    PROVE  \/ UNCHANGED <<run, claimed>>
           \/ Claim
           \/ (Stopped /\ claimed' = claimed)
           \/ \E q \in Runs : Join(q)
           \/ \E q \in Runs : \E conv \in {0, q} : Finish(q, conv)
<1>1. (\E j \in Jobs : Manage(j)) => UNCHANGED <<run, claimed>>
  BY DEF Manage, Insert, Reschedule, Move, Pause, Resume, Remove, Edit
<1>2. Interval \/ Poll \/ ClaimsEnd \/ StopSelect => UNCHANGED <<run, claimed>>
  BY DEF Interval, Poll, ClaimsEnd, StopSelect
<1>3. ShutDown \/ Crash => Stopped /\ claimed' = claimed
  BY DEF ShutDown, Crash
<1>4. Tick \/ Cancel \/ Restart \/ UNCHANGED vars => UNCHANGED <<run, claimed>>
  BY DEF Tick, Cancel, Restart, vars
<1> QED
  BY <1>1, <1>2, <1>3, <1>4 DEF Next, Serve

\* A claimed run keeps its number, its job and the job as claimed.
LEMMA RunsAreKept ==
    ASSUME Base, Flight, [Next]_vars
    PROVE  /\ claimed' >= claimed
           /\ \A r \in Runs : run[r] # NoRun =>
                 run'[r] # NoRun /\ run'[r].job = run[r].job /\ run'[r].as = run[r].as
<1>0. run \in [Runs -> AllRuns] /\ claimed \in Nat
  BY DEF Base, TypeOK
<1>1. CASE UNCHANGED <<run, claimed>>
  BY <1>0, <1>1
<1>2. CASE Claim
  <2>1. CASE Claimable(Head(todo))
    <3>1. PICK r \in Runs :
             /\ r = claimed + 1 /\ claimed' = r
             /\ run' = [run EXCEPT ![r] = [job |-> Head(todo), as |-> job[Head(todo)],
                                           task |-> "running", row |-> "open"]]
      BY <1>2, <2>1 DEF Claim
    <3>2. run[r] = NoRun
      BY <1>0, <3>1 DEF Flight, Numbered
    <3> QED
      BY <1>0, <3>1, <3>2
  <2>2. CASE ~Claimable(Head(todo))
    BY <1>1, <1>2, <2>2 DEF Claim
  <2> QED
    BY <2>1, <2>2
<1>3. ASSUME NEW q \in Runs, NEW conv \in {0, q}, Finish(q, conv)
      PROVE  /\ claimed' >= claimed
             /\ \A r \in Runs : run[r] # NoRun =>
                   run'[r] # NoRun /\ run'[r].job = run[r].job /\ run'[r].as = run[r].as
  <2>1. run' = [run EXCEPT ![q].task = "over", ![q].row = "finished"] /\ claimed' = claimed
        /\ run[q] \in AllRuns /\ run[q] # NoRun
    BY <1>3, FinishedRow DEF Finish
  <2>2. /\ \A r \in Runs : r # q => run'[r] = run[r]
        /\ run'[q].task = "over" /\ run'[q].job = run[q].job /\ run'[q].as = run[q].as
    BY <1>0, <2>1 DEF AllRuns
  <2>3. run'[q] # NoRun
    BY <2>2 DEF NoRun
  <2>4. claimed' >= claimed
    BY <1>0, <2>1
  <2>5. \A r \in Runs : run[r] # NoRun =>
           run'[r] # NoRun /\ run'[r].job = run[r].job /\ run'[r].as = run[r].as
    BY <2>2, <2>3
  <2> QED
    BY <2>4, <2>5
<1>4. ASSUME NEW q \in Runs, Join(q)
      PROVE  /\ claimed' >= claimed
             /\ \A r \in Runs : run[r] # NoRun =>
                   run'[r] # NoRun /\ run'[r].job = run[r].job /\ run'[r].as = run[r].as
  <2>1. run' = [run EXCEPT ![q].task = "joined"] /\ claimed' = claimed
        /\ run[q] \in AllRuns /\ run[q] # NoRun
    BY <1>0, <1>4 DEF Join, NoRun
  <2> QED
    BY <1>0, <2>1 DEF AllRuns, NoRun
<1>5. CASE Stopped /\ claimed' = claimed
  <2>1. ASSUME NEW r \in Runs, run[r] # NoRun
        PROVE  run'[r] # NoRun /\ run'[r].job = run[r].job /\ run'[r].as = run[r].as
    <3>1. run'[r] = IF run[r].task = "none" THEN run[r] ELSE [run[r] EXCEPT !.task = "joined"]
      BY <1>5 DEF Stopped
    <3> QED
      BY <1>0, <2>1, <3>1 DEF AllRuns, NoRun
  <2> QED
    BY <1>0, <1>5, <2>1
<1> QED
  BY <1>1, <1>2, <1>3, <1>4, <1>5, RunSteps

\* What a job remembers stays remembered.
LEMMA StillRemembered ==
    ASSUME Base, Flight, [Next]_vars, NEW CONSTANT j \in Jobs, NEW CONSTANT x, Remembered(j, x)
    PROVE  Remembered(j, x)'
<1> SUFFICES ASSUME x.here = "live", x.conv # 0
             PROVE  /\ x.conv \in 1..claimed' /\ run'[x.conv] # NoRun
                    /\ run'[x.conv].job = j
                    /\ run'[x.conv].as.origin = x.origin
  BY DEF Remembered
<1>1. /\ x.conv \in 1..claimed /\ run[x.conv] # NoRun
      /\ run[x.conv].job = j /\ run[x.conv].as.origin = x.origin
  BY DEF Remembered
<1>2. claimed \in 0..MaxRuns /\ claimed' \in 0..MaxRuns
  BY NextBase DEF Base, TypeOK
<1>3. x.conv \in Runs
  BY <1>1, <1>2, CronAssumption DEF Runs
<1> QED
  BY <1>1, <1>2, <1>3, RunsAreKept

\* An edit keeps the origin the conversation came from, or forgets it.
LEMMA EditedRow ==
    ASSUME Base, NEW i \in Jobs, Manage(i)
    PROVE  \/ job'[i].here # "live"
           \/ job'[i].conv = 0
           \/ job'[i].here = "live" /\ Here(i) /\ job'[i].conv = job[i].conv
                                 /\ job'[i].origin = job[i].origin
<1>0. job \in [Jobs -> AllJobs] /\ (Here(i) => job[i] \in LiveJobs)
  BY HereIsLive DEF Base, TypeOK
<1>1. ASSUME NEW s \in Schedules, NEW o \in Origins, Insert(i, s, o) PROVE job'[i].conv = 0
  BY <1>0, <1>1 DEF Insert, Job
<1>2. ASSUME NEW s \in Schedules, Reschedule(i, s)
      PROVE  job'[i].here = "live" /\ Here(i) /\ job'[i].conv = job[i].conv
             /\ job'[i].origin = job[i].origin
  BY <1>0, <1>2 DEF Reschedule, Edit, LiveJobs
<1>3. ASSUME NEW o \in Origins, Move(i, o) PROVE job'[i].conv = 0
  BY <1>0, <1>3 DEF Move, Edit, LiveJobs
<1>4. ASSUME Pause(i) \/ Resume(i)
      PROVE  job'[i].here = "live" /\ Here(i) /\ job'[i].conv = job[i].conv
             /\ job'[i].origin = job[i].origin
  BY <1>0, <1>4 DEF Pause, Resume, Edit, LiveJobs
<1>5. CASE Remove(i)
  BY <1>0, <1>5 DEF Remove, Edit, Gone
<1> QED
  BY <1>1, <1>2, <1>3, <1>4, <1>5 DEF Manage

LEMMA NextOwn == Base /\ Flight /\ OwnConversations /\ [Next]_vars => OwnConversations'
<1> SUFFICES ASSUME Base, Flight, OwnConversations, [Next]_vars, NEW i \in Jobs
             PROVE  Remembered(i, job[i])' /\ Remembered(i, disk[i])'
  BY DEF OwnConversations
<1>1. ASSUME NEW CONSTANT x, x = job[i] \/ x = disk[i] PROVE Remembered(i, x)'
  BY <1>1, StillRemembered DEF OwnConversations
<1>2. Remembered(i, job[i])'
  <2>1. CASE job'[i] \in {job[i], disk[i]}
    <3>1. PICK x : x = job'[i]
      OBVIOUS
    <3>2. Remembered(i, x)'
      BY <1>1, <2>1, <3>1
    <3> QED
      BY <3>1, <3>2 DEF Remembered
  <2>2. CASE Manage(i)
    <3>1. PICK x : x = job[i]
      OBVIOUS
    <3>2. Remembered(i, x)'
      BY <1>1, <3>1
    <3> QED
      BY <2>2, <3>1, <3>2, EditedRow DEF Remembered, Here
  <2>3. ASSUME NEW r \in Runs, NEW conv \in {0, r}, Finish(r, conv), run[r].job = i
        PROVE  Remembered(i, job[i])'
    <3>1. PICK x : x = job[i]
      OBVIOUS
    <3>2. Remembered(i, x)'
      BY <1>1, <3>1
    <3>3. CASE ~Here(i)
      BY <2>3, <3>1, <3>2, <3>3, FinishedRow DEF Remembered
    <3>4. CASE Here(i) /\ ~(conv # 0 /\ SameRoute(i, r))
      BY <2>3, <3>1, <3>2, <3>4, FinishedRow DEF Remembered, Here
    <3>5. CASE Here(i) /\ conv # 0 /\ SameRoute(i, r)
      <4>1. /\ job'[i].conv = r /\ job'[i].origin = run[r].as.origin
            /\ run[r] # NoRun
        BY <2>3, <3>5, FinishedRow DEF SameRoute
      <4>2. /\ run'[r] # NoRun /\ run'[r].job = i /\ run'[r].as = run[r].as
        BY <2>3, <4>1, RunsAreKept
      <4>3. r \in 1..claimed'
        <5>1. claimed' = claimed /\ claimed \in Nat
          BY <2>3 DEF Finish, Base, TypeOK
        <5> QED
          BY <4>1, <5>1 DEF Flight, Numbered, Runs
      <4> QED
        BY <4>1, <4>2, <4>3 DEF Remembered
    <3> QED
      BY <3>3, <3>4, <3>5
  <2> QED
    BY <2>1, <2>2, <2>3, RowSteps
<1>3. Remembered(i, disk[i])'
  <2>1. CASE disk'[i] = job'[i]
    BY <1>2, <2>1 DEF Remembered
  <2>2. CASE disk'[i] \in {job[i], disk[i]}
    <3>1. PICK x : x = disk'[i]
      OBVIOUS
    <3>2. Remembered(i, x)'
      BY <1>1, <2>2, <3>1
    <3> QED
      BY <3>1, <3>2 DEF Remembered
  <2> QED
    BY <2>1, <2>2, RowSteps
<1> QED
  BY <1>2, <1>3

\* A job only remembers a conversation its present origin has had, in memory and
\* in what a crash brings back: moving a job forgets it, a run that was started
\* for another origin does not record it.
THEOREM ConversationCorrect == Spec => []ConversationOfItsOrigin
<1>1. Init => OwnConversations
  BY DEF Init, OwnConversations, Remembered, NoJob
<1>2. OwnConversations => ConversationOfItsOrigin
  BY DEF OwnConversations, Remembered, ConversationOfItsOrigin, Here
<1> QED
  BY <1>1, <1>2, AlwaysFlight, NextOwn, PTL DEF Spec

-----------------------------------------------------------------------------
(***************************************************************************)
(* Edits of a job that runs.                                               *)
(***************************************************************************)
\* An edit that marks a running run moves its job's next time beyond the present,
\* or leaves it paused.
LEMMA ManageLater ==
    ASSUME Base, NEW j \in Jobs, Manage(j), NEW r \in Runs, Later(r)
    PROVE  Later(r)'
<1> USE CronAssumption
<1>0. UNCHANGED <<run, now>> /\ job \in [Jobs -> AllJobs] /\ now \in 0..MaxTime
  BY DEF Manage, Insert, Reschedule, Move, Pause, Resume, Remove, Edit, Base, TypeOK
<1> SUFFICES ASSUME run[r].task = "running"
             PROVE  Later(r)'
  BY <1>0 DEF Later
<1>1. run[r] \in AllRuns /\ run[r] # NoRun
  BY DEF Base, TypeOK, NoRun
<1>2. /\ run[r].as.next \in Nat /\ run[r].as.next <= now /\ run[r].as.next < Never
      /\ run[r].job \in Jobs
      /\ r \in touched /\ Here(run[r].job) => job[run[r].job].next > run[r].as.next
  BY <1>1 DEF AllRuns, LiveJobs, Times, Later
<1>3. CASE run[r].job # j
  <2>1. r \in touched' => r \in touched
    BY <1>3 DEF Manage, Insert, Reschedule, Move, Pause, Resume, Remove, Edit, histVars, Executing
  <2>2. job'[run[r].job] = job[run[r].job]
    BY <1>0, <1>2, <1>3 DEF Manage, Insert, Reschedule, Move, Pause, Resume, Remove, Edit
  <2> QED
    BY <1>0, <1>2, <2>1, <2>2 DEF Later, Here
<1>4. CASE run[r].job = j
  <2> SUFFICES ASSUME r \in touched', job'[j].here = "live"
               PROVE  job'[j].next > run[r].as.next
    BY <1>0, <1>2, <1>4 DEF Later, Here
  <2>0. Here(j) => job[j] \in LiveJobs
    BY HereIsLive DEF Base
  <2>1. ASSUME NEW s \in Schedules, NextRun(s, now) = job'[j].next
        PROVE  job'[j].next > run[r].as.next
    <3>1. NextRun(s, now) \in Nat /\ NextRun(s, now) > now
      BY <1>0, NextRunIsLater DEF Times
    <3> QED
      BY <1>0, <1>2, <2>1, <3>1
  <2>2. ASSUME NEW s \in Schedules, NEW o \in Origins, Insert(j, s, o)
        PROVE  job'[j].next > run[r].as.next
    <3>1. NextRun(s, now) = job'[j].next
      BY <1>0, <2>2 DEF Insert, Job
    <3> QED
      BY <2>1, <3>1
  <2>3. ASSUME NEW s \in Schedules, Reschedule(j, s)
        PROVE  job'[j].next > run[r].as.next
    <3>1. \/ job'[j].next = NextRun(s, now)
          \/ job'[j].next = job[j].next /\ Paused(job[j])
      BY <1>0, <2>0, <2>3 DEF Reschedule, Edit, LiveJobs
    <3> QED
      BY <1>2, <2>1, <3>1 DEF Paused
  <2>4. ASSUME NEW o \in Origins, Move(j, o)
        PROVE  job'[j].next > run[r].as.next
    <3>1. job'[j].next = job[j].next /\ Here(j) /\ touched' = touched
      BY <1>0, <2>0, <2>4 DEF Move, Edit, LiveJobs, histVars
    <3> QED
      BY <1>2, <1>4, <3>1
  <2>5. CASE Pause(j)
    <3>1. job'[j].next = Never
      BY <1>0, <2>0, <2>5 DEF Pause, Edit, LiveJobs
    <3> QED
      BY <1>2, <3>1
  <2>6. CASE Resume(j)
    <3>1. job'[j].next = NextRun(job[j].sched, now) /\ job[j].sched \in Schedules
      BY <1>0, <2>0, <2>6 DEF Resume, Edit, LiveJobs
    <3> QED
      BY <2>1, <3>1
  <2>7. CASE Remove(j)
    BY <1>0, <2>7 DEF Remove, Edit, Gone
  <2> QED
    BY <2>2, <2>3, <2>4, <2>5, <2>6, <2>7 DEF Manage
<1> QED
  BY <1>3, <1>4

\* A claimed job was due; a new run is not marked.
LEMMA ClaimLater ==
    ASSUME Base, Flight, Claim, NEW r \in Runs, Later(r)
    PROVE  Later(r)'
<1>0. UNCHANGED <<now, job, touched>> /\ run \in [Runs -> AllRuns] /\ claimed \in Nat
      /\ now \in Nat
  BY DEF Claim, Base, TypeOK
<1>1. CASE run'[r] = run[r]
  BY <1>0, <1>1 DEF Later, Here
<1>2. CASE run'[r] # run[r]
  <2>1. /\ Claimable(Head(todo)) /\ r = claimed + 1
        /\ run'[r] = [job |-> Head(todo), as |-> job[Head(todo)], task |-> "running",
                      row |-> "open"]
    <3>1. Claimable(Head(todo))
      BY <1>2 DEF Claim
    <3>2. run' = [run EXCEPT ![claimed + 1] = [job |-> Head(todo), as |-> job[Head(todo)],
                                              task |-> "running", row |-> "open"]]
      BY <3>1 DEF Claim
    <3>3. r = claimed + 1
      BY <1>0, <1>2, <3>2
    <3> QED
      BY <1>0, <3>1, <3>2, <3>3
  <2>2. r \notin touched
    BY <1>0, <2>1 DEF Flight, Numbered
  <2>3. Head(todo) \in Jobs
    BY HeadTailProperties DEF Claim, Base, TypeOK
  <2>4. job[Head(todo)] \in LiveJobs
    BY <2>1, <2>3, HereIsLive DEF Claimable, Due, Base
  <2>5. job[Head(todo)].next <= now /\ job[Head(todo)].next < Never
    BY <2>1, <2>4, CronAssumption DEF Claimable, Due, Paused, LiveJobs, Times
  <2>6. run'[r].as = job[Head(todo)]
    BY <2>1
  <2> QED
    BY <1>0, <2>2, <2>5, <2>6 DEF Later
<1> QED
  BY <1>1, <1>2

\* The end of another run is of another job.
LEMMA FinishLater ==
    ASSUME Base, Flight, NEW q \in Runs, NEW conv \in {0, q}, Finish(q, conv),
           NEW r \in Runs, Later(r)
    PROVE  Later(r)'
<1>0. run \in [Runs -> AllRuns] /\ job \in [Jobs -> AllJobs] /\ run[q].task = "running"
      /\ run' = [run EXCEPT ![q].task = "over", ![q].row = "finished"]
      /\ UNCHANGED <<now, touched>>
  BY DEF Finish, Base, TypeOK
<1>1. CASE r = q
  <2>1. run'[r].task = "over"
    BY <1>0, <1>1 DEF AllRuns, NoRun
  <2> QED
    BY <2>1 DEF Later
<1>2. CASE r # q
  <2>1. run'[r] = run[r]
    BY <1>0, <1>2
  <2>2. ASSUME run[r].task = "running" PROVE job'[run[r].job] = job[run[r].job]
    <3>1. run[r].job # run[q].job
      BY <1>0, <1>2, <2>2 DEF Flight, OnePerJob, Active
    <3>2. run[r] \in AllRuns /\ run[r] # NoRun
      BY <1>0, <2>2 DEF NoRun
    <3>3. run[r].job \in Jobs
      BY <3>2 DEF AllRuns
    <3> QED
      BY <1>0, <3>1, <3>3 DEF Finish
  <2> QED
    BY <1>0, <2>1, <2>2 DEF Later, Here
<1> QED
  BY <1>1, <1>2

LEMMA NextLater == Base /\ Flight /\ TouchedIsLater /\ [Next]_vars => TouchedIsLater'
<1> SUFFICES ASSUME Base, Flight, [Next]_vars, NEW r \in Runs, Later(r)
             PROVE  Later(r)'
  BY DEF TouchedIsLater
<1>0. run \in [Runs -> AllRuns]
  BY DEF Base, TypeOK
<1>1. CASE UNCHANGED <<run, now, touched, job>>
  BY <1>1 DEF Later, Here
<1>2. CASE Tick
  <2>1. run[r].task = "running" => run[r].as.next \in Nat /\ now \in Nat
    BY <1>0, CronAssumption DEF AllRuns, NoRun, LiveJobs, Times, Base, TypeOK
  <2> QED
    BY <1>2, <2>1 DEF Tick, Later, Here, histVars
<1>3. ASSUME NEW j \in Jobs, Manage(j) PROVE Later(r)'
  BY <1>3, ManageLater
<1>4. CASE Serve
  <2>1. Interval \/ Poll \/ ClaimsEnd \/ StopSelect => UNCHANGED <<run, now, touched, job>>
    BY DEF Interval, Poll, ClaimsEnd, StopSelect, histVars
  <2>2. CASE Claim
    BY <2>2, ClaimLater
  <2>3. ASSUME NEW q \in Runs, Join(q) PROVE Later(r)'
    <3>1. run' = [run EXCEPT ![q].task = "joined"] /\ UNCHANGED <<now, touched, job>>
      BY <2>3 DEF Join, histVars
    <3>2. run'[r] = run[r] \/ run'[r].task = "joined"
      BY <1>0, <2>3, <3>1 DEF AllRuns, NoRun, Join
    <3> QED
      BY <3>1, <3>2 DEF Later, Here
  <2>4. CASE ShutDown
    <3>1. run'[r].task # "running"
      BY <2>4, <1>0 DEF ShutDown, Stopped, AllRuns, NoRun
    <3> QED
      BY <3>1 DEF Later
  <2> QED
    BY <1>1, <1>4, <2>1, <2>2, <2>3, <2>4 DEF Serve
<1>5. ASSUME NEW q \in Runs, NEW conv \in {0, q}, Finish(q, conv) PROVE Later(r)'
  BY <1>5, FinishLater
<1>6. CASE Crash
  <2>1. run'[r].task # "running"
    BY <1>6, <1>0 DEF Crash, Stopped, AllRuns, NoRun
  <2> QED
    BY <2>1 DEF Later
<1>7. Cancel \/ Restart \/ UNCHANGED vars => UNCHANGED <<run, now, touched, job>>
  BY DEF Cancel, Restart, vars, histVars
<1> QED
  BY <1>1, <1>2, <1>3, <1>4, <1>5, <1>6, <1>7 DEF Next

\* The end of a run leaves next_run alone when its job was paused, resumed or
\* rescheduled meanwhile: such a job never has the time the run was claimed for,
\* so job_finish comparing the two is enough.
THEOREM FinishCorrect == Spec => FinishRespectsEdits
<1>1. Init => TouchedIsLater
  BY DEF Init, TouchedIsLater, Later, NoRun
<1>2. Base /\ Flight /\ TouchedIsLater /\ [Next]_vars =>
        [\A r \in touched :
           run[r].task = "running" /\ run'[r].task = "over" /\ Here(run[r].job)
           => job'[run[r].job].next = job[run[r].job].next]_vars
  <2> SUFFICES ASSUME Base, Flight, TouchedIsLater, Next, NEW r \in touched,
                      run[r].task = "running", run'[r].task = "over", Here(run[r].job)
               PROVE  job'[run[r].job].next = job[run[r].job].next
    BY Zenon
  <2>0. r \in Runs /\ run \in [Runs -> AllRuns]
    BY DEF Base, TypeOK
  <2>1. ASSUME NEW q \in Runs, NEW conv \in {0, q}, Finish(q, conv)
        PROVE  job'[run[r].job].next = job[run[r].job].next
    <3>1. r = q
      BY <2>0, <2>1 DEF Finish
    <3>2. run[r].as.next \in Nat /\ job[run[r].job].next > run[r].as.next
          /\ job[run[r].job].next \in Nat
      <4>1. run[r] # NoRun
        BY DEF NoRun
      <4>2. run[r].as.next \in Nat /\ run[r].job \in Jobs
        BY <2>0, <4>1, CronAssumption DEF AllRuns, LiveJobs, Times
      <4>3. job[run[r].job] \in LiveJobs
        BY <4>2, HereIsLive DEF Base
      <4> QED
        BY <2>0, <4>2, <4>3, CronAssumption DEF TouchedIsLater, Later, LiveJobs, Times
    <3>3. ~AsClaimed(run[r].job, r)
      BY <3>2 DEF AsClaimed
    <3> QED
      BY <2>1, <3>1, <3>3, FinishedRow
  <2>2. ASSUME ~\E q \in Runs : \E conv \in {0, q} : Finish(q, conv)
        PROVE  run'[r].task # "over"
    <3>1. CASE UNCHANGED <<run, claimed>>
      BY <3>1
    <3>2. CASE Claim
      <4>1. CASE Claimable(Head(todo))
        <5>1. run' = [run EXCEPT ![claimed + 1] = [job |-> Head(todo), as |-> job[Head(todo)],
                                                  task |-> "running", row |-> "open"]]
          BY <3>2, <4>1 DEF Claim
        <5> QED
          BY <2>0, <5>1
      <4>2. CASE ~Claimable(Head(todo))
        BY <3>2, <4>2 DEF Claim
      <4> QED
        BY <4>1, <4>2
    <3>3. CASE Stopped
      BY <2>0, <3>3 DEF Stopped, AllRuns, NoRun
    <3>4. ASSUME NEW q \in Runs, Join(q) PROVE run'[r].task # "over"
      <4>1. run' = [run EXCEPT ![q].task = "joined"]
        BY <3>4 DEF Join
      <4> QED
        BY <2>0, <4>1 DEF AllRuns, NoRun
    <3> QED
      BY <2>2, <3>1, <3>2, <3>3, <3>4, RunSteps
  <2> QED
    BY <2>1, <2>2
<1> QED
  BY <1>1, <1>2, AlwaysFlight, NextLater, PTL DEF Spec, FinishRespectsEdits

-----------------------------------------------------------------------------
(***************************************************************************)
(* One-time jobs.                                                          *)
(***************************************************************************)
\* A one-time job has the time it is set to, or none.
OneTime(x) == x.here = "live" /\ x.sched.kind = "at"
OnTime(x) == OneTime(x) => x.next \in {x.sched.n, Never}

\* The job's time is over, and it has none any more, or will have none when its run ends.
Spent(j) ==
    /\ job[j].sched.n <= now
    /\ \/ Paused(job[j])
       \/ \E r \in Runs :
             /\ run[r].task = "running" /\ run[r].job = j
             /\ run[r].as.next = job[j].next /\ run[r].as.sched = job[j].sched

\* A crash brings back a job's time but not its schedule; in one life of the process
\* the job is claimed once.
RunsOnce(j) ==
    /\ OnTime(job[j]) /\ OnTime(disk[j])
    /\ job[j].here = disk[j].here
    /\ job[j].here = "live" => job[j].sched = disk[j].sched
    /\ job[j].here = "unused" => claims[j] = 0
    /\ OneTime(job[j]) =>
          /\ claims[j] <= 1 + restarts
          /\ sched # "down" /\ claims[j] > restarts => Spent(j)

OnceEach == \A j \in Jobs : RunsOnce(j)

LEMMA OneTimeNext ==
    ASSUME NEW s \in Schedules, NEW t \in 0..MaxTime, s.kind = "at"
    PROVE  /\ NextRun(s, t) \in {s.n, Never} /\ s.n \in Nat /\ s.n < Never
           /\ (NextRun(s, t) = Never <=> s.n <= t)
<1>1. s.n \in Nat /\ MaxTime + s.n < Never /\ MaxTime \in Nat /\ Never \in Nat
  BY CronAssumption
<1> QED
  BY <1>1 DEF NextRun

\* A job stays spent while it keeps its schedule and its time.
LEMMA StaysSpent ==
    ASSUME NEW j \in Jobs, Spent(j), now \in Nat, now' \in Nat, now' >= now, job[j].sched.n \in Nat,
           job'[j].sched = job[j].sched, job'[j].next = job[j].next,
           \A r \in Runs : run[r].task = "running" =>
              run'[r].task = "running" /\ run'[r].job = run[r].job /\ run'[r].as = run[r].as
    PROVE  Spent(j)'
  BY DEF Spent, Paused

\* A step that leaves the job and its claims alone, and the runs that execute.
LEMMA QuietStep ==
    ASSUME Base, Base', NEW j \in Jobs, RunsOnce(j), job'[j] = job[j], disk'[j] \in {job[j], disk[j]},
           claims'[j] = claims[j], now' >= now,
           \/ restarts' = restarts /\ (sched = "down" => sched' = "down")
           \/ restarts' = restarts + 1,
           \/ sched' = "down" \/ restarts' = restarts + 1
           \/ \A r \in Runs : run[r].task = "running" =>
                 run'[r].task = "running" /\ run'[r].job = run[r].job /\ run'[r].as = run[r].as
    PROVE  RunsOnce(j)'
<1>0. /\ now \in Nat /\ now' \in Nat /\ restarts \in Nat /\ claims[j] \in Nat
      /\ job[j].here = "live" => job[j].sched \in Schedules
  <2>1. /\ claims \in [Jobs -> 0..MaxRuns] /\ MaxRuns \in Nat /\ job \in [Jobs -> AllJobs]
        /\ now \in 0..MaxTime /\ now' \in 0..MaxTime /\ restarts \in 0..MaxRestarts
    BY CronAssumption DEF Base, TypeOK
  <2>2. job[j].here = "live" => job[j] \in LiveJobs
    BY HereIsLive DEF Base, Here
  <2> QED
    BY <2>1, <2>2 DEF LiveJobs
<1>1. /\ OnTime(job'[j]) /\ OnTime(disk'[j])
      /\ job'[j].here = disk'[j].here
      /\ job'[j].here = "live" => job'[j].sched = disk'[j].sched
      /\ job'[j].here = "unused" => claims'[j] = 0
  BY DEF RunsOnce
<1>2. ASSUME OneTime(job[j])
      PROVE  /\ claims'[j] <= 1 + restarts'
             /\ sched' # "down" /\ claims'[j] > restarts' => Spent(j)'
  <2>1. claims[j] <= 1 + restarts
    BY <1>2 DEF RunsOnce
  <2>2. CASE restarts' = restarts + 1
    BY <1>0, <2>1, <2>2
  <2>3. CASE restarts' = restarts /\ sched' = "down"
    BY <1>0, <2>1, <2>3
  <2>4. CASE /\ restarts' = restarts /\ (sched = "down" => sched' = "down") /\ sched' # "down"
             /\ \A r \in Runs : run[r].task = "running" =>
                   run'[r].task = "running" /\ run'[r].job = run[r].job /\ run'[r].as = run[r].as
    <3> SUFFICES ASSUME claims[j] > restarts PROVE Spent(j)'
      BY <2>1, <2>4
    <3>1. Spent(j)
      BY <1>2, <2>4 DEF RunsOnce
    <3>2. job[j].sched.n \in Nat
      BY <1>0, <1>2, CronAssumption DEF OneTime
    <3> QED
      BY <1>0, <2>4, <3>1, <3>2, StaysSpent
  <2> QED
    BY <1>0, <2>2, <2>3, <2>4
<1> QED
  BY <1>1, <1>2 DEF RunsOnce

\* Edits: a job is only set to times that lie ahead, and starts counting afresh when it
\* is set to another one.
LEMMA ManageOnce ==
    ASSUME Base, Base', NEW j \in Jobs, RunsOnce(j), Manage(j)
    PROVE  RunsOnce(j)'
<1>0. /\ job \in [Jobs -> AllJobs] /\ claims \in [Jobs -> 0..MaxRuns] /\ MaxRuns \in Nat
      /\ now \in 0..MaxTime /\ now \in Nat /\ restarts \in Nat /\ claims[j] \in Nat
  BY CronAssumption DEF Base, TypeOK
<1>1. Here(j) => job[j] \in LiveJobs /\ job[j].sched \in Schedules
  BY HereIsLive DEF Base, LiveJobs
<1>2. UNCHANGED <<now, run, sched, restarts>> /\ disk' = job' /\ sched # "down"
  BY DEF Manage, Insert, Reschedule, Move, Pause, Resume, Remove, Edit, memVars, boundVars
<1>3. ASSUME NEW s \in Schedules, NEW o \in Origins, Insert(j, s, o) PROVE RunsOnce(j)'
  <2>1. /\ job'[j].here = "live" /\ job'[j].sched = s /\ job'[j].next = NextRun(s, now)
        /\ NextRun(s, now) # Never /\ claims' = claims /\ job[j] = NoJob
    BY <1>0, <1>3 DEF Insert, Job, histVars
  <2>2. claims'[j] = 0
    BY <2>1 DEF RunsOnce, NoJob
  <2>3. OnTime(job'[j])
    BY <1>0, <2>1, OneTimeNext DEF OnTime, OneTime
  <2> QED
    BY <1>0, <1>2, <2>1, <2>2, <2>3 DEF RunsOnce
<1>4. ASSUME NEW s \in Schedules, Reschedule(j, s) PROVE RunsOnce(j)'
  <2>1. /\ job'[j].here = "live" /\ job'[j].sched = s
        /\ \/ job'[j].next = NextRun(s, now)
           \/ job'[j].next = job[j].next /\ Paused(job[j])
        /\ claims'[j] = 0
    BY <1>0, <1>1, <1>4 DEF Reschedule, Edit, LiveJobs
  <2>2. OnTime(job'[j])
    BY <1>0, <2>1, OneTimeNext DEF OnTime, OneTime, Paused
  <2> QED
    BY <1>0, <1>2, <2>1, <2>2 DEF RunsOnce
<1>5. ASSUME NEW o \in Origins, Move(j, o) PROVE RunsOnce(j)'
  <2>1. /\ job'[j].here = "live" /\ job[j].here = "live" /\ job'[j].sched = job[j].sched
        /\ job'[j].next = job[j].next /\ claims' = claims
    BY <1>0, <1>1, <1>5 DEF Move, Edit, LiveJobs, histVars, Here
  <2>2. OneTime(job'[j]) => OneTime(job[j])
    BY <2>1 DEF OneTime
  <2>3. OnTime(job'[j])
    BY <2>1, <2>2 DEF OnTime, RunsOnce
  <2>4. Spent(j) => Spent(j)'
    BY <1>2, <2>1 DEF Spent, Paused
  <2> QED
    BY <1>0, <1>2, <2>1, <2>2, <2>3, <2>4 DEF RunsOnce
<1>6. ASSUME Pause(j) PROVE RunsOnce(j)'
  <2>1. /\ job'[j].here = "live" /\ job[j].here = "live" /\ job'[j].sched = job[j].sched
        /\ job'[j].next = Never /\ claims' = claims
    BY <1>0, <1>1, <1>6 DEF Pause, Edit, LiveJobs, Here
  <2>2. OneTime(job'[j]) => OneTime(job[j])
    BY <2>1 DEF OneTime
  <2>3. OnTime(job'[j])
    BY <2>1 DEF OnTime
  <2>4. Spent(j) => Spent(j)'
    BY <1>2, <2>1 DEF Spent, Paused
  <2> QED
    BY <1>0, <1>2, <2>1, <2>2, <2>3, <2>4 DEF RunsOnce
<1>7. ASSUME Resume(j) PROVE RunsOnce(j)'
  <2>1. /\ job'[j].here = "live" /\ job[j].here = "live" /\ job'[j].sched = job[j].sched
        /\ job'[j].next = NextRun(job[j].sched, now) /\ NextRun(job[j].sched, now) # Never
        /\ claims' = claims
    BY <1>0, <1>1, <1>7 DEF Resume, Edit, LiveJobs, Here
  <2>2. OneTime(job'[j]) => OneTime(job[j])
    BY <2>1 DEF OneTime
  <2>3. OnTime(job'[j]) /\ (OneTime(job[j]) => ~Spent(j))
    BY <1>0, <1>1, <2>1, OneTimeNext DEF OnTime, OneTime, Spent, Here
  <2> QED
    BY <1>0, <1>2, <2>1, <2>2, <2>3 DEF RunsOnce
<1>8. ASSUME Remove(j) PROVE RunsOnce(j)'
  <2>1. job'[j].here = "removed"
    BY <1>0, <1>8 DEF Remove, Edit, Gone
  <2> QED
    BY <1>2, <2>1 DEF RunsOnce, OnTime, OneTime
<1> QED
  BY <1>3, <1>4, <1>5, <1>6, <1>7, <1>8 DEF Manage

\* A claim: the job is due, so it has not been claimed for this time in this life.
LEMMA ClaimOnce ==
    ASSUME Base, Base', Flight, NEW j \in Jobs, RunsOnce(j), Claim
    PROVE  RunsOnce(j)'
<1>0. /\ run \in [Runs -> AllRuns] /\ claims \in [Jobs -> 0..MaxRuns] /\ MaxRuns \in Nat
      /\ now \in Nat /\ restarts \in Nat /\ claims[j] \in Nat /\ claimed \in Nat
  BY CronAssumption DEF Base, TypeOK
<1>1. UNCHANGED <<now, job, disk, sched, restarts>> /\ sched # "down"
  BY DEF Claim, boundVars
<1>2. CASE ~Claimable(Head(todo))
  <2>1. UNCHANGED <<run, claims>>
    BY <1>2 DEF Claim
  <2> QED
    BY <1>0, <1>1, <2>1, QuietStep
<1>3. CASE Claimable(Head(todo))
  <2>1. PICK r \in Runs :
           /\ r = claimed + 1
           /\ run' = [run EXCEPT ![r] = [job |-> Head(todo), as |-> job[Head(todo)],
                                         task |-> "running", row |-> "open"]]
           /\ claims' = [claims EXCEPT ![Head(todo)] = @ + 1]
    BY <1>3 DEF Claim
  <2>2. run[r] = NoRun
    BY <1>0, <2>1 DEF Flight, Numbered
  <2>3. CASE Head(todo) # j
    <3>1. \A q \in Runs : run[q].task = "running" =>
             run'[q].task = "running" /\ run'[q].job = run[q].job /\ run'[q].as = run[q].as
      BY <1>0, <2>1, <2>2 DEF NoRun
    <3>2. claims'[j] = claims[j]
      BY <1>0, <2>1, <2>3
    <3> QED
      BY <1>0, <1>1, <3>1, <3>2, QuietStep
  <2>4. CASE Head(todo) = j
    <3>1. claims'[j] = claims[j] + 1
      BY <1>0, <2>1, <2>4
    <3>2. Here(j) /\ ~Paused(job[j]) /\ job[j].next <= now
      BY <1>3, <2>4 DEF Claimable, Due
    <3>3. \A q \in Runs : run[q].task = "running" => run[q].job # j
      <4>1. todo # <<>> /\ todo \in Seq(Jobs)
        BY DEF Claim, Base, TypeOK
      <4>2. 1 \in 1..Len(todo) /\ todo[1] = j
        BY <2>4, <4>1
      <4>3. j \notin running
        BY <4>2 DEF Flight, OnePerJob
      <4> QED
        BY <4>3 DEF Flight, IdsMatchTasks, Active
    <3>4. ASSUME OneTime(job[j])
          PROVE  claims[j] <= restarts /\ Spent(j)'
      <4>1. ~Spent(j)
        BY <3>2, <3>3 DEF Spent
      <4>2. claims[j] <= restarts
        BY <1>0, <1>1, <3>4, <4>1 DEF RunsOnce
      <4>3. job[j].sched.n <= now
        BY <3>2, <3>4 DEF RunsOnce, OnTime, Paused
      <4>4. /\ run'[r].task = "running" /\ run'[r].job = j /\ run'[r].as = job[j]
        BY <1>0, <2>1, <2>4
      <4> QED
        BY <1>1, <4>2, <4>3, <4>4 DEF Spent
    <3>5. job[j].here # "unused"
      BY <3>2 DEF Here
    <3> QED
      BY <1>0, <1>1, <3>1, <3>4, <3>5 DEF RunsOnce
  <2> QED
    BY <2>3, <2>4
<1> QED
  BY <1>2, <1>3

\* The end of a run: the time it was claimed for is over.
LEMMA FinishOnce ==
    ASSUME Base, Base', Flight, NEW j \in Jobs, RunsOnce(j),
           NEW q \in Runs, NEW conv \in {0, q}, Finish(q, conv)
    PROVE  RunsOnce(j)'
<1>0. /\ run \in [Runs -> AllRuns] /\ job \in [Jobs -> AllJobs]
      /\ now \in Nat /\ now \in 0..MaxTime /\ restarts \in Nat
      /\ claims \in [Jobs -> 0..MaxRuns] /\ MaxRuns \in Nat /\ claims[j] \in Nat
  BY CronAssumption DEF Base, TypeOK
<1>1. /\ UNCHANGED <<now, disk, sched, restarts, claims>> /\ sched # "down"
      /\ run' = [run EXCEPT ![q].task = "over", ![q].row = "finished"]
      /\ run[q].task = "running"
  BY DEF Finish, memVars, boundVars
<1>2. \A r \in Runs \ {q} : run'[r] = run[r]
  BY <1>0, <1>1
<1>3. CASE run[q].job # j
  <2>1. job'[j] = job[j]
    BY <1>0, <1>3 DEF Finish
  <2>2. Spent(j) => Spent(j)'
    BY <1>1, <1>2, <1>3, <2>1 DEF Spent
  <2> QED
    BY <1>1, <2>1, <2>2 DEF RunsOnce
<1>4. CASE run[q].job = j /\ ~Here(j)
  <2>1. job'[j] = job[j] /\ job[j].here # "live"
    BY <1>4, FinishedRow DEF Here
  <2> QED
    BY <1>1, <2>1 DEF RunsOnce, OneTime
<1>5. CASE run[q].job = j /\ Here(j)
  <2>1. /\ job[j] \in LiveJobs /\ job'[j] \in LiveJobs /\ job'[j].sched = job[j].sched
        /\ job'[j].next = IF AsClaimed(j, q) THEN NextRun(job[j].sched, now) ELSE job[j].next
    BY <1>5, HereIsLive, FinishedRow DEF Base
  <2>2. /\ job[j].here = "live" /\ job'[j].here = "live" /\ job[j].sched \in Schedules
    BY <2>1 DEF LiveJobs
  <2>3. OneTime(job'[j]) <=> OneTime(job[j])
    BY <2>1, <2>2 DEF OneTime
  <2>4. ASSUME OneTime(job[j])
        PROVE  /\ job'[j].next \in {job[j].sched.n, Never}
               /\ (Spent(j) => Spent(j)')
    <3>1. /\ NextRun(job[j].sched, now) \in {job[j].sched.n, Never}
          /\ (NextRun(job[j].sched, now) = Never <=> job[j].sched.n <= now)
      BY <1>0, <2>2, <2>4, OneTimeNext DEF OneTime
    <3>2. job'[j].next \in {job[j].sched.n, Never}
      BY <2>1, <2>4, <3>1 DEF RunsOnce, OnTime
    <3>3. ASSUME Spent(j) PROVE Spent(j)'
      <4>1. job[j].sched.n <= now
        BY <3>3 DEF Spent
      <4>2. CASE Paused(job[j])
        <5>1. job'[j].next = Never
          BY <2>1, <4>2 DEF AsClaimed, Paused
        <5> QED
          BY <1>1, <2>1, <4>1, <5>1 DEF Spent, Paused
      <4>3. ASSUME NEW r \in Runs, ~Paused(job[j]), run[r].task = "running", run[r].job = j,
                   run[r].as.next = job[j].next, run[r].as.sched = job[j].sched
            PROVE  Spent(j)'
        <5>1. r = q
          BY <1>1, <1>5, <4>3 DEF Flight, OnePerJob, Active
        <5>2. AsClaimed(j, q)
          BY <4>3, <5>1 DEF AsClaimed
        <5>3. job'[j].next = Never
          BY <2>1, <3>1, <4>1, <5>2
        <5> QED
          BY <1>1, <2>1, <4>1, <5>3 DEF Spent, Paused
      <4> QED
        BY <3>3, <4>2, <4>3 DEF Spent
    <3> QED
      BY <3>2, <3>3
  <2>5. OnTime(job'[j])
    BY <2>1, <2>3, <2>4 DEF OnTime
  <2> QED
    BY <1>1, <2>1, <2>2, <2>3, <2>4, <2>5 DEF RunsOnce
<1> QED
  BY <1>3, <1>4, <1>5

LEMMA NextOnce == Base /\ Flight /\ OnceEach /\ [Next]_vars => OnceEach'
<1> SUFFICES ASSUME Base, Flight, [Next]_vars, NEW j \in Jobs, RunsOnce(j)
             PROVE  RunsOnce(j)'
  BY DEF OnceEach
<1>0. /\ Base' /\ run \in [Runs -> AllRuns] /\ now \in Nat /\ restarts \in Nat
      /\ job \in [Jobs -> AllJobs] /\ claims \in [Jobs -> 0..MaxRuns]
  BY NextBase, CronAssumption DEF Base, TypeOK
<1>1. CASE Tick \/ Interval \/ Poll \/ ClaimsEnd \/ StopSelect \/ Cancel \/ UNCHANGED vars
  <2>1. /\ UNCHANGED <<job, disk, run, claims, restarts>> /\ (sched = "down" => sched' = "down")
        /\ now' \in {now, now + 1}
    BY <1>1 DEF Tick, Interval, Poll, ClaimsEnd, StopSelect, Cancel, vars, memVars, boundVars, histVars
  <2> QED
    BY <1>0, <2>1, QuietStep
<1>2. CASE Restart
  <2>1. UNCHANGED <<job, disk, run, claims, now>> /\ restarts' = restarts + 1
    BY <1>2 DEF Restart, histVars
  <2> QED
    BY <1>0, <2>1, QuietStep
<1>3. ASSUME NEW i \in Jobs, Manage(i) PROVE RunsOnce(j)'
  <2>1. CASE i = j
    BY <1>0, <1>3, <2>1, ManageOnce
  <2>2. CASE i # j
    <3>1. /\ UNCHANGED <<run, now, restarts, sched>> /\ disk' = job'
          /\ job'[j] = job[j]
      BY <1>0, <1>3, <2>2 DEF Manage, Insert, Reschedule, Move, Pause, Resume, Remove, Edit,
         memVars, boundVars
    <3>2. claims'[j] = claims[j]
      BY <1>0, <1>3, <2>2 DEF Manage, Insert, Reschedule, Move, Pause, Resume, Remove, histVars
    <3> QED
      BY <1>0, <3>1, <3>2, QuietStep
  <2> QED
    BY <2>1, <2>2
<1>4. CASE Claim
  BY <1>0, <1>4, ClaimOnce
<1>5. ASSUME NEW q \in Runs, Join(q) PROVE RunsOnce(j)'
  <2>1. /\ run' = [run EXCEPT ![q].task = "joined"] /\ run[q].task = "over"
        /\ disk' = job /\ sched' = "poll" /\ sched = "select"
        /\ UNCHANGED <<job, claims, restarts, now>>
    BY <1>5 DEF Join, boundVars, histVars
  <2>2. \A r \in Runs : run[r].task = "running" => run'[r] = run[r]
    BY <1>0, <2>1
  <2> QED
    BY <1>0, <2>1, <2>2, QuietStep
<1>6. CASE ShutDown
  <2>1. sched' = "down" /\ disk' = job /\ UNCHANGED <<job, claims, restarts, now>>
    BY <1>6 DEF ShutDown, Stopped, boundVars, histVars
  <2> QED
    BY <1>0, <2>1, QuietStep
<1>7. CASE Crash
  <2>1. /\ sched' = "down" /\ job'[j] \in {job[j], disk[j]} /\ disk'[j] = job'[j]
        /\ UNCHANGED <<claims, restarts, now>>
    BY <1>7 DEF Crash, Stopped, boundVars, histVars
  <2> QED
    BY <2>1 DEF RunsOnce, OneTime
<1>8. ASSUME NEW q \in Runs, NEW conv \in {0, q}, Finish(q, conv) PROVE RunsOnce(j)'
  BY <1>0, <1>8, FinishOnce
<1> QED
  BY <1>1, <1>2, <1>3, <1>4, <1>5, <1>6, <1>7, <1>8 DEF Next, Serve

\* A one-time job runs once for the time it is set to, whoever edits, pauses or resumes
\* it while it runs; only what a crash forgets may run again.
THEOREM OneTimeCorrect == Spec => []OneTimeRunsOnce
<1>1. Init => OnceEach
  BY DEF Init, OnceEach, RunsOnce, OnTime, OneTime, NoJob
<1>2. OnceEach => OneTimeRunsOnce
  BY DEF OnceEach, RunsOnce, OneTime, OneTimeRunsOnce, Here
<1> QED
  BY <1>1, <1>2, AlwaysFlight, NextOnce, PTL DEF Spec
=============================================================================
