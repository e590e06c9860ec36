--------------------------- MODULE CronScheduler ---------------------------
(***************************************************************************)
(* The scheduled jobs (cron/store.rs, cron/runtime.rs): a scheduler that    *)
(* polls for due jobs, claims them one by one and runs them as tasks, while *)
(* users and agents create, edit, pause, resume and remove the same jobs.   *)
(*                                                                         *)
(* Management, claiming and finishing each hold the store's mutations lock  *)
(* from their first read to their last write and are single steps; the      *)
(* scheduler's due list is read without it.  Time is counted in the seconds *)
(* next_run is kept in.  A cron expression recurs like an interval.         *)
(* What a run does is not modelled.  The store is AndaDB: a write is        *)
(* durable after the next flush of its collection, and may be before.       *)
(***************************************************************************)
EXTENDS Naturals, Sequences, FiniteSets, Functions

CONSTANTS Jobs,           \* ids, each given to one job
          Origins,        \* routes a job may be created from
          Schedules,      \* [kind : {"at", "every"}, n : seconds]
          MaxConcurrent,  \* MAX_CONCURRENT_JOBS, 8 in the code
          Never,          \* DISABLED_JOB_NEXT_RUN, 2^53 - 1 in the code
          MaxTime,        \* bound on the clock
          MaxRuns,        \* bound on the runs ever claimed
          MaxEdits,       \* bound on the edits of existing jobs
          MaxRestarts,    \* bound on the crashes and shutdowns
          MayCrash        \* TRUE: the process may die

ASSUME CronAssumption ==
    /\ Schedules \subseteq [kind : {"at", "every"}, n : Nat \ {0}]
    /\ MaxConcurrent \in Nat \ {0}
    /\ MaxTime \in Nat /\ MaxRuns \in Nat /\ MaxEdits \in Nat /\ MaxRestarts \in Nat
    /\ MayCrash \in BOOLEAN
    /\ Never \in Nat /\ \A s \in Schedules : MaxTime + s.n < Never
    /\ IsFiniteSet(Jobs)

Runs == 1..MaxRuns

VARIABLES
    now,       \* the clock
    job,       \* cron_jobs
    disk,      \* cron_jobs as last flushed
    run,       \* cron_runs, and the task that executes each run
    claimed,   \* number of runs claimed
    sched,     \* where the scheduler is in its loop
    todo,      \* ids of due jobs it is about to claim
    running,   \* running_ids
    stop,      \* the scheduler was cancelled
    edits, restarts,
    held,      \* history: jobs a user paused, before they ran for the time they had
    touched,   \* history: runs whose job was rescheduled, paused or resumed since
    claims     \* history: job -> claims since its schedule was set

memVars == <<sched, todo, running, stop>>
boundVars == <<edits, restarts>>
histVars == <<held, touched, claims>>
vars == <<now, job, disk, run, claimed, sched, todo, running, stop, edits, restarts,
          held, touched, claims>>

\* A job: its schedule, next_run, origin, last_conversation_id (the run it came
\* from) and whether last_finished_at is set.
NoJob == [here |-> "unused"]
Job(s, t, o) == [here |-> "live", sched |-> s, next |-> t, origin |-> o, conv |-> 0,
                 finished |-> FALSE]
Gone == [here |-> "removed"]

\* A run: its job as claimed; row: whether finished_at is set.
NoRun == [job |-> "none", as |-> NoJob, task |-> "none", row |-> "none"]
SchedSteps == {"select", "poll", "claiming", "draining", "down"}

Init ==
    /\ now = 0
    /\ job = [j \in Jobs |-> NoJob]
    /\ disk = job
    /\ run = [r \in Runs |-> NoRun]
    /\ claimed = 0
    /\ sched = "select"
    /\ todo = <<>>
    /\ running = {}
    /\ stop = FALSE
    /\ edits = 0
    /\ restarts = 0
    /\ held = {}
    /\ touched = {}
    /\ claims = [j \in Jobs |-> 0]

Here(j) == job[j].here = "live"
Paused(x) == x.next = Never
Completed(x) == x.sched.kind = "at" /\ Paused(x) /\ x.finished
Executing(j) == {r \in Runs : run[r].job = j /\ run[r].task = "running"}

\* Mutant of NextRun: a one-time schedule may lie in the past.
NextRunWhenever(s, t) == IF s.kind = "every" THEN t + s.n ELSE s.n

\* Schedule::next_run
NextRun(s, t) ==
    IF s.kind = "every" THEN t + s.n
    ELSE IF s.n > t THEN s.n ELSE Never

Tick ==
    /\ now < MaxTime
    /\ now' = now + 1
    /\ UNCHANGED <<job, disk, run, claimed, memVars, boundVars, histVars>>

-----------------------------------------------------------------------------
(***************************************************************************)
(* Management.  Every step ends with a flush of cron_jobs.                 *)
(***************************************************************************)
\* insert_job; a one-time schedule must be in the future.
Insert(j, s, o) ==
    /\ sched # "down"
    /\ job[j] = NoJob
    /\ NextRun(s, now) # Never
    /\ job' = [job EXCEPT ![j] = Job(s, NextRun(s, now), o)]
    /\ disk' = job'
    /\ UNCHANGED <<now, run, claimed, memVars, boundVars, histVars>>

Edit(j, x) ==
    /\ sched # "down"
    /\ edits < MaxEdits
    /\ edits' = edits + 1
    /\ job' = [job EXCEPT ![j] = x]
    /\ disk' = job'
    /\ UNCHANGED <<now, run, claimed, memVars, restarts>>

\* update_job_with_origin with another schedule (CronJobUpdate::apply_to): a
\* paused job stays paused, but not a one-time job that has run.
Reschedule(j, s) ==
    /\ Here(j)
    /\ s # job[j].sched
    /\ NextRun(s, now) # Never
    /\ Edit(j, [job[j] EXCEPT !.sched = s,
                  !.next = IF Paused(job[j]) /\ ~Completed(job[j]) THEN @ ELSE NextRun(s, now)])
    /\ held' = IF Paused(job'[j]) THEN held ELSE held \ {j}
    /\ touched' = touched \cup Executing(j)
    /\ claims' = [claims EXCEPT ![j] = 0]

\* The same with another origin.
Move(j, o) ==
    /\ Here(j)
    /\ o # job[j].origin
    /\ Edit(j, [job[j] EXCEPT !.origin = o, !.conv = 0])
    /\ UNCHANGED histVars

Pause(j) ==
    /\ Here(j)
    /\ Edit(j, [job[j] EXCEPT !.next = Never])
    /\ held' = IF Paused(job[j]) THEN held ELSE held \cup {j}
    /\ touched' = touched \cup Executing(j)
    /\ UNCHANGED claims

\* A one-time job whose time is over cannot be resumed.
Resume(j) ==
    /\ Here(j)
    /\ NextRun(job[j].sched, now) # Never
    /\ Edit(j, [job[j] EXCEPT !.next = NextRun(job[j].sched, now)])
    /\ held' = held \ {j}
    /\ touched' = touched \cup Executing(j)
    /\ UNCHANGED claims

Remove(j) ==
    /\ Here(j)
    /\ Edit(j, Gone)
    /\ UNCHANGED histVars

-----------------------------------------------------------------------------
(***************************************************************************)
(* The scheduler: the loop of serve.                                       *)
(***************************************************************************)
Due(j) == Here(j) /\ ~Paused(job[j]) /\ job[j].next <= now

\* Mutant of Candidates: the jobs in flight are not left out.
CandidatesAll == {j \in Jobs : Due(j)}

\* The index walk of due_job_ids leaves the jobs in flight out.
Candidates == {j \in Jobs : Due(j)} \ running

FreeSlots == MaxConcurrent - Cardinality(running)

\* The earliest due jobs, as many as there are free slots.
DueLists ==
    LET due  == Cardinality(Candidates)
        size == IF due < FreeSlots THEN due ELSE FreeSlots
    IN  {q \in [1..size -> Candidates] :
            /\ IsInjective(q)
            /\ \A i \in 1..size : \A j \in Candidates :
                  (\A k \in 1..i : q[k] # j) => job[q[i]].next <= job[j].next}

\* The poll interval.
Interval ==
    /\ sched = "select" /\ ~stop
    /\ sched' = "poll"
    /\ UNCHANGED <<now, job, disk, run, claimed, todo, running, stop, boundVars, histVars>>

\* process_due_jobs_once reads the due ids ...
Poll ==
    /\ sched = "poll"
    /\ todo' \in DueLists
    /\ sched' = "claiming"
    /\ UNCHANGED <<now, job, disk, run, claimed, running, stop, boundVars, histVars>>

\* ... and claims them one after the other, unless it was cancelled or the
\* maintenance lease refuses new work.
ClaimsEnd ==
    /\ sched = "claiming"
    /\ todo' = <<>>
    /\ sched' = "select"
    /\ UNCHANGED <<now, job, disk, run, claimed, running, stop, boundVars, histVars>>

\* Mutant of Claimable: what the index said is taken for granted.
ClaimableUnchecked(j) == Here(j)

\* claim_job rereads the job.
Claimable(j) == Due(j)

Claim ==
    /\ sched = "claiming" /\ ~stop
    /\ todo # <<>>
    /\ LET j == Head(todo)
           r == claimed + 1
       IN  IF Claimable(j)
           THEN /\ r \in Runs
                /\ run' = [run EXCEPT ![r] = [job |-> j, as |-> job[j], task |-> "running",
                                              row |-> "open"]]
                /\ claimed' = r
                /\ running' = running \cup {j}
                /\ claims' = [claims EXCEPT ![j] = @ + 1]
           ELSE UNCHANGED <<run, claimed, running, claims>>
    /\ todo' = Tail(todo)
    /\ UNCHANGED <<now, job, disk, sched, stop, boundVars, held, touched>>

\* Mutant of SameRoute: the run's conversation is recorded in any case.
SameRouteAlways(j, r) == TRUE

\* The job still has the origin the run was started for.
SameRoute(j, r) == job[j].origin = run[r].as.origin

\* Mutant of AsClaimed: only a pause is noticed.
AsClaimedUnlessPaused(j, r) == ~Paused(job[j])

\* Neither paused nor rescheduled since the claim.
AsClaimed(j, r) ==
    /\ ~Paused(job[j])
    /\ job[j].next = run[r].as.next
    /\ job[j].sched = run[r].as.sched

\* The execution is over, normally or because it was cancelled, and job_finish
\* records it; conv is the conversation it produced, if any.
Finish(r, conv) ==
    /\ run[r].task = "running"
    /\ sched # "down"
    /\ run' = [run EXCEPT ![r].task = "over", ![r].row = "finished"]
    /\ LET j == run[r].job
       IN  IF Here(j)
           THEN /\ job' = [job EXCEPT ![j] =
                     [job[j] EXCEPT
                        !.finished = TRUE,
                        !.conv = IF conv # 0 /\ SameRoute(j, r) THEN conv ELSE job[j].conv,
                        !.next = IF AsClaimed(j, r) THEN NextRun(job[j].sched, now)
                                 ELSE job[j].next]]
                /\ held' = IF Completed(job'[j]) /\ job[j].sched = run[r].as.sched
                           THEN held \ {j} ELSE held
           ELSE UNCHANGED <<job, held>>
    /\ UNCHANGED <<now, disk, claimed, memVars, boundVars, touched, claims>>

\* Mutant of Released: the id stays in flight.
ReleasedLate(r) == running

Released(r) == running \ {run[r].job}

\* A task has ended: its job may be claimed again.  The collections are flushed,
\* and the due jobs looked at.
Join(r) ==
    /\ sched = "select" /\ ~stop
    /\ run[r].task = "over"
    /\ run' = [run EXCEPT ![r].task = "joined"]
    /\ running' = Released(r)
    /\ disk' = job
    /\ sched' = "poll"
    /\ UNCHANGED <<now, job, claimed, todo, stop, boundVars, histVars>>

\* The daemon shuts down.
Cancel ==
    /\ sched # "down" /\ ~stop
    /\ restarts < MaxRestarts
    /\ stop' = TRUE
    /\ UNCHANGED <<now, job, disk, run, claimed, sched, todo, running, boundVars, histVars>>

StopSelect ==
    /\ sched = "select" /\ stop
    /\ sched' = "draining"
    /\ UNCHANGED <<now, job, disk, run, claimed, todo, running, stop, boundVars, histVars>>

\* Mutant of Drained: the scheduler does not wait for its tasks.
DrainedAtOnce == TRUE

\* The tasks have ended; in_flight.join_next() returned every one of them.
Drained == \A r \in Runs : run[r].task # "running"

\* What the process had in memory is gone, and with it the tasks.
Stopped ==
    /\ sched' = "down"
    /\ todo' = <<>>
    /\ running' = {}
    /\ stop' = FALSE
    /\ run' = [r \in Runs |-> IF run[r].task = "none" THEN run[r]
                              ELSE [run[r] EXCEPT !.task = "joined"]]

\* The last flush, and the end of serve.
ShutDown ==
    /\ sched = "draining"
    /\ Drained
    /\ disk' = job
    /\ Stopped
    /\ UNCHANGED <<now, job, claimed, boundVars, histVars>>

\* The process dies: each unflushed write may be lost.
Crash ==
    /\ MayCrash
    /\ sched # "down"
    /\ restarts < MaxRestarts
    /\ Stopped
    /\ job' \in {f \in [Jobs -> {job[j] : j \in Jobs} \cup {disk[j] : j \in Jobs}] :
                   \A j \in Jobs : f[j] \in {job[j], disk[j]}}
    /\ disk' = job'
    /\ UNCHANGED <<now, claimed, boundVars, histVars>>

Restart ==
    /\ sched = "down"
    /\ restarts < MaxRestarts
    /\ restarts' = restarts + 1
    /\ sched' = "select"
    /\ UNCHANGED <<now, job, disk, run, claimed, todo, running, stop, edits, histVars>>

-----------------------------------------------------------------------------
Manage(j) ==
    \/ \E s \in Schedules : (\E o \in Origins : Insert(j, s, o)) \/ Reschedule(j, s)
    \/ \E o \in Origins : Move(j, o)
    \/ Pause(j) \/ Resume(j) \/ Remove(j)

Serve ==
    Interval \/ Poll \/ ClaimsEnd \/ Claim \/ (\E r \in Runs : Join(r)) \/ StopSelect \/ ShutDown

Next ==
    \/ Tick
    \/ \E j \in Jobs : Manage(j)
    \/ Serve
    \/ \E r \in Runs : \E conv \in {0, r} : Finish(r, conv)
    \/ Cancel \/ Crash \/ Restart

Spec == Init /\ [][Next]_vars

\* The scheduler's task and the tasks of the runs are scheduled, time passes; a
\* run is assumed to end.  A lease may refuse a claim, but not forever.
Fairness ==
    /\ WF_vars(Tick)
    /\ WF_vars(Interval) /\ WF_vars(Poll) /\ WF_vars(ClaimsEnd) /\ SF_vars(Claim)
    /\ WF_vars(StopSelect) /\ WF_vars(ShutDown) /\ WF_vars(Restart)
    /\ \A r \in Runs :
          /\ WF_vars(\E conv \in {0, r} : Finish(r, conv))
          /\ SF_vars(Join(r))

FairSpec == Spec /\ Fairness

-----------------------------------------------------------------------------
\* Times next_run may hold.
Times == 0..Never

LiveJobs == [here : {"live"}, sched : Schedules, next : Times, origin : Origins,
             conv : 0..MaxRuns, finished : BOOLEAN]
AllJobs == {NoJob, Gone} \cup LiveJobs
AllRuns == {NoRun} \cup [job : Jobs, as : LiveJobs, task : {"running", "over", "joined"},
                         row : {"open", "finished"}]

\* The types of the variables.
TypeOK ==
    /\ now \in 0..MaxTime
    /\ job \in [Jobs -> AllJobs]
    /\ disk \in [Jobs -> AllJobs]
    /\ run \in [Runs -> AllRuns]
    /\ claimed \in 0..MaxRuns
    /\ sched \in SchedSteps
    /\ todo \in Seq(Jobs)
    /\ running \subseteq Jobs
    /\ stop \in BOOLEAN
    /\ edits \in 0..MaxEdits /\ restarts \in 0..MaxRestarts
    /\ held \subseteq Jobs
    /\ touched \subseteq Runs
    /\ claims \in [Jobs -> 0..MaxRuns]

\* A job never runs twice at once, although it stays due while it runs and the
\* due list is read before the claims it leads to.
OneRunPerJob == \A j \in Jobs : Cardinality(Executing(j)) <= 1

\* Claims made one after the other from one due list never exceed the slots that
\* MAX_CONCURRENT_JOBS gives.
SlotsAreKept == Cardinality({r \in Runs : run[r].task = "running"}) <= MaxConcurrent

\* The scheduler's own bookkeeping agrees with its tasks.
RunningIdsExact ==
    running = {run[r].job : r \in {q \in Runs : run[q].task \in {"running", "over"}}}

\* A job the user paused is not started until it is resumed or set to another
\* time: a due list read before the pause does not outlive it.
PauseHolds ==
    [][\A j \in held : claims'[j] <= claims[j]]_vars

\* The end of a run does not undo what was decided during it: when the job was
\* paused, resumed or rescheduled after the claim, next_run is left alone.
FinishRespectsEdits ==
    [][\A r \in touched :
         run[r].task = "running" /\ run'[r].task = "over" /\ Here(run[r].job)
         => job'[run[r].job].next = job[run[r].job].next]_vars

\* A one-time job runs once for the time it is set to, but for runs a crash may
\* have cut short or forgotten.
OneTimeRunsOnce ==
    \A j \in Jobs : Here(j) /\ job[j].sched.kind = "at" => claims[j] <= 1 + restarts

\* A job only ever remembers a conversation its present origin has had:
\* otherwise the next run would continue in somebody else's chat.
ConversationOfItsOrigin ==
    \A j \in Jobs : Here(j) /\ job[j].conv # 0 =>
        /\ run[job[j].conv].job = j
        /\ run[job[j].conv].as.origin = job[j].origin

\* "Rescheduling keeps a paused job paused but reactivates a one-time job that
\* already ran" (CronJobUpdate::apply_to): setting another time never makes a
\* job due that the user paused.
RescheduleKeepsPaused ==
    [][\A j \in held \ held' : 
         Here(j)' /\ job'[j].next # Never => job'[j].sched = job[j].sched]_vars

\* Unless the process dies, the row of every claimed run is finished.
RunsAreFinished ==
    \A r \in Runs : run[r].row = "open" ~> run[r].row = "finished"

\* A due job is eventually claimed, unless it is changed first, and although
\* earlier jobs and the slots they hold stand before it.
DueIsClaimed ==
    \A j \in Jobs :
        Here(j) /\ Due(j) ~> \/ ~Here(j) \/ ~Due(j) \/ Executing(j) # {}
                             \/ claimed = MaxRuns
=============================================================================
