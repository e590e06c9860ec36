---------------------------- MODULE EventTriggers ----------------------------
(***************************************************************************)
(* One MCP event trigger (engine/mcp/events): its owner edits, pauses,     *)
(* resumes and deletes it (manage.rs); a supervisor keeps a subscription   *)
(* at its server and starts a run when events wait (runtime.rs); the       *)
(* subscription delivers events, which are stored before its position is   *)
(* (store.rs); a run hands them to the agent and consumes them when it     *)
(* succeeds.  The daemon may crash at any point.                           *)
(*                                                                         *)
(* A key stands for what is subscribed to (server, event, arguments,       *)
(* delivery); the server has one stream of events per key.  A position is  *)
(* the number of events before it.  Delivery is by poll or push; webhooks  *)
(* and their relay are not modelled.  The clock is left out: a batch       *)
(* window or a retry delay is over when the model says so.                 *)
(***************************************************************************)
EXTENDS Naturals, Sequences, FiniteSets, FiniteSetsExt

CONSTANTS Keys,         \* what the trigger may subscribe to
          StreamLength, \* key -> the events of its stream, a bound
          Past,         \* key -> the events of it that wait since an earlier key of the trigger
          QueueLimit,   \* MAX_PENDING_EVENTS
          Batch,        \* MAX_EVENTS_PER_RUN
          MaxFailures,  \* MAX_CONSECUTIVE_FAILURES
          KeepRuns,     \* MAX_RUNS_PER_TRIGGER
          KeepHandled,  \* MAX_RECORDS_PER_TRIGGER
          MaxEdits,     \* bound on the owner's operations
          MaxFaults     \* bound on the crashes, and on what else fails

ASSUME TriggerAssumption ==
    /\ Keys \subseteq Nat \ {0} /\ Keys # {} /\ IsFiniteSet(Keys)
    /\ StreamLength \in [Keys -> Nat \ {0}]
    /\ Past \in [Keys -> Nat] /\ \A k \in Keys : Past[k] <= StreamLength[k]
    /\ QueueLimit \in Nat \ {0}
    /\ Batch \in Nat \ {0}
    /\ MaxFailures \in Nat \ {0}
    /\ KeepRuns \in Nat /\ KeepRuns >= MaxFailures
    /\ KeepHandled \in Nat
    /\ MaxEdits \in Nat
    /\ MaxFaults \in Nat

\* Two subscriptions at a time: the live one, and one that was cancelled in
\* the middle of a delivery.
Slots == 1..2
Positions == 0..Max({StreamLength[k] : k \in Keys})
Events == {e \in Keys \X Positions : e[2] \in 1..StreamLength[e[1]]}

VARIABLES
    trigger,   \* stored: the trigger's row
    stored,    \* stored: event -> its row, if it has one (see HasRow)
    runs,      \* stored: the runs since updated_at, oldest first
    front,     \* key -> the position now: how far its stream has come
    sub,       \* slot -> a subscription of the provider
    live,      \* Inner.subscriptions: the slot and key of the live one
    sched,     \* Inner.schedule
    sup,       \* the supervisor: its step, and the trigger as it listed it
    run,       \* the run in progress
    owner,     \* the step of an owner's operation
    edits, faults,
    dropped,   \* history: what the queue limit cost
    attempts,  \* history: runs since the last success or the owner's last word
    overlooked \* history: what was stored, and its schedule lost on the way

storeVars == <<trigger, stored, runs>>
histVars == <<dropped, attempts, overlooked>>
boundVars == <<edits, faults>>
vars == <<trigger, stored, runs, front, sub, live, sched, sup, run, owner,
          edits, faults, dropped, attempts, overlooked>>

\* from: history, where the subscription began, and those whose position it went on from.
NoCursor == [key |-> 0, pos |-> 0, from |-> 0]
Cursors == [key : Keys \cup {0}, pos : Positions, from : Positions]
\* Of the trigger's state only whether it is Ended is read by the code modelled.
Triggers == [exists : BOOLEAN, enabled : BOOLEAN, key : Keys, cursor : Cursors,
             ended : BOOLEAN, missed : BOOLEAN]

\* pc: where the sink is in the delivery of the event behind `at`.
Free == [key |-> 0, at |-> 0, from |-> 0, open |-> FALSE, pc |-> "idle"]
SinkSteps == {"idle", "record", "move", "schedule", "ending"}
NoLive == [slot |-> 0, key |-> 0]
Unscheduled == [since |-> FALSE, running |-> FALSE]

SupSteps == {"boot", "idle", "reconcile", "insert"}
RunSteps == {"none", "slot", "none_waits", "agent", "consume", "rest", "pausing", "unhook"}
\* What a tick uses of the trigger it listed.
SeenOf(t) == [enabled |-> t.enabled, key |-> t.key, cursor |-> t.cursor, ended |-> t.ended]
Seens == [enabled : BOOLEAN, key : Keys \cup {0}, cursor : Cursors, ended : BOOLEAN]
Asleep == [pc |-> "idle", seen |-> [enabled |-> FALSE, key |-> 0, cursor |-> NoCursor, ended |-> FALSE],
           slot |-> 0]
NoRun == [pc |-> "none", prev |-> 0, batch |-> {}, row |-> FALSE]
OwnerSteps == {"idle", "stop", "stop_reset", "remove"}

Waiting == {e \in Events : stored[e] = "pending"}

Init ==
    /\ trigger = [exists |-> TRUE, enabled |-> TRUE, key |-> CHOOSE k \in Keys : TRUE,
                  cursor |-> NoCursor, ended |-> FALSE, missed |-> FALSE]
    /\ stored = [e \in Events |-> IF e[2] <= Past[e[1]] THEN "pending" ELSE "none"]
    /\ runs = <<>>
    /\ front = Past
    /\ sub = [g \in Slots |-> Free]
    /\ live = NoLive
    /\ sched = Unscheduled
    /\ sup = [Asleep EXCEPT !.pc = "boot"]
    /\ run = NoRun
    /\ owner = "idle"
    /\ edits = 0 /\ faults = 0
    /\ dropped = {} /\ attempts = 0 /\ overlooked = {}

-----------------------------------------------------------------------------
(***************************************************************************)
(* The store.                                                              *)
(***************************************************************************)

\* Mutant of FailuresSince: only finished runs count.
FailuresFinished == Len(SelectSeq(runs, LAMBDA r : r = "failed"))

\* failures_since: the runs since the last success that failed or never ended.
FailuresSince ==
    LET good == {i \in 1..Len(runs) : runs[i] = "ok"}
    IN  Len(runs) - (IF good = {} THEN 0 ELSE CHOOSE i \in good : \A j \in good : j <= i)

\* Mutant of WithRun: no run is pruned.
WithRunUnpruned(rs) == Append(rs, "open")

\* start_run, and prune's limit on the runs that are kept.
WithRun(rs) == LET all == Append(rs, "open")
               IN  SubSeq(all, IF Len(all) > KeepRuns THEN 2 ELSE 1, Len(all))

\* The event a subscription delivers next.
EventOf(g) == <<sub[g].key, sub[g].at + 1>>

\* "pruned": there was a row, and its event was handled.
HasRow(e) == stored[e] \in {"pending", "handled"}

\* Mutant of Added: a second delivery stores the event anew.
AddedAgain(e) == [stored EXCEPT ![e] = "pending"]

\* record_events: an event is stored once.
Added(e) == [stored EXCEPT ![e] = IF HasRow(e) THEN @ ELSE "pending"]

\* What has to go for `keep` to stay: the oldest, but which of them came first is not
\* kept in the model.
Excess(es, keep) ==
    IF Cardinality(es) <= keep THEN {{}}
    ELSE {gone \in SUBSET es : Cardinality(es \ gone) = keep}

\* drop_overflow, when a row was added: the rows past the queue limit.
Overflowing(e) ==
    IF HasRow(e) THEN {{}} ELSE Excess({x \in Events : Added(e)[x] = "pending"}, QueueLimit)

\* Of the batch of a run, part is handled.
Consumed(part) == [e \in Events |-> IF e \in part THEN "handled" ELSE stored[e]]

\* prune: the handled rows past their limit; when it fails, some of them.
Prunable(rows) == Excess({e \in Events : rows[e] = "handled"}, KeepHandled)
PrunedPartly(rows) == UNION {SUBSET gone : gone \in Prunable(rows)}
Pruned(rows, gone) == [e \in Events |-> IF e \in gone THEN "pruned" ELSE rows[e]]

-----------------------------------------------------------------------------
(***************************************************************************)
(* The server and its subscriptions.                                       *)
(***************************************************************************)

\* TriggerSink::deliver asks current(): with no live entry anybody is.
Current(g) == live.slot \in {0, g}

\* The event behind `at` is delivered, new or not; a subscription that was replaced
\* delivers into the void, and that of a deleted trigger is refused.
Deliver(g) ==
    /\ trigger.exists
    /\ sub[g].open /\ sub[g].pc = "idle"
    /\ sub[g].at < StreamLength[sub[g].key]
    /\ front' = [front EXCEPT ![sub[g].key] = IF @ > sub[g].at THEN @ ELSE sub[g].at + 1]
    /\ sub' = IF Current(g) THEN [sub EXCEPT ![g].pc = "record"]
              ELSE [sub EXCEPT ![g].at = @ + 1]
    /\ UNCHANGED <<storeVars, live, sched, sup, run, owner, boundVars, histVars>>

\* A delivery is over: a cancelled subscription is gone then.
Settled(g, at) == [sub EXCEPT ![g] = IF sub[g].open THEN [@ EXCEPT !.pc = "idle", !.at = at]
                                     ELSE Free]

\* The position behind the event.
Reached(g) == [key |-> sub[g].key, pos |-> sub[g].at + 1, from |-> sub[g].from]

\* Mutant of Record: the position is saved before the event is.
RecordMovesFirst(g) ==
    /\ sub[g].pc = "record"
    /\ trigger' = [trigger EXCEPT !.cursor = Reached(g)]
    /\ sub' = [sub EXCEPT ![g].pc = "move"]
    /\ UNCHANGED <<stored, runs, live, sched, sup, run, owner, boundVars, histVars, front>>

\* Rows go; a run that has them in hand does not find them any more.
Drop(e, gone) ==
    /\ stored' = [x \in Events |-> IF x \in gone THEN "none" ELSE Added(e)[x]]
    /\ dropped' = dropped \cup gone
    /\ run' = [run EXCEPT !.batch = @ \ gone]

\* receive: record_events, with the overflow told before it is dropped.
Record(g) ==
    /\ sub[g].pc = "record"
    /\ \E gone \in Overflowing(EventOf(g)) :
          /\ Drop(EventOf(g), gone)
          /\ trigger' = [trigger EXCEPT !.missed = @ \/ (trigger.exists /\ gone # {})]
    /\ sub' = [sub EXCEPT ![g].pc = "move"]
    /\ UNCHANGED <<runs, live, sched, sup, owner, boundVars, attempts, overlooked, front>>

\* ... then the position behind them.
Move(g) ==
    /\ sub[g].pc = "move"
    /\ IF trigger.exists
       THEN /\ trigger' = [trigger EXCEPT !.cursor = Reached(g),
                                          !.ended = FALSE]
            /\ sub' = [sub EXCEPT ![g].pc = "schedule"]
       ELSE /\ sub' = Settled(g, sub[g].at + 1)
            /\ UNCHANGED trigger
    /\ UNCHANGED <<stored, runs, live, sched, sup, run, owner, boundVars, histVars, front>>

\* ... then schedule(), when anything waits.
Schedule(g) ==
    /\ sub[g].pc = "schedule"
    /\ sched' = [sched EXCEPT !.since = @ \/ Waiting # {}]
    /\ sub' = Settled(g, sub[g].at + 1)
    /\ overlooked' = IF Waiting = {} THEN overlooked ELSE {}
    /\ UNCHANGED <<storeVars, live, sup, run, owner, boundVars, dropped, attempts, front>>

\* Something fails that need not.
Fault == faults < MaxFaults /\ faults' = faults + 1

\* The store fails when the event is stored, its position is saved, or the waiting
\* events are read: the provider delivers the event again.
DeliveryFails(g) ==
    /\ Fault
    /\ sub[g].pc \in {"record", "move", "schedule"}
    /\ sub' = Settled(g, sub[g].at)
    /\ overlooked' = overlooked \cup (IF sub[g].pc = "record" THEN {} ELSE {EventOf(g)})
    /\ UNCHANGED <<storeVars, live, sched, sup, run, owner, edits, dropped, attempts, front>>

\* The same with the event stored already, and some of the overflow told and dropped.
RecordFails(g) ==
    /\ Fault
    /\ sub[g].pc = "record" /\ ~HasRow(EventOf(g))
    /\ \E all \in Overflowing(EventOf(g)) : \E gone \in SUBSET all :
          /\ Drop(EventOf(g), gone)
          /\ \E told \in {gone # {}, all # {}} :
                trigger' = [trigger EXCEPT !.missed = @ \/ (trigger.exists /\ told)]
    /\ sub' = Settled(g, sub[g].at)
    /\ overlooked' = overlooked \cup {EventOf(g)}
    /\ UNCHANGED <<runs, live, sched, sup, owner, edits, attempts, front>>

\* The server ends the subscription.
Terminate(g) ==
    /\ Fault
    /\ sub[g].open /\ sub[g].pc = "idle"
    /\ sub' = [sub EXCEPT ![g] = IF Current(g) THEN [@ EXCEPT !.open = FALSE, !.pc = "ending"]
                                 ELSE Free]
    /\ UNCHANGED <<storeVars, live, sched, sup, run, owner, edits, histVars, front>>

\* signal(Terminated): for good, or until the server is back.
SaveEnd(g) ==
    /\ sub[g].pc = "ending"
    /\ \E final \in BOOLEAN :
          trigger' = [trigger EXCEPT !.ended = IF trigger.exists THEN final ELSE @]
    /\ sub' = [sub EXCEPT ![g] = Free]
    /\ UNCHANGED <<stored, runs, live, sched, sup, run, owner, boundVars, histVars, front>>

\* Mutant of Cancelled: the subscription is taken out of the table, and goes on.
CancelledNot == sub

\* subscription.cancel(): no delivery is begun any more.
Cancelled == [g \in Slots |-> IF g # live.slot THEN sub[g]
                              ELSE IF sub[g].pc = "idle" THEN Free
                              ELSE [sub[g] EXCEPT !.open = FALSE]]

-----------------------------------------------------------------------------
(***************************************************************************)
(* The supervisor: tick, dispatch, reconcile and subscribe.  Ticks are     *)
(* serialized; the trigger is read once and used to the end of the tick.   *)
(***************************************************************************)

\* load_pending
LoadPending ==
    /\ sup.pc = "boot"
    /\ sched' = [sched EXCEPT !.since = @ \/ (trigger.exists /\ Waiting # {})]
    /\ sup' = [sup EXCEPT !.pc = "idle"]
    /\ overlooked' = {}
    /\ UNCHANGED <<storeVars, sub, live, run, owner, boundVars, dropped, attempts, front>>

\* Nothing is scheduled for what waits.
Unread == overlooked' = IF sched.since THEN overlooked ELSE Waiting

\* The store cannot be read: the trigger is skipped.
LoadPendingFails ==
    /\ Fault
    /\ sup.pc = "boot"
    /\ sup' = [sup EXCEPT !.pc = "idle"]
    /\ Unread
    /\ UNCHANGED <<storeVars, sub, live, sched, run, owner, edits, dropped, attempts, front>>

\* Something waits and is not being run.  Its batch window or its retry delay
\* may have passed or not.
Due == trigger.enabled /\ ~sched.running /\ sched.since

\* dispatch
Dispatch == sched' = [sched EXCEPT !.running = TRUE] /\ run' = [NoRun EXCEPT !.pc = "slot"]

\* store.list(), and a dispatch; the dispatch that ends a tick is the next one's.
List ==
    /\ sup.pc = "idle" /\ trigger.exists
    /\ sup' = [Asleep EXCEPT !.pc = "reconcile", !.seen = SeenOf(trigger)]
    /\ UNCHANGED <<storeVars, sub, live, owner, boundVars, histVars, front>>

ListRuns == List /\ Due /\ Dispatch
ListWaits == List /\ UNCHANGED <<sched, run, front>>

\* The trigger is gone, and what is kept of it goes.
ListGone ==
    /\ sup.pc = "idle" /\ ~trigger.exists
    /\ live # NoLive \/ sched # Unscheduled
    /\ sub' = Cancelled
    /\ live' = NoLive
    /\ sched' = Unscheduled
    /\ UNCHANGED <<storeVars, sup, run, owner, boundVars, histVars, front>>

\* The trigger itself stands in the way of a subscription.
BlockedItself == ~sup.seen.enabled \/ sup.seen.ended

\* set_state: whatever the trigger's state has become since it was listed.
SetState(ended) == trigger' = [trigger EXCEPT !.ended = IF trigger.exists THEN ended ELSE @]

\* Blocked: the live subscription is cancelled and the listed state set.
ReconcileBlocked ==
    /\ sup.pc = "reconcile" /\ BlockedItself
    /\ SetState(sup.seen.enabled /\ sup.seen.ended)
    /\ sub' = Cancelled /\ live' = NoLive
    /\ sup' = Asleep
    /\ UNCHANGED <<stored, runs, sched, run, owner, boundVars, histVars, front>>

\* The server is disabled, signed out or down.
ServerBlocks ==
    /\ Fault
    /\ sup.pc = "reconcile" /\ ~BlockedItself
    /\ SetState(FALSE)
    /\ sub' = Cancelled /\ live' = NoLive
    /\ sup' = Asleep
    /\ UNCHANGED <<stored, runs, sched, run, owner, edits, histVars, front>>

\* The live subscription is what the trigger asks for, and goes on.
Settling == live # NoLive /\ live.key = sup.seen.key /\ sub[live.slot].open

ReconcileSettled ==
    /\ sup.pc = "reconcile" /\ ~BlockedItself
    /\ Settling
    /\ sup' = Asleep
    /\ UNCHANGED <<storeVars, sub, live, sched, run, owner, boundVars, histVars, front>>

\* Where a subscription starts: behind the cursor, or now, wherever that is.
StartOf(key, cursor) == IF cursor = NoCursor THEN front[key] ELSE cursor.pos

\* The subscription is replaced: subscribe() with the cursor that was listed ...
Subscribe ==
    /\ sup.pc = "reconcile" /\ ~BlockedItself
    /\ ~Settling
    /\ LET free == {g \in Slots : Cancelled[g] = Free}
       IN  /\ free # {}
           /\ LET at == StartOf(sup.seen.key, sup.seen.cursor)
                  goesOn == sup.seen.cursor.key = sup.seen.key
              IN  /\ sub' = [Cancelled EXCEPT ![Min(free)] =
                               [key |-> sup.seen.key, at |-> at,
                                from |-> IF goesOn THEN sup.seen.cursor.from ELSE at,
                                open |-> TRUE, pc |-> "idle"]]
                  /\ front' = [front EXCEPT ![sup.seen.key] = IF @ < at THEN at ELSE @]
           /\ sup' = [sup EXCEPT !.pc = "insert", !.slot = Min(free)]
    /\ live' = NoLive
    /\ UNCHANGED <<storeVars, sched, run, owner, boundVars, histVars>>

\* ... which enters it into the table when its mode is saved.
Insert ==
    /\ sup.pc = "insert"
    /\ live' = [slot |-> sup.slot, key |-> sup.seen.key]
    /\ sup' = Asleep
    /\ UNCHANGED <<storeVars, sub, sched, run, owner, boundVars, histVars, front>>

\* The server cannot be subscribed to, or does not offer the event.
SubscribeFails ==
    /\ Fault
    /\ sup.pc = "reconcile" /\ ~BlockedItself
    /\ ~Settling
    /\ \E final \in BOOLEAN : SetState(final)
    /\ sub' = Cancelled /\ live' = NoLive
    /\ sup' = Asleep
    /\ UNCHANGED <<stored, runs, sched, run, owner, edits, histVars, front>>

-----------------------------------------------------------------------------
(***************************************************************************)
(* A run.                                                                  *)
(***************************************************************************)

\* The task that dispatch spawned ends.
RunEnds ==
    /\ run' = NoRun
    /\ sched' = [sched EXCEPT !.running = FALSE]

\* Maintenance, no engine, or the store cannot be read.
RunRefused ==
    /\ Fault
    /\ run.pc = "slot"
    /\ RunEnds
    /\ UNCHANGED <<storeVars, sub, live, sup, owner, edits, histVars, front>>

\* The trigger is read afresh; it may be gone or paused.
RunFindsOff ==
    /\ run.pc = "slot"
    /\ ~(trigger.exists /\ trigger.enabled)
    /\ RunEnds
    /\ UNCHANGED <<storeVars, sub, live, sup, owner, boundVars, histVars, front>>

\* Too many failures in a row, or too many runs within the hour.
OverBudget == FailuresSince >= MaxFailures
OverRate == Len(runs) >= 1

\* pause: the trigger is disabled ...
PauseSaved ==
    /\ trigger' = IF trigger.exists THEN [trigger EXCEPT !.enabled = FALSE, !.ended = FALSE]
                  ELSE trigger
    /\ run' = [NoRun EXCEPT !.pc = "unhook"]

RunPauses ==
    /\ run.pc = "slot"
    /\ trigger.exists /\ trigger.enabled
    /\ OverBudget \/ OverRate
    /\ PauseSaved
    /\ UNCHANGED <<stored, runs, sub, live, sched, sup, owner, boundVars, histVars, front>>

\* Within both limits.
MayRun == run.pc = "slot" /\ trigger.exists /\ trigger.enabled /\ ~OverBudget

\* The oldest of the waiting events; their order is not kept in the model.
Batches == kSubset(IF Cardinality(Waiting) < Batch THEN Cardinality(Waiting) ELSE Batch, Waiting)

\* start_run records the run before the agent starts.
RunTakes ==
    /\ MayRun
    /\ Waiting # {}
    /\ \E batch \in Batches :
          run' = [run EXCEPT !.pc = "agent", !.prev = FailuresSince, !.batch = batch, !.row = TRUE]
    /\ runs' = WithRun(runs)
    /\ attempts' = attempts + 1
    /\ UNCHANGED <<trigger, stored, sub, live, sched, sup, owner, boundVars,
                   dropped, overlooked, front>>

\* Nothing waits ...
RunFindsNone ==
    /\ MayRun
    /\ Waiting = {}
    /\ run' = [run EXCEPT !.pc = "none_waits"]
    /\ UNCHANGED <<storeVars, sub, live, sched, sup, owner, boundVars, histVars, front>>

\* ... and pending_since is cleared, a moment later.
RunForgets ==
    /\ run.pc = "none_waits"
    /\ run' = NoRun
    /\ sched' = [sched EXCEPT !.since = FALSE, !.running = FALSE]
    /\ overlooked' = Waiting
    /\ UNCHANGED <<storeVars, sub, live, sup, owner, boundVars, dropped, attempts, front>>

\* A run failed or succeeded: the schedule, and the limit on failures in a row,
\* counted from what was read when it began.
Settle(failed) ==
    /\ sched' = [sched EXCEPT !.since = FALSE]
    /\ run' = [NoRun EXCEPT !.pc = IF failed /\ run.prev + 1 >= MaxFailures THEN "pausing" ELSE "rest"]

\* The row of the run in progress; a run from before the owner's last word does not
\* count.
RowEnded(how) == IF run.row THEN [runs EXCEPT ![Len(runs)] = how] ELSE runs

\* The agent fails: finish_run saves that, and prunes what a failed prune left ...
AgentFails ==
    /\ run.pc = "agent"
    /\ runs' = RowEnded("failed")
    /\ \E gone \in PrunedPartly(stored) : stored' = Pruned(stored, gone)
    /\ Settle(TRUE)
    /\ UNCHANGED <<trigger, sub, live, sup, owner, boundVars, histVars, front>>

\* ... or its end cannot be saved, a success neither: the row stays open.
RunUnsaved ==
    /\ Fault
    /\ run.pc = "agent"
    /\ Settle(TRUE)
    /\ UNCHANGED <<storeVars, sub, live, sup, owner, edits, histVars, front>>

\* The agent succeeds: finish_run saves the row first ...
AgentSucceeds ==
    /\ run.pc = "agent"
    /\ runs' = RowEnded("ok")
    /\ attempts' = 0
    /\ run' = [run EXCEPT !.pc = "consume"]
    /\ UNCHANGED <<trigger, stored, sub, live, sched, sup, owner, boundVars,
                   dropped, overlooked, front>>

\* ... then its events, those that are still there, and the oldest are pruned.
Consume ==
    /\ run.pc = "consume"
    /\ \E gone \in Prunable(Consumed(run.batch)) : stored' = Pruned(Consumed(run.batch), gone)
    /\ Settle(FALSE)
    /\ UNCHANGED <<trigger, runs, sub, live, sup, owner, boundVars, histVars, front>>

\* The store fails on the way: the run counts as failed here, not in the store.
ConsumeFails ==
    /\ Fault
    /\ run.pc = "consume"
    /\ \E part \in SUBSET run.batch :
          \E gone \in IF part = run.batch THEN PrunedPartly(Consumed(part)) ELSE {{}} :
             stored' = Pruned(Consumed(part), gone)
    /\ Settle(TRUE)
    /\ UNCHANGED <<trigger, runs, sub, live, sup, owner, edits, histVars, front>>

\* Mutant of RunLooksAgain: what is left waits for the next event.
RunLooksAway ==
    /\ run.pc = "rest"
    /\ RunEnds
    /\ UNCHANGED <<storeVars, sub, live, sup, owner, boundVars, histVars, front>>

\* What is left is scheduled.
RunLooksAgain ==
    /\ run.pc = "rest"
    /\ run' = NoRun
    /\ sched' = [sched EXCEPT !.running = FALSE, !.since = @ \/ Waiting # {}]
    /\ overlooked' = IF Waiting = {} THEN overlooked ELSE {}
    /\ UNCHANGED <<storeVars, sub, live, sup, owner, boundVars, dropped, attempts, front>>

\* What is left cannot be read: nobody is told.
RunLooksFails ==
    /\ Fault
    /\ run.pc = "rest"
    /\ RunEnds
    /\ Unread
    /\ UNCHANGED <<storeVars, sub, live, sup, owner, edits, dropped, attempts, front>>

Pause ==
    /\ run.pc = "pausing"
    /\ PauseSaved
    /\ UNCHANGED <<stored, runs, sub, live, sched, sup, owner, boundVars, histVars, front>>

\* The row cannot be saved, and stays enabled; the rest is done all the same.
PauseFails ==
    /\ Fault
    /\ \/ run.pc = "pausing"
       \/ run.pc = "slot" /\ trigger.exists /\ trigger.enabled /\ (OverBudget \/ OverRate)
    /\ run' = [NoRun EXCEPT !.pc = "unhook"]
    /\ Unread
    /\ UNCHANGED <<storeVars, sub, live, sched, sup, owner, edits, dropped, attempts, front>>

\* ... and its subscription cancelled.
Unhook ==
    /\ run.pc = "unhook"
    /\ RunEnds
    /\ sub' = Cancelled
    /\ live' = NoLive
    /\ UNCHANGED <<storeVars, sup, owner, boundVars, histVars, front>>

-----------------------------------------------------------------------------
(***************************************************************************)
(* The owner.                                                              *)
(***************************************************************************)

\* The trigger's row is changed and updated_at with it: earlier runs no longer
\* count.
Edited(t) ==
    /\ owner = "idle" /\ trigger.exists /\ edits < MaxEdits
    /\ edits' = edits + 1
    /\ trigger' = t
    /\ runs' = <<>>
    /\ run' = [run EXCEPT !.row = FALSE]
    /\ attempts' = 0
    /\ UNCHANGED <<stored, sub, live, sup, faults, dropped, front>>

\* reset_failures: a run is due, if only to look.
Probe == sched' = [sched EXCEPT !.since = TRUE] /\ overlooked' = {}

\* update of anything but the key, and set_enabled(true): what ended the trigger is
\* cleared.
Change == Edited([trigger EXCEPT !.ended = FALSE]) /\ Probe /\ UNCHANGED owner
Enable == Edited([trigger EXCEPT !.enabled = TRUE, !.ended = FALSE]) /\ Probe /\ UNCHANGED owner

\* update of the key: another subscription, from now ...
ChangeKey ==
    /\ \E k \in Keys \ {trigger.key} : Edited([trigger EXCEPT !.key = k, !.cursor = NoCursor, !.ended = FALSE])
    /\ owner' = "stop_reset"
    /\ UNCHANGED <<sched, overlooked>>

\* set_enabled(false) ...
Disable ==
    /\ Edited([trigger EXCEPT !.enabled = FALSE, !.ended = FALSE])
    /\ owner' = "stop"
    /\ UNCHANGED <<sched, overlooked>>

\* ... with the live subscription stopped after the row is saved.
Stop ==
    /\ owner \in {"stop", "stop_reset"}
    /\ owner' = "idle"
    /\ sub' = Cancelled /\ live' = NoLive
    /\ IF owner = "stop" THEN UNCHANGED <<sched, overlooked>> ELSE Probe
    /\ UNCHANGED <<storeVars, sup, run, boundVars, dropped, attempts, front>>

\* delete: stop() ...
Delete ==
    /\ owner = "idle" /\ trigger.exists /\ edits < MaxEdits
    /\ edits' = edits + 1
    /\ owner' = "remove"
    /\ sub' = Cancelled
    /\ live' = NoLive
    /\ UNCHANGED <<storeVars, sched, sup, run, faults, histVars, front>>

\* ... then the row and its events.  Its runs stay, and nobody reads them.
Remove ==
    /\ owner = "remove"
    /\ owner' = "idle"
    /\ trigger' = [trigger EXCEPT !.exists = FALSE, !.enabled = FALSE, !.ended = FALSE,
                                  !.cursor = NoCursor]
    /\ stored' = [e \in Events |-> "none"]
    /\ runs' = <<>>
    /\ run' = [run EXCEPT !.row = FALSE, !.batch = {}]
    /\ dropped' = {} /\ attempts' = 0 /\ overlooked' = {}
    /\ UNCHANGED <<sub, live, sched, sup, boundVars, front>>

\* The daemon goes down and comes up: what is stored is what is left.
Crash ==
    /\ Fault
    /\ sub' = [g \in Slots |-> Free]
    /\ live' = NoLive
    /\ sched' = Unscheduled
    /\ sup' = [Asleep EXCEPT !.pc = "boot"]
    /\ run' = NoRun
    /\ owner' = "idle"
    /\ UNCHANGED <<storeVars, edits, histVars, front>>

-----------------------------------------------------------------------------
Sink(g) ==
    \/ Deliver(g) \/ Record(g) \/ Move(g) \/ Schedule(g) \/ DeliveryFails(g) \/ RecordFails(g)
    \/ Terminate(g) \/ SaveEnd(g)

Supervisor ==
    \/ LoadPending \/ LoadPendingFails \/ ListRuns \/ ListWaits \/ ListGone \/ ReconcileBlocked \/ ServerBlocks
    \/ ReconcileSettled \/ Subscribe \/ SubscribeFails \/ Insert

Run ==
    \/ RunRefused \/ RunFindsOff \/ RunPauses \/ RunTakes \/ RunFindsNone \/ RunForgets
    \/ AgentFails \/ RunUnsaved \/ AgentSucceeds \/ Consume \/ ConsumeFails
    \/ RunLooksAgain \/ RunLooksFails \/ Pause \/ PauseFails \/ Unhook

Owner == Change \/ ChangeKey \/ Enable \/ Disable \/ Stop \/ Delete \/ Remove

Next ==
    \/ \E g \in Slots : Sink(g)
    \/ Supervisor \/ Run \/ Owner \/ Crash

Spec == Init /\ [][Next]_vars

-----------------------------------------------------------------------------
\* The types of the variables.
TypeOK ==
    /\ trigger \in Triggers
    /\ stored \in [Events -> {"none", "pending", "handled", "pruned"}]
    /\ runs \in Seq({"open", "failed", "ok"}) /\ Len(runs) <= KeepRuns
    /\ front \in [Keys -> Positions]
    /\ sub \in [Slots -> [key : Keys \cup {0}, at : Positions, from : Positions,
                      open : BOOLEAN, pc : SinkSteps]]
    /\ live \in [slot : Slots \cup {0}, key : Keys \cup {0}]
    /\ sched \in [since : BOOLEAN, running : BOOLEAN]
    /\ sup \in [pc : SupSteps, seen : Seens, slot : Slots \cup {0}]
    /\ run \in [pc : RunSteps, prev : Nat, batch : SUBSET Events, row : BOOLEAN]
    /\ owner \in OwnerSteps
    /\ edits \in 0..MaxEdits /\ faults \in 0..MaxFaults
    /\ dropped \subseteq Events /\ attempts \in Nat
    /\ overlooked \subseteq Events

\* "Events are stored before the subscription moves on, so a crash replays them
\* at most" (runtime.rs): from where the subscriptions began to the position of the
\* trigger there is no gap, however often they were replaced, failed or crashed on the
\* way; and what the queue limit cost is told.
DeliveredIsKept ==
    trigger.exists =>
        /\ \A e \in Events : e[1] = trigger.cursor.key /\ e[2] \in trigger.cursor.from + 1..trigger.cursor.pos
              => stored[e] # "none" \/ e \in dropped
        /\ dropped # {} => trigger.missed

\* "the store drops the ones it already has" (runtime.rs): an event a run has
\* consumed stays consumed, however often it is delivered again, until its row is
\* pruned; and that is done only past the limit, which is then still reached.
Handled == {e \in Events : stored[e] = "handled"}
ConsumedStays ==
    [][\A e \in Events : stored[e] = "handled" /\ trigger'.exists =>
          \/ stored'[e] = "handled"
          \/ stored'[e] = "pruned" /\ Cardinality(Handled') >= KeepHandled]_vars

\* "Stored history makes the retry budget survive a daemon restart"
\* (failures_since): between two words of the owner there are no more runs in a
\* row without a success than the limit, crashed runs included.
RetryBudgetHolds == attempts <= MaxFailures

\* Nobody is about to schedule or to run anything.
AtRest ==
    /\ sup.pc # "boot" /\ run.pc = "none" /\ owner = "idle"
    /\ \A g \in Slots : sub[g].pc \notin {"move", "schedule"}

\* The waiting events the trigger has moved past, with no run due for them.
Forgotten ==
    {e \in Waiting : /\ trigger.exists /\ trigger.enabled /\ AtRest
                    /\ trigger.cursor.key = e[1] /\ trigger.cursor.pos >= e[2]
                    /\ ~(sched.since /\ ~sched.running)}

\* "Events of a trigger are collected for its batch window and handed to one
\* unattended agent run" (runtime.rs): an event the subscription has moved past is
\* never left without a run being due for it, whatever crash, failed run, full batch
\* or edit came between.  But for the events stored while a run finds none, and those
\* whose run was not scheduled because the store failed - in the middle of a delivery,
\* on boot, after a run or when it pauses -, until something else is scheduled.
NothingForgotten == Forgotten \subseteq overlooked

\* The same without the exception.
NoneForgotten == Forgotten = {}

\* A subscription that is open is the one in the table, or about to be: pausing,
\* deleting and replacing a trigger while a tick subscribes it leaves none running
\* that the next tick would not find.
NoOrphanSubscription ==
    \A g \in Slots : sub[g].open => live.slot = g \/ (sup.pc = "insert" /\ sup.slot = g)

\* "Turning it on also clears what paused or ended it" (set_enabled): a trigger
\* that starts again is ended by its server, not by what was known of it before.
ResumeClearsEnd ==
    [][~trigger.ended /\ trigger'.ended
       => SubscribeFails \/ \E g \in Slots : SaveEnd(g)]_vars
=============================================================================
