--------------------------- MODULE SessionMailbox ---------------------------
(***************************************************************************)
(* One live session of the agent: the requests that join it                *)
(* (AndaBot::join_session in engine/agent.rs) and the task that serves it  *)
(* (spawn_session_runner and SessionRunner::run in engine/agent/runner.rs).*)
(*                                                                         *)
(* A joining request puts its input into a bounded channel; /stop and      *)
(* /cancel then raise the session's control signal, which interrupts what  *)
(* the runner is doing.  The runner lowers the signal, drains the channel, *)
(* cuts the batch after the first control command and works on it.  When   *)
(* it decides to end it closes the channel and rescues what slipped in.    *)
(*                                                                         *)
(* The daemon runs on a multi-threaded executor (main.rs), its tests on a  *)
(* single-threaded one.  Parallel chooses between the two: with FALSE a    *)
(* task is left alone from one await to the next.                          *)
(*                                                                         *)
(* What a turn of the model computes is not modelled; it ends, fails, or   *)
(* is interrupted.  A message is the request that sent it.                 *)
(***************************************************************************)
EXTENDS Naturals, Sequences, FiniteSets, SequencesExt

CONSTANTS Requests,     \* requests that may join
          Opener,       \* the request the session was created for
          Cap,          \* capacity of the channel (42 in create_session)
          Parallel,     \* TRUE: tasks run on several threads
          MayFail       \* TRUE: storage, attachments and the model can fail

ASSUME MailboxAssumption ==
    /\ Opener \notin Requests
    /\ Cap \in Nat \ {0}
    /\ Parallel \in BOOLEAN
    /\ MayFail \in BOOLEAN

Messages == Requests \cup {Opener}

VARIABLES
    command,   \* request -> what it asks for
    req,       \* request -> where it is in join_session
    queue,     \* the channel
    closed,    \* the receiver has been closed or dropped
    ctl,       \* SessionControl.pending
    run,       \* where the runner is
    carry,     \* pending_inputs: what waits behind a control command
    batch,     \* the inputs of the current call of SessionRunner::run
    task,      \* what has been attached to the completion runner
    status,    \* conversation.status
    accepted,  \* history: the messages in the order the channel took them
    fate       \* history: what became of each message

reqVars == <<command, req>>
chanVars == <<queue, closed>>
histVars == <<accepted, fate>>
vars == <<command, req, queue, closed, ctl, run, carry, batch, task, status,
          accepted, fate>>

\* "cron_cancel" is the hook a cron receipt runs when its scheduler stops
\* (Session::bind_cron_receipt): it raises the signal before it sends.
Commands == {"plain", "stop", "cancel", "cron_cancel"}
Controls == {"stop", "cancel", "cron_cancel"}
CommandOf(m) == IF m = Opener THEN "plain" ELSE command[m]
IsControl(m) == CommandOf(m) \in Controls

RequestSteps == {"away", "sending", "send_now", "signal", "ok", "rejected"}
RunnerSteps == {"reset", "drain", "stopping", "cancelling", "prepare", "turn",
                "settling", "idle", "wait", "saving", "failing", "ending",
                "rescue", "exit", "gone"}
Fates == {"none", "waiting", "handled", "dropped", "lost"}

-----------------------------------------------------------------------------
(***************************************************************************)
(* Scheduling.  These are the points between two awaits: on one thread     *)
(* nobody else runs there.                                                 *)
(***************************************************************************)
RunnerHoldsThread == run \in {"reset", "drain", "ending", "rescue", "exit"}
RequestHoldsThread(r) == req[r] \in {"signal", "send_now"}

RunnerMayStep == Parallel \/ \A r \in Requests : ~RequestHoldsThread(r)
RequestMayStep(r) ==
    \/ Parallel
    \/ /\ ~RunnerHoldsThread
       /\ \A s \in Requests \ {r} : ~RequestHoldsThread(s)

Resolve(ms, f) == fate' = [m \in Messages |-> IF m \in ms THEN f ELSE fate[m]]
Elems(s) == ToSet(s)

Init ==
    /\ command \in [Requests -> Commands]
    /\ req = [r \in Requests |-> "away"]
    /\ queue = <<>>
    /\ closed = FALSE
    /\ ctl = FALSE
    /\ run = "reset"
    /\ carry = <<>>
    /\ batch = <<>>
    /\ task = <<Opener>>
    /\ status = "Working"
    /\ accepted = <<Opener>>
    /\ fate = [m \in Messages |-> IF m = Opener THEN "waiting" ELSE "none"]

-----------------------------------------------------------------------------
(***************************************************************************)
(* The requests.                                                           *)
(***************************************************************************)

HasRoom == Len(queue) < Cap

\* find_joinable_session returned this session: its channel was still open.
\* A message is then sent at once when there is room, or waits for room.
Join(r) ==
    /\ RequestMayStep(r)
    /\ req[r] = "away"
    /\ ~closed
    /\ command[r] # "cron_cancel"
    /\ req' = [req EXCEPT ![r] = IF HasRoom THEN "send_now" ELSE "sending"]
    /\ UNCHANGED <<command, chanVars, ctl, run, carry, batch, task, status, histVars>>

\* The cron hook holds a sender of its own and asks nobody.
CronSignal(r) ==
    /\ RequestMayStep(r)
    /\ req[r] = "away"
    /\ command[r] = "cron_cancel"
    /\ ctl' = TRUE
    /\ req' = [req EXCEPT ![r] = IF HasRoom THEN "send_now" ELSE "sending"]
    /\ UNCHANGED <<command, chanVars, run, carry, batch, task, status, histVars>>

\* Mutant of RaisesSignal: a stop waits for the turn it stops.
CancelRaisesSignal(r) == command[r] = "cancel"

\* `control` of join_session.
RaisesSignal(r) == command[r] \in {"stop", "cancel"}

\* sender.send(input).await succeeds.
Send(r) ==
    /\ RequestMayStep(r)
    /\ req[r] \in {"sending", "send_now"}
    /\ ~closed
    /\ HasRoom
    /\ queue' = Append(queue, r)
    /\ req' = [req EXCEPT ![r] = IF RaisesSignal(r) THEN "signal" ELSE "ok"]
    /\ accepted' = Append(accepted, r)
    /\ Resolve({r}, "waiting")
    /\ UNCHANGED <<command, closed, ctl, run, carry, batch, task, status>>

\* On several threads the room seen on arrival may be gone.
AwaitRoom(r) ==
    /\ Parallel
    /\ req[r] = "send_now"
    /\ ~HasRoom
    /\ req' = [req EXCEPT ![r] = "sending"]
    /\ UNCHANGED <<command, chanVars, ctl, run, carry, batch, task, status, histVars>>

\* The receiver is closed: the input comes back and run() looks for another
\* session.
SendFails(r) ==
    /\ RequestMayStep(r)
    /\ req[r] \in {"sending", "send_now"}
    /\ closed
    /\ req' = [req EXCEPT ![r] = "rejected"]
    /\ UNCHANGED <<command, chanVars, ctl, run, carry, batch, task, status, histVars>>

\* session.control.request(), after the command was accepted.
Signal(r) ==
    /\ RequestMayStep(r)
    /\ req[r] = "signal"
    /\ ctl' = TRUE
    /\ req' = [req EXCEPT ![r] = "ok"]
    /\ UNCHANGED <<command, chanVars, run, carry, batch, task, status, histVars>>

-----------------------------------------------------------------------------
(***************************************************************************)
(* The runner: the loop of spawn_session_runner and the calls it makes.    *)
(***************************************************************************)

\* Mutant of Reset: the signal is never lowered.
ResetKeepingSignal ==
    /\ RunnerMayStep
    /\ run = "reset"
    /\ run' = "drain"
    /\ UNCHANGED <<reqVars, chanVars, ctl, carry, batch, task, status, histVars>>

\* session.control.reset()
Reset ==
    /\ RunnerMayStep
    /\ run = "reset"
    /\ ctl' = FALSE
    /\ run' = "drain"
    /\ UNCHANGED <<reqVars, chanVars, carry, batch, task, status, histVars>>

\* The first control command of a sequence of inputs, or its length.
CutAt(s) ==
    LET controls == {i \in 1..Len(s) : IsControl(s[i])}
    IN  IF controls = {} THEN Len(s) ELSE CHOOSE i \in controls : \A j \in controls : i <= j
HasControl(s) == \E i \in 1..Len(s) : IsControl(s[i])

\* Mutant of Inputs: the channel is read before the leftovers.
InputsChannelFirst == queue \o carry

\* What was left over comes first, then all that is in the channel.
Inputs == carry \o queue

\* The batch ends with the first control command, the rest waits for the next.
Drain ==
    /\ RunnerMayStep
    /\ run = "drain"
    /\ batch' = SubSeq(Inputs, 1, CutAt(Inputs))
    /\ carry' = SubSeq(Inputs, CutAt(Inputs) + 1, Len(Inputs))
    /\ run' = IF HasControl(Inputs) THEN "stopping" ELSE "prepare"
    /\ queue' = <<>>
    /\ UNCHANGED <<reqVars, closed, ctl, task, status, histVars>>

\* What a stop discards.
EarlierWork == Elems(task) \cup Elems(batch)

\* SessionRunner::stop_current_task, and what a cancel adds to it.
StopTask ==
    /\ RunnerMayStep
    /\ run = "stopping"
    /\ LET control == Last(batch)
       IN  /\ fate' = [m \in Messages |->
                         CASE m = control -> "handled"
                           [] m \in EarlierWork \ {control} -> "dropped"
                           [] OTHER -> fate[m]]
           /\ IF CommandOf(control) = "stop"
              THEN status' = "Idle" /\ run' = "reset"
              ELSE status' = "Cancelled" /\ run' = "cancelling"
    /\ task' = <<>>
    /\ batch' = <<>>
    /\ UNCHANGED <<reqVars, chanVars, ctl, carry, accepted>>

\* The cancelled conversation is saved and its last window sent to the Brain.
CancelSaved ==
    /\ RunnerMayStep
    /\ run = "cancelling"
    /\ run' = "ending"
    /\ UNCHANGED <<reqVars, chanVars, ctl, carry, batch, task, status, histVars>>

\* A control command came while the batch was being prepared: run() returns
\* before it attaches anything.
AbandonBatch ==
    /\ RunnerMayStep
    /\ run = "prepare"
    /\ ctl
    /\ Resolve(Elems(batch), "dropped")
    /\ batch' = <<>>
    /\ run' = "reset"
    /\ UNCHANGED <<reqVars, chanVars, ctl, carry, task, status, accepted>>

\* Mutant of MayAttach: the signal is not looked at again after preparing.
MayAttachAlways == TRUE

\* The signal is down after the batch was prepared.
MayAttach == ~ctl

\* The batch becomes work of the completion runner.
Attach ==
    /\ RunnerMayStep
    /\ run = "prepare"
    /\ MayAttach
    /\ task' = task \o batch
    /\ batch' = <<>>
    /\ status' = IF task' # <<>> THEN "Working" ELSE status
    /\ run' = "turn"
    /\ UNCHANGED <<reqVars, chanVars, ctl, carry, histVars>>

\* drive_session_operation looks at the signal before it looks at the turn.
TurnInterrupted ==
    /\ RunnerMayStep
    /\ run = "turn"
    /\ ctl
    /\ run' = "reset"
    /\ UNCHANGED <<reqVars, chanVars, ctl, carry, batch, task, status, histVars>>

\* The model answered: the branch Ok(Some(res)) of run().  The conversation
\* goes on, is complete, or failed.
TurnAnswers(st) ==
    /\ RunnerMayStep
    /\ run = "turn"
    /\ task # <<>>
    /\ ctl => Parallel
    /\ Resolve(Elems(task), "handled")
    /\ task' = <<>>
    /\ status' = st
    /\ run' = "settling"
    /\ UNCHANGED <<reqVars, chanVars, ctl, carry, batch, accepted>>

\* Completion hooks, history, Formation: then the loop goes on, or ends.
Settled ==
    /\ RunnerMayStep
    /\ run = "settling"
    /\ run' = IF status = "Working" THEN "reset" ELSE "ending"
    /\ UNCHANGED <<reqVars, chanVars, ctl, carry, batch, task, status, histVars>>

\* Nothing to do: the branch Ok(None) of run().
TurnIdle ==
    /\ RunnerMayStep
    /\ run = "turn"
    /\ task = <<>>
    /\ ctl => Parallel
    /\ run' = "idle"
    /\ UNCHANGED <<reqVars, chanVars, ctl, carry, batch, task, status, histVars>>

\* The conversation rests and the loop waits for input.
Rest ==
    /\ RunnerMayStep
    /\ run = "idle"
    /\ status' = "Idle"
    /\ run' = "wait"
    /\ UNCHANGED <<reqVars, chanVars, ctl, carry, batch, task, histVars>>

\* finish_when_idle, or ten idle minutes.
Complete ==
    /\ RunnerMayStep
    /\ run = "idle"
    /\ status' = "Completed"
    /\ run' = "saving"
    /\ UNCHANGED <<reqVars, chanVars, ctl, carry, batch, task, histVars>>

\* The completed conversation is saved; run() returns Ok(false).
CompleteSaved ==
    /\ RunnerMayStep
    /\ run = "saving"
    /\ run' = "ending"
    /\ UNCHANGED <<reqVars, chanVars, ctl, carry, batch, task, status, histVars>>

\* An idle tick: one input, or one second.
WaitReceives ==
    /\ RunnerMayStep
    /\ run = "wait"
    /\ queue # <<>>
    /\ carry' = <<Head(queue)>>
    /\ queue' = Tail(queue)
    /\ run' = "reset"
    /\ UNCHANGED <<reqVars, closed, ctl, batch, task, status, histVars>>

WaitTimesOut ==
    /\ RunnerMayStep
    /\ run = "wait"
    /\ queue = <<>>
    /\ run' = "reset"
    /\ UNCHANGED <<reqVars, chanVars, ctl, carry, batch, task, status, histVars>>

\* should_continue_session_runner_after_stop, for a session without background
\* tasks.
ShouldContinue(pending) == status \notin {"Cancelled", "Failed"} /\ pending # <<>>

\* Shutting down.  What is pending is drained once before the channel closes...
DrainAndClose ==
    /\ RunnerMayStep
    /\ run = "ending"
    /\ carry' = carry \o queue
    /\ queue' = <<>>
    /\ run' = IF ShouldContinue(carry') THEN "reset" ELSE "rescue"
    /\ UNCHANGED <<reqVars, closed, ctl, batch, task, status, histVars>>

\* Mutant of CloseAndRescue: the channel closes and nothing is rescued.
CloseWithoutRescue ==
    /\ RunnerMayStep
    /\ run = "rescue"
    /\ closed' = TRUE
    /\ run' = "exit"
    /\ UNCHANGED <<reqVars, queue, ctl, carry, batch, task, status, histVars>>

\* ... and once after: rx.close(), and the rescue.
CloseAndRescue ==
    /\ RunnerMayStep
    /\ run = "rescue"
    /\ closed' = TRUE
    /\ carry' = carry \o queue
    /\ queue' = <<>>
    /\ run' = IF ShouldContinue(carry') THEN "reset" ELSE "exit"
    /\ UNCHANGED <<reqVars, ctl, batch, task, status, histVars>>

\* The task returns: the receiver and everything it held are dropped.
Exit ==
    /\ RunnerMayStep
    /\ run = "exit"
    /\ Resolve(Elems(task) \cup Elems(batch) \cup Elems(carry) \cup Elems(queue), "lost")
    /\ closed' = TRUE
    /\ queue' = <<>>
    /\ carry' = <<>>
    /\ batch' = <<>>
    /\ task' = <<>>
    /\ run' = "gone"
    /\ UNCHANGED <<reqVars, ctl, status, accepted>>

-----------------------------------------------------------------------------
(***************************************************************************)
(* Failures of what the runner awaits: storage, attachments, compaction,   *)
(* the model.  A conversation that is already cancelled stays so.          *)
(***************************************************************************)
Fail ==
    /\ MayFail
    /\ RunnerMayStep
    /\ run \in {"stopping", "prepare", "turn", "settling", "idle", "saving"}
    /\ run = "turn" /\ ctl => Parallel
    /\ status' = "Failed"
    /\ run' = "failing"
    /\ UNCHANGED <<reqVars, chanVars, ctl, carry, batch, task, histVars>>

\* The failure is recorded.  run() either handled it (it returns Ok(false)) or
\* returned it (Err: the loop breaks without looking at the channel).
FailureSaved ==
    /\ RunnerMayStep
    /\ run = "failing"
    /\ run' \in {"ending", "exit"}
    /\ UNCHANGED <<reqVars, chanVars, ctl, carry, batch, task, status, histVars>>

CancelFails ==
    /\ MayFail
    /\ RunnerMayStep
    /\ run = "cancelling"
    /\ run' = "exit"
    /\ UNCHANGED <<reqVars, chanVars, ctl, carry, batch, task, status, histVars>>

-----------------------------------------------------------------------------
Request(r) ==
    Join(r) \/ CronSignal(r) \/ Send(r) \/ AwaitRoom(r) \/ SendFails(r) \/ Signal(r)

Answers == IF MayFail THEN {"Working", "Completed", "Failed"} ELSE {"Working", "Completed"}

Runner ==
    \/ Reset \/ Drain
    \/ StopTask \/ CancelSaved
    \/ AbandonBatch \/ Attach
    \/ TurnInterrupted \/ (\E st \in Answers : TurnAnswers(st)) \/ Settled
    \/ TurnIdle \/ Rest \/ Complete \/ CompleteSaved
    \/ WaitReceives \/ WaitTimesOut
    \/ DrainAndClose \/ CloseAndRescue \/ Exit

Failure == Fail \/ FailureSaved \/ CancelFails

Next == (\E r \in Requests : Request(r)) \/ Runner \/ Failure

Spec == Init /\ [][Next]_vars

\* The executor runs every task that can run.  A turn is assumed to end, and
\* whether a request joins is its own affair.
Fairness ==
    /\ WF_vars(Runner)
    /\ WF_vars(FailureSaved)
    /\ \A r \in Requests :
          /\ SF_vars(Send(r))
          /\ WF_vars(SendFails(r) \/ Signal(r) \/ AwaitRoom(r))

FairSpec == Spec /\ Fairness

-----------------------------------------------------------------------------
(***************************************************************************)
(* Properties.                                                             *)
(***************************************************************************)

\* The types of the variables.
TypeOK ==
    /\ command \in [Requests -> Commands]
    /\ req \in [Requests -> RequestSteps]
    /\ queue \in Seq(Messages) /\ Len(queue) <= Cap
    /\ closed \in BOOLEAN
    /\ ctl \in BOOLEAN
    /\ run \in RunnerSteps
    /\ carry \in Seq(Messages)
    /\ batch \in Seq(Messages)
    /\ task \in Seq(Messages)
    /\ status \in {"Working", "Idle", "Completed", "Cancelled", "Failed"}
    /\ accepted \in Seq(Messages)
    /\ fate \in [Messages -> Fates]

PositionOf(m) == CHOOSE i \in 1..Len(accepted) : accepted[i] = m

\* A control command the channel took after it took m, or one of a cron hook
\* that has already raised the signal and waits for room.
LaterControl(m) ==
    \/ \E i \in 1..Len(accepted) : i > PositionOf(m) /\ IsControl(accepted[i])
    \/ \E r \in Requests : command[r] = "cron_cancel" /\ req[r] \in {"sending", "send_now"}

\* "A stop discards earlier work, but messages sent after it belong to the next
\* task and must survive the batch boundary" (spawn_session_runner): no message
\* is thrown away by an interruption unless a control command follows it.
StopSparesLaterMessages ==
    \A m \in Messages : fate[m] = "dropped" => LaterControl(m)

\* A session that simply completes loses nothing: whatever was accepted, even
\* between the last drain and the closing of the channel, is worked on.
CompletionLosesNothing ==
    \A m \in Messages : fate[m] = "lost" => status \in {"Cancelled", "Failed"}

\* Without any control command and without a failure every message of a session
\* that has ended was worked on.
QuietSessionHandlesAll ==
    run = "gone" /\ status # "Failed" /\ (\A r \in Requests : ~IsControl(r)) =>
        \A m \in Messages : fate[m] \in {"none", "handled"}

\* Both: the shutdown of a session (close, then drain once more) and the order in which
\* batches are put together leave no message behind.
NothingIsLost == CompletionLosesNothing /\ QuietSessionHandlesAll

\* An acknowledged /stop or /cancel that has not been looked at yet holds the
\* signal up while the runner prepares or runs a turn: otherwise the command
\* would wait for the end of the work it is meant to interrupt.  (A cron hook
\* signals before it sends and has no such guarantee.)
ControlIsHeard ==
    run \in {"prepare", "turn"} =>
        \A r \in Elems(queue) : CommandOf(r) \in {"stop", "cancel"} /\ req[r] = "ok" => ctl

\* No batch becomes work once a control command sent after it is acknowledged.
NoWorkPastAStop ==
    [][run = "prepare" /\ run' = "turn" =>
         \A m \in Elems(batch) : \A r \in Requests :
            ~(command[r] \in {"stop", "cancel"} /\ req[r] = "ok" /\ r \in Elems(accepted)
              /\ PositionOf(r) > PositionOf(m))]_vars

\* The channel, the leftovers, the batch and the completion runner form one
\* line in the order of acceptance.
Line == INSTANCE Inbox WITH
          line <- task \o batch \o carry \o queue,
          over <- run = "gone"
MailboxIsOneLine == Line!Spec

\* Every accepted message is eventually worked on, thrown away or lost with the
\* session: none stays in a buffer forever.
AcceptedIsResolved ==
    \A m \in Messages : fate[m] = "waiting" ~> fate[m] \in {"handled", "dropped", "lost"}

\* A request that found the session learns whether its message was taken: it
\* never hangs on a full or an abandoned channel.
JoinReturns ==
    \A r \in Requests : req[r] \in {"sending", "send_now"} ~> req[r] \in {"ok", "rejected"}

\* Both: neither side of the channel waits for the other forever, whether the runner
\* goes on, ends or fails.
SendsAreResolved == AcceptedIsResolved /\ JoinReturns
=============================================================================
