# Anda Bot: a TLA+ development

This directory models the concurrent core of Anda Bot, the daemon under
`anda_bot/`, and the part of the desktop application that updates it: how
requests reach sessions, how tools ask the user, how events and the clock start
work, how what was said reaches the memory, and how all of it is drained for an
update. It holds
TLA+ modules, TLC configurations that check them on small instances, and TLAPS
proofs. Paths below are relative to the repository; where no directory is given
they are below `anda_bot/src/`.

Each `*.tla` without a prefix models one part of the program. `MC*.tla` and
`MC*.cfg` give its constants values for TLC, and `*Proofs.tla` holds theorems.
`PROJECT.json` maps every definition to the lines it models and lists the runs,
the hazards and the findings. Ten more configurations are not runs of the
project: nine counterexamples kept beside them (section 4.2), and the session on
one thread (4.1).

```
tlc -workers 2 -config MCSessionTableWindows.cfg MCSessionTable
tlapm DrainProofs.tla
```

## 1. The system

Anda Bot is a long-running daemon (tokio, several worker threads, `main.rs`).
Clients (desktop, CLI, browser extension, chat channels, scheduled jobs, MCP
events) hand it prompts. A prompt joins the live *session* of its source or
creates one; the session is a task that runs model turns and tools, saves the
conversation, and submits what was said to the *Brain*, the long-term memory
service. Everything is stored in AndaDB collections that become durable when
they are flushed.

### 1.1 Components

| Component | Code | State | Operations | What makes it correct |
|---|---|---|---|---|
| Maintenance lease | `runtime_admission.rs` | the lease (token, deadline), the number of permits | enter, enter_existing, begin, renew, release, status, drop of a permit | exact count; one owner; no new work under a lease; reopens by itself |
| Session mailbox and runner | `engine/agent/runner.rs`, `session.rs`, `join_session` in `agent.rs` | bounded channel, control signal, leftovers of a batch, work of the completion runner, conversation status | join, /stop, /cancel, batches, turns, idle waiting, shutdown with rescue | messages are handled in order; a stop discards what came before it and nothing else; nothing accepted is lost by a completion; senders return |
| Session routing | `engine/agent.rs` (`run`, `find_joinable_session`, `create_session`) | source state, conversations, table of live sessions, creation lock | arrive, look up, join, /new, build the prompt, create, retry after a rejected send | one runner per conversation; /new is a boundary; requests return |
| Update drain | `engine.rs`, `update_ready` in `agent.rs`, `desktop/src/main/update-machine.ts`, `updater.ts`, `daemon-client.ts` | lease, coordinator's progress, samples taken | begin, renew, shutdown, release, lapse, crash | shut down only when admitted work is over; the update concludes |
| Cron scheduler | `cron/store.rs`, `runtime.rs`, `types.rs` | jobs, runs, ids in flight, what was flushed | insert, update, pause, resume, remove, poll, claim, finish, join, shut down, crash | one run per job; pause holds; edits survive the end of a run; a one-time job runs once; due jobs get their turn |
| Cron execution and tools | `cron/execution.rs`, `tools.rs` | receipts of runs in sessions | record, finish, fail, cancel | a run ends when the session has done its work |
| Goal, plan, idle hooks, side agents | `engine/goal.rs`, `plan.rs`, `idle.rs`, `side.rs` | goal and its verdicts, turn plan, idle tracker | supervise, wait for the user, fire hooks | a goal is pursued or dropped for a reason; hooks fire once per idle period |
| Startup, memory policy, instructions | `engine/agent/*.rs` | prompts, interrupted conversations | assemble, resume | interrupted work is resumed once |
| Action approvals | `engine/action.rs`, `engine/action/` | pending cards with deadlines | ask, answer, time out, cancel | every card is settled exactly once |
| MCP event triggers | `engine/mcp/events/` | triggers, event inbox, cursors, runs, budgets | subscribe, receive, claim, finish, pause, reconcile, prune | no event is lost, none is consumed twice; pauses and budgets hold |
| MCP client | `engine/mcp/` | connections, gate, OAuth tokens, configuration | connect, call, reload, elicit | a call sees the configuration it was approved for |
| Brain service | `brain.rs`, `brain/` | journal, prepared changes, formation queue | form, recall, maintain, prepare, commit, discard, recover | journal and memory agree after a crash; nothing is changed that the owner did not confirm |
| Attention outbox | `brain/outbox.rs` | answers saved before they are sent | save, send, remove | an answer is sent at least once, with its original text |
| Channels | `channel/` | connections, delivery attempts | receive, deliver, retry | no part is replayed after one was delivered |
| Browser bridge | `engine/browser*.rs` | sessions, outstanding requests | call, answer, disconnect | an answer reaches its request |
| Conversation and resource stores, skills, multimodal, system tools | `engine/*.rs` | AndaDB collections, files | CRUD | |
| Gateway, daemon, self update | `gateway/`, `daemon.rs`, `auto_update.rs` | processes, binaries | serve, spawn, replace | |
| ChatGPT plans, identity, speech, configuration, CLI, TUI | the rest of `src/` | credentials, settings | | |
| Desktop, extension, website | `desktop/`, `chrome-extension/`, `website/`, `docsite/` | clients | | |

### 1.2 Interactions

- Every entry point takes a *permit* from the maintenance lease and keeps it
  until its request returns. A session outlives the permits of the requests that
  fed it; a formation that is posted to the Brain holds one of its own.
- A request reaches a session through the table of live sessions and the
  session's channel; /stop and /cancel also raise a *control signal* that
  interrupts what the runner awaits.
- The runner removes itself from the table as its last act; the table also
  forgets sessions whose channel is closed.
- The scheduler runs a job by sending a prompt through the same entry point and
  waits for a receipt the session fills in.
- The desktop takes the lease, polls `update_ready`, and asks for the shutdown.
- Tools put cards into the conversation through a bounded channel that the
  session's runner empties, and wait for whoever takes the pending action out of
  a table shared with the gateway.
- Subscriptions deliver events into the store from tasks of their own; a
  supervisor that ticks starts one run per trigger, which goes through the same
  entry point as a scheduled job.
- The runner submits what a session has saved to the Brain through a journal; a
  task of the daemon follows the journal's rows and keeps the activity index.
- The owner's changes of a memory (`brain/mutation.rs`) take one gate with each
  other and with the recovery; the same journal tells the recovery what changed.

### 1.3 What is hard

Tasks run in parallel between awaits, so a signal can be raised after the
command it belongs to has been served; locks are released for slow calls and
the world is looked at again; a channel closes while senders hold it; samples of
a moving system are combined into one answer; a due list is read before the
claims it leads to, and a run ends with a copy of a job that has been edited
since; a crash loses what was not flushed; an owner goes away with the lease;
five parties may settle the same card; an event is stored in one write and its
position in another, and the store may fail between the two; a window is taken by
the Brain before the journal knows, and one with nothing to form leaves no trace
but the moved offset; a deletion releases its preview in the same way as an owner
who discards it.
`PROJECT.json` lists these hazards with their lines and the properties that
watch them, or the reason why none does yet.

## 2. The modules

| Module | Models | Abstract specification |
|---|---|---|
| `Admission` | the maintenance lease | `LeasedLock`: a lock with tokens that are never used twice |
| `SessionMailbox` | one session and the requests that join it | `Inbox`: one line of messages, handled from the front, discarded behind a control |
| `SessionTable` | requests of one caller on one source, and their sessions | |
| `UpdateDrain` | an update of a daemon at work | |
| `CronScheduler` | the scheduled jobs | |
| `EventTriggers` | one MCP event trigger with its subscriptions, its inbox and its runs | |
| `ActionApprovals` | the tools of one turn that ask the user, and those who may answer | |
| `FormationJournal` | what a session says on its way into the Brain, and the index of it | |
| `MemoryChanges` | changes of a memory that the owner previews, confirms or discards | |

`UpdateDrain` composes what the others model one by one: it has the gate of
`Admission` as a flag and a count (which `DrainProofs` shows to be exact),
the table and the idle flags of the sessions, and the Brain as a busy flag.

### 2.1 Admission

`lease` and `active` are the two fields of `Inner`; each method holds the mutex
for its whole body and is one action. A deadline is the time left until it, so
the clock needs no bound; `Tick` passes a unit. `Expire` is `Admission::expire`,
called by the same methods as in the code: a lease that is over stays in the
field until somebody looks. `token` is what an owner remembers, which may be
stale. `Crash` takes an owner away with its token.

### 2.2 SessionMailbox

A message is the request that sent it. `req` is where a request is in
`join_session`, `run` where the runner is in its loop, one value per stretch
between two awaits that matters. `queue` is the tokio channel, `carry` is
`pending_inputs`, `batch` the inputs of the current call of `SessionRunner::run`
and `task` what was attached to the completion runner. `ctl` is the control
signal. `fate` and `accepted` are history: what became of each message, and the
order in which the channel took them.

With `Parallel = FALSE` a task is left alone from one await to the next, as on
the current-thread executor of the repository's tests; with `Parallel = TRUE`
requests and runner interleave at every step, as on the daemon's threads. The
contents of a turn are abstracted: it answers, ends, fails, or is interrupted.
`MayFail` lets storage, attachments, the model and the save of a cancel fail.

### 2.3 SessionTable

`req[r].pc` walks through `AndaBot::run`: the lookup under the creation lock,
the join outside it, the building of the prompt with the lock released, the
second look, and the creation with the lock held (`LockFree`). What a request
read at arrival (the conversation its source points to, and whether it can be
continued) is kept in its record and may be stale when it is used, as in the
code. A session is registered under the thread id of its conversation; a
successor takes the same name, which is why removals by name can hit the wrong
one.

`Windows` names the gaps between two awaits that an instance allows: a join that
waits for room, an input that slips in behind the last drain, and a runner
preempted between closing its channel and leaving the table. The code has all
three, and both runs allow them; taken one at a time they show which gap a
counterexample needs.

### 2.4 UpdateDrain

A prompt's work moves from its permit into a session's channel, to the runner,
from there to the Brain, and `Active`, `FlagsUp`, `ChannelsEmpty` and `brain` are
what the daemon can see of it. `Sample` takes one sample of `update_ready` per step;
`Session::is_idle` looks at the flag and then at the channel, so that the five calls
are seven samples.

`sess[k]` is what handler, requests and runner share: whether the channel is
`closed`, `finish_when_idle`, `runner_idle` (`idle`), the `signal`, what is in the
channel (`queue`), what the runner took out of it (`hand`) and what the completion
runner has (`work`). The runner's loop is one action per stretch between two points
at which the others can tell the difference: `Drain`; `Run` or `RunStop`, which
lower the flag; `Attach`, which raises or lowers it; `Interrupted`, which leaves it,
or `Returned`, which lowers it; `Settle`, `Form`, `IdleTick`, `Wake`. The end is
three steps as in the code: `LastDrain`, `Close`, `Rescue`, and `Leave` behind them;
an input rescued behind the closed channel sends the runner back to `Drain`, while
`Listed` (`live_sessions`) leaves the session out. `unseen` is history: the batch was
taken out of the channel while the flag was still up, which is when neither sample of
`is_idle` shows it. Turns that fail, /cancel, goals and background tasks are left out.

The coordinator follows `installRuntimeUpdate`: begin, up to
`1 + Retries` renewals, shutdown or release. The lease may lapse at any time
outside the handler (a request is given up after 15 s, the lease lasts 90 s).
What both modules have has another name here (`DrainSpec`, `standing` for the
lease, `RenewLease`), so that `DrainProofs` can extend both.

### 2.5 CronScheduler

Management, `claim_job` and `job_finish` hold the store's `mutations` lock from
the first read to the last write and are single steps; the due list is read
without it (`Poll`) and used later (`Claim`). `running` is `running_ids`,
released when a task is joined. `disk` is what was last flushed; a crash keeps,
for each job, either that or the present value. `now` is in seconds, the unit of
`next_run`: a one-time schedule is taken to lie on a whole second, and a cron
expression recurs like an interval. `held`, `touched` and `claims` are history.

### 2.6 EventTriggers

`trigger` is the stored row, `stored` the inbox, `runs` the history of runs that
the retry budget is counted from; these three survive a crash. `sub` are the
provider's subscriptions: the live one, and one cancelled in the middle of a
delivery, which finishes its write all the same because `Current` is asked only
once, at its beginning. A delivery is three steps (`Record`, `Move`, `Schedule`:
the event, the position, the schedule), and an error in any of them makes the
provider deliver the event again (`DeliveryFails`; `RecordFails` when the row is
stored and the overflow is not all told and dropped). An event's row is "none",
"pending", "handled" or "pruned"; a pruned one is gone, and a delivery stores it anew.
The supervisor lists the triggers (`List`),
reconciles one with the row *as it was listed*, and enters what it subscribed
in a step of its own (`Insert`). A run (`RunTakes` to `RunLooksAgain`) reads a
batch, hands it to the agent, consumes it if the agent succeeds, prunes the handled
rows past their limit, and looks whether more waits; a run over the retry budget
pauses the trigger in two steps (`RunPauses`, `Unhook`). Every access to the store
may fail, with what the code makes of it: the rows on boot (`LoadPendingFails`), the
reads of a run (`RunRefused`), the end of its row (`RunUnsaved`), the rows of its
batch and their pruning (`ConsumeFails`), the second look (`RunLooksFails`), the
pause (`PauseFails`). The owner's operations (`Change`, `Enable`, `Disable`,
`Delete`) are split where `manage.rs` stops the live subscription after it has
written the row. `dropped`, `attempts` and `overlooked` are history, and so is the
field `from` of a cursor and of a subscription: the position at which the chain of
subscriptions began that led there, each starting behind the position of the one
before. Between `from` and the cursor no event may be missing (`DeliveredIsKept`).

### 2.7 ActionApprovals

`pending` is `ActionRuntime.pending`, `chan` the bounded channel of events,
`conv` what the conversation shows of a card, `answer` the oneshot of its tool.
A tool walks from the mode it decides by (`Decide`) through the judgement of the
risk (`Classify`), the table (`Insert`), the channel (`Publish`) and the second
look at the mode (`Check`) to its wait. Whoever settles cards has a `job`: it
takes them out of the table in one step and then, card by card, sends the event
(`Settle`) and releases the tool (`Release`), as `PendingAction::resolve` does.
`Settling` keeps the order of the cards open. The runner drives the tools and
applies events (`Apply`); a stop drops the tools where they are (`Interrupt`),
with the resolutions they had not sent; `AbandonGuard` closes the card of a tool
that is dropped, if the channel has room. The kinds of tools are those whose
waits differ; what a card shows is left out.

### 2.8 FormationJournal

`mark` is the session's offset, `rows` the journal, `brain` what the Brain was
given by key and attempt, with the phase of its receipt. A submission (`sub`)
holds the lock of its row from `Create` to its end and walks through
`observe_formation`: `Create`, or `Again` and `SaveRow` for a window that was
submitted before; `Stage`; `Observe`; `ReadReceipt`. A message may be a card
(`cards`: an action message, or one of which pruning leaves nothing), and a window of
cards is not submitted: `PassOver` moves the offset and writes no row. `Content` is
what of a window is formed, `Bound` what the Brain compares when a key comes again.
`Known` is the early return
for a row the Brain has. Errors end it anywhere (`BrainFails`, `JournalFails`).
`Returns` moves the offset. `Leave` is compaction and the end of a session, whose
submission is made once. The reconciliation is `Poll`, `Read`, `Refresh`,
`Finish`. A crash loses the offset, the poll's memory and what the index had not
flushed; the session's next life starts at the first message again, so that
everything rests on the rows and on what the Brain replays. The time a window
claims to be observed at is part of its bytes and hence in the model; two values
of the clock suffice to tell a retry from the first try. Steps with nothing
observable between them are one action (the receipt and the row that records
it; the lock and the refresh of a row).

### 2.9 MemoryChanges

`rec` is the journal's `StoredChange` of each operation: its state, whether it
still carries text, and whether an error. `receipt` is the native change in the
Brain, `done` what the Memory Interface answers under the key of the operation;
both are external and survive every crash. The gate is `job`: whoever holds it,
at which of its awaits, and the row it has read. `prepare` and `discard` are
calls of the owner and may be dropped at any await (`CallEnds`). A commit is
admitted first (`Commit`, `PollAdmits`); its task reads the row again under the
gate (`Start`), checks (`CommitChecks`), writes "committing" (`CommitMarks`),
releases a deletion's native preview (`CommitReleases`), asks the Brain
(`CommitNative`, `CommitMemory`) and saves what it heard (`CommitSaves`). An
error or a lost answer ends it anywhere (`CommitFails`); that the effect of a
lost answer is not lost comes from `Process` and from calls that were taken
before. The recovery (`PollBegins` to `PollSleeps`) goes over the keys of
`JournalPoll` and calls the same two functions. `Cancel`, `Close` and `Restart`
are the shutdown and a death at any step. All operations are of one record, so
one that takes effect spoils the previews of the others (`moved`). The kinds
differ as in the code: a correction is committed natively, a deletion has a
native preview and is carried out by `forget`, a misrecording has no native part.
`consent` and `released` are history.

## 3. The runs

| Run | Question | Bounds |
|---|---|---|
| `admission` | Is the count exact, is the gate a `LeasedLock` (which only its holder or the clock ends), does it reopen when its owners have crashed? | 3 workers, 2 owners, leases of 2 ticks, 3 leases |
| `mailbox_parallel` | On several threads: is the mailbox one line (`Inbox`), is nothing lost by a completion or left in a quiet session, is every control heard, is no work started past a stop, is everything accepted resolved and does every sender return? | 2 requests of any command besides the one that opened the session, capacity 1, failures |
| `mailbox_late_signal` | the finding (section 4.1) | 3 requests |
| `table_windows` | With all gaps: at most one joinable session; nothing sent after a /new reaches what it left | 3 requests, 3 sessions, 4 commands |
| `table_live` | With all gaps: every request returns and what was accepted is served | 3 requests, 3 sessions, messages and controls |
| `drain` | Is the daemon shut down only when no prompt is on its way and the live session of the table has no work (but for a batch taken unseen), and does the update conclude? | 3 requests of any kind, 2 sessions, 1 repetition |
| `cron` | One run per job, one-time jobs once, conversations of the right origin, pauses and edits respected | 2 jobs, 2 origins, 3 schedules, 2 slots, clock to 2, 2 runs, 2 edits, 1 restart |
| `cron_live` | Every run finished; due jobs claimed | 2 jobs, 1 slot |
| `events` | Is no delivered event lost, or consumed twice before its row is pruned, does the retry budget hold over crashes, is a run due for what waits, is no subscription orphaned? | 3 streams of one event, one of which waits from the start, queue 2, batch 1, 1 handled row kept, 2 failures, 1 edit, 1 fault (a crash, or a failure of the store or the server) |
| `actions` | Do card and tool agree on how it ended, does the card close before the model hears of it, is no card left open, do approvals follow the mode, does every wait end? | 2 tools (a policy approval, and another or an MCP server's input), 4 cards, channel of 1, 1 change of mode |
| `formation` | Is nothing skipped, is nothing formed twice over retries and crashes but for the stated reasons, does memory catch up? | 2 messages (cards or not), 2 conversations, 1 refusal, 1 crash |
| `changes` | Does nothing happen in the Brain without the owner and the journal, does a discard stand, is what is confirmed done, is a closed service quiet, is what was admitted brought to an end? | one change of any kind, 2 failures, 2 ends of the daemon |

### 3.1 Why the bounds are enough

*Admission*: two owners and three leases let one owner lose its lease, the other
take over and the first return with its stale token; a third worker adds the
mix of both kinds of permit. *Mailbox*: three requests put a control command
between two messages; capacity 1 blocks a sender behind an accepted message.
`MailboxIsOneLine` was also explored with a fourth message and capacity 2 (196 000
states), where a batch holds a control with something on either side. *Table*:
two requests race for a creation and a third arrives after both; no request
creates more than one session. *Drain*: a prompt in each place work can be (permit,
channel, runner) while a stop passes the gate, and leave one for the moment between
a last drain and the close (886,290 states). *Cron*: two jobs compete for the slots,
a run can be edited over twice while it executes, and one crash
can lose a finish. *Events*: streams of their own let a position
of one be met by an event of the other after the key was changed; beside the
event that waits, one delivery fills the queue and the next overflows it; a batch of one leaves
something for the second look of every run, two runs make more handled rows than
are kept, and what was pruned is delivered again; the fault falls into any step of a
delivery or a run (5,069,907 states). Longer streams and more faults are
left to the proofs, which bound neither. *Actions*: with room for one event
every second sender waits, and two tools of different kinds share it; all four
kinds for the second tool were explored for safety (2.2 million states). A turn
is one turn: the table starts empty with each. *Formation*: two messages let a
window grow between two submissions, or a card be passed over in front of a message;
a child conversation lets one be left
behind, and the one refusal (of the Brain, the store, the owner who excludes the
source, or the formation itself) falls anywhere before or after the one crash
(871,668 states). *Changes*: the owner, the task
of a commit and the recovery race for one change; that the record changes beneath
it is one of the failures. Two failures and two ends of the daemon let a deletion
lose the answer of the release and then that of `forget`. Two changes that compete
for the one place and the gate and spoil each other's preview were explored for
safety (a correction and a misrecording, 2.1 million states).

Every property has a deliberate fault of the model
(`PROJECT.json`, "mutants") that these bounds are large enough to expose.

Symmetry over requests, workers, owners, jobs and origins is used for safety
runs only. `CHECK_DEADLOCK FALSE` stands where the system may rightly stop (all
requests answered and all sessions over; the daemon shut down; the clock at its
bound).

### 3.2 Fairness

- `Admission`: time passes (`Tick`). No method is assumed to be called.
- `SessionMailbox`: the runner's task is scheduled whenever it can run, a turn
  ends, a sender whose channel has room or is closed goes on. tokio's channel
  serves waiting senders in order, which gives a sender that waits for room strong
  fairness. Whether a request joins at all is not assumed.
- `SessionTable`: each request goes on until it is answered, and sessions serve
  and end. The creation lock is a tokio mutex with a fair queue, hence strong
  fairness for looking at the table.
- `UpdateDrain`: only the coordinator's own steps (`Desk`). That an update
  *succeeds* is neither assumed nor claimed.
- `CronScheduler`: time passes, the scheduler's loop and its tasks are
  scheduled, runs end. A claim is strongly fair because the maintenance lease may
  end a round of claims early (`ClaimsEnd`), though not always: leases expire.
  `Join` is strongly fair because the loop's `select!` polls joins before the
  interval.
- `EventTriggers`: none; its run is about safety.
- `ActionApprovals`: the executor polls the tools and the jobs, and the runner
  applies events and looks at the signal while it drives the tools. No user is
  assumed to answer: what ends a wait is its timeout, which every
  `PendingActionKind` has.
- `FormationJournal`: the runner's idle loop submits what is due once the backoff
  is over, the daemon's task reconciles every 5 s, the Brain works on what it has
  taken. `Submit` is strongly fair because a backoff may come between, `Refresh`
  because a submission may hold the row's lock (a fair tokio mutex). That faults
  and crashes are bounded is an assumption of the liveness property: an endpoint
  that always fails forms nothing.
- `MemoryChanges`: calls, tasks and the recovery go on, the Brain ends what it has
  taken, a daemon that was shut down is started again. `Start` and `PollDiscards`
  are strongly fair because the gate is a tokio mutex that others take in between.
  `AdmittedSettles` is checked for one change at a time: with two, the check of
  liveness takes longer than a run should.

## 4. What the checks show

Everything in the passing runs holds. Where the code departs from what its own
comments and documents say, there is a counterexample.

### 4.1 The finding

*A stop can discard messages sent after it* (`mailbox_late_signal`, property
`StopSparesLaterMessages`). `join_session` raises the control signal after it
has sent the command. On several threads the runner can serve the command and
lower the signal first; the late signal then interrupts the next batch.
`runner.rs:164` promises the opposite. On one thread, where the tests run, it
holds (`MCSessionMailboxOneThread.cfg`, not a run).

### 4.2 Counterexamples kept beside the runs

Each of these configurations makes TLC print a trace in which the code, as
modelled, breaks the property. They are smaller than the runs and take seconds.

| Configuration | Property | What the trace shows |
|---|---|---|
| `MCSessionTableNew.cfg` | `NewStartsAfresh` | A bare /new over a live session does not complete the conversation it leaves (`engine/agent.rs:1246`); the next message continues it. `engine/prompt.rs:59`: "Starts a new conversation, completing the current one if it exists". |
| `MCSessionTableTwoRunners.cfg` | `OneRunnerPerConversation`, `OpenSessionsAreListed` | A join whose send is rejected removes whatever session has the name by then (`engine/agent.rs:817`): the next request creates a second one for the same conversation while the first goes on. Each of the three windows alone breaks both properties: with `slip_in` a runner that rescued an input works on behind its closed channel (`runner.rs:217-226`), with `late_leave` one that ends takes its successor's name out (`runner.rs:249`). |
| `MCUpdateDrainDetached.cfg` | `ExistingWorkDrains` | After /new a session finishes outside the table that `has_busy_sessions` reads (`engine/agent.rs:536`), and the update cuts its work; with `Kinds = {"plain"}` the same befalls a session that serves an input rescued behind its closed channel, which `live_sessions` leaves out (`engine/agent.rs:459`). `runtime_admission.rs:1`: "Existing work drains". |
| `MCCronSchedulerPaused.cfg` | `RescheduleKeepsPaused` | A one-time job that ran under an earlier schedule counts as completed when it is paused, and rescheduling makes it due (`cron/types.rs:460`). `cron/types.rs:458`: "Rescheduling keeps a paused job paused". |
| `MCEventTriggersEmptyRead.cfg` | `NoneForgotten` | A run reads an empty inbox, an event is stored and scheduled, the run clears `pending_since` (`engine/mcp/events/runtime.rs:840-845`): the event waits for the next one or for a restart. `runtime.rs:7-10`: "Events of a trigger are collected for its batch window and handed to one unattended agent run". |
| `MCEventTriggersResume.cfg` | `ResumeClearsEnd` | A tick that listed the trigger as blocked writes that state back after the owner resumed it (`runtime.rs:292`). `manage.rs:292`: "Turning it on also clears what paused or ended it". |
| `MCActionApprovalsPublish.cfg` | `ResolvedBeforeResult` | The action is in the table before its card is sent (`engine/action.rs:576-593`): settled in between, its resolution is dropped and the card comes up open behind the result. `action.rs:771`: "The event goes first so the card is resolved before the tool result reaches the model". |
| `MCFormationJournalTwoKeys.cfg` | `OneWindowEach` | A window of cards moves the offset and leaves no row (`engine/agent/runner.rs:722-728`). The next message is formed in a window of its own; after a crash the offset is 0 again, and one window that begins with the card forms the message under another key. |
| `MCFormationJournalReForms.cfg` | `NeverReForms` | A lost receipt, or any error after the Brain has taken the window, is recorded as a rejection, and the retry forms it again under the next attempt. `brain/journal.rs:101`: "it moves on only after a definite rejection, so a retry replays, never re-forms". |

The passing properties say what holds beside each of these: `NothingForgotten`
excepts events whose schedule was lost on such a path or on one of the failures of
the store that the code skips (`overlooked`), `CardClosesFirst` excepts cards settled
before they were shown (`adrift`), `FormedOnce` excepts attempts that ended in an
error after which the Brain may have the window (`errored`) and windows that begin
with what was passed over before a crash (`PassedOver`), `AttachedWorkDrains`
excepts sessions outside the table or behind a closed channel and a batch that was
taken `unseen`. Of `SessionTable`, `OneJoinableSession` and `NewIsABoundary` hold with
all three gaps; one runner per conversation does not, and is no run.

### 4.3 Observations

The models also show these, as soon as the gap is allowed or the property is
added:

- What is accepted while a cancel is being saved (`runner.rs:848-853`, then 199)
  is lost with the session, although the comment at 212 says inputs are refused
  first. `NothingIsLost` therefore excepts cancelled sessions.
- `update_ready` looks twice at the sessions, and at the flag before the channel
  (`session.rs:289`). A runner that takes a batch out of the channel while its flag is
  still up (`runner.rs:160`, the flag falls at 826), before the first look at the
  channel, and is preempted there until the second look at the flag, is not seen at all:
  the shutdown cuts that batch. The Brain is asked once; a formation that is posted
  after that is in no sample and goes on there behind the shutdown.
- `runner.rs:1083` lowers the idle flag also when the turn returned nothing, so a
  waiting session looks busy for almost all of each second.
- Events: a delivery that began before the key was changed writes the position of
  the old key back (`manage.rs:223` clears it, `runtime.rs:1022` sets it); a
  subscription that starts from now while a cancelled one is still storing its
  event starts behind that event or those after it, and may overtake the position
  of the cancelled one (`DeliveredIsKept` therefore speaks of the chain of
  subscriptions that led to the position, not of all that was delivered); the
  first events of a subscription that starts from now are lost by a crash before
  a position is stored; a run that was in flight over an edit pauses the trigger
  with the failures of before it; `record_events` stores events of a trigger that
  was deleted meanwhile; a delivery that fails behind the first write of `Record`
  leaves the event without a run until something else is scheduled, and so does a
  store that fails on boot (`runtime.rs:194`, 198), at the second look of a run (909)
  or at a pause (928-939), because the errors are skipped (`overlooked`); a handled
  event whose row was pruned past the limit is stored and run again when its server
  delivers it again (`store.rs:551-561`).
- Actions: a message that joins with another mode changes the mode without
  `recheck_approvals` (`join_session`; `ApprovalsFollowTheMode` excepts it); a
  full channel makes `AbandonGuard` leave its card open; a stop that drops a tool
  while it settles others' cards loses those resolutions.
- Formation: compaction and the end of a session submit their last window once
  (`runner.rs:588-590`); if that falls into a backoff, fails, or the daemon dies
  in it, the window stays unformed (`LeftBehindIsFormed`, in the module; compare
  the comment at `runner.rs:786`). A window that grew after an interrupted
  submission is a new submission by design (`journal.rs:365`), and forms its
  first messages twice.
- Changes: a native change that was admitted and whose sources vanish before the
  Brain has admitted it fails the check at `brain/mutation.rs:439` in every round,
  and `discard` refuses it because it is admitted: it stays "committing"
  (`AdmittedSettles` excepts it). A request for a preview that is dropped after the
  journal has created the row leaves a preview whose expiry the recovery notices
  only after a restart (`journal.rs:223`). A discard that is interrupted between
  the Brain and the journal leaves a preview whose commit ends as "discarded" with
  the previewed text still in the row, and a later discard returns early
  (`mutation.rs:325`) without clearing it.

## 5. The proofs

`CronProofs` proves, for any finite set of jobs, any origins and schedules, any
number of slots and any bounds, with crashes or without (assumption
`CronAssumption`; what it needs of the sentinel is that no schedule reaches it):

| Theorem | States |
|---|---|
| `CronTypeCorrect` | `Spec => []TypeOK` |
| `JobsRunOnce` | `Spec => []OneRunPerJob` |
| `SlotsCorrect` | `Spec => []SlotsAreKept` |
| `BookkeepingCorrect` | `Spec => []RunningIdsExact` |
| `PauseCorrect` | `Spec => PauseHolds` |
| `FinishCorrect` | `Spec => FinishRespectsEdits` |
| `ConversationCorrect` | `Spec => []ConversationOfItsOrigin` |
| `OneTimeCorrect` | `Spec => []OneTimeRunsOnce` |

The argument goes in layers, each an invariant of its own that uses the ones
before it:

- `Base`: the types, and `SlotsLeft`: the ids in flight and the due ids still to
  be claimed together fit the slots. Counting the tasks alone would not be
  inductive: the slots are only looked at when the due list is read.
- `Flight`: `running_ids` and the tasks match, one run for each id in flight; the
  due list names each job once and none in flight. Hence `claim_job` may leave
  `running_ids` unread.
- `HeldIsPaused`: a held job is paused in memory and in what was last flushed; the
  second half is what a crash needs.
- `OwnConversations`: the same for the conversation a job remembers.
- `TouchedIsLater`: a run was claimed for a time that had come; every edit that
  touches its job moves `next_run` beyond the present or to the sentinel. The time
  in the job then differs from the one the run was claimed for, and the comparison
  in `job_finish` notices the edit. It does not compare versions, so this rests on
  the clock not going back.
- `OnceEach`: a one-time job is due at its own time or never, in memory and in what
  was last flushed, and a crash brings the time back but not another one. Within one
  life of the daemon a job that was claimed is `Spent`: paused, put at the sentinel,
  or running, and neither the end of its run nor any edit makes the same time due
  again. Hence never more claims than one and the crashes.

`FormationProofs` proves, for any number of conversations, of messages, of
refusals and of crashes (assumption `FormationAssumption`):

| Theorem | States |
|---|---|
| `FormationTypeCorrect` | `Spec => []TypeOK` |
| `NoMessageSkipped` | `Spec => []NothingSkipped` |
| `WindowsFormOnce` | `Spec => []FormedOnce` |

Here too the argument goes in layers:

- `Base` says how the session, the journal and the Brain fit together, and is
  inductive only as a whole. A submission stands at the offset and has the lock of
  its row, so what it read of the row stays true until it writes it (`Submitting`,
  `Retrying`); a row ends where the saved messages ended when it was written
  (`RowsFit`); the Brain has no window the journal does not know, no attempt beyond
  the row's, and for the row's attempt the time the row has (`WindowsKnown`, the
  reason the row is saved before the Brain is asked); a row with a native
  conversation is a window the Brain has taken, of the same end (`NativeIsTaken`).
  `Refreshing`: the row the poll is about to refresh was native when it was read
  and still is, so the receipt it looks for is there.
- `NothingSkipped` then follows from two facts: the offset moves to the end of the
  row at the offset and only when that row is done (`MarkMoves`), and what is taken
  or suppressed stays so (`FormedStays`, which rests on `DoneStays`: a row that is
  done never changes its end).
- `Passed` says of a place in a conversation that everything before it was passed over
  or lies in a row that is done. Every row begins at such a place, and the offset is
  one (`InOrder`, `MarkInOrder`). Without a crash the rows follow each other and the
  offset is behind all of them. After a crash it starts again at 0 and moves from row to
  row, but where a window had been passed over there is no row: the window begins there
  then, and may reach over rows that are known. `InOrder` says that this is the only
  overlap: the outer row begins with a card, there was a crash, and it reaches to the
  end of the inner one. So two windows overlap under one key, or as `PassedOver` says.
- `Attempts`: of whatever was taken in an earlier attempt than the row's, there is more
  to form in the row (`Longer`), or its attempt ended in an error. For `Conflict` this needs the
  times in `WindowsKnown`: a window bound to other bytes in the row's own attempt
  has the row's time, so it differs in what is formed of it, and since a message does
  not become a card later (`CardsStep`) there is more in the row. A second conflict in one submission
  cannot happen, because no window is staged beyond the row's attempt.

`ActionProofs` proves, for any number of tools, cards, clients and changes of the
mode and any capacity of the channel (assumption `ApprovalAssumption`; the parties
that settle cards have different names):

| Theorem | States |
|---|---|
| `ApprovalsTypeCorrect` | `Spec => []TypeOK` |
| `OneAnswerPerCard` | `Spec => []CardAndToolAgree` |
| `CardsCloseFirst` | `Spec => []CardClosesFirst` |
| `NoCardStaysOpen` | `Spec => []OpenCardsSettle` |
| `ApprovalsAreOfTheMode` | `Spec => []ApprovalsFollowTheMode` |

The layers:

- `Base`: the types; tools act only while the runner drives them (`Driven`); a card
  is given out once and is in the table once (`CardsOnce`); a settlement has its
  cards from when it took them until it has released them (`JobsInStep`).
- `OneVerdict` gives the agreement. `Says` collects everything that carries how a
  card is settled: the channel, the conversation, the oneshot, the tool and the
  settlements under way. All that is said of a card is the same, and nothing is said
  of a card that is open: in the table, not given out yet, or with a tool whose time
  is over. The last is why the timeout needs no lock: `Timeout` takes its own action
  out of the table before it speaks.
- `ShownOnce` and `SentFirst` give the order. A card is shown by one event, which
  was sent while the tools ran. Whatever a tool was told had been sent before, and
  an event that was sent is in the channel, has closed the card, or met no card
  (`adrift`). When the runner has emptied the channel nothing is left in it, so the
  card is not open. The exception for `adrift` stays: a settlement that overtakes
  the card's own event does happen (`MCActionApprovalsPublish`).
- `SomebodySettles` gives `OpenCardsSettle`. It says more than the property: also a
  card that is only about to be shown has somebody who settles it, or was settled.
  Every step hands a card on (`TableHandsOn`, `SettlementHandsOn`, `ExpiryHandsOn`)
  or leaves a resolution behind.
- `OwnAction` and `LookedAt` give the mode: an approval of another mode has a tool
  that has yet to look at the mode, or a client about to take it out of the table.
  The order of `Insert` before `Check`, and of the change before its `recheck`,
  leaves no gap between the two.

`DrainProofs` proves, for any finite set of requests, any sessions and any number
of renewals (assumption `DrainAssumption`):

| Theorem | States |
|---|---|
| `DrainTypeCorrect` | `DrainSpec => []DrainTypeOK` |
| `AttachedWorkIsDrained` | `DrainSpec => []AttachedWorkDrains` |

The answer to the desktop is put together from samples of a world in motion. The
invariant says what each sample establishes and the later ones keep (`SamplesHold`).
The lease stands as long as the handler works on an answer (`LeaseStands`), so from the
moment no permit is alive no prompt comes in (`PastActive`). A channel seen empty then
gets no prompt any more, and only the session of the table was looked at: another one
cannot take its place without a prompt (`PastChannel`, `Clean`). Only now does the flag
say something: `Fits` ties it to the runner (up only while the completion runner has
nothing, with a batch in hand only in the moment before `run()` lowers it, which is a
batch taken unseen), so that a flag seen up at the second look means that what the
runner has was taken unseen (`PastFlag2`, `Covered`). The first look at the flags is of
no use to the argument, the first look at the channels and the second at the flags
are. What the theorem excepts happens: `MCUpdateDrainDetached` for sessions that are not
listed, section 4.3 for the batch.

`UpdateDrain` takes the gate for granted: while a lease stands no prompt is let in,
and the counter the handler reads is the permits alive. The last section of
`DrainProofs` proves this of `Admission` (the module extends both, whose names
differ), for any workers, any owners, any `LeaseTime > 0` and any `MaxTokens`
(assumption `AdmissionAssumption`; `Workers` is finite because the permits are
counted):

| Theorem | States |
|---|---|
| `GateTypeCorrect` | `Spec => []TypeOK` |
| `CounterCorrect` | `Spec => []ActiveCountsPermits` |
| `LeaseRefusesNewWork` | `Spec => NoNewWorkUnderLease` |
| `GateImplementsLock` | `Spec => GateIsLeasedLock` |

`TypeOK` is not inductive alone: that the counter stays a number needs that it counts
the holders, and the cardinality of a changed set of holders (`FiniteSetTheorems`) needs
the types (`GateFits`, both). The refinement needs in addition that a lease in force
carries a token that was handed out (`MintedInv`): without it the next token could
be one that is in force already.

`MemoryProofs` proves, for any corrections, deletions and misrecordings, any
number of commits at work and any bounds on faults and ends of the daemon
(assumption `ChangeAssumption`):

| Theorem | States |
|---|---|
| `MemoryTypeCorrect` | `Spec => []TypeOK` |
| `SavedBeforeBegunHolds` | `Spec => []SavedBeforeBegun` |
| `ConfirmedIsDoneHolds` | `Spec => []ConfirmedIsDone` |
| `ClosedIsQuietHolds` | `Spec => []ClosedIsQuiet` |
| `DiscardStandsHolds` | `Spec => DiscardStands` |

`SavedBeforeBegun` alone is not inductive: a task acts on a row it read several
awaits ago. The gate is what makes that safe. `GateFits` says, at each await of
its holder, how its copy of the row stands to the journal: while it asks
(`Asking`) the copy is the row, and before it calls the Brain the row is
"committing"; once it has heard (`Heard`) the row still is, and "confirmed" in
the copy means applied in the Brain, "prepared" or "discarded" that the Brain has
that receipt, so that nothing was begun. `ByKind` keeps the Brain's two ways
apart, and `ConsentFits` ties what is admitted to what the owner has committed.
The invariant has two parts: `Workers` for the gate, the tasks and the poll,
`Ledger` for the journal against the Brain. Four lemmas say what `Ledger` needs
of a step (`StoresAlone`, `RowWritten`, `ReceiptMoved`, `AnswerMoved`), and one
lemma per action shows its premises. The run `changes` has one operation at a
time; that several share the gate, the poll and the slots is what the proof adds.

`TableProofs` proves, for any finite set of requests, any commands, any number of
sessions and any of the gaps between two awaits (assumption `TableAssumption`):

| Theorem | States |
|---|---|
| `TableTypeCorrect` | `Spec => []TypeOK` |
| `OneJoinableHolds` | `Spec => []OneJoinableSession` |
| `NewIsABoundaryHolds` | `Spec => []NewIsABoundary` |

The creation lock carries the argument. `LockFits` says that one request at most
holds it, and that while it is held no session is live: the holder has looked, and
only the holder can list a session. `OneLive` gives the first property. `Listed`
ties the table to the sessions: each is listed under its own name, and one told to
finish is listed nowhere. So what was finishing when a request arrived stays out of
its reach (`BeforeFits`), which is the boundary a `/new` draws. Names are never
reused because each request and each session draws one at most (`NamesFit`, the
reason `Requests` is finite). All actions but the arrival of a request and
the creation of a session bring nothing to life (`NothingNew`), and lemmas
share what that gives (`RequestStep`, `RunnerStep`).
That a conversation has one runner, and that a running session is listed, do not
follow: `MCSessionTableTwoRunners` breaks both with any one of the three gaps.

`MailboxProofs` proves, for any requests, any capacity of the channel, one thread or
several, with failures or without (assumption `MailboxAssumption`):

| Theorem | States |
|---|---|
| `MailboxTypeCorrect` | `Spec => []TypeOK` |
| `NothingIsLostHolds` | `Spec => []NothingIsLost` |
| `ControlIsHeardHolds` | `Spec => []ControlIsHeard` |
| `NoWorkPastAStopHolds` | `Spec => NoWorkPastAStop` |
| `MailboxImplementsInbox` | `Spec => MailboxIsOneLine` |

A message waits in one of four buffers, and the code overwrites three of them
without looking. `BuffersFit` says which are empty, by where the runner is, so that
what is overwritten is empty; `EndFits` that a session that ends and was neither
cancelled nor has failed has nothing left, up to the rescue behind the close of the
channel; `BatchFits` that a batch holds one control command at most, its last. With
the types they make up `Base`. Over it stand, each inductive with `Base`:

- `FatesFit`: what nothing was decided about is in a buffer, and only a broken
  session loses anything when it ends. `QuietFits`: without a control command nothing
  is discarded. Together they give `NothingIsLost`.
- `ControlIsHeard` itself: the signal is put out only when the channel is drained, or
  where no turn runs.
- `AcceptedOnce`, and `InOrder`: leftovers and channel are in the order of acceptance,
  behind the control at hand. Hence `ControlsWait`: a control command accepted after a
  message that still waits is waiting too. `NoWorkPastAStop` follows from this and
  `ControlIsHeard`: such a command would be in the channel, and its signal up.

For the refinement, the steps that only shift messages from one buffer to the next
leave the line as it is (`ShiftsKeepTheLine`), the answer of a turn takes its front,
a stop or a failure throws a stretch away, and the exit is the only step after which
nothing joins.

`TriggerProofs` proves, for any keys, streams of any length, any limits, and any
number of edits, of crashes and of failing writes (assumption `TriggerAssumption`;
what it needs of the limits is that the history keeps as many runs as the budget
counts):

| Theorem | States |
|---|---|
| `TriggerTypeCorrect` | `Spec => []TypeOK` |
| `DeliveredIsKeptHolds` | `Spec => []DeliveredIsKept` |
| `ConsumedStaysHolds` | `Spec => ConsumedStays` |
| `RetryBudgetHeld` | `Spec => []RetryBudgetHolds` |
| `NothingForgottenHolds` | `Spec => []NothingForgotten` |
| `NoOrphanHolds` | `Spec => []NoOrphanSubscription` |

What makes these hard is that each actor acts on what it read earlier: a tick on the
row it listed, a delivery on the position it began at, a run on the row it recorded.
The invariants therefore speak of those copies:

- `Base`: the types; a delivery under way has an event of its stream in hand
  (`SubsFit`), and a tick that has subscribed finds nothing live (`TickFits`).
  `NoOrphanSubscription` is inductive with it: what cancels takes the table's entry,
  and the only subscription outside the table is the one a tick is about to enter.
- `NoGap`: behind the position of the row, behind the one a tick has listed and behind
  that of every subscription, cancelled ones included, nothing is missing since `from`.
  Whichever of them is written into the row later is good. A subscription counts its
  event as stored from `Record` on (`Stored`), before the position is moved. That a
  subscription never passes over an event without storing it needs
  `NoOrphanSubscription`: one that is open is current (`SinkKept`).
- `BudgetFits`: the runs that count are the last rows of the history and none of them
  succeeded, so what `failures_since` reads is no less than the count (`FailuresAre`),
  also after the oldest row was pruned (`WithRunIs`).
- `RowsWritten` collects what a run does to the inbox, a failing store included: rows of
  its batch become handled, and of the handled rows those past the limit may go
  (`PrunedIs` counts what stays; `RowStates` has "pruned" beside "handled", and for a
  delivery both no row and a pruned one are new). `ConsumedStays` and `NoGap` each need
  one lemma about it (`RowsWrittenKeep`, `StoreKeeps`).
- `RunFits`: `pending_since` stands from the dispatch of a run until it settles.
  `NoneUnseen`: a waiting event that is not excepted (`overlooked`) has somebody who
  will see it: the schedule, the start of the daemon, a run that is about to look, or
  the delivery that has just stored it. Each step hands this on (`SeenStill`), sets the
  schedule, or is one of the failures that leave it to `overlooked` (`Unread`).
  `NothingForgotten` follows, since at rest only the schedule is left.

The run `events` has streams of one event; that streams are longer and subscriptions
are replaced many times is what the proof adds. An earlier form of `DeliveredIsKept`,
which spoke of all events delivered, held within the bounds of the run and failed with
streams of four events (section 4.3).

`NoNewWorkUnderLease`, `RunningIdsExact`, `SlotsAreKept` and the type invariants of
the proved modules are proved for all constants and are in no run.

Left to TLC: everything about fairness (`ReopensAfterCrash`, `SendsAreResolved`,
`RequestsAreServed`, `UpdateConcludes`, `RunsAreFinished`, `DueIsClaimed`,
`WaitsEnd`, `MemoryCatchesUp`, `AdmittedSettles`), which the prover cannot treat.
Every invariant and every action property that a passing run checks is proved.

## 6. What is not modelled

- The contents of turns, prompts, tools and replies; `/side`, memory policies,
  attachments; the formatting of anything.
- Background tasks, the goal supervisor, plans, compaction's summary and cron
  receipts inside a session (planned).
- Failures of the store in the scheduler and in the routing beyond the ones named
  (`CreateFails`, `BuildFails`).
- Event triggers: webhooks and their relay, what a server's state says beyond
  blocking and ending, notices to the user, the slots shared by all triggers, the
  retry of server-side maintenance; the hourly limit is a pause that may come at any run;
  the order of events; clocks.
- Approvals: cards' contents, who may answer, the shell policy's verdicts, the
  ledger of remembered approvals, and more than one turn.
- The Brain: recall, the catalog, attention and the memory policy (a session that may
  not write moves its offset without a window); digests and callers of a change, and what its preview
  shows; `cleanup_pending`, a state only older versions left.
- The clients, channel adapters, MCP transport, identity, speech, configuration
  and self-update code: I/O against other programs, or sequential code without
  shared state.

## 7. Plan

In this order:

1. `SessionTurn`: background tasks, goal supervisor, compaction and cron receipts
   of one session. Properties: a receipt is filled when all work of its prompt is
   done, a goal is not lost, compaction keeps the source.
2. `ReplyDelivery` and `ChannelRoutes`: the retries of `channel/delivery.rs`, and
   the bindings of `channel/runtime.rs`, which four workers save whole outside the
   lock that changes them.
3. `AttentionOutbox`: `brain/outbox.rs`, whose removal by name may meet the answer
   of another terminal.
4. `IdleHooks`: the idle tracker over the samples `UpdateDrain` models.
5. Liveness of `EventTriggers`: what is stored is run, expires or is paused; an
   at-least-once inbox as its abstract specification.
6. Composition of `Admission`, `CronScheduler` and the session: a scheduled run
   under a lease, its receipt, and its cancellation at shutdown.
