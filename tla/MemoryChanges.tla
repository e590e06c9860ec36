---------------------------- MODULE MemoryChanges ----------------------------
(***************************************************************************)
(* Changes of a memory that its owner previews and confirms                *)
(* (brain/mutation.rs).  A change is prepared, and then discarded or       *)
(* committed; what was admitted is kept in the journal before the Brain    *)
(* hears of it, and a task of the daemon brings it to an end after lost    *)
(* answers and crashes.                                                    *)
(*                                                                         *)
(* A correction is a native change of the Brain: prepared, committed, and  *)
(* perhaps reconciled later.  A deletion is prepared natively for its      *)
(* preview only, and is carried out by the Memory Interface (forget); a    *)
(* misrecording has no native part and goes through it as well (revise).   *)
(* The interface replays its answer when the key of an operation comes     *)
(* again.  All changes here are of one record and one owner, and the       *)
(* digest a commit names is the right one; digests, callers and what a     *)
(* preview shows are left out.                                             *)
(***************************************************************************)
EXTENDS Naturals, FiniteSets

CONSTANTS Corrections, Deletions, Repairs,  \* the operations, by the kind of their change
          MaxChanges,   \* bound on the operations the owner prepares
          MaxAdmitted,  \* commits at work at once (8 in the code)
          MaxFaults,    \* bound on failing calls, dropped requests and refusals
          MaxCrashes    \* bound on the ends of the daemon

ASSUME ChangeAssumption ==
    /\ Corrections \cap Deletions = {} /\ Corrections \cap Repairs = {}
    /\ Deletions \cap Repairs = {}
    /\ MaxChanges \in Nat
    /\ MaxAdmitted \in Nat \ {0}
    /\ MaxFaults \in Nat
    /\ MaxCrashes \in Nat

Natives == Corrections \cup Deletions
Ops == Natives \cup Repairs

VARIABLES
    rec,      \* the journal: operation -> StoredChange
    receipt,  \* the Brain: the native change of an operation
    done,     \* the Brain: what the Memory Interface has of an operation
    moved,    \* previews the record no longer looks like
    expired,  \* previews past expires_at
    gone,     \* the sources of the record are erased
    admitted, \* MutationService.admitted, each with its task
    job,      \* the call or task that holds MemoryAccess.gate
    changed,  \* Journal.changed
    pending,  \* JournalPoll.pending
    scanned,  \* JournalPoll.scanned
    poll,     \* recover(): the keys of this round, and the one it is at
    serve,    \* run(): up, closing, down
    faults,   \* bound: how much has failed
    crashes,  \* bound: how often the daemon has ended
    consent,  \* history: operations the owner has committed
    released  \* history: operations discard() has released in the Brain

brainVars == <<receipt, done, moved, expired, gone>>
pollVars == <<pending, scanned, poll>>
history == <<consent, released>>
vars == <<rec, brainVars, admitted, job, changed, pollVars, serve, faults, crashes, history>>

States == {"none", "prepared", "committing", "reconciling", "confirmed", "discarded", "failed",
           "blocked"}
NoRow == [state |-> "none", text |-> FALSE, error |-> FALSE]
NoJob == [kind |-> "none", at |-> "none", op |-> "none", row |-> NoRow, seen |-> "none",
          by |-> "none"]
NoPoll == [at |-> "idle", todo |-> {}, op |-> "none", state |-> "none", refresh |-> FALSE]

Init ==
    /\ rec = [o \in Ops |-> NoRow]
    /\ receipt = [o \in Ops |-> "none"] /\ done = [o \in Ops |-> "none"]
    /\ moved = {} /\ expired = {} /\ gone = FALSE
    /\ admitted = {} /\ job = NoJob
    /\ changed = {} /\ pending = {} /\ scanned = FALSE /\ poll = NoPoll
    /\ serve = "up"
    /\ faults = 0 /\ crashes = 0
    /\ consent = {} /\ released = {}

Fault == faults < MaxFaults /\ faults' = faults + 1

\* Journal::write, Journal::create
Write(o, row) ==
    /\ rec' = [rec EXCEPT ![o] = row]
    /\ changed' = changed \cup {o}

\* confirmed_and_clean
Clean(o, row) == row.state = "confirmed" /\ ~row.error /\ (o \in Deletions => ~row.text)

\* Mutant of Settled: the preview of a deletion is kept.
SettledWithText(o, row) == IF row.state = "confirmed" THEN [row EXCEPT !.error = FALSE] ELSE row

\* settle_confirmed, for a row that may be confirmed
Settled(o, row) ==
    IF row.state # "confirmed" THEN row
    ELSE [row EXCEPT !.error = FALSE, !.text = row.text /\ o \notin Deletions]

-----------------------------------------------------------------------------
(***************************************************************************)
(* The Brain.                                                              *)
(***************************************************************************)
Applied(o) == receipt[o] = "confirmed" \/ done[o] = "done"
Available == \A o \in Ops : receipt[o] # "reconciling"

\* What is yet to be carried out, as the record looked.
Previews == {o \in Ops : receipt[o] = "prepared" \/ rec[o].state \in {"prepared", "committing"}}

\* What a change that takes effect does to the record the others have a preview of.
TakesEffect(o) ==
    /\ moved' = moved \cup (Previews \ {o})
    /\ gone' = (gone \/ o \in Deletions)

\* The Brain ends what it has taken.
Process(o) ==
    /\ \/ /\ receipt[o] = "reconciling"
          /\ receipt' = [receipt EXCEPT ![o] = "confirmed"]
          /\ TakesEffect(o)
          /\ UNCHANGED <<done, faults>>
       \/ /\ done[o] = "recorded"
          /\ done' = [done EXCEPT ![o] = "done"]
          /\ TakesEffect(o)
          /\ UNCHANGED <<receipt, faults>>
       \/ /\ done[o] = "recorded"
          /\ done' = [done EXCEPT ![o] = "failed"]
          /\ Fault
          /\ UNCHANGED <<receipt, moved, gone>>
    /\ UNCHANGED <<rec, expired, admitted, job, changed, pollVars, serve, crashes, history>>

\* Formation, or another client of the Brain, changes the record or erases its sources.
RecordChanges ==
    /\ Fault
    /\ \/ moved' = moved \cup Previews /\ UNCHANGED gone
       \/ ~gone /\ gone' = TRUE /\ UNCHANGED moved
    /\ UNCHANGED <<rec, receipt, done, expired, admitted, job, changed, pollVars, serve,
                   crashes, history>>

Expire(o) ==
    /\ o \notin expired /\ rec[o].state = "prepared"
    /\ expired' = expired \cup {o}
    /\ UNCHANGED <<rec, receipt, done, moved, gone, admitted, job, changed, pollVars, serve,
                   faults, crashes, history>>

-----------------------------------------------------------------------------
(***************************************************************************)
(* prepare() and discard(): calls of the owner, under the gate.  A request *)
(* whose client hangs up is dropped where it waits.                        *)
(***************************************************************************)
Opened == {o \in Ops : rec[o].state # "none" \/ receipt[o] # "none" \/ job.op = o}

\* A misrecording is previewed as the record looked before the gate was taken.
Prepare(o) ==
    /\ Cardinality(Opened \cup {o}) <= MaxChanges
    /\ job = NoJob /\ serve # "down" /\ rec[o].state = "none" /\ ~gone
    /\ \/ /\ o \in Natives /\ receipt[o] \in {"none", "prepared"}
          /\ receipt' = [receipt EXCEPT ![o] = "prepared"]
          /\ job' = [NoJob EXCEPT !.kind = "prepare", !.op = o, !.at = "check", !.by = "owner"]
          /\ UNCHANGED <<moved, faults>>
       \/ /\ o \in Repairs
          /\ job' = [NoJob EXCEPT !.kind = "prepare", !.op = o, !.at = "create", !.by = "owner"]
          /\ \/ UNCHANGED <<moved, faults>>
             \/ moved' = moved \cup {o} /\ Fault
          /\ UNCHANGED receipt
    /\ UNCHANGED <<rec, done, expired, gone, admitted, changed, pollVars, serve, crashes, history>>

\* validate_sources, and the native preview is released again when it fails.
PrepareChecks ==
    /\ job.kind = "prepare" /\ job.at = "check"
    /\ \/ ~gone /\ job' = [job EXCEPT !.at = "create"] /\ UNCHANGED receipt
       \/ gone /\ job' = NoJob /\ receipt' = [receipt EXCEPT ![job.op] = "discarded"]
    /\ UNCHANGED <<rec, done, moved, expired, gone, admitted, changed, pollVars, serve,
                   faults, crashes, history>>

Prepared == [state |-> "prepared", text |-> TRUE, error |-> FALSE]
PrepareCreates ==
    /\ job.kind = "prepare" /\ job.at = "create"
    /\ Write(job.op, Prepared)
    /\ job' = NoJob
    /\ UNCHANGED <<brainVars, admitted, pollVars, serve, faults, crashes, history>>

\* discard, by the owner or for recover_one
BeginDiscard(o, by) ==
    /\ job = NoJob
    /\ rec[o].state \in {"none", "prepared"}
    /\ o \in Repairs => rec[o].state = "prepared"
    /\ o \in Natives => receipt[o] \in {"prepared", "discarded"}
    /\ job' = IF o \in Natives /\ rec[o].state = "none"
              THEN NoJob
              ELSE [NoJob EXCEPT !.kind = "discard", !.op = o, !.at = "write", !.row = rec[o],
                                 !.by = by]
    /\ IF o \in Natives
       THEN receipt' = [receipt EXCEPT ![o] = "discarded"] /\ released' = released \cup {o}
       ELSE UNCHANGED <<receipt, released>>

Discard(o) ==
    /\ serve # "down"
    /\ BeginDiscard(o, "owner")
    /\ UNCHANGED <<rec, done, moved, expired, gone, admitted, changed, pollVars, serve,
                   faults, crashes, consent>>

\* The poll goes on with the answer.
Answered(o, refresh) ==
    poll' = IF poll.at = "wait" /\ poll.op = o
            THEN [poll EXCEPT !.at = "finish", !.refresh = refresh]
            ELSE poll

DiscardWrites ==
    /\ job.kind = "discard"
    /\ Write(job.op, [job.row EXCEPT !.state = "discarded", !.text = FALSE])
    /\ job' = NoJob
    /\ IF job.by = "poll" THEN Answered(job.op, FALSE) ELSE UNCHANGED poll
    /\ UNCHANGED <<brainVars, admitted, pending, scanned, serve, faults, crashes, history>>

\* A request is dropped, or what it calls fails.  The store may have created the row
\* of a request that is dropped before it marks the key as changed.
CallEnds ==
    /\ job.kind \in {"prepare", "discard"}
    /\ Fault
    /\ job' = NoJob
    /\ rec' \in {rec} \cup IF job.at = "create" THEN {[rec EXCEPT ![job.op] = Prepared]} ELSE {}
    /\ IF job.by = "poll" THEN Answered(job.op, TRUE) ELSE UNCHANGED poll
    /\ UNCHANGED <<brainVars, admitted, changed, pending, scanned, serve, crashes, history>>

-----------------------------------------------------------------------------
(***************************************************************************)
(* commit(): the operation is admitted, and a task of its own does the     *)
(* work under the gate.                                                    *)
(***************************************************************************)
\* Mutant of MayAdmit: the closing flag is looked at before the lock.
MayAdmitLate(o) == o \notin admitted /\ Cardinality(admitted) < MaxAdmitted

MayAdmit(o) ==
    /\ serve = "up"
    /\ o \notin admitted
    /\ Cardinality(admitted) < MaxAdmitted

\* The owner's call.  Its reading may be older than the admission, but nothing depends on
\* it then: what does not have to be admitted is answered at once.
Commit(o) ==
    /\ rec[o].state # "none" /\ MayAdmit(o)
    /\ admitted' = admitted \cup {o}
    /\ consent' = consent \cup {o}
    /\ UNCHANGED <<rec, brainVars, job, changed, pollVars, serve, faults, crashes, released>>

\* The task ends, with the state it answers or an error.
TaskEnds(o, state) ==
    /\ admitted' = admitted \ {o}
    /\ job' = NoJob
    /\ Answered(o, state \in {"committing", "reconciling", "error"})

\* Mutant of RowOf: commit_inner goes by what commit has read.
RowReadBefore(o) == IF rec[o].state = "discarded" THEN Prepared ELSE rec[o]

RowOf(o) == rec[o]

\* commit_inner: the record is read again under the gate.
Start(o) ==
    /\ o \in admitted /\ job = NoJob
    /\ LET row == RowOf(o) IN
          IF Clean(o, row) \/ row.state \in {"failed", "blocked", "discarded"}
          THEN TaskEnds(o, IF row.state = "discarded" THEN "error" ELSE row.state)
          ELSE /\ job' = [NoJob EXCEPT !.kind = "commit", !.op = o, !.at = "check", !.row = row,
                                       !.seen = receipt[o], !.by = "task"]
               /\ UNCHANGED <<admitted, poll>>
    /\ UNCHANGED <<rec, brainVars, changed, pending, scanned, serve, faults, crashes, history>>

\* validate_sources, for a change the Brain has not admitted.
SourcesMissing == job.op \in Natives /\ job.seen = "prepared" /\ Available /\ gone

\* commit_repair and validate_erasure: the preview of a change not yet admitted.
PreviewFails ==
    /\ job.row.state = "prepared" /\ job.op \in Deletions \cup Repairs
    /\ \/ job.op \in expired \cup moved
       \/ job.op \in Deletions /\ (job.seen # "prepared" \/ gone)

\* Mutant of NextAfterCheck: the native preview of a deletion is released first.
ReleaseFirst == IF job.op \in Deletions THEN "release" ELSE "mark"

\* A deletion is admitted in the journal before its native preview is released.
NextAfterCheck ==
    IF job.op \in Deletions /\ job.row.state # "prepared" THEN "release" ELSE "mark"

CommitChecks ==
    /\ job.kind = "commit" /\ job.at = "check"
    /\ IF SourcesMissing \/ PreviewFails
       THEN TaskEnds(job.op, "error")
       ELSE job' = [job EXCEPT !.at = NextAfterCheck] /\ UNCHANGED <<admitted, poll>>
    /\ UNCHANGED <<rec, brainVars, changed, pending, scanned, serve, faults, crashes, history>>

\* A deletion is marked once more after its preview is released.
CommitMarks ==
    /\ job.kind = "commit" /\ job.at = "mark"
    /\ Write(job.op, [job.row EXCEPT !.state = "committing"])
    /\ job' = [job EXCEPT !.row.state = "committing",
                          !.at = IF job.op \in Deletions /\ job.seen = "prepared"
                                 THEN "release" ELSE "act"]
    /\ UNCHANGED <<brainVars, admitted, pollVars, serve, faults, crashes, history>>

CommitReleases ==
    /\ job.kind = "commit" /\ job.at = "release"
    /\ receipt' = [receipt EXCEPT ![job.op] = "discarded"]
    /\ job' = [job EXCEPT !.at = "mark", !.seen = "discarded"]
    /\ UNCHANGED <<rec, done, moved, expired, gone, admitted, changed, pollVars, serve,
                   faults, crashes, history>>

\* product_commit and its error, if it has one; the row is made of the receipt.
NativeRow(state, failed) ==
    Settled(job.op, [job.row EXCEPT !.state = state, !.error = failed])

\* The Brain refuses what is not as the preview shows it.
Refused == receipt[job.op] = "discarded" \/ job.op \in expired \cup moved \/ ~Available

\* The receipt product_commit leaves.
Committed(state) ==
    IF receipt[job.op] = "prepared" /\ ~Refused
    THEN state \in {"prepared", "reconciling", "confirmed"}
    ELSE state = receipt[job.op]

CommitNative ==
    /\ job.kind = "commit" /\ job.at = "act" /\ job.op \in Corrections
    /\ \E failed \in BOOLEAN, state \in {"prepared", "reconciling", "confirmed", "discarded"} :
          /\ Committed(state)
          /\ state \in {"prepared", "discarded"} => failed
          /\ job' = [job EXCEPT !.at = "save", !.row = NativeRow(state, failed)]
          /\ receipt' = [receipt EXCEPT ![job.op] = state]
          /\ IF state = "confirmed" /\ receipt[job.op] # "confirmed"
             THEN TakesEffect(job.op) ELSE UNCHANGED <<moved, gone>>
          /\ IF failed /\ ~(Refused /\ state \in {"prepared", "discarded"})
             THEN Fault ELSE UNCHANGED faults
    /\ UNCHANGED <<rec, done, expired, admitted, changed, pollVars, serve, crashes, history>>

\* The state of a row by what the Memory Interface answers.
StateOf(phase) ==
    CASE phase = "recorded" -> "committing"
      [] phase = "done" -> "confirmed"
      [] phase = "held" -> "blocked"
      [] phase \in {"failed", "refused"} -> "failed"

\* commit_repair, commit_erasure: a key that was heard before has its answer again.
CommitMemory ==
    /\ job.kind = "commit" /\ job.at = "act" /\ job.op \notin Corrections
    /\ \E phase \in {"recorded", "done", "failed", "held", "refused"} :
          /\ done[job.op] # "none" => phase = done[job.op]
          /\ phase = "held" => job.op \in Deletions
          /\ done' = [done EXCEPT ![job.op] = phase]
          /\ job' = [job EXCEPT !.at = "save",
                                !.row = Settled(job.op, [job.row EXCEPT
                                          !.state = StateOf(phase),
                                          !.error = phase \in {"failed", "held", "refused"}])]
          /\ IF phase = "done" /\ done[job.op] = "none"
             THEN TakesEffect(job.op) ELSE UNCHANGED <<moved, gone>>
          /\ IF phase \in {"failed", "held", "refused"} /\ done[job.op] = "none"
             THEN Fault ELSE UNCHANGED faults
    /\ UNCHANGED <<rec, receipt, expired, admitted, changed, pollVars, serve, crashes, history>>

CommitSaves ==
    /\ job.kind = "commit" /\ job.at = "save"
    /\ Write(job.op, job.row)
    /\ TaskEnds(job.op, IF job.row.state = "prepared" THEN "error" ELSE job.row.state)
    /\ UNCHANGED <<brainVars, pending, scanned, serve, faults, crashes, history>>

\* A call to the store or the Brain fails, before it had an effect or with its answer
\* lost.
CommitFails ==
    /\ job.kind = "commit"
    /\ Fault
    /\ TaskEnds(job.op, "error")
    /\ UNCHANGED <<rec, brainVars, changed, pending, scanned, serve, crashes, history>>

-----------------------------------------------------------------------------
(***************************************************************************)
(* recover(), run() and the end of the daemon.                             *)
(***************************************************************************)
\* JournalPoll::keys
PollBegins ==
    /\ serve = "up" /\ poll.at = "idle"
    /\ pending' = pending \cup changed
                    \cup IF scanned THEN {} ELSE {o \in Ops : rec[o].state # "none"}
    /\ scanned' = TRUE /\ changed' = {}
    /\ poll' = [NoPoll EXCEPT !.at = "next", !.todo = pending']
    /\ UNCHANGED <<rec, brainVars, admitted, job, serve, faults, crashes, history>>

Unfinished(o) ==
    \/ rec[o].state \in {"committing", "reconciling"}
    \/ rec[o].state = "confirmed" /\ ~Clean(o, rec[o])

\* recover_one reads a record: it is to be committed, or a preview that has expired, or
\* has nothing to be done now.
PollReads(o) ==
    /\ poll.at = "next" /\ o \in poll.todo
    /\ poll' = [poll EXCEPT !.op = o, !.todo = @ \ {o},
                            !.state = IF Unfinished(o) THEN rec[o].state ELSE "none",
                            !.at = IF Unfinished(o) THEN "admit"
                                   ELSE IF rec[o].state = "prepared" /\ o \in expired
                                   THEN "discard" ELSE "finish",
                            !.refresh = rec[o].state = "prepared"]
    /\ UNCHANGED <<rec, brainVars, admitted, job, changed, pending, scanned, serve, faults,
                   crashes, history>>

\* commit, called by recover_one.
PollAdmits ==
    /\ poll.at = "admit"
    /\ IF MayAdmit(poll.op)
       THEN /\ admitted' = admitted \cup {poll.op}
            /\ poll' = [poll EXCEPT !.at = "wait", !.state = "none"]
       ELSE /\ poll' = [poll EXCEPT !.at = "finish", !.state = "none",
                                    !.refresh = \/ poll.op \notin admitted
                                                \/ poll.state \in {"committing", "reconciling"}]
            /\ UNCHANGED admitted
    /\ UNCHANGED <<rec, brainVars, job, changed, pending, scanned, serve, faults, crashes,
                   history>>

\* discard, called by recover_one: it may find that the preview is none any more.
PollDiscards ==
    /\ poll.at = "discard" /\ job = NoJob
    /\ IF rec[poll.op].state = "prepared"
       THEN BeginDiscard(poll.op, "poll") /\ poll' = [poll EXCEPT !.at = "wait"]
       ELSE /\ poll' = [poll EXCEPT !.at = "finish", !.refresh = rec[poll.op].state # "discarded"]
            /\ UNCHANGED <<job, receipt, released>>
    /\ UNCHANGED <<rec, done, moved, expired, gone, admitted, changed, pending, scanned,
                   serve, faults, crashes, consent>>

\* Mutant of PollFinishes: a key is done with, whatever came of it.
PollFinishesAll ==
    /\ poll.at = "finish"
    /\ pending' = pending \ {poll.op}
    /\ poll' = [poll EXCEPT !.at = "next", !.op = "none", !.state = "none", !.refresh = FALSE]
    /\ UNCHANGED <<rec, brainVars, admitted, job, changed, scanned, serve, faults, crashes,
                   history>>

\* JournalPoll::finish
PollFinishes ==
    /\ poll.at = "finish"
    /\ pending' = IF poll.refresh THEN pending ELSE pending \ {poll.op}
    /\ poll' = [poll EXCEPT !.at = "next", !.op = "none", !.state = "none", !.refresh = FALSE]
    /\ UNCHANGED <<rec, brainVars, admitted, job, changed, scanned, serve, faults, crashes,
                   history>>

PollSleeps ==
    /\ poll.at = "next" /\ poll.todo = {}
    /\ poll' = NoPoll
    /\ UNCHANGED <<rec, brainVars, admitted, job, changed, pending, scanned, serve, faults,
                   crashes, history>>

\* run() is cancelled: the recovery is dropped where it waits, the tasks go on.
Cancel ==
    /\ serve = "up" /\ crashes < MaxCrashes
    /\ serve' = "closing"
    /\ poll' = NoPoll
    /\ job' = IF job.by = "poll" THEN NoJob ELSE job
    /\ UNCHANGED <<rec, brainVars, admitted, changed, pending, scanned, faults, crashes, history>>

\* tasks.wait()
Close ==
    /\ serve = "closing" /\ admitted = {}
    /\ serve' = "down"
    /\ UNCHANGED <<rec, brainVars, admitted, job, changed, pollVars, faults, crashes, history>>

\* The daemon ends or crashes, and starts again.
Restart ==
    /\ crashes < MaxCrashes /\ crashes' = crashes + 1
    /\ admitted' = {} /\ job' = NoJob
    /\ changed' = {} /\ pending' = {} /\ scanned' = FALSE /\ poll' = NoPoll
    /\ serve' = "up"
    /\ UNCHANGED <<rec, brainVars, faults, history>>

-----------------------------------------------------------------------------
TaskStep ==
    CommitChecks \/ CommitMarks \/ CommitReleases \/ CommitNative \/ CommitMemory \/ CommitSaves
CallStep == PrepareChecks \/ PrepareCreates \/ DiscardWrites
PollStep ==
    \/ PollBegins \/ (\E o \in Ops : PollReads(o)) \/ PollAdmits \/ PollDiscards
    \/ PollFinishes \/ PollSleeps

Next ==
    \/ \E o \in Ops : \/ Process(o) \/ Expire(o) \/ Prepare(o) \/ Discard(o)
                      \/ Commit(o) \/ Start(o)
    \/ RecordChanges \/ CallStep \/ CallEnds
    \/ TaskStep \/ CommitFails
    \/ PollStep
    \/ Cancel \/ Close \/ Restart

Spec == Init /\ [][Next]_vars

\* Calls and tasks go on, the gate is handed on in turn, the Brain ends what it has
\* taken, the recovery comes round, and a daemon that was shut down is started again.
FairSpec ==
    /\ Spec
    /\ WF_vars(CallStep) /\ WF_vars(TaskStep) /\ WF_vars(PollStep)
    /\ \A o \in Ops : SF_vars(Start(o)) /\ WF_vars(Process(o))
    /\ SF_vars(PollDiscards)
    /\ WF_vars(Close) /\ WF_vars(serve = "down" /\ Restart)

-----------------------------------------------------------------------------
(***************************************************************************)
(* Properties.                                                             *)
(***************************************************************************)
\* The journal, the Brain and whoever works on a change.
TypeOK ==
    /\ rec \in [Ops -> [state : States, text : BOOLEAN, error : BOOLEAN]]
    /\ receipt \in [Ops -> {"none", "prepared", "discarded", "reconciling", "confirmed"}]
    /\ done \in [Ops -> {"none", "recorded", "done", "failed", "held", "refused"}]
    /\ moved \subseteq Ops /\ expired \subseteq Ops /\ gone \in BOOLEAN
    /\ admitted \subseteq Ops
    /\ changed \subseteq Ops /\ pending \subseteq Ops /\ scanned \in BOOLEAN
    /\ job.kind \in {"none", "prepare", "discard", "commit"} /\ job.op \in Ops \cup {"none"}
    /\ job.kind = "commit" => job.op \in admitted
    /\ poll.at \in {"idle", "next", "admit", "wait", "discard", "finish"}
    /\ poll.todo \subseteq Ops /\ poll.op \in Ops \cup {"none"}
    /\ serve \in {"up", "closing", "down"}

\* The Brain has been asked to carry out the change.
Begun(o) == receipt[o] \in {"reconciling", "confirmed"} \/ done[o] # "none"

BegunIsSaved(o) ==
    Begun(o) =>
        /\ o \in consent
        /\ rec[o].state \in {"committing", "reconciling", "confirmed", "failed", "blocked"}
ReleaseIsSaved(o) ==
    o \in Deletions /\ rec[o].state = "prepared" /\ receipt[o] = "discarded" => o \in released

\* Whatever a commit does in the Brain is the owner's will and is known to the journal
\* before it happens, so that a crash finds it again: the change itself, and the release of
\* a deletion's native preview ("Persist admission before releasing the native preview:
\* recovery must distinguish this from an owner's discard", commit_inner).
SavedBeforeBegun == \A o \in Ops : BegunIsSaved(o) /\ ReleaseIsSaved(o)

\* What was discarded is over: no task that was admitted before, no recovery and no crash
\* takes it up again or carries it out (discard, commit_inner).
DiscardStands ==
    [][\A o \in Ops : rec[o].state = "discarded" =>
          rec'[o].state = "discarded" /\ ~Begun(o)']_vars

\* A change that is called confirmed has taken effect, and a confirmed deletion keeps
\* nothing of what it deleted (settle_confirmed), however often answers were lost.
ConfirmedIsDone ==
    \A o \in Ops : rec[o].state = "confirmed" =>
        Applied(o) /\ (o \in Deletions => ~rec[o].text)

\* When the service has closed, no native change is under way any more and none begins.
ClosedIsQuiet == serve = "down" => admitted = {} /\ job.kind # "commit"

\* An admitted change comes to an end, unless its sources vanish before the Brain has
\* admitted it.
AdmittedSettles ==
    \A o \in Ops :
        rec[o].state \in {"committing", "reconciling"}
          ~> \/ rec[o].state \notin {"committing", "reconciling"}
             \/ gone /\ receipt[o] = "prepared"
=============================================================================
