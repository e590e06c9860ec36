--------------------------- MODULE FormationJournal ---------------------------
(***************************************************************************)
(* What is said in a session reaches the Brain (submit_pending_formation   *)
(* in engine/agent/runner.rs, brain/journal.rs, brain/activity.rs): the    *)
(* saved messages behind the session's offset are submitted as a window;   *)
(* the journal holds a row for each window, named by conversation and      *)
(* first message; the Brain observes it under a key that names the row's   *)
(* attempt, and replays its receipt when the key comes again with the same *)
(* bytes.  A task of the daemon refreshes the rows and keeps an index of   *)
(* them.                                                                   *)
(*                                                                         *)
(* The journal and the saved conversation survive a crash, the session's   *)
(* offset, what the index has not flushed and the poll's memory do not.    *)
(* A message may be one that is not formed, such as an action card: a      *)
(* window of such messages alone is passed over without a row.  The bytes  *)
(* of a window are the messages in it that are formed and the time it      *)
(* claims to be observed at; what the messages say, who may write to       *)
(* memory, and the receipts recall waits for are left out.                 *)
(***************************************************************************)
EXTENDS Naturals, Functions

CONSTANTS MaxConvs,    \* bound on the conversations of the session
          MaxSaved,    \* bound on the messages of the session
          MaxFaults,   \* bound on what the Brain or the store refuses
          MaxCrashes   \* bound on the crashes

ASSUME FormationAssumption ==
    /\ MaxConvs \in Nat \ {0}
    /\ MaxSaved \in Nat \ {0}
    /\ MaxFaults \in Nat
    /\ MaxCrashes \in Nat

VARIABLES
    conv,     \* the session's conversation
    saved,    \* conversation -> its saved messages
    cards,    \* the saved messages that are not formed
    mark,     \* Session.submit_formation_at
    backoff,  \* formation_backoff_until lies ahead
    time,     \* the clock: what one submission reads is not what the next one reads
    sub,      \* the submission under way, which holds the lock of its row
    rows,     \* Journal: key -> row
    brain,    \* what the Brain has been given, by key and attempt
    shut,     \* conversations whose source the Brain no longer admits
    changed,  \* Journal.changed
    pending,  \* JournalPoll.pending
    scanned,  \* JournalPoll.scanned
    rec,      \* the reconciliation: the keys of this round, and the one it is at
    index,    \* keys the activity index has with the Brain's conversation
    faults,   \* bound: how often something was refused
    crashes,  \* bound: how often the daemon has crashed
    errored   \* history: attempts that ended in an error, for all the Brain has done

session == <<conv, saved, cards, mark, backoff, time>>
poll == <<pending, scanned, rec, index>>
bounds == <<faults, crashes, errored>>
vars == <<session, sub, rows, brain, shut, changed, poll, bounds>>

Convs == 1..MaxConvs
Keys == Convs \X (0..MaxSaved - 1)
Times == {1, 2}
NoRow == [state |-> "none", end |-> 0, time |-> 0, attempt |-> 0, receipt |-> FALSE, native |-> FALSE]
NoSub == [pc |-> "idle", key |-> <<1, 0>>, row |-> NoRow, asked |-> 0, replaced |-> FALSE,
          next |-> "stay"]
NoRec == [pc |-> "idle", todo |-> {}, key |-> <<1, 0>>, row |-> NoRow]

Init ==
    /\ conv = 1 /\ saved = [c \in Convs |-> 0] /\ cards = {} /\ mark = 0 /\ backoff = FALSE /\ time = 1
    /\ sub = NoSub
    /\ rows = [k \in Keys |-> NoRow]
    /\ brain = {}
    /\ shut = {}
    /\ changed = {} /\ pending = {} /\ scanned = FALSE
    /\ rec = NoRec
    /\ index = {}
    /\ faults = 0 /\ crashes = 0 /\ errored = {}

-----------------------------------------------------------------------------
(***************************************************************************)
(* The Brain: a window is staged under its key, then observed; it is       *)
(* formed later.  A refused window has a receipt and no conversation.      *)
(***************************************************************************)
Staged(k, attempt) == {b \in brain : b.key = k /\ b.attempt = attempt}
Taken(b) == b.phase \in {"recorded", "processed", "failed"}

\* apply_progress: the phase of a receipt as the state of a row.
StateOf(phase) == CASE phase = "recorded" -> "accepted"
                    [] phase = "processed" -> "completed"
                    [] phase \in {"failed", "refused"} -> "failed"

Fault == faults < MaxFaults /\ faults' = faults + 1

\* The Brain works on what it has taken.
Process ==
    /\ \E b \in brain :
          /\ b.phase = "recorded"
          /\ \/ brain' = (brain \ {b}) \cup {[b EXCEPT !.phase = "processed"]} /\ UNCHANGED faults
             \/ brain' = (brain \ {b}) \cup {[b EXCEPT !.phase = "failed"]} /\ Fault
    /\ UNCHANGED <<session, sub, rows, shut, changed, poll, crashes, errored>>

\* The owner deletes the source of a conversation: the Brain refuses it from now on.
Exclude ==
    /\ conv \notin shut
    /\ Fault
    /\ shut' = shut \cup {conv}
    /\ UNCHANGED <<session, sub, rows, brain, changed, poll, crashes, errored>>

-----------------------------------------------------------------------------
(***************************************************************************)
(* The session.                                                            *)
(***************************************************************************)

\* A turn saves what was said.  The bound is on all conversations together, and so on
\* each, which the proofs use.
Said == FoldFunction(+, 0, saved)
Save ==
    /\ sub.pc = "idle"
    /\ saved[conv] < MaxSaved /\ Said < MaxSaved
    /\ saved' = [saved EXCEPT ![conv] = @ + 1]
    /\ cards' \in {cards, cards \cup {<<conv, saved[conv]>>}}
    /\ UNCHANGED <<conv, mark, backoff, time, sub, rows, brain, shut, changed, poll, bounds>>

BackoffEnds ==
    /\ backoff
    /\ backoff' = FALSE
    /\ UNCHANGED <<conv, saved, cards, mark, time, sub, rows, brain, shut, changed, poll, bounds>>

\* What is formed of the window at k that ends at end.
Content(k, end) == {m \in k[2]..end - 1 : <<k[1], m>> \notin cards}

Due == ~backoff /\ mark < saved[conv]
Empty == Content(<<conv, mark>>, saved[conv]) = {}

\* submit_pending_formation: the window behind the offset, and the lock of its row.
Begin(next) ==
    /\ Due /\ ~Empty
    /\ time' = 3 - time
    /\ sub' = [NoSub EXCEPT !.pc = "create", !.key = <<conv, mark>>, !.asked = time, !.next = next,
                            !.row = [NoRow EXCEPT !.state = "pending", !.end = saved[conv],
                                                  !.time = time]]
    /\ UNCHANGED <<conv, saved, cards, mark, backoff>>

\* With nothing to form in it, the offset passes over it and no row is written.
PassOver ==
    /\ Due /\ Empty
    /\ mark' = saved[conv]
    /\ UNCHANGED <<conv, saved, cards, backoff, time, sub>>

Submit ==
    /\ sub.pc = "idle" /\ (Begin("stay") \/ PassOver)
    /\ UNCHANGED <<rows, brain, shut, changed, poll, bounds>>

\* compact, and the end of a session: the conversation is saved as completed, and its
\* window is submitted once more, whatever comes of it.  The child, or the conversation
\* of the next session, begins at its first message.
Leave(next) ==
    /\ sub.pc = "idle" /\ conv < MaxConvs /\ saved[conv] > 0
    /\ \/ Begin(next)
       \/ /\ ~Due \/ Empty
          /\ conv' = conv + 1 /\ mark' = 0
          /\ backoff' = (backoff /\ next = "compact")
          /\ UNCHANGED <<saved, cards, time, sub>>
    /\ UNCHANGED <<rows, brain, shut, changed, poll, bounds>>

\* What submit_pending_formation does with the result: the offset moves to the end of
\* the window that the journal knows, or stays for the next try.
Returns(ok, end) ==
    /\ sub' = NoSub
    /\ IF sub.next = "stay"
       THEN /\ mark' = IF ok THEN end ELSE mark
            /\ backoff' = ~ok
            /\ UNCHANGED conv
       ELSE conv' = conv + 1 /\ mark' = 0 /\ backoff' = (~ok /\ sub.next = "compact")
    /\ UNCHANGED <<saved, cards, time>>

Fails == Returns(FALSE, 0)

-----------------------------------------------------------------------------
(***************************************************************************)
(* Journal::observe_formation.                                             *)
(***************************************************************************)
At(pc) == sub.pc = pc
Write(row) ==
    /\ rows' = [rows EXCEPT ![sub.key] = row]
    /\ changed' = changed \cup {sub.key}

\* A new window is created with the attempt about to be observed.
Create ==
    /\ At("create") /\ rows[sub.key] = NoRow
    /\ Write(sub.row)
    /\ sub' = [sub EXCEPT !.pc = "stage"]
    /\ UNCHANGED <<session, brain, shut, poll, bounds>>

\* Mutant of Again: the time of the retry takes the place of the one observed.
AgainNow ==
    /\ At("create")
    /\ LET old == rows[sub.key]
           rejected == old.state = "failed" \/ old.receipt
       IN  /\ old # NoRow /\ old.state # "suppressed" /\ ~old.native
           /\ sub' = [sub EXCEPT !.pc = "save",
                                 !.row.attempt = old.attempt + (IF rejected THEN 1 ELSE 0)]
    /\ UNCHANGED <<session, rows, brain, shut, changed, poll, bounds>>

\* A window that was submitted before: one that was rejected moves to the next
\* attempt, another repeats its attempt with the time it had.
Again ==
    /\ At("create")
    /\ LET old == rows[sub.key]
           rejected == old.state = "failed" \/ old.receipt
       IN  /\ old # NoRow /\ old.state # "suppressed" /\ ~old.native
           /\ sub' = [sub EXCEPT !.pc = "save",
                                 !.row.attempt = old.attempt + (IF rejected THEN 1 ELSE 0),
                                 !.row.time = IF rejected THEN @ ELSE old.time]
    /\ UNCHANGED <<session, rows, brain, shut, changed, poll, bounds>>

\* refresh_formation_unlocked: a row that is not settled takes over its receipt's
\* progress.
Settled(row) == row.state \in {"completed", "failed", "suppressed"}
Refreshed(k, row) ==
    IF Settled(row) THEN row
    ELSE LET b == CHOOSE b \in Staged(k, row.attempt) : TRUE
         IN  [row EXCEPT !.state = StateOf(b.phase), !.native = @ \/ Taken(b)]

\* Mutant of Known: the offset passes the window that was asked for.
KnownWhole ==
    /\ At("create")
    /\ LET old == rows[sub.key] IN
          /\ old.native \/ old.state = "suppressed"
          /\ Write(Refreshed(sub.key, old))
          /\ Returns(TRUE, sub.row.end)
    /\ UNCHANGED <<brain, shut, poll, bounds>>

\* A window the Brain has, or does not admit, is not submitted again: the result is
\* the row, which may be shorter than what was asked for.
Known ==
    /\ At("create")
    /\ LET old == rows[sub.key] IN
          /\ old.native \/ old.state = "suppressed"
          /\ Write(Refreshed(sub.key, old))
          /\ Returns(TRUE, old.end)
    /\ UNCHANGED <<brain, shut, poll, bounds>>

\* The row is saved before the Brain is asked.
SaveRow ==
    /\ At("save")
    /\ Write(sub.row)
    /\ sub' = [sub EXCEPT !.pc = "stage"]
    /\ UNCHANGED <<session, brain, shut, poll, bounds>>

\* stage_memory_source binds the key to the bytes.
Bound(b) == Content(b.key, b.end) = Content(sub.key, sub.row.end) /\ b.time = sub.row.time
Stage ==
    /\ At("stage") /\ sub.key[1] \notin shut
    /\ \A b \in Staged(sub.key, sub.row.attempt) : Bound(b)
    /\ brain' = IF Staged(sub.key, sub.row.attempt) # {} THEN brain
                ELSE brain \cup {[key |-> sub.key, attempt |-> sub.row.attempt, end |-> sub.row.end,
                                  time |-> sub.row.time, phase |-> "staged"]}
    /\ sub' = [sub EXCEPT !.pc = "observe"]
    /\ UNCHANGED <<session, rows, shut, changed, poll, bounds>>

\* The result goes into the row and to the runner.
Ends(row) ==
    /\ Write(row)
    /\ Returns(row.native \/ row.state = "suppressed", row.end)

\* The key was bound to other bytes, of an interrupted, shorter window: this one is a
\* new submission, once.
Conflict ==
    /\ At("stage") /\ sub.key[1] \notin shut
    /\ \E b \in Staged(sub.key, sub.row.attempt) : ~Bound(b)
    /\ IF sub.replaced
       THEN Ends([sub.row EXCEPT !.state = "failed"])
       ELSE /\ sub' = [sub EXCEPT !.pc = "save", !.replaced = TRUE, !.row.attempt = @ + 1,
                                  !.row.time = sub.asked]
            /\ UNCHANGED <<session, rows, changed>>
    /\ UNCHANGED <<brain, shut, poll, bounds>>

\* The source is not admitted.
Suppressed ==
    /\ At("stage") /\ sub.key[1] \in shut
    /\ Ends([sub.row EXCEPT !.state = "suppressed"])
    /\ UNCHANGED <<brain, shut, poll, bounds>>

\* The Brain takes the window, or refuses it with a receipt; a key it knows has its
\* receipt.
Observe ==
    /\ At("observe")
    /\ \E b \in Staged(sub.key, sub.row.attempt) :
          \/ b.phase # "staged" /\ UNCHANGED <<brain, faults>>
          \/ /\ b.phase = "staged"
             /\ \/ brain' = (brain \ {b}) \cup {[b EXCEPT !.phase = "recorded"]} /\ UNCHANGED faults
                \/ brain' = (brain \ {b}) \cup {[b EXCEPT !.phase = "refused"]} /\ Fault
    /\ sub' = [sub EXCEPT !.pc = "receipt"]
    /\ UNCHANGED <<session, rows, shut, changed, poll, crashes, errored>>

\* memory_receipt: the progress.
ReadReceipt ==
    /\ At("receipt")
    /\ \E b \in Staged(sub.key, sub.row.attempt) :
          Ends([sub.row EXCEPT !.receipt = TRUE, !.native = Taken(b), !.state = StateOf(b.phase)])
    /\ UNCHANGED <<brain, shut, poll, bounds>>

\* Staging, observing or reading the receipt fails: the submission counts as rejected.
BrainFails ==
    /\ At("stage") \/ At("observe") \/ At("receipt")
    /\ Fault
    /\ Ends([sub.row EXCEPT !.state = "failed"])
    /\ errored' = errored \cup {<<sub.key, sub.row.attempt>>}
    /\ UNCHANGED <<brain, shut, poll, crashes>>

\* The journal cannot be read or written, or what is known of a row not refreshed.
JournalFails ==
    /\ sub.pc # "idle"
    /\ Fault /\ Fails
    /\ UNCHANGED <<rows, brain, shut, changed, poll, crashes, errored>>

-----------------------------------------------------------------------------
(***************************************************************************)
(* ActivityStore::reconcile with its JournalPoll.                          *)
(***************************************************************************)
NeedsRefresh(row) == row.native /\ ~Settled(row)

\* keys: what has changed since, everything at the first time, what is left over.
Poll ==
    /\ rec.pc = "idle"
    /\ LET keys == pending \cup changed \cup {k \in Keys : ~scanned /\ rows[k] # NoRow} IN
          /\ keys # {} \/ ~scanned
          /\ pending' = keys
          /\ rec' = [rec EXCEPT !.pc = IF keys = {} THEN "idle" ELSE "next", !.todo = keys]
    /\ changed' = {}
    /\ scanned' = TRUE
    /\ UNCHANGED <<session, sub, rows, brain, shut, index, bounds>>

\* reconcile_one reads a row, which is refreshed if the Brain is at work on it.
Read ==
    /\ rec.pc = "next"
    /\ \E k \in rec.todo :
          rec' = [pc |-> IF NeedsRefresh(rows[k]) THEN "refresh" ELSE "index",
                  todo |-> rec.todo \ {k}, key |-> k, row |-> rows[k]]
    /\ UNCHANGED <<session, sub, rows, brain, shut, changed, pending, scanned, index, bounds>>

\* refresh_formation, once it has the lock: the row as it is now, and its receipt.
Refresh ==
    /\ rec.pc = "refresh" /\ ~(sub.pc # "idle" /\ sub.key = rec.key)
    /\ LET row == Refreshed(rec.key, rows[rec.key]) IN
          /\ rec' = [rec EXCEPT !.pc = "index", !.row = row]
          /\ rows' = [rows EXCEPT ![rec.key] = row]
          /\ changed' = IF Settled(rows[rec.key]) THEN changed ELSE changed \cup {rec.key}
    /\ UNCHANGED <<session, sub, brain, shut, pending, scanned, index, bounds>>

\* index_submission; the reconciliation goes on to the next row.
Indexed ==
    /\ index' = IF rec.row.native THEN index \cup {rec.key} ELSE index \ {rec.key}
    /\ rec' = [NoRec EXCEPT !.pc = IF rec.todo = {} THEN "idle" ELSE "next", !.todo = rec.todo]
    /\ UNCHANGED <<session, sub, rows, brain, shut, scanned>>

\* It fails or takes too long: what was known of the row is indexed, and it stays
\* pending.
RefreshFails ==
    /\ rec.pc = "refresh"
    /\ Fault
    /\ Indexed
    /\ UNCHANGED <<changed, pending, crashes, errored>>

\* Mutant of Finish: what has changed meanwhile is taken for done.
FinishAll ==
    /\ rec.pc = "index"
    /\ pending' = IF NeedsRefresh(rec.row) THEN pending ELSE pending \ {rec.key}
    /\ changed' = changed \ {rec.key}
    /\ Indexed
    /\ UNCHANGED bounds

\* JournalPoll::finish: a row that is settled or unknown to the Brain is not looked at
\* again until it changes.
Finish ==
    /\ rec.pc = "index"
    /\ pending' = IF NeedsRefresh(rec.row) THEN pending ELSE pending \ {rec.key}
    /\ Indexed
    /\ UNCHANGED <<changed, bounds>>

-----------------------------------------------------------------------------
\* The daemon dies; the next session of the conversation begins at its first message,
\* or goes on in the next one if this one was saved as completed.  The index keeps at
\* least what was flushed.
Crash ==
    /\ crashes < MaxCrashes /\ crashes' = crashes + 1
    /\ conv' = IF sub.next = "stay" THEN conv ELSE conv + 1
    /\ mark' = 0 /\ backoff' = FALSE
    /\ sub' = NoSub
    /\ changed' = {} /\ pending' = {} /\ scanned' = FALSE
    /\ rec' = NoRec
    /\ index' \in SUBSET index
    /\ UNCHANGED <<saved, cards, time, rows, brain, shut, faults, errored>>

Submission ==
    \/ Create \/ Again \/ Known \/ SaveRow \/ Stage \/ Conflict \/ Suppressed \/ Observe
    \/ ReadReceipt
Faulty == BrainFails \/ JournalFails \/ RefreshFails
Reconcile == Poll \/ Read \/ Refresh \/ Finish

Next ==
    \/ Save \/ BackoffEnds \/ Submit \/ \E next \in {"compact", "end"} : Leave(next)
    \/ Submission \/ Faulty \/ Reconcile \/ Process \/ Exclude \/ Crash

Spec == Init /\ [][Next]_vars

\* The runner and the reconciliation go on, the backoff ends, the Brain does its work.
Fairness ==
    /\ SF_vars(Submit) /\ WF_vars(Submission) /\ WF_vars(BackoffEnds)
    /\ WF_vars(Poll) /\ WF_vars(Read) /\ SF_vars(Refresh) /\ WF_vars(Finish)
    /\ WF_vars(Process)

FairSpec == Spec /\ Fairness

-----------------------------------------------------------------------------
\* Type invariant; every window has something to form (the early return of
\* submit_pending_formation), and the Brain has at most one under a key and attempt.
TypeOK ==
    /\ conv \in Convs /\ saved \in [Convs -> 0..MaxSaved] /\ mark \in 0..MaxSaved
    /\ cards \subseteq Keys /\ backoff \in BOOLEAN /\ time \in Times
    /\ rows \in [Keys -> [state : {"none", "pending", "accepted", "completed", "failed", "suppressed"},
                          end : 0..MaxSaved, time : Times \cup {0}, attempt : Nat,
                          receipt : BOOLEAN, native : BOOLEAN]]
    /\ \A b \in brain : b.key \in Keys /\ b.end \in 1..MaxSaved /\ b.attempt \in Nat
    /\ \A k \in Keys : rows[k] # NoRow => Content(k, rows[k].end) # {}
    /\ \A a, b \in brain : a.key = b.key /\ a.attempt = b.attempt => a = b
    /\ changed \subseteq Keys /\ pending \subseteq Keys /\ scanned \in BOOLEAN
    /\ index \subseteq Keys

\* The Brain was given message m of conversation c in the window b.
Covers(b, c, m) == Taken(b) /\ b.key[1] = c /\ m \in Content(b.key, b.end)
Formed(c, m) ==
    \/ \E b \in brain : Covers(b, c, m)
    \/ \E k \in Keys : k[1] = c /\ m \in Content(k, rows[k].end) /\ rows[k].state = "suppressed"

\* The offset passes a message that is to be formed only when the Brain has taken it, or
\* has said that it admits nothing of this source: not when the row that answers covers
\* a shorter window of before a crash (submit_pending_formation takes the end of the
\* row), and not with the messages that have nothing to form.
NothingSkipped == \A m \in 0..MaxSaved : m < mark /\ <<conv, m>> \notin cards => Formed(conv, m)

\* Two windows of the Brain hold the same message.
Overlap(a, b) == \E c \in Convs, m \in 0..MaxSaved : Covers(a, c, m) /\ Covers(b, c, m)

\* The same window was submitted twice: there was more to form in it the second time, or
\* an attempt ended in an error which left open what the Brain had done.
Repeated(a, b) ==
    /\ a.key = b.key
    /\ \/ Content(a.key, a.end) # Content(b.key, b.end)
       \/ {<<a.key, a.attempt>>, <<b.key, b.attempt>>} \cap errored # {}

\* The window a begins with messages that had been passed over before a crash, so that
\* no row named it, and b behind them was submitted then.
PassedOver(a, b) == crashes > 0 /\ a.key \in cards /\ a.key[2] < b.key[2]

\* A message reaches the Brain once, over retries, crashes and attempts, but for two
\* reasons: its window is submitted again, longer or after an error (the key and the
\* attempt of observe_formation), or a crash takes the offset back behind messages that
\* were passed over without a row (the early return of submit_pending_formation).
FormedOnce ==
    \A a, b \in brain : Overlap(a, b) /\ a # b =>
        Repeated(a, b) \/ PassedOver(a, b) \/ PassedOver(b, a)

\* Once no more is said, all that is to be formed of the session's conversation is
\* formed, and every row the Brain has taken is followed to its end and indexed with it,
\* though rows change while the reconciliation is at them, the Brain or the journal
\* refuses at times and the daemon may crash (submit_pending_formation's retry,
\* JournalPoll).
MemoryCatchesUp ==
    []<>(/\ \A m \in 0..MaxSaved - 1 : m < saved[conv] /\ <<conv, m>> \notin cards => Formed(conv, m)
         /\ \A k \in Keys : rows[k].native => Settled(rows[k]) /\ k \in index)

\* The attempt "moves on only after a definite rejection, so a retry replays, never
\* re-forms" (the comment on FormationSubmission.attempt): a window that has not grown
\* is formed once.
NeverReForms ==
    \A a, b \in brain : Overlap(a, b) /\ a.key = b.key =>
        a = b \/ Content(a.key, a.end) # Content(b.key, b.end)

\* No message is formed in windows of different keys.
OneWindowEach == \A a, b \in brain : Overlap(a, b) => a.key = b.key

\* A conversation the session has left is formed to its end.
LeftBehindIsFormed ==
    \A c \in Convs, m \in 0..MaxSaved - 1 :
        c < conv /\ m < saved[c] /\ <<c, m>> \notin cards => Formed(c, m)
=============================================================================
