---------------------------- MODULE MemoryProofs ----------------------------
(***************************************************************************)
(* Safety of MemoryChanges for any operations and any bounds.              *)
(*                                                                         *)
(* The gate is what the argument rests on: whoever holds it has a copy of  *)
(* the row and of the native receipt, and GateFits says how the two stand  *)
(* to the journal and the Brain at each of its awaits.  ByKind says which  *)
(* of the Brain's two ways a kind of change can have taken.                *)
(***************************************************************************)
EXTENDS MemoryChanges, TLAPS

-----------------------------------------------------------------------------
(***************************************************************************)
(* The inductive invariant.                                                *)
(***************************************************************************)
Rows == [state : States, text : BOOLEAN, error : BOOLEAN]
Receipts == {"none", "prepared", "discarded", "reconciling", "confirmed"}
Phases == {"none", "recorded", "done", "failed", "held", "refused"}
Jobs == [kind : {"none", "prepare", "discard", "commit"},
         at : {"none", "check", "create", "write", "mark", "release", "act", "save"},
         op : Ops \cup {"none"}, row : Rows, seen : Receipts,
         by : {"none", "owner", "poll", "task"}]
Polls == [at : {"idle", "next", "admit", "wait", "discard", "finish"}, todo : SUBSET Ops,
          op : Ops \cup {"none"}, state : States, refresh : BOOLEAN]

\* TypeOK, with all of the job and of the poll, in four parts.
StoreTypes ==
    /\ rec \in [Ops -> Rows]
    /\ receipt \in [Ops -> Receipts]
    /\ done \in [Ops -> Phases]
PollTypes ==
    /\ poll \in Polls
    /\ poll.at \in {"admit", "wait", "discard", "finish"} => poll.op \in Ops
SetTypes ==
    /\ moved \subseteq Ops /\ expired \subseteq Ops /\ gone \in BOOLEAN
    /\ admitted \subseteq Ops
    /\ changed \subseteq Ops /\ pending \subseteq Ops /\ scanned \in BOOLEAN
    /\ serve \in {"up", "closing", "down"}

\* Corrections go the native way, the others through the Memory Interface.
ByKind ==
    \A o \in Ops :
        /\ o \in Corrections => done[o] = "none"
        /\ o \in Deletions => receipt[o] \in {"none", "prepared", "discarded"}
        /\ o \in Repairs => receipt[o] = "none"

AdmittedStates == {"committing", "reconciling", "confirmed", "failed", "blocked"}

PrepareFits ==
    job.kind = "prepare" =>
        /\ job.op \in Ops /\ job.at \in {"check", "create"}
        /\ rec[job.op].state = "none"
        /\ job.op \in Natives => receipt[job.op] = "prepared"
        /\ job.at = "check" => job.op \in Natives

DiscardFits ==
    job.kind = "discard" =>
        /\ job.op \in Ops /\ job.at = "write"
        /\ job.row = rec[job.op] /\ job.row.state = "prepared"

\* What a task has at hand before it asks the Brain.
Asking ==
    /\ job.at \in {"check", "mark", "release", "act"}
    /\ job.row = rec[job.op]
    /\ job.row.state \in {"prepared", "committing", "reconciling", "confirmed"}
    /\ job.at = "act" => job.row.state = "committing"
    /\ job.at = "release" => job.op \in Deletions /\ job.row.state # "prepared"

\* What it has heard of the Brain, before it is saved.
Heard ==
    /\ job.at = "save"
    /\ rec[job.op].state = "committing"
    /\ job.row.state \in {"prepared", "discarded"} =>
          job.op \in Corrections /\ receipt[job.op] = job.row.state
    /\ job.row.state \in {"prepared", "discarded"} \cup AdmittedStates
    /\ job.row.state = "confirmed" => Applied(job.op) /\ (job.op \in Deletions => ~job.row.text)

CommitFits ==
    job.kind = "commit" => job.op \in admitted /\ (Asking \/ Heard)

GateFits == (job.kind = "none" => job = NoJob) /\ PrepareFits /\ DiscardFits /\ CommitFits

\* Whoever is at work, and the bookkeeping around it.
Workers ==
    /\ job \in Jobs /\ GateFits
    /\ PollTypes /\ SetTypes
    /\ admitted \subseteq consent
    /\ poll.at = "admit" => poll.op \in consent
    /\ serve = "down" => admitted = {}

\* What the owner has committed has a row, and no other change is carried out.
ConsentFits ==
    \A o \in Ops :
        /\ o \in consent => rec[o].state # "none"
        /\ rec[o].state \in AdmittedStates => o \in consent

\* The journal against the Brain.
Ledger ==
    /\ StoreTypes /\ ByKind /\ ConsentFits
    /\ SavedBeforeBegun /\ ConfirmedIsDone

IndInv == Workers /\ Ledger

-----------------------------------------------------------------------------
(***************************************************************************)
(* What a step may do to the journal and to the Brain.                     *)
(***************************************************************************)
\* Neither is touched.
LEMMA StoresAlone ==
    ASSUME IndInv, UNCHANGED <<rec, receipt, done, consent, released>>, Workers'
    PROVE  IndInv'
<1>1. StoreTypes' /\ ByKind' /\ ConfirmedIsDone'
  BY DEF IndInv, Ledger, StoreTypes, ByKind, ConfirmedIsDone, Applied
<1>2. ConsentFits' /\ SavedBeforeBegun'
  BY DEF IndInv, Ledger, ConsentFits, SavedBeforeBegun, BegunIsSaved, ReleaseIsSaved, Begun
<1>. QED
  BY <1>1, <1>2 DEF IndInv, Ledger

\* A row is written.
LEMMA RowWritten ==
    ASSUME IndInv, NEW o \in Ops, NEW row \in Rows,
           rec' = [rec EXCEPT ![o] = row], UNCHANGED <<receipt, done, consent, released>>,
           Begun(o) => row.state \in AdmittedStates,
           row.state # "none", row.state \in AdmittedStates => o \in consent,
           o \in Deletions /\ row.state = "prepared" => receipt[o] # "discarded",
           row.state = "confirmed" => Applied(o) /\ (o \in Deletions => ~row.text),
           Workers'
    PROVE  IndInv'
<1>1. StoreTypes' /\ ByKind'
  BY DEF IndInv, Ledger, StoreTypes, ByKind
<1>2. \A q \in Ops : rec'[q] = IF q = o THEN row ELSE rec[q]
  BY DEF IndInv, Ledger, StoreTypes
<1>3. ConsentFits'
  BY <1>2 DEF IndInv, Ledger, ConsentFits
<1>4. SavedBeforeBegun'
  BY <1>2 DEF IndInv, Ledger, SavedBeforeBegun, BegunIsSaved, ReleaseIsSaved, Begun,
              AdmittedStates
<1>5. ConfirmedIsDone'
  BY <1>2 DEF IndInv, Ledger, ConfirmedIsDone, Applied
<1>. QED
  BY <1>1, <1>3, <1>4, <1>5 DEF IndInv, Ledger

\* The Brain moves.
LEMMA BrainMoved ==
    ASSUME IndInv, NEW o \in Ops, NEW r \in Receipts, NEW p \in Phases,
           receipt' = [receipt EXCEPT ![o] = r], done' = [done EXCEPT ![o] = p],
           UNCHANGED <<rec, consent>>, released \subseteq released',
           o \in Corrections => p = "none",
           o \in Deletions => r \in {"none", "prepared", "discarded"},
           o \in Repairs => r = "none",
           r \in {"reconciling", "confirmed"} \/ p # "none" =>
               rec[o].state \in AdmittedStates,
           o \in Deletions /\ rec[o].state = "prepared" /\ r = "discarded" => o \in released',
           Applied(o) => r = "confirmed" \/ p = "done",
           Workers'
    PROVE  IndInv'
<1>1. StoreTypes'
  BY DEF IndInv, Ledger, StoreTypes
<1>2. \A q \in Ops : /\ receipt'[q] = IF q = o THEN r ELSE receipt[q]
                     /\ done'[q] = IF q = o THEN p ELSE done[q]
  BY DEF IndInv, Ledger, StoreTypes
<1>3. ByKind'
  BY <1>2 DEF IndInv, Ledger, ByKind
<1>4. ConsentFits'
  BY DEF IndInv, Ledger, ConsentFits
<1>5. SavedBeforeBegun'
  BY <1>2 DEF IndInv, Ledger, ConsentFits, SavedBeforeBegun, BegunIsSaved, ReleaseIsSaved,
              Begun, AdmittedStates
<1>6. ConfirmedIsDone'
  BY <1>2 DEF IndInv, Ledger, ConfirmedIsDone, Applied
<1>. QED
  BY <1>1, <1>3, <1>4, <1>5, <1>6 DEF IndInv, Ledger

\* The Brain has another receipt, or another answer, for a change.
LEMMA ReceiptMoved ==
    ASSUME IndInv, NEW o \in Ops, NEW r \in Receipts,
           receipt' = [receipt EXCEPT ![o] = r],
           UNCHANGED <<rec, done, consent>>, released \subseteq released',
           o \in Deletions => r \in {"none", "prepared", "discarded"},
           o \in Repairs => r = "none",
           r \in {"reconciling", "confirmed"} => rec[o].state \in AdmittedStates,
           o \in Deletions /\ rec[o].state = "prepared" /\ r = "discarded" => o \in released',
           receipt[o] = "confirmed" => r = "confirmed",
           Workers'
    PROVE  IndInv'
<1>1. done' = [done EXCEPT ![o] = done[o]] /\ done[o] \in Phases
  BY DEF IndInv, Ledger, StoreTypes
<1>2. o \in Corrections => done[o] = "none"
  BY DEF IndInv, Ledger, ByKind
<1>3. done[o] # "none" => rec[o].state \in AdmittedStates
  BY DEF IndInv, Ledger, SavedBeforeBegun, BegunIsSaved, Begun, AdmittedStates
<1>4. Applied(o) => r = "confirmed" \/ done[o] = "done"
  BY DEF Applied
<1>. QED
  BY <1>1, <1>2, <1>3, <1>4, BrainMoved

LEMMA AnswerMoved ==
    ASSUME IndInv, NEW o \in Ops, NEW p \in Phases,
           done' = [done EXCEPT ![o] = p], UNCHANGED <<rec, receipt, consent, released>>,
           o \notin Corrections, rec[o].state \in AdmittedStates,
           done[o] = "done" => p = "done",
           Workers'
    PROVE  IndInv'
<1>1. receipt' = [receipt EXCEPT ![o] = receipt[o]] /\ receipt[o] \in Receipts
  BY DEF IndInv, Ledger, StoreTypes
<1>2. /\ o \in Deletions => receipt[o] \in {"none", "prepared", "discarded"}
      /\ o \in Repairs => receipt[o] = "none"
  BY DEF IndInv, Ledger, ByKind
<1>3. Applied(o) => receipt[o] = "confirmed" \/ p = "done"
  BY DEF Applied
<1>4. o \in Deletions /\ rec[o].state = "prepared" => FALSE
  BY DEF AdmittedStates
<1>. QED
  BY <1>1, <1>2, <1>3, <1>4, BrainMoved

-----------------------------------------------------------------------------
(***************************************************************************)
(* What a step may do to the gate and to the poll.                         *)
(***************************************************************************)
LEMMA NoJobFits == NoJob \in Jobs /\ NoJob.kind = "none"
BY DEF NoJob, NoRow, Jobs, Rows, States, Receipts

\* Whoever gives the gate up leaves nothing behind.
LEMMA GateFree == ASSUME job' = NoJob PROVE (job \in Jobs)' /\ GateFits'
BY NoJobFits DEF GateFits, PrepareFits, DiscardFits, CommitFits

\* The gate is not handed on, and what its holder knows stays so.
LEMMA GateStays ==
    ASSUME job \in Jobs, GateFits, UNCHANGED <<rec, receipt, done, job>>,
           job.op \in admitted => job.op \in admitted'
    PROVE  (job \in Jobs)' /\ GateFits'
BY DEF GateFits, PrepareFits, DiscardFits, CommitFits, Asking, Heard, Applied

\* The poll goes on with an answer or stays where it is; it never admits by that.
LEMMA PollAnswered ==
    ASSUME PollTypes, NEW o, NEW refresh \in BOOLEAN, Answered(o, refresh)
    PROVE  PollTypes' /\ (poll' = poll \/ poll'.at = "finish")
BY DEF Answered, PollTypes, Polls, Ops, Natives

LEMMA TaskGone ==
    ASSUME PollTypes, NEW o, NEW state, TaskEnds(o, state)
    PROVE  /\ (job \in Jobs)' /\ GateFits'
           /\ PollTypes' /\ (poll' = poll \/ poll'.at = "finish")
           /\ admitted' \subseteq admitted
<1>. DEFINE again == state \in {"committing", "reconciling", "error"}
<1>1. PollTypes' /\ (poll' = poll \/ poll'.at = "finish")
  <2>1. again \in BOOLEAN
    OBVIOUS
  <2>2. Answered(o, again)
    BY DEF TaskEnds
  <2>. HIDE DEF again
  <2>. QED
    BY <2>1, <2>2, PollAnswered
<1>2. job' = NoJob /\ admitted' \subseteq admitted
  BY DEF TaskEnds
<1>. QED
  BY <1>1, <1>2, GateFree

\* A task that ends, with the journal and the Brain as they are.
LEMMA TaskGoneAlone ==
    ASSUME IndInv, NEW o, NEW state, TaskEnds(o, state),
           UNCHANGED <<rec, brainVars, changed, pending, scanned, serve, history>>
    PROVE  IndInv'
<1>1. Workers'
  BY TaskGone DEF IndInv, Workers, SetTypes, brainVars, history
<1>. QED
  BY <1>1, StoresAlone DEF brainVars, history

-----------------------------------------------------------------------------
(***************************************************************************)
(* One lemma per action.  The Brain:                                       *)
(***************************************************************************)
LEMMA ProcessKeeps == ASSUME NEW o \in Ops, IndInv, Process(o) PROVE IndInv'
<1>1. PICK r \in Receipts, p \in Phases :
          /\ receipt' = [receipt EXCEPT ![o] = r] /\ done' = [done EXCEPT ![o] = p]
          /\ \/ receipt[o] = "reconciling" /\ r = "confirmed" /\ p = done[o]
             \/ done[o] = "recorded" /\ p \in {"done", "failed"} /\ r = receipt[o]
  BY DEF Process, IndInv, Ledger, StoreTypes, Receipts, Phases
<1>2. \A q \in Ops : Applied(q) => Applied(q)'
  BY <1>1 DEF Applied, IndInv, Ledger, StoreTypes
<1>3. \A q \in Ops : receipt[q] \in {"prepared", "discarded"} => receipt'[q] = receipt[q]
  BY <1>1 DEF IndInv, Ledger, StoreTypes
<1>4. GateFits'
  <2>1. PrepareFits' /\ DiscardFits' /\ (job.kind = "none" => job = NoJob)'
    BY <1>3 DEF Process, IndInv, Workers, GateFits, PrepareFits, DiscardFits
  <2>2. Asking => Asking'
    BY DEF Process, Asking
  <2>3. ASSUME job.op \in Ops, Heard PROVE Heard'
    BY <1>2, <1>3, <2>3 DEF Process, Heard
  <2>4. CommitFits'
    BY <2>2, <2>3 DEF Process, IndInv, Workers, GateFits, CommitFits, SetTypes
  <2>. QED
    BY <2>1, <2>4 DEF GateFits
<1>5. Workers'
  BY <1>4 DEF Process, TakesEffect, Previews, IndInv, Workers, PollTypes, SetTypes, pollVars,
              history
<1>6. Begun(o) /\ Applied(o) => r = "confirmed" \/ p = "done"
  BY <1>1 DEF Applied
<1>. QED
  BY <1>1, <1>5, <1>6, BrainMoved, ChangeAssumption
     DEF Process, IndInv, Ledger, ByKind, SavedBeforeBegun, BegunIsSaved, ReleaseIsSaved,
         Begun, Applied, AdmittedStates, Ops, Natives, history

LEMMA RecordChangesKeeps == ASSUME IndInv, RecordChanges PROVE IndInv'
<1>1. Previews \subseteq Ops
  BY DEF Previews
<1>2. Workers'
  BY <1>1, GateStays DEF RecordChanges, IndInv, Workers, PollTypes, SetTypes, pollVars, history
<1>. QED
  BY <1>2, StoresAlone DEF RecordChanges, history

LEMMA ExpireKeeps == ASSUME NEW o \in Ops, IndInv, Expire(o) PROVE IndInv'
<1>1. Workers'
  BY GateStays DEF Expire, IndInv, Workers, PollTypes, SetTypes, pollVars, history
<1>. QED
  BY <1>1, StoresAlone DEF Expire, history

-----------------------------------------------------------------------------
(***************************************************************************)
(* prepare() and discard():                                                *)
(***************************************************************************)
LEMMA PrepareKeeps == ASSUME NEW o \in Ops, IndInv, Prepare(o) PROVE IndInv'
<1>1. /\ job' \in Jobs /\ job'.kind = "prepare" /\ job'.op = o
      /\ job'.at \in {"check", "create"} /\ (job'.at = "check" => o \in Natives)
  <2>. DEFINE new(at) == [NoJob EXCEPT !.kind = "prepare", !.op = o, !.at = at, !.by = "owner"]
  <2>1. \A at \in {"check", "create"} :
            /\ new(at) \in Jobs /\ new(at).kind = "prepare" /\ new(at).op = o
            /\ new(at).at = at
    BY NoJobFits DEF Jobs
  <2>2. (o \in Natives /\ job' = new("check")) \/ job' = new("create")
    BY DEF Prepare
  <2>. QED
    BY <2>1, <2>2
<1>2. PICK r \in Receipts :
          /\ receipt' = [receipt EXCEPT ![o] = r]
          /\ o \in Natives => r = "prepared" /\ receipt[o] \in {"none", "prepared"}
          /\ o \notin Natives => r = receipt[o]
  <2>1. receipt[o] \in Receipts /\ receipt' \in {receipt, [receipt EXCEPT ![o] = "prepared"]}
    BY DEF Prepare, IndInv, Ledger, StoreTypes
  <2>2. CASE o \in Natives
    BY <2>1, <2>2, ChangeAssumption DEF Prepare, Natives, Receipts
  <2>3. CASE o \notin Natives
    BY <2>1, <2>3 DEF Prepare, IndInv, Ledger, StoreTypes
  <2>. QED
    BY <2>2, <2>3
<1>3. rec[o].state = "none" /\ rec' = rec
  BY DEF Prepare
<1>4. GateFits'
  BY <1>1, <1>2, <1>3 DEF GateFits, PrepareFits, DiscardFits, CommitFits, IndInv, Ledger,
                          StoreTypes
<1>5. Workers'
  BY <1>1, <1>4 DEF Prepare, IndInv, Workers, PollTypes, SetTypes, pollVars, history
<1>6. receipt[o] \notin {"reconciling", "confirmed"} /\ r \notin {"reconciling", "confirmed"}
  BY <1>2, <1>3 DEF IndInv, Ledger, SavedBeforeBegun, BegunIsSaved, Begun
<1>7. o \in Repairs => r = "none"
  BY <1>2, ChangeAssumption DEF IndInv, Ledger, ByKind, Natives
<1>8. o \in Deletions => r \in {"none", "prepared", "discarded"}
  BY <1>2 DEF Natives
<1>9. UNCHANGED <<rec, done, consent, released>>
  BY DEF Prepare, history
<1>. QED
  BY <1>2, <1>3, <1>5, <1>6, <1>7, <1>8, <1>9, ReceiptMoved

LEMMA PrepareChecksKeeps == ASSUME IndInv, PrepareChecks PROVE IndInv'
<1>. DEFINE o == job.op
<1>1. /\ o \in Ops /\ rec[o].state = "none" /\ rec' = rec
      /\ o \in Natives /\ receipt[o] = "prepared"
  BY DEF PrepareChecks, IndInv, Workers, GateFits, PrepareFits
<1>2. Workers' => PollTypes' /\ SetTypes'
  BY DEF Workers
<1>3. ASSUME (job \in Jobs)', GateFits' PROVE Workers'
  BY <1>3 DEF PrepareChecks, IndInv, Workers, PollTypes, SetTypes, pollVars, history
<1>4. CASE ~gone
  <2>1. receipt' = receipt /\ job' = [job EXCEPT !.at = "create"]
    BY <1>4 DEF PrepareChecks
  <2>2. (job \in Jobs)' /\ GateFits'
    BY <1>1, <2>1 DEF PrepareChecks, IndInv, Workers, GateFits, PrepareFits, DiscardFits,
                      CommitFits, Jobs
  <2>. QED
    BY <1>3, <2>1, <2>2, StoresAlone DEF PrepareChecks, history
<1>5. CASE gone
  <2>1. receipt' = [receipt EXCEPT ![o] = "discarded"] /\ job' = NoJob
    BY <1>5 DEF PrepareChecks, IndInv, Workers, SetTypes
  <2>2. Workers'
    BY <1>3, <2>1, GateFree
  <2>3. receipt[o] # "confirmed" /\ o \notin Repairs
    BY <1>1, ChangeAssumption
       DEF IndInv, Ledger, SavedBeforeBegun, BegunIsSaved, Begun, ByKind, Natives, Ops
  <2>4. UNCHANGED <<rec, done, consent, released>>
    BY DEF PrepareChecks, history
  <2>. QED
    BY <1>1, <2>1, <2>2, <2>3, <2>4, ReceiptMoved DEF Receipts
<1>. QED
  BY <1>4, <1>5

LEMMA PrepareCreatesKeeps == ASSUME IndInv, PrepareCreates PROVE IndInv'
<1>. DEFINE o == job.op
<1>1. /\ o \in Ops /\ rec[o].state = "none"
      /\ o \in Natives => receipt[o] = "prepared"
  BY DEF PrepareCreates, IndInv, Workers, GateFits, PrepareFits
<1>2. Prepared \in Rows /\ Prepared.state = "prepared"
  BY DEF Prepared, Rows, States
<1>3. (job \in Jobs)' /\ GateFits'
  BY GateFree DEF PrepareCreates
<1>4. Workers'
  BY <1>1, <1>3 DEF PrepareCreates, Write, IndInv, Workers, PollTypes, SetTypes, brainVars,
                    pollVars, history
<1>5. ~Begun(o)
  BY <1>1 DEF IndInv, Ledger, SavedBeforeBegun, BegunIsSaved
<1>6. rec' = [rec EXCEPT ![o] = Prepared] /\ UNCHANGED <<receipt, done, consent, released>>
  BY DEF PrepareCreates, Write, brainVars, history
<1>. QED
  BY <1>1, <1>2, <1>4, <1>5, <1>6, RowWritten DEF AdmittedStates, Natives

\* discard, whoever calls it.
LEMMA BeginDiscardKeeps ==
    ASSUME NEW o \in Ops, NEW by \in {"owner", "poll"}, IndInv, BeginDiscard(o, by),
           UNCHANGED <<rec, done, moved, expired, gone, admitted, changed, pending, scanned,
                       serve, consent>>,
           PollTypes', poll'.at # "admit" \/ poll' = poll
    PROVE  IndInv'
<1>1. rec[o].state \in {"none", "prepared"} /\ rec[o] \in Rows
  BY DEF BeginDiscard, IndInv, Ledger, StoreTypes
<1>2. ~Begun(o)
  BY <1>1 DEF IndInv, Ledger, SavedBeforeBegun, BegunIsSaved
<1>3. \/ job' = NoJob
      \/ /\ job' = [NoJob EXCEPT !.kind = "discard", !.op = o, !.at = "write", !.row = rec[o],
                                 !.by = by]
         /\ rec[o].state = "prepared"
  BY <1>1 DEF BeginDiscard, Ops
<1>4. (job \in Jobs)' /\ GateFits'
  <2>1. CASE job' = NoJob
    BY <2>1, GateFree
  <2>2. CASE job' # NoJob
    <3>1. /\ job' \in Jobs /\ job'.kind = "discard" /\ job'.op = o /\ job'.at = "write"
          /\ job'.row = rec[o] /\ rec[o].state = "prepared"
      BY <1>1, <1>3, <2>2, NoJobFits DEF Jobs
    <3>. QED
      BY <3>1 DEF GateFits, PrepareFits, DiscardFits, CommitFits
  <2>. QED
    BY <2>1, <2>2
<1>5. Workers'
  BY <1>4 DEF IndInv, Workers, SetTypes
<1>6. CASE o \in Natives
  <2>1. receipt' = [receipt EXCEPT ![o] = "discarded"] /\ released' = released \cup {o}
    BY <1>6 DEF BeginDiscard
  <2>2. receipt[o] # "confirmed" /\ o \notin Repairs
    BY <1>2, <1>6, ChangeAssumption DEF Begun, Natives
  <2>. QED
    BY <1>1, <1>5, <2>1, <2>2, ReceiptMoved DEF Receipts
<1>7. CASE o \notin Natives
  <2>1. UNCHANGED <<receipt, released>>
    BY <1>7 DEF BeginDiscard
  <2>. QED
    BY <1>5, <2>1, StoresAlone
<1>. QED
  BY <1>6, <1>7

LEMMA DiscardKeeps == ASSUME NEW o \in Ops, IndInv, Discard(o) PROVE IndInv'
<1>1. PollTypes' /\ poll' = poll
  BY DEF Discard, pollVars, IndInv, Workers, PollTypes
<1>. QED
  BY <1>1, BeginDiscardKeeps DEF Discard, pollVars

LEMMA DiscardWritesKeeps == ASSUME IndInv, DiscardWrites PROVE IndInv'
<1>. DEFINE o == job.op
            row == [job.row EXCEPT !.state = "discarded", !.text = FALSE]
<1>1. o \in Ops /\ rec[o].state = "prepared" /\ job.row = rec[o] /\ rec[o] \in Rows
  BY DEF DiscardWrites, IndInv, Workers, GateFits, DiscardFits, Ledger, StoreTypes
<1>2. row \in Rows /\ row.state = "discarded"
  BY <1>1 DEF Rows, States
<1>3. (job \in Jobs)' /\ GateFits'
  BY GateFree DEF DiscardWrites
<1>4. PollTypes' /\ (poll' = poll \/ poll'.at = "finish")
  <2>1. CASE job.by = "poll"
    BY <2>1, PollAnswered DEF DiscardWrites, IndInv, Workers
  <2>2. CASE job.by # "poll"
    BY <2>2 DEF DiscardWrites, IndInv, Workers, PollTypes
  <2>. QED
    BY <2>1, <2>2
<1>5. Workers'
  BY <1>1, <1>3, <1>4 DEF DiscardWrites, Write, IndInv, Workers, SetTypes, brainVars, history
<1>6. ~Begun(o)
  BY <1>1 DEF IndInv, Ledger, SavedBeforeBegun, BegunIsSaved
<1>7. rec' = [rec EXCEPT ![o] = row] /\ UNCHANGED <<receipt, done, consent, released>>
  BY DEF DiscardWrites, Write, brainVars, history
<1>. HIDE DEF o, row
<1>. QED
  BY <1>1, <1>2, <1>5, <1>6, <1>7, RowWritten DEF AdmittedStates

LEMMA CallEndsKeeps == ASSUME IndInv, CallEnds PROVE IndInv'
<1>. DEFINE o == job.op
<1>1. (job \in Jobs)' /\ GateFits'
  BY GateFree DEF CallEnds
<1>2. PollTypes' /\ (poll' = poll \/ poll'.at = "finish")
  <2>1. CASE job.by = "poll"
    BY <2>1, PollAnswered DEF CallEnds, IndInv, Workers
  <2>2. CASE job.by # "poll"
    BY <2>2 DEF CallEnds, IndInv, Workers, PollTypes
  <2>. QED
    BY <2>1, <2>2
<1>3. Workers'
  BY <1>1, <1>2 DEF CallEnds, IndInv, Workers, SetTypes, brainVars, history
<1>4. UNCHANGED <<receipt, done, consent, released>>
  BY DEF CallEnds, brainVars, history
<1>5. CASE rec' = rec
  BY <1>3, <1>4, <1>5, StoresAlone
<1>6. CASE rec' # rec
  <2>1. job.at = "create" /\ rec' = [rec EXCEPT ![o] = Prepared]
    BY <1>6 DEF CallEnds
  <2>2. /\ o \in Ops /\ rec[o].state = "none"
        /\ o \in Natives => receipt[o] = "prepared"
    BY <2>1 DEF CallEnds, IndInv, Workers, GateFits, PrepareFits, DiscardFits
  <2>3. Prepared \in Rows /\ Prepared.state = "prepared"
    BY DEF Prepared, Rows, States
  <2>4. ~Begun(o)
    BY <2>2 DEF IndInv, Ledger, SavedBeforeBegun, BegunIsSaved
  <2>. QED
    BY <1>3, <1>4, <2>1, <2>2, <2>3, <2>4, RowWritten DEF AdmittedStates, Natives
<1>. QED
  BY <1>5, <1>6

-----------------------------------------------------------------------------
(***************************************************************************)
(* commit():                                                               *)
(***************************************************************************)
LEMMA CommitKeeps == ASSUME NEW o \in Ops, IndInv, Commit(o) PROVE IndInv'
<1>1. UNCHANGED <<rec, receipt, done, job, released>>
  BY DEF Commit, brainVars
<1>2. admitted' = admitted \cup {o} /\ consent' = consent \cup {o}
  BY DEF Commit
<1>3. (job \in Jobs)' /\ GateFits'
  BY <1>1, <1>2, GateStays DEF IndInv, Workers
<1>4. Workers'
  BY <1>2, <1>3 DEF Commit, MayAdmit, IndInv, Workers, PollTypes, SetTypes, brainVars, pollVars
<1>5. StoreTypes' /\ ByKind' /\ ConfirmedIsDone'
  BY <1>1 DEF IndInv, Ledger, StoreTypes, ByKind, ConfirmedIsDone, Applied
<1>6. rec[o].state # "none"
  BY DEF Commit
<1>7. ConsentFits' /\ SavedBeforeBegun'
  BY <1>1, <1>2, <1>6
     DEF IndInv, Ledger, ConsentFits, SavedBeforeBegun, BegunIsSaved, ReleaseIsSaved, Begun
<1>. QED
  BY <1>4, <1>5, <1>7 DEF IndInv, Ledger

LEMMA StartKeeps == ASSUME NEW o \in Ops, IndInv, Start(o) PROVE IndInv'
<1>. DEFINE new == [NoJob EXCEPT !.kind = "commit", !.op = o, !.at = "check", !.row = rec[o],
                                 !.seen = receipt[o], !.by = "task"]
<1>1. UNCHANGED <<rec, receipt, done, released, consent>>
  BY DEF Start, brainVars, history
<1>2. CASE \E state : TaskEnds(o, state)
  BY <1>2, TaskGoneAlone DEF Start
<1>3. CASE ~ \E state : TaskEnds(o, state)
  <2>1. /\ job' = new /\ UNCHANGED <<admitted, poll>>
        /\ ~Clean(o, rec[o]) /\ rec[o].state \notin {"failed", "blocked", "discarded"}
    BY <1>3 DEF Start, RowOf
  <2>2. rec[o] \in Rows /\ receipt[o] \in Receipts
    BY DEF IndInv, Ledger, StoreTypes
  <2>3. /\ new \in Jobs /\ new.kind = "commit" /\ new.op = o /\ new.at = "check"
        /\ new.row = rec[o]
    BY <2>2, NoJobFits DEF Jobs
  <2>4. rec[o].state # "none"
    BY DEF Start, IndInv, Workers, Ledger, ConsentFits
  <2>5. GateFits'
    BY <1>1, <2>1, <2>2, <2>3, <2>4
       DEF Start, GateFits, PrepareFits, DiscardFits, CommitFits, Asking, Rows, States
  <2>6. Workers'
    BY <1>1, <2>1, <2>3, <2>5 DEF Start, IndInv, Workers, PollTypes, SetTypes, brainVars
  <2>. QED
    BY <1>1, <2>6, StoresAlone
<1>. QED
  BY <1>2, <1>3

\* What holds while a task is under way.
LEMMA AtWork ==
    ASSUME IndInv, job.kind = "commit"
    PROVE  /\ job \in Jobs /\ job.op \in Ops /\ job.op \in admitted /\ job.op \in consent
           /\ rec[job.op] \in Rows /\ job.row \in Rows
           /\ receipt[job.op] \in Receipts /\ done[job.op] \in Phases
           /\ Asking \/ Heard
<1>1. job \in Jobs /\ job.op \in admitted /\ (Asking \/ Heard)
  BY DEF IndInv, Workers, GateFits, CommitFits
<1>2. job.op \in Ops /\ job.op \in consent
  BY <1>1 DEF IndInv, Workers, SetTypes
<1>. QED
  BY <1>1, <1>2 DEF IndInv, Ledger, StoreTypes, Jobs

\* The task goes on in the gate.
LEMMA GateGoesOn ==
    ASSUME IndInv, job.kind = "commit", job' \in Jobs, job'.kind = "commit", job'.op = job.op,
           (Asking \/ Heard)',
           UNCHANGED <<admitted, expired, changed, pollVars, serve, history>>,
           moved' \subseteq Ops, gone' \in BOOLEAN
    PROVE  Workers'
<1>1. GateFits'
  BY AtWork DEF GateFits, PrepareFits, DiscardFits, CommitFits
<1>. QED
  BY <1>1 DEF IndInv, Workers, PollTypes, SetTypes, pollVars, history

LEMMA CommitChecksKeeps == ASSUME IndInv, CommitChecks PROVE IndInv'
<1>1. CASE SourcesMissing \/ PreviewFails
  BY <1>1, TaskGoneAlone DEF CommitChecks
<1>2. CASE ~(SourcesMissing \/ PreviewFails)
  <2>1. job' = [job EXCEPT !.at = NextAfterCheck] /\ UNCHANGED <<admitted, poll>>
    BY <1>2 DEF CommitChecks
  <2>2. /\ job.kind = "commit" /\ job.at = "check" /\ Asking /\ job \in Jobs
        /\ UNCHANGED <<rec, receipt, done, released, consent, moved, expired, gone, changed,
                       pending, scanned, serve>>
    BY AtWork DEF CommitChecks, Heard, brainVars, history
  <2>3. /\ NextAfterCheck \in {"release", "mark"}
        /\ NextAfterCheck = "release" => job.op \in Deletions /\ job.row.state # "prepared"
    BY DEF NextAfterCheck
  <2>4. job' \in Jobs /\ job'.kind = "commit" /\ job'.op = job.op /\ Asking'
    BY <2>1, <2>2, <2>3 DEF Asking, Jobs
  <2>5. moved \subseteq Ops /\ gone \in BOOLEAN
    BY DEF IndInv, Workers, SetTypes
  <2>6. Workers'
    BY <2>1, <2>2, <2>4, <2>5, GateGoesOn DEF pollVars, history
  <2>. QED
    BY <2>2, <2>6, StoresAlone
<1>. QED
  BY <1>1, <1>2

LEMMA CommitMarksKeeps == ASSUME IndInv, CommitMarks PROVE IndInv'
<1>. DEFINE o == job.op
            row == [job.row EXCEPT !.state = "committing"]
<1>1. /\ job.kind = "commit" /\ job.at = "mark" /\ Asking /\ job \in Jobs /\ o \in Ops
      /\ rec[o] = job.row /\ rec[o] \in Rows /\ o \in consent
  BY AtWork DEF CommitMarks, Asking, Heard
<1>2. row \in Rows /\ row.state = "committing"
  BY <1>1 DEF Rows, States
<1>3. rec' = [rec EXCEPT ![o] = row] /\ rec'[o] = row
  BY <1>1 DEF CommitMarks, Write, IndInv, Ledger, StoreTypes
<1>4. /\ job' \in Jobs /\ job'.kind = "commit" /\ job'.op = o /\ job'.row = row
      /\ job'.at \in {"release", "act"} /\ (job'.at = "release" => o \in Deletions)
  <2>. DEFINE next == IF job.op \in Deletions /\ job.seen = "prepared" THEN "release" ELSE "act"
  <2>1. next \in {"release", "act"} /\ (next = "release" => o \in Deletions)
    OBVIOUS
  <2>2. job' = [job EXCEPT !.row.state = "committing", !.at = next]
    BY DEF CommitMarks
  <2>. HIDE DEF next
  <2>. QED
    BY <1>1, <1>2, <2>1, <2>2 DEF Jobs
<1>5. Asking'
  BY <1>2, <1>3, <1>4 DEF Asking
<1>6. Workers'
  <2>1. moved \subseteq Ops /\ gone \in BOOLEAN /\ GateFits'
    BY <1>1, <1>4, <1>5, AtWork
       DEF IndInv, Workers, SetTypes, CommitMarks, GateFits, PrepareFits, DiscardFits, CommitFits
  <2>. QED
    BY <1>1, <1>4, <2>1
       DEF CommitMarks, Write, IndInv, Workers, PollTypes, SetTypes, brainVars, pollVars, history
<1>7. UNCHANGED <<receipt, done, consent, released>>
  BY DEF CommitMarks, brainVars, history
<1>. HIDE DEF o, row
<1>. QED
  BY <1>1, <1>2, <1>3, <1>6, <1>7, RowWritten DEF AdmittedStates

LEMMA CommitReleasesKeeps == ASSUME IndInv, CommitReleases PROVE IndInv'
<1>. DEFINE o == job.op
<1>1. /\ job.kind = "commit" /\ job.at = "release" /\ Asking /\ job \in Jobs /\ o \in Ops
      /\ o \in Deletions /\ rec[o].state # "prepared" /\ receipt[o] \in Receipts
  BY AtWork DEF CommitReleases, Asking, Heard
<1>2. /\ receipt' = [receipt EXCEPT ![o] = "discarded"] /\ receipt'[o] = "discarded"
      /\ UNCHANGED <<rec, done, consent, released>>
  BY <1>1 DEF CommitReleases, history, IndInv, Ledger, StoreTypes
<1>3. /\ job' = [job EXCEPT !.at = "mark", !.seen = "discarded"]
      /\ job' \in Jobs /\ job'.kind = "commit" /\ job'.op = o
  BY <1>1 DEF CommitReleases, Jobs, Receipts
<1>4. Asking'
  BY <1>1, <1>2, <1>3 DEF Asking, Jobs
<1>5. Workers'
  BY <1>1, <1>3, <1>4, GateGoesOn DEF CommitReleases, IndInv, Workers, SetTypes, history
<1>6. receipt[o] # "confirmed" /\ o \notin Repairs
  BY <1>1, ChangeAssumption DEF IndInv, Ledger, ByKind
<1>. HIDE DEF o
<1>. QED
  BY <1>1, <1>2, <1>5, <1>6, ReceiptMoved DEF Receipts

\* What settle_confirmed makes of a row.
LEMMA SettledRow ==
    ASSUME NEW o, NEW row \in Rows
    PROVE  /\ Settled(o, row) \in Rows /\ Settled(o, row).state = row.state
           /\ row.state = "confirmed" /\ o \in Deletions => ~Settled(o, row).text
<1>. DEFINE kept == row.text /\ o \notin Deletions
            new == [row EXCEPT !.error = FALSE, !.text = kept]
<1>1. kept \in BOOLEAN /\ (o \in Deletions => ~kept)
  BY DEF Rows
<1>2. new \in Rows /\ new.state = row.state /\ new.text = kept
  <2>. HIDE DEF kept
  <2>. QED
    BY <1>1 DEF Rows
<1>3. Settled(o, row) = IF row.state # "confirmed" THEN row ELSE new
  BY DEF Settled
<1>. HIDE DEF new
<1>. QED
  BY <1>1, <1>2, <1>3

LEMMA CommitNativeKeeps == ASSUME IndInv, CommitNative PROVE IndInv'
<1>. DEFINE o == job.op
<1>1. /\ job.kind = "commit" /\ job.at = "act" /\ Asking /\ job \in Jobs /\ o \in Ops
      /\ o \in Corrections /\ rec[o].state = "committing" /\ receipt[o] \in Receipts
      /\ job.row \in Rows
  BY AtWork DEF CommitNative, Asking, Heard
<1>2. PICK failed \in BOOLEAN, state \in {"prepared", "reconciling", "confirmed", "discarded"} :
          /\ Committed(state)
          /\ job' = [job EXCEPT !.at = "save", !.row = NativeRow(state, failed)]
          /\ receipt' = [receipt EXCEPT ![o] = state]
          /\ IF state = "confirmed" /\ receipt[o] # "confirmed"
             THEN TakesEffect(o) ELSE UNCHANGED <<moved, gone>>
  BY DEF CommitNative
<1>3. /\ NativeRow(state, failed) \in Rows /\ NativeRow(state, failed).state = state
  <2>. DEFINE row == [job.row EXCEPT !.state = state, !.error = failed]
  <2>1. row \in Rows /\ row.state = state
    BY <1>1 DEF Rows, States
  <2>. HIDE DEF row
  <2>2. NativeRow(state, failed) = Settled(o, row)
    BY DEF NativeRow, row
  <2>. QED
    BY <2>1, <2>2, SettledRow
<1>4. /\ job' \in Jobs /\ job'.kind = "commit" /\ job'.op = o /\ job'.at = "save"
      /\ job'.row.state = state
  BY <1>1, <1>2, <1>3 DEF Jobs
<1>5. /\ receipt'[o] = state /\ state \in Receipts
      /\ UNCHANGED <<rec, done, consent, released>>
  BY <1>1, <1>2 DEF CommitNative, history, IndInv, Ledger, StoreTypes, Receipts
<1>6. o \notin Deletions /\ o \notin Repairs
  BY <1>1, ChangeAssumption
<1>7. receipt[o] = "confirmed" => state = "confirmed"
  BY <1>2 DEF Committed
<1>8. Heard'
  BY <1>1, <1>4, <1>5, <1>6 DEF Heard, Applied, AdmittedStates
<1>9. moved' \subseteq Ops /\ gone' \in BOOLEAN
  BY <1>2 DEF TakesEffect, Previews, IndInv, Workers, SetTypes
<1>10. Workers'
  BY <1>1, <1>4, <1>8, <1>9, GateGoesOn DEF CommitNative
<1>. HIDE DEF o
<1>. QED
  BY <1>1, <1>2, <1>5, <1>6, <1>7, <1>10, ReceiptMoved DEF AdmittedStates

LEMMA CommitMemoryKeeps == ASSUME IndInv, CommitMemory PROVE IndInv'
<1>. DEFINE o == job.op
<1>1. /\ job.kind = "commit" /\ job.at = "act" /\ Asking /\ job \in Jobs /\ o \in Ops
      /\ o \notin Corrections /\ rec[o].state = "committing" /\ done[o] \in Phases
      /\ job.row \in Rows
  BY AtWork DEF CommitMemory, Asking, Heard
<1>2. PICK phase \in {"recorded", "done", "failed", "held", "refused"} :
          /\ done[o] # "none" => phase = done[o]
          /\ done' = [done EXCEPT ![o] = phase]
          /\ job' = [job EXCEPT !.at = "save",
                                !.row = Settled(o, [job.row EXCEPT
                                          !.state = StateOf(phase),
                                          !.error = phase \in {"failed", "held", "refused"}])]
          /\ IF phase = "done" /\ done[o] = "none"
             THEN TakesEffect(o) ELSE UNCHANGED <<moved, gone>>
  BY DEF CommitMemory
<1>. DEFINE failed == phase \in {"failed", "held", "refused"}
            heard == [job.row EXCEPT !.state = StateOf(phase), !.error = failed]
            row == Settled(o, heard)
<1>3. /\ row \in Rows /\ row.state = StateOf(phase)
      /\ row.state = "confirmed" /\ o \in Deletions => ~row.text
  <2>1. StateOf(phase) \in States
    BY DEF StateOf, States
  <2>2. failed \in BOOLEAN
    OBVIOUS
  <2>3. heard \in Rows /\ heard.state = StateOf(phase)
    <3>. HIDE DEF failed
    <3>. QED
      BY <1>1, <2>1, <2>2 DEF Rows
  <2>. HIDE DEF heard
  <2>. QED
    BY <2>3, SettledRow
<1>4. /\ StateOf(phase) \in {"committing", "confirmed", "blocked", "failed"}
      /\ StateOf(phase) = "confirmed" => phase = "done"
  BY DEF StateOf
<1>5. job' = [job EXCEPT !.at = "save", !.row = row]
  BY <1>2
<1>6. /\ job' \in Jobs /\ job'.kind = "commit" /\ job'.op = o /\ job'.at = "save"
      /\ job'.row = row
  <2>. HIDE DEF row
  <2>. QED
    BY <1>1, <1>3, <1>5 DEF Jobs
<1>7. /\ done'[o] = phase /\ phase \in Phases
      /\ UNCHANGED <<rec, receipt, consent, released>>
  BY <1>1, <1>2 DEF CommitMemory, history, IndInv, Ledger, StoreTypes, Phases
<1>8. Heard'
  <2>. HIDE DEF row
  <2>. QED
    BY <1>1, <1>3, <1>4, <1>6, <1>7 DEF Heard, Applied, AdmittedStates
<1>9. moved' \subseteq Ops /\ gone' \in BOOLEAN
  BY <1>2 DEF TakesEffect, Previews, IndInv, Workers, SetTypes
<1>10. Workers'
  BY <1>1, <1>6, <1>8, <1>9, GateGoesOn DEF CommitMemory
<1>. HIDE DEF o
<1>. QED
  BY <1>1, <1>2, <1>7, <1>10, AnswerMoved DEF AdmittedStates

LEMMA CommitSavesKeeps == ASSUME IndInv, CommitSaves PROVE IndInv'
<1>. DEFINE o == job.op
            row == job.row
<1>1. /\ job.kind = "commit" /\ job.at = "save" /\ Heard /\ o \in Ops /\ row \in Rows
      /\ o \in consent
  BY AtWork DEF CommitSaves, Asking
<1>2. PICK state : TaskEnds(o, state)
  BY DEF CommitSaves
<1>3. /\ (job \in Jobs)' /\ GateFits'
      /\ PollTypes' /\ (poll' = poll \/ poll'.at = "finish")
      /\ admitted' \subseteq admitted
  BY <1>2, TaskGone DEF IndInv, Workers
<1>4. Workers'
  BY <1>1, <1>3 DEF CommitSaves, Write, IndInv, Workers, SetTypes, brainVars, history
<1>5. rec' = [rec EXCEPT ![o] = row] /\ UNCHANGED <<receipt, done, consent, released>>
  BY DEF CommitSaves, Write, brainVars, history
<1>6. /\ row.state = "confirmed" => Applied(o) /\ (o \in Deletions => ~row.text)
      /\ row.state \in {"prepared", "discarded"} \cup AdmittedStates
  BY <1>1 DEF Heard
<1>7. row.state \in {"prepared", "discarded"} => ~Begun(o) /\ o \notin Deletions
  BY <1>1, ChangeAssumption DEF Heard, Begun, IndInv, Ledger, ByKind
<1>8. row.state # "none"
  BY <1>6 DEF AdmittedStates
<1>. HIDE DEF o, row
<1>. QED
  BY <1>1, <1>4, <1>5, <1>6, <1>7, <1>8, RowWritten

LEMMA CommitFailsKeeps == ASSUME IndInv, CommitFails PROVE IndInv'
BY TaskGoneAlone DEF CommitFails

-----------------------------------------------------------------------------
(***************************************************************************)
(* recover(), run() and the end of the daemon:                             *)
(***************************************************************************)
\* The poll moves, and nothing else but what is its own.
LEMMA PollMoves ==
    ASSUME IndInv, UNCHANGED <<rec, receipt, done, moved, expired, gone, job, serve, history>>,
           PollTypes', pending' \subseteq Ops, changed' \subseteq Ops, scanned' \in BOOLEAN,
           admitted \subseteq admitted', admitted' \subseteq admitted \cup (consent \cap Ops),
           admitted' # admitted => serve = "up",
           poll'.at = "admit" => poll'.op \in consent
    PROVE  IndInv'
<1>1. (job \in Jobs)' /\ GateFits'
  BY GateStays DEF IndInv, Workers
<1>2. SetTypes'
  BY DEF IndInv, Workers, SetTypes, Ledger, history
<1>3. Workers'
  BY <1>1, <1>2 DEF IndInv, Workers, history
<1>. QED
  BY <1>3, StoresAlone DEF history

LEMMA PollBeginsKeeps == ASSUME IndInv, PollBegins PROVE IndInv'
<1>1. pending' \subseteq Ops
  BY DEF PollBegins, IndInv, Workers, SetTypes
<1>2. poll' \in Polls /\ poll'.at = "next"
  BY <1>1 DEF PollBegins, NoPoll, Polls, States
<1>. QED
  BY <1>1, <1>2, PollMoves DEF PollBegins, PollTypes, IndInv, Workers, SetTypes, brainVars

LEMMA PollReadsKeeps == ASSUME NEW o \in Ops, IndInv, PollReads(o) PROVE IndInv'
<1>. DEFINE unfinished == Unfinished(o)
            late == rec[o].state = "prepared" /\ o \in expired
            preview == rec[o].state = "prepared"
            at == IF unfinished THEN "admit" ELSE IF late THEN "discard" ELSE "finish"
            state == IF unfinished THEN rec[o].state ELSE "none"
            todo == poll.todo \ {o}
<1>1. rec[o].state \in States /\ preview \in BOOLEAN
  BY DEF IndInv, Ledger, StoreTypes, Rows
<1>2. /\ at \in {"admit", "discard", "finish"} /\ state \in States /\ todo \subseteq Ops
      /\ at = "admit" => unfinished
  BY <1>1 DEF States, IndInv, Workers, PollTypes, Polls
<1>3. unfinished => o \in consent
  BY DEF Unfinished, IndInv, Ledger, ConsentFits, AdmittedStates
<1>4. poll' = [poll EXCEPT !.op = o, !.todo = todo, !.state = state, !.at = at,
                           !.refresh = preview]
  BY DEF PollReads
<1>. HIDE DEF unfinished, late, preview, at, state, todo
<1>5. poll' \in Polls /\ poll'.at = at /\ poll'.op = o
  BY <1>1, <1>2, <1>4 DEF IndInv, Workers, PollTypes, Polls
<1>. QED
  BY <1>2, <1>3, <1>5, PollMoves
     DEF PollReads, PollTypes, IndInv, Workers, SetTypes, brainVars, history

LEMMA PollAdmitsKeeps == ASSUME IndInv, PollAdmits PROVE IndInv'
<1>. DEFINE again == \/ poll.op \notin admitted
                     \/ poll.state \in {"committing", "reconciling"}
<1>1. poll.at = "admit" /\ poll.op \in Ops /\ poll.op \in consent /\ poll \in Polls
  BY DEF PollAdmits, IndInv, Workers, PollTypes
<1>2. again \in BOOLEAN
  OBVIOUS
<1>3. \/ /\ serve = "up" /\ admitted' = admitted \cup {poll.op}
         /\ poll' = [poll EXCEPT !.at = "wait", !.state = "none"]
      \/ /\ admitted' = admitted
         /\ poll' = [poll EXCEPT !.at = "finish", !.state = "none", !.refresh = again]
  BY DEF PollAdmits, MayAdmit
<1>. HIDE DEF again
<1>4. poll' \in Polls /\ poll'.at \in {"wait", "finish"} /\ poll'.op = poll.op
  BY <1>1, <1>2, <1>3 DEF Polls, States
<1>5. /\ admitted \subseteq admitted' /\ admitted' \subseteq admitted \cup (consent \cap Ops)
      /\ admitted' # admitted => serve = "up"
  BY <1>1, <1>3
<1>. QED
  BY <1>1, <1>4, <1>5, PollMoves DEF PollAdmits, PollTypes, IndInv, Workers, SetTypes, brainVars

LEMMA PollDiscardsKeeps == ASSUME IndInv, PollDiscards PROVE IndInv'
<1>. DEFINE again == rec[poll.op].state # "discarded"
<1>1. poll.at = "discard" /\ poll.op \in Ops /\ poll \in Polls
  BY DEF PollDiscards, IndInv, Workers, PollTypes
<1>2. again \in BOOLEAN
  OBVIOUS
<1>3. \/ BeginDiscard(poll.op, "poll") /\ poll' = [poll EXCEPT !.at = "wait"]
      \/ /\ poll' = [poll EXCEPT !.at = "finish", !.refresh = again]
         /\ UNCHANGED <<job, receipt, released>>
  BY DEF PollDiscards
<1>. HIDE DEF again
<1>4. PollTypes' /\ poll'.at # "admit"
  BY <1>1, <1>2, <1>3 DEF PollTypes, Polls
<1>5. CASE BeginDiscard(poll.op, "poll")
  BY <1>1, <1>4, <1>5, BeginDiscardKeeps DEF PollDiscards
<1>6. CASE UNCHANGED <<job, receipt, released>>
  BY <1>4, <1>6, PollMoves DEF PollDiscards, IndInv, Workers, SetTypes, history
<1>. QED
  BY <1>3, <1>5, <1>6

LEMMA PollFinishesKeeps == ASSUME IndInv, PollFinishes PROVE IndInv'
<1>1. pending' \subseteq Ops
  BY DEF PollFinishes, IndInv, Workers, SetTypes
<1>2. poll' \in Polls /\ poll'.at = "next"
  BY DEF PollFinishes, IndInv, Workers, PollTypes, Polls, States
<1>. QED
  BY <1>1, <1>2, PollMoves DEF PollFinishes, PollTypes, IndInv, Workers, SetTypes, brainVars

LEMMA NoPollFits == NoPoll \in Polls /\ NoPoll.at = "idle"
BY DEF NoPoll, Polls, States

LEMMA PollSleepsKeeps == ASSUME IndInv, PollSleeps PROVE IndInv'
BY NoPollFits, PollMoves DEF PollSleeps, PollTypes, IndInv, Workers, SetTypes, brainVars

LEMMA CancelKeeps == ASSUME IndInv, Cancel PROVE IndInv'
<1>1. UNCHANGED <<rec, receipt, done, consent, released>>
  BY DEF Cancel, brainVars, history
<1>2. (job \in Jobs)' /\ GateFits'
  <2>1. CASE job' = NoJob
    BY <2>1, GateFree
  <2>2. CASE job' = job
    BY <1>1, <2>2, GateStays DEF Cancel, IndInv, Workers
  <2>. QED
    BY <2>1, <2>2 DEF Cancel
<1>3. Workers'
  BY <1>2, NoPollFits DEF Cancel, IndInv, Workers, PollTypes, SetTypes, brainVars, history
<1>. QED
  BY <1>1, <1>3, StoresAlone

LEMMA CloseKeeps == ASSUME IndInv, Close PROVE IndInv'
<1>1. UNCHANGED <<rec, receipt, done, consent, released>>
  BY DEF Close, brainVars, history
<1>2. (job \in Jobs)' /\ GateFits'
  BY <1>1, GateStays DEF Close, IndInv, Workers
<1>3. Workers'
  BY <1>2 DEF Close, IndInv, Workers, PollTypes, SetTypes, brainVars, pollVars, history
<1>. QED
  BY <1>1, <1>3, StoresAlone

LEMMA RestartKeeps == ASSUME IndInv, Restart PROVE IndInv'
<1>1. (job \in Jobs)' /\ GateFits'
  BY GateFree DEF Restart
<1>2. Workers'
  BY <1>1, NoPollFits DEF Restart, IndInv, Workers, PollTypes, SetTypes, brainVars, history
<1>. QED
  BY <1>2, StoresAlone DEF Restart, brainVars, history

LEMMA StutterKeeps == ASSUME IndInv, UNCHANGED vars PROVE IndInv'
<1>1. UNCHANGED <<rec, receipt, done, job, admitted, consent, released>>
  BY DEF vars, brainVars, history
<1>2. (job \in Jobs)' /\ GateFits'
  BY <1>1, GateStays DEF IndInv, Workers
<1>3. Workers'
  BY <1>2 DEF vars, IndInv, Workers, PollTypes, SetTypes, brainVars, pollVars, history
<1>. QED
  BY <1>1, <1>3, StoresAlone

-----------------------------------------------------------------------------
(***************************************************************************)
(* The theorems.                                                           *)
(***************************************************************************)
LEMMA InitFits == Init => IndInv
<1>. SUFFICES ASSUME Init PROVE IndInv
  OBVIOUS
<1>1. NoRow \in Rows /\ NoRow.state = "none"
  BY DEF NoRow, Rows, States
<1>2. StoreTypes /\ \A o \in Ops : rec[o].state = "none" /\ receipt[o] = "none" /\ done[o] = "none"
  BY <1>1 DEF Init, StoreTypes, Receipts, Phases
<1>3. Ledger
  BY <1>2 DEF Init, Ledger, ByKind, ConsentFits, AdmittedStates, SavedBeforeBegun, BegunIsSaved,
              ReleaseIsSaved, Begun, ConfirmedIsDone
<1>4. job \in Jobs /\ GateFits
  BY NoJobFits DEF Init, GateFits, PrepareFits, DiscardFits, CommitFits
<1>5. Workers
  BY <1>4, NoPollFits DEF Init, Workers, PollTypes, SetTypes
<1>. QED
  BY <1>3, <1>5 DEF IndInv

LEMMA NextKeeps == IndInv /\ [Next]_vars => IndInv'
<1>. SUFFICES ASSUME IndInv, [Next]_vars PROVE IndInv'
  OBVIOUS
<1>1. CASE \E o \in Ops : \/ Process(o) \/ Expire(o) \/ Prepare(o) \/ Discard(o)
                      \/ Commit(o) \/ Start(o)
  BY <1>1, ProcessKeeps, ExpireKeeps, PrepareKeeps, DiscardKeeps, CommitKeeps, StartKeeps
<1>2. CASE RecordChanges \/ CallStep \/ CallEnds
  BY <1>2, RecordChangesKeeps, PrepareChecksKeeps, PrepareCreatesKeeps, DiscardWritesKeeps,
     CallEndsKeeps DEF CallStep
<1>3. CASE TaskStep \/ CommitFails
  BY <1>3, CommitChecksKeeps, CommitMarksKeeps, CommitReleasesKeeps, CommitNativeKeeps,
     CommitMemoryKeeps, CommitSavesKeeps, CommitFailsKeeps DEF TaskStep
<1>4. CASE PollStep
  BY <1>4, PollBeginsKeeps, PollReadsKeeps, PollAdmitsKeeps, PollDiscardsKeeps,
     PollFinishesKeeps, PollSleepsKeeps DEF PollStep
<1>5. CASE Cancel \/ Close \/ Restart
  BY <1>5, CancelKeeps, CloseKeeps, RestartKeeps
<1>6. CASE UNCHANGED vars
  BY <1>6, StutterKeeps
<1>. QED
  BY <1>1, <1>2, <1>3, <1>4, <1>5, <1>6 DEF Next

LEMMA IndInvHolds == Spec => []IndInv
BY InitFits, NextKeeps, PTL DEF Spec

\* The journal, the Brain, the tasks and the recovery keep their types, and a task that
\* holds the gate is one that was admitted (MutationService, Journal, JournalPoll).
THEOREM MemoryTypeCorrect == Spec => []TypeOK
<1>1. IndInv => TypeOK
  BY DEF IndInv, Workers, Ledger, StoreTypes, PollTypes, SetTypes, Jobs, Polls, Rows, Receipts,
         Phases, GateFits, CommitFits, TypeOK
<1>. QED
  BY <1>1, IndInvHolds, PTL

\* Whatever a commit does in the Brain is the owner's will and was in the journal before,
\* whichever answer is lost and wherever the daemon ends (commit_inner).
THEOREM SavedBeforeBegunHolds == Spec => []SavedBeforeBegun
<1>1. IndInv => SavedBeforeBegun
  BY DEF IndInv, Ledger
<1>. QED
  BY <1>1, IndInvHolds, PTL

\* A change that is called confirmed has taken effect, and nothing of a deleted record is
\* kept with it (settle_confirmed, product_commit, commit_erasure).
THEOREM ConfirmedIsDoneHolds == Spec => []ConfirmedIsDone
<1>1. IndInv => ConfirmedIsDone
  BY DEF IndInv, Ledger
<1>. QED
  BY <1>1, IndInvHolds, PTL

\* A service that has closed has no task under way (run, tasks.wait).
THEOREM ClosedIsQuietHolds == Spec => []ClosedIsQuiet
<1>1. IndInv => ClosedIsQuiet
  BY DEF IndInv, Workers, GateFits, CommitFits, ClosedIsQuiet
<1>. QED
  BY <1>1, IndInvHolds, PTL

\* The row of a discarded change is not written any more, but by discard itself.
LEMMA DiscardedStays ==
    ASSUME NEW o \in Ops, IndInv, rec[o].state = "discarded", [Next]_vars
    PROVE  rec'[o].state = "discarded"
<1>1. \A q \in Ops : \A row :
          rec' = [rec EXCEPT ![q] = row] => rec'[o] = IF q = o THEN row ELSE rec[o]
  BY DEF IndInv, Ledger, StoreTypes
<1>2. CASE UNCHANGED rec
  BY <1>2
<1>3. CASE PrepareCreates \/ CallEnds
  <2>1. CASE rec' = [rec EXCEPT ![job.op] = Prepared] /\ job.at = "create"
    <3>1. job.op \in Ops /\ rec[job.op].state = "none"
      BY <1>3, <2>1 DEF PrepareCreates, CallEnds, IndInv, Workers, GateFits, PrepareFits,
                        DiscardFits
    <3>. QED
      BY <1>1, <2>1, <3>1
  <2>. QED
    BY <1>2, <1>3, <2>1 DEF PrepareCreates, CallEnds, Write
<1>4. CASE DiscardWrites
  <2>1. job.op \in Ops /\ rec[job.op].state = "prepared"
    BY <1>4 DEF DiscardWrites, IndInv, Workers, GateFits, DiscardFits
  <2>. QED
    BY <1>1, <1>4, <2>1 DEF DiscardWrites, Write
<1>5. CASE CommitMarks \/ CommitSaves
  <2>1. job.op \in Ops /\ rec[job.op].state # "discarded"
    BY <1>5, AtWork DEF CommitMarks, CommitSaves, Asking, Heard
  <2>. QED
    BY <1>1, <1>5, <2>1 DEF CommitMarks, CommitSaves, Write
<1>. QED
  BY <1>2, <1>3, <1>4, <1>5
     DEF Next, vars, CallStep, TaskStep, PollStep, Process, Expire, Prepare, Discard, Commit,
         Start, RecordChanges, PrepareChecks, CommitChecks, CommitReleases, CommitNative,
         CommitMemory, CommitFails, PollBegins, PollReads, PollAdmits, PollDiscards,
         PollFinishes, PollSleeps, Cancel, Close, Restart

\* What was discarded is over: no admitted task, no recovery and no crash takes it up
\* again or carries it out (discard, commit_inner).
THEOREM DiscardStandsHolds == Spec => DiscardStands
<1>. DEFINE Stands ==
        \A o \in Ops : rec[o].state = "discarded" => rec'[o].state = "discarded" /\ ~Begun(o)'
<1>1. IndInv /\ [Next]_vars => [Stands]_vars
  <2>. SUFFICES ASSUME IndInv, [Next]_vars, NEW o \in Ops, rec[o].state = "discarded"
                PROVE  rec'[o].state = "discarded" /\ ~Begun(o)'
    OBVIOUS
  <2>1. rec'[o].state = "discarded"
    BY DiscardedStays
  <2>2. SavedBeforeBegun'
    BY NextKeeps DEF IndInv, Ledger
  <2>. QED
    BY <2>1, <2>2 DEF SavedBeforeBegun, BegunIsSaved
<1>. QED
  BY <1>1, IndInvHolds, PTL DEF Spec, DiscardStands
=============================================================================
