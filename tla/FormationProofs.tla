--------------------------- MODULE FormationProofs ---------------------------
(***************************************************************************)
(* The Formation journal for any number of conversations and messages, of  *)
(* faults and of crashes: no message that is to be formed is skipped, and  *)
(* none reaches the Brain twice but for the reasons FormedOnce names.      *)
(***************************************************************************)
EXTENDS FormationJournal, TLAPS

States == {"none", "pending", "accepted", "completed", "failed", "suppressed"}
Phases == {"staged", "recorded", "processed", "failed", "refused"}
SubSteps == {"idle", "create", "save", "stage", "observe", "receipt"}
Rows == [state : States, end : 0..MaxSaved, time : Times \cup {0}, attempt : Nat,
         receipt : BOOLEAN, native : BOOLEAN]
Windows == [key : Keys, attempt : Nat, end : 1..MaxSaved, time : Times \cup {0}, phase : Phases]
Subs == [pc : SubSteps, key : Keys, row : Rows, asked : Times \cup {0}, replaced : BOOLEAN,
         next : {"stay", "compact", "end"}]
Recs == [pc : {"idle", "next", "refresh", "index"}, todo : SUBSET Keys, key : Keys, row : Rows]

Used(k) == rows[k] # NoRow
Done(row) == row.native \/ row.state = "suppressed"
Active == sub.pc # "idle"

\* Content and what it grew by, with the cards as a parameter.
Inside(C, k, end) == {m \in k[2]..end - 1 : <<k[1], m>> \notin C}
Longer(C, k, old, new) == \E m \in Inside(C, k, new) : old <= m

\* The types of what TypeOK leaves open.
Types ==
    /\ conv \in Convs /\ saved \in [Convs -> 0..MaxSaved] /\ mark \in 0..MaxSaved
    /\ backoff \in BOOLEAN /\ time \in Times
    /\ cards \in SUBSET Keys
    /\ rows \in [Keys -> Rows] /\ brain \in SUBSET Windows
    /\ sub \in Subs /\ rec \in Recs
    /\ changed \in SUBSET Keys /\ pending \in SUBSET Keys /\ scanned \in BOOLEAN
    /\ index \in SUBSET Keys

\* The submission is about the window behind the offset, and has the lock of its row.
Submitting ==
    /\ ~Active => sub = NoSub
    /\ sub.next # "stay" => conv < MaxConvs
    /\ Active => /\ sub.key = <<conv, mark>> /\ mark < sub.row.end /\ sub.row.end = saved[conv]
                 /\ Inside(cards, sub.key, sub.row.end) # {}
                 /\ sub.row.state = "pending" /\ ~sub.row.native /\ ~sub.row.receipt
    /\ sub.pc = "save" => Used(sub.key) /\ ~Done(rows[sub.key])
    /\ sub.pc \in {"stage", "observe", "receipt"} => rows[sub.key] = sub.row

\* A submission that saves its row again repeats the attempt or makes the next one.
Retrying ==
    /\ sub.pc = "create" => ~sub.replaced
    /\ sub.pc = "save" =>
          \/ /\ ~sub.replaced
             /\ sub.row.attempt = rows[sub.key].attempt /\ sub.row.time = rows[sub.key].time
          \/ sub.row.attempt = rows[sub.key].attempt + 1

\* A row of a window has something to form, and is no longer than what was saved.
RowsFit ==
    /\ \A k \in Keys : Used(k) => /\ k[2] < rows[k].end /\ rows[k].end <= saved[k[1]]
                                  /\ Inside(cards, k, rows[k].end) # {}
                                  /\ rows[k].state # "none"
    /\ \A k \in cards : k[2] < saved[k[1]]

\* The Brain's windows are known to the journal, one under a key and attempt.
WindowsKnown ==
    /\ \A b \in brain : /\ Used(b.key)
                        /\ b.attempt <= rows[b.key].attempt
                        /\ b.end <= rows[b.key].end
                        /\ b.attempt = rows[b.key].attempt => b.time = rows[b.key].time
    /\ \A a, b \in brain : a.key = b.key /\ a.attempt = b.attempt => a = b

\* A row that says so is a window the Brain has taken.
NativeIsTaken ==
    \A k \in Keys : rows[k].native =>
        \E b \in brain : /\ b.key = k /\ b.attempt = rows[k].attempt /\ Taken(b)
                         /\ Inside(cards, k, b.end) = Inside(cards, k, rows[k].end)

\* Where a submission stands with the Brain.
AtTheBrain ==
    /\ sub.pc \in {"observe", "receipt"} =>
          \A b \in Staged(sub.key, sub.row.attempt) :
             Inside(cards, sub.key, b.end) = Inside(cards, sub.key, sub.row.end)
    /\ sub.pc = "receipt" => \A b \in Staged(sub.key, sub.row.attempt) : b.phase # "staged"

\* Rows are only refreshed when the Brain has them.
Refreshing == rec.pc = "refresh" => rows[rec.key].native

\* Everything before message n is passed over, or in a window that is done.
Passed(c, n) ==
    \A m \in 0..MaxSaved : m < n =>
        \/ <<c, m>> \in cards
        \/ \E j \in Keys : j[1] = c /\ j[2] <= m /\ m < rows[j].end /\ Done(rows[j])

\* The windows of a conversation follow each other, or one lies in another that begins
\* with messages that were passed over and took the place of the passage after a crash.
InOrder ==
    /\ crashes \in Nat
    /\ \A j, k \in Keys :
          j[1] = k[1] /\ j[2] < k[2] /\ k[2] < rows[j].end /\ rows[k] # NoRow =>
             rows[k].end <= rows[j].end /\ j \in cards /\ crashes > 0
    /\ \A k \in Keys : rows[k] # NoRow => Passed(k[1], k[2])

\* The offset stands inside no window, and without a crash behind all of them.
MarkInOrder ==
    /\ \A j \in Keys : j[1] = conv /\ rows[j] # NoRow /\ j[2] < mark => rows[j].end <= mark
    /\ Passed(conv, mark)
    /\ crashes = 0 => \A j \in Keys : rows[j] # NoRow =>
                         j[1] < conv \/ (j[1] = conv /\ j[2] <= mark)

\* A window that may be formed again: its attempt ended in an error, or there is more to
\* form in the next one.
Unclear(b) == <<b.key, b.attempt>> \in errored
Superseded(b, end) == Taken(b) => Unclear(b) \/ Longer(cards, b.key, b.end, end)

\* What Again takes for a definite rejection.
Rejected(row) == ~row.native /\ (row.state = "failed" \/ row.receipt)

Attempts ==
    /\ \A a \in brain : a.attempt < rows[a.key].attempt => Superseded(a, rows[a.key].end)
    /\ \A a, b \in brain : a.key = b.key /\ a.attempt < b.attempt => Superseded(a, b.end)
    /\ \A a \in brain : a.attempt = rows[a.key].attempt /\ Rejected(rows[a.key]) =>
                            (Taken(a) => Unclear(a))
    /\ sub.pc = "save" =>
          \A a \in brain : a.key = sub.key /\ a.attempt < sub.row.attempt => Superseded(a, sub.row.end)
    /\ sub.pc = "stage" /\ sub.replaced =>
          \A a \in brain : ~(a.key = sub.key /\ a.attempt = sub.row.attempt)

Base ==
    /\ Types /\ Submitting /\ Retrying /\ RowsFit /\ WindowsKnown /\ NativeIsTaken
    /\ AtTheBrain /\ Refreshing

-----------------------------------------------------------------------------
(***************************************************************************)
(* What the journal and the Brain are, in types and links.                 *)
(***************************************************************************)
LEMMA NothingYet == NoRow \in Rows /\ NoSub \in Subs /\ NoRec \in Recs
<1>1. NoRow \in Rows
  BY FormationAssumption DEF NoRow, Rows, States
<1>2. <<1, 0>> \in Keys
  BY FormationAssumption DEF Keys, Convs
<1> QED
  BY <1>1, <1>2 DEF NoSub, NoRec, Subs, Recs, SubSteps

LEMMA BaseInit == Init => Base
<1> SUFFICES ASSUME Init PROVE Base
  OBVIOUS
<1>1. Types
  <2>1. backoff \in BOOLEAN /\ scanned \in BOOLEAN
    BY Zenon DEF Init
  <2>2. conv \in Convs /\ saved \in [Convs -> 0..MaxSaved] /\ mark \in 0..MaxSaved /\ time \in Times
    BY FormationAssumption DEF Init, Convs, Times
  <2>3. rows \in [Keys -> Rows] /\ brain \in SUBSET Windows /\ sub \in Subs /\ rec \in Recs
    BY NothingYet DEF Init
  <2>4. /\ changed \in SUBSET Keys /\ pending \in SUBSET Keys /\ index \in SUBSET Keys
        /\ cards \in SUBSET Keys
    BY DEF Init
  <2> QED
    BY <2>1, <2>2, <2>3, <2>4 DEF Types
<1>2. (\A k \in Keys : rows[k] = NoRow) /\ cards = {}
  BY DEF Init
<1>3. Submitting /\ Retrying /\ RowsFit /\ WindowsKnown /\ AtTheBrain /\ Refreshing
  BY <1>2 DEF Init, Submitting, Retrying, RowsFit, WindowsKnown, AtTheBrain, Refreshing, Active, Used,
              NoSub, NoRec
<1>4. NativeIsTaken
  BY <1>2 DEF NativeIsTaken, NoRow
<1> QED
  BY <1>1, <1>3, <1>4 DEF Base

\* What a refresh does to a row the journal knows to be done.
LEMMA RefreshedRow ==
    ASSUME Types, RowsFit, WindowsKnown, NativeIsTaken, NEW k \in Keys, Done(rows[k])
    PROVE  LET row == Refreshed(k, rows[k]) IN
              /\ row \in Rows /\ row.end = rows[k].end /\ row.time = rows[k].time
              /\ row.attempt = rows[k].attempt /\ row.native = rows[k].native
              /\ row.state # "none" /\ row # NoRow /\ Used(k) /\ (row.native \/ row = rows[k])
              /\ (row.state = "suppressed") <=> (rows[k].state = "suppressed")
<1> DEFINE old == rows[k]
           row == Refreshed(k, old)
<1>1. old \in Rows
  BY DEF Types
<1>2. Used(k)
  BY <1>1 DEF Used, Done, NoRow
<1>3. old.state # "none" /\ 0 <= k[2]
  BY <1>2 DEF RowsFit, Keys
<1>4. CASE Settled(old)
  <2>1. row = old
    BY <1>4 DEF Refreshed
  <2> QED
    BY <2>1, <1>1, <1>2, <1>3 DEF Used
<1>5. CASE ~Settled(old)
  <2>1. old.native = TRUE /\ old.state # "suppressed"
    BY <1>1, <1>5 DEF Done, Settled, Rows
  <2> DEFINE w == CHOOSE b \in Staged(k, old.attempt) : TRUE
  <2>2. PICK b \in brain : b.key = k /\ b.attempt = old.attempt /\ Taken(b)
    BY <2>1 DEF NativeIsTaken
  <2>3. w \in brain /\ w.key = k /\ w.attempt = old.attempt
    BY <2>2 DEF Staged
  <2>4. w = b
    BY <2>2, <2>3 DEF WindowsKnown
  <2>5. StateOf(w.phase) \in {"accepted", "completed", "failed"}
    BY <2>2, <2>4 DEF Taken, StateOf
  <2>6. row = [old EXCEPT !.state = StateOf(w.phase), !.native = @ \/ Taken(w)]
    BY <1>5 DEF Refreshed
  <2>7. row.native = TRUE
    BY <2>6, <2>1, <1>1 DEF Rows
  <2>8. /\ row.state = StateOf(w.phase) /\ row.end = old.end /\ row.time = old.time
        /\ row.attempt = old.attempt /\ row.receipt = old.receipt
        /\ row = [state |-> row.state, end |-> row.end, time |-> row.time,
                  attempt |-> row.attempt, receipt |-> row.receipt, native |-> row.native]
    BY <2>6, <1>1 DEF Rows
  <2>9. row \in Rows
    BY <2>8, <2>7, <2>5, <1>1 DEF Rows, States
  <2>10. row # NoRow /\ row.state # "none" /\ row.state # "suppressed"
    BY <2>8, <2>5 DEF NoRow
  <2> QED
    BY <2>1, <2>7, <2>8, <2>9, <2>10, <1>2
<1> QED
  BY <1>4, <1>5


-----------------------------------------------------------------------------
(***************************************************************************)
(* What there is to form in a window.                                      *)
(***************************************************************************)
\* Cards are added at the end of what is saved.
LEMMA CardsStep ==
    ASSUME Base, Next
    PROVE  /\ cards \subseteq cards'
           /\ cards' = cards \/ (Save /\ cards' \subseteq cards \cup {<<conv, saved[conv]>>})
<1>1. CASE Save
  BY <1>1 DEF Save
<1>2. CASE BackoffEnds \/ Submit \/ \E next \in {"compact", "end"} : Leave(next)
  BY <1>2 DEF BackoffEnds, Submit, Leave, Begin, PassOver
<1>3. CASE Submission
  BY <1>3 DEF Submission, Create, Again, Known, SaveRow, Stage, Conflict, Suppressed, Observe,
              ReadReceipt, Ends, Returns, session
<1>4. CASE Faulty
  BY <1>4 DEF Faulty, BrainFails, JournalFails, RefreshFails, Indexed, Ends, Fails, Returns, session
<1>5. CASE Reconcile
  BY <1>5 DEF Reconcile, Poll, Read, Refresh, Finish, Indexed, session
<1>6. CASE Process \/ Exclude \/ Crash
  BY <1>6 DEF Process, Exclude, Crash, session
<1> QED
  BY <1>1, <1>2, <1>3, <1>4, <1>5, <1>6 DEF Next

\* What was saved is to be formed or not, once and for all.
LEMMA InsideStays ==
    ASSUME Base, Next, NEW k \in Keys, NEW end \in Nat, end <= saved[k[1]]
    PROVE  Inside(cards', k, end) = Inside(cards, k, end)
<1>1. \A m \in k[2]..end - 1 : m < saved[k[1]]
  BY DEF Base, Types, Keys
<1>2. \A m \in k[2]..end - 1 : <<k[1], m>> \in cards' <=> <<k[1], m>> \in cards
  <2> SUFFICES ASSUME NEW m \in k[2]..end - 1 PROVE <<k[1], m>> \in cards' <=> <<k[1], m>> \in cards
    OBVIOUS
  <2>1. saved[conv] \in Nat /\ saved[k[1]] \in Nat /\ m \in Int
    BY FormationAssumption DEF Base, Types, Keys
  <2>2. <<k[1], m>> # <<conv, saved[conv]>>
    BY <1>1, <2>1
  <2> QED
    BY <2>2, CardsStep
<1> QED
  BY <1>2 DEF Inside

\* No window is longer than what was saved.
LEMMA EndsFit ==
    ASSUME Base
    PROVE  /\ \A k \in Keys : /\ k[2] \in Nat /\ saved[k[1]] \in Nat
                              /\ rows[k].end \in Nat /\ rows[k].attempt \in Nat
                              /\ Used(k) => rows[k].end <= saved[k[1]]
           /\ \A b \in brain : /\ b.key \in Keys /\ b.end \in Nat /\ b.attempt \in Nat
                               /\ b.end <= saved[b.key[1]] /\ b.end <= rows[b.key].end
<1>1. \A k \in Keys : /\ k[2] \in Nat /\ saved[k[1]] \in Nat
                      /\ rows[k].end \in Nat /\ rows[k].attempt \in Nat
                      /\ Used(k) => rows[k].end <= saved[k[1]]
  BY FormationAssumption DEF Base, Types, Rows, Keys, RowsFit
<1>2. ASSUME NEW b \in brain
      PROVE  /\ b.key \in Keys /\ b.end \in Nat /\ b.attempt \in Nat
             /\ b.end <= saved[b.key[1]] /\ b.end <= rows[b.key].end
  <2>1. b.key \in Keys /\ b.end \in Nat /\ b.attempt \in Nat
    BY FormationAssumption DEF Base, Types, Windows
  <2>2. Used(b.key) /\ b.end <= rows[b.key].end
    BY DEF Base, WindowsKnown
  <2> QED
    BY <1>1, <2>1, <2>2
<1> QED
  BY <1>1, <1>2

LEMMA LongerMore ==
    ASSUME NEW C, NEW k \in Keys, NEW old \in Nat, NEW e \in Nat, NEW f \in Nat, e <= f,
           Longer(C, k, old, e)
    PROVE  Longer(C, k, old, f)
BY DEF Longer, Inside, Keys

\* A window that ends later and has other bytes has more to form.
LEMMA LongerIs ==
    ASSUME NEW C, NEW k \in Keys, NEW old \in Nat, NEW new \in Nat, old <= new
    PROVE  Inside(C, k, old) # Inside(C, k, new) <=> Longer(C, k, old, new)
<1>1. k[2] \in Nat
  BY DEF Keys
<1>2. ASSUME ~Longer(C, k, old, new) PROVE Inside(C, k, old) = Inside(C, k, new)
  BY <1>1, <1>2 DEF Longer, Inside
<1>3. ASSUME Longer(C, k, old, new) PROVE Inside(C, k, old) # Inside(C, k, new)
  <2>1. PICK m \in Inside(C, k, new) : old <= m
    BY <1>3 DEF Longer
  <2>2. m \notin Inside(C, k, old)
    BY <1>1, <2>1 DEF Inside
  <2> QED
    BY <2>1, <2>2
<1> QED
  BY <1>2, <1>3

\* What a submission keeps that moves to another attempt.
Kept(s, z) ==
    /\ z.pc = "save" /\ z.key = s.key /\ z.asked = s.asked /\ z.next = s.next
    /\ z.row.end = s.row.end /\ z.row.state = s.row.state
    /\ z.row.native = s.row.native /\ z.row.receipt = s.row.receipt

LEMMA Repeats ==
    ASSUME NEW s \in Subs, NEW n \in Nat, NEW t \in Times \cup {0}
    PROVE  LET z == [s EXCEPT !.pc = "save", !.row.attempt = n, !.row.time = t] IN
              Kept(s, z) /\ z.replaced = s.replaced /\ z.row.attempt = n /\ z.row.time = t /\ z \in Subs
<1> DEFINE z == [s EXCEPT !.pc = "save", !.row.attempt = n, !.row.time = t]
           r == [[s.row EXCEPT !.attempt = n] EXCEPT !.time = t]
<1>1. s.row \in Rows
  BY DEF Subs
<1>2. r \in Rows /\ r.attempt = n /\ r.time = t /\ r.end = s.row.end /\ r.state = s.row.state
      /\ r.native = s.row.native /\ r.receipt = s.row.receipt
  BY <1>1 DEF Rows
<1> HIDE DEF r
<1>3. z = [s EXCEPT !.pc = "save", !.row = r]
  BY <1>1 DEF Subs, Rows, r
<1> HIDE DEF z
<1>4. z.row = r /\ z.pc = "save" /\ z.key = s.key /\ z.asked = s.asked
      /\ z.replaced = s.replaced /\ z.next = s.next
  BY <1>3 DEF Subs
<1>5. z \in Subs
  BY <1>3, <1>2 DEF Subs, SubSteps
<1>6. Kept(s, z) /\ z.replaced = s.replaced /\ z.row.attempt = n /\ z.row.time = t /\ z \in Subs
  BY <1>2, <1>4, <1>5 DEF Kept
<1> QED
  BY <1>6 DEF z

LEMMA Replaces ==
    ASSUME NEW s \in Subs, NEW n \in Nat, NEW t \in Times \cup {0}
    PROVE  LET z == [s EXCEPT !.pc = "save", !.replaced = TRUE, !.row.attempt = n, !.row.time = t] IN
              Kept(s, z) /\ z.replaced = TRUE /\ z.row.attempt = n /\ z.row.time = t /\ z \in Subs
<1> DEFINE z == [s EXCEPT !.pc = "save", !.replaced = TRUE, !.row.attempt = n, !.row.time = t]
           r == [[s.row EXCEPT !.attempt = n] EXCEPT !.time = t]
<1>1. s.row \in Rows
  BY DEF Subs
<1>2. r \in Rows /\ r.attempt = n /\ r.time = t /\ r.end = s.row.end /\ r.state = s.row.state
      /\ r.native = s.row.native /\ r.receipt = s.row.receipt
  BY <1>1 DEF Rows
<1> HIDE DEF r
<1>3. z = [s EXCEPT !.pc = "save", !.replaced = TRUE, !.row = r]
  BY <1>1 DEF Subs, Rows, r
<1> HIDE DEF z
<1>4. z.row = r /\ z.pc = "save" /\ z.key = s.key /\ z.asked = s.asked
      /\ z.replaced = TRUE /\ z.next = s.next
  BY <1>3 DEF Subs
<1>5. z \in Subs
  BY <1>3, <1>2 DEF Subs, SubSteps
<1>6. Kept(s, z) /\ z.replaced = TRUE /\ z.row.attempt = n /\ z.row.time = t /\ z \in Subs
  BY <1>2, <1>4, <1>5 DEF Kept
<1> QED
  BY <1>6 DEF z

LEMMA AgainMoves ==
    ASSUME Types, Again
    PROVE  LET old == rows[sub.key]
               rejected == old.state = "failed" \/ old.receipt
           IN  /\ Kept(sub, sub') /\ sub' \in Subs
               /\ sub'.replaced = sub.replaced
               /\ sub'.row.attempt = old.attempt + (IF rejected THEN 1 ELSE 0)
               /\ sub'.row.time = (IF rejected THEN sub.row.time ELSE old.time)
<1> DEFINE old == rows[sub.key]
           rejected == old.state = "failed" \/ old.receipt
           n == old.attempt + (IF rejected THEN 1 ELSE 0)
           t == IF rejected THEN sub.row.time ELSE old.time
<1>1. sub \in Subs /\ sub.row \in Rows /\ old \in Rows
  BY DEF Types, Subs
<1>2. n \in Nat /\ t \in Times \cup {0}
  BY <1>1 DEF Rows
<1> DEFINE z == [sub EXCEPT !.pc = "save", !.row.attempt = n, !.row.time = t]
<1>3. sub' = z
  BY DEF Again
<1> HIDE DEF n, t
<1>4. Kept(sub, z) /\ z.replaced = sub.replaced /\ z.row.attempt = n /\ z.row.time = t
      /\ z \in Subs
  BY ONLY <1>1, <1>2, Repeats, Zenon
<1> HIDE DEF z
<1> QED
  BY <1>3, <1>4 DEF n, t

LEMMA ConflictMoves ==
    ASSUME Types, Conflict, ~sub.replaced
    PROVE  /\ Kept(sub, sub') /\ sub' \in Subs /\ sub'.replaced = TRUE
           /\ sub'.row.attempt = sub.row.attempt + 1 /\ sub'.row.time = sub.asked
           /\ UNCHANGED <<session, rows, brain, changed>>
<1>1. sub \in Subs /\ sub.row \in Rows
  BY DEF Types, Subs
<1> DEFINE n == sub.row.attempt + 1
           t == sub.asked
<1>2. n \in Nat /\ t \in Times \cup {0}
  BY <1>1 DEF Rows, Subs
<1> DEFINE z == [sub EXCEPT !.pc = "save", !.replaced = TRUE, !.row.attempt = n, !.row.time = t]
<1>3. sub' = z /\ UNCHANGED <<session, rows, brain, changed>>
  BY DEF Conflict
<1> HIDE DEF n, t
<1>4. Kept(sub, z) /\ z.replaced = TRUE /\ z.row.attempt = n /\ z.row.time = t /\ z \in Subs
  BY ONLY <1>1, <1>2, Replaces, Zenon
<1> HIDE DEF z
<1> QED
  BY <1>3, <1>4 DEF n, t

\* A submission that begins.
LEMMA BeginMoves ==
    ASSUME Types, NEW next \in {"stay", "compact", "end"}, Begin(next)
    PROVE  /\ sub' \in Subs /\ sub'.pc = "create" /\ sub'.key = <<conv, mark>>
           /\ sub'.next = next /\ ~sub'.replaced
           /\ sub'.row.state = "pending" /\ sub'.row.end = saved[conv] /\ mark < sub'.row.end
           /\ Inside(cards, <<conv, mark>>, saved[conv]) # {}
           /\ ~sub'.row.native /\ ~sub'.row.receipt
           /\ time' \in Times /\ UNCHANGED <<conv, saved, cards, mark, backoff>>
<1>1. <<conv, mark>> \in Keys /\ saved[conv] \in 0..MaxSaved /\ mark < saved[conv]
  BY FormationAssumption DEF Begin, Due, Types, Keys, Convs
<1> DEFINE r == [state |-> "pending", end |-> saved[conv], time |-> time, attempt |-> 0,
                 receipt |-> FALSE, native |-> FALSE]
<1>2. r \in Rows
  BY <1>1 DEF Rows, States, Types
<1>3. sub' = [pc |-> "create", key |-> <<conv, mark>>, row |-> r, asked |-> time,
              replaced |-> FALSE, next |-> next]
  BY DEF Begin, NoSub, NoRow
<1> HIDE DEF r
<1>4. sub' \in Subs
  BY <1>1, <1>2, <1>3 DEF Subs, SubSteps, Types
<1>5. time' \in Times /\ UNCHANGED <<conv, saved, cards, mark, backoff>>
  BY DEF Begin, Types, Times
<1>6. Inside(cards, <<conv, mark>>, saved[conv]) # {}
  BY DEF Begin, Empty, Content, Inside
<1> QED
  BY <1>1, <1>3, <1>4, <1>5, <1>6 DEF r

\* The result of a submission.
LEMMA ReturnMoves ==
    ASSUME Types, Submitting, NEW ok \in BOOLEAN, NEW end \in 0..MaxSaved, Returns(ok, end)
    PROVE  /\ sub' = NoSub /\ conv' \in Convs /\ mark' \in 0..MaxSaved /\ UNCHANGED <<saved, cards, time>>
           /\ backoff' \in BOOLEAN
           /\ \/ conv' = conv /\ mark' = mark
              \/ conv' = conv /\ mark' = end /\ ok
              \/ conv' = conv + 1 /\ mark' = 0
<1>1. backoff' \in BOOLEAN
  BY Zenon DEF Returns
<1> QED
  BY <1>1, FormationAssumption DEF Returns, Types, Submitting, Convs

\* The flags are flags.
LEMMA FlagsStep ==
    ASSUME Types, Next
    PROVE  backoff' \in BOOLEAN /\ scanned' \in BOOLEAN
<1>1. backoff \in BOOLEAN /\ scanned \in BOOLEAN
  BY DEF Types
<1>2. CASE Save \/ BackoffEnds \/ Submit
  BY <1>1, <1>2, Zenon DEF Save, BackoffEnds, Submit, Begin, PassOver, poll
<1>3. CASE \E next \in {"compact", "end"} : Leave(next)
  BY <1>1, <1>3, Zenon DEF Leave, Begin, poll
<1>4. CASE Submission
  BY <1>1, <1>4, Zenon DEF Submission, Create, Again, Known, SaveRow, Stage, Conflict, Suppressed,
              Observe, ReadReceipt, Ends, Returns, session, poll
<1>5. CASE Faulty
  BY <1>1, <1>5, Zenon DEF Faulty, BrainFails, JournalFails, RefreshFails, Indexed, Ends, Fails,
              Returns, session, poll
<1>6. CASE Reconcile
  BY <1>1, <1>6, Zenon DEF Reconcile, Poll, Read, Refresh, Finish, Indexed, session, poll
<1>7. CASE Process \/ Exclude \/ Crash
  BY <1>1, <1>7, Zenon DEF Process, Exclude, Crash, session, poll
<1> QED
  BY <1>2, <1>3, <1>4, <1>5, <1>6, <1>7 DEF Next

\* A submission that ends with a row.
LEMMA EndMoves ==
    ASSUME Types, Submitting, NEW row \in Rows, Ends(row)
    PROVE  /\ rows' = [rows EXCEPT ![sub.key] = row] /\ rows' \in [Keys -> Rows]
           /\ changed' \in SUBSET Keys
           /\ sub' = NoSub /\ conv' \in Convs /\ mark' \in 0..MaxSaved /\ UNCHANGED <<saved, cards, time>>
           /\ \/ conv' = conv /\ mark' = mark
              \/ conv' = conv /\ mark' = row.end /\ Done(row)
              \/ conv' = conv + 1 /\ mark' = 0
<1> DEFINE ok == row.native \/ row.state = "suppressed"
<1>1. ok \in BOOLEAN /\ row.end \in 0..MaxSaved /\ sub.key \in Keys
  BY DEF Rows, Types, Subs
<1>2. Returns(ok, row.end) /\ Write(row)
  BY DEF Ends
<1>3. ok <=> Done(row)
  BY DEF Done
<1> HIDE DEF ok
<1>4. /\ sub' = NoSub /\ conv' \in Convs /\ mark' \in 0..MaxSaved /\ UNCHANGED <<saved, cards, time>>
      /\ \/ conv' = conv /\ mark' = mark
         \/ conv' = conv /\ mark' = row.end /\ ok
         \/ conv' = conv + 1 /\ mark' = 0
  BY <1>1, <1>2, ReturnMoves
<1> QED
  BY <1>1, <1>2, <1>3, <1>4 DEF Write, Types

\* The row a submission ends with, when it ends.
LEMMA FailedRow ==
    ASSUME Types, NEW state \in States
    PROVE  LET row == [sub.row EXCEPT !.state = state] IN
              /\ row \in Rows /\ row.state = state /\ row.end = sub.row.end
              /\ row.time = sub.row.time /\ row.attempt = sub.row.attempt
              /\ row.receipt = sub.row.receipt /\ row.native = sub.row.native
<1>1. sub.row \in Rows
  BY DEF Types, Subs
<1> QED
  BY <1>1 DEF Rows

LEMMA ReceiptRow ==
    ASSUME Types, AtTheBrain, ReadReceipt
    PROVE  \E b \in Staged(sub.key, sub.row.attempt), row \in Rows :
              /\ Ends(row) /\ row.receipt /\ (row.native <=> Taken(b))
              /\ row.state \in {"accepted", "completed", "failed"}
              /\ row.end = sub.row.end /\ row.time = sub.row.time
              /\ Inside(cards, sub.key, b.end) = Inside(cards, sub.key, row.end)
              /\ row.attempt = sub.row.attempt
              /\ UNCHANGED brain
<1>1. PICK b \in Staged(sub.key, sub.row.attempt) :
         Ends([sub.row EXCEPT !.receipt = TRUE, !.native = Taken(b), !.state = StateOf(b.phase)])
  BY DEF ReadReceipt
<1> DEFINE r == sub.row
           taken == Taken(b)
           state == StateOf(b.phase)
           row == [r EXCEPT !.receipt = TRUE, !.native = taken, !.state = state]
<1>2. r \in Rows /\ b \in Windows /\ b.phase # "staged"
      /\ Inside(cards, sub.key, b.end) = Inside(cards, sub.key, r.end)
  BY DEF Types, Subs, Staged, ReadReceipt, At, AtTheBrain
<1>3. b.phase \in {"recorded", "processed", "failed", "refused"}
  BY <1>2 DEF Windows, Phases
<1>4. state \in {"accepted", "completed", "failed"}
  BY <1>3 DEF StateOf
<1>5. taken \in BOOLEAN /\ state \in States
  BY <1>4 DEF Taken, States
<1>6. Ends(row)
  BY <1>1
<1>7. taken <=> Taken(b)
  OBVIOUS
<1>8. UNCHANGED brain
  BY DEF ReadReceipt
<1> HIDE DEF r, taken, state
<1>9. /\ row.receipt = TRUE /\ row.native = taken /\ row.state = state
      /\ row.end = r.end /\ row.time = r.time /\ row.attempt = r.attempt /\ row \in Rows
  BY <1>2, <1>5 DEF Rows
<1> HIDE DEF row
<1> QED
  BY <1>2, <1>4, <1>6, <1>7, <1>8, <1>9 DEF r

\* Every step keeps the types.
LEMMA TypesStep ==
    ASSUME Base, Next
    PROVE  Types'
<1> USE DEF Base
<1>1. backoff' \in BOOLEAN /\ scanned' \in BOOLEAN
  BY FlagsStep
<1>2. sub \in Subs /\ sub.key \in Keys /\ sub.row \in Rows /\ rec \in Recs /\ rec.key \in Keys
      /\ rec.row \in Rows
  BY DEF Types, Subs, Recs
<1>3. CASE Save
  <2>1. saved' \in [Convs -> 0..MaxSaved] /\ <<conv, saved[conv]>> \in Keys
    BY <1>3, FormationAssumption DEF Save, Types, Keys
  <2> QED
    BY <1>1, <1>3, <2>1 DEF Save, Types, poll
<1>4. CASE BackoffEnds \/ Exclude
  BY <1>1, <1>4 DEF BackoffEnds, Exclude, Types, session, poll
<1>5. CASE Submit
  <2>1. CASE Begin("stay")
    BY <1>1, <1>5, <2>1, BeginMoves DEF Submit, Types, poll
  <2>2. CASE PassOver
    <3>1. mark' \in 0..MaxSaved /\ UNCHANGED <<conv, saved, cards, time, sub>>
      BY <2>2 DEF PassOver, Types
    <3> QED
      BY <1>1, <1>5, <3>1 DEF Submit, Types, poll
  <2> QED
    BY <1>5, <2>1, <2>2 DEF Submit
<1>6. ASSUME NEW next \in {"compact", "end"}, Leave(next) PROVE Types'
  <2>1. CASE Begin(next)
    BY <1>1, <1>6, <2>1, BeginMoves DEF Leave, Types, poll
  <2>2. CASE ~Begin(next)
    <3>1. conv' \in Convs /\ mark' = 0 /\ UNCHANGED <<saved, cards, time, sub>>
      BY <1>6, <2>2, FormationAssumption DEF Leave, Types, Convs
    <3> QED
      BY <1>1, <1>6, <3>1, FormationAssumption DEF Leave, Types, poll
  <2> QED
    BY <2>1, <2>2
<1>7. CASE Create \/ SaveRow
  <2>1. rows' \in [Keys -> Rows] /\ changed' \in SUBSET Keys
    BY <1>2, <1>7 DEF Create, SaveRow, Write, Types
  <2>2. sub' \in Subs
    BY <1>2, <1>7 DEF Create, SaveRow, Subs, SubSteps
  <2> QED
    BY <1>1, <1>7, <2>1, <2>2 DEF Create, SaveRow, Types, session, poll
<1>8. CASE Again
  <2>1. sub' \in Subs
    BY <1>8, AgainMoves
  <2> QED
    BY <1>1, <1>8, <2>1 DEF Again, Types, session, poll
<1>9. CASE Known
  <2> DEFINE row == Refreshed(sub.key, rows[sub.key])
  <2>1. Done(rows[sub.key]) /\ Write(row) /\ Returns(TRUE, rows[sub.key].end)
    BY <1>9 DEF Known, Done
  <2>2. row \in Rows
    BY <1>2, <2>1, RefreshedRow
  <2> HIDE DEF row
  <2>3. rows[sub.key].end \in 0..MaxSaved
    BY <1>2 DEF Types, Rows
  <2>4. sub' = NoSub /\ conv' \in Convs /\ mark' \in 0..MaxSaved /\ UNCHANGED <<saved, cards, time>>
    BY <2>1, <2>3, ReturnMoves
  <2>5. rows' \in [Keys -> Rows] /\ changed' \in SUBSET Keys
    BY <1>2, <2>1, <2>2 DEF Write, Types
  <2> QED
    BY <1>1, <1>9, <2>4, <2>5, NothingYet DEF Known, Types, poll
<1>10. CASE Stage
  <2>1. sub.row.end \in 1..MaxSaved
    BY <1>2, <1>10 DEF Stage, At, Submitting, Active, Types, Rows
  <2>2. brain' \in SUBSET Windows
    BY <1>2, <1>10, <2>1 DEF Stage, Types, Windows, Phases, Rows
  <2>3. sub' \in Subs
    BY <1>2, <1>10 DEF Stage, Subs, SubSteps
  <2> QED
    BY <1>1, <1>10, <2>2, <2>3 DEF Stage, Types, session, poll
<1>11. ASSUME NEW row \in Rows, Ends(row), UNCHANGED <<brain, rec, pending, index>>
       PROVE  Types'
  BY <1>1, <1>11, EndMoves, NothingYet DEF Types
<1>12. CASE Conflict
  <2>1. CASE sub.replaced
    <3>1. [sub.row EXCEPT !.state = "failed"] \in Rows
      BY FailedRow DEF States
    <3> QED
      BY <1>11, <1>12, <2>1, <3>1 DEF Conflict, poll
  <2>2. CASE ~sub.replaced
    <3>1. sub' \in Subs /\ UNCHANGED <<session, rows, brain, changed>>
      BY <1>12, <2>2, ConflictMoves
    <3> QED
      BY <1>1, <1>12, <3>1 DEF Conflict, Types, session, poll
  <2> QED
    BY <2>1, <2>2
<1>13. CASE Suppressed \/ BrainFails
  <2>1. /\ [sub.row EXCEPT !.state = "failed"] \in Rows
        /\ [sub.row EXCEPT !.state = "suppressed"] \in Rows
    BY FailedRow DEF States
  <2> QED
    BY <1>11, <1>13, <2>1 DEF Suppressed, BrainFails, poll
<1>14. CASE Observe
  <2>1. PICK b \in Staged(sub.key, sub.row.attempt) :
           \/ UNCHANGED brain
           \/ brain' = (brain \ {b}) \cup {[b EXCEPT !.phase = "recorded"]}
           \/ brain' = (brain \ {b}) \cup {[b EXCEPT !.phase = "refused"]}
    BY <1>14 DEF Observe
  <2>2. b \in Windows
    BY DEF Staged, Types
  <2>3. brain' \in SUBSET Windows
    BY <2>1, <2>2 DEF Types, Windows, Phases
  <2>4. sub' \in Subs
    BY <1>2, <1>14 DEF Observe, Subs, SubSteps
  <2> QED
    BY <1>1, <1>14, <2>3, <2>4 DEF Observe, Types, session, poll
<1>15. CASE ReadReceipt
  <2>1. PICK row \in Rows : Ends(row)
    BY <1>15, ReceiptRow
  <2> QED
    BY <1>11, <1>15, <2>1 DEF ReadReceipt, poll
<1>16. CASE JournalFails
  <2>1. 0 \in 0..MaxSaved /\ Returns(FALSE, 0)
    <3>1. 0 \in 0..MaxSaved
      BY FormationAssumption
    <3> QED
      BY <1>16, <3>1, Zenon DEF JournalFails, Fails
  <2>2. sub' = NoSub /\ conv' \in Convs /\ mark' \in 0..MaxSaved /\ UNCHANGED <<saved, cards, time>>
    BY <2>1, ReturnMoves
  <2> QED
    BY <1>1, <1>16, <2>2, NothingYet DEF JournalFails, Types, poll
<1>17. CASE Poll
  <2>1. rec' \in Recs /\ pending' \in SUBSET Keys
    BY <1>2, <1>17 DEF Poll, Recs, Types
  <2> QED
    BY <1>1, <1>17, <2>1 DEF Poll, Types, session
<1>18. CASE Read
  <2>1. rec' \in Recs
    BY <1>2, <1>18 DEF Read, Recs, Types
  <2> QED
    BY <1>1, <1>18, <2>1 DEF Read, Types, session
<1>19. CASE Refresh
  <2> DEFINE row == Refreshed(rec.key, rows[rec.key])
  <2>1. Done(rows[rec.key])
    BY <1>19 DEF Refresh, Refreshing, Done
  <2>2. row \in Rows
    BY <1>2, <2>1, RefreshedRow
  <2>3. rec' = [rec EXCEPT !.pc = "index", !.row = row] /\ rows' = [rows EXCEPT ![rec.key] = row]
        /\ changed' \in SUBSET Keys
    BY <1>2, <1>19 DEF Refresh, Types
  <2> HIDE DEF row
  <2>4. rec' \in Recs /\ rows' \in [Keys -> Rows]
    BY <1>2, <2>2, <2>3 DEF Recs, Types
  <2> QED
    BY <1>1, <1>19, <2>3, <2>4 DEF Refresh, Types, session
<1>20. ASSUME Indexed PROVE rec' \in Recs /\ index' \in SUBSET Keys
                            /\ UNCHANGED <<session, sub, rows, brain, shut, scanned>>
  <2>1. rec' = [NoRec EXCEPT !.pc = IF rec.todo = {} THEN "idle" ELSE "next", !.todo = rec.todo]
    BY <1>20 DEF Indexed
  <2>2. rec' \in Recs
    BY <1>2, <2>1, NothingYet DEF Recs
  <2> QED
    BY <1>2, <1>20, <2>2 DEF Indexed, Types
<1>21. CASE RefreshFails \/ Finish
  <2>1. rec' \in Recs /\ index' \in SUBSET Keys /\ UNCHANGED <<session, sub, rows, brain>>
    BY <1>20, <1>21 DEF RefreshFails, Finish
  <2>2. changed' \in SUBSET Keys /\ pending' \in SUBSET Keys
    BY <1>21 DEF RefreshFails, Finish, Types
  <2> QED
    BY <1>1, <2>1, <2>2 DEF Types, session
<1>22. CASE Process
  <2>1. PICK b \in brain :
           \/ brain' = (brain \ {b}) \cup {[b EXCEPT !.phase = "processed"]}
           \/ brain' = (brain \ {b}) \cup {[b EXCEPT !.phase = "failed"]}
    BY <1>22 DEF Process
  <2>2. brain' \in SUBSET Windows
    BY <2>1 DEF Types, Windows, Phases
  <2> QED
    BY <1>1, <1>22, <2>2 DEF Process, Types, session, poll
<1>23. CASE Crash
  <2>1. conv' \in Convs
    BY <1>23, FormationAssumption DEF Crash, Submitting, Types, Convs
  <2> QED
    BY <1>1, <1>23, <2>1, NothingYet, FormationAssumption DEF Crash, Types
<1> QED
  BY <1>3, <1>4, <1>5, <1>6, <1>7, <1>8, <1>9, <1>10, <1>12, <1>13, <1>14, <1>15, <1>16, <1>17,
     <1>18, <1>19, <1>21, <1>22, <1>23
  DEF Next, Submission, Faulty, Reconcile

\* What the session, the journal and the Brain do not see.
Quiet == UNCHANGED <<conv, saved, cards, mark, sub, rows, brain, errored>>

LEMMA QuietSteps ==
    ASSUME BackoffEnds \/ Exclude \/ Poll \/ Read \/ RefreshFails \/ Finish
    PROVE  Quiet
<1>1. CASE BackoffEnds \/ Exclude \/ Poll \/ Read
  BY <1>1 DEF BackoffEnds, Exclude, Poll, Read, Quiet, session, bounds
<1>2. CASE RefreshFails \/ Finish
  BY <1>2 DEF RefreshFails, Finish, Indexed, Quiet, session, bounds
<1> QED
  BY <1>1, <1>2

\* The steps that end a submission, and what they leave.
LEMMA LastSteps ==
    ASSUME Base, \/ Known \/ Suppressed \/ ReadReceipt \/ BrainFails \/ JournalFails
                 \/ Conflict /\ sub.replaced
    PROVE  /\ sub' = NoSub /\ Active /\ UNCHANGED <<saved, cards, brain>>
           /\ \A k \in Keys \ {sub.key} : rows'[k] = rows[k]
<1> USE DEF Base
<1>1. sub.key \in Keys /\ rows \in [Keys -> Rows]
  BY DEF Types, Subs
<1>2. CASE Known
  BY <1>1, <1>2 DEF Known, At, Active, Write, Returns
<1>3. CASE JournalFails
  BY <1>1, <1>3 DEF JournalFails, Fails, Returns, Active
<1>4. CASE \/ Suppressed \/ ReadReceipt \/ BrainFails
           \/ Conflict /\ sub.replaced
  BY <1>1, <1>4 DEF Suppressed, ReadReceipt, BrainFails, Conflict, At, Active, Ends, Write, Returns
<1> QED
  BY <1>2, <1>3, <1>4

LEMMA SubmittingStep ==
    ASSUME Base, Next
    PROVE  Submitting'
<1> USE DEF Base
<1>1. sub \in Subs /\ sub.key \in Keys /\ sub.row \in Rows /\ rows \in [Keys -> Rows]
      /\ rec.key \in Keys
  BY DEF Types, Subs, Recs
<1>2. CASE BackoffEnds \/ Exclude \/ Poll \/ Read \/ RefreshFails \/ Finish
  BY <1>2, QuietSteps DEF Quiet, Submitting, Active, Used
<1>3. CASE sub' = NoSub
  BY <1>3 DEF Submitting, Active, NoSub
<1>4. CASE Save
  BY <1>3, <1>4 DEF Save, Submitting, Active
<1>5. ASSUME NEW next \in {"stay", "compact", "end"}, Begin(next),
             next = "stay" \/ conv < MaxConvs
      PROVE  Submitting'
  BY <1>5, BeginMoves DEF Submitting, Active
<1>6. CASE Submit
  BY <1>3, <1>5, <1>6 DEF Submit, PassOver, Submitting, Active
<1>7. ASSUME NEW next \in {"compact", "end"}, Leave(next) PROVE Submitting'
  BY <1>3, <1>5, <1>7 DEF Leave, Submitting, Active
<1>8. CASE Create \/ SaveRow
  <2>1. rows'[sub.key] = sub.row /\ UNCHANGED <<conv, mark, saved, cards>>
    BY <1>1, <1>8 DEF Create, SaveRow, Write, session
  <2>2. /\ sub'.pc = "stage" /\ sub'.key = sub.key /\ sub'.row = sub.row /\ sub'.next = sub.next
        /\ Active
    BY <1>1, <1>8 DEF Create, SaveRow, At, Subs, Active
  <2> QED
    BY <2>1, <2>2 DEF Submitting, Active
<1>9. CASE Again
  <2>1. Kept(sub, sub') /\ Active /\ UNCHANGED <<conv, mark, saved, cards, rows>>
    BY <1>9, AgainMoves DEF Again, At, Active, session
  <2>2. Used(sub.key) /\ ~Done(rows[sub.key])
    BY <1>9 DEF Again, Used, Done
  <2> QED
    BY <2>1, <2>2 DEF Submitting, Active, Kept, Used
<1>10. CASE \/ Known \/ Suppressed \/ ReadReceipt \/ BrainFails \/ JournalFails
            \/ Conflict /\ sub.replaced
  BY <1>3, <1>10, LastSteps
<1>11. CASE Stage \/ Observe
  <2>1. UNCHANGED <<conv, mark, saved, cards, rows>>
    BY <1>11 DEF Stage, Observe, session
  <2>2. /\ sub'.pc \in {"observe", "receipt"} /\ sub'.key = sub.key /\ sub'.row = sub.row
        /\ sub'.next = sub.next /\ sub.pc \in {"stage", "observe"}
    BY <1>1, <1>11 DEF Stage, Observe, At, Subs
  <2> QED
    BY <2>1, <2>2 DEF Submitting, Active
<1>12. CASE Conflict /\ ~sub.replaced
  <2>1. Kept(sub, sub') /\ sub.pc = "stage" /\ UNCHANGED <<conv, mark, saved, cards, rows>>
    BY <1>12, ConflictMoves DEF Conflict, At, session
  <2>2. rows[sub.key] = sub.row /\ sub.row.state = "pending" /\ ~sub.row.native
    BY <2>1 DEF Submitting, Active
  <2>3. Used(sub.key) /\ ~Done(rows[sub.key])
    BY <2>2 DEF Used, Done, NoRow
  <2> QED
    BY <2>1, <2>3 DEF Submitting, Active, Kept, Used
<1>13. CASE Refresh
  <2>1. UNCHANGED <<conv, mark, saved, cards, sub>> /\ (Active => rows'[sub.key] = rows[sub.key])
    BY <1>1, <1>13 DEF Refresh, Active, session
  <2> QED
    BY <2>1 DEF Submitting, Active, Used
<1>14. CASE Process
  BY <1>14 DEF Process, Submitting, Active, Used, session
<1>15. CASE Crash
  BY <1>3, <1>15 DEF Crash
<1> QED
  BY <1>2, <1>4, <1>6, <1>7, <1>8, <1>9, <1>10, <1>11, <1>12, <1>13, <1>14, <1>15
  DEF Next, Submission, Faulty, Reconcile

\* The steps that write the submission's row, all but the one that refreshes it.
Writes ==
    \/ Create \/ SaveRow \/ Suppressed \/ ReadReceipt \/ BrainFails
    \/ (Conflict /\ sub.replaced)

\* The row that a submission writes.
Written(row) ==
    /\ rows' = [rows EXCEPT ![sub.key] = row] /\ UNCHANGED <<saved, cards>>
    /\ row.end = sub.row.end /\ row.attempt = sub.row.attempt /\ row.time = sub.row.time
    /\ row.state # "none"
    /\ row.native => ReadReceipt /\ \E b \in Staged(sub.key, sub.row.attempt) :
          Taken(b) /\ Inside(cards, sub.key, b.end) = Inside(cards, sub.key, row.end)

LEMMA RowWritten ==
    ASSUME Base, Writes
    PROVE  \E row \in Rows : Written(row)
<1> USE DEF Base
<1>1. sub.row \in Rows /\ rows \in [Keys -> Rows]
  BY DEF Types, Subs
<1>2. sub.row.state = "pending" /\ ~sub.row.native
  BY DEF Writes, Create, SaveRow, Suppressed, ReadReceipt, BrainFails, Conflict, At, Submitting, Active
<1>3. CASE Create \/ SaveRow
  <2>1. rows' = [rows EXCEPT ![sub.key] = sub.row] /\ UNCHANGED <<saved, cards>>
    BY <1>3 DEF Create, SaveRow, Write, session
  <2>2. Written(sub.row)
    BY <1>2, <2>1 DEF Written
  <2> QED
    BY <1>1, <2>2
<1>4. ASSUME NEW state \in {"failed", "suppressed"}, Ends([sub.row EXCEPT !.state = state])
      PROVE  \E row \in Rows : Written(row)
  <2> DEFINE row == [sub.row EXCEPT !.state = state]
  <2>1. /\ row \in Rows /\ row.state = state /\ row.end = sub.row.end
        /\ row.time = sub.row.time /\ row.attempt = sub.row.attempt /\ row.native = sub.row.native
    BY FailedRow DEF States
  <2>2. Ends(row)
    BY <1>4
  <2> HIDE DEF row
  <2>3. rows' = [rows EXCEPT ![sub.key] = row] /\ UNCHANGED <<saved, cards>>
    BY <2>1, <2>2, EndMoves
  <2>4. Written(row)
    BY <1>2, <2>1, <2>3, <1>4 DEF Written
  <2> QED
    BY <2>1, <2>4
<1>5. CASE Suppressed \/ BrainFails \/ (Conflict /\ sub.replaced)
  BY <1>4, <1>5 DEF Suppressed, BrainFails, Conflict
<1>6. CASE ReadReceipt
  <2>1. PICK b \in Staged(sub.key, sub.row.attempt), row \in Rows :
              /\ Ends(row) /\ row.receipt /\ (row.native <=> Taken(b))
              /\ row.state \in {"accepted", "completed", "failed"}
              /\ row.end = sub.row.end /\ row.time = sub.row.time
              /\ Inside(cards, sub.key, b.end) = Inside(cards, sub.key, row.end)
              /\ row.attempt = sub.row.attempt
    BY <1>6, ReceiptRow
  <2>2. rows' = [rows EXCEPT ![sub.key] = row] /\ UNCHANGED <<saved, cards>>
    BY <2>1, EndMoves
  <2>3. Written(row)
    BY <1>6, <2>1, <2>2 DEF Written
  <2> QED
    BY <2>3
<1> QED
  BY <1>3, <1>5, <1>6 DEF Writes

LEMMA RowRefreshed ==
    ASSUME Base, Known \/ Refresh
    PROVE  \E k \in Keys, row \in Rows :
              /\ Done(rows[k]) /\ Done(row) /\ Used(k)
              /\ rows' = [rows EXCEPT ![k] = row] /\ UNCHANGED <<saved, cards, brain, errored>>
              /\ row.end = rows[k].end /\ row.attempt = rows[k].attempt
              /\ row.time = rows[k].time /\ row.native = rows[k].native
              /\ row.state # "none" /\ (row.native \/ row = rows[k])
              /\ (row.state = "suppressed") <=> (rows[k].state = "suppressed")
              /\ Known => k = sub.key /\ Returns(TRUE, rows[k].end)
              /\ Refresh => UNCHANGED <<conv, mark, sub>> /\ (Active => k # sub.key)
<1> USE DEF Base
<1> DEFINE k == IF Known THEN sub.key ELSE rec.key
           row == Refreshed(k, rows[k])
<1>1. k \in Keys
  BY DEF Types, Subs, Recs
<1>2. Done(rows[k])
  BY DEF Known, Refresh, Refreshing, Done
<1>3. rows' = [rows EXCEPT ![k] = row]
  BY DEF Known, Refresh, Write
<1>4. Known => Returns(TRUE, rows[k].end) /\ UNCHANGED <<saved, cards, brain, errored>>
  BY DEF Known, Returns, bounds
<1>5. ~Known => UNCHANGED <<conv, mark, sub, saved, cards, brain, errored>> /\ (Active => k # sub.key)
  BY DEF Refresh, Active, session, bounds
<1>6. Known /\ Refresh => UNCHANGED <<conv, mark, sub>> /\ (Active => k # sub.key)
  BY DEF Known, Refresh, At, Returns, NoSub, session
<1>7. /\ row \in Rows /\ row.end = rows[k].end /\ row.time = rows[k].time
      /\ row.attempt = rows[k].attempt /\ row.native = rows[k].native
      /\ row.state # "none" /\ Used(k) /\ (row.native \/ row = rows[k])
      /\ (row.state = "suppressed") <=> (rows[k].state = "suppressed")
  BY <1>1, <1>2, RefreshedRow
<1>8. Done(row)
  BY <1>2, <1>7 DEF Done
<1> HIDE DEF row, k
<1>9. Known => k = sub.key
  BY DEF k
<1> QED
  BY <1>1, <1>2, <1>3, <1>4, <1>5, <1>6, <1>7, <1>8, <1>9

\* A row, as RowsFit wants it.
LEMMA RowsFitStep ==
    ASSUME Base, Next
    PROVE  RowsFit'
<1> USE DEF Base
<1>1. rows \in [Keys -> Rows] /\ sub.key \in Keys /\ saved \in [Convs -> 0..MaxSaved]
      /\ cards \in SUBSET Keys /\ \A k \in Keys : k[1] \in Convs
  BY DEF Types, Subs, Keys
<1>2. CASE UNCHANGED <<rows, saved, cards>>
  BY <1>2 DEF RowsFit, Used
<1>3. CASE Save
  <2>1. \A c \in Convs : saved[c] <= saved'[c]
    BY <1>1, <1>3, FormationAssumption DEF Save
  <2>2. \A k \in Keys : saved[k[1]] \in Nat /\ saved'[k[1]] \in Nat /\ rows[k].end \in Nat
    BY <1>1, <1>3, FormationAssumption DEF Save, Rows
  <2>3. UNCHANGED rows
    BY <1>3 DEF Save
  <2>4. \A k \in Keys : Used(k) => Inside(cards', k, rows[k].end) # {}
    BY <2>2, InsideStays DEF RowsFit
  <2>5. \A k \in cards' : k[2] < saved'[k[1]]
    <3> SUFFICES ASSUME NEW k \in cards' PROVE k[2] < saved'[k[1]]
      OBVIOUS
    <3>1. CASE k \in cards
      <4>1. k[2] < saved[k[1]] /\ k \in Keys /\ k[2] \in Nat
        BY <1>1, <3>1 DEF RowsFit, Keys
      <4> QED
        BY <1>1, <2>1, <2>2, <4>1
    <3>2. CASE k = <<conv, saved[conv]>>
      BY <1>3, <3>2, FormationAssumption DEF Save, Types
    <3> QED
      BY <1>3, <3>1, <3>2 DEF Save
  <2> QED
    BY <1>1, <2>1, <2>2, <2>3, <2>4, <2>5 DEF RowsFit, Used
<1>4. CASE Writes
  <2>1. PICK row \in Rows : /\ rows' = [rows EXCEPT ![sub.key] = row] /\ UNCHANGED <<saved, cards>>
                            /\ row.end = sub.row.end /\ row.state # "none"
    BY <1>4, RowWritten DEF Written
  <2>2. sub.key = <<conv, mark>> /\ mark < sub.row.end /\ sub.row.end = saved[conv]
    BY <1>4 DEF Writes, Create, SaveRow, Suppressed, ReadReceipt, BrainFails, Conflict, At, Submitting,
                Active
  <2>3. sub.key[2] < row.end /\ row.end <= saved[sub.key[1]]
    BY <1>1, <2>1, <2>2 DEF Rows
  <2>4. Active
    BY <1>4 DEF Active, Writes, Create, SaveRow, Suppressed, ReadReceipt, BrainFails, Conflict, At
  <2>5. Inside(cards, sub.key, row.end) # {}
    BY <2>1, <2>4 DEF Submitting
  <2> QED
    BY <1>1, <2>1, <2>3, <2>5 DEF RowsFit, Used
<1>5. CASE Known \/ Refresh
  <2>1. PICK k \in Keys, row \in Rows :
              /\ Used(k) /\ rows' = [rows EXCEPT ![k] = row] /\ UNCHANGED <<saved, cards>>
              /\ row.end = rows[k].end /\ row.state # "none"
    BY <1>5, RowRefreshed
  <2> QED
    BY <1>1, <2>1 DEF RowsFit, Used
<1>6. CASE Submit \/ Again \/ Stage \/ Observe \/ JournalFails \/ Process \/ Crash
  <2>1. CASE Submit
    BY <1>2, <2>1, BeginMoves DEF Submit, PassOver
  <2>2. CASE Again \/ Stage \/ Observe \/ Process \/ Crash
    BY <1>2, <2>2 DEF Again, Stage, Observe, Process, Crash, session
  <2>3. CASE JournalFails
    BY <1>2, <2>3 DEF JournalFails, Fails, Returns
  <2> QED
    BY <1>6, <2>1, <2>2, <2>3
<1>7. ASSUME NEW next \in {"compact", "end"}, Leave(next) PROVE RowsFit'
  BY <1>2, <1>7, BeginMoves DEF Leave
<1>8. CASE Conflict /\ ~sub.replaced
  BY <1>2, <1>8, ConflictMoves DEF session
<1>9. CASE BackoffEnds \/ Exclude \/ Poll \/ Read \/ RefreshFails \/ Finish
  BY <1>2, <1>9, QuietSteps DEF Quiet
<1> QED
  BY <1>3, <1>4, <1>5, <1>6, <1>7, <1>8, <1>9 DEF Writes, Next, Submission, Faulty, Reconcile

LEMMA RetryingStep ==
    ASSUME Base, Next
    PROVE  Retrying'
<1> USE DEF Base
<1>1. sub \in Subs /\ sub.key \in Keys /\ sub.row \in Rows /\ rows \in [Keys -> Rows]
  BY DEF Types, Subs
<1>2. CASE sub'.pc \notin {"create", "save"}
  BY <1>2 DEF Retrying
<1>3. CASE sub' = NoSub
  BY <1>2, <1>3 DEF NoSub
<1>4. CASE BackoffEnds \/ Exclude \/ Poll \/ Read \/ RefreshFails \/ Finish
  BY <1>4, QuietSteps DEF Quiet, Retrying
<1>5. ASSUME NEW next \in {"stay", "compact", "end"}, Begin(next) PROVE Retrying'
  BY <1>5, BeginMoves DEF Retrying
<1>6. CASE Submit \/ Save
  BY <1>3, <1>5, <1>6 DEF Submit, Save, PassOver, Submitting, Active
<1>7. ASSUME NEW next \in {"compact", "end"}, Leave(next) PROVE Retrying'
  BY <1>3, <1>5, <1>7 DEF Leave, Submitting, Active
<1>8. CASE Create \/ SaveRow \/ Stage \/ Observe
  BY <1>1, <1>2, <1>8 DEF Create, SaveRow, Stage, Observe, Subs
<1>9. CASE Again
  <2>1. UNCHANGED rows /\ sub.pc = "create" /\ rows[sub.key] \in Rows
    BY <1>1, <1>9 DEF Again, At
  <2> DEFINE old == rows[sub.key]
             rejected == old.state = "failed" \/ old.receipt
  <2>2. /\ sub'.key = sub.key /\ sub'.pc = "save" /\ ~sub'.replaced
        /\ sub'.row.attempt = old.attempt + (IF rejected THEN 1 ELSE 0)
        /\ sub'.row.time = (IF rejected THEN sub.row.time ELSE old.time)
    BY <1>9, <2>1, AgainMoves DEF Kept, Retrying
  <2>3. CASE rejected
    BY <2>1, <2>2, <2>3 DEF Retrying
  <2>4. CASE ~rejected
    BY <2>1, <2>2, <2>4 DEF Retrying, Rows
  <2> QED
    BY <2>3, <2>4
<1>10. CASE \/ Known \/ Suppressed \/ ReadReceipt \/ BrainFails \/ JournalFails
            \/ (Conflict /\ sub.replaced)
  BY <1>3, <1>10, LastSteps
<1>11. CASE Conflict /\ ~sub.replaced
  <2>1. rows[sub.key] = sub.row
    BY <1>11 DEF Conflict, At, Submitting
  <2> QED
    BY <1>11, <2>1, ConflictMoves DEF Kept, Retrying
<1>12. CASE Refresh
  BY <1>1, <1>12, RowRefreshed DEF Retrying, Active
<1>13. CASE Process
  BY <1>13 DEF Process, Retrying
<1>14. CASE Crash
  BY <1>3, <1>14 DEF Crash
<1> QED
  BY <1>4, <1>6, <1>7, <1>8, <1>9, <1>10, <1>11, <1>12, <1>13, <1>14
  DEF Next, Submission, Faulty, Reconcile

\* What Process and Observe do with a window.
LEMMA PhaseMoves ==
    ASSUME Base, Process \/ Observe
    PROVE  \/ UNCHANGED brain
           \/ \E b \in brain, phase \in Phases :
                 /\ brain' = (brain \ {b}) \cup {[b EXCEPT !.phase = phase]}
                 /\ phase # "staged"
                 /\ \/ Process /\ b.phase = "recorded" /\ phase \in {"processed", "failed"}
                    \/ Observe /\ b.phase = "staged" /\ phase \in {"recorded", "refused"}
                       /\ b \in Staged(sub.key, sub.row.attempt)
<1>1. CASE Process
  BY <1>1 DEF Process, Phases
<1>2. CASE Observe
  BY <1>2 DEF Observe, Phases, Staged
<1> QED
  BY <1>1, <1>2

LEMMA WindowsKnownStep ==
    ASSUME Base, Next
    PROVE  WindowsKnown'
<1> USE DEF Base
<1>1. sub \in Subs /\ sub.key \in Keys /\ sub.row \in Rows /\ rows \in [Keys -> Rows]
      /\ brain \in SUBSET Windows /\ \A b \in brain : b.key \in Keys
  BY DEF Types, Subs, Windows
<1>2. CASE UNCHANGED <<rows, brain>>
  BY <1>2 DEF WindowsKnown, Used
<1>3. CASE Writes
  <2>1. PICK row \in Rows : Written(row)
    BY <1>3, RowWritten
  <2>2. UNCHANGED brain
    BY <1>3 DEF Writes, Create, SaveRow, Suppressed, ReadReceipt, BrainFails, Conflict
  <2>3. rows' = [rows EXCEPT ![sub.key] = row] /\ row # NoRow
        /\ row.end = sub.row.end /\ row.attempt = sub.row.attempt /\ row.time = sub.row.time
    BY <2>1 DEF Written, NoRow
  <2>4. ASSUME NEW b \in brain, b.key = sub.key
        PROVE  /\ b.attempt <= row.attempt /\ b.end <= row.end
               /\ b.attempt = row.attempt => b.time = row.time
    <3>1. /\ Used(sub.key) /\ b.attempt <= rows[sub.key].attempt /\ b.end <= rows[sub.key].end
          /\ b.attempt = rows[sub.key].attempt => b.time = rows[sub.key].time
      BY <2>4 DEF WindowsKnown
    <3>2. b.attempt \in Nat /\ b.end \in Nat /\ row.attempt \in Nat /\ row.end \in Nat
          /\ rows[sub.key].attempt \in Nat /\ rows[sub.key].end \in Nat
      BY <1>1, FormationAssumption DEF Windows, Rows
    <3>3. CASE Create
      BY <3>1, <3>3 DEF Create, Used
    <3>4. CASE SaveRow
      <4>1. sub.key = <<conv, mark>> /\ sub.row.end = saved[conv]
        BY <3>4 DEF SaveRow, At, Submitting, Active
      <4>2. rows[sub.key].end <= sub.row.end
        BY <1>1, <3>1, <4>1 DEF RowsFit
      <4>3. \/ sub.row.attempt = rows[sub.key].attempt /\ sub.row.time = rows[sub.key].time
            \/ sub.row.attempt = rows[sub.key].attempt + 1
        BY <3>4 DEF SaveRow, At, Retrying
      <4> QED
        BY <2>3, <3>1, <3>2, <4>2, <4>3
    <3>5. CASE \/ Suppressed \/ ReadReceipt \/ BrainFails \/ (Conflict /\ sub.replaced)
      <4>1. rows[sub.key] = sub.row
        BY <3>5 DEF Suppressed, ReadReceipt, BrainFails, Conflict, At, Submitting
      <4> QED
        BY <2>3, <3>1, <4>1
    <3> QED
      BY <1>3, <3>3, <3>4, <3>5 DEF Writes
  <2> QED
    BY <1>1, <2>2, <2>3, <2>4 DEF WindowsKnown, Used
<1>4. CASE Known \/ Refresh
  <2>1. PICK k \in Keys, row \in Rows :
              /\ rows' = [rows EXCEPT ![k] = row] /\ UNCHANGED brain
              /\ row.end = rows[k].end /\ row.attempt = rows[k].attempt
              /\ row.time = rows[k].time /\ row.state # "none"
    BY <1>4, RowRefreshed
  <2>2. row # NoRow
    BY <2>1 DEF NoRow
  <2> QED
    BY <1>1, <2>1, <2>2 DEF WindowsKnown, Used
<1>5. CASE Stage
  <2>1. rows[sub.key] = sub.row /\ sub.row.state = "pending" /\ UNCHANGED rows
    BY <1>5 DEF Stage, At, Submitting, Active
  <2>2. Used(sub.key)
    BY <2>1 DEF Used, NoRow
  <2>3. CASE Staged(sub.key, sub.row.attempt) # {}
    BY <1>2, <1>5, <2>1, <2>3 DEF Stage
  <2>4. CASE Staged(sub.key, sub.row.attempt) = {}
    <3> DEFINE new == [key |-> sub.key, attempt |-> sub.row.attempt, end |-> sub.row.end,
                       time |-> sub.row.time, phase |-> "staged"]
    <3>1. brain' = brain \cup {new}
      BY <1>5, <2>4 DEF Stage
    <3>2. \A b \in brain : ~(b.key = sub.key /\ b.attempt = sub.row.attempt)
      BY <2>4 DEF Staged
    <3>3. sub.row.attempt \in Nat /\ sub.row.end \in Nat
      BY <1>1, FormationAssumption DEF Rows
    <3>4. /\ new.key = sub.key /\ new.attempt = sub.row.attempt /\ new.end = sub.row.end
          /\ new.time = sub.row.time
      OBVIOUS
    <3> HIDE DEF new
    <3> QED
      BY <2>1, <2>2, <3>1, <3>2, <3>3, <3>4 DEF WindowsKnown, Used
  <2> QED
    BY <2>3, <2>4
<1>6. CASE Process \/ Observe
  <2>1. UNCHANGED rows
    BY <1>6 DEF Process, Observe
  <2>2. CASE UNCHANGED brain
    BY <1>2, <2>1, <2>2
  <2>3. ASSUME NEW b \in brain, NEW phase \in Phases,
               brain' = (brain \ {b}) \cup {[b EXCEPT !.phase = phase]}
        PROVE  WindowsKnown'
    <3> DEFINE new == [b EXCEPT !.phase = phase]
    <3>1. new.key = b.key /\ new.attempt = b.attempt /\ new.end = b.end /\ new.time = b.time
      BY <1>1 DEF Windows
    <3>2. brain' = (brain \ {b}) \cup {new}
      BY <2>3
    <3> HIDE DEF new
    <3> QED
      BY <2>1, <3>1, <3>2 DEF WindowsKnown, Used
  <2> QED
    BY <1>6, <2>2, <2>3, PhaseMoves
<1>7. CASE Save \/ Submit \/ Again \/ Crash \/ (Conflict /\ ~sub.replaced)
  BY <1>2, <1>7, ConflictMoves DEF Save, Submit, Again, Crash
<1>8. CASE JournalFails \/ \E next \in {"compact", "end"} : Leave(next)
  BY <1>2, <1>8 DEF JournalFails, Leave
<1>9. CASE BackoffEnds \/ Exclude \/ Poll \/ Read \/ RefreshFails \/ Finish
  BY <1>2, <1>9, QuietSteps DEF Quiet
<1> QED
  BY <1>3, <1>4, <1>5, <1>6, <1>7, <1>8, <1>9 DEF Writes, Next, Submission, Faulty, Reconcile

LEMMA RowsChange ==
    ASSUME Base, Next
    PROVE  UNCHANGED rows \/ Writes \/ Known \/ Refresh
<1>1. CASE Save \/ Submit \/ Again \/ Stage \/ Observe \/ Process \/ Crash
  BY <1>1 DEF Save, Submit, Again, Stage, Observe, Process, Crash
<1>2. CASE JournalFails \/ \E next \in {"compact", "end"} : Leave(next)
  BY <1>2 DEF JournalFails, Leave
<1>3. CASE Conflict /\ ~sub.replaced
  BY <1>3, ConflictMoves DEF Base
<1>4. CASE BackoffEnds \/ Exclude \/ Poll \/ Read \/ RefreshFails \/ Finish
  BY <1>4, QuietSteps DEF Quiet
<1> QED
  BY <1>1, <1>2, <1>3, <1>4 DEF Next, Submission, Faulty, Reconcile, Writes

\* A submission only writes a row that is not done.
LEMMA NotDoneYet ==
    ASSUME Base, Writes
    PROVE  ~Done(rows[sub.key]) /\ sub.key = <<conv, mark>> /\ sub.key \in Keys
<1> USE DEF Base
<1>1. sub.key = <<conv, mark>> /\ sub.key \in Keys
  BY DEF Writes, Create, SaveRow, Suppressed, ReadReceipt, BrainFails, Conflict, At, Submitting,
         Active, Types, Subs
<1>2. CASE Create
  BY <1>1, <1>2 DEF Create, Done, NoRow
<1>3. CASE ~Create
  BY <1>1, <1>3 DEF Writes, SaveRow, Suppressed, ReadReceipt, BrainFails, Conflict, At, Submitting,
                    Active, Done
<1> QED
  BY <1>1, <1>2, <1>3

\* A row that is done stays done, with the end it has.
LEMMA DoneStays ==
    ASSUME Base, Next, NEW k \in Keys
    PROVE  /\ rows[k] # NoRow => rows'[k] # NoRow
           /\ Done(rows[k]) => /\ Done(rows'[k]) /\ rows'[k].end = rows[k].end
                               /\ rows'[k].native = rows[k].native
                               /\ rows'[k].attempt = rows[k].attempt
                               /\ rows[k].state = "suppressed" => rows'[k].state = "suppressed"
<1>1. rows \in [Keys -> Rows]
  BY DEF Base, Types
<1>2. CASE UNCHANGED rows
  BY <1>2 DEF Used
<1>3. CASE Writes
  <2>1. PICK row \in Rows : Written(row)
    BY <1>3, RowWritten
  <2>2. rows' = [rows EXCEPT ![sub.key] = row] /\ row # NoRow
    BY <2>1 DEF Written, NoRow
  <2> QED
    BY <1>1, <1>3, <2>2, NotDoneYet DEF Used
<1>4. CASE Known \/ Refresh
  <2>1. PICK j \in Keys, row \in Rows :
              /\ rows' = [rows EXCEPT ![j] = row] /\ Done(row) /\ row.end = rows[j].end
              /\ row.native = rows[j].native /\ row.attempt = rows[j].attempt
              /\ row.state # "none"
              /\ (row.state = "suppressed") <=> (rows[j].state = "suppressed")
    BY <1>4, RowRefreshed
  <2>2. row # NoRow
    BY <2>1 DEF NoRow
  <2> QED
    BY <1>1, <2>1, <2>2 DEF Used
<1> QED
  BY <1>2, <1>3, <1>4, RowsChange

\* What the Brain has taken it keeps.
LEMMA TakenStays ==
    ASSUME Base, Next, NEW b \in brain
    PROVE  \E w \in brain' : /\ w.key = b.key /\ w.attempt = b.attempt /\ w.end = b.end
                             /\ w.time = b.time
                             /\ Taken(b) => Taken(w)
<1> USE DEF Base
<1>1. brain \in SUBSET Windows
  BY DEF Types
<1>2. CASE b \in brain'
  BY <1>2
<1>3. CASE Process \/ Observe
  <2>1. ASSUME NEW a \in brain, NEW phase \in Phases,
               brain' = (brain \ {a}) \cup {[a EXCEPT !.phase = phase]},
               Taken(a) => phase \in {"processed", "failed"}
        PROVE  \E w \in brain' : /\ w.key = b.key /\ w.attempt = b.attempt /\ w.end = b.end
                                 /\ w.time = b.time
                                 /\ Taken(b) => Taken(w)
    <3> DEFINE new == [a EXCEPT !.phase = phase]
    <3>1. /\ new.key = a.key /\ new.attempt = a.attempt /\ new.end = a.end /\ new.time = a.time
          /\ new.phase = phase
      BY <1>1 DEF Windows
    <3>2. brain' = (brain \ {a}) \cup {new}
      BY <2>1
    <3>3. Taken(a) => Taken(new)
      BY <2>1, <3>1 DEF Taken
    <3> HIDE DEF new
    <3>4. CASE b = a
      BY <3>1, <3>2, <3>3, <3>4
    <3> QED
      BY <1>2, <3>2, <3>4
  <2>2. ASSUME NEW a \in brain, NEW phase \in Phases,
               \/ Process /\ a.phase = "recorded" /\ phase \in {"processed", "failed"}
               \/ Observe /\ a.phase = "staged"
        PROVE  Taken(a) => phase \in {"processed", "failed"}
    BY <2>2 DEF Taken
  <2> QED
    BY <1>2, <1>3, <2>1, <2>2, PhaseMoves
<1>4. CASE Stage
  BY <1>2, <1>4 DEF Stage
<1>5. CASE \/ Save \/ Submit \/ Again \/ Create \/ SaveRow \/ Known \/ Suppressed \/ Crash
           \/ ReadReceipt \/ BrainFails \/ JournalFails \/ Conflict
  BY <1>2, <1>5 DEF Save, Submit, Again, Create, SaveRow, Known, Suppressed, Crash, ReadReceipt,
                    BrainFails, JournalFails, Conflict
<1>6. CASE Refresh \/ \E next \in {"compact", "end"} : Leave(next)
  BY <1>2, <1>6 DEF Refresh, Leave
<1>7. CASE BackoffEnds \/ Exclude \/ Poll \/ Read \/ RefreshFails \/ Finish
  BY <1>2, <1>7, QuietSteps DEF Quiet
<1> QED
  BY <1>3, <1>4, <1>5, <1>6, <1>7 DEF Next, Submission, Faulty, Reconcile

LEMMA NativeStep ==
    ASSUME Base, Next
    PROVE  NativeIsTaken'
<1> USE DEF Base
<1>1. rows \in [Keys -> Rows]
  BY DEF Types
<1> SUFFICES ASSUME NEW k \in Keys, rows'[k].native
             PROVE  \E b \in brain' :
                       /\ b.key = k /\ b.attempt = rows'[k].attempt /\ Taken(b)
                       /\ Inside(cards', k, b.end) = Inside(cards', k, rows'[k].end)
  BY DEF NativeIsTaken, Taken
<1>2. CASE rows[k].native
  <2>1. PICK b \in brain : /\ b.key = k /\ b.attempt = rows[k].attempt /\ Taken(b)
                           /\ Inside(cards, k, b.end) = Inside(cards, k, rows[k].end)
    BY <1>2 DEF NativeIsTaken
  <2>2. rows'[k].attempt = rows[k].attempt /\ rows'[k].end = rows[k].end
    BY <1>2, DoneStays DEF Done
  <2>3. Used(k)
    BY <1>2 DEF Used, NoRow
  <2>4. /\ b.end \in Nat /\ b.end <= saved[k[1]]
        /\ rows[k].end \in Nat /\ rows[k].end <= saved[k[1]]
    <3>1. b.end \in Nat /\ b.end <= saved[b.key[1]]
      BY EndsFit
    <3>2. rows[k].end \in Nat /\ rows[k].end <= saved[k[1]]
      BY <2>3, EndsFit
    <3> QED
      BY <2>1, <3>1, <3>2
  <2>5. Inside(cards', k, b.end) = Inside(cards, k, b.end)
    BY <2>4, InsideStays
  <2>6. Inside(cards', k, rows[k].end) = Inside(cards, k, rows[k].end)
    BY <2>4, InsideStays
  <2>7. PICK w \in brain' : /\ w.key = b.key /\ w.attempt = b.attempt /\ w.end = b.end
                            /\ Taken(b) => Taken(w)
    BY TakenStays
  <2> QED
    BY <2>1, <2>2, <2>5, <2>6, <2>7
<1>3. CASE ~rows[k].native
  <2>1. CASE UNCHANGED rows
    BY <1>3, <2>1
  <2>2. CASE Writes
    <3>1. PICK row \in Rows : Written(row)
      BY <2>2, RowWritten
    <3>2. k = sub.key /\ rows'[k] = row
      BY <1>1, <1>3, <3>1 DEF Written
    <3>3. PICK b \in Staged(sub.key, sub.row.attempt) :
             Taken(b) /\ Inside(cards, sub.key, b.end) = Inside(cards, sub.key, row.end)
      BY <3>1, <3>2 DEF Written
    <3>4. UNCHANGED <<brain, cards>> /\ row.attempt = sub.row.attempt
      BY <3>1, <3>2 DEF Written, ReadReceipt
    <3> QED
      BY <3>2, <3>3, <3>4 DEF Staged
  <2>3. CASE Known \/ Refresh
    BY <1>1, <1>3, <2>3, RowRefreshed
  <2> QED
    BY <2>1, <2>2, <2>3, RowsChange
<1> QED
  BY <1>2, <1>3

LEMMA AtTheBrainStep ==
    ASSUME Base, Next
    PROVE  AtTheBrain'
<1> USE DEF Base
<1>1. sub \in Subs /\ sub.row \in Rows /\ brain \in SUBSET Windows
  BY DEF Types, Subs
<1>2. CASE sub'.pc \notin {"observe", "receipt"}
  BY <1>2 DEF AtTheBrain
<1>3. CASE sub' = NoSub
  BY <1>2, <1>3 DEF NoSub
<1>4. CASE UNCHANGED <<sub, cards, brain>>
  BY <1>4 DEF AtTheBrain, Staged
<1>5. CASE Save \/ Refresh
  BY <1>2, <1>4, <1>5 DEF Save, Refresh, session
<1>6. ASSUME NEW next \in {"stay", "compact", "end"}, Begin(next) PROVE AtTheBrain'
  BY <1>2, <1>6, BeginMoves
<1>7. CASE Submit \/ \E next \in {"compact", "end"} : Leave(next)
  BY <1>2, <1>4, <1>6, <1>7 DEF Submit, Leave, PassOver
<1>8. CASE Create \/ SaveRow
  BY <1>1, <1>2, <1>8 DEF Create, SaveRow, Subs
<1>9. CASE Again \/ (Conflict /\ ~sub.replaced)
  BY <1>2, <1>9, AgainMoves, ConflictMoves DEF Kept
<1>10. CASE \/ Known \/ Suppressed \/ ReadReceipt \/ BrainFails \/ JournalFails
            \/ (Conflict /\ sub.replaced)
  BY <1>3, <1>10, LastSteps
<1>11. CASE Stage
  <2> DEFINE new == [key |-> sub.key, attempt |-> sub.row.attempt, end |-> sub.row.end,
                     time |-> sub.row.time, phase |-> "staged"]
  <2>1. sub'.pc = "observe" /\ sub'.key = sub.key /\ sub'.row = sub.row
    BY <1>1, <1>11 DEF Stage, Subs
  <2>2. /\ \A b \in Staged(sub.key, sub.row.attempt) :
              Inside(cards, sub.key, b.end) = Inside(cards, sub.key, sub.row.end)
        /\ UNCHANGED cards
    BY <1>11 DEF Stage, Bound, Content, Inside, Staged, session
  <2>3. UNCHANGED brain \/ brain' = brain \cup {new}
    BY <1>11 DEF Stage
  <2>4. new.end = sub.row.end
    OBVIOUS
  <2> HIDE DEF new
  <2> QED
    BY <2>1, <2>2, <2>3, <2>4 DEF AtTheBrain, Staged
<1>12. ASSUME NEW b \in brain, NEW phase \in Phases, phase # "staged",
              brain' = (brain \ {b}) \cup {[b EXCEPT !.phase = phase]}
       PROVE  \A w \in brain' : \/ w \in brain /\ w # b
                                \/ /\ w.key = b.key /\ w.attempt = b.attempt /\ w.end = b.end
                                   /\ w.phase # "staged"
  <2> DEFINE new == [b EXCEPT !.phase = phase]
  <2>1. new.key = b.key /\ new.attempt = b.attempt /\ new.end = b.end /\ new.phase = phase
    BY <1>1 DEF Windows
  <2>2. brain' = (brain \ {b}) \cup {new}
    BY <1>12
  <2> HIDE DEF new
  <2> QED
    BY <1>12, <2>1, <2>2
<1>13. CASE Process
  <2>1. UNCHANGED <<sub, cards>>
    BY <1>13 DEF Process, session
  <2>2. PICK b \in brain, phase \in Phases : /\ phase # "staged"
              /\ brain' = (brain \ {b}) \cup {[b EXCEPT !.phase = phase]}
    BY <1>13 DEF Process, Phases
  <2>3. \A w \in brain' : \/ w \in brain /\ w # b
                          \/ /\ w.key = b.key /\ w.attempt = b.attempt /\ w.end = b.end
                             /\ w.phase # "staged"
    BY <1>12, <2>2
  <2> QED
    BY <2>1, <2>3 DEF AtTheBrain, Staged
<1>14. CASE Observe
  <2>1. /\ sub.pc = "observe" /\ sub'.key = sub.key /\ sub'.row = sub.row
        /\ UNCHANGED cards
    BY <1>1, <1>14 DEF Observe, At, Subs, session
  <2>2. PICK b \in Staged(sub.key, sub.row.attempt) :
           \/ b.phase # "staged" /\ UNCHANGED brain
           \/ brain' = (brain \ {b}) \cup {[b EXCEPT !.phase = "recorded"]}
           \/ brain' = (brain \ {b}) \cup {[b EXCEPT !.phase = "refused"]}
    BY <1>14 DEF Observe
  <2>3. b \in brain /\ Inside(cards, sub.key, b.end) = Inside(cards, sub.key, sub.row.end)
    BY <2>1 DEF Staged, AtTheBrain
  <2>4. \A w \in Staged(sub.key, sub.row.attempt) : w = b
    BY DEF Staged, WindowsKnown
  <2>5. CASE b.phase # "staged" /\ UNCHANGED brain
    BY <2>1, <2>3, <2>4, <2>5 DEF AtTheBrain, Staged
  <2>6. ASSUME NEW phase \in {"recorded", "refused"},
               brain' = (brain \ {b}) \cup {[b EXCEPT !.phase = phase]}
        PROVE  AtTheBrain'
    <3>1. \A w \in brain' : \/ w \in brain /\ w # b
                            \/ /\ w.key = b.key /\ w.attempt = b.attempt /\ w.end = b.end
                               /\ w.phase # "staged"
      BY <1>12, <2>3, <2>6 DEF Phases
    <3> QED
      BY <2>1, <2>3, <2>4, <3>1 DEF AtTheBrain, Staged
  <2> QED
    BY <2>2, <2>5, <2>6
<1>15. CASE Crash
  BY <1>3, <1>15 DEF Crash
<1>16. CASE BackoffEnds \/ Exclude \/ Poll \/ Read \/ RefreshFails \/ Finish
  BY <1>4, <1>16, QuietSteps DEF Quiet
<1> QED
  BY <1>5, <1>7, <1>8, <1>9, <1>10, <1>11, <1>13, <1>14, <1>15, <1>16
  DEF Next, Submission, Faulty, Reconcile

LEMMA RefreshingStep ==
    ASSUME Base, Next
    PROVE  Refreshing'
<1> USE DEF Base
<1>1. rec \in Recs /\ rec.key \in Keys /\ \A k \in rec.todo : k \in Keys
  BY DEF Types, Recs
<1>2. CASE rec'.pc # "refresh"
  BY <1>2 DEF Refreshing
<1>3. CASE UNCHANGED rec
  BY <1>1, <1>3, DoneStays DEF Refreshing, Done
<1>4. CASE Read
  <2>1. PICK k \in rec.todo :
           /\ rec' = [pc |-> IF NeedsRefresh(rows[k]) THEN "refresh" ELSE "index",
                      todo |-> rec.todo \ {k}, key |-> k, row |-> rows[k]]
           /\ UNCHANGED rows
    BY <1>4 DEF Read
  <2> QED
    BY <2>1 DEF Refreshing, NeedsRefresh
<1>5. CASE Poll \/ Refresh
  BY <1>1, <1>2, <1>5 DEF Poll, Refresh, Recs
<1>6. CASE Finish \/ RefreshFails
  <2>1. rec' = [NoRec EXCEPT !.pc = IF rec.todo = {} THEN "idle" ELSE "next", !.todo = rec.todo]
    BY <1>6 DEF Finish, RefreshFails, Indexed
  <2>2. rec'.pc # "refresh"
    BY <2>1 DEF NoRec
  <2> QED
    BY <1>2, <2>2
<1>7. CASE Crash
  BY <1>2, <1>7 DEF Crash, NoRec
<1>8. CASE Save \/ BackoffEnds \/ Submit \/ Submission \/ Process \/ Exclude
  BY <1>3, <1>8 DEF Save, BackoffEnds, Submit, Submission, Create, Again, Known, SaveRow, Stage,
                    Conflict, Suppressed, Observe, ReadReceipt, Process, Exclude, poll
<1>9. CASE BrainFails \/ JournalFails \/ \E next \in {"compact", "end"} : Leave(next)
  BY <1>3, <1>9 DEF BrainFails, JournalFails, Leave, poll
<1> QED
  BY <1>4, <1>5, <1>6, <1>7, <1>8, <1>9 DEF Next, Faulty, Reconcile

LEMMA BaseStep == Base /\ [Next]_vars => Base'
<1>1. CASE UNCHANGED vars
  BY <1>1 DEF vars, session, poll, bounds, Base, Types, Submitting, Retrying, RowsFit,
              WindowsKnown, NativeIsTaken, AtTheBrain, Refreshing, Active, Used, Done, Staged, Taken
<1>2. ASSUME Base, Next PROVE Base'
  BY <1>2, TypesStep, SubmittingStep, RetryingStep, RowsFitStep, WindowsKnownStep, NativeStep,
     AtTheBrainStep, RefreshingStep DEF Base
<1> QED
  BY <1>1, <1>2

LEMMA BaseAlways == Spec => []Base
  BY BaseInit, BaseStep, PTL DEF Spec

\* Every window has something to form, the Brain has one under a key and attempt, and
\* everything has its type (the early return of submit_pending_formation, and the key of
\* observe_formation).
THEOREM FormationTypeCorrect == Spec => []TypeOK
<1>1. Base => TypeOK
  <2> SUFFICES ASSUME Base PROVE TypeOK
    OBVIOUS
  <2>1. \A b \in brain : b.key \in Keys /\ b.end \in 1..MaxSaved /\ b.attempt \in Nat
    BY DEF Base, Types, Windows
  <2>2. \A k \in Keys : rows[k] # NoRow => Content(k, rows[k].end) # {}
    BY DEF Base, RowsFit, Used, Content, Inside
  <2>3. \A a, b \in brain : a.key = b.key /\ a.attempt = b.attempt => a = b
    BY DEF Base, WindowsKnown
  <2> QED
    BY <2>1, <2>2, <2>3 DEF TypeOK, Base, Types, Rows, States
<1> QED
  BY <1>1, BaseAlways, PTL

-----------------------------------------------------------------------------
(***************************************************************************)
(* Nothing is skipped.                                                     *)
(***************************************************************************)
\* The offset moves over a window that is done or over what is not formed, or goes back
\* to the start.
LEMMA MarkMoves ==
    ASSUME Base, Next
    PROVE  \/ conv' = conv /\ mark' = mark
           \/ mark' = 0 /\ (conv' = conv + 1 \/ Crash)
           \/ /\ conv' = conv /\ <<conv, mark>> \in Keys
              /\ Done(rows'[<<conv, mark>>]) /\ rows'[<<conv, mark>>].end = mark'
           \/ /\ conv' = conv /\ mark < saved[conv] /\ mark' = saved[conv]
              /\ Inside(cards, <<conv, mark>>, mark') = {}
              /\ UNCHANGED <<rows, cards, saved>>
<1> USE DEF Base
<1>1. sub.key \in Keys /\ rows \in [Keys -> Rows]
  BY DEF Types, Subs
<1>2. Active => sub.key = <<conv, mark>>
  BY DEF Submitting
<1>3. ASSUME NEW row \in Rows, Ends(row), Active
      PROVE  \/ conv' = conv /\ mark' = mark
             \/ mark' = 0 /\ conv' = conv + 1
             \/ /\ conv' = conv /\ <<conv, mark>> \in Keys
                /\ Done(rows'[<<conv, mark>>]) /\ rows'[<<conv, mark>>].end = mark'
  BY <1>1, <1>2, <1>3, EndMoves
<1>4. CASE Suppressed \/ BrainFails \/ (Conflict /\ sub.replaced)
  <2>1. /\ [sub.row EXCEPT !.state = "failed"] \in Rows
        /\ [sub.row EXCEPT !.state = "suppressed"] \in Rows
    BY FailedRow DEF States
  <2> QED
    BY <1>3, <1>4, <2>1 DEF Suppressed, BrainFails, Conflict, At, Active
<1>5. CASE ReadReceipt
  <2>1. PICK row \in Rows : Ends(row)
    BY <1>5, ReceiptRow
  <2> QED
    BY <1>3, <1>5, <2>1 DEF ReadReceipt, At, Active
<1>6. CASE Known \/ Refresh
  <2>1. PICK k \in Keys, row \in Rows :
              /\ Done(row) /\ rows' = [rows EXCEPT ![k] = row] /\ row.end = rows[k].end
              /\ Known => k = sub.key /\ Returns(TRUE, rows[k].end)
              /\ Refresh => UNCHANGED <<conv, mark, sub>>
    BY <1>6, RowRefreshed
  <2>2. CASE Refresh
    BY <2>1, <2>2
  <2>3. CASE Known
    <3>1. Active
      BY <2>3 DEF Known, At, Active
    <3>2. rows'[k] = row
      BY <1>1, <2>1
    <3>3. \/ conv' = conv /\ mark' = rows[k].end
          \/ mark' = 0 /\ conv' = conv + 1
      BY <2>1, <2>3 DEF Returns
    <3> QED
      BY <1>1, <1>2, <2>1, <2>3, <3>1, <3>2, <3>3
  <2> QED
    BY <1>6, <2>2, <2>3
<1>7. CASE JournalFails
  BY <1>7 DEF JournalFails, Fails, Returns
<1>8. CASE Save \/ Create \/ Again \/ SaveRow \/ Stage \/ Observe \/ Process \/ Crash
  BY <1>8 DEF Save, Create, Again, SaveRow, Stage, Observe, Process, Crash, session
<1>9. CASE Conflict /\ ~sub.replaced
  BY <1>9, ConflictMoves DEF session
<1>10. CASE \E next \in {"compact", "end"} : Leave(next)
  BY <1>10 DEF Leave, Begin
<1>11. CASE Submit
  <2>1. CASE Begin("stay")
    BY <2>1 DEF Begin
  <2>2. CASE PassOver
    BY <1>11, <2>2 DEF Submit, PassOver, Due, Empty, Content, Inside
  <2> QED
    BY <1>11, <2>1, <2>2 DEF Submit
<1>12. CASE BackoffEnds \/ Exclude \/ Poll \/ Read \/ RefreshFails \/ Finish
  BY <1>12, QuietSteps DEF Quiet
<1> QED
  BY <1>4, <1>5, <1>6, <1>7, <1>8, <1>9, <1>10, <1>11, <1>12 DEF Next, Submission, Faulty, Reconcile

\* Formed, with the rows and the cards as they are.
FormedIn(c, m) ==
    \/ \E b \in brain : Taken(b) /\ b.key[1] = c /\ m \in Inside(cards, b.key, b.end)
    \/ \E k \in Keys : /\ k[1] = c /\ m \in Inside(cards, k, rows[k].end)
                       /\ rows[k].state = "suppressed"

LEMMA FormedIs == \A c, m : Formed(c, m) <=> FormedIn(c, m)
BY DEF Formed, FormedIn, Covers, Content, Inside

\* What is formed stays formed.
LEMMA FormedStays ==
    ASSUME Base, Next, NEW c \in Convs, NEW m \in 0..MaxSaved, FormedIn(c, m)
    PROVE  FormedIn(c, m)'
<1>1. CASE \E b \in brain : Taken(b) /\ b.key[1] = c /\ m \in Inside(cards, b.key, b.end)
  <2>1. PICK b \in brain : Taken(b) /\ b.key[1] = c /\ m \in Inside(cards, b.key, b.end)
    BY <1>1
  <2>2. PICK w \in brain' : w.key = b.key /\ w.end = b.end /\ (Taken(b) => Taken(w))
    BY TakenStays
  <2>3. b.key \in Keys /\ b.end \in Nat /\ b.end <= saved[b.key[1]]
    BY EndsFit
  <2>4. m \in Inside(cards', w.key, w.end)
    BY <2>1, <2>2, <2>3, InsideStays
  <2> QED
    BY <2>1, <2>2, <2>4 DEF FormedIn, Taken
<1>2. CASE \E k \in Keys : /\ k[1] = c /\ m \in Inside(cards, k, rows[k].end)
                           /\ rows[k].state = "suppressed"
  <2>1. PICK k \in Keys : /\ k[1] = c /\ m \in Inside(cards, k, rows[k].end)
                          /\ rows[k].state = "suppressed"
    BY <1>2
  <2>2. rows'[k].end = rows[k].end /\ rows'[k].state = "suppressed"
    BY <2>1, DoneStays DEF Done
  <2>3. rows[k].end \in Nat /\ rows[k].end <= saved[k[1]]
    BY <2>1, EndsFit DEF Used, NoRow
  <2>4. m \in Inside(cards', k, rows'[k].end)
    BY <2>1, <2>2, <2>3, InsideStays
  <2> QED
    BY <2>1, <2>2, <2>4 DEF FormedIn
<1> QED
  BY <1>1, <1>2 DEF FormedIn

\* The property, in these terms.
Reached == \A m \in 0..MaxSaved : m < mark => <<conv, m>> \in cards \/ FormedIn(conv, m)

LEMMA ReachedStep ==
    ASSUME Base, Reached, Next
    PROVE  Reached'
<1>1. Base'
  BY BaseStep
<1>2. conv \in Convs /\ mark \in 0..MaxSaved /\ mark' \in 0..MaxSaved /\ cards \subseteq cards'
  BY <1>1, CardsStep DEF Base, Types
<1> PICK c \in Convs : c = conv
  BY <1>2
<1>3. ASSUME NEW m \in 0..MaxSaved, m < mark PROVE <<c, m>> \in cards' \/ FormedIn(c, m)'
  <2>1. <<c, m>> \in cards \/ FormedIn(c, m)
    BY <1>3 DEF Reached
  <2> QED
    BY <1>2, <2>1, FormedStays
<1>4. ASSUME conv' = conv,
             \A m \in 0..MaxSaved : m < mark' => <<c, m>> \in cards' \/ FormedIn(c, m)'
      PROVE  Reached'
  BY <1>4 DEF Reached, FormedIn
<1>5. CASE conv' = conv /\ mark' = mark
  BY <1>3, <1>4, <1>5
<1>6. CASE mark' = 0
  BY <1>6, FormationAssumption DEF Reached
<1>7. CASE /\ conv' = conv /\ <<conv, mark>> \in Keys
           /\ Done(rows'[<<conv, mark>>]) /\ rows'[<<conv, mark>>].end = mark'
  <2>1. PICK k \in Keys : k = <<conv, mark>>
    BY <1>7
  <2>2. k[1] = c /\ k[2] = mark /\ Done(rows'[k]) /\ rows'[k].end = mark'
    BY <1>7, <2>1
  <2>3. ASSUME NEW m \in 0..MaxSaved, m < mark', mark <= m, <<c, m>> \notin cards'
        PROVE  FormedIn(c, m)'
    <3>1. m \in Inside(cards', k, rows'[k].end)
      <4>1. PICK d \in Nat, e \in Nat : d = mark /\ e = mark'
        BY <1>2, FormationAssumption
      <4>4. m \in d..e - 1
        <5>1. m \in Nat
          BY FormationAssumption
        <5>2. d <= m /\ m < e
          BY <2>3, <4>1
        <5> QED
          BY <5>1, <5>2
      <4>2. <<k[1], m>> \notin cards'
        BY <2>2, <2>3
      <4>3. m \in k[2]..rows'[k].end - 1
        BY <2>2, <4>1, <4>4
      <4> QED
        BY <4>2, <4>3 DEF Inside
    <3>2. CASE rows'[k].native
      <4>1. PICK b \in brain' : /\ b.key = k /\ Taken(b)
                                /\ Inside(cards', k, b.end) = Inside(cards', k, rows'[k].end)
        BY <1>1, <3>2 DEF Base, NativeIsTaken, Taken
      <4> QED
        BY <2>2, <3>1, <4>1 DEF FormedIn, Taken
    <3>3. CASE rows'[k].state = "suppressed"
      BY <2>2, <3>1, <3>3 DEF FormedIn
    <3> QED
      BY <2>2, <3>2, <3>3 DEF Done
  <2> QED
    BY <1>2, <1>3, <1>4, <1>7, <2>3
<1>8. CASE /\ conv' = conv /\ mark < saved[conv] /\ mark' = saved[conv]
           /\ Inside(cards, <<conv, mark>>, mark') = {}
           /\ UNCHANGED <<rows, cards, saved>>
  <2>1. ASSUME NEW m \in 0..MaxSaved, m < mark', mark <= m PROVE <<c, m>> \in cards'
    BY <1>2, <1>8, <2>1 DEF Inside
  <2> QED
    BY <1>2, <1>3, <1>4, <1>8, <2>1
<1> QED
  BY <1>5, <1>6, <1>7, <1>8, MarkMoves

\* The offset never passes a message that is to be formed and that the Brain has neither
\* taken nor refused to admit, over retries with longer windows, windows without
\* anything to form and crashes (submit_pending_formation).
THEOREM NoMessageSkipped == Spec => []NothingSkipped
<1>1. Init => Reached
  BY FormationAssumption DEF Init, Reached
<1>2. Base /\ Reached /\ [Next]_vars => Reached'
  <2>1. CASE UNCHANGED vars
    BY <2>1 DEF vars, session, Reached, FormedIn, Taken
  <2> QED
    BY <2>1, ReachedStep
<1>3. Reached => NothingSkipped
  BY FormedIs DEF Reached, NothingSkipped
<1> QED
  BY <1>1, <1>2, <1>3, BaseAlways, PTL DEF Spec

-----------------------------------------------------------------------------
(***************************************************************************)
(* Windows follow each other.                                              *)
(***************************************************************************)
\* A new window begins at the offset.
LEMMA NewRow ==
    ASSUME Base, Next, NEW k \in Keys, rows'[k] # NoRow, rows[k] = NoRow
    PROVE  k = <<conv, mark>> /\ UNCHANGED <<conv, mark>>
<1> USE DEF Base
<1>1. rows \in [Keys -> Rows]
  BY DEF Types
<1>2. CASE UNCHANGED rows
  BY <1>2
<1>3. CASE Writes
  <2>1. PICK row \in Rows : Written(row)
    BY <1>3, RowWritten
  <2>2. k = sub.key /\ sub.key = <<conv, mark>>
    BY <1>1, <1>3, <2>1, NotDoneYet DEF Written
  <2>3. Create
    <3>1. sub.pc \in {"stage", "observe", "receipt"} => rows[k] # NoRow
      BY <2>2 DEF Submitting, Active, NoRow
    <3>2. sub.pc = "save" => rows[k] # NoRow
      BY <2>2 DEF Submitting, Used
    <3> QED
      BY <1>3, <3>1, <3>2 DEF Writes, SaveRow, Suppressed, ReadReceipt, BrainFails, Conflict, At
  <2> QED
    BY <2>2, <2>3 DEF Create, session
<1>4. CASE Known \/ Refresh
  <2>1. PICK j \in Keys, row \in Rows :
              /\ rows' = [rows EXCEPT ![j] = row] /\ Done(row)
              /\ row.native = rows[j].native
              /\ (row.state = "suppressed") <=> (rows[j].state = "suppressed")
    BY <1>4, RowRefreshed
  <2>2. rows[j] # NoRow
    BY <2>1 DEF Done, NoRow
  <2> QED
    BY <1>1, <2>1, <2>2
<1> QED
  BY <1>2, <1>3, <1>4, RowsChange

\* A row keeps its end, or is the one behind the offset, not done, and gets all that is
\* saved.
LEMMA EndsChange ==
    ASSUME Base, Next, NEW k \in Keys, rows'[k] # NoRow
    PROVE  \/ rows[k] # NoRow /\ rows'[k].end = rows[k].end
           \/ /\ k = <<conv, mark>> /\ ~Done(rows[k]) /\ rows'[k].end = saved[conv]
              /\ UNCHANGED saved
<1> USE DEF Base
<1>1. rows \in [Keys -> Rows]
  BY DEF Types
<1>2. CASE UNCHANGED rows
  BY <1>2
<1>3. CASE Writes
  <2>1. PICK row \in Rows : Written(row)
    BY <1>3, RowWritten
  <2>2. Active /\ sub.row.end = saved[conv]
    BY <1>3 DEF Writes, Create, SaveRow, Suppressed, ReadReceipt, BrainFails, Conflict, At, Active,
                Submitting
  <2>3. UNCHANGED saved
    BY <1>3 DEF Writes, Create, SaveRow, Suppressed, ReadReceipt, BrainFails, Conflict, Ends, Returns,
                session
  <2> QED
    BY <1>1, <1>3, <2>1, <2>2, <2>3, NotDoneYet DEF Written
<1>4. CASE Known \/ Refresh
  <2>1. PICK j \in Keys, row \in Rows :
              /\ Used(j) /\ rows' = [rows EXCEPT ![j] = row] /\ row.end = rows[j].end
    BY <1>4, RowRefreshed
  <2> QED
    BY <1>1, <2>1 DEF Used
<1> QED
  BY <1>2, <1>3, <1>4, RowsChange

\* What is before a window stays passed.
LEMMA PassedStays ==
    ASSUME Base, Next, NEW c, NEW n, Passed(c, n)
    PROVE  \A m \in 0..MaxSaved : m < n =>
              \/ <<c, m>> \in cards'
              \/ \E j \in Keys : j[1] = c /\ j[2] <= m /\ m < rows'[j].end /\ Done(rows'[j])
<1> SUFFICES ASSUME NEW m \in 0..MaxSaved, m < n, <<c, m>> \notin cards'
             PROVE  \E j \in Keys : j[1] = c /\ j[2] <= m /\ m < rows'[j].end /\ Done(rows'[j])
  OBVIOUS
<1>1. <<c, m>> \notin cards
  BY CardsStep
<1>2. PICK j \in Keys : j[1] = c /\ j[2] <= m /\ m < rows[j].end /\ Done(rows[j])
  BY <1>1 DEF Passed
<1>3. Done(rows'[j]) /\ rows'[j].end = rows[j].end
  BY <1>2, DoneStays
<1> QED
  BY <1>2, <1>3

LEMMA CrashesStep ==
    ASSUME Next
    PROVE  crashes' = crashes \/ (Crash /\ crashes' = crashes + 1)
<1>1. CASE Save \/ BackoffEnds \/ Submit \/ \E next \in {"compact", "end"} : Leave(next)
  BY <1>1 DEF Save, BackoffEnds, Submit, Leave, bounds
<1>2. CASE Submission
  BY <1>2 DEF Submission, Create, Again, Known, SaveRow, Stage, Conflict, Suppressed, Observe,
              ReadReceipt, bounds
<1>3. CASE Faulty
  BY <1>3 DEF Faulty, BrainFails, JournalFails, RefreshFails
<1>4. CASE Reconcile
  BY <1>4 DEF Reconcile, Poll, Read, Refresh, Finish, bounds
<1>5. CASE Process \/ Exclude
  BY <1>5 DEF Process, Exclude
<1>6. CASE Crash
  BY <1>6 DEF Crash
<1> QED
  BY <1>1, <1>2, <1>3, <1>4, <1>5, <1>6 DEF Next

LEMMA InOrderStep ==
    ASSUME Base, InOrder, MarkInOrder, Next
    PROVE  InOrder'
<1>1. /\ conv \in Convs /\ mark \in Nat /\ cards \subseteq cards' /\ saved[conv] \in Nat
      /\ MaxSaved \in Nat
  BY CardsStep, FormationAssumption DEF Base, Types
<1>2. \A k \in Keys : k = <<k[1], k[2]>> /\ k[1] \in Convs /\ k[2] \in Nat /\ k[2] \in 0..MaxSaved
                      /\ rows[k].end \in Nat
  BY EndsFit, FormationAssumption DEF Keys
<1>3. crashes \in Nat /\ crashes' \in Nat /\ (crashes > 0 => crashes' > 0)
  BY CrashesStep DEF InOrder
<1>4. ASSUME NEW j \in Keys, NEW k \in Keys, j[1] = k[1], j[2] < k[2], k[2] < rows'[j].end,
             rows'[k] # NoRow
      PROVE  rows'[k].end <= rows'[j].end /\ j \in cards' /\ crashes' > 0
  <2>1. rows'[j] # NoRow
    BY <1>2, <1>4 DEF NoRow
  <2>2. k # <<conv, mark>> \/ j # <<conv, mark>>
    BY <1>2, <1>4
  <2>3. CASE k = <<conv, mark>>
    <3>1. rows[j] # NoRow /\ rows'[j].end = rows[j].end
      BY <2>1, <2>2, <2>3, EndsChange
    <3>2. rows[j].end <= mark
      BY <1>4, <2>3, <3>1 DEF MarkInOrder
    <3> QED
      BY <1>1, <1>2, <1>4, <2>3, <3>1, <3>2
  <2>4. CASE k # <<conv, mark>>
    <3>1. rows[k] # NoRow /\ rows'[k].end = rows[k].end
      BY <1>4, <2>4, EndsChange
    <3>2. CASE rows[j] # NoRow /\ rows'[j].end = rows[j].end
      BY <1>1, <1>3, <1>4, <3>1, <3>2 DEF InOrder
    <3>3. CASE /\ j = <<conv, mark>> /\ ~Done(rows[j]) /\ rows'[j].end = saved[conv]
               /\ UNCHANGED saved
      <4>1. k[1] = conv /\ mark < k[2] /\ j[2] = mark /\ j[1] = conv
        BY <1>4, <3>3
      <4>2. rows[k].end <= saved[conv]
        BY <3>1, <4>1 DEF Base, RowsFit, Used
      <4>3. j \in cards
        <5>1. SUFFICES ASSUME j \notin cards PROVE FALSE
          OBVIOUS
        <5>2. Passed(k[1], k[2])
          BY <3>1 DEF InOrder
        <5>3. PICK i \in Keys : i[1] = conv /\ i[2] <= mark /\ mark < rows[i].end /\ Done(rows[i])
          BY <1>2, <3>3, <4>1, <5>1, <5>2 DEF Passed
        <5>4. CASE i[2] = mark
          BY <1>2, <3>3, <5>3, <5>4
        <5>5. CASE i[2] < mark
          <6>1. rows[i] # NoRow
            BY <5>3 DEF Done, NoRow
          <6>2. rows[i].end <= mark
            BY <5>3, <5>5, <6>1 DEF MarkInOrder
          <6> QED
            BY <1>1, <1>2, <5>3, <6>2
        <5> QED
          BY <1>1, <1>2, <5>3, <5>4, <5>5
      <4>4. crashes > 0
        <5>1. SUFFICES ASSUME crashes = 0 PROVE FALSE
          BY <1>3
        <5>2. k[1] < conv \/ (k[1] = conv /\ k[2] <= mark)
          BY <3>1, <5>1 DEF MarkInOrder
        <5> QED
          BY <1>1, <1>2, <4>1, <5>2 DEF Convs
      <4> QED
        BY <1>1, <1>3, <3>1, <3>3, <4>2, <4>3, <4>4
    <3> QED
      BY <2>1, <3>2, <3>3, EndsChange
  <2> QED
    BY <2>3, <2>4
<1>5. ASSUME NEW k \in Keys, rows'[k] # NoRow PROVE Passed(k[1], k[2])'
  <2>1. Passed(k[1], k[2])
    <3>1. CASE rows[k] # NoRow
      BY <3>1 DEF InOrder
    <3>2. CASE rows[k] = NoRow
      BY <1>5, <3>2, NewRow DEF MarkInOrder
    <3> QED
      BY <3>1, <3>2
  <2>2. \A m \in 0..MaxSaved : m < k[2] =>
           \/ <<k[1], m>> \in cards'
           \/ \E i \in Keys : i[1] = k[1] /\ i[2] <= m /\ m < rows'[i].end /\ Done(rows'[i])
    BY <2>1, PassedStays
  <2> QED
    BY <2>2 DEF Passed
<1> QED
  BY <1>3, <1>4, <1>5 DEF InOrder

LEMMA MarkInOrderStep ==
    ASSUME Base, InOrder, MarkInOrder, Next
    PROVE  MarkInOrder'
<1>1. Base' /\ InOrder'
  BY BaseStep, InOrderStep
<1>2. /\ conv \in Convs /\ mark \in Nat /\ mark' \in Nat /\ MaxSaved \in Nat
      /\ cards \subseteq cards' /\ saved[conv] \in Nat
  BY <1>1, CardsStep, FormationAssumption DEF Base, Types
<1>3. \A k \in Keys : k = <<k[1], k[2]>> /\ k[1] \in Convs /\ k[2] \in Nat
                      /\ rows[k].end \in Nat /\ rows'[k].end \in Nat
  BY <1>1, FormationAssumption DEF Keys, Base, Types, Rows
<1>4. crashes \in Nat /\ (crashes' = 0 => crashes = 0 /\ ~Crash)
  <2>1. crashes' = crashes \/ crashes' = crashes + 1
    BY CrashesStep
  <2>2. Crash => crashes' = crashes + 1
    BY DEF Crash
  <2>3. crashes \in Nat
    BY DEF InOrder
  <2> QED
    BY <2>1, <2>2, <2>3
\* Where the rows stand behind the offset.
<1>5. ASSUME NEW j \in Keys, j[1] = conv, rows'[j] # NoRow, j[2] < mark
      PROVE  rows'[j].end <= mark
  <2>1. rows[j] # NoRow /\ rows'[j].end = rows[j].end
    BY <1>2, <1>3, <1>5, EndsChange
  <2> QED
    BY <1>5, <2>1 DEF MarkInOrder
<1>6. \A m \in 0..MaxSaved : m < mark =>
         \/ <<conv, m>> \in cards'
         \/ \E j \in Keys : j[1] = conv /\ j[2] <= m /\ m < rows'[j].end /\ Done(rows'[j])
  BY PassedStays DEF MarkInOrder
\* What lies before the offset, from what is between the old one and the new one.
<1>7. ASSUME conv' = conv, mark <= mark',
             \A j \in Keys : j[1] = conv /\ rows'[j] # NoRow /\ mark <= j[2] /\ j[2] < mark' =>
                rows'[j].end <= mark',
             \A m \in 0..MaxSaved : mark <= m /\ m < mark' =>
                \/ <<conv, m>> \in cards'
                \/ \E j \in Keys : j[1] = conv /\ j[2] <= m /\ m < rows'[j].end /\ Done(rows'[j])
      PROVE  MarkInOrder'
  <2>1. ASSUME NEW j \in Keys, j[1] = conv', rows'[j] # NoRow, j[2] < mark'
        PROVE  rows'[j].end <= mark'
    <3>1. CASE j[2] < mark
      <4>1. rows'[j].end <= mark
        BY <1>5, <1>7, <2>1, <3>1
      <4> QED
        BY <1>2, <1>3, <1>7, <4>1
    <3>2. CASE mark <= j[2]
      BY <1>7, <2>1, <3>2
    <3> QED
      BY <1>2, <1>3, <3>1, <3>2
  <2>2. ASSUME NEW m \in 0..MaxSaved, m < mark'
        PROVE  \/ <<conv, m>> \in cards'
               \/ \E j \in Keys : j[1] = conv /\ j[2] <= m /\ m < rows'[j].end /\ Done(rows'[j])
    <3>1. CASE m < mark
      BY <1>6, <3>1
    <3>2. CASE mark <= m
      BY <1>7, <2>2, <3>2
    <3> QED
      BY <1>2, <3>1, <3>2
  <2>3. Passed(conv, mark)'
    BY <1>7, <2>2 DEF Passed
  <2>4. ASSUME crashes' = 0, NEW j \in Keys, rows'[j] # NoRow
        PROVE  j[1] < conv' \/ (j[1] = conv' /\ j[2] <= mark')
    <3>1. CASE rows[j] # NoRow
      <4>1. j[1] < conv \/ (j[1] = conv /\ j[2] <= mark)
        BY <1>4, <2>4, <3>1 DEF MarkInOrder
      <4> QED
        BY <1>2, <1>3, <1>7, <4>1
    <3>2. CASE rows[j] = NoRow
      BY <1>2, <1>7, <2>4, <3>2, NewRow
    <3> QED
      BY <3>1, <3>2
  <2> QED
    BY <2>1, <2>3, <2>4 DEF MarkInOrder
<1>8. CASE conv' = conv /\ mark' = mark
  BY <1>2, <1>3, <1>7, <1>8
<1>9. CASE mark' = 0 /\ (conv' = conv + 1 \/ Crash)
  <2>1. ASSUME crashes' = 0, NEW j \in Keys, rows'[j] # NoRow
        PROVE  j[1] < conv'
    <3>1. conv' = conv + 1
      BY <1>4, <1>9, <2>1
    <3>2. j[1] <= conv
      <4>1. CASE rows[j] # NoRow
        BY <1>2, <1>3, <1>4, <2>1, <4>1 DEF MarkInOrder, Convs
      <4>2. CASE rows[j] = NoRow
        BY <1>2, <2>1, <4>2, NewRow DEF Convs
      <4> QED
        BY <4>1, <4>2
    <3> QED
      BY <1>2, <1>3, <3>1, <3>2 DEF Convs
  <2>2. Passed(conv, mark)'
    BY <1>9 DEF Passed
  <2> QED
    BY <1>3, <1>9, <2>1, <2>2 DEF MarkInOrder
<1>10. CASE /\ conv' = conv /\ <<conv, mark>> \in Keys
            /\ Done(rows'[<<conv, mark>>]) /\ rows'[<<conv, mark>>].end = mark'
  <2>1. PICK k \in Keys : k = <<conv, mark>>
    BY <1>10
  <2>2. k[1] = conv /\ k[2] = mark /\ Done(rows'[k]) /\ rows'[k].end = mark'
    BY <1>10, <2>1
  <2>3. rows'[k] # NoRow
    BY <2>2 DEF Done, NoRow
  <2>4. mark < mark'
    BY <1>1, <2>2, <2>3 DEF Base, RowsFit, Used
  <2>5. ASSUME NEW j \in Keys, j[1] = conv, rows'[j] # NoRow, mark <= j[2], j[2] < mark'
        PROVE  rows'[j].end <= mark'
    <3>1. CASE j[2] = mark
      BY <1>2, <1>3, <2>1, <2>2, <2>5, <3>1
    <3>2. CASE mark < j[2]
      BY <1>1, <2>2, <2>5, <3>2 DEF InOrder
    <3> QED
      BY <1>2, <1>3, <2>5, <3>1, <3>2
  <2>6. \A m \in 0..MaxSaved : mark <= m /\ m < mark' =>
           \E j \in Keys : j[1] = conv /\ j[2] <= m /\ m < rows'[j].end /\ Done(rows'[j])
    BY <2>2
  <2> QED
    BY <1>2, <1>7, <1>10, <2>4, <2>5, <2>6
<1>11. CASE /\ conv' = conv /\ mark < saved[conv] /\ mark' = saved[conv]
            /\ Inside(cards, <<conv, mark>>, mark') = {}
            /\ UNCHANGED <<rows, cards, saved>>
  <2>1. ASSUME NEW j \in Keys, j[1] = conv, rows'[j] # NoRow
        PROVE  rows'[j].end <= mark'
    BY <1>11, <2>1 DEF Base, RowsFit, Used
  <2>2. ASSUME NEW m \in 0..MaxSaved, mark <= m, m < mark'
        PROVE  <<conv, m>> \in cards'
    BY <1>2, <1>11, <2>2 DEF Inside
  <2> QED
    BY <1>2, <1>7, <1>11, <2>1, <2>2
<1> QED
  BY <1>8, <1>9, <1>10, <1>11, MarkMoves

-----------------------------------------------------------------------------
(***************************************************************************)
(* What was taken in an earlier attempt.                                   *)
(***************************************************************************)
\* The attempts do not depend on the rest.
LEMMA AttemptsKept ==
    ASSUME Attempts, UNCHANGED <<cards, rows, brain, errored>>,
           sub' = sub \/ sub'.pc \notin {"save", "stage"}
    PROVE  Attempts'
BY DEF Attempts, Superseded, Unclear, Rejected

\* A row the journal knows to be done is refreshed.
LEMMA RefreshAttempts ==
    ASSUME Base, Attempts, Known \/ Refresh
    PROVE  Attempts'
<1>1. rows \in [Keys -> Rows] /\ brain \in SUBSET Windows /\ \A b \in brain : b.key \in Keys
  BY DEF Base, Types, Windows
<1>2. PICK k \in Keys, row \in Rows :
           /\ rows' = [rows EXCEPT ![k] = row] /\ UNCHANGED <<cards, brain, errored>>
           /\ row.end = rows[k].end /\ row.attempt = rows[k].attempt
           /\ row.native \/ row = rows[k]
  BY RowRefreshed
<1>3. sub' = sub \/ sub'.pc \notin {"save", "stage"}
  BY DEF Known, Refresh, Returns, NoSub
<1>4. \A j \in Keys : /\ rows'[j].end = rows[j].end /\ rows'[j].attempt = rows[j].attempt
                      /\ Rejected(rows'[j]) => Rejected(rows[j])
  BY <1>1, <1>2 DEF Rejected
<1> QED
  BY <1>1, <1>2, <1>3, <1>4 DEF Attempts, Superseded, Unclear

\* The Brain takes or refuses the window of the current attempt, or forms one it has.
LEMMA PhaseAttempts ==
    ASSUME Base, Attempts, Process \/ Observe
    PROVE  Attempts'
<1>1. /\ rows \in [Keys -> Rows] /\ brain \in SUBSET Windows
      /\ \A b \in brain : b.key \in Keys /\ b.attempt \in Nat
  BY DEF Base, Types, Windows
<1>2. UNCHANGED <<cards, rows, errored>> /\ (sub' = sub \/ sub'.pc = "receipt")
  BY DEF Process, Observe, Base, Types, Subs, session
<1>3. CASE UNCHANGED brain
  BY <1>2, <1>3, AttemptsKept
<1>4. ASSUME NEW b \in brain, NEW phase \in Phases,
             brain' = (brain \ {b}) \cup {[b EXCEPT !.phase = phase]},
             \/ Taken(b)
             \/ /\ b.attempt = rows[b.key].attempt /\ ~Rejected(rows[b.key])
                /\ sub'.pc = "receipt"
      PROVE  Attempts'
  <2> DEFINE new == [b EXCEPT !.phase = phase]
  <2>1. new.key = b.key /\ new.attempt = b.attempt /\ new.end = b.end
    BY <1>1 DEF Windows
  <2>2. brain' = (brain \ {b}) \cup {new}
    BY <1>4
  <2> HIDE DEF new
  <2>3. \A a \in brain : a.attempt <= rows[a.key].attempt
    BY DEF Base, WindowsKnown
  <2>4. ASSUME NEW a \in brain', a.attempt < rows'[a.key].attempt
        PROVE  Taken(a) => Unclear(a)' \/ Longer(cards, a.key, a.end, rows'[a.key].end)
    BY <1>1, <1>2, <1>4, <2>1, <2>2, <2>4 DEF Attempts, Superseded, Unclear
  <2>5. ASSUME NEW a \in brain', NEW c \in brain', a.key = c.key, a.attempt < c.attempt
        PROVE  Taken(a) => Unclear(a)' \/ Longer(cards, a.key, a.end, c.end)
    BY <1>1, <1>2, <1>4, <2>1, <2>2, <2>3, <2>5 DEF Attempts, Superseded, Unclear
  <2>6. ASSUME NEW a \in brain', a.attempt = rows'[a.key].attempt, Rejected(rows'[a.key]), Taken(a)
        PROVE  Unclear(a)'
    BY <1>1, <1>2, <1>4, <2>1, <2>2, <2>6 DEF Attempts, Unclear
  <2>7. ASSUME sub'.pc = "save", NEW a \in brain', a.key = sub'.key, a.attempt < sub'.row.attempt
        PROVE  Taken(a) => Unclear(a)' \/ Longer(cards, a.key, a.end, sub'.row.end)
    BY <1>2, <1>4, <2>1, <2>2, <2>7 DEF Attempts, Superseded, Unclear
  <2>8. ASSUME sub'.pc = "stage", sub'.replaced, NEW a \in brain'
        PROVE  ~(a.key = sub'.key /\ a.attempt = sub'.row.attempt)
    <3>1. sub' = sub
      BY <1>2, <2>8
    <3>2. \A c \in brain : ~(c.key = sub.key /\ c.attempt = sub.row.attempt)
      BY <2>8, <3>1 DEF Attempts
    <3>3. CASE a \in brain
      BY <3>1, <3>2, <3>3
    <3>4. CASE a = new
      BY <1>4, <2>1, <3>1, <3>2, <3>4
    <3> QED
      BY <2>2, <3>3, <3>4
  <2> QED
    BY <1>2, <2>4, <2>5, <2>6, <2>7, <2>8 DEF Attempts, Superseded, Unclear
<1>5. Observe => /\ sub'.pc = "receipt" /\ rows[sub.key] = sub.row /\ ~Rejected(sub.row)
  BY DEF Observe, At, Base, Types, Subs, Submitting, Active, Rejected
<1>6. ASSUME NEW b \in Staged(sub.key, sub.row.attempt), Observe
      PROVE  b.attempt = rows[b.key].attempt /\ ~Rejected(rows[b.key])
  BY <1>5, <1>6 DEF Staged
<1> QED
  BY <1>3, <1>4, <1>5, <1>6, PhaseMoves DEF Taken

\* The Brain stages a window of the current attempt.
LEMMA StageAttempts ==
    ASSUME Base, Attempts, Stage
    PROVE  Attempts'
<1>1. /\ rows \in [Keys -> Rows] /\ brain \in SUBSET Windows
      /\ \A b \in brain : b.key \in Keys /\ b.attempt \in Nat
  BY DEF Base, Types, Windows
<1>2. UNCHANGED <<cards, rows, errored>> /\ sub'.pc = "observe"
  BY DEF Stage, Base, Types, Subs, bounds, session
<1>3. CASE UNCHANGED brain
  BY <1>2, <1>3, AttemptsKept
<1>4. CASE ~UNCHANGED brain
  <2> DEFINE new == [key |-> sub.key, attempt |-> sub.row.attempt, end |-> sub.row.end,
                     time |-> sub.row.time, phase |-> "staged"]
  <2>1. brain' = brain \cup {new}
    BY <1>4 DEF Stage
  <2>2. rows[sub.key] = sub.row
    BY DEF Stage, At, Base, Submitting
  <2>3. /\ new.attempt = rows[new.key].attempt /\ new.end = rows[new.key].end /\ ~Taken(new)
    BY <2>2 DEF Taken
  <2> HIDE DEF new
  <2>4. \A a \in brain : a.attempt <= rows[a.key].attempt
    BY DEF Base, WindowsKnown
  <2>5. ASSUME NEW a \in brain', NEW c \in brain', a.key = c.key, a.attempt < c.attempt
        PROVE  Taken(a) => Unclear(a)' \/ Longer(cards, a.key, a.end, c.end)
    BY <1>1, <1>2, <2>1, <2>3, <2>4, <2>5 DEF Attempts, Superseded, Unclear
  <2>6. ASSUME NEW a \in brain', a.attempt < rows'[a.key].attempt
        PROVE  Taken(a) => Unclear(a)' \/ Longer(cards, a.key, a.end, rows'[a.key].end)
    BY <1>2, <2>1, <2>3, <2>6 DEF Attempts, Superseded, Unclear
  <2>7. ASSUME NEW a \in brain', a.attempt = rows'[a.key].attempt, Rejected(rows'[a.key]), Taken(a)
        PROVE  Unclear(a)'
    BY <1>2, <2>1, <2>3, <2>7 DEF Attempts, Unclear
  <2> QED
    BY <1>2, <2>5, <2>6, <2>7 DEF Attempts, Superseded, Unclear
<1> QED
  BY <1>3, <1>4

\* A submission repeats its attempt, or makes the next one, of what is not taken or is
\* longer by now.
LEMMA RaiseAttempts ==
    ASSUME Base, Attempts, Again \/ (Conflict /\ ~sub.replaced)
    PROVE  Attempts'
<1> DEFINE old == rows[sub.key]
<1>1. /\ rows \in [Keys -> Rows] /\ brain \in SUBSET Windows /\ sub.key \in Keys /\ sub.row \in Rows
      /\ \A b \in brain : b.key \in Keys /\ b.attempt \in Nat /\ b.end \in Nat
      /\ old.attempt \in Nat /\ old.end \in Nat /\ sub.row.end \in Nat
  BY FormationAssumption DEF Base, Types, Subs, Windows, Rows
<1>2. /\ Kept(sub, sub') /\ UNCHANGED <<cards, rows, brain, errored>> /\ sub'.pc = "save"
      /\ sub'.row.end = sub.row.end /\ sub'.key = sub.key
  BY AgainMoves, ConflictMoves DEF Base, Kept, Again, Conflict, bounds, session
<1>3. old.end <= sub.row.end
  <2>1. CASE Again
    BY <2>1 DEF Again, At, Base, Submitting, Active, RowsFit, Used, Types, Subs
  <2>2. CASE Conflict
    BY <1>1, <2>2 DEF Conflict, At, Base, Submitting
  <2> QED
    BY <2>1, <2>2
<1>4. \A a \in brain : a.key = sub.key /\ a.attempt < old.attempt =>
                          (Taken(a) => Unclear(a) \/ Longer(cards, a.key, a.end, sub.row.end))
  <2> SUFFICES ASSUME NEW a \in brain, a.key = sub.key, a.attempt < old.attempt, Taken(a), ~Unclear(a)
               PROVE  Longer(cards, a.key, a.end, sub.row.end)
    OBVIOUS
  <2>1. Longer(cards, a.key, a.end, old.end)
    BY DEF Attempts, Superseded
  <2> QED
    BY <1>1, <1>3, <2>1, LongerMore
<1>5. CASE Again
  <2>1. \/ sub'.row.attempt = old.attempt
        \/ sub'.row.attempt = old.attempt + 1 /\ Rejected(old)
    BY <1>1, <1>5, AgainMoves DEF Again, Rejected, Base
  <2>2. ASSUME NEW a \in brain, a.key = sub.key, a.attempt < sub'.row.attempt
        PROVE  Taken(a) => Unclear(a) \/ Longer(cards, a.key, a.end, sub.row.end)
    <3>1. CASE a.attempt < old.attempt
      BY <1>4, <2>2, <3>1
    <3>2. CASE a.attempt = old.attempt /\ Rejected(old)
      BY <2>2, <3>2 DEF Attempts
    <3> QED
      BY <1>1, <2>1, <2>2, <3>1, <3>2
  <2> QED
    BY <1>2, <2>2 DEF Attempts, Superseded, Unclear
<1>6. CASE Conflict /\ ~sub.replaced
  <2>1. old = sub.row /\ sub'.row.attempt = old.attempt + 1
    BY <1>6, ConflictMoves DEF Conflict, At, Base, Submitting
  <2>2. PICK b \in brain : /\ b.key = sub.key /\ b.attempt = old.attempt
                           /\ ~Bound(b)
    BY <1>6, <2>1 DEF Conflict, Staged
  <2>3. Longer(cards, b.key, b.end, sub.row.end)
    <3>1. b.time = sub.row.time /\ b.end <= sub.row.end
      BY <2>1, <2>2 DEF Base, WindowsKnown
    <3>2. Inside(cards, b.key, b.end) # Inside(cards, b.key, sub.row.end)
      BY <2>2, <3>1 DEF Bound, Content, Inside
    <3> QED
      BY <1>1, <3>1, <3>2, LongerIs
  <2>4. ASSUME NEW a \in brain, a.key = sub.key, a.attempt < sub'.row.attempt
        PROVE  Taken(a) => Unclear(a) \/ Longer(cards, a.key, a.end, sub.row.end)
    <3>1. CASE a.attempt < old.attempt
      BY <1>4, <2>4, <3>1
    <3>2. CASE a.attempt = old.attempt
      <4>1. a = b
        BY <2>2, <2>4, <3>2 DEF Base, WindowsKnown
      <4> QED
        BY <2>3, <4>1
    <3> QED
      BY <1>1, <2>1, <2>4, <3>1, <3>2
  <2> QED
    BY <1>2, <2>4 DEF Attempts, Superseded, Unclear
<1> QED
  BY <1>5, <1>6

\* A submission writes its row.
LEMMA WriteAttempts ==
    ASSUME Base, Attempts, Writes
    PROVE  Attempts'
<1>1. /\ rows \in [Keys -> Rows] /\ brain \in SUBSET Windows /\ sub.key \in Keys /\ sub.row \in Rows
      /\ \A b \in brain : b.key \in Keys /\ b.attempt \in Nat /\ b.end \in Nat
      /\ rows[sub.key].attempt \in Nat /\ rows[sub.key].end \in Nat
      /\ sub.row.end \in Nat /\ sub.row.attempt \in Nat
  BY FormationAssumption DEF Base, Types, Subs, Windows, Rows
<1>2. ASSUME NEW row \in Rows, rows' = [rows EXCEPT ![sub.key] = row],
             UNCHANGED <<cards, brain>>, errored \subseteq errored',
             \A a \in brain : a.key = sub.key =>
                /\ a.attempt < row.attempt => Superseded(a, row.end)
                /\ a.attempt = row.attempt /\ Rejected(row) /\ Taken(a) => Unclear(a)',
             \/ sub'.pc = "idle"
             \/ /\ sub'.pc = "stage"
                /\ sub'.replaced => \A a \in brain : ~(a.key = sub'.key /\ a.attempt = sub'.row.attempt)
      PROVE  Attempts'
  <2>1. rows'[sub.key] = row /\ \A k \in Keys \ {sub.key} : rows'[k] = rows[k]
    BY <1>1, <1>2
  <2>2. ASSUME NEW a \in brain
        PROVE  /\ a.attempt < rows'[a.key].attempt =>
                     (Taken(a) => Unclear(a)' \/ Longer(cards, a.key, a.end, rows'[a.key].end))
               /\ a.attempt = rows'[a.key].attempt /\ Rejected(rows'[a.key]) =>
                     (Taken(a) => Unclear(a)')
    <3>1. CASE a.key = sub.key
      BY <1>2, <2>1, <3>1 DEF Superseded, Unclear
    <3>2. CASE a.key # sub.key
      BY <1>1, <1>2, <2>1, <3>2 DEF Attempts, Superseded, Unclear
    <3> QED
      BY <3>1, <3>2
  <2>3. \A a, c \in brain : a.key = c.key /\ a.attempt < c.attempt =>
              (Taken(a) => Unclear(a)' \/ Longer(cards, a.key, a.end, c.end))
    BY <1>2 DEF Attempts, Superseded, Unclear
  <2> QED
    BY <1>2, <2>2, <2>3 DEF Attempts, Superseded, Unclear
<1>3. CASE Create
  <2>1. UNCHANGED <<cards, brain, errored>> /\ rows' = [rows EXCEPT ![sub.key] = sub.row]
        /\ sub'.pc = "stage" /\ sub'.replaced = sub.replaced
    BY <1>3 DEF Create, Write, Base, Types, Subs, bounds, session
  <2>2. ~sub.replaced
    BY <1>3 DEF Create, At, Base, Retrying
  <2>3. \A a \in brain : a.key # sub.key
    BY <1>3 DEF Create, Base, WindowsKnown, Used
  <2> QED
    BY <1>1, <1>2, <2>1, <2>2, <2>3
<1>4. CASE SaveRow
  <2>1. UNCHANGED <<cards, brain, errored>> /\ rows' = [rows EXCEPT ![sub.key] = sub.row]
        /\ sub'.pc = "stage" /\ sub'.replaced = sub.replaced
        /\ sub'.key = sub.key /\ sub'.row = sub.row
    BY <1>4 DEF SaveRow, Write, Base, Types, Subs, bounds, session
  <2>2. ~Rejected(sub.row)
    BY <1>4 DEF SaveRow, At, Base, Submitting, Active, Rejected
  <2>3. sub.replaced => sub.row.attempt = rows[sub.key].attempt + 1
    BY <1>4 DEF SaveRow, At, Base, Retrying
  <2>4. \A a \in brain : a.key = sub.key => a.attempt <= rows[sub.key].attempt
    BY DEF Base, WindowsKnown
  <2>5. \A a \in brain : a.key = sub.key /\ a.attempt < sub.row.attempt => Superseded(a, sub.row.end)
    BY <1>4 DEF SaveRow, At, Attempts
  <2>6. sub.replaced => \A a \in brain : ~(a.key = sub.key /\ a.attempt = sub.row.attempt)
    BY <1>1, <2>3, <2>4
  <2> QED
    BY <1>1, <1>2, <2>1, <2>2, <2>5, <2>6
<1>5. ASSUME rows[sub.key] = sub.row, NEW row \in Rows, Ends(row),
             row.end = sub.row.end, row.attempt = sub.row.attempt,
             UNCHANGED brain, errored \subseteq errored',
             \A a \in Staged(sub.key, row.attempt) : Rejected(row) /\ Taken(a) => Unclear(a)'
      PROVE  Attempts'
  <2>1. rows' = [rows EXCEPT ![sub.key] = row] /\ sub'.pc = "idle" /\ UNCHANGED cards
    BY <1>5 DEF Ends, Write, Returns, NoSub
  <2>2. \A a \in brain : a.key = sub.key =>
           /\ a.attempt < row.attempt => Superseded(a, row.end)
           /\ a.attempt = row.attempt /\ Rejected(row) /\ Taken(a) => Unclear(a)'
    BY <1>5 DEF Attempts, Staged
  <2> QED
    BY <1>2, <1>5, <2>1, <2>2
<1>6. sub.pc \in {"stage", "observe", "receipt"} =>
         rows[sub.key] = sub.row /\ ~sub.row.native /\ ~sub.row.receipt
  BY DEF Base, Submitting, Active
<1>7. CASE Suppressed
  <2> DEFINE row == [sub.row EXCEPT !.state = "suppressed"]
  <2>1. row \in Rows /\ row.state = "suppressed" /\ row.end = sub.row.end
        /\ row.attempt = sub.row.attempt /\ row.receipt = sub.row.receipt
    BY FailedRow DEF Base, States
  <2>2. Ends(row) /\ UNCHANGED <<brain, errored>>
    BY <1>7 DEF Suppressed, bounds
  <2> HIDE DEF row
  <2>3. ~Rejected(row)
    BY <1>6, <1>7, <2>1 DEF Suppressed, At, Rejected
  <2> QED
    BY <1>5, <1>6, <1>7, <2>1, <2>2, <2>3 DEF Suppressed, At
<1>8. CASE ReadReceipt
  <2>1. PICK b \in Staged(sub.key, sub.row.attempt), row \in Rows :
              /\ Ends(row) /\ (row.native <=> Taken(b))
              /\ row.end = sub.row.end /\ row.attempt = sub.row.attempt
              /\ UNCHANGED brain
    BY <1>8, ReceiptRow DEF Base
  <2>2. UNCHANGED errored
    BY <1>8 DEF ReadReceipt, bounds
  <2>3. \A a \in Staged(sub.key, row.attempt) : a = b
    BY <2>1 DEF Staged, Base, WindowsKnown
  <2> QED
    BY <1>5, <1>6, <1>8, <2>1, <2>2, <2>3 DEF ReadReceipt, At, Rejected
<1>9. CASE BrainFails
  <2> DEFINE row == [sub.row EXCEPT !.state = "failed"]
  <2>1. row \in Rows /\ row.end = sub.row.end /\ row.attempt = sub.row.attempt
    BY FailedRow DEF Base, States
  <2>2. Ends(row) /\ UNCHANGED brain /\ errored' = errored \cup {<<sub.key, sub.row.attempt>>}
    BY <1>9 DEF BrainFails
  <2> HIDE DEF row
  <2>3. \A a \in Staged(sub.key, row.attempt) : Unclear(a)'
    BY <2>1, <2>2 DEF Staged, Unclear
  <2> QED
    BY <1>5, <1>6, <1>9, <2>1, <2>2, <2>3 DEF BrainFails, At
<1>10. ~(Conflict /\ sub.replaced)
  BY DEF Conflict, At, Staged, Attempts
<1> QED
  BY <1>3, <1>4, <1>7, <1>8, <1>9, <1>10 DEF Writes

\* What is said does not change what there is to form in the windows.
LEMMA SaveAttempts ==
    ASSUME Base, Attempts, Next, Save
    PROVE  Attempts'
<1>1. UNCHANGED <<sub, rows, brain, errored>> /\ sub.pc = "idle"
  BY DEF Save, bounds
<1>2. \A k \in Keys : \A end \in Nat : end <= saved[k[1]] => Inside(cards', k, end) = Inside(cards, k, end)
  BY InsideStays
<1>3. \A a, b \in brain : a.key = b.key =>
         /\ Longer(cards, a.key, a.end, b.end) => Longer(cards', a.key, a.end, b.end)
         /\ Longer(cards, a.key, a.end, rows[a.key].end) => Longer(cards', a.key, a.end, rows[a.key].end)
  <2> SUFFICES ASSUME NEW a \in brain, NEW b \in brain, a.key = b.key
               PROVE  /\ Inside(cards', a.key, b.end) = Inside(cards, a.key, b.end)
                      /\ Inside(cards', a.key, rows[a.key].end) = Inside(cards, a.key, rows[a.key].end)
    BY DEF Longer
  <2>1. Used(a.key)
    BY DEF Base, WindowsKnown
  <2> QED
    BY <1>2, <2>1, EndsFit
<1> QED
  BY <1>1, <1>3 DEF Attempts, Superseded, Unclear

LEMMA AttemptsStep ==
    ASSUME Base, Attempts, Next
    PROVE  Attempts'
<1>1. CASE BackoffEnds \/ Exclude \/ Poll \/ Read \/ RefreshFails \/ Finish
  BY <1>1, QuietSteps, AttemptsKept DEF Quiet
<1>2. CASE JournalFails \/ Crash
  BY <1>2, AttemptsKept DEF JournalFails, Fails, Returns, Crash, NoSub, bounds
<1>3. ASSUME NEW next \in {"stay", "compact", "end"}, Begin(next), UNCHANGED <<rows, brain, errored>>
      PROVE  Attempts'
  <2>1. sub'.pc = "create" /\ UNCHANGED cards
    BY <1>3, BeginMoves DEF Base, Begin
  <2> QED
    BY <1>3, <2>1, AttemptsKept
<1>4. CASE Submit
  <2>1. CASE PassOver
    BY <1>4, <2>1, AttemptsKept DEF Submit, PassOver, bounds
  <2>2. CASE ~PassOver
    BY <1>3, <1>4, <2>2 DEF Submit, bounds
  <2> QED
    BY <2>1, <2>2
<1>5. CASE \E next \in {"compact", "end"} : Leave(next)
  <2>1. PICK next \in {"compact", "end"} : Leave(next)
    BY <1>5
  <2>2. CASE Begin(next)
    BY <1>3, <2>1, <2>2 DEF Leave, bounds
  <2>3. CASE ~Begin(next)
    BY <2>1, <2>3, AttemptsKept DEF Leave, bounds
  <2> QED
    BY <2>2, <2>3
<1>6. CASE Save
  BY <1>6, SaveAttempts
<1> QED
  BY <1>1, <1>2, <1>4, <1>5, <1>6, WriteAttempts, RefreshAttempts, PhaseAttempts, StageAttempts,
     RaiseAttempts
  DEF Next, Submission, Faulty, Reconcile, Writes

LEMMA OrderAlways == Spec => [](Base /\ InOrder /\ MarkInOrder /\ Attempts)
<1> DEFINE I == Base /\ InOrder /\ MarkInOrder /\ Attempts
<1>1. Init => I
  <2> SUFFICES ASSUME Init PROVE I
    OBVIOUS
  <2>1. /\ \A k \in Keys : rows[k] = NoRow
        /\ mark = 0 /\ crashes = 0 /\ brain = {} /\ sub.pc = "idle" /\ conv = 1
    BY DEF Init, NoSub
  <2>2. InOrder
    BY <2>1 DEF InOrder
  <2>3. MarkInOrder
    BY <2>1 DEF MarkInOrder, Passed
  <2> QED
    BY <2>1, <2>2, <2>3, BaseInit DEF Attempts
<1>2. I /\ [Next]_vars => I'
  <2>1. ASSUME I, UNCHANGED vars PROVE I'
    <3>1. UNCHANGED <<conv, saved, cards, mark, backoff, time, sub, rows, brain, changed, pending,
                      scanned, rec, index, crashes, errored>>
      BY <2>1 DEF vars, session, poll, bounds
    <3>2. Base'
      BY <2>1, <3>1 DEF Base, Types, Submitting, Retrying, RowsFit, WindowsKnown,
                        NativeIsTaken, AtTheBrain, Refreshing, Used, Active, Staged
    <3>3. InOrder' /\ MarkInOrder'
      BY <2>1, <3>1 DEF InOrder, MarkInOrder, Passed
    <3>4. Attempts'
      BY <2>1, <3>1, AttemptsKept
    <3> QED
      BY <3>2, <3>3, <3>4
  <2>2. CASE Next
    BY <2>2, BaseStep, InOrderStep, MarkInOrderStep, AttemptsStep
  <2> QED
    BY <2>1, <2>2
<1> QED
  BY <1>1, <1>2, PTL DEF Spec

\* No message reaches the Brain in two windows, but where there was more to form in the
\* same window the next time, where an attempt ended in an error which left open what the
\* Brain had done (the keys and attempts of observe_formation), or where a crash took the
\* offset back behind messages that had been passed over (submit_pending_formation).
THEOREM WindowsFormOnce == Spec => []FormedOnce
<1>1. Base /\ InOrder /\ Attempts => FormedOnce
  <2> SUFFICES ASSUME Base, InOrder, Attempts,
                      NEW a \in brain, NEW b \in brain, a # b,
                      NEW m \in 0..MaxSaved, Taken(a), Taken(b), a.key[1] = b.key[1],
                      m \in Content(a.key, a.end), m \in Content(b.key, b.end)
               PROVE  Repeated(a, b) \/ PassedOver(a, b) \/ PassedOver(b, a)
    BY DEF FormedOnce, Overlap, Covers
  <2>1. \A x \in brain : /\ x.key \in Keys /\ x.key = <<x.key[1], x.key[2]>> /\ x.key[2] \in Nat
                         /\ x.attempt \in Nat /\ x.end \in Nat
                         /\ rows[x.key].end \in Nat /\ x.end <= rows[x.key].end /\ Used(x.key)
    BY EndsFit DEF Base, WindowsKnown, Keys
  <2>2. m \in Nat /\ a.key[2] <= m /\ m < a.end /\ b.key[2] <= m /\ m < b.end
    BY <2>1, FormationAssumption DEF Content
  <2>3. ASSUME NEW x \in brain, NEW y \in brain, x.key[1] = y.key[1], x.key[2] < y.key[2],
               y.key[2] <= m, m < x.end
        PROVE  PassedOver(x, y)
    <3>1. y.key[2] < rows[x.key].end
      BY <2>1, <2>2, <2>3
    <3>2. x.key \in cards /\ crashes > 0
      BY <2>1, <2>3, <3>1 DEF InOrder, Used
    <3> QED
      BY <2>3, <3>2 DEF PassedOver
  <2>4. CASE a.key = b.key
    <3>1. SUFFICES ASSUME ~Unclear(a), ~Unclear(b),
                          Content(a.key, a.end) = Content(b.key, b.end)
                   PROVE  FALSE
      BY <2>4 DEF Repeated, Unclear
    <3>2. a.attempt # b.attempt
      BY <2>4 DEF Base, WindowsKnown
    <3>3. Longer(cards, a.key, a.end, b.end) \/ Longer(cards, b.key, b.end, a.end)
      <4>1. CASE a.attempt < b.attempt
        BY <2>4, <3>1, <4>1 DEF Attempts, Superseded
      <4>2. CASE b.attempt < a.attempt
        BY <2>4, <3>1, <4>2 DEF Attempts, Superseded
      <4> QED
        BY <2>1, <3>2, <4>1, <4>2
    <3>4. ASSUME NEW x \in brain, NEW y \in brain, x.key = y.key,
                 Content(x.key, x.end) = Content(y.key, y.end),
                 Longer(cards, x.key, x.end, y.end)
          PROVE  FALSE
      <4>1. PICK n \in Inside(cards, x.key, y.end) : x.end <= n
        BY <3>4 DEF Longer
      <4>2. n \in Content(x.key, x.end)
        BY <3>4, <4>1 DEF Content, Inside
      <4>3. n \in Int /\ n < x.end
        BY <2>1, <4>2 DEF Content
      <4> QED
        BY <2>1, <4>1, <4>3
    <3> QED
      BY <2>4, <3>1, <3>3, <3>4
  <2>5. CASE a.key # b.key
    <3>1. a.key[2] < b.key[2] \/ b.key[2] < a.key[2]
      BY <2>1, <2>5
    <3> QED
      BY <2>2, <2>3, <3>1
  <2> QED
    BY <2>4, <2>5
<1> QED
  BY <1>1, OrderAlways, PTL
=============================================================================
