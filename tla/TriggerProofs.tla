---------------------------- MODULE TriggerProofs ----------------------------
(***************************************************************************)
(* Safety of EventTriggers for any keys, streams and limits, and any       *)
(* number of edits and faults.                                             *)
(*                                                                         *)
(* The invariants are stated for the sources of what a step may write: the *)
(* position a subscription is at, the position a tick has listed, the row  *)
(* of the run in progress.  Each of them is stale when it is used, and     *)
(* what is true of the store is true of it too.                            *)
(***************************************************************************)
EXTENDS EventTriggers, FiniteSetTheorems, SequenceTheorems, WellFoundedInduction, TLAPS

-----------------------------------------------------------------------------
(***************************************************************************)
(* The inductive invariant.                                                *)
(***************************************************************************)
\* What is subscribed to, and the event in the middle of a delivery.
SubFits(g) ==
    /\ sub[g].open \/ sub[g].pc # "idle" => sub[g].key \in Keys
    /\ sub[g].pc \in {"record", "move", "schedule"} =>
          sub[g].at < StreamLength[sub[g].key]

SubsFit == \A g \in Slots : SubFits(g)

\* A tick subscribes to what it has listed, when nothing is live.
TickFits ==
    /\ sup.pc \in {"reconcile", "insert"} => sup.seen.key \in Keys
    /\ sup.pc = "insert" => live = NoLive

Base == TypeOK /\ SubsFit /\ TickFits

\* Between two positions of a stream nothing is missing.
Kept(k, from, to) ==
    \A e \in Events : e[1] = k /\ e[2] \in from + 1..to => stored[e] # "none" \/ e \in dropped

\* How far the subscription has come: its event is stored when the position is moved.
Stored(g) == IF sub[g].pc \in {"move", "schedule"} THEN sub[g].at + 1 ELSE sub[g].at

NoGap ==
    trigger.exists =>
        /\ Kept(trigger.cursor.key, trigger.cursor.from, trigger.cursor.pos)
        /\ Kept(sup.seen.cursor.key, sup.seen.cursor.from, sup.seen.cursor.pos)
        /\ \A g \in Slots : Kept(sub[g].key, sub[g].from, Stored(g))
        /\ dropped # {} => trigger.missed

\* The runs that count against the budget are the last of the history.
BudgetFits ==
    /\ attempts <= MaxFailures /\ attempts <= Len(runs)
    /\ \A i \in Len(runs) - attempts + 1..Len(runs) : runs[i] # "ok"
    /\ run.pc = "agent" /\ run.row => runs # <<>> /\ runs[Len(runs)] = "open"

\* The schedule knows the run in progress, and keeps pending_since until it settles.
RunFits ==
    trigger.exists =>
        /\ sched.running <=> run.pc # "none"
        /\ run.pc \in {"slot", "none_waits", "agent", "consume"} => sched.since

\* Somebody has yet to see the event.
Seen(e) ==
    \/ sched.since \/ sup.pc = "boot" \/ run.pc \in {"rest", "pausing"}
    \/ \E g \in Slots : sub[g].pc \in {"move", "schedule"} /\ EventOf(g) = e

NoneUnseen ==
    trigger.exists /\ trigger.enabled => \A e \in Waiting \ overlooked : Seen(e)

-----------------------------------------------------------------------------
(***************************************************************************)
(* Positions, events and runs.                                             *)
(***************************************************************************)
\* A finite set of numbers has a largest.
LEMMA LargestExists ==
    ASSUME NEW S, S \subseteq Nat, S # {}, IsFiniteSet(S)
    PROVE  \E x \in S : \A y \in S : x >= y
<1>. DEFINE Topped(U) == \E x \in U : \A y \in U : x >= y
            Bad == {U \in SUBSET S : U # {} /\ ~Topped(U)}
            Sizes == {Cardinality(U) : U \in Bad}
            R == {ss \in Nat \X Nat : ss[1] < ss[2]}
<1>1. \A U \in SUBSET S : IsFiniteSet(U) /\ Cardinality(U) \in Nat
  BY FS_Subset, FS_CardinalityType
<1>2. SUFFICES ASSUME Bad # {} PROVE FALSE
  <2>1. S \in SUBSET S /\ S \notin Bad
    BY <1>2
  <2>. QED
    BY <2>1
<1>3. Sizes \subseteq Nat /\ Sizes # {}
  BY <1>1, <1>2
<1>4. IsWellFoundedOn(R, Nat)
  BY NatLessThanWellFounded, Zenon DEF OpToRel
<1>5. \E n \in Sizes : \A m \in Sizes : <<m, n>> \notin R
  <2>. HIDE DEF R, Sizes
  <2>. QED
    BY <1>3, <1>4, WFMin
<1>6. PICK n \in Sizes : \A m \in Sizes : ~(m < n)
  BY <1>3, <1>5
<1>7. PICK U \in Bad : Cardinality(U) = n
  BY <1>6
<1>8. PICK x \in U : TRUE
  BY <1>7
<1>. DEFINE V == U \ {x}
<1>9. V \in SUBSET S /\ Cardinality(V) = n - 1 /\ n \in Nat /\ Cardinality(V) \in Nat
  BY <1>1, <1>3, <1>6, <1>7, <1>8, FS_RemoveElement
<1>10. V \notin Bad
  <2>. SUFFICES ASSUME V \in Bad PROVE FALSE
    OBVIOUS
  <2>1. Cardinality(V) \in Sizes
    OBVIOUS
  <2>. QED
    BY <2>1, <1>6, <1>9
<1>11. U \subseteq Nat /\ x \in Nat /\ ~Topped(U)
  BY <1>7, <1>8
<1>12. CASE V = {}
  <2>1. U = {x}
    BY <1>8, <1>12
  <2>. QED
    BY <1>11, <2>1
<1>13. CASE V # {}
  <2>1. PICK m \in V : \A y \in V : m >= y
    BY <1>9, <1>10, <1>13
  <2>2. \A y \in U : y \in V \/ y = x
    OBVIOUS
  <2>3. CASE m >= x
    BY <1>11, <2>1, <2>2, <2>3
  <2>4. CASE x >= m
    <3>1. \A y \in U : x >= y
      BY <1>11, <2>1, <2>2, <2>4
    <3>. QED
      BY <1>8, <1>11, <3>1
  <2>. QED
    BY <1>11, <2>1, <2>3, <2>4
<1>. QED
  BY <1>12, <1>13

\* A position counts the events before it.
LEMMA PositionsAre ==
    /\ Positions \subseteq Nat /\ 0 \in Positions /\ IsFiniteSet(Positions)
    /\ \A k \in Keys : StreamLength[k] \in Nat \ {0} /\ 0..StreamLength[k] \subseteq Positions
<1>. DEFINE Lengths == {StreamLength[k] : k \in Keys}
<1>1. Lengths \subseteq Nat /\ Lengths # {}
  BY TriggerAssumption
<1>2. IsFiniteSet(Lengths)
  <2>1. IsFiniteSet(Keys) /\ StreamLength \in Surjection(Keys, Lengths)
    BY TriggerAssumption DEF Surjection
  <2>. QED
    BY <2>1, FS_Surjection
<1>3. \E x \in Lengths : \A y \in Lengths : x >= y
  <2>. HIDE DEF Lengths
  <2>. QED
    BY <1>1, <1>2, LargestExists
<1>4. Max(Lengths) \in Lengths /\ \A y \in Lengths : Max(Lengths) >= y
  <2>. HIDE DEF Lengths
  <2>. QED
    BY <1>3 DEF Max
<1>5. Positions = 0..Max(Lengths)
  BY DEF Positions
<1>6. \A k \in Keys : StreamLength[k] \in Nat \ {0} /\ StreamLength[k] \in Lengths
  BY TriggerAssumption
<1>. HIDE DEF Lengths
<1>7. Max(Lengths) \in Nat
  BY <1>1, <1>4
<1>8. IsFiniteSet(Positions)
  BY <1>5, <1>7, FS_Interval
<1>. QED
  BY <1>4, <1>5, <1>6, <1>7, <1>8

LEMMA EventsAre ==
    /\ \A e \in Events : e[1] \in Keys /\ e[2] \in Nat \ {0}
    /\ \A k \in Keys : \A i \in 1..StreamLength[k] : <<k, i>> \in Events
<1>1. \A e \in Events : e \in Keys \X Positions /\ e[2] \in 1..StreamLength[e[1]]
  BY DEF Events
<1>2. \A e \in Events : e[1] \in Keys /\ e[2] \in Nat \ {0}
  BY <1>1, PositionsAre
<1>3. ASSUME NEW k \in Keys, NEW i \in 1..StreamLength[k] PROVE <<k, i>> \in Events
  <2>1. <<k, i>> \in Keys \X Positions
    BY PositionsAre
  <2>. QED
    BY <2>1 DEF Events
<1>. QED
  BY <1>2, <1>3

LEMMA WaitingAre == Waiting \subseteq Events
BY DEF Waiting

\* The event in the middle of a delivery.
LEMMA EventInHand ==
    ASSUME TypeOK, SubsFit, NEW g \in Slots, sub[g].pc \in {"record", "move", "schedule"}
    PROVE  /\ EventOf(g) \in Events
           /\ sub[g].key \in Keys /\ sub[g].at \in Nat /\ sub[g].at + 1 \in Positions
<1>1. sub[g].key \in Keys /\ sub[g].at < StreamLength[sub[g].key] /\ sub[g].at \in Nat
  BY PositionsAre DEF SubsFit, SubFits, TypeOK
<1>2. sub[g].at + 1 \in 1..StreamLength[sub[g].key]
  BY <1>1, PositionsAre
<1>. QED
  BY <1>1, <1>2, PositionsAre, EventsAre DEF EventOf

RunStates == {"open", "failed", "ok"}

\* The failures counted are the runs behind the last success.
LEMMA FailuresAre ==
    ASSUME TypeOK
    PROVE  /\ FailuresSince \in Nat
           /\ \A n \in 0..Len(runs) :
                 (\A i \in Len(runs) - n + 1..Len(runs) : runs[i] # "ok") => n <= FailuresSince
<1>. DEFINE good == {i \in 1..Len(runs) : runs[i] = "ok"}
<1>1. Len(runs) \in Nat
  BY DEF TypeOK
<1>2. CASE good = {}
  <2>1. FailuresSince = Len(runs) - 0
    BY <1>2 DEF FailuresSince
  <2>. QED
    BY <1>1, <2>1
<1>3. CASE good # {}
  <2>1. good \subseteq Nat /\ IsFiniteSet(good)
    <3>1. good \subseteq 1..Len(runs) /\ good \subseteq Nat
      OBVIOUS
    <3>. HIDE DEF good
    <3>2. \A i \in good : i <= Len(runs)
      BY <1>1, <3>1
    <3>. QED
      BY <1>1, <3>1, <3>2, FS_BoundedSetOfNaturals
  <2>2. \E i \in good : \A j \in good : i >= j
    <3>. HIDE DEF good
    <3>. QED
      BY <1>3, <2>1, LargestExists
  <2>3. \E i \in good : \A j \in good : j <= i
    BY <2>1, <2>2
  <2>. DEFINE g == CHOOSE i \in good : \A j \in good : j <= i
  <2>4. g \in good
    <3>. HIDE DEF good
    <3>. QED
      BY <2>3
  <2>5. FailuresSince = Len(runs) - g
    BY <1>3 DEF FailuresSince
  <2>6. g \in 1..Len(runs) /\ runs[g] = "ok"
    BY <2>4
  <2>. HIDE DEF g
  <2>7. ASSUME NEW n \in 0..Len(runs), \A i \in Len(runs) - n + 1..Len(runs) : runs[i] # "ok"
        PROVE  n <= FailuresSince
    <3>1. ~(g >= Len(runs) - n + 1)
      BY <1>1, <2>6, <2>7
    <3>. QED
      BY <1>1, <2>5, <2>6, <3>1
  <2>. QED
    BY <1>1, <2>5, <2>6, <2>7
<1>. QED
  BY <1>2, <1>3

\* A new run is the last of the history; pruning drops the first at most.
LEMMA WithRunIs ==
    ASSUME NEW rs \in Seq(RunStates), Len(rs) <= KeepRuns
    PROVE  LET drop == IF Len(rs) = KeepRuns THEN 1 ELSE 0
           IN  /\ WithRun(rs) \in Seq(RunStates)
               /\ Len(WithRun(rs)) = Len(rs) + 1 - drop
               /\ Len(WithRun(rs)) <= KeepRuns /\ Len(WithRun(rs)) \in Nat \ {0}
               /\ WithRun(rs)[Len(WithRun(rs))] = "open"
               /\ \A i \in 1..Len(rs) - drop : WithRun(rs)[i] = rs[i + drop]
<1>. DEFINE all == Append(rs, "open")
            first == IF Len(all) > KeepRuns THEN 2 ELSE 1
<1>1. /\ Len(rs) \in Nat /\ KeepRuns \in Nat \ {0}
      /\ all \in Seq(RunStates) /\ Len(all) = Len(rs) + 1
      /\ all[Len(all)] = "open" /\ \A i \in 1..Len(rs) : all[i] = rs[i]
  BY TriggerAssumption DEF RunStates
<1>2. WithRun(rs) = SubSeq(all, first, Len(all))
  BY DEF WithRun
<1>. HIDE DEF all
<1>3. first \in 1..Len(all) /\ first = IF Len(rs) = KeepRuns THEN 2 ELSE 1
  BY <1>1
<1>. HIDE DEF first
<1>4. /\ WithRun(rs) \in Seq(RunStates)
      /\ Len(WithRun(rs)) = Len(all) - first + 1
      /\ \A i \in 1..Len(all) - first + 1 : WithRun(rs)[i] = all[first + i - 1]
  BY <1>1, <1>2, <1>3
<1>5. first + Len(WithRun(rs)) - 1 = Len(all)
  BY <1>1, <1>3, <1>4
<1>6. WithRun(rs)[Len(WithRun(rs))] = all[Len(all)]
  BY <1>1, <1>3, <1>4, <1>5
<1>7. ASSUME NEW i \in 1..Len(rs) - (IF Len(rs) = KeepRuns THEN 1 ELSE 0)
      PROVE  WithRun(rs)[i] = rs[i + (IF Len(rs) = KeepRuns THEN 1 ELSE 0)]
  <2>1. i \in 1..Len(all) - first + 1 /\ first + i - 1 = i + (IF Len(rs) = KeepRuns THEN 1 ELSE 0)
        /\ first + i - 1 \in 1..Len(rs)
    BY <1>1, <1>3
  <2>. QED
    BY <1>1, <1>4, <2>1
<1>8. /\ Len(WithRun(rs)) = Len(rs) + 1 - (IF Len(rs) = KeepRuns THEN 1 ELSE 0)
      /\ Len(WithRun(rs)) <= KeepRuns /\ Len(WithRun(rs)) \in Nat \ {0}
  BY <1>1, <1>3, <1>4
<1>. QED
  BY <1>1, <1>4, <1>6, <1>7, <1>8

-----------------------------------------------------------------------------
(***************************************************************************)
(* The types.                                                              *)
(***************************************************************************)
SubStates == [key : Keys \cup {0}, at : Positions, from : Positions, open : BOOLEAN,
              pc : SinkSteps]

RowStates == {"none", "pending", "handled", "pruned"}

StoreTypes ==
    /\ trigger \in Triggers
    /\ stored \in [Events -> RowStates]
    /\ runs \in Seq(RunStates) /\ Len(runs) <= KeepRuns

RunTypes == run \in [pc : RunSteps, prev : Nat, batch : SUBSET Events, row : BOOLEAN]

HistTypes ==
    /\ edits \in 0..MaxEdits /\ faults \in 0..MaxFaults
    /\ dropped \subseteq Events /\ attempts \in Nat /\ overlooked \subseteq Events

LiveTypes ==
    /\ sub \in [Slots -> SubStates]
    /\ front \in [Keys -> Positions]
    /\ live \in [slot : Slots \cup {0}, key : Keys \cup {0}]
    /\ sched \in [since : BOOLEAN, running : BOOLEAN]
    /\ sup \in [pc : SupSteps, seen : Seens, slot : Slots \cup {0}]
    /\ owner \in OwnerSteps

LEMMA TypesAre == TypeOK <=> StoreTypes /\ RunTypes /\ HistTypes /\ LiveTypes
BY DEF TypeOK, StoreTypes, RunTypes, HistTypes, LiveTypes, SubStates, RunStates, RowStates

LEMMA TypesNext ==
    ASSUME StoreTypes', RunTypes', HistTypes', LiveTypes' PROVE TypeOK'
BY DEF TypeOK, StoreTypes, RunTypes, HistTypes, LiveTypes, SubStates, RunStates, RowStates

LEMMA FreeType == Free \in SubStates
BY PositionsAre DEF Free, SubStates, SinkSteps

LEMMA NoCursorType == NoCursor \in Cursors /\ 0 \in Positions
BY PositionsAre DEF NoCursor, Cursors

LEMMA AsleepType ==
    /\ Asleep \in [pc : SupSteps, seen : Seens, slot : Slots \cup {0}]
    /\ [Asleep EXCEPT !.pc = "boot"] \in [pc : SupSteps, seen : Seens, slot : Slots \cup {0}]
    /\ Asleep.pc = "idle" /\ Asleep.seen.cursor = NoCursor
    /\ [Asleep EXCEPT !.pc = "boot"].pc = "boot"
    /\ [Asleep EXCEPT !.pc = "boot"].seen.cursor = NoCursor
BY NoCursorType DEF Asleep, SupSteps, Seens

LEMMA NoRunType == NoRun \in [pc : RunSteps, prev : Nat, batch : SUBSET Events, row : BOOLEAN]
BY DEF NoRun, RunSteps

LEMMA NoLiveType == NoLive \in [slot : Slots \cup {0}, key : Keys \cup {0}]
BY DEF NoLive

\* A delivery that is over leaves the subscription where it is, or nothing of it.
LEMMA SettledIs ==
    ASSUME LiveTypes, NEW g \in Slots, NEW at \in Positions
    PROVE  /\ Settled(g, at) \in [Slots -> SubStates]
           /\ \A h \in Slots \ {g} : Settled(g, at)[h] = sub[h]
           /\ Settled(g, at)[g] = IF sub[g].open THEN [sub[g] EXCEPT !.pc = "idle", !.at = at] ELSE Free
<1>1. sub[g] \in SubStates
  BY DEF LiveTypes
<1>2. [sub[g] EXCEPT !.pc = "idle", !.at = at] \in SubStates
  BY <1>1 DEF SubStates, SinkSteps
<1>3. Settled(g, at) = [sub EXCEPT ![g] = IF sub[g].open THEN [sub[g] EXCEPT !.pc = "idle", !.at = at]
                                         ELSE Free]
  BY DEF Settled, LiveTypes
<1>. QED
  BY <1>1, <1>2, <1>3, FreeType DEF LiveTypes

\* What was cancelled is not open, and finishes what it is at.
LEMMA CancelledIs ==
    ASSUME LiveTypes
    PROVE  /\ Cancelled \in [Slots -> SubStates]
           /\ \A g \in Slots :
                 /\ Cancelled[g].pc = sub[g].pc
                 /\ Cancelled[g].open => sub[g].open /\ g # live.slot
                 /\ \/ Cancelled[g] = Free
                    \/ /\ Cancelled[g].key = sub[g].key /\ Cancelled[g].at = sub[g].at
                       /\ Cancelled[g].from = sub[g].from
                 /\ Cancelled[g].pc # "idle" =>
                       /\ Cancelled[g].key = sub[g].key /\ Cancelled[g].at = sub[g].at
                       /\ Cancelled[g].from = sub[g].from
<1>1. ASSUME NEW g \in Slots
      PROVE  /\ Cancelled[g] \in SubStates
             /\ Cancelled[g].pc = sub[g].pc
             /\ Cancelled[g].open => sub[g].open /\ g # live.slot
             /\ \/ Cancelled[g] = Free
                \/ /\ Cancelled[g].key = sub[g].key /\ Cancelled[g].at = sub[g].at
                   /\ Cancelled[g].from = sub[g].from
             /\ Cancelled[g].pc # "idle" =>
                   /\ Cancelled[g].key = sub[g].key /\ Cancelled[g].at = sub[g].at
                   /\ Cancelled[g].from = sub[g].from
  <2>1. sub[g] \in SubStates
    BY DEF LiveTypes
  <2>2. Cancelled[g] = IF g # live.slot THEN sub[g]
                       ELSE IF sub[g].pc = "idle" THEN Free ELSE [sub[g] EXCEPT !.open = FALSE]
    BY DEF Cancelled
  <2>3. Free.pc = "idle" /\ ~Free.open
    BY DEF Free
  <2>4. [sub[g] EXCEPT !.open = FALSE] \in SubStates
    BY <2>1 DEF SubStates
  <2>5. CASE g # live.slot
    BY <2>1, <2>2, <2>5
  <2>6. CASE g = live.slot /\ sub[g].pc = "idle"
    BY <2>2, <2>3, <2>6, FreeType
  <2>7. CASE g = live.slot /\ sub[g].pc # "idle"
    BY <2>1, <2>2, <2>4, <2>7 DEF SubStates
  <2>. QED
    BY <2>5, <2>6, <2>7
<1>2. Cancelled = [g \in Slots |-> Cancelled[g]]
  BY DEF Cancelled
<1>. QED
  BY <1>1, <1>2

\* Nothing has to go, or as much as leaves what is to stay.
LEMMA ExcessIs ==
    ASSUME NEW es, NEW keep, NEW gone \in Excess(es, keep)
    PROVE  gone \subseteq es /\ (gone # {} => Cardinality(es \ gone) = keep)
BY DEF Excess

\* A row is added where there is none.
LEMMA AddedIs ==
    ASSUME StoreTypes, NEW e \in Events
    PROVE  /\ Added(e) \in [Events -> RowStates]
           /\ \A x \in Events : Added(e)[x] = IF x = e /\ ~HasRow(e) THEN "pending" ELSE stored[x]
BY DEF Added, StoreTypes, RowStates

\* The overflow waits.
LEMMA OverflowIs ==
    ASSUME NEW e, NEW gone \in Overflowing(e)
    PROVE  \A x \in gone : x \in Events /\ Added(e)[x] = "pending"
<1>1. CASE HasRow(e)
  BY <1>1 DEF Overflowing
<1>2. CASE ~HasRow(e)
  <2>1. gone \in Excess({x \in Events : Added(e)[x] = "pending"}, QueueLimit)
    BY <1>2 DEF Overflowing
  <2>. QED
    BY <2>1, ExcessIs
<1>. QED
  BY <1>1, <1>2

LEMMA DropIs ==
    ASSUME StoreTypes, RunTypes, HistTypes, NEW e \in Events, NEW gone \in SUBSET Events, Drop(e, gone)
    PROVE  /\ stored' \in [Events -> RowStates] /\ dropped' \subseteq Events /\ RunTypes'
           /\ dropped' = dropped \cup gone
           /\ run'.pc = run.pc /\ run'.row = run.row
           /\ \A x \in Events : stored'[x] = IF x \in gone THEN "none" ELSE Added(e)[x]
<1>. DEFINE added == Added(e)
<1>1. added \in [Events -> RowStates]
  BY AddedIs
<1>2. stored' = [x \in Events |-> IF x \in gone THEN "none" ELSE added[x]]
  BY DEF Drop
<1>3. dropped' = dropped \cup gone /\ run' = [run EXCEPT !.batch = @ \ gone]
  BY DEF Drop
<1>4. RunTypes' /\ run'.pc = run.pc /\ run'.row = run.row
  BY <1>3 DEF RunTypes
<1>. HIDE DEF added
<1>5. stored' \in [Events -> RowStates]
  BY <1>1, <1>2 DEF RowStates
<1>6. \A x \in Events : stored'[x] = IF x \in gone THEN "none" ELSE added[x]
  BY <1>2
<1>. QED
  BY <1>3, <1>4, <1>5, <1>6 DEF added, HistTypes

LEMMA EventsFinite == IsFiniteSet(Events)
<1>1. IsFiniteSet(Positions)
  BY PositionsAre
<1>2. IsFiniteSet(Keys \X Positions)
  BY <1>1, TriggerAssumption, FS_Product
<1>3. Events \subseteq Keys \X Positions
  BY DEF Events
<1>. QED
  BY <1>2, <1>3, FS_Subset

\* A delivery drops what waits, and what it drops is told.
LEMMA RecordDrops ==
    ASSUME NEW g \in Slots, Record(g) \/ RecordFails(g)
    PROVE  \E gone \in SUBSET Events, told \in BOOLEAN :
              /\ Drop(EventOf(g), gone)
              /\ \A x \in gone : Added(EventOf(g))[x] = "pending"
              /\ gone # {} => told
              /\ trigger' = [trigger EXCEPT !.missed = @ \/ (trigger.exists /\ told)]
<1>1. CASE Record(g)
  <2>1. PICK gone \in Overflowing(EventOf(g)) :
           /\ Drop(EventOf(g), gone)
           /\ trigger' = [trigger EXCEPT !.missed = @ \/ (trigger.exists /\ gone # {})]
    BY <1>1 DEF Record
  <2>2. gone \in SUBSET Events /\ \A x \in gone : Added(EventOf(g))[x] = "pending"
    BY OverflowIs
  <2>3. (gone # {}) \in BOOLEAN
    OBVIOUS
  <2>. QED
    BY <2>1, <2>2, <2>3
<1>2. CASE RecordFails(g)
  <2>1. PICK all \in Overflowing(EventOf(g)) : \E gone \in SUBSET all :
           /\ Drop(EventOf(g), gone)
           /\ \E told \in {gone # {}, all # {}} :
                 trigger' = [trigger EXCEPT !.missed = @ \/ (trigger.exists /\ told)]
    BY <1>2 DEF RecordFails
  <2>2. PICK gone \in SUBSET all :
           /\ Drop(EventOf(g), gone)
           /\ \E told \in {gone # {}, all # {}} :
                 trigger' = [trigger EXCEPT !.missed = @ \/ (trigger.exists /\ told)]
    BY <2>1
  <2>3. PICK told \in {gone # {}, all # {}} :
           trigger' = [trigger EXCEPT !.missed = @ \/ (trigger.exists /\ told)]
    BY <2>2
  <2>4. gone \in SUBSET Events /\ \A x \in gone : Added(EventOf(g))[x] = "pending"
    BY OverflowIs
  <2>5. told \in BOOLEAN /\ (gone # {} => told)
    OBVIOUS
  <2>. QED
    BY <2>2, <2>3, <2>4, <2>5
<1>. QED
  BY <1>1, <1>2

\* Only handled rows are pruned, and as many stay as are to be kept.
LEMMA PrunedIs ==
    ASSUME NEW rows \in [Events -> RowStates], NEW gone \in PrunedPartly(rows) \cup {{}}
    PROVE  /\ Pruned(rows, gone) \in [Events -> RowStates]
           /\ \A x \in Events :
                 /\ x \in gone => rows[x] = "handled"
                 /\ Pruned(rows, gone)[x] = IF x \in gone THEN "pruned" ELSE rows[x]
           /\ gone # {} => Cardinality({x \in Events : Pruned(rows, gone)[x] = "handled"}) >= KeepHandled
<1>. DEFINE handled == {x \in Events : rows[x] = "handled"}
            left == {x \in Events : Pruned(rows, gone)[x] = "handled"}
<1>1. gone # {} => \E all \in Excess(handled, KeepHandled) : gone \subseteq all
  BY DEF PrunedPartly, Prunable
<1>2. gone # {} => \E all \in SUBSET handled :
                     gone \subseteq all /\ Cardinality(handled \ all) = KeepHandled
  <2>. HIDE DEF handled
  <2>. QED
    BY <1>1, ExcessIs
<1>3. \A x \in Events : Pruned(rows, gone)[x] = IF x \in gone THEN "pruned" ELSE rows[x]
  BY DEF Pruned
<1>4. Pruned(rows, gone) \in [Events -> RowStates]
  BY DEF Pruned, RowStates
<1>5. gone # {} => Cardinality(left) >= KeepHandled
  <2>. SUFFICES ASSUME gone # {} PROVE Cardinality(left) >= KeepHandled
    OBVIOUS
  <2>0. PICK all \in SUBSET handled : gone \subseteq all /\ Cardinality(handled \ all) = KeepHandled
    BY <1>2
  <2>1. left = handled \ gone
    BY <1>3
  <2>2. IsFiniteSet(left)
    <3>1. left \subseteq Events
      OBVIOUS
    <3>. QED
      BY <3>1, EventsFinite, FS_Subset
  <2>. HIDE DEF handled, left
  <2>3. handled \ all \subseteq left
    BY <2>0, <2>1
  <2>4. Cardinality(handled \ all) <= Cardinality(left) /\ Cardinality(left) \in Nat
    BY <2>2, <2>3, FS_Subset, FS_CardinalityType
  <2>. QED
    BY <2>0, <2>4
<1>6. \A x \in Events : x \in gone => rows[x] = "handled"
  BY <1>2
<1>. QED
  BY <1>3, <1>4, <1>5, <1>6

LEMMA ConsumedIs ==
    ASSUME StoreTypes, NEW part
    PROVE  /\ Consumed(part) \in [Events -> RowStates]
           /\ \A x \in Events : Consumed(part)[x] = IF x \in part THEN "handled" ELSE stored[x]
BY DEF Consumed, StoreTypes, RowStates

LEMMA PrunedWhole == \A rows : Prunable(rows) \subseteq PrunedPartly(rows)
BY DEF PrunedPartly

\* A run writes rows when it ends: some are handled then, and some pruned.
RowsWritten ==
    \E part \in SUBSET Events : \E gone \in PrunedPartly(Consumed(part)) \cup {{}} :
       stored' = Pruned(Consumed(part), gone)

LEMMA RunWrites ==
    ASSUME StoreTypes, RunTypes, AgentFails \/ Consume \/ ConsumeFails
    PROVE  RowsWritten
<1>1. CASE AgentFails
  <2>1. Consumed({}) = stored
    BY DEF Consumed, StoreTypes
  <2>2. PICK gone \in PrunedPartly(stored) : stored' = Pruned(stored, gone)
    BY <1>1 DEF AgentFails
  <2>3. gone \in PrunedPartly(Consumed({})) /\ stored' = Pruned(Consumed({}), gone)
    BY <2>1, <2>2
  <2>. QED
    BY <2>3 DEF RowsWritten
<1>2. CASE Consume
  <2>1. run.batch \in SUBSET Events
    BY DEF RunTypes
  <2>. QED
    BY <1>2, <2>1, PrunedWhole DEF Consume, RowsWritten
<1>3. CASE ConsumeFails
  <2>1. PICK part \in SUBSET run.batch :
           \E gone \in IF part = run.batch THEN PrunedPartly(Consumed(part)) ELSE {{}} :
              stored' = Pruned(Consumed(part), gone)
    BY <1>3 DEF ConsumeFails
  <2>2. part \in SUBSET Events
    BY DEF RunTypes
  <2>3. PICK gone \in PrunedPartly(Consumed(part)) \cup {{}} : stored' = Pruned(Consumed(part), gone)
    BY <2>1
  <2>. QED
    BY <2>2, <2>3 DEF RowsWritten
<1>. QED
  BY <1>1, <1>2, <1>3

LEMMA RowsWrittenType ==
    ASSUME StoreTypes, RowsWritten PROVE stored' \in [Events -> RowStates]
<1>1. PICK part \in SUBSET Events : \E gone \in PrunedPartly(Consumed(part)) \cup {{}} :
         stored' = Pruned(Consumed(part), gone)
  BY DEF RowsWritten
<1>2. PICK gone \in PrunedPartly(Consumed(part)) \cup {{}} : stored' = Pruned(Consumed(part), gone)
  BY <1>1
<1>. DEFINE rows == Consumed(part)
<1>3. rows \in [Events -> RowStates]
  BY ConsumedIs
<1>. HIDE DEF rows
<1>4. gone \in PrunedPartly(rows) \cup {{}} /\ stored' = Pruned(rows, gone)
  BY <1>2 DEF rows
<1>5. Pruned(rows, gone) \in [Events -> RowStates]
  BY <1>3, <1>4, PrunedIs
<1>. QED
  BY <1>4, <1>5

LEMMA SinkTypes == ASSUME TypeOK, SubsFit, NEW g \in Slots, Sink(g) PROVE TypeOK'
<1>0. StoreTypes /\ RunTypes /\ HistTypes /\ LiveTypes /\ sub[g] \in SubStates
  BY TypesAre DEF LiveTypes
<1>1. CASE Deliver(g)
  <2>1. sub[g].key \in Keys /\ sub[g].at \in Nat /\ sub[g].at + 1 \in Positions
    <3>1. sub[g].key \in Keys /\ sub[g].at < StreamLength[sub[g].key] /\ sub[g].at \in Nat
      BY <1>0, <1>1, PositionsAre DEF Deliver, SubsFit, SubFits, SubStates
    <3>2. sub[g].at + 1 \in 0..StreamLength[sub[g].key]
      BY <3>1, PositionsAre
    <3>. QED
      BY <3>1, <3>2, PositionsAre
  <2>2. front' \in [Keys -> Positions]
    BY <1>0, <1>1, <2>1 DEF Deliver, LiveTypes
  <2>3. sub' \in [Slots -> SubStates]
    BY <1>0, <1>1, <2>1 DEF Deliver, LiveTypes, SubStates, SinkSteps
  <2>. QED
    BY <1>0, <1>1, <2>2, <2>3, TypesNext
       DEF Deliver, StoreTypes, RunTypes, HistTypes, LiveTypes, storeVars, boundVars, histVars
<1>2. CASE Record(g)
  <2>1. PICK gone \in Overflowing(EventOf(g)) :
           /\ Drop(EventOf(g), gone)
           /\ trigger' = [trigger EXCEPT !.missed = @ \/ (trigger.exists /\ gone # {})]
    BY <1>2 DEF Record
  <2>2. EventOf(g) \in Events /\ gone \in SUBSET Events
    BY <1>0, <1>2, EventInHand, OverflowIs DEF Record
  <2>3. stored' \in [Events -> RowStates] /\ dropped' \subseteq Events /\ RunTypes'
    BY <1>0, <2>1, <2>2, DropIs
  <2>4. trigger' \in Triggers
    BY <1>0, <2>1 DEF StoreTypes, Triggers
  <2>5. sub' \in [Slots -> SubStates]
    BY <1>0, <1>2 DEF Record, LiveTypes, SubStates, SinkSteps
  <2>. QED
    BY <1>0, <1>2, <2>3, <2>4, <2>5, TypesNext
       DEF Record, StoreTypes, HistTypes, LiveTypes, boundVars
<1>3. CASE Move(g)
  <2>1. Reached(g) \in Cursors /\ sub[g].at + 1 \in Positions
    BY <1>0, <1>3, EventInHand DEF Move, Reached, Cursors, SubStates
  <2>2. trigger' \in Triggers
    BY <1>0, <1>3, <2>1 DEF Move, StoreTypes, Triggers
  <2>3. sub' \in [Slots -> SubStates]
    <3>1. CASE trigger.exists
      BY <1>0, <1>3, <3>1 DEF Move, LiveTypes, SubStates, SinkSteps
    <3>2. CASE ~trigger.exists
      BY <1>0, <1>3, <2>1, <3>2, SettledIs DEF Move
    <3>. QED
      BY <3>1, <3>2
  <2>. QED
    BY <1>0, <1>3, <2>2, <2>3, TypesNext
       DEF Move, StoreTypes, RunTypes, HistTypes, LiveTypes, boundVars, histVars
<1>4. CASE Schedule(g)
  <2>1. sub' \in [Slots -> SubStates]
    BY <1>0, <1>4, EventInHand, SettledIs DEF Schedule
  <2>2. sched' \in [since : BOOLEAN, running : BOOLEAN]
    BY <1>0, <1>4 DEF Schedule, LiveTypes
  <2>. QED
    BY <1>0, <1>4, <2>1, <2>2, TypesNext
       DEF Schedule, StoreTypes, RunTypes, HistTypes, LiveTypes, boundVars, storeVars
<1>5. CASE DeliveryFails(g)
  <2>1. sub' \in [Slots -> SubStates]
    BY <1>0, <1>5, SettledIs DEF DeliveryFails, SubStates
  <2>2. EventOf(g) \in Events /\ faults' \in 0..MaxFaults
    BY <1>0, <1>5, EventInHand, TriggerAssumption DEF DeliveryFails, Fault, HistTypes
  <2>. QED
    BY <1>0, <1>5, <2>1, <2>2, TypesNext
       DEF DeliveryFails, StoreTypes, RunTypes, HistTypes, LiveTypes, storeVars
<1>8. CASE RecordFails(g)
  <2>0. EventOf(g) \in Events
    BY <1>0, <1>8, EventInHand DEF RecordFails
  <2>1. PICK gone \in SUBSET Events, told \in BOOLEAN :
           /\ Drop(EventOf(g), gone)
           /\ trigger' = [trigger EXCEPT !.missed = @ \/ (trigger.exists /\ told)]
    BY <1>8, RecordDrops
  <2>2. EventOf(g) \in Events /\ gone \in SUBSET Events
    BY <2>0
  <2>3. stored' \in [Events -> RowStates] /\ dropped' \subseteq Events /\ RunTypes'
    BY <1>0, <2>1, <2>2, DropIs
  <2>4. trigger' \in Triggers
    BY <1>0, <2>1 DEF StoreTypes, Triggers
  <2>5. sub' \in [Slots -> SubStates]
    BY <1>0, <1>8, SettledIs DEF RecordFails, SubStates
  <2>6. faults' \in 0..MaxFaults
    BY <1>0, <1>8, TriggerAssumption DEF RecordFails, Fault, HistTypes
  <2>. QED
    BY <1>0, <1>8, <2>2, <2>3, <2>4, <2>5, <2>6, TypesNext
       DEF RecordFails, StoreTypes, HistTypes, LiveTypes
<1>6. CASE Terminate(g)
  <2>1. sub' \in [Slots -> SubStates]
    BY <1>0, <1>6, FreeType DEF Terminate, LiveTypes, SubStates, SinkSteps
  <2>2. faults' \in 0..MaxFaults
    BY <1>0, <1>6, TriggerAssumption DEF Terminate, Fault, HistTypes
  <2>. QED
    BY <1>0, <1>6, <2>1, <2>2, TypesNext
       DEF Terminate, StoreTypes, RunTypes, HistTypes, LiveTypes, storeVars, histVars
<1>7. CASE SaveEnd(g)
  <2>1. sub' \in [Slots -> SubStates] /\ trigger' \in Triggers
    BY <1>0, <1>7, FreeType DEF SaveEnd, LiveTypes, StoreTypes, Triggers
  <2>. QED
    BY <1>0, <1>7, <2>1, TypesNext
       DEF SaveEnd, StoreTypes, RunTypes, HistTypes, LiveTypes, boundVars, histVars
<1>. QED
  BY <1>1, <1>2, <1>3, <1>4, <1>5, <1>6, <1>7, <1>8 DEF Sink

\* A trigger keeps its type when any of its fields is written.
LEMMA TriggerParts ==
    ASSUME StoreTypes
    PROVE  /\ trigger.key \in Keys /\ trigger.cursor \in Cursors /\ SeenOf(trigger) \in Seens
           /\ \A ended, enabled \in BOOLEAN, cursor \in Cursors, k \in Keys :
                 /\ [trigger EXCEPT !.ended = ended] \in Triggers
                 /\ [trigger EXCEPT !.enabled = enabled, !.ended = ended] \in Triggers
                 /\ [trigger EXCEPT !.key = k, !.cursor = cursor, !.ended = ended] \in Triggers
                 /\ [trigger EXCEPT !.exists = FALSE, !.enabled = FALSE, !.ended = FALSE,
                                    !.cursor = cursor] \in Triggers
BY DEF StoreTypes, Triggers, SeenOf, Seens

LEMMA SetStateType == ASSUME StoreTypes, NEW b \in BOOLEAN, SetState(b) PROVE trigger' \in Triggers
BY TriggerParts DEF SetState, StoreTypes, Triggers

LEMMA FirstFree ==
    ASSUME NEW T \in SUBSET Slots, T # {}
    PROVE  Min(T) \in T
<1>1. \A x \in T : x = 1 \/ x = 2
  BY DEF Slots
<1>2. \E x \in T : \A y \in T : x <= y
  <2>1. CASE 1 \in T
    BY <1>1, <2>1
  <2>2. CASE 1 \notin T
    <3>1. \A x \in T : x = 2
      BY <1>1, <2>2
    <3>. QED
      BY <3>1
  <2>. QED
    BY <2>1, <2>2
<1>. QED
  BY <1>2 DEF Min

\* A subscription that is begun: one that was free, from the position listed or from now.
LEMMA SubscribeBegins ==
    ASSUME TypeOK, TickFits, Subscribe
    PROVE  \E g \in Slots, at \in Positions, from \in Positions :
              /\ Cancelled[g] = Free /\ sup'.slot = g /\ sup'.pc = "insert" /\ sup'.seen = sup.seen
              /\ sub' = [Cancelled EXCEPT ![g] = [key |-> sup.seen.key, at |-> at, from |-> from,
                                                  open |-> TRUE, pc |-> "idle"]]
              /\ \/ from = at
                 \/ /\ sup.seen.cursor.key = sup.seen.key
                    /\ from = sup.seen.cursor.from /\ at = sup.seen.cursor.pos
              /\ front' = [front EXCEPT ![sup.seen.key] = IF @ < at THEN at ELSE @]
              /\ sup.seen.key \in Keys
              /\ sub' \in [Slots -> SubStates] /\ front' \in [Keys -> Positions]
              /\ sup' \in [pc : SupSteps, seen : Seens, slot : Slots \cup {0}]
<1>0. LiveTypes /\ sup.seen.key \in Keys /\ sup.seen.cursor \in Cursors
  BY TypesAre DEF LiveTypes, Seens, TickFits, Subscribe
<1>. DEFINE free == {g \in Slots : Cancelled[g] = Free}
            at == StartOf(sup.seen.key, sup.seen.cursor)
            from == IF sup.seen.cursor.key = sup.seen.key THEN sup.seen.cursor.from ELSE at
            begun == [key |-> sup.seen.key, at |-> at, from |-> from, open |-> TRUE, pc |-> "idle"]
<1>1. /\ free # {}
      /\ sub' = [Cancelled EXCEPT ![Min(free)] = begun]
      /\ front' = [front EXCEPT ![sup.seen.key] = IF @ < at THEN at ELSE @]
      /\ sup' = [sup EXCEPT !.pc = "insert", !.slot = Min(free)]
  BY DEF Subscribe
<1>2. Min(free) \in free /\ Min(free) \in Slots
  <2>1. free \in SUBSET Slots
    OBVIOUS
  <2>. HIDE DEF free
  <2>. QED
    BY <1>1, <2>1, FirstFree
<1>3. at \in Positions /\ from \in Positions
  BY <1>0 DEF StartOf, LiveTypes, Cursors
<1>4. from = at \/ (/\ sup.seen.cursor.key = sup.seen.key
                    /\ from = sup.seen.cursor.from /\ at = sup.seen.cursor.pos)
  <2>1. CASE sup.seen.cursor.key = sup.seen.key
    <3>1. sup.seen.cursor # NoCursor
      BY <1>0, <2>1, TriggerAssumption DEF NoCursor
    <3>. QED
      BY <2>1, <3>1 DEF StartOf
  <2>2. CASE sup.seen.cursor.key # sup.seen.key
    BY <2>2
  <2>. QED
    BY <2>1, <2>2
<1>. HIDE DEF at, from
<1>5. begun \in SubStates
  BY <1>0, <1>3 DEF SubStates, SinkSteps
<1>. HIDE DEF begun
<1>6. sub' \in [Slots -> SubStates]
  BY <1>0, <1>1, <1>2, <1>5, CancelledIs
<1>7. front' \in [Keys -> Positions]
  BY <1>0, <1>1, <1>3 DEF LiveTypes
<1>8. /\ sup' \in [pc : SupSteps, seen : Seens, slot : Slots \cup {0}]
      /\ sup'.slot = Min(free) /\ sup'.pc = "insert" /\ sup'.seen = sup.seen
  <2>. HIDE DEF free
  <2>. QED
    BY <1>0, <1>1, <1>2 DEF LiveTypes, SupSteps
<1>9. Cancelled[Min(free)] = Free
  BY <1>2
<1>. HIDE DEF free
<1>. QED
  BY <1>0, <1>1, <1>2, <1>3, <1>4, <1>6, <1>7, <1>8, <1>9 DEF begun

LEMMA UnreadType == ASSUME HistTypes, Unread PROVE overlooked' \subseteq Events
BY WaitingAre DEF Unread, HistTypes

LEMMA SupervisorTypes == ASSUME TypeOK, TickFits, Supervisor PROVE TypeOK'
<1>0. StoreTypes /\ RunTypes /\ HistTypes /\ LiveTypes
  BY TypesAre
<1>a. ASSUME Fault PROVE faults' \in 0..MaxFaults
  BY <1>0, <1>a, TriggerAssumption DEF Fault, HistTypes
<1>1. CASE LoadPending
  <2>1. sched' \in [since : BOOLEAN, running : BOOLEAN] /\ sup' \in [pc : SupSteps, seen : Seens, slot : Slots \cup {0}]
    BY <1>0, <1>1 DEF LoadPending, LiveTypes, SupSteps
  <2>. QED
    BY <1>0, <1>1, <2>1, TypesNext
       DEF LoadPending, StoreTypes, RunTypes, HistTypes, LiveTypes, storeVars, boundVars
<1>2. CASE ListRuns \/ ListWaits
  <2>1. sup' \in [pc : SupSteps, seen : Seens, slot : Slots \cup {0}]
    BY <1>0, <1>2, AsleepType, TriggerParts DEF ListRuns, ListWaits, List, SupSteps
  <2>2. /\ sched' \in [since : BOOLEAN, running : BOOLEAN]
        /\ RunTypes'
    BY <1>0, <1>2, NoRunType DEF ListRuns, ListWaits, Dispatch, LiveTypes, RunTypes, RunSteps
  <2>. QED
    BY <1>0, <1>2, <2>1, <2>2, TypesNext
       DEF ListRuns, ListWaits, List, StoreTypes, HistTypes, LiveTypes, storeVars, boundVars, histVars
<1>3. CASE ListGone
  <2>1. Unscheduled \in [since : BOOLEAN, running : BOOLEAN]
    BY DEF Unscheduled
  <2>. QED
    BY <1>0, <1>3, <2>1, CancelledIs, NoLiveType, TypesNext
       DEF ListGone, StoreTypes, RunTypes, HistTypes, LiveTypes, storeVars, boundVars, histVars
<1>4. CASE ReconcileBlocked
  <2>1. trigger' \in Triggers
    <3>1. (sup.seen.enabled /\ sup.seen.ended) \in BOOLEAN
      BY <1>0 DEF LiveTypes, Seens
    <3>. QED
      BY <1>0, <1>4, <3>1, SetStateType DEF ReconcileBlocked
  <2>. QED
    BY <1>0, <1>4, <2>1, CancelledIs, NoLiveType, AsleepType, TypesNext
       DEF ReconcileBlocked, StoreTypes, RunTypes, HistTypes, LiveTypes, boundVars, histVars
<1>5. CASE ServerBlocks
  <2>1. trigger' \in Triggers
    BY <1>0, <1>5, SetStateType DEF ServerBlocks
  <2>. QED
    BY <1>0, <1>5, <1>a, <2>1, CancelledIs, NoLiveType, AsleepType, TypesNext
       DEF ServerBlocks, StoreTypes, RunTypes, HistTypes, LiveTypes, histVars
<1>6. CASE ReconcileSettled
  BY <1>0, <1>6, AsleepType, TypesNext
     DEF ReconcileSettled, StoreTypes, RunTypes, HistTypes, LiveTypes, storeVars, boundVars, histVars
<1>7. CASE Subscribe
  <2>1. /\ sub' \in [Slots -> SubStates] /\ front' \in [Keys -> Positions]
        /\ sup' \in [pc : SupSteps, seen : Seens, slot : Slots \cup {0}]
    BY <1>7, SubscribeBegins
  <2>. QED
    BY <1>0, <1>7, <2>1, NoLiveType, TypesNext
       DEF Subscribe, StoreTypes, RunTypes, HistTypes, LiveTypes, storeVars, boundVars, histVars
<1>8. CASE SubscribeFails
  <2>1. trigger' \in Triggers
    BY <1>0, <1>8, SetStateType DEF SubscribeFails
  <2>. QED
    BY <1>0, <1>8, <1>a, <2>1, CancelledIs, NoLiveType, AsleepType, TypesNext
       DEF SubscribeFails, StoreTypes, RunTypes, HistTypes, LiveTypes, histVars
<1>9. CASE Insert
  <2>1. live' \in [slot : Slots \cup {0}, key : Keys \cup {0}]
    BY <1>0, <1>9 DEF Insert, LiveTypes, TickFits
  <2>. QED
    BY <1>0, <1>9, <2>1, AsleepType, TypesNext
       DEF Insert, StoreTypes, RunTypes, HistTypes, LiveTypes, storeVars, boundVars, histVars
<1>10. CASE LoadPendingFails
  <2>1. sup' \in [pc : SupSteps, seen : Seens, slot : Slots \cup {0}]
    BY <1>0, <1>10 DEF LoadPendingFails, LiveTypes, SupSteps
  <2>2. overlooked' \subseteq Events
    BY <1>0, <1>10, UnreadType DEF LoadPendingFails
  <2>. QED
    BY <1>0, <1>10, <1>a, <2>1, <2>2, TypesNext
       DEF LoadPendingFails, StoreTypes, RunTypes, HistTypes, LiveTypes, storeVars
<1>. QED
  BY <1>1, <1>2, <1>3, <1>4, <1>5, <1>6, <1>7, <1>8, <1>9, <1>10 DEF Supervisor

\* The steps of a run write the run and the schedule, and a few of them the store.
LEMMA RunSteady ==
    ASSUME RunTypes, LiveTypes
    PROVE  /\ RunEnds => RunTypes' /\ sched' \in [since : BOOLEAN, running : BOOLEAN]
           /\ \A failed \in BOOLEAN :
                 Settle(failed) => RunTypes' /\ sched' \in [since : BOOLEAN, running : BOOLEAN]
BY NoRunType DEF RunTypes, LiveTypes, RunEnds, Settle, RunSteps

LEMMA PauseType ==
    ASSUME StoreTypes, PauseSaved PROVE trigger' \in Triggers /\ RunTypes'
BY TriggerParts, NoRunType DEF PauseSaved, StoreTypes, RunTypes, RunSteps

LEMMA RowEndedType ==
    ASSUME StoreTypes, NEW how \in RunStates
    PROVE  /\ RowEnded(how) \in Seq(RunStates) /\ Len(RowEnded(how)) = Len(runs)
           /\ \A i \in 1..Len(runs) : i # Len(runs) \/ ~run.row => RowEnded(how)[i] = runs[i]
           /\ run.row /\ runs # <<>> => RowEnded(how)[Len(runs)] = how
<1>1. runs \in Seq(RunStates) /\ Len(runs) \in Nat
  BY DEF StoreTypes
<1>2. CASE run.row
  <2>1. RowEnded(how) = [runs EXCEPT ![Len(runs)] = how]
    BY <1>2 DEF RowEnded
  <2>2. RowEnded(how) \in Seq(RunStates) /\ Len(RowEnded(how)) = Len(runs)
    <3>1. CASE runs = <<>>
      <4>1. DOMAIN runs = {}
        BY <1>1, <3>1
      <4>2. RowEnded(how) = [i \in DOMAIN runs |-> IF i = Len(runs) THEN how ELSE runs[i]]
        BY <2>1
      <4>3. runs = [i \in DOMAIN runs |-> runs[i]]
        BY <1>1
      <4>4. RowEnded(how) = runs
        BY <4>1, <4>2, <4>3
      <4>. QED
        BY <1>1, <4>4
    <3>2. CASE Len(runs) \in 1..Len(runs)
      BY <1>1, <2>1, <3>2, ExceptSeq
    <3>. QED
      BY <1>1, <3>1, <3>2
  <2>3. \A i \in 1..Len(runs) : i # Len(runs) => RowEnded(how)[i] = runs[i]
    BY <1>1, <2>1
  <2>4. runs # <<>> => RowEnded(how)[Len(runs)] = how
    <3>1. runs # <<>> => Len(runs) \in 1..Len(runs)
      BY <1>1
    <3>. QED
      BY <1>1, <2>1, <3>1
  <2>. QED
    BY <1>2, <2>2, <2>3, <2>4
<1>3. CASE ~run.row
  BY <1>1, <1>3 DEF RowEnded
<1>. QED
  BY <1>2, <1>3

LEMMA RunnerTypes == ASSUME TypeOK, Run PROVE TypeOK'
<1>0. StoreTypes /\ RunTypes /\ HistTypes /\ LiveTypes
  BY TypesAre
<1>a. ASSUME Fault PROVE faults' \in 0..MaxFaults
  BY <1>0, <1>a, TriggerAssumption DEF Fault, HistTypes
<1>1. CASE RunRefused
  BY <1>0, <1>1, <1>a, RunSteady, TypesNext
     DEF RunRefused, StoreTypes, HistTypes, LiveTypes, storeVars, histVars
<1>2. CASE RunFindsOff
  BY <1>0, <1>2, RunSteady, TypesNext
     DEF RunFindsOff, StoreTypes, HistTypes, LiveTypes, storeVars, boundVars, histVars
<1>3. CASE RunPauses \/ Pause
  BY <1>0, <1>3, PauseType, TypesNext
     DEF RunPauses, Pause, StoreTypes, HistTypes, LiveTypes, boundVars, histVars
<1>4. CASE RunTakes
  <2>1. RunTypes'
    <3>1. \A batch \in Batches : batch \in SUBSET Events
      BY WaitingAre DEF Batches, kSubset
    <3>2. FailuresSince \in Nat
      BY FailuresAre
    <3>. QED
      BY <1>0, <1>4, <3>1, <3>2 DEF RunTakes, RunTypes, RunSteps
  <2>2. runs' \in Seq(RunStates) /\ Len(runs') <= KeepRuns
    BY <1>0, <1>4, WithRunIs DEF RunTakes, StoreTypes
  <2>. QED
    BY <1>0, <1>4, <2>1, <2>2, TypesNext
       DEF RunTakes, StoreTypes, HistTypes, LiveTypes, boundVars
<1>5. CASE RunFindsNone
  BY <1>0, <1>5, TypesNext
     DEF RunFindsNone, StoreTypes, RunTypes, RunSteps, HistTypes, LiveTypes, storeVars, boundVars, histVars
<1>6. CASE RunForgets
  BY <1>0, <1>6, NoRunType, WaitingAre, TypesNext
     DEF RunForgets, StoreTypes, RunTypes, HistTypes, LiveTypes, storeVars, boundVars
<1>7. CASE AgentFails
  <2>1. runs' \in Seq(RunStates) /\ Len(runs') <= KeepRuns
    <3>1. "failed" \in RunStates
      BY DEF RunStates
    <3>. QED
      BY <1>0, <1>7, <3>1, RowEndedType DEF AgentFails, StoreTypes
  <2>2. RunTypes' /\ sched' \in [since : BOOLEAN, running : BOOLEAN]
    BY <1>0, <1>7, RunSteady DEF AgentFails
  <2>3. stored' \in [Events -> RowStates]
    BY <1>0, <1>7, RunWrites, RowsWrittenType
  <2>. QED
    BY <1>0, <1>7, <2>1, <2>2, <2>3, TypesNext
       DEF AgentFails, StoreTypes, HistTypes, LiveTypes, boundVars, histVars
<1>8. CASE AgentSucceeds
  <2>1. runs' \in Seq(RunStates) /\ Len(runs') <= KeepRuns
    <3>1. "ok" \in RunStates
      BY DEF RunStates
    <3>. QED
      BY <1>0, <1>8, <3>1, RowEndedType DEF AgentSucceeds, StoreTypes
  <2>2. RunTypes'
    BY <1>0, <1>8 DEF AgentSucceeds, RunTypes, RunSteps
  <2>. QED
    BY <1>0, <1>8, <2>1, <2>2, TypesNext
       DEF AgentSucceeds, StoreTypes, HistTypes, LiveTypes, boundVars
<1>9. CASE Consume
  <2>1. stored' \in [Events -> RowStates]
    BY <1>0, <1>9, RunWrites, RowsWrittenType
  <2>2. RunTypes' /\ sched' \in [since : BOOLEAN, running : BOOLEAN]
    BY <1>0, <1>9, RunSteady DEF Consume
  <2>. QED
    BY <1>0, <1>9, <2>1, <2>2, TypesNext
       DEF Consume, StoreTypes, HistTypes, LiveTypes, boundVars, histVars
<1>10. CASE ConsumeFails
  <2>1. stored' \in [Events -> RowStates]
    BY <1>0, <1>10, RunWrites, RowsWrittenType
  <2>2. RunTypes' /\ sched' \in [since : BOOLEAN, running : BOOLEAN]
    BY <1>0, <1>10, RunSteady DEF ConsumeFails
  <2>. QED
    BY <1>0, <1>10, <1>a, <2>1, <2>2, TypesNext
       DEF ConsumeFails, StoreTypes, HistTypes, LiveTypes, histVars
<1>11. CASE RunLooksAgain
  BY <1>0, <1>11, NoRunType, TypesNext
     DEF RunLooksAgain, StoreTypes, RunTypes, HistTypes, LiveTypes, storeVars, boundVars, histVars
<1>12. CASE Unhook
  BY <1>0, <1>12, RunSteady, CancelledIs, NoLiveType, TypesNext
     DEF Unhook, StoreTypes, HistTypes, LiveTypes, storeVars, boundVars, histVars
<1>13. CASE RunUnsaved
  BY <1>0, <1>13, <1>a, RunSteady, TypesNext
     DEF RunUnsaved, StoreTypes, HistTypes, LiveTypes, storeVars, histVars
<1>14. CASE RunLooksFails
  BY <1>0, <1>14, <1>a, RunSteady, UnreadType, TypesNext
     DEF RunLooksFails, StoreTypes, HistTypes, LiveTypes, storeVars
<1>15. CASE PauseFails
  <2>1. RunTypes'
    BY <1>15, NoRunType DEF PauseFails, RunTypes, RunSteps
  <2>. QED
    BY <1>0, <1>15, <1>a, <2>1, UnreadType, TypesNext
       DEF PauseFails, StoreTypes, HistTypes, LiveTypes, storeVars
<1>. QED
  BY <1>1, <1>2, <1>3, <1>4, <1>5, <1>6, <1>7, <1>8, <1>9, <1>10, <1>11, <1>12, <1>13, <1>14, <1>15
     DEF Run

\* The row as an owner writes it.
LEMMA EditedTypes ==
    ASSUME TypeOK, NEW t \in Triggers, Edited(t), owner' \in OwnerSteps,
           UNCHANGED <<sched, overlooked>> \/ Probe
    PROVE  TypeOK'
<1>0. StoreTypes /\ RunTypes /\ HistTypes /\ LiveTypes
  BY TypesAre
<1>1. edits' \in 0..MaxEdits
  BY <1>0, TriggerAssumption DEF Edited, HistTypes
<1>2. StoreTypes'
  <2>1. <<>> \in Seq(RunStates) /\ Len(<<>>) <= KeepRuns
    BY TriggerAssumption
  <2>. QED
    BY <1>0, <2>1 DEF Edited, StoreTypes
<1>3. RunTypes'
  BY <1>0 DEF Edited, RunTypes
<1>4. sched' \in [since : BOOLEAN, running : BOOLEAN]
  BY <1>0 DEF Probe, LiveTypes
<1>5. overlooked' \subseteq Events
  BY <1>0 DEF Probe, HistTypes
<1>. QED
  BY <1>0, <1>1, <1>2, <1>3, <1>4, <1>5, TypesNext DEF Edited, HistTypes, LiveTypes

LEMMA OwnerTypes == ASSUME TypeOK, Owner PROVE TypeOK'
<1>0. StoreTypes /\ RunTypes /\ HistTypes /\ LiveTypes
  BY TypesAre
<1>1. CASE Change \/ Enable \/ Disable
  <2>1. PICK t \in Triggers : Edited(t)
    BY <1>0, <1>1, TriggerParts DEF Change, Enable, Disable
  <2>2. owner' \in OwnerSteps /\ (UNCHANGED <<sched, overlooked>> \/ Probe)
    BY <1>0, <1>1 DEF Change, Enable, Disable, OwnerSteps, LiveTypes
  <2>. QED
    BY <2>1, <2>2, EditedTypes
<1>2. CASE ChangeKey
  <2>1. PICK k \in Keys : Edited([trigger EXCEPT !.key = k, !.cursor = NoCursor, !.ended = FALSE])
    BY <1>2 DEF ChangeKey
  <2>2. [trigger EXCEPT !.key = k, !.cursor = NoCursor, !.ended = FALSE] \in Triggers
    BY <1>0, NoCursorType, TriggerParts
  <2>3. owner' \in OwnerSteps /\ UNCHANGED <<sched, overlooked>>
    BY <1>2 DEF ChangeKey, OwnerSteps
  <2>. QED
    BY <2>1, <2>2, <2>3, EditedTypes
<1>3. CASE Stop
  <2>1. /\ sched' \in [since : BOOLEAN, running : BOOLEAN] /\ owner' \in OwnerSteps
        /\ overlooked' \subseteq Events
    BY <1>0, <1>3 DEF Stop, Probe, LiveTypes, HistTypes, OwnerSteps
  <2>. QED
    BY <1>0, <1>3, <2>1, CancelledIs, NoLiveType, TypesNext
       DEF Stop, StoreTypes, RunTypes, HistTypes, LiveTypes, storeVars, boundVars, histVars
<1>4. CASE Delete
  <2>1. edits' \in 0..MaxEdits /\ owner' \in OwnerSteps
    BY <1>0, <1>4, TriggerAssumption DEF Delete, HistTypes, OwnerSteps
  <2>. QED
    BY <1>0, <1>4, <2>1, CancelledIs, NoLiveType, TypesNext
       DEF Delete, StoreTypes, RunTypes, HistTypes, LiveTypes, storeVars, histVars
<1>5. CASE Remove
  <2>1. StoreTypes'
    <3>1. <<>> \in Seq(RunStates) /\ Len(<<>>) <= KeepRuns
      BY TriggerAssumption
    <3>2. trigger' \in Triggers
      BY <1>0, <1>5, NoCursorType, TriggerParts DEF Remove
    <3>3. stored' \in [Events -> RowStates]
      BY <1>5 DEF Remove, RowStates
    <3>. QED
      BY <1>5, <3>1, <3>2, <3>3 DEF Remove, StoreTypes
  <2>2. RunTypes'
    BY <1>0, <1>5 DEF Remove, RunTypes
  <2>. QED
    BY <1>0, <1>5, <2>1, <2>2, TypesNext DEF Remove, HistTypes, LiveTypes, OwnerSteps, boundVars
<1>. QED
  BY <1>1, <1>2, <1>3, <1>4, <1>5 DEF Owner

LEMMA CrashTypes == ASSUME TypeOK, Crash PROVE TypeOK'
<1>0. StoreTypes /\ RunTypes /\ HistTypes /\ LiveTypes
  BY TypesAre
<1>1. faults' \in 0..MaxFaults
  BY <1>0, TriggerAssumption DEF Crash, Fault, HistTypes
<1>2. Unscheduled \in [since : BOOLEAN, running : BOOLEAN]
  BY DEF Unscheduled
<1>. QED
  BY <1>0, <1>1, <1>2, FreeType, NoLiveType, NoRunType, AsleepType, TypesNext
     DEF Crash, StoreTypes, RunTypes, HistTypes, LiveTypes, OwnerSteps, storeVars, histVars

-----------------------------------------------------------------------------
(***************************************************************************)
(* Subscriptions.                                                          *)
(***************************************************************************)
\* What a tick has in hand is what it had, what is stored, or nothing.
TickKeeps ==
    \/ sup' = sup
    \/ /\ sup.pc # "insert"
       /\ \/ sup'.pc \in {"boot", "idle"} /\ sup'.seen.cursor \in {NoCursor, sup.seen.cursor}
          \/ sup'.pc = "reconcile" /\ sup'.seen = SeenOf(trigger)

\* What becomes of the subscriptions behind the provider's back.
SubsKeep ==
    \/ UNCHANGED <<sub, live>> /\ TickKeeps
    \/ sub' = Cancelled /\ live' = NoLive /\ TickKeeps
    \/ Crash

LEMMA DaemonKeeps ==
    ASSUME TypeOK, Supervisor \/ Run \/ Owner \/ Crash
    PROVE  SubsKeep \/ Subscribe \/ Insert
<1>1. CASE LoadPending
  <2>1. sup'.pc = "idle" /\ sup'.seen = sup.seen
    BY <1>1, TypesAre DEF LoadPending, LiveTypes
  <2>. QED
    BY <1>1, <2>1 DEF LoadPending, SubsKeep, TickKeeps
<1>a. CASE LoadPendingFails
  <2>1. sup'.pc = "idle" /\ sup'.seen = sup.seen
    BY <1>a, TypesAre DEF LoadPendingFails, LiveTypes
  <2>. QED
    BY <1>a, <2>1 DEF LoadPendingFails, SubsKeep, TickKeeps
<1>2. CASE ListRuns \/ ListWaits
  <2>1. sup'.pc = "reconcile" /\ sup'.seen = SeenOf(trigger)
    BY <1>2 DEF ListRuns, ListWaits, List, Asleep
  <2>. QED
    BY <1>2, <2>1 DEF ListRuns, ListWaits, List, SubsKeep, TickKeeps
<1>3. CASE ListGone \/ ReconcileBlocked \/ ServerBlocks \/ ReconcileSettled \/ SubscribeFails
  BY <1>3, AsleepType DEF ListGone, ReconcileBlocked, ServerBlocks, ReconcileSettled, SubscribeFails,
     SubsKeep, TickKeeps
<1>4. CASE Run
  BY <1>4 DEF Run, RunRefused, RunFindsOff, RunPauses, RunTakes, RunFindsNone, RunForgets, AgentFails,
     RunUnsaved, AgentSucceeds, Consume, ConsumeFails, RunLooksAgain, RunLooksFails, Pause, PauseFails,
     Unhook, SubsKeep, TickKeeps
<1>5. CASE Owner
  BY <1>5 DEF Owner, Change, ChangeKey, Enable, Disable, Stop, Delete, Remove, Edited, SubsKeep, TickKeeps
<1>. QED
  BY <1>1, <1>a, <1>2, <1>3, <1>4, <1>5 DEF Supervisor, SubsKeep

LEMMA SinkKeeps ==
    ASSUME TypeOK, NEW g \in Slots, Sink(g)
    PROVE  /\ UNCHANGED <<live, sup>>
           /\ \A h \in Slots \ {g} : sub'[h] = sub[h]
<1>1. LiveTypes /\ sub[g].at \in Positions
  BY TypesAre DEF LiveTypes, SubStates
<1>2. \A at : \A h \in Slots \ {g} : Settled(g, at)[h] = sub[h]
  BY <1>1 DEF Settled, LiveTypes
<1>. QED
  BY <1>1, <1>2 DEF Sink, Deliver, Record, Move, Schedule, DeliveryFails, RecordFails, Terminate,
     SaveEnd, LiveTypes

\* A delivery in hand is over with its last step, or goes on with the same event.
LEMMA SinkAtWork ==
    ASSUME TypeOK, NEW g \in Slots, Sink(g)
    PROVE  /\ sub'[g].open => sub[g].open
           /\ \/ sub'[g] = Free
              \/ sub'[g].pc \in {"idle", "ending"} /\ sub[g].open /\ sub'[g].key = sub[g].key
              \/ /\ sub'[g].key = sub[g].key /\ sub'[g].at = sub[g].at
                 /\ sub[g].open \/ sub[g].pc # "idle"
                 /\ Deliver(g) \/ sub[g].pc \in {"record", "move", "schedule"}
<1>1. LiveTypes /\ sub[g] \in SubStates /\ ~Free.open
  BY TypesAre DEF LiveTypes, Free
<1>2. ASSUME NEW at, sub' = Settled(g, at)
      PROVE  \/ sub'[g] = Free
             \/ sub'[g].pc = "idle" /\ sub[g].open /\ sub'[g].key = sub[g].key
  BY <1>1, <1>2 DEF Settled, LiveTypes, SubStates
<1>3. CASE Deliver(g)
  BY <1>1, <1>3 DEF Deliver, LiveTypes, SubStates
<1>4. CASE Record(g)
  BY <1>1, <1>4 DEF Record, LiveTypes, SubStates
<1>5. CASE Move(g)
  <2>1. CASE trigger.exists
    BY <1>1, <1>5, <2>1 DEF Move, LiveTypes, SubStates
  <2>2. CASE ~trigger.exists
    BY <1>1, <1>2, <1>5, <2>2 DEF Move
  <2>. QED
    BY <2>1, <2>2
<1>6. CASE Schedule(g) \/ DeliveryFails(g) \/ RecordFails(g)
  BY <1>1, <1>2, <1>6 DEF Schedule, DeliveryFails, RecordFails
<1>7. CASE Terminate(g)
  BY <1>1, <1>7 DEF Terminate, LiveTypes, SubStates
<1>8. CASE SaveEnd(g)
  BY <1>1, <1>8 DEF SaveEnd, LiveTypes
<1>. QED
  BY <1>3, <1>4, <1>5, <1>6, <1>7, <1>8 DEF Sink

LEMMA FreeFits ==
    ASSUME NEW g \in Slots, sub'[g] = Free
    PROVE  SubFits(g)'
BY DEF Free, SubFits

LEMMA SinkFits == ASSUME TypeOK, SubsFit, NEW g \in Slots, Sink(g) PROVE SubsFit'
<1>1. ASSUME NEW h \in Slots, h # g PROVE SubFits(h)'
  <2>1. sub'[h] = sub[h]
    BY <1>1, SinkKeeps
  <2>. QED
    BY <1>1, <2>1 DEF SubsFit, SubFits
<1>2. SubFits(g)
  BY DEF SubsFit
<1>3. SubFits(g)'
  <2>1. CASE sub'[g] = Free
    BY <2>1, FreeFits
  <2>2. CASE sub'[g].pc \in {"idle", "ending"} /\ sub[g].open /\ sub'[g].key = sub[g].key
    BY <1>2, <2>2 DEF SubFits
  <2>3. CASE /\ sub'[g].key = sub[g].key /\ sub'[g].at = sub[g].at
             /\ sub[g].open \/ sub[g].pc # "idle"
             /\ Deliver(g) \/ sub[g].pc \in {"record", "move", "schedule"}
    BY <1>2, <2>3 DEF SubFits, Deliver
  <2>. QED
    BY <2>1, <2>2, <2>3, SinkAtWork
<1>. QED
  BY <1>1, <1>3 DEF SubsFit

LEMMA CancelledFits == ASSUME TypeOK, SubsFit, sub' = Cancelled PROVE SubsFit'
<1>1. SUFFICES ASSUME NEW g \in Slots PROVE SubFits(g)'
  BY DEF SubsFit
<1>2. LiveTypes /\ SubFits(g)
  BY TypesAre DEF SubsFit
<1>3. CASE sub'[g] = Free
  BY <1>3, FreeFits
<1>4. CASE sub'[g] # Free
  BY <1>2, <1>4, CancelledIs DEF SubFits
<1>. QED
  BY <1>3, <1>4

LEMMA SubscribeFits == ASSUME TypeOK, SubsFit, TickFits, Subscribe PROVE SubsFit'
<1>1. SUFFICES ASSUME NEW g \in Slots PROVE SubFits(g)'
  BY DEF SubsFit
<1>2. LiveTypes /\ SubFits(g)
  BY TypesAre DEF SubsFit
<1>3. PICK h \in Slots, at \in Positions, from \in Positions :
         /\ sub' = [Cancelled EXCEPT ![h] = [key |-> sup.seen.key, at |-> at, from |-> from,
                                             open |-> TRUE, pc |-> "idle"]]
         /\ sup.seen.key \in Keys
  BY SubscribeBegins
<1>4. CASE g = h
  <2>1. sub'[g].key \in Keys /\ sub'[g].pc = "idle"
    BY <1>2, <1>3, <1>4, CancelledIs
  <2>. QED
    BY <2>1 DEF SubFits
<1>5. CASE g # h
  <2>1. sub'[g] = Cancelled[g]
    BY <1>2, <1>3, <1>5, CancelledIs
  <2>2. CASE sub'[g] = Free
    BY <2>2, FreeFits
  <2>3. CASE sub'[g] # Free
    BY <1>2, <2>1, <2>3, CancelledIs DEF SubFits
  <2>. QED
    BY <2>2, <2>3
<1>. QED
  BY <1>4, <1>5

LEMMA NextBase == ASSUME Base, [Next]_vars PROVE Base'
<1>0. TypeOK /\ SubsFit /\ TickFits /\ LiveTypes /\ StoreTypes
  BY TypesAre DEF Base
<1>1. ASSUME NEW g \in Slots, Sink(g) PROVE Base'
  BY <1>0, <1>1, SinkTypes, SinkFits, SinkKeeps DEF Base, TickFits
<1>2. CASE Supervisor \/ Run \/ Owner \/ Crash
  <2>1. TypeOK'
    BY <1>0, <1>2, SupervisorTypes, RunnerTypes, OwnerTypes, CrashTypes
  <2>2. CASE SubsKeep
    <3>1. SubsFit'
      <4>1. CASE Crash
        BY <4>1, FreeFits DEF Crash, SubsFit
      <4>2. CASE UNCHANGED sub
        BY <1>0, <4>2 DEF SubsFit, SubFits
      <4>. QED
        BY <1>0, <2>2, <4>1, <4>2, CancelledFits DEF SubsKeep
    <3>2. TickFits'
      <4>1. CASE Crash
        BY <4>1, AsleepType DEF Crash, TickFits
      <4>2. CASE TickKeeps /\ live' \in {live, NoLive}
        <5>1. CASE sup' = sup
          BY <1>0, <4>2, <5>1 DEF TickFits
        <5>2. CASE sup'.pc \in {"boot", "idle"}
          BY <5>2 DEF TickFits
        <5>3. CASE sup'.pc = "reconcile" /\ sup'.seen = SeenOf(trigger)
          <6>1. SeenOf(trigger).key = trigger.key /\ trigger.key \in Keys
            BY <1>0, TriggerParts DEF SeenOf
          <6>. QED
            BY <5>3, <6>1 DEF TickFits
        <5>. QED
          BY <4>2, <5>1, <5>2, <5>3 DEF TickKeeps
      <4>. QED
        BY <2>2, <4>1, <4>2 DEF SubsKeep
    <3>. QED
      BY <2>1, <3>1, <3>2 DEF Base
  <2>3. CASE Subscribe
    <3>1. sup'.seen.key \in Keys
      BY <1>0, <2>3, SubscribeBegins
    <3>2. TickFits'
      BY <2>3, <3>1 DEF Subscribe, TickFits
    <3>. QED
      BY <1>0, <2>1, <2>3, <3>2, SubscribeFits DEF Base
  <2>4. CASE Insert
    BY <1>0, <2>1, <2>4, AsleepType DEF Insert, Base, SubsFit, SubFits, TickFits
  <2>. QED
    BY <1>0, <1>2, <2>2, <2>3, <2>4, DaemonKeeps
<1>3. CASE UNCHANGED vars
  BY <1>0, <1>3 DEF vars, Base, TypeOK, SubsFit, SubFits, TickFits
<1>. QED
  BY <1>1, <1>2, <1>3 DEF Next

LEMMA InitBase == Init => Base
<1>. SUFFICES ASSUME Init PROVE Base
  OBVIOUS
<1>1. trigger \in Triggers
  <2>1. (CHOOSE k \in Keys : TRUE) \in Keys
    BY TriggerAssumption
  <2>. QED
    BY <2>1, NoCursorType DEF Init, Triggers
<1>2. StoreTypes
  <2>1. <<>> \in Seq(RunStates) /\ Len(<<>>) <= KeepRuns
    BY TriggerAssumption
  <2>2. stored \in [Events -> RowStates]
    BY DEF Init, RowStates
  <2>. QED
    BY <1>1, <2>1, <2>2 DEF Init, StoreTypes
<1>3. LiveTypes
  <2>1. Unscheduled \in [since : BOOLEAN, running : BOOLEAN]
    BY DEF Unscheduled
  <2>2. Past \in [Keys -> Positions]
    <3>1. \A k \in Keys : Past[k] \in 0..StreamLength[k]
      BY TriggerAssumption
    <3>. QED
      BY <3>1, PositionsAre, TriggerAssumption
  <2>. QED
    BY <2>1, <2>2, FreeType, NoLiveType, AsleepType, NoCursorType DEF Init, LiveTypes, OwnerSteps
<1>4. HistTypes /\ RunTypes
  BY NoRunType, TriggerAssumption DEF Init, HistTypes, RunTypes
<1>5. SubsFit /\ TickFits
  BY AsleepType DEF Init, SubsFit, SubFits, TickFits, Free
<1>. QED
  BY <1>2, <1>3, <1>4, <1>5, TypesAre DEF Base

LEMMA AlwaysBase == Spec => []Base
BY InitBase, NextBase, PTL DEF Spec

\* Rows, positions and subscriptions keep their types, the history of runs its length,
\* whatever is edited, delivered or lost.
THEOREM TriggerTypeCorrect == Spec => []TypeOK
<1>1. Base => TypeOK
  BY DEF Base
<1>. QED
  BY <1>1, AlwaysBase, PTL

\* A pause, a stop or a deletion cancels what is live; what a tick subscribes meanwhile is
\* entered into the table by that tick.
LEMMA NextNoOrphan ==
    ASSUME Base, NoOrphanSubscription, [Next]_vars PROVE NoOrphanSubscription'
<1>0. TypeOK /\ TickFits /\ LiveTypes
  BY TypesAre DEF Base
<1>1. ASSUME NEW g \in Slots, Sink(g) PROVE NoOrphanSubscription'
  BY <1>0, <1>1, SinkKeeps, SinkAtWork DEF NoOrphanSubscription
<1>2. CASE SubsKeep
  <2>1. CASE Crash
    BY <2>1 DEF Crash, Free, NoOrphanSubscription
  <2>2. ASSUME NEW g \in Slots, sub'[g].open, ~Crash
        PROVE  live'.slot = g \/ (sup'.pc = "insert" /\ sup'.slot = g)
    <3>1. sub[g].open /\ (sub' = Cancelled => g # live.slot)
      BY <1>0, <1>2, <2>2, CancelledIs DEF SubsKeep
    <3>2. CASE live.slot = g
      BY <1>2, <2>2, <3>1, <3>2 DEF SubsKeep
    <3>3. CASE sup.pc = "insert" /\ sup.slot = g
      BY <1>2, <2>2, <3>3 DEF SubsKeep, TickKeeps
    <3>. QED
      BY <3>1, <3>2, <3>3 DEF NoOrphanSubscription
  <2>. QED
    BY <2>1, <2>2 DEF NoOrphanSubscription
<1>3. CASE Subscribe
  <2>1. PICK h \in Slots, at \in Positions, from \in Positions :
           /\ sup'.slot = h /\ sup'.pc = "insert"
           /\ sub' = [Cancelled EXCEPT ![h] = [key |-> sup.seen.key, at |-> at, from |-> from,
                                               open |-> TRUE, pc |-> "idle"]]
    BY <1>0, <1>3, SubscribeBegins
  <2>2. ASSUME NEW g \in Slots, g # h PROVE ~sub'[g].open
    <3>1. sub'[g] = Cancelled[g]
      BY <1>0, <2>1, <2>2, CancelledIs
    <3>2. sup.pc # "insert"
      BY <1>3 DEF Subscribe
    <3>. QED
      BY <1>0, <3>1, <3>2, CancelledIs DEF NoOrphanSubscription
  <2>. QED
    BY <2>1, <2>2 DEF NoOrphanSubscription
<1>4. CASE Insert
  <2>1. live.slot \notin Slots
    BY <1>0, <1>4 DEF Insert, TickFits, NoLive, Slots
  <2>2. live'.slot = sup.slot /\ sub' = sub
    BY <1>4 DEF Insert
  <2>. QED
    BY <2>1, <2>2 DEF NoOrphanSubscription
<1>5. CASE UNCHANGED vars
  BY <1>5 DEF vars, NoOrphanSubscription
<1>. QED
  BY <1>0, <1>1, <1>2, <1>3, <1>4, <1>5, DaemonKeeps DEF Next

\* A subscription that is open is in the table or about to be entered, so that the next
\* tick finds it (take_live, stop, pause).
THEOREM NoOrphanHolds == Spec => []NoOrphanSubscription
<1>1. Init => NoOrphanSubscription
  BY DEF Init, Free, NoOrphanSubscription
<1>. QED
  BY <1>1, NextNoOrphan, AlwaysBase, PTL DEF Spec

-----------------------------------------------------------------------------
(***************************************************************************)
(* What is stored.                                                         *)
(***************************************************************************)
\* Nothing is stored, dropped or forgotten but by a delivery, a run or the removal.
StoreStays ==
    /\ UNCHANGED <<stored, dropped>>
    /\ trigger'.exists => trigger.exists /\ trigger'.missed = trigger.missed

LEMMA StoreStaysElsewhere ==
    ASSUME Base, [Next]_vars, ~AgentFails, ~Consume, ~ConsumeFails, ~Remove,
           \A g \in Slots : ~Record(g) /\ ~RecordFails(g)
    PROVE  StoreStays
<1>0. StoreTypes
  BY TypesAre DEF Base
<1>1. ASSUME NEW g \in Slots, Sink(g) PROVE StoreStays
  BY <1>0, <1>1 DEF Sink, Deliver, Move, Schedule, DeliveryFails, Terminate, SaveEnd,
     StoreStays, StoreTypes, Triggers, storeVars, histVars
<1>2. CASE Supervisor
  BY <1>0, <1>2 DEF Supervisor, LoadPending, LoadPendingFails, ListRuns, ListWaits, List, ListGone,
     ReconcileBlocked,
     ServerBlocks, ReconcileSettled, Subscribe, SubscribeFails, Insert, SetState,
     StoreStays, StoreTypes, Triggers, storeVars, histVars
<1>3. CASE Run
  BY <1>0, <1>3 DEF Run, RunRefused, RunFindsOff, RunPauses, RunTakes, RunFindsNone, RunForgets,
     RunUnsaved, AgentSucceeds, RunLooksAgain, RunLooksFails, Pause, PauseFails, Unhook, PauseSaved,
     StoreStays, StoreTypes, Triggers, storeVars, histVars
<1>4. CASE Owner
  BY <1>0, <1>4 DEF Owner, Change, ChangeKey, Enable, Disable, Stop, Delete, Edited,
     StoreStays, StoreTypes, Triggers, storeVars, histVars
<1>5. CASE Crash
  BY <1>5 DEF Crash, StoreStays, storeVars, histVars
<1>6. CASE UNCHANGED vars
  BY <1>6 DEF vars, StoreStays
<1>. QED
  BY <1>1, <1>2, <1>3, <1>4, <1>5, <1>6 DEF Next

\* A delivery stores its event, and what the limit costs is told.
LEMMA RecordStores ==
    ASSUME Base, NEW g \in Slots, Record(g) \/ RecordFails(g)
    PROVE  /\ trigger'.exists = trigger.exists
           /\ dropped \subseteq dropped' /\ (trigger.missed => trigger'.missed)
           /\ trigger.exists /\ dropped' # dropped => trigger'.missed
           /\ run'.pc = run.pc /\ run'.row = run.row
           /\ \A e \in Events :
                 /\ stored[e] = "handled" => stored'[e] = "handled"
                 /\ stored[e] # "none" \/ e = EventOf(g) => stored'[e] # "none" \/ e \in dropped'
                 /\ stored'[e] = "pending" => stored[e] = "pending" \/ e = EventOf(g)
<1>0. StoreTypes /\ RunTypes /\ HistTypes /\ EventOf(g) \in Events
  BY TypesAre, EventInHand DEF Base, Record, RecordFails
<1>1. PICK gone \in SUBSET Events, told \in BOOLEAN :
         /\ Drop(EventOf(g), gone)
         /\ \A x \in gone : Added(EventOf(g))[x] = "pending"
         /\ gone # {} => told
         /\ trigger' = [trigger EXCEPT !.missed = @ \/ (trigger.exists /\ told)]
  BY RecordDrops
<1>2. /\ dropped' = dropped \cup gone
      /\ run'.pc = run.pc /\ run'.row = run.row
      /\ \A x \in Events : stored'[x] = IF x \in gone THEN "none" ELSE Added(EventOf(g))[x]
  BY <1>0, <1>1, DropIs
<1>3. \A e \in Events : Added(EventOf(g))[e] = IF e = EventOf(g) /\ ~HasRow(EventOf(g)) THEN "pending"
                                              ELSE stored[e]
  BY <1>0, AddedIs
<1>4. ASSUME NEW e \in Events
      PROVE  /\ stored[e] = "handled" => stored'[e] = "handled"
             /\ stored[e] # "none" \/ e = EventOf(g) => stored'[e] # "none" \/ e \in dropped'
             /\ stored'[e] = "pending" => stored[e] = "pending" \/ e = EventOf(g)
  <2>1. stored'[e] = IF e \in gone THEN "none" ELSE Added(EventOf(g))[e]
    BY <1>2
  <2>2. CASE e \in gone
    BY <1>1, <1>2, <1>3, <2>1, <2>2 DEF HasRow
  <2>3. CASE e \notin gone
    BY <1>3, <2>1, <2>3 DEF HasRow
  <2>. QED
    BY <2>2, <2>3
<1>5. trigger'.exists = trigger.exists /\ trigger'.missed = (trigger.missed \/ (trigger.exists /\ told))
  BY <1>0, <1>1 DEF StoreTypes, Triggers
<1>6. dropped \subseteq dropped' /\ (dropped' # dropped => told)
  BY <1>1, <1>2
<1>. QED
  BY <1>2, <1>4, <1>5, <1>6

\* What is pruned was handled, and enough of that stays.
StaysHandled(e) == stored'[e] = "handled" \/ (stored'[e] = "pruned" /\ Cardinality(Handled') >= KeepHandled)

LEMMA RowsWrittenKeep ==
    ASSUME StoreTypes, RowsWritten
    PROVE  \A e \in Events :
              /\ stored[e] = "handled" => StaysHandled(e)
              /\ stored[e] # "none" => stored'[e] # "none"
              /\ stored'[e] = "pending" => stored[e] = "pending"
<1>1. PICK part \in SUBSET Events : \E gone \in PrunedPartly(Consumed(part)) \cup {{}} :
         stored' = Pruned(Consumed(part), gone)
  BY DEF RowsWritten
<1>2. PICK gone \in PrunedPartly(Consumed(part)) \cup {{}} : stored' = Pruned(Consumed(part), gone)
  BY <1>1
<1>. DEFINE rows == Consumed(part)
<1>3. /\ rows \in [Events -> RowStates]
      /\ \A x \in Events : rows[x] = IF x \in part THEN "handled" ELSE stored[x]
  BY ConsumedIs
<1>. HIDE DEF rows
<1>4. gone \in PrunedPartly(rows) \cup {{}} /\ stored' = Pruned(rows, gone)
  BY <1>2 DEF rows
<1>5. \A x \in Events :
         /\ x \in gone => rows[x] = "handled"
         /\ stored'[x] = IF x \in gone THEN "pruned" ELSE rows[x]
  <2>1. \A x \in Events :
           /\ x \in gone => rows[x] = "handled"
           /\ Pruned(rows, gone)[x] = IF x \in gone THEN "pruned" ELSE rows[x]
    <3>1. rows \in [Events -> RowStates] /\ gone \in PrunedPartly(rows) \cup {{}}
      BY <1>3, <1>4
    <3>. QED
      BY <3>1, PrunedIs, Zenon
  <2>. QED
    BY <1>4, <2>1
<1>6. gone # {} => Cardinality({x \in Events : stored'[x] = "handled"}) >= KeepHandled
  BY <1>3, <1>4, PrunedIs
<1>7. gone # {} => Cardinality(Handled') >= KeepHandled
  BY <1>6 DEF Handled
<1>8. ASSUME NEW e \in Events
      PROVE  /\ stored[e] = "handled" => StaysHandled(e)
             /\ stored[e] # "none" => stored'[e] # "none"
             /\ stored'[e] = "pending" => stored[e] = "pending"
  <2>1. CASE e \in gone
    BY <1>5, <1>7, <2>1 DEF StaysHandled
  <2>2. CASE e \notin gone
    <3>1. stored'[e] = IF e \in part THEN "handled" ELSE stored[e]
      BY <1>3, <1>5, <2>2
    <3>. QED
      BY <3>1 DEF StaysHandled
  <2>. QED
    BY <2>1, <2>2
<1>. QED
  BY <1>8

\* What was handled stays so or is pruned, and what was stored is stored or dropped.
LEMMA StoreKeeps ==
    ASSUME Base, [Next]_vars, trigger'.exists
    PROVE  /\ trigger.exists
           /\ dropped \subseteq dropped' /\ (trigger.missed => trigger'.missed)
           /\ dropped' # dropped => trigger'.missed
           /\ \A e \in Events :
                 /\ stored[e] = "handled" => StaysHandled(e)
                 /\ stored[e] # "none" => stored'[e] # "none" \/ e \in dropped'
<1>0. StoreTypes /\ RunTypes
  BY TypesAre DEF Base
<1>1. ASSUME NEW g \in Slots, Record(g) \/ RecordFails(g)
      PROVE  /\ trigger.exists
             /\ dropped \subseteq dropped' /\ (trigger.missed => trigger'.missed)
             /\ dropped' # dropped => trigger'.missed
             /\ \A e \in Events :
                   /\ stored[e] = "handled" => StaysHandled(e)
                   /\ stored[e] # "none" => stored'[e] # "none" \/ e \in dropped'
  BY <1>1, RecordStores DEF StaysHandled
<1>2. CASE AgentFails \/ Consume \/ ConsumeFails
  <2>1. \A e \in Events :
           /\ stored[e] = "handled" => StaysHandled(e)
           /\ stored[e] # "none" => stored'[e] # "none"
    BY <1>0, <1>2, RunWrites, RowsWrittenKeep
  <2>2. UNCHANGED <<trigger, dropped>>
    BY <1>2 DEF AgentFails, Consume, ConsumeFails, histVars
  <2>. QED
    BY <2>1, <2>2
<1>3. CASE Remove
  <2>1. ~trigger'.exists
    BY <1>0, <1>3 DEF Remove, StoreTypes, Triggers
  <2>. QED
    BY <2>1
<1>4. CASE StoreStays
  BY <1>4 DEF StoreStays, StaysHandled
<1>. QED
  BY <1>1, <1>2, <1>3, <1>4, StoreStaysElsewhere

\* An event that a run has consumed is never handed to another run while its row is kept:
\* record_events knows it, and the limits on the queue do not touch it; prune lets only
\* go of what is past its limit, a failed prune included.
THEOREM ConsumedStaysHolds == Spec => ConsumedStays
<1>1. ASSUME Base, [Next]_vars
      PROVE  [\A e \in Events : stored[e] = "handled" /\ trigger'.exists =>
                 \/ stored'[e] = "handled"
                 \/ stored'[e] = "pruned" /\ Cardinality(Handled') >= KeepHandled]_vars
  BY <1>1, StoreKeeps DEF StaysHandled
<1>. QED
  BY <1>1, AlwaysBase, PTL DEF Spec, ConsumedStays

-----------------------------------------------------------------------------
(***************************************************************************)
(* No gap behind the position.                                             *)
(***************************************************************************)
\* Kept, of the state a step leads to.
KeptNext(k, from, to) ==
    \A e \in Events : e[1] = k /\ e[2] \in from + 1..to => stored'[e] # "none" \/ e \in dropped'

LEMMA KeptStays ==
    ASSUME Base, [Next]_vars, trigger'.exists
    PROVE  \A k, from, to : Kept(k, from, to) => KeptNext(k, from, to)
BY StoreKeeps DEF Kept, KeptNext

LEMMA KeptEmpty ==
    ASSUME NEW k, NEW from \in Nat, NEW to \in Nat, to <= from
    PROVE  KeptNext(k, from, to)
BY DEF KeptNext

\* What the trigger's position may become.
LEMMA CursorIs ==
    ASSUME Base, [Next]_vars, trigger'.exists
    PROVE  \/ trigger'.cursor \in {trigger.cursor, NoCursor}
           \/ \E g \in Slots : sub[g].pc = "move" /\ trigger'.cursor = Reached(g)
<1>0. StoreTypes
  BY TypesAre DEF Base
<1>1. ASSUME NEW g \in Slots, Sink(g)
      PROVE  \/ trigger'.cursor = trigger.cursor
             \/ sub[g].pc = "move" /\ trigger'.cursor = Reached(g)
  BY <1>0, <1>1 DEF Sink, Deliver, Record, Move, Schedule, DeliveryFails, RecordFails, Terminate, SaveEnd,
     StoreTypes, Triggers, storeVars
<1>2. CASE Supervisor
  BY <1>0, <1>2 DEF Supervisor, LoadPending, LoadPendingFails, ListRuns, ListWaits, List, ListGone,
     ReconcileBlocked,
     ServerBlocks, ReconcileSettled, Subscribe, SubscribeFails, Insert, SetState,
     StoreTypes, Triggers, storeVars
<1>3. CASE Run
  BY <1>0, <1>3 DEF Run, RunRefused, RunFindsOff, RunPauses, RunTakes, RunFindsNone, RunForgets,
     AgentFails, RunUnsaved, AgentSucceeds, Consume, ConsumeFails, RunLooksAgain, RunLooksFails, Pause,
     PauseFails, Unhook, PauseSaved,
     StoreTypes, Triggers, storeVars
<1>4. CASE Owner
  BY <1>0, <1>4 DEF Owner, Change, ChangeKey, Enable, Disable, Stop, Delete, Remove, Edited,
     StoreTypes, Triggers, storeVars
<1>5. CASE Crash \/ UNCHANGED vars
  BY <1>5 DEF Crash, storeVars, vars
<1>. QED
  BY <1>1, <1>2, <1>3, <1>4, <1>5 DEF Next

KeptAt(c) == Kept(c.key, c.from, c.pos)
KeptBy(g) == Kept(sub[g].key, sub[g].from, Stored(g))

LEMMA NoGapIs ==
    NoGap <=> (trigger.exists => /\ KeptAt(trigger.cursor) /\ KeptAt(sup.seen.cursor)
                                 /\ \A g \in Slots : KeptBy(g)
                                 /\ dropped # {} => trigger.missed)
BY DEF NoGap, KeptAt, KeptBy

LEMMA NoGapNext ==
    ASSUME trigger'.exists =>
              /\ KeptNext(trigger'.cursor.key, trigger'.cursor.from, trigger'.cursor.pos)
              /\ KeptNext(sup'.seen.cursor.key, sup'.seen.cursor.from, sup'.seen.cursor.pos)
              /\ \A g \in Slots : KeptNext(sub'[g].key, sub'[g].from, Stored(g)')
              /\ dropped' # {} => trigger'.missed
    PROVE  NoGap'
BY DEF NoGap, Kept, KeptNext

LEMMA NoCursorKept == KeptNext(NoCursor.key, NoCursor.from, NoCursor.pos)
BY KeptEmpty DEF NoCursor

LEMMA FreeKept ==
    ASSUME NEW g \in Slots, sub'[g] = Free
    PROVE  KeptNext(sub'[g].key, sub'[g].from, Stored(g)')
<1>1. sub'[g].from = 0 /\ Stored(g)' = 0
  BY DEF Stored, Free
<1>. QED
  BY <1>1, KeptEmpty

\* What is known of a subscription, as far as it goes or less.
LEMMA SameKept ==
    ASSUME Base, [Next]_vars, trigger'.exists, NEW g \in Slots, KeptBy(g),
           sub'[g].key = sub[g].key, sub'[g].from = sub[g].from, Stored(g)' = Stored(g)
    PROVE  KeptNext(sub'[g].key, sub'[g].from, Stored(g)')
<1>1. KeptNext(sub[g].key, sub[g].from, Stored(g))
  BY KeptStays DEF KeptBy
<1>. QED
  BY <1>1

\* A delivery: an event is stored, or dropped and told, before the position is behind it.
LEMMA SinkKept ==
    ASSUME Base, NoOrphanSubscription, trigger'.exists, NEW g \in Slots, KeptBy(g), Sink(g)
    PROVE  KeptNext(sub'[g].key, sub'[g].from, Stored(g)')
<1>0. /\ TypeOK /\ LiveTypes /\ SubsFit /\ TickFits /\ [Next]_vars
      /\ sub[g] \in SubStates /\ sub[g].at \in Nat /\ sub[g].from \in Nat
  BY TypesAre, PositionsAre DEF Base, LiveTypes, SubStates, Next
<1>1. KeptNext(sub[g].key, sub[g].from, Stored(g))
  BY <1>0, StoreKeeps, KeptStays DEF KeptBy
<1>2. CASE Deliver(g)
  <2>1. Current(g)
    <3>1. live.slot = g \/ sup.pc = "insert"
      BY <1>2 DEF Deliver, NoOrphanSubscription
    <3>. QED
      BY <1>0, <3>1 DEF Current, TickFits, NoLive
  <2>2. sub'[g] = [sub[g] EXCEPT !.pc = "record"]
    BY <1>0, <1>2, <2>1 DEF Deliver, LiveTypes
  <2>3. sub[g].pc = "idle"
    BY <1>2 DEF Deliver
  <2>4. sub'[g].key = sub[g].key /\ sub'[g].from = sub[g].from /\ Stored(g)' = Stored(g)
    BY <1>0, <2>2, <2>3 DEF Stored, SubStates
  <2>. QED
    BY <1>1, <2>4
<1>3. CASE Record(g)
  <2>1. sub'[g] = [sub[g] EXCEPT !.pc = "move"] /\ sub[g].pc = "record"
    BY <1>0, <1>3 DEF Record, LiveTypes
  <2>2. /\ sub'[g].key = sub[g].key /\ sub'[g].from = sub[g].from
        /\ Stored(g)' = sub[g].at + 1 /\ Stored(g) = sub[g].at
    BY <1>0, <2>1 DEF Stored, SubStates
  <2>3. stored'[EventOf(g)] # "none" \/ EventOf(g) \in dropped'
    BY <1>0, <1>3, <2>1, RecordStores, EventInHand
  <2>4. ASSUME NEW e \in Events, e[1] = sub[g].key, e[2] \in sub[g].from + 1..sub[g].at + 1
        PROVE  stored'[e] # "none" \/ e \in dropped'
    <3>1. CASE e[2] = sub[g].at + 1
      <4>1. e = EventOf(g)
        BY <2>4, <3>1 DEF Events, EventOf
      <4>. QED
        BY <2>3, <4>1
    <3>2. CASE e[2] # sub[g].at + 1
      <4>1. e[2] \in sub[g].from + 1..sub[g].at
        BY <1>0, <2>4, <3>2, EventsAre
      <4>. QED
        BY <1>1, <2>2, <2>4, <4>1 DEF KeptNext
    <3>. QED
      BY <3>1, <3>2
  <2>. QED
    BY <2>2, <2>4 DEF KeptNext
<1>4. ASSUME NEW at \in Positions, sub' = Settled(g, at), at <= Stored(g)
      PROVE  KeptNext(sub'[g].key, sub'[g].from, Stored(g)')
  <2>1. CASE sub[g].open
    <3>1. sub'[g] = [sub[g] EXCEPT !.pc = "idle", !.at = at]
      BY <1>0, <1>4, <2>1, SettledIs
    <3>2. sub'[g].key = sub[g].key /\ sub'[g].from = sub[g].from /\ Stored(g)' = at
      BY <1>0, <3>1 DEF Stored, SubStates
    <3>3. at \in Nat /\ Stored(g) \in Nat
      BY <1>0, PositionsAre DEF Stored
    <3>4. KeptNext(sub[g].key, sub[g].from, at)
      BY <1>0, <1>1, <1>4, <3>3, EventsAre DEF KeptNext
    <3>. QED
      BY <3>2, <3>4
  <2>2. CASE ~sub[g].open
    BY <1>0, <1>4, <2>2, SettledIs, FreeKept
  <2>. QED
    BY <2>1, <2>2
<1>5. CASE Move(g)
  <2>1. sub[g].pc = "move" /\ trigger.exists
    BY <1>0, <1>5, StoreKeeps DEF Move
  <2>2. sub'[g] = [sub[g] EXCEPT !.pc = "schedule"]
    BY <1>0, <1>5, <2>1 DEF Move, LiveTypes
  <2>3. sub'[g].key = sub[g].key /\ sub'[g].from = sub[g].from /\ Stored(g)' = Stored(g)
    BY <1>0, <2>1, <2>2 DEF Stored, SubStates
  <2>. QED
    BY <1>1, <2>3
<1>6. CASE Schedule(g)
  <2>1. sub[g].at + 1 \in Positions /\ Stored(g) = sub[g].at + 1
    BY <1>0, <1>6, EventInHand DEF Schedule, Stored
  <2>. QED
    BY <1>0, <1>4, <1>6, <2>1 DEF Schedule
<1>7. CASE DeliveryFails(g)
  <2>1. sub[g].at \in Positions /\ sub[g].at <= Stored(g)
    BY <1>0 DEF Stored, SubStates
  <2>. QED
    BY <1>4, <1>7, <2>1 DEF DeliveryFails
<1>10. CASE RecordFails(g)
  <2>1. sub[g].at \in Positions /\ sub[g].at <= Stored(g)
    BY <1>0 DEF Stored, SubStates
  <2>. QED
    BY <1>4, <1>10, <2>1 DEF RecordFails
<1>8. CASE Terminate(g)
  <2>1. \/ sub'[g] = Free
        \/ sub'[g] = [sub[g] EXCEPT !.open = FALSE, !.pc = "ending"] /\ sub[g].pc = "idle"
    BY <1>0, <1>8 DEF Terminate, LiveTypes
  <2>2. CASE sub'[g] = Free
    BY <2>2, FreeKept
  <2>3. CASE sub'[g] # Free
    <3>1. sub'[g].key = sub[g].key /\ sub'[g].from = sub[g].from /\ Stored(g)' = Stored(g)
      BY <1>0, <2>1, <2>3 DEF Stored, SubStates
    <3>. QED
      BY <1>1, <3>1
  <2>. QED
    BY <2>2, <2>3
<1>9. CASE SaveEnd(g)
  <2>1. sub'[g] = Free
    BY <1>0, <1>9 DEF SaveEnd, LiveTypes
  <2>. QED
    BY <2>1, FreeKept
<1>. QED
  BY <1>2, <1>3, <1>5, <1>6, <1>7, <1>8, <1>9, <1>10 DEF Sink

\* What is cancelled keeps its position, or nothing of it.
LEMMA CancelledKept ==
    ASSUME Base, [Next]_vars, trigger'.exists, NEW g \in Slots, KeptBy(g), sub'[g] = Cancelled[g]
    PROVE  KeptNext(sub'[g].key, sub'[g].from, Stored(g)')
<1>0. LiveTypes
  BY TypesAre DEF Base
<1>1. CASE Cancelled[g] = Free
  BY <1>1, FreeKept
<1>2. CASE Cancelled[g] # Free
  <2>1. /\ Cancelled[g].key = sub[g].key /\ Cancelled[g].at = sub[g].at
        /\ Cancelled[g].from = sub[g].from /\ Cancelled[g].pc = sub[g].pc
    BY <1>0, <1>2, CancelledIs
  <2>2. sub'[g].key = sub[g].key /\ sub'[g].from = sub[g].from /\ Stored(g)' = Stored(g)
    BY <2>1 DEF Stored
  <2>. QED
    BY <2>2, SameKept
<1>. QED
  BY <1>1, <1>2

\* Where a tick has the subscription begin.
LEMMA SubscribeKept ==
    ASSUME Base, [Next]_vars, trigger'.exists, KeptAt(sup.seen.cursor), \A g \in Slots : KeptBy(g),
           Subscribe, NEW g \in Slots
    PROVE  KeptNext(sub'[g].key, sub'[g].from, Stored(g)')
<1>0. TypeOK /\ TickFits /\ LiveTypes
  BY TypesAre DEF Base
<1>1. PICK h \in Slots, at \in Positions, from \in Positions :
         /\ sub' = [Cancelled EXCEPT ![h] = [key |-> sup.seen.key, at |-> at, from |-> from,
                                             open |-> TRUE, pc |-> "idle"]]
         /\ \/ from = at
            \/ /\ sup.seen.cursor.key = sup.seen.key
               /\ from = sup.seen.cursor.from /\ at = sup.seen.cursor.pos
  BY <1>0, SubscribeBegins
<1>2. CASE g = h
  <2>1. sub'[g].key = sup.seen.key /\ sub'[g].from = from /\ Stored(g)' = at
    BY <1>0, <1>1, <1>2, CancelledIs DEF Stored
  <2>2. CASE from = at
    BY <2>1, <2>2, KeptEmpty, PositionsAre
  <2>3. CASE /\ sup.seen.cursor.key = sup.seen.key
             /\ from = sup.seen.cursor.from /\ at = sup.seen.cursor.pos
    BY <2>1, <2>3, KeptStays DEF KeptAt
  <2>. QED
    BY <1>1, <2>2, <2>3
<1>3. CASE g # h
  <2>1. sub'[g] = Cancelled[g]
    BY <1>0, <1>1, <1>3, CancelledIs
  <2>. QED
    BY <2>1, CancelledKept
<1>. QED
  BY <1>2, <1>3

LEMMA NextNoGap ==
    ASSUME Base, NoOrphanSubscription, NoGap, [Next]_vars
    PROVE  NoGap'
<1>. SUFFICES ASSUME trigger'.exists
              PROVE  /\ KeptNext(trigger'.cursor.key, trigger'.cursor.from, trigger'.cursor.pos)
                     /\ KeptNext(sup'.seen.cursor.key, sup'.seen.cursor.from, sup'.seen.cursor.pos)
                     /\ \A g \in Slots : KeptNext(sub'[g].key, sub'[g].from, Stored(g)')
                     /\ dropped' # {} => trigger'.missed
  BY NoGapNext
<1>0. /\ TypeOK /\ LiveTypes /\ SubsFit /\ TickFits
      /\ KeptAt(trigger.cursor) /\ KeptAt(sup.seen.cursor) /\ \A g \in Slots : KeptBy(g)
      /\ dropped # {} => trigger.missed
  BY TypesAre, NoGapIs, StoreKeeps DEF Base
<1>1. KeptNext(trigger'.cursor.key, trigger'.cursor.from, trigger'.cursor.pos)
  <2>1. CASE trigger'.cursor = trigger.cursor
    BY <1>0, <2>1, KeptStays DEF KeptAt
  <2>2. CASE trigger'.cursor = NoCursor
    BY <2>2, NoCursorKept
  <2>3. ASSUME NEW g \in Slots, sub[g].pc = "move", trigger'.cursor = Reached(g)
        PROVE  KeptNext(trigger'.cursor.key, trigger'.cursor.from, trigger'.cursor.pos)
    <3>1. KeptNext(sub[g].key, sub[g].from, sub[g].at + 1)
      BY <1>0, <2>3, KeptStays DEF KeptBy, Stored
    <3>. QED
      BY <2>3, <3>1 DEF Reached
  <2>. QED
    BY <2>1, <2>2, <2>3, CursorIs
<1>2. dropped' # {} => trigger'.missed
  BY <1>0, StoreKeeps
<1>3. KeptNext(sup'.seen.cursor.key, sup'.seen.cursor.from, sup'.seen.cursor.pos)
  <2>1. sup'.seen.cursor \in {sup.seen.cursor, NoCursor, trigger.cursor}
    <3>1. CASE TickKeeps
      BY <3>1 DEF TickKeeps, SeenOf
    <3>2. CASE Subscribe
      BY <1>0, <3>2, SubscribeBegins
    <3>3. CASE Insert \/ Crash
      BY <3>3, AsleepType DEF Insert, Crash
    <3>4. CASE UNCHANGED sup
      BY <3>4
    <3>. QED
      BY <1>0, <3>1, <3>2, <3>3, <3>4, DaemonKeeps, SinkKeeps DEF Next, SubsKeep, vars
  <2>. QED
    BY <1>0, <2>1, KeptStays, NoCursorKept DEF KeptAt
<1>4. ASSUME NEW g \in Slots PROVE KeptNext(sub'[g].key, sub'[g].from, Stored(g)')
  <2>1. CASE sub'[g] = sub[g]
    <3>1. Stored(g)' = Stored(g)
      BY <2>1 DEF Stored
    <3>. QED
      BY <1>0, <2>1, <3>1, SameKept
  <2>2. CASE Sink(g)
    BY <1>0, <2>2, SinkKept
  <2>3. CASE sub' = Cancelled
    BY <1>0, <2>3, CancelledKept
  <2>4. CASE Subscribe
    BY <1>0, <2>4, SubscribeKept
  <2>5. CASE Crash
    BY <2>5, FreeKept DEF Crash
  <2>6. CASE Insert
    BY <2>1, <2>6 DEF Insert
  <2>7. ASSUME NEW h \in Slots, Sink(h) PROVE sub'[g] = sub[g] \/ Sink(g)
    BY <1>0, <2>7, SinkKeeps
  <2>8. CASE UNCHANGED vars
    BY <2>1, <2>8 DEF vars
  <2>. QED
    BY <1>0, <2>1, <2>2, <2>3, <2>4, <2>5, <2>6, <2>7, <2>8, DaemonKeeps DEF Next, SubsKeep
<1>. QED
  BY <1>1, <1>2, <1>3, <1>4

\* Between where the subscriptions of a trigger began and where it has come, every event is
\* stored or told to be dropped (receive, record_events, cursor): through replacements,
\* re-deliveries, cancelled deliveries that go on, and crashes.
THEOREM DeliveredIsKeptHolds == Spec => []DeliveredIsKept
<1>1. Init => NoGap
  <2>. SUFFICES ASSUME Init PROVE NoGap
    OBVIOUS
  <2>1. \A e \in Events : e[2] \notin 0 + 1..0
    BY EventsAre
  <2>2. \A g \in Slots : sub[g].from = 0 /\ Stored(g) = 0
    BY DEF Init, Stored, Free
  <2>3. /\ trigger.cursor.from = 0 /\ trigger.cursor.pos = 0
        /\ sup.seen.cursor.from = 0 /\ sup.seen.cursor.pos = 0 /\ dropped = {}
    BY AsleepType DEF Init, NoCursor
  <2>. QED
    BY <2>1, <2>2, <2>3 DEF NoGap, Kept
<1>2. NoGap => DeliveredIsKept
  BY DEF NoGap, Kept, DeliveredIsKept
<1>3. Init => NoOrphanSubscription
  BY DEF Init, Free, NoOrphanSubscription
<1>. QED
  BY <1>1, <1>2, <1>3, NextNoGap, NextNoOrphan, AlwaysBase, PTL DEF Spec

-----------------------------------------------------------------------------
(***************************************************************************)
(* The budget of failures.                                                 *)
(***************************************************************************)
\* The history of runs is written when one begins, when one ends, and by the owner.
RunsStay ==
    /\ UNCHANGED <<runs, attempts>>
    /\ run'.pc = "agent" => run.pc = "agent" /\ run'.row = run.row

RunsCleared == runs' = <<>> /\ attempts' = 0 /\ run'.row = FALSE

LEMMA RunsStayElsewhere ==
    ASSUME Base, [Next]_vars
    PROVE  RunsStay \/ RunsCleared \/ RunTakes \/ AgentFails \/ AgentSucceeds
<1>0. RunTypes /\ NoRun.pc # "agent"
  BY TypesAre DEF Base, NoRun
<1>1. ASSUME NEW g \in Slots, Sink(g) PROVE RunsStay
  <2>1. CASE Record(g) \/ RecordFails(g)
    BY <2>1, RecordStores DEF Record, RecordFails, RunsStay
  <2>2. CASE ~Record(g) /\ ~RecordFails(g)
    BY <1>1, <2>2 DEF Sink, Deliver, Move, Schedule, DeliveryFails, Terminate, SaveEnd,
       RunsStay, storeVars, histVars
  <2>. QED
    BY <2>1, <2>2
<1>2. CASE Supervisor
  BY <1>2 DEF Supervisor, LoadPending, LoadPendingFails, ListRuns, ListWaits, List, Dispatch, ListGone, ReconcileBlocked,
     ServerBlocks, ReconcileSettled, Subscribe, SubscribeFails, Insert, NoRun, RunsStay, storeVars, histVars
<1>3. CASE Run /\ ~RunTakes /\ ~AgentFails /\ ~AgentSucceeds
  <2>1. CASE RunRefused \/ RunFindsOff \/ RunForgets \/ RunLooksAgain \/ RunLooksFails \/ Unhook
    BY <1>0, <2>1 DEF RunRefused, RunFindsOff, RunForgets, RunLooksAgain, RunLooksFails, Unhook, RunEnds,
       RunsStay, storeVars, histVars
  <2>2. CASE RunPauses \/ Pause
    BY <2>2 DEF RunPauses, Pause, PauseSaved, NoRun, RunsStay, histVars
  <2>5. CASE PauseFails
    BY <2>5 DEF PauseFails, NoRun, RunsStay, storeVars
  <2>3. CASE RunFindsNone
    BY <1>0, <2>3 DEF RunFindsNone, RunTypes, RunsStay, storeVars, histVars
  <2>4. CASE RunUnsaved \/ Consume \/ ConsumeFails
    BY <2>4 DEF RunUnsaved, Consume, ConsumeFails, Settle, NoRun, RunsStay, storeVars, histVars
  <2>. QED
    BY <1>3, <2>1, <2>2, <2>3, <2>4, <2>5 DEF Run
<1>4. CASE Owner
  <2>1. CASE Change \/ ChangeKey \/ Enable \/ Disable \/ Remove
    BY <1>0, <2>1 DEF Change, ChangeKey, Enable, Disable, Remove, Edited, RunsCleared, RunTypes
  <2>2. CASE Stop \/ Delete
    BY <2>2 DEF Stop, Delete, RunsStay, storeVars, histVars
  <2>. QED
    BY <1>4, <2>1, <2>2 DEF Owner
<1>5. CASE Crash
  BY <1>0, <1>5 DEF Crash, RunsStay, storeVars, histVars
<1>6. CASE UNCHANGED vars
  BY <1>6 DEF vars, RunsStay
<1>. QED
  BY <1>1, <1>2, <1>3, <1>4, <1>5, <1>6 DEF Next

LEMMA NextBudget == ASSUME Base, BudgetFits, [Next]_vars PROVE BudgetFits'
<1>0. /\ TypeOK /\ StoreTypes /\ RunTypes /\ runs \in Seq(RunStates) /\ Len(runs) \in Nat
      /\ Len(runs) <= KeepRuns /\ attempts \in Nat
  BY TypesAre DEF Base, StoreTypes, HistTypes
<1>1. CASE RunsStay
  BY <1>1 DEF RunsStay, BudgetFits
<1>2. CASE RunsCleared
  <2>1. run'.row = FALSE /\ Len(runs') = 0 /\ attempts' = 0
    BY <1>0, <1>2 DEF RunsCleared, RunTypes
  <2>. QED
    BY <2>1, TriggerAssumption DEF BudgetFits
<1>3. CASE RunTakes
  <2>. DEFINE drop == IF Len(runs) = KeepRuns THEN 1 ELSE 0
  <2>1. /\ runs' = WithRun(runs) /\ attempts' = attempts + 1
        /\ FailuresSince < MaxFailures
    BY <1>0, <1>3, FailuresAre, TriggerAssumption DEF RunTakes, MayRun, OverBudget
  <2>2. attempts <= FailuresSince /\ FailuresSince \in Nat
    BY <1>0, FailuresAre DEF BudgetFits
  <2>3. attempts' <= MaxFailures /\ MaxFailures <= KeepRuns /\ KeepRuns \in Nat
    BY <1>0, <2>1, <2>2, TriggerAssumption
  <2>4. /\ Len(runs') = Len(runs) + 1 - drop /\ Len(runs') \in Nat \ {0}
        /\ runs'[Len(runs')] = "open"
        /\ \A i \in 1..Len(runs) - drop : runs'[i] = runs[i + drop]
    BY <1>0, <2>1, WithRunIs
  <2>5. drop \in {0, 1} /\ (drop = 1 => Len(runs) = KeepRuns)
    OBVIOUS
  <2>. HIDE DEF drop
  <2>6. attempts' <= Len(runs')
    <3>1. CASE drop = 1
      BY <1>0, <2>1, <2>3, <2>4, <2>5, <3>1, TriggerAssumption
    <3>2. CASE drop = 0
      BY <1>0, <2>1, <2>4, <3>2 DEF BudgetFits
    <3>. QED
      BY <2>5, <3>1, <3>2
  <2>7. ASSUME NEW i \in Len(runs') - attempts' + 1..Len(runs') PROVE runs'[i] # "ok"
    <3>1. CASE i = Len(runs')
      BY <2>4, <3>1
    <3>2. CASE i # Len(runs')
      <4>1. i \in 1..Len(runs) - drop /\ i + drop \in Len(runs) - attempts + 1..Len(runs)
        BY <1>0, <2>1, <2>4, <2>5, <2>6, <2>7, <3>2
      <4>. QED
        BY <2>4, <4>1 DEF BudgetFits
    <3>. QED
      BY <3>1, <3>2
  <2>8. runs' # <<>>
    BY <2>4
  <2>. QED
    BY <2>3, <2>4, <2>6, <2>7, <2>8 DEF BudgetFits
<1>4. CASE AgentFails
  <2>1. run'.pc # "agent" /\ attempts' = attempts
    BY <1>4 DEF AgentFails, Settle, NoRun, histVars
  <2>2. /\ Len(runs') = Len(runs)
        /\ \A i \in 1..Len(runs) : runs'[i] = runs[i] \/ runs'[i] = "failed"
    <3>1. "failed" \in RunStates /\ runs' = RowEnded("failed")
      BY <1>4 DEF RunStates, AgentFails
    <3>. QED
      BY <1>0, <3>1, RowEndedType
  <2>3. ASSUME NEW i \in Len(runs') - attempts' + 1..Len(runs') PROVE runs'[i] # "ok"
    <3>1. i \in 1..Len(runs) /\ i \in Len(runs) - attempts + 1..Len(runs)
      BY <1>0, <2>1, <2>2, <2>3 DEF BudgetFits
    <3>. QED
      BY <2>2, <3>1 DEF BudgetFits
  <2>. QED
    BY <2>1, <2>2, <2>3 DEF BudgetFits
<1>5. CASE AgentSucceeds
  <2>1. run'.pc = "consume" /\ attempts' = 0
    BY <1>0, <1>5 DEF AgentSucceeds, RunTypes
  <2>2. Len(runs') \in Nat
    <3>1. "ok" \in RunStates
      BY DEF RunStates
    <3>. QED
      BY <1>0, <1>5, <3>1, RowEndedType DEF AgentSucceeds
  <2>. QED
    BY <2>1, <2>2, TriggerAssumption DEF BudgetFits
<1>. QED
  BY <1>1, <1>2, <1>3, <1>4, <1>5, RunsStayElsewhere

\* Runs that failed, that never ended and that a crash cut short count alike: between two
\* words of the owner no more of them follow one another than the limit
\* (failures_since, start_run, run_batch).
THEOREM RetryBudgetHeld == Spec => []RetryBudgetHolds
<1>1. Init => BudgetFits
  BY TriggerAssumption DEF Init, BudgetFits, NoRun
<1>2. BudgetFits => RetryBudgetHolds
  BY DEF BudgetFits, RetryBudgetHolds
<1>. QED
  BY <1>1, <1>2, NextBudget, AlwaysBase, PTL DEF Spec

-----------------------------------------------------------------------------
(***************************************************************************)
(* No event is forgotten.                                                  *)
(***************************************************************************)
InHand(g) == sub[g].pc \in {"move", "schedule"}

\* A trigger that exists did, and one that is enabled is by its owner, who has a run due.
LEMMA OnStays ==
    ASSUME Base, [Next]_vars, trigger'.exists
    PROVE  /\ trigger.exists
           /\ trigger'.enabled => trigger.enabled \/ sched'.since
<1>0. StoreTypes /\ LiveTypes /\ trigger.exists
  BY TypesAre, StoreKeeps DEF Base
<1>1. ASSUME NEW g \in Slots, Sink(g) PROVE trigger'.enabled = trigger.enabled
  BY <1>0, <1>1 DEF Sink, Deliver, Record, Move, Schedule, DeliveryFails, RecordFails, Terminate, SaveEnd,
     StoreTypes, Triggers, storeVars
<1>2. CASE Supervisor
  BY <1>0, <1>2 DEF Supervisor, LoadPending, LoadPendingFails, ListRuns, ListWaits, List, ListGone,
     ReconcileBlocked,
     ServerBlocks, ReconcileSettled, Subscribe, SubscribeFails, Insert, SetState,
     StoreTypes, Triggers, storeVars
<1>3. CASE Run
  BY <1>0, <1>3 DEF Run, RunRefused, RunFindsOff, RunPauses, RunTakes, RunFindsNone, RunForgets,
     AgentFails, RunUnsaved, AgentSucceeds, Consume, ConsumeFails, RunLooksAgain, RunLooksFails, Pause,
     PauseFails, Unhook, PauseSaved,
     StoreTypes, Triggers, storeVars
<1>4. CASE Owner
  <2>1. CASE Change \/ Enable
    BY <1>0, <2>1 DEF Change, Enable, Probe, LiveTypes
  <2>2. CASE ChangeKey \/ Disable \/ Stop \/ Delete \/ Remove
    BY <1>0, <2>2 DEF ChangeKey, Disable, Stop, Delete, Remove, Edited, StoreTypes, Triggers, storeVars
  <2>. QED
    BY <1>4, <2>1, <2>2 DEF Owner
<1>5. CASE Crash \/ UNCHANGED vars
  BY <1>5 DEF Crash, storeVars, vars
<1>. QED
  BY <1>0, <1>1, <1>2, <1>3, <1>4, <1>5 DEF Next

LEMMA NextRunFits == ASSUME Base, RunFits, [Next]_vars PROVE RunFits'
<1>. SUFFICES ASSUME trigger'.exists
              PROVE  /\ sched'.running <=> run'.pc # "none"
                     /\ run'.pc \in {"slot", "none_waits", "agent", "consume"} => sched'.since
  BY DEF RunFits
<1>0. /\ RunTypes /\ LiveTypes /\ sched \in [since : BOOLEAN, running : BOOLEAN]
      /\ trigger.exists /\ NoRun.pc = "none"
      /\ sched.running <=> run.pc # "none"
      /\ run.pc \in {"slot", "none_waits", "agent", "consume"} => sched.since
  BY TypesAre, StoreKeeps DEF Base, RunFits, LiveTypes, NoRun
<1>1. CASE run'.pc = run.pc /\ sched'.running = sched.running /\ (sched.since => sched'.since)
  BY <1>0, <1>1
<1>2. ASSUME NEW g \in Slots, Sink(g)
      PROVE  run'.pc = run.pc /\ sched'.running = sched.running /\ (sched.since => sched'.since)
  <2>1. CASE Record(g) \/ RecordFails(g)
    BY <2>1, RecordStores DEF Record, RecordFails
  <2>2. CASE ~Record(g) /\ ~RecordFails(g)
    BY <1>0, <1>2, <2>2 DEF Sink, Deliver, Move, Schedule, DeliveryFails, Terminate, SaveEnd
  <2>. QED
    BY <2>1, <2>2
<1>3. CASE Supervisor
  <2>1. CASE ListRuns
    <3>1. run'.pc = "slot" /\ sched'.running /\ sched'.since
      BY <1>0, <2>1 DEF ListRuns, Due, Dispatch, NoRun
    <3>. QED
      BY <3>1
  <2>2. CASE ~ListRuns
    BY <1>0, <1>1, <1>3, <2>2 DEF Supervisor, LoadPending, LoadPendingFails, ListWaits, ListGone, ReconcileBlocked,
       ServerBlocks, ReconcileSettled, Subscribe, SubscribeFails, Insert
  <2>. QED
    BY <2>1, <2>2
<1>4. CASE Run
  <2>1. CASE RunRefused \/ RunFindsOff \/ RunForgets \/ RunLooksAgain \/ RunLooksFails \/ Unhook
    <3>1. run'.pc = "none" /\ ~sched'.running
      BY <1>0, <2>1 DEF RunRefused, RunFindsOff, RunForgets, RunLooksAgain, RunLooksFails, Unhook, RunEnds
    <3>. QED
      BY <3>1
  <2>2. CASE RunPauses \/ Pause \/ PauseFails
    <3>1. run'.pc = "unhook" /\ sched' = sched /\ run.pc # "none"
      BY <2>2 DEF RunPauses, Pause, PauseFails, PauseSaved, NoRun
    <3>. QED
      BY <1>0, <3>1
  <2>3. CASE RunTakes \/ RunFindsNone \/ AgentSucceeds
    <3>1. run'.pc # "none" /\ sched' = sched /\ run.pc \in {"slot", "agent"}
      <4>1. run'.pc \in {"agent", "none_waits", "consume"}
        BY <1>0, <2>3 DEF RunTakes, RunFindsNone, AgentSucceeds, RunTypes
      <4>2. sched' = sched /\ run.pc \in {"slot", "agent"}
        BY <2>3 DEF RunTakes, RunFindsNone, AgentSucceeds, MayRun
      <4>. QED
        BY <4>1, <4>2
    <3>. QED
      BY <1>0, <3>1
  <2>4. CASE AgentFails \/ RunUnsaved \/ Consume \/ ConsumeFails
    <3>1. run'.pc \in {"rest", "pausing"} /\ sched'.running = sched.running /\ run.pc # "none"
      BY <1>0, <2>4 DEF AgentFails, RunUnsaved, Consume, ConsumeFails, Settle, NoRun
    <3>. QED
      BY <1>0, <3>1
  <2>. QED
    BY <1>4, <2>1, <2>2, <2>3, <2>4 DEF Run
<1>5. CASE Owner
  <2>1. run'.pc = run.pc /\ sched'.running = sched.running /\ (sched.since => sched'.since)
    BY <1>0, <1>5 DEF Owner, Change, ChangeKey, Enable, Disable, Stop, Delete, Remove, Edited, Probe, RunTypes
  <2>. QED
    BY <1>0, <2>1
<1>6. CASE Crash
  BY <1>0, <1>6 DEF Crash, Unscheduled
<1>7. CASE UNCHANGED vars
  BY <1>1, <1>7 DEF vars
<1>. QED
  BY <1>1, <1>2, <1>3, <1>4, <1>5, <1>6, <1>7 DEF Next

\* What has been said of the schedule, the tick, the run and the deliveries is said still.
SeenStays ==
    /\ sched.since => sched'.since
    /\ sup.pc = "boot" => sup'.pc = "boot"
    /\ run.pc \in {"rest", "pausing"} => run'.pc \in {"rest", "pausing"}
    /\ \A g \in Slots :
          InHand(g) => sub'[g].pc \in {"move", "schedule"} /\ sub'[g].key = sub[g].key /\ sub'[g].at = sub[g].at

\* Nothing begins to wait, and nothing is unexcused.
WaitingStays == Waiting' \ overlooked' \subseteq Waiting \ overlooked

LEMMA AllSeen ==
    ASSUME trigger'.exists /\ trigger'.enabled => sched'.since \/ Waiting' \subseteq overlooked'
    PROVE  NoneUnseen'
BY DEF NoneUnseen, Seen

LEMMA SeenStill ==
    ASSUME Base, NoneUnseen, [Next]_vars, SeenStays, WaitingStays
    PROVE  NoneUnseen'
<1>. SUFFICES ASSUME trigger'.exists, trigger'.enabled, NEW e \in Waiting' \ overlooked'
              PROVE  Seen(e)'
  BY DEF NoneUnseen
<1>1. CASE sched'.since
  BY <1>1 DEF Seen
<1>2. CASE ~sched'.since
  <2>1. Seen(e)
    BY <1>2, OnStays DEF NoneUnseen, WaitingStays
  <2>2. CASE sched.since \/ sup.pc = "boot" \/ run.pc \in {"rest", "pausing"}
    BY <2>2 DEF Seen, SeenStays
  <2>3. ASSUME NEW g \in Slots, InHand(g), EventOf(g) = e PROVE Seen(e)'
    <3>1. sub'[g].pc \in {"move", "schedule"} /\ sub'[g].key = sub[g].key /\ sub'[g].at = sub[g].at
      BY <2>3 DEF SeenStays
    <3>2. EventOf(g)' = e
      BY <2>3, <3>1 DEF EventOf
    <3>. QED
      BY <3>1, <3>2 DEF Seen
  <2>. QED
    BY <2>1, <2>2, <2>3 DEF Seen, InHand
<1>. QED
  BY <1>1, <1>2

LEMMA SinkSeen ==
    ASSUME Base, NoneUnseen, NEW g \in Slots, Sink(g)
    PROVE  NoneUnseen'
<1>0. /\ TypeOK /\ StoreTypes /\ LiveTypes /\ sub[g] \in SubStates /\ [Next]_vars /\ UNCHANGED <<sup>>
      /\ \A h \in Slots \ {g} : sub'[h] = sub[h]
  BY TypesAre, SinkKeeps DEF Base, LiveTypes, Next
<1>1. CASE Deliver(g) \/ Terminate(g) \/ SaveEnd(g)
  <2>1. ~InHand(g)
    BY <1>1 DEF Deliver, Terminate, SaveEnd, InHand
  <2>2. SeenStays
    <3>1. UNCHANGED <<sched, run>>
      BY <1>1 DEF Deliver, Terminate, SaveEnd
    <3>. QED
      BY <1>0, <2>1, <3>1 DEF SeenStays, InHand
  <2>3. WaitingStays
    BY <1>1 DEF WaitingStays, Waiting, Deliver, Terminate, SaveEnd, storeVars, histVars
  <2>. QED
    BY <1>0, <2>2, <2>3, SeenStill
<1>2. CASE Record(g) \/ RecordFails(g)
  <2>1. sub[g].pc = "record"
    BY <1>2 DEF Record, RecordFails
  <2>2. \/ sub'[g].pc = "move" /\ sub'[g].key = sub[g].key /\ sub'[g].at = sub[g].at
        \/ EventOf(g) \in overlooked'
    <3>1. CASE Record(g)
      <4>1. sub'[g] = [sub[g] EXCEPT !.pc = "move"]
        BY <1>0, <3>1 DEF Record, LiveTypes
      <4>. QED
        BY <1>0, <4>1 DEF SubStates
    <3>2. CASE RecordFails(g)
      BY <3>2 DEF RecordFails
    <3>. QED
      BY <1>2, <3>1, <3>2
  <2>3. UNCHANGED sched /\ run'.pc = run.pc /\ overlooked \subseteq overlooked'
    BY <1>2, RecordStores DEF Record, RecordFails
  <2>4. ASSUME trigger'.exists, trigger'.enabled, NEW e \in Waiting' \ overlooked' PROVE Seen(e)'
    <3>1. e \in Events /\ stored'[e] = "pending"
      BY <2>4 DEF Waiting
    <3>2. CASE e = EventOf(g)
      <4>1. sub'[g].pc = "move" /\ sub'[g].key = sub[g].key /\ sub'[g].at = sub[g].at
        BY <2>2, <2>4, <3>2
      <4>2. EventOf(g)' = e
        BY <3>2, <4>1 DEF EventOf
      <4>. QED
        BY <4>1, <4>2 DEF Seen
    <3>3. CASE e # EventOf(g)
      <4>1. e \in Waiting \ overlooked
        BY <1>2, <2>3, <2>4, <3>1, <3>3, RecordStores DEF Waiting
      <4>2. trigger.exists /\ trigger'.enabled = trigger.enabled
        BY <1>0, <1>2, <2>4, RecordStores DEF Record, RecordFails, StoreTypes, Triggers
      <4>3. Seen(e)
        BY <2>4, <4>1, <4>2 DEF NoneUnseen
      <4>4. CASE sched.since \/ sup.pc = "boot" \/ run.pc \in {"rest", "pausing"}
        BY <1>0, <2>3, <4>4 DEF Seen
      <4>5. ASSUME NEW h \in Slots, InHand(h), EventOf(h) = e PROVE Seen(e)'
        <5>1. sub'[h] = sub[h]
          BY <1>0, <2>1, <4>5 DEF InHand
        <5>2. EventOf(h)' = e
          BY <4>5, <5>1 DEF EventOf
        <5>. QED
          BY <4>5, <5>1, <5>2 DEF Seen, InHand
      <4>. QED
        BY <4>3, <4>4, <4>5 DEF Seen, InHand
    <3>. QED
      BY <3>2, <3>3
  <2>. QED
    BY <2>4 DEF NoneUnseen
<1>3. CASE Move(g)
  <2>1. UNCHANGED <<stored, sched, run, overlooked>> /\ sub[g].pc = "move"
    BY <1>3 DEF Move, histVars
  <2>2. ASSUME trigger'.exists PROVE SeenStays
    <3>1. trigger.exists
      BY <1>0, <2>2, StoreKeeps
    <3>2. sub'[g] = [sub[g] EXCEPT !.pc = "schedule"]
      BY <1>0, <1>3, <3>1 DEF Move, LiveTypes
    <3>3. sub'[g].pc = "schedule" /\ sub'[g].key = sub[g].key /\ sub'[g].at = sub[g].at
      BY <1>0, <3>2 DEF SubStates
    <3>. QED
      BY <1>0, <2>1, <3>3 DEF SeenStays, InHand
  <2>3. WaitingStays
    BY <2>1 DEF WaitingStays, Waiting
  <2>4. CASE trigger'.exists
    BY <1>0, <2>2, <2>3, <2>4, SeenStill
  <2>5. CASE ~trigger'.exists
    BY <2>5 DEF NoneUnseen
  <2>. QED
    BY <2>4, <2>5
<1>4. CASE Schedule(g)
  <2>1. Waiting' = Waiting /\ sched'.since = (sched.since \/ Waiting # {})
    BY <1>0, <1>4 DEF Schedule, Waiting, storeVars, LiveTypes
  <2>. QED
    BY <2>1, AllSeen
<1>5. CASE DeliveryFails(g)
  <2>1. /\ UNCHANGED <<stored, sched, run, trigger>>
        /\ overlooked' = overlooked \cup (IF sub[g].pc = "record" THEN {} ELSE {EventOf(g)})
    BY <1>5 DEF DeliveryFails, storeVars
  <2>2. ASSUME trigger'.exists, trigger'.enabled, NEW e \in Waiting' \ overlooked' PROVE Seen(e)'
    <3>1. e \in Waiting \ overlooked /\ (InHand(g) => e # EventOf(g))
      BY <2>1, <2>2 DEF Waiting, InHand
    <3>2. Seen(e)
      BY <2>1, <2>2, <3>1 DEF NoneUnseen
    <3>3. CASE sched.since \/ sup.pc = "boot" \/ run.pc \in {"rest", "pausing"}
      BY <1>0, <2>1, <3>3 DEF Seen
    <3>4. ASSUME NEW h \in Slots, InHand(h), EventOf(h) = e PROVE Seen(e)'
      <4>1. sub'[h] = sub[h]
        BY <1>0, <3>1, <3>4
      <4>2. EventOf(h)' = e
        BY <3>4, <4>1 DEF EventOf
      <4>. QED
        BY <3>4, <4>1, <4>2 DEF Seen, InHand
    <3>. QED
      BY <3>2, <3>3, <3>4 DEF Seen, InHand
  <2>. QED
    BY <2>2 DEF NoneUnseen
<1>. QED
  BY <1>1, <1>2, <1>3, <1>4, <1>5 DEF Sink

\* What is cancelled in the middle of a delivery is in hand as before.
LEMMA CancelledInHand ==
    ASSUME Base, NEW g \in Slots, InHand(g)
    PROVE  Cancelled[g].pc = sub[g].pc /\ Cancelled[g].key = sub[g].key /\ Cancelled[g].at = sub[g].at
<1>0. LiveTypes
  BY TypesAre DEF Base
<1>. QED
  BY <1>0, CancelledIs DEF InHand, Free

LEMMA SubsInHand ==
    ASSUME Base, Supervisor \/ Run \/ Owner, ~Crash
    PROVE  \A g \in Slots :
              InHand(g) => sub'[g].pc \in {"move", "schedule"} /\ sub'[g].key = sub[g].key /\ sub'[g].at = sub[g].at
<1>0. TypeOK /\ LiveTypes /\ TickFits
  BY TypesAre DEF Base
<1>. SUFFICES ASSUME NEW g \in Slots, InHand(g)
              PROVE  sub'[g].pc \in {"move", "schedule"} /\ sub'[g].key = sub[g].key /\ sub'[g].at = sub[g].at
  OBVIOUS
<1>1. CASE sub'[g] = sub[g]
  BY <1>1 DEF InHand
<1>2. CASE sub'[g] = Cancelled[g]
  BY <1>2, CancelledInHand DEF InHand
<1>3. CASE Subscribe
  <2>1. PICK h \in Slots, at \in Positions, from \in Positions :
           /\ Cancelled[h] = Free
           /\ sub' = [Cancelled EXCEPT ![h] = [key |-> sup.seen.key, at |-> at, from |-> from,
                                               open |-> TRUE, pc |-> "idle"]]
    BY <1>0, <1>3, SubscribeBegins
  <2>2. g # h
    BY <2>1, CancelledInHand DEF InHand, Free
  <2>. QED
    BY <1>0, <1>2, <2>1, <2>2, CancelledIs
<1>. QED
  BY <1>0, <1>1, <1>2, <1>3, DaemonKeeps DEF SubsKeep, Insert

LEMMA NextNoneUnseen == ASSUME Base, RunFits, NoneUnseen, [Next]_vars PROVE NoneUnseen'
<1>0. /\ RunTypes /\ LiveTypes /\ StoreTypes /\ sched \in [since : BOOLEAN, running : BOOLEAN]
      /\ trigger \in Triggers
  BY TypesAre DEF Base, LiveTypes, StoreTypes
<1>1. ASSUME NEW g \in Slots, Sink(g) PROVE NoneUnseen'
  BY <1>1, SinkSeen
<1>2. CASE Crash
  <2>1. sup'.pc = "boot"
    BY <1>2, AsleepType DEF Crash
  <2>. QED
    BY <2>1 DEF NoneUnseen, Seen
<1>a. CASE ~trigger'.exists \/ ~trigger'.enabled
  BY <1>a DEF NoneUnseen
<1>3. CASE Supervisor /\ ~Crash
  <2>1. CASE LoadPending
    <3>1. trigger' = trigger /\ Waiting' = Waiting
      BY <2>1 DEF LoadPending, storeVars, Waiting
    <3>2. sched'.since = (sched.since \/ (trigger.exists /\ Waiting # {}))
      BY <1>0, <2>1 DEF LoadPending
    <3>. QED
      BY <3>1, <3>2, AllSeen
  <2>2. CASE ListGone
    <3>1. ~trigger'.exists
      BY <2>2 DEF ListGone, storeVars
    <3>. QED
      BY <1>a, <3>1
  <2>4. CASE LoadPendingFails
    <3>1. Waiting' = Waiting /\ sched' = sched /\ Unread
      BY <2>4 DEF LoadPendingFails, storeVars, Waiting
    <3>. QED
      BY <3>1, AllSeen DEF Unread
  <2>3. CASE ~LoadPending /\ ~LoadPendingFails /\ ~ListGone
    <3>1. sched.since => sched'.since
      BY <1>0, <1>3, <2>3 DEF Supervisor, ListRuns, ListWaits, Dispatch, ReconcileBlocked,
         ServerBlocks, ReconcileSettled, Subscribe, SubscribeFails, Insert
    <3>2. sup.pc # "boot" /\ WaitingStays
      BY <1>3, <2>3 DEF Supervisor, ListRuns, ListWaits, List, ReconcileBlocked,
         ServerBlocks, ReconcileSettled, Subscribe, SubscribeFails, Insert, storeVars, histVars,
         WaitingStays, Waiting
    <3>3. UNCHANGED run \/ sched'.since
      BY <1>0, <1>3, <2>3 DEF Supervisor, ListRuns, ListWaits, Due, Dispatch, ReconcileBlocked,
         ServerBlocks, ReconcileSettled, Subscribe, SubscribeFails, Insert
    <3>4. CASE sched'.since
      BY <3>4, AllSeen
    <3>5. CASE UNCHANGED run
      BY <1>3, <3>1, <3>2, <3>5, SubsInHand, SeenStill DEF SeenStays
    <3>. QED
      BY <3>3, <3>4, <3>5
  <2>. QED
    BY <1>3, <2>1, <2>2, <2>3, <2>4 DEF Supervisor
<1>4. CASE Run /\ ~Crash /\ trigger'.exists /\ trigger'.enabled
  <2>0. /\ trigger.exists /\ UNCHANGED <<sup>> /\ NoRun.pc = "none"
        /\ run.pc \in {"slot", "none_waits", "agent", "consume"} => sched.since
    BY <1>4, StoreKeeps DEF RunFits, NoRun, Run, RunRefused, RunFindsOff, RunPauses, RunTakes,
       RunFindsNone, RunForgets, AgentFails, RunUnsaved, AgentSucceeds, Consume, ConsumeFails,
       RunLooksAgain, RunLooksFails, Pause, PauseFails, Unhook
  <2>1. CASE RunRefused \/ RunTakes \/ RunFindsNone \/ AgentSucceeds
    <3>1. sched.since
      BY <2>0, <2>1 DEF RunRefused, RunTakes, RunFindsNone, AgentSucceeds, MayRun
    <3>2. sched'.since
      BY <1>0, <2>1, <3>1 DEF RunRefused, RunTakes, RunFindsNone, AgentSucceeds, RunEnds
    <3>. QED
      BY <3>2, AllSeen
  <2>2. CASE RunFindsOff
    <3>1. ~trigger'.enabled
      BY <1>4, <2>0, <2>2 DEF RunFindsOff, storeVars
    <3>. QED
      BY <1>4, <3>1
  <2>3. CASE RunPauses \/ Pause
    <3>1. ~trigger'.enabled
      BY <1>0, <2>0, <2>3 DEF RunPauses, Pause, PauseSaved, Triggers
    <3>. QED
      BY <1>4, <3>1
  <2>4. CASE RunForgets
    <3>1. Waiting' \subseteq overlooked'
      BY <2>4 DEF RunForgets, storeVars, Waiting
    <3>. QED
      BY <3>1, AllSeen
  <2>5. CASE AgentFails \/ RunUnsaved \/ Consume \/ ConsumeFails
    <3>1. run'.pc \in {"rest", "pausing"}
      BY <2>5 DEF AgentFails, RunUnsaved, Consume, ConsumeFails, Settle, NoRun
    <3>. QED
      BY <3>1 DEF NoneUnseen, Seen
  <2>6. CASE RunLooksAgain
    <3>1. Waiting' = Waiting /\ sched'.since = (sched.since \/ Waiting # {})
      BY <1>0, <2>6 DEF RunLooksAgain, storeVars, Waiting
    <3>. QED
      BY <3>1, AllSeen
  <2>8. CASE RunLooksFails \/ PauseFails
    <3>1. Waiting' = Waiting /\ sched'.since = sched.since /\ Unread
      BY <1>0, <2>8 DEF RunLooksFails, PauseFails, RunEnds, storeVars, Waiting
    <3>. QED
      BY <3>1, AllSeen DEF Unread
  <2>7. CASE Unhook
    <3>1. WaitingStays
      BY <2>7 DEF Unhook, storeVars, histVars, WaitingStays, Waiting
    <3>2. sched'.since = sched.since /\ run.pc = "unhook"
      BY <1>0, <2>7 DEF Unhook, RunEnds
    <3>. QED
      BY <1>4, <2>0, <3>1, <3>2, SubsInHand, SeenStill DEF SeenStays
  <2>. QED
    BY <1>4, <2>1, <2>2, <2>3, <2>4, <2>5, <2>6, <2>7, <2>8 DEF Run
<1>5. CASE Owner /\ ~Crash /\ trigger'.exists /\ trigger'.enabled
  <2>1. ~Remove /\ ~Disable
    BY <1>0, <1>5 DEF Remove, Disable, Edited, Triggers
  <2>2. UNCHANGED sup /\ run'.pc = run.pc /\ (sched.since => sched'.since)
    BY <1>0, <1>5, <2>1 DEF Owner, Change, ChangeKey, Enable, Stop, Delete, Edited, Probe, RunTypes
  <2>3. CASE UNCHANGED overlooked
    <3>1. WaitingStays
      BY <1>5, <2>1, <2>3 DEF Owner, Change, ChangeKey, Enable, Stop, Delete, Edited, storeVars, histVars,
         WaitingStays, Waiting
    <3>. QED
      BY <1>5, <2>2, <3>1, SubsInHand, SeenStill DEF SeenStays
  <2>4. CASE Probe
    <3>1. sched'.since
      BY <1>0, <2>4 DEF Probe
    <3>. QED
      BY <3>1, AllSeen
  <2>. QED
    BY <1>5, <2>1, <2>3, <2>4 DEF Owner, Change, ChangeKey, Enable, Stop, Delete, histVars
<1>6. CASE UNCHANGED vars
  <2>1. SeenStays /\ WaitingStays
    BY <1>6 DEF vars, SeenStays, WaitingStays, Waiting, InHand
  <2>. QED
    BY <2>1, SeenStill
<1>. QED
  BY <1>1, <1>2, <1>3, <1>4, <1>5, <1>6, <1>a DEF Next

\* An event behind the position of a trigger that is on has a run due, unless the store
\* failed where a run would have been scheduled or the event came while a run found none
\* (receive, run_batch, schedule, load_pending, reset_failures).
THEOREM NothingForgottenHolds == Spec => []NothingForgotten
<1>1. Init => RunFits /\ NoneUnseen
  <2>. SUFFICES ASSUME Init PROVE RunFits /\ NoneUnseen
    OBVIOUS
  <2>1. run.pc = "none" /\ ~sched.running
    BY DEF Init, NoRun, Unscheduled
  <2>2. sup.pc = "boot"
    BY AsleepType DEF Init
  <2>. QED
    BY <2>1, <2>2 DEF RunFits, NoneUnseen, Seen
<1>2. Base /\ RunFits /\ NoneUnseen => NothingForgotten
  <2>. SUFFICES ASSUME Base, RunFits, NoneUnseen, NEW e \in Forgotten, e \notin overlooked
                PROVE  FALSE
    BY DEF NothingForgotten
  <2>1. /\ e \in Waiting /\ trigger.exists /\ trigger.enabled /\ AtRest
        /\ ~(sched.since /\ ~sched.running)
    BY DEF Forgotten
  <2>2. ~sched.since
    BY <2>1 DEF RunFits, AtRest
  <2>3. Seen(e)
    BY <2>1 DEF NoneUnseen
  <2>. QED
    BY <2>1, <2>2, <2>3 DEF Seen, AtRest
<1>. QED
  BY <1>1, <1>2, NextRunFits, NextNoneUnseen, AlwaysBase, PTL DEF Spec

=============================================================================
