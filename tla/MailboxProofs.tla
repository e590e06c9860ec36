---------------------------- MODULE MailboxProofs ----------------------------
(***************************************************************************)
(* Safety of SessionMailbox for any requests, any capacity of the channel, *)
(* on one thread or on several, with failures or without.                  *)
(*                                                                         *)
(* A message waits in one of four buffers: the channel, the leftovers, the *)
(* batch and the completion runner.  Which of them may hold something      *)
(* depends on where the runner is, and whatever overwrites a buffer in the *)
(* code finds it empty.                                                    *)
(***************************************************************************)
EXTENDS SessionMailbox, SequenceTheorems, WellFoundedInduction, TLAPS

-----------------------------------------------------------------------------
(***************************************************************************)
(* The inductive invariant.                                                *)
(***************************************************************************)
Waiting == Elems(task) \cup Elems(batch) \cup Elems(carry) \cup Elems(queue)

\* The conversation was cancelled or has failed: nothing more is worked on.
Broken == status \in {"Cancelled", "Failed"}

\* The buffers that are empty, by where the runner is.
BuffersFit ==
    /\ run \in {"stopping", "prepare", "failing", "ending", "rescue", "exit"} \/ batch = <<>>
    /\ run \in {"cancelling", "settling", "idle", "wait", "saving", "gone"} => task = <<>>
    /\ run \in {"prepare", "turn", "settling", "idle", "wait", "saving", "gone"} =>
          carry = <<>>
    /\ run = "gone" => queue = <<>> /\ closed

\* A session that ends and is not broken has nothing left.
EndFits ==
    /\ run = "failing" => status = "Failed"
    /\ run = "cancelling" => status = "Cancelled"
    /\ run \in {"ending", "rescue", "exit"} => Broken \/ (task = <<>> /\ batch = <<>>)
    /\ run \in {"rescue", "exit"} => Broken \/ carry = <<>>
    /\ run = "exit" => Broken \/ (queue = <<>> /\ closed)

\* The batch holds one control command at most, its last.
BatchFits ==
    /\ \A i \in 1..Len(task) : ~IsControl(task[i])
    /\ run = "prepare" => \A i \in 1..Len(batch) : ~IsControl(batch[i])
    /\ run = "stopping" =>
          /\ batch # <<>> /\ IsControl(batch[Len(batch)])
          /\ \A i \in 1..Len(batch) - 1 : ~IsControl(batch[i])

Base == TypeOK /\ BuffersFit /\ EndFits /\ BatchFits

\* What has become of the messages.
FatesFit ==
    /\ \A m \in Messages : fate[m] = "waiting" => m \in Waiting
    /\ \A m \in Messages : fate[m] = "lost" => run = "gone" /\ Broken

\* Without a control command there is no signal and nothing it discards.
QuietFits ==
    /\ \A r \in Requests : req[r] = "signal" => IsControl(r)
    /\ (\A r \in Requests : ~IsControl(r)) =>
          /\ run # "stopping" /\ status # "Cancelled" /\ ~ctl
          /\ \A m \in Messages : fate[m] # "dropped"

\* Each message is accepted once, and what waits was accepted.
AcceptedOnce ==
    /\ \A i, j \in 1..Len(accepted) : accepted[i] = accepted[j] => i = j
    /\ \A r \in Requests : req[r] \notin {"signal", "ok"} => r \notin Elems(accepted)
    /\ Waiting \subseteq Elems(accepted)

\* What is yet to become a batch is in the order of acceptance, and behind the control
\* the runner has at hand.
InOrder ==
    /\ \A i, j \in 1..Len(Inputs) : i < j => PositionOf(Inputs[i]) < PositionOf(Inputs[j])
    /\ run = "stopping" =>
          \A m \in Elems(Inputs) : PositionOf(batch[Len(batch)]) < PositionOf(m)

\* A control accepted after a message is not served before it.
ControlsWait ==
    \A m \in Waiting, r \in Requests :
        IsControl(r) /\ r \in Elems(accepted) /\ PositionOf(r) > PositionOf(m) => r \in Waiting


-----------------------------------------------------------------------------
(***************************************************************************)
(* Sequences of messages.                                                  *)
(***************************************************************************)
LEMMA ElemsType ==
    ASSUME NEW s \in Seq(Messages)
    PROVE  /\ Elems(s) \subseteq Messages
           /\ Elems(s) = {s[i] : i \in 1..Len(s)}
BY LenProperties DEF Elems, ToSet

LEMMA ElemsOfConcat ==
    ASSUME NEW s \in Seq(Messages), NEW t \in Seq(Messages)
    PROVE  Elems(s \o t) = Elems(s) \cup Elems(t)
<1>1. Elems(s) = Range(s) /\ Elems(t) = Range(t) /\ Elems(s \o t) = Range(s \o t)
  BY DEF Elems, ToSet, Range
<1>. QED
  BY <1>1, RangeConcatenation

LEMMA ElemsOfAppend ==
    ASSUME NEW s \in Seq(Messages), NEW m \in Messages
    PROVE  Elems(Append(s, m)) = Elems(s) \cup {m}
<1>1. Elems(<<m>>) = {m}
  BY DEF Elems, ToSet
<1>2. <<m>> \in Seq(Messages)
  OBVIOUS
<1>3. Append(s, m) = s \o <<m>>
  BY AppendIsConcat
<1>4. Elems(s \o <<m>>) = Elems(s) \cup Elems(<<m>>)
  BY <1>2, ElemsOfConcat
<1>. QED
  BY <1>1, <1>3, <1>4

LEMMA ElemsOfEmpty == Elems(<<>>) = {}
BY DEF Elems, ToSet

LEMMA ElemsOfTail ==
    ASSUME NEW s \in Seq(Messages), s # <<>>
    PROVE  /\ <<Head(s)>> \in Seq(Messages) /\ Tail(s) \in Seq(Messages)
           /\ <<Head(s)>> \o Tail(s) = s
           /\ Len(Tail(s)) = Len(s) - 1
<1>1. Head(s) = s[1] /\ Head(s) \in Messages /\ Len(s) \in Nat \ {0}
  BY HeadTailProperties, EmptySeq
<1>2. Tail(s) = SubSeq(s, 2, Len(s))
  BY TailIsSubSeq
<1>3. SubSeq(s, 1, Len(s)) = <<s[1]>> \o SubSeq(s, 2, Len(s))
  BY <1>1, SubSeqRecursiveFirst
<1>. QED
  BY <1>1, <1>2, <1>3, SubSeqFull, HeadTailProperties

\* The first of some positions.
LEMMA FirstExists ==
    ASSUME NEW T, T \subseteq Nat, T # {}
    PROVE  \E i \in T : \A j \in T : i <= j
<1>. DEFINE R == {ss \in Nat \X Nat : ss[1] < ss[2]}
<1>1. IsWellFoundedOn(R, Nat)
  BY NatLessThanWellFounded, Zenon DEF OpToRel
<1>2. \E x \in T : \A y \in T : <<y, x>> \notin R
  <2>. HIDE DEF R
  <2>. QED
    BY <1>1, WFMin
<1>3. PICK x \in T : \A y \in T : <<y, x>> \notin R
  BY <1>2
<1>4. \A y \in T : ~(y < x)
  BY <1>3
<1>. QED
  BY <1>4

\* Where the batch is cut: behind the first control command.
LEMMA Cuts ==
    ASSUME NEW s \in Seq(Messages)
    PROVE  /\ CutAt(s) \in 0..Len(s)
           /\ HasControl(s) =>
                 /\ CutAt(s) \in 1..Len(s) /\ IsControl(s[CutAt(s)])
                 /\ \A i \in 1..CutAt(s) - 1 : ~IsControl(s[i])
           /\ ~HasControl(s) => CutAt(s) = Len(s) /\ \A i \in 1..Len(s) : ~IsControl(s[i])
<1>. DEFINE controls == {i \in 1..Len(s) : IsControl(s[i])}
<1>1. Len(s) \in Nat
  BY LenProperties
<1>2. CASE controls = {}
  <2>1. CutAt(s) = Len(s)
    BY <1>2 DEF CutAt
  <2>. QED
    BY <2>1, <1>1, <1>2 DEF HasControl
<1>3. CASE controls # {}
  <2>1. \E i \in controls : \A j \in controls : i <= j
    <3>1. controls \subseteq Nat
      BY <1>1
    <3>. HIDE DEF controls
    <3>. QED
      BY <1>3, <3>1, FirstExists
  <2>2. CutAt(s) = CHOOSE i \in controls : \A j \in controls : i <= j
    BY <1>3 DEF CutAt
  <2>3. CutAt(s) \in controls /\ \A j \in controls : CutAt(s) <= j
    BY <2>1, <2>2
  <2>4. HasControl(s)
    BY <1>3 DEF HasControl
  <2>. QED
    BY <1>1, <2>3, <2>4
<1>. QED
  BY <1>2, <1>3

\* The two parts of a sequence that is cut.
LEMMA Parts ==
    ASSUME NEW s \in Seq(Messages), NEW k \in 0..Len(s)
    PROVE  /\ SubSeq(s, 1, k) \in Seq(Messages) /\ SubSeq(s, k + 1, Len(s)) \in Seq(Messages)
           /\ SubSeq(s, 1, k) \o SubSeq(s, k + 1, Len(s)) = s
           /\ Len(SubSeq(s, 1, k)) = k /\ Len(SubSeq(s, k + 1, Len(s))) = Len(s) - k
           /\ \A i \in 1..k : SubSeq(s, 1, k)[i] = s[i]
           /\ \A i \in 1..Len(s) - k : SubSeq(s, k + 1, Len(s))[i] = s[k + i]
<1>1. Len(s) \in Nat /\ \A i \in 1..Len(s) : s[i] \in Messages
  BY LenProperties, ElementOfSeq
<1>2. /\ SubSeq(s, 1, k) \in Seq(Messages)
      /\ Len(SubSeq(s, 1, k)) = k
      /\ \A i \in 1..k : SubSeq(s, 1, k)[i] = s[i]
  <2>1. \A i \in 1..k : s[i] \in Messages
    BY <1>1
  <2>. QED
    BY <1>1, <2>1, SubSeqProperties
<1>3. /\ SubSeq(s, k + 1, Len(s)) \in Seq(Messages)
      /\ Len(SubSeq(s, k + 1, Len(s))) = Len(s) - k
      /\ \A i \in 1..Len(s) - k : SubSeq(s, k + 1, Len(s))[i] = s[k + i]
  <2>1. \A i \in k + 1..Len(s) : s[i] \in Messages
    BY <1>1
  <2>. DEFINE t == SubSeq(s, k + 1, Len(s))
  <2>2. /\ t \in Seq(Messages)
        /\ Len(t) = IF k + 1 <= Len(s) THEN Len(s) - (k + 1) + 1 ELSE 0
        /\ \A i \in 1..Len(s) - (k + 1) + 1 : t[i] = s[k + 1 + i - 1]
    BY <1>1, <2>1, SubSeqProperties
  <2>. QED
    BY <1>1, <2>2
<1>4. SubSeq(s, 1, k) \o SubSeq(s, k + 1, Len(s)) = SubSeq(s, 1, Len(s))
  <2>1. k \in 1 - 1..Len(s) /\ 1 \in 1..Len(s) + 1 /\ Len(s) \in k..Len(s)
    BY <1>1
  <2>. QED
    BY <2>1, ConcatAdjacentSubSeq
<1>. QED
  BY <1>2, <1>3, <1>4, SubSeqFull

-----------------------------------------------------------------------------
(***************************************************************************)
(* The types.                                                              *)
(***************************************************************************)
Statuses == {"Working", "Idle", "Completed", "Cancelled", "Failed"}

LEMMA InputsType ==
    ASSUME TypeOK
    PROVE  /\ Inputs \in Seq(Messages) /\ Len(Inputs) = Len(carry) + Len(queue)
           /\ Elems(Inputs) = Elems(carry) \cup Elems(queue)
BY ConcatProperties, ElemsOfConcat DEF TypeOK, Inputs

LEMMA FatesType ==
    ASSUME TypeOK, NEW ms, NEW f \in Fates, Resolve(ms, f)
    PROVE  fate' \in [Messages -> Fates]
BY DEF TypeOK, Resolve

LEMMA RequestTypes ==
    ASSUME TypeOK, NEW r \in Requests, Request(r)
    PROVE  TypeOK'
<1>1. CASE Join(r)
  BY <1>1 DEF TypeOK, Join, chanVars, histVars, RequestSteps
<1>2. CASE CronSignal(r)
  BY <1>2 DEF TypeOK, CronSignal, chanVars, histVars, RequestSteps
<1>3. CASE Send(r)
  <2>1. r \in Messages
    BY DEF Messages
  <2>2. queue' \in Seq(Messages) /\ Len(queue') = Len(queue) + 1
    BY <1>3, <2>1, AppendProperties DEF TypeOK, Send
  <2>3. accepted' \in Seq(Messages)
    BY <1>3, <2>1, AppendProperties DEF TypeOK, Send
  <2>4. Len(queue') <= Cap
    BY <1>3, <2>2, LenProperties, MailboxAssumption DEF TypeOK, Send, HasRoom
  <2>5. fate' \in [Messages -> Fates]
    BY <1>3, FatesType DEF Send, Fates
  <2>6. req' \in [Requests -> RequestSteps]
    BY <1>3 DEF TypeOK, Send, RequestSteps
  <2>. QED
    BY <1>3, <2>2, <2>3, <2>4, <2>5, <2>6 DEF TypeOK, Send
<1>4. CASE AwaitRoom(r)
  BY <1>4 DEF TypeOK, AwaitRoom, chanVars, histVars, RequestSteps
<1>5. CASE SendFails(r)
  BY <1>5 DEF TypeOK, SendFails, chanVars, histVars, RequestSteps
<1>6. CASE Signal(r)
  BY <1>6 DEF TypeOK, Signal, chanVars, histVars, RequestSteps
<1>. QED
  BY <1>1, <1>2, <1>3, <1>4, <1>5, <1>6 DEF Request

\* The steps of the runner that leave the messages where they are.
Paces ==
    /\ UNCHANGED <<reqVars, chanVars, carry, batch, task, histVars>>
    /\ ctl' \in BOOLEAN /\ run' \in RunnerSteps /\ status' \in Statuses

LEMMA PacesType == ASSUME TypeOK, Paces PROVE TypeOK'
BY DEF TypeOK, Paces, Statuses, reqVars, chanVars, histVars

LEMMA QuietSteps ==
    ASSUME TypeOK,
           \/ Reset \/ CancelSaved \/ TurnInterrupted \/ Settled \/ TurnIdle \/ Rest
           \/ Complete \/ CompleteSaved \/ WaitTimesOut \/ Fail \/ FailureSaved
           \/ CancelFails
    PROVE  Paces
BY DEF TypeOK, Paces, Statuses, RunnerSteps, Reset, CancelSaved, TurnInterrupted, Settled,
       TurnIdle, Rest, Complete, CompleteSaved, WaitTimesOut, Fail, FailureSaved, CancelFails,
       reqVars, chanVars, histVars

LEMMA EmptyType == <<>> \in Seq(Messages) /\ Len(<<>>) = 0
OBVIOUS

LEMMA DrainTypes == ASSUME TypeOK, Drain PROVE TypeOK'
<1>1. batch' \in Seq(Messages) /\ carry' \in Seq(Messages)
  <2>1. CutAt(Inputs) \in 0..Len(Inputs)
    BY InputsType, Cuts
  <2>. QED
    BY <2>1, InputsType, Parts DEF Drain
<1>. QED
  BY <1>1, EmptyType, MailboxAssumption DEF TypeOK, Drain, reqVars, histVars, RunnerSteps

LEMMA StopTaskTypes == ASSUME TypeOK, StopTask PROVE TypeOK'
<1>1. fate' \in [Messages -> Fates]
  BY DEF TypeOK, StopTask, Fates
<1>2. run' \in RunnerSteps /\ status' \in Statuses
  BY DEF StopTask, RunnerSteps, Statuses
<1>. QED
  BY <1>1, <1>2, EmptyType DEF TypeOK, StopTask, Statuses, reqVars, chanVars

LEMMA AttachTypes == ASSUME TypeOK, Attach PROVE TypeOK'
<1>1. task' \in Seq(Messages)
  BY ConcatProperties DEF TypeOK, Attach
<1>2. status' \in Statuses
  BY DEF TypeOK, Attach, Statuses
<1>. QED
  BY <1>1, <1>2, EmptyType DEF TypeOK, Attach, Statuses, RunnerSteps, reqVars, chanVars, histVars

LEMMA RunnerTypes == ASSUME TypeOK, Runner PROVE TypeOK'
<1>1. CASE AbandonBatch
  <2>1. fate' \in [Messages -> Fates]
    BY <1>1, FatesType DEF AbandonBatch, Fates
  <2>. QED
    BY <1>1, <2>1, EmptyType DEF TypeOK, AbandonBatch, RunnerSteps, reqVars, chanVars
<1>2. ASSUME NEW st \in Answers, TurnAnswers(st) PROVE TypeOK'
  <2>1. fate' \in [Messages -> Fates]
    BY <1>2, FatesType DEF TurnAnswers, Fates
  <2>2. st \in {"Working", "Completed", "Failed"}
    BY DEF Answers
  <2>. QED
    BY <1>2, <2>1, <2>2, EmptyType DEF TypeOK, TurnAnswers, RunnerSteps, reqVars, chanVars
<1>3. CASE WaitReceives
  <2>1. carry' \in Seq(Messages) /\ queue' \in Seq(Messages) /\ Len(queue') = Len(queue) - 1
    BY <1>3, ElemsOfTail DEF TypeOK, WaitReceives
  <2>2. Len(queue') <= Cap
    BY <2>1, LenProperties, MailboxAssumption DEF TypeOK
  <2>. QED
    BY <1>3, <2>1, <2>2 DEF TypeOK, WaitReceives, RunnerSteps, reqVars, histVars
<1>4. CASE DrainAndClose
  <2>1. carry' \in Seq(Messages)
    BY <1>4, ConcatProperties DEF TypeOK, DrainAndClose
  <2>2. run' \in RunnerSteps
    BY <1>4 DEF DrainAndClose, RunnerSteps
  <2>. QED
    BY <1>4, <2>1, <2>2, EmptyType, MailboxAssumption DEF TypeOK, DrainAndClose, reqVars, histVars
<1>5. CASE CloseAndRescue
  <2>1. carry' \in Seq(Messages)
    BY <1>5, ConcatProperties DEF TypeOK, CloseAndRescue
  <2>2. run' \in RunnerSteps
    BY <1>5 DEF CloseAndRescue, RunnerSteps
  <2>. QED
    BY <1>5, <2>1, <2>2, EmptyType, MailboxAssumption DEF TypeOK, CloseAndRescue, reqVars, histVars
<1>6. CASE Exit
  <2>1. fate' \in [Messages -> Fates]
    BY <1>6, FatesType DEF Exit, Fates
  <2>. QED
    BY <1>6, <2>1, EmptyType, MailboxAssumption DEF TypeOK, Exit, RunnerSteps, reqVars
<1>. QED
  BY <1>1, <1>2, <1>3, <1>4, <1>5, <1>6, QuietSteps, PacesType, DrainTypes, StopTaskTypes, AttachTypes
     DEF Runner

LEMMA NextTypes == ASSUME TypeOK, [Next]_vars PROVE TypeOK'
<1>1. CASE Failure
  BY <1>1, QuietSteps, PacesType DEF Failure
<1>2. CASE UNCHANGED vars
  BY <1>2 DEF TypeOK, vars
<1>. QED
  BY <1>1, <1>2, RequestTypes, RunnerTypes DEF Next

LEMMA InitTypes == Init => TypeOK
<1>. SUFFICES ASSUME Init PROVE TypeOK
  OBVIOUS
<1>1. Opener \in Messages /\ <<Opener>> \in Seq(Messages)
  BY DEF Messages
<1>2. fate \in [Messages -> Fates]
  BY DEF Init, Fates
<1>3. queue \in Seq(Messages) /\ Len(queue) <= Cap
  BY EmptyType, MailboxAssumption DEF Init
<1>4. carry \in Seq(Messages) /\ batch \in Seq(Messages)
  BY EmptyType DEF Init
<1>5. req \in [Requests -> RequestSteps] /\ run \in RunnerSteps
  BY DEF Init, RequestSteps, RunnerSteps
<1>6. command \in [Requests -> Commands] /\ closed \in BOOLEAN /\ ctl \in BOOLEAN
  BY DEF Init
<1>7. task \in Seq(Messages) /\ accepted \in Seq(Messages)
  BY <1>1 DEF Init
<1>. QED
  BY <1>2, <1>3, <1>4, <1>5, <1>6, <1>7 DEF Init, TypeOK

\* The buffers hold messages, the channel never more than it has room for, and the
\* conversation has a state the store knows (Session, SessionRunner).
THEOREM MailboxTypeCorrect == Spec => []TypeOK
BY InitTypes, NextTypes, PTL DEF Spec

-----------------------------------------------------------------------------
(***************************************************************************)
(* Which buffers are empty.                                                *)
(***************************************************************************)
\* What the batch is made of.
LEMMA DrainCuts ==
    ASSUME TypeOK, Drain
    PROVE  /\ batch' \o carry' = Inputs
           /\ queue' = <<>>
           /\ run' = "prepare" =>
                 carry' = <<>> /\ \A i \in 1..Len(batch') : ~IsControl(batch'[i])
           /\ run' = "stopping" =>
                 /\ batch' # <<>> /\ IsControl(batch'[Len(batch')])
                 /\ \A i \in 1..Len(batch') - 1 : ~IsControl(batch'[i])
           /\ run' \in {"prepare", "stopping"}
<1>. DEFINE k == CutAt(Inputs)
<1>1. /\ Inputs \in Seq(Messages) /\ Len(Inputs) \in Nat
      /\ k \in 0..Len(Inputs)
      /\ batch' = SubSeq(Inputs, 1, k)
      /\ carry' = SubSeq(Inputs, k + 1, Len(Inputs))
      /\ run' = IF HasControl(Inputs) THEN "stopping" ELSE "prepare"
      /\ queue' = <<>>
  BY InputsType, Cuts, LenProperties DEF Drain
<1>2. /\ batch' \o carry' = Inputs /\ Len(batch') = k /\ Len(carry') = Len(Inputs) - k
      /\ batch' \in Seq(Messages) /\ carry' \in Seq(Messages)
      /\ \A i \in 1..k : batch'[i] = Inputs[i]
  BY <1>1, Parts
<1>3. CASE HasControl(Inputs)
  <2>1. k \in 1..Len(Inputs) /\ IsControl(Inputs[k]) /\ \A i \in 1..k - 1 : ~IsControl(Inputs[i])
    BY <1>1, <1>3, Cuts
  <2>. HIDE DEF k
  <2>2. run' = "stopping" /\ queue' = <<>> /\ batch' \o carry' = Inputs
    BY <1>1, <1>2, <1>3
  <2>3. Len(batch') = k /\ k \in 1..k /\ k \in Nat \ {0}
    BY <1>1, <1>2, <2>1
  <2>4. IsControl(batch'[Len(batch')])
    BY <1>2, <2>1, <2>3
  <2>5. \A i \in 1..Len(batch') - 1 : ~IsControl(batch'[i])
    <3>1. ASSUME NEW i \in 1..k - 1 PROVE ~IsControl(batch'[i])
      <4>1. i \in 1..k
        BY <2>3
      <4>. QED
        BY <1>2, <2>1, <4>1
    <3>. QED
      BY <2>3, <3>1
  <2>6. batch' # <<>>
    BY <2>3, EmptyType
  <2>. QED
    BY <2>2, <2>4, <2>5, <2>6
<1>4. CASE ~HasControl(Inputs)
  <2>1. k = Len(Inputs) /\ \A i \in 1..Len(Inputs) : ~IsControl(Inputs[i])
    BY <1>1, <1>4, Cuts
  <2>. HIDE DEF k
  <2>2. carry' = <<>>
    BY <1>1, <1>2, <2>1, EmptySeq
  <2>. QED
    BY <1>1, <1>2, <1>4, <2>1, <2>2
<1>. QED
  BY <1>3, <1>4

\* Nothing of this is about the requests, and the channel takes nothing once it is closed.
LEMMA RequestBase ==
    ASSUME Base, NEW r \in Requests, Request(r)
    PROVE  BuffersFit' /\ EndFits' /\ BatchFits'
<1>1. /\ UNCHANGED <<closed, run, carry, batch, task, status>>
      /\ closed => queue' = queue
      /\ UNCHANGED command
  BY DEF Request, Join, CronSignal, Send, AwaitRoom, SendFails, Signal, reqVars, chanVars, histVars
<1>. QED
  BY <1>1 DEF Base, TypeOK, BuffersFit, EndFits, BatchFits, Broken, IsControl, CommandOf

LEMMA DrainBase == ASSUME Base, Drain PROVE BuffersFit' /\ EndFits' /\ BatchFits'
<1>1. run = "drain" /\ UNCHANGED <<closed, task, status, command>>
  BY DEF Drain, reqVars, histVars
<1>. QED
  BY <1>1, DrainCuts DEF Base, BuffersFit, EndFits, BatchFits, Broken, IsControl, CommandOf

LEMMA PacesBase ==
    ASSUME Base,
           \/ Reset \/ CancelSaved \/ TurnInterrupted \/ Settled \/ TurnIdle \/ Rest
           \/ Complete \/ CompleteSaved \/ WaitTimesOut \/ Fail \/ FailureSaved
           \/ CancelFails
    PROVE  BuffersFit' /\ EndFits' /\ BatchFits'
<1>1. UNCHANGED <<command, queue, closed, carry, batch, task>>
  BY QuietSteps DEF Base, Paces, reqVars, chanVars
<1>2. BatchFits'
  <2>1. run' \notin {"stopping", "prepare"}
    BY DEF Reset, CancelSaved, TurnInterrupted, Settled,
       TurnIdle, Rest, Complete, CompleteSaved, WaitTimesOut, Fail, FailureSaved, CancelFails
  <2>. QED
    BY <1>1, <2>1 DEF Base, BatchFits, IsControl, CommandOf
<1>3. BuffersFit' /\ EndFits'
  BY <1>1 DEF Base, BuffersFit, EndFits, Broken, Reset, CancelSaved, TurnInterrupted, Settled,
       TurnIdle, Rest, Complete, CompleteSaved, WaitTimesOut, Fail, FailureSaved, CancelFails
<1>. QED
  BY <1>2, <1>3

\* The batch joins the work: neither holds a control command.
LEMMA AttachBase == ASSUME Base, Attach PROVE BuffersFit' /\ EndFits' /\ BatchFits'
<1>1. run = "prepare" /\ run' = "turn" /\ task' = task \o batch /\ batch' = <<>>
      /\ UNCHANGED <<queue, closed, carry, command>>
  BY DEF Attach, reqVars, chanVars
<1>2. \A i \in 1..Len(task') : ~IsControl(task'[i])
  <2>1. task \in Seq(Messages) /\ batch \in Seq(Messages)
    BY DEF Base, TypeOK
  <2>2. Len(task) \in Nat /\ Len(batch) \in Nat
    BY <2>1, LenProperties
  <2>3. /\ Len(task') = Len(task) + Len(batch)
        /\ \A i \in 1..Len(task) + Len(batch) :
              task'[i] = IF i <= Len(task) THEN task[i] ELSE batch[i - Len(task)]
    BY <1>1, <2>1, ConcatProperties
  <2>4. /\ \A i \in 1..Len(task) : ~IsControl(task[i])
        /\ \A i \in 1..Len(batch) : ~IsControl(batch[i])
    BY <1>1 DEF Base, BatchFits
  <2>. TAKE i \in 1..Len(task')
  <2>5. CASE i <= Len(task)
    BY <2>2, <2>3, <2>4, <2>5
  <2>6. CASE ~(i <= Len(task))
    <3>1. i - Len(task) \in 1..Len(batch)
      BY <2>2, <2>3, <2>6
    <3>. QED
      BY <2>2, <2>3, <2>4, <2>6, <3>1
  <2>. QED
    BY <2>5, <2>6
<1>. QED
  BY <1>1, <1>2 DEF Base, BuffersFit, EndFits, BatchFits, IsControl, CommandOf

LEMMA RunnerBase == ASSUME Base, Runner PROVE BuffersFit' /\ EndFits' /\ BatchFits'
<1>1. CASE StopTask
  <2>1. /\ task' = <<>> /\ batch' = <<>> /\ UNCHANGED <<closed, queue, carry, command>>
        /\ run = "stopping"
        /\ run' = "reset" \/ (run' = "cancelling" /\ status' = "Cancelled")
    BY <1>1 DEF StopTask, chanVars, reqVars
  <2>. QED
    BY <2>1, EmptyType DEF BuffersFit, EndFits, BatchFits, Broken
<1>2. CASE AbandonBatch
  BY <1>2 DEF Base, BuffersFit, EndFits, BatchFits, AbandonBatch, IsControl, CommandOf,
              reqVars, chanVars
<1>3. ASSUME NEW st \in Answers, TurnAnswers(st) PROVE BuffersFit' /\ EndFits' /\ BatchFits'
  <2>1. /\ run = "turn" /\ run' = "settling" /\ task' = <<>>
        /\ UNCHANGED <<closed, queue, carry, batch, command>>
    BY <1>3 DEF TurnAnswers, chanVars, reqVars
  <2>. QED
    BY <2>1, EmptyType DEF Base, BuffersFit, EndFits, BatchFits
<1>4. CASE WaitReceives
  <2>1. run = "wait" /\ run' = "reset" /\ UNCHANGED <<closed, batch, task, command>>
    BY <1>4 DEF WaitReceives, reqVars
  <2>. QED
    BY <2>1 DEF Base, BuffersFit, EndFits, BatchFits, IsControl, CommandOf
<1>5. CASE DrainAndClose
  <2>1. /\ run = "ending" /\ UNCHANGED <<closed, batch, task, status, command>> /\ queue' = <<>>
        /\ \/ run' = "reset" /\ ~Broken
           \/ run' = "rescue" /\ (Broken \/ carry' = <<>>)
    BY <1>5 DEF DrainAndClose, ShouldContinue, Broken, reqVars
  <2>. QED
    BY <2>1 DEF Base, BuffersFit, EndFits, BatchFits, Broken, IsControl, CommandOf
<1>6. CASE CloseAndRescue
  <2>1. /\ run = "rescue" /\ UNCHANGED <<batch, task, status, command>> /\ queue' = <<>>
        /\ closed'
        /\ \/ run' = "reset" /\ ~Broken
           \/ run' = "exit" /\ (Broken \/ carry' = <<>>)
    BY <1>6 DEF CloseAndRescue, ShouldContinue, Broken, reqVars
  <2>. QED
    BY <2>1 DEF Base, BuffersFit, EndFits, BatchFits, Broken, IsControl, CommandOf
<1>7. CASE Exit
  BY <1>7, EmptyType DEF BuffersFit, EndFits, BatchFits, Exit
<1>. QED
  BY <1>1, <1>2, <1>3, <1>4, <1>5, <1>6, <1>7, PacesBase, DrainBase, AttachBase DEF Runner

LEMMA NextBase == ASSUME Base, [Next]_vars PROVE Base'
<1>1. CASE UNCHANGED vars
  BY <1>1 DEF Base, TypeOK, BuffersFit, EndFits, BatchFits, Broken, IsControl, CommandOf, vars
<1>2. CASE Failure
  BY <1>2, PacesBase, NextTypes DEF Failure, Base, Next
<1>. QED
  BY <1>1, <1>2, NextTypes, RequestBase, RunnerBase DEF Next, Base

LEMMA InitBase == Init => Base
<1>. SUFFICES ASSUME Init PROVE Base
  OBVIOUS
<1>1. Len(task) = 1 /\ task[1] = Opener
  BY DEF Init
<1>. QED
  BY <1>1, InitTypes DEF Init, Base, BuffersFit, EndFits, BatchFits, IsControl, CommandOf, Controls

LEMMA AlwaysBase == Spec => []Base
BY InitBase, NextBase, PTL DEF Spec

-----------------------------------------------------------------------------
(***************************************************************************)
(* The line of messages, whatever buffers they wait in.                    *)
(***************************************************************************)
\* (Concatenation and sequences under other names: what the provers know of their own
\* makes them build ever longer sequences.)
Lines == Seq(Messages)
Cat(s, t) == s \o t

Buffered == Cat(Cat(Cat(task, batch), carry), queue)

LEMMA CatType ==
    ASSUME NEW s \in Lines, NEW t \in Lines
    PROVE  Cat(s, t) \in Lines /\ Elems(Cat(s, t)) = Elems(s) \cup Elems(t)
BY ConcatProperties, ElemsOfConcat DEF Lines, Cat

LEMMA CatAssociative ==
    ASSUME NEW s \in Lines, NEW t \in Lines, NEW u \in Lines
    PROVE  Cat(Cat(s, t), u) = Cat(s, Cat(t, u))
BY ConcatAssociative DEF Lines, Cat

LEMMA CatEmpty ==
    ASSUME NEW s \in Lines
    PROVE  Cat(s, <<>>) = s /\ Cat(<<>>, s) = s
BY ConcatEmptySeq DEF Lines, Cat

LEMMA TypeLines ==
    ASSUME TypeOK
    PROVE  task \in Lines /\ batch \in Lines /\ carry \in Lines /\ queue \in Lines
BY DEF TypeOK, Lines

LEMMA CatFour ==
    ASSUME NEW s \in Lines, NEW t \in Lines, NEW u \in Lines, NEW v \in Lines
    PROVE  /\ Cat(Cat(Cat(s, t), u), v) = Cat(Cat(s, t), Cat(u, v))
           /\ Cat(Cat(Cat(s, t), u), v) \in Lines
           /\ Elems(Cat(Cat(Cat(s, t), u), v)) = Elems(s) \cup Elems(t) \cup Elems(u) \cup Elems(v)
<1>1. Cat(s, t) \in Lines /\ Elems(Cat(s, t)) = Elems(s) \cup Elems(t)
  BY CatType
<1>2. Cat(Cat(s, t), u) \in Lines /\ Elems(Cat(Cat(s, t), u)) = Elems(Cat(s, t)) \cup Elems(u)
  BY <1>1, CatType
<1>3. /\ Cat(Cat(Cat(s, t), u), v) \in Lines
      /\ Elems(Cat(Cat(Cat(s, t), u), v)) = Elems(Cat(Cat(s, t), u)) \cup Elems(v)
  BY <1>2, CatType
<1>4. Cat(Cat(Cat(s, t), u), v) = Cat(Cat(s, t), Cat(u, v))
  BY <1>1, CatAssociative
<1>. QED
  BY <1>1, <1>2, <1>3, <1>4

LEMMA BufferedType ==
    ASSUME TypeOK
    PROVE  /\ Buffered \in Lines /\ Elems(Buffered) = Waiting
           /\ Buffered = Cat(Cat(task, batch), Cat(carry, queue))
BY TypeLines, CatFour DEF Buffered, Waiting

\* The buffers change, the line does not.
Shifts == Drain \/ Attach \/ WaitReceives \/ DrainAndClose \/ CloseAndRescue

LEMMA ShiftsKeepTheLine ==
    ASSUME Base, Shifts
    PROVE  Buffered' = Buffered /\ Waiting' = Waiting
<1>1. /\ task \in Lines /\ batch \in Lines /\ carry \in Lines /\ queue \in Lines
      /\ TypeOK /\ TypeOK'
  BY NextTypes, TypeLines DEF Base, Next, Runner, Shifts
<1>2. task' \in Lines /\ batch' \in Lines /\ carry' \in Lines /\ queue' \in Lines
  BY <1>1 DEF TypeOK, Lines
<1>3. Buffered = Cat(Cat(task, batch), Cat(carry, queue)) /\ Elems(Buffered) = Waiting
  BY <1>1, BufferedType
<1>4. /\ Buffered' = Cat(Cat(task', batch'), Cat(carry', queue'))
      /\ Waiting' = Elems(Cat(Cat(Cat(task', batch'), carry'), queue'))
  <2>1. Buffered' = Cat(Cat(Cat(task', batch'), carry'), queue')
    BY DEF Buffered
  <2>2. Waiting' = Elems(task') \cup Elems(batch') \cup Elems(carry') \cup Elems(queue')
    BY DEF Waiting
  <2>3. /\ Cat(Cat(Cat(task', batch'), carry'), queue') = Cat(Cat(task', batch'), Cat(carry', queue'))
        /\ Elems(Cat(Cat(Cat(task', batch'), carry'), queue'))
              = Elems(task') \cup Elems(batch') \cup Elems(carry') \cup Elems(queue')
    BY <1>2, CatFour
  <2>. QED
    BY <2>1, <2>2, <2>3
<1>5. ASSUME Drain PROVE Buffered' = Buffered
  <2>1. batch = <<>> /\ task' = task /\ queue' = <<>> /\ Cat(batch', carry') = Cat(carry, queue)
    BY <1>5, DrainCuts DEF Base, BuffersFit, Drain, Inputs, Cat
  <2>2. Cat(Cat(task, batch'), carry') = Cat(task, Cat(batch', carry'))
    BY <1>1, <1>2, CatAssociative
  <2>3. Cat(carry', <<>>) = carry' /\ Cat(task, <<>>) = task
    BY <1>1, <1>2, CatEmpty
  <2>. QED
    BY <1>3, <1>4, <2>1, <2>2, <2>3
<1>6. ASSUME Attach PROVE Buffered' = Buffered
  <2>1. task' = Cat(task, batch) /\ batch' = <<>> /\ UNCHANGED <<carry, queue>>
    BY <1>6 DEF Attach, chanVars, Cat
  <2>2. Cat(task', <<>>) = task'
    BY <1>2, CatEmpty
  <2>. QED
    BY <1>3, <1>4, <2>1, <2>2
<1>7. ASSUME WaitReceives PROVE Buffered' = Buffered
  <2>1. /\ carry = <<>> /\ queue # <<>> /\ carry' = <<Head(queue)>> /\ queue' = Tail(queue)
        /\ UNCHANGED <<task, batch>>
    BY <1>7 DEF Base, BuffersFit, WaitReceives
  <2>2. Cat(carry', queue') = queue
    BY <1>1, <2>1, ElemsOfTail DEF Lines, Cat
  <2>3. Cat(<<>>, queue) = queue
    BY <1>1, CatEmpty
  <2>. QED
    BY <1>3, <1>4, <2>1, <2>2, <2>3
<1>8. ASSUME DrainAndClose \/ CloseAndRescue PROVE Buffered' = Buffered
  <2>1. carry' = Cat(carry, queue) /\ queue' = <<>> /\ UNCHANGED <<task, batch>>
    BY <1>8 DEF DrainAndClose, CloseAndRescue, Cat
  <2>2. Cat(Cat(carry, queue), <<>>) = Cat(carry, queue)
    BY <1>1, CatType, CatEmpty
  <2>. QED
    BY <1>3, <1>4, <2>1, <2>2
<1>9. Buffered' = Buffered
  BY <1>5, <1>6, <1>7, <1>8 DEF Shifts
<1>. QED
  BY <1>3, <1>4, <1>9 DEF Buffered

\* The other steps, by what they do to the line.
Stays ==
    \/ Reset \/ CancelSaved \/ TurnInterrupted \/ Settled \/ TurnIdle \/ Rest
    \/ Complete \/ CompleteSaved \/ WaitTimesOut \/ Fail \/ FailureSaved
    \/ CancelFails

LEMMA RunnerSplits ==
    ASSUME Runner \/ Failure
    PROVE  \/ Shifts \/ Stays \/ StopTask \/ AbandonBatch \/ Exit
           \/ \E st \in Answers : TurnAnswers(st)
BY DEF Runner, Failure, Shifts, Stays

\* No step of the runner begins in a session that is over.
LEMMA NotOver == ASSUME Runner \/ Failure PROVE run # "gone"
<1>1. ASSUME Shifts PROVE run # "gone"
  BY <1>1 DEF Shifts, Drain, Attach, WaitReceives, DrainAndClose, CloseAndRescue
<1>2. ASSUME Stays PROVE run # "gone"
  BY <1>2 DEF Stays, Reset, CancelSaved, TurnInterrupted, Settled, TurnIdle, Rest, Complete,
              CompleteSaved, WaitTimesOut, Fail, FailureSaved, CancelFails
<1>3. ASSUME StopTask \/ AbandonBatch \/ Exit PROVE run # "gone"
  BY <1>3 DEF StopTask, AbandonBatch, Exit
<1>4. ASSUME NEW st \in Answers, TurnAnswers(st) PROVE run # "gone"
  BY <1>4 DEF TurnAnswers
<1>. QED
  BY <1>1, <1>2, <1>3, <1>4, RunnerSplits

-----------------------------------------------------------------------------
(***************************************************************************)
(* What becomes of the messages.                                           *)
(***************************************************************************)
\* A request changes what waits, and what is accepted, only by sending.
LEMMA RequestAccepts ==
    ASSUME Base, NEW r \in Requests, Request(r)
    PROVE  /\ UNCHANGED <<command, closed, run, carry, batch, task, status>>
           /\ \/ /\ UNCHANGED <<queue, accepted, fate>> /\ Waiting' = Waiting
                 /\ \A q \in Requests \ {r} : req'[q] = req[q]
                 /\ ~Send(r)
              \/ Send(r)
<1>1. UNCHANGED <<command, closed, run, carry, batch, task, status>>
  BY DEF Request, Join, CronSignal, Send, AwaitRoom, SendFails, Signal, reqVars, chanVars, histVars
<1>2. CASE Send(r)
  BY <1>1, <1>2
<1>3. CASE ~Send(r)
  <2>1. UNCHANGED <<queue, accepted, fate>> /\ \A q \in Requests \ {r} : req'[q] = req[q]
    BY <1>3 DEF Request, Join, CronSignal, AwaitRoom, SendFails, Signal, reqVars, chanVars,
                histVars, Base, TypeOK
  <2>. QED
    BY <1>1, <1>3, <2>1 DEF Waiting
<1>. QED
  BY <1>2, <1>3

LEMMA SendAccepts ==
    ASSUME Base, NEW r \in Requests, Send(r)
    PROVE  /\ r \in Messages /\ ~closed
           /\ Elems(queue') = Elems(queue) \cup {r} /\ Waiting' = Waiting \cup {r}
           /\ accepted' = Append(accepted, r)
           /\ fate' = [m \in Messages |-> IF m = r THEN "waiting" ELSE fate[m]]
           /\ req[r] \in {"sending", "send_now"}
           /\ req'[r] = (IF RaisesSignal(r) THEN "signal" ELSE "ok")
           /\ \A q \in Requests \ {r} : req'[q] = req[q]
           /\ UNCHANGED ctl
<1>1. r \in Messages
  BY DEF Messages
<1>2. Elems(queue') = Elems(queue) \cup {r}
  BY <1>1, ElemsOfAppend DEF Base, TypeOK, Send
<1>3. Waiting' = Waiting \cup {r}
  BY <1>2 DEF Send, Waiting
<1>. QED
  BY <1>1, <1>2, <1>3 DEF Send, Resolve, Base, TypeOK

LEMMA RequestFates ==
    ASSUME Base, FatesFit, NEW r \in Requests, Request(r)
    PROVE  FatesFit'
<1>1. CASE Send(r)
  <2>1. run # "gone"
    BY <1>1 DEF Base, BuffersFit, Send
  <2>2. run' = run
    BY <1>1 DEF Send
  <2>. QED
    BY <1>1, <2>1, <2>2, SendAccepts DEF FatesFit
<1>2. CASE ~Send(r)
  BY <1>2, RequestAccepts DEF FatesFit, Broken
<1>. QED
  BY <1>1, <1>2

LEMMA StaysKeep ==
    ASSUME Base, Stays
    PROVE  /\ UNCHANGED <<command, req, queue, accepted, fate>> /\ Waiting' = Waiting
           /\ run # "gone" /\ run' \notin {"gone", "prepare", "turn", "stopping"}
<1>1. UNCHANGED <<command, req, queue, carry, batch, task, accepted, fate>>
  BY QuietSteps DEF Stays, Base, Paces, reqVars, chanVars, histVars
<1>2. run # "gone" /\ run' \notin {"gone", "prepare", "turn", "stopping"}
  BY DEF Stays, Reset, CancelSaved, TurnInterrupted, Settled, TurnIdle, Rest, Complete,
         CompleteSaved, WaitTimesOut, Fail, FailureSaved, CancelFails
<1>. QED
  BY <1>1, <1>2 DEF Waiting

LEMMA ShiftsKeep ==
    ASSUME Base, Shifts
    PROVE  /\ UNCHANGED <<command, req, accepted, fate, ctl>> /\ Waiting' = Waiting
           /\ run # "gone" /\ run' # "gone"
<1>1. UNCHANGED <<command, req, accepted, fate, ctl>>
  BY DEF Shifts, Drain, Attach, WaitReceives, DrainAndClose, CloseAndRescue,
         reqVars, chanVars, histVars
<1>2. run # "gone" /\ run' # "gone"
  BY DEF Shifts, Drain, Attach, WaitReceives, DrainAndClose, CloseAndRescue
<1>. QED
  BY <1>1, <1>2, ShiftsKeepTheLine

\* A stop is worked on and discards all that came before it.
LEMMA StopTaskDiscards ==
    ASSUME Base, StopTask
    PROVE  /\ Waiting' = Elems(carry) \cup Elems(queue)
           /\ Waiting = EarlierWork \cup Elems(carry) \cup Elems(queue)
           /\ Last(batch) \in EarlierWork /\ IsControl(Last(batch)) /\ Last(batch) \in Messages
           /\ fate' = [m \in Messages |->
                          IF m = Last(batch) THEN "handled"
                          ELSE IF m \in EarlierWork THEN "dropped" ELSE fate[m]]
           /\ run = "stopping" /\ run' # "gone"
           /\ UNCHANGED <<command, req, queue, carry, accepted, ctl>>
<1>1. UNCHANGED <<command, req, queue, carry, accepted, ctl>> /\ task' = <<>> /\ batch' = <<>>
      /\ run = "stopping" /\ run' # "gone"
  BY DEF StopTask, reqVars, chanVars
<1>2. Waiting' = Elems(carry) \cup Elems(queue)
  BY <1>1, ElemsOfEmpty DEF Waiting
<1>3. Waiting = EarlierWork \cup Elems(carry) \cup Elems(queue)
  BY DEF Waiting, EarlierWork
<1>4. batch # <<>> /\ IsControl(batch[Len(batch)]) /\ batch \in Seq(Messages)
  BY <1>1 DEF Base, BatchFits, TypeOK
<1>5. Len(batch) \in 1..Len(batch)
  BY <1>4, EmptySeq
<1>6. Last(batch) \in Elems(batch) /\ Last(batch) \in Messages /\ IsControl(Last(batch))
  BY <1>4, <1>5, ElemsType DEF Last
<1>7. fate' = [m \in Messages |->
                          IF m = Last(batch) THEN "handled"
                          ELSE IF m \in EarlierWork THEN "dropped" ELSE fate[m]]
  BY DEF StopTask
<1>. QED
  BY <1>1, <1>2, <1>3, <1>6, <1>7 DEF EarlierWork

LEMMA AbandonDiscards ==
    ASSUME Base, AbandonBatch
    PROVE  /\ Waiting' = Elems(task) \cup Elems(carry) \cup Elems(queue)
           /\ fate' = [m \in Messages |-> IF m \in Elems(batch) THEN "dropped" ELSE fate[m]]
           /\ run = "prepare" /\ run' = "reset" /\ ctl
           /\ UNCHANGED <<command, req, queue, task, carry, accepted, ctl, status>>
<1>1. /\ UNCHANGED <<command, req, queue, task, carry, accepted, ctl, status>> /\ batch' = <<>>
      /\ run = "prepare" /\ run' = "reset" /\ ctl
  BY DEF AbandonBatch, reqVars, chanVars
<1>2. Waiting' = Elems(task) \cup Elems(carry) \cup Elems(queue)
  BY <1>1, ElemsOfEmpty DEF Waiting
<1>. QED
  BY <1>1, <1>2 DEF AbandonBatch, Resolve

LEMMA AnswerHandles ==
    ASSUME Base, NEW st \in Answers, TurnAnswers(st)
    PROVE  /\ Waiting' = Elems(batch) \cup Elems(carry) \cup Elems(queue)
           /\ fate' = [m \in Messages |-> IF m \in Elems(task) THEN "handled" ELSE fate[m]]
           /\ run = "turn" /\ run' = "settling"
           /\ UNCHANGED <<command, req, queue, batch, carry, accepted, ctl>>
           /\ status' \in {"Working", "Completed", "Failed"}
<1>1. /\ UNCHANGED <<command, req, queue, batch, carry, accepted, ctl>> /\ task' = <<>>
      /\ run = "turn" /\ run' = "settling" /\ status' \in {"Working", "Completed", "Failed"}
  BY DEF TurnAnswers, reqVars, chanVars, Answers
<1>2. Waiting' = Elems(batch) \cup Elems(carry) \cup Elems(queue)
  BY <1>1, ElemsOfEmpty DEF Waiting
<1>. QED
  BY <1>1, <1>2 DEF TurnAnswers, Resolve

\* Only a session that was cancelled or has failed has anything left to lose.
LEMMA ExitLoses ==
    ASSUME Base, Exit
    PROVE  /\ Waiting' = {}
           /\ fate' = [m \in Messages |-> IF m \in Waiting THEN "lost" ELSE fate[m]]
           /\ Waiting = {} \/ Broken
           /\ run = "exit" /\ run' = "gone"
           /\ UNCHANGED <<command, req, accepted, ctl, status>>
<1>1. /\ UNCHANGED <<command, req, accepted, ctl, status>> /\ run = "exit" /\ run' = "gone"
      /\ task' = <<>> /\ batch' = <<>> /\ carry' = <<>> /\ queue' = <<>>
  BY DEF Exit, reqVars
<1>2. Waiting' = {}
  BY <1>1, ElemsOfEmpty DEF Waiting
<1>3. Waiting = {} \/ Broken
  BY <1>1, ElemsOfEmpty DEF Base, EndFits, Waiting
<1>. QED
  BY <1>1, <1>2, <1>3 DEF Exit, Resolve, Waiting

LEMMA RunnerFates == ASSUME Base, FatesFit, Runner \/ Failure PROVE FatesFit'
<1>0. run # "gone"
  BY NotOver
<1>1. CASE Shifts
  BY <1>0, <1>1, ShiftsKeep DEF FatesFit
<1>2. CASE Stays
  BY <1>0, <1>2, StaysKeep DEF FatesFit
<1>3. CASE StopTask
  BY <1>0, <1>3, StopTaskDiscards DEF FatesFit
<1>4. CASE AbandonBatch
  BY <1>0, <1>4, AbandonDiscards DEF FatesFit, Waiting
<1>5. CASE Exit
  BY <1>0, <1>5, ExitLoses DEF FatesFit, Broken
<1>6. ASSUME NEW st \in Answers, TurnAnswers(st) PROVE FatesFit'
  BY <1>0, <1>6, AnswerHandles DEF FatesFit, Waiting
<1>. QED
  BY <1>1, <1>2, <1>3, <1>4, <1>5, <1>6, RunnerSplits

LEMMA AlwaysFates == Spec => []FatesFit
<1>1. Init => FatesFit
  <2>. SUFFICES ASSUME Init PROVE FatesFit
    OBVIOUS
  <2>1. Opener \in Elems(task)
    BY DEF Init, Elems, ToSet
  <2>. QED
    BY <2>1 DEF Init, FatesFit, Waiting
<1>2. Base /\ FatesFit /\ [Next]_vars => FatesFit'
  <2>1. ASSUME Base, FatesFit, UNCHANGED vars PROVE FatesFit'
    BY <2>1 DEF vars, FatesFit, Waiting, Broken
  <2>. QED
    BY <2>1, RequestFates, RunnerFates DEF Next
<1>. QED
  BY <1>1, <1>2, AlwaysBase, PTL DEF Spec

\* Without controls nothing is ever discarded.
LEMMA RequestQuiet ==
    ASSUME Base, QuietFits, NEW r \in Requests, Request(r)
    PROVE  QuietFits'
<1>1. UNCHANGED <<command, run, status>>
  BY RequestAccepts
<1>2. CASE Send(r)
  <2>1. \A q \in Requests : IsControl(q)' = IsControl(q)
    BY <1>1 DEF IsControl, CommandOf
  <2>2. r # Opener
    BY MailboxAssumption
  <2>3. req'[r] = "signal" => IsControl(r)
    BY <1>2, <2>2, SendAccepts DEF RaisesSignal, IsControl, CommandOf, Controls
  <2>4. \A q \in Requests : req'[q] = "signal" => IsControl(q)
    BY <1>2, <2>3, SendAccepts DEF QuietFits
  <2>5. UNCHANGED ctl /\ \A m \in Messages : fate'[m] = "dropped" => fate[m] = "dropped"
    BY <1>2, SendAccepts
  <2>. QED
    BY <1>1, <2>1, <2>4, <2>5 DEF QuietFits
<1>3. CASE ~Send(r)
  <2>1. UNCHANGED fate /\ \A q \in Requests \ {r} : req'[q] = req[q]
    BY <1>3, RequestAccepts
  <2>2. req'[r] = "signal" => req[r] = "signal"
    BY <1>3 DEF Request, Join, CronSignal, AwaitRoom, SendFails, Signal, Base, TypeOK
  <2>3. ctl' => ctl \/ IsControl(r)
    <3>1. r # Opener
      BY MailboxAssumption
    <3>. QED
      BY <1>3, <3>1 DEF Request, Join, CronSignal, AwaitRoom, SendFails, Signal, QuietFits,
                        IsControl, CommandOf, Controls
  <2>4. \A q \in Requests : IsControl(q)' = IsControl(q)
    BY <1>1 DEF IsControl, CommandOf
  <2>. QED
    BY <1>1, <2>1, <2>2, <2>3, <2>4 DEF QuietFits
<1>. QED
  BY <1>2, <1>3

LEMMA RunnerQuiet ==
    ASSUME Base, QuietFits, Runner \/ Failure
    PROVE  QuietFits'
<1>1. UNCHANGED <<command, req>>
  BY RunnerSplits, ShiftsKeep, StaysKeep, StopTaskDiscards, AbandonDiscards, ExitLoses, AnswerHandles
<1>2. \A q \in Requests : IsControl(q)' = IsControl(q)
  BY <1>1 DEF IsControl, CommandOf
<1>. SUFFICES ASSUME \A q \in Requests : ~IsControl(q)
     PROVE  /\ run' # "stopping" /\ status' # "Cancelled" /\ ~ctl'
            /\ \A m \in Messages : fate'[m] # "dropped"
  BY <1>1, <1>2 DEF QuietFits
<1>3. \A m \in Messages : ~IsControl(m)
  BY DEF Messages, IsControl, CommandOf, Controls
<1>4. /\ run # "stopping" /\ status # "Cancelled" /\ ~ctl
      /\ \A m \in Messages : fate[m] # "dropped"
  BY DEF QuietFits
<1>5. CASE Shifts
  <2>1. ASSUME Drain PROVE run' # "stopping" /\ status' # "Cancelled"
    <3>1. Inputs \in Seq(Messages)
      BY InputsType DEF Base
    <3>2. ~HasControl(Inputs)
      BY <1>3, <3>1, ElementOfSeq DEF HasControl
    <3>. QED
      BY <1>4, <2>1, <3>2 DEF Drain
  <2>2. ASSUME Attach \/ WaitReceives \/ DrainAndClose \/ CloseAndRescue
        PROVE  run' # "stopping" /\ status' # "Cancelled"
    BY <1>4, <2>2 DEF Attach, WaitReceives, DrainAndClose, CloseAndRescue
  <2>. QED
    BY <1>4, <1>5, <2>1, <2>2, ShiftsKeep DEF Shifts
<1>6. CASE Stays
  <2>1. status' # "Cancelled" /\ ~ctl'
    BY <1>4, <1>6 DEF Stays, Reset, CancelSaved, TurnInterrupted, Settled, TurnIdle, Rest, Complete,
         CompleteSaved, WaitTimesOut, Fail, FailureSaved, CancelFails
  <2>. QED
    BY <1>4, <1>6, <2>1, StaysKeep
<1>7. CASE Exit
  BY <1>4, <1>7, ExitLoses
<1>8. ASSUME NEW st \in Answers, TurnAnswers(st) PROVE run' # "stopping" /\ status' # "Cancelled" /\ ~ctl'
            /\ \A m \in Messages : fate'[m] # "dropped"
  BY <1>4, <1>8, AnswerHandles
<1>. QED
  BY <1>4, <1>5, <1>6, <1>7, <1>8, RunnerSplits, StopTaskDiscards, AbandonDiscards

LEMMA AlwaysQuiet == Spec => []QuietFits
<1>1. Init => QuietFits
  BY DEF Init, QuietFits
<1>2. Base /\ QuietFits /\ [Next]_vars => QuietFits'
  <2>1. ASSUME QuietFits, UNCHANGED vars PROVE QuietFits'
    BY <2>1 DEF vars, QuietFits, IsControl, CommandOf
  <2>. QED
    BY <2>1, RequestQuiet, RunnerQuiet DEF Next
<1>. QED
  BY <1>1, <1>2, AlwaysBase, PTL DEF Spec

\* A session that simply completes loses nothing, even what slips in while its channel
\* closes; and without a control command or a failure every message is worked on
\* (spawn_session_runner).
THEOREM NothingIsLostHolds == Spec => []NothingIsLost
<1>1. Base /\ FatesFit /\ QuietFits => NothingIsLost
  <2>. SUFFICES ASSUME Base, FatesFit, QuietFits PROVE NothingIsLost
    OBVIOUS
  <2>1. CompletionLosesNothing
    BY DEF FatesFit, CompletionLosesNothing, Broken
  <2>2. QuietSessionHandlesAll
    <3>. SUFFICES ASSUME run = "gone", status # "Failed", \A r \in Requests : ~IsControl(r),
                         NEW m \in Messages
                  PROVE  fate[m] \in {"none", "handled"}
      BY DEF QuietSessionHandlesAll
    <3>1. status # "Cancelled" /\ fate[m] # "dropped"
      BY DEF QuietFits
    <3>2. fate[m] # "lost"
      BY <3>1 DEF FatesFit, Broken
    <3>3. fate[m] # "waiting"
      BY ElemsOfEmpty DEF FatesFit, Waiting, Base, BuffersFit
    <3>. QED
      BY <3>1, <3>2, <3>3 DEF Base, TypeOK, Fates
  <2>. QED
    BY <2>1, <2>2 DEF NothingIsLost
<1>. QED
  BY <1>1, AlwaysBase, AlwaysFates, AlwaysQuiet, PTL

-----------------------------------------------------------------------------
(***************************************************************************)
(* A control command is heard while the runner works.                      *)
(***************************************************************************)
LEMMA RequestHeard ==
    ASSUME Base, ControlIsHeard, NEW r \in Requests, Request(r)
    PROVE  ControlIsHeard'
<1>1. UNCHANGED <<command, run>>
  BY RequestAccepts
<1>2. r # Opener
  BY MailboxAssumption
<1>. SUFFICES ASSUME run \in {"prepare", "turn"}, NEW q \in Elems(queue'),
                     CommandOf(q) \in {"stop", "cancel"}, req'[q] = "ok"
              PROVE  ctl'
  BY <1>1 DEF ControlIsHeard, CommandOf
<1>3. CASE Send(r)
  <2>1. q # r
    BY <1>2, <1>3, SendAccepts DEF CommandOf, RaisesSignal
  <2>2. q \in Elems(queue)
    BY <1>3, <2>1, SendAccepts
  <2>3. q \in Requests
    BY <2>2, ElemsType DEF Base, TypeOK, Messages, CommandOf
  <2>. QED
    BY <1>3, <2>1, <2>2, <2>3, SendAccepts DEF ControlIsHeard
<1>4. CASE ~Send(r)
  <2>1. q \in Elems(queue)
    BY <1>4, RequestAccepts
  <2>2. q \in Requests
    BY <2>1, ElemsType DEF Base, TypeOK, Messages, CommandOf
  <2>3. CASE q = r /\ req[r] # "ok"
    BY <1>4, <2>3 DEF Request, Join, CronSignal, AwaitRoom, SendFails, Signal, Base, TypeOK
  <2>4. CASE req[q] = "ok"
    <3>1. ctl
      BY <2>1, <2>4 DEF ControlIsHeard
    <3>. QED
      BY <1>4, <3>1 DEF Request, Join, CronSignal, AwaitRoom, SendFails, Signal
  <2>. QED
    BY <1>4, <2>2, <2>3, <2>4, RequestAccepts
<1>. QED
  BY <1>3, <1>4

LEMMA RunnerHeard ==
    ASSUME Base, ControlIsHeard, Runner \/ Failure
    PROVE  ControlIsHeard'
<1>1. CASE Drain
  BY <1>1, ElemsOfEmpty DEF Drain, ControlIsHeard
<1>2. CASE Attach
  BY <1>2 DEF Attach, ControlIsHeard, CommandOf, reqVars, chanVars
<1>3. CASE WaitReceives \/ DrainAndClose \/ CloseAndRescue
  BY <1>3 DEF WaitReceives, DrainAndClose, CloseAndRescue, ControlIsHeard
<1>4. CASE StopTask \/ AbandonBatch \/ Exit
  BY <1>4 DEF StopTask, AbandonBatch, Exit, ControlIsHeard
<1>5. ASSUME NEW st \in Answers, TurnAnswers(st) PROVE ControlIsHeard'
  BY <1>5 DEF TurnAnswers, ControlIsHeard
<1>6. CASE Stays
  BY <1>6, StaysKeep DEF ControlIsHeard
<1>. QED
  BY <1>1, <1>2, <1>3, <1>4, <1>5, <1>6, RunnerSplits DEF Shifts

\* An acknowledged /stop or /cancel that waits in the channel has the signal up while the
\* runner prepares a batch or runs a turn (join_session, drive_session_operation).
THEOREM ControlIsHeardHolds == Spec => []ControlIsHeard
<1>1. Init => ControlIsHeard
  BY DEF Init, ControlIsHeard
<1>2. Base /\ ControlIsHeard /\ [Next]_vars => ControlIsHeard'
  <2>1. ASSUME ControlIsHeard, UNCHANGED vars PROVE ControlIsHeard'
    BY <2>1 DEF vars, ControlIsHeard, CommandOf
  <2>. QED
    BY <2>1, RequestHeard, RunnerHeard DEF Next
<1>. QED
  BY <1>1, <1>2, AlwaysBase, PTL DEF Spec

-----------------------------------------------------------------------------
(***************************************************************************)
(* The order of acceptance.                                                *)
(***************************************************************************)
Place(s, m) == CHOOSE i \in 1..Len(s) : s[i] = m
Distinct(s) == \A i, j \in 1..Len(s) : s[i] = s[j] => i = j

LEMMA PlaceOf ==
    ASSUME NEW s \in Seq(Messages), NEW m \in Elems(s)
    PROVE  Place(s, m) \in 1..Len(s) /\ s[Place(s, m)] = m
<1>1. \E i \in 1..Len(s) : s[i] = m
  BY ElemsType
<1>. QED
  BY <1>1 DEF Place

LEMMA PlaceIs ==
    ASSUME NEW s \in Seq(Messages), Distinct(s), NEW i \in 1..Len(s)
    PROVE  Place(s, s[i]) = i
<1>1. s[i] \in Elems(s)
  BY ElemsType
<1>. QED
  BY <1>1, PlaceOf DEF Distinct

LEMMA PlaceAppended ==
    ASSUME NEW s \in Seq(Messages), Distinct(s), NEW r \in Messages, r \notin Elems(s)
    PROVE  /\ Distinct(Append(s, r))
           /\ \A m \in Elems(s) :
                 Place(Append(s, r), m) = Place(s, m) /\ Place(s, m) \in 1..Len(s)
           /\ Place(Append(s, r), r) = Len(s) + 1 /\ Len(s) \in Nat
<1>. DEFINE t == Append(s, r)
<1>1. /\ t \in Seq(Messages) /\ Len(t) = Len(s) + 1 /\ Len(s) \in Nat
      /\ \A i \in 1..Len(s) : t[i] = s[i]
      /\ t[Len(s) + 1] = r
  BY AppendProperties, LenProperties
<1>2. \A i \in 1..Len(s) : s[i] # r
  BY ElemsType
<1>. HIDE DEF t
<1>3. Distinct(t)
  <2>. SUFFICES ASSUME NEW i \in 1..Len(s) + 1, NEW j \in 1..Len(s) + 1, t[i] = t[j] PROVE i = j
    BY <1>1 DEF Distinct
  <2>1. CASE i \in 1..Len(s) /\ j \in 1..Len(s)
    BY <1>1, <2>1 DEF Distinct
  <2>2. CASE i = Len(s) + 1 /\ j \in 1..Len(s)
    BY <1>1, <1>2, <2>2
  <2>3. CASE j = Len(s) + 1 /\ i \in 1..Len(s)
    BY <1>1, <1>2, <2>3
  <2>. QED
    BY <1>1, <2>1, <2>2, <2>3
<1>4. Place(t, r) = Len(s) + 1
  <2>1. Len(s) + 1 \in 1..Len(t)
    BY <1>1
  <2>. QED
    BY <1>1, <1>3, <2>1, PlaceIs
<1>5. ASSUME NEW m \in Elems(s) PROVE Place(t, m) = Place(s, m) /\ Place(s, m) \in 1..Len(s)
  <2>1. Place(s, m) \in 1..Len(s) /\ s[Place(s, m)] = m
    BY PlaceOf
  <2>2. t[Place(s, m)] = m /\ Place(s, m) \in 1..Len(t)
    BY <1>1, <2>1
  <2>3. Place(t, t[Place(s, m)]) = Place(s, m)
    BY <1>1, <1>3, <2>2, PlaceIs
  <2>. QED
    BY <2>1, <2>2, <2>3
<1>. QED
  BY <1>1, <1>3, <1>4, <1>5 DEF t

LEMMA PositionIsPlace == \A m : PositionOf(m) = Place(accepted, m)
BY DEF PositionOf, Place

\* What a send does to the order.
LEMMA SendOrders ==
    ASSUME Base, AcceptedOnce, NEW r \in Requests, Send(r)
    PROVE  /\ r \notin Elems(accepted) /\ Elems(accepted') = Elems(accepted) \cup {r}
           /\ Distinct(accepted')
           /\ \A m \in Elems(accepted) :
                 /\ PositionOf(m)' = PositionOf(m)
                 /\ PositionOf(m) \in Nat /\ PositionOf(m) < PositionOf(r)'
           /\ PositionOf(r)' \in Nat
<1>1. r \in Messages /\ accepted' = Append(accepted, r) /\ req[r] \in {"sending", "send_now"}
  BY SendAccepts
<1>2. accepted \in Seq(Messages) /\ Distinct(accepted) /\ r \notin Elems(accepted)
  BY <1>1 DEF AcceptedOnce, Base, TypeOK, Distinct
<1>3. Elems(accepted') = Elems(accepted) \cup {r}
  BY <1>1, <1>2, ElemsOfAppend
<1>4. \A m : PositionOf(m)' = Place(accepted', m)
  BY DEF PositionOf, Place
<1>5. /\ Distinct(accepted')
      /\ \A m \in Elems(accepted) :
            Place(accepted', m) = Place(accepted, m) /\ Place(accepted, m) \in 1..Len(accepted)
      /\ Place(accepted', r) = Len(accepted) + 1 /\ Len(accepted) \in Nat
  BY <1>1, <1>2, PlaceAppended
<1>. QED
  BY <1>2, <1>3, <1>4, <1>5, PositionIsPlace

LEMMA RequestOnce ==
    ASSUME Base, AcceptedOnce, NEW r \in Requests, Request(r)
    PROVE  AcceptedOnce'
<1>1. CASE Send(r)
  <2>1. \A q \in Requests : req'[q] \notin {"signal", "ok"} => q \notin Elems(accepted')
    BY <1>1, SendOrders, SendAccepts DEF AcceptedOnce
  <2>2. Waiting' \subseteq Elems(accepted')
    BY <1>1, SendOrders, SendAccepts DEF AcceptedOnce
  <2>3. \A i, j \in 1..Len(accepted') : accepted'[i] = accepted'[j] => i = j
    BY <1>1, SendOrders DEF Distinct
  <2>. QED
    BY <2>1, <2>2, <2>3 DEF AcceptedOnce
<1>2. CASE ~Send(r)
  <2>1. req'[r] \notin {"signal", "ok"} => req[r] \notin {"signal", "ok"}
    BY <1>2 DEF Request, Join, CronSignal, AwaitRoom, SendFails, Signal, Base, TypeOK
  <2>2. UNCHANGED accepted /\ Waiting' = Waiting /\ \A q \in Requests \ {r} : req'[q] = req[q]
    BY <1>2, RequestAccepts
  <2>. QED
    BY <2>1, <2>2 DEF AcceptedOnce
<1>. QED
  BY <1>1, <1>2

\* The runner accepts nothing.
LEMMA RunnerOnlyResolves ==
    ASSUME Base, Runner \/ Failure
    PROVE  UNCHANGED <<command, req, accepted>> /\ Waiting' \subseteq Waiting
<1>1. CASE AbandonBatch
  BY <1>1, AbandonDiscards DEF Waiting
<1>2. ASSUME NEW st \in Answers, TurnAnswers(st)
      PROVE  UNCHANGED <<command, req, accepted>> /\ Waiting' \subseteq Waiting
  BY <1>2, AnswerHandles DEF Waiting
<1>. QED
  BY <1>1, <1>2, RunnerSplits, ShiftsKeep, StaysKeep, StopTaskDiscards, ExitLoses

LEMMA AlwaysOnce == Spec => []AcceptedOnce
<1>1. Init => AcceptedOnce
  <2>. SUFFICES ASSUME Init PROVE AcceptedOnce
    OBVIOUS
  <2>1. Elems(accepted) = {Opener} /\ Elems(task) = {Opener}
    BY DEF Init, Elems, ToSet
  <2>2. Waiting = {Opener}
    BY <2>1, ElemsOfEmpty DEF Init, Waiting
  <2>3. \A i, j \in 1..Len(accepted) : accepted[i] = accepted[j] => i = j
    BY DEF Init
  <2>. QED
    BY <2>1, <2>2, <2>3, MailboxAssumption DEF AcceptedOnce
<1>2. Base /\ AcceptedOnce /\ [Next]_vars => AcceptedOnce'
  <2>1. ASSUME AcceptedOnce, UNCHANGED vars PROVE AcceptedOnce'
    BY <2>1 DEF vars, AcceptedOnce, Waiting
  <2>2. ASSUME Base, AcceptedOnce, Runner \/ Failure PROVE AcceptedOnce'
    BY <2>2, RunnerOnlyResolves DEF AcceptedOnce
  <2>. QED
    BY <2>1, <2>2, RequestOnce DEF Next
<1>. QED
  BY <1>1, <1>2, AlwaysBase, PTL DEF Spec

\* What is yet to become a batch, when a message joins it.
LEMMA InputsAppended ==
    ASSUME Base, NEW r \in Requests, Send(r)
    PROVE  Inputs' = Append(Inputs, r)
<1>1. r \in Messages /\ queue' = Append(queue, r) /\ UNCHANGED carry
  BY DEF Send, Messages
<1>2. queue \in Seq(Messages) /\ carry \in Seq(Messages) /\ <<r>> \in Seq(Messages)
  BY <1>1 DEF Base, TypeOK
<1>3. queue' = queue \o <<r>>
  BY <1>1, <1>2, AppendIsConcat
<1>4. carry \o (queue \o <<r>>) = (carry \o queue) \o <<r>>
  BY <1>2, ConcatAssociative
<1>5. carry \o queue \in Seq(Messages)
  BY <1>2, ConcatProperties
<1>6. (carry \o queue) \o <<r>> = Append(carry \o queue, r)
  BY <1>1, <1>5, AppendIsConcat
<1>. QED
  BY <1>1, <1>3, <1>4, <1>6 DEF Inputs

\* What of it the batch leaves behind, and the control the batch ends with.
LEMMA DrainPlaces ==
    ASSUME Base, Drain
    PROVE  \E k \in 0..Len(Inputs) :
              /\ Inputs' \in Seq(Messages) /\ Len(Inputs') = Len(Inputs) - k
              /\ \A i \in 1..Len(Inputs') : Inputs'[i] = Inputs[k + i]
              /\ run' = "stopping" => k \in 1..Len(Inputs) /\ batch'[Len(batch')] = Inputs[k]
<1>. DEFINE k == CutAt(Inputs)
<1>1. Inputs \in Seq(Messages) /\ k \in 0..Len(Inputs) /\ Len(Inputs) \in Nat
  BY InputsType, Cuts, LenProperties DEF Base
<1>2. /\ batch' = SubSeq(Inputs, 1, k) /\ carry' = SubSeq(Inputs, k + 1, Len(Inputs))
      /\ queue' = <<>> /\ (run' = "stopping" => HasControl(Inputs))
  BY DEF Drain
<1>3. /\ Len(batch') = k /\ \A i \in 1..k : batch'[i] = Inputs[i]
      /\ carry' \in Seq(Messages) /\ Len(carry') = Len(Inputs) - k
      /\ \A i \in 1..Len(Inputs) - k : carry'[i] = Inputs[k + i]
  BY <1>1, <1>2, Parts
<1>4. run' = "stopping" => k \in 1..Len(Inputs)
  BY <1>1, <1>2, Cuts
<1>5. Inputs' = carry'
  BY <1>2, <1>3, ConcatEmptySeq DEF Inputs
<1>. HIDE DEF k
<1>6. run' = "stopping" => batch'[Len(batch')] = Inputs[k]
  BY <1>1, <1>3, <1>4
<1>. QED
  BY <1>1, <1>3, <1>4, <1>5, <1>6

LEMMA RequestInOrder ==
    ASSUME Base, AcceptedOnce, InOrder, NEW r \in Requests, Request(r)
    PROVE  InOrder'
<1>1. UNCHANGED <<command, carry, batch, run>>
  BY RequestAccepts
<1>2. CASE Send(r)
  <2>1. /\ Inputs' = Append(Inputs, r) /\ Inputs \in Seq(Messages) /\ r \in Messages
        /\ Elems(Inputs) \subseteq Waiting
    BY <1>2, InputsAppended, InputsType, SendAccepts DEF Base, Waiting
  <2>2. /\ Len(Inputs') = Len(Inputs) + 1 /\ Len(Inputs) \in Nat
        /\ \A i \in 1..Len(Inputs) : Inputs'[i] = Inputs[i]
        /\ Inputs'[Len(Inputs) + 1] = r
        /\ Elems(Inputs') = Elems(Inputs) \cup {r}
    BY <2>1, AppendProperties, LenProperties, ElemsOfAppend
  <2>3. \A i \in 1..Len(Inputs) : Inputs[i] \in Elems(accepted)
    BY <2>1, ElemsType DEF AcceptedOnce
  <2>4. \A m \in Elems(accepted) :
           Place(accepted', m) = Place(accepted, m) /\ Place(accepted, m) < Place(accepted', r)
    BY <1>2, SendOrders DEF PositionOf, Place
  <2>5. \A i, j \in 1..Len(Inputs') :
           i < j => Place(accepted', Inputs'[i]) < Place(accepted', Inputs'[j])
    <3>. SUFFICES ASSUME NEW i \in 1..Len(Inputs'), NEW j \in 1..Len(Inputs'), i < j
                  PROVE  Place(accepted', Inputs'[i]) < Place(accepted', Inputs'[j])
      OBVIOUS
    <3>1. i \in 1..Len(Inputs) /\ Inputs'[i] = Inputs[i] /\ Inputs[i] \in Elems(accepted)
      BY <2>2, <2>3
    <3>2. CASE j \in 1..Len(Inputs)
      <4>1. Inputs'[j] = Inputs[j] /\ Inputs[j] \in Elems(accepted)
        BY <2>2, <2>3, <3>2
      <4>2. Place(accepted, Inputs[i]) < Place(accepted, Inputs[j])
        BY <3>1, <3>2 DEF InOrder, PositionOf, Place
      <4>. QED
        BY <2>4, <3>1, <4>1, <4>2
    <3>3. CASE j = Len(Inputs) + 1
      BY <2>2, <2>4, <3>1, <3>3
    <3>. QED
      BY <2>2, <3>2, <3>3
  <2>6. ASSUME run = "stopping", NEW m \in Elems(Inputs')
        PROVE  Place(accepted', batch[Len(batch)]) < Place(accepted', m)
    <3>1. batch[Len(batch)] \in Elems(accepted)
      BY <2>6, EmptySeq, ElemsType DEF Base, BatchFits, TypeOK, AcceptedOnce, Waiting
    <3>2. CASE m = r
      BY <2>4, <3>1, <3>2
    <3>3. CASE m \in Elems(Inputs)
      <4>1. m \in Elems(accepted)
        BY <2>1, <3>3 DEF AcceptedOnce
      <4>2. Place(accepted, batch[Len(batch)]) < Place(accepted, m)
        BY <2>6, <3>3 DEF InOrder, PositionOf, Place
      <4>. QED
        BY <2>4, <3>1, <4>1, <4>2
    <3>. QED
      BY <2>2, <2>6, <3>2, <3>3
  <2>7. \A m \in Elems(Inputs') : run = "stopping" =>
           Place(accepted', batch[Len(batch)]) < Place(accepted', m)
    BY <2>6
  <2>8. batch'[Len(batch')] = batch[Len(batch)] /\ run' = run
    BY <1>1
  <2>9. \A m \in Elems(Inputs') : run' = "stopping" =>
           Place(accepted', batch'[Len(batch')]) < Place(accepted', m)
    BY <2>7, <2>8
  <2>. QED
    BY <2>5, <2>9 DEF InOrder, PositionOf, Place
<1>3. CASE ~Send(r)
  <2>1. UNCHANGED <<queue, carry, accepted, batch, run>>
    BY <1>3, RequestAccepts
  <2>. QED
    BY <2>1 DEF InOrder, Inputs, PositionOf
<1>. QED
  BY <1>2, <1>3

LEMMA DrainInOrder == ASSUME Base, InOrder, Drain PROVE InOrder'
<1>1. PICK k \in 0..Len(Inputs) :
              /\ Inputs' \in Seq(Messages) /\ Len(Inputs') = Len(Inputs) - k
              /\ \A i \in 1..Len(Inputs') : Inputs'[i] = Inputs[k + i]
              /\ run' = "stopping" => k \in 1..Len(Inputs) /\ batch'[Len(batch')] = Inputs[k]
  BY DrainPlaces
<1>2. UNCHANGED accepted /\ Len(Inputs) \in Nat
  BY InputsType, LenProperties DEF Drain, histVars, Base
<1>3. \A i, j \in 1..Len(Inputs) : i < j => Place(accepted, Inputs[i]) < Place(accepted, Inputs[j])
  BY DEF InOrder, PositionOf, Place
<1>4. \A i, j \in 1..Len(Inputs') :
         i < j => Place(accepted', Inputs'[i]) < Place(accepted', Inputs'[j])
  <2>. SUFFICES ASSUME NEW i \in 1..Len(Inputs'), NEW j \in 1..Len(Inputs'), i < j
                PROVE  Place(accepted, Inputs'[i]) < Place(accepted, Inputs'[j])
    BY <1>2
  <2>1. k + i \in 1..Len(Inputs) /\ k + j \in 1..Len(Inputs) /\ k + i < k + j
    BY <1>1, <1>2
  <2>2. Inputs'[i] = Inputs[k + i] /\ Inputs'[j] = Inputs[k + j]
    BY <1>1
  <2>. QED
    BY <1>3, <2>1, <2>2
<1>5. ASSUME run' = "stopping", NEW m \in Elems(Inputs')
      PROVE  Place(accepted', batch'[Len(batch')]) < Place(accepted', m)
  <2>1. PICK i \in 1..Len(Inputs') : m = Inputs'[i]
    BY <1>1, <1>5, ElemsType
  <2>2. k + i \in 1..Len(Inputs) /\ k \in 1..Len(Inputs) /\ k < k + i
    BY <1>1, <1>2, <1>5
  <2>3. m = Inputs[k + i] /\ batch'[Len(batch')] = Inputs[k]
    BY <1>1, <1>5, <2>1
  <2>. QED
    BY <1>2, <1>3, <2>2, <2>3
<1>6. \A m \in Elems(Inputs') : run' = "stopping" =>
         Place(accepted', batch'[Len(batch')]) < Place(accepted', m)
  BY <1>5
<1>. QED
  BY <1>4, <1>6 DEF InOrder, PositionOf, Place

LEMMA RunnerInOrder ==
    ASSUME Base, InOrder, Runner \/ Failure
    PROVE  InOrder'
<1>1. UNCHANGED accepted
  BY RunnerOnlyResolves
<1>2. ASSUME Inputs' = Inputs, run' # "stopping" PROVE InOrder'
  BY <1>1, <1>2 DEF InOrder, PositionOf
<1>3. CASE Attach
  BY <1>2, <1>3 DEF Attach, Inputs, chanVars
<1>4. CASE WaitReceives \/ DrainAndClose \/ CloseAndRescue
  <2>1. TypeOK' /\ TypeOK
    BY NextTypes DEF Base, Next
  <2>2. CASE WaitReceives
    <3>1. carry = <<>> /\ queue # <<>> /\ carry' = <<Head(queue)>> /\ queue' = Tail(queue)
      BY <2>2 DEF Base, BuffersFit, WaitReceives
    <3>2. carry' \o queue' = queue /\ <<>> \o queue = queue
      BY <2>1, <3>1, ElemsOfTail, ConcatEmptySeq DEF TypeOK
    <3>. QED
      BY <1>2, <2>2, <3>1, <3>2 DEF Inputs, WaitReceives
  <2>3. CASE DrainAndClose \/ CloseAndRescue
    <3>1. carry' = carry \o queue /\ queue' = <<>> /\ run' # "stopping"
      BY <2>3 DEF DrainAndClose, CloseAndRescue
    <3>2. carry' \o <<>> = carry'
      BY <2>1, ConcatEmptySeq DEF TypeOK
    <3>. QED
      BY <1>2, <3>1, <3>2 DEF Inputs
  <2>. QED
    BY <1>4, <2>2, <2>3
<1>5. CASE StopTask \/ AbandonBatch
  BY <1>2, <1>5 DEF StopTask, AbandonBatch, Inputs, chanVars
<1>6. CASE Exit
  <2>1. carry' = <<>> /\ queue' = <<>> /\ run' # "stopping"
    BY <1>6 DEF Exit
  <2>2. Inputs' = <<>>
    BY <2>1, EmptyType, ConcatEmptySeq DEF Inputs
  <2>. QED
    BY <2>1, <2>2, EmptyType DEF InOrder
<1>7. ASSUME NEW st \in Answers, TurnAnswers(st) PROVE InOrder'
  BY <1>2, <1>7 DEF TurnAnswers, Inputs, chanVars
<1>8. CASE Stays
  <2>1. UNCHANGED <<carry, queue>>
    BY <1>8, QuietSteps DEF Stays, Base, Paces, chanVars
  <2>. QED
    BY <1>2, <1>8, <2>1, StaysKeep DEF Inputs
<1>. QED
  BY <1>3, <1>4, <1>5, <1>6, <1>7, <1>8, DrainInOrder, RunnerSplits DEF Shifts

LEMMA AlwaysInOrder == Spec => []InOrder
<1>1. Init => InOrder
  <2>. SUFFICES ASSUME Init PROVE InOrder
    OBVIOUS
  <2>1. Inputs = <<>>
    BY EmptyType, ConcatEmptySeq DEF Init, Inputs
  <2>. QED
    BY <2>1, EmptyType DEF InOrder, Init
<1>2. Base /\ AcceptedOnce /\ InOrder /\ [Next]_vars => InOrder'
  <2>1. ASSUME InOrder, UNCHANGED vars PROVE InOrder'
    BY <2>1 DEF vars, InOrder, Inputs, PositionOf
  <2>. QED
    BY <2>1, RequestInOrder, RunnerInOrder DEF Next
<1>. QED
  BY <1>1, <1>2, AlwaysBase, AlwaysOnce, PTL DEF Spec

-----------------------------------------------------------------------------
(***************************************************************************)
(* No control is served before what was accepted before it.                *)
(***************************************************************************)
LEMMA PlainElems ==
    ASSUME Base
    PROVE  /\ \A m \in Elems(task) : ~IsControl(m)
           /\ run = "prepare" => \A m \in Elems(batch) : ~IsControl(m)
           /\ run = "stopping" => \A m \in Elems(batch) \ {Last(batch)} : ~IsControl(m)
<1>1. /\ Elems(task) = {task[i] : i \in 1..Len(task)}
      /\ Elems(batch) = {batch[i] : i \in 1..Len(batch)}
      /\ Len(batch) \in Nat
  BY ElemsType, LenProperties DEF Base, TypeOK
<1>2. ASSUME run = "stopping", NEW m \in Elems(batch), m # Last(batch) PROVE ~IsControl(m)
  <2>1. PICK i \in 1..Len(batch) : m = batch[i]
    BY <1>1, <1>2
  <2>2. i # Len(batch)
    BY <1>2, <2>1 DEF Last
  <2>3. i \in 1..Len(batch) - 1
    BY <1>1, <2>2
  <2>. QED
    BY <1>2, <2>1, <2>3 DEF Base, BatchFits
<1>. QED
  BY <1>1, <1>2 DEF Base, BatchFits

LEMMA RequestWaits ==
    ASSUME Base, AcceptedOnce, ControlsWait, NEW r \in Requests, Request(r)
    PROVE  ControlsWait'
<1>1. UNCHANGED command
  BY RequestAccepts
<1>2. CASE Send(r)
  <2>. SUFFICES ASSUME NEW m \in Waiting', NEW q \in Requests, IsControl(q),
                       q \in Elems(accepted'), Place(accepted', q) > Place(accepted', m)
                PROVE  q \in Waiting'
    BY <1>1 DEF ControlsWait, PositionOf, Place, IsControl, CommandOf
  <2>1. Waiting' = Waiting \cup {r} /\ Elems(accepted') = Elems(accepted) \cup {r}
    BY <1>2, SendAccepts, SendOrders
  <2>2. \A n \in Elems(accepted) :
           /\ Place(accepted', n) = Place(accepted, n) /\ Place(accepted, n) \in Nat
           /\ Place(accepted, n) < Place(accepted', r)
    BY <1>2, SendOrders DEF PositionOf, Place
  <2>3. Place(accepted', r) \in Nat
    BY <1>2, SendOrders DEF PositionOf, Place
  <2>4. CASE q # r
    <3>1. q \in Elems(accepted)
      BY <2>1, <2>4
    <3>2. m # r
      BY <2>2, <2>3, <3>1
    <3>3. m \in Waiting /\ m \in Elems(accepted)
      BY <2>1, <3>2 DEF AcceptedOnce
    <3>4. Place(accepted, q) > Place(accepted, m)
      BY <2>2, <3>1, <3>3
    <3>. QED
      BY <2>1, <3>1, <3>3, <3>4 DEF ControlsWait, PositionOf, Place
  <2>. QED
    BY <2>1, <2>4
<1>3. CASE ~Send(r)
  <2>1. UNCHANGED accepted /\ Waiting' = Waiting
    BY <1>3, RequestAccepts
  <2>. QED
    BY <1>1, <2>1 DEF ControlsWait, PositionOf, IsControl, CommandOf
<1>. QED
  BY <1>2, <1>3

LEMMA RunnerWaits ==
    ASSUME Base, InOrder, ControlsWait, AcceptedOnce, Runner \/ Failure
    PROVE  ControlsWait'
<1>1. UNCHANGED <<command, accepted>> /\ Waiting' \subseteq Waiting
  BY RunnerOnlyResolves
<1>. SUFFICES ASSUME NEW m \in Waiting', NEW q \in Requests, IsControl(q),
                     q \in Elems(accepted), PositionOf(q) > PositionOf(m)
              PROVE  q \in Waiting'
  BY <1>1 DEF ControlsWait, PositionOf, IsControl, CommandOf
<1>2. q \in Waiting /\ m \in Waiting
  BY <1>1 DEF ControlsWait
<1>3. CASE Shifts
  BY <1>2, <1>3, ShiftsKeep
<1>4. CASE Stays
  BY <1>2, <1>4, StaysKeep
<1>5. CASE StopTask
  <2>1. m \in Elems(Inputs) /\ run = "stopping"
    BY <1>5, StopTaskDiscards, InputsType DEF Base
  <2>2. PositionOf(Last(batch)) < PositionOf(m)
    BY <2>1 DEF InOrder, Last
  <2>3. m \in Elems(accepted) /\ Last(batch) \in Elems(accepted)
    BY <1>2, <1>5, StopTaskDiscards DEF AcceptedOnce
  <2>4. PositionOf(m) \in Nat /\ PositionOf(Last(batch)) \in Nat
    <3>1. accepted \in Seq(Messages) /\ Len(accepted) \in Nat
      BY LenProperties DEF Base, TypeOK
    <3>2. Place(accepted, m) \in 1..Len(accepted) /\ Place(accepted, Last(batch)) \in 1..Len(accepted)
      BY <2>3, <3>1, PlaceOf
    <3>. QED
      BY <3>1, <3>2, PositionIsPlace
  <2>5. q # Last(batch)
    BY <2>2, <2>4
  <2>6. q \notin Elems(task) /\ q \notin Elems(batch)
    BY <2>1, <2>5, PlainElems
  <2>. QED
    BY <1>2, <1>5, <2>6, StopTaskDiscards DEF Waiting
<1>6. CASE AbandonBatch
  BY <1>2, <1>6, AbandonDiscards, PlainElems DEF Waiting
<1>7. CASE Exit
  BY <1>7, ExitLoses
<1>8. ASSUME NEW st \in Answers, TurnAnswers(st) PROVE q \in Waiting'
  BY <1>2, <1>8, AnswerHandles, PlainElems DEF Waiting
<1>. QED
  BY <1>3, <1>4, <1>5, <1>6, <1>7, <1>8, RunnerSplits

LEMMA AlwaysWait == Spec => []ControlsWait
<1>1. Init => ControlsWait
  <2>. SUFFICES ASSUME Init PROVE ControlsWait
    OBVIOUS
  <2>1. Elems(accepted) = {Opener}
    BY DEF Init, Elems, ToSet
  <2>. QED
    BY <2>1, MailboxAssumption DEF ControlsWait
<1>2. Base /\ AcceptedOnce /\ InOrder /\ ControlsWait /\ [Next]_vars => ControlsWait'
  <2>1. ASSUME ControlsWait, UNCHANGED vars PROVE ControlsWait'
    BY <2>1 DEF vars, ControlsWait, Waiting, PositionOf, IsControl, CommandOf
  <2>. QED
    BY <2>1, RequestWaits, RunnerWaits DEF Next
<1>. QED
  BY <1>1, <1>2, AlwaysBase, AlwaysOnce, AlwaysInOrder, PTL DEF Spec

\* A batch becomes work only by Attach.
LEMMA OnlyAttachWorks ==
    ASSUME Base, Next, run = "prepare", run' = "turn"
    PROVE  Attach
<1>1. ASSUME NEW r \in Requests, Request(r) PROVE FALSE
  BY <1>1, RequestAccepts
<1>2. ASSUME Shifts PROVE Attach
  BY <1>2 DEF Shifts, Drain, WaitReceives, DrainAndClose, CloseAndRescue
<1>3. ~Stays
  BY StaysKeep
<1>4. ~StopTask /\ ~AbandonBatch /\ ~Exit
  BY DEF StopTask, AbandonBatch, Exit
<1>5. ASSUME NEW st \in Answers, TurnAnswers(st) PROVE FALSE
  BY <1>5 DEF TurnAnswers
<1>. QED
  BY <1>1, <1>2, <1>3, <1>4, <1>5, RunnerSplits DEF Next

\* No batch becomes work once a stop or a cancel that was sent after one of its messages is
\* acknowledged, whatever threads the runner and the senders are on (SessionRunner::run,
\* join_session).
THEOREM NoWorkPastAStopHolds == Spec => NoWorkPastAStop
<1>1. ASSUME Base, ControlIsHeard, ControlsWait, [Next]_vars
      PROVE  [run = "prepare" /\ run' = "turn" =>
                \A m \in Elems(batch) : \A r \in Requests :
                   ~(command[r] \in {"stop", "cancel"} /\ req[r] = "ok" /\ r \in Elems(accepted)
                     /\ PositionOf(r) > PositionOf(m))]_vars
  <2>. SUFFICES ASSUME Next, run = "prepare", run' = "turn",
                       NEW m \in Elems(batch), NEW r \in Requests,
                       command[r] \in {"stop", "cancel"}, req[r] = "ok", r \in Elems(accepted),
                       PositionOf(r) > PositionOf(m)
                PROVE  FALSE
    BY <1>1
  <2>1. ~ctl
    BY <1>1, OnlyAttachWorks DEF Attach, MayAttach
  <2>2. CommandOf(r) \in {"stop", "cancel"} /\ IsControl(r)
    BY MailboxAssumption DEF CommandOf, IsControl, Controls
  <2>3. r \in Waiting
    BY <1>1, <2>2 DEF ControlsWait, Waiting
  <2>4. r \notin Elems(task) /\ r \notin Elems(batch) /\ carry = <<>>
    BY <1>1, <2>2, PlainElems DEF Base, BuffersFit
  <2>5. r \in Elems(queue)
    BY <2>3, <2>4, ElemsOfEmpty DEF Waiting
  <2>. QED
    BY <1>1, <2>1, <2>2, <2>5 DEF ControlIsHeard
<1>. QED
  BY <1>1, AlwaysBase, ControlIsHeardHolds, AlwaysWait, PTL DEF Spec, NoWorkPastAStop

-----------------------------------------------------------------------------
(***************************************************************************)
(* The buffers implement one line of messages (Inbox).                     *)
(***************************************************************************)
LEMMA CutCat ==
    ASSUME NEW s \in Lines, NEW t \in Lines
    PROVE  /\ Len(s) \in Nat /\ Len(t) \in Nat /\ Len(Cat(s, t)) = Len(s) + Len(t)
           /\ SubSeq(Cat(s, t), 1, Len(s)) = s
           /\ SubSeq(Cat(s, t), Len(s) + 1, Len(Cat(s, t))) = t
<1>. DEFINE w == s \o t
<1>1. s \in Seq(Messages) /\ t \in Seq(Messages) /\ Len(s) \in Nat /\ Len(t) \in Nat
  BY LenProperties DEF Lines
<1>2. /\ w \in Seq(Messages) /\ Len(w) = Len(s) + Len(t)
      /\ \A i \in 1..Len(s) + Len(t) : w[i] = IF i <= Len(s) THEN s[i] ELSE t[i - Len(s)]
  BY <1>1, ConcatProperties
<1>. HIDE DEF w
<1>3. Len(s) \in 0..Len(w)
  BY <1>1, <1>2
<1>4. /\ SubSeq(w, 1, Len(s)) \in Seq(Messages)
      /\ SubSeq(w, Len(s) + 1, Len(w)) \in Seq(Messages)
      /\ Len(SubSeq(w, 1, Len(s))) = Len(s)
      /\ Len(SubSeq(w, Len(s) + 1, Len(w))) = Len(w) - Len(s)
      /\ \A i \in 1..Len(s) : SubSeq(w, 1, Len(s))[i] = w[i]
      /\ \A i \in 1..Len(w) - Len(s) : SubSeq(w, Len(s) + 1, Len(w))[i] = w[Len(s) + i]
  BY <1>2, <1>3, Parts
<1>5. SubSeq(w, 1, Len(s)) = s
  <2>1. \A i \in 1..Len(s) : w[i] = s[i]
    BY <1>1, <1>2
  <2>. QED
    BY <1>1, <1>4, <2>1, SeqEqual
<1>6. SubSeq(w, Len(s) + 1, Len(w)) = t
  <2>1. \A i \in 1..Len(t) : w[Len(s) + i] = t[i]
    <3>. TAKE i \in 1..Len(t)
    <3>1. Len(s) + i \in 1..Len(s) + Len(t) /\ ~(Len(s) + i <= Len(s)) /\ Len(s) + i - Len(s) = i
      BY <1>1
    <3>. QED
      BY <1>2, <3>1
  <2>2. Len(w) - Len(s) = Len(t)
    BY <1>1, <1>2
  <2>. QED
    BY <1>1, <1>4, <2>1, <2>2, SeqEqual
<1>. QED
  BY <1>1, <1>2, <1>5, <1>6 DEF w, Cat

LEMMA LineIs == Buffered = task \o batch \o carry \o queue
BY DEF Buffered, Cat

LEMMA EmptyLine == <<>> \in Lines
BY EmptyType DEF Lines

\* A request joins the line or leaves it alone.
LEMMA RequestMaps ==
    ASSUME Base, NEW r \in Requests, Request(r)
    PROVE  [Line!Next]_<<Buffered, run = "gone">>
<1>1. run' = run
  BY RequestAccepts
<1>2. CASE Send(r)
  <2>1. r \in Messages /\ run # "gone"
    BY <1>2, SendAccepts DEF Base, BuffersFit
  <2>2. queue' = Append(queue, r) /\ UNCHANGED <<task, batch, carry>>
    BY <1>2 DEF Send
  <2>. DEFINE front == Cat(Cat(task, batch), carry)
  <2>3. front \in Lines /\ queue \in Lines
    BY TypeLines, CatType DEF Base
  <2>4. queue' = Cat(queue, <<r>>) /\ <<r>> \in Lines
    BY <2>1, <2>2, <2>3, AppendIsConcat DEF Lines, Cat
  <2>5. Cat(front, Cat(queue, <<r>>)) = Cat(Cat(front, queue), <<r>>)
    BY <2>3, <2>4, CatAssociative
  <2>6. Cat(front, queue) \in Lines /\ Buffered = Cat(front, queue)
    BY <2>3, CatType DEF Buffered
  <2>7. Cat(Buffered, <<r>>) = Append(Buffered, r)
    BY <2>1, <2>6, AppendIsConcat DEF Lines, Cat
  <2>8. Buffered' = Cat(front, queue')
    BY <2>2 DEF Buffered
  <2>9. Buffered' = Append(Buffered, r)
    BY <2>4, <2>5, <2>6, <2>7, <2>8
  <2>10. Line!Accept(r)
    <3>1. task' \o batch' \o carry' \o queue' = Append(task \o batch \o carry \o queue, r)
      BY <2>9 DEF Buffered, Cat
    <3>. QED
      BY <1>1, <2>1, <3>1 DEF Line!Accept
  <2>. QED
    BY <2>1, <2>10 DEF Line!Next
<1>3. CASE ~Send(r)
  BY <1>3, RequestAccepts DEF Buffered
<1>. QED
  BY <1>2, <1>3

\* Taken from the front.
LEMMA FrontMaps ==
    ASSUME NEW s \in Lines, NEW t \in Lines, Len(s) # 0,
           Buffered = Cat(s, t), Buffered' = t, run # "gone", run' # "gone"
    PROVE  Line!Next
<1>1. Len(s) \in 1..Len(Buffered) /\ Buffered' = SubSeq(Buffered, Len(s) + 1, Len(Buffered))
  BY CutCat
<1>2. Line!Handle(Len(s))
  <2>1. task' \o batch' \o carry' \o queue' =
           SubSeq(task \o batch \o carry \o queue, Len(s) + 1, Len(task \o batch \o carry \o queue))
    BY <1>1 DEF Buffered, Cat
  <2>. QED
    BY <2>1 DEF Line!Handle
<1>3. Len(s) \in 1..Len(task \o batch \o carry \o queue)
  BY <1>1 DEF Buffered, Cat
<1>. QED
  BY <1>2, <1>3 DEF Line!Next

\* A stretch of it is thrown away.
LEMMA StretchMaps ==
    ASSUME NEW s \in Lines, NEW t \in Lines, NEW u \in Lines, Len(t) # 0,
           Buffered = Cat(Cat(s, t), u), Buffered' = Cat(s, u), run # "gone", run' # "gone"
    PROVE  Line!Next
<1>. DEFINE i == Len(s) + 1
            j == Len(s) + Len(t)
<1>1. /\ Cat(s, t) \in Lines /\ Len(Cat(s, t)) = j /\ Len(s) \in Nat /\ Len(t) \in Nat
      /\ SubSeq(Buffered, j + 1, Len(Buffered)) = u /\ Len(u) \in Nat /\ Len(Buffered) = j + Len(u)
  <2>1. Cat(s, t) \in Lines
    BY CatType
  <2>2. Len(Cat(s, t)) = j /\ Len(s) \in Nat /\ Len(t) \in Nat
    BY CutCat
  <2>3. /\ SubSeq(Cat(Cat(s, t), u), Len(Cat(s, t)) + 1, Len(Cat(Cat(s, t), u))) = u
        /\ Len(u) \in Nat /\ Len(Cat(Cat(s, t), u)) = Len(Cat(s, t)) + Len(u)
    BY <2>1, CutCat
  <2>. QED
    BY <2>1, <2>2, <2>3
<1>2. SubSeq(Buffered, 1, i - 1) = s
  <2>1. Cat(Cat(s, t), u) = Cat(s, Cat(t, u)) /\ Cat(t, u) \in Lines
    BY CatAssociative, CatType
  <2>2. SubSeq(Cat(s, Cat(t, u)), 1, Len(s)) = s
    BY <2>1, CutCat
  <2>3. i - 1 = Len(s)
    BY <1>1
  <2>. QED
    BY <2>1, <2>2, <2>3
<1>3. i \in 1..Len(Buffered) /\ j \in 1..Len(Buffered) /\ i <= j
  BY <1>1
<1>4. Buffered' = Cat(SubSeq(Buffered, 1, i - 1), SubSeq(Buffered, j + 1, Len(Buffered)))
  BY <1>1, <1>2
<1>. HIDE DEF i, j
<1>5. Line!Discard(i, j)
  <2>1. task' \o batch' \o carry' \o queue' =
           SubSeq(task \o batch \o carry \o queue, 1, i - 1)
              \o SubSeq(task \o batch \o carry \o queue, j + 1, Len(task \o batch \o carry \o queue))
    BY <1>4 DEF Buffered, Cat
  <2>. QED
    BY <2>1 DEF Line!Discard
<1>6. i \in 1..Len(task \o batch \o carry \o queue) /\ j \in 1..Len(task \o batch \o carry \o queue)
  BY <1>3 DEF Buffered, Cat
<1>. QED
  BY <1>3, <1>5, <1>6 DEF Line!Next

LEMMA LenOfNonEmpty == ASSUME NEW s \in Lines, s # <<>> PROVE Len(s) # 0
BY EmptySeq DEF Lines

LEMMA RunnerMaps ==
    ASSUME Base, Runner \/ Failure
    PROVE  [Line!Next]_<<Buffered, run = "gone">>
<1>1. /\ task \in Lines /\ batch \in Lines /\ carry \in Lines /\ queue \in Lines /\ <<>> \in Lines
      /\ Cat(task, batch) \in Lines /\ Cat(carry, queue) \in Lines
      /\ Cat(<<>>, <<>>) = <<>> /\ Cat(<<>>, queue) = queue
      /\ Cat(task, <<>>) = task
      /\ Cat(<<>>, Cat(carry, queue)) = Cat(carry, queue)
      /\ Buffered = Cat(Cat(task, batch), Cat(carry, queue))
      /\ run # "gone"
  <2>1. task \in Lines /\ batch \in Lines /\ carry \in Lines /\ queue \in Lines /\ <<>> \in Lines
    BY TypeLines, EmptyLine DEF Base
  <2>2. Cat(task, batch) \in Lines /\ Cat(carry, queue) \in Lines
    BY <2>1, CatType
  <2>. QED
    BY <2>1, <2>2, CatEmpty, BufferedType, NotOver DEF Base
<1>2. CASE Shifts
  BY <1>1, <1>2, ShiftsKeepTheLine, ShiftsKeep
<1>3. CASE Stays
  <2>1. UNCHANGED <<task, batch, carry, queue>>
    BY <1>3, QuietSteps DEF Stays, Base, Paces, chanVars
  <2>. QED
    BY <1>1, <1>3, <2>1, StaysKeep DEF Buffered
<1>4. CASE StopTask
  <2>1. task' = <<>> /\ batch' = <<>> /\ UNCHANGED <<carry, queue>> /\ run' # "gone" /\ batch # <<>>
    BY <1>4 DEF StopTask, chanVars, Base, BatchFits
  <2>2. Buffered' = Cat(Cat(Cat(<<>>, <<>>), carry), queue)
    BY <2>1 DEF Buffered
  <2>3. Cat(<<>>, carry) = carry
    BY <1>1, CatEmpty
  <2>4. Buffered' = Cat(carry, queue)
    BY <1>1, <2>2, <2>3
  <2>5. Len(Cat(task, batch)) # 0
    <3>1. Len(batch) # 0
      BY <1>1, <2>1, LenOfNonEmpty
    <3>2. Len(Cat(task, batch)) = Len(task) + Len(batch) /\ Len(task) \in Nat /\ Len(batch) \in Nat
      BY <1>1, CutCat
    <3>. QED
      BY <3>1, <3>2
  <2>. QED
    BY <1>1, <2>1, <2>4, <2>5, FrontMaps
<1>5. CASE AbandonBatch
  <2>1. /\ batch' = <<>> /\ UNCHANGED <<task, carry, queue>> /\ run = "prepare" /\ run' = "reset"
    BY <1>5 DEF AbandonBatch, chanVars
  <2>2. carry = <<>>
    BY <2>1 DEF Base, BuffersFit
  <2>3. Buffered' = Cat(Cat(Cat(task, <<>>), <<>>), queue) /\ Buffered = Cat(Cat(task, batch), queue)
    BY <1>1, <2>1, <2>2 DEF Buffered
  <2>4. Buffered' = Cat(task, queue)
    BY <1>1, <2>3
  <2>5. CASE batch = <<>>
    BY <1>1, <2>1, <2>3, <2>4, <2>5
  <2>6. CASE batch # <<>>
    <3>1. Len(batch) # 0
      BY <1>1, <2>6, LenOfNonEmpty
    <3>. QED
      BY <1>1, <2>1, <2>3, <2>4, <3>1, StretchMaps
  <2>. QED
    BY <2>5, <2>6
<1>6. ASSUME NEW st \in Answers, TurnAnswers(st) PROVE Line!Next
  <2>1. /\ task' = <<>> /\ task # <<>> /\ UNCHANGED <<batch, carry, queue>>
        /\ run = "turn" /\ run' = "settling"
    BY <1>6 DEF TurnAnswers, chanVars
  <2>2. batch = <<>> /\ carry = <<>>
    BY <2>1 DEF Base, BuffersFit
  <2>3. Buffered' = Cat(Cat(Cat(<<>>, <<>>), <<>>), queue)
        /\ Buffered = Cat(Cat(task, <<>>), Cat(<<>>, queue))
    BY <1>1, <2>1, <2>2 DEF Buffered
  <2>4. Buffered' = queue /\ Buffered = Cat(task, queue)
    BY <1>1, <2>3
  <2>5. Len(task) # 0
    BY <1>1, <2>1, LenOfNonEmpty
  <2>. QED
    BY <1>1, <2>1, <2>4, <2>5, FrontMaps
<1>7. CASE Exit
  <2>1. task' = <<>> /\ batch' = <<>> /\ carry' = <<>> /\ queue' = <<>> /\ run' = "gone"
    BY <1>7 DEF Exit
  <2>2. Buffered' = Cat(Cat(Cat(<<>>, <<>>), <<>>), <<>>)
    BY <2>1 DEF Buffered
  <2>3. Buffered' = <<>>
    BY <1>1, <2>2
  <2>4. task' \o batch' \o carry' \o queue' = <<>>
    BY <2>3 DEF Buffered, Cat
  <2>5. Line!End
    BY <1>1, <2>1, <2>4 DEF Line!End
  <2>. QED
    BY <2>5 DEF Line!Next
<1>. QED
  BY <1>2, <1>3, <1>4, <1>5, <1>6, <1>7, RunnerSplits

\* Whatever buffers messages wait in, they form one line in the order of acceptance: work is
\* taken from its front, a stop throws a stretch of it away, and nothing joins or is taken
\* once the session is over (join_session, spawn_session_runner).
THEOREM MailboxImplementsInbox == Spec => MailboxIsOneLine
<1>1. Init => Line!Init
  <2>. SUFFICES ASSUME Init PROVE Line!Init
    OBVIOUS
  <2>1. Opener \in Messages /\ <<Opener>> \in Lines
    BY DEF Messages, Lines
  <2>2. Buffered = Cat(Cat(Cat(<<Opener>>, <<>>), <<>>), <<>>)
    BY DEF Init, Buffered
  <2>3. Buffered = <<Opener>>
    BY <2>1, <2>2, CatEmpty
  <2>4. task \o batch \o carry \o queue = <<Opener>>
    BY <2>3, LineIs
  <2>. QED
    BY <2>1, <2>4 DEF Init, Line!Init
<1>2. Base /\ [Next]_vars => [Line!Next]_<<task \o batch \o carry \o queue, run = "gone">>
  <2>1. ASSUME Base, Next PROVE [Line!Next]_<<Buffered, run = "gone">>
    BY <2>1, RequestMaps, RunnerMaps DEF Next
  <2>2. ASSUME UNCHANGED vars PROVE UNCHANGED <<Buffered, run = "gone">>
    BY <2>2 DEF vars, Buffered
  <2>. QED
    BY <2>1, <2>2 DEF Buffered, Cat
<1>. QED
  BY <1>1, <1>2, AlwaysBase, PTL DEF Spec, MailboxIsOneLine, Line!Spec
=============================================================================
