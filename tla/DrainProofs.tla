---------------------------- MODULE DrainProofs ----------------------------
(***************************************************************************)
(* An update cuts no work of the session in the table that the daemon can  *)
(* see, for any number of requests, sessions and renewals.                 *)
(*                                                                         *)
(* The answer of update_ready is put together from samples of a world in   *)
(* motion.  Each sample is kept true by the ones before it: the lease      *)
(* stands while they are taken, so that once no permit is alive no prompt  *)
(* comes in; once no prompt is on its way, a channel that was found empty  *)
(* gets none any more; and only then does a flag that is up, at the second *)
(* look, say that the runner has no work it was seen to take.              *)
(*                                                                         *)
(* UpdateDrain takes the gate for granted: a lease that stands lets no new *)
(* work in, and the counter is the permits alive.  The last section proves *)
(* that of Admission, for any number of workers, owners and leases, and    *)
(* any lease time.                                                         *)
(***************************************************************************)
EXTENDS Admission, UpdateDrain, FiniteSetTheorems, TLAPS

\* What the handler has sampled: the permits; the channels too; and after those the
\* flags a second time.
PastActive == check \in {"flag", "channel", "brain", "active2", "flag2", "channel2", "yes"}
PastChannel == check \in {"brain", "active2", "flag2", "channel2", "yes"}
PastFlag2 == check \in {"channel2", "yes"}

\* The lease stands as long as the handler works on an answer.
LeaseStands == check # "none" => standing

\* Where a runner has inputs in hand and work; and the idle flag is up only while the
\* completion runner has nothing, with a batch in hand only in the moment before run()
\* lowers the flag.
Fits(k) ==
    /\ sess[k].hand # {} => sess[k].pc \in {"drain", "run", "attach"}
    /\ sess[k].pc = "attach" => \A r \in sess[k].hand : Prompt(r)
    /\ sess[k].work # {} => sess[k].pc \in {"drain", "run", "attach", "next", "settle"}
    /\ sess[k].idle => /\ sess[k].work = {}
                       /\ sess[k].pc \in {"drain", "run", "attach", "next"}
                       /\ sess[k].hand # {} => sess[k].pc = "run" /\ sess[k].unseen
SessionsFit == \A k \in Sessions : Fits(k)

\* A request is only on its way to a session.
SendsToSession(r) == req[r].pc \in {"sending", "signal"} => req[r].at \in Sessions
RequestsFit == \A r \in Requests : SendsToSession(r)

\* No prompt is in the channel.
Clean(k) == \A r \in sess[k].queue : ~Prompt(r)

\* What the runner has it took unseen.
Covered(k) == sess[k].work # {} \/ (\E r \in sess[k].hand : Prompt(r)) => sess[k].unseen

InFlight(r) == req[r].pc \in {"admitted", "sending"}

\* What each sample establishes, and the later ones keep.
SamplesHold ==
    /\ PastActive => ~PromptInFlight
    /\ PastChannel => \A k \in Listed : Clean(k)
    /\ PastFlag2 => \A k \in Listed : Covered(k)

SessionStates == [pc : RunnerSteps, closed : BOOLEAN, finish : BOOLEAN, idle : BOOLEAN,
                  signal : BOOLEAN, queue : SUBSET Requests, hand : SUBSET Requests,
                  work : SUBSET Requests, unseen : BOOLEAN]

RequestStates == [kind : Kinds, pc : RequestSteps, at : 0..MaxSessions]

Base == DrainTypeOK /\ LeaseStands /\ SessionsFit /\ RequestsFit
DrainInv == Base /\ SamplesHold /\ AttachedWorkDrains

-----------------------------------------------------------------------------
(***************************************************************************)
(* What every step keeps.                                                  *)
(***************************************************************************)
\* The initial state.
LEMMA InitInv == DrainInit => DrainInv
<1> SUFFICES ASSUME DrainInit PROVE DrainInv
  OBVIOUS
<1>1. DrainTypeOK
  <2>1. [kind : Kinds, pc : {"away"}, at : {0}]
           \subseteq [kind : Kinds, pc : RequestSteps, at : 0..MaxSessions]
    BY DrainAssumption DEF RequestSteps
  <2>2. NoSession \in SessionStates
    BY DEF NoSession, SessionStates, RunnerSteps
  <2>3. req \in [Requests -> [kind : Kinds, pc : RequestSteps, at : 0..MaxSessions]]
    BY <2>1 DEF DrainInit
  <2>4. sess \in [Sessions -> SessionStates]
    BY <2>2 DEF DrainInit
  <2>5. 0 \in 0..Retries /\ 0 \in 0..MaxSessions
    BY DrainAssumption
  <2> QED
    BY <2>3, <2>4, <2>5 DEF DrainInit, DrainTypeOK, SessionStates, DeskSteps, Checks
<1>2. SessionsFit
  BY DEF DrainInit, SessionsFit, Fits, NoSession
<1>3. RequestsFit
  BY DEF DrainInit, RequestsFit, SendsToSession
<1> QED
  BY <1>1, <1>2, <1>3 DEF DrainInit, DrainInv, Base, LeaseStands, SamplesHold, PastActive,
     PastChannel, PastFlag2, AttachedWorkDrains

\* The types hold after a step that leaves the coordinator alone.
LEMMA WorldTypes ==
    ASSUME DrainTypeOK, UNCHANGED deskVars, req' \in [Requests -> RequestStates],
           table' \in 0..MaxSessions, sess' \in [Sessions -> SessionStates], brain' \in BOOLEAN
    PROVE  DrainTypeOK'
  BY DEF DrainTypeOK, deskVars, SessionStates, RequestStates

LEMMA WorldTyped ==
    ASSUME DrainTypeOK
    PROVE  /\ req \in [Requests -> RequestStates] /\ sess \in [Sessions -> SessionStates]
           /\ table \in 0..MaxSessions /\ brain \in BOOLEAN /\ 0 \in 0..MaxSessions
  BY DrainAssumption DEF DrainTypeOK, SessionStates, RequestStates

-----------------------------------------------------------------------------
(***************************************************************************)
(* The sessions.                                                           *)
(***************************************************************************)
\* One session changes.
LEMMA Becoming ==
    ASSUME DrainTypeOK, NEW k \in Sessions, NEW s \in SessionStates, Becomes(k, s)
    PROVE  /\ UNCHANGED deskVars /\ req' = req
           /\ sess' \in [Sessions -> SessionStates]
           /\ sess'[k] = s /\ \A j \in Sessions \ {k} : sess'[j] = sess[j]
  BY WorldTyped DEF Becomes

\* What a step of the runner of k leaves of k.
LEMMA RunnerMoves ==
    ASSUME DrainTypeOK, NEW k \in Sessions, Fits(k), Runner(k)
    PROVE  /\ ~down /\ UNCHANGED deskVars /\ req' = req
           /\ sess' \in [Sessions -> SessionStates]
           /\ \A j \in Sessions \ {k} : sess'[j] = sess[j]
           /\ table' \in {table, 0} /\ brain' \in BOOLEAN
           /\ sess[k].closed => sess'[k].closed
           /\ Fits(k)'
           /\ Clean(k) => Clean(k)'
           /\ Clean(k) /\ Covered(k) => Covered(k)'
<1> DEFINE Goal ==
      /\ ~down /\ UNCHANGED deskVars /\ req' = req
      /\ sess' \in [Sessions -> SessionStates]
      /\ \A j \in Sessions \ {k} : sess'[j] = sess[j]
      /\ table' \in {table, 0} /\ brain' \in BOOLEAN
      /\ sess[k].closed => sess'[k].closed
      /\ Fits(k)'
      /\ Clean(k) => Clean(k)'
      /\ Clean(k) /\ Covered(k) => Covered(k)'
<1> DEFINE o == sess[k]
<1>k. o \in SessionStates /\ brain \in BOOLEAN
  BY WorldTyped
<1>p. req' = req => \A r \in Requests : Prompt(r)' = Prompt(r)
  BY DEF Prompt
<1>g. ASSUME NEW s \in SessionStates, Becomes(k, s), ~down,
             table' \in {table, 0}, brain' \in BOOLEAN, o.closed => s.closed,
             s.hand # {} => s.pc \in {"drain", "run", "attach"},
             s.pc = "attach" => \A r \in s.hand : Prompt(r),
             s.work # {} => s.pc \in {"drain", "run", "attach", "next", "settle"},
             s.idle => /\ s.work = {} /\ s.pc \in {"drain", "run", "attach", "next"}
                       /\ s.hand # {} => s.pc = "run" /\ s.unseen,
             s.queue \subseteq o.queue,
             (\A r \in o.queue : ~Prompt(r)) /\ Covered(k) =>
                (s.work # {} \/ (\E r \in s.hand : Prompt(r)) => s.unseen)
      PROVE  Goal
  <2>1. /\ UNCHANGED deskVars /\ req' = req /\ sess' \in [Sessions -> SessionStates]
        /\ sess'[k] = s /\ \A j \in Sessions \ {k} : sess'[j] = sess[j]
    BY <1>g, Becoming
  <2>2. /\ \A r \in s.hand : Prompt(r)' = Prompt(r)
        /\ \A r \in s.queue : Prompt(r)' = Prompt(r)
    BY <2>1, <1>p DEF SessionStates
  <2>3. Fits(k)'
    BY <1>g, <2>1, <2>2 DEF Fits
  <2>4. Clean(k) => Clean(k)'
    BY <1>g, <2>1, <2>2 DEF Clean
  <2>5. Clean(k) /\ Covered(k) => Covered(k)'
    <3> SUFFICES ASSUME Clean(k), Covered(k) PROVE Covered(k)'
      OBVIOUS
    <3>1. s.work # {} \/ (\E r \in s.hand : Prompt(r)) => s.unseen
      BY <1>g DEF Clean
    <3> QED
      BY <2>1, <2>2, <3>1 DEF Covered
  <2> QED
    BY <1>g, <2>1, <2>3, <2>4, <2>5
<1>f. /\ o.hand # {} => o.pc \in {"drain", "run", "attach"}
      /\ o.pc = "attach" => \A r \in o.hand : Prompt(r)
      /\ o.work # {} => o.pc \in {"drain", "run", "attach", "next", "settle"}
      /\ o.idle => /\ o.work = {}
                   /\ o.pc \in {"drain", "run", "attach", "next"}
                   /\ o.hand # {} => o.pc = "run" /\ o.unseen
  BY DEF Fits
<1>c. Covered(k) <=> (o.work # {} \/ (\E r \in o.hand : Prompt(r)) => o.unseen)
  BY DEF Covered
<1> HIDE DEF Goal, o
<1>s. ASSUME NEW step \in RunnerSteps PROVE [o EXCEPT !.pc = step] \in SessionStates
  BY <1>k DEF SessionStates
<1>1. ASSUME Drain(k) PROVE Goal
  <2> DEFINE hand == o.hand \cup o.queue
             u == \/ o.idle /\ hand # {}
                  \/ o.unseen /\ (o.hand # {} \/ o.work # {})
             s == [o EXCEPT !.pc = "run", !.signal = FALSE, !.queue = {}, !.hand = hand,
                            !.unseen = u]
  <2>1. ~down /\ o.pc = "drain" /\ Becomes(k, s) /\ table' = table /\ brain' = brain
    BY <1>1 DEF Drain, At, o
  <2>2. hand \subseteq Requests /\ u \in BOOLEAN
    BY <1>k DEF SessionStates
  <2>3. (\A r \in o.queue : ~Prompt(r)) /\ Covered(k) =>
           (o.work # {} \/ (\E r \in hand : Prompt(r)) => u)
    BY <1>c
  <2>4. o.idle /\ hand # {} => u
    OBVIOUS
  <2> HIDE DEF hand, u
  <2>5. s \in SessionStates
    BY <1>k, <2>2 DEF SessionStates, RunnerSteps
  <2>6. /\ s.pc = "run" /\ s.queue = {} /\ s.hand = hand /\ s.unseen = u
        /\ s.work = o.work /\ s.idle = o.idle /\ s.closed = o.closed
    BY <1>k DEF SessionStates
  <2> HIDE DEF s
  <2> QED
    BY <1>f, <1>g, <1>k, <2>1, <2>3, <2>4, <2>5, <2>6
<1>2. ASSUME Run(k) PROVE Goal
  <2> DEFINE i == o.idle /\ o.hand = {}
             s == [o EXCEPT !.pc = "attach", !.idle = i]
  <2>1. /\ ~down /\ o.pc = "run" /\ Stops(o.hand) = {} /\ Becomes(k, s)
        /\ table' = table /\ brain' = brain
    BY <1>2 DEF Run, At, o
  <2>2. i \in BOOLEAN /\ (i => o.idle /\ o.hand = {})
    BY <1>k DEF SessionStates
  <2>3. \A r \in o.hand : Prompt(r)
    BY <2>1 DEF Stops, Prompt
  <2> HIDE DEF i
  <2>5. s \in SessionStates
    BY <1>k, <2>2 DEF SessionStates, RunnerSteps
  <2>6. /\ s.pc = "attach" /\ s.queue = o.queue /\ s.hand = o.hand /\ s.unseen = o.unseen
        /\ s.work = o.work /\ s.idle = i /\ s.closed = o.closed
    BY <1>k DEF SessionStates
  <2> HIDE DEF s
  <2> QED
    BY <1>c, <1>f, <1>g, <1>k, <2>1, <2>2, <2>3, <2>5, <2>6
<1>3. ASSUME RunStop(k) PROVE Goal
  <2>1. ~down /\ o.pc = "run" /\ table' = table /\ brain' = brain
    BY <1>3 DEF RunStop, At, o
  <2>2. PICK kept \in SUBSET o.hand :
           Becomes(k, [o EXCEPT !.pc = "drain", !.idle = FALSE, !.hand = kept, !.work = {}])
    BY <1>3 DEF RunStop, o
  <2> DEFINE s == [o EXCEPT !.pc = "drain", !.idle = FALSE, !.hand = kept, !.work = {}]
  <2>5. s \in SessionStates
    BY <1>k, <2>2 DEF SessionStates, RunnerSteps
  <2>6. /\ s.pc = "drain" /\ s.queue = o.queue /\ s.hand = kept /\ s.unseen = o.unseen
        /\ s.work = {} /\ ~s.idle /\ s.closed = o.closed
    BY <1>k DEF SessionStates
  <2>7. Becomes(k, s)
    BY <2>2
  <2> HIDE DEF s
  <2> QED
    BY <1>c, <1>f, <1>g, <1>k, <2>1, <2>2, <2>5, <2>6, <2>7
<1>4. ASSUME Attach(k) PROVE Goal
  <2> DEFINE work == o.work \cup o.hand
             i == work = {}
             s == [o EXCEPT !.pc = "next", !.hand = {}, !.work = work, !.idle = i]
             d == [o EXCEPT !.pc = "drain", !.hand = {}]
  <2>1. ~down /\ o.pc = "attach" /\ table' = table /\ brain' = brain
    BY <1>4 DEF Attach, At, o
  <2>2. Becomes(k, s) \/ Becomes(k, d)
    BY <1>4 DEF Attach, o
  <2>3. CASE Becomes(k, s)
    <3>1. work \subseteq Requests /\ i \in BOOLEAN /\ (i => work = {})
      BY <1>k DEF SessionStates
    <3>2. Covered(k) => (work # {} => o.unseen)
      BY <1>c, <1>f, <2>1
    <3> HIDE DEF work, i
    <3>5. s \in SessionStates
      BY <1>k, <3>1 DEF SessionStates, RunnerSteps
    <3>6. /\ s.pc = "next" /\ s.queue = o.queue /\ s.hand = {} /\ s.unseen = o.unseen
          /\ s.work = work /\ s.idle = i /\ s.closed = o.closed
      BY <1>k DEF SessionStates
    <3> HIDE DEF s
    <3> QED
      BY <1>g, <1>k, <2>1, <2>3, <3>1, <3>2, <3>5, <3>6
  <2>4. CASE Becomes(k, d)
    <3>5. d \in SessionStates
      BY <1>k DEF SessionStates, RunnerSteps
    <3>6. /\ d.pc = "drain" /\ d.queue = o.queue /\ d.hand = {} /\ d.unseen = o.unseen
          /\ d.work = o.work /\ d.idle = o.idle /\ d.closed = o.closed
      BY <1>k DEF SessionStates
    <3> HIDE DEF d
    <3> QED
      BY <1>c, <1>f, <1>g, <1>k, <2>1, <2>4, <3>5, <3>6
  <2> QED
    BY <2>2, <2>3, <2>4
<1>5. ASSUME Interrupted(k) PROVE Goal
  <2> DEFINE s == [o EXCEPT !.pc = "drain"]
  <2>1. ~down /\ o.pc = "next" /\ Becomes(k, s) /\ table' = table /\ brain' = brain
    BY <1>5 DEF Interrupted, At, o
  <2>5. s \in SessionStates
    BY <1>s DEF RunnerSteps
  <2>6. /\ s.pc = "drain" /\ s.queue = o.queue /\ s.hand = o.hand /\ s.unseen = o.unseen
        /\ s.work = o.work /\ s.idle = o.idle /\ s.closed = o.closed
    BY <1>k DEF SessionStates
  <2> HIDE DEF s
  <2> QED
    BY <1>c, <1>f, <1>g, <1>k, <2>1, <2>5, <2>6
<1>6. ASSUME Returned(k) PROVE Goal
  <2>1. ~down /\ o.pc = "next" /\ table' = table /\ brain' = brain
    BY <1>6 DEF Returned, At, o
  <2> DEFINE u == o.unseen /\ o.work # {}
  <2>2. PICK step \in {"settle", "form", "tick"} :
           /\ Becomes(k, [o EXCEPT !.pc = step, !.idle = FALSE, !.unseen = u])
           /\ o.work # {} => step = "settle"
    BY <1>6 DEF Returned, o
  <2> DEFINE s == [o EXCEPT !.pc = step, !.idle = FALSE, !.unseen = u]
  <2>3. u \in BOOLEAN /\ (u <=> o.unseen /\ o.work # {})
    BY <1>k DEF SessionStates
  <2> HIDE DEF u
  <2>5. s \in SessionStates
    BY <1>k, <2>3 DEF SessionStates, RunnerSteps
  <2>6. /\ s.pc = step /\ s.queue = o.queue /\ s.hand = o.hand /\ s.unseen = u
        /\ s.work = o.work /\ ~s.idle /\ s.closed = o.closed
    BY <1>k DEF SessionStates
  <2>7. Becomes(k, s) /\ o.hand = {}
    BY <1>f, <2>1, <2>2
  <2> HIDE DEF s
  <2> QED
    BY <1>c, <1>g, <1>k, <2>1, <2>2, <2>3, <2>5, <2>6, <2>7
<1>7. ASSUME Settle(k) PROVE Goal
  <2>1. ~down /\ o.pc = "settle" /\ ~o.idle /\ o.hand = {} /\ table' = table /\ brain' = brain
    BY <1>7, <1>f DEF Settle, At, o
  <2> DEFINE s == [o EXCEPT !.pc = "drain"]
  <2>2. CASE Becomes(k, s)
    <3>5. s \in SessionStates
      BY <1>s DEF RunnerSteps
    <3>6. /\ s.pc = "drain" /\ s.queue = o.queue /\ s.hand = o.hand /\ s.unseen = o.unseen
          /\ s.work = o.work /\ s.idle = o.idle /\ s.closed = o.closed
      BY <1>k DEF SessionStates
    <3> HIDE DEF s
    <3> QED
      BY <1>c, <1>f, <1>g, <1>k, <2>1, <2>2, <3>5, <3>6
  <2>3. ASSUME NEW step \in {"drain", "lastform", "last"},
               Becomes(k, [o EXCEPT !.pc = step, !.work = {}, !.unseen = FALSE])
        PROVE  Goal
    <3> DEFINE e == [o EXCEPT !.pc = step, !.work = {}, !.unseen = FALSE]
    <3>5. e \in SessionStates
      BY <1>k DEF SessionStates, RunnerSteps
    <3>6. /\ e.pc = step /\ e.queue = o.queue /\ e.hand = o.hand
          /\ e.work = {} /\ e.idle = o.idle /\ e.closed = o.closed
      BY <1>k DEF SessionStates
    <3>7. Becomes(k, e)
      BY <2>3
    <3> HIDE DEF e
    <3> QED
      BY <1>g, <1>k, <2>1, <3>5, <3>6, <3>7
  <2> QED
    BY <1>7, <2>2, <2>3 DEF Settle, o
<1>8. ASSUME Form(k) \/ IdleTick(k) \/ Close(k) \/ Leave(k) PROVE Goal
  <2>1. /\ ~down /\ o.pc \in {"form", "lastform", "tick", "close", "leave"}
        /\ table' \in {table, 0} /\ brain' \in BOOLEAN
    BY <1>8, <1>k DEF Form, IdleTick, Close, Leave, At, o
  <2>2. ~o.idle /\ o.hand = {} /\ o.work = {}
    BY <1>f, <2>1
  <2>3. PICK s : /\ Becomes(k, s) /\ s \in SessionStates /\ (o.closed => s.closed) /\ ~s.idle
                 /\ s.hand = {} /\ s.work = {} /\ s.queue \subseteq o.queue
                 /\ s.pc # "attach"
    <3>1. ASSUME NEW step \in {"wait", "last", "tick"}, Becomes(k, [o EXCEPT !.pc = step])
          PROVE  \E s : /\ Becomes(k, s) /\ s \in SessionStates /\ (o.closed => s.closed) /\ ~s.idle
                        /\ s.hand = {} /\ s.work = {} /\ s.queue \subseteq o.queue
                        /\ s.pc # "attach"
      <4> DEFINE s == [o EXCEPT !.pc = step]
      <4>1. s \in SessionStates
        BY <1>s DEF RunnerSteps
      <4>2. /\ s.closed = o.closed /\ ~s.idle /\ s.hand = {} /\ s.work = {}
            /\ s.queue = o.queue /\ s.pc = step
        BY <1>k, <2>2 DEF SessionStates
      <4>3. Becomes(k, s)
        BY <3>1
      <4> HIDE DEF s
      <4> QED
        BY <4>1, <4>2, <4>3
    <3>2. CASE Form(k)
      <4>1. \E step \in {"tick", "last"} : Becomes(k, [o EXCEPT !.pc = step])
        BY <3>2, <2>1 DEF Form, o
      <4> QED
        BY <3>1, <4>1
    <3>3. CASE IdleTick(k)
      <4>1. \E step \in {"wait", "last"} : Becomes(k, [o EXCEPT !.pc = step])
        BY <3>3 DEF IdleTick, o
      <4> QED
        BY <3>1, <4>1
    <3>4. CASE Close(k)
      <4> DEFINE s == [o EXCEPT !.pc = "rescue", !.closed = TRUE]
      <4>1. Becomes(k, s)
        BY <3>4 DEF Close, o
      <4>2. /\ s \in SessionStates /\ s.closed /\ ~s.idle /\ s.hand = {} /\ s.work = {}
            /\ s.queue = o.queue /\ s.pc = "rescue"
        BY <1>k, <2>2 DEF SessionStates, RunnerSteps
      <4> HIDE DEF s
      <4> QED
        BY <4>1, <4>2
    <3>5. CASE Leave(k)
      <4> DEFINE s == [NoSession EXCEPT !.pc = "gone", !.closed = TRUE]
      <4>1. Becomes(k, s)
        BY <3>5 DEF Leave
      <4>2. /\ s \in SessionStates /\ s.closed /\ ~s.idle /\ s.hand = {} /\ s.work = {}
            /\ s.queue = {} /\ s.pc = "gone"
        BY DEF SessionStates, RunnerSteps, NoSession
      <4> HIDE DEF s
      <4> QED
        BY <4>1, <4>2
    <3> QED
      BY <1>8, <3>2, <3>3, <3>4, <3>5
  <2> QED
    BY <1>g, <2>1, <2>3
<1>9. ASSUME Wake(k) PROVE Goal
  <2>1. ~down /\ o.pc = "wait" /\ table' = table /\ brain' = brain
    BY <1>9 DEF Wake, At, o
  <2>2. ~o.idle /\ o.hand = {} /\ o.work = {}
    BY <1>f, <2>1
  <2>3. ASSUME Becomes(k, [o EXCEPT !.pc = "drain"]) PROVE Goal
    <3> DEFINE s == [o EXCEPT !.pc = "drain"]
    <3>5. s \in SessionStates
      BY <1>s DEF RunnerSteps
    <3>6. /\ s.pc = "drain" /\ s.queue = o.queue /\ s.hand = {}
          /\ s.work = {} /\ ~s.idle /\ s.closed = o.closed
      BY <1>k, <2>2 DEF SessionStates
    <3>7. Becomes(k, s)
      BY <2>3
    <3> HIDE DEF s
    <3> QED
      BY <1>g, <1>k, <2>1, <3>5, <3>6, <3>7
  <2>4. ASSUME NEW r \in o.queue,
               Becomes(k, [o EXCEPT !.pc = "drain", !.queue = @ \ {r}, !.hand = {r}, !.idle = FALSE])
        PROVE  Goal
    <3> DEFINE s == [o EXCEPT !.pc = "drain", !.queue = @ \ {r}, !.hand = {r}, !.idle = FALSE]
    <3>5. s \in SessionStates
      BY <1>k DEF SessionStates, RunnerSteps
    <3>6. /\ s.pc = "drain" /\ s.queue \subseteq o.queue /\ s.hand = {r}
          /\ s.work = {} /\ ~s.idle /\ s.closed = o.closed
      BY <1>k, <2>2 DEF SessionStates
    <3>7. Becomes(k, s)
      BY <2>4
    <3> HIDE DEF s
    <3> QED
      BY <1>g, <1>k, <2>1, <3>5, <3>6, <3>7
  <2> QED
    BY <1>9, <2>3, <2>4 DEF Wake, o
<1>10. ASSUME NEW then \in {"close", "leave"}, Rest(k, then), ~down, o.pc \in {"last", "rescue"},
              table' = table, brain' = brain
       PROVE  Goal
  <2> DEFINE hand == o.hand \cup o.queue
             step == IF hand = {} THEN then ELSE "drain"
             s == [o EXCEPT !.pc = step, !.queue = {}, !.hand = hand]
  <2>1. Becomes(k, s)
    BY <1>10 DEF Rest, o
  <2>2. ~o.idle /\ o.hand = {} /\ o.work = {}
    BY <1>f, <1>10
  <2>3. /\ hand = o.queue /\ hand \subseteq Requests
        /\ step \in {"close", "leave", "drain"} /\ (hand # {} => step = "drain")
    BY <1>k, <2>2 DEF SessionStates
  <2> HIDE DEF hand, step
  <2>5. s \in SessionStates
    BY <1>k, <2>3 DEF SessionStates, RunnerSteps
  <2>6. /\ s.pc = step /\ s.queue = {} /\ s.hand = hand
        /\ s.work = {} /\ ~s.idle /\ s.closed = o.closed
    BY <1>k, <2>2 DEF SessionStates
  <2> HIDE DEF s
  <2> QED
    BY <1>g, <1>k, <1>10, <2>1, <2>3, <2>5, <2>6
<1>11. ASSUME LastDrain(k) \/ Rescue(k) PROVE Goal
  BY <1>10, <1>11 DEF LastDrain, Rescue, At, o
<1>12. Goal
  BY <1>1, <1>2, <1>3, <1>4, <1>5, <1>6, <1>7, <1>8, <1>9, <1>11 DEF Runner
<1> QED
  BY <1>12 DEF Goal


\* What a step of a request leaves of a session.
Kept(k) ==
    /\ Fits(k)'
    /\ Clean(k) => Clean(k)'
    /\ Covered(k) => Covered(k)'

\* What a step of a request leaves of the sessions.
LEMMA RequestMoves ==
    ASSUME DrainTypeOK, SessionsFit, RequestsFit, NEW r \in Requests, Request(r)
    PROVE  /\ ~down /\ UNCHANGED deskVars /\ brain' = brain /\ table' \in 0..MaxSessions
           /\ req' \in [Requests -> RequestStates] /\ sess' \in [Sessions -> SessionStates]
           /\ \A q \in Requests \ {r} : req'[q] = req[q]
           /\ req'[r].kind = req[r].kind /\ SendsToSession(r)'
           /\ Prompt(r) /\ InFlight(r)' => InFlight(r) \/ ~standing
           /\ SessionsFit'
           /\ ~(Prompt(r) /\ InFlight(r)) =>
                 /\ \A k \in Sessions : Kept(k)
                 /\ Listed' \subseteq Listed
<1> DEFINE Goal ==
      /\ ~down /\ UNCHANGED deskVars /\ brain' = brain /\ table' \in 0..MaxSessions
      /\ req' \in [Requests -> RequestStates] /\ sess' \in [Sessions -> SessionStates]
      /\ \A q \in Requests \ {r} : req'[q] = req[q]
      /\ req'[r].kind = req[r].kind /\ SendsToSession(r)'
      /\ Prompt(r) /\ InFlight(r)' => InFlight(r) \/ ~standing
      /\ SessionsFit'
      /\ ~(Prompt(r) /\ InFlight(r)) =>
            /\ \A k \in Sessions : Kept(k)
            /\ Listed' \subseteq Listed
<1>t. /\ req \in [Requests -> RequestStates] /\ sess \in [Sessions -> SessionStates]
      /\ table \in 0..MaxSessions /\ 0 \in 0..MaxSessions
  BY WorldTyped
<1>r. req[r] \in RequestStates
  BY <1>t
\* How a request changes.
<1>a. ASSUME NEW p \in RequestSteps, NEW a \in 0..MaxSessions,
             req' = [req EXCEPT ![r].pc = p, ![r].at = a]
      PROVE  /\ req' \in [Requests -> RequestStates]
             /\ \A q \in Requests \ {r} : req'[q] = req[q]
             /\ req'[r].kind = req[r].kind /\ req'[r].pc = p /\ req'[r].at = a
             /\ \A q \in Requests : Prompt(q)' <=> Prompt(q)
  <2>1. [req[r] EXCEPT !.pc = p, !.at = a] \in RequestStates
    BY <1>r DEF RequestStates
  <2>2. /\ req' \in [Requests -> RequestStates]
        /\ \A q \in Requests \ {r} : req'[q] = req[q]
        /\ req'[r].kind = req[r].kind /\ req'[r].pc = p /\ req'[r].at = a
    BY <1>a, <1>t, <1>r, <2>1 DEF RequestStates
  <2> QED
    BY <2>2 DEF Prompt
<1>b. ASSUME NEW p \in RequestSteps, req' = [req EXCEPT ![r].pc = p]
      PROVE  /\ req' \in [Requests -> RequestStates]
             /\ \A q \in Requests \ {r} : req'[q] = req[q]
             /\ req'[r].kind = req[r].kind /\ req'[r].pc = p /\ req'[r].at = req[r].at
             /\ \A q \in Requests : Prompt(q)' <=> Prompt(q)
  <2>1. [req[r] EXCEPT !.pc = p] \in RequestStates
    BY <1>r DEF RequestStates
  <2>2. /\ req' \in [Requests -> RequestStates]
        /\ \A q \in Requests \ {r} : req'[q] = req[q]
        /\ req'[r].kind = req[r].kind /\ req'[r].pc = p /\ req'[r].at = req[r].at
    BY <1>b, <1>t, <1>r, <2>1 DEF RequestStates
  <2> QED
    BY <2>2 DEF Prompt
\* How sessions keep what they have, but for the channel.
<1>c. ASSUME \A q \in Requests : Prompt(q)' <=> Prompt(q), NEW k \in Sessions,
             /\ sess'[k].pc = sess[k].pc /\ sess'[k].hand = sess[k].hand
             /\ sess'[k].work = sess[k].work /\ sess'[k].unseen = sess[k].unseen
             /\ sess'[k].idle => sess[k].idle
      PROVE  Fits(k)' /\ (Covered(k) => Covered(k)')
  <2>1. Fits(k) /\ sess[k].hand \subseteq Requests
    BY <1>t DEF SessionsFit, SessionStates
  <2>2. \A q \in sess[k].hand : Prompt(q)' <=> Prompt(q)
    BY <1>c, <2>1
  <2>3. Fits(k)'
    BY <1>c, <2>1, <2>2 DEF Fits
  <2>4. Covered(k) => Covered(k)'
    BY <1>c, <2>1, <2>2 DEF Covered
  <2> QED
    BY <2>3, <2>4
<1>d. ASSUME \A q \in Requests : Prompt(q)' <=> Prompt(q), NEW k \in Sessions,
             sess'[k].queue = sess[k].queue
      PROVE  Clean(k) => Clean(k)'
  <2>1. sess[k].queue \subseteq Requests
    BY <1>t DEF SessionStates
  <2> QED
    BY <1>d, <2>1 DEF Clean
<1>u. ASSUME \A q \in Requests : Prompt(q)' <=> Prompt(q), sess' = sess
      PROVE  SessionsFit' /\ \A k \in Sessions : Kept(k)
  <2>1. ASSUME NEW k \in Sessions PROVE Kept(k)
    BY <1>c, <1>d, <1>u DEF Kept
  <2> QED
    BY <2>1 DEF Kept, SessionsFit
<1>1. ASSUME Arrive(r) PROVE Goal
  <2> DEFINE p == IF Admit(r) THEN "admitted" ELSE "refused"
  <2>1. /\ req' = [req EXCEPT ![r].pc = p]
        /\ ~down /\ UNCHANGED deskVars /\ brain' = brain /\ sess' = sess /\ table' = table
    BY <1>1 DEF Arrive
  <2>2. p \in {"admitted", "refused"} /\ p \in RequestSteps /\ (Prompt(r) /\ p = "admitted" => ~standing)
    BY DEF Admit, Prompt, RequestSteps
  <2> HIDE DEF p
  <2>3. /\ req' \in [Requests -> RequestStates]
        /\ \A q \in Requests \ {r} : req'[q] = req[q]
        /\ req'[r].kind = req[r].kind /\ req'[r].pc = p
        /\ \A q \in Requests : Prompt(q)' <=> Prompt(q)
    BY <1>b, <2>1, <2>2
  <2>4. SessionsFit' /\ \A k \in Sessions : Kept(k)
    BY <1>u, <2>1, <2>3
  <2>5. Listed' = Listed
    BY <2>1 DEF Listed
  <2> QED
    BY <1>t, <2>1, <2>2, <2>3, <2>4, <2>5 DEF InFlight, SendsToSession
<1>2. ASSUME NEW k \in Sessions, Join(r, k) PROVE Goal
  <2>1. /\ req' = [req EXCEPT ![r].pc = "sending", ![r].at = k]
        /\ sess' = [sess EXCEPT ![k].idle = FALSE]
        /\ ~down /\ UNCHANGED deskVars /\ brain' = brain /\ table' = table
        /\ req[r].pc = "admitted"
    BY <1>2 DEF Join
  <2>2. k \in 0..MaxSessions
    BY DrainAssumption DEF Sessions
  <2>3. /\ req' \in [Requests -> RequestStates]
        /\ \A q \in Requests \ {r} : req'[q] = req[q]
        /\ req'[r].kind = req[r].kind /\ req'[r].pc = "sending" /\ req'[r].at = k
        /\ \A q \in Requests : Prompt(q)' <=> Prompt(q)
    BY <1>a, <2>1, <2>2 DEF RequestSteps
  <2>4. /\ sess' \in [Sessions -> SessionStates]
        /\ \A j \in Sessions : /\ sess'[j].pc = sess[j].pc /\ sess'[j].queue = sess[j].queue
                               /\ sess'[j].work = sess[j].work /\ (sess'[j].idle => sess[j].idle)
                               /\ sess'[j].hand = sess[j].hand /\ sess'[j].closed = sess[j].closed
                               /\ sess'[j].unseen = sess[j].unseen
    BY <2>1, <1>t DEF SessionStates
  <2>5. \A j \in Sessions : Kept(j)
    BY <1>c, <1>d, <2>3, <2>4 DEF Kept
  <2>6. Listed' = Listed
    BY <2>1, <2>4 DEF Listed
  <2> QED
    BY <1>t, <2>1, <2>3, <2>4, <2>5, <2>6 DEF InFlight, SendsToSession, Kept, SessionsFit
<1>3. ASSUME Send(r) PROVE Goal
  <2>1. ~down /\ UNCHANGED deskVars /\ brain' = brain /\ req[r].pc = "sending"
    BY <1>3 DEF Send
  <2>2. PICK k \in Sessions : k = req[r].at
    BY <2>1 DEF RequestsFit, SendsToSession
  <2>3. CASE /\ sess' = [sess EXCEPT ![k].queue = @ \cup {r}]
             /\ req' = IF req[r].kind = "stop" THEN [req EXCEPT ![r].pc = "signal"]
                       ELSE [req EXCEPT ![r].pc = "done", ![r].at = 0]
             /\ table' = table
    <3>1. /\ req' \in [Requests -> RequestStates]
          /\ \A q \in Requests \ {r} : req'[q] = req[q]
          /\ req'[r].kind = req[r].kind
          /\ req'[r].pc = "done" \/ (req'[r].pc = "signal" /\ req'[r].at = k)
          /\ \A q \in Requests : Prompt(q)' <=> Prompt(q)
      <4>1. CASE req[r].kind = "stop"
        <5>1. req' = [req EXCEPT ![r].pc = "signal"]
          BY <2>3, <4>1
        <5> QED
          BY <1>b, <2>2, <5>1 DEF RequestSteps
      <4>2. CASE req[r].kind # "stop"
        <5>1. req' = [req EXCEPT ![r].pc = "done", ![r].at = 0]
          BY <2>3, <4>2
        <5> QED
          BY <1>a, <1>t, <5>1 DEF RequestSteps
      <4> QED
        BY <4>1, <4>2
    <3>2. /\ sess' \in [Sessions -> SessionStates]
          /\ \A j \in Sessions : /\ sess'[j].pc = sess[j].pc
                                 /\ sess'[j].work = sess[j].work /\ sess'[j].idle = sess[j].idle
                                 /\ sess'[j].hand = sess[j].hand /\ sess'[j].closed = sess[j].closed
                                 /\ sess'[j].unseen = sess[j].unseen
          /\ \A j \in Sessions \ {k} : sess'[j].queue = sess[j].queue
          /\ sess'[k].queue = sess[k].queue \cup {r}
      BY <2>2, <2>3, <1>t DEF SessionStates
    <3>3. \A j \in Sessions : Fits(j)' /\ (Covered(j) => Covered(j)')
      BY <1>c, <3>1, <3>2
    <3>4. \A j \in Sessions \ {k} : Clean(j) => Clean(j)'
      BY <1>d, <3>1, <3>2
    <3>5. ~Prompt(r) /\ Clean(k) => Clean(k)'
      <4> SUFFICES ASSUME ~Prompt(r), Clean(k), NEW q \in sess'[k].queue PROVE ~Prompt(q)'
        BY <3>2 DEF Clean
      <4>1. sess[k].queue \subseteq Requests
        BY <1>t, <2>2 DEF SessionStates
      <4>2. q \in Requests /\ (q = r \/ q \in sess[k].queue)
        BY <3>2, <4>1
      <4>3. ~Prompt(q)
        BY <4>2 DEF Clean
      <4> QED
        BY <3>1, <4>2, <4>3
    <3>6. ASSUME ~Prompt(r), NEW j \in Sessions PROVE Kept(j)
      <4>1. Clean(j) => Clean(j)'
        BY <3>4, <3>5, <3>6
      <4> QED
        BY <3>3, <4>1 DEF Kept
    <3>7. Listed' = Listed
      BY <2>3, <3>2 DEF Listed
    <3> QED
      BY <1>t, <2>1, <2>2, <2>3, <3>1, <3>2, <3>3, <3>6, <3>7 DEF InFlight, SendsToSession, SessionsFit
  <2>4. CASE table' = 0 /\ req' = [req EXCEPT ![r].pc = "admitted", ![r].at = 0] /\ sess' = sess
    <3>1. /\ req' \in [Requests -> RequestStates]
          /\ \A q \in Requests \ {r} : req'[q] = req[q]
          /\ req'[r].kind = req[r].kind /\ req'[r].pc = "admitted"
          /\ \A q \in Requests : Prompt(q)' <=> Prompt(q)
      BY <1>a, <1>t, <2>4 DEF RequestSteps
    <3>2. SessionsFit' /\ \A j \in Sessions : Kept(j)
      BY <1>u, <2>4, <3>1
    <3>3. Listed' = {}
      BY <2>4, DrainAssumption DEF Listed, Sessions
    <3> QED
      BY <1>t, <2>1, <2>4, <3>1, <3>2, <3>3 DEF InFlight, SendsToSession
  <2>5. CASE /\ sess' = [sess EXCEPT ![req[r].at].queue = @ \cup {r}]
             /\ req' = IF req[r].kind = "stop" THEN [req EXCEPT ![r].pc = "signal"]
                       ELSE [req EXCEPT ![r].pc = "done", ![r].at = 0]
             /\ table' = table
    <3>1. sess' = [sess EXCEPT ![k].queue = @ \cup {r}]
      BY <2>2, <2>5
    <3> QED
      BY <2>3, <2>5, <3>1
  <2> QED
    BY <1>3, <2>4, <2>5 DEF Send
<1>4. ASSUME Raise(r) PROVE Goal
  <2>1. /\ req' = [req EXCEPT ![r].pc = "done", ![r].at = 0]
        /\ sess' = [sess EXCEPT ![req[r].at].signal = TRUE]
        /\ ~down /\ UNCHANGED deskVars /\ brain' = brain /\ table' = table
    BY <1>4 DEF Raise
  <2>3. /\ req' \in [Requests -> RequestStates]
        /\ \A q \in Requests \ {r} : req'[q] = req[q]
        /\ req'[r].kind = req[r].kind /\ req'[r].pc = "done"
        /\ \A q \in Requests : Prompt(q)' <=> Prompt(q)
    BY <1>a, <1>t, <2>1 DEF RequestSteps
  <2>4. /\ sess' \in [Sessions -> SessionStates]
        /\ \A j \in Sessions : /\ sess'[j].pc = sess[j].pc /\ sess'[j].queue = sess[j].queue
                               /\ sess'[j].work = sess[j].work /\ sess'[j].idle = sess[j].idle
                               /\ sess'[j].hand = sess[j].hand /\ sess'[j].closed = sess[j].closed
                               /\ sess'[j].unseen = sess[j].unseen
    <3> DEFINE k == req[r].at
    <3>1. k \in Sessions
      BY <1>4 DEF Raise, RequestsFit, SendsToSession
    <3>2. sess' = [sess EXCEPT ![k].signal = TRUE]
      BY <2>1
    <3> HIDE DEF k
    <3> QED
      BY <3>1, <3>2, <1>t DEF SessionStates
  <2>5. \A j \in Sessions : Kept(j)
    BY <1>c, <1>d, <2>3, <2>4 DEF Kept
  <2>6. Listed' = Listed
    BY <2>1, <2>4 DEF Listed
  <2> QED
    BY <1>t, <2>1, <2>3, <2>4, <2>5, <2>6 DEF InFlight, SendsToSession, Kept, SessionsFit
<1>5. ASSUME Create(r) PROVE Goal
  <2>1. /\ ~down /\ UNCHANGED deskVars /\ brain' = brain
        /\ req[r].pc = "admitted" /\ req[r].kind = "plain"
        /\ req' = [req EXCEPT ![r].pc = "done"]
    BY <1>5 DEF Create
  <2> DEFINE x == [NoSession EXCEPT !.pc = "drain", !.work = {r}]
  <2>2. PICK k \in Sessions : sess' = [sess EXCEPT ![k] = x] /\ table' = k
    BY <1>5 DEF Create
  <2>3. x \in SessionStates /\ x.pc = "drain" /\ x.hand = {} /\ ~x.idle
    BY DEF NoSession, SessionStates, RunnerSteps
  <2> HIDE DEF x
  <2>4. /\ sess' \in [Sessions -> SessionStates]
        /\ \A j \in Sessions \ {k} : sess'[j] = sess[j]
        /\ sess'[k].pc = "drain" /\ sess'[k].hand = {} /\ ~sess'[k].idle
    BY <2>2, <2>3, <1>t
  <2>5. /\ req' \in [Requests -> RequestStates]
        /\ \A q \in Requests \ {r} : req'[q] = req[q]
        /\ req'[r].kind = req[r].kind /\ req'[r].pc = "done"
        /\ \A q \in Requests : Prompt(q)' <=> Prompt(q)
    BY <1>b, <2>1 DEF RequestSteps
  <2>6. \A j \in Sessions \ {k} : Fits(j)'
    BY <1>c, <2>4, <2>5
  <2>7. Fits(k)'
    BY <2>4 DEF Fits
  <2>8. table' \in 0..MaxSessions
    BY <2>2, DrainAssumption DEF Sessions
  <2>9. Prompt(r) /\ InFlight(r)
    BY <2>1 DEF Prompt, InFlight
  <2> QED
    BY <2>1, <2>4, <2>5, <2>6, <2>7, <2>8, <2>9 DEF InFlight, SendsToSession, SessionsFit
<1>6. ASSUME Detach(r) PROVE Goal
  <2>1. /\ ~down /\ UNCHANGED deskVars /\ brain' = brain
        /\ req[r].pc = "admitted" /\ req[r].kind = "new"
        /\ req' = [req EXCEPT ![r].pc = "done"]
        /\ table' \in {table, 0}
    BY <1>6 DEF Detach
  <2>2. sess' = [k \in Sessions |-> [sess[k] EXCEPT !.finish = @ \/ k \in Listed]]
    BY <1>6 DEF Detach
  <2>3. /\ req' \in [Requests -> RequestStates]
        /\ \A q \in Requests \ {r} : req'[q] = req[q]
        /\ req'[r].kind = req[r].kind /\ req'[r].pc = "done"
        /\ \A q \in Requests : Prompt(q)' <=> Prompt(q)
    BY <1>b, <2>1 DEF RequestSteps
  <2>4. ASSUME NEW k \in Sessions
        PROVE  /\ sess'[k] \in SessionStates
               /\ sess'[k].pc = sess[k].pc /\ sess'[k].hand = sess[k].hand
               /\ sess'[k].work = sess[k].work /\ sess'[k].unseen = sess[k].unseen
               /\ sess'[k].idle = sess[k].idle
    <3> DEFINE f == sess[k].finish \/ k \in Listed
    <3>1. sess'[k] = [sess[k] EXCEPT !.finish = f]
      BY <2>2
    <3>2. f \in BOOLEAN /\ sess[k] \in SessionStates
      BY <1>t DEF SessionStates
    <3> HIDE DEF f
    <3> QED
      BY <3>1, <3>2 DEF SessionStates
  <2>5. sess' \in [Sessions -> SessionStates]
    <3>1. DOMAIN sess' = Sessions /\ sess' = [k \in Sessions |-> sess'[k]]
      BY <2>2
    <3> QED
      BY <2>4, <3>1
  <2>6. \A k \in Sessions : Fits(k)'
    BY <1>c, <2>3, <2>4
  <2>7. Prompt(r) /\ InFlight(r)
    BY <2>1 DEF Prompt, InFlight
  <2> QED
    BY <1>t, <2>1, <2>3, <2>5, <2>6, <2>7 DEF InFlight, SendsToSession, SessionsFit
<1>7. ASSUME Refuse(r) PROVE Goal
  <2>1. /\ ~down /\ UNCHANGED deskVars /\ brain' = brain /\ sess' = sess /\ table' = table
        /\ req' = [req EXCEPT ![r].pc = "refused"]
    BY <1>7 DEF Refuse
  <2>3. /\ req' \in [Requests -> RequestStates]
        /\ \A q \in Requests \ {r} : req'[q] = req[q]
        /\ req'[r].kind = req[r].kind /\ req'[r].pc = "refused"
        /\ \A q \in Requests : Prompt(q)' <=> Prompt(q)
    BY <1>b, <2>1 DEF RequestSteps
  <2>4. SessionsFit' /\ \A k \in Sessions : Kept(k)
    BY <1>u, <2>1, <2>3
  <2>5. Listed' = Listed
    BY <2>1 DEF Listed
  <2> QED
    BY <1>t, <2>1, <2>3, <2>4, <2>5 DEF InFlight, SendsToSession
<1> HIDE DEF Goal
<1>8. Goal
  BY <1>1, <1>2, <1>3, <1>4, <1>5, <1>6, <1>7 DEF Request
<1> QED
  BY <1>8 DEF Goal


-----------------------------------------------------------------------------
(***************************************************************************)
(* What holds whatever is sampled.                                         *)
(***************************************************************************)
LEMMA DeskTypes ==
    ASSUME DrainTypeOK, Desk \/ Lapse \/ DesktopCrash
    PROVE  DrainTypeOK' /\ UNCHANGED world
<1>0. 0 \in 0..Retries
  BY DrainAssumption
<1>1. CASE Renewed
  <2>1. tries' \in 0..Retries
    BY <1>0, <1>1, DrainAssumption DEF Renewed, MayRetry, DrainTypeOK
  <2> QED
    BY <1>1, <2>1 DEF Renewed, DrainTypeOK, world, DeskSteps, Checks
<1>2. CASE BeginUpdate \/ RenewLease \/ Shutdown \/ ShutDown \/ ShutdownRefused \/ Lapse \/ DesktopCrash
  BY <1>0, <1>2 DEF BeginUpdate, RenewLease, Shutdown, Call, ShutDown, ShutdownRefused, Lapse,
     DesktopCrash, DrainTypeOK, world, DeskSteps, Checks
<1>3. CASE Sample
  <2>1. check' \in Checks
    BY <1>3 DEF Sample, Sampled, Following, Checks
  <2> QED
    BY <1>3, <2>1 DEF Sample, DrainTypeOK, world
<1> QED
  BY <1>1, <1>2, <1>3 DEF Desk

\* The invariant, but for the samples.
LEMMA BaseStep ==
    ASSUME Base, [DrainNext]_drainVars
    PROVE  Base'
<1>0. DrainTypeOK /\ LeaseStands /\ SessionsFit /\ RequestsFit
  BY DEF Base
<1>u. ASSUME UNCHANGED <<req, sess>> PROVE SessionsFit' /\ RequestsFit'
  BY <1>0, <1>u DEF SessionsFit, Fits, Prompt, RequestsFit, SendsToSession
<1>1. CASE UNCHANGED drainVars
  BY <1>0, <1>1, <1>u DEF drainVars, deskVars, Base, DrainTypeOK, LeaseStands
<1>2. ASSUME NEW r \in Requests, Request(r) PROVE Base'
  <2>2. /\ UNCHANGED deskVars /\ brain' = brain /\ table' \in 0..MaxSessions
        /\ req' \in [Requests -> RequestStates] /\ sess' \in [Sessions -> SessionStates]
        /\ \A q \in Requests \ {r} : req'[q] = req[q]
        /\ SendsToSession(r)' /\ SessionsFit'
    BY <1>0, <1>2, RequestMoves
  <2>3. DrainTypeOK'
    BY <1>0, <2>2, WorldTypes, WorldTyped
  <2>4. \A q \in Requests : SendsToSession(q)'
    BY <1>0, <2>2 DEF SendsToSession, RequestsFit
  <2> QED
    BY <1>0, <2>2, <2>3, <2>4 DEF Base, LeaseStands, RequestsFit, deskVars
<1>3. ASSUME NEW k \in Sessions, Runner(k) PROVE Base'
  <2>2. /\ UNCHANGED deskVars /\ req' = req
        /\ sess' \in [Sessions -> SessionStates]
        /\ \A j \in Sessions \ {k} : sess'[j] = sess[j]
        /\ table' \in {table, 0} /\ brain' \in BOOLEAN /\ Fits(k)'
    <3>1. Fits(k)
      BY <1>0 DEF SessionsFit
    <3> QED
      BY <1>0, <1>3, <3>1, RunnerMoves
  <2>3. DrainTypeOK'
    <3>1. req' \in [Requests -> RequestStates] /\ table' \in 0..MaxSessions
      BY <1>0, <2>2, WorldTyped
    <3> QED
      BY <1>0, <2>2, <3>1, WorldTypes
  <2>4. \A j \in Sessions : Fits(j)'
    <3>1. ASSUME NEW j \in Sessions \ {k} PROVE Fits(j)'
      BY <1>0, <2>2 DEF SessionsFit, Fits, Prompt
    <3> QED
      BY <2>2, <3>1
  <2>5. \A q \in Requests : SendsToSession(q)'
    BY <1>0, <2>2 DEF RequestsFit, SendsToSession
  <2> QED
    BY <1>0, <2>2, <2>3, <2>4, <2>5 DEF Base, LeaseStands, SessionsFit, RequestsFit, deskVars
<1>4. CASE Formed
  <2>1. DrainTypeOK' /\ LeaseStands' /\ UNCHANGED <<req, sess>>
    BY <1>0, <1>4 DEF Formed, DrainTypeOK, deskVars, LeaseStands
  <2> QED
    BY <1>u, <2>1 DEF Base
<1>5. CASE Desk \/ Lapse \/ DesktopCrash
  <2>1. DrainTypeOK' /\ UNCHANGED world
    BY <1>0, <1>5, DeskTypes
  <2>2. LeaseStands'
    <3>1. CASE Sample
      BY <1>0, <3>1 DEF Sample, Sampled, LeaseStands
    <3>2. CASE BeginUpdate \/ RenewLease \/ Renewed \/ Shutdown \/ ShutDown \/ ShutdownRefused
               \/ Lapse \/ DesktopCrash
      BY <1>0, <3>2 DEF BeginUpdate, RenewLease, Renewed, Shutdown, Call, ShutDown, ShutdownRefused,
         Lapse, DesktopCrash, LeaseStands
    <3> QED
      BY <1>5, <3>1, <3>2 DEF Desk
  <2> QED
    BY <1>u, <2>1, <2>2 DEF Base, world
<1> QED
  BY <1>1, <1>2, <1>3, <1>4, <1>5 DEF DrainNext

-----------------------------------------------------------------------------
(***************************************************************************)
(* The samples.                                                            *)
(***************************************************************************)
\* No permit is alive: no request is on its way.
LEMMA NobodyAdmitted ==
    ASSUME Active = 0
    PROVE  \A r \in Requests : ~InFlight(r)
<1> DEFINE A == {r \in Requests : req[r].pc \in {"admitted", "sending", "signal"}}
           B == {k \in Sessions : sess[k].pc \in {"form", "lastform"}}
<1>1. IsFiniteSet(A) /\ IsFiniteSet(B)
  BY FS_Subset, FS_Interval, DrainAssumption DEF Sessions
<1>2. Cardinality(A) \in Nat /\ Cardinality(B) \in Nat
  BY <1>1, FS_CardinalityType
<1>3. Cardinality(A) + Cardinality(B) = 0
  BY DEF Active
<1> HIDE DEF A, B
<1>4. Cardinality(A) = 0
  BY <1>2, <1>3
<1>5. A = {}
  BY <1>1, <1>4, FS_EmptySet
<1> QED
  BY <1>5 DEF A, InFlight

\* The channels are empty, and the flags are up.
LEMMA NothingSeen ==
    ASSUME SessionsFit, NEW k \in Listed
    PROVE  /\ ChannelsEmpty => Clean(k)
           /\ FlagsUp => Covered(k)
  BY DEF Listed, ChannelsEmpty, FlagsUp, SessionsFit, Fits, Clean, Covered

\* The samples stand as long as the sessions that can be found get no prompt and no
\* work.
LEMMA SamplesStand ==
    ASSUME SamplesHold, UNCHANGED check, ~PromptInFlight => ~PromptInFlight',
           ~PromptInFlight => Listed' \subseteq Listed,
           ~PromptInFlight => \A k \in Listed :
              /\ Clean(k) => Clean(k)'
              /\ Clean(k) /\ Covered(k) => Covered(k)'
    PROVE  SamplesHold'
<1>1. /\ (PastActive' <=> PastActive)
      /\ (PastChannel' <=> PastChannel)
      /\ (PastFlag2' <=> PastFlag2)
      /\ PastFlag2 => PastChannel
      /\ PastChannel => PastActive
  BY DEF PastActive, PastChannel, PastFlag2
<1>2. PastActive => ~PromptInFlight'
  BY DEF SamplesHold
<1>3. PastChannel => \A k \in Listed' : Clean(k)'
  BY <1>1 DEF SamplesHold
<1>4. PastFlag2 => \A k \in Listed' : Covered(k)'
  BY <1>1 DEF SamplesHold
<1> QED
  BY <1>1, <1>2, <1>3, <1>4 DEF SamplesHold

LEMMA SamplesStep ==
    ASSUME Base, SamplesHold, [DrainNext]_drainVars
    PROVE  SamplesHold'
<1>0. DrainTypeOK /\ LeaseStands /\ SessionsFit /\ RequestsFit
  BY DEF Base
<1>p. PromptInFlight <=> \E r \in Requests : Prompt(r) /\ InFlight(r)
  BY DEF InFlight, PromptInFlight
<1>pp. PromptInFlight' <=> \E r \in Requests : Prompt(r)' /\ InFlight(r)'
  BY DEF InFlight, PromptInFlight
<1>l. Listed \subseteq Sessions
  BY DEF Listed
<1>1. ASSUME UNCHANGED <<check, req, table, sess>> PROVE SamplesHold'
  BY <1>1 DEF SamplesHold, PastActive, PastChannel, PastFlag2, PromptInFlight, Listed, Clean,
     Covered, Prompt
<1>2. ASSUME NEW r \in Requests, Request(r) PROVE SamplesHold'
  <2>1. /\ UNCHANGED deskVars
        /\ \A q \in Requests \ {r} : req'[q] = req[q]
        /\ req'[r].kind = req[r].kind
        /\ Prompt(r) /\ InFlight(r)' => InFlight(r) \/ ~standing
        /\ ~(Prompt(r) /\ InFlight(r)) =>
              (\A k \in Sessions : Kept(k)) /\ Listed' \subseteq Listed
    BY <1>0, <1>2, RequestMoves
  <2>2. UNCHANGED check
    BY <2>1 DEF deskVars
  <2>3. CASE check = "none"
    BY <2>2, <2>3 DEF SamplesHold, PastActive, PastChannel, PastFlag2
  <2>4. CASE check # "none"
    <3>1. \A q \in Requests : Prompt(q)' <=> Prompt(q)
      BY <2>1 DEF Prompt
    <3>2. \A q \in Requests \ {r} : InFlight(q)' <=> InFlight(q)
      BY <2>1 DEF InFlight
    <3>3. standing
      BY <1>0, <2>4 DEF LeaseStands
    <3>4. ~PromptInFlight => ~PromptInFlight'
      BY <1>p, <1>pp, <2>1, <3>1, <3>2, <3>3
    <3>5. ~PromptInFlight => ~(Prompt(r) /\ InFlight(r))
      BY <1>p
    <3>6. ~PromptInFlight => \A k \in Listed : Kept(k)
      BY <1>l, <2>1, <3>5
    <3>7. ~PromptInFlight => \A k \in Listed :
             (Clean(k) => Clean(k)') /\ (Clean(k) /\ Covered(k) => Covered(k)')
      BY <3>6 DEF Kept
    <3> QED
      BY <2>1, <2>2, <3>4, <3>5, <3>7, SamplesStand
  <2> QED
    BY <2>3, <2>4
<1>3. ASSUME NEW k \in Sessions, Runner(k) PROVE SamplesHold'
  <2>1. /\ UNCHANGED deskVars /\ req' = req
        /\ \A j \in Sessions \ {k} : sess'[j] = sess[j]
        /\ table' \in {table, 0}
        /\ sess[k].closed => sess'[k].closed
        /\ Clean(k) => Clean(k)'
        /\ Clean(k) /\ Covered(k) => Covered(k)'
    <3>1. Fits(k)
      BY <1>0 DEF SessionsFit
    <3> QED
      BY <1>0, <1>3, <3>1, RunnerMoves
  <2>2. UNCHANGED check
    BY <2>1 DEF deskVars
  <2>3. PromptInFlight' <=> PromptInFlight
    BY <2>1 DEF PromptInFlight, Prompt
  <2>4. Listed' \subseteq Listed
    BY <2>1 DEF Listed, Sessions
  <2>5. ASSUME NEW j \in Sessions \ {k} PROVE (Clean(j) => Clean(j)') /\ (Covered(j) => Covered(j)')
    BY <2>1 DEF Clean, Covered, Prompt
  <2>6. \A j \in Listed : (Clean(j) => Clean(j)') /\ (Clean(j) /\ Covered(j) => Covered(j)')
    BY <1>l, <2>1, <2>5
  <2> QED
    BY <2>2, <2>3, <2>4, <2>6, SamplesStand
<1>4. CASE Formed
  BY <1>1, <1>4 DEF Formed, deskVars
<1>5. CASE Sample
  <2>1. UNCHANGED world
    BY <1>5 DEF Sample
  <2> DEFINE NoPrompt == ~PromptInFlight
             AllClean == \A k \in Listed : Clean(k)
             AllCovered == \A k \in Listed : Covered(k)
  <2>2. (NoPrompt => NoPrompt') /\ (AllClean => AllClean') /\ (AllCovered => AllCovered')
    BY <2>1 DEF world, PromptInFlight, Listed, Clean, Covered, Prompt
  <2>3. /\ Active = 0 => NoPrompt
        /\ ChannelsEmpty => AllClean
        /\ FlagsUp => AllCovered
    BY <1>0, <1>p, NobodyAdmitted, NothingSeen
  <2>4. /\ PastActive => NoPrompt
        /\ PastChannel => AllClean
        /\ PastFlag2 => AllCovered
    BY DEF SamplesHold
  <2>5. /\ PastActive' => PastActive \/ Active = 0
        /\ PastChannel' => PastChannel \/ ChannelsEmpty
        /\ PastFlag2' => PastFlag2 \/ FlagsUp
    <3>1. DOMAIN Sampled = {"active", "flag", "channel", "brain", "active2", "flag2", "channel2"}
      BY DEF Sampled
    <3>2. /\ Sampled["active"] => Active = 0
          /\ Sampled["channel"] => ChannelsEmpty
          /\ Sampled["flag2"] => FlagsUp
      BY DEF Sampled
    <3>3. /\ Following["active"] = "flag" /\ Following["flag"] = "channel"
          /\ Following["channel"] = "brain" /\ Following["brain"] = "active2"
          /\ Following["active2"] = "flag2" /\ Following["flag2"] = "channel2"
          /\ Following["channel2"] = "yes"
      BY DEF Following
    <3>4. /\ check \in DOMAIN Sampled
          /\ check' = "no" \/ (Sampled[check] /\ check' = Following[check])
      BY <1>5 DEF Sample
    <3> HIDE DEF Sampled, Following
    <3> QED
      BY <3>1, <3>2, <3>3, <3>4 DEF PastActive, PastChannel, PastFlag2
  <2>6. (PastActive' => NoPrompt') /\ (PastChannel' => AllClean') /\ (PastFlag2' => AllCovered')
    <3> HIDE DEF NoPrompt, AllClean, AllCovered
    <3> QED
      BY <2>2, <2>3, <2>4, <2>5
  <2> QED
    BY <2>6 DEF SamplesHold
<1>6. CASE BeginUpdate \/ RenewLease \/ Renewed \/ Shutdown \/ ShutDown \/ ShutdownRefused \/ Lapse \/ DesktopCrash
  <2>1. check' = "none" \/ check' = "active" \/ UNCHANGED <<check, world>>
    BY <1>6 DEF BeginUpdate, RenewLease, Renewed, Shutdown, Call, ShutDown, ShutdownRefused, Lapse, DesktopCrash
  <2>2. CASE check' = "none" \/ check' = "active"
    BY <2>2 DEF SamplesHold, PastActive, PastChannel, PastFlag2
  <2>3. CASE UNCHANGED <<check, world>>
    BY <1>1, <2>3 DEF world
  <2> QED
    BY <2>1, <2>2, <2>3
<1>7. CASE UNCHANGED drainVars
  BY <1>1, <1>7 DEF drainVars
<1> QED
  BY <1>2, <1>3, <1>4, <1>5, <1>6, <1>7 DEF DrainNext, Desk

\* The daemon goes down only after the last sample.
LEMMA DownStep ==
    ASSUME Base, SamplesHold, AttachedWorkDrains, [DrainNext]_drainVars
    PROVE  AttachedWorkDrains'
<1>u. ASSUME UNCHANGED <<req, table, sess>>,
             ~PromptInFlight, \A k \in Listed : AtWork(k) => sess[k].unseen
      PROVE  AttachedWorkDrains'
  BY <1>u DEF AttachedWorkDrains, PromptInFlight, AtWork, Prompt, Listed
<1>1. CASE UNCHANGED drainVars
  BY <1>u, <1>1 DEF drainVars, AttachedWorkDrains
<1>2. CASE ShutDown
  <2>1. check = "yes" /\ UNCHANGED world
    BY <1>2 DEF ShutDown, Granted
  <2>2. /\ ~PromptInFlight
        /\ \A k \in Listed : Clean(k) /\ Covered(k)
    BY <2>1 DEF SamplesHold, PastActive, PastChannel, PastFlag2
  <2>3. \A k \in Listed : AtWork(k) => sess[k].unseen
    BY <2>2 DEF AtWork, Clean, Covered
  <2> QED
    BY <1>u, <2>1, <2>2, <2>3 DEF world
<1>3. ASSUME DrainNext, ~ShutDown PROVE ~down'
  <2>0. DrainTypeOK /\ SessionsFit /\ RequestsFit
    BY DEF Base
  <2>1. ASSUME NEW r \in Requests, Request(r) PROVE ~down'
    BY <2>0, <2>1, RequestMoves DEF deskVars
  <2>2. ASSUME NEW k \in Sessions, Runner(k) PROVE ~down'
    BY <2>0, <2>2, RunnerMoves DEF SessionsFit, deskVars
  <2>3. CASE Formed \/ BeginUpdate \/ RenewLease \/ Sample \/ Renewed \/ Shutdown \/ ShutdownRefused
             \/ Lapse \/ DesktopCrash
    BY <2>3 DEF Formed, BeginUpdate, RenewLease, Sample, Renewed, Shutdown, Call, ShutdownRefused, Lapse,
       DesktopCrash, deskVars
  <2> QED
    BY <1>3, <2>1, <2>2, <2>3 DEF DrainNext, Desk
<1> QED
  BY <1>1, <1>2, <1>3 DEF AttachedWorkDrains

LEMMA DrainAlways == DrainSpec => []DrainInv
<1>1. DrainInv /\ [DrainNext]_drainVars => DrainInv'
  BY BaseStep, SamplesStep, DownStep DEF DrainInv
<1> QED
  BY <1>1, InitInv, PTL DEF DrainSpec

-----------------------------------------------------------------------------
(***************************************************************************)
(* The theorems.                                                           *)
(***************************************************************************)
\* The types of the daemon, its sessions and requests, and of the coordinator.
THEOREM DrainTypeCorrect == DrainSpec => []DrainTypeOK
<1>1. DrainInv => DrainTypeOK
  BY DEF DrainInv, Base
<1> QED
  BY <1>1, DrainAlways, PTL

\* The daemon is shut down for an update only when no request is on its way and the
\* session the daemon can see (has_busy_sessions, live_sessions) has no work left but
\* what its runner took unseen, in the moment between an interrupted turn and the
\* lowering of the idle flag.
THEOREM AttachedWorkIsDrained == DrainSpec => []AttachedWorkDrains
<1>1. DrainInv => AttachedWorkDrains
  BY DEF DrainInv
<1> QED
  BY <1>1, DrainAlways, PTL

-----------------------------------------------------------------------------
(***************************************************************************)
(* The gate (runtime_admission.rs): its types, its counter, the refusal of *)
(* new work under a lease, and that it implements LeasedLock.              *)
(***************************************************************************)
\* What every method starts with keeps the type of a lease, and says when the
\* gate is open.
LEMMA GateExpires ==
    ASSUME TypeOK
    PROVE  /\ Expire(lease) \in [token : 1..MaxTokens, left : 0..LeaseTime] \cup {NoLease}
           /\ Expire(lease) = NoLease <=> ~Unexpired(lease)
           /\ Unexpired(lease) => /\ Expire(lease) = lease
                                  /\ lease.token \in 1..MaxTokens
                                  /\ lease.left \in 1..LeaseTime
  BY AdmissionAssumption DEF TypeOK, Expire, Unexpired, NoLease

\* The number of workers that hold a permit.
Holders == {w \in Workers : permit[w] # NoPermit}

LEMMA HoldersFinite == IsFiniteSet(Holders) /\ Cardinality(Holders) \in Nat
<1>1. Holders \subseteq Workers
  BY DEF Holders
<1>2. IsFiniteSet(Holders)
  BY <1>1, AdmissionAssumption, FS_Subset
<1> QED
  BY <1>2, FS_CardinalityType

\* The counter and the permits are tied together by every step; the types of
\* the counter follow only from that.
GateFits == TypeOK /\ ActiveCountsPermits

LEMMA InitGateFits == Init => GateFits
<1> SUFFICES ASSUME Init PROVE GateFits
  OBVIOUS
<1>1. TypeOK
  BY AdmissionAssumption DEF Init, TypeOK, NoLease, NoPermit
<1>2. {w \in Workers : permit[w] # NoPermit} = {}
  BY DEF Init
<1>3. ActiveCountsPermits
  BY <1>2, FS_EmptySet DEF ActiveCountsPermits, Init
<1> QED
  BY <1>1, <1>3 DEF GateFits

\* A worker that gets a permit is one more holder, whichever door it used.
LEMMA AnotherHolder ==
    ASSUME GateFits, NEW w \in Workers, NEW p \in {"ordinary", "existing"},
           permit[w] = NoPermit,
           permit' = [permit EXCEPT ![w] = p],
           active' = active + 1
    PROVE  ActiveCountsPermits' /\ active' \in Nat
<1>1. Holders' = Holders \cup {w} /\ w \notin Holders
  BY DEF Holders, GateFits, TypeOK, NoPermit
<1>2. Cardinality(Holders') = Cardinality(Holders) + 1
  BY <1>1, HoldersFinite, FS_AddElement
<1> QED
  BY <1>2, HoldersFinite DEF GateFits, TypeOK, ActiveCountsPermits, Holders

\* Only the steps of a worker touch the counter or the permits.
LEMMA SameHolders ==
    ASSUME GateFits, UNCHANGED <<active, permit>>
    PROVE  ActiveCountsPermits'
  BY DEF GateFits, ActiveCountsPermits

LEMMA NextGateFits == GateFits /\ [Next]_vars => GateFits'
<1> SUFFICES ASSUME GateFits, [Next]_vars PROVE GateFits'
  OBVIOUS
<1> USE AdmissionAssumption
<1>0. TypeOK
  BY DEF GateFits
<1>1. CASE Tick
  <2>1. TypeOK'
    BY <1>0, <1>1 DEF Tick, TypeOK, ownerVars, NoLease
  <2> QED
    BY <2>1, <1>1, SameHolders DEF GateFits, Tick
<1>2. ASSUME NEW w \in Workers, Enter(w) PROVE GateFits'
  <2>1. ActiveCountsPermits' /\ active' \in Nat
    BY <1>2, AnotherHolder DEF Enter
  <2>2. TypeOK'
    BY <1>0, <1>2, <2>1 DEF Enter, TypeOK, ownerVars
  <2> QED
    BY <2>1, <2>2 DEF GateFits
<1>3. ASSUME NEW w \in Workers, EnterExisting(w) PROVE GateFits'
  <2>1. ActiveCountsPermits' /\ active' \in Nat
    BY <1>3, AnotherHolder DEF EnterExisting
  <2>2. TypeOK'
    BY <1>0, <1>3, <2>1 DEF EnterExisting, TypeOK, ownerVars
  <2> QED
    BY <2>1, <2>2 DEF GateFits
<1>4. ASSUME NEW w \in Workers, DropPermit(w) PROVE GateFits'
  <2>1. Holders' = Holders \ {w} /\ w \in Holders
    BY <1>0, <1>4 DEF DropPermit, Holders, TypeOK, NoPermit
  <2>2. Cardinality(Holders') = Cardinality(Holders) - 1
    BY <2>1, HoldersFinite, FS_RemoveElement
  <2>3. active' = Cardinality(Holders')
    BY <2>2, <1>4 DEF DropPermit, GateFits, ActiveCountsPermits, Holders
  <2>4. Cardinality(Holders') \in Nat
    BY <2>1, HoldersFinite, FS_RemoveElement, FS_CardinalityType
  <2>5. TypeOK'
    BY <1>0, <1>4, <2>3, <2>4 DEF DropPermit, TypeOK, ownerVars
  <2> QED
    BY <2>3, <2>5 DEF GateFits, ActiveCountsPermits, Holders
<1>5. ASSUME NEW o \in Owners, Begin(o) PROVE GateFits'
  <2>1. TypeOK'
    BY <1>0, <1>5 DEF Begin, TypeOK
  <2> QED
    BY <2>1, <1>5, SameHolders DEF GateFits, Begin
<1>6. ASSUME NEW o \in Owners, Renew(o) PROVE GateFits'
  <2>1. Unexpired(lease)
    BY <1>6 DEF Renew, Owned, Expire
  <2>2. TypeOK'
    BY <1>0, <1>6, <2>1, GateExpires DEF Renew, TypeOK, ownerVars, Unexpired
  <2> QED
    BY <2>2, <1>6, SameHolders DEF GateFits, Renew
<1>7. ASSUME NEW o \in Owners, Release(o) PROVE GateFits'
  <2>1. TypeOK'
    BY <1>0, <1>7 DEF Release, TypeOK, ownerVars
  <2> QED
    BY <2>1, <1>7, SameHolders DEF GateFits, Release
<1>8. ASSUME NEW o \in Owners, Crash(o) PROVE GateFits'
  <2>1. TypeOK'
    BY <1>0, <1>8 DEF Crash, TypeOK
  <2> QED
    BY <2>1, <1>8, SameHolders DEF GateFits, Crash
<1>9. CASE Observe
  <2>1. TypeOK'
    BY <1>0, <1>9, GateExpires DEF Observe, TypeOK, ownerVars
  <2> QED
    BY <2>1, <1>9, SameHolders DEF GateFits, Observe
<1>10. CASE UNCHANGED vars
  BY <1>10 DEF GateFits, TypeOK, ActiveCountsPermits, vars
<1> QED
  BY <1>1, <1>2, <1>3, <1>4, <1>5, <1>6, <1>7, <1>8, <1>9, <1>10 DEF Next

LEMMA AlwaysGateFits == Spec => []GateFits
  BY InitGateFits, NextGateFits, PTL DEF Spec

\* Type correctness of the gate.
THEOREM GateTypeCorrect == Spec => []TypeOK
<1>1. GateFits => TypeOK
  BY DEF GateFits
<1> QED
  BY <1>1, AlwaysGateFits, PTL

\* The counter update_ready reads is the number of permits alive.
THEOREM CounterCorrect == Spec => []ActiveCountsPermits
<1>1. GateFits => ActiveCountsPermits
  BY DEF GateFits
<1> QED
  BY <1>1, AlwaysGateFits, PTL

-----------------------------------------------------------------------------
\* A standing lease turns ordinary work away: enter is the only way to an
\* ordinary permit, and it looks at the lease first.
THEOREM LeaseRefusesNewWork == Spec => NoNewWorkUnderLease
<1>1. ASSUME GateFits, [Next]_vars
      PROVE  [Unexpired(lease) =>
                \A w \in Workers : permit'[w] = "ordinary" => permit[w] = "ordinary"]_vars
  <2> SUFFICES ASSUME Next, Unexpired(lease), NEW w \in Workers, permit'[w] = "ordinary"
               PROVE  permit[w] = "ordinary"
    BY <1>1 DEF vars
  <2>0. TypeOK
    BY <1>1 DEF GateFits
  <2>1. CASE Tick \/ Observe
    BY <2>1 DEF Tick, Observe
  <2>2. ASSUME NEW v \in Workers, Enter(v) PROVE permit[w] = "ordinary"
    BY <2>0, <2>2, GateExpires DEF Enter
  <2>3. ASSUME NEW v \in Workers, EnterExisting(v) PROVE permit[w] = "ordinary"
    BY <2>0, <2>3 DEF EnterExisting, TypeOK
  <2>4. ASSUME NEW v \in Workers, DropPermit(v) PROVE permit[w] = "ordinary"
    BY <2>0, <2>4 DEF DropPermit, TypeOK, NoPermit
  <2>5. ASSUME NEW o \in Owners, Begin(o) \/ Renew(o) \/ Release(o) \/ Crash(o)
        PROVE  permit[w] = "ordinary"
    BY <2>5 DEF Begin, Renew, Release, Crash
  <2> QED
    BY <2>1, <2>2, <2>3, <2>4, <2>5 DEF Next
<1> QED
  BY <1>1, AlwaysGateFits, PTL DEF Spec, NoNewWorkUnderLease

-----------------------------------------------------------------------------
(***************************************************************************)
(* Refinement.  A lease in the gate was minted, so a fresh token is in     *)
(* force under no lease and in spent under none.                           *)
(***************************************************************************)
MintedInv == lease.token <= minted

RefInv == GateFits /\ MintedInv

LEMMA InitRefInv == Init => RefInv
  BY InitGateFits DEF Init, RefInv, MintedInv, NoLease

LEMMA NextRefInv == RefInv /\ [Next]_vars => RefInv'
<1> SUFFICES ASSUME RefInv, [Next]_vars PROVE MintedInv'
  BY NextGateFits DEF RefInv
<1>0. TypeOK /\ MintedInv
  BY DEF RefInv, GateFits
<1>1. ASSUME lease' \in {lease, NoLease, Expire(lease)}, minted' = minted PROVE MintedInv'
  BY <1>0, <1>1 DEF MintedInv, Expire, NoLease, TypeOK
<1>2. ASSUME lease'.token = lease.token, minted' = minted PROVE MintedInv'
  BY <1>0, <1>2 DEF MintedInv
<1>3. CASE Tick
  BY <1>0, <1>2, <1>3 DEF Tick, ownerVars, TypeOK, NoLease
<1>4. ASSUME NEW w \in Workers, Enter(w) \/ EnterExisting(w) \/ DropPermit(w) PROVE MintedInv'
  BY <1>1, <1>4 DEF Enter, EnterExisting, DropPermit, ownerVars
<1>5. ASSUME NEW o \in Owners, Begin(o) PROVE MintedInv'
  BY <1>0, <1>5 DEF Begin, MintedInv, TypeOK
<1>6. ASSUME NEW o \in Owners, Renew(o) PROVE MintedInv'
  BY <1>0, <1>2, <1>6 DEF Renew, ownerVars, TypeOK, NoLease
<1>7. ASSUME NEW o \in Owners, Release(o) \/ Crash(o) PROVE MintedInv'
  BY <1>1, <1>7 DEF Release, Crash, ownerVars
<1>8. CASE Observe
  BY <1>1, <1>8 DEF Observe, ownerVars
<1>9. CASE UNCHANGED vars
  BY <1>1, <1>9 DEF vars
<1> QED
  BY <1>3, <1>4, <1>5, <1>6, <1>7, <1>8, <1>9 DEF Next

LEMMA AlwaysRefInv == Spec => []RefInv
  BY InitRefInv, NextRefInv, PTL DEF Spec

\* The token in force, as the refinement sees it.
Holder == IF Unexpired(lease) THEN lease.token ELSE 0

LEMMA GateInit == Init => Gate!Init
  BY AdmissionAssumption DEF Init, Gate!Init, Unexpired, NoLease

\* Begin takes the lock with a token never seen; every other step keeps the
\* holder or loses it.
LEMMA GateStep ==
    ASSUME RefInv, [Next]_vars
    PROVE  [Gate!Next]_<<Holder, 1..minted>>
<1> USE AdmissionAssumption
<1>0. TypeOK /\ MintedInv
  BY DEF RefInv, GateFits
<1>a. ASSUME minted' = minted, Holder' \in {Holder, 0}
      PROVE  [Gate!Next]_<<Holder, 1..minted>>
  BY <1>a DEF Gate!Next, Gate!GiveUp, Holder
<1>1. CASE Tick
  <2>1. Unexpired(lease)
    BY <1>0, <1>1 DEF Tick, Unexpired, TypeOK, NoLease
  <2>2. lease'.token = lease.token
    BY <1>0, <1>1 DEF Tick, TypeOK, NoLease
  <2> QED
    BY <1>a, <1>1, <2>1, <2>2 DEF Tick, ownerVars, Holder
<1>2. ASSUME NEW w \in Workers, Enter(w) \/ EnterExisting(w) \/ DropPermit(w)
      PROVE  [Gate!Next]_<<Holder, 1..minted>>
  BY <1>a, <1>2 DEF Enter, EnterExisting, DropPermit, ownerVars, Holder, Unexpired
<1>3. ASSUME NEW o \in Owners, Begin(o)
      PROVE  [Gate!Next]_<<Holder, 1..minted>>
  <2>1. Holder = 0
    BY <1>0, <1>3, GateExpires DEF Begin, Holder
  <2>2. Holder' = minted + 1
    BY <1>3, <1>0 DEF Begin, Holder, Unexpired, NoLease, TypeOK
  <2>3. (1..minted)' = (1..minted) \cup {minted + 1}
    BY <1>3, <1>0 DEF Begin, TypeOK
  <2>4. minted + 1 \in 1..MaxTokens /\ minted + 1 \notin 1..minted
    BY <1>3, <1>0 DEF Begin, TypeOK
  <2>5. Gate!Take(minted + 1)
    BY <2>1, <2>2, <2>3, <2>4 DEF Gate!Take, Holder
  <2> QED
    BY <2>4, <2>5 DEF Gate!Next
<1>4. ASSUME NEW o \in Owners, Renew(o)
      PROVE  [Gate!Next]_<<Holder, 1..minted>>
  <2>1. Unexpired(lease)
    BY <1>4 DEF Renew, Owned, Expire
  <2>2. lease'.token = lease.token
    BY <1>0, <1>4 DEF Renew, TypeOK, NoLease
  <2>3. Unexpired(lease')
    BY <1>0, <1>4, <2>1, GateExpires DEF Renew, TypeOK, Unexpired, NoLease
  <2> QED
    BY <1>a, <1>4, <2>1, <2>2, <2>3 DEF Renew, ownerVars, Holder
<1>5. ASSUME NEW o \in Owners, Release(o) \/ Crash(o)
      PROVE  [Gate!Next]_<<Holder, 1..minted>>
  BY <1>a, <1>5 DEF Release, Crash, ownerVars, Holder, Unexpired
<1>6. CASE Observe
  BY <1>a, <1>6 DEF Observe, ownerVars, Holder, Expire, Unexpired
<1>7. CASE UNCHANGED vars
  BY <1>a, <1>7 DEF vars, Holder, Unexpired
<1> QED
  BY <1>1, <1>2, <1>3, <1>4, <1>5, <1>6, <1>7 DEF Next

\* The gate implements the lock.
THEOREM GateImplementsLock == Spec => GateIsLeasedLock
<1>1. RefInv /\ [Next]_vars => [Gate!Next]_<<Holder, 1..minted>>
  BY GateStep
<1> QED
  BY <1>1, GateInit, AlwaysRefInv, PTL DEF Spec, GateIsLeasedLock, Gate!Spec, Holder
=============================================================================
