---------------------------- MODULE UpdateDrain ----------------------------
(***************************************************************************)
(* An update of the running daemon: the desktop coordinator                *)
(* (desktop/src/main/update-machine.ts) takes the maintenance lease, asks   *)
(* until the daemon says it is ready, and shuts it down; meanwhile admitted *)
(* requests, live sessions and the Brain finish their work.                *)
(*                                                                         *)
(* The gate is Admission seen from here: a lease that stands or not, and    *)
(* the number of permits alive (proved there to be what the gate counts).   *)
(* Its names differ from that module's, so that one can extend both.        *)
(* update_ready samples permits, sessions and the Brain one after the       *)
(* other while everything moves.  The Brain is another service: it is busy  *)
(* from the moment it accepts a formation until it has formed it.           *)
(*                                                                         *)
(* All sessions are of one thread, so that the table holds one of them, and *)
(* what removes a session by its name removes whichever that is.           *)
(***************************************************************************)
EXTENDS Naturals, FiniteSets

CONSTANTS Requests,     \* requests, each of one kind
          Kinds,        \* what they may ask for
          MaxSessions,  \* bound on the sessions ever created
          Retries       \* renewals after the first (18 in the coordinator)

ASSUME DrainAssumption ==
    /\ IsFiniteSet(Requests)
    /\ Kinds \subseteq {"plain", "stop", "new"}
    /\ MaxSessions \in Nat \ {0}
    /\ Retries \in Nat

Sessions == 1..MaxSessions

VARIABLES
    standing,   \* the maintenance lease stands
    desk,       \* where the coordinator is
    tries,      \* renewals it has made beyond the first
    check,      \* where the maintenance handler is in update_ready
    req,        \* request -> [kind, pc, at]
    table,      \* the session the table holds for the thread, 0: none
    sess,       \* session -> its shared state and its runner (see NoSession)
    brain,      \* the Brain is forming
    down        \* the daemon was told to shut down

deskVars == <<desk, tries, check, standing, down>>
drainVars == <<standing, desk, tries, check, req, table, sess, brain, down>>

RequestSteps == {"away", "admitted", "sending", "signal", "done", "refused"}
RunnerSteps == {"none", "drain", "run", "attach", "next", "settle", "form", "tick", "wait",
                "lastform", "last", "close", "rescue", "leave", "gone"}
Checks == {"none", "active", "flag", "channel", "brain", "active2", "flag2", "channel2", "yes", "no"}
DeskSteps == {"off", "pause", "renewing", "shutting", "installed", "stopped"}

\* closed: the channel is; finish: finish_when_idle; idle: runner_idle; signal: the
\* pending flag of SessionControl; queue: in the channel; hand: taken out of it; work:
\* with the completion runner; unseen (of the
\* model): the batch was taken while the handler could not see it.
NoSession == [pc |-> "none", closed |-> FALSE, finish |-> FALSE, idle |-> FALSE,
              signal |-> FALSE, queue |-> {}, hand |-> {}, work |-> {}, unseen |-> FALSE]

DrainInit ==
    /\ standing = FALSE
    /\ desk = "off"
    /\ tries = 0
    /\ check = "none"
    /\ req \in [Requests -> [kind : Kinds, pc : {"away"}, at : {0}]]
    /\ table = 0
    /\ sess = [k \in Sessions |-> NoSession]
    /\ brain = FALSE
    /\ down = FALSE

-----------------------------------------------------------------------------
\* Permits alive: a request's until run() returns, and the one of a formation
\* that is being posted to the Brain.
Active ==
    Cardinality({r \in Requests : req[r].pc \in {"admitted", "sending", "signal"}})
    + Cardinality({k \in Sessions : sess[k].pc \in {"form", "lastform"}})

\* live_sessions: the session of the table, unless its channel is closed.
Listed == {k \in Sessions : table = k /\ ~sess[k].closed}

\* Mutant of ChannelsEmpty: only the flag is looked at.
ChannelsIgnored == TRUE

\* has_busy_sessions asks Session::is_idle, which looks at the flag and then at the
\* channel (and at background tasks, which are left out).
FlagsUp == \A k \in Listed : sess[k].idle
ChannelsEmpty == \A k \in Listed : sess[k].queue = {}

-----------------------------------------------------------------------------
(***************************************************************************)
(* Requests.                                                               *)
(***************************************************************************)

\* AndaBot::admit: /stop passes a standing lease, new work does not.
Admit(r) == req[r].kind = "stop" \/ ~standing

Arrive(r) ==
    /\ ~down
    /\ req[r].pc = "away"
    /\ req' = [req EXCEPT ![r].pc = IF Admit(r) THEN "admitted" ELSE "refused"]
    /\ UNCHANGED <<deskVars, table, sess, brain>>

\* join_session lowers the idle flag before it sends.
Join(r, k) ==
    /\ ~down
    /\ req[r].pc = "admitted"
    /\ req[r].kind # "new"
    /\ k \in Listed
    /\ sess' = [sess EXCEPT ![k].idle = FALSE]
    /\ req' = [req EXCEPT ![r].pc = "sending", ![r].at = k]
    /\ UNCHANGED <<deskVars, table, brain>>

\* The channel takes the input; or it is closed, and the session the table holds
\* under the name is removed.
Send(r) ==
    /\ ~down
    /\ req[r].pc = "sending"
    /\ \/ /\ ~sess[req[r].at].closed
          /\ sess' = [sess EXCEPT ![req[r].at].queue = @ \cup {r}]
          /\ req' = IF req[r].kind = "stop" THEN [req EXCEPT ![r].pc = "signal"]
                    ELSE [req EXCEPT ![r].pc = "done", ![r].at = 0]
          /\ UNCHANGED table
       \/ /\ sess[req[r].at].closed
          /\ table' = 0
          /\ req' = [req EXCEPT ![r].pc = "admitted", ![r].at = 0]
          /\ UNCHANGED sess
    /\ UNCHANGED <<deskVars, brain>>

\* After the /stop its signal.
Raise(r) ==
    /\ ~down
    /\ req[r].pc = "signal"
    /\ sess' = [sess EXCEPT ![req[r].at].signal = TRUE]
    /\ req' = [req EXCEPT ![r].pc = "done", ![r].at = 0]
    /\ UNCHANGED <<deskVars, table, brain>>

\* No session to join: a new one, whose runner starts with the request.
Create(r) ==
    /\ ~down
    /\ req[r].pc = "admitted"
    /\ req[r].kind = "plain"
    /\ Listed = {}
    /\ \E k \in Sessions :
          /\ sess[k].pc = "none"
          /\ \A j \in 1..(k - 1) : sess[j].pc # "none"
          /\ sess' = [sess EXCEPT ![k] = [NoSession EXCEPT !.pc = "drain", !.work = {r}]]
          /\ table' = k
    /\ req' = [req EXCEPT ![r].pc = "done"]
    /\ UNCHANGED <<deskVars, brain>>

\* A bare /new takes the session it finds out of the table, to finish by itself.
Detach(r) ==
    /\ ~down
    /\ req[r].pc = "admitted"
    /\ req[r].kind = "new"
    /\ sess' = [k \in Sessions |-> [sess[k] EXCEPT !.finish = @ \/ k \in Listed]]
    /\ table' = IF Listed = {} THEN table ELSE 0
    /\ req' = [req EXCEPT ![r].pc = "done"]
    /\ UNCHANGED <<deskVars, brain>>

\* /stop without a session.
Refuse(r) ==
    /\ ~down
    /\ req[r].pc = "admitted"
    /\ req[r].kind = "stop"
    /\ Listed = {}
    /\ req' = [req EXCEPT ![r].pc = "refused"]
    /\ UNCHANGED <<deskVars, table, sess, brain>>

-----------------------------------------------------------------------------
(***************************************************************************)
(* The runner of a session, as far as its idle flag and its work go.       *)
(* Turns that fail, /cancel, goals and background tasks are left out.      *)
(***************************************************************************)
At(k, step) == ~down /\ sess[k].pc = step
Becomes(k, s) == sess' = [sess EXCEPT ![k] = s] /\ UNCHANGED <<deskVars, req>>

\* The channel is drained.  The idle flag is lowered later: a batch taken while it is
\* up is unseen.
Drain(k) ==
    /\ At(k, "drain")
    /\ LET s == sess[k]
           hand == s.hand \cup s.queue
       IN  Becomes(k, [s EXCEPT
              !.pc = "run", !.signal = FALSE, !.queue = {}, !.hand = hand,
              !.unseen = \/ s.idle /\ hand # {}
                         \/ s.unseen /\ (s.hand # {} \/ s.work # {})])
    /\ UNCHANGED <<table, brain>>

Stops(rs) == {r \in rs : req[r].kind = "stop"}

\* run() lowers the flag when there is input ...
Run(k) ==
    /\ At(k, "run")
    /\ Stops(sess[k].hand) = {}
    /\ Becomes(k, [sess[k] EXCEPT !.pc = "attach", !.idle = @ /\ sess[k].hand = {}])
    /\ UNCHANGED <<table, brain>>

\* ... and a /stop ends the current task.  What came before it goes too, what came
\* after it is kept for the next round (in which order they came is not modelled).
RunStop(k) ==
    /\ At(k, "run")
    /\ \E first \in Stops(sess[k].hand) : \E kept \in SUBSET (sess[k].hand \ {first}) :
          /\ Stops(sess[k].hand) \subseteq kept \cup {first}
          /\ Becomes(k, [sess[k] EXCEPT !.pc = "drain", !.idle = FALSE, !.hand = kept,
                                        !.work = {}])
    /\ UNCHANGED <<table, brain>>

\* A pending signal drops the batch; otherwise it is attached, and the flag mirrors
\* the completion runner.
Attach(k) ==
    /\ At(k, "attach")
    /\ LET s == sess[k]
           work == s.work \cup s.hand
       IN  Becomes(k, IF s.signal
                      THEN [s EXCEPT !.pc = "drain", !.hand = {}]
                      ELSE [s EXCEPT !.pc = "next", !.hand = {}, !.work = work,
                                     !.idle = work = {}])
    /\ UNCHANGED <<table, brain>>

\* The signal interrupts next(): the flag stays as it is.
Interrupted(k) ==
    /\ At(k, "next")
    /\ sess[k].signal
    /\ Becomes(k, [sess[k] EXCEPT !.pc = "drain"])
    /\ UNCHANGED <<table, brain>>

\* next() returned and the flag is lowered: an answer is settled; with nothing to do, a
\* window may be due (FormationJournal says when).
Returned(k) ==
    /\ At(k, "next")
    /\ \E step \in IF sess[k].work # {} THEN {"settle"}
                   ELSE {"form", "tick"} :
          Becomes(k, [sess[k] EXCEPT !.pc = step, !.idle = FALSE,
                                     !.unseen = @ /\ sess[k].work # {}])
    /\ UNCHANGED <<table, brain>>

\* After a turn: hooks and history.  The task goes on, or has an answer; the answer of
\* a runner that is done is submitted and ends the session.
Settle(k) ==
    /\ At(k, "settle")
    /\ \/ Becomes(k, [sess[k] EXCEPT !.pc = "drain"])
       \/ \E step \in {"drain", "lastform", "last"} :
             Becomes(k, [sess[k] EXCEPT !.pc = step, !.work = {},
                                        !.unseen = FALSE])
    /\ UNCHANGED <<table, brain>>

\* The window is posted to the Brain, which is busy from then on; or the post fails.
Form(k) ==
    /\ At(k, "form") \/ At(k, "lastform")
    /\ Becomes(k, [sess[k] EXCEPT !.pc = IF @ = "form" THEN "tick" ELSE "last"])
    /\ brain' \in {brain, TRUE}
    /\ UNCHANGED table

\* An idle tick: wait for a second, or (told to finish, or after ten minutes) end.
IdleTick(k) ==
    /\ At(k, "tick")
    /\ \E step \in IF sess[k].finish THEN {"last"} ELSE {"wait", "last"} :
          Becomes(k, [sess[k] EXCEPT !.pc = step])
    /\ UNCHANGED <<table, brain>>

\* An input arrives, which lowers the flag, or the second passes.
Wake(k) ==
    /\ At(k, "wait")
    /\ LET s == sess[k]
       IN  \/ \E r \in s.queue :
                Becomes(k, [s EXCEPT !.pc = "drain", !.queue = @ \ {r}, !.hand = {r},
                                     !.idle = FALSE])
           \/ Becomes(k, [s EXCEPT !.pc = "drain"])
    /\ UNCHANGED <<table, brain>>

\* What is left in the channel, before it is closed and after, is worked on: in the
\* second case behind a closed channel.
Rest(k, then) ==
    LET s == sess[k]
        hand == s.hand \cup s.queue
    IN  Becomes(k, [s EXCEPT !.pc = IF hand = {} THEN then ELSE "drain", !.queue = {},
                             !.hand = hand])

LastDrain(k) == At(k, "last") /\ Rest(k, "close") /\ UNCHANGED <<table, brain>>

Close(k) ==
    /\ At(k, "close")
    /\ Becomes(k, [sess[k] EXCEPT !.pc = "rescue", !.closed = TRUE])
    /\ UNCHANGED <<table, brain>>

Rescue(k) == At(k, "rescue") /\ Rest(k, "leave") /\ UNCHANGED <<table, brain>>

\* detach_session: by name.
Leave(k) ==
    /\ At(k, "leave")
    /\ Becomes(k, [NoSession EXCEPT !.pc = "gone", !.closed = TRUE])
    /\ table' = 0
    /\ UNCHANGED brain

\* The Brain has formed what it was given.
Formed ==
    /\ ~down
    /\ brain
    /\ brain' = FALSE
    /\ UNCHANGED <<deskVars, req, table, sess>>

-----------------------------------------------------------------------------
(***************************************************************************)
(* The coordinator and the maintenance handler.                            *)
(***************************************************************************)
world == <<req, table, sess, brain>>

BeginUpdate ==
    /\ ~down
    /\ desk = "off"
    /\ standing' = TRUE
    /\ desk' = "pause"
    /\ UNCHANGED <<tries, check, down, world>>

\* "renew" and "shutdown" both renew the lease first; without one they fail.
\* The failure leaves the lease (if any) to its deadline.
Call(step) ==
    /\ ~down
    /\ IF standing THEN desk' = step /\ check' = "active" /\ UNCHANGED tries
                   ELSE desk' = "stopped" /\ UNCHANGED check /\ tries' = 0
    /\ UNCHANGED <<standing, down, world>>

RenewLease == desk = "pause" /\ Call("renewing")

\* What each sample of update_ready must find.
Sampled ==
    [active |-> Active = 0, flag |-> FlagsUp, channel |-> ChannelsEmpty, brain |-> ~brain,
     active2 |-> Active = 0, flag2 |-> FlagsUp, channel2 |-> ChannelsEmpty]

Following ==
    [active |-> "flag", flag |-> "channel", channel |-> "brain", brain |-> "active2",
     active2 |-> "flag2", flag2 |-> "channel2", channel2 |-> "yes"]

\* Mutant of Sample: the handler asks until the answer is yes.
SampleUntilReady ==
    /\ ~down
    /\ check \in DOMAIN Sampled
    /\ Sampled[check] /\ check' = Following[check]
    /\ UNCHANGED <<standing, desk, tries, down, world>>

\* update_ready, one sample a step; the Brain's answer may also be an error.
Sample ==
    /\ ~down
    /\ check \in DOMAIN Sampled
    /\ \/ Sampled[check] /\ check' = Following[check]
       \/ (~Sampled[check] \/ check = "brain") /\ check' = "no"
    /\ UNCHANGED <<standing, desk, tries, down, world>>

MayRetry == tries < Retries

\* The answer to a renewal: install, wait and ask again, or give up and release.
Renewed ==
    /\ ~down
    /\ desk = "renewing"
    /\ check \in {"yes", "no"}
    /\ check' = "none"
    /\ \/ check = "yes" /\ desk' = "shutting" /\ UNCHANGED <<tries, standing>>
       \/ check = "no" /\ MayRetry /\ tries' = tries + 1 /\ desk' = "pause"
          /\ UNCHANGED standing
       \/ check = "no" /\ ~MayRetry /\ desk' = "stopped" /\ standing' = FALSE
          /\ tries' = 0
    /\ UNCHANGED <<down, world>>

Shutdown == desk = "shutting" /\ check = "none" /\ Call("shutting")

\* The handler shuts down only when the runtime is ready then, too.
Granted == check = "yes"

ShutDown ==
    /\ ~down
    /\ desk = "shutting"
    /\ Granted
    /\ down' = TRUE
    /\ desk' = "installed"
    /\ check' = "none"
    /\ UNCHANGED <<standing, tries, world>>

\* "Runtime still has active work": the coordinator recovers, and releases.
ShutdownRefused ==
    /\ ~down
    /\ desk = "shutting"
    /\ check = "no"
    /\ desk' = "stopped"
    /\ check' = "none"
    /\ standing' = FALSE
    /\ tries' = 0
    /\ UNCHANGED <<down, world>>

\* The lease runs out.  Not while the handler works: the desktop gives up a
\* request after 15 of the 90 seconds.
Lapse ==
    /\ ~down
    /\ standing
    /\ check = "none"
    /\ standing' = FALSE
    /\ UNCHANGED <<desk, tries, check, down, world>>

\* The desktop goes away.
DesktopCrash ==
    /\ ~down
    /\ desk \notin {"off", "installed", "stopped"}
    /\ desk' = "stopped"
    /\ check' = "none"
    /\ tries' = 0
    /\ UNCHANGED <<standing, down, world>>

-----------------------------------------------------------------------------
Request(r) ==
    Arrive(r) \/ (\E k \in Sessions : Join(r, k)) \/ Send(r) \/ Raise(r)
    \/ Create(r) \/ Detach(r) \/ Refuse(r)
Runner(k) ==
    Drain(k) \/ Run(k) \/ RunStop(k) \/ Attach(k) \/ Interrupted(k) \/ Returned(k) \/ Settle(k)
    \/ Form(k) \/ IdleTick(k) \/ Wake(k) \/ LastDrain(k) \/ Close(k) \/ Rescue(k) \/ Leave(k)
Desk == BeginUpdate \/ RenewLease \/ Sample \/ Renewed \/ Shutdown \/ ShutDown \/ ShutdownRefused

DrainNext ==
    \/ \E r \in Requests : Request(r)
    \/ \E k \in Sessions : Runner(k)
    \/ Formed \/ Desk \/ Lapse \/ DesktopCrash

DrainSpec == DrainInit /\ [][DrainNext]_drainVars

\* The daemon serves its handlers, and the coordinator goes on.
FairDrainSpec == DrainSpec /\ WF_drainVars(Desk)

-----------------------------------------------------------------------------
\* The types of the variables.
DrainTypeOK ==
    /\ standing \in BOOLEAN
    /\ desk \in DeskSteps
    /\ tries \in 0..Retries
    /\ check \in Checks
    /\ req \in [Requests -> [kind : Kinds, pc : RequestSteps, at : 0..MaxSessions]]
    /\ table \in 0..MaxSessions
    /\ sess \in [Sessions -> [pc : RunnerSteps, closed : BOOLEAN, finish : BOOLEAN,
                              idle : BOOLEAN, signal : BOOLEAN, queue : SUBSET Requests,
                              hand : SUBSET Requests, work : SUBSET Requests,
                              unseen : BOOLEAN]]
    /\ brain \in BOOLEAN
    /\ down \in BOOLEAN

\* Work that was admitted: a prompt on its way to a session, in its channel or
\* with its runner.
Prompt(r) == req[r].kind # "stop"
PromptInFlight == \E r \in Requests : Prompt(r) /\ req[r].pc \in {"admitted", "sending"}
AtWork(k) ==
    \/ \E r \in sess[k].queue \cup sess[k].hand : Prompt(r)
    \/ sess[k].work # {}

\* The daemon is shut down for an update only when no request is on its way and the
\* live session of the table has no work left, wherever that moved while update_ready
\* took its samples: but for a batch the runner took while the handler could not see
\* it.
AttachedWorkDrains ==
    down => ~PromptInFlight /\ \A k \in Listed : AtWork(k) => sess[k].unseen

\* "Existing work drains" (runtime_admission.rs), of sessions outside the table and
\* behind a closed channel too.
ExistingWorkDrains == down => ~PromptInFlight /\ \A k \in Sessions : ~AtWork(k)

\* The update concludes: installed, or given up.
UpdateConcludes ==
    desk = "pause" ~> desk \in {"installed", "stopped"}

=============================================================================
