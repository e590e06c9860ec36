---------------------------- MODULE SessionTable ----------------------------
(***************************************************************************)
(* How AndaBot::run (engine/agent.rs) routes the requests one caller makes *)
(* on one source: join a live session, or create one under the creation    *)
(* lock, with the lock released while the system prompt is built; and how  *)
(* the table of live sessions changes when runners end.                    *)
(*                                                                         *)
(* A session is named by the thread id of its conversation, so successive  *)
(* sessions of one conversation share a name: the table maps names, the    *)
(* model also numbers the sessions.  What a session does with a message is *)
(* the matter of SessionMailbox; here it serves what it accepted and ends. *)
(***************************************************************************)
EXTENDS Naturals, FiniteSets

CONSTANTS Requests,     \* requests of one caller on one source
          Commands,     \* the commands they may carry
          MaxSessions,  \* bound on the sessions ever created
          Windows       \* the gaps between two awaits that may be entered

ASSUME TableAssumption ==
    /\ IsFiniteSet(Requests)
    /\ MaxSessions \in Nat \ {0}
    /\ Commands \subseteq {"plain", "control", "new", "new_prompt"}
    /\ Windows \subseteq {"slow_join", "slip_in", "late_leave"}

\* "slow_join": join_session waits for room (or another thread runs) between
\* the lookup and the send.  "slip_in": an input arrives between a runner's last
\* drain and the closing of its channel, and the runner goes on for it.
\* "late_leave": another thread runs between the closing of the channel and the
\* runner's detach_session.

Sessions == 1..MaxSessions
Names == 1..(MaxSessions + Cardinality(Requests))

VARIABLES
    source,    \* SourceState.conv_id (0: none)
    convs,     \* conversation -> [thread, open]; open: should_continue_conversation
    table,     \* AndaBotInner.sessions: name -> session (0: none)
    sess,      \* session -> its conversation, life, inbox and finish_when_idle
    created,   \* sessions created so far
    names,     \* names drawn so far
    req,       \* request -> its progress through run()
    before,    \* history: request -> what a /new had left when it arrived
    served     \* history: the requests a session has worked on or dropped

histVars == <<before, served>>
vars == <<source, convs, table, sess, created, names, req, before, served>>

NoSession == [conv |-> 0, name |-> 0, life |-> "none", inbox |-> {}, finish |-> FALSE]
Lives == {"none", "open", "rescuing", "leaving", "gone"}

\* conv: the conversation the source pointed to when the request arrived, and
\* whether it could be continued then; name: sess_id; at: the session it joins;
\* left: detached_conversation_id and detached: detached_existing_session of a
\* /new; built: instructions.is_some().
Away == [pc |-> "away", cmd |-> "plain", conv |-> 0, cont |-> FALSE, name |-> 0,
         at |-> 0, left |-> 0, detached |-> FALSE, built |-> FALSE]
Steps == {"away", "look", "past", "send", "build", "create", "done", "refused"}

Init ==
    /\ source = 0
    /\ convs = [c \in Sessions |-> [thread |-> 0, open |-> FALSE]]
    /\ table = [n \in Names |-> 0]
    /\ sess = [k \in Sessions |-> NoSession]
    /\ created = 0
    /\ names = 0
    /\ req = [r \in Requests |-> Away]
    /\ before = [r \in Requests |-> [convs |-> {}, sessions |-> {}]]
    /\ served = {}

-----------------------------------------------------------------------------
\* live_sessions: a name whose runner still has its channel open.
Live(n) == table[n] # 0 /\ sess[table[n]].life = "open"

\* find_joinable_session: the session of that name, or any of this source.
Joinable(n) ==
    IF Live(n) THEN {table[n]} ELSE {table[m] : m \in {x \in Names : Live(x)}}

\* The creation lock is free.
LockFree == \A r \in Requests : req[r].pc \notin {"past", "create"}

\* A request looks under the lock.
Looking(r) == req[r].pc = "look" /\ LockFree

\* It found nothing to join, or detached what it found.
Unjoined(r) ==
    \/ Looking(r) /\ Joinable(req[r].name) = {}
    \/ req[r].pc = "past"

\* Mutant of Unlisted: the entry stays.
StillListed(k) == table

\* detach_session(&session.id), by name.
Unlisted(k) == [table EXCEPT ![sess[k].name] = 0]

\* finish_when_idle is raised.
Finishing(k) == [sess EXCEPT ![k].finish = TRUE]

\* session.conversation_id
ConversationOf(k) == sess[k].conv

Goto(r, pc) == req' = [req EXCEPT ![r].pc = pc]

\* A request arrives: its source points to a conversation, whose thread names
\* the session; without one a name is drawn.
Arrive(r, cmd) ==
    /\ req[r].pc = "away"
    /\ LET fresh == names + 1
           name == IF source = 0 THEN fresh ELSE convs[source].thread
       IN  /\ req' = [req EXCEPT ![r] = [Away EXCEPT
                        !.pc = "look", !.cmd = cmd, !.conv = source, !.name = name,
                        !.cont = source # 0 /\ convs[source].open,
                        !.left = source]]
           /\ names' = IF source = 0 THEN fresh ELSE names
    /\ before' = [before EXCEPT ![r] =
          [convs |-> {req[q].left : q \in {p \in Requests :
                        req[p].pc = "done" /\ req[p].cmd = "new"}} \ {0},
           sessions |-> {k \in Sessions : sess[k].finish}]]
    /\ UNCHANGED <<source, convs, table, sess, created, served>>

\* A joinable session: join_session, outside the lock.
LookJoins(r, k) ==
    /\ Looking(r)
    /\ req[r].cmd \in {"plain", "control"}
    /\ k \in Joinable(req[r].name)
    /\ IF "slow_join" \in Windows
       THEN /\ req' = [req EXCEPT ![r].pc = "send", ![r].at = k]
            /\ UNCHANGED sess
       ELSE /\ req' = [req EXCEPT ![r].pc = "done", ![r].at = k]
            /\ sess' = [sess EXCEPT ![k].inbox = @ \cup {r}]
    /\ UNCHANGED <<source, convs, table, created, names, histVars>>

\* /new detaches it, and looks again when it was on another conversation than the
\* source; the detached session finishes its work.
LookDetaches(r, k) ==
    /\ Looking(r)
    /\ req[r].cmd \in {"new", "new_prompt"}
    /\ k \in Joinable(req[r].name)
    /\ table' = Unlisted(k)
    /\ sess' = Finishing(k)
    /\ req' = [req EXCEPT ![r].left = ConversationOf(k), ![r].detached = TRUE,
                          ![r].pc = IF ConversationOf(k) = req[r].conv THEN "past" ELSE "look"]
    /\ UNCHANGED <<source, convs, created, names, histVars>>

\* Nothing to join: leave the lock to build the system prompt ...
LookBuilds(r) ==
    /\ Unjoined(r)
    /\ ~req[r].built
    /\ Goto(r, "build")
    /\ UNCHANGED <<source, convs, table, sess, created, names, histVars>>

\* Mutant of Built: the session table is not looked at again.
BuiltCreates(r) ==
    /\ req[r].pc = "build" /\ LockFree
    /\ req' = [req EXCEPT ![r].pc = IF @ = "build" /\ req[r].cmd \in {"plain", "new_prompt"}
                                    THEN "create" ELSE "look",
                          ![r].built = TRUE]
    /\ UNCHANGED <<source, convs, table, sess, created, names, histVars>>

\* ... and look again.
Built(r) ==
    /\ req[r].pc = "build"
    /\ req' = [req EXCEPT ![r].pc = "look", ![r].built = TRUE]
    /\ UNCHANGED <<source, convs, table, sess, created, names, histVars>>

BuildFails(r) ==
    /\ req[r].pc = "build"
    /\ Goto(r, "refused")
    /\ UNCHANGED <<source, convs, table, sess, created, names, histVars>>

\* The second look finds nothing either: the lock is kept.
LookCreates(r) ==
    /\ Unjoined(r)
    /\ req[r].built
    /\ req[r].cmd \in {"plain", "new_prompt"}
    /\ created < MaxSessions
    /\ Goto(r, "create")
    /\ UNCHANGED <<source, convs, table, sess, created, names, histVars>>

\* /stop and /cancel need a session.
LookRefuses(r) ==
    /\ Unjoined(r)
    /\ req[r].built
    /\ req[r].cmd = "control"
    /\ Goto(r, "refused")
    /\ UNCHANGED <<source, convs, table, sess, created, names, histVars>>

\* A /new completes the conversation it leaves only when it detached no session.
Completed(r) ==
    IF ~req[r].detached /\ req[r].conv # 0
    THEN [convs EXCEPT ![req[r].conv].open = FALSE] ELSE convs

\* A bare /new ends here.
LookEnds(r) ==
    /\ Unjoined(r)
    /\ req[r].built
    /\ req[r].cmd = "new"
    /\ convs' = Completed(r)
    /\ source' = IF req[r].left # req[r].conv THEN req[r].left ELSE source
    /\ Goto(r, "done")
    /\ UNCHANGED <<table, sess, created, names, histVars>>

\* should_continue, decided on the conversation read at arrival.
Continues(r) == req[r].cmd # "new_prompt" /\ req[r].cont

\* create_session: the conversation goes on or a new one starts, the session is
\* registered and the lock released.
Create(r) ==
    /\ req[r].pc = "create"
    /\ LET k == created + 1
           c == IF Continues(r) THEN req[r].conv ELSE k
           standalone == req[r].cmd = "new_prompt"
           name == IF standalone THEN names + 1 ELSE req[r].name
           left == IF standalone THEN Completed(r) ELSE convs
       IN  /\ convs' = [left EXCEPT ![c] = [thread |-> name, open |-> TRUE]]
           /\ names' = IF standalone THEN name ELSE names
           /\ source' = IF c # req[r].conv THEN c ELSE source
           /\ sess' = [sess EXCEPT ![k] = [conv |-> c, name |-> name, life |-> "open",
                                           inbox |-> {r}, finish |-> FALSE]]
           /\ table' = [table EXCEPT ![name] = k]
           /\ created' = k
           /\ req' = [req EXCEPT ![r].pc = "done", ![r].at = k]
    /\ UNCHANGED histVars

\* The store fails: before or after a /new has completed what it leaves.
CreateFails(r) ==
    /\ req[r].pc = "create"
    /\ convs' \in {convs} \cup (IF req[r].cmd = "new_prompt" THEN {Completed(r)} ELSE {})
    /\ Goto(r, "refused")
    /\ UNCHANGED <<source, table, sess, created, names, histVars>>

\* sender.send succeeds.
Send(r) ==
    /\ req[r].pc = "send"
    /\ sess[req[r].at].life = "open"
    /\ sess' = [sess EXCEPT ![req[r].at].inbox = @ \cup {r}]
    /\ Goto(r, "done")
    /\ UNCHANGED <<source, convs, table, created, names, histVars>>

\* The channel is closed: whatever holds the session's name is detached, and the
\* request looks again.
SendRejected(r) ==
    /\ req[r].pc = "send"
    /\ sess[req[r].at].life # "open"
    /\ table' = Unlisted(req[r].at)
    /\ req' = [req EXCEPT ![r].pc = "look", ![r].at = 0]
    /\ UNCHANGED <<source, convs, sess, created, names, histVars>>

-----------------------------------------------------------------------------
(***************************************************************************)
(* The runners, as far as the table can tell.                              *)
(***************************************************************************)

\* What was accepted is worked on.
Serve(k) ==
    /\ sess[k].life \in {"open", "rescuing"}
    /\ sess[k].inbox # {}
    /\ served' = served \cup sess[k].inbox
    /\ sess' = [sess EXCEPT ![k].inbox = {}]
    /\ convs' = [convs EXCEPT ![sess[k].conv].open = TRUE]
    /\ UNCHANGED <<source, table, created, names, req, before>>

\* Mutant of Idle: whatever waits goes down with the session.
IdleOrNot(k) == sess[k].life \in {"open", "rescuing"}

\* Nothing waits.
Idle(k) == sess[k].life \in {"open", "rescuing"} /\ sess[k].inbox = {}

\* The conversation is final, the channel closed, and the runner's last act is
\* detach_session(&session.id).
Close(k) ==
    /\ convs' = [convs EXCEPT ![sess[k].conv].open = FALSE]
    /\ IF "late_leave" \in Windows
       THEN /\ sess' = [sess EXCEPT ![k].life = "leaving", ![k].inbox = {}]
            /\ UNCHANGED table
       ELSE /\ sess' = [sess EXCEPT ![k].life = "gone", ![k].inbox = {}]
            /\ table' = Unlisted(k)

\* Idle for ten minutes, or told to finish.
End(k) ==
    /\ Idle(k)
    /\ Close(k)
    /\ UNCHANGED <<source, created, names, req, histVars>>

\* The same with an input that slipped in behind the last drain: the runner,
\* done with its first request, goes on behind a closed channel.
Rescue(k) ==
    /\ "slip_in" \in Windows
    /\ \E r \in served : req[r].at = k
    /\ sess[k].life = "open"
    /\ sess[k].inbox # {}
    /\ sess' = [sess EXCEPT ![k].life = "rescuing"]
    /\ convs' = [convs EXCEPT ![sess[k].conv].open = FALSE]
    /\ UNCHANGED <<source, table, created, names, req, histVars>>

\* A cancel: what was accepted is dropped.
Abort(k) ==
    /\ sess[k].life \in {"open", "rescuing"}
    /\ \E r \in sess[k].inbox : req[r].cmd = "control"
    /\ served' = served \cup sess[k].inbox
    /\ Close(k)
    /\ UNCHANGED <<source, created, names, req, before>>

\* With "late_leave", detach_session on its own.
Leave(k) ==
    /\ sess[k].life = "leaving"
    /\ sess' = [sess EXCEPT ![k].life = "gone"]
    /\ table' = Unlisted(k)
    /\ UNCHANGED <<source, convs, created, names, req, histVars>>

-----------------------------------------------------------------------------
Look(r) ==
    \/ \E k \in Sessions : LookJoins(r, k) \/ LookDetaches(r, k)
    \/ LookBuilds(r) \/ LookCreates(r) \/ LookRefuses(r) \/ LookEnds(r)

Request(r) ==
    \/ \E cmd \in Commands : Arrive(r, cmd)
    \/ Look(r) \/ Built(r) \/ BuildFails(r) \/ Create(r) \/ CreateFails(r)
    \/ Send(r) \/ SendRejected(r)

Runner(k) == Serve(k) \/ End(k) \/ Rescue(k) \/ Abort(k) \/ Leave(k)

Next == (\E r \in Requests : Request(r)) \/ (\E k \in Sessions : Runner(k))

Spec == Init /\ [][Next]_vars

\* The creation lock is a fair mutex; tasks that can run do run.  Only a session
\* that was told to finish is bound to end.
Fairness ==
    /\ \A r \in Requests :
          /\ SF_vars(Look(r))
          /\ WF_vars(Built(r))
          /\ WF_vars(Create(r) \/ CreateFails(r))
          /\ WF_vars(Send(r) \/ SendRejected(r))
    /\ \A k \in Sessions :
          /\ WF_vars(Serve(k))
          /\ WF_vars(sess[k].finish /\ End(k))
          /\ WF_vars(Leave(k))

FairSpec == Spec /\ Fairness

-----------------------------------------------------------------------------
\* The types of the variables.
TypeOK ==
    /\ source \in 0..MaxSessions
    /\ convs \in [Sessions -> [thread : Names \cup {0}, open : BOOLEAN]]
    /\ table \in [Names -> 0..MaxSessions]
    /\ sess \in [Sessions -> [conv : 0..MaxSessions, name : Names \cup {0}, life : Lives,
                              inbox : SUBSET Requests, finish : BOOLEAN]]
    /\ created \in 0..MaxSessions
    /\ names \in 0..(MaxSessions + Cardinality(Requests))
    /\ req \in [Requests -> [pc : Steps, cmd : Commands \cup {"plain"},
                             conv : 0..MaxSessions, cont : BOOLEAN, name : Names \cup {0},
                             at : 0..MaxSessions, left : 0..MaxSessions,
                             detached : BOOLEAN, built : BOOLEAN]]
    /\ before \in [Requests -> [convs : SUBSET Sessions, sessions : SUBSET Sessions]]
    /\ served \subseteq Requests

\* However the requests interleave with the building of each other's prompts, a
\* source never has two sessions a request could join: the look under the lock
\* is repeated before a session is created.
OneJoinableSession ==
    Cardinality({n \in Names : Live(n)}) <= 1

\* "re-check before creating the session so concurrent requests for the same
\* source cannot create duplicate sessions" (AndaBot::run): one conversation is
\* never worked on by two runners, each with its own copy of the history.
OneRunnerPerConversation ==
    \A k, l \in Sessions :
        /\ sess[k].life \in {"open", "rescuing"}
        /\ sess[l].life \in {"open", "rescuing"}
        /\ sess[k].conv = sess[l].conv
        => k = l

\* A message sent after a /new has returned never joins the session it detached.
NewIsABoundary ==
    \A r \in Requests : req[r].at \notin before[r].sessions

\* "/new: Starts a new conversation, completing the current one if it exists"
\* (engine/prompt.rs): what arrives after a bare /new does not go on with the
\* conversation that /new left.
NewStartsAfresh ==
    \A r \in Requests :
        req[r].pc = "done" /\ req[r].at # 0 => sess[req[r].at].conv \notin before[r].convs

\* A session keeps its place in the table until its channel closes or a /new
\* takes it out: the end of an older session of the same name does not hide it.
OpenSessionsAreListed ==
    \A k \in Sessions :
        sess[k].life = "open" /\ ~sess[k].finish => table[sess[k].name] = k

\* Every request is answered: the loop over rejected sends, other requests'
\* sessions and rebuilt prompts ends.
RequestReturns ==
    \A r \in Requests : req[r].pc # "away" ~> req[r].pc \in {"done", "refused"}

\* A request that was answered with a session is worked on by that session,
\* although the session may be about to end.
AcceptedIsServed ==
    \A r \in Requests :
        (req[r].pc = "done" /\ req[r].at # 0) ~> r \in served

\* Both: the caller gets an answer, and the answer is true.
RequestsAreServed == RequestReturns /\ AcceptedIsServed
=============================================================================
