--------------------------- MODULE ActionApprovals ---------------------------
(***************************************************************************)
(* One turn of a session whose tools ask the user (engine/action.rs): the  *)
(* table of pending actions, the cards they put into the conversation, and *)
(* everybody who may settle one: the user's answer, a change of the        *)
(* approval mode, a message in chat, the timeout, a stop, the end of the   *)
(* call.  Who takes an action out of the table settles it: first by an     *)
(* event for the conversation, then by releasing the tool.                 *)
(*                                                                         *)
(* The session's runner takes the events from a bounded channel while it   *)
(* drives the tools (drive_session_operation in engine/agent/runner.rs).   *)
(*                                                                         *)
(* What a card shows, who may answer it and the answer's payload are left  *)
(* out; so is the ledger of remembered approvals.  A tool's kind says what *)
(* it asks: "policy" an approval the mode calls for, "ask" one that is     *)
(* asked in every mode, "choice" a choice, "input" a choice on behalf of   *)
(* an MCP server, whose call may be given up.                              *)
(***************************************************************************)
EXTENDS Naturals, Sequences, FiniteSets, SequencesExt

CONSTANTS Tools,     \* the tools of the turn, which run side by side
          MaxCards,  \* bound on the cards
          Cap,       \* capacity of the event channel (42 in create_session)
          MaxMeta,   \* bound on the requests that change the session's metadata
          Kinds,     \* tool -> the kinds it may have
          Switches   \* the clients that may change the mode

ASSUME ApprovalAssumption ==
    /\ IsFiniteSet(Tools)
    /\ MaxCards \in Nat
    /\ Cap \in Nat \ {0}
    /\ MaxMeta \in Nat
    /\ Kinds \in [Tools -> SUBSET {"policy", "ask", "choice", "input"}]
    /\ Tools \cap Switches = {} /\ {"user", "chat"} \cap (Tools \cup Switches) = {}

VARIABLES
    meta,     \* SessionRequestMeta: the approval mode, and whether anybody can answer
    tool,     \* tool -> its step, its kind, the mode it decided by, its card
    next,     \* the next card
    pending,  \* ActionRuntime.pending
    chan,     \* the channel of ActionEvents
    conv,     \* card -> how the conversation shows it
    answer,   \* card -> its oneshot
    job,      \* the settlements under way
    turn,     \* where the runner is
    stop,     \* SessionControl.pending
    changes,  \* bound: how often the metadata has changed
    told,     \* history: card -> what its tool was told
    adrift,   \* history: cards whose resolution did not reach the conversation
    joined    \* history: the mode was last changed by a message that joined

convVars == <<chan, conv, adrift>>
vars == <<meta, tool, next, pending, chan, conv, answer, job, turn, stop, changes,
          told, adrift, joined>>

\* request_approval, on_risk (which asks as well) and full_access.
Modes == {"strict", "risk", "full"}
\* What a card and its tool are told: an answer, the default of a choice, or that nobody
\* answered; an answer that approves and one that refuses are not told apart.
Statuses == {"answered", "default", "denied", "expired", "changed", "in_chat"}
Cards == 1..MaxCards
\* A tool that finds the mode changed settles actions too.
Jobs == {"user", "chat"} \cup Switches \cup Tools

\* at: before its cards are taken, or sending the event of a card, or releasing its tool.
NoJob == [at |-> "idle", how |-> "expired", mode |-> "strict", cards |-> {}, card |-> 0]
Settling(how, cards) == IF cards = {} THEN NoJob
                        ELSE [NoJob EXCEPT !.at = "send", !.how = how, !.cards = cards]
ToolSteps == {"off", "decide", "classify", "insert", "publish", "check", "recheck", "wait",
              "expire", "done"}

Init ==
    /\ meta \in [mode : {"strict", "full"}, attended : {TRUE}]
    /\ tool \in {t \in [Tools -> [pc : {"decide"}, kind : UNION {Kinds[w] : w \in Tools},
                                  mode : {"strict"}, card : {0}]] :
                     \A w \in Tools : t[w].kind \in Kinds[w]}
    /\ next = 1
    /\ pending = {}
    /\ chan = <<>>
    /\ conv = [c \in Cards |-> "none"]
    /\ answer = [c \in Cards |-> "none"]
    /\ job = [j \in Jobs |-> NoJob]
    /\ turn = "driving"
    /\ stop = FALSE
    /\ changes = 0
    /\ told = [c \in Cards |-> "none"]
    /\ adrift = {}
    /\ joined = FALSE

-----------------------------------------------------------------------------
(***************************************************************************)
(* The table and the channel.                                              *)
(***************************************************************************)

\* take_session with a filter on the kind.
AskedChoices == {a \in pending : a.kind \in {"choice", "input"}}
OutOfMode(mode) == {a \in pending : a.kind = "policy" /\ a.mode # mode}
CardsOf(actions) == {a.card : a \in actions}
ActionOf(c) == {a \in pending : a.card = c}

\* A sender waits for room; a receiver that is gone takes nothing.
HasRoom == turn = "closed" \/ Len(chan) < Cap

\* sender.send: an event for a card, which is lost when nobody receives it.
Send(c, status) ==
    /\ HasRoom
    /\ chan' = IF turn = "closed" THEN chan ELSE Append(chan, [card |-> c, status |-> status])
    /\ adrift' = IF turn = "closed" THEN adrift \cup {c} ELSE adrift

\* sender.send(response) of the oneshot; nobody listens when the tool is gone.
Answered(c, status) == [answer EXCEPT ![c] = status]

-----------------------------------------------------------------------------
(***************************************************************************)
(* A tool: request_shell_approval, require_mcp_approval, request_choice,   *)
(* and publish_and_wait, which they all end in.                            *)
(***************************************************************************)

At(w, pc) == turn = "driving" /\ tool[w].pc = pc
\* A tool at its end has forgotten mode and card.
Goes(w, pc) == tool' = [tool EXCEPT ![w] = IF pc = "done"
                                           THEN [@ EXCEPT !.pc = pc, !.mode = "strict", !.card = 0]
                                           ELSE [@ EXCEPT !.pc = pc]]

\* The mode is read.  Full access asks nothing; what nobody can answer is not asked.
Decide(w) ==
    /\ At(w, "decide")
    /\ \/ /\ meta.attended /\ (tool[w].kind = "policy" => meta.mode # "full")
          /\ tool' = [tool EXCEPT ![w].mode = meta.mode,
                                  ![w].pc = IF tool[w].kind = "policy" THEN "classify" ELSE "insert"]
       \/ /\ ~meta.attended \/ (tool[w].kind = "policy" /\ meta.mode = "full")
          /\ Goes(w, "done")
    /\ UNCHANGED <<meta, next, pending, convVars, answer, job, turn, stop, changes, told, joined>>

\* The risk is judged, perhaps by a model, and may need no approval; a mode that has
\* changed meanwhile starts anew.
Classify(w) ==
    /\ At(w, "classify")
    /\ \E verdict \in IF meta.mode # tool[w].mode THEN {"decide"} ELSE {"done", "insert"} :
          Goes(w, verdict)
    /\ UNCHANGED <<meta, next, pending, convVars, answer, job, turn, stop, changes, told, joined>>

\* publish_and_wait: the action is entered into the table ...
Insert(w) ==
    /\ At(w, "insert")
    /\ next <= MaxCards
    /\ next' = next + 1
    /\ tool' = [tool EXCEPT ![w].card = next, ![w].pc = "publish"]
    /\ pending' = pending \cup {[card |-> next, kind |-> tool[w].kind, mode |-> tool[w].mode]}
    /\ UNCHANGED <<meta, convVars, answer, job, turn, stop, changes, told, joined>>

\* ... its card sent to the conversation ...
Publish(w) ==
    /\ At(w, "publish")
    /\ Send(tool[w].card, "pending")
    /\ Goes(w, "check")
    /\ UNCHANGED <<meta, next, pending, conv, answer, job, turn, stop, changes, told, joined>>

\* Mutant of Check: nobody looks at the mode once the card is there.
CheckNothing(w) ==
    /\ At(w, "check")
    /\ Goes(w, "wait")
    /\ UNCHANGED <<meta, next, pending, convVars, answer, job, turn, stop, changes, told, joined>>

\* ... the mode looked at once more, with recheck_approvals if it has changed ...
Check(w) ==
    /\ At(w, "check")
    /\ IF tool[w].kind = "policy" /\ meta.mode # tool[w].mode
       THEN /\ Goes(w, "recheck")
            /\ job' = [job EXCEPT ![w] = Settling("changed", CardsOf(OutOfMode(meta.mode)))]
            /\ pending' = pending \ OutOfMode(meta.mode)
       ELSE Goes(w, "wait") /\ UNCHANGED <<job, pending>>
    /\ UNCHANGED <<meta, next, convVars, answer, turn, stop, changes, told, joined>>

Rechecked(w) ==
    /\ At(w, "recheck") /\ job[w].at = "idle"
    /\ Goes(w, "wait")
    /\ UNCHANGED <<meta, next, pending, convVars, answer, job, turn, stop, changes, told, joined>>

\* ... and the answer awaited.  A changed mode starts anew.
Receive(w) ==
    /\ At(w, "wait")
    /\ LET c == tool[w].card IN
          /\ answer[c] # "none"
          /\ told' = [told EXCEPT ![c] = answer[c]]
          /\ Goes(w, IF answer[c] = "changed" THEN "decide" ELSE "done")
    /\ UNCHANGED <<meta, next, pending, convVars, answer, job, turn, stop, changes, joined>>

\* The time is over, and nobody else has taken the action.  If somebody has, the
\* answer is on its way and the tool goes on waiting.
Timeout(w) ==
    /\ At(w, "wait")
    /\ ActionOf(tool[w].card) # {}
    /\ pending' = pending \ ActionOf(tool[w].card)
    /\ Goes(w, "expire")
    /\ UNCHANGED <<meta, next, convVars, answer, job, turn, stop, changes, told, joined>>

\* unanswered: a choice with a default takes it, everything else expires.
Expire(w) ==
    /\ At(w, "expire")
    /\ \E status \in {"expired"} \cup (IF tool[w].kind = "choice" THEN {"default"} ELSE {}) :
          /\ Send(tool[w].card, status)
          /\ told' = [told EXCEPT ![tool[w].card] = status]
    /\ Goes(w, "done")
    /\ UNCHANGED <<meta, next, pending, conv, answer, job, turn, stop, changes, joined>>

\* The server's deadline passes, or its call ends: AbandonGuard closes the card, if
\* the channel has room for that.
GiveUp(w) ==
    /\ tool[w].kind = "input"
    /\ tool[w].pc \in {"publish", "check", "wait", "expire"} /\ turn = "driving"
    /\ LET c == tool[w].card
           mine == ActionOf(c)
       IN  /\ pending' = pending \ mine
           /\ IF mine # {} /\ Len(chan) < Cap
              THEN chan' = Append(chan, [card |-> c, status |-> "expired"]) /\ UNCHANGED adrift
              ELSE /\ adrift' = adrift \cup (IF mine # {} \/ tool[w].pc = "expire" THEN {c} ELSE {})
                   /\ UNCHANGED chan
    /\ Goes(w, "done")
    /\ UNCHANGED <<meta, next, conv, answer, job, turn, stop, changes, told, joined>>

-----------------------------------------------------------------------------
(***************************************************************************)
(* Those who settle actions.                                               *)
(***************************************************************************)

\* Mutant of Respond: the action stays in the table.
RespondKeeps ==
    /\ job["user"].at = "idle"
    /\ \E a \in pending :
          /\ conv[a.card] = "pending"
          /\ job' = [job EXCEPT !["user"] = Settling("answered", {a.card})]
    /\ UNCHANGED <<meta, tool, next, pending, convVars, answer, turn, stop, changes, told, joined>>

\* respond: the user answers a card of the conversation.  A response that does not
\* fit leaves the action where it is.
Respond ==
    /\ job["user"].at = "idle"
    /\ \E a \in pending :
          /\ conv[a.card] = "pending"
          /\ job' = [job EXCEPT !["user"] = Settling("answered", {a.card})]
          /\ pending' = pending \ {a}
    /\ UNCHANGED <<meta, tool, next, convVars, answer, turn, stop, changes, told, joined>>

\* set_approval_mode: the mode is changed ...
SetMode(j) ==
    /\ turn = "driving" /\ changes < MaxMeta /\ changes' = changes + 1
    /\ job[j].at = "idle"
    /\ \E mode \in Modes \ {meta.mode} :
          /\ meta' = [meta EXCEPT !.mode = mode]
          /\ job' = [job EXCEPT ![j] = [NoJob EXCEPT !.at = "take", !.how = "changed", !.mode = mode]]
    /\ joined' = FALSE
    /\ UNCHANGED <<tool, next, pending, convVars, answer, turn, stop, told>>

\* ... and the approvals that another mode asked for are taken.
Recheck(j) ==
    /\ job[j].at = "take"
    /\ LET gone == OutOfMode(job[j].mode) IN
          /\ pending' = pending \ gone
          /\ job' = [job EXCEPT ![j] = Settling("changed", CardsOf(gone))]
    /\ UNCHANGED <<meta, tool, next, convVars, answer, turn, stop, changes, told, joined>>

\* join_session: a message joins, and its metadata replaces the session's ...
Join ==
    /\ turn = "driving" /\ changes < MaxMeta /\ changes' = changes + 1
    /\ job["chat"].at = "idle"
    /\ \E m \in [mode : Modes, attended : BOOLEAN], written \in BOOLEAN :
          /\ meta' = m
          /\ joined' = (joined \/ m.mode # meta.mode)
          /\ job' = IF written THEN [job EXCEPT !["chat"] = [NoJob EXCEPT !.at = "take",
                                                                !.how = "in_chat"]]
                    ELSE job
    /\ UNCHANGED <<tool, next, pending, convVars, answer, turn, stop, told>>

\* ... and, written by a user, answers the choices that wait.
AnswerInChat ==
    /\ job["chat"].at = "take"
    /\ pending' = pending \ AskedChoices
    /\ job' = [job EXCEPT !["chat"] = Settling("in_chat", CardsOf(AskedChoices))]
    /\ UNCHANGED <<meta, tool, next, convVars, answer, turn, stop, changes, told, joined>>

\* Mutant of Settle: the tool is released before the event is sent.
SettleReleasing(j) ==
    /\ job[j].at = "send"
    /\ \E c \in job[j].cards :
          \/ /\ answer[c] = "none"
             /\ answer' = Answered(c, job[j].how)
             /\ UNCHANGED <<job, convVars>>
          \/ /\ answer[c] # "none"
             /\ Send(c, job[j].how)
             /\ job' = [job EXCEPT ![j].at = "release", ![j].card = c]
             /\ UNCHANGED <<answer, conv>>
    /\ UNCHANGED <<meta, tool, next, pending, turn, stop, changes, told, joined>>

\* PendingAction::resolve: the event goes first ...
Settle(j) ==
    /\ job[j].at = "send"
    /\ \E c \in job[j].cards :
          /\ Send(c, job[j].how)
          /\ job' = [job EXCEPT ![j].at = "release", ![j].card = c]
    /\ UNCHANGED <<meta, tool, next, pending, conv, answer, turn, stop, changes, told, joined>>

\* ... then the tool is released, and it is the next one's turn.
Release(j) ==
    /\ job[j].at = "release"
    /\ answer' = Answered(job[j].card, job[j].how)
    /\ job' = [job EXCEPT ![j] = Settling(job[j].how, job[j].cards \ {job[j].card})]
    /\ UNCHANGED <<meta, tool, next, pending, convVars, turn, stop, changes, told, joined>>

-----------------------------------------------------------------------------
(***************************************************************************)
(* The runner.                                                             *)
(***************************************************************************)

\* Mutant of Apply: events are taken between two operations only.
ApplyBetween ==
    /\ turn \in {"draining", "stopping"}
    /\ chan # <<>>
    /\ chan' = Tail(chan)
    /\ LET event == Head(chan) IN
          IF event.status # "pending" /\ conv[event.card] = "none"
          THEN adrift' = adrift \cup {event.card} /\ UNCHANGED conv
          ELSE conv' = [conv EXCEPT ![event.card] = event.status] /\ UNCHANGED adrift
    /\ UNCHANGED <<meta, tool, next, pending, answer, job, turn, stop, changes, told, joined>>

\* apply_action_event, while the tools run, behind them and in every idle tick: a
\* resolution without its card is lost.
Apply ==
    /\ turn \in {"driving", "draining", "stopping", "over"}
    /\ chan # <<>>
    /\ chan' = Tail(chan)
    /\ LET event == Head(chan) IN
          IF event.status # "pending" /\ conv[event.card] = "none"
          THEN adrift' = adrift \cup {event.card} /\ UNCHANGED conv
          ELSE conv' = [conv EXCEPT ![event.card] = event.status] /\ UNCHANGED adrift
    /\ UNCHANGED <<meta, tool, next, pending, answer, job, turn, stop, changes, told, joined>>

\* All tools have ended; what is in the channel is drained ...
Finish ==
    /\ turn = "driving" /\ ~stop
    /\ \A w \in Tools : tool[w].pc = "done"
    /\ turn' = "draining"
    /\ UNCHANGED <<meta, tool, next, pending, convVars, answer, job, stop, changes, told, joined>>

\* ... before their results go to the model.
HandOver ==
    /\ turn = "draining" /\ chan = <<>>
    /\ turn' = "over"
    /\ UNCHANGED <<meta, tool, next, pending, convVars, answer, job, stop, changes, told, joined>>

\* /stop or /cancel: the signal is raised.
RequestStop ==
    /\ turn = "driving" /\ ~stop
    /\ stop' = TRUE
    /\ UNCHANGED <<meta, tool, next, pending, convVars, answer, job, turn, changes, told, joined>>

\* drive_session_operation drops the tools, with what they were about to settle; the
\* guards of the inputs close their cards, as many as the channel has room for.
Interrupt ==
    /\ turn = "driving" /\ stop
    /\ turn' = "stopping"
    /\ LET inputs == {tool[w].card : w \in {v \in Tools : tool[v].kind = "input"}}
           closing == {a \in pending : a.card \in inputs}
           unsent == (UNION {job[w].cards \ {job[w].card} : w \in Tools})
                     \cup {tool[w].card : w \in {v \in Tools : tool[v].pc = "expire"}}
       IN  \E sent \in SUBSET CardsOf(closing) :
              /\ \/ Len(chan) + Cardinality(sent) = Cap
                 \/ sent = CardsOf(closing) /\ Len(chan) + Cardinality(sent) < Cap
              /\ pending' = pending \ closing
              /\ chan' = chan \o SetToSeq({[card |-> c, status |-> "expired"] : c \in sent})
              /\ adrift' = adrift \cup (CardsOf(closing) \ sent) \cup unsent
    /\ tool' = [w \in Tools |-> [tool[w] EXCEPT !.pc = "off", !.mode = "strict", !.card = 0]]
    /\ job' = [j \in Jobs |-> IF j \in Tools THEN NoJob ELSE job[j]]
    /\ UNCHANGED <<meta, next, conv, answer, stop, changes, told, joined>>

\* stop_current_task drains the channel, ...
StopDrained ==
    /\ turn = "stopping" /\ chan = <<>>
    /\ turn' = "cancelling"
    /\ UNCHANGED <<meta, tool, next, pending, convVars, answer, job, stop, changes, told, joined>>

\* Mutant of CancelPending: the actions are denied, and their cards forgotten.
CancelForgets ==
    /\ turn = "cancelling"
    /\ pending' = {}
    /\ turn' = "over" /\ stop' = FALSE
    /\ answer' = [c \in Cards |-> IF c \in CardsOf(pending) THEN "denied" ELSE answer[c]]
    /\ UNCHANGED <<meta, tool, next, convVars, job, changes, told, joined>>

\* ... cancel_pending denies what is left, and the runner applies that itself.
CancelPending ==
    /\ turn = "cancelling"
    /\ pending' = {}
    /\ conv' = [c \in Cards |-> IF c \in CardsOf(pending) /\ conv[c] # "none" THEN "denied"
                                ELSE conv[c]]
    /\ answer' = [c \in Cards |-> IF c \in CardsOf(pending) THEN "denied" ELSE answer[c]]
    /\ turn' = "over" /\ stop' = FALSE
    /\ UNCHANGED <<meta, tool, next, chan, adrift, job, changes, told, joined>>

\* The session ends, and its receiver with it.
Close ==
    /\ turn = "over"
    /\ turn' = "closed"
    /\ chan' = <<>>
    /\ adrift' = adrift \cup {chan[i].card : i \in 1..Len(chan)}
    /\ UNCHANGED <<meta, tool, next, pending, conv, answer, job, stop, changes, told, joined>>

-----------------------------------------------------------------------------
Tool(w) ==
    \/ Decide(w) \/ Classify(w) \/ Insert(w) \/ Publish(w) \/ Check(w) \/ Rechecked(w)
    \/ Receive(w) \/ Timeout(w) \/ Expire(w)

Job(j) == Settle(j) \/ Release(j)

Next ==
    \/ \E w \in Tools : Tool(w) \/ GiveUp(w)
    \/ Respond \/ Join \/ AnswerInChat \/ \E j \in Switches : SetMode(j) \/ Recheck(j)
    \/ \E j \in Jobs : Job(j)
    \/ Apply \/ Finish \/ HandOver \/ RequestStop \/ Interrupt \/ StopDrained \/ CancelPending \/ Close

Spec == Init /\ [][Next]_vars

\* The executor polls whatever can go on, and every wait has a timeout.
Fairness ==
    /\ \A w \in Tools : WF_vars(Tool(w))
    /\ \A j \in Jobs : WF_vars(Job(j))
    /\ WF_vars(Apply) /\ WF_vars(Interrupt)

FairSpec == Spec /\ Fairness

-----------------------------------------------------------------------------
\* The types of the variables.
TypeOK ==
    /\ meta \in [mode : Modes, attended : BOOLEAN]
    /\ tool \in [Tools -> [pc : ToolSteps, kind : UNION {Kinds[w] : w \in Tools}, mode : Modes, card : Cards \cup {0}]]
    /\ next \in 1..MaxCards + 1
    /\ pending \subseteq [card : Cards, kind : {"policy", "ask", "choice", "input"}, mode : Modes]
    /\ chan \in Seq([card : Cards, status : Statuses \cup {"pending"}]) /\ Len(chan) <= Cap
    /\ conv \in [Cards -> Statuses \cup {"none", "pending"}]
    /\ answer \in [Cards -> Statuses \cup {"none"}]
    /\ job \in [Jobs -> [at : {"idle", "take", "send", "release"}, how : Statuses, mode : Modes,
                         cards : SUBSET Cards, card : Cards \cup {0}]]
    /\ turn \in {"driving", "draining", "stopping", "cancelling", "over", "closed"}
    /\ stop \in BOOLEAN /\ changes \in 0..MaxMeta
    /\ told \in [Cards -> Statuses \cup {"none"}]
    /\ adrift \subseteq Cards /\ joined \in BOOLEAN

\* An action is taken out of the table by one of all those who may settle it
\* (ActionRuntime::take): the conversation and the tool are told the same.
CardAndToolAgree ==
    \A c \in Cards : told[c] # "none" /\ conv[c] \in Statuses => conv[c] = told[c]

\* "The event goes first so the card is resolved before the tool result reaches the
\* model" (PendingAction::resolve), but for cards that were settled before they were
\* shown.
CardClosesFirst ==
    turn \in {"over", "closed"} =>
        \A c \in Cards \ adrift : told[c] # "none" => conv[c] # "pending"

\* The same, as it is written, without the exception.
ResolvedBeforeResult ==
    turn \in {"over", "closed"} => \A c \in Cards : told[c] # "none" => conv[c] # "pending"

\* Whoever may still bring the resolution of a card.
InFlight(c) ==
    \/ c \in CardsOf(pending)
    \/ \E i \in 1..Len(chan) : chan[i].card = c /\ chan[i].status # "pending"
    \/ \E j \in Jobs : c \in job[j].cards
    \/ \E w \in Tools : tool[w].card = c /\ tool[w].pc = "expire"

\* A card the conversation shows as open can be answered, or its resolution is on the
\* way: stops, timeouts and abandoned calls leave none behind that nobody can settle;
\* but for the resolutions that were lost.
OpenCardsSettle == \A c \in Cards \ adrift : conv[c] = "pending" => InFlight(c)

\* "Close the gap between evaluating the policy and registering the wait"
\* (publish_and_wait): when a change of the mode has been dealt with, no approval
\* waits that another mode asked for.  A message that joins changes the mode too, and
\* nobody rechecks then.
ApprovalsFollowTheMode ==
    (\A j \in Switches : job[j].at # "take") /\ ~joined =>
        \A w \in Tools : tool[w].pc = "wait" => \A a \in ActionOf(tool[w].card) : a \notin OutOfMode(meta.mode)

\* Every tool comes to an end: it is answered, released or given up, whoever settles
\* its action and however full the channel is.
WaitsEnd == <>(\A w \in Tools : tool[w].pc \in {"done", "off"})
=============================================================================
