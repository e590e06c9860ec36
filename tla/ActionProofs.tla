---------------------------- MODULE ActionProofs ----------------------------
(***************************************************************************)
(* The pending actions of a turn, for any number of tools, cards and       *)
(* clients and any capacity of the channel: who takes an action settles it *)
(* alone, its card is closed before the result goes on, none stays open    *)
(* that nobody can settle, and no approval outlives the mode that asked    *)
(* for it.                                                                 *)
(***************************************************************************)
EXTENDS ActionApprovals, FiniteSetTheorems, TLAPS

AllKinds == {"policy", "ask", "choice", "input"}
AskedKinds == UNION {Kinds[w] : w \in Tools}
PendingActions == [card : Cards, kind : AllKinds, mode : Modes]
Events == [card : Cards, status : Statuses \cup {"pending"}]
ToolStates == [pc : ToolSteps, kind : AskedKinds, mode : Modes, card : Cards \cup {0}]
JobStates == [at : {"idle", "take", "send", "release"}, how : Statuses, mode : Modes,
              cards : SUBSET Cards, card : Cards \cup {0}]

\* What is in the channel.
In(q, c, status) == \E i \in 1..Len(q) : q[i].card = c /\ q[i].status = status
Sent(c, status) == In(chan, c, status)
ShowSent(c) == Sent(c, "pending")
SettleSent(c) == \E s \in Statuses : Sent(c, s)
ToolAt(c, pc) == \E w \in Tools : tool[w].card = c /\ tool[w].pc = pc

-----------------------------------------------------------------------------
\* The types, with a name for each.
Types ==
    /\ meta \in [mode : Modes, attended : BOOLEAN]
    /\ tool \in [Tools -> ToolStates]
    /\ next \in 1..MaxCards + 1
    /\ pending \in SUBSET PendingActions
    /\ chan \in Seq(Events) /\ Len(chan) <= Cap
    /\ conv \in [Cards -> Statuses \cup {"none", "pending"}]
    /\ answer \in [Cards -> Statuses \cup {"none"}]
    /\ job \in [Jobs -> JobStates]
    /\ turn \in {"driving", "draining", "stopping", "cancelling", "over", "closed"}
    /\ stop \in BOOLEAN /\ changes \in 0..MaxMeta
    /\ told \in [Cards -> Statuses \cup {"none"}]
    /\ adrift \in SUBSET Cards /\ joined \in BOOLEAN

\* Tools act while the runner drives them, and one that has published has a card.
Driven ==
    /\ turn # "driving" => \A w \in Tools : tool[w].pc \in {"done", "off"}
    /\ \A w \in Tools :
          tool[w].pc \in {"publish", "check", "recheck", "wait", "expire"} => tool[w].card # 0

\* A card is given out once.
CardsOnce ==
    /\ \A w \in Tools : tool[w].card < next
    /\ \A v, w \in Tools : v # w /\ tool[w].card # 0 => tool[v].card # tool[w].card
    /\ \A a \in pending : a.card < next
    /\ \A a, b \in pending : a.card = b.card => a = b

\* A settlement has its cards from when it took them until it has released them; a
\* tool's is over before the tool goes on.
InStep(v) ==
    /\ v.at \in {"idle", "take"} => v.cards = {}
    /\ v.at = "send" => v.card = 0 /\ v.cards # {}
    /\ v.at = "release" => v.card \in v.cards

JobsInStep ==
    /\ \A j \in Jobs : InStep(job[j])
    /\ \A w \in Tools : job[w].at # "idle" => tool[w].pc = "recheck"

Base == Types /\ Driven /\ CardsOnce /\ JobsInStep

-----------------------------------------------------------------------------
\* A tool's action in the table is the one it asked for.
OwnAction ==
    \A w \in Tools, a \in pending :
        tool[w].card = a.card /\ tool[w].pc \in {"publish", "check"} =>
            a.kind = tool[w].kind /\ a.mode = tool[w].mode

\* An approval of another mode has a tool that will still look, or somebody about to
\* take it.
LookedAt ==
    \/ turn # "driving" \/ joined
    \/ \E j \in Switches : job[j].at = "take" /\ job[j].mode = meta.mode
    \/ \A a \in OutOfMode(meta.mode) :
          \E w \in Tools : tool[w].card = a.card /\ tool[w].pc \in {"publish", "check"}

-----------------------------------------------------------------------------
\* Whoever says, or will say, how a card is settled.
Says(c, s) ==
    \/ Sent(c, s) \/ conv[c] = s \/ answer[c] = s \/ told[c] = s
    \/ \E j \in Jobs : c \in job[j].cards /\ job[j].how = s

\* A card nobody has settled: not yet given out, in the table, or with a tool whose
\* time is over.
Open(c) == c >= next \/ c \in CardsOf(pending) \/ ToolAt(c, "expire")

\* Nobody speaks of a card that is open, and all say the same.
OneVerdict ==
    /\ \A w \in Tools : tool[w].pc = "expire" => tool[w].card \notin CardsOf(pending)
    /\ \A c \in Cards, s \in Statuses : Open(c) => ~Says(c, s)
    /\ \A c \in Cards, s, t \in Statuses : Says(c, s) /\ Says(c, t) => s = t

-----------------------------------------------------------------------------
ShowsOnce(q) ==
    \A i, j \in 1..Len(q) :
        q[i].card = q[j].card /\ q[i].status = "pending" /\ q[j].status = "pending" => i = j

\* A card is shown once, and what shows it is sent while the tools run.
ShownOnce ==
    /\ \A c \in Cards : ShowSent(c) => conv[c] = "none" /\ c < next
    /\ \A c \in Cards : conv[c] # "none" => c < next
    /\ \A w \in Tools : tool[w].pc = "publish" =>
          conv[tool[w].card] = "none" /\ ~ShowSent(tool[w].card)
    /\ ShowsOnce(chan)
    /\ turn \in {"cancelling", "over", "closed"} => \A c \in Cards : ~ShowSent(c)

\* A resolution that has been sent, and where it went.
Shown(c) == c \in adrift \/ conv[c] \in Statuses
Landed(c) == Shown(c) \/ SettleSent(c)

\* Before a tool is told, the event was sent.
SentFirst ==
    /\ \A c \in Cards : told[c] # "none" => Landed(c)
    /\ turn = "driving" => \A c \in Cards : answer[c] # "none" => Landed(c)
    /\ \A j \in Jobs : job[j].at = "release" => Landed(job[j].card)
    /\ turn \in {"cancelling", "over", "closed"} => \A c \in Cards : told[c] # "none" => Shown(c)

\* A card that is shown as open, or will be, has somebody who can settle it, or was settled.
Asked(c) == conv[c] = "pending" \/ ShowSent(c) \/ ToolAt(c, "publish")
Settles(c) == InFlight(c) \/ Landed(c)
SomebodySettles == \A c \in Cards : Asked(c) => Settles(c)

-----------------------------------------------------------------------------
(***************************************************************************)
(* Names and values.                                                       *)
(***************************************************************************)
LEMMA JobNames ==
    /\ Tools \subseteq Jobs /\ Switches \subseteq Jobs /\ "user" \in Jobs /\ "chat" \in Jobs
    /\ \A w \in Tools : w \notin Switches /\ w # "user" /\ w # "chat"
    /\ \A j \in Switches : j # "user" /\ j # "chat"
BY ApprovalAssumption DEF Jobs

LEMMA KnownKinds == AskedKinds \subseteq AllKinds
BY ApprovalAssumption DEF AskedKinds, AllKinds

LEMMA JobValues ==
    /\ NoJob \in JobStates /\ NoJob.at = "idle" /\ NoJob.cards = {}
    /\ \A how \in Statuses, cards \in SUBSET Cards :
          /\ Settling(how, cards) \in JobStates
          /\ InStep(Settling(how, cards)) /\ Settling(how, cards).cards = cards
          /\ cards # {} => Settling(how, cards).how = how
          /\ Settling(how, cards).at \in {"idle", "send"}
    /\ \A how \in {"changed", "in_chat"}, mode \in Modes :
          LET job1 == [NoJob EXCEPT !.at = "take", !.how = how, !.mode = mode] IN
             job1 \in JobStates /\ job1.at = "take" /\ job1.cards = {} /\ job1.mode = mode
    /\ LET job2 == [NoJob EXCEPT !.at = "take", !.how = "in_chat"] IN
             job2 \in JobStates /\ job2.at = "take" /\ job2.cards = {}
<1>1. NoJob \in JobStates /\ NoJob.at = "idle" /\ NoJob.cards = {}
  BY DEF NoJob, JobStates, Statuses, Modes
<1>2. ASSUME NEW how \in Statuses, NEW cards \in SUBSET Cards
      PROVE  /\ Settling(how, cards) \in JobStates
             /\ InStep(Settling(how, cards)) /\ Settling(how, cards).cards = cards
             /\ cards # {} => Settling(how, cards).how = how
             /\ Settling(how, cards).at \in {"idle", "send"}
  <2>1. CASE cards = {}
    BY <1>1, <2>1 DEF Settling, InStep
  <2>2. CASE cards # {}
    BY <2>2 DEF Settling, InStep, NoJob, JobStates, Statuses, Modes
  <2> QED
    BY <2>1, <2>2
<1>3. ASSUME NEW how \in {"changed", "in_chat"}, NEW mode \in Modes
      PROVE  LET job1 == [NoJob EXCEPT !.at = "take", !.how = how, !.mode = mode] IN
                job1 \in JobStates /\ job1.at = "take" /\ job1.cards = {} /\ job1.mode = mode
  BY <1>1 DEF JobStates, Statuses
<1>4. LET job2 == [NoJob EXCEPT !.at = "take", !.how = "in_chat"] IN
         job2 \in JobStates /\ job2.at = "take" /\ job2.cards = {}
  BY <1>1 DEF JobStates, Statuses
<1> QED
  BY <1>1, <1>2, <1>3, <1>4

LEMMA SettlesAs ==
    ASSUME NEW how \in Statuses, NEW cards \in SUBSET Cards
    PROVE  /\ Settling(how, cards).cards = cards
           /\ cards # {} => Settling(how, cards).how = how
<1>1. CASE cards = {}
  BY <1>1, JobValues DEF Settling
<1>2. CASE cards # {}
  BY <1>2 DEF Settling, NoJob
<1> QED
  BY <1>1, <1>2

LEMMA SameTypes == TypeOK <=> Types
BY DEF TypeOK, Types, ToolStates, AskedKinds, PendingActions, AllKinds, Events, JobStates

\* A tool that goes on.
LEMMA GoesOn ==
    ASSUME Types, NEW w \in Tools, NEW pc \in ToolSteps, Goes(w, pc)
    PROVE  /\ tool' \in [Tools -> ToolStates]
           /\ \A v \in Tools : /\ v # w => tool'[v] = tool[v]
                               /\ tool'[v].kind = tool[v].kind
                               /\ tool'[v].card \in {tool[v].card, 0}
                               /\ pc # "done" => tool'[v].card = tool[v].card /\ tool'[v].mode = tool[v].mode
           /\ tool'[w].pc = pc
           /\ pc = "done" => tool'[w].card = 0
<1>1. tool \in [Tools -> ToolStates]
  BY DEF Types
<1>2. tool[w] \in ToolStates
  BY <1>1
<1> DEFINE t == IF pc = "done" THEN [tool[w] EXCEPT !.pc = pc, !.mode = "strict", !.card = 0]
                ELSE [tool[w] EXCEPT !.pc = pc]
<1>3. /\ t \in ToolStates /\ t.pc = pc /\ t.kind = tool[w].kind
      /\ pc = "done" => t.card = 0
      /\ pc # "done" => t.card = tool[w].card /\ t.mode = tool[w].mode
  BY <1>2 DEF ToolStates, Modes
<1>4. tool' = [tool EXCEPT ![w] = t]
  BY DEF Goes
<1> QED
  BY <1>1, <1>3, <1>4

-----------------------------------------------------------------------------
(***************************************************************************)
(* The channel.                                                            *)
(***************************************************************************)
LEMMA Appended ==
    ASSUME NEW q \in Seq(Events), NEW e \in Events
    PROVE  /\ Append(q, e) \in Seq(Events) /\ Len(Append(q, e)) = Len(q) + 1
           /\ \A c, s : In(Append(q, e), c, s) <=> In(q, c, s) \/ (c = e.card /\ s = e.status)
           /\ ShowsOnce(q) /\ (e.status = "pending" => ~In(q, e.card, "pending"))
                => ShowsOnce(Append(q, e))
<1> DEFINE r == Append(q, e)
<1>1. /\ r \in Seq(Events) /\ Len(r) = Len(q) + 1 /\ Len(q) \in Nat
      /\ \A i \in 1..Len(q) : r[i] = q[i]
      /\ r[Len(q) + 1] = e
  OBVIOUS
<1>2. 1..Len(r) = (1..Len(q)) \cup {Len(q) + 1} /\ Len(q) + 1 \notin 1..Len(q)
  BY <1>1
<1> HIDE DEF r
<1>3. \A c, s : In(r, c, s) <=> In(q, c, s) \/ (c = e.card /\ s = e.status)
  BY <1>1, <1>2 DEF In
<1>4. ASSUME ShowsOnce(q), e.status = "pending" => ~In(q, e.card, "pending")
      PROVE  ShowsOnce(r)
  BY <1>1, <1>2, <1>4 DEF ShowsOnce, In
<1> QED
  BY <1>1, <1>3, <1>4 DEF r

LEMMA Taken ==
    ASSUME NEW q \in Seq(Events), q # <<>>
    PROVE  /\ Head(q) \in Events /\ Tail(q) \in Seq(Events) /\ Len(Tail(q)) = Len(q) - 1
           /\ \A c, s : In(q, c, s) <=> In(Tail(q), c, s) \/ (c = Head(q).card /\ s = Head(q).status)
           /\ ShowsOnce(q) => /\ ShowsOnce(Tail(q))
                              /\ Head(q).status = "pending" => ~In(Tail(q), Head(q).card, "pending")
<1> DEFINE r == Tail(q)
<1>1. /\ r \in Seq(Events) /\ Len(r) = Len(q) - 1 /\ Len(q) \in Nat /\ Len(q) > 0
      /\ Head(q) = q[1] /\ q[1] \in Events
      /\ \A i \in 1..Len(r) : r[i] = q[i + 1]
  OBVIOUS
<1>2. \A i \in 1..Len(q) : i = 1 \/ (i - 1 \in 1..Len(r) /\ r[i - 1] = q[i])
  BY <1>1
<1>3. \A i \in 1..Len(r) : i + 1 \in 1..Len(q) /\ i + 1 # 1
  BY <1>1
<1>4. 1 \in 1..Len(q)
  BY <1>1
<1> HIDE DEF r
<1>5. \A c, s : In(q, c, s) <=> In(r, c, s) \/ (c = Head(q).card /\ s = Head(q).status)
  BY <1>1, <1>2, <1>3, <1>4 DEF In
<1>6. ASSUME ShowsOnce(q)
      PROVE  /\ ShowsOnce(r)
             /\ Head(q).status = "pending" => ~In(r, Head(q).card, "pending")
  <2>1. ShowsOnce(r)
    BY <1>1, <1>3, <1>6 DEF ShowsOnce
  <2> QED
    BY <2>1, <1>1, <1>3, <1>4, <1>6 DEF ShowsOnce, In
<1> QED
  BY <1>1, <1>5, <1>6 DEF r

\* A list of a finite set holds its elements and nothing else.
LEMMA ListOfSet ==
    ASSUME NEW S, IsFiniteSet(S)
    PROVE  /\ SetToSeq(S) \in Seq(S)
           /\ Len(SetToSeq(S)) = Cardinality(S)
           /\ \A x \in S : \E i \in 1..Len(SetToSeq(S)) : SetToSeq(S)[i] = x
<1> DEFINE n == Cardinality(S)
           f == SetToSeq(S)
<1>1. n \in Nat /\ ExistsBijection(1..n, S)
  BY FS_CardinalityType
<1>2. PICK g \in [1..n -> S] : IsInjective(g)
  BY <1>1 DEF ExistsBijection, Bijection, Injection, IsInjective
<1>3. f \in [1..n -> S] /\ IsInjective(f)
  BY <1>2 DEF SetToSeq
<1>4. f \in Seq(S) /\ Len(f) = n
  BY <1>1, <1>3
<1>5. f \in Injection(1..n, S)
  BY <1>3 DEF Injection, IsInjective
<1>6. Cardinality(1..n) = n
  BY <1>1, FS_Interval
<1>7. f \in Surjection(1..n, S)
  BY <1>5, <1>6, FS_Injection
<1> QED
  BY <1>4, <1>7 DEF Surjection

\* The channel with the cards of an abandoned turn.
LEMMA Closing ==
    ASSUME NEW q \in Seq(Events), NEW sent \in SUBSET Cards
    PROVE  LET r == q \o SetToSeq({[card |-> c, status |-> "expired"] : c \in sent}) IN
           /\ r \in Seq(Events) /\ Len(r) <= Len(q) + Cardinality(sent)
           /\ Cardinality(sent) \in Nat
           /\ \A c, s : In(r, c, s) <=> In(q, c, s) \/ (c \in sent /\ s = "expired")
           /\ ShowsOnce(q) => ShowsOnce(r)
<1> DEFINE E == {[card |-> c, status |-> "expired"] : c \in sent}
           p == SetToSeq(E)
           r == q \o p
<1>1. IsFiniteSet(sent) /\ Cardinality(sent) \in Nat
  <2>1. IsFiniteSet(Cards)
    BY FS_Interval, ApprovalAssumption DEF Cards
  <2> QED
    BY <2>1, FS_Subset, FS_CardinalityType
<1>2. IsFiniteSet(E) /\ Cardinality(E) <= Cardinality(sent) /\ Cardinality(E) \in Nat
  <2> DEFINE f == [c \in sent |-> [card |-> c, status |-> "expired"]]
  <2>1. f \in Surjection(sent, E)
    BY DEF Surjection
  <2> QED
    BY <1>1, <2>1, FS_Surjection, FS_CardinalityType
<1>3. E \subseteq Events
  BY DEF Events, Statuses
<1>4. p \in Seq(E) /\ Len(p) = Cardinality(E) /\ \A x \in E : \E i \in 1..Len(p) : p[i] = x
  BY <1>2, ListOfSet
<1>5. p \in Seq(Events) /\ \A i \in 1..Len(p) : p[i] \in E
  <2> HIDE DEF p, E
  <2> QED
    BY <1>3, <1>4
<1>6. \A i \in 1..Len(p) : p[i].status = "expired" /\ p[i].card \in sent
  <2> HIDE DEF p
  <2> QED
    BY <1>5
<1>7. \A c \in sent : \E i \in 1..Len(p) : p[i].card = c /\ p[i].status = "expired"
  <2> TAKE c \in sent
  <2>1. PICK i \in 1..Len(p) : p[i] = [card |-> c, status |-> "expired"]
    BY <1>4
  <2> HIDE DEF p
  <2> QED
    BY <2>1
<1> HIDE DEF p, E
<1>8. /\ r \in Seq(Events) /\ Len(r) = Len(q) + Len(p) /\ Len(q) \in Nat /\ Len(p) \in Nat
      /\ \A i \in 1..Len(q) : r[i] = q[i]
      /\ \A i \in 1..Len(p) : r[Len(q) + i] = p[i]
  BY <1>5
<1>9. /\ \A i \in 1..Len(r) : i \in 1..Len(q) \/ (i - Len(q) \in 1..Len(p) /\ r[i] = p[i - Len(q)])
      /\ \A i \in 1..Len(q) : i \in 1..Len(r)
      /\ \A i \in 1..Len(p) : Len(q) + i \in 1..Len(r)
  BY <1>8
<1> HIDE DEF r
<1>10. \A c, s : In(r, c, s) <=> In(q, c, s) \/ (c \in sent /\ s = "expired")
  <2> SUFFICES ASSUME NEW c, NEW s
               PROVE  In(r, c, s) <=> In(q, c, s) \/ (c \in sent /\ s = "expired")
    OBVIOUS
  <2>1. ASSUME In(r, c, s) PROVE In(q, c, s) \/ (c \in sent /\ s = "expired")
    BY <1>6, <1>8, <1>9, <2>1 DEF In
  <2>2. ASSUME In(q, c, s) PROVE In(r, c, s)
    BY <1>8, <1>9, <2>2 DEF In
  <2>3. ASSUME c \in sent, s = "expired" PROVE In(r, c, s)
    BY <1>7, <1>8, <1>9, <2>3 DEF In
  <2> QED
    BY <2>1, <2>2, <2>3
<1>11. ShowsOnce(q) => ShowsOnce(r)
  BY <1>6, <1>8, <1>9 DEF ShowsOnce
<1>12. Len(r) <= Len(q) + Cardinality(sent)
  BY <1>2, <1>4, <1>8, <1>1
<1> QED
  BY <1>1, <1>8, <1>10, <1>11, <1>12 DEF r, p, E

LEMMA Sending ==
    ASSUME Types, NEW c \in Cards, NEW s \in Statuses \cup {"pending"}, Send(c, s)
    PROVE  /\ chan' \in Seq(Events) /\ Len(chan') <= Cap /\ adrift' \in SUBSET Cards
           /\ adrift \subseteq adrift'
           /\ turn = "closed" => chan' = chan /\ adrift' = adrift \cup {c}
           /\ turn # "closed" =>
                 /\ adrift' = adrift
                 /\ \A d, t : In(chan', d, t) <=> In(chan, d, t) \/ (d = c /\ t = s)
                 /\ ShowsOnce(chan) /\ (s = "pending" => ~In(chan, c, "pending")) => ShowsOnce(chan')
<1> DEFINE e == [card |-> c, status |-> s]
<1>1. e \in Events /\ e.card = c /\ e.status = s
  BY DEF Events
<1>2. chan \in Seq(Events) /\ Len(chan) <= Cap /\ adrift \in SUBSET Cards
  BY DEF Types
<1>3. CASE turn = "closed"
  BY <1>2, <1>3 DEF Send
<1>4. CASE turn # "closed"
  <2>1. chan' = Append(chan, e) /\ adrift' = adrift /\ Len(chan) < Cap
    BY <1>4 DEF Send, HasRoom
  <2> HIDE DEF e
  <2>2. Len(chan) \in Nat /\ Cap \in Nat
    BY <1>2, ApprovalAssumption
  <2> QED
    BY <1>1, <1>2, <1>4, <2>1, <2>2, Appended
<1> QED
  BY <1>3, <1>4

\* Actions that are taken out of the table.
LEMMA TakenOut ==
    ASSUME Types, CardsOnce, NEW X \in SUBSET pending, pending' = pending \ X
    PROVE  /\ CardsOf(X) \subseteq CardsOf(pending) /\ CardsOf(pending) \in SUBSET Cards
           /\ CardsOf(pending') = CardsOf(pending) \ CardsOf(X)
BY DEF Types, CardsOnce, CardsOf, PendingActions

-----------------------------------------------------------------------------
(***************************************************************************)
(* How tools, cards and settlements fit together.                          *)
(***************************************************************************)
LEMMA BaseInit == Init => Base
<1> SUFFICES ASSUME Init PROVE Base
  OBVIOUS
<1>1. Types
  <2>1. tool \in [Tools -> ToolStates]
    BY DEF Init, ToolStates, AskedKinds, ToolSteps, Modes
  <2>2. job \in [Jobs -> JobStates]
    BY JobValues DEF Init
  <2>3. chan \in Seq(Events) /\ Len(chan) <= Cap
    BY ApprovalAssumption DEF Init
  <2>4. next \in 1..MaxCards + 1 /\ changes \in 0..MaxMeta
    BY ApprovalAssumption DEF Init
  <2> QED
    BY <2>1, <2>2, <2>3, <2>4 DEF Init, Types, Modes
<1>2. Driven /\ CardsOnce
  BY DEF Init, Driven, CardsOnce
<1>3. JobsInStep
  BY JobNames DEF Init, JobsInStep, InStep, NoJob
<1> QED
  BY <1>1, <1>2, <1>3 DEF Base

\* The steps of a tool that enter nothing and settle nothing themselves.
LEMMA ToolMoves ==
    ASSUME Base, NEW w \in Tools, turn = "driving", turn' = turn,
           tool' \in [Tools -> ToolStates], \A v \in Tools : v # w => tool'[v] = tool[v],
           tool'[w].card = tool[w].card \/ (tool'[w].card = 0 /\ tool'[w].pc = "done"),
           tool[w].pc = "recheck" => job[w].at = "idle",
           tool'[w].pc \in {"publish", "check", "recheck", "wait", "expire"} =>
               tool[w].pc \in {"publish", "check", "recheck", "wait", "expire"},
           next' = next, pending' \in SUBSET pending, job' = job
    PROVE  Driven' /\ CardsOnce' /\ JobsInStep'
<1>1. tool[w] \in ToolStates /\ tool'[w] \in ToolStates /\ next \in Nat /\ 0 < next
  BY ApprovalAssumption DEF Base, Types
<1>2. Driven'
  BY <1>1 DEF Base, Driven
<1>3. CardsOnce'
  BY <1>1 DEF Base, CardsOnce
<1>4. JobsInStep'
  <2>1. \A v \in Tools : job[v].at # "idle" => v # w
    BY DEF Base, JobsInStep
  <2> QED
    BY <2>1, JobNames DEF Base, JobsInStep
<1> QED
  BY <1>2, <1>3, <1>4

LEMMA ToolTypes ==
    ASSUME Base, NEW w \in Tools,
           Decide(w) \/ Classify(w) \/ Publish(w) \/ Rechecked(w) \/ Receive(w) \/ Timeout(w)
           \/ Expire(w) \/ GiveUp(w)
    PROVE  Base'
<1> USE DEF ToolSteps
<1>0. /\ Types /\ tool[w] \in ToolStates
      /\ tool[w].pc \in {"publish", "check", "recheck", "wait", "expire"} => tool[w].card \in Cards
  BY DEF Base, Types, Driven, ToolStates
<1>1. ASSUME Decide(w) PROVE Base'
  <2> DEFINE t == [tool[w] EXCEPT !.mode = meta.mode, !.pc = IF tool[w].kind = "policy" THEN "classify" ELSE "insert"]
  <2>1. CASE Goes(w, "done")
    <3>1. Types'
      BY <1>0, <1>1, <2>1, GoesOn DEF Types, Decide, convVars
    <3>2. Driven' /\ CardsOnce' /\ JobsInStep'
      BY <1>1, <2>1, <1>0, GoesOn, ToolMoves DEF Decide, At
    <3> QED
      BY <3>1, <3>2 DEF Base
  <2>2. CASE tool' = [tool EXCEPT ![w].mode = meta.mode,
                                  ![w].pc = IF tool[w].kind = "policy" THEN "classify" ELSE "insert"]
    <3>1. tool' = [tool EXCEPT ![w] = t] /\ meta.mode \in Modes
      BY <1>0, <2>2 DEF Types
    <3>2. t \in ToolStates /\ t.pc \in {"classify", "insert"} /\ t.card = tool[w].card
      BY <1>0, <3>1 DEF ToolStates
    <3>3. /\ tool' \in [Tools -> ToolStates] /\ tool'[w] = t
          /\ \A v \in Tools : v # w => tool'[v] = tool[v]
      BY <1>0, <3>1, <3>2 DEF Types
    <3>4. Types'
      BY <1>0, <1>1, <3>3 DEF Types, Decide, convVars
    <3>5. Driven' /\ CardsOnce' /\ JobsInStep'
      BY <1>1, <3>2, <3>3, ToolMoves DEF Decide, At
    <3> QED
      BY <3>4, <3>5 DEF Base
  <2> QED
    BY <1>1, <2>1, <2>2 DEF Decide
<1>2. ASSUME Classify(w) PROVE Base'
  <2>1. PICK verdict \in {"decide", "done", "insert"} : Goes(w, verdict)
    BY <1>2 DEF Classify
  <2>2. Types'
    BY <1>0, <1>2, <2>1, GoesOn DEF Types, Classify, convVars
  <2>3. Driven' /\ CardsOnce' /\ JobsInStep'
    BY <1>0, <1>2, <2>1, GoesOn, ToolMoves DEF Classify, At
  <2> QED
    BY <2>2, <2>3 DEF Base
<1>3. ASSUME Publish(w) PROVE Base'
  <2>1. Types'
    BY <1>0, <1>3, GoesOn, Sending DEF Types, Publish, At
  <2>2. Driven' /\ CardsOnce' /\ JobsInStep'
    BY <1>0, <1>3, GoesOn, ToolMoves DEF Publish, At
  <2> QED
    BY <2>1, <2>2 DEF Base
<1>4. ASSUME Rechecked(w) PROVE Base'
  <2>1. Types'
    BY <1>0, <1>4, GoesOn DEF Types, Rechecked, convVars
  <2>2. Driven' /\ CardsOnce' /\ JobsInStep'
    BY <1>0, <1>4, GoesOn, ToolMoves DEF Rechecked, At
  <2> QED
    BY <2>1, <2>2 DEF Base
<1>5. ASSUME Receive(w) PROVE Base'
  <2> DEFINE pc == IF answer[tool[w].card] = "changed" THEN "decide" ELSE "done"
  <2>1. Goes(w, pc) /\ pc \in ToolSteps
    BY <1>5 DEF Receive
  <2>2. told' \in [Cards -> Statuses \cup {"none"}]
    BY <1>0, <1>5 DEF Receive, Types, At
  <2>3. Types'
    BY <1>0, <1>5, <2>1, <2>2, GoesOn DEF Types, Receive, convVars
  <2>4. Driven' /\ CardsOnce' /\ JobsInStep'
    BY <1>0, <1>5, <2>1, GoesOn, ToolMoves DEF Receive, At
  <2> QED
    BY <2>3, <2>4 DEF Base
<1>6. ASSUME Timeout(w) PROVE Base'
  <2>1. Types'
    BY <1>0, <1>6, GoesOn DEF Types, Timeout, convVars
  <2>2. Driven' /\ CardsOnce' /\ JobsInStep'
    BY <1>0, <1>6, GoesOn, ToolMoves DEF Timeout, At
  <2> QED
    BY <2>1, <2>2 DEF Base
<1>7. ASSUME Expire(w) PROVE Base'
  <2>1. PICK s \in {"expired", "default"} : /\ Send(tool[w].card, s)
                                            /\ told' = [told EXCEPT ![tool[w].card] = s]
    BY <1>7 DEF Expire
  <2>2. told' \in [Cards -> Statuses \cup {"none"}] /\ s \in Statuses
    BY <1>0, <2>1 DEF Types, Statuses
  <2>3. Types'
    BY <1>0, <1>7, <2>1, <2>2, GoesOn, Sending DEF Types, Expire, At
  <2>4. Driven' /\ CardsOnce' /\ JobsInStep'
    BY <1>0, <1>7, GoesOn, ToolMoves DEF Expire, At
  <2> QED
    BY <2>3, <2>4 DEF Base
<1>8. ASSUME GiveUp(w) PROVE Base'
  <2>1. chan' \in Seq(Events) /\ Len(chan') <= Cap /\ adrift' \in SUBSET Cards
    <3> DEFINE e == [card |-> tool[w].card, status |-> "expired"]
    <3>1. e \in Events
      BY <1>0, <1>8 DEF GiveUp, Events, Statuses
    <3>2. \/ chan' = Append(chan, e) /\ Len(chan) < Cap /\ adrift' = adrift
          \/ chan' = chan /\ adrift' \in SUBSET (adrift \cup {tool[w].card})
      BY <1>8 DEF GiveUp
    <3>3. chan \in Seq(Events) /\ Len(chan) <= Cap /\ adrift \in SUBSET Cards /\ tool[w].card \in Cards
      BY <1>0, <1>8 DEF Types, GiveUp
    <3>4. Len(chan) \in Nat /\ Cap \in Nat
      BY <3>3, ApprovalAssumption
    <3> HIDE DEF e
    <3> QED
      BY <3>1, <3>2, <3>3, <3>4, Appended
  <2>2. Types'
    BY <1>0, <1>8, <2>1, GoesOn DEF Types, GiveUp
  <2>3. Driven' /\ CardsOnce' /\ JobsInStep'
    BY <1>0, <1>8, GoesOn, ToolMoves DEF GiveUp
  <2> QED
    BY <2>2, <2>3 DEF Base
<1> QED
  BY <1>1, <1>2, <1>3, <1>4, <1>5, <1>6, <1>7, <1>8

\* A settlement that goes on.
LEMMA JobMoves ==
    ASSUME Base, NEW j \in Jobs, NEW v \in JobStates, job' = [job EXCEPT ![j] = v],
           InStep(v),
           j \in Tools => v.at = "idle" \/ tool'[j].pc = "recheck",
           \A w \in Tools : w = j \/ tool'[w].pc = tool[w].pc
    PROVE  job' \in [Jobs -> JobStates] /\ JobsInStep'
<1>1. job \in [Jobs -> JobStates]
  BY DEF Base, Types
<1>2. /\ job' \in [Jobs -> JobStates] /\ job'[j] = v
      /\ \A k \in Jobs : k # j => job'[k] = job[k]
  BY <1>1
<1> QED
  BY <1>2, JobNames DEF Base, JobsInStep

LEMMA ToolsStay ==
    ASSUME Base, tool' = tool, next' = next, pending' \in SUBSET pending, turn' = turn
    PROVE  Driven' /\ CardsOnce'
BY DEF Base, Driven, CardsOnce

LEMMA TakenCards ==
    ASSUME Types
    PROVE  /\ \A X \in SUBSET pending : CardsOf(X) \in SUBSET Cards
           /\ \A m : OutOfMode(m) \in SUBSET pending
           /\ AskedChoices \in SUBSET pending
BY DEF Types, CardsOf, OutOfMode, AskedChoices, PendingActions

LEMMA InsertTypes ==
    ASSUME Base, NEW w \in Tools, Insert(w)
    PROVE  Base'
<1> DEFINE t == [tool[w] EXCEPT !.card = next, !.pc = "publish"]
           a == [card |-> next, kind |-> tool[w].kind, mode |-> tool[w].mode]
<1>1. /\ tool \in [Tools -> ToolStates] /\ tool[w] \in ToolStates
      /\ next \in Cards /\ next \in 1..MaxCards + 1 /\ MaxCards \in Nat
  BY ApprovalAssumption DEF Base, Types, Insert, Cards
<1>2. t \in ToolStates /\ t.card = next /\ t.pc = "publish" /\ a \in PendingActions /\ a.card = next
  BY <1>1, KnownKinds DEF ToolStates, ToolSteps, PendingActions
<1>3. tool' = [tool EXCEPT ![w] = t] /\ pending' = pending \cup {a}
  BY <1>1 DEF Insert
<1> HIDE DEF t, a
<1>4. /\ tool' \in [Tools -> ToolStates] /\ tool'[w] = t
      /\ \A v \in Tools : v # w => tool'[v] = tool[v]
  BY <1>1, <1>2, <1>3
<1>5. next' = next + 1 /\ next' \in 1..MaxCards + 1
  BY <1>1 DEF Insert, Cards
<1>6. pending' \in SUBSET PendingActions
  BY <1>2, <1>3 DEF Base, Types
<1>7. Types'
  BY <1>4, <1>5, <1>6 DEF Base, Types, Insert, convVars
<1>8. Driven'
  BY <1>1, <1>2, <1>4 DEF Base, Driven, Insert, At, Cards
<1>9. CardsOnce'
  <2>1. \A v \in Tools : tool[v].card \in Nat /\ tool[v].card < next
    BY <1>1, ApprovalAssumption DEF Base, CardsOnce, Types, ToolStates, Cards
  <2>2. \A b \in pending : b.card \in Nat /\ b.card < next
    BY <1>1 DEF Base, CardsOnce, Types, PendingActions, Cards
  <2>3. next \in Nat
    BY <1>1
  <2> QED
    BY <2>1, <2>2, <2>3, <1>2, <1>3, <1>4, <1>5 DEF Base, CardsOnce
<1>10. JobsInStep'
  <2>1. job' = job /\ tool[w].pc = "insert"
    BY DEF Insert, At
  <2>2. \A v \in Tools : job[v].at # "idle" => v # w
    BY <2>1 DEF Base, JobsInStep
  <2> QED
    BY <2>1, <2>2, <1>4, JobNames DEF Base, JobsInStep
<1> QED
  BY <1>7, <1>8, <1>9, <1>10 DEF Base

LEMMA CheckTypes ==
    ASSUME Base, NEW w \in Tools, Check(w)
    PROVE  Base'
<1>1. Types /\ turn = "driving" /\ turn' = turn /\ next' = next /\ tool[w].pc = "check" /\ w \in Jobs
  BY JobNames DEF Base, Check, At
<1>2. CASE Goes(w, "wait") /\ UNCHANGED <<job, pending>>
  <2>1. Types'
    BY <1>1, <1>2, GoesOn DEF Types, Check, convVars, ToolSteps
  <2>2. Driven' /\ CardsOnce' /\ JobsInStep'
    BY <1>1, <1>2, GoesOn, ToolMoves DEF ToolSteps
  <2> QED
    BY <2>1, <2>2 DEF Base
<1>3. CASE /\ Goes(w, "recheck")
           /\ job' = [job EXCEPT ![w] = Settling("changed", CardsOf(OutOfMode(meta.mode)))]
           /\ pending' = pending \ OutOfMode(meta.mode)
  <2> DEFINE v == Settling("changed", CardsOf(OutOfMode(meta.mode)))
  <2>1. v \in JobStates /\ InStep(v)
    BY <1>1, TakenCards, JobValues DEF Statuses
  <2> HIDE DEF v
  <2>2. job' = [job EXCEPT ![w] = v]
    BY <1>3 DEF v
  <2>3. /\ tool' \in [Tools -> ToolStates] /\ tool'[w].pc = "recheck"
        /\ tool'[w].card = tool[w].card
        /\ \A u \in Tools : u # w => tool'[u] = tool[u]
    BY <1>1, <1>3, GoesOn DEF ToolSteps
  <2>4. job' \in [Jobs -> JobStates] /\ JobsInStep'
    BY <1>1, <2>1, <2>2, <2>3, JobMoves
  <2>5. pending' \in SUBSET pending
    BY <1>3
  <2>6. Types'
    BY <1>1, <2>3, <2>4, <2>5 DEF Types, Check, convVars
  <2>7. Driven'
    BY <1>1, <2>3 DEF Base, Driven
  <2>8. CardsOnce'
    BY <1>1, <2>3, <2>5 DEF Base, CardsOnce
  <2> QED
    BY <2>4, <2>6, <2>7, <2>8 DEF Base
<1> QED
  BY <1>2, <1>3 DEF Check

\* The steps of those who settle.
LEMMA JobTypes ==
    ASSUME Base,
           \/ Respond \/ Join \/ AnswerInChat
           \/ \E j \in Switches : SetMode(j) \/ Recheck(j)
           \/ \E j \in Jobs : Job(j)
    PROVE  Base'
<1>0. Types /\ job \in [Jobs -> JobStates]
  BY DEF Base, Types
<1>1. /\ \A X \in SUBSET pending : CardsOf(X) \in SUBSET Cards
      /\ \A m : OutOfMode(m) \in SUBSET pending
      /\ AskedChoices \in SUBSET pending
  BY <1>0, TakenCards
<1>2. ASSUME NEW j \in Jobs, NEW how \in Statuses, NEW cards \in SUBSET Cards,
             job' = [job EXCEPT ![j] = Settling(how, cards)], tool' = tool,
             j \notin Tools \/ job[j].at # "idle"
      PROVE  job' \in [Jobs -> JobStates] /\ JobsInStep'
  <2> DEFINE v == Settling(how, cards)
  <2>1. v \in JobStates /\ InStep(v)
    BY JobValues
  <2>2. j \in Tools => tool[j].pc = "recheck"
    BY <1>2 DEF Base, JobsInStep
  <2> HIDE DEF v
  <2>3. job' = [job EXCEPT ![j] = v]
    BY <1>2 DEF v
  <2> QED
    BY <1>2, <2>1, <2>2, <2>3, JobMoves
<1>3. ASSUME Respond PROVE Base'
  <2>1. PICK a \in pending : job' = [job EXCEPT !["user"] = Settling("answered", {a.card})]
    BY <1>3 DEF Respond
  <2>2. {a.card} \in SUBSET Cards
    BY <1>0 DEF Types, PendingActions
  <2>3. job' \in [Jobs -> JobStates] /\ JobsInStep'
    BY <1>2, <1>3, <2>1, <2>2, JobNames DEF Respond, Statuses
  <2>4. pending' \in SUBSET pending
    BY <1>3 DEF Respond
  <2>5. Types'
    BY <1>0, <1>3, <2>3, <2>4 DEF Types, Respond, convVars
  <2> QED
    BY <1>3, <2>3, <2>4, <2>5, ToolsStay DEF Base, Respond
<1>4. ASSUME Join PROVE Base'
  <2>1. PICK m \in [mode : Modes, attended : BOOLEAN], written \in BOOLEAN :
            /\ meta' = m
            /\ joined' = (joined \/ m.mode # meta.mode)
            /\ job' = IF written THEN [job EXCEPT !["chat"] = [NoJob EXCEPT !.at = "take",
                                                                !.how = "in_chat"]]
                      ELSE job
    BY <1>4 DEF Join
  <2>2. job' \in [Jobs -> JobStates] /\ JobsInStep'
    <3>1. CASE written
      <4> DEFINE v == [NoJob EXCEPT !.at = "take", !.how = "in_chat"]
      <4>1. v \in JobStates /\ v.at = "take" /\ v.cards = {}
        BY JobValues
      <4> HIDE DEF v
      <4>2. job' = [job EXCEPT !["chat"] = v] /\ tool' = tool
        BY <1>4, <2>1, <3>1 DEF Join, v
      <4>3. InStep(v)
        BY <4>1 DEF InStep
      <4> QED
        BY <4>1, <4>2, <4>3, JobNames, JobMoves
    <3>2. CASE ~written
      BY <1>0, <1>4, <2>1, <3>2 DEF Base, JobsInStep, Join
    <3> QED
      BY <3>1, <3>2
  <2>3. changes' \in 0..MaxMeta /\ joined' \in BOOLEAN
    BY <1>0, <1>4, <2>1, ApprovalAssumption DEF Types, Join
  <2>4. Types'
    BY <1>0, <1>4, <2>1, <2>2, <2>3 DEF Types, Join, convVars
  <2> QED
    BY <1>4, <2>2, <2>4, ToolsStay DEF Base, Join
<1>5. ASSUME AnswerInChat PROVE Base'
  <2>1. job' \in [Jobs -> JobStates] /\ JobsInStep'
    BY <1>1, <1>2, <1>5, JobNames DEF AnswerInChat, Statuses
  <2>2. Types'
    BY <1>0, <1>5, <2>1 DEF Types, AnswerInChat, convVars
  <2> QED
    BY <1>5, <2>1, <2>2, ToolsStay DEF Base, AnswerInChat
<1>6. ASSUME NEW j \in Switches, SetMode(j) PROVE Base'
  <2>1. PICK mode \in Modes \ {meta.mode} :
            /\ meta' = [meta EXCEPT !.mode = mode]
            /\ job' = [job EXCEPT ![j] = [NoJob EXCEPT !.at = "take", !.how = "changed", !.mode = mode]]
    BY <1>6 DEF SetMode
  <2> DEFINE v == [NoJob EXCEPT !.at = "take", !.how = "changed", !.mode = mode]
  <2>2. v \in JobStates /\ v.at = "take" /\ v.cards = {}
    BY JobValues
  <2> HIDE DEF v
  <2>3. job' = [job EXCEPT ![j] = v] /\ tool' = tool
    BY <1>6, <2>1 DEF SetMode, v
  <2>4. InStep(v)
    BY <2>2 DEF InStep
  <2>5. job' \in [Jobs -> JobStates] /\ JobsInStep'
    BY <2>2, <2>3, <2>4, JobNames, JobMoves
  <2>6. changes' \in 0..MaxMeta
    <3>1. changes < MaxMeta /\ changes' = changes + 1
      BY <1>6 DEF SetMode
    <3> QED
      BY <1>0, <3>1, ApprovalAssumption DEF Types
  <2>7. Types'
    BY <1>0, <1>6, <2>1, <2>5, <2>6 DEF Types, SetMode, convVars
  <2> QED
    BY <1>6, <2>5, <2>7, ToolsStay DEF Base, SetMode
<1>7. ASSUME NEW j \in Switches, Recheck(j) PROVE Base'
  <2>1. job' \in [Jobs -> JobStates] /\ JobsInStep'
    <3> DEFINE cards == CardsOf(OutOfMode(job[j].mode))
    <3>1. cards \in SUBSET Cards /\ "changed" \in Statuses /\ j \in Jobs /\ j \notin Tools
      BY <1>1, JobNames DEF Statuses
    <3>2. job' = [job EXCEPT ![j] = Settling("changed", cards)] /\ tool' = tool
      BY <1>7 DEF Recheck
    <3> QED
      BY <1>2, <3>1, <3>2
  <2>2. pending' \in SUBSET pending
    BY <1>7 DEF Recheck
  <2>3. Types'
    BY <1>0, <1>7, <2>1, <2>2 DEF Types, Recheck, convVars
  <2> QED
    BY <1>7, <2>1, <2>2, <2>3, ToolsStay DEF Base, Recheck
<1>8. ASSUME NEW j \in Jobs, Settle(j) PROVE Base'
  <2>1. PICK c \in job[j].cards : /\ Send(c, job[j].how)
                                  /\ job' = [job EXCEPT ![j].at = "release", ![j].card = c]
    BY <1>8 DEF Settle
  <2>2. job[j] \in JobStates /\ c \in Cards
    BY <1>0 DEF JobStates
  <2> DEFINE v == [job[j] EXCEPT !.at = "release", !.card = c]
  <2>3. v \in JobStates /\ InStep(v)
    BY <2>1, <2>2 DEF JobStates, InStep
  <2>4. job' = [job EXCEPT ![j] = v] /\ tool' = tool
    BY <1>0, <1>8, <2>1 DEF Settle
  <2> HIDE DEF v
  <2>5. j \in Tools => tool[j].pc = "recheck"
    BY <1>8 DEF Settle, Base, JobsInStep
  <2>6. job' \in [Jobs -> JobStates] /\ JobsInStep'
    BY <2>3, <2>4, <2>5, JobMoves
  <2>7. chan' \in Seq(Events) /\ Len(chan') <= Cap /\ adrift' \in SUBSET Cards
    BY <1>0, <2>1, <2>2, Sending DEF JobStates
  <2>8. Types'
    BY <1>0, <1>8, <2>6, <2>7 DEF Types, Settle
  <2> QED
    BY <1>8, <2>6, <2>8, ToolsStay DEF Base, Settle
<1>9. ASSUME NEW j \in Jobs, Release(j) PROVE Base'
  <2>1. job[j] \in JobStates /\ job[j].card \in Cards
    BY <1>0, <1>9 DEF Base, JobsInStep, InStep, Release, JobStates
  <2> DEFINE how == job[j].how
             rest == job[j].cards \ {job[j].card}
  <2>a. how \in Statuses /\ rest \in SUBSET Cards
    BY <2>1 DEF JobStates
  <2>b. job' = [job EXCEPT ![j] = Settling(how, rest)] /\ tool' = tool /\ job[j].at # "idle"
    BY <1>9 DEF Release
  <2> HIDE DEF how, rest
  <2>2. job' \in [Jobs -> JobStates] /\ JobsInStep'
    BY <1>2, <2>a, <2>b
  <2>3. answer' \in [Cards -> Statuses \cup {"none"}]
    BY <1>0, <1>9, <2>1 DEF Release, Answered, Types, JobStates
  <2>4. Types'
    BY <1>0, <1>9, <2>2, <2>3 DEF Types, Release, convVars
  <2> QED
    BY <1>9, <2>2, <2>4, ToolsStay DEF Base, Release
<1> QED
  BY <1>3, <1>4, <1>5, <1>6, <1>7, <1>8, <1>9 DEF Job

\* The steps of the runner.
LEMMA RunnerTypes ==
    ASSUME Base,
           Apply \/ Finish \/ HandOver \/ RequestStop \/ Interrupt \/ StopDrained \/ CancelPending \/ Close
    PROVE  Base'
<1>0. Types
  BY DEF Base
<1>1. ASSUME Apply PROVE Base'
  <2> DEFINE event == Head(chan)
  <2>1. event \in Events /\ chan' \in Seq(Events) /\ Len(chan') <= Cap
    <3>1. chan \in Seq(Events) /\ chan # <<>> /\ chan' = Tail(chan) /\ Len(chan) <= Cap /\ Len(chan) \in Nat /\ Cap \in Nat
      BY <1>0, <1>1, ApprovalAssumption DEF Types, Apply
    <3>2. event \in Events /\ chan' \in Seq(Events) /\ Len(chan') = Len(chan) - 1
      BY <3>1, Taken
    <3> QED
      BY <3>1, <3>2
  <2>2. \/ adrift' = adrift \cup {event.card} /\ conv' = conv
        \/ conv' = [conv EXCEPT ![event.card] = event.status] /\ adrift' = adrift
    BY <1>1 DEF Apply
  <2>3. conv' \in [Cards -> Statuses \cup {"none", "pending"}] /\ adrift' \in SUBSET Cards
    <3> HIDE DEF event
    <3> QED
      BY <1>0, <2>1, <2>2 DEF Types, Events
  <2>4. Types'
    BY <1>0, <1>1, <2>1, <2>3 DEF Types, Apply
  <2>5. JobsInStep'
    BY <1>1 DEF Base, JobsInStep, Apply
  <2> QED
    BY <1>1, <2>4, <2>5, ToolsStay DEF Base, Apply
<1>2. ASSUME turn' \in {"draining", "over", "cancelling", "closed"},
             \A w \in Tools : tool[w].pc \in {"done", "off"},
             tool' = tool, job' = job, next' = next, pending' \in SUBSET pending
      PROVE  Driven' /\ CardsOnce' /\ JobsInStep'
  BY <1>2 DEF Base, Driven, CardsOnce, JobsInStep
<1>3. turn # "driving" => \A w \in Tools : tool[w].pc \in {"done", "off"}
  BY DEF Base, Driven
<1>4. ASSUME Finish PROVE Base'
  <2>1. Types'
    BY <1>0, <1>4 DEF Types, Finish, convVars
  <2> QED
    BY <1>2, <1>4, <2>1 DEF Base, Finish
<1>5. ASSUME HandOver PROVE Base'
  <2>1. Types'
    BY <1>0, <1>5 DEF Types, HandOver, convVars
  <2> QED
    BY <1>2, <1>3, <1>5, <2>1 DEF Base, HandOver
<1>6. ASSUME RequestStop PROVE Base'
  <2>1. Types'
    BY <1>0, <1>6 DEF Types, RequestStop, convVars
  <2>2. JobsInStep'
    BY <1>6 DEF Base, JobsInStep, RequestStop
  <2> QED
    BY <1>6, <2>1, <2>2, ToolsStay DEF Base, RequestStop
<1>7. ASSUME StopDrained PROVE Base'
  <2>1. Types'
    BY <1>0, <1>7 DEF Types, StopDrained, convVars
  <2> QED
    BY <1>2, <1>3, <1>7, <2>1 DEF Base, StopDrained
<1>8. ASSUME CancelPending PROVE Base'
  <2>1. /\ conv' \in [Cards -> Statuses \cup {"none", "pending"}]
        /\ answer' \in [Cards -> Statuses \cup {"none"}]
    BY <1>0, <1>8 DEF Types, CancelPending, Statuses
  <2>2. Types'
    BY <1>0, <1>8, <2>1 DEF Types, CancelPending
  <2> QED
    BY <1>2, <1>3, <1>8, <2>2 DEF Base, CancelPending
<1>9. ASSUME Close PROVE Base'
  <2>1. adrift' \in SUBSET Cards
    <3>1. \A i \in 1..Len(chan) : chan[i] \in Events
      BY <1>0 DEF Types
    <3>2. \A i \in 1..Len(chan) : chan[i].card \in Cards
      BY <3>1 DEF Events
    <3> QED
      BY <1>0, <1>9, <3>2 DEF Types, Close
  <2>2. chan' \in Seq(Events) /\ Len(chan') <= Cap
    BY <1>9, ApprovalAssumption DEF Close
  <2>3. Types'
    BY <1>0, <1>9, <2>1, <2>2 DEF Types, Close
  <2> QED
    BY <1>2, <1>3, <1>9, <2>3 DEF Base, Close
<1>10. ASSUME Interrupt PROVE Base'
  <2> DEFINE inputs == {tool[w].card : w \in {v \in Tools : tool[v].kind = "input"}}
             closing == {a \in pending : a.card \in inputs}
             held == UNION {job[w].cards \ {job[w].card} : w \in Tools}
             late == {tool[w].card : w \in {v \in Tools : tool[v].pc = "expire"}}
             unsent == held \cup late
             t(w) == [tool[w] EXCEPT !.pc = "off", !.mode = "strict", !.card = 0]
  <2>1. unsent \in SUBSET Cards /\ CardsOf(closing) \in SUBSET Cards
    <3>1. \A w \in Tools : job[w] \in JobStates /\ tool[w] \in ToolStates
      BY <1>0, JobNames DEF Types
    <3>2. \A w \in Tools : tool[w].pc = "expire" => tool[w].card \in Cards
      BY <3>1 DEF Base, Driven, ToolStates
    <3>3. CardsOf(closing) \in SUBSET Cards
      BY <1>0, TakenCards
    <3>4. \A w \in Tools : job[w].cards \in SUBSET Cards
      BY <3>1 DEF JobStates
    <3>5. held \in SUBSET Cards
      BY <3>4
    <3>6. late \in SUBSET Cards
      BY <3>2
    <3> HIDE DEF closing, held, late
    <3> QED
      BY <3>3, <3>5, <3>6
  <2>2. PICK sent \in SUBSET CardsOf(closing) :
              /\ \/ Len(chan) + Cardinality(sent) = Cap
                 \/ sent = CardsOf(closing) /\ Len(chan) + Cardinality(sent) < Cap
              /\ pending' = pending \ closing
              /\ chan' = chan \o SetToSeq({[card |-> c, status |-> "expired"] : c \in sent})
              /\ adrift' = adrift \cup (CardsOf(closing) \ sent) \cup unsent
    BY <1>10 DEF Interrupt
  <2>3. chan' \in Seq(Events) /\ Len(chan') <= Cap
    <3>0. chan \in Seq(Events) /\ Len(chan) \in Nat /\ Cap \in Nat
      BY <1>0, ApprovalAssumption DEF Types
    <3> HIDE DEF closing, unsent
    <3>1. sent \in SUBSET Cards /\ Len(chan) + Cardinality(sent) <= Cap
      <4>1. sent \in SUBSET Cards
        BY <2>1, <2>2
      <4>2. Cardinality(sent) \in Nat
        BY <3>0, <4>1, Closing
      <4> QED
        BY <2>2, <3>0, <4>1, <4>2
    <3>2. chan' \in Seq(Events) /\ Len(chan') <= Len(chan) + Cardinality(sent) /\ Cardinality(sent) \in Nat
      BY <2>2, <3>0, <3>1, Closing
    <3>3. Len(chan') \in Nat
      BY <3>2
    <3> QED
      BY <3>0, <3>1, <3>2, <3>3
  <2>4. tool' \in [Tools -> ToolStates] /\ \A w \in Tools : tool'[w].pc = "off" /\ tool'[w].card = 0
    <3>1. \A w \in Tools : t(w) \in ToolStates /\ t(w).pc = "off" /\ t(w).card = 0
      BY <1>0 DEF Types, ToolStates, ToolSteps, Modes
    <3>2. tool' = [w \in Tools |-> t(w)]
      BY <1>10 DEF Interrupt
    <3> QED
      BY <3>1, <3>2
  <2>5. /\ job' \in [Jobs -> JobStates]
        /\ \A j \in Jobs : job'[j] = IF j \in Tools THEN NoJob ELSE job[j]
    BY <1>0, <1>10, JobValues DEF Types, Interrupt
  <2>6. JobsInStep'
    <3>1. InStep(NoJob)
      BY JobValues DEF InStep
    <3> HIDE DEF closing, unsent
    <3>2. \A j \in Jobs : InStep(job'[j])
      BY <2>5, <3>1 DEF Base, JobsInStep
    <3>3. \A w \in Tools : job'[w].at = "idle"
      BY <2>5, JobNames, JobValues
    <3> QED
      BY <3>2, <3>3 DEF JobsInStep
  <2>7. Types'
    BY <1>0, <1>10, <2>1, <2>2, <2>3, <2>4, <2>5 DEF Types, Interrupt
  <2>8. CardsOnce'
    <3>1. 0 < next /\ next' = next /\ pending' \in SUBSET pending
      <4>1. next' = next /\ next \in 1..MaxCards + 1 /\ MaxCards \in Nat
        BY <1>0, <1>10, ApprovalAssumption DEF Types, Interrupt
      <4> QED
        BY <2>2, <4>1
    <3> QED
      BY <2>4, <3>1 DEF Base, CardsOnce
  <2>9. Driven'
    BY <2>4 DEF Driven
  <2> QED
    BY <2>6, <2>7, <2>8, <2>9 DEF Base
<1> QED
  BY <1>1, <1>4, <1>5, <1>6, <1>7, <1>8, <1>9, <1>10

LEMMA BaseStep == Base /\ [Next]_vars => Base'
<1>1. ASSUME Base, Next PROVE Base'
  BY <1>1, ToolTypes, InsertTypes, CheckTypes, JobTypes, RunnerTypes DEF Next, Tool
<1>2. ASSUME Base, UNCHANGED vars PROVE Base'
  BY <1>2 DEF vars, convVars, Base, Types, Driven, CardsOnce, JobsInStep
<1> QED
  BY <1>1, <1>2

LEMMA BaseAlways == Spec => []Base
BY BaseInit, BaseStep, PTL DEF Spec

\* The types of the variables, as the code keeps them: no tool or settlement has a card
\* that was not given out, and the channel holds no more than its capacity, whatever a
\* stop closes at once.
THEOREM ApprovalsTypeCorrect == Spec => []TypeOK
<1>1. Base => TypeOK
  BY SameTypes DEF Base
<1> QED
  BY <1>1, BaseAlways, PTL

-----------------------------------------------------------------------------
(***************************************************************************)
(* Approvals follow the mode.                                              *)
(***************************************************************************)
Looking(w) == tool[w].pc \in {"publish", "check"}

LEMMA OwnActionStep ==
    ASSUME Base, OwnAction, Next
    PROVE  OwnAction'
<1>0. Types
  BY DEF Base
<1>1. ASSUME pending' \in SUBSET pending,
             \A w \in Tools : Looking(w)' =>
                 /\ Looking(w) /\ tool'[w].card = tool[w].card /\ tool'[w].kind = tool[w].kind
                 /\ tool'[w].mode = tool[w].mode
      PROVE  OwnAction'
  BY <1>1 DEF OwnAction, Looking
<1>2. ASSUME NEW w \in Tools, NEW pc \in ToolSteps \ {"publish", "check"}, Goes(w, pc),
             pending' \in SUBSET pending
      PROVE  OwnAction'
  <2>1. \A v \in Tools : v # w => tool'[v] = tool[v]
    BY <1>0, <1>2, GoesOn
  <2>2. tool'[w].pc = pc
    BY <1>0, <1>2, GoesOn
  <2> QED
    BY <1>1, <1>2, <2>1, <2>2 DEF Looking
<1>3. ASSUME NEW w \in Tools, Tool(w) \/ GiveUp(w) PROVE OwnAction'
  <2>1. ASSUME Decide(w) PROVE OwnAction'
    <3>1. CASE Goes(w, "done")
      BY <1>2, <2>1, <3>1 DEF Decide, ToolSteps
    <3>2. CASE tool' = [tool EXCEPT ![w].mode = meta.mode,
                                    ![w].pc = IF tool[w].kind = "policy" THEN "classify" ELSE "insert"]
      <4>1. \A v \in Tools : v # w => tool'[v] = tool[v]
        BY <1>0, <3>2 DEF Types
      <4>2. tool'[w].pc \in {"classify", "insert"}
        BY <1>0, <3>2 DEF Types, ToolStates
      <4> QED
        BY <1>1, <2>1, <4>1, <4>2 DEF Looking, Decide
    <3> QED
      BY <2>1, <3>1, <3>2 DEF Decide
  <2>2. ASSUME Classify(w) PROVE OwnAction'
    BY <1>2, <2>2 DEF Classify, ToolSteps
  <2>3. ASSUME Insert(w) PROVE OwnAction'
    <3> DEFINE t == [tool[w] EXCEPT !.card = next, !.pc = "publish"]
               a == [card |-> next, kind |-> tool[w].kind, mode |-> tool[w].mode]
    <3>1. tool \in [Tools -> ToolStates] /\ tool[w] \in ToolStates
      BY <1>0 DEF Types
    <3>2. t.card = next /\ t.kind = tool[w].kind /\ t.mode = tool[w].mode
      BY <3>1 DEF ToolStates
    <3>3. a.card = next /\ a.kind = tool[w].kind /\ a.mode = tool[w].mode
      OBVIOUS
    <3>4. tool' = [tool EXCEPT ![w] = t] /\ pending' = pending \cup {a}
      BY <2>3, <3>1 DEF Insert
    <3> HIDE DEF t, a
    <3>5. tool'[w] = t /\ \A v \in Tools : v # w => tool'[v] = tool[v]
      BY <3>1, <3>4
    <3>6. (\A v \in Tools : tool[v].card # next) /\ (\A b \in pending : b.card # next)
      <4>1. \A v \in Tools : tool[v].card \in Nat
        BY <3>1 DEF ToolStates, Cards
      <4>2. \A b \in pending : b.card \in Nat
        BY <1>0 DEF Types, PendingActions, Cards
      <4>3. next \in Nat
        BY <1>0 DEF Types
      <4> QED
        BY <4>1, <4>2, <4>3 DEF Base, CardsOnce
    <3> QED
      BY <3>2, <3>3, <3>4, <3>5, <3>6 DEF OwnAction
  <2>4. ASSUME Publish(w) PROVE OwnAction'
    <3>1. Goes(w, "check") /\ "check" \in ToolSteps /\ pending' = pending /\ tool[w].pc = "publish"
      BY <2>4 DEF Publish, ToolSteps, At
    <3>2. /\ \A v \in Tools : v # w => tool'[v] = tool[v]
          /\ tool'[w].card = tool[w].card /\ tool'[w].mode = tool[w].mode
          /\ tool'[w].kind = tool[w].kind
      BY <1>0, <3>1, GoesOn
    <3> QED
      BY <1>1, <3>1, <3>2 DEF Looking
  <2>5. ASSUME Check(w) PROVE OwnAction'
    BY <1>2, <2>5 DEF Check, ToolSteps
  <2>6. ASSUME Rechecked(w) PROVE OwnAction'
    BY <1>2, <2>6 DEF Rechecked, ToolSteps
  <2>7. ASSUME Receive(w) PROVE OwnAction'
    BY <1>2, <2>7 DEF Receive, ToolSteps
  <2>8. ASSUME Timeout(w) PROVE OwnAction'
    BY <1>2, <2>8 DEF Timeout, ToolSteps
  <2>9. ASSUME Expire(w) PROVE OwnAction'
    BY <1>2, <2>9 DEF Expire, ToolSteps
  <2>10. ASSUME GiveUp(w) PROVE OwnAction'
    BY <1>2, <2>10 DEF GiveUp, ToolSteps
  <2> QED
    BY <1>3, <2>1, <2>2, <2>3, <2>4, <2>5, <2>6, <2>7, <2>8, <2>9, <2>10 DEF Tool
<1>4. ASSUME tool' = tool, pending' \in SUBSET pending PROVE OwnAction'
  BY <1>1, <1>4 DEF Looking
<1>5. ASSUME Interrupt PROVE OwnAction'
  <2>1. pending' \in SUBSET pending
    BY <1>5 DEF Interrupt
  <2>2. \A w \in Tools : tool'[w].pc = "off"
    BY <1>0, <1>5 DEF Interrupt, Types, ToolStates
  <2> QED
    BY <1>1, <2>1, <2>2 DEF Looking
<1>6. ASSUME \/ Respond \/ Join \/ AnswerInChat
             \/ \E j \in Switches : SetMode(j) \/ Recheck(j)
             \/ \E j \in Jobs : Job(j)
             \/ Apply \/ Finish \/ HandOver \/ RequestStop \/ StopDrained \/ CancelPending \/ Close
      PROVE  tool' = tool /\ pending' \in SUBSET pending
  BY <1>6 DEF Respond, Join, AnswerInChat, SetMode, Recheck, Job, Settle, Release, Apply, Finish,
              HandOver, RequestStop, StopDrained, CancelPending, Close
<1> QED
  BY <1>3, <1>4, <1>5, <1>6 DEF Next

\* Who looks goes on looking until no action of another mode is its own.
LEMMA LookedAtStep ==
    ASSUME Base, OwnAction, LookedAt, Next
    PROVE  LookedAt'
<1>0. Types
  BY DEF Base
<1>1. ASSUME meta'.mode = meta.mode, joined' = joined, turn' = turn \/ turn' # "driving",
             \A j \in Switches : job[j].at = "take" => job'[j] = job[j],
             \A a \in pending' : \/ a \in pending
                                 \/ \E w \in Tools : tool'[w].card = a.card /\ Looking(w)',
             \A w \in Tools : Looking(w) =>
                 \/ Looking(w)' /\ tool'[w].card = tool[w].card
                 \/ \A a \in pending' : a.card = tool[w].card => a \notin OutOfMode(meta.mode)
      PROVE  LookedAt'
  BY <1>1 DEF LookedAt, OutOfMode, Looking
<1>2. ASSUME NEW w \in Tools, Tool(w) \/ GiveUp(w) PROVE LookedAt'
  <2>0. /\ meta' = meta /\ joined' = joined /\ turn' = turn /\ turn = "driving"
        /\ \A j \in Switches : job'[j] = job[j]
    BY <1>0, <1>2, JobNames
    DEF Types, Tool, Decide, Classify, Insert, Publish, Check, Rechecked, Receive, Timeout, Expire, GiveUp, At
  <2>1. ASSUME NEW pc \in ToolSteps, Goes(w, pc), pending' \in SUBSET pending,
               \/ ~Looking(w) \/ pc \in {"publish", "check"}
               \/ \A a \in pending' : a.card = tool[w].card => a \notin OutOfMode(meta.mode)
        PROVE  LookedAt'
    <3>1. /\ \A v \in Tools : v # w => tool'[v] = tool[v]
          /\ tool'[w].pc = pc
          /\ pc # "done" => tool'[w].card = tool[w].card
      BY <1>0, <2>1, GoesOn
    <3>2. pc \in {"publish", "check"} => Looking(w)' /\ tool'[w].card = tool[w].card
      BY <3>1 DEF Looking
    <3>3. \A v \in Tools : v # w /\ Looking(v) => Looking(v)' /\ tool'[v].card = tool[v].card
      BY <3>1 DEF Looking
    <3>4. \A v \in Tools : Looking(v) =>
              \/ Looking(v)' /\ tool'[v].card = tool[v].card
              \/ \A a \in pending' : a.card = tool[v].card => a \notin OutOfMode(meta.mode)
      BY <2>1, <3>2, <3>3
    <3>5. \A a \in pending' : a \in pending
      BY <2>1
    <3> QED
      BY <1>1, <2>0, <3>4, <3>5
  <2>2. ASSUME Decide(w) PROVE LookedAt'
    <3>1. CASE Goes(w, "done")
      BY <2>1, <2>2, <3>1 DEF Decide, ToolSteps, Looking, At
    <3>2. CASE tool' = [tool EXCEPT ![w].mode = meta.mode,
                                    ![w].pc = IF tool[w].kind = "policy" THEN "classify" ELSE "insert"]
      <4>1. \A v \in Tools : v # w => tool'[v] = tool[v]
        BY <1>0, <3>2 DEF Types
      <4> QED
        BY <1>1, <2>0, <2>2, <4>1 DEF Looking, Decide, At
    <3> QED
      BY <2>2, <3>1, <3>2 DEF Decide
  <2>3. ASSUME Classify(w) PROVE LookedAt'
    BY <2>1, <2>3 DEF Classify, ToolSteps, Looking, At
  <2>4. ASSUME Insert(w) PROVE LookedAt'
    <3> DEFINE t == [tool[w] EXCEPT !.card = next, !.pc = "publish"]
               a == [card |-> next, kind |-> tool[w].kind, mode |-> tool[w].mode]
    <3>1. tool \in [Tools -> ToolStates] /\ tool[w] \in ToolStates
      BY <1>0 DEF Types
    <3>2. t.card = next /\ t.pc = "publish" /\ a.card = next
      BY <3>1 DEF ToolStates
    <3>3. tool' = [tool EXCEPT ![w] = t] /\ pending' = pending \cup {a} /\ tool[w].pc = "insert"
      BY <2>4, <3>1 DEF Insert, At
    <3> HIDE DEF t, a
    <3>4. tool'[w] = t /\ \A v \in Tools : v # w => tool'[v] = tool[v]
      BY <3>1, <3>3
    <3>5. \A b \in pending' : b \in pending \/ b = a
      BY <3>3
    <3>6. tool'[w].card = a.card /\ Looking(w)' /\ ~Looking(w)
      BY <3>2, <3>3, <3>4 DEF Looking
    <3>7. \A v \in Tools : Looking(v) => Looking(v)' /\ tool'[v].card = tool[v].card
      BY <3>4, <3>6 DEF Looking
    <3>8. \A b \in pending' : b \in pending \/ \E v \in Tools : tool'[v].card = b.card /\ Looking(v)'
      BY <3>5, <3>6
    <3> QED
      BY <1>1, <2>0, <3>7, <3>8
  <2>5. ASSUME Publish(w) PROVE LookedAt'
    BY <2>1, <2>5 DEF Publish, ToolSteps
  <2>6. ASSUME Check(w) PROVE LookedAt'
    <3>1. CASE tool[w].kind = "policy" /\ meta.mode # tool[w].mode
      <4>1. pending' = pending \ OutOfMode(meta.mode)
        BY <2>6, <3>1 DEF Check
      <4>2. \A a \in pending' : a \notin OutOfMode(meta.mode)
        BY <4>1
      <4>3. Goes(w, "recheck")
        BY <2>6, <3>1 DEF Check
      <4> QED
        BY <2>1, <4>1, <4>2, <4>3 DEF ToolSteps
    <3>2. CASE ~(tool[w].kind = "policy" /\ meta.mode # tool[w].mode)
      <4>1. Goes(w, "wait") /\ pending' = pending /\ tool[w].pc = "check"
        BY <2>6, <3>2 DEF Check, At
      <4>2. \A a \in pending : a.card = tool[w].card => a \notin OutOfMode(meta.mode)
        BY <3>2, <4>1 DEF OwnAction, OutOfMode
      <4> QED
        BY <2>1, <4>1, <4>2 DEF ToolSteps
    <3> QED
      BY <3>1, <3>2
  <2>7. ASSUME Rechecked(w) PROVE LookedAt'
    BY <2>1, <2>7 DEF Rechecked, ToolSteps, Looking, At
  <2>8. ASSUME Receive(w) PROVE LookedAt'
    BY <2>1, <2>8 DEF Receive, ToolSteps, Looking, At
  <2>9. ASSUME Timeout(w) PROVE LookedAt'
    BY <2>1, <2>9 DEF Timeout, ToolSteps, Looking, At
  <2>10. ASSUME Expire(w) PROVE LookedAt'
    BY <2>1, <2>10 DEF Expire, ToolSteps, Looking, At
  <2>11. ASSUME GiveUp(w) PROVE LookedAt'
    <3>1. Goes(w, "done") /\ pending' = pending \ ActionOf(tool[w].card)
      BY <2>11 DEF GiveUp
    <3>2. \A a \in pending' : a.card # tool[w].card
      BY <3>1 DEF ActionOf
    <3> QED
      BY <2>1, <3>1, <3>2 DEF ToolSteps
  <2> QED
    BY <1>2, <2>2, <2>3, <2>4, <2>5, <2>6, <2>7, <2>8, <2>9, <2>10, <2>11 DEF Tool
<1>3. ASSUME tool' = tool, pending' \in SUBSET pending, meta'.mode = meta.mode, joined' = joined,
             turn' = turn \/ turn' # "driving",
             \A j \in Switches : job[j].at = "take" => job'[j] = job[j]
      PROVE  LookedAt'
  BY <1>1, <1>3 DEF Looking
<1>4. ASSUME Respond \/ AnswerInChat PROVE LookedAt'
  <2>1. \A j \in Switches : job'[j] = job[j]
    BY <1>0, <1>4, JobNames DEF Types, Respond, AnswerInChat
  <2> QED
    BY <1>3, <1>4, <2>1 DEF Respond, AnswerInChat
<1>5. ASSUME Join PROVE LookedAt'
  <2>1. \A j \in Switches : job'[j] = job[j]
    BY <1>0, <1>5, JobNames DEF Types, Join
  <2>2. tool' = tool /\ pending' = pending /\ turn' = turn
    BY <1>5 DEF Join
  <2>3. \/ meta'.mode # meta.mode /\ joined'
        \/ meta'.mode = meta.mode /\ joined' = joined
    BY <1>0, <1>5 DEF Types, Join
  <2>4. CASE meta'.mode # meta.mode /\ joined'
    BY <2>4 DEF LookedAt
  <2> QED
    BY <1>3, <2>1, <2>2, <2>3, <2>4
<1>6. ASSUME NEW j \in Switches, SetMode(j) PROVE LookedAt'
  <2>1. PICK mode \in Modes \ {meta.mode} :
            /\ meta' = [meta EXCEPT !.mode = mode]
            /\ job' = [job EXCEPT ![j] = [NoJob EXCEPT !.at = "take", !.how = "changed", !.mode = mode]]
    BY <1>6 DEF SetMode
  <2>2. job'[j].at = "take" /\ job'[j].mode = mode
    BY <1>0, <2>1, JobNames DEF Types, NoJob
  <2>3. meta'.mode = mode
    BY <1>0, <2>1 DEF Types
  <2> QED
    BY <2>2, <2>3 DEF LookedAt
<1>7. ASSUME NEW j \in Switches, Recheck(j) PROVE LookedAt'
  <2>1. /\ pending' = pending \ OutOfMode(job[j].mode) /\ tool' = tool /\ meta' = meta
        /\ joined' = joined /\ turn' = turn
        /\ \A k \in Switches : k # j => job'[k] = job[k]
    BY <1>0, <1>7, JobNames DEF Types, Recheck
  <2>2. CASE job[j].mode = meta.mode
    <3>1. \A a \in pending' : ~(a.kind = "policy" /\ a.mode # meta'.mode)
      BY <2>1, <2>2 DEF OutOfMode
    <3> QED
      BY <3>1 DEF LookedAt, OutOfMode
  <2>3. CASE job[j].mode # meta.mode
    BY <2>1, <2>3 DEF LookedAt, OutOfMode
  <2> QED
    BY <2>2, <2>3
<1>8. ASSUME NEW j \in Jobs, Job(j) PROVE LookedAt'
  <2>1. job[j].at # "take" /\ \A k \in Jobs : k # j => job'[k] = job[k]
    BY <1>0, <1>8 DEF Types, Job, Settle, Release
  <2>2. \A k \in Switches : job[k].at = "take" => job'[k] = job[k]
    BY <2>1, JobNames
  <2> QED
    BY <1>3, <1>8, <2>2 DEF Job, Settle, Release
<1>9. ASSUME \/ Apply \/ Finish \/ HandOver \/ RequestStop \/ StopDrained \/ CancelPending \/ Close
      PROVE  LookedAt'
  <2>1. /\ tool' = tool /\ pending' \in SUBSET pending /\ meta' = meta /\ joined' = joined
        /\ turn' = turn \/ turn' # "driving"
        /\ job' = job
    BY <1>9 DEF Apply, Finish, HandOver, RequestStop, StopDrained, CancelPending, Close
  <2> QED
    BY <1>3, <2>1
<1>10. ASSUME Interrupt PROVE LookedAt'
  BY <1>10 DEF LookedAt, Interrupt
<1> QED
  BY <1>2, <1>4, <1>5, <1>6, <1>7, <1>8, <1>9, <1>10 DEF Next

\* When a change of the mode has been dealt with, no approval waits that another mode
\* asked for: whoever changes the mode takes the approvals that are in the table, and a
\* tool that enters one later looks again before it waits.
THEOREM ApprovalsAreOfTheMode == Spec => []ApprovalsFollowTheMode
<1> DEFINE I == OwnAction /\ LookedAt
<1>1. Init => I
  <2> SUFFICES ASSUME Init PROVE I
    OBVIOUS
  <2>1. pending = {}
    BY DEF Init
  <2> QED
    BY <2>1 DEF OwnAction, LookedAt, OutOfMode
<1>2. Base /\ I /\ [Next]_vars => I'
  <2>1. ASSUME Base, I, Next PROVE I'
    BY <2>1, OwnActionStep, LookedAtStep
  <2>2. ASSUME I, UNCHANGED vars PROVE I'
    BY <2>2 DEF vars, convVars, OwnAction, LookedAt, OutOfMode
  <2> QED
    BY <2>1, <2>2
<1>3. Base /\ I => ApprovalsFollowTheMode
  <2> SUFFICES ASSUME Base, I, \A j \in Switches : job[j].at # "take", ~joined,
                      NEW w \in Tools, tool[w].pc = "wait", NEW a \in ActionOf(tool[w].card),
                      a \in OutOfMode(meta.mode)
               PROVE  FALSE
    BY DEF ApprovalsFollowTheMode
  <2>1. turn = "driving" /\ tool[w].card # 0 /\ a.card = tool[w].card
    BY DEF Base, Driven, ActionOf
  <2>2. PICK v \in Tools : tool[v].card = a.card /\ tool[v].pc \in {"publish", "check"}
    BY <2>1 DEF LookedAt
  <2>3. v # w
    BY <2>2
  <2> QED
    BY <2>1, <2>2, <2>3 DEF Base, CardsOnce
<1> QED
  BY <1>1, <1>2, <1>3, BaseAlways, PTL DEF Spec

-----------------------------------------------------------------------------
(***************************************************************************)
(* Card and tool are told the same.                                        *)
(***************************************************************************)

\* The cards of G are settled as how, and are no longer open.
LEMMA Verdict ==
    ASSUME OneVerdict, NEW G \in SUBSET Cards, NEW how \in Statuses,
           \A c \in G : Open(c),
           \A c \in Cards, s \in Statuses : Says(c, s)' => Says(c, s) \/ (c \in G /\ s = how),
           \A c \in Cards : Open(c)' => Open(c) /\ c \notin G,
           \A w \in Tools : tool'[w].pc = "expire" => tool'[w].card \notin CardsOf(pending')
    PROVE  OneVerdict'
<1>1. \A c \in Cards, s \in Statuses : Open(c) => ~Says(c, s)
  BY DEF OneVerdict
<1>2. \A c \in Cards, s, t \in Statuses : Says(c, s) /\ Says(c, t) => s = t
  BY DEF OneVerdict
<1>3. \A c \in Cards, s \in Statuses : Open(c)' => ~Says(c, s)'
  BY <1>1
<1>4. \A c \in Cards, s, t \in Statuses : Says(c, s)' /\ Says(c, t)' => s = t
  <2> TAKE c \in Cards, s, t \in Statuses
  <2> HAVE Says(c, s)' /\ Says(c, t)'
  <2>1. Says(c, s) \/ (c \in G /\ s = how)
    OBVIOUS
  <2>2. Says(c, t) \/ (c \in G /\ t = how)
    OBVIOUS
  <2>3. c \in G => ~Says(c, s) /\ ~Says(c, t)
    BY <1>1
  <2> QED
    BY <1>2, <2>1, <2>2, <2>3
<1>5. (\A w \in Tools : tool[w].pc = "expire" => tool[w].card \notin CardsOf(pending))'
  OBVIOUS
<1> HIDE DEF Says, Open
<1> QED
  BY <1>3, <1>4, <1>5 DEF OneVerdict

\* No tool's time gets over in this step.
NoneExpires ==
    \A w \in Tools : tool'[w].pc = "expire" => tool[w].pc = "expire" /\ tool'[w].card = tool[w].card

\* The actions X are taken out of the table and settled as how.
LEMMA VerdictOnTaken ==
    ASSUME Base, OneVerdict, NoneExpires, next' = next,
           NEW X \in SUBSET pending, pending' = pending \ X, NEW how \in Statuses,
           \A c \in Cards, s \in Statuses : Says(c, s)' => Says(c, s) \/ (c \in CardsOf(X) /\ s = how)
    PROVE  OneVerdict'
<1>1. /\ CardsOf(X) \subseteq CardsOf(pending) /\ CardsOf(pending) \in SUBSET Cards
      /\ CardsOf(pending') = CardsOf(pending) \ CardsOf(X)
  BY TakenOut DEF Base
<1>2. \A c \in CardsOf(X) : Open(c)
  BY <1>1 DEF Open
<1>3. \A w \in Tools : tool'[w].pc = "expire" =>
          tool'[w].card \notin CardsOf(pending) /\ tool'[w].card # 0 /\ tool'[w].card < next
  BY DEF NoneExpires, OneVerdict, Base, Driven, CardsOnce
<1>4. \A c \in CardsOf(X) : ~(c >= next)
  <2>1. \A a \in pending : a.card < next /\ a.card \in Nat /\ next \in Nat
    BY DEF Base, CardsOnce, Types, PendingActions, Cards
  <2> QED
    BY <2>1 DEF CardsOf
<1>5. \A c \in Cards : Open(c)' => Open(c) /\ c \notin CardsOf(X)
  <2> TAKE c \in Cards
  <2> HAVE Open(c)'
  <2>1. CASE c >= next'
    BY <1>4, <2>1 DEF Open
  <2>2. CASE c \in CardsOf(pending')
    BY <1>1, <2>2 DEF Open
  <2>3. CASE ToolAt(c, "expire")'
    BY <1>1, <1>3, <2>3 DEF Open, ToolAt, NoneExpires
  <2> QED
    BY <2>1, <2>2, <2>3 DEF Open
<1>6. \A w \in Tools : tool'[w].pc = "expire" => tool'[w].card \notin CardsOf(pending')
  BY <1>1, <1>3
<1>7. CardsOf(X) \in SUBSET Cards
  BY <1>1
<1> QED
  BY <1>2, <1>5, <1>6, <1>7, Verdict

\* Nothing is taken, and nothing new is said.
LEMMA VerdictKept ==
    ASSUME Base, OneVerdict, NoneExpires, next' = next, pending' = pending,
           \A c \in Cards, s \in Statuses : Says(c, s)' => Says(c, s)
    PROVE  OneVerdict'
<1>1. pending' = pending \ {} /\ {} \in SUBSET pending /\ "expired" \in Statuses
  BY DEF Statuses
<1> QED
  BY <1>1, VerdictOnTaken

LEMMA NoneExpiresThen ==
    ASSUME Types, NEW w \in Tools, NEW pc \in ToolSteps \ {"expire"}, Goes(w, pc)
    PROVE  NoneExpires
BY GoesOn DEF NoneExpires

LEMMA ToolVerdicts ==
    ASSUME Base, OneVerdict, NEW w \in Tools, Tool(w) \/ GiveUp(w)
    PROVE  OneVerdict'
<1>0. Types /\ tool \in [Tools -> ToolStates] /\ tool[w] \in ToolStates
  BY DEF Base, Types
<1> USE DEF ToolSteps
<1>1. ASSUME Decide(w) PROVE OneVerdict'
  <2>1. NoneExpires
    <3>1. CASE Goes(w, "done")
      BY <1>0, <3>1, NoneExpiresThen
    <3>2. CASE tool' = [tool EXCEPT ![w].mode = meta.mode,
                                    ![w].pc = IF tool[w].kind = "policy" THEN "classify" ELSE "insert"]
      BY <1>0, <3>2 DEF ToolStates, NoneExpires
    <3> QED
      BY <1>1, <3>1, <3>2 DEF Decide
  <2>2. \A c, s : Says(c, s)' => Says(c, s)
    BY <1>1 DEF Decide, convVars, Says, Sent
  <2> QED
    BY <1>1, <2>1, <2>2, VerdictKept DEF Decide
<1>2. ASSUME Classify(w) PROVE OneVerdict'
  <2>1. NoneExpires
    BY <1>0, <1>2, NoneExpiresThen DEF Classify
  <2>2. \A c, s : Says(c, s)' => Says(c, s)
    BY <1>2 DEF Classify, convVars, Says, Sent
  <2> QED
    BY <1>2, <2>1, <2>2, VerdictKept DEF Classify
<1>3. ASSUME Insert(w) PROVE OneVerdict'
  <2>1. /\ next \in Cards /\ next' = next + 1 /\ next \in Nat
        /\ CardsOf(pending') = CardsOf(pending) \cup {next}
    <3> DEFINE a == [card |-> next, kind |-> tool[w].kind, mode |-> tool[w].mode]
    <3>1. next \in Cards /\ next' = next + 1 /\ next \in Nat
      BY <1>0, <1>3 DEF Insert, Types, Cards
    <3>2. pending' = pending \cup {a} /\ a.card = next
      BY <1>3 DEF Insert
    <3> HIDE DEF a
    <3>3. CardsOf(pending') = CardsOf(pending) \cup {next}
      BY <3>2 DEF CardsOf
    <3> QED
      BY <3>1, <3>3
  <2>2. \A v \in Tools : tool'[v].pc = "expire" => tool[v].pc = "expire" /\ tool'[v].card = tool[v].card
    BY <1>0, <1>3 DEF Insert, ToolStates
  <2>3. \A v \in Tools : tool[v].card # next
    <3>1. \A v \in Tools : tool[v].card \in Nat
      BY <1>0 DEF ToolStates, Cards
    <3> QED
      BY <2>1, <3>1 DEF Base, CardsOnce
  <2>4. \A c \in Cards : Open(c)' => Open(c)
    <3> TAKE c \in Cards
    <3>1. c >= next' => c >= next
      BY <2>1 DEF Cards
    <3>2. c = next => c >= next
      BY <2>1
    <3> QED
      BY <2>1, <2>2, <3>1, <3>2 DEF Open, ToolAt
  <2>5. \A v \in Tools : tool'[v].pc = "expire" => tool'[v].card \notin CardsOf(pending')
    BY <2>1, <2>2, <2>3 DEF OneVerdict
  <2>6. \A c, s : Says(c, s)' => Says(c, s)
    BY <1>3 DEF Insert, convVars, Says, Sent
  <2> DEFINE G == {}
  <2>7. G \in SUBSET Cards /\ "expired" \in Statuses
    BY DEF Statuses
  <2> QED
    BY <2>4, <2>5, <2>6, <2>7, Verdict
<1>4. ASSUME Publish(w) PROVE OneVerdict'
  <2>1. NoneExpires
    BY <1>0, <1>4, NoneExpiresThen DEF Publish
  <2>2. tool[w].card \in Cards
    BY <1>0, <1>4 DEF Base, Driven, Publish, At, ToolStates
  <2>3. turn # "closed" /\ Send(tool[w].card, "pending")
    BY <1>4 DEF Publish, At
  <2>4. \A c, s : In(chan', c, s) <=> In(chan, c, s) \/ (c = tool[w].card /\ s = "pending")
    BY <1>0, <2>2, <2>3, Sending
  <2>5. \A c \in Cards, s \in Statuses : Says(c, s)' => Says(c, s)
    BY <1>4, <2>4 DEF Publish, Says, Sent, Statuses
  <2> QED
    BY <1>4, <2>1, <2>5, VerdictKept DEF Publish
<1>5. ASSUME Check(w) PROVE OneVerdict'
  <2>1. NoneExpires
    BY <1>0, <1>5, NoneExpiresThen DEF Check
  <2>2. CASE job' = job /\ pending' = pending
    <3>1. \A c, s : Says(c, s)' => Says(c, s)
      BY <1>5, <2>2 DEF Check, convVars, Says, Sent
    <3> QED
      BY <1>5, <2>1, <2>2, <3>1, VerdictKept DEF Check
  <2>3. CASE /\ job' = [job EXCEPT ![w] = Settling("changed", CardsOf(OutOfMode(meta.mode)))]
             /\ pending' = pending \ OutOfMode(meta.mode)
    <3> DEFINE X == OutOfMode(meta.mode)
               v == Settling("changed", CardsOf(X))
    <3>1. X \in SUBSET pending /\ CardsOf(X) \in SUBSET Cards /\ "changed" \in Statuses
      BY <1>0, TakenCards DEF Statuses
    <3> HIDE DEF X
    <3>2. v.cards = CardsOf(X) /\ (CardsOf(X) # {} => v.how = "changed")
      BY <3>1, SettlesAs
    <3> HIDE DEF v
    <3>3. job' = [job EXCEPT ![w] = v] /\ pending' = pending \ X
      BY <2>3 DEF X, v
    <3>4. \A j \in Jobs : job'[j] = job[j] \/ job'[j] = v
      BY <1>0, <3>3 DEF Types
    <3>5. \A c, s : Says(c, s)' => Says(c, s) \/ (c \in CardsOf(X) /\ s = "changed")
      BY <1>5, <3>2, <3>4 DEF Check, convVars, Says, Sent
    <3> QED
      BY <1>5, <2>1, <3>1, <3>3, <3>5, VerdictOnTaken DEF Check
  <2> QED
    BY <1>5, <2>2, <2>3 DEF Check
<1>6. ASSUME Rechecked(w) PROVE OneVerdict'
  <2>1. NoneExpires
    BY <1>0, <1>6, NoneExpiresThen DEF Rechecked
  <2>2. \A c, s : Says(c, s)' => Says(c, s)
    BY <1>6 DEF Rechecked, convVars, Says, Sent
  <2> QED
    BY <1>6, <2>1, <2>2, VerdictKept DEF Rechecked
<1>7. ASSUME Receive(w) PROVE OneVerdict'
  <2>1. NoneExpires
    BY <1>0, <1>7, NoneExpiresThen DEF Receive
  <2>2. \A c \in Cards : told'[c] = told[c] \/ told'[c] = answer[c]
    BY <1>0, <1>7 DEF Receive, Types
  <2>3. \A c \in Cards, s \in Statuses : Says(c, s)' => Says(c, s)
    BY <1>7, <2>2 DEF Receive, convVars, Says, Sent
  <2> QED
    BY <1>7, <2>1, <2>3, VerdictKept DEF Receive
<1>8. ASSUME Timeout(w) PROVE OneVerdict'
  <2> DEFINE X == ActionOf(tool[w].card)
             card == tool[w].card
  <2>1. /\ pending' = pending \ X /\ X \in SUBSET pending /\ Goes(w, "expire") /\ next' = next
        /\ card \in CardsOf(pending)
    BY <1>8 DEF Timeout, ActionOf, CardsOf
  <2>2. CardsOf(X) = {card}
    BY <1>8 DEF Timeout, ActionOf, CardsOf
  <2>3. CardsOf(pending') = CardsOf(pending) \ {card}
    <3> HIDE DEF X, card
    <3> QED
      BY <2>1, <2>2, TakenOut DEF Base
  <2>4. /\ \A v \in Tools : v # w => tool'[v] = tool[v]
        /\ tool'[w].card = card
    BY <1>0, <2>1, GoesOn
  <2>5. \A v \in Tools : v # w /\ card # 0 => tool[v].card # card
    BY DEF Base, CardsOnce
  <2>6. \A c \in Cards : Open(c)' => Open(c)
    BY <2>1, <2>3, <2>4 DEF Open, ToolAt
  <2>7. \A v \in Tools : tool'[v].pc = "expire" => tool'[v].card \notin CardsOf(pending')
    BY <2>3, <2>4 DEF OneVerdict
  <2>8. \A c, s : Says(c, s)' => Says(c, s)
    BY <1>8 DEF Timeout, convVars, Says, Sent
  <2> DEFINE G == {}
  <2>9. G \in SUBSET Cards /\ "expired" \in Statuses
    BY DEF Statuses
  <2> QED
    BY <2>6, <2>7, <2>8, <2>9, Verdict
<1>9. ASSUME Expire(w) PROVE OneVerdict'
  <2> DEFINE card == tool[w].card
             G == {card}
  <2>1. PICK how \in {"expired", "default"} : Send(card, how) /\ told' = [told EXCEPT ![card] = how]
    BY <1>9 DEF Expire
  <2>2. how \in Statuses /\ card \in Cards /\ tool[w].pc = "expire" /\ turn # "closed" /\ card # 0
    BY <1>0, <1>9, <2>1 DEF Base, Driven, Expire, At, ToolStates, Statuses
  <2>3. \A c, s : In(chan', c, s) <=> In(chan, c, s) \/ (c = card /\ s = how)
    BY <1>0, <2>1, <2>2, Sending
  <2>4. \A c \in Cards : told'[c] = IF c = card THEN how ELSE told[c]
    BY <1>0, <2>1, <2>2 DEF Types
  <2>5. \A c \in Cards, s \in Statuses : Says(c, s)' => Says(c, s) \/ (c \in G /\ s = how)
    BY <1>9, <2>3, <2>4 DEF Expire, Says, Sent
  <2>6. /\ \A v \in Tools : v # w => tool'[v] = tool[v]
        /\ tool'[w].pc = "done"
    BY <1>0, <1>9, GoesOn DEF Expire
  <2>7. card \notin CardsOf(pending) /\ ~(card >= next) /\ \A v \in Tools : v # w => tool[v].card # card
    <3>1. card \in Nat /\ next \in Nat /\ card < next
      BY <1>0, <2>2 DEF Base, CardsOnce, Types, Cards
    <3>2. ~(card >= next)
      BY <3>1
    <3>3. card \notin CardsOf(pending)
      BY <2>2 DEF OneVerdict
    <3>4. \A v \in Tools : v # w => tool[v].card # card
      BY <2>2 DEF Base, CardsOnce
    <3> QED
      BY <3>2, <3>3, <3>4
  <2>8. \A c \in Cards : Open(c)' => Open(c) /\ c \notin G
    BY <1>9, <2>6, <2>7 DEF Open, ToolAt, Expire
  <2>9. \A v \in Tools : tool'[v].pc = "expire" => tool'[v].card \notin CardsOf(pending')
    BY <1>9, <2>6 DEF Expire, OneVerdict
  <2>10. \A c \in G : Open(c)
    BY <2>2 DEF Open, ToolAt
  <2>11. G \in SUBSET Cards
    BY <2>2
  <2> HIDE DEF G
  <2> QED
    BY <2>2, <2>5, <2>8, <2>9, <2>10, <2>11, Verdict
<1>10. ASSUME GiveUp(w) PROVE OneVerdict'
  <2> DEFINE X == ActionOf(tool[w].card)
             card == tool[w].card
             e == [card |-> card, status |-> "expired"]
  <2>1. NoneExpires
    BY <1>0, <1>10, NoneExpiresThen DEF GiveUp
  <2>2. card \in Cards /\ e \in Events /\ chan \in Seq(Events) /\ "expired" \in Statuses
    BY <1>0, <1>10 DEF Base, Driven, GiveUp, ToolStates, Events, Statuses, Types
  <2>3. pending' = pending \ X /\ X \in SUBSET pending /\ next' = next
    BY <1>10 DEF GiveUp, ActionOf
  <2>4. \/ chan' = chan
        \/ chan' = Append(chan, e) /\ X # {}
    BY <1>10 DEF GiveUp
  <2>5. X # {} => card \in CardsOf(X)
    BY DEF ActionOf, CardsOf
  <2>6. \A c, s : In(chan', c, s) => In(chan, c, s) \/ (c \in CardsOf(X) /\ s = "expired")
    <3> HIDE DEF X
    <3>1. \A c, s : In(Append(chan, e), c, s) <=> In(chan, c, s) \/ (c = e.card /\ s = e.status)
      BY <2>2, Appended
    <3> QED
      BY <2>4, <2>5, <3>1
  <2> HIDE DEF X
  <2>7. \A c, s : Says(c, s)' => Says(c, s) \/ (c \in CardsOf(X) /\ s = "expired")
    BY <1>10, <2>6 DEF GiveUp, Says, Sent
  <2> QED
    BY <2>1, <2>2, <2>3, <2>7, VerdictOnTaken
<1> QED
  BY <1>1, <1>2, <1>3, <1>4, <1>5, <1>6, <1>7, <1>8, <1>9, <1>10 DEF Tool

LEMMA JobVerdicts ==
    ASSUME Base, OneVerdict,
           \/ Respond \/ Join \/ AnswerInChat
           \/ \E j \in Switches : SetMode(j) \/ Recheck(j)
           \/ \E j \in Jobs : Job(j)
    PROVE  OneVerdict'
<1>0. Types /\ job \in [Jobs -> JobStates]
  BY DEF Base, Types
<1>1. tool' = tool /\ next' = next /\ NoneExpires
  BY DEF Respond, Join, AnswerInChat, SetMode, Recheck, Job, Settle, Release, NoneExpires
<1>2. ASSUME NEW X \in SUBSET pending, pending' = pending \ X, NEW how \in Statuses, NEW j \in Jobs,
             job' = [job EXCEPT ![j] = Settling(how, CardsOf(X))],
             UNCHANGED <<chan, conv, answer, told>>
      PROVE  OneVerdict'
  <2> DEFINE v == Settling(how, CardsOf(X))
  <2>1. CardsOf(X) \in SUBSET Cards
    BY <1>0, TakenCards
  <2>2. v.cards = CardsOf(X) /\ (CardsOf(X) # {} => v.how = how)
    BY <2>1, SettlesAs
  <2> HIDE DEF v
  <2>3. \A k \in Jobs : job'[k] = job[k] \/ job'[k] = v
    BY <1>0, <1>2 DEF v
  <2>4. \A c, s : Says(c, s)' => Says(c, s) \/ (c \in CardsOf(X) /\ s = how)
    BY <1>2, <2>2, <2>3 DEF Says, Sent
  <2> QED
    BY <1>1, <1>2, <2>4, VerdictOnTaken
<1>3. ASSUME Respond PROVE OneVerdict'
  <2>1. PICK a \in pending : /\ job' = [job EXCEPT !["user"] = Settling("answered", {a.card})]
                             /\ pending' = pending \ {a}
    BY <1>3 DEF Respond
  <2>2. CardsOf({a}) = {a.card} /\ {a} \in SUBSET pending /\ "answered" \in Statuses
    BY DEF CardsOf, Statuses
  <2>3. job' = [job EXCEPT !["user"] = Settling("answered", CardsOf({a}))]
    BY <2>1, <2>2
  <2>4. UNCHANGED <<chan, conv, answer, told>>
    BY <1>3 DEF Respond, convVars
  <2> QED
    BY <1>2, <2>1, <2>2, <2>3, <2>4, JobNames
<1>4. ASSUME Join PROVE OneVerdict'
  <2>1. \A j \in Jobs : job'[j] = job[j] \/ job'[j].cards = {}
    BY <1>0, <1>4 DEF Join, NoJob
  <2>2. \A c, s : Says(c, s)' => Says(c, s)
    BY <1>4, <2>1 DEF Join, convVars, Says, Sent
  <2> QED
    BY <1>1, <1>4, <2>2, VerdictKept DEF Join
<1>5. ASSUME AnswerInChat PROVE OneVerdict'
  <2>1. AskedChoices \in SUBSET pending /\ "in_chat" \in Statuses
    BY <1>0, TakenCards DEF Statuses
  <2>2. /\ pending' = pending \ AskedChoices
        /\ job' = [job EXCEPT !["chat"] = Settling("in_chat", CardsOf(AskedChoices))]
        /\ UNCHANGED <<chan, conv, answer, told>>
    BY <1>5 DEF AnswerInChat, convVars
  <2> QED
    BY <1>2, <2>1, <2>2, JobNames
<1>6. ASSUME NEW j \in Switches, SetMode(j) PROVE OneVerdict'
  <2>1. \A k \in Jobs : job'[k] = job[k] \/ job'[k].cards = {}
    BY <1>0, <1>6 DEF SetMode, NoJob
  <2>2. \A c, s : Says(c, s)' => Says(c, s)
    BY <1>6, <2>1 DEF SetMode, convVars, Says, Sent
  <2> QED
    BY <1>1, <1>6, <2>2, VerdictKept DEF SetMode
<1>7. ASSUME NEW j \in Switches, Recheck(j) PROVE OneVerdict'
  <2> DEFINE X == OutOfMode(job[j].mode)
  <2>1. X \in SUBSET pending /\ "changed" \in Statuses /\ j \in Jobs
    BY <1>0, TakenCards, JobNames DEF Statuses
  <2>2. /\ pending' = pending \ X
        /\ job' = [job EXCEPT ![j] = Settling("changed", CardsOf(X))]
        /\ UNCHANGED <<chan, conv, answer, told>>
    BY <1>7 DEF Recheck, convVars
  <2> HIDE DEF X
  <2> QED
    BY <1>2, <2>1, <2>2
<1>8. ASSUME NEW j \in Jobs, Settle(j) PROVE OneVerdict'
  <2>1. PICK c \in job[j].cards : /\ Send(c, job[j].how)
                                  /\ job' = [job EXCEPT ![j].at = "release", ![j].card = c]
    BY <1>8 DEF Settle
  <2>2. c \in Cards /\ job[j].how \in Statuses
    BY <1>0 DEF JobStates
  <2>3. \A d, s : In(chan', d, s) => In(chan, d, s) \/ (d = c /\ s = job[j].how)
    BY <1>0, <2>1, <2>2, Sending
  <2>4. \A k \in Jobs : job'[k].cards = job[k].cards /\ job'[k].how = job[k].how
    BY <1>0, <2>1 DEF JobStates
  <2>5. \A d, s : Says(d, s)' => Says(d, s)
    <3>1. UNCHANGED <<conv, answer, told>>
      BY <1>8 DEF Settle
    <3>2. \A d, s : Sent(d, s)' => Sent(d, s) \/ (d \in job[j].cards /\ job[j].how = s)
      BY <2>3 DEF Sent
    <3> QED
      BY <2>4, <3>1, <3>2 DEF Says
  <2> QED
    BY <1>1, <1>8, <2>5, VerdictKept DEF Settle
<1>9. ASSUME NEW j \in Jobs, Release(j) PROVE OneVerdict'
  <2> DEFINE how == job[j].how
             card == job[j].card
             rest == job[j].cards \ {card}
             v == Settling(how, rest)
  <2>1. how \in Statuses /\ rest \in SUBSET Cards /\ card \in job[j].cards /\ job[j] \in JobStates
    BY <1>0, <1>9 DEF Base, JobsInStep, InStep, Release, JobStates
  <2>2. v.cards = rest /\ (rest # {} => v.how = how)
    <3> HIDE DEF how, rest
    <3> QED
      BY <2>1, SettlesAs
  <2>3. \A d \in Cards : answer'[d] = answer[d] \/ (d = card /\ answer'[d] = how)
    BY <1>0, <1>9 DEF Types, Release, Answered
  <2>4. \A k \in Jobs : job'[k] = job[k] \/ (k = j /\ job'[k] = v)
    BY <1>0, <1>9 DEF Release
  <2>5. \A d \in Cards, s \in Statuses : Says(d, s)' => Says(d, s)
    <3> HIDE DEF v
    <3>1. UNCHANGED <<chan, conv, told>>
      BY <1>9 DEF Release, convVars
    <3> QED
      BY <2>1, <2>2, <2>3, <2>4, <3>1 DEF Says, Sent
  <2> QED
    BY <1>1, <1>9, <2>5, VerdictKept DEF Release
<1> QED
  BY <1>3, <1>4, <1>5, <1>6, <1>7, <1>8, <1>9 DEF Job

LEMMA RunnerVerdicts ==
    ASSUME Base, OneVerdict,
           Apply \/ Finish \/ HandOver \/ RequestStop \/ Interrupt \/ StopDrained \/ CancelPending \/ Close
    PROVE  OneVerdict'
<1>0. Types
  BY DEF Base
<1>1. ASSUME Finish \/ HandOver \/ RequestStop \/ StopDrained PROVE OneVerdict'
  <2>1. UNCHANGED <<tool, next, pending, chan, conv, answer, job, told>>
    BY <1>1 DEF Finish, HandOver, RequestStop, StopDrained, convVars
  <2>2. NoneExpires /\ \A c, s : Says(c, s)' => Says(c, s)
    BY <2>1 DEF NoneExpires, Says, Sent
  <2> QED
    BY <2>1, <2>2, VerdictKept
<1>2. ASSUME Close PROVE OneVerdict'
  <2>1. UNCHANGED <<tool, next, pending, conv, answer, job, told>> /\ chan' = <<>>
    BY <1>2 DEF Close
  <2>2. NoneExpires /\ \A c, s : Says(c, s)' => Says(c, s)
    BY <2>1 DEF NoneExpires, Says, Sent, In
  <2> QED
    BY <2>1, <2>2, VerdictKept
<1>3. ASSUME Apply PROVE OneVerdict'
  <2> DEFINE event == Head(chan)
  <2>1. UNCHANGED <<tool, next, pending, answer, job, told>>
    BY <1>3 DEF Apply
  <2>2. \A c, s : In(chan, c, s) <=> In(chan', c, s) \/ (c = event.card /\ s = event.status)
    BY <1>0, <1>3, Taken DEF Apply, Types
  <2>3. \A c \in Cards : conv'[c] = conv[c] \/ (c = event.card /\ conv'[c] = event.status)
    BY <1>0, <1>3 DEF Types, Apply
  <2> HIDE DEF event
  <2>4. NoneExpires /\ \A c \in Cards, s \in Statuses : Says(c, s)' => Says(c, s)
    BY <2>1, <2>2, <2>3 DEF NoneExpires, Says, Sent
  <2> QED
    BY <2>1, <2>4, VerdictKept
<1>4. ASSUME CancelPending PROVE OneVerdict'
  <2>1. UNCHANGED <<tool, next, chan, job, told>> /\ pending' = pending \ pending
    BY <1>4 DEF CancelPending
  <2>2. \A c \in Cards : /\ conv'[c] = conv[c] \/ (c \in CardsOf(pending) /\ conv'[c] = "denied")
                         /\ answer'[c] = answer[c] \/ (c \in CardsOf(pending) /\ answer'[c] = "denied")
    BY <1>4 DEF CancelPending
  <2>3. NoneExpires /\ \A c \in Cards, s \in Statuses :
                           Says(c, s)' => Says(c, s) \/ (c \in CardsOf(pending) /\ s = "denied")
    BY <2>1, <2>2 DEF NoneExpires, Says, Sent
  <2>4. pending \in SUBSET pending /\ "denied" \in Statuses
    BY DEF Statuses
  <2> QED
    BY <2>1, <2>3, <2>4, VerdictOnTaken
<1>5. ASSUME Interrupt PROVE OneVerdict'
  <2> DEFINE inputs == {tool[w].card : w \in {v \in Tools : tool[v].kind = "input"}}
             closing == {a \in pending : a.card \in inputs}
  <2>1. PICK sent \in SUBSET CardsOf(closing) :
              /\ pending' = pending \ closing
              /\ chan' = chan \o SetToSeq({[card |-> c, status |-> "expired"] : c \in sent})
    BY <1>5 DEF Interrupt
  <2>2. \A w \in Tools : tool'[w].pc = "off"
    BY <1>0, <1>5 DEF Interrupt, Types, ToolStates
  <2>3. \A j \in Jobs : job'[j] = job[j] \/ job'[j].cards = {}
    BY <1>5, JobValues DEF Interrupt
  <2>4. UNCHANGED <<next, conv, answer, told>>
    BY <1>5 DEF Interrupt
  <2>5. closing \in SUBSET pending /\ "expired" \in Statuses
    BY DEF Statuses
  <2> HIDE DEF closing, inputs
  <2>6. sent \in SUBSET Cards /\ chan \in Seq(Events)
    <3>1. CardsOf(closing) \in SUBSET Cards
      BY <1>0, <2>5, TakenCards
    <3> QED
      BY <1>0, <3>1 DEF Types
  <2>7. \A c, s : In(chan', c, s) <=> In(chan, c, s) \/ (c \in sent /\ s = "expired")
    <3> DEFINE r == chan \o SetToSeq({[card |-> c, status |-> "expired"] : c \in sent})
    <3>1. \A c, s : In(r, c, s) <=> In(chan, c, s) \/ (c \in sent /\ s = "expired")
      BY <2>6, Closing
    <3>2. chan' = r
      BY <2>1
    <3> HIDE DEF r
    <3> QED
      BY <3>1, <3>2
  <2>8. NoneExpires
    BY <2>2 DEF NoneExpires
  <2>9. \A c, s : Says(c, s)' => Says(c, s) \/ (c \in CardsOf(closing) /\ s = "expired")
    BY <2>1, <2>3, <2>4, <2>7 DEF Says, Sent
  <2> QED
    BY <2>1, <2>4, <2>5, <2>8, <2>9, VerdictOnTaken
<1> QED
  BY <1>1, <1>2, <1>3, <1>4, <1>5

\* Whoever takes an action out of the table settles it alone: what the conversation
\* shows of a card and what its tool was told are the same.
THEOREM OneAnswerPerCard == Spec => []CardAndToolAgree
<1>1. Init => OneVerdict
  <2> SUFFICES ASSUME Init PROVE OneVerdict
    OBVIOUS
  <2>1. \A c \in Cards, s \in Statuses : ~Says(c, s)
    <3>1. \A j \in Jobs : job[j].cards = {}
      BY JobValues DEF Init
    <3>2. chan = <<>> /\ \A c \in Cards : conv[c] = "none" /\ answer[c] = "none" /\ told[c] = "none"
      BY DEF Init
    <3> QED
      BY <3>1, <3>2 DEF Says, Sent, In, Statuses
  <2>2. \A w \in Tools : tool[w].pc # "expire"
    BY DEF Init
  <2> QED
    BY <2>1, <2>2 DEF OneVerdict
<1>2. Base /\ OneVerdict /\ [Next]_vars => OneVerdict'
  <2>1. ASSUME Base, OneVerdict, Next PROVE OneVerdict'
    BY <2>1, ToolVerdicts, JobVerdicts, RunnerVerdicts DEF Next
  <2>2. ASSUME OneVerdict, UNCHANGED vars PROVE OneVerdict'
    BY <2>2 DEF vars, convVars, OneVerdict, Open, ToolAt, Says, Sent
  <2> QED
    BY <2>1, <2>2
<1>3. Base /\ OneVerdict => CardAndToolAgree
  <2> SUFFICES ASSUME Base, OneVerdict, NEW c \in Cards, told[c] # "none", conv[c] \in Statuses
               PROVE  conv[c] = told[c]
    BY DEF CardAndToolAgree
  <2>1. told[c] \in Statuses
    BY DEF Base, Types
  <2>2. Says(c, conv[c]) /\ Says(c, told[c])
    BY DEF Says
  <2> QED
    BY <2>1, <2>2 DEF OneVerdict
<1> QED
  BY <1>1, <1>2, <1>3, BaseAlways, PTL DEF Spec

-----------------------------------------------------------------------------
(***************************************************************************)
(* Cards are shown once, and closed before the result goes on.             *)
(***************************************************************************)
Late(t) == t \in {"cancelling", "over", "closed"}

LEMMA ShownInit == Init => ShownOnce
BY DEF Init, ShownOnce, ShowSent, Sent, In, ShowsOnce

\* No card is shown in this step.
LEMMA NothingShown ==
    ASSUME Base, ShownOnce, next' = next,
           \A c \in Cards : conv[c] = "none" => conv'[c] = "none",
           \A c \in Cards : ShowSent(c)' => ShowSent(c),
           ShowsOnce(chan'),
           \A w \in Tools : tool'[w].pc = "publish" =>
               tool[w].pc = "publish" /\ tool'[w].card = tool[w].card,
           Late(turn') => Late(turn) \/ \A c \in Cards : ~ShowSent(c)
    PROVE  ShownOnce'
<1>1. \A w \in Tools : tool[w].pc = "publish" => tool[w].card \in Cards
  BY DEF Base, Driven, Types, ToolStates
<1>2. (\A c \in Cards : ShowSent(c) => conv[c] = "none" /\ c < next)'
  BY DEF ShownOnce
<1>3. (\A c \in Cards : conv[c] # "none" => c < next)'
  BY DEF ShownOnce
<1>4. \A w \in Tools : tool'[w].pc = "publish" =>
          conv'[tool'[w].card] = "none" /\ ~In(chan', tool'[w].card, "pending")
  <2> SUFFICES ASSUME NEW w \in Tools, tool'[w].pc = "publish"
               PROVE  conv'[tool'[w].card] = "none" /\ ~In(chan', tool'[w].card, "pending")
    OBVIOUS
  <2>1. tool'[w].card = tool[w].card /\ tool[w].card \in Cards
    BY <1>1
  <2>2. conv[tool[w].card] = "none" /\ ~ShowSent(tool[w].card)
    BY DEF ShownOnce
  <2> QED
    BY <2>1, <2>2 DEF ShowSent, Sent
<1>5. Late(turn') => \A c \in Cards : ~ShowSent(c)'
  BY DEF ShownOnce, Late
<1> QED
  BY <1>2, <1>3, <1>4, <1>5 DEF ShownOnce, Late, ShowSent, Sent

LEMMA ShownStep ==
    ASSUME Base, ShownOnce, Next
    PROVE  ShownOnce'
<1>0. /\ Types /\ tool \in [Tools -> ToolStates] /\ chan \in Seq(Events)
      /\ conv \in [Cards -> Statuses \cup {"none", "pending"}]
      /\ ShowsOnce(chan)
      /\ \A w \in Tools : tool[w].pc \in {"publish", "check", "recheck", "wait", "expire"} => tool[w].card \in Cards
  BY DEF Base, Types, ShownOnce, Driven, ToolStates
<1> USE DEF ToolSteps
<1>1. ASSUME NEW w \in Tools, NEW pc \in ToolSteps \ {"publish"}, Goes(w, pc)
      PROVE  \A v \in Tools : tool'[v].pc = "publish" => tool[v].pc = "publish" /\ tool'[v].card = tool[v].card
  BY <1>0, <1>1, GoesOn
<1>2. ASSUME next' = next, conv' = conv, chan' = chan, turn' = turn,
             \A w \in Tools : tool'[w].pc = "publish" =>
                 tool[w].pc = "publish" /\ tool'[w].card = tool[w].card
      PROVE  ShownOnce'
  BY <1>0, <1>2, NothingShown DEF ShowSent, Sent
<1>3. ASSUME NEW w \in Tools, Tool(w) \/ GiveUp(w) PROVE ShownOnce'
  <2>1. ASSUME Decide(w) PROVE ShownOnce'
    <3>1. CASE Goes(w, "done")
      BY <1>1, <1>2, <2>1, <3>1 DEF Decide, convVars
    <3>2. CASE tool' = [tool EXCEPT ![w].mode = meta.mode,
                                    ![w].pc = IF tool[w].kind = "policy" THEN "classify" ELSE "insert"]
      <4>1. \A v \in Tools : tool'[v].pc = "publish" => tool[v].pc = "publish" /\ tool'[v].card = tool[v].card
        BY <1>0, <3>2 DEF ToolStates
      <4> QED
        BY <1>2, <2>1, <4>1 DEF Decide, convVars
    <3> QED
      BY <2>1, <3>1, <3>2 DEF Decide
  <2>2. ASSUME Classify(w) PROVE ShownOnce'
    BY <1>1, <1>2, <2>2 DEF Classify, convVars
  <2>3. ASSUME Insert(w) PROVE ShownOnce'
    <3>1. /\ next' = next + 1 /\ next \in Nat /\ next \in Cards /\ conv' = conv /\ chan' = chan
          /\ turn' = turn /\ turn = "driving"
      BY <1>0, <2>3 DEF Insert, At, Types, Cards, convVars
    <3>2. \A v \in Tools : tool'[v].pc = "publish" =>
              \/ tool[v].pc = "publish" /\ tool'[v].card = tool[v].card
              \/ tool'[v].card = next
      BY <1>0, <2>3 DEF Insert, ToolStates
    <3>3. ~ShowSent(next) /\ conv[next] = "none"
      BY <3>1 DEF ShownOnce
    <3>4. \A c \in Cards : c < next => c < next'
      BY <3>1 DEF Cards
    <3>5. \A c : ShowSent(c)' <=> ShowSent(c)
      BY <3>1 DEF ShowSent, Sent
    <3>6. (\A c \in Cards : ShowSent(c) => conv[c] = "none" /\ c < next)'
      BY <3>1, <3>4, <3>5 DEF ShownOnce
    <3>7. (\A c \in Cards : conv[c] # "none" => c < next)'
      BY <3>1, <3>4 DEF ShownOnce
    <3>8. (\A v \in Tools : tool[v].pc = "publish" =>
              conv[tool[v].card] = "none" /\ ~ShowSent(tool[v].card))'
      BY <3>1, <3>2, <3>3 DEF ShownOnce, ShowSent, Sent
    <3> QED
      BY <1>0, <3>1, <3>6, <3>7, <3>8 DEF ShownOnce
  <2>4. ASSUME Publish(w) PROVE ShownOnce'
    <3> DEFINE card == tool[w].card
    <3>1. /\ card \in Cards /\ card # 0 /\ card < next /\ tool[w].pc = "publish" /\ turn = "driving"
          /\ conv[card] = "none" /\ ~ShowSent(card) /\ Send(card, "pending")
          /\ UNCHANGED <<next, conv, turn>>
      BY <1>0, <2>4 DEF Base, Driven, CardsOnce, Publish, At, ShownOnce
    <3>2. /\ \A c, s : In(chan', c, s) <=> In(chan, c, s) \/ (c = card /\ s = "pending")
          /\ ShowsOnce(chan')
      BY <1>0, <3>1, Sending DEF ShowSent, Sent
    <3>3. /\ \A v \in Tools : v # w => tool'[v] = tool[v]
          /\ tool'[w].pc = "check"
      BY <1>0, <2>4, GoesOn DEF Publish
    <3>4. \A v \in Tools : v # w => tool[v].card # card
      BY <3>1 DEF Base, CardsOnce
    <3>5. \A c : In(chan', c, "pending") => In(chan, c, "pending") \/ c = card
      BY <3>2
    <3> HIDE DEF card
    <3>6. (\A c \in Cards : ShowSent(c) => conv[c] = "none" /\ c < next)'
      BY <3>1, <3>5 DEF ShownOnce, ShowSent, Sent
    <3>7. (\A c \in Cards : conv[c] # "none" => c < next)'
      BY <3>1 DEF ShownOnce
    <3>8. (\A v \in Tools : tool[v].pc = "publish" =>
              conv[tool[v].card] = "none" /\ ~ShowSent(tool[v].card))'
      BY <3>1, <3>3, <3>4, <3>5 DEF ShownOnce, ShowSent, Sent
    <3> QED
      BY <3>1, <3>2, <3>6, <3>7, <3>8 DEF ShownOnce
  <2>5. ASSUME Check(w) PROVE ShownOnce'
    BY <1>1, <1>2, <2>5 DEF Check, convVars
  <2>6. ASSUME Rechecked(w) PROVE ShownOnce'
    BY <1>1, <1>2, <2>6 DEF Rechecked, convVars
  <2>7. ASSUME Receive(w) PROVE ShownOnce'
    BY <1>1, <1>2, <2>7 DEF Receive, convVars
  <2>8. ASSUME Timeout(w) PROVE ShownOnce'
    BY <1>1, <1>2, <2>8 DEF Timeout, convVars
  <2>9. ASSUME Expire(w) PROVE ShownOnce'
    <3>1. PICK how \in {"expired", "default"} : Send(tool[w].card, how)
      BY <2>9 DEF Expire
    <3>2. how \in Statuses /\ how # "pending" /\ turn = "driving" /\ tool[w].card \in Cards
          /\ UNCHANGED <<next, conv, turn>>
      BY <1>0, <2>9 DEF Expire, At, Statuses
    <3>3. /\ \A c, s : In(chan', c, s) <=> In(chan, c, s) \/ (c = tool[w].card /\ s = how)
          /\ ShowsOnce(chan')
      BY <1>0, <3>1, <3>2, Sending
    <3>4. \A c : ShowSent(c)' => ShowSent(c)
      BY <3>2, <3>3 DEF ShowSent, Sent
    <3>5. \A v \in Tools : tool'[v].pc = "publish" => tool[v].pc = "publish" /\ tool'[v].card = tool[v].card
      BY <1>1, <2>9 DEF Expire
    <3> QED
      BY <3>2, <3>3, <3>4, <3>5, NothingShown
  <2>10. ASSUME GiveUp(w) PROVE ShownOnce'
    <3> DEFINE e == [card |-> tool[w].card, status |-> "expired"]
    <3>1. chan' = chan \/ chan' = Append(chan, e)
      BY <2>10 DEF GiveUp
    <3>2. e \in Events /\ e.status # "pending"
      BY <1>0, <2>10 DEF GiveUp, Events, Statuses
    <3>3. UNCHANGED <<next, conv, turn>>
      BY <2>10 DEF GiveUp
    <3> HIDE DEF e
    <3>4. ShowsOnce(chan') /\ \A c : In(chan', c, "pending") => In(chan, c, "pending")
      BY <1>0, <3>1, <3>2, Appended
    <3>5. \A v \in Tools : tool'[v].pc = "publish" => tool[v].pc = "publish" /\ tool'[v].card = tool[v].card
      BY <1>1, <2>10 DEF GiveUp
    <3> QED
      BY <3>3, <3>4, <3>5, NothingShown DEF ShowSent, Sent
  <2> QED
    BY <1>3, <2>1, <2>2, <2>3, <2>4, <2>5, <2>6, <2>7, <2>8, <2>9, <2>10 DEF Tool
<1>4. ASSUME \/ Respond \/ Join \/ AnswerInChat
             \/ \E j \in Switches : SetMode(j) \/ Recheck(j)
             \/ \E j \in Jobs : Release(j)
             \/ Finish \/ RequestStop
      PROVE  ShownOnce'
  <2>1. UNCHANGED <<tool, next, conv, chan>>
    BY <1>4 DEF Respond, Join, AnswerInChat, SetMode, Recheck, Release, Finish, RequestStop, convVars
  <2>2. Late(turn') => Late(turn)
    BY <1>4 DEF Respond, Join, AnswerInChat, SetMode, Recheck, Release, Finish, RequestStop, Late
  <2> QED
    BY <1>0, <2>1, <2>2, NothingShown DEF ShowSent, Sent
<1>5. ASSUME NEW j \in Jobs, Settle(j) PROVE ShownOnce'
  <2>1. PICK c \in job[j].cards : Send(c, job[j].how)
    BY <1>5 DEF Settle
  <2>2. c \in Cards /\ job[j].how \in Statuses /\ job[j].how # "pending" /\ UNCHANGED <<tool, next, conv, turn>>
    BY <1>0, <1>5 DEF Types, JobStates, Settle, Statuses
  <2>3. ShowsOnce(chan') /\ \A d : In(chan', d, "pending") => In(chan, d, "pending")
    BY <1>0, <2>1, <2>2, Sending
  <2> QED
    BY <2>2, <2>3, NothingShown DEF ShowSent, Sent
<1>6. ASSUME HandOver \/ StopDrained PROVE ShownOnce'
  <2>1. UNCHANGED <<tool, next, conv, chan>> /\ chan = <<>>
    BY <1>6 DEF HandOver, StopDrained, convVars
  <2>2. \A c \in Cards : ~ShowSent(c)
    BY <2>1 DEF ShowSent, Sent, In
  <2> QED
    BY <1>0, <2>1, <2>2, NothingShown DEF ShowSent, Sent
<1>7. ASSUME CancelPending PROVE ShownOnce'
  <2>1. UNCHANGED <<tool, next, chan>> /\ Late(turn)
        /\ \A c \in Cards : conv[c] = "none" => conv'[c] = "none"
    BY <1>7 DEF CancelPending, Late
  <2> QED
    BY <1>0, <2>1, NothingShown DEF ShowSent, Sent
<1>8. ASSUME Close PROVE ShownOnce'
  <2>1. UNCHANGED <<tool, next, conv>> /\ Late(turn) /\ chan' = <<>>
    BY <1>8 DEF Close, Late
  <2>2. ShowsOnce(chan') /\ \A c \in Cards : ~ShowSent(c)'
    BY <2>1 DEF ShowsOnce, ShowSent, Sent, In
  <2> QED
    BY <2>1, <2>2, NothingShown
<1>9. ASSUME Interrupt PROVE ShownOnce'
  <2> DEFINE inputs == {tool[w].card : w \in {v \in Tools : tool[v].kind = "input"}}
             closing == {a \in pending : a.card \in inputs}
  <2>1. PICK sent \in SUBSET CardsOf(closing) :
              chan' = chan \o SetToSeq({[card |-> c, status |-> "expired"] : c \in sent})
    BY <1>9 DEF Interrupt
  <2>2. \A w \in Tools : tool'[w].pc = "off"
    BY <1>0, <1>9 DEF Interrupt, ToolStates
  <2>3. UNCHANGED <<next, conv>> /\ ~Late(turn')
    BY <1>9 DEF Interrupt, Late
  <2>4. closing \in SUBSET pending
    OBVIOUS
  <2> HIDE DEF closing, inputs
  <2>5. sent \in SUBSET Cards
    <3>1. CardsOf(closing) \in SUBSET Cards
      BY <1>0, <2>4, TakenCards
    <3> QED
      BY <3>1
  <2>6. ShowsOnce(chan') /\ \A c : In(chan', c, "pending") => In(chan, c, "pending")
    <3> DEFINE r == chan \o SetToSeq({[card |-> c, status |-> "expired"] : c \in sent})
    <3>1. /\ \A c, s : In(r, c, s) <=> In(chan, c, s) \/ (c \in sent /\ s = "expired")
          /\ ShowsOnce(r)
      BY <1>0, <2>5, Closing
    <3>2. chan' = r
      BY <2>1
    <3> HIDE DEF r
    <3> QED
      BY <3>1, <3>2
  <2> QED
    BY <2>2, <2>3, <2>6, NothingShown DEF ShowSent, Sent
<1>10. ASSUME Apply PROVE ShownOnce'
  <2> DEFINE event == Head(chan)
  <2>1. UNCHANGED <<tool, next, turn>>
    BY <1>10 DEF Apply
  <2>2. /\ event.card \in Cards /\ ShowsOnce(chan')
        /\ \A c, s : In(chan, c, s) <=> In(chan', c, s) \/ (c = event.card /\ s = event.status)
        /\ event.status = "pending" => ~In(chan', event.card, "pending")
    BY <1>0, <1>10, Taken DEF Apply, Events
  <2>3. /\ \A c \in Cards : c # event.card => conv'[c] = conv[c]
        /\ event.status # "pending" /\ conv[event.card] = "none" => conv'[event.card] = "none"
    BY <1>0, <1>10 DEF Apply
  <2> HIDE DEF event
  <2>4. CASE event.status # "pending"
    <3>1. \A c \in Cards : conv[c] = "none" => conv'[c] = "none"
      BY <2>3, <2>4
    <3>2. \A c \in Cards : ShowSent(c)' => ShowSent(c)
      BY <2>2 DEF ShowSent, Sent
    <3> QED
      BY <2>1, <2>2, <3>1, <3>2, NothingShown
  <2>5. CASE event.status = "pending"
    <3>1. ShowSent(event.card)
      BY <2>2, <2>5 DEF ShowSent, Sent
    <3>2. event.card < next /\ conv[event.card] = "none"
      BY <2>2, <3>1 DEF ShownOnce
    <3>3. \A c \in Cards : In(chan', c, "pending") => ShowSent(c) /\ c # event.card
      BY <2>2, <2>5 DEF ShowSent, Sent
    <3>4. \A v \in Tools : tool[v].pc = "publish" => tool[v].card # event.card
      BY <3>1 DEF ShownOnce
    <3>5. (\A c \in Cards : ShowSent(c) => conv[c] = "none" /\ c < next)'
      BY <2>1, <2>3, <3>3 DEF ShownOnce, ShowSent, Sent
    <3>6. (\A c \in Cards : conv[c] # "none" => c < next)'
      BY <2>1, <2>3, <3>2 DEF ShownOnce
    <3>7. (\A v \in Tools : tool[v].pc = "publish" =>
              conv[tool[v].card] = "none" /\ ~ShowSent(tool[v].card))'
      BY <1>0, <2>1, <2>3, <3>3, <3>4 DEF ShownOnce, ShowSent, Sent
    <3>8. Late(turn') => \A c \in Cards : ~ShowSent(c)'
      BY <2>1, <2>2, <3>1 DEF ShownOnce, Late
    <3> QED
      BY <2>2, <3>5, <3>6, <3>7, <3>8 DEF ShownOnce, Late
  <2> QED
    BY <2>4, <2>5
<1> QED
  BY <1>3, <1>4, <1>5, <1>6, <1>7, <1>8, <1>9, <1>10 DEF Next, Job

\* What has been sent arrives, or is counted among the lost; what is shown as settled
\* stays so.
LEMMA LandedStays ==
    ASSUME Base, ShownOnce, Next, NEW c \in Cards, Landed(c)
    PROVE  /\ Landed(c)'
           /\ Shown(c) => Shown(c)'
<1>0. /\ Types /\ chan \in Seq(Events) /\ conv \in [Cards -> Statuses \cup {"none", "pending"}]
      /\ \A w \in Tools : tool[w].pc \in {"publish", "check", "recheck", "wait", "expire"} => tool[w].card \in Cards
  BY DEF Base, Types, Driven, ToolStates
<1>1. ASSUME conv' = conv, adrift \subseteq adrift',
             \A s \in Statuses : In(chan, c, s) => In(chan', c, s)
      PROVE  Landed(c)' /\ (Shown(c) => Shown(c)')
  BY <1>1 DEF Landed, Shown, SettleSent, Sent
<1>2. ASSUME UNCHANGED <<conv, adrift, chan>>
      PROVE  Landed(c)' /\ (Shown(c) => Shown(c)')
  BY <1>1, <1>2
<1>3. ASSUME NEW d \in Cards, NEW s \in Statuses \cup {"pending"}, Send(d, s), conv' = conv
      PROVE  Landed(c)' /\ (Shown(c) => Shown(c)')
  BY <1>0, <1>1, <1>3, Sending
<1>4. ASSUME NEW w \in Tools, GiveUp(w) PROVE Landed(c)' /\ (Shown(c) => Shown(c)')
  <2> DEFINE e == [card |-> tool[w].card, status |-> "expired"]
  <2>1. /\ chan' = chan \/ chan' = Append(chan, e)
        /\ adrift \subseteq adrift' /\ conv' = conv
    BY <1>4 DEF GiveUp
  <2>2. e \in Events
    BY <1>0, <1>4 DEF GiveUp, Events, Statuses
  <2> HIDE DEF e
  <2>3. \A s : In(chan, c, s) => In(Append(chan, e), c, s)
    BY <1>0, <2>2, Appended
  <2> QED
    BY <1>1, <2>1, <2>3
<1>5. ASSUME NEW w \in Tools, Publish(w) \/ Expire(w) PROVE Landed(c)' /\ (Shown(c) => Shown(c)')
  <2>1. PICK s \in Statuses \cup {"pending"} : Send(tool[w].card, s)
    BY <1>5 DEF Publish, Expire, Statuses
  <2>2. tool[w].card \in Cards /\ conv' = conv
    BY <1>0, <1>5 DEF Publish, Expire, At
  <2> QED
    BY <1>3, <2>1, <2>2
<1>6. ASSUME NEW j \in Jobs, Settle(j) PROVE Landed(c)' /\ (Shown(c) => Shown(c)')
  <2>1. PICK d \in job[j].cards : Send(d, job[j].how)
    BY <1>6 DEF Settle
  <2>2. d \in Cards /\ job[j].how \in Statuses /\ conv' = conv
    BY <1>0, <1>6 DEF Types, JobStates, Settle
  <2> QED
    BY <1>3, <2>1, <2>2
<1>7. ASSUME Close PROVE Landed(c)' /\ (Shown(c) => Shown(c)')
  <2>1. conv' = conv /\ adrift' = adrift \cup {chan[i].card : i \in 1..Len(chan)}
    BY <1>7 DEF Close
  <2>2. SettleSent(c) => c \in adrift'
    BY <2>1 DEF SettleSent, Sent, In
  <2> QED
    BY <2>1, <2>2 DEF Landed, Shown
<1>8. ASSUME CancelPending PROVE Landed(c)' /\ (Shown(c) => Shown(c)')
  <2>1. adrift' = adrift /\ chan' = chan /\ (conv'[c] = conv[c] \/ conv'[c] = "denied")
    BY <1>8 DEF CancelPending
  <2> QED
    BY <2>1 DEF Landed, Shown, SettleSent, Sent, Statuses
<1>9. ASSUME Apply PROVE Landed(c)' /\ (Shown(c) => Shown(c)')
  <2> DEFINE event == Head(chan)
  <2>1. /\ event \in Events
        /\ \A d, s : In(chan, d, s) <=> In(chan', d, s) \/ (d = event.card /\ s = event.status)
    BY <1>0, <1>9, Taken DEF Apply
  <2>2. \/ event.status # "pending" /\ conv[event.card] = "none" /\ event.card \in adrift'
           /\ adrift \subseteq adrift' /\ conv' = conv
        \/ conv' = [conv EXCEPT ![event.card] = event.status] /\ adrift' = adrift
    BY <1>9 DEF Apply
  <2> HIDE DEF event
  <2>3. event.card \in Cards /\ event.status \in Statuses \cup {"pending"}
    BY <2>1 DEF Events
  <2>4. event.status = "pending" => ShowSent(event.card)
    BY <2>1 DEF ShowSent, Sent
  <2>5. event.status = "pending" => conv[event.card] \notin Statuses
    BY <2>3, <2>4 DEF ShownOnce, Statuses
  <2>6. adrift \subseteq adrift'
    BY <2>2
  <2>7. conv[c] \in Statuses => conv'[c] \in Statuses
    BY <1>0, <2>2, <2>3, <2>5
  <2>8. Shown(c) => Shown(c)'
    BY <2>6, <2>7 DEF Shown
  <2>9. CASE SettleSent(c)
    <3>1. PICK s \in Statuses : In(chan, c, s)
      BY <2>9 DEF SettleSent, Sent
    <3>2. CASE In(chan', c, s)
      BY <2>8, <3>1, <3>2 DEF Landed, SettleSent, Sent
    <3>3. CASE c = event.card /\ s = event.status
      BY <1>0, <2>2, <3>3 DEF Landed, Shown
    <3> QED
      BY <2>1, <2>8, <3>1, <3>2, <3>3
  <2> QED
    BY <2>8, <2>9 DEF Landed
<1>10. ASSUME Interrupt PROVE Landed(c)' /\ (Shown(c) => Shown(c)')
  <2> DEFINE inputs == {tool[w].card : w \in {v \in Tools : tool[v].kind = "input"}}
             closing == {a \in pending : a.card \in inputs}
  <2>1. PICK sent \in SUBSET CardsOf(closing) :
              chan' = chan \o SetToSeq({[card |-> d, status |-> "expired"] : d \in sent})
    BY <1>10 DEF Interrupt
  <2>2. conv' = conv /\ adrift \subseteq adrift'
    BY <1>10 DEF Interrupt
  <2>3. closing \in SUBSET pending
    OBVIOUS
  <2> HIDE DEF closing, inputs
  <2>4. sent \in SUBSET Cards
    <3>1. CardsOf(closing) \in SUBSET Cards
      BY <1>0, <2>3, TakenCards
    <3> QED
      BY <3>1
  <2>5. \A s : In(chan, c, s) => In(chan', c, s)
    <3> DEFINE r == chan \o SetToSeq({[card |-> d, status |-> "expired"] : d \in sent})
    <3>1. \A d, s : In(r, d, s) <=> In(chan, d, s) \/ (d \in sent /\ s = "expired")
      BY <1>0, <2>4, Closing
    <3>2. chan' = r
      BY <2>1
    <3> HIDE DEF r
    <3> QED
      BY <3>1, <3>2
  <2> QED
    BY <1>1, <2>2, <2>5
<1>11. ASSUME \/ \E w \in Tools : \/ Decide(w) \/ Classify(w) \/ Insert(w) \/ Check(w) \/ Rechecked(w)
                                  \/ Receive(w) \/ Timeout(w)
              \/ Respond \/ Join \/ AnswerInChat
              \/ \E j \in Switches : SetMode(j) \/ Recheck(j)
              \/ \E j \in Jobs : Release(j)
              \/ Finish \/ HandOver \/ RequestStop \/ StopDrained
       PROVE  UNCHANGED <<conv, adrift, chan>>
  BY <1>11 DEF Decide, Classify, Insert, Check, Rechecked, Receive, Timeout, Respond, Join, AnswerInChat,
               SetMode, Recheck, Release, Finish, HandOver, RequestStop, StopDrained, convVars
<1> QED
  BY <1>2, <1>4, <1>5, <1>6, <1>7, <1>8, <1>9, <1>10, <1>11 DEF Next, Tool, Job

LEMMA SentFirstStep ==
    ASSUME Base, ShownOnce, SentFirst, Next
    PROVE  SentFirst'
<1>0. /\ Types /\ job \in [Jobs -> JobStates]
      /\ \A w \in Tools : tool[w].pc \in {"publish", "check", "recheck", "wait", "expire"} => tool[w].card \in Cards
  BY DEF Base, Types, Driven, ToolStates
<1>1. \A c \in Cards : Landed(c) => Landed(c)' /\ (Shown(c) => Shown(c)')
  BY LandedStays
<1>2. /\ \A c \in Cards : told[c] # "none" => Landed(c)
      /\ turn = "driving" => \A c \in Cards : answer[c] # "none" => Landed(c)
      /\ \A j \in Jobs : job[j].at = "release" => job[j].card \in Cards /\ Landed(job[j].card)
      /\ Late(turn) => \A c \in Cards : told[c] # "none" => Landed(c) /\ Shown(c)
  BY <1>0 DEF SentFirst, Late, Base, JobsInStep, InStep, JobStates, Landed
<1>3. \A c \in Cards : told'[c] # "none" => Landed(c)'
  <2>1. ASSUME NEW w \in Tools, Receive(w), NEW c \in Cards, told'[c] # "none" PROVE Landed(c)
    <3>1. turn = "driving" /\ answer[tool[w].card] # "none" /\ tool[w].card \in Cards
      BY <1>0, <2>1 DEF Receive, At
    <3>2. told[c] # "none" \/ c = tool[w].card
      BY <1>0, <2>1 DEF Receive, Types
    <3> QED
      BY <1>2, <3>1, <3>2
  <2>2. ASSUME NEW w \in Tools, Expire(w), NEW c \in Cards, told'[c] # "none" PROVE Landed(c)'
    <3>1. PICK s \in {"expired", "default"} : /\ Send(tool[w].card, s)
                                              /\ told' = [told EXCEPT ![tool[w].card] = s]
      BY <2>2 DEF Expire
    <3>2. turn # "closed" /\ tool[w].card \in Cards /\ s \in Statuses
      BY <1>0, <2>2 DEF Expire, At, Statuses
    <3>3. CASE c = tool[w].card
      <4>1. In(chan', c, s)
        BY <1>0, <3>1, <3>2, <3>3, Sending
      <4> QED
        BY <3>2, <4>1 DEF Landed, SettleSent, Sent
    <3>4. CASE c # tool[w].card
      <4>1. told[c] # "none"
        BY <1>0, <2>2, <3>1, <3>4 DEF Types
      <4> QED
        BY <1>1, <1>2, <4>1
    <3> QED
      BY <3>3, <3>4
  <2>3. told' = told \/ \E w \in Tools : Receive(w) \/ Expire(w)
    BY DEF Next, Tool, Decide, Classify, Insert, Publish, Check, Rechecked, Timeout, GiveUp, Respond, Join, AnswerInChat,
           SetMode, Recheck, Job, Settle, Release, Apply, Finish, HandOver, RequestStop, Interrupt, StopDrained,
           CancelPending, Close
  <2> QED
    BY <1>1, <1>2, <2>1, <2>2, <2>3
<1>4. turn' = "driving" => \A c \in Cards : answer'[c] # "none" => Landed(c)'
  <2>1. ASSUME NEW j \in Jobs, Release(j), turn = "driving", NEW c \in Cards, answer'[c] # "none"
        PROVE  Landed(c)
    <3>1. answer[c] # "none" \/ c = job[j].card
      BY <1>0, <2>1 DEF Release, Answered, Types
    <3>2. job[j].at = "release"
      BY <2>1 DEF Release
    <3>3. Landed(job[j].card)
      BY <1>2, <3>2
    <3>4. CASE answer[c] # "none"
      BY <1>2, <2>1, <3>4
    <3>5. CASE c = job[j].card
      BY <3>3, <3>5
    <3> QED
      BY <3>1, <3>4, <3>5
  <2>2. turn' = "driving" => turn = "driving" /\ (answer' = answer \/ \E j \in Jobs : Release(j))
    BY DEF Next, Tool, Decide, Classify, Insert, Publish, Check, Rechecked, Receive, Timeout, Expire, GiveUp, Respond,
           Join, AnswerInChat, SetMode, Recheck, Job, Settle, Release, Apply, Finish, HandOver, RequestStop, Interrupt,
           StopDrained, CancelPending, Close, At
  <2> QED
    BY <1>1, <1>2, <2>1, <2>2
<1>5. (\A j \in Jobs : job[j].at = "release" => Landed(job[j].card))'
  <2>1. ASSUME \A j \in Jobs : job'[j].at = "release" => job'[j] = job[j]
        PROVE  (\A j \in Jobs : job[j].at = "release" => Landed(job[j].card))'
    <3>1. \A j \in Jobs : job'[j].at = "release" =>
              /\ job'[j].card = job[j].card /\ job[j].card \in Cards
              /\ Landed(job[j].card)
      BY <1>2, <2>1
    <3>2. ASSUME NEW j \in Jobs, job'[j].at = "release", NEW d \in Cards, d = job[j].card
          PROVE  Landed(d)' /\ d = job'[j].card
      BY <1>1, <3>1, <3>2
    <3> QED
      BY <3>1, <3>2 DEF Landed, Shown, SettleSent, Sent
  <2>2. ASSUME NEW j \in Jobs, Settle(j)
        PROVE  (\A k \in Jobs : job[k].at = "release" => Landed(job[k].card))'
    <3>1. PICK c \in job[j].cards : /\ Send(c, job[j].how)
                                    /\ job' = [job EXCEPT ![j].at = "release", ![j].card = c]
      BY <2>2 DEF Settle
    <3>2. c \in Cards /\ job[j].how \in Statuses
      BY <1>0 DEF JobStates
    <3>3. Landed(c)'
      <4>1. c \in adrift' \/ In(chan', c, job[j].how)
        BY <1>0, <3>1, <3>2, Sending
      <4> QED
        BY <3>2, <4>1 DEF Landed, Shown, SettleSent, Sent
    <3>4. job'[j].card = c /\ \A k \in Jobs : k # j => job'[k] = job[k]
      BY <1>0, <3>1 DEF JobStates
    <3>5. ASSUME NEW k \in Jobs, k # j, job[k].at = "release", NEW d \in Cards, d = job[k].card
          PROVE  Landed(d)'
      BY <1>1, <1>2, <3>5
    <3> QED
      BY <1>2, <3>3, <3>4, <3>5 DEF Landed, Shown, SettleSent, Sent
  <2>3. \/ \E j \in Jobs : Settle(j)
        \/ \A j \in Jobs : job'[j].at = "release" => job'[j] = job[j]
    <3>1. CASE job' = job
      BY <3>1
    <3>2. ASSUME NEW j \in Jobs, NEW v, job' = [job EXCEPT ![j] = v], v.at # "release"
          PROVE  \A k \in Jobs : job'[k].at = "release" => job'[k] = job[k]
      BY <1>0, <3>2
    <3>3. \A how \in Statuses, X \in SUBSET Cards : Settling(how, X).at # "release"
      BY JobValues
    <3>4. ASSUME NEW w \in Tools, Check(w)
          PROVE  \A k \in Jobs : job'[k].at = "release" => job'[k] = job[k]
      <4> DEFINE X == CardsOf(OutOfMode(meta.mode))
      <4>1. X \in SUBSET Cards /\ "changed" \in Statuses /\ w \in Jobs
        BY <1>0, TakenCards, JobNames DEF Statuses
      <4>2. job' = job \/ job' = [job EXCEPT ![w] = Settling("changed", X)]
        BY <3>4 DEF Check
      <4> HIDE DEF X
      <4> QED
        BY <3>1, <3>2, <3>3, <4>1, <4>2
    <3>5. ASSUME Respond
          PROVE  \A k \in Jobs : job'[k].at = "release" => job'[k] = job[k]
      <4>1. PICK a \in pending : job' = [job EXCEPT !["user"] = Settling("answered", {a.card})]
        BY <3>5 DEF Respond
      <4>2. {a.card} \in SUBSET Cards /\ "answered" \in Statuses
        BY <1>0 DEF Types, PendingActions, Statuses
      <4> QED
        BY <3>2, <3>3, <4>1, <4>2, JobNames
    <3>6. ASSUME Join
          PROVE  \A k \in Jobs : job'[k].at = "release" => job'[k] = job[k]
      <4> DEFINE v == [NoJob EXCEPT !.at = "take", !.how = "in_chat"]
      <4>1. v.at # "release"
        BY JobValues
      <4>2. job' = job \/ job' = [job EXCEPT !["chat"] = v]
        BY <3>6 DEF Join
      <4> HIDE DEF v
      <4> QED
        BY <3>1, <3>2, <4>1, <4>2, JobNames
    <3>7. ASSUME AnswerInChat
          PROVE  \A k \in Jobs : job'[k].at = "release" => job'[k] = job[k]
      <4> DEFINE X == CardsOf(AskedChoices)
      <4>1. X \in SUBSET Cards /\ "in_chat" \in Statuses
        BY <1>0, TakenCards DEF Statuses
      <4>2. job' = [job EXCEPT !["chat"] = Settling("in_chat", X)]
        BY <3>7 DEF AnswerInChat
      <4> HIDE DEF X
      <4> QED
        BY <3>2, <3>3, <4>1, <4>2, JobNames
    <3>8. ASSUME NEW j \in Switches, SetMode(j)
          PROVE  \A k \in Jobs : job'[k].at = "release" => job'[k] = job[k]
      <4>1. PICK mode \in Modes : job' = [job EXCEPT ![j] = [NoJob EXCEPT !.at = "take", !.how = "changed", !.mode = mode]]
        BY <3>8 DEF SetMode
      <4> DEFINE v == [NoJob EXCEPT !.at = "take", !.how = "changed", !.mode = mode]
      <4>2. v.at # "release"
        BY JobValues
      <4> QED
        BY <3>2, <4>1, <4>2, JobNames
    <3>9. ASSUME NEW j \in Switches, Recheck(j)
          PROVE  \A k \in Jobs : job'[k].at = "release" => job'[k] = job[k]
      <4> DEFINE X == CardsOf(OutOfMode(job[j].mode))
      <4>1. X \in SUBSET Cards /\ "changed" \in Statuses
        BY <1>0, TakenCards DEF Statuses
      <4>2. job' = [job EXCEPT ![j] = Settling("changed", X)]
        BY <3>9 DEF Recheck
      <4> HIDE DEF X
      <4> QED
        BY <3>2, <3>3, <4>1, <4>2, JobNames
    <3>10. ASSUME NEW j \in Jobs, Release(j)
           PROVE  \A k \in Jobs : job'[k].at = "release" => job'[k] = job[k]
      <4> DEFINE how == job[j].how
                 X == job[j].cards \ {job[j].card}
      <4>1. X \in SUBSET Cards /\ how \in Statuses
        BY <1>0 DEF JobStates
      <4>2. job' = [job EXCEPT ![j] = Settling(how, X)]
        BY <3>10 DEF Release
      <4> HIDE DEF X, how
      <4> QED
        BY <3>2, <3>3, <4>1, <4>2
    <3>11. ASSUME Interrupt
           PROVE  \A k \in Jobs : job'[k].at = "release" => job'[k] = job[k]
      BY <3>11, JobValues DEF Interrupt
    <3>12. \/ job' = job
           \/ \E w \in Tools : Check(w)
           \/ Respond \/ Join \/ AnswerInChat \/ \E j \in Switches : SetMode(j) \/ Recheck(j)
           \/ \E j \in Jobs : Settle(j) \/ Release(j)
           \/ Interrupt
      BY DEF Next, Tool, Decide, Classify, Insert, Publish, Rechecked, Receive, Timeout, Expire, GiveUp, Job,
             Apply, Finish, HandOver, RequestStop, StopDrained, CancelPending, Close
    <3> QED
      BY <3>1, <3>4, <3>5, <3>6, <3>7, <3>8, <3>9, <3>10, <3>11, <3>12
  <2> QED
    BY <2>1, <2>2, <2>3
<1>6. Late(turn') => \A c \in Cards : told'[c] # "none" => Shown(c)'
  <2>1. ASSUME HandOver \/ StopDrained, NEW c \in Cards, told'[c] # "none" PROVE Shown(c)
    <3>1. told[c] # "none" /\ chan = <<>>
      BY <2>1 DEF HandOver, StopDrained
    <3>2. ~SettleSent(c)
      BY <3>1 DEF SettleSent, Sent, In
    <3> QED
      BY <1>2, <3>1, <3>2 DEF Landed
  <2>2. Late(turn') => HandOver \/ StopDrained \/ (Late(turn) /\ told' = told)
    BY DEF Next, Tool, Decide, Classify, Insert, Publish, Check, Rechecked, Receive, Timeout, Expire, GiveUp, Respond,
           Join, AnswerInChat, SetMode, Recheck, Job, Settle, Release, Apply, Finish, RequestStop, Interrupt,
           CancelPending, Close, At, Late
  <2> QED
    BY <1>1, <1>2, <2>1, <2>2 DEF Landed
<1> QED
  BY <1>3, <1>4, <1>5, <1>6 DEF SentFirst, Late

LEMMA SentAlways == Spec => [](Base /\ ShownOnce /\ SentFirst)
<1>1. Init => SentFirst
  <2> SUFFICES ASSUME Init PROVE SentFirst
    OBVIOUS
  <2>1. \A j \in Jobs : job[j].at = "idle"
    BY JobValues DEF Init
  <2>2. turn = "driving" /\ \A c \in Cards : told[c] = "none" /\ answer[c] = "none"
    BY DEF Init
  <2> QED
    BY <2>1, <2>2 DEF SentFirst
<1>2. Base /\ ShownOnce /\ SentFirst /\ [Next]_vars => ShownOnce' /\ SentFirst'
  <2>1. ASSUME Base, ShownOnce, SentFirst, Next PROVE ShownOnce' /\ SentFirst'
    BY <2>1, ShownStep, SentFirstStep
  <2>2. ASSUME ShownOnce, SentFirst, UNCHANGED vars PROVE ShownOnce' /\ SentFirst'
    BY <2>2 DEF vars, convVars, ShownOnce, SentFirst, ShowSent, Landed, Shown, SettleSent, Sent
  <2> QED
    BY <2>1, <2>2
<1> QED
  BY <1>1, <1>2, ShownInit, BaseAlways, PTL DEF Spec

\* The event goes first: what a tool was told is no longer shown as open when the
\* results go to the model, but for the resolutions that were lost.
THEOREM CardsCloseFirst == Spec => []CardClosesFirst
<1>1. Base /\ ShownOnce /\ SentFirst => CardClosesFirst
  BY DEF SentFirst, CardClosesFirst, Shown, Statuses
<1> QED
  BY <1>1, SentAlways, PTL

-----------------------------------------------------------------------------
(***************************************************************************)
(* No card stays open that nobody can settle.                              *)
(***************************************************************************)

\* An action that leaves the table has a settlement, a tool whose time is over, or an
\* event that closes its card.
LEMMA TableHandsOn ==
    ASSUME Base, Next, ~CancelPending, NEW c \in CardsOf(pending), c \in Cards
    PROVE  Settles(c)'
<1>0. /\ Types /\ job \in [Jobs -> JobStates] /\ chan \in Seq(Events)
      /\ \A w \in Tools : tool[w].pc \in {"publish", "check", "recheck", "wait", "expire"} => tool[w].card \in Cards
  BY DEF Base, Types, Driven, ToolStates
<1>1. ASSUME pending \subseteq pending' PROVE Settles(c)'
  BY <1>1 DEF Settles, InFlight, CardsOf
<1>2. ASSUME NEW X \in SUBSET pending, pending' = pending \ X, NEW how \in Statuses, NEW j \in Jobs,
             job' = [job EXCEPT ![j] = Settling(how, CardsOf(X))]
      PROVE  Settles(c)'
  <2>1. c \in CardsOf(pending') \/ c \in CardsOf(X)
    BY <1>2 DEF CardsOf
  <2>2. CardsOf(X) \in SUBSET Cards
    BY <1>0, TakenCards
  <2>3. job'[j].cards = CardsOf(X)
    <3> DEFINE v == Settling(how, CardsOf(X))
    <3>1. v.cards = CardsOf(X)
      BY <2>2, SettlesAs
    <3> HIDE DEF v
    <3>2. job'[j] = v
      BY <1>0, <1>2 DEF v
    <3> QED
      BY <3>1, <3>2
  <2> QED
    BY <2>1, <2>3 DEF Settles, InFlight
<1>3. ASSUME NEW w \in Tools, Check(w) PROVE Settles(c)'
  <2>1. CASE pending' = pending
    BY <1>1, <2>1
  <2>2. CASE /\ job' = [job EXCEPT ![w] = Settling("changed", CardsOf(OutOfMode(meta.mode)))]
             /\ pending' = pending \ OutOfMode(meta.mode)
    <3> DEFINE X == OutOfMode(meta.mode)
    <3>1. X \in SUBSET pending /\ "changed" \in Statuses /\ w \in Jobs
      BY <1>0, TakenCards, JobNames DEF Statuses
    <3>2. job' = [job EXCEPT ![w] = Settling("changed", CardsOf(X))] /\ pending' = pending \ X
      BY <2>2
    <3> HIDE DEF X
    <3> QED
      BY <1>2, <3>1, <3>2
  <2> QED
    BY <1>3, <2>1, <2>2 DEF Check
<1>4. ASSUME Respond PROVE Settles(c)'
  <2>1. PICK a \in pending : /\ job' = [job EXCEPT !["user"] = Settling("answered", {a.card})]
                             /\ pending' = pending \ {a}
    BY <1>4 DEF Respond
  <2>2. CardsOf({a}) = {a.card} /\ {a} \in SUBSET pending /\ "answered" \in Statuses
    BY DEF CardsOf, Statuses
  <2>3. job' = [job EXCEPT !["user"] = Settling("answered", CardsOf({a}))]
    BY <2>1, <2>2
  <2> QED
    BY <1>2, <2>1, <2>2, <2>3, JobNames
<1>5. ASSUME AnswerInChat PROVE Settles(c)'
  <2>1. AskedChoices \in SUBSET pending /\ "in_chat" \in Statuses
    BY <1>0, TakenCards DEF Statuses
  <2>2. /\ pending' = pending \ AskedChoices
        /\ job' = [job EXCEPT !["chat"] = Settling("in_chat", CardsOf(AskedChoices))]
    BY <1>5 DEF AnswerInChat
  <2> QED
    BY <1>2, <2>1, <2>2, JobNames
<1>6. ASSUME NEW j \in Switches, Recheck(j) PROVE Settles(c)'
  <2> DEFINE X == OutOfMode(job[j].mode)
  <2>1. X \in SUBSET pending /\ "changed" \in Statuses /\ j \in Jobs
    BY <1>0, TakenCards, JobNames DEF Statuses
  <2>2. /\ pending' = pending \ X
        /\ job' = [job EXCEPT ![j] = Settling("changed", CardsOf(X))]
    BY <1>6 DEF Recheck
  <2> HIDE DEF X
  <2> QED
    BY <1>2, <2>1, <2>2
<1>7. ASSUME NEW w \in Tools, pending' = pending \ ActionOf(tool[w].card)
      PROVE  Settles(c)' \/ (c = tool[w].card /\ ActionOf(c) # {})
  <2>1. PICK a \in pending : a.card = c
    BY DEF CardsOf
  <2>2. CASE c # tool[w].card
    BY <1>7, <2>1, <2>2 DEF ActionOf, Settles, InFlight, CardsOf
  <2>3. CASE c = tool[w].card
    BY <2>1, <2>3 DEF ActionOf
  <2> QED
    BY <2>2, <2>3
<1>8. ASSUME NEW w \in Tools, Timeout(w) PROVE Settles(c)'
  <2>1. tool'[w].pc = "expire" /\ tool'[w].card = tool[w].card
    BY <1>0, <1>8, GoesOn DEF Timeout, ToolSteps
  <2>2. c = tool[w].card => ToolAt(c, "expire")'
    BY <2>1 DEF ToolAt
  <2>3. ToolAt(c, "expire")' => Settles(c)'
    BY DEF ToolAt, Settles, InFlight
  <2> QED
    BY <1>7, <1>8, <2>2, <2>3 DEF Timeout
<1>9. ASSUME NEW w \in Tools, GiveUp(w) PROVE Settles(c)'
  <2> DEFINE e == [card |-> tool[w].card, status |-> "expired"]
  <2>1. CASE c = tool[w].card /\ ActionOf(c) # {}
    <3>1. chan' = Append(chan, e) \/ c \in adrift'
      BY <1>9, <2>1 DEF GiveUp
    <3>2. e \in Events /\ e.card = c /\ e.status = "expired"
      BY <1>0, <2>1 DEF Events, Statuses
    <3> HIDE DEF e
    <3>3. In(Append(chan, e), c, "expired")
      BY <1>0, <3>2, Appended
    <3> QED
      BY <3>1, <3>3 DEF Settles, Landed, Shown, SettleSent, Sent, Statuses
  <2> QED
    BY <1>7, <1>9, <2>1 DEF GiveUp
<1>10. ASSUME Interrupt PROVE Settles(c)'
  <2> DEFINE inputs == {tool[w].card : w \in {v \in Tools : tool[v].kind = "input"}}
             closing == {a \in pending : a.card \in inputs}
             held == UNION {job[w].cards \ {job[w].card} : w \in Tools}
             late == {tool[w].card : w \in {v \in Tools : tool[v].pc = "expire"}}
             unsent == held \cup late
  <2>1. PICK sent \in SUBSET CardsOf(closing) :
              /\ pending' = pending \ closing
              /\ chan' = chan \o SetToSeq({[card |-> d, status |-> "expired"] : d \in sent})
              /\ adrift' = adrift \cup (CardsOf(closing) \ sent) \cup unsent
    BY <1>10 DEF Interrupt
  <2>2. closing \in SUBSET pending
    OBVIOUS
  <2> HIDE DEF closing, inputs, unsent, held, late
  <2>3. CASE c \in CardsOf(pending')
    BY <2>3 DEF Settles, InFlight
  <2>4. CASE c \in CardsOf(closing) \ sent
    BY <2>1, <2>4 DEF Settles, Landed, Shown
  <2>5. CASE c \in sent
    <3> DEFINE r == chan \o SetToSeq({[card |-> d, status |-> "expired"] : d \in sent})
    <3>1. CardsOf(closing) \in SUBSET Cards
      BY <1>0, <2>2, TakenCards
    <3>2. sent \in SUBSET Cards
      BY <3>1
    <3>3. In(r, c, "expired")
      BY <1>0, <2>5, <3>2, Closing
    <3>4. chan' = r
      BY <2>1
    <3> HIDE DEF r
    <3> QED
      BY <3>3, <3>4 DEF Settles, Landed, SettleSent, Sent, Statuses
  <2>6. c \in CardsOf(pending') \/ c \in CardsOf(closing)
    BY <2>1 DEF CardsOf
  <2> QED
    BY <2>3, <2>4, <2>5, <2>6
<1>11. \/ pending \subseteq pending'
       \/ \E w \in Tools : Check(w) \/ Timeout(w) \/ GiveUp(w)
       \/ Respond \/ AnswerInChat \/ \E j \in Switches : Recheck(j)
       \/ Interrupt
  BY DEF Next, Tool, Decide, Classify, Insert, Publish, Rechecked, Receive, Expire, Join, SetMode, Job, Settle,
         Release, Apply, Finish, HandOver, RequestStop, StopDrained, Close
<1> QED
  BY <1>1, <1>3, <1>4, <1>5, <1>6, <1>8, <1>9, <1>10, <1>11

\* A settlement lets go of a card when its event has been sent; one that is dropped
\* loses those it has not sent.
LEMMA SettlementHandsOn ==
    ASSUME Base, ShownOnce, SentFirst, Next, NEW j \in Jobs, NEW c \in job[j].cards, c \in Cards
    PROVE  Settles(c)'
<1>0. /\ Types /\ job \in [Jobs -> JobStates] /\ InStep(job[j])
      /\ job[j].at \in {"send", "release"}
      /\ j \in Tools => tool[j].pc = "recheck"
  BY DEF Base, Types, JobsInStep, InStep, JobStates
<1>1. ASSUME c \in job'[j].cards PROVE Settles(c)'
  BY <1>1 DEF Settles, InFlight
<1>2. ASSUME job'[j] = job[j] PROVE Settles(c)'
  BY <1>1, <1>2
<1>3. ASSUME c = job[j].card PROVE Settles(c)'
  <2>1. job[j].at = "release"
    BY <1>0, <1>3 DEF InStep, Cards
  <2>2. Landed(c)
    BY <1>3, <2>1 DEF SentFirst
  <2> QED
    BY <2>2, LandedStays DEF Settles
<1>4. ASSUME Settle(j) PROVE Settles(c)'
  <2>1. job'[j].cards = job[j].cards
    BY <1>0, <1>4 DEF Settle, JobStates
  <2> QED
    BY <1>1, <2>1
<1>5. ASSUME Release(j) PROVE Settles(c)'
  <2> DEFINE how == job[j].how
             rest == job[j].cards \ {job[j].card}
             v == Settling(how, rest)
  <2>1. how \in Statuses /\ rest \in SUBSET Cards
    BY <1>0 DEF JobStates
  <2>2. job'[j] = v
    BY <1>0, <1>5 DEF Release
  <2>3. v.cards = rest
    <3> HIDE DEF how, rest
    <3> QED
      BY <2>1, SettlesAs
  <2> HIDE DEF v
  <2> QED
    BY <1>1, <1>3, <2>2, <2>3
<1>6. ASSUME NEW k \in Jobs, Settle(k) \/ Release(k), k # j PROVE job'[j] = job[j]
  BY <1>0, <1>6 DEF Settle, Release
<1>7. ASSUME \/ \E w \in Tools : Check(w)
             \/ Respond \/ Join \/ AnswerInChat \/ \E k \in Switches : SetMode(k) \/ Recheck(k)
      PROVE  job'[j] = job[j]
  <2>1. ASSUME NEW w \in Tools, Check(w) PROVE job'[j] = job[j]
    BY <1>0, <2>1 DEF Check, At
  <2>2. ASSUME Respond \/ Join PROVE job'[j] = job[j]
    BY <1>0, <2>2 DEF Respond, Join
  <2>3. ASSUME AnswerInChat PROVE job'[j] = job[j]
    BY <1>0, <2>3 DEF AnswerInChat
  <2>4. ASSUME NEW k \in Switches, SetMode(k) \/ Recheck(k) PROVE job'[j] = job[j]
    BY <1>0, <2>4 DEF SetMode, Recheck
  <2> QED
    BY <1>7, <2>1, <2>2, <2>3, <2>4
<1>8. ASSUME Interrupt PROVE Settles(c)'
  <2> DEFINE inputs == {tool[w].card : w \in {v \in Tools : tool[v].kind = "input"}}
             closing == {a \in pending : a.card \in inputs}
             held == UNION {job[w].cards \ {job[w].card} : w \in Tools}
             late == {tool[w].card : w \in {v \in Tools : tool[v].pc = "expire"}}
             unsent == held \cup late
  <2>1. PICK sent \in SUBSET CardsOf(closing) :
              adrift' = adrift \cup (CardsOf(closing) \ sent) \cup unsent
    BY <1>8 DEF Interrupt
  <2>2. CASE j \in Tools /\ c # job[j].card
    <3>1. c \in held
      BY <2>2
    <3> HIDE DEF held, late, closing
    <3>2. c \in adrift'
      BY <2>1, <3>1
    <3> QED
      BY <3>2 DEF Settles, Landed, Shown
  <2>3. CASE j \notin Tools
    <3>1. job'[j] = job[j]
      BY <1>8, <2>3 DEF Interrupt
    <3> QED
      BY <1>2, <3>1
  <2> QED
    BY <1>3, <2>2, <2>3
<1>9. \/ job' = job
      \/ \E w \in Tools : Check(w)
      \/ Respond \/ Join \/ AnswerInChat \/ \E k \in Switches : SetMode(k) \/ Recheck(k)
      \/ \E k \in Jobs : Settle(k) \/ Release(k)
      \/ Interrupt
  BY DEF Next, Tool, Decide, Classify, Insert, Publish, Rechecked, Receive, Timeout, Expire, GiveUp, Job,
         Apply, Finish, HandOver, RequestStop, StopDrained, CancelPending, Close
<1> QED
  BY <1>2, <1>4, <1>5, <1>6, <1>7, <1>8, <1>9

\* A tool whose time is over says so, or its card is counted among the lost.
LEMMA ExpiryHandsOn ==
    ASSUME Base, Next, NEW w \in Tools, tool[w].pc = "expire", NEW c \in Cards, c = tool[w].card
    PROVE  Settles(c)'
<1>0. /\ Types /\ tool \in [Tools -> ToolStates] /\ chan \in Seq(Events) /\ turn = "driving"
      /\ tool[w].card \in Cards
  BY DEF Base, Types, Driven
<1> USE DEF ToolSteps
<1>1. ASSUME tool'[w] = tool[w] PROVE Settles(c)'
  BY <1>1 DEF Settles, InFlight
<1>2. ASSUME Expire(w) PROVE Settles(c)'
  <2>1. PICK s \in {"expired", "default"} : Send(c, s)
    BY <1>2 DEF Expire
  <2>2. s \in Statuses /\ turn # "closed"
    BY <1>0 DEF Statuses
  <2>3. In(chan', c, s)
    BY <1>0, <2>1, <2>2, Sending
  <2> QED
    BY <2>2, <2>3 DEF Settles, Landed, SettleSent, Sent
<1>3. ASSUME GiveUp(w) PROVE Settles(c)'
  <2> DEFINE e == [card |-> c, status |-> "expired"]
  <2>1. chan' = Append(chan, e) \/ c \in adrift'
    BY <1>3 DEF GiveUp
  <2>2. e \in Events /\ e.card = c /\ e.status = "expired"
    BY DEF Events, Statuses
  <2> HIDE DEF e
  <2>3. In(Append(chan, e), c, "expired")
    BY <1>0, <2>2, Appended
  <2> QED
    BY <2>1, <2>3 DEF Settles, Landed, Shown, SettleSent, Sent, Statuses
<1>4. ASSUME NEW v \in Tools, v # w, Tool(v) \/ GiveUp(v) PROVE Settles(c)'
  <2>1. CASE \E pc \in ToolSteps : Goes(v, pc)
    BY <1>0, <1>1, <1>4, <2>1, GoesOn
  <2>2. CASE Decide(v) \/ Insert(v)
    <3>1. tool'[w] = tool[w]
      BY <1>0, <1>4, <2>2 DEF Decide, Insert, Goes
    <3> QED
      BY <1>1, <3>1
  <2> QED
    BY <1>4, <2>1, <2>2 DEF Tool, Classify, Publish, Check, Rechecked, Receive, Timeout, Expire, GiveUp
<1>5. ASSUME Tool(w) PROVE Expire(w)
  BY <1>5 DEF Tool, Decide, Classify, Insert, Publish, Check, Rechecked, Receive, Timeout, At
<1>6. ASSUME Interrupt PROVE Settles(c)'
  <2> DEFINE inputs == {tool[u].card : u \in {v \in Tools : tool[v].kind = "input"}}
             closing == {a \in pending : a.card \in inputs}
             held == UNION {job[u].cards \ {job[u].card} : u \in Tools}
             late == {tool[u].card : u \in {v \in Tools : tool[v].pc = "expire"}}
             unsent == held \cup late
  <2>1. PICK sent \in SUBSET CardsOf(closing) :
              adrift' = adrift \cup (CardsOf(closing) \ sent) \cup unsent
    BY <1>6 DEF Interrupt
  <2>2. c \in late
    OBVIOUS
  <2> HIDE DEF held, late, closing
  <2>3. c \in adrift'
    BY <2>1, <2>2
  <2> QED
    BY <2>3 DEF Settles, Landed, Shown
<1>7. \/ \E v \in Tools : Tool(v) \/ GiveUp(v)
      \/ tool' = tool
      \/ Interrupt
  BY DEF Next, Respond, Join, AnswerInChat, SetMode, Recheck, Job, Settle, Release, Apply, Finish, HandOver,
         RequestStop, StopDrained, CancelPending, Close
<1> QED
  BY <1>1, <1>2, <1>3, <1>4, <1>5, <1>6, <1>7

\* Who asks has asked before, or has just been entered into the table.
LEMMA AskedBefore ==
    ASSUME Base, ShownOnce, Next, NEW c \in Cards, Asked(c)'
    PROVE  Asked(c) \/ c \in CardsOf(pending')
<1>0. /\ Types /\ tool \in [Tools -> ToolStates] /\ chan \in Seq(Events)
      /\ conv \in [Cards -> Statuses \cup {"none", "pending"}]
      /\ \A w \in Tools : tool[w].pc \in {"publish", "check", "recheck", "wait", "expire"} => tool[w].card \in Cards
  BY DEF Base, Types, Driven, ToolStates
<1>1. ASSUME conv'[c] = "pending" PROVE Asked(c)
  <2>1. CASE conv'[c] = conv[c]
    BY <1>1, <2>1 DEF Asked
  <2>2. CASE Apply
    <3> DEFINE event == Head(chan)
    <3>1. conv'[c] = conv[c] \/ (c = event.card /\ conv'[c] = event.status)
      BY <1>0, <2>2 DEF Apply
    <3>2. In(chan, event.card, event.status)
      BY <1>0, <2>2, Taken DEF Apply
    <3> HIDE DEF event
    <3> QED
      BY <1>1, <2>1, <3>1, <3>2 DEF Asked, ShowSent, Sent
  <2>3. CASE CancelPending
    BY <1>1, <2>1, <2>3 DEF CancelPending
  <2> QED
    BY <2>1, <2>2, <2>3
    DEF Next, Tool, Decide, Classify, Insert, Publish, Check, Rechecked, Receive, Timeout, Expire, GiveUp, Respond,
        Join, AnswerInChat, SetMode, Recheck, Job, Settle, Release, Finish, HandOver, RequestStop, Interrupt,
        StopDrained, Close, convVars
<1>2. ASSUME ShowSent(c)' PROVE Asked(c)
  <2>1. ASSUME In(chan', c, "pending") => In(chan, c, "pending") PROVE Asked(c)
    BY <1>2, <2>1 DEF Asked, ShowSent, Sent
  <2>2. ASSUME NEW d \in Cards, NEW s \in Statuses, Send(d, s) PROVE Asked(c)
    BY <1>0, <2>1, <2>2, Sending DEF Statuses
  <2>3. ASSUME NEW w \in Tools, Publish(w) PROVE Asked(c)
    <3>1. Send(tool[w].card, "pending") /\ tool[w].card \in Cards /\ tool[w].pc = "publish"
      BY <1>0, <2>3 DEF Publish, At
    <3>2. In(chan', c, "pending") => In(chan, c, "pending") \/ c = tool[w].card
      BY <1>0, <3>1, Sending
    <3> QED
      BY <2>1, <3>1, <3>2 DEF Asked, ToolAt
  <2>4. ASSUME NEW w \in Tools, Expire(w) PROVE Asked(c)
    <3>1. tool[w].card \in Cards /\ \E s \in Statuses : Send(tool[w].card, s)
      BY <1>0, <2>4 DEF Expire, At, Statuses
    <3> QED
      BY <2>2, <3>1
  <2>5. ASSUME NEW w \in Tools, GiveUp(w) PROVE Asked(c)
    <3> DEFINE e == [card |-> tool[w].card, status |-> "expired"]
    <3>1. chan' = chan \/ chan' = Append(chan, e)
      BY <2>5 DEF GiveUp
    <3>2. e \in Events /\ e.status # "pending"
      BY <1>0, <2>5 DEF GiveUp, Events, Statuses
    <3> HIDE DEF e
    <3>3. In(Append(chan, e), c, "pending") => In(chan, c, "pending")
      BY <1>0, <3>2, Appended
    <3> QED
      BY <2>1, <3>1, <3>3
  <2>6. ASSUME NEW j \in Jobs, Settle(j) PROVE Asked(c)
    <3>1. PICK d \in job[j].cards : Send(d, job[j].how)
      BY <2>6 DEF Settle
    <3>2. d \in Cards /\ job[j].how \in Statuses
      BY <1>0 DEF Types, JobStates
    <3> QED
      BY <2>2, <3>1, <3>2
  <2>7. ASSUME Apply PROVE Asked(c)
    <3>1. In(chan', c, "pending") => In(chan, c, "pending")
      BY <1>0, <2>7, Taken DEF Apply
    <3> QED
      BY <2>1, <3>1
  <2>8. ASSUME Close PROVE Asked(c)
    BY <2>1, <2>8 DEF Close, In
  <2>9. ASSUME Interrupt PROVE Asked(c)
    <3> DEFINE inputs == {tool[w].card : w \in {v \in Tools : tool[v].kind = "input"}}
               closing == {a \in pending : a.card \in inputs}
    <3>1. PICK sent \in SUBSET CardsOf(closing) :
                chan' = chan \o SetToSeq({[card |-> d, status |-> "expired"] : d \in sent})
      BY <2>9 DEF Interrupt
    <3>2. closing \in SUBSET pending
      OBVIOUS
    <3> HIDE DEF closing, inputs
    <3>3. sent \in SUBSET Cards
      <4>1. CardsOf(closing) \in SUBSET Cards
        BY <1>0, <3>2, TakenCards
      <4> QED
        BY <4>1
    <3> DEFINE r == chan \o SetToSeq({[card |-> d, status |-> "expired"] : d \in sent})
    <3>4. \A d, s : In(r, d, s) <=> In(chan, d, s) \/ (d \in sent /\ s = "expired")
      BY <1>0, <3>3, Closing
    <3>5. chan' = r
      BY <3>1
    <3> HIDE DEF r
    <3> QED
      BY <2>1, <3>4, <3>5
  <2>10. ASSUME chan' = chan PROVE Asked(c)
    BY <2>1, <2>10
  <2> QED
    BY <2>3, <2>4, <2>5, <2>6, <2>7, <2>8, <2>9, <2>10
    DEF Next, Tool, Decide, Classify, Insert, Check, Rechecked, Receive, Timeout, Respond, Join, AnswerInChat,
        SetMode, Recheck, Job, Release, Finish, HandOver, RequestStop, StopDrained, CancelPending, convVars
<1>3. ASSUME ToolAt(c, "publish")' PROVE Asked(c) \/ c \in CardsOf(pending')
  <2>1. PICK v \in Tools : tool'[v].card = c /\ tool'[v].pc = "publish"
    BY <1>3 DEF ToolAt
  <2>2. CASE tool'[v] = tool[v]
    BY <2>1, <2>2 DEF Asked, ToolAt
  <2>3. ASSUME NEW w \in Tools, NEW pc \in ToolSteps \ {"publish"}, Goes(w, pc) PROVE tool'[v] = tool[v]
    BY <1>0, <2>1, <2>3, GoesOn
  <2>4. ASSUME NEW w \in Tools, Insert(w) PROVE Asked(c) \/ c \in CardsOf(pending')
    <3>1. tool'[v] = tool[v] \/ tool'[v].card = next
      BY <1>0, <2>4 DEF Insert, ToolStates
    <3>2. next \in CardsOf(pending')
      <4> DEFINE a == [card |-> next, kind |-> tool[w].kind, mode |-> tool[w].mode]
      <4>1. a.card = next /\ a \in pending'
        BY <2>4 DEF Insert
      <4> QED
        BY <4>1 DEF CardsOf
    <3> QED
      BY <2>1, <2>2, <3>1, <3>2
  <2>5. ASSUME NEW w \in Tools, Decide(w) PROVE tool'[v] = tool[v]
    <3>1. CASE Goes(w, "done")
      BY <2>3, <3>1 DEF ToolSteps
    <3>2. CASE tool' = [tool EXCEPT ![w].mode = meta.mode,
                                    ![w].pc = IF tool[w].kind = "policy" THEN "classify" ELSE "insert"]
      BY <1>0, <2>1, <3>2 DEF ToolStates
    <3> QED
      BY <2>5, <3>1, <3>2 DEF Decide
  <2>6. ASSUME NEW w \in Tools, \/ Classify(w) \/ Publish(w) \/ Check(w) \/ Rechecked(w)
                                \/ Receive(w) \/ Timeout(w) \/ Expire(w) \/ GiveUp(w)
        PROVE  tool'[v] = tool[v]
    <3>1. \E pc \in ToolSteps \ {"publish"} : Goes(w, pc)
      BY <2>6 DEF ToolSteps, Classify, Publish, Check, Rechecked, Receive, Timeout, Expire, GiveUp
    <3> QED
      BY <2>3, <3>1
  <2>7. ASSUME Interrupt PROVE FALSE
    BY <1>0, <2>1, <2>7 DEF Interrupt, ToolStates
  <2>8. \/ tool' = tool \/ Interrupt
        \/ \E w \in Tools : Tool(w) \/ GiveUp(w)
    BY DEF Next, Respond, Join, AnswerInChat, SetMode, Recheck, Job, Settle, Release, Apply, Finish, HandOver,
           RequestStop, StopDrained, CancelPending, Close
  <2> QED
    BY <2>2, <2>4, <2>5, <2>6, <2>7, <2>8 DEF Tool
<1> QED
  BY <1>1, <1>2, <1>3 DEF Asked

LEMMA SomebodySettlesStep ==
    ASSUME Base, ShownOnce, SentFirst, SomebodySettles, Next
    PROVE  SomebodySettles'
<1> SUFFICES ASSUME NEW c \in Cards, Asked(c)'
             PROVE  Settles(c)'
  BY DEF SomebodySettles
<1>1. CASE c \in CardsOf(pending')
  BY <1>1 DEF Settles, InFlight
<1>2. CASE Asked(c) /\ Settles(c)
  <2>1. CASE Landed(c)
    BY <2>1, LandedStays DEF Settles
  <2>2. CASE c \in CardsOf(pending) /\ ~CancelPending
    BY <2>2, TableHandsOn
  <2>3. CASE c \in CardsOf(pending) /\ CancelPending
    <3>1. conv'[c] # "pending"
      BY <2>3 DEF CancelPending
    <3>2. ~ShowSent(c)'
      BY <2>3 DEF CancelPending, ShownOnce, ShowSent, Sent
    <3>3. ~ToolAt(c, "publish")'
      BY <2>3 DEF CancelPending, Base, Driven, ToolAt
    <3> QED
      BY <3>1, <3>2, <3>3 DEF Asked
  <2>4. ASSUME NEW j \in Jobs, c \in job[j].cards PROVE Settles(c)'
    BY <2>4, SettlementHandsOn
  <2>5. ASSUME NEW w \in Tools, tool[w].card = c, tool[w].pc = "expire" PROVE Settles(c)'
    BY <2>5, ExpiryHandsOn
  <2>6. ASSUME NEW i \in 1..Len(chan), chan[i].card = c, chan[i].status # "pending" PROVE Landed(c)
    <3>1. chan[i] \in Events
      BY DEF Base, Types
    <3>2. chan[i].status \in Statuses
      BY <2>6, <3>1 DEF Events
    <3> QED
      BY <2>6, <3>2 DEF Landed, SettleSent, Sent, In
  <2> QED
    BY <1>2, <2>1, <2>2, <2>3, <2>4, <2>5, <2>6 DEF Settles, InFlight
<1> QED
  BY <1>1, <1>2, AskedBefore DEF SomebodySettles

\* A card the conversation shows as open can be answered, or its resolution is on the
\* way: an answer, a timeout, a stop or an abandoned call leaves none behind that
\* nobody can settle, but for the resolutions that were lost.
THEOREM NoCardStaysOpen == Spec => []OpenCardsSettle
<1>1. Init => SomebodySettles
  <2> SUFFICES ASSUME Init PROVE SomebodySettles
    OBVIOUS
  <2>1. \A c \in Cards : conv[c] = "none"
    BY DEF Init
  <2>2. \A c \in Cards : ~ShowSent(c)
    BY DEF Init, ShowSent, Sent, In
  <2>3. \A c \in Cards : ~ToolAt(c, "publish")
    BY DEF Init, ToolAt
  <2> QED
    BY <2>1, <2>2, <2>3 DEF SomebodySettles, Asked
<1>2. Base /\ ShownOnce /\ SentFirst /\ SomebodySettles /\ [Next]_vars => SomebodySettles'
  <2>1. ASSUME Base, ShownOnce, SentFirst, SomebodySettles, Next PROVE SomebodySettles'
    BY <2>1, SomebodySettlesStep
  <2>2. ASSUME SomebodySettles, UNCHANGED vars PROVE SomebodySettles'
    BY <2>2 DEF vars, convVars, SomebodySettles, Asked, Settles, InFlight, ShowSent, ToolAt, Landed, Shown,
                SettleSent, Sent, CardsOf
  <2> QED
    BY <2>1, <2>2
<1>3. SomebodySettles => OpenCardsSettle
  <2> SUFFICES ASSUME SomebodySettles, NEW c \in Cards \ adrift, conv[c] = "pending"
               PROVE  InFlight(c)
    BY DEF OpenCardsSettle
  <2>1. Settles(c)
    BY DEF SomebodySettles, Asked
  <2>2. ASSUME SettleSent(c) PROVE InFlight(c)
    BY <2>2 DEF SettleSent, Sent, In, InFlight, Statuses
  <2> QED
    BY <2>1, <2>2 DEF Settles, Landed, Shown, Statuses
<1> QED
  BY <1>1, <1>2, <1>3, SentAlways, PTL DEF Spec
=============================================================================
