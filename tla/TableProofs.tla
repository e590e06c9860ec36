----------------------------- MODULE TableProofs -----------------------------
(***************************************************************************)
(* Safety of SessionTable for any requests, any number of sessions, and    *)
(* any of the gaps between two awaits.                                     *)
(*                                                                         *)
(* The creation lock is what the argument rests on: whoever holds it knows *)
(* that no session is live, and sessions are listed by nobody else.  What  *)
(* a /new has detached is listed nowhere, and a request joins only what is *)
(* listed.                                                                 *)
(***************************************************************************)
EXTENDS SessionTable, FiniteSetTheorems, TLAPS

-----------------------------------------------------------------------------
(***************************************************************************)
(* The inductive invariant.                                                *)
(***************************************************************************)
\* The requests that have arrived; each has drawn a name at most, and so has each
\* session.
Arrived == {r \in Requests : req[r].pc # "away"}
NamesFit == names <= created + Cardinality(Arrived)

\* A conversation that was stored has a thread.
Started(c) == c \in Sessions /\ convs[c].thread # 0

\* What a request has at hand.
RequestFits(r) ==
    /\ req[r].conv # 0 => Started(req[r].conv)
    /\ req[r].cont => req[r].conv # 0
    /\ req[r].left # 0 => Started(req[r].left)
    /\ req[r].pc # "away" => req[r].name # 0
    /\ req[r].pc = "send" => req[r].at # 0 /\ req[r].at <= created

\* A session has its name and its conversation from its first day.
SessionFits(k) ==
    IF k <= created THEN sess[k].name # 0 /\ Started(sess[k].conv) ELSE sess[k] = NoSession

Kept ==
    /\ TypeOK /\ NamesFit
    /\ source # 0 => Started(source)
    /\ \A r \in Requests : RequestFits(r)
    /\ \A k \in Sessions : SessionFits(k)

\* A session is listed under its own name, and one that was told to finish is not there
\* to be joined.
Listed ==
    \A n \in Names : table[n] # 0 =>
        table[n] <= created /\ sess[table[n]].name = n /\ ~sess[table[n]].finish

Holds(r) == req[r].pc \in {"past", "create"}

\* Whoever holds the creation lock holds it alone and has no session to join.
LockFits ==
    /\ \A q, r \in Requests : Holds(q) /\ Holds(r) => q = r
    /\ \A r \in Requests : Holds(r) => \A n \in Names : ~Live(n)
    /\ \A r \in Requests : req[r].pc = "create" => created < MaxSessions

OneLive == \A m, n \in Names : Live(m) /\ Live(n) => m = n

\* What was finishing when a request arrived still is, and is not what it has joined.
BeforeFits ==
    \A r \in Requests : \A k \in before[r].sessions :
        k <= created /\ sess[k].finish /\ req[r].at # k

IndInv == Kept /\ Listed /\ LockFits /\ OneLive /\ BeforeFits

-----------------------------------------------------------------------------
(***************************************************************************)
(* What a step may do.                                                     *)
(***************************************************************************)
Convs == [thread : Names \cup {0}, open : BOOLEAN]
Sesses == [conv : 0..MaxSessions, name : Names \cup {0}, life : Lives,
           inbox : SUBSET Requests, finish : BOOLEAN]
Reqs == [pc : Steps, cmd : Commands \cup {"plain"}, conv : 0..MaxSessions, cont : BOOLEAN,
         name : Names \cup {0}, at : 0..MaxSessions, left : 0..MaxSessions,
         detached : BOOLEAN, built : BOOLEAN]

\* No session is created, named or listed.
NothingNew ==
    /\ UNCHANGED <<created, names, before>>
    /\ source' \in 0..MaxSessions /\ (source' # 0 => Started(source'))
    /\ convs' \in [Sessions -> Convs]
    /\ \A c \in Sessions : convs'[c].thread = convs[c].thread
    /\ sess' \in [Sessions -> Sesses]
    /\ \A k \in Sessions :
          /\ sess'[k].conv = sess[k].conv /\ sess'[k].name = sess[k].name
          /\ sess[k].finish => sess'[k].finish
          /\ sess'[k].life = "open" => sess[k].life = "open"
          /\ k > created => sess'[k] = sess[k]
    /\ table' \in [Names -> 0..MaxSessions]
    /\ \A n \in Names : table'[n] # 0 => table'[n] = table[n] /\ ~sess'[table[n]].finish
    /\ served' \subseteq Requests

\* A request goes on: it may take the creation lock when it is free and nothing is live.
GoesOn(r) ==
    /\ req' \in [Requests -> Reqs]
    /\ \A q \in Requests \ {r} : req'[q] = req[q]
    /\ req[r].pc # "away" /\ req'[r].pc # "away"
    /\ req'[r].conv = req[r].conv /\ req'[r].name = req[r].name /\ req'[r].cont = req[r].cont
    /\ req'[r].left # 0 => Started(req'[r].left)
    /\ req'[r].pc = "send" => req'[r].at # 0 /\ req'[r].at <= created
    /\ Holds(r)' => (Holds(r) \/ LockFree) /\ \A n \in Names : ~Live(n)'
    /\ req'[r].pc = "create" => created < MaxSessions
    /\ req'[r].at \notin before[r].sessions

LEMMA SizeFits == Cardinality(Requests) \in Nat /\ Names \subseteq Nat /\ 0 \notin Names
BY FS_CardinalityType, TableAssumption DEF Names

LEMMA NothingLivesAnew ==
    ASSUME IndInv, NothingNew
    PROVE  /\ \A n \in Names : Live(n)' => Live(n) /\ table'[n] = table[n]
           /\ \A c : Started(c) => Started(c)'
<1>1. \A n \in Names : table[n] # 0 => table[n] \in Sessions
  BY DEF IndInv, Kept, TypeOK, Sessions
<1>. QED
  BY <1>1 DEF NothingNew, Live, Started

\* What only concerns the table and the sessions.
LEMMA TableStep ==
    ASSUME IndInv, NothingNew
    PROVE  Listed' /\ OneLive' /\ (\A k \in Sessions : SessionFits(k)')
           /\ (source # 0 => Started(source))'
<1>1. \A n \in Names : table[n] # 0 => table[n] \in Sessions
  BY DEF IndInv, Kept, TypeOK, Sessions
<1>2. Listed'
  BY <1>1 DEF IndInv, Listed, NothingNew
<1>3. OneLive'
  BY NothingLivesAnew DEF IndInv, OneLive
<1>4. ASSUME NEW k \in Sessions PROVE SessionFits(k)'
  <2>1. /\ sess'[k].conv = sess[k].conv /\ sess'[k].name = sess[k].name /\ created' = created
        /\ k > created => sess'[k] = sess[k]
    BY DEF NothingNew
  <2>2. CASE k <= created
    <3>1. sess[k].name # 0 /\ sess[k].conv \in Sessions /\ convs[sess[k].conv].thread # 0
      BY <2>2 DEF IndInv, Kept, SessionFits, Started
    <3>2. convs'[sess[k].conv].thread # 0
      BY <3>1 DEF NothingNew
    <3>. QED
      BY <2>1, <2>2, <3>1, <3>2 DEF SessionFits, Started
  <2>3. CASE ~(k <= created)
    <3>1. k > created
      BY <2>3 DEF IndInv, Kept, TypeOK, Sessions
    <3>. QED
      BY <2>1, <2>3, <3>1 DEF IndInv, Kept, SessionFits
  <2>. QED
    BY <2>2, <2>3
<1>5. (source # 0 => Started(source))'
  BY NothingLivesAnew DEF NothingNew
<1>. QED
  BY <1>2, <1>3, <1>4, <1>5

LEMMA RequestStep ==
    ASSUME IndInv, NothingNew, NEW r \in Requests, GoesOn(r)
    PROVE  IndInv'
<1>1. TypeOK'
  BY DEF IndInv, Kept, TypeOK, NothingNew, GoesOn, Convs, Sesses, Reqs
<1>2. NamesFit'
  <2>1. Arrived' = Arrived
    BY DEF Arrived, GoesOn
  <2>. QED
    BY <2>1 DEF IndInv, Kept, NamesFit, NothingNew
<1>3. \A q \in Requests : RequestFits(q)'
  BY NothingLivesAnew DEF IndInv, Kept, RequestFits, NothingNew, GoesOn
<1>4. Kept'
  BY <1>1, <1>2, <1>3, TableStep DEF Kept
<1>5. LockFits'
  <2>1. \A p, q \in Requests : Holds(p)' /\ Holds(q)' => p = q
    <3>1. Holds(r)' => \A q \in Requests \ {r} : ~Holds(q)
      BY DEF GoesOn, LockFree, Holds, IndInv, LockFits
    <3>2. \A q \in Requests \ {r} : Holds(q)' = Holds(q)
      BY DEF GoesOn, Holds
    <3>. QED
      BY <3>1, <3>2 DEF IndInv, LockFits
  <2>2. \A q \in Requests : Holds(q)' => \A n \in Names : ~Live(n)'
    BY NothingLivesAnew DEF IndInv, LockFits, GoesOn, Holds
  <2>3. \A q \in Requests : req'[q].pc = "create" => created' < MaxSessions
    BY DEF IndInv, LockFits, GoesOn, NothingNew
  <2>. QED
    BY <2>1, <2>2, <2>3 DEF LockFits
<1>6. BeforeFits'
  <2>1. \A q \in Requests : before[q].sessions \subseteq Sessions
    BY DEF IndInv, Kept, TypeOK
  <2>2. \A q \in Requests : \A k \in before[q].sessions :
            k <= created' /\ sess'[k].finish /\ req'[q].at # k
    BY <2>1 DEF IndInv, BeforeFits, GoesOn, NothingNew
  <2>. QED
    BY <2>2 DEF BeforeFits, NothingNew
<1>. QED
  BY <1>4, <1>5, <1>6, TableStep DEF IndInv

LEMMA RunnerStep ==
    ASSUME IndInv, NothingNew, UNCHANGED req
    PROVE  IndInv'
<1>1. TypeOK'
  BY DEF IndInv, Kept, TypeOK, NothingNew, Convs, Sesses
<1>2. NamesFit'
  BY DEF IndInv, Kept, NamesFit, NothingNew, Arrived
<1>3. \A q \in Requests : RequestFits(q)'
  BY NothingLivesAnew DEF IndInv, Kept, RequestFits, NothingNew
<1>4. Kept'
  BY <1>1, <1>2, <1>3, TableStep DEF Kept
<1>5. LockFits'
  BY NothingLivesAnew DEF IndInv, LockFits, Holds, NothingNew
<1>6. BeforeFits'
  BY DEF IndInv, BeforeFits, NothingNew, Kept, TypeOK
<1>. QED
  BY <1>4, <1>5, <1>6, TableStep DEF IndInv

-----------------------------------------------------------------------------
(***************************************************************************)
(* The requests, one lemma per action.                                     *)
(***************************************************************************)
\* The same without a change of the sessions or the table.
LEMMA WorldStays ==
    ASSUME IndInv, UNCHANGED <<source, convs, table, sess, created, names, histVars>>
    PROVE  NothingNew
<1>1. \A n \in Names : table[n] # 0 => ~sess[table[n]].finish
  BY DEF IndInv, Listed
<1>. QED
  BY <1>1 DEF IndInv, Kept, TypeOK, NothingNew, Convs, Sesses, histVars

\* What may be joined is live under its name, and nothing else is live.
LEMMA JoinableIsListed ==
    ASSUME IndInv, NEW r \in Requests, NEW k \in Sessions, k \in Joinable(req[r].name),
           req[r].pc # "away"
    PROVE  /\ sess[k].name \in Names /\ table[sess[k].name] = k /\ sess[k].life = "open"
           /\ k <= created /\ ~sess[k].finish
           /\ \A n \in Names : Live(n) => n = sess[k].name
<1>1. PICK n : n \in Names /\ Live(n) /\ table[n] = k
  <2>1. CASE Live(req[r].name)
    BY <2>1 DEF Joinable, IndInv, Kept, TypeOK, RequestFits
  <2>2. CASE ~Live(req[r].name)
    BY <2>2 DEF Joinable
  <2>. QED
    BY <2>1, <2>2
<1>2. k # 0
  BY DEF Sessions
<1>. QED
  BY <1>1, <1>2 DEF IndInv, Listed, OneLive, Live

LEMMA NothingJoinable ==
    ASSUME NEW r \in Requests, Joinable(req[r].name) = {}
    PROVE  \A n \in Names : ~Live(n)
BY DEF Joinable

\* Who found nothing to join.
LEMMA UnjoinedIsAlone ==
    ASSUME IndInv, NEW r \in Requests, Unjoined(r)
    PROVE  /\ \A n \in Names : ~Live(n)
           /\ Holds(r) \/ LockFree
           /\ req[r].pc \in {"look", "past"}
BY NothingJoinable DEF Unjoined, Looking, IndInv, LockFits, Holds

\* A request goes elsewhere, with what it has.
LEMMA Moves ==
    ASSUME IndInv, NEW r \in Requests, req[r].pc # "away",
           NEW pc \in Steps \ {"away", "send", "past", "create"}, NEW built \in BOOLEAN,
           req' = [req EXCEPT ![r].pc = pc, ![r].built = built]
    PROVE  GoesOn(r)
<1>. DEFINE x == [req[r] EXCEPT !.pc = pc, !.built = built]
<1>2. req \in [Requests -> Reqs]
  BY DEF IndInv, Kept, TypeOK, Reqs
<1>1. req' \in [Requests -> Reqs]
  <2>1. x \in Reqs
    BY <1>2 DEF Reqs
  <2>2. req' = [req EXCEPT ![r] = x]
    BY <1>2
  <2>. QED
    BY <1>2, <2>1, <2>2
<1>3. /\ req'[r].pc = pc /\ req'[r].conv = req[r].conv /\ req'[r].name = req[r].name
      /\ req'[r].left = req[r].left /\ req'[r].at = req[r].at /\ req'[r].cont = req[r].cont
      /\ \A q \in Requests \ {r} : req'[q] = req[q]
  BY <1>2 DEF Reqs
<1>4. req[r].at \notin before[r].sessions
  BY DEF IndInv, BeforeFits
<1>. QED
  BY <1>1, <1>3, <1>4 DEF GoesOn, Holds, IndInv, Kept, RequestFits

\* A name is taken out of the table.
LEMMA TableShrinks ==
    ASSUME IndInv, NEW k, table' = Unlisted(k)
    PROVE  /\ table' \in [Names -> 0..MaxSessions]
           /\ \A n \in Names : table'[n] # 0 => table'[n] = table[n] /\ n # sess[k].name
<1>1. table \in [Names -> 0..MaxSessions] /\ 0 \in 0..MaxSessions
  BY TableAssumption DEF IndInv, Kept, TypeOK
<1>. DEFINE name == sess[k].name
<1>2. table' = [table EXCEPT ![name] = 0]
  BY DEF Unlisted
<1>. HIDE DEF name
<1>3. /\ table' \in [Names -> 0..MaxSessions]
      /\ \A n \in Names : table'[n] = IF n = name THEN 0 ELSE table[n]
  BY <1>1, <1>2
<1>4. \A n \in Names : table'[n] # 0 => table'[n] = table[n] /\ n # name
  BY <1>3
<1>. QED
  BY <1>3, <1>4 DEF name

\* A created session moves on.
MovesOn(k) ==
    /\ sess' \in [Sessions -> Sesses]
    /\ \A j \in Sessions \ {k} : sess'[j] = sess[j]
    /\ sess'[k].conv = sess[k].conv /\ sess'[k].name = sess[k].name
    /\ sess'[k].finish = sess[k].finish
    /\ sess'[k].life = "open" => sess[k].life = "open"

LEMMA SessionMoves ==
    ASSUME IndInv, NEW k \in Sessions, k <= created, MovesOn(k),
           UNCHANGED <<created, names, before>>,
           source' \in 0..MaxSessions, source' # 0 => Started(source'),
           convs' \in [Sessions -> Convs],
           \A c \in Sessions : convs'[c].thread = convs[c].thread,
           table' = table \/ table' = Unlisted(k),
           served' \subseteq Requests
    PROVE  NothingNew
<1>1. \A j \in Sessions : j > created => j # k
  BY DEF Sessions, IndInv, Kept, TypeOK
<1>2. \A j \in Sessions :
          /\ sess'[j].conv = sess[j].conv /\ sess'[j].name = sess[j].name
          /\ sess'[j].finish = sess[j].finish
          /\ sess'[j].life = "open" => sess[j].life = "open"
          /\ j > created => sess'[j] = sess[j]
  BY <1>1 DEF MovesOn
<1>3. \A n \in Names : table[n] # 0 => table[n] \in Sessions /\ ~sess[table[n]].finish
  BY DEF IndInv, Kept, TypeOK, Listed, Sessions
<1>4. /\ table' \in [Names -> 0..MaxSessions]
      /\ \A n \in Names : table'[n] # 0 => table'[n] = table[n]
  BY TableShrinks DEF IndInv, Kept, TypeOK
<1>5. \A n \in Names : table'[n] # 0 => table'[n] = table[n] /\ ~sess'[table[n]].finish
  BY <1>2, <1>3, <1>4
<1>. QED
  BY <1>2, <1>4, <1>5 DEF NothingNew, MovesOn

\* A session is handed a request, and nothing else happens.
LEMMA InboxGrows ==
    ASSUME IndInv, NEW k \in Sessions, k <= created, NEW r \in Requests,
           sess' = [sess EXCEPT ![k].inbox = @ \cup {r}],
           UNCHANGED <<source, convs, table, created, names, histVars>>
    PROVE  NothingNew
<1>1. sess \in [Sessions -> Sesses]
  BY DEF IndInv, Kept, TypeOK, Sesses
<1>2. MovesOn(k)
  BY <1>1 DEF MovesOn, Sesses
<1>. QED
  BY <1>2, SessionMoves DEF IndInv, Kept, TypeOK, Convs, histVars

LEMMA LookJoinsKeeps ==
    ASSUME NEW r \in Requests, NEW k \in Sessions, IndInv, LookJoins(r, k) PROVE IndInv'
<1>1. /\ req[r].pc = "look" /\ req \in [Requests -> Reqs] /\ sess \in [Sessions -> Sesses]
  BY DEF LookJoins, Looking, IndInv, Kept, TypeOK, Reqs, Sesses
<1>2. /\ k <= created /\ k # 0 /\ ~sess[k].finish
  BY <1>1, JoinableIsListed DEF LookJoins, Sessions
<1>3. k \notin before[r].sessions
  BY <1>2 DEF IndInv, BeforeFits
<1>4. PICK pc \in {"send", "done"} : req' = [req EXCEPT ![r].pc = pc, ![r].at = k]
  BY DEF LookJoins
<1>5. GoesOn(r)
  <2>. DEFINE x == [req[r] EXCEPT !.pc = pc, !.at = k]
  <2>1. x \in Reqs /\ x.pc = pc /\ x.at = k /\ x.conv = req[r].conv
        /\ x.cont = req[r].cont /\ x.name = req[r].name
        /\ x.left = req[r].left
    <3>1. k \in 0..MaxSessions /\ pc \in Steps
      BY TableAssumption DEF Sessions, Steps
    <3>. QED
      BY <1>1, <3>1 DEF Reqs
  <2>2. req' = [req EXCEPT ![r] = x]
    BY <1>1, <1>4
  <2>3. req' \in [Requests -> Reqs] /\ req'[r] = x /\ \A q \in Requests \ {r} : req'[q] = req[q]
    BY <1>1, <2>1, <2>2
  <2>. HIDE DEF x
  <2>. QED
    BY <1>1, <1>2, <1>3, <2>1, <2>3 DEF GoesOn, Holds, IndInv, Kept, RequestFits
<1>6. NothingNew
  <2>1. CASE sess' = sess
    BY <2>1, WorldStays DEF LookJoins
  <2>2. CASE sess' = [sess EXCEPT ![k].inbox = @ \cup {r}]
    BY <1>2, <2>2, InboxGrows DEF LookJoins
  <2>. QED
    BY <2>1, <2>2 DEF LookJoins
<1>. QED
  BY <1>5, <1>6, RequestStep

LEMMA LookDetachesKeeps ==
    ASSUME NEW r \in Requests, NEW k \in Sessions, IndInv, LookDetaches(r, k) PROVE IndInv'
<1>1. /\ req[r].pc = "look" /\ req \in [Requests -> Reqs] /\ sess \in [Sessions -> Sesses]
      /\ LockFree
  BY DEF LookDetaches, Looking, IndInv, Kept, TypeOK, Reqs, Sesses
<1>2. /\ sess[k].name \in Names /\ table[sess[k].name] = k /\ k <= created
      /\ \A n \in Names : Live(n) => n = sess[k].name
  BY <1>1, JoinableIsListed DEF LookDetaches
<1>3. table' = [table EXCEPT ![sess[k].name] = 0] /\ sess' = [sess EXCEPT ![k].finish = TRUE]
  BY DEF LookDetaches, Unlisted, Finishing
<1>4. NothingNew
  <2>1. /\ table' \in [Names -> 0..MaxSessions]
        /\ \A n \in Names : table'[n] # 0 => n # sess[k].name /\ table'[n] = table[n]
    BY TableShrinks DEF LookDetaches
  <2>2. \A n \in Names : table'[n] # 0 => ~sess[table[n]].finish /\ table[n] # k
    BY <1>2, <2>1 DEF IndInv, Listed
  <2>3. \A n \in Names : table'[n] # 0 => table'[n] = table[n] /\ ~sess'[table[n]].finish
    BY <1>1, <1>3, <2>1, <2>2
  <2>4. /\ sess' \in [Sessions -> Sesses]
        /\ \A j \in Sessions :
              /\ sess'[j].conv = sess[j].conv /\ sess'[j].name = sess[j].name
              /\ sess[j].finish => sess'[j].finish
              /\ sess'[j].life = "open" => sess[j].life = "open"
              /\ j # k => sess'[j] = sess[j]
    BY <1>1, <1>3 DEF Sesses
  <2>5. \A j \in Sessions : j > created => j # k
    BY <1>2 DEF Sessions, IndInv, Kept, TypeOK
  <2>. QED
    BY <2>1, <2>3, <2>4, <2>5
       DEF LookDetaches, IndInv, Kept, TypeOK, NothingNew, Convs, histVars
<1>5. \A n \in Names : ~Live(n)'
  BY <1>2, <1>3, <1>4, NothingLivesAnew DEF Live, IndInv, Kept, TypeOK
<1>6. GoesOn(r)
  <2>. DEFINE pc == IF sess[k].conv = req[r].conv THEN "past" ELSE "look"
              x == [req[r] EXCEPT !.left = sess[k].conv, !.detached = TRUE, !.pc = pc]
  <2>1. pc \in {"past", "look"}
    OBVIOUS
  <2>2. req' = [req EXCEPT ![r] = x]
    BY <1>1 DEF LookDetaches, ConversationOf
  <2>. HIDE DEF pc
  <2>3. x \in Reqs /\ x.pc = pc /\ x.at = req[r].at /\ x.conv = req[r].conv
        /\ x.cont = req[r].cont
        /\ x.name = req[r].name /\ x.left = sess[k].conv
    BY <1>1, <2>1 DEF Reqs, Steps, Sesses
  <2>4. req' \in [Requests -> Reqs] /\ req'[r] = x /\ \A q \in Requests \ {r} : req'[q] = req[q]
    BY <1>1, <2>2, <2>3
  <2>5. Started(sess[k].conv)
    BY <1>2 DEF IndInv, Kept, SessionFits
  <2>6. req[r].at \notin before[r].sessions
    BY DEF IndInv, BeforeFits
  <2>. HIDE DEF x
  <2>. QED
    BY <1>1, <1>5, <2>1, <2>3, <2>4, <2>5, <2>6 DEF GoesOn, Holds
<1>. QED
  BY <1>4, <1>6, RequestStep

\* The steps that change nothing but where the request is.
LEMMA LookBuildsKeeps == ASSUME NEW r \in Requests, IndInv, LookBuilds(r) PROVE IndInv'
<1>1. req[r].pc # "away" /\ req \in [Requests -> Reqs]
  BY UnjoinedIsAlone DEF LookBuilds, IndInv, Kept, TypeOK, Reqs
<1>2. req' = [req EXCEPT ![r].pc = "build", ![r].built = req[r].built] /\ req[r].built \in BOOLEAN
  BY <1>1 DEF LookBuilds, Goto, Reqs
<1>3. GoesOn(r)
  BY <1>1, <1>2, Moves DEF Steps
<1>. QED
  BY <1>3, WorldStays, RequestStep DEF LookBuilds

LEMMA BuiltKeeps == ASSUME NEW r \in Requests, IndInv, Built(r) PROVE IndInv'
<1>1. GoesOn(r)
  BY Moves DEF Built, Steps
<1>. QED
  BY <1>1, WorldStays, RequestStep DEF Built

LEMMA RefusedGoesOn ==
    ASSUME NEW r \in Requests, IndInv, req[r].pc # "away", NEW pc \in {"done", "refused"},
           Goto(r, pc)
    PROVE  GoesOn(r)
<1>1. req \in [Requests -> Reqs]
  BY DEF IndInv, Kept, TypeOK, Reqs
<1>2. req' = [req EXCEPT ![r].pc = pc, ![r].built = req[r].built] /\ req[r].built \in BOOLEAN
  BY <1>1 DEF Goto, Reqs
<1>. QED
  BY <1>2, Moves DEF Steps

LEMMA BuildFailsKeeps == ASSUME NEW r \in Requests, IndInv, BuildFails(r) PROVE IndInv'
BY RefusedGoesOn, WorldStays, RequestStep DEF BuildFails

LEMMA LookRefusesKeeps == ASSUME NEW r \in Requests, IndInv, LookRefuses(r) PROVE IndInv'
BY UnjoinedIsAlone, RefusedGoesOn, WorldStays, RequestStep DEF LookRefuses

LEMMA LookCreatesKeeps == ASSUME NEW r \in Requests, IndInv, LookCreates(r) PROVE IndInv'
<1>1. /\ req[r].pc # "away" /\ req \in [Requests -> Reqs]
      /\ (\A n \in Names : ~Live(n)) /\ (Holds(r) \/ LockFree)
  BY UnjoinedIsAlone DEF LookCreates, IndInv, Kept, TypeOK, Reqs
<1>2. NothingNew
  BY WorldStays DEF LookCreates
<1>3. \A n \in Names : ~Live(n)'
  BY <1>1, <1>2, NothingLivesAnew
<1>4. GoesOn(r)
  <2>. DEFINE x == [req[r] EXCEPT !.pc = "create"]
  <2>1. x \in Reqs /\ x.pc = "create" /\ x.at = req[r].at /\ x.conv = req[r].conv
        /\ x.cont = req[r].cont
        /\ x.name = req[r].name /\ x.left = req[r].left
    BY <1>1 DEF Reqs, Steps
  <2>2. req' \in [Requests -> Reqs] /\ req'[r] = x /\ \A q \in Requests \ {r} : req'[q] = req[q]
    BY <1>1, <2>1 DEF LookCreates, Goto
  <2>3. req[r].at \notin before[r].sessions /\ created < MaxSessions
    BY DEF IndInv, BeforeFits, LookCreates
  <2>. HIDE DEF x
  <2>. QED
    BY <1>1, <1>3, <2>1, <2>2, <2>3 DEF GoesOn, IndInv, Kept, RequestFits
<1>. QED
  BY <1>2, <1>4, RequestStep

LEMMA CompletedStarts ==
    ASSUME NEW r \in Requests, IndInv
    PROVE  /\ Completed(r) \in [Sessions -> Convs]
           /\ \A c \in Sessions : Completed(r)[c].thread = convs[c].thread
<1>1. convs \in [Sessions -> Convs]
  BY DEF IndInv, Kept, TypeOK, Convs
<1>. QED
  BY <1>1 DEF Completed, Convs

LEMMA LookEndsKeeps == ASSUME NEW r \in Requests, IndInv, LookEnds(r) PROVE IndInv'
<1>1. req[r].pc # "away"
  BY UnjoinedIsAlone DEF LookEnds
<1>2. GoesOn(r)
  BY <1>1, RefusedGoesOn DEF LookEnds
<1>3. source' \in 0..MaxSessions /\ (source' # 0 => Started(source'))
  BY DEF LookEnds, IndInv, Kept, TypeOK, RequestFits
<1>4. \A n \in Names : table[n] # 0 => ~sess[table[n]].finish
  BY DEF IndInv, Listed
<1>5. NothingNew
  BY <1>3, <1>4, CompletedStarts
     DEF LookEnds, NothingNew, IndInv, Kept, TypeOK, Sesses, histVars
<1>. QED
  BY <1>2, <1>5, RequestStep

LEMMA CreateFailsKeeps == ASSUME NEW r \in Requests, IndInv, CreateFails(r) PROVE IndInv'
<1>1. GoesOn(r)
  BY RefusedGoesOn DEF CreateFails
<1>2. \A n \in Names : table[n] # 0 => ~sess[table[n]].finish
  BY DEF IndInv, Listed
<1>3. convs' = convs \/ convs' = Completed(r)
  BY DEF CreateFails
<1>4. NothingNew
  BY <1>2, <1>3, CompletedStarts
     DEF CreateFails, NothingNew, IndInv, Kept, TypeOK, Sesses, Convs, histVars
<1>. QED
  BY <1>1, <1>4, RequestStep

LEMMA SendKeeps == ASSUME NEW r \in Requests, IndInv, Send(r) PROVE IndInv'
<1>. DEFINE k == req[r].at
<1>1. k \in Sessions /\ k <= created /\ sess \in [Sessions -> Sesses]
  BY DEF Send, IndInv, Kept, TypeOK, RequestFits, Sesses, Sessions
<1>2. GoesOn(r)
  BY RefusedGoesOn DEF Send
<1>3. sess' = [sess EXCEPT ![k].inbox = @ \cup {r}]
  BY DEF Send
<1>4. NothingNew
  <2>. HIDE DEF k
  <2>. QED
    BY <1>1, <1>3, InboxGrows DEF Send
<1>. QED
  BY <1>2, <1>4, RequestStep

LEMMA SendRejectedKeeps == ASSUME NEW r \in Requests, IndInv, SendRejected(r) PROVE IndInv'
<1>1. req \in [Requests -> Reqs] /\ req[r].pc = "send"
  BY DEF SendRejected, IndInv, Kept, TypeOK, Reqs
<1>2. GoesOn(r)
  <2>. DEFINE x == [req[r] EXCEPT !.pc = "look", !.at = 0]
  <2>1. x \in Reqs /\ x.pc = "look" /\ x.at = 0 /\ x.conv = req[r].conv
        /\ x.cont = req[r].cont
        /\ x.name = req[r].name /\ x.left = req[r].left
    <3>1. 0 \in 0..MaxSessions /\ "look" \in Steps
      BY TableAssumption DEF Steps
    <3>. QED
      BY <1>1, <3>1 DEF Reqs
  <2>2. req' = [req EXCEPT ![r] = x]
    BY <1>1 DEF SendRejected
  <2>3. req' \in [Requests -> Reqs] /\ req'[r] = x /\ \A q \in Requests \ {r} : req'[q] = req[q]
    BY <1>1, <2>1, <2>2
  <2>4. 0 \notin before[r].sessions
    BY DEF IndInv, Kept, TypeOK, Sessions
  <2>. HIDE DEF x
  <2>. QED
    BY <1>1, <2>1, <2>3, <2>4 DEF GoesOn, Holds, IndInv, Kept, RequestFits
<1>3. NothingNew
  <2>1. \A n \in Names : table[n] # 0 => ~sess[table[n]].finish
    BY DEF IndInv, Listed
  <2>. QED
    BY <2>1, TableShrinks
       DEF SendRejected, IndInv, Kept, TypeOK, NothingNew, Convs, Sesses, histVars
<1>. QED
  BY <1>2, <1>3, RequestStep

-----------------------------------------------------------------------------
(***************************************************************************)
(* The runners.                                                            *)
(***************************************************************************)
LEMMA RunnerIsCreated ==
    ASSUME IndInv, NEW k \in Sessions, sess[k].life # "none"
    PROVE  k <= created /\ Started(sess[k].conv) /\ sess \in [Sessions -> Sesses]
BY DEF IndInv, Kept, TypeOK, SessionFits, NoSession, Sesses

\* The conversation of a session is marked as open or final.
LEMMA ConversationMarked ==
    ASSUME IndInv, NEW k \in Sessions, NEW open \in BOOLEAN,
           convs' = [convs EXCEPT ![sess[k].conv].open = open]
    PROVE  /\ convs' \in [Sessions -> Convs]
           /\ \A c \in Sessions : convs'[c].thread = convs[c].thread
<1>1. convs \in [Sessions -> Convs]
  BY DEF IndInv, Kept, TypeOK, Convs
<1>. QED
  BY <1>1 DEF Convs

LEMMA ServeKeeps == ASSUME NEW k \in Sessions, IndInv, Serve(k) PROVE IndInv'
<1>1. k <= created /\ sess \in [Sessions -> Sesses]
  BY RunnerIsCreated DEF Serve
<1>2. MovesOn(k)
  BY <1>1 DEF Serve, MovesOn, Sesses
<1>3. /\ convs' \in [Sessions -> Convs]
      /\ \A c \in Sessions : convs'[c].thread = convs[c].thread
  BY ConversationMarked DEF Serve
<1>4. source' \in 0..MaxSessions /\ (source' # 0 => Started(source')) /\ served' \subseteq Requests
  BY <1>1 DEF Serve, IndInv, Kept, TypeOK, Sesses
<1>5. NothingNew
  BY <1>1, <1>2, <1>3, <1>4, SessionMoves DEF Serve
<1>. QED
  BY <1>5, RunnerStep DEF Serve

LEMMA RescueKeeps == ASSUME NEW k \in Sessions, IndInv, Rescue(k) PROVE IndInv'
<1>1. k <= created /\ sess \in [Sessions -> Sesses]
  BY RunnerIsCreated DEF Rescue
<1>2. MovesOn(k)
  BY <1>1 DEF Rescue, MovesOn, Sesses, Lives
<1>3. /\ convs' \in [Sessions -> Convs]
      /\ \A c \in Sessions : convs'[c].thread = convs[c].thread
  BY ConversationMarked DEF Rescue
<1>4. source' \in 0..MaxSessions /\ (source' # 0 => Started(source')) /\ served' \subseteq Requests
  BY DEF Rescue, IndInv, Kept, TypeOK, histVars
<1>5. NothingNew
  BY <1>1, <1>2, <1>3, <1>4, SessionMoves DEF Rescue, histVars
<1>. QED
  BY <1>5, RunnerStep DEF Rescue

LEMMA CloseKeeps ==
    ASSUME NEW k \in Sessions, IndInv, Close(k), sess[k].life \in {"open", "rescuing"},
           UNCHANGED <<source, created, names, req, before>>, served' \subseteq Requests
    PROVE  IndInv'
<1>1. k <= created /\ sess \in [Sessions -> Sesses]
  BY RunnerIsCreated
<1>2. MovesOn(k)
  BY <1>1 DEF Close, MovesOn, Sesses, Lives
<1>3. /\ convs' \in [Sessions -> Convs]
      /\ \A c \in Sessions : convs'[c].thread = convs[c].thread
  BY ConversationMarked DEF Close
<1>4. source' \in 0..MaxSessions /\ (source' # 0 => Started(source'))
  BY DEF IndInv, Kept, TypeOK
<1>5. NothingNew
  BY <1>1, <1>2, <1>3, <1>4, SessionMoves DEF Close
<1>. QED
  BY <1>5, RunnerStep

LEMMA EndKeeps == ASSUME NEW k \in Sessions, IndInv, End(k) PROVE IndInv'
BY CloseKeeps DEF End, Idle, histVars, IndInv, Kept, TypeOK

LEMMA AbortKeeps == ASSUME NEW k \in Sessions, IndInv, Abort(k) PROVE IndInv'
<1>1. sess \in [Sessions -> Sesses]
  BY DEF IndInv, Kept, TypeOK, Sesses
<1>2. served' \subseteq Requests
  BY <1>1 DEF Abort, IndInv, Kept, TypeOK, Sesses
<1>. QED
  BY <1>2, CloseKeeps DEF Abort

LEMMA LeaveKeeps == ASSUME NEW k \in Sessions, IndInv, Leave(k) PROVE IndInv'
<1>1. k <= created /\ sess \in [Sessions -> Sesses]
  BY RunnerIsCreated DEF Leave
<1>2. MovesOn(k)
  BY <1>1 DEF Leave, MovesOn, Sesses, Lives
<1>3. NothingNew
  BY <1>1, <1>2, SessionMoves DEF Leave, histVars, IndInv, Kept, TypeOK, Convs
<1>. QED
  BY <1>3, RunnerStep DEF Leave

-----------------------------------------------------------------------------
(***************************************************************************)
(* What is new: a request, and a session.                                  *)
(***************************************************************************)
\* Every name that is drawn is within the bound.
LEMMA RoomForNames ==
    ASSUME IndInv
    PROVE  /\ Cardinality(Arrived) \in Nat
           /\ \A r \in Requests :
                 req[r].pc = "away" =>
                     /\ Cardinality(Arrived \cup {r}) = Cardinality(Arrived) + 1
                     /\ Cardinality(Arrived) + 1 <= Cardinality(Requests)
           /\ Cardinality(Arrived) <= Cardinality(Requests)
<1>1. IsFiniteSet(Requests) /\ Arrived \subseteq Requests
  BY TableAssumption DEF Arrived
<1>2. IsFiniteSet(Arrived) /\ Cardinality(Arrived) <= Cardinality(Requests)
  BY <1>1, FS_Subset
<1>3. Cardinality(Arrived) \in Nat
  BY <1>2, FS_CardinalityType
<1>4. ASSUME NEW r \in Requests, req[r].pc = "away"
      PROVE  /\ Cardinality(Arrived \cup {r}) = Cardinality(Arrived) + 1
             /\ Cardinality(Arrived) + 1 <= Cardinality(Requests)
  <2>1. r \notin Arrived /\ Arrived \cup {r} \subseteq Requests
    BY <1>1, <1>4 DEF Arrived
  <2>2. Cardinality(Arrived \cup {r}) = Cardinality(Arrived) + 1
    BY <1>2, <2>1, FS_AddElement
  <2>3. Cardinality(Arrived \cup {r}) <= Cardinality(Requests)
    BY <1>1, <2>1, FS_Subset
  <2>. QED
    BY <2>2, <2>3
<1>. QED
  BY <1>2, <1>3, <1>4

LEMMA ArriveKeeps ==
    ASSUME NEW r \in Requests, NEW cmd \in Commands, IndInv, Arrive(r, cmd)
    PROVE  IndInv'
<1>. DEFINE fresh == names + 1
            name == IF source = 0 THEN fresh ELSE convs[source].thread
            cont == source # 0 /\ convs[source].open
            x == [Away EXCEPT !.pc = "look", !.cmd = cmd, !.conv = source, !.name = name,
                              !.cont = cont, !.left = source]
            met == [convs |-> {req[q].left : q \in {p \in Requests :
                                   req[p].pc = "done" /\ req[p].cmd = "new"}} \ {0},
                    sessions |-> {k \in Sessions : sess[k].finish}]
<1>1. /\ req[r].pc = "away" /\ req' = [req EXCEPT ![r] = x]
      /\ names' = IF source = 0 THEN fresh ELSE names
      /\ before' = [before EXCEPT ![r] = met]
      /\ UNCHANGED <<source, convs, table, sess, created, served>>
  BY DEF Arrive
<1>2. /\ source \in 0..MaxSessions /\ (source # 0 => Started(source))
      /\ convs \in [Sessions -> Convs] /\ sess \in [Sessions -> Sesses]
      /\ req \in [Requests -> Reqs] /\ created \in Nat /\ names \in Nat
      /\ created <= MaxSessions /\ names <= created + Cardinality(Arrived)
  BY SizeFits, TableAssumption
     DEF IndInv, Kept, NamesFit, TypeOK, Convs, Sesses, Reqs
<1>3. /\ Cardinality(Arrived) \in Nat /\ Cardinality(Requests) \in Nat
      /\ Cardinality(Arrived \cup {r}) = Cardinality(Arrived) + 1
      /\ Cardinality(Arrived) + 1 <= Cardinality(Requests)
  BY <1>1, RoomForNames, SizeFits
<1>4. fresh \in Names
  BY <1>2, <1>3, TableAssumption DEF Names
<1>5. name \in Names /\ cont \in BOOLEAN /\ (cont => source # 0)
  BY <1>2, <1>4 DEF Started, Convs
<1>6. met \in [convs : SUBSET Sessions, sessions : SUBSET Sessions]
  <2>1. \A q \in Requests : req[q].left \in Sessions \cup {0}
    BY <1>2, TableAssumption DEF Reqs, Sessions
  <2>. QED
    BY <2>1
<1>7. /\ x \in Reqs /\ x.pc = "look" /\ x.conv = source /\ x.cont = cont /\ x.name = name
      /\ x.at = 0 /\ x.left = source
  <2>. HIDE DEF name, cont
  <2>1. "look" \in Steps /\ 0 \in 0..MaxSessions
    BY TableAssumption DEF Steps
  <2>. QED
    BY <1>2, <1>5, <2>1 DEF Away, Reqs
<1>. HIDE DEF x, name, cont
<1>8. /\ req' \in [Requests -> Reqs] /\ req'[r] = x
      /\ \A q \in Requests \ {r} : req'[q] = req[q]
  BY <1>1, <1>2, <1>7
<1>9. Kept'
  <2>1. names' \in 0..(MaxSessions + Cardinality(Requests))
    BY <1>1, <1>2, <1>3, TableAssumption
  <2>2. before' \in [Requests -> [convs : SUBSET Sessions, sessions : SUBSET Sessions]]
    <3>. HIDE DEF met
    <3>. QED
      BY <1>1, <1>6 DEF IndInv, Kept, TypeOK
  <2>3. TypeOK'
    BY <1>1, <1>8, <2>1, <2>2 DEF IndInv, Kept, TypeOK, Reqs
  <2>4. Arrived' = Arrived \cup {r}
    BY <1>7, <1>8 DEF Arrived
  <2>5. NamesFit'
    BY <1>1, <1>2, <1>3, <2>4 DEF NamesFit
  <2>6. \A q \in Requests : RequestFits(q)'
    BY <1>1, <1>2, <1>5, <1>7, <1>8, SizeFits DEF IndInv, Kept, RequestFits, Started
  <2>7. \A k \in Sessions : SessionFits(k)'
    BY <1>1 DEF IndInv, Kept, SessionFits, Started
  <2>8. (source # 0 => Started(source))'
    BY <1>1, <1>2 DEF Started
  <2>. QED
    BY <2>3, <2>5, <2>6, <2>7, <2>8 DEF Kept
<1>10. Listed' /\ OneLive'
  BY <1>1 DEF IndInv, Listed, OneLive, Live
<1>11. LockFits'
  BY <1>1, <1>7, <1>8 DEF IndInv, LockFits, Holds, Live
<1>12. BeforeFits'
  <2>1. \A k \in Sessions : sess[k].finish => k <= created /\ k # 0
    BY DEF IndInv, Kept, SessionFits, NoSession, Sessions
  <2>2. /\ before'[r].sessions = {k \in Sessions : sess[k].finish}
        /\ \A q \in Requests \ {r} : before'[q] = before[q]
    BY <1>1 DEF IndInv, Kept, TypeOK
  <2>. QED
    BY <1>1, <1>7, <1>8, <2>1, <2>2 DEF IndInv, BeforeFits
<1>. QED
  BY <1>9, <1>10, <1>11, <1>12 DEF IndInv

LEMMA CreateKeeps == ASSUME NEW r \in Requests, IndInv, Create(r) PROVE IndInv'
<1>. DEFINE k == created + 1
            c == IF Continues(r) THEN req[r].conv ELSE k
            standalone == req[r].cmd = "new_prompt"
            name == IF standalone THEN names + 1 ELSE req[r].name
            left == IF standalone THEN Completed(r) ELSE convs
            s == [conv |-> c, name |-> name, life |-> "open", inbox |-> {r}, finish |-> FALSE]
<1>1. /\ req[r].pc = "create"
      /\ convs' = [left EXCEPT ![c] = [thread |-> name, open |-> TRUE]]
      /\ names' = IF standalone THEN name ELSE names
      /\ source' = IF c # req[r].conv THEN c ELSE source
      /\ sess' = [sess EXCEPT ![k] = s] /\ table' = [table EXCEPT ![name] = k]
      /\ created' = k /\ req' = [req EXCEPT ![r].pc = "done", ![r].at = k]
      /\ before' = before /\ served' = served
  BY DEF Create, histVars
<1>2. /\ source \in 0..MaxSessions /\ (source # 0 => Started(source))
      /\ convs \in [Sessions -> Convs] /\ sess \in [Sessions -> Sesses]
      /\ req \in [Requests -> Reqs] /\ created \in Nat /\ names \in Nat
      /\ table \in [Names -> 0..MaxSessions]
      /\ created < MaxSessions /\ names <= created + Cardinality(Arrived)
      /\ names <= MaxSessions + Cardinality(Requests)
      /\ Cardinality(Arrived) \in Nat /\ Cardinality(Requests) \in Nat
      /\ Cardinality(Arrived) <= Cardinality(Requests)
  BY <1>1, SizeFits, RoomForNames, TableAssumption
     DEF IndInv, Kept, NamesFit, LockFits, TypeOK, Convs, Sesses, Reqs
<1>3. k \in Sessions /\ k \in Nat /\ k <= MaxSessions /\ k # 0
  BY <1>2, TableAssumption DEF Sessions
<1>4. c \in Sessions
  BY <1>1, <1>3 DEF IndInv, Kept, RequestFits, Continues, Started
<1>5. name \in Names /\ name # 0
  <2>1. names + 1 \in Names
    BY <1>2, TableAssumption DEF Names
  <2>2. req[r].name \in Names
    BY <1>1, <1>2 DEF IndInv, Kept, RequestFits, Reqs
  <2>. QED
    BY <2>1, <2>2, SizeFits
<1>6. left \in [Sessions -> Convs] /\ \A d \in Sessions : left[d].thread = convs[d].thread
  BY <1>2, CompletedStarts
<1>7. names' \in Nat /\ names' <= created' + Cardinality(Arrived)
  BY <1>1, <1>2
<1>. HIDE DEF left, c, standalone, name
<1>8. /\ convs' \in [Sessions -> Convs] /\ convs'[c].thread # 0
      /\ \A d \in Sessions : convs[d].thread # 0 => convs'[d].thread # 0
  BY <1>1, <1>4, <1>5, <1>6 DEF Convs
<1>9. /\ s \in Sesses /\ s.conv = c /\ s.name = name /\ s.life = "open" /\ ~s.finish
  BY <1>3, <1>4, <1>5, TableAssumption DEF Sesses, Lives, Sessions
<1>. HIDE DEF s
<1>10. /\ sess' \in [Sessions -> Sesses] /\ sess'[k] = s
       /\ \A j \in Sessions \ {k} : sess'[j] = sess[j]
  BY <1>1, <1>2, <1>3, <1>9
<1>11. /\ table' \in [Names -> 0..MaxSessions] /\ table'[name] = k
       /\ \A n \in Names \ {name} : table'[n] = table[n]
  BY <1>1, <1>2, <1>3, <1>5
<1>12. /\ req' \in [Requests -> Reqs] /\ req'[r].pc = "done" /\ req'[r].at = k
       /\ req'[r].conv = req[r].conv /\ req'[r].left = req[r].left
       /\ req'[r].name = req[r].name /\ req'[r].cont = req[r].cont
       /\ \A q \in Requests \ {r} : req'[q] = req[q]
  <2>. DEFINE x == [req[r] EXCEPT !.pc = "done", !.at = k]
  <2>1. /\ x \in Reqs /\ x.pc = "done" /\ x.at = k /\ x.conv = req[r].conv
        /\ x.left = req[r].left /\ x.name = req[r].name /\ x.cont = req[r].cont
    <3>1. "done" \in Steps /\ k \in 0..MaxSessions
      BY <1>3, TableAssumption DEF Steps
    <3>. HIDE DEF k
    <3>. QED
      BY <1>2, <3>1 DEF Reqs
  <2>2. req' = [req EXCEPT ![r] = x]
    BY <1>1, <1>2
  <2>. HIDE DEF x
  <2>. QED
    BY <1>2, <2>1, <2>2
<1>13. \A n \in Names : table[n] # 0 => table[n] \in Sessions \ {k} /\ table[n] <= created
  BY <1>2 DEF IndInv, Listed, Sessions
<1>14. Kept'
  <2>1. source' \in 0..MaxSessions /\ (source' # 0 => Started(source)')
    BY <1>1, <1>2, <1>4, <1>8, TableAssumption DEF Started, Sessions
  <2>2. names' \in 0..(MaxSessions + Cardinality(Requests))
    BY <1>1, <1>2, <1>3, <1>7, TableAssumption
  <2>3. TypeOK'
    <3>1. created' \in 0..MaxSessions
      BY <1>1, <1>3
    <3>2. /\ before' \in [Requests -> [convs : SUBSET Sessions, sessions : SUBSET Sessions]]
          /\ served' \subseteq Requests
      BY <1>1 DEF IndInv, Kept, TypeOK
    <3>. QED
      BY <1>8, <1>10, <1>11, <1>12, <2>1, <2>2, <3>1, <3>2 DEF TypeOK, Convs, Sesses, Reqs
  <2>4. Arrived' = Arrived
    BY <1>1, <1>12 DEF Arrived
  <2>5. NamesFit'
    BY <1>7, <2>4 DEF NamesFit
  <2>6. \A d : Started(d) => Started(d)'
    BY <1>8 DEF Started
  <2>7. ASSUME NEW q \in Requests PROVE RequestFits(q)'
    <3>1. /\ req'[q].conv = req[q].conv /\ req'[q].left = req[q].left
          /\ req'[q].name = req[q].name /\ req'[q].cont = req[q].cont
          /\ req'[q].pc # "away" => req[q].pc # "away"
          /\ req'[q].pc = "send" => req[q].pc = "send" /\ req'[q].at = req[q].at
      BY <1>1, <1>12
    <3>2. RequestFits(q) /\ req[q].at \in Nat
      BY <1>2 DEF IndInv, Kept, Reqs
    <3>. QED
      BY <1>1, <1>2, <1>8, <3>1, <3>2 DEF RequestFits, Started
  <2>8. ASSUME NEW j \in Sessions PROVE SessionFits(j)'
    <3>1. CASE j = k
      BY <1>1, <1>4, <1>5, <1>8, <1>9, <1>10, <3>1 DEF SessionFits, Started, Sessions
    <3>2. CASE j # k /\ j <= created
      BY <1>1, <1>2, <1>8, <1>10, <3>2 DEF SessionFits, Started, IndInv, Kept, Sessions
    <3>3. CASE j # k /\ ~(j <= created)
      BY <1>1, <1>2, <1>10, <3>3 DEF SessionFits, IndInv, Kept, Sessions
    <3>. QED
      BY <3>1, <3>2, <3>3
  <2>. QED
    BY <2>1, <2>3, <2>5, <2>7, <2>8 DEF Kept
<1>15. Listed'
  <2>1. \A n \in Names : table'[n] # 0 =>
            table'[n] <= created' /\ sess'[table'[n]].name = n /\ ~sess'[table'[n]].finish
    BY <1>1, <1>2, <1>9, <1>10, <1>11, <1>13 DEF IndInv, Listed
  <2>. QED
    BY <2>1 DEF Listed
<1>16. LockFits'
  BY <1>1, <1>12 DEF IndInv, LockFits, Holds
<1>17. OneLive'
  <2>1. \A n \in Names : ~Live(n)
    BY <1>1 DEF IndInv, LockFits, Holds
  <2>2. \A n \in Names \ {name} : ~Live(n)'
    BY <1>10, <1>11, <1>13, <2>1 DEF Live
  <2>. QED
    BY <2>2 DEF OneLive
<1>18. BeforeFits'
  <2>1. \A q \in Requests : \A j \in before[q].sessions : j \in Sessions \ {k} /\ j <= created'
    BY <1>1, <1>2 DEF IndInv, BeforeFits, Kept, TypeOK, Sessions
  <2>2. \A q \in Requests : \A j \in before[q].sessions : sess'[j].finish /\ req'[q].at # j
    BY <1>10, <1>12, <2>1 DEF IndInv, BeforeFits
  <2>. QED
    BY <1>1, <2>1, <2>2 DEF BeforeFits
<1>. QED
  BY <1>14, <1>15, <1>16, <1>17, <1>18 DEF IndInv

-----------------------------------------------------------------------------
(***************************************************************************)
(* The theorems.                                                           *)
(***************************************************************************)
LEMMA InitFits == Init => IndInv
<1>. SUFFICES ASSUME Init PROVE IndInv
  OBVIOUS
<1>1. /\ Away \in Reqs /\ NoSession \in Sesses /\ 0 \in 0..MaxSessions
      /\ 0 \in 0..(MaxSessions + Cardinality(Requests))
      /\ Away.pc = "away" /\ Away.conv = 0 /\ Away.left = 0 /\ ~Away.cont
  BY SizeFits, TableAssumption DEF Away, NoSession, Reqs, Sesses, Steps, Lives
<1>2. TypeOK
  BY <1>1, TableAssumption DEF Init, TypeOK, Reqs, Sesses
<1>3. NamesFit
  <2>1. Arrived = {}
    BY <1>1 DEF Init, Arrived
  <2>. QED
    BY <2>1, FS_EmptySet DEF Init, NamesFit
<1>4. (\A r \in Requests : RequestFits(r)) /\ \A k \in Sessions : SessionFits(k)
  BY <1>1 DEF Init, RequestFits, SessionFits, Sessions
<1>5. Listed /\ OneLive
  BY DEF Init, Listed, OneLive, Live
<1>6. LockFits /\ BeforeFits
  BY <1>1 DEF Init, LockFits, Holds, BeforeFits
<1>. QED
  BY <1>2, <1>3, <1>4, <1>5, <1>6 DEF Init, IndInv, Kept

LEMMA NextKeeps == IndInv /\ [Next]_vars => IndInv'
<1>. SUFFICES ASSUME IndInv, [Next]_vars PROVE IndInv'
  OBVIOUS
<1>1. ASSUME NEW r \in Requests, Request(r) PROVE IndInv'
  <2>1. CASE \E cmd \in Commands : Arrive(r, cmd)
    BY <2>1, ArriveKeeps
  <2>2. CASE Look(r)
    BY <2>2, LookJoinsKeeps, LookDetachesKeeps, LookBuildsKeeps, LookCreatesKeeps,
       LookRefusesKeeps, LookEndsKeeps DEF Look
  <2>. QED
    BY <1>1, <2>1, <2>2, BuiltKeeps, BuildFailsKeeps, CreateKeeps, CreateFailsKeeps, SendKeeps,
       SendRejectedKeeps DEF Request
<1>2. ASSUME NEW k \in Sessions, Runner(k) PROVE IndInv'
  BY <1>2, ServeKeeps, EndKeeps, RescueKeeps, AbortKeeps, LeaveKeeps DEF Runner
<1>3. CASE UNCHANGED vars
  <2>1. NothingNew
    BY <1>3, WorldStays DEF vars, histVars
  <2>. QED
    BY <1>3, <2>1, RunnerStep DEF vars
<1>. QED
  BY <1>1, <1>2, <1>3 DEF Next

LEMMA IndInvHolds == Spec => []IndInv
BY InitFits, NextKeeps, PTL DEF Spec

\* The source, the table, the sessions and the requests keep their types; in particular
\* no more names are drawn than there are requests and sessions (run, create_session).
THEOREM TableTypeCorrect == Spec => []TypeOK
<1>1. IndInv => TypeOK
  BY DEF IndInv, Kept
<1>. QED
  BY <1>1, IndInvHolds, PTL

\* A source never has two sessions a request could join, whatever requests build their
\* prompts meanwhile, wait for room or meet closing channels (run, find_joinable_session).
THEOREM OneJoinableHolds == Spec => []OneJoinableSession
<1>1. IndInv => OneJoinableSession
  <2>. SUFFICES ASSUME OneLive PROVE OneJoinableSession
    BY DEF IndInv
  <2>. DEFINE live == {n \in Names : Live(n)}
  <2>1. CASE live = {}
    BY <2>1, FS_EmptySet DEF OneJoinableSession
  <2>2. CASE live # {}
    <3>1. PICK n : live = {n}
      BY <2>2 DEF OneLive
    <3>. QED
      BY <3>1, FS_Singleton DEF OneJoinableSession
  <2>. QED
    BY <2>1, <2>2
<1>. QED
  BY <1>1, IndInvHolds, PTL

\* A message sent after a /new has returned never joins the session it detached
\* (detach_session, join_session).
THEOREM NewIsABoundaryHolds == Spec => []NewIsABoundary
<1>1. IndInv => NewIsABoundary
  BY DEF IndInv, BeforeFits, NewIsABoundary
<1>. QED
  BY <1>1, IndInvHolds, PTL
=============================================================================
