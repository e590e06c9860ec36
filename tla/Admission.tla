----------------------------- MODULE Admission -----------------------------
(***************************************************************************)
(* The maintenance lease of runtime_admission.rs: a gate every entry point *)
(* of the daemon passes.  While an owner (the desktop updater) holds an    *)
(* unexpired lease, ordinary work is refused; work already admitted keeps  *)
(* its permit and drains.  The gate has one mutex, so each method is one   *)
(* atomic step; expiry is lazy and happens inside those methods.           *)
(*                                                                         *)
(* A deadline is represented by the time left until it, so that the clock  *)
(* needs no bound.  Xid tokens are globally unique: a counter stands for   *)
(* them.                                                                   *)
(***************************************************************************)
EXTENDS Integers, FiniteSets

CONSTANTS Workers,      \* requests that ask for a permit
          Owners,       \* clients of the maintenance route
          LeaseTime,    \* LEASE_TIME, in model ticks
          MaxTokens     \* bound on the leases ever granted

ASSUME AdmissionAssumption ==
    /\ LeaseTime \in Nat \ {0}
    /\ MaxTokens \in Nat
    /\ IsFiniteSet(Workers)

VARIABLES lease,    \* Inner.lease
          active,   \* Inner.active
          permit,   \* worker -> the Permit it holds
          token,    \* owner -> the token its last begin returned (0: none)
          crashed,  \* owners that went away without releasing
          minted    \* number of tokens handed out so far

vars == <<lease, active, permit, token, crashed, minted>>
ownerVars == <<token, crashed, minted>>

NoLease == [token |-> 0, left |-> 0]
NoPermit == "none"

(***************************************************************************)
(* Inner.expire: a lease whose deadline is reached is dropped.             *)
(***************************************************************************)
Unexpired(l) == l # NoLease /\ l.left > 0

\* Mutant of Expire: a deadline is never looked at.
ExpireNever(l) == l

Expire(l) == IF Unexpired(l) THEN l ELSE NoLease

Init ==
    /\ lease = NoLease
    /\ active = 0
    /\ permit = [w \in Workers |-> NoPermit]
    /\ token = [o \in Owners |-> 0]
    /\ crashed = {}
    /\ minted = 0

\* Time passes.  Only a lease in the gate notices.
Tick ==
    /\ lease.left > 0
    /\ lease' = [lease EXCEPT !.left = @ - 1]
    /\ UNCHANGED <<active, permit, ownerVars>>

\* Admission::enter; a refusal changes nothing.
Enter(w) ==
    /\ permit[w] = NoPermit
    /\ Expire(lease) = NoLease
    /\ lease' = NoLease
    /\ active' = active + 1
    /\ permit' = [permit EXCEPT ![w] = "ordinary"]
    /\ UNCHANGED ownerVars

\* Admission::enter_existing: nested calls, /stop and /cancel, the brain's own
\* requests.  It neither looks at the lease nor expires it.
EnterExisting(w) ==
    /\ permit[w] = NoPermit
    /\ active' = active + 1
    /\ permit' = [permit EXCEPT ![w] = "existing"]
    /\ UNCHANGED <<lease, ownerVars>>

\* Mutant of DropPermit: only ordinary permits are counted down.
DropCountingOrdinary(w) ==
    /\ permit[w] # NoPermit
    /\ active' = IF permit[w] = "ordinary" THEN active - 1 ELSE active
    /\ permit' = [permit EXCEPT ![w] = NoPermit]
    /\ UNCHANGED <<lease, ownerVars>>

\* Drop for Permit.
DropPermit(w) ==
    /\ permit[w] # NoPermit
    /\ active' = active - 1
    /\ permit' = [permit EXCEPT ![w] = NoPermit]
    /\ UNCHANGED <<lease, ownerVars>>

\* Mutant of Begin: a standing lease is replaced.
BeginOverStanding(o) ==
    /\ o \notin crashed
    /\ minted < MaxTokens
    /\ minted' = minted + 1
    /\ lease' = [token |-> minted + 1, left |-> LeaseTime]
    /\ token' = [token EXCEPT ![o] = minted + 1]
    /\ UNCHANGED <<active, permit, crashed>>

\* Admission::begin
Begin(o) ==
    /\ o \notin crashed
    /\ minted < MaxTokens
    /\ Expire(lease) = NoLease
    /\ minted' = minted + 1
    /\ lease' = [token |-> minted + 1, left |-> LeaseTime]
    /\ token' = [token EXCEPT ![o] = minted + 1]
    /\ UNCHANGED <<active, permit, crashed>>

\* Admission::owned_deadline: the caller's token is the unexpired lease's.
Owned(t) == Expire(lease) # NoLease /\ lease.token = t

\* Admission::renew
Renew(o) ==
    /\ o \notin crashed
    /\ Owned(token[o])
    /\ lease' = [lease EXCEPT !.left = LeaseTime]
    /\ UNCHANGED <<active, permit, ownerVars>>

\* Admission::release
Release(o) ==
    /\ o \notin crashed
    /\ Owned(token[o])
    /\ lease' = NoLease
    /\ UNCHANGED <<active, permit, ownerVars>>

\* Admission::status, and every refused begin, renew or release: all that
\* remains of the call is the expiry it started with.
Observe ==
    /\ lease' = Expire(lease)
    /\ UNCHANGED <<active, permit, ownerVars>>

\* The desktop goes away and never calls again.
Crash(o) ==
    /\ o \notin crashed
    /\ crashed' = crashed \cup {o}
    /\ UNCHANGED <<lease, active, permit, token, minted>>

Next ==
    \/ Tick
    \/ \E w \in Workers : Enter(w) \/ EnterExisting(w) \/ DropPermit(w)
    \/ \E o \in Owners : Begin(o) \/ Renew(o) \/ Release(o) \/ Crash(o)
    \/ Observe

Spec == Init /\ [][Next]_vars

\* Time passes; the owners and the workers promise nothing.
FairSpec == Spec /\ WF_vars(Tick)

-----------------------------------------------------------------------------
\* The types of the variables.
TypeOK ==
    /\ lease \in [token : 1..MaxTokens, left : 0..LeaseTime] \cup {NoLease}
    /\ active \in Nat
    /\ permit \in [Workers -> {NoPermit, "ordinary", "existing"}]
    /\ token \in [Owners -> 0..MaxTokens]
    /\ crashed \subseteq Owners
    /\ minted \in 0..MaxTokens

\* The counter is the number of permits alive, whatever leases come and go
\* around them and through whichever door they came in: update_ready reads it
\* as "no admitted work".
ActiveCountsPermits ==
    active = Cardinality({w \in Workers : permit[w] # NoPermit})

\* Before its deadline a lease leaves the gate only while the owner it was
\* granted to is there to release it: neither another updater's stale token nor
\* a late status call ends somebody else's maintenance.
OnlyItsOwnerEndsALease ==
    [][lease.left > 1 /\ lease'.token # lease.token =>
         \E o \in Owners \ crashed : token[o] = lease.token]_vars

\* While an unexpired lease stands, no step turns a worker into ordinary work.
NoNewWorkUnderLease ==
    [][Unexpired(lease) =>
         \A w \in Workers : permit'[w] = "ordinary" => permit[w] = "ordinary"]_vars

\* The gate is a lock whose tokens never come back once lost (LeasedLock).
Gate == INSTANCE LeasedLock WITH
          Tokens <- 1..MaxTokens,
          holder <- IF Unexpired(lease) THEN lease.token ELSE 0,
          spent <- 1..minted
GateIsLeasedLock == Gate!Spec

\* Once every owner is gone the gate opens for good, although nobody releases:
\* the crashed UI of the opening comment of runtime_admission.rs.
ReopensAfterCrash == (crashed = Owners) ~> [](Expire(lease) = NoLease)
=============================================================================
