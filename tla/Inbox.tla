------------------------------- MODULE Inbox -------------------------------
(***************************************************************************)
(* What a session promises the requests that join it, whatever buffers the *)
(* messages wait in: they form one line in the order they were accepted.   *)
(* Work is taken from its front only; a stretch of the line may be thrown  *)
(* away; once the session is over nothing is taken and nothing joins.      *)
(***************************************************************************)
EXTENDS Naturals, Sequences

CONSTANT Messages

VARIABLES line,  \* accepted and not yet resolved
          over   \* the session has ended

Init == over = FALSE /\ \E m \in Messages : line = <<m>>

Accept(m) ==
    /\ ~over
    /\ line' = Append(line, m)
    /\ UNCHANGED over

\* The first n messages have been worked on.
Handle(n) ==
    /\ ~over
    /\ line' = SubSeq(line, n + 1, Len(line))
    /\ UNCHANGED over

\* The messages from position i to position j are thrown away.
Discard(i, j) ==
    /\ ~over
    /\ line' = SubSeq(line, 1, i - 1) \o SubSeq(line, j + 1, Len(line))
    /\ UNCHANGED over

End ==
    /\ ~over
    /\ over' = TRUE
    /\ line' = <<>>

Next ==
    \/ \E m \in Messages : Accept(m)
    \/ \E n \in 1..Len(line) : Handle(n)
    \/ \E i, j \in 1..Len(line) : i <= j /\ Discard(i, j)
    \/ End

Spec == Init /\ [][Next]_<<line, over>>
=============================================================================
