------------------------------- MODULE Turns -------------------------------
(***************************************************************************)
(* What the connections to one address promise to the downloads, with no   *)
(* word of connections: at most Limit downloads are served at once, one    *)
(* begins to wait only while that many are, and who waits is served in the *)
(* order of arrival or leaves.  BackendPool implements it.                 *)
(***************************************************************************)
EXTENDS Integers, Sequences, FiniteSets

CONSTANTS
    Download,
    Limit        \* Backend::maxBackend

VARIABLES served, queue
vars == <<served, queue>>

Queued == {queue[i] : i \in 1..Len(queue)}

\* t is s without some of its members, in the same order.
Subsequence(t, s) ==
    \E f \in [1..Len(t) -> 1..Len(s)] :
        /\ \A i, j \in 1..Len(t) : i < j => f[i] < f[j]
        /\ \A i \in 1..Len(t) : t[i] = s[f[i]]

Init == served = {} /\ queue = <<>>

Start(h) ==
    /\ h \notin served \cup Queued /\ Cardinality(served) < Limit
    /\ served' = served \cup {h}
    /\ UNCHANGED queue

Wait(h) ==
    /\ h \notin served \cup Queued /\ Cardinality(served) = Limit
    /\ queue' = Append(queue, h)
    /\ UNCHANGED served

\* One has ended, the first of the queue who does not leave takes its place.
Turn(g, k) ==
    /\ served' = (served \ {g}) \cup {queue[k]}
    /\ queue' = SubSeq(queue, k + 1, Len(queue))

\* Those of G have ended and nobody takes their place: those who wait may leave.
End(G) ==
    /\ served' = served \ G
    /\ Subsequence(queue', queue)

\* The process starts again.
Reset == served' = {} /\ queue' = <<>>

Next ==
    \/ \E h \in Download : Start(h) \/ Wait(h)
    \/ \E G \in SUBSET served : End(G)
    \/ \E g \in served, k \in 1..Len(queue) : Turn(g, k)
    \/ Reset

Spec == Init /\ [][Next]_vars
=============================================================================
