-------------------------- MODULE BackendPoolTurns --------------------------
(***************************************************************************)
(* BackendPool implements Turns, for every number of downloads, paths and  *)
(* connections and every limit.  Under the mapping of T each step of the   *)
(* pool that changes who is served or who waits is one step of Turns:      *)
(*                                                                         *)
(*   NewOnIdle, NewConnected                       Start                   *)
(*   NewPending                                    Wait                    *)
(*   FinishToPending                               Turn                    *)
(*   EpollWait, ClosedUnanswered, FinishUnanswered,                        *)
(*   FinishToIdle, FinishRefused, ClosedConnectFails,                      *)
(*   HttpTimeout                                   End (of some, of none)  *)
(*   Restart                                       Reset                   *)
(*                                                                         *)
(* and the moves of a download to another connection (ClosedToIdle,        *)
(* ClosedToNew) are stuttering steps.  IInv of BackendPoolProofs is the    *)
(* invariant the steps are taken under.                                    *)
(***************************************************************************)
EXTENDS BackendPoolProofs

\* The downloads that are served.
Served == {http[b] : b \in busy}

-----------------------------------------------------------------------------
(* Parts of a sequence.                                                    *)

(* A sequence is a part of itself.                                         *)
LEMMA WholeSubsequence ==
    ASSUME NEW S, NEW s \in Seq(S)
    PROVE  T!Subsequence(s, s)
<1> DEFINE f == [i \in 1..Len(s) |-> i]
<1>1. /\ f \in [1..Len(s) -> 1..Len(s)]
      /\ \A i, j \in 1..Len(s) : i < j => f[i] < f[j]
      /\ \A i \in 1..Len(s) : s[i] = s[f[i]]
    OBVIOUS
<1> QED BY <1>1 DEF T!Subsequence

(* So is the empty one.                                                    *)
LEMMA EmptySubsequence ==
    ASSUME NEW S, NEW s \in Seq(S)
    PROVE  T!Subsequence(<<>>, s)
<1> DEFINE f == [i \in 1..Len(<<>>) |-> 1]
<1>1. 1..Len(<<>>) = {}
    OBVIOUS
<1>2. /\ f \in [1..Len(<<>>) -> 1..Len(s)]
      /\ \A i, j \in 1..Len(<<>>) : i < j => f[i] < f[j]
      /\ \A i \in 1..Len(<<>>) : <<>>[i] = s[f[i]]
    BY <1>1
<1> QED BY <1>2 DEF T!Subsequence

(* The refusal keeps the even positions in order.                          *)
LEMMA KeptSubsequence ==
    ASSUME NEW S, NEW s \in Seq(S)
    PROVE  T!Subsequence(Kept(s), s)
<1> DEFINE n == Len(Kept(s))
           f == [i \in 1..n |-> 2 * i]
<1>1. n \in Nat /\ \A i \in 1..n : 2 * i \in 1..Len(s) /\ Kept(s)[i] = s[2 * i]
    BY KeptSeq
<1> HIDE DEF n
<1>2. f \in [1..n -> 1..Len(s)]
    BY <1>1
<1>3. \A i, j \in 1..n : i < j => f[i] < f[j]
    BY <1>1
<1>4. \A i \in 1..n : Kept(s)[i] = s[f[i]]
    BY <1>1
<1> QED BY <1>2, <1>3, <1>4 DEF T!Subsequence, n

(* A timeout takes one download out and keeps the order of the others.     *)
LEMMA EraseSubsequence ==
    ASSUME NEW S, NEW s \in Seq(S), NEW h
    PROVE  T!Subsequence(Erase(s, h), s)
<1>1. CASE ~ \E i \in 1..Len(s) : s[i] = h
    BY <1>1, WholeSubsequence DEF Erase
<1>2. CASE \E i \in 1..Len(s) : s[i] = h
    <2> DEFINE k == CHOOSE i \in 1..Len(s) : s[i] = h
               n == Len(s) - 1
               t == [i \in 1..n |-> IF i < k THEN s[i] ELSE s[i + 1]]
               f == [i \in 1..n |-> IF i < k THEN i ELSE i + 1]
    <2>1. k \in 1..Len(s) /\ Len(s) \in Nat /\ n \in Nat
        BY <1>2
    <2>2. Erase(s, h) = t
        BY <1>2 DEF Erase
    <2> HIDE DEF k
    <2>3. Len(t) = n
        BY <2>1
    <2>4. f \in [1..n -> 1..Len(s)]
        BY <2>1
    <2>5. \A i, j \in 1..n : i < j => f[i] < f[j]
        BY <2>1
    <2>6. \A i \in 1..n : t[i] = s[f[i]]
        BY <2>1
    <2> HIDE DEF t, f
    <2>7. T!Subsequence(t, s)
        BY <2>3, <2>4, <2>5, <2>6 DEF T!Subsequence
    <2> QED BY <2>2, <2>7
<1> QED BY <1>1, <1>2

(* A refusal, with whatever other connections, leaves a part of pending.   *)
LEMMA RefuseSubsequence ==
    ASSUME IInv, NEW left, RefusePending(left)
    PROVE  T!Subsequence(pending', pending)
<1>1. pending \in Seq(Http)
    BY DEF IInv, TypeOK
<1>2. pending' = Kept(pending) \/ pending' = pending
    BY DEF RefusePending
<1> QED BY <1>1, <1>2, KeptSubsequence, WholeSubsequence

-----------------------------------------------------------------------------
(* Who is served.                                                          *)

(* No two busy connections carry one download, so as many downloads are    *)
(* served as connections are busy, and those wait for nothing.             *)
LEMMA ServedFacts ==
    ASSUME IInv
    PROVE  /\ Served \in SUBSET Http
           /\ Cardinality(Served) = Cardinality(busy)
           /\ Cardinality(busy) \in Nat /\ Cardinality(busy) <= maxBackend
           /\ Served \cap Waiting = {}
           /\ T!Queued = Waiting
<1>1. /\ busy \in SUBSET Backend /\ idle \in SUBSET Backend
      /\ IsFiniteSet(busy) /\ IsFiniteSet(busy \cup idle)
    <2>1. busy \in SUBSET Backend /\ idle \in SUBSET Backend
        BY DEF IInv, TypeOK
    <2>2. busy \cup idle \in SUBSET Backend
        BY <2>1
    <2> QED BY <2>1, <2>2, PoolAssumption, FS_Subset
<1>2. \A b \in busy : b \in Backend /\ http[b] \in Http /\ backend[http[b]] = b
    BY LinksTyped
<1>3. Served \in SUBSET Http
    BY <1>2 DEF Served
<1>4. Cardinality(Served) = Cardinality(busy)
    <2> DEFINE f == [b \in busy |-> http[b]]
    <2>1. f \in [busy -> Served]
        BY DEF Served
    <2>2. \A s \in Served : \E b \in busy : f[b] = s
        BY DEF Served
    <2>3. \A b, c \in busy : f[b] = f[c] => b = c
        BY <1>2
    <2> HIDE DEF f
    <2>4. f \in Surjection(busy, Served) /\ f \in Injection(busy, Served)
        BY <2>1, <2>2, <2>3 DEF Surjection, Injection, IsInjective
    <2>5. f \in Bijection(busy, Served)
        BY <2>4 DEF Bijection
    <2>6. ExistsBijection(busy, Served)
        BY <2>5 DEF ExistsBijection
    <2> QED BY <1>1, <2>6, FS_Bijection
<1>5. Cardinality(busy) \in Nat /\ Cardinality(busy) <= maxBackend
    <2>1. /\ Cardinality(busy) \in Nat /\ Cardinality(busy \cup idle) \in Nat
          /\ Cardinality(busy) <= Cardinality(busy \cup idle)
        BY <1>1, FS_CardinalityType, FS_Subset
    <2>2. Cardinality(busy \cup idle) <= maxBackend
        BY DEF IInv, PoolBound
    <2> QED BY <2>1, <2>2, PoolAssumption
<1>6. Served \cap Waiting = {}
    BY <1>2 DEF Served, IInv, PendingUnlinked
<1>7. T!Queued = Waiting
    BY DEF T!Queued, Waiting
<1> QED BY <1>3, <1>4, <1>5, <1>6, <1>7

(* A new download is neither served nor waits.                             *)
LEMMA NewIsUnknown ==
    ASSUME IInv, NEW h \in FreshHttp
    PROVE  h \in Http /\ h \notin Served \cup T!Queued
BY FreshHttpFacts, ServedFacts, LinksTyped DEF Served

(* Whatever busy connections are taken away, without a new one and while   *)
(* pending only loses members, is an End.                                  *)
LEMMA Fewer ==
    ASSUME Served' \subseteq Served, T!Subsequence(pending', pending)
    PROVE  \E G \in SUBSET Served : T!End(G)
<1> DEFINE G == Served \ Served'
<1>1. Served' = Served \ G
    OBVIOUS
<1> HIDE DEF G
<1>2. T!End(G)
    BY <1>1 DEF T!End, Served
<1>3. G \in SUBSET Served
    BY DEF G
<1> QED BY <1>2, <1>3 DEF T!End

-----------------------------------------------------------------------------
(* The steps.                                                              *)

(* Turns counts as BackendPool does.                                       *)
LEMMA SameCardinality == \A S : T!Cardinality(S) = Cardinality(S)
BY DEF T!Cardinality, Cardinality

(* A new download takes an idle connection or a new one.                   *)
LEMMA NewStarts ==
    ASSUME IInv, NEW p \in Path, NEW h \in Http, NEW b \in Backend,
           NewOnIdle(p, h, b) \/ NewConnected(p, h, b)
    PROVE  T!Start(h)
<1>1. h \in FreshHttp /\ b \in FreshBackend \cup idle
    BY DEF NewOnIdle, NewConnected, Register
<1>2. h \notin Served \cup T!Queued
    BY <1>1, NewIsUnknown
<1>3. busy' = busy \cup {b} /\ http' = [http EXCEPT ![b] = h] /\ pending' = pending
    BY DEF NewOnIdle, NewConnected
<1>4. http \in [Backend -> Http \cup {None}] /\ busy \in SUBSET Backend /\ idle \in SUBSET Backend
    BY DEF IInv, TypeOK
<1>5. b \notin busy
    BY <1>1, FreeBackendFacts DEF IInv, PoolBound
<1>6. Served' = Served \cup {h}
    BY <1>3, <1>4, <1>5 DEF Served
<1>7. Cardinality(busy) < maxBackend
    <2>1. CASE NewConnected(p, h, b)
        BY <2>1 DEF NewConnected, BelowLimit
    <2>2. CASE NewOnIdle(p, h, b)
        <3>1. b \in idle
            BY <2>2 DEF NewOnIdle
        <3>2. busy \cup {b} \in SUBSET (busy \cup idle) /\ busy \cup idle \in SUBSET Backend
            BY <1>4, <3>1
        <3>3. IsFiniteSet(busy) /\ IsFiniteSet(busy \cup idle)
            BY <1>4, <3>2, PoolAssumption, FS_Subset
        <3>4. Cardinality(busy \cup {b}) = Cardinality(busy) + 1
            BY <1>5, <3>3, FS_AddElement
        <3>5. Cardinality(busy \cup {b}) <= Cardinality(busy \cup idle)
            BY <3>2, <3>3, FS_Subset
        <3>6. Cardinality(busy) \in Nat /\ Cardinality(busy \cup idle) \in Nat
            BY <3>3, FS_CardinalityType
        <3>7. Cardinality(busy \cup idle) <= maxBackend
            BY DEF IInv, PoolBound
        <3> QED BY <3>4, <3>5, <3>6, <3>7, PoolAssumption
    <2> QED BY <2>1, <2>2
<1>8. Cardinality(Served) < maxBackend
    BY <1>7, ServedFacts
<1> QED BY <1>2, <1>3, <1>6, <1>8, SameCardinality DEF T!Start, Served

(* It waits only while as many are served as may be.                       *)
LEMMA NewWaits ==
    ASSUME IInv, NEW p \in Path, NEW h \in Http, NewPending(p, h)
    PROVE  T!Wait(h)
<1>1. h \notin Served \cup T!Queued
    BY NewIsUnknown DEF NewPending, Register
<1>2. Cardinality(Served) = maxBackend
    <2>1. ~ (Cardinality(busy) < maxBackend)
        BY DEF NewPending, BelowLimit
    <2>2. /\ Cardinality(Served) = Cardinality(busy)
          /\ Cardinality(busy) \in Nat /\ Cardinality(busy) <= maxBackend
        BY ServedFacts
    <2> QED BY <2>1, <2>2, PoolAssumption
<1>3. pending' = Append(pending, h) /\ UNCHANGED <<busy, http>>
    BY DEF NewPending, backendVars
<1> QED BY <1>1, <1>2, <1>3, SameCardinality DEF T!Wait, Served

(* The connection of a download that has ended goes to the first who still *)
(* wants it.                                                               *)
LEMMA FinishTurns ==
    ASSUME IInv, NEW k \in 1..Len(pending), FinishToPending(k)
    PROVE  \E g \in Served : T!Turn(g, k)
<1>1. cur \in busy /\ http[cur] = rel /\ busy \in SUBSET Backend /\ rel \in Served
    BY DEF FinishToPending, At, IInv, Finishing, TypeOK, Served
<1>2. /\ http' = [http EXCEPT ![cur] = pending[k]] /\ busy' = busy
      /\ pending' = SubSeq(pending, k + 1, Len(pending))
    BY DEF FinishToPending, After
<1>3. http \in [Backend -> Http \cup {None}]
    BY DEF IInv, TypeOK
<1>4. \A b \in busy : b # cur => http[b] # rel
    BY <1>1, LinksTyped
<1>5. Served' = (Served \ {rel}) \cup {pending[k]}
    <2>1. \A b \in busy : http'[b] = IF b = cur THEN pending[k] ELSE http[b]
        BY <1>1, <1>2, <1>3
    <2> QED BY <1>1, <1>2, <1>4, <2>1 DEF Served
<1>6. T!Turn(rel, k)
    BY <1>2, <1>5 DEF T!Turn, Served
<1> QED BY <1>1, <1>6 DEF T!Turn

(* A download that moves to another connection is served without a gap.    *)
LEMMA MoveStutters ==
    ASSUME IInv, NEW b \in Backend, ClosedToIdle(b) \/ ClosedToNew(b)
    PROVE  Served' = Served /\ pending' = pending
<1>1. /\ cur \in busy /\ b \in FreshBackend \cup idle
      /\ busy' = (busy \ {cur}) \cup {b} /\ pending' = pending
      /\ http' = [http EXCEPT ![b] = http[cur], ![cur] = None]
    BY DEF ClosedToIdle, ClosedToNew, Reassign, Move
<1>2. b \notin busy
    BY <1>1, FreeBackendFacts DEF IInv, PoolBound
<1>3. http \in [Backend -> Http \cup {None}] /\ busy \in SUBSET Backend
    BY DEF IInv, TypeOK
<1>4. \A c \in busy' : http'[c] = IF c = b THEN http[cur] ELSE http[c]
    BY <1>1, <1>2, <1>3
<1> QED BY <1>1, <1>2, <1>4 DEF Served

(* A round may delete several connections that were closed by timeouts and *)
(* are still busy; every other close, refusal or timeout takes at most one *)
(* download out of what is served, and those out of pending that it gives  *)
(* up.                                                                     *)
LEMMA FewerServed ==
    ASSUME IInv,
           \/ EpollWait \/ ClosedUnanswered \/ FinishUnanswered \/ FinishToIdle \/ FinishRefused
           \/ \E b \in Backend : ClosedConnectFails(b)
           \/ \E h \in Http : HttpTimeout(h)
    PROVE  Served' \subseteq Served /\ T!Subsequence(pending', pending)
<1>1. pending \in Seq(Http) /\ http \in [Backend -> Http \cup {None}] /\ busy \in SUBSET Backend
    BY DEF IInv, TypeOK
<1>2. CASE EpollWait
    <2>1. /\ busy' = busy \ oldB /\ pending' = pending
          /\ http' = [b \in Backend |-> IF b \in oldB THEN None ELSE http[b]]
        BY <1>2 DEF EpollWait
    <2>2. Served' \subseteq Served
        BY <1>1, <2>1 DEF Served
    <2> QED BY <1>1, <2>1, <2>2, WholeSubsequence
<1>3. CASE ClosedUnanswered
    <2>1. busy' = busy \ {cur} /\ http' = http /\ RefusePending(busy \ {cur})
        BY <1>3 DEF ClosedUnanswered
    <2>2. Served' \subseteq Served
        BY <2>1 DEF Served
    <2> QED BY <2>1, <2>2, RefuseSubsequence
<1>4. CASE FinishUnanswered
    <2>1. pending' = pending /\ (UNCHANGED <<busy, http>>
                                 \/ (busy' = busy \ {cur} /\ http' = [http EXCEPT ![cur] = None]))
        BY <1>4 DEF FinishUnanswered, Abort, poolVars, backendVars
    <2>2. Served' \subseteq Served
        BY <1>1, <2>1 DEF Served
    <2> QED BY <1>1, <2>1, <2>2, WholeSubsequence
<1>5. CASE FinishToIdle
    <2>1. pending' = <<>> /\ busy' = busy \ {cur} /\ http' = [http EXCEPT ![cur] = None]
        BY <1>5 DEF FinishToIdle, ToIdle
    <2>2. Served' \subseteq Served
        BY <1>1, <2>1 DEF Served
    <2> QED BY <1>1, <2>1, <2>2, EmptySubsequence
<1>6. CASE FinishRefused
    <2>1. UNCHANGED <<busy, http>> /\ RefusePending(busy)
        BY <1>6 DEF FinishRefused, backendVars
    <2>2. Served' \subseteq Served
        BY <2>1 DEF Served
    <2> QED BY <2>1, <2>2, RefuseSubsequence
<1>7. CASE \E b \in Backend : ClosedConnectFails(b)
    <2>1. busy' = busy \ {cur} /\ http' = http /\ pending' = pending
        BY <1>7 DEF ClosedConnectFails, Reassign
    <2>2. Served' \subseteq Served
        BY <2>1 DEF Served
    <2> QED BY <1>1, <2>1, <2>2, WholeSubsequence
<1>8. ASSUME NEW h \in Http, HttpTimeout(h)
      PROVE  Served' \subseteq Served /\ T!Subsequence(pending', pending)
    <2>1. UNCHANGED <<busy, http>> /\ (pending' = pending \/ pending' = Erase(pending, h))
        BY <1>8 DEF HttpTimeout
    <2>2. Served' \subseteq Served
        BY <2>1 DEF Served
    <2> QED BY <1>1, <2>1, <2>2, WholeSubsequence, EraseSubsequence
<1> QED BY <1>2, <1>3, <1>4, <1>5, <1>6, <1>7, <1>8

(* Each step of the pool is a step of Turns or none of its business.       *)
LEMMA TurnStep ==
    ASSUME IInv, [Next]_vars
    PROVE  [T!Next]_(T!vars)
<1>1. \/ Served' = Served /\ pending' = pending
      \/ Restart
      \/ (\E p \in Path, h \in Http, b \in Backend : NewOnIdle(p, h, b) \/ NewConnected(p, h, b))
      \/ (\E p \in Path, h \in Http : NewPending(p, h))
      \/ (\E k \in 1..Len(pending) : FinishToPending(k))
      \/ \/ EpollWait \/ ClosedUnanswered \/ FinishUnanswered \/ FinishToIdle \/ FinishRefused
         \/ \E b \in Backend : ClosedConnectFails(b)
         \/ \E h \in Http : HttpTimeout(h)
    <2>1. \/ UNCHANGED <<busy, http, pending>>
          \/ (\E b \in Backend : ClosedToIdle(b) \/ ClosedToNew(b))
          \/ Restart
          \/ (\E p \in Path, h \in Http, b \in Backend : NewOnIdle(p, h, b) \/ NewConnected(p, h, b))
          \/ (\E p \in Path, h \in Http : NewPending(p, h))
          \/ (\E k \in 1..Len(pending) : FinishToPending(k))
          \/ \/ EpollWait \/ ClosedUnanswered \/ FinishUnanswered \/ FinishToIdle \/ FinishRefused
             \/ \E b \in Backend : ClosedConnectFails(b)
             \/ \E h \in Http : HttpTimeout(h)
        BY Structural DEF HandlerEnd, ClosedFree, Detach, Abort, poolVars, backendVars
    <2>2. UNCHANGED <<busy, http, pending>> => Served' = Served /\ pending' = pending
        BY DEF Served
    <2> QED BY <2>1, <2>2, MoveStutters
<1>2. CASE Served' = Served /\ pending' = pending
    BY <1>2 DEF T!vars, Served
<1>3. CASE Restart
    <2>1. T!Reset
        BY <1>3 DEF Restart, T!Reset
    <2> QED BY <2>1 DEF T!Next
<1>4. ASSUME NEW p \in Path, NEW h \in Http, NEW b \in Backend,
             NewOnIdle(p, h, b) \/ NewConnected(p, h, b)
      PROVE  T!Next
    BY <1>4, NewStarts DEF T!Next
<1>5. ASSUME NEW p \in Path, NEW h \in Http, NewPending(p, h)
      PROVE  T!Next
    BY <1>5, NewWaits DEF T!Next
<1>6. ASSUME NEW k \in 1..Len(pending), FinishToPending(k)
      PROVE  T!Next
    BY <1>6, FinishTurns DEF T!Next, Served
<1>7. CASE \/ EpollWait \/ ClosedUnanswered \/ FinishUnanswered \/ FinishToIdle \/ FinishRefused
           \/ \E b \in Backend : ClosedConnectFails(b)
           \/ \E h \in Http : HttpTimeout(h)
    BY <1>7, FewerServed, Fewer DEF T!Next, Served
<1> QED BY <1>1, <1>2, <1>3, <1>4, <1>5, <1>6, <1>7

(* The pool gives turns, whatever its limit: at most maxBackend downloads  *)
(* are served, none waits while there is room for it, and those who wait   *)
(* are served in the order of arrival, connections or not.                 *)
THEOREM PoolGivesTurns == Spec => InTurn
<1>1. Init => T!Init
    BY DEF Init, T!Init
<1>2. IInv /\ [Next]_vars => [T!Next]_(T!vars)
    BY TurnStep
<1> QED BY <1>1, <1>2, Invariance, PTL DEF Spec, InTurn, T!Spec
=============================================================================
