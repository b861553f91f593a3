------------------------- MODULE BackendPoolProofs -------------------------
(***************************************************************************)
(* The safety properties of BackendPool hold for every number of paths,    *)
(* downloads and connections and for every limit maxBackend.               *)
(*                                                                         *)
(* None of them is inductive alone: Links needs to know that a connection  *)
(* that was refused and still names a download is on its way to deletion   *)
(* (Stale), NoDangling that it is deleted before that download is          *)
(* (StaleDoomed), SafeAborts what disconnectBackend has already undone     *)
(* when it reaches its assertions (Leaving).  IInv adds these parts.       *)
(***************************************************************************)
EXTENDS BackendPool, FiniteSetTheorems, SequenceTheorems, TLAPS

\* Who runs, at each value of pc.
Control ==
    /\ pc = "loop" => cur = None /\ rel = None /\ closes = 0 /\ handler = "none"
    /\ pc = "read" => cur \in Backend /\ rel = None /\ handler = "event"
    /\ pc = "event" => cur \in Backend /\ rel = None /\ handler # "none"
    /\ pc \in {"finish", "refused"} => cur \in Backend /\ rel \in Http /\ handler # "none"
    /\ pc = "detach" => /\ rel \in Http
                        /\ cur = None <=> handler = "none"
                        /\ cur = None => closes = 0

\* A download that has a connection is alive.
LinkedLive == \A h \in Http : backend[h] # None => h \in live

\* A given up download is not alive.
Doomed == (newH \cup oldH) \cap live = {}

\* A given up connection is closed.
Closed == (newB \cup oldB) \cap open = {}

\* An open connection with a download is busy.
OpenBusy == \A b \in open : http[b] # None => b \in busy

\* A connection that names a download that does not name it back was refused:
\* its handler still runs or it is given up.
Stale ==
    \A b \in Backend :
        http[b] # None /\ backend[http[b]] # b =>
            /\ backend[http[b]] = None
            /\ b \in newB \cup oldB \/ (pc = "event" /\ handler = "event" /\ cur = b)

\* It is deleted no later than that download.
StaleDoomed ==
    \A b \in Backend :
        /\ http[b] \in newH => b \in newB \cup oldB
        /\ http[b] \in oldH => b \in oldB

\* disconnectBackend starts on a linked pair,
Finishing == pc = "finish" => cur \in busy /\ http[cur] = rel /\ backend[rel] = cur

\* and has unlinked it when it reaches its assertions.
Leaving == pc \in {"refused", "detach"} => backend[rel] = None /\ rel \notin Waiting

\* An unanswered connection that the timer closes has no download any more.
TimerFree ==
    handler = "timer" /\ pc \in {"refused", "detach", "event"} /\ cur \notin tcp
        => http[cur] = None

IInv ==
    /\ TypeOK /\ Control
    /\ OneDownloadPerPath /\ WaitingIsWatched
    /\ Links /\ IdleIsFree /\ NoIdleWhilePending /\ PoolBound
    /\ PendingUnlinked /\ LinkedLive /\ Doomed /\ NoDangling
    /\ Closed /\ OpenBusy /\ Stale /\ StaleDoomed
    /\ Finishing /\ Leaving /\ TimerFree
    /\ SafeAborts
-----------------------------------------------------------------------------
(* The operators on pending.                                               *)

(* What the erasing loop of remoteSocketClosed leaves is a part of s, the  *)
(* entries at even positions.                                              *)
LEMMA KeptSeq ==
    ASSUME NEW S, NEW s \in Seq(S)
    PROVE  /\ Kept(s) \in Seq(S)
           /\ Len(Kept(s)) = Len(s) \div 2
           /\ \A i \in 1..Len(Kept(s)) : 2 * i \in 1..Len(s) /\ Kept(s)[i] = s[2 * i]
<1>1. Len(s) \in Nat /\ Len(s) \div 2 \in Nat
    OBVIOUS
<1>2. \A i \in 1..(Len(s) \div 2) : 2 * i \in 1..Len(s)
    BY <1>1
<1>3. Kept(s) \in Seq(S) /\ Len(Kept(s)) = Len(s) \div 2
    BY <1>1, <1>2 DEF Kept
<1> QED BY <1>1, <1>2, <1>3 DEF Kept

(* When the entries of s are distinct, what is erased is not kept.         *)
LEMMA KeptNotErased ==
    ASSUME NEW S, NEW s \in Seq(S),
           \A i, j \in 1..Len(s) : s[i] = s[j] => i = j
    PROVE  /\ Erased(s) \subseteq S
           /\ \A h \in Erased(s) : \E i \in 1..Len(s) : s[i] = h
           /\ \A i \in 1..Len(Kept(s)) : Kept(s)[i] \notin Erased(s)
           /\ \A i, j \in 1..Len(Kept(s)) : Kept(s)[i] = Kept(s)[j] => i = j
<1>1. Len(s) \in Nat
    OBVIOUS
<1>2. \A i \in 1..((Len(s) + 1) \div 2) : 2 * i - 1 \in 1..Len(s)
    BY <1>1
<1>3. \A h \in Erased(s) : \E i \in 1..((Len(s) + 1) \div 2) : h = s[2 * i - 1]
    BY DEF Erased
<1>4. \A i, j \in Int : 2 * i # 2 * j - 1
    OBVIOUS
<1>5. \A i \in 1..Len(Kept(s)) : Kept(s)[i] \notin Erased(s)
    <2> SUFFICES ASSUME NEW i \in 1..Len(Kept(s)), Kept(s)[i] \in Erased(s)
                 PROVE  FALSE
        OBVIOUS
    <2>1. PICK j \in 1..((Len(s) + 1) \div 2) : Kept(s)[i] = s[2 * j - 1]
        BY <1>3
    <2>2. 2 * i \in 1..Len(s) /\ Kept(s)[i] = s[2 * i]
        BY KeptSeq
    <2>3. 2 * i = 2 * j - 1
        BY <1>2, <2>1, <2>2
    <2> QED BY <1>4, <2>3
<1>6. \A i, j \in 1..Len(Kept(s)) : Kept(s)[i] = Kept(s)[j] => i = j
    BY KeptSeq
<1>7. Erased(s) \subseteq S /\ \A h \in Erased(s) : \E i \in 1..Len(s) : s[i] = h
    BY <1>2, <1>3
<1> QED BY <1>5, <1>6, <1>7

(* Erase takes out the one entry h and keeps the order of the others.      *)
LEMMA EraseSeq ==
    ASSUME NEW S, NEW s \in Seq(S), NEW h,
           \A i, j \in 1..Len(s) : s[i] = s[j] => i = j
    PROVE  /\ Erase(s, h) \in Seq(S)
           /\ \A i \in 1..Len(Erase(s, h)) :
                 Erase(s, h)[i] # h /\ \E j \in 1..Len(s) : Erase(s, h)[i] = s[j]
           /\ \A i, j \in 1..Len(Erase(s, h)) : Erase(s, h)[i] = Erase(s, h)[j] => i = j
<1>1. Len(s) \in Nat
    OBVIOUS
<1>2. CASE ~ \E i \in 1..Len(s) : s[i] = h
    BY <1>2 DEF Erase
<1>3. CASE \E i \in 1..Len(s) : s[i] = h
    <2> DEFINE k == CHOOSE i \in 1..Len(s) : s[i] = h
               t == [i \in 1..(Len(s) - 1) |-> IF i < k THEN s[i] ELSE s[i + 1]]
    <2>1. k \in 1..Len(s) /\ s[k] = h
        BY <1>3
    <2>2. Erase(s, h) = t
        BY <1>3 DEF Erase
    <2> HIDE DEF k
    <2>3. t \in Seq(S) /\ Len(t) = Len(s) - 1
        BY <1>1, <2>1
    <2>4. \A i \in 1..Len(t) :
             \E j \in 1..Len(s) : j # k /\ t[i] = s[j] /\ j = (IF i < k THEN i ELSE i + 1)
        <3> TAKE i \in 1..Len(t)
        <3> i \in 1..(Len(s) - 1) /\ i \in Int /\ k \in Int
            BY <1>1, <2>1, <2>3
        <3>1. CASE i < k
            <4>1. i \in 1..Len(s) /\ i # k /\ t[i] = s[i]
                BY <1>1, <3>1
            <4> QED BY <3>1, <4>1
        <3>2. CASE ~ (i < k)
            <4>1. i + 1 \in 1..Len(s) /\ i + 1 # k /\ t[i] = s[i + 1]
                BY <1>1, <3>2
            <4> QED BY <3>2, <4>1
        <3> QED BY <3>1, <3>2
    <2> HIDE DEF t
    <2>5. \A i \in 1..Len(t) : t[i] # h /\ \E j \in 1..Len(s) : t[i] = s[j]
        BY <2>1, <2>4
    <2>6. \A i, j \in 1..Len(t) : t[i] = t[j] => i = j
        BY <2>1, <2>3, <2>4
    <2> QED BY <2>2, <2>3, <2>5, <2>6
<1> QED BY <1>2, <1>3

(* After(k) is what was behind the k first entries of pending.             *)
LEMMA AfterSeq ==
    ASSUME pending \in Seq(Http), NEW k \in 1..Len(pending)
    PROVE  /\ After(k) \in Seq(Http)
           /\ Len(After(k)) = Len(pending) - k
           /\ \A i \in 1..Len(After(k)) : i + k \in 1..Len(pending) /\ After(k)[i] = pending[i + k]
BY DEF After

-----------------------------------------------------------------------------
(* Types and control.                                                      *)

(* The types of what Unregister, and so BackendError, assigns.             *)
LEMMA UnregisterType ==
    ASSUME TypeOK, NEW H, Unregister(H)
    PROVE  /\ cachePath' \in [Http -> Path \cup {None}]
           /\ pathToHttp' \in [Path -> Http \cup {None}]
BY DEF TypeOK, Unregister

(* What waits is a download.                                               *)
LEMMA WaitingType == ASSUME TypeOK PROVE Waiting \in SUBSET Http
<1>1. pending \in Seq(Http)
    BY DEF TypeOK
<1>2. \A i \in 1..Len(pending) : pending[i] \in Http
    BY <1>1, ElementOfSeq
<1> QED BY <1>2 DEF Waiting

(* The types of what GiveUp and RefusePending assign.                      *)
LEMMA GiveUpType ==
    ASSUME TypeOK, NEW H \in SUBSET Http, GiveUp(H)
    PROVE  /\ fronts' \in SUBSET Http /\ live' \in SUBSET Http /\ newH' \in SUBSET Http
           /\ cachePath' \in [Http -> Path \cup {None}]
           /\ pathToHttp' \in [Path -> Http \cup {None}]
BY UnregisterType DEF TypeOK, GiveUp, BackendError

(* The types of what a refusal assigns: of pending, half is given up.      *)
LEMMA RefusePendingType ==
    ASSUME TypeOK, PendingUnlinked, NEW left, RefusePending(left)
    PROVE  /\ fronts' \in SUBSET Http /\ live' \in SUBSET Http /\ newH' \in SUBSET Http
           /\ cachePath' \in [Http -> Path \cup {None}]
           /\ pathToHttp' \in [Path -> Http \cup {None}]
           /\ pending' \in Seq(Http)
<1>1. pending \in Seq(Http) /\ Kept(pending) \in Seq(Http)
    BY KeptSeq DEF TypeOK
<1>2. Erased(pending) \subseteq Http
    BY <1>1, KeptNotErased DEF PendingUnlinked
<1>3. CASE pending # <<>> /\ left = {}
    BY <1>1, <1>2, <1>3, GiveUpType DEF RefusePending
<1>4. CASE ~(pending # <<>> /\ left = {})
    BY <1>4 DEF RefusePending, TypeOK, pathVars
<1> QED BY <1>3, <1>4

(* An abort changes nothing but crashed.                                   *)
LEMMA AbortType ==
    ASSUME TypeOK, Control, NEW site, Abort(site),
           site \in {"tryConnectInternal", "checkBackend", "backendError",
                     "remain client", "remain in list", "remoteSocketClosed"}
    PROVE  TypeOK' /\ Control'
BY DEF TypeOK, Control, Abort, poolVars, backendVars, httpVars, pathVars, loopVars,
    ctlVars

(* Every step but a restart keeps the types, and pc, cur, rel and handler  *)
(* in step with one another.                                               *)
LEMMA TypeStep ==
    ASSUME TypeOK, Control, PendingUnlinked, [Next]_vars, ~ Restart
    PROVE  TypeOK' /\ Control'
<1>1. CASE EpollWait
    BY <1>1, PoolAssumption DEF TypeOK, Control, Stage, EpollWait, At, AgeHttp,
        poolVars, backendVars, httpVars, pathVars, loopVars, ctlVars
<1>2. ASSUME NEW b \in Backend, NEW next \in {"read", "event"}, NEW n \in 0..MaxCloses, Event(b, next, n)
      PROVE  TypeOK' /\ Control'
    BY <1>2, PoolAssumption DEF TypeOK, Control, Stage, Event, At, poolVars,
        backendVars, httpVars, pathVars, loopVars, ctlVars
<1>3. CASE HandlerEnd
    BY <1>3, PoolAssumption DEF TypeOK, Control, Stage, HandlerEnd, At, poolVars,
        backendVars, httpVars, pathVars, loopVars, ctlVars
<1>4. ASSUME NEW p \in Path, Join(p)
      PROVE  TypeOK' /\ Control'
    BY <1>4, PoolAssumption DEF TypeOK, Control, Stage, Join, At, poolVars,
        backendVars, httpVars, pathVars, loopVars, ctlVars
<1>5. ASSUME NEW p \in Path, NEW h \in Http, NEW b \in Backend, NewOnIdle(p, h, b)
      PROVE  TypeOK' /\ Control'
    BY <1>5, PoolAssumption DEF TypeOK, Control, Stage, NewOnIdle, Register, At,
        Link, poolVars, backendVars, httpVars, pathVars, loopVars, ctlVars
<1>6. ASSUME NEW p \in Path, NEW h \in Http, NEW b \in Backend, NewConnected(p, h, b)
      PROVE  TypeOK' /\ Control'
    BY <1>6, PoolAssumption DEF TypeOK, Control, Stage, NewConnected, Register, At,
        Link, poolVars, backendVars, httpVars, pathVars, loopVars, ctlVars
<1>7. ASSUME NEW p \in Path, NEW h \in Http, NewPending(p, h)
      PROVE  TypeOK' /\ Control'
    BY <1>7, PoolAssumption DEF TypeOK, Control, Stage, NewPending, Register, At,
        poolVars, backendVars, httpVars, pathVars, loopVars, ctlVars
<1>8. ASSUME NEW p \in Path, NewConnectFails(p)
      PROVE  TypeOK' /\ Control'
    BY <1>8, PoolAssumption DEF TypeOK, Control, Stage, NewConnectFails, At, Abort,
        poolVars, backendVars, httpVars, pathVars, loopVars, ctlVars
<1>9. ASSUME NEW h \in Http, ClientGone(h)
      PROVE  TypeOK' /\ Control'
    BY <1>9, PoolAssumption DEF TypeOK, Control, Stage, ClientGone, At, poolVars,
        backendVars, httpVars, pathVars, loopVars, ctlVars
<1>10. CASE ReadNothing
    BY <1>10, PoolAssumption DEF TypeOK, Control, Stage, ReadNothing, At, poolVars,
        backendVars, httpVars, pathVars, loopVars, ctlVars
<1>11. CASE ReadStatusOk
    BY <1>11, PoolAssumption DEF TypeOK, Control, Stage, ReadStatusOk, Reading, At,
        poolVars, backendVars, httpVars, pathVars, loopVars, ctlVars
<1>12. CASE ReadHeaderEnd
    BY <1>12, PoolAssumption DEF TypeOK, Control, Stage, ReadHeaderEnd, Reading, At,
        poolVars, backendVars, httpVars, pathVars, loopVars, ctlVars
<1>13. CASE ReadNoTempFile
    BY <1>13, PoolAssumption DEF TypeOK, Control, Stage, ReadNoTempFile, Reading,
        At, poolVars, backendVars, httpVars, pathVars, loopVars, ctlVars
<1>14. CASE ReadComplete
    BY <1>14, PoolAssumption DEF TypeOK, Control, Stage, ReadComplete, Done,
        Reading, At, StartDisconnect, poolVars, backendVars, httpVars, pathVars,
        loopVars, ctlVars
<1>15. CASE ReadCacheFails
    BY <1>15, PoolAssumption DEF TypeOK, Control, Stage, ReadCacheFails, Done,
        Reading, At, StartDisconnect, poolVars, backendVars, httpVars, pathVars,
        loopVars, ctlVars
<1>16. CASE ReadStatusOther \/ ReadStatusCut
    <2>1. TypeOK'
        BY <1>16 DEF TypeOK, Control, Stage, ReadStatusOther, ReadStatusCut, Reading, At,
            StartDisconnect, poolVars, backendVars, httpVars, pathVars, loopVars,
            ctlVars
    <2>2. Control'
        BY <1>16 DEF TypeOK, Control, ReadStatusOther, ReadStatusCut, Reading, At, StartDisconnect,
            poolVars, backendVars, httpVars, pathVars, loopVars, ctlVars
    <2> QED BY <2>1, <2>2
<1>17. CASE ClosedUnanswered
    <2>1. /\ fronts' \in SUBSET Http /\ live' \in SUBSET Http /\ newH' \in SUBSET Http
          /\ cachePath' \in [Http -> Path \cup {None}]
          /\ pathToHttp' \in [Path -> Http \cup {None}]
          /\ pending' \in Seq(Http)
        BY <1>17, RefusePendingType DEF ClosedUnanswered
    <2>2. TypeOK'
        BY <1>17, <2>1, PoolAssumption DEF TypeOK, Control, ClosedUnanswered,
            Closing, At, poolVars, backendVars, httpVars, pathVars, loopVars,
            ctlVars
    <2>3. Control'
        BY <1>17, PoolAssumption DEF Control, ClosedUnanswered, Closing, At,
            poolVars, backendVars, httpVars, pathVars, loopVars, ctlVars
    <2> QED BY <2>2, <2>3
<1>18. ASSUME NEW b \in Backend, ClosedToIdle(b)
      PROVE  TypeOK' /\ Control'
    BY <1>18, PoolAssumption DEF TypeOK, Control, Stage, ClosedToIdle, Reassign,
        Closing, At, Move, Link, poolVars, backendVars, httpVars, pathVars,
        loopVars, ctlVars
<1>19. ASSUME NEW b \in Backend, ClosedToNew(b)
      PROVE  TypeOK' /\ Control'
    BY <1>19, PoolAssumption DEF TypeOK, Control, Stage, ClosedToNew, Reassign,
        Closing, At, Move, Link, poolVars, backendVars, httpVars, pathVars,
        loopVars, ctlVars
<1>20. ASSUME NEW b \in Backend, ClosedConnectFails(b)
      PROVE  TypeOK' /\ Control'
    BY <1>20, PoolAssumption DEF TypeOK, Control, Stage, ClosedConnectFails,
        Reassign, Closing, At, poolVars, backendVars, httpVars, pathVars, loopVars,
        ctlVars
<1>21. CASE ClosedFree
    <2>1. CASE cur \in busy
        BY <1>21, <2>1, AbortType DEF ClosedFree
    <2>2. CASE cur \notin busy
        BY <1>21, <2>2, PoolAssumption DEF TypeOK, Control, ClosedFree, Closing, At,
            ForgetIdle, poolVars, backendVars, httpVars, pathVars, loopVars, ctlVars
    <2> QED BY <2>1, <2>2
<1>22. CASE FinishUnanswered
    <2>1. CASE stage[rel] = "body" /\ cachePath[rel] # None
        BY <1>22, <2>1, AbortType DEF FinishUnanswered
    <2>2. CASE ~(stage[rel] = "body" /\ cachePath[rel] # None)
        <3> DEFINE told == {rel} \cup (IF busy \ {cur} = {} THEN Waiting ELSE {})
        <3>1. BackendError(told) /\ Unregister(told) /\ fronts' = fronts \ told
            BY <1>22, <2>2 DEF FinishUnanswered, BackendError
        <3> HIDE DEF told
        <3> QED
            BY <1>22, <2>2, <3>1, UnregisterType DEF TypeOK, Control,
                FinishUnanswered, At, Unlink, poolVars, backendVars, httpVars,
                pathVars, loopVars, ctlVars
    <2> QED BY <2>1, <2>2
<1>23. ASSUME NEW k \in 1..Len(pending), FinishToPending(k)
      PROVE  TypeOK' /\ Control'
    <2> DEFINE next == pending[k]
               skipped == {pending[i] : i \in 1..(k - 1)}
    <2>1. pending \in Seq(Http) /\ After(k) \in Seq(Http)
        BY AfterSeq DEF TypeOK
    <2>2. next \in Http /\ \A i \in 1..(k - 1) : pending[i] \in Http
        BY <2>1, ElementOfSeq
    <2>3. skipped \in SUBSET Http /\ GiveUp(skipped)
        BY <1>23, <2>2 DEF FinishToPending
    <2> HIDE DEF skipped
    <2>4. TypeOK'
        BY <1>23, <2>1, <2>2, <2>3, GiveUpType DEF TypeOK, Control, FinishToPending,
            At, poolVars, backendVars, httpVars, pathVars, loopVars, ctlVars
    <2>5. Control'
        BY <1>23, PoolAssumption DEF Control, FinishToPending, At, poolVars,
            backendVars, httpVars, pathVars, loopVars, ctlVars
    <2> QED BY <2>4, <2>5
<1>24. CASE FinishToIdle
    <2>1. GiveUp(Waiting) /\ Waiting \in SUBSET Http
        BY <1>24, WaitingType DEF FinishToIdle
    <2>2. TypeOK'
        BY <1>24, <2>1, GiveUpType DEF TypeOK, Control, FinishToIdle, At, ToIdle,
            Unlink, poolVars, backendVars, httpVars, pathVars, loopVars, ctlVars
    <2>3. Control'
        BY <1>24, PoolAssumption DEF Control, FinishToIdle, At, ToIdle, poolVars,
            backendVars, httpVars, pathVars, loopVars, ctlVars
    <2> QED BY <2>2, <2>3
<1>25. CASE FinishRefused
    <2>1. /\ fronts' \in SUBSET Http /\ live' \in SUBSET Http /\ newH' \in SUBSET Http
          /\ cachePath' \in [Http -> Path \cup {None}]
          /\ pathToHttp' \in [Path -> Http \cup {None}]
          /\ pending' \in Seq(Http)
        BY <1>25, RefusePendingType DEF FinishRefused
    <2>2. TypeOK'
        BY <1>25, <2>1, PoolAssumption DEF TypeOK, Control, FinishRefused, At,
            poolVars, backendVars, httpVars, pathVars, loopVars, ctlVars
    <2>3. Control'
        BY <1>25, PoolAssumption DEF Control, FinishRefused, At, poolVars,
            backendVars, httpVars, pathVars, loopVars, ctlVars
    <2> QED BY <2>2, <2>3
<1>26. CASE Detach
    <2>1. CASE Abort("remain client") \/ Abort("remain in list")
        BY <2>1, AbortType
    <2>2. CASE ~(Abort("remain client") \/ Abort("remain in list"))
        <3>4. rel \in Http
            BY <1>26 DEF Control, Detach, At
        <3>5. /\ newH' = IF rel \in live THEN newH \cup {rel} ELSE newH
              /\ live' = live \ {rel}
              /\ Unregister({rel})
            BY <1>26, <2>2 DEF Detach
        <3>1. newH' \in SUBSET Http /\ live' \in SUBSET Http /\ Unregister({rel})
            BY <3>4, <3>5 DEF TypeOK
        <3>2. TypeOK'
            BY <1>26, <2>2, <3>1, UnregisterType DEF TypeOK, Control, Detach, At,
                Unlink, poolVars, backendVars, httpVars, pathVars, loopVars, ctlVars
        <3>3. Control'
            BY <1>26, <2>2, PoolAssumption DEF TypeOK, Control, Detach, At,
                poolVars, backendVars, httpVars, pathVars, loopVars, ctlVars
        <3> QED BY <3>2, <3>3
    <2> QED BY <2>1, <2>2
<1>27. ASSUME NEW b \in Backend, BackendTimeout(b)
      PROVE  TypeOK' /\ Control'
    <2>1. CASE stage[http[b]] = "body" /\ cachePath[http[b]] # None
        BY <1>27, <2>1, AbortType DEF BackendTimeout
    <2>2. CASE ~(stage[http[b]] = "body" /\ cachePath[http[b]] # None)
        <3>1. Unregister({http[b]}) /\ fronts' = fronts \ {http[b]}
            BY <1>27, <2>2 DEF BackendTimeout, BackendError
        <3>4. http[b] \in Http
            BY <1>27 DEF TypeOK, BackendTimeout, Watched
        <3>6. 1 \in 0..MaxCloses
            BY PoolAssumption
        <3>5. cachePath' \in [Http -> Path \cup {None}] /\ pathToHttp' \in [Path -> Http \cup {None}]
            BY <3>1, UnregisterType
        <3>2. TypeOK'
            BY <1>27, <2>2, <3>1, <3>4, <3>5, <3>6 DEF TypeOK, Control,
                BackendTimeout, At, poolVars, backendVars, httpVars, pathVars,
                loopVars, ctlVars
        <3>3. Control'
            BY <1>27, <2>2, PoolAssumption DEF TypeOK, Control, BackendTimeout, At,
                Watched, poolVars, backendVars, httpVars, pathVars, loopVars,
                ctlVars
        <3> QED BY <3>2, <3>3
    <2> QED BY <2>1, <2>2
<1>28. ASSUME NEW h \in Http, HttpTimeout(h)
      PROVE  TypeOK' /\ Control'
    <2>1. Erase(pending, h) \in Seq(Http)
        BY EraseSeq DEF TypeOK, PendingUnlinked
    <2> QED
        BY <1>28, <2>1, PoolAssumption DEF TypeOK, Control, HttpTimeout, At, Listed,
            poolVars, backendVars, httpVars, pathVars, loopVars, ctlVars
<1>29. ASSUME NEW h \in Http, HttpCheck(h)
      PROVE  TypeOK' /\ Control'
    BY <1>29, PoolAssumption DEF TypeOK, Control, Stage, HttpCheck, At, Listed,
        Waiting, Abort, poolVars, backendVars, httpVars, pathVars, loopVars, ctlVars
<1>30. CASE UNCHANGED vars
    BY <1>30 DEF TypeOK, Control, vars, poolVars, backendVars, httpVars, pathVars,
        loopVars, ctlVars
<1> QED
    BY <1>1, <1>2, <1>3, <1>4, <1>5, <1>6, <1>7, <1>8, <1>9, <1>10, <1>11, <1>12,
        <1>13, <1>14, <1>15, <1>16, <1>17, <1>18, <1>19, <1>20, <1>21, <1>22, <1>23,
        <1>24, <1>25, <1>26, <1>27, <1>28, <1>29, <1>30 DEF Next, MainLoop, Handler,
        Timeout, Request

-----------------------------------------------------------------------------
(* Paths and clients.                                                      *)

(* What a step does to the paths, the clients and the living downloads: it *)
(* starts a download, adds a client to one that is in the map, or gives up *)
(* some downloads, which then have neither path nor client.                *)
LEMMA PathEffect ==
    ASSUME TypeOK, Control, PendingUnlinked, WaitingIsWatched, [Next]_vars, ~ Restart
    PROVE  \/ UNCHANGED <<live, cachePath, pathToHttp>> /\ fronts' \subseteq fronts
           \/ \E p \in Path : Join(p)
           \/ \E p \in Path, h \in Http : Register(p, h)
           \/ \E H \in SUBSET Http : /\ Unregister(H) /\ fronts' \subseteq fronts \ H
                                     /\ live' = live \/ live' = live \ H
<1>1. \/ UNCHANGED <<live, cachePath, pathToHttp>> /\ fronts' \subseteq fronts
      \/ \E p \in Path : Join(p)
      \/ \E p \in Path, h \in Http : Register(p, h)
      \/ (\E left : RefusePending(left)) \/ FinishUnanswered \/ FinishToIdle \/ Detach
      \/ \E k \in 1..Len(pending) : FinishToPending(k)
      \/ \E b \in Backend : BackendTimeout(b)
    BY DEF Next, MainLoop, Handler, Timeout, Request, EpollWait, Event,
        HandlerEnd, NewOnIdle, NewConnected, NewPending, NewConnectFails,
        ClientGone, ReadNothing, ReadStatusOk, ReadHeaderEnd,
        ReadNoTempFile, ReadComplete, ReadCacheFails, ReadStatusOther, ReadStatusCut,
        ClosedUnanswered, ClosedToIdle, ClosedToNew, ClosedConnectFails,
        ClosedFree, FinishRefused, HttpTimeout, HttpCheck, Restart, At,
        AgeHttp, Link, Abort, Reading, Done, StartDisconnect, Closing,
        Reassign, Move, ForgetIdle, Unlink, Listed, vars, poolVars,
        backendVars, httpVars, pathVars, loopVars, ctlVars
<1>2. CASE \E left : RefusePending(left)
    <2>1. Erased(pending) \subseteq Http
        BY KeptNotErased DEF TypeOK, PendingUnlinked
    <2> QED BY <1>2, <2>1 DEF RefusePending, GiveUp, BackendError, pathVars
<1>3. CASE FinishUnanswered
    <2>1. CASE stage[rel] = "body" /\ cachePath[rel] # None
        BY <1>3, <2>1 DEF FinishUnanswered, Abort, httpVars, pathVars
    <2>2. CASE ~(stage[rel] = "body" /\ cachePath[rel] # None)
        <3> DEFINE told == {rel} \cup (IF busy \ {cur} = {} THEN Waiting ELSE {})
        <3>1. told \in SUBSET Http
            BY <1>3, WaitingType DEF Control, FinishUnanswered, At
        <3>2. BackendError(told) /\ live' = live
            BY <1>3, <2>2 DEF FinishUnanswered
        <3> HIDE DEF told
        <3> QED BY <3>1, <3>2 DEF BackendError
    <2> QED BY <2>1, <2>2
<1>4. CASE FinishToIdle
    BY <1>4, WaitingType DEF FinishToIdle, GiveUp, BackendError
<1>5. CASE \E k \in 1..Len(pending) : FinishToPending(k)
    <2> PICK k \in 1..Len(pending) : FinishToPending(k)
        BY <1>5
    <2> DEFINE skipped == {pending[i] : i \in 1..(k - 1)}
    <2>1. skipped \in SUBSET Http
        BY WaitingType DEF Waiting
    <2>2. GiveUp(skipped)
        BY DEF FinishToPending
    <2> HIDE DEF skipped
    <2> QED BY <2>1, <2>2 DEF GiveUp, BackendError
<1>6. CASE \E b \in Backend : BackendTimeout(b)
    <2> PICK b \in Backend : BackendTimeout(b)
        BY <1>6
    <2>1. http[b] \in Http
        BY DEF TypeOK, BackendTimeout, Watched
    <2> QED BY <2>1 DEF BackendTimeout, BackendError, Abort, httpVars, pathVars
<1>7. CASE Detach
    <2>1. CASE Abort("remain client") \/ Abort("remain in list")
        BY <2>1 DEF Abort, httpVars, pathVars
    <2>2. CASE ~(Abort("remain client") \/ Abort("remain in list"))
        <3>1. rel \in Http /\ Unregister({rel}) /\ live' = live \ {rel} /\ fronts' = fronts
            BY <1>7, <2>2 DEF Control, Detach, At
        <3>2. rel \notin fronts
            BY <1>7, <2>2 DEF WaitingIsWatched, Detach
        <3> QED BY <3>1, <3>2
    <2> QED BY <2>1, <2>2
<1> QED BY <1>1, <1>2, <1>3, <1>4, <1>5, <1>6, <1>7

(* OneDownloadPerPath and WaitingIsWatched are kept by every step.         *)
LEMMA PathStep ==
    ASSUME TypeOK, Control, PendingUnlinked, OneDownloadPerPath, WaitingIsWatched,
           [Next]_vars, ~ Restart
    PROVE  OneDownloadPerPath' /\ WaitingIsWatched'
<1>1. CASE UNCHANGED <<live, cachePath, pathToHttp>> /\ fronts' \subseteq fronts
    BY <1>1 DEF OneDownloadPerPath, WaitingIsWatched
<1>2. ASSUME NEW p \in Path, Join(p)
      PROVE  OneDownloadPerPath' /\ WaitingIsWatched'
    <2>1. UNCHANGED <<live, cachePath, pathToHttp>> /\ fronts' = fronts \cup {pathToHttp[p]}
        BY <1>2 DEF Join, pathVars
    <2>2. pathToHttp[p] \in live /\ pathToHttp[p] \in Http /\ cachePath[pathToHttp[p]] = p
        BY <1>2 DEF Join, OneDownloadPerPath, TypeOK
    <2> QED BY <2>1, <2>2, PoolAssumption DEF OneDownloadPerPath, WaitingIsWatched
<1>3. ASSUME NEW p \in Path, NEW h \in Http, Register(p, h)
      PROVE  OneDownloadPerPath' /\ WaitingIsWatched'
    <2>1. cachePath[h] = None /\ pathToHttp[p] = None
        BY <1>3 DEF Register, FreshHttp, OneDownloadPerPath
    <2>2. p # None /\ h # None
        BY PoolAssumption
    <2>3. /\ \A g \in Http : cachePath[g] # p
          /\ \A q \in Path : pathToHttp[q] # h
        BY <2>1, <2>2, PoolAssumption DEF OneDownloadPerPath
    <2>4. /\ live' = live \cup {h} /\ fronts' = fronts \cup {h}
          /\ \A g \in Http : cachePath'[g] = IF g = h THEN p ELSE cachePath[g]
          /\ \A q \in Path : pathToHttp'[q] = IF q = p THEN h ELSE pathToHttp[q]
        BY <1>3 DEF Register, TypeOK
    <2>5. \A g \in Http, q \in Path : cachePath'[g] = q <=> pathToHttp'[q] = g
        <3>1. \A g \in Http, q \in Path : cachePath[g] = q <=> pathToHttp[q] = g
            BY DEF OneDownloadPerPath
        <3> QED BY <2>1, <2>2, <2>3, <2>4, <3>1
    <2>6. \A g \in Http : cachePath'[g] # None => g \in live'
        BY <2>4 DEF OneDownloadPerPath
    <2>7. WaitingIsWatched'
        BY <2>2, <2>4 DEF WaitingIsWatched, TypeOK
    <2> QED BY <2>5, <2>6, <2>7 DEF OneDownloadPerPath
<1>4. ASSUME NEW H \in SUBSET Http, Unregister(H), fronts' \subseteq fronts \ H,
             live' = live \/ live' = live \ H
      PROVE  OneDownloadPerPath' /\ WaitingIsWatched'
    <2>1. /\ \A h \in Http : cachePath'[h] = IF h \in H THEN None ELSE cachePath[h]
          /\ \A p \in Path : pathToHttp'[p] = IF \E h \in H : cachePath[h] = p
                                             THEN None ELSE pathToHttp[p]
        BY <1>4 DEF Unregister
    <2>2. /\ \A h \in Http, p \in Path : cachePath[h] = p <=> pathToHttp[p] = h
          /\ \A h \in Http : cachePath[h] # None => h \in live
        BY DEF OneDownloadPerPath
    <2>3. None \notin Http /\ None \notin Path
        BY PoolAssumption
    <2>5. ASSUME NEW h \in Http, NEW p \in Path
          PROVE  cachePath'[h] = p <=> pathToHttp'[p] = h
        <3>1. CASE h \in H
            BY <2>1, <2>2, <2>3, <3>1
        <3>2. CASE h \notin H
            BY <2>1, <2>2, <2>3, <3>2
        <3> QED BY <3>1, <3>2
    <2>6. \A h \in Http : cachePath'[h] # None => h \in live'
        BY <1>4, <2>1, <2>2
    <2>7. WaitingIsWatched'
        BY <1>4, <2>1 DEF WaitingIsWatched, TypeOK
    <2> QED BY <2>5, <2>6, <2>7 DEF OneDownloadPerPath
<1> QED BY <1>1, <1>2, <1>3, <1>4, PathEffect

-----------------------------------------------------------------------------
(* Lists and links.                                                        *)

(* What a new object can rely on: nothing names its address.               *)
LEMMA FreshHttpFacts ==
    ASSUME IInv, NEW h \in FreshHttp
    PROVE  /\ h \in Http /\ h # None /\ h \notin live \cup newH \cup oldH
           /\ backend[h] = None /\ cachePath[h] = None /\ h \notin Waiting
           /\ \A b \in Backend : http[b] # h
BY PoolAssumption DEF IInv, FreshHttp, LinkedLive, NoDangling, OneDownloadPerPath,
    PendingUnlinked

(* A connection that can be handed out is named by no download.            *)
LEMMA FreeBackendFacts ==
    ASSUME IInv, NEW b \in FreshBackend \cup idle
    PROVE  /\ b \in Backend /\ b # None /\ http[b] = None
           /\ \A h \in Http : backend[h] # b
           /\ b \in FreshBackend =>
                 b \notin busy \cup idle \cup open \cup newB \cup oldB /\ b # cur
<1>1. b \in Backend /\ http[b] = None
    BY DEF IInv, TypeOK, FreshBackend, IdleIsFree
<1>2. \A h \in Http : backend[h] # b
    BY <1>1, PoolAssumption DEF IInv, Links
<1> QED BY <1>1, <1>2, PoolAssumption DEF FreshBackend

(* Links, with the types of what it names.                                 *)
LEMMA LinksTyped ==
    ASSUME IInv
    PROVE  /\ \A b \in busy : b \in Backend /\ http[b] \in Http /\ backend[http[b]] = b
           /\ \A h \in Http :
                 backend[h] # None => backend[h] \in Backend /\ http[backend[h]] = h
<1>1. \A b \in busy : b \in Backend /\ http[b] \in Http
    BY DEF IInv, TypeOK, Links
<1>2. \A h \in Http : backend[h] = None \/ backend[h] \in Backend
    BY DEF IInv, TypeOK
<1> QED BY <1>1, <1>2 DEF IInv, Links

(* The steps that change the lists, the links or what is given up.         *)
LEMMA Structural ==
    ASSUME [Next]_vars, ~ Restart
    PROVE  \/ UNCHANGED <<busy, idle, pending, http, backend, live, newH, oldH, newB, oldB, open>>
              /\ tcp \subseteq tcp'
           \/ EpollWait
           \/ HandlerEnd
           \/ (\E p \in Path, h \in Http, b \in Backend : NewOnIdle(p, h, b))
           \/ (\E p \in Path, h \in Http, b \in Backend : NewConnected(p, h, b))
           \/ (\E p \in Path, h \in Http : NewPending(p, h))
           \/ ClosedUnanswered
           \/ (\E b \in Backend : ClosedToIdle(b))
           \/ (\E b \in Backend : ClosedToNew(b))
           \/ (\E b \in Backend : ClosedConnectFails(b))
           \/ ClosedFree
           \/ FinishUnanswered
           \/ (\E k \in 1..Len(pending) : FinishToPending(k))
           \/ FinishToIdle
           \/ FinishRefused
           \/ Detach
           \/ (\E h \in Http : HttpTimeout(h))
BY DEF Next, MainLoop, Handler, Timeout, Request, Event, Join,
    NewConnectFails, ClientGone, ReadNothing, ReadStatusOk, ReadHeaderEnd,
    ReadNoTempFile, ReadComplete, ReadCacheFails, ReadStatusOther, ReadStatusCut,
    BackendTimeout, HttpCheck, Restart, At, AgeHttp, Register, Link, Abort,
    Reading, Done, StartDisconnect, Closing, ForgetIdle, Unlink, Watched,
    Listed, vars, poolVars, backendVars, httpVars, pathVars, loopVars, ctlVars

(* Two connections never share a download after a step either.             *)
LEMMA LinksStep ==
    ASSUME IInv, [Next]_vars, ~ Restart
    PROVE  Links'
<1> USE DEF IInv
<1>1. \/ UNCHANGED <<busy, http, backend>>
      \/ EpollWait
      \/ (\E p \in Path, h \in Http, b \in Backend : NewOnIdle(p, h, b))
      \/ (\E p \in Path, h \in Http, b \in Backend : NewConnected(p, h, b))
      \/ (\E p \in Path, h \in Http : NewPending(p, h))
      \/ ClosedUnanswered
      \/ (\E b \in Backend : ClosedToIdle(b))
      \/ (\E b \in Backend : ClosedToNew(b))
      \/ (\E b \in Backend : ClosedConnectFails(b))
      \/ FinishUnanswered
      \/ (\E k \in 1..Len(pending) : FinishToPending(k))
      \/ FinishToIdle
      \/ Detach
    BY Structural DEF HandlerEnd, At, ClosedFree, Closing, Abort, ForgetIdle,
        FinishRefused, RefusePending, GiveUp, HttpTimeout, Listed, poolVars,
        backendVars, httpVars, pathVars, loopVars, ctlVars
<1>2. CASE UNCHANGED <<busy, http, backend>>
    BY <1>2 DEF Links
<1>3. CASE EpollWait
    BY <1>3, PoolAssumption DEF Links, TypeOK, Control, Stale, Finishing,
        EpollWait, At, AgeHttp, poolVars, backendVars, httpVars, pathVars,
        loopVars, ctlVars
<1>4. ASSUME NEW p \in Path, NEW h \in Http, NEW b \in Backend, NewOnIdle(p, h, b)
      PROVE  Links'
    <2>1. /\ http[b] = None /\ b # None /\ h # None /\ backend[h] = None
          /\ (\A c \in Backend : http[c] # h) /\ (\A g \in Http : backend[g] # b)
        BY <1>4, FreshHttpFacts, FreeBackendFacts DEF NewOnIdle, Register
    <2>2. /\ busy' = busy \cup {b}
          /\ \A c \in Backend : http'[c] = IF c = b THEN h ELSE http[c]
          /\ \A g \in Http : backend'[g] = IF g = h THEN b ELSE backend[g]
        BY <1>4 DEF TypeOK, NewOnIdle, Link
    <2> QED BY <2>1, <2>2, LinksTyped, PoolAssumption DEF Links
<1>5. ASSUME NEW p \in Path, NEW h \in Http, NEW b \in Backend, NewConnected(p, h, b)
      PROVE  Links'
    <2>1. /\ http[b] = None /\ b # None /\ h # None /\ backend[h] = None
          /\ (\A c \in Backend : http[c] # h) /\ (\A g \in Http : backend[g] # b)
        BY <1>5, FreshHttpFacts, FreeBackendFacts DEF NewConnected, Register
    <2>2. /\ busy' = busy \cup {b}
          /\ \A c \in Backend : http'[c] = IF c = b THEN h ELSE http[c]
          /\ \A g \in Http : backend'[g] = IF g = h THEN b ELSE backend[g]
        BY <1>5 DEF TypeOK, NewConnected, Link
    <2> QED BY <2>1, <2>2, LinksTyped, PoolAssumption DEF Links
<1>6. ASSUME NEW p \in Path, NEW h \in Http, NewPending(p, h)
      PROVE  Links'
    <2>1. backend[h] = None
        BY <1>6, FreshHttpFacts DEF NewPending, Register
    <2>2. backend' = backend /\ UNCHANGED <<busy, http>>
        BY <1>6, <2>1 DEF TypeOK, NewPending, backendVars
    <2> QED BY <2>2 DEF Links
<1>7. CASE ClosedUnanswered
    BY <1>7, PoolAssumption DEF Links, TypeOK, Control, Stale, Finishing,
        ClosedUnanswered, Closing, At, RefusePending, GiveUp, poolVars,
        backendVars, httpVars, pathVars, loopVars, ctlVars
<1>8. ASSUME NEW b \in Backend, ClosedToIdle(b)
      PROVE  Links'
    <2>1. /\ http[cur] # None /\ cur \in busy /\ http[cur] \in Http /\ cur # b
          /\ http[b] = None /\ b # None /\ (\A g \in Http : backend[g] # b)
        BY <1>8, FreeBackendFacts, PoolAssumption DEF TypeOK, Control, ClosedToIdle,
            Reassign, Closing, At
    <2>2. /\ busy' = (busy \ {cur}) \cup {b}
          /\ \A c \in Backend : http'[c] = IF c = b THEN http[cur] ELSE IF c = cur THEN None ELSE http[c]
          /\ \A g \in Http : backend'[g] = IF g = http[cur] THEN b ELSE backend[g]
        BY <1>8, <2>1 DEF TypeOK, ClosedToIdle, Move, Link, Reassign, Closing, At, Control
    <2> QED BY <2>1, <2>2, LinksTyped, PoolAssumption DEF Links
<1>9. ASSUME NEW b \in Backend, ClosedToNew(b)
      PROVE  Links'
    <2>1. /\ http[cur] # None /\ cur \in busy /\ http[cur] \in Http /\ cur # b
          /\ http[b] = None /\ b # None /\ (\A g \in Http : backend[g] # b)
        BY <1>9, FreeBackendFacts, PoolAssumption DEF TypeOK, Control, ClosedToNew,
            Reassign, Closing, At
    <2>2. /\ busy' = (busy \ {cur}) \cup {b}
          /\ \A c \in Backend : http'[c] = IF c = b THEN http[cur] ELSE IF c = cur THEN None ELSE http[c]
          /\ \A g \in Http : backend'[g] = IF g = http[cur] THEN b ELSE backend[g]
        BY <1>9, <2>1 DEF TypeOK, ClosedToNew, Move, Link, Reassign, Closing, At, Control
    <2> QED BY <2>1, <2>2, LinksTyped, PoolAssumption DEF Links
<1>10. ASSUME NEW b \in Backend, ClosedConnectFails(b)
      PROVE  Links'
    BY <1>10, PoolAssumption DEF Links, TypeOK, Control, Stale, Finishing,
        ClosedConnectFails, Reassign, Closing, At, poolVars, backendVars,
        httpVars, pathVars, loopVars, ctlVars
<1>11. CASE FinishUnanswered
    BY <1>11, PoolAssumption DEF Links, TypeOK, Control, Stale, Finishing,
        FinishUnanswered, At, Abort, Unlink, poolVars, backendVars, httpVars,
        pathVars, loopVars, ctlVars
<1>12. ASSUME NEW k \in 1..Len(pending), FinishToPending(k)
      PROVE  Links'
    <2> DEFINE next == pending[k]
    <2>1. next \in Waiting /\ next \in Http
        BY WaitingType DEF Waiting
    <2>2. /\ backend[next] = None /\ (\A c \in Backend : http[c] # next) /\ next # rel
          /\ cur \in busy /\ http[cur] = rel /\ backend[rel] = cur
          /\ cur \in Backend /\ rel \in Http /\ next # None /\ cur # None
        BY <1>12, <2>1, PoolAssumption DEF PendingUnlinked, Finishing, Control,
            FinishToPending, At
    <2>3. /\ http' = [http EXCEPT ![cur] = next]
          /\ backend' = [backend EXCEPT ![rel] = None, ![next] = cur]
        BY <1>12 DEF FinishToPending
    <2> HIDE DEF next
    <2>4. /\ busy' = busy
          /\ \A c \in Backend : http'[c] = IF c = cur THEN next ELSE http[c]
          /\ \A g \in Http : backend'[g] = IF g = rel THEN None ELSE IF g = next THEN cur ELSE backend[g]
        BY <1>12, <2>2, <2>3 DEF TypeOK, FinishToPending
    <2> QED BY <2>1, <2>2, <2>4, LinksTyped, PoolAssumption DEF Links
<1>13. CASE FinishToIdle
    BY <1>13, PoolAssumption DEF Links, TypeOK, Control, Stale, Finishing,
        FinishToIdle, At, ToIdle, Unlink, GiveUp, poolVars, backendVars,
        httpVars, pathVars, loopVars, ctlVars
<1>14. CASE Detach
    <2>1. rel \in Http /\ backend[rel] = None
        BY <1>14 DEF Control, Leaving, Detach, At
    <2>2. UNCHANGED <<busy, http>> /\ (backend' = backend \/ backend' = [backend EXCEPT ![rel] = None])
        BY <1>14 DEF Detach, Abort, Unlink, poolVars, backendVars, httpVars
    <2>3. backend' = backend
        BY <2>1, <2>2 DEF TypeOK
    <2> QED BY <2>2, <2>3 DEF Links
<1> QED BY <1>1, <1>2, <1>3, <1>4, <1>5, <1>6, <1>7, <1>8, <1>9, <1>10, <1>11,
    <1>12, <1>13, <1>14

(* Some of the downloads that wait are given up, those of H; those that    *)
(* still wait are others, and wait once.                                   *)
GivesUp(H) ==
    /\ H \in SUBSET Waiting /\ H \in SUBSET Http
    /\ live' = live \ H /\ newH' = newH \cup H
    /\ Waiting' \subseteq Waiting \ H
    /\ \A i, j \in 1..Len(pending') : pending'[i] = pending'[j] => i = j

(* A refusal gives up the downloads it takes out of pending.               *)
LEMMA RefuseGivesUp ==
    ASSUME IInv, NEW left, RefusePending(left)
    PROVE  \E H : GivesUp(H)
<1>1. pending \in Seq(Http) /\ \A i, j \in 1..Len(pending) : pending[i] = pending[j] => i = j
    BY DEF IInv, TypeOK, PendingUnlinked
<1>2. CASE pending # <<>> /\ left = {}
    <2>1. /\ Erased(pending) \in SUBSET Http /\ Erased(pending) \in SUBSET Waiting
          /\ \A i \in 1..Len(Kept(pending)) : Kept(pending)[i] \notin Erased(pending)
          /\ \A i, j \in 1..Len(Kept(pending)) : Kept(pending)[i] = Kept(pending)[j] => i = j
        BY <1>1, KeptNotErased DEF Waiting
    <2>2. \A i \in 1..Len(Kept(pending)) : Kept(pending)[i] \in Waiting
        BY <1>1, KeptSeq DEF Waiting
    <2>3. /\ pending' = Kept(pending)
          /\ live' = live \ Erased(pending) /\ newH' = newH \cup Erased(pending)
        BY <1>2 DEF RefusePending, GiveUp
    <2>4. Waiting' \subseteq Waiting \ Erased(pending)
        BY <2>1, <2>2, <2>3 DEF Waiting
    <2> QED BY <2>1, <2>3, <2>4 DEF GivesUp
<1>3. CASE ~(pending # <<>> /\ left = {})
    <2>1. UNCHANGED <<live, newH, pending>>
        BY <1>3 DEF RefusePending
    <2>2. GivesUp({})
        BY <1>1, <2>1 DEF GivesUp, Waiting
    <2> QED BY <2>2
<1> QED BY <1>2, <1>3

(* So does downloadFinished with those in front of the one it serves,      *)
LEMMA ServeGivesUp ==
    ASSUME IInv, NEW k \in 1..Len(pending), FinishToPending(k)
    PROVE  \E H : GivesUp(H) /\ pending[k] \notin H \cup Waiting'
<1>1. pending \in Seq(Http) /\ \A i, j \in 1..Len(pending) : pending[i] = pending[j] => i = j
    BY DEF IInv, TypeOK, PendingUnlinked
<1> DEFINE H == {pending[i] : i \in 1..(k - 1)}
<1>2. H \in SUBSET Waiting /\ H \in SUBSET Http /\ pending[k] \notin H
    BY <1>1, WaitingType DEF IInv, Waiting
<1>3. live' = live \ H /\ newH' = newH \cup H /\ pending' = After(k)
    BY DEF FinishToPending, GiveUp
<1>4. \A i \in 1..Len(After(k)) :
         i + k \in 1..Len(pending) /\ i + k \notin 1..k /\ After(k)[i] = pending[i + k]
    <2> TAKE i \in 1..Len(After(k))
    <2>1. i + k \in 1..Len(pending) /\ After(k)[i] = pending[i + k]
        BY <1>1, AfterSeq
    <2>2. Len(After(k)) \in Nat /\ Len(pending) \in Nat
        BY <1>1, AfterSeq
    <2> QED BY <2>1, <2>2
<1>5. \A i \in 1..Len(After(k)) : After(k)[i] \in Waiting \ H /\ After(k)[i] # pending[k]
    BY <1>1, <1>4 DEF Waiting
<1>6. \A i, j \in 1..Len(After(k)) : After(k)[i] = After(k)[j] => i = j
    BY <1>1, <1>4
<1> HIDE DEF H
<1>7. Waiting' \subseteq Waiting \ H /\ pending[k] \notin Waiting'
    BY <1>3, <1>5 DEF Waiting
<1>8. GivesUp(H)
    BY <1>2, <1>3, <1>6, <1>7 DEF GivesUp
<1> QED BY <1>2, <1>7, <1>8

(* and with all of them when none is wanted.                               *)
LEMMA IdleGivesUp ==
    ASSUME IInv, FinishToIdle
    PROVE  GivesUp(Waiting) /\ Waiting' = {}
<1>1. pending' = <<>> /\ live' = live \ Waiting /\ newH' = newH \cup Waiting
    BY DEF FinishToIdle, GiveUp
<1>2. Waiting' = {}
    BY <1>1 DEF Waiting
<1> QED BY <1>1, <1>2, WaitingType DEF IInv, GivesUp

(* A download that has a connection stays alive.                           *)
LEMMA LinkedLiveStep ==
    ASSUME IInv, [Next]_vars, ~ Restart
    PROVE  LinkedLive'
<1> USE DEF IInv
<1>1. \/ UNCHANGED <<backend, live>>
      \/ EpollWait
      \/ (\E p \in Path, h \in Http, b \in Backend : NewOnIdle(p, h, b))
      \/ (\E p \in Path, h \in Http, b \in Backend : NewConnected(p, h, b))
      \/ (\E p \in Path, h \in Http : NewPending(p, h))
      \/ ClosedUnanswered
      \/ (\E b \in Backend : ClosedToIdle(b))
      \/ (\E b \in Backend : ClosedToNew(b))
      \/ FinishUnanswered
      \/ (\E k \in 1..Len(pending) : FinishToPending(k))
      \/ FinishToIdle
      \/ FinishRefused
      \/ Detach
    BY Structural DEF HandlerEnd, At, ClosedConnectFails, Reassign, Closing,
        ClosedFree, Abort, ForgetIdle, HttpTimeout, Listed, poolVars,
        backendVars, httpVars, pathVars, loopVars, ctlVars
<1>2. CASE UNCHANGED <<backend, live>>
    BY <1>2 DEF LinkedLive
<1>3. CASE EpollWait
    BY <1>3, PoolAssumption DEF LinkedLive, TypeOK, Control, Links,
        PendingUnlinked, EpollWait, At, AgeHttp, poolVars, backendVars,
        httpVars, pathVars, loopVars, ctlVars
<1>4. ASSUME NEW p \in Path, NEW h \in Http, NEW b \in Backend, NewOnIdle(p, h, b)
      PROVE  LinkedLive'
    BY <1>4, PoolAssumption DEF LinkedLive, TypeOK, Control, Links,
        PendingUnlinked, NewOnIdle, Register, At, Link, poolVars, backendVars,
        httpVars, pathVars, loopVars, ctlVars
<1>5. ASSUME NEW p \in Path, NEW h \in Http, NEW b \in Backend, NewConnected(p, h, b)
      PROVE  LinkedLive'
    BY <1>5, PoolAssumption DEF LinkedLive, TypeOK, Control, Links,
        PendingUnlinked, NewConnected, Register, At, Link, poolVars,
        backendVars, httpVars, pathVars, loopVars, ctlVars
<1>6. ASSUME NEW p \in Path, NEW h \in Http, NewPending(p, h)
      PROVE  LinkedLive'
    BY <1>6, PoolAssumption DEF LinkedLive, TypeOK, Control, Links,
        PendingUnlinked, NewPending, Register, At, poolVars, backendVars,
        httpVars, pathVars, loopVars, ctlVars
<1>7. CASE ClosedUnanswered
    <2>1. PICK H : GivesUp(H)
        BY <1>7, RefuseGivesUp DEF ClosedUnanswered
    <2>2. \A h \in Http : backend'[h] # None => backend[h] # None
        BY <1>7 DEF TypeOK, ClosedUnanswered
    <2> QED BY <2>1, <2>2 DEF LinkedLive, GivesUp, PendingUnlinked
<1>8. ASSUME NEW b \in Backend, ClosedToIdle(b)
      PROVE  LinkedLive'
    BY <1>8, PoolAssumption DEF LinkedLive, TypeOK, Control, Links,
        PendingUnlinked, ClosedToIdle, Reassign, Closing, At, Move, Link,
        poolVars, backendVars, httpVars, pathVars, loopVars, ctlVars
<1>9. ASSUME NEW b \in Backend, ClosedToNew(b)
      PROVE  LinkedLive'
    BY <1>9, PoolAssumption DEF LinkedLive, TypeOK, Control, Links,
        PendingUnlinked, ClosedToNew, Reassign, Closing, At, Move, Link,
        poolVars, backendVars, httpVars, pathVars, loopVars, ctlVars
<1>10. CASE FinishUnanswered
    BY <1>10, PoolAssumption DEF LinkedLive, TypeOK, Control, Links,
        PendingUnlinked, FinishUnanswered, At, Abort, Unlink, poolVars,
        backendVars, httpVars, pathVars, loopVars, ctlVars
<1>11. ASSUME NEW k \in 1..Len(pending), FinishToPending(k)
      PROVE  LinkedLive'
    <2>1. PICK H : GivesUp(H) /\ pending[k] \notin H
        BY <1>11, ServeGivesUp
    <2>2. pending[k] \in Waiting
        BY DEF Waiting
    <2>3. \A h \in Http : backend'[h] # None => backend[h] # None \/ h = pending[k]
        BY <1>11 DEF TypeOK, FinishToPending
    <2> QED BY <2>1, <2>2, <2>3 DEF LinkedLive, GivesUp, PendingUnlinked
<1>12. CASE FinishToIdle
    BY <1>12, PoolAssumption DEF LinkedLive, TypeOK, Control, Links,
        PendingUnlinked, FinishToIdle, At, ToIdle, Unlink, GiveUp, poolVars,
        backendVars, httpVars, pathVars, loopVars, ctlVars
<1>13. CASE FinishRefused
    <2>1. PICK H : GivesUp(H)
        BY <1>13, RefuseGivesUp DEF FinishRefused
    <2>2. backend' = backend
        BY <1>13 DEF FinishRefused
    <2> QED BY <2>1, <2>2 DEF LinkedLive, GivesUp, PendingUnlinked
<1>14. CASE Detach
    <2>1. rel \in Http /\ backend[rel] = None
        BY <1>14 DEF Control, Leaving, Detach, At
    <2>2. live \ {rel} \subseteq live' /\ (backend' = backend \/ backend' = [backend EXCEPT ![rel] = None])
        BY <1>14 DEF Detach, Abort, Unlink, httpVars
    <2>3. backend' = backend
        BY <2>1, <2>2 DEF TypeOK
    <2> QED BY <2>1, <2>2, <2>3 DEF LinkedLive
<1> QED BY <1>1, <1>2, <1>3, <1>4, <1>5, <1>6, <1>7, <1>8, <1>9, <1>10, <1>11,
    <1>12, <1>13, <1>14

(* What is given up stays dead.                                            *)
LEMMA DoomedStep ==
    ASSUME IInv, [Next]_vars, ~ Restart
    PROVE  Doomed'
<1> USE DEF IInv
<1>1. \/ UNCHANGED <<live, newH, oldH>>
      \/ EpollWait
      \/ (\E p \in Path, h \in Http, b \in Backend : NewOnIdle(p, h, b))
      \/ (\E p \in Path, h \in Http, b \in Backend : NewConnected(p, h, b))
      \/ (\E p \in Path, h \in Http : NewPending(p, h))
      \/ ClosedUnanswered
      \/ (\E k \in 1..Len(pending) : FinishToPending(k))
      \/ FinishToIdle
      \/ FinishRefused
      \/ Detach
    BY Structural DEF HandlerEnd, At, ClosedToIdle, Reassign, Closing, Move,
        Link, ClosedToNew, ClosedConnectFails, ClosedFree, Abort, ForgetIdle,
        FinishUnanswered, Unlink, HttpTimeout, Listed, poolVars, backendVars,
        httpVars, pathVars, loopVars, ctlVars
<1>2. CASE UNCHANGED <<live, newH, oldH>>
    BY <1>2 DEF Doomed
<1>3. CASE EpollWait
    BY <1>3, PoolAssumption DEF Doomed, TypeOK, EpollWait, At, AgeHttp,
        poolVars, backendVars, httpVars, pathVars, loopVars, ctlVars
<1>4. ASSUME NEW p \in Path, NEW h \in Http, NEW b \in Backend, NewOnIdle(p, h, b)
      PROVE  Doomed'
    <2>1. h \notin live \cup newH \cup oldH /\ h \in Http /\ h # None
        BY <1>4, FreshHttpFacts DEF NewOnIdle, Register
    <2> QED BY <1>4, <2>1 DEF Doomed, NewOnIdle, Register, Link, TypeOK, httpVars,
        loopVars, backendVars
<1>5. ASSUME NEW p \in Path, NEW h \in Http, NEW b \in Backend, NewConnected(p, h, b)
      PROVE  Doomed'
    <2>1. h \notin live \cup newH \cup oldH /\ h \in Http /\ h # None
        BY <1>5, FreshHttpFacts DEF NewConnected, Register
    <2> QED BY <1>5, <2>1 DEF Doomed, NewConnected, Register, Link, TypeOK,
        httpVars, loopVars, backendVars
<1>6. ASSUME NEW p \in Path, NEW h \in Http, NewPending(p, h)
      PROVE  Doomed'
    <2>1. h \notin live \cup newH \cup oldH /\ h \in Http /\ h # None
        BY <1>6, FreshHttpFacts DEF NewPending, Register
    <2> QED BY <1>6, <2>1 DEF Doomed, NewPending, Register, Link, TypeOK, httpVars,
        loopVars, backendVars
<1>7. CASE ClosedUnanswered
    <2>1. PICK H : GivesUp(H)
        BY <1>7, RefuseGivesUp DEF ClosedUnanswered
    <2> QED BY <1>7, <2>1, PoolAssumption DEF Doomed, GivesUp, PendingUnlinked,
        ClosedUnanswered, TypeOK
<1>8. ASSUME NEW k \in 1..Len(pending), FinishToPending(k)
      PROVE  Doomed'
    <2>1. PICK H : GivesUp(H) /\ pending[k] \notin H
        BY <1>8, ServeGivesUp
    <2>2. pending[k] \in Waiting
        BY DEF Waiting
    <2> QED BY <1>8, <2>1, <2>2, PoolAssumption DEF Doomed, GivesUp,
        PendingUnlinked, FinishToPending, TypeOK
<1>9. CASE FinishToIdle
    <2>1. GivesUp(Waiting)
        BY <1>9, IdleGivesUp
    <2> QED BY <1>9, <2>1, PoolAssumption DEF Doomed, GivesUp, PendingUnlinked,
        FinishToIdle, ToIdle, Unlink, TypeOK
<1>10. CASE FinishRefused
    <2>1. PICK H : GivesUp(H)
        BY <1>10, RefuseGivesUp DEF FinishRefused
    <2> QED BY <1>10, <2>1, PoolAssumption DEF Doomed, GivesUp, PendingUnlinked,
        FinishRefused, TypeOK, backendVars
<1>11. CASE Detach
    BY <1>11, PoolAssumption DEF Doomed, TypeOK, Detach, At, Abort, Unlink,
        poolVars, backendVars, httpVars, pathVars, loopVars, ctlVars
<1> QED BY <1>1, <1>2, <1>3, <1>4, <1>5, <1>6, <1>7, <1>8, <1>9, <1>10, <1>11

(* A connection never names a deleted download.                            *)
LEMMA NoDanglingStep ==
    ASSUME IInv, [Next]_vars, ~ Restart
    PROVE  NoDangling'
<1> USE DEF IInv
<1>1. \/ UNCHANGED <<http, live, newH, oldH>>
      \/ EpollWait
      \/ (\E p \in Path, h \in Http, b \in Backend : NewOnIdle(p, h, b))
      \/ (\E p \in Path, h \in Http, b \in Backend : NewConnected(p, h, b))
      \/ (\E p \in Path, h \in Http : NewPending(p, h))
      \/ (\E b \in Backend : ClosedToIdle(b))
      \/ (\E b \in Backend : ClosedToNew(b))
      \/ FinishUnanswered
      \/ ClosedUnanswered
      \/ (\E k \in 1..Len(pending) : FinishToPending(k))
      \/ FinishToIdle
      \/ FinishRefused
      \/ Detach
    BY Structural DEF HandlerEnd, At, ClosedConnectFails, Reassign, Closing,
        ClosedFree, Abort, ForgetIdle, HttpTimeout, Listed, poolVars,
        backendVars, httpVars, pathVars, loopVars, ctlVars
<1>2. CASE UNCHANGED <<http, live, newH, oldH>>
    BY <1>2 DEF NoDangling
<1>3. CASE EpollWait
    BY <1>3, PoolAssumption DEF NoDangling, TypeOK, StaleDoomed, Control,
        EpollWait, At, AgeHttp, poolVars, backendVars, httpVars, pathVars,
        loopVars, ctlVars
<1>4. ASSUME NEW p \in Path, NEW h \in Http, NEW b \in Backend, NewOnIdle(p, h, b)
      PROVE  NoDangling'
    <2>1. h \notin live \cup newH \cup oldH /\ h \in Http /\ h # None
        BY <1>4, FreshHttpFacts DEF NewOnIdle, Register
    <2> QED BY <1>4, <2>1 DEF NoDangling, NewOnIdle, Register, Link, TypeOK,
        httpVars, loopVars, backendVars
<1>5. ASSUME NEW p \in Path, NEW h \in Http, NEW b \in Backend, NewConnected(p, h, b)
      PROVE  NoDangling'
    <2>1. h \notin live \cup newH \cup oldH /\ h \in Http /\ h # None
        BY <1>5, FreshHttpFacts DEF NewConnected, Register
    <2> QED BY <1>5, <2>1 DEF NoDangling, NewConnected, Register, Link, TypeOK,
        httpVars, loopVars, backendVars
<1>6. ASSUME NEW p \in Path, NEW h \in Http, NewPending(p, h)
      PROVE  NoDangling'
    <2>1. h \notin live \cup newH \cup oldH /\ h \in Http /\ h # None
        BY <1>6, FreshHttpFacts DEF NewPending, Register
    <2> QED BY <1>6, <2>1 DEF NoDangling, NewPending, Register, Link, TypeOK,
        httpVars, loopVars, backendVars
<1>7. ASSUME NEW b \in Backend, ClosedToIdle(b)
      PROVE  NoDangling'
    BY <1>7, PoolAssumption DEF NoDangling, TypeOK, StaleDoomed, Control,
        ClosedToIdle, Reassign, Closing, At, Move, Link, poolVars,
        backendVars, httpVars, pathVars, loopVars, ctlVars
<1>8. ASSUME NEW b \in Backend, ClosedToNew(b)
      PROVE  NoDangling'
    BY <1>8, PoolAssumption DEF NoDangling, TypeOK, StaleDoomed, Control,
        ClosedToNew, Reassign, Closing, At, Move, Link, poolVars, backendVars,
        httpVars, pathVars, loopVars, ctlVars
<1>9. CASE FinishUnanswered
    BY <1>9, PoolAssumption DEF NoDangling, TypeOK, StaleDoomed, Control,
        FinishUnanswered, At, Abort, Unlink, poolVars, backendVars, httpVars,
        pathVars, loopVars, ctlVars
<1>10. CASE ClosedUnanswered
    <2>1. PICK H : GivesUp(H)
        BY <1>10, RefuseGivesUp DEF ClosedUnanswered
    <2> QED BY <1>10, <2>1, PoolAssumption DEF NoDangling, GivesUp, PendingUnlinked,
        ClosedUnanswered, TypeOK
<1>11. ASSUME NEW k \in 1..Len(pending), FinishToPending(k)
      PROVE  NoDangling'
    <2>1. PICK H : GivesUp(H) /\ pending[k] \notin H
        BY <1>11, ServeGivesUp
    <2>2. pending[k] \in live
        BY DEF Waiting, PendingUnlinked
    <2>3. /\ oldH' = oldH
          /\ \A b \in Backend : http'[b] = IF b = cur THEN pending[k] ELSE http[b]
        BY <1>11 DEF TypeOK, FinishToPending
    <2> QED BY <2>1, <2>2, <2>3 DEF NoDangling, GivesUp
<1>12. CASE FinishToIdle
    <2>1. GivesUp(Waiting)
        BY <1>12, IdleGivesUp
    <2>2. oldH' = oldH /\ \A b \in Backend : http'[b] = IF b = cur THEN None ELSE http[b]
        BY <1>12 DEF TypeOK, FinishToIdle, ToIdle
    <2> QED BY <2>1, <2>2 DEF NoDangling, GivesUp
<1>13. CASE FinishRefused
    <2>1. PICK H : GivesUp(H)
        BY <1>13, RefuseGivesUp DEF FinishRefused
    <2> QED BY <1>13, <2>1, PoolAssumption DEF NoDangling, GivesUp, PendingUnlinked,
        FinishRefused, TypeOK, backendVars
<1>14. CASE Detach
    <2>1. http' = http /\ oldH' = oldH /\ live \cup newH \subseteq live' \cup newH'
        BY <1>14 DEF Detach, Abort, loopVars, httpVars, backendVars
    <2> QED BY <2>1 DEF NoDangling
<1> QED BY <1>1, <1>2, <1>3, <1>4, <1>5, <1>6, <1>7, <1>8, <1>9, <1>10, <1>11,
    <1>12, <1>13, <1>14

(* A refused connection is deleted with its download or before.            *)
LEMMA StaleDoomedStep ==
    ASSUME IInv, [Next]_vars, ~ Restart
    PROVE  StaleDoomed'
<1> USE DEF IInv
<1>1. \/ UNCHANGED <<http, newH, oldH, newB, oldB>>
      \/ EpollWait
      \/ HandlerEnd
      \/ (\E p \in Path, h \in Http, b \in Backend : NewOnIdle(p, h, b))
      \/ (\E p \in Path, h \in Http, b \in Backend : NewConnected(p, h, b))
      \/ (\E p \in Path, h \in Http : NewPending(p, h))
      \/ (\E b \in Backend : ClosedToIdle(b))
      \/ (\E b \in Backend : ClosedToNew(b))
      \/ FinishUnanswered
      \/ ClosedUnanswered
      \/ (\E k \in 1..Len(pending) : FinishToPending(k))
      \/ FinishToIdle
      \/ FinishRefused
      \/ Detach
    BY Structural DEF ClosedConnectFails, Reassign, Closing, At, ClosedFree,
        Abort, ForgetIdle, HttpTimeout, Listed, poolVars, backendVars,
        httpVars, pathVars, loopVars, ctlVars
<1>2. CASE UNCHANGED <<http, newH, oldH, newB, oldB>>
    BY <1>2 DEF StaleDoomed
<1>3. CASE EpollWait
    BY <1>3, PoolAssumption DEF StaleDoomed, TypeOK, Doomed, Links,
        LinkedLive, Control, Leaving, Stale, EpollWait, At, AgeHttp, poolVars,
        backendVars, httpVars, pathVars, loopVars, ctlVars
<1>4. CASE HandlerEnd
    BY <1>4, PoolAssumption DEF StaleDoomed, TypeOK, Doomed, Links,
        LinkedLive, Control, Leaving, Stale, HandlerEnd, At, poolVars,
        backendVars, httpVars, pathVars, loopVars, ctlVars
<1>5. ASSUME NEW p \in Path, NEW h \in Http, NEW b \in Backend, NewOnIdle(p, h, b)
      PROVE  StaleDoomed'
    <2>1. h \notin live \cup newH \cup oldH /\ h \in Http /\ h # None
        BY <1>5, FreshHttpFacts DEF NewOnIdle, Register
    <2> QED BY <1>5, <2>1 DEF StaleDoomed, NewOnIdle, Register, Link, TypeOK,
        httpVars, loopVars, backendVars
<1>6. ASSUME NEW p \in Path, NEW h \in Http, NEW b \in Backend, NewConnected(p, h, b)
      PROVE  StaleDoomed'
    <2>1. h \notin live \cup newH \cup oldH /\ h \in Http /\ h # None
        BY <1>6, FreshHttpFacts DEF NewConnected, Register
    <2> QED BY <1>6, <2>1 DEF StaleDoomed, NewConnected, Register, Link, TypeOK,
        httpVars, loopVars, backendVars
<1>7. ASSUME NEW p \in Path, NEW h \in Http, NewPending(p, h)
      PROVE  StaleDoomed'
    <2>1. h \notin live \cup newH \cup oldH /\ h \in Http /\ h # None
        BY <1>7, FreshHttpFacts DEF NewPending, Register
    <2> QED BY <1>7, <2>1 DEF StaleDoomed, NewPending, Register, Link, TypeOK,
        httpVars, loopVars, backendVars
<1>8. ASSUME NEW b \in Backend, ClosedToIdle(b)
      PROVE  StaleDoomed'
    BY <1>8, PoolAssumption DEF StaleDoomed, TypeOK, Doomed, Links,
        LinkedLive, Control, Leaving, Stale, ClosedToIdle, Reassign, Closing,
        At, Move, Link, poolVars, backendVars, httpVars, pathVars, loopVars,
        ctlVars
<1>9. ASSUME NEW b \in Backend, ClosedToNew(b)
      PROVE  StaleDoomed'
    BY <1>9, PoolAssumption DEF StaleDoomed, TypeOK, Doomed, Links,
        LinkedLive, Control, Leaving, Stale, ClosedToNew, Reassign, Closing,
        At, Move, Link, poolVars, backendVars, httpVars, pathVars, loopVars,
        ctlVars
<1>10. CASE FinishUnanswered
    BY <1>10, PoolAssumption DEF StaleDoomed, TypeOK, Doomed, Links,
        LinkedLive, Control, Leaving, Stale, FinishUnanswered, At, Abort,
        Unlink, poolVars, backendVars, httpVars, pathVars, loopVars, ctlVars
<1>11. CASE ClosedUnanswered
    <2>1. PICK H : GivesUp(H)
        BY <1>11, RefuseGivesUp DEF ClosedUnanswered
    <2> QED BY <1>11, <2>1, PoolAssumption DEF StaleDoomed, GivesUp,
        PendingUnlinked, ClosedUnanswered, TypeOK, Doomed
<1>12. ASSUME NEW k \in 1..Len(pending), FinishToPending(k)
      PROVE  StaleDoomed'
    <2>1. PICK H : GivesUp(H) /\ pending[k] \notin H
        BY <1>12, ServeGivesUp
    <2>2. pending[k] \in Waiting
        BY DEF Waiting
    <2> QED BY <1>12, <2>1, <2>2, PoolAssumption DEF StaleDoomed, GivesUp,
        PendingUnlinked, FinishToPending, TypeOK, Doomed
<1>13. CASE FinishToIdle
    <2>1. GivesUp(Waiting)
        BY <1>13, IdleGivesUp
    <2>2. /\ UNCHANGED <<oldH, newB, oldB>>
          /\ \A b \in Backend : http'[b] = IF b = cur THEN None ELSE http[b]
        BY <1>13 DEF TypeOK, FinishToIdle, ToIdle
    <2>3. None \notin newH' \cup oldH
        BY <2>1, PoolAssumption DEF TypeOK, GivesUp
    <2> QED BY <2>1, <2>2, <2>3 DEF StaleDoomed, GivesUp, PendingUnlinked
<1>14. CASE FinishRefused
    <2>1. PICK H : GivesUp(H)
        BY <1>14, RefuseGivesUp DEF FinishRefused
    <2> QED BY <1>14, <2>1, PoolAssumption DEF StaleDoomed, GivesUp,
        PendingUnlinked, FinishRefused, TypeOK, Doomed, backendVars
<1>15. CASE Detach
    <2>1. rel \in Http /\ rel # None /\ backend[rel] = None /\ pc = "detach"
        BY <1>15, PoolAssumption DEF Control, Leaving, Detach, At
    <2>2. \A b \in Backend : http[b] = rel => b \in newB \cup oldB
        BY <2>1, PoolAssumption DEF Stale
    <2>3. UNCHANGED <<http, oldH, newB, oldB>> /\ newH' \subseteq newH \cup {rel}
        BY <1>15 DEF Detach, Abort, loopVars, backendVars
    <2> QED BY <2>2, <2>3 DEF StaleDoomed
<1> QED BY <1>1, <1>2, <1>3, <1>4, <1>5, <1>6, <1>7, <1>8, <1>9, <1>10, <1>11,
    <1>12, <1>13, <1>14, <1>15

(* An open connection with a download stays busy.                          *)
LEMMA OpenBusyStep ==
    ASSUME IInv, [Next]_vars, ~ Restart
    PROVE  OpenBusy'
<1> USE DEF IInv
<1>1. \/ UNCHANGED <<open, http, busy>>
      \/ EpollWait
      \/ (\E p \in Path, h \in Http, b \in Backend : NewOnIdle(p, h, b))
      \/ (\E p \in Path, h \in Http, b \in Backend : NewConnected(p, h, b))
      \/ ClosedUnanswered
      \/ (\E b \in Backend : ClosedToIdle(b))
      \/ (\E b \in Backend : ClosedToNew(b))
      \/ (\E b \in Backend : ClosedConnectFails(b))
      \/ ClosedFree
      \/ FinishUnanswered
      \/ (\E k \in 1..Len(pending) : FinishToPending(k))
      \/ FinishToIdle
      \/ (\E h \in Http : HttpTimeout(h))
    BY Structural DEF HandlerEnd, At, NewPending, Register, FinishRefused,
        RefusePending, GiveUp, Detach, Abort, Unlink, poolVars, backendVars,
        httpVars, pathVars, loopVars, ctlVars
<1>2. CASE UNCHANGED <<open, http, busy>>
    BY <1>2 DEF OpenBusy
<1>3. CASE EpollWait
    BY <1>3, PoolAssumption DEF OpenBusy, TypeOK, Closed, Finishing, Control,
        EpollWait, At, AgeHttp, poolVars, backendVars, httpVars, pathVars,
        loopVars, ctlVars
<1>4. ASSUME NEW p \in Path, NEW h \in Http, NEW b \in Backend, NewOnIdle(p, h, b)
      PROVE  OpenBusy'
    BY <1>4, PoolAssumption DEF OpenBusy, TypeOK, Closed, Finishing, Control,
        NewOnIdle, Register, At, Link, poolVars, backendVars, httpVars,
        pathVars, loopVars, ctlVars
<1>5. ASSUME NEW p \in Path, NEW h \in Http, NEW b \in Backend, NewConnected(p, h, b)
      PROVE  OpenBusy'
    BY <1>5, PoolAssumption DEF OpenBusy, TypeOK, Closed, Finishing, Control,
        NewConnected, Register, At, Link, poolVars, backendVars, httpVars,
        pathVars, loopVars, ctlVars
<1>6. CASE ClosedUnanswered
    BY <1>6, PoolAssumption DEF OpenBusy, TypeOK, Closed, Finishing, Control,
        ClosedUnanswered, Closing, At, RefusePending, GiveUp, poolVars,
        backendVars, httpVars, pathVars, loopVars, ctlVars
<1>7. ASSUME NEW b \in Backend, ClosedToIdle(b)
      PROVE  OpenBusy'
    BY <1>7, PoolAssumption DEF OpenBusy, TypeOK, Closed, Finishing, Control,
        ClosedToIdle, Reassign, Closing, At, Move, Link, poolVars,
        backendVars, httpVars, pathVars, loopVars, ctlVars
<1>8. ASSUME NEW b \in Backend, ClosedToNew(b)
      PROVE  OpenBusy'
    BY <1>8, PoolAssumption DEF OpenBusy, TypeOK, Closed, Finishing, Control,
        ClosedToNew, Reassign, Closing, At, Move, Link, poolVars, backendVars,
        httpVars, pathVars, loopVars, ctlVars
<1>9. ASSUME NEW b \in Backend, ClosedConnectFails(b)
      PROVE  OpenBusy'
    <2>1. cur \in busy /\ http[b] = None /\ http' = http /\ busy' = busy \ {cur}
        BY <1>9, FreeBackendFacts DEF ClosedConnectFails, Reassign
    <2>2. open' \subseteq (open \ {cur}) \cup {b}
        BY <1>9 DEF ClosedConnectFails
    <2> QED BY <2>1, <2>2 DEF OpenBusy
<1>10. CASE ClosedFree
    BY <1>10, PoolAssumption DEF OpenBusy, TypeOK, Closed, Finishing, Control,
        ClosedFree, Closing, At, Abort, ForgetIdle, poolVars, backendVars,
        httpVars, pathVars, loopVars, ctlVars
<1>11. CASE FinishUnanswered
    BY <1>11, PoolAssumption DEF OpenBusy, TypeOK, Closed, Finishing, Control,
        FinishUnanswered, At, Abort, Unlink, poolVars, backendVars, httpVars,
        pathVars, loopVars, ctlVars
<1>12. ASSUME NEW k \in 1..Len(pending), FinishToPending(k)
      PROVE  OpenBusy'
    BY <1>12, PoolAssumption DEF OpenBusy, TypeOK, Closed, Finishing, Control,
        FinishToPending, At, GiveUp, poolVars, backendVars, httpVars,
        pathVars, loopVars, ctlVars
<1>13. CASE FinishToIdle
    BY <1>13, PoolAssumption DEF OpenBusy, TypeOK, Closed, Finishing, Control,
        FinishToIdle, At, ToIdle, Unlink, GiveUp, poolVars, backendVars,
        httpVars, pathVars, loopVars, ctlVars
<1>14. ASSUME NEW h \in Http, HttpTimeout(h)
      PROVE  OpenBusy'
    BY <1>14, PoolAssumption DEF OpenBusy, TypeOK, Closed, Finishing, Control,
        HttpTimeout, At, Listed, poolVars, backendVars, httpVars, pathVars,
        loopVars, ctlVars
<1> QED BY <1>1, <1>2, <1>3, <1>4, <1>5, <1>6, <1>7, <1>8, <1>9, <1>10, <1>11,
    <1>12, <1>13, <1>14

(* What main() gives up is closed.                                         *)
LEMMA ClosedStep ==
    ASSUME IInv, [Next]_vars, ~ Restart
    PROVE  Closed'
<1> USE DEF IInv
<1>1. \/ UNCHANGED <<newB, oldB, open>>
      \/ EpollWait
      \/ HandlerEnd
      \/ (\E p \in Path, h \in Http, b \in Backend : NewConnected(p, h, b))
      \/ ClosedUnanswered
      \/ (\E b \in Backend : ClosedToIdle(b))
      \/ (\E b \in Backend : ClosedToNew(b))
      \/ (\E b \in Backend : ClosedConnectFails(b))
      \/ ClosedFree
      \/ FinishUnanswered
      \/ (\E h \in Http : HttpTimeout(h))
    BY Structural DEF NewOnIdle, Register, At, Link, NewPending,
        FinishToPending, GiveUp, FinishToIdle, ToIdle, Unlink, FinishRefused,
        RefusePending, Detach, Abort, poolVars, backendVars, httpVars,
        pathVars, loopVars, ctlVars
<1>2. CASE UNCHANGED <<newB, oldB, open>>
    BY <1>2 DEF Closed
<1>3. CASE EpollWait
    BY <1>3, PoolAssumption DEF Closed, TypeOK, FreshBackend, EpollWait, At,
        AgeHttp, poolVars, backendVars, httpVars, pathVars, loopVars, ctlVars
<1>4. CASE HandlerEnd
    BY <1>4, PoolAssumption DEF Closed, TypeOK, FreshBackend, HandlerEnd, At,
        poolVars, backendVars, httpVars, pathVars, loopVars, ctlVars
<1>5. ASSUME NEW p \in Path, NEW h \in Http, NEW b \in Backend, NewConnected(p, h, b)
      PROVE  Closed'
    BY <1>5, PoolAssumption DEF Closed, TypeOK, FreshBackend, NewConnected,
        Register, At, Link, poolVars, backendVars, httpVars, pathVars,
        loopVars, ctlVars
<1>6. CASE ClosedUnanswered
    BY <1>6, PoolAssumption DEF Closed, TypeOK, FreshBackend,
        ClosedUnanswered, Closing, At, RefusePending, GiveUp, poolVars,
        backendVars, httpVars, pathVars, loopVars, ctlVars
<1>7. ASSUME NEW b \in Backend, ClosedToIdle(b)
      PROVE  Closed'
    BY <1>7, PoolAssumption DEF Closed, TypeOK, FreshBackend, ClosedToIdle,
        Reassign, Closing, At, Move, Link, poolVars, backendVars, httpVars,
        pathVars, loopVars, ctlVars
<1>8. ASSUME NEW b \in Backend, ClosedToNew(b)
      PROVE  Closed'
    BY <1>8, PoolAssumption DEF Closed, TypeOK, FreshBackend, ClosedToNew,
        Reassign, Closing, At, Move, Link, poolVars, backendVars, httpVars,
        pathVars, loopVars, ctlVars
<1>9. ASSUME NEW b \in Backend, ClosedConnectFails(b)
      PROVE  Closed'
    BY <1>9, PoolAssumption DEF Closed, TypeOK, FreshBackend,
        ClosedConnectFails, Reassign, Closing, At, poolVars, backendVars,
        httpVars, pathVars, loopVars, ctlVars
<1>10. CASE ClosedFree
    BY <1>10, PoolAssumption DEF Closed, TypeOK, FreshBackend, ClosedFree,
        Closing, At, Abort, ForgetIdle, poolVars, backendVars, httpVars,
        pathVars, loopVars, ctlVars
<1>11. CASE FinishUnanswered
    BY <1>11, PoolAssumption DEF Closed, TypeOK, FreshBackend,
        FinishUnanswered, At, Abort, Unlink, poolVars, backendVars, httpVars,
        pathVars, loopVars, ctlVars
<1>12. ASSUME NEW h \in Http, HttpTimeout(h)
      PROVE  Closed'
    BY <1>12, PoolAssumption DEF Closed, TypeOK, FreshBackend, HttpTimeout,
        At, Listed, poolVars, backendVars, httpVars, pathVars, loopVars,
        ctlVars
<1> QED BY <1>1, <1>2, <1>3, <1>4, <1>5, <1>6, <1>7, <1>8, <1>9, <1>10, <1>11,
    <1>12

(* The idle list is empty as long as a download waits.                     *)
LEMMA NoIdleWhilePendingStep ==
    ASSUME IInv, [Next]_vars, ~ Restart
    PROVE  NoIdleWhilePending'
<1> USE DEF IInv
<1>1. \/ UNCHANGED <<idle, pending>>
      \/ EpollWait
      \/ (\E p \in Path, h \in Http, b \in Backend : NewOnIdle(p, h, b))
      \/ (\E p \in Path, h \in Http : NewPending(p, h))
      \/ ClosedUnanswered
      \/ (\E b \in Backend : ClosedToIdle(b))
      \/ ClosedFree
      \/ (\E k \in 1..Len(pending) : FinishToPending(k))
      \/ FinishToIdle
      \/ FinishRefused
      \/ (\E h \in Http : HttpTimeout(h))
    BY Structural DEF HandlerEnd, At, NewConnected, Register, Link,
        ClosedToNew, Reassign, Closing, Move, ClosedConnectFails,
        FinishUnanswered, Abort, Unlink, Detach, poolVars, backendVars,
        httpVars, pathVars, loopVars, ctlVars
<1>2. CASE UNCHANGED <<idle, pending>>
    BY <1>2 DEF NoIdleWhilePending
<1>3. CASE EpollWait
    BY <1>3, PoolAssumption DEF NoIdleWhilePending, TypeOK, RefusePending,
        Erase, EpollWait, At, AgeHttp, poolVars, backendVars, httpVars,
        pathVars, loopVars, ctlVars
<1>4. ASSUME NEW p \in Path, NEW h \in Http, NEW b \in Backend, NewOnIdle(p, h, b)
      PROVE  NoIdleWhilePending'
    BY <1>4, PoolAssumption DEF NoIdleWhilePending, TypeOK, RefusePending,
        Erase, NewOnIdle, Register, At, Link, poolVars, backendVars, httpVars,
        pathVars, loopVars, ctlVars
<1>5. ASSUME NEW p \in Path, NEW h \in Http, NewPending(p, h)
      PROVE  NoIdleWhilePending'
    BY <1>5, PoolAssumption DEF NoIdleWhilePending, TypeOK, RefusePending,
        Erase, NewPending, Register, At, poolVars, backendVars, httpVars,
        pathVars, loopVars, ctlVars
<1>6. CASE ClosedUnanswered
    BY <1>6, PoolAssumption DEF NoIdleWhilePending, TypeOK, RefusePending,
        Erase, ClosedUnanswered, Closing, At, GiveUp, poolVars, backendVars,
        httpVars, pathVars, loopVars, ctlVars
<1>7. ASSUME NEW b \in Backend, ClosedToIdle(b)
      PROVE  NoIdleWhilePending'
    BY <1>7, PoolAssumption DEF NoIdleWhilePending, TypeOK, RefusePending,
        Erase, ClosedToIdle, Reassign, Closing, At, Move, Link, poolVars,
        backendVars, httpVars, pathVars, loopVars, ctlVars
<1>8. CASE ClosedFree
    BY <1>8, PoolAssumption DEF NoIdleWhilePending, TypeOK, RefusePending,
        Erase, ClosedFree, Closing, At, Abort, ForgetIdle, poolVars,
        backendVars, httpVars, pathVars, loopVars, ctlVars
<1>9. ASSUME NEW k \in 1..Len(pending), FinishToPending(k)
      PROVE  NoIdleWhilePending'
    BY <1>9, PoolAssumption DEF NoIdleWhilePending, TypeOK, RefusePending,
        Erase, FinishToPending, At, GiveUp, poolVars, backendVars, httpVars,
        pathVars, loopVars, ctlVars
<1>10. CASE FinishToIdle
    BY <1>10, PoolAssumption DEF NoIdleWhilePending, TypeOK, RefusePending,
        Erase, FinishToIdle, At, ToIdle, Unlink, GiveUp, poolVars,
        backendVars, httpVars, pathVars, loopVars, ctlVars
<1>11. CASE FinishRefused
    BY <1>11, PoolAssumption DEF NoIdleWhilePending, TypeOK, RefusePending,
        Erase, FinishRefused, At, GiveUp, poolVars, backendVars, httpVars,
        pathVars, loopVars, ctlVars
<1>12. ASSUME NEW h \in Http, HttpTimeout(h)
      PROVE  NoIdleWhilePending'
    BY <1>12, PoolAssumption DEF NoIdleWhilePending, TypeOK, RefusePending,
        Erase, HttpTimeout, At, Listed, poolVars, backendVars, httpVars,
        pathVars, loopVars, ctlVars
<1> QED BY <1>1, <1>2, <1>3, <1>4, <1>5, <1>6, <1>7, <1>8, <1>9, <1>10, <1>11,
    <1>12

(* What is idle can be used.                                               *)
LEMMA IdleIsFreeStep ==
    ASSUME IInv, [Next]_vars, ~ Restart
    PROVE  IdleIsFree'
<1> USE DEF IInv
<1>1. \/ UNCHANGED <<idle, open, http>> /\ tcp \subseteq tcp'
      \/ EpollWait
      \/ (\E p \in Path, h \in Http, b \in Backend : NewOnIdle(p, h, b))
      \/ (\E p \in Path, h \in Http, b \in Backend : NewConnected(p, h, b))
      \/ ClosedUnanswered
      \/ (\E b \in Backend : ClosedToIdle(b))
      \/ (\E b \in Backend : ClosedToNew(b))
      \/ (\E b \in Backend : ClosedConnectFails(b))
      \/ ClosedFree
      \/ FinishUnanswered
      \/ (\E k \in 1..Len(pending) : FinishToPending(k))
      \/ FinishToIdle
      \/ (\E h \in Http : HttpTimeout(h))
    BY Structural DEF HandlerEnd, At, NewPending, Register, FinishRefused,
        RefusePending, GiveUp, Detach, Abort, Unlink, poolVars, backendVars,
        httpVars, pathVars, loopVars, ctlVars
<1>2. CASE UNCHANGED <<idle, open, http>> /\ tcp \subseteq tcp'
    BY <1>2 DEF IdleIsFree
<1>3. CASE EpollWait
    BY <1>3, PoolAssumption DEF IdleIsFree, TypeOK, Finishing, Control, Links,
        EpollWait, At, AgeHttp, poolVars, backendVars, httpVars, pathVars,
        loopVars, ctlVars
<1>4. ASSUME NEW p \in Path, NEW h \in Http, NEW b \in Backend, NewOnIdle(p, h, b)
      PROVE  IdleIsFree'
    BY <1>4, PoolAssumption DEF IdleIsFree, TypeOK, Finishing, Control, Links,
        NewOnIdle, Register, At, Link, poolVars, backendVars, httpVars,
        pathVars, loopVars, ctlVars
<1>5. ASSUME NEW p \in Path, NEW h \in Http, NEW b \in Backend, NewConnected(p, h, b)
      PROVE  IdleIsFree'
    BY <1>5, PoolAssumption DEF IdleIsFree, TypeOK, Finishing, Control, Links,
        NewConnected, Register, At, Link, poolVars, backendVars, httpVars,
        pathVars, loopVars, ctlVars
<1>6. CASE ClosedUnanswered
    BY <1>6, PoolAssumption DEF IdleIsFree, TypeOK, Finishing, Control, Links,
        ClosedUnanswered, Closing, At, RefusePending, GiveUp, poolVars,
        backendVars, httpVars, pathVars, loopVars, ctlVars
<1>7. ASSUME NEW b \in Backend, ClosedToIdle(b)
      PROVE  IdleIsFree'
    BY <1>7, PoolAssumption DEF IdleIsFree, TypeOK, Finishing, Control, Links,
        ClosedToIdle, Reassign, Closing, At, Move, Link, poolVars,
        backendVars, httpVars, pathVars, loopVars, ctlVars
<1>8. ASSUME NEW b \in Backend, ClosedToNew(b)
      PROVE  IdleIsFree'
    BY <1>8, PoolAssumption DEF IdleIsFree, TypeOK, Finishing, Control, Links,
        ClosedToNew, Reassign, Closing, At, Move, Link, poolVars, backendVars,
        httpVars, pathVars, loopVars, ctlVars
<1>9. ASSUME NEW b \in Backend, ClosedConnectFails(b)
      PROVE  IdleIsFree'
    BY <1>9, PoolAssumption DEF IdleIsFree, TypeOK, Finishing, Control, Links,
        ClosedConnectFails, Reassign, Closing, At, poolVars, backendVars,
        httpVars, pathVars, loopVars, ctlVars
<1>10. CASE ClosedFree
    BY <1>10, PoolAssumption DEF IdleIsFree, TypeOK, Finishing, Control,
        Links, ClosedFree, Closing, At, Abort, ForgetIdle, poolVars,
        backendVars, httpVars, pathVars, loopVars, ctlVars
<1>11. CASE FinishUnanswered
    BY <1>11, PoolAssumption DEF IdleIsFree, TypeOK, Finishing, Control,
        Links, FinishUnanswered, At, Abort, Unlink, poolVars, backendVars,
        httpVars, pathVars, loopVars, ctlVars
<1>12. ASSUME NEW k \in 1..Len(pending), FinishToPending(k)
      PROVE  IdleIsFree'
    BY <1>12, PoolAssumption DEF IdleIsFree, TypeOK, Finishing, Control,
        Links, FinishToPending, At, GiveUp, poolVars, backendVars, httpVars,
        pathVars, loopVars, ctlVars
<1>13. CASE FinishToIdle
    BY <1>13, PoolAssumption DEF IdleIsFree, TypeOK, Finishing, Control,
        Links, FinishToIdle, At, ToIdle, Unlink, GiveUp, poolVars,
        backendVars, httpVars, pathVars, loopVars, ctlVars
<1>14. ASSUME NEW h \in Http, HttpTimeout(h)
      PROVE  IdleIsFree'
    BY <1>14, PoolAssumption DEF IdleIsFree, TypeOK, Finishing, Control,
        Links, HttpTimeout, At, Listed, poolVars, backendVars, httpVars,
        pathVars, loopVars, ctlVars
<1> QED BY <1>1, <1>2, <1>3, <1>4, <1>5, <1>6, <1>7, <1>8, <1>9, <1>10, <1>11,
    <1>12, <1>13, <1>14

(* What waits is linked to nothing and waits once.                         *)
LEMMA PendingUnlinkedStep ==
    ASSUME IInv, [Next]_vars, ~ Restart
    PROVE  PendingUnlinked'
<1> USE DEF IInv
<1>1. \/ UNCHANGED <<pending, http, backend, live>>
      \/ EpollWait
      \/ (\E p \in Path, h \in Http, b \in Backend : NewOnIdle(p, h, b))
      \/ (\E p \in Path, h \in Http, b \in Backend : NewConnected(p, h, b))
      \/ (\E p \in Path, h \in Http : NewPending(p, h))
      \/ ClosedUnanswered
      \/ (\E b \in Backend : ClosedToIdle(b))
      \/ (\E b \in Backend : ClosedToNew(b))
      \/ FinishUnanswered
      \/ (\E k \in 1..Len(pending) : FinishToPending(k))
      \/ FinishToIdle
      \/ FinishRefused
      \/ Detach
      \/ (\E h \in Http : HttpTimeout(h))
    BY Structural DEF HandlerEnd, At, ClosedConnectFails, Reassign, Closing,
        ClosedFree, Abort, ForgetIdle, poolVars, backendVars, httpVars,
        pathVars, loopVars, ctlVars
<1>2. CASE UNCHANGED <<pending, http, backend, live>>
    BY <1>2 DEF PendingUnlinked, Waiting
<1>3. CASE EpollWait
    <2>1. /\ pending' = pending /\ live' = live
          /\ \A c \in Backend : http'[c] \in {http[c], None}
          /\ \A g \in Http : backend'[g] # None => backend[g] # None
        BY <1>3 DEF TypeOK, EpollWait, poolVars, backendVars, httpVars
    <2> QED BY <2>1, WaitingType, PoolAssumption DEF PendingUnlinked, Waiting
<1>4. ASSUME NEW p \in Path, NEW h \in Http, NEW b \in Backend, NewOnIdle(p, h, b)
      PROVE  PendingUnlinked'
    <2>1. h \notin Waiting /\ h \in Http
        BY <1>4, FreshHttpFacts DEF NewOnIdle, Register
    <2>2. /\ pending' = pending /\ live \subseteq live'
          /\ \A c \in Backend : http'[c] = http[c] \/ http'[c] = h
          /\ \A g \in Http : backend'[g] # None => backend[g] # None \/ g = h
        BY <1>4 DEF TypeOK, NewOnIdle, Register, Link
    <2> QED BY <2>1, <2>2, WaitingType DEF PendingUnlinked, Waiting
<1>5. ASSUME NEW p \in Path, NEW h \in Http, NEW b \in Backend, NewConnected(p, h, b)
      PROVE  PendingUnlinked'
    <2>1. h \notin Waiting /\ h \in Http
        BY <1>5, FreshHttpFacts DEF NewConnected, Register
    <2>2. /\ pending' = pending /\ live \subseteq live'
          /\ \A c \in Backend : http'[c] = http[c] \/ http'[c] = h
          /\ \A g \in Http : backend'[g] # None => backend[g] # None \/ g = h
        BY <1>5 DEF TypeOK, NewConnected, Register, Link
    <2> QED BY <2>1, <2>2, WaitingType DEF PendingUnlinked, Waiting
<1>6. ASSUME NEW p \in Path, NEW h \in Http, NewPending(p, h)
      PROVE  PendingUnlinked'
    <2>1. /\ h \in Http /\ h \notin Waiting /\ backend[h] = None
          /\ \A b \in Backend : http[b] # h
        BY <1>6, FreshHttpFacts DEF NewPending, Register
    <2>2. /\ pending' = Append(pending, h) /\ live' = live \cup {h} /\ http' = http
          /\ backend' = backend
        BY <1>6, <2>1 DEF TypeOK, NewPending, Register, backendVars
    <2>3. pending \in Seq(Http) /\ \A i \in 1..Len(pending) : pending[i] \in Waiting
        BY DEF TypeOK, Waiting
    <2>4. /\ Len(pending') = Len(pending) + 1 /\ Len(pending) \in Nat
          /\ \A i \in 1..Len(pending') : pending'[i] = IF i = Len(pending) + 1 THEN h ELSE pending[i]
        BY <2>1, <2>2, <2>3
    <2>5. Waiting' \subseteq Waiting \cup {h}
        BY <2>3, <2>4 DEF Waiting
    <2>6. \A i, j \in 1..Len(pending') : pending'[i] = pending'[j] => i = j
        BY <2>1, <2>3, <2>4 DEF PendingUnlinked
    <2> QED BY <2>1, <2>2, <2>5, <2>6 DEF PendingUnlinked
<1>7. CASE ClosedUnanswered
    <2>1. PICK H : GivesUp(H)
        BY <1>7, RefuseGivesUp DEF ClosedUnanswered
    <2>2. http' = http /\ \A h \in Http : backend'[h] # None => backend[h] # None
        BY <1>7 DEF TypeOK, ClosedUnanswered, backendVars
    <2> QED BY <2>1, <2>2, WaitingType DEF PendingUnlinked, GivesUp
<1>8. ASSUME NEW b \in Backend, ClosedToIdle(b)
      PROVE  PendingUnlinked'
    <2>1. /\ http[cur] \in Http /\ http[cur] \notin Waiting
        BY <1>8 DEF TypeOK, Control, PendingUnlinked, ClosedToIdle, Reassign, Closing, At
    <2>2. /\ pending' = pending /\ live' = live
          /\ \A c \in Backend : http'[c] \in {http[c], http[cur], None}
          /\ \A g \in Http : backend'[g] # None => backend[g] # None \/ g = http[cur]
        BY <1>8 DEF TypeOK, ClosedToIdle, Reassign, Move, Link
    <2> QED BY <2>1, <2>2, WaitingType, PoolAssumption DEF PendingUnlinked, Waiting
<1>9. ASSUME NEW b \in Backend, ClosedToNew(b)
      PROVE  PendingUnlinked'
    <2>1. /\ http[cur] \in Http /\ http[cur] \notin Waiting
        BY <1>9 DEF TypeOK, Control, PendingUnlinked, ClosedToNew, Reassign, Closing, At
    <2>2. /\ pending' = pending /\ live' = live
          /\ \A c \in Backend : http'[c] \in {http[c], http[cur], None}
          /\ \A g \in Http : backend'[g] # None => backend[g] # None \/ g = http[cur]
        BY <1>9 DEF TypeOK, ClosedToNew, Reassign, Move, Link
    <2> QED BY <2>1, <2>2, WaitingType, PoolAssumption DEF PendingUnlinked, Waiting
<1>10. CASE FinishUnanswered
    <2>1. /\ pending' = pending /\ live' = live
          /\ \A c \in Backend : http'[c] \in {http[c], None}
          /\ \A g \in Http : backend'[g] # None => backend[g] # None
        BY <1>10 DEF TypeOK, FinishUnanswered, Abort, Unlink, poolVars, backendVars,
            httpVars
    <2> QED BY <2>1, WaitingType, PoolAssumption DEF PendingUnlinked, Waiting
<1>11. ASSUME NEW k \in 1..Len(pending), FinishToPending(k)
      PROVE  PendingUnlinked'
    <2>1. PICK H : GivesUp(H) /\ pending[k] \notin H \cup Waiting'
        BY <1>11, ServeGivesUp
    <2>2. /\ \A b \in Backend : http'[b] = http[b] \/ http'[b] = pending[k]
          /\ \A h \in Http : backend'[h] # None => backend[h] # None \/ h = pending[k]
        BY <1>11 DEF TypeOK, FinishToPending
    <2> QED BY <2>1, <2>2, WaitingType DEF PendingUnlinked, GivesUp
<1>12. CASE FinishToIdle
    <2>1. GivesUp(Waiting) /\ Waiting' = {}
        BY <1>12, IdleGivesUp
    <2> QED BY <2>1 DEF PendingUnlinked, GivesUp
<1>13. CASE FinishRefused
    <2>1. PICK H : GivesUp(H)
        BY <1>13, RefuseGivesUp DEF FinishRefused
    <2>2. http' = http /\ \A h \in Http : backend'[h] # None => backend[h] # None
        BY <1>13 DEF TypeOK, FinishRefused, backendVars
    <2> QED BY <2>1, <2>2, WaitingType DEF PendingUnlinked, GivesUp
<1>14. CASE Detach
    <2>1. rel \in Http /\ rel \notin Waiting
        BY <1>14 DEF Control, Leaving, Detach, At
    <2>2. UNCHANGED <<pending, http>> /\ live \ {rel} \subseteq live'
        BY <1>14 DEF Detach, Abort, poolVars, backendVars, httpVars
    <2>3. \A h \in Http : backend'[h] # None => backend[h] # None
        BY <1>14 DEF TypeOK, Detach, Abort, Unlink, httpVars
    <2>4. Waiting' = Waiting
        BY <2>2 DEF Waiting
    <2> QED BY <2>1, <2>2, <2>3, <2>4, WaitingType DEF PendingUnlinked
<1>15. ASSUME NEW h \in Http, HttpTimeout(h)
      PROVE  PendingUnlinked'
    <2>1. \/ pending' = pending
          \/ pending' = Erase(pending, h)
        BY <1>15 DEF HttpTimeout
    <2>2. UNCHANGED <<http, backend, live>>
        BY <1>15 DEF HttpTimeout
    <2>3. pending \in Seq(Http) /\ \A i, j \in 1..Len(pending) : pending[i] = pending[j] => i = j
        BY DEF TypeOK, PendingUnlinked
    <2>4. /\ \A i \in 1..Len(pending') : \E j \in 1..Len(pending) : pending'[i] = pending[j]
          /\ \A i, j \in 1..Len(pending') : pending'[i] = pending'[j] => i = j
        <3>1. CASE pending' = pending
            BY <2>3, <3>1
        <3>2. CASE pending' = Erase(pending, h)
            <4>1. /\ \A i \in 1..Len(Erase(pending, h)) :
                        \E j \in 1..Len(pending) : Erase(pending, h)[i] = pending[j]
                  /\ \A i, j \in 1..Len(Erase(pending, h)) :
                        Erase(pending, h)[i] = Erase(pending, h)[j] => i = j
                BY <2>3, EraseSeq
            <4> QED BY <3>2, <4>1
        <3> QED BY <2>1, <3>1, <3>2
    <2>5. Waiting' \subseteq Waiting
        BY <2>4 DEF Waiting
    <2> QED BY <2>2, <2>4, <2>5, WaitingType DEF PendingUnlinked
<1> QED BY <1>1, <1>2, <1>3, <1>4, <1>5, <1>6, <1>7, <1>8, <1>9, <1>10, <1>11,
    <1>12, <1>13, <1>14, <1>15

-----------------------------------------------------------------------------
(* The limit.                                                              *)

LEMMA PoolBoundStep ==
    ASSUME IInv, [Next]_vars, ~ Restart
    PROVE  PoolBound'
<1> USE DEF IInv
<1>0. /\ busy \in SUBSET Backend /\ idle \in SUBSET Backend
      /\ IsFiniteSet(busy) /\ IsFiniteSet(idle) /\ IsFiniteSet(busy \cup idle)
      /\ Cardinality(busy \cup idle) \in Nat /\ maxBackend \in Nat
    <2>1. busy \in SUBSET Backend /\ idle \in SUBSET Backend
        BY DEF TypeOK
    <2> QED BY <2>1, PoolAssumption, FS_Subset, FS_CardinalityType
<1>1. \/ busy' \cup idle' \subseteq busy \cup idle /\ busy' \cap idle' = {}
      \/ \E p \in Path, h \in Http, b \in Backend : NewConnected(p, h, b)
      \/ \E b \in Backend : ClosedToNew(b)
    <2>1. \/ UNCHANGED <<busy, idle>>
          \/ EpollWait
          \/ \E p \in Path, h \in Http, b \in Backend : NewOnIdle(p, h, b)
          \/ \E p \in Path, h \in Http, b \in Backend : NewConnected(p, h, b)
          \/ ClosedUnanswered
          \/ \E b \in Backend : ClosedToIdle(b)
          \/ \E b \in Backend : ClosedToNew(b)
          \/ \E b \in Backend : ClosedConnectFails(b)
          \/ ClosedFree \/ FinishUnanswered \/ FinishToIdle
        BY Structural DEF HandlerEnd, NewPending, FinishToPending, FinishRefused, Detach,
            HttpTimeout, Abort, Register, poolVars
    <2>2. CASE UNCHANGED <<busy, idle>> \/ EpollWait \/ ClosedUnanswered \/ FinishUnanswered
        BY <2>2 DEF PoolBound, EpollWait, ClosedUnanswered, FinishUnanswered, Abort,
            poolVars
    <2>3. CASE \E p \in Path, h \in Http, b \in Backend : NewOnIdle(p, h, b)
        BY <2>3 DEF PoolBound, NewOnIdle
    <2>4. CASE (\E b \in Backend : ClosedToIdle(b)) \/ (\E b \in Backend : ClosedConnectFails(b)) \/ ClosedFree
        BY <2>4 DEF PoolBound, ClosedToIdle, ClosedConnectFails, ClosedFree,
            Reassign, ForgetIdle, Abort, poolVars
    <2>5. CASE FinishToIdle
        BY <2>5 DEF PoolBound, Finishing, FinishToIdle, ToIdle, At
    <2> QED BY <2>1, <2>2, <2>3, <2>4, <2>5
<1>2. CASE busy' \cup idle' \subseteq busy \cup idle /\ busy' \cap idle' = {}
    BY <1>0, <1>2, FS_Subset, FS_CardinalityType DEF PoolBound
<1>3. ASSUME NEW p \in Path, NEW h \in Http, NEW b \in Backend, NewConnected(p, h, b)
      PROVE  PoolBound'
    <2>1. idle' = {} /\ busy' = busy \cup {b} /\ Cardinality(busy) < maxBackend
        BY <1>3 DEF NewConnected, BelowLimit
    <2>2. Cardinality(busy \cup {b}) \in Nat /\ Cardinality(busy) \in Nat
             /\ Cardinality(busy \cup {b}) <= Cardinality(busy) + 1
        <3>1. /\ Cardinality(busy) \in Nat
              /\ Cardinality(busy \cup {b}) = IF b \in busy THEN Cardinality(busy) ELSE Cardinality(busy) + 1
            BY <1>0, FS_AddElement, FS_CardinalityType
        <3> QED BY <3>1
    <2>3. busy' \cup idle' = busy \cup {b}
        BY <2>1
    <2> QED BY <1>0, <2>1, <2>2, <2>3 DEF PoolBound
<1>4. ASSUME NEW b \in Backend, ClosedToNew(b)
      PROVE  PoolBound'
    <2>1. idle = {} /\ idle' = {} /\ cur \in busy /\ busy' = (busy \ {cur}) \cup {b}
        BY <1>4 DEF ClosedToNew, Reassign
    <2>2. IsFiniteSet(busy \ {cur}) /\ Cardinality(busy \ {cur}) = Cardinality(busy) - 1
        BY <1>0, <2>1, FS_RemoveElement
    <2> DEFINE rest == busy \ {cur}
    <2>3. Cardinality((busy \ {cur}) \cup {b}) <= Cardinality(busy \ {cur}) + 1
        <3>1. IsFiniteSet(rest)
            BY <2>2
        <3> HIDE DEF rest
        <3>2. /\ Cardinality(rest) \in Nat
              /\ Cardinality(rest \cup {b}) = IF b \in rest THEN Cardinality(rest) ELSE Cardinality(rest) + 1
            BY <3>1, FS_AddElement, FS_CardinalityType
        <3>3. Cardinality(rest \cup {b}) <= Cardinality(rest) + 1
            BY <3>2
        <3> QED BY <3>3 DEF rest
    <2>4. busy' \cup idle' = (busy \ {cur}) \cup {b} /\ busy \cup idle = busy
        BY <2>1
    <2>5. Cardinality(busy) \in Nat /\ Cardinality((busy \ {cur}) \cup {b}) \in Nat
        BY <1>0, <2>2, FS_AddElement, FS_CardinalityType
    <2> QED BY <1>0, <2>1, <2>2, <2>3, <2>4, <2>5 DEF PoolBound
<1> QED BY <1>1, <1>2, <1>3, <1>4

-----------------------------------------------------------------------------
(* Refused connections, and disconnectBackend.                             *)

(* No other connection names the download of a linked one.                 *)
LEMMA SoleLink ==
    ASSUME IInv, NEW b \in Backend, http[b] # None, backend[http[b]] = b,
           NEW c \in Backend, http[c] = http[b]
    PROVE  c = b
BY PoolAssumption DEF IInv, Stale

(* A connection names nothing but downloads.                               *)
LEMMA HttpTyped == ASSUME IInv PROVE \A b \in Backend : http[b] # None => http[b] \in Http
BY DEF IInv, TypeOK

(* A connection that names a download that does not name it back is on its *)
(* way to be deleted.                                                      *)
LEMMA StaleStep ==
    ASSUME IInv, [Next]_vars, ~ Restart
    PROVE  Stale'
<1> USE DEF IInv
<1>1. \/ /\ UNCHANGED <<http, backend, newB, oldB>>
         /\ pc = "event" => UNCHANGED <<pc, handler, cur>>
      \/ EpollWait
      \/ HandlerEnd
      \/ (\E p \in Path, h \in Http, b \in Backend : NewOnIdle(p, h, b))
      \/ (\E p \in Path, h \in Http, b \in Backend : NewConnected(p, h, b))
      \/ (\E p \in Path, h \in Http : NewPending(p, h))
      \/ ClosedUnanswered
      \/ (\E b \in Backend : ClosedToIdle(b))
      \/ (\E b \in Backend : ClosedToNew(b))
      \/ FinishUnanswered
      \/ (\E k \in 1..Len(pending) : FinishToPending(k))
      \/ FinishToIdle
      \/ Detach
    BY DEF Next, MainLoop, Handler, Timeout, Request, Event, Join,
        NewConnectFails, ClientGone, ReadNothing, ReadStatusOk, ReadHeaderEnd,
        ReadNoTempFile, ReadComplete, ReadCacheFails, ReadStatusOther, ReadStatusCut,
        ClosedConnectFails, ClosedFree, FinishRefused, BackendTimeout,
        HttpTimeout, HttpCheck, Restart, At, AgeHttp, Link, Abort, Reading,
        Done, StartDisconnect, Closing, Reassign, ForgetIdle, Unlink, Watched,
        Listed, vars, poolVars, backendVars, httpVars, pathVars, loopVars,
        ctlVars
<1>2. CASE /\ UNCHANGED <<http, backend, newB, oldB>>
           /\ pc = "event" => UNCHANGED <<pc, handler, cur>>
    BY <1>2 DEF Stale
<1>3. CASE EpollWait
    <2>1. ASSUME NEW b \in Backend, http'[b] # None, backend'[http'[b]] # b
          PROVE  backend'[http'[b]] = None /\ b \in newB' \cup oldB'
        <3>1. b \notin oldB /\ http'[b] = http[b] /\ http[b] \in Http
            BY <1>3, <2>1 DEF TypeOK, EpollWait
        <3>2. backend[http[b]] # b
            <4> SUFFICES ASSUME backend[http[b]] = b
                         PROVE  FALSE
                OBVIOUS
            <4>1. PICK c \in oldB : http[c] = http[b]
                BY <1>3, <2>1, <3>1 DEF EpollWait
            <4>2. c \in Backend /\ c # b
                BY <3>1, <4>1 DEF TypeOK
            <4> QED BY <2>1, <3>1, <4>1, <4>2, PoolAssumption DEF Stale
        <3>3. backend[http[b]] = None /\ b \in newB \cup oldB
            BY <1>3, <2>1, <3>1, <3>2 DEF Stale, EpollWait, At
        <3> QED BY <1>3, <3>1, <3>3 DEF EpollWait
    <2> QED BY <2>1 DEF Stale
<1>4. CASE HandlerEnd
    <2>1. UNCHANGED <<http, backend, oldB>> /\ newB \subseteq newB'
        BY <1>4 DEF HandlerEnd, httpVars, backendVars
    <2>2. ASSUME NEW b \in Backend, http[b] # None, backend[http[b]] # b
          PROVE  b \notin open
        BY <2>2 DEF OpenBusy, Links
    <2>3. handler = "event" /\ cur \notin open => cur \in newB'
        BY <1>4 DEF HandlerEnd
    <2> QED BY <2>1, <2>2, <2>3 DEF Stale
<1>5. ASSUME NEW p \in Path, NEW h \in Http, NEW b \in Backend, NewOnIdle(p, h, b)
      PROVE  Stale'
    <2>1. h # None /\ b # None /\ \A c \in Backend : http[c] # h
        BY <1>5, FreshHttpFacts, PoolAssumption DEF NewOnIdle, Register
    <2>2. /\ UNCHANGED <<newB, oldB, pc, handler, cur>>
          /\ \A c \in Backend : http'[c] = IF c = b THEN h ELSE http[c]
          /\ \A g \in Http : backend'[g] = IF g = h THEN b ELSE backend[g]
        BY <1>5 DEF TypeOK, NewOnIdle, Register, Link, loopVars, ctlVars
    <2> QED BY <2>1, <2>2 DEF Stale, TypeOK
<1>6. ASSUME NEW p \in Path, NEW h \in Http, NEW b \in Backend, NewConnected(p, h, b)
      PROVE  Stale'
    <2>1. h # None /\ b # None /\ \A c \in Backend : http[c] # h
        BY <1>6, FreshHttpFacts, PoolAssumption DEF NewConnected, Register
    <2>2. /\ UNCHANGED <<newB, oldB, pc, handler, cur>>
          /\ \A c \in Backend : http'[c] = IF c = b THEN h ELSE http[c]
          /\ \A g \in Http : backend'[g] = IF g = h THEN b ELSE backend[g]
        BY <1>6 DEF TypeOK, NewConnected, Register, Link, loopVars, ctlVars
    <2> QED BY <2>1, <2>2 DEF Stale, TypeOK
<1>7. ASSUME NEW p \in Path, NEW h \in Http, NewPending(p, h)
      PROVE  Stale'
    <2>1. h \in Http /\ backend[h] = None
        BY <1>7, FreshHttpFacts DEF NewPending, Register
    <2>2. UNCHANGED <<http, newB, oldB, pc, handler, cur>> /\ backend' = backend
        BY <1>7, <2>1 DEF TypeOK, NewPending, Register, backendVars, loopVars, ctlVars
    <2> QED BY <2>2 DEF Stale
<1>8. CASE ClosedUnanswered
    <2>1. /\ UNCHANGED <<http, newB, oldB, pc, handler, cur>> /\ pc = "event"
          /\ cur \in Backend /\ handler # "none" /\ cur \notin tcp
          /\ \A h \in Http : backend'[h] = IF h = http[cur] THEN None ELSE backend[h]
        BY <1>8, PoolAssumption DEF TypeOK, Control, ClosedUnanswered, Closing, At
    <2>2. http[cur] # None => handler = "event"
        BY <2>1 DEF TimerFree, TypeOK
    <2> SUFFICES ASSUME NEW c \in Backend, http'[c] # None, backend'[http'[c]] # c
                 PROVE  /\ backend'[http'[c]] = None
                        /\ c \in newB' \cup oldB' \/ (pc' = "event" /\ handler' = "event" /\ cur' = c)
        BY DEF Stale
    <2>3. CASE c = cur
        BY <2>1, <2>2, <2>3, HttpTyped
    <2>4. CASE c # cur /\ http[c] = http[cur]
        <3>1. backend[http[c]] # c
            BY <2>1, <2>4, SoleLink
        <3> QED BY <2>1, <2>4, <3>1, HttpTyped DEF Stale
    <2>5. CASE c # cur /\ http[c] # http[cur]
        BY <2>1, <2>5, HttpTyped DEF Stale
    <2> QED BY <2>3, <2>4, <2>5
<1>9. ASSUME NEW b \in Backend, ClosedToIdle(b)
      PROVE  Stale'
    <2>1. /\ http[cur] # None /\ cur \in Backend /\ cur # b /\ cur # None /\ http[cur] \in Http
          /\ backend[http[cur]] = cur /\ http[b] = None
        BY <1>9, FreeBackendFacts, LinksTyped, PoolAssumption DEF Control,
            ClosedToIdle, Reassign, Closing, At
    <2>2. /\ UNCHANGED <<newB, oldB, pc, handler, cur>>
          /\ \A c \in Backend : http'[c] = IF c = b THEN http[cur] ELSE IF c = cur THEN None ELSE http[c]
          /\ \A g \in Http : backend'[g] = IF g = http[cur] THEN b ELSE backend[g]
        BY <1>9, <2>1 DEF TypeOK, ClosedToIdle, Reassign, Move, Link, loopVars
    <2> SUFFICES ASSUME NEW c \in Backend, http'[c] # None, backend'[http'[c]] # c
                 PROVE  /\ backend'[http'[c]] = None
                        /\ c \in newB' \cup oldB' \/ (pc' = "event" /\ handler' = "event" /\ cur' = c)
        BY DEF Stale
    <2>3. c # b /\ c # cur /\ http'[c] = http[c]
        BY <2>1, <2>2
    <2>4. http[c] # http[cur]
        BY <2>1, <2>3, SoleLink
    <2> QED BY <2>2, <2>3, <2>4, HttpTyped DEF Stale
<1>10. ASSUME NEW b \in Backend, ClosedToNew(b)
      PROVE  Stale'
    <2>1. /\ http[cur] # None /\ cur \in Backend /\ cur # b /\ cur # None /\ http[cur] \in Http
          /\ backend[http[cur]] = cur /\ http[b] = None
        BY <1>10, FreeBackendFacts, LinksTyped, PoolAssumption DEF Control,
            ClosedToNew, Reassign, Closing, At
    <2>2. /\ UNCHANGED <<newB, oldB, pc, handler, cur>>
          /\ \A c \in Backend : http'[c] = IF c = b THEN http[cur] ELSE IF c = cur THEN None ELSE http[c]
          /\ \A g \in Http : backend'[g] = IF g = http[cur] THEN b ELSE backend[g]
        BY <1>10, <2>1 DEF TypeOK, ClosedToNew, Reassign, Move, Link, loopVars
    <2> SUFFICES ASSUME NEW c \in Backend, http'[c] # None, backend'[http'[c]] # c
                 PROVE  /\ backend'[http'[c]] = None
                        /\ c \in newB' \cup oldB' \/ (pc' = "event" /\ handler' = "event" /\ cur' = c)
        BY DEF Stale
    <2>3. c # b /\ c # cur /\ http'[c] = http[c]
        BY <2>1, <2>2
    <2>4. http[c] # http[cur]
        BY <2>1, <2>3, SoleLink
    <2> QED BY <2>2, <2>3, <2>4, HttpTyped DEF Stale
<1>11. CASE FinishUnanswered
    <2>1. CASE stage[rel] = "body" /\ cachePath[rel] # None
        BY <1>11, <2>1 DEF FinishUnanswered, Abort, Stale, httpVars, backendVars,
            loopVars, ctlVars
    <2>2. CASE ~(stage[rel] = "body" /\ cachePath[rel] # None)
        <3>1. /\ pc = "finish" /\ cur \in Backend /\ rel \in Http /\ http[cur] = rel /\ backend[rel] = cur
              /\ rel # None /\ cur # None
            BY <1>11, PoolAssumption DEF FinishUnanswered, At, Control, Finishing
        <3>2. /\ UNCHANGED <<newB, oldB>>
              /\ \A c \in Backend : http'[c] = IF c = cur THEN None ELSE http[c]
              /\ \A g \in Http : backend'[g] = IF g = rel THEN None ELSE backend[g]
            BY <1>11, <2>2 DEF TypeOK, FinishUnanswered, Unlink, loopVars
        <3> SUFFICES ASSUME NEW c \in Backend, http'[c] # None, backend'[http'[c]] # c
                     PROVE  /\ backend'[http'[c]] = None
                            /\ c \in newB' \cup oldB' \/ (pc' = "event" /\ handler' = "event" /\ cur' = c)
            BY DEF Stale
        <3>3. c # cur /\ http'[c] = http[c]
            BY <3>1, <3>2
        <3>4. http[c] # rel
            BY <3>1, <3>3, SoleLink
        <3> QED BY <3>1, <3>2, <3>3, <3>4, HttpTyped DEF Stale
    <2> QED BY <2>1, <2>2
<1>12. ASSUME NEW k \in 1..Len(pending), FinishToPending(k)
      PROVE  Stale'
    <2> DEFINE next == pending[k]
    <2>1. next \in Waiting /\ next \in Http
        BY WaitingType DEF Waiting
    <2>2. /\ backend[next] = None /\ (\A c \in Backend : http[c] # next) /\ next # rel
          /\ http[cur] = rel /\ backend[rel] = cur /\ pc = "finish"
          /\ cur \in Backend /\ rel \in Http /\ rel # None /\ cur # None
        BY <1>12, <2>1, PoolAssumption DEF PendingUnlinked, Finishing, Control,
            FinishToPending, At
    <2>3. /\ http' = [http EXCEPT ![cur] = next]
          /\ backend' = [backend EXCEPT ![rel] = None, ![next] = cur]
          /\ UNCHANGED <<newB, oldB>>
        BY <1>12 DEF FinishToPending
    <2> HIDE DEF next
    <2>4. /\ \A c \in Backend : http'[c] = IF c = cur THEN next ELSE http[c]
          /\ \A g \in Http : backend'[g] = IF g = next THEN cur ELSE IF g = rel THEN None ELSE backend[g]
        BY <2>2, <2>3 DEF TypeOK
    <2> SUFFICES ASSUME NEW c \in Backend, http'[c] # None, backend'[http'[c]] # c
                 PROVE  /\ backend'[http'[c]] = None
                        /\ c \in newB' \cup oldB' \/ (pc' = "event" /\ handler' = "event" /\ cur' = c)
        BY DEF Stale
    <2>5. c # cur /\ http'[c] = http[c] /\ http[c] # next
        BY <2>1, <2>2, <2>4
    <2>6. http[c] # rel
        BY <2>2, <2>5, SoleLink
    <2> QED BY <2>2, <2>3, <2>4, <2>5, <2>6, HttpTyped DEF Stale
<1>13. CASE FinishToIdle
    <2>1. /\ pc = "finish" /\ cur \in Backend /\ rel \in Http /\ http[cur] = rel /\ backend[rel] = cur
          /\ rel # None /\ cur # None
        BY <1>13, PoolAssumption DEF FinishToIdle, At, Control, Finishing
    <2>2. /\ UNCHANGED <<newB, oldB>>
          /\ \A c \in Backend : http'[c] = IF c = cur THEN None ELSE http[c]
          /\ \A g \in Http : backend'[g] = IF g = rel THEN None ELSE backend[g]
        BY <1>13 DEF TypeOK, FinishToIdle, ToIdle, Unlink
    <2> SUFFICES ASSUME NEW c \in Backend, http'[c] # None, backend'[http'[c]] # c
                 PROVE  /\ backend'[http'[c]] = None
                        /\ c \in newB' \cup oldB' \/ (pc' = "event" /\ handler' = "event" /\ cur' = c)
        BY DEF Stale
    <2>3. c # cur /\ http'[c] = http[c]
        BY <2>1, <2>2
    <2>4. http[c] # rel
        BY <2>1, <2>3, SoleLink
    <2> QED BY <2>1, <2>2, <2>3, <2>4, HttpTyped DEF Stale
<1>14. CASE Detach
    <2>1. rel \in Http /\ backend[rel] = None /\ pc = "detach"
        BY <1>14 DEF Control, Leaving, Detach, At
    <2>2. /\ UNCHANGED <<http, newB, oldB>>
          /\ backend' = backend \/ backend' = [backend EXCEPT ![rel] = None]
        BY <1>14 DEF Detach, Abort, Unlink, loopVars, backendVars, httpVars
    <2>3. backend' = backend
        BY <2>1, <2>2 DEF TypeOK
    <2> QED BY <2>1, <2>2, <2>3 DEF Stale
<1> QED BY <1>1, <1>2, <1>3, <1>4, <1>5, <1>6, <1>7, <1>8, <1>9, <1>10, <1>11,
    <1>12, <1>13, <1>14

(* A request of a client runs between the handlers.                        *)
LEMMA RequestControl ==
    ASSUME Request
    PROVE  pc = "loop" /\ pc' = "loop" /\ crashed' \in {"no", "tryConnectInternal"}
BY DEF Request, Join, NewOnIdle, NewConnected, NewPending, NewConnectFails, Register, At,
    Abort, ctlVars

(* disconnectBackend is entered with a connection that is busy with the    *)
(* download it disconnects.                                                *)
LEMMA FinishingStep ==
    ASSUME IInv, [Next]_vars, ~ Restart
    PROVE  Finishing'
<1> USE DEF IInv
<1>1. \/ pc' = "finish" => pc = "finish" /\ UNCHANGED <<cur, rel, busy, http, backend>>
      \/ ReadComplete \/ ReadCacheFails \/ ReadStatusOther \/ ReadStatusCut
      \/ \E b \in Backend : BackendTimeout(b)
    BY RequestControl DEF Next, MainLoop, Handler, Timeout, EpollWait, Event,
        HandlerEnd, ClientGone, ReadNothing, ReadStatusOk, ReadHeaderEnd,
        ReadNoTempFile, ClosedUnanswered, ClosedToIdle, ClosedToNew,
        ClosedConnectFails, ClosedFree, FinishUnanswered, FinishToPending,
        FinishToIdle, FinishRefused, Detach, HttpTimeout, HttpCheck, Restart,
        At, Link, Abort, Reading, StartDisconnect, Closing, Reassign, Move,
        ForgetIdle, Unlink, ToIdle, Watched, Listed, vars, poolVars,
        backendVars, httpVars, pathVars, loopVars, ctlVars
<1>2. CASE pc' = "finish" => pc = "finish" /\ UNCHANGED <<cur, rel, busy, http, backend>>
    BY <1>2 DEF Finishing
<1>3. CASE ReadComplete \/ ReadCacheFails \/ ReadStatusOther \/ ReadStatusCut
    <2>1. /\ pc = "read" /\ cur \in open /\ http[cur] # None
          /\ rel' = http[cur] /\ UNCHANGED <<cur, busy, http, backend>>
        BY <1>3 DEF ReadComplete, ReadCacheFails, ReadStatusOther, ReadStatusCut, Done, Reading,
            At, StartDisconnect, poolVars, backendVars, httpVars
    <2>2. cur \in busy
        BY <2>1 DEF Control, OpenBusy
    <2> QED BY <2>1, <2>2 DEF Links, Finishing
<1>4. ASSUME NEW b \in Backend, BackendTimeout(b)
      PROVE  Finishing'
    BY <1>4 DEF BackendTimeout, Watched, Abort, At, Finishing, Links, poolVars,
        backendVars, httpVars, ctlVars
<1> QED BY <1>1, <1>2, <1>3, <1>4

(* What disconnectBackend has unlinked stays so until its last assertion.  *)
LEMMA LeavingStep ==
    ASSUME IInv, [Next]_vars, ~ Restart
    PROVE  Leaving'
<1> USE DEF IInv
<1>1. \/ pc' \in {"refused", "detach"} =>
            pc \in {"refused", "detach"} /\ UNCHANGED <<rel, backend, pending>>
      \/ FinishUnanswered \/ FinishToIdle \/ FinishRefused
      \/ \E k \in 1..Len(pending) : FinishToPending(k)
      \/ \E h \in Http : HttpTimeout(h)
    BY RequestControl DEF Next, MainLoop, Handler, Timeout, EpollWait, Event,
        HandlerEnd, ClientGone, ReadNothing, ReadStatusOk, ReadHeaderEnd,
        ReadNoTempFile, ReadComplete, ReadCacheFails, ReadStatusOther, ReadStatusCut,
        ClosedUnanswered, ClosedToIdle, ClosedToNew, ClosedConnectFails,
        ClosedFree, Detach, BackendTimeout, HttpCheck, Restart, At, Link,
        Abort, Reading, Done, StartDisconnect, Closing, Reassign, Move,
        ForgetIdle, Watched, Listed, vars, poolVars, backendVars, httpVars,
        pathVars, loopVars, ctlVars
<1>2. CASE pc' \in {"refused", "detach"} =>
              pc \in {"refused", "detach"} /\ UNCHANGED <<rel, backend, pending>>
    BY <1>2 DEF Leaving, Waiting
<1>3. CASE FinishUnanswered
    <2>1. CASE stage[rel] = "body" /\ cachePath[rel] # None
        BY <1>3, <2>1 DEF FinishUnanswered, Abort, At, Leaving, ctlVars
    <2>2. CASE ~(stage[rel] = "body" /\ cachePath[rel] # None)
        <3>1. rel \in Http /\ backend[rel] = cur /\ cur # None
            BY <1>3, PoolAssumption DEF FinishUnanswered, At, Control, Finishing
        <3>2. rel \notin Waiting
            BY <3>1 DEF PendingUnlinked
        <3>3. rel' = rel /\ pending' = pending /\ backend' = [backend EXCEPT ![rel] = None]
            BY <1>3, <2>2 DEF FinishUnanswered, Unlink
        <3> QED BY <3>1, <3>2, <3>3 DEF Leaving, Waiting, TypeOK
    <2> QED BY <2>1, <2>2
<1>4. CASE FinishToIdle
    <2>1. rel \in Http /\ rel' = rel /\ Waiting' = {} /\ backend' = [backend EXCEPT ![rel] = None]
        BY <1>4, IdleGivesUp DEF FinishToIdle, ToIdle, Unlink, At, Control
    <2> QED BY <2>1 DEF Leaving, TypeOK
<1>5. CASE FinishRefused
    <2>1. PICK H : GivesUp(H)
        BY <1>5, RefuseGivesUp DEF FinishRefused
    <2> QED BY <1>5, <2>1 DEF Leaving, GivesUp, FinishRefused, At
<1>6. ASSUME NEW k \in 1..Len(pending), FinishToPending(k)
      PROVE  Leaving'
    <2>1. PICK H : GivesUp(H)
        BY <1>6, ServeGivesUp
    <2>2. rel \in Http /\ backend[rel] = cur /\ cur # None /\ rel' = rel
        BY <1>6, PoolAssumption DEF FinishToPending, At, Control, Finishing
    <2>3. rel \notin Waiting /\ pending[k] \in Waiting /\ pending[k] \in Http
        BY <2>2, WaitingType DEF PendingUnlinked, Waiting
    <2>4. backend' = [backend EXCEPT ![rel] = None, ![pending[k]] = cur]
        BY <1>6 DEF FinishToPending
    <2>5. backend'[rel] = None
        BY <2>2, <2>3, <2>4 DEF TypeOK
    <2> QED BY <2>1, <2>2, <2>3, <2>5 DEF Leaving, GivesUp
<1>7. ASSUME NEW h \in Http, HttpTimeout(h)
      PROVE  Leaving'
    <2>1. CASE backend[h] # None
        BY <1>7, <2>1 DEF HttpTimeout, Leaving, At, ctlVars
    <2>2. CASE backend[h] = None
        <3>1. /\ rel' = h /\ pending' = Erase(pending, h) /\ backend' = backend
            BY <1>7, <2>2 DEF HttpTimeout
        <3>2. \A i \in 1..Len(Erase(pending, h)) : Erase(pending, h)[i] # h
            <4>1. pending \in Seq(Http) /\ \A i, j \in 1..Len(pending) : pending[i] = pending[j] => i = j
                BY DEF TypeOK, PendingUnlinked
            <4> QED BY <4>1, EraseSeq
        <3>3. h \notin Waiting'
            BY <3>1, <3>2 DEF Waiting
        <3> QED BY <2>2, <3>1, <3>3 DEF Leaving
    <2> QED BY <2>1, <2>2
<1> QED BY <1>1, <1>2, <1>3, <1>4, <1>5, <1>6, <1>7

(* An unanswered connection that the timer closes has lost its download.   *)
LEMMA TimerFreeStep ==
    ASSUME IInv, [Next]_vars, ~ Restart
    PROVE  TimerFree'
<1> USE DEF IInv
<1> DEFINE Late == {"refused", "detach", "event"}
<1>1. \/ handler' = "timer" /\ pc' \in Late =>
            /\ handler = "timer" /\ pc \in Late
            /\ UNCHANGED <<cur, http>> /\ tcp \subseteq tcp'
      \/ FinishUnanswered \/ FinishToIdle
      \/ \E k \in 1..Len(pending) : FinishToPending(k)
      \/ \E b \in Backend : ClosedToIdle(b) \/ ClosedToNew(b) \/ ClosedConnectFails(b)
    BY RequestControl DEF Control, Next, MainLoop, Handler, Timeout, EpollWait, Event,
        HandlerEnd, ClientGone, ReadNothing, ReadStatusOk, ReadHeaderEnd,
        ReadNoTempFile, ReadComplete, ReadCacheFails, ReadStatusOther, ReadStatusCut,
        ClosedUnanswered, ClosedFree, FinishRefused, Detach, BackendTimeout,
        HttpTimeout, HttpCheck, Restart, At, Abort, Reading, Done,
        StartDisconnect, Closing, ForgetIdle, Unlink, ToIdle, Watched, Listed,
        vars, poolVars, backendVars, httpVars, pathVars, loopVars, ctlVars
<1>2. CASE handler' = "timer" /\ pc' \in Late =>
              /\ handler = "timer" /\ pc \in Late
              /\ UNCHANGED <<cur, http>> /\ tcp \subseteq tcp'
    BY <1>2 DEF TimerFree
<1>3. CASE FinishUnanswered
    BY <1>3 DEF FinishUnanswered, Abort, At, TimerFree, TypeOK, Control,
        backendVars, ctlVars
<1>4. CASE FinishToIdle
    BY <1>4 DEF FinishToIdle, TimerFree
<1>5. ASSUME NEW k \in 1..Len(pending), FinishToPending(k)
      PROVE  TimerFree'
    BY <1>5 DEF FinishToPending, TimerFree
<1>6. ASSUME NEW b \in Backend, ClosedToIdle(b)
      PROVE  TimerFree'
    BY <1>6 DEF ClosedToIdle, Reassign, TimerFree
<1>7. ASSUME NEW b \in Backend, ClosedToNew(b)
      PROVE  TimerFree'
    BY <1>7, FreeBackendFacts DEF ClosedToNew, Reassign, TimerFree
<1>8. ASSUME NEW b \in Backend, ClosedConnectFails(b)
      PROVE  TimerFree'
    BY <1>8, FreeBackendFacts DEF ClosedConnectFails, Reassign, TimerFree
<1> QED BY <1>1, <1>2, <1>3, <1>4, <1>5, <1>6, <1>7, <1>8

(* The assertions of SafeAborts are reached with what they ask for.        *)
LEMMA SafeAbortsStep ==
    ASSUME IInv, [Next]_vars, ~ Restart
    PROVE  SafeAborts'
<1> USE DEF IInv
<1>1. \/ crashed' \notin {"remain in list", "remoteSocketClosed"}
      \/ crashed' = crashed \/ ClosedFree \/ Detach
    BY RequestControl DEF Next, MainLoop, Handler, Timeout, EpollWait, Event,
        HandlerEnd, ClientGone, ReadNothing, ReadStatusOk, ReadHeaderEnd,
        ReadNoTempFile, ReadComplete, ReadCacheFails, ReadStatusOther, ReadStatusCut,
        ClosedUnanswered, ClosedToIdle, ClosedToNew, ClosedConnectFails,
        FinishUnanswered, FinishToPending, FinishToIdle, FinishRefused,
        BackendTimeout, HttpTimeout, HttpCheck, Restart, At, Link, Abort,
        Reading, Done, StartDisconnect, Closing, Reassign, Move, ForgetIdle,
        Unlink, ToIdle, Watched, Listed, vars, poolVars, backendVars,
        httpVars, pathVars, loopVars, ctlVars
<1>2. CASE crashed' \notin {"remain in list", "remoteSocketClosed"} \/ crashed' = crashed
    BY <1>2 DEF SafeAborts
<1>3. CASE ClosedFree
    BY <1>3 DEF ClosedFree, Closing, Links, SafeAborts, Abort
<1>4. CASE Detach
    <2>1. /\ rel \in Http /\ rel # None /\ backend[rel] = None /\ rel \notin Waiting
          /\ pc = "detach" /\ crashed = "no"
        BY <1>4, PoolAssumption DEF Control, Leaving, Detach, At
    <2>2. \A b \in busy \cup idle : http[b] # rel
        BY <2>1, PoolAssumption DEF Links, IdleIsFree, TypeOK
    <2> QED BY <1>4, <2>1, <2>2 DEF Detach, Abort, SafeAborts
<1> QED BY <1>1, <1>2, <1>3, <1>4

-----------------------------------------------------------------------------
(* The invariant and what follows from it.                                 *)

LEMMA InitIInv ==
    ASSUME Init
    PROVE  IInv
<1>1. TypeOK /\ Control
    BY PoolAssumption DEF Init, TypeOK, Control, Stage
<1>2. OneDownloadPerPath /\ WaitingIsWatched /\ Links /\ IdleIsFree /\ NoIdleWhilePending
    BY PoolAssumption DEF Init, OneDownloadPerPath, WaitingIsWatched, Links,
        IdleIsFree, NoIdleWhilePending
<1>3. PendingUnlinked /\ LinkedLive /\ Doomed /\ NoDangling /\ Closed /\ OpenBusy
    BY PoolAssumption DEF Init, PendingUnlinked, Waiting, LinkedLive, Doomed,
        NoDangling, Closed, OpenBusy
<1>4. Stale /\ StaleDoomed /\ Finishing /\ Leaving /\ TimerFree /\ SafeAborts
    BY PoolAssumption DEF Init, Stale, StaleDoomed, Finishing, Leaving, TimerFree,
        SafeAborts
<1>5. PoolBound
    BY FS_EmptySet, PoolAssumption DEF Init, PoolBound
<1> QED BY <1>1, <1>2, <1>3, <1>4, <1>5 DEF IInv

(* The service starts again from an initial state.                         *)
LEMMA RestartIInv ==
    ASSUME Restart
    PROVE  IInv'
<1>1. TypeOK' /\ Control'
    BY PoolAssumption DEF Restart, TypeOK, Control, Stage
<1>2. OneDownloadPerPath' /\ WaitingIsWatched' /\ Links' /\ IdleIsFree' /\ NoIdleWhilePending'
    BY PoolAssumption DEF Restart, OneDownloadPerPath, WaitingIsWatched, Links,
        IdleIsFree, NoIdleWhilePending
<1>3. PendingUnlinked' /\ LinkedLive' /\ Doomed' /\ NoDangling' /\ Closed' /\ OpenBusy'
    BY PoolAssumption DEF Restart, PendingUnlinked, Waiting, LinkedLive, Doomed,
        NoDangling, Closed, OpenBusy
<1>4. Stale' /\ StaleDoomed' /\ Finishing' /\ Leaving' /\ TimerFree' /\ SafeAborts'
    BY PoolAssumption DEF Restart, Stale, StaleDoomed, Finishing, Leaving,
        TimerFree, SafeAborts
<1>5. PoolBound'
    BY FS_EmptySet, PoolAssumption DEF Restart, PoolBound
<1> QED BY <1>1, <1>2, <1>3, <1>4, <1>5 DEF IInv

(* The invariant is inductive.                                             *)
LEMMA NextIInv ==
    ASSUME IInv, [Next]_vars
    PROVE  IInv'
<1>1. CASE Restart
    BY <1>1, RestartIInv
<1>2. CASE ~ Restart
    <2>1. TypeOK' /\ Control'
        BY <1>2, TypeStep DEF IInv
    <2>2. OneDownloadPerPath' /\ WaitingIsWatched'
        BY <1>2, PathStep DEF IInv
    <2> QED
        BY <1>2, <2>1, <2>2, LinksStep, IdleIsFreeStep, NoIdleWhilePendingStep,
            PoolBoundStep,
           PendingUnlinkedStep, LinkedLiveStep, DoomedStep, NoDanglingStep, ClosedStep,
           OpenBusyStep, StaleStep, StaleDoomedStep, FinishingStep, LeavingStep,
           TimerFreeStep, SafeAbortsStep DEF IInv
<1> QED BY <1>1, <1>2

(* IInv is an invariant: every theorem below is a consequence of it.       *)
THEOREM Invariance == Spec => []IInv
<1>1. Init => IInv
    BY InitIInv
<1>2. IInv /\ [Next]_vars => IInv'
    BY NextIInv
<1> QED BY <1>1, <1>2, PTL DEF Spec

(* Every variable keeps its type, whatever the handlers do.                *)
THEOREM TypeCorrect == Spec => []TypeOK
<1>1. IInv => TypeOK
    BY DEF IInv
<1> QED BY <1>1, Invariance, PTL

(* Connections and downloads name each other, before and after every       *)
(* close, reconnection and timeout.                                        *)
THEOREM LinksCorrect == Spec => []Links
<1>1. IInv => Links
    BY DEF IInv
<1> QED BY <1>1, Invariance, PTL

(* Never more than maxBackend connections in the two lists.                *)
THEOREM PoolBounded == Spec => []PoolBound
<1>1. IInv => PoolBound
    BY DEF IInv
<1> QED BY <1>1, Invariance, PTL

(* An idle connection can be used at once.                                 *)
THEOREM IdleCorrect == Spec => []IdleIsFree
<1>1. IInv => IdleIsFree
    BY DEF IInv
<1> QED BY <1>1, Invariance, PTL

(* No download waits while a connection is idle.                           *)
THEOREM NobodyWaitsForIdle == Spec => []NoIdleWhilePending
<1>1. IInv => NoIdleWhilePending
    BY DEF IInv
<1> QED BY <1>1, Invariance, PTL

(* A waiting download waits once and has no connection.                    *)
THEOREM PendingCorrect == Spec => []PendingUnlinked
<1>1. IInv => PendingUnlinked
    BY DEF IInv
<1> QED BY <1>1, Invariance, PTL

(* The clients of a path share one living download.                        *)
THEOREM PathsCorrect == Spec => []OneDownloadPerPath
<1>1. IInv => OneDownloadPerPath
    BY DEF IInv
<1> QED BY <1>1, Invariance, PTL

(* Every download with a client is where the timer looks for it.           *)
THEOREM WatchCorrect == Spec => []WaitingIsWatched
<1>1. IInv => WaitingIsWatched
    BY DEF IInv
<1> QED BY <1>1, Invariance, PTL

(* Nothing that is still used names a download that was handed to toDelete. *)
THEOREM DoomedCorrect == Spec => []DoomedUnreferenced
<1>1. IInv => DoomedUnreferenced
    <2> SUFFICES ASSUME IInv, NEW h \in newH \cup oldH
                 PROVE  /\ h \notin live \cup fronts \cup Waiting
                        /\ cachePath[h] = None /\ backend[h] = None
                        /\ \A b \in busy \cup idle : http[b] # h
        BY DEF DoomedUnreferenced
    <2>1. h \in Http /\ h # None /\ h \notin live
        BY PoolAssumption DEF IInv, TypeOK, Doomed
    <2>2. h \notin fronts /\ h \notin Waiting /\ cachePath[h] = None /\ backend[h] = None
        BY <2>1 DEF IInv, WaitingIsWatched, PendingUnlinked, OneDownloadPerPath,
            LinkedLive
    <2>3. \A b \in busy \cup idle : http[b] # h
        BY <2>1, <2>2, LinksTyped, PoolAssumption DEF IInv, IdleIsFree
    <2> QED BY <2>1, <2>2, <2>3
<1> QED BY <1>1, Invariance, PTL

(* ~Backend never writes through a pointer to a deleted download.          *)
THEOREM NeverDangling == Spec => []NoDangling
<1>1. IInv => NoDangling
    BY DEF IInv
<1> QED BY <1>1, Invariance, PTL

(* Two of the assertions of the program never fail.                        *)
THEOREM AbortsExcluded == Spec => []SafeAborts
<1>1. IInv => SafeAborts
    BY DEF IInv
<1> QED BY <1>1, Invariance, PTL

(* A download that gets a connection was in front of all that still wait.  *)
LEMMA FifoStep ==
    ASSUME IInv, [Next]_vars, NEW g \in Http, NEW h \in Http,
           Ahead(g, h), backend[h] = None, backend'[h] # None
    PROVE  g \notin Waiting'
<1> USE DEF IInv
<1>1. h \in Waiting /\ h \in live /\ \A b \in Backend : http[b] # h
    BY DEF Ahead, Waiting, PendingUnlinked
<1>2. \/ \E p \in Path, f \in Http, b \in Backend : NewOnIdle(p, f, b) \/ NewConnected(p, f, b)
      \/ \E b \in Backend : ClosedToIdle(b) \/ ClosedToNew(b)
      \/ \E k \in 1..Len(pending) : FinishToPending(k)
    <2>1. CASE Restart
        BY <2>1 DEF Restart
    <2>2. CASE ~ Restart
        <3>1. \/ backend' = backend
              \/ EpollWait
              \/ \E q \in Path, f \in Http : NewPending(q, f)
              \/ ClosedUnanswered \/ FinishUnanswered \/ FinishToIdle \/ Detach
              \/ \E q \in Path, f \in Http, b \in Backend : NewOnIdle(q, f, b) \/ NewConnected(q, f, b)
              \/ \E b \in Backend : ClosedToIdle(b) \/ ClosedToNew(b)
              \/ \E k \in 1..Len(pending) : FinishToPending(k)
            BY <2>2, Structural DEF HandlerEnd, At, ClosedConnectFails,
                Reassign, Closing, ClosedFree, Abort, ForgetIdle,
                FinishRefused, HttpTimeout, Listed, poolVars, backendVars,
                httpVars, pathVars, loopVars, ctlVars
        <3>2. CASE EpollWait \/ ClosedUnanswered \/ Detach
            BY <3>2 DEF TypeOK, EpollWait, ClosedUnanswered, Detach, Unlink, Abort,
                httpVars
        <3>3. CASE FinishUnanswered \/ FinishToIdle
            BY <3>3 DEF TypeOK, FinishUnanswered, FinishToIdle, ToIdle, Unlink,
                Abort, httpVars
        <3>4. CASE \E q \in Path, f \in Http : NewPending(q, f)
            BY <3>4 DEF TypeOK, NewPending
        <3> QED BY <3>1, <3>2, <3>3, <3>4
    <2> QED BY <2>1, <2>2
<1>3. ASSUME NEW p \in Path, NEW f \in Http, NEW b \in Backend,
             NewOnIdle(p, f, b) \/ NewConnected(p, f, b)
      PROVE  FALSE
    <2>1. f # h
        BY <1>1, <1>3, FreshHttpFacts DEF NewOnIdle, NewConnected, Register
    <2> QED BY <1>3, <2>1 DEF NewOnIdle, NewConnected, Link, TypeOK
<1>4. ASSUME NEW b \in Backend, ClosedToIdle(b) \/ ClosedToNew(b)
      PROVE  FALSE
    <2>1. http[cur] # h
        BY <1>1, <1>4 DEF TypeOK, Control, ClosedToIdle, ClosedToNew, Reassign,
            Closing, At
    <2>2. backend' = [backend EXCEPT ![http[cur]] = b]
        BY <1>4 DEF ClosedToIdle, ClosedToNew, Move, Link
    <2> QED BY <2>1, <2>2 DEF TypeOK
<1>5. ASSUME NEW k \in 1..Len(pending), FinishToPending(k)
      PROVE  g \notin Waiting'
    <2>1. pending \in Seq(Http) /\ \A i, j \in 1..Len(pending) : pending[i] = pending[j] => i = j
        BY DEF TypeOK, PendingUnlinked
    <2>2. h = pending[k]
        BY <1>5 DEF FinishToPending, TypeOK
    <2>3. PICK i \in 1..Len(pending) : i < k /\ pending[i] = g
        BY <2>1, <2>2 DEF Ahead
    <2>4. pending' = After(k)
        BY <1>5 DEF FinishToPending
    <2>5. ASSUME NEW j \in 1..Len(After(k))
          PROVE  After(k)[j] # g
        <3>1. j + k \in 1..Len(pending) /\ After(k)[j] = pending[j + k]
            BY <2>1, AfterSeq
        <3>2. Len(After(k)) \in Nat
            BY <2>1, AfterSeq
        <3>3. j + k # i
            BY <2>1, <2>3, <3>2
        <3> QED BY <2>1, <2>3, <3>1, <3>3
    <2> QED BY <2>4, <2>5 DEF Waiting
<1> QED BY <1>2, <1>3, <1>4, <1>5

(* Connections are given in the order of arrival.                          *)
THEOREM ServedInOrder == Spec => FifoPending
<1>1. IInv /\ [Next]_vars
          => [\A g, h \in Http : Ahead(g, h) /\ backend[h] = None /\ backend'[h] # None
                                     => g \notin Waiting']_vars
    BY FifoStep
<1> QED BY <1>1, Invariance, PTL DEF Spec, FifoPending
=============================================================================
