---------------------------- MODULE BackendPool ----------------------------
(***************************************************************************)
(* The connections to one origin address: the BackendList of Backend.hpp   *)
(* (busy, idle and pending), the Http downloads that use its connections,  *)
(* the map that joins the clients of one path to one download, and the     *)
(* main loop that runs the handlers and frees the objects two rounds after *)
(* they are given up.                                                      *)
(*                                                                         *)
(* The program has one thread.  A handler that calls other handlers is     *)
(* modelled by one action per function, chained by pc: nothing else runs   *)
(* until pc is back at "loop".                                             *)
(*                                                                         *)
(* Http::backendList is set by tryConnect together with host and uri, and  *)
(* cleared with them by disconnectBackend: "live" stands for the three.    *)
(* An object is identified by its address: an id that no structure names   *)
(* any more can be used again by a later new.                              *)
(***************************************************************************)
EXTENDS Integers, Sequences, FiniteSets

CONSTANTS
    Http,          \* the addresses of Http objects
    Backend,       \* the addresses of Backend objects
    Path,          \* the cache paths asked for
    None,          \* nullptr, or an empty cachePath
    maxBackend,    \* --maxBackend, 64 unless given
    ConnectFails,  \* TRUE when socket() or connect() may fail at once
    MaxCloses      \* closing bits of one event: EPOLLHUP, EPOLLRDHUP, EPOLLERR

ASSUME PoolAssumption ==
    /\ maxBackend \in Nat \ {0}  \* with 0 the first connection of an address
                               \* would still be opened (Backend.cpp:609-636)
    /\ IsFiniteSet(Backend)
    /\ None \notin Http \cup Backend \cup Path
    /\ ConnectFails \in BOOLEAN
    /\ MaxCloses \in 1..3

VARIABLES
    busy, idle,    \* Backend objects of the list
    pending,       \* Http objects that wait for a connection, oldest first
    http,          \* Backend::http
    open,          \* the Backend objects with fd # -1
    tcp,           \* the Backend objects with wasTCPConnected
    backend,       \* Http::backend
    live,          \* the Http objects with host, uri and backendList set
    fronts,        \* the Http objects with a client in clientsList (bound: at
                   \* most two, disconnectFrontend loses others)
    stage,         \* how far the answer is read, one of Stage
    cachePath,     \* Http::cachePath, None when empty
    pathToHttp,    \* Http::pathToHttp
    inflight,      \* epoll events of this round that are not handled yet
    newB, oldB,    \* newDeleteBackend, oldDeleteBackend of main()
    newH, oldH,    \* toDelete/newDeleteHttp, oldDeleteHttp of main()
    pc,            \* the function that runs next, "loop" between handlers
    cur,           \* the Backend whose handler runs
    rel,           \* the Http in disconnectBackend
    closes,        \* calls of remoteSocketClosed left in this handler
    handler,       \* who runs: an epoll event, a timer, or "none"
    crashed        \* "no", or the assertion that ended the process

poolVars == <<busy, idle, pending>>
backendVars == <<http, open, tcp>>
httpVars == <<backend, live, fronts, stage>>
pathVars == <<cachePath, pathToHttp>>
loopVars == <<inflight, newB, oldB, newH, oldH>>
ctlVars == <<pc, cur, rel, closes, handler>>
vars == <<poolVars, backendVars, httpVars, pathVars, loopVars, ctlVars, crashed>>

\* request: http_code = 0; header: 200 read; body: tempCache is open;
\* discard: the .tmp file could not be created, the body is dropped.
Stage == {"request", "header", "body", "discard"}

Waiting == {pending[i] : i \in 1..Len(pending)}

\* The positions erased one by one by a loop that also advances its index:
\* the first, third, fifth ... are erased and the others are kept.
Erased(s) == {s[2 * i - 1] : i \in 1..((Len(s) + 1) \div 2)}
Kept(s) == [i \in 1..(Len(s) \div 2) |-> s[2 * i]]

\* Mutant: it is not erased.
EraseNothing(s, h) == s

\* s without h, which is in it at most once (PendingUnlinked).
Erase(s, h) ==
    IF \E i \in 1..Len(s) : s[i] = h
    THEN LET k == CHOOSE i \in 1..Len(s) : s[i] = h IN
         [i \in 1..(Len(s) - 1) |-> IF i < k THEN s[i] ELSE s[i + 1]]
    ELSE s

FreshHttp == Http \ (live \cup newH \cup oldH)

FreshBackend ==
    {b \in Backend : /\ b \notin busy \cup idle \cup open \cup newB \cup oldB \cup inflight
                     /\ b # cur
                     /\ http[b] = None}

\* Mutant: <= for <.
BelowLimitByOne == Cardinality(busy) <= maxBackend

\* list->busy.size()<Backend::maxBackend: only looked at when idle is empty.
BelowLimit == Cardinality(busy) < maxBackend

-----------------------------------------------------------------------------
Init ==
    /\ busy = {} /\ idle = {} /\ pending = <<>>
    /\ http = [b \in Backend |-> None]
    /\ open = {} /\ tcp = {}
    /\ backend = [h \in Http |-> None]
    /\ live = {} /\ fronts = {}
    /\ stage = [h \in Http |-> "request"]
    /\ cachePath = [h \in Http |-> None]
    /\ pathToHttp = [p \in Path |-> None]
    /\ inflight = {} /\ newB = {} /\ oldB = {} /\ newH = {} /\ oldH = {}
    /\ pc = "loop" /\ cur = None /\ rel = None /\ closes = 0 /\ handler = "none"
    /\ crashed = "no"

\* An abort() or a null dereference: nothing after it is observable.
Abort(site) ==
    /\ crashed' = site
    /\ UNCHANGED <<poolVars, backendVars, httpVars, pathVars, loopVars, ctlVars>>

At(l) == crashed = "no" /\ pc = l

\* Mutant: the path stays bound to the download.
UnregisterNothing(H) == UNCHANGED pathVars

\* pathToHttp.erase(cachePath) and cachePath.clear() for every member of H.
Unregister(H) ==
    /\ pathToHttp' = [p \in Path |-> IF \E h \in H : cachePath[h] = p
                                     THEN None ELSE pathToHttp[p]]
    /\ cachePath' = [h \in Http |-> IF h \in H THEN None ELSE cachePath[h]]

\* Mutant: the clients are not told.
BackendErrorMute(H) == UNCHANGED fronts /\ Unregister(H)

\* Http::backendError and disconnectFrontend for every member of H.
BackendError(H) == fronts' = fronts \ H /\ Unregister(H)

-----------------------------------------------------------------------------
(* The main loop.                                                          *)

\* The second of the two rounds an Http waits before it is deleted.
\* Mutant: it waits one round.
AgeHttpOnce == oldH' = {} /\ newH' = {}

AgeHttp == oldH' = newH /\ newH' = {}

\* The top of one round: what was given up two rounds ago is deleted
\* (~Backend clears http->backend and leaves the lists), the events of the
\* round are fetched.
EpollWait ==
    /\ At("loop") /\ inflight = {}
    /\ backend' = [h \in Http |-> IF \E b \in oldB : http[b] = h
                                  THEN None ELSE backend[h]]
    /\ http' = [b \in Backend |-> IF b \in oldB THEN None ELSE http[b]]
    /\ tcp' = tcp \ oldB
    /\ stage' = [h \in Http |-> IF h \in oldH THEN "request" ELSE stage[h]]
    /\ busy' = busy \ oldB
    /\ idle' = idle \ oldB
    /\ oldB' = newB /\ newB' = {}
    /\ AgeHttp
    /\ inflight' \in SUBSET (open \ oldB)
    /\ UNCHANGED <<pending, open, live, fronts, pathVars, ctlVars, crashed>>

\* Bound: a busy connection that has answered closes only while there is an
\* idle one, or an id for a new one, that can replace it.
Room(b) == b \in busy => FreshBackend \cup idle # {}

\* An event on a connection: readyToRead when EPOLLIN is set, then one
\* remoteSocketClosed per closing bit.  EPOLLOUT only sends the request.
Event(b, next, n) ==
    /\ At("loop") /\ b \in inflight
    /\ n > 0 => Room(b) \/ (next = "event" /\ b \notin tcp)
    /\ inflight' = inflight \ {b}
    /\ pc' = next /\ cur' = b /\ closes' = n /\ handler' = "event"
    /\ UNCHANGED <<poolVars, backendVars, httpVars, pathVars, newB, oldB, newH, oldH, rel, crashed>>

\* The handler returns.  After an event main() gives up a connection that
\* has no descriptor any more; after a timer nobody looks at it.
HandlerEnd ==
    /\ At("event") /\ closes = 0
    /\ newB' = IF handler = "event" /\ cur \notin open THEN newB \cup {cur} ELSE newB
    /\ pc' = "loop" /\ cur' = None /\ handler' = "none"
    /\ UNCHANGED <<poolVars, backendVars, httpVars, pathVars, inflight, oldB, newH, oldH, rel, closes, crashed>>

-----------------------------------------------------------------------------
(* A client asks for a path: Client::dnsRight.                             *)

\* The path is being downloaded: addClient.  The branch for a dead download
\* is not modelled: OneDownloadPerPath says that none is in the map.
Join(p) ==
    LET h == pathToHttp[p] IN
    /\ At("loop") /\ h \in live
    /\ fronts' = fronts \cup {h}
    /\ UNCHANGED <<poolVars, backendVars, backend, live, stage, pathVars, loopVars, ctlVars, crashed>>

\* What every new download does around tryConnect.
Register(p, h) ==
    /\ At("loop") /\ pathToHttp[p] = None /\ h \in FreshHttp
    /\ live' = live \cup {h}
    /\ fronts' = fronts \cup {h}
    /\ stage' = [stage EXCEPT ![h] = "request"]
    /\ cachePath' = [cachePath EXCEPT ![h] = p]
    /\ pathToHttp' = [pathToHttp EXCEPT ![p] = h]
    /\ UNCHANGED <<loopVars, ctlVars, crashed>>

Link(b, h) == backend' = [backend EXCEPT ![h] = b]

\* tryConnectInternalList: an idle connection is taken first,
NewOnIdle(p, h, b) ==
    /\ Register(p, h) /\ b \in idle
    /\ idle' = idle \ {b} /\ busy' = busy \cup {b}
    /\ http' = [http EXCEPT ![b] = h] /\ Link(b, h)
    /\ UNCHANGED <<pending, open, tcp>>

\* else a connection is opened below the limit,
NewConnected(p, h, b) ==
    /\ Register(p, h) /\ idle = {} /\ BelowLimit /\ b \in FreshBackend
    /\ busy' = busy \cup {b}
    /\ open' = open \cup {b} /\ tcp' = tcp \ {b}
    /\ http' = [http EXCEPT ![b] = h] /\ Link(b, h)
    /\ UNCHANGED <<idle, pending>>

\* else the download waits.
NewPending(p, h) ==
    /\ Register(p, h) /\ idle = {} /\ ~BelowLimit
    /\ pending' = Append(pending, h)
    /\ backend' = [backend EXCEPT ![h] = None]
    /\ UNCHANGED <<busy, idle, backendVars>>

\* A connection that fails at once leaves the download without one, which
\* Http::tryConnectInternal asserts never to happen below the limit.
NewConnectFails(p) ==
    /\ At("loop") /\ pathToHttp[p] = None /\ FreshHttp # {}
    /\ idle = {} /\ BelowLimit /\ ConnectFails
    /\ Abort("tryConnectInternal")

\* A client leaves: Http::removeClient.
ClientGone(h) ==
    /\ At("loop") /\ h \in fronts
    /\ fronts' = fronts \ {h}
    /\ UNCHANGED <<poolVars, backendVars, backend, live, stage, pathVars, loopVars, ctlVars, crashed>>

-----------------------------------------------------------------------------
(* Http::readyToRead, called with the download of the connection.          *)

Reading(st) == At("read") /\ cur \in open /\ http[cur] # None /\ stage[http[cur]] = st

\* The socket is empty, closed, or has no download.
ReadNothing ==
    /\ At("read")
    /\ pc' = "event"
    /\ UNCHANGED <<poolVars, backendVars, httpVars, pathVars, loopVars, cur, rel, closes, handler, crashed>>

\* The status line says 200.
ReadStatusOk ==
    /\ Reading("request")
    /\ tcp' = tcp \cup {cur}
    /\ stage' = [stage EXCEPT ![http[cur]] = "header"]
    /\ UNCHANGED <<poolVars, http, open, backend, live, fronts, pathVars, loopVars, ctlVars, crashed>>

\* The header is complete and the .tmp file is open.
ReadHeaderEnd ==
    /\ Reading("header")
    /\ stage' = [stage EXCEPT ![http[cur]] = "body"]
    /\ UNCHANGED <<poolVars, backendVars, backend, live, fronts, pathVars, loopVars, ctlVars, crashed>>

\* The .tmp file cannot be created: only the clients are dropped.
ReadNoTempFile ==
    /\ Reading("header")
    /\ stage' = [stage EXCEPT ![http[cur]] = "discard"]
    /\ fronts' = fronts \ {http[cur]}
    /\ pc' = "event"
    /\ UNCHANGED <<poolVars, backendVars, backend, live, pathVars, loopVars, cur, rel, closes, handler, crashed>>

\* Enters Http::disconnectBackend of the download of the connection.
StartDisconnect ==
    /\ pc' = "finish" /\ rel' = http[cur]
    /\ UNCHANGED <<cur, closes, handler>>

\* disconnectFrontend, disconnectBackend.
Done(st) ==
    /\ Reading(st)
    /\ fronts' = fronts \ {http[cur]}
    /\ StartDisconnect
    /\ UNCHANGED <<poolVars, backendVars, backend, live, stage, pathVars, loopVars, crashed>>

\* The last byte of the body.
ReadComplete == Done("body")

\* The .tmp file is created, its metadata or its header cannot be written.
ReadCacheFails == Done("header")

\* Any other status: HttpReturnCode, then flushRead, which calls
\* disconnectBackend before disconnectFrontend.  A client that is sent the
\* cached file on a 304 leaves clientsList only when it has all of it.
ReadStatusOther ==
    /\ Reading("request")
    /\ tcp' = tcp \cup {cur}
    /\ fronts' \in {fronts, fronts \ {http[cur]}}
    /\ StartDisconnect
    /\ UNCHANGED <<poolVars, http, open, backend, live, stage, pathVars, loopVars, crashed>>

\* A status line that is cut, or no status line: http_code stays 0 and
\* flushRead is called at once.
ReadStatusCut ==
    /\ Reading("request")
    /\ StartDisconnect
    /\ UNCHANGED <<poolVars, backendVars, httpVars, pathVars, loopVars, crashed>>

-----------------------------------------------------------------------------
(* Backend::remoteSocketClosed.                                            *)

\* Mutant: the closing bits are not counted down.
ClosingAgain == At("event")

Closing == At("event") /\ closes > 0

\* Every Http of H is out of pending: backendError, disconnectFrontend and
\* disconnectBackend leave it without client, path, host and uri.
GiveUp(H) ==
    /\ BackendError(H)
    /\ live' = live \ H
    /\ newH' = newH \cup H

\* Mutant: what is given up stays in pending.
RefusePendingKeeps(left) ==
    IF pending # <<>> /\ left = {}
    THEN GiveUp(Erased(pending)) /\ UNCHANGED pending
    ELSE UNCHANGED <<fronts, live, newH, pathVars, pending>>

\* The connection was refused and left no other one busy: the loop over
\* pending erases the entries it visits and advances past their successors.
RefusePending(left) ==
    IF pending # <<>> /\ left = {}
    THEN GiveUp(Erased(pending)) /\ pending' = Kept(pending)
    ELSE UNCHANGED <<fronts, live, newH, pathVars, pending>>

\* No answer was ever read on it: its download loses it and is told nothing.
ClosedUnanswered ==
    /\ Closing /\ cur \notin tcp
    /\ open' = open \ {cur} /\ closes' = closes - 1
    /\ busy' = busy \ {cur}
    /\ RefusePending(busy \ {cur})
    /\ backend' = IF http[cur] = None THEN backend ELSE [backend EXCEPT ![http[cur]] = None]
    /\ UNCHANGED <<idle, http, tcp, stage, inflight, newB, oldB, oldH, pc, cur, rel, handler, crashed>>

Reassign ==
    /\ Closing /\ cur \in tcp /\ cur \in busy /\ http[cur] # None
    /\ closes' = closes - 1
    /\ UNCHANGED <<pending, live, fronts, stage, pathVars, loopVars, pc, cur, rel, handler, crashed>>

\* Mutant: the closed connection keeps its download too.
MoveCopies(b) == http' = [http EXCEPT ![b] = http[cur]] /\ Link(b, http[cur])

\* newBackend->http=http, http->backend=newBackend, http=nullptr
Move(b) == http' = [http EXCEPT ![b] = http[cur], ![cur] = None] /\ Link(b, http[cur])

\* Its download moves to an idle connection,
ClosedToIdle(b) ==
    /\ Reassign /\ b \in idle
    /\ idle' = idle \ {b} /\ busy' = (busy \ {cur}) \cup {b}
    /\ Move(b)
    /\ open' = open \ {cur}
    /\ UNCHANGED tcp

\* or to a new one.
ClosedToNew(b) ==
    /\ Reassign /\ idle = {} /\ b \in FreshBackend
    /\ busy' = (busy \ {cur}) \cup {b}
    /\ Move(b)
    /\ open' = (open \ {cur}) \cup {b} /\ tcp' = tcp \ {b}
    /\ UNCHANGED idle

\* The new connection fails at once ("todo abort client"): the download
\* keeps the closed one.  The new object is lost, its descriptor stays in
\* epoll when it was connect() that failed.
ClosedConnectFails(b) ==
    /\ Reassign /\ idle = {} /\ b \in FreshBackend /\ ConnectFails
    /\ busy' = busy \ {cur}
    /\ open' \in {open \ {cur}, (open \ {cur}) \cup {b}} /\ tcp' = tcp \ {b}
    /\ UNCHANGED <<idle, http, backend>>

\* Mutant: a connection that closes stays in idle.
ForgetIdleNot == UNCHANGED idle

\* The loop over idle at the end of remoteSocketClosed.
ForgetIdle == idle' = idle \ {cur}

\* It has no download, or is in no list any more.  A busy connection
\* without download would clear backendList and then read it.
ClosedFree ==
    /\ Closing /\ cur \in tcp /\ ~(cur \in busy /\ http[cur] # None)
    /\ IF cur \in busy
       THEN Abort("remoteSocketClosed")
       ELSE /\ open' = open \ {cur} /\ closes' = closes - 1
            /\ ForgetIdle
            /\ UNCHANGED <<busy, pending, http, tcp, httpVars, pathVars, loopVars, pc, cur, rel, handler, crashed>>

-----------------------------------------------------------------------------
(* Http::disconnectBackend of rel, by way of Backend::downloadFinished.    *)

\* haveUrlAndFrontendConnected
Wanted(h) == h \in live /\ h \in fronts

\* Mutant: http->backend=nullptr is forgotten.
UnlinkForgotten == UNCHANGED backend

Unlink == backend' = [backend EXCEPT ![rel] = None]

\* The connection never answered (again): the waiting downloads are told so
\* when no other is busy, but stay in pending.  backendError asserts that
\* the .tmp path is in pathToHttp, where it never is.
FinishUnanswered ==
    LET told == {rel} \cup (IF busy \ {cur} = {} THEN Waiting ELSE {}) IN
    /\ At("finish") /\ cur \notin tcp
    /\ IF stage[rel] = "body" /\ cachePath[rel] # None
       THEN Abort("backendError")
       ELSE /\ busy' = busy \ {cur} /\ open' = open \ {cur}
            /\ http' = [http EXCEPT ![cur] = None] /\ Unlink
            /\ BackendError(told)
            /\ pc' = "refused"
            /\ UNCHANGED <<idle, pending, tcp, live, stage, loopVars, cur, rel, closes, handler, crashed>>

\* Mutant: a closed connection becomes idle.
ToIdleClosed ==
    /\ busy' = busy \ {cur}
    /\ idle' = idle \cup {cur}
    /\ http' = [http EXCEPT ![cur] = None] /\ Unlink

\* Nobody waits for the connection: it becomes idle, if it is still open.
ToIdle ==
    /\ busy' = busy \ {cur}
    /\ idle' = IF cur \in open THEN idle \cup {cur} ELSE idle
    /\ http' = [http EXCEPT ![cur] = None] /\ Unlink

\* Mutant: the last of pending is served.
FinishToPendingLast(k) ==
    LET next == pending[Len(pending)] IN
    /\ At("finish") /\ cur \in tcp
    /\ Wanted(next)
    /\ pending' = SubSeq(pending, 1, Len(pending) - 1)
    /\ http' = [http EXCEPT ![cur] = next]
    /\ backend' = [backend EXCEPT ![rel] = None, ![next] = cur]
    /\ pc' = "detach"
    /\ UNCHANGED <<busy, idle, open, tcp, live, fronts, stage, pathVars, loopVars, cur, rel, closes, handler, crashed>>

\* Mutant: who is served stays in pending.
FinishToPendingStays(k) ==
    LET next == pending[k] IN
    /\ At("finish") /\ cur \in tcp
    /\ Wanted(next)
    /\ http' = [http EXCEPT ![cur] = next]
    /\ backend' = [backend EXCEPT ![rel] = None, ![next] = cur]
    /\ pc' = "detach"
    /\ UNCHANGED <<poolVars, open, tcp, live, fronts, stage, pathVars, loopVars, cur, rel, closes, handler, crashed>>

\* pending once its first k members are erased.
After(k) == SubSeq(pending, k + 1, Len(pending))

\* The oldest waiting download that still has clients takes the connection,
\* the ones before it are given up.
FinishToPending(k) ==
    LET next == pending[k]
        skipped == {pending[i] : i \in 1..(k - 1)} IN
    /\ At("finish") /\ cur \in tcp
    /\ Wanted(next) /\ \A i \in 1..(k - 1) : ~Wanted(pending[i])
    /\ pending' = After(k)
    /\ http' = [http EXCEPT ![cur] = next]
    /\ backend' = [backend EXCEPT ![rel] = None, ![next] = cur]
    /\ GiveUp(skipped)
    /\ pc' = "detach"
    /\ UNCHANGED <<busy, idle, open, tcp, stage, inflight, newB, oldB, oldH, cur, rel, closes, handler, crashed>>

\* Mutant: the connection becomes idle while downloads wait.
FinishToIdleFirst ==
    /\ At("finish") /\ cur \in tcp
    /\ ToIdle
    /\ pc' = "detach"
    /\ UNCHANGED <<pending, open, tcp, live, fronts, stage, pathVars, loopVars, cur, rel, closes, handler, crashed>>

FinishToIdle ==
    /\ At("finish") /\ cur \in tcp
    /\ \A h \in Waiting : ~Wanted(h)
    /\ pending' = <<>>
    /\ ToIdle
    /\ GiveUp(Waiting)
    /\ pc' = "detach"
    /\ UNCHANGED <<open, tcp, stage, inflight, newB, oldB, oldH, cur, rel, closes, handler, crashed>>

\* downloadFinished ends with remoteSocketClosed when it was unanswered.
FinishRefused ==
    /\ At("refused")
    /\ RefusePending(busy)
    /\ pc' = "detach"
    /\ UNCHANGED <<busy, idle, backendVars, backend, stage, inflight, newB, oldB, oldH, cur, rel, closes, handler, crashed>>

\* The rest of disconnectBackend.  It asserts that no client and no list
\* names the object any more, and hands it to toDelete.
Detach ==
    LET inPool == rel \in Waiting \/ \E b \in busy \cup idle : http[b] = rel IN
    /\ At("detach")
    /\ IF rel \in live /\ rel \in fronts THEN Abort("remain client")
       ELSE IF rel \in live /\ inPool THEN Abort("remain in list")
       ELSE /\ newH' = IF rel \in live THEN newH \cup {rel} ELSE newH
            /\ live' = live \ {rel}
            /\ Unregister({rel})
            /\ Unlink
            /\ pc' = IF cur = None THEN "loop" ELSE "event"
            /\ rel' = None
            /\ UNCHANGED <<poolVars, backendVars, fronts, stage, inflight, newB, oldB, oldH, cur, closes, handler, crashed>>

-----------------------------------------------------------------------------
(* CheckTimeout::exec, every second.  The clock is abstracted: what is     *)
(* watched may be found too old at any tick.                               *)

\* What the loop over busy looks at.
Watched(b) == b \in busy /\ http[b] # None

\* Backend::detectTimeout: backendError, disconnectFrontend,
\* disconnectBackend, close, remoteSocketClosed.
BackendTimeout(b) ==
    LET h == http[b] IN
    /\ At("loop") /\ Watched(b) /\ (Room(b) \/ b \notin tcp)
    /\ IF stage[h] = "body" /\ cachePath[h] # None
       THEN Abort("backendError")
       ELSE /\ BackendError({h})
            /\ pc' = "finish" /\ cur' = b /\ rel' = h /\ closes' = 1 /\ handler' = "timer"
            /\ UNCHANGED <<poolVars, backendVars, backend, live, stage, loopVars, crashed>>

\* Mutant: the downloads without connection are skipped.
ListedLinked(h) == cachePath[h] # None /\ backend[h] # None

\* What the loop over pathToHttp looks at.
Listed(h) == cachePath[h] # None

\* Http::detectTimeout: the clients get an error; the connection is closed
\* and stays busy, or the download leaves pending.
HttpTimeout(h) ==
    /\ At("loop") /\ Listed(h)
    /\ fronts' = fronts \ {h}
    /\ IF backend[h] # None
       THEN /\ open' = open \ {backend[h]}
            /\ UNCHANGED <<pending, ctlVars>>
       ELSE /\ pending' = Erase(pending, h)
            /\ pc' = "detach" /\ rel' = h
            /\ UNCHANGED <<open, cur, closes, handler>>
    /\ UNCHANGED <<busy, idle, http, tcp, backend, live, stage, pathVars, loopVars, crashed>>

\* Http::checkBackend, for a download that is not too old yet.
HttpCheck(h) ==
    /\ At("loop") /\ Listed(h) /\ backend[h] = None
    /\ idle # {} \/ BelowLimit \/ h \notin Waiting
    /\ Abort("checkBackend")

\* systemd restarts the service (Restart=always).
Restart ==
    /\ crashed # "no"
    /\ busy' = {} /\ idle' = {} /\ pending' = <<>>
    /\ http' = [b \in Backend |-> None]
    /\ open' = {} /\ tcp' = {}
    /\ backend' = [h \in Http |-> None]
    /\ live' = {} /\ fronts' = {}
    /\ stage' = [h \in Http |-> "request"]
    /\ cachePath' = [h \in Http |-> None]
    /\ pathToHttp' = [p \in Path |-> None]
    /\ inflight' = {} /\ newB' = {} /\ oldB' = {} /\ newH' = {} /\ oldH' = {}
    /\ pc' = "loop" /\ cur' = None /\ rel' = None /\ closes' = 0 /\ handler' = "none"
    /\ crashed' = "no"

-----------------------------------------------------------------------------
Handler ==
    \/ ReadNothing \/ ReadStatusOk \/ ReadHeaderEnd \/ ReadNoTempFile
    \/ ReadComplete \/ ReadCacheFails \/ ReadStatusOther \/ ReadStatusCut
    \/ ClosedUnanswered \/ ClosedFree
    \/ \E b \in Backend : ClosedToIdle(b) \/ ClosedToNew(b) \/ ClosedConnectFails(b)
    \/ FinishUnanswered \/ FinishToIdle \/ FinishRefused \/ Detach
    \/ \E k \in 1..Len(pending) : FinishToPending(k)
    \/ HandlerEnd

Timeout ==
    \/ \E b \in Backend : BackendTimeout(b)
    \/ \E h \in Http : HttpTimeout(h) \/ HttpCheck(h)

Request ==
    \E p \in Path :
        \/ Join(p) \/ NewConnectFails(p)
        \/ \E h \in Http : NewPending(p, h) \/ \E b \in Backend : NewOnIdle(p, h, b) \/ NewConnected(p, h, b)

MainLoop ==
    \/ EpollWait
    \/ \E b \in Backend, next \in {"read", "event"}, n \in 0..MaxCloses : Event(b, next, n)

Next ==
    \/ MainLoop
    \/ Handler
    \/ Timeout
    \/ Request
    \/ \E h \in Http : ClientGone(h)
    \/ Restart

Spec == Init /\ [][Next]_vars

-----------------------------------------------------------------------------
(* The values each variable takes: in particular nothing but an address or *)
(* nullptr is ever linked, and "closes" never runs below 0.                *)
TypeOK ==
    /\ busy \in SUBSET Backend /\ idle \in SUBSET Backend
    /\ pending \in Seq(Http)
    /\ http \in [Backend -> Http \cup {None}]
    /\ open \in SUBSET Backend /\ tcp \in SUBSET Backend
    /\ backend \in [Http -> Backend \cup {None}]
    /\ live \in SUBSET Http /\ fronts \in SUBSET Http
    /\ stage \in [Http -> Stage]
    /\ cachePath \in [Http -> Path \cup {None}]
    /\ pathToHttp \in [Path -> Http \cup {None}]
    /\ inflight \in SUBSET Backend
    /\ newB \in SUBSET Backend /\ oldB \in SUBSET Backend
    /\ newH \in SUBSET Http /\ oldH \in SUBSET Http
    /\ pc \in {"loop", "read", "event", "finish", "refused", "detach"}
    /\ cur \in Backend \cup {None} /\ rel \in Http \cup {None}
    /\ closes \in 0..MaxCloses
    /\ handler \in {"none", "event", "timer"}
    /\ crashed \in {"no", "tryConnectInternal", "checkBackend", "backendError",
                    "remain client", "remain in list", "remoteSocketClosed"}

(* A busy connection and its download name each other, so no two           *)
(* connections carry one download, and a download never names a connection *)
(* that works for another one (downloadFinished, remoteSocketClosed and    *)
(* ~Backend each cut or move one of the two pointers).                     *)
Links ==
    /\ \A b \in busy : http[b] # None /\ backend[http[b]] = b
    /\ \A h \in Http : backend[h] # None => http[backend[h]] = h

(* --maxBackend is the "maximum backend to a single IP" (main.cpp:71): it  *)
(* bounds the busy and the idle connections together, reconnections of     *)
(* remoteSocketClosed included.                                            *)
PoolBound == busy \cap idle = {} /\ Cardinality(busy \cup idle) <= maxBackend

(* What tryConnectInternalList takes from idle can be used: it is open, it *)
(* has answered before and it has no download.                             *)
IdleIsFree == \A b \in idle : b \in open /\ b \in tcp /\ http[b] = None

(* No download waits while a connection is free (the first assertion of    *)
(* Http::checkBackend).                                                    *)
NoIdleWhilePending == pending # <<>> => idle = {}

(* A download waits at most once, only while it is wanted by nobody else:  *)
(* no connection names it.  downloadFinished links what it pops.           *)
PendingUnlinked ==
    /\ \A i, j \in 1..Len(pending) : pending[i] = pending[j] => i = j
    /\ \A h \in Waiting : h \in live /\ backend[h] = None /\ \A b \in Backend : http[b] # h

(* The clients of one path share one download: pathToHttp and cachePath    *)
(* are inverse to one another, and what the map names is not dead.         *)
OneDownloadPerPath ==
    /\ \A h \in Http, p \in Path : cachePath[h] = p <=> pathToHttp[p] = h
    /\ \A h \in Http : cachePath[h] # None => h \in live

(* A download with a client is in pathToHttp, the only place where the     *)
(* timer looks for what has to be given an error.                          *)
WaitingIsWatched == \A h \in fronts : h \in live /\ cachePath[h] # None

(* What disconnectBackend hands to toDelete is named by no client, no list *)
(* and no path until it is deleted two rounds later.                       *)
DoomedUnreferenced ==
    \A h \in newH \cup oldH :
        /\ h \notin live \cup fronts \cup Waiting
        /\ cachePath[h] = None /\ backend[h] = None
        /\ \A b \in busy \cup idle : http[b] # h

(* Backend::http is never a deleted object: ~Backend writes through it.    *)
NoDangling == \A b \in Backend : http[b] # None => http[b] \in live \cup newH \cup oldH

(* Two of the assertions never fail: that a deleted download is in no list *)
(* (Http.cpp:1491-1545), and that a busy connection that closes has a      *)
(* download (else remoteSocketClosed reads through a null backendList).    *)
SafeAborts == crashed \notin {"remain in list", "remoteSocketClosed"}

\* g waits in front of h.
Ahead(g, h) == \E i, j \in 1..Len(pending) : i < j /\ pending[i] = g /\ pending[j] = h

(* Connections are given in the order of arrival: when a waiting download  *)
(* gets one, those that were in front of it wait no more.                  *)
FifoPending ==
    [][\A g, h \in Http : Ahead(g, h) /\ backend[h] = None /\ backend'[h] # None
                              => g \notin Waiting']_vars

\* The connections are hidden: a download is served while a busy one names it.
T == INSTANCE Turns WITH Download <- Http, Limit <- maxBackend,
                         served <- {http[b] : b \in busy}, queue <- pending

(* The pool gives turns: whatever its connections do, reconnections,       *)
(* timeouts and refusals included, each of its steps is a step of Turns or *)
(* changes neither who is served nor who waits.                            *)
InTurn == T!Spec

-----------------------------------------------------------------------------
(* Fairness.  A handler that has started returns and systemd restarts what *)
(* died.  The timer ends epoll_wait every second, so the rounds go on (a    *)
(* round handles each of its events before the next).  CheckTimeout visits what is in the   *)
(* map and what is busy at every tick; that some tick finds it too old is  *)
(* an assumption about the origin: it does not feed one download for ever. *)
Fairness ==
    /\ WF_vars(Handler) /\ WF_vars(Restart)
    /\ SF_vars(MainLoop)
    /\ \A h \in Http : SF_vars(HttpTimeout(h))
    /\ SF_vars(\E b \in Backend : BackendTimeout(b))

FairSpec == Spec /\ Fairness

\* The downloads are alike: what is eventually true of this one is of all.
SomeHttp == CHOOSE h \in Http : TRUE

Occupied == SomeHttp \in fronts \/ cachePath[SomeHttp] # None

(* Whatever happens to the connections, the clients that wait for a        *)
(* download are answered or cut off, and its path is not bound to it for   *)
(* ever: later clients get a new one.  With a reconnection that fails at   *)
(* once (Backend.cpp:241, "todo abort client") the path may stay bound.    *)
Released == Occupied ~> ~Occupied

-----------------------------------------------------------------------------
(* What comments and assertions of the program say, and the program does   *)
(* not do.                                                                 *)

(* Backend.hpp:27, of pending: "only when no idle and max busy reached".   *)
PendingOnlyWhenSaturated == pc = "loop" /\ pending # <<>> => Cardinality(busy) >= maxBackend
=============================================================================
