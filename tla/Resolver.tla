------------------------------ MODULE Resolver ------------------------------
(***************************************************************************)
(* Dns.cpp and the life of a Client: a client asks for a host, is answered *)
(* from the cache or waits in the one query of that host, until a reply,   *)
(* the third timeout of the query, or its own end.  The query holds plain  *)
(* pointers to the clients, and main() deletes a client some rounds after  *)
(* it is closed.                                                           *)
(*                                                                         *)
(* One action per handler; the handler of a client is split at pc between  *)
(* its request, its end and what its caller does with it then.  http and   *)
(* https clients of a query are one set: they only differ in the port.     *)
(* The answer is "right" or "bad" (Status_Wrong, Status_Error: another     *)
(* page, the same effects).  Times are seconds from now.                   *)
(***************************************************************************)
EXTENDS Integers, FiniteSets

CONSTANTS
    Client,      \* the addresses of Client objects
    Host,        \* the names asked for
    Id,          \* the transaction ids
    None,        \* no host, no query
    RetryDelay,  \* 5: nextRetry=time(NULL)+5
    Limit,       \* 1000: clientInProgress and requestCountMerged
    MaxLate,     \* bound: seconds a round of the main loop may last
    MaxCopies,   \* bound: copies of a query in flight, of the three it sends
    MaxSurplus   \* bound: replies counted beyond the queries counted

ASSUME ResolverAssumption ==
    /\ RetryDelay \in Nat \ {0}
    /\ Limit \in Nat /\ MaxLate \in Nat /\ MaxSurplus \in Nat
    /\ MaxCopies \in 1..3
    /\ None \notin Host \cup Id \cup Client

VARIABLES
    queryHost,   \* Query::host, None when the id is not in queryList
    waiters,     \* Query::http and Query::https
    retryTime,   \* Query::retryTime
    nextRetry,   \* Query::nextRetry, Past when no bucket is that old
    byHost,      \* queryListByHost
    byDue,       \* queryByNextDueTime
    inProgress,  \* clientInProgress
    cache,       \* the status of the entries that are not outdated
    sent,        \* copies of a query whose reply may still arrive
    clients,     \* Client::clients: the objects that exist
    open,        \* the clients with fd # -1
    asked,       \* the clients with fullyParsed
    waitDns,     \* the clients with status Status_WaitDns
    host,        \* Client::host
    inflight,    \* the client events of this round not handled yet
    newC, oldC,  \* toDelete/newDeleteClient, oldDeleteClient of main()
    pc, cur      \* the handler that runs, and its client

queryVars == <<queryHost, waiters, retryTime, nextRetry, byHost, byDue>>
clientVars == <<open, asked, waitDns, host>>
lifeVars == <<clients, inflight, newC, oldC>>
netVars == <<inProgress, sent, cache>>
vars == <<queryVars, clientVars, lifeVars, netVars, pc, cur>>

Past == -MaxLate - 1

\* The seconds queryByNextDueTime may have a bucket for.
Due == -MaxLate..RetryDelay

queryList == {id \in Id : queryHost[id] # None}

Init ==
    /\ queryHost = [id \in Id |-> None] /\ waiters = [id \in Id |-> {}]
    /\ retryTime = [id \in Id |-> 0] /\ nextRetry = [id \in Id |-> Past]
    /\ byHost = [h \in Host |-> None] /\ byDue = [t \in Due |-> {}]
    /\ inProgress = 0 /\ sent = [id \in Id |-> 0] /\ cache = [h \in Host |-> None]
    /\ clients = {} /\ open = {} /\ asked = {} /\ waitDns = {}
    /\ host = [c \in Client |-> None]
    /\ inflight = {} /\ newC = {} /\ oldC = {}
    /\ pc = "loop" /\ cur = None

-----------------------------------------------------------------------------
(* Clients: Server.cpp, Client.cpp and main.cpp.                           *)

\* Dns::cancelClient for each client of C whose status is Status_WaitDns.
Cancel(C) ==
    waiters' = [id \in Id |-> waiters[id] \ {c \in C \cap waitDns : host[c] # None /\ byHost[host[c]] = id}]

\* Mutant: the query is not told.
DisconnectKeeps(C) == open' = open \ C /\ UNCHANGED waiters

\* Client::disconnect
Disconnect(C) == open' = open \ C /\ Cancel(C)

\* Mutant: the objects are deleted at once.
GiveUpNow(C) == clients' = clients \ C /\ UNCHANGED newC

\* They are deleted in the second round from now.
GiveUp(C) == newC' = newC \cup C /\ UNCHANGED clients

\* The rest of an object means nothing once it is deleted.
Delete(C) ==
    /\ clients' = clients \ C /\ asked' = asked \ C /\ waitDns' = waitDns \ C
    /\ host' = [c \in Client |-> IF c \in C THEN None ELSE host[c]]

\* Bound: the address of a client that is still in a deletion list is not
\* used again.
FreshClient == Client \ (clients \cup newC \cup oldC)

\* Server::parseEvent accepts unless too many queries run.
Accept(c) ==
    /\ pc = "loop" /\ c \in FreshClient
    /\ Cardinality({h \in Host : byHost[h] # None}) <= Limit
    /\ clients' = clients \cup {c} /\ open' = open \cup {c}
    /\ pc' = "accept" /\ cur' = c
    /\ UNCHANGED <<queryVars, asked, waitDns, host, netVars, inflight, newC, oldC>>

\* epoll_wait, then the deletions: events are fetched before them.
EpollWait ==
    /\ pc = "loop" /\ inflight = {}
    /\ inflight' \in SUBSET open
    /\ Delete(oldC)
    /\ oldC' = newC /\ newC' = {}
    /\ UNCHANGED <<queryVars, open, netVars, pc, cur>>

Event(c) ==
    /\ pc = "loop" /\ c \in inflight
    /\ inflight' = inflight \ {c}
    /\ pc' = "event" /\ cur' = c
    /\ UNCHANGED <<queryVars, clientVars, netVars, clients, newC, oldC>>

\* A protocol error, a closing bit, a write that fails, or the answer is done.
Leave ==
    /\ pc \in {"accept", "event"}
    /\ Disconnect({cur})
    /\ UNCHANGED <<queryHost, retryTime, nextRetry, byHost, byDue, asked, waitDns, host,
                   lifeVars, netVars, pc, cur>>

\* Its download ends the client: httpError, or writeEnd and disconnect.
EndedByHttp(c) ==
    /\ pc = "loop" /\ c \in open \cap asked /\ \A id \in Id : c \notin waiters[id]
    /\ Disconnect({c})
    /\ UNCHANGED <<queryHost, retryTime, nextRetry, byHost, byDue, asked, waitDns, host,
                   lifeVars, netVars, pc, cur>>

\* A closed client is deleted at once by its Server, later by main().
HandlerEnd ==
    /\ pc \in {"accept", "event"}
    /\ IF cur \in open
       THEN UNCHANGED <<clientVars, waiters, clients, newC>>
       ELSE /\ Disconnect({cur})
            /\ IF pc = "accept"
               THEN Delete({cur}) /\ UNCHANGED newC
               ELSE GiveUp({cur}) /\ UNCHANGED <<asked, waitDns, host>>
    /\ pc' = "loop" /\ cur' = None
    /\ UNCHANGED <<queryHost, retryTime, nextRetry, byHost, byDue, netVars, inflight, oldC>>

\* Mutant: detectTimeout's test of fullyParsed comes first.
ClosedUnasked == clients \ (open \cup asked)

Closed == clients \ open

\* CheckTimeout::exec: what is closed is given up, what has not finished
\* its request may be too old (T).
CheckTimeout(T) ==
    /\ pc = "loop"
    /\ T \subseteq (clients \cap open) \ asked
    /\ Disconnect(T \cup Closed)
    /\ GiveUp(Closed)
    /\ UNCHANGED <<queryHost, retryTime, nextRetry, byHost, byDue, asked, waitDns, host,
                   netVars, inflight, oldC, pc, cur>>

-----------------------------------------------------------------------------
(* Client::readyToRead, loadUrl and Dns::get.                              *)

\* The request of cur is read.
Reading ==
    /\ pc \in {"accept", "event"} /\ cur \in open \ asked
    /\ asked' = asked \cup {cur}
    /\ UNCHANGED <<lifeVars, pc, cur>>

\* The file is in the cache, or is being downloaded.
NoDns ==
    /\ Reading
    /\ UNCHANGED <<queryVars, netVars, open, waitDns, host>>

\* The status is set when Dns::get returns, whatever it has done.
Ask(h) ==
    /\ Reading
    /\ host' = [host EXCEPT ![cur] = h]
    /\ waitDns' = waitDns \cup {cur}

\* The host is being asked for.
Known(h) == byHost[h] \in queryList

GetJoin(h) ==
    /\ Ask(h) /\ Known(h)
    /\ waiters' = [waiters EXCEPT ![byHost[h]] = @ \cup {cur}]
    /\ UNCHANGED <<queryHost, retryTime, nextRetry, byHost, byDue, netVars, open>>

\* "bug, try fix": what byHost names is not in queryList.
Forget(h) == byHost' = [byHost EXCEPT ![h] = None]

\* The answer is in the cache: a bad one ends the client.
GetCached(h) ==
    /\ Ask(h) /\ ~Known(h) /\ cache[h] # None
    /\ open' = IF cache[h] = "right" THEN open ELSE open \ {cur}
    /\ Forget(h)
    /\ UNCHANGED <<queryHost, waiters, retryTime, nextRetry, byDue, netVars>>

\* Dns::get returns false: "Overloaded CDN Dns".
GetOverloaded(h) ==
    /\ Reading /\ ~Known(h) /\ cache[h] = None /\ inProgress > Limit
    /\ host' = [host EXCEPT ![cur] = h]
    /\ open' = open \ {cur}
    /\ Forget(h)
    /\ UNCHANGED <<queryHost, waiters, retryTime, nextRetry, byDue, netVars, waitDns>>

\* Bound: an id comes around (increment, 65534 values) only when nothing
\* names it any more.
FreshId ==
    {id \in Id \ queryList : /\ sent[id] = 0
                             /\ \A h \in Host : byHost[h] # id
                             /\ \A t \in Due : id \notin byDue[t]}

\* Mutant: the cache is not looked at first.
UnknownAnyway(h) == TRUE

Unknown(h) == cache[h] = None

GetNew(h, id) ==
    /\ Ask(h) /\ ~Known(h) /\ Unknown(h) /\ inProgress <= Limit /\ id \in FreshId
    /\ inProgress' = inProgress + 1
    /\ sent' = [sent EXCEPT ![id] = 1]
    /\ queryHost' = [queryHost EXCEPT ![id] = h]
    /\ waiters' = [waiters EXCEPT ![id] = {cur}]
    /\ retryTime' = [retryTime EXCEPT ![id] = 0]
    /\ nextRetry' = [nextRetry EXCEPT ![id] = RetryDelay]
    /\ byHost' = [byHost EXCEPT ![h] = id]
    /\ byDue' = [byDue EXCEPT ![RetryDelay] = @ \cup {id}]
    /\ UNCHANGED <<cache, open>>

-----------------------------------------------------------------------------
(* Replies, timeouts and the passing of time.                              *)

\* Mutant: withNextDueTime=false, which no caller gives: the bucket stays.
NotDueKept(id) == byDue

\* queryByNextDueTime.erase(query.nextRetry): everything due at that second.
NotDue(id) == [t \in Due |-> IF t = nextRetry[id] THEN {} ELSE byDue[t]]

\* Mutant: the host keeps its id.
UnindexForgotten(id) == UNCHANGED byHost

\* queryListByHost.erase(query.host)
Unindex(id) == byHost' = [byHost EXCEPT ![queryHost[id]] = None]

\* Dns::removeQuery
RemoveQuery(id) ==
    /\ byDue' = NotDue(id)
    /\ Unindex(id)
    /\ queryHost' = [queryHost EXCEPT ![id] = None]
    /\ waiters' = [waiters EXCEPT ![id] = {}]
    /\ retryTime' = [retryTime EXCEPT ![id] = 0]
    /\ nextRetry' = [nextRetry EXCEPT ![id] = Past]

\* One datagram of the name server: clientInProgress-- whatever it is.
Receive(id) ==
    /\ pc = "loop" /\ sent[id] > 0
    /\ inProgress > -MaxSurplus
    /\ inProgress' = inProgress - 1
    /\ sent' = [sent EXCEPT ![id] = @ - 1]
    /\ UNCHANGED <<lifeVars, asked, host, pc, cur>>

\* It cannot be read, has no answer, or nobody waits for it.
ReplyIgnored(id) ==
    /\ Receive(id)
    /\ UNCHANGED <<queryVars, open, waitDns, cache>>

\* dnsRight or dnsWrong/dnsError of every client that waits: a bad answer
\* ends it, the download it goes on to may.  The answer is not kept when the
\* cache is full or the name is malformed.
Reply(id, answer, kept) ==
    /\ Receive(id) /\ waiters[id] # {}
    /\ cache' = IF kept THEN [cache EXCEPT ![queryHost[id]] = answer] ELSE cache
    /\ waitDns' = waitDns \ waiters[id]
    /\ open' \in IF answer = "right" THEN {open \ C : C \in SUBSET waiters[id]}
                                   ELSE {open \ waiters[id]}
    /\ RemoveQuery(id)

\* A datagram is lost.
Lost(id) ==
    /\ pc = "loop" /\ sent[id] > 0
    /\ sent' = [sent EXCEPT ![id] = @ - 1]
    /\ UNCHANGED <<queryVars, clientVars, lifeVars, inProgress, cache, pc, cur>>

\* Mutant: no try is the last.
LastTryNever(id) == FALSE

LastTry(id) == retryTime[id] >= 2

\* Mutant: query.retryTime++ is forgotten.
SameTry(id) == retryTime[id]

NextTry(id) == retryTime[id] + 1

SendAgain(id) == IF sent[id] < MaxCopies THEN sent[id] + 1 ELSE sent[id]

\* Dns::checkQueries: what is due is sent again, or ended with an error.
CheckQueries ==
    LET due == UNION {byDue[t] : t \in -MaxLate..0}
        ended == {id \in due : LastTry(id)}
        again == due \ ended
        told == UNION {waiters[id] : id \in ended} IN
    /\ pc = "loop" /\ due # {}
    /\ sent' = [id \in Id |-> IF id \in again THEN SendAgain(id) ELSE sent[id]]
    /\ retryTime' = [id \in Id |-> IF id \in again THEN NextTry(id)
                                ELSE IF id \in ended THEN 0 ELSE retryTime[id]]
    /\ nextRetry' = [id \in Id |-> IF id \in again THEN RetryDelay
                                ELSE IF id \in ended THEN Past ELSE nextRetry[id]]
    /\ byDue' = [t \in Due |-> IF t <= 0 THEN {}
                            ELSE IF t = RetryDelay THEN byDue[t] \cup again ELSE byDue[t]]
    /\ waitDns' = waitDns \ told /\ open' = open \ told
    /\ byHost' = [h \in Host |-> IF \E id \in ended : queryHost[id] = h THEN None ELSE byHost[h]]
    /\ queryHost' = [id \in Id |-> IF id \in ended THEN None ELSE queryHost[id]]
    /\ waiters' = [id \in Id |-> IF id \in ended THEN {} ELSE waiters[id]]
    /\ UNCHANGED <<lifeVars, asked, host, inProgress, cache, pc, cur>>

\* A second passes.  DNSQuery runs every 10 ms, unless a round lasts longer.
Tick ==
    /\ pc = "loop" /\ byDue[-MaxLate] = {}
    /\ byDue' = [t \in Due |-> IF t = RetryDelay THEN {} ELSE byDue[t + 1]]
    /\ nextRetry' = [id \in Id |-> IF nextRetry[id] = Past THEN Past ELSE nextRetry[id] - 1]
    /\ UNCHANGED <<queryHost, waiters, retryTime, byHost, clientVars, lifeVars, netVars, pc, cur>>

\* An entry is outdated, or erased by cleanCache.
Outdate(h) ==
    /\ pc = "loop" /\ cache[h] # None
    /\ cache' = [cache EXCEPT ![h] = None]
    /\ UNCHANGED <<queryVars, clientVars, lifeVars, inProgress, sent, pc, cur>>

-----------------------------------------------------------------------------
Request ==
    \/ NoDns
    \/ \E h \in Host : GetJoin(h) \/ GetCached(h) \/ GetOverloaded(h) \/ \E id \in Id : GetNew(h, id)

Handler == Request \/ Leave \/ HandlerEnd

MainLoop == EpollWait \/ \E c \in Client : Event(c) \/ Accept(c) \/ EndedByHttp(c)

Network ==
    \/ \E id \in Id : ReplyIgnored(id) \/ Lost(id)
    \/ \E id \in Id, answer \in {"right", "bad"}, kept \in BOOLEAN : Reply(id, answer, kept)

Timers ==
    \/ CheckQueries \/ Tick
    \/ \E h \in Host : Outdate(h)
    \/ \E T \in SUBSET Client : CheckTimeout(T)

Next == MainLoop \/ Handler \/ Network \/ Timers

Spec == Init /\ [][Next]_vars
-----------------------------------------------------------------------------
(* The values each variable takes: in particular a query is sent three     *)
(* times at most.                                                          *)
TypeOK ==
    /\ queryHost \in [Id -> Host \cup {None}]
    /\ waiters \in [Id -> SUBSET Client]
    /\ retryTime \in [Id -> 0..2] /\ nextRetry \in [Id -> Past..RetryDelay]
    /\ byHost \in [Host -> Id \cup {None}]
    /\ byDue \in [Due -> SUBSET Id]
    /\ inProgress \in -MaxSurplus..(Limit + 1)
    /\ cache \in [Host -> {"right", "bad", None}]
    /\ sent \in [Id -> 0..MaxCopies]
    /\ clients \in SUBSET Client /\ open \in SUBSET Client
    /\ asked \in SUBSET Client /\ waitDns \in SUBSET Client
    /\ host \in [Client -> Host \cup {None}]
    /\ inflight \in SUBSET Client /\ newC \in SUBSET Client /\ oldC \in SUBSET Client
    /\ pc \in {"loop", "accept", "event"} /\ cur \in Client \cup {None}

(* A query only points to clients that exist, are open and wait for its    *)
(* host: every other end of a client takes it out of its query, and a      *)
(* reply never visits a client twice.                                      *)
WaitersAlive ==
    \A id \in Id : \A c \in waiters[id] :
        /\ c \in clients \cap open \cap asked \cap waitDns
        /\ host[c] = queryHost[id] /\ id \in queryList

(* queryList and queryListByHost describe the same queries, one per host   *)
(* (the branch "bug, try fix" of get and cancelClient is never taken).     *)
QueriesIndexed ==
    \A id \in Id, h \in Host : byHost[h] = id <=> queryHost[id] = h

(* What is due is a query, due at that second: queryList.at(id) of         *)
(* checkQueries does not throw.                                            *)
DueIsQuery ==
    \A t \in Due : \A id \in byDue[t] : id \in queryList /\ nextRetry[id] = t

(* A host whose answer is known is not asked for.                          *)
KnownNotAsked == \A h \in Host : byHost[h] # None => cache[h] = None

(* An event is never handed to a deleted client: the reason why main()     *)
(* deletes late.                                                           *)
EventsAlive == inflight \subseteq clients /\ (pc # "loop" => cur \in clients)

-----------------------------------------------------------------------------
(* Fairness.  A handler returns, the timers tick and end epoll_wait, and    *)
(* a round handles each of its events before the next.                     *)
Fairness ==
    /\ WF_vars(HandlerEnd)
    /\ SF_vars(EpollWait) /\ SF_vars(\E c \in Client : Event(c))
    /\ SF_vars(CheckQueries) /\ SF_vars(Tick)
    /\ SF_vars(\E T \in SUBSET Client : CheckTimeout(T))

FairSpec == Spec /\ Fairness

\* The clients are alike: what is eventually true of this one is of all.
SomeClient == CHOOSE c \in Client : TRUE

Waits == \E id \in Id : SomeClient \in waiters[id]

WaitsTimed == \E id \in Id : SomeClient \in waiters[id] /\ \E t \in Due : id \in byDue[t]

(* As long as its query is in queryByNextDueTime a client does not wait    *)
(* for ever, whatever is lost.                                             *)
TimesOut == WaitsTimed ~> ~WaitsTimed

(* A client that is closed is deleted.                                     *)
Reaped == SomeClient \in clients \ open ~> SomeClient \notin clients

-----------------------------------------------------------------------------
(* What comments and assertions of the program say, and the program does   *)
(* not do.                                                                 *)

(* Client.hpp:52, of Client::clients: "for timeout".  A client that waits  *)
(* for a reply does not wait for ever.                                     *)
Answered == Waits ~> ~Waits

(* main.cpp:151-155, the assertion "delete Client failed, not found": what *)
(* main() is about to delete exists.                                       *)
DeletedOnce == oldC \subseteq clients
=============================================================================
