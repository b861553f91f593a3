--------------------------- MODULE ResolverProofs ---------------------------
(***************************************************************************)
(* The safety properties of Resolver hold for every number of clients,     *)
(* hosts and ids and for every limit and delay.                            *)
(*                                                                         *)
(* They hold together: a query points to clients that are alive because    *)
(* disconnect finds the query of a client through queryListByHost          *)
(* (QueriesIndexed), and checkQueries ends only queries because what is    *)
(* due is one.  Two parts are added for the deferred deletion: what is     *)
(* given up is closed (GivenUpClosed), so the events main() has fetched    *)
(* for open clients are of none it deletes, and what is being accepted has *)
(* no event yet (AcceptedFresh).                                           *)
(***************************************************************************)
EXTENDS Resolver, TLAPS

\* What is open exists.
OpenExist == open \subseteq clients

\* What waits for its deletion is closed.
GivenUpClosed == (newC \cup oldC) \cap open = {}

\* A client that is being accepted has no event and is not given up.
AcceptedFresh == pc = "accept" => cur \notin inflight \cup newC \cup oldC

IInv ==
    /\ TypeOK
    /\ QueriesIndexed /\ WaitersAlive /\ DueIsQuery /\ KnownNotAsked
    /\ EventsAlive /\ OpenExist /\ GivenUpClosed /\ AcceptedFresh

-----------------------------------------------------------------------------
(* Queries and clients.                                                    *)

(* A client waits in one query: that of its host.                          *)
LEMMA SoleQuery ==
    ASSUME IInv, NEW i \in Id, NEW j \in Id, NEW c \in waiters[i], c \in waiters[j]
    PROVE  i = j
<1>1. host[c] = queryHost[i] /\ host[c] = queryHost[j] /\ queryHost[i] # None
    BY DEF IInv, WaitersAlive, queryList
<1>2. queryHost[i] \in Host
    BY <1>1 DEF IInv, TypeOK
<1>3. byHost[queryHost[i]] = i /\ byHost[queryHost[i]] = j
    BY <1>1, <1>2 DEF IInv, QueriesIndexed
<1> QED BY <1>3

(* A client that is disconnected waits in no query any more, and no other  *)
(* client is taken out of its query.                                       *)
LEMMA DisconnectLeaves ==
    ASSUME IInv, NEW C \in SUBSET Client, Disconnect(C)
    PROVE  /\ open' = open \ C
           /\ waiters' \in [Id -> SUBSET Client]
           /\ \A id \in Id : waiters'[id] = waiters[id] \ C
<1>1. open' = open \ C /\ Cancel(C)
    BY DEF Disconnect
<1>2. \A id \in Id : waiters[id] \in SUBSET Client
    BY DEF IInv, TypeOK
<1>3. \A id \in Id :
         waiters'[id] = waiters[id] \ {c \in C \cap waitDns : host[c] # None /\ byHost[host[c]] = id}
    BY <1>1 DEF Cancel
<1>4. \A id \in Id, c \in C :
         c \in waiters[id] => c \in waitDns /\ host[c] # None /\ byHost[host[c]] = id
    <2> TAKE id \in Id, c \in C
    <2> HAVE c \in waiters[id]
    <2>1. c \in waitDns /\ host[c] = queryHost[id] /\ queryHost[id] # None
        BY DEF IInv, WaitersAlive, queryList
    <2>2. queryHost[id] \in Host
        BY <2>1 DEF IInv, TypeOK
    <2> QED BY <2>1, <2>2 DEF IInv, QueriesIndexed
<1>5. \A id \in Id : waiters'[id] = waiters[id] \ C
    BY <1>3, <1>4
<1>6. waiters' \in [Id -> SUBSET Client]
    BY <1>1, <1>2 DEF Cancel
<1> QED BY <1>1, <1>5, <1>6

(* A host is being asked for exactly when it has an id in queryListByHost. *)
LEMMA KnownByHost ==
    ASSUME IInv, NEW h \in Host
    PROVE  /\ Known(h) <=> byHost[h] # None
           /\ Known(h) => byHost[h] \in Id /\ queryHost[byHost[h]] = h
BY ResolverAssumption DEF IInv, TypeOK, QueriesIndexed, Known, queryList

(* What is due is queries, each at one second.                             *)
LEMMA DueFacts ==
    ASSUME IInv
    PROVE  \A t \in Due : byDue[t] \subseteq queryList /\ \A id \in byDue[t] : nextRetry[id] = t
BY DEF IInv, DueIsQuery

(* The types of what removeQuery assigns.                                  *)
LEMMA RemoveQueryType ==
    ASSUME IInv, NEW id \in queryList, RemoveQuery(id)
    PROVE  /\ queryHost' \in [Id -> Host \cup {None}] /\ waiters' \in [Id -> SUBSET Client]
           /\ retryTime' \in [Id -> 0..2] /\ nextRetry' \in [Id -> Past..RetryDelay]
           /\ byHost' \in [Host -> Id \cup {None}] /\ byDue' \in [Due -> SUBSET Id]
<1>1. Past \in Past..RetryDelay
    BY ResolverAssumption DEF Past
<1>2. queryHost' \in [Id -> Host \cup {None}] /\ waiters' \in [Id -> SUBSET Client]
    BY DEF IInv, TypeOK, RemoveQuery
<1>3. retryTime' \in [Id -> 0..2]
    <2>1. retryTime \in [Id -> 0..2]
        BY DEF IInv, TypeOK
    <2>2. retryTime' = [retryTime EXCEPT ![id] = 0] /\ id \in Id /\ 0 \in 0..2
        BY DEF RemoveQuery, queryList
    <2> QED BY <2>1, <2>2
<1>4. nextRetry' \in [Id -> Past..RetryDelay]
    BY <1>1 DEF IInv, TypeOK, RemoveQuery
<1>5. byHost' \in [Host -> Id \cup {None}]
    BY DEF IInv, TypeOK, RemoveQuery, Unindex
<1>6. byDue' \in [Due -> SUBSET Id]
    BY DEF IInv, TypeOK, RemoveQuery, NotDue
<1> QED BY <1>2, <1>3, <1>4, <1>5, <1>6

-----------------------------------------------------------------------------
(* Types.                                                                  *)

\* The three parts of TypeOK that most actions leave as they are.
QueryTypes ==
    /\ queryHost \in [Id -> Host \cup {None}]
    /\ waiters \in [Id -> SUBSET Client]
    /\ retryTime \in [Id -> 0..2] /\ nextRetry \in [Id -> Past..RetryDelay]
    /\ byHost \in [Host -> Id \cup {None}]
    /\ byDue \in [Due -> SUBSET Id]

NetTypes ==
    /\ inProgress \in -MaxSurplus..(Limit + 1)
    /\ cache \in [Host -> {"right", "bad", None}]
    /\ sent \in [Id -> 0..MaxCopies]

ClientTypes ==
    /\ clients \in SUBSET Client /\ open \in SUBSET Client
    /\ asked \in SUBSET Client /\ waitDns \in SUBSET Client
    /\ host \in [Client -> Host \cup {None}]
    /\ inflight \in SUBSET Client /\ newC \in SUBSET Client /\ oldC \in SUBSET Client
    /\ pc \in {"loop", "accept", "event"} /\ cur \in Client \cup {None}

LEMMA TypeParts == /\ TypeOK <=> QueryTypes /\ NetTypes /\ ClientTypes
                   /\ TypeOK' <=> QueryTypes' /\ NetTypes' /\ ClientTypes'
BY DEF TypeOK, QueryTypes, NetTypes, ClientTypes

(* What a client asks for.                                                 *)
LEMMA RequestType ==
    ASSUME IInv, Request
    PROVE  TypeOK'
<1>1. QueryTypes /\ NetTypes /\ ClientTypes /\ cur \in Client
    BY TypeParts DEF IInv, EventsAlive, Request, Reading, NoDns, Ask, GetJoin, GetCached,
        GetOverloaded, GetNew, ClientTypes
<1>2. CASE NoDns
    BY <1>1, <1>2, TypeParts DEF NoDns, Reading, queryVars, netVars, lifeVars, QueryTypes,
        NetTypes, ClientTypes
<1>3. ASSUME NEW h \in Host, GetJoin(h)
      PROVE  TypeOK'
    <2>1. byHost[h] \in Id
        BY <1>3, KnownByHost DEF GetJoin
    <2>2. QueryTypes'
        BY <1>1, <1>3, <2>1 DEF GetJoin, QueryTypes
    <2>3. NetTypes' /\ ClientTypes'
        BY <1>1, <1>3 DEF GetJoin, Ask, Reading, NetTypes, ClientTypes, netVars, lifeVars
    <2> QED BY <2>2, <2>3, TypeParts
<1>4. ASSUME NEW h \in Host, GetCached(h)
      PROVE  TypeOK'
    <2>1. QueryTypes'
        BY <1>1, <1>4 DEF GetCached, Forget, QueryTypes
    <2>2. NetTypes' /\ ClientTypes'
        BY <1>1, <1>4 DEF GetCached, Ask, Reading, NetTypes, ClientTypes, netVars, lifeVars
    <2> QED BY <2>1, <2>2, TypeParts
<1>5. ASSUME NEW h \in Host, GetOverloaded(h)
      PROVE  TypeOK'
    <2>1. QueryTypes'
        BY <1>1, <1>5 DEF GetOverloaded, Forget, QueryTypes
    <2>2. NetTypes' /\ ClientTypes'
        BY <1>1, <1>5 DEF GetOverloaded, Reading, NetTypes, ClientTypes, netVars, lifeVars
    <2> QED BY <2>1, <2>2, TypeParts
<1>6. ASSUME NEW h \in Host, NEW id \in Id, GetNew(h, id)
      PROVE  TypeOK'
    <2>1. RetryDelay \in Due /\ RetryDelay \in Past..RetryDelay
        BY ResolverAssumption DEF Due, Past
    <2>2. /\ queryHost' \in [Id -> Host \cup {None}] /\ waiters' \in [Id -> SUBSET Client]
          /\ byHost' \in [Host -> Id \cup {None}]
        BY <1>1, <1>6 DEF GetNew, QueryTypes
    <2>3. retryTime' \in [Id -> 0..2] /\ nextRetry' \in [Id -> Past..RetryDelay]
        BY <1>1, <1>6, <2>1 DEF GetNew, QueryTypes
    <2>4. byDue' \in [Due -> SUBSET Id]
        BY <1>1, <1>6, <2>1 DEF GetNew, QueryTypes
    <2>5. inProgress' \in -MaxSurplus..(Limit + 1)
        BY <1>1, <1>6, ResolverAssumption DEF GetNew, NetTypes
    <2>6. cache' = cache /\ sent' \in [Id -> 0..MaxCopies]
        BY <1>1, <1>6, ResolverAssumption DEF GetNew, NetTypes
    <2>7. ClientTypes'
        BY <1>1, <1>6 DEF GetNew, Ask, Reading, ClientTypes, lifeVars
    <2> QED BY <1>1, <2>2, <2>3, <2>4, <2>5, <2>6, <2>7, TypeParts DEF QueryTypes, NetTypes
<1> QED BY <1>2, <1>3, <1>4, <1>5, <1>6 DEF Request

(* What the timers of Dns do.                                              *)
LEMMA CheckQueriesType ==
    ASSUME IInv, CheckQueries
    PROVE  TypeOK'
<1> DEFINE due == UNION {byDue[t] : t \in -MaxLate..0}
           ended == {id \in due : LastTry(id)}
           again == due \ ended
           told == UNION {waiters[id] : id \in ended}
<1>1. QueryTypes /\ NetTypes /\ ClientTypes
    BY TypeParts DEF IInv
<1>2. -MaxLate..0 \subseteq Due
    BY ResolverAssumption DEF Due
<1>3. due \in SUBSET Id
    BY <1>1, <1>2 DEF QueryTypes
<1>4. told \in SUBSET Client
    BY <1>1, <1>3 DEF QueryTypes
<1>5. /\ sent' = [id \in Id |-> IF id \in again THEN SendAgain(id) ELSE sent[id]]
      /\ retryTime' = [id \in Id |-> IF id \in again THEN NextTry(id)
                                ELSE IF id \in ended THEN 0 ELSE retryTime[id]]
      /\ nextRetry' = [id \in Id |-> IF id \in again THEN RetryDelay
                                ELSE IF id \in ended THEN Past ELSE nextRetry[id]]
      /\ byDue' = [t \in Due |-> IF t <= 0 THEN {}
                            ELSE IF t = RetryDelay THEN byDue[t] \cup again ELSE byDue[t]]
      /\ waitDns' = waitDns \ told /\ open' = open \ told
      /\ byHost' = [h \in Host |-> IF \E id \in ended : queryHost[id] = h THEN None ELSE byHost[h]]
      /\ queryHost' = [id \in Id |-> IF id \in ended THEN None ELSE queryHost[id]]
      /\ waiters' = [id \in Id |-> IF id \in ended THEN {} ELSE waiters[id]]
      /\ UNCHANGED <<lifeVars, asked, host, inProgress, cache, pc, cur>>
    BY DEF CheckQueries
<1>6. \A id \in again : ~ LastTry(id)
    OBVIOUS
<1> HIDE DEF due, ended, again, told
<1>7. ended \in SUBSET Id /\ again \in SUBSET Id
    BY <1>3 DEF ended, again
<1>8. retryTime' \in [Id -> 0..2]
    <2> SUFFICES ASSUME NEW id \in Id
                 PROVE  (IF id \in again THEN NextTry(id)
                         ELSE IF id \in ended THEN 0 ELSE retryTime[id]) \in 0..2
        BY <1>5
    <2>1. retryTime[id] \in 0..2
        BY <1>1 DEF QueryTypes
    <2>2. id \in again => retryTime[id] < 2
        BY <1>6, <2>1 DEF LastTry
    <2> QED BY <2>1, <2>2 DEF NextTry
<1>9. nextRetry' \in [Id -> Past..RetryDelay]
    <2>1. Past \in Past..RetryDelay /\ RetryDelay \in Past..RetryDelay
        BY ResolverAssumption DEF Past
    <2> QED BY <1>1, <1>5, <2>1 DEF QueryTypes
<1>10. sent' \in [Id -> 0..MaxCopies]
    <2> SUFFICES ASSUME NEW id \in Id
                 PROVE  (IF id \in again THEN SendAgain(id) ELSE sent[id]) \in 0..MaxCopies
        BY <1>5
    <2>1. sent[id] \in 0..MaxCopies
        BY <1>1 DEF NetTypes
    <2> QED BY <2>1, ResolverAssumption DEF SendAgain
<1>11. byDue' \in [Due -> SUBSET Id]
    BY <1>1, <1>5, <1>7 DEF QueryTypes
<1>12. /\ byHost' \in [Host -> Id \cup {None}]
       /\ queryHost' \in [Id -> Host \cup {None}] /\ waiters' \in [Id -> SUBSET Client]
    BY <1>1, <1>5 DEF QueryTypes
<1>13. QueryTypes'
    BY <1>8, <1>9, <1>11, <1>12 DEF QueryTypes
<1>14. NetTypes'
    BY <1>1, <1>5, <1>10 DEF NetTypes
<1>15. ClientTypes'
    BY <1>1, <1>4, <1>5 DEF ClientTypes, lifeVars
<1> QED BY <1>13, <1>14, <1>15, TypeParts

LEMMA TickType ==
    ASSUME IInv, Tick
    PROVE  TypeOK'
<1>1. QueryTypes /\ NetTypes /\ ClientTypes
    BY TypeParts DEF IInv
<1>2. byDue' \in [Due -> SUBSET Id]
    <2>1. \A t \in Due : t # RetryDelay => t + 1 \in Due
        BY ResolverAssumption DEF Due
    <2> QED BY <1>1, <2>1 DEF Tick, QueryTypes
<1>3. nextRetry' \in [Id -> Past..RetryDelay]
    <2>1. \A n \in Past..RetryDelay : n # Past => n - 1 \in Past..RetryDelay
        BY ResolverAssumption DEF Past
    <2> QED BY <1>1, <2>1 DEF Tick, QueryTypes
<1> QED BY <1>1, <1>2, <1>3, TypeParts DEF Tick, QueryTypes, NetTypes, ClientTypes, clientVars,
        lifeVars, netVars

(* What arrives or is lost.                                                *)
LEMMA NetworkType ==
    ASSUME IInv, Network
    PROVE  TypeOK'
<1>1. QueryTypes /\ NetTypes /\ ClientTypes
    BY TypeParts DEF IInv
<1>2. ASSUME NEW id \in Id, sent[id] > 0, sent' = [sent EXCEPT ![id] = @ - 1]
      PROVE  sent' \in [Id -> 0..MaxCopies]
    <2>1. sent[id] - 1 \in 0..MaxCopies
        BY <1>1, <1>2, ResolverAssumption DEF NetTypes
    <2> QED BY <1>1, <1>2, <2>1 DEF NetTypes
<1>3. ASSUME NEW id \in Id, Receive(id)
      PROVE  inProgress' \in -MaxSurplus..(Limit + 1) /\ sent' \in [Id -> 0..MaxCopies]
    <2>1. inProgress' \in -MaxSurplus..(Limit + 1)
        BY <1>1, <1>3, ResolverAssumption DEF Receive, NetTypes
    <2> QED BY <1>2, <1>3, <2>1 DEF Receive
<1>4. ASSUME NEW id \in Id, ReplyIgnored(id)
      PROVE  TypeOK'
    <2>1. QueryTypes'
        BY <1>1, <1>4 DEF ReplyIgnored, queryVars, QueryTypes
    <2>2. NetTypes'
        BY <1>1, <1>3, <1>4 DEF ReplyIgnored, NetTypes
    <2>3. ClientTypes'
        BY <1>1, <1>4 DEF ReplyIgnored, Receive, lifeVars, ClientTypes
    <2> QED BY <2>1, <2>2, <2>3, TypeParts
<1>5. ASSUME NEW id \in Id, Lost(id)
      PROVE  TypeOK'
    BY <1>1, <1>2, <1>5, TypeParts DEF Lost, queryVars, clientVars, lifeVars, QueryTypes,
        NetTypes, ClientTypes
<1>6. ASSUME NEW id \in Id, NEW answer \in {"right", "bad"}, NEW kept \in BOOLEAN,
             Reply(id, answer, kept)
      PROVE  TypeOK'
    <2>1. id \in queryList
        BY <1>6 DEF Reply, IInv, WaitersAlive
    <2>2. QueryTypes'
        BY <1>6, <2>1, RemoveQueryType DEF Reply, QueryTypes
    <2>3. cache' \in [Host -> {"right", "bad", None}]
        BY <1>1, <1>6 DEF Reply, NetTypes
    <2>4. NetTypes'
        BY <1>3, <1>6, <2>3 DEF Reply, NetTypes
    <2>5. waitDns' \in SUBSET Client /\ open' \in SUBSET Client
        BY <1>1, <1>6 DEF Reply, ClientTypes
    <2>6. ClientTypes'
        BY <1>1, <1>6, <2>5 DEF Reply, Receive, lifeVars, ClientTypes
    <2> QED BY <2>2, <2>4, <2>6, TypeParts
<1> QED BY <1>4, <1>5, <1>6 DEF Network

(* What the main loop does with clients.                                   *)
LEMMA ClientType ==
    ASSUME IInv, MainLoop \/ Leave \/ HandlerEnd \/ \E T \in SUBSET Client : CheckTimeout(T)
    PROVE  TypeOK'
<1>1. QueryTypes /\ NetTypes /\ ClientTypes
    BY TypeParts DEF IInv
<1>2. CASE UNCHANGED <<queryVars, netVars>> /\ ClientTypes'
    BY <1>1, <1>2, TypeParts DEF queryVars, netVars, QueryTypes, NetTypes
<1>3. ASSUME NEW C \in SUBSET Client, Disconnect(C), ClientTypes',
             UNCHANGED <<queryHost, retryTime, nextRetry, byHost, byDue, netVars>>
      PROVE  TypeOK'
    <2>1. waiters' \in [Id -> SUBSET Client]
        BY <1>3, DisconnectLeaves
    <2> QED BY <1>1, <1>3, <2>1, TypeParts DEF netVars, QueryTypes, NetTypes
<1>4. ASSUME NEW c \in Client, Accept(c) \/ Event(c)
      PROVE  TypeOK'
    <2>1. ClientTypes'
        BY <1>1, <1>4 DEF Accept, Event, ClientTypes, clientVars
    <2> QED BY <1>2, <1>4, <2>1 DEF Accept, Event
<1>5. CASE EpollWait
    <2>1. ClientTypes'
        BY <1>1, <1>5 DEF EpollWait, Delete, ClientTypes
    <2> QED BY <1>2, <1>5, <2>1 DEF EpollWait
<1>6. ASSUME NEW c \in Client, EndedByHttp(c)
      PROVE  TypeOK'
    <2>1. ClientTypes'
        BY <1>1, <1>6 DEF EndedByHttp, Disconnect, lifeVars, ClientTypes
    <2> QED BY <1>3, <1>6, <2>1 DEF EndedByHttp
<1>7. CASE Leave
    <2>1. ClientTypes' /\ {cur} \in SUBSET Client
        BY <1>1, <1>7 DEF Leave, Disconnect, lifeVars, ClientTypes, IInv, EventsAlive
    <2> QED BY <1>3, <1>7, <2>1 DEF Leave
<1>8. CASE HandlerEnd
    <2>1. {cur} \in SUBSET Client
        BY <1>1, <1>8 DEF HandlerEnd, ClientTypes, IInv, EventsAlive
    <2>2. ClientTypes'
        BY <1>1, <1>8, <2>1 DEF HandlerEnd, Disconnect, Delete, GiveUp, clientVars, ClientTypes
    <2> QED BY <1>2, <1>3, <1>8, <2>1, <2>2 DEF HandlerEnd, queryVars
<1>9. ASSUME NEW X \in SUBSET Client, CheckTimeout(X)
      PROVE  TypeOK'
    <2>1. X \cup Closed \in SUBSET Client
        BY <1>1 DEF Closed, ClientTypes
    <2>2. ClientTypes'
        BY <1>1, <1>9, <2>1 DEF CheckTimeout, Disconnect, GiveUp, ClientTypes
    <2> QED BY <1>3, <1>9, <2>1, <2>2 DEF CheckTimeout
<1> QED BY <1>4, <1>5, <1>6, <1>7, <1>8, <1>9 DEF MainLoop

LEMMA TypeStep ==
    ASSUME IInv, [Next]_vars
    PROVE  TypeOK'
<1>1. ASSUME NEW h \in Host, Outdate(h)
      PROVE  TypeOK'
    BY <1>1 DEF Outdate, IInv, TypeOK, queryVars, clientVars, lifeVars
<1>2. CASE UNCHANGED vars
    BY <1>2 DEF vars, queryVars, clientVars, lifeVars, netVars, IInv, TypeOK
<1> QED BY <1>1, <1>2, RequestType, CheckQueriesType, TickType, NetworkType, ClientType
        DEF Next, Handler, Timers

-----------------------------------------------------------------------------
(* The indexes.                                                            *)

(* queryList and queryListByHost change together.                          *)
LEMMA QueriesIndexedStep ==
    ASSUME IInv, [Next]_vars
    PROVE  QueriesIndexed'
<1>1. /\ queryHost \in [Id -> Host \cup {None}] /\ byHost \in [Host -> Id \cup {None}]
      /\ QueriesIndexed /\ None \notin Host \cup Id
    BY ResolverAssumption DEF IInv, TypeOK
<1>2. CASE UNCHANGED <<queryHost, byHost>>
    BY <1>2 DEF IInv, QueriesIndexed
<1>3. ASSUME NEW h \in Host, GetCached(h) \/ GetOverloaded(h)
      PROVE  QueriesIndexed'
    <2>1. byHost[h] = None /\ byHost' = [byHost EXCEPT ![h] = None] /\ queryHost' = queryHost
        BY <1>3, KnownByHost DEF GetCached, GetOverloaded, Forget
    <2>2. byHost' = byHost
        BY <1>1, <2>1
    <2> QED BY <1>2, <2>1, <2>2
<1>4. ASSUME NEW h \in Host, NEW id \in Id, GetNew(h, id)
      PROVE  QueriesIndexed'
    <2>1. byHost[h] = None /\ queryHost[id] = None
        BY <1>4, KnownByHost DEF GetNew, FreshId, queryList
    <2>2. byHost' = [byHost EXCEPT ![h] = id] /\ queryHost' = [queryHost EXCEPT ![id] = h]
        BY <1>4 DEF GetNew
    <2> QED BY <1>1, <2>1, <2>2 DEF QueriesIndexed
<1>5. ASSUME NEW id \in Id, NEW answer, NEW kept, Reply(id, answer, kept)
      PROVE  QueriesIndexed'
    <2>1. queryHost[id] \in Host
        BY <1>1, <1>5 DEF Reply, IInv, WaitersAlive, queryList
    <2>2. byHost' = [byHost EXCEPT ![queryHost[id]] = None] /\ queryHost' = [queryHost EXCEPT ![id] = None]
        BY <1>5 DEF Reply, RemoveQuery, Unindex
    <2> QED BY <1>1, <2>1, <2>2 DEF QueriesIndexed
<1>6. CASE CheckQueries
    <2>1. PICK ended :
            /\ byHost' = [h \in Host |-> IF \E id \in ended : queryHost[id] = h THEN None ELSE byHost[h]]
            /\ queryHost' = [id \in Id |-> IF id \in ended THEN None ELSE queryHost[id]]
            /\ ended \subseteq UNION {byDue[t] : t \in -MaxLate..0}
        <3> DEFINE due == UNION {byDue[t] : t \in -MaxLate..0}
                   ended == {id \in due : LastTry(id)}
        <3>1. /\ byHost' = [h \in Host |-> IF \E id \in ended : queryHost[id] = h THEN None ELSE byHost[h]]
              /\ queryHost' = [id \in Id |-> IF id \in ended THEN None ELSE queryHost[id]]
            BY <1>6 DEF CheckQueries
        <3>2. ended \subseteq due
            OBVIOUS
        <3> HIDE DEF ended
        <3> QED BY <3>1, <3>2
    <2>2. ended \subseteq Id
        <3>1. \A t \in -MaxLate..0 : byDue[t] \subseteq Id
            BY ResolverAssumption DEF Due, IInv, TypeOK
        <3> QED BY <2>1, <3>1
    <2> SUFFICES ASSUME NEW id \in Id, NEW h \in Host
                 PROVE  byHost'[h] = id <=> queryHost'[id] = h
        BY DEF QueriesIndexed
    <2>3. /\ byHost'[h] = IF \E i \in ended : queryHost[i] = h THEN None ELSE byHost[h]
          /\ queryHost'[id] = IF id \in ended THEN None ELSE queryHost[id]
        BY <2>1
    <2>4. \A i \in Id : byHost[h] = i <=> queryHost[i] = h
        BY <1>1 DEF QueriesIndexed
    <2> QED BY <1>1, <2>2, <2>3, <2>4
<1>7. CASE \/ MainLoop \/ Leave \/ HandlerEnd \/ NoDns \/ (\E h \in Host : GetJoin(h) \/ Outdate(h))
           \/ (\E id \in Id : ReplyIgnored(id) \/ Lost(id)) \/ Tick
           \/ (\E T \in SUBSET Client : CheckTimeout(T)) \/ UNCHANGED vars
    BY <1>2, <1>7 DEF MainLoop, EpollWait, Event, Accept, EndedByHttp, Leave, HandlerEnd,
        NoDns, GetJoin, Outdate, ReplyIgnored, Lost, Tick, CheckTimeout, vars, queryVars
<1> QED BY <1>3, <1>4, <1>5, <1>6, <1>7 DEF Next, Handler, Request, Network, Timers

(* What checkQueries does: the queries it ends and those it sends again    *)
(* are all that is due.                                                    *)
LEMMA CheckQueriesFacts ==
    ASSUME IInv, CheckQueries
    PROVE  \E ended \in SUBSET queryList, again \in SUBSET queryList :
             /\ ended \cap again = {}
             /\ \A t \in Due : t <= 0 => byDue[t] \subseteq ended \cup again
             /\ \A id \in ended \cup again : \E t \in Due : t <= 0 /\ id \in byDue[t]
             /\ nextRetry' = [id \in Id |-> IF id \in again THEN RetryDelay
                                ELSE IF id \in ended THEN Past ELSE nextRetry[id]]
             /\ byDue' = [t \in Due |-> IF t <= 0 THEN {}
                            ELSE IF t = RetryDelay THEN byDue[t] \cup again ELSE byDue[t]]
             /\ open' = open \ UNION {waiters[id] : id \in ended}
             /\ waitDns' = waitDns \ UNION {waiters[id] : id \in ended}
             /\ byHost' = [h \in Host |-> IF \E id \in ended : queryHost[id] = h
                                          THEN None ELSE byHost[h]]
             /\ queryHost' = [id \in Id |-> IF id \in ended THEN None ELSE queryHost[id]]
             /\ waiters' = [id \in Id |-> IF id \in ended THEN {} ELSE waiters[id]]
<1> DEFINE due == UNION {byDue[t] : t \in -MaxLate..0}
           ended == {id \in due : LastTry(id)}
           again == due \ ended
<1>1. -MaxLate..0 \subseteq Due /\ \A t \in Due : t <= 0 => t \in -MaxLate..0
    BY ResolverAssumption DEF Due
<1>2. due \in SUBSET queryList
    BY <1>1, DueFacts
<1>3. /\ nextRetry' = [id \in Id |-> IF id \in again THEN RetryDelay
                                ELSE IF id \in ended THEN Past ELSE nextRetry[id]]
      /\ byDue' = [t \in Due |-> IF t <= 0 THEN {}
                            ELSE IF t = RetryDelay THEN byDue[t] \cup again ELSE byDue[t]]
      /\ open' = open \ UNION {waiters[id] : id \in ended}
      /\ waitDns' = waitDns \ UNION {waiters[id] : id \in ended}
      /\ byHost' = [h \in Host |-> IF \E id \in ended : queryHost[id] = h
                                          THEN None ELSE byHost[h]]
      /\ queryHost' = [id \in Id |-> IF id \in ended THEN None ELSE queryHost[id]]
      /\ waiters' = [id \in Id |-> IF id \in ended THEN {} ELSE waiters[id]]
    BY DEF CheckQueries
<1>4. ended \cap again = {} /\ ended \cup again = due
    OBVIOUS
<1>5. \A t \in Due : t <= 0 => byDue[t] \subseteq due
    BY <1>1
<1>6. \A id \in due : \E t \in Due : t <= 0 /\ id \in byDue[t]
    <2> TAKE id \in due
    <2>1. PICK t \in -MaxLate..0 : id \in byDue[t]
        OBVIOUS
    <2>2. t \in Due /\ t <= 0
        BY <1>1, <2>1, ResolverAssumption
    <2> QED BY <2>1, <2>2
<1> HIDE DEF due, ended, again
<1>7. ended \in SUBSET queryList /\ again \in SUBSET queryList
    BY <1>2, <1>4
<1>8. /\ \A t \in Due : t <= 0 => byDue[t] \subseteq ended \cup again
      /\ \A id \in ended \cup again : \E t \in Due : t <= 0 /\ id \in byDue[t]
    BY <1>4, <1>5, <1>6
<1> QED BY <1>3, <1>4, <1>7, <1>8

(* What is due stays the queries, each at its second.                      *)
LEMMA DueIsQueryStep ==
    ASSUME IInv, [Next]_vars
    PROVE  DueIsQuery'
<1>1. /\ DueIsQuery /\ byDue \in [Due -> SUBSET Id]
      /\ queryHost \in [Id -> Host \cup {None}] /\ nextRetry \in [Id -> Past..RetryDelay]
    BY DEF IInv, TypeOK
<1>2. CASE UNCHANGED <<queryHost, nextRetry, byDue>>
    BY <1>1, <1>2 DEF DueIsQuery, queryList
<1>3. ASSUME NEW h \in Host, NEW id \in Id, GetNew(h, id)
      PROVE  DueIsQuery'
    <2> SUFFICES ASSUME NEW t \in Due, NEW i \in byDue'[t]
                 PROVE  i \in Id /\ queryHost'[i] # None /\ nextRetry'[i] = t
        BY DEF DueIsQuery, queryList
    <2>1. /\ queryHost' = [queryHost EXCEPT ![id] = h]
          /\ nextRetry' = [nextRetry EXCEPT ![id] = RetryDelay]
          /\ byDue' = [byDue EXCEPT ![RetryDelay] = @ \cup {id}]
          /\ h # None /\ RetryDelay \in Due
        BY <1>3, ResolverAssumption DEF GetNew, Due
    <2>2. CASE i = id
        <3>1. id \notin byDue[t]
            BY <1>3 DEF GetNew, FreshId
        <3>2. t = RetryDelay
            BY <1>1, <2>1, <2>2, <3>1
        <3> QED BY <1>1, <2>1, <2>2, <3>2
    <2>3. CASE i # id
        <3>1. i \in byDue[t]
            BY <1>1, <2>1, <2>3
        <3> QED BY <1>1, <2>1, <2>3, <3>1 DEF DueIsQuery, queryList
    <2> QED BY <2>2, <2>3
<1>4. ASSUME NEW id \in Id, NEW answer, NEW kept, Reply(id, answer, kept)
      PROVE  DueIsQuery'
    <2> SUFFICES ASSUME NEW t \in Due, NEW i \in byDue'[t]
                 PROVE  i \in Id /\ queryHost'[i] # None /\ nextRetry'[i] = t
        BY DEF DueIsQuery, queryList
    <2>1. /\ queryHost' = [queryHost EXCEPT ![id] = None]
          /\ nextRetry' = [nextRetry EXCEPT ![id] = Past]
          /\ byDue' = [s \in Due |-> IF s = nextRetry[id] THEN {} ELSE byDue[s]]
        BY <1>4 DEF Reply, RemoveQuery, NotDue
    <2>2. t # nextRetry[id] /\ i \in byDue[t]
        BY <2>1
    <2>3. i \in Id /\ queryHost[i] # None /\ nextRetry[i] = t
        BY <1>1, <2>2 DEF DueIsQuery, queryList
    <2>4. i # id
        BY <2>2, <2>3
    <2> QED BY <1>1, <2>1, <2>3, <2>4
<1>5. CASE CheckQueries
    <2> SUFFICES ASSUME NEW t \in Due, NEW i \in byDue'[t]
                 PROVE  i \in Id /\ queryHost'[i] # None /\ nextRetry'[i] = t
        BY DEF DueIsQuery, queryList
    <2>1. PICK ended \in SUBSET queryList, again \in SUBSET queryList :
             /\ ended \cap again = {}
             /\ \A s \in Due : s <= 0 => byDue[s] \subseteq ended \cup again
             /\ \A id \in ended \cup again : \E s \in Due : s <= 0 /\ id \in byDue[s]
             /\ nextRetry' = [id \in Id |-> IF id \in again THEN RetryDelay
                                ELSE IF id \in ended THEN Past ELSE nextRetry[id]]
             /\ byDue' = [s \in Due |-> IF s <= 0 THEN {}
                            ELSE IF s = RetryDelay THEN byDue[s] \cup again ELSE byDue[s]]
             /\ queryHost' = [id \in Id |-> IF id \in ended THEN None ELSE queryHost[id]]
        BY <1>5, CheckQueriesFacts
    <2>2. t > 0 /\ i \in byDue[t] \cup again /\ (t # RetryDelay => i \in byDue[t])
        BY <2>1, ResolverAssumption DEF Due
    <2>3. CASE i \in again
        <3>1. i \in Id /\ queryHost[i] # None /\ i \notin ended
            BY <2>1, <2>3 DEF queryList
        <3>2. PICK s \in Due : s <= 0 /\ i \in byDue[s]
            BY <2>1, <2>3
        <3>3. nextRetry[i] = s
            BY <3>2, DueFacts
        <3>4. t = RetryDelay
            <4>1. i \in byDue[t] => nextRetry[i] = t
                BY DueFacts
            <4>2. s # t
                BY <2>2, <3>2, ResolverAssumption DEF Due
            <4> QED BY <2>2, <3>3, <4>1, <4>2
        <3> QED BY <2>1, <2>3, <3>1, <3>4
    <2>4. CASE i \notin again
        <3>1. i \in byDue[t] /\ i \in queryList /\ nextRetry[i] = t
            BY <2>2, <2>4, DueFacts
        <3>2. i \notin ended
            <4>1. i \in ended => \E s \in Due : s <= 0 /\ nextRetry[i] = s
                BY <2>1, DueFacts
            <4> QED BY <2>2, <3>1, <4>1, ResolverAssumption DEF Due
        <3> QED BY <2>1, <2>4, <3>1, <3>2 DEF queryList
    <2> QED BY <2>3, <2>4
<1>6. CASE Tick
    <2> SUFFICES ASSUME NEW t \in Due, NEW i \in byDue'[t]
                 PROVE  i \in Id /\ queryHost'[i] # None /\ nextRetry'[i] = t
        BY DEF DueIsQuery, queryList
    <2>1. /\ byDue' = [s \in Due |-> IF s = RetryDelay THEN {} ELSE byDue[s + 1]]
          /\ nextRetry' = [id \in Id |-> IF nextRetry[id] = Past THEN Past ELSE nextRetry[id] - 1]
          /\ queryHost' = queryHost
        BY <1>6 DEF Tick
    <2>2. t # RetryDelay /\ i \in byDue[t + 1]
        BY <2>1
    <2>3. t + 1 \in Due /\ t + 1 # Past /\ (t + 1) - 1 = t
        BY <2>2, ResolverAssumption DEF Due, Past
    <2>4. i \in Id /\ queryHost[i] # None /\ nextRetry[i] = t + 1
        BY <1>1, <2>2, <2>3 DEF DueIsQuery, queryList
    <2>5. nextRetry'[i] = t
        BY <2>1, <2>3, <2>4
    <2> QED BY <2>1, <2>4, <2>5
<1>7. CASE \/ MainLoop \/ Leave \/ HandlerEnd \/ NoDns
           \/ (\E h \in Host : GetJoin(h) \/ GetCached(h) \/ GetOverloaded(h) \/ Outdate(h))
           \/ (\E id \in Id : ReplyIgnored(id) \/ Lost(id))
           \/ (\E T \in SUBSET Client : CheckTimeout(T)) \/ UNCHANGED vars
    BY <1>2, <1>7 DEF MainLoop, EpollWait, Event, Accept, EndedByHttp, Leave, HandlerEnd,
        NoDns, GetJoin, GetCached, GetOverloaded, Outdate, ReplyIgnored, Lost, CheckTimeout,
        vars, queryVars
<1> QED BY <1>3, <1>4, <1>5, <1>6, <1>7 DEF Next, Handler, Request, Network, Timers

(* The answer that is kept is that of the query that ends; a query begins  *)
(* when nothing is known.                                                  *)
LEMMA KnownNotAskedStep ==
    ASSUME IInv, [Next]_vars
    PROVE  KnownNotAsked'
<1>1. /\ KnownNotAsked /\ byHost \in [Host -> Id \cup {None}]
      /\ cache \in [Host -> {"right", "bad", None}] /\ queryHost \in [Id -> Host \cup {None}]
    BY DEF IInv, TypeOK
<1>2. CASE UNCHANGED <<byHost, cache>>
    BY <1>1, <1>2 DEF KnownNotAsked
<1>3. ASSUME NEW h \in Host, GetCached(h) \/ GetOverloaded(h)
      PROVE  KnownNotAsked'
    BY <1>1, <1>3 DEF GetCached, GetOverloaded, Forget, netVars, KnownNotAsked
<1>4. ASSUME NEW h \in Host, NEW id \in Id, GetNew(h, id)
      PROVE  KnownNotAsked'
    BY <1>1, <1>4 DEF GetNew, Unknown, KnownNotAsked
<1>5. ASSUME NEW id \in Id, NEW answer, NEW kept, Reply(id, answer, kept)
      PROVE  KnownNotAsked'
    <2>1. queryHost[id] \in Host
        BY <1>1, <1>5 DEF Reply, IInv, WaitersAlive, queryList
    <2>2. /\ byHost' = [byHost EXCEPT ![queryHost[id]] = None]
          /\ cache' = IF kept THEN [cache EXCEPT ![queryHost[id]] = answer] ELSE cache
        BY <1>5 DEF Reply, RemoveQuery, Unindex
    <2> QED BY <1>1, <2>1, <2>2 DEF KnownNotAsked
<1>6. CASE CheckQueries
    BY <1>1, <1>6 DEF CheckQueries, KnownNotAsked
<1>7. ASSUME NEW h \in Host, Outdate(h)
      PROVE  KnownNotAsked'
    BY <1>1, <1>7 DEF Outdate, queryVars, KnownNotAsked
<1>8. CASE \/ MainLoop \/ Leave \/ HandlerEnd \/ NoDns \/ (\E h \in Host : GetJoin(h))
           \/ (\E id \in Id : ReplyIgnored(id) \/ Lost(id)) \/ Tick
           \/ (\E T \in SUBSET Client : CheckTimeout(T)) \/ UNCHANGED vars
    BY <1>2, <1>8 DEF MainLoop, EpollWait, Event, Accept, EndedByHttp, Leave, HandlerEnd,
        NoDns, GetJoin, ReplyIgnored, Lost, Tick, CheckTimeout, vars, queryVars, netVars
<1> QED BY <1>3, <1>4, <1>5, <1>6, <1>7, <1>8 DEF Next, Handler, Request, Network, Timers

-----------------------------------------------------------------------------
(* The clients of the queries.                                             *)

(* A step that adds no client to a query and leaves those that still wait  *)
(* as they are.                                                            *)
LEMMA StillAlive ==
    ASSUME IInv, UNCHANGED queryHost,
           \A id \in Id : waiters'[id] \subseteq waiters[id],
           \A id \in Id : \A c \in waiters'[id] :
               c \in clients' \cap open' \cap asked' \cap waitDns' /\ host'[c] = host[c]
    PROVE  WaitersAlive'
BY DEF IInv, WaitersAlive, queryList

(* What a client asks for: nobody waits before it has asked.               *)
LEMMA RequestAlive ==
    ASSUME IInv, Request
    PROVE  WaitersAlive'
<1>1. /\ waiters \in [Id -> SUBSET Client] /\ host \in [Client -> Host \cup {None}]
      /\ queryHost \in [Id -> Host \cup {None}] /\ None \notin Host
    BY ResolverAssumption DEF IInv, TypeOK
<1>2. \A id \in Id : \A c \in waiters[id] :
          /\ c \in clients \cap open \cap asked \cap waitDns
          /\ host[c] = queryHost[id] /\ queryHost[id] # None
    BY DEF IInv, WaitersAlive, queryList
<1>3. ASSUME cur \in open \ asked
      PROVE  cur \in Client \cap clients /\ \A id \in Id : cur \notin waiters[id]
    BY <1>2, <1>3 DEF IInv, OpenExist, TypeOK
<1>4. CASE NoDns
    BY <1>2, <1>4, StillAlive DEF NoDns, Reading, queryVars, lifeVars
<1>5. ASSUME NEW h \in Host, GetJoin(h)
      PROVE  WaitersAlive'
    <2>1. byHost[h] \in Id /\ queryHost[byHost[h]] = h
        BY <1>5, KnownByHost DEF GetJoin
    <2>2. /\ cur \in Client \cap clients /\ cur \in open /\ \A id \in Id : cur \notin waiters[id]
          /\ waiters' = [waiters EXCEPT ![byHost[h]] = @ \cup {cur}]
          /\ asked' = asked \cup {cur} /\ waitDns' = waitDns \cup {cur}
          /\ host' = [host EXCEPT ![cur] = h]
          /\ UNCHANGED <<queryHost, open, clients>>
        BY <1>3, <1>5 DEF GetJoin, Ask, Reading, lifeVars
    <2> SUFFICES ASSUME NEW id \in Id, NEW c \in waiters'[id]
                 PROVE  /\ c \in clients \cap open \cap asked' \cap waitDns'
                        /\ host'[c] = queryHost[id] /\ queryHost[id] # None
        BY <2>2 DEF WaitersAlive, queryList
    <2>3. CASE c = cur
        <3>1. id = byHost[h]
            BY <1>1, <2>1, <2>2, <2>3
        <3> QED BY <1>1, <2>1, <2>2, <2>3, <3>1
    <2>4. CASE c # cur
        <3>1. c \in waiters[id]
            BY <1>1, <2>1, <2>2, <2>4
        <3> QED BY <1>1, <1>2, <2>2, <2>4, <3>1
    <2> QED BY <2>3, <2>4
<1>6. ASSUME NEW h \in Host, GetCached(h) \/ GetOverloaded(h)
      PROVE  WaitersAlive'
    <2>1. /\ cur \in Client \cap clients /\ \A id \in Id : cur \notin waiters[id]
          /\ asked' = asked \cup {cur} /\ waitDns \subseteq waitDns'
          /\ open \ {cur} \subseteq open'
          /\ host' = [host EXCEPT ![cur] = h]
          /\ UNCHANGED <<queryHost, waiters, clients>>
        BY <1>3, <1>6 DEF GetCached, GetOverloaded, Ask, Reading, lifeVars
    <2>2. \A id \in Id : \A c \in waiters[id] : host'[c] = host[c]
        BY <1>1, <2>1
    <2> QED BY <1>2, <2>1, <2>2, StillAlive
<1>7. ASSUME NEW h \in Host, NEW id \in Id, GetNew(h, id)
      PROVE  WaitersAlive'
    <2>1. /\ cur \in Client \cap clients /\ cur \in open /\ \A i \in Id : cur \notin waiters[i]
          /\ waiters' = [waiters EXCEPT ![id] = {cur}]
          /\ queryHost' = [queryHost EXCEPT ![id] = h]
          /\ asked' = asked \cup {cur} /\ waitDns' = waitDns \cup {cur}
          /\ host' = [host EXCEPT ![cur] = h]
          /\ UNCHANGED <<open, clients>>
        BY <1>3, <1>7 DEF GetNew, Ask, Reading, lifeVars
    <2> SUFFICES ASSUME NEW i \in Id, NEW c \in waiters'[i]
                 PROVE  /\ c \in clients \cap open \cap asked' \cap waitDns'
                        /\ host'[c] = queryHost'[i] /\ queryHost'[i] # None
        BY <2>1 DEF WaitersAlive, queryList
    <2>2. CASE i = id
        <3>1. c = cur
            BY <1>1, <2>1, <2>2
        <3> QED BY <1>1, <2>1, <2>2, <3>1
    <2>3. CASE i # id
        <3>1. c \in waiters[i] /\ c # cur /\ queryHost'[i] = queryHost[i]
            BY <1>1, <2>1, <2>3
        <3> QED BY <1>1, <1>2, <2>1, <3>1
    <2> QED BY <2>2, <2>3
<1> QED BY <1>4, <1>5, <1>6, <1>7 DEF Request

(* The end of a client: it has left its query.                             *)
LEMMA EndAlive ==
    ASSUME IInv, NEW C \in SUBSET Client, Disconnect(C), UNCHANGED queryHost,
           clients \ C \subseteq clients', asked \ C \subseteq asked',
           waitDns \ C \subseteq waitDns', \A c \in Client \ C : host'[c] = host[c]
    PROVE  WaitersAlive'
<1>1. open' = open \ C /\ \A id \in Id : waiters'[id] = waiters[id] \ C
    BY DisconnectLeaves
<1>2. \A id \in Id : \A c \in waiters[id] :
          c \in Client /\ c \in clients \cap open \cap asked \cap waitDns
    BY DEF IInv, WaitersAlive, TypeOK
<1> QED BY <1>1, <1>2, StillAlive

(* A step that ends queries, and some of the clients that waited in them.  *)
LEMMA EndedAlive ==
    ASSUME IInv, NEW ended \in SUBSET Id,
           queryHost' = [id \in Id |-> IF id \in ended THEN None ELSE queryHost[id]],
           waiters' = [id \in Id |-> IF id \in ended THEN {} ELSE waiters[id]],
           open \ UNION {waiters[id] : id \in ended} \subseteq open',
           waitDns \ UNION {waiters[id] : id \in ended} \subseteq waitDns',
           UNCHANGED <<clients, asked, host>>
    PROVE  WaitersAlive'
<1> SUFFICES ASSUME NEW i \in Id, NEW c \in waiters'[i]
             PROVE  /\ c \in clients \cap open' \cap asked \cap waitDns'
                    /\ host[c] = queryHost'[i] /\ queryHost'[i] # None
    BY DEF WaitersAlive, queryList
<1>1. i \notin ended /\ c \in waiters[i] /\ queryHost'[i] = queryHost[i]
    OBVIOUS
<1>2. /\ c \in clients \cap open \cap asked \cap waitDns
      /\ host[c] = queryHost[i] /\ queryHost[i] # None
    BY <1>1 DEF IInv, WaitersAlive, queryList
<1>3. c \notin UNION {waiters[id] : id \in ended}
    <2> SUFFICES ASSUME NEW id \in ended, c \in waiters[id]
                 PROVE  FALSE
        OBVIOUS
    <2>1. id = i
        BY <1>1, SoleQuery
    <2> QED BY <1>1, <2>1
<1> QED BY <1>1, <1>2, <1>3

LEMMA WaitersAliveStep ==
    ASSUME IInv, [Next]_vars
    PROVE  WaitersAlive'
<1>1. /\ waiters \in [Id -> SUBSET Client] /\ queryHost \in [Id -> Host \cup {None}]
      /\ open \subseteq clients /\ cur \in Client \cup {None}
    BY DEF IInv, TypeOK, OpenExist
<1>2. \A id \in Id : \A c \in waiters[id] : c \in Client \cap clients \cap open \cap asked \cap waitDns
    BY <1>1 DEF IInv, WaitersAlive
<1>3. CASE UNCHANGED <<queryHost, waiters, clientVars, clients>>
    BY <1>2, <1>3, StillAlive DEF clientVars
<1>4. ASSUME NEW c \in Client, Accept(c)
      PROVE  WaitersAlive'
    BY <1>2, <1>4, StillAlive DEF Accept, queryVars
<1>5. CASE EpollWait
    <2>1. \A id \in Id : \A c \in waiters[id] : c \notin oldC
        BY <1>2 DEF IInv, GivenUpClosed
    <2>2. /\ clients' = clients \ oldC /\ asked' = asked \ oldC /\ waitDns' = waitDns \ oldC
          /\ host' = [c \in Client |-> IF c \in oldC THEN None ELSE host[c]]
          /\ UNCHANGED <<queryHost, waiters, open>>
        BY <1>5 DEF EpollWait, Delete, queryVars
    <2> QED BY <1>2, <2>1, <2>2, StillAlive
<1>6. ASSUME NEW c \in Client, EndedByHttp(c)
      PROVE  WaitersAlive'
    <2>1. {c} \in SUBSET Client /\ Disconnect({c}) /\ UNCHANGED <<queryHost, clients, asked, waitDns, host>>
        BY <1>6 DEF EndedByHttp, lifeVars
    <2> QED BY <2>1, EndAlive
<1>7. CASE Leave
    <2>1. /\ {cur} \in SUBSET Client /\ Disconnect({cur})
          /\ UNCHANGED <<queryHost, clients, asked, waitDns, host>>
        BY <1>7 DEF Leave, lifeVars, IInv, EventsAlive, TypeOK
    <2> QED BY <2>1, EndAlive
<1>8. CASE HandlerEnd
    <2>1. CASE cur \in open
        BY <1>3, <1>8, <2>1 DEF HandlerEnd
    <2>2. CASE cur \notin open
        <3>1. {cur} \in SUBSET Client
            BY <1>8 DEF HandlerEnd, IInv, EventsAlive, TypeOK
        <3>2. /\ Disconnect({cur}) /\ UNCHANGED queryHost
              /\ clients \ {cur} \subseteq clients' /\ asked \ {cur} \subseteq asked'
              /\ waitDns \ {cur} \subseteq waitDns' /\ \A c \in Client \ {cur} : host'[c] = host[c]
            BY <1>8, <2>2 DEF HandlerEnd, Delete, GiveUp
        <3> QED BY <3>1, <3>2, EndAlive
    <2> QED BY <2>1, <2>2
<1>9. ASSUME NEW X \in SUBSET Client, CheckTimeout(X)
      PROVE  WaitersAlive'
    <2>1. X \cup Closed \in SUBSET Client
        BY DEF Closed, IInv, TypeOK
    <2>2. Disconnect(X \cup Closed) /\ UNCHANGED <<queryHost, clients, asked, waitDns, host>>
        BY <1>9 DEF CheckTimeout, GiveUp
    <2> QED BY <2>1, <2>2, EndAlive
<1>10. ASSUME NEW id \in Id, NEW answer, NEW kept, Reply(id, answer, kept)
       PROVE  WaitersAlive'
    <2>1. /\ queryHost' = [queryHost EXCEPT ![id] = None] /\ waiters' = [waiters EXCEPT ![id] = {}]
          /\ waitDns' = waitDns \ waiters[id] /\ UNCHANGED <<clients, asked, host>>
        BY <1>10 DEF Reply, RemoveQuery, Receive, lifeVars
    <2>2. open \ waiters[id] \subseteq open'
        BY <1>10 DEF Reply
    <2>3. UNION {waiters[i] : i \in {id}} = waiters[id]
        OBVIOUS
    <2>4. /\ queryHost' = [i \in Id |-> IF i \in {id} THEN None ELSE queryHost[i]]
          /\ waiters' = [i \in Id |-> IF i \in {id} THEN {} ELSE waiters[i]]
        BY <1>1, <2>1
    <2> QED BY <2>1, <2>2, <2>3, <2>4, EndedAlive
<1>11. CASE CheckQueries
    <2>1. UNCHANGED <<clients, asked, host>>
        BY <1>11 DEF CheckQueries, lifeVars
    <2>2. PICK ended \in SUBSET queryList :
             /\ open' = open \ UNION {waiters[id] : id \in ended}
             /\ waitDns' = waitDns \ UNION {waiters[id] : id \in ended}
             /\ queryHost' = [id \in Id |-> IF id \in ended THEN None ELSE queryHost[id]]
             /\ waiters' = [id \in Id |-> IF id \in ended THEN {} ELSE waiters[id]]
        BY <1>11, CheckQueriesFacts
    <2>3. ended \in SUBSET Id
        BY DEF queryList
    <2> QED BY <2>1, <2>2, <2>3, EndedAlive
<1>12. CASE \/ (\E c \in Client : Event(c)) \/ (\E h \in Host : Outdate(h)) \/ Tick
            \/ (\E id \in Id : ReplyIgnored(id) \/ Lost(id)) \/ UNCHANGED vars
    BY <1>3, <1>12 DEF Event, Outdate, Tick, ReplyIgnored, Receive, Lost, vars, queryVars,
        clientVars, lifeVars
<1> QED BY <1>4, <1>5, <1>6, <1>7, <1>8, <1>9, <1>10, <1>11, <1>12, RequestAlive
        DEF Next, Handler, MainLoop, Network, Timers

-----------------------------------------------------------------------------
(* The life of a client.                                                   *)

\* What the deferred deletion keeps.
Life == EventsAlive /\ OpenExist /\ GivenUpClosed /\ AcceptedFresh

(* A step that opens no client and touches no deletion list.               *)
LEMMA LifeKept ==
    ASSUME IInv, UNCHANGED <<clients, newC, oldC, pc, cur>>, inflight' \subseteq inflight,
           open' \subseteq open
    PROVE  Life'
BY DEF IInv, Life, EventsAlive, OpenExist, GivenUpClosed, AcceptedFresh

LEMMA LifeStep ==
    ASSUME IInv, [Next]_vars
    PROVE  Life'
<1>1. /\ inflight \subseteq clients /\ (pc # "loop" => cur \in clients) /\ open \subseteq clients
      /\ (newC \cup oldC) \cap open = {}
      /\ (pc = "accept" => cur \notin inflight \cup newC \cup oldC)
    BY DEF IInv, EventsAlive, OpenExist, GivenUpClosed, AcceptedFresh
<1>2. ASSUME NEW c \in Client, Accept(c)
      PROVE  Life'
    <2>1. c \notin clients \cup newC \cup oldC
        BY <1>2 DEF Accept, FreshClient
    <2>2. /\ clients' = clients \cup {c} /\ open' = open \cup {c} /\ cur' = c
          /\ UNCHANGED <<inflight, newC, oldC>>
        BY <1>2 DEF Accept
    <2> QED BY <1>1, <2>1, <2>2 DEF Life, EventsAlive, OpenExist, GivenUpClosed, AcceptedFresh
<1>3. CASE EpollWait
    <2>1. /\ pc = "loop" /\ pc' = pc /\ inflight' \subseteq open /\ clients' = clients \ oldC
          /\ open' = open /\ oldC' = newC /\ newC' = {}
        BY <1>3 DEF EpollWait, Delete
    <2> QED BY <1>1, <2>1 DEF Life, EventsAlive, OpenExist, GivenUpClosed, AcceptedFresh
<1>4. ASSUME NEW c \in Client, Event(c)
      PROVE  Life'
    BY <1>1, <1>4 DEF Event, clientVars, Life, EventsAlive, OpenExist, GivenUpClosed, AcceptedFresh
<1>5. CASE HandlerEnd
    <2>1. pc' = "loop" /\ UNCHANGED <<inflight, oldC>>
        BY <1>5 DEF HandlerEnd
    <2>2. CASE cur \in open
        <3>1. UNCHANGED <<open, clients, newC>>
            BY <1>5, <2>2 DEF HandlerEnd, clientVars
        <3> QED BY <1>1, <2>1, <3>1 DEF Life, EventsAlive, OpenExist, GivenUpClosed, AcceptedFresh
    <2>3. CASE cur \notin open /\ pc = "accept"
        <3>1. open' = open \ {cur} /\ clients' = clients \ {cur} /\ newC' = newC
            BY <1>5, <2>3 DEF HandlerEnd, Disconnect, Delete
        <3> QED BY <1>1, <2>1, <2>3, <3>1
                DEF Life, EventsAlive, OpenExist, GivenUpClosed, AcceptedFresh
    <2>4. CASE cur \notin open /\ pc # "accept"
        <3>1. open' = open \ {cur} /\ newC' = newC \cup {cur} /\ clients' = clients
            BY <1>5, <2>4 DEF HandlerEnd, Disconnect, GiveUp
        <3> QED BY <1>1, <2>1, <2>4, <3>1
                DEF Life, EventsAlive, OpenExist, GivenUpClosed, AcceptedFresh
    <2> QED BY <2>2, <2>3, <2>4
<1>6. ASSUME NEW X \in SUBSET Client, CheckTimeout(X)
      PROVE  Life'
    <2>1. /\ pc = "loop" /\ open' = open \ (X \cup Closed) /\ newC' = newC \cup Closed
          /\ UNCHANGED <<clients, inflight, oldC, pc, cur>>
        BY <1>6 DEF CheckTimeout, Disconnect, GiveUp
    <2> QED BY <1>1, <2>1 DEF Closed, Life, EventsAlive, OpenExist, GivenUpClosed, AcceptedFresh
<1>7. CASE Request
    BY <1>7, LifeKept DEF Request, NoDns, GetJoin, GetCached, GetOverloaded, GetNew, Ask, Reading,
        lifeVars
<1>8. CASE Leave \/ \E c \in Client : EndedByHttp(c)
    BY <1>8, LifeKept DEF Leave, EndedByHttp, Disconnect, lifeVars
<1>9. ASSUME NEW id \in Id, NEW answer \in {"right", "bad"}, NEW kept, Reply(id, answer, kept)
      PROVE  Life'
    <2>1. open' \subseteq open
        BY <1>9 DEF Reply
    <2> QED BY <1>9, <2>1, LifeKept DEF Reply, Receive, lifeVars
<1>10. CASE CheckQueries
    <2>1. open' \subseteq open
        BY <1>10, CheckQueriesFacts
    <2> QED BY <1>10, <2>1, LifeKept DEF CheckQueries, lifeVars
<1>11. CASE \/ Tick \/ (\E h \in Host : Outdate(h)) \/ (\E id \in Id : ReplyIgnored(id) \/ Lost(id))
            \/ UNCHANGED vars
    BY <1>11, LifeKept DEF Tick, Outdate, ReplyIgnored, Receive, Lost, vars, clientVars, lifeVars
<1> QED BY <1>2, <1>3, <1>4, <1>5, <1>6, <1>7, <1>8, <1>9, <1>10, <1>11
        DEF Next, Handler, MainLoop, Network, Timers

-----------------------------------------------------------------------------
(* Together.                                                               *)

LEMMA InitIInv == Init => IInv
<1> HAVE Init
<1>1. None \notin Host \cup Id /\ Past \in Past..RetryDelay /\ 0 \in 0..2 /\ 0 \in 0..MaxCopies
    BY ResolverAssumption DEF Past
<1>2. /\ queryHost \in [Id -> Host \cup {None}] /\ waiters \in [Id -> SUBSET Client]
      /\ byHost \in [Host -> Id \cup {None}] /\ byDue \in [Due -> SUBSET Id]
    BY DEF Init
<1>3. retryTime \in [Id -> 0..2] /\ nextRetry \in [Id -> Past..RetryDelay]
    BY <1>1 DEF Init
<1>4. QueryTypes
    BY <1>2, <1>3 DEF QueryTypes
<1>5. sent \in [Id -> 0..MaxCopies]
    BY <1>1 DEF Init
<1>6. inProgress \in -MaxSurplus..(Limit + 1)
    BY ResolverAssumption DEF Init
<1>7. cache \in [Host -> {"right", "bad", None}]
    BY DEF Init
<1>8. ClientTypes
    BY DEF Init, ClientTypes
<1>9. TypeOK
    BY <1>4, <1>5, <1>6, <1>7, <1>8, TypeParts DEF NetTypes
<1>10. QueriesIndexed
    BY <1>1 DEF Init, QueriesIndexed
<1>11. WaitersAlive /\ DueIsQuery /\ KnownNotAsked
    BY DEF Init, WaitersAlive, DueIsQuery, KnownNotAsked
<1>12. EventsAlive /\ OpenExist /\ GivenUpClosed /\ AcceptedFresh
    BY DEF Init, EventsAlive, OpenExist, GivenUpClosed, AcceptedFresh
<1> QED BY <1>9, <1>10, <1>11, <1>12 DEF IInv

(* The invariant of every run of the resolver and of its clients.          *)
THEOREM Invariance == Spec => []IInv
<1>1. IInv /\ [Next]_vars => IInv'
    BY TypeStep, QueriesIndexedStep, WaitersAliveStep, DueIsQueryStep, KnownNotAskedStep, LifeStep
       DEF IInv, Life
<1> QED BY <1>1, InitIInv, PTL DEF Spec

(* A query is sent three times at most, and each variable has its type.    *)
THEOREM TypeCorrect == Spec => []TypeOK
<1>1. IInv => TypeOK
    BY DEF IInv
<1> QED BY <1>1, Invariance, PTL

(* No query keeps a pointer to a client that is closed, deleted or waits   *)
(* for another host: what Reply and checkQueries visit is alive.           *)
THEOREM WaitersCorrect == Spec => []WaitersAlive
<1>1. IInv => WaitersAlive
    BY DEF IInv
<1> QED BY <1>1, Invariance, PTL

(* There is one query per host, found from the host and from its id.       *)
THEOREM QueriesCorrect == Spec => []QueriesIndexed
<1>1. IInv => QueriesIndexed
    BY DEF IInv
<1> QED BY <1>1, Invariance, PTL

(* What checkQueries finds due is a query: at() does not throw.            *)
THEOREM DueCorrect == Spec => []DueIsQuery
<1>1. IInv => DueIsQuery
    BY DEF IInv
<1> QED BY <1>1, Invariance, PTL

(* No query runs for a host whose answer is in the cache.                  *)
THEOREM KnownCorrect == Spec => []KnownNotAsked
<1>1. IInv => KnownNotAsked
    BY DEF IInv
<1> QED BY <1>1, Invariance, PTL

(* The loop of main() never handles an event of a deleted client.          *)
THEOREM EventsCorrect == Spec => []EventsAlive
<1>1. IInv => EventsAlive
    BY DEF IInv
<1> QED BY <1>1, Invariance, PTL
=============================================================================
