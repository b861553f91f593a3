------------------------------ MODULE Delivery ------------------------------
(***************************************************************************)
(* The answer of one download on its way from the origin through the .tmp  *)
(* file to the clients, and the cache file it becomes: Http::readyToRead,  *)
(* Http::write, disconnectFrontend, disconnectBackend, and the output side *)
(* of Client.  Every client of the download is in clientsList, a vector    *)
(* the loops of Http go through while the calls they make erase from it.   *)
(*                                                                         *)
(* What is written is counted in blocks: the header kept in the cache, the *)
(* blocks of the body (their number is the Content-Length) and what must   *)
(* not be there.  A handler is the sequence of the steps it still has to   *)
(* do (todo); a loop visits one client per action.                         *)
(*                                                                         *)
(* The connection is what BackendPool does with it, seen from one          *)
(* download.                                                               *)
(*                                                                         *)
(* The descriptor of a client is the one accept() returned, which nothing  *)
(* makes non-blocking (Server.cpp:212-236): a write is complete, or fails, *)
(* or the process waits in it.  EAGAIN does not occur, and dataToWrite is  *)
(* always empty.                                                           *)
(***************************************************************************)
EXTENDS Integers, Sequences, FiniteSets

CONSTANTS
    Client,   \* the addresses of Client objects
    Blocks    \* Content-Length

ASSUME DeliveryAssumption == Blocks \in Nat \ {0}

VARIABLES
    client,       \* the fields of each Client that its output depends on
    clientsList,  \* Http::clientsList
    stale,        \* the memory of the vector behind its end, during a loop
    visited,      \* how many elements the running loop has visited
    todo,         \* the steps the running handler still has to do
    phase,        \* "none", "request", "header": the status is 200, "body":
                  \* tempCache is open, "discard"
    file,         \* the content of the .tmp file
    written,      \* contentwritten
    conn,         \* "none", "pending", "held", "dead": closed, not replaced
    answered,     \* wasTCPConnected of the connection
    flowing,      \* its socket is open
    next,         \* what it sends next: 0 is the header, then the blocks
    final,        \* the content of the cache file, empty when there is none
    crashed       \* "no", or the assertion that ended the process

listVars == <<clientsList, stale, visited>>
connVars == <<conn, answered, flowing, next>>
httpVars == <<phase, file, written>>
vars == <<client, listVars, todo, httpVars, connVars, final, crashed>>

\* What may be found in an output besides the blocks 1..Blocks.
Header == 0        \* the header of the answer
Raw == -1        \* the answer of a second request, status line and all
Failure == -2    \* a page with status 500
EndMark == -3    \* FCGI_END_REQUEST

\* fd, http, whether it follows the .tmp file, how far it has read it, and
\* what was sent to it: outputWrited when there is something.
Absent == [open |-> FALSE, linked |-> FALSE, reading |-> FALSE, pos |-> 0, got |-> <<>>]

Init ==
    /\ client = [c \in Client |-> Absent]
    /\ clientsList = <<>> /\ stale = <<>> /\ visited = 0 /\ todo = <<>>
    /\ phase = "none" /\ file = <<>> /\ written = 0
    /\ conn = "none" /\ answered = FALSE /\ flowing = FALSE /\ next = 0
    /\ final = <<>> /\ crashed = "no"

-----------------------------------------------------------------------------
(* The output of a client.  r is the client before, the value is the set   *)
(* of what it may be after.  What is written to a closed client goes       *)
(* nowhere, so nothing changes it.                                         *)

\* Client::disconnect.  What the client would still read goes nowhere.
Disconnected(r) == [r EXCEPT !.open = FALSE, !.linked = FALSE, !.reading = FALSE, !.pos = 0]

\* Client::writeOutput and Client::write, to an open client.
Output(r, x) == {[r EXCEPT !.got = Append(@, x)], Disconnected(r)}

\* continueRead of the .tmp file: all that is in it is sent, or the next
\* block fails.
ContinueRead(r) ==
    LET rest == SubSeq(file, r.pos + 1, Len(file))
        sent(j) == [r EXCEPT !.got = @ \o SubSeq(rest, 1, j)] IN
    IF ~r.reading THEN {r}
    ELSE {[sent(Len(rest)) EXCEPT !.pos = Len(file)]}
         \cup {Disconnected(sent(j)) : j \in 0..(Len(rest) - 1)}

\* FCGI_END_REQUEST is written, and the client closed whether it fails or not.
Finish(r) == {Disconnected(s) : s \in Output(r, EndMark)}

\* Mutant: the rest of the file is not read.
EndAnyway(r) == IF r.open /\ r.got # <<>> THEN Finish(r) ELSE {Disconnected(r)}

\* writeEnd and disconnect, which all callers of writeEnd do.
End(r) ==
    IF r.open /\ r.got # <<>> THEN UNION {IF s.open THEN Finish(s) ELSE {s} : s \in ContinueRead(r)}
    ELSE {Disconnected(r)}

\* httpError, cacheError
HttpError(r) == UNION {End(s) : s \in Output(r, Failure)}

\* startRead of the .tmp file, which may be impossible to open.
StartRead(r) == HttpError(r) \cup ContinueRead([r EXCEPT !.reading = TRUE, !.pos = 0])

\* startRead of the cache file: its end ends the client.
ReadFinal(r) ==
    HttpError(r) \cup Finish([r EXCEPT !.got = @ \o final])
    \cup {Disconnected([r EXCEPT !.got = @ \o SubSeq(final, 1, j)]) : j \in 0..(Len(final) - 1)}

-----------------------------------------------------------------------------
Loops == {"start", "wake", "end", "error", "cached"}

\* What a loop does to the client it visits.
Effect(loop, r) ==
    CASE ~r.open -> {r}
      [] r.open /\ loop = "start" -> StartRead(r)
      [] r.open /\ loop = "wake" -> ContinueRead(r)
      [] r.open /\ loop = "end" -> End(r)
      [] r.open /\ loop = "error" -> HttpError(r)
      [] r.open /\ loop = "cached" -> ReadFinal(r)

Occurs(c) == {i \in 1..Len(clientsList) : clientsList[i] = c}

\* Mutant: the object stays in the list.
RemoveNothing(c) == UNCHANGED <<clientsList, stale>>

\* Mutant: the loops go by index and size.
RemoveByIndex(c) ==
    /\ clientsList' = [i \in 1..(Len(clientsList) - Cardinality(Occurs(c))) |->
                         IF \E k \in Occurs(c) : k <= i THEN clientsList[i + 1] ELSE clientsList[i]]
    /\ UNCHANGED stale

\* Http::removeClient.  What follows moves down by one, the last element is
\* left behind the end of the vector, where only a running loop finds it.
RemoveClient(c) ==
    IF Occurs(c) = {} THEN UNCHANGED <<clientsList, stale>>
    ELSE LET k == CHOOSE i \in Occurs(c) : TRUE
             n == Len(clientsList) IN
         /\ clientsList' = [i \in 1..(n - 1) |-> IF i < k THEN clientsList[i] ELSE clientsList[i + 1]]
         /\ stale' = IF todo = <<>> THEN <<>> ELSE <<clientsList[n]>> \o stale

\* The client becomes r; disconnectFromHttp asks only a client with http set.
Become(c, r) ==
    /\ client' = [client EXCEPT ![c] = r]
    /\ IF client[c].linked /\ ~r.linked THEN RemoveClient(c) ELSE UNCHANGED <<clientsList, stale>>

Abort(site) == crashed' = site

Idle == crashed = "no" /\ todo = <<>>

Doing(step) == crashed = "no" /\ todo # <<>> /\ todo[1] = step

\* What the iterators of a loop, taken at its start, go through.
Memory == clientsList \o stale

\* The next turn of "for(Client * client : clientsList)".
Visit ==
    /\ \E loop \in Loops :
        /\ Doing(loop)
        /\ IF visited < Len(Memory)
           THEN /\ \E r \in Effect(loop, client[Memory[visited + 1]]) : Become(Memory[visited + 1], r)
                /\ visited' = visited + 1
                /\ UNCHANGED todo
           ELSE /\ todo' = Tail(todo) /\ visited' = 0 /\ stale' = <<>>
                /\ UNCHANGED <<client, clientsList>>
    /\ UNCHANGED <<httpVars, connVars, final, crashed>>

\* clientsList.clear()
Clear ==
    /\ Doing("clear")
    /\ clientsList' = <<>> /\ todo' = Tail(todo)
    /\ UNCHANGED <<client, stale, visited, httpVars, connVars, final, crashed>>

\* disconnectFrontend: no client has this download any more.
AssertNoClient ==
    /\ Doing("assert")
    /\ IF \E c \in Client : client[c].linked
       THEN Abort("disconnectFrontend") /\ UNCHANGED todo
       ELSE todo' = Tail(todo) /\ UNCHANGED crashed
    /\ UNCHANGED <<client, listVars, httpVars, connVars, final>>

DisconnectFrontend == <<"end", "clear", "assert">>

\* backendError, disconnectFrontend, disconnectBackend
BackendError == <<"error", "clear", "temp">> \o DisconnectFrontend \o <<"backend">>

\* backendError asserts that cachePath+".tmp" is in pathToHttp.
AssertTemp ==
    /\ Doing("temp")
    /\ IF phase = "body" THEN Abort("temp") /\ UNCHANGED todo
                         ELSE todo' = Tail(todo) /\ UNCHANGED crashed
    /\ UNCHANGED <<client, listVars, httpVars, connVars, final>>

\* Mutant: < for <=.
CompleteLate == written + 1 > Blocks

\* contentsize<=contentwritten
Complete == written + 1 >= Blocks

\* The rest of Http::write.
Count ==
    /\ Doing("count")
    /\ written' = written + 1
    /\ todo' = IF Complete THEN DisconnectFrontend \o <<"backend">> ELSE <<>>
    /\ UNCHANGED <<client, listVars, phase, file, connVars, final, crashed>>

\* disconnectBackend: the old cache file is unlinked, the .tmp file renamed;
\* it may be too big, or the rename fails.  A connection that did not answer
\* takes downloadFinished to backendError.
DisconnectBackend ==
    /\ Doing("backend")
    /\ final' \in IF phase = "body" THEN {file, <<>>} ELSE {final}
    /\ IF phase = "body" /\ conn = "held" /\ ~answered THEN Abort("temp") /\ UNCHANGED <<todo, httpVars, connVars>>
       ELSE IF \E c \in Client : client[c].linked
            THEN Abort("disconnectBackend") /\ UNCHANGED <<todo, httpVars, connVars>>
       ELSE /\ phase' = "none" /\ file' = <<>> /\ written' = 0
            /\ conn' = "none" /\ answered' = FALSE /\ flowing' = FALSE /\ next' = 0
            /\ todo' = Tail(todo) /\ UNCHANGED crashed
    /\ UNCHANGED <<client, listVars>>

-----------------------------------------------------------------------------
(* A request for the path: Client::dnsRight.                               *)

Fresh(c) == Idle /\ client[c] = Absent

Opened == [Absent EXCEPT !.open = TRUE]

\* addClient, which starts to read when the .tmp file is open.
Join(c) ==
    LET r == [Opened EXCEPT !.linked = TRUE] IN
    /\ Fresh(c) /\ phase # "none"
    /\ \E s \in IF phase = "body" THEN StartRead(r) ELSE {r} :
        /\ client' = [client EXCEPT ![c] = s]
        /\ clientsList' = IF s.linked THEN Append(clientsList, c) ELSE clientsList
    /\ UNCHANGED <<stale, visited, todo, httpVars, connVars, final, crashed>>

\* The file is in the cache and young enough.
ReadCached(c) ==
    /\ Fresh(c) /\ phase = "none" /\ final # <<>>
    /\ \E s \in ReadFinal(Opened) : client' = [client EXCEPT ![c] = s]
    /\ UNCHANGED <<listVars, todo, httpVars, connVars, final, crashed>>

\* It is not: a download begins, with an idle connection, a new one or none.
Start(c) ==
    /\ Fresh(c) /\ phase = "none"
    /\ client' = [client EXCEPT ![c] = [Opened EXCEPT !.linked = TRUE]]
    /\ clientsList' = <<c>>
    /\ phase' = "request"
    /\ conn' \in {"pending", "held"} /\ flowing' = (conn' = "held")
    /\ answered' \in IF conn' = "held" THEN BOOLEAN ELSE {FALSE}
    /\ UNCHANGED <<stale, visited, todo, file, written, next, final, crashed>>

-----------------------------------------------------------------------------
(* The events of a client.                                                 *)

\* The peer closes, or breaks the protocol.
Gone(c) ==
    /\ Idle /\ client[c].open
    /\ Become(c, Disconnected(client[c]))
    /\ UNCHANGED <<visited, todo, httpVars, connVars, final, crashed>>

\* Client::readyToWrite: dataToWrite is empty, so it reads on.
ReadyToWrite(c) ==
    /\ Idle /\ client[c].open
    /\ \E s \in ContinueRead(client[c]) : Become(c, s)
    /\ UNCHANGED <<visited, todo, httpVars, connVars, final, crashed>>

\* main() deletes a closed client.
Delete(c) ==
    /\ Idle /\ ~client[c].open /\ client[c] # Absent
    /\ client' = [client EXCEPT ![c] = Absent]
    /\ UNCHANGED <<listVars, todo, httpVars, connVars, final, crashed>>

-----------------------------------------------------------------------------
(* The events of the connection.                                           *)

Receiving == Idle /\ conn = "held" /\ flowing

\* The status line says 200.
StatusOk ==
    /\ Receiving /\ phase = "request"
    /\ phase' = "header" /\ answered' = TRUE
    /\ UNCHANGED <<client, listVars, todo, file, written, conn, flowing, next, final, crashed>>

HeaderRead ==
    /\ Receiving /\ phase = "header"
    /\ next' = 1
    /\ UNCHANGED <<client, listVars, written, conn, answered, flowing, final, crashed>>

\* The .tmp file is opened and every client reads it.
HeaderEnd ==
    /\ HeaderRead
    /\ phase' = "body" /\ file' = <<Header>>
    /\ todo' = <<"start">>

\* The .tmp file cannot be created,
NoTempFile ==
    /\ HeaderRead
    /\ phase' = "discard"
    /\ todo' \in {DisconnectFrontend, <<"error">> \o DisconnectFrontend}
    /\ UNCHANGED file

\* or not be written to.
HeaderFails ==
    /\ HeaderRead
    /\ todo' = DisconnectFrontend \o <<"backend">>
    /\ UNCHANGED <<phase, file>>

\* Any other status, and flushRead: on a 304 the clients read the old file.
StatusOther ==
    /\ Receiving /\ phase = "request"
    /\ answered' = TRUE
    /\ \/ todo' = <<"error", "clear", "backend">> \o DisconnectFrontend
       \/ final # <<>> /\ todo' = <<"cached", "backend">> \o DisconnectFrontend
    /\ UNCHANGED <<client, listVars, httpVars, conn, flowing, next, final, crashed>>

\* A status line that is cut, or none: flushRead at once.  A connection that
\* did not answer before takes downloadFinished to backendError.
StatusCut ==
    /\ Receiving /\ phase = "request"
    /\ todo' = (IF answered THEN <<>> ELSE <<"error", "clear">>) \o <<"backend">> \o DisconnectFrontend
    /\ UNCHANGED <<client, listVars, httpVars, connVars, final, crashed>>

\* A second answer is not parsed: parsing is still Parsing_Content.
Data ==
    LET x == IF next = 0 THEN Raw ELSE next IN
    /\ Receiving /\ phase = "body" /\ next <= Blocks
    /\ next' = next + 1
    /\ file' = Append(file, x)
    /\ todo' = <<"wake", "count">>
    /\ UNCHANGED <<client, listVars, phase, written, conn, answered, flowing, final, crashed>>

\* A connection that becomes free is given to the first that waits.
Served ==
    /\ Idle /\ conn = "pending"
    /\ conn' = "held" /\ answered' = TRUE /\ flowing' = TRUE /\ next' = 0
    /\ UNCHANGED <<client, listVars, todo, httpVars, final, crashed>>

\* remoteSocketClosed of a connection without answer: the download is left
\* without one,
ClosedUnanswered ==
    /\ Idle /\ conn = "held" /\ ~answered
    /\ conn' = "none" /\ flowing' = FALSE
    /\ UNCHANGED <<client, listVars, todo, httpVars, answered, next, final, crashed>>

\* else it moves to an idle or a new one and is asked for again,
ClosedAnswered ==
    /\ Idle /\ conn = "held" /\ answered
    /\ answered' \in BOOLEAN /\ flowing' = TRUE /\ next' = 0
    /\ UNCHANGED <<client, listVars, todo, httpVars, conn, final, crashed>>

\* or keeps the closed one, until that is deleted.
NotReplaced ==
    /\ Idle /\ conn = "held" /\ answered
    /\ conn' = "dead" /\ flowing' = FALSE
    /\ UNCHANGED <<client, listVars, todo, httpVars, answered, next, final, crashed>>

BackendDeleted ==
    /\ Idle /\ conn = "dead"
    /\ conn' = "none"
    /\ UNCHANGED <<client, listVars, todo, httpVars, answered, flowing, next, final, crashed>>

\* Backend::detectTimeout, or the connections of the address are refused.
Fails ==
    /\ Idle /\ conn \in {"held", "pending"}
    /\ todo' = BackendError
    /\ UNCHANGED <<client, listVars, httpVars, connVars, final, crashed>>

\* Http::detectTimeout: parseNonHttpError leaves the list as it is.
HttpTimeout ==
    /\ Idle /\ phase # "none"
    /\ todo' = <<"error">> \o DisconnectFrontend
               \o (IF conn \in {"held", "dead"} THEN <<>> ELSE <<"backend">>)
    /\ flowing' = FALSE
    /\ UNCHANGED <<client, listVars, httpVars, conn, answered, next, final, crashed>>

\* Http::checkBackend aborts when a download that is not too old yet has no
\* connection and does not wait for one as it should.
HttpCheck ==
    /\ Idle /\ phase # "none" /\ conn \in {"none", "pending"}
    /\ Abort("checkBackend")
    /\ UNCHANGED <<client, listVars, todo, httpVars, connVars, final>>

\* The service is restarted; the cache file is still there.
Restart ==
    /\ crashed # "no"
    /\ client' = [c \in Client |-> Absent]
    /\ clientsList' = <<>> /\ stale' = <<>> /\ visited' = 0 /\ todo' = <<>>
    /\ phase' = "none" /\ file' = <<>> /\ written' = 0
    /\ conn' = "none" /\ answered' = FALSE /\ flowing' = FALSE /\ next' = 0
    /\ crashed' = "no" /\ UNCHANGED final

-----------------------------------------------------------------------------
Request == \E c \in Client : Join(c) \/ ReadCached(c) \/ Start(c)

ClientEvent == \E c \in Client : Gone(c) \/ ReadyToWrite(c) \/ Delete(c)

Answer == StatusOk \/ HeaderEnd \/ NoTempFile \/ HeaderFails \/ StatusOther \/ StatusCut \/ Data

Connection ==
    Served \/ ClosedUnanswered \/ ClosedAnswered \/ NotReplaced \/ BackendDeleted

Handler == Visit \/ Clear \/ AssertNoClient \/ AssertTemp \/ Count \/ DisconnectBackend

Next == Request \/ ClientEvent \/ Answer \/ Connection \/ Fails \/ HttpTimeout \/ HttpCheck \/ Handler \/ Restart

Spec == Init /\ [][Next]_vars

-----------------------------------------------------------------------------
Block == EndMark..Blocks

(* The values each variable takes.                                         *)
TypeOK ==
    /\ client \in [Client -> [open : BOOLEAN, linked : BOOLEAN, reading : BOOLEAN,
                              pos : Nat, got : Seq(Block)]]
    /\ clientsList \in Seq(Client) /\ stale \in Seq(Client) /\ visited \in Nat
    /\ todo \in Seq(Loops \cup {"clear", "assert", "temp", "count", "backend"})
    /\ phase \in {"none", "request", "header", "body", "discard"}
    /\ file \in Seq(Block) /\ final \in Seq(Block)
    /\ written \in 0..Blocks
    /\ conn \in {"none", "pending", "held", "dead"}
    /\ answered \in BOOLEAN /\ flowing \in BOOLEAN /\ next \in 0..(Blocks + 1)
    /\ crashed \in {"no", "temp", "disconnectFrontend", "disconnectBackend", "checkBackend"}

(* Between handlers Client::http and clientsList agree: each client of the *)
(* download is in the list once, it is open, and nobody else is.  When     *)
(* there is no download there is no client of it.                          *)
ListAgrees ==
    Idle => /\ \A c \in Client : client[c].linked <=> Occurs(c) # {}
            /\ \A c \in Client : client[c].linked => client[c].open /\ phase # "none"
            /\ \A i, j \in 1..Len(clientsList) : clientsList[i] = clientsList[j] => i = j

\* The clients of the download that a loop has not done its work for.
Reached(loop, r) ==
    CASE loop = "start" -> r.reading
      [] loop = "wake" -> r.reading => r.pos = Len(file)
      [] OTHER -> FALSE

Missed(loop) == {c \in Client : Occurs(c) # {} /\ ~Reached(loop, client[c])}

(* A loop of Http over clientsList goes on although the client it stands   *)
(* on is erased from the vector, and then passes over another one          *)
(* (Http.cpp:811, 1016, 1134, 1154, 1758, 2038).  But not over many: when  *)
(* it has run, the clients it has not started, woken, told or ended are at *)
(* most as many as those it lost on the way, and fewer than half of those  *)
(* it began with; of two clients none.                                     *)
LoopsMissFew ==
    \A loop \in Loops :
        Doing(loop) /\ visited = Len(Memory) /\ Missed(loop) # {}
            => /\ Cardinality(Missed(loop)) <= Len(stale)
               /\ 2 * Cardinality(Missed(loop)) < Len(Memory)

Ends(s, t) == Len(t) > Len(s) /\ t[Len(t)] = EndMark

Holds(s, x) == \E i \in 1..Len(s) : s[i] = x

Headers(k) == [i \in 1..k |-> Header]

(* A client that is not told of a failure is told the end of its request   *)
(* only with a whole file: all there is of the .tmp file, each block once  *)
(* and in order, whichever loops passed over the client before, and when   *)
(* the last byte has come or the timer has closed the connection; or all   *)
(* of the cache file.  Only the header may come more than once: when a     *)
(* client is lost, the loop that starts the others visits one twice.       *)
EndIsWhole ==
    [][\A c \in Client :
        Ends(client[c].got, client'[c].got) /\ ~Holds(client'[c].got, Failure)
            => \/ /\ phase = "body" /\ (written >= Blocks \/ ~flowing)
                  /\ \E k \in 0..Len(client'[c].got) :
                        client'[c].got = Headers(k) \o file \o <<EndMark>>
               \/ client'[c].got = Append(final, EndMark)]_vars

-----------------------------------------------------------------------------
(* What comments and assertions of the program say, and the program does   *)
(* not do.                                                                 *)

(* Http.cpp:1025-1032 asserts that disconnectFrontend leaves no client.    *)
NoClientRemains == crashed # "disconnectFrontend"

(* Http.cpp:1758-1759 wakes all clients that follow the .tmp file.         *)
NobodyLags == Idle => \A c \in Client : client[c].reading => client[c].pos = Len(file)

(* Cache.cpp:22-31, the format of a cache file: the header, then the body; *)
(* Http.cpp:1950-1951: "open to write .tmp (mv at end)".                   *)
CacheIsWhole == final # <<>> => final = [i \in 1..(Blocks + 1) |-> i - 1]
=============================================================================
