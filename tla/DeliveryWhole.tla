--------------------------- MODULE DeliveryWhole ---------------------------
(***************************************************************************)
(* What the loops over clientsList do to the clients of a download, for    *)
(* every number of clients and every length of the body: whom they pass    *)
(* over (LoopsMissFew), and that a client is told the end with the whole   *)
(* file all the same (EndIsWhole): writeEnd reads on from where the client *)
(* is before it tells the end, so what a loop forgot is made up for.       *)
(***************************************************************************)
EXTENDS DeliveryProofs, FiniteSetTheorems

\* A client that reads has the front of the file, behind headers that were
\* sent before; one that does not read has nothing yet.
HasFront(r) == \E k \in Nat : r.got = Headers(k) \o SubSeq(file, 1, r.pos)

Follows(r) ==
    /\ r.open => r.linked
    /\ r.reading => r.open /\ phase = "body" /\ r.pos <= Len(file) /\ HasFront(r)
    /\ r.open /\ ~r.reading => r.got = <<>>

AllFollow == \A c \in Client : Follows(client[c])

\* The file is read from the start when it holds the header only, the cache
\* file when nobody reads.  The clients of a file are ended when it is whole
\* or the timer has closed the connection; backendError aborts before.
StepsRight ==
    crashed = "no" =>
        /\ todo # <<>> /\ todo[1] = "start" => phase = "body" /\ file = <<Header>>
        /\ todo # <<>> /\ todo[1] = "cached" => phase # "body"
        /\ \A i \in 1..Len(todo) :
              todo[i] = "end" /\ phase = "body" =>
                  written >= Blocks \/ ~flowing \/ \E j \in 1..(i - 1) : todo[j] = "temp"

WholeInv == IInv /\ AllFollow /\ StepsRight

-----------------------------------------------------------------------------
(* What was sent.                                                          *)

\* Blocks that are sent one after the other.
LEMMA BlocksJoin ==
    ASSUME NEW a \in Content, NEW b \in Content, NEW c \in Seq(Block)
    PROVE  (a \o b) \o c = a \o (b \o c)
<1>1. a \in Seq(Block) /\ b \in Seq(Block)
    BY ContentWaits
<1> QED BY <1>1, ConcatAssociative, Z3

\* Headers are blocks of a file.
LEMMA HeadersContent ==
    ASSUME NEW k \in Nat
    PROVE  /\ Headers(k) \in Content /\ Headers(k) \in Seq(Block) /\ Len(Headers(k)) = k
           /\ \A i \in 1..k : Headers(k)[i] = Header
<1>1. Header \in Raw..Blocks
    BY BlockRanges
<1>2. Headers(k) \in [1..k -> Raw..Blocks] /\ \A i \in 1..k : Headers(k)[i] = Header
    BY <1>1 DEF Headers
<1>3. Headers(k) \in Seq(Raw..Blocks) /\ Len(Headers(k)) = k
    BY <1>1 DEF Headers
<1> QED BY <1>2, <1>3, ContentWaits DEF Content

(* Headers and the whole file, at the start of it, are headers again.      *)
LEMMA HeadersAgain ==
    ASSUME NEW k \in Nat, NEW p \in Nat, p <= 1
    PROVE  \E m \in Nat : Headers(k) \o SubSeq(<<Header>>, 1, p) = Headers(m)
<1> DEFINE h == <<Header>>
           f == SubSeq(h, 1, p)
           m == k + p
<1>1. h \in Content /\ Len(h) = 1 /\ h[1] = Header
    BY BlockRanges DEF Content
<1> HIDE DEF h
<1>2. f \in Content /\ Len(f) = p /\ \A i \in 1..p : f[i] = h[i]
    <2>1. p \in 0..Len(h)
        BY <1>1
    <2> QED BY <1>1, <2>1, FrontOf
<1>3. \A i \in 1..p : f[i] = Header
    BY <1>1, <1>2
<1> HIDE DEF f
<1> DEFINE g == Headers(k)
           u == g \o f
           w == Headers(m)
<1>4. /\ m \in Nat /\ g \in Content /\ w \in Content /\ Len(g) = k /\ Len(w) = m
      /\ \A i \in 1..k : g[i] = Header
      /\ \A i \in 1..m : w[i] = Header
    <2>1. m \in Nat
        OBVIOUS
    <2> QED BY <2>1, HeadersContent
<1> HIDE DEF g, w
<1>5. u \in Content /\ Len(u) = m /\ \A i \in 1..m : u[i] = IF i <= k THEN g[i] ELSE f[i - k]
    BY <1>2, <1>4, ConcatProperties DEF Content
<1>6. \A i \in 1..m : u[i] = w[i]
    <2> TAKE i \in 1..m
    <2>1. CASE i <= k
        BY <1>4, <1>5, <2>1
    <2>2. CASE ~(i <= k)
        <3>1. i - k \in 1..p
            BY <2>2
        <3> QED BY <1>3, <1>4, <1>5, <2>2, <3>1
    <2> QED BY <2>1, <2>2
<1>7. u = w
    BY <1>4, <1>5, <1>6, SeqEqual DEF Content
<1> QED BY <1>4, <1>7 DEF g, w, u, f, h

(* A client that has the front of the file and then the rest of it has all *)
(* of it.                                                                  *)
LEMMA RestIsAll ==
    ASSUME file \in Content, NEW r \in ClientType, r.pos <= Len(file),
           NEW k \in Nat, r.got = Headers(k) \o SubSeq(file, 1, r.pos)
    PROVE  r.got \o Rest(r) = Headers(k) \o file /\ SubSeq(file, 1, Len(file)) = file
<1> DEFINE f == SubSeq(file, 1, r.pos)
           h == Headers(k)
           t == Rest(r)
<1>1. r.pos \in 0..Len(file) /\ Len(file) \in Nat
    BY ClientFields, RestOf
<1>2. f \in Content /\ h \in Content /\ t \in Content /\ t \in Seq(Block)
    BY <1>1, FrontOf, HeadersContent, RestOf, ContentWaits
<1>3. f \o t = file /\ SubSeq(file, 1, Len(file)) = file
    <2>1. 1 \in 1..(Len(file) + 1) /\ r.pos \in (1 - 1)..Len(file) /\ Len(file) \in r.pos..Len(file)
        BY <1>1
    <2>2. SubSeq(file, 1, r.pos) \o SubSeq(file, r.pos + 1, Len(file)) = SubSeq(file, 1, Len(file))
        BY <2>1, ConcatAdjacentSubSeq DEF Content
    <2>3. SubSeq(file, 1, Len(file)) = file
        BY SubSeqFull DEF Content
    <2> QED BY <2>2, <2>3 DEF Rest
<1> HIDE DEF f, h, t
<1>4. (h \o f) \o t = h \o (f \o t)
    BY <1>2, BlocksJoin, Zenon
<1> QED BY <1>3, <1>4 DEF f, h, t

\* A closed client has no file to follow.
LEMMA ClosedFollows ==
    ASSUME NEW s, Closed(s)
    PROVE  Follows(s) /\ Follows(s)'
BY DEF Closed, Follows

(* Who reads from the start follows the file.                              *)
LEMMA StartFollows ==
    ASSUME Types, phase = "body", NEW r \in ClientType, r.open, r.linked,
           r.got = <<>> \/ (file = <<Header>> /\ Follows(r) /\ r.reading), NEW s \in StartRead(r)
    PROVE  Follows(s)
<1>1. file \in Content /\ Len(file) \in Nat
    BY DEF Types, Content
<1>2. \/ Closed(s)
      \/ /\ s.open = r.open /\ s.linked = r.linked /\ s.reading
         /\ s.pos = Len(file) /\ s.got = r.got \o file
    BY <1>1, StartReadOf
<1>3. SubSeq(file, 1, Len(file)) = file
    BY <1>1, SubSeqFull DEF Content
<1>4. \E k \in Nat : r.got = Headers(k)
    <2>1. CASE r.got = <<>>
        <3>1. Headers(0) = <<>>
            BY HeadersContent
        <3> QED BY <2>1, <3>1
    <2>2. CASE file = <<Header>> /\ Follows(r) /\ r.reading
        <3>1. PICK k \in Nat : r.got = Headers(k) \o SubSeq(<<Header>>, 1, r.pos)
            BY <2>2 DEF Follows, HasFront
        <3>2. r.pos \in Nat /\ r.pos <= 1
            BY <2>2, ClientFields DEF Follows
        <3> QED BY <3>1, <3>2, HeadersAgain
    <2> QED BY <2>1, <2>2
<1>5. CASE /\ s.open = r.open /\ s.linked = r.linked /\ s.reading
           /\ s.pos = Len(file) /\ s.got = r.got \o file
    <2>1. HasFront(s)
        BY <1>3, <1>4, <1>5 DEF HasFront
    <2> QED BY <1>1, <1>5, <2>1 DEF Follows
<1> QED BY <1>2, <1>5, ClosedFollows

\* Who follows the file and reads on follows it.
LEMMA ReadOnFollows ==
    ASSUME Types, NEW r \in ClientType, Follows(r), NEW s \in ContinueRead(r)
    PROVE  Follows(s)
<1>1. file \in Content /\ Len(file) \in Nat
    BY DEF Types, Content
<1>2. \/ s = r
      \/ r.reading /\ Stays(r, s) /\ s.pos = Len(file) /\ s.got = r.got \o Rest(r)
      \/ Closed(s)
    BY <1>1, ContinueReadOf
<1>3. CASE r.reading /\ Stays(r, s) /\ s.pos = Len(file) /\ s.got = r.got \o Rest(r)
    <2>1. PICK k \in Nat : r.got = Headers(k) \o SubSeq(file, 1, r.pos)
        BY <1>3 DEF Follows, HasFront
    <2>2. s.got = Headers(k) \o SubSeq(file, 1, s.pos)
        BY <1>1, <1>3, <2>1, RestIsAll DEF Follows
    <2>3. HasFront(s)
        BY <2>2 DEF HasFront
    <2> QED BY <1>1, <1>3, <2>3 DEF Follows, Stays
<1> QED BY <1>2, <1>3, ClosedFollows

\* So does the client that a loop visits.
LEMMA EffectFollows ==
    ASSUME Types, StepsRight, NEW loop \in Loops, Doing(loop),
           NEW r \in ClientType, Follows(r), NEW s \in Effect(loop, r)
    PROVE  Follows(s)
<1>1. file \in Content /\ final \in Content
    BY DEF Types
<1>2. CASE ~r.open
    BY <1>2 DEF Effect, Loops
<1>3. CASE r.open /\ loop = "start"
    <2>1. s \in StartRead(r)
        BY <1>3 DEF Effect
    <2>2. phase = "body" /\ file = <<Header>>
        BY <1>3 DEF StepsRight, Doing
    <2>3. r.linked /\ (r.got = <<>> \/ r.reading)
        BY <1>3, ClientFields DEF Follows
    <2>4. r.got = <<>> \/ (file = <<Header>> /\ Follows(r) /\ r.reading)
        BY <2>2, <2>3
    <2> QED BY <1>3, <2>1, <2>2, <2>3, <2>4, StartFollows
<1>4. CASE r.open /\ loop = "wake"
    <2>1. s \in ContinueRead(r)
        BY <1>4 DEF Effect
    <2> QED BY <2>1, ReadOnFollows
<1>5. CASE r.open /\ loop = "end"
    <2>1. s \in End(r)
        BY <1>5 DEF Effect
    <2> QED BY <1>1, <2>1, EndOf, ClosedFollows
<1>6. CASE r.open /\ loop = "error"
    <2>1. s \in HttpError(r)
        BY <1>6 DEF Effect
    <2> QED BY <1>1, <2>1, HttpErrorOf, ClosedFollows
<1>7. CASE r.open /\ loop = "cached"
    <2>1. s \in ReadFinal(r)
        BY <1>7 DEF Effect
    <2> QED BY <1>1, <2>1, ReadFinalOf, ClosedFollows
<1> QED BY <1>2, <1>3, <1>4, <1>5, <1>6, <1>7 DEF Loops

-----------------------------------------------------------------------------
(* Each step keeps what the clients have and what handlers are made of.    *)

(* When a step is done, the rest of the handler is as it should be.        *)
LEMMA RightDone ==
    ASSUME Types, StepsRight, crashed = "no", todo # <<>>, todo' = Tail(todo),
           todo[1] # "temp" \/ phase # "body",
           phase' = "none" \/ UNCHANGED <<phase, written, flowing>>
    PROVE  StepsRight'
<1> DEFINE n == Len(todo)
<1>1. /\ n \in Nat /\ n > 0 /\ Len(todo') = n - 1
      /\ \A i \in 1..(n - 1) : todo'[i] = todo[i + 1] /\ todo'[i] \notin {"start", "wake", "error", "cached"}
    BY TailLeft DEF Types
<1>2. \A i \in 1..n :
        todo[i] = "end" /\ phase = "body" =>
            written >= Blocks \/ ~flowing \/ \E j \in 1..(i - 1) : todo[j] = "temp"
    BY DEF StepsRight
<1> HIDE DEF n
<1>3. ASSUME todo' # <<>>
      PROVE  todo'[1] # "start" /\ todo'[1] # "cached"
    <2>1. 1 \in 1..(n - 1)
        <3>1. todo' \in Seq(Steps)
            BY TailLeft DEF Types, StepsLeft
        <3>2. Len(todo') # 0
            BY <1>3, <3>1
        <3> QED BY <1>1, <3>2
    <2> QED BY <1>1, <2>1
<1>4. ASSUME NEW i \in 1..Len(todo'), todo'[i] = "end", phase' = "body"
      PROVE  written' >= Blocks \/ ~flowing' \/ \E j \in 1..(i - 1) : todo'[j] = "temp"
    <2>1. i \in 1..(n - 1) /\ i + 1 \in 1..n /\ todo[i + 1] = "end" /\ phase = "body"
        BY <1>1, <1>4
    <2>2. written >= Blocks \/ ~flowing \/ \E j \in 1..i : todo[j] = "temp"
        BY <1>2, <2>1
    <2>3. ASSUME NEW j \in 1..i, todo[j] = "temp"
          PROVE  \E h \in 1..(i - 1) : todo'[h] = "temp"
        <3>1. j # 1
            BY <2>1, <2>3
        <3>2. j - 1 \in 1..(i - 1) /\ j - 1 \in 1..(n - 1) /\ (j - 1) + 1 = j
            BY <1>1, <2>1, <3>1
        <3>3. todo'[j - 1] = "temp"
            BY <1>1, <2>3, <3>2
        <3> QED BY <3>2, <3>3
    <2> QED BY <1>4, <2>2, <2>3
<1> QED BY <1>3, <1>4 DEF StepsRight

(* One client changes, and follows the same file.                          *)
LEMMA OneFollows ==
    ASSUME Types, AllFollow, NEW c \in Client, NEW s \in ClientType, Follows(s),
           client' = [client EXCEPT ![c] = s], UNCHANGED <<phase, file>>
    PROVE  AllFollow'
<1>1. client'[c] = s /\ \A d \in Client \ {c} : client'[d] = client[d]
    BY DEF Types
<1> SUFFICES ASSUME NEW d \in Client
             PROVE  Follows(client'[d])
    BY DEF AllFollow, Follows, HasFront
<1> QED BY <1>1 DEF AllFollow

\* Without a .tmp file nobody reads.
LEMMA NobodyReads ==
    ASSUME AllFollow, phase # "body"
    PROVE  \A c \in Client : ~client[c].reading
BY DEF AllFollow, Follows

(* No client changes, and nobody reads or the file stays as it is.         *)
LEMMA SameFollow ==
    ASSUME AllFollow, UNCHANGED client, phase # "body" \/ UNCHANGED <<phase, file>>
    PROVE  AllFollow'
<1>1. CASE phase # "body"
    BY <1>1, NobodyReads DEF AllFollow, Follows
<1>2. CASE UNCHANGED <<phase, file>>
    BY <1>2 DEF AllFollow, Follows, HasFront
<1> QED BY <1>1, <1>2

\* The turn of a loop.
LEMMA VisitWhole ==
    ASSUME WholeInv, Visit
    PROVE  AllFollow' /\ StepsRight'
<1> USE DEF WholeInv
<1>1. PICK loop \in Loops :
        /\ Doing(loop)
        /\ IF visited < Len(Memory)
           THEN /\ \E r \in Effect(loop, client[Memory[visited + 1]]) : Become(Memory[visited + 1], r)
                /\ UNCHANGED todo
           ELSE /\ todo' = Tail(todo)
                /\ UNCHANGED <<client, clientsList>>
    BY DEF Visit
<1>2. UNCHANGED <<phase, file, written, flowing, crashed>>
    BY DEF Visit, httpVars, connVars
<1>3. Types
    BY DEF IInv
<1>4. CASE visited < Len(Memory)
    <2> DEFINE c == Memory[visited + 1]
    <2>1. c \in Client /\ client[c] \in ClientType
        <3>1. Memory \in Seq(Client) /\ visited + 1 \in 1..Len(Memory)
            <4>1. Memory \in Seq(Client) /\ visited \in Nat
                BY <1>3, ConcatProperties DEF Types, Memory
            <4> QED BY <1>4, <4>1
        <3> QED BY <1>3, <3>1, ElementOfSeq DEF Types
    <2>2. (\E r \in Effect(loop, client[c]) : Become(c, r)) /\ UNCHANGED todo
        BY <1>1, <1>4
    <2> HIDE DEF c
    <2>3. PICK s \in Effect(loop, client[c]) : Become(c, s)
        BY <2>2
    <2>4. s \in ClientType /\ Follows(s)
        <3>1. Follows(client[c])
            BY <2>1 DEF AllFollow
        <3>2. s \in ClientType
            BY <1>3, <2>1, EffectKept
        <3> QED BY <1>1, <1>3, <2>1, <3>1, <3>2, EffectFollows
    <2>5. AllFollow'
        BY <1>2, <1>3, <2>1, <2>3, <2>4, OneFollows DEF Become
    <2>6. StepsRight'
        BY <1>2, <2>2 DEF StepsRight
    <2> QED BY <2>5, <2>6
<1>5. CASE ~(visited < Len(Memory))
    <2>1. todo' = Tail(todo) /\ UNCHANGED client
        BY <1>1, <1>5
    <2>2. todo # <<>> /\ crashed = "no" /\ todo[1] # "temp"
        BY <1>1 DEF Doing, Loops
    <2> QED BY <1>2, <1>3, <2>1, <2>2, RightDone, SameFollow
<1> QED BY <1>4, <1>5

\* The other steps of a handler.
LEMMA HandlerWhole ==
    ASSUME WholeInv, Clear \/ AssertNoClient \/ AssertTemp \/ Count \/ DisconnectBackend
    PROVE  AllFollow' /\ StepsRight'
<1> USE DEF WholeInv
<1>1. Types /\ UNCHANGED client
    BY DEF IInv, Clear, AssertNoClient, AssertTemp, Count, DisconnectBackend, listVars
<1>2. CASE Clear
    <2>1. /\ todo' = Tail(todo) /\ todo # <<>> /\ crashed = "no" /\ todo[1] # "temp"
          /\ UNCHANGED <<phase, file, written, flowing>>
        BY <1>2 DEF Clear, Doing, httpVars, connVars
    <2> QED BY <1>1, <2>1, RightDone, SameFollow
<1>3. CASE AssertNoClient
    <2>1. /\ todo # <<>> /\ crashed = "no" /\ todo[1] # "temp"
          /\ crashed' # "no" \/ todo' = Tail(todo)
          /\ UNCHANGED <<phase, file, written, flowing>>
        BY <1>3 DEF AssertNoClient, Doing, Abort, httpVars, connVars
    <2>2. StepsRight'
        <3>1. CASE crashed' # "no"
            BY <3>1 DEF StepsRight
        <3> QED BY <1>1, <2>1, <3>1, RightDone
    <2> QED BY <1>1, <2>1, <2>2, SameFollow
<1>4. CASE AssertTemp
    <2>1. /\ todo # <<>> /\ crashed = "no"
          /\ crashed' # "no" \/ (todo' = Tail(todo) /\ phase # "body")
          /\ UNCHANGED <<phase, file, written, flowing>>
        BY <1>4 DEF AssertTemp, Doing, Abort, httpVars, connVars
    <2>2. StepsRight'
        <3>1. CASE crashed' # "no"
            BY <3>1 DEF StepsRight
        <3> QED BY <1>1, <2>1, <3>1, RightDone
    <2> QED BY <1>1, <2>1, <2>2, SameFollow
<1>5. CASE Count
    <2>1. /\ written' = written + 1 /\ written \in 0..Blocks
          /\ todo' = <<>> \/ (Complete /\ todo' = <<"end", "clear", "assert", "backend">>)
          /\ UNCHANGED <<phase, file, crashed>>
        BY <1>1, <1>5, Handlers DEF Count, Types
    <2>2. StepsRight'
        BY <2>1, BlockRanges DEF StepsRight, Complete
    <2> QED BY <1>1, <2>1, <2>2, SameFollow
<1>6. CASE DisconnectBackend
    <2>1. todo # <<>> /\ crashed = "no" /\ todo[1] # "temp"
        BY <1>6 DEF DisconnectBackend, Doing
    <2>2. CASE crashed' # "no" /\ UNCHANGED <<todo, httpVars, connVars>>
        <3>1. UNCHANGED <<phase, file>>
            BY <2>2 DEF httpVars
        <3> QED BY <1>1, <2>2, <3>1, SameFollow DEF StepsRight
    <2>3. CASE (\A c \in Client : ~client[c].linked) /\ phase' = "none" /\ todo' = Tail(todo)
        <3>1. \A c \in Client : ~client[c].open /\ ~client[c].reading
            BY <2>3 DEF AllFollow, Follows
        <3>2. AllFollow'
            BY <1>1, <3>1 DEF AllFollow, Follows
        <3> QED BY <1>1, <2>1, <2>3, <3>2, RightDone
    <2> QED BY <1>6, <2>2, <2>3 DEF DisconnectBackend, Abort
<1> QED BY <1>2, <1>3, <1>4, <1>5, <1>6

(* A handler that begins when none runs.                                   *)
LEMMA BeginsRight ==
    ASSUME \/ todo' \in {<<>>, <<"wake", "count">>}
           \/ todo' = <<"start">> /\ phase' = "body" /\ file' = <<Header>>
           \/ phase' # "body" /\ (todo' # <<>> => todo'[1] # "start")
           \/ todo' = BackendError
           \/ ~flowing' /\ todo' \in {<<"error">> \o DisconnectFrontend, <<"error">> \o DisconnectFrontend \o <<"backend">>}
    PROVE  StepsRight'
<1>1. CASE todo' \in {<<>>, <<"wake", "count">>}
    BY <1>1 DEF StepsRight
<1>2. CASE todo' = <<"start">> /\ phase' = "body" /\ file' = <<Header>>
    BY <1>2 DEF StepsRight
<1>3. CASE phase' # "body" /\ (todo' # <<>> => todo'[1] # "start")
    BY <1>3 DEF StepsRight
<1>4. CASE todo' = BackendError
    <2>1. todo' = <<"error", "clear", "temp", "end", "clear", "assert", "backend">>
        BY <1>4, Handlers
    <2>2. Len(todo') = 7 /\ todo'[1] = "error" /\ todo'[3] = "temp"
        BY <2>1
    <2>3. ASSUME NEW i \in 1..7, todo'[i] = "end"
          PROVE  3 \in 1..(i - 1)
        <3>1. i # 1 /\ i # 2 /\ i # 3
            BY <2>1, <2>3
        <3> QED BY <3>1
    <2> QED BY <2>2, <2>3 DEF StepsRight
<1>5. CASE ~flowing' /\ todo' \in {<<"error">> \o DisconnectFrontend, <<"error">> \o DisconnectFrontend \o <<"backend">>}
    <2>1. todo'[1] = "error"
        BY <1>5, Handlers
    <2> QED BY <1>5, <2>1 DEF StepsRight
<1> QED BY <1>1, <1>2, <1>3, <1>4, <1>5

\* The answer of the origin.
LEMMA AnswerWhole ==
    ASSUME WholeInv, Answer
    PROVE  AllFollow' /\ StepsRight'
<1> USE DEF WholeInv
<1>1. Types /\ UNCHANGED client /\ Idle
    BY DEF IInv, Answer, StatusOk, HeaderEnd, NoTempFile, HeaderFails, StatusOther, StatusCut, Data, HeaderRead, Receiving
<1>2. todo = <<>>
    BY <1>1 DEF Idle
<1>3. CASE StatusOk
    <2>1. phase = "request" /\ UNCHANGED todo
        BY <1>3 DEF StatusOk
    <2> QED BY <1>1, <1>2, <2>1, SameFollow, BeginsRight
<1>4. CASE HeaderEnd
    <2>1. phase = "header" /\ phase' = "body" /\ file' = <<Header>> /\ todo' = <<"start">>
        BY <1>4 DEF HeaderEnd, HeaderRead
    <2> QED BY <1>1, <2>1, SameFollow, BeginsRight
<1>5. CASE NoTempFile
    <2>1. phase = "header" /\ phase' = "discard" /\ todo' \in {DisconnectFrontend, <<"error">> \o DisconnectFrontend}
        BY <1>5 DEF NoTempFile, HeaderRead
    <2>2. todo'[1] # "start"
        BY <2>1, Handlers DEF DisconnectFrontend
    <2> QED BY <1>1, <2>1, <2>2, SameFollow, BeginsRight
<1>6. CASE HeaderFails
    <2>1. phase = "header" /\ phase' = "header" /\ todo' = DisconnectFrontend \o <<"backend">>
        BY <1>6 DEF HeaderFails, HeaderRead
    <2>2. todo' = <<"end", "clear", "assert", "backend">>
        BY <2>1, Handlers
    <2>3. todo'[1] # "start"
        BY <2>2
    <2> QED BY <1>1, <2>1, <2>3, SameFollow, BeginsRight
<1>7. CASE StatusOther
    <2>1. /\ phase = "request" /\ phase' = "request"
          /\ todo' \in {<<"error", "clear", "backend">> \o DisconnectFrontend, <<"cached", "backend">> \o DisconnectFrontend}
        BY <1>7 DEF StatusOther, httpVars
    <2>2. todo'[1] # "start"
        BY <2>1, Handlers
    <2> QED BY <1>1, <2>1, <2>2, SameFollow, BeginsRight
<1>8. CASE StatusCut
    <2>1. /\ phase = "request" /\ phase' = "request"
          /\ \/ todo' = <<>> \o <<"backend">> \o DisconnectFrontend
             \/ todo' = <<"error", "clear">> \o <<"backend">> \o DisconnectFrontend
        BY <1>8 DEF StatusCut, httpVars
    <2>2. todo'[1] # "start"
        BY <2>1, Handlers
    <2> QED BY <1>1, <2>1, <2>2, SameFollow, BeginsRight
<1>9. CASE Data
    <2>1. PICK x : /\ file' = Append(file, x) /\ x \in Raw..Blocks
                   /\ todo' = <<"wake", "count">> /\ UNCHANGED phase
        <3> DEFINE x == IF next = 0 THEN Raw ELSE next
        <3>1. x \in Raw..Blocks
            BY <1>1, <1>9, BlockRanges DEF Data, Types
        <3>2. file' = Append(file, x) /\ todo' = <<"wake", "count">> /\ UNCHANGED phase
            BY <1>9 DEF Data
        <3> QED BY <3>1, <3>2
    <2>2. file \in Seq(Raw..Blocks) /\ Len(file) \in Nat
        BY <1>1 DEF Types, Content
    <2>3. Len(file') = Len(file) + 1
        BY <2>1, <2>2, AppendProperties
    <2>4. ASSUME NEW p \in Nat, p <= Len(file)
          PROVE  SubSeq(file', 1, p) = SubSeq(file, 1, p)
        <3>1. file' = file \o <<x>> /\ <<x>> \in Seq(Raw..Blocks)
            BY <2>1, <2>2, AppendIsConcat
        <3>2. CASE p = 0
            BY <3>2, SubSeqEmpty
        <3>3. CASE p # 0
            <4>1. 1 \in 1..Len(file) /\ p \in 1..Len(file)
                BY <2>2, <2>4, <3>3
            <4>2. SubSeq(file \o <<x>>, 1, p) = SubSeq(file, 1, p)
                BY <2>2, <3>1, <4>1, SubSeqOfConcat1
            <4> QED BY <3>1, <4>2
        <3> QED BY <3>2, <3>3
    <2>5. ASSUME NEW c \in Client
          PROVE  Follows(client[c])'
        <3> DEFINE r == client[c]
        <3>1. Follows(r) /\ r.pos \in Nat /\ client'[c] = r
            BY <1>1, ClientFields DEF AllFollow, Types
        <3>2. CASE ~r.reading
            BY <3>1, <3>2 DEF Follows
        <3>3. CASE r.reading
            <4>1. r.open /\ r.linked /\ phase = "body" /\ r.pos <= Len(file)
                BY <3>1, <3>3 DEF Follows
            <4>2. PICK k \in Nat : r.got = Headers(k) \o SubSeq(file, 1, r.pos)
                BY <3>1, <3>3 DEF Follows, HasFront
            <4>3. r.got = Headers(k) \o SubSeq(file', 1, r.pos)
                BY <2>4, <3>1, <4>1, <4>2
            <4>4. HasFront(client[c])'
                BY <3>1, <4>3 DEF HasFront, Headers
            <4>5. r.pos <= Len(file')
                BY <2>2, <2>3, <3>1, <4>1
            <4> QED BY <2>1, <3>1, <3>3, <4>1, <4>4, <4>5 DEF Follows
        <3> QED BY <3>2, <3>3
    <2> QED BY <2>1, <2>5, BeginsRight DEF AllFollow
<1> QED BY <1>3, <1>4, <1>5, <1>6, <1>7, <1>8, <1>9 DEF Answer

\* The other events of the connection, and the timers.
LEMMA NoAnswerWhole ==
    ASSUME WholeInv, Connection \/ Fails \/ HttpTimeout \/ HttpCheck
    PROVE  AllFollow' /\ StepsRight'
<1> USE DEF WholeInv
<1>1. Types /\ Idle /\ UNCHANGED <<client, phase, file>>
    BY DEF IInv, Connection, Served, ClosedUnanswered, ClosedAnswered, NotReplaced, BackendDeleted, Fails, HttpTimeout,
           HttpCheck, httpVars
<1>2. todo = <<>> /\ AllFollow'
    BY <1>1, SameFollow DEF Idle
<1>3. CASE Connection \/ HttpCheck
    <2>1. UNCHANGED todo
        BY <1>3 DEF Connection, Served, ClosedUnanswered, ClosedAnswered, NotReplaced, BackendDeleted, HttpCheck
    <2> QED BY <1>2, <2>1, BeginsRight
<1>4. CASE Fails
    BY <1>2, <1>4, BeginsRight DEF Fails
<1>5. CASE HttpTimeout
    <2>1. \/ todo' = <<"error">> \o DisconnectFrontend \o <<"backend">>
          \/ todo' = <<"error">> \o DisconnectFrontend \o <<>>
        BY <1>5 DEF HttpTimeout
    <2>2. <<"error">> \o DisconnectFrontend \o <<>> = <<"error">> \o DisconnectFrontend
        <3>1. <<"error">> \o DisconnectFrontend \in Seq(Steps)
            BY HandlersLeft DEF StepsLeft
        <3> QED BY <3>1, ConcatEmptySeq
    <2>3. ~flowing'
        BY <1>5 DEF HttpTimeout
    <2> QED BY <1>2, <2>1, <2>2, <2>3, BeginsRight
<1> QED BY <1>3, <1>4, <1>5

\* A request for the path.
LEMMA RequestWhole ==
    ASSUME WholeInv, Request
    PROVE  AllFollow' /\ StepsRight'
<1> USE DEF WholeInv
<1>1. PICK c \in Client : Join(c) \/ ReadCached(c) \/ Start(c)
    BY DEF Request
<1>2. Types /\ todo = <<>> /\ todo' = <<>> /\ UNCHANGED file
    BY <1>1 DEF IInv, Join, ReadCached, Start, Fresh, Idle, httpVars
<1> DEFINE r == [Opened EXCEPT !.linked = TRUE]
<1>3. r \in ClientType /\ r.open /\ r.linked /\ ~r.reading /\ r.got = <<>> /\ Follows(r) /\ Follows(r)'
    BY AbsentTypes DEF Opened, Absent, Follows
<1> HIDE DEF r
<1>4. CASE Join(c)
    <2>1. PICK s \in IF phase = "body" THEN StartRead(r) ELSE {r} : client' = [client EXCEPT ![c] = s]
        BY <1>4 DEF Join, r
    <2>2. UNCHANGED phase
        BY <1>4 DEF Join, httpVars
    <2>3. s \in ClientType /\ Follows(s)
        <3>1. CASE phase = "body"
            <4>1. s \in StartRead(r) /\ file \in Content
                BY <1>2, <2>1, <3>1 DEF Types
            <4> QED BY <1>2, <1>3, <3>1, <4>1, StartFollows, StartReadOf
        <3>2. CASE phase # "body"
            BY <1>3, <2>1, <3>2
        <3> QED BY <3>1, <3>2
    <2> QED BY <1>2, <2>1, <2>2, <2>3, OneFollows, BeginsRight
<1>5. CASE ReadCached(c)
    <2>1. PICK s \in ReadFinal(Opened) : client' = [client EXCEPT ![c] = s]
        BY <1>5 DEF ReadCached
    <2>2. s \in ClientType /\ Follows(s)
        BY <1>2, <2>1, AbsentTypes, ReadFinalOf, ClosedFollows DEF Types
    <2>3. UNCHANGED phase
        BY <1>5 DEF ReadCached, httpVars
    <2> QED BY <1>2, <2>1, <2>2, <2>3, OneFollows, BeginsRight
<1>6. CASE Start(c)
    <2>1. client' = [client EXCEPT ![c] = r] /\ phase = "none"
        BY <1>6 DEF Start, r
    <2>2. \A d \in Client : client'[d] = r \/ (client'[d] = client[d] /\ ~client[d].reading)
        BY <1>2, <2>1, NobodyReads DEF Types
    <2>3. AllFollow'
        <3> SUFFICES ASSUME NEW d \in Client
                     PROVE  Follows(client[d])'
            BY DEF AllFollow
        <3>1. CASE client'[d] = r
            BY <1>3, <3>1 DEF Follows
        <3>2. CASE client'[d] = client[d] /\ ~client[d].reading
            BY <3>2 DEF AllFollow, Follows
        <3> QED BY <2>2, <3>1, <3>2
    <2> QED BY <1>2, <2>3, BeginsRight
<1> QED BY <1>1, <1>4, <1>5, <1>6

\* The events of the clients.
LEMMA ClientEventWhole ==
    ASSUME WholeInv, ClientEvent
    PROVE  AllFollow' /\ StepsRight'
<1> USE DEF WholeInv
<1>1. PICK c \in Client : Gone(c) \/ ReadyToWrite(c) \/ Delete(c)
    BY DEF ClientEvent
<1>2. Types /\ todo' = <<>> /\ UNCHANGED <<phase, file>>
    BY <1>1 DEF IInv, Gone, ReadyToWrite, Delete, Idle, httpVars
<1>3. client[c] \in ClientType /\ Follows(client[c])
    BY <1>2 DEF Types, AllFollow
<1>4. CASE Gone(c)
    <2>1. client' = [client EXCEPT ![c] = Disconnected(client[c])]
        BY <1>4 DEF Gone, Become
    <2>2. Disconnected(client[c]) \in ClientType /\ Follows(Disconnected(client[c]))
        BY <1>3, DisconnectedClosed, ClosedFollows
    <2> QED BY <1>2, <2>1, <2>2, OneFollows, BeginsRight
<1>5. CASE ReadyToWrite(c)
    <2>1. PICK s \in ContinueRead(client[c]) : client' = [client EXCEPT ![c] = s]
        BY <1>5 DEF ReadyToWrite, Become
    <2>2. s \in ClientType /\ Follows(s)
        BY <1>2, <1>3, <2>1, ContinueReadOf, ReadOnFollows DEF Types
    <2> QED BY <1>2, <2>1, <2>2, OneFollows, BeginsRight
<1>6. CASE Delete(c)
    <2>1. client' = [client EXCEPT ![c] = Absent]
        BY <1>6 DEF Delete
    <2>2. Absent \in ClientType /\ Follows(Absent)
        BY AbsentTypes, ClosedFollows DEF Closed, Absent
    <2> QED BY <1>2, <2>1, <2>2, OneFollows, BeginsRight
<1> QED BY <1>1, <1>4, <1>5, <1>6

\* The start of the process, and a restart.
LEMMA BeginningWhole ==
    /\ Init => AllFollow /\ StepsRight
    /\ Restart => AllFollow' /\ StepsRight'
<1>1. ~Absent.open /\ ~Absent.reading
    BY DEF Absent
<1>2. ASSUME Init
      PROVE  AllFollow /\ StepsRight
    BY <1>1, <1>2 DEF Init, AllFollow, Follows, StepsRight
<1>3. ASSUME Restart
      PROVE  AllFollow' /\ StepsRight'
    BY <1>1, <1>3 DEF Restart, AllFollow, Follows, StepsRight
<1> QED BY <1>2, <1>3

\* Every step keeps the invariant.
LEMMA NextWhole ==
    ASSUME WholeInv, [Next]_vars
    PROVE  AllFollow' /\ StepsRight'
<1>1. CASE UNCHANGED vars
    <2>1. UNCHANGED <<client, todo, phase, file, written, flowing, crashed>>
        BY <1>1 DEF vars, httpVars, connVars
    <2>2. AllFollow'
        BY <2>1, SameFollow DEF WholeInv
    <2> QED BY <2>1, <2>2 DEF WholeInv, StepsRight
<1> QED BY <1>1, VisitWhole, HandlerWhole, AnswerWhole, NoAnswerWhole, RequestWhole, ClientEventWhole, BeginningWhole
        DEF Next, Handler

-----------------------------------------------------------------------------
(* Who is told the end.                                                    *)

\* What EndIsWhole says of a client that was g and is told the end with h.
IsWhole(h) ==
    \/ /\ phase = "body" /\ (written >= Blocks \/ ~flowing)
       /\ \E k \in 0..Len(h) : h = Headers(k) \o file \o <<EndMark>>
    \/ h = Append(final, EndMark)

Told(g, h) == Ends(g, h) /\ ~Holds(h, Failure)

\* Who is sent blocks, or a failure, is not told the end.
LEMMA GrownNotTold ==
    ASSUME NEW g \in Seq(Block), NEW h, Grows(g, h) \/ Holds(h, Failure)
    PROVE  ~Told(g, h)
BY GrownGoesOn DEF Told

\* writeEnd tells the end with the whole file.
LEMMA EndTold ==
    ASSUME Types, NEW r \in ClientType, Follows(r), NEW s \in End(r), Told(r.got, s.got),
           phase = "body" => written >= Blocks \/ ~flowing
    PROVE  IsWhole(s.got)
<1>1. file \in Content /\ r.got \in Seq(Block) /\ r.reading \in BOOLEAN
    BY ClientFields DEF Types
<1>2. r.open /\ r.got # <<>> /\ s.got = Append(All(r), EndMark)
    BY <1>1, EndOf, GrownNotTold
<1>3. r.reading /\ phase = "body" /\ r.pos <= Len(file)
    BY <1>1, <1>2 DEF Follows
<1>4. PICK k \in Nat : r.got = Headers(k) \o SubSeq(file, 1, r.pos)
    BY <1>3 DEF Follows, HasFront
<1>5. All(r) = Headers(k) \o file
    BY <1>1, <1>3, <1>4, RestIsAll DEF All
<1> DEFINE h == Headers(k)
           u == h \o file
<1>6. h \in Seq(Block) /\ file \in Seq(Block) /\ Len(h) = k
    BY <1>1, HeadersContent, ContentWaits
<1> HIDE DEF h
<1>7. u \in Seq(Block) /\ Len(u) = k + Len(file) /\ Len(file) \in Nat
    BY <1>6, ConcatProperties
<1> HIDE DEF u
<1>8. s.got = u \o <<EndMark>> /\ Len(s.got) = k + Len(file) + 1
    <2>1. EndMark \in Block /\ s.got = Append(u, EndMark)
        BY <1>2, <1>5, BlockRanges DEF u, h
    <2>2. Append(u, EndMark) = u \o <<EndMark>>
        BY <1>7, <2>1, AppendIsConcat
    <2>3. Len(Append(u, EndMark)) = Len(u) + 1
        BY <1>7, <2>1, AppendProperties
    <2> QED BY <1>7, <2>1, <2>2, <2>3
<1>9. k \in 0..Len(s.got)
    BY <1>7, <1>8
<1>10. s.got = Headers(k) \o file \o <<EndMark>>
    BY <1>8 DEF u, h
<1> QED BY <1>3, <1>9, <1>10 DEF IsWhole

\* The cache file is told the end of when all of it was sent.
LEMMA FinalTold ==
    ASSUME Types, NEW r \in ClientType, r.got = <<>>, NEW s \in ReadFinal(r), Told(r.got, s.got)
    PROVE  IsWhole(s.got)
<1>1. file \in Content /\ final \in Content /\ r.got \in Seq(Block) /\ final \in Seq(Block)
    BY ClientFields, ContentWaits DEF Types
<1>2. s.got = Append(<<>> \o final, EndMark)
    BY <1>1, ReadFinalOf, GrownNotTold
<1>3. <<>> \o final = final
    BY <1>1, ConcatEmptySeq
<1> QED BY <1>2, <1>3 DEF IsWhole

\* Nor is a client that was sent nothing more.
LEMMA NotTold ==
    ASSUME NEW r, NEW h, h = r.got \/ h = <<>>, r.got \in Seq(Block)
    PROVE  ~Told(r.got, h)
BY DEF Told, Ends

\* Who is told the end by a loop.
LEMMA VisitTold ==
    ASSUME WholeInv, Visit, NEW d \in Client, Told(client[d].got, client'[d].got)
    PROVE  IsWhole(client'[d].got)
<1> USE DEF WholeInv
<1>1. PICK loop \in Loops :
        /\ Doing(loop)
        /\ IF visited < Len(Memory)
           THEN \E r \in Effect(loop, client[Memory[visited + 1]]) : Become(Memory[visited + 1], r)
           ELSE UNCHANGED client
    BY DEF Visit
<1>2. Types /\ file \in Content /\ final \in Content /\ client[d] \in ClientType /\ client[d].got \in Seq(Block)
    BY ClientFields DEF IInv, Types
<1>3. client' # client
    BY <1>2, NotTold
<1> DEFINE c == Memory[visited + 1]
<1>4. PICK s \in Effect(loop, client[c]) : client' = [client EXCEPT ![c] = s]
    BY <1>1, <1>3 DEF Become
<1> HIDE DEF c
<1>5. d = c /\ client'[d] = s
    <2>1. d # c => client'[d] = client[d]
        BY <1>2, <1>4 DEF Types
    <2>2. d = c
        BY <1>2, <2>1, NotTold
    <2> QED BY <1>2, <1>4, <2>2 DEF Types
<1> DEFINE r == client[d]
<1>6. r \in ClientType /\ r.got \in Seq(Block) /\ Follows(r) /\ s \in Effect(loop, r) /\ Told(r.got, s.got)
    BY <1>2, <1>4, <1>5 DEF AllFollow
<1> HIDE DEF r
<1>7. CASE ~r.open
    <2>1. s = r
        BY <1>6, <1>7 DEF Effect, Loops
    <2> QED BY <1>6, <2>1, NotTold
<1>8. CASE r.open /\ loop = "start"
    <2>1. s \in StartRead(r)
        BY <1>6, <1>8 DEF Effect
    <2>2. Grows(r.got, s.got) \/ Holds(s.got, Failure)
        BY <1>2, <1>6, <2>1, StartReadOf, ContentWaits DEF Grows
    <2> QED BY <1>6, <2>2, GrownNotTold
<1>9. CASE r.open /\ loop = "wake"
    <2>1. s \in ContinueRead(r)
        BY <1>6, <1>9 DEF Effect
    <2>2. Grows(r.got, s.got)
        BY <1>2, <1>6, <2>1, ContinueReadOf, RestOf, ContentWaits DEF Grows
    <2> QED BY <1>6, <2>2, GrownNotTold
<1>10. CASE r.open /\ loop = "end"
    <2>1. s \in End(r)
        BY <1>6, <1>10 DEF Effect
    <2>2. phase = "body" => written >= Blocks \/ ~flowing
        <3>1. crashed = "no" /\ todo[1] = "end" /\ 1 \in 1..Len(todo)
            BY <1>1, <1>2, <1>10, TailLeft DEF Doing, Types
        <3>2. ~\E j \in 1..(1 - 1) : todo[j] = "temp"
            OBVIOUS
        <3> QED BY <3>1, <3>2 DEF StepsRight
    <2> QED BY <1>2, <1>5, <1>6, <2>1, <2>2, EndTold
<1>11. CASE r.open /\ loop = "error"
    <2>1. s \in HttpError(r)
        BY <1>6, <1>11 DEF Effect
    <2> QED BY <1>2, <1>6, <2>1, HttpErrorOf, GrownNotTold
<1>12. CASE r.open /\ loop = "cached"
    <2>1. s \in ReadFinal(r)
        BY <1>6, <1>12 DEF Effect
    <2>2. phase # "body"
        BY <1>1, <1>12 DEF Doing, StepsRight
    <2>3. r.got = <<>>
        BY <1>6, <1>12, <2>2, ClientFields DEF Follows
    <2> QED BY <1>2, <1>5, <1>6, <2>1, <2>3, FinalTold
<1> QED BY <1>7, <1>8, <1>9, <1>10, <1>11, <1>12 DEF Loops

\* Who is told the end at once, by the request.
LEMMA RequestTold ==
    ASSUME WholeInv, Request, NEW d \in Client, Told(client[d].got, client'[d].got)
    PROVE  IsWhole(client'[d].got)
<1> USE DEF WholeInv
<1>1. PICK c \in Client : Join(c) \/ ReadCached(c) \/ Start(c)
    BY DEF Request
<1>2. Types /\ file \in Content /\ client[d] \in ClientType /\ client[d].got \in Seq(Block)
    BY ClientFields DEF IInv, Types
<1>3. client[c] = Absent /\ Absent.got = <<>> /\ Opened.got = <<>> /\ [Opened EXCEPT !.linked = TRUE].got = <<>>
    BY <1>1 DEF Join, ReadCached, Start, Fresh, Absent, Opened
<1>4. PICK s : client' = [client EXCEPT ![c] = s]
    BY <1>1 DEF Join, ReadCached, Start
<1>5. d = c /\ client'[d] = s /\ client[d].got = <<>>
    <2>1. d # c => client'[d] = client[d]
        BY <1>2, <1>4 DEF Types
    <2>2. d = c
        BY <1>2, <2>1, NotTold
    <2> QED BY <1>2, <1>3, <1>4, <2>2 DEF Types
<1> DEFINE r == [Opened EXCEPT !.linked = TRUE]
<1>6. r \in ClientType /\ r.got = <<>>
    BY <1>3, AbsentTypes
<1> HIDE DEF r
<1>7. client \in [Client -> ClientType]
    BY <1>2 DEF Types
<1>8. CASE Join(c)
    <2>1. client'[c] \in IF phase = "body" THEN StartRead(r) ELSE {r}
        BY <1>7, <1>8 DEF Join, r
    <2>2. CASE phase = "body"
        <3>1. Grows(r.got, client'[d].got) \/ Holds(client'[d].got, Failure)
            BY <1>2, <1>5, <1>6, <2>1, <2>2, StartReadOf, ContentWaits DEF Grows
        <3> QED BY <1>2, <1>5, <1>6, <3>1, GrownNotTold
    <2>3. CASE phase # "body"
        BY <1>2, <1>5, <1>6, <2>1, <2>3, NotTold
    <2> QED BY <2>2, <2>3
<1>9. CASE ReadCached(c)
    <2>1. client'[c] \in ReadFinal(Opened)
        BY <1>7, <1>9 DEF ReadCached
    <2> QED BY <1>2, <1>3, <1>5, <2>1, AbsentTypes, FinalTold
<1>10. CASE Start(c)
    <2>1. client'[d].got = <<>>
        BY <1>3, <1>5, <1>7, <1>10 DEF Start
    <2> QED BY <1>2, <2>1, NotTold
<1> QED BY <1>1, <1>8, <1>9, <1>10

\* An event of a client tells nobody the end.
LEMMA ClientEventTold ==
    ASSUME WholeInv, ClientEvent, NEW d \in Client
    PROVE  ~Told(client[d].got, client'[d].got)
<1> USE DEF WholeInv
<1>1. PICK c \in Client : Gone(c) \/ ReadyToWrite(c) \/ Delete(c)
    BY DEF ClientEvent
<1>2. /\ file \in Content /\ client \in [Client -> ClientType]
      /\ client[d] \in ClientType /\ client[d].got \in Seq(Block) /\ client[c] \in ClientType
    BY ClientFields DEF IInv, Types
<1>3. CASE Gone(c)
    <2>1. client' = [client EXCEPT ![c] = Disconnected(client[c])]
        BY <1>3 DEF Gone, Become
    <2>2. client'[d].got = client[d].got
        BY <1>2, <2>1, DisconnectedClosed
    <2> QED BY <1>2, <2>2, NotTold
<1>4. CASE ReadyToWrite(c)
    <2>1. PICK s \in ContinueRead(client[c]) : client' = [client EXCEPT ![c] = s]
        BY <1>4 DEF ReadyToWrite, Become
    <2>2. CASE d = c
        <3>1. client'[d] = s
            BY <1>2, <2>1, <2>2
        <3>2. Grows(client[d].got, s.got)
            BY <1>2, <2>1, <2>2, ContinueReadOf, RestOf, ContentWaits DEF Grows
        <3> QED BY <1>2, <3>1, <3>2, GrownNotTold
    <2>3. CASE d # c
        BY <1>2, <2>1, <2>3, NotTold
    <2> QED BY <2>2, <2>3
<1>5. CASE Delete(c)
    <2>1. client' = [client EXCEPT ![c] = Absent] /\ Absent.got = <<>>
        BY <1>5 DEF Delete, Absent
    <2>2. client'[d].got = client[d].got \/ client'[d].got = <<>>
        BY <1>2, <2>1
    <2> QED BY <1>2, <2>2, NotTold
<1> QED BY <1>1, <1>3, <1>4, <1>5

\* Every step.
LEMMA NextTold ==
    ASSUME WholeInv, [Next]_vars, NEW d \in Client, Told(client[d].got, client'[d].got)
    PROVE  IsWhole(client'[d].got)
<1>1. client[d] \in ClientType /\ client[d].got \in Seq(Block)
    BY ClientFields DEF WholeInv, IInv, Types
<1>2. ASSUME UNCHANGED client
      PROVE  FALSE
    BY <1>1, <1>2, NotTold
<1>3. CASE Clear \/ AssertNoClient \/ AssertTemp \/ Count \/ DisconnectBackend
    BY <1>2, <1>3 DEF Clear, AssertNoClient, AssertTemp, Count, DisconnectBackend, listVars
<1>4. CASE Answer
    BY <1>2, <1>4 DEF Answer, StatusOk, HeaderEnd, NoTempFile, HeaderFails, StatusOther, StatusCut, Data, HeaderRead
<1>5. CASE Connection \/ Fails \/ HttpTimeout \/ HttpCheck
    BY <1>2, <1>5
       DEF Connection, Served, ClosedUnanswered, ClosedAnswered, NotReplaced, BackendDeleted, Fails, HttpTimeout, HttpCheck
<1>6. CASE Restart
    <2>1. client'[d].got = <<>>
        BY <1>6 DEF Restart, Absent
    <2> QED BY <1>1, <2>1, NotTold
<1>7. CASE UNCHANGED vars
    BY <1>2, <1>7 DEF vars
<1> QED BY <1>3, <1>4, <1>5, <1>6, <1>7, VisitTold, RequestTold, ClientEventTold DEF Next, Handler

(* The inductive invariant: what a client that reads was sent is the front *)
(* of the .tmp file behind headers, and no handler ends the clients of a   *)
(* file that is neither whole nor given up by the timer.                   *)
THEOREM WholeInvariance == Spec => []WholeInv
<1>1. Init => WholeInv
    BY InitStep, BeginningWhole DEF WholeInv
<1>2. IInv /\ WholeInv /\ [Next]_vars /\ IInv' => WholeInv'
    BY NextWhole DEF WholeInv
<1> QED BY <1>1, <1>2, Invariance, PTL DEF Spec

(* However many clients the download has and however long the body is: who *)
(* is told the end of its request and not of a failure has the whole of    *)
(* the .tmp file, and that has its last byte or the timer closed the       *)
(* connection; or it has the whole of the cache file.                      *)
THEOREM EndsWhole == Spec => EndIsWhole
<1> DEFINE Step == \A c \in Client : Told(client[c].got, client'[c].got) => IsWhole(client'[c].got)
<1>1. WholeInv /\ [Next]_vars => Step
    BY NextTold
<1>2. Step => [\A c \in Client :
        Ends(client[c].got, client'[c].got) /\ ~Holds(client'[c].got, Failure)
            => \/ /\ phase = "body" /\ (written >= Blocks \/ ~flowing)
                  /\ \E k \in 0..Len(client'[c].got) :
                        client'[c].got = Headers(k) \o file \o <<EndMark>>
               \/ client'[c].got = Append(final, EndMark)]_vars
    BY DEF Told, IsWhole
<1> QED BY <1>1, <1>2, WholeInvariance, PTL DEF Spec, EndIsWhole

-----------------------------------------------------------------------------
(* Whom a loop passes over.                                                *)

\* The clients of the list that the loop has not done its work for and will
\* not visit any more.
Passed(loop) == {c \in Missed(loop) : \A i \in (visited + 1)..Len(Memory) : Memory[i] # c}

\* A loop passes over at most one client per removal, and only while there
\* are two more behind the one it removes.
LoopsCount ==
    /\ todo = <<>> \/ todo[1] \notin Loops => visited = 0 /\ stale = <<>>
    /\ \A loop \in Loops : Doing(loop) =>
          /\ Len(stale) <= visited /\ visited <= Len(Memory)
          /\ IsFiniteSet(Passed(loop)) /\ Cardinality(Passed(loop)) <= Len(stale)
          /\ Passed(loop) # {} => 2 * Cardinality(Passed(loop)) < Len(Memory)

\* The vector and the memory behind it, as the loops see them.
LEMMA MemoryIs ==
    ASSUME Types
    PROVE  /\ Memory \in Seq(Client) /\ Len(Memory) = Len(clientsList) + Len(stale)
           /\ \A i \in 1..Len(Memory) :
                Memory[i] = IF i <= Len(clientsList) THEN clientsList[i] ELSE stale[i - Len(clientsList)]
           /\ Len(clientsList) \in Nat /\ Len(stale) \in Nat
<1>1. clientsList \in Seq(Client) /\ stale \in Seq(Client)
    BY DEF Types
<1> QED BY <1>1, ConcatProperties DEF Memory

(* Before it visits a client a loop has passed over none.                  *)
LEMMA NoneAtFirst ==
    ASSUME Types, visited = 0, NEW loop \in Loops
    PROVE  Passed(loop) = {}
<1> SUFFICES ASSUME NEW c \in Missed(loop), \A i \in 1..Len(Memory) : Memory[i] # c
             PROVE  FALSE
    BY DEF Passed
<1>1. PICK i \in 1..Len(clientsList) : clientsList[i] = c
    BY DEF Missed, Occurs
<1>2. i \in 1..Len(Memory) /\ Memory[i] = clientsList[i]
    BY MemoryIs
<1> QED BY <1>1, <1>2

(* What follows the client that is removed moves down by one in the memory *)
(* of the vector; its last element stays where it was.                     *)
LEMMA MemoryMoves ==
    ASSUME Types, Types', ListOnce, todo # <<>>, NEW c \in Client, NEW k \in Occurs(c), RemoveClient(c)
    PROVE  /\ Len(stale') = Len(stale) + 1 /\ Len(Memory') = Len(Memory)
           /\ \A i \in 1..Len(Memory) :
                Memory'[i] = IF k <= i /\ i < Len(clientsList) THEN Memory[i + 1] ELSE Memory[i]
<1> DEFINE L == clientsList
           n == Len(clientsList)
           z == Len(stale)
<1>1. /\ n \in Nat /\ z \in Nat /\ Len(Memory) = n + z
      /\ \A i \in 1..(n + z) : Memory[i] = IF i <= n THEN L[i] ELSE stale[i - n]
    BY MemoryIs
<1>2. k \in 1..n /\ L[k] = c
    BY DEF Occurs
<1>3. (CHOOSE i \in Occurs(c) : TRUE) = k
    <2>1. \A i \in Occurs(c) : i = k
        BY <1>2 DEF Occurs, ListOnce
    <2> QED BY <2>1
<1>4. /\ clientsList' = [i \in 1..(n - 1) |-> IF i < k THEN L[i] ELSE L[i + 1]]
      /\ stale' = <<L[n]>> \o stale
    BY <1>3 DEF RemoveClient
<1>5. Len(clientsList') = n - 1 /\ \A i \in 1..(n - 1) : clientsList'[i] = IF i < k THEN L[i] ELSE L[i + 1]
    <2>1. n - 1 \in Nat
        BY <1>1, <1>2
    <2> QED BY <1>4, <2>1
<1>6. /\ Len(stale') = z + 1
      /\ \A i \in 1..(z + 1) : stale'[i] = IF i = 1 THEN L[n] ELSE stale[i - 1]
    <2> DEFINE e == <<L[n]>>
    <2>1. L[n] \in Client /\ stale \in Seq(Client)
        BY <1>1, <1>2, ElementOfSeq DEF Types
    <2>2. e \in Seq(Client) /\ Len(e) = 1 /\ e[1] = L[n]
        BY <2>1
    <2> HIDE DEF e
    <2>3. /\ Len(e \o stale) = Len(e) + Len(stale)
          /\ \A i \in 1..(Len(e) + Len(stale)) : (e \o stale)[i] = IF i <= Len(e) THEN e[i] ELSE stale[i - Len(e)]
        BY <2>1, <2>2, ConcatProperties
    <2>4. stale' = e \o stale
        BY <1>4 DEF e
    <2>5. \A i \in 1..(z + 1) : (e \o stale)[i] = IF i = 1 THEN L[n] ELSE stale[i - 1]
        <3> TAKE i \in 1..(z + 1)
        <3>1. i \in 1..(Len(e) + Len(stale)) /\ (i <= Len(e) <=> i = 1)
            BY <1>1, <2>2
        <3> QED BY <2>2, <2>3, <3>1
    <2> QED BY <1>1, <2>2, <2>3, <2>4, <2>5
<1> DEFINE N == Len(Memory')
<1>7. /\ N = (n - 1) + (z + 1)
      /\ \A i \in 1..N : Memory'[i] = IF i <= n - 1 THEN clientsList'[i] ELSE stale'[i - (n - 1)]
    <2>1. clientsList' \in Seq(Client) /\ stale' \in Seq(Client)
        BY DEF Types
    <2>2. /\ Len(Memory') = Len(clientsList') + Len(stale')
          /\ \A i \in 1..(Len(clientsList') + Len(stale')) :
                Memory'[i] = IF i <= Len(clientsList') THEN clientsList'[i] ELSE stale'[i - Len(clientsList')]
        BY <2>1, ConcatProperties DEF Memory
    <2> QED BY <1>5, <1>6, <2>2
<1> HIDE DEF n, z, L, N
<1>8. N = n + z
    BY <1>1, <1>7
<1>9. ASSUME NEW i \in 1..(n + z)
      PROVE  Memory'[i] = IF k <= i /\ i < n THEN Memory[i + 1] ELSE Memory[i]
    <2>1. CASE i < k
        <3>1. i \in 1..(n - 1) /\ i <= n /\ Memory'[i] = clientsList'[i]
            BY <1>1, <1>2, <1>7, <1>8, <2>1
        <3>2. Memory[i] = L[i]
            BY <1>1, <3>1
        <3>3. ~(k <= i)
            BY <1>1, <1>2, <2>1
        <3> QED BY <1>5, <2>1, <3>1, <3>2, <3>3
    <2>2. CASE k <= i /\ i < n
        <3>1. i \in 1..(n - 1) /\ Memory'[i] = clientsList'[i] /\ ~(i < k)
            BY <1>1, <1>2, <1>7, <1>8, <2>2
        <3>2. i + 1 \in 1..(n + z) /\ i + 1 <= n
            BY <1>1, <2>2
        <3> QED BY <1>1, <1>5, <2>2, <3>1, <3>2
    <2>3. CASE i = n
        <3>1. ~(i <= n - 1) /\ i - (n - 1) = 1 /\ 1 \in 1..(z + 1)
            BY <1>1, <2>3
        <3>2. Memory'[i] = L[n]
            BY <1>6, <1>7, <1>8, <3>1
        <3> QED BY <1>1, <2>3, <3>2
    <2>4. CASE i > n
        <3>1. ~(i <= n - 1) /\ i - (n - 1) \in 1..(z + 1) /\ i - (n - 1) # 1 /\ (i - (n - 1)) - 1 = i - n
            BY <1>1, <2>4
        <3>2. Memory'[i] = stale[i - n]
            BY <1>6, <1>7, <1>8, <3>1
        <3> QED BY <1>1, <2>4, <3>2
    <2>5. i < k \/ (k <= i /\ i < n) \/ i = n \/ i > n
        BY <1>1, <1>2
    <2> QED BY <2>1, <2>2, <2>3, <2>4, <2>5
<1> QED BY <1>1, <1>6, <1>8, <1>9 DEF n, z, L, N

(* The turn of a loop on a client that stays in the list.                  *)
LEMMA StaysInOrder ==
    ASSUME WholeInv, LoopsCount, NEW loop \in Loops, Doing(loop), visited < Len(Memory),
           NEW s \in Effect(loop, client[Memory[visited + 1]]),
           client' = [client EXCEPT ![Memory[visited + 1]] = s],
           ~(client[Memory[visited + 1]].linked /\ ~s.linked),
           visited' = visited + 1, UNCHANGED <<clientsList, stale, file>>
    PROVE  Passed(loop)' \subseteq Passed(loop)
<1> DEFINE c == Memory[visited + 1]
           r == client[c]
<1>1. Types /\ Memory' = Memory /\ visited \in Nat /\ file \in Content
    BY DEF WholeInv, IInv, Types, Memory
<1>2. c \in Client /\ r \in ClientType /\ Follows(r)
    <2>1. visited + 1 \in 1..Len(Memory) /\ Memory \in Seq(Client)
        BY <1>1, MemoryIs
    <2> QED BY <1>1, <2>1, ElementOfSeq DEF Types, WholeInv, AllFollow
<1>3. client'[c] = s /\ \A d \in Client \ {c} : client'[d] = client[d]
    BY <1>1, <1>2 DEF Types
<1> HIDE DEF c, r
<1>4. Occurs(c) # {} => Reached(loop, s)'
    <2>1. SUFFICES ASSUME Occurs(c) # {}
                   PROVE  Reached(loop, s)'
        OBVIOUS
    <2>2. r.linked /\ r.open /\ s.linked
        BY <1>2, <2>1 DEF WholeInv, IInv, ListLinked, LinkedOpen, Occurs, r, c
    <2>3. ~Closed(s)
        BY <2>2 DEF Closed
    <2>4. CASE loop = "start"
        <3>1. s \in StartRead(r)
            BY <2>2, <2>4 DEF Effect, r, c
        <3> QED BY <1>1, <1>2, <2>3, <2>4, <3>1, StartReadOf DEF Reached
    <2>5. CASE loop = "wake"
        <3>1. s \in ContinueRead(r)
            BY <2>2, <2>5 DEF Effect, r, c
        <3>2. s.reading => s.pos = Len(file)
            BY <1>1, <1>2, <2>3, <3>1, ContinueReadOf
        <3> QED BY <2>5, <3>2 DEF Reached
    <2>6. CASE loop = "end"
        BY <1>1, <1>2, <2>2, <2>3, <2>6, EndOf DEF Effect, r, c
    <2>7. CASE loop = "error"
        BY <1>1, <1>2, <2>2, <2>3, <2>7, HttpErrorOf DEF Effect, r, c
    <2>8. CASE loop = "cached"
        BY <1>1, <1>2, <2>2, <2>3, <2>8, ReadFinalOf DEF Effect, r, c, Types
    <2> QED BY <2>4, <2>5, <2>6, <2>7, <2>8 DEF Loops
<1> SUFFICES ASSUME NEW d \in Passed(loop)'
             PROVE  d \in Passed(loop)
    OBVIOUS
<1>5. /\ d \in Client /\ Occurs(d) # {} /\ ~Reached(loop, client[d])'
      /\ \A i \in (visited + 2)..Len(Memory) : Memory[i] # d
    <2>1. (visited + 1) + 1 = visited + 2
        BY <1>1
    <2> QED BY <1>1, <2>1 DEF Passed, Missed, Occurs
<1>6. d # c
    <2>1. d = c => Reached(loop, client[d])'
        BY <1>3, <1>4, <1>5 DEF Reached
    <2> QED BY <1>5, <2>1
<1>7. ~Reached(loop, client[d])
    <2>1. client'[d] = client[d]
        BY <1>3, <1>5, <1>6
    <2> QED BY <1>5, <2>1 DEF Reached
<1>8. \A i \in (visited + 1)..Len(Memory) : Memory[i] # d
    <2> TAKE i \in (visited + 1)..Len(Memory)
    <2>1. i = visited + 1 \/ i \in (visited + 2)..Len(Memory)
        BY <1>1, MemoryIs
    <2> QED BY <1>5, <1>6, <2>1 DEF c
<1> QED BY <1>5, <1>7, <1>8 DEF Passed, Missed

(* The turn of a loop on a client that is taken out of the list.           *)
LEMMA RemovedInOrder ==
    ASSUME WholeInv, LoopsCount, Types', NEW loop \in Loops, Doing(loop), visited < Len(Memory),
           NEW s, client' = [client EXCEPT ![Memory[visited + 1]] = s],
           RemoveClient(Memory[visited + 1]), Occurs(Memory[visited + 1]) # {},
           visited' = visited + 1, UNCHANGED file
    PROVE  /\ Len(stale') = Len(stale) + 1 /\ Len(Memory') = Len(Memory)
           /\ \/ Passed(loop)' \subseteq Passed(loop)
              \/ /\ visited + 2 < Len(clientsList)
                 /\ Passed(loop)' \subseteq Passed(loop) \cup {Memory[visited + 2]}
<1> DEFINE v == visited
           c == Memory[v + 1]
           n == Len(clientsList)
           N == Len(Memory)
<1>1. Types /\ v \in Nat /\ ListOnce
    BY DEF WholeInv, IInv, Types
<1>2. /\ n \in Nat /\ Len(stale) \in Nat /\ N = n + Len(stale)
      /\ \A i \in 1..n : i \in 1..N /\ Memory[i] = clientsList[i]
    BY <1>1, MemoryIs
<1>3. c \in Client /\ todo # <<>>
    <2>1. v + 1 \in 1..N /\ Memory \in Seq(Client)
        BY <1>1, <1>2, MemoryIs
    <2> QED BY <2>1, ElementOfSeq DEF Doing
<1> PICK k \in Occurs(c) : TRUE
    OBVIOUS
<1>4. k \in 1..n /\ clientsList[k] = c /\ (v + 1 <= n => k = v + 1)
    <2>1. k \in 1..n /\ clientsList[k] = c
        BY DEF Occurs
    <2>2. v + 1 <= n => v + 1 \in 1..n /\ clientsList[v + 1] = c
        BY <1>1, <1>2
    <2> QED BY <1>1, <2>1, <2>2 DEF ListOnce
<1>5. /\ Len(stale') = Len(stale) + 1 /\ Len(Memory') = N
      /\ \A i \in 1..N : Memory'[i] = IF k <= i /\ i < n THEN Memory[i + 1] ELSE Memory[i]
    BY <1>1, <1>3, MemoryMoves
<1>6. client \in [Client -> ClientType] /\ \A d \in Client \ {c} : client'[d] = client[d]
    BY <1>1 DEF Types
<1>7. ASSUME NEW d \in Passed(loop)'
      PROVE  /\ d \in Client /\ d # c /\ Occurs(d) # {} /\ ~Reached(loop, client[d])
             /\ \A i \in (v + 2)..N : Memory'[i] # d
    <2>1. d \in Client /\ Occurs(d)' # {} /\ ~Reached(loop, client[d])'
        BY DEF Passed, Missed
    <2>2. d # c /\ Occurs(d) # {}
        <3>1. /\ \A i \in 1..Len(clientsList') :
                clientsList'[i] # c /\ \E j \in 1..Len(clientsList) : clientsList[j] = clientsList'[i]
            BY <1>1, <1>3, Removed
        <3>2. PICK i \in 1..Len(clientsList') : clientsList'[i] = d
            BY <2>1 DEF Occurs
        <3> QED BY <3>1, <3>2 DEF Occurs
    <2>3. ~Reached(loop, client[d])
        BY <1>6, <2>1, <2>2 DEF Reached
    <2>4. \A i \in (v + 2)..N : Memory'[i] # d
        <3>1. (v + 1) + 1 = v + 2 /\ visited' + 1 = v + 2
            BY <1>1
        <3> QED BY <1>5, <3>1 DEF Passed
    <2> QED BY <2>1, <2>2, <2>3, <2>4
<1> HIDE DEF n, N, v, c
<1>8. ASSUME NEW d \in Passed(loop)', NEW i \in (v + 1)..N, Memory[i] = d
      PROVE  i = v + 2 /\ v + 2 < n
    <2>1. i # v + 1
        BY <1>7, <1>8 DEF c
    <2>2. i \in (v + 2)..N /\ i \in 1..N
        BY <1>1, <1>2, <2>1
    <2>3. Memory'[i] # d
        BY <1>7, <1>8, <2>2
    <2>4. k <= i /\ i < n
        BY <1>5, <1>8, <2>2, <2>3
    <2>5. k = v + 1
        BY <1>1, <1>2, <1>4, <2>2, <2>4
    <2>6. ASSUME i > v + 2
          PROVE  FALSE
        <3>1. i - 1 \in (v + 2)..N /\ i - 1 \in 1..N /\ k <= i - 1 /\ i - 1 < n /\ (i - 1) + 1 = i
            BY <1>1, <1>2, <2>2, <2>4, <2>5, <2>6
        <3>2. Memory'[i - 1] = Memory[i]
            BY <1>5, <3>1
        <3> QED BY <1>7, <1>8, <3>1, <3>2
    <2>7. i = v + 2
        BY <1>1, <1>2, <2>2, <2>6
    <2> QED BY <2>4, <2>7
<1>9. CASE v + 2 < n
    <2>1. ASSUME NEW d \in Passed(loop)', d # Memory[v + 2]
          PROVE  d \in Passed(loop)
        <3>1. \A i \in (v + 1)..N : Memory[i] # d
            BY <1>8, <2>1
        <3> QED BY <1>7, <3>1 DEF Passed, Missed, v, N
    <2> QED BY <1>5, <1>9, <2>1 DEF v, n, N
<1>10. CASE ~(v + 2 < n)
    <2>1. ASSUME NEW d \in Passed(loop)'
          PROVE  d \in Passed(loop)
        <3>1. \A i \in (v + 1)..N : Memory[i] # d
            BY <1>8, <1>10
        <3> QED BY <1>7, <3>1 DEF Passed, Missed, v, N
    <2> QED BY <1>5, <2>1 DEF N
<1> QED BY <1>9, <1>10

\* A turn of a loop keeps the count.
LEMMA VisitCounts ==
    ASSUME WholeInv, LoopsCount, Types', Visit, visited < Len(Memory)
    PROVE  LoopsCount'
<1>1. PICK loop \in Loops :
        /\ Doing(loop)
        /\ \E r \in Effect(loop, client[Memory[visited + 1]]) : Become(Memory[visited + 1], r)
        /\ visited' = visited + 1 /\ UNCHANGED <<todo, file, crashed>>
    BY DEF Visit, httpVars
<1> DEFINE c == Memory[visited + 1]
<1>2. /\ Types /\ visited \in Nat /\ Len(stale) \in Nat /\ Len(clientsList) \in Nat
      /\ Len(Memory) = Len(clientsList) + Len(stale)
    BY MemoryIs DEF WholeInv, IInv, Types
<1>3. PICK s \in Effect(loop, client[c]) : Become(c, s)
    BY <1>1
<1> HIDE DEF c
<1>4. client' = [client EXCEPT ![c] = s]
    BY <1>3 DEF Become
<1>5. /\ Len(stale) <= visited
      /\ IsFiniteSet(Passed(loop)) /\ Cardinality(Passed(loop)) <= Len(stale)
      /\ Passed(loop) # {} => 2 * Cardinality(Passed(loop)) < Len(Memory)
      /\ Cardinality(Passed(loop)) \in Nat
    BY <1>1, FS_CardinalityType DEF LoopsCount
<1> DEFINE P == Passed(loop)
           Q == Passed(loop)'
           Counted == /\ Len(stale') <= visited' /\ visited' <= Len(Memory')
                      /\ IsFiniteSet(Q) /\ Cardinality(Q) <= Len(stale')
                      /\ Q # {} => 2 * Cardinality(Q) < Len(Memory')
<1>6. ASSUME Q \subseteq P, Len(stale') \in {Len(stale), Len(stale) + 1}, Len(Memory') = Len(Memory),
             Len(stale') <= visited'
      PROVE  Counted
    <2>1. IsFiniteSet(Q) /\ Cardinality(Q) <= Cardinality(P)
        BY <1>5, <1>6, FS_Subset
    <2>2. Cardinality(Q) \in Nat
        BY <2>1, FS_CardinalityType
    <2>3. Q # {} => P # {}
        BY <1>6
    <2> HIDE DEF P, Q
    <2>4. visited' <= Len(Memory')
        BY <1>1, <1>2, <1>6
    <2> QED BY <1>2, <1>5, <1>6, <2>1, <2>2, <2>3, <2>4 DEF P
<1>7. CASE client[c].linked /\ ~s.linked
    <2>1. RemoveClient(c)
        BY <1>3, <1>7 DEF Become
    <2>2. c \in Client
        <3>1. visited + 1 \in 1..Len(Memory) /\ Memory \in Seq(Client)
            BY <1>2, MemoryIs
        <3> QED BY <3>1, ElementOfSeq DEF c
    <2>3. CASE Occurs(c) = {}
        <3>1. UNCHANGED <<clientsList, stale>>
            BY <2>1, <2>3 DEF RemoveClient
        <3>2. Q \subseteq P
            <4> SUFFICES ASSUME NEW d \in Q
                         PROVE  d \in P
                OBVIOUS
            <4>1. /\ d \in Client /\ Occurs(d) # {} /\ ~Reached(loop, client[d])'
                  /\ \A i \in (visited + 1 + 1)..Len(Memory) : Memory[i] # d
                BY <1>1, <3>1 DEF Passed, Missed, Occurs, Memory
            <4>2. d # c
                BY <2>3, <4>1
            <4>3. client'[d] = client[d]
                BY <1>2, <1>4, <4>1, <4>2 DEF Types
            <4>4. ~Reached(loop, client[d])
                BY <1>1, <4>1, <4>3 DEF Reached
            <4>5. \A i \in (visited + 1)..Len(Memory) : Memory[i] # d
                <5> TAKE i \in (visited + 1)..Len(Memory)
                <5>1. i = visited + 1 \/ i \in (visited + 1 + 1)..Len(Memory)
                    BY <1>2
                <5> QED BY <4>1, <4>2, <5>1 DEF c
            <4> QED BY <4>1, <4>4, <4>5 DEF Passed, Missed
        <3>3. Len(stale') = Len(stale) /\ Len(Memory') = Len(Memory) /\ Len(stale') <= visited'
            BY <1>1, <1>2, <1>5, <3>1 DEF Memory
        <3> HIDE DEF P, Q
        <3>4. Counted
            BY <1>6, <3>2, <3>3
        <3> QED BY <1>1, <3>4 DEF LoopsCount, Doing, P, Q
    <2>4. CASE Occurs(c) # {}
        <3>1. /\ Len(stale') = Len(stale) + 1 /\ Len(Memory') = Len(Memory)
              /\ \/ Q \subseteq P
                 \/ visited + 2 < Len(clientsList) /\ Q \subseteq P \cup {Memory[visited + 2]}
            BY <1>1, <1>4, <2>1, <2>4, RemovedInOrder DEF c
        <3>2. Len(stale') <= visited'
            BY <1>1, <1>2, <1>5, <3>1
        <3>3. ASSUME Q \subseteq P
              PROVE  Counted
            BY <1>6, <3>1, <3>2, <3>3
        <3>4. ASSUME visited + 2 < Len(clientsList), Q \subseteq P \cup {Memory[visited + 2]}
              PROVE  Counted
            <4>1. /\ IsFiniteSet(P \cup {Memory[visited + 2]})
                  /\ Cardinality(P \cup {Memory[visited + 2]}) <= Cardinality(P) + 1
                  /\ Cardinality(P \cup {Memory[visited + 2]}) \in Nat
                <5>1. /\ IsFiniteSet(P \cup {Memory[visited + 2]})
                      /\ Cardinality(P \cup {Memory[visited + 2]}) =
                            IF Memory[visited + 2] \in P THEN Cardinality(P) ELSE Cardinality(P) + 1
                    BY <1>5, FS_AddElement
                <5> HIDE DEF P
                <5> QED BY <1>5, <5>1 DEF P
            <4>2. IsFiniteSet(Q) /\ Cardinality(Q) <= Cardinality(P \cup {Memory[visited + 2]}) /\ Cardinality(Q) \in Nat
                BY <3>4, <4>1, FS_Subset, FS_CardinalityType
            <4> HIDE DEF P, Q
            <4>3. Cardinality(P) \in Nat /\ Cardinality(P) <= Len(stale)
                BY <1>5 DEF P
            <4>4. Cardinality(Q) <= Len(stale) + 1
                BY <1>2, <4>1, <4>2, <4>3
            <4>5. 2 * Cardinality(Q) < Len(Memory) /\ visited' <= Len(Memory')
                BY <1>1, <1>2, <1>5, <3>1, <3>4, <4>2, <4>4
            <4> QED BY <3>1, <3>2, <4>2, <4>4, <4>5
        <3>5. Counted
            BY <3>1, <3>3, <3>4
        <3> QED BY <1>1, <3>5 DEF LoopsCount, Doing
    <2> QED BY <2>3, <2>4
<1>8. CASE ~(client[c].linked /\ ~s.linked)
    <2>1. UNCHANGED <<clientsList, stale>>
        BY <1>3, <1>8 DEF Become
    <2>2. Q \subseteq P
        BY <1>1, <1>3, <1>4, <1>8, <2>1, StaysInOrder DEF c
    <2>3. Len(stale') = Len(stale) /\ Len(Memory') = Len(Memory) /\ Len(stale') <= visited'
        BY <1>1, <1>2, <1>5, <2>1 DEF Memory
    <2> HIDE DEF P, Q
    <2>4. Counted
        BY <1>6, <2>2, <2>3
    <2> QED BY <1>1, <2>4 DEF LoopsCount, Doing, P, Q
<1> QED BY <1>7, <1>8

(* Every other step leaves no loop running, or one that has not begun.     *)
LEMMA FreshCounts ==
    ASSUME Types', visited' = 0, stale' = <<>>
    PROVE  LoopsCount'
<1>1. ASSUME NEW loop \in Loops
      PROVE  Passed(loop)' = {}
    <2> SUFFICES ASSUME NEW c \in Missed(loop)', \A i \in 1..Len(Memory') : Memory'[i] # c
                 PROVE  FALSE
        BY DEF Passed
    <2>1. PICK i \in 1..Len(clientsList') : clientsList'[i] = c
        BY DEF Missed, Occurs
    <2>2. clientsList' \in Seq(Client) /\ Memory' = clientsList'
        <3>1. clientsList' \in Seq(Client)
            BY DEF Types
        <3> QED BY <3>1, ConcatEmptySeq DEF Memory
    <2> QED BY <2>1, <2>2
<1>2. Len(Memory') \in Nat /\ Len(stale') = 0
    <2>1. clientsList' \in Seq(Client)
        BY DEF Types
    <2>2. Memory' = clientsList'
        BY <2>1, ConcatEmptySeq DEF Memory
    <2> QED BY <2>1, <2>2
<1>3. IsFiniteSet({}) /\ Cardinality({}) = 0
    BY FS_EmptySet
<1>4. Len(stale') <= visited' /\ visited' <= Len(Memory')
    BY <1>2
<1>5. ASSUME NEW loop \in Loops
      PROVE  /\ IsFiniteSet(Passed(loop)')
             /\ Cardinality(Passed(loop)') <= Len(stale')
             /\ Passed(loop)' # {} => 2 * Cardinality(Passed(loop)') < Len(Memory')
    <2>1. Passed(loop)' = {}
        BY <1>1, <1>5
    <2>2. IsFiniteSet(Passed(loop)') /\ Cardinality(Passed(loop)') = 0
        BY <1>3, <2>1
    <2> QED BY <1>2, <2>1, <2>2
<1> QED BY <1>4, <1>5 DEF LoopsCount

\* Every step keeps the count.
LEMMA NextCounts ==
    ASSUME WholeInv, LoopsCount, Types', [Next]_vars
    PROVE  LoopsCount'
<1>1. CASE Visit
    <2>1. CASE visited < Len(Memory)
        BY <1>1, <2>1, VisitCounts
    <2>2. CASE ~(visited < Len(Memory))
        BY <1>1, <2>2, FreshCounts DEF Visit
    <2> QED BY <2>1, <2>2
<1>2. CASE Clear \/ AssertNoClient \/ AssertTemp \/ Count \/ DisconnectBackend
    <2>1. todo[1] \notin Loops /\ UNCHANGED <<visited, stale>>
        BY <1>2 DEF Clear, AssertNoClient, AssertTemp, Count, DisconnectBackend, Doing, Loops, listVars
    <2> QED BY <2>1, FreshCounts DEF LoopsCount
<1>3. CASE Answer \/ Connection \/ Fails \/ HttpTimeout \/ HttpCheck
    <2>1. todo = <<>> /\ UNCHANGED <<visited, stale>>
        BY <1>3 DEF Answer, StatusOk, HeaderEnd, NoTempFile, HeaderFails, StatusOther, StatusCut, Data, HeaderRead, Receiving,
           Connection, Served, ClosedUnanswered, ClosedAnswered, NotReplaced, BackendDeleted, Fails, HttpTimeout, HttpCheck,
           Idle, listVars
    <2> QED BY <2>1, FreshCounts DEF LoopsCount
<1>4. CASE Request
    <2>1. todo = <<>> /\ UNCHANGED <<visited, stale>>
        BY <1>4 DEF Request, Join, ReadCached, Start, Fresh, Idle, listVars
    <2> QED BY <2>1, FreshCounts DEF LoopsCount
<1>5. CASE ClientEvent
    <2>1. todo = <<>> /\ UNCHANGED visited
        BY <1>5 DEF ClientEvent, Gone, ReadyToWrite, Delete, Idle, listVars
    <2>2. visited = 0 /\ stale = <<>>
        BY <2>1 DEF LoopsCount
    <2>3. stale' = <<>>
        BY <1>5, <2>1, <2>2 DEF ClientEvent, Gone, ReadyToWrite, Delete, Become, RemoveClient, listVars
    <2> QED BY <2>1, <2>2, <2>3, FreshCounts
<1>6. CASE Restart
    BY <1>6, FreshCounts DEF Restart
<1>7. CASE UNCHANGED vars
    <2>1. UNCHANGED <<client, clientsList, stale, visited, todo, file, crashed>>
        BY <1>7 DEF vars, listVars, httpVars
    <2>2. \A loop \in Loops : Passed(loop)' = Passed(loop)
        BY <2>1 DEF Passed, Missed, Occurs, Reached, Memory
    <2>3. Memory' = Memory
        BY <2>1 DEF Memory
    <2>4. \A loop \in Loops : Doing(loop)' = Doing(loop)
        BY <2>1 DEF Doing
    <2> QED BY <2>1, <2>2, <2>3, <2>4 DEF LoopsCount
<1> QED BY <1>1, <1>2, <1>3, <1>4, <1>5, <1>6, <1>7 DEF Next, Handler

(* However many clients a download has: when a loop over clientsList has   *)
(* run, the clients of it that it did not start, wake, tell or end are at  *)
(* most as many as those it lost on the way, and fewer than half.          *)
THEOREM MissesFew == Spec => []LoopsMissFew
<1>1. Init => LoopsCount
    <2> SUFFICES ASSUME Init
                 PROVE  LoopsCount
        OBVIOUS
    <2>1. todo = <<>> /\ visited = 0 /\ stale = <<>>
        BY DEF Init
    <2> QED BY <2>1 DEF LoopsCount, Doing
<1>2. WholeInv /\ LoopsCount /\ WholeInv' /\ [Next]_vars => LoopsCount'
    BY NextCounts DEF WholeInv, IInv
<1>3. WholeInv /\ LoopsCount => LoopsMissFew
    <2> SUFFICES ASSUME WholeInv, LoopsCount, NEW loop \in Loops,
                        Doing(loop), visited = Len(Memory), Missed(loop) # {}
                 PROVE  /\ Cardinality(Missed(loop)) <= Len(stale)
                        /\ 2 * Cardinality(Missed(loop)) < Len(Memory)
        BY DEF LoopsMissFew
    <2>1. visited \in Nat
        BY DEF WholeInv, IInv, Types
    <2>2. \A i \in (visited + 1)..Len(Memory) : FALSE
        BY <2>1
    <2>3. Passed(loop) = Missed(loop)
        BY <2>2 DEF Passed
    <2> QED BY <2>3 DEF LoopsCount
<1> QED BY <1>1, <1>2, <1>3, WholeInvariance, PTL DEF Spec
=============================================================================
