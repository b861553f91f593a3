------------------------------ MODULE Exchange ------------------------------
(***************************************************************************)
(* One connection to an origin and the downloads that use it one after     *)
(* another: the request written by Http::sendRequest through               *)
(* Backend::socketWrite, the answer read by Http::readyToRead through      *)
(* Backend::socketRead in pieces the network chooses, and what one         *)
(* download leaves on the connection for the next.                         *)
(*                                                                         *)
(* The origin answers every request it has got whole.  Its answer is on    *)
(* the wire at once; a read takes as much of the wire as has arrived.  The *)
(* fields of the Http of a download are kept after its end, until the next *)
(* download starts.                                                        *)
(***************************************************************************)
EXTENDS Answer, SequencesExt

CONSTANTS
    Form,          \* the answers of the origin: [code, chunked, size, first]
    MaxDownloads,  \* bound: downloads
    MaxHarmed      \* bound: reads of a download that met what it does not expect

ASSUME ExchangeAssumption ==
    /\ MaxDownloads \in Nat /\ MaxHarmed \in Nat
    /\ \A f \in Form :
        /\ f.code \in Nat \ {0} /\ f.chunked \in BOOLEAN
        /\ f.size \in Nat /\ f.first \in 0..f.size

VARIABLES
    turn,            \* the number of the download
    form,            \* its answer, once its request is heard
    how,             \* "running", else how it ended
    requestSended,   \* of its Http, as the eight below
    code, length, contentwritten,
    content,         \* parsing is Parsing_Content
    headerBuff, chunkLength, chunkHeader,
    file,            \* the .tmp file behind its header
    offset,          \* what the running readyToRead has put in front of its reads
    reading,         \* readyToRead runs
    bufferSocket,    \* Backend::bufferSocket
    heard,           \* what the origin has got on this connection
    wire,            \* what it has sent that is not read
    harmed,          \* 0 until the download meets something the parser does not
                     \* expect, then one more with every read
    crashed          \* chunkHeader was to be continued

parseVars == <<code, length, contentwritten, content, headerBuff, chunkLength, chunkHeader, file>>
callVars == <<offset, reading>>
socketVars == <<bufferSocket, heard, wire>>
vars == <<turn, form, how, requestSended, parseVars, callVars, socketVars, harmed, crashed>>

NoForm == [code |-> 0, chunked |-> FALSE, size |-> 0, first |-> 0]

\* Mutant: the object of an earlier download is used again.
NewParseKept ==
    /\ code' = 0 /\ length' = NoLength /\ contentwritten' = 0 /\ content' = FALSE
    /\ file' = <<>>
    /\ UNCHANGED <<headerBuff, chunkLength, chunkHeader>>

\* The fields set by the constructor of Http.
NewParse ==
    /\ code' = 0 /\ length' = NoLength /\ contentwritten' = 0 /\ content' = FALSE
    /\ headerBuff' = <<>> /\ chunkLength' = NoChunk /\ chunkHeader' = <<>> /\ file' = <<>>

Init ==
    /\ turn = 0 /\ form = NoForm /\ how = "whole" /\ requestSended = FALSE
    /\ code = 0 /\ length = NoLength /\ contentwritten = 0 /\ content = FALSE
    /\ headerBuff = <<>> /\ chunkLength = NoChunk /\ chunkHeader = <<>> /\ file = <<>>
    /\ offset = <<>> /\ reading = FALSE
    /\ bufferSocket = <<>> /\ heard = <<>> /\ wire = <<>>
    /\ harmed = 0 /\ crashed = FALSE

Running == how = "running" /\ ~crashed

\* The connection is given to a download: tryConnectInternalList,
\* downloadFinished.
Start ==
    /\ how # "running" /\ turn < MaxDownloads
    /\ turn' = turn + 1 /\ form' = NoForm /\ how' = "running" /\ requestSended' = FALSE
    /\ NewParse
    /\ offset' = <<>>
    /\ harmed' = IF wire = <<>> THEN 0 ELSE 1
    /\ UNCHANGED <<reading, socketVars, crashed>>

-----------------------------------------------------------------------------
(* The request.                                                            *)

Request(r) == <<[of |-> r, part |-> 1], [of |-> r, part |-> 2]>>

\* Http::readyToWrite, sendRequest: requestSended is set whatever the write
\* does.
Sending ==
    /\ Running /\ ~reading /\ ~requestSended
    /\ requestSended' = TRUE
    /\ UNCHANGED <<turn, how, parseVars, callVars, harmed, crashed>>

\* All of it is written.  When the connection was changed in the middle of
\* an answer the origin sends that again.
SendWhole ==
    /\ Sending /\ bufferSocket = <<>>
    /\ heard' = heard \o Request(turn)
    /\ \E f \in IF form = NoForm THEN Form ELSE {form} :
        form' = f /\ wire' = wire \o Text(turn, f)
    /\ UNCHANGED bufferSocket

\* Mutant: what is left of a request is not kept.
ForgetRest == UNCHANGED bufferSocket

\* bufferSocket+=, of what ::write did not take.  Nothing calls
\* Backend::readyToWrite to send it.
KeepRest == bufferSocket' = <<Request(turn)[2]>>

SendPart ==
    /\ Sending /\ bufferSocket = <<>>
    /\ heard' = Append(heard, Request(turn)[1])
    /\ KeepRest
    /\ UNCHANGED <<form, wire>>

\* Something waits in bufferSocket already.
SendBehind ==
    /\ Sending /\ bufferSocket # <<>>
    /\ bufferSocket' = bufferSocket \o Request(turn)
    /\ UNCHANGED <<form, heard, wire>>

\* EAGAIN, SSL_ERROR_WANT_WRITE: false, and nobody tries again.
SendFails == Sending /\ UNCHANGED <<form, socketVars>>

Refusal == [code |-> 400, chunked |-> FALSE, size |-> 1, first |-> 0]

\* The origin tires of half a request and says so.
Impatient ==
    /\ Running /\ ~reading /\ form = NoForm /\ heard # <<>> /\ Last(heard) = Request(turn)[1]
    /\ form' = Refusal /\ wire' = wire \o Text(turn, Refusal)
    /\ UNCHANGED <<turn, how, requestSended, parseVars, callVars, bufferSocket, heard, harmed, crashed>>

-----------------------------------------------------------------------------
(* The answer.                                                             *)

\* EPOLLIN: readyToRead puts headerBuff in front of what it will read.
ReadyToRead ==
    /\ Running /\ ~reading /\ wire # <<>>
    /\ reading' = TRUE /\ offset' = headerBuff
    /\ UNCHANGED <<turn, form, how, requestSended, parseVars, socketVars, harmed, crashed>>

\* socketRead finds nothing: what is left has not arrived.
SocketEmpty ==
    /\ Running /\ reading
    /\ reading' = FALSE
    /\ UNCHANGED <<turn, form, how, requestSended, parseVars, offset, socketVars, harmed, crashed>>

\* k tokens have arrived.  What is parsed are the first k of the buffer,
\* which starts with offset.
Read(k) ==
    /\ Running /\ reading /\ harmed <= MaxHarmed
    /\ wire' = SubSeq(wire, k + 1, Len(wire))
    /\ harmed' = IF harmed > 0 \/ (wire' # <<>> /\ wire'[1].joined) THEN harmed + 1 ELSE 0
    /\ UNCHANGED <<turn, form, requestSended, offset, bufferSocket, heard>>

Buffer(k) == SubSeq(offset \o SubSeq(wire, 1, k), 1, k)

\* disconnectFrontend, disconnectBackend: the connection is free.
End(result) == how' = result /\ reading' = FALSE

\* Mutants: > for >=, and one short.
EnoughLate(n, size) == n > size
EnoughEarly(n, size) == n + 1 >= size

\* contentsize<=contentwritten
Enough(n, size) == n >= size

\* Http::write, size is contentsize.
Write(s, size) ==
    LET w == Chunks(s, chunkLength, chunkHeader)
        n == contentwritten + Len(s) IN
    IF size # NoLength
    THEN /\ file' = file \o s /\ contentwritten' = n
         /\ IF Enough(n, size) THEN End("whole") ELSE UNCHANGED <<how, reading>>
         /\ UNCHANGED <<chunkLength, chunkHeader, crashed>>
    ELSE /\ file' = file \o w.out
         /\ chunkLength' = w.length /\ chunkHeader' = w.kept
         /\ IF w.what = "end" THEN End("whole") ELSE UNCHANGED <<how, reading>>
         /\ crashed' = (w.what = "abort")
         /\ UNCHANGED contentwritten

ReadContent(k) ==
    /\ Read(k) /\ content
    /\ Write(Buffer(k), length)
    /\ UNCHANGED <<code, length, content, headerBuff>>

\* HttpReturnCode, flushRead: disconnectBackend comes first, then socketRead
\* has no connection to empty.
ReadOtherCode(k) ==
    /\ Read(k) /\ ~content /\ code = 0 /\ HttpCode(Buffer(k)) # 200
    /\ code' = HttpCode(Buffer(k))
    /\ End("error")
    /\ UNCHANGED <<length, contentwritten, content, headerBuff, chunkLength, chunkHeader, file, crashed>>

\* The header, and what comes with it of the body; a read that ends with the
\* header ends the call.
ReadHeader(k) ==
    LET s == Buffer(k)
        h == Header(s, HeaderStart(s, code))
        size == IF h.length = NoLength THEN length ELSE h.length IN
    /\ Read(k) /\ ~content /\ (code = 200 \/ HttpCode(s) = 200)
    /\ code' = 200
    /\ length' = size
    /\ headerBuff' = IF headerBuff = <<>> THEN h.kept ELSE headerBuff
    /\ content' = (h.body > 0)
    /\ IF h.body > 0 /\ h.body <= k
       THEN Write(SubSeq(s, h.body, k), size)
       ELSE /\ reading' = (h.body = 0)
            /\ UNCHANGED <<how, contentwritten, chunkLength, chunkHeader, file, crashed>>

-----------------------------------------------------------------------------
(* The connection ends; the next one is new.                               *)

NewConnection == bufferSocket' = <<>> /\ heard' = <<>> /\ wire' = <<>>

\* Http::detectTimeout, Backend::detectTimeout
Timeout ==
    /\ Running /\ ~reading
    /\ End("timeout")
    /\ NewConnection
    /\ UNCHANGED <<turn, form, requestSended, parseVars, offset, harmed, crashed>>

\* remoteSocketClosed while nobody uses the connection,
ClosedIdle ==
    /\ how # "running" /\ ~crashed
    /\ NewConnection
    /\ UNCHANGED <<turn, form, how, requestSended, parseVars, callVars, harmed, crashed>>

\* or in the middle of a download: it gets another connection and asks again.
\* resetRequestSended leaves what is parsed once the status is known.
ClosedBusy ==
    /\ Running /\ ~reading /\ requestSended
    /\ requestSended' = FALSE
    /\ harmed' = IF code = 0 THEN 0 ELSE Max({harmed, 1})
    /\ form' = IF code = 0 THEN NoForm ELSE form
    /\ NewConnection
    /\ UNCHANGED <<turn, how, parseVars, callVars, crashed>>

\* After the assertion systemd restarts the service.
Restart ==
    /\ crashed
    /\ crashed' = FALSE /\ End("crash")
    /\ NewConnection
    /\ UNCHANGED <<turn, form, requestSended, parseVars, offset, harmed>>

-----------------------------------------------------------------------------
Next ==
    \/ Start
    \/ SendWhole \/ SendPart \/ SendBehind \/ SendFails \/ Impatient
    \/ ReadyToRead \/ SocketEmpty
    \/ \E k \in 1..Len(wire) : ReadContent(k) \/ ReadOtherCode(k) \/ ReadHeader(k)
    \/ Timeout \/ ClosedIdle \/ ClosedBusy \/ Restart

Spec == Init /\ [][Next]_vars

-----------------------------------------------------------------------------
(* The values each variable takes.                                         *)
TypeOK ==
    /\ turn \in 0..MaxDownloads
    /\ form \in Form \cup {NoForm, Refusal}
    /\ how \in {"running", "whole", "error", "timeout", "crash"}
    /\ length \in Nat \cup {NoLength} /\ contentwritten \in Nat
    /\ chunkLength \in Nat \cup {NoChunk}
    /\ harmed \in 0..(MaxHarmed + 1)
    /\ {requestSended, content, reading, crashed} \subseteq BOOLEAN
    /\ \A t \in Range(wire) \cup Range(file) \cup Range(headerBuff) \cup Range(chunkHeader) \cup Range(offset) :
        t.of \in 1..turn
    /\ \A t \in Range(heard) \cup Range(bufferSocket) : t.of \in 1..turn /\ t.part \in {1, 2}

(* However the network cuts an answer, outside the places marked joined,   *)
(* what the parser makes of it is right: the file of a download that ends  *)
(* well is the body of the answer to its own request, each byte once and   *)
(* in order, Content-Length or chunked, and only an answer that is no 200  *)
(* is an error.                                                            *)
AnswerUnderstood ==
    harmed = 0 /\ how \in {"whole", "error"} /\ turn > 0 =>
        /\ how = "whole" <=> form.code = 200
        /\ how = "whole" => IsBody(file, turn, form)

(* A download does not wait for more once it has read all of its answer.   *)
(* A body of no bytes is not ended: nobody looks at contentsize then.      *)
NothingToWaitFor ==
    Running /\ harmed = 0 /\ form.size > 0 => wire # <<>> \/ ~requestSended

(* The only text a 200 answer leaves on its connection, for the download   *)
(* that gets it next, is the end of its last chunk.                        *)
OnlyLastLineLeft ==
    how = "whole" /\ harmed = 0 => Len(wire) <= 2 /\ \A i \in 1..Len(wire) : wire[i].kind \in Newline

(* What the origin hears on one connection are requests one behind the     *)
(* other, none with another inside: a request that was written in part     *)
(* keeps those of the later downloads away.                                *)
WholeRequests ==
    \A i \in 1..Len(heard) :
        heard[i].part = 1 => i = Len(heard) \/ heard[i + 1] = [heard[i] EXCEPT !.part = 2]

(* The assertion of Http::write needs a cut that harms.                    *)
AbortNeedsCut == crashed => harmed > 0

-----------------------------------------------------------------------------
(* What comments of the program say, and the program does not do.          *)

(* Http.cpp:2047: what remains of an answer needs to be consumed before    *)
(* the connection can serve again; the file of a download has nothing of   *)
(* an answer to another request.                                           *)
OwnAnswer == \A i \in 1..Len(file) : file[i].of = turn

(* Http.cpp:349 "load into buffer the previous content": a header that     *)
(* arrives in two reads is understood as in one.                           *)
HeaderContinued == turn = 1 /\ content => length = IF form.chunked THEN NoLength ELSE form.size
=============================================================================
