------------------------------ MODULE Request ------------------------------
(***************************************************************************)
(* What a Client makes of the FastCGI request of the web server: the       *)
(* records read by Client::readyToRead in the pieces they arrive in, and   *)
(* the origin and scheme it finds in them, up to the call of loadUrl.      *)
(*                                                                         *)
(* A record is two halves: what a read cuts inside of a record is lost     *)
(* wherever the cut is.  A name is its size and the three parts of it that *)
(* readyToRead looks for: front, tail (cdn, cdn1) and suffix               *)
(* (.confiared.com, .bolivia-online.com).                                  *)
(***************************************************************************)
EXTENDS Integers, Sequences

CONSTANTS
    Conversation,   \* what a web server may send: [records, host, uri, scheme]
    ReadSize,       \* the size of buff, in halves of records
    Width           \* size_t has so many bits

Parameter == {"host", "uri", "scheme", "loop"}
RecordType == [kind : {"begin", "params", "stdin"}, id : Nat, version : Nat, names : SUBSET Parameter]
HostType ==
    [size : 0..(2^Width - 1), front : {"none", "hex", "word"}, tail : {"none", "cdn", "cdn1"},
     suffix : {"none", "confiared", "bolivia"}]

ASSUME RequestAssumption ==
    /\ ReadSize \in Nat \ {0}
    /\ 2^Width \in Nat /\ 2^Width > 19
    /\ \A c \in Conversation :
        /\ c.records \in Seq(RecordType) /\ c.host \in HostType
        /\ c.uri \in {"origin", "short", "file", "robots"} /\ c.scheme \in BOOLEAN

VARIABLES
    asked,        \* the conversation
    arrived,      \* halves of its records that are in the socket
    consumed,     \* halves that were read
    accepted,     \* Server::parseEvent has made the Client
    edge,         \* epoll has an EPOLLIN to report: EPOLLET
    fastcgiid,
    fullyParsed,
    answer,       \* what became of it, "none" while it is read; fd is closed
                  \* unless it is "none" or "load"
    load          \* the origin and scheme given to loadUrl

vars == <<asked, arrived, consumed, accepted, edge, fastcgiid, fullyParsed, answer, load>>

NoId == -1
NoLoad == [host |-> "none", https |-> FALSE]

Init ==
    /\ asked \in Conversation
    /\ arrived = 0 /\ consumed = 0 /\ accepted = FALSE /\ edge = FALSE
    /\ fastcgiid = NoId /\ fullyParsed = FALSE
    /\ answer = "none" /\ load = NoLoad

-----------------------------------------------------------------------------
(* The origin.                                                             *)

\* std::string::npos, and subtraction of size_t.
Npos == 2^Width - 1
Minus(a, b) == (a - b) % 2^Width

SuffixSize == [confiared |-> 14, bolivia |-> 19, none |-> 0]
TailSize == [cdn |-> 3, cdn1 |-> 4, none |-> 0]

\* A name is as long as its parts; in front of a tail is a point and what is
\* before that.
ASSUME NamesAssumption ==
    \A c \in Conversation :
        LET h == c.host
            parts == SuffixSize[h.suffix] + TailSize[h.tail] IN
        h.suffix # "none" =>
            /\ h.size >= parts
            /\ h.front = "none" => h.size = parts
            /\ h.front # "none" /\ h.tail # "none" => h.size >= parts + 2

\* Mutant: a suffix that is absent is taken for one at the end.
RFindAnywhere(part, wanted, size, length) == Minus(size, length)

\* rfind in size characters of a part of that length that is nowhere else.
RFind(part, wanted, size, length) == IF part = wanted THEN size - length ELSE Npos

\* uri.find("/",1): the first part of the path is the origin if it has at least
\* two characters.
FromUri(uri) ==
    CASE uri = "origin" -> "uri" [] uri = "short" -> "self" [] OTHER -> "usage"

\* hexaToBinary of the first n characters.
Decode(front, n) == IF front = "hex" /\ n % 2 = 0 THEN "decoded" ELSE "empty"

\* The label, of n characters, ends in the tail at markb, and a point and the
\* digits are in front of that.
ByLabel(h, uri, n, tail) ==
    LET markb == Minus(n, TailSize[tail]) IN
    IF markb > 1 THEN Decode(h.front, IF markb - 1 > n THEN n ELSE markb - 1)
    ELSE IF markb = 0 THEN FromUri(uri) ELSE "self"

Ends(h, n, tail) == RFind(h.tail, tail, n, TailSize[tail]) = Minus(n, TailSize[tail])

Origin(h, uri) ==
    LET confiared == RFind(h.suffix, "confiared", h.size, 14) = Minus(h.size, 14)
        bolivia == RFind(h.suffix, "bolivia", h.size, 19) = Minus(h.size, 19)
        mark == IF confiared THEN Minus(h.size, 14) ELSE Minus(h.size, 19)
        n == IF mark > h.size THEN h.size ELSE mark IN
    CASE ~confiared /\ ~bolivia -> FromUri(uri)
      [] (confiared \/ bolivia) /\ Ends(h, n, "cdn") -> ByLabel(h, uri, n, "cdn")
      [] (confiared \/ bolivia) /\ ~Ends(h, n, "cdn") /\ Ends(h, n, "cdn1") -> ByLabel(h, uri, n, "cdn1")
      [] OTHER -> "self"

Secure(h, scheme) == scheme \/ RFind(h.suffix, "bolivia", h.size, 19) = Minus(h.size, 19)

-----------------------------------------------------------------------------
(* The records.                                                            *)

NoHost == [size |-> 0, front |-> "none", tail |-> "none", suffix |-> "none"]
Fresh == [host |-> NoHost, uri |-> "empty", scheme |-> FALSE]

\* FCGI_PARAMS: those of the names the record has.
Params(s, r) ==
    IF "loop" \in r.names THEN [s EXCEPT !.stop = "loop"]
    ELSE [s EXCEPT !.got = [host |-> IF "host" \in r.names THEN asked.host ELSE @.host,
                            uri |-> IF "uri" \in r.names THEN asked.uri ELSE @.uri,
                            scheme |-> @.scheme \/ ("scheme" \in r.names /\ asked.scheme)]]

\* Mutant: any record may follow any other.
RecordOfAnyKind(s, r) ==
    IF s.stop # "none" THEN s
    ELSE CASE r.kind = "begin" -> [s EXCEPT !.id = r.id]
           [] r.kind = "params" -> Params(s, r)
           [] r.kind = "stdin" -> [s EXCEPT !.parsed = TRUE]

\* Mutant: the kind of the record is kept for its id.
RecordWrongVar(s, r) ==
    IF s.stop # "none" THEN s
    ELSE IF r.cut THEN [s EXCEPT !.stop = "closed"]
    ELSE IF s.id = NoId /\ r.kind = "begin" THEN [s EXCEPT !.id = 1]
    ELSE [s EXCEPT !.stop = "closed"]

\* Mutant: a record that is cut is waited for, but what was read of it is lost.
RecordCutWaits(s, r) ==
    IF s.stop # "none" \/ r.cut THEN s
    ELSE IF r.kind = "begin" THEN [s EXCEPT !.id = r.id]
    ELSE IF r.kind = "params" THEN Params(s, r)
    ELSE [s EXCEPT !.parsed = TRUE]

\* The parameter a request of this program has: it is answered when it is met,
\* before anything is known of the rest of its record.
Looped(s, r) == r.kind = "params" /\ r.id = s.id /\ "loop" \in r.names

\* One turn of the loop; a record that is cut ends it.
Record(s, r) ==
    IF s.stop # "none" THEN s
    ELSE IF (r.cut /\ ~Looped(s, r)) \/ r.version # 1 THEN [s EXCEPT !.stop = "closed"]
    ELSE IF s.id = NoId
         THEN IF r.kind = "begin" THEN [s EXCEPT !.id = r.id] ELSE [s EXCEPT !.stop = "closed"]
    ELSE IF r.kind = "begin" \/ r.id # s.id THEN [s EXCEPT !.stop = "closed"]
    ELSE IF r.kind = "params" THEN Params(s, r)
    ELSE [s EXCEPT !.parsed = TRUE]

\* The records of a read of the halves from+1..to: it starts at a whole one.
\* Of the parameters of one that is cut only the anti-loop one matters, when it
\* is in front of the cut (seen).
Records(from, to, seen) ==
    [i \in 1..((to - from + 1) \div 2) |->
        LET r == asked.records[from \div 2 + i]
            cut == from + 2 * i > to IN
        [kind |-> r.kind, id |-> r.id, version |-> r.version,
         names |-> IF cut /\ ~seen THEN {} ELSE r.names, cut |-> cut]]

\* The loop over the records of a read.
Parse(s, rs) ==
    LET after[i \in 0..Len(rs)] == IF i = 0 THEN s ELSE Record(after[i - 1], rs[i]) IN
    after[Len(rs)]

\* What a request that was read to its end becomes: the files served here, the
\* usage, or loadUrl.
Outcome(got) ==
    LET origin == Origin(got.host, got.uri) IN
    IF got.uri = "robots" THEN "robots"
    ELSE IF origin = "usage" \/ origin = "empty" \/ (origin = "self" /\ got.host.size = 0) THEN "usage"
    ELSE "load"

-----------------------------------------------------------------------------
(* The steps.                                                              *)

\* Mutant: what is left in the socket is parsed for an answered request too.
NeverIgnored == FALSE

Ignored == fullyParsed

\* Client::readyToRead: nothing once fullyParsed; else one read.  host, uri and
\* https are cleared by every read, fastcgiid is not.
ReadyToRead(edgeAfter, seen) ==
    LET to == IF arrived - consumed > ReadSize THEN consumed + ReadSize ELSE arrived
        s == Parse([id |-> fastcgiid, got |-> Fresh, parsed |-> FALSE, stop |-> "none"],
                   Records(consumed, to, seen)) IN
    /\ edge' = edgeAfter
    /\ IF Ignored \/ to = consumed
       THEN UNCHANGED <<consumed, fastcgiid, fullyParsed, answer, load>>
       ELSE /\ consumed' = to
            /\ fastcgiid' = s.id
            /\ fullyParsed' = s.parsed
            /\ IF s.stop # "none" THEN answer' = s.stop /\ load' = load
               ELSE IF ~s.parsed THEN UNCHANGED <<answer, load>>
               ELSE /\ answer' = Outcome(s.got)
                    /\ load' = IF Outcome(s.got) # "load" THEN load
                               ELSE [host |-> Origin(s.got.host, s.got.uri),
                                     https |-> Secure(s.got.host, s.got.scheme)]

\* The web server's bytes come in; epoll reports them unless fd is closed.
Arrive(n) ==
    /\ n \in 1..(2 * Len(asked.records) - arrived)
    /\ arrived' = arrived + n
    /\ edge' = (accepted /\ answer \in {"none", "load"})
    /\ UNCHANGED <<asked, consumed, accepted, fastcgiid, fullyParsed, answer, load>>

\* Server::parseEvent: the Client is added to epoll, which reports the new
\* socket once, and read at once, which waits for the first bytes (the
\* descriptor of accept() blocks); it is deleted if it is no more valid.
Accept ==
    /\ ~accepted /\ accepted' = TRUE /\ arrived > 0
    /\ \E seen \in BOOLEAN : ReadyToRead(TRUE, seen)
    /\ UNCHANGED <<asked, arrived>>

\* Client::parseEvent; EPOLLIN is set when there is something to read.
Event ==
    /\ accepted /\ edge
    /\ IF answer \in {"none", "load"} THEN \E seen \in BOOLEAN : ReadyToRead(FALSE, seen)
       ELSE edge' = FALSE /\ UNCHANGED <<consumed, fastcgiid, fullyParsed, answer, load>>
    /\ UNCHANGED <<asked, arrived, accepted>>

\* The web server has nothing more to send and the Client nothing to read.
Quiet == accepted /\ ~edge /\ arrived = 2 * Len(asked.records)
Done == Quiet /\ UNCHANGED vars

Next == (\E n \in 1..(2 * Len(asked.records)) : Arrive(n)) \/ Accept \/ Event \/ Done

Spec == Init /\ [][Next]_vars

-----------------------------------------------------------------------------
(* The properties.                                                         *)

\* The fields of a Client and what it has read of its socket.
TypeOK ==
    /\ consumed <= arrived /\ arrived <= 2 * Len(asked.records)
    /\ fastcgiid \in {NoId} \cup {asked.records[i].id : i \in DOMAIN asked.records}
    /\ answer \in {"none", "closed", "loop", "robots", "usage", "load"}
    /\ (answer = "load") = (load # NoLoad)
    /\ answer \in {"robots", "usage", "load"} => fullyParsed

\* What a name and a path mean: the origin is in the digits of the label, in
\* the path, or the name itself.
Meaning(h, uri) ==
    CASE h.suffix = "none" \/ (h.tail # "none" /\ h.front = "none") -> FromUri(uri)
      [] h.suffix # "none" /\ h.tail # "none" /\ h.front # "none" ->
            Decode(h.front, h.size - SuffixSize[h.suffix] - TailSize[h.tail] - 1)
      [] OTHER -> "self"

\* The names with which a size of the code is one less than zero, so that a
\* part that is absent (npos) is found where it is looked for.
Wraps(h) ==
    \/ h.size \in {13, 18}
    \/ h.suffix # "none" /\ h.tail = "none" /\ h.size - SuffixSize[h.suffix] \in {2, 3}

\* However the request is cut and whatever else the web server sends, what is
\* loaded is the origin and the scheme of the parameters of the request, for
\* every name that does not wrap: Client.cpp:411-519.
ServedAsAsked ==
    answer = "load" /\ ~Wraps(asked.host) =>
        load = [host |-> Meaning(asked.host, asked.uri),
                https |-> asked.scheme \/ asked.host.suffix = "bolivia"]

\* A connection whose records are not those of one request is not answered:
\* the checks of the version, the kind and the id, Client.cpp:189-235.
OnlyOneRequest ==
    answer \in {"robots", "usage", "load"} =>
        LET read == SubSeq(asked.records, 1, consumed \div 2) IN
        /\ read[1].kind = "begin"
        /\ \A i \in 2..Len(read) : read[i].kind # "begin" /\ read[i].id = read[1].id
        /\ \E i \in 2..Len(read) : read[i].kind = "stdin"

\* A request that fits one read is answered, or its connection closed, when
\* all of it has arrived, however it was cut: no EPOLLIN is missed,
\* Client.cpp:159-176 and Server.cpp:230-240.
NotForgotten ==
    Quiet /\ 2 * Len(asked.records) <= ReadSize => answer # "none"

\* A request is answered once: the records that follow (the end of a POST)
\* change nothing, Client.cpp:164.
AnsweredOnce == [][answer # "none" => answer' = answer /\ load' = load]_vars

\* "CDN bad usage" is the answer to a request that names no origin,
\* Client.cpp:461 and 539.
UsageIsUsage ==
    answer = "usage" => Meaning(asked.host, asked.uri) \in {"usage", "empty"} \/ Wraps(asked.host)
=============================================================================
