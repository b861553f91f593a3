----------------------------- MODULE CacheFile -----------------------------
(***************************************************************************)
(* The cache file of one URL over days: what Client::loadUrl and           *)
(* Client::dnsRight decide from its times and ETags, what a download       *)
(* stores or confirms, and the copies the browsers keep.                   *)
(*                                                                         *)
(* A unit of time is hours, and a time is kept as its age, up to that at   *)
(* which a file is stale.  A download ends within a unit (30 seconds       *)
(* without a byte end it, Http::detectTimeout), the wait for the name may  *)
(* not.                                                                    *)
(* Downloads end whole or without a byte: Delivery is about the others.    *)
(***************************************************************************)
EXTENDS Integers, FiniteSets

CONSTANTS
    Client,      \* browsers; each has one request at a time
    Version,     \* contents of the URL at the origin
    Tag,         \* the ETag the origin sends with a version: [name, size]
    Random       \* the frontend ETags

\* No ETag; and what is read where zeros were left in the place of one.
NoTag == [name |-> "", size |-> 0]
Zeros == "zeros"

ASSUME CacheFileAssumption ==
    /\ Cardinality(Random) >= Cardinality(Client) + 3 /\ "none" \notin Random
    /\ \A v \in Version : Tag[v].size \in Nat /\ Tag[v].name # Zeros /\ (Tag[v].size = 0 => Tag[v] = NoTag)

VARIABLES
    origin,      \* the version the origin has now
    gone,        \* the time since a version was the one of the origin
    file,        \* the cache file
    tempCache,   \* the .tmp file of the download
    http,        \* the download: the ETag it sent and whether it holds the file
    status,      \* of the Client of a browser: none, dns or http
    copy,        \* what a browser has kept: version and frontend ETag
    last         \* the last answer

originVars == <<origin, gone>>
vars == <<originVars, file, tempCache, http, status, copy, last>>

\* A file that is not there, a browser without a copy, no download.
NoFile == [version |-> 0, age |-> 0, frontend |-> "none", backend |-> NoTag]
NoCopy == [version |-> 0, frontend |-> "none"]
NoHttp == [running |-> FALSE, etag |-> NoTag, finalCache |-> FALSE]

\* What is told to a client: a body, that its copy is the same, an error; and
\* for how long the version has been gone.
Answer(kind, v) == [kind |-> kind, version |-> v, age |-> IF kind = "error" THEN 0 ELSE gone[v]]
NoAnswer == [kind |-> "none", version |-> 0, age |-> 0]

\* Cache::http200Time, in units of the clock.
TimeToCache == 2

Init ==
    /\ origin \in Version
    /\ gone = [v \in Version |-> IF v = origin THEN 0 ELSE TimeToCache]
    /\ file = NoFile /\ tempCache = NoFile /\ http = NoHttp
    /\ status = [c \in Client |-> "none"] /\ copy = [c \in Client |-> NoCopy]
    /\ last = NoAnswer

-----------------------------------------------------------------------------
(* The format.                                                             *)

\* Mutant: a file is fresh at the end of its time.
FreshAtEnd(f) == f # NoFile /\ f.age <= TimeToCache

Fresh(f) == f # NoFile /\ f.age < TimeToCache

\* Mutant: nothing is left out.
StoredAnyway(etag) == etag

\* Cache::set_ETagBackend, read back: the size is a signed char when it is
\* asked whether the bytes are to be written.
Stored(etag) ==
    CASE etag.size > 255 -> NoTag
      [] etag.size \in 128..255 -> [name |-> Zeros, size |-> etag.size]
      [] OTHER -> etag

\* Mutant: the frontend ETag of the file is kept.
NewFileKeepsETag(v, etag, r) ==
    [version |-> v, age |-> 0, backend |-> Stored(etag),
     frontend |-> IF file # NoFile THEN file.frontend ELSE r]

\* The header readyToRead writes in front of the body: the times, a random
\* frontend ETag, the ETag of the origin.
NewFile(v, etag, r) == [version |-> v, age |-> 0, frontend |-> r, backend |-> Stored(etag)]

\* dnsRight reads the ETag of the origin to send it; a zero in it is an error.
Readable(f) == f.backend.name # Zeros

-----------------------------------------------------------------------------
(* The steps.                                                              *)

Leave(c, answer) == status' = [status EXCEPT ![c] = "none"] /\ last' = answer

\* The client reads f: its browser keeps what it gets.
Serve(c, f) ==
    /\ Leave(c, Answer("body", f.version))
    /\ copy' = [copy EXCEPT ![c] = [version |-> f.version, frontend |-> f.frontend]]

\* Http::addClient: a download that has started its file is read along.
Join(c) ==
    IF tempCache # NoFile THEN Serve(c, tempCache)
    ELSE status' = [status EXCEPT ![c] = "http"] /\ UNCHANGED <<copy, last>>

\* Mutant: dnsRight does not look again whether a download runs or has ended.
RecheckNot(c) == FALSE

\* dnsRight: another client may have got the file in the meantime.
Recheck(c) == Fresh(file)

\* Client::loadUrl, with the If-None-Match of the copy of the browser or none.
LoadUrl(c, ifNoneMatch) ==
    /\ status[c] = "none"
    /\ ifNoneMatch => copy[c] # NoCopy
    /\ IF http.running THEN Join(c)
       ELSE IF file # NoFile /\ ifNoneMatch /\ copy[c].frontend = file.frontend
       THEN Leave(c, Answer("same", copy[c].version)) /\ UNCHANGED copy
       ELSE IF Fresh(file) THEN Serve(c, file)
       ELSE status' = [status EXCEPT ![c] = "dns"] /\ UNCHANGED <<copy, last>>
    /\ UNCHANGED <<originVars, file, tempCache, http>>

\* Client::dnsRight: all of it again with the address of the host.
DnsRight(c) ==
    /\ status[c] = "dns"
    /\ IF http.running THEN Join(c) /\ UNCHANGED http
       ELSE IF Recheck(c) THEN Serve(c, file) /\ UNCHANGED http
       ELSE IF ~Readable(file)
       THEN Leave(c, Answer("error", 0)) /\ UNCHANGED <<copy, http>>
       ELSE /\ http' = [running |-> TRUE, etag |-> file.backend, finalCache |-> file # NoFile]
            /\ status' = [status EXCEPT ![c] = "http"]
            /\ UNCHANGED <<copy, last>>
    /\ UNCHANGED <<originVars, file, tempCache>>

\* Client::dnsError, dnsWrong.
DnsFails(c) ==
    /\ status[c] = "dns"
    /\ Leave(c, Answer("error", 0))
    /\ UNCHANGED <<originVars, file, tempCache, http, copy>>

Waiting == {c \in Client : status[c] = "http"}

\* All the clients of the download read f.
ServeAll(f) ==
    /\ status' = [c \in Client |-> IF c \in Waiting THEN "none" ELSE status[c]]
    /\ copy' = [c \in Client |-> IF c \in Waiting THEN [version |-> f.version, frontend |-> f.frontend]
                                 ELSE copy[c]]
    /\ last' = IF Waiting = {} THEN last ELSE Answer("body", f.version)

\* The ETag header of the answer, where it has one, else what tryConnect set.
EtagBackend == IF Tag[origin] = NoTag THEN http.etag ELSE Tag[origin]

\* The frontend ETags somebody has: six random characters are none of them.
Held == {f.frontend : f \in {file, tempCache} \cup {copy[c] : c \in Client}}

\* 200: the .tmp file is begun, the clients read it along.
Arrives200 ==
    /\ http.running /\ tempCache = NoFile
    /\ http.etag = NoTag \/ http.etag # Tag[origin]
    /\ \E r \in Random \ Held :
          /\ tempCache' = NewFile(origin, EtagBackend, r)
          /\ ServeAll(NewFile(origin, EtagBackend, r))
    /\ UNCHANGED <<originVars, file, http>>

\* Http::HttpReturnCode of 304: the file is checked now, the clients read it.
Arrives304 ==
    /\ http.running /\ tempCache = NoFile
    /\ http.finalCache /\ http.etag # NoTag /\ http.etag = Tag[origin]
    /\ file' = [file EXCEPT !.age = 0]
    /\ http' = NoHttp
    /\ ServeAll(file)
    /\ UNCHANGED <<originVars, tempCache>>

\* Another code, a timeout, a refused connection before there is a file.
Fails ==
    /\ http.running /\ tempCache = NoFile
    /\ http' = NoHttp
    /\ status' = [c \in Client |-> IF c \in Waiting THEN "none" ELSE status[c]]
    /\ last' = IF Waiting = {} THEN last ELSE Answer("error", 0)
    /\ UNCHANGED <<originVars, file, tempCache, copy>>

\* Http::disconnectBackend at the end: .tmp is renamed.
Ends ==
    /\ tempCache # NoFile
    /\ file' = tempCache /\ tempCache' = NoFile /\ http' = NoHttp
    /\ UNCHANGED <<originVars, status, copy, last>>

\* The process starts again: the cache file is all it has.  A .tmp file that is
\* left is removed before the next one is opened (readyToRead 591).
Restart ==
    /\ http.running \/ \E c \in Client : status[c] # "none"
    /\ tempCache' = NoFile /\ http' = NoHttp
    /\ status' = [c \in Client |-> "none"]
    /\ UNCHANGED <<originVars, file, copy, last>>

\* One unit later.
Older(age) == IF age < TimeToCache THEN age + 1 ELSE age
Tick ==
    /\ ~http.running
    /\ gone' = [v \in Version |-> IF v = origin THEN 0 ELSE Older(gone[v])]
    /\ file' = IF file = NoFile THEN file ELSE [file EXCEPT !.age = Older(@)]
    /\ UNCHANGED <<origin, tempCache, http, status, copy, last>>

\* The origin changes the file, also back to what it was.
Publish(v) ==
    /\ v # origin
    /\ origin' = v /\ gone' = [gone EXCEPT ![v] = 0]
    /\ UNCHANGED <<file, tempCache, http, status, copy, last>>

Next ==
    \/ \E c \in Client : (\E i \in BOOLEAN : LoadUrl(c, i)) \/ DnsRight(c) \/ DnsFails(c)
    \/ Arrives200 \/ Arrives304 \/ Fails \/ Ends \/ Restart \/ Tick
    \/ \E v \in Version : Publish(v)

Spec == Init /\ [][Next]_vars

-----------------------------------------------------------------------------
(* The properties.                                                         *)

\* The values of the file and of the download.
TypeOK ==
    /\ origin \in Version /\ gone[origin] = 0
    /\ \A f \in {file, tempCache} \ {NoFile} :
          f.version \in Version /\ f.frontend \in Random /\ f.backend.size \in 0..255
    /\ tempCache # NoFile => http.running /\ Waiting = {}
    /\ Waiting # {} => http.running

\* A body that is served was the content of the URL less than the time to
\* cache ago, whatever was published, confirmed (304) or joined: "last
\* modification time check (Modification based on ETag)", Cache.cpp:24, and
\* Client.cpp:953-975, 1390-1408.
FreshBody == last.kind = "body" => last.age < TimeToCache

\* A browser whose copy has the frontend ETag of the file has its content, so
\* 304 to its If-None-Match never keeps another version alive
\* (Client.cpp:880-905, Http.cpp:652-714).
SameMeansSame ==
    \A c \in Client : \A f \in {file, tempCache} :
        copy[c] # NoCopy /\ f # NoFile /\ copy[c].frontend = f.frontend => copy[c].version = f.version

\* The origin is not asked again while the file is fresh, however many clients
\* waited for the name at once (Client.cpp:1390-1408).
AskedOnlyWhenStale == [][~http.running /\ http'.running => ~Fresh(file)]_vars

\* "last modification time check <24h", Client.cpp:953: not only a body, also
\* the 304 that stands for it was the content less than that ago.
FreshOrAsked == last.kind = "same" => last.age < TimeToCache

\* "XBytes: backend content (see Etag backend size)", Cache.cpp:30.
EtagStored == Readable(file)
=============================================================================
