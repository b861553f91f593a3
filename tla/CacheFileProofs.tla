-------------------------- MODULE CacheFileProofs --------------------------
(***************************************************************************)
(* The properties of CacheFile hold for every number of browsers, versions *)
(* and frontend ETags, and for all ETags of the origin, FreshBody where    *)
(* they tell its versions apart.                                           *)
(*                                                                         *)
(* SameMeansSame is about what a browser and the cache hold; it is kept    *)
(* because any two copies with one frontend ETag have one content          *)
(* (Unambiguous).  FreshBody is kept because a file is never younger than  *)
(* its content is gone (NotOlder), which a 304 preserves only when the     *)
(* ETag it confirms is that of the content (OwnTag, Asked).                *)
(***************************************************************************)
EXTENDS CacheFile, TLAPS

-----------------------------------------------------------------------------
(* The values of the variables.                                            *)

Age == 0..TimeToCache

\* What is read back of an ETag that was stored.
Backends ==
    {NoTag} \cup {Tag[v] : v \in {w \in Version : Tag[w].size < 128}}
            \cup {[name |-> Zeros, size |-> n] : n \in 128..255}

Files == [version : Version, age : Age, frontend : Random, backend : Backends]
Copies == [version : Version, frontend : Random]

Types ==
    /\ origin \in Version
    /\ gone \in [Version -> Age] /\ gone[origin] = 0
    /\ file \in Files \cup {NoFile} /\ tempCache \in Files \cup {NoFile}
    /\ http \in [running : BOOLEAN, etag : Backends, finalCache : BOOLEAN]
    /\ status \in [Client -> {"none", "dns", "http"}]
    /\ copy \in [Client -> Copies \cup {NoCopy}]
    /\ last \in [kind : {"none", "body", "same", "error"}, version : Version \cup {0}, age : Age]

\* A .tmp file has a download, which nobody waits for any more; who waits has one.
Downloads ==
    /\ tempCache # NoFile => http.running /\ Waiting = {}
    /\ Waiting # {} => http.running

\* The files there are.
Cached == {file, tempCache} \ {NoFile}

\* One frontend ETag, one content.
Unambiguous ==
    /\ \A f, g \in Cached : f.frontend = g.frontend => f.version = g.version
    /\ \A c \in Client, f \in Cached :
          copy[c] # NoCopy /\ copy[c].frontend = f.frontend => copy[c].version = f.version
    /\ \A c, d \in Client :
          copy[c] # NoCopy /\ copy[d] # NoCopy /\ copy[c].frontend = copy[d].frontend
              => copy[c].version = copy[d].version

\* The download asks with the ETag of the file.
Asked == http.running => http.etag = file.backend /\ (http.finalCache => file # NoFile)

\* A .tmp file does not get older: its download ends within the unit.
TmpIsNew == tempCache # NoFile => tempCache.age = 0

IInv == Types /\ Downloads /\ Unambiguous /\ Asked /\ TmpIsNew

\* The content of a file was the one of the origin when the file was that much younger.
NotOlder == \A f \in Cached : gone[f.version] <= f.age

\* The ETag kept with a file is that of its content, or not one of the origin.
OwnTag == \A f \in Cached : f.backend \in {NoTag, Tag[f.version]} \/ f.backend.name = Zeros

-----------------------------------------------------------------------------
(* The operators of the format.                                            *)

(* No ETag is stored as such.                                              *)
LEMMA NoTagFacts == NoTag.size = 0 /\ NoTag.name # Zeros
BY Zenon DEF NoTag, Zeros

(* What is stored of an ETag is one of those that are read back.           *)
LEMMA StoredType ==
    ASSUME NEW etag \in Backends \cup {Tag[v] : v \in Version}
    PROVE  Stored(etag) \in Backends
<1>1. CASE etag \in {NoTag}
    BY <1>1, NoTagFacts DEF Stored, Backends
<1>2. CASE etag \in {[name |-> Zeros, size |-> n] : n \in 128..255}
    <2>1. PICK n \in 128..255 : etag = [name |-> Zeros, size |-> n]
        BY <1>2
    <2>2. Stored(etag) = [name |-> Zeros, size |-> n]
        BY <2>1 DEF Stored
    <2> QED BY <2>2 DEF Backends
<1>3. CASE etag \in {Tag[v] : v \in Version}
    <2>1. PICK v \in Version : etag = Tag[v]
        BY <1>3
    <2>2. Tag[v].size \in Nat
        BY CacheFileAssumption
    <2>3. CASE Tag[v].size > 255
        BY <2>1, <2>3 DEF Stored, Backends
    <2>4. CASE Tag[v].size \in 128..255
        BY <2>1, <2>2, <2>4 DEF Stored, Backends
    <2>5. CASE Tag[v].size < 128
        BY <2>1, <2>2, <2>5 DEF Stored, Backends
    <2> QED BY <2>2, <2>3, <2>4, <2>5
<1> QED BY <1>1, <1>2, <1>3 DEF Backends

(* The size of an ETag that is read back fits a byte.                      *)
LEMMA BackendSize == \A etag \in Backends : etag.size \in 0..255
BY CacheFileAssumption, NoTagFacts DEF Backends

(* A file is none of the values that stand for no file.                    *)
LEMMA FilesAreFiles == NoFile \notin Files /\ NoCopy \notin Copies
BY CacheFileAssumption DEF Files, Copies, NoFile, NoCopy

(* The file of a download.                                                 *)
LEMMA NewFileType ==
    ASSUME NEW v \in Version, NEW etag \in Backends \cup {Tag[w] : w \in Version}, NEW r \in Random
    PROVE  /\ NewFile(v, etag, r) \in Files
           /\ NewFile(v, etag, r).version = v /\ NewFile(v, etag, r).frontend = r
           /\ NewFile(v, etag, r).age = 0 /\ NewFile(v, etag, r).backend = Stored(etag)
BY StoredType DEF NewFile, Files, Age, TimeToCache

-----------------------------------------------------------------------------
(* Types.                                                                  *)

(* An answer with a body of v, of its age.                                 *)
LEMMA AnswerType ==
    ASSUME Types, NEW v \in Version, NEW kind \in {"body", "same"}
    PROVE  Answer(kind, v) \in [kind : {"none", "body", "same", "error"}, version : Version \cup {0}, age : Age]
BY DEF Types, Answer

LEMMA NoAnswerType ==
    {Answer("error", 0), NoAnswer} \subseteq
        [kind : {"none", "body", "same", "error"}, version : Version \cup {0}, age : Age]
BY DEF Answer, NoAnswer, Age, TimeToCache

(* The types of what a client that reads a file gets, one or all.          *)
LEMMA ServeType ==
    ASSUME Types, NEW f \in Files, \/ \E c \in Client : Serve(c, f)
                                   \/ ServeAll(f)
    PROVE  /\ status' \in [Client -> {"none", "dns", "http"}]
           /\ copy' \in [Client -> Copies \cup {NoCopy}]
           /\ last' \in [kind : {"none", "body", "same", "error"}, version : Version \cup {0}, age : Age]
<1>1. f.version \in Version /\ f.frontend \in Random
    BY DEF Files
<1>2. [version |-> f.version, frontend |-> f.frontend] \in Copies
    BY <1>1 DEF Copies
<1>3. Answer("body", f.version) \in
          [kind : {"none", "body", "same", "error"}, version : Version \cup {0}, age : Age]
    BY <1>1, AnswerType
<1>4. ASSUME NEW c \in Client, Serve(c, f)
      PROVE  /\ status' = [status EXCEPT ![c] = "none"]
             /\ copy' = [copy EXCEPT ![c] = [version |-> f.version, frontend |-> f.frontend]]
             /\ last' = Answer("body", f.version)
    BY <1>4 DEF Serve, Leave
<1>5. CASE \E c \in Client : Serve(c, f)
    BY <1>2, <1>3, <1>4, <1>5 DEF Types
<1>6. CASE ServeAll(f)
    BY <1>2, <1>3, <1>6 DEF Types, ServeAll
<1> QED BY <1>5, <1>6

(* And of a client that asks a download.                                   *)
LEMMA JoinType ==
    ASSUME Types, NEW c \in Client, Join(c)
    PROVE  /\ status' \in [Client -> {"none", "dns", "http"}]
           /\ copy' \in [Client -> Copies \cup {NoCopy}]
           /\ last' \in [kind : {"none", "body", "same", "error"}, version : Version \cup {0}, age : Age]
<1>1. CASE tempCache # NoFile
    <2>1. tempCache \in Files /\ Serve(c, tempCache)
        BY <1>1 DEF Types, Join
    <2> QED BY <2>1, ServeType
<1>2. CASE tempCache = NoFile
    BY <1>2 DEF Types, Join
<1> QED BY <1>1, <1>2

LEMMA TypesStep ==
    ASSUME IInv, [Next]_vars
    PROVE  Types'
<1> USE DEF IInv
<1> DEFINE Told == /\ status' \in [Client -> {"none", "dns", "http"}]
                   /\ copy' \in [Client -> Copies \cup {NoCopy}]
                   /\ last' \in [kind : {"none", "body", "same", "error"},
                                 version : Version \cup {0}, age : Age]
           Https == [running : BOOLEAN, etag : Backends, finalCache : BOOLEAN]
<1>1. NoHttp \in Https
    BY DEF NoHttp, Backends
<1>2. ASSUME NEW c \in Client, NEW i \in BOOLEAN, LoadUrl(c, i)
      PROVE  Told
    <2>1. CASE http.running
        BY <1>2, <2>1, JoinType DEF LoadUrl
    <2>2. CASE ~ http.running /\ file # NoFile /\ i /\ copy[c].frontend = file.frontend
        <3>1. copy[c] \in Copies
            BY <1>2, <2>2 DEF LoadUrl, Types
        <3>2. copy[c].version \in Version
            BY <3>1 DEF Copies
        <3>3. Leave(c, Answer("same", copy[c].version)) /\ UNCHANGED copy
            BY <1>2, <2>2 DEF LoadUrl
        <3> QED BY <3>2, <3>3, AnswerType DEF Types, Leave
    <2>3. CASE ~ http.running /\ Fresh(file) /\ Serve(c, file)
        <3>1. file \in Files
            BY <2>3 DEF Types, Fresh
        <3> QED BY <2>3, <3>1, ServeType
    <2>4. CASE status' = [status EXCEPT ![c] = "dns"] /\ UNCHANGED <<copy, last>>
        BY <2>4 DEF Types
    <2> QED BY <1>2, <2>1, <2>2, <2>3, <2>4 DEF LoadUrl
<1>3. ASSUME NEW c \in Client, DnsRight(c)
      PROVE  Told /\ http' \in Https
    <2>1. CASE http.running
        BY <1>3, <2>1, JoinType DEF DnsRight, Types
    <2>2. CASE ~ http.running /\ Recheck(c)
        <3>1. file \in Files /\ Serve(c, file) /\ UNCHANGED http
            BY <1>3, <2>2 DEF Types, Fresh, Recheck, DnsRight
        <3> QED BY <3>1, ServeType DEF Types
    <2>3. CASE ~ http.running /\ ~ Recheck(c) /\ ~ Readable(file)
        BY <1>3, <2>3, NoAnswerType DEF DnsRight, Types, Leave
    <2>4. CASE ~ http.running /\ ~ Recheck(c) /\ Readable(file)
        <3>1. /\ http' = [running |-> TRUE, etag |-> file.backend, finalCache |-> file # NoFile]
              /\ status' = [status EXCEPT ![c] = "http"] /\ UNCHANGED <<copy, last>>
            BY <1>3, <2>4 DEF DnsRight
        <3>2. file.backend \in Backends
            BY DEF Types, Files, NoFile, Backends
        <3> QED BY <3>1, <3>2 DEF Types
    <2> QED BY <2>1, <2>2, <2>3, <2>4
<1>4. ASSUME NEW c \in Client, LoadUrl(c, TRUE) \/ LoadUrl(c, FALSE) \/ DnsRight(c) \/ DnsFails(c)
      PROVE  Types'
    <2>1. UNCHANGED <<originVars, file, tempCache>> /\ (UNCHANGED http \/ DnsRight(c))
        BY <1>4 DEF LoadUrl, DnsRight, DnsFails
    <2>2. Told
        BY <1>2, <1>3, <1>4, NoAnswerType DEF DnsFails, Leave, Types
    <2>3. http' \in Https
        BY <1>3, <2>1 DEF Types
    <2> QED BY <2>1, <2>2, <2>3 DEF Types, originVars
<1>5. CASE Arrives200
    <2>1. PICK r \in Random \ Held :
             /\ tempCache' = NewFile(origin, EtagBackend, r)
             /\ ServeAll(NewFile(origin, EtagBackend, r))
        BY <1>5 DEF Arrives200
    <2>2. EtagBackend \in Backends \cup {Tag[w] : w \in Version} /\ origin \in Version
        BY DEF EtagBackend, Types
    <2>3. NewFile(origin, EtagBackend, r) \in Files
        BY <2>2, NewFileType
    <2>4. Told
        BY <2>1, <2>3, ServeType
    <2>5. UNCHANGED <<originVars, file, http>>
        BY <1>5 DEF Arrives200
    <2> QED BY <2>1, <2>3, <2>4, <2>5 DEF Types, originVars
<1>6. CASE Arrives304
    <2>1. file \in Files
        BY <1>6 DEF Arrives304, Types, Asked
    <2>2. Told
        BY <1>6, <2>1, ServeType DEF Arrives304
    <2>3. file' = [file EXCEPT !.age = 0] /\ http' = NoHttp /\ UNCHANGED <<originVars, tempCache>>
        BY <1>6 DEF Arrives304
    <2>4. file' \in Files
        BY <2>1, <2>3 DEF Files, Age, TimeToCache
    <2> QED BY <1>1, <2>2, <2>3, <2>4 DEF Types, originVars
<1>7. CASE Fails
    BY <1>1, <1>7, NoAnswerType DEF Fails, Types, originVars
<1>8. CASE Ends
    BY <1>1, <1>8 DEF Ends, Types, originVars
<1>9. CASE Restart
    BY <1>1, <1>9 DEF Restart, Types, originVars
<1>10. CASE Tick
    <2>1. \A age \in Age : Older(age) \in Age
        BY DEF Age, Older, TimeToCache
    <2>2. gone' \in [Version -> Age] /\ gone'[origin] = 0 /\ origin' = origin
        BY <1>10, <2>1 DEF Tick, Types, Age, TimeToCache
    <2>3. file' \in Files \cup {NoFile}
        BY <1>10, <2>1 DEF Tick, Types, Files
    <2> QED BY <1>10, <2>2, <2>3 DEF Tick, Types
<1>11. ASSUME NEW v \in Version, Publish(v)
       PROVE  Types'
    BY <1>11 DEF Publish, Types, Age, TimeToCache
<1>12. CASE UNCHANGED vars
    BY <1>12 DEF vars, originVars, Types
<1> QED BY <1>4, <1>5, <1>6, <1>7, <1>8, <1>9, <1>10, <1>11, <1>12 DEF Next

-----------------------------------------------------------------------------
(* Downloads and frontend ETags.                                           *)

LEMMA DownloadsStep ==
    ASSUME IInv, [Next]_vars
    PROVE  Downloads'
<1> USE DEF IInv
<1>1. ASSUME NEW c \in Client, NEW i \in BOOLEAN, LoadUrl(c, i)
      PROVE  Downloads'
    <2>1. /\ UNCHANGED <<tempCache, http>>
          /\ \/ status' = [status EXCEPT ![c] = "none"] \/ status' = [status EXCEPT ![c] = "dns"]
             \/ http.running /\ tempCache = NoFile /\ status' = [status EXCEPT ![c] = "http"]
        BY <1>1 DEF LoadUrl, Join, Serve, Leave
    <2> QED BY <2>1 DEF Downloads, Waiting, Types
<1>2. ASSUME NEW c \in Client, DnsRight(c)
      PROVE  Downloads'
    <2>1. /\ UNCHANGED tempCache
          /\ \/ UNCHANGED http /\ status' = [status EXCEPT ![c] = "none"]
             \/ UNCHANGED http /\ http.running /\ tempCache = NoFile /\ status' = [status EXCEPT ![c] = "http"]
             \/ ~ http.running /\ http'.running /\ status' = [status EXCEPT ![c] = "http"]
        BY <1>2 DEF DnsRight, Join, Serve, Leave
    <2> QED BY <2>1 DEF Downloads, Waiting, Types
<1>3. ASSUME NEW c \in Client, DnsFails(c)
      PROVE  Downloads'
    BY <1>3 DEF DnsFails, Leave, Downloads, Waiting, Types
<1>4. CASE Arrives200
    <2>1. http' = http /\ http.running /\ \A c \in Client : status'[c] # "http"
        BY <1>4 DEF Arrives200, ServeAll, Waiting
    <2> QED BY <2>1 DEF Downloads, Waiting
<1>5. CASE Arrives304 \/ Fails
    <2>1. tempCache' = NoFile /\ \A c \in Client : status'[c] # "http"
        BY <1>5 DEF Arrives304, Fails, ServeAll, Waiting
    <2> QED BY <2>1 DEF Downloads, Waiting
<1>6. CASE Ends
    <2>1. Waiting = {} /\ tempCache' = NoFile /\ status' = status
        BY <1>6 DEF Ends, Downloads
    <2> QED BY <2>1 DEF Downloads, Waiting
<1>7. CASE Restart
    BY <1>7 DEF Restart, Downloads, Waiting
<1>8. CASE Tick \/ (\E v \in Version : Publish(v)) \/ UNCHANGED vars
    BY <1>8 DEF Tick, Publish, vars, Downloads, Waiting
<1> QED BY <1>1, <1>2, <1>3, <1>4, <1>5, <1>6, <1>7, <1>8 DEF Next

\* What a browser gets of f.
CopyOf(f) == [version |-> f.version, frontend |-> f.frontend]

(* Clients that read a file that is there keep what it is.                 *)
LEMMA ReadingKeeps ==
    ASSUME IInv, NEW f \in Cached, Cached' \subseteq Cached,
           \A c \in Client : copy'[c] \in {copy[c], CopyOf(f)}
    PROVE  Unambiguous'
<1> USE DEF IInv
<1>1. CopyOf(f).version = f.version /\ CopyOf(f).frontend = f.frontend
    BY DEF CopyOf
<1>2. \A c \in Client : copy'[c] # NoCopy =>
          \/ copy'[c] = copy[c] /\ copy[c] # NoCopy
          \/ copy'[c].version = f.version /\ copy'[c].frontend = f.frontend
    BY <1>1
<1>3. \A g \in Cached' : g \in Cached
    OBVIOUS
<1>4. \A c \in Client, g \in Cached :
          copy'[c] # NoCopy /\ copy'[c].frontend = g.frontend => copy'[c].version = g.version
    BY <1>2 DEF Unambiguous
<1>5. \A c, d \in Client :
          copy'[c] # NoCopy /\ copy'[d] # NoCopy /\ copy'[c].frontend = copy'[d].frontend
              => copy'[c].version = copy'[d].version
    BY <1>2 DEF Unambiguous
<1> QED BY <1>3, <1>4, <1>5 DEF Unambiguous

LEMMA UnambiguousStep ==
    ASSUME IInv, [Next]_vars
    PROVE  Unambiguous'
<1> USE DEF IInv
<1>1. CASE UNCHANGED copy /\ \A f \in Cached' : \E g \in Cached : f.version = g.version /\ f.frontend = g.frontend
    BY <1>1 DEF Unambiguous
<1>2. ASSUME NEW c \in Client,
             \/ LoadUrl(c, TRUE) \/ LoadUrl(c, FALSE) \/ DnsRight(c) \/ DnsFails(c)
      PROVE  Unambiguous'
    <2>1. /\ UNCHANGED <<file, tempCache>>
          /\ UNCHANGED copy \/ \E f \in Cached : copy' = [copy EXCEPT ![c] = CopyOf(f)]
        BY <1>2 DEF LoadUrl, DnsRight, DnsFails, Join, Serve, Leave, Fresh, Recheck, CopyOf, Cached
    <2>2. Cached' = Cached
        BY <2>1 DEF Cached
    <2>3. CASE UNCHANGED copy
        BY <1>1, <2>2, <2>3
    <2>4. ASSUME NEW f \in Cached, copy' = [copy EXCEPT ![c] = CopyOf(f)]
          PROVE  Unambiguous'
        <3>1. \A d \in Client : copy'[d] \in {copy[d], CopyOf(f)}
            BY <2>4 DEF Types
        <3> QED BY <2>2, <3>1, ReadingKeeps
    <2> QED BY <2>1, <2>3, <2>4
<1>3. CASE Arrives200
    <2>1. PICK r \in Random \ Held :
             /\ tempCache' = NewFile(origin, EtagBackend, r)
             /\ ServeAll(NewFile(origin, EtagBackend, r))
        BY <1>3 DEF Arrives200
    <2> DEFINE n == NewFile(origin, EtagBackend, r)
    <2>2. n.version = origin /\ n.frontend = r /\ Cached' \subseteq Cached \cup {n}
        BY <1>3, <2>1 DEF Arrives200, NewFile, Cached
    <2>3. \A c \in Client : copy'[c] # NoCopy =>
              \/ copy'[c] = copy[c] /\ copy[c] # NoCopy
              \/ copy'[c].version = origin /\ copy'[c].frontend = r
        BY <2>1, <2>2 DEF ServeAll
    <2>4. /\ \A f \in Cached : f.frontend # r
          /\ \A c \in Client : copy[c].frontend # r
        BY DEF Held, Cached
    <2> HIDE DEF n
    <2>5. \A f, g \in Cached' : f.frontend = g.frontend => f.version = g.version
        BY <2>2, <2>4 DEF Unambiguous
    <2>6. \A c \in Client, f \in Cached' :
              copy'[c] # NoCopy /\ copy'[c].frontend = f.frontend => copy'[c].version = f.version
        BY <2>2, <2>3, <2>4 DEF Unambiguous
    <2>7. \A c, d \in Client :
              copy'[c] # NoCopy /\ copy'[d] # NoCopy /\ copy'[c].frontend = copy'[d].frontend
                  => copy'[c].version = copy'[d].version
        BY <2>3, <2>4 DEF Unambiguous
    <2> QED BY <2>5, <2>6, <2>7 DEF Unambiguous
<1>4. CASE Arrives304
    <2>1. file \in Files /\ file # NoFile
        BY <1>4 DEF Arrives304, Types, Asked
    <2>2. file' = [file EXCEPT !.age = 0] /\ UNCHANGED tempCache /\ ServeAll(file) /\ tempCache = NoFile
        BY <1>4 DEF Arrives304
    <2>3. file'.version = file.version /\ file'.frontend = file.frontend
        BY <2>1, <2>2 DEF Files
    <2>4. \A c \in Client : copy'[c] # NoCopy =>
              \/ copy'[c] = copy[c] /\ copy[c] # NoCopy
              \/ copy'[c].version = file.version /\ copy'[c].frontend = file.frontend
        BY <2>2 DEF ServeAll
    <2>5. file \in Cached /\ \A f \in Cached' : f.version = file.version /\ f.frontend = file.frontend
        BY <2>1, <2>2, <2>3 DEF Cached
    <2> QED BY <2>4, <2>5 DEF Unambiguous
<1>5. CASE Fails \/ Ends \/ Restart \/ (\E v \in Version : Publish(v)) \/ UNCHANGED vars
    <2>1. UNCHANGED copy /\ Cached' \subseteq Cached
        BY <1>5 DEF Fails, Ends, Restart, Publish, vars, Cached
    <2> QED BY <1>1, <2>1
<1>6. CASE Tick
    <2>1. UNCHANGED <<copy, tempCache>>
        BY <1>6 DEF Tick
    <2>2. file # NoFile => file'.version = file.version /\ file'.frontend = file.frontend
        BY <1>6 DEF Tick, Types, Files
    <2>3. file = NoFile => file' = NoFile
        BY <1>6 DEF Tick
    <2> QED BY <1>1, <2>1, <2>2, <2>3 DEF Cached
<1> QED BY <1>2, <1>3, <1>4, <1>5, <1>6 DEF Next

LEMMA AskedStep ==
    ASSUME IInv, [Next]_vars
    PROVE  Asked'
<1> USE DEF IInv
<1>1. CASE UNCHANGED <<file, http>> \/ ~ http'.running
    BY <1>1 DEF Asked
<1>2. ASSUME NEW c \in Client, DnsRight(c)
      PROVE  Asked'
    <2>1. /\ file' = file
          /\ http' = http \/ http' = [running |-> TRUE, etag |-> file.backend, finalCache |-> file # NoFile]
        BY <1>2 DEF DnsRight
    <2>2. CASE http' = [running |-> TRUE, etag |-> file.backend, finalCache |-> file # NoFile]
        <3>1. http'.etag = file.backend /\ http'.finalCache = (file # NoFile)
            BY <2>2
        <3> QED BY <2>1, <3>1 DEF Asked
    <2> QED BY <1>1, <2>1, <2>2
<1>3. CASE Arrives304 \/ Fails \/ Ends \/ Restart
    BY <1>1, <1>3 DEF Arrives304, Fails, Ends, Restart, NoHttp
<1>4. CASE Tick
    BY <1>1, <1>4 DEF Tick
<1>5. CASE Arrives200 \/ (\E v \in Version : Publish(v)) \/ UNCHANGED vars
           \/ (\E c \in Client : (\E i \in BOOLEAN : LoadUrl(c, i)) \/ DnsFails(c))
    BY <1>1, <1>5 DEF Arrives200, Publish, vars, LoadUrl, DnsFails
<1> QED BY <1>2, <1>3, <1>4, <1>5 DEF Next

LEMMA TmpIsNewStep ==
    ASSUME IInv, [Next]_vars
    PROVE  TmpIsNew'
<1>1. CASE tempCache' \in {tempCache, NoFile}
    BY <1>1 DEF IInv, TmpIsNew
<1>2. CASE Arrives200
    BY <1>2 DEF Arrives200, NewFile, TmpIsNew
<1>3. CASE ~ Arrives200
    BY <1>1, <1>3 DEF Next, LoadUrl, DnsRight, DnsFails, Arrives304, Fails, Ends, Restart, Tick,
        Publish, vars
<1> QED BY <1>2, <1>3

-----------------------------------------------------------------------------
(* What holds for all ETags.                                               *)

LEMMA InitIInv == ASSUME Init PROVE IInv
<1>1. NoHttp \in [running : BOOLEAN, etag : Backends, finalCache : BOOLEAN] /\ ~ NoHttp.running
    BY DEF NoHttp, Backends
<1>2. Types
    BY <1>1, NoAnswerType DEF Init, Types, Age, TimeToCache
<1>3. Waiting = {} /\ Cached = {}
    BY DEF Init, Waiting, Cached
<1>4. Unambiguous
    BY <1>3 DEF Init, Unambiguous
<1> QED BY <1>1, <1>2, <1>3, <1>4 DEF Init, IInv, Downloads, Asked, TmpIsNew

THEOREM Invariance == Spec => []IInv
<1>1. Init => IInv
    BY InitIInv
<1>2. IInv /\ [Next]_vars => IInv'
    BY TypesStep, DownloadsStep, UnambiguousStep, AskedStep, TmpIsNewStep DEF IInv
<1> QED BY <1>1, <1>2, PTL DEF Spec

(* The file and the download keep their types.                             *)
THEOREM TypeCorrect == Spec => []TypeOK
<1>1. IInv => TypeOK
    <2> SUFFICES ASSUME IInv
                 PROVE  TypeOK
        OBVIOUS
    <2>1. \A f \in {file, tempCache} \ {NoFile} :
             f.version \in Version /\ f.frontend \in Random /\ f.backend.size \in 0..255
        BY BackendSize DEF IInv, Types, Files
    <2> QED BY <2>1 DEF IInv, Types, Downloads, TypeOK
<1> QED BY <1>1, Invariance, PTL

(* A 304 to a browser never stands for another content than its own.       *)
THEOREM SameCorrect == Spec => []SameMeansSame
<1>1. IInv => SameMeansSame
    BY DEF IInv, Unambiguous, Cached, SameMeansSame
<1> QED BY <1>1, Invariance, PTL

(* The origin is only asked when the file is stale.                        *)
THEOREM AskedCorrect == Spec => AskedOnlyWhenStale
<1>1. [Next]_vars => [~ http.running /\ http'.running => ~ Fresh(file)]_vars
    <2> SUFFICES ASSUME Next, ~ http.running, http'.running, Fresh(file)
                 PROVE  FALSE
        BY DEF vars
    <2>1. \A c \in Client : ~ DnsRight(c)
        BY DEF DnsRight, Recheck
    <2>2. UNCHANGED http \/ http' = NoHttp
        BY <2>1 DEF Next, LoadUrl, DnsFails, Arrives200, Arrives304, Fails, Ends, Restart,
            Tick, Publish
    <2> QED BY <2>2 DEF NoHttp
<1> QED BY <1>1, PTL DEF Spec, AskedOnlyWhenStale

-----------------------------------------------------------------------------
(* Where the ETags of the origin tell its versions apart.                  *)

\* It sends none at all, or one with every version, and no two with the same.
TagsTell ==
    \/ \A v \in Version : Tag[v] = NoTag
    \/ \A v \in Version : Tag[v] # NoTag /\ \A w \in Version : Tag[w] = Tag[v] => w = v

(* What is kept of the ETag of a version is that, none or zeros.           *)
LEMMA StoredOwn ==
    ASSUME NEW v \in Version
    PROVE  Stored(Tag[v]) \in {NoTag, Tag[v]} \/ Stored(Tag[v]).name = Zeros
BY CacheFileAssumption DEF Stored

(* A download that may go on has no zeros in its ETag, so it is one of an  *)
(* origin or none: a 304 confirms the content of the file, and a 200 has   *)
(* an ETag of its own.                                                     *)
LEMMA ConfirmsContent ==
    ASSUME IInv, OwnTag, TagsTell, file # NoFile,
           http.running, http.etag # NoTag, http.etag = Tag[origin]
    PROVE  file.version = origin
<1>1. origin \in Version /\ file \in Files /\ file \in Cached
    BY DEF IInv, Types, Cached
<1>2. file.backend = Tag[origin] /\ file.version \in Version
    BY <1>1 DEF IInv, Asked, Files
<1>3. file.backend.name # Zeros
    BY <1>1, <1>2, CacheFileAssumption
<1> QED BY <1>1, <1>2, <1>3 DEF OwnTag, TagsTell

(* The ETag that is written with the file of a 200.                        *)
LEMMA ArrivesOwn ==
    ASSUME IInv, OwnTag, TagsTell, http.running
    PROVE  Stored(EtagBackend) \in {NoTag, Tag[origin]} \/ Stored(EtagBackend).name = Zeros
<1>1. origin \in Version /\ file \in Files \cup {NoFile}
    BY DEF IInv, Types
<1>2. CASE Tag[origin] # NoTag
    BY <1>1, <1>2, StoredOwn DEF EtagBackend
<1>3. CASE Tag[origin] = NoTag
    <2>1. EtagBackend = file.backend
        BY <1>3 DEF EtagBackend, IInv, Asked
    <2>2. file # NoFile => Tag[file.version] = NoTag
        BY <1>1, <1>3 DEF TagsTell, Files
    <2>3. file.backend = NoTag \/ file.backend.name = Zeros
        BY <2>2 DEF OwnTag, Cached, NoFile
    <2>4. Stored(file.backend) = NoTag \/ Stored(file.backend).name = Zeros
        BY <2>3 DEF Stored
    <2> QED BY <2>1, <2>4
<1> QED BY <1>2, <1>3

LEMMA OwnTagStep ==
    ASSUME IInv, OwnTag, TagsTell, [Next]_vars
    PROVE  OwnTag'
<1>1. CASE \A f \in Cached' : \E g \in Cached : f.version = g.version /\ f.backend = g.backend
    BY <1>1 DEF OwnTag
<1>2. CASE Arrives200
    <2>1. PICK r \in Random \ Held : tempCache' = NewFile(origin, EtagBackend, r)
        BY <1>2 DEF Arrives200
    <2>2. http.running /\ file' = file
        BY <1>2 DEF Arrives200
    <2>3. tempCache'.version = origin /\ tempCache'.backend = Stored(EtagBackend)
        BY <2>1 DEF NewFile
    <2> QED BY <2>2, <2>3, ArrivesOwn DEF OwnTag, Cached
<1>3. CASE Arrives304 \/ Tick
    <2>1. file \in Files \cup {NoFile} /\ tempCache' = tempCache
        BY <1>3 DEF IInv, Types, Arrives304, Tick
    <2>2. /\ file' = file \/ \E a : file' = [file EXCEPT !.age = a]
          /\ file' # NoFile => file # NoFile
        BY <1>3 DEF Arrives304, Tick, IInv, Asked
    <2>3. file # NoFile => file'.version = file.version /\ file'.backend = file.backend
        BY <2>1, <2>2 DEF Files
    <2> QED BY <1>1, <2>1, <2>2, <2>3 DEF Cached
<1>4. CASE ~ Arrives200 /\ ~ Arrives304 /\ ~ Tick
    <2>1. Cached' \subseteq Cached
        BY <1>4 DEF Next, LoadUrl, DnsRight, DnsFails, Fails, Ends, Restart, Publish, vars,
            Cached
    <2> QED BY <1>1, <2>1
<1> QED BY <1>2, <1>3, <1>4

(* A version is gone no longer than before but by a tick, in which the     *)
(* file ages as well.                                                      *)
LEMMA NotOlderStep ==
    ASSUME IInv, OwnTag, NotOlder, TagsTell, [Next]_vars
    PROVE  NotOlder'
<1>1. /\ gone \in [Version -> Age] /\ gone[origin] = 0 /\ origin \in Version
      /\ \A f \in Cached : f \in Files /\ f.version \in Version /\ f.age \in Age
    BY DEF IInv, Types, Cached, Files
<1>2. CASE Arrives200
    <2>1. PICK r \in Random \ Held : tempCache' = NewFile(origin, EtagBackend, r)
        BY <1>2 DEF Arrives200
    <2>2. tempCache'.version = origin /\ tempCache'.age = 0 /\ UNCHANGED <<file, gone>>
        BY <1>2, <2>1 DEF Arrives200, NewFile, originVars
    <2> QED BY <1>1, <2>2 DEF NotOlder, Cached
<1>3. CASE Arrives304
    <2>1. file # NoFile /\ file.version = origin
        BY <1>3, ConfirmsContent DEF Arrives304, IInv, Asked
    <2>2. file \in Files /\ file' = [file EXCEPT !.age = 0] /\ UNCHANGED <<tempCache, gone>>
        BY <1>3, <2>1 DEF Arrives304, IInv, Types, originVars
    <2>3. file'.version = origin /\ file'.age = 0
        BY <2>1, <2>2 DEF Files
    <2>4. \A f \in Cached' : f = file' \/ f \in Cached
        BY <2>2 DEF Cached
    <2>5. \A f \in Cached' : gone[f.version] <= f.age
        BY <1>1, <2>3, <2>4 DEF NotOlder
    <2> QED BY <2>2, <2>5 DEF NotOlder
<1>4. CASE Tick
    <2>1. tempCache = NoFile /\ tempCache' = NoFile
        BY <1>4 DEF Tick, IInv, Downloads
    <2>2. CASE file = NoFile
        BY <1>4, <2>1, <2>2 DEF Tick, NotOlder, Cached
    <2>3. CASE file # NoFile
        <3>1. file \in Files /\ file.version \in Version /\ file.age \in Age
            BY <1>1, <2>3 DEF Cached
        <3>2. gone[file.version] <= file.age
            BY <2>3 DEF NotOlder, Cached
        <3>3. file'.version = file.version /\ file'.age = Older(file.age)
            BY <1>4, <2>3, <3>1 DEF Tick, Files
        <3>4. gone'[file.version] \in {0, Older(gone[file.version])}
            BY <1>4, <3>1 DEF Tick
        <3>5. gone'[file.version] <= Older(file.age)
            BY <1>1, <3>1, <3>2, <3>4 DEF Older, Age, TimeToCache
        <3> QED BY <2>1, <3>3, <3>5 DEF NotOlder, Cached
    <2> QED BY <2>2, <2>3
<1>5. ASSUME NEW v \in Version, Publish(v)
      PROVE  NotOlder'
    <2>1. UNCHANGED <<file, tempCache>> /\ gone' = [gone EXCEPT ![v] = 0]
        BY <1>5 DEF Publish
    <2>2. \A w \in Version : gone'[w] <= gone[w]
        BY <1>1, <2>1 DEF Age
    <2>3. \A f \in Cached : gone'[f.version] <= f.age
        <3> TAKE f \in Cached
        <3>1. f.version \in Version /\ f.age \in Age /\ gone[f.version] <= f.age
            BY <1>1 DEF NotOlder
        <3>2. gone'[f.version] \in Age /\ gone[f.version] \in Age
            BY <1>1, <2>1, <3>1 DEF Age, TimeToCache
        <3> QED BY <2>2, <3>1, <3>2 DEF Age
    <2> QED BY <2>1, <2>3 DEF NotOlder, Cached
<1>6. CASE ~ Arrives200 /\ ~ Arrives304 /\ ~ Tick /\ \A v \in Version : ~ Publish(v)
    <2>1. Cached' \subseteq Cached /\ gone' = gone
        BY <1>6 DEF Next, LoadUrl, DnsRight, DnsFails, Fails, Ends, Restart, originVars, vars,
            Cached
    <2> QED BY <2>1 DEF NotOlder
<1> QED BY <1>2, <1>3, <1>4, <1>5, <1>6

(* What is served is fresh or has just come.                               *)
LEMMA FreshBodyStep ==
    ASSUME IInv, OwnTag, NotOlder, FreshBody, TagsTell, [Next]_vars
    PROVE  FreshBody'
<1>1. /\ gone \in [Version -> Age] /\ gone[origin] = 0 /\ origin \in Version
      /\ \A f \in Cached : f \in Files /\ f.version \in Version /\ f.age \in Age
    BY DEF IInv, Types, Cached, Files
<1>2. ASSUME NEW v, gone[v] < TimeToCache, last' = Answer("body", v)
      PROVE  FreshBody'
    BY <1>2 DEF Answer, FreshBody
<1>3. CASE last' = last \/ last'.kind # "body"
    BY <1>3 DEF FreshBody
<1>4. ASSUME NEW c \in Client, Join(c)
      PROVE  FreshBody'
    <2>1. CASE tempCache = NoFile
        BY <1>3, <1>4, <2>1 DEF Join
    <2>2. CASE tempCache # NoFile
        <3>1. last' = Answer("body", tempCache.version) /\ tempCache \in Cached
            BY <1>4, <2>2 DEF Join, Serve, Leave, Cached
        <3>2. gone[tempCache.version] <= 0 /\ gone[tempCache.version] \in Age
            BY <1>1, <2>2, <3>1 DEF NotOlder, IInv, TmpIsNew
        <3> QED BY <1>2, <3>1, <3>2 DEF Age, TimeToCache
    <2> QED BY <2>1, <2>2
<1>5. ASSUME NEW c \in Client, Serve(c, file), Fresh(file)
      PROVE  FreshBody'
    <2>1. file \in Cached /\ file.age < TimeToCache /\ last' = Answer("body", file.version)
        BY <1>5 DEF Serve, Leave, Fresh, Cached
    <2>2. gone[file.version] \in Age /\ file.age \in Age /\ gone[file.version] <= file.age
        BY <1>1, <2>1 DEF NotOlder
    <2> QED BY <1>2, <2>1, <2>2 DEF Age, TimeToCache
<1>6. ASSUME NEW c \in Client, \/ LoadUrl(c, TRUE) \/ LoadUrl(c, FALSE) \/ DnsRight(c) \/ DnsFails(c)
      PROVE  FreshBody'
    <2>1. \/ Join(c)
          \/ Serve(c, file) /\ Fresh(file)
          \/ last' = last
          \/ \E v : last' = Answer("same", v) \/ last' = Answer("error", v)
        BY <1>6 DEF LoadUrl, DnsRight, DnsFails, Recheck, Leave
    <2> QED BY <1>3, <1>4, <1>5, <2>1 DEF Answer
<1>7. CASE Arrives200
    <2>1. \E r \in Random : ServeAll(NewFile(origin, EtagBackend, r))
        BY <1>7 DEF Arrives200
    <2>2. last' = last \/ last' = Answer("body", origin)
        BY <2>1 DEF ServeAll, NewFile
    <2> QED BY <1>1, <1>2, <1>3, <2>2 DEF TimeToCache
<1>8. CASE Arrives304
    <2>1. file # NoFile /\ file.version = origin /\ ServeAll(file)
        BY <1>8, ConfirmsContent DEF Arrives304, IInv, Asked
    <2>2. last' = last \/ last' = Answer("body", origin)
        BY <2>1 DEF ServeAll
    <2> QED BY <1>1, <1>2, <1>3, <2>2 DEF TimeToCache
<1>9. CASE Fails \/ Ends \/ Restart \/ Tick \/ (\E v \in Version : Publish(v)) \/ UNCHANGED vars
    BY <1>3, <1>9 DEF Fails, Ends, Restart, Tick, Publish, vars, Answer
<1> QED BY <1>6, <1>7, <1>8, <1>9 DEF Next

(* Where the ETags tell the versions apart, what is served was the content *)
(* of the URL less than the time to cache ago, through confirmations,      *)
(* joined downloads, restarts and all that is published meanwhile.         *)
THEOREM FreshCorrect ==
    ASSUME TagsTell
    PROVE  Spec => []FreshBody
<1>1. Init => OwnTag /\ NotOlder /\ FreshBody
    BY DEF Init, OwnTag, NotOlder, FreshBody, Cached, NoAnswer
<1>2. IInv /\ (OwnTag /\ NotOlder /\ FreshBody) /\ [Next]_vars
          => (OwnTag /\ NotOlder /\ FreshBody)'
    BY OwnTagStep, NotOlderStep, FreshBodyStep, TagsTell
<1> QED BY <1>1, <1>2, Invariance, PTL DEF Spec
=============================================================================
