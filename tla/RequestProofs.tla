--------------------------- MODULE RequestProofs ---------------------------
(***************************************************************************)
(* The properties of Request for every conversation, every size of a read  *)
(* and every width of size_t.                                              *)
(*                                                                         *)
(* One read parses as many records as it has got, so what a turn of the    *)
(* loop keeps has to be carried along them: Numbers is induction, for sets *)
(* of numbers, and Turns says that Parse is what its definition says.      *)
(***************************************************************************)
EXTENDS Request, FiniteSetTheorems, WellFoundedInduction, TLAPS

-----------------------------------------------------------------------------
(* The loop.                                                               *)

(* A set of numbers that is not empty has a least one.                     *)
LEMMA LeastNumber ==
    ASSUME NEW T \in SUBSET Nat, T # {}
    PROVE  \E m \in T : \A k \in T : m <= k
<1> DEFINE W == {1..m : m \in T}
           R == StrictSubsetOrdering(Nat)
<1>1. IsWellFoundedOn(R, FiniteSubsetsOf(Nat))
    BY FS_StrictSubsetOrderingWellFounded
<1>2. \A m \in Nat : 1..m \in FiniteSubsetsOf(Nat)
    BY FS_Interval DEF FiniteSubsetsOf
<1>3. W \subseteq FiniteSubsetsOf(Nat) /\ W # {}
    BY <1>2
<1>4. PICK x \in W : \A y \in W : ~(<<y, x>> \in R)
    <2> HIDE DEF W, R
    <2> QED BY <1>1, <1>3, WFMin
<1>5. PICK m \in T : x = 1..m
    BY <1>4
<1>6. ASSUME NEW k \in T, ~(m <= k)
      PROVE  FALSE
    <2>1. 1..k \in W /\ 1..k \subseteq 1..m /\ m \in 1..m /\ m \notin 1..k /\ m \in Nat
        BY <1>6
    <2>2. 1..k # 1..m /\ 1..k \in SUBSET Nat /\ 1..m \in SUBSET Nat
        BY <2>1
    <2>3. <<1..k, 1..m>> \in R
        BY <2>1, <2>2 DEF StrictSubsetOrdering
    <2> QED BY <1>4, <1>5, <2>1, <2>3
<1> QED BY <1>6

(* What holds at 0, and at the next number with each, holds up to n.       *)
LEMMA Numbers ==
    ASSUME NEW n \in Nat, NEW S, 0 \in S, \A k \in 0..n : k < n /\ k \in S => k + 1 \in S
    PROVE  \A k \in 0..n : k \in S
<1> DEFINE T == {k \in 0..n : k \notin S}
<1>1. CASE T = {}
    BY <1>1
<1>2. CASE T # {}
    <2>1. T \in SUBSET Nat
        OBVIOUS
    <2>2. \E m \in T : \A k \in T : m <= k
        <3> HIDE DEF T
        <3> QED BY <1>2, <2>1, LeastNumber
    <2>3. PICK m \in T : \A k \in T : m <= k
        BY <2>2
    <2>4. m \in Nat /\ m # 0 /\ m - 1 \in 0..n /\ m - 1 < n
        OBVIOUS
    <2>5. m - 1 \in S
        BY <2>3, <2>4
    <2> QED BY <2>3, <2>4, <2>5
<1> QED BY <1>1, <1>2

\* a is the state after each of the first n records of rs.
IsRun(a, n, s, rs) == a = [i \in 0..n |-> IF i = 0 THEN s ELSE Record(a[i - 1], rs[i])]

(* There is such a run, so Parse ends with its last state.                 *)
LEMMA Turns ==
    ASSUME NEW s, NEW rs, Len(rs) \in Nat
    PROVE  \E a : IsRun(a, Len(rs), s, rs) /\ Parse(s, rs) = a[Len(rs)]
<1> DEFINE N == Len(rs)
           S == {n \in 0..N : \E a : IsRun(a, n, s, rs)}
<1>1. 0 \in S
    <2> DEFINE a == [i \in 0..0 |-> s]
    <2>1. IsRun(a, 0, s, rs)
        BY DEF IsRun
    <2> QED BY <2>1
<1>2. ASSUME NEW k \in 0..N, k < N, k \in S
      PROVE  k + 1 \in S
    <2>1. PICK a : IsRun(a, k, s, rs)
        BY <1>2
    <2> DEFINE b == [i \in 0..(k + 1) |-> IF i <= k THEN a[i] ELSE Record(a[k], rs[k + 1])]
    <2>2. ASSUME NEW i \in 0..(k + 1)
          PROVE  b[i] = IF i = 0 THEN s ELSE Record(b[i - 1], rs[i])
        <3>1. CASE i = 0
            BY <2>1, <3>1 DEF IsRun
        <3>2. CASE i \in 1..k
            <4>1. a[i] = Record(a[i - 1], rs[i])
                BY <2>1, <3>2 DEF IsRun
            <4> QED BY <3>2, <4>1
        <3>3. CASE i = k + 1
            BY <3>3
        <3> QED BY <3>1, <3>2, <3>3
    <2>3. IsRun(b, k + 1, s, rs)
        <3>1. b = [i \in 0..(k + 1) |-> b[i]]
            OBVIOUS
        <3> HIDE DEF b
        <3> QED BY <2>2, <3>1 DEF IsRun
    <2> QED BY <1>2, <2>3
<1>3. N \in S
    <2> HIDE DEF S
    <2>1. N \in Nat /\ N \in 0..N
        OBVIOUS
    <2> QED BY <1>1, <1>2, <2>1, Numbers
<1>4. PICK a : IsRun(a, N, s, rs)
    BY <1>3
<1> DEFINE after == CHOOSE f : f = [i \in 0..N |-> IF i = 0 THEN s ELSE Record(f[i - 1], rs[i])]
<1>5. IsRun(after, N, s, rs)
    BY <1>4 DEF IsRun
<1>6. Parse(s, rs) = after[N]
    BY DEF Parse
<1> QED BY <1>5, <1>6

-----------------------------------------------------------------------------
(* The records of one request.                                             *)

Ids == {NoId} \cup {asked.records[i].id : i \in DOMAIN asked.records}

States ==
    [id : Ids,
     got : [host : {NoHost, asked.host}, uri : {"empty", asked.uri}, scheme : BOOLEAN],
     parsed : BOOLEAN, stop : {"none", "closed", "loop"}]

\* The first m records are the beginning of one request, of that id, and what
\* follows of it; parsed says whether its end is among them.
OneRequest(id, parsed, m) ==
    /\ (m = 0) = (id = NoId)
    /\ m > 0 => asked.records[1].kind = "begin" /\ asked.records[1].id = id
    /\ \A i \in 2..m : asked.records[i].kind # "begin" /\ asked.records[i].id = id
    /\ parsed = (\E i \in 2..m : asked.records[i].kind = "stdin")

\* The state of the loop after the first m records of the connection.
After(s, m) == s \in States /\ (s.stop = "none" => OneRequest(s.id, s.parsed, m))

\* The parameters come in one record, or none of them does.
Whole == {"host", "uri", "scheme"}
Together ==
    \A c \in Conversation : \A i \in 1..Len(c.records) :
        Whole \subseteq c.records[i].names \/ Whole \cap c.records[i].names = {}

\* What is known after a read then: all or nothing.
Full == [host |-> asked.host, uri |-> asked.uri, scheme |-> asked.scheme]
AllOrNothing(s) == Together => s.got \in {Fresh, Full}

(* What a conversation is.                                                 *)
LEMMA AskedType ==
    ASSUME asked \in Conversation
    PROVE  /\ asked.records \in Seq(RecordType) /\ Len(asked.records) \in Nat
           /\ DOMAIN asked.records = 1..Len(asked.records)
           /\ asked.host \in HostType /\ asked.scheme \in BOOLEAN
           /\ asked.uri \in {"origin", "short", "file", "robots"}
           /\ \A i \in 1..Len(asked.records) : asked.records[i] \in RecordType
BY RequestAssumption

\* r is the record m of the connection, as far as it was read.
IsRecord(r, m) ==
    /\ r.kind = asked.records[m].kind /\ r.id = asked.records[m].id
    /\ r.names \in {{}, asked.records[m].names} /\ r.cut \in BOOLEAN

(* The parameters of a record.                                             *)
LEMMA ParamsStep ==
    ASSUME asked \in Conversation, NEW s \in States, NEW r,
           NEW m \in 1..Len(asked.records), IsRecord(r, m), AllOrNothing(s)
    PROVE  /\ Params(s, r) \in States /\ AllOrNothing(Params(s, r))
           /\ Params(s, r).id = s.id /\ Params(s, r).parsed = s.parsed
           /\ Params(s, r).stop = IF "loop" \in r.names THEN "loop" ELSE s.stop
<1> DEFINE p == Params(s, r)
           got == [host |-> IF "host" \in r.names THEN asked.host ELSE s.got.host,
                   uri |-> IF "uri" \in r.names THEN asked.uri ELSE s.got.uri,
                   scheme |-> s.got.scheme \/ ("scheme" \in r.names /\ asked.scheme)]
<1>1. asked.scheme \in BOOLEAN /\ asked.records[m] \in RecordType
    BY AskedType
<1>2. CASE "loop" \in r.names
    <2>1. p = [s EXCEPT !.stop = "loop"]
        BY <1>2 DEF Params
    <2>2. p \in States /\ p.got = s.got /\ p.id = s.id /\ p.parsed = s.parsed /\ p.stop = "loop"
        BY <2>1 DEF States
    <2> HIDE DEF p
    <2>3. AllOrNothing(p)
        BY <2>2 DEF AllOrNothing
    <2> QED BY <1>2, <2>2, <2>3 DEF p
<1>3. CASE "loop" \notin r.names
    <2>1. p = [s EXCEPT !.got = got]
        BY <1>3 DEF Params
    <2>2. got \in [host : {NoHost, asked.host}, uri : {"empty", asked.uri}, scheme : BOOLEAN]
        BY <1>1 DEF States
    <2> HIDE DEF p
    <2>3. p \in States /\ p.got = got /\ p.id = s.id /\ p.parsed = s.parsed /\ p.stop = s.stop
        <3> HIDE DEF got
        <3> QED BY <2>1, <2>2 DEF States
    <2>4. ASSUME Together
          PROVE  got \in {Fresh, Full}
        <3>1. s.got \in {Fresh, Full}
            BY <2>4 DEF AllOrNothing
        <3>2. s.got.scheme \in {FALSE, asked.scheme}
            <4>1. CASE s.got = Fresh
                BY <4>1 DEF Fresh
            <4>2. CASE s.got = Full
                BY <4>2 DEF Full
            <4> QED BY <3>1, <4>1, <4>2
        <3>3. CASE Whole \subseteq r.names
            <4>1. got.host = asked.host /\ got.uri = asked.uri
                BY <3>3 DEF Whole
            <4>2. got.scheme = asked.scheme
                BY <1>1, <3>2, <3>3 DEF Whole
            <4>3. got = Full
                BY <4>1, <4>2 DEF Full
            <4> QED BY <4>3
        <3>4. CASE Whole \cap r.names = {}
            <4>1. "host" \notin r.names /\ "uri" \notin r.names /\ "scheme" \notin r.names
                BY <3>4 DEF Whole
            <4>2. got = s.got
                BY <4>1 DEF States
            <4> QED BY <3>1, <4>2
        <3> QED BY <2>4, <3>3, <3>4 DEF Together, IsRecord
    <2>5. AllOrNothing(p)
        BY <2>3, <2>4 DEF AllOrNothing
    <2> QED BY <1>3, <2>3, <2>5 DEF p
<1> QED BY <1>2, <1>3

(* The next record of the request, or the end of it.                       *)
LEMMA OneRequestNext ==
    ASSUME asked \in Conversation, NEW id, NEW parsed \in BOOLEAN, NEW m \in Nat, m < Len(asked.records),
           OneRequest(id, parsed, m)
    PROVE  LET r == asked.records[m + 1] IN
           /\ id = NoId /\ r.kind = "begin" => OneRequest(r.id, parsed, m + 1)
           /\ id # NoId /\ r.kind = "params" /\ r.id = id => OneRequest(id, parsed, m + 1)
           /\ id # NoId /\ r.kind = "stdin" /\ r.id = id => OneRequest(id, TRUE, m + 1)
<1> DEFINE r == asked.records[m + 1]
<1>1. m + 1 \in 1..Len(asked.records) /\ r \in RecordType /\ r.id # NoId
    BY AskedType DEF RecordType, NoId
<1>2. ASSUME id = NoId, r.kind = "begin"
      PROVE  OneRequest(r.id, parsed, m + 1)
    <2>1. m = 0
        BY <1>2 DEF OneRequest
    <2> QED BY <1>1, <1>2, <2>1 DEF OneRequest
<1>3. ASSUME id # NoId, r.kind = "params", r.id = id
      PROVE  OneRequest(id, parsed, m + 1)
    <2>1. m > 0 /\ 2..(m + 1) = (2..m) \cup {m + 1}
        BY <1>3 DEF OneRequest
    <2> QED BY <1>1, <1>3, <2>1 DEF OneRequest
<1>4. ASSUME id # NoId, r.kind = "stdin", r.id = id
      PROVE  OneRequest(id, TRUE, m + 1)
    <2>1. m > 0 /\ 2..(m + 1) = (2..m) \cup {m + 1}
        BY <1>4 DEF OneRequest
    <2> QED BY <1>1, <1>4, <2>1 DEF OneRequest
<1> QED BY <1>2, <1>3, <1>4

(* One turn of the loop.                                                   *)
LEMMA RecordStep ==
    ASSUME asked \in Conversation, NEW m \in Nat, m < Len(asked.records),
           NEW s, After(s, m), AllOrNothing(s), NEW r, IsRecord(r, m + 1)
    PROVE  /\ After(Record(s, r), m + 1) /\ AllOrNothing(Record(s, r))
           /\ Record(s, r).stop = "none" => ~r.cut
<1> DEFINE t == Record(s, r)
<1>1. /\ m + 1 \in 1..Len(asked.records) /\ asked.records[m + 1] \in RecordType
      /\ r.id \in Ids /\ r.kind \in {"begin", "params", "stdin"} /\ s \in States
    BY AskedType DEF IsRecord, RecordType, Ids, After
<1>2. /\ s.parsed \in BOOLEAN /\ (s.stop = "none" => OneRequest(s.id, s.parsed, m))
      /\ r.kind = asked.records[m + 1].kind /\ r.id = asked.records[m + 1].id
    BY <1>1 DEF After, IsRecord, States
<1>3. CASE s.stop # "none" /\ t = s
    BY <1>1, <1>3 DEF After
<1>4. CASE t = [s EXCEPT !.stop = "closed"]
    <2>1. t \in States /\ t.stop = "closed" /\ t.got = s.got
        BY <1>1, <1>4 DEF States
    <2> HIDE DEF t
    <2> QED BY <2>1 DEF After, AllOrNothing, t
<1>5. CASE ~r.cut /\ s.stop = "none" /\ s.id = NoId /\ r.kind = "begin" /\ t = [s EXCEPT !.id = r.id]
    <2>1. t \in States /\ t.stop = "none" /\ t.got = s.got /\ t.id = r.id /\ t.parsed = s.parsed
        BY <1>1, <1>5 DEF States
    <2>2. OneRequest(r.id, s.parsed, m + 1)
        BY <1>2, <1>5, OneRequestNext
    <2> HIDE DEF t
    <2> QED BY <1>5, <2>1, <2>2 DEF After, AllOrNothing, t
<1>6. CASE /\ s.stop = "none" /\ s.id # NoId /\ r.kind = "params" /\ r.id = s.id /\ t = Params(s, r)
           /\ r.cut => "loop" \in r.names
    <2>1. /\ t \in States /\ AllOrNothing(t) /\ t.id = s.id /\ t.parsed = s.parsed
          /\ t.stop = "none" => ~r.cut
        BY <1>1, <1>6, ParamsStep
    <2>2. OneRequest(s.id, s.parsed, m + 1)
        BY <1>2, <1>6, OneRequestNext
    <2> HIDE DEF t
    <2> QED BY <1>6, <2>1, <2>2 DEF After, t
<1>7. CASE ~r.cut /\ s.stop = "none" /\ s.id # NoId /\ r.kind = "stdin" /\ r.id = s.id /\ t = [s EXCEPT !.parsed = TRUE]
    <2>1. t \in States /\ t.stop = "none" /\ t.got = s.got /\ t.id = s.id /\ t.parsed = TRUE
        BY <1>1, <1>7 DEF States
    <2>2. OneRequest(s.id, TRUE, m + 1)
        BY <1>2, <1>7, OneRequestNext
    <2> HIDE DEF t
    <2> QED BY <1>7, <2>1, <2>2 DEF After, AllOrNothing, t
<1> QED BY <1>1, <1>3, <1>4, <1>5, <1>6, <1>7 DEF Record, Looped, IsRecord, RecordType, NoId

-----------------------------------------------------------------------------
(* A read.                                                                 *)

(* What a read makes of the records it has got, whole or cut.              *)
LEMMA ParseKeeps ==
    ASSUME asked \in Conversation, NEW j \in Nat, NEW to \in Nat,
           2 * j < to, to <= 2 * Len(asked.records),
           NEW s, After(s, j), AllOrNothing(s), NEW seen
    PROVE  LET z == Parse(s, Records(2 * j, to, seen)) IN
           /\ z \in States /\ AllOrNothing(z)
           /\ z.stop = "none" => to % 2 = 0 /\ OneRequest(z.id, z.parsed, to \div 2)
<1> DEFINE rs == Records(2 * j, to, seen)
           n == (to - 2 * j + 1) \div 2
           z == Parse(s, rs)
<1>1. /\ n \in Nat /\ n > 0 /\ j + n <= Len(asked.records) /\ Len(asked.records) \in Nat
      /\ 2 * n \in {to - 2 * j, to - 2 * j + 1} /\ (2 * j) \div 2 = j
    BY AskedType
<1> HIDE DEF n
<1>2. Len(rs) = n
    BY <1>1 DEF n, Records
<1>3. \A i \in 1..n : IsRecord(rs[i], j + i) /\ rs[i].cut = (2 * j + 2 * i > to)
    <2> TAKE i \in 1..n
    <2> DEFINE r == asked.records[j + i]
               cut == 2 * j + 2 * i > to
               q == [kind |-> r.kind, id |-> r.id, version |-> r.version,
                     names |-> IF cut /\ ~seen THEN {} ELSE r.names, cut |-> cut]
    <2>1. rs[i] = q
        BY <1>1 DEF n, Records
    <2> HIDE DEF rs
    <2>2. IsRecord(q, j + i) /\ q.cut = (2 * j + 2 * i > to)
        BY DEF IsRecord
    <2> QED BY <2>1, <2>2
<1> HIDE DEF rs
<1>4. PICK a : IsRun(a, n, s, rs) /\ z = a[n]
    BY <1>1, <1>2, Turns
<1> HIDE DEF z
<1> DEFINE S == {k \in 0..n : /\ After(a[k], j + k) /\ AllOrNothing(a[k])
                              /\ k > 0 /\ a[k].stop = "none" => ~rs[k].cut}
<1>5. 0 \in S
    <2>1. a[0] = s /\ j + 0 = j /\ 0 \in 0..n
        BY <1>1, <1>4 DEF IsRun
    <2> QED BY <2>1
<1>6. ASSUME NEW k \in 0..n, k < n, k \in S
      PROVE  k + 1 \in S
    <2>1. /\ k + 1 \in 1..n /\ j + k \in Nat /\ j + k < Len(asked.records) /\ j + (k + 1) = (j + k) + 1
          /\ k + 1 \in 0..n
        <3> DEFINE L == Len(asked.records)
        <3>1. n \in Nat /\ L \in Nat /\ j + n <= L /\ k \in Nat /\ k < n
            BY <1>1, <1>6
        <3> HIDE DEF L, S
        <3>2. k + 1 \in 1..n /\ j + k \in Nat /\ j + k < L /\ j + (k + 1) = (j + k) + 1 /\ k + 1 \in 0..n
            BY <3>1
        <3> QED BY <3>2 DEF L
    <2>2. a[k + 1] = Record(a[k], rs[k + 1])
        BY <1>4, <2>1 DEF IsRun
    <2>3. IsRecord(rs[k + 1], (j + k) + 1)
        BY <1>3, <2>1
    <2>4. After(a[k], j + k) /\ AllOrNothing(a[k])
        BY <1>6
    <2>5. /\ After(a[k + 1], (j + k) + 1) /\ AllOrNothing(a[k + 1])
          /\ a[k + 1].stop = "none" => ~rs[k + 1].cut
        BY <2>1, <2>2, <2>3, <2>4, RecordStep
    <2> QED BY <2>1, <2>5
<1>7. n \in S
    <2> HIDE DEF S
    <2>1. n \in 0..n
        BY <1>1
    <2> QED BY <1>1, <1>5, <1>6, <2>1, Numbers
<1>8. After(z, j + n) /\ AllOrNothing(z) /\ (z.stop = "none" => ~rs[n].cut)
    BY <1>1, <1>4, <1>7
<1>9. ASSUME z.stop = "none"
      PROVE  to % 2 = 0 /\ to \div 2 = j + n
    <2>1. ~(2 * j + 2 * n > to)
        <3>1. n \in 1..n
            BY <1>1
        <3>2. rs[n].cut = (2 * j + 2 * n > to)
            BY <1>3, <3>1
        <3> QED BY <1>8, <1>9, <3>2
    <2> QED BY <1>1, <2>1
<1> QED BY <1>8, <1>9 DEF After, z, rs

-----------------------------------------------------------------------------
(* The invariant.                                                          *)

Types ==
    /\ asked \in Conversation
    /\ arrived \in 0..(2 * Len(asked.records)) /\ consumed \in 0..arrived
    /\ accepted \in BOOLEAN /\ edge \in BOOLEAN /\ fullyParsed \in BOOLEAN
    /\ fastcgiid \in Ids
    /\ answer \in {"none", "closed", "loop", "robots", "usage", "load"}

\* Who is not accepted yet has read nothing.
NothingRead == ~accepted => consumed = 0 /\ answer = "none"

\* Unless the connection is closed, what was read is one request, whole records
\* of it; it is answered when its end was read.
ReadWhole ==
    answer \notin {"closed", "loop"} =>
        /\ consumed % 2 = 0
        /\ OneRequest(fastcgiid, fullyParsed, consumed \div 2)
        /\ fullyParsed = (answer # "none")

\* The origin that was given to loadUrl.
Loaded ==
    /\ (answer = "load") = (load # NoLoad)
    /\ answer = "load" /\ Together =>
        load = [host |-> Origin(asked.host, asked.uri), https |-> Secure(asked.host, asked.scheme)]

\* Without an event to come all that has arrived was read, if it fits a read.
AllRead ==
    accepted /\ ~edge /\ answer = "none" /\ 2 * Len(asked.records) <= ReadSize => consumed = arrived

IInv == Types /\ NothingRead /\ ReadWhole /\ Loaded /\ AllRead

-----------------------------------------------------------------------------
(* The origin.                                                             *)

(* What becomes of a name.                                                 *)
LEMMA OriginNames ==
    \A h, uri : Origin(h, uri) \in {"uri", "self", "usage", "decoded", "empty"}
<1>1. \A uri : FromUri(uri) \in {"uri", "self", "usage"}
    BY DEF FromUri
<1>2. \A front, n : Decode(front, n) \in {"decoded", "empty"}
    BY DEF Decode
<1>3. \A h, uri, n, tail : ByLabel(h, uri, n, tail) \in {"uri", "self", "usage", "decoded", "empty"}
    BY <1>1, <1>2 DEF ByLabel
<1> TAKE h, uri
<1> DEFINE confiared == RFind(h.suffix, "confiared", h.size, 14) = Minus(h.size, 14)
           bolivia == RFind(h.suffix, "bolivia", h.size, 19) = Minus(h.size, 19)
           mark == IF confiared THEN Minus(h.size, 14) ELSE Minus(h.size, 19)
           n == IF mark > h.size THEN h.size ELSE mark
<1>4. Origin(h, uri) =
        CASE ~confiared /\ ~bolivia -> FromUri(uri)
          [] (confiared \/ bolivia) /\ Ends(h, n, "cdn") -> ByLabel(h, uri, n, "cdn")
          [] (confiared \/ bolivia) /\ ~Ends(h, n, "cdn") /\ Ends(h, n, "cdn1") -> ByLabel(h, uri, n, "cdn1")
          [] OTHER -> "self"
    BY DEF Origin
<1> HIDE DEF n, mark, confiared, bolivia
<1> QED BY <1>1, <1>3, <1>4

(* Sizes are subtracted modulo a number that is larger than any of them.   *)
LEMMA MinusIs ==
    ASSUME NEW a \in Nat, NEW b \in Nat, a < 2^Width, b < 2^Width
    PROVE  Minus(a, b) = IF a >= b THEN a - b ELSE a - b + 2^Width
<1> DEFINE M == 2^Width
<1>1. M \in Nat /\ M > 19
    BY RequestAssumption
<1> HIDE DEF M
<1>2. \A x \in 0..(M - 1) : x % M = x
    BY <1>1
<1>3. \A x \in 1..(M - 1) : (x - M) % M = x
    BY <1>1
<1>4. CASE a >= b
    <2>1. a - b \in 0..(M - 1) /\ Minus(a, b) = (a - b) % M
        BY <1>1, <1>4 DEF M, Minus
    <2> QED BY <1>2, <1>4, <2>1
<1>5. CASE a < b
    <2>1. a - b + M \in 1..(M - 1) /\ a - b = (a - b + M) - M /\ Minus(a, b) = (a - b) % M
        BY <1>1, <1>5 DEF M, Minus
    <2> QED BY <1>3, <1>5, <2>1 DEF M
<1> QED BY <1>4, <1>5

(* A request that names nothing gets the usage.                            *)
LEMMA FreshIsUsage == Outcome(Fresh) = "usage"
<1>1. /\ 2^Width \in Nat /\ 2^Width > 19 /\ Minus(0, 14) = 2^Width - 14 /\ Minus(0, 19) = 2^Width - 19
    <2>1. 2^Width \in Nat /\ 2^Width > 19
        BY RequestAssumption
    <2>2. 0 < 2^Width /\ 14 < 2^Width /\ 19 < 2^Width
        BY <2>1
    <2>3. Minus(0, 14) = 0 - 14 + 2^Width /\ Minus(0, 19) = 0 - 19 + 2^Width
        BY <2>2, MinusIs
    <2> QED BY <2>1, <2>3
<1>2. NoHost.size = 0 /\ NoHost.suffix = "none"
    BY DEF NoHost
<1>3. /\ RFind(NoHost.suffix, "confiared", NoHost.size, 14) # Minus(NoHost.size, 14)
      /\ RFind(NoHost.suffix, "bolivia", NoHost.size, 19) # Minus(NoHost.size, 19)
    BY <1>1, <1>2 DEF RFind, Npos
<1>4. Origin(NoHost, "empty") = FromUri("empty")
    BY <1>3 DEF Origin
<1>5. Origin(NoHost, "empty") = "usage"
    BY <1>4 DEF FromUri
<1> QED BY <1>5 DEF Outcome, Fresh

-----------------------------------------------------------------------------
(* The steps.                                                              *)

LEMMA InitStep == Init => IInv
<1> SUFFICES ASSUME Init
             PROVE  IInv
    OBVIOUS
<1>1. asked \in Conversation /\ Len(asked.records) \in Nat
    BY AskedType DEF Init
<1>2. Types
    <2>1. arrived \in 0..(2 * Len(asked.records)) /\ consumed \in 0..arrived
        BY <1>1 DEF Init
    <2>2. fastcgiid \in Ids
        BY DEF Init, Ids
    <2> QED BY <1>1, <2>1, <2>2 DEF Init, Types
<1>3. OneRequest(fastcgiid, fullyParsed, 0)
    <2>1. 2..0 = {} /\ ~(0 > 0) /\ fastcgiid = NoId /\ fullyParsed = FALSE
        BY DEF Init
    <2>2. fullyParsed = (\E i \in 2..0 : asked.records[i].kind = "stdin")
        BY <2>1, Zenon
    <2> QED BY <2>1, <2>2, Zenon DEF OneRequest
<1>4. ReadWhole
    <2>1. consumed % 2 = 0 /\ consumed \div 2 = 0
        BY DEF Init
    <2> QED BY <1>3, <2>1 DEF Init, ReadWhole
<1>5. NothingRead /\ Loaded /\ AllRead
    BY DEF Init, NothingRead, Loaded, AllRead
<1> QED BY <1>2, <1>4, <1>5 DEF IInv

(* What a read does when it is not ignored and the socket is not empty.    *)
LEMMA ReadRead ==
    ASSUME IInv, answer = "none", NEW e, NEW seen, ReadyToRead(e, seen)
    PROVE  /\ consumed' \in consumed..arrived
           /\ consumed' = consumed => UNCHANGED <<consumed, fastcgiid, fullyParsed, answer, load>>
           /\ arrived - consumed <= ReadSize => consumed' = arrived
           /\ consumed' # consumed =>
                \E s \in States :
                    /\ AllOrNothing(s)
                    /\ s.stop = "none" => consumed' % 2 = 0 /\ OneRequest(s.id, s.parsed, consumed' \div 2)
                    /\ fastcgiid' = s.id /\ fullyParsed' = s.parsed
                    /\ s.stop # "none" => answer' = s.stop /\ load' = load
                    /\ s.stop = "none" /\ ~s.parsed => UNCHANGED <<answer, load>>
                    /\ s.stop = "none" /\ s.parsed =>
                        /\ answer' = Outcome(s.got)
                        /\ load' = IF Outcome(s.got) # "load" THEN load
                                   ELSE [host |-> Origin(s.got.host, s.got.uri),
                                         https |-> Secure(s.got.host, s.got.scheme)]
<1> DEFINE to == IF arrived - consumed > ReadSize THEN consumed + ReadSize ELSE arrived
           s0 == [id |-> fastcgiid, got |-> Fresh, parsed |-> FALSE, stop |-> "none"]
           s == Parse(s0, Records(consumed, to, seen))
<1>1. /\ asked \in Conversation /\ Len(asked.records) \in Nat /\ ReadSize \in Nat /\ ReadSize > 0
      /\ arrived \in 0..(2 * Len(asked.records)) /\ consumed \in 0..arrived /\ fastcgiid \in Ids
    BY AskedType, RequestAssumption DEF IInv, Types
<1>2. consumed % 2 = 0 /\ OneRequest(fastcgiid, FALSE, consumed \div 2) /\ ~fullyParsed
    BY DEF IInv, Types, ReadWhole
<1>3. to \in consumed..arrived /\ (to = consumed => arrived = consumed)
      /\ (arrived - consumed <= ReadSize => to = arrived)
    BY <1>1
<1>4. CASE to = consumed
    <2>1. UNCHANGED <<consumed, fastcgiid, fullyParsed, answer, load>>
        BY <1>4 DEF ReadyToRead
    <2> QED BY <1>1, <1>3, <1>4, <2>1
<1>5. CASE to # consumed
    <2>1. s0.id = fastcgiid /\ s0.got = Fresh /\ s0.parsed = FALSE /\ s0.stop = "none" /\ s0 \in States
        BY <1>1 DEF States, Fresh
    <2> HIDE DEF s0, to
    <2>2. After(s0, consumed \div 2) /\ AllOrNothing(s0)
        BY <1>2, <2>1 DEF After, AllOrNothing
    <2>3. PICK j \in Nat : consumed = 2 * j /\ consumed \div 2 = j
        <3>1. consumed \div 2 \in Nat /\ consumed = 2 * (consumed \div 2)
            BY <1>1, <1>2
        <3> QED BY <3>1
    <2>4. 2 * j < to /\ to <= 2 * Len(asked.records) /\ to \in Nat
        BY <1>1, <1>3, <1>5, <2>3
    <2>5. /\ s \in States /\ AllOrNothing(s)
          /\ s.stop = "none" => to % 2 = 0 /\ OneRequest(s.id, s.parsed, to \div 2)
        BY <1>1, <2>2, <2>3, <2>4, ParseKeeps
    <2>6. /\ consumed' = to
          /\ fastcgiid' = s.id
          /\ fullyParsed' = s.parsed
          /\ IF s.stop # "none" THEN answer' = s.stop /\ load' = load
             ELSE IF ~s.parsed THEN UNCHANGED <<answer, load>>
             ELSE /\ answer' = Outcome(s.got)
                  /\ load' = IF Outcome(s.got) # "load" THEN load
                             ELSE [host |-> Origin(s.got.host, s.got.uri),
                                   https |-> Secure(s.got.host, s.got.scheme)]
        BY <1>2, <1>5 DEF ReadyToRead, Ignored, s0, to
    <2> HIDE DEF s
    <2> QED BY <1>3, <1>5, <2>5, <2>6
<1> QED BY <1>4, <1>5

(* A read of a client that was not answered.                               *)
LEMMA ReadStep ==
    ASSUME IInv, answer = "none", NEW e \in BOOLEAN, NEW seen, ReadyToRead(e, seen), accepted' = TRUE,
           UNCHANGED <<asked, arrived>>
    PROVE  IInv'
<1>1. /\ asked \in Conversation /\ Len(asked.records) \in Nat /\ ReadSize \in Nat
      /\ arrived \in 0..(2 * Len(asked.records)) /\ consumed \in 0..arrived /\ load = NoLoad
    BY AskedType, RequestAssumption DEF IInv, Types, Loaded
<1>2. edge' = e /\ Ids' = Ids
    BY DEF ReadyToRead, Ids
<1>3. NothingRead'
    BY DEF NothingRead
<1>4. AllRead'
    BY <1>1, ReadRead DEF AllRead
<1>5. CASE consumed' = consumed
    <2>1. UNCHANGED <<consumed, fastcgiid, fullyParsed, answer, load>>
        BY <1>5, ReadRead
    <2>2. Types'
        BY <1>2, <2>1 DEF IInv, Types
    <2>3. ReadWhole'
        BY <2>1 DEF IInv, ReadWhole, OneRequest
    <2>4. Loaded'
        BY <2>1 DEF IInv, Loaded
    <2> QED BY <1>3, <1>4, <2>2, <2>3, <2>4 DEF IInv
<1>6. CASE consumed' # consumed
    <2>1. PICK s \in States :
                /\ AllOrNothing(s)
                /\ s.stop = "none" => consumed' % 2 = 0 /\ OneRequest(s.id, s.parsed, consumed' \div 2)
                /\ fastcgiid' = s.id /\ fullyParsed' = s.parsed
                /\ s.stop # "none" => answer' = s.stop /\ load' = load
                /\ s.stop = "none" /\ ~s.parsed => UNCHANGED <<answer, load>>
                /\ s.stop = "none" /\ s.parsed =>
                    /\ answer' = Outcome(s.got)
                    /\ load' = IF Outcome(s.got) # "load" THEN load
                               ELSE [host |-> Origin(s.got.host, s.got.uri),
                                     https |-> Secure(s.got.host, s.got.scheme)]
        BY <1>6, ReadRead
    <2>2. /\ s.id \in Ids /\ s.parsed \in BOOLEAN /\ s.stop \in {"none", "closed", "loop"}
          /\ consumed' \in 0..arrived
        BY <1>1, ReadRead DEF States
    <2>3. Outcome(s.got) \in {"robots", "usage", "load"}
        BY DEF Outcome
    <2>4. Types'
        BY <1>1, <1>2, <2>1, <2>2, <2>3 DEF Types
    <2>5. OneRequest(s.id, s.parsed, consumed' \div 2) => OneRequest(fastcgiid, fullyParsed, consumed \div 2)'
        BY <2>1 DEF OneRequest
    <2>6. ReadWhole'
        BY <2>1, <2>2, <2>3, <2>5 DEF ReadWhole
    <2>7. Loaded'
        <3>1. CASE answer' # "load"
            BY <1>1, <2>1, <3>1 DEF Loaded
        <3>2. CASE answer' = "load"
            <4>1. /\ Outcome(s.got) = "load"
                  /\ load' = [host |-> Origin(s.got.host, s.got.uri),
                              https |-> Secure(s.got.host, s.got.scheme)]
                BY <2>1, <2>2, <3>2
            <4>2. load'.host \in {"uri", "self", "usage", "decoded", "empty"}
                BY <4>1, OriginNames
            <4>3. load' # NoLoad
                BY <4>2 DEF NoLoad
            <4>4. ASSUME Together
                  PROVE  load' = [host |-> Origin(asked.host, asked.uri),
                                  https |-> Secure(asked.host, asked.scheme)]
                <5>1. s.got = Full
                    BY <2>1, <4>1, <4>4, FreshIsUsage DEF AllOrNothing
                <5>2. s.got.host = asked.host /\ s.got.uri = asked.uri /\ s.got.scheme = asked.scheme
                    BY <5>1 DEF Full
                <5> QED BY <4>1, <5>2
            <4> QED BY <3>2, <4>3, <4>4 DEF Loaded
        <3> QED BY <3>1, <3>2
    <2> QED BY <1>3, <1>4, <2>4, <2>6, <2>7 DEF IInv
<1> QED BY <1>5, <1>6

LEMMA ArriveStep ==
    ASSUME IInv, NEW n \in 1..(2 * Len(asked.records)), Arrive(n)
    PROVE  IInv'
<1>1. Len(asked.records) \in Nat
    BY AskedType DEF IInv, Types
<1>2. Types'
    <2>1. arrived' \in 0..(2 * Len(asked.records)) /\ consumed \in 0..arrived' /\ edge' \in BOOLEAN
        BY <1>1 DEF IInv, Types, Arrive
    <2> QED BY <2>1 DEF IInv, Types, Arrive, Ids
<1>3. NothingRead' /\ Loaded' /\ AllRead'
    BY DEF IInv, NothingRead, Loaded, AllRead, Arrive
<1>4. ReadWhole'
    BY DEF IInv, ReadWhole, OneRequest, Arrive
<1> QED BY <1>2, <1>3, <1>4 DEF IInv

(* Nothing is read any more.                                               *)
LEMMA IgnoredStep ==
    ASSUME IInv, answer # "none", edge' \in BOOLEAN,
           UNCHANGED <<asked, arrived, accepted, consumed, fastcgiid, fullyParsed, answer, load>>
    PROVE  IInv'
<1>1. Types'
    BY DEF IInv, Types, Ids
<1>2. NothingRead' /\ Loaded' /\ AllRead'
    BY DEF IInv, NothingRead, Loaded, AllRead
<1>3. ReadWhole'
    BY DEF IInv, ReadWhole, OneRequest
<1> QED BY <1>1, <1>2, <1>3 DEF IInv

(* An event of a client that was answered changes nothing but edge.        *)
LEMMA AnsweredEvent ==
    ASSUME IInv, answer # "none", Event
    PROVE  /\ edge' = FALSE
           /\ UNCHANGED <<asked, arrived, accepted, consumed, fastcgiid, fullyParsed, answer, load>>
<1>1. CASE answer = "load"
    <2>1. fullyParsed
        BY <1>1 DEF IInv, ReadWhole
    <2> QED BY <1>1, <2>1 DEF Event, ReadyToRead, Ignored
<1>2. CASE answer # "load"
    BY <1>2 DEF Event
<1> QED BY <1>1, <1>2

LEMMA NextStep == IInv /\ [Next]_vars => IInv'
<1> SUFFICES ASSUME IInv, [Next]_vars
             PROVE  IInv'
    OBVIOUS
<1>1. ASSUME NEW n \in 1..(2 * Len(asked.records)), Arrive(n)
      PROVE  IInv'
    BY <1>1, ArriveStep
<1>2. CASE Accept
    <2>1. answer = "none"
        BY <1>2 DEF Accept, IInv, NothingRead
    <2>2. PICK seen \in BOOLEAN : ReadyToRead(TRUE, seen)
        BY <1>2 DEF Accept
    <2> QED BY <1>2, <2>1, <2>2, ReadStep DEF Accept
<1>3. CASE Event
    <2>1. CASE answer = "none"
        <3>1. accepted' = TRUE /\ UNCHANGED <<asked, arrived>>
            BY <1>3, <2>1 DEF Event, IInv, Types
        <3>2. PICK seen \in BOOLEAN : ReadyToRead(FALSE, seen)
            BY <1>3, <2>1 DEF Event
        <3> QED BY <2>1, <3>1, <3>2, ReadStep
    <2>2. CASE answer # "none"
        BY <1>3, <2>2, AnsweredEvent, IgnoredStep
    <2> QED BY <2>1, <2>2
<1>4. CASE UNCHANGED vars
    <2>1. Types'
        BY <1>4 DEF vars, IInv, Types, Ids
    <2>2. NothingRead' /\ Loaded' /\ AllRead'
        BY <1>4 DEF vars, IInv, NothingRead, Loaded, AllRead
    <2>3. ReadWhole'
        BY <1>4 DEF vars, IInv, ReadWhole, OneRequest
    <2> QED BY <2>1, <2>2, <2>3 DEF IInv
<1> QED BY <1>1, <1>2, <1>3, <1>4 DEF Next, Done

(* The invariant of a connection of the web server.                        *)
THEOREM Invariance == Spec => []IInv
BY InitStep, NextStep, PTL DEF Spec

-----------------------------------------------------------------------------
(* What a name means.                                                      *)

\* NamesAssumption, of one name.
Named(h) ==
    h.suffix # "none" =>
        /\ h.size >= SuffixSize[h.suffix] + TailSize[h.tail]
        /\ h.front = "none" => h.size = SuffixSize[h.suffix] + TailSize[h.tail]
        /\ h.front # "none" /\ h.tail # "none" => h.size >= SuffixSize[h.suffix] + TailSize[h.tail] + 2

LEMMA Sizes ==
    /\ SuffixSize["confiared"] = 14 /\ SuffixSize["bolivia"] = 19 /\ SuffixSize["none"] = 0
    /\ TailSize["cdn"] = 3 /\ TailSize["cdn1"] = 4 /\ TailSize["none"] = 0
BY DEF SuffixSize, TailSize

(* A suffix is found where it is, unless a size wraps.                     *)
LEMMA SuffixFound ==
    ASSUME NEW h \in HostType, Named(h), ~Wraps(h)
    PROVE  /\ (RFind(h.suffix, "confiared", h.size, 14) = Minus(h.size, 14)) = (h.suffix = "confiared")
           /\ (RFind(h.suffix, "bolivia", h.size, 19) = Minus(h.size, 19)) = (h.suffix = "bolivia")
           /\ h.suffix # "none" => Minus(h.size, SuffixSize[h.suffix]) = h.size - SuffixSize[h.suffix]
<1> DEFINE M == 2^Width
           z == h.size
<1>1. /\ M \in Nat /\ M > 19 /\ z \in Nat /\ z < M /\ 14 < M /\ 19 < M /\ z # 13 /\ z # 18
      /\ h.suffix \in {"none", "confiared", "bolivia"} /\ h.tail \in {"none", "cdn", "cdn1"}
    BY RequestAssumption DEF HostType, Wraps
<1>2. /\ Minus(z, 14) = IF z >= 14 THEN z - 14 ELSE z - 14 + M
      /\ Minus(z, 19) = IF z >= 19 THEN z - 19 ELSE z - 19 + M
    BY <1>1, MinusIs
<1>3. h.suffix = "confiared" => z >= 14
    BY <1>1, Sizes DEF Named
<1>4. h.suffix = "bolivia" => z >= 19
    BY <1>1, Sizes DEF Named
<1>5. Npos = M - 1
    BY DEF Npos
<1> HIDE DEF M, z
<1>6. (RFind(h.suffix, "confiared", z, 14) = Minus(z, 14)) = (h.suffix = "confiared")
    BY <1>1, <1>2, <1>3, <1>5 DEF RFind
<1>7. (RFind(h.suffix, "bolivia", z, 19) = Minus(z, 19)) = (h.suffix = "bolivia")
    BY <1>1, <1>2, <1>4, <1>5 DEF RFind
<1>8. h.suffix # "none" => Minus(z, SuffixSize[h.suffix]) = z - SuffixSize[h.suffix]
    BY <1>1, <1>2, <1>3, <1>4, Sizes
<1> QED BY <1>6, <1>7, <1>8 DEF z

(* So is a tail, and what is in front of it is decoded.                    *)
LEMMA TailFound ==
    ASSUME NEW h \in HostType, Named(h), ~Wraps(h), h.suffix # "none", NEW uri
    PROVE  LET n == h.size - SuffixSize[h.suffix] IN
           /\ n \in Nat /\ n <= h.size
           /\ h.tail = "none" => ~Ends(h, n, "cdn") /\ ~Ends(h, n, "cdn1")
           /\ h.tail = "cdn" => Ends(h, n, "cdn") /\ ByLabel(h, uri, n, "cdn") = Meaning(h, uri)
           /\ h.tail = "cdn1" => /\ ~Ends(h, n, "cdn") /\ Ends(h, n, "cdn1")
                                 /\ ByLabel(h, uri, n, "cdn1") = Meaning(h, uri)
<1> DEFINE M == 2^Width
           n == h.size - SuffixSize[h.suffix]
<1>1. /\ M \in Nat /\ M > 19 /\ h.size \in Nat /\ h.size < M
      /\ h.suffix \in {"confiared", "bolivia"} /\ h.tail \in {"none", "cdn", "cdn1"}
    BY RequestAssumption DEF HostType
<1>2. /\ n \in Nat /\ n < M - 1 /\ n <= h.size /\ n >= TailSize[h.tail]
      /\ h.front = "none" => n = TailSize[h.tail]
      /\ h.front # "none" /\ h.tail # "none" => n >= TailSize[h.tail] + 2
      /\ h.tail = "none" => n # 2 /\ n # 3
      /\ h.tail # "none" /\ h.front # "none" => Meaning(h, uri) = Decode(h.front, n - TailSize[h.tail] - 1)
      /\ h.tail # "none" /\ h.front = "none" => Meaning(h, uri) = FromUri(uri)
    BY <1>1, Sizes DEF Named, Wraps, Meaning
<1> HIDE DEF n
<1>3. /\ Minus(n, 3) = IF n >= 3 THEN n - 3 ELSE n - 3 + M
      /\ Minus(n, 4) = IF n >= 4 THEN n - 4 ELSE n - 4 + M
    BY <1>1, <1>2, MinusIs
<1>4. Npos = M - 1
    BY DEF Npos
<1> HIDE DEF M
<1>5. CASE h.tail = "none"
    BY <1>1, <1>2, <1>3, <1>4, <1>5, Sizes DEF Ends, RFind, n
<1>6. CASE h.tail = "cdn"
    <2>1. n >= 3 /\ Minus(n, TailSize["cdn"]) = n - 3
        BY <1>2, <1>3, <1>6, Sizes
    <2>2. Ends(h, n, "cdn")
        BY <1>6, <2>1, Sizes DEF Ends, RFind
    <2>3. ByLabel(h, uri, n, "cdn") = Meaning(h, uri)
        <3>1. CASE h.front = "none"
            <4>1. n - 3 = 0 /\ Meaning(h, uri) = FromUri(uri)
                BY <1>2, <1>6, <3>1, Sizes
            <4> QED BY <2>1, <4>1 DEF ByLabel
        <3>2. CASE h.front # "none"
            <4>1. n - 3 > 1 /\ ~((n - 3) - 1 > n) /\ Meaning(h, uri) = Decode(h.front, (n - 3) - 1)
                BY <1>2, <1>6, <3>2, Sizes
            <4> QED BY <2>1, <4>1 DEF ByLabel
        <3> QED BY <3>1, <3>2
    <2> QED BY <1>2, <1>6, <2>2, <2>3 DEF n
<1>7. CASE h.tail = "cdn1"
    <2>1. n >= 4 /\ Minus(n, TailSize["cdn1"]) = n - 4 /\ Minus(n, TailSize["cdn"]) = n - 3
        BY <1>2, <1>3, <1>7, Sizes
    <2>2. Ends(h, n, "cdn1") /\ ~Ends(h, n, "cdn")
        BY <1>1, <1>2, <1>4, <1>7, <2>1, Sizes DEF Ends, RFind
    <2>3. ByLabel(h, uri, n, "cdn1") = Meaning(h, uri)
        <3>1. CASE h.front = "none"
            <4>1. n - 4 = 0 /\ Meaning(h, uri) = FromUri(uri)
                BY <1>2, <1>7, <3>1, Sizes
            <4> QED BY <2>1, <4>1 DEF ByLabel
        <3>2. CASE h.front # "none"
            <4>1. n - 4 > 1 /\ ~((n - 4) - 1 > n) /\ Meaning(h, uri) = Decode(h.front, (n - 4) - 1)
                BY <1>2, <1>7, <3>2, Sizes
            <4> QED BY <2>1, <4>1 DEF ByLabel
        <3> QED BY <3>1, <3>2
    <2> QED BY <1>2, <1>7, <2>2, <2>3 DEF n
<1> QED BY <1>1, <1>5, <1>6, <1>7

(* The code finds the origin a name means, unless a size wraps.            *)
LEMMA OriginIsMeant ==
    ASSUME NEW h \in HostType, Named(h), ~Wraps(h), NEW uri
    PROVE  Origin(h, uri) = Meaning(h, uri)
<1> DEFINE confiared == RFind(h.suffix, "confiared", h.size, 14) = Minus(h.size, 14)
           bolivia == RFind(h.suffix, "bolivia", h.size, 19) = Minus(h.size, 19)
           mark == IF confiared THEN Minus(h.size, 14) ELSE Minus(h.size, 19)
           n == IF mark > h.size THEN h.size ELSE mark
<1>1. Origin(h, uri) =
        CASE ~confiared /\ ~bolivia -> FromUri(uri)
          [] (confiared \/ bolivia) /\ Ends(h, n, "cdn") -> ByLabel(h, uri, n, "cdn")
          [] (confiared \/ bolivia) /\ ~Ends(h, n, "cdn") /\ Ends(h, n, "cdn1") -> ByLabel(h, uri, n, "cdn1")
          [] OTHER -> "self"
    BY DEF Origin
<1>2. confiared = (h.suffix = "confiared") /\ bolivia = (h.suffix = "bolivia")
    BY SuffixFound
<1>3. h.suffix \in {"none", "confiared", "bolivia"} /\ h.tail \in {"none", "cdn", "cdn1"} /\ h.size \in Nat
    BY RequestAssumption DEF HostType
<1>4. h.suffix # "none" => mark = h.size - SuffixSize[h.suffix]
    BY <1>2, <1>3, SuffixFound, Sizes
<1> HIDE DEF confiared, bolivia, mark
<1>5. CASE h.suffix = "none"
    <2>1. Meaning(h, uri) = FromUri(uri)
        BY <1>5 DEF Meaning
    <2> QED BY <1>1, <1>2, <1>5, <2>1
<1>6. CASE h.suffix # "none"
    <2> DEFINE m == h.size - SuffixSize[h.suffix]
    <2>1. /\ m \in Nat /\ m <= h.size
          /\ h.tail = "none" => ~Ends(h, m, "cdn") /\ ~Ends(h, m, "cdn1")
          /\ h.tail = "cdn" => Ends(h, m, "cdn") /\ ByLabel(h, uri, m, "cdn") = Meaning(h, uri)
          /\ h.tail = "cdn1" => /\ ~Ends(h, m, "cdn") /\ Ends(h, m, "cdn1")
                                /\ ByLabel(h, uri, m, "cdn1") = Meaning(h, uri)
        BY <1>6, TailFound
    <2>2. mark = m
        BY <1>4, <1>6
    <2> HIDE DEF m
    <2>3. n = m
        BY <1>3, <2>1, <2>2
    <2>4. h.tail = "none" => Meaning(h, uri) = "self"
        BY <1>6 DEF Meaning
    <2>5. confiared \/ bolivia
        BY <1>2, <1>3, <1>6
    <2> HIDE DEF n
    <2>6. CASE h.tail = "none"
        BY <1>1, <2>1, <2>3, <2>4, <2>5, <2>6
    <2>7. CASE h.tail = "cdn"
        BY <1>1, <2>1, <2>3, <2>5, <2>7
    <2>8. CASE h.tail = "cdn1"
        BY <1>1, <2>1, <2>3, <2>5, <2>8
    <2> QED BY <1>3, <2>6, <2>7, <2>8
<1> QED BY <1>5, <1>6

-----------------------------------------------------------------------------
(* The properties.                                                         *)

(* The fields of a Client and what it has read of its socket.              *)
THEOREM TypeCorrect == Spec => []TypeOK
<1>1. IInv => TypeOK
    <2> SUFFICES ASSUME IInv
                 PROVE  TypeOK
        OBVIOUS
    <2>1. asked \in Conversation /\ Len(asked.records) \in Nat
        BY AskedType DEF IInv, Types
    <2>2. consumed <= arrived /\ arrived <= 2 * Len(asked.records)
        BY <2>1 DEF IInv, Types
    <2> QED BY <2>2 DEF IInv, Types, ReadWhole, Loaded, TypeOK, Ids
<1> QED BY <1>1, Invariance, PTL

(* What is answered is one request, however its records are cut and        *)
(* whatever comes in their place.                                          *)
THEOREM OneRequestCorrect == Spec => []OnlyOneRequest
<1>1. IInv => OnlyOneRequest
    <2> SUFFICES ASSUME IInv, answer \in {"robots", "usage", "load"}
                 PROVE  LET read == SubSeq(asked.records, 1, consumed \div 2) IN
                        /\ read[1].kind = "begin"
                        /\ \A i \in 2..Len(read) : read[i].kind # "begin" /\ read[i].id = read[1].id
                        /\ \E i \in 2..Len(read) : read[i].kind = "stdin"
        BY DEF OnlyOneRequest
    <2> DEFINE m == consumed \div 2
               read == SubSeq(asked.records, 1, m)
    <2>1. /\ asked.records \in Seq(RecordType) /\ Len(asked.records) \in Nat
          /\ m \in Nat /\ m <= Len(asked.records)
        BY AskedType DEF IInv, Types
    <2>2. OneRequest(fastcgiid, fullyParsed, m) /\ fullyParsed = TRUE
        BY DEF IInv, Types, ReadWhole
    <2> HIDE DEF m
    <2>3. Len(read) = m /\ \A i \in 1..m : read[i] = asked.records[i]
        BY <2>1
    <2> HIDE DEF read
    <2>4. PICK k \in 2..m : asked.records[k].kind = "stdin"
        BY <2>2 DEF OneRequest
    <2>5. 1 \in 1..m /\ k \in 1..m /\ \A i \in 2..m : i \in 1..m
        BY <2>1, <2>4
    <2>6. /\ asked.records[1].kind = "begin" /\ asked.records[1].id = fastcgiid
          /\ \A i \in 2..m : asked.records[i].kind # "begin" /\ asked.records[i].id = fastcgiid
        BY <2>1, <2>2, <2>4 DEF OneRequest
    <2> QED BY <2>3, <2>4, <2>5, <2>6 DEF read, m
<1> QED BY <1>1, Invariance, PTL

(* An answer is never taken back, nor given twice.                         *)
THEOREM AnsweredCorrect == Spec => AnsweredOnce
<1>1. IInv /\ [Next]_vars => [answer # "none" => answer' = answer /\ load' = load]_vars
    <2> SUFFICES ASSUME IInv, Next, answer # "none"
                 PROVE  answer' = answer /\ load' = load
        BY DEF vars
    <2>1. ASSUME NEW n \in 1..(2 * Len(asked.records)), Arrive(n)
          PROVE  answer' = answer /\ load' = load
        BY <2>1 DEF Arrive
    <2>2. CASE Accept
        BY <2>2 DEF Accept, IInv, NothingRead
    <2>3. CASE Event
        BY <2>3, AnsweredEvent
    <2>4. CASE Done
        BY <2>4 DEF Done, vars
    <2> QED BY <2>1, <2>2, <2>3, <2>4 DEF Next
<1> QED BY <1>1, Invariance, PTL DEF Spec, AnsweredOnce

\* The web server sends the end of its request.
Ended ==
    \A c \in Conversation : \E i \in 1..Len(c.records) : c.records[i].kind = "stdin"

(* No event is missed: a request that fits one read and has its end is     *)
(* answered or refused when all of it has arrived, in whatever parts.      *)
THEOREM ForgottenNever ==
    ASSUME Ended
    PROVE  Spec => []NotForgotten
<1>1. IInv => NotForgotten
    <2> SUFFICES ASSUME IInv, Quiet, 2 * Len(asked.records) <= ReadSize, answer = "none"
                 PROVE  FALSE
        BY DEF NotForgotten
    <2>1. asked \in Conversation /\ Len(asked.records) \in Nat
        BY AskedType DEF IInv, Types
    <2>2. consumed = 2 * Len(asked.records)
        BY DEF Quiet, IInv, AllRead
    <2>3. consumed \div 2 = Len(asked.records)
        <3> DEFINE N == Len(asked.records)
        <3>1. N \in Nat /\ consumed = 2 * N
            BY <2>1, <2>2
        <3> HIDE DEF N
        <3>2. consumed \div 2 = N
            BY <3>1
        <3> QED BY <3>2 DEF N
    <2>4. OneRequest(fastcgiid, fullyParsed, Len(asked.records)) /\ fullyParsed = FALSE
        BY <2>3 DEF IInv, ReadWhole
    <2>5. PICK i \in 1..Len(asked.records) : asked.records[i].kind = "stdin"
        BY <2>1 DEF Ended
    <2>6. i # 1 /\ i \in 2..Len(asked.records)
        BY <2>1, <2>4, <2>5 DEF OneRequest
    <2> QED BY <2>4, <2>5, <2>6 DEF OneRequest
<1> QED BY <1>1, Invariance, PTL

(* Where the parameters come in one record, what is loaded is the origin   *)
(* and the scheme they mean, for every name whose size does not wrap.      *)
THEOREM ServedCorrect ==
    ASSUME Together
    PROVE  Spec => []ServedAsAsked
<1>1. IInv => ServedAsAsked
    <2> SUFFICES ASSUME IInv, answer = "load", ~Wraps(asked.host)
                 PROVE  load = [host |-> Meaning(asked.host, asked.uri),
                                https |-> asked.scheme \/ asked.host.suffix = "bolivia"]
        BY DEF ServedAsAsked
    <2> DEFINE h == asked.host
    <2>1. asked \in Conversation /\ h \in HostType /\ asked.scheme \in BOOLEAN
        BY AskedType DEF IInv, Types
    <2>2. Named(h)
        BY <2>1, NamesAssumption DEF Named
    <2>3. Origin(h, asked.uri) = Meaning(h, asked.uri)
        BY <2>1, <2>2, OriginIsMeant
    <2>4. Secure(h, asked.scheme) = (asked.scheme \/ h.suffix = "bolivia")
        <3>1. (RFind(h.suffix, "bolivia", h.size, 19) = Minus(h.size, 19)) = (h.suffix = "bolivia")
            BY <2>1, <2>2, SuffixFound
        <3> QED BY <3>1, Zenon DEF Secure
    <2> QED BY <2>3, <2>4 DEF IInv, Loaded
<1> QED BY <1>1, Invariance, PTL
=============================================================================
