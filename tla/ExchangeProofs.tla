--------------------------- MODULE ExchangeProofs ---------------------------
(***************************************************************************)
(* What the origin hears on a connection and what the parser makes of its  *)
(* answers, for every number of downloads and whatever it answers.         *)
(*                                                                         *)
(* WholeRequests is not inductive: a request may be written behind half a  *)
(* one unless bufferSocket keeps it away.  So what is added is RestKept:   *)
(* as long as the origin has heard half a request, the rest is there.      *)
(*                                                                         *)
(* The properties of the answer are not inductive either: they speak of    *)
(* the end of a download, or of an empty wire.  What is added (Right) says *)
(* what is parsed in the middle of an answer: it stands for the first p    *)
(* tokens of the text, and the rest of the text is on the wire.  The first *)
(* half of the module is about the parser alone: its two functions of      *)
(* positions (Header, Chunks) are what their definitions say, give what    *)
(* they should of every part of a text a read may hand to them, and so     *)
(* each read takes the parser from one place of the text to another.       *)
(***************************************************************************)
EXTENDS Exchange, SequenceTheorems, FiniteSetTheorems, WellFoundedInduction, TLAPS

\* A part of a request.
Part == [of : Nat, part : {1, 2}]

SocketTypes == turn \in Nat /\ heard \in Seq(Part) /\ bufferSocket \in Seq(Part)

RestKept == bufferSocket = <<>> /\ heard # <<>> => heard[Len(heard)].part = 2

IInv == SocketTypes /\ RestKept /\ WholeRequests

(* The two parts of a request.                                             *)
LEMMA RequestParts ==
    ASSUME turn \in Nat
    PROVE  /\ Request(turn) \in Seq(Part) /\ Len(Request(turn)) = 2
           /\ Request(turn)[1] = [of |-> turn, part |-> 1]
           /\ Request(turn)[2] = [of |-> turn, part |-> 2]
           /\ Request(turn)[1] \in Part /\ Request(turn)[2] \in Part
BY DEF Request, Part

(* What is written behind s.                                               *)
LEMMA RequestBehind ==
    ASSUME turn \in Nat, NEW s \in Seq(Part)
    PROVE  /\ s \o Request(turn) \in Seq(Part) /\ Len(s \o Request(turn)) = Len(s) + 2
           /\ \A i \in 1..Len(s) : (s \o Request(turn))[i] = s[i]
           /\ (s \o Request(turn))[Len(s) + 1] = [of |-> turn, part |-> 1]
           /\ (s \o Request(turn))[Len(s) + 2] = [of |-> turn, part |-> 2]
<1> DEFINE q == Request(turn)
<1>1. /\ q \in Seq(Part) /\ Len(q) = 2
      /\ q[1] = [of |-> turn, part |-> 1] /\ q[2] = [of |-> turn, part |-> 2]
    BY RequestParts
<1> HIDE DEF q
<1>2. /\ s \o q \in Seq(Part) /\ Len(s \o q) = Len(s) + Len(q)
      /\ \A i \in 1..(Len(s) + Len(q)) : (s \o q)[i] = IF i <= Len(s) THEN s[i] ELSE q[i - Len(s)]
    BY <1>1, ConcatProperties
<1>3. Len(s) \in Nat
    OBVIOUS
<1>4. \A i \in 1..Len(s) : (s \o q)[i] = s[i]
    BY <1>1, <1>2, <1>3
<1>5. (s \o q)[Len(s) + 1] = q[1] /\ (s \o q)[Len(s) + 2] = q[2]
    BY <1>1, <1>2, <1>3
<1>6. q = Request(turn)
    BY DEF q
<1> QED BY <1>1, <1>2, <1>4, <1>5, <1>6

(* A request written whole behind whole ones.                              *)
LEMMA SendWholeKeeps ==
    ASSUME IInv, SendWhole
    PROVE  IInv'
<1>1. /\ heard' = heard \o Request(turn) /\ bufferSocket = <<>> /\ bufferSocket' = bufferSocket
      /\ turn' = turn
    BY DEF SendWhole, Sending
<1>2. turn \in Nat /\ heard \in Seq(Part)
    BY DEF IInv, SocketTypes
<1>3. /\ heard' \in Seq(Part) /\ Len(heard') = Len(heard) + 2
      /\ \A i \in 1..Len(heard) : heard'[i] = heard[i]
    BY <1>1, <1>2, RequestBehind
<1>4. /\ heard'[Len(heard) + 1] = [of |-> turn, part |-> 1]
      /\ heard'[Len(heard) + 2] = [of |-> turn, part |-> 2]
    BY <1>1, <1>2, RequestBehind
<1>5. WholeRequests'
    <2> SUFFICES ASSUME NEW i \in 1..Len(heard'), heard'[i].part = 1
                 PROVE  i = Len(heard') \/ heard'[i + 1] = [heard'[i] EXCEPT !.part = 2]
        BY DEF WholeRequests
    <2>1. CASE i \in 1..Len(heard)
        <3>1. heard[i].part = 1
            BY <1>3, <2>1
        <3>2. i # Len(heard)
            BY <1>1, <1>2, <2>1, <3>1 DEF IInv, RestKept
        <3>3. heard[i + 1] = [heard[i] EXCEPT !.part = 2] /\ i + 1 \in 1..Len(heard)
            BY <1>2, <2>1, <3>1, <3>2 DEF IInv, WholeRequests
        <3> QED BY <1>3, <2>1, <3>3
    <2>2. CASE i = Len(heard) + 1
        BY <1>2, <1>3, <1>4, <2>2
    <2>3. CASE i = Len(heard) + 2
        BY <1>4, <2>3
    <2> QED BY <1>2, <1>3, <2>1, <2>2, <2>3
<1>6. RestKept'
    BY <1>2, <1>3, <1>4 DEF RestKept
<1> QED BY <1>1, <1>2, <1>3, <1>5, <1>6 DEF IInv, SocketTypes

(* Half a request behind whole ones: the rest waits in bufferSocket.       *)
LEMMA SendPartKeeps ==
    ASSUME IInv, SendPart
    PROVE  IInv'
<1>1. /\ heard' = Append(heard, Request(turn)[1]) /\ bufferSocket = <<>>
      /\ bufferSocket' = <<Request(turn)[2]>> /\ turn' = turn
    BY DEF SendPart, Sending, KeepRest
<1>2. /\ turn \in Nat /\ heard \in Seq(Part) /\ bufferSocket' \in Seq(Part) /\ bufferSocket' # <<>>
      /\ heard' \in Seq(Part) /\ Len(heard') = Len(heard) + 1
      /\ \A i \in 1..Len(heard) : heard'[i] = heard[i]
    BY <1>1, RequestParts DEF IInv, SocketTypes
<1>3. WholeRequests'
    <2> SUFFICES ASSUME NEW i \in 1..Len(heard'), heard'[i].part = 1, i # Len(heard')
                 PROVE  heard'[i + 1] = [heard'[i] EXCEPT !.part = 2]
        BY DEF WholeRequests
    <2>1. i \in 1..Len(heard) /\ heard[i].part = 1
        BY <1>2
    <2>2. i # Len(heard)
        BY <1>1, <1>2, <2>1 DEF IInv, RestKept
    <2>3. heard[i + 1] = [heard[i] EXCEPT !.part = 2] /\ i + 1 \in 1..Len(heard)
        BY <1>2, <2>1, <2>2 DEF IInv, WholeRequests
    <2> QED BY <1>2, <2>1, <2>3
<1> QED BY <1>1, <1>2, <1>3 DEF IInv, SocketTypes, RestKept

(* A new connection has heard nothing.                                     *)
LEMMA NewConnectionKeeps ==
    ASSUME IInv, NewConnection, turn' \in Nat
    PROVE  IInv'
BY DEF NewConnection, IInv, SocketTypes, RestKept, WholeRequests

(* The other steps leave heard, and never empty bufferSocket.              *)
LEMMA HeardKeeps ==
    ASSUME IInv, turn' \in Nat, heard' = heard, bufferSocket' \in Seq(Part),
           bufferSocket' = <<>> => bufferSocket = <<>>
    PROVE  IInv'
BY DEF IInv, SocketTypes, RestKept, WholeRequests

(* The invariant of what the origin hears.                                 *)
THEOREM Invariance == Spec => []IInv
<1>1. Init => IInv
    BY DEF Init, IInv, SocketTypes, RestKept, WholeRequests
<1>2. IInv /\ [Next]_vars => IInv'
    <2> SUFFICES ASSUME IInv, [Next]_vars
                 PROVE  IInv'
        OBVIOUS
    <2>1. turn \in Nat /\ bufferSocket \in Seq(Part)
        BY DEF IInv, SocketTypes
    <2>2. CASE Start
        <3>1. turn' = turn + 1 /\ UNCHANGED socketVars
            BY <2>2, Zenon DEF Start
        <3> QED BY <2>1, <3>1, HeardKeeps DEF socketVars
    <2>3. CASE SendBehind
        <3>1. /\ bufferSocket # <<>> /\ bufferSocket' = bufferSocket \o Request(turn)
              /\ heard' = heard /\ turn' = turn
            BY <2>3 DEF SendBehind, Sending
        <3>2. bufferSocket' \in Seq(Part) /\ Len(bufferSocket') = Len(bufferSocket) + 2
            BY <2>1, <3>1, RequestBehind
        <3> QED BY <2>1, <3>1, <3>2, HeardKeeps
    <2>4. CASE SendFails \/ Impatient \/ ReadyToRead \/ SocketEmpty
        BY <2>1, <2>4, HeardKeeps DEF SendFails, Sending, Impatient, ReadyToRead, SocketEmpty, socketVars
    <2>5. ASSUME NEW k \in 1..Len(wire), ReadContent(k) \/ ReadOtherCode(k) \/ ReadHeader(k)
          PROVE  IInv'
        BY <2>1, <2>5, HeardKeeps DEF ReadContent, ReadOtherCode, ReadHeader, Read
    <2>6. CASE Timeout \/ ClosedIdle \/ ClosedBusy \/ Restart
        BY <2>1, <2>6, NewConnectionKeeps DEF Timeout, ClosedIdle, ClosedBusy, Restart
    <2>7. CASE UNCHANGED vars
        BY <2>1, <2>7, HeardKeeps DEF vars, socketVars
    <2> QED BY <2>2, <2>3, <2>4, <2>5, <2>6, <2>7, SendWholeKeeps, SendPartKeeps DEF Next
<1> QED BY <1>1, <1>2, PTL DEF Spec

(* On one connection the origin hears requests one behind the other, none  *)
(* with another inside: what socketWrite could not write keeps the         *)
(* requests of the later downloads away.                                   *)
THEOREM HeardWhole == Spec => []WholeRequests
<1>1. IInv => WholeRequests
    BY DEF IInv
<1> QED BY <1>1, Invariance, PTL
-----------------------------------------------------------------------------
(* Positions.                                                              *)

(* A set of numbers that is not empty has a least one.                     *)
LEMMA LeastNumber ==
    ASSUME NEW S \in SUBSET Nat, S # {}
    PROVE  \E m \in S : \A k \in S : m <= k
<1> DEFINE W == {1..m : m \in S}
           R == StrictSubsetOrdering(Nat)
<1>1. IsWellFoundedOn(R, FiniteSubsetsOf(Nat))
    BY FS_StrictSubsetOrderingWellFounded
<1>2. \A m \in Nat : 1..m \in FiniteSubsetsOf(Nat)
    BY FS_Interval DEF FiniteSubsetsOf
<1>3. W \subseteq FiniteSubsetsOf(Nat) /\ W # {}
    BY <1>2
<1>4. PICK x \in W : \A y \in W : ~(<<y, x>> \in R)
    <2> HIDE DEF W, R
    <2> QED BY <1>1, <1>3, WFMin
<1>5. PICK m \in S : x = 1..m
    BY <1>4
<1>6. ASSUME NEW k \in S, ~(m <= k)
      PROVE  FALSE
    <2>1. 1..k \in W /\ 1..k \subseteq 1..m /\ m \in 1..m /\ m \notin 1..k /\ m \in Nat
        BY <1>6
    <2>2. 1..k # 1..m /\ 1..k \in SUBSET Nat /\ 1..m \in SUBSET Nat
        BY <2>1
    <2>3. <<1..k, 1..m>> \in R
        BY <2>1, <2>2 DEF StrictSubsetOrdering
    <2> QED BY <1>4, <1>5, <2>1, <2>3
<1> QED BY <1>6

(* What holds at 0, and at the next number with each, holds up to n.       *)
LEMMA Numbers ==
    ASSUME NEW n \in Nat, NEW S, 0 \in S, \A k \in 0..n : k < n /\ k \in S => k + 1 \in S
    PROVE  n \in S
<1> DEFINE D == {k \in 0..n : k \notin S}
<1>1. CASE D = {}
    BY <1>1
<1>2. CASE D # {}
    <2>1. D \in SUBSET Nat
        OBVIOUS
    <2>2. \E m \in D : \A k \in D : m <= k
        <3> HIDE DEF D
        <3> QED BY <1>2, <2>1, LeastNumber
    <2>3. PICK m \in D : \A k \in D : m <= k
        BY <2>2
    <2>4. m \in Nat /\ m # 0 /\ m - 1 \in 0..n /\ m - 1 < n
        OBVIOUS
    <2>5. m - 1 \in S
        BY <2>3, <2>4
    <2> QED BY <2>3, <2>4, <2>5
<1> QED BY <1>1, <1>2

(* The least of a set of numbers.                                          *)
LEMMA MinIn ==
    ASSUME NEW S \in SUBSET Nat, S # {}
    PROVE  Min(S) \in S /\ \A k \in S : Min(S) <= k
BY LeastNumber DEF Min

(* A number of the set that none is below is the least.                    *)
LEMMA MinIs ==
    ASSUME NEW S \in SUBSET Int, NEW m \in S, \A k \in S : m <= k
    PROVE  Min(S) = m
<1> DEFINE x == Min(S)
<1>1. x \in S /\ \A k \in S : x <= k
    BY DEF Min
<1> HIDE DEF x
<1>2. x \in Int /\ m \in Int /\ x <= m /\ m <= x
    BY <1>1
<1> QED BY <1>2 DEF x

(* The greater of two.                                                     *)
LEMMA MaxIs ==
    ASSUME NEW a \in Int, NEW b \in Int
    PROVE  Max({a, b}) = IF a >= b THEN a ELSE b
<1> DEFINE x == Max({a, b})
<1>1. \E m \in {a, b} : \A k \in {a, b} : m >= k
    OBVIOUS
<1>2. x \in {a, b} /\ \A k \in {a, b} : x >= k
    BY <1>1 DEF Max
<1> HIDE DEF x
<1> QED BY <1>2 DEF x

(* First is a position from p on,                                          *)
LEMMA FirstFrom ==
    ASSUME NEW s, Len(s) \in Nat, NEW p \in Nat, NEW kinds
    PROVE  First(s, p, kinds) \in Nat /\ First(s, p, kinds) >= p
<1> DEFINE m == Max({p, Len(s) + 1})
           S == {i \in p..Len(s) : s[i].kind \in kinds} \cup {m}
<1>1. m \in Nat /\ m >= p
    BY MaxIs
<1>2. S \in SUBSET Nat /\ S # {} /\ \A i \in S : i >= p
    <2> HIDE DEF m
    <2> QED BY <1>1
<1>3. Min(S) \in S
    <2> HIDE DEF S
    <2> QED BY <1>2, MinIn
<1>4. First(s, p, kinds) = Min(S)
    BY DEF First
<1> HIDE DEF S
<1> QED BY <1>2, <1>3, <1>4

(* that of the first token of these kinds,                                 *)
LEMMA FirstIs ==
    ASSUME NEW s, Len(s) \in Nat, NEW p \in Nat, NEW kinds, NEW q \in p..Len(s),
           s[q].kind \in kinds, \A i \in p..(q - 1) : s[i].kind \notin kinds
    PROVE  First(s, p, kinds) = q
<1> DEFINE S == {i \in p..Len(s) : s[i].kind \in kinds} \cup {Max({p, Len(s) + 1})}
<1>1. Max({p, Len(s) + 1}) = Len(s) + 1
    BY MaxIs
<1>2. /\ S = {i \in p..Len(s) : s[i].kind \in kinds} \cup {Len(s) + 1}
      /\ q \in Int /\ Len(s) + 1 \in Int /\ q <= Len(s) + 1
    BY <1>1
<1>3. \A i \in S : i \in Int /\ q <= i
    BY <1>2
<1>4. S \in SUBSET Int /\ q \in S
    BY <1>2, <1>3
<1>5. Min(S) = q
    <2> HIDE DEF S
    <2> QED BY <1>3, <1>4, MinIs
<1> QED BY <1>5 DEF First

(* or the one behind s.                                                    *)
LEMMA FirstNone ==
    ASSUME NEW s, Len(s) \in Nat, NEW p \in Nat, NEW kinds,
           \A i \in p..Len(s) : s[i].kind \notin kinds
    PROVE  First(s, p, kinds) = IF p > Len(s) THEN p ELSE Len(s) + 1
<1> DEFINE m == Max({p, Len(s) + 1})
           S == {i \in p..Len(s) : s[i].kind \in kinds} \cup {m}
<1>1. m = (IF p > Len(s) THEN p ELSE Len(s) + 1) /\ m \in Int
    BY MaxIs
<1>2. S = {m}
    OBVIOUS
<1>3. Min(S) = m
    <2> HIDE DEF S, m
    <2>1. S \in SUBSET Int /\ m \in S /\ \A k \in S : m <= k
        BY <1>1, <1>2
    <2> QED BY <2>1, MinIs
<1>4. First(s, p, kinds) = Min(S)
    BY DEF First
<1> HIDE DEF m, S
<1> QED BY <1>1, <1>3, <1>4

(* A line end is one token or two.                                         *)
LEMMA AfterFrom ==
    ASSUME NEW s, Len(s) \in Nat, NEW p \in Nat
    PROVE  After(s, p) \in {p + 1, p + 2} /\ (p <= Len(s) => After(s, p) <= Len(s) + 1)
BY DEF After
-----------------------------------------------------------------------------
(* The parser.                                                             *)

\* A token of an answer to one of the first n requests.
Kinds == {"http", "code", "text", "cr", "lf", "length", "other", "colon", "digit", "byte"}
Token(n) == [kind : Kinds, num : Nat, of : 1..n, joined : BOOLEAN]

\* What Header and Chunks make of tokens.
Parsed(n) == [body : Nat, length : Nat \cup {NoLength}, kept : Seq(Token(n))]
Outcome(n) ==
    [what : {"more", "end", "abort"}, out : Seq(Token(n)),
     length : Nat \cup {NoChunk}, kept : Seq(Token(n))]

(* The number a part of a text begins with.                                *)
LEMMA NumberTyped ==
    ASSUME NEW n, NEW s \in Seq(Token(n))
    PROVE  Number(s) \in Nat
<1>1. CASE s = <<>>
    BY <1>1 DEF Number
<1>2. CASE s # <<>>
    <2>1. s[1] \in Token(n)
        BY <1>2
    <2> QED BY <2>1 DEF Number, Token
<1> QED BY <1>1, <1>2

(* The ends of what a line of the header is made of.                       *)
LineEnd(s, b) == First(s, b, Newline)
Colon(s, b) == First(s, b, {"colon"})
ValueEnd(s, b) == First(s, Colon(s, b) + 2, Newline)

LEMMA LinePlaces ==
    ASSUME NEW s, Len(s) \in Nat, NEW b \in Nat \ {0}
    PROVE  /\ LineEnd(s, b) \in Nat /\ LineEnd(s, b) >= b
           /\ Colon(s, b) \in Nat /\ Colon(s, b) >= b
           /\ ValueEnd(s, b) \in Nat /\ ValueEnd(s, b) >= Colon(s, b) + 2
           /\ b > Len(s) => LineEnd(s, b) = b /\ Colon(s, b) = b
<1>1. LineEnd(s, b) \in Nat /\ Colon(s, b) \in Nat /\ LineEnd(s, b) >= b /\ Colon(s, b) >= b
    BY FirstFrom DEF LineEnd, Colon
<1>2. ValueEnd(s, b) \in Nat /\ ValueEnd(s, b) >= Colon(s, b) + 2
    <2> DEFINE c == Colon(s, b) + 2
    <2>1. c \in Nat
        BY <1>1
    <2> HIDE DEF c
    <2>2. First(s, c, Newline) \in Nat /\ First(s, c, Newline) >= c
        BY <2>1, FirstFrom
    <2> QED BY <2>2 DEF ValueEnd, c
<1>3. b > Len(s) => LineEnd(s, b) = b /\ Colon(s, b) = b
    BY FirstNone DEF LineEnd, Colon
<1> QED BY <1>1, <1>2, <1>3

(* The branches of HeaderLine.                                             *)
LEMMA LineCases ==
    ASSUME NEW line, NEW s, Len(s) \in Nat, NEW b \in Nat \ {0}
    PROVE  /\ b > Len(s) =>
                HeaderLine(line, s, b) = [body |-> 0, length |-> NoLength, kept |-> <<>>]
           /\ b <= Len(s) /\ LineEnd(s, b) = b =>
                HeaderLine(line, s, b) = [body |-> After(s, b), length |-> NoLength, kept |-> <<>>]
           /\ b < LineEnd(s, b) /\ LineEnd(s, b) < Colon(s, b) =>
                HeaderLine(line, s, b) = line[After(s, LineEnd(s, b))]
           /\ b < LineEnd(s, b) /\ LineEnd(s, b) = Colon(s, b) =>
                HeaderLine(line, s, b) = [body |-> 0, length |-> NoLength, kept |-> SubSeq(s, b, Len(s))]
           /\ Colon(s, b) < LineEnd(s, b) /\ ValueEnd(s, b) > Len(s) =>
                HeaderLine(line, s, b) =
                    [body |-> 0, length |-> NoLength,
                     kept |-> IF IsName(s, b, Colon(s, b)) THEN SubSeq(s, Colon(s, b) + 2, Len(s)) ELSE <<>>]
<1> DEFINE end == LineEnd(s, b)
           colon == Colon(s, b)
           stop == ValueEnd(s, b)
<1>1. /\ end = First(s, b, Newline) /\ colon = First(s, b, {"colon"})
      /\ stop = First(s, colon + 2, Newline)
    BY DEF LineEnd, Colon, ValueEnd
<1>2. /\ end \in Nat /\ colon \in Nat /\ end >= b /\ colon >= b /\ stop \in Nat
      /\ b > Len(s) => end = b /\ colon = b
    BY LinePlaces
<1> HIDE DEF end, colon, stop
<1>3. /\ b > Len(s) =>
            HeaderLine(line, s, b) = [body |-> 0, length |-> NoLength, kept |-> <<>>]
      /\ b <= Len(s) /\ end = b =>
            HeaderLine(line, s, b) = [body |-> After(s, b), length |-> NoLength, kept |-> <<>>]
      /\ b < end /\ end < colon => HeaderLine(line, s, b) = line[After(s, end)]
      /\ b < end /\ end = colon =>
            HeaderLine(line, s, b) = [body |-> 0, length |-> NoLength, kept |-> SubSeq(s, b, Len(s))]
      /\ colon < end /\ stop > Len(s) =>
            HeaderLine(line, s, b) =
                [body |-> 0, length |-> NoLength,
                 kept |-> IF IsName(s, b, colon) THEN SubSeq(s, colon + 2, Len(s)) ELSE <<>>]
    BY <1>1, <1>2 DEF HeaderLine
<1> QED BY <1>3 DEF end, colon, stop

(* The value of a line with a colon, and the lines behind it.              *)
LEMMA LineValue ==
    ASSUME NEW line, NEW s, Len(s) \in Nat, NEW b \in Nat \ {0},
           Colon(s, b) < LineEnd(s, b), ValueEnd(s, b) <= Len(s),
           NEW next, next = line[After(s, ValueEnd(s, b))]
    PROVE  HeaderLine(line, s, b) =
               [next EXCEPT !.length = IF IsName(s, b, Colon(s, b)) /\ next.length = NoLength
                                       THEN Number(SubSeq(s, Colon(s, b) + 2, ValueEnd(s, b) - 1))
                                       ELSE next.length]
<1> DEFINE end == LineEnd(s, b)
           colon == Colon(s, b)
           stop == ValueEnd(s, b)
<1>1. /\ end = First(s, b, Newline) /\ colon = First(s, b, {"colon"})
      /\ stop = First(s, colon + 2, Newline)
    BY DEF LineEnd, Colon, ValueEnd
<1>2. /\ end \in Nat /\ colon \in Nat /\ end >= b /\ colon >= b /\ stop \in Nat
      /\ b > Len(s) => end = b /\ colon = b
    BY LinePlaces
<1> HIDE DEF end, colon, stop
<1>3. colon < end /\ stop <= Len(s) /\ next = line[After(s, stop)]
    BY DEF end, colon, stop
<1>4. HeaderLine(line, s, b) =
          [next EXCEPT !.length = IF IsName(s, b, colon) /\ next.length = NoLength
                                  THEN Number(SubSeq(s, colon + 2, stop - 1)) ELSE next.length]
    BY <1>1, <1>2, <1>3 DEF HeaderLine
<1> QED BY <1>4 DEF end, colon, stop
(* What HeaderLine makes of tokens, if it is handed such results.          *)
LEMMA LineTyped ==
    ASSUME NEW n, NEW s \in Seq(Token(n)), NEW b \in Nat \ {0},
           NEW line, \A i \in Nat \ {0} : line[i] \in Parsed(n)
    PROVE  HeaderLine(line, s, b) \in Parsed(n)
<1> DEFINE end == LineEnd(s, b)
           colon == Colon(s, b)
           stop == ValueEnd(s, b)
           L == Len(s)
           v == HeaderLine(line, s, b)
           next == line[After(s, stop)]
           value == Number(SubSeq(s, colon + 2, stop - 1))
           l == IF IsName(s, b, colon) /\ next.length = NoLength THEN value ELSE next.length
<1> SUFFICES v \in Parsed(n)
    OBVIOUS
<1>0. L \in Nat
    OBVIOUS
<1>1. /\ L \in Nat /\ end \in Nat /\ colon \in Nat /\ end >= b /\ colon >= b
      /\ stop \in Nat /\ stop >= colon + 2
      /\ b > L => end = b /\ colon = b
    BY <1>0, LinePlaces
<1>2. After(s, b) \in Nat \ {0} /\ After(s, end) \in Nat \ {0} /\ After(s, stop) \in Nat \ {0}
    <2>1. ASSUME NEW p \in Nat
          PROVE  After(s, p) \in Nat \ {0}
        BY <1>0, AfterFrom
    <2> HIDE DEF end, stop
    <2> QED BY <1>1, <2>1
<1>3. SubSeq(s, b, L) \in Seq(Token(n)) /\ SubSeq(s, colon + 2, L) \in Seq(Token(n))
    BY <1>1
<1>4. <<>> \in Seq(Token(n))
    OBVIOUS
<1>5. ASSUME stop <= L
      PROVE  value \in Nat
    <2>1. SubSeq(s, colon + 2, stop - 1) \in Seq(Token(n))
        <3>1. \A i \in (colon + 2)..(stop - 1) : s[i] \in Token(n)
            BY <1>1, <1>5
        <3> QED BY <1>1, <3>1, SubSeqProperties
    <2> QED BY <2>1, NumberTyped
<1>6. CASE b > L
    <2>1. v = [body |-> 0, length |-> NoLength, kept |-> <<>>]
        BY <1>6, LineCases
    <2> HIDE DEF v
    <2> QED BY <1>4, <2>1 DEF Parsed
<1>7. CASE b <= L /\ end = b
    <2>1. v = [body |-> After(s, b), length |-> NoLength, kept |-> <<>>]
        BY <1>7, LineCases
    <2> HIDE DEF v
    <2> QED BY <1>2, <1>4, <2>1 DEF Parsed
<1>8. CASE b < end /\ end < colon
    <2>1. v = line[After(s, end)]
        BY <1>8, LineCases
    <2> QED BY <1>2, <2>1
<1>9. CASE b < end /\ end = colon
    <2>1. v = [body |-> 0, length |-> NoLength, kept |-> SubSeq(s, b, L)]
        BY <1>0, <1>9, LineCases, Zenon
    <2> HIDE DEF v
    <2> QED BY <1>3, <2>1 DEF Parsed
<1>10. CASE colon < end /\ stop > L
    <2> DEFINE kept == IF IsName(s, b, colon) THEN SubSeq(s, colon + 2, L) ELSE <<>>
    <2>1. v = [body |-> 0, length |-> NoLength, kept |-> kept]
        BY <1>10, LineCases
    <2>2. kept \in Seq(Token(n))
        BY <1>3, <1>4
    <2> HIDE DEF v, kept
    <2> QED BY <2>1, <2>2 DEF Parsed
<1>11. CASE colon < end /\ stop <= L
    <2>1. next \in Parsed(n)
        BY <1>2
    <2>2. v = [next EXCEPT !.length = l]
        BY <1>11, LineValue
    <2>3. l \in Nat \cup {NoLength}
        <3>1. next.length \in Nat \cup {NoLength}
            BY <2>1 DEF Parsed
        <3> HIDE DEF value, next
        <3> QED BY <1>5, <1>11, <3>1
    <2> HIDE DEF v, next, l
    <2> QED BY <2>1, <2>2, <2>3 DEF Parsed
<1> HIDE DEF end, colon, stop, L, v
<1> QED BY <1>1, <1>6, <1>7, <1>8, <1>9, <1>10, <1>11

(* HeaderLine looks only at what is handed to it of later lines.           *)
LEMMA LineLocal ==
    ASSUME NEW s, Len(s) \in Nat, NEW b \in Nat \ {0}, NEW line, NEW other,
           \A i \in Nat \ {0} : i > b => line[i] = other[i]
    PROVE  HeaderLine(line, s, b) = HeaderLine(other, s, b)
<1> DEFINE end == LineEnd(s, b)
           colon == Colon(s, b)
           stop == ValueEnd(s, b)
           L == Len(s)
<1>0. L \in Nat
    OBVIOUS
<1>1. /\ L \in Nat /\ end \in Nat /\ colon \in Nat /\ end >= b /\ colon >= b
      /\ stop \in Nat /\ stop >= colon + 2
      /\ b > L => end = b /\ colon = b
    BY <1>0, LinePlaces
<1>2. After(s, end) \in Nat \ {0} /\ After(s, stop) \in Nat \ {0} /\ After(s, end) > b /\ After(s, stop) > b
    BY <1>1, AfterFrom
<1>3. line[After(s, end)] = other[After(s, end)] /\ line[After(s, stop)] = other[After(s, stop)]
    BY <1>2
<1>4. b > L => HeaderLine(line, s, b) = HeaderLine(other, s, b)
    BY LineCases
<1>5. b <= L /\ end = b => HeaderLine(line, s, b) = HeaderLine(other, s, b)
    BY LineCases
<1>6. b < end /\ end < colon => HeaderLine(line, s, b) = HeaderLine(other, s, b)
    BY <1>3, LineCases
<1>7. b < end /\ end = colon => HeaderLine(line, s, b) = HeaderLine(other, s, b)
    BY LineCases
<1>8. ASSUME colon < end, stop > L
      PROVE  HeaderLine(line, s, b) = HeaderLine(other, s, b)
    <2> DEFINE v == [body |-> 0, length |-> NoLength,
                     kept |-> IF IsName(s, b, colon) THEN SubSeq(s, colon + 2, L) ELSE <<>>]
    <2>1. HeaderLine(line, s, b) = v
        BY <1>0, <1>8, LineCases, Zenon
    <2>2. HeaderLine(other, s, b) = v
        BY <1>0, <1>8, LineCases, Zenon
    <2> HIDE DEF v
    <2> QED BY <2>1, <2>2
<1>9. ASSUME colon < end, stop <= L
      PROVE  HeaderLine(line, s, b) = HeaderLine(other, s, b)
    <2> DEFINE next == line[After(s, stop)]
               v == [next EXCEPT !.length = IF IsName(s, b, colon) /\ next.length = NoLength
                                            THEN Number(SubSeq(s, colon + 2, stop - 1)) ELSE next.length]
    <2>1. next = other[After(s, stop)]
        BY <1>3
    <2>2. HeaderLine(line, s, b) = v
        BY <1>9, LineValue
    <2>3. HeaderLine(other, s, b) = v
        BY <1>9, <2>1, LineValue
    <2> HIDE DEF v
    <2> QED BY <2>2, <2>3
<1> HIDE DEF end, colon, stop, L
<1> QED BY <1>1, <1>4, <1>5, <1>6, <1>7, <1>8, <1>9

(* Header is what its definition says, and of the right type.              *)
LEMMA HeaderLines ==
    ASSUME NEW n, NEW s \in Seq(Token(n))
    PROVE  \E line : /\ \A p \in Nat \ {0} : Header(s, p) = line[p]
                     /\ \A b \in Nat \ {0} : line[b] = HeaderLine(line, s, b) /\ line[b] \in Parsed(n)
<1> DEFINE L == Len(s)
           P == Nat \ {0}
           Known(k, line) ==
                /\ \A b \in P : line[b] \in Parsed(n)
                /\ \A b \in P : b > L - k => line[b] = HeaderLine(line, s, b)
           S == {k \in 0..L : \E line \in [P -> Parsed(n)] : Known(k, line)}
<1>1. L \in Nat
    OBVIOUS
<1>2. 0 \in S
    <2> DEFINE line == [b \in P |-> [body |-> 0, length |-> NoLength, kept |-> <<>>]]
    <2>1. [body |-> 0, length |-> NoLength, kept |-> <<>>] \in Parsed(n)
        BY DEF Parsed
    <2>2. \A b \in P : b > L => line[b] = HeaderLine(line, s, b)
        BY LineCases
    <2>3. line \in [P -> Parsed(n)]
        BY <2>1
    <2>4. \A b \in P : line[b] \in Parsed(n)
        BY <2>1
    <2> HIDE DEF line, P
    <2> QED BY <1>1, <2>2, <2>3, <2>4
<1>3. ASSUME NEW k \in 0..L, k < L, k \in S
      PROVE  k + 1 \in S
    <2>1. PICK line \in [P -> Parsed(n)] : Known(k, line)
        BY <1>3
    <2> DEFINE c == L - k
               v == HeaderLine(line, s, c)
               next == [b \in P |-> IF b = c THEN v ELSE line[b]]
    <2>2. c \in P
        BY <1>1, <1>3
    <2>3. v \in Parsed(n)
        BY <2>1, <2>2, LineTyped
    <2> HIDE DEF v
    <2>4. \A b \in P : next[b] \in Parsed(n)
        BY <2>1, <2>3
    <2>5. next \in [P -> Parsed(n)]
        BY <2>4
    <2>6. ASSUME NEW b \in P, b > L - (k + 1)
          PROVE  next[b] = HeaderLine(next, s, b)
        <3>1. \A i \in P : i > b => line[i] = next[i]
            BY <1>1, <2>2, <2>6
        <3>2. HeaderLine(line, s, b) = HeaderLine(next, s, b)
            <4> HIDE DEF next
            <4> QED BY <1>1, <3>1, LineLocal
        <3>3. next[b] = HeaderLine(line, s, b)
            <4>1. CASE b = c
                BY <2>2, <4>1 DEF v
            <4>2. CASE b # c
                <5>1. b > L - k
                    BY <1>1, <1>3, <2>6, <4>2
                <5> QED BY <2>1, <4>2, <5>1
            <4> QED BY <4>1, <4>2
        <3> QED BY <3>2, <3>3
    <2> HIDE DEF next, P
    <2> QED BY <1>1, <1>3, <2>4, <2>5, <2>6
<1>4. L \in S
    <2> HIDE DEF S, L
    <2> QED BY <1>1, <1>2, <1>3, Numbers
<1>5. PICK line \in [P -> Parsed(n)] : Known(L, line)
    BY <1>4
<1> DEFINE Line == CHOOSE f : f = [b \in P |-> HeaderLine(f, s, b)]
<1>6. line = [b \in P |-> HeaderLine(line, s, b)]
    <2>1. \A b \in P : line[b] = HeaderLine(line, s, b)
        BY <1>1, <1>5
    <2> HIDE DEF P
    <2> QED BY <2>1
<1>7. Line = [b \in P |-> HeaderLine(Line, s, b)]
    BY <1>6
<1>8. \A p \in P : Header(s, p) = Line[p]
    BY DEF Header
<1> DEFINE Same == {k \in 0..L : \A b \in P : b > L - k => Line[b] = line[b]}
<1>9. \A b \in P : line[b] = HeaderLine(line, s, b) /\ line[b] \in Parsed(n)
    BY <1>1, <1>5
<1>10. \A b \in P : Line[b] = HeaderLine(Line, s, b)
    <2> HIDE DEF Line, P
    <2> QED BY <1>7
<1> HIDE DEF Line, Known
<1>11. 0 \in Same
    <2>1. ASSUME NEW b \in P, b > L
          PROVE  Line[b] = line[b]
        <3>1. /\ HeaderLine(Line, s, b) = [body |-> 0, length |-> NoLength, kept |-> <<>>]
              /\ HeaderLine(line, s, b) = [body |-> 0, length |-> NoLength, kept |-> <<>>]
            BY <1>1, <2>1, LineCases
        <3> QED BY <1>9, <1>10, <3>1
    <2> QED BY <1>1, <2>1
<1>12. ASSUME NEW k \in 0..L, k < L, k \in Same
       PROVE  k + 1 \in Same
    <2>1. ASSUME NEW b \in P, b > L - (k + 1)
          PROVE  Line[b] = line[b]
        <3>1. \A i \in P : i > b => Line[i] = line[i]
            BY <1>1, <1>12, <2>1
        <3>2. HeaderLine(Line, s, b) = HeaderLine(line, s, b)
            BY <1>1, <3>1, LineLocal
        <3> QED BY <1>9, <1>10, <3>2
    <2> QED BY <1>1, <1>12, <2>1
<1>13. L \in Same
    <2> HIDE DEF Same, L
    <2> QED BY <1>1, <1>11, <1>12, Numbers
<1>14. \A b \in P : Line[b] = line[b]
    BY <1>1, <1>13
<1> HIDE DEF P, Same
<1>15. \A b \in P : Line[b] \in Parsed(n)
    BY <1>9, <1>14
<1> QED BY <1>8, <1>10, <1>15 DEF P
(* The least of two.                                                       *)
LEMMA MinTwo ==
    ASSUME NEW a \in Int, NEW b \in Int
    PROVE  Min({a, b}) = IF a <= b THEN a ELSE b
<1> DEFINE x == Min({a, b})
<1>1. \E m \in {a, b} : \A k \in {a, b} : m <= k
    OBVIOUS
<1>2. x \in {a, b} /\ \A k \in {a, b} : x <= k
    BY <1>1 DEF Min
<1> HIDE DEF x
<1> QED BY <1>2 DEF x

\* How many of the k bytes the read has.
Taken(s, p, k) == Min({k, Len(s) - p + 1})

(* The bytes of a chunk that the read has.                                 *)
LEMMA TakenIs ==
    ASSUME NEW s, Len(s) \in Nat, NEW p \in Nat, NEW k \in Nat
    PROVE  Taken(s, p, k) = IF k <= Len(s) - p + 1 THEN k ELSE Len(s) - p + 1
BY MinTwo DEF Taken

(* What is made of them goes to the file, and From goes on.               *)
LEMMA BytesTyped ==
    ASSUME NEW n, NEW s \in Seq(Token(n)), NEW p \in Nat \ {0}, p <= Len(s), NEW k \in Nat \ {0},
           NEW from, \A i \in Nat \ {0} : from[i] \in Outcome(n)
    PROVE  ChunkBytes(from, s, p, k) \in Outcome(n)
<1> DEFINE m == Taken(s, p, k)
           next == from[p + m]
           out == SubSeq(s, p, p + m - 1) \o next.out
           v == ChunkBytes(from, s, p, k)
<1> SUFFICES v \in Outcome(n)
    OBVIOUS
<1>0. Len(s) \in Nat /\ p \in Nat /\ k \in Nat
    OBVIOUS
<1>1. Len(s) \in Nat /\ m \in Nat \ {0} /\ p + m <= Len(s) + 1
    <2>1. Taken(s, p, k) = IF k <= Len(s) - p + 1 THEN k ELSE Len(s) - p + 1
        BY <1>0, TakenIs
    <2> QED BY <1>0, <2>1
<1>2. v = [next EXCEPT !.out = out]
    BY DEF ChunkBytes, Taken
<1> HIDE DEF m
<1>3. next \in Outcome(n)
    BY <1>1
<1> HIDE DEF next, v
<1>4. SubSeq(s, p, p + m - 1) \in Seq(Token(n))
    <2>1. \A i \in p..(p + m - 1) : s[i] \in Token(n)
        BY <1>1
    <2> QED BY <1>1, <2>1, SubSeqProperties
<1>5. out \in Seq(Token(n))
    BY <1>3, <1>4 DEF Outcome
<1> HIDE DEF out
<1> QED BY <1>2, <1>3, <1>5 DEF Outcome

(* The ends of the line with the size of a chunk, and the size.            *)
SizeBegin(s, p) == Min({i \in p..Len(s) : s[i].kind \notin Newline} \cup {Len(s) + 1})
SizeEnd(s, p) == First(s, SizeBegin(s, p), Newline)
SizeOf(s, p) == Number(SubSeq(s, SizeBegin(s, p), SizeEnd(s, p) - 1))

LEMMA SizePlaces ==
    ASSUME NEW s, Len(s) \in Nat, NEW p \in Nat \ {0}
    PROVE  /\ SizeBegin(s, p) \in Nat \ {0} /\ SizeBegin(s, p) <= Len(s) + 1
           /\ SizeBegin(s, p) <= Len(s) => SizeBegin(s, p) >= p
           /\ SizeEnd(s, p) \in Nat /\ SizeEnd(s, p) >= SizeBegin(s, p)
<1> DEFINE S == {i \in p..Len(s) : s[i].kind \notin Newline} \cup {Len(s) + 1}
<1>1. S \in SUBSET Nat /\ S # {} /\ \A i \in S : i # 0 /\ i <= Len(s) + 1 /\ (i <= Len(s) => i >= p)
    OBVIOUS
<1>2. Min(S) \in S
    <2> HIDE DEF S
    <2> QED BY <1>1, MinIn
<1>3. SizeBegin(s, p) = Min(S)
    BY DEF SizeBegin
<1> HIDE DEF S
<1>4. SizeBegin(s, p) \in Nat \ {0} /\ SizeBegin(s, p) <= Len(s) + 1 /\ (SizeBegin(s, p) <= Len(s) => SizeBegin(s, p) >= p)
    BY <1>1, <1>2, <1>3
<1>5. SizeEnd(s, p) \in Nat /\ SizeEnd(s, p) >= SizeBegin(s, p)
    BY <1>4, FirstFrom DEF SizeEnd
<1> QED BY <1>4, <1>5

(* The branches of ChunkSize.                                              *)
LEMMA SizeCases ==
    ASSUME NEW from, NEW s, Len(s) \in Nat, NEW kept, NEW p \in Nat \ {0}
    PROVE  /\ SizeBegin(s, p) > Len(s) => ChunkSize(from, s, kept, p) = Written("more", NoChunk, kept)
           /\ SizeBegin(s, p) <= Len(s) /\ kept # <<>> =>
                ChunkSize(from, s, kept, p) = Written("abort", NoChunk, kept)
           /\ SizeBegin(s, p) <= Len(s) /\ kept = <<>> /\ SizeEnd(s, p) > Len(s) =>
                ChunkSize(from, s, kept, p) = Written("more", NoChunk, SubSeq(s, SizeBegin(s, p), Len(s)))
           /\ SizeBegin(s, p) <= Len(s) /\ kept = <<>> /\ SizeEnd(s, p) <= Len(s) =>
                ChunkSize(from, s, kept, p) =
                    IF SizeOf(s, p) = 0 THEN Written("end", 0, <<>>)
                    ELSE IF After(s, SizeEnd(s, p)) > Len(s) THEN Written("more", SizeOf(s, p), <<>>)
                    ELSE ChunkBytes(from, s, After(s, SizeEnd(s, p)), SizeOf(s, p))
<1> DEFINE q == SizeBegin(s, p)
           stop == SizeEnd(s, p)
           size == SizeOf(s, p)
<1>1. /\ q = Min({i \in p..Len(s) : s[i].kind \notin Newline} \cup {Len(s) + 1})
      /\ stop = First(s, q, Newline) /\ size = Number(SubSeq(s, q, stop - 1))
    BY DEF SizeBegin, SizeEnd, SizeOf
<1>2. q \in Nat /\ stop \in Nat
    BY SizePlaces
<1> HIDE DEF q, stop, size
<1>3. /\ q > Len(s) => ChunkSize(from, s, kept, p) = Written("more", NoChunk, kept)
      /\ q <= Len(s) /\ kept # <<>> => ChunkSize(from, s, kept, p) = Written("abort", NoChunk, kept)
      /\ q <= Len(s) /\ kept = <<>> /\ stop > Len(s) =>
            ChunkSize(from, s, kept, p) = Written("more", NoChunk, SubSeq(s, q, Len(s)))
      /\ q <= Len(s) /\ kept = <<>> /\ stop <= Len(s) =>
            ChunkSize(from, s, kept, p) =
                IF size = 0 THEN Written("end", 0, <<>>)
                ELSE IF After(s, stop) > Len(s) THEN Written("more", size, <<>>)
                ELSE ChunkBytes(from, s, After(s, stop), size)
    BY <1>1, <1>2 DEF ChunkSize
<1> QED BY <1>3 DEF q, stop, size

(* What ChunkSize makes of tokens, if it is handed such outcomes.          *)
LEMMA SizeTyped ==
    ASSUME NEW n, NEW s \in Seq(Token(n)), NEW kept \in Seq(Token(n)), NEW p \in Nat \ {0},
           NEW from, \A i \in Nat \ {0} : from[i] \in Outcome(n)
    PROVE  ChunkSize(from, s, kept, p) \in Outcome(n)
<1> DEFINE q == SizeBegin(s, p)
           stop == SizeEnd(s, p)
           size == SizeOf(s, p)
           L == Len(s)
           v == ChunkSize(from, s, kept, p)
<1> SUFFICES v \in Outcome(n)
    OBVIOUS
<1>0. L \in Nat
    OBVIOUS
<1>1. q \in Nat \ {0} /\ stop \in Nat /\ stop >= q
    BY <1>0, SizePlaces
<1>2. ASSUME NEW what \in {"more", "end", "abort"}, NEW l \in Nat \cup {NoChunk}, NEW h \in Seq(Token(n))
      PROVE  Written(what, l, h) \in Outcome(n)
    BY DEF Written, Outcome
<1>3. NoChunk \in Nat \cup {NoChunk} /\ 0 \in Nat \cup {NoChunk} /\ <<>> \in Seq(Token(n))
    OBVIOUS
<1>4. CASE q > L
    <2>1. v = Written("more", NoChunk, kept)
        BY <1>0, <1>4, SizeCases
    <2> HIDE DEF v
    <2> QED BY <1>2, <1>3, <2>1
<1>5. CASE q <= L /\ kept # <<>>
    <2>1. v = Written("abort", NoChunk, kept)
        BY <1>0, <1>5, SizeCases
    <2> HIDE DEF v
    <2> QED BY <1>2, <1>3, <2>1
<1>6. CASE q <= L /\ kept = <<>> /\ stop > L
    <2>1. v = Written("more", NoChunk, SubSeq(s, q, L))
        BY <1>0, <1>6, SizeCases
    <2>2. SubSeq(s, q, L) \in Seq(Token(n))
        BY <1>1
    <2> HIDE DEF v
    <2> QED BY <1>2, <1>3, <2>1, <2>2
<1>7. CASE q <= L /\ kept = <<>> /\ stop <= L
    <2> DEFINE b == After(s, stop)
    <2>1. v = IF size = 0 THEN Written("end", 0, <<>>)
              ELSE IF b > L THEN Written("more", size, <<>>)
              ELSE ChunkBytes(from, s, b, size)
        BY <1>0, <1>7, SizeCases
    <2>2. size \in Nat
        <3>1. SubSeq(s, q, stop - 1) \in Seq(Token(n))
            <4>1. \A i \in q..(stop - 1) : s[i] \in Token(n)
                BY <1>0, <1>1, <1>7
            <4> QED BY <1>1, <4>1, SubSeqProperties
        <3> QED BY <3>1, NumberTyped DEF SizeOf
    <2>3. b \in Nat \ {0}
        BY <1>0, <1>1, AfterFrom
    <2>4. size # 0 /\ b <= L => ChunkBytes(from, s, b, size) \in Outcome(n)
        <3> HIDE DEF size, b
        <3> QED BY <2>2, <2>3, BytesTyped
    <2> HIDE DEF v, size, b
    <2>5. CASE size = 0
        BY <1>2, <1>3, <2>1, <2>5
    <2>6. CASE size # 0 /\ b > L
        BY <1>2, <1>3, <2>1, <2>2, <2>6
    <2>7. CASE size # 0 /\ b <= L
        BY <1>0, <2>1, <2>3, <2>4, <2>7
    <2> QED BY <1>0, <2>3, <2>5, <2>6, <2>7
<1> HIDE DEF v, q, stop, L
<1> QED BY <1>0, <1>1, <1>4, <1>5, <1>6, <1>7

(* ChunkSize looks only at what is handed to it of later positions.        *)
LEMMA SizeLocal ==
    ASSUME NEW n, NEW s \in Seq(Token(n)), NEW kept, NEW p \in Nat \ {0}, NEW from, NEW other,
           \A i \in Nat \ {0} : i > p => from[i] = other[i]
    PROVE  ChunkSize(from, s, kept, p) = ChunkSize(other, s, kept, p)
<1> DEFINE q == SizeBegin(s, p)
           stop == SizeEnd(s, p)
           size == SizeOf(s, p)
           L == Len(s)
           b == After(s, stop)
<1>0. L \in Nat
    OBVIOUS
<1>1. q \in Nat \ {0} /\ stop \in Nat /\ stop >= q /\ (q <= L => q >= p)
    BY <1>0, SizePlaces
<1>2. CASE q > L
    BY <1>0, <1>2, SizeCases
<1>3. CASE q <= L /\ kept # <<>>
    BY <1>0, <1>3, SizeCases
<1>4. CASE q <= L /\ kept = <<>> /\ stop > L
    BY <1>0, <1>4, SizeCases
<1>5. CASE q <= L /\ kept = <<>> /\ stop <= L
    <2>1. /\ ChunkSize(from, s, kept, p) = IF size = 0 THEN Written("end", 0, <<>>)
                                           ELSE IF b > L THEN Written("more", size, <<>>)
                                           ELSE ChunkBytes(from, s, b, size)
          /\ ChunkSize(other, s, kept, p) = IF size = 0 THEN Written("end", 0, <<>>)
                                            ELSE IF b > L THEN Written("more", size, <<>>)
                                            ELSE ChunkBytes(other, s, b, size)
        BY <1>0, <1>5, SizeCases
    <2>2. ASSUME size # 0, b <= L
          PROVE  ChunkBytes(from, s, b, size) = ChunkBytes(other, s, b, size)
        <3>1. size \in Nat
            <4>1. SubSeq(s, q, stop - 1) \in Seq(Token(n))
                <5>1. \A i \in q..(stop - 1) : s[i] \in Token(n)
                    BY <1>0, <1>1, <1>5
                <5> QED BY <1>1, <5>1, SubSeqProperties
            <4> QED BY <4>1, NumberTyped DEF SizeOf
        <3>2. b \in Nat /\ b > p
            BY <1>0, <1>1, <1>5, AfterFrom
        <3>0. Len(s) \in Nat /\ b <= Len(s)
            BY <2>2
        <3> DEFINE m == Taken(s, b, size)
        <3> HIDE DEF b, size
        <3>3. m \in Nat
            <4>1. Taken(s, b, size) = IF size <= Len(s) - b + 1 THEN size ELSE Len(s) - b + 1
                BY <3>0, <3>1, <3>2, TakenIs
            <4> QED BY <3>0, <3>1, <3>2, <4>1
        <3> HIDE DEF m
        <3>4. from[b + m] = other[b + m]
            BY <3>2, <3>3
        <3> DEFINE next == from[b + m]
                   v == [next EXCEPT !.out = SubSeq(s, b, b + m - 1) \o next.out]
        <3>5. next = other[b + m]
            BY <3>4
        <3>6. ChunkBytes(from, s, b, size) = v
            BY DEF ChunkBytes, Taken, m
        <3>7. ChunkBytes(other, s, b, size) = v
            <4> HIDE DEF next
            <4>1. ChunkBytes(other, s, b, size) = [other[b + m] EXCEPT !.out = SubSeq(s, b, b + m - 1) \o other[b + m].out]
                BY DEF ChunkBytes, Taken, m
            <4> QED BY <3>5, <4>1
        <3> HIDE DEF v
        <3> QED BY <3>6, <3>7
    <2>3. b \in Nat
        BY <1>0, <1>1, AfterFrom
    <2>4. CASE size = 0
        BY <2>1, <2>4
    <2>5. CASE size # 0 /\ b > L
        BY <2>1, <2>5
    <2>6. CASE size # 0 /\ b <= L
        <3> HIDE DEF size, b, L
        <3> QED BY <1>0, <2>1, <2>2, <2>3, <2>6
    <2> HIDE DEF size, b, L
    <2> QED BY <1>0, <2>3, <2>4, <2>5, <2>6
<1> HIDE DEF q, stop, L
<1> QED BY <1>0, <1>1, <1>2, <1>3, <1>4, <1>5

(* Chunks is what its definition says, and of the right type.              *)
LEMMA ChunkSizes ==
    ASSUME NEW n, NEW s \in Seq(Token(n)), NEW kept \in Seq(Token(n))
    PROVE  \E from :
              /\ \A size : Chunks(s, size, kept) = IF size > 0 THEN ChunkBytes(from, s, 1, size) ELSE from[1]
              /\ \A p \in Nat \ {0} : from[p] = ChunkSize(from, s, kept, p) /\ from[p] \in Outcome(n)
<1> DEFINE L == Len(s)
           P == Nat \ {0}
           Known(k, from) ==
                /\ \A p \in P : from[p] \in Outcome(n)
                /\ \A p \in P : p > L - k => from[p] = ChunkSize(from, s, kept, p)
           S == {k \in 0..L : \E from \in [P -> Outcome(n)] : Known(k, from)}
<1>1. L \in Nat
    OBVIOUS
<1>2. ASSUME NEW from, NEW p \in P, p > L
      PROVE  ChunkSize(from, s, kept, p) = Written("more", NoChunk, kept)
    <2>1. /\ SizeBegin(s, p) \in Nat
          /\ SizeBegin(s, p) <= L => SizeBegin(s, p) >= p
        BY <1>1, SizePlaces
    <2>2. SizeBegin(s, p) > L
        BY <1>1, <1>2, <2>1
    <2> QED BY <1>1, <2>2, SizeCases
<1>3. 0 \in S
    <2> DEFINE from == [p \in P |-> Written("more", NoChunk, kept)]
    <2>1. Written("more", NoChunk, kept) \in Outcome(n)
        BY DEF Written, Outcome
    <2>2. \A p \in P : p > L => from[p] = ChunkSize(from, s, kept, p)
        <3>1. \A p \in P : from[p] = Written("more", NoChunk, kept)
            OBVIOUS
        <3> HIDE DEF from, P
        <3> QED BY <1>2, <3>1
    <2>3. from \in [P -> Outcome(n)]
        BY <2>1
    <2>4. \A p \in P : from[p] \in Outcome(n)
        BY <2>1
    <2> HIDE DEF from, P
    <2> QED BY <1>1, <2>2, <2>3, <2>4
<1>4. ASSUME NEW k \in 0..L, k < L, k \in S
      PROVE  k + 1 \in S
    <2>1. PICK from \in [P -> Outcome(n)] : Known(k, from)
        BY <1>4
    <2> DEFINE c == L - k
               v == ChunkSize(from, s, kept, c)
               next == [p \in P |-> IF p = c THEN v ELSE from[p]]
    <2>2. c \in P
        BY <1>1, <1>4
    <2>3. v \in Outcome(n)
        BY <2>1, <2>2, SizeTyped
    <2> HIDE DEF v
    <2>4. \A p \in P : next[p] \in Outcome(n)
        BY <2>1, <2>3
    <2>5. next \in [P -> Outcome(n)]
        BY <2>4
    <2>6. ASSUME NEW p \in P, p > L - (k + 1)
          PROVE  next[p] = ChunkSize(next, s, kept, p)
        <3>1. \A i \in P : i > p => from[i] = next[i]
            BY <1>1, <2>2, <2>6
        <3>2. ChunkSize(from, s, kept, p) = ChunkSize(next, s, kept, p)
            <4> HIDE DEF next
            <4> QED BY <3>1, SizeLocal
        <3>3. next[p] = ChunkSize(from, s, kept, p)
            <4>1. CASE p = c
                BY <2>2, <4>1 DEF v
            <4>2. CASE p # c
                <5>1. p > L - k
                    BY <1>1, <1>4, <2>6, <4>2
                <5> QED BY <2>1, <4>2, <5>1
            <4> QED BY <4>1, <4>2
        <3> QED BY <3>2, <3>3
    <2> HIDE DEF next, P
    <2> QED BY <1>1, <1>4, <2>4, <2>5, <2>6
<1>5. L \in S
    <2> HIDE DEF S, L
    <2> QED BY <1>1, <1>3, <1>4, Numbers
<1>6. PICK from \in [P -> Outcome(n)] : Known(L, from)
    BY <1>5
<1> DEFINE From == CHOOSE f : f = [p \in P |-> ChunkSize(f, s, kept, p)]
<1>7. from = [p \in P |-> ChunkSize(from, s, kept, p)]
    <2>1. \A p \in P : from[p] = ChunkSize(from, s, kept, p)
        BY <1>1, <1>6
    <2> HIDE DEF P
    <2> QED BY <2>1
<1>8. From = [p \in P |-> ChunkSize(From, s, kept, p)]
    BY <1>7
<1>9. \A size : Chunks(s, size, kept) = IF size > 0 THEN ChunkBytes(From, s, 1, size) ELSE From[1]
    BY DEF Chunks
<1> DEFINE Same == {k \in 0..L : \A p \in P : p > L - k => From[p] = from[p]}
<1>10. \A p \in P : from[p] = ChunkSize(from, s, kept, p) /\ from[p] \in Outcome(n)
    BY <1>1, <1>6
<1>11. \A p \in P : From[p] = ChunkSize(From, s, kept, p)
    <2> HIDE DEF From, P
    <2> QED BY <1>8
<1> HIDE DEF From, Known
<1>12. 0 \in Same
    <2>1. ASSUME NEW p \in P, p > L
          PROVE  From[p] = from[p]
        BY <1>2, <1>10, <1>11, <2>1
    <2> QED BY <1>1, <2>1
<1>13. ASSUME NEW k \in 0..L, k < L, k \in Same
       PROVE  k + 1 \in Same
    <2>1. ASSUME NEW p \in P, p > L - (k + 1)
          PROVE  From[p] = from[p]
        <3>1. \A i \in P : i > p => From[i] = from[i]
            BY <1>1, <1>13, <2>1
        <3>2. ChunkSize(From, s, kept, p) = ChunkSize(from, s, kept, p)
            BY <3>1, SizeLocal
        <3> QED BY <1>10, <1>11, <3>2
    <2> QED BY <1>1, <1>13, <2>1
<1>14. L \in Same
    <2> HIDE DEF Same, L
    <2> QED BY <1>1, <1>12, <1>13, Numbers
<1>15. \A p \in P : From[p] = from[p]
    BY <1>1, <1>14
<1> HIDE DEF P, Same
<1>16. \A p \in P : From[p] \in Outcome(n)
    BY <1>10, <1>15
<1> QED BY <1>9, <1>11, <1>16 DEF P
-----------------------------------------------------------------------------
(* The text of an answer.                                                  *)

\* What is known of an answer: ExchangeAssumption, and the two that are no
\* answers of Form.
IsForm(f) ==
    /\ f.code \in Nat /\ f.chunked \in BOOLEAN
    /\ f.size \in Nat /\ f.first \in 0..f.size

HeadLength == 15

\* The first tokens of T are a header with a line of that name and value.
IsHead(T, c, name, value) ==
    /\ T[1].kind = "http" /\ T[2].kind = "code" /\ T[3].kind = "text" /\ T[4].kind = "text"
    /\ T[5].kind = "cr" /\ T[6].kind = "lf"
    /\ T[7].kind = name /\ T[8].kind = name
    /\ T[9].kind = "colon" /\ T[10].kind = "text" /\ T[11].kind = "digit"
    /\ T[12].kind = "cr" /\ T[13].kind = "lf" /\ T[14].kind = "cr" /\ T[15].kind = "lf"
    /\ T[2].num = c /\ T[7].num = 1 /\ T[8].num = 2 /\ T[11].num = value
    /\ T[2].joined /\ T[3].joined /\ T[4].joined /\ T[5].joined
    /\ T[7].joined /\ T[8].joined /\ T[9].joined /\ T[10].joined /\ T[11].joined /\ T[12].joined
    /\ T[15].joined

\* Behind q tokens of T comes a chunk with the n bytes that follow the first b.
ChunkLies(T, r, q, b, n) ==
    /\ q + 5 + n <= Len(T)
    /\ T[q + 1].kind = "digit" /\ T[q + 1].num = n
    /\ T[q + 2].kind = "cr" /\ T[q + 2].joined /\ T[q + 3].kind = "lf" /\ T[q + 3].joined
    /\ \A i \in 1..n :
        /\ T[q + 3 + i].kind = "byte" /\ T[q + 3 + i].num = b + i /\ T[q + 3 + i].of = r
        /\ i > 1 => T[q + 3 + i].joined
    /\ T[q + 4 + n].kind = "cr" /\ T[q + 5 + n].kind = "lf"

(* A token is one.                                                         *)
LEMMA TokTyped ==
    ASSUME NEW r \in Nat \ {0}, NEW kind \in Kinds, NEW num \in Nat, NEW joined \in BOOLEAN
    PROVE  Tok(kind, num, r, joined) \in Token(r)
BY DEF Tok, Token

(* Two or three tokens are a text,                                         *)
LEMMA TuplesTyped ==
    ASSUME NEW S, NEW a \in S, NEW b \in S, NEW c \in S
    PROVE  <<a, b>> \in Seq(S) /\ <<a, b, c>> \in Seq(S)
OBVIOUS

(* and so are the fifteen of a header.                                     *)
LEMMA FifteenTyped ==
    ASSUME NEW S, NEW a \in S, NEW b \in S, NEW c \in S, NEW d \in S, NEW e \in S,
           NEW f \in S, NEW g \in S, NEW h \in S, NEW i \in S, NEW j \in S,
           NEW k \in S, NEW l \in S, NEW m \in S, NEW n \in S, NEW o \in S
    PROVE  <<a, b, c, d, e, f, g, h, i, j, k, l, m, n, o>> \in Seq(S)
OBVIOUS

(* The header is one,                                                      *)
LEMMA HeadIs ==
    ASSUME NEW r \in Nat \ {0}, NEW c \in Nat, NEW name \in Kinds, NEW value \in Nat,
           NEW h, h = HeadText(r, c, name, value)
    PROVE  Len(h) = HeadLength /\ IsHead(h, c, name, value) /\ h \in Seq(Token(r))
<1>1. /\ Len(h) = 15
      /\ h[1] = Tok("http", 0, r, FALSE) /\ h[2] = Tok("code", c, r, TRUE)
      /\ h[3] = Tok("text", 0, r, TRUE) /\ h[4] = Tok("text", 0, r, TRUE)
      /\ h[5] = Tok("cr", 0, r, TRUE) /\ h[6] = Tok("lf", 0, r, FALSE)
      /\ h[7] = Tok(name, 1, r, TRUE) /\ h[8] = Tok(name, 2, r, TRUE)
      /\ h[9] = Tok("colon", 0, r, TRUE) /\ h[10] = Tok("text", 0, r, TRUE)
      /\ h[11] = Tok("digit", value, r, TRUE) /\ h[12] = Tok("cr", 0, r, TRUE)
      /\ h[13] = Tok("lf", 0, r, FALSE) /\ h[14] = Tok("cr", 0, r, FALSE) /\ h[15] = Tok("lf", 0, r, TRUE)
    BY DEF HeadText
<1>2. h \in Seq(Token(r))
    <2>1. /\ Tok("http", 0, r, FALSE) \in Token(r) /\ Tok("code", c, r, TRUE) \in Token(r)
          /\ Tok("text", 0, r, TRUE) \in Token(r) /\ Tok("cr", 0, r, TRUE) \in Token(r)
          /\ Tok("lf", 0, r, FALSE) \in Token(r) /\ Tok(name, 1, r, TRUE) \in Token(r)
          /\ Tok(name, 2, r, TRUE) \in Token(r) /\ Tok("colon", 0, r, TRUE) \in Token(r)
          /\ Tok("digit", value, r, TRUE) \in Token(r)
          /\ Tok("cr", 0, r, FALSE) \in Token(r) /\ Tok("lf", 0, r, TRUE) \in Token(r)
        <3>1. /\ {"http", "code", "text", "cr", "lf", "colon", "digit"} \subseteq Kinds
              /\ r \in Nat \ {0} /\ c \in Nat /\ value \in Nat /\ name \in Kinds
              /\ 0 \in Nat /\ 1 \in Nat /\ 2 \in Nat /\ TRUE \in BOOLEAN /\ FALSE \in BOOLEAN
            BY DEF Kinds
        <3> QED BY <3>1, TokTyped
    <2>2. /\ h[1] \in Token(r) /\ h[2] \in Token(r) /\ h[3] \in Token(r) /\ h[4] \in Token(r)
          /\ h[5] \in Token(r) /\ h[6] \in Token(r) /\ h[7] \in Token(r) /\ h[8] \in Token(r)
          /\ h[9] \in Token(r) /\ h[10] \in Token(r) /\ h[11] \in Token(r) /\ h[12] \in Token(r)
          /\ h[13] \in Token(r) /\ h[14] \in Token(r) /\ h[15] \in Token(r)
        BY <1>1, <2>1, Zenon
    <2>3. h = <<h[1], h[2], h[3], h[4], h[5], h[6], h[7], h[8], h[9], h[10], h[11], h[12], h[13], h[14], h[15]>>
        BY DEF HeadText
    <2> HIDE DEF Token
    <2>4. <<h[1], h[2], h[3], h[4], h[5], h[6], h[7], h[8], h[9], h[10], h[11], h[12], h[13], h[14], h[15]>> \in Seq(Token(r))
        BY <2>2, FifteenTyped
    <2> QED BY <2>3, <2>4, Zenon
<1>3. IsHead(h, c, name, value)
    BY <1>1 DEF IsHead, Tok, HeadLength
<1> QED BY <1>1, <1>2, <1>3 DEF HeadLength

(* and so are the chunks.                                                  *)
LEMMA ChunkIs ==
    ASSUME NEW r \in Nat \ {0}, NEW b \in Nat, NEW n \in Nat, NEW c, c = ChunkText(r, b, n)
    PROVE  Len(c) = n + 5 /\ ChunkLies(c, r, 0, b, n) /\ c \in Seq(Token(r))
<1> DEFINE d == <<Tok("digit", n, r, FALSE), Tok("cr", 0, r, TRUE), Tok("lf", 0, r, TRUE)>>
           s == [i \in 1..n |-> Tok("byte", b + i, r, i > 1)]
           e == <<Tok("cr", 0, r, FALSE), Tok("lf", 0, r, FALSE)>>
<1>1. /\ Tok("digit", n, r, FALSE) \in Token(r) /\ Tok("cr", 0, r, TRUE) \in Token(r)
      /\ Tok("lf", 0, r, TRUE) \in Token(r) /\ Tok("cr", 0, r, FALSE) \in Token(r)
      /\ Tok("lf", 0, r, FALSE) \in Token(r)
    <2>1. /\ "digit" \in Kinds /\ "cr" \in Kinds /\ "lf" \in Kinds
          /\ 0 \in Nat /\ TRUE \in BOOLEAN /\ FALSE \in BOOLEAN
        BY DEF Kinds
    <2> QED BY <2>1, TokTyped
<1>2. /\ d \in Seq(Token(r)) /\ Len(d) = 3
      /\ d[1] = Tok("digit", n, r, FALSE) /\ d[2] = Tok("cr", 0, r, TRUE) /\ d[3] = Tok("lf", 0, r, TRUE)
    <2>1. d \in Seq(Token(r))
        BY <1>1, TuplesTyped
    <2> QED BY <2>1
<1>3. s \in Seq(Token(r)) /\ Len(s) = n /\ \A i \in 1..n : s[i] = Tok("byte", b + i, r, i > 1)
    <2>1. ASSUME NEW i \in 1..n
          PROVE  Tok("byte", b + i, r, i > 1) \in Token(r)
        <3> DEFINE j == i > 1
        <3>1. "byte" \in Kinds /\ b + i \in Nat /\ j \in BOOLEAN
            BY DEF Kinds
        <3> HIDE DEF j
        <3>2. Tok("byte", b + i, r, j) \in Token(r)
            BY <3>1, TokTyped
        <3> QED BY <3>2 DEF j
    <2> QED BY <2>1
<1>4. /\ e \in Seq(Token(r)) /\ Len(e) = 2
      /\ e[1] = Tok("cr", 0, r, FALSE) /\ e[2] = Tok("lf", 0, r, FALSE)
    <2>1. e \in Seq(Token(r))
        BY <1>1, TuplesTyped
    <2> QED BY <2>1
<1>5. c = d \o s \o e
    BY DEF ChunkText
<1> HIDE DEF d, s, e
<1>6. /\ d \o s \in Seq(Token(r)) /\ Len(d \o s) = n + 3
      /\ \A i \in 1..(n + 3) : (d \o s)[i] = IF i <= 3 THEN d[i] ELSE s[i - 3]
    <2>1. /\ d \o s \in Seq(Token(r)) /\ Len(d \o s) = Len(d) + Len(s)
          /\ \A i \in 1..(Len(d) + Len(s)) : (d \o s)[i] = IF i <= Len(d) THEN d[i] ELSE s[i - Len(d)]
        <3>1. d \in Seq(Token(r)) /\ s \in Seq(Token(r))
            BY <1>2, <1>3
        <3> QED BY <3>1, ConcatProperties
    <2> QED BY <1>2, <1>3, <2>1
<1> DEFINE x == d \o s
<1> HIDE DEF x
<1>7. /\ c \in Seq(Token(r)) /\ Len(c) = n + 5
      /\ \A i \in 1..(n + 5) : c[i] = IF i <= n + 3 THEN x[i] ELSE e[i - (n + 3)]
    <2>1. x \in Seq(Token(r)) /\ Len(x) = n + 3 /\ c = x \o e
        BY <1>5, <1>6 DEF x
    <2>2. /\ x \o e \in Seq(Token(r)) /\ Len(x \o e) = Len(x) + Len(e)
          /\ \A i \in 1..(Len(x) + Len(e)) : (x \o e)[i] = IF i <= Len(x) THEN x[i] ELSE e[i - Len(x)]
        BY <1>4, <2>1, ConcatProperties
    <2> QED BY <1>4, <2>1, <2>2
<1>8. \A i \in 1..(n + 3) : x[i] = IF i <= 3 THEN d[i] ELSE s[i - 3]
    BY <1>6 DEF x
<1>9. /\ c[1] = d[1] /\ c[2] = d[2] /\ c[3] = d[3] /\ c[n + 4] = e[1] /\ c[n + 5] = e[2]
      /\ \A i \in 1..n : c[3 + i] = s[i]
    BY <1>7, <1>8
<1>10. /\ c[1].kind = "digit" /\ c[1].num = n
       /\ c[2].kind = "cr" /\ c[2].joined /\ c[3].kind = "lf" /\ c[3].joined
       /\ c[n + 4].kind = "cr" /\ c[n + 5].kind = "lf"
    BY <1>2, <1>4, <1>9 DEF Tok
<1>11. \A i \in 1..n : c[3 + i].kind = "byte" /\ c[3 + i].num = b + i /\ c[3 + i].of = r /\ (i > 1 => c[3 + i].joined)
    <2> SUFFICES ASSUME NEW i \in 1..n
                 PROVE  /\ c[3 + i].kind = "byte" /\ c[3 + i].num = b + i /\ c[3 + i].of = r
                        /\ i > 1 => c[3 + i].joined
        OBVIOUS
    <2>1. c[3 + i] = Tok("byte", b + i, r, i > 1)
        BY <1>3, <1>9
    <2>2. c[3 + i].kind = "byte" /\ c[3 + i].num = b + i /\ c[3 + i].of = r
        BY <2>1 DEF Tok
    <2>3. i > 1 => c[3 + i].joined
        <3> DEFINE j == i > 1
        <3>1. c[3 + i] = Tok("byte", b + i, r, j)
            BY <2>1
        <3> HIDE DEF j
        <3>2. c[3 + i].joined = j
            BY <3>1 DEF Tok
        <3> QED BY <3>2, Zenon DEF j
    <2> QED BY <2>2, <2>3
<1>12. ChunkLies(c, r, 0, b, n)
    BY <1>7, <1>10, <1>11 DEF ChunkLies
<1> QED BY <1>7, <1>12

\* The number of tokens of a chunk of n bytes.
ChunkLength(n) == IF n > 0 THEN n + 5 ELSE 0

\* A chunk of a chunked answer: q tokens and b bytes of the body come before
\* it, n bytes are in it.
IsChunk(f, q, b, n) ==
    \/ f.first > 0 /\ q = HeadLength /\ b = 0 /\ n = f.first
    \/ f.size > f.first /\ q = HeadLength + ChunkLength(f.first) /\ b = f.first /\ n = f.size - f.first
    \/ /\ q = HeadLength + ChunkLength(f.first) + ChunkLength(f.size - f.first)
       /\ b = f.size /\ n = 0

(* Where a chunk of c is in T.                                             *)
LEMMA ChunkMoves ==
    ASSUME NEW T, NEW c, NEW r, NEW q \in Nat, NEW b \in Nat, NEW n \in Nat,
           ChunkLies(c, r, 0, b, n), Len(T) \in Nat, q + 5 + n <= Len(T),
           \A i \in 1..(n + 5) : T[q + i] = c[i]
    PROVE  ChunkLies(T, r, q, b, n)
<1>1. /\ T[q + 1] = c[1] /\ T[q + 2] = c[2] /\ T[q + 3] = c[3]
      /\ T[q + 4 + n] = c[4 + n] /\ T[q + 5 + n] = c[5 + n]
      /\ \A i \in 1..n : T[q + 3 + i] = c[3 + i]
    <2>1. \A i \in 1..(n + 5) : T[q + i] = c[i]
        OBVIOUS
    <2>2. /\ 1 \in 1..(n + 5) /\ 2 \in 1..(n + 5) /\ 3 \in 1..(n + 5)
          /\ 4 + n \in 1..(n + 5) /\ 5 + n \in 1..(n + 5)
          /\ \A i \in 1..n : 3 + i \in 1..(n + 5) /\ q + 3 + i = q + (3 + i)
          /\ q + 4 + n = q + (4 + n) /\ q + 5 + n = q + (5 + n)
        OBVIOUS
    <2> QED BY <2>1, <2>2
<1>2. /\ c[1].kind = "digit" /\ c[1].num = n
      /\ c[2].kind = "cr" /\ c[2].joined /\ c[3].kind = "lf" /\ c[3].joined
      /\ c[4 + n].kind = "cr" /\ c[5 + n].kind = "lf"
      /\ \A i \in 1..n :
            /\ c[3 + i].kind = "byte" /\ c[3 + i].num = b + i /\ c[3 + i].of = r
            /\ i > 1 => c[3 + i].joined
    <2>1. 0 + 1 = 1 /\ 0 + 2 = 2 /\ 0 + 3 = 3 /\ 0 + 4 + n = 4 + n /\ 0 + 5 + n = 5 + n
        OBVIOUS
    <2> QED BY <2>1 DEF ChunkLies
<1>3. ASSUME NEW i \in 1..n
      PROVE  /\ T[q + 3 + i].kind = "byte" /\ T[q + 3 + i].num = b + i /\ T[q + 3 + i].of = r
             /\ i > 1 => T[q + 3 + i].joined
    <2>1. T[q + 3 + i] = c[3 + i]
        BY <1>1
    <2> QED BY <1>2, <2>1
<1> QED BY <1>1, <1>2, <1>3 DEF ChunkLies

(* What comes behind x in x \o y.                                          *)
LEMMA Behind ==
    ASSUME NEW S, NEW x \in Seq(S), NEW y \in Seq(S)
    PROVE  /\ x \o y \in Seq(S) /\ Len(x \o y) = Len(x) + Len(y)
           /\ \A i \in 1..Len(x) : (x \o y)[i] = x[i]
           /\ \A i \in 1..Len(y) : (x \o y)[Len(x) + i] = y[i]
<1>1. /\ Len(x \o y) = Len(x) + Len(y)
      /\ \A i \in 1..(Len(x) + Len(y)) : (x \o y)[i] = IF i <= Len(x) THEN x[i] ELSE y[i - Len(x)]
    BY ConcatProperties
<1>2. Len(x) \in Nat /\ Len(y) \in Nat
    OBVIOUS
<1>3. \A i \in 1..Len(x) : (x \o y)[i] = x[i]
    BY <1>1, <1>2
<1>4. \A i \in 1..Len(y) : (x \o y)[Len(x) + i] = y[i]
    <2> SUFFICES ASSUME NEW i \in 1..Len(y)
                 PROVE  (x \o y)[Len(x) + i] = y[i]
        OBVIOUS
    <2>1. /\ Len(x) + i \in 1..(Len(x) + Len(y)) /\ ~(Len(x) + i <= Len(x)) /\ (Len(x) + i) - Len(x) = i
        BY <1>2
    <2> QED BY <1>1, <2>1
<1> QED BY <1>1, <1>3, <1>4

\* The chunk of n bytes, when there is one.
ChunkOf(r, b, n) == IF n > 0 THEN ChunkText(r, b, n) ELSE <<>>

(* One more chunk.                                                         *)
LEMMA ChunkBehind ==
    ASSUME NEW r \in Nat \ {0}, NEW x \in Seq(Token(r)), NEW b \in Nat, NEW n \in Nat
    PROVE  /\ x \o ChunkOf(r, b, n) \in Seq(Token(r))
           /\ Len(x \o ChunkOf(r, b, n)) = Len(x) + ChunkLength(n)
           /\ \A i \in 1..Len(x) : (x \o ChunkOf(r, b, n))[i] = x[i]
           /\ n > 0 => ChunkLies(x \o ChunkOf(r, b, n), r, Len(x), b, n)
<1> DEFINE c == ChunkOf(r, b, n)
           t == x \o c
<1>1. c \in Seq(Token(r)) /\ Len(c) = ChunkLength(n) /\ (n > 0 => ChunkLies(c, r, 0, b, n))
    <2>1. CASE n > 0
        <3>1. c = ChunkText(r, b, n)
            BY <2>1 DEF ChunkOf
        <3> HIDE DEF c
        <3>2. Len(c) = n + 5 /\ ChunkLies(c, r, 0, b, n) /\ c \in Seq(Token(r))
            BY <3>1, ChunkIs
        <3> QED BY <2>1, <3>2 DEF ChunkLength
    <2>2. CASE ~(n > 0)
        BY <2>2 DEF ChunkOf, ChunkLength
    <2> QED BY <2>1, <2>2
<1> HIDE DEF c
<1>2. /\ t \in Seq(Token(r)) /\ Len(t) = Len(x) + Len(c)
      /\ \A i \in 1..Len(x) : t[i] = x[i]
      /\ \A i \in 1..Len(c) : t[Len(x) + i] = c[i]
    <2>1. x \in Seq(Token(r)) /\ c \in Seq(Token(r))
        BY <1>1
    <2> QED BY ONLY <2>1, Behind
<1> HIDE DEF t
<1>3. ASSUME n > 0
      PROVE  ChunkLies(t, r, Len(x), b, n)
    <2>1. /\ Len(c) = n + 5 /\ Len(x) \in Nat /\ Len(t) \in Nat /\ Len(x) + 5 + n <= Len(t)
          /\ ChunkLies(c, r, 0, b, n) /\ \A i \in 1..(n + 5) : t[Len(x) + i] = c[i]
        BY <1>1, <1>2, <1>3 DEF ChunkLength
    <2> QED BY <2>1, ChunkMoves
<1> QED BY <1>1, <1>2, <1>3 DEF t, c

(* A chunk stays where it is when more comes behind it.                    *)
LEMMA ChunkStays ==
    ASSUME NEW T, NEW x, NEW r, NEW q \in Nat, NEW b \in Nat, NEW n \in Nat,
           ChunkLies(x, r, q, b, n), Len(x) \in Nat, Len(T) \in Nat, Len(x) <= Len(T),
           \A i \in 1..Len(x) : T[i] = x[i]
    PROVE  ChunkLies(T, r, q, b, n)
<1>1. /\ q + 5 + n <= Len(x)
      /\ x[q + 1].kind = "digit" /\ x[q + 1].num = n
      /\ x[q + 2].kind = "cr" /\ x[q + 2].joined /\ x[q + 3].kind = "lf" /\ x[q + 3].joined
      /\ x[q + 4 + n].kind = "cr" /\ x[q + 5 + n].kind = "lf"
    BY DEF ChunkLies
<1>2. /\ T[q + 1] = x[q + 1] /\ T[q + 2] = x[q + 2] /\ T[q + 3] = x[q + 3]
      /\ T[q + 4 + n] = x[q + 4 + n] /\ T[q + 5 + n] = x[q + 5 + n]
    BY <1>1
<1>3. ASSUME NEW i \in 1..n
      PROVE  /\ T[q + 3 + i].kind = "byte" /\ T[q + 3 + i].num = b + i /\ T[q + 3 + i].of = r
             /\ i > 1 => T[q + 3 + i].joined
    <2>1. q + 3 + i \in 1..Len(x)
        <3>1. q + 5 + n <= Len(x) /\ q \in Nat /\ n \in Nat /\ i \in 1..n /\ Len(x) \in Nat
            BY <1>1
        <3> QED BY ONLY <3>1
    <2>2. T[q + 3 + i] = x[q + 3 + i]
        BY <2>1
    <2>3. /\ x[q + 3 + i].kind = "byte" /\ x[q + 3 + i].num = b + i /\ x[q + 3 + i].of = r
          /\ i > 1 => x[q + 3 + i].joined
        BY DEF ChunkLies
    <2> QED BY <2>2, <2>3
<1> QED BY <1>1, <1>2, <1>3 DEF ChunkLies


(* The bytes of a body, or of a chunk.                                     *)
LEMMA BytesAre ==
    ASSUME NEW r \in Nat \ {0}, NEW b \in Nat, NEW n \in Nat
    PROVE  /\ Bytes(r, b, n) \in Seq(Token(r)) /\ Len(Bytes(r, b, n)) = n
           /\ \A i \in 1..n : Bytes(r, b, n)[i] = Tok("byte", b + i, r, FALSE)
<1> DEFINE y == Bytes(r, b, n)
           j == FALSE
<1>1. ASSUME NEW i \in 1..n
      PROVE  Tok("byte", b + i, r, j) \in Token(r)
    <2>1. "byte" \in Kinds /\ j \in BOOLEAN /\ b + i \in Nat
        BY DEF Kinds
    <2> HIDE DEF j
    <2> QED BY <2>1, TokTyped
<1>2. y = [i \in 1..n |-> Tok("byte", b + i, r, FALSE)]
    BY DEF Bytes
<1>3. y \in Seq(Token(r)) /\ Len(y) = n
    <2> DEFINE s == [i \in 1..n |-> Tok("byte", b + i, r, j)]
    <2> HIDE DEF j
    <2>1. s \in Seq(Token(r)) /\ Len(s) = n
        BY <1>1
    <2> QED BY <1>2, <2>1, Zenon DEF j
<1> HIDE DEF y
<1> QED BY <1>2, <1>3 DEF y

(* What is where in an answer.                                             *)
LEMMA TextIs ==
    ASSUME NEW r \in Nat \ {0}, NEW f, IsForm(f), NEW T, T = Text(r, f)
    PROVE  /\ T \in Seq(Token(r)) /\ Len(T) \in Nat /\ Len(T) >= HeadLength
           /\ f.chunked =>
                /\ IsHead(T, f.code, "other", 0)
                /\ \A q, b, n : IsChunk(f, q, b, n) => ChunkLies(T, r, q, b, n) /\ (n = 0 => Len(T) = q + 5)
           /\ ~f.chunked =>
                /\ IsHead(T, f.code, "length", f.size)
                /\ Len(T) = HeadLength + f.size
                /\ \A i \in 1..f.size :
                    /\ T[HeadLength + i].kind = "byte"
                    /\ T[HeadLength + i].num = i /\ T[HeadLength + i].of = r
<1>0. f.code \in Nat /\ f.chunked \in BOOLEAN /\ f.size \in Nat /\ f.first \in 0..f.size
    BY DEF IsForm
<1>1. "length" \in Kinds /\ "other" \in Kinds /\ "byte" \in Kinds /\ 0 \in Nat /\ FALSE \in BOOLEAN
    BY DEF Kinds
<1>2. CASE f.chunked
    <2> DEFINE h == HeadText(r, f.code, "other", 0)
               n == f.size - f.first
               x == h \o ChunkOf(r, 0, f.first)
               y == x \o ChunkOf(r, f.first, n)
               last == ChunkText(r, f.size, 0)
    <2>1. Len(h) = HeadLength /\ IsHead(h, f.code, "other", 0) /\ h \in Seq(Token(r))
        BY <1>0, <1>1, HeadIs
    <2>2. n \in Nat /\ (n > 0 <=> f.size > f.first) /\ f.first \in Nat /\ f.size \in Nat
        BY <1>0
    <2>3. T = y \o last
        BY <1>2, <2>2 DEF Text, ChunkOf
    <2> HIDE DEF h, n, last
    <2>4. /\ x \in Seq(Token(r)) /\ Len(x) = HeadLength + ChunkLength(f.first)
          /\ \A i \in 1..HeadLength : x[i] = h[i]
          /\ f.first > 0 => ChunkLies(x, r, HeadLength, 0, f.first)
        <3>1. /\ x \in Seq(Token(r)) /\ Len(x) = Len(h) + ChunkLength(f.first)
              /\ \A i \in 1..Len(h) : x[i] = h[i]
              /\ f.first > 0 => ChunkLies(x, r, Len(h), 0, f.first)
            <4> DEFINE a == f.first
            <4>1. /\ r \in Nat \ {0} /\ h \in Seq(Token(r)) /\ 0 \in Nat /\ a \in Nat
                BY <2>1, <2>2
            <4> HIDE DEF a
            <4>2. /\ h \o ChunkOf(r, 0, a) \in Seq(Token(r))
                  /\ Len(h \o ChunkOf(r, 0, a)) = Len(h) + ChunkLength(a)
                  /\ \A i \in 1..Len(h) : (h \o ChunkOf(r, 0, a))[i] = h[i]
                  /\ a > 0 => ChunkLies(h \o ChunkOf(r, 0, a), r, Len(h), 0, a)
                BY ONLY <4>1, ChunkBehind
            <4> QED BY <4>2 DEF a
        <3> QED BY <2>1, <3>1, Zenon
    <2> HIDE DEF x
    <2>5. /\ y \in Seq(Token(r)) /\ Len(y) = HeadLength + ChunkLength(f.first) + ChunkLength(n)
          /\ \A i \in 1..Len(x) : y[i] = x[i]
          /\ n > 0 => ChunkLies(y, r, Len(x), f.first, n)
        <3>1. /\ y \in Seq(Token(r)) /\ Len(y) = Len(x) + ChunkLength(n)
              /\ \A i \in 1..Len(x) : y[i] = x[i]
              /\ n > 0 => ChunkLies(y, r, Len(x), f.first, n)
            <4>1. /\ r \in Nat \ {0} /\ x \in Seq(Token(r)) /\ f.first \in Nat /\ n \in Nat
                BY <2>2, <2>4
            <4> QED BY ONLY <4>1, ChunkBehind
        <3> QED BY <2>4, <3>1, Zenon
    <2> HIDE DEF y
    <2>6. last \in Seq(Token(r)) /\ Len(last) = 5 /\ ChunkLies(last, r, 0, f.size, 0)
        <3>1. last = ChunkText(r, f.size, 0)
            BY DEF last
        <3>2. last \in Seq(Token(r)) /\ Len(last) = 0 + 5 /\ ChunkLies(last, r, 0, f.size, 0)
            BY <2>2, <1>1, <3>1, ChunkIs, Zenon
        <3> QED BY <3>2
    <2>7. /\ T \in Seq(Token(r)) /\ Len(T) = Len(y) + 5
          /\ \A i \in 1..Len(y) : T[i] = y[i]
          /\ \A i \in 1..5 : T[Len(y) + i] = last[i]
        <3>1. y \in Seq(Token(r)) /\ last \in Seq(Token(r))
            BY <2>5, <2>6
        <3>2. /\ y \o last \in Seq(Token(r)) /\ Len(y \o last) = Len(y) + Len(last)
              /\ \A i \in 1..Len(y) : (y \o last)[i] = y[i]
              /\ \A i \in 1..Len(last) : (y \o last)[Len(y) + i] = last[i]
            BY ONLY <3>1, Behind
        <3>3. Len(last) = 5
            BY <2>6
        <3> QED BY <3>2, <3>3, <2>3
    <2>8. ChunkLength(f.first) \in Nat /\ ChunkLength(n) \in Nat /\ HeadLength = 15
        BY <2>2 DEF ChunkLength, HeadLength
    <2>9. Len(x) \in Nat /\ Len(y) \in Nat /\ Len(T) \in Nat /\ Len(y) >= Len(x) /\ Len(x) >= HeadLength
        <3>1. Len(x) = HeadLength + ChunkLength(f.first) /\ Len(y) = HeadLength + ChunkLength(f.first) + ChunkLength(n)
            BY <2>4, <2>5
        <3>2. Len(T) = Len(y) + 5
            BY <2>7
        <3> QED BY <3>1, <3>2, <2>8
    <2>10. IsHead(T, f.code, "other", 0)
        <3>1. \A i \in 1..15 : T[i] = h[i]
            <4>1. /\ \A i \in 1..HeadLength : x[i] = h[i]
                  /\ \A i \in 1..Len(x) : y[i] = x[i]
                  /\ \A i \in 1..Len(y) : T[i] = y[i]
                BY <2>4, <2>5, <2>7
            <4>2. /\ HeadLength = 15 /\ \A i \in 1..15 : i \in 1..Len(x) /\ i \in 1..Len(y)
                BY <2>8, <2>9
            <4> QED BY <4>1, <4>2, Zenon
        <3> QED BY <2>1, <3>1 DEF IsHead
    <2>11. f.first > 0 => ChunkLies(T, r, HeadLength, 0, f.first)
        <3> HAVE f.first > 0
        <3>1. ChunkLies(x, r, HeadLength, 0, f.first)
            BY <2>4
        <3>2. \A i \in 1..Len(x) : T[i] = x[i]
            <4>1. /\ \A i \in 1..Len(x) : y[i] = x[i]
                  /\ \A i \in 1..Len(y) : T[i] = y[i]
                BY <2>5, <2>7
            <4> QED BY <4>1, <2>9
        <3>3. HeadLength \in Nat /\ Len(x) <= Len(T) /\ Len(x) \in Nat /\ Len(T) \in Nat
            <4>1. Len(T) = Len(y) + 5
                BY <2>7
            <4> QED BY <4>1, <2>8, <2>9
        <3> QED BY <2>2, <1>1, <3>1, <3>2, <3>3, ChunkStays, Zenon
    <2>12. n > 0 => ChunkLies(T, r, Len(x), f.first, n)
        <3> HAVE n > 0
        <3>1. ChunkLies(y, r, Len(x), f.first, n)
            BY <2>5
        <3>2. \A i \in 1..Len(y) : T[i] = y[i]
            BY <2>7
        <3>3. Len(x) \in Nat /\ Len(y) <= Len(T) /\ Len(y) \in Nat /\ Len(T) \in Nat
            <4>1. Len(T) = Len(y) + 5
                BY <2>7
            <4> QED BY <4>1, <2>9
        <3> QED BY <2>2, <3>1, <3>2, <3>3, ChunkStays, Zenon
    <2>13. ChunkLies(T, r, Len(y), f.size, 0)
        <3>1. ChunkLies(last, r, 0, f.size, 0)
            BY <2>6
        <3>2. /\ \A i \in 1..(0 + 5) : T[Len(y) + i] = last[i]
              /\ Len(y) \in Nat /\ Len(T) \in Nat /\ Len(y) + 5 + 0 <= Len(T)
            <4>1. Len(T) = Len(y) + 5 /\ \A i \in 1..5 : T[Len(y) + i] = last[i]
                BY <2>7
            <4> QED BY <4>1, <2>9
        <3> QED BY <2>2, <1>1, <3>1, <3>2, ChunkMoves, Zenon
    <2>14. ASSUME NEW q, NEW b, NEW m, IsChunk(f, q, b, m)
           PROVE  ChunkLies(T, r, q, b, m) /\ (m = 0 => Len(T) = q + 5)
        <3>1. \/ f.first > 0 /\ q = HeadLength /\ b = 0 /\ m = f.first
              \/ n > 0 /\ q = Len(x) /\ b = f.first /\ m = n
              \/ q = Len(y) /\ b = f.size /\ m = 0
            <4>1. Len(x) = HeadLength + ChunkLength(f.first) /\ Len(y) = HeadLength + ChunkLength(f.first) + ChunkLength(n)
                BY <2>4, <2>5
            <4> QED BY <4>1, <2>2, <2>14, Zenon DEF IsChunk, n
        <3>2. CASE f.first > 0 /\ q = HeadLength /\ b = 0 /\ m = f.first
            BY <2>2, <2>11, <3>2
        <3>3. CASE n > 0 /\ q = Len(x) /\ b = f.first /\ m = n
            BY <2>2, <2>12, <3>3
        <3>4. CASE q = Len(y) /\ b = f.size /\ m = 0
            <4>1. Len(T) = Len(y) + 5
                BY <2>7
            <4> QED BY <4>1, <2>13, <3>4
        <3> QED BY <3>1, <3>2, <3>3, <3>4
    <2>15. T \in Seq(Token(r)) /\ Len(T) \in Nat /\ Len(T) >= HeadLength
        <3>1. Len(T) = Len(y) + 5
            BY <2>7
        <3> QED BY <2>7, <2>8, <2>9, <3>1
    <2> QED BY <1>2, <2>10, <2>14, <2>15, Zenon
<1>3. CASE ~f.chunked
    <2> DEFINE h == HeadText(r, f.code, "length", f.size)
               y == Bytes(r, 0, f.size)
    <2>1. Len(h) = HeadLength /\ IsHead(h, f.code, "length", f.size) /\ h \in Seq(Token(r))
        BY <1>0, <1>1, HeadIs
    <2>2. y \in Seq(Token(r)) /\ Len(y) = f.size /\ \A i \in 1..f.size : y[i] = Tok("byte", 0 + i, r, FALSE)
        <3>1. f.size \in Nat
            BY <1>0
        <3> QED BY <3>1, <1>1, BytesAre, Zenon
    <2>3. T = h \o y
        BY <1>3 DEF Text
    <2> HIDE DEF h, y
    <2>4. /\ h \o y \in Seq(Token(r)) /\ Len(h \o y) = Len(h) + Len(y)
          /\ \A i \in 1..Len(h) : (h \o y)[i] = h[i]
          /\ \A i \in 1..Len(y) : (h \o y)[Len(h) + i] = y[i]
        <3>1. h \in Seq(Token(r)) /\ y \in Seq(Token(r))
            BY <2>1, <2>2
        <3> QED BY ONLY <3>1, Behind
    <2>5. /\ T \in Seq(Token(r)) /\ Len(T) = HeadLength + f.size
          /\ \A i \in 1..HeadLength : T[i] = h[i]
          /\ \A i \in 1..f.size : T[HeadLength + i] = Tok("byte", 0 + i, r, FALSE)
        <3>1. Len(h) = HeadLength /\ Len(y) = f.size /\ \A i \in 1..f.size : y[i] = Tok("byte", 0 + i, r, FALSE)
            BY <2>1, <2>2
        <3> QED BY <3>1, <2>3, <2>4, Zenon
    <2>6. IsHead(T, f.code, "length", f.size)
        <3>1. \A i \in 1..15 : T[i] = h[i]
            BY <2>5 DEF HeadLength
        <3> QED BY <2>1, <3>1 DEF IsHead
    <2>7. ASSUME NEW i \in 1..f.size
          PROVE  T[HeadLength + i].kind = "byte" /\ T[HeadLength + i].num = i /\ T[HeadLength + i].of = r
        <3>1. T[HeadLength + i] = Tok("byte", 0 + i, r, FALSE) /\ 0 + i = i
            <4>1. 0 + i = i
                BY <1>0
            <4> QED BY <4>1, <2>5, Zenon
        <3> QED BY <3>1 DEF Tok
    <2>8. Len(T) \in Nat /\ Len(T) >= HeadLength
        <3>1. Len(T) = HeadLength + f.size
            BY <2>5
        <3> QED BY <1>0, <3>1 DEF HeadLength
    <2> QED BY <1>3, <2>5, <2>6, <2>7, <2>8, Zenon
<1> QED BY <1>0, <1>2, <1>3, Zenon

(* Behind a chunk comes another, until there is one of no bytes.           *)
LEMMA NextChunk ==
    ASSUME NEW f, IsForm(f), NEW q, NEW b, NEW n, IsChunk(f, q, b, n)
    PROVE  /\ q \in Nat /\ b \in Nat /\ n \in Nat /\ q >= HeadLength /\ b + n <= f.size
           /\ n = 0 => b = f.size
           /\ n > 0 => \E m : IsChunk(f, q + 5 + n, b + n, m)
<1>0. f.size \in Nat /\ f.first \in 0..f.size /\ HeadLength = 15
    BY DEF IsForm, HeadLength
<1>1. CASE f.first > 0 /\ q = HeadLength /\ b = 0 /\ n = f.first
    <2>1. CASE f.size > f.first
        <3>1. IsChunk(f, q + 5 + n, b + n, f.size - f.first)
            BY <1>0, <1>1, <2>1 DEF IsChunk, ChunkLength
        <3> QED BY <1>0, <1>1, <3>1
    <2>2. CASE ~(f.size > f.first)
        <3>1. IsChunk(f, q + 5 + n, b + n, 0)
            BY <1>0, <1>1, <2>2 DEF IsChunk, ChunkLength
        <3> QED BY <1>0, <1>1, <3>1
    <2> QED BY <2>1, <2>2
<1>2. CASE f.size > f.first /\ q = HeadLength + ChunkLength(f.first) /\ b = f.first /\ n = f.size - f.first
    <2>1. IsChunk(f, q + 5 + n, b + n, 0)
        BY <1>0, <1>2 DEF IsChunk, ChunkLength
    <2> QED BY <1>0, <1>2, <2>1 DEF ChunkLength
<1>3. CASE /\ q = HeadLength + ChunkLength(f.first) + ChunkLength(f.size - f.first)
           /\ b = f.size /\ n = 0
    BY <1>0, <1>3 DEF ChunkLength
<1> QED BY <1>1, <1>2, <1>3 DEF IsChunk

(* The first chunk comes behind the header.                                *)
LEMMA FirstChunk ==
    ASSUME NEW f, IsForm(f)
    PROVE  \E n : IsChunk(f, HeadLength, 0, n)
<1>0. f.size \in Nat /\ f.first \in 0..f.size /\ HeadLength = 15
    BY DEF IsForm, HeadLength
<1>1. CASE f.first > 0
    <2>1. IsChunk(f, HeadLength, 0, f.first)
        BY <1>1 DEF IsChunk
    <2> QED BY <2>1
<1>2. CASE f.first = 0 /\ f.size > 0
    <2>1. IsChunk(f, HeadLength, 0, f.size - f.first)
        BY <1>0, <1>2 DEF IsChunk, ChunkLength
    <2> QED BY <2>1
<1>3. CASE f.first = 0 /\ f.size = 0
    <2>1. IsChunk(f, HeadLength, 0, 0)
        BY <1>0, <1>3 DEF IsChunk, ChunkLength
    <2> QED BY <2>1
<1> QED BY <1>0, <1>1, <1>2, <1>3
-----------------------------------------------------------------------------
(* The types.                                                              *)

PartOf(n) == [of : 1..n, part : {1, 2}]

Types ==
    /\ turn \in 0..MaxDownloads
    /\ form \in Form \cup {NoForm, Refusal}
    /\ how \in {"running", "whole", "error", "timeout", "crash"}
    /\ requestSended \in BOOLEAN /\ content \in BOOLEAN /\ reading \in BOOLEAN /\ crashed \in BOOLEAN
    /\ code \in Nat
    /\ length \in Nat \cup {NoLength} /\ contentwritten \in Nat
    /\ chunkLength \in Nat \cup {NoChunk}
    /\ harmed \in 0..(MaxHarmed + 1)
    /\ wire \in Seq(Token(turn)) /\ offset \in Seq(Token(turn)) /\ file \in Seq(Token(turn))
    /\ headerBuff \in Seq(Token(turn)) /\ chunkHeader \in Seq(Token(turn))
    /\ heard \in Seq(PartOf(turn)) /\ bufferSocket \in Seq(PartOf(turn))
    /\ how = "running" => turn > 0

(* What is of one of the first n requests is of one of the first n + 1.    *)
LEMMA OfMore ==
    ASSUME NEW n \in Nat
    PROVE  Seq(Token(n)) \subseteq Seq(Token(n + 1)) /\ Seq(PartOf(n)) \subseteq Seq(PartOf(n + 1))
<1>1. Token(n) \subseteq Token(n + 1)
    <2>1. 1..n \subseteq 1..(n + 1)
        OBVIOUS
    <2> QED BY <2>1 DEF Token
<1>2. PartOf(n) \subseteq PartOf(n + 1)
    <2>1. 1..n \subseteq 1..(n + 1)
        OBVIOUS
    <2> QED BY <2>1 DEF PartOf
<1>3. ASSUME NEW S, NEW R, S \subseteq R
      PROVE  Seq(S) \subseteq Seq(R)
    BY <1>3
<1> QED BY <1>1, <1>2, <1>3

(* The answers have numbers the text can be made of.                       *)
LEMMA FormIs ==
    ASSUME NEW f \in Form \cup {NoForm, Refusal}
    PROVE  IsForm(f) /\ (f.code = 0 <=> f = NoForm)
<1>1. CASE f \in Form
    <2>1. f.code \in Nat \ {0} /\ f.chunked \in BOOLEAN /\ f.size \in Nat /\ f.first \in 0..f.size
        BY <1>1, ExchangeAssumption
    <2> QED BY <2>1 DEF IsForm, NoForm
<1>2. CASE f = NoForm
    BY <1>2 DEF IsForm, NoForm
<1>3. CASE f = Refusal
    BY <1>3 DEF IsForm, NoForm, Refusal
<1> QED BY <1>1, <1>2, <1>3

(* What a read hands to the parser.                                        *)
LEMMA BufferIs ==
    ASSUME NEW n, NEW o \in Seq(Token(n)), NEW w \in Seq(Token(n)), NEW k \in 1..Len(w)
    PROVE  /\ SubSeq(o \o SubSeq(w, 1, k), 1, k) \in Seq(Token(n))
           /\ Len(SubSeq(o \o SubSeq(w, 1, k), 1, k)) = k
           /\ SubSeq(w, k + 1, Len(w)) \in Seq(Token(n))
           /\ Len(SubSeq(w, k + 1, Len(w))) = Len(w) - k
<1> DEFINE a == SubSeq(w, 1, k)
           b == o \o a
           c == SubSeq(b, 1, k)
<1>0. Len(w) \in Nat /\ k \in Nat /\ Len(o) \in Nat
    OBVIOUS
<1>1. a \in Seq(Token(n)) /\ Len(a) = k
    <2>1. 1 \in 1..(Len(w) + 1) /\ k \in 0..Len(w)
        BY <1>0
    <2> QED BY <2>1, SubSeqProperties
<1> HIDE DEF a
<1>2. b \in Seq(Token(n)) /\ Len(b) = Len(o) + k
    BY <1>1, ConcatProperties
<1> HIDE DEF b
<1>3. c \in Seq(Token(n)) /\ Len(c) = k
    <2>1. 1 \in 1..(Len(b) + 1) /\ k \in 0..Len(b)
        BY <1>0, <1>2
    <2> QED BY <1>2, <2>1, SubSeqProperties
<1>4. SubSeq(w, k + 1, Len(w)) \in Seq(Token(n)) /\ Len(SubSeq(w, k + 1, Len(w))) = Len(w) - k
    <2>1. k + 1 \in 1..(Len(w) + 1) /\ Len(w) \in 0..Len(w)
        BY <1>0
    <2> QED BY <2>1, SubSeqProperties
<1> QED BY <1>3, <1>4 DEF a, b

(* First is a position of the text, or the one behind it.                  *)
LEMMA FirstBound ==
    ASSUME NEW s, Len(s) \in Nat, NEW p \in Nat, p <= Len(s) + 1, NEW kinds
    PROVE  First(s, p, kinds) <= Len(s) + 1
<1> DEFINE m == Max({p, Len(s) + 1})
           S == {i \in p..Len(s) : s[i].kind \in kinds} \cup {m}
<1>1. m = IF p >= Len(s) + 1 THEN p ELSE Len(s) + 1
    BY MaxIs
<1>2. m = Len(s) + 1
    BY <1>1
<1> HIDE DEF m
<1>3. S \in SUBSET Nat /\ S # {} /\ m \in S
    BY <1>2
<1>4. Min(S) <= m
    <2> HIDE DEF S
    <2> QED BY <1>3, MinIn
<1>5. First(s, p, kinds) = Min(S)
    BY DEF First, m
<1> QED BY <1>2, <1>4, <1>5

(* A status is a number.                                                   *)
LEMMA HttpCodeTyped ==
    ASSUME NEW n, NEW s \in Seq(Token(n))
    PROVE  HttpCode(s) \in Nat
<1> DEFINE S == {i \in 1..(First(s, 1, {"lf"}) - 1) : s[i].kind = "code"}
<1>1. HttpCode(s) = IF S = {} THEN 0 ELSE s[Min(S)].num
    BY DEF HttpCode
<1>2. CASE S = {}
    BY <1>1, <1>2
<1>3. CASE S # {}
    <2>1. S \in SUBSET Nat
        OBVIOUS
    <2>2. Min(S) \in S
        <3> HIDE DEF S
        <3> QED BY <2>1, <1>3, MinIn
    <2>3. Len(s) \in Nat /\ 1 \in Nat /\ 1 <= Len(s) + 1
        OBVIOUS
    <2>4. First(s, 1, {"lf"}) \in Nat /\ First(s, 1, {"lf"}) <= Len(s) + 1
        BY <2>3, FirstFrom, FirstBound
    <2>5. Min(S) \in 1..Len(s)
        BY <2>2, <2>3, <2>4
    <2>6. s[Min(S)] \in Token(n)
        BY <2>5
    <2> QED BY <1>1, <1>3, <2>6 DEF Token
<1> QED BY <1>2, <1>3

(* The parser makes tokens of tokens.                                      *)
LEMMA HeaderTyped ==
    ASSUME NEW n, NEW s \in Seq(Token(n)), NEW p \in Nat \ {0}
    PROVE  Header(s, p) \in Parsed(n)
<1>1. PICK line : /\ \A b \in Nat \ {0} : Header(s, b) = line[b]
                  /\ \A b \in Nat \ {0} : line[b] = HeaderLine(line, s, b) /\ line[b] \in Parsed(n)
    BY HeaderLines
<1> QED BY <1>1, Zenon

(* So it does of chunks.                                                   *)
LEMMA ChunksTyped ==
    ASSUME NEW n, NEW s \in Seq(Token(n)), Len(s) > 0,
           NEW size \in Nat \cup {NoChunk}, NEW kept \in Seq(Token(n))
    PROVE  Chunks(s, size, kept) \in Outcome(n)
<1>1. PICK from :
          /\ \A l : Chunks(s, l, kept) = IF l > 0 THEN ChunkBytes(from, s, 1, l) ELSE from[1]
          /\ \A p \in Nat \ {0} : from[p] = ChunkSize(from, s, kept, p) /\ from[p] \in Outcome(n)
    BY ChunkSizes, Zenon
<1>2. \A p \in Nat \ {0} : from[p] \in Outcome(n)
    BY <1>1, Zenon
<1>3. CASE ~(size > 0)
    <2>1. Chunks(s, size, kept) = from[1]
        BY <1>1, <1>3
    <2> QED BY <1>2, <2>1
<1>4. CASE size > 0
    <2>1. Chunks(s, size, kept) = ChunkBytes(from, s, 1, size)
        BY <1>1, <1>4
    <2>2. 1 \in Nat \ {0} /\ 1 <= Len(s) /\ size \in Nat \ {0}
        BY <1>4 DEF NoChunk
    <2>3. ChunkBytes(from, s, 1, size) \in Outcome(n)
        BY <1>2, <2>2, BytesTyped
    <2> QED BY <2>1, <2>3
<1> QED BY <1>3, <1>4


(* What Http::write makes of a part of the read.                           *)
LEMMA WriteTyped ==
    ASSUME Types, NEW s \in Seq(Token(turn)), Len(s) > 0, NEW size \in Nat \cup {NoLength}, Write(s, size)
    PROVE  /\ file' \in Seq(Token(turn)) /\ contentwritten' \in Nat
           /\ chunkLength' \in Nat \cup {NoChunk} /\ chunkHeader' \in Seq(Token(turn))
           /\ how' \in {how, "whole"} /\ reading' \in BOOLEAN /\ crashed' \in BOOLEAN
<1>1. /\ file \in Seq(Token(turn)) /\ contentwritten \in Nat /\ reading \in BOOLEAN
      /\ chunkLength \in Nat \cup {NoChunk} /\ chunkHeader \in Seq(Token(turn)) /\ crashed \in BOOLEAN
    BY DEF Types
<1>2. CASE size # NoLength
    <2>1. /\ file' = file \o s /\ contentwritten' = contentwritten + Len(s)
          /\ chunkLength' = chunkLength /\ chunkHeader' = chunkHeader /\ crashed' = crashed
          /\ (how' = how /\ reading' = reading) \/ (how' = "whole" /\ reading' = FALSE)
        BY <1>2 DEF Write, End
    <2>2. file \o s \in Seq(Token(turn)) /\ Len(s) \in Nat
        BY <1>1, ConcatProperties
    <2>3. contentwritten' \in Nat
        BY <1>1, <2>1, <2>2
    <2>4. how' \in {how, "whole"} /\ reading' \in BOOLEAN
        BY <1>1, <2>1
    <2>5. /\ file' \in Seq(Token(turn)) /\ chunkLength' \in Nat \cup {NoChunk}
          /\ chunkHeader' \in Seq(Token(turn)) /\ crashed' \in BOOLEAN
        BY <1>1, <2>1, <2>2, Zenon
    <2> QED BY <2>3, <2>4, <2>5
<1>3. CASE size = NoLength
    <2> DEFINE w == Chunks(s, chunkLength, chunkHeader)
    <2>1. /\ file' = file \o w.out /\ chunkLength' = w.length /\ chunkHeader' = w.kept
          /\ contentwritten' = contentwritten /\ crashed' = (w.what = "abort")
          /\ (how' = how /\ reading' = reading) \/ (how' = "whole" /\ reading' = FALSE)
        BY <1>3 DEF Write, End
    <2>2. w \in Outcome(turn)
        BY <1>1, ChunksTyped
    <2> HIDE DEF w
    <2>3. /\ w.out \in Seq(Token(turn)) /\ w.length \in Nat \cup {NoChunk} /\ w.kept \in Seq(Token(turn))
        BY <2>2 DEF Outcome
    <2>4. file \o w.out \in Seq(Token(turn))
        BY <1>1, <2>3, ConcatProperties
    <2>5. (w.what = "abort") \in BOOLEAN
        OBVIOUS
    <2> QED BY <1>1, <2>1, <2>3, <2>4, <2>5
<1> QED BY <1>2, <1>3

(* The fields no read changes, and the wire.                               *)
LEMMA ReadTyped ==
    ASSUME Types, NEW k \in 1..Len(wire), Read(k)
    PROVE  /\ wire' \in Seq(Token(turn)) /\ harmed' \in 0..(MaxHarmed + 1)
           /\ turn' = turn /\ form' = form /\ requestSended' = requestSended /\ offset' = offset
           /\ bufferSocket' = bufferSocket /\ heard' = heard
           /\ how = "running" /\ reading = TRUE /\ crashed = FALSE
           /\ Buffer(k) \in Seq(Token(turn)) /\ Len(Buffer(k)) = k
<1>1. /\ wire \in Seq(Token(turn)) /\ offset \in Seq(Token(turn)) /\ harmed \in 0..(MaxHarmed + 1)
      /\ MaxHarmed \in Nat
    BY ExchangeAssumption DEF Types
<1>2. wire' = SubSeq(wire, k + 1, Len(wire)) /\ harmed <= MaxHarmed
    BY DEF Read
<1>3. /\ wire' \in Seq(Token(turn)) /\ Buffer(k) \in Seq(Token(turn)) /\ Len(Buffer(k)) = k
    BY <1>1, <1>2, BufferIs DEF Buffer
<1>4. harmed' = harmed + 1 \/ harmed' = 0
    <2> DEFINE joined == wire' # <<>> /\ wire'[1].joined
    <2>1. harmed' = IF harmed > 0 \/ joined THEN harmed + 1 ELSE 0
        BY DEF Read
    <2> HIDE DEF joined
    <2> QED BY <2>1
<1>5. harmed' \in 0..(MaxHarmed + 1)
    BY <1>1, <1>2, <1>4
<1>6. how = "running" /\ reading = TRUE /\ crashed = FALSE
    BY DEF Read, Running, Types
<1> QED BY <1>3, <1>5, <1>6 DEF Read

(* The three reads keep to the values.                                     *)
LEMMA ReadContentTyped ==
    ASSUME Types, NEW k \in 1..Len(wire), ReadContent(k)
    PROVE  Types'
<1>1. /\ Read(k) /\ Write(Buffer(k), length)
      /\ UNCHANGED <<code, length, content, headerBuff>>
    BY DEF ReadContent
<1>2. /\ wire' \in Seq(Token(turn)) /\ harmed' \in 0..(MaxHarmed + 1)
      /\ turn' = turn /\ form' = form /\ requestSended' = requestSended /\ offset' = offset
      /\ bufferSocket' = bufferSocket /\ heard' = heard
      /\ how = "running" /\ Buffer(k) \in Seq(Token(turn)) /\ Len(Buffer(k)) > 0
    <2>1. k > 0
        BY DEF Types
    <2> QED BY <1>1, <2>1, ReadTyped
<1>3. length \in Nat \cup {NoLength}
    BY DEF Types
<1>4. /\ file' \in Seq(Token(turn)) /\ contentwritten' \in Nat
      /\ chunkLength' \in Nat \cup {NoChunk} /\ chunkHeader' \in Seq(Token(turn))
      /\ how' \in {how, "whole"} /\ reading' \in BOOLEAN /\ crashed' \in BOOLEAN
    BY <1>1, <1>2, <1>3, WriteTyped
<1> QED BY <1>1, <1>2, <1>4 DEF Types

(* The status of another answer is a number.                               *)
LEMMA ReadOtherCodeTyped ==
    ASSUME Types, NEW k \in 1..Len(wire), ReadOtherCode(k)
    PROVE  Types'
<1>1. /\ Read(k) /\ code' = HttpCode(Buffer(k)) /\ how' = "error" /\ reading' = FALSE
      /\ UNCHANGED <<length, contentwritten, content, headerBuff, chunkLength, chunkHeader, file, crashed>>
    BY DEF ReadOtherCode, End
<1>2. /\ wire' \in Seq(Token(turn)) /\ harmed' \in 0..(MaxHarmed + 1)
      /\ turn' = turn /\ form' = form /\ requestSended' = requestSended /\ offset' = offset
      /\ bufferSocket' = bufferSocket /\ heard' = heard
      /\ Buffer(k) \in Seq(Token(turn))
    BY <1>1, ReadTyped
<1>3. code' \in Nat
    BY <1>1, <1>2, HttpCodeTyped
<1> QED BY <1>1, <1>2, <1>3 DEF Types

(* What the header leaves is of the right kind.                            *)
LEMMA ReadHeaderTyped ==
    ASSUME Types, NEW k \in 1..Len(wire), ReadHeader(k)
    PROVE  Types'
<1> DEFINE s == Buffer(k)
           h == Header(s, HeaderStart(s, code))
           size == IF h.length = NoLength THEN length ELSE h.length
<1>1. /\ Read(k) /\ code' = 200 /\ length' = size
      /\ headerBuff' = IF headerBuff = <<>> THEN h.kept ELSE headerBuff
      /\ content' = (h.body > 0)
      /\ IF h.body > 0 /\ h.body <= k
         THEN Write(SubSeq(s, h.body, k), size)
         ELSE /\ reading' = (h.body = 0)
              /\ UNCHANGED <<how, contentwritten, chunkLength, chunkHeader, file, crashed>>
    BY DEF ReadHeader
<1>2. /\ wire' \in Seq(Token(turn)) /\ harmed' \in 0..(MaxHarmed + 1)
      /\ turn' = turn /\ form' = form /\ requestSended' = requestSended /\ offset' = offset
      /\ bufferSocket' = bufferSocket /\ heard' = heard /\ how = "running"
      /\ s \in Seq(Token(turn)) /\ Len(s) = k
    BY <1>1, ReadTyped
<1>3. h \in Parsed(turn)
    <2> HIDE DEF s
    <2>1. HeaderStart(s, code) \in Nat \ {0}
        <3>1. Len(s) \in Nat /\ 1 \in Nat
            BY <1>2
        <3>2. First(s, 1, {"lf"}) \in Nat
            BY <3>1, FirstFrom
        <3> QED BY <3>2 DEF HeaderStart
    <2> QED BY <1>2, <2>1, HeaderTyped
<1> HIDE DEF s, h
<1>4. h.body \in Nat /\ h.length \in Nat \cup {NoLength} /\ h.kept \in Seq(Token(turn))
    BY <1>3 DEF Parsed
<1>5. /\ size \in Nat \cup {NoLength} /\ headerBuff' \in Seq(Token(turn)) /\ content' \in BOOLEAN
    BY <1>1, <1>4 DEF Types
<1> HIDE DEF size
<1>6. /\ file' \in Seq(Token(turn)) /\ contentwritten' \in Nat
      /\ chunkLength' \in Nat \cup {NoChunk} /\ chunkHeader' \in Seq(Token(turn))
      /\ how' \in {how, "whole"} /\ reading' \in BOOLEAN /\ crashed' \in BOOLEAN
    <2>1. CASE h.body > 0 /\ h.body <= k
        <3>1. SubSeq(s, h.body, k) \in Seq(Token(turn)) /\ Len(SubSeq(s, h.body, k)) > 0
            <4>1. /\ h.body \in Int /\ k \in Int /\ \A i \in h.body..k : s[i] \in Token(turn)
                BY <1>2, <1>4, <2>1
            <4> QED BY <4>1, <2>1, SubSeqProperties
        <3> QED BY <1>1, <1>5, <2>1, <3>1, WriteTyped
    <2>2. CASE ~(h.body > 0 /\ h.body <= k)
        <3>1. (h.body = 0) \in BOOLEAN
            OBVIOUS
        <3> QED BY <1>1, <2>2, <3>1 DEF Types
    <2> QED BY <2>1, <2>2
<1>7. code' = 200 /\ length' \in Nat \cup {NoLength}
    BY <1>1, <1>5
<1> QED BY <1>2, <1>5, <1>6, <1>7 DEF Types

(* A request and an answer of the running download.                        *)
LEMMA RequestTyped ==
    ASSUME Types, turn > 0
    PROVE  /\ turn \in Nat \ {0}
           /\ Request(turn)[1] \in PartOf(turn) /\ Request(turn)[2] \in PartOf(turn)
           /\ Request(turn) \in Seq(PartOf(turn))
<1>1. turn \in Nat \ {0}
    BY ExchangeAssumption DEF Types
<1>2. /\ Request(turn)[1] = [of |-> turn, part |-> 1] /\ Request(turn)[2] = [of |-> turn, part |-> 2]
      /\ Request(turn) = <<[of |-> turn, part |-> 1], [of |-> turn, part |-> 2]>>
    BY DEF Request
<1>3. [of |-> turn, part |-> 1] \in PartOf(turn) /\ [of |-> turn, part |-> 2] \in PartOf(turn)
    BY <1>1 DEF PartOf
<1> QED BY <1>1, <1>2, <1>3, TuplesTyped

LEMMA AnswerTyped ==
    ASSUME Types, turn > 0, NEW f \in Form \cup {NoForm, Refusal}
    PROVE  wire \o Text(turn, f) \in Seq(Token(turn))
<1>1. turn \in Nat \ {0} /\ wire \in Seq(Token(turn))
    BY ExchangeAssumption DEF Types
<1> DEFINE T == Text(turn, f)
<1>2. IsForm(f)
    BY FormIs
<1>3. T \in Seq(Token(turn))
    BY <1>1, <1>2, TextIs
<1> HIDE DEF T
<1>4. wire \o T \in Seq(Token(turn))
    BY <1>1, <1>3, ConcatProperties
<1> QED BY <1>4 DEF T

(* The steps of the request change little else,                            *)
LEMMA SendingTyped ==
    ASSUME Types, Sending
    PROVE  /\ turn > 0 /\ requestSended' = TRUE /\ turn' = turn /\ how' = how
           /\ UNCHANGED <<parseVars, callVars, harmed, crashed>>
BY DEF Sending, Running, Types

(* a whole request brings its answer,                                      *)
LEMMA SendWholeTyped ==
    ASSUME Types, SendWhole
    PROVE  Types'
<1>1. /\ turn > 0 /\ requestSended' = TRUE /\ turn' = turn /\ how' = how
      /\ UNCHANGED <<parseVars, callVars, harmed, crashed>>
    BY SendingTyped DEF SendWhole
<1>2. PICK f \in IF form = NoForm THEN Form ELSE {form} : form' = f /\ wire' = wire \o Text(turn, f)
    BY DEF SendWhole
<1>3. f \in Form \cup {NoForm, Refusal}
    BY DEF Types
<1>4. wire' \in Seq(Token(turn))
    BY <1>1, <1>2, <1>3, AnswerTyped
<1>5. heard' \in Seq(PartOf(turn)) /\ bufferSocket' \in Seq(PartOf(turn))
    <2>1. heard' = heard \o Request(turn) /\ bufferSocket' = bufferSocket
        BY DEF SendWhole
    <2>2. heard \in Seq(PartOf(turn)) /\ bufferSocket \in Seq(PartOf(turn)) /\ Request(turn) \in Seq(PartOf(turn))
        BY <1>1, RequestTyped DEF Types
    <2>3. heard \o Request(turn) \in Seq(PartOf(turn))
        BY <2>2, ConcatProperties
    <2> QED BY <2>1, <2>2, <2>3
<1> QED BY <1>1, <1>2, <1>3, <1>4, <1>5 DEF Types, parseVars, callVars

(* half a one does not,                                                    *)
LEMMA SendPartTyped ==
    ASSUME Types, SendPart
    PROVE  Types'
<1>1. /\ turn > 0 /\ requestSended' = TRUE /\ turn' = turn /\ how' = how
      /\ UNCHANGED <<parseVars, callVars, harmed, crashed>>
    BY SendingTyped DEF SendPart
<1>2. heard' \in Seq(PartOf(turn)) /\ bufferSocket' \in Seq(PartOf(turn))
    <2>1. heard' = Append(heard, Request(turn)[1]) /\ bufferSocket' = <<Request(turn)[2]>>
        BY DEF SendPart, KeepRest
    <2>2. heard \in Seq(PartOf(turn)) /\ Request(turn)[1] \in PartOf(turn) /\ Request(turn)[2] \in PartOf(turn)
        BY <1>1, RequestTyped DEF Types
    <2> QED BY <2>1, <2>2
<1> QED BY <1>1, <1>2 DEF Types, SendPart, parseVars, callVars

(* nor does one that waits,                                                *)
LEMMA SendBehindTyped ==
    ASSUME Types, SendBehind
    PROVE  Types'
<1>1. /\ turn > 0 /\ requestSended' = TRUE /\ turn' = turn /\ how' = how
      /\ UNCHANGED <<parseVars, callVars, harmed, crashed>>
    BY SendingTyped DEF SendBehind
<1>2. bufferSocket' \in Seq(PartOf(turn))
    <2>1. bufferSocket' = bufferSocket \o Request(turn)
        BY DEF SendBehind
    <2>2. bufferSocket \in Seq(PartOf(turn)) /\ Request(turn) \in Seq(PartOf(turn))
        BY <1>1, RequestTyped DEF Types
    <2>3. bufferSocket \o Request(turn) \in Seq(PartOf(turn))
        BY <2>2, ConcatProperties
    <2> QED BY <2>1, <2>3
<1> QED BY <1>1, <1>2 DEF Types, SendBehind, parseVars, callVars

(* nor one that is not written.                                            *)
LEMMA SendFailsTyped ==
    ASSUME Types, SendFails
    PROVE  Types'
<1>1. /\ turn > 0 /\ requestSended' = TRUE /\ turn' = turn /\ how' = how
      /\ UNCHANGED <<parseVars, callVars, harmed, crashed>>
    BY SendingTyped DEF SendFails
<1> QED BY <1>1 DEF Types, SendFails, parseVars, callVars, socketVars

(* The refusal is an answer.                                               *)
LEMMA ImpatientTyped ==
    ASSUME Types, Impatient
    PROVE  Types'
<1>1. turn > 0
    BY DEF Impatient, Running, Types
<1>2. wire' = wire \o Text(turn, Refusal) /\ form' = Refusal
    BY DEF Impatient
<1>3. wire' \in Seq(Token(turn)) /\ form' \in Form \cup {NoForm, Refusal}
    BY <1>1, <1>2, AnswerTyped
<1> QED BY <1>3 DEF Types, Impatient, parseVars, callVars

(* The next download has a number of its own.                              *)
LEMMA StartTyped ==
    ASSUME Types, Start
    PROVE  Types'
<1>1. /\ turn \in 0..MaxDownloads /\ turn < MaxDownloads /\ turn' = turn + 1
      /\ MaxDownloads \in Nat /\ MaxHarmed \in Nat
    BY ExchangeAssumption DEF Types, Start
<1>2. /\ wire' \in Seq(Token(turn')) /\ heard' \in Seq(PartOf(turn')) /\ bufferSocket' \in Seq(PartOf(turn'))
    <2>1. /\ wire' = wire /\ heard' = heard /\ bufferSocket' = bufferSocket
          /\ wire \in Seq(Token(turn)) /\ heard \in Seq(PartOf(turn)) /\ bufferSocket \in Seq(PartOf(turn))
        BY DEF Start, socketVars, Types
    <2>2. turn \in Nat
        BY <1>1
    <2> QED BY <1>1, <2>1, <2>2, OfMore
<1>3. /\ turn' \in 0..MaxDownloads /\ turn' > 0
    BY <1>1
<1>4. harmed' \in 0..(MaxHarmed + 1)
    BY <1>1 DEF Start
<1>5. /\ form' = NoForm /\ how' = "running" /\ requestSended' = FALSE
      /\ code' = 0 /\ length' = NoLength /\ contentwritten' = 0 /\ content' = FALSE
      /\ headerBuff' = <<>> /\ chunkLength' = NoChunk /\ chunkHeader' = <<>> /\ file' = <<>>
      /\ offset' = <<>> /\ reading' = reading /\ crashed' = crashed
    BY DEF Start, NewParse
<1>6. <<>> \in Seq(Token(turn'))
    OBVIOUS
<1> QED BY <1>2, <1>3, <1>4, <1>5, <1>6 DEF Types

(* A new connection is empty.                                              *)
LEMMA NewConnectionTyped ==
    ASSUME NewConnection
    PROVE  wire' \in Seq(Token(turn)) /\ heard' \in Seq(PartOf(turn)) /\ bufferSocket' \in Seq(PartOf(turn))
BY DEF NewConnection

(* harmed stays below its bound when the connection is changed.            *)
LEMMA ClosedBusyTyped ==
    ASSUME Types, ClosedBusy
    PROVE  Types'
<1>1. harmed' \in 0..(MaxHarmed + 1)
    <2>1. harmed \in 0..(MaxHarmed + 1) /\ MaxHarmed \in Nat
        BY ExchangeAssumption DEF Types
    <2>2. Max({harmed, 1}) = IF harmed >= 1 THEN harmed ELSE 1
        BY <2>1, MaxIs
    <2>3. harmed' = IF code = 0 THEN 0 ELSE Max({harmed, 1})
        BY DEF ClosedBusy
    <2> QED BY <2>1, <2>2, <2>3
<1>2. form' \in Form \cup {NoForm, Refusal}
    BY DEF ClosedBusy, Types
<1>3. wire' \in Seq(Token(turn)) /\ heard' \in Seq(PartOf(turn)) /\ bufferSocket' \in Seq(PartOf(turn))
    BY NewConnectionTyped DEF ClosedBusy
<1>4. /\ requestSended' = FALSE
      /\ UNCHANGED <<turn, how, parseVars, callVars, crashed>>
    BY DEF ClosedBusy
<1> QED BY <1>1, <1>2, <1>3, <1>4 DEF Types, parseVars, callVars

(* Every variable keeps to its values.                                     *)
THEOREM Typed == Spec => []Types
<1>1. Init => Types
    <2>1. MaxDownloads \in Nat /\ MaxHarmed \in Nat
        BY ExchangeAssumption
    <2>2. <<>> \in Seq(Token(turn)) /\ <<>> \in Seq(PartOf(turn))
        OBVIOUS
    <2>3. 0 \in 0..MaxDownloads /\ 0 \in 0..(MaxHarmed + 1) /\ 0 \in Nat /\ TRUE \in BOOLEAN /\ FALSE \in BOOLEAN
        BY <2>1
    <2> SUFFICES ASSUME Init
                 PROVE  Types
        OBVIOUS
    <2> QED BY <2>2, <2>3 DEF Init, Types
<1>2. Types /\ [Next]_vars => Types'
    <2> SUFFICES ASSUME Types, [Next]_vars
                 PROVE  Types'
        OBVIOUS
    <2>1. CASE Start
        BY <2>1, StartTyped
    <2>2. CASE SendWhole
        BY <2>2, SendWholeTyped
    <2>3. CASE SendPart
        BY <2>3, SendPartTyped
    <2>4. CASE SendBehind
        BY <2>4, SendBehindTyped
    <2>5. CASE SendFails
        BY <2>5, SendFailsTyped
    <2>6. CASE Impatient
        BY <2>6, ImpatientTyped
    <2>7. CASE ReadyToRead
        BY <2>7 DEF Types, ReadyToRead, parseVars, socketVars
    <2>8. CASE SocketEmpty
        BY <2>8 DEF Types, SocketEmpty, parseVars, socketVars
    <2>9. ASSUME NEW k \in 1..Len(wire), ReadContent(k)
          PROVE  Types'
        BY <2>9, ReadContentTyped
    <2>10. ASSUME NEW k \in 1..Len(wire), ReadOtherCode(k)
           PROVE  Types'
        BY <2>10, ReadOtherCodeTyped
    <2>11. ASSUME NEW k \in 1..Len(wire), ReadHeader(k)
           PROVE  Types'
        BY <2>11, ReadHeaderTyped
    <2>12. CASE Timeout
        <3>1. wire' \in Seq(Token(turn)) /\ heard' \in Seq(PartOf(turn)) /\ bufferSocket' \in Seq(PartOf(turn))
            BY <2>12, NewConnectionTyped DEF Timeout
        <3> QED BY <2>12, <3>1 DEF Types, Timeout, End, parseVars
    <2>13. CASE ClosedIdle
        <3>1. wire' \in Seq(Token(turn)) /\ heard' \in Seq(PartOf(turn)) /\ bufferSocket' \in Seq(PartOf(turn))
            BY <2>13, NewConnectionTyped DEF ClosedIdle
        <3> QED BY <2>13, <3>1 DEF Types, ClosedIdle, parseVars, callVars
    <2>14. CASE ClosedBusy
        BY <2>14, ClosedBusyTyped
    <2>15. CASE Restart
        <3>1. wire' \in Seq(Token(turn)) /\ heard' \in Seq(PartOf(turn)) /\ bufferSocket' \in Seq(PartOf(turn))
            BY <2>15, NewConnectionTyped DEF Restart
        <3> QED BY <2>15, <3>1 DEF Types, Restart, End, parseVars
    <2>16. CASE UNCHANGED vars
        BY <2>16 DEF Types, vars, parseVars, callVars, socketVars
    <2> QED BY <2>1, <2>2, <2>3, <2>4, <2>5, <2>6, <2>7, <2>8, <2>9, <2>10, <2>11, <2>12, <2>13, <2>14, <2>15, <2>16 DEF Next
<1> QED BY <1>1, <1>2, PTL DEF Spec

(* TypeOK of the exchange run, for every number of downloads and every set *)
(* of answers.                                                             *)
THEOREM TypesKept == Spec => []TypeOK
<1>1. Types => TypeOK
    <2> SUFFICES ASSUME Types
                 PROVE  TypeOK
        OBVIOUS
    <2>1. /\ Range(wire) \subseteq Token(turn) /\ Range(file) \subseteq Token(turn)
          /\ Range(headerBuff) \subseteq Token(turn) /\ Range(chunkHeader) \subseteq Token(turn)
          /\ Range(offset) \subseteq Token(turn)
        BY DEF Types, Range
    <2>2. Range(heard) \subseteq PartOf(turn) /\ Range(bufferSocket) \subseteq PartOf(turn)
        BY DEF Types, Range
    <2>3. \A t \in Token(turn) : t.of \in 1..turn
        BY DEF Token
    <2>4. \A t \in PartOf(turn) : t.of \in 1..turn /\ t.part \in {1, 2}
        BY DEF PartOf
    <2>5. \A t \in Range(wire) \cup Range(file) \cup Range(headerBuff) \cup Range(chunkHeader) \cup Range(offset) :
              t.of \in 1..turn
        BY <2>1, <2>3
    <2>6. \A t \in Range(heard) \cup Range(bufferSocket) : t.of \in 1..turn /\ t.part \in {1, 2}
        BY <2>2, <2>4
    <2>7. {requestSended, content, reading, crashed} \subseteq BOOLEAN
        BY DEF Types
    <2> QED BY <2>5, <2>6, <2>7 DEF Types, TypeOK
<1> QED BY <1>1, Typed, PTL

-----------------------------------------------------------------------------
(* What the parser makes of a header.                                      *)

(* Behind the text there is nothing,                                       *)
LEMMA LineBeyond ==
    ASSUME NEW line, NEW s, Len(s) \in Nat, NEW b \in Nat \ {0}, b > Len(s)
    PROVE  HeaderLine(line, s, b) = [body |-> 0, length |-> NoLength, kept |-> <<>>]
BY LineCases

(* at a line end the header ends,                                          *)
LEMMA LineEmpty ==
    ASSUME NEW line, NEW s, Len(s) \in Nat, NEW b \in Nat \ {0}, b <= Len(s), s[b].kind \in Newline
    PROVE  HeaderLine(line, s, b) = [body |-> After(s, b), length |-> NoLength, kept |-> <<>>]
<1>1. LineEnd(s, b) = b
    <2>1. b \in b..Len(s) /\ \A i \in b..(b - 1) : s[i].kind \notin Newline
        OBVIOUS
    <2> QED BY <2>1, FirstIs DEF LineEnd
<1> QED BY <1>1, LineCases

(* and a line with a colon and its end is looked at for Content-Length.    *)
WithLength(next, kind, n) ==
    [next EXCEPT !.length = IF kind = "length" /\ next.length = NoLength THEN n ELSE next.length]

IsNamed(s, b) ==
    /\ Len(s) \in Nat /\ b \in Nat \ {0} /\ b + 5 <= Len(s)
    /\ s[b].kind \in {"length", "other"} /\ s[b + 1].kind = s[b].kind /\ s[b].num = 1 /\ s[b + 1].num = 2
    /\ s[b + 2].kind = "colon" /\ s[b + 3].kind = "text" /\ s[b + 4].kind = "digit" /\ s[b + 5].kind = "cr"

LEMMA LineNamed ==
    ASSUME NEW line, NEW s, NEW b, IsNamed(s, b)
    PROVE  HeaderLine(line, s, b) = WithLength(line[After(s, b + 5)], s[b].kind, s[b + 4].num)
<1> DEFINE next == line[After(s, b + 5)]
<1>a. /\ Len(s) \in Nat /\ b \in Nat \ {0} /\ b + 5 <= Len(s)
      /\ s[b].kind \in {"length", "other"} /\ s[b + 1].kind = s[b].kind /\ s[b].num = 1 /\ s[b + 1].num = 2
      /\ s[b + 2].kind = "colon" /\ s[b + 3].kind = "text" /\ s[b + 4].kind = "digit" /\ s[b + 5].kind = "cr"
    BY DEF IsNamed
<1>b. next = line[After(s, b + 5)]
    OBVIOUS
<1> HIDE DEF next
<1> USE <1>a, <1>b
<1>0. b \in Nat /\ b + 2 \in Nat /\ b + 4 \in Nat /\ b + 5 \in Nat /\ b <= b + 2
    BY ONLY <1>a
<1>1. Colon(s, b) = b + 2
    <2>1. /\ b + 2 \in b..Len(s) /\ s[b + 2].kind \in {"colon"}
          /\ \A i \in b..((b + 2) - 1) : s[i].kind \notin {"colon"}
        <3>1. \A i \in b..((b + 2) - 1) : i = b \/ i = b + 1
            BY ONLY <1>0
        <3>2. s[b].kind # "colon" /\ s[b + 1].kind # "colon" /\ s[b + 2].kind = "colon"
            BY ONLY <1>a
        <3>3. \A i \in b..((b + 2) - 1) : s[i].kind \notin {"colon"}
            BY ONLY <3>1, <3>2
        <3>4. b + 2 \in b..Len(s)
            BY ONLY <1>a
        <3> QED BY ONLY <3>2, <3>3, <3>4
    <2> QED BY <2>1, FirstIs DEF Colon
<1>2. LineEnd(s, b) = b + 5
    <2>1. /\ b + 5 \in b..Len(s) /\ s[b + 5].kind \in Newline
          /\ \A i \in b..((b + 5) - 1) : s[i].kind \notin Newline
        <3>1. \A i \in b..((b + 5) - 1) : i = b \/ i = b + 1 \/ i = b + 2 \/ i = b + 3 \/ i = b + 4
            BY ONLY <1>0
        <3>2. /\ s[b].kind \notin Newline /\ s[b + 1].kind \notin Newline /\ s[b + 2].kind \notin Newline
              /\ s[b + 3].kind \notin Newline /\ s[b + 4].kind \notin Newline /\ s[b + 5].kind \in Newline
            BY DEF Newline
        <3>3. \A i \in b..((b + 5) - 1) : s[i].kind \notin Newline
            BY ONLY <3>1, <3>2
        <3> QED BY <1>0, <3>2, <3>3
    <2> QED BY <2>1, FirstIs DEF LineEnd
<1>3. ValueEnd(s, b) = b + 5
    <2>1. /\ b + 5 \in (b + 4)..Len(s) /\ s[b + 5].kind \in Newline
          /\ \A i \in (b + 4)..((b + 5) - 1) : s[i].kind \notin Newline
        <3>1. \A i \in (b + 4)..((b + 5) - 1) : i = b + 4
            BY <1>0
        <3> QED BY <3>1 DEF Newline
    <2>2. First(s, b + 4, Newline) = b + 5
        BY <1>0, <2>1, FirstIs
    <2>3. (b + 2) + 2 = b + 4
        OBVIOUS
    <2> QED BY <1>1, <2>2, <2>3 DEF ValueEnd
<1>4. IsName(s, b, b + 2) <=> s[b].kind = "length"
    BY DEF IsName
<1>5. Number(SubSeq(s, b + 4, b + 4)) = s[b + 4].num
    <2> DEFINE v == SubSeq(s, b + 4, b + 4)
    <2>1. Len(v) = 1 /\ v[1] = s[b + 4] /\ v # <<>>
        <3>1. s[b + 4] \in {s[b + 4]} /\ b + 4 \in Int /\ \A i \in (b + 4)..(b + 4) : s[i] \in {s[b + 4]}
            OBVIOUS
        <3>2. /\ v \in Seq({s[b + 4]}) /\ Len(v) = IF b + 4 <= b + 4 THEN (b + 4) - (b + 4) + 1 ELSE 0
              /\ \A i \in 1..((b + 4) - (b + 4) + 1) : v[i] = s[(b + 4) + i - 1]
            BY <3>1, SubSeqProperties
        <3> HIDE DEF v
        <3>3. Len(v) = 1 /\ v[1] = s[b + 4]
            BY <3>2
        <3> QED BY <3>3
    <2> HIDE DEF v
    <2>2. Number(v) = s[b + 4].num
        BY <2>1 DEF Number
    <2> QED BY <2>2 DEF v
<1>6. HeaderLine(line, s, b) =
          [next EXCEPT !.length = IF IsName(s, b, Colon(s, b)) /\ next.length = NoLength
                                  THEN Number(SubSeq(s, Colon(s, b) + 2, ValueEnd(s, b) - 1))
                                  ELSE next.length]
    <2>1. Colon(s, b) < LineEnd(s, b) /\ ValueEnd(s, b) <= Len(s) /\ next = line[After(s, ValueEnd(s, b))]
        BY <1>0, <1>1, <1>2, <1>3
    <2> QED BY <2>1, LineValue
<1>7. (b + 2) + 2 = b + 4 /\ (b + 5) - 1 = b + 4
    OBVIOUS
<1>8. HeaderLine(line, s, b) = WithLength(next, s[b].kind, s[b + 4].num)
    BY <1>1, <1>3, <1>4, <1>5, <1>6, <1>7 DEF WithLength
<1> QED BY ONLY <1>8, <1>b

(* The places a read may end at in a header.                               *)
Clean(T, p) == p \in 0..Len(T) /\ (p = Len(T) \/ ~T[p + 1].joined)

(* A clean place in the header is the end of one of its lines.             *)
LEMMA HeadCuts ==
    ASSUME NEW T, Len(T) \in Nat, Len(T) >= HeadLength, NEW c, NEW name, NEW value, IsHead(T, c, name, value),
           NEW e \in Nat, Clean(T, e)
    PROVE  e \in {0, 5, 12, 13} \/ e >= HeadLength
<1>1. CASE e = Len(T)
    BY <1>1
<1>2. CASE ~T[e + 1].joined
    <2>1. e + 1 \notin {2, 3, 4, 5, 7, 8, 9, 10, 11, 12, 15}
        BY <1>2 DEF IsHead
    <2> QED BY <2>1 DEF HeadLength
<1> QED BY <1>1, <1>2 DEF Clean

(* A part of a text.                                                       *)
LEMMA PartIs ==
    ASSUME NEW r, NEW T \in Seq(Token(r)), NEW p \in Nat, NEW e \in Nat, p <= e, e <= Len(T),
           NEW s, s = SubSeq(T, p + 1, e)
    PROVE  /\ s \in Seq(Token(r)) /\ Len(s) = e - p
           /\ \A i \in 1..(e - p) : s[i] = T[p + i]
<1>1. p + 1 \in Int /\ e \in Int /\ \A i \in (p + 1)..e : T[i] \in Token(r)
    OBVIOUS
<1>2. /\ s \in Seq(Token(r)) /\ Len(s) = IF p + 1 <= e THEN e - (p + 1) + 1 ELSE 0
      /\ \A i \in 1..(e - (p + 1) + 1) : s[i] = T[(p + 1) + i - 1]
    BY <1>1, SubSeqProperties
<1>3. e - (p + 1) + 1 = e - p /\ \A i \in 1..(e - p) : (p + 1) + i - 1 = p + i
    OBVIOUS
<1> QED BY <1>2, <1>3

\* What a read that ends behind e tokens, p before it, makes of a header.
HeaderMade(p, e, name, value) ==
    [body |-> IF e >= HeadLength THEN 16 - p ELSE 0,
     length |-> IF p <= 5 /\ e >= 12 /\ name = "length" THEN value ELSE NoLength,
     kept |-> <<>>]

HeadIsRead(T, p, e, s, status, c, name, value) ==
    /\ p = 0 => HttpCode(s) = c
    /\ Header(s, HeaderStart(s, status)) = HeaderMade(p, e, name, value)

(* It is understood, in one read or in several.                            *)
LEMMA HeaderRead ==
    ASSUME NEW r, NEW T \in Seq(Token(r)), Len(T) >= HeadLength,
           NEW c \in Nat, NEW name \in {"length", "other"}, NEW value \in Nat, IsHead(T, c, name, value),
           NEW p \in {0, 5, 12, 13}, NEW e \in Nat, e > p, Clean(T, e),
           NEW s, s = SubSeq(T, p + 1, e), NEW status, status = 0 <=> p = 0
    PROVE  HeadIsRead(T, p, e, s, status, c, name, value)
<1>0. p \in Nat /\ e \in Nat /\ Len(T) \in Nat /\ p <= e /\ e <= Len(T) /\ HeadLength = 15
    BY DEF Clean, HeadLength
<1>1. e \in {5, 12, 13} \/ e >= 15
    <2>1. e \in {0, 5, 12, 13} \/ e >= HeadLength
        BY <1>0, HeadCuts
    <2> QED BY <1>0, <2>1
<1>2. s \in Seq(Token(r)) /\ Len(s) = e - p /\ \A i \in 1..(e - p) : s[i] = T[p + i]
    BY <1>0, PartIs
<1>3. Len(s) \in Nat
    BY <1>0, <1>2
<1>4. ASSUME p = 0
      PROVE  First(s, 1, {"lf"}) = 6 /\ HttpCode(s) = c
    <2>1. /\ s[1] = T[1] /\ s[2] = T[2] /\ s[3] = T[3] /\ s[4] = T[4] /\ s[5] = T[5]
          /\ e >= 12 => s[6] = T[6] /\ 6 \in 1..Len(s)
        <3>1. e - p = e /\ e >= 5 /\ \A i \in 1..e : p + i = i
            BY <1>0, <1>1, <1>4
        <3>2. \A i \in 1..e : s[i] = T[i]
            BY <1>2, <3>1
        <3>3. 1 \in 1..e /\ 2 \in 1..e /\ 3 \in 1..e /\ 4 \in 1..e /\ 5 \in 1..e /\ (e >= 12 => 6 \in 1..e)
            BY <1>0, <3>1
        <3> QED BY <1>2, <3>1, <3>2, <3>3
    <2>2. \A i \in 1..5 : s[i].kind # "lf"
        <3>1. /\ T[1].kind # "lf" /\ T[2].kind # "lf" /\ T[3].kind # "lf" /\ T[4].kind # "lf" /\ T[5].kind # "lf"
            BY DEF IsHead
        <3>2. \A i \in 1..5 : i = 1 \/ i = 2 \/ i = 3 \/ i = 4 \/ i = 5
            OBVIOUS
        <3> QED BY <2>1, <3>1, <3>2
    <2>3. First(s, 1, {"lf"}) = 6
        <3>1. CASE e = 5
            <4>1. Len(s) = 5 /\ \A i \in 1..Len(s) : s[i].kind \notin {"lf"}
                BY <1>2, <1>4, <2>2, <3>1
            <4>2. First(s, 1, {"lf"}) = IF 1 > Len(s) THEN 1 ELSE Len(s) + 1
                BY <1>3, <4>1, FirstNone
            <4> QED BY <4>1, <4>2
        <3>2. CASE e >= 12
            <4>1. s[6].kind \in {"lf"} /\ 6 \in 1..Len(s) /\ 1 \in Nat
                BY <2>1, <3>2 DEF IsHead
            <4>2. \A i \in 1..(6 - 1) : s[i].kind \notin {"lf"}
                <5>1. 6 - 1 = 5
                    OBVIOUS
                <5>2. \A i \in 1..5 : s[i].kind \notin {"lf"}
                    BY <2>2
                <5> QED BY <5>1, <5>2
            <4> QED BY <1>3, <4>1, <4>2, FirstIs, Zenon
        <3> QED BY <1>1, <3>1, <3>2
    <2> DEFINE S == {i \in 1..(First(s, 1, {"lf"}) - 1) : s[i].kind = "code"}
    <2>4. S = {2} /\ s[2].num = c
        <3>1. /\ s[1].kind # "code" /\ s[2].kind = "code" /\ s[3].kind # "code" /\ s[4].kind # "code"
              /\ s[5].kind # "code" /\ s[2].num = c
            <4>1. /\ T[1].kind = "http" /\ T[2].kind = "code" /\ T[3].kind = "text" /\ T[4].kind = "text"
                  /\ T[5].kind = "cr" /\ T[2].num = c
                BY DEF IsHead
            <4> QED BY <2>1, <4>1
        <3>2. First(s, 1, {"lf"}) - 1 = 5 /\ 1..5 = {1, 2, 3, 4, 5}
            BY <2>3
        <3>3. S = {i \in {1, 2, 3, 4, 5} : s[i].kind = "code"}
            BY <3>2
        <3> QED BY <3>1, <3>3
    <2>5. HttpCode(s) = IF S = {} THEN 0 ELSE s[Min(S)].num
        BY DEF HttpCode
    <2>6. Min({2}) = 2
        <3>1. {2} \in SUBSET Int /\ 2 \in {2} /\ \A i \in {2} : 2 <= i
            OBVIOUS
        <3> QED BY <3>1, MinIs
    <2> QED BY <2>3, <2>4, <2>5, <2>6
<1>5. HeaderStart(s, status) = IF p = 0 THEN 7 ELSE 2
    BY <1>4 DEF HeaderStart
<1>6. PICK line : /\ \A b \in Nat \ {0} : Header(s, b) = line[b]
                  /\ \A b \in Nat \ {0} : line[b] = HeaderLine(line, s, b) /\ line[b] \in Parsed(r)
    BY <1>2, HeaderLines
<1>7. \A b \in Nat \ {0} : Header(s, b) = line[b] /\ line[b] = HeaderLine(line, s, b)
    BY <1>6, Zenon
<1> DEFINE tail == [body |-> IF e >= 15 THEN 16 - p ELSE 0, length |-> NoLength, kept |-> <<>>]
           beyond == [body |-> 0, length |-> NoLength, kept |-> <<>>]
<1>8. ASSUME NEW b \in Nat \ {0}, b > e - p
      PROVE  line[b] = beyond
    <2>1. HeaderLine(line, s, b) = beyond
        BY <1>2, <1>3, <1>8, LineBeyond
    <2> QED BY <1>7, <2>1
<1>9. ASSUME NEW t \in {14, 15}
      PROVE  t - p \in Nat \ {0} /\ line[t - p] = tail
    <2>1. t - p \in Nat \ {0}
        OBVIOUS
    <2>2. CASE e < 15
        <3>1. t - p > e - p /\ tail = beyond
            BY <1>0, <1>1, <2>2
        <3> QED BY <1>8, <2>1, <3>1
    <2>3. CASE e >= 15
        <3>1. /\ t - p <= Len(s) /\ s[t - p] = T[t]
              /\ 14 - p < Len(s) /\ s[(14 - p) + 1] = T[15]
            <4>1. t - p \in 1..(e - p) /\ 15 - p \in 1..(e - p) /\ p + (t - p) = t /\ p + (15 - p) = 15
                BY <1>0, <2>3
            <4>2. (14 - p) + 1 = 15 - p /\ 14 - p < e - p /\ t - p <= e - p
                BY <1>0, <2>3
            <4> QED BY <1>2, <4>1, <4>2
        <3>2. T[14].kind = "cr" /\ T[15].kind = "lf"
            BY DEF IsHead
        <3>3. s[t - p].kind \in Newline
            BY <3>1, <3>2 DEF Newline
        <3>4. After(s, t - p) = 16 - p
            BY <1>0, <3>1, <3>2 DEF After
        <3>5. HeaderLine(line, s, t - p) = [body |-> After(s, t - p), length |-> NoLength, kept |-> <<>>]
            BY <1>3, <2>1, <3>1, <3>3, LineEmpty
        <3> QED BY <1>7, <2>1, <2>3, <3>4, <3>5
    <2> QED BY <1>0, <2>1, <2>2, <2>3
<1>10. ASSUME p <= 5, e >= 12
       PROVE  line[7 - p] = HeaderMade(p, e, name, value)
    <2> DEFINE b == 7 - p
               next == line[After(s, b + 5)]
    <2>1. b \in Nat \ {0} /\ b + 5 = 12 - p /\ b + 5 <= Len(s) /\ p \in {0, 5}
        BY <1>0, <1>2, <1>10
    <2>2. /\ s[b] = T[7] /\ s[b + 1] = T[8] /\ s[b + 2] = T[9] /\ s[b + 3] = T[10]
          /\ s[b + 4] = T[11] /\ s[b + 5] = T[12]
        <3>1. /\ 7 - p \in 1..(e - p) /\ 8 - p \in 1..(e - p) /\ 9 - p \in 1..(e - p)
              /\ 10 - p \in 1..(e - p) /\ 11 - p \in 1..(e - p) /\ 12 - p \in 1..(e - p)
            BY <1>0, <1>10, <2>1
        <3>2. /\ p + (7 - p) = 7 /\ p + (8 - p) = 8 /\ p + (9 - p) = 9
              /\ p + (10 - p) = 10 /\ p + (11 - p) = 11 /\ p + (12 - p) = 12
            BY <1>0
        <3>3. /\ b + 1 = 8 - p /\ b + 2 = 9 - p /\ b + 3 = 10 - p /\ b + 4 = 11 - p /\ b + 5 = 12 - p
            BY <1>0
        <3> QED BY <1>2, <3>1, <3>2, <3>3
    <2>3. next = tail
        <3>1. CASE e = 12
            <4>1. After(s, b + 5) = 13 - p /\ 13 - p \in Nat \ {0} /\ 13 - p > e - p
                BY <1>2, <2>1, <3>1 DEF After
            <4> QED BY <1>8, <3>1, <4>1
        <3>2. CASE e > 12
            <4>1. s[(b + 5) + 1] = T[13] /\ b + 5 < Len(s)
                <5>1. (b + 5) + 1 = 13 - p /\ 13 - p \in 1..(e - p) /\ p + (13 - p) = 13 /\ b + 5 < e - p
                    BY <1>0, <2>1, <3>2
                <5> QED BY <1>2, <5>1
            <4>2. T[12].kind = "cr" /\ T[13].kind = "lf"
                BY DEF IsHead
            <4>3. After(s, b + 5) = (b + 5) + 2
                BY <2>2, <4>1, <4>2 DEF After
            <4>4. After(s, b + 5) = 14 - p
                BY <2>1, <4>3
            <4> QED BY <1>9, <4>4
        <3> QED BY <1>10, <1>0, <3>1, <3>2
    <2>4. /\ T[7].kind = name /\ T[8].kind = name /\ T[9].kind = "colon" /\ T[10].kind = "text"
          /\ T[11].kind = "digit" /\ T[12].kind = "cr" /\ T[7].num = 1 /\ T[8].num = 2 /\ T[11].num = value
        BY DEF IsHead
    <2> HIDE DEF b, next
    <2>5. HeaderLine(line, s, b) = WithLength(next, s[b].kind, s[b + 4].num)
        <3>1. next = line[After(s, b + 5)]
            BY DEF next
        <3>2. /\ s[b].kind \in {"length", "other"} /\ s[b + 1].kind = s[b].kind
              /\ s[b].num = 1 /\ s[b + 1].num = 2
              /\ s[b + 2].kind = "colon" /\ s[b + 3].kind = "text" /\ s[b + 4].kind = "digit" /\ s[b + 5].kind = "cr"
            BY <2>2, <2>4
        <3>3. IsNamed(s, b)
            BY ONLY <1>3, <2>1, <3>2 DEF IsNamed
        <3>4. HeaderLine(line, s, b) = WithLength(line[After(s, b + 5)], s[b].kind, s[b + 4].num)
            BY ONLY <3>3, LineNamed, Zenon
        <3> QED BY ONLY <3>1, <3>4
    <2>6. HeaderLine(line, s, b) = [tail EXCEPT !.length = IF name = "length" THEN value ELSE NoLength]
        BY <2>2, <2>3, <2>4, <2>5 DEF WithLength
    <2>7. HeaderLine(line, s, b) = HeaderMade(p, e, name, value)
        BY <1>0, <1>10, <2>6 DEF HeaderMade
    <2>8. b = 7 - p
        BY DEF b
    <2> QED BY <1>7, <2>1, <2>7, <2>8
<1>11. Header(s, HeaderStart(s, status)) = HeaderMade(p, e, name, value)
    <2>1. CASE p = 0 /\ e = 5
        <3>1. Header(s, 7) = line[7] /\ line[7] = beyond
            BY <1>7, <1>8, <2>1
        <3> QED BY <1>0, <1>5, <2>1, <3>1 DEF HeaderMade
    <2>2. CASE p = 0 /\ e # 5
        <3>1. Header(s, 7) = line[7] /\ line[7] = HeaderMade(p, e, name, value)
            BY <1>1, <1>7, <1>10, <2>2
        <3> QED BY <1>5, <2>2, <3>1
    <2>3. CASE p = 5
        <3>1. Header(s, 2) = line[2] /\ line[2] = HeaderMade(p, e, name, value)
            <4>1. e >= 12 /\ 7 - p = 2 /\ p <= 5
                BY <1>1, <2>3
            <4> QED BY <1>7, <1>10, <4>1
        <3> QED BY <1>5, <2>3, <3>1
    <2>4. CASE p \in {12, 13}
        <3>1. Header(s, 2) = line[2] /\ line[2] = tail
            BY <1>7, <1>9, <2>4
        <3>2. HeaderMade(p, e, name, value) = tail
            BY <1>0, <2>4 DEF HeaderMade
        <3> QED BY <1>5, <2>4, <3>1, <3>2
    <2> QED BY <2>1, <2>2, <2>3, <2>4
<1> QED BY <1>4, <1>11 DEF HeadIsRead

-----------------------------------------------------------------------------
(* What the parser makes of chunks.                                        *)

\* Behind p tokens of T, b bytes of the body and no chunk that has begun.
Between(f, T, p, b) ==
    \E q, n : IsChunk(f, q, b, n) /\ p \in HeadLength..q /\ \A i \in (p + 1)..q : T[i].kind \in Newline

\* Behind the size of a chunk of n bytes.
Opened(f, p, b, n) == n > 0 /\ \E q : IsChunk(f, q, b, n) /\ p = q + 3

\* T is a chunked answer of that form, to request r.
InChunkText(f, T, r) ==
    /\ r \in Nat \ {0} /\ IsForm(f) /\ T \in Seq(Token(r))
    /\ \A q, b, n : IsChunk(f, q, b, n) => ChunkLies(T, r, q, b, n) /\ (n = 0 => Len(T) = q + 5)

\* What a read that ends behind e tokens should make of what comes behind b
\* bytes of the body: the bytes that follow, and the right place.
Good(o, f, T, r, b, e) ==
    /\ o.kept = <<>>
    /\ \A i \in 1..Len(o.out) : o.out[i].kind = "byte" /\ o.out[i].num = b + i /\ o.out[i].of = r
    /\ \/ /\ o.what = "end" /\ b + Len(o.out) = f.size
          /\ Len(T) <= e + 2 /\ \A i \in (e + 1)..Len(T) : T[i].kind \in Newline
       \/ /\ o.what = "more"
          /\ \/ o.length = NoChunk /\ Between(f, T, e, b + Len(o.out))
             \/ Opened(f, e, b + Len(o.out), o.length)

\* from makes what it should of the chunk behind q tokens and b bytes, from
\* the line ends before it on.  The read begins behind p tokens.
Reads(from, f, T, r, p, e, q, b) ==
    \A x \in p..q :
        x <= e /\ (\A i \in (x + 1)..q : T[i].kind \in Newline) =>
            Good(from[x - p + 1], f, T, r, b, e)

(* The bytes of a chunk, of which the read has at least one.               *)
LEMMA BytesRead ==
    ASSUME NEW f, NEW T, NEW r, InChunkText(f, T, r),
           NEW q, NEW b, NEW n, IsChunk(f, q, b, n), n > 0,
           NEW p \in Nat, p <= q + 3, NEW e \in Nat, q + 3 < e, Clean(T, e),
           NEW s, s = SubSeq(T, p + 1, e),
           NEW from, \A i \in Nat \ {0} : from[i] \in Outcome(r),
           Reads(from, f, T, r, p, e, q + 5 + n, b + n)
    PROVE  Good(ChunkBytes(from, s, q + 4 - p, n), f, T, r, b, e)
<1>0. q \in Nat /\ b \in Nat /\ n \in Nat /\ n > 0 /\ p \in Nat /\ e \in Nat /\ Len(T) \in Nat /\ e <= Len(T)
    BY NextChunk DEF InChunkText, Clean
<1>1. /\ q + 5 + n <= Len(T) /\ T[q + 4 + n].kind = "cr" /\ T[q + 5 + n].kind = "lf"
      /\ \A i \in 1..n :
            /\ T[q + 3 + i].kind = "byte" /\ T[q + 3 + i].num = b + i /\ T[q + 3 + i].of = r
            /\ i > 1 => T[q + 3 + i].joined
    BY DEF InChunkText, ChunkLies
<1>2. e >= q + 3 + n
    <2> SUFFICES ASSUME e < q + 3 + n
                 PROVE  FALSE
        BY <1>0
    <2> DEFINE j == e - (q + 3) + 1
    <2>1. j \in 1..n /\ j > 1 /\ q + 3 + j = e + 1 /\ e # Len(T)
        BY <1>0, <1>1
    <2>2. T[q + 3 + j].joined
        <3> HIDE DEF j
        <3> QED BY <1>1, <2>1
    <2> QED BY <2>1, <2>2 DEF Clean
<1>3. s \in Seq(Token(r)) /\ Len(s) = e - p /\ \A i \in 1..(e - p) : s[i] = T[p + i]
    BY <1>0, PartIs DEF InChunkText
<1>4. Taken(s, q + 4 - p, n) = n
    <2>1. Len(s) \in Nat /\ q + 4 - p \in Nat
        BY <1>0, <1>3
    <2>2. Taken(s, q + 4 - p, n) = IF n <= Len(s) - (q + 4 - p) + 1 THEN n ELSE Len(s) - (q + 4 - p) + 1
        BY <1>0, <2>1, TakenIs
    <2> QED BY <1>0, <1>2, <1>3, <2>2
<1> DEFINE next == from[q + 4 - p + n]
           mine == SubSeq(s, q + 4 - p, q + 4 - p + n - 1)
           o == [next EXCEPT !.out = mine \o next.out]
<1>5. ChunkBytes(from, s, q + 4 - p, n) = o
    BY <1>4 DEF ChunkBytes, Taken
<1>6. Good(next, f, T, r, b + n, e)
    <2> DEFINE x == q + 3 + n
    <2>1. x \in p..(q + 5 + n) /\ x <= e /\ x - p + 1 = q + 4 - p + n
        BY <1>0, <1>2
    <2>2. \A i \in (x + 1)..(q + 5 + n) : T[i].kind \in Newline
        <3>1. \A i \in (x + 1)..(q + 5 + n) : i = q + 4 + n \/ i = q + 5 + n
            BY <1>0
        <3> QED BY <1>1, <3>1 DEF Newline
    <2> HIDE DEF x
    <2> QED BY <2>1, <2>2 DEF Reads
<1>7. next \in Outcome(r)
    BY <1>0
<1> HIDE DEF next
<1>8. /\ mine \in Seq(Token(r)) /\ Len(mine) = n
      /\ \A i \in 1..n : mine[i] = T[q + 3 + i]
    <2> DEFINE u == q + 3 - p
               v == u + n
    <2>1. /\ u \in Nat /\ v \in Nat /\ u <= v /\ v <= Len(s) /\ v - u = n
          /\ q + 4 - p = u + 1 /\ q + 4 - p + n - 1 = v
        BY <1>0, <1>2, <1>3
    <2>2. mine = SubSeq(s, u + 1, v)
        BY <2>1
    <2>3. \A i \in 1..n : u + i \in 1..(e - p) /\ p + (u + i) = q + 3 + i
        BY <1>0, <1>2
    <2>4. s \in Seq(Token(r))
        BY <1>3
    <2> HIDE DEF u, v, mine
    <2>5. mine \in Seq(Token(r)) /\ Len(mine) = v - u /\ \A i \in 1..(v - u) : mine[i] = s[u + i]
        BY ONLY <2>1, <2>2, <2>4, PartIs
    <2>6. mine \in Seq(Token(r)) /\ Len(mine) = n /\ \A i \in 1..n : mine[i] = s[u + i]
        BY <2>1, <2>5, Zenon
    <2>7. \A i \in 1..n : s[u + i] = T[q + 3 + i]
        BY <1>3, <2>3
    <2> QED BY <2>6, <2>7
<1> HIDE DEF mine
<1>9. next.out \in Seq(Token(r)) /\ next.kept = <<>>
    BY <1>6, <1>7 DEF Outcome, Good
<1> DEFINE out == mine \o next.out
<1>10. /\ Len(out) = n + Len(next.out) /\ Len(next.out) \in Nat
       /\ \A i \in 1..Len(mine) : out[i] = mine[i]
       /\ \A i \in 1..Len(next.out) : out[Len(mine) + i] = next.out[i]
    <2>1. mine \in Seq(Token(r)) /\ next.out \in Seq(Token(r))
        BY <1>8, <1>9
    <2>2. /\ Len(out) = Len(mine) + Len(next.out)
          /\ \A i \in 1..Len(mine) : out[i] = mine[i]
          /\ \A i \in 1..Len(next.out) : out[Len(mine) + i] = next.out[i]
        BY ONLY <2>1, Behind
    <2>3. Len(mine) = n
        BY <1>8
    <2>4. Len(next.out) \in Nat
        BY ONLY <2>1
    <2> HIDE DEF out
    <2> QED BY ONLY <2>2, <2>3, <2>4
<1>11. o.what = next.what /\ o.length = next.length /\ o.kept = next.kept /\ o.out = out
    BY <1>7 DEF Outcome
<1> HIDE DEF o, out
<1>12. \A i \in 1..Len(o.out) : o.out[i].kind = "byte" /\ o.out[i].num = b + i /\ o.out[i].of = r
    <2> SUFFICES ASSUME NEW i \in 1..(n + Len(next.out))
                 PROVE  out[i].kind = "byte" /\ out[i].num = b + i /\ out[i].of = r
        BY <1>10, <1>11
    <2>1. CASE i <= n
        <3>1. i \in 1..n /\ i \in 1..Len(mine)
            BY <1>0, <1>8, <2>1
        <3>2. out[i] = T[q + 3 + i]
            BY <1>8, <1>10, <3>1
        <3> QED BY <1>1, <3>1, <3>2
    <2>2. CASE i > n
        <3> DEFINE j == i - n
        <3>1. j \in 1..Len(next.out) /\ Len(mine) + j = i /\ (b + n) + j = b + i
            BY <1>0, <1>8, <1>10, <2>2
        <3> HIDE DEF j
        <3>2. out[i] = next.out[j]
            BY <1>10, <3>1
        <3>3. next.out[j].kind = "byte" /\ next.out[j].num = (b + n) + j /\ next.out[j].of = r
            BY <1>6, <3>1 DEF Good
        <3> QED BY <3>1, <3>2, <3>3
    <2> QED BY <1>0, <1>10, <2>1, <2>2
<1>13. (b + n) + Len(next.out) = b + Len(o.out)
    BY <1>0, <1>10, <1>11
<1>14. Good(o, f, T, r, b, e)
    BY <1>6, <1>9, <1>11, <1>12, <1>13 DEF Good
<1> QED BY <1>5, <1>14

(* The size of the next chunk, when there are only line ends before it,    *)
LEMMA SizeBeginIs ==
    ASSUME NEW s, Len(s) \in Nat, NEW j \in Nat \ {0}, NEW k \in Nat, j <= k, k <= Len(s) + 1,
           \A i \in j..(k - 1) : s[i].kind \in Newline, k <= Len(s) => s[k].kind \notin Newline
    PROVE  SizeBegin(s, j) = k
<1> DEFINE S == {i \in j..Len(s) : s[i].kind \notin Newline} \cup {Len(s) + 1}
<1>1. S \in SUBSET Int
    OBVIOUS
<1>2. k \in S
    <2>1. CASE k <= Len(s)
        <3>1. k \in j..Len(s)
            BY <2>1
        <3> QED BY <2>1, <3>1
    <2>2. CASE k = Len(s) + 1
        BY <2>2
    <2> QED BY <2>1, <2>2
<1>3. ASSUME NEW i \in S
      PROVE  k <= i
    <2>1. CASE i = Len(s) + 1
        BY <2>1
    <2>2. CASE i \in j..Len(s) /\ s[i].kind \notin Newline
        <3>1. i \notin j..(k - 1)
            BY <2>2
        <3> QED BY <2>2, <3>1
    <2> QED BY <2>1, <2>2
<1>4. Min(S) = k
    <2> HIDE DEF S
    <2> QED BY <1>1, <1>2, <1>3, MinIs
<1> QED BY <1>4 DEF SizeBegin

(* Only line ends are between x and q.                                     *)
LineEnds(T, x, q) == \A i \in (x + 1)..q : T[i].kind \in Newline

(* What the function that Chunks is built from gives from each position.   *)
FromIs(from, s, r) ==
    \A i \in Nat \ {0} : from[i] = ChunkSize(from, s, <<>>, i) /\ from[i] \in Outcome(r)

(* Where a read from p to e finds the next chunk and its size, when it     *)
(* looks for them from its position j on.                                  *)
Found(f, T, p, e, s, j, q, b, n) ==
    /\ e <= q => SizeBegin(s, j) = Len(s) + 1 /\ Between(f, T, e, b)
    /\ e > q => /\ e >= q + 3 /\ SizeBegin(s, j) = q + 1 - p /\ SizeEnd(s, j) = q + 2 - p
                /\ SizeOf(s, j) = n /\ After(s, q + 2 - p) = q + 4 - p

LEMMA ChunkFound ==
    ASSUME NEW f, NEW T, NEW r, InChunkText(f, T, r),
           NEW q, NEW b, NEW n, IsChunk(f, q, b, n),
           NEW p \in Nat, HeadLength <= p, NEW e \in Nat, Clean(T, e),
           NEW s, s = SubSeq(T, p + 1, e),
           NEW x \in Nat, p <= x, x <= q, x <= e, LineEnds(T, x, q),
           NEW j, j = x - p + 1
    PROVE  Found(f, T, p, e, s, j, q, b, n)
<1>0. /\ q \in Nat /\ b \in Nat /\ n \in Nat /\ p \in Nat /\ e \in Nat /\ Len(T) \in Nat
      /\ e <= Len(T) /\ x \in Nat /\ p <= x /\ x <= q /\ x <= e /\ HeadLength = 15 /\ 15 <= p
    BY NextChunk DEF InChunkText, Clean, HeadLength
<1>1. /\ q + 5 + n <= Len(T)
      /\ T[q + 1].kind = "digit" /\ T[q + 1].num = n
      /\ T[q + 2].kind = "cr" /\ T[q + 2].joined /\ T[q + 3].kind = "lf" /\ T[q + 3].joined
    BY DEF InChunkText, ChunkLies
<1>2. s \in Seq(Token(r)) /\ Len(s) = e - p /\ \A i \in 1..(e - p) : s[i] = T[p + i]
    BY <1>0, PartIs DEF InChunkText
<1>3. j \in Nat \ {0} /\ Len(s) \in Nat /\ j <= Len(s) + 1 /\ Len(s) = e - p /\ j = x - p + 1
    BY <1>0, <1>2
<1>4. ASSUME NEW i \in j..Len(s), i <= q - p
      PROVE  s[i].kind \in Newline
    <2>1. i \in 1..(e - p) /\ p + i \in (x + 1)..q
        BY ONLY <1>0, <1>3, <1>4
    <2>2. T[p + i].kind \in Newline
        BY <2>1 DEF LineEnds
    <2> QED BY ONLY <1>2, <2>1, <2>2
<1>5. CASE e <= q
    <2>1. SizeBegin(s, j) = Len(s) + 1
        <3> DEFINE k == Len(s) + 1
        <3>1. \A i \in j..(k - 1) : s[i].kind \in Newline
            <4> SUFFICES ASSUME NEW i \in j..(k - 1)
                         PROVE  s[i].kind \in Newline
                OBVIOUS
            <4>1. i \in j..Len(s) /\ i <= q - p
                BY ONLY <1>0, <1>3, <1>5
            <4> QED BY ONLY <1>4, <4>1
        <3>2. k \in Nat /\ j <= k /\ k <= Len(s) + 1 /\ ~(k <= Len(s))
            BY ONLY <1>3
        <3> HIDE DEF k
        <3>3. SizeBegin(s, j) = k
            BY ONLY <1>3, <3>1, <3>2, SizeBeginIs
        <3> QED BY ONLY <3>3 DEF k
    <2>2. Between(f, T, e, b)
        <3>1. e \in HeadLength..q
            BY ONLY <1>0, <1>5
        <3>2. \A i \in (e + 1)..q : T[i].kind \in Newline
            <4>1. \A i \in (e + 1)..q : i \in (x + 1)..q
                BY ONLY <1>0
            <4> QED BY <4>1 DEF LineEnds
        <3> QED BY <3>1, <3>2 DEF Between
    <2> QED BY <1>0, <1>5, <2>1, <2>2 DEF Found
<1>6. CASE e > q
    <2>1. e >= q + 3
        <3>1. e # q + 1 /\ e # q + 2
            <4>1. ~T[e + 1].joined \/ e = Len(T)
                BY ONLY <1>0, Clean(T, e) DEF Clean
            <4>2. CASE e = q + 1
                <5>1. e + 1 = q + 2 /\ e # Len(T)
                    BY ONLY <1>0, <1>1, <4>2
                <5> QED BY ONLY <1>1, <4>1, <5>1
            <4>3. CASE e = q + 2
                <5>1. e + 1 = q + 3 /\ e # Len(T)
                    BY ONLY <1>0, <1>1, <4>3
                <5> QED BY ONLY <1>1, <4>1, <5>1
            <4> QED BY ONLY <4>2, <4>3
        <3> QED BY ONLY <1>0, <1>6, <3>1
    <2> DEFINE u == q - p
    <2>u. u \in Nat /\ u + 3 <= Len(s) /\ j <= u + 1 /\ q + 1 - p = u + 1 /\ q + 2 - p = u + 2
          /\ q + 4 - p = u + 4
        BY ONLY <1>0, <1>3, <2>1
    <2>2. s[u + 1] = T[q + 1] /\ s[u + 2] = T[q + 2] /\ s[u + 3] = T[q + 3]
        <3>1. ASSUME NEW i \in 1..3
              PROVE  u + i \in 1..(e - p) /\ p + (u + i) = q + i
            BY ONLY <1>0, <2>1
        <3>2. ASSUME NEW i \in 1..3
              PROVE  s[u + i] = T[q + i]
            <4> HIDE DEF u
            <4> QED BY ONLY <1>2, <3>1
        <3>3. 1 \in 1..3 /\ 2 \in 1..3 /\ 3 \in 1..3
            OBVIOUS
        <3> QED BY ONLY <3>2, <3>3
    <2>k. /\ s[u + 1].kind = "digit" /\ s[u + 1].num = n
          /\ s[u + 2].kind = "cr" /\ s[u + 3].kind = "lf"
        BY ONLY <1>1, <2>2
    <2>l. \A i \in j..u : s[i].kind \in Newline
        <3> SUFFICES ASSUME NEW i \in j..u
                     PROVE  s[i].kind \in Newline
            OBVIOUS
        <3>1. i \in j..Len(s) /\ i <= q - p
            BY ONLY <1>0, <1>3, <2>u
        <3> QED BY ONLY <1>4, <3>1
    <2> HIDE DEF u
    <2>3. SizeBegin(s, j) = u + 1
        <3> DEFINE k == u + 1
        <3>1. \A i \in j..(k - 1) : s[i].kind \in Newline
            <4>1. k - 1 = u
                BY ONLY <2>u
            <4> HIDE DEF k
            <4> QED BY ONLY <2>l, <4>1
        <3>2. k \in Nat /\ j <= k /\ k <= Len(s) + 1
            BY ONLY <1>3, <2>u
        <3>3. s[k].kind \notin Newline
            BY ONLY <2>k DEF Newline
        <3> HIDE DEF k
        <3>4. SizeBegin(s, j) = k
            BY ONLY <1>3, <3>1, <3>2, <3>3, SizeBeginIs
        <3> QED BY ONLY <3>4 DEF k
    <2>4. SizeEnd(s, j) = u + 2
        <3> DEFINE a == u + 1
                   c == u + 2
        <3>1. a \in Nat /\ c \in a..Len(s) /\ c - 1 = a
            BY ONLY <2>u, <1>3
        <3>2. s[c].kind \in Newline /\ s[a].kind \notin Newline
            BY ONLY <2>k DEF Newline
        <3> HIDE DEF a, c
        <3>3. \A i \in a..(c - 1) : s[i].kind \notin Newline
            <4>1. \A i \in a..(c - 1) : i = a
                BY ONLY <3>1
            <4> QED BY ONLY <4>1, <3>2
        <3>4. First(s, a, Newline) = c
            BY ONLY <1>3, <3>1, <3>2, <3>3, FirstIs
        <3> QED BY ONLY <2>3, <3>4 DEF SizeEnd, a, c
    <2>5. SizeOf(s, j) = n
        <3> DEFINE v == u + 1
                   t == SubSeq(s, v, v)
        <3>1. u \in Nat /\ v \in Nat /\ u <= v /\ v <= Len(s) /\ v - u = 1 /\ u + 1 = v /\ (u + 2) - 1 = v
            BY ONLY <1>3, <2>u
        <3>2. s \in Seq(Token(r))
            BY ONLY <1>2
        <3>3. t = SubSeq(s, u + 1, v)
            OBVIOUS
        <3>5. s[v].kind = "digit" /\ s[v].num = n
            BY ONLY <2>k
        <3>7. SizeOf(s, j) = Number(t)
            <4>1. SizeOf(s, j) = Number(SubSeq(s, u + 1, (u + 2) - 1))
                BY ONLY <2>3, <2>4 DEF SizeOf
            <4> QED BY ONLY <4>1, <3>1
        <3> HIDE DEF v, t
        <3>4. t \in Seq(Token(r)) /\ Len(t) = v - u /\ \A i \in 1..(v - u) : t[i] = s[u + i]
            BY ONLY <3>1, <3>2, <3>3, PartIs
        <3>6. Len(t) = 1 /\ t[1] = s[v]
            BY ONLY <3>1, <3>4
        <3>8. t # <<>>
            BY ONLY <3>6
        <3>9. Number(t) = n
            BY ONLY <3>5, <3>6, <3>8 DEF Number
        <3> QED BY ONLY <3>7, <3>9
    <2>6. After(s, u + 2) = u + 4
        <3>1. (u + 2) + 1 = u + 3 /\ (u + 2) + 2 = u + 4 /\ u + 2 < Len(s)
            BY ONLY <2>u, <1>3
        <3> QED BY ONLY <2>k, <3>1 DEF After
    <2>7. q + 1 - p = u + 1 /\ q + 2 - p = u + 2 /\ q + 4 - p = u + 4
        BY ONLY <2>u
    <2>8. ~(e <= q)
        BY ONLY <1>0, <1>6
    <2> QED BY ONLY <2>1, <2>3, <2>4, <2>5, <2>6, <2>7, <2>8 DEF Found
<1> QED BY <1>0, <1>5, <1>6 DEF Found

(* The chunk is understood when what is behind it is.                      *)
LEMMA ChunkRead ==
    ASSUME NEW f, NEW T, NEW r, InChunkText(f, T, r),
           NEW q, NEW b, NEW n, IsChunk(f, q, b, n),
           NEW p \in Nat, HeadLength <= p, NEW e \in Nat, Clean(T, e),
           NEW s, s = SubSeq(T, p + 1, e), NEW from, FromIs(from, s, r),
           n > 0 => Reads(from, f, T, r, p, e, q + 5 + n, b + n)
    PROVE  Reads(from, f, T, r, p, e, q, b)
<1> SUFFICES ASSUME NEW x \in p..q, x <= e, LineEnds(T, x, q)
             PROVE  Good(from[x - p + 1], f, T, r, b, e)
    BY DEF Reads, LineEnds
<1>0. /\ q \in Nat /\ b \in Nat /\ n \in Nat /\ p \in Nat /\ e \in Nat /\ Len(T) \in Nat
      /\ e <= Len(T) /\ x \in Nat /\ p <= x /\ x <= q /\ x <= e /\ HeadLength = 15 /\ 15 <= p
      /\ (n = 0 => b = f.size)
    BY NextChunk DEF InChunkText, Clean, HeadLength
<1>1. /\ q + 5 + n <= Len(T) /\ (n = 0 => Len(T) = q + 5)
      /\ T[q + 4 + n].kind = "cr" /\ T[q + 5 + n].kind = "lf"
    BY DEF InChunkText, ChunkLies
<1>2. Len(s) = e - p
    BY <1>0, PartIs DEF InChunkText
<1> DEFINE j == x - p + 1
<1>j. j = x - p + 1
    OBVIOUS
<1> HIDE DEF j
<1>3. j \in Nat \ {0} /\ Len(s) \in Nat
    BY ONLY <1>0, <1>2, <1>j
<1>4. from[j] = ChunkSize(from, s, <<>>, j)
    BY <1>3 DEF FromIs
<1>f. /\ e <= q => SizeBegin(s, j) = Len(s) + 1 /\ Between(f, T, e, b)
      /\ e > q => /\ e >= q + 3 /\ SizeBegin(s, j) = q + 1 - p /\ SizeEnd(s, j) = q + 2 - p
                  /\ SizeOf(s, j) = n /\ After(s, q + 2 - p) = q + 4 - p
    <2>1. LineEnds(T, x, q) /\ p <= x /\ x <= q /\ x <= e /\ x \in Nat /\ j = x - p + 1
        BY <1>0, <1>j
    <2>2. Found(f, T, p, e, s, j, q, b, n)
        BY <2>1, ChunkFound, Zenon
    <2> QED BY ONLY <2>2 DEF Found
<1>c. /\ SizeBegin(s, j) > Len(s) => ChunkSize(from, s, <<>>, j) = Written("more", NoChunk, <<>>)
      /\ SizeBegin(s, j) <= Len(s) /\ SizeEnd(s, j) <= Len(s) =>
            ChunkSize(from, s, <<>>, j) =
                IF SizeOf(s, j) = 0 THEN Written("end", 0, <<>>)
                ELSE IF After(s, SizeEnd(s, j)) > Len(s) THEN Written("more", SizeOf(s, j), <<>>)
                ELSE ChunkBytes(from, s, After(s, SizeEnd(s, j)), SizeOf(s, j))
    BY ONLY <1>3, SizeCases
<1>z. b + Len(<<>>) = b
    BY <1>0
<1>5. CASE e <= q
    <2>1. SizeBegin(s, j) > Len(s)
        BY ONLY <1>3, <1>5, <1>f
    <2>2. from[j] = Written("more", NoChunk, <<>>)
        BY ONLY <1>4, <1>c, <2>1
    <2>3. Between(f, T, e, b)
        BY ONLY <1>5, <1>f
    <2>4. Good(from[j], f, T, r, b, e)
        BY ONLY <1>z, <2>2, <2>3 DEF Good, Written
    <2> QED BY <2>4, <1>j
<1>6. CASE e > q
    <2>0. /\ e >= q + 3 /\ SizeBegin(s, j) = q + 1 - p /\ SizeEnd(s, j) = q + 2 - p
          /\ SizeOf(s, j) = n /\ After(s, q + 2 - p) = q + 4 - p
        BY ONLY <1>6, <1>f
    <2>1. SizeBegin(s, j) <= Len(s) /\ SizeEnd(s, j) <= Len(s)
        BY ONLY <1>0, <1>2, <2>0
    <2>7. from[j] = IF n = 0 THEN Written("end", 0, <<>>)
                    ELSE IF q + 4 - p > Len(s) THEN Written("more", n, <<>>)
                    ELSE ChunkBytes(from, s, q + 4 - p, n)
        BY ONLY <1>4, <1>c, <2>0, <2>1
    <2>8. CASE n = 0
        <3>1. from[j] = Written("end", 0, <<>>)
            BY ONLY <2>7, <2>8
        <3>2. Len(T) <= e + 2 /\ \A i \in (e + 1)..Len(T) : T[i].kind \in Newline
            <4>1. Len(T) = q + 5 /\ q + 4 + n = q + 4 /\ q + 5 + n = q + 5
                BY ONLY <1>0, <1>1, <2>8
            <4>2. \A i \in (e + 1)..Len(T) : i = q + 4 \/ i = q + 5
                BY ONLY <1>0, <2>0, <4>1
            <4>3. T[q + 4].kind \in Newline /\ T[q + 5].kind \in Newline
                BY ONLY <1>1, <4>1 DEF Newline
            <4>4. Len(T) <= e + 2
                BY ONLY <1>0, <2>0, <4>1
            <4> QED BY ONLY <4>2, <4>3, <4>4
        <3>3. b + Len(<<>>) = f.size
            BY ONLY <1>0, <2>8, <1>z
        <3>4. Good(from[j], f, T, r, b, e)
            BY ONLY <3>1, <3>2, <3>3 DEF Good, Written
        <3> QED BY <3>4, <1>j
    <2>9. CASE n > 0 /\ e = q + 3
        <3>0. n # 0 /\ q + 4 - p > Len(s)
            BY ONLY <1>0, <1>2, <2>9
        <3>1. from[j] = Written("more", n, <<>>)
            BY ONLY <2>7, <3>0
        <3>2. Opened(f, e, b, n)
            BY <2>9 DEF Opened
        <3>4. Good(from[j], f, T, r, b, e)
            BY ONLY <3>1, <3>2, <1>z DEF Good, Written
        <3> QED BY <3>4, <1>j
    <2>10. CASE n > 0 /\ e > q + 3
        <3>0. n # 0 /\ ~(q + 4 - p > Len(s))
            BY ONLY <1>0, <1>2, <2>10
        <3>1. from[j] = ChunkBytes(from, s, q + 4 - p, n)
            BY ONLY <2>7, <3>0
        <3>2. Good(ChunkBytes(from, s, q + 4 - p, n), f, T, r, b, e)
            <4>1. p <= q + 3 /\ q + 3 < e
                BY ONLY <1>0, <2>10
            <4>2. \A i \in Nat \ {0} : from[i] \in Outcome(r)
                BY DEF FromIs
            <4>3. Reads(from, f, T, r, p, e, q + 5 + n, b + n)
                BY <2>10
            <4> QED BY <2>10, <4>1, <4>2, <4>3, BytesRead, Zenon
        <3> QED BY <3>1, <3>2, <1>j
    <2>11. n = 0 \/ (n > 0 /\ e = q + 3) \/ (n > 0 /\ e > q + 3)
        BY ONLY <1>0, <2>0
    <2> QED BY ONLY <2>8, <2>9, <2>10, <2>11
<1> QED BY <1>0, <1>5, <1>6
(* Every chunk is understood: the last one needs nothing behind it, and    *)
(* the others begin behind fewer bytes of the body than the next.          *)
LEMMA ChunksRead ==
    ASSUME NEW f, NEW T, NEW r, InChunkText(f, T, r),
           NEW p \in Nat, HeadLength <= p, NEW e \in Nat, Clean(T, e),
           NEW s, s = SubSeq(T, p + 1, e), NEW from, FromIs(from, s, r),
           NEW q, NEW b, NEW n, IsChunk(f, q, b, n)
    PROVE  Reads(from, f, T, r, p, e, q, b)
<1>0. IsForm(f) /\ f.size \in Nat
    BY DEF InChunkText, IsForm
<1> DEFINE S == {k \in Nat : \A x, c, m : IsChunk(f, x, c, m) /\ f.size <= c + k => Reads(from, f, T, r, p, e, x, c)}
<1>1. ASSUME NEW x, NEW c, NEW m, IsChunk(f, x, c, m)
      PROVE  /\ x \in Nat /\ c \in Nat /\ m \in Nat /\ c + m <= f.size
             /\ m > 0 => \E i : IsChunk(f, x + 5 + m, c + m, i)
    BY ONLY <1>0, <1>1, NextChunk
<1>2. ASSUME NEW x, NEW c, NEW m, IsChunk(f, x, c, m), m > 0 => Reads(from, f, T, r, p, e, x + 5 + m, c + m)
      PROVE  Reads(from, f, T, r, p, e, x, c)
    BY <1>2, ChunkRead, Zenon
<1>3. 0 \in S
    <2> SUFFICES ASSUME NEW x, NEW c, NEW m, IsChunk(f, x, c, m), f.size <= c + 0
                 PROVE  Reads(from, f, T, r, p, e, x, c)
        BY Zenon
    <2>1. ~(m > 0)
        BY ONLY <1>0, <1>1, IsChunk(f, x, c, m), f.size <= c + 0
    <2> QED BY ONLY <1>2, <2>1, IsChunk(f, x, c, m)
<1>4. ASSUME NEW k \in 0..f.size, k < f.size, k \in S
      PROVE  k + 1 \in S
    <2> SUFFICES ASSUME NEW x, NEW c, NEW m, IsChunk(f, x, c, m), f.size <= c + (k + 1)
                 PROVE  Reads(from, f, T, r, p, e, x, c)
        <3>1. k + 1 \in Nat
            BY <1>0
        <3> QED BY <3>1, Zenon
    <2>1. CASE m > 0
        <3>1. PICK i : IsChunk(f, x + 5 + m, c + m, i)
            BY ONLY <1>1, <2>1, IsChunk(f, x, c, m)
        <3>2. f.size <= (c + m) + k
            BY ONLY <1>0, <1>1, <2>1, IsChunk(f, x, c, m), f.size <= c + (k + 1), k \in 0..f.size
        <3>3. Reads(from, f, T, r, p, e, x + 5 + m, c + m)
            BY ONLY <1>4, <3>1, <3>2, Zenon
        <3> QED BY ONLY <1>2, <3>3, IsChunk(f, x, c, m)
    <2>2. CASE ~(m > 0)
        BY ONLY <1>2, <2>2, IsChunk(f, x, c, m)
    <2> QED BY <2>1, <2>2
<1>5. f.size \in S
    <2> HIDE DEF S
    <2>1. \A k \in 0..f.size : k < f.size /\ k \in S => k + 1 \in S
        BY ONLY <1>4
    <2> QED BY ONLY <1>0, <1>3, <2>1, Numbers
<1>6. f.size <= b + f.size
    BY ONLY <1>0, <1>1, IsChunk(f, q, b, n)
<1> QED BY ONLY <1>5, <1>6, IsChunk(f, q, b, n), Zenon

(* So a call of Http::write makes of a read what it should.                *)
LEMMA ChunksGood ==
    ASSUME NEW f, NEW T, NEW r, InChunkText(f, T, r),
           NEW p \in Nat, HeadLength <= p, NEW e \in Nat, p < e, Clean(T, e),
           NEW s, s = SubSeq(T, p + 1, e), NEW b, NEW l,
           (l = NoChunk /\ Between(f, T, p, b)) \/ Opened(f, p, b, l)
    PROVE  Good(Chunks(s, l, <<>>), f, T, r, b, e)
<1>0. /\ p \in Nat /\ e \in Nat /\ Len(T) \in Nat /\ p <= e /\ e <= Len(T) /\ HeadLength = 15
      /\ T \in Seq(Token(r))
    BY DEF InChunkText, Clean, HeadLength
<1>1. s \in Seq(Token(r)) /\ Len(s) = e - p
    BY <1>0, PartIs
<1>2. <<>> \in Seq(Token(r))
    OBVIOUS
<1>3. PICK from :
          /\ \A size : Chunks(s, size, <<>>) = IF size > 0 THEN ChunkBytes(from, s, 1, size) ELSE from[1]
          /\ \A i \in Nat \ {0} : from[i] = ChunkSize(from, s, <<>>, i) /\ from[i] \in Outcome(r)
    BY ONLY <1>1, <1>2, ChunkSizes
<1>4. FromIs(from, s, r)
    BY <1>3 DEF FromIs
<1>5. ASSUME NEW q, NEW n, IsChunk(f, q, b, n)
      PROVE  Reads(from, f, T, r, p, e, q, b)
    BY <1>4, <1>5, ChunksRead, Zenon
<1>6. CASE l = NoChunk /\ Between(f, T, p, b)
    <2>1. PICK q, n : IsChunk(f, q, b, n) /\ p \in HeadLength..q /\ \A i \in (p + 1)..q : T[i].kind \in Newline
        BY <1>6 DEF Between
    <2>2. Reads(from, f, T, r, p, e, q, b)
        BY ONLY <1>5, <2>1
    <2>3. q \in Nat
        BY <2>1, NextChunk DEF InChunkText
    <2>4. p \in p..q /\ p <= e /\ p - p + 1 = 1
        BY ONLY <1>0, <2>1, <2>3
    <2>5. Good(from[1], f, T, r, b, e)
        BY ONLY <2>1, <2>2, <2>4 DEF Reads
    <2>6. Chunks(s, l, <<>>) = from[1]
        <3>1. ~(NoChunk > 0)
            BY DEF NoChunk
        <3> QED BY ONLY <1>3, <1>6, <3>1
    <2> QED BY ONLY <2>5, <2>6
<1>7. CASE Opened(f, p, b, l)
    <2>1. PICK q : l > 0 /\ IsChunk(f, q, b, l) /\ p = q + 3
        BY <1>7 DEF Opened
    <2>2. q \in Nat /\ b \in Nat /\ l \in Nat
        BY <2>1, NextChunk DEF InChunkText
    <2>3. PICK n : IsChunk(f, q + 5 + l, b + l, n)
        BY <2>1, NextChunk DEF InChunkText
    <2>4. Reads(from, f, T, r, p, e, q + 5 + l, b + l)
        BY ONLY <1>0, <1>4, <2>3, ChunksRead, InChunkText(f, T, r), HeadLength <= p, Clean(T, e), s = SubSeq(T, p + 1, e), Zenon
    <2>5. p <= q + 3 /\ q + 3 < e /\ q + 4 - p = 1 /\ l > 0
        BY ONLY <1>0, <2>1, <2>2, p < e
    <2>6. \A i \in Nat \ {0} : from[i] \in Outcome(r)
        BY ONLY <1>3
    <2>7. Good(ChunkBytes(from, s, q + 4 - p, l), f, T, r, b, e)
        BY <2>1, <2>4, <2>5, <2>6, BytesRead, Zenon
    <2>8. Chunks(s, l, <<>>) = ChunkBytes(from, s, 1, l)
        BY ONLY <1>3, <2>1
    <2>9. ChunkBytes(from, s, q + 4 - p, l) = ChunkBytes(from, s, 1, l)
        BY ONLY <2>5
    <2> QED BY ONLY <2>7, <2>8, <2>9
<1> QED BY <1>6, <1>7-----------------------------------------------------------------------------
(* The parser follows the answer.                                          *)

\* s are the first bytes of the body of the answer to request r.
FileIs(s, r) == \A i \in 1..Len(s) : s[i].kind = "byte" /\ s[i].num = i /\ s[i].of = r

\* Chunks that are right behind p tokens and b bytes of the body, when l is
\* chunkLength,
ChunksAt(f, T, p, b, l) == (l = NoChunk /\ Between(f, T, p, b)) \/ Opened(f, p, b, l)

\* a body with Content-Length, when contentwritten is w: one of no bytes is
\* not ended.
LengthAt(f, p, b, w) == w = b /\ p = HeadLength + b /\ (b < f.size \/ f.size = 0)

\* The body of the answer T of form f to request r, of which p tokens are
\* read: s is its file, size, w and l are length, contentwritten, chunkLength.
BodyAt(f, T, r, p, s, size, w, l) ==
    /\ FileIs(s, r)
    /\ IF f.chunked THEN size = NoLength /\ ChunksAt(f, T, p, Len(s), l)
                    ELSE size = f.size /\ LengthAt(f, p, Len(s), w)

\* Behind p tokens of T there is at most the end of its last chunk.
LastLine(T, p) == Len(T) <= p + 2 /\ \A i \in (p + 1)..Len(T) : T[i].kind \in Newline

\* Nothing is parsed,
Fresh ==
    /\ code = 0 /\ length = NoLength /\ contentwritten = 0 /\ content = FALSE
    /\ headerBuff = <<>> /\ chunkLength = NoChunk /\ chunkHeader = <<>> /\ file = <<>>

\* the first p tokens of the header are, of a line in which a cut does no
\* harm,
InHeader(p) ==
    /\ p \in {5, 12, 13} /\ code = 200 /\ content = FALSE
    /\ length = IF p = 5 \/ form.chunked THEN NoLength ELSE form.size
    /\ contentwritten = 0 /\ headerBuff = <<>> /\ chunkLength = NoChunk /\ chunkHeader = <<>> /\ file = <<>>

\* the first p tokens of an answer with its header are.
InBody(p) ==
    /\ HeadLength <= p /\ code = 200 /\ content = TRUE
    /\ headerBuff = <<>> /\ chunkHeader = <<>>
    /\ BodyAt(form, Text(turn, form), turn, p, file, length, contentwritten, chunkLength)

ParsedTo(p) ==
    \/ p = 0 /\ Fresh
    \/ form.code = 200 /\ (InHeader(p) \/ InBody(p))

\* The origin has not heard the request, or its answer is read and parsed
\* up to p and the rest of it is on the wire.
Unheard == form = NoForm /\ wire = <<>> /\ Fresh
Answered(p) ==
    /\ form # NoForm /\ requestSended = TRUE
    /\ p \in 0..Len(Text(turn, form)) /\ wire = SubSeq(Text(turn, form), p + 1, Len(Text(turn, form)))
    /\ ParsedTo(p)

Following ==
    Running /\ harmed = 0 =>
        /\ reading = TRUE => offset = <<>>
        /\ Unheard \/ \E p \in Nat : Answered(p)

\* What the next connection of a download finds that has no status yet,
NotBegun == Running /\ code = 0 => Fresh

\* and the origin, when the request is to be written.
Unsent == Running /\ requestSended = FALSE => \A i \in 1..Len(heard) : heard[i].of < turn

Aborted == crashed = TRUE => how = "running" /\ harmed > 0

\* What a download has left at its end.
Ended ==
    harmed = 0 /\ turn > 0 =>
        /\ how = "whole" => form.code = 200 /\ IsBody(file, turn, form)
        /\ how = "error" => form.code # 200

Right == Following /\ NotBegun /\ Unsent /\ Aborted /\ Ended /\ OnlyLastLineLeft

(* The part of a part.                                                     *)
LEMMA PartOfPart ==
    ASSUME NEW r, NEW T \in Seq(Token(r)), NEW p \in Nat, NEW e \in Nat, p <= e, e <= Len(T),
           NEW w, w = SubSeq(T, p + 1, e),
           NEW i \in Nat, NEW j \in Nat, i <= j, j <= e - p
    PROVE  SubSeq(w, i + 1, j) = SubSeq(T, (p + i) + 1, p + j)
<1>1. w \in Seq(Token(r)) /\ Len(w) = e - p /\ \A m \in 1..(e - p) : w[m] = T[p + m]
    BY PartIs
<1>2. Len(T) \in Nat /\ p \in Nat /\ e \in Nat /\ i \in Nat /\ j \in Nat /\ p <= e /\ e <= Len(T) /\ i <= j /\ j <= e - p
    OBVIOUS
<1> DEFINE x == SubSeq(w, i + 1, j)
           y == SubSeq(T, (p + i) + 1, p + j)
           c == p + i
           d == p + j
<1>3. c \in Nat /\ d \in Nat /\ c <= d /\ d <= Len(T) /\ j <= Len(w) /\ d - c = j - i
    BY ONLY <1>1, <1>2
<1>4. y = SubSeq(T, c + 1, d)
    OBVIOUS
<1>5. x = SubSeq(w, i + 1, j)
    OBVIOUS
<1>c. c = p + i
    OBVIOUS
<1> HIDE DEF x, y, c, d
<1>6. x \in Seq(Token(r)) /\ Len(x) = j - i /\ \A m \in 1..(j - i) : x[m] = w[i + m]
    BY ONLY <1>1, <1>2, <1>3, <1>5, PartIs
<1>7. y \in Seq(Token(r)) /\ Len(y) = d - c /\ \A m \in 1..(d - c) : y[m] = T[c + m]
    BY ONLY <1>3, <1>4, T \in Seq(Token(r)), PartIs
<1>8. \A m \in 1..Len(x) : x[m] = y[m]
    <2> SUFFICES ASSUME NEW m \in 1..Len(x)
                 PROVE  x[m] = y[m]
        OBVIOUS
    <2>0. m \in 1..(j - i)
        BY ONLY <1>6
    <2>1. i + m \in 1..(e - p) /\ p + (i + m) = c + m /\ m \in 1..(d - c)
        BY ONLY <1>2, <1>3, <1>c, <2>0
    <2>2. w[i + m] = T[c + m]
        BY ONLY <1>1, <2>1
    <2> QED BY ONLY <1>6, <1>7, <2>0, <2>1, <2>2
<1>9. Len(x) = Len(y)
    BY ONLY <1>3, <1>6, <1>7
<1>10. x = y
    BY ONLY <1>6, <1>7, <1>8, <1>9, SeqEqual
<1> QED BY <1>10 DEF x, y

(* What is the matter with an answer whose request has been heard.         *)
LEMMA AnswerIs ==
    ASSUME Types, turn > 0
    PROVE  /\ turn \in Nat \ {0} /\ IsForm(form)
           /\ Text(turn, form) \in Seq(Token(turn))
           /\ Len(Text(turn, form)) \in Nat /\ Len(Text(turn, form)) >= HeadLength
           /\ form.chunked => InChunkText(form, Text(turn, form), turn)
<1>1. turn \in Nat \ {0} /\ form \in Form \cup {NoForm, Refusal}
    BY ExchangeAssumption DEF Types
<1>2. IsForm(form)
    BY <1>1, FormIs
<1> DEFINE T == Text(turn, form)
<1>3. T = Text(turn, form)
    OBVIOUS
<1> HIDE DEF T
<1>4. /\ T \in Seq(Token(turn)) /\ Len(T) \in Nat /\ Len(T) >= HeadLength
      /\ form.chunked =>
           \A q, b, n : IsChunk(form, q, b, n) => ChunkLies(T, turn, q, b, n) /\ (n = 0 => Len(T) = q + 5)
    BY ONLY <1>1, <1>2, <1>3, TextIs
<1>5. form.chunked => InChunkText(form, T, turn)
    BY ONLY <1>1, <1>2, <1>4 DEF InChunkText
<1> QED BY ONLY <1>1, <1>2, <1>3, <1>4, <1>5

(* A read that does no harm ends at a clean place, and what it parses is   *)
(* the text between that and the last read.                                *)
LEMMA ReadAt ==
    ASSUME Types, turn > 0, harmed = 0, offset = <<>>,
           NEW T, T = Text(turn, form), NEW p \in Nat, Answered(p),
           NEW k \in 1..Len(wire), Read(k), harmed' = 0
    PROVE  /\ p + k \in Nat /\ p < p + k /\ p + k <= Len(T) /\ Clean(T, p + k)
           /\ Buffer(k) = SubSeq(T, p + 1, p + k)
           /\ wire' = SubSeq(T, (p + k) + 1, Len(T))
<1>1. T \in Seq(Token(turn)) /\ Len(T) \in Nat
    BY AnswerIs
<1>2. p \in 0..Len(T) /\ wire = SubSeq(T, p + 1, Len(T))
    BY DEF Answered
<1>3. Len(wire) = Len(T) - p /\ \A i \in 1..(Len(T) - p) : wire[i] = T[p + i]
    BY ONLY <1>1, <1>2, p \in Nat, PartIs
<1>4. k \in Nat /\ k >= 1 /\ k <= Len(T) - p /\ p + k \in Nat /\ p < p + k /\ p + k <= Len(T)
    BY ONLY <1>1, <1>2, <1>3, p \in Nat, k \in 1..Len(wire)
<1>5. wire' = SubSeq(wire, k + 1, Len(wire)) /\ (wire' = <<>> \/ ~wire'[1].joined)
    BY DEF Read
<1>6. wire' = SubSeq(T, (p + k) + 1, Len(T))
    <2> DEFINE j == Len(wire)
               e == Len(T)
    <2>1. p + j = e /\ j \in Nat /\ e \in Nat /\ k <= j /\ j <= e - p /\ p <= e /\ e <= Len(T)
        BY ONLY <1>1, <1>3, <1>4, p \in Nat
    <2>2. wire = SubSeq(T, p + 1, e)
        BY <1>2
    <2> HIDE DEF j, e
    <2>3. SubSeq(wire, k + 1, j) = SubSeq(T, (p + k) + 1, p + j)
        BY ONLY <1>1, <1>4, <2>1, <2>2, p \in Nat, PartOfPart
    <2>4. wire' = SubSeq(wire, k + 1, j)
        BY <1>5 DEF j
    <2>5. wire' = SubSeq(T, (p + k) + 1, e)
        BY ONLY <2>1, <2>3, <2>4
    <2> QED BY ONLY <2>5 DEF e
<1>7. Buffer(k) = SubSeq(T, p + 1, p + k)
    <2>0. wire \in Seq(Token(turn))
        BY DEF Types
    <2>1. SubSeq(wire, 1, k) = SubSeq(T, p + 1, p + k)
        <3> DEFINE e == Len(T)
        <3>1. 0 \in Nat /\ 0 <= k /\ k <= e - p /\ e \in Nat /\ p <= e /\ e <= Len(T) /\ wire = SubSeq(T, p + 1, e)
            BY ONLY <1>1, <1>2, <1>4, p \in Nat
        <3> HIDE DEF e
        <3>2. SubSeq(wire, 0 + 1, k) = SubSeq(T, (p + 0) + 1, p + k)
            BY ONLY <1>1, <1>4, <3>1, p \in Nat, PartOfPart
        <3>3. 0 + 1 = 1 /\ p + 0 = p
            BY p \in Nat
        <3> QED BY ONLY <3>2, <3>3
    <2> DEFINE v == SubSeq(wire, 1, k)
    <2>2. v \in Seq(Token(turn)) /\ Len(v) = k
        BY <1>3, <1>4, <2>0
    <2>3. Buffer(k) = SubSeq(offset \o v, 1, k)
        BY DEF Buffer
    <2> HIDE DEF v
    <2>4. <<>> \o v = v /\ SubSeq(v, 1, k) = v
        BY ONLY <2>2, <1>4
    <2>5. Buffer(k) = v
        BY <2>3, <2>4
    <2> QED BY <2>1, <2>5 DEF v
<1>8. Clean(T, p + k)
    <2>1. CASE p + k = Len(T)
        BY ONLY <1>1, <1>4, <2>1 DEF Clean
    <2>2. CASE p + k # Len(T)
        <3> DEFINE e == p + k
        <3>1. e \in Nat /\ e <= Len(T) /\ Len(T) <= Len(T) /\ 1 \in 1..(Len(T) - e) /\ Len(T) - e # 0 /\ e \in 0..Len(T)
            BY ONLY <1>1, <1>4, <2>2
        <3>2. wire' = SubSeq(T, e + 1, Len(T))
            BY <1>6
        <3> HIDE DEF e
        <3>3. Len(wire') = Len(T) - e /\ wire'[1] = T[e + 1]
            BY ONLY <1>1, <3>1, <3>2, PartIs
        <3>4. ~T[e + 1].joined
            BY ONLY <1>5, <3>1, <3>3
        <3>5. Clean(T, e)
            BY ONLY <3>1, <3>4 DEF Clean
        <3> QED BY <3>5 DEF e
    <2> QED BY <2>1, <2>2
<1> QED BY <1>4, <1>6, <1>7, <1>8
(* What Http::write should do with a read that ends behind e tokens of T.  *)
WrittenTo(T, e, size) ==
    /\ chunkHeader' = <<>> /\ crashed' = crashed
    /\ \/ how' = how /\ BodyAt(form, T, turn, e, file', size, contentwritten', chunkLength')
       \/ how' = "whole" /\ IsBody(file', turn, form) /\ LastLine(T, e)

(* Bytes behind bytes are still in order.                                  *)
LEMMA FileGrows ==
    ASSUME NEW r, NEW s \in Seq(Token(r)), FileIs(s, r), NEW t \in Seq(Token(r)),
           \A i \in 1..Len(t) : t[i].kind = "byte" /\ t[i].num = Len(s) + i /\ t[i].of = r
    PROVE  FileIs(s \o t, r) /\ Len(s \o t) = Len(s) + Len(t)
<1>0. Len(s) \in Nat /\ Len(t) \in Nat /\ Len(s \o t) = Len(s) + Len(t)
    OBVIOUS
<1>1. ASSUME NEW i \in 1..(Len(s) + Len(t))
      PROVE  (s \o t)[i].kind = "byte" /\ (s \o t)[i].num = i /\ (s \o t)[i].of = r
    <2>1. CASE i <= Len(s)
        <3>1. i \in 1..Len(s) /\ (s \o t)[i] = s[i]
            BY <2>1
        <3> QED BY ONLY <3>1, FileIs(s, r) DEF FileIs
    <2>2. CASE i > Len(s)
        <3>1. i - Len(s) \in 1..Len(t) /\ (s \o t)[i] = t[i - Len(s)] /\ Len(s) + (i - Len(s)) = i
            BY <1>0, <2>2
        <3>2. t[i - Len(s)].kind = "byte" /\ t[i - Len(s)].num = Len(s) + (i - Len(s)) /\ t[i - Len(s)].of = r
            BY <3>1
        <3> QED BY ONLY <3>1, <3>2
    <2> QED BY ONLY <1>0, <2>1, <2>2, i \in 1..(Len(s) + Len(t))
<1> QED BY ONLY <1>0, <1>1 DEF FileIs

(* A file as long as the body is the body.                                 *)
LEMMA FileBody ==
    ASSUME NEW s, NEW r, NEW f, FileIs(s, r), Len(s) = f.size
    PROVE  IsBody(s, r, f)
BY DEF FileIs, IsBody

(* The body with Content-Length: it ends with the read that has the last   *)
(* byte of it, and the answer with it.                                     *)
LEMMA WriteLength ==
    ASSUME Types, turn > 0, ~form.chunked, NEW T, T = Text(turn, form),
           NEW p \in Nat, HeadLength <= p, NEW e \in Nat, p < e, e <= Len(T),
           NEW s, s = SubSeq(T, p + 1, e), NEW size,
           BodyAt(form, T, turn, p, file, size, contentwritten, chunkLength),
           chunkHeader = <<>>, Write(s, size)
    PROVE  WrittenTo(T, e, size)
<1>0. /\ turn \in Nat \ {0} /\ IsForm(form) /\ form.size \in Nat /\ Len(T) \in Nat
      /\ T \in Seq(Token(turn)) /\ file \in Seq(Token(turn)) /\ Len(file) \in Nat
    BY AnswerIs DEF IsForm, Types
<1>1. /\ HeadLength = 15 /\ Len(T) = 15 + form.size
      /\ \A i \in 1..form.size :
          T[15 + i].kind = "byte" /\ T[15 + i].num = i /\ T[15 + i].of = turn
    <2>1. /\ Len(T) = HeadLength + form.size
          /\ \A i \in 1..form.size :
              T[HeadLength + i].kind = "byte" /\ T[HeadLength + i].num = i /\ T[HeadLength + i].of = turn
        BY ONLY <1>0, ~form.chunked, T = Text(turn, form), TextIs
    <2>2. HeadLength = 15
        BY DEF HeadLength
    <2> QED BY ONLY <2>1, <2>2
<1>2. /\ FileIs(file, turn) /\ size = form.size /\ contentwritten = Len(file) /\ p = 15 + Len(file)
    BY DEF BodyAt, LengthAt, HeadLength
<1>3. s \in Seq(Token(turn)) /\ Len(s) = e - p /\ \A i \in 1..(e - p) : s[i] = T[p + i]
    BY <1>0, PartIs
<1>4. size # NoLength
    BY <1>0, <1>2 DEF NoLength
<1>5. /\ file' = file \o s /\ contentwritten' = contentwritten + Len(s)
      /\ chunkLength' = chunkLength /\ chunkHeader' = chunkHeader /\ crashed' = crashed
      /\ IF contentwritten + Len(s) >= size THEN how' = "whole" ELSE how' = how
    BY <1>4 DEF Write, Enough, End
<1>6. \A i \in 1..Len(s) : s[i].kind = "byte" /\ s[i].num = Len(file) + i /\ s[i].of = turn
    <2> SUFFICES ASSUME NEW i \in 1..Len(s)
                 PROVE  s[i].kind = "byte" /\ s[i].num = Len(file) + i /\ s[i].of = turn
        OBVIOUS
    <2>1. i \in 1..(e - p) /\ Len(file) + i \in 1..form.size /\ p + i = 15 + (Len(file) + i)
        BY ONLY <1>0, <1>1, <1>2, <1>3, p \in Nat, e \in Nat, p < e, e <= Len(T), i \in 1..Len(s)
    <2> QED BY ONLY <1>1, <1>3, <2>1
<1>7. FileIs(file', turn) /\ Len(file') = Len(file) + Len(s)
    BY ONLY <1>0, <1>2, <1>3, <1>5, <1>6, FileGrows
<1>8. contentwritten' = Len(file') /\ e = 15 + Len(file') /\ Len(file') \in Nat /\ Len(file') <= form.size /\ Len(file') > 0
    BY ONLY <1>0, <1>1, <1>2, <1>3, <1>5, <1>7, p \in Nat, e \in Nat, p < e, e <= Len(T)
<1>9. CASE Len(file') < form.size
    <2>1. how' = how
        BY ONLY <1>0, <1>2, <1>5, <1>7, <1>8, <1>9
    <2>2. LengthAt(form, e, Len(file'), contentwritten')
        BY ONLY <1>1, <1>8, <1>9 DEF LengthAt
    <2>3. BodyAt(form, T, turn, e, file', size, contentwritten', chunkLength')
        BY ONLY <1>2, <1>7, <2>2, ~form.chunked DEF BodyAt
    <2> QED BY ONLY <1>5, <2>1, <2>3, chunkHeader = <<>> DEF WrittenTo
<1>10. CASE Len(file') >= form.size
    <2>1. Len(file') = form.size /\ e = Len(T)
        BY ONLY <1>0, <1>1, <1>8, <1>10
    <2>2. how' = "whole"
        BY ONLY <1>0, <1>2, <1>5, <1>7, <1>8, <1>10
    <2>3. IsBody(file', turn, form)
        BY ONLY <1>7, <2>1, FileBody
    <2>4. LastLine(T, e)
        BY ONLY <1>0, <2>1 DEF LastLine
    <2> QED BY ONLY <1>5, <2>2, <2>3, <2>4, chunkHeader = <<>> DEF WrittenTo
<1> QED BY ONLY <1>0, <1>8, <1>9, <1>10

(* The body in chunks.                                                     *)
LEMMA WriteChunks ==
    ASSUME Types, turn > 0, form.chunked, NEW T, T = Text(turn, form),
           NEW p \in Nat, HeadLength <= p, NEW e \in Nat, p < e, Clean(T, e),
           NEW s, s = SubSeq(T, p + 1, e), NEW size,
           BodyAt(form, T, turn, p, file, size, contentwritten, chunkLength),
           chunkHeader = <<>>, crashed = FALSE, Write(s, size)
    PROVE  WrittenTo(T, e, size)
<1>0. /\ turn \in Nat \ {0} /\ IsForm(form) /\ InChunkText(form, T, turn) /\ form.size \in Nat /\ Len(T) \in Nat
      /\ T \in Seq(Token(turn)) /\ file \in Seq(Token(turn)) /\ Len(file) \in Nat /\ e <= Len(T)
    BY AnswerIs DEF IsForm, Types, Clean
<1>1. FileIs(file, turn) /\ size = NoLength /\ ChunksAt(form, T, p, Len(file), chunkLength)
    BY DEF BodyAt
<1> DEFINE w == Chunks(s, chunkLength, <<>>)
<1>2. /\ file' = file \o w.out /\ chunkLength' = w.length /\ chunkHeader' = w.kept
      /\ IF w.what = "end" THEN how' = "whole" ELSE how' = how
      /\ crashed' = (w.what = "abort") /\ contentwritten' = contentwritten
    BY <1>1 DEF Write, End
<1>3. w \in Outcome(turn)
    <2>1. s \in Seq(Token(turn)) /\ Len(s) > 0
        BY <1>0, PartIs
    <2>2. chunkLength \in Nat \cup {NoChunk} /\ <<>> \in Seq(Token(turn))
        BY DEF Types
    <2> QED BY ONLY <2>1, <2>2, ChunksTyped
<1>4. Good(w, form, T, turn, Len(file), e)
    BY <1>0, <1>1, ChunksGood DEF ChunksAt
<1> HIDE DEF w
<1>5. /\ w.out \in Seq(Token(turn)) /\ Len(w.out) \in Nat /\ w.kept = <<>>
      /\ \A i \in 1..Len(w.out) : w.out[i].kind = "byte" /\ w.out[i].num = Len(file) + i /\ w.out[i].of = turn
    BY ONLY <1>3, <1>4 DEF Outcome, Good
<1>6. FileIs(file', turn) /\ Len(file') = Len(file) + Len(w.out)
    BY ONLY <1>0, <1>1, <1>2, <1>5, FileGrows
<1>7. CASE /\ w.what = "end" /\ Len(file) + Len(w.out) = form.size
           /\ Len(T) <= e + 2 /\ \A i \in (e + 1)..Len(T) : T[i].kind \in Newline
    <2>1. LastLine(T, e)
        BY ONLY <1>7 DEF LastLine
    <2>2. IsBody(file', turn, form)
        BY ONLY <1>6, <1>7, FileBody
    <2>3. w.what # "abort"
        BY <1>7
    <2>4. how' = "whole" /\ crashed' = FALSE
        BY ONLY <1>2, <1>7, <2>3
    <2> QED BY ONLY <1>2, <1>5, <2>1, <2>2, <2>4, crashed = FALSE DEF WrittenTo
<1>8. CASE /\ w.what = "more"
           /\ \/ w.length = NoChunk /\ Between(form, T, e, Len(file) + Len(w.out))
              \/ Opened(form, e, Len(file) + Len(w.out), w.length)
    <2>1. ChunksAt(form, T, e, Len(file'), chunkLength')
        BY ONLY <1>2, <1>6, <1>8 DEF ChunksAt
    <2>2. BodyAt(form, T, turn, e, file', size, contentwritten', chunkLength')
        BY ONLY <1>1, <1>6, <2>1, form.chunked DEF BodyAt
    <2>3. w.what # "abort" /\ w.what # "end"
        BY <1>8
    <2>4. how' = how /\ crashed' = FALSE
        BY ONLY <1>2, <2>3
    <2> QED BY ONLY <1>2, <1>5, <2>2, <2>4, crashed = FALSE DEF WrittenTo
<1> QED BY ONLY <1>4, <1>7, <1>8 DEF Good

(* Either of them.                                                         *)
LEMMA WriteRight ==
    ASSUME Types, turn > 0, NEW T, T = Text(turn, form),
           NEW p \in Nat, HeadLength <= p, NEW e \in Nat, p < e, Clean(T, e),
           NEW s, s = SubSeq(T, p + 1, e), NEW size,
           BodyAt(form, T, turn, p, file, size, contentwritten, chunkLength),
           chunkHeader = <<>>, crashed = FALSE, Write(s, size)
    PROVE  WrittenTo(T, e, size)
<1>1. form.chunked \in BOOLEAN /\ e <= Len(T)
    BY AnswerIs DEF IsForm, Clean
<1>2. CASE form.chunked
    BY <1>2, WriteChunks
<1>3. CASE ~form.chunked
    BY <1>1, <1>3, WriteLength
<1> QED BY <1>2, <1>3

(* The body begins behind the header.                                      *)
LEMMA BodyBegins ==
    ASSUME NEW f, IsForm(f), NEW T, NEW r
    PROVE  BodyAt(f, T, r, HeadLength, <<>>, IF f.chunked THEN NoLength ELSE f.size, 0, NoChunk)
<1>0. FileIs(<<>>, r) /\ Len(<<>>) = 0
    BY DEF FileIs
<1>1. CASE f.chunked
    <2>1. PICK n : IsChunk(f, HeadLength, 0, n)
        BY FirstChunk
    <2>2. HeadLength \in HeadLength..HeadLength /\ \A i \in (HeadLength + 1)..HeadLength : T[i].kind \in Newline
        BY DEF HeadLength
    <2>3. Between(f, T, HeadLength, 0)
        BY ONLY <2>1, <2>2 DEF Between
    <2>4. ChunksAt(f, T, HeadLength, 0, NoChunk)
        BY ONLY <2>3 DEF ChunksAt
    <2> QED BY ONLY <1>0, <1>1, <2>4 DEF BodyAt
<1>2. CASE ~f.chunked
    <2>1. LengthAt(f, HeadLength, 0, 0)
        BY DEF LengthAt, HeadLength, IsForm
    <2> QED BY ONLY <1>0, <1>2, <2>1 DEF BodyAt
<1> QED BY <1>1, <1>2
-----------------------------------------------------------------------------
(* The reads.                                                              *)

\* The header of an answer of that form.
NameOf(f) == IF f.chunked THEN "other" ELSE "length"
ValueOf(f) == IF f.chunked THEN 0 ELSE f.size

(* It has the status of the answer.                                        *)
LEMMA HeadOf ==
    ASSUME Types, turn > 0
    PROVE  /\ IsHead(Text(turn, form), form.code, NameOf(form), ValueOf(form))
           /\ form.code \in Nat /\ NameOf(form) \in {"length", "other"} /\ ValueOf(form) \in Nat
<1>0. turn \in Nat \ {0} /\ IsForm(form)
    BY AnswerIs
<1> DEFINE T == Text(turn, form)
<1>1. T = Text(turn, form)
    OBVIOUS
<1> HIDE DEF T
<1>2. /\ form.chunked => IsHead(T, form.code, "other", 0)
      /\ ~form.chunked => IsHead(T, form.code, "length", form.size)
    BY ONLY <1>0, <1>1, TextIs
<1>3. IsHead(T, form.code, NameOf(form), ValueOf(form))
    BY ONLY <1>2 DEF NameOf, ValueOf
<1>4. form.code \in Nat /\ NameOf(form) \in {"length", "other"} /\ ValueOf(form) \in Nat
    BY ONLY <1>0 DEF NameOf, ValueOf, IsForm
<1> QED BY ONLY <1>1, <1>3, <1>4

(* A read that harms, or comes behind one, leaves nothing to keep but what *)
(* the end of the connection needs.                                        *)
LEMMA ReadHarms ==
    ASSUME Types, Right, NEW k \in 1..Len(wire), Read(k), harmed' # 0,
           code' # 0 \/ how' # "running", crashed' = TRUE => how' = "running"
    PROVE  Right'
<1>1. harmed' > 0
    BY DEF Types, Read
<1>2. Following' /\ Ended' /\ OnlyLastLineLeft'
    BY DEF Following, Ended, OnlyLastLineLeft
<1>3. NotBegun' /\ Aborted'
    BY <1>1 DEF NotBegun, Aborted, Running
<1>4. Unsent'
    BY DEF Right, Unsent, Read, Running
<1> QED BY <1>2, <1>3, <1>4 DEF Right

(* One that does none follows such.                                        *)
LEMMA ReadFollows ==
    ASSUME Types, Right, NEW k \in 1..Len(wire), Read(k), harmed' = 0
    PROVE  /\ turn > 0 /\ harmed = 0 /\ offset = <<>> /\ crashed = FALSE /\ how = "running"
           /\ \E p \in Nat : Answered(p)
<1>1. Running /\ reading = TRUE /\ harmed = 0 /\ crashed = FALSE /\ how = "running" /\ turn > 0
    BY DEF Read, Types, Running
<1>2. offset = <<>> /\ (Unheard \/ \E p \in Nat : Answered(p))
    BY <1>1 DEF Right, Following
<1>3. wire # <<>>
    OBVIOUS
<1>4. ~Unheard
    BY <1>3 DEF Unheard
<1> QED BY <1>1, <1>2, <1>4

(* What LastLine says of the text holds of the wire.                       *)
LEMMA LastLineLeft ==
    ASSUME NEW r, NEW T \in Seq(Token(r)), NEW e \in Nat, e <= Len(T), LastLine(T, e)
    PROVE  LET w == SubSeq(T, e + 1, Len(T)) IN Len(w) <= 2 /\ \A i \in 1..Len(w) : w[i].kind \in Newline
<1> DEFINE w == SubSeq(T, e + 1, Len(T))
<1>1. Len(T) \in Nat /\ e \in Nat /\ e <= Len(T) /\ Len(T) <= Len(T) /\ w = SubSeq(T, e + 1, Len(T))
    OBVIOUS
<1> HIDE DEF w
<1>2. Len(w) = Len(T) - e /\ \A i \in 1..(Len(T) - e) : w[i] = T[e + i]
    BY ONLY <1>1, T \in Seq(Token(r)), PartIs
<1>3. Len(w) <= 2
    BY ONLY <1>1, <1>2, LastLine(T, e) DEF LastLine
<1>4. ASSUME NEW i \in 1..Len(w)
      PROVE  w[i].kind \in Newline
    <2>1. i \in 1..(Len(T) - e) /\ e + i \in (e + 1)..Len(T)
        BY ONLY <1>1, <1>2, i \in 1..Len(w)
    <2> QED BY ONLY <1>2, <2>1, LastLine(T, e) DEF LastLine
<1> QED BY <1>3, <1>4 DEF w

(* What is left for a read that has come to the body and did what it       *)
(* should.                                                                 *)
LEMMA BodyKept ==
    ASSUME Types, Right, NEW k \in 1..Len(wire), Read(k), harmed' = 0,
           form # NoForm, form.code = 200, requestSended = TRUE,
           NEW T, T = Text(turn, form), NEW e \in Nat, HeadLength <= e, e <= Len(T),
           wire' = SubSeq(T, e + 1, Len(T)), WrittenTo(T, e, length'),
           code' = 200, content' = TRUE, headerBuff' = <<>>
    PROVE  Right'
<1>0. /\ turn > 0 /\ offset = <<>> /\ crashed = FALSE /\ how = "running" /\ crashed' = FALSE
      /\ turn' = turn /\ form' = form /\ requestSended' = TRUE /\ offset' = <<>> /\ heard' = heard
      /\ chunkHeader' = <<>>
    BY ReadFollows DEF Read, WrittenTo
<1>1. NotBegun' /\ Aborted'
    BY <1>0 DEF NotBegun, Aborted
<1>2. Unsent'
    BY <1>0 DEF Unsent
<1>3. CASE how' = how /\ BodyAt(form, T, turn, e, file', length', contentwritten', chunkLength')
    <2>1. InBody(e)'
        BY <1>0, <1>3 DEF InBody
    <2>2. ParsedTo(e)'
        BY <1>0, <2>1 DEF ParsedTo
    <2>3. e \in 0..Len(Text(turn', form'))
        BY <1>0, AnswerIs
    <2>4. Answered(e)'
        BY <1>0, <2>2, <2>3 DEF Answered
    <2>5. Following'
        BY <1>0, <2>4 DEF Following
    <2>6. Ended' /\ OnlyLastLineLeft'
        BY <1>0, <1>3 DEF Ended, OnlyLastLineLeft
    <2> QED BY <1>1, <1>2, <2>5, <2>6 DEF Right
<1>4. CASE how' = "whole" /\ IsBody(file', turn, form) /\ LastLine(T, e)
    <2>1. Following'
        BY <1>4 DEF Following, Running
    <2>2. Ended'
        BY <1>0, <1>4 DEF Ended
    <2>3. T \in Seq(Token(turn))
        BY <1>0, AnswerIs
    <2>4. OnlyLastLineLeft'
        BY <1>4, <2>3, LastLineLeft DEF OnlyLastLineLeft
    <2> QED BY <1>1, <1>2, <2>1, <2>2, <2>4 DEF Right
<1> QED BY <1>3, <1>4 DEF WrittenTo

(* A read of the body,                                                     *)
LEMMA ReadContentRight ==
    ASSUME Types, Right, NEW k \in 1..Len(wire), ReadContent(k)
    PROVE  Right'
<1>0. /\ Read(k) /\ content = TRUE /\ Write(Buffer(k), length) /\ how = "running" /\ crashed = FALSE
      /\ code' = code /\ length' = length /\ content' = content /\ headerBuff' = headerBuff
    BY DEF ReadContent, Read, Running, Types
<1>1. code # 0
    BY <1>0 DEF Right, NotBegun, Fresh, Running
<1>2. CASE harmed' # 0
    <2>1. crashed' = TRUE => how' = "running"
        BY <1>0 DEF Write
    <2> QED BY <1>0, <1>1, <1>2, <2>1, ReadHarms
<1>3. CASE harmed' = 0
    <2>0. turn > 0 /\ harmed = 0 /\ offset = <<>>
        BY <1>0, <1>3, ReadFollows
    <2>1. PICK p \in Nat : Answered(p)
        BY <1>0, <1>3, ReadFollows
    <2> DEFINE T == Text(turn, form)
               e == p + k
    <2>t. T = Text(turn, form) /\ e = p + k
        OBVIOUS
    <2> HIDE DEF T, e
    <2>2. form # NoForm /\ requestSended = TRUE /\ form.code = 200 /\ InBody(p)
        BY <1>0, <2>1 DEF Answered, ParsedTo, Fresh, InHeader
    <2>3. /\ HeadLength <= p /\ code = 200 /\ headerBuff = <<>> /\ chunkHeader = <<>>
          /\ BodyAt(form, T, turn, p, file, length, contentwritten, chunkLength)
        BY <2>2, <2>t DEF InBody
    <2>4. /\ e \in Nat /\ p < e /\ e <= Len(T) /\ Clean(T, e)
          /\ Buffer(k) = SubSeq(T, p + 1, e) /\ wire' = SubSeq(T, e + 1, Len(T))
        BY <1>0, <1>3, <2>0, <2>1, <2>t, ReadAt
    <2>5. WrittenTo(T, e, length)
        BY <1>0, <2>0, <2>3, <2>4, <2>t, WriteRight
    <2>6. HeadLength <= e
        BY <2>3, <2>4 DEF HeadLength
    <2> QED BY <1>0, <1>3, <2>t, <2>2, <2>3, <2>4, <2>5, <2>6, BodyKept
<1> QED BY <1>2, <1>3

(* of the header of an answer that is no 200,                              *)
LEMMA ReadOtherCodeRight ==
    ASSUME Types, Right, NEW k \in 1..Len(wire), ReadOtherCode(k)
    PROVE  Right'
<1>0. /\ Read(k) /\ content = FALSE /\ code = 0 /\ HttpCode(Buffer(k)) # 200 /\ how' = "error"
      /\ crashed' = crashed /\ how = "running" /\ crashed = FALSE
    BY DEF ReadOtherCode, Read, Running, Types, End
<1>1. CASE harmed' # 0
    BY <1>0, <1>1, ReadHarms
<1>2. CASE harmed' = 0
    <2>0. turn > 0 /\ harmed = 0 /\ offset = <<>> /\ form' = form /\ turn' = turn
        BY <1>0, <1>2, ReadFollows DEF Read
    <2>1. PICK p \in Nat : Answered(p)
        BY <1>0, <1>2, ReadFollows
    <2>2. p = 0
        BY <1>0, <2>1 DEF Answered, ParsedTo, InHeader, InBody
    <2> DEFINE T == Text(turn, form)
               e == p + k
    <2>t. T = Text(turn, form) /\ e = p + k
        OBVIOUS
    <2> HIDE DEF T, e
    <2>4. e \in Nat /\ p < e /\ Clean(T, e) /\ Buffer(k) = SubSeq(T, p + 1, e)
        BY <1>0, <1>2, <2>0, <2>1, <2>t, ReadAt
    <2>5. /\ T \in Seq(Token(turn)) /\ Len(T) >= HeadLength
          /\ IsHead(T, form.code, NameOf(form), ValueOf(form))
          /\ form.code \in Nat /\ NameOf(form) \in {"length", "other"} /\ ValueOf(form) \in Nat
        BY <2>0, <2>t, AnswerIs, HeadOf
    <2>6. HttpCode(Buffer(k)) = form.code
        <3> DEFINE a == form.code
                   n == NameOf(form)
                   v == ValueOf(form)
                   s == Buffer(k)
        <3>1. /\ IsHead(T, a, n, v) /\ a \in Nat /\ n \in {"length", "other"} /\ v \in Nat
              /\ T \in Seq(Token(turn)) /\ Len(T) >= HeadLength
              /\ p \in {0, 5, 12, 13} /\ e \in Nat /\ e > p /\ Clean(T, e) /\ s = SubSeq(T, p + 1, e)
              /\ (code = 0 <=> p = 0) /\ p = 0
            BY <1>0, <2>2, <2>4, <2>5
        <3> HIDE DEF a, n, v, s
        <3>2. HeadIsRead(T, p, e, s, code, a, n, v)
            BY ONLY <3>1, HeaderRead
        <3> QED BY <3>1, <3>2 DEF a, s, HeadIsRead
    <2>7. Following' /\ NotBegun' /\ Unsent' /\ Aborted' /\ OnlyLastLineLeft'
        BY <1>0 DEF Following, NotBegun, Unsent, Aborted, OnlyLastLineLeft, Running
    <2>8. Ended'
        BY <1>0, <2>0, <2>6 DEF Ended
    <2> QED BY <2>7, <2>8 DEF Right
<1> QED BY <1>1, <1>2
(* A read that ends in the header leaves the parser where it should be.    *)
HeaderAt(T, e) ==
    /\ wire' = SubSeq(T, e + 1, Len(T)) /\ code' = 200 /\ content' = FALSE
    /\ length' = IF e < 12 \/ form.chunked THEN NoLength ELSE form.size
    /\ contentwritten' = 0 /\ headerBuff' = <<>> /\ chunkLength' = NoChunk /\ chunkHeader' = <<>>
    /\ file' = <<>> /\ how' = how /\ crashed' = crashed

LEMMA HeaderKept ==
    ASSUME Types, Right, NEW k \in 1..Len(wire), Read(k), harmed' = 0,
           form # NoForm, form.code = 200, requestSended = TRUE,
           NEW T, T = Text(turn, form), NEW e \in {5, 12, 13}, e <= Len(T), HeaderAt(T, e)
    PROVE  Right'
<1>0. /\ turn > 0 /\ offset = <<>> /\ crashed = FALSE /\ how = "running"
      /\ turn' = turn /\ form' = form /\ requestSended' = TRUE /\ offset' = <<>> /\ heard' = heard
    BY ReadFollows DEF Read
<1>h. /\ wire' = SubSeq(T, e + 1, Len(T)) /\ code' = 200 /\ content' = FALSE
      /\ length' = IF e < 12 \/ form.chunked THEN NoLength ELSE form.size
      /\ contentwritten' = 0 /\ headerBuff' = <<>> /\ chunkLength' = NoChunk /\ chunkHeader' = <<>>
      /\ file' = <<>> /\ how' = how /\ crashed' = crashed
    BY DEF HeaderAt
<1>1. NotBegun' /\ Aborted' /\ Unsent' /\ Ended' /\ OnlyLastLineLeft'
    BY <1>0, <1>h DEF NotBegun, Aborted, Unsent, Ended, OnlyLastLineLeft
<1>2. InHeader(e)'
    BY <1>0, <1>h DEF InHeader
<1>3. ParsedTo(e)'
    BY <1>0, <1>h, <1>2 DEF ParsedTo
<1>4. e \in 0..Len(Text(turn', form')) /\ e \in Nat
    BY <1>0, AnswerIs
<1>5. Answered(e)'
    BY <1>0, <1>h, <1>3, <1>4 DEF Answered
<1>6. Following'
    BY <1>0, <1>h, <1>4, <1>5 DEF Following
<1> QED BY <1>1, <1>6 DEF Right

(* and of another header, with what comes with it of the body.             *)
LEMMA ReadHeaderRight ==
    ASSUME Types, Right, NEW k \in 1..Len(wire), ReadHeader(k)
    PROVE  Right'
<1> DEFINE s == Buffer(k)
           h == Header(s, HeaderStart(s, code))
           size == IF h.length = NoLength THEN length ELSE h.length
<1>0. /\ Read(k) /\ content = FALSE /\ how = "running" /\ crashed = FALSE
      /\ code = 200 \/ HttpCode(s) = 200
      /\ code' = 200 /\ length' = size /\ headerBuff' = IF headerBuff = <<>> THEN h.kept ELSE headerBuff
      /\ content' = (h.body > 0)
      /\ IF h.body > 0 /\ h.body <= k
         THEN Write(SubSeq(s, h.body, k), size)
         ELSE UNCHANGED <<how, contentwritten, chunkLength, chunkHeader, file, crashed>>
    BY DEF ReadHeader, Read, Running, Types
<1>h. h = Header(s, HeaderStart(s, code))
    OBVIOUS
<1>s. s = Buffer(k) /\ size = IF h.length = NoLength THEN length ELSE h.length
    OBVIOUS
<1> HIDE DEF s, h, size
<1>1. CASE harmed' # 0
    <2>1. crashed' = TRUE => how' = "running"
        BY <1>0 DEF Write
    <2>2. code' # 0
        BY <1>0
    <2> QED BY ONLY Types, Right, k \in 1..Len(wire), <1>0, <1>1, <2>1, <2>2, ReadHarms
<1>2. CASE harmed' = 0
    <2>0. turn > 0 /\ harmed = 0 /\ offset = <<>>
        BY <1>0, <1>2, ReadFollows
    <2>1. PICK p \in Nat : Answered(p)
        BY <1>0, <1>2, ReadFollows
    <2> DEFINE T == Text(turn, form)
               e == p + k
    <2>t. T = Text(turn, form) /\ e = p + k
        OBVIOUS
    <2> HIDE DEF T, e
    <2>2. /\ form # NoForm /\ requestSended = TRUE
          /\ (p = 0 /\ Fresh) \/ (form.code = 200 /\ InHeader(p))
        BY <1>0, <2>1 DEF Answered, ParsedTo, InBody
    <2>3. /\ p \in {0, 5, 12, 13} /\ (code = 0 <=> p = 0) /\ (p # 0 => form.code = 200)
          /\ length = (IF p <= 5 \/ form.chunked THEN NoLength ELSE form.size)
          /\ contentwritten = 0 /\ headerBuff = <<>> /\ chunkLength = NoChunk /\ chunkHeader = <<>> /\ file = <<>>
        <3>1. CASE p = 0 /\ Fresh
            BY <3>1 DEF Fresh
        <3>2. CASE form.code = 200 /\ InHeader(p)
            BY <3>2 DEF InHeader
        <3> QED BY <2>2, <3>1, <3>2
    <2>4. /\ e \in Nat /\ p < e /\ e <= Len(T) /\ Clean(T, e)
          /\ s = SubSeq(T, p + 1, e) /\ wire' = SubSeq(T, e + 1, Len(T))
        BY <1>0, <1>2, <1>s, <2>0, <2>1, <2>t, ReadAt
    <2>5. /\ T \in Seq(Token(turn)) /\ Len(T) \in Nat /\ Len(T) >= HeadLength /\ IsForm(form)
          /\ IsHead(T, form.code, NameOf(form), ValueOf(form))
          /\ form.code \in Nat /\ NameOf(form) \in {"length", "other"} /\ ValueOf(form) \in Nat
        BY <2>0, <2>t, AnswerIs, HeadOf
    <2> DEFINE a == form.code
               n == NameOf(form)
               v == ValueOf(form)
    <2>6. HeadIsRead(T, p, e, s, code, a, n, v)
        <3>1. /\ IsHead(T, a, n, v) /\ a \in Nat /\ n \in {"length", "other"} /\ v \in Nat
              /\ T \in Seq(Token(turn)) /\ Len(T) >= HeadLength
              /\ p \in {0, 5, 12, 13} /\ e \in Nat /\ e > p /\ Clean(T, e) /\ s = SubSeq(T, p + 1, e)
              /\ (code = 0 <=> p = 0)
            BY <2>3, <2>4, <2>5
        <3> HIDE DEF a, n, v
        <3> QED BY ONLY <3>1, HeaderRead
    <2>7. form.code = 200
        BY ONLY <1>0, <2>3, <2>6 DEF HeadIsRead
    <2>8. h = HeaderMade(p, e, n, v)
        BY ONLY <1>h, <2>6 DEF HeadIsRead
    <2>9. /\ h.body = (IF e >= 15 THEN 16 - p ELSE 0) /\ h.kept = <<>>
          /\ h.length = IF p <= 5 /\ e >= 12 /\ n = "length" THEN v ELSE NoLength
        BY ONLY <2>8 DEF HeaderMade, HeadLength
    <2>10. size = IF e < 12 \/ form.chunked THEN NoLength ELSE form.size
        <3>1. n = (IF form.chunked THEN "other" ELSE "length") /\ v = (IF form.chunked THEN 0 ELSE form.size)
            BY DEF NameOf, ValueOf
        <3>2. form.size # NoLength
            BY <2>5 DEF IsForm, NoLength
        <3>3. "other" # "length"
            OBVIOUS
        <3> HIDE DEF n, v
        <3>4. CASE form.chunked
            BY ONLY <1>s, <2>3, <2>9, <3>1, <3>3, <3>4
        <3>5. CASE ~form.chunked
            <4>1. p <= 5 \/ (p > 5 /\ e >= 12)
                BY ONLY <2>3, <2>4, p \in Nat
            <4> QED BY ONLY <1>s, <2>3, <2>4, <2>9, <3>1, <3>2, <3>5, <4>1, p \in Nat
        <3> QED BY <3>4, <3>5
    <2>11. headerBuff' = <<>> /\ content' = (h.body > 0)
        BY ONLY <1>0, <2>3, <2>9
    <2>12. HeadLength = 15 /\ p <= 13 /\ k \in Nat /\ e = p + k
        BY <2>3, <2>t DEF HeadLength
    <2>13. CASE e < 15
        <3>1. e \in {5, 12, 13}
            <4>1. e \in {0, 5, 12, 13} \/ e >= HeadLength
                BY <2>4, <2>5, HeadCuts
            <4> QED BY ONLY <2>4, <2>12, <2>13, <4>1, p \in Nat
        <3>2. h.body = 0 /\ ~(h.body > 0)
            BY ONLY <2>4, <2>9, <2>13
        <3>3. UNCHANGED <<how, contentwritten, chunkLength, chunkHeader, file, crashed>>
            BY ONLY <1>0, <3>2
        <3>6. content' = FALSE
            <4> DEFINE begun == h.body > 0
            <4>1. begun \in BOOLEAN /\ ~begun
                BY ONLY <3>2
            <4>2. content' = begun
                BY ONLY <2>11
            <4> HIDE DEF begun
            <4> QED BY ONLY <4>1, <4>2
        <3>4. length' = IF e < 12 \/ form.chunked THEN NoLength ELSE form.size
            BY ONLY <1>0, <2>10
        <3>5. /\ contentwritten' = 0 /\ chunkLength' = NoChunk /\ chunkHeader' = <<>> /\ file' = <<>>
              /\ how' = how /\ crashed' = crashed
            BY ONLY <2>3, <3>3
        <3>7. HeaderAt(T, e)
            BY ONLY <1>0, <2>4, <2>11, <3>4, <3>5, <3>6 DEF HeaderAt
        <3>8. Read(k) /\ form # NoForm /\ requestSended = TRUE /\ T = Text(turn, form) /\ e <= Len(T)
            BY ONLY <1>0, <2>t, <2>2, <2>4
        <3> QED BY ONLY Types, Right, k \in 1..Len(wire), <1>2, <2>7, <3>1, <3>7, <3>8, HeaderKept
    <2>14. CASE e >= 15
        <3>1. h.body = 16 - p /\ h.body > 0
            BY ONLY <2>4, <2>9, <2>12, <2>14, p \in Nat
        <3>2. content' = TRUE
            BY ONLY <2>11, <3>1
        <3>3. size = (IF form.chunked THEN NoLength ELSE form.size) /\ length' = size
            BY ONLY <1>0, <2>4, <2>10, <2>14
        <3>4. BodyAt(form, T, turn, HeadLength, file, size, contentwritten, chunkLength)
            BY ONLY <2>3, <2>5, <3>3, BodyBegins
        <3>5. WrittenTo(T, e, size)
            <4>1. CASE e = 15
                <5>1. ~(h.body <= k) /\ e = HeadLength
                    BY ONLY <2>12, <3>1, <4>1, p \in Nat
                <5>2. UNCHANGED <<how, contentwritten, chunkLength, chunkHeader, file, crashed>>
                    BY ONLY <1>0, <5>1
                <5> QED BY ONLY <2>3, <3>4, <5>1, <5>2 DEF WrittenTo
            <4>2. CASE e > 15
                <5> DEFINE i == 15 - p
                <5>1. /\ h.body <= k /\ h.body = i + 1 /\ i \in Nat /\ k \in Nat /\ i <= k /\ k <= e - p
                      /\ p <= e /\ p + i = 15 /\ p + k = e
                    BY ONLY <2>4, <2>12, <3>1, <4>2, p \in Nat
                <5> HIDE DEF i
                <5>2. SubSeq(s, i + 1, k) = SubSeq(T, (p + i) + 1, p + k)
                    BY ONLY <2>4, <2>5, <5>1, p \in Nat, PartOfPart
                <5>3. SubSeq(s, h.body, k) = SubSeq(T, HeadLength + 1, e)
                    BY ONLY <2>12, <5>1, <5>2
                <5>4. Write(SubSeq(T, HeadLength + 1, e), size)
                    BY ONLY <1>0, <3>1, <5>1, <5>3
                <5>5. HeadLength \in Nat /\ HeadLength <= HeadLength /\ HeadLength < e
                    BY ONLY <2>4, <2>12, <4>2
                <5> QED BY <1>0, <2>0, <2>t, <2>3, <2>4, <3>4, <5>4, <5>5, WriteRight
            <4> QED BY ONLY <2>4, <2>14, <4>1, <4>2
        <3>6. WrittenTo(T, e, length') /\ HeadLength <= e
            BY ONLY <2>4, <2>12, <2>14, <3>3, <3>5
        <3> QED BY <1>0, <1>2, <2>t, <2>2, <2>4, <2>7, <2>11, <3>2, <3>6, BodyKept
    <2> QED BY ONLY <2>4, <2>13, <2>14
<1> QED BY <1>1, <1>2
-----------------------------------------------------------------------------
(* The other steps.                                                        *)

(* What is parsed, and the place it is at, only the reads change.          *)
LEMMA ParseKept ==
    ASSUME UNCHANGED <<turn, form, parseVars>>
    PROVE  /\ Fresh => Fresh'
           /\ \A p \in Nat : ParsedTo(p) => ParsedTo(p)'
<1>1. /\ turn' = turn /\ form' = form /\ code' = code /\ length' = length /\ contentwritten' = contentwritten
      /\ content' = content /\ headerBuff' = headerBuff /\ chunkLength' = chunkLength
      /\ chunkHeader' = chunkHeader /\ file' = file
    BY DEF parseVars
<1>2. Fresh => Fresh'
    BY <1>1 DEF Fresh
<1>3. ASSUME NEW p \in Nat, ParsedTo(p)
      PROVE  ParsedTo(p)'
    <2>1. InHeader(p) => InHeader(p)'
        BY <1>1 DEF InHeader
    <2>2. InBody(p) => InBody(p)'
        BY <1>1 DEF InBody
    <2> QED BY <1>1, <1>2, <1>3, <2>1, <2>2 DEF ParsedTo
<1> QED BY <1>2, <1>3

(* The answer that comes to a request is read from its first token on.     *)
LEMMA AnswerComes ==
    ASSUME Types, turn > 0, Unheard, turn' = turn, UNCHANGED parseVars,
           form' \in Form \cup {Refusal}, wire' = wire \o Text(turn, form'), requestSended' = TRUE
    PROVE  Answered(0)'
<1>1. /\ turn \in Nat \ {0} /\ form' \in Form \cup {NoForm, Refusal}
    BY ExchangeAssumption DEF Types
<1>2. IsForm(form') /\ form' # NoForm
    <2>1. form'.code # 0
        BY ExchangeAssumption DEF Refusal
    <2> QED BY <1>1, <2>1, FormIs
<1> DEFINE f == form'
           T == Text(turn, f)
<1>t. T = Text(turn, form') /\ T = Text(turn, f) /\ f = form'
    OBVIOUS
<1>f. IsForm(f)
    BY <1>2
<1> HIDE DEF f, T
<1>3. T \in Seq(Token(turn)) /\ Len(T) \in Nat
    BY ONLY <1>1, <1>f, <1>t, TextIs
<1>4. wire' = T
    <2>1. wire' = <<>> \o T
        BY <1>t DEF Unheard
    <2> QED BY ONLY <1>3, <2>1
<1>5. SubSeq(T, 0 + 1, Len(T)) = T
    BY ONLY <1>3
<1>6. Fresh'
    BY DEF Unheard, Fresh, parseVars
<1>7. ParsedTo(0)'
    BY <1>6 DEF ParsedTo
<1>8. T = Text(turn', form')
    BY <1>t
<1>9. 0 \in 0..Len(T)
    BY ONLY <1>3
<1> QED BY <1>2, <1>4, <1>5, <1>7, <1>8, <1>9 DEF Answered

\* Where the steps of the request find the parser.
(* Before the request is written nothing of its answer is there.           *)
LEMMA SendingAt ==
    ASSUME Types, Right, Running, requestSended = FALSE, harmed = 0
    PROVE  Unheard
BY DEF Right, Following, Answered

(* A request that is not heard whole changes none of it,                   *)
LEMMA SendingRight ==
    ASSUME Types, Right, Sending, UNCHANGED <<form, wire>>, harmed' = harmed
    PROVE  Right'
<1>0. /\ Running /\ requestSended = FALSE /\ reading = FALSE /\ requestSended' = TRUE /\ turn' = turn /\ how' = how
      /\ UNCHANGED parseVars /\ offset' = offset /\ reading' = FALSE /\ harmed' = harmed /\ crashed' = crashed
      /\ form' = form /\ wire' = wire /\ code' = code /\ how = "running" /\ crashed = FALSE
    BY DEF Sending, callVars, Types, parseVars, Running
<1>1. Fresh => Fresh'
    BY <1>0, ParseKept
<1>2. Following'
    <2>1. harmed = 0 => Unheard
        BY <1>0, SendingAt
    <2> QED BY <1>0, <1>1, <2>1 DEF Following, Unheard
<1>3. NotBegun'
    BY <1>0, <1>1 DEF Right, NotBegun
<1>4. Unsent' /\ Aborted' /\ Ended' /\ OnlyLastLineLeft'
    BY <1>0 DEF Unsent, Aborted, Ended, OnlyLastLineLeft
<1> QED BY <1>2, <1>3, <1>4 DEF Right

(* one that is brings its answer,                                          *)
LEMMA SendWholeRight ==
    ASSUME Types, Right, SendWhole
    PROVE  Right'
<1>0. /\ Running /\ requestSended = FALSE /\ reading = FALSE /\ requestSended' = TRUE /\ turn' = turn /\ how' = how
      /\ UNCHANGED parseVars /\ offset' = offset /\ reading' = FALSE /\ harmed' = harmed /\ crashed' = crashed
      /\ code' = code /\ how = "running" /\ crashed = FALSE /\ turn > 0
    BY DEF SendWhole, Sending, callVars, Types, parseVars, Running
<1>1. Fresh => Fresh'
    <2>1. code' = code /\ length' = length /\ contentwritten' = contentwritten
      /\ content' = content /\ headerBuff' = headerBuff /\ chunkLength' = chunkLength
      /\ chunkHeader' = chunkHeader /\ file' = file
        BY <1>0 DEF parseVars
    <2> QED BY <2>1 DEF Fresh
<1>2. Following'
    <2>1. CASE harmed = 0
        <3>1. Unheard
            BY <1>0, <2>1, SendingAt
        <3>2. PICK f \in Form : form' = f /\ wire' = wire \o Text(turn, f)
            BY <3>1 DEF SendWhole, Unheard
        <3>3. Answered(0)'
            BY <1>0, <3>1, <3>2, AnswerComes
        <3> QED BY <1>0, <3>3 DEF Following
    <2>2. CASE harmed # 0
        BY <1>0, <2>2 DEF Following
    <2> QED BY <2>1, <2>2
<1>3. NotBegun'
    BY <1>0, <1>1 DEF Right, NotBegun
<1>4. Unsent' /\ Aborted' /\ Ended' /\ OnlyLastLineLeft'
    BY <1>0 DEF Unsent, Aborted, Ended, OnlyLastLineLeft
<1> QED BY <1>2, <1>3, <1>4 DEF Right

(* half a one a refusal: requestSended is set, so it is not written again. *)
LEMMA ImpatientRight ==
    ASSUME Types, Right, Impatient
    PROVE  Right'
<1>0. /\ Running /\ reading = FALSE /\ form = NoForm /\ form' = Refusal /\ wire' = wire \o Text(turn, Refusal)
      /\ turn' = turn /\ how' = how /\ requestSended' = requestSended /\ UNCHANGED parseVars
      /\ offset' = offset /\ reading' = FALSE /\ heard' = heard /\ harmed' = harmed /\ crashed' = crashed
      /\ code' = code /\ how = "running" /\ crashed = FALSE /\ turn > 0
    BY DEF Impatient, callVars, Types, parseVars, Running
<1>1. requestSended = TRUE
    <2>1. heard \in Seq(PartOf(turn)) /\ heard # <<>> /\ heard[Len(heard)] = Request(turn)[1]
        BY DEF Impatient, Types, Last
    <2>2. Len(heard) \in 1..Len(heard)
        BY <2>1
    <2>3. Request(turn)[1].of = turn
        BY DEF Request
    <2>4. turn \in Nat
        BY ExchangeAssumption DEF Types
    <2>5. ~(heard[Len(heard)].of < turn)
        BY <2>1, <2>3, <2>4
    <2> QED BY <1>0, <2>2, <2>5 DEF Right, Unsent, Types
<1>2. Fresh => Fresh'
    <2>1. code' = code /\ length' = length /\ contentwritten' = contentwritten
      /\ content' = content /\ headerBuff' = headerBuff /\ chunkLength' = chunkLength
      /\ chunkHeader' = chunkHeader /\ file' = file
        BY <1>0 DEF parseVars
    <2> QED BY <2>1 DEF Fresh
<1>3. Following'
    <2>1. CASE harmed = 0
        <3>1. Unheard
            BY <1>0, <2>1 DEF Right, Following, Answered
        <3>2. Answered(0)'
            BY <1>0, <1>1, <3>1, AnswerComes
        <3> QED BY <1>0, <3>2 DEF Following
    <2>2. CASE harmed # 0
        BY <1>0, <2>2 DEF Following
    <2> QED BY <2>1, <2>2
<1>4. NotBegun'
    BY <1>0, <1>2 DEF Right, NotBegun
<1>5. Unsent' /\ Aborted' /\ Ended' /\ OnlyLastLineLeft'
    BY <1>0, <1>1 DEF Unsent, Aborted, Ended, OnlyLastLineLeft
<1> QED BY <1>3, <1>4, <1>5 DEF Right

(* The start and the end of a call of readyToRead.                         *)
LEMMA CallRight ==
    ASSUME Types, Right, UNCHANGED <<turn, form, how, requestSended, parseVars, socketVars, harmed, crashed>>,
           reading' = TRUE => (reading = TRUE /\ offset' = offset) \/ offset' = headerBuff
    PROVE  Right'
<1>0. /\ turn' = turn /\ form' = form /\ how' = how /\ requestSended' = requestSended /\ code' = code
      /\ heard' = heard /\ wire' = wire /\ harmed' = harmed /\ crashed' = crashed /\ file' = file
    BY DEF socketVars, parseVars
<1>1. /\ Fresh => Fresh'
      /\ \A p \in Nat : ParsedTo(p) => ParsedTo(p)'
    BY ParseKept
<1>2. Following'
    <2>1. CASE ~(Running /\ harmed = 0)
        BY <1>0, <2>1 DEF Following, Running
    <2>2. CASE Running /\ harmed = 0
        <3>1. /\ reading = TRUE => offset = <<>>
              /\ Unheard \/ \E p \in Nat : Answered(p)
            BY <2>2 DEF Right, Following
        <3>2. CASE Unheard
            <4>1. Unheard'
                BY <1>0, <1>1, <3>2 DEF Unheard
            <4>2. headerBuff = <<>>
                BY <3>2 DEF Unheard, Fresh
            <4>3. reading' = TRUE => offset' = <<>>
                BY <3>1, <4>2
            <4> QED BY <4>1, <4>3 DEF Following
        <3>3. CASE \E p \in Nat : Answered(p)
            <4>1. PICK p \in Nat : Answered(p)
                BY <3>3
            <4>2. Answered(p)'
                BY <1>0, <1>1, <4>1 DEF Answered
            <4>3. headerBuff = <<>>
                BY <4>1 DEF Answered, ParsedTo, Fresh, InHeader, InBody
            <4>4. reading' = TRUE => offset' = <<>>
                BY <3>1, <4>3
            <4> QED BY <4>2, <4>4 DEF Following
        <3> QED BY <3>1, <3>2, <3>3
    <2> QED BY <2>1, <2>2
<1>3. NotBegun' /\ Unsent' /\ Aborted'
    BY <1>0, <1>1 DEF Right, NotBegun, Unsent, Aborted, Running
<1>4. Ended' /\ OnlyLastLineLeft'
    BY <1>0 DEF Right, Ended, OnlyLastLineLeft
<1> QED BY <1>2, <1>3, <1>4 DEF Right

(* The next download finds the wire empty or is harmed.                    *)
LEMMA StartRight ==
    ASSUME Types, Right, Start
    PROVE  Right'
<1>0. /\ how # "running" /\ turn' = turn + 1 /\ form' = NoForm /\ how' = "running" /\ requestSended' = FALSE
      /\ offset' = <<>> /\ wire' = wire /\ heard' = heard /\ crashed' = crashed
      /\ harmed' = IF wire = <<>> THEN 0 ELSE 1
    BY DEF Start, socketVars
<1>1. Fresh'
    BY DEF Start, NewParse, Fresh
<1>2. Following'
    BY <1>0, <1>1 DEF Following, Unheard
<1>3. Unsent'
    <2>1. ASSUME NEW i \in 1..Len(heard)
          PROVE  heard[i].of < turn + 1
        <3>1. heard \in Seq(PartOf(turn)) /\ turn \in Nat
            BY ExchangeAssumption DEF Types
        <3>2. heard[i] \in PartOf(turn)
            BY <3>1
        <3> QED BY ONLY <3>1, <3>2 DEF PartOf
    <2> QED BY <1>0, <2>1 DEF Unsent
<1>4. NotBegun' /\ Ended' /\ OnlyLastLineLeft'
    BY <1>0, <1>1 DEF NotBegun, Ended, OnlyLastLineLeft
<1>5. Aborted'
    BY <1>0 DEF Right, Aborted
<1> QED BY <1>2, <1>3, <1>4, <1>5 DEF Right

(* A connection that nobody uses,                                          *)
LEMMA ClosedIdleRight ==
    ASSUME Types, Right, ClosedIdle
    PROVE  Right'
<1>0. /\ how # "running" /\ how' = how /\ wire' = <<>> /\ turn' = turn /\ form' = form /\ file' = file
      /\ harmed' = harmed /\ crashed' = crashed
    BY DEF ClosedIdle, NewConnection, parseVars
<1>1. Following' /\ NotBegun' /\ Unsent'
    BY <1>0 DEF Following, NotBegun, Unsent, Running
<1>2. Aborted' /\ Ended'
    BY <1>0 DEF Right, Aborted, Ended
<1>3. OnlyLastLineLeft'
    BY <1>0 DEF OnlyLastLineLeft
<1> QED BY <1>1, <1>2, <1>3 DEF Right

(* or whose download has no status yet, ends and harms nobody.             *)
LEMMA ClosedBusyRight ==
    ASSUME Types, Right, ClosedBusy
    PROVE  Right'
<1>0. /\ Running /\ reading' = FALSE /\ requestSended' = FALSE /\ turn' = turn /\ how' = how /\ crashed' = crashed
      /\ harmed' = (IF code = 0 THEN 0 ELSE Max({harmed, 1})) /\ form' = (IF code = 0 THEN NoForm ELSE form)
      /\ wire' = <<>> /\ heard' = <<>> /\ code' = code /\ how = "running" /\ crashed = FALSE
    BY DEF ClosedBusy, NewConnection, parseVars, callVars, Running, Types
<1>1. Fresh => Fresh'
    <2>1. code' = code /\ length' = length /\ contentwritten' = contentwritten
      /\ content' = content /\ headerBuff' = headerBuff /\ chunkLength' = chunkLength
      /\ chunkHeader' = chunkHeader /\ file' = file
        BY DEF ClosedBusy, parseVars
    <2> QED BY <2>1 DEF Fresh
<1>2. NotBegun'
    BY <1>0, <1>1 DEF Right, NotBegun
<1>3. Following'
    <2>1. CASE code = 0
        <3>1. Fresh'
            BY <1>0, <1>1, <2>1 DEF Right, NotBegun
        <3> QED BY <1>0, <2>1, <3>1 DEF Following, Unheard
    <2>2. CASE code # 0
        <3>1. harmed' # 0
            BY <1>0, <2>2, MaxIs DEF Types
        <3> QED BY <3>1 DEF Following
    <2> QED BY <2>1, <2>2
<1>4. Unsent' /\ Aborted' /\ Ended' /\ OnlyLastLineLeft'
    BY <1>0 DEF Unsent, Aborted, Ended, OnlyLastLineLeft
<1> QED BY <1>2, <1>3, <1>4 DEF Right

(* A timeout and a restart leave nothing to keep.                          *)
LEMMA EndedRight ==
    ASSUME how' \in {"timeout", "crash"}, crashed' = FALSE
    PROVE  Right'
BY DEF Right, Following, NotBegun, Unsent, Aborted, Ended, OnlyLastLineLeft, Running
(* What each step keeps, from the values that Typed gives the variables.   *)
LEMMA RightKept ==
    ASSUME Types, Right, [Next]_vars
    PROVE  Right'
<1>1. CASE SendPart \/ SendBehind \/ SendFails
    <2>1. Sending /\ UNCHANGED <<form, wire>> /\ harmed' = harmed
        BY <1>1 DEF SendPart, SendBehind, SendFails, Sending, socketVars
    <2> QED BY <2>1, SendingRight
<1>2. CASE ReadyToRead
    <2>1. /\ UNCHANGED <<turn, form, how, requestSended, parseVars, socketVars, harmed, crashed>>
          /\ offset' = headerBuff
        BY <1>2 DEF ReadyToRead
    <2> QED BY <2>1, CallRight
<1>3. CASE SocketEmpty
    <2>1. /\ UNCHANGED <<turn, form, how, requestSended, parseVars, socketVars, harmed, crashed>>
          /\ reading' = FALSE
        BY <1>3 DEF SocketEmpty
    <2> QED BY <2>1, CallRight
<1>4. ASSUME NEW k \in 1..Len(wire), ReadContent(k) \/ ReadOtherCode(k) \/ ReadHeader(k)
      PROVE  Right'
    BY <1>4, ReadContentRight, ReadOtherCodeRight, ReadHeaderRight
<1>5. CASE Timeout \/ Restart
    <2>1. how' \in {"timeout", "crash"} /\ crashed' = FALSE
        BY <1>5 DEF Timeout, Restart, End, Running, Types
    <2> QED BY <2>1, EndedRight
<1>6. CASE UNCHANGED vars
    <2>1. /\ UNCHANGED <<turn, form, how, requestSended, parseVars, socketVars, harmed, crashed>>
          /\ reading' = reading /\ offset' = offset
        BY <1>6 DEF vars, callVars
    <2> QED BY <2>1, CallRight
<1> QED BY <1>1, <1>2, <1>3, <1>4, <1>5, <1>6, StartRight, SendWholeRight, ImpatientRight,
           ClosedIdleRight, ClosedBusyRight DEF Next

(* The parser follows the answer as long as the network cuts it where it   *)
(* does no harm: what is parsed is what stands for the tokens that are     *)
(* read, and the rest of the answer is on the wire.                        *)
THEOREM Followed == Spec => []Right
<1>1. Init => Right
    BY DEF Init, Right, Following, NotBegun, Unsent, Aborted, Ended, OnlyLastLineLeft, Running
<1>2. Types /\ Right /\ [Next]_vars => Right'
    BY RightKept
<1> QED BY <1>1, <1>2, Typed, PTL DEF Spec

(* However the network cuts an answer, outside the places marked joined,   *)
(* Http::readyToRead and Http::write make of it what they should: the file *)
(* of a download that ends well is the body of the answer to its request,  *)
(* and only another status than 200 is an error.                           *)
THEOREM Understood == Spec => []AnswerUnderstood
<1>1. Right => AnswerUnderstood
    BY DEF Right, Ended, AnswerUnderstood
<1> QED BY <1>1, Followed, PTL

(* All of the answer is read: then there is no place in it the parser can  *)
(* be at.                                                                  *)
LEMMA AllRead ==
    ASSUME Types, turn > 0, NEW p \in Nat, Answered(p), wire = <<>>, form.size > 0
    PROVE  FALSE
<1> DEFINE T == Text(turn, form)
<1>t. T = Text(turn, form)
    OBVIOUS
<1> HIDE DEF T
<1>0. /\ turn \in Nat \ {0} /\ IsForm(form) /\ T \in Seq(Token(turn)) /\ Len(T) \in Nat /\ Len(T) >= HeadLength
      /\ form.chunked => InChunkText(form, T, turn)
    BY <1>t, AnswerIs
<1>1. /\ p \in 0..Len(T) /\ wire = SubSeq(T, p + 1, Len(T)) /\ ParsedTo(p)
    BY <1>t DEF Answered
<1>2. HeadLength = 15
    BY DEF HeadLength
<1>3. p = Len(T)
    <2>1. Len(wire) = Len(T) - p
        BY ONLY <1>0, <1>1, p \in Nat, PartIs
    <2>2. Len(wire) = 0
        OBVIOUS
    <2> QED BY ONLY <1>0, <2>1, <2>2, p \in Nat
<1>4. BodyAt(form, T, turn, p, file, length, contentwritten, chunkLength)
    <2>1. p >= 15
        BY ONLY <1>0, <1>2, <1>3
    <2>2. InBody(p)
        BY <1>1, <2>1 DEF ParsedTo, InHeader
    <2> QED BY <1>t, <2>2 DEF InBody
<1>5. CASE form.chunked
    <2>1. ASSUME NEW q, NEW b, NEW n, IsChunk(form, q, b, n)
          PROVE  q \in Nat /\ n \in Nat /\ q + 5 + n <= Len(T)
        BY <1>0, <1>5, <2>1, NextChunk DEF InChunkText, ChunkLies
    <2>2. ChunksAt(form, T, p, Len(file), chunkLength)
        BY <1>4, <1>5 DEF BodyAt
    <2>3. CASE Between(form, T, p, Len(file))
        <3>1. PICK q, n : IsChunk(form, q, Len(file), n) /\ p \in HeadLength..q
            BY <2>3 DEF Between
        <3>2. q \in Nat /\ n \in Nat /\ q + 5 + n <= Len(T)
            BY ONLY <2>1, <3>1
        <3>3. p <= q
            BY ONLY <1>2, <3>1, <3>2
        <3> QED BY ONLY <1>0, <1>3, <3>2, <3>3
    <2>4. CASE Opened(form, p, Len(file), chunkLength)
        <3>1. PICK q : IsChunk(form, q, Len(file), chunkLength) /\ p = q + 3
            BY <2>4 DEF Opened
        <3>2. q \in Nat /\ chunkLength \in Nat /\ q + 5 + chunkLength <= Len(T)
            BY ONLY <2>1, <3>1
        <3> QED BY ONLY <1>0, <1>3, <3>1, <3>2
    <2> QED BY ONLY <2>2, <2>3, <2>4 DEF ChunksAt
<1>6. CASE ~form.chunked
    <2>1. p = 15 + Len(file) /\ (Len(file) < form.size \/ form.size = 0)
        BY ONLY <1>2, <1>4, <1>6 DEF BodyAt, LengthAt
    <2>2. Len(T) = HeadLength + form.size
        BY ONLY <1>0, <1>6, <1>t, TextIs
    <2>3. form.size \in Nat /\ Len(file) \in Nat
        BY <1>0 DEF IsForm, Types
    <2> DEFINE n == form.size
               m == Len(file)
               e == Len(T)
    <2>4. n \in Nat /\ m \in Nat /\ n > 0 /\ e = 15 + n /\ e = 15 + m /\ (m < n \/ n = 0)
        BY ONLY <1>2, <1>3, <2>1, <2>2, <2>3, form.size > 0
    <2> HIDE DEF n, m, e
    <2> QED BY ONLY <2>4
<1> QED BY <1>5, <1>6

(* A download that has read all of its answer does not wait for more:      *)
(* nobody would wake it.                                                   *)
THEOREM NothingMoreComes == Spec => []NothingToWaitFor
<1>1. Types /\ Right => NothingToWaitFor
    <2> SUFFICES ASSUME Types, Right, Running, harmed = 0, form.size > 0, wire = <<>>, requestSended = TRUE
                 PROVE  FALSE
        BY DEF NothingToWaitFor, Types
    <2>1. turn > 0
        BY DEF Types, Running
    <2>2. ~Unheard
        BY DEF Unheard, NoForm
    <2>3. PICK p \in Nat : Answered(p)
        BY <2>2 DEF Right, Following
    <2> QED BY <2>1, <2>3, AllRead
<1> QED BY <1>1, Followed, Typed, PTL

(* The text a download leaves on its connection is at most the end of its  *)
(* last chunk: Http::write does not read it, and the next download does.   *)
THEOREM LastLineOnly == Spec => []OnlyLastLineLeft
<1>1. Right => OnlyLastLineLeft
    BY DEF Right
<1> QED BY <1>1, Followed, PTL

(* The assertion of Http::write fails for no download whose reads are cut  *)
(* where it does no harm.                                                  *)
THEOREM AbortsNeedCut == Spec => []AbortNeedsCut
<1>1. Types /\ Right => AbortNeedsCut
    BY DEF Types, Right, Aborted, AbortNeedsCut
<1> QED BY <1>1, Followed, Typed, PTL
=============================================================================
