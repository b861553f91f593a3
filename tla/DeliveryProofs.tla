--------------------------- MODULE DeliveryProofs ---------------------------
(***************************************************************************)
(* What holds of a download for every number of clients: the types, and    *)
(* that clientsList and the clients agree between handlers (ListAgrees).   *)
(*                                                                         *)
(* Inside of a handler they need not agree: a loop may pass over a client, *)
(* and clear() then takes it out of the list though it still has the       *)
(* download.  ClearedIsAsserted says that disconnectFrontend always goes   *)
(* on to look for such a client: the process ends, not the agreement.      *)
(***************************************************************************)
EXTENDS Delivery, SequenceTheorems, TLAPS

Steps == Loops \cup {"clear", "assert", "temp", "count", "backend"}

\* What each list of steps that is left of a handler is like.
StepsLeft(t) ==
    /\ t \in Seq(Steps)
    /\ \A i \in 1..Len(t) :
        /\ t[i] = "clear" => \E j \in 1..Len(t) : j > i /\ t[j] = "assert"
        /\ t[i] = "count" => i = Len(t)
        /\ t[i] \in {"start", "wake", "error", "cached"} => i = 1
        /\ t[i] = "start" => Len(t) = 1
        /\ t[i] = "wake" => Len(t) = 2 /\ t[2] = "count"
        /\ t[i] = "cached" => Len(t) > 1 /\ t[2] = "backend"

\* What a file holds, and what is sent besides the end.
Content == Seq(Raw..Blocks)
Waiting == Seq(Failure..Blocks)

ClientType == [open : BOOLEAN, linked : BOOLEAN, reading : BOOLEAN, pos : Nat, got : Seq(Block)]

\* TypeOK, and in the file no page of an error and no end of a request.
Types ==
    /\ client \in [Client -> ClientType]
    /\ clientsList \in Seq(Client) /\ stale \in Seq(Client) /\ visited \in Nat
    /\ StepsLeft(todo)
    /\ phase \in {"none", "request", "header", "body", "discard"}
    /\ file \in Content /\ final \in Content
    /\ written \in 0..Blocks
    /\ conn \in {"none", "pending", "held", "dead"}
    /\ answered \in BOOLEAN /\ flowing \in BOOLEAN /\ next \in 0..(Blocks + 1)
    /\ crashed \in {"no", "temp", "disconnectFrontend", "disconnectBackend", "checkBackend"}

\* A download that has all its blocks is on its way to disconnectBackend.
FullEnds ==
    written = Blocks /\ crashed = "no" => todo # <<>> /\ todo[Len(todo)] = "backend"

\* What is in the list has the download, and is there once.
ListLinked == \A i \in 1..Len(clientsList) : client[clientsList[i]].linked

ListOnce == \A i, j \in 1..Len(clientsList) : clientsList[i] = clientsList[j] => i = j

LinkedOpen == \A c \in Client : client[c].linked => client[c].open /\ phase # "none"

AllListed == \A c \in Client : client[c].linked => Occurs(c) # {}

\* A client that has the download and is not in the list is found before the
\* handler ends.
ClearedIsAsserted ==
    crashed = "no" => AllListed \/ \E i \in 1..Len(todo) : todo[i] = "assert"

IInv == Types /\ FullEnds /\ ListLinked /\ ListOnce /\ LinkedOpen /\ ClearedIsAsserted

-----------------------------------------------------------------------------
(* Lists of steps.                                                         *)

(* What is left after the first step.                                      *)
LEMMA TailLeft ==
    ASSUME NEW t, StepsLeft(t), t # <<>>
    PROVE  /\ StepsLeft(Tail(t))
           /\ Len(Tail(t)) = Len(t) - 1 /\ Len(t) \in Nat /\ Len(t) > 0
           /\ \A i \in 1..Len(Tail(t)) : Tail(t)[i] = t[i + 1]
           /\ \A i \in 1..Len(Tail(t)) : Tail(t)[i] \notin {"start", "wake", "error", "cached"}
<1>1. /\ t \in Seq(Steps) /\ Len(t) \in Nat /\ Len(t) > 0 /\ Tail(t) \in Seq(Steps)
      /\ Len(Tail(t)) = Len(t) - 1 /\ \A i \in 1..Len(Tail(t)) : Tail(t)[i] = t[i + 1]
    BY DEF StepsLeft
<1>2. \A k \in 1..Len(t) :
        /\ t[k] = "clear" => \E j \in 1..Len(t) : j > k /\ t[j] = "assert"
        /\ t[k] = "count" => k = Len(t)
        /\ t[k] \in {"start", "wake", "error", "cached"} => k = 1
    BY DEF StepsLeft
<1> DEFINE u == Tail(t)
           n == Len(t)
<1>3. n \in Nat /\ n > 0 /\ Len(u) = n - 1 /\ \A i \in 1..(n - 1) : u[i] = t[i + 1]
    BY <1>1
<1> HIDE DEF u, n
<1>4. ASSUME NEW i \in 1..(n - 1)
      PROVE  /\ u[i] = "clear" => \E j \in 1..(n - 1) : j > i /\ u[j] = "assert"
             /\ u[i] = "count" => i = n - 1
             /\ u[i] \notin {"start", "wake", "error", "cached"}
    <2>1. i + 1 \in 1..n /\ i + 1 # 1 /\ u[i] = t[i + 1]
        BY <1>3
    <2>2. u[i] \notin {"start", "wake", "error", "cached"}
        BY <1>2, <2>1 DEF n
    <2>3. u[i] = "count" => i = n - 1
        BY <1>2, <1>3, <2>1 DEF n
    <2>4. ASSUME u[i] = "clear"
          PROVE  \E j \in 1..(n - 1) : j > i /\ u[j] = "assert"
        <3>1. PICK j \in 1..n : j > i + 1 /\ t[j] = "assert"
            BY <1>2, <2>1, <2>4 DEF n
        <3>2. j - 1 \in 1..(n - 1) /\ j - 1 > i /\ u[j - 1] = t[j]
            BY <1>3, <3>1
        <3> QED BY <3>1, <3>2
    <2> QED BY <2>2, <2>3, <2>4
<1>5. StepsLeft(u)
    <2>1. u \in Seq(Steps)
        BY <1>1 DEF u
    <2> QED BY <1>3, <1>4, <2>1 DEF StepsLeft
<1> QED BY <1>1, <1>3, <1>4, <1>5 DEF u

(* What is written behind a list of steps.                                 *)
LEMMA StepsBehind ==
    ASSUME NEW s \in Seq(Steps), NEW t \in Seq(Steps)
    PROVE  /\ s \o t \in Seq(Steps) /\ Len(s \o t) = Len(s) + Len(t)
           /\ \A i \in 1..(Len(s) + Len(t)) : (s \o t)[i] = IF i <= Len(s) THEN s[i] ELSE t[i - Len(s)]
BY ConcatProperties

\* Two lists of steps that agree at every place are equal.
LEMMA SameSteps ==
    ASSUME NEW s \in Seq(Steps), NEW t \in Seq(Steps), Len(s) = Len(t),
           \A i \in 1..Len(s) : s[i] = t[i]
    PROVE  s = t
BY SeqEqual

(* The handlers.                                                           *)
LEMMA FrontendBehind ==
    ASSUME NEW s \in Seq(Steps)
    PROVE  /\ s \o DisconnectFrontend \in Seq(Steps) /\ Len(s \o DisconnectFrontend) = Len(s) + 3
           /\ \A i \in 1..Len(s) : (s \o DisconnectFrontend)[i] = s[i]
           /\ (s \o DisconnectFrontend)[Len(s) + 1] = "end"
           /\ (s \o DisconnectFrontend)[Len(s) + 2] = "clear"
           /\ (s \o DisconnectFrontend)[Len(s) + 3] = "assert"
<1> DEFINE F == DisconnectFrontend
           k == Len(s)
           u == s \o F
<1>1. F \in Seq(Steps) /\ Len(F) = 3 /\ F[1] = "end" /\ F[2] = "clear" /\ F[3] = "assert"
    BY DEF DisconnectFrontend, Steps, Loops
<1>2. F \in Seq(Steps) /\ Len(F) = 3
    BY <1>1
<1> HIDE DEF F
<1>3. /\ k \in Nat /\ u \in Seq(Steps) /\ Len(u) = k + Len(F)
      /\ \A i \in 1..(k + Len(F)) : u[i] = IF i <= k THEN s[i] ELSE F[i - k]
    <2>1. k \in Nat
        OBVIOUS
    <2>2. /\ u \in Seq(Steps) /\ Len(u) = k + Len(F)
          /\ \A i \in 1..(k + Len(F)) : u[i] = IF i <= k THEN s[i] ELSE F[i - k]
        BY <1>2, StepsBehind, Zenon
    <2> QED BY <2>1, <2>2
<1> HIDE DEF u, k
<1>4. ASSUME NEW j \in 1..3
      PROVE  u[k + j] = F[j]
    <2>1. k + j \in 1..(k + 3) /\ ~(k + j <= k) /\ (k + j) - k = j
        BY <1>2, <1>3
    <2> QED BY <1>2, <1>3, <2>1
<1>5. u[k + 1] = F[1] /\ u[k + 2] = F[2] /\ u[k + 3] = F[3]
    BY <1>4
<1>6. \A i \in 1..k : u[i] = s[i]
    <2> TAKE i \in 1..k
    <2>1. i \in 1..(k + 3) /\ i <= k
        BY <1>2, <1>3
    <2> QED BY <1>2, <1>3, <2>1
<1> QED BY <1>1, <1>2, <1>3, <1>5, <1>6 DEF F, k, u

\* disconnectBackend behind a list of steps.
LEMMA BackendBehind ==
    ASSUME NEW s \in Seq(Steps)
    PROVE  /\ s \o <<"backend">> \in Seq(Steps) /\ Len(s \o <<"backend">>) = Len(s) + 1
           /\ \A i \in 1..Len(s) : (s \o <<"backend">>)[i] = s[i]
           /\ (s \o <<"backend">>)[Len(s) + 1] = "backend"
<1> DEFINE B == <<"backend">>
           k == Len(s)
           u == s \o B
<1>1. B \in Seq(Steps) /\ Len(B) = 1 /\ B[1] = "backend"
    BY DEF Steps
<1>2. /\ k \in Nat /\ u \in Seq(Steps) /\ Len(u) = k + 1
      /\ \A i \in 1..(k + 1) : u[i] = IF i <= k THEN s[i] ELSE B[i - k]
    BY <1>1, StepsBehind
<1> HIDE DEF B, u, k
<1>3. k + 1 \in 1..(k + 1) /\ ~(k + 1 <= k) /\ (k + 1) - k = 1
    BY <1>2
<1>4. u[k + 1] = B[1]
    BY <1>2, <1>3
<1>5. \A i \in 1..k : u[i] = s[i]
    <2> TAKE i \in 1..k
    <2>1. i \in 1..(k + 1) /\ i <= k
        BY <1>2
    <2> QED BY <1>2, <2>1
<1> QED BY <1>1, <1>2, <1>4, <1>5 DEF B, k, u

\* The list that disconnectFrontend makes, written out.
LEMMA FrontendIs ==
    ASSUME NEW s \in Seq(Steps), NEW t \in Seq(Steps), Len(t) = Len(s) + 3,
           \A i \in 1..Len(s) : t[i] = s[i],
           t[Len(s) + 1] = "end", t[Len(s) + 2] = "clear", t[Len(s) + 3] = "assert"
    PROVE  s \o DisconnectFrontend = t
<1> DEFINE u == s \o DisconnectFrontend
           k == Len(s)
<1>1. /\ u \in Seq(Steps) /\ Len(u) = k + 3 /\ \A i \in 1..k : u[i] = s[i]
      /\ u[k + 1] = "end" /\ u[k + 2] = "clear" /\ u[k + 3] = "assert" /\ k \in Nat
    BY FrontendBehind
<1> HIDE DEF u
<1>2. ASSUME NEW i \in 1..Len(u)
      PROVE  u[i] = t[i]
    <2>1. i \in 1..k \/ i = k + 1 \/ i = k + 2 \/ i = k + 3
        BY <1>1
    <2> QED BY <1>1, <2>1
<1> QED BY <1>1, <1>2, SameSteps DEF u

\* The list that disconnectBackend makes, written out.
LEMMA BackendIs ==
    ASSUME NEW s \in Seq(Steps), NEW t \in Seq(Steps), Len(t) = Len(s) + 1,
           \A i \in 1..Len(s) : t[i] = s[i], t[Len(s) + 1] = "backend"
    PROVE  s \o <<"backend">> = t
<1> DEFINE u == s \o <<"backend">>
           k == Len(s)
<1>1. /\ u \in Seq(Steps) /\ Len(u) = k + 1 /\ \A i \in 1..k : u[i] = s[i]
      /\ u[k + 1] = "backend" /\ k \in Nat
    BY BackendBehind
<1> HIDE DEF u
<1>2. ASSUME NEW i \in 1..Len(u)
      PROVE  u[i] = t[i]
    <2>1. i \in 1..k \/ i = k + 1
        BY <1>1
    <2> QED BY <1>1, <2>1
<1> QED BY <1>1, <1>2, SameSteps DEF u

\* The handlers, each written out as the list of its steps.
LEMMA Handlers ==
    /\ DisconnectFrontend \o <<"backend">> = <<"end", "clear", "assert", "backend">>
    /\ <<"error">> \o DisconnectFrontend = <<"error", "end", "clear", "assert">>
    /\ <<"error">> \o DisconnectFrontend \o <<"backend">> = <<"error", "end", "clear", "assert", "backend">>
    /\ <<"error", "clear", "backend">> \o DisconnectFrontend = <<"error", "clear", "backend", "end", "clear", "assert">>
    /\ <<"cached", "backend">> \o DisconnectFrontend = <<"cached", "backend", "end", "clear", "assert">>
    /\ <<>> \o <<"backend">> \o DisconnectFrontend = <<"backend", "end", "clear", "assert">>
    /\ <<"error", "clear">> \o <<"backend">> \o DisconnectFrontend = <<"error", "clear", "backend", "end", "clear", "assert">>
    /\ BackendError = <<"error", "clear", "temp", "end", "clear", "assert", "backend">>
<1>1. <<"end", "clear", "assert">> \o <<"backend">> = <<"end", "clear", "assert", "backend">>
    <2> DEFINE s == <<"end", "clear", "assert">>
               t == <<"end", "clear", "assert", "backend">>
    <2>1. /\ s \in Seq(Steps) /\ Len(s) = 3 /\ t \in Seq(Steps) /\ Len(t) = 4
          /\ s[1] = "end" /\ s[2] = "clear" /\ s[3] = "assert"
        BY DEF Steps, Loops
    <2>2. t[1] = "end" /\ t[2] = "clear" /\ t[3] = "assert" /\ t[4] = "backend"
        OBVIOUS
    <2> HIDE DEF s, t
    <2>3. Len(t) = Len(s) + 1 /\ t[Len(s) + 1] = "backend" /\ \A i \in 1..Len(s) : t[i] = s[i]
        BY <2>1, <2>2
    <2>4. s \o <<"backend">> = t
        BY <2>1, <2>3, BackendIs, Zenon
    <2> QED BY <2>4 DEF s, t
<1>2. <<"error">> \o DisconnectFrontend = <<"error", "end", "clear", "assert">>
    <2> DEFINE s == <<"error">>
               t == <<"error", "end", "clear", "assert">>
    <2>1. /\ s \in Seq(Steps) /\ Len(s) = 1 /\ t \in Seq(Steps) /\ Len(t) = 4
          /\ s[1] = "error"
        BY DEF Steps, Loops
    <2>2. t[1] = "error" /\ t[2] = "end" /\ t[3] = "clear" /\ t[4] = "assert"
        OBVIOUS
    <2> HIDE DEF s, t
    <2>3. /\ Len(t) = Len(s) + 3 /\ \A i \in 1..Len(s) : t[i] = s[i]
          /\ t[Len(s) + 1] = "end" /\ t[Len(s) + 2] = "clear" /\ t[Len(s) + 3] = "assert"
        BY <2>1, <2>2
    <2>4. s \o DisconnectFrontend = t
        BY <2>1, <2>3, FrontendIs, Zenon
    <2> QED BY <2>4 DEF s, t
<1>3. <<"error", "end", "clear", "assert">> \o <<"backend">> = <<"error", "end", "clear", "assert", "backend">>
    <2> DEFINE s == <<"error", "end", "clear", "assert">>
               t == <<"error", "end", "clear", "assert", "backend">>
    <2>1. /\ s \in Seq(Steps) /\ Len(s) = 4 /\ t \in Seq(Steps) /\ Len(t) = 5
          /\ s[1] = "error" /\ s[2] = "end" /\ s[3] = "clear" /\ s[4] = "assert"
        BY DEF Steps, Loops
    <2>2. t[1] = "error" /\ t[2] = "end" /\ t[3] = "clear" /\ t[4] = "assert" /\ t[5] = "backend"
        OBVIOUS
    <2> HIDE DEF s, t
    <2>3. Len(t) = Len(s) + 1 /\ t[Len(s) + 1] = "backend" /\ \A i \in 1..Len(s) : t[i] = s[i]
        BY <2>1, <2>2
    <2>4. s \o <<"backend">> = t
        BY <2>1, <2>3, BackendIs, Zenon
    <2> QED BY <2>4 DEF s, t
<1>4. <<"error", "clear", "backend">> \o DisconnectFrontend = <<"error", "clear", "backend", "end", "clear", "assert">>
    <2> DEFINE s == <<"error", "clear", "backend">>
               t == <<"error", "clear", "backend", "end", "clear", "assert">>
    <2>1. /\ s \in Seq(Steps) /\ Len(s) = 3 /\ t \in Seq(Steps) /\ Len(t) = 6
          /\ s[1] = "error" /\ s[2] = "clear" /\ s[3] = "backend"
        BY DEF Steps, Loops
    <2>2. t[1] = "error" /\ t[2] = "clear" /\ t[3] = "backend" /\ t[4] = "end" /\ t[5] = "clear" /\ t[6] = "assert"
        OBVIOUS
    <2> HIDE DEF s, t
    <2>3. /\ Len(t) = Len(s) + 3 /\ \A i \in 1..Len(s) : t[i] = s[i]
          /\ t[Len(s) + 1] = "end" /\ t[Len(s) + 2] = "clear" /\ t[Len(s) + 3] = "assert"
        BY <2>1, <2>2
    <2>4. s \o DisconnectFrontend = t
        BY <2>1, <2>3, FrontendIs, Zenon
    <2> QED BY <2>4 DEF s, t
<1>5. <<"cached", "backend">> \o DisconnectFrontend = <<"cached", "backend", "end", "clear", "assert">>
    <2> DEFINE s == <<"cached", "backend">>
               t == <<"cached", "backend", "end", "clear", "assert">>
    <2>1. /\ s \in Seq(Steps) /\ Len(s) = 2 /\ t \in Seq(Steps) /\ Len(t) = 5
          /\ s[1] = "cached" /\ s[2] = "backend"
        BY DEF Steps, Loops
    <2>2. t[1] = "cached" /\ t[2] = "backend" /\ t[3] = "end" /\ t[4] = "clear" /\ t[5] = "assert"
        OBVIOUS
    <2> HIDE DEF s, t
    <2>3. /\ Len(t) = Len(s) + 3 /\ \A i \in 1..Len(s) : t[i] = s[i]
          /\ t[Len(s) + 1] = "end" /\ t[Len(s) + 2] = "clear" /\ t[Len(s) + 3] = "assert"
        BY <2>1, <2>2
    <2>4. s \o DisconnectFrontend = t
        BY <2>1, <2>3, FrontendIs, Zenon
    <2> QED BY <2>4 DEF s, t
<1>6. <<"error", "clear", "temp">> \o DisconnectFrontend = <<"error", "clear", "temp", "end", "clear", "assert">>
    <2> DEFINE s == <<"error", "clear", "temp">>
               t == <<"error", "clear", "temp", "end", "clear", "assert">>
    <2>1. /\ s \in Seq(Steps) /\ Len(s) = 3 /\ t \in Seq(Steps) /\ Len(t) = 6
          /\ s[1] = "error" /\ s[2] = "clear" /\ s[3] = "temp"
        BY DEF Steps, Loops
    <2>2. t[1] = "error" /\ t[2] = "clear" /\ t[3] = "temp" /\ t[4] = "end" /\ t[5] = "clear" /\ t[6] = "assert"
        OBVIOUS
    <2> HIDE DEF s, t
    <2>3. /\ Len(t) = Len(s) + 3 /\ \A i \in 1..Len(s) : t[i] = s[i]
          /\ t[Len(s) + 1] = "end" /\ t[Len(s) + 2] = "clear" /\ t[Len(s) + 3] = "assert"
        BY <2>1, <2>2
    <2>4. s \o DisconnectFrontend = t
        BY <2>1, <2>3, FrontendIs, Zenon
    <2> QED BY <2>4 DEF s, t
<1>7. <<"error", "clear", "temp", "end", "clear", "assert">> \o <<"backend">> = <<"error", "clear", "temp", "end", "clear", "assert", "backend">>
    <2> DEFINE s == <<"error", "clear", "temp", "end", "clear", "assert">>
               t == <<"error", "clear", "temp", "end", "clear", "assert", "backend">>
    <2>1. /\ s \in Seq(Steps) /\ Len(s) = 6 /\ t \in Seq(Steps) /\ Len(t) = 7
          /\ s[1] = "error" /\ s[2] = "clear" /\ s[3] = "temp" /\ s[4] = "end" /\ s[5] = "clear" /\ s[6] = "assert"
        BY DEF Steps, Loops
    <2>2. t[1] = "error" /\ t[2] = "clear" /\ t[3] = "temp" /\ t[4] = "end" /\ t[5] = "clear" /\ t[6] = "assert" /\ t[7] = "backend"
        OBVIOUS
    <2> HIDE DEF s, t
    <2>3. Len(t) = Len(s) + 1 /\ t[Len(s) + 1] = "backend" /\ \A i \in 1..Len(s) : t[i] = s[i]
        BY <2>1, <2>2
    <2>4. s \o <<"backend">> = t
        BY <2>1, <2>3, BackendIs, Zenon
    <2> QED BY <2>4 DEF s, t
<1>8. <<"backend">> \o DisconnectFrontend = <<"backend", "end", "clear", "assert">>
    <2> DEFINE s == <<"backend">>
               t == <<"backend", "end", "clear", "assert">>
    <2>1. /\ s \in Seq(Steps) /\ Len(s) = 1 /\ t \in Seq(Steps) /\ Len(t) = 4
          /\ s[1] = "backend"
        BY DEF Steps, Loops
    <2>2. t[1] = "backend" /\ t[2] = "end" /\ t[3] = "clear" /\ t[4] = "assert"
        OBVIOUS
    <2> HIDE DEF s, t
    <2>3. /\ Len(t) = Len(s) + 3 /\ \A i \in 1..Len(s) : t[i] = s[i]
          /\ t[Len(s) + 1] = "end" /\ t[Len(s) + 2] = "clear" /\ t[Len(s) + 3] = "assert"
        BY <2>1, <2>2
    <2>4. s \o DisconnectFrontend = t
        BY <2>1, <2>3, FrontendIs, Zenon
    <2> QED BY <2>4 DEF s, t
<1>9. <<"error", "clear">> \o <<"backend">> = <<"error", "clear", "backend">>
    <2> DEFINE s == <<"error", "clear">>
               t == <<"error", "clear", "backend">>
    <2>1. /\ s \in Seq(Steps) /\ Len(s) = 2 /\ t \in Seq(Steps) /\ Len(t) = 3
          /\ s[1] = "error" /\ s[2] = "clear"
        BY DEF Steps, Loops
    <2>2. t[1] = "error" /\ t[2] = "clear" /\ t[3] = "backend"
        OBVIOUS
    <2> HIDE DEF s, t
    <2>3. Len(t) = Len(s) + 1 /\ t[Len(s) + 1] = "backend" /\ \A i \in 1..Len(s) : t[i] = s[i]
        BY <2>1, <2>2
    <2>4. s \o <<"backend">> = t
        BY <2>1, <2>3, BackendIs, Zenon
    <2> QED BY <2>4 DEF s, t
<1>10. BackendError = (<<"error", "clear", "temp">> \o DisconnectFrontend) \o <<"backend">>
    BY DEF BackendError
<1>11. <<>> \o <<"backend">> = <<"backend">>
    <2>1. <<"backend">> \in Seq(Steps)
        BY DEF Steps
    <2> QED BY <2>1, ConcatEmptySeq
<1>12. /\ DisconnectFrontend \o <<"backend">> = <<"end", "clear", "assert", "backend">>
       /\ <<"error">> \o DisconnectFrontend \o <<"backend">> = <<"error", "end", "clear", "assert", "backend">>
       /\ BackendError = <<"error", "clear", "temp", "end", "clear", "assert", "backend">>
    BY <1>1, <1>2, <1>3, <1>6, <1>7, <1>10 DEF DisconnectFrontend
<1>13. <<>> \o <<"backend">> \o DisconnectFrontend = <<"backend", "end", "clear", "assert">>
    BY <1>8, <1>11
<1>14. <<"error", "clear">> \o <<"backend">> \o DisconnectFrontend = <<"error", "clear", "backend", "end", "clear", "assert">>
    BY <1>4, <1>9
<1> QED BY <1>2, <1>4, <1>5, <1>12, <1>13, <1>14

\* Each handler is a list of steps that may be left.
LEMMA HandlersLeft ==
    /\ StepsLeft(<<>>) /\ StepsLeft(<<"start">>) /\ StepsLeft(<<"wake", "count">>)
    /\ StepsLeft(DisconnectFrontend) /\ StepsLeft(DisconnectFrontend \o <<"backend">>)
    /\ StepsLeft(<<"error">> \o DisconnectFrontend)
    /\ StepsLeft(<<"error">> \o DisconnectFrontend \o <<"backend">>)
    /\ StepsLeft(<<"error", "clear", "backend">> \o DisconnectFrontend)
    /\ StepsLeft(<<"cached", "backend">> \o DisconnectFrontend)
    /\ StepsLeft(<<>> \o <<"backend">> \o DisconnectFrontend)
    /\ StepsLeft(<<"error", "clear">> \o <<"backend">> \o DisconnectFrontend)
    /\ StepsLeft(BackendError)
<1>1. StepsLeft(<<>>)
    BY DEF StepsLeft, Steps, Loops
<1>2. StepsLeft(<<"start">>)
    BY DEF StepsLeft, Steps, Loops
<1>3. StepsLeft(<<"wake", "count">>)
    BY DEF StepsLeft, Steps, Loops
<1>4. StepsLeft(<<"end", "clear", "assert">>)
    BY DEF StepsLeft, Steps, Loops
<1>5. StepsLeft(<<"end", "clear", "assert", "backend">>)
    BY DEF StepsLeft, Steps, Loops
<1>6. StepsLeft(<<"error", "end", "clear", "assert">>)
    BY DEF StepsLeft, Steps, Loops
<1>7. StepsLeft(<<"error", "end", "clear", "assert", "backend">>)
    BY DEF StepsLeft, Steps, Loops
<1>8. StepsLeft(<<"error", "clear", "backend", "end", "clear", "assert">>)
    BY DEF StepsLeft, Steps, Loops
<1>9. StepsLeft(<<"cached", "backend", "end", "clear", "assert">>)
    BY DEF StepsLeft, Steps, Loops
<1>10. StepsLeft(<<"error", "clear", "temp", "end", "clear", "assert", "backend">>)
    BY DEF StepsLeft, Steps, Loops
<1>11. StepsLeft(<<"backend", "end", "clear", "assert">>)
    BY DEF StepsLeft, Steps, Loops
<1> QED BY <1>1, <1>2, <1>3, <1>4, <1>5, <1>6, <1>7, <1>8, <1>9, <1>10, <1>11, Handlers DEF DisconnectFrontend

-----------------------------------------------------------------------------
(* What is written to a client.                                            *)

\* The blocks by kind, as ranges of integers.
LEMMA BlockRanges ==
    /\ Blocks \in Nat /\ Blocks > 0
    /\ EndMark = -3 /\ Failure = -2 /\ Raw = -1 /\ Header = 0
    /\ Raw..Blocks \subseteq Failure..Blocks /\ Failure..Blocks \subseteq Block
    /\ EndMark \in Block /\ EndMark \notin Failure..Blocks
    /\ Failure \in Failure..Blocks /\ Failure \in Block /\ Header \in Raw..Blocks
<1>1. Blocks \in Nat /\ Blocks > 0
    BY DeliveryAssumption
<1> QED BY <1>1 DEF EndMark, Failure, Raw, Header, Block

\* What a file holds can be sent, and what is sent is blocks.
LEMMA ContentWaits == Content \subseteq Waiting /\ Waiting \subseteq Seq(Block) /\ Content \subseteq Seq(Block)
BY BlockRanges, SeqMonotonic DEF Content, Waiting

\* What was sent to a client besides the end.
Grows(g, h) == h = g \/ \E p \in Waiting : h = g \o p

(* Blocks that are sent do not end a request, and take no page back.       *)
LEMMA GrownGoesOn ==
    ASSUME NEW g \in Seq(Block), NEW h, Grows(g, h)
    PROVE  h \in Seq(Block) /\ ~Ends(g, h) /\ (Holds(g, Failure) => Holds(h, Failure))
<1>1. CASE h = g
    BY <1>1 DEF Ends
<1>2. CASE h # g
    <2>1. PICK p \in Waiting : h = g \o p
        BY <1>2 DEF Grows
    <2>2. p \in Seq(Block) /\ Len(p) \in Nat /\ Len(g) \in Nat
        BY ContentWaits, <2>1
    <2>3. /\ h \in Seq(Block) /\ Len(h) = Len(g) + Len(p)
          /\ \A i \in 1..(Len(g) + Len(p)) : h[i] = IF i <= Len(g) THEN g[i] ELSE p[i - Len(g)]
        BY ConcatProperties, <2>1, <2>2
    <2>4. \A i \in 1..Len(p) : p[i] # EndMark
        BY BlockRanges, <2>1 DEF Waiting
    <2>5. ~Ends(g, h)
        <3> SUFFICES ASSUME Len(h) > Len(g)
                     PROVE  h[Len(h)] # EndMark
            BY DEF Ends
        <3>1. Len(h) \in 1..(Len(g) + Len(p)) /\ ~(Len(h) <= Len(g)) /\ Len(h) - Len(g) \in 1..Len(p)
            BY <2>2, <2>3
        <3> QED BY <2>3, <2>4, <3>1
    <2>6. Holds(g, Failure) => Holds(h, Failure)
        <3> SUFFICES ASSUME NEW i \in 1..Len(g), g[i] = Failure
                     PROVE  \E j \in 1..Len(h) : h[j] = Failure
            BY DEF Holds
        <3>1. i \in 1..Len(h) /\ i \in 1..(Len(g) + Len(p)) /\ i <= Len(g)
            BY <2>2, <2>3
        <3> QED BY <2>3, <3>1
    <2> QED BY <2>3, <2>5, <2>6
<1> QED BY <1>1, <1>2

\* One more block is sent.
LEMMA GrowsByOne ==
    ASSUME NEW g \in Seq(Block), NEW x \in Failure..Blocks
    PROVE  Append(g, x) \in Seq(Block) /\ Grows(g, Append(g, x))
<1>1. x \in Block /\ <<x>> \in Waiting
    BY BlockRanges DEF Waiting
<1>2. Append(g, x) = g \o <<x>> /\ Append(g, x) \in Seq(Block)
    BY AppendIsConcat, AppendProperties, <1>1
<1> QED BY <1>1, <1>2 DEF Grows

(* A page of an error, and what is sent behind it.                         *)
LEMMA FailureHeld ==
    ASSUME NEW g \in Seq(Block)
    PROVE  Holds(Append(g, Failure), Failure) /\ (Holds(g, Failure) => Holds(Append(g, EndMark), Failure))
<1>1. \A x \in Block : /\ Append(g, x) \in Seq(Block) /\ Len(Append(g, x)) = Len(g) + 1
                       /\ \A i \in 1..Len(g) : Append(g, x)[i] = g[i]
                       /\ Append(g, x)[Len(g) + 1] = x
    BY AppendProperties
<1>2. Failure \in Block /\ EndMark \in Block /\ Len(g) \in Nat
    BY BlockRanges
<1>3. Holds(Append(g, Failure), Failure)
    <2>1. Len(g) + 1 \in 1..Len(Append(g, Failure)) /\ Append(g, Failure)[Len(g) + 1] = Failure
        BY <1>1, <1>2
    <2> QED BY <2>1 DEF Holds
<1>4. ASSUME Holds(g, Failure)
      PROVE  Holds(Append(g, EndMark), Failure)
    <2>1. PICK i \in 1..Len(g) : g[i] = Failure
        BY <1>4 DEF Holds
    <2>2. i \in 1..Len(Append(g, EndMark)) /\ Append(g, EndMark)[i] = Failure
        BY <1>1, <1>2, <2>1
    <2> QED BY <2>2 DEF Holds
<1> QED BY <1>3, <1>4

-----------------------------------------------------------------------------
(* The output of a client: what it may be after each of its operations.    *)

Closed(s) == ~s.open /\ ~s.linked /\ ~s.reading

\* The client goes on as it is.
Stays(r, s) == s.open = r.open /\ s.linked = r.linked /\ s.reading = r.reading

\* What the client did not read yet of the .tmp file.
Rest(r) == SubSeq(file, r.pos + 1, Len(file))

\* What a client has got when it has read all that it reads.
All(r) == IF r.reading THEN r.got \o Rest(r) ELSE r.got

\* The fields of a client.
LEMMA ClientFields ==
    ASSUME NEW r \in ClientType
    PROVE  /\ r.open \in BOOLEAN /\ r.linked \in BOOLEAN /\ r.reading \in BOOLEAN
           /\ r.pos \in Nat /\ r.got \in Seq(Block)
BY DEF ClientType

\* A client that is disconnected is closed and keeps what it was sent.
LEMMA DisconnectedClosed ==
    ASSUME NEW r \in ClientType
    PROVE  Disconnected(r) \in ClientType /\ Closed(Disconnected(r)) /\ Disconnected(r).got = r.got
BY DEF Disconnected, Closed, ClientType

\* A write closes the client, or sends all of it.
LEMMA OutputOf ==
    ASSUME NEW r \in ClientType, NEW x \in Block, NEW s \in Output(r, x)
    PROVE  /\ s \in ClientType
           /\ \/ Closed(s) /\ s.got = r.got
              \/ Stays(r, s) /\ s.pos = r.pos /\ s.got = Append(r.got, x)
<1>1. r.got \in Seq(Block) /\ Append(r.got, x) \in Seq(Block)
    BY ClientFields, AppendProperties
<1>2. CASE s = [r EXCEPT !.got = Append(r.got, x)]
    BY <1>1, <1>2 DEF Stays, ClientType
<1>3. CASE s = Disconnected(r)
    BY <1>3, DisconnectedClosed
<1> QED BY <1>2, <1>3 DEF Output

(* The front of blocks of a file is blocks of a file.                      *)
LEMMA FrontOf ==
    ASSUME NEW s \in Content, NEW j \in 0..Len(s)
    PROVE  /\ SubSeq(s, 1, j) \in Content /\ Len(SubSeq(s, 1, j)) = j
           /\ \A i \in 1..j : SubSeq(s, 1, j)[i] = s[i]
<1>1. s \in Seq(Raw..Blocks) /\ Len(s) \in Nat
    BY DEF Content
<1>2. \A i \in 1..j : s[i] \in Raw..Blocks
    <2>1. \A i \in 1..j : i \in 1..Len(s)
        BY <1>1
    <2> QED BY <1>1, <2>1, ElementOfSeq
<1>3. 1 \in Int /\ j \in Int
    BY <1>1
<1>4. /\ SubSeq(s, 1, j) \in Seq(Raw..Blocks)
      /\ Len(SubSeq(s, 1, j)) = IF 1 <= j THEN j - 1 + 1 ELSE 0
      /\ \A i \in 1..(j - 1 + 1) : SubSeq(s, 1, j)[i] = s[1 + i - 1]
    BY <1>2, <1>3, SubSeqProperties
<1> DEFINE f == SubSeq(s, 1, j)
<1> HIDE DEF f
<1>5. f \in Seq(Raw..Blocks) /\ Len(f) = j
    BY <1>1, <1>4 DEF f
<1>6. \A i \in 1..j : f[i] = s[i]
    <2>1. \A i \in 1..j : i \in 1..(j - 1 + 1) /\ 1 + i - 1 = i
        BY <1>1
    <2> QED BY <1>4, <2>1 DEF f
<1> QED BY <1>5, <1>6 DEF Content, f

\* What a client that follows the file has still to read.
LEMMA RestOf ==
    ASSUME file \in Content, NEW r \in ClientType
    PROVE  /\ Rest(r) \in Content /\ Len(file) \in Nat
           /\ Len(Rest(r)) = IF r.pos + 1 <= Len(file) THEN Len(file) - r.pos ELSE 0
           /\ \A i \in 1..Len(Rest(r)) : Rest(r)[i] = file[r.pos + i]
<1> DEFINE n == Len(file)
           p == r.pos + 1
<1>1. file \in Seq(Raw..Blocks) /\ n \in Nat /\ r.pos \in Nat
    BY ClientFields DEF Content
<1>2. p \in Int /\ n \in Int /\ \A i \in p..n : file[i] \in Raw..Blocks
    <2>1. p \in Int /\ n \in Int /\ \A i \in p..n : i \in 1..n
        BY <1>1
    <2> QED BY <1>1, <2>1, ElementOfSeq
<1>3. /\ SubSeq(file, p, n) \in Seq(Raw..Blocks)
      /\ Len(SubSeq(file, p, n)) = IF p <= n THEN n - p + 1 ELSE 0
      /\ \A i \in 1..(n - p + 1) : SubSeq(file, p, n)[i] = file[p + i - 1]
    BY <1>2, SubSeqProperties
<1> DEFINE t == SubSeq(file, p, n)
<1>4. Rest(r) = t
    BY DEF Rest
<1> HIDE DEF t
<1>5. \A i \in 1..Len(t) : i \in 1..(n - p + 1) /\ p + i - 1 = r.pos + i
    BY <1>1, <1>3 DEF t
<1>6. \A i \in 1..Len(t) : t[i] = file[r.pos + i]
    BY <1>3, <1>5 DEF t
<1>7. t \in Seq(Raw..Blocks) /\ Len(t) = IF r.pos + 1 <= n THEN n - r.pos ELSE 0
    BY <1>1, <1>3 DEF t
<1> QED BY <1>1, <1>4, <1>6, <1>7 DEF Content

\* The client reads to the end of the file, or is closed on the way.
LEMMA ContinueReadOf ==
    ASSUME file \in Content, NEW r \in ClientType, NEW s \in ContinueRead(r)
    PROVE  /\ s \in ClientType
           /\ \/ s = r /\ ~r.reading
              \/ r.reading /\ Stays(r, s) /\ s.pos = Len(file) /\ s.got = r.got \o Rest(r)
              \/ r.reading /\ Closed(s) /\ Grows(r.got, s.got)
<1> DEFINE rest == Rest(r)
           sent(j) == [r EXCEPT !.got = r.got \o SubSeq(rest, 1, j)]
<1>1. rest \in Content /\ Len(rest) \in Nat /\ Len(file) \in Nat /\ r.got \in Seq(Block) /\ r.pos \in Nat
    BY RestOf, ClientFields DEF Content
<1>2. \/ ~r.reading /\ s = r
      \/ r.reading /\ s = [sent(Len(rest)) EXCEPT !.pos = Len(file)]
      \/ r.reading /\ \E j \in 0..(Len(rest) - 1) : s = Disconnected(sent(j))
    BY DEF ContinueRead, Rest
<1> HIDE DEF rest
<1>3. ASSUME NEW j \in 0..Len(rest)
      PROVE  /\ sent(j) \in ClientType /\ Stays(r, sent(j)) /\ Grows(r.got, sent(j).got)
             /\ sent(j).got = r.got \o SubSeq(rest, 1, j)
    <2>1. SubSeq(rest, 1, j) \in Waiting
        BY <1>1, <1>3, FrontOf, ContentWaits
    <2>2. Grows(r.got, r.got \o SubSeq(rest, 1, j)) /\ r.got \o SubSeq(rest, 1, j) \in Seq(Block)
        BY <1>1, <2>1, GrownGoesOn DEF Grows
    <2> QED BY <2>2 DEF Stays, ClientType
<1>4. Len(rest) \in 0..Len(rest) /\ SubSeq(rest, 1, Len(rest)) = rest
    BY <1>1, SubSeqFull DEF Content
<1>5. CASE r.reading /\ s = [sent(Len(rest)) EXCEPT !.pos = Len(file)]
    <2>1. sent(Len(rest)) \in ClientType /\ Stays(r, sent(Len(rest))) /\ sent(Len(rest)).got = r.got \o rest
        BY <1>3, <1>4
    <2> HIDE DEF sent
    <2>2. s \in ClientType /\ Stays(r, s) /\ s.pos = Len(file) /\ s.got = r.got \o rest
        BY <1>1, <1>5, <2>1 DEF Stays, ClientType
    <2> QED BY <1>5, <2>2 DEF rest
<1>6. ASSUME r.reading, NEW j \in 0..(Len(rest) - 1), s = Disconnected(sent(j))
      PROVE  s \in ClientType /\ Closed(s) /\ Grows(r.got, s.got)
    <2>1. j \in 0..Len(rest)
        BY <1>1
    <2>2. sent(j) \in ClientType /\ Grows(r.got, sent(j).got)
        BY <1>3, <2>1
    <2> HIDE DEF sent
    <2> QED BY <1>6, <2>2, DisconnectedClosed
<1> QED BY <1>2, <1>5, <1>6

\* The end of the request is told or not, and the client closed.
LEMMA FinishOf ==
    ASSUME NEW r \in ClientType, NEW s \in Finish(r)
    PROVE  s \in ClientType /\ Closed(s) /\ (s.got = r.got \/ s.got = Append(r.got, EndMark))
<1>1. PICK u \in Output(r, EndMark) : s = Disconnected(u)
    BY DEF Finish
<1>2. u \in ClientType /\ (u.got = r.got \/ u.got = Append(r.got, EndMark))
    BY BlockRanges, OutputOf
<1> QED BY <1>1, <1>2, DisconnectedClosed

(* The end closes a client; it is told so when it has read everything.     *)
LEMMA EndOf ==
    ASSUME file \in Content, NEW r \in ClientType, NEW s \in End(r)
    PROVE  /\ s \in ClientType /\ Closed(s)
           /\ \/ Grows(r.got, s.got)
              \/ r.open /\ r.got # <<>> /\ All(r) \in Seq(Block) /\ s.got = Append(All(r), EndMark)
<1>1. CASE ~(r.open /\ r.got # <<>>)
    BY <1>1, DisconnectedClosed DEF End, Grows
<1>2. CASE r.open /\ r.got # <<>>
    <2>1. PICK u \in ContinueRead(r) : s \in IF u.open THEN Finish(u) ELSE {u}
        BY <1>2 DEF End
    <2>2. /\ u \in ClientType
          /\ \/ u = r /\ ~r.reading
             \/ r.reading /\ Stays(r, u) /\ u.got = r.got \o Rest(r)
             \/ r.reading /\ Closed(u) /\ Grows(r.got, u.got)
        BY ContinueReadOf
    <2>3. r.got \in Seq(Block) /\ Rest(r) \in Waiting /\ r.open \in BOOLEAN
        BY ClientFields, RestOf, ContentWaits
    <2>4. CASE ~u.open
        <3>1. s = u
            BY <2>1, <2>4
        <3> QED BY <1>2, <2>2, <2>4, <3>1 DEF Stays
    <2>5. CASE u.open
        <3>1. s \in ClientType /\ Closed(s) /\ (s.got = u.got \/ s.got = Append(u.got, EndMark))
            BY <2>1, <2>2, <2>5, FinishOf
        <3>2. ~Closed(u)
            BY <2>5 DEF Closed
        <3>3. u.got = All(r) /\ Grows(r.got, u.got)
            BY <2>2, <2>3, <3>2 DEF All, Grows
        <3>4. u.got \in Seq(Block)
            BY <2>2, ClientFields
        <3> QED BY <1>2, <3>1, <3>3, <3>4
    <2> QED BY <2>4, <2>5
<1> QED BY <1>1, <1>2

(* A page of an error ends the client, which is told of it.                *)
LEMMA HttpErrorOf ==
    ASSUME file \in Content, NEW r \in ClientType, NEW s \in HttpError(r)
    PROVE  /\ s \in ClientType /\ Closed(s)
           /\ Grows(r.got, s.got) \/ Holds(s.got, Failure)
<1>1. PICK u \in Output(r, Failure) : s \in End(u)
    BY DEF HttpError
<1>2. /\ u \in ClientType
      /\ \/ Closed(u) /\ u.got = r.got
         \/ u.got = Append(r.got, Failure)
    BY BlockRanges, OutputOf
<1>3. /\ s \in ClientType /\ Closed(s)
      /\ \/ Grows(u.got, s.got)
         \/ u.open /\ All(u) \in Seq(Block) /\ s.got = Append(All(u), EndMark)
    BY <1>1, <1>2, EndOf
<1>4. u.got \in Seq(Block) /\ r.got \in Seq(Block) /\ Rest(u) \in Waiting
    BY <1>2, ClientFields, RestOf, ContentWaits
<1>5. CASE Closed(u) /\ u.got = r.got
    BY <1>3, <1>5 DEF Closed
<1>6. CASE u.got = Append(r.got, Failure)
    <2>1. Holds(u.got, Failure)
        BY <1>4, <1>6, FailureHeld
    <2>2. Grows(u.got, All(u))
        BY <1>4 DEF Grows, All
    <2>3. Holds(All(u), Failure)
        BY <1>4, <2>1, <2>2, GrownGoesOn
    <2>4. CASE Grows(u.got, s.got)
        BY <1>3, <1>4, <2>1, <2>4, GrownGoesOn
    <2>5. CASE All(u) \in Seq(Block) /\ s.got = Append(All(u), EndMark)
        BY <1>3, <2>3, <2>5, FailureHeld
    <2> QED BY <1>3, <2>4, <2>5
<1> QED BY <1>2, <1>5, <1>6

(* The cache file ends the client, which is told so when it has it all.    *)
LEMMA ReadFinalOf ==
    ASSUME file \in Content, final \in Content, NEW r \in ClientType, NEW s \in ReadFinal(r)
    PROVE  /\ s \in ClientType /\ Closed(s)
           /\ \/ Grows(r.got, s.got) \/ Holds(s.got, Failure)
              \/ s.got = Append(r.got \o final, EndMark)
<1> DEFINE n == Len(final)
           sent(f) == [r EXCEPT !.got = r.got \o f]
<1>1. r.got \in Seq(Block) /\ n \in Nat
    BY ClientFields DEF Content
<1>2. \/ s \in HttpError(r) \/ s \in Finish(sent(final))
      \/ \E j \in 0..(n - 1) : s = Disconnected(sent(SubSeq(final, 1, j)))
    BY DEF ReadFinal
<1>3. ASSUME NEW f \in Content
      PROVE  sent(f) \in ClientType /\ Grows(r.got, sent(f).got) /\ sent(f).got = r.got \o f
    <2>1. Grows(r.got, r.got \o f) /\ r.got \o f \in Seq(Block)
        BY <1>1, <1>3, ContentWaits, GrownGoesOn DEF Grows
    <2> QED BY <2>1 DEF ClientType
<1> HIDE DEF sent
<1>4. CASE s \in HttpError(r)
    BY <1>4, HttpErrorOf
<1>5. CASE s \in Finish(sent(final))
    BY <1>3, <1>5, FinishOf
<1>6. ASSUME NEW j \in 0..(n - 1), s = Disconnected(sent(SubSeq(final, 1, j)))
      PROVE  s \in ClientType /\ Closed(s) /\ Grows(r.got, s.got)
    <2>1. j \in 0..n
        BY <1>1
    <2>2. SubSeq(final, 1, j) \in Content
        BY <2>1, FrontOf
    <2> QED BY <1>3, <1>6, <2>2, DisconnectedClosed
<1> QED BY <1>2, <1>4, <1>5, <1>6

(* What happens to the download of a client: it keeps it, or it is closed. *)
Kept(r, s) == (s.open = r.open /\ s.linked = r.linked) \/ Closed(s)

\* The client is closed, or reads the file to its end.
LEMMA StartReadOf ==
    ASSUME file \in Content, NEW r \in ClientType, NEW s \in StartRead(r)
    PROVE  /\ s \in ClientType
           /\ \/ Closed(s) /\ (Grows(r.got, s.got) \/ Holds(s.got, Failure))
              \/ /\ s.open = r.open /\ s.linked = r.linked /\ s.reading
                 /\ s.pos = Len(file) /\ s.got = r.got \o file
<1> DEFINE u == [r EXCEPT !.reading = TRUE, !.pos = 0]
<1>1. /\ u \in ClientType /\ u.open = r.open /\ u.linked = r.linked /\ u.reading
      /\ u.got = r.got /\ u.pos = 0
    BY DEF ClientType
<1>2. s \in HttpError(r) \/ s \in ContinueRead(u)
    BY DEF StartRead
<1> HIDE DEF u
<1>3. CASE s \in HttpError(r)
    BY <1>3, HttpErrorOf
<1>4. CASE s \in ContinueRead(u)
    <2>1. Rest(u) = file
        BY <1>1, SubSeqFull DEF Rest, Content
    <2> QED BY <1>1, <1>4, <2>1, ContinueReadOf DEF Stays
<1> QED BY <1>2, <1>3, <1>4

\* A loop closes a client or leaves it in the list as it is.
LEMMA EffectKept ==
    ASSUME Types, NEW loop \in Loops, NEW r \in ClientType, NEW s \in Effect(loop, r)
    PROVE  s \in ClientType /\ Kept(r, s)
<1>1. file \in Content /\ final \in Content
    BY DEF Types
<1>2. CASE ~r.open
    <2>1. s = r
        BY <1>2 DEF Effect, Loops
    <2> QED BY <2>1 DEF Kept
<1>3. CASE r.open /\ loop = "start"
    <2>1. s \in StartRead(r)
        BY <1>3 DEF Effect
    <2> QED BY <1>1, <2>1, StartReadOf DEF Kept
<1>4. CASE r.open /\ loop = "wake"
    <2>1. s \in ContinueRead(r)
        BY <1>4 DEF Effect
    <2> QED BY <1>1, <2>1, ContinueReadOf DEF Kept, Stays
<1>5. CASE r.open /\ loop = "end"
    <2>1. s \in End(r)
        BY <1>5 DEF Effect
    <2> QED BY <1>1, <2>1, EndOf DEF Kept
<1>6. CASE r.open /\ loop = "error"
    <2>1. s \in HttpError(r)
        BY <1>6 DEF Effect
    <2> QED BY <1>1, <2>1, HttpErrorOf DEF Kept
<1>7. CASE r.open /\ loop = "cached"
    <2>1. s \in ReadFinal(r)
        BY <1>7 DEF Effect
    <2> QED BY <1>1, <2>1, ReadFinalOf DEF Kept
<1> QED BY <1>2, <1>3, <1>4, <1>5, <1>6, <1>7 DEF Loops

-----------------------------------------------------------------------------
(* The list.                                                               *)

(* The object is taken out of the list, what follows moves down.           *)
LEMMA Removed ==
    ASSUME Types, ListOnce, NEW c \in Client, RemoveClient(c)
    PROVE  /\ clientsList' \in Seq(Client) /\ stale' \in Seq(Client)
           /\ ListOnce'
           /\ \A i \in 1..Len(clientsList') :
                clientsList'[i] # c /\ \E j \in 1..Len(clientsList) : clientsList[j] = clientsList'[i]
           /\ \A j \in 1..Len(clientsList) :
                clientsList[j] # c => \E i \in 1..Len(clientsList') : clientsList'[i] = clientsList[j]
<1> DEFINE L == clientsList
           n == Len(clientsList)
<1>1. /\ L \in Seq(Client) /\ n \in Nat /\ stale \in Seq(Client)
      /\ \A i \in 1..n : L[i] \in Client
    BY ElementOfSeq DEF Types
<1>2. \A i, j \in 1..n : L[i] = L[j] => i = j
    BY DEF ListOnce
<1>3. CASE Occurs(c) = {}
    <2>1. UNCHANGED <<clientsList, stale>>
        BY <1>3 DEF RemoveClient
    <2>2. \A i \in 1..n : L[i] # c
        BY <1>3 DEF Occurs
    <2> QED BY <1>1, <2>1, <2>2 DEF ListOnce
<1>4. CASE Occurs(c) # {}
    <2> DEFINE k == CHOOSE i \in Occurs(c) : TRUE
               M == [i \in 1..(n - 1) |-> IF i < k THEN L[i] ELSE L[i + 1]]
    <2>1. k \in Occurs(c)
        BY <1>4
    <2>2. k \in 1..n /\ L[k] = c
        BY <2>1 DEF Occurs
    <2>3. clientsList' = M /\ stale' = IF todo = <<>> THEN <<>> ELSE <<L[n]>> \o stale
        BY <1>4 DEF RemoveClient
    <2> HIDE DEF k
    <2>4. \A i \in 1..(n - 1) : (i < k => i \in 1..n) /\ i + 1 \in 1..n
        BY <1>1
    <2>5. M \in [1..(n - 1) -> Client] /\ n - 1 \in Nat
        BY <1>1, <2>2, <2>4
    <2>6. M \in Seq(Client) /\ Len(M) = n - 1
        BY <2>5
    <2>7. \A i \in 1..(n - 1) : M[i] = IF i < k THEN L[i] ELSE L[i + 1]
        OBVIOUS
    <2> HIDE DEF M, L, n
    <2>8. stale' \in Seq(Client)
        <3>1. <<L[n]>> \in Seq(Client) /\ <<>> \in Seq(Client)
            BY <1>1, <2>2
        <3>2. <<L[n]>> \o stale \in Seq(Client)
            BY <1>1, <3>1, ConcatProperties
        <3> QED BY <2>3, <3>1, <3>2
    <2>9. ASSUME NEW i \in 1..(n - 1)
          PROVE  M[i] # c /\ \E j \in 1..n : L[j] = M[i]
        <3>1. CASE i < k
            <4>1. i \in 1..n /\ i # k /\ M[i] = L[i]
                BY <2>2, <2>4, <2>7, <3>1
            <4> QED BY <1>2, <2>2, <4>1
        <3>2. CASE ~(i < k)
            <4>1. i + 1 \in 1..n /\ i + 1 # k /\ M[i] = L[i + 1]
                BY <2>2, <2>4, <2>7, <3>2
            <4> QED BY <1>2, <2>2, <4>1
        <3> QED BY <3>1, <3>2
    <2>10. ASSUME NEW j \in 1..n, L[j] # c
           PROVE  \E i \in 1..(n - 1) : M[i] = L[j]
        <3>1. CASE j < k
            <4>1. j \in 1..(n - 1)
                BY <1>1, <2>2, <3>1
            <4> QED BY <2>7, <3>1, <4>1
        <3>2. CASE j > k
            <4>1. j - 1 \in 1..(n - 1) /\ ~(j - 1 < k) /\ (j - 1) + 1 = j
                BY <1>1, <2>2, <3>2
            <4> QED BY <2>7, <4>1
        <3>3. j # k
            BY <2>2, <2>10
        <3> QED BY <2>2, <3>1, <3>2, <3>3
    <2>11. ASSUME NEW i \in 1..(n - 1), NEW j \in 1..(n - 1), M[i] = M[j]
           PROVE  i = j
        <3> DEFINE at(x) == IF x < k THEN x ELSE x + 1
        <3>1. /\ at(i) \in 1..n /\ M[i] = L[at(i)]
              /\ at(j) \in 1..n /\ M[j] = L[at(j)]
            BY <2>4, <2>7
        <3>2. at(i) = at(j)
            BY <1>2, <2>11, <3>1
        <3> QED BY <2>2, <3>2
    <2>12. ListOnce'
        BY <2>3, <2>6, <2>11 DEF ListOnce
    <2> QED BY <2>3, <2>6, <2>8, <2>9, <2>10, <2>12 DEF L, n
<1> QED BY <1>3, <1>4

\* One client changes, and the list with it.
LEMMA Becomes ==
    ASSUME Types, ListLinked, ListOnce, LinkedOpen,
           NEW c \in Client, NEW s \in ClientType, Kept(client[c], s), Become(c, s)
    PROVE  /\ client' \in [Client -> ClientType] /\ clientsList' \in Seq(Client) /\ stale' \in Seq(Client)
           /\ ListLinked' /\ ListOnce' /\ (AllListed => AllListed')
           /\ \A d \in Client : client'[d].linked => client'[d].open /\ client[d].linked
<1>1. client \in [Client -> ClientType] /\ client[c] \in ClientType /\ client' = [client EXCEPT ![c] = s]
    BY DEF Types, Become
<1>2. client' \in [Client -> ClientType] /\ client'[c] = s /\ \A d \in Client \ {c} : client'[d] = client[d]
    BY <1>1
<1>3. \A d \in Client : client[d].linked => client[d].open
    BY DEF LinkedOpen
<1>4. \A d \in Client : client'[d].linked => client'[d].open /\ client[d].linked
    BY <1>2, <1>3 DEF Kept, Closed
<1>5. \A i \in 1..Len(clientsList) : clientsList[i] \in Client
    BY ElementOfSeq DEF Types
<1>6. CASE client[c].linked /\ ~s.linked
    <2>1. RemoveClient(c)
        BY <1>6 DEF Become
    <2>2. /\ clientsList' \in Seq(Client) /\ stale' \in Seq(Client) /\ ListOnce'
          /\ \A i \in 1..Len(clientsList') :
                clientsList'[i] # c /\ \E j \in 1..Len(clientsList) : clientsList[j] = clientsList'[i]
          /\ \A j \in 1..Len(clientsList) :
                clientsList[j] # c => \E i \in 1..Len(clientsList') : clientsList'[i] = clientsList[j]
        BY <2>1, Removed
    <2>3. ListLinked'
        <3> SUFFICES ASSUME NEW i \in 1..Len(clientsList')
                     PROVE  client'[clientsList'[i]].linked
            BY DEF ListLinked
        <3>1. PICK j \in 1..Len(clientsList) : clientsList[j] = clientsList'[i]
            BY <2>2
        <3>2. clientsList'[i] \in Client \ {c} /\ client[clientsList'[i]].linked
            BY <1>5, <2>2, <3>1 DEF ListLinked
        <3> QED BY <1>2, <3>2
    <2>4. ASSUME AllListed
          PROVE  AllListed'
        <3> SUFFICES ASSUME NEW d \in Client, client'[d].linked
                     PROVE  \E i \in 1..Len(clientsList') : clientsList'[i] = d
            BY DEF AllListed, Occurs
        <3>1. d # c /\ client[d].linked
            BY <1>2, <1>4, <1>6
        <3>2. PICK j \in 1..Len(clientsList) : clientsList[j] = d
            BY <2>4, <3>1 DEF AllListed, Occurs
        <3> QED BY <2>2, <3>1, <3>2
    <2> QED BY <1>2, <1>4, <2>2, <2>3, <2>4
<1>7. CASE ~(client[c].linked /\ ~s.linked)
    <2>1. UNCHANGED <<clientsList, stale>>
        BY <1>7 DEF Become
    <2>2. \A d \in Client : client[d].linked => client'[d].linked
        BY <1>2, <1>7
    <2>3. ListLinked'
        BY <1>5, <2>1, <2>2 DEF ListLinked
    <2>4. AllListed => AllListed'
        BY <1>4, <2>1 DEF AllListed, Occurs
    <2>5. ListOnce'
        BY <2>1 DEF ListOnce
    <2> QED BY <1>2, <1>4, <2>1, <2>3, <2>4, <2>5 DEF Types
<1> QED BY <1>6, <1>7

-----------------------------------------------------------------------------
(* The steps of a handler.                                                 *)

(* When a step is done, what the handler still has to do is as it should   *)
(* be.                                                                     *)
LEMMA StepDone ==
    ASSUME Types, FullEnds, todo # <<>>, todo' = Tail(todo), written' = written \/ written' = 0,
           crashed = "no", todo[1] # "backend" \/ written' = 0
    PROVE  /\ StepsLeft(todo') /\ FullEnds'
           /\ todo[1] # "assert" => ((\E i \in 1..Len(todo) : todo[i] = "assert") => \E i \in 1..Len(todo') : todo'[i] = "assert")
           /\ todo[1] = "clear" => \E i \in 1..Len(todo') : todo'[i] = "assert"
<1> DEFINE n == Len(todo)
<1>1. /\ StepsLeft(todo) /\ StepsLeft(todo') /\ n \in Nat /\ n > 0 /\ Len(todo') = n - 1
      /\ \A i \in 1..Len(todo') : todo'[i] = todo[i + 1]
    BY TailLeft DEF Types
<1>2. \A i \in 1..n : todo[i] = "clear" => \E j \in 1..n : j > i /\ todo[j] = "assert"
    BY <1>1 DEF StepsLeft
<1> HIDE DEF n
<1>3. ASSUME NEW j \in 1..n, j > 1, todo[j] = "assert"
      PROVE  \E i \in 1..Len(todo') : todo'[i] = "assert"
    <2>1. j - 1 \in 1..Len(todo') /\ (j - 1) + 1 = j
        BY <1>1, <1>3
    <2> QED BY <1>1, <1>3, <2>1
<1>4. todo[1] = "clear" => \E i \in 1..Len(todo') : todo'[i] = "assert"
    <2>1. 1 \in 1..n
        BY <1>1
    <2> QED BY <1>2, <1>3, <2>1
<1>5. ASSUME todo[1] # "assert", NEW j \in 1..n, todo[j] = "assert"
      PROVE  \E i \in 1..Len(todo') : todo'[i] = "assert"
    <2>1. j > 1
        BY <1>1, <1>5
    <2> QED BY <1>3, <1>5, <2>1
<1>6. FullEnds'
    <2> SUFFICES ASSUME written' = Blocks
                 PROVE  todo' # <<>> /\ todo'[Len(todo')] = "backend"
        BY DEF FullEnds
    <2>1. written = Blocks /\ todo[1] # "backend"
        BY BlockRanges
    <2>2. todo[n] = "backend"
        BY <2>1 DEF FullEnds, n
    <2>3. n > 1
        BY <1>1, <2>1, <2>2
    <2>4. Len(todo') \in 1..Len(todo') /\ Len(todo') + 1 = n
        BY <1>1, <2>3
    <2>5. todo'[Len(todo')] = "backend"
        BY <1>1, <2>2, <2>4
    <2> QED BY <1>1, <2>3, <2>5
<1> QED BY <1>1, <1>4, <1>5, <1>6 DEF n

(* A loop visits a client, or is done.                                     *)
LEMMA VisitStep ==
    ASSUME IInv, Visit
    PROVE  IInv'
<1> USE DEF IInv
<1>1. PICK loop \in Loops : Doing(loop)
    BY DEF Visit
<1>2. crashed = "no" /\ todo # <<>> /\ todo[1] = loop /\ todo[1] \notin {"assert", "clear", "backend"}
    BY <1>1 DEF Doing, Loops
<1>3. UNCHANGED <<phase, file, written, conn, answered, flowing, next, final, crashed>>
    BY DEF Visit, httpVars, connVars
<1> DEFINE memory == Memory
<1>4. memory \in Seq(Client) /\ visited \in Nat
    BY ConcatProperties DEF Types, Memory
<1>5. CASE visited < Len(memory)
    <2> DEFINE c == memory[visited + 1]
    <2>1. c \in Client /\ client[c] \in ClientType
        <3>1. visited + 1 \in 1..Len(memory)
            BY <1>4, <1>5
        <3> QED BY <1>4, <3>1, ElementOfSeq DEF Types
    <2>2. /\ \E l \in Loops : Doing(l) /\ \E r \in Effect(l, client[c]) : Become(c, r)
          /\ visited' = visited + 1 /\ UNCHANGED todo
        BY <1>5 DEF Visit
    <2> HIDE DEF c, memory
    <2>3. PICK l \in Loops : \E r \in Effect(l, client[c]) : Become(c, r)
        BY <2>2
    <2>4. PICK s \in Effect(l, client[c]) : Become(c, s)
        BY <2>3
    <2>5. /\ client' \in [Client -> ClientType] /\ clientsList' \in Seq(Client) /\ stale' \in Seq(Client)
          /\ ListLinked' /\ ListOnce' /\ (AllListed => AllListed')
          /\ \A d \in Client : client'[d].linked => client'[d].open /\ client[d].linked
        <3>1. s \in ClientType /\ Kept(client[c], s)
            BY <2>1, EffectKept
        <3> QED BY <2>1, <2>4, <3>1, Becomes
    <2>6. Types'
        BY <1>3, <1>4, <2>2, <2>5 DEF Types
    <2>7. FullEnds' /\ LinkedOpen'
        BY <1>3, <2>2, <2>5 DEF FullEnds, LinkedOpen
    <2>8. ClearedIsAsserted'
        BY <1>3, <2>2, <2>5 DEF ClearedIsAsserted
    <2> QED BY <2>5, <2>6, <2>7, <2>8
<1>6. CASE ~(visited < Len(memory))
    <2>1. /\ todo' = Tail(todo) /\ visited' = 0 /\ stale' = <<>>
          /\ UNCHANGED <<client, clientsList>>
        BY <1>6 DEF Visit
    <2>2. /\ StepsLeft(todo') /\ FullEnds'
          /\ (\E i \in 1..Len(todo) : todo[i] = "assert") => \E i \in 1..Len(todo') : todo'[i] = "assert"
        BY <1>2, <1>3, <2>1, StepDone
    <2>3. Types'
        BY <1>3, <2>1, <2>2 DEF Types
    <2>4. AllListed => AllListed'
        BY <2>1 DEF AllListed, Occurs
    <2>5. ListLinked' /\ ListOnce' /\ LinkedOpen'
        BY <1>3, <2>1 DEF ListLinked, ListOnce, LinkedOpen
    <2>6. ClearedIsAsserted'
        BY <1>2, <1>3, <2>2, <2>4 DEF ClearedIsAsserted
    <2> QED BY <2>2, <2>3, <2>5, <2>6
<1> QED BY <1>5, <1>6

\* The list is cleared.
LEMMA ClearStep ==
    ASSUME IInv, Clear
    PROVE  IInv'
<1> USE DEF IInv
<1>1. /\ crashed = "no" /\ todo # <<>> /\ todo[1] = "clear"
      /\ clientsList' = <<>> /\ todo' = Tail(todo)
      /\ UNCHANGED <<client, stale, visited, phase, file, written, conn, answered, flowing, next, final, crashed>>
    BY DEF Clear, Doing, httpVars, connVars
<1>2. StepsLeft(todo') /\ FullEnds' /\ \E i \in 1..Len(todo') : todo'[i] = "assert"
    BY <1>1, StepDone
<1>3. Types'
    BY <1>1, <1>2 DEF Types
<1>4. ListLinked' /\ ListOnce' /\ LinkedOpen' /\ ClearedIsAsserted'
    BY <1>1, <1>2 DEF ListLinked, ListOnce, LinkedOpen, ClearedIsAsserted
<1> QED BY <1>2, <1>3, <1>4

(* The assertion of disconnectFrontend holds, or the process ends.         *)
LEMMA AssertNoClientStep ==
    ASSUME IInv, AssertNoClient
    PROVE  IInv'
<1> USE DEF IInv
<1>1. /\ crashed = "no" /\ todo # <<>> /\ todo[1] = "assert"
      /\ UNCHANGED <<client, clientsList, stale, visited, phase, file, written, conn, answered, flowing, next, final>>
    BY DEF AssertNoClient, Doing, httpVars, connVars, listVars
<1>2. ListLinked' /\ ListOnce' /\ LinkedOpen'
    BY <1>1 DEF ListLinked, ListOnce, LinkedOpen
<1>3. CASE \E c \in Client : client[c].linked
    <2>1. crashed' = "disconnectFrontend" /\ UNCHANGED todo
        BY <1>3 DEF AssertNoClient, Abort
    <2> QED BY <1>1, <1>2, <2>1 DEF Types, FullEnds, ClearedIsAsserted
<1>4. CASE ~\E c \in Client : client[c].linked
    <2>1. todo' = Tail(todo) /\ UNCHANGED crashed
        BY <1>4 DEF AssertNoClient
    <2>2. StepsLeft(todo') /\ FullEnds'
        BY <1>1, <2>1, StepDone
    <2>3. Types'
        BY <1>1, <2>1, <2>2 DEF Types
    <2>4. ClearedIsAsserted'
        BY <1>1, <1>4 DEF ClearedIsAsserted, AllListed
    <2> QED BY <1>2, <2>2, <2>3, <2>4
<1> QED BY <1>3, <1>4

\* The assertion of backendError holds, or the process ends.
LEMMA AssertTempStep ==
    ASSUME IInv, AssertTemp
    PROVE  IInv'
<1> USE DEF IInv
<1>1. /\ crashed = "no" /\ todo # <<>> /\ todo[1] = "temp"
      /\ UNCHANGED <<client, clientsList, stale, visited, phase, file, written, conn, answered, flowing, next, final>>
    BY DEF AssertTemp, Doing, httpVars, connVars, listVars
<1>2. ListLinked' /\ ListOnce' /\ LinkedOpen' /\ (AllListed => AllListed')
    BY <1>1 DEF ListLinked, ListOnce, LinkedOpen, AllListed, Occurs
<1>3. CASE phase = "body"
    <2>1. crashed' = "temp" /\ UNCHANGED todo
        BY <1>3 DEF AssertTemp, Abort
    <2> QED BY <1>1, <1>2, <2>1 DEF Types, FullEnds, ClearedIsAsserted
<1>4. CASE phase # "body"
    <2>1. todo' = Tail(todo) /\ UNCHANGED crashed
        BY <1>4 DEF AssertTemp
    <2>2. /\ StepsLeft(todo') /\ FullEnds'
          /\ (\E i \in 1..Len(todo) : todo[i] = "assert") => \E i \in 1..Len(todo') : todo'[i] = "assert"
        BY <1>1, <2>1, StepDone
    <2>3. Types'
        BY <1>1, <2>1, <2>2 DEF Types
    <2>4. ClearedIsAsserted'
        BY <1>1, <1>2, <2>2 DEF ClearedIsAsserted
    <2> QED BY <1>2, <2>2, <2>3, <2>4
<1> QED BY <1>3, <1>4

(* The last block begins the end of the download.                          *)
LEMMA CountStep ==
    ASSUME IInv, Count
    PROVE  IInv'
<1> USE DEF IInv
<1>1. /\ crashed = "no" /\ todo # <<>> /\ todo[1] = "count"
      /\ written' = written + 1
      /\ todo' = IF Complete THEN DisconnectFrontend \o <<"backend">> ELSE <<>>
      /\ UNCHANGED <<client, clientsList, stale, visited, phase, file, conn, answered, flowing, next, final, crashed>>
    BY DEF Count, Doing, connVars, listVars
<1>2. StepsLeft(todo) /\ Len(todo) \in Nat /\ Len(todo) > 0 /\ written \in 0..Blocks
    BY <1>1, TailLeft DEF Types
<1>3. Len(todo) = 1
    <2>1. 1 \in 1..Len(todo)
        BY <1>2
    <2> QED BY <1>1, <1>2, <2>1 DEF StepsLeft
<1>4. written < Blocks
    <2>1. written # Blocks
        BY <1>1, <1>3 DEF FullEnds
    <2> QED BY <1>2, <2>1, BlockRanges
<1>5. written' \in 0..Blocks /\ (Complete <=> written' = Blocks)
    BY <1>1, <1>2, <1>4, BlockRanges DEF Complete
<1>6. StepsLeft(todo')
    BY <1>1, HandlersLeft
<1>7. FullEnds'
    <2> SUFFICES ASSUME written' = Blocks
                 PROVE  todo' # <<>> /\ todo'[Len(todo')] = "backend"
        BY DEF FullEnds
    <2>1. todo' = <<"end", "clear", "assert", "backend">>
        BY <1>1, <1>5, Handlers
    <2> QED BY <2>1
<1>8. Types'
    BY <1>1, <1>5, <1>6 DEF Types
<1>9. ListLinked' /\ ListOnce' /\ LinkedOpen' /\ (AllListed => AllListed')
    BY <1>1 DEF ListLinked, ListOnce, LinkedOpen, AllListed, Occurs
<1>10. ClearedIsAsserted'
    <2>1. AllListed
        BY <1>1, <1>3 DEF ClearedIsAsserted
    <2> QED BY <1>9, <2>1 DEF ClearedIsAsserted
<1> QED BY <1>7, <1>8, <1>9, <1>10

\* The end of a download that nobody has any more.
LEMMA DisconnectBackendStep ==
    ASSUME IInv, DisconnectBackend
    PROVE  IInv'
<1> USE DEF IInv
<1>1. /\ crashed = "no" /\ todo # <<>> /\ todo[1] = "backend"
      /\ UNCHANGED <<client, clientsList, stale, visited>>
    BY DEF DisconnectBackend, Doing, listVars
<1>2. final' \in Content
    <2>1. file \in Content /\ final \in Content /\ <<>> \in Content
        BY DEF Types, Content
    <2> QED BY <2>1 DEF DisconnectBackend
<1>3. ListLinked' /\ ListOnce'
    BY <1>1 DEF ListLinked, ListOnce
<1>4. CASE crashed' \in {"temp", "disconnectBackend"} /\ UNCHANGED <<todo, httpVars, connVars>>
    <2>1. UNCHANGED <<todo, phase, file, written, conn, answered, flowing, next>>
        BY <1>4 DEF httpVars, connVars
    <2> QED BY <1>1, <1>2, <1>3, <1>4, <2>1 DEF Types, FullEnds, ClearedIsAsserted, LinkedOpen
<1>5. CASE /\ \A c \in Client : ~client[c].linked
           /\ phase' = "none" /\ file' = <<>> /\ written' = 0
           /\ conn' = "none" /\ answered' = FALSE /\ flowing' = FALSE /\ next' = 0
           /\ todo' = Tail(todo) /\ UNCHANGED crashed
    <2>1. StepsLeft(todo') /\ FullEnds'
        BY <1>1, <1>5, StepDone
    <2>2. file' \in Content /\ written' \in 0..Blocks /\ next' \in 0..(Blocks + 1)
        BY <1>5, BlockRanges DEF Content
    <2>3. Types'
        BY <1>1, <1>2, <1>5, <2>1, <2>2 DEF Types
    <2>4. LinkedOpen' /\ ClearedIsAsserted'
        BY <1>1, <1>5 DEF LinkedOpen, ClearedIsAsserted, AllListed
    <2> QED BY <1>3, <2>1, <2>3, <2>4
<1> QED BY <1>4, <1>5 DEF DisconnectBackend, Abort

-----------------------------------------------------------------------------
(* The events, which come when no handler runs.                            *)

\* Between two handlers all clients of the list have the download.
LEMMA BetweenHandlers ==
    ASSUME IInv, Idle
    PROVE  crashed = "no" /\ todo = <<>> /\ AllListed /\ written # Blocks
<1>1. crashed = "no" /\ todo = <<>>
    BY DEF Idle
<1>2. ~\E i \in 1..Len(todo) : todo[i] = "assert"
    BY <1>1
<1> QED BY <1>1, <1>2 DEF IInv, ClearedIsAsserted, FullEnds

(* What the connection does leaves the clients and the list as they are.   *)
LEMMA ConnectionStep ==
    ASSUME IInv, Idle,
           client' \in [Client -> ClientType],
           \A c \in Client : client'[c].linked = client[c].linked /\ client'[c].open = client[c].open,
           UNCHANGED <<clientsList, stale, visited, written, final>>,
           StepsLeft(todo'), file' \in Content, next' \in 0..(Blocks + 1),
           phase' \in {"none", "request", "header", "body", "discard"}, phase' = "none" => phase = "none",
           conn' \in {"none", "pending", "held", "dead"}, answered' \in BOOLEAN, flowing' \in BOOLEAN,
           crashed' \in {"no", "temp", "disconnectFrontend", "disconnectBackend", "checkBackend"}
    PROVE  IInv'
<1>1. AllListed /\ written # Blocks
    BY BetweenHandlers
<1>2. Types'
    BY DEF IInv, Types
<1>3. \A i \in 1..Len(clientsList) : clientsList[i] \in Client
    BY ElementOfSeq DEF IInv, Types
<1>4. ListLinked' /\ ListOnce'
    BY <1>3 DEF IInv, ListLinked, ListOnce
<1>5. LinkedOpen'
    BY DEF IInv, LinkedOpen
<1>6. FullEnds'
    BY <1>1 DEF FullEnds
<1>7. ClearedIsAsserted'
    BY <1>1 DEF ClearedIsAsserted, AllListed, Occurs
<1> QED BY <1>2, <1>4, <1>5, <1>6, <1>7 DEF IInv

\* The answer of the origin.
LEMMA AnswerStep ==
    ASSUME IInv, Answer
    PROVE  IInv'
<1>1. /\ client \in [Client -> ClientType] /\ file \in Content /\ next \in 0..(Blocks + 1) /\ StepsLeft(todo)
      /\ phase \in {"none", "request", "header", "body", "discard"}
      /\ conn \in {"none", "pending", "held", "dead"} /\ answered \in BOOLEAN /\ flowing \in BOOLEAN
      /\ crashed \in {"no", "temp", "disconnectFrontend", "disconnectBackend", "checkBackend"}
    BY DEF IInv, Types
<1>2. 1 \in 0..(Blocks + 1)
    BY BlockRanges
<1>3. Idle
    BY DEF Answer, StatusOk, HeaderEnd, NoTempFile, HeaderFails, StatusOther, StatusCut, Data, HeaderRead, Receiving
<1>4. CASE StatusOk
    BY <1>1, <1>3, <1>4, ConnectionStep DEF StatusOk, listVars
<1>5. CASE HeaderEnd
    <2>1. <<Header>> \in Content
        BY BlockRanges DEF Content
    <2> QED BY <1>1, <1>2, <1>3, <1>5, <2>1, HandlersLeft, ConnectionStep DEF HeaderEnd, HeaderRead, listVars
<1>6. CASE NoTempFile
    BY <1>1, <1>2, <1>3, <1>6, HandlersLeft, ConnectionStep DEF NoTempFile, HeaderRead, listVars
<1>7. CASE HeaderFails
    BY <1>1, <1>2, <1>3, <1>7, HandlersLeft, ConnectionStep DEF HeaderFails, HeaderRead, listVars
<1>8. CASE StatusOther
    BY <1>1, <1>3, <1>8, HandlersLeft, ConnectionStep DEF StatusOther, listVars, httpVars
<1>9. CASE StatusCut
    <2>1. /\ StepsLeft(todo')
          /\ UNCHANGED <<client, clientsList, stale, visited, phase, file, written, conn, answered, flowing, next, final, crashed>>
        BY <1>9, HandlersLeft DEF StatusCut, listVars, httpVars, connVars
    <2> QED BY <1>1, <1>3, <2>1, ConnectionStep
<1>10. CASE Data
    <2> DEFINE x == IF next = 0 THEN Raw ELSE next
    <2>1. /\ next <= Blocks /\ next' = next + 1 /\ file' = Append(file, x) /\ todo' = <<"wake", "count">>
          /\ UNCHANGED <<client, clientsList, stale, visited, phase, written, conn, answered, flowing, final, crashed>>
        BY <1>10 DEF Data, listVars
    <2>2. x \in Raw..Blocks
        BY <1>1, <2>1, BlockRanges
    <2> HIDE DEF x
    <2>3. file' \in Content
        BY <1>1, <2>1, <2>2, AppendProperties DEF Content
    <2>4. next' \in 0..(Blocks + 1)
        BY <1>1, <2>1, BlockRanges
    <2> QED BY <1>1, <1>3, <2>1, <2>3, <2>4, HandlersLeft, ConnectionStep
<1> QED BY <1>4, <1>5, <1>6, <1>7, <1>8, <1>9, <1>10 DEF Answer

\* The other events of the connection, and the timers.
LEMMA NoAnswerStep ==
    ASSUME IInv, Connection \/ Fails \/ HttpTimeout \/ HttpCheck
    PROVE  IInv'
<1>1. /\ client \in [Client -> ClientType] /\ file \in Content /\ next \in 0..(Blocks + 1) /\ StepsLeft(todo)
      /\ phase \in {"none", "request", "header", "body", "discard"}
      /\ conn \in {"none", "pending", "held", "dead"} /\ answered \in BOOLEAN /\ flowing \in BOOLEAN
      /\ crashed \in {"no", "temp", "disconnectFrontend", "disconnectBackend", "checkBackend"}
    BY DEF IInv, Types
<1>2. 0 \in 0..(Blocks + 1)
    BY BlockRanges
<1>3. Idle
    BY DEF Connection, Served, ClosedUnanswered, ClosedAnswered, NotReplaced, BackendDeleted, Fails, HttpTimeout, HttpCheck
<1>4. CASE Connection
    BY <1>1, <1>2, <1>3, <1>4, ConnectionStep
       DEF Connection, Served, ClosedUnanswered, ClosedAnswered, NotReplaced, BackendDeleted, listVars, httpVars
<1>5. CASE Fails
    BY <1>1, <1>3, <1>5, HandlersLeft, ConnectionStep DEF Fails, listVars, httpVars, connVars
<1>6. CASE HttpTimeout
    <2>1. todo' = <<"error">> \o DisconnectFrontend \/ todo' = <<"error">> \o DisconnectFrontend \o <<"backend">>
        <3>1. <<"error">> \o DisconnectFrontend \in Seq(Steps)
            BY Handlers, HandlersLeft DEF StepsLeft
        <3>2. (<<"error">> \o DisconnectFrontend) \o <<>> = <<"error">> \o DisconnectFrontend
            BY <3>1, ConcatEmptySeq
        <3> QED BY <1>6, <3>2 DEF HttpTimeout
    <2>2. StepsLeft(todo')
        BY <2>1, HandlersLeft
    <2>3. flowing' = FALSE /\ UNCHANGED <<client, clientsList, stale, visited, phase, file, written, conn, answered, next, final, crashed>>
        BY <1>6 DEF HttpTimeout, listVars, httpVars
    <2> QED BY <1>1, <1>3, <2>2, <2>3, ConnectionStep
<1>7. CASE HttpCheck
    BY <1>1, <1>3, <1>7, ConnectionStep DEF HttpCheck, Abort, listVars, httpVars, connVars
<1> QED BY <1>4, <1>5, <1>6, <1>7

\* A client that is not there and one that has just come.
LEMMA AbsentTypes ==
    /\ Absent \in ClientType /\ ~Absent.open /\ ~Absent.linked
    /\ Opened \in ClientType /\ Opened.open /\ ~Opened.linked
    /\ [Opened EXCEPT !.linked = TRUE] \in ClientType
    /\ [Opened EXCEPT !.linked = TRUE].open
<1>1. <<>> \in Seq(Block)
    OBVIOUS
<1>2. Absent \in ClientType /\ ~Absent.open /\ ~Absent.linked
    BY <1>1 DEF Absent, ClientType
<1>3. Opened \in ClientType /\ Opened.open /\ ~Opened.linked
    BY <1>2 DEF Opened, Absent, ClientType
<1> QED BY <1>2, <1>3 DEF ClientType, Opened, Absent

\* The fields that the events of the clients leave alone.
ElseUnchanged == UNCHANGED <<visited, todo, file, written, conn, answered, flowing, next, final, crashed>>

\* A client joins the download.
LEMMA JoinStep ==
    ASSUME IInv, NEW c \in Client, Join(c)
    PROVE  IInv'
<1> DEFINE r == [Opened EXCEPT !.linked = TRUE]
<1>1. /\ Idle /\ client[c] = Absent /\ phase # "none"
      /\ ElseUnchanged /\ UNCHANGED <<stale, phase>>
    BY DEF Join, Fresh, ElseUnchanged, httpVars, connVars
<1>2. PICK s \in IF phase = "body" THEN StartRead(r) ELSE {r} :
        /\ client' = [client EXCEPT ![c] = s]
        /\ clientsList' = IF s.linked THEN Append(clientsList, c) ELSE clientsList
    BY DEF Join
<1>3. /\ client \in [Client -> ClientType] /\ file \in Content /\ clientsList \in Seq(Client)
      /\ \A i \in 1..Len(clientsList) : clientsList[i] \in Client
    BY ElementOfSeq DEF IInv, Types
<1>4. s \in ClientType /\ (s.linked => s.open)
    <2>1. r \in ClientType /\ r.open
        BY AbsentTypes
    <2> HIDE DEF r
    <2>2. CASE phase = "body"
        BY <1>2, <1>3, <2>1, <2>2, StartReadOf DEF Closed, IInv, Types
    <2> QED BY <1>2, <2>1, <2>2
<1>5. /\ client' \in [Client -> ClientType] /\ client'[c] = s
      /\ \A d \in Client \ {c} : client'[d] = client[d]
    BY <1>2, <1>3, <1>4
<1>6. /\ clientsList' \in Seq(Client)
      /\ \A i \in 1..Len(clientsList) : i \in 1..Len(clientsList') /\ clientsList'[i] = clientsList[i]
      /\ \A i \in 1..Len(clientsList') :
            \/ i \in 1..Len(clientsList)
            \/ i = Len(clientsList) + 1 /\ clientsList'[i] = c /\ s.linked
      /\ s.linked => \E i \in 1..Len(clientsList') : clientsList'[i] = c
    <2>1. CASE ~s.linked
        BY <1>2, <1>3, <2>1
    <2>2. CASE s.linked
        <3>1. clientsList' = Append(clientsList, c) /\ Len(clientsList) \in Nat
            BY <1>2, <1>3, <2>2
        <3>2. /\ clientsList' \in Seq(Client) /\ Len(clientsList') = Len(clientsList) + 1
              /\ \A i \in 1..Len(clientsList) : clientsList'[i] = clientsList[i]
              /\ clientsList'[Len(clientsList) + 1] = c
            BY <1>3, <3>1, AppendProperties
        <3>3. Len(clientsList) + 1 \in 1..Len(clientsList')
            BY <3>1, <3>2
        <3> QED BY <2>2, <3>1, <3>2, <3>3
    <2> QED BY <2>1, <2>2
<1>7. \A i \in 1..Len(clientsList) : clientsList[i] # c
    BY <1>1, AbsentTypes DEF IInv, ListLinked
<1>8. Types'
    BY <1>1, <1>5, <1>6 DEF IInv, Types, ElseUnchanged
<1>9. ListLinked'
    <2> SUFFICES ASSUME NEW i \in 1..Len(clientsList')
                 PROVE  client'[clientsList'[i]].linked
        BY DEF ListLinked
    <2>1. CASE i \in 1..Len(clientsList)
        BY <1>3, <1>5, <1>6, <1>7, <2>1 DEF IInv, ListLinked
    <2>2. CASE clientsList'[i] = c /\ s.linked
        BY <1>5, <2>2
    <2> QED BY <1>6, <2>1, <2>2
<1>10. ListOnce'
    <2> SUFFICES ASSUME NEW i \in 1..Len(clientsList'), NEW j \in 1..Len(clientsList'),
                        clientsList'[i] = clientsList'[j]
                 PROVE  i = j
        BY DEF ListOnce
    <2>1. CASE i \in 1..Len(clientsList) /\ j \in 1..Len(clientsList)
        BY <1>6, <2>1 DEF IInv, ListOnce
    <2> QED BY <1>6, <1>7, <2>1
<1>11. LinkedOpen'
    BY <1>1, <1>4, <1>5 DEF IInv, LinkedOpen
<1>12. FullEnds'
    BY <1>1 DEF IInv, FullEnds, ElseUnchanged
<1>13. ClearedIsAsserted'
    <2>1. AllListed
        BY <1>1, BetweenHandlers
    <2>2. AllListed'
        <3> SUFFICES ASSUME NEW d \in Client, client'[d].linked
                     PROVE  \E i \in 1..Len(clientsList') : clientsList'[i] = d
            BY DEF AllListed, Occurs
        <3>1. CASE d = c
            BY <1>5, <1>6, <3>1
        <3>2. CASE d # c
            <4>1. client[d].linked
                BY <1>5, <3>2
            <4>2. PICK i \in 1..Len(clientsList) : clientsList[i] = d
                BY <2>1, <4>1 DEF AllListed, Occurs
            <4> QED BY <1>6, <4>2
        <3> QED BY <3>1, <3>2
    <2> QED BY <2>2 DEF ClearedIsAsserted
<1> QED BY <1>8, <1>9, <1>10, <1>11, <1>12, <1>13 DEF IInv

\* A client begins the download.
LEMMA StartStep ==
    ASSUME IInv, NEW c \in Client, Start(c)
    PROVE  IInv'
<1> DEFINE r == [Opened EXCEPT !.linked = TRUE]
<1>1. /\ Idle /\ client[c] = Absent /\ phase = "none" /\ phase' = "request"
      /\ client' = [client EXCEPT ![c] = r] /\ clientsList' = <<c>>
      /\ conn' \in {"pending", "held"} /\ flowing' \in BOOLEAN /\ answered' \in BOOLEAN
      /\ UNCHANGED <<stale, visited, todo, file, written, next, final, crashed>>
    BY DEF Start, Fresh
<1>2. r \in ClientType /\ r.open /\ r.linked
    BY AbsentTypes DEF Opened, Absent
<1> HIDE DEF r
<1>3. client \in [Client -> ClientType] /\ \A d \in Client : ~client[d].linked
    BY <1>1 DEF IInv, Types, LinkedOpen
<1>4. client' \in [Client -> ClientType] /\ client'[c] = r /\ \A d \in Client \ {c} : ~client'[d].linked
    BY <1>1, <1>2, <1>3
<1>5. clientsList' \in Seq(Client) /\ Len(clientsList') = 1 /\ clientsList'[1] = c
    BY <1>1
<1>6. Types'
    BY <1>1, <1>4, <1>5 DEF IInv, Types
<1>7. ListLinked' /\ ListOnce'
    BY <1>2, <1>4, <1>5 DEF ListLinked, ListOnce
<1>8. LinkedOpen' /\ FullEnds'
    BY <1>1, <1>2, <1>4 DEF IInv, LinkedOpen, FullEnds
<1>9. ClearedIsAsserted'
    BY <1>4, <1>5 DEF ClearedIsAsserted, AllListed, Occurs
<1> QED BY <1>6, <1>7, <1>8, <1>9 DEF IInv

(* A client without the download, before and after.                        *)
LEMMA StrangerStep ==
    ASSUME IInv, Idle, NEW c \in Client, ~client[c].linked,
           NEW s \in ClientType, ~s.linked, client' = [client EXCEPT ![c] = s],
           ElseUnchanged, UNCHANGED <<clientsList, stale, phase>>
    PROVE  IInv'
<1>1. client \in [Client -> ClientType]
    BY DEF IInv, Types
<1>2. /\ client' \in [Client -> ClientType]
      /\ \A d \in Client : client'[d].linked <=> client[d].linked
      /\ \A d \in Client : client'[d].linked => client'[d].open = client[d].open
    BY <1>1
<1>3. Types'
    BY <1>2 DEF IInv, Types, ElseUnchanged
<1>4. \A i \in 1..Len(clientsList) : clientsList[i] \in Client
    BY ElementOfSeq DEF IInv, Types
<1>5. ListLinked' /\ ListOnce'
    BY <1>2, <1>4 DEF IInv, ListLinked, ListOnce
<1>6. LinkedOpen' /\ FullEnds'
    BY <1>2 DEF IInv, LinkedOpen, FullEnds, ElseUnchanged
<1>7. ClearedIsAsserted'
    BY <1>2, BetweenHandlers DEF ClearedIsAsserted, AllListed, Occurs
<1> QED BY <1>3, <1>5, <1>6, <1>7 DEF IInv

\* A request for the path.
LEMMA RequestStep ==
    ASSUME IInv, Request
    PROVE  IInv'
<1>1. PICK c \in Client : Join(c) \/ ReadCached(c) \/ Start(c)
    BY DEF Request
<1>2. CASE ReadCached(c)
    <2>1. /\ Idle /\ client[c] = Absent
          /\ ElseUnchanged /\ UNCHANGED <<clientsList, stale, phase>>
        BY <1>2 DEF ReadCached, Fresh, ElseUnchanged, listVars, httpVars, connVars
    <2>2. PICK s \in ReadFinal(Opened) : client' = [client EXCEPT ![c] = s]
        BY <1>2 DEF ReadCached
    <2>3. s \in ClientType /\ Closed(s)
        BY AbsentTypes, ReadFinalOf DEF IInv, Types
    <2>4. ~s.linked
        BY <2>3 DEF Closed
    <2> QED BY <2>1, <2>2, <2>3, <2>4, AbsentTypes, StrangerStep
<1> QED BY <1>1, <1>2, JoinStep, StartStep

\* A client of the download changes between two handlers.
LEMMA ClientStep ==
    ASSUME IInv, Idle, NEW c \in Client, NEW s \in ClientType, Kept(client[c], s), Become(c, s),
           ElseUnchanged, UNCHANGED phase
    PROVE  IInv'
<1>1. /\ client' \in [Client -> ClientType] /\ clientsList' \in Seq(Client) /\ stale' \in Seq(Client)
      /\ ListLinked' /\ ListOnce' /\ (AllListed => AllListed')
      /\ \A d \in Client : client'[d].linked => client'[d].open /\ client[d].linked
    BY Becomes DEF IInv
<1>2. Types'
    BY <1>1 DEF IInv, Types, ElseUnchanged
<1>3. LinkedOpen' /\ FullEnds'
    BY <1>1 DEF IInv, LinkedOpen, FullEnds, ElseUnchanged
<1>4. ClearedIsAsserted'
    BY <1>1, BetweenHandlers DEF ClearedIsAsserted
<1> QED BY <1>1, <1>2, <1>3, <1>4 DEF IInv

\* The events of the clients.
LEMMA ClientEventStep ==
    ASSUME IInv, ClientEvent
    PROVE  IInv'
<1>1. PICK c \in Client : Gone(c) \/ ReadyToWrite(c) \/ Delete(c)
    BY DEF ClientEvent
<1>2. client[c] \in ClientType
    BY DEF IInv, Types
<1>3. CASE Gone(c)
    <2>1. Idle /\ Become(c, Disconnected(client[c])) /\ ElseUnchanged /\ UNCHANGED phase
        BY <1>3 DEF Gone, ElseUnchanged, httpVars, connVars
    <2>2. Disconnected(client[c]) \in ClientType /\ Kept(client[c], Disconnected(client[c]))
        BY <1>2, DisconnectedClosed DEF Kept
    <2> QED BY <2>1, <2>2, ClientStep
<1>4. CASE ReadyToWrite(c)
    <2>1. Idle /\ ElseUnchanged /\ UNCHANGED phase
        BY <1>4 DEF ReadyToWrite, ElseUnchanged, httpVars, connVars
    <2>2. PICK s \in ContinueRead(client[c]) : Become(c, s)
        BY <1>4 DEF ReadyToWrite
    <2>3. s \in ClientType /\ Kept(client[c], s)
        BY <1>2, ContinueReadOf DEF Kept, Stays, IInv, Types
    <2> QED BY <2>1, <2>2, <2>3, ClientStep
<1>5. CASE Delete(c)
    <2>1. /\ Idle /\ ~client[c].open /\ client' = [client EXCEPT ![c] = Absent]
          /\ ElseUnchanged /\ UNCHANGED <<clientsList, stale, phase>>
        BY <1>5 DEF Delete, ElseUnchanged, listVars, httpVars, connVars
    <2>2. ~client[c].linked
        BY <2>1 DEF IInv, LinkedOpen
    <2> QED BY <2>1, <2>2, AbsentTypes, StrangerStep
<1> QED BY <1>1, <1>3, <1>4, <1>5

\* The invariant holds when the process starts.
LEMMA InitStep ==
    ASSUME Init
    PROVE  IInv
<1>1. client \in [Client -> ClientType] /\ \A c \in Client : ~client[c].linked
    BY AbsentTypes DEF Init
<1>2. 0 \in 0..Blocks /\ 0 \in 0..(Blocks + 1) /\ <<>> \in Content /\ Blocks # 0
    BY BlockRanges DEF Content
<1>3. Types
    <2>1. StepsLeft(todo) /\ clientsList \in Seq(Client) /\ stale \in Seq(Client)
        BY HandlersLeft DEF Init
    <2>2. answered \in BOOLEAN /\ flowing \in BOOLEAN
        BY DEF Init
    <2> QED BY <1>1, <1>2, <2>1, <2>2 DEF Types, Init
<1> QED BY <1>1, <1>2, <1>3
        DEF Init, IInv, FullEnds, ListLinked, ListOnce, LinkedOpen, ClearedIsAsserted, AllListed

\* It holds after a restart.
LEMMA RestartStep ==
    ASSUME IInv, Restart
    PROVE  IInv'
<1>1. client' \in [Client -> ClientType] /\ \A c \in Client : ~client'[c].linked
    BY AbsentTypes DEF Restart
<1>2. 0 \in 0..Blocks /\ 0 \in 0..(Blocks + 1) /\ <<>> \in Content /\ Blocks # 0
    BY BlockRanges DEF Content
<1>3. Types'
    <2>1. StepsLeft(todo') /\ clientsList' \in Seq(Client) /\ stale' \in Seq(Client)
        BY HandlersLeft DEF Restart
    <2>2. answered' \in BOOLEAN /\ flowing' \in BOOLEAN
        BY DEF Restart
    <2>3. final' \in Content
        BY DEF IInv, Types, Restart
    <2> QED BY <1>1, <1>2, <2>1, <2>2, <2>3 DEF Types, Restart
<1> QED BY <1>1, <1>2, <1>3
        DEF Restart, IInv, FullEnds, ListLinked, ListOnce, LinkedOpen, ClearedIsAsserted, AllListed

-----------------------------------------------------------------------------
(* The inductive invariant.                                                *)
THEOREM Invariance == Spec => []IInv
<1>1. ASSUME IInv, [Next]_vars
      PROVE  IInv'
    <2>1. CASE Handler
        BY <1>1, <2>1, VisitStep, ClearStep, AssertNoClientStep, AssertTempStep, CountStep, DisconnectBackendStep
           DEF Handler
    <2>2. CASE UNCHANGED vars
        BY <1>1, <2>2 DEF vars, listVars, httpVars, connVars, IInv, Types, FullEnds, ListLinked, ListOnce, LinkedOpen,
           ClearedIsAsserted, AllListed, Occurs
    <2> QED BY <1>1, <2>1, <2>2, RequestStep, ClientEventStep, AnswerStep, NoAnswerStep, RestartStep DEF Next
<1> QED BY <1>1, InitStep, PTL DEF Spec

(* Each variable has the values it should have; what a client gets and the *)
(* files hold are sequences of blocks.                                     *)
THEOREM TypeCorrect == Spec => []TypeOK
<1>1. ASSUME IInv
      PROVE  TypeOK
    BY <1>1, ContentWaits DEF IInv, Types, TypeOK, ClientType, StepsLeft, Steps
<1> QED BY <1>1, Invariance, PTL

(* However many clients the download has, and whatever a loop passes over: *)
(* when no handler runs, Http::clientsList holds each client that has the  *)
(* download once, open, and nobody else.  A disagreement that a handler    *)
(* makes does not outlive its assertion.                                   *)
THEOREM ListCorrect == Spec => []ListAgrees
<1>1. ASSUME IInv
      PROVE  ListAgrees
    <2> SUFFICES ASSUME Idle
                 PROVE  /\ \A c \in Client : client[c].linked <=> Occurs(c) # {}
                        /\ \A c \in Client : client[c].linked => client[c].open /\ phase # "none"
                        /\ \A i, j \in 1..Len(clientsList) : clientsList[i] = clientsList[j] => i = j
        BY DEF ListAgrees
    <2>1. AllListed
        BY <1>1, BetweenHandlers
    <2> QED BY <1>1, <2>1 DEF IInv, AllListed, ListLinked, ListOnce, LinkedOpen, Occurs
<1> QED BY <1>1, Invariance, PTL
=============================================================================
