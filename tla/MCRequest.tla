----------------------------- MODULE MCRequest -----------------------------
(* Instances of Request: what nginx sends, and connections it would not make. *)
EXTENDS Request

Rec(kind, id, names) == [kind |-> kind, id |-> id, version |-> 1, names |-> names]
All == {"host", "uri", "scheme"}

\* A GET; a GET with the empty record that ends its parameters; a POST with two
\* records of its body.
Get == <<Rec("begin", 7, {}), Rec("params", 7, All), Rec("stdin", 7, {})>>
GetWithEnd == <<Rec("begin", 7, {}), Rec("params", 7, All), Rec("params", 7, {}), Rec("stdin", 7, {})>>
Post == <<Rec("begin", 7, {}), Rec("params", 7, All), Rec("stdin", 7, {}), Rec("stdin", 7, {})>>

\* The answer to a request of the program itself; two requests on a connection;
\* records of another request, of another version, without a beginning.
Loop == <<Rec("begin", 7, {}), Rec("params", 7, All \cup {"loop"}), Rec("stdin", 7, {})>>
Odd ==
    {<<Rec("begin", 7, {}), Rec("params", 7, All), Rec("begin", 8, {}), Rec("params", 8, All), Rec("stdin", 8, {})>>,
     <<Rec("begin", 7, {}), Rec("params", 8, All), Rec("stdin", 7, {})>>,
     <<Rec("params", 7, All), Rec("stdin", 7, {})>>,
     <<[Rec("begin", 7, {}) EXCEPT !.version = 2], Rec("params", 7, All), Rec("stdin", 7, {})>>}

Name(size, front, tail, suffix) == [size |-> size, front |-> front, tail |-> tail, suffix |-> suffix]

\* cdn, cdn1, 10 or 9 digits or a word in front of them, ab, www and mirror
\* under the two domains; other names of 11, 13, 18 and 20 characters.
Names ==
    {Name(17, "none", "cdn", "confiared"), Name(18, "none", "cdn1", "confiared"),
     Name(28, "hex", "cdn", "confiared"), Name(29, "hex", "cdn1", "confiared"),
     Name(27, "hex", "cdn", "confiared"), Name(22, "word", "cdn", "confiared"),
     Name(16, "hex", "none", "confiared"), Name(17, "word", "none", "confiared"),
     Name(20, "word", "none", "confiared"),
     Name(22, "none", "cdn", "bolivia"), Name(33, "hex", "cdn", "bolivia"),
     Name(34, "hex", "cdn1", "bolivia"), Name(25, "word", "none", "bolivia")}
    \cup {Name(n, "word", "none", "none") : n \in {11, 13, 18, 20}}

Uris == {"origin", "short", "file", "robots"}

MCConversation ==
    {[records |-> r, host |-> h, uri |-> u, scheme |-> s] :
        r \in {Get, GetWithEnd, Post}, h \in Names, u \in Uris, s \in BOOLEAN}
    \cup {[records |-> r, host |-> Name(17, "none", "cdn", "confiared"), uri |-> "origin", scheme |-> FALSE] :
            r \in Odd \cup {Loop}}
=============================================================================
