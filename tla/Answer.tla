------------------------------- MODULE Answer -------------------------------
(***************************************************************************)
(* The text of an HTTP answer and what the parser of Http makes of one     *)
(* read of it: Http::readyToRead up to the end of the header, Http::write  *)
(* after it.                                                               *)
(*                                                                         *)
(* A text is a sequence of tokens, short enough to have every kind of      *)
(* place a read can end at: a word of two tokens is cut in its middle, one *)
(* of one token only at its ends.  The only header the parser needs is     *)
(* Content-Length; without it the body is taken for chunked.  A token of   *)
(* the body is no digit, no line end and no space.                         *)
(***************************************************************************)
EXTENDS Integers, Sequences, FiniteSetsExt

\* of: the request the token answers.  joined: what the program makes of it
\* depends on its coming in one read with the token before it (see Head and
\* Chunk below, and AnswerUnderstood of Exchange).
Tok(kind, num, of, joined) == [kind |-> kind, num |-> num, of |-> of, joined |-> joined]

(* What a server sends.                                                    *)

\* HTTP/1.1 code reason, one line of the header, the empty line.  The first
\* character of a read is skipped, which does no harm to a line end.
HeadText(r, code, name, value) ==
    LET T(kind, num) == Tok(kind, num, r, TRUE)
        Free(kind) == Tok(kind, 0, r, FALSE) IN
    <<Free("http"), T("code", code), T("text", 0), T("text", 0), T("cr", 0), Free("lf"),
      T(name, 1), T(name, 2), T("colon", 0), T("text", 0), T("digit", value), T("cr", 0), Free("lf"),
      Free("cr"), T("lf", 0)>>

Bytes(r, first, n) == [i \in 1..n |-> Tok("byte", first + i, r, FALSE)]

\* A chunk: its size, its bytes.
ChunkText(r, first, n) ==
    <<Tok("digit", n, r, FALSE), Tok("cr", 0, r, TRUE), Tok("lf", 0, r, TRUE)>>
    \o [i \in 1..n |-> Tok("byte", first + i, r, i > 1)]
    \o <<Tok("cr", 0, r, FALSE), Tok("lf", 0, r, FALSE)>>

\* f: [code, chunked, size, first]; size bytes, in a chunked answer the first
\* of them in a chunk of their own.
Text(r, f) ==
    IF f.chunked
    THEN HeadText(r, f.code, "other", 0)
         \o (IF f.first > 0 THEN ChunkText(r, 0, f.first) ELSE <<>>)
         \o (IF f.size > f.first THEN ChunkText(r, f.first, f.size - f.first) ELSE <<>>)
         \o ChunkText(r, f.size, 0)
    ELSE HeadText(r, f.code, "length", f.size) \o Bytes(r, 0, f.size)

\* s is the body such a text stands for, without what says how it is sent.
IsBody(s, r, f) ==
    Len(s) = f.size /\ \A i \in 1..f.size : s[i].kind = "byte" /\ s[i].num = i /\ s[i].of = r

-----------------------------------------------------------------------------
(* The parser.                                                             *)

Newline == {"cr", "lf"}

\* The first position from p on where a token of these kinds is; behind the
\* text when there is none.
First(s, p, kinds) ==
    Min({i \in p..Len(s) : s[i].kind \in kinds} \cup {Max({p, Len(s) + 1})})

\* c2: behind a line end, which may be one character or two.
After(s, p) == IF s[p].kind = "cr" /\ p < Len(s) /\ s[p + 1].kind = "lf" THEN p + 2 ELSE p + 1

\* Mutant: what is no digit counts as one.
NumberOfAny(s) == IF s # <<>> /\ s[1].kind = "digit" THEN s[1].num ELSE -3

\* atoi, istringstream >> and strtoull of a text that is no number give 0.
Number(s) == IF s # <<>> /\ s[1].kind = "digit" THEN s[1].num ELSE 0

NoLength == -1
NoChunk == -1

\* The status line is looked for in the first line of one read.
HttpCode(s) ==
    LET codes == {i \in 1..(First(s, 1, {"lf"}) - 1) : s[i].kind = "code"} IN
    IF codes = {} THEN 0 ELSE s[Min(codes)].num

\* Mutant: pos++ behind the status line is forgotten.
HeaderStartAtLineEnd(s, code) == IF code = 0 THEN First(s, 1, {"lf"}) ELSE 1

\* The first character behind the status line.  A read that continues the
\* header starts there too: pos++ skips its first character.
HeaderStart(s, code) == IF code = 0 THEN First(s, 1, {"lf"}) + 1 ELSE 2

IsName(s, p, q) == q = p + 2 /\ s[p].kind = "length" /\ s[p].num = 1 /\ s[p + 1].kind = "length" /\ s[p + 1].num = 2

\* A line of the header begins at b: the position of the body, 0 when the
\* read ends before it; contentsize; what the read leaves in headerBuff.
\* Line is the same of the lines behind it.
HeaderLine(Line, s, b) ==
    LET Rest(kept) == [body |-> 0, length |-> NoLength, kept |-> kept]
        end == First(s, b, Newline)
        colon == First(s, b, {"colon"})
        value == colon + 2
        stop == First(s, value, Newline) IN
    CASE b > Len(s) -> Rest(<<>>)
      [] b <= Len(s) /\ end = b -> [body |-> After(s, b), length |-> NoLength, kept |-> <<>>]
      [] b < end /\ end < colon -> Line[After(s, end)]
      [] b < end /\ end = colon -> Rest(SubSeq(s, b, Len(s)))
      [] colon < end /\ stop > Len(s) ->
            Rest(IF IsName(s, b, colon) THEN SubSeq(s, value, Len(s)) ELSE <<>>)
      [] colon < end /\ stop <= Len(s) ->
            [Line[After(s, stop)] EXCEPT
               !.length = IF IsName(s, b, colon) /\ @ = NoLength
                          THEN Number(SubSeq(s, value, stop - 1)) ELSE @]

\* The header of a read, from p on.
Header(s, p) == LET Line[b \in Nat \ {0}] == HeaderLine(Line, s, b) IN Line[p]

\* What goes to the file, chunkLength and chunkHeader after the call of
\* Http::write, and "more", "end" or "abort".
Written(what, length, kept) == [what |-> what, out |-> <<>>, length |-> length, kept |-> kept]

\* From p on there are n bytes of a chunk.  Whatever the read lacks of them,
\* chunkLength is -1 after it.
ChunkBytes(From, s, p, n) ==
    LET m == Min({n, Len(s) - p + 1}) IN
    [From[p + m] EXCEPT !.out = SubSeq(s, p, p + m - 1) \o @]

\* From p on there is the size of a chunk.  From is the same of what is
\* behind the chunk.
ChunkSize(From, s, chunkHeader, p) ==
    LET q == Min({i \in p..Len(s) : s[i].kind \notin Newline} \cup {Len(s) + 1})
        stop == First(s, q, Newline)
        size == Number(SubSeq(s, q, stop - 1))
        bytes == After(s, stop) IN
    CASE q > Len(s) -> Written("more", NoChunk, chunkHeader)
      [] q <= Len(s) /\ chunkHeader # <<>> -> Written("abort", NoChunk, chunkHeader)
      [] q <= Len(s) /\ chunkHeader = <<>> ->
            IF stop > Len(s) THEN Written("more", NoChunk, SubSeq(s, q, Len(s)))
            ELSE IF size = 0 THEN Written("end", 0, <<>>)
            ELSE IF bytes > Len(s) THEN Written("more", size, <<>>)
            ELSE ChunkBytes(From, s, bytes, size)

\* One call of Http::write without Content-Length.
Chunks(s, chunkLength, chunkHeader) ==
    LET From[p \in Nat \ {0}] == ChunkSize(From, s, chunkHeader, p) IN
    IF chunkLength > 0 THEN ChunkBytes(From, s, 1, chunkLength) ELSE From[1]
=============================================================================
