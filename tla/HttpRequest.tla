----------------------------- MODULE HttpRequest -----------------------------
(***************************************************************************)
(* What a well-formed request is, whatever its length: a request line, the *)
(* lines of its headers, and a body framed by its length or by chunks.  A  *)
(* layout l says at which lexemes of the wire w the parts of it begin; for *)
(* a part that goes from i to before j, the text below says "from i to j". *)
(*                                                                         *)
(* The grammar is the one of HTTP/1.x with its line folding, less what a   *)
(* client need not send: empty header values, repeated lengths, spaces     *)
(* after a length, absolute urls, and requests to change the protocol.     *)
(***************************************************************************)
EXTENDS HttpParser

All(w, i, j, S) == \A k \in i .. j - 1 : w[k] \in S

LineEndAt(w, i, j) ==
    \/ j = i + 1 /\ w[i] = "LF"
    \/ j = i + 2 /\ w[i] = "CR" /\ w[i + 1] = "LF"

\* A number from i to j, with its value after each digit: a length that fits.
NumberAt(w, value, i, j, base, digit) ==
    /\ i < j /\ All(w, i, j, DOMAIN digit)
    /\ \A k \in i .. j - 1 :
           /\ value[k] \in 0 .. NoLength - 1
           /\ value[k] = (IF k = i THEN 0 ELSE value[k - 1] * base) + digit[w[k]]

\* Leading line ends are no part of a request.
RequestLine(w, l) ==
    /\ {l.method, l.urlEnd, l.version} \subseteq Nat \ {0}
    /\ All(w, 1, l.method, LineEnd)
    /\ w[l.method] \in Method \ {"CONNECT"} /\ w[l.method + 1] = "SP"
    /\ l.method + 2 < l.urlEnd /\ w[l.method + 2] \in {"/", "*"}
    /\ All(w, l.method + 3, l.urlEnd, UrlChar \cup {"?", "#"})
    /\ l.urlEnd < l.version /\ All(w, l.urlEnd, l.version, {"SP"})
    /\ w[l.version] = "HTTP/" /\ w[l.version + 1] \in DOMAIN Decimal \ {"0"}
    /\ w[l.version + 2] = "." /\ w[l.version + 3] \in DOMAIN Decimal
-----------------------------------------------------------------------------
(***************************************************************************)
(* Header lines.  Line k of a block b goes from b.line[k] to b.line[k + 1];*)
(* its value goes from b.first[k] to b.stop[k].                            *)
(***************************************************************************)
Lines(b) == 1 .. Len(b.line) - 1
Blank(b) == b.line[Len(b.line)]

IsHeader(w, b, k) == w[b.line[k]] \in Token
IsLength(w, b, k) == w[b.line[k]] = "content-length"
IsChunked(w, b, k) ==
    /\ w[b.line[k]] = "transfer-encoding" /\ w[b.first[k]] = "chunked"
    /\ All(w, b.first[k] + 1, b.stop[k], {"SP"})

\* A name, or a space that continues the value of the line before.
LineStart(w, b, k) ==
    \/ /\ IsHeader(w, b, k) /\ w[b.line[k]] # "upgrade" /\ w[b.line[k] + 1] = ":"
       /\ b.line[k] + 2 <= b.first[k] /\ All(w, b.line[k] + 2, b.first[k], {"SP"})
    \/ /\ k > 1 /\ ~IsLength(w, b, k - 1)
       /\ b.line[k] < b.first[k] /\ All(w, b.line[k], b.first[k], {"SP"})

LineAt(w, value, b, k) ==
    /\ LineStart(w, b, k)
    /\ b.first[k] < b.stop[k] /\ w[b.first[k]] # "SP"
    /\ \A i \in b.first[k] .. b.stop[k] - 1 : w[i] \notin LineEnd
    /\ IsLength(w, b, k) => NumberAt(w, value, b.first[k], b.stop[k], 10, Decimal)
    /\ LineEndAt(w, b.stop[k], b.line[k + 1])

Block(w, value, b) ==
    /\ b.line \in Seq(Nat \ {0}) /\ Len(b.line) > 0
    /\ \A j, k \in 1 .. Len(b.line) : j < k => b.line[j] < b.line[k]
    /\ \A k \in Lines(b) : b.first[k] \in Nat /\ b.stop[k] \in Nat /\ LineAt(w, value, b, k)
    /\ \A j, k \in Lines(b) : IsLength(w, b, j) /\ IsLength(w, b, k) => j = k

Chunked(w, b) == \E k \in Lines(b) : IsChunked(w, b, k)
\* Without a length there is no body.
LengthIs(w, value, b, n) ==
    \/ n = 0 /\ \A k \in Lines(b) : ~IsLength(w, b, k)
    \/ \E k \in Lines(b) : IsLength(w, b, k) /\ n = value[b.stop[k] - 1]
-----------------------------------------------------------------------------
(***************************************************************************)
(* Bodies.  Chunk c goes from l.chunk[c] to l.chunk[c + 1]: its size goes  *)
(* from there to l.size[c], its parameters on to l.cr[c].  Before it,      *)
(* l.offset[c] bytes of the body have come.  The last one is empty.        *)
(***************************************************************************)
ChunkLength(l, c) == l.value[l.size[c] - 1]

ChunkAt(w, l, c) ==
    /\ NumberAt(w, l.value, l.chunk[c], l.size[c], 16, Hex)
    /\ \/ l.cr[c] = l.size[c]
       \/ /\ l.size[c] < l.cr[c] /\ w[l.size[c]] \in {";", "SP"}
          /\ \A i \in l.size[c] .. l.cr[c] - 1 : w[i] # "CR"
    /\ w[l.cr[c]] = "CR" /\ w[l.cr[c] + 1] = "LF"

Chunks(l) == 1 .. Len(l.chunk) - 1

ChunksAt(w, l, body) ==
    LET last == Len(l.chunk)
    IN  /\ l.chunk \in Seq(Nat) /\ last > 0 /\ l.chunk[1] = l.data
        /\ body \in Seq(STRING) /\ Len(body) = l.offset[last] /\ l.offset[1] = 0
        /\ \A c, d \in 1 .. last : c < d => l.chunk[c] < l.chunk[d]
        /\ \A c \in 1 .. last : /\ {l.size[c], l.cr[c]} \subseteq Nat /\ ChunkAt(w, l, c)
                                /\ l.offset[c] \in 0 .. Len(body)
        /\ \A c \in Chunks(l) :
               LET n == ChunkLength(l, c)  start == l.cr[c] + 2
               IN  /\ n > 0 /\ l.offset[c + 1] = l.offset[c] + n
                   /\ \A i \in 0 .. n - 1 : body[l.offset[c] + i + 1] = w[start + i]
                   /\ w[start + n] = "CR" /\ w[start + n + 1] = "LF"
                   /\ l.chunk[c + 1] = start + n + 2
        /\ ChunkLength(l, last) = 0

\* A request r in full.  Chunks go before a length that is there as well.
Laid(r, l) ==
    /\ RequestLine(r.wire, l)
    /\ Block(r.wire, l.value, l.head) /\ LineEndAt(r.wire, l.version + 4, l.head.line[1])
    /\ l.data \in Nat /\ LineEndAt(r.wire, Blank(l.head), l.data)
    /\ r.end \in 1 .. Len(r.wire) /\ All(r.wire, r.end + 1, Len(r.wire) + 1, LineEnd)
    /\ r.url = SubSeq(r.wire, l.method + 2, l.urlEnd - 1)
    /\ IF Chunked(r.wire, l.head)
       THEN /\ ChunksAt(r.wire, l, r.body) /\ Block(r.wire, l.value, l.trailer)
            /\ l.trailer.line[1] = l.cr[Len(l.chunk)] + 2
            /\ LineEndAt(r.wire, Blank(l.trailer), r.end + 1)
       ELSE \E n \in 0 .. Len(r.wire) :
                /\ LengthIs(r.wire, l.value, l.head, n) /\ r.end = l.data - 1 + n
                /\ r.body = SubSeq(r.wire, l.data, r.end)

WellFormed(r) == \E l : Laid(r, l)
=============================================================================
