---------------------------- MODULE MCHttpParser ----------------------------
(***************************************************************************)
(* What clients send: requests put together from their parts, each with    *)
(* the place where it ends, and malformed ones, which never end (end = 0). *)
(***************************************************************************)
EXTENDS HttpRequest, SequencesExt

CRLF == <<"CR", "LF">>
LineEnds == {CRLF, <<"LF">>}

\* Bodies that look like line ends, like a last chunk, like a request.
Bytes == <<"CR", "LF", "0", "CR", "LF", "CR", "LF", "GET", "SP", "/", "CR", "LF">>
BodyOf(n) == [i \in 1 .. n |-> Bytes[1 + ((i - 1) % Len(Bytes))]]

Urls == {<<"/">>, <<"*">>, <<"/", "a", "?", "a", "?", "#", "#", "a">>,
         <<"a", ":", "/", "/", "a", "@", "a", ":", "2", "/", "a", "#", "?", "a">>}
Versions == {<<>>, <<"SP", "HTTP/", "1", ".", "0">>,
             <<"SP", "SP", "HTTP/", "1", ".", "1">>}

Header(name, value, end) == <<name, ":", "SP">> \o value \o end
Connection(v, end) == IF v = "none" THEN <<>> ELSE Header("connection", <<v>>, end)

DigitsOf == (0 :> <<"0">>) @@ (2 :> <<"2">>) @@ (12 :> <<"1", "2">>)
Sizes  == (0 :> <<"0">>) @@ (2 :> <<"0", "2">>) @@ (10 :> <<"a">>)
          @@ (16 :> <<"1", "0">>)

\* A chunk, with a parameter when it is a long one.
Chunk(n) ==
    Sizes[n] \o (IF n > 10 THEN <<";", "word">> ELSE <<>>) \o CRLF
    \o BodyOf(n) \o CRLF

Framings == {"none", "length 0", "length 2", "length 12", "chunks", "both"}
LengthOf == ("length 0" :> 0) @@ ("length 2" :> 2) @@ ("length 12" :> 12)

FramingHeaders(f, end) ==
    CASE f = "none" -> <<>>
      [] f \in DOMAIN LengthOf -> Header("content-length", DigitsOf[LengthOf[f]], end)
      [] f = "chunks" -> Header("transfer-encoding", <<"chunked">>, end)
      [] f = "both" -> Header("content-length", <<"2">>, end)
                       \o Header("transfer-encoding", <<"chunked">>, end)
ChunksOf(f) == IF f = "both" THEN <<10>> ELSE <<2, 16>>
FramingBody(f) ==
    CASE f = "none" -> <<>>
      [] f \in DOMAIN LengthOf -> BodyOf(LengthOf[f])
      [] OTHER -> FlattenSeq([i \in DOMAIN ChunksOf(f) |-> BodyOf(ChunksOf(f)[i])])
FramingWire(f, end) ==
    CASE f \in {"none"} \cup DOMAIN LengthOf -> FramingBody(f)
      [] OTHER -> FlattenSeq([i \in DOMAIN ChunksOf(f) |-> Chunk(ChunksOf(f)[i])])
                  \o <<"0">> \o CRLF \o Header("name", <<"word">>, end) \o end

\* Leading and trailing line ends are no part of a request.
Sent(wire, url, body) ==
    [wire |-> CRLF \o wire \o CRLF, end |-> 2 + Len(wire), url |-> url, body |-> body]

\* A header that other headers' words are no headers in, on two lines.
Other(end) == Header("name", <<"close", "SP", "chunked">> \o end \o <<"SP", "keep-alive">>, end)

Plain(method, url, version, connection, framing, end) ==
    Sent(<<method, "SP">> \o url \o version \o end \o Other(end)
         \o Connection(connection, end) \o FramingHeaders(framing, end) \o end
         \o FramingWire(framing, end),
         url, FramingBody(framing))

Upgrade(method, url, end) ==
    Sent(<<method, "SP">> \o url \o <<"SP", "HTTP/", "1", ".", "1">> \o end
         \o (IF method = "GET" THEN Header("upgrade", <<"word">>, end) ELSE <<>>)
         \o end, url, <<>>)

Malformed ==
    {<<"word", "SP", "/">>,
     <<"GET", "SP", "#">>,
     <<"GET", "SP", "a", ":", "SP">>,
     <<"CONNECT", "SP", "a", "@", "@">>,
     <<"GET", "SP", "/", "SP", "HTTP/", "0">>,
     <<"GET", "SP", "/", "SP", "HTTP/", "1", ".", "1", "SP">>,
     <<"GET", "SP", "/", "CR", "CR">>,
     <<"GET", "SP", "/", "LF", "name", "SP", ":">>,
     <<"GET", "SP", "/", "LF", "content-length", ":", "word">>,
     <<"GET", "SP", "/", "LF", "content-length", ":", "2", "2", "2", "2">>,
     <<"GET", "SP", "/", "LF", "transfer-encoding", ":", "chunked", "LF", "LF", "/">>,
     <<"GET", "SP", "/", "LF", "transfer-encoding", ":", "chunked", "LF", "LF",
       "2", "CR", "LF", "0", "0", "0">>}
Rejected ==
    {[wire |-> m \o CRLF \o CRLF, end |-> 0, url |-> <<>>, body |-> <<>>] : m \in Malformed}

MCRequests ==
    {Plain(m, u, v, c, f, e) : m \in {"GET", "POST"}, u \in Urls, v \in Versions,
        c \in {"none", "close", "keep-alive"}, f \in Framings, e \in LineEnds}
    \cup {Upgrade("GET", u, e) : u \in Urls, e \in LineEnds}
    \cup {Upgrade("CONNECT", <<"a", ":", "2">>, e) : e \in LineEnds}
    \cup Rejected
-----------------------------------------------------------------------------
(***************************************************************************)
(* The layout of a request, read off its wire: the requests above that     *)
(* have a version and a path are well-formed.                              *)
(***************************************************************************)
First(w, i, S) == CHOOSE k \in i .. Len(w) :
                      w[k] \in S /\ \A j \in i .. k - 1 : w[j] \notin S
FirstNot(w, i, S) == CHOOSE k \in i .. Len(w) :
                         w[k] \notin S /\ \A j \in i .. k - 1 : w[j] \in S
AfterEnd(w, i) == IF w[i] = "LF" THEN i + 1 ELSE i + 2

RECURSIVE BlockFrom(_, _)
BlockFrom(w, i) ==
    IF w[i] \in LineEnd THEN [line |-> <<i>>, first |-> <<>>, stop |-> <<>>]
    ELSE LET stop == First(w, i, LineEnd)
             rest == BlockFrom(w, AfterEnd(w, stop))
         IN  [line |-> <<i>> \o rest.line, stop |-> <<stop>> \o rest.stop,
              first |-> <<FirstNot(w, IF w[i] = "SP" THEN i ELSE i + 2, {"SP"})>>
                        \o rest.first]

Values(w, data) ==
    LET value[k \in 1 .. Len(w)] ==
            IF w[k] \notin DOMAIN Hex THEN 0
            ELSE Hex[w[k]] + (IF k > 1 /\ w[k - 1] \in DOMAIN Hex
                              THEN value[k - 1] * (IF k < data THEN 10 ELSE 16) ELSE 0)
    IN  value

RECURSIVE ChunksFrom(_, _, _, _)
ChunksFrom(w, value, i, offset) ==
    LET size == FirstNot(w, i, DOMAIN Hex)
        cr   == First(w, size, {"CR"})
        n    == value[size - 1]
        rest == IF n = 0 THEN [chunk |-> <<>>, size |-> <<>>, cr |-> <<>>, offset |-> <<>>]
                ELSE ChunksFrom(w, value, cr + n + 4, offset + n)
    IN  [chunk |-> <<i>> \o rest.chunk, size |-> <<size>> \o rest.size,
         cr |-> <<cr>> \o rest.cr, offset |-> <<offset>> \o rest.offset]

LayoutOf(r) ==
    LET w       == r.wire
        method  == FirstNot(w, 1, LineEnd)
        version == First(w, method, {"HTTP/"})
        head    == BlockFrom(w, AfterEnd(w, version + 4))
        data    == AfterEnd(w, Blank(head))
        value   == Values(w, data)
        chunks  == IF Chunked(w, head) THEN ChunksFrom(w, value, data, 0)
                   ELSE [chunk |-> <<>>, size |-> <<>>, cr |-> <<>>, offset |-> <<>>]
    IN  [method |-> method, version |-> version, head |-> head, data |-> data,
         urlEnd |-> First(w, method + 2, {"SP"}), value |-> value,
         chunk |-> chunks.chunk, size |-> chunks.size, cr |-> chunks.cr,
         offset |-> chunks.offset,
         trailer |-> IF Chunked(w, head)
                     THEN BlockFrom(w, chunks.cr[Len(chunks.cr)] + 2) ELSE head]

Regular ==
    {Plain(m, u, v, c, f, e) : m \in {"GET", "POST"}, u \in {x \in Urls : x[1] \in {"/", "*"}},
        v \in Versions \ {<<>>}, c \in {"none", "close", "keep-alive"}, f \in Framings,
        e \in LineEnds}

ASSUME RegularIsWellFormed == \A r \in Regular : Laid(r, LayoutOf(r))
=============================================================================
