----------------------------- MODULE HttpParser -----------------------------
(***************************************************************************)
(* How the HTTP server finds a request in the bytes of a connection:       *)
(* http_parser_execute of http_parser.cpp (type HTTP_REQUEST, strict) with *)
(* the callbacks of CHttpParserWrapper.                                    *)
(*                                                                         *)
(* CHttpConn parses all it has read so far from the start after every read *)
(* and answers when m_read_all is set, so what matters is the parser after *)
(* each prefix of what the client sends: the first `pos' lexemes of        *)
(* message.wire.  A lexeme is a byte, or a word that the code recognises   *)
(* letter by letter (a method, "HTTP/", a header's name or value).         *)
(***************************************************************************)
EXTENDS Naturals, Sequences

CONSTANTS Requests,  \* what clients send: [wire, end, url, body], see MCHttpParser
          Width      \* bound: bits of content_length

ASSUME ParserAssumption ==
    /\ \A r \in Requests : r.wire \in Seq(STRING)
    /\ 2 ^ Width \in Nat /\ 2 ^ Width > 16     \* a digit is a length

NoLength == 2 ^ Width - 1          \* ULLONG_MAX

Method   == {"GET", "POST", "CONNECT"}
Digits   == <<"0", "1", "2", "3", "4", "5", "6", "7", "8", "9",
              "a", "b", "c", "d", "e", "f">>
Hex      == [c \in {Digits[i] : i \in 1 .. 16} |-> CHOOSE v \in 0 .. 15 : Digits[v + 1] = c]
Decimal  == [c \in {Digits[i] : i \in 1 .. 10} |-> Hex[c]]
Letter   == {Digits[i] : i \in 11 .. 16}
Name     == {"connection", "content-length", "transfer-encoding", "upgrade", "name"}
Word     == {"close", "keep-alive", "chunked", "word"}
Token    == DOMAIN Hex \cup Method \cup Name \cup Word   \* TOKEN(ch)
UserInfo == DOMAIN Hex \cup {"*", ":"}                   \* IS_USERINFO_CHAR
UrlChar  == UserInfo \cup {"/", "@"}                     \* IS_URL_CHAR
LineEnd  == {"CR", "LF"}

VARIABLES
    message,  \* what the client sends
    pos,      \* how much of it the connection has read
    parser    \* http_parser, and what the wrapper's callbacks have stored

parserVars == <<message, pos, parser>>

\* http_parser_init and the wrapper's m_ fields.  `left': the loop has been
\* left before the last byte, by an error or by a request to upgrade.
Fresh == [state |-> "start_req", header |-> "general", flags |-> {},
          length |-> 0, major |-> 0, minor |-> 0, method |-> "GET",
          url |-> <<>>, body |-> <<>>, complete |-> FALSE, left |-> FALSE]

To(q, s)  == [q EXCEPT !.state = s]
Error(q)  == [q EXCEPT !.left = TRUE]
-----------------------------------------------------------------------------
(***************************************************************************)
(* The end of a message.                                                   *)
(***************************************************************************)
ShouldKeepAlive(q) ==
    IF q.major > 0 /\ q.minor > 0 THEN "close" \notin q.flags
    ELSE "keep_alive" \in q.flags

\* NEW_MESSAGE and message_complete.
Complete(q) ==
    [To(q, IF ShouldKeepAlive(q) THEN "start_req" ELSE "dead")
        EXCEPT !.complete = TRUE]

Dead(q, c) == IF c \in LineEnd THEN q ELSE Error(q)
-----------------------------------------------------------------------------
(***************************************************************************)
(* The request line.                                                       *)
(***************************************************************************)
\* parse_url_char; "dead" is no state to go on in.
UrlServer(s, c) ==
    CASE s = "server_with_at" /\ c = "@" -> "dead"
      [] c = "/" -> "path"
      [] c = "?" -> "query_string_start"
      [] c = "@" /\ s # "server_with_at" -> "server_with_at"
      [] c \in UserInfo -> "server"
      [] OTHER -> "dead"

UrlSchema(s, c) ==
    CASE s = "spaces_before_url" /\ c \in {"/", "*"} -> "path"
      [] s \in {"spaces_before_url", "schema"} /\ c \in Letter -> "schema"
      [] s = "schema" /\ c = ":" -> "schema_slash"
      [] s = "schema_slash" /\ c = "/" -> "schema_slash_slash"
      [] s = "schema_slash_slash" /\ c = "/" -> "server_start"
      [] OTHER -> "dead"

UrlPath(s, c) ==
    CASE s = "path" /\ c \in UrlChar -> "path"
      [] s = "path" /\ c = "?" -> "query_string_start"
      [] s \in {"query_string_start", "query_string"}
             /\ c \in UrlChar \cup {"?"} -> "query_string"
      [] s \notin {"fragment_start", "fragment"} /\ c = "#" -> "fragment_start"
      [] s \in {"fragment_start", "fragment"} /\ c = "#" -> s
      [] s \in {"fragment_start", "fragment"} /\ c \in UrlChar \cup {"?"} -> "fragment"
      [] OTHER -> "dead"

InSchema == {"schema", "schema_slash", "schema_slash_slash"}
InServer == {"server", "server_with_at"}
InPath   == {"path", "query_string_start", "query_string", "fragment_start",
             "fragment"}

ParseUrlChar(s, c) ==
    CASE s \in InSchema \cup {"spaces_before_url"} -> UrlSchema(s, c)
      [] s \in InServer \cup {"server_start"} -> UrlServer(s, c)
      [] s \in InPath -> UrlPath(s, c)

UrlFrom(q, s, c) ==
    LET next == ParseUrlChar(s, c)
    IN  IF next = "dead" THEN Error(q)
        ELSE [To(q, next) EXCEPT !.url = Append(@, c)]

StartReq(q, c) ==
    IF c \in LineEnd THEN q
    ELSE LET begun == [q EXCEPT !.flags = {}, !.length = NoLength]
         IN  IF c \in Method THEN [To(begun, "req_method") EXCEPT !.method = c]
             ELSE Error(begun)

ReqMethod(q, c) == IF c = "SP" THEN To(q, "spaces_before_url") ELSE Error(q)

SpacesBeforeUrl(q, c) ==
    IF c = "SP" THEN q
    ELSE UrlFrom(q, IF q.method = "CONNECT" THEN "server_start" ELSE q.state, c)

UrlStart(q, c) == UrlFrom(q, q.state, c)

\* Without a version the request is of HTTP 0.9.
Url(q, c) ==
    CASE c = "SP" -> To(q, "http_start")
      [] c \in LineEnd ->
             [To(q, IF c = "CR" THEN "line_almost_done" ELSE "field_start")
                 EXCEPT !.major = 0, !.minor = 9]
      [] OTHER -> UrlFrom(q, q.state, c)

HttpStart(q, c) ==
    CASE c = "HTTP/" -> To(q, "first_major")
      [] c = "SP" -> q
      [] OTHER -> Error(q)

FirstMajor(q, c) ==
    IF c \in DOMAIN Decimal \ {"0"}
    THEN [To(q, "major") EXCEPT !.major = Decimal[c]]
    ELSE Error(q)

Major(q, c) ==
    CASE c = "." -> To(q, "first_minor")
      [] c \in DOMAIN Decimal /\ q.major * 10 + Decimal[c] <= 999 ->
             [q EXCEPT !.major = @ * 10 + Decimal[c]]
      [] OTHER -> Error(q)

FirstMinor(q, c) ==
    IF c \in DOMAIN Decimal
    THEN [To(q, "minor") EXCEPT !.minor = Decimal[c]]
    ELSE Error(q)

Minor(q, c) ==
    CASE c = "CR" -> To(q, "line_almost_done")
      [] c = "LF" -> To(q, "field_start")
      [] c \in DOMAIN Decimal /\ q.minor * 10 + Decimal[c] <= 999 ->
             [q EXCEPT !.minor = @ * 10 + Decimal[c]]
      [] OTHER -> Error(q)

LineAlmostDone(q, c) == IF c = "LF" THEN To(q, "field_start") ELSE Error(q)
-----------------------------------------------------------------------------
(***************************************************************************)
(* The headers.  "goto reexecute_byte" is a use of the next state's own    *)
(* operator for the same lexeme.                                           *)
(***************************************************************************)
\* A length that is there goes before "chunked".
LengthFirst(q, c) ==
    IF "upgrade" \in q.flags \/ q.method = "CONNECT"
    THEN [Complete(q) EXCEPT !.left = TRUE]
    ELSE CASE q.length = 0 -> Complete(q)
           [] q.length \notin {0, NoLength} -> To(q, "body_identity")
           [] OTHER -> IF "chunked" \in q.flags THEN To(q, "chunk_size_start")
                       ELSE Complete(q)

\* A request without a length and not chunked has no body; one that asks for
\* an upgrade, and every CONNECT, ends the loop.
HeadersDone(q, c) ==
    IF "upgrade" \in q.flags \/ q.method = "CONNECT"
    THEN [Complete(q) EXCEPT !.left = TRUE]
    ELSE IF "chunked" \in q.flags THEN To(q, "chunk_size_start")
    ELSE IF q.length \in {0, NoLength} THEN Complete(q)
    ELSE To(q, "body_identity")

HeadersAlmostDone(q, c) ==
    CASE c # "LF" -> Error(q)
      [] c = "LF" /\ "trailing" \in q.flags -> Complete(q)
      [] OTHER -> HeadersDone(q, c)

Meaning == [n \in Name \ {"name"} |->
    CASE n = "connection" -> "connection"
      [] n = "content-length" -> "content_length"
      [] n = "transfer-encoding" -> "transfer_encoding"
      [] n = "upgrade" -> "upgrade"]

FieldStart(q, c) ==
    CASE c = "CR" -> To(q, "headers_almost_done")
      [] c = "LF" -> HeadersAlmostDone(q, c)
      [] c \in Token ->
             [To(q, "field") EXCEPT
                 !.header = IF c \in DOMAIN Meaning THEN Meaning[c] ELSE "general"]
      [] OTHER -> Error(q)

\* A name that goes on after a name that is known is another name.
Field(q, c) ==
    CASE c \in Token -> [q EXCEPT !.header = "general"]
      [] c = ":" -> To(q, "value_start")
      [] c = "CR" -> To(q, "header_almost_done")
      [] c = "LF" -> To(q, "field_start")
      [] OTHER -> Error(q)

FirstOfValue(q, c) ==
    CASE q.header = "upgrade" ->
             [q EXCEPT !.flags = @ \cup {"upgrade"}, !.header = "general"]
      [] q.header = "content_length" ->
             IF c \in DOMAIN Decimal THEN [q EXCEPT !.length = Decimal[c]]
             ELSE Error(q)
      [] q.header = "transfer_encoding" /\ c = "chunked" -> [q EXCEPT !.header = c]
      [] q.header = "connection" /\ c = "keep-alive" ->
             [q EXCEPT !.header = "keep_alive"]
      [] q.header = "connection" /\ c = "close" -> [q EXCEPT !.header = c]
      [] OTHER -> [q EXCEPT !.header = "general"]

ValueStart(q, c) ==
    CASE c = "SP" -> q
      [] c = "CR" -> [To(q, "header_almost_done") EXCEPT !.header = "general"]
      [] c = "LF" -> To(q, "field_start")
      [] OTHER -> FirstOfValue(To(q, "value"), c)

HeaderAlmostDone(q, c) ==
    IF c # "LF" THEN Error(q)
    ELSE [To(q, "value_lws") EXCEPT
             !.flags = @ \cup ({q.header} \cap {"keep_alive", "close", "chunked"})]

\* One more digit of content_length or of a chunk's size.  The check for an
\* overflow misses numbers that wrap beyond their old value.
Longer(q, base, digit) ==
    LET t == (q.length * base + digit) % 2 ^ Width
    IN  IF t < q.length \/ t = NoLength THEN Error(q) ELSE [q EXCEPT !.length = t]

Value(q, c) ==
    CASE c = "CR" -> To(q, "header_almost_done")
      [] c = "LF" -> HeaderAlmostDone(q, c)
      [] c = "SP" -> q
      [] OTHER ->
             IF q.header # "content_length" THEN [q EXCEPT !.header = "general"]
             ELSE IF c \in DOMAIN Decimal THEN Longer(q, 10, Decimal[c])
             ELSE Error(q)

\* A line that starts with a space goes on with the value of the one before.
ValueLws(q, c) ==
    IF c = "SP" THEN To(q, "value_start") ELSE FieldStart(q, c)
-----------------------------------------------------------------------------
(***************************************************************************)
(* The body.                                                               *)
(***************************************************************************)
Byte(q, c) == [q EXCEPT !.body = Append(@, c), !.length = @ - 1]

MessageDone(q, c) == Complete(q)

BodyIdentity(q, c) ==
    LET read == Byte(q, c) IN IF read.length = 0 THEN MessageDone(read, c) ELSE read

ChunkSizeStart(q, c) ==
    IF c \in DOMAIN Hex THEN [To(q, "chunk_size") EXCEPT !.length = Hex[c]]
    ELSE Error(q)

ChunkSize(q, c) ==
    CASE c = "CR" -> To(q, "chunk_size_almost_done")
      [] c \in DOMAIN Hex -> Longer(q, 16, Hex[c])
      [] c \in {";", "SP"} -> To(q, "chunk_parameters")
      [] OTHER -> Error(q)

ChunkParameters(q, c) == IF c = "CR" THEN To(q, "chunk_size_almost_done") ELSE q

ChunkSizeAlmostDone(q, c) ==
    CASE c # "LF" -> Error(q)
      [] c = "LF" /\ q.length = 0 ->
             [To(q, "field_start") EXCEPT !.flags = @ \cup {"trailing"}]
      [] OTHER -> To(q, "chunk_data")

ChunkData(q, c) ==
    LET read == Byte(q, c)
    IN  IF read.length = 0 THEN To(read, "chunk_data_almost_done") ELSE read

ChunkDataAlmostDone(q, c) == IF c = "CR" THEN To(q, "chunk_data_done") ELSE Error(q)

ChunkDataDone(q, c) == IF c = "LF" THEN To(q, "chunk_size_start") ELSE Error(q)
-----------------------------------------------------------------------------
InRequestLine(q, c) ==
    CASE q.state = "start_req" -> StartReq(q, c)
      [] q.state = "req_method" -> ReqMethod(q, c)
      [] q.state = "spaces_before_url" -> SpacesBeforeUrl(q, c)
      [] q.state \in InSchema \cup {"server_start"} -> UrlStart(q, c)
      [] q.state \in InServer \cup InPath -> Url(q, c)
      [] q.state = "http_start" -> HttpStart(q, c)
      [] q.state = "first_major" -> FirstMajor(q, c)
      [] q.state = "major" -> Major(q, c)
      [] q.state = "first_minor" -> FirstMinor(q, c)
      [] q.state = "minor" -> Minor(q, c)
      [] q.state = "line_almost_done" -> LineAlmostDone(q, c)

InHeaders(q, c) ==
    CASE q.state = "field_start" -> FieldStart(q, c)
      [] q.state = "field" -> Field(q, c)
      [] q.state = "value_start" -> ValueStart(q, c)
      [] q.state = "value" -> Value(q, c)
      [] q.state = "header_almost_done" -> HeaderAlmostDone(q, c)
      [] q.state = "value_lws" -> ValueLws(q, c)
      [] q.state = "headers_almost_done" -> HeadersAlmostDone(q, c)

InBody(q, c) ==
    CASE q.state = "dead" -> Dead(q, c)
      [] q.state = "body_identity" -> BodyIdentity(q, c)
      [] q.state = "chunk_size_start" -> ChunkSizeStart(q, c)
      [] q.state = "chunk_size" -> ChunkSize(q, c)
      [] q.state = "chunk_parameters" -> ChunkParameters(q, c)
      [] q.state = "chunk_size_almost_done" -> ChunkSizeAlmostDone(q, c)
      [] q.state = "chunk_data" -> ChunkData(q, c)
      [] q.state = "chunk_data_almost_done" -> ChunkDataAlmostDone(q, c)
      [] q.state = "chunk_data_done" -> ChunkDataDone(q, c)

RequestLineStates ==
    {"start_req", "req_method", "spaces_before_url", "server_start", "http_start",
     "first_major", "major", "first_minor", "minor", "line_almost_done"}
    \cup InSchema \cup InServer \cup InPath
HeaderStates ==
    {"field_start", "field", "value_start", "value", "header_almost_done",
     "value_lws", "headers_almost_done"}

States ==
    RequestLineStates \cup HeaderStates
    \cup {"dead", "body_identity", "chunk_size_start", "chunk_size", "chunk_parameters",
          "chunk_size_almost_done", "chunk_data", "chunk_data_almost_done", "chunk_data_done"}

\* The body of the loop of http_parser_execute.
Execute(q, c) ==
    IF q.left THEN q
    ELSE CASE q.state \in RequestLineStates -> InRequestLine(q, c)
           [] q.state \in HeaderStates -> InHeaders(q, c)
           [] OTHER -> InBody(q, c)
-----------------------------------------------------------------------------
ParserInit == message \in Requests /\ pos = 0 /\ parser = Fresh

ReadLexeme ==
    /\ pos < Len(message.wire)
    /\ pos' = pos + 1
    /\ parser' = Execute(parser, message.wire[pos'])
    /\ UNCHANGED message

ParserNext == ReadLexeme

ParserSpec == ParserInit /\ [][ParserNext]_parserVars
-----------------------------------------------------------------------------
\* However the bytes are cut, the server takes a request for complete at its
\* last byte and never before, whatever its body looks like, stays with that
\* when line ends follow, and then has its url and its body; a malformed one is
\* never taken for complete.
DeliversRequest ==
    /\ parser.complete <=> message.end > 0 /\ pos >= message.end
    /\ parser.complete => parser.url = message.url /\ parser.body = message.body
=============================================================================
