----------------------------- MODULE HttpParser -----------------------------
(***************************************************************************)
(* How the bytes a connection reads become requests: the state machine of  *)
(* crow/http_parser_merged.h, called once for each read, and the callbacks *)
(* of crow/parser.h, which put a request together from the pieces of its   *)
(* names and values.                                                       *)
(*                                                                         *)
(* A symbol stands for a byte, or for a run of bytes that is only compared *)
(* as a whole: a word the parser matches letter by letter is two symbols   *)
(* here, so that a read can still end inside it.  "x" is any other letter, *)
(* "bad" any byte allowed nowhere.  Letters have one case, tabs are left   *)
(* out, and the size of a header is checked at each symbol.                *)
(***************************************************************************)
EXTENDS Integers, Sequences, FiniteSets, SequencesExt

CONSTANTS
  Wires,      \* what peers may send on a connection, with what they meant by it
  Routed,     \* the targets, without their queries, that have a route
  MaxHeader,  \* CROW_HTTP_MAX_HEADER_SIZE
  MaxLength   \* CROW_ULLONG_MAX, which also stands for "no Content-Length"

ASSUME WiresAssumption == \A v \in Wires : v.bytes \in Seq(STRING)

ASSUME ParserAssumption == MaxHeader \in Nat /\ MaxLength \in Nat \ {0}

\* Where the address of a byte is taken for a distance from the target's start.
Address == 1000

Digits == {"0", "1", "2", "3"}

Value == [c \in Digits |-> CHOOSE n \in 0 .. 3 : ToString(n) = c]

\* The header names and values the parser looks for.
Names ==
  [connection |-> <<"connec", "tion">>, proxy |-> <<"proxy-", "connec", "tion">>,
   length |-> <<"content", "-length">>, encoding |-> <<"transfer", "-encoding">>, upgrade |-> <<"up", "grade">>]

Words == [chunked |-> <<"chun", "ked">>, keep |-> <<"keep", "-alive">>, close |-> <<"clo", "se">>]

Letters ==
  (UNION {Range(Names[n]) : n \in DOMAIN Names}) \cup (UNION {Range(Words[w]) : w \in DOMAIN Words})
    \cup {"h", "host", "x"}

TokenSymbols == Letters \cup Digits

UrlSymbols == TokenSymbols \cup {"/", ":", "@", "*", ","}

VARIABLES
  wire,    \* the bytes a peer sends on this connection
  pos,     \* how many of them have been read
  parser,  \* the connection's HTTPParser
  open     \* the connection goes on reading

vars == <<wire, pos, parser, open>>

-----------------------------------------------------------------------------
\* The parser.  "mark" and "text" are what has been seen of a name, value, target
\* or body in this read; "p" and "start" count its symbols and find the target's
\* first; "next" is the symbol after; "left" and "rest" say that another protocol
\* begins and that there is more of it.
\*
\* Three fields and one of a request are history: "handled" and "early" are the
\* requests handle() was called for and those handle_url() answered, "whole" that
\* a target came in one read and was the first there, and "cut" that one of a HEAD
\* did not, or that a read ended in front of the 2 of "h2".

NoRequest == [method |-> "", raw |-> <<>>, url |-> <<>>, headers |-> <<>>, body |-> <<>>, version |-> <<0, 0>>,
              keep |-> FALSE, close |-> FALSE, upgrade |-> FALSE, whole |-> TRUE]

\* http_parser_init() and the constructor.
NewParser ==
  [state |-> "start_req", header |-> <<"general">>, index |-> 0, flags |-> {}, encoded |-> FALSE, length |-> 0,
   qs |-> 0, method |-> "", version |-> <<0, 0>>, errno |-> "OK", upgrade |-> FALSE, nread |-> 0,
   complete |-> FALSE, building |-> 0, field |-> <<>>, value |-> <<>>, req |-> NoRequest,
   mark |-> "none", text |-> <<>>, p |-> 0, start |-> 0, next |-> "", left |-> FALSE, rest |-> FALSE,
   handled |-> <<>>, early |-> <<>>, cut |-> FALSE]

Init == wire \in Wires /\ pos = 0 /\ parser = NewParser /\ open = TRUE

Fail(x, e) == [x EXCEPT !.errno = e]
Go(x, s) == [x EXCEPT !.state = s]
Raise(x, flag) == [x EXCEPT !.flags = @ \cup {flag}]

\* CROW_MARK, and the symbol that follows it.
Take(x, kind, c) == [x EXCEPT !.mark = kind, !.text = Append(@, c)]

-----------------------------------------------------------------------------
\* The callbacks.

\* A faulty clear(): a header that was not finished stays.
ClearRequest(x) == [x EXCEPT !.req = NoRequest, !.qs = 0, !.complete = FALSE, !.state = "start_req"]

\* HTTPParser::clear(), after every answer.
ClearParser(x) ==
  [x EXCEPT !.req = NoRequest, !.field = <<>>, !.value = <<>>, !.building = 0, !.qs = 0, !.complete = FALSE,
            !.state = "start_req"]

\* HTTPParser::done(): the input ends here, which is right between requests only.
Done(x) == IF x.state \in {"dead", "start_req"} THEN x ELSE Fail(x, "INVALID_EOF_STATE")

\* Connection::handle_url(): what the router answers by itself, OPTIONS and HEAD
\* without a route, is answered at once, and the rest of the request is not read.
UrlHandled(x) ==
  IF x.req.method = "OPTIONS" \/ (x.req.method = "HEAD" /\ x.req.url \notin Routed)
  THEN [ClearParser(Done(x)) EXCEPT !.early = Append(@, x.req)]
  ELSE x

OnUrl(x) ==
  LET raw == x.req.raw \o x.text
      url == IF x.qs = 0 \/ x.qs > Len(raw) THEN raw ELSE SubSeq(raw, 1, x.qs)
  IN UrlHandled([x EXCEPT !.req.raw = raw, !.req.url = url, !.cut = @ \/ (x.req.method = "HEAD" /\ ~x.req.whole)])

Emplace(x) == [x EXCEPT !.req.headers = Append(@, <<x.field, x.value>>), !.field = <<>>, !.value = <<>>]

\* A faulty on_header_field: every piece begins a new name.
OnFieldPiece(x) == [(IF x.value # <<>> THEN Emplace(x) ELSE x) EXCEPT !.field = x.text, !.building = 1]

\* The header before is complete when the next one begins, if it has a value.
OnField(x) ==
  IF x.building = 1 THEN [x EXCEPT !.field = @ \o x.text]
  ELSE [(IF x.value # <<>> THEN Emplace(x) ELSE x) EXCEPT !.field = x.text, !.building = 1]

OnValue(x) == IF x.building = 0 THEN [x EXCEPT !.value = @ \o x.text] ELSE [x EXCEPT !.value = x.text, !.building = 0]

OnBody(x) == [x EXCEPT !.req.body = @ \o x.text]

\* CROW_CALLBACK_DATA of whichever mark is set.
Flush(x) ==
  LET y == CASE x.mark = "url" -> OnUrl(x)
             [] x.mark = "field" -> OnField(x)
             [] x.mark = "value" -> OnValue(x)
             [] x.mark = "body" -> OnBody(x)
             [] OTHER -> x
  IN [y EXCEPT !.mark = "none", !.text = <<>>]

\* set_connection_parameters()
WithParameters(x) ==
  LET old == x.version = <<1, 0>>
      new == x.version = <<1, 1>>
  IN [x EXCEPT !.req.version = x.version, !.req.upgrade = x.upgrade,
               !.req.keep = new \/ (old /\ "KEEP_ALIVE" \in x.flags),
               !.req.close = (old /\ "KEEP_ALIVE" \notin x.flags) \/ (new /\ "CLOSE" \in x.flags)]

OnHeadersComplete(x) == WithParameters(IF x.field # <<>> THEN Emplace(x) ELSE x)

HasHeader(req, name, prefix) ==
  \E i \in DOMAIN req.headers : req.headers[i][1] = name /\ IsPrefix(prefix, req.headers[i][2])

\* Another protocol than HTTP/2 was asked for: the socket is given away.
GivenAway(req) ==
  /\ req.upgrade
  /\ req.version = <<1, 1>>
  /\ HasHeader(req, <<"host">>, <<>>)
  /\ ~HasHeader(req, Names.upgrade, <<"h", "2">>)

\* on_message_complete and Connection::handle(), which answers before it
\* returns and then clears the parser, unless the socket is no longer its own.
OnMessageComplete(x) ==
  LET y == [x EXCEPT !.handled = Append(@, x.req), !.complete = TRUE]
  IN IF GivenAway(x.req) THEN y ELSE ClearParser(y)

-----------------------------------------------------------------------------
\* The request line.

\* Methods: how they begin, and how the one assumed is changed by what follows.
Assumed == [G |-> "GET", P |-> "POST", H |-> "HEAD", O |-> "OPTIONS", C |-> "CONNECT"]
MethodRest == [GET |-> "ET", POST |-> "OST", PUT |-> "UT", HEAD |-> "EAD", OPTIONS |-> "PTIONS", CONNECT |-> "ONNECT"]

StartRequest(x, c) ==
  IF c \in {"cr", "lf"} THEN x
  ELSE LET y == [x EXCEPT !.flags = {}, !.encoded = FALSE, !.length = MaxLength]
       IN IF c \notin DOMAIN Assumed THEN Fail(y, "INVALID_METHOD")
          ELSE [Go(y, "req_method") EXCEPT !.method = Assumed[c], !.index = 1]

OnMethod(x, method) == [x EXCEPT !.method = method, !.req.method = method, !.index = @ + 1]

Method(x, c) ==
  CASE c = " " /\ x.index = 2 -> OnMethod(Go(x, "spaces_before_url"), x.method)
    [] x.index = 1 /\ c = MethodRest[x.method] -> OnMethod(x, x.method)
    [] x.index = 1 /\ x.method = "POST" /\ c = MethodRest.PUT -> OnMethod(x, "PUT")
    [] OTHER -> Fail(x, "INVALID_METHOD")

\* A faulty parse_url_char(): the query begins after the question mark.
QueryAfterMark(x, c) ==
  IF x.state \in {"server_start", "server", "server_with_at", "path"} /\ c = "?"
  THEN [Go(x, "query_start") EXCEPT !.qs = IF x.start = 0 THEN Address + x.p ELSE x.p - x.start + 1]
  ELSE Go(x, IF x.state \in {"query_start", "query"} THEN "query" ELSE "path")

\* parse_url_char(): the states of a target.
UrlTo(state, c) ==
  LET server == {"server_start", "server", "server_with_at"}
  IN CASE state = "spaces_before_url" /\ c \in {"/", "*"} -> "path"
       [] state \in {"spaces_before_url", "schema"} /\ c \in Letters -> "schema"
       [] state = "schema" /\ c = ":" -> "schema_slash"
       [] state = "schema_slash" /\ c = "/" -> "schema_slash_slash"
       [] state = "schema_slash_slash" /\ c = "/" -> "server_start"
       [] state = "server_with_at" /\ c = "@" -> "dead"
       [] state \in server /\ c = "/" -> "path"
       [] state \in server \ {"server_with_at"} /\ c = "@" -> "server_with_at"
       [] state \in server \cup {"path"} /\ c = "?" -> "query_start"
       [] state \in server /\ c \in UrlSymbols \ {"*", "/", "@"} -> "server"
       [] state = "path" /\ c \in UrlSymbols -> "path"
       [] state \in {"query_start", "query"} /\ c \in UrlSymbols \cup {"?"} -> "query"
       [] OTHER -> "dead"

\* The distance to the question mark is counted from the first target that began
\* in this read; if none did, an address is taken.
ParseUrlChar(x, c) ==
  LET to == UrlTo(x.state, c)
  IN IF to = "dead" THEN Fail(Go(x, to), "INVALID_URL")
     ELSE [Go(x, to) EXCEPT !.qs = CASE to # "query_start" -> @
                                     [] to = "query_start" /\ x.start = 0 -> Address + x.p
                                     [] OTHER -> x.p - x.start]

SpacesBeforeUrl(x, c) ==
  IF c = " " THEN x
  ELSE LET y == [x EXCEPT !.start = IF @ = 0 THEN x.p ELSE @, !.req.whole = x.start = 0,
                          !.state = IF x.method = "CONNECT" THEN "server_start" ELSE @]
       IN Take(ParseUrlChar(y, c), "url", c)

\* The states a target may not end in.
UrlBegins(x, c) ==
  IF c \in {" ", "cr", "lf"} THEN Fail(x, "INVALID_URL") ELSE Take(ParseUrlChar(x, c), "url", c)

\* Without a version the request is one of HTTP/0.9.
Url(x, c) ==
  CASE c = " " -> Flush(Go(x, "http_start"))
    [] c \in {"cr", "lf"} /\ x.method # "GET" -> Fail(Go(x, "dead"), "INVALID_VERSION")
    [] c \in {"cr", "lf"} /\ x.method = "GET" ->
         Flush([Go(x, IF c = "cr" THEN "line_almost_done" ELSE "field_start") EXCEPT !.version = <<0, 9>>])
    [] OTHER -> Take(ParseUrlChar(x, c), "url", c)

HttpWord(x, c) ==
  CASE x.state = "http_start" /\ c = " " -> x
    [] x.state = "http_start" /\ c = "HT" -> Go(x, "http_HT")
    [] x.state = "http_start" /\ c \notin {" ", "HT"} -> Fail(x, "INVALID_CONSTANT")
    [] OTHER -> IF c = "TP/" THEN Go(x, "http_major") ELSE Fail(x, "STRICT")

HttpVersion(x, c) ==
  CASE x.state = "http_major" /\ c \in Digits -> [Go(x, "http_dot") EXCEPT !.version[1] = Value[c]]
    [] x.state = "http_dot" /\ c = "." -> Go(x, "http_minor")
    [] x.state = "http_minor" /\ c \in Digits -> [Go(x, "http_end") EXCEPT !.version[2] = Value[c]]
    [] x.state = "http_end" /\ c = "cr" -> Go(x, "line_almost_done")
    [] x.state = "http_end" /\ c = "lf" -> Go(x, "field_start")
    [] OTHER -> Fail(x, "INVALID_VERSION")

LineAlmostDone(x, c) == IF c = "lf" THEN Go(x, "field_start") ELSE Fail(x, "LF_EXPECTED")

-----------------------------------------------------------------------------
\* The end of the headers.

MessageDone(x) ==
  LET y == OnMessageComplete(x) IN IF y.upgrade THEN [y EXCEPT !.left = TRUE] ELSE y

\* How long the body is, if there is one.
HeadersDone(x) ==
  LET y == [x EXCEPT !.nread = 0]
  IN CASE y.upgrade -> MessageDone(y)
       [] ~y.upgrade /\ "CHUNKED" \in y.flags -> Go(y, "chunk_size_start")
       [] ~y.upgrade /\ "CHUNKED" \notin y.flags ->
            IF y.encoded THEN Fail(y, "INVALID_TRANSFER_ENCODING")
            ELSE IF y.length \in {0, MaxLength} THEN MessageDone(y)
            ELSE Go(y, "body_identity")

HeadersAlmostDone(x, c) ==
  CASE c # "lf" -> Fail(x, "STRICT")
    [] c = "lf" /\ "TRAILING" \in x.flags -> OnMessageComplete(x)
    [] c = "lf" /\ "TRAILING" \notin x.flags /\ x.encoded /\ "CONTENTLENGTH" \in x.flags ->
         Fail(x, "UNEXPECTED_CONTENT_LENGTH")
    [] OTHER -> HeadersDone(OnHeadersComplete([Go(x, "headers_done") EXCEPT
                  !.upgrade = "UPGRADE" \in x.flags \/ x.method = "CONNECT"]))

-----------------------------------------------------------------------------
\* Headers.

Matching(n) == <<"matching", n>>
Named(n) == <<"named", n>>
Said(w) == <<"said", w>>
General == <<"general">>

FieldStart(x, c) ==
  CASE c = "cr" -> Go(x, "headers_almost_done")
    [] c = "lf" -> HeadersAlmostDone(x, c)
    [] c \in TokenSymbols ->
         LET candidates == {n \in DOMAIN Names : Names[n][1] = c}
         IN Take([Go(x, "field") EXCEPT
                   !.index = 1,
                   !.header = IF candidates = {} THEN General ELSE Matching(CHOOSE n \in candidates : TRUE)],
                 "field", c)
    [] OTHER -> Fail(x, "INVALID_HEADER_TOKEN")

\* The next letters of a name that so far is one of Names.
MatchName(x, c) ==
  LET n == x.header[2]
      i == x.index + 1
      same == c = Names[n][i]
      whole == same /\ i = Len(Names[n])
  IN [x EXCEPT !.index = i,
               !.header = IF whole THEN Named(IF n = "proxy" THEN "connection" ELSE n) ELSE IF same THEN @ ELSE General,
               !.encoded = @ \/ (whole /\ n = "encoding")]

Field(x, c) ==
  CASE c \in TokenSymbols ->
         Take(CASE x.header[1] = "matching" -> MatchName(x, c)
                [] x.header[1] = "named" -> [x EXCEPT !.header = General]
                [] OTHER -> x,
              "field", c)
    [] c = ":" -> Flush(Go(x, "discard_ws"))
    [] OTHER -> Fail(x, "INVALID_HEADER_TOKEN")

\* Another protocol, unless what follows is "h2" and has been read as well.
UpgradeValue(x, c) ==
  [(IF c = "h" /\ x.next = "2" THEN x ELSE Raise(x, "UPGRADE")) EXCEPT
     !.header = General, !.cut = @ \/ (c = "h" /\ x.next = "")]

LengthValue(x, c) ==
  CASE c \notin Digits -> Fail(x, "INVALID_CONTENT_LENGTH")
    [] c \in Digits /\ "CONTENTLENGTH" \in x.flags -> Fail(x, "UNEXPECTED_CONTENT_LENGTH")
    [] OTHER -> [Raise(x, "CONTENTLENGTH") EXCEPT !.length = Value[c], !.header = <<"number">>]

ConnectionValue(x, c) ==
  [x EXCEPT !.header = CASE c = "keep" -> Matching("keep") [] c = "clo" -> Matching("close") [] c = " " -> @
                         [] OTHER -> General]

\* The first letter of a value, or of its next line.
ValueStart(x, c) ==
  LET y == [Go(x, "value") EXCEPT !.index = 1]
  IN Take(CASE x.header = Named("upgrade") -> UpgradeValue(y, c)
            [] x.header = Named("encoding") -> 
                   [y EXCEPT !.header = IF c = "chun" THEN Matching("chunked") ELSE <<"coding">>]
            [] x.header = Named("length") -> LengthValue(y, c)
            [] x.header = Named("connection") -> ConnectionValue(y, c)
            [] x.header \in {<<"coding start">>, <<"number done">>} -> y
            [] OTHER -> [y EXCEPT !.header = General],
          "value", c)

\* The spaces before a value, which may have line ends in them.
DiscardSpaces(x, c) ==
  CASE x.state = "discard_ws" /\ c = " " -> x
    [] x.state = "discard_ws" /\ c = "cr" -> Go(x, "discard_ws_almost_done")
    [] x.state = "discard_ws" /\ c = "lf" -> Go(x, "discard_lws")
    [] x.state = "discard_ws" /\ c \notin {" ", "cr", "lf"} -> ValueStart(x, c)
    [] x.state = "discard_ws_almost_done" -> IF c = "lf" THEN Go(x, "discard_lws") ELSE Fail(x, "STRICT")
    [] x.state = "discard_lws" /\ c = " " -> Go(x, "discard_ws")
    [] x.state = "discard_lws" /\ c # " " -> FieldStart(Flush([Go(x, "field_start") EXCEPT !.mark = "value"]), c)

Number(x, c) ==
  CASE c = " " -> [x EXCEPT !.header = <<"number done">>]
    [] c \in Digits /\ x.length <= (MaxLength - 10) \div 10 ->
         [x EXCEPT !.header = <<"number">>, !.length = @ * 10 + Value[c]]
    [] OTHER -> Fail(x, "INVALID_CONTENT_LENGTH")

MatchWord(x, c) ==
  LET w == x.header[2]
      i == x.index + 1
  IN [x EXCEPT !.index = i,
               !.header = CASE i > Len(Words[w]) \/ c # Words[w][i] -> IF w = "chunked" THEN <<"coding">> ELSE General
                            [] i = Len(Words[w]) /\ c = Words[w][i] -> Said(w)
                            [] OTHER -> @]

\* What a symbol of a value tells of the header.
InValue(x, c) ==
  CASE x.header = <<"number">> -> Number(x, c)
    [] x.header = <<"number done">> -> IF c = " " THEN x ELSE Fail(x, "INVALID_CONTENT_LENGTH")
    [] x.header = <<"coding start">> ->
         [x EXCEPT !.header = CASE c = "chun" -> Matching("chunked")
                                [] c # "chun" /\ c \in TokenSymbols -> <<"coding">>
                                [] c = " " -> @
                                [] OTHER -> General]
    [] x.header = <<"coding">> -> IF c = "," THEN [x EXCEPT !.header = <<"coding start">>, !.index = 1] ELSE x
    [] x.header[1] = "matching" -> MatchWord(x, c)
    [] x.header[1] = "said" /\ c # " " -> [x EXCEPT !.header = IF @ = Said("chunked") THEN <<"coding">> ELSE General]
    [] OTHER -> x

\* The line after a value: more of it, or what it says is noted.
ValueLws(x, c) ==
  IF c = " " THEN ValueStart([x EXCEPT !.header = IF @ = <<"number">> THEN <<"number done">> ELSE @], c)
  ELSE FieldStart([Go(x, "field_start") EXCEPT
                     !.flags = CASE x.header = Said("keep") -> @ \cup {"KEEP_ALIVE"}
                                 [] x.header = Said("close") -> @ \cup {"CLOSE"}
                                 [] x.header = Said("chunked") -> @ \cup {"CHUNKED"}
                                 [] OTHER -> @],
                  c)

HeaderAlmostDone(x, c) == IF c = "lf" THEN Go(x, "value_lws") ELSE Fail(x, "LF_EXPECTED")

HeaderValue(x, c) ==
  CASE c = "cr" -> Flush(Go(x, "header_almost_done"))
    [] c = "lf" -> HeaderAlmostDone(Flush(Go(x, "header_almost_done")), c)
    [] c = "bad" -> Fail(x, "INVALID_HEADER_TOKEN")
    [] OTHER -> Take(InValue(x, c), "value", c)

-----------------------------------------------------------------------------
\* Bodies.

BodyIdentity(x, c) ==
  LET y == Take([x EXCEPT !.length = @ - 1], "body", c)
  IN IF y.length = 0 THEN OnMessageComplete(Flush(Go(y, "message_done"))) ELSE y

\* A faulty chunk: the line end after its data is not waited for.
ChunkDataShort(x, c) ==
  LET y == Take([x EXCEPT !.length = @ - 1], "body", c)
  IN IF y.length = 1 THEN Go(y, "chunk_data_almost_done") ELSE y

ChunkData(x, c) ==
  LET y == Take([x EXCEPT !.length = @ - 1], "body", c)
  IN IF y.length = 0 THEN Go(y, "chunk_data_almost_done") ELSE y

ChunkSize(x, c) ==
  CASE x.state = "chunk_size_start" ->
         IF c \in Digits THEN [Go(x, "chunk_size") EXCEPT !.length = Value[c]] ELSE Fail(x, "INVALID_CHUNK_SIZE")
    [] x.state = "chunk_size" /\ c \in Digits ->
         IF (MaxLength - 16) \div 16 < x.length THEN Fail(x, "INVALID_CONTENT_LENGTH")
         ELSE [x EXCEPT !.length = @ * 16 + Value[c]]
    [] x.state \in {"chunk_size", "chunk_parameters"} /\ c = "cr" -> Go(x, "chunk_size_almost_done")
    [] x.state = "chunk_size" /\ c \in {";", " "} -> Go(x, "chunk_parameters")
    [] x.state = "chunk_parameters" /\ c # "cr" -> x
    [] OTHER -> Fail(x, "INVALID_CHUNK_SIZE")

\* A chunk without data is the last, and headers may follow it.
ChunkSizeAlmostDone(x, c) ==
  IF c # "lf" THEN Fail(x, "STRICT")
  ELSE LET y == [x EXCEPT !.nread = 0]
       IN IF y.length = 0 THEN Go(Raise(y, "TRAILING"), "field_start") ELSE Go(y, "chunk_data")

ChunkDataDone(x, c) ==
  CASE x.state = "chunk_data_almost_done" /\ c = "cr" -> Flush(Go(x, "chunk_data_done"))
    [] x.state = "chunk_data_done" /\ c = "lf" -> [Go(x, "chunk_size_start") EXCEPT !.nread = 0]
    [] OTHER -> Fail(x, "STRICT")

-----------------------------------------------------------------------------
\* http_parser_execute()

UrlStates == {"schema", "schema_slash", "schema_slash_slash", "server_start", "server", "server_with_at", "path",
              "query_start", "query"}

BodyStates == {"chunk_data", "chunk_data_almost_done", "chunk_data_done", "body_identity", "message_done"}

Consume(x, c) ==
  CASE x.state = "dead" -> IF c \in {"cr", "lf"} THEN x ELSE Fail(x, "CLOSED_CONNECTION")
    [] x.state = "start_req" -> StartRequest(x, c)
    [] x.state = "req_method" -> Method(x, c)
    [] x.state = "spaces_before_url" -> SpacesBeforeUrl(x, c)
    [] x.state \in {"schema", "schema_slash", "schema_slash_slash", "server_start"} -> UrlBegins(x, c)
    [] x.state \in {"server", "server_with_at", "path", "query_start", "query"} -> Url(x, c)
    [] x.state \in {"http_start", "http_HT"} -> HttpWord(x, c)
    [] x.state \in {"http_major", "http_dot", "http_minor", "http_end"} -> HttpVersion(x, c)
    [] x.state = "line_almost_done" -> LineAlmostDone(x, c)
    [] x.state = "field_start" -> FieldStart(x, c)
    [] x.state = "field" -> Field(x, c)
    [] x.state \in {"discard_ws", "discard_ws_almost_done", "discard_lws"} -> DiscardSpaces(x, c)
    [] x.state = "value" -> HeaderValue(x, c)
    [] x.state = "header_almost_done" -> HeaderAlmostDone(x, c)
    [] x.state = "value_lws" -> ValueLws(x, c)
    [] x.state = "headers_almost_done" -> HeadersAlmostDone(x, c)
    [] x.state = "body_identity" -> BodyIdentity(x, c)
    [] x.state \in {"chunk_size_start", "chunk_size", "chunk_parameters"} -> ChunkSize(x, c)
    [] x.state = "chunk_size_almost_done" -> ChunkSizeAlmostDone(x, c)
    [] x.state = "chunk_data" -> ChunkData(x, c)
    [] x.state \in {"chunk_data_almost_done", "chunk_data_done"} -> ChunkDataDone(x, c)

\* One symbol, which counts while headers are read.
Step(x, c, next) ==
  IF x.errno # "OK" THEN x
  ELSE IF x.left THEN [x EXCEPT !.rest = TRUE]
  ELSE LET y == [x EXCEPT !.p = @ + 1, !.next = next, !.nread = IF x.state \in BodyStates THEN @ ELSE @ + 1]
       IN IF y.nread > MaxHeader THEN Fail(y, "HEADER_OVERFLOW") ELSE Consume(y, c)

\* A read begins in the middle of a name, a value or a target.
Resumed(x) ==
  [x EXCEPT !.p = 0, !.start = 0, !.text = <<>>, !.left = FALSE,
            !.req.whole = @ /\ x.state \notin UrlStates,
            !.mark = CASE x.state = "field" -> "field" [] x.state = "value" -> "value"
                       [] x.state \in UrlStates -> "url" [] OTHER -> "none"]

\* The parser after the first n symbols of a read.
After(x, data, n) ==
  LET after[i \in 0 .. n] ==
        IF i = 0 THEN Resumed(x) ELSE Step(after[i - 1], data[i], IF i = Len(data) THEN "" ELSE data[i + 1])
  IN after[n]

\* One read.  What is known of a name, a value, a target or a body when the
\* read ends is handed on.
Execute(x, data) ==
  LET y == After(x, data, Len(data))
  IN IF y.errno # "OK" \/ y.left THEN y ELSE Flush([y EXCEPT !.req.whole = @ /\ y.mark # "url"])

\* HTTPParser::feed()
Feed(x, data) == IF x.complete THEN x ELSE Execute(x, data)

\* The connection ends after an error, after another protocol began, or when
\* the last request handled was to be the last.
GoesOn(x) ==
  /\ x.errno = "OK"
  /\ ~x.rest
  /\ x.handled # <<>> => ~Last(x.handled).close /\ ~GivenAway(Last(x.handled))

Read ==
  /\ open
  /\ \E n \in 1 .. Len(wire.bytes) - pos :
       LET x == Feed(parser, SubSeq(wire.bytes, pos + 1, pos + n))
       IN /\ parser' = [x EXCEPT !.mark = "none", !.text = <<>>, !.p = 0, !.start = 0, !.next = ""]
          /\ pos' = pos + n
          /\ open' = GoesOn(x)
  /\ UNCHANGED wire

Next == Read

Spec == Init /\ [][Next]_vars
=============================================================================
