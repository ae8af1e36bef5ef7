------------------------ MODULE HttpParserProperties ------------------------
(* What becomes of the requests a peer writes, however they are read.      *)
EXTENDS HttpParser

-----------------------------------------------------------------------------
\* Requests as peers write them.

Line(header) == header[1] \o <<":", " ">> \o header[2] \o <<"cr", "lf">>

Framed(m) ==
  CASE m.chunks # <<>> -> <<<<Names.encoding, Words.chunked>>>>
    [] m.chunks = <<>> /\ m.body # <<>> -> <<<<Names.length, <<ToString(Len(m.body))>>>>>>
    [] OTHER -> <<>>

Headers(m) == m.headers \o Framed(m)

\* The body in chunks of the lengths wanted, and headers after the last.
Chunked(m) ==
  LET from(i) == FoldLeft(+, 0, SubSeq(m.chunks, 1, i - 1))
      chunk(i) == <<ToString(m.chunks[i]), "cr", "lf">> \o SubSeq(m.body, from(i) + 1, from(i + 1)) \o <<"cr", "lf">>
  IN FlattenSeq([i \in DOMAIN m.chunks |-> chunk(i)]) \o <<"0", "cr", "lf">>
       \o FlattenSeq([i \in DOMAIN m.trailers |-> Line(m.trailers[i])]) \o <<"cr", "lf">>

Bytes(m) ==
  <<CHOOSE c \in DOMAIN Assumed : m.method \in {Assumed[c], IF c = "P" THEN "PUT" ELSE ""},
    MethodRest[m.method], " ">> \o m.path \o m.query
    \o <<" ", "HT", "TP/", ToString(m.version[1]), ".", ToString(m.version[2]), "cr", "lf">>
    \o FlattenSeq([i \in DOMAIN Headers(m) |-> Line(Headers(m)[i])]) \o <<"cr", "lf">>
    \o (IF m.chunks = <<>> THEN m.body ELSE Chunked(m))

\* Several requests on one connection, and bytes that are no requests.
Requests(ms) == [sent |-> ms, bytes |-> FlattenSeq([i \in DOMAIN ms |-> Bytes(ms[i])])]
Noise(bytes) == [sent |-> <<>>, bytes |-> bytes]

\* Whether the connection is to be kept after a request.
Keeps(m) ==
  LET says(w) == \E i \in DOMAIN m.headers : m.headers[i][1] = Names.connection /\ m.headers[i][2] = Words[w]
  IN IF m.version = <<1, 1>> THEN ~says("close") ELSE says("keep")

-----------------------------------------------------------------------------

SentKnown == wire.sent # <<>>

\* The requests handled are those the peer sent, in their order, each with its
\* own method, target, headers and body, and the connection is kept or closed
\* as they say, however many of them and whatever parts of them a read holds.
\* (Headers after a body may be added; a request taken for one of another
\* protocol has no body.)  A target that came whole is routed by the part before
\* its query.  The code does not keep this for a target that came in parts, nor
\* for the query of a second request in one read.
HandledAsSent ==
  SentKnown => \A i \in DOMAIN parser.handled :
             /\ i <= Len(wire.sent)
             /\ LET r == parser.handled[i]
                    m == wire.sent[i]
                IN /\ r.method = m.method
                   /\ r.raw = m.path \o m.query
                   /\ r.whole => r.url = m.path
                   /\ r.version = m.version
                   /\ IsPrefix(Headers(m), r.headers)
                   /\ Len(r.headers) <= Len(Headers(m)) + Len(m.trailers)
                   /\ r.upgrade \/ r.body = m.body
                   /\ r.close = ~Keeps(m)

\* When everything is read, every request has been handled, unless one was
\* answered early or taken for one of another protocol.  Of the requests whose
\* target came whole, only OPTIONS and HEAD without a route are answered early.
NothingIsLost ==
  SentKnown =>
    /\ pos = Len(wire.bytes) =>
         \/ Len(parser.handled) = Len(wire.sent)
         \/ parser.early # <<>>
         \/ \E i \in DOMAIN parser.handled : parser.handled[i].upgrade
    /\ \A i \in DOMAIN parser.early :
         parser.early[i].whole =>
           LET m == wire.sent[Len(parser.handled) + 1]
           IN m.method = "OPTIONS" \/ (m.method = "HEAD" /\ m.path \notin Routed)

\* What a read leaves: the state, the errors, and the requests without what
\* depends on the parts their targets came in.
Left(x) ==
  [at |-> <<x.state, x.header, x.index, x.flags, x.encoded, x.length, x.errno, x.building, x.field, x.value>>,
   requests |-> [i \in DOMAIN x.handled |-> [x.handled[i] EXCEPT !.url = <<>>, !.whole = TRUE]]]

\* http_parser_merged.h:72: callbacks come "arbitrarally many times for each
\* string".  Reads that end anywhere, but not in the target of a HEAD, whose
\* route is looked up at once, or in front of the 2 of "h2", leave the same as
\* one read of the same bytes, for bytes that are no request too.  One read with
\* more in it than a request for another protocol ends the connection.
ReadsDoNotMatter ==
  LET one == Execute(NewParser, SubSeq(wire.bytes, 1, pos))
  IN open /\ ~parser.cut /\ ~one.cut /\ ~one.rest => Left(parser) = Left(one)
=============================================================================
