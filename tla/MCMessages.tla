----------------------------- MODULE MCMessages -----------------------------
(***************************************************************************)
(* The parts of Crow that a worker's thread calls for one request: parser, *)
(* router and response, query and JSON.  They share no state, so one run   *)
(* checks each of them while the others rest.                              *)
(***************************************************************************)
EXTENDS HttpParserProperties, ExchangeProperties

CONSTANTS
  Files,                                                            \* of Pages
  Targets, Asked, MaxPairs,                                         \* of Query
  Alphabets, MaxText, MaxDepth, MaxCopies, Assigned, MaxAssigned    \* of Json

VARIABLES part, pairs, left, text, buffer, copies, read, w, meant

X == INSTANCE PagesProperties
Q == INSTANCE QueryProperties
J == INSTANCE JsonProperties

PagesFindWhatTheyAsk == X!PagesFindWhatTheyAsk
ContentsAreWhatIsLeft == Q!ContentsAreWhatIsLeft
LoadIsJson == J!LoadIsJson
DumpsLoadBack == J!DumpsLoadBack
ReadsAgree == J!ReadsAgree

-----------------------------------------------------------------------------
ParserRests == wire = Noise(<<>>) /\ pos = 0 /\ parser = NewParser /\ open = TRUE
ExchangeRests ==
  /\ app = [rules |-> <<>>, catchAll |-> [kind |-> "none"], requests |-> {}]
  /\ router = [state |-> "new", tables |-> NoTables]
  /\ conn = NewConnection /\ asked = NothingAsked /\ said = NoAnswer
QueryRests == pairs = <<>> /\ left = <<>>

queryVars == <<pairs, left>>
jsonVars == <<text, buffer, copies, read, w, meant>>

MCInit ==
  \/ part = "parser" /\ Init /\ ExchangeRests /\ QueryRests /\ J!Init
  \/ part = "exchange" /\ ParserRests /\ ExchangeInit /\ QueryRests /\ J!Init
  \/ part = "query" /\ ParserRests /\ ExchangeRests /\ Q!Init /\ J!Init
  \/ part = "json" /\ ParserRests /\ ExchangeRests /\ QueryRests /\ J!Init

MCNext ==
  /\ UNCHANGED part
  /\ \/ part = "parser" /\ Next /\ UNCHANGED <<exchangeVars, queryVars, jsonVars>>
     \/ part = "exchange" /\ ExchangeNext /\ UNCHANGED <<vars, queryVars, jsonVars>>
     \/ part = "query" /\ Q!Next /\ UNCHANGED <<vars, exchangeVars, jsonVars>>
     \/ part = "json" /\ J!Next /\ UNCHANGED <<vars, exchangeVars, queryVars>>

MCSpec == MCInit /\ [][MCNext]_<<part, vars, exchangeVars, queryVars, jsonVars>>

-----------------------------------------------------------------------------
\* Requests as peers write them, and bytes that are no requests.

Message(method, path, query, headers, body) ==
  [method |-> method, path |-> path, query |-> query, version |-> <<1, 1>>, headers |-> headers, body |-> body,
   chunks |-> <<>>, trailers |-> <<>>]

Host == <<<<"host">>, <<"x">>>>
Page == <<"/", "x">>

MCRouted == {Page, <<"/">>}

Get == Message("GET", Page, <<>>, <<Host>>, <<>>)
Search == Message("GET", Page, <<"?", "x">>, <<Host, <<Names.connection, Words.keep>>>>, <<>>)
Form == Message("POST", Page, <<>>, <<Host, <<<<"x">>, <<"x", " ", "x">>>>>>, <<"x", "cr", "lf">>)
Old == [Message("PUT", Page, <<>>, <<>>, <<"x">>) EXCEPT !.version = <<1, 0>>]
OldKept == [Old EXCEPT !.headers = <<<<Names.connection, Words.keep>>>>]
LastOne == Message("GET", Page, <<>>, <<Host, <<Names.connection, Words.close>>>>, <<>>)
Missing == Message("GET", <<"/", "1">>, <<>>, <<Host>>, <<>>)
Probe == Message("HEAD", Page, <<>>, <<Host>>, <<>>)
MissingProbe == Message("HEAD", <<"/", "1">>, <<>>, <<Host>>, <<>>)
Options == Message("OPTIONS", Page, <<>>, <<Host>>, <<>>)
Http2 == Message("POST", Page, <<>>, <<Host, <<Names.upgrade, <<"h", "2">>>>>>, <<"x">>)
Socket == Message("GET", Page, <<>>, <<Host, <<Names.upgrade, <<"x">>>>>>, <<>>)
Tunnel == [Message("CONNECT", <<"h", ":", "1">>, <<>>, <<<<Names.connection, Words.keep>>>>, <<>>) EXCEPT !.version = <<1, 0>>]
Parts == [Message("POST", Page, <<>>, <<Host>>, <<"x", "1", "cr">>) EXCEPT
            !.chunks = <<1, 2>>, !.trailers = <<<<<<"x">>, <<"1">>>>, <<<<"host">>, <<"2">>>>>>]

LineEnd == <<"cr", "lf">>
Request == <<"G", "ET", " ", "/", " ", "HT", "TP/", "1", ".", "1">> \o LineEnd

\* Lengths that overflow or are given twice, folded and empty values, codings,
\* requests of HTTP/0.9, absolute targets, and other protocols.
MCNoise ==
  {Request \o Names.length \o <<":", "3", "3", "3">>,
   Request \o Names.length \o <<":", "3", "1", "lf", "lf">> \o <<"x", "x">>,
   Request \o Names.length \o <<":", "1", " ", "lf">> \o Names.length \o <<":", "1", "lf">>,
   Request \o Names.length \o <<":", "1", "cr", "lf", " ", " ", "lf", "lf", "x">>,
   Request \o Names.encoding \o <<":", "x", ",", " ">> \o Words.chunked \o <<" ", "lf">> \o LineEnd
     \o <<"1", "1", "cr", "lf", "x">>,
   Request \o Names.encoding \o <<":">> \o Words.chunked \o <<"lf">> \o LineEnd \o <<"1", ";", "x", "cr", "lf", "x", "x">>,
   Request \o Names.encoding \o <<":">> \o Words.chunked \o <<"lf", "lf", "3", "3", "3">>,
   Request \o Names.encoding \o <<":", "x", "lf">> \o LineEnd,
   Request \o Names.encoding \o <<":">> \o Words.chunked \o <<"lf">> \o Names.length \o <<":", "1", "lf">> \o LineEnd,
   Request \o Names.connection \o <<":", " ", "cr", "lf", " ", "clo", "x", "lf">> \o Names.connection \o <<"x", ":", "lf">>
     \o Names.proxy \o <<":", "keep", "-alive", " ", "lf", "bad">>,
   <<"G", "ET", " ", "/", "lf", "host", ":", "x", "lf", "lf">>,
   <<"P", "OST", " ", "/", "lf">>,
   <<"cr", "lf", "G", "ET", " ", "x", ":", "/", "/", "x", "@", "h", "?", "?", " ", "HT">>,
   <<"C", "ONNECT", " ", "h", ":", "1", " ", "HT", "TP/", "1", ".", "0", "lf", "lf", "x">>}

MCWires ==
  {Requests(ms) : ms \in {<<Get, Search, Get>>, <<Form, Get>>, <<Search, Form>>, <<Parts, Get>>,
                          <<OldKept, Old>>, <<Get, LastOne>>, <<Missing, Probe>>,
                          <<Probe, MissingProbe, Get>>, <<Get, Options>>, <<Http2, Get>>, <<Tunnel, Get>>, <<Socket>>}}
    \cup {Noise(bytes) : bytes \in MCNoise}
-----------------------------------------------------------------------------
\* Rules that share their beginnings, an application with every kind of handler,
\* and what is asked of them.

Returns(code, size) == [kind |-> "returns", code |-> code, size |-> size]
Rule(url, methods, handler) == [url |-> url, methods |-> methods, handler |-> handler]
G(url) == Rule(url, {"GET"}, Returns(200, 1))
MCUrls == {<<"/", "a", "b">>, <<"/", "a">>, <<"/", "a", "/">>, <<"/", "<int>", "b">>, <<"/", "<str>">>,
           <<"/", "a", "<path>">>, <<"/", "<string>", "/", "b">>, <<"/", "<uint>">>, <<"/", "<double>", "b">>}
NoCatchAll == [kind |-> "none", code |-> 0, size |-> 0]
Writes(size) == [kind |-> "writes", code |-> 0, size |-> size]
File(size) == [kind |-> "file", code |-> 0, size |-> size]
Throws == [kind |-> "throws", code |-> 500, size |-> 0]
Program ==
  <<Rule(<<"/", "a">>, {"GET"}, File(5)),
    Rule(<<"/", "a", "b">>, {"GET", "POST"}, Returns(402, 1)),
    Rule(<<"/", "b", "/">>, {"POST"}, Throws),
    Rule(<<"/", "b", "a">>, {"POST", "GET"}, Writes(2)),
    Rule(<<"/", "b", "b">>, {"HEAD", "GET"}, Returns(204, 0)),
    Rule(<<"/", "a", "a">>, {"GET"}, File(-1))>>
MCRequests ==
  {[method |-> m, url |-> u] : m \in {"GET", "POST", "HEAD"},
     u \in {<<"/", "a">>, <<"/", "a", "b">>, <<"/", "b">>, <<"/", "b", "/">>, <<"/", "b", "a">>, <<"/", "b", "b">>,
            <<"/", "a", "a">>}}
   \cup {[method |-> "OPTIONS", url |-> u] : u \in {<<"/", "*">>, <<"/", "a">>, <<"/", "1">>}}
Lookups ==
  {[method |-> "GET", url |-> u] :
     u \in {<<"/", "-", "1", "b">>, <<"/", "1", "1", "1">>, <<"/", "1", ".", "b">>, <<"/", "a", "/">>,
            <<"/", "a", "/", "b">>}}
Tries == {[rules |-> <<G(u), G(v), G(x)>>, catchAll |-> NoCatchAll, requests |-> {}] : u, v, x \in MCUrls}
\* The files the pages name, and those that nothing names.
FileNames == {"add_customers", "add_product", "add_sale", "add_users", "contact", "dashboard", "delete_customers",
          "delete_product", "delete_sale", "delete_users", "edit_customers", "edit_product", "employee_dashboard",
          "landing", "login", "menu_bar", "privacy", "register", "sales_report", "terms", "terms_service",
          "view_audit_users", "view_customers", "view_products", "view_sales", "view_users"}
MCFiles ==
  {"html/" \o n \o ".html" : n \in FileNames} \cup {"css/" \o n \o ".css" : n \in FileNames \cup {"auth"}}
    \cup {"js/" \o n \o ".js" : n \in FileNames \ {"privacy", "terms_service"}}
    \cup {"images/Prodexa_logo.png", "images/northstack_pilar.png"}

\* The program's own rules, and some of what is asked of them.
Served == INSTANCE Pages
Sampled == {[method |-> "GET", url |-> Served!Chars(u)] : u \in {"/sales", "/me"}} \cup {[method |-> "POST", url |-> Served!Chars("/add_sale")]}
MCApps ==
  Tries
    \cup {[rules |-> Served!Rules, catchAll |-> NoCatchAll, requests |-> Sampled]}
    \cup {[rules |-> <<G(<<"/", "<int>", "b">>), G(<<"/", "<path>">>)>>, catchAll |-> NoCatchAll, requests |-> Lookups]}
    \cup {[rules |-> Program, catchAll |-> c, requests |-> MCRequests] : c \in {NoCatchAll, Returns(404, 1), Writes(1), File(1), Throws}}

-----------------------------------------------------------------------------
\* Queries with lists and dictionaries, values that are encoded, and queries
\* that nobody meant.

Pair(name, value, raw) == [name |-> name, value |-> value, raw |-> raw]
A == <<"a">>
Pairs ==
         {Pair(A, A, A), Pair(A, <<" ", "=">>, <<"+", "%", "3", "d">>),
          Pair(<<"d">>, <<"&", "%">>, <<"%", "2", "6", "%", "2", "5">>),
          Pair(<<"a", "[", "]">>, A, <<"%", "6", "1">>), Pair(<<"a", "[", "]">>, <<"+">>, <<"%", "2", "b">>),
          Pair(<<"a", "[", "d", "]">>, A, A), Pair(<<"a", "[", "d", "]">>, <<"d">>, <<"d">>),
          Pair(<<"d", "[", "a", "]">>, <<>>, <<>>),
          Pair(<<"d", "[", "0", "]">>, <<"0">>, <<"0">>)}
Sent(s) ==
  LET pair(i) == (IF i > 1 THEN <<"&">> ELSE <<>>) \o s[i].name \o <<"=">> \o s[i].raw
  IN [target |-> <<"/", "?">> \o FlattenSeq([i \in DOMAIN s |-> pair(i)]),
      meant |-> [i \in DOMAIN s |-> [name |-> s[i].name, value |-> s[i].value]]]
Odd(t) == [target |-> t, meant |-> <<>>]
MCTargets ==
  {Sent(s) : s \in BoundedSeq(Pairs, 4) \ {<<>>}}
    \cup {Odd(<<"/", "a">>), Odd(<<"/", "?", "a", "&", "%", "6", "1", "=", "a", "%", "d">>),
          [Odd(<<"/", "?", "a", "=", "0", "%", "0", "0", "d">>) EXCEPT !.meant = <<[name |-> A, value |-> <<"0">>]>>]}
MCAsked == {A, <<"d">>}

-----------------------------------------------------------------------------
\* Texts over symbols that meet in them, and what handlers assign.

MCAlphabets ==
  {{"[", "]", "{", "}", ",", ":", "quote", "1"}, {"[", "]", "{", "}", ",", " ", "true", "null"},
   {"0", "1", ".", "-", "+", "e", ","}, {"quote", "\\", "u", "0", "a"}, {"quote", "\\", "n", "lf", "nul"}}
Val(t) == [t |-> t, nt |-> "Null", num |-> 0, s |-> <<>>, l |-> <<>>, o |-> <<>>]
Str(s) == [Val("String") EXCEPT !.s = s]
Num(n) == [Val("Number") EXCEPT !.num = n, !.nt = "Signed_integer"]
MCAssigned == [path : {<<>>, <<"key", <<"a">>>>, <<"key", <<"lf">>>>, <<"index", 1>>, <<"index", 2>>},
               value : {Val("Null"), Val("True"), Str(<<"quote", "u1">>), Num(-10),
                        [Val("List") EXCEPT !.l = <<Num(1)>>],
                        [Val("Object") EXCEPT !.o = (<<"\\">> :> Val("False"))]}]
=============================================================================
