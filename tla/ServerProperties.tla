-------------------------- MODULE ServerProperties --------------------------
(* What the server's connections, deadlines and counters have to keep.     *)
EXTENDS Server

\* Every variable has its type (crow/http_server.h, http_connection.h).
TypeOK ==
  /\ phase \in {"opening", "starting", "running", "stopping", "ended"}
  /\ loop \in [Workers -> {"none", "new", "running", "writing", "ended"}]
  /\ acceptor.holds \in Conns \cup {Null}
  /\ \A w \in Workers : \A i \in DOMAIN events[w] : events[w][i] \in Event
  /\ queue \in [Workers -> Nat]
  /\ highest \in [Workers -> Nat]
  /\ \A w \in Workers : \A id \in DOMAIN tasks[w] : id \in 1 .. highest[w] /\ tasks[w][id].conn \in Conns
  /\ life \in [Conns -> {"new", "live", "freed"}]
  /\ home \in [Conns -> Workers]
  /\ peer \in [Conns -> {"away", "up", "stalled", "gone"}]
  /\ \A c \in Conns : \A i \in DOMAIN sent[c] : sent[c][i] \in Answers

\* The length do_accept() balances by is the number of the worker's live
\* connections, the one waiting to be accepted included: no start, failed
\* accept, exception or late deadline counts one twice or forgets one.
QueueCountsConnections ==
  phase \in {"running", "stopping"} => \A w \in Pool : queue[w] = Cardinality(Live(w))

\* A connection lives for a read, an event or the acceptor, and never because
\* its deadline still refers to it: what is closed is freed at once, not after
\* the timeout.
NoneLivesForItsDeadline ==
  \A c \in Conns : life[c] = "live" => Refers(c, conn, events, [w \in Workers |-> <<>>], acceptor)

\* What a request must be answered with.
BodyOf(to) == CASE to = "nohost" -> "400" [] to = "noroute" -> "404" [] OTHER -> to

\* Answers come in the order of their requests, one for each at most, and say
\* what their own request asked for, though one response object and one parser
\* serve all requests of a connection and are cleared in the middle of parsing.
AnswersFitRequests ==
  \A c \in Conns : \A i \in DOMAIN sent[c] :
    /\ sent[c][i].body = BodyOf(sent[c][i].to)
    /\ \A j \in 1 .. i - 1 : sent[c][j].nth < sent[c][i].nth

\* A read that goes on has its own deadline (crow/app.h:336: "Set the
\* connection timeout in seconds (default is 5)").  The code does not keep
\* this: a connection whose deadline has run cancels it again by its id, which
\* may belong to another connection by then.
EveryReadHasADeadline ==
  \A c \in Conns : conn[c].reading => \E id \in DOMAIN tasks[home[c]] : tasks[home[c]][id].conn = c

\* A worker that a peer keeps in a write for good: the code sets no time for it.
KeptForGood(w) == <>[](loop[w] = "writing")

\* A connection whose peer has gone is freed, whatever other peers send, take
\* or leave, unless one of them keeps the connection's worker for good.
GoneConnectionsAreFreed ==
  \A c \in Conns, w \in Workers :
    ~KeptForGood(w) => ((peer[c] = "gone" /\ home[c] = w) ~> (life[c] = "freed"))

\* A server told to stop ends, whatever its connections wait for, unless a peer
\* keeps a worker for good: stop() does not reach a worker in a write.
StoppedServersEnd ==
  (\A w \in Workers : ~KeptForGood(w)) => (phase = "stopping" ~> phase = "ended")
=============================================================================
