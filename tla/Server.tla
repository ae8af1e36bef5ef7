------------------------------- MODULE Server -------------------------------
(***************************************************************************)
(* The HTTP server the program runs on: the acceptor thread, the worker    *)
(* threads with one event loop and one task timer each, and the            *)
(* connections, from accept() to the destructor (crow/http_server.h,       *)
(* http_connection.h, task_timer.h, socket_adaptors.h and run() of app.h). *)
(*                                                                         *)
(* A worker runs the handlers of its loop one after another, so a step of  *)
(* a worker is one handler.  Requests are kinds of requests: how bytes     *)
(* become requests is the module HttpParser, which route takes one is the  *)
(* module Router.                                                          *)
(***************************************************************************)
EXTENDS Integers, Sequences, FiniteSets

CONSTANTS
  Concurrencies, \* the numbers of threads hardware_concurrency() may find
  Conns,         \* Connection objects the acceptor may make
  Offered,       \* what peers send at a time, a sequence of pieces
  MaxSent,       \* times peers send at most
  Timeout,       \* ticks a deadline is set ahead
  Null

ASSUME ServerAssumption ==
  /\ Concurrencies \subseteq Nat
  /\ IsFiniteSet(Concurrencies)
  /\ IsFiniteSet(Conns)
  /\ Concurrencies # {}
  /\ Timeout \in Nat
  /\ MaxSent \in Nat
  /\ Null \notin Conns

\* concurrency() raises the number of threads to two; one of them accepts.
WorkersOf(n) == 1 .. (IF n < 2 THEN 1 ELSE n - 1)

Workers == UNION {WorkersOf(n) : n \in Concurrencies}

\* What decides how a request is answered: where it goes, and whether it is
\* the last one its peer wants to send on the connection.
Requests == [to : {"page", "large", "file", "nohost", "noroute", "early", "upgrade"}, last : BOOLEAN]

\* What a peer may send: a request, the beginning of one, or no HTTP at all.
Pieces == Requests \cup [to : {"part", "bad"}, last : {FALSE}]

ASSUME OfferedAssumption == Offered \subseteq Seq(Pieces)

\* What a response says: a rule's own body, or an error's.
Bodies == {"", "page", "large", "file", "early", "400", "404", "500"}

Answers == [nth : Nat, to : {r.to : r \in Requests}, body : Bodies]

VARIABLES
  phase,     \* "opening", "starting", "running", "stopping" or "ended"
  loop,      \* per worker: "none", or "new" before its loop runs, "running", "writing"
             \* while a peer keeps it in a write, "ended"
  acceptor,  \* the acceptor thread: where it is and the connection it holds
  events,    \* per worker: completed operations whose handlers have to run
  queue,     \* task_queue_length_pool_
  tasks,     \* per worker: the task timer's map, id to connection and ticks left
  highest,   \* per worker: highest_id_ of the task timer
  life,      \* "new", "live" or "freed" for every Connection object
  conn,      \* its fields
  home,      \* the worker whose loop it uses and whose queue it is counted in
  peer,      \* what is at the other end: "away", "up", "stalled" or "gone"
  inbox,     \* received by the socket and not read yet
  unsent,    \* how much peers may still send
  sent       \* answers written to its peer

vars == <<phase, loop, acceptor, events, queue, tasks, highest, life, conn, home, peer, inbox, unsent, sent>>

Event == [kind : {"start", "read", "tick"}, conn : Conns \cup {Null}, ok : BOOLEAN, got : Seq(Pieces)]

Cleared == [completed |-> FALSE, body |-> ""]

\* A new connection.
Fresh ==
  [open |-> FALSE, reading |-> FALSE, task |-> 0, close |-> FALSE,
   complete |-> FALSE, nth |-> 0, req |-> Null, res |-> Cleared]

Idle == [at |-> "idle", i |-> 0, min |-> 0, holds |-> Null]

Init ==
  /\ phase = "opening"
  /\ \E n \in Concurrencies : loop = [w \in Workers |-> IF w \in WorkersOf(n) THEN "new" ELSE "none"]
  /\ acceptor = Idle
  /\ events = [w \in Workers |-> <<>>]
  /\ queue = [w \in Workers |-> 0]
  /\ tasks = [w \in Workers |-> <<>>]
  /\ highest = [w \in Workers |-> 0]
  /\ life = [c \in Conns |-> "new"]
  /\ conn = [c \in Conns |-> Fresh]
  /\ home = [c \in Conns |-> 1]
  /\ peer = [c \in Conns |-> "away"]
  /\ inbox = [c \in Conns |-> <<>>]
  /\ unsent = MaxSent
  /\ sent = [c \in Conns |-> <<>>]

\* The workers of this run of the server.
Pool == {w \in Workers : loop[w] # "none"}

Live(w) == {c \in Conns : life[c] = "live" /\ home[c] = w}

-----------------------------------------------------------------------------
\* Connections live as long as something refers to them: a pending read, an
\* event, a deadline, or the acceptor.

Refers(c, cn, ev, tk, ac) ==
  \/ cn[c].reading
  \/ \E w \in Workers : \E i \in DOMAIN ev[w] : ev[w][i].conn = c
  \/ \E w \in Workers : \E id \in DOMAIN tk[w] : tk[w][id].conn = c
  \/ ac.holds = c

\* The end of a handler: connections nothing refers to any more are destroyed,
\* which closes their sockets and counts them out of their worker's queue.
Settle(lf, cn, qu, ev, tk, ac) ==
  LET gone == {c \in Conns : lf[c] = "live" /\ ~Refers(c, cn, ev, tk, ac)}
  IN /\ life' = [c \in Conns |-> IF c \in gone THEN "freed" ELSE lf[c]]
     /\ conn' = [c \in Conns |-> IF c \in gone THEN Fresh ELSE cn[c]]
     /\ queue' = [w \in Workers |-> qu[w] - Cardinality({c \in gone : home[c] = w})]
     /\ events' = ev
     /\ tasks' = tk
     /\ acceptor' = ac

-----------------------------------------------------------------------------
\* The server starts and stops.

\* The constructor: open, bind and listen.  A failure ends run() at once.
Open ==
  /\ phase = "opening"
  /\ phase' \in {"starting", "ended"}
  /\ UNCHANGED <<loop, acceptor, events, queue, tasks, highest, life, conn, home, peer, inbox, unsent, sent>>

\* A worker thread makes its task timer, clears its count and enters its loop.
StartWorker(w) ==
  /\ phase \in {"starting", "running"}
  /\ loop[w] = "new"
  /\ loop' = [loop EXCEPT ![w] = "running"]
  /\ queue' = [queue EXCEPT ![w] = 0]
  /\ UNCHANGED <<phase, acceptor, events, tasks, highest, life, conn, home, peer, inbox, unsent, sent>>

\* A faulty start: accepting begins with the first worker.
OneUp == \E w \in Pool : loop[w] = "running"

\* run() goes on to accept when all workers are up.
AllUp == \A w \in Pool : loop[w] = "running"

StartAccepting ==
  /\ phase = "starting"
  /\ AllUp
  /\ phase' = "running"
  /\ acceptor' = [Idle EXCEPT !.at = "pick", !.i = 2, !.min = 1]
  /\ UNCHANGED <<loop, events, queue, tasks, highest, life, conn, home, peer, inbox, unsent, sent>>

\* A signal: the acceptor closes and every loop is told to stop.
Stop ==
  /\ phase = "running"
  /\ acceptor.at \in {"wait", "full"}
  /\ phase' = "stopping"
  /\ acceptor' = [acceptor EXCEPT !.at = "closed"]
  /\ UNCHANGED <<loop, events, queue, tasks, highest, life, conn, home, peer, inbox, unsent, sent>>

\* A faulty stop: a loop ends only when it has nothing to run.
EndIdleWorker(w) ==
  /\ phase = "stopping"
  /\ loop[w] = "running"
  /\ events[w] = <<>>
  /\ loop' = [loop EXCEPT ![w] = "ended"]
  /\ UNCHANGED <<phase, acceptor, events, queue, tasks, highest, life, conn, home, peer, inbox, unsent, sent>>

\* A stopped loop runs nothing more: run() returns, is called again, and
\* returns 0.  A worker in a write has to come out of it first.
EndWorker(w) ==
  /\ phase = "stopping"
  /\ loop[w] = "running"
  /\ loop' = [loop EXCEPT ![w] = "ended"]
  /\ UNCHANGED <<phase, acceptor, events, queue, tasks, highest, life, conn, home, peer, inbox, unsent, sent>>

\* run() has joined the workers; the server's members are destroyed, and the
\* loops with the handlers and the connections in them.
End ==
  /\ phase = "stopping"
  /\ \A w \in Pool : loop[w] = "ended"
  /\ phase' = "ended"
  /\ Settle(life, [c \in Conns |-> [conn[c] EXCEPT !.reading = FALSE]], queue,
            [w \in Workers |-> <<>>], [w \in Workers |-> <<>>], Idle)
  /\ UNCHANGED <<loop, highest, home, peer, inbox, unsent, sent>>

-----------------------------------------------------------------------------
\* The acceptor thread.

\* One comparison of pick_io_context_idx(): it stops at a worker with nothing
\* to do.
Compare ==
  /\ acceptor.at = "pick"
  /\ acceptor.i \in Pool
  /\ queue[acceptor.min] > 0
  /\ acceptor' = [acceptor EXCEPT !.i = @ + 1, !.min = IF queue[acceptor.i] < queue[@] THEN acceptor.i ELSE @]
  /\ UNCHANGED <<phase, loop, events, queue, tasks, highest, life, conn, home, peer, inbox, unsent, sent>>

\* do_accept() makes the connection that will be accepted next, on the worker
\* just picked; the handler it runs in then lets the previous one go.
Prepare ==
  /\ acceptor.at = "pick"
  /\ acceptor.i \notin Pool \/ queue[acceptor.min] = 0
  /\ \E c \in Conns :
       /\ life[c] = "new"
       /\ home' = [home EXCEPT ![c] = acceptor.min]
       /\ Settle([life EXCEPT ![c] = "live"], [conn EXCEPT ![c] = Fresh],
                 [queue EXCEPT ![acceptor.min] = @ + 1], events, tasks,
                 [Idle EXCEPT !.at = "wait", !.holds = c])
  /\ UNCHANGED <<phase, loop, highest, peer, inbox, unsent, sent>>

\* A bound of the model: all Connection objects have been used.
Exhausted ==
  /\ acceptor.at = "pick"
  /\ \A c \in Conns : life[c] # "new"
  /\ Settle(life, conn, queue, events, tasks, [Idle EXCEPT !.at = "full"])
  /\ UNCHANGED <<phase, loop, highest, home, peer, inbox, unsent, sent>>

\* A peer connects: start() is posted to the connection's worker.
Accept ==
  /\ acceptor.at = "wait"
  /\ LET c == acceptor.holds
         w == home[c]
     IN /\ peer' = [peer EXCEPT ![c] = "up"]
        /\ conn' = [conn EXCEPT ![c].open = TRUE]
        /\ events' = [events EXCEPT ![w] = Append(@, [kind |-> "start", conn |-> c, ok |-> TRUE, got |-> <<>>])]
  /\ acceptor' = [acceptor EXCEPT !.at = "pick", !.i = 2, !.min = 1]
  /\ UNCHANGED <<phase, loop, queue, tasks, highest, life, home, inbox, unsent, sent>>

\* A faulty accept handler: it counts the connection out, as its destructor will.
AcceptFailsCounting ==
  /\ acceptor.at = "wait"
  /\ acceptor' = [acceptor EXCEPT !.at = "pick", !.i = 2, !.min = 1]
  /\ queue' = [queue EXCEPT ![home[acceptor.holds]] = @ - 1]
  /\ UNCHANGED <<phase, loop, events, tasks, highest, life, conn, home, peer, inbox, unsent, sent>>

\* accept() fails (no descriptor left): the connection is let go by Prepare.
AcceptFails ==
  /\ acceptor.at = "wait"
  /\ acceptor' = [acceptor EXCEPT !.at = "pick", !.i = 2, !.min = 1]
  /\ UNCHANGED <<phase, loop, events, queue, tasks, highest, life, conn, home, peer, inbox, unsent, sent>>

-----------------------------------------------------------------------------
\* The task timer of a worker.

Cancelled(tk, id) == [i \in DOMAIN tk \ {id} |-> tk[i]]

\* start_deadline() of connection c: its old task is cancelled by its id, and
\* a new one is scheduled under the next id.
Scheduled(tk, old, id, c) ==
  [i \in DOMAIN Cancelled(tk, old) \cup {id} |-> IF i = id THEN [conn |-> c, left |-> Timeout] ELSE tk[i]]

Aborted(c) == [kind |-> "read", conn |-> c, ok |-> FALSE, got |-> <<>>]

\* A tick, on time or late: deadlines that have passed close their sockets, and
\* a read that was pending there will complete with an error.  When no task is
\* left, ids are issued from 1 again.
Tick(w, passed) ==
  LET due == {id \in DOMAIN tasks[w] : tasks[w][id].left < passed}
      closed == {tasks[w][id].conn : id \in due}
      aborted == {id \in due : conn[tasks[w][id].conn].reading /\ conn[tasks[w][id].conn].open}
      left == [id \in DOMAIN tasks[w] \ due |-> [tasks[w][id] EXCEPT !.left = @ - passed]]
  IN \E order \in [1 .. Cardinality(aborted) -> aborted] :
       /\ \A i, j \in DOMAIN order : i < j => order[i] < order[j]
       /\ highest' = [highest EXCEPT ![w] = IF DOMAIN left = {} THEN 0 ELSE @]
       /\ Settle(life,
                 [c \in Conns |-> IF c \in closed THEN [conn[c] EXCEPT !.open = FALSE, !.reading = FALSE] ELSE conn[c]],
                 queue,
                 [events EXCEPT ![w] = Tail(@) \o [i \in DOMAIN order |-> Aborted(tasks[w][order[i]].conn)]],
                 [tasks EXCEPT ![w] = left],
                 acceptor)

-----------------------------------------------------------------------------
\* A connection reads.  s is what a handler works on: the connection, its
\* worker's tasks, the answers written, whether its peer can be reached, whether
\* an answer larger than a socket holds was written, and how the parser goes on
\* ("go", "left" for another protocol, "error" or, with an exception, "throw").

\* A faulty response::clear(): it stays completed.
ClearBody(res) == [res EXCEPT !.body = ""]

\* response::clear()
Clear(res) == Cleared

\* complete_request() with a small body, or streamed: the response is written
\* (or lost with the peer), then it and the parser are cleared.
Written(s) ==
  [s EXCEPT !.sent = IF s.up /\ s.k.open THEN Append(@, [nth |-> s.k.nth, to |-> s.k.req, body |-> s.k.res.body])
                     ELSE @,
            !.k.res = Clear(@),
            !.k.req = Null,
            !.k.complete = FALSE]

\* A streamed body has its deadline cancelled, and a static or streamed answer
\* closes the connection itself if it was the last.
Streamed(s) == [Written(s) EXCEPT !.bulk = TRUE, !.tk = Cancelled(@, s.k.task), !.k.open = @ /\ ~s.k.close]
Static(s) ==
  IF s.up THEN [Written(s) EXCEPT !.bulk = TRUE, !.k.open = @ /\ ~s.k.close]
  ELSE \* asio::write throws into the router, whose 500 has no one to send it
       [s EXCEPT !.k.res = [completed |-> TRUE, body |-> "500"], !.k.complete = TRUE]

\* The rule's handler sets the response and ends it; without a rule it is 404.
Answered(s, r) ==
  LET t == [s EXCEPT !.k.res = [completed |-> TRUE, body |-> IF r.to = "noroute" THEN "404" ELSE r.to]]
  IN CASE r.to \in {"page", "noroute"} -> Written(t)
       [] r.to = "large" -> Streamed(t)
       [] r.to = "file" -> Static(t)

\* Connection::handle() of a complete request.  The peer's address is asked
\* for first, which throws when the connection is gone.
Handled(s, r) ==
  LET t == [s EXCEPT !.tk = Cancelled(@, s.k.task), !.k.nth = @ + 1, !.k.req = r.to]
      u == [t EXCEPT !.k.close = r.last]
  IN IF s.unnamed \/ ~s.k.open THEN [t EXCEPT !.goes = "throw"]
     ELSE CASE r.to = "nohost" -> Written([u EXCEPT !.k.res = [completed |-> FALSE, body |-> "400"]])
       [] r.to = "upgrade" ->
            [u EXCEPT !.k.close = TRUE, !.k.res = [completed |-> TRUE, body |-> "404"], !.k.complete = TRUE,
                      !.goes = "left"]
       [] OTHER -> IF s.k.res.completed THEN Written(u) ELSE Answered(u, r)

\* OPTIONS, and HEAD without a rule, are answered when the URL is known, and
\* the parser is told that the input ended, an error in the middle of a request.
AnsweredEarly(s) ==
  [Written([s EXCEPT !.k.nth = @ + 1, !.k.req = "early", !.k.res.body = "early"]) EXCEPT !.goes = "error"]

\* One thing a peer sent goes through the parser.
Parsed(s, piece) ==
  IF s.goes \in {"throw", "error"} THEN s
  ELSE IF s.goes = "left" \/ piece.to = "bad" THEN [s EXCEPT !.goes = "error"]
  ELSE CASE piece.to = "part" -> s
         [] piece.to = "early" -> AnsweredEarly(s)
         [] OTHER -> Handled(s, piece)

\* HTTPParser::feed() ignores everything after a message nobody cleared.
Fed(s, got) ==
  LET after[i \in 0 .. Len(got)] == IF i = 0 THEN s ELSE Parsed(after[i - 1], got[i])
  IN IF s.k.complete THEN s ELSE after[Len(got)]

\* A faulty end of reading: the deadline stays and goes on referring to the
\* connection.
KeepDeadline(tk, k) == tk

\* The end of reading cancels the deadline.
DropDeadline(tk, k) == Cancelled(tk, k.task)

\* How the read handler ends: with an exception the connection is let go, with
\* an error it is closed, after a last request it is left to its destructor,
\* and otherwise it gets a new deadline and reads on.
AfterRead(w, c, s) ==
  LET done == [s.k EXCEPT !.reading = FALSE]
      stopped == [tasks EXCEPT ![w] = DropDeadline(s.tk, done)]
      rest == [events EXCEPT ![w] = Tail(@)]
      end(k, tk) == Settle(life, [conn EXCEPT ![c] = k], queue, rest, tk, acceptor)
  IN /\ sent' = [sent EXCEPT ![c] = s.sent]
     /\ IF s.goes = "throw" THEN end(done, [tasks EXCEPT ![w] = s.tk]) /\ UNCHANGED highest
        ELSE IF s.goes = "error" \/ ~done.open THEN end([done EXCEPT !.open = FALSE], stopped) /\ UNCHANGED highest
        ELSE IF done.close THEN end(done, stopped) /\ UNCHANGED highest
        ELSE
               LET id == highest[w] + 1
               IN /\ end([done EXCEPT !.reading = TRUE, !.task = id],
                         [tasks EXCEPT ![w] = Scheduled(s.tk, done.task, id, c)])
                  /\ highest' = [highest EXCEPT ![w] = id]

-----------------------------------------------------------------------------
\* A worker runs the first of its events.

NextIs(w, kind) == events[w] # <<>> /\ Head(events[w]).kind = kind

Turn(w, kind) == phase \in {"starting", "running"} /\ loop[w] = "running" /\ NextIs(w, kind)

\* A faulty start: only the deadline is set.
StartWithoutReading(w) ==
  /\ Turn(w, "start")
  /\ LET c == Head(events[w]).conn
         id == highest[w] + 1
     IN /\ highest' = [highest EXCEPT ![w] = id]
        /\ Settle(life, [conn EXCEPT ![c].task = id], queue, [events EXCEPT ![w] = Tail(@)],
                  [tasks EXCEPT ![w] = Scheduled(@, conn[c].task, id, c)], acceptor)
  /\ UNCHANGED <<phase, loop, home, peer, inbox, unsent, sent>>

\* Connection::start()
Start(w) ==
  /\ Turn(w, "start")
  /\ LET c == Head(events[w]).conn
         id == highest[w] + 1
     IN /\ highest' = [highest EXCEPT ![w] = id]
        /\ Settle(life, [conn EXCEPT ![c].reading = TRUE, ![c].task = id], queue,
                  [events EXCEPT ![w] = Tail(@)],
                  [tasks EXCEPT ![w] = Scheduled(@, conn[c].task, id, c)], acceptor)
  /\ UNCHANGED <<phase, loop, home, peer, inbox, unsent, sent>>

RunTick(w) ==
  /\ Turn(w, "tick")
  /\ \E passed \in 1 .. Timeout + 1 : Tick(w, passed)
  /\ UNCHANGED <<phase, loop, home, peer, inbox, unsent, sent>>

\* The handler of a read that failed or was aborted.
ReadFailed(w) ==
  /\ Turn(w, "read")
  /\ ~Head(events[w]).ok
  /\ LET c == Head(events[w]).conn
     IN AfterRead(w, c, [k |-> conn[c], tk |-> tasks[w], sent |-> sent[c], goes |-> "error"])
  /\ UNCHANGED <<phase, loop, home, peer, inbox, unsent>>

\* What the handler of the read at the head of w's queue makes of the bytes.
Handler(w, unnamed) ==
  LET e == Head(events[w])
  IN Fed([k |-> conn[e.conn], tk |-> tasks[w], sent |-> sent[e.conn], up |-> peer[e.conn] # "gone",
          unnamed |-> unnamed, bulk |-> FALSE, goes |-> "go"], e.got)

\* Answers are written synchronously, and no time is set for it: a peer that
\* does not take a long one keeps the worker in the write.
Block(w) ==
  /\ Turn(w, "read")
  /\ Head(events[w]).ok
  /\ peer[Head(events[w]).conn] = "stalled"
  /\ Handler(w, FALSE).bulk
  /\ loop' = [loop EXCEPT ![w] = "writing"]
  /\ UNCHANGED <<phase, acceptor, events, queue, tasks, highest, life, conn, home, peer, inbox, unsent, sent>>

\* The handler of a read: everything received is parsed and answered before it
\* ends, also after stop() when it was in a write.  When the peer has gone, its
\* address may not be found or the answer be lost.
ReadDone(w) ==
  /\ NextIs(w, "read")
  /\ Turn(w, "read") \/ loop[w] = "writing"
  /\ Head(events[w]).ok
  /\ \E unnamed \in BOOLEAN :
       LET c == Head(events[w]).conn
           s == Handler(w, unnamed)
       IN /\ unnamed => peer[c] = "gone"
          /\ s.bulk => peer[c] # "stalled"
          /\ AfterRead(w, c, s)
  /\ loop' = [loop EXCEPT ![w] = "running"]
  /\ UNCHANGED <<phase, home, peer, inbox, unsent>>

-----------------------------------------------------------------------------
\* The network and the clock.

TickDue(w) ==
  /\ loop[w] \in {"running", "writing"}
  /\ \A i \in DOMAIN events[w] : events[w][i].kind # "tick"
  /\ events' = [events EXCEPT ![w] = Append(@, [kind |-> "tick", conn |-> Null, ok |-> TRUE, got |-> <<>>])]
  /\ UNCHANGED <<phase, loop, acceptor, queue, tasks, highest, life, conn, home, peer, inbox, unsent, sent>>

Complete(c, ok, n) ==
  /\ conn[c].reading
  /\ conn' = [conn EXCEPT ![c].reading = FALSE]
  /\ events' = [events EXCEPT ![home[c]] =
                  Append(@, [kind |-> "read", conn |-> c, ok |-> ok, got |-> SubSeq(inbox[c], 1, n)])]
  /\ inbox' = [inbox EXCEPT ![c] = SubSeq(@, n + 1, Len(@))]
  /\ UNCHANGED <<phase, loop, acceptor, queue, tasks, highest, life, home, peer, unsent, sent>>

\* Bytes are there to be read: some of them or all.
Receive(c) == \E n \in 1 .. Len(inbox[c]) : Complete(c, TRUE, n)

\* The peer closed or reset the connection.
Lose(c) == peer[c] = "gone" /\ Complete(c, FALSE, 0)

Connected(c) == life[c] = "live" /\ peer[c] \in {"up", "stalled"}

Send(c) ==
  /\ Connected(c)
  /\ unsent > 0
  /\ \E pieces \in Offered : inbox' = [inbox EXCEPT ![c] = @ \o pieces]
  /\ unsent' = unsent - 1
  /\ UNCHANGED <<phase, loop, acceptor, events, queue, tasks, highest, life, conn, home, peer, sent>>

Turns(c, from, to) ==
  /\ life[c] = "live"
  /\ peer[c] \in from
  /\ peer' = [peer EXCEPT ![c] = to]
  /\ UNCHANGED <<phase, loop, acceptor, events, queue, tasks, highest, life, conn, home, inbox, unsent, sent>>

\* A peer stops taking answers, takes them again, or goes away.
Stall(c) == Turns(c, {"up"}, "stalled")
Resume(c) == Turns(c, {"stalled"}, "up")
Leave(c) == Turns(c, {"up", "stalled"}, "gone")

-----------------------------------------------------------------------------

Accepting == Compare \/ Prepare \/ Exhausted \/ Accept \/ AcceptFails
Work(w) == StartWorker(w) \/ Start(w) \/ RunTick(w) \/ ReadFailed(w) \/ Block(w) \/ ReadDone(w) \/ EndWorker(w)
Network(c) == Receive(c) \/ Lose(c)
Peer(c) == Send(c) \/ Stall(c) \/ Resume(c) \/ Leave(c)

Next ==
  \/ Open \/ StartAccepting \/ Stop \/ End
  \/ Accepting
  \/ \E w \in Workers : Work(w) \/ TickDue(w)
  \/ \E c \in Conns : Network(c) \/ Peer(c)

Spec == Init /\ [][Next]_vars

\* Threads are scheduled and the network delivers.  A write that waits gets
\* through when its peer takes bytes again and again; nothing makes it do so,
\* nobody has to send or to leave, and the clock need not tick.
FairSpec ==
  /\ Spec
  /\ WF_vars(StartAccepting \/ Compare \/ Prepare \/ Exhausted \/ End)
  /\ \A w \in Workers : SF_vars(Work(w))
  /\ \A c \in Conns : WF_vars(Network(c))
=============================================================================
