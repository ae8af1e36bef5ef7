---------------------------- MODULE ServerProofs ----------------------------
(***************************************************************************)
(* Proofs about the server, for any number of threads and connections and  *)
(* whatever peers send: the lengths the acceptor balances by count the     *)
(* connections of each worker, no connection lives for its deadline alone, *)
(* and answers are those of their requests, in their order.                *)
(***************************************************************************)
EXTENDS ServerProperties, FiniteSetTheorems, SequenceTheorems, Induction, TLAPS

Phases == {"opening", "starting", "running", "stopping", "ended"}
Loops == {"none", "new", "running", "writing", "ended"}
Lives == {"new", "live", "freed"}

Acceptor == [at : {"idle", "pick", "wait", "full", "closed"}, i : Int, min : Int,
             holds : Conns \cup {Null}]

\* Types, and a pick has a worker so far.
CountTypes ==
  /\ phase \in Phases
  /\ loop \in [Workers -> Loops]
  /\ acceptor \in Acceptor
  /\ acceptor.at = "pick" => acceptor.min \in Workers
  /\ queue \in [Workers -> Int]
  /\ life \in [Conns -> Lives]
  /\ home \in [Conns -> Workers]

\* A worker clears its length when it starts; connections come when all have.
NoneBeforeAccepting ==
  phase \in {"opening", "starting"} =>
    /\ acceptor.at = "idle"
    /\ \A c \in Conns : life[c] = "new"

AllStarted == phase = "running" => \A w \in Workers : loop[w] # "new"

Counted == \A w \in Workers : queue[w] = Cardinality(Live(w))

CountInv == CountTypes /\ NoneBeforeAccepting /\ AllStarted /\ Counted

\* What the acceptor thread becomes when it picks a worker.
LEMMA PickType ==
  ASSUME NEW a \in Acceptor, NEW n \in Int, NEW m \in Int
  PROVE  /\ [a EXCEPT !.at = "pick"] \in Acceptor
         /\ [a EXCEPT !.at = "pick", !.i = n, !.min = m] \in Acceptor
         /\ [a EXCEPT !.at = "pick", !.i = n, !.min = m].min = m
         /\ [a EXCEPT !.i = n, !.min = m] \in Acceptor
         /\ [a EXCEPT !.i = n, !.min = m].at = a.at
         /\ [a EXCEPT !.i = n, !.min = m].min = m
BY DEF Acceptor

\* A pick begins with the first worker, and compares it with the second.
LEMMA PickBegins ==
  ASSUME NEW a \in Acceptor
  PROVE  /\ [a EXCEPT !.at = "pick", !.i = 2, !.min = 1] \in Acceptor
         /\ [a EXCEPT !.at = "pick", !.i = 2, !.min = 1].min = 1
<1>1. 2 \in Int /\ 1 \in Int
  OBVIOUS
<1> QED
  BY <1>1, PickType, Zenon

\* And when it waits or has come to an end.
LEMMA WaitType ==
  ASSUME NEW a \in Acceptor
  PROVE  /\ [a EXCEPT !.at = "closed"] \in Acceptor /\ [a EXCEPT !.at = "closed"].at = "closed"
         /\ [a EXCEPT !.at = "full"] \in Acceptor /\ [a EXCEPT !.at = "full"].at = "full"
         /\ \A c \in Conns : /\ [a EXCEPT !.at = "wait", !.holds = c] \in Acceptor
                             /\ [a EXCEPT !.at = "wait", !.holds = c].at = "wait"
                             /\ [a EXCEPT !.at = "wait", !.holds = c].holds = c
BY DEF Acceptor

\* Where it begins.
LEMMA IdleType == Idle \in Acceptor /\ Idle.at = "idle"
BY DEF Idle, Acceptor

\* Workers are numbers, and there is a first one.
LEMMA WorkersAreNumbers == Workers \subseteq Nat /\ 1 \in Workers
<1>1. \A n \in Nat : WorkersOf(n) \subseteq Nat /\ 1 \in WorkersOf(n)
  BY DEF WorkersOf
<1> QED
  BY <1>1, ServerAssumption DEF Workers

\* Connections of a worker are finitely many.
LEMMA LiveFinite ==
  ASSUME NEW w
  PROVE  IsFiniteSet(Live(w)) /\ Cardinality(Live(w)) \in Nat
<1>1. IsFiniteSet(Conns) /\ Live(w) \subseteq Conns
  BY ServerAssumption DEF Live
<1> QED
  BY <1>1, FS_Subset, FS_CardinalityType

\* The end of a handler counts out what it destroys, each connection in the
\* queue it was counted into. What the acceptor holds is not destroyed, so that
\* it may just have been given its worker.
LEMMA SettleCounts ==
  ASSUME CountTypes, home' \in [Conns -> Workers],
         NEW lf \in [Conns -> Lives], NEW qu \in [Workers -> Int],
         NEW cn, NEW ev, NEW tk, NEW ac,
         Settle(lf, cn, qu, ev, tk, ac),
         \A c \in Conns : home'[c] = home[c] \/ ac.holds = c,
         \A w \in Workers : qu[w] = Cardinality({c \in Conns : lf[c] = "live" /\ home'[c] = w})
  PROVE  /\ queue' \in [Workers -> Int] /\ life' \in [Conns -> Lives]
         /\ \A c \in Conns : lf[c] = "new" => life'[c] = "new"
         /\ Counted'
<1> DEFINE gone == {c \in Conns : lf[c] = "live" /\ ~Refers(c, cn, ev, tk, ac)}
<1>1. /\ life' = [c \in Conns |-> IF c \in gone THEN "freed" ELSE lf[c]]
      /\ queue' = [w \in Workers |-> qu[w] - Cardinality({c \in gone : home[c] = w})]
  BY DEF Settle
<1>2. (\A c \in gone : lf[c] = "live" /\ home'[c] = home[c]) /\ gone \subseteq Conns
  BY DEF Refers
<1> HIDE DEF gone
<1>3. life' \in [Conns -> Lives] /\ \A c \in Conns : lf[c] = "new" => life'[c] = "new"
  BY <1>1, <1>2 DEF Lives
<1>4. ASSUME NEW w \in Workers PROVE queue'[w] \in Int /\ queue'[w] = Cardinality(Live(w)')
  <2> DEFINE before == {c \in Conns : lf[c] = "live" /\ home'[c] = w}
             out == {c \in gone : home[c] = w}
  <2>1. Live(w)' = before \ out /\ before \cap out = out
    BY <1>1, <1>2 DEF Live
  <2>2. queue'[w] = qu[w] - Cardinality(out) /\ qu[w] = Cardinality(before) /\ qu[w] \in Int
    BY <1>1
  <2>3. IsFiniteSet(before) /\ IsFiniteSet(out)
    BY <1>2, ServerAssumption, FS_Subset
  <2> HIDE DEF before, out
  <2>4. Cardinality(before \ out) = Cardinality(before) - Cardinality(out)
    <3>1. Cardinality(before \ out) = Cardinality(before) - Cardinality(before \cap out)
      BY <2>3, FS_Difference
    <3> QED
      BY <2>1, <3>1
  <2>5. Cardinality(out) \in Nat
    BY <2>3, FS_CardinalityType
  <2> QED
    BY <2>1, <2>2, <2>4, <2>5
<1> QED
  BY <1>1, <1>3, <1>4 DEF Counted

\* A handler of a worker: it changes no connection's worker and takes none.
LEMMA HandlerCounts ==
  ASSUME CountInv, NEW cn, NEW ev, NEW tk, Settle(life, cn, queue, ev, tk, acceptor),
         UNCHANGED <<phase, home>>,
         loop' = loop \/ \E w \in Workers : loop' = [loop EXCEPT ![w] = "running"]
  PROVE  CountInv'
<1>1. \A w \in Workers : queue[w] = Cardinality({c \in Conns : life[c] = "live" /\ home'[c] = w})
  BY DEF CountInv, Counted, Live
<1>2. CountTypes /\ home' \in [Conns -> Workers] /\ \A c \in Conns : home'[c] = home[c]
  BY DEF CountInv, CountTypes
<1>3. life \in [Conns -> Lives] /\ queue \in [Workers -> Int]
  BY DEF CountInv, CountTypes
<1>4. /\ queue' \in [Workers -> Int] /\ life' \in [Conns -> Lives]
      /\ \A c \in Conns : life[c] = "new" => life'[c] = "new"
      /\ Counted'
  BY <1>1, <1>2, <1>3, SettleCounts
<1>5. acceptor' = acceptor
  BY DEF Settle
<1>6. loop' \in [Workers -> Loops] /\ AllStarted'
  BY <1>2 DEF CountInv, CountTypes, AllStarted, Loops
<1> QED
  BY <1>2, <1>4, <1>5, <1>6 DEF CountInv, CountTypes, NoneBeforeAccepting

\* Nothing that is counted changes.
LEMMA OthersCount ==
  ASSUME CountInv, UNCHANGED <<phase, loop, queue, life, home, acceptor>>
  PROVE  CountInv'
BY DEF CountInv, CountTypes, NoneBeforeAccepting, AllStarted, Counted, Live

\* The server starts and stops.
LEMMA PhaseCounts ==
  ASSUME CountInv, Open \/ StartAccepting \/ Stop
                   \/ \E w \in Workers : StartWorker(w) \/ EndWorker(w) \/ Block(w)
  PROVE  CountInv'
<1>1. UNCHANGED <<life, home>>
  BY DEF Open, StartAccepting, Stop, StartWorker, EndWorker, Block
<1>2. \A w \in Workers : Live(w)' = Live(w)
  BY <1>1 DEF Live
<1>3. CASE Open \/ StartAccepting \/ Stop
  <2>1. queue' = queue /\ loop' = loop /\ (acceptor' = acceptor \/ phase' = "running" \/ phase' = "stopping")
    BY <1>3 DEF Open, StartAccepting, Stop
  <2>2. Counted'
    BY <1>2, <2>1 DEF CountInv, Counted
  <2>3. AllStarted'
    BY <1>3, <2>1 DEF Open, StartAccepting, Stop, AllUp, Pool, AllStarted
  <2>4. CountTypes'
    <3>1. CASE Open
      BY <1>1, <2>1, <3>1 DEF Open, CountInv, CountTypes, Phases
    <3>2. CASE StartAccepting
      <4>1. acceptor' \in Acceptor /\ acceptor'.min = 1
        BY <3>2, IdleType, PickBegins DEF StartAccepting
      <4> QED
        BY <1>1, <2>1, <3>2, <4>1, WorkersAreNumbers DEF StartAccepting, CountInv, CountTypes, Phases
    <3>3. CASE Stop
      <4>1. acceptor' \in Acceptor /\ acceptor'.at = "closed"
        BY <3>3, WaitType DEF Stop, CountInv, CountTypes
      <4> QED
        BY <1>1, <2>1, <3>3, <4>1 DEF Stop, CountInv, CountTypes, Phases
    <3> QED
      BY <1>3, <3>1, <3>2, <3>3
  <2>5. NoneBeforeAccepting'
    BY <1>1, <1>3 DEF Open, StartAccepting, Stop, CountInv, NoneBeforeAccepting
  <2> QED
    BY <2>2, <2>3, <2>4, <2>5 DEF CountInv
<1>4. ASSUME NEW w \in Workers, StartWorker(w) PROVE CountInv'
  <2>1. /\ loop' = [loop EXCEPT ![w] = "running"] /\ queue' = [queue EXCEPT ![w] = 0]
        /\ loop[w] = "new" /\ UNCHANGED <<phase, acceptor>>
    BY <1>4 DEF StartWorker
  <2>2. phase \in {"opening", "starting"}
    BY <1>4 DEF StartWorker, CountInv, AllStarted
  <2>3. Live(w) = {}
    BY <2>2 DEF CountInv, NoneBeforeAccepting, Live
  <2>4. Cardinality(Live(w)) = 0
    BY <2>3, FS_EmptySet
  <2>5. \A v \in Workers : queue'[v] = Cardinality(Live(v))
    BY <2>1, <2>4 DEF CountInv, CountTypes, Counted
  <2>6. Counted'
    BY <1>2, <2>5 DEF Counted
  <2> QED
    BY <1>1, <2>1, <2>2, <2>6 DEF CountInv, CountTypes, NoneBeforeAccepting, AllStarted, Loops
<1>5. ASSUME NEW w \in Workers, EndWorker(w) \/ Block(w) PROVE CountInv'
  <2>1. /\ \E l \in {"ended", "writing"} : loop' = [loop EXCEPT ![w] = l]
        /\ UNCHANGED <<phase, acceptor, queue>>
    BY <1>5 DEF EndWorker, Block
  <2>2. Counted'
    BY <1>2, <2>1 DEF CountInv, Counted
  <2> QED
    BY <1>1, <2>1, <2>2 DEF CountInv, CountTypes, NoneBeforeAccepting, AllStarted, Loops
<1> QED
  BY <1>3, <1>4, <1>5

\* The acceptor counts a connection in when it makes it, and lets the previous
\* one go.
LEMMA AcceptingCounts ==
  ASSUME CountInv, Accepting
  PROVE  CountInv'
<1>1. phase \notin {"opening", "starting"} /\ UNCHANGED <<phase, loop>>
  BY DEF Accepting, Compare, Prepare, Exhausted, Accept, AcceptFails, CountInv, NoneBeforeAccepting
<1>2. AllStarted' /\ NoneBeforeAccepting'
  BY <1>1 DEF CountInv, AllStarted, NoneBeforeAccepting
<1>3. CASE Compare \/ Accept \/ AcceptFails
  <2>1. UNCHANGED <<queue, life, home>>
    BY <1>3 DEF Compare, Accept, AcceptFails
  <2>2. Counted'
    BY <2>1 DEF CountInv, Counted, Live
  <2>3. CountTypes'
    <3>1. acceptor \in Acceptor /\ 1 \in Workers /\ Workers \subseteq Int
      BY WorkersAreNumbers DEF CountInv, CountTypes
    <3>2. acceptor' \in Acceptor /\ acceptor'.min \in Workers
      <4>1. CASE Compare
        <5> DEFINE i == acceptor.i + 1
                   m == IF queue[acceptor.i] < queue[acceptor.min] THEN acceptor.i ELSE acceptor.min
        <5>1. i \in Int /\ m \in Workers
          BY <3>1, <4>1 DEF Compare, Acceptor, Pool, CountInv, CountTypes
        <5>2. acceptor' = [acceptor EXCEPT !.i = i, !.min = m]
          BY <4>1 DEF Compare
        <5> HIDE DEF i, m
        <5> QED
          BY <3>1, <5>1, <5>2, PickType
      <4>2. CASE Accept \/ AcceptFails
        <5>1. acceptor' = [acceptor EXCEPT !.at = "pick", !.i = 2, !.min = 1]
          BY <4>2 DEF Accept, AcceptFails
        <5> QED
          BY <3>1, <5>1, PickBegins
      <4> QED
        BY <1>3, <4>1, <4>2
    <3> QED
      BY <1>1, <2>1, <3>2 DEF CountInv, CountTypes
  <2> QED
    BY <1>2, <2>2, <2>3 DEF CountInv
<1>4. CASE Exhausted
  <2> DEFINE ac == [Idle EXCEPT !.at = "full"]
  <2>1. Settle(life, conn, queue, events, tasks, ac) /\ home' = home
    BY <1>4 DEF Exhausted
  <2>2. \A w \in Workers : queue[w] = Cardinality({c \in Conns : life[c] = "live" /\ home'[c] = w})
    BY <2>1 DEF CountInv, Counted, Live
  <2>3. CountTypes /\ home' \in [Conns -> Workers]
    BY <2>1 DEF CountInv, CountTypes
  <2>4. life \in [Conns -> Lives] /\ queue \in [Workers -> Int]
    BY <2>3 DEF CountTypes
  <2>5. acceptor' = ac
    BY <2>1 DEF Settle
  <2>6. ac \in Acceptor /\ ac.at = "full"
    BY IdleType, WaitType
  <2> HIDE DEF ac
  <2>7. queue' \in [Workers -> Int] /\ life' \in [Conns -> Lives] /\ Counted'
    BY <2>1, <2>2, <2>3, <2>4, SettleCounts
  <2> QED
    BY <1>1, <1>2, <2>3, <2>5, <2>6, <2>7 DEF CountInv, CountTypes
<1>5. CASE Prepare
  <2>1. PICK c \in Conns :
          /\ life[c] = "new"
          /\ home' = [home EXCEPT ![c] = acceptor.min]
          /\ Settle([life EXCEPT ![c] = "live"], [conn EXCEPT ![c] = Fresh],
                    [queue EXCEPT ![acceptor.min] = @ + 1], events, tasks,
                    [Idle EXCEPT !.at = "wait", !.holds = c])
    BY <1>5 DEF Prepare
  <2> DEFINE min == acceptor.min
             lf == [life EXCEPT ![c] = "live"]
             qu == [queue EXCEPT ![min] = @ + 1]
             ac == [Idle EXCEPT !.at = "wait", !.holds = c]
  <2>2. CountTypes /\ min \in Workers
    BY <1>5 DEF Prepare, CountInv, CountTypes
  <2>3. home' \in [Conns -> Workers] /\ lf \in [Conns -> Lives] /\ qu \in [Workers -> Int]
    BY <2>1, <2>2 DEF CountTypes, Lives
  <2>4. ac \in Acceptor /\ ac.at = "wait" /\ ac.holds = c
    BY IdleType, WaitType
  <2>5. \A d \in Conns : home'[d] = home[d] \/ ac.holds = d
    BY <2>1, <2>2, <2>4 DEF CountTypes
  <2>6. ASSUME NEW w \in Workers
        PROVE  qu[w] = Cardinality({d \in Conns : lf[d] = "live" /\ home'[d] = w})
    <3>1. {d \in Conns : lf[d] = "live" /\ home'[d] = w} = IF w = min THEN Live(w) \cup {c} ELSE Live(w)
      BY <2>1, <2>2 DEF Live, CountTypes
    <3>2. c \notin Live(w)
      BY <2>1 DEF Live
    <3>3. Cardinality(Live(w) \cup {c}) = Cardinality(Live(w)) + 1
      BY <3>2, LiveFinite, FS_AddElement
    <3>4. queue[w] = Cardinality(Live(w))
      BY DEF CountInv, Counted
    <3> QED
      BY <2>2, <3>1, <3>3, <3>4 DEF CountTypes
  <2>7. Settle(lf, [conn EXCEPT ![c] = Fresh], qu, events, tasks, ac)
    BY <2>1
  <2>8. acceptor' = ac
    BY <2>7 DEF Settle
  <2> HIDE DEF lf, qu, ac
  <2>9. queue' \in [Workers -> Int] /\ life' \in [Conns -> Lives] /\ Counted'
    BY <2>2, <2>3, <2>5, <2>6, <2>7, SettleCounts
  <2> QED
    BY <1>1, <1>2, <2>2, <2>3, <2>4, <2>8, <2>9 DEF CountInv, CountTypes
<1> QED
  BY <1>3, <1>4, <1>5 DEF Accepting

\* However a read ends, what it leaves behind is counted.
LEMMA AfterReadSettles ==
  ASSUME NEW w, NEW c, NEW s, AfterRead(w, c, s)
  PROVE  \E cn, ev, tk : Settle(life, cn, queue, ev, tk, acceptor)
BY DEF AfterRead

\* A worker's handlers.
LEMMA WorkCounts ==
  ASSUME CountInv, NEW w \in Workers, Start(w) \/ RunTick(w) \/ ReadFailed(w) \/ ReadDone(w)
  PROVE  CountInv'
<1>1. /\ UNCHANGED <<phase, home>>
      /\ loop' = loop \/ loop' = [loop EXCEPT ![w] = "running"]
  BY DEF Start, RunTick, ReadFailed, ReadDone
<1>2. \E cn, ev, tk : Settle(life, cn, queue, ev, tk, acceptor)
  <2>1. CASE Start(w)
    BY <2>1 DEF Start
  <2>2. CASE RunTick(w)
    BY <2>2 DEF RunTick, Tick
  <2>3. CASE ReadFailed(w) \/ ReadDone(w)
    <3>1. \E c, s : AfterRead(w, c, s)
      BY <2>3 DEF ReadFailed, ReadDone
    <3> QED
      BY <3>1, AfterReadSettles
  <2> QED
    BY <2>1, <2>2, <2>3
<1> QED
  BY <1>1, <1>2, HandlerCounts

\* The server's members are destroyed, and the connections with them.
LEMMA EndCounts ==
  ASSUME CountInv, End
  PROVE  CountInv'
<1>1. PICK cn, ev, tk : Settle(life, cn, queue, ev, tk, Idle)
  BY DEF End
<1>2. phase' = "ended" /\ phase = "stopping" /\ UNCHANGED <<loop, home>>
  BY DEF End
<1>3. \A w \in Workers : queue[w] = Cardinality({c \in Conns : life[c] = "live" /\ home'[c] = w})
  BY <1>2 DEF CountInv, Counted, Live
<1>4. CountTypes /\ home' \in [Conns -> Workers]
  BY <1>2 DEF CountInv, CountTypes
<1>5. life \in [Conns -> Lives] /\ queue \in [Workers -> Int]
  BY <1>4 DEF CountTypes
<1>6. queue' \in [Workers -> Int] /\ life' \in [Conns -> Lives] /\ Counted'
  BY <1>1, <1>2, <1>3, <1>4, <1>5, SettleCounts
<1>7. acceptor' = Idle
  BY <1>1 DEF Settle
<1> QED
  BY <1>2, <1>4, <1>6, <1>7, IdleType DEF CountInv, CountTypes, NoneBeforeAccepting, AllStarted,
     Phases

\* The server begins with no connections and one worker at least.
LEMMA InitCounts == Init => CountInv
<1> SUFFICES ASSUME Init PROVE CountInv
  OBVIOUS
<1>3. CountTypes
  BY WorkersAreNumbers, IdleType DEF Init, CountTypes, Phases, Loops, Lives
<1>4. \A w \in Workers : Live(w) = {}
  BY DEF Init, Live
<1>5. Counted
  BY <1>4, FS_EmptySet DEF Init, Counted
<1> QED
  BY <1>3, <1>5 DEF CountInv, Init, NoneBeforeAccepting, AllStarted, Idle

\* Every step keeps the count.
LEMMA StepsCount ==
  ASSUME CountInv, [Next]_vars
  PROVE  CountInv'
<1>1. CASE Open \/ StartAccepting \/ Stop \/ End \/ Accepting
  BY <1>1, PhaseCounts, EndCounts, AcceptingCounts
<1>2. ASSUME NEW w \in Workers, Work(w) PROVE CountInv'
  BY <1>2, PhaseCounts, WorkCounts DEF Work
<1>3. CASE \/ \E w \in Workers : TickDue(w)
           \/ \E c \in Conns : Network(c) \/ Peer(c)
           \/ UNCHANGED vars
  <2>1. UNCHANGED <<phase, loop, queue, life, home, acceptor>>
    BY <1>3 DEF TickDue, Network, Receive, Lose, Complete, Peer, Send, Stall, Resume, Leave,
       Turns, vars
  <2> QED
    BY <2>1, OthersCount
<1> QED
  BY <1>1, <1>2, <1>3 DEF Next

\* The length do_accept() balances by is the number of the worker's live
\* connections: increments of the acceptor, decrements of destructors on any
\* thread and the reset of a thread that starts late never miscount.
THEOREM QueuesCountConnections == Spec => []QueueCountsConnections
<1>1. CountInv /\ [Next]_vars => CountInv'
  BY StepsCount
<1>2. CountInv => QueueCountsConnections
  BY DEF CountInv, Counted, QueueCountsConnections, Pool
<1> QED
  BY <1>1, <1>2, InitCounts, PTL DEF Spec

-----------------------------------------------------------------------------
(* Connections, deadlines and answers.                                     *)

Names == {r.to : r \in Requests}
Responses == [completed : BOOLEAN, body : Bodies]
Fields == [open : BOOLEAN, reading : BOOLEAN, task : Nat, close : BOOLEAN, complete : BOOLEAN,
           nth : Nat, req : Names \cup {Null}, res : Responses]
Deadlines == [conn : Conns, left : Int]
Timers == UNION {[ids -> Deadlines] : ids \in SUBSET Nat}

\* A read or an event will go on with a connection.
Busy(c, cn, ev) == cn[c].reading \/ \E w \in Workers : \E i \in DOMAIN ev[w] : ev[w][i].conn = c

\* What is referred to is alive.
Alive(lf, cn, ev, tk, ac) == \A c \in Conns : Refers(c, cn, ev, tk, ac) => lf[c] = "live"

\* An event is its connection's worker's, and only a tick has no connection.
EventsAtHome(ev, hm) ==
  \A w \in Workers : \A i \in DOMAIN ev[w] :
    /\ ev[w][i].conn = Null <=> ev[w][i].kind = "tick"
    /\ ev[w][i].conn # Null => hm[ev[w][i].conn] = w

\* A deadline is its connection's only one, and something else goes on with
\* the connection.
Deadlined(w, id, cn, ev, tk, hm, hi) ==
  /\ id \in 1 .. hi[w]
  /\ hm[tk[w][id].conn] = w
  /\ cn[tk[w][id].conn].task = id
  /\ Busy(tk[w][id].conn, cn, ev)

TasksInUse(cn, ev, tk, hm, hi) == \A w \in Workers : \A id \in DOMAIN tk[w] : Deadlined(w, id, cn, ev, tk, hm, hi)

\* The answers written to a peer are in order and say what was asked.
Fit(answers) ==
  \A i \in DOMAIN answers :
    /\ answers[i].body = BodyOf(answers[i].to)
    /\ \A j \in 1 .. i - 1 : answers[j].nth < answers[i].nth

UpTo(answers, n) == \A i \in DOMAIN answers : answers[i].nth <= n

\* Nothing was written yet to who is not connected, and no more than was asked
\* to who is; a response still there is one of a message nobody cleared, after
\* which nothing is parsed.
Said(c, lf, cn, sn) ==
  /\ Fit(sn[c])
  /\ lf[c] = "new" => sn[c] = <<>>
  /\ lf[c] = "live" => UpTo(sn[c], cn[c].nth)
  /\ cn[c].res = Cleared \/ cn[c].complete

\* What a handler leaves before its end, or a step as a whole, of connections,
\* events and deadlines, given the workers and ids that connections have by then.
Kept(lf, cn, ev, tk, ac, hm, hi, sn) ==
  /\ cn \in [Conns -> Fields]
  /\ ev \in [Workers -> Seq(Event)]
  /\ tk \in [Workers -> Timers]
  /\ Alive(lf, cn, ev, tk, ac)
  /\ EventsAtHome(ev, hm)
  /\ TasksInUse(cn, ev, tk, hm, hi)
  /\ \A c \in Conns : Said(c, lf, cn, sn)

ConnTypes ==
  /\ highest \in [Workers -> Nat]
  /\ peer \in [Conns -> {"away", "up", "stalled", "gone"}]
  /\ inbox \in [Conns -> Seq(Pieces)]
  /\ sent \in [Conns -> Seq(Answers)]

ConnInv ==
  /\ ConnTypes
  /\ Kept(life, conn, events, tasks, acceptor, home, highest, sent)
  /\ acceptor.at = "wait" => acceptor.holds # Null
  /\ NoneLivesForItsDeadline

\* What the parser does with the pieces one after another.
FedOn(after, s, got, n) ==
  after = [i \in 0 .. n |-> IF i = 0 THEN s ELSE Parsed(after[i - 1], got[i])]

\* Such a function exists for any pieces, and the last of it is what feed() leaves.
LEMMA FedInSteps ==
  ASSUME NEW s, NEW got, Len(got) \in Nat, ~s.k.complete
  PROVE  \E after : FedOn(after, s, got, Len(got)) /\ Fed(s, got) = after[Len(got)]
<1> DEFINE S == {n \in Nat : \E after : FedOn(after, s, got, n)}
<1>1. 0 \in S
  <2>1. FedOn([i \in 0 .. 0 |-> s], s, got, 0)
    BY DEF FedOn
  <2> QED
    BY <2>1
<1>2. ASSUME NEW n \in Nat, n \in S PROVE n + 1 \in S
  <2>1. PICK after : FedOn(after, s, got, n)
    BY <1>2
  <2> DEFINE next == [i \in 0 .. n + 1 |-> IF i = n + 1 THEN Parsed(after[n], got[n + 1]) ELSE after[i]]
  <2>2. \A i \in 0 .. n : after[i] = IF i = 0 THEN s ELSE Parsed(after[i - 1], got[i])
    BY <2>1 DEF FedOn
  <2>3. ASSUME NEW i \in 0 .. n + 1
        PROVE  next[i] = IF i = 0 THEN s ELSE Parsed(next[i - 1], got[i])
    <3>1. CASE i = n + 1
      <4>1. i # 0 /\ i - 1 = n /\ n \in 0 .. n + 1 /\ n # n + 1
        BY <3>1
      <4>2. next[i] = Parsed(after[n], got[i]) /\ next[n] = after[n]
        BY <3>1, <4>1
      <4> QED
        BY <4>1, <4>2
    <3>2. CASE i # n + 1
      <4>1. i \in 0 .. n /\ next[i] = after[i]
        BY <3>2
      <4>2. i # 0 => i - 1 \in 0 .. n + 1 /\ i - 1 # n + 1
        BY <3>2
      <4>3. i # 0 => next[i - 1] = after[i - 1]
        BY <4>2
      <4> QED
        BY <2>2, <4>1, <4>3
    <3> QED
      BY <3>1, <3>2
  <2>4. next = [i \in 0 .. n + 1 |-> IF i = 0 THEN s ELSE Parsed(next[i - 1], got[i])]
    <3> DEFINE goal == [i \in 0 .. n + 1 |-> IF i = 0 THEN s ELSE Parsed(next[i - 1], got[i])]
    <3>1. \A i \in 0 .. n + 1 : next[i] = goal[i]
      BY <2>3
    <3> QED
      BY <3>1, Zenon
  <2>5. FedOn(next, s, got, n + 1)
    BY <2>4 DEF FedOn
  <2> QED
    BY <2>5
<1>3. Nat \subseteq S
  <2> HIDE DEF S
  <2> QED
    BY <1>1, <1>2, NumbersInduct
<1>4. \E after : FedOn(after, s, got, Len(got))
  BY <1>3
<1> DEFINE chosen == CHOOSE after : FedOn(after, s, got, Len(got))
<1>5. FedOn(chosen, s, got, Len(got))
  BY <1>4
<1>6. Fed(s, got) = chosen[Len(got)]
  BY DEF Fed, FedOn
<1> QED
  BY <1>5, <1>6

-----------------------------------------------------------------------------
\* What a handler works on while it parses, with the tasks it may leave.
Handling(timers) ==
  [k : Fields, tk : timers, sent : Seq(Answers), up : BOOLEAN, unnamed : BOOLEAN, bulk : BOOLEAN,
   goes : {"go", "left", "error", "throw"}]

\* While it parses, the answers are those asked so far, a response is there only
\* when no peer will see it or nothing more is parsed, and an exception comes
\* after the deadline was cancelled.
Parsing(s, timer, id) ==
  /\ s \in Handling({timer, Cancelled(timer, id)})
  /\ s.k.task = id
  /\ Fit(s.sent)
  /\ UpTo(s.sent, s.k.nth)
  /\ s.k.res = Cleared \/ (s.k.complete /\ (~s.up \/ s.goes \in {"left", "error"}))
  /\ s.goes = "throw" => s.tk = Cancelled(timer, id)

\* Cancelling a task twice cancels it.
LEMMA CancelledTwice ==
  ASSUME NEW timer, NEW id
  PROVE  Cancelled(Cancelled(timer, id), id) = Cancelled(timer, id)
BY DEF Cancelled

\* One more answer, to the newest request, keeps the answers in order.
LEMMA OneMoreFits ==
  ASSUME NEW answers \in Seq(Answers), NEW answer \in Answers, Fit(answers),
         \A i \in DOMAIN answers : answers[i].nth < answer.nth, answer.body = BodyOf(answer.to)
  PROVE  /\ Append(answers, answer) \in Seq(Answers)
         /\ Fit(Append(answers, answer))
         /\ UpTo(Append(answers, answer), answer.nth)
<1> DEFINE more == Append(answers, answer)
           n == Len(answers) + 1
<1>1. more \in Seq(Answers) /\ DOMAIN more = 1 .. n /\ DOMAIN answers = 1 .. n - 1 /\ n \in Nat
  OBVIOUS
<1>2. more[n] = answer /\ \A i \in 1 .. n - 1 : more[i] = answers[i]
  OBVIOUS
<1> HIDE DEF more, n
<1>3. \A i \in DOMAIN answers : answers[i] \in Answers
  OBVIOUS
<1>4. answer.nth \in Nat /\ \A i \in DOMAIN answers : answers[i].nth \in Nat
  BY <1>3 DEF Answers
<1>5. UpTo(more, answer.nth)
  BY <1>1, <1>2, <1>4 DEF UpTo
<1>6. Fit(more)
  <2> SUFFICES ASSUME NEW i \in 1 .. n
               PROVE  more[i].body = BodyOf(more[i].to) /\ \A j \in 1 .. i - 1 : more[j].nth < more[i].nth
    BY <1>1 DEF Fit
  <2>1. CASE i = n
    BY <1>1, <1>2, <2>1
  <2>2. CASE i # n
    <3>1. i \in 1 .. n - 1 /\ \A j \in 1 .. i - 1 : j \in 1 .. n - 1
      BY <1>1, <2>2
    <3>2. answers[i].body = BodyOf(answers[i].to) /\ \A j \in 1 .. i - 1 : answers[j].nth < answers[i].nth
      BY <1>1, <3>1 DEF Fit
    <3> QED
      BY <1>2, <3>1, <3>2
  <2> QED
    BY <2>1, <2>2
<1> QED
  BY <1>1, <1>5, <1>6 DEF more

\* What complete_request() leaves: an answer to the newest request, unless the
\* peer cannot have it, and a cleared response and parser.
LEMMA WrittenFits ==
  ASSUME NEW timers, NEW s \in Handling(timers), s.k.req \in Names,
         s.up /\ s.k.open => s.k.res.body = BodyOf(s.k.req),
         Fit(s.sent), \A i \in DOMAIN s.sent : s.sent[i].nth < s.k.nth
  PROVE  /\ Written(s) \in Handling(timers)
         /\ Fit(Written(s).sent)
         /\ UpTo(Written(s).sent, s.k.nth)
         /\ Written(s).k.res = Cleared
         /\ Written(s).k.nth = s.k.nth
         /\ Written(s).k.task = s.k.task
         /\ Written(s).tk = s.tk
         /\ Written(s).goes = s.goes
         /\ Written(s).up = s.up
<1> DEFINE answer == [nth |-> s.k.nth, to |-> s.k.req, body |-> s.k.res.body]
           said == IF s.up /\ s.k.open THEN Append(s.sent, answer) ELSE s.sent
           k == [s.k EXCEPT !.res = Cleared, !.req = Null, !.complete = FALSE]
<1>1. s.k \in Fields /\ s.sent \in Seq(Answers)
  BY DEF Handling
<1>2. answer \in Answers
  BY <1>1 DEF Answers, Fields, Responses, Names
<1>3. said \in Seq(Answers) /\ Fit(said) /\ UpTo(said, s.k.nth)
  <2>1. CASE s.up /\ s.k.open
    <3>1. answer.nth = s.k.nth /\ answer.body = s.k.res.body /\ answer.to = s.k.req
      OBVIOUS
    <3> HIDE DEF answer
    <3> QED
      BY <1>1, <1>2, <2>1, <3>1, OneMoreFits
  <2>2. CASE ~(s.up /\ s.k.open)
    <3>1. \A i \in DOMAIN s.sent : s.sent[i] \in Answers
      BY <1>1
    <3>2. UpTo(s.sent, s.k.nth)
      BY <1>1, <3>1 DEF UpTo, Answers, Fields
    <3> QED
      BY <1>1, <2>2, <3>2
  <2> QED
    BY <2>1, <2>2
<1>4. k \in Fields /\ k.res = Cleared /\ k.nth = s.k.nth /\ k.task = s.k.task
  BY <1>1 DEF Fields, Responses, Cleared, Bodies
<1>5. Written(s) = [s EXCEPT !.sent = said, !.k = k]
  BY <1>1 DEF Written, Clear, Handling, Fields
<1> HIDE DEF said, k
<1>6. [s EXCEPT !.sent = said, !.k = k] \in Handling(timers)
  BY <1>3, <1>4 DEF Handling
<1>7. /\ Written(s).sent = said /\ Written(s).k = k /\ Written(s).tk = s.tk
      /\ Written(s).goes = s.goes /\ Written(s).up = s.up
  BY <1>5 DEF Handling
<1> QED
  BY <1>3, <1>4, <1>5, <1>6, <1>7

\* An answer given where one was asked for goes on parsing as it should.
LEMMA WrittenParses ==
  ASSUME NEW timer, NEW id, NEW s, s \in Handling({timer, Cancelled(timer, id)}), s.k.task = id,
         s.k.req \in Names, s.up /\ s.k.open => s.k.res.body = BodyOf(s.k.req),
         Fit(s.sent), \A i \in DOMAIN s.sent : s.sent[i].nth < s.k.nth, s.goes # "throw"
  PROVE  Parsing(Written(s), timer, id)
<1>1. /\ Written(s) \in Handling({timer, Cancelled(timer, id)})
      /\ Fit(Written(s).sent)
      /\ UpTo(Written(s).sent, s.k.nth)
      /\ Written(s).k.res = Cleared
      /\ Written(s).k.nth = s.k.nth
      /\ Written(s).k.task = s.k.task
      /\ Written(s).goes = s.goes
  BY WrittenFits
<1> QED
  BY <1>1 DEF Parsing

\* Whether the socket is open, whether the deadline was cancelled, and an error
\* at last, are all that may change between two answers.
LEMMA GoesOnParsing ==
  ASSUME NEW timer, NEW id, NEW s, Parsing(s, timer, id),
         NEW u, u.k \in Fields, u.up = s.up, u.unnamed = s.unnamed, u.sent = s.sent,
         u = [k |-> u.k, tk |-> u.tk, sent |-> u.sent, up |-> u.up, unnamed |-> u.unnamed, bulk |-> u.bulk,
              goes |-> u.goes],
         u.bulk \in BOOLEAN, u.goes = s.goes \/ u.goes = "error",
         u.tk = s.tk \/ u.tk = Cancelled(s.tk, id),
         u.k.task = s.k.task, u.k.nth = s.k.nth, u.k.res = s.k.res, u.k.complete = s.k.complete
  PROVE  Parsing(u, timer, id)
<1>1. s \in Handling({timer, Cancelled(timer, id)})
  BY DEF Parsing
<1>2. /\ s.tk \in {timer, Cancelled(timer, id)}
      /\ s.sent \in Seq(Answers) /\ s.up \in BOOLEAN /\ s.unnamed \in BOOLEAN
      /\ s.goes \in {"go", "left", "error", "throw"}
  BY <1>1 DEF Handling
<1>3. u.tk \in {timer, Cancelled(timer, id)} /\ (s.tk = Cancelled(timer, id) => u.tk = s.tk)
  BY <1>2, CancelledTwice
<1>4. u \in Handling({timer, Cancelled(timer, id)})
  BY <1>2, <1>3 DEF Handling
<1> QED
  BY <1>3, <1>4 DEF Parsing

\* The rule's answer, or none, is the one asked for.
LEMMA AnsweredFits ==
  ASSUME NEW timer, NEW id, NEW s, s \in Handling({timer, Cancelled(timer, id)}), s.k.task = id,
         NEW r \in Requests, s.k.req = r.to, r.to \in {"page", "large", "file", "noroute"},
         Fit(s.sent), \A i \in DOMAIN s.sent : s.sent[i].nth < s.k.nth, s.goes = "go"
  PROVE  Parsing(Answered(s, r), timer, id)
<1> DEFINE body == IF r.to = "noroute" THEN "404" ELSE r.to
           res == [completed |-> TRUE, body |-> body]
           k == [s.k EXCEPT !.res = res]
           t == [s EXCEPT !.k.res = res]
<1>1. s.k \in Fields /\ s.sent \in Seq(Answers)
  BY DEF Handling
<1>2. body \in Bodies /\ body = BodyOf(r.to) /\ r.to \in Names
  BY DEF Bodies, BodyOf, Names
<1>3. res \in Responses /\ res.body = body
  BY <1>2 DEF Responses
<1>4. /\ k \in Fields /\ k.res = res /\ k.req = s.k.req /\ k.nth = s.k.nth /\ k.task = s.k.task
      /\ k.open = s.k.open /\ k.close = s.k.close
  BY <1>1, <1>3 DEF Fields
<1>5. t = [s EXCEPT !.k = k]
  BY <1>1 DEF Handling
<1> HIDE DEF k, res, body
<1>6. t \in Handling({timer, Cancelled(timer, id)})
  BY <1>4, <1>5 DEF Handling
<1>7. t.k = k /\ t.sent = s.sent /\ t.tk = s.tk /\ t.goes = "go" /\ t.up = s.up
  BY <1>5 DEF Handling
<1>8. Answered(s, r) = CASE r.to \in {"page", "noroute"} -> Written(t)
                         [] r.to = "large" -> Streamed(t)
                         [] r.to = "file" -> Static(t)
  BY DEF Answered, t, res, body
<1> HIDE DEF t
<1>9. Parsing(Written(t), timer, id)
  <2>1. t.k.req \in Names /\ t.k.res.body = BodyOf(t.k.req) /\ t.k.task = id
    BY <1>2, <1>3, <1>4, <1>7
  <2>2. Fit(t.sent) /\ \A i \in DOMAIN t.sent : t.sent[i].nth < t.k.nth
    BY <1>4, <1>7
  <2> QED
    BY <1>6, <1>7, <2>1, <2>2, WrittenParses
<1>10. Parsing(Streamed(t), timer, id)
  <2> DEFINE v == Written(t)
             open == v.k.open /\ ~t.k.close
  <2>1. v.tk \in {timer, Cancelled(timer, id)} /\ v \in Handling({timer, Cancelled(timer, id)}) /\ open \in BOOLEAN
    BY <1>9 DEF Parsing, Handling
  <2>2. t.k.task = id
    BY <1>4, <1>7
  <2> DEFINE u == Streamed(t)
  <2>3. /\ u = [k |-> [v.k EXCEPT !.open = open], tk |-> Cancelled(v.tk, id), sent |-> v.sent, up |-> v.up,
                unnamed |-> v.unnamed, bulk |-> TRUE, goes |-> v.goes]
        /\ v.k \in Fields
    <3>1. u = [v EXCEPT !.bulk = TRUE, !.tk = Cancelled(v.tk, id), !.k.open = open]
      BY <2>1, <2>2 DEF Streamed, Handling, Fields
    <3> HIDE DEF v, open, u
    <3> QED
      BY <2>1, <3>1 DEF Handling, Fields
  <2> HIDE DEF v, open, u
  <2>4. /\ u.k \in Fields /\ u.k.task = v.k.task /\ u.k.nth = v.k.nth /\ u.k.res = v.k.res
        /\ u.k.complete = v.k.complete
    BY <2>1, <2>3 DEF Fields
  <2>5. u.tk = Cancelled(v.tk, id) /\ u.bulk = TRUE /\ u.goes = v.goes /\ u.up = v.up /\ u.unnamed = v.unnamed
        /\ u.sent = v.sent
    BY <2>3
  <2>6. u = [k |-> u.k, tk |-> u.tk, sent |-> u.sent, up |-> u.up, unnamed |-> u.unnamed, bulk |-> u.bulk,
             goes |-> u.goes]
    BY <2>3
  <2>7. Parsing(v, timer, id)
    BY <1>9 DEF v
  <2>8. Parsing(u, timer, id)
    BY <2>4, <2>5, <2>6, <2>7, GoesOnParsing
  <2> QED
    BY <2>8 DEF u
<1>11. Parsing(Static(t), timer, id)
  <2>1. CASE t.up
    <3> DEFINE v == Written(t)
               open == v.k.open /\ ~t.k.close
    <3>1. v \in Handling({timer, Cancelled(timer, id)}) /\ open \in BOOLEAN
      BY <1>9 DEF Parsing, Handling
    <3> DEFINE u == Static(t)
    <3>2. /\ u = [k |-> [v.k EXCEPT !.open = open], tk |-> v.tk, sent |-> v.sent, up |-> v.up,
                  unnamed |-> v.unnamed, bulk |-> TRUE, goes |-> v.goes]
          /\ v.k \in Fields
      BY <2>1, <3>1 DEF Static, Handling, Fields
    <3> HIDE DEF v, open, u
    <3>3. /\ u.k \in Fields /\ u.k.task = v.k.task /\ u.k.nth = v.k.nth /\ u.k.res = v.k.res
          /\ u.k.complete = v.k.complete
      BY <3>1, <3>2 DEF Fields
    <3>4. u.tk = v.tk /\ u.bulk = TRUE /\ u.goes = v.goes /\ u.up = v.up /\ u.unnamed = v.unnamed
          /\ u.sent = v.sent
      BY <3>2
    <3>5. u = [k |-> u.k, tk |-> u.tk, sent |-> u.sent, up |-> u.up, unnamed |-> u.unnamed, bulk |-> u.bulk,
               goes |-> u.goes]
      BY <3>2
    <3>6. Parsing(v, timer, id)
      BY <1>9 DEF v
    <3>7. Parsing(u, timer, id)
      BY <3>3, <3>4, <3>5, <3>6, GoesOnParsing
    <3> QED
      BY <3>7 DEF u
  <2>2. CASE ~t.up
    <3> DEFINE failed == [completed |-> TRUE, body |-> "500"]
               j == [t.k EXCEPT !.res = failed, !.complete = TRUE]
    <3>1. failed \in Responses
      BY DEF Responses, Bodies
    <3>2. j \in Fields /\ j.complete /\ j.task = id /\ j.nth = t.k.nth
      BY <1>4, <1>7, <3>1 DEF Fields
    <3>3. Static(t) = [t EXCEPT !.k = j]
      BY <1>6, <2>2 DEF Static, Handling, Fields
    <3> HIDE DEF failed, j
    <3>4. Static(t) \in Handling({timer, Cancelled(timer, id)})
      BY <1>6, <3>2, <3>3 DEF Handling
    <3>5. /\ Static(t).k = j /\ Static(t).sent = t.sent /\ Static(t).tk = t.tk
          /\ Static(t).goes = t.goes /\ Static(t).up = t.up
      BY <1>6, <3>3 DEF Handling
    <3>6. UpTo(t.sent, t.k.nth)
      <4>1. \A i \in DOMAIN s.sent : s.sent[i] \in Answers
        BY <1>1
      <4> QED
        BY <1>1, <1>4, <1>7, <4>1 DEF UpTo, Answers, Fields
    <3> QED
      BY <1>7, <2>2, <3>2, <3>4, <3>5, <3>6 DEF Parsing
  <2> QED
    BY <2>1, <2>2
<1>12. r.to \in {"page", "large", "file", "noroute"}
  OBVIOUS
<1> QED
  BY <1>8, <1>9, <1>10, <1>11, <1>12, Zenon

\* A request is counted and named.
LEMMA NextRequest ==
  ASSUME NEW old \in Fields, NEW name \in Names
  PROVE  LET k == [old EXCEPT !.nth = old.nth + 1, !.req = name]
         IN /\ k \in Fields /\ k.nth = old.nth + 1 /\ k.task = old.task /\ k.req = name /\ k.res = old.res
            /\ k.complete = old.complete /\ k.open = old.open
<1>1. PICK n \in Nat : n = old.nth + 1
  BY DEF Fields
<1>2. [old EXCEPT !.nth = n, !.req = name] \in Fields
  BY DEF Fields
<1> QED
  BY <1>1, <1>2 DEF Fields

\* A request is counted and named, and its connection's deadline cancelled, before
\* anything can go wrong with it.
LEMMA HandledParses ==
  ASSUME NEW timer, NEW id, NEW s, Parsing(s, timer, id), s.goes = "go",
         NEW r \in Requests, r.to # "early"
  PROVE  Parsing(Handled(s, r), timer, id)
<1> DEFINE k == [s.k EXCEPT !.nth = @ + 1, !.req = r.to]
           j == [k EXCEPT !.close = r.last]
           t == [s EXCEPT !.tk = Cancelled(@, s.k.task), !.k.nth = @ + 1, !.k.req = r.to]
           u == [t EXCEPT !.k.close = r.last]
           gone == Cancelled(timer, id)
           Record(h, g) == [k |-> h, tk |-> gone, sent |-> s.sent, up |-> s.up, unnamed |-> s.unnamed,
                            bulk |-> s.bulk, goes |-> g]
<1>1. /\ s.k \in Fields /\ s.sent \in Seq(Answers) /\ s.up \in BOOLEAN /\ s.unnamed \in BOOLEAN
      /\ s.bulk \in BOOLEAN /\ s.tk \in {timer, gone} /\ s.k.task = id
      /\ s = [k |-> s.k, tk |-> s.tk, sent |-> s.sent, up |-> s.up, unnamed |-> s.unnamed, bulk |-> s.bulk,
              goes |-> s.goes]
  BY DEF Parsing, Handling
<1>2. Cancelled(s.tk, s.k.task) = gone
  BY <1>1, CancelledTwice
<1>3. s.k.res = Cleared \/ ~s.up
  BY DEF Parsing
<1>4. r.to \in Names /\ r.last \in BOOLEAN
  BY DEF Requests, Names
<1>5. /\ k \in Fields /\ k.nth = s.k.nth + 1 /\ k.task = id /\ k.req = r.to /\ k.res = s.k.res
      /\ k.complete = s.k.complete /\ k.open = s.k.open
  <2>1. s.k.res \in Responses
    BY <1>1 DEF Fields
  <2> QED
    BY <1>1, <1>4, NextRequest
<1>6. /\ j \in Fields /\ j.nth = s.k.nth + 1 /\ j.task = id /\ j.req = r.to /\ j.res = s.k.res
      /\ j.complete = s.k.complete /\ j.open = s.k.open
  BY <1>4, <1>5 DEF Fields
<1>7. t = Record(k, "go")
  <2>1. t = [s EXCEPT !.tk = gone, !.k = k]
    BY <1>1, <1>2 DEF Handling
  <2> HIDE DEF t, k, gone
  <2> QED
    BY <1>1, <2>1
<1>8. u = Record(j, "go")
  <2> HIDE DEF t, k, gone
  <2> QED
    BY <1>5, <1>7 DEF Fields
<1>9. Fit(s.sent) /\ \A i \in DOMAIN s.sent : s.sent[i].nth < s.k.nth + 1
  <2>1. \A i \in DOMAIN s.sent : s.sent[i] \in Answers
    BY <1>1
  <2> QED
    BY <1>1, <2>1 DEF Parsing, UpTo, Answers, Fields
<1> HIDE DEF k, j, t, u, gone
<1>10. Handled(s, r) =
         IF s.unnamed \/ ~s.k.open THEN [t EXCEPT !.goes = "throw"]
         ELSE CASE r.to = "nohost" -> Written([u EXCEPT !.k.res = [completed |-> FALSE, body |-> "400"]])
           [] r.to = "upgrade" ->
                [u EXCEPT !.k.close = TRUE, !.k.res = [completed |-> TRUE, body |-> "404"], !.k.complete = TRUE,
                          !.goes = "left"]
           [] OTHER -> IF s.k.res.completed THEN Written(u) ELSE Answered(u, r)
  BY DEF Handled, t, u
<1>11. ASSUME NEW h \in Fields, NEW g \in {"go", "left", "error", "throw"},
              h.nth = s.k.nth + 1, h.task = id,
              h.res = Cleared \/ (h.complete /\ (~s.up \/ g = "left")) \/ (h.complete = s.k.complete /\ h.res = s.k.res)
       PROVE  Parsing(Record(h, g), timer, id)
  <2> DEFINE v == Record(h, g)
  <2>1. v.k = h /\ v.tk = gone /\ v.sent = s.sent /\ v.up = s.up /\ v.goes = g
    OBVIOUS
  <2>2. v \in Handling({timer, gone})
    BY <1>1 DEF Handling
  <2> HIDE DEF v
  <2>3. UpTo(s.sent, s.k.nth + 1)
    <3>1. \A i \in DOMAIN s.sent : s.sent[i] \in Answers
      BY <1>1
    <3> QED
      BY <1>1, <1>9, <3>1 DEF UpTo, Answers, Fields
  <2>4. Parsing(v, timer, id)
    BY <1>1, <1>3, <1>9, <1>11, <2>1, <2>2, <2>3 DEF Parsing, gone
  <2> QED
    BY <2>4 DEF v
<1>12. ASSUME NEW h \in Fields, h.nth = s.k.nth + 1, h.task = id, h.req = r.to,
              s.up /\ h.open => h.res.body = BodyOf(r.to)
       PROVE  Parsing(Written(Record(h, "go")), timer, id)
  <2> DEFINE v == Record(h, "go")
  <2>1. v.k = h /\ v.tk = gone /\ v.sent = s.sent /\ v.up = s.up /\ v.goes = "go"
    OBVIOUS
  <2>2. v \in Handling({timer, gone})
    BY <1>1 DEF Handling
  <2> HIDE DEF v
  <2>3. /\ v.k.task = id /\ v.k.req \in Names /\ (v.up /\ v.k.open => v.k.res.body = BodyOf(v.k.req))
        /\ Fit(v.sent) /\ (\A i \in DOMAIN v.sent : v.sent[i].nth < v.k.nth) /\ v.goes # "throw"
    BY <1>4, <1>9, <1>12, <2>1
  <2>4. Parsing(Written(v), timer, id)
    BY <2>2, <2>3, WrittenParses DEF gone
  <2> QED
    BY <2>4 DEF v
<1>13. CASE s.unnamed \/ ~s.k.open
  <2>1. [t EXCEPT !.goes = "throw"] = Record(k, "throw")
    BY <1>7
  <2>2. Parsing(Record(k, "throw"), timer, id)
    BY <1>5, <1>11
  <2>3. Handled(s, r) = [t EXCEPT !.goes = "throw"]
    BY <1>10, <1>13
  <2> QED
    BY <2>1, <2>2, <2>3
<1>14. CASE ~(s.unnamed \/ ~s.k.open) /\ r.to = "nohost"
  <2> DEFINE res == [completed |-> FALSE, body |-> "400"]
             h == [j EXCEPT !.res = res]
  <2>1. res \in Responses /\ res.body = BodyOf(r.to)
    BY <1>14 DEF Responses, Bodies, BodyOf
  <2>2. h \in Fields /\ h.nth = s.k.nth + 1 /\ h.task = id /\ h.req = r.to /\ h.res = res
    BY <1>6, <2>1 DEF Fields
  <2>3. [u EXCEPT !.k.res = res] = Record(h, "go")
    <3>1. [u EXCEPT !.k.res = res] = Record([j EXCEPT !.res = res], "go")
      <4> HIDE DEF res
      <4> QED
        BY <1>8
    <3> QED
      BY <3>1
  <2>4. Handled(s, r) = Written([u EXCEPT !.k.res = res])
    BY <1>10, <1>14
  <2> HIDE DEF res, h
  <2>5. Parsing(Written(Record(h, "go")), timer, id)
    BY <1>12, <2>1, <2>2
  <2> QED
    BY <2>3, <2>4, <2>5
<1>15. CASE ~(s.unnamed \/ ~s.k.open) /\ r.to = "upgrade"
  <2> DEFINE res == [completed |-> TRUE, body |-> "404"]
             h == [j EXCEPT !.close = TRUE, !.res = res, !.complete = TRUE]
  <2>1. res \in Responses
    BY DEF Responses, Bodies
  <2>2. h \in Fields /\ h.nth = s.k.nth + 1 /\ h.task = id /\ h.complete
    BY <1>6, <2>1 DEF Fields
  <2>3. [u EXCEPT !.k.close = TRUE, !.k.res = res, !.k.complete = TRUE, !.goes = "left"] = Record(h, "left")
    <3>1. [u EXCEPT !.k.close = TRUE, !.k.res = res, !.k.complete = TRUE, !.goes = "left"]
            = Record([j EXCEPT !.close = TRUE, !.res = res, !.complete = TRUE], "left")
      <4> HIDE DEF res
      <4>1. PICK yes : yes = TRUE
        OBVIOUS
      <4> DEFINE j1 == [j EXCEPT !.close = yes]
                 j2 == [j1 EXCEPT !.res = res]
                 j3 == [j2 EXCEPT !.complete = yes]
                 u1 == [u EXCEPT !.k.close = yes]
                 u2 == [u1 EXCEPT !.k.res = res]
                 u3 == [u2 EXCEPT !.k.complete = yes]
                 u4 == [u3 EXCEPT !.goes = "left"]
      <4>2. u1 = Record(j1, "go")
        BY <1>8
      <4> HIDE DEF j1, u1
      <4>3. u2 = Record(j2, "go")
        BY <4>2
      <4> HIDE DEF j2, u2
      <4>4. u3 = Record(j3, "go")
        BY <4>3
      <4> HIDE DEF j3, u3
      <4>5. u4 = Record(j3, "left")
        BY <4>4
      <4> QED
        BY <4>1, <4>5, Zenon DEF j1, j2, j3, u1, u2, u3, u4
    <3> QED
      BY <3>1
  <2>4. Handled(s, r) = [u EXCEPT !.k.close = TRUE, !.k.res = res, !.k.complete = TRUE, !.goes = "left"]
    BY <1>10, <1>15
  <2> HIDE DEF res, h
  <2>5. Parsing(Record(h, "left"), timer, id)
    BY <1>11, <2>2
  <2> QED
    BY <2>3, <2>4, <2>5
<1>16. CASE ~(s.unnamed \/ ~s.k.open) /\ r.to \notin {"nohost", "upgrade"} /\ s.k.res.completed
  <2>1. ~s.up
    <3>1. Cleared.completed = FALSE
      BY DEF Cleared
    <3> QED
      BY <1>3, <1>16, <3>1, Zenon
  <2>2. Parsing(Written(Record(j, "go")), timer, id)
    BY <1>6, <1>12, <2>1
  <2> QED
    BY <1>8, <1>10, <1>16, <2>2
<1>17. CASE ~(s.unnamed \/ ~s.k.open) /\ r.to \notin {"nohost", "upgrade"} /\ ~s.k.res.completed
  <2>1. Handled(s, r) = Answered(u, r)
    BY <1>10, <1>17
  <2>2. r.to \in {"page", "large", "file", "noroute"}
    BY <1>17 DEF Requests
  <2>3. u.k = j /\ u.tk = gone /\ u.sent = s.sent /\ u.goes = "go"
    BY <1>8
  <2>4. u \in Handling({timer, gone})
    BY <1>1, <1>6, <1>8 DEF Handling
  <2>5. Parsing(Answered(u, r), timer, id)
    BY <1>6, <1>9, <2>2, <2>3, <2>4, AnsweredFits DEF gone
  <2> QED
    BY <2>1, <2>5
<1> QED
  BY <1>13, <1>14, <1>15, <1>16, <1>17

\* OPTIONS and HEAD: the answer in the middle of a request is in its turn too.
LEMMA AnsweredEarlyParses ==
  ASSUME NEW timer, NEW id, NEW s, Parsing(s, timer, id), s.goes = "go"
  PROVE  Parsing(AnsweredEarly(s), timer, id)
<1> DEFINE res == [s.k.res EXCEPT !.body = "early"]
           k == [s.k EXCEPT !.nth = @ + 1, !.req = "early", !.res = res]
           t == [s EXCEPT !.k.nth = @ + 1, !.k.req = "early", !.k.res.body = "early"]
           v == Written(t)
           u == AnsweredEarly(s)
<1>1. s \in Handling({timer, Cancelled(timer, id)}) /\ s.k \in Fields /\ s.sent \in Seq(Answers) /\ s.k.task = id
  BY DEF Parsing, Handling
<1>2. "early" \in Names /\ BodyOf("early") = "early"
  <2>1. [to |-> "early", last |-> FALSE] \in Requests
    BY DEF Requests
  <2> QED
    BY <2>1 DEF Names, BodyOf
<1>3. res \in Responses /\ res.body = "early"
  BY <1>1 DEF Fields, Responses, Bodies
<1>4. k \in Fields /\ k.nth = s.k.nth + 1 /\ k.task = id /\ k.req = "early" /\ k.res.body = "early"
  <2> HIDE DEF res
  <2> QED
    <3> DEFINE h == [s.k EXCEPT !.nth = s.k.nth + 1, !.req = "early"]
    <3>1. k = [h EXCEPT !.res = res]
      OBVIOUS
    <3>2. h \in Fields /\ h.nth = s.k.nth + 1 /\ h.task = s.k.task /\ h.req = "early"
      BY <1>1, <1>2, NextRequest
    <3> HIDE DEF k, h
    <3> QED
      BY <1>1, <1>3, <3>1, <3>2 DEF Fields
<1>5. t = [s EXCEPT !.k = k]
  BY <1>1 DEF Handling, Fields, Responses
<1> HIDE DEF k, t, v
<1>6. t \in Handling({timer, Cancelled(timer, id)})
  BY <1>1, <1>4, <1>5 DEF Handling
<1>7. t.k = k /\ t.sent = s.sent /\ t.goes = "go"
  BY <1>1, <1>5 DEF Handling
<1>8. Fit(s.sent) /\ \A i \in DOMAIN s.sent : s.sent[i].nth < s.k.nth + 1
  <2>1. \A i \in DOMAIN s.sent : s.sent[i] \in Answers
    BY <1>1
  <2> QED
    BY <1>1, <2>1 DEF Parsing, UpTo, Answers, Fields
<1>9. Parsing(v, timer, id)
  <2>1. /\ t.k.task = id /\ t.k.req \in Names /\ (t.up /\ t.k.open => t.k.res.body = BodyOf(t.k.req))
        /\ Fit(t.sent) /\ (\A i \in DOMAIN t.sent : t.sent[i].nth < t.k.nth) /\ t.goes # "throw"
    BY <1>2, <1>4, <1>7, <1>8
  <2> QED
    BY <1>6, <2>1, WrittenParses DEF v
<1>10. u = [v EXCEPT !.goes = "error"]
  BY DEF AnsweredEarly, t, v
<1>11. v \in Handling({timer, Cancelled(timer, id)})
  BY <1>9 DEF Parsing
<1> HIDE DEF u
<1>12. u = [k |-> v.k, tk |-> v.tk, sent |-> v.sent, up |-> v.up, unnamed |-> v.unnamed, bulk |-> v.bulk,
            goes |-> "error"] /\ v.k \in Fields /\ v.bulk \in BOOLEAN
  BY <1>10, <1>11 DEF Handling
<1>13. /\ u.k = v.k /\ u.tk = v.tk /\ u.sent = v.sent /\ u.up = v.up /\ u.unnamed = v.unnamed
       /\ u.bulk = v.bulk /\ u.goes = "error"
  BY <1>12
<1>14. u = [k |-> u.k, tk |-> u.tk, sent |-> u.sent, up |-> u.up, unnamed |-> u.unnamed, bulk |-> u.bulk,
            goes |-> u.goes]
  BY <1>12
<1>15. Parsing(u, timer, id)
  BY <1>9, <1>12, <1>13, <1>14, GoesOnParsing
<1> QED
  BY <1>15 DEF u

\* Whatever a peer sends next.
LEMMA ParsedParses ==
  ASSUME NEW timer, NEW id, NEW s, Parsing(s, timer, id), NEW piece \in Pieces
  PROVE  Parsing(Parsed(s, piece), timer, id)
<1> DEFINE e == [s EXCEPT !.goes = "error"]
<1>1. s \in Handling({timer, Cancelled(timer, id)})
  BY DEF Parsing
<1>2. s.goes \in {"go", "left", "error", "throw"}
  BY <1>1 DEF Handling
<1>3. Parsing(e, timer, id)
  <2>1. e = [k |-> s.k, tk |-> s.tk, sent |-> s.sent, up |-> s.up, unnamed |-> s.unnamed, bulk |-> s.bulk,
             goes |-> "error"] /\ s.k \in Fields /\ s.bulk \in BOOLEAN
    BY <1>1 DEF Handling
  <2> HIDE DEF e
  <2>2. /\ e.k = s.k /\ e.tk = s.tk /\ e.sent = s.sent /\ e.up = s.up /\ e.unnamed = s.unnamed
        /\ e.bulk = s.bulk /\ e.goes = "error"
    BY <2>1
  <2>3. e = [k |-> e.k, tk |-> e.tk, sent |-> e.sent, up |-> e.up, unnamed |-> e.unnamed, bulk |-> e.bulk,
             goes |-> e.goes]
    BY <2>1
  <2> QED
    BY <2>1, <2>2, <2>3, GoesOnParsing
<1> HIDE DEF e
<1>4. Parsed(s, piece) = IF s.goes \in {"throw", "error"} THEN s
                         ELSE IF s.goes = "left" \/ piece.to = "bad" THEN e
                         ELSE CASE piece.to = "part" -> s
                                [] piece.to = "early" -> AnsweredEarly(s)
                                [] OTHER -> Handled(s, piece)
  BY DEF Parsed, e
<1>5. CASE s.goes # "go" \/ piece.to \in {"bad", "part"}
  BY <1>2, <1>3, <1>4, <1>5
<1>6. CASE s.goes = "go" /\ piece.to = "early"
  BY <1>4, <1>6, AnsweredEarlyParses
<1>7. CASE s.goes = "go" /\ piece.to \notin {"bad", "part", "early"}
  <2>1. Parsed(s, piece) = Handled(s, piece)
    BY <1>4, <1>7
  <2>2. piece \in Requests
    BY <1>7 DEF Pieces, Requests
  <2> QED
    BY <1>7, <2>1, <2>2, HandledParses
<1> QED
  BY <1>5, <1>6, <1>7

\* All of it.
LEMMA FedParses ==
  ASSUME NEW timer, NEW id, NEW s, Parsing(s, timer, id), NEW got \in Seq(Pieces)
  PROVE  Parsing(Fed(s, got), timer, id)
<1>1. CASE s.k.complete
  BY <1>1 DEF Fed
<1>2. CASE ~s.k.complete
  <2>1. Len(got) \in Nat /\ \A i \in 1 .. Len(got) : got[i] \in Pieces
    OBVIOUS
  <2>2. PICK after : FedOn(after, s, got, Len(got)) /\ Fed(s, got) = after[Len(got)]
    BY <1>2, <2>1, FedInSteps
  <2>3. \A i \in 0 .. Len(got) : after[i] = IF i = 0 THEN s ELSE Parsed(after[i - 1], got[i])
    BY <2>2 DEF FedOn
  <2> DEFINE S == {n \in Nat : n <= Len(got) => Parsing(after[n], timer, id)}
  <2>4. 0 \in S
    BY <2>1, <2>3
  <2>5. ASSUME NEW n \in Nat, n \in S PROVE n + 1 \in S
    <3>1. CASE n + 1 <= Len(got)
      <4>1. Parsing(after[n], timer, id) /\ got[n + 1] \in Pieces
        BY <2>1, <2>5, <3>1
      <4>2. after[n + 1] = Parsed(after[n], got[n + 1])
        BY <2>1, <2>3, <3>1
      <4> QED
        BY <4>1, <4>2, ParsedParses
    <3>2. CASE ~(n + 1 <= Len(got))
      BY <3>2
    <3> QED
      BY <3>1, <3>2
  <2>6. Nat \subseteq S
    <3> HIDE DEF S
    <3> QED
      BY <2>4, <2>5, NumbersInduct
  <2> QED
    BY <2>1, <2>2, <2>6
<1> QED
  BY <1>1, <1>2

-----------------------------------------------------------------------------
\* A new connection's fields.
LEMMA FreshType == Fresh \in Fields /\ Fresh.res = Cleared /\ ~Fresh.reading /\ Cleared \in Responses
BY DEF Fresh, Fields, Cleared, Responses, Bodies

\* A timer's tasks.
LEMMA InTimers ==
  ASSUME NEW t \in Timers
  PROVE  /\ t = [id \in DOMAIN t |-> t[id]]
         /\ DOMAIN t \subseteq Nat
         /\ \A id \in DOMAIN t : t[id] \in Deadlines /\ t[id].conn \in Conns /\ t[id].left \in Int
<1>1. PICK ids \in SUBSET Nat : t \in [ids -> Deadlines]
  BY DEF Timers
<1> QED
  BY <1>1 DEF Deadlines

LEMMA IsTimer ==
  ASSUME NEW ids \in SUBSET Nat, NEW t \in [ids -> Deadlines]
  PROVE  t \in Timers
BY DEF Timers

\* The end of a handler destroys what nothing refers to, and leaves nothing that
\* only a deadline refers to.
LEMMA SettleKeeps ==
  ASSUME NEW lf \in [Conns -> Lives], NEW cn, NEW qu, NEW ev, NEW tk, NEW ac,
         Settle(lf, cn, qu, ev, tk, ac),
         Kept(lf, cn, ev, tk, ac, home', highest', sent')
  PROVE  /\ Kept(life', conn', events', tasks', acceptor', home', highest', sent')
         /\ NoneLivesForItsDeadline'
<1> DEFINE gone == {c \in Conns : lf[c] = "live" /\ ~Refers(c, cn, ev, tk, ac)}
<1>1. /\ life' = [c \in Conns |-> IF c \in gone THEN "freed" ELSE lf[c]]
      /\ conn' = [c \in Conns |-> IF c \in gone THEN Fresh ELSE cn[c]]
      /\ events' = ev /\ tasks' = tk /\ acceptor' = ac
  BY DEF Settle
<1>2. \A c \in gone : ~Refers(c, cn, ev, tk, ac)
  OBVIOUS
<1>3. \A c \in Conns : Refers(c, cn, ev, tk, ac) => c \notin gone /\ lf[c] = "live"
  BY DEF Kept, Alive
<1>4. \A c \in Conns : lf[c] = "live" => c \in gone \/ Refers(c, cn, ev, tk, ac)
  OBVIOUS
<1> HIDE DEF gone
<1>5. conn' \in [Conns -> Fields]
  BY <1>1, FreshType DEF Kept
<1>6. \A c \in Conns : Refers(c, conn', ev, tk, ac) <=> Refers(c, cn, ev, tk, ac)
  <2> SUFFICES ASSUME NEW c \in Conns PROVE Refers(c, conn', ev, tk, ac) <=> Refers(c, cn, ev, tk, ac)
    OBVIOUS
  <2>1. CASE c \in gone
    <3>1. conn'[c] = Fresh /\ ~cn[c].reading
      BY <1>1, <1>2, <2>1 DEF Refers
    <3> QED
      BY <3>1, FreshType DEF Refers
  <2>2. CASE c \notin gone
    BY <1>1, <2>2 DEF Refers
  <2> QED
    BY <2>1, <2>2
<1>7. Alive(life', conn', ev, tk, ac)
  BY <1>1, <1>3, <1>6 DEF Alive
<1>8. TasksInUse(conn', ev, tk, home', highest')
  <2> SUFFICES ASSUME NEW w \in Workers, NEW id \in DOMAIN tk[w]
               PROVE  Deadlined(w, id, conn', ev, tk, home', highest')
    BY DEF TasksInUse
  <2> DEFINE c == tk[w][id].conn
  <2>1. Deadlined(w, id, cn, ev, tk, home', highest')
    BY DEF Kept, TasksInUse
  <2>2. c \in Conns
    <3>1. tk[w] \in Timers
      BY DEF Kept
    <3> QED
      BY <3>1, InTimers
  <2>3. Refers(c, cn, ev, tk, ac)
    BY DEF Refers
  <2>4. conn'[c] = cn[c]
    BY <1>1, <1>3, <2>2, <2>3
  <2> QED
    BY <2>1, <2>4 DEF Deadlined, Busy
<1>9. \A c \in Conns : Said(c, life', conn', sent')
  <2> SUFFICES ASSUME NEW c \in Conns PROVE Said(c, life', conn', sent')
    OBVIOUS
  <2>1. Said(c, lf, cn, sent')
    BY DEF Kept
  <2>2. CASE c \in gone
    BY <1>1, <2>1, <2>2, FreshType DEF Said
  <2>3. CASE c \notin gone
    BY <1>1, <2>1, <2>3 DEF Said
  <2> QED
    BY <2>2, <2>3
<1>10. Kept(life', conn', events', tasks', acceptor', home', highest', sent')
  BY <1>1, <1>5, <1>7, <1>8, <1>9 DEF Kept
<1>11. NoneLivesForItsDeadline'
  <2> SUFFICES ASSUME NEW c \in Conns, life'[c] = "live"
               PROVE  Refers(c, conn', ev, [w \in Workers |-> <<>>], ac)
    BY <1>1 DEF NoneLivesForItsDeadline
  <2>1. Refers(c, cn, ev, tk, ac)
    BY <1>1, <1>4
  <2>2. Refers(c, conn', ev, tk, ac)
    BY <1>6, <2>1
  <2>3. CASE \E w \in Workers : \E id \in DOMAIN tk[w] : tk[w][id].conn = c
    <3>1. PICK w \in Workers : \E id \in DOMAIN tk[w] : tk[w][id].conn = c
      BY <2>3
    <3>2. PICK id \in DOMAIN tk[w] : tk[w][id].conn = c
      BY <3>1
    <3>3. Deadlined(w, id, conn', ev, tk, home', highest')
      BY <1>8 DEF TasksInUse
    <3> QED
      BY <3>2, <3>3 DEF Deadlined, Busy, Refers
  <2> QED
    BY <2>2, <2>3 DEF Refers
<1> QED
  BY <1>10, <1>11

-----------------------------------------------------------------------------
\* How each step keeps the connections' invariant.  An event waits at a worker:
In(ev, w, e) == \E i \in DOMAIN ev[w] : ev[w][i] = e

\* What the invariant says of events, said of the events that wait.
LEMMA WaitingEvents ==
  ASSUME NEW cn, NEW ev, NEW tk, NEW ac, NEW hm
  PROVE  /\ \A c : Busy(c, cn, ev) <=> (cn[c].reading \/ \E w \in Workers : \E e : In(ev, w, e) /\ e.conn = c)
         /\ \A c : Refers(c, cn, ev, tk, ac) <=>
                     \/ Busy(c, cn, ev)
                     \/ \E w \in Workers : \E id \in DOMAIN tk[w] : tk[w][id].conn = c
                     \/ ac.holds = c
         /\ EventsAtHome(ev, hm) <=>
              \A w \in Workers : \A e : In(ev, w, e) =>
                (e.conn = Null <=> e.kind = "tick") /\ (e.conn # Null => hm[e.conn] = w)
BY DEF Busy, Refers, EventsAtHome, In

\* An event comes.
LEMMA EventComes ==
  ASSUME NEW ev \in [Workers -> Seq(Event)], NEW w \in Workers, NEW e \in Event
  PROVE  LET next == [ev EXCEPT ![w] = Append(@, e)]
         IN /\ next \in [Workers -> Seq(Event)]
            /\ \A v \in Workers : \A x : In(next, v, x) <=> (In(ev, v, x) \/ (v = w /\ x = e))
<1> DEFINE next == [ev EXCEPT ![w] = Append(@, e)]
<1>1. ev[w] \in Seq(Event)
  OBVIOUS
<1>2. next \in [Workers -> Seq(Event)]
  BY <1>1
<1>3. ASSUME NEW v \in Workers, NEW x PROVE In(next, v, x) <=> (In(ev, v, x) \/ (v = w /\ x = e))
  <2>1. CASE v # w
    BY <2>1 DEF In
  <2>2. CASE v = w
    <3>1. next[v] = Append(ev[w], e)
      BY <2>2
    <3>2. DOMAIN next[v] = 1 .. Len(ev[w]) + 1 /\ DOMAIN ev[w] = 1 .. Len(ev[w]) /\ Len(ev[w]) \in Nat
      BY <1>1, <3>1
    <3>3. next[v][Len(ev[w]) + 1] = e /\ \A i \in 1 .. Len(ev[w]) : next[v][i] = ev[w][i]
      BY <1>1, <3>1
    <3> HIDE DEF next
    <3> QED
      BY <2>2, <3>2, <3>3 DEF In
  <2> QED
    BY <2>1, <2>2
<1> QED
  BY <1>2, <1>3

\* An event is taken, and others may come that it brings about.
LEMMA EventTaken ==
  ASSUME NEW ev \in [Workers -> Seq(Event)], NEW w \in Workers, ev[w] # <<>>, NEW more \in Seq(Event)
  PROVE  LET next == [ev EXCEPT ![w] = Tail(@) \o more]
         IN /\ next \in [Workers -> Seq(Event)]
            /\ \A v \in Workers : \A x : In(next, v, x) =>
                 In(ev, v, x) \/ (v = w /\ \E i \in DOMAIN more : more[i] = x)
            /\ \A v \in Workers : \A x : In(ev, v, x) => In(next, v, x) \/ (v = w /\ x = Head(ev[w]))
            /\ In(ev, w, Head(ev[w]))
<1> DEFINE next == [ev EXCEPT ![w] = Tail(@) \o more]
           n == Len(ev[w]) - 1
<1>1. /\ ev[w] \in Seq(Event) /\ Len(ev[w]) \in Nat /\ DOMAIN ev[w] = 1 .. n + 1 /\ n \in Nat
      /\ Head(ev[w]) = ev[w][1]
  OBVIOUS
<1>2. Tail(ev[w]) \in Seq(Event) /\ Len(Tail(ev[w])) = n /\ \A i \in 1 .. n : Tail(ev[w])[i] = ev[w][i + 1]
  BY <1>1
<1>3. next[w] = Tail(ev[w]) \o more /\ \A v \in Workers : v # w => next[v] = ev[v]
  OBVIOUS
<1>4. /\ next[w] \in Seq(Event) /\ DOMAIN next[w] = 1 .. n + Len(more) /\ Len(more) \in Nat
      /\ DOMAIN more = 1 .. Len(more)
      /\ \A i \in 1 .. n + Len(more) : next[w][i] = IF i <= n THEN ev[w][i + 1] ELSE more[i - n]
  <2> DEFINE rest == Tail(ev[w])
  <2>1. rest \in Seq(Event) /\ Len(rest) = n /\ n \in Nat /\ next[w] = rest \o more
    BY <1>1, <1>2, <1>3
  <2> HIDE DEF n, rest, next
  <2>2. /\ next[w] \in Seq(Event) /\ Len(next[w]) = n + Len(more)
        /\ \A i \in 1 .. n + Len(more) : next[w][i] = IF i <= n THEN rest[i] ELSE more[i - n]
    <3>1. /\ rest \o more \in Seq(Event) /\ Len(rest \o more) = Len(rest) + Len(more)
          /\ \A i \in 1 .. Len(rest) + Len(more) :
               (rest \o more)[i] = IF i <= Len(rest) THEN rest[i] ELSE more[i - Len(rest)]
      BY <2>1, ConcatProperties
    <3> QED
      BY <2>1, <3>1
  <2>3. \A i \in 1 .. n + Len(more) : i <= n => i \in 1 .. n
    BY <2>1
  <2> QED
    BY <1>2, <2>1, <2>2, <2>3 DEF rest
<1>5. next \in [Workers -> Seq(Event)]
  OBVIOUS
<1> HIDE DEF next, n
<1>6. ASSUME NEW v \in Workers, NEW x, In(next, v, x)
      PROVE  In(ev, v, x) \/ (v = w /\ \E i \in DOMAIN more : more[i] = x)
  <2>1. CASE v # w
    BY <1>3, <1>6, <2>1 DEF In
  <2>2. CASE v = w
    <3>1. PICK i \in 1 .. n + Len(more) : next[w][i] = x
      BY <1>4, <1>6, <2>2 DEF In
    <3>2. CASE i <= n
      <4>1. i + 1 \in 1 .. n + 1 /\ ev[w][i + 1] = x
        BY <1>1, <1>4, <3>1, <3>2
      <4> QED
        BY <1>1, <2>2, <4>1 DEF In
    <3>3. CASE ~(i <= n)
      <4>1. i - n \in 1 .. Len(more) /\ more[i - n] = x
        BY <1>1, <1>4, <3>1, <3>3
      <4> QED
        BY <1>4, <2>2, <4>1
    <3> QED
      BY <3>2, <3>3
  <2> QED
    BY <2>1, <2>2
<1>7. ASSUME NEW v \in Workers, NEW x, In(ev, v, x)
      PROVE  In(next, v, x) \/ (v = w /\ x = Head(ev[w]))
  <2>1. CASE v # w
    BY <1>3, <1>7, <2>1 DEF In
  <2>2. CASE v = w
    <3>1. PICK i \in 1 .. n + 1 : ev[w][i] = x
      BY <1>1, <1>7, <2>2 DEF In
    <3>2. CASE i = 1
      BY <1>1, <2>2, <3>1, <3>2
    <3>3. CASE i # 1
      <4>1. i - 1 \in 1 .. n + Len(more) /\ i - 1 <= n /\ (i - 1) + 1 = i
        BY <1>1, <1>4, <3>1, <3>3
      <4>2. next[w][i - 1] = x
        BY <1>4, <3>1, <4>1
      <4> QED
        BY <1>4, <2>2, <4>1, <4>2 DEF In
    <3> QED
      BY <3>2, <3>3
  <2> QED
    BY <2>1, <2>2
<1>8. In(ev, w, Head(ev[w]))
  <2>1. 1 \in DOMAIN ev[w]
    BY <1>1
  <2> QED
    BY <1>1, <2>1 DEF In
<1> QED
  BY <1>5, <1>6, <1>7, <1>8 DEF next

\* A waiting event is an event, of a live connection of this worker.
LEMMA WaitingAlive ==
  ASSUME ConnInv, NEW w \in Workers, NEW e, In(events, w, e)
  PROVE  /\ e \in Event
         /\ e.conn # Null => e.conn \in Conns /\ life[e.conn] = "live" /\ home[e.conn] = w
         /\ e.conn = Null <=> e.kind = "tick"
<1>1. e \in Event
  BY DEF ConnInv, Kept, In
<1>2. /\ e.conn # Null => home[e.conn] = w
      /\ e.conn = Null <=> e.kind = "tick"
  BY WaitingEvents DEF ConnInv, Kept
<1>3. e.conn # Null => e.conn \in Conns
  BY <1>1 DEF Event
<1>4. Refers(e.conn, conn, events, tasks, acceptor)
  BY DEF Refers, In
<1> QED
  BY <1>1, <1>2, <1>3, <1>4 DEF ConnInv, Kept, Alive

\* Only where the acceptor is may have changed.
LEMMA ElsewhereKeeps ==
  ASSUME ConnInv, UNCHANGED <<events, tasks, highest, life, conn, home, sent>>, acceptor'.holds = acceptor.holds,
         peer' \in [Conns -> {"away", "up", "stalled", "gone"}], inbox' \in [Conns -> Seq(Pieces)],
         acceptor'.at = "wait" => acceptor.at = "wait"
  PROVE  ConnInv'
<1>1. \A c : Refers(c, conn, events, tasks, acceptor)' <=> Refers(c, conn, events, tasks, acceptor)
  BY DEF Refers
<1>2. Kept(life, conn, events, tasks, acceptor, home, highest, sent)'
  BY <1>1 DEF ConnInv, Kept, Alive, EventsAtHome, TasksInUse, Deadlined, Busy, Said, Fit, UpTo
<1>3. NoneLivesForItsDeadline'
  BY DEF ConnInv, NoneLivesForItsDeadline, Refers
<1> QED
  BY <1>2, <1>3 DEF ConnInv, ConnTypes

\* The server starts and stops, the acceptor compares, peers send and go.
LEMMA PhasesKeep ==
  ASSUME ConnInv, CountInv,
         Open \/ StartAccepting \/ Stop \/ Compare \/ AcceptFails
         \/ (\E w \in Workers : StartWorker(w) \/ EndWorker(w) \/ Block(w)) \/ (\E c \in Conns : Peer(c))
  PROVE  ConnInv'
<1>1. peer \in [Conns -> {"away", "up", "stalled", "gone"}] /\ inbox \in [Conns -> Seq(Pieces)]
  BY DEF ConnInv, ConnTypes
<1>2. acceptor \in Acceptor
  BY DEF CountInv, CountTypes
<1>3. CASE Open \/ \E w \in Workers : StartWorker(w) \/ EndWorker(w) \/ Block(w)
  <2>1. UNCHANGED <<events, tasks, highest, life, conn, home, sent, acceptor, peer, inbox>>
    BY <1>3 DEF Open, StartWorker, EndWorker, Block
  <2> QED
    BY <1>1, <2>1, ElsewhereKeeps
<1>4. CASE StartAccepting
  <2>1. UNCHANGED <<events, tasks, highest, life, conn, home, sent, peer, inbox>> /\ acceptor'.at = "pick"
        /\ acceptor'.holds = Null
    BY <1>4 DEF StartAccepting, Idle
  <2>2. acceptor.holds = Null
    <3>1. \A c \in Conns : life[c] = "new"
      BY <1>4 DEF StartAccepting, CountInv, NoneBeforeAccepting
    <3>2. acceptor.holds \in Conns => life[acceptor.holds] = "live"
      BY DEF ConnInv, Kept, Alive, Refers
    <3> QED
      BY <1>2, <3>1, <3>2 DEF Acceptor
  <2> QED
    BY <1>1, <2>1, <2>2, ElsewhereKeeps
<1>5. CASE Stop \/ Compare \/ AcceptFails
  <2>1. UNCHANGED <<events, tasks, highest, life, conn, home, sent, peer, inbox>>
    BY <1>5 DEF Stop, Compare, AcceptFails
  <2>2. acceptor'.holds = acceptor.holds /\ acceptor'.at # "wait"
    BY <1>2, <1>5 DEF Stop, Compare, AcceptFails, Acceptor
  <2> QED
    BY <1>1, <2>1, <2>2, ElsewhereKeeps
<1>6. ASSUME NEW c \in Conns, Peer(c) PROVE ConnInv'
  <2>1. UNCHANGED <<events, tasks, highest, life, conn, home, sent, acceptor>>
    BY <1>6 DEF Peer, Send, Stall, Resume, Leave, Turns
  <2>2. peer' \in [Conns -> {"away", "up", "stalled", "gone"}]
    BY <1>1, <1>6 DEF Peer, Send, Stall, Resume, Leave, Turns
  <2>3. inbox' \in [Conns -> Seq(Pieces)]
    <3>1. CASE Send(c)
      <4>1. PICK pieces \in Offered : inbox' = [inbox EXCEPT ![c] = @ \o pieces]
        BY <3>1 DEF Send
      <4>2. inbox[c] \in Seq(Pieces) /\ pieces \in Seq(Pieces)
        BY <1>1, OfferedAssumption
      <4>3. inbox[c] \o pieces \in Seq(Pieces)
        BY <4>2
      <4> QED
        BY <1>1, <4>1, <4>3
    <3>2. CASE ~Send(c)
      BY <1>1, <1>6, <3>2 DEF Peer, Stall, Resume, Leave, Turns
    <3> QED
      BY <3>1, <3>2
  <2> QED
    BY <2>1, <2>2, <2>3, ElsewhereKeeps
<1> QED
  BY <1>3, <1>4, <1>5, <1>6

\* A peer connects.
LEMMA AcceptKeeps ==
  ASSUME ConnInv, CountInv, Accept
  PROVE  ConnInv'
<1> DEFINE c == acceptor.holds
           w == home[c]
           e == [kind |-> "start", conn |-> c, ok |-> TRUE, got |-> <<>>]
<1>1. acceptor \in Acceptor /\ c \in Conns /\ c # Null /\ w \in Workers
  BY ServerAssumption DEF Accept, ConnInv, CountInv, CountTypes, Acceptor
<1>2. life[c] = "live"
  BY <1>1 DEF ConnInv, Kept, Alive, Refers
<1>3. /\ conn' = [conn EXCEPT ![c].open = TRUE]
      /\ events' = [events EXCEPT ![w] = Append(@, e)]
      /\ peer' = [peer EXCEPT ![c] = "up"]
      /\ acceptor' = [acceptor EXCEPT !.at = "pick", !.i = 2, !.min = 1]
      /\ UNCHANGED <<tasks, highest, life, home, inbox, sent>>
  BY DEF Accept
<1>4. e \in Event
  BY <1>1 DEF Event
<1>5. conn \in [Conns -> Fields] /\ events \in [Workers -> Seq(Event)]
  BY DEF ConnInv, Kept
<1>6. acceptor'.holds = acceptor.holds /\ acceptor'.at = "pick"
  BY <1>1, <1>3 DEF Acceptor
<1>7. e.conn = c /\ e.kind = "start"
  OBVIOUS
<1> HIDE DEF c, w, e
<1>8. /\ events' \in [Workers -> Seq(Event)]
      /\ \A v \in Workers : \A x : In(events', v, x) <=> (In(events, v, x) \/ (v = w /\ x = e))
  BY <1>1, <1>3, <1>4, <1>5, EventComes
<1>9. conn' \in [Conns -> Fields]
  BY <1>1, <1>3, <1>5 DEF Fields
<1>10. \A d \in Conns : /\ conn'[d].reading = conn[d].reading /\ conn'[d].task = conn[d].task
                        /\ conn'[d].nth = conn[d].nth /\ conn'[d].res = conn[d].res
                        /\ conn'[d].complete = conn[d].complete
  BY <1>1, <1>3, <1>5 DEF Fields
<1>11. ASSUME NEW d \in Conns
       PROVE  /\ Refers(d, conn', events', tasks, acceptor') => d = c \/ Refers(d, conn, events, tasks, acceptor)
              /\ Refers(d, conn, events, [v \in Workers |-> <<>>], acceptor) =>
                 Refers(d, conn', events', [v \in Workers |-> <<>>], acceptor')
              /\ Busy(d, conn, events) => Busy(d, conn', events')
  <2>1. /\ Busy(d, conn, events) <=> (conn[d].reading \/ \E v \in Workers : \E x : In(events, v, x) /\ x.conn = d)
        /\ Busy(d, conn', events') <=> (conn'[d].reading \/ \E v \in Workers : \E x : In(events', v, x) /\ x.conn = d)
    BY DEF Busy, In
  <2>2. Busy(d, conn, events) => Busy(d, conn', events')
    BY <1>8, <1>10, <2>1
  <2>3. Busy(d, conn', events') => d = c \/ Busy(d, conn, events)
    BY <1>7, <1>8, <1>10, <2>1
  <2> QED
    BY <1>6, <2>2, <2>3 DEF Refers, Busy
<1>12. Alive(life, conn', events', tasks, acceptor')
  BY <1>2, <1>11 DEF Alive, ConnInv, Kept
<1>13. EventsAtHome(events', home)
  <2>1. EventsAtHome(events, home)
    BY DEF ConnInv, Kept
  <2>2. (e.conn = Null <=> e.kind = "tick") /\ home[e.conn] = w
    BY <1>1, <1>7 DEF w
  <2> QED
    BY <1>8, <2>1, <2>2, WaitingEvents
<1>14. TasksInUse(conn', events', tasks, home, highest)
  <2> SUFFICES ASSUME NEW v \in Workers, NEW id \in DOMAIN tasks[v]
               PROVE  Deadlined(v, id, conn', events', tasks, home, highest)
    BY DEF TasksInUse
  <2>1. Deadlined(v, id, conn, events, tasks, home, highest) /\ tasks[v] \in Timers
    BY DEF ConnInv, Kept, TasksInUse
  <2>2. tasks[v][id].conn \in Conns
    BY <2>1, InTimers
  <2> QED
    BY <1>10, <1>11, <2>1, <2>2 DEF Deadlined
<1>15. \A d \in Conns : Said(d, life, conn', sent)
  BY <1>10 DEF ConnInv, Kept, Said
<1>16. Kept(life, conn, events, tasks, acceptor, home, highest, sent)'
  BY <1>3, <1>8, <1>9, <1>12, <1>13, <1>14, <1>15 DEF ConnInv, Kept
<1>17. NoneLivesForItsDeadline'
  BY <1>3, <1>11 DEF ConnInv, NoneLivesForItsDeadline
<1>18. ConnTypes'
  BY <1>1, <1>3 DEF ConnInv, ConnTypes
<1> QED
  BY <1>6, <1>16, <1>17, <1>18 DEF ConnInv

\* A read completes, by itself or because the peer has gone; a tick is due.
LEMMA NetworkKeeps ==
  ASSUME ConnInv, CountInv, (\E w \in Workers : TickDue(w)) \/ (\E c \in Conns : Network(c))
  PROVE  ConnInv'
<1>1. /\ conn \in [Conns -> Fields] /\ events \in [Workers -> Seq(Event)] /\ home \in [Conns -> Workers]
      /\ inbox \in [Conns -> Seq(Pieces)]
  BY DEF ConnInv, ConnTypes, Kept, CountInv, CountTypes
<1>2. PICK w \in Workers, e \in Event :
        /\ events' = [events EXCEPT ![w] = Append(@, e)]
        /\ e.conn = Null <=> e.kind = "tick"
        /\ e.conn # Null => home[e.conn] = w /\ conn[e.conn].reading
        /\ conn' \in [Conns -> Fields]
        /\ \A d \in Conns : /\ conn'[d].reading <=> (conn[d].reading /\ d # e.conn)
                            /\ conn'[d].task = conn[d].task
                            /\ conn'[d].nth = conn[d].nth /\ conn'[d].res = conn[d].res
                            /\ conn'[d].complete = conn[d].complete
        /\ inbox' \in [Conns -> Seq(Pieces)]
        /\ UNCHANGED <<acceptor, tasks, highest, life, home, peer, sent>>
  <2>1. ASSUME NEW w \in Workers, TickDue(w)
        PROVE  \E e \in Event :
                 /\ events' = [events EXCEPT ![w] = Append(@, e)]
                 /\ e.conn = Null <=> e.kind = "tick"
                 /\ e.conn # Null => home[e.conn] = w /\ conn[e.conn].reading
                 /\ conn' \in [Conns -> Fields]
                 /\ \A d \in Conns : /\ conn'[d].reading <=> (conn[d].reading /\ d # e.conn)
                                     /\ conn'[d].task = conn[d].task
                                     /\ conn'[d].nth = conn[d].nth /\ conn'[d].res = conn[d].res
                                     /\ conn'[d].complete = conn[d].complete
                 /\ inbox' \in [Conns -> Seq(Pieces)]
                 /\ UNCHANGED <<acceptor, tasks, highest, life, home, peer, sent>>
    <3> DEFINE e == [kind |-> "tick", conn |-> Null, ok |-> TRUE, got |-> <<>>]
    <3>1. e \in Event /\ e.conn = Null /\ e.kind = "tick"
      BY DEF Event
    <3>2. /\ events' = [events EXCEPT ![w] = Append(@, e)] /\ conn' = conn
          /\ UNCHANGED <<acceptor, tasks, highest, life, home, peer, sent, inbox>>
      BY <2>1 DEF TickDue
    <3> HIDE DEF e
    <3>3. \A d \in Conns : conn[d].reading \in BOOLEAN /\ d # e.conn
      BY <1>1, <3>1, ServerAssumption DEF Fields
    <3>4. \A d \in Conns : conn'[d].reading <=> (conn[d].reading /\ d # e.conn)
      BY <3>2, <3>3
    <3> QED
      BY <1>1, <3>1, <3>2, <3>4
  <2>2. ASSUME NEW c \in Conns, NEW ok \in BOOLEAN, NEW n \in Nat, n <= Len(inbox[c]), Complete(c, ok, n)
        PROVE  \E e \in Event :
                 /\ events' = [events EXCEPT ![home[c]] = Append(@, e)]
                 /\ e.conn = Null <=> e.kind = "tick"
                 /\ e.conn # Null => home[e.conn] = home[c] /\ conn[e.conn].reading
                 /\ conn' \in [Conns -> Fields]
                 /\ \A d \in Conns : /\ conn'[d].reading <=> (conn[d].reading /\ d # e.conn)
                                     /\ conn'[d].task = conn[d].task
                                     /\ conn'[d].nth = conn[d].nth /\ conn'[d].res = conn[d].res
                                     /\ conn'[d].complete = conn[d].complete
                 /\ inbox' \in [Conns -> Seq(Pieces)]
                 /\ UNCHANGED <<acceptor, tasks, highest, life, home, peer, sent>>
    <3> DEFINE got == SubSeq(inbox[c], 1, n)
               rest == SubSeq(inbox[c], n + 1, Len(inbox[c]))
               e == [kind |-> "read", conn |-> c, ok |-> ok, got |-> got]
    <3>1. /\ events' = [events EXCEPT ![home[c]] = Append(@, e)] /\ conn[c].reading
          /\ conn' = [conn EXCEPT ![c].reading = FALSE] /\ inbox' = [inbox EXCEPT ![c] = rest]
          /\ UNCHANGED <<acceptor, tasks, highest, life, home, peer, sent>>
      BY <2>2 DEF Complete
    <3>2. got \in Seq(Pieces) /\ rest \in Seq(Pieces)
      <4>1. inbox[c] \in Seq(Pieces)
        BY <1>1
      <4>2. \A i \in 1 .. Len(inbox[c]) : inbox[c][i] \in Pieces
        BY <4>1
      <4>3. got \in Seq(Pieces)
        <5>1. \A i \in 1 .. n : inbox[c][i] \in Pieces
          BY <2>2, <4>1, <4>2
        <5> QED
          BY <5>1
      <4>4. rest \in Seq(Pieces)
        <5>1. Len(inbox[c]) \in Nat /\ \A i \in n + 1 .. Len(inbox[c]) : inbox[c][i] \in Pieces
          BY <4>1, <4>2
        <5> QED
          BY <5>1
      <4> QED
        BY <4>3, <4>4
    <3> HIDE DEF got, rest
    <3>3. e \in Event /\ e.conn = c /\ e.kind = "read"
      BY <3>2 DEF Event
    <3> HIDE DEF e
    <3>4. conn' \in [Conns -> Fields] /\ inbox' \in [Conns -> Seq(Pieces)]
      BY <1>1, <3>1, <3>2 DEF Fields
    <3>5. \A d \in Conns : /\ conn'[d].task = conn[d].task
                           /\ conn'[d].nth = conn[d].nth /\ conn'[d].res = conn[d].res
                           /\ conn'[d].complete = conn[d].complete
      BY <1>1, <3>1 DEF Fields
    <3>6. \A d \in Conns : conn'[d].reading <=> (conn[d].reading /\ d # e.conn)
      <4> SUFFICES ASSUME NEW d \in Conns PROVE conn'[d].reading <=> (conn[d].reading /\ d # e.conn)
        OBVIOUS
      <4>1. CASE d = c
        <5>1. conn'[d].reading = FALSE
          BY <1>1, <3>1, <4>1 DEF Fields
        <5> QED
          BY <3>3, <4>1, <5>1
      <4>2. CASE d # c
        <5>1. conn'[d] = conn[d] /\ conn[d].reading \in BOOLEAN
          BY <1>1, <3>1, <4>2 DEF Fields
        <5> QED
          BY <3>3, <4>2, <5>1
      <4> QED
        BY <4>1, <4>2
    <3> QED
      BY <3>1, <3>3, <3>4, <3>5, <3>6, ServerAssumption
  <2>3. ASSUME NEW c \in Conns, Network(c)
        PROVE  \E ok \in BOOLEAN : \E n \in Nat : n <= Len(inbox[c]) /\ Complete(c, ok, n)
    <3>1. Len(inbox[c]) \in Nat
      BY <1>1
    <3>2. CASE Receive(c)
      <4>1. PICK n \in 1 .. Len(inbox[c]) : Complete(c, TRUE, n)
        BY <3>2 DEF Receive
      <4>2. n \in Nat /\ n <= Len(inbox[c])
        BY <3>1
      <4> QED
        BY <4>1, <4>2
    <3>3. CASE Lose(c)
      <4>1. Complete(c, FALSE, 0)
        BY <3>3, Zenon DEF Lose
      <4>2. 0 \in Nat /\ 0 <= Len(inbox[c]) /\ FALSE \in BOOLEAN
        BY <3>1
      <4> QED
        BY <4>1, <4>2, Zenon
    <3> QED
      BY <2>3, <3>2, <3>3 DEF Network
  <2>4. \A c \in Conns : home[c] \in Workers
    BY <1>1
  <2> QED
    BY <2>1, <2>2, <2>3, <2>4
<1>3. /\ events' \in [Workers -> Seq(Event)]
      /\ \A v \in Workers : \A x : In(events', v, x) <=> (In(events, v, x) \/ (v = w /\ x = e))
  <2>1. events' = [events EXCEPT ![w] = Append(@, e)]
    BY <1>2
  <2> QED
    BY <1>1, <2>1, EventComes
<1>4. ASSUME NEW d \in Conns PROVE Busy(d, conn', events') <=> Busy(d, conn, events)
  <2>1. /\ Busy(d, conn, events) <=> (conn[d].reading \/ \E v \in Workers : \E x : In(events, v, x) /\ x.conn = d)
        /\ Busy(d, conn', events') <=> (conn'[d].reading \/ \E v \in Workers : \E x : In(events', v, x) /\ x.conn = d)
    BY DEF Busy, In
  <2>2. e.conn = d => conn[d].reading
    BY <1>2, ServerAssumption
  <2>3. conn'[d].reading <=> (conn[d].reading /\ d # e.conn)
    BY <1>2
  <2>4. (\E v \in Workers : \E x : In(events', v, x) /\ x.conn = d)
          <=> (e.conn = d \/ \E v \in Workers : \E x : In(events, v, x) /\ x.conn = d)
    BY <1>3
  <2> QED
    BY <2>1, <2>2, <2>3, <2>4
<1>5. \A tk : \A d \in Conns : Refers(d, conn', events', tk, acceptor) <=> Refers(d, conn, events, tk, acceptor)
  BY <1>4 DEF Refers, Busy
<1>6. Alive(life, conn', events', tasks, acceptor)
  BY <1>5 DEF Alive, ConnInv, Kept
<1>7. EventsAtHome(events', home)
  <2>1. \A v \in Workers : \A x : In(events, v, x) =>
          (x.conn = Null <=> x.kind = "tick") /\ (x.conn # Null => home[x.conn] = v)
    BY DEF ConnInv, Kept, EventsAtHome, In
  <2>2. (e.conn = Null <=> e.kind = "tick") /\ (e.conn # Null => home[e.conn] = w)
    BY <1>2
  <2>3. \A v \in Workers : \A x : In(events', v, x) =>
          (x.conn = Null <=> x.kind = "tick") /\ (x.conn # Null => home[x.conn] = v)
    BY <1>3, <2>1, <2>2
  <2> QED
    BY <2>3 DEF EventsAtHome, In
<1>8. TasksInUse(conn', events', tasks, home, highest)
  <2> SUFFICES ASSUME NEW v \in Workers, NEW id \in DOMAIN tasks[v]
               PROVE  Deadlined(v, id, conn', events', tasks, home, highest)
    BY DEF TasksInUse
  <2>1. Deadlined(v, id, conn, events, tasks, home, highest) /\ tasks[v] \in Timers
    BY DEF ConnInv, Kept, TasksInUse
  <2>2. tasks[v][id].conn \in Conns
    BY <2>1, InTimers
  <2> QED
    BY <1>2, <1>4, <2>1, <2>2 DEF Deadlined
<1>9. \A d \in Conns : Said(d, life, conn', sent)
  BY <1>2 DEF ConnInv, Kept, Said
<1>10. Kept(life, conn, events, tasks, acceptor, home, highest, sent)'
  BY <1>2, <1>3, <1>6, <1>7, <1>8, <1>9 DEF ConnInv, Kept
<1>11. NoneLivesForItsDeadline'
  BY <1>2, <1>5 DEF ConnInv, NoneLivesForItsDeadline
<1> QED
  BY <1>2, <1>10, <1>11 DEF ConnInv, ConnTypes

\* What a connection's fields and deadline are when its handler has not, or has,
\* gone on reading.
Stops(c, w, k, t, hi) ==
  ~k.reading /\ k.task = conn[c].task /\ t = Cancelled(tasks[w], conn[c].task) /\ hi = highest

ReadsOn(c, w, k, t, hi) ==
  /\ k.reading
  /\ k.task = highest[w] + 1
  /\ t = Scheduled(tasks[w], conn[c].task, highest[w] + 1, c)
  /\ hi = [highest EXCEPT ![w] = highest[w] + 1]

\* The tasks a worker's handler leaves are those of others, and its own if it
\* goes on reading.
LEMMA TasksLeft ==
  ASSUME ConnInv, NEW w \in Workers, NEW c \in Conns, NEW k, NEW t, NEW hi,
         Stops(c, w, k, t, hi) \/ ReadsOn(c, w, k, t, hi)
  PROVE  /\ t \in Timers /\ hi \in [Workers -> Nat]
         /\ \A v \in Workers : v # w => hi[v] = highest[v]
         /\ \A id \in DOMAIN t :
              \/ id \in DOMAIN tasks[w] /\ id # conn[c].task /\ t[id] = tasks[w][id] /\ id \in 1 .. hi[w]
              \/ id = k.task /\ t[id].conn = c /\ k.reading /\ id \in 1 .. hi[w]
<1>1. tasks[w] \in Timers /\ highest \in [Workers -> Nat] /\ \A id \in DOMAIN tasks[w] : id \in 1 .. highest[w]
  BY DEF ConnInv, ConnTypes, Kept, TasksInUse, Deadlined
<1> DEFINE old == conn[c].task
           left == Cancelled(tasks[w], old)
<1>2. left \in Timers /\ DOMAIN left = DOMAIN tasks[w] \ {old} /\ \A id \in DOMAIN left : left[id] = tasks[w][id]
  <2>1. DOMAIN tasks[w] \ {old} \in SUBSET Nat /\ left \in [DOMAIN tasks[w] \ {old} -> Deadlines]
    BY <1>1, InTimers DEF Cancelled
  <2> QED
    BY <2>1, IsTimer DEF Cancelled
<1>3. CASE Stops(c, w, k, t, hi)
  <2>1. t = left /\ hi = highest
    BY <1>3 DEF Stops
  <2> QED
    BY <1>1, <1>2, <2>1
<1>4. CASE ReadsOn(c, w, k, t, hi)
  <2> DEFINE id == highest[w] + 1
             new == [conn |-> c, left |-> Timeout]
  <2>1. id \in Nat /\ id > 0 /\ new \in Deadlines /\ new.conn = c
    BY <1>1, ServerAssumption DEF Deadlines
  <2>2. hi = [highest EXCEPT ![w] = id] /\ k.reading /\ k.task = id
    BY <1>4 DEF ReadsOn
  <2>3. /\ DOMAIN t = DOMAIN left \cup {id}
        /\ \A i \in DOMAIN left \cup {id} : t[i] = IF i = id THEN new ELSE tasks[w][i]
        /\ t = [i \in DOMAIN left \cup {id} |-> t[i]]
    BY <1>4 DEF ReadsOn, Scheduled
  <2> HIDE DEF new, left
  <2>4. t \in Timers
    <3>1. DOMAIN left \subseteq Nat /\ \A i \in DOMAIN left : left[i] \in Deadlines
      BY <1>2, InTimers
    <3>2. DOMAIN left \cup {id} \in SUBSET Nat
      BY <2>1, <3>1
    <3>3. \A i \in DOMAIN left \cup {id} : t[i] \in Deadlines
      BY <1>2, <2>1, <2>3, <3>1
    <3>4. t \in [DOMAIN left \cup {id} -> Deadlines]
      BY <2>3, <3>3
    <3> QED
      BY <3>2, <3>4, IsTimer
  <2>5. hi \in [Workers -> Nat] /\ hi[w] = id /\ \A v \in Workers : v # w => hi[v] = highest[v]
    BY <1>1, <2>1, <2>2
  <2>6. ASSUME NEW i \in DOMAIN t
        PROVE  \/ i \in DOMAIN tasks[w] /\ i # old /\ t[i] = tasks[w][i] /\ i \in 1 .. hi[w]
               \/ i = k.task /\ t[i].conn = c /\ k.reading /\ i \in 1 .. hi[w]
    <3>1. CASE i = id
      <4>1. t[i] = new
        BY <2>3, <3>1
      <4>2. i \in 1 .. hi[w]
        BY <2>1, <2>5, <3>1
      <4> QED
        BY <2>1, <2>2, <3>1, <4>1, <4>2
    <3>2. CASE i # id
      <4>1. i \in DOMAIN left /\ t[i] = tasks[w][i]
        BY <2>3, <3>2
      <4>2. i \in 1 .. highest[w] /\ highest[w] \in Nat
        BY <1>1, <1>2, <4>1
      <4>3. i \in 1 .. hi[w]
        BY <2>5, <4>2
      <4> QED
        BY <1>2, <4>1, <4>3
    <3> QED
      BY <3>1, <3>2
  <2> QED
    BY <2>4, <2>5, <2>6
<1> QED
  BY <1>3, <1>4

\* A handler of a connection's event.
LEMMA HandlerLeaves ==
  ASSUME ConnInv, CountInv, NEW w \in Workers, events[w] # <<>>, NEW c \in Conns, Head(events[w]).conn = c,
         NEW k \in Fields, NEW t, NEW hi, Stops(c, w, k, t, hi) \/ ReadsOn(c, w, k, t, hi),
         NEW cn, cn = [conn EXCEPT ![c] = k],
         NEW sn, \A d \in Conns : d # c => sn[d] = sent[d], Said(c, life, cn, sn)
  PROVE  Kept(life, cn, [events EXCEPT ![w] = Tail(@)], [tasks EXCEPT ![w] = t], acceptor, home, hi, sn)
<1> DEFINE e == Head(events[w])
           more == [events EXCEPT ![w] = Tail(@) \o <<>>]
           ev == [events EXCEPT ![w] = Tail(@)]
           tk == [tasks EXCEPT ![w] = t]
<1>1. conn \in [Conns -> Fields] /\ events \in [Workers -> Seq(Event)] /\ tasks \in [Workers -> Timers]
  BY DEF ConnInv, Kept
<1>2. ev = more
  <2>1. events[w] \in Seq(Event)
    BY <1>1
  <2>2. Tail(events[w]) \in Seq(Event)
    BY <2>1
  <2>3. Tail(events[w]) \o <<>> = Tail(events[w])
    BY <2>2, ConcatEmptySeq
  <2> QED
    BY <2>3
<1>3. /\ more \in [Workers -> Seq(Event)]
      /\ \A v \in Workers : \A x : In(more, v, x) => In(events, v, x) \/ (v = w /\ \E i \in DOMAIN <<>> : <<>>[i] = x)
      /\ \A v \in Workers : \A x : In(events, v, x) => In(more, v, x) \/ (v = w /\ x = e)
      /\ In(events, w, e)
  <2>1. <<>> \in Seq(Event)
    OBVIOUS
  <2> QED
    BY <1>1, <2>1, EventTaken
<1>4. /\ ev \in [Workers -> Seq(Event)]
      /\ \A v \in Workers : \A x : In(ev, v, x) => In(events, v, x)
      /\ \A v \in Workers : \A x : In(events, v, x) => In(ev, v, x) \/ (v = w /\ x = e)
      /\ In(events, w, e)
  <2> HIDE DEF ev, more
  <2> QED
    BY <1>2, <1>3
<1>5. life[c] = "live" /\ home[c] = w
  BY <1>4, WaitingAlive, ServerAssumption
<1>6. /\ t \in Timers /\ hi \in [Workers -> Nat]
      /\ \A v \in Workers : v # w => hi[v] = highest[v]
      /\ \A id \in DOMAIN t :
           \/ id \in DOMAIN tasks[w] /\ id # conn[c].task /\ t[id] = tasks[w][id] /\ id \in 1 .. hi[w]
           \/ id = k.task /\ t[id].conn = c /\ k.reading /\ id \in 1 .. hi[w]
  BY TasksLeft
<1>7. cn \in [Conns -> Fields] /\ cn[c] = k /\ \A d \in Conns : d # c => cn[d] = conn[d]
  BY <1>1
<1>8. tk \in [Workers -> Timers] /\ tk[w] = t /\ \A v \in Workers : v # w => tk[v] = tasks[v]
  BY <1>1, <1>6
<1>9. e.conn = c
  OBVIOUS
<1> HIDE DEF ev, more, tk, e
<1>10. ASSUME NEW d \in Conns, d # c PROVE Busy(d, cn, ev) <=> Busy(d, conn, events)
  <2>1. /\ Busy(d, conn, events) <=> (conn[d].reading \/ \E v \in Workers : \E x : In(events, v, x) /\ x.conn = d)
        /\ Busy(d, cn, ev) <=> (cn[d].reading \/ \E v \in Workers : \E x : In(ev, v, x) /\ x.conn = d)
    BY DEF Busy, In
  <2>2. cn[d] = conn[d]
    BY <1>7, <1>10
  <2>3. (\E v \in Workers : \E x : In(events, v, x) /\ x.conn = d)
           <=> \E v \in Workers : \E x : In(ev, v, x) /\ x.conn = d
    BY <1>4, <1>9, <1>10
  <2> QED
    BY <2>1, <2>2, <2>3
<1>11. ASSUME NEW v \in Workers, NEW id \in DOMAIN tk[v]
       PROVE  Deadlined(v, id, cn, ev, tk, home, hi)
  <2>1. CASE v = w /\ id = k.task /\ t[id].conn = c /\ k.reading /\ id \in 1 .. hi[w]
    <3>1. tk[v][id].conn = c
      BY <1>8, <2>1
    <3>2. Busy(c, cn, ev)
      BY <1>7, <2>1 DEF Busy
    <3> QED
      BY <1>5, <1>7, <2>1, <3>1, <3>2 DEF Deadlined
  <2>2. CASE id \in DOMAIN tasks[v] /\ tk[v][id] = tasks[v][id] /\ (v # w \/ id # conn[c].task) /\ id \in 1 .. hi[v]
    <3> DEFINE d == tasks[v][id].conn
    <3>1. Deadlined(v, id, conn, events, tasks, home, highest)
      BY <2>2 DEF ConnInv, Kept, TasksInUse
    <3>2. d \in Conns /\ d # c
      <4>1. tasks[v] \in Timers
        BY <1>1
      <4> QED
        BY <1>5, <2>2, <3>1, <4>1, InTimers DEF Deadlined
    <3>3. cn[d] = conn[d] /\ Busy(d, cn, ev)
      BY <1>7, <1>10, <3>1, <3>2 DEF Deadlined
    <3> QED
      BY <2>2, <3>1, <3>3 DEF Deadlined
  <2>3. v = w => \/ id \in DOMAIN tasks[w] /\ id # conn[c].task /\ t[id] = tasks[w][id] /\ id \in 1 .. hi[w]
                 \/ id = k.task /\ t[id].conn = c /\ k.reading /\ id \in 1 .. hi[w]
    BY <1>6, <1>8
  <2>4. v # w => id \in DOMAIN tasks[v] /\ tk[v][id] = tasks[v][id] /\ id \in 1 .. hi[v]
    <3> SUFFICES ASSUME v # w PROVE id \in DOMAIN tasks[v] /\ tk[v][id] = tasks[v][id] /\ id \in 1 .. hi[v]
      OBVIOUS
    <3>1. tk[v] = tasks[v] /\ hi[v] = highest[v]
      BY <1>6, <1>8
    <3>2. Deadlined(v, id, conn, events, tasks, home, highest)
      BY <3>1 DEF ConnInv, Kept, TasksInUse
    <3> QED
      BY <3>1, <3>2 DEF Deadlined
  <2> QED
    BY <1>8, <2>1, <2>2, <2>3, <2>4
<1>12. TasksInUse(cn, ev, tk, home, hi)
  BY <1>11 DEF TasksInUse
<1>13. Alive(life, cn, ev, tk, acceptor)
  <2> SUFFICES ASSUME NEW d \in Conns, Refers(d, cn, ev, tk, acceptor), d # c PROVE life[d] = "live"
    BY <1>5 DEF Alive
  <2>1. Refers(d, conn, events, tasks, acceptor)
    <3>1. CASE Busy(d, cn, ev)
      BY <1>10, <3>1 DEF Busy, Refers
    <3>2. CASE acceptor.holds = d
      BY <3>2 DEF Refers
    <3>3. CASE \E v \in Workers : \E id \in DOMAIN tk[v] : tk[v][id].conn = d
      BY <1>10, <1>11, <3>3 DEF Deadlined, Busy, Refers
    <3> QED
      BY <3>1, <3>2, <3>3 DEF Refers, Busy
  <2> QED
    BY <2>1 DEF ConnInv, Kept, Alive
<1>14. EventsAtHome(ev, home)
  <2>1. \A v \in Workers : \A x : In(events, v, x) =>
          (x.conn = Null <=> x.kind = "tick") /\ (x.conn # Null => home[x.conn] = v)
    BY DEF ConnInv, Kept, EventsAtHome, In
  <2>2. \A v \in Workers : \A x : In(ev, v, x) =>
          (x.conn = Null <=> x.kind = "tick") /\ (x.conn # Null => home[x.conn] = v)
    BY <1>4, <2>1
  <2> QED
    BY <2>2 DEF EventsAtHome, In
<1>15. \A d \in Conns : Said(d, life, cn, sn)
  <2> SUFFICES ASSUME NEW d \in Conns, d # c PROVE Said(d, life, cn, sn)
    OBVIOUS
  <2>1. Said(d, life, conn, sent) /\ sn[d] = sent[d] /\ cn[d] = conn[d]
    BY <1>7 DEF ConnInv, Kept
  <2> QED
    BY <2>1 DEF Said
<1>16. Kept(life, cn, ev, tk, acceptor, home, hi, sn)
  BY <1>4, <1>7, <1>8, <1>12, <1>13, <1>14, <1>15 DEF Kept
<1> QED
  BY <1>16 DEF ev, tk

\* A handler of a worker ends.
LEMMA HandlerKeeps ==
  ASSUME ConnInv, CountInv, NEW cn, NEW ev, NEW tk, Settle(life, cn, queue, ev, tk, acceptor),
         Kept(life, cn, ev, tk, acceptor, home, highest', sent'),
         UNCHANGED <<home, peer, inbox>>, highest' \in [Workers -> Nat], sent' \in [Conns -> Seq(Answers)]
  PROVE  ConnInv'
<1>1. life \in [Conns -> Lives]
  BY DEF CountInv, CountTypes
<1>2. home' = home
  OBVIOUS
<1>3. /\ Kept(life', conn', events', tasks', acceptor', home', highest', sent')
      /\ NoneLivesForItsDeadline'
  BY <1>1, <1>2, SettleKeeps
<1>4. acceptor' = acceptor
  BY DEF Settle
<1> QED
  BY <1>3, <1>4 DEF ConnInv, ConnTypes

\* The event a worker has taken: a connection's, unless it is a tick.
LEMMA TurnTakes ==
  ASSUME ConnInv, NEW w \in Workers, NEW kind \in {"start", "read", "tick"}, NextIs(w, kind)
  PROVE  /\ events[w] # <<>> /\ Head(events[w]) \in Event /\ Head(events[w]).kind = kind
         /\ In(events, w, Head(events[w]))
         /\ kind # "tick" => /\ Head(events[w]).conn \in Conns
                             /\ life[Head(events[w]).conn] = "live"
                             /\ home[Head(events[w]).conn] = w
         /\ kind = "tick" => Head(events[w]).conn = Null
<1>1. events[w] # <<>> /\ Head(events[w]).kind = kind /\ events[w] \in Seq(Event)
  BY DEF NextIs, ConnInv, Kept
<1>2. In(events, w, Head(events[w]))
  BY <1>1 DEF In
<1> QED
  BY <1>1, <1>2, WaitingAlive

\* start()
LEMMA StartKeeps ==
  ASSUME ConnInv, CountInv, NEW w \in Workers, Start(w)
  PROVE  ConnInv'
<1> DEFINE c == Head(events[w]).conn
           id == highest[w] + 1
           k == [conn[c] EXCEPT !.reading = TRUE, !.task = id]
           cn == [conn EXCEPT ![c] = k]
           t == Scheduled(tasks[w], conn[c].task, id, c)
           hi == [highest EXCEPT ![w] = id]
           ev == [events EXCEPT ![w] = Tail(@)]
           tk == [tasks EXCEPT ![w] = t]
<1>1. NextIs(w, "start") /\ UNCHANGED <<home, peer, inbox, sent>> /\ highest' = hi
  BY DEF Turn, Start
<1>2. c \in Conns /\ events[w] # <<>> /\ life[c] = "live"
  BY <1>1, TurnTakes
<1>3. conn \in [Conns -> Fields] /\ highest \in [Workers -> Nat] /\ tasks \in [Workers -> Timers]
  BY DEF ConnInv, ConnTypes, Kept
<1>4. Settle(life, cn, queue, ev, tk, acceptor)
  <2>1. cn = [conn EXCEPT ![c].reading = TRUE, ![c].task = id]
    BY <1>2, <1>3
  <2>2. tk = [tasks EXCEPT ![w] = Scheduled(@, conn[c].task, id, c)]
    OBVIOUS
  <2>3. Settle(life, [conn EXCEPT ![c].reading = TRUE, ![c].task = id], queue,
               ev, [tasks EXCEPT ![w] = Scheduled(@, conn[c].task, id, c)], acceptor)
    BY DEF Start
  <2> QED
    BY <2>1, <2>2, <2>3, Zenon
<1>5. /\ k \in Fields /\ k.reading /\ k.task = id /\ k.nth = conn[c].nth /\ k.res = conn[c].res
      /\ k.complete = conn[c].complete
  <2>1. id \in Nat /\ conn[c] \in Fields
    BY <1>2, <1>3
  <2> HIDE DEF id
  <2> QED
    BY <2>1 DEF Fields
<1>6. ReadsOn(c, w, k, t, hi)
  BY <1>5 DEF ReadsOn
<1>7. cn[c] = k
  BY <1>2, <1>3
<1> HIDE DEF k, hi, t
<1>8. Said(c, life, cn, sent)
  <2>1. Said(c, life, conn, sent)
    BY <1>2 DEF ConnInv, Kept
  <2> QED
    BY <1>5, <1>7, <2>1 DEF Said
<1>9. cn = [conn EXCEPT ![c] = k]
  OBVIOUS
<1>10. Head(events[w]).conn = c
  OBVIOUS
<1> HIDE DEF c, cn
<1>11. Kept(life, cn, ev, tk, acceptor, home, hi, sent)
  BY <1>2, <1>5, <1>6, <1>8, <1>9, <1>10, HandlerLeaves
<1>12. highest' \in [Workers -> Nat] /\ sent' \in [Conns -> Seq(Answers)]
  BY <1>1, <1>3 DEF hi, ConnInv, ConnTypes
<1>13. Kept(life, cn, ev, tk, acceptor, home, highest', sent')
  BY <1>1, <1>11
<1> HIDE DEF ev, tk
<1> QED
  BY <1>1, <1>4, <1>12, <1>13, HandlerKeeps

\* However a read ends: what was parsed is written to its peer only, and the
\* deadline is cancelled unless there is a new one.
LEMMA AfterReadKeeps ==
  ASSUME ConnInv, CountInv, NEW w \in Workers, NEW c \in Conns, events[w] # <<>>, Head(events[w]).conn = c,
         NEW s, s.k \in Fields, s.k.task = conn[c].task, s.sent \in Seq(Answers),
         s.tk \in {tasks[w], Cancelled(tasks[w], conn[c].task)},
         s.goes = "throw" => s.tk = Cancelled(tasks[w], conn[c].task),
         Fit(s.sent), UpTo(s.sent, s.k.nth), s.k.res = Cleared \/ s.k.complete,
         AfterRead(w, c, s), UNCHANGED <<home, peer, inbox>>
  PROVE  ConnInv'
<1> DEFINE old == conn[c].task
           gone == Cancelled(tasks[w], old)
           done == [s.k EXCEPT !.reading = FALSE]
           shut == [done EXCEPT !.open = FALSE]
           id == highest[w] + 1
           on == [done EXCEPT !.reading = TRUE, !.task = id]
           ev == [events EXCEPT ![w] = Tail(@)]
           sn == [sent EXCEPT ![c] = s.sent]
           Ends(k, t) == Settle(life, [conn EXCEPT ![c] = k], queue, ev, [tasks EXCEPT ![w] = t], acceptor)
<1>1. conn \in [Conns -> Fields] /\ highest \in [Workers -> Nat] /\ tasks \in [Workers -> Timers]
      /\ sent \in [Conns -> Seq(Answers)] /\ events \in [Workers -> Seq(Event)] /\ life \in [Conns -> Lives]
  BY DEF ConnInv, ConnTypes, Kept, CountInv, CountTypes
<1>2. life[c] = "live"
  <2>1. In(events, w, Head(events[w]))
    BY <1>1 DEF In
  <2> QED
    BY <2>1, WaitingAlive, ServerAssumption
<1>3. Cancelled(s.tk, old) = gone
  BY CancelledTwice
<1>4. Scheduled(s.tk, old, id, c) = Scheduled(tasks[w], old, id, c)
  <2>1. DOMAIN gone = DOMAIN tasks[w] \ {old} /\ \A i \in DOMAIN gone : gone[i] = tasks[w][i]
    BY DEF Cancelled
  <2>2. CASE s.tk = gone
    <3>1. Cancelled(gone, old) = gone
      BY CancelledTwice
    <3> DEFINE u == [i \in DOMAIN gone \cup {id} |-> IF i = id THEN [conn |-> c, left |-> Timeout] ELSE gone[i]]
               v == [i \in DOMAIN gone \cup {id} |-> IF i = id THEN [conn |-> c, left |-> Timeout] ELSE tasks[w][i]]
    <3>2. Scheduled(gone, old, id, c) = u /\ Scheduled(tasks[w], old, id, c) = v
      BY <3>1 DEF Scheduled
    <3>3. u = v
      <4> HIDE DEF gone, id
      <4> QED
        BY <2>1
    <3> QED
      BY <2>2, <3>2, <3>3
  <2> QED
    BY <2>2
<1>5. /\ done \in Fields /\ ~done.reading /\ done.task = old /\ done.nth = s.k.nth /\ done.res = s.k.res
      /\ done.complete = s.k.complete
  BY DEF Fields
<1>6. /\ shut \in Fields /\ ~shut.reading /\ shut.task = old /\ shut.nth = s.k.nth /\ shut.res = s.k.res
      /\ shut.complete = s.k.complete
  <2> HIDE DEF done
  <2> QED
    BY <1>5 DEF Fields
<1>7. /\ on \in Fields /\ on.reading /\ on.task = id /\ on.nth = s.k.nth /\ on.res = s.k.res
      /\ on.complete = s.k.complete
  <2>1. id \in Nat
    BY <1>1
  <2> HIDE DEF done, id
  <2> QED
    BY <1>5, <2>1 DEF Fields
<1>8. sent' = sn /\ sn \in [Conns -> Seq(Answers)] /\ sn[c] = s.sent /\ \A d \in Conns : d # c => sn[d] = sent[d]
  BY <1>1 DEF AfterRead
<1>9. \/ (Ends(done, gone) \/ Ends(shut, gone)) /\ highest' = highest
      \/ Ends(on, Scheduled(tasks[w], old, id, c)) /\ highest' = [highest EXCEPT ![w] = id]
  <2>1. s.goes = "throw" => Ends(done, gone) /\ highest' = highest
    BY DEF AfterRead
  <2>2. DropDeadline(s.tk, done) = gone
    BY <1>3, <1>5 DEF DropDeadline
  <2>3. s.goes # "throw" /\ (s.goes = "error" \/ ~done.open) => Ends(shut, gone) /\ highest' = highest
    <3> SUFFICES ASSUME s.goes # "throw" /\ (s.goes = "error" \/ ~done.open)
                 PROVE  Ends(shut, gone) /\ highest' = highest
      OBVIOUS
    <3>1. Ends(shut, DropDeadline(s.tk, done)) /\ highest' = highest
      BY DEF AfterRead
    <3> QED
      BY <2>2, <3>1
  <2>4. s.goes # "throw" /\ ~(s.goes = "error" \/ ~done.open) /\ done.close => Ends(done, gone) /\ highest' = highest
    <3> SUFFICES ASSUME s.goes # "throw" /\ ~(s.goes = "error" \/ ~done.open) /\ done.close
                 PROVE  Ends(done, gone) /\ highest' = highest
      OBVIOUS
    <3>1. Ends(done, DropDeadline(s.tk, done)) /\ highest' = highest
      BY DEF AfterRead
    <3> QED
      BY <2>2, <3>1
  <2>5. s.goes # "throw" /\ ~(s.goes = "error" \/ ~done.open) /\ ~done.close =>
          Ends(on, Scheduled(s.tk, done.task, id, c)) /\ highest' = [highest EXCEPT ![w] = id]
    BY DEF AfterRead
  <2>6. Scheduled(s.tk, done.task, id, c) = Scheduled(tasks[w], old, id, c)
    BY <1>4, <1>5
  <2> HIDE DEF done, on, shut, gone, id, old, Ends
  <2> QED
    BY <2>1, <2>3, <2>4, <2>5, <2>6
<1> HIDE DEF done, shut, on, gone, sn
<1>10. ASSUME NEW k \in Fields, NEW t, NEW hi, Stops(c, w, k, t, hi) \/ ReadsOn(c, w, k, t, hi),
              k.nth = s.k.nth, k.res = s.k.res, k.complete = s.k.complete, Ends(k, t), highest' = hi
       PROVE  ConnInv'
  <2> DEFINE cn == [conn EXCEPT ![c] = k]
  <2>1. cn[c] = k
    BY <1>1
  <2> HIDE DEF cn
  <2>2. Said(c, life, cn, sn)
    BY <1>2, <1>8, <1>10, <2>1 DEF Said
  <2>3. cn = [conn EXCEPT ![c] = k]
    BY DEF cn
  <2>4. Kept(life, cn, ev, [tasks EXCEPT ![w] = t], acceptor, home, hi, sn)
    BY <1>8, <1>10, <2>2, <2>3, HandlerLeaves
  <2>5. hi \in [Workers -> Nat]
    BY <1>10, TasksLeft
  <2>6. Settle(life, cn, queue, ev, [tasks EXCEPT ![w] = t], acceptor)
    BY <1>10, <2>3
  <2> HIDE DEF ev
  <2>7. Kept(life, cn, ev, [tasks EXCEPT ![w] = t], acceptor, home, highest', sent')
    BY <1>8, <1>10, <2>4
  <2>8. highest' \in [Workers -> Nat] /\ sent' \in [Conns -> Seq(Answers)]
    BY <1>8, <1>10, <2>5
  <2> DEFINE tk == [tasks EXCEPT ![w] = t]
  <2> HIDE DEF tk
  <2> QED
    BY <2>6, <2>7, <2>8, HandlerKeeps
<1>11. Stops(c, w, done, gone, highest) /\ Stops(c, w, shut, gone, highest)
  BY <1>5, <1>6 DEF Stops, gone
<1>12. ReadsOn(c, w, on, Scheduled(tasks[w], old, id, c), [highest EXCEPT ![w] = id])
  BY <1>7 DEF ReadsOn
<1> HIDE DEF id, old, Ends
<1>13. CASE Ends(done, gone) /\ highest' = highest
  BY <1>5, <1>10, <1>11, <1>13
<1>14. CASE Ends(shut, gone) /\ highest' = highest
  BY <1>6, <1>10, <1>11, <1>14
<1>15. CASE Ends(on, Scheduled(tasks[w], old, id, c)) /\ highest' = [highest EXCEPT ![w] = id]
  BY <1>7, <1>10, <1>12, <1>15
<1> QED
  BY <1>9, <1>13, <1>14, <1>15

\* A read completed or failed.
LEMMA ReadKeeps ==
  ASSUME ConnInv, CountInv, NEW w \in Workers, ReadFailed(w) \/ ReadDone(w)
  PROVE  ConnInv'
<1> DEFINE c == Head(events[w]).conn
<1>1. NextIs(w, "read") /\ UNCHANGED <<home, peer, inbox>>
  BY DEF ReadFailed, ReadDone, Turn
<1>2. c \in Conns /\ events[w] # <<>> /\ life[c] = "live" /\ Head(events[w]).got \in Seq(Pieces)
  BY <1>1, TurnTakes DEF Event
<1>3. /\ conn[c] \in Fields /\ sent[c] \in Seq(Answers) /\ Fit(sent[c]) /\ UpTo(sent[c], conn[c].nth)
      /\ conn[c].res = Cleared \/ conn[c].complete
  BY <1>2 DEF ConnInv, ConnTypes, Kept, Said
<1> DEFINE id == conn[c].task
<1>4. CASE ReadFailed(w)
  <2> DEFINE s == [k |-> conn[c], tk |-> tasks[w], sent |-> sent[c], goes |-> "error"]
  <2>1. AfterRead(w, c, s)
    BY <1>4 DEF ReadFailed
  <2>2. /\ s.k = conn[c] /\ s.tk = tasks[w] /\ s.sent = sent[c] /\ s.goes = "error"
    OBVIOUS
  <2>3. Head(events[w]).conn = c
    OBVIOUS
  <2> HIDE DEF s, c
  <2>4. s.tk \in {tasks[w], Cancelled(tasks[w], conn[c].task)}
    BY <2>2
  <2> QED
    BY <1>1, <1>2, <1>3, <2>1, <2>2, <2>3, <2>4, AfterReadKeeps
<1>5. CASE ReadDone(w)
  <2>1. PICK unnamed \in BOOLEAN :
          AfterRead(w, c, Fed([k |-> conn[c], tk |-> tasks[w], sent |-> sent[c], up |-> peer[c] # "gone",
                               unnamed |-> unnamed, bulk |-> FALSE, goes |-> "go"],
                              Head(events[w]).got))
    BY <1>5 DEF ReadDone, Handler
  <2> DEFINE r == [k |-> conn[c], tk |-> tasks[w], sent |-> sent[c], up |-> peer[c] # "gone",
                   unnamed |-> unnamed, bulk |-> FALSE, goes |-> "go"]
             s == Fed(r, Head(events[w]).got)
  <2>2. r.k = conn[c] /\ r.tk = tasks[w] /\ r.sent = sent[c] /\ r.goes = "go"
    OBVIOUS
  <2>3. r \in Handling({tasks[w], Cancelled(tasks[w], id)})
    BY <1>3 DEF Handling
  <2>4. AfterRead(w, c, s)
    BY <2>1
  <2>5. Head(events[w]).conn = c
    OBVIOUS
  <2> HIDE DEF r
  <2>6. /\ s.k \in Fields /\ s.k.task = id /\ s.sent \in Seq(Answers) /\ s.tk \in {tasks[w], Cancelled(tasks[w], id)}
        /\ s.goes = "throw" => s.tk = Cancelled(tasks[w], id)
        /\ Fit(s.sent) /\ UpTo(s.sent, s.k.nth)
        /\ s.k.res = Cleared \/ s.k.complete
    <3>1. CASE r.k.complete
      <4>1. s = r
        BY <3>1 DEF Fed
      <4> HIDE DEF s, c
      <4> QED
        BY <1>3, <2>2, <4>1
    <3>2. CASE ~r.k.complete
      <4>1. Parsing(r, tasks[w], id)
        <5>1. r.k.res = Cleared
          BY <1>3, <2>2, <3>2
        <5> HIDE DEF c
        <5> QED
          BY <1>3, <2>2, <2>3, <5>1 DEF Parsing
      <4>2. Parsing(s, tasks[w], id)
        <5> DEFINE got == Head(events[w]).got
        <5>1. got \in Seq(Pieces)
          BY <1>2
        <5> DEFINE timer == tasks[w]
        <5> HIDE DEF got, id, timer
        <5> QED
          BY <4>1, <5>1, FedParses DEF timer, got
      <4> HIDE DEF s, c
      <4> QED
        BY <4>2 DEF Parsing, Handling
    <3> QED
      BY <3>1, <3>2
  <2> HIDE DEF s, c
  <2> QED
    BY <1>1, <1>2, <2>4, <2>5, <2>6, AfterReadKeeps
<1> QED
  BY <1>4, <1>5

\* A tick: a deadline that has passed was its connection's only one, so that the
\* connections of the deadlines left are not the ones closed.
LEMMA TickKeeps ==
  ASSUME ConnInv, CountInv, NEW w \in Workers, RunTick(w)
  PROVE  ConnInv'
<1>1. NextIs(w, "tick") /\ UNCHANGED <<home, peer, inbox, sent>>
  BY DEF RunTick, Turn
<1>2. events[w] # <<>> /\ Head(events[w]).conn = Null
  BY <1>1, TurnTakes
<1>3. PICK passed \in 1 .. Timeout + 1 : Tick(w, passed)
  BY DEF RunTick
<1> DEFINE due == {id \in DOMAIN tasks[w] : tasks[w][id].left < passed}
           closed == {tasks[w][id].conn : id \in due}
           aborted == {id \in due : conn[tasks[w][id].conn].reading /\ conn[tasks[w][id].conn].open}
           left == [id \in DOMAIN tasks[w] \ due |-> [tasks[w][id] EXCEPT !.left = @ - passed]]
           cn == [c \in Conns |-> IF c \in closed THEN [conn[c] EXCEPT !.open = FALSE, !.reading = FALSE] ELSE conn[c]]
           tk == [tasks EXCEPT ![w] = left]
           hi == [highest EXCEPT ![w] = IF DOMAIN left = {} THEN 0 ELSE @]
<1>4. PICK order \in [1 .. Cardinality(aborted) -> aborted] :
        /\ highest' = hi
        /\ Settle(life, cn, queue,
                  [events EXCEPT ![w] = Tail(@) \o [i \in DOMAIN order |-> Aborted(tasks[w][order[i]].conn)]],
                  tk, acceptor)
  BY <1>3 DEF Tick
<1> DEFINE more == [i \in DOMAIN order |-> Aborted(tasks[w][order[i]].conn)]
           ev == [events EXCEPT ![w] = Tail(@) \o more]
<1>5. /\ conn \in [Conns -> Fields] /\ highest \in [Workers -> Nat] /\ tasks \in [Workers -> Timers]
      /\ events \in [Workers -> Seq(Event)]
  BY DEF ConnInv, ConnTypes, Kept
<1>6. \A v \in Workers : \A id \in DOMAIN tasks[v] :
        /\ id \in 1 .. highest[v] /\ tasks[v][id].conn \in Conns /\ tasks[v][id] \in Deadlines
        /\ home[tasks[v][id].conn] = v /\ conn[tasks[v][id].conn].task = id /\ life[tasks[v][id].conn] = "live"
        /\ Busy(tasks[v][id].conn, conn, events)
  <2> SUFFICES ASSUME NEW v \in Workers, NEW id \in DOMAIN tasks[v]
               PROVE  /\ id \in 1 .. highest[v] /\ tasks[v][id].conn \in Conns /\ tasks[v][id] \in Deadlines
                      /\ home[tasks[v][id].conn] = v /\ conn[tasks[v][id].conn].task = id
                      /\ life[tasks[v][id].conn] = "live" /\ Busy(tasks[v][id].conn, conn, events)
    OBVIOUS
  <2>1. Deadlined(v, id, conn, events, tasks, home, highest) /\ tasks[v] \in Timers
    BY <1>5 DEF ConnInv, Kept, TasksInUse
  <2>2. tasks[v][id].conn \in Conns /\ tasks[v][id] \in Deadlines
    BY <2>1, InTimers
  <2>3. life[tasks[v][id].conn] = "live"
    BY <2>2 DEF ConnInv, Kept, Alive, Refers
  <2> QED
    BY <2>1, <2>2, <2>3 DEF Deadlined
<1>7. /\ cn \in [Conns -> Fields]
      /\ \A c \in Conns : /\ c \notin closed => cn[c] = conn[c]
                          /\ cn[c].reading => conn[c].reading
                          /\ cn[c].nth = conn[c].nth /\ cn[c].res = conn[c].res /\ cn[c].complete = conn[c].complete
  <2> HIDE DEF closed
  <2>1. \A c \in Conns : /\ [conn[c] EXCEPT !.open = FALSE, !.reading = FALSE] \in Fields
                         /\ ~[conn[c] EXCEPT !.open = FALSE, !.reading = FALSE].reading
                         /\ [conn[c] EXCEPT !.open = FALSE, !.reading = FALSE].nth = conn[c].nth
                         /\ [conn[c] EXCEPT !.open = FALSE, !.reading = FALSE].res = conn[c].res
                         /\ [conn[c] EXCEPT !.open = FALSE, !.reading = FALSE].complete = conn[c].complete
    BY <1>5 DEF Fields
  <2> QED
    BY <1>5, <2>1
<1>8. /\ left \in Timers /\ DOMAIN left = DOMAIN tasks[w] \ due
      /\ \A id \in DOMAIN left : left[id].conn = tasks[w][id].conn
  <2>1. \A id \in DOMAIN tasks[w] : tasks[w][id] \in Deadlines /\ id \in Nat
    BY <1>5, InTimers
  <2>2. \A id \in DOMAIN tasks[w] : /\ [tasks[w][id] EXCEPT !.left = @ - passed] \in Deadlines
                                    /\ [tasks[w][id] EXCEPT !.left = @ - passed].conn = tasks[w][id].conn
    BY <2>1, ServerAssumption DEF Deadlines
  <2> HIDE DEF due
  <2>3. left \in [DOMAIN tasks[w] \ due -> Deadlines] /\ DOMAIN tasks[w] \ due \in SUBSET Nat
    BY <2>1, <2>2
  <2> QED
    BY <2>2, <2>3, IsTimer
<1>9. \A id \in DOMAIN left : tasks[w][id].conn \notin closed
  BY <1>6, <1>8
<1>10. /\ more \in Seq(Event)
       /\ \A i \in DOMAIN more : /\ more[i].kind = "read"
                                 /\ \E id \in DOMAIN tasks[w] : more[i].conn = tasks[w][id].conn
  <2>1. Cardinality(aborted) \in Nat
    <3>1. aborted \subseteq 1 .. highest[w] /\ highest[w] \in Nat
      BY <1>5, <1>6
    <3>2. IsFiniteSet(1 .. highest[w])
      BY <3>1, FS_Interval
    <3>3. IsFiniteSet(aborted)
      BY <3>1, <3>2, FS_Subset
    <3> QED
      BY <3>3, FS_CardinalityType
  <2>2. \A id \in aborted : /\ Aborted(tasks[w][id].conn) \in Event
                            /\ Aborted(tasks[w][id].conn).kind = "read"
                            /\ Aborted(tasks[w][id].conn).conn = tasks[w][id].conn
                            /\ id \in DOMAIN tasks[w]
    BY <1>6 DEF Aborted, Event
  <2> HIDE DEF aborted
  <2>3. DOMAIN order = 1 .. Cardinality(aborted) /\ \A i \in DOMAIN order : order[i] \in aborted
    BY <1>4
  <2>4. more \in [1 .. Cardinality(aborted) -> Event]
    BY <2>2, <2>3
  <2> QED
    BY <2>1, <2>2, <2>3, <2>4
<1> HIDE DEF more, left, due, closed, cn, hi
<1>11. /\ ev \in [Workers -> Seq(Event)]
       /\ \A v \in Workers : \A x : In(ev, v, x) =>
            In(events, v, x) \/ (v = w /\ \E i \in DOMAIN more : more[i] = x)
       /\ \A v \in Workers : \A x : In(events, v, x) => In(ev, v, x) \/ (v = w /\ x = Head(events[w]))
  <2>1. more \in Seq(Event) /\ events[w] # <<>> /\ events \in [Workers -> Seq(Event)]
    BY <1>2, <1>5, <1>10
  <2>2. PICK brought : brought = more
    OBVIOUS
  <2> DEFINE nx == [events EXCEPT ![w] = Tail(@) \o brought]
  <2>3. brought \in Seq(Event) /\ ev = nx
    BY <2>1, <2>2
  <2>4. /\ nx \in [Workers -> Seq(Event)]
        /\ \A v \in Workers : \A x : In(nx, v, x) =>
             In(events, v, x) \/ (v = w /\ \E i \in DOMAIN brought : brought[i] = x)
        /\ \A v \in Workers : \A x : In(events, v, x) => In(nx, v, x) \/ (v = w /\ x = Head(events[w]))
        /\ In(events, w, Head(events[w]))
    BY <2>1, <2>3, EventTaken
  <2> HIDE DEF ev, nx
  <2> QED
    BY <2>2, <2>3, <2>4
<1>12. tk \in [Workers -> Timers] /\ tk[w] = left /\ \A v \in Workers : v # w => tk[v] = tasks[v]
  BY <1>5, <1>8
<1>13. hi \in [Workers -> Nat] /\ \A v \in Workers : DOMAIN tk[v] # {} => hi[v] = highest[v]
  BY <1>5, <1>12 DEF hi
<1>14. \A v \in Workers : \A id \in DOMAIN tk[v] :
         id \in DOMAIN tasks[v] /\ tk[v][id].conn = tasks[v][id].conn /\ tasks[v][id].conn \notin closed
  <2> SUFFICES ASSUME NEW v \in Workers, NEW id \in DOMAIN tk[v]
               PROVE  id \in DOMAIN tasks[v] /\ tk[v][id].conn = tasks[v][id].conn /\ tasks[v][id].conn \notin closed
    OBVIOUS
  <2>1. CASE v = w
    BY <1>8, <1>9, <1>12, <2>1
  <2>2. CASE v # w
    <3>1. tk[v] = tasks[v]
      BY <1>12, <2>2
    <3>2. \A c \in closed : home[c] = w
      BY <1>6 DEF closed, due
    <3> QED
      BY <1>6, <2>2, <3>1, <3>2
  <2> QED
    BY <2>1, <2>2
<1> HIDE DEF ev, tk
<1>15. \A c \in Conns : Busy(c, conn, events) /\ c \notin closed => Busy(c, cn, ev)
  <2> SUFFICES ASSUME NEW c \in Conns, Busy(c, conn, events), c \notin closed PROVE Busy(c, cn, ev)
    OBVIOUS
  <2>1. /\ Busy(c, conn, events) <=> (conn[c].reading \/ \E v \in Workers : \E x : In(events, v, x) /\ x.conn = c)
        /\ Busy(c, cn, ev) <=> (cn[c].reading \/ \E v \in Workers : \E x : In(ev, v, x) /\ x.conn = c)
    BY DEF Busy, In
  <2>2. cn[c] = conn[c] /\ c # Null
    BY <1>7, ServerAssumption
  <2> QED
    BY <1>2, <1>11, <2>1, <2>2
<1>16. TasksInUse(cn, ev, tk, home, hi)
  <2> SUFFICES ASSUME NEW v \in Workers, NEW id \in DOMAIN tk[v]
               PROVE  Deadlined(v, id, cn, ev, tk, home, hi)
    BY DEF TasksInUse
  <2> DEFINE c == tasks[v][id].conn
  <2>1. id \in DOMAIN tasks[v] /\ tk[v][id].conn = c /\ c \notin closed
    BY <1>14
  <2>2. id \in 1 .. highest[v] /\ c \in Conns /\ home[c] = v /\ conn[c].task = id /\ Busy(c, conn, events)
    BY <1>6, <2>1
  <2>3. hi[v] = highest[v] /\ cn[c] = conn[c] /\ Busy(c, cn, ev)
    BY <1>7, <1>13, <1>15, <2>1, <2>2
  <2> HIDE DEF c
  <2> QED
    BY <2>1, <2>2, <2>3 DEF Deadlined
<1>17. Alive(life, cn, ev, tk, acceptor)
  <2> SUFFICES ASSUME NEW c \in Conns, Refers(c, cn, ev, tk, acceptor) PROVE life[c] = "live"
    BY DEF Alive
  <2>1. CASE cn[c].reading \/ acceptor.holds = c
    BY <1>7, <2>1 DEF ConnInv, Kept, Alive, Refers
  <2>2. CASE \E v \in Workers : \E i \in DOMAIN ev[v] : ev[v][i].conn = c
    <3>1. PICK v \in Workers : \E x : In(ev, v, x) /\ x.conn = c
      BY <2>2 DEF In
    <3>2. PICK x : In(ev, v, x) /\ x.conn = c
      BY <3>1
    <3>3. CASE In(events, v, x)
      BY <3>2, <3>3, WaitingAlive, ServerAssumption
    <3>4. CASE v = w /\ \E i \in DOMAIN more : more[i] = x
      BY <1>6, <1>10, <3>2, <3>4
    <3> QED
      BY <1>11, <3>2, <3>3, <3>4
  <2>3. CASE \E v \in Workers : \E id \in DOMAIN tk[v] : tk[v][id].conn = c
    BY <1>6, <1>14, <2>3
  <2> QED
    BY <2>1, <2>2, <2>3 DEF Refers
<1>18. EventsAtHome(ev, home)
  <2>1. \A v \in Workers : \A x : In(events, v, x) =>
          (x.conn = Null <=> x.kind = "tick") /\ (x.conn # Null => home[x.conn] = v)
    BY DEF ConnInv, Kept, EventsAtHome, In
  <2>2. \A i \in DOMAIN more : more[i].conn # Null /\ more[i].kind # "tick" /\ home[more[i].conn] = w
    BY <1>6, <1>10, ServerAssumption
  <2>3. \A v \in Workers : \A x : In(ev, v, x) =>
          (x.conn = Null <=> x.kind = "tick") /\ (x.conn # Null => home[x.conn] = v)
    BY <1>11, <2>1, <2>2
  <2> QED
    BY <2>3 DEF EventsAtHome, In
<1>19. \A c \in Conns : Said(c, life, cn, sent)
  BY <1>7 DEF ConnInv, Kept, Said
<1>20. Settle(life, cn, queue, ev, tk, acceptor) /\ highest' = hi
  BY <1>4 DEF ev, more
<1>21. Kept(life, cn, ev, tk, acceptor, home, highest', sent')
  BY <1>1, <1>7, <1>11, <1>12, <1>16, <1>17, <1>18, <1>19, <1>20 DEF Kept
<1>22. highest' \in [Workers -> Nat] /\ sent' \in [Conns -> Seq(Answers)]
  BY <1>1, <1>13, <1>20 DEF ConnInv, ConnTypes
<1> QED
  BY <1>1, <1>20, <1>21, <1>22, HandlerKeeps

\* Nobody refers to a connection that was not made yet, and nothing was said to it.
LEMMA NewIsAlone ==
  ASSUME ConnInv, NEW c \in Conns, life[c] = "new"
  PROVE  /\ ~Refers(c, conn, events, tasks, acceptor)
         /\ sent[c] = <<>>
<1>1. ~Refers(c, conn, events, tasks, acceptor) /\ Said(c, life, conn, sent)
  BY DEF ConnInv, Kept, Alive
<1> QED
  BY <1>1 DEF Said

\* The next connection is made, and the previous one let go.
LEMMA PrepareKeeps ==
  ASSUME ConnInv, CountInv, Prepare
  PROVE  ConnInv'
<1>1. PICK c \in Conns :
        /\ life[c] = "new"
        /\ home' = [home EXCEPT ![c] = acceptor.min]
        /\ Settle([life EXCEPT ![c] = "live"], [conn EXCEPT ![c] = Fresh],
                  [queue EXCEPT ![acceptor.min] = @ + 1], events, tasks,
                  [Idle EXCEPT !.at = "wait", !.holds = c])
  BY DEF Prepare
<1> DEFINE lf == [life EXCEPT ![c] = "live"]
           cn == [conn EXCEPT ![c] = Fresh]
           ac == [Idle EXCEPT !.at = "wait", !.holds = c]
<1>2. UNCHANGED <<highest, peer, inbox, sent>>
  BY DEF Prepare
<1>3. ~Refers(c, conn, events, tasks, acceptor) /\ sent[c] = <<>>
  BY <1>1, NewIsAlone
<1>4. /\ ac.at = "wait" /\ ac.holds = c /\ c # Null
  BY ServerAssumption DEF Idle
<1>5. lf \in [Conns -> Lives] /\ lf[c] = "live" /\ \A d \in Conns : d # c => lf[d] = life[d]
  BY <1>1 DEF CountInv, CountTypes, Lives
<1>6. cn \in [Conns -> Fields] /\ cn[c] = Fresh /\ \A d \in Conns : d # c => cn[d] = conn[d]
  BY FreshType DEF ConnInv, Kept
<1>7. home'[c] = acceptor.min /\ \A d \in Conns : d # c => home'[d] = home[d]
  BY <1>1 DEF CountInv, CountTypes
<1>8. events \in [Workers -> Seq(Event)] /\ tasks \in [Workers -> Timers]
  BY DEF ConnInv, Kept
<1>9. Settle(lf, cn, [queue EXCEPT ![acceptor.min] = @ + 1], events, tasks, ac)
  BY <1>1
<1> HIDE DEF lf, cn, ac
<1>10. Alive(lf, cn, events, tasks, ac)
  <2> SUFFICES ASSUME NEW d \in Conns, Refers(d, cn, events, tasks, ac) PROVE lf[d] = "live"
    BY DEF Alive
  <2>1. CASE d = c
    BY <1>5, <2>1
  <2>2. CASE d # c
    <3>1. Refers(d, conn, events, tasks, acceptor)
      BY <1>4, <1>6, <2>2 DEF Refers
    <3> QED
      BY <1>5, <2>2, <3>1 DEF ConnInv, Kept, Alive
  <2> QED
    BY <2>1, <2>2
<1>11. EventsAtHome(events, home')
  <2> SUFFICES ASSUME NEW v \in Workers, NEW i \in DOMAIN events[v]
               PROVE  /\ events[v][i].conn = Null <=> events[v][i].kind = "tick"
                      /\ events[v][i].conn # Null => home'[events[v][i].conn] = v
    BY DEF EventsAtHome
  <2>1. /\ events[v][i].conn = Null <=> events[v][i].kind = "tick"
        /\ events[v][i].conn # Null => home[events[v][i].conn] = v
    BY DEF ConnInv, Kept, EventsAtHome
  <2>2. events[v][i].conn # c
    BY <1>3 DEF Refers
  <2>3. events[v][i].conn \in Conns \cup {Null}
    <3>1. events[v] \in Seq(Event)
      BY <1>8
    <3>2. events[v][i] \in Event
      BY <3>1
    <3> QED
      BY <3>2 DEF Event
  <2> QED
    BY <1>7, <2>1, <2>2, <2>3
<1>12. TasksInUse(cn, events, tasks, home', highest')
  <2> SUFFICES ASSUME NEW v \in Workers, NEW id \in DOMAIN tasks[v]
               PROVE  Deadlined(v, id, cn, events, tasks, home', highest')
    BY DEF TasksInUse
  <2>1. Deadlined(v, id, conn, events, tasks, home, highest)
    BY DEF ConnInv, Kept, TasksInUse
  <2>2. tasks[v][id].conn \in Conns /\ tasks[v][id].conn # c
    BY <1>3, <1>8, InTimers DEF Refers
  <2> QED
    BY <1>2, <1>6, <1>7, <2>1, <2>2 DEF Deadlined, Busy
<1>13. \A d \in Conns : Said(d, lf, cn, sent')
  <2> SUFFICES ASSUME NEW d \in Conns PROVE Said(d, lf, cn, sent')
    OBVIOUS
  <2>1. Said(d, life, conn, sent)
    BY DEF ConnInv, Kept
  <2>2. CASE d = c
    BY <1>2, <1>3, <1>5, <1>6, <2>1, <2>2, FreshType DEF Said, UpTo
  <2>3. CASE d # c
    BY <1>2, <1>5, <1>6, <2>1, <2>3 DEF Said
  <2> QED
    BY <2>2, <2>3
<1>14. Kept(lf, cn, events, tasks, ac, home', highest', sent')
  BY <1>6, <1>8, <1>10, <1>11, <1>12, <1>13 DEF Kept
<1>15. /\ Kept(life', conn', events', tasks', acceptor', home', highest', sent')
       /\ NoneLivesForItsDeadline'
  BY <1>5, <1>9, <1>14, SettleKeeps
<1>16. acceptor' = ac
  BY <1>9 DEF Settle
<1> QED
  BY <1>2, <1>4, <1>15, <1>16 DEF ConnInv, ConnTypes

\* The bound of the model: the last connection is let go.
LEMMA ExhaustedKeeps ==
  ASSUME ConnInv, CountInv, Exhausted
  PROVE  ConnInv'
<1> DEFINE ac == [Idle EXCEPT !.at = "full"]
<1>1. Settle(life, conn, queue, events, tasks, ac) /\ UNCHANGED <<highest, home, peer, inbox, sent>>
  BY DEF Exhausted
<1>2. ac.at = "full" /\ ac.holds = Null
  BY DEF Idle
<1>3. life \in [Conns -> Lives]
  BY DEF CountInv, CountTypes
<1> HIDE DEF ac
<1>4. \A c \in Conns : Refers(c, conn, events, tasks, ac) => Refers(c, conn, events, tasks, acceptor)
  BY <1>2, ServerAssumption DEF Refers
<1>5. Kept(life, conn, events, tasks, ac, home', highest', sent')
  BY <1>1, <1>4 DEF ConnInv, Kept, Alive
<1>6. /\ Kept(life', conn', events', tasks', acceptor', home', highest', sent')
      /\ NoneLivesForItsDeadline'
  BY <1>1, <1>3, <1>5, SettleKeeps
<1>7. acceptor' = ac
  BY <1>1 DEF Settle
<1> QED
  BY <1>1, <1>2, <1>6, <1>7 DEF ConnInv, ConnTypes

\* The server's members are destroyed, and every connection with them.
LEMMA EndKeeps ==
  ASSUME ConnInv, CountInv, End
  PROVE  ConnInv'
<1> DEFINE cn == [c \in Conns |-> [conn[c] EXCEPT !.reading = FALSE]]
           ev == [w \in Workers |-> <<>>]
<1>1. Settle(life, cn, queue, ev, ev, Idle) /\ UNCHANGED <<highest, home, peer, inbox, sent>>
  BY DEF End
<1>2. Idle.at = "idle" /\ Idle.holds = Null /\ life \in [Conns -> Lives]
  BY DEF Idle, CountInv, CountTypes
<1>3. cn \in [Conns -> Fields]
  BY DEF ConnInv, Kept, Fields
<1>4. \A c \in Conns : ~cn[c].reading
  BY DEF ConnInv, Kept, Fields
<1>5. \A c \in Conns : cn[c].nth = conn[c].nth /\ cn[c].res = conn[c].res /\ cn[c].complete = conn[c].complete
  BY DEF ConnInv, Kept, Fields
<1>6. ev \in [Workers -> Seq(Event)] /\ \A w \in Workers : DOMAIN ev[w] = {}
  OBVIOUS
<1>7. ev \in [Workers -> Timers]
  <2>1. <<>> \in [{} -> Deadlines]
    OBVIOUS
  <2>2. <<>> \in Timers
    BY <2>1, IsTimer
  <2> QED
    BY <2>2
<1> HIDE DEF cn, ev
<1>8. \A c \in Conns : ~Refers(c, cn, ev, ev, Idle)
  BY <1>2, <1>4, <1>6, ServerAssumption DEF Refers
<1>9. \A c \in Conns : Said(c, life, cn, sent')
  BY <1>1, <1>5 DEF ConnInv, Kept, Said
<1>10. Kept(life, cn, ev, ev, Idle, home', highest', sent')
  BY <1>3, <1>6, <1>7, <1>8, <1>9 DEF Kept, Alive, EventsAtHome, TasksInUse
<1>11. /\ Kept(life', conn', events', tasks', acceptor', home', highest', sent')
       /\ NoneLivesForItsDeadline'
  BY <1>1, <1>2, <1>10, SettleKeeps
<1>12. acceptor' = Idle
  BY <1>1 DEF Settle
<1> QED
  BY <1>1, <1>2, <1>11, <1>12 DEF ConnInv, ConnTypes

\* The server begins with nobody connected.
LEMMA InitConnects == Init => ConnInv
<1> SUFFICES ASSUME Init PROVE ConnInv
  OBVIOUS
<1>1. /\ conn = [c \in Conns |-> Fresh] /\ events = [w \in Workers |-> <<>>]
      /\ tasks = [w \in Workers |-> <<>>] /\ sent = [c \in Conns |-> <<>>]
      /\ life = [c \in Conns |-> "new"] /\ highest = [w \in Workers |-> 0]
      /\ acceptor = Idle /\ peer = [c \in Conns |-> "away"] /\ inbox = [c \in Conns |-> <<>>]
  BY DEF Init
<1>2. Idle.at = "idle" /\ Idle.holds = Null
  BY DEF Idle
<1>3. ConnTypes
  BY <1>1 DEF ConnTypes
<1>4. tasks \in [Workers -> Timers] /\ \A w \in Workers : DOMAIN tasks[w] = {}
  <2>1. <<>> \in [{} -> Deadlines]
    OBVIOUS
  <2>2. <<>> \in Timers
    BY <2>1, IsTimer
  <2> QED
    BY <1>1, <2>2
<1>5. events \in [Workers -> Seq(Event)] /\ \A w \in Workers : DOMAIN events[w] = {}
  BY <1>1
<1>6. \A c \in Conns : ~Refers(c, conn, events, tasks, acceptor)
  BY <1>1, <1>2, <1>4, <1>5, FreshType, ServerAssumption DEF Refers
<1>7. \A c \in Conns : Said(c, life, conn, sent)
  BY <1>1, FreshType DEF Said, Fit
<1>8. conn \in [Conns -> Fields]
  BY <1>1, FreshType
<1>9. Kept(life, conn, events, tasks, acceptor, home, highest, sent)
  BY <1>4, <1>5, <1>6, <1>7, <1>8 DEF Kept, Alive, EventsAtHome, TasksInUse
<1> QED
  BY <1>1, <1>2, <1>3, <1>9 DEF ConnInv, NoneLivesForItsDeadline

\* Every step keeps both invariants.
LEMMA StepsConnect ==
  ASSUME ConnInv, CountInv, [Next]_vars
  PROVE  ConnInv'
<1>1. CASE Open \/ StartAccepting \/ Stop
  BY <1>1, PhasesKeep
<1>2. CASE End
  BY <1>2, EndKeeps
<1>3. CASE Accepting
  BY <1>3, PhasesKeep, PrepareKeeps, ExhaustedKeeps, AcceptKeeps DEF Accepting
<1>4. ASSUME NEW w \in Workers, Work(w) PROVE ConnInv'
  <2>1. CASE StartWorker(w) \/ EndWorker(w) \/ Block(w)
    BY <2>1, PhasesKeep
  <2>2. CASE Start(w)
    BY <2>2, StartKeeps
  <2>3. CASE RunTick(w)
    BY <2>3, TickKeeps
  <2>4. CASE ReadFailed(w) \/ ReadDone(w)
    BY <2>4, ReadKeeps
  <2> QED
    BY <1>4, <2>1, <2>2, <2>3, <2>4 DEF Work
<1>5. CASE (\E w \in Workers : TickDue(w)) \/ (\E c \in Conns : Network(c))
  BY <1>5, NetworkKeeps
<1>6. CASE \E c \in Conns : Peer(c)
  BY <1>6, PhasesKeep
<1>7. CASE UNCHANGED vars
  <2>1. UNCHANGED <<events, tasks, highest, life, conn, home, sent, acceptor, peer, inbox>>
    BY <1>7 DEF vars
  <2> QED
    BY <2>1, ElsewhereKeeps DEF ConnInv, ConnTypes
<1> QED
  BY <1>1, <1>2, <1>3, <1>4, <1>5, <1>6, <1>7 DEF Next

LEMMA ServerInvariant == Spec => [](CountInv /\ ConnInv)
<1>1. (CountInv /\ ConnInv) /\ [Next]_vars => (CountInv /\ ConnInv)'
  BY StepsCount, StepsConnect
<1> QED
  BY <1>1, InitCounts, InitConnects, PTL DEF Spec

\* Every variable of the server keeps its type: no count goes below zero, and
\* the ids of a task timer are those it has issued.
THEOREM TypesHold == Spec => []TypeOK
<1>1. CountInv /\ ConnInv => TypeOK
  <2> SUFFICES ASSUME CountInv, ConnInv PROVE TypeOK
    OBVIOUS
  <2>1. /\ phase \in Phases /\ loop \in [Workers -> Loops] /\ acceptor \in Acceptor
        /\ life \in [Conns -> Lives] /\ home \in [Conns -> Workers] /\ queue \in [Workers -> Int]
    BY DEF CountInv, CountTypes
  <2>2. /\ events \in [Workers -> Seq(Event)] /\ tasks \in [Workers -> Timers] /\ highest \in [Workers -> Nat]
        /\ peer \in [Conns -> {"away", "up", "stalled", "gone"}] /\ sent \in [Conns -> Seq(Answers)]
    BY DEF ConnInv, ConnTypes, Kept
  <2>3. queue \in [Workers -> Nat]
    <3>1. \A w \in Workers : queue[w] \in Nat
      BY LiveFinite, FS_CardinalityType DEF CountInv, Counted
    <3> QED
      BY <2>1, <3>1
  <2>4. \A w \in Workers : \A i \in DOMAIN events[w] : events[w][i] \in Event
    <3>1. \A w \in Workers : events[w] \in Seq(Event)
      BY <2>2
    <3> QED
      BY <3>1
  <2>5. \A w \in Workers : \A id \in DOMAIN tasks[w] : id \in 1 .. highest[w] /\ tasks[w][id].conn \in Conns
    <3>1. \A w \in Workers : \A id \in DOMAIN tasks[w] : id \in 1 .. highest[w]
      BY DEF ConnInv, Kept, TasksInUse, Deadlined
    <3> QED
      BY <2>2, <3>1, InTimers
  <2>6. \A c \in Conns : \A i \in DOMAIN sent[c] : sent[c][i] \in Answers
    <3>1. \A c \in Conns : sent[c] \in Seq(Answers)
      BY <2>2
    <3> QED
      BY <3>1
  <2>7. acceptor.holds \in Conns \cup {Null}
    BY <2>1 DEF Acceptor
  <2> QED
    BY <2>1, <2>2, <2>3, <2>4, <2>5, <2>6, <2>7 DEF TypeOK, Phases, Loops, Lives
<1> QED
  BY <1>1, ServerInvariant, PTL

\* A connection that is closed is freed at the end of the handler that closed
\* it, and never waits for the timeout: whenever its deadline refers to it, so
\* does a read or an event.
THEOREM DeadlinesKeepNobody == Spec => []NoneLivesForItsDeadline
<1>1. ConnInv => NoneLivesForItsDeadline
  BY DEF ConnInv
<1> QED
  BY <1>1, ServerInvariant, PTL

\* Whatever a peer sends and however it arrives, a peer gets its answers in the
\* order of its requests, one for each at most, and each says what its own
\* request asked for: clearing the one response and the one parser in the middle
\* of parsing never lets one request's answer go to another.
THEOREM AnswersFit == Spec => []AnswersFitRequests
<1>1. ConnInv => AnswersFitRequests
  BY DEF ConnInv, Kept, Said, Fit, AnswersFitRequests
<1> QED
  BY <1>1, ServerInvariant, PTL
=============================================================================
