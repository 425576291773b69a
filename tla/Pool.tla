-------------------------------- MODULE Pool --------------------------------
(***************************************************************************)
(* Pool, RoundRobinPool and BalancedPool (lib/dispatcher/pool-base.js,     *)
(* pool.js, round-robin-pool.js, balanced-pool.js and the life cycle of    *)
(* dispatcher-base.js) over abstract clients.  A client holds the requests *)
(* dispatched to it until they have an outcome; with HTTP/1.1 it is busy   *)
(* with one, with HTTP/2 it may or may not be; once it was busy it owes    *)
(* the pool a 'drain'.  That a Client does so is what its own module       *)
(* checks.  The clients of a BalancedPool are Pools, its upstreams.        *)
(*                                                                         *)
(* User code runs within client.dispatch() (onRequestStart) and within     *)
(* 'drain', and may call the pool there.  "stack" keeps the functions of   *)
(* the pool that are waiting for such a call to return.                    *)
(***************************************************************************)
EXTENDS Integers, Sequences, FiniteSets, SequencesExt, FiniteSetsExt,
        FixedQueue, Balanced

CONSTANTS
  Ids,         \* 1..n, identities of clients; one that is gone is used again
  None,        \* no client
  Kinds,       \* the pools to check: their class, the connections option (0
               \* is no limit) and the bounds on faults and requests
  CanBeH2,     \* https: and allowH2: ALPN may choose h2
  HasTtl,      \* clientTtl is set
  Depth,       \* bound on the pool's functions that wait for user code
  NestedCalls  \* what the user calls from within: "dispatch", "close", ...

ASSUME IdAssumption ==
  IsFiniteSet(Ids) /\ Ids = 1..Cardinality(Ids) /\ None \notin Ids
ASSUME RequestAssumption ==
  IsFiniteSet(Requests) /\ Requests = 1..Cardinality(Requests)
ASSUME NumberAssumption == Depth \in Nat
ASSUME KindAssumption == Kinds \subseteq
  [class: {"pool", "roundRobin", "balanced"}, connections: Nat, faults: Nat,
   requests: Requests \cup {0}]
ASSUME FlagAssumption == {CanBeH2, HasTtl} \subseteq BOOLEAN
ASSUME CallAssumption == NestedCalls \subseteq {"dispatch", "close", "destroy"}

VARIABLES
  kind,        \* which of Kinds it is
  pool,        \* its fields, and the clients: see Pools
  queue,       \* kQueue
  queued,      \* kQueued
  closed,      \* kClosed
  destroyed,   \* kDestroyed
  closing,     \* "queue": kClosedResolve waits; "clients": closeClients() waits
  awaits,      \* the clients closeClients() waits for
  stack,       \* functions of the pool that called user code, innermost first
  dispatched,  \* requests 1..dispatched were given to dispatch()
  waiting,     \* history: what was pushed to kQueue and not shifted, in order
  done,        \* history: the requests that had their outcome
  userDestroy, \* history: the user called destroy()
  faults       \* how many connections failed or ended, and ttls passed

lifeVars == <<closed, destroyed, closing, awaits, userDestroy>>
queueVars == <<queue, queued, waiting>>
vars == <<kind, pool, queueVars, lifeVars, stack, dispatched, done, faults>>

\* life: "none" is not created yet, or destroyed with nothing left to report.
\* conn: of an upstream, "h2" when it has connections.  owes: the client's own
\* kNeedDrain is 2.  need: the pool's kNeedDrain on the client.  old: its ttl
\* has passed.  weight: kWeight.
Clients == [life: {"none", "open", "closed", "destroyed"},
            conn: {"none", "connecting", "h1", "h2"}, held: SUBSET Requests,
            owes: BOOLEAN, need: BOOLEAN, old: BOOLEAN, weight: 0..MaxWeight]

NoClient == [life |-> "none", conn |-> "none", held |-> {}, owes |-> FALSE,
             need |-> FALSE, old |-> FALSE, weight |-> 0]

\* adds: clients whose kAddClient microtask is outstanding.  current, gcd:
\* kCurrentWeight and kGreatestCommonDivisor.
Pools == [clients: Seq(Ids), retiring: SUBSET Ids, needDrain: BOOLEAN,
          probe: Ids \cup {None}, protocol: {"none", "h1", "h2"},
          index: Int, adds: Seq(Ids), current: 0..MaxWeight, gcd: 0..MaxWeight,
          at: [Ids -> Clients]]

Frames == [at: {"dispatch", "onDrain", "drainQueue", "drainLoop"}, c: Ids]
            \cup [at: {"queueLoop", "emitted", "check"}, c: {None}]

TypeOK ==
  /\ kind \in Kinds /\ pool \in Pools
  /\ queue \in Queues /\ queued \in Nat /\ waiting \in Seq(Requests)
  /\ {closed, destroyed, userDestroy} \subseteq BOOLEAN
  /\ closing \in {"no", "queue", "clients", "done"} /\ awaits \subseteq Ids
  /\ stack \in Seq(Frames)
  /\ faults \in 0..kind.faults
  /\ dispatched \in Requests \cup {0} /\ done \subseteq Requests

----------------------------------------------------------------------------
(* Clients in and out of rotation, as functions of the pool's state.        *)

Class == kind.class
\* shouldCreateProtocolProbe
MayProbe(p) == Class = "pool" /\ CanBeH2 /\ p.protocol # "h1"

Referred(p) == Range(p.clients) \cup p.retiring \cup Range(p.adds)
                 \cup {p.probe} \cup awaits \cup {stack[i].c : i \in DOMAIN stack}

\* The identities a new client may have, a bound of the model.
Spares(p) == {c \in Ids \ Referred(p) : p.at[c].life = "none"}

\* No protocol is being probed, and the limit is not reached.
MayCreate(p) ==
  /\ Class # "balanced" /\ p.probe = None
  /\ kind.connections = 0 \/ Len(p.clients) < kind.connections
  /\ Spares(p) # {}

\* createClient with kAddClient; the other pools do the same without a probe.
Created(p) ==
  LET c == Min(Spares(p))
  IN [client |-> c,
      pool |-> [p EXCEPT !.clients = Append(@, c),
                         !.probe = IF MayProbe(p) THEN c ELSE @,
                         !.adds = IF p.needDrain THEN Append(@, c) ELSE @,
                         !.at[c] = [NoClient EXCEPT !.life = "open"]]]

\* client.close(), whose callback comes when the client is gone.
Closed(p, S) ==
  [p EXCEPT !.at = [c \in Ids |->
     IF c \in S /\ p.at[c].life = "open" THEN [p.at[c] EXCEPT !.life = "closed"]
     ELSE p.at[c]]]

\* The clients that are not in S, in the order of s.
Without(s, S) ==
  LET kept[n \in 0..Len(s)] ==
        IF n = 0 THEN <<>>
        ELSE IF s[n] \in S THEN kept[n-1] ELSE Append(kept[n-1], s[n])
  IN kept[Len(s)]

\* kRetireClient for each of S
Retired(p, S) ==
  [Closed(p, S) EXCEPT
     !.clients = Without(@, S),
     !.retiring = @ \cup {c \in S : p.at[c].life \notin {"none", "destroyed"}}]

\* kHasDispatcher of PoolBase
AnyFree(p) ==
  \E c \in Range(p.clients) : ~p.at[c].need /\ p.at[c].life = "open"

\* kRemoveClient for each of S
Removed(p, S) ==
  IF S = {} THEN p
  ELSE LET q == Retired(p, S) IN [q EXCEPT !.needDrain = ~AnyFree(q)]

\* The first client of "order" that is neither stale nor busy, or None, and
\* the stale ones in front of it.
Usable(p, c) == ~p.at[c].old /\ ~p.at[c].need
FirstUsable(p, order) ==
  LET found == {i \in DOMAIN order : Usable(p, order[i])}
  IN IF found = {} THEN Len(order) + 1 ELSE Min(found)
Stale(p, order) ==
  {order[i] : i \in {j \in 1..FirstUsable(p, order)-1 : p.at[order[j]].old}}

\* The clients from kIndex + 1 around, as RoundRobinPool visits them.
Around(p) ==
  LET n == Len(p.clients)
  IN [i \in 1..n |-> p.clients[((p.index + i) % n) + 1]]

\* How many of S are among the first n clients.
Among(p, n, S) ==
  Cardinality({i \in DOMAIN p.clients : i <= n /\ p.clients[i] \in S})

\* kIndex when the round has ended at client c and "stale" were removed.
IndexAt(p, c, stale) ==
  LET at == SelectInSeq(p.clients, LAMBDA d : d = c)
  IN at - Among(p, at, stale) - 1

\* kGetDispatcher of BalancedPool
GetUpstream(p) ==
  LET s == Select([i \in DOMAIN p.clients |-> p.at[p.clients[i]].weight],
                  [i \in DOMAIN p.clients |-> ~p.at[p.clients[i]].need
                                               /\ p.at[p.clients[i]].life = "open"],
                  p.index, p.current, p.gcd)
  IN [client |-> IF s.chosen + 1 \in DOMAIN p.clients THEN p.clients[s.chosen + 1]
                 ELSE None,
      pool |-> [p EXCEPT !.index = s.index, !.current = s.current]]

\* kGetDispatcher of Pool and RoundRobinPool
GetClient(p) ==
  LET order == IF Class = "pool" THEN p.clients ELSE Around(p)
      first == FirstUsable(p, order)
      stale == Stale(p, order)
      q == [Removed(p, stale) EXCEPT !.index =
              IF Class = "pool" \/ order = <<>> THEN @
              ELSE IndexAt(p, order[Min({first, Len(order)})], stale)]
  IN CASE first <= Len(order) -> [client |-> order[first], pool |-> q]
       [] first > Len(order) /\ MayCreate(q) -> Created(q)
       [] OTHER -> [client |-> None, pool |-> q]

GetDispatcher(p) == IF Class = "balanced" THEN GetUpstream(p) ELSE GetClient(p)

\* kHasDispatcher of Pool and RoundRobinPool
HasClient(p) ==
  LET stale == Stale(p, p.clients)
      q == [Removed(p, stale) EXCEPT !.index =
              IF Class = "pool" THEN @ ELSE @ - Among(p, p.index + 1, stale)]
      found == FirstUsable(p, p.clients) <= Len(p.clients)
  IN [has |-> found \/ MayCreate(q),
      pool |-> IF ~found /\ MayCreate(q) THEN Created(q).pool ELSE q]

HasDispatcher(p) ==
  IF Class = "balanced" THEN [has |-> AnyFree(p), pool |-> p] ELSE HasClient(p)

\* client.dispatch() returned false: the client is marked, and kOnClientBusy.
Busy(p, c) ==
  [p EXCEPT !.at[c].need = TRUE,
            !.probe = IF @ = None /\ p.at[c].conn = "connecting" /\ MayProbe(p)
                      THEN c ELSE @]

----------------------------------------------------------------------------
(* The queue, and the call of client.dispatch().                            *)

Frame(at, c) == [at |-> at, c |-> c]
Top == Head(stack)
At(label) == stack # <<>> /\ Top.at = label
Goto(f) == <<f>> \o Tail(stack)
Caller == Tail(stack)

Enqueue(r) ==
  /\ queue' = Push(queue, r)
  /\ queued' = queued + 1
  /\ waiting' = Append(waiting, r)

\* queue.shift() of an item, which is handed to client c of p: a client that
\* is closed answers with an error (DispatcherBase.dispatch).
Given(p, c, r) ==
  [p EXCEPT !.at[c].held = IF p.at[c].life = "open" THEN @ \cup {r} ELSE @,
            !.at[c].conn = IF @ = "none" /\ p.at[c].life = "open"
                           THEN "connecting" ELSE @]

Outcome(p, c, r) == done' = IF p.at[c].life = "open" THEN done ELSE done \cup {r}

HandOver(p, c) ==
  LET r == First(queue)
  IN /\ queue' = Rest(queue)
     /\ queued' = queued - 1
     /\ waiting' = Tail(waiting)
     /\ pool' = Given(p, c, r)
     /\ Outcome(p, c, r)

\* What client.dispatch() may return: whether the client is busy, in which
\* case it owes a 'drain'.  A call to a closed client returns false.
BusyAfter(a) ==
  IF a.life = "open" /\ a.conn # "h2" /\ a.held # {} /\ Class # "balanced"
  THEN {TRUE} ELSE BOOLEAN

\* Mutant of CloseClients: clients out of rotation are not waited for.
CloseRotation(p) ==
  LET live == {c \in Range(p.clients) : p.at[c].life \notin {"none", "destroyed"}}
  IN /\ pool' = Closed(p, live)
     /\ awaits' = live
     /\ closing' = "clients"

\* closeClients
CloseClients(p) ==
  LET live == {c \in Range(p.clients) : p.at[c].life \notin {"none", "destroyed"}}
  IN /\ pool' = Closed(p, live)
     /\ awaits' = live \cup p.retiring
     /\ closing' = "clients"

----------------------------------------------------------------------------
(* What the user calls.                                                     *)

UserMay(call) ==
  \/ stack = <<>> /\ pool.adds = <<>>
  \/ /\ stack # <<>> /\ Top.at \in {"dispatch", "onDrain", "drainQueue", "emitted"}
     /\ Len(stack) < Depth /\ call \in NestedCalls

\* BalancedPoolMissingUpstreamError
NoUpstream == Class = "balanced" /\ pool.clients = <<>>

\* dispatch(): refused by a pool that is closed or destroyed; queued when no
\* client is free; otherwise handed to one.
Dispatch ==
  LET r == dispatched + 1
      get == GetDispatcher(pool)
  IN /\ UserMay("dispatch") /\ dispatched < kind.requests
     /\ dispatched' = r
     /\ \/ /\ closed \/ destroyed \/ NoUpstream
           /\ done' = done \cup {r}
           /\ UNCHANGED <<pool, queueVars, stack>>
        \/ /\ ~closed /\ ~destroyed /\ ~NoUpstream
           /\ get.client = None
           /\ pool' = [get.pool EXCEPT !.needDrain = TRUE]
           /\ Enqueue(r)
           /\ UNCHANGED <<done, stack>>
        \/ /\ ~closed /\ ~destroyed /\ ~NoUpstream
           /\ get.client # None
           /\ pool' = Given(get.pool, get.client, r)
           /\ Outcome(get.pool, get.client, r)
           /\ stack' = <<Frame("dispatch", get.client)>> \o stack
           /\ UNCHANGED queueVars
     /\ UNCHANGED <<kind, faults, lifeVars>>

\* A fault may happen, and is counted.
Fault == faults < kind.faults /\ faults' = faults + 1

\* addUpstream() of an origin that is not there: each weight is reset.
Reweighed(p, S, w) ==
  LET q == [p EXCEPT !.at = [c \in Ids |-> IF c \in S THEN [@[c] EXCEPT !.weight = w]
                                          ELSE @[c]]]
  IN [q EXCEPT !.gcd = GcdOf({q.at[c].weight : c \in Range(q.clients)})]

AddUpstream ==
  /\ stack = <<>> /\ pool.adds = <<>>
  /\ Class = "balanced" /\ Len(pool.clients) < kind.connections /\ ~destroyed
  /\ Spares(pool) # {}
  /\ LET p == Created(pool).pool IN pool' = Reweighed(p, Range(p.clients), MaxWeight)
  /\ UNCHANGED <<kind, faults, queueVars, lifeVars, stack, dispatched, done>>

\* removeUpstream() with kRemoveClient
RemoveUpstream ==
  /\ stack = <<>> /\ pool.adds = <<>>
  /\ Class = "balanced" /\ Fault
  /\ \E c \in Range(pool.clients) : pool.at[c].life = "open" /\ pool' = Removed(pool, {c})
  /\ UNCHANGED <<kind, queueVars, lifeVars, stack, dispatched, done>>

\* close(): at once when nothing is queued, otherwise when the queue is empty.
Close ==
  /\ UserMay("close") /\ ~closed /\ ~destroyed
  /\ closed' = TRUE
  /\ \/ IsEmpty(queue) /\ CloseClients(pool)
     \/ ~IsEmpty(queue) /\ closing' = "queue" /\ UNCHANGED <<pool, awaits>>
  /\ UNCHANGED <<kind, faults, queueVars, destroyed, userDestroy, stack, dispatched, done>>

\* Mutant of DestroyAll: clients out of rotation are forgotten.
DestroyRotation ==
  LET reach == Range(pool.clients)
  IN /\ destroyed' = TRUE
     /\ queue' = Drained(queue)
     /\ waiting' = <<>> /\ queued' = queued
     /\ done' = done \cup Items(queue)
     /\ pool' = [pool EXCEPT !.at = [c \in Ids |->
          IF c \in reach /\ pool.at[c].life \in {"open", "closed"}
          THEN [pool.at[c] EXCEPT !.life = "destroyed"] ELSE pool.at[c]]]

\* kDestroy: what is queued fails, every client is destroyed.
DestroyAll ==
  LET reach == Range(pool.clients) \cup pool.retiring
  IN /\ destroyed' = TRUE
     /\ queue' = Drained(queue)
     /\ waiting' = <<>> /\ queued' = queued
     /\ done' = done \cup Items(queue)
     /\ pool' = [pool EXCEPT !.at = [c \in Ids |->
          IF c \in reach /\ pool.at[c].life \in {"open", "closed"}
          THEN [pool.at[c] EXCEPT !.life = "destroyed"] ELSE pool.at[c]]]

Destroy ==
  /\ UserMay("destroy") /\ ~destroyed
  /\ DestroyAll
  /\ userDestroy' = TRUE
  /\ UNCHANGED <<kind, faults, closed, closing, awaits, stack, dispatched>>

----------------------------------------------------------------------------
(* The functions of the pool, after each call of user code.                 *)

\* emit('drain') if it is owed, in which the user may call the pool.
Emit(p) ==
  \/ /\ p.needDrain
     /\ pool' = [p EXCEPT !.needDrain = FALSE]
     /\ stack' = Goto(Frame("emitted", None))
  \/ /\ ~p.needDrain
     /\ pool' = p
     /\ stack' = Goto(Frame("check", None))

\* What client.dispatch() returned: "free" or busy, in which case c owes.
Returned(label, free) ==
  /\ At(label)
  /\ \E busy \in BusyAfter(pool.at[Top.c]) :
       free = ~(busy \/ pool.at[Top.c].owes)

Owing(p, c) == [p EXCEPT !.at[c].owes = (p.at[c].life = "open")]

\* kDispatch: the client took the request and can take more.
DispatchFree ==
  /\ Returned("dispatch", TRUE)
  /\ stack' = Caller
  /\ UNCHANGED <<kind, faults, pool, queueVars, lifeVars, dispatched, done>>

\* kDispatch: it can not; kNeedDrain says whether another client can.
DispatchBusy ==
  LET has == HasDispatcher(Busy(Owing(pool, Top.c), Top.c))
  IN /\ Returned("dispatch", FALSE)
     /\ pool' = [has.pool EXCEPT !.needDrain = ~has.has]
     /\ stack' = Caller
     /\ UNCHANGED <<kind, faults, queueVars, lifeVars, dispatched, done>>

\* kOnDrain: the next item of the queue goes to the client that drained.
DrainLoop ==
  /\ At("drainLoop")
  /\ \/ /\ First(queue) # Undefined
        /\ HandOver(pool, Top.c)
        /\ stack' = Goto(Frame("onDrain", Top.c))
     \/ /\ First(queue) = Undefined
        /\ Emit([pool EXCEPT !.at[Top.c].need = FALSE])
        /\ UNCHANGED <<queueVars, done>>
  /\ UNCHANGED <<kind, faults, lifeVars, dispatched>>

OnDrainFree ==
  /\ Returned("onDrain", TRUE)
  /\ stack' = Goto(Frame("drainLoop", Top.c))
  /\ UNCHANGED <<kind, faults, pool, queueVars, lifeVars, dispatched, done>>

OnDrainBusy ==
  /\ Returned("onDrain", FALSE)
  /\ pool' = Busy(Owing(pool, Top.c), Top.c)
  /\ stack' = Goto(Frame("check", None))
  /\ UNCHANGED <<kind, faults, queueVars, lifeVars, dispatched, done>>

\* kDrainQueue: the next item of the queue goes to whichever client is free.
QueueLoop ==
  LET get == GetDispatcher(pool)
  IN /\ At("queueLoop")
     /\ \/ /\ IsEmpty(queue)
           /\ Emit(pool)
           /\ UNCHANGED <<queueVars, done>>
        \/ /\ ~IsEmpty(queue) /\ get.client = None
           /\ pool' = get.pool
           /\ stack' = Goto(Frame("check", None))
           /\ UNCHANGED <<queueVars, done>>
        \/ /\ ~IsEmpty(queue) /\ get.client # None
           /\ HandOver(get.pool, get.client)
           /\ stack' = Goto(Frame("drainQueue", get.client))
     /\ UNCHANGED <<kind, faults, lifeVars, dispatched>>

DrainQueueFree ==
  /\ Returned("drainQueue", TRUE)
  /\ stack' = Goto(Frame("queueLoop", None))
  /\ UNCHANGED <<kind, faults, pool, queueVars, lifeVars, dispatched, done>>

DrainQueueBusy ==
  LET has == HasDispatcher(Busy(Owing(pool, Top.c), Top.c))
  IN /\ Returned("drainQueue", FALSE)
     /\ pool' = has.pool
     /\ stack' = Goto(Frame(IF has.has THEN "queueLoop" ELSE "check", None))
     /\ UNCHANGED <<kind, faults, queueVars, lifeVars, dispatched, done>>

\* The end of kOnDrain and kDrainQueue: a close() that waits for the queue.
CheckClosed ==
  /\ At("emitted") \/ At("check")
  /\ stack' = Caller
  /\ \/ closing = "queue" /\ IsEmpty(queue) /\ CloseClients(pool)
     \/ /\ ~(closing = "queue" /\ IsEmpty(queue))
        /\ UNCHANGED <<pool, awaits, closing>>
  /\ UNCHANGED <<kind, faults, queueVars, closed, destroyed, userDestroy, dispatched, done>>

----------------------------------------------------------------------------
(* Events of the clients, between jobs.                                     *)

Quiet == stack = <<>> /\ pool.adds = <<>>
Alive(c) == pool.at[c].life \in {"open", "closed"}
Connected(c) == pool.at[c].conn \in {"h1", "h2"}

\* kOnDrain for client c of p, unless it is closed; kOnClientDrain.
OnDrain(p, c) ==
  \/ /\ p.at[c].life = "open"
     /\ pool' = [p EXCEPT !.probe = IF @ = c THEN None ELSE @]
     /\ stack' = <<Frame("drainLoop", c)>>
  \/ p.at[c].life # "open" /\ pool' = p /\ stack' = <<>>

\* kDrainQueue, if "cond".
DrainQueueIf(cond) == stack' = IF cond THEN <<Frame("queueLoop", None)>> ELSE <<>>

\* A client that owes a 'drain' is no longer busy.
ClientDrains(c) ==
  /\ Quiet /\ Alive(c) /\ pool.at[c].owes
  /\ pool.at[c].conn = "h2" \/ pool.at[c].held = {}
  /\ OnDrain([pool EXCEPT !.at[c].owes = FALSE], c)
  /\ UNCHANGED <<kind, faults, queueVars, lifeVars, dispatched, done>>

\* The microtask of kAddClient.
Microtask ==
  LET c == Head(pool.adds)
      p == [pool EXCEPT !.adds = Tail(@)]
  IN /\ stack = <<>> /\ pool.adds # <<>>
     /\ \/ p.needDrain /\ ~p.at[c].need /\ OnDrain(p, c)
        \/ (~p.needDrain \/ p.at[c].need) /\ pool' = p /\ UNCHANGED stack
     /\ UNCHANGED <<kind, faults, queueVars, lifeVars, dispatched, done>>

Protocols ==
  CASE Class = "balanced" -> {"h2"}
    [] Class # "balanced" /\ CanBeH2 -> {"h1", "h2"}
    [] OTHER -> {"h1"}

\* The weight of upstream c after an error, which renews the divisor.
Penalised(p, c) ==
  IF Class = "balanced" THEN Reweighed(p, {c}, Lighter(p.at[c].weight)) ELSE p

\* 'connect': the ttl starts; a probe that found HTTP/1.1 opens the gate.
Connects(c) ==
  \E proto \in Protocols :
    /\ Quiet /\ Alive(c) /\ pool.at[c].conn = "connecting"
    /\ LET opens == pool.probe = c /\ proto # "h2"
           weight == IF Class = "balanced" THEN Heavier(pool.at[c].weight)
                     ELSE pool.at[c].weight
       IN /\ pool' = [pool EXCEPT
                        !.at[c] = [@ EXCEPT !.conn = proto, !.old = FALSE, !.weight = weight],
                        !.protocol = IF Class = "pool" THEN proto ELSE @,
                        !.probe = IF opens THEN None ELSE @]
          /\ DrainQueueIf(opens)
    /\ UNCHANGED <<kind, faults, queueVars, lifeVars, dispatched, done>>

\* Mutant of MustHandOver: the queue waits for the next 'drain'.
ProbeFailed(c) == pool.probe = c

\* What was queued for the probe, or is queued at all, needs another client.
MustHandOver(c) == pool.probe = c \/ (queued > 0 /\ Class # "balanced")

\* Client c has no connection, and fails some of what it holds.
Lost(c, failed) ==
  LET a == [pool.at[c] EXCEPT !.conn = "none", !.held = pool.at[c].held \ failed]
  IN [pool EXCEPT !.at[c] = a, !.probe = IF pool.probe = c THEN None ELSE pool.probe]

\* 'connectionError': the client fails what it holds, or keeps it and dials
\* again; the pool retires it and hands its own queue to others.
ConnectFails(c) ==
  \E failed \in {{}, pool.at[c].held} :
    /\ Quiet /\ Alive(c) /\ pool.at[c].conn = "connecting"
    /\ LET p == Lost(c, failed)
       IN pool' = IF c \in Range(p.clients) /\ Class # "balanced"
                  THEN Retired(p, {c}) ELSE Penalised(p, c)
    /\ done' = done \cup failed
    /\ DrainQueueIf(MustHandOver(c))
    /\ Fault
    /\ UNCHANGED <<kind, queueVars, lifeVars, dispatched>>

\* 'disconnect': what the client held fails, or is kept for another
\* connection; bySocket: with UND_ERR_SOCKET, which costs an upstream weight.
Disconnects(c) ==
  \E failed \in {{}, pool.at[c].held}, bySocket \in BOOLEAN :
    /\ Quiet /\ Alive(c) /\ Connected(c)
    /\ bySocket => Class = "balanced"
    /\ LET p == Lost(c, failed)
       IN pool' = IF bySocket THEN Penalised(p, c) ELSE p
    /\ done' = done \cup failed
    /\ DrainQueueIf(pool.probe = c)
    /\ Fault
    /\ UNCHANGED <<kind, queueVars, lifeVars, dispatched>>

Redials(c) ==
  /\ Quiet /\ Alive(c) /\ pool.at[c].conn = "none" /\ pool.at[c].held # {}
  /\ pool' = [pool EXCEPT !.at[c].conn = "connecting"]
  /\ UNCHANGED <<kind, faults, queueVars, lifeVars, stack, dispatched, done>>

Completes(c, r) ==
  /\ Quiet /\ Connected(c) /\ r \in pool.at[c].held
  /\ pool' = [pool EXCEPT !.at[c].held = @ \ {r}]
  /\ done' = done \cup {r}
  /\ UNCHANGED <<kind, faults, queueVars, lifeVars, stack, dispatched>>

\* clientTtl has passed since 'connect'.
Expires(c) ==
  /\ Quiet /\ HasTtl /\ Class # "balanced"
  /\ c \in Range(pool.clients) /\ Connected(c) /\ ~pool.at[c].old
  /\ pool' = [pool EXCEPT !.at[c].old = TRUE]
  /\ Fault
  /\ UNCHANGED <<kind, queueVars, lifeVars, stack, dispatched, done>>

\* A closed client destroys itself once it holds nothing.
ClientEnds(c) ==
  /\ Quiet /\ pool.at[c].life = "closed" /\ pool.at[c].held = {}
  /\ pool' = [pool EXCEPT !.at[c].life = "destroyed"]
  /\ UNCHANGED <<kind, faults, queueVars, lifeVars, stack, dispatched, done>>

\* A destroyed client is through: what it held has failed, its connection, if
\* any, has reported 'disconnect', and close() of it has called back.
ClientGone(c) ==
  /\ Quiet /\ pool.at[c].life = "destroyed"
  /\ LET cleared == pool.probe = c /\ Connected(c)
     IN /\ pool' = [pool EXCEPT !.at[c] = NoClient,
                      !.retiring = @ \ {c},
                      !.probe = IF cleared THEN None ELSE @]
        /\ DrainQueueIf(cleared)
  /\ done' = done \cup pool.at[c].held
  /\ UNCHANGED <<kind, faults, queueVars, lifeVars, dispatched>>

\* closeClients() has resolved: the pool destroys itself.
ClientsClosed ==
  /\ Quiet /\ closing = "clients"
  /\ \A c \in awaits : pool.at[c].life = "none"
  /\ closing' = "done" /\ awaits' = {}
  /\ \/ ~destroyed /\ DestroyAll
     \/ destroyed /\ UNCHANGED <<pool, queueVars, destroyed, done>>
  /\ UNCHANGED <<kind, faults, closed, userDestroy, stack, dispatched>>

----------------------------------------------------------------------------
(* The specification.                                                       *)

Init ==
  /\ kind \in Kinds
  /\ pool = [clients |-> <<>>, current |-> 0, gcd |-> 0, retiring |-> {}, needDrain |-> FALSE,
             probe |-> None, protocol |-> "none", index |-> -1, adds |-> <<>>,
             at |-> [c \in Ids |-> NoClient]]
  /\ queue = EmptyQueue /\ queued = 0 /\ waiting = <<>>
  /\ closed = FALSE /\ destroyed = FALSE /\ userDestroy = FALSE
  /\ closing = "no" /\ awaits = {}
  /\ stack = <<>> /\ dispatched = 0 /\ done = {} /\ faults = 0

StackStep ==
  \/ DispatchFree \/ DispatchBusy
  \/ DrainLoop \/ OnDrainFree \/ OnDrainBusy
  \/ QueueLoop \/ DrainQueueFree \/ DrainQueueBusy \/ CheckClosed

\* What clients do of themselves, and what a network without faults does.
ClientStep(c) ==
  \/ ClientDrains(c) \/ Connects(c) \/ Redials(c)
  \/ ClientEnds(c) \/ ClientGone(c)
  \/ \E r \in Requests : Completes(c, r)

ClientFault(c) == ConnectFails(c) \/ Disconnects(c) \/ Expires(c)

Progress ==
  StackStep \/ Microtask \/ ClientsClosed \/ \E c \in Ids : ClientStep(c)

Next ==
  \/ Dispatch \/ Close \/ Destroy \/ AddUpstream \/ RemoveUpstream
  \/ Progress \/ \E c \in Ids : ClientFault(c)

\* User code returns and microtasks run; connectors and servers answer, and
\* clients drain and report their end.  As faults and requests are bounded,
\* each of these happens at last if one of them does as long as one can.
Fairness == WF_vars(Progress)

Spec == Init /\ [][Next]_vars /\ Fairness

----------------------------------------------------------------------------
(* Properties.                                                              *)

\* kQueue is a FIFO queue of what was pushed and not shifted, although it is a
\* chain of ring buffers: shift() would return the oldest item, or undefined if
\* there is none, and isEmpty() and kQueued agree with it (fixed-queue.js;
\* kQueued is not counted down by kDestroy).
QueueIsFifo ==
  /\ First(queue) = (IF waiting = <<>> THEN Undefined ELSE Head(waiting))
  /\ IsEmpty(queue) <=> waiting = <<>>
  /\ destroyed \/ queued = Len(waiting)

\* Once a pool is destroyed every client that holds a request is, also those
\* that are out of rotation, and nothing waits in the queue: no request outlives
\* destroy() (pool-base.js:198).  And close() destroys it only when each request
\* dispatched to it has had its outcome: in the queue, on a client or on a
\* retiring one (pool-base.js:85).
EndsAreOver ==
  destroyed =>
    /\ IsEmpty(queue)
    /\ \A c \in Ids : pool.at[c].held # {} => pool.at[c].life = "destroyed"
    /\ ~userDestroy => 1..dispatched \subseteq done

\* Each request is handed to a client and served at last, whatever clients
\* drain, disconnect, expire or fail to connect meanwhile: time and again none
\* that was dispatched is left (pool-base.js:94), unless a BalancedPool has no
\* upstream.
EveryRequestServed ==
  []<>(\/ 1..dispatched \subseteq done
       \/ Class = "balanced" /\ pool.clients = <<>>)
=============================================================================
