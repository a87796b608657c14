------------------------- MODULE ApplicationProofs -------------------------
(***************************************************************************)
(* Proofs about the pools: the types, the servers a clean-up closes, what  *)
(* the cache stands for, the listeners, what is served when nothing is     *)
(* left to do, and what clients are answered, for any number of pools,     *)
(* networks, configurations and generations, with users, crashes and       *)
(* failing requests at any time unless a theorem says otherwise.           *)
(***************************************************************************)
EXTENDS Application, WorkQueueProofs

-----------------------------------------------------------------------------
(* The types.                                                              *)

\* A worker that handles an event has taken it, and what it handles is an
\* object once it read one.
Handling(g) ==
    /\ ~At(g, "idle") => queue[g].busy \in Events
    /\ worker[g].pc \notin {"idle", "sync"} => worker[g].obj \in Objects
    /\ At(g, "change") => worker[g].old \in Objects

\* An event that was sent, and the copy it will find: the last one is the pool
\* as it is in the API, and a pool is not deleted twice.
Follows(p) ==
    LET w == watch[p]
    IN  /\ w = <<>> => indexer[gen][p] = ippool[p]
        /\ w # <<>> => /\ w[Len(w)] = ippool[p]
                       /\ w[1] = None => indexer[gen][p] # None
        /\ \A i \in 1..(Len(w) - 1) : w[i + 1] = None => w[i] # None

Fed ==
    /\ informing => \A p \in Pools : Follows(p)
    /\ ~informing => \A p \in Pools : watch[p] = <<>>

\* The informer is one of a generation that runs.
Informed ==
    /\ main \notin {"start", "count"} => gen \in Gens
    /\ informing => main \in {"wait", "replayed", "running"}

Typed == Types /\ Fed /\ Informed /\ \A g \in Gens : Handling(g)

\* A generation that has no informer yet has nothing to do.
Waiting ==
    \A g \in Gens : (g > gen \/ (g = gen /\ main = "listen")) =>
      At(g, "idle") /\ queue[g] = EmptyQueue

\* A packet whose lease was found is looked up for the network of the lease.
Looking == packet.pc \in {"check", "read"} => packet.lease \in Nets

-----------------------------------------------------------------------------
(* What a pool can be, and what a registration that got that far has.      *)

\* The networks of a pool.
NetsOf(p) == {spec.net : spec \in Choices[p]}

\* What a pool may be, as far as its users are concerned.
Given(p) == Choices[p] \cup {None}

Fitting == {e \in Events : e.net \in NetsOf(e.pool)}

\* An object its users made.
Made(o) == o.spec \in Choices[o.name]

Chosen ==
    /\ \A p \in Pools : /\ ippool[p] \in Given(p) /\ watch[p] \in Seq(Given(p))
                        /\ \A g \in Gens : indexer[g][p] \in Given(p)
    /\ \A g \in Gens :
         /\ queue[g] \in Queues(Fitting)
         /\ ~At(g, "idle") => queue[g].busy \in Fitting
         /\ worker[g].pc \notin {"idle", "sync"} => Made(worker[g].obj)
         /\ \A n \in Nets : cache[g][n] # None => Made(cache[g][n])

\* A cached pool is the one of the network it is cached for.
Keyed ==
    \A g \in Gens : \A n \in Nets : cache[g][n] # None => cache[g][n].spec.net = n

\* A socket could not be opened.
Unheard == budget["listen"] < Budget["listen"]

\* What is cached, or handled after the listener was started, has a server.
WithServer ==
    \A g \in Gens :
      /\ \A n \in Nets : cache[g][n] # None => cache[g][n].name \in servers[g]
      /\ \/ worker[g].pc \in {"status", "change", "reload"}
         \/ worker[g].pc = "cleanup" /\ ~Unheard
         => worker[g].obj.name \in servers[g]

Backed(g, n) ==
    cache[g][n] # None => dhcp[g][n] = cache[g][n] /\ subnet[g][n] = cache[g][n].spec.conf

\* While a worker sets up, reloads or cleans up a pool, only the other networks
\* are as they should be.
Backing(g) ==
    LET w == worker[g]
    IN  /\ \A n \in Nets :
             w.pc \in {"idle", "sync", "change"} \/ n # w.obj.spec.net => Backed(g, n)
        /\ w.pc = "status" => /\ dhcp[g][w.obj.spec.net] = w.obj
                              /\ subnet[g][w.obj.spec.net] = w.obj.spec.conf
        /\ w.pc = "change" => cache[g][w.old.spec.net] = w.old
        /\ w.pc = "reload" => subnet[g][w.obj.spec.net] = w.obj.spec.conf

\* No pool was changed while it was registered.
Undisturbed ==
    \A g \in Gens : At(g, "status") =>
      ippool[worker[g].obj.name] \in {None, worker[g].obj.spec}

-----------------------------------------------------------------------------
(* The types, for the parts of a step.                                     *)

Manned ==
    /\ queue \in [Gens -> Queues(Events)]
    /\ worker \in [Gens -> Workers]
    /\ \A g \in Gens : Handling(g)

LEMMA TypedManned == Typed => Manned
BY DEF Typed, Types, Manned

\* The worker goes on with its event.
LEMMA GotoManned ==
    ASSUME Manned, NEW g \in Gens, NEW w \in Workers, Goto(g, w), ~At(g, "idle"),
           w.pc \notin {"idle", "sync"} => w.obj \in Objects, w.pc = "change" => w.old \in Objects
    PROVE  Manned'
BY DEF Manned, Goto, Handling, At

\* The worker is done with its event.
LEMMA FinishManned ==
    ASSUME Manned, NEW g \in Gens, Finish(g), ~At(g, "idle")
    PROVE  Manned'
<1>1. Completed(queue[g]) \in Queues(Events)
  BY CompletedTyped DEF Manned, Handling
<1>2. IdleWorker \in Workers /\ IdleWorker.pc = "idle"
  BY DEF IdleWorker, Workers
<1>3. queue' = [queue EXCEPT ![g] = Completed(queue[g])] /\ worker' = [worker EXCEPT ![g] = IdleWorker]
  BY DEF Finish
<1>4. queue' \in [Gens -> Queues(Events)] /\ worker' \in [Gens -> Workers]
  BY <1>1, <1>2, <1>3 DEF Manned
<1>5. \A h \in Gens : Handling(h)'
  BY <1>2, <1>3 DEF Manned, Handling, At
<1> QED BY <1>4, <1>5 DEF Manned

\* What is sent to the informer arrives after what was sent before.
LEMMA SentFed ==
    ASSUME Types, Fed, NEW S \in SUBSET Pools, Sent(S), UNCHANGED <<informing, indexer, gen>>,
           ippool' \in [Pools -> Specs \cup {None}],
           \A p \in Pools \ S : ippool'[p] = ippool[p],
           \A p \in S : ippool'[p] = None => ippool[p] # None
    PROVE  watch' \in [Pools -> Seq(Specs \cup {None})] /\ Fed'
<1>1. \A p \in Pools : watch'[p] = IF informing /\ p \in S THEN Append(watch[p], ippool'[p]) ELSE watch[p]
  BY DEF Sent
<1>2. watch' \in [Pools -> Seq(Specs \cup {None})]
  BY AppendProperties DEF Sent, Types
<1>3. ASSUME informing, NEW p \in Pools
      PROVE  Follows(p)'
  <2> DEFINE w == watch[p]
             x == ippool'[p]
  <2>1. w \in Seq(Specs \cup {None}) /\ x \in Specs \cup {None} /\ Follows(p)
    BY <1>3 DEF Types, Fed
  <2>2. CASE p \notin S
    BY <1>1, <2>1, <2>2 DEF Follows
  <2>3. CASE p \in S
    <3>1. watch'[p] = Append(w, x)
      BY <1>1, <1>3, <2>3
    <3>2. /\ Len(Append(w, x)) = Len(w) + 1 /\ Append(w, x) # <<>>
          /\ \A i \in 1..Len(w) : Append(w, x)[i] = w[i]
          /\ Append(w, x)[Len(w) + 1] = x
      BY <2>1, AppendProperties
    <3>3. w = <<>> <=> Len(w) = 0
      BY <2>1, EmptySeq
    <3> HIDE DEF w, x
    <3>4. x = None => ippool[p] # None
      BY <2>3 DEF x
    <3>5. Len(w) \in Nat
      BY <2>1, LenProperties
    <3>6. /\ w = <<>> => indexer[gen][p] = ippool[p]
          /\ w # <<>> => /\ w[Len(w)] = ippool[p]
                         /\ w[1] = None => indexer[gen][p] # None
          /\ \A i \in 1..(Len(w) - 1) : w[i + 1] = None => w[i] # None
      BY <2>1 DEF Follows, w
    <3>7. Append(w, x)[1] = None => indexer[gen][p] # None
      BY <3>2, <3>3, <3>4, <3>5, <3>6
    <3>8. ASSUME NEW i \in 1..Len(w), Append(w, x)[i + 1] = None
          PROVE  Append(w, x)[i] # None
      <4>1. CASE i = Len(w)
        BY <3>2, <3>3, <3>4, <3>5, <3>6, <3>8, <4>1
      <4>2. CASE i # Len(w)
        BY <3>2, <3>5, <3>6, <3>8, <4>2
      <4> QED BY <4>1, <4>2
    <3> QED BY <3>1, <3>2, <3>5, <3>7, <3>8 DEF Follows, x
  <2> QED BY <2>2, <2>3
<1> QED BY <1>1, <1>2, <1>3 DEF Fed

LEMMA SameFed ==
    ASSUME Fed, UNCHANGED <<ippool, informing, watch, indexer, gen>>
    PROVE  Fed'
BY DEF Fed, Follows

-----------------------------------------------------------------------------
(* The types, for the steps of the workers.                                *)

\* What a step of a worker leaves alone unless it writes to the API.
LEMMA WorkerTyped ==
    ASSUME Typed, NEW g \in Gens, Manned',
           UNCHANGED <<ippool, used, feed, gen, main, clients, budget>>,
           addrs' \in [Pools -> SUBSET {ServerIP[c] : c \in Confs}],
           listening' \in [Pools -> SUBSET Gens],
           cache' \in [Gens -> [Nets -> Objects \cup {None}]],
           dhcp' \in [Gens -> [Nets -> Objects \cup {None}]],
           subnet' \in [Gens -> [Nets -> Confs \cup {None}]],
           leases' = leases,
           servers' \in [Gens -> SUBSET Pools],
           appStatus' \in {"INIT", "RUNNING", "RESTART"},
           current' \in Nat, target' = target
    PROVE  Typed'
<1>1. UNCHANGED <<informing, watch, indexer, tenants, packet>>
  BY DEF feed, clients
<1>2. Fed' /\ Informed'
  BY <1>1, SameFed DEF Typed, Informed
<1>3. Types'
  BY <1>1 DEF Typed, Types, Manned, Existing
<1> QED BY <1>2, <1>3 DEF Typed, Manned

LEMMA ObjectFields ==
    \A o \in Objects : /\ o.name \in Pools /\ o.spec \in Specs /\ o.spec.net \in Nets
                       /\ o.spec.conf \in Confs
BY DEF Objects, Specs

\* The values the calls of a handler leave behind.
LEMMA CallsTyped ==
    ASSUME Typed, NEW g \in Gens, NEW o \in Objects
    PROVE  /\ Addressed(o) \in [Pools -> SUBSET {ServerIP[c] : c \in Confs}]
           /\ Unaddressed(o) \in [Pools -> SUBSET {ServerIP[c] : c \in Confs}]
           /\ Stopped(g, o) \in [Pools -> SUBSET Gens]
           /\ Pooled(g, o) \in [Gens -> [Nets -> Objects \cup {None}]]
           /\ Unpooled(g, o.spec.net) \in [Gens -> [Nets -> Objects \cup {None}]]
           /\ Cached(g, o) \in [Gens -> [Nets -> Objects \cup {None}]]
           /\ Uncached(g, o.spec.net) \in [Gens -> [Nets -> Objects \cup {None}]]
           /\ [subnet EXCEPT ![g][o.spec.net] = o.spec.conf] \in [Gens -> [Nets -> Confs \cup {None}]]
           /\ Run(g, o) => /\ listening' \in [Pools -> SUBSET Gens]
                           /\ servers' \in [Gens -> SUBSET Pools]
<1>1. o.name \in Pools /\ o.spec.net \in Nets /\ o.spec.conf \in Confs
  BY ObjectFields
<1>2. /\ Addressed(o) \in [Pools -> SUBSET {ServerIP[c] : c \in Confs}]
      /\ Unaddressed(o) \in [Pools -> SUBSET {ServerIP[c] : c \in Confs}]
  BY <1>1 DEF Addressed, Unaddressed, Typed, Types
<1>3. Stopped(g, o) \in [Pools -> SUBSET Gens]
  BY <1>1 DEF Stopped, Typed, Types
<1>7. Run(g, o) => listening' \in [Pools -> SUBSET Gens]
  BY <1>1 DEF Run, Typed, Types
<1>6. Run(g, o) => servers' \in [Gens -> SUBSET Pools]
  BY <1>1 DEF Run, Typed, Types
<1>4. /\ Pooled(g, o) \in [Gens -> [Nets -> Objects \cup {None}]]
      /\ Unpooled(g, o.spec.net) \in [Gens -> [Nets -> Objects \cup {None}]]
  BY <1>1 DEF Pooled, Unpooled, Typed, Types
<1>5. /\ Cached(g, o) \in [Gens -> [Nets -> Objects \cup {None}]]
      /\ Uncached(g, o.spec.net) \in [Gens -> [Nets -> Objects \cup {None}]]
  BY <1>1 DEF Cached, Uncached, Typed, Types
<1>8. [subnet EXCEPT ![g][o.spec.net] = o.spec.conf] \in [Gens -> [Nets -> Confs \cup {None}]]
  BY <1>1 DEF Typed, Types
<1> QED BY <1>2, <1>3, <1>4, <1>5, <1>6, <1>7, <1>8

\* The object a worker handles, the event it took and what it finds for it.
LEMMA HandledTyped ==
    ASSUME Typed, NEW g \in Gens
    PROVE  /\ worker[g] \in Workers
           /\ ~At(g, "idle") => /\ queue[g].busy.pool \in Pools /\ queue[g].busy.net \in Nets
                                /\ indexer[g][queue[g].busy.pool] \in Specs \cup {None}
                                /\ cache[g][queue[g].busy.net] \in Objects \cup {None}
           /\ worker[g].pc \notin {"idle", "sync"} => worker[g].obj \in Objects
           /\ At(g, "change") => worker[g].old \in Objects
BY DEF Typed, Types, Handling, Events

LEMMA ObjectTyped == \A p \in Pools : \A spec \in Specs : Object(p, spec) \in Objects
BY DEF Object, Objects

\* The records the handlers make.
LEMMA WorkersTyped ==
    ASSUME NEW o \in Objects, NEW pc \in {"idle", "sync", "pool", "status", "change", "reload", "cleanup"}
    PROVE  /\ [IdleWorker EXCEPT !.pc = pc, !.obj = o] \in Workers
           /\ [IdleWorker EXCEPT !.pc = pc, !.obj = o].pc = pc
           /\ [IdleWorker EXCEPT !.pc = pc, !.obj = o].obj = o
           /\ \A old \in Objects : [pc |-> pc, obj |-> o, old |-> old] \in Workers
           /\ \A w \in Workers : /\ [w EXCEPT !.pc = pc] \in Workers
                                 /\ [w EXCEPT !.pc = pc].pc = pc
                                 /\ [w EXCEPT !.pc = pc].obj = w.obj
                                 /\ [w EXCEPT !.pc = pc].old = w.old
BY DEF IdleWorker, Workers

LEMMA TakeTyped ==
    ASSUME Typed, NEW g \in Gens, Take(g)
    PROVE  Typed'
<1>1. queue[g] \in Queues(Events) /\ queue[g].items # <<>>
  BY DEF Take, Typed, Types
<1>2. Taken(queue[g]) \in Queues(Events) /\ Taken(queue[g]).busy \in Events
  BY <1>1, TakenTyped
<1>3. worker[g] \in Workers /\ worker' = [worker EXCEPT ![g] = [worker[g] EXCEPT !.pc = "sync"]]
  BY DEF Take, Typed, Types
<1>4. [worker[g] EXCEPT !.pc = "sync"] \in Workers /\ [worker[g] EXCEPT !.pc = "sync"].pc = "sync"
  BY <1>3 DEF Workers
<1>5. queue' = [queue EXCEPT ![g] = Taken(queue[g])]
  BY DEF Take
<1>6. queue' \in [Gens -> Queues(Events)] /\ worker' \in [Gens -> Workers]
  BY <1>2, <1>3, <1>4, <1>5 DEF Typed, Types
<1>7. \A h \in Gens : Handling(h)'
  BY <1>2, <1>3, <1>4, <1>5 DEF Typed, Types, Handling, At
<1> QED BY <1>6, <1>7, WorkerTyped DEF Take, Manned, nic, tables, app, Typed, Types

LEMMA SyncTyped ==
    ASSUME Typed, NEW g \in Gens, SyncAdd(g) \/ SyncUpdate(g) \/ SyncDelete(g)
    PROVE  Typed'
<1> DEFINE e == queue[g].busy
           spec == indexer[g][e.pool]
           old == cache[g][e.net]
           o == Object(e.pool, spec)
<1>1. Manned /\ ~At(g, "idle")
  BY TypedManned DEF SyncAdd, SyncUpdate, SyncDelete, At
<1>2. /\ e.pool \in Pools /\ spec \in Specs \cup {None} /\ old \in Objects \cup {None}
  BY <1>1, HandledTyped
<1>3. spec # None => o \in Objects
  BY <1>2, ObjectTyped
<1>4. UNCHANGED <<ippool, used, listening, feed, tables, app, clients, budget>>
  BY DEF SyncAdd, SyncUpdate, SyncDelete, nic
<1>5. addrs' = addrs \/ (spec # None /\ addrs' = Addressed(o))
  <2>1. SyncAdd(g) => addrs' = addrs \/ (spec # None /\ addrs' = Addressed(o))
    BY DEF SyncAdd
  <2>2. SyncUpdate(g) \/ SyncDelete(g) => addrs' = addrs
    BY DEF SyncUpdate, SyncDelete, nic
  <2> QED BY <2>1, <2>2
<1> DEFINE x == [IdleWorker EXCEPT !.pc = "pool", !.obj = o]
           y == [pc |-> "change", obj |-> o, old |-> old]
           z == [IdleWorker EXCEPT !.pc = "cleanup", !.obj = old]
<1>6. \/ Finish(g)
      \/ spec # None /\ Goto(g, x)
      \/ spec # None /\ old # None /\ Goto(g, y)
      \/ old # None /\ Goto(g, z)
  BY DEF SyncAdd, SyncUpdate, SyncDelete, NotAdded
<1>7. spec # None => x \in Workers /\ x.pc = "pool" /\ x.obj = o
  BY <1>3 DEF IdleWorker, Workers
<1>8. spec # None /\ old # None => y \in Workers /\ y.pc = "change" /\ y.obj = o /\ y.old = old
  BY <1>2, <1>3, WorkersTyped
<1>9. old # None => z \in Workers /\ z.pc = "cleanup" /\ z.obj = old
  BY <1>2, WorkersTyped
<1> HIDE DEF x, y, z, o, e
<1>10. Manned'
  BY <1>1, <1>2, <1>3, <1>6, <1>7, <1>8, <1>9, GotoManned, FinishManned
<1>11. addrs' \in [Pools -> SUBSET {ServerIP[c] : c \in Confs}]
  BY <1>3, <1>5, CallsTyped DEF Typed, Types
<1> QED BY <1>4, <1>10, <1>11, WorkerTyped DEF tables, app, Typed, Types

LEMMA SetUpTyped ==
    ASSUME Typed, NEW g \in Gens, DropPool(g) \/ StartPool(g) \/ ReloadPool(g) \/ CleanupPool(g)
    PROVE  Typed'
<1> DEFINE o == worker[g].obj
<1>1. Manned /\ ~At(g, "idle") /\ worker[g] \in Workers /\ o \in Objects
  BY TypedManned, HandledTyped DEF DropPool, StartPool, ReloadPool, CleanupPool, At
<1>2. CASE DropPool(g)
  <2>1. Manned'
    BY <1>1, <1>2 DEF DropPool, Manned, Handling, At
  <2>2. dhcp' \in [Gens -> [Nets -> Objects \cup {None}]]
    BY <1>1, <1>2, CallsTyped DEF DropPool
  <2> QED BY <1>2, <2>1, <2>2, WorkerTyped DEF DropPool, nic, app, Typed, Types
<1>3. CASE StartPool(g)
  <2>1. PICK pc \in {"cleanup", "status"} : Goto(g, [worker[g] EXCEPT !.pc = pc])
    BY <1>3 DEF StartPool
  <2>2. Manned'
    <3> DEFINE x == [worker[g] EXCEPT !.pc = pc]
    <3>1. x \in Workers /\ x.pc = pc /\ x.obj = o
      BY <1>1 DEF Workers
    <3> HIDE DEF x
    <3>2. Goto(g, x)
      BY <2>1 DEF x
    <3> QED BY <1>1, <3>1, <3>2, GotoManned
  <2>3. subnet' \in [Gens -> [Nets -> Confs \cup {None}]]
    <3>1. subnet' = subnet \/ subnet' = [subnet EXCEPT ![g][o.spec.net] = o.spec.conf]
      BY <1>3 DEF StartPool, Subnetted
    <3>2. [subnet EXCEPT ![g][o.spec.net] = o.spec.conf] \in [Gens -> [Nets -> Confs \cup {None}]]
      BY <1>1, CallsTyped
    <3>3. subnet \in [Gens -> [Nets -> Confs \cup {None}]]
      BY DEF Typed, Types
    <3> QED BY <3>1, <3>2, <3>3
  <2>4. /\ dhcp' \in [Gens -> [Nets -> Objects \cup {None}]] /\ listening' \in [Pools -> SUBSET Gens]
        /\ servers' \in [Gens -> SUBSET Pools]
    BY <1>1, <1>3, CallsTyped DEF StartPool
  <2> QED BY <1>3, <2>2, <2>3, <2>4, WorkerTyped DEF StartPool, app, Typed, Types
<1>4. CASE ReloadPool(g)
  <2>1. Manned'
    BY <1>1, <1>4, FinishManned DEF ReloadPool
  <2>2. /\ dhcp' \in [Gens -> [Nets -> Objects \cup {None}]]
        /\ cache' \in [Gens -> [Nets -> Objects \cup {None}]]
    BY <1>1, <1>4, CallsTyped DEF ReloadPool
  <2> QED BY <1>4, <2>1, <2>2, WorkerTyped DEF ReloadPool, nic, app, Typed, Types
<1>5. CASE CleanupPool(g)
  <2>1. Manned'
    BY <1>1, <1>5, FinishManned DEF CleanupPool
  <2>2. subnet' \in [Gens -> [Nets -> Confs \cup {None}]]
    BY <1>1, <1>5, ObjectFields DEF CleanupPool, Typed, Types
  <2>3. /\ dhcp' \in [Gens -> [Nets -> Objects \cup {None}]]
        /\ cache' \in [Gens -> [Nets -> Objects \cup {None}]]
        /\ listening' \in [Pools -> SUBSET Gens]
        /\ addrs' \in [Pools -> SUBSET {ServerIP[c] : c \in Confs}]
    BY <1>1, <1>5, CallsTyped DEF CleanupPool
  <2> QED BY <1>5, <2>1, <2>2, <2>3, WorkerTyped DEF CleanupPool, app, Typed, Types
<1> QED BY <1>2, <1>3, <1>4, <1>5

LEMMA HandleChangeTyped ==
    ASSUME Typed, NEW g \in Gens, HandleChange(g)
    PROVE  Typed'
<1> DEFINE o   == worker[g].obj
           old == worker[g].old
           x   == [IdleWorker EXCEPT !.pc = "reload", !.obj = o]
<1>1. Manned /\ ~At(g, "idle") /\ o \in Objects /\ old \in Objects
  BY TypedManned, HandledTyped DEF HandleChange, At
<1>2. Finish(g) \/ Goto(g, x)
  BY DEF HandleChange
<1>3. x \in Workers /\ x.pc = "reload" /\ x.obj = o
  BY <1>1 DEF IdleWorker, Workers
<1>4. /\ addrs' = addrs \/ addrs' = Unaddressed(old)
      /\ listening' = listening \/ listening' = Stopped(g, old)
      /\ appStatus' \in {appStatus, "RESTART"}
  BY DEF HandleChange, nic
<1> HIDE DEF x, o, old
<1>5. Manned'
  BY <1>1, <1>2, <1>3, GotoManned, FinishManned
<1>6. addrs' \in [Pools -> SUBSET {ServerIP[c] : c \in Confs}]
  BY <1>1, <1>4, CallsTyped DEF Typed, Types
<1>7. listening' \in [Pools -> SUBSET Gens]
  BY <1>1, <1>4, CallsTyped DEF Typed, Types
<1>8. appStatus' \in {"INIT", "RUNNING", "RESTART"}
  BY <1>4 DEF Typed, Types
<1> QED BY <1>5, <1>6, <1>7, <1>8, WorkerTyped DEF HandleChange, tables, Typed, Types

\* What is the same when only the API, its events and a worker change.
LEMMA WriteTyped ==
    ASSUME Typed, NEW S \in SUBSET Pools, Sent(S), Manned',
           ippool' \in [Pools -> Specs \cup {None}],
           \A p \in Pools \ S : ippool'[p] = ippool[p],
           \A p \in S : ippool'[p] = None => ippool[p] # None,
           used' \subseteq Existing', tenants' \subseteq Pools, packet' = packet,
           UNCHANGED <<nic, informing, indexer, dhcp, subnet, servers, gen, appStatus, target>>,
           Informed',
           cache' \in [Gens -> [Nets -> Objects \cup {None}]],
           leases' \in [Gens -> [Pools -> Nets \cup {None}]],
           current' \in Nat, budget' \in [BudgetKeys -> Nat],
           main' \in {main, "replayed"}
    PROVE  Typed'
<1>1. UNCHANGED <<informing, indexer, gen>> /\ Types /\ Fed
  BY DEF Typed
<1>2. watch' \in [Pools -> Seq(Specs \cup {None})] /\ Fed'
  BY <1>1, SentFed
<1>3. main' \in {"start", "count", "listen", "wait", "replayed", "running", "stop", "cleanup", "reinit"}
  BY DEF Typed, Types
<1>4. Types'
  BY <1>1, <1>2, <1>3 DEF Types, Manned, nic
<1> QED BY <1>2, <1>4 DEF Typed, Manned

\* The status of a pool is reset.
LEMMA ResetTyped ==
    ASSUME Typed, NEW p \in Pools, ippool[p] # None, StatusReset(p)
    PROVE  /\ ippool' \in [Pools -> Specs \cup {None}]
           /\ used' \subseteq Existing'
           /\ Sent({p}) /\ ippool' = ippool
BY DEF StatusReset, Typed, Types, Existing

LEMMA RegisterTyped ==
    ASSUME Typed, NEW g \in Gens, Register(g)
    PROVE  Typed'
<1> DEFINE p == worker[g].obj.name
           new == Object(p, ippool[p])
           x == [worker[g] EXCEPT !.pc = "cleanup"]
<1>1. Manned /\ ~At(g, "idle") /\ worker[g].obj \in Objects /\ worker[g] \in Workers
  BY TypedManned, HandledTyped DEF Register, At
<1>2. x \in Workers /\ x.pc = "cleanup" /\ x.obj = worker[g].obj
  BY <1>1 DEF Workers
<1>3. p \in Pools /\ ippool[p] \in Specs \cup {None}
  BY <1>1, ObjectFields DEF Typed, Types
<1> HIDE DEF x
<1>4. Goto(g, x) \/ Finish(g)
  BY DEF Register, x
<1>5. Manned'
  BY <1>1, <1>2, <1>4, GotoManned, FinishManned
<1>6. CASE ippool[p] = None
  <2>1. UNCHANGED <<ippool, used, watch, cache, current>>
    BY <1>6 DEF Register
  <2>2. UNCHANGED <<nic, informing, indexer, dhcp, subnet, servers, leases, gen, appStatus,
                    target, main, clients, budget>>
    BY DEF Register
  <2> QED BY <1>5, <2>1, <2>2, WorkerTyped DEF feed, nic, Typed, Types
<1>7. CASE ippool[p] # None
  <2>1. /\ StatusReset(p)
        /\ \/ cache' = cache
           \/ cache' = Cached(g, new)
        /\ current' \in {current, current + 1}
    BY <1>7 DEF Register
  <2>2. new \in Objects
    BY <1>3, <1>7, ObjectTyped
  <2>3. cache' \in [Gens -> [Nets -> Objects \cup {None}]]
    <3> HIDE DEF new
    <3> QED BY <2>1, <2>2, CallsTyped DEF Typed, Types
  <2>4. /\ ippool' \in [Pools -> Specs \cup {None}] /\ used' \subseteq Existing'
        /\ Sent({p}) /\ ippool' = ippool
    BY <1>3, <1>7, <2>1, ResetTyped
  <2>5. UNCHANGED <<nic, informing, indexer, dhcp, subnet, servers, leases, gen, appStatus,
                    target, main, tenants, packet, budget>>
    BY DEF Register, clients
  <2>6. Informed' /\ current' \in Nat
    BY <2>1, <2>5 DEF Typed, Types, Informed
  <2> HIDE DEF p, new
  <2> QED BY <1>3, <1>5, <1>7, <2>3, <2>4, <2>5, <2>6, WriteTyped DEF Typed, Types
<1> QED BY <1>6, <1>7

LEMMA WorkTyped ==
    ASSUME Typed, NEW g \in Gens, Work(g)
    PROVE  Typed'
BY TakeTyped, SyncTyped, SetUpTyped, HandleChangeTyped, RegisterTyped DEF Work

-----------------------------------------------------------------------------
(* The types, for the environment.                                         *)

\* The budget that is left.
LEMMA SpendTyped ==
    ASSUME Typed, NEW what \in BudgetKeys, Spend(what)
    PROVE  budget' \in [BudgetKeys -> Nat]
BY DEF Spend, Typed, Types

LEMMA UsersTyped ==
    ASSUME Typed, NEW p \in Pools, CreatePool(p) \/ ChangePool(p) \/ DeletePool(p)
    PROVE  Typed'
<1>1. budget' \in [BudgetKeys -> Nat]
  <2>1. PICK what \in BudgetKeys : Spend(what)
    BY DEF CreatePool, ChangePool, DeletePool, BudgetKeys
  <2> QED BY <2>1, SpendTyped
<1>2. PICK spec \in Choices[p] \cup {None} : /\ Write(p, spec)
                                             /\ spec = None => ippool[p] # None
                                             /\ spec = None => used' = used \ {p}
                                             /\ spec # None => used' = used
  <2> USE PoolValues, EnvironmentAssumption
  <2>1. ASSUME NEW spec \in Choices[p]
        PROVE  spec # None
    BY <2>1
  <2>2. CASE CreatePool(p)
    BY <2>1, <2>2 DEF CreatePool
  <2>3. CASE ChangePool(p)
    BY <2>1, <2>3 DEF ChangePool
  <2>4. CASE DeletePool(p)
    BY <2>4 DEF DeletePool
  <2> QED BY <2>2, <2>3, <2>4
<1>3. spec \in Specs \cup {None}
  BY EnvironmentAssumption
<1>4. /\ ippool' = [ippool EXCEPT ![p] = spec] /\ Sent({p})
      /\ UNCHANGED <<nic, informing, indexer, queue, worker, tables, app, clients>>
  BY <1>2 DEF Write
<1>5. /\ ippool' \in [Pools -> Specs \cup {None}]
      /\ \A q \in Pools \ {p} : ippool'[q] = ippool[q]
      /\ ippool'[p] = None => ippool[p] # None
  BY <1>2, <1>3, <1>4 DEF Typed, Types
<1>6. used' \subseteq Existing'
  BY <1>2, <1>3, <1>4, <1>5 DEF Typed, Types, Existing
<1>7. Manned' /\ Informed'
  BY <1>4, TypedManned DEF Manned, Handling, At, Informed, Typed, app
<1> QED BY <1>1, <1>4, <1>5, <1>6, <1>7, WriteTyped DEF tables, app, clients, Typed, Types

\* The leases of clients of pools that exist.
LEMMA LeasedTyped ==
    ASSUME Typed, NEW S \in SUBSET Existing
    PROVE  Leased(gen, S) \in [Gens -> [Pools -> Nets \cup {None}]]
BY DEF Leased, Existing, Specs, Typed, Types

LEMMA AddTenantTyped ==
    ASSUME Typed, NEW p \in Pools, AddTenant(p)
    PROVE  Typed'
<1>1. budget' \in [BudgetKeys -> Nat]
  BY SpendTyped DEF AddTenant, BudgetKeys
<1>2. {p} \in SUBSET Existing
  BY DEF AddTenant, Existing
<1>3. leases' \in [Gens -> [Pools -> Nets \cup {None}]]
  BY <1>2, LeasedTyped DEF AddTenant
<1>4. used' \subseteq Existing' /\ tenants' \subseteq Pools
  BY <1>2 DEF AddTenant, Existing, Typed, Types
<1>5. Manned' /\ Informed'
  BY TypedManned DEF AddTenant, Manned, Handling, At, Informed, Typed, app
<1> QED BY <1>1, <1>3, <1>4, <1>5, WriteTyped DEF AddTenant, app, Typed, Types

LEMMA StatusErrorTyped ==
    ASSUME Typed, NEW g \in Gens, StatusError(g)
    PROVE  Typed'
<1> DEFINE p == worker[g].obj.name
           x == [worker[g] EXCEPT !.pc = "cleanup"]
<1>1. Manned /\ ~At(g, "idle") /\ worker[g].obj \in Objects /\ worker[g] \in Workers
  BY TypedManned, HandledTyped DEF StatusError, At
<1>2. x \in Workers /\ x.pc = "cleanup" /\ x.obj = worker[g].obj
  BY <1>1 DEF Workers
<1>3. p \in Pools
  BY <1>1, ObjectFields
<1> HIDE DEF x
<1>4. Goto(g, x) /\ budget' \in [BudgetKeys -> Nat]
  <2>1. Goto(g, x)
    BY DEF StatusError, x
  <2>2. budget' \in [BudgetKeys -> Nat]
    BY SpendTyped DEF StatusError, BudgetKeys
  <2> QED BY <2>1, <2>2
<1>5. Manned'
  BY <1>1, <1>2, <1>4, GotoManned
<1>6. UNCHANGED <<nic, informing, indexer, tables, app, clients>>
  BY DEF StatusError
<1>7. Informed'
  BY <1>6 DEF Informed, Typed, app
<1>8. CASE UNCHANGED <<ippool, used, watch>>
  <2>1. Fed'
    BY <1>6, <1>8, SameFed DEF app, Typed
  <2>2. Types'
    BY <1>4, <1>5, <1>6, <1>8 DEF Typed, Types, Manned, Existing, nic, tables, app, clients
  <2> QED BY <1>5, <1>7, <2>1, <2>2 DEF Typed, Manned
<1>9. CASE ippool[p] # None /\ StatusReset(p)
  <2>1. /\ ippool' \in [Pools -> Specs \cup {None}] /\ used' \subseteq Existing'
        /\ Sent({p}) /\ ippool' = ippool
    BY <1>3, <1>9, ResetTyped
  <2> HIDE DEF p
  <2> QED BY <1>3, <1>4, <1>5, <1>6, <1>7, <1>9, <2>1, WriteTyped
          DEF tables, app, clients, Typed, Types
<1> QED BY <1>8, <1>9 DEF StatusError

LEMMA ListenErrorTyped ==
    ASSUME Typed, NEW g \in Gens, ListenError(g)
    PROVE  Typed'
<1> DEFINE x == [worker[g] EXCEPT !.pc = "cleanup"]
<1>1. Manned /\ ~At(g, "idle") /\ worker[g].obj \in Objects /\ worker[g] \in Workers
  BY TypedManned, HandledTyped DEF ListenError, At
<1>2. x \in Workers /\ x.pc = "cleanup" /\ x.obj = worker[g].obj
  BY <1>1 DEF Workers
<1>3. Goto(g, x)
  BY DEF ListenError
<1>4. Manned'
  <2> HIDE DEF x
  <2> QED BY <1>1, <1>2, <1>3, GotoManned
<1>5. dhcp' \in [Gens -> [Nets -> Objects \cup {None}]] /\ budget' \in [BudgetKeys -> Nat]
  BY <1>1, CallsTyped, SpendTyped DEF ListenError, BudgetKeys
<1>6. UNCHANGED <<ippool, used, nic, feed, cache, subnet, servers, leases, app, clients>>
  BY DEF ListenError
<1>7. Fed'
  BY <1>6, SameFed DEF app, feed, Typed
<1>8. Informed'
  BY <1>6 DEF Informed, Typed, app, feed
<1>9. Types'
  BY <1>4, <1>5, <1>6 DEF Typed, Types, Manned, Existing, nic, feed, app, clients
<1> QED BY <1>4, <1>7, <1>8, <1>9 DEF Typed, Manned

LEMMA EmptyTables ==
    /\ NoTable(Nets) \in [Gens -> [Nets -> Objects \cup {None}]]
    /\ NoTable(Nets) \in [Gens -> [Nets -> Confs \cup {None}]]
    /\ NoTable(Pools) \in [Gens -> [Pools -> Nets \cup {None}]]
    /\ NoTable(Pools) \in [Gens -> [Pools -> Specs \cup {None}]]
BY DEF NoTable

LEMMA DieTyped ==
    ASSUME Types, Die, budget' \in [BudgetKeys -> Nat]
    PROVE  Typed'
<1>1. /\ EmptyQueue \in Queues(Events) /\ IdleWorker \in Workers /\ IdleWorker.pc = "idle"
      /\ <<>> \in Seq(Specs \cup {None})
  BY EmptyQueueTyped, EmptySeq DEF IdleWorker, Workers
<1>2. Manned'
  BY <1>1 DEF Die, Manned, Handling, At
<1>3. Fed' /\ Informed'
  BY DEF Die, Fed, Informed
<1>4. used' \subseteq Existing' /\ tenants' \subseteq Pools /\ ippool' \in [Pools -> Specs \cup {None}]
  BY DEF Die, Types, Existing
<1>5. addrs' \in [Pools -> SUBSET {ServerIP[c] : c \in Confs}]
  BY DEF Die, Types
<1>6. /\ cache' \in [Gens -> [Nets -> Objects \cup {None}]]
      /\ dhcp' \in [Gens -> [Nets -> Objects \cup {None}]]
      /\ subnet' \in [Gens -> [Nets -> Confs \cup {None}]]
      /\ leases' \in [Gens -> [Pools -> Nets \cup {None}]]
      /\ indexer' \in [Gens -> [Pools -> Specs \cup {None}]]
  BY EmptyTables DEF Die
<1>7. /\ listening' \in [Pools -> SUBSET Gens] /\ watch' \in [Pools -> Seq(Specs \cup {None})]
      /\ servers' \in [Gens -> SUBSET Pools] /\ gen' \in 0..MaxGen
      /\ current' \in Nat /\ target' \in Nat
  BY <1>1, PoolConstants DEF Die
<1>8. Types'
  BY <1>2, <1>4, <1>5, <1>6, <1>7 DEF Die, Types, Manned
<1> QED BY <1>2, <1>3, <1>8 DEF Typed, Manned

LEMMA InitTyped == Init => Typed
<1> SUFFICES ASSUME Init PROVE Typed
    OBVIOUS
<1>1. /\ EmptyQueue \in Queues(Events) /\ IdleWorker \in Workers /\ IdleWorker.pc = "idle"
      /\ <<>> \in Seq(Specs \cup {None})
  BY EmptyQueueTyped, EmptySeq DEF IdleWorker, Workers
<1>2. Manned
  BY <1>1 DEF Init, Manned, Handling, At
<1>3. Fed /\ Informed
  BY DEF Init, Fed, Informed
<1>4. /\ cache \in [Gens -> [Nets -> Objects \cup {None}]]
      /\ dhcp \in [Gens -> [Nets -> Objects \cup {None}]]
      /\ subnet \in [Gens -> [Nets -> Confs \cup {None}]]
      /\ leases \in [Gens -> [Pools -> Nets \cup {None}]]
      /\ indexer \in [Gens -> [Pools -> Specs \cup {None}]]
  BY EmptyTables DEF Init
<1>5. /\ listening \in [Pools -> SUBSET Gens] /\ watch \in [Pools -> Seq(Specs \cup {None})]
      /\ servers \in [Gens -> SUBSET Pools] /\ gen \in 0..MaxGen
      /\ current \in Nat /\ target \in Nat
  BY <1>1, PoolConstants DEF Init
<1>6. /\ ippool \in [Pools -> Specs \cup {None}] /\ used \subseteq Existing /\ tenants \subseteq Pools
      /\ addrs \in [Pools -> SUBSET {ServerIP[c] : c \in Confs}] /\ budget \in [BudgetKeys -> Nat]
  BY EnvironmentAssumption DEF Init
<1>7. Types
  BY <1>2, <1>4, <1>5, <1>6 DEF Init, Types, Manned
<1> QED BY <1>2, <1>3, <1>7 DEF Typed, Manned

\* What most steps of the main goroutine leave alone.
LEMMA MainMoved ==
    ASSUME Typed, UNCHANGED <<ippool, used, feed, queue, worker, tables, clients>>,
           addrs' \in [Pools -> SUBSET {ServerIP[c] : c \in Confs}],
           listening' \in [Pools -> SUBSET Gens],
           gen' = gen \/ (~informing /\ gen' \in Gens),
           appStatus' \in {"INIT", "RUNNING", "RESTART"},
           current' \in Nat, target' \in Nat,
           main' \in {"count", "listen", "wait", "running", "cleanup", "reinit"},
           main' # "count" => gen' \in Gens,
           informing => main' = "running",
           budget' \in [BudgetKeys -> Nat]
    PROVE  Typed'
<1>1. UNCHANGED <<informing, watch, indexer, cache, dhcp, subnet, servers, leases, tenants, packet>>
  BY DEF feed, tables, clients
<1>2. Manned' /\ Informed'
  BY <1>1, TypedManned DEF Manned, Handling, At, Informed
<1>3. Fed'
  BY <1>1 DEF Typed, Fed, Follows
<1>4. gen' \in 0..MaxGen
  BY DEF Typed, Types, Gens
<1>5. Types'
  BY <1>1, <1>2, <1>4 DEF Typed, Types, Manned, Existing
<1> QED BY <1>2, <1>3, <1>5 DEF Typed, Manned

LEMMA CleanedTyped ==
    ASSUME Typed
    PROVE  /\ CleanedUp \in [Pools -> SUBSET {ServerIP[c] : c \in Confs}]
           /\ Closed \in [Pools -> SUBSET Gens]
BY DEF CleanedUp, Closed, Typed, Types

LEMMA MainTyped ==
    ASSUME Typed, Waiting, Main
    PROVE  Typed'
<1>1. CASE StartProcess \/ CleanNetwork \/ Reinitialize
  <2>1. addrs' \in [Pools -> SUBSET {ServerIP[c] : c \in Confs}]
    BY <1>1, CleanedTyped DEF StartProcess, CleanNetwork, Reinitialize, nic, Typed, Types
  <2>2. main' \in {"count", "reinit"} /\ ~informing /\ (main' = "reinit" => gen \in Gens)
    BY <1>1 DEF StartProcess, CleanNetwork, Reinitialize, Typed, Informed
  <2>3. UNCHANGED <<ippool, used, listening, feed, queue, worker, tables, gen, current, target,
                    clients, budget>> /\ appStatus' \in {appStatus, "INIT"}
    BY <1>1 DEF StartProcess, CleanNetwork, Reinitialize, nic
  <2> QED BY <2>1, <2>2, <2>3, MainMoved DEF Typed, Types
<1>2. CASE CountPools
  <2>1. Cardinality(Existing) \in Nat
    BY PoolValues, FS_Subset, FS_CardinalityType DEF Existing
  <2>2. gen' \in Gens /\ ~informing
    <3>1. gen \in 0..MaxGen /\ gen < MaxGen /\ gen' = gen + 1 /\ MaxGen \in Nat
      BY <1>2, PoolConstants DEF CountPools, Typed, Types
    <3>2. ~informing
      BY <1>2 DEF CountPools, Typed, Informed
    <3> QED BY <3>1, <3>2 DEF Gens
  <2> QED BY <1>2, <2>1, <2>2, MainMoved DEF CountPools, nic, Typed, Types
<1>3. CASE RunServicesDone
  <2>1. gen \in Gens
    BY <1>3 DEF RunServicesDone, Typed, Informed
  <2> QED BY <1>3, <2>1, MainMoved DEF RunServicesDone, nic, Typed, Types
<1>4. CASE StopListeners
  <2>1. CASE Die
    BY <1>4, <2>1, DieTyped DEF StopListeners, Typed, Types
  <2>2. CASE ~Die
    <3>1. gen \in Gens /\ ~informing
      BY <1>4 DEF StopListeners, Typed, Informed
    <3> QED BY <1>4, <2>2, <3>1, CleanedTyped, MainMoved DEF StopListeners, Typed, Types
  <2> QED BY <2>1, <2>2
<1>5. CASE StartListener
  <2> DEFINE E == {[pool |-> p, action |-> "add", net |-> ippool[p].net] : p \in Existing}
  <2>1. gen \in Gens /\ ~informing
    BY <1>5 DEF StartListener, Typed, Informed
  <2>2. E \in SUBSET Events
    BY DEF Events, Existing, Specs, Typed, Types
  <2>3. IsFiniteSet(E)
    <3> DEFINE f == [p \in Existing |-> [pool |-> p, action |-> "add", net |-> ippool[p].net]]
    <3>1. IsFiniteSet(Existing)
      BY PoolValues, FS_Subset DEF Existing
    <3>2. f \in Surjection(Existing, E)
      BY DEF Surjection
    <3> QED BY <3>1, <3>2, FS_Surjection
  <2>4. PICK q \in Listings(E) : queue' = [queue EXCEPT ![gen] = q]
    BY <1>5 DEF StartListener
  <2>5. q \in Queues(Events)
    BY <2>2, <2>3, <2>4, ListingsTyped
  <2> HIDE DEF E
  <2>6. Manned'
    <3>1. worker[gen].pc = "idle"
      BY <1>5, <2>1 DEF StartListener, Waiting, At
    <3>2. worker' = worker
      BY <1>5 DEF StartListener
    <3>3. queue' \in [Gens -> Queues(Events)]
      BY <2>4, <2>5, TypedManned DEF Manned
    <3>4. \A g \in Gens : Handling(g)'
      BY <2>4, <3>1, <3>2, TypedManned DEF Manned, Handling, At
    <3> QED BY <3>2, <3>3, <3>4, TypedManned DEF Manned
  <2>7. Fed' /\ Informed'
    BY <1>5, <2>1 DEF StartListener, Typed, Fed, Follows, Informed, Types
  <2>8. Types'
    BY <1>5, <2>1, <2>6 DEF StartListener, Manned, Typed, Types, Existing, nic, tables, clients
  <2> QED BY <2>6, <2>7, <2>8 DEF Typed, Manned
<1>6. CASE Cancel
  <2>1. watch' = [p \in Pools |-> <<>>] /\ informing' = FALSE /\ gen' = gen /\ main' = "stop"
    BY <1>6 DEF Cancel
  <2>2. UNCHANGED <<ippool, used, nic, indexer, queue, worker, tables, appStatus, current, target,
                    clients, budget>>
    BY <1>6 DEF Cancel
  <2>3. Manned' /\ Fed'
    BY <2>1, <2>2, TypedManned DEF Manned, Handling, At, Fed
  <2>4. Informed'
    BY <1>6, <2>1 DEF Cancel, Typed, Informed
  <2>5. watch' \in [Pools -> Seq(Specs \cup {None})]
    BY <2>1, EmptySeq
  <2>6. Types'
    BY <2>1, <2>2, <2>3, <2>5 DEF Manned, Typed, Types, Existing, nic, tables, clients
  <2> QED BY <2>3, <2>4, <2>6 DEF Typed, Manned
<1>7. CASE Replay
  <2> DEFINE again == {p \in tenants \cap Existing : cache[gen][ippool[p].net] # None}
  <2>1. again \in SUBSET Existing /\ Existing \in SUBSET Pools
    BY DEF Existing
  <2>2. /\ used' = used \cup again /\ Sent(again \ used) /\ leases' = Leased(gen, again)
        /\ ippool' = ippool /\ main = "wait" /\ main' = "replayed"
    BY <1>7 DEF Replay
  <2>3. UNCHANGED <<nic, informing, indexer, queue, worker, cache, dhcp, subnet,
                    servers, gen, appStatus, current, target, clients, budget>>
    BY <1>7 DEF Replay
  <2> HIDE DEF again
  <2>4. leases' \in [Gens -> [Pools -> Nets \cup {None}]]
    BY <2>1, <2>2, LeasedTyped
  <2>5. used' \subseteq Existing' /\ Existing' = Existing
    BY <2>1, <2>2 DEF Typed, Types, Existing
  <2>6. Manned' /\ Informed'
    BY <2>2, <2>3, TypedManned DEF Manned, Handling, At, Typed, Informed
  <2>7. /\ again \ used \in SUBSET Pools
        /\ \A p \in again \ used : ippool[p] # None
    BY <2>1 DEF Existing
  <2> QED BY <2>2, <2>3, <2>4, <2>5, <2>6, <2>7, WriteTyped, PoolValues DEF clients, Typed, Types
<1> QED BY <1>1, <1>2, <1>3, <1>4, <1>5, <1>6, <1>7 DEF Main

\* An event changes the copy of the pool and is queued with a network the pool
\* has or had.
LEMMA DeliverTyped ==
    ASSUME Typed, NEW p \in Pools, Deliver(p)
    PROVE  Typed'
<1> DEFINE new == Head(watch[p])
           old == indexer[gen][p]
           e == [pool   |-> p,
                 action |-> IF new = None THEN "delete" ELSE IF old = None THEN "add" ELSE "update",
                 net    |-> IF new = None THEN old.net ELSE new.net]
<1>1. informing /\ gen \in Gens /\ Follows(p) /\ watch[p] # <<>>
  BY DEF Deliver, Typed, Fed, Informed, Types
<1>2. watch[p] \in Seq(Specs \cup {None}) /\ old \in Specs \cup {None}
  BY <1>1 DEF Typed, Types
<1>3. /\ new = watch[p][1] /\ new \in Specs \cup {None} /\ Tail(watch[p]) \in Seq(Specs \cup {None})
      /\ Len(watch[p]) \in Nat \ {0} /\ Len(Tail(watch[p])) = Len(watch[p]) - 1
      /\ \A i \in 1..(Len(watch[p]) - 1) : Tail(watch[p])[i] = watch[p][i + 1]
  BY <1>1, <1>2, HeadTailProperties, EmptySeq, LenProperties
<1>4. new = None => old # None
  BY <1>1, <1>3 DEF Follows
<1>5. e \in Events
  BY <1>2, <1>3, <1>4 DEF Events, Specs
<1>6. /\ queue' = [queue EXCEPT ![gen] = Enqueued(queue[gen], e)]
      /\ indexer' = [indexer EXCEPT ![gen][p] = new]
      /\ watch' = [watch EXCEPT ![p] = Tail(watch[p])]
      /\ UNCHANGED <<ippool, used, nic, informing, worker, tables, app, clients, budget>>
  BY DEF Deliver
<1> HIDE DEF e, new
<1>7. Manned'
  <2>1. Enqueued(queue[gen], e) \in Queues(Events) /\ Enqueued(queue[gen], e).busy = queue[gen].busy
    BY <1>1, <1>5, EnqueuedTyped DEF Typed, Types
  <2>2. queue' \in [Gens -> Queues(Events)]
    BY <1>6, <2>1, TypedManned DEF Manned
  <2>3. \A g \in Gens : queue'[g].busy = queue[g].busy
    BY <1>6, <2>1, TypedManned DEF Manned
  <2> QED BY <1>6, <2>2, <2>3, TypedManned DEF Manned, Handling, At
<1>8. indexer' \in [Gens -> [Pools -> Specs \cup {None}]] /\ watch' \in [Pools -> Seq(Specs \cup {None})]
  BY <1>1, <1>3, <1>6 DEF Typed, Types
<1>9. indexer'[gen] = [indexer[gen] EXCEPT ![p] = new]
  BY <1>1, <1>6 DEF Typed, Types
<1>10. Follows(p)'
  <2> DEFINE w == watch[p]
             t == Tail(watch[p])
  <2>1. watch'[p] = t /\ indexer'[gen'][p] = new /\ ippool' = ippool /\ gen' = gen
    BY <1>1, <1>6, <1>8, <1>9 DEF app, Typed, Types
  <2>2. /\ w[Len(w)] = ippool[p]
        /\ \A i \in 1..(Len(w) - 1) : w[i + 1] = None => w[i] # None
    BY <1>1 DEF Follows
  <2>3. t = <<>> <=> Len(t) = 0
    BY <1>3, EmptySeq
  <2> HIDE DEF w, t
  <2>4. /\ new = w[1] /\ Len(w) \in Nat \ {0} /\ Len(t) = Len(w) - 1
        /\ \A i \in 1..(Len(w) - 1) : t[i] = w[i + 1]
    BY <1>3 DEF w, t
  <2>5. t = <<>> => new = ippool[p]
    <3>1. t = <<>> => Len(w) = 1
      BY <2>3, <2>4
    <3> QED BY <2>2, <2>4, <3>1
  <2>6. t # <<>> => t[Len(t)] = ippool[p] /\ (t[1] = None => new # None)
    <3> SUFFICES ASSUME t # <<>>
                 PROVE  t[Len(t)] = ippool[p] /\ (t[1] = None => new # None)
      OBVIOUS
    <3>1. Len(w) - 1 \in 1..(Len(w) - 1) /\ 1 \in 1..(Len(w) - 1) /\ Len(w) - 1 + 1 = Len(w)
      BY <2>3, <2>4
    <3>2. t[Len(w) - 1] = w[Len(w)]
      BY <2>4, <3>1
    <3>3. t[1] = w[1 + 1] /\ (w[1 + 1] = None => w[1] # None)
      BY <2>2, <2>4, <3>1
    <3> QED BY <2>2, <2>4, <3>2, <3>3
  <2>7. ASSUME NEW i \in 1..(Len(t) - 1)
        PROVE  t[i + 1] = None => t[i] # None
    <3>1. /\ i \in 1..(Len(w) - 1)
          /\ i + 1 \in 1..(Len(w) - 1)
      BY <2>4
    <3>2. t[i] = w[i + 1] /\ t[i + 1] = w[i + 1 + 1]
      BY <2>4, <3>1
    <3>3. w[i + 1 + 1] = None => w[i + 1] # None
      BY <2>2, <3>1
    <3> QED BY <3>2, <3>3
  <2> QED BY <2>1, <2>5, <2>6, <2>7 DEF Follows
<1>11. \A q \in Pools \ {p} : Follows(q)'
  <2>1. ASSUME NEW q \in Pools \ {p}
        PROVE  watch'[q] = watch[q] /\ indexer'[gen][q] = indexer[gen][q]
    BY <1>1, <1>6, <1>9, <2>1 DEF Typed, Types
  <2> QED BY <1>1, <1>6, <2>1 DEF Follows, app, Typed, Fed
<1>12. Fed' /\ Informed'
  BY <1>1, <1>6, <1>10, <1>11 DEF Typed, Fed, Informed, app
<1>13. Types'
  BY <1>6, <1>7, <1>8 DEF Typed, Types, Manned, Existing, nic, tables, app, clients
<1> QED BY <1>7, <1>12, <1>13 DEF Typed, Manned

LEMMA PacketTyped ==
    ASSUME Typed, Looking, dhcpHandler \/ Ask
    PROVE  Typed' /\ Looking'
<1>1. UNCHANGED <<ippool, used, nic, feed, queue, worker, tables, app, tenants>>
  BY DEF dhcpHandler, ReadLease, CheckPool, ReadPool, Reply, Handle, Ask, Receive
<1>2. budget' \in [BudgetKeys -> Nat]
  <2>1. CASE dhcpHandler
    BY <2>1 DEF dhcpHandler, ReadLease, CheckPool, ReadPool, Reply, Handle, Typed, Types
  <2>2. CASE Ask
    BY <2>2, SpendTyped DEF Ask, BudgetKeys
  <2> QED BY <2>1, <2>2
<1>3. packet \in Packets \cup {NoPacket} /\ (packet.pc # "none" => packet \in Packets)
  BY DEF Typed, Types, NoPacket
<1>4. packet' \in Packets \cup {NoPacket} /\ Looking'
  <2>1. CASE Ask
    <3>1. PICK p \in tenants, g \in Gens :
            /\ g \in listening[p]
            /\ packet' = [pc |-> "lease", gen |-> g, client |-> p, lease |-> None, pool |-> None,
                          asked |-> IF Idle THEN ippool[p] ELSE None]
      BY <2>1 DEF Ask, Receive
    <3>2. p \in Pools /\ ippool[p] \in Specs \cup {None}
      BY DEF Typed, Types
    <3> QED BY <3>1, <3>2 DEF Packets, Looking
  <2>2. CASE ReadLease
    <3>1. packet \in Packets
      BY <1>3, <2>2 DEF ReadLease, InPacket
    <3>2. leases[packet.gen][packet.client] \in Nets \cup {None}
      BY <3>1 DEF Typed, Types, Packets
    <3> QED BY <2>2, <3>1, <3>2 DEF ReadLease, Handle, Packets, Looking, NoPacket
  <2>3. CASE CheckPool
    <3>1. packet \in Packets
      BY <1>3, <2>3 DEF CheckPool, InPacket
    <3> QED BY <2>3, <3>1 DEF CheckPool, InPacket, Handle, Packets, Looking, NoPacket
  <2>4. CASE Reply
    BY <2>4 DEF Reply, Handle, Looking, NoPacket
  <2>5. CASE ReadPool
    <3>1. packet \in Packets /\ packet.pc = "read"
      BY <1>3, <2>5 DEF ReadPool, InPacket
    <3>2. packet.gen \in Gens /\ packet.lease \in Nets
      BY <3>1 DEF Packets, Looking
    <3>3. dhcp[packet.gen][packet.lease] \in Objects \cup {None}
      BY <3>2 DEF Typed, Types
    <3> QED BY <2>5, <3>1, <3>3 DEF ReadPool, Handle, Packets, Looking
  <2> QED BY <2>1, <2>2, <2>3, <2>4, <2>5 DEF dhcpHandler
<1>5. Manned' /\ Fed' /\ Informed'
  BY <1>1, TypedManned DEF Manned, Handling, At, Typed, Fed, Follows, Informed, feed, app
<1>6. Types'
  BY <1>1, <1>2, <1>4, <1>5 DEF Typed, Types, Manned, Existing, nic, feed, tables, app
<1> QED BY <1>4, <1>5, <1>6 DEF Typed, Manned

LEMMA FaultsTyped ==
    ASSUME Typed, Faults
    PROVE  Typed'
<1>1. CASE Crash
  BY <1>1, SpendTyped, DieTyped DEF Crash, BudgetKeys, Typed
<1>2. CASE ListError
  <2>1. budget' \in [BudgetKeys -> Nat] /\ ~informing
    BY <1>2, SpendTyped DEF ListError, BudgetKeys, Typed, Informed
  <2>2. CASE main = "count"
    <3>1. gen' = gen + 1 /\ gen < MaxGen /\ main' = "running" /\ appStatus' = "RUNNING"
      BY <1>2, <2>2 DEF ListError
    <3>2. gen' \in Gens
      BY <3>1, PoolConstants DEF Typed, Types, Gens
    <3> QED BY <1>2, <2>1, <3>1, <3>2, MainMoved DEF ListError, nic, Typed, Types
  <2>3. CASE main # "count"
    <3>1. gen' = gen /\ appStatus' = appStatus /\ main' \in {"count", "cleanup", "reinit"}
      BY <1>2, <2>3 DEF ListError
    <3>2. main' # "count" => gen' \in Gens
      BY <1>2, <2>3 DEF ListError, Typed, Informed
    <3> QED BY <1>2, <2>1, <3>1, <3>2, MainMoved DEF ListError, nic, Typed, Types
  <2> QED BY <2>2, <2>3
<1> QED BY <1>1, <1>2, StatusErrorTyped, ListenErrorTyped DEF Faults

LEMMA NextTyped ==
    ASSUME Typed, Waiting, Looking, [Next]_vars
    PROVE  Typed'
<1>1. CASE UNCHANGED vars
  BY <1>1 DEF vars, nic, feed, tables, app, clients, Typed, Types, Fed, Follows, Informed, Handling,
              At, Existing
<1>2. ASSUME NEW p \in Pools, AddTenant(p) \/ CreatePool(p) \/ ChangePool(p) \/ DeletePool(p)
      PROVE  Typed'
  BY <1>2, UsersTyped, AddTenantTyped
<1>3. ASSUME NEW g \in Gens, Panic(g)
      PROVE  Typed'
  BY <1>3, DieTyped DEF Panic, Typed, Types
<1> QED BY <1>1, <1>2, <1>3, MainTyped, WorkTyped, DeliverTyped, PacketTyped, FaultsTyped
        DEF Next, Users

\* The generations that have no informer yet stay without work.
LEMMA NextWaiting ==
    ASSUME Typed, Waiting, [Next]_vars
    PROVE  Waiting'
<1>1. ASSUME NEW g \in Gens, Work(g) \/ StatusError(g) \/ ListenError(g)
      PROVE  Waiting'
  <2>1. UNCHANGED <<gen, main>>
    BY <1>1 DEF Work, Take, SyncAdd, DropPool, StartPool, Register, SyncUpdate, HandleChange,
                ReloadPool, SyncDelete, CleanupPool, StatusError, ListenError, app
  <2>3. At(g, "idle") => queue[g].items # <<>>
    BY <1>1 DEF Work, Take, SyncAdd, DropPool, StartPool, Register, SyncUpdate, HandleChange,
                ReloadPool, SyncDelete, CleanupPool, StatusError, ListenError, At
  <2>4. EmptyQueue.items = <<>>
    BY DEF EmptyQueue
  <2>2. \A h \in Gens \ {g} : worker'[h] = worker[h] /\ queue'[h] = queue[h]
    BY <1>1 DEF Work, Take, SyncAdd, NotAdded, DropPool, StartPool, Register, SyncUpdate,
                HandleChange, ReloadPool, SyncDelete, CleanupPool, StatusError, ListenError, Goto, Finish,
                Typed, Types
  <2> QED BY <2>1, <2>2, <2>3, <2>4 DEF Waiting, At
<1>2. CASE Die
  BY <1>2 DEF Die, Waiting, At, IdleWorker
<1>3. CASE Main /\ ~Die
  <2>1. CASE StartListener
    <3>1. \A g \in Gens \ {gen} : queue'[g] = queue[g]
      BY <2>1 DEF StartListener, Typed, Types
    <3>2. worker' = worker /\ gen' = gen /\ main' = "wait" /\ gen \in Nat
      BY <2>1 DEF StartListener, Typed, Types
    <3> QED BY <3>1, <3>2 DEF Waiting, At, Gens
  <2>2. CASE CountPools
    <3>1. UNCHANGED <<queue, worker>> /\ gen' = gen + 1 /\ gen \in Nat
      BY <2>2 DEF CountPools, Typed, Types
    <3> QED BY <3>1 DEF Waiting, At, Gens
  <2>3. CASE ~StartListener /\ ~CountPools
    <3>1. UNCHANGED <<queue, worker, gen>> /\ main' # "listen"
      BY <1>3, <2>3 DEF Main, StartProcess, Replay, RunServicesDone, Cancel, StopListeners,
                        CleanNetwork, Reinitialize
    <3> QED BY <3>1 DEF Waiting, At
  <2> QED BY <2>1, <2>2, <2>3
<1>4. ASSUME NEW p \in Pools, Deliver(p)
      PROVE  Waiting'
  <2>1. gen \in Gens /\ main # "listen" /\ watch[p] # <<>>
    BY <1>4 DEF Deliver, Typed, Fed, Informed
  <2>2. UNCHANGED <<worker, gen, main>> /\ \A g \in Gens \ {gen} : queue'[g] = queue[g]
    BY <1>4 DEF Deliver, Typed, Types, app
  <2> QED BY <2>1, <2>2 DEF Waiting, At, Gens
<1>5. ASSUME UNCHANGED <<queue, worker, gen, main>>
      PROVE  Waiting'
  BY <1>5 DEF Waiting, At
<1>6. CASE dhcpHandler \/ Ask \/ Users \/ UNCHANGED vars
  BY <1>5, <1>6 DEF dhcpHandler, ReadLease, CheckPool, ReadPool, Reply, Handle, Ask, Receive, Users,
                    CreatePool, ChangePool, DeletePool, AddTenant, Write, app, vars
<1>7. CASE ListError
  <2>1. UNCHANGED <<queue, worker>> /\ gen' \in {gen, gen + 1} /\ main' # "listen" /\ gen \in Nat
    BY <1>7 DEF ListError, Typed, Types
  <2> QED BY <2>1 DEF Waiting, At, Gens
<1> QED BY <1>1, <1>2, <1>3, <1>4, <1>6, <1>7 DEF Next, Faults, Crash, Panic

LEMMA NextLooking ==
    ASSUME Typed, Looking, [Next]_vars
    PROVE  Looking'
<1>1. CASE dhcpHandler \/ Ask
  BY <1>1, PacketTyped
<1>2. CASE ~(dhcpHandler \/ Ask)
  <2>1. packet' = packet \/ packet' = NoPacket
    BY <1>2 DEF Next, Main, StartProcess, CountPools, StartListener, Replay, RunServicesDone, Cancel,
         StopListeners, CleanNetwork, Reinitialize, Die, Work, Take, SyncAdd, DropPool, StartPool,
         Register, SyncUpdate, HandleChange, ReloadPool, SyncDelete, CleanupPool, Deliver, Users,
         CreatePool, ChangePool, DeletePool, AddTenant, Write, Faults, Crash, Panic, ListError, StatusError, ListenError,
         clients, vars
  <2> QED BY <2>1 DEF Looking, NoPacket
<1> QED BY <1>1, <1>2

\* What every proof below starts from.
Sound == Typed /\ Waiting /\ Looking

LEMMA InitSound == Init => Sound
<1>1. Init => Waiting /\ Looking
  BY DEF Init, Waiting, Looking, At, IdleWorker, NoPacket
<1> QED BY <1>1, InitTyped DEF Sound

LEMMA NextSound ==
    ASSUME Sound, [Next]_vars
    PROVE  Sound'
BY NextTyped, NextWaiting, NextLooking DEF Sound

\* For any pools, networks, configurations and generations every variable has
\* a value of its kind, whatever users do, whenever processes crash and requests
\* fail: no handler reads a map, a queue or a copy that has nothing for it, and
\* only the bound on the generations is a matter of the instance.
THEOREM ApplicationTypes == Spec => [](Spare => TypeOK)
<1>1. Sound => (Spare => TypeOK)
  BY DEF Sound, Typed, TypeOK
<1>2. Sound /\ [Next]_vars => Sound'
  BY NextSound
<1> QED BY <1>1, <1>2, InitSound, PTL DEF Spec

-----------------------------------------------------------------------------
(* What the cache stands for.                                              *)

Tables == Keyed /\ \A g \in Gens : Backing(g)

\* The tables of the other generations.
OnlyAt(g) ==
    \A h \in Gens \ {g} :
      /\ worker'[h] = worker[h] /\ cache'[h] = cache[h] /\ dhcp'[h] = dhcp[h]
      /\ subnet'[h] = subnet[h] /\ servers'[h] = servers[h]

LEMMA WorkOnly ==
    ASSUME Typed, NEW g \in Gens, Work(g) \/ StatusError(g) \/ ListenError(g)
    PROVE  OnlyAt(g)
<1>1. \A h \in Gens \ {g} : worker'[h] = worker[h]
  BY DEF Work, Take, SyncAdd, NotAdded, DropPool, StartPool, Register, SyncUpdate, HandleChange,
         ReloadPool, SyncDelete, CleanupPool, StatusError, ListenError, Goto, Finish, Typed, Types
<1>2. \A h \in Gens \ {g} : dhcp'[h] = dhcp[h] /\ subnet'[h] = subnet[h]
  BY DEF Work, Take, SyncAdd, DropPool, StartPool, Register, SyncUpdate, HandleChange,
         ReloadPool, SyncDelete, CleanupPool, StatusError, ListenError, Subnetted, Pooled, Unpooled,
         Typed, Types, tables
<1>3. \A h \in Gens \ {g} : cache'[h] = cache[h] /\ servers'[h] = servers[h]
  BY DEF Work, Take, SyncAdd, DropPool, StartPool, Register, SyncUpdate, HandleChange, Run,
         ReloadPool, SyncDelete, CleanupPool, StatusError, ListenError, Cached, Uncached, Typed,
         Types, tables
<1> QED BY <1>1, <1>2, <1>3 DEF OnlyAt

\* Nothing else touches the tables, but for a crash, which empties them.
LEMMA OthersTables ==
    ASSUME Typed, [Next]_vars,
           \A g \in Gens : ~(Work(g) \/ StatusError(g) \/ ListenError(g))
    PROVE  \/ UNCHANGED <<worker, cache, dhcp, subnet, servers>>
           \/ Die
BY DEF Next, Main, StartProcess, CountPools, StartListener, Replay, RunServicesDone, Cancel,
       StopListeners, CleanNetwork, Reinitialize, Deliver, dhcpHandler, ReadLease, CheckPool,
       ReadPool, Reply, Handle, Ask, Receive, Users, CreatePool, ChangePool, DeletePool, AddTenant,
       Write, Faults, Crash, Panic, ListError, tables, vars

\* One step of a worker, in the tables of its generation.
LEMMA WorkTables ==
    ASSUME Sound, Tables, Undisturbed, NEW g \in Gens, Work(g) \/ StatusError(g) \/ ListenError(g)
    PROVE  /\ \A n \in Nets : cache'[g][n] # None => cache'[g][n].spec.net = n
           /\ Backing(g)'
<1> DEFINE w == worker[g]
           o == w.obj
           C == cache[g]
           D == dhcp[g]
           N == subnet[g]
           e == queue[g].busy
<1>1. /\ w \in Workers /\ Typed /\ Backing(g) /\ \A n \in Nets : C[n] # None => C[n].spec.net = n
      /\ w.pc \notin {"idle", "sync"} => /\ o \in Objects /\ o.name \in Pools /\ o.spec \in Specs
                                         /\ o.spec.net \in Nets /\ o.spec.conf \in Confs
      /\ w.pc = "change" => w.old \in Objects /\ w.old # None /\ w.old.spec.net \in Nets
  BY HandledTyped, ObjectFields, PoolValues DEF Sound, Tables, Keyed, At
<1>2. /\ worker \in [Gens -> Workers] /\ cache \in [Gens -> [Nets -> Objects \cup {None}]]
      /\ dhcp \in [Gens -> [Nets -> Objects \cup {None}]]
      /\ subnet \in [Gens -> [Nets -> Confs \cup {None}]]
      /\ C \in [Nets -> Objects \cup {None}] /\ D \in [Nets -> Objects \cup {None}]
      /\ N \in [Nets -> Confs \cup {None}]
  BY <1>1 DEF Typed, Types
<1>3. IdleWorker.pc = "idle" /\ (Finish(g) => worker'[g] = IdleWorker)
  BY <1>2 DEF IdleWorker, Finish
<1>4. \A x : Goto(g, x) => worker'[g] = x
  BY <1>2 DEF Goto
<1>5. CASE Take(g)
  <2>1. worker'[g] = [w EXCEPT !.pc = "sync"] /\ w.pc = "idle" /\ UNCHANGED <<cache, dhcp, subnet>>
    BY <1>2, <1>5 DEF Take, At, tables
  <2>2. worker'[g].pc = "sync"
    BY <1>1, <2>1 DEF Workers
  <2> QED BY <1>1, <2>1, <2>2 DEF Backing, Backed
<1>6. CASE SyncAdd(g) \/ SyncDelete(g)
  <2>1. w.pc = "sync" /\ UNCHANGED <<cache, dhcp, subnet>>
    BY <1>6 DEF SyncAdd, SyncDelete, At, tables
  <2>2. worker'[g].pc \in {"idle", "pool", "cleanup"}
    BY <1>3, <1>4, <1>6 DEF SyncAdd, SyncDelete, NotAdded, IdleWorker
  <2> QED BY <1>1, <2>1, <2>2 DEF Backing, Backed
<1>7. CASE SyncUpdate(g)
  <2>1. w.pc = "sync" /\ UNCHANGED <<cache, dhcp, subnet>>
    BY <1>7 DEF SyncUpdate, At, tables
  <2>2. \/ worker'[g].pc = "idle"
        \/ worker'[g].pc = "change" /\ worker'[g].old = C[e.net] /\ C[e.net] # None
    BY <1>3, <1>4, <1>7 DEF SyncUpdate
  <2>3. e.net \in Nets
    BY <1>1, <2>1, HandledTyped DEF At
  <2> QED BY <1>1, <2>1, <2>2, <2>3 DEF Backing, Backed
<1>8. CASE HandleChange(g)
  <2>1. w.pc = "change" /\ UNCHANGED <<cache, dhcp, subnet>>
    BY <1>8 DEF HandleChange, At, tables
  <2>2. \/ worker'[g].pc = "idle"
        \/ worker'[g].pc = "reload" /\ worker'[g].obj = o /\ ~NeedsRestart(w.old, o)
    BY <1>3, <1>4, <1>8 DEF HandleChange, IdleWorker
  <2>3. C[w.old.spec.net] = w.old /\ N[w.old.spec.net] = w.old.spec.conf
    BY <1>1, <2>1 DEF Backing, Backed
  <2> QED BY <1>1, <2>1, <2>2, <2>3 DEF Backing, Backed, NeedsRestart
<1>9. CASE DropPool(g)
  <2>1. w.pc \in {"pool", "reload"} /\ UNCHANGED <<worker, cache, subnet>>
    BY <1>9 DEF DropPool, At
  <2>2. dhcp'[g] = [D EXCEPT ![o.spec.net] = None]
    BY <1>2, <1>9 DEF DropPool, Unpooled
  <2> QED BY <1>1, <1>2, <2>1, <2>2 DEF Backing, Backed
<1>10. CASE StartPool(g) \/ ListenError(g)
  <2> DEFINE set == [N EXCEPT ![o.spec.net] = o.spec.conf]
  <2>1. w.pc = "pool" /\ cache' = cache /\ dhcp'[g] = [D EXCEPT ![o.spec.net] = o]
    BY <1>2, <1>10 DEF StartPool, ListenError, At, Pooled
  <2>2. \/ worker'[g] = [w EXCEPT !.pc = "cleanup"] /\ subnet'[g] \in {N, set}
        \/ worker'[g] = [w EXCEPT !.pc = "status"] /\ subnet'[g] = set
    BY <1>2, <1>4, <1>10 DEF StartPool, ListenError, Subnetted
  <2>3. /\ worker'[g].obj = o /\ subnet'[g] \in {N, set}
        /\ \/ worker'[g].pc = "cleanup"
           \/ worker'[g].pc = "status" /\ subnet'[g] = set
    BY <1>1, <2>2 DEF Workers
  <2>4. \A n \in Nets \ {o.spec.net} : Backed(g, n)'
    <3>1. \A n \in Nets \ {o.spec.net} : dhcp'[g][n] = D[n] /\ subnet'[g][n] = N[n]
      BY <1>1, <1>2, <2>1, <2>3
    <3> QED BY <1>1, <2>1, <3>1 DEF Backing, Backed
  <2>5. worker'[g].pc = "status" => /\ dhcp'[g][o.spec.net] = o
                                    /\ subnet'[g][o.spec.net] = o.spec.conf
    BY <1>1, <1>2, <2>1, <2>3
  <2>6. Backing(g)'
    BY <2>3, <2>4, <2>5 DEF Backing
  <2> QED BY <1>1, <2>1, <2>6
<1>11. CASE Register(g) \/ StatusError(g)
  <2> DEFINE new == Object(o.name, ippool[o.name])
  <2>1. w.pc = "status" /\ UNCHANGED <<dhcp, subnet>>
    BY <1>11 DEF Register, StatusError, At, tables
  <2>2. [w EXCEPT !.pc = "cleanup"].pc = "cleanup" /\ [w EXCEPT !.pc = "cleanup"].obj = o
    BY <1>1 DEF Workers
  <2>3. \/ worker'[g].pc = "cleanup" /\ worker'[g].obj = o /\ cache' = cache
        \/ /\ worker'[g].pc = "idle" /\ cache' = Cached(g, new)
           /\ ippool[o.name] # None
    BY <1>3, <1>4, <1>11, <2>2 DEF Register, StatusError, tables
  <2>4. CASE worker'[g].pc = "cleanup" /\ worker'[g].obj = o /\ cache' = cache
    BY <1>1, <2>1, <2>4 DEF Backing, Backed
  <2>5. CASE worker'[g].pc = "idle" /\ cache' = Cached(g, new) /\ ippool[o.name] # None
    <3>1. new = o
      BY <1>1, <2>1, <2>5 DEF Undisturbed, At, Object, Objects
    <3>2. cache'[g] = [C EXCEPT ![o.spec.net] = o]
      BY <1>2, <2>5, <3>1 DEF Cached
    <3>3. ASSUME NEW n \in Nets
          PROVE  /\ cache'[g][n] # None => cache'[g][n].spec.net = n
                 /\ Backed(g, n)'
      <4>1. CASE n = o.spec.net
        BY <1>1, <1>2, <2>1, <3>2, <4>1 DEF Backing, Backed
      <4>2. CASE n # o.spec.net
        BY <1>1, <1>2, <2>1, <3>2, <4>2 DEF Backing, Backed
      <4> QED BY <4>1, <4>2
    <3>4. worker'[g].pc = "idle"
      BY <2>5
    <3> QED BY <3>3, <3>4 DEF Backing, Backed
  <2> QED BY <2>3, <2>4, <2>5
<1>12. CASE ReloadPool(g)
  <2>1. w.pc = "reload" /\ subnet' = subnet /\ worker'[g] = IdleWorker
    BY <1>3, <1>12 DEF ReloadPool, At
  <2>2. dhcp'[g] = [D EXCEPT ![o.spec.net] = o] /\ cache'[g] = [C EXCEPT ![o.spec.net] = o]
    BY <1>2, <1>12 DEF ReloadPool, Pooled, Cached
  <2> QED BY <1>1, <1>2, <1>3, <2>1, <2>2 DEF Backing, Backed
<1>13. CASE CleanupPool(g)
  <2>1. w.pc = "cleanup" /\ worker'[g] = IdleWorker
    BY <1>3, <1>13 DEF CleanupPool, At
  <2>2. /\ dhcp'[g] = [D EXCEPT ![o.spec.net] = None] /\ cache'[g] = [C EXCEPT ![o.spec.net] = None]
        /\ subnet'[g] = [N EXCEPT ![o.spec.net] = None]
    BY <1>2, <1>13 DEF CleanupPool, Unpooled, Uncached
  <2> QED BY <1>1, <1>2, <1>3, <2>1, <2>2 DEF Backing, Backed
<1> QED BY <1>5, <1>6, <1>7, <1>8, <1>9, <1>10, <1>11, <1>12, <1>13 DEF Work

LEMMA NextTables ==
    ASSUME Sound, Tables, Undisturbed, [Next]_vars
    PROVE  Tables'
<1>1. ASSUME NEW g \in Gens, Work(g) \/ StatusError(g) \/ ListenError(g)
      PROVE  Tables'
  <2>1. OnlyAt(g)
    BY <1>1, WorkOnly DEF Sound
  <2>2. /\ \A n \in Nets : cache'[g][n] # None => cache'[g][n].spec.net = n
        /\ Backing(g)'
    BY <1>1, WorkTables
  <2>3. \A h \in Gens \ {g} : /\ Backing(h)'
                              /\ \A n \in Nets : cache'[h][n] # None => cache'[h][n].spec.net = n
    BY <2>1 DEF OnlyAt, Tables, Keyed, Backing, Backed
  <2> QED BY <2>2, <2>3 DEF Tables, Keyed
<1>2. CASE UNCHANGED <<worker, cache, dhcp, subnet, servers>>
  BY <1>2 DEF Tables, Keyed, Backing, Backed
<1>3. CASE Die
  BY <1>3 DEF Die, Tables, Keyed, Backing, Backed, NoTable, IdleWorker
<1> QED BY <1>1, <1>2, <1>3, OthersTables DEF Sound, Typed

LEMMA InitTables == Init => Tables
BY DEF Init, Tables, Keyed, Backing, Backed, NoTable, IdleWorker

LEMMA TablesBacked == Tables => CacheBacked
BY DEF Tables, Backing, Backed, CacheBacked, At

\* A pool in the cache is always one the DHCP server and ipam know in the same
\* form, through failed registrations, reloads, restarts, old workers that are
\* still at work and crashes, unless a pool is changed while it is registered:
\* that the registration caches the pool as it reads it back is the only way
\* they come apart.
THEOREM CacheBackedHolds == Spec /\ []Undisturbed => []CacheBacked
<1>1. Init => Sound /\ Tables
  BY InitSound, InitTables
<1>2. Sound /\ Tables /\ Undisturbed /\ [Next]_vars => Sound' /\ Tables'
  BY NextSound, NextTables
<1> QED BY <1>1, <1>2, TablesBacked, PTL DEF Spec

-----------------------------------------------------------------------------
(* What a pool can be.                                                     *)

LEMMA GivenEvents ==
    /\ Fitting \in SUBSET Events
    /\ \A p \in Pools : Choices[p] \in SUBSET Specs /\ None \notin Choices[p]
BY EnvironmentAssumption, PoolValues DEF Fitting

\* What is sent to the informer was given to the pool.
LEMMA SentGiven ==
    ASSUME Chosen, NEW S \in SUBSET Pools, Sent(S), \A p \in S : ippool'[p] \in Given(p)
    PROVE  \A p \in Pools : watch'[p] \in Seq(Given(p))
<1>1. \A p \in Pools : watch'[p] = IF informing /\ p \in S THEN Append(watch[p], ippool'[p]) ELSE watch[p]
  BY DEF Sent
<1>2. ASSUME NEW p \in Pools
      PROVE  watch'[p] \in Seq(Given(p))
  <2>1. watch[p] \in Seq(Given(p))
    BY DEF Chosen
  <2>2. p \in S => Append(watch[p], ippool'[p]) \in Seq(Given(p))
    BY <2>1, AppendProperties
  <2> QED BY <1>1, <2>1, <2>2
<1> QED BY <1>2

\* The parts of a generation.
ChosenAt(g) ==
    /\ queue[g] \in Queues(Fitting)
    /\ ~At(g, "idle") => queue[g].busy \in Fitting
    /\ worker[g].pc \notin {"idle", "sync"} => Made(worker[g].obj)
    /\ \A n \in Nets : cache[g][n] # None => Made(cache[g][n])

ChosenPools ==
    \A p \in Pools : /\ ippool[p] \in Given(p) /\ watch[p] \in Seq(Given(p))
                     /\ \A g \in Gens : indexer[g][p] \in Given(p)

\* The event is done with.
LEMMA FinishChosen ==
    ASSUME Sound, Chosen, NEW g \in Gens, Finish(g), ~At(g, "idle"),
           \A n \in Nets : cache'[g][n] # None => Made(cache'[g][n])
    PROVE  ChosenAt(g)'
<1>1. Completed(queue[g]) \in Queues(Fitting)
  BY CompletedTyped DEF Chosen
<1>2. queue'[g] = Completed(queue[g]) /\ worker'[g].pc = "idle"
  BY DEF Finish, Sound, Typed, Types, IdleWorker
<1> QED BY <1>1, <1>2 DEF ChosenAt, At

\* The worker goes on, with an object users made.
LEMMA GotoChosen ==
    ASSUME Sound, Chosen, NEW g \in Gens, NEW x, Goto(g, x), ~At(g, "idle"), Made(x.obj),
           \A n \in Nets : cache'[g][n] # None => Made(cache'[g][n])
    PROVE  ChosenAt(g)'
<1>1. queue' = queue /\ worker'[g] = x
  BY DEF Goto, Sound, Typed, Types
<1> QED BY <1>1 DEF Chosen, ChosenAt, At

\* A worker takes an event or does without one.
LEMMA WorkChosen ==
    ASSUME Sound, Chosen, NEW g \in Gens, Work(g) \/ StatusError(g) \/ ListenError(g)
    PROVE  ChosenAt(g)'
<1> DEFINE w == worker[g]
           o == w.obj
           C == cache[g]
           e == queue[g].busy
           spec == indexer[g][e.pool]
<1>1. /\ Typed /\ w \in Workers /\ C \in [Nets -> Objects \cup {None}] /\ queue[g] \in Queues(Events)
      /\ cache \in [Gens -> [Nets -> Objects \cup {None}]]
  BY DEF Sound, Typed, Types
<1>2. \A n \in Nets : C[n] # None => Made(C[n])
  BY DEF Chosen
<1>3. w.pc # "idle" => /\ e \in Fitting /\ e.pool \in Pools /\ e.net \in Nets /\ spec \in Given(e.pool)
  BY GivenEvents, HandledTyped DEF Chosen, Sound, At
<1>4. w.pc \notin {"idle", "sync"} => Made(o) /\ o \in Objects /\ o.name \in Pools /\ o.spec.net \in Nets
  BY HandledTyped, ObjectFields DEF Chosen, Sound
<1>5. CASE Take(g)
  <2>1. queue[g] \in Queues(Fitting) /\ queue[g].items # <<>> /\ w.pc = "idle"
    BY <1>5 DEF Take, Chosen, At
  <2>2. Taken(queue[g]) \in Queues(Fitting) /\ Taken(queue[g]).busy \in Fitting
    BY <2>1, TakenTyped
  <2>3. queue'[g] = Taken(queue[g]) /\ worker'[g] = [w EXCEPT !.pc = "sync"] /\ cache' = cache
    BY <1>5 DEF Take, tables, Sound, Typed, Types
  <2>4. worker'[g].pc = "sync"
    BY <1>1, <2>3 DEF Workers
  <2> QED BY <1>2, <2>2, <2>3, <2>4 DEF ChosenAt, At
<1>6. CASE SyncAdd(g) \/ SyncUpdate(g) \/ SyncDelete(g)
  <2>1. w.pc = "sync" /\ cache' = cache /\ ~At(g, "idle")
    BY <1>6 DEF SyncAdd, SyncUpdate, SyncDelete, At, tables
  <2>2. \/ Finish(g)
        \/ spec # None /\ Goto(g, [IdleWorker EXCEPT !.pc = "pool", !.obj = Object(e.pool, spec)])
        \/ spec # None /\ Goto(g, [pc |-> "change", obj |-> Object(e.pool, spec), old |-> C[e.net]])
        \/ C[e.net] # None /\ Goto(g, [IdleWorker EXCEPT !.pc = "cleanup", !.obj = C[e.net]])
    BY <1>6 DEF SyncAdd, SyncUpdate, SyncDelete, NotAdded
  <2>3. spec # None => Made(Object(e.pool, spec))
    BY <1>3, <2>1 DEF Given, Made, Object
  <2>4. C[e.net] # None => Made(C[e.net])
    BY <1>2, <1>3, <2>1
  <2>5. /\ [IdleWorker EXCEPT !.pc = "pool", !.obj = Object(e.pool, spec)].obj = Object(e.pool, spec)
        /\ [pc |-> "change", obj |-> Object(e.pool, spec), old |-> C[e.net]].obj = Object(e.pool, spec)
        /\ [IdleWorker EXCEPT !.pc = "cleanup", !.obj = C[e.net]].obj = C[e.net]
    BY DEF IdleWorker
  <2> QED BY <1>2, <2>1, <2>2, <2>3, <2>4, <2>5, FinishChosen, GotoChosen
<1>7. CASE HandleChange(g)
  <2>1. w.pc = "change" /\ cache' = cache /\ ~At(g, "idle")
    BY <1>7 DEF HandleChange, At, tables
  <2>2. \/ Finish(g)
        \/ Goto(g, [IdleWorker EXCEPT !.pc = "reload", !.obj = o])
    BY <1>7 DEF HandleChange
  <2>3. [IdleWorker EXCEPT !.pc = "reload", !.obj = o].obj = o
    BY DEF IdleWorker
  <2> QED BY <1>2, <1>4, <2>1, <2>2, <2>3, FinishChosen, GotoChosen
<1>8. CASE DropPool(g)
  <2>1. UNCHANGED <<queue, worker, cache>>
    BY <1>8 DEF DropPool
  <2> QED BY <2>1 DEF ChosenAt, Chosen, At
<1>9. CASE StartPool(g) \/ StatusError(g) \/ ListenError(g)
  <2>1. w.pc \in {"pool", "status"} /\ cache' = cache /\ ~At(g, "idle")
    BY <1>9 DEF StartPool, StatusError, ListenError, At, tables
  <2>2. PICK pc \in {"cleanup", "status"} : Goto(g, [w EXCEPT !.pc = pc])
    BY <1>9 DEF StartPool, StatusError, ListenError
  <2>3. [w EXCEPT !.pc = pc].obj = o
    BY <1>1 DEF Workers
  <2> QED BY <1>2, <1>4, <2>1, <2>2, <2>3, GotoChosen
<1>10. CASE Register(g)
  <2> DEFINE new == Object(o.name, ippool[o.name])
  <2>1. w.pc = "status" /\ ~At(g, "idle")
    BY <1>10 DEF Register, At
  <2>2. \/ cache' = cache
        \/ ippool[o.name] # None /\ cache' = Cached(g, new)
    BY <1>10 DEF Register
  <2>3. ippool[o.name] # None => Made(new)
    BY <1>4, <2>1 DEF Chosen, Given, Made, Object
  <2> HIDE DEF new
  <2>4. \A n \in Nets : cache'[g][n] # None => Made(cache'[g][n])
    BY <1>1, <1>2, <2>2, <2>3 DEF Cached
  <2>5. Finish(g) \/ Goto(g, [w EXCEPT !.pc = "cleanup"])
    BY <1>10 DEF Register
  <2>6. [w EXCEPT !.pc = "cleanup"].obj = o
    BY <1>1 DEF Workers
  <2> QED BY <1>4, <2>1, <2>4, <2>5, <2>6, FinishChosen, GotoChosen
<1>11. CASE ReloadPool(g) \/ CleanupPool(g)
  <2>1. w.pc \in {"reload", "cleanup"} /\ ~At(g, "idle") /\ Finish(g)
    BY <1>11 DEF ReloadPool, CleanupPool, At
  <2>2. cache' = Cached(g, o) \/ cache' = Uncached(g, o.spec.net)
    BY <1>11 DEF ReloadPool, CleanupPool
  <2>3. \A n \in Nets : cache'[g][n] # None => Made(cache'[g][n])
    BY <1>1, <1>2, <1>4, <2>1, <2>2 DEF Cached, Uncached
  <2> QED BY <2>1, <2>3, FinishChosen
<1> QED BY <1>5, <1>6, <1>7, <1>8, <1>9, <1>10, <1>11 DEF Work

\* The API and its events, for the steps that write to it.
LEMMA WorkPools ==
    ASSUME Sound, Chosen, NEW g \in Gens, Work(g) \/ StatusError(g) \/ ListenError(g)
    PROVE  ChosenPools'
<1>1. indexer' = indexer /\ ippool' = ippool
  BY DEF Work, Take, SyncAdd, DropPool, StartPool, Register, StatusReset, SyncUpdate, HandleChange,
         ReloadPool, SyncDelete, CleanupPool, StatusError, ListenError, feed
<1>2. watch' = watch \/ \E p : Sent({p}) /\ p \in Pools
  <2>1. CASE ~At(g, "status")
    BY <2>1 DEF Work, Take, SyncAdd, DropPool, StartPool, Register, SyncUpdate, HandleChange,
                ReloadPool, SyncDelete, CleanupPool, StatusError, ListenError, feed
  <2>2. CASE At(g, "status")
    <3>1. worker[g].obj.name \in Pools
      BY <2>2, HandledTyped, ObjectFields DEF Sound, At
    <3>2. watch' = watch \/ Sent({worker[g].obj.name})
      BY <2>2 DEF Work, Take, SyncAdd, DropPool, StartPool, Register, StatusReset, SyncUpdate,
                  HandleChange, ReloadPool, SyncDelete, CleanupPool, StatusError, ListenError, feed, At
    <3> QED BY <3>1, <3>2
  <2> QED BY <2>1, <2>2
<1>3. \A p \in Pools : ippool'[p] \in Given(p)
  BY <1>1 DEF Chosen
<1>4. \A p \in Pools : watch'[p] \in Seq(Given(p))
  BY <1>2, <1>3, SentGiven DEF Chosen
<1> QED BY <1>1, <1>3, <1>4 DEF ChosenPools, Chosen

LEMMA OthersChosen ==
    ASSUME Sound, Chosen, [Next]_vars, \A g \in Gens : ~(Work(g) \/ StatusError(g) \/ ListenError(g))
    PROVE  Chosen'
<1>1. CASE Die
  <2>1. EmptyQueue \in Queues(Fitting) /\ \A p \in Pools : <<>> \in Seq(Given(p))
    BY EmptyQueueTyped, EmptySeq
  <2> QED BY <1>1, <2>1 DEF Die, Chosen, NoTable, IdleWorker, Given, At
<1>2. CASE StartListener
  <2> DEFINE E == {[pool |-> p, action |-> "add", net |-> ippool[p].net] : p \in Existing}
  <2>1. E \in SUBSET Fitting
    <3>1. ASSUME NEW p \in Existing
          PROVE  [pool |-> p, action |-> "add", net |-> ippool[p].net] \in Fitting
      <4>1. p \in Pools /\ ippool[p] \in Choices[p]
        BY DEF Existing, Chosen, Given
      <4>2. ippool[p].net \in Nets /\ ippool[p].net \in NetsOf(p)
        BY <4>1, GivenEvents DEF NetsOf, Specs
      <4> QED BY <4>1, <4>2 DEF Fitting, Events
    <3> QED BY <3>1
  <2>2. IsFiniteSet(E)
    <3> DEFINE f == [p \in Existing |-> [pool |-> p, action |-> "add", net |-> ippool[p].net]]
    <3>1. IsFiniteSet(Existing)
      BY PoolValues, FS_Subset DEF Existing
    <3>2. f \in Surjection(Existing, E)
      BY DEF Surjection
    <3> QED BY <3>1, <3>2, FS_Surjection
  <2>3. PICK q \in Listings(E) : queue' = [queue EXCEPT ![gen] = q]
    BY <1>2 DEF StartListener
  <2>4. q \in Queues(Fitting)
    BY <2>1, <2>2, <2>3, ListingsTyped
  <2> HIDE DEF E
  <2>5. /\ gen \in Gens /\ worker[gen].pc = "idle" /\ gen' = gen
        /\ UNCHANGED <<ippool, watch, worker, cache>> /\ indexer' = [indexer EXCEPT ![gen] = ippool]
    BY <1>2 DEF StartListener, Sound, Typed, Informed, Waiting, At, tables
  <2>6. \A g \in Gens : ChosenAt(g)'
    BY <2>3, <2>4, <2>5 DEF Chosen, ChosenAt, At, Sound, Typed, Types
  <2>7. ChosenPools'
    BY <2>5 DEF Chosen, ChosenPools, Sound, Typed, Types
  <2> QED BY <2>6, <2>7 DEF Chosen, ChosenPools, ChosenAt
<1>3. ASSUME NEW p \in Pools, Deliver(p)
      PROVE  Chosen'
  <2> DEFINE new == Head(watch[p])
             old == indexer[gen][p]
             e == [pool   |-> p,
                   action |-> IF new = None THEN "delete" ELSE IF old = None THEN "add" ELSE "update",
                   net    |-> IF new = None THEN old.net ELSE new.net]
  <2>1. watch[p] # <<>> /\ gen \in Gens /\ Follows(p)
    BY <1>3 DEF Deliver, Sound, Typed, Fed, Informed, Types
  <2>2. watch[p] \in Seq(Given(p)) /\ old \in Given(p)
    BY <2>1 DEF Chosen
  <2>3. new \in Given(p) /\ Tail(watch[p]) \in Seq(Given(p)) /\ new = watch[p][1]
    BY <2>1, <2>2, HeadTailProperties
  <2>4. new = None => old # None
    BY <2>1, <2>3 DEF Follows
  <2>5. e \in Fitting
    BY <2>2, <2>3, <2>4, GivenEvents DEF Fitting, Events, NetsOf, Given, Specs
  <2>6. /\ queue' = [queue EXCEPT ![gen] = Enqueued(queue[gen], e)]
        /\ indexer' = [indexer EXCEPT ![gen][p] = new] /\ watch' = [watch EXCEPT ![p] = Tail(watch[p])]
        /\ UNCHANGED <<ippool, worker, cache>>
    BY <1>3 DEF Deliver, tables
  <2> HIDE DEF e, new
  <2>7. Enqueued(queue[gen], e) \in Queues(Fitting) /\ Enqueued(queue[gen], e).busy = queue[gen].busy
    BY <2>1, <2>5, EnqueuedTyped DEF Chosen
  <2>8. \A g \in Gens : ChosenAt(g)'
    BY <2>1, <2>6, <2>7 DEF Chosen, ChosenAt, At, Sound, Typed, Types
  <2>9. ChosenPools'
    BY <2>1, <2>3, <2>6 DEF Chosen, ChosenPools, Sound, Typed, Types
  <2> QED BY <2>8, <2>9 DEF Chosen, ChosenPools, ChosenAt
<1>4. ASSUME NEW p \in Pools, CreatePool(p) \/ ChangePool(p) \/ DeletePool(p)
      PROVE  Chosen'
  <2>1. PICK spec \in Given(p) : Write(p, spec)
    BY <1>4 DEF CreatePool, ChangePool, DeletePool, Given
  <2>2. ippool' = [ippool EXCEPT ![p] = spec] /\ Sent({p}) /\ UNCHANGED <<indexer, queue, worker, cache>>
    BY <2>1 DEF Write, tables
  <2>3. \A q \in Pools : ippool'[q] \in Given(q)
    BY <2>1, <2>2 DEF Chosen, Sound, Typed, Types
  <2>4. \A q \in Pools : watch'[q] \in Seq(Given(q))
    BY <2>2, <2>3, SentGiven
  <2> QED BY <2>2, <2>3, <2>4 DEF Chosen, At
<1>5. CASE Replay \/ \E p \in Pools : AddTenant(p)
  <2>1. PICK S \in SUBSET Pools : Sent(S)
    <3>1. CASE Replay
      BY <1>5, <3>1 DEF Replay, Existing, Sound, Typed, Types
    <3>2. ASSUME NEW p \in Pools, AddTenant(p)
          PROVE  \E S \in SUBSET Pools : Sent(S)
      BY <3>2 DEF AddTenant
    <3> QED BY <1>5, <3>1, <3>2
  <2>2. UNCHANGED <<ippool, indexer, queue, worker, cache>>
    BY <1>5 DEF Replay, AddTenant
  <2>3. \A q \in Pools : watch'[q] \in Seq(Given(q))
    BY <2>1, <2>2, SentGiven DEF Chosen
  <2> QED BY <2>2, <2>3 DEF Chosen, At
<1>6. CASE Cancel
  <2>1. \A p \in Pools : <<>> \in Seq(Given(p))
    BY EmptySeq
  <2>2. watch' = [p \in Pools |-> <<>>] /\ UNCHANGED <<ippool, indexer, queue, worker, cache>>
    BY <1>6 DEF Cancel, tables
  <2> QED BY <2>1, <2>2 DEF Chosen, At
<1>7. ASSUME UNCHANGED <<ippool, watch, indexer, queue, worker, cache>>
      PROVE  Chosen'
  BY <1>7 DEF Chosen, At
<1>8. CASE \/ StartProcess \/ CountPools \/ RunServicesDone \/ (StopListeners /\ ~Die) \/ CleanNetwork
           \/ Reinitialize \/ dhcpHandler \/ Ask \/ ListError \/ UNCHANGED vars
  BY <1>7, <1>8 DEF StartProcess, CountPools, RunServicesDone, StopListeners, CleanNetwork,
                    Reinitialize, dhcpHandler, ReadLease, CheckPool, ReadPool, Reply, Handle, Ask,
                    Receive, ListError, feed, tables, vars
<1> QED BY <1>1, <1>2, <1>3, <1>4, <1>5, <1>6, <1>8 DEF Next, Main, Users, Faults, Crash, Panic

LEMMA NextChosen ==
    ASSUME Sound, Chosen, [Next]_vars
    PROVE  Chosen'
<1>1. ASSUME NEW g \in Gens, Work(g) \/ StatusError(g) \/ ListenError(g)
      PROVE  Chosen'
  <2>1. ChosenAt(g)' /\ ChosenPools'
    BY <1>1, WorkChosen, WorkPools
  <2>2. \A h \in Gens \ {g} : ChosenAt(h)'
    <3>1. OnlyAt(g)
      BY <1>1, WorkOnly DEF Sound
    <3>2. \A h \in Gens \ {g} : queue'[h] = queue[h]
      BY <1>1 DEF Work, Take, SyncAdd, NotAdded, DropPool, StartPool, Register, SyncUpdate,
                  HandleChange, ReloadPool, SyncDelete, CleanupPool, StatusError, ListenError, Goto, Finish,
                  Sound, Typed, Types
    <3> QED BY <3>1, <3>2 DEF OnlyAt, ChosenAt, Chosen, At
  <2> QED BY <2>1, <2>2 DEF Chosen, ChosenPools, ChosenAt
<1> QED BY <1>1, OthersChosen

LEMMA InitChosen == Init => Chosen
<1>1. EmptyQueue \in Queues(Fitting) /\ \A p \in Pools : <<>> \in Seq(Given(p))
  BY EmptyQueueTyped, EmptySeq
<1> QED BY <1>1 DEF Init, Chosen, NoTable, IdleWorker, Given, At

-----------------------------------------------------------------------------
(* The servers a clean-up closes.                                          *)

\* No two pools are ever for the same network.
OwnNetworks == \A p, q \in Pools : p # q => NetsOf(p) \cap NetsOf(q) = {}

Serving == Keyed /\ WithServer /\ budget["listen"] <= Budget["listen"]

\* What the environment may still do only gets less.
LEMMA SpentListens ==
    ASSUME Sound, Serving, [Next]_vars
    PROVE  /\ budget'["listen"] <= Budget["listen"]
           /\ Unheard => Unheard'
           /\ \A g \in Gens : ListenError(g) => Unheard'
<1>1. /\ budget \in [BudgetKeys -> Nat] /\ Budget["listen"] \in Nat /\ budget["listen"] \in Nat
      /\ budget["listen"] <= Budget["listen"]
  BY EnvironmentAssumption DEF Sound, Typed, Types, BudgetKeys, Serving
<1>2. ASSUME NEW k \in BudgetKeys, Spend(k)
      PROVE  /\ budget'["listen"] <= budget["listen"]
             /\ k = "listen" => budget'["listen"] < budget["listen"]
  BY <1>1, <1>2 DEF Spend, BudgetKeys
<1>3. budget' = budget \/ \E k \in BudgetKeys : Spend(k)
  BY DEF Next, Main, StartProcess, CountPools, StartListener, Replay, RunServicesDone, Cancel,
         StopListeners, CleanNetwork, Reinitialize, Work, Take, SyncAdd, DropPool, StartPool,
         Register, SyncUpdate, HandleChange, ReloadPool, SyncDelete, CleanupPool, Panic, Deliver,
         dhcpHandler, ReadLease, CheckPool, ReadPool, Reply, Handle, Ask, Users, CreatePool,
         ChangePool, DeletePool, AddTenant, Faults, Crash, ListError, StatusError, ListenError,
         BudgetKeys, vars
<1>4. budget'["listen"] <= budget["listen"] /\ budget'["listen"] \in Nat
  BY <1>1, <1>2, <1>3 DEF Spend, BudgetKeys
<1>5. ASSUME NEW g \in Gens, ListenError(g)
      PROVE  budget'["listen"] < budget["listen"]
  BY <1>2, <1>5 DEF ListenError, BudgetKeys
<1> QED BY <1>1, <1>4, <1>5 DEF Unheard

LEMMA WorkServing ==
    ASSUME OwnNetworks, Sound, Chosen, Serving, NEW g \in Gens, Work(g) \/ StatusError(g)
    PROVE  /\ \A n \in Nets : cache'[g][n] # None => /\ cache'[g][n].spec.net = n
                                                     /\ cache'[g][n].name \in servers'[g]
           /\ \/ worker'[g].pc \in {"status", "change", "reload"}
              \/ worker'[g].pc = "cleanup" /\ ~Unheard
              => worker'[g].obj.name \in servers'[g]
<1> DEFINE w == worker[g]
           o == w.obj
           C == cache[g]
           e == queue[g].busy
           spec == indexer[g][e.pool]
<1>1. /\ Typed /\ w \in Workers /\ C \in [Nets -> Objects \cup {None}]
      /\ cache \in [Gens -> [Nets -> Objects \cup {None}]]
      /\ worker \in [Gens -> Workers] /\ servers \in [Gens -> SUBSET Pools]
  BY DEF Sound, Typed, Types
<1>2. /\ \A n \in Nets : C[n] # None => C[n].spec.net = n /\ C[n].name \in servers[g] /\ Made(C[n])
      /\ w.pc \in {"status", "change", "reload"} => o.name \in servers[g]
  BY DEF Serving, Keyed, WithServer, Chosen
<1>3. w.pc # "idle" => /\ e \in Fitting /\ e.pool \in Pools /\ e.net \in Nets /\ spec \in Given(e.pool)
  BY GivenEvents, HandledTyped DEF Chosen, Sound, At
<1>4. w.pc \notin {"idle", "sync"} => o \in Objects /\ o.name \in Pools /\ o.spec.net \in Nets
  BY HandledTyped, ObjectFields DEF Sound
<1>5. IdleWorker.pc = "idle" /\ (Finish(g) => worker'[g] = IdleWorker)
  BY <1>1 DEF IdleWorker, Finish
<1>6. \A x : Goto(g, x) => worker'[g] = x
  BY <1>1 DEF Goto
<1>7. CASE Take(g) \/ DropPool(g)
  <2>1. UNCHANGED <<cache, servers>>
    BY <1>7 DEF Take, DropPool, tables
  <2>2. worker'[g].pc = "sync" \/ (worker' = worker /\ w.pc \in {"pool", "reload"})
    BY <1>1, <1>7 DEF Take, DropPool, Workers, At
  <2> QED BY <1>2, <2>1, <2>2
<1>8. CASE SyncAdd(g) \/ SyncDelete(g)
  <2>1. w.pc = "sync" /\ UNCHANGED <<cache, servers>>
    BY <1>8 DEF SyncAdd, SyncDelete, At, tables
  <2>2. \/ worker'[g].pc \in {"idle", "pool"}
        \/ C[e.net] # None /\ worker'[g].obj = C[e.net]
    BY <1>5, <1>6, <1>8 DEF SyncAdd, SyncDelete, NotAdded, IdleWorker
  <2> QED BY <1>2, <1>3, <2>1, <2>2
<1>9. CASE SyncUpdate(g)
  <2>1. w.pc = "sync" /\ UNCHANGED <<cache, servers>>
    BY <1>9 DEF SyncUpdate, At, tables
  <2>2. \/ worker'[g].pc = "idle"
        \/ C[e.net] # None /\ worker'[g].obj = Object(e.pool, spec)
    BY <1>5, <1>6, <1>9 DEF SyncUpdate
  <2>3. ASSUME C[e.net] # None
        PROVE  e.pool = C[e.net].name
    <3>1. e.net \in NetsOf(e.pool) /\ e.pool \in Pools
      BY <1>3, <2>1 DEF Fitting
    <3>2. C[e.net].spec \in Choices[C[e.net].name] /\ C[e.net].spec.net = e.net /\ C[e.net].name \in Pools
      BY <1>1, <1>2, <1>3, <2>1, <2>3 DEF Made
    <3>3. e.net \in NetsOf(C[e.net].name)
      BY <3>2 DEF NetsOf
    <3> QED BY <3>1, <3>2, <3>3 DEF OwnNetworks
  <2>4. Object(e.pool, spec).name = e.pool
    BY DEF Object
  <2> QED BY <1>2, <1>3, <2>1, <2>2, <2>3, <2>4
<1>10. CASE HandleChange(g)
  <2>1. w.pc = "change" /\ UNCHANGED <<cache, servers>>
    BY <1>10 DEF HandleChange, At, tables
  <2>2. worker'[g].pc = "idle" \/ worker'[g].obj = o
    BY <1>5, <1>6, <1>10 DEF HandleChange, IdleWorker
  <2> QED BY <1>2, <2>1, <2>2
<1>11. CASE StartPool(g)
  <2>1. w.pc = "pool" /\ cache' = cache /\ servers'[g] = servers[g] \cup {o.name}
    BY <1>1, <1>11 DEF StartPool, Run, At
  <2>2. worker'[g] = [w EXCEPT !.pc = "cleanup"] \/ worker'[g] = [w EXCEPT !.pc = "status"]
    BY <1>6, <1>11 DEF StartPool
  <2>3. worker'[g].obj = o
    BY <1>1, <2>2 DEF Workers
  <2> QED BY <1>2, <2>1, <2>3
<1>12. CASE Register(g) \/ StatusError(g)
  <2> DEFINE new == Object(o.name, ippool[o.name])
  <2>1. w.pc = "status" /\ servers' = servers
    BY <1>12 DEF Register, StatusError, At, tables
  <2>2. [w EXCEPT !.pc = "cleanup"].obj = o
    BY <1>1 DEF Workers
  <2>3. worker'[g].pc = "idle" \/ worker'[g].obj = o
    BY <1>5, <1>6, <1>12, <2>2 DEF Register, StatusError
  <2>4. cache' = cache \/ cache' = Cached(g, new)
    BY <1>12 DEF Register, StatusError, tables
  <2>5. new.name = o.name
    BY DEF Object
  <2> HIDE DEF new
  <2> QED BY <1>1, <1>2, <2>1, <2>3, <2>4, <2>5 DEF Cached
<1>13. CASE ReloadPool(g) \/ CleanupPool(g)
  <2>1. w.pc \in {"reload", "cleanup"} /\ servers' = servers /\ worker'[g] = IdleWorker
    BY <1>5, <1>13 DEF ReloadPool, CleanupPool, At
  <2>2. (w.pc = "reload" /\ cache' = Cached(g, o)) \/ cache' = Uncached(g, o.spec.net)
    BY <1>13 DEF ReloadPool, CleanupPool, At
  <2>3. CASE w.pc = "reload" /\ cache' = Cached(g, o)
    <3>1. cache'[g] = [C EXCEPT ![o.spec.net] = o]
      BY <1>1, <2>3 DEF Cached
    <3> QED BY <1>1, <1>2, <1>4, <1>5, <2>1, <2>3, <3>1
  <2>4. CASE cache' = Uncached(g, o.spec.net)
    <3>1. cache'[g] = [C EXCEPT ![o.spec.net] = None]
      BY <1>1, <2>4 DEF Uncached
    <3> QED BY <1>1, <1>2, <1>4, <1>5, <2>1, <3>1
  <2> QED BY <2>2, <2>3, <2>4
<1> QED BY <1>7, <1>8, <1>9, <1>10, <1>11, <1>12, <1>13 DEF Work

LEMMA NextServing ==
    ASSUME OwnNetworks, Sound, Chosen, Serving, [Next]_vars
    PROVE  Serving'
<1> DEFINE Right(g) ==
      /\ \A n \in Nets : cache[g][n] # None => /\ cache[g][n].spec.net = n
                                               /\ cache[g][n].name \in servers[g]
      /\ \/ worker[g].pc \in {"status", "change", "reload"}
         \/ worker[g].pc = "cleanup" /\ ~Unheard
         => worker[g].obj.name \in servers[g]
<1>1. /\ budget'["listen"] <= Budget["listen"]
      /\ Unheard => Unheard'
      /\ \A g \in Gens : ListenError(g) => Unheard'
  BY SpentListens
<1>2. \A g \in Gens : Right(g)
  BY DEF Serving, Keyed, WithServer
<1>3. ASSUME \A g \in Gens : Right(g)'
      PROVE  Serving'
  BY <1>1, <1>3 DEF Serving, Keyed, WithServer
<1>4. ASSUME NEW g \in Gens, Work(g) \/ StatusError(g) \/ ListenError(g)
      PROVE  Serving'
  <2>1. \A h \in Gens \ {g} : Right(h)'
    <3>1. OnlyAt(g)
      BY <1>4, WorkOnly DEF Sound
    <3> QED BY <1>1, <1>2, <3>1 DEF OnlyAt
  <2>2. CASE Work(g) \/ StatusError(g)
    <3>1. Right(g)'
      BY <1>1, <2>2, WorkServing
    <3> QED BY <1>3, <2>1, <3>1
  <2>3. CASE ListenError(g)
    <3>1. UNCHANGED <<cache, servers>> /\ worker'[g] = [worker[g] EXCEPT !.pc = "cleanup"]
      BY <2>3 DEF ListenError, Goto, Sound, Typed, Types
    <3>2. worker'[g].pc = "cleanup"
      BY <3>1 DEF Sound, Typed, Types, Workers
    <3>3. Right(g)'
      BY <1>1, <1>2, <2>3, <3>1, <3>2
    <3> QED BY <1>3, <2>1, <3>3
  <2> QED BY <1>4, <2>2, <2>3
<1>5. CASE UNCHANGED <<worker, cache, dhcp, subnet, servers>>
  BY <1>1, <1>2, <1>3, <1>5
<1>6. CASE Die
  BY <1>3, <1>6 DEF Die, NoTable, IdleWorker
<1> QED BY <1>4, <1>5, <1>6, OthersTables DEF Sound

LEMMA InitServing == Init => Serving
BY EnvironmentAssumption DEF Init, Serving, Keyed, WithServer, NoTable, IdleWorker, BudgetKeys

\* With a network of its own for every pool, and as long as every socket could
\* be opened, no clean-up closes a server that was never started, whatever else
\* fails in a registration, whichever events an old worker still handles and
\* whenever pools are changed, deleted and made again.  A socket that cannot be
\* opened is what breaks it: see CleanupPossible.
THEOREM NoNilServerHolds == ASSUME OwnNetworks PROVE Spec => []NoNilServer
<1>1. Init => Sound /\ Chosen /\ Serving
  BY InitSound, InitChosen, InitServing
<1>2. Sound /\ Chosen /\ Serving /\ [Next]_vars => Sound' /\ Chosen' /\ Serving'
  BY NextSound, NextChosen, NextServing
<1>3. Serving => NoNilServer
  BY EnvironmentAssumption DEF Serving, WithServer, Unheard, NoNilServer, CleanupPossible, At,
     BudgetKeys
<1> QED BY <1>1, <1>2, <1>3, PTL DEF Spec

\* When a pool that is deleted and made again is configured as before, no pool
\* is changed while it is registered, and the cache and the tables of the DHCP
\* server and ipam never come apart.
THEOREM CacheBackedUnchanging ==
    ASSUME \A p \in Pools : \A s, t \in Choices[p] : s = t
    PROVE  Spec => []CacheBacked
<1>1. Chosen /\ Sound => Undisturbed
  <2> SUFFICES ASSUME Chosen, Sound, NEW g \in Gens, At(g, "status")
               PROVE  ippool[worker[g].obj.name] \in {None, worker[g].obj.spec}
    BY DEF Undisturbed
  <2>1. worker[g].obj.name \in Pools /\ Made(worker[g].obj)
    BY HandledTyped, ObjectFields DEF Chosen, Sound, At
  <2> QED BY <2>1 DEF Chosen, Made, Given
<1>2. Init => Sound /\ Chosen /\ Tables
  BY InitSound, InitChosen, InitTables
<1>3. Sound /\ Chosen /\ Tables /\ [Next]_vars => Sound' /\ Chosen' /\ Tables'
  BY <1>1, NextSound, NextChosen, NextTables
<1> QED BY <1>2, <1>3, TablesBacked, PTL DEF Spec

-----------------------------------------------------------------------------
(* The listeners of two generations, while no pool is deleted and no       *)
(* request fails.                                                          *)

KeptPools == \A k \in {"delete", "fail"} : Budget[k] = 0

Unspent == \A k \in {"delete", "fail"} : budget[k] = 0

\* The additions that wait in a queue, each of another pool.
Additions(q) == {i \in DOMAIN q.items : q.items[i].action = "add"}

Distinct(q) == \A i, j \in Additions(q) : q.items[i].pool = q.items[j].pool => i = j

PoolsAdded(q) == {q.items[i].pool : i \in Additions(q)}

\* The pool whose addition is handled in generation g.
Handled(g) == {p \in Pools : ~At(g, "idle") /\ queue[g].busy.action = "add" /\ queue[g].busy.pool = p}

\* The pools that may still get a listener of generation g.
Pending(g) == PoolsAdded(queue[g]) \cup {p \in Handled(g) : worker[g].pc \in {"sync", "pool"}}

\* The pools the informer of generation g has seen.
Known(g) == {p \in Pools : indexer[g][p] # None}

\* A pool is added once in a generation, and has no server before.
Once(g) ==
    /\ Distinct(queue[g])
    /\ PoolsAdded(queue[g]) \cap Handled(g) = {}
    /\ At(g, "idle") => queue[g].busy = NoEvent /\ ~queue[g].again
    /\ queue[g].again => queue[g].busy.action # "add"
    /\ worker[g].pc \in {"pool", "status"} =>
         queue[g].busy.action = "add" /\ worker[g].obj.name = queue[g].busy.pool
    /\ Pending(g) \cap servers[g] = {}
    /\ PoolsAdded(queue[g]) \cup Handled(g) \cup servers[g] \subseteq Known(g)

\* No pool goes away, and the informer of a generation finds none before it runs.
Staying ==
    /\ \A p \in Pools : \A i \in DOMAIN watch[p] : watch[p][i] # None
    /\ \A g \in Gens : Known(g) \subseteq Existing
    /\ \A g \in Gens : (g > gen \/ (g = gen /\ main = "listen")) => Known(g) = {}

\* Only the generation that runs listens, or will do so.
Active(g) == g = gen /\ main \in {"wait", "replayed", "running", "stop"}

Listening ==
    /\ \A g \in Gens : Pending(g) # {} => Active(g)
    /\ \A p \in Pools : listening[p] # {} => p \in Existing
    /\ \A p \in Pools : \A g \in listening[p] : Active(g)

OneByOne == Unspent /\ Staying /\ Listening /\ \A g \in Gens : Once(g)

\* What the operations of a queue do to the additions in it.
LEMMA AppendAdditions ==
    ASSUME NEW q \in Queues(Events), NEW r \in Queues(Events), NEW e \in Events, e.action # "add",
           r.items = Append(q.items, e), Distinct(q)
    PROVE  Distinct(r) /\ PoolsAdded(r) = PoolsAdded(q)
<1>1. q.items \in Seq(Events)
  BY DEF Queues
<1>2. /\ DOMAIN r.items = 1..(Len(q.items) + 1) /\ DOMAIN q.items = 1..Len(q.items)
      /\ Len(q.items) \in Nat
      /\ \A i \in 1..Len(q.items) : r.items[i] = q.items[i]
      /\ r.items[Len(q.items) + 1] = e
  BY <1>1, AppendProperties, LenProperties
<1>3. Additions(r) = Additions(q) /\ \A i \in Additions(q) : r.items[i] = q.items[i]
  BY <1>2 DEF Additions
<1>4. Distinct(r)
  BY <1>3 DEF Distinct
<1>5. PoolsAdded(r) = PoolsAdded(q)
  BY <1>3 DEF PoolsAdded
<1> QED BY <1>4, <1>5

LEMMA EnqueuedAdditions ==
    ASSUME NEW q \in Queues(Events), NEW e \in Events, e.action # "add", Distinct(q)
    PROVE  /\ Enqueued(q, e) \in Queues(Events) /\ Enqueued(q, e).busy = q.busy
           /\ Distinct(Enqueued(q, e)) /\ PoolsAdded(Enqueued(q, e)) = PoolsAdded(q)
           /\ Enqueued(q, e).again => q.again \/ q.busy = e
<1>1. Enqueued(q, e) \in Queues(Events) /\ Enqueued(q, e).busy = q.busy
  BY EnqueuedTyped
<1>2. \/ Enqueued(q, e).items = q.items
      \/ Enqueued(q, e).items = Append(q.items, e)
  BY DEF Enqueued, Queues
<1>3. Enqueued(q, e).again => q.again \/ q.busy = e
  BY DEF Enqueued, Queues
<1>4. CASE Enqueued(q, e).items = q.items
  BY <1>1, <1>3, <1>4 DEF Distinct, PoolsAdded, Additions
<1>5. CASE Enqueued(q, e).items = Append(q.items, e)
  BY <1>1, <1>3, <1>5, AppendAdditions
<1> QED BY <1>2, <1>4, <1>5

LEMMA CompletedAdditions ==
    ASSUME NEW q \in Queues(Events), q.busy \in Events, q.again => q.busy.action # "add", Distinct(q)
    PROVE  /\ Completed(q) \in Queues(Events)
           /\ Completed(q).busy = NoEvent /\ ~Completed(q).again
           /\ Distinct(Completed(q)) /\ PoolsAdded(Completed(q)) = PoolsAdded(q)
<1>1. Completed(q) \in Queues(Events)
  BY CompletedTyped
<1>2. /\ Completed(q).busy = NoEvent /\ ~Completed(q).again
      /\ q.again => Completed(q).items = Append(q.items, q.busy)
      /\ ~q.again => Completed(q).items = q.items
  BY DEF Completed, Queues
<1>3. CASE q.again
  BY <1>1, <1>2, <1>3, AppendAdditions
<1>4. CASE ~q.again
  BY <1>1, <1>2, <1>4 DEF Distinct, PoolsAdded, Additions
<1> QED BY <1>3, <1>4

LEMMA TakenAdditions ==
    ASSUME NEW q \in Queues(Events), q.items # <<>>, Distinct(q)
    PROVE  /\ Taken(q) \in Queues(Events) /\ Taken(q).busy \in Events /\ Taken(q).again = q.again
           /\ Distinct(Taken(q))
           /\ PoolsAdded(q) = PoolsAdded(Taken(q)) \cup
                                {p \in {Taken(q).busy.pool} : Taken(q).busy.action = "add"}
           /\ Taken(q).busy.action = "add" => Taken(q).busy.pool \notin PoolsAdded(Taken(q))
<1> DEFINE s == q.items
           t == Tail(s)
<1>1. /\ Taken(q) \in Queues(Events) /\ Taken(q).busy \in Events /\ Taken(q).again = q.again
      /\ Taken(q).items = t /\ Taken(q).busy = Head(s) /\ s \in Seq(Events)
  BY TakenTyped DEF Taken, Queues
<1>2. /\ DOMAIN s = 1..Len(s) /\ DOMAIN t = 1..(Len(s) - 1) /\ Len(s) \in Nat \ {0}
      /\ Head(s) = s[1] /\ \A i \in 1..(Len(s) - 1) : t[i] = s[i + 1]
  BY <1>1, HeadTailProperties, LenProperties, EmptySeq
<1> HIDE DEF s, t
<1>3. \A i : i \in Additions(Taken(q)) <=> i + 1 \in Additions(q) /\ i \in 1..(Len(s) - 1)
  BY <1>1, <1>2 DEF Additions, s
<1>4. \A i \in Additions(Taken(q)) : /\ i \in Nat /\ i + 1 # 1 /\ i + 1 \in Additions(q)
                                      /\ Taken(q).items[i].pool = q.items[i + 1].pool
  BY <1>1, <1>2, <1>3 DEF s
<1>5. Taken(q).busy = q.items[1] /\ (1 \in Additions(q) <=> Taken(q).busy.action = "add")
  BY <1>1, <1>2 DEF Additions, s
<1>6. \A i \in Additions(q) : i = 1 \/ (i - 1 \in Additions(Taken(q)) /\ Taken(q).items[i - 1].pool = q.items[i].pool)
  BY <1>1, <1>2, <1>3 DEF Additions, s
<1>7. Distinct(Taken(q))
  BY <1>4 DEF Distinct
<1>8. Taken(q).busy.action = "add" => Taken(q).busy.pool \notin PoolsAdded(Taken(q))
  BY <1>4, <1>5 DEF Distinct, PoolsAdded
<1>9. PoolsAdded(q) = PoolsAdded(Taken(q)) \cup {p \in {Taken(q).busy.pool} : Taken(q).busy.action = "add"}
  BY <1>4, <1>5, <1>6 DEF PoolsAdded
<1> QED BY <1>1, <1>7, <1>8, <1>9

\* A new addition waits behind the others.
LEMMA AddedAdditions ==
    ASSUME NEW q \in Queues(Events), NEW e \in Events, e.action = "add", Distinct(q),
           e.pool \notin PoolsAdded(q), q.busy # e
    PROVE  /\ Enqueued(q, e) \in Queues(Events) /\ Enqueued(q, e).busy = q.busy
           /\ Enqueued(q, e).again = q.again
           /\ Distinct(Enqueued(q, e)) /\ PoolsAdded(Enqueued(q, e)) = PoolsAdded(q) \cup {e.pool}
<1> DEFINE r == Enqueued(q, e)
           n == Len(q.items)
<1>1. r \in Queues(Events) /\ r.busy = q.busy
  BY EnqueuedTyped
<1>2. q.items \in Seq(Events) /\ n \in Nat /\ DOMAIN q.items = 1..n
  BY LenProperties DEF Queues
<1>3. ~ \E i \in 1..Len(q.items) : q.items[i] = e
  BY <1>2 DEF PoolsAdded, Additions
<1>4. r.items = Append(q.items, e) /\ r.again = q.again
  BY <1>3 DEF Enqueued, Queues
<1>5. /\ DOMAIN r.items = 1..(n + 1) /\ r.items[n + 1] = e
      /\ \A i \in 1..n : r.items[i] = q.items[i]
  BY <1>2, <1>4, AppendProperties, LenProperties
<1> HIDE DEF r, n
<1>6. /\ Additions(r) = Additions(q) \cup {n + 1}
      /\ \A i \in Additions(q) : i # n + 1 /\ r.items[i] = q.items[i]
  BY <1>2, <1>5 DEF Additions
<1>7. \A i \in Additions(q) : q.items[i].pool # e.pool
  BY DEF PoolsAdded
<1>8. Distinct(r)
  BY <1>5, <1>6, <1>7 DEF Distinct
<1>9. PoolsAdded(r) = PoolsAdded(q) \cup {e.pool}
  BY <1>5, <1>6 DEF PoolsAdded
<1> QED BY <1>1, <1>4, <1>8, <1>9 DEF r

\* The event is done with, and so is the addition it may have been.
LEMMA FinishOnce ==
    ASSUME Sound, NEW g \in Gens, Once(g), Finish(g), ~At(g, "idle"), UNCHANGED <<indexer, servers>>
    PROVE  Once(g)' /\ Pending(g)' \subseteq Pending(g)
<1> DEFINE q == queue[g]
<1>1. q \in Queues(Events) /\ q.busy \in Events
  BY DEF Sound, Typed, Types, Handling
<1>2. queue'[g] = Completed(q) /\ worker'[g].pc = "idle"
  BY DEF Finish, Sound, Typed, Types, IdleWorker
<1>3. /\ Completed(q).busy = NoEvent /\ ~Completed(q).again
      /\ Distinct(Completed(q)) /\ PoolsAdded(Completed(q)) = PoolsAdded(q)
  BY <1>1, CompletedAdditions DEF Once
<1> HIDE DEF q
<1>4. Handled(g)' = {} /\ Pending(g)' = PoolsAdded(q)
  BY <1>2, <1>3 DEF Handled, Pending, At
<1>5. PoolsAdded(q) \subseteq Pending(g) /\ PoolsAdded(q) \cup servers[g] \subseteq Known(g)
  BY DEF Pending, Once, q
<1>6. Pending(g)' \cap servers'[g] = {} /\ Known(g)' = Known(g)
  BY <1>4, <1>5 DEF Once, Known
<1>7. Distinct(queue[g])' /\ PoolsAdded(queue[g])' = PoolsAdded(q)
  BY <1>2, <1>3
<1> QED BY <1>2, <1>3, <1>4, <1>5, <1>6, <1>7 DEF Once, At

\* The worker goes on with its event; a pool that gets a server is not pending
\* any more.
LEMMA GotoOnce ==
    ASSUME Sound, NEW g \in Gens, Once(g), NEW x, Goto(g, x), ~At(g, "idle"), x.pc # "idle",
           x.pc \in {"pool", "status"} => queue[g].busy.action = "add" /\ x.obj.name = queue[g].busy.pool,
           x.pc = "pool" => At(g, "sync"), x.pc # "sync", UNCHANGED indexer,
           servers' = servers \/ (x.pc # "pool" /\ servers'[g] \subseteq servers[g] \cup Handled(g))
    PROVE  Once(g)' /\ Pending(g)' \subseteq Pending(g)
<1>1. queue' = queue /\ worker'[g] = x
  BY DEF Goto, Sound, Typed, Types
<1>2. /\ Handled(g)' = Handled(g) /\ PoolsAdded(queue[g])' = PoolsAdded(queue[g])
      /\ Distinct(queue[g])' = Distinct(queue[g]) /\ Known(g)' = Known(g)
  BY <1>1 DEF Handled, At, Known
<1>3. Pending(g)' = PoolsAdded(queue[g]) \cup {p \in Handled(g) : x.pc \in {"sync", "pool"}}
  BY <1>1, <1>2 DEF Pending
<1>4. Pending(g)' \subseteq Pending(g)
  BY <1>3 DEF Pending, At
<1>5. Pending(g)' \cap servers'[g] = {}
  <2>1. CASE servers' = servers
    BY <1>4, <2>1 DEF Once
  <2>2. CASE x.pc # "pool" /\ servers'[g] \subseteq servers[g] \cup Handled(g)
    <3>1. Pending(g)' = PoolsAdded(queue[g])
      BY <1>3, <2>2
    <3> QED BY <2>2, <3>1 DEF Once, Pending
  <2> QED BY <2>1, <2>2
<1>6. servers'[g] \subseteq Known(g)
  BY DEF Once
<1> QED BY <1>1, <1>2, <1>4, <1>5, <1>6 DEF Once, At

LEMMA TakeOnce ==
    ASSUME Sound, NEW g \in Gens, Once(g), Take(g)
    PROVE  Once(g)' /\ Pending(g)' = Pending(g)
<1> DEFINE q == queue[g]
           t == Taken(q)
<1>1. /\ q \in Queues(Events) /\ q.items # <<>> /\ At(g, "idle") /\ UNCHANGED <<indexer, servers>>
      /\ worker[g] \in Workers /\ queue'[g] = t /\ worker'[g] = [worker[g] EXCEPT !.pc = "sync"]
  BY DEF Take, Sound, Typed, Types, feed, tables
<1>2. worker'[g].pc = "sync"
  BY <1>1 DEF Workers
<1>3. /\ t.busy \in Events /\ t.again = q.again /\ Distinct(t)
      /\ PoolsAdded(q) = PoolsAdded(t) \cup {p \in {t.busy.pool} : t.busy.action = "add"}
      /\ t.busy.action = "add" => t.busy.pool \notin PoolsAdded(t)
  BY <1>1, TakenAdditions DEF Once
<1>4. ~q.again /\ Handled(g) = {} /\ PoolsAdded(q) \cup servers[g] \subseteq Known(g)
  BY <1>1 DEF Once, Handled
<1> HIDE DEF t, q
<1>5. Handled(g)' = {p \in Pools : t.busy.action = "add" /\ t.busy.pool = p}
  BY <1>1, <1>2 DEF Handled, At
<1>6. t.busy.pool \in Pools
  BY <1>3 DEF Events
<1>7. Pending(g)' = PoolsAdded(t) \cup Handled(g)' /\ Pending(g) = PoolsAdded(q)
  BY <1>1, <1>2, <1>4 DEF Pending, q
<1>8. Pending(g)' = Pending(g)
  BY <1>3, <1>5, <1>6, <1>7
<1>9. PoolsAdded(t) \cap Handled(g)' = {}
  BY <1>3, <1>5
<1>10. /\ Distinct(queue[g])' /\ PoolsAdded(queue[g])' = PoolsAdded(t) /\ ~queue'[g].again
       /\ Known(g)' = Known(g) /\ servers'[g] = servers[g]
  BY <1>1, <1>3, <1>4 DEF Known
<1>11. PoolsAdded(t) \cup Handled(g)' \subseteq Known(g) /\ Pending(g)' \cap servers[g] = {}
  BY <1>4, <1>7, <1>8 DEF Once
<1> QED BY <1>2, <1>4, <1>8, <1>9, <1>10, <1>11 DEF Once, At

\* What a step of a worker does to the additions and the listeners.
LEMMA WorkOnce ==
    ASSUME Sound, NEW g \in Gens, Once(g), Work(g) \/ ListenError(g)
    PROVE  /\ Once(g)' /\ Pending(g)' \subseteq Pending(g)
           /\ \A p \in Pools : listening'[p] \subseteq listening[p] \cup {h \in {g} : p \in Pending(g)}
<1> DEFINE w == worker[g]
           o == w.obj
           e == queue[g].busy
           spec == indexer[g][e.pool]
           old == cache[g][e.net]
<1>1. w \in Workers /\ listening \in [Pools -> SUBSET Gens] /\ UNCHANGED indexer
  BY DEF Sound, Typed, Types, Work, Take, SyncAdd, DropPool, StartPool, Register,
         SyncUpdate, HandleChange, ReloadPool, SyncDelete, CleanupPool, ListenError, feed
<1>2. w.pc \in {"pool", "status"} =>
        e.action = "add" /\ o.name = e.pool /\ o.name \in Handled(g) /\ o.name \in Pools
  BY HandledTyped, ObjectFields DEF Once, Handled, Sound, At
<1>3. CASE Take(g)
  BY <1>3, TakeOnce DEF Take, nic
<1>4. CASE SyncAdd(g) \/ SyncUpdate(g) \/ SyncDelete(g)
  <2>1. ~At(g, "idle") /\ At(g, "sync") /\ UNCHANGED <<servers, listening>>
    BY <1>4 DEF SyncAdd, SyncUpdate, SyncDelete, At, tables, nic
  <2>2. \/ Finish(g)
        \/ /\ e.action = "add"
           /\ Goto(g, [IdleWorker EXCEPT !.pc = "pool", !.obj = Object(e.pool, spec)])
        \/ Goto(g, [pc |-> "change", obj |-> Object(e.pool, spec), old |-> old])
        \/ Goto(g, [IdleWorker EXCEPT !.pc = "cleanup", !.obj = old])
    BY <1>4 DEF SyncAdd, SyncUpdate, SyncDelete, NotAdded
  <2>3. /\ [IdleWorker EXCEPT !.pc = "pool", !.obj = Object(e.pool, spec)].pc = "pool"
        /\ [IdleWorker EXCEPT !.pc = "pool", !.obj = Object(e.pool, spec)].obj.name = e.pool
        /\ [IdleWorker EXCEPT !.pc = "cleanup", !.obj = old].pc = "cleanup"
    BY DEF IdleWorker, Object
  <2> QED BY <1>1, <2>1, <2>2, <2>3, FinishOnce, GotoOnce
<1>5. CASE HandleChange(g)
  <2>1. ~At(g, "idle") /\ servers' = servers
    BY <1>5 DEF HandleChange, At, tables
  <2>2. listening' = listening \/ listening' = Stopped(g, w.old)
    BY <1>5 DEF HandleChange, nic
  <2>3. \A p \in Pools : listening'[p] \subseteq listening[p]
    BY <1>1, <2>2 DEF Stopped
  <2>4. \/ Finish(g)
        \/ Goto(g, [IdleWorker EXCEPT !.pc = "reload", !.obj = o])
    BY <1>5 DEF HandleChange
  <2>5. [IdleWorker EXCEPT !.pc = "reload", !.obj = o].pc = "reload"
    BY DEF IdleWorker
  <2> QED BY <1>1, <2>1, <2>3, <2>4, <2>5, FinishOnce, GotoOnce
<1>6. CASE DropPool(g)
  <2>1. UNCHANGED <<indexer, queue, worker, servers, listening>>
    BY <1>6 DEF DropPool, feed, nic
  <2> QED BY <2>1 DEF Once, Pending, Handled, Known, At
<1>7. CASE StartPool(g)
  <2>1. w.pc = "pool" /\ ~At(g, "idle")
    BY <1>7 DEF StartPool, At
  <2>2. /\ listening' = [listening EXCEPT ![o.name] = @ \cup {g}]
        /\ servers' = [servers EXCEPT ![g] = @ \cup {o.name}]
    BY <1>7 DEF StartPool, Run
  <2>3. o.name \in Pending(g)
    BY <1>2, <2>1 DEF Pending
  <2>4. \A p \in Pools : listening'[p] \subseteq listening[p] \cup {h \in {g} : p \in Pending(g)}
    BY <1>1, <1>2, <2>1, <2>2, <2>3
  <2>5. servers'[g] \subseteq servers[g] \cup Handled(g)
    BY <1>2, <2>1, <2>2 DEF Sound, Typed, Types
  <2>6. PICK pc \in {"cleanup", "status"} : Goto(g, [w EXCEPT !.pc = pc])
    BY <1>7 DEF StartPool
  <2>7. [w EXCEPT !.pc = pc].pc = pc /\ [w EXCEPT !.pc = pc].obj = o
    BY <1>1 DEF Workers
  <2> QED BY <1>1, <1>2, <2>1, <2>4, <2>5, <2>6, <2>7, GotoOnce
<1>8. CASE Register(g)
  <2>1. w.pc = "status" /\ ~At(g, "idle") /\ UNCHANGED <<listening, servers>>
    BY <1>8 DEF Register, At, nic
  <2>2. \/ Finish(g)
        \/ Goto(g, [w EXCEPT !.pc = "cleanup"])
    BY <1>8 DEF Register
  <2>3. [w EXCEPT !.pc = "cleanup"].pc = "cleanup"
    BY <1>1 DEF Workers
  <2> QED BY <1>1, <2>1, <2>2, <2>3, FinishOnce, GotoOnce
<1>9. CASE ReloadPool(g) \/ CleanupPool(g)
  <2>1. ~At(g, "idle") /\ servers' = servers /\ Finish(g)
    BY <1>9 DEF ReloadPool, CleanupPool, At
  <2>2. listening' = listening \/ listening' = Stopped(g, o)
    BY <1>9 DEF ReloadPool, CleanupPool, nic
  <2>3. \A p \in Pools : listening'[p] \subseteq listening[p]
    BY <1>1, <2>2 DEF Stopped
  <2> QED BY <1>1, <2>1, <2>3, FinishOnce
<1>10. CASE ListenError(g)
  <2>1. w.pc = "pool" /\ ~At(g, "idle") /\ UNCHANGED <<listening, servers>>
    BY <1>10 DEF ListenError, At, nic
  <2>2. Goto(g, [w EXCEPT !.pc = "cleanup"])
    BY <1>10 DEF ListenError
  <2>3. [w EXCEPT !.pc = "cleanup"].pc = "cleanup"
    BY <1>1 DEF Workers
  <2> QED BY <1>1, <2>1, <2>2, <2>3, GotoOnce
<1> QED BY <1>3, <1>4, <1>5, <1>6, <1>7, <1>8, <1>9, <1>10 DEF Work

\* A generation nothing happens in.
LEMMA SameOnce ==
    ASSUME NEW g \in Gens, Once(g), queue'[g] = queue[g], worker'[g] = worker[g],
           servers'[g] = servers[g], indexer'[g] = indexer[g]
    PROVE  Once(g)' /\ Pending(g)' = Pending(g) /\ Known(g)' = Known(g)
BY DEF Once, Pending, Handled, Known, At

\* A new informer finds each pool once.
LEMMA ListedOnce ==
    ASSUME Sound, OneByOne, StartListener, NEW g \in Gens, g = gen
    PROVE  Once(g)' /\ Known(g)' = Existing
<1> DEFINE f == [p \in Existing |-> [pool |-> p, action |-> "add", net |-> ippool[p].net]]
           E == {[pool |-> p, action |-> "add", net |-> ippool[p].net] : p \in Existing}
<1>1. IsFiniteSet(E)
  <2>1. IsFiniteSet(Existing)
    BY PoolValues, FS_Subset DEF Existing
  <2>2. f \in Surjection(Existing, E)
    BY DEF Surjection
  <2> QED BY <2>1, <2>2, FS_Surjection
<1>2. PICK q \in Listings(E) : queue' = [queue EXCEPT ![gen] = q]
  BY DEF StartListener
<1>3. /\ main = "listen" /\ worker'[g] = worker[g] /\ At(g, "idle") /\ servers' = servers
      /\ indexer' = [indexer EXCEPT ![gen] = ippool]
  BY DEF StartListener, tables, Sound, Waiting, At
<1>4. E \in SUBSET E /\ q.busy = NoEvent
  BY <1>1, <1>2, ListingsTyped
<1>5. /\ ~q.again
      /\ {q.items[i] : i \in DOMAIN q.items} = E
      /\ \A i, j \in DOMAIN q.items : q.items[i] = q.items[j] => i = j
  BY <1>1, <1>2, ListingsOnce
<1>6. /\ \A x \in E : x.pool \in Existing /\ x.action = "add"
      /\ \A x, y \in E : x.pool = y.pool => x = y
  OBVIOUS
<1> HIDE DEF E
<1>7. Distinct(q) /\ PoolsAdded(q) \subseteq Existing
  BY <1>5, <1>6 DEF Distinct, PoolsAdded, Additions
<1>8. queue'[g] = q /\ indexer'[g] = ippool
  BY <1>2, <1>3 DEF Sound, Typed, Types
<1>9. Handled(g)' = {} /\ Pending(g)' = PoolsAdded(queue[g])'
  BY <1>3 DEF Handled, Pending, At
<1>10. Known(g)' = Existing /\ servers'[g] = {}
  <2>1. servers[g] \subseteq Known(g) /\ Known(g) = {}
    BY <1>3 DEF OneByOne, Once, Staying
  <2> QED BY <1>3, <1>8, <2>1 DEF Known, Existing
<1>11. /\ Distinct(queue[g])' /\ ~queue'[g].again /\ queue'[g].busy = NoEvent
       /\ PoolsAdded(queue[g])' = PoolsAdded(q)
  BY <1>4, <1>5, <1>7, <1>8
<1> QED BY <1>3, <1>7, <1>9, <1>10, <1>11 DEF Once, At

\* What is sent to the informer is no deletion.
LEMMA SentKept ==
    ASSUME Sound, Sound', OneByOne, NEW S \in SUBSET Pools, Sent(S), \A p \in S : ippool'[p] # None
    PROVE  \A p \in Pools : \A i \in DOMAIN watch'[p] : watch'[p][i] # None
<1>1. ASSUME NEW p \in Pools
      PROVE  \A i \in DOMAIN watch'[p] : watch'[p][i] # None
  <2>1. /\ watch[p] \in Seq(Specs \cup {None}) /\ ippool'[p] \in Specs \cup {None}
        /\ \A i \in DOMAIN watch[p] : watch[p][i] # None
    BY DEF Sound, Typed, Types, OneByOne, Staying
  <2>2. watch'[p] = IF informing /\ p \in S THEN Append(watch[p], ippool'[p]) ELSE watch[p]
    BY DEF Sent
  <2>3. CASE ~(informing /\ p \in S)
    BY <2>1, <2>2, <2>3
  <2>4. CASE informing /\ p \in S
    <3>1. /\ DOMAIN watch'[p] = 1..(Len(watch[p]) + 1) /\ DOMAIN watch[p] = 1..Len(watch[p])
          /\ Len(watch[p]) \in Nat
          /\ \A i \in 1..Len(watch[p]) : watch'[p][i] = watch[p][i]
          /\ watch'[p][Len(watch[p]) + 1] = ippool'[p]
      BY <2>1, <2>2, <2>4, AppendProperties, LenProperties
    <3>2. ippool'[p] # None
      BY <2>4
    <3> QED BY <2>1, <3>1, <3>2
  <2> QED BY <2>3, <2>4
<1> QED BY <1>1

LEMMA SentStaying ==
    ASSUME Sound, Sound', OneByOne, NEW S \in SUBSET Pools, Sent(S), UNCHANGED <<indexer, gen, main>>,
           \A p \in S : ippool'[p] # None, \A p \in Pools : ippool[p] # None => ippool'[p] # None
    PROVE  Staying'
<1>1. \A p \in Pools : \A i \in DOMAIN watch'[p] : watch'[p][i] # None
  BY SentKept
<1>2. /\ \A g \in Gens : Known(g)' = Known(g)
      /\ Existing \subseteq Existing'
  BY DEF Known, Existing
<1> QED BY <1>1, <1>2 DEF OneByOne, Staying

LEMMA WorkOneByOne ==
    ASSUME Sound, Sound', OneByOne, Unspent', NEW g \in Gens, Work(g) \/ ListenError(g)
    PROVE  OneByOne'
<1>1. UNCHANGED <<ippool, gen, main, informing, indexer>> /\ Existing' = Existing
  BY DEF Work, Take, SyncAdd, DropPool, StartPool, Register, StatusReset, SyncUpdate, HandleChange,
         ReloadPool, SyncDelete, CleanupPool, ListenError, feed, app, Existing
<1>2. Staying'
  <2>1. CASE watch' = watch
    BY <1>1, <2>1 DEF OneByOne, Staying, Known
  <2>2. CASE watch' # watch
    <3>1. /\ worker[g].obj.name \in Pools /\ ippool[worker[g].obj.name] # None
          /\ Sent({worker[g].obj.name})
      BY <2>2, HandledTyped, ObjectFields
         DEF Work, Take, SyncAdd, DropPool, StartPool, Register, StatusReset, SyncUpdate,
             HandleChange, ReloadPool, SyncDelete, CleanupPool, ListenError, feed, At, Sound
    <3> QED BY <1>1, <3>1, SentStaying
  <2> QED BY <2>1, <2>2
<1>3. /\ Once(g)' /\ Pending(g)' \subseteq Pending(g)
      /\ \A p \in Pools : listening'[p] \subseteq listening[p] \cup {h \in {g} : p \in Pending(g)}
  BY WorkOnce DEF OneByOne
<1>4. \A h \in Gens \ {g} : Once(h)' /\ Pending(h)' = Pending(h)
  <2>1. OnlyAt(g)
    BY WorkOnly DEF Sound
  <2>2. \A h \in Gens \ {g} : queue'[h] = queue[h]
    BY DEF Work, Take, SyncAdd, NotAdded, DropPool, StartPool, Register, SyncUpdate,
           HandleChange, ReloadPool, SyncDelete, CleanupPool, ListenError, Goto, Finish, Sound, Typed, Types
  <2> QED BY <1>1, <2>1, <2>2, SameOnce DEF OneByOne, OnlyAt
<1>5. Listening'
  <2>1. \A p \in Pending(g) : Active(g) /\ p \in Existing
    BY DEF OneByOne, Listening, Once, Staying, Pending
  <2>2. \A h \in Gens : Active(h)' = Active(h)
    BY <1>1 DEF Active
  <2>3. \A h \in Gens : Pending(h)' # {} => Active(h)'
    BY <1>3, <1>4, <2>2 DEF OneByOne, Listening
  <2>4. ASSUME NEW p \in Pools
        PROVE  /\ listening'[p] # {} => p \in Existing'
               /\ \A h \in listening'[p] : Active(h)'
    <3>1. \A h \in listening'[p] : h \in listening[p] \/ (h = g /\ p \in Pending(g))
      BY <1>3
    <3>2. listening[p] \subseteq Gens /\ \A h \in listening[p] : Active(h) /\ p \in Existing
      BY DEF OneByOne, Listening, Sound, Typed, Types
    <3>3. \A h \in listening'[p] : h \in Gens /\ Active(h) /\ p \in Existing
      BY <2>1, <3>1, <3>2
    <3> QED BY <1>1, <2>2, <3>3
  <2> QED BY <2>3, <2>4 DEF Listening
<1> QED BY <1>1, <1>2, <1>3, <1>4, <1>5 DEF OneByOne

\* What the environment may not do.
LEMMA NextUnspent ==
    ASSUME Sound, OneByOne, [Next]_vars
    PROVE  /\ ~ListError /\ \A g \in Gens : ~StatusError(g)
           /\ \A p \in Pools : ~DeletePool(p)
           /\ Unspent'
<1>1. \A k \in {"delete", "fail"} : ~Spend(k)
  BY DEF OneByOne, Unspent, Spend
<1>2. \A k \in BudgetKeys : Spend(k) => Unspent'
  BY <1>1 DEF Spend, OneByOne, Unspent, Sound, Typed, Types, BudgetKeys
<1>3. ~ListError /\ (\A g \in Gens : ~StatusError(g)) /\ \A p \in Pools : ~DeletePool(p)
  BY <1>1 DEF ListError, StatusError, DeletePool
<1>4. budget' = budget \/ \E k \in BudgetKeys : Spend(k)
  BY <1>3 DEF Next, Main, StartProcess, CountPools, StartListener, Replay, RunServicesDone, Cancel,
       StopListeners, CleanNetwork, Reinitialize, Work, Take, SyncAdd, DropPool, StartPool,
       Register, SyncUpdate, HandleChange, ReloadPool, SyncDelete, CleanupPool, Deliver,
       dhcpHandler, ReadLease, CheckPool, ReadPool, Reply, Handle, Ask, Users, CreatePool,
       ChangePool, AddTenant, Faults, Crash, ListenError, Panic, BudgetKeys, vars
<1>5. budget' = budget => Unspent'
  BY DEF OneByOne, Unspent
<1> QED BY <1>2, <1>3, <1>4, <1>5

\* Steps that leave the queues alone.
LEMMA QuietOnce ==
    ASSUME OneByOne, UNCHANGED <<indexer, queue, worker, servers>>
    PROVE  \A g \in Gens : Once(g)' /\ Pending(g)' = Pending(g) /\ Known(g)' = Known(g)
BY SameOnce DEF OneByOne

\* A queue that was just made has no additions.
LEMMA EmptyAdditions ==
    /\ EmptyQueue.items = <<>> /\ EmptyQueue.busy = NoEvent /\ EmptyQueue.again = FALSE
    /\ Distinct(EmptyQueue) /\ PoolsAdded(EmptyQueue) = {}
<1>1. EmptyQueue.items = <<>> /\ EmptyQueue.busy = NoEvent /\ EmptyQueue.again = FALSE
  BY DEF EmptyQueue
<1>2. Additions(EmptyQueue) = {}
  BY <1>1 DEF Additions
<1> QED BY <1>1, <1>2 DEF Distinct, PoolsAdded

\* A process that starts again.
LEMMA DieOneByOne ==
    ASSUME Sound, OneByOne, Die, Unspent'
    PROVE  OneByOne'
<1>1. /\ queue' = [g \in Gens |-> EmptyQueue] /\ worker' = [g \in Gens |-> IdleWorker]
      /\ servers' = [g \in Gens |-> {}] /\ indexer' = [g \in Gens |-> [p \in Pools |-> None]]
      /\ listening' = [p \in Pools |-> {}] /\ watch' = [p \in Pools |-> <<>>] /\ main' = "start"
  BY DEF Die, NoTable
<1>2. ASSUME NEW g \in Gens
      PROVE  Once(g)' /\ Pending(g)' = {} /\ Known(g)' = {}
  <2>1. /\ queue'[g] = EmptyQueue /\ worker'[g] = IdleWorker /\ servers'[g] = {}
        /\ \A p \in Pools : indexer'[g][p] = None
    BY <1>1
  <2>2. Distinct(queue[g])' /\ PoolsAdded(queue[g])' = {}
    BY <2>1, EmptyAdditions
  <2>3. worker'[g].pc = "idle"
    BY <2>1 DEF IdleWorker
  <2>4. Handled(g)' = {} /\ Known(g)' = {}
    BY <2>1, <2>3 DEF Handled, Known, At
  <2> QED BY <2>1, <2>2, <2>3, <2>4, EmptyAdditions DEF Once, Pending, At
<1>3. Staying' /\ Listening'
  BY <1>1, <1>2 DEF Staying, Listening
<1> QED BY <1>2, <1>3 DEF OneByOne

\* The informer brings a pool it did not know, or a change of one.
LEMMA DeliverOneByOne ==
    ASSUME Sound, Sound', OneByOne, Unspent', NEW p \in Pools, Deliver(p)
    PROVE  OneByOne'
<1> DEFINE new == Head(watch[p])
           old == indexer[gen][p]
           e == [pool   |-> p,
                 action |-> IF new = None THEN "delete" ELSE IF old = None THEN "add" ELSE "update",
                 net    |-> IF new = None THEN old.net ELSE new.net]
<1>1. /\ watch[p] # <<>> /\ gen \in Gens /\ informing /\ Follows(p)
      /\ main \in {"wait", "replayed", "running"}
      /\ watch[p] \in Seq(Specs \cup {None}) /\ old \in Specs \cup {None}
      /\ \A i \in DOMAIN watch[p] : watch[p][i] # None
  BY DEF Deliver, Sound, Typed, Fed, Informed, Types, OneByOne, Staying
<1>2. /\ new = watch[p][1] /\ new \in Specs \cup {None}
      /\ DOMAIN watch[p] = 1..Len(watch[p]) /\ Len(watch[p]) \in Nat \ {0}
      /\ DOMAIN Tail(watch[p]) = 1..(Len(watch[p]) - 1)
      /\ \A i \in 1..(Len(watch[p]) - 1) : Tail(watch[p])[i] = watch[p][i + 1]
  BY <1>1, HeadTailProperties, LenProperties, EmptySeq
<1>3. new # None /\ \A i \in DOMAIN Tail(watch[p]) : Tail(watch[p])[i] # None
  BY <1>1, <1>2
<1>4. p \in Existing
  BY <1>1, <1>2 DEF Follows, Existing
<1>5. /\ queue' = [queue EXCEPT ![gen] = Enqueued(queue[gen], e)]
      /\ indexer' = [indexer EXCEPT ![gen][p] = new] /\ watch' = [watch EXCEPT ![p] = Tail(watch[p])]
      /\ UNCHANGED <<ippool, worker, gen, main, listening, servers>>
  BY DEF Deliver, app, nic, tables
<1>6. e \in Events /\ e.pool = p /\ e.action = IF old = None THEN "add" ELSE "update"
  BY <1>1, <1>2, <1>3 DEF Events, Specs
<1> HIDE DEF e, new
<1>7. Existing' = Existing
  BY <1>5 DEF Existing
<1>8. \A g \in Gens \ {gen} : Once(g)' /\ Pending(g)' = Pending(g) /\ Known(g)' = Known(g)
  <2>1. \A g \in Gens \ {gen} : queue'[g] = queue[g] /\ worker'[g] = worker[g]
                                /\ servers'[g] = servers[g] /\ indexer'[g] = indexer[g]
    BY <1>5 DEF Sound, Typed, Types
  <2> QED BY <2>1, SameOnce DEF OneByOne
<1>9. ASSUME NEW g \in Gens, g = gen
      PROVE  Once(g)' /\ Known(g)' = Known(g) \cup {p}
  <2> DEFINE q == queue[g]
             r == Enqueued(q, e)
             added == {x \in {p} : old = None}
  <2>1. /\ q \in Queues(Events) /\ Once(g) /\ queue'[g] = r /\ worker'[g] = worker[g]
        /\ servers'[g] = servers[g]
    BY <1>5, <1>9 DEF Sound, Typed, Types, OneByOne
  <2>2. Known(g)' = Known(g) \cup {p} /\ (old = None <=> p \notin Known(g))
    <3>1. \A x \in Pools : indexer'[g][x] = IF x = p THEN new ELSE indexer[g][x]
      BY <1>1, <1>5, <1>9 DEF Sound, Typed, Types
    <3> QED BY <1>3, <1>9, <3>1 DEF Known
  <2>3. /\ r.busy = q.busy /\ Distinct(r) /\ PoolsAdded(r) = PoolsAdded(q) \cup added
        /\ r.again => q.again \/ (q.busy = e /\ old # None)
    <3>1. CASE old = None
      <4>1. p \notin PoolsAdded(q) /\ p \notin Handled(g)
        BY <2>1, <2>2, <3>1 DEF Once
      <4>2. q.busy # e
        BY <1>6, <2>1, <3>1, <4>1, PoolValues DEF Once, Handled
      <4> QED BY <1>6, <2>1, <3>1, <4>1, <4>2, AddedAdditions DEF Once
    <3>2. CASE old # None
      BY <1>6, <2>1, <3>2, EnqueuedAdditions DEF Once
    <3> QED BY <3>1, <3>2
  <2> HIDE DEF r, added
  <2>4. Distinct(queue[g])' /\ PoolsAdded(queue[g])' = PoolsAdded(q) \cup added
    BY <2>1, <2>3
  <2>5. Handled(g)' = Handled(g)
    BY <2>1, <2>3 DEF Handled, At
  <2>6. added \subseteq {p} /\ added \cap Known(g) = {}
    BY <2>2 DEF added
  <2>7. Pending(g)' = Pending(g) \cup added
    BY <2>1, <2>4, <2>5 DEF Pending
  <2>8. Pending(g)' \cap servers[g] = {} /\ (PoolsAdded(q) \cup added) \cap Handled(g) = {}
    BY <2>1, <2>6, <2>7 DEF Once
  <2>9. At(g, "idle") => ~r.again /\ r.busy = NoEvent
    BY <1>6, <2>1, <2>3, PoolValues DEF Once
  <2>10. r.again => r.busy.action # "add"
    BY <1>6, <2>1, <2>3 DEF Once
  <2>11. PoolsAdded(q) \cup added \cup Handled(g) \cup servers[g] \subseteq Known(g)'
    BY <2>1, <2>2, <2>6 DEF Once
  <2>12. worker[g].pc \in {"pool", "status"} => r.busy.action = "add" /\ worker[g].obj.name = r.busy.pool
    BY <2>1, <2>3 DEF Once
  <2> QED BY <2>1, <2>2, <2>4, <2>5, <2>8, <2>9, <2>10, <2>11, <2>12 DEF Once, At
<1>10. Staying'
  <2>1. \A x \in Pools : \A i \in DOMAIN watch'[x] : watch'[x][i] # None
    <3>1. watch'[p] = Tail(watch[p]) /\ \A x \in Pools \ {p} : watch'[x] = watch[x]
      BY <1>5 DEF Sound, Typed, Types
    <3> QED BY <1>3, <3>1 DEF OneByOne, Staying
  <2>2. \A g \in Gens : Known(g)' \subseteq Existing'
    BY <1>4, <1>7, <1>8, <1>9 DEF OneByOne, Staying
  <2>3. ASSUME NEW g \in Gens, g > gen
        PROVE  Known(g)' = {}
    BY <1>1, <1>8, <2>3 DEF OneByOne, Staying, Gens
  <2> QED BY <1>1, <1>5, <2>1, <2>2, <2>3 DEF Staying
<1>11. Listening'
  <2>1. \A g \in Gens : Active(g)' = Active(g)
    BY <1>5 DEF Active
  <2>2. \A g \in Gens : Pending(g)' # {} => Active(g)'
    <3>1. \A g \in Gens : g = gen => Active(g)
      BY <1>1 DEF Active
    <3> QED BY <1>8, <2>1, <3>1 DEF OneByOne, Listening
  <2>3. \A x \in Pools : \A g \in listening'[x] : g \in Gens /\ Active(g)
    BY <1>5 DEF OneByOne, Listening, Sound, Typed, Types
  <2> QED BY <1>5, <1>7, <2>1, <2>2, <2>3 DEF OneByOne, Listening
<1> QED BY <1>8, <1>9, <1>10, <1>11 DEF OneByOne

\* Where the main goroutine goes, nothing is pending but in the generation that
\* runs; it stops the listeners of all pools or dies.
LEMMA MainOneByOne ==
    ASSUME Sound, Sound', OneByOne, Unspent', Main
    PROVE  OneByOne'
<1>1. CASE Die
  BY <1>1, DieOneByOne
<1>2. CASE StartListener
  <2>1. /\ ~informing /\ gen \in Gens /\ main = "listen" /\ main' = "wait"
        /\ UNCHANGED <<ippool, watch, worker, gen, listening, servers>>
    BY <1>2 DEF StartListener, Sound, Typed, Informed, nic, tables
  <2>2. Existing' = Existing
    BY <2>1 DEF Existing
  <2>3. \A g \in Gens \ {gen} : Once(g)' /\ Pending(g)' = Pending(g) /\ Known(g)' = Known(g)
    <3>1. \A g \in Gens \ {gen} : queue'[g] = queue[g] /\ worker'[g] = worker[g]
                                  /\ servers'[g] = servers[g] /\ indexer'[g] = indexer[g]
      BY <1>2, <2>1 DEF StartListener, Sound, Typed, Types
    <3> QED BY <3>1, SameOnce DEF OneByOne
  <2>4. ASSUME NEW g \in Gens, g = gen
        PROVE  Once(g)' /\ Known(g)' = Existing
    BY <1>2, <2>4, ListedOnce
  <2>5. Staying'
    BY <2>1, <2>2, <2>3, <2>4 DEF OneByOne, Staying, Gens
  <2>6. Listening'
    <3>1. \A g \in Gens : g = gen => Active(g)'
      BY <2>1 DEF Active
    <3>2. \A g \in Gens : ~Active(g)
      BY <2>1 DEF Active
    <3>3. \A p \in Pools : listening'[p] = {}
      BY <2>1, <3>2 DEF OneByOne, Listening, Sound, Typed, Types
    <3> QED BY <2>3, <3>1, <3>2, <3>3 DEF OneByOne, Listening
  <2> QED BY <2>3, <2>4, <2>5, <2>6 DEF OneByOne
<1>3. CASE Main /\ ~Die /\ ~StartListener
  <2>1. UNCHANGED <<ippool, indexer, queue, worker, servers>> /\ Existing' = Existing
    BY <1>3 DEF Main, StartProcess, CountPools, Replay, RunServicesDone, Cancel, StopListeners,
                CleanNetwork, Reinitialize, Existing, feed, tables
  <2>2. \A g \in Gens : Once(g)' /\ Pending(g)' = Pending(g) /\ Known(g)' = Known(g)
    BY <2>1, QuietOnce
  <2>3. /\ \A p \in Pools : \A g \in listening[p] : g \in Gens /\ Active(g)
        /\ \A g \in Gens : Pending(g) # {} => Active(g)
    BY DEF OneByOne, Listening, Sound, Typed, Types
  <2>4. Staying'
    <3>1. CASE Replay
      <4> DEFINE again == {p \in tenants \cap Existing : cache[gen][ippool[p].net] # None}
      <4>1. Sent(again \ used) /\ UNCHANGED gen /\ main = "wait" /\ main' = "replayed"
        BY <3>1 DEF Replay
      <4>2. \A p \in again \ used : p \in Pools /\ ippool[p] # None
        BY DEF Existing
      <4> HIDE DEF again
      <4>3. (again \ used) \in SUBSET Pools
        BY <4>2
      <4>4. \A g \in Gens : g > gen => Known(g) = {}
        BY DEF OneByOne, Staying
      <4>5. \A p \in Pools : \A i \in DOMAIN watch'[p] : watch'[p][i] # None
        BY <2>1, <4>1, <4>2, <4>3, SentKept
      <4> QED BY <2>1, <2>2, <4>1, <4>4, <4>5 DEF OneByOne, Staying
    <3>2. CASE CountPools
      <4>1. UNCHANGED watch /\ gen' = gen + 1 /\ gen \in Nat /\ main = "count"
        BY <3>2 DEF CountPools, feed, Sound, Typed, Types
      <4> QED BY <2>1, <2>2, <4>1 DEF OneByOne, Staying, Gens
    <3>3. CASE Cancel
      BY <2>1, <2>2, <3>3 DEF Cancel, OneByOne, Staying
    <3>4. CASE StartProcess \/ RunServicesDone \/ StopListeners \/ CleanNetwork \/ Reinitialize
      <4>1. UNCHANGED <<watch, gen>> /\ main' # "listen"
        BY <1>3, <3>4 DEF StartProcess, RunServicesDone, StopListeners, CleanNetwork, Reinitialize, feed
      <4> QED BY <2>1, <2>2, <4>1 DEF OneByOne, Staying
    <3> QED BY <1>3, <3>1, <3>2, <3>3, <3>4 DEF Main
  <2>5. Listening'
    <3>1. CASE StopListeners
      <4>1. /\ main = "stop" /\ main' = "cleanup" /\ listening' = Closed /\ gen' = gen
            /\ Existing \subseteq servers[gen]
        BY <1>3, <3>1 DEF StopListeners
      <4>2. \A p \in Pools : listening'[p] = {}
        <5>1. \A p \in Pools : listening[p] \subseteq {gen} /\ (listening[p] # {} => p \in Existing)
          BY <2>3 DEF Active, OneByOne, Listening
        <5> QED BY <4>1, <5>1 DEF Closed
      <4>3. ASSUME NEW g \in Gens, g = gen
            PROVE  Pending(g) = {}
        <5>1. Pending(g) \subseteq Existing /\ Pending(g) \cap servers[g] = {}
          BY DEF OneByOne, Once, Staying, Pending
        <5> QED BY <4>1, <4>3, <5>1
      <4>4. \A g \in Gens : Pending(g)' = {}
        BY <2>2, <2>3, <4>3 DEF Active
      <4> QED BY <4>2, <4>4 DEF Listening
    <3>2. CASE ~StopListeners
      <4>1. listening' = listening
        BY <1>3, <3>2 DEF Main, StartProcess, CountPools, Replay, RunServicesDone, Cancel,
                          CleanNetwork, Reinitialize, nic
      <4>2. \/ gen' = gen /\ main' \in {"wait", "replayed", "running", "stop"}
            \/ main \in {"start", "count", "cleanup", "reinit"}
        BY <1>3, <3>2 DEF Main, StartProcess, CountPools, Replay, RunServicesDone, Cancel,
                          CleanNetwork, Reinitialize
      <4>3. \A g \in Gens : Active(g) => Active(g)'
        BY <4>2 DEF Active
      <4> QED BY <2>1, <2>2, <2>3, <4>1, <4>3 DEF OneByOne, Listening
    <3> QED BY <3>1, <3>2
  <2> QED BY <2>2, <2>4, <2>5 DEF OneByOne
<1> QED BY <1>1, <1>2, <1>3

LEMMA NextOneByOne ==
    ASSUME Sound, OneByOne, [Next]_vars
    PROVE  OneByOne'
<1>1. Unspent' /\ Sound'
  BY NextUnspent, NextSound
<1>2. ASSUME NEW g \in Gens, Work(g) \/ ListenError(g)
      PROVE  OneByOne'
  BY <1>1, <1>2, WorkOneByOne
<1>3. CASE Main \/ Crash \/ (\E g \in Gens : Panic(g)) \/ \E p \in Pools : Deliver(p)
  BY <1>1, <1>3, MainOneByOne, DieOneByOne, DeliverOneByOne DEF Crash, Panic
<1>4. ASSUME UNCHANGED <<indexer, queue, worker, servers, gen, main, listening>>,
             Existing \subseteq Existing', Staying'
      PROVE  OneByOne'
  <2>1. \A g \in Gens : Once(g)' /\ Pending(g)' = Pending(g)
    BY <1>4, QuietOnce
  <2>2. \A g : Active(g)' = Active(g)
    BY <1>4 DEF Active
  <2>3. Listening'
    BY <1>4, <2>1, <2>2 DEF OneByOne, Listening
  <2> QED BY <1>1, <1>4, <2>1, <2>3 DEF OneByOne
<1>5. ASSUME NEW p \in Pools, CreatePool(p) \/ ChangePool(p) \/ AddTenant(p)
      PROVE  OneByOne'
  <2>1. UNCHANGED <<indexer, queue, worker, servers, gen, main, listening>> /\ Sent({p})
    BY <1>5 DEF CreatePool, ChangePool, AddTenant, Write, app, nic, tables
  <2>2. ippool'[p] # None /\ \A q \in Pools \ {p} : ippool'[q] = ippool[q]
    <3>1. CASE AddTenant(p)
      BY <2>1, <3>1 DEF AddTenant
    <3>2. CASE CreatePool(p) \/ ChangePool(p)
      <4>1. PICK spec \in Choices[p] : ippool' = [ippool EXCEPT ![p] = spec]
        BY <3>2 DEF CreatePool, ChangePool, Write
      <4> QED BY <4>1, GivenEvents DEF Sound, Typed, Types
    <3> QED BY <1>5, <3>1, <3>2
  <2>3. Existing \subseteq Existing'
    BY <2>2 DEF Existing
  <2>4. Staying'
    BY <1>1, <2>1, <2>2, SentStaying
  <2> QED BY <1>4, <2>1, <2>3, <2>4
<1>6. CASE dhcpHandler \/ Ask \/ UNCHANGED vars
  <2>1. UNCHANGED <<ippool, watch, indexer, queue, worker, servers, gen, main, listening>>
    BY <1>6 DEF dhcpHandler, ReadLease, CheckPool, ReadPool, Reply, Handle, Ask, Receive, vars, feed,
                app, nic, tables
  <2>2. Existing' = Existing /\ \A g \in Gens : Known(g)' = Known(g)
    BY <2>1 DEF Existing, Known
  <2>3. Staying'
    BY <2>1, <2>2 DEF OneByOne, Staying
  <2> QED BY <1>4, <2>1, <2>2, <2>3
<1> QED BY <1>2, <1>3, <1>5, <1>6, NextUnspent DEF Next, Users, Faults

LEMMA InitOneByOne ==
    ASSUME KeptPools
    PROVE  Init => OneByOne
<1> SUFFICES ASSUME Init
             PROVE  OneByOne
  OBVIOUS
<1>1. /\ queue = [g \in Gens |-> EmptyQueue] /\ worker = [g \in Gens |-> IdleWorker]
      /\ servers = [g \in Gens |-> {}] /\ indexer = [g \in Gens |-> [p \in Pools |-> None]]
      /\ listening = [p \in Pools |-> {}] /\ watch = [p \in Pools |-> <<>>] /\ budget = Budget
  BY DEF Init, NoTable
<1>2. ASSUME NEW g \in Gens
      PROVE  Once(g) /\ Pending(g) = {} /\ Known(g) = {}
  <2>1. /\ queue[g] = EmptyQueue /\ worker[g] = IdleWorker /\ servers[g] = {}
        /\ \A p \in Pools : indexer[g][p] = None
    BY <1>1
  <2>2. worker[g].pc = "idle"
    BY <2>1 DEF IdleWorker
  <2>3. Handled(g) = {} /\ Known(g) = {}
    BY <2>1, <2>2 DEF Handled, Known, At
  <2> QED BY <2>1, <2>2, <2>3, EmptyAdditions DEF Once, Pending, At
<1>3. Unspent /\ Staying /\ Listening
  BY <1>1, <1>2 DEF KeptPools, Unspent, Staying, Listening
<1> QED BY <1>2, <1>3 DEF OneByOne

\* As long as no pool is deleted and no request to the API fails, the listeners
\* of two runs of RunServices are never open on the same interface, however the
\* old worker, the new one, users who create and change pools, and crashes
\* interleave: a restart stops the listener of every pool there is or ends the
\* process, and a worker that lives on has no pool left to start one for.
THEOREM OneListenerHolds == ASSUME KeptPools PROVE Spec => []OneListener
<1>1. Init => Sound /\ OneByOne
  BY InitSound, InitOneByOne
<1>2. Sound /\ OneByOne /\ [Next]_vars => Sound' /\ OneByOne'
  BY NextSound, NextOneByOne
<1>3. Sound /\ OneByOne => OneListener
  <2> SUFFICES ASSUME Sound, OneByOne, NEW p \in Pools
               PROVE  Cardinality(listening[p]) <= 1
    BY DEF OneListener
  <2>1. listening[p] = {} \/ listening[p] = {gen}
    BY DEF OneByOne, Listening, Active
  <2>2. Cardinality({}) = 0
    BY FS_EmptySet
  <2>3. Cardinality({gen}) = 1
    BY FS_Singleton
  <2> QED BY <2>1, <2>2, <2>3
<1> QED BY <1>1, <1>2, <1>3, PTL DEF Spec

-----------------------------------------------------------------------------
(* What the application makes of its configuration, while users wait until *)
(* there is nothing left to do, and no request and no socket fails.        *)

\* Users act when nothing is under way, never change the network of a pool, and
\* give no pool a configuration that cannot be registered.
PatientUsers ==
    /\ \A k \in {"create", "change", "reload", "delete", "tenant"} : Window[k] \subseteq {"idle"}
    /\ \A p \in Pools : \A s, t \in Choices[p] : s.net = t.net /\ s.conf \notin Broken

\* A crash leaves the address of a pool whose deletion was not handled yet.
FewFaults ==
    /\ Budget["fail"] = 0 /\ Budget["listen"] = 0
    /\ Budget["crash"] = 0 \/ Budget["delete"] = 0

Frugal    == \A k \in BudgetKeys : budget[k] <= Budget[k]
Uncrashed == budget["crash"] = Budget["crash"]

Queueing ==
    \A g \in Gens :
      /\ Simple(queue[g])
      /\ At(g, "idle") => queue[g].busy = NoEvent /\ ~queue[g].again
      /\ queue[g].again => queue[g].busy.action = "update"

\* The events of pool p that wait, and whether the worker handles one.
Evs(p)  == {e \in Elems(queue[gen]) : e.pool = p}
Mine(p) == ~At(gen, "idle") /\ queue[gen].busy.pool = p

Ev(p, a, s) == [pool |-> p, action |-> a, net |-> s.net]

\* Where the only event of p is: on its way, in the queue, or handled.
Sends(p, old, new) ==
    watch[p] = <<new>> /\ indexer[gen][p] = old /\ Evs(p) = {} /\ ~Mine(p)
Waits(p, e, new) ==
    watch[p] = <<>> /\ indexer[gen][p] = new /\ Evs(p) = {e} /\ ~Mine(p)
Works(p, e, new) ==
    /\ watch[p] = <<>> /\ indexer[gen][p] = new /\ Evs(p) = {}
    /\ Mine(p) /\ queue[gen].busy = e /\ ~queue[gen].again

\* Only what is about p is under way.
Lone(p) == \A q \in Pools \ {p} : watch[q] = <<>> /\ Evs(q) = {} /\ ~Mine(q)

\* The address of a pool configured as x, and no other unless there was a crash.
HasAddr(p, x)   == ServerIP[x.conf] \in addrs[p] /\ (Uncrashed => addrs[p] \subseteq {ServerIP[x.conf]})
LacksAddr(p, x) == ServerIP[x.conf] \notin addrs[p] /\ (Uncrashed => addrs[p] = {})

Hears(p, x) == gen \in listening[p] /\ p \in servers[gen] /\ HasAddr(p, x)

\* Pool p is served as x, or not at all.
As(p, x) ==
    /\ cache[gen][x.net] = Object(p, x) /\ dhcp[gen][x.net] = Object(p, x)
    /\ subnet[gen][x.net] = x.conf
    /\ Hears(p, x)

Blank(g, n) == cache[g][n] = None /\ dhcp[g][n] = None /\ subnet[g][n] = None

Empty(p) == gen \notin listening[p] /\ \A n \in NetsOf(p) : Blank(gen, n)

\* The stages of a pool.
Off(p) ==
    /\ ippool[p] = None /\ indexer[gen][p] = None
    /\ watch[p] = <<>> /\ Evs(p) = {} /\ ~Mine(p)
    /\ Empty(p) /\ addrs[p] = {}

On(p) ==
    LET s == ippool[p]
        w == worker[gen]
    IN  /\ s # None /\ indexer[gen][p] = s
        /\ \A i \in DOMAIN watch[p] : watch[p][i] = s
        /\ Evs(p) \subseteq {Ev(p, "update", s)}
        /\ As(p, s)
        /\ Mine(p) => /\ queue[gen].busy = Ev(p, "update", s)
                      /\ \/ w.pc = "sync"
                         \/ w.pc = "change" /\ w.obj = Object(p, s) /\ w.old = Object(p, s)

Adding(p) ==
    LET s == ippool[p]
        w == worker[gen]
        e == Ev(p, "add", s)
    IN  /\ s # None
        /\ main # "wait" => p \notin tenants
        /\ \/ Sends(p, None, s) /\ Empty(p) /\ LacksAddr(p, s)
           \/ Waits(p, e, s) /\ Empty(p) /\ LacksAddr(p, s)
           \/ Works(p, e, s) /\ w.pc = "sync" /\ Empty(p) /\ LacksAddr(p, s)
           \/ Works(p, e, s) /\ w.pc = "pool" /\ w.obj = Object(p, s) /\ Empty(p) /\ HasAddr(p, s)
           \/ /\ Works(p, e, s) /\ w.pc = "status" /\ w.obj = Object(p, s)
              /\ cache[gen][s.net] = None /\ dhcp[gen][s.net] = w.obj /\ subnet[gen][s.net] = s.conf
              /\ Hears(p, s)

\* From x to what it is in the API.
Change(p, x) ==
    LET s == ippool[p]
        w == worker[gen]
        e == Ev(p, "update", s)
    IN  \/ Sends(p, x, s) /\ As(p, x)
        \/ Waits(p, e, s) /\ As(p, x)
        \/ Works(p, e, s) /\ w.pc = "sync" /\ As(p, x)
        \/ Works(p, e, s) /\ w.pc = "change" /\ w.obj = Object(p, s) /\ w.old = Object(p, x) /\ As(p, x)
        \/ /\ Works(p, e, s) /\ w.pc = "reload" /\ w.obj = Object(p, s)
           /\ cache[gen][s.net] # None /\ subnet[gen][s.net] = s.conf /\ Hears(p, s)

Changing(p) ==
    /\ ippool[p] # None /\ main = "running" /\ Lone(p)
    /\ \E x \in Choices[p] : Change(p, x)

Delete(p, x) ==
    LET w == worker[gen]
        e == Ev(p, "delete", x)
    IN  /\ As(p, x)
        /\ \/ Sends(p, x, None)
           \/ Waits(p, e, None)
           \/ Works(p, e, None) /\ w.pc = "sync"
           \/ Works(p, e, None) /\ w.pc = "cleanup" /\ w.obj = Object(p, x)

Deleting(p) ==
    /\ ippool[p] = None /\ main = "running" /\ Budget["delete"] > 0
    /\ \E x \in Choices[p] : Delete(p, x)

Stage(p) == Off(p) \/ On(p) \/ Adding(p) \/ Changing(p) \/ Deleting(p)

Registered == {p \in Existing : cache[gen][ippool[p].net] # None}

\* The three phases of the main goroutine.
Live == main \in {"wait", "replayed", "running"} /\ appStatus # "RESTART"

Working ==
    /\ informing
    /\ appStatus = IF main = "running" THEN "RUNNING" ELSE "INIT"
    /\ \A p \in Pools : Stage(p)
    /\ main = "wait" => current = Cardinality(Registered)

Early ==
    /\ main \in {"start", "count", "listen"} /\ appStatus = "INIT"
    /\ \A p \in Pools : listening[p] = {}
    /\ main = "start" => (Uncrashed => \A p \in Pools : addrs[p] = {})
    /\ main # "start" => \A p \in Existing : LacksAddr(p, ippool[p])
    /\ main = "listen" => current = 0

Stopping ==
    /\ main \in {"running", "stop", "cleanup", "reinit"} /\ appStatus = "RESTART"
    /\ \A p \in Pools : watch[p] = <<>>
    /\ main \in {"running", "stop"} => Existing \subseteq servers[gen]
    /\ \A p \in Pools : ippool[p] = None \/ main \in {"cleanup", "reinit"} => listening[p] = {}
    /\ Uncrashed => \A p \in Existing : addrs[p] \subseteq {ServerIP[ippool[p].conf]}
    /\ main = "reinit" => \A p \in Existing : LacksAddr(p, ippool[p])

Services ==
    /\ (Live /\ Working) \/ Early \/ Stopping
    /\ main \in {"listen", "wait"} => target = Cardinality(Existing)

\* What is not the current generation's.
Resting(g) == At(g, "idle") /\ Elems(queue[g]) = {}

Unused ==
    \A g \in Gens : (g > gen \/ (g = gen /\ main = "listen")) =>
      (\A n \in Nets : Blank(g, n)) /\ (\A p \in Pools : indexer[g][p] = None)

Unclaimed ==
    \A g \in Gens : \A n \in Nets : (\A p \in Pools : n \notin NetsOf(p)) => Blank(g, n)

Calm ==
    /\ \A g \in Gens : Resting(g) \/ (g = gen /\ Live)
    /\ \A p \in Pools : listening[p] \subseteq {gen}
    /\ ~Live => \A p \in Pools : ippool[p] = None => addrs[p] = {}

\* Whoever has an address has it in the status of the pool and in the leases.
Tenancy ==
    \A p \in tenants :
      /\ ippool[p] # None
      /\ main \in {"replayed", "running"} => p \in used /\ leases[gen][p] = ippool[p].net

Configured == Frugal /\ Queueing /\ Services /\ Unused /\ Unclaimed /\ Calm /\ Tenancy

-----------------------------------------------------------------------------
(* What every step starts from.                                            *)

Settled == Sound /\ Chosen /\ Configured

LEMMA ChoiceFields ==
    \A p \in Pools : \A s \in Choices[p] :
      /\ s \in Specs /\ s # None /\ s.net \in Nets /\ s.net \in NetsOf(p)
      /\ Object(p, s) \in Objects /\ Object(p, s) # None
      /\ Object(p, s).name = p /\ Object(p, s).spec = s
<1>1. \A p \in Pools : \A s \in Choices[p] : s \in Specs /\ s # None
  BY EnvironmentAssumption, PoolValues
<1>2. \A p \in Pools : \A s \in Choices[p] : s.net \in Nets /\ s.net \in NetsOf(p)
  BY <1>1 DEF Specs, NetsOf
<1>3. \A p \in Pools : \A s \in Choices[p] :
        Object(p, s) \in Objects /\ Object(p, s).name = p /\ Object(p, s).spec = s
  BY <1>1 DEF Object, Objects
<1> QED BY <1>1, <1>2, <1>3, PoolValues

LEMMA OneNet ==
    ASSUME PatientUsers
    PROVE  \A p \in Pools : \A s \in Choices[p] : \A n \in NetsOf(p) : n = s.net
BY DEF PatientUsers, NetsOf

\* A pool in the API is one of the choices of its users.
LEMMA GivenPool ==
    ASSUME Settled, NEW p \in Pools
    PROVE  /\ ippool[p] # None => ippool[p] \in Choices[p]
           /\ \A g \in Gens : indexer[g][p] # None => indexer[g][p] \in Choices[p]
BY DEF Settled, Chosen, Given

LEMMA LiveFacts ==
    ASSUME Settled, Live
    PROVE  Working /\ gen \in Gens
<1>1. gen \in Gens
  BY DEF Settled, Sound, Typed, Informed, Live
<1>2. ~Early /\ ~Stopping
  BY DEF Live, Early, Stopping
<1> QED BY <1>1, <1>2 DEF Settled, Configured, Services

\* Only the worker of the newest generation has something to do.
LEMMA WorkNow ==
    ASSUME Settled, NEW g \in Gens, Work(g)
    PROVE  g = gen /\ Live
<1>1. queue[g] \in Queues(Events)
  BY DEF Settled, Sound, Typed, Types
<1>2. ~Resting(g)
  BY <1>1, ElemsTyped DEF Resting, At, Work, Take, SyncAdd, DropPool, StartPool, Register, SyncUpdate,
       HandleChange, ReloadPool, SyncDelete, CleanupPool
<1> QED BY <1>2 DEF Settled, Configured, Calm

LEMMA NoFailure ==
    ASSUME Settled, FewFaults
    PROVE  ~ListError /\ \A g \in Gens : ~StatusError(g) /\ ~ListenError(g)
<1>1. ~(budget["fail"] > 0) /\ ~(budget["listen"] > 0)
  BY DEF Settled, Configured, Frugal, FewFaults, BudgetKeys, Sound, Typed, Types
<1> QED BY <1>1 DEF ListError, StatusError, ListenError, Spend

-----------------------------------------------------------------------------
(* What is about other pools.                                              *)

Aside(q) ==
    \A p \in Pools \ {q} :
      /\ ippool'[p] = ippool[p] /\ watch'[p] = watch[p] /\ indexer'[gen][p] = indexer[gen][p]
      /\ addrs'[p] = addrs[p] /\ (gen \in listening'[p] <=> gen \in listening[p])
      /\ p \in servers'[gen] <=> p \in servers[gen]
      /\ \A n \in NetsOf(p) : /\ cache'[gen][n] = cache[gen][n] /\ dhcp'[gen][n] = dhcp[gen][n]
                              /\ subnet'[gen][n] = subnet[gen][n]
      /\ Evs(p)' = Evs(p) /\ (Mine(p)' <=> Mine(p))
      /\ Mine(p) => /\ worker'[gen] = worker[gen] /\ queue'[gen].busy = queue[gen].busy
                    /\ queue'[gen].again = queue[gen].again

LEMMA OthersStage ==
    ASSUME Settled, Live, NEW q \in Pools, gen' = gen, main' = main, tenants' \subseteq tenants \cup {q},
           Uncrashed' = Uncrashed, Aside(q), \A p \in Pools \ {q} : ~Changing(p)
    PROVE  \A p \in Pools \ {q} : Stage(p)'
<1> SUFFICES ASSUME NEW p \in Pools, p # q
             PROVE  Stage(p)'
  OBVIOUS
<1> DEFINE s == ippool[p]
<1>1. /\ ippool'[p] = ippool[p] /\ watch'[p] = watch[p] /\ indexer'[gen'][p] = indexer[gen][p]
      /\ addrs'[p] = addrs[p] /\ (gen' \in listening'[p] <=> gen \in listening[p])
      /\ p \in servers'[gen'] <=> p \in servers[gen]
      /\ Evs(p)' = Evs(p) /\ (Mine(p)' <=> Mine(p))
      /\ Mine(p) => /\ worker'[gen'] = worker[gen] /\ queue'[gen'].busy = queue[gen].busy
                    /\ queue'[gen'].again = queue[gen].again
  BY DEF Aside
<1>2. \A n \in NetsOf(p) : /\ cache'[gen'][n] = cache[gen][n] /\ dhcp'[gen'][n] = dhcp[gen][n]
                           /\ subnet'[gen'][n] = subnet[gen][n]
  BY DEF Aside
<1>3. Stage(p) /\ ~Changing(p)
  BY LiveFacts DEF Working
<1>4. \A x \in Choices[p] : As(p, x)' = As(p, x)
  BY <1>1, <1>2, ChoiceFields DEF As, Hears, HasAddr
<1>5. Empty(p)' = Empty(p)
  BY <1>1, <1>2 DEF Empty, Blank
<1>6. s # None => s \in Choices[p]
  BY GivenPool
<1>7. /\ \A x : LacksAddr(p, x)' = LacksAddr(p, x) /\ HasAddr(p, x)' = HasAddr(p, x)
      /\ \A x : Hears(p, x)' = Hears(p, x)
  BY <1>1 DEF LacksAddr, HasAddr, Hears
<1>8. /\ \A o, x : Sends(p, o, x)' = Sends(p, o, x)
      /\ \A e, x : Waits(p, e, x)' = Waits(p, e, x)
      /\ \A e, x : Works(p, e, x)' = Works(p, e, x)
  BY <1>1 DEF Sends, Waits, Works
<1>9. CASE Off(p)
  BY <1>1, <1>5, <1>9 DEF Off, Stage
<1>10. CASE On(p)
  <2>1. On(p)'
    BY <1>1, <1>4, <1>6, <1>10 DEF On, Ev
  <2> QED BY <2>1 DEF Stage
<1>11. CASE Adding(p)
  <2>1. p \notin tenants => p \notin tenants'
    OBVIOUS
  <2>2. /\ Works(p, Ev(p, "add", s), s) => worker'[gen'] = worker[gen]
        /\ s.net \in NetsOf(p)
    BY <1>1, <1>6, <1>11, ChoiceFields DEF Works, Adding
  <2>3. Adding(p)'
    BY <1>1, <1>2, <1>5, <1>7, <1>8, <1>11, <2>1, <2>2 DEF Adding, Ev
  <2> QED BY <2>3 DEF Stage
<1>12. CASE Deleting(p)
  <2>1. PICK x \in Choices[p] : Delete(p, x)
    BY <1>12 DEF Deleting
  <2>2. Works(p, Ev(p, "delete", x), None) => worker'[gen'] = worker[gen]
    BY <1>1 DEF Works
  <2>3. Delete(p, x)'
    BY <1>4, <1>8, <2>1, <2>2 DEF Delete, Ev
  <2> QED BY <1>1, <1>12, <2>3 DEF Deleting, Stage
<1> QED BY <1>3, <1>9, <1>10, <1>11, <1>12 DEF Stage

\* A pool is being changed only while nothing is under way for any other.
LEMMA NotChanging ==
    ASSUME NEW q \in Pools, watch[q] # <<>> \/ Evs(q) # {} \/ Mine(q)
    PROVE  \A p \in Pools \ {q} : ~Changing(p)
BY DEF Changing, Lone

-----------------------------------------------------------------------------
(* The worker.                                                             *)

\* The event it handles, and where its pool may be.
LEMMA HandledPool ==
    ASSUME Settled, Live, ~At(gen, "idle"), NEW q, q = queue[gen].busy.pool
    PROVE  /\ q \in Pools /\ Mine(q) /\ queue[gen].busy \in Events
           /\ queue[gen] \in Queues(Events) /\ Simple(queue[gen])
           /\ \/ On(q)
              \/ Adding(q) /\ Works(q, Ev(q, "add", ippool[q]), ippool[q])
              \/ Changing(q) /\ Works(q, Ev(q, "update", ippool[q]), ippool[q])
              \/ Deleting(q)
<1>1. q \in Pools /\ Mine(q) /\ queue[gen].busy \in Events /\ queue[gen] \in Queues(Events)
  BY LiveFacts DEF Settled, Sound, Typed, Types, Handling, Events, Mine
<1>2. Simple(queue[gen])
  BY LiveFacts DEF Settled, Configured, Queueing
<1>3. Stage(q)
  BY <1>1, LiveFacts DEF Working
<1>4. ~Off(q)
  BY <1>1 DEF Off
<1>5. Adding(q) => Works(q, Ev(q, "add", ippool[q]), ippool[q])
  BY <1>1 DEF Adding, Sends, Waits
<1>6. Changing(q) => Works(q, Ev(q, "update", ippool[q]), ippool[q])
  BY <1>1 DEF Changing, Change, Sends, Waits
<1> QED BY <1>1, <1>2, <1>3, <1>4, <1>5, <1>6 DEF Stage

\* What it does tells the stage.
LEMMA HandledStage ==
    ASSUME Settled, Live, ~At(gen, "idle"), NEW q, q = queue[gen].busy.pool
    PROVE  /\ queue[gen].busy.action = "add" =>
                Adding(q) /\ Works(q, Ev(q, "add", ippool[q]), ippool[q])
           /\ queue[gen].busy.action = "update" =>
                On(q) \/ (Changing(q) /\ Works(q, Ev(q, "update", ippool[q]), ippool[q]))
           /\ queue[gen].busy.action = "delete" => Deleting(q)
<1>0. \A a, s : Ev(q, a, s).action = a
  BY DEF Ev
<1>1. \/ On(q)
      \/ Adding(q) /\ Works(q, Ev(q, "add", ippool[q]), ippool[q])
      \/ Changing(q) /\ Works(q, Ev(q, "update", ippool[q]), ippool[q])
      \/ Deleting(q)
  BY HandledPool
<1>2. On(q) => queue[gen].busy.action = "update"
  <2>1. Mine(q)
    BY HandledPool
  <2>2. On(q) => queue[gen].busy = Ev(q, "update", ippool[q])
    BY <2>1 DEF On
  <2> QED BY <1>0, <2>2
<1>3. Works(q, Ev(q, "add", ippool[q]), ippool[q]) => queue[gen].busy.action = "add"
  <2>1. Works(q, Ev(q, "add", ippool[q]), ippool[q]) => queue[gen].busy = Ev(q, "add", ippool[q])
    BY DEF Works
  <2> QED BY <1>0, <2>1
<1>4. Works(q, Ev(q, "update", ippool[q]), ippool[q]) => queue[gen].busy.action = "update"
  <2>1. Works(q, Ev(q, "update", ippool[q]), ippool[q]) => queue[gen].busy = Ev(q, "update", ippool[q])
    BY DEF Works
  <2> QED BY <1>0, <2>1
<1>5. Deleting(q) => queue[gen].busy.action = "delete"
  <2>1. Mine(q)
    BY HandledPool
  <2>2. Deleting(q) => \E x \in Choices[q] : queue[gen].busy = Ev(q, "delete", x)
    BY <2>1 DEF Deleting, Delete, Sends, Waits, Works
  <2> QED BY <1>0, <2>2
<1> QED BY <1>1, <1>2, <1>3, <1>4, <1>5

\* It goes on.
LEMMA GotoFrame ==
    ASSUME Settled, Live, NEW w, Goto(gen, w), w.pc # "idle", ~At(gen, "idle"), gen' = gen
    PROVE  /\ worker'[gen] = w /\ queue' = queue
           /\ \A p \in Pools : Evs(p)' = Evs(p) /\ (Mine(p)' <=> Mine(p))
           /\ Queueing'
           /\ \A g \in Gens \ {gen} : worker'[g] = worker[g]
<1>1. gen \in Gens /\ worker' = [worker EXCEPT ![gen] = w] /\ queue' = queue
  BY LiveFacts DEF Goto
<1>2. worker'[gen] = w /\ \A g \in Gens \ {gen} : worker'[g] = worker[g]
  BY <1>1 DEF Settled, Sound, Typed, Types
<1>3. \A p \in Pools : Evs(p)' = Evs(p) /\ (Mine(p)' <=> Mine(p))
  BY <1>1, <1>2 DEF Evs, Mine, At
<1>4. Queueing'
  BY <1>1, <1>2 DEF Settled, Configured, Queueing, At
<1> QED BY <1>1, <1>2, <1>3, <1>4

\* It is done.
LEMMA FinishFrame ==
    ASSUME Settled, Live, Finish(gen), ~At(gen, "idle"), gen' = gen
    PROVE  /\ worker'[gen] = IdleWorker /\ ~queue'[gen].again
           /\ \A p \in Pools : ~Mine(p)'
           /\ \A p \in Pools : p # queue[gen].busy.pool => Evs(p)' = Evs(p)
           /\ queue[gen].again => Elems(queue'[gen]) = Elems(queue[gen]) \cup {queue[gen].busy}
           /\ ~queue[gen].again => Elems(queue'[gen]) = Elems(queue[gen])
           /\ \A p \in Pools : /\ queue[gen].again => Evs(p)' \subseteq Evs(p) \cup {queue[gen].busy}
                               /\ ~queue[gen].again => Evs(p)' = Evs(p)
           /\ Queueing'
           /\ \A g \in Gens \ {gen} : worker'[g] = worker[g] /\ queue'[g] = queue[g]
<1>1. /\ gen \in Gens /\ worker' = [worker EXCEPT ![gen] = IdleWorker]
      /\ queue' = [queue EXCEPT ![gen] = Completed(queue[gen])]
  BY LiveFacts DEF Finish
<1>2. /\ worker'[gen] = IdleWorker /\ queue'[gen] = Completed(queue[gen])
      /\ \A g \in Gens \ {gen} : worker'[g] = worker[g] /\ queue'[g] = queue[g]
  BY <1>1 DEF Settled, Sound, Typed, Types
<1>3. queue[gen] \in Queues(Events) /\ queue[gen].busy \in Events /\ Simple(queue[gen])
  BY HandledPool
<1>4. /\ queue'[gen].busy = NoEvent /\ ~queue'[gen].again /\ Simple(queue'[gen])
      /\ queue[gen].again => Elems(queue'[gen]) = Elems(queue[gen]) \cup {queue[gen].busy}
      /\ ~queue[gen].again => Elems(queue'[gen]) = Elems(queue[gen])
  BY <1>2, <1>3, CompletedSet, PoolValues
<1>5. \A p \in Pools : ~Mine(p)'
  BY <1>2 DEF Mine, At, IdleWorker
<1>6. Queueing'
  BY <1>1, <1>2, <1>4 DEF Settled, Configured, Queueing, At
<1>7. \A p \in Pools : /\ p # queue[gen].busy.pool => Evs(p)' = Evs(p)
                       /\ queue[gen].again => Evs(p)' \subseteq Evs(p) \cup {queue[gen].busy}
                       /\ ~queue[gen].again => Evs(p)' = Evs(p)
  BY <1>4 DEF Evs
<1> QED BY <1>2, <1>4, <1>5, <1>6, <1>7

\* What the tables of the newest generation are after a call.
LEMMA TableCalls ==
    ASSUME Settled, Live, NEW o, o.spec.net \in Nets
    PROVE  /\ Pooled(gen, o)[gen][o.spec.net] = o /\ Unpooled(gen, o.spec.net)[gen][o.spec.net] = None
           /\ \A n \in Nets \ {o.spec.net} :
                Pooled(gen, o)[gen][n] = dhcp[gen][n] /\ Unpooled(gen, o.spec.net)[gen][n] = dhcp[gen][n]
<1>1. gen \in Gens /\ dhcp \in [Gens -> [Nets -> Objects \cup {None}]]
  BY LiveFacts DEF Settled, Sound, Typed, Types
<1> QED BY <1>1 DEF Pooled, Unpooled

LEMMA CacheCalls ==
    ASSUME Settled, Live, NEW o, o.spec.net \in Nets
    PROVE  /\ Cached(gen, o)[gen][o.spec.net] = o /\ Uncached(gen, o.spec.net)[gen][o.spec.net] = None
           /\ \A n \in Nets \ {o.spec.net} :
                Cached(gen, o)[gen][n] = cache[gen][n] /\ Uncached(gen, o.spec.net)[gen][n] = cache[gen][n]
<1>1. gen \in Gens /\ cache \in [Gens -> [Nets -> Objects \cup {None}]]
  BY LiveFacts DEF Settled, Sound, Typed, Types
<1> QED BY <1>1 DEF Cached, Uncached

LEMMA SubnetCalls ==
    ASSUME Settled, Live, NEW m \in Nets, NEW c
    PROVE  /\ [subnet EXCEPT ![gen][m] = c][gen][m] = c
           /\ \A n \in Nets \ {m} : [subnet EXCEPT ![gen][m] = c][gen][n] = subnet[gen][n]
<1>1. gen \in Gens /\ subnet \in [Gens -> [Nets -> Confs \cup {None}]]
  BY LiveFacts DEF Settled, Sound, Typed, Types
<1> QED BY <1>1

\* The networks of the other pools are other networks.
LEMMA OtherNets ==
    ASSUME OwnNetworks, NEW q \in Pools, NEW x \in Choices[q], NEW p \in Pools, p # q, NEW n \in NetsOf(p)
    PROVE  n \in Nets \ {x.net}
<1>1. x.net \in NetsOf(q)
  BY ChoiceFields
<1>2. n \in Nets
  BY ChoiceFields DEF NetsOf
<1> QED BY <1>1, <1>2 DEF OwnNetworks

\* An event is taken.
LEMMA TakeStage ==
    ASSUME Settled, Live, Take(gen)
    PROVE  Queueing' /\ \A p \in Pools : Stage(p)'
<1>1. gen \in Gens /\ Working /\ queue[gen] \in Queues(Events) /\ Simple(queue[gen])
  BY LiveFacts DEF Settled, Configured, Queueing, Sound, Typed, Types
<1>2. /\ queue[gen].items # <<>> /\ At(gen, "idle")
      /\ queue' = [queue EXCEPT ![gen] = Taken(queue[gen])]
      /\ worker' = [worker EXCEPT ![gen].pc = "sync"]
      /\ UNCHANGED <<ippool, watch, indexer, addrs, listening, cache, dhcp, subnet, servers,
                     gen, main, tenants, budget>>
  BY DEF Take, nic, feed, tables, app, clients
<1>3. /\ queue'[gen] = Taken(queue[gen]) /\ worker'[gen].pc = "sync"
      /\ \A g \in Gens \ {gen} : worker'[g] = worker[g] /\ queue'[g] = queue[g]
  BY <1>1, <1>2 DEF Settled, Sound, Typed, Types, Workers
<1>0. PICK e, q : e = queue'[gen].busy /\ q = e.pool
  OBVIOUS
<1>4. /\ e \in Elems(queue[gen]) /\ Elems(queue'[gen]) = Elems(queue[gen]) \ {e}
      /\ queue'[gen].again = queue[gen].again /\ Simple(queue'[gen])
  BY <1>0, <1>1, <1>2, <1>3, TakenSet
<1>5. ~queue[gen].again
  BY <1>1, <1>2 DEF Settled, Configured, Queueing
<1>6. e \in Events /\ q \in Pools
  <2>1. Elems(queue[gen]) \subseteq Events
    BY <1>1, ElemsTyped
  <2> QED BY <1>0, <1>4, <2>1 DEF Events
<1>7. Queueing'
  BY <1>0, <1>2, <1>3, <1>4, <1>5 DEF Settled, Configured, Queueing, At
<1>8. /\ \A p \in Pools \ {q} : Evs(p)' = Evs(p) /\ ~Mine(p)' /\ ~Mine(p)
      /\ Evs(q)' = Evs(q) \ {e} /\ e \in Evs(q) /\ Mine(q)' /\ ~Mine(q)
  BY <1>0, <1>2, <1>3, <1>4, <1>6 DEF Evs, Mine, At
<1>9. \A p \in Pools \ {q} : ~Changing(p)
  BY <1>6, <1>8, NotChanging
<1>10. Aside(q)
  BY <1>2, <1>8 DEF Aside
<1>11. \A p \in Pools \ {q} : Stage(p)'
  BY <1>2, <1>6, <1>9, <1>10, OthersStage DEF Uncrashed
<1>12. Stage(q)
  BY <1>1, <1>6 DEF Working
<1>13. \A x : As(q, x)' = As(q, x) /\ LacksAddr(q, x)' = LacksAddr(q, x) /\ Empty(q)' = Empty(q)
  BY <1>2 DEF As, Hears, HasAddr, LacksAddr, Empty, Blank, Uncrashed
<1>14. \A x, f : Waits(q, f, x) => Works(q, f, x)'
  BY <1>0, <1>2, <1>4, <1>5, <1>8 DEF Waits, Works
<1>15. ASSUME On(q) PROVE Stage(q)'
  <2>1. e = Ev(q, "update", ippool[q])
    BY <1>8, <1>15 DEF On
  <2>2. On(q)'
    BY <1>0, <1>2, <1>3, <1>8, <1>13, <1>15, <2>1 DEF On, Ev
  <2> QED BY <2>2 DEF Stage
<1>16. ASSUME Adding(q) PROVE Stage(q)'
  <2>1. Waits(q, Ev(q, "add", ippool[q]), ippool[q]) /\ Empty(q) /\ LacksAddr(q, ippool[q])
    BY <1>8, <1>16 DEF Adding, Sends, Works
  <2>2. Works(q, Ev(q, "add", ippool[q]), ippool[q])'
    BY <1>2, <1>14, <2>1 DEF Ev
  <2> QED BY <1>2, <1>3, <1>13, <1>16, <2>1, <2>2 DEF Adding, Stage
<1>17. ASSUME Changing(q) PROVE Stage(q)'
  <2>1. PICK x \in Choices[q] : Change(q, x)
    BY <1>17 DEF Changing
  <2>2. Waits(q, Ev(q, "update", ippool[q]), ippool[q]) /\ As(q, x)
    BY <1>8, <2>1 DEF Change, Sends, Works
  <2>3. Works(q, Ev(q, "update", ippool[q]), ippool[q])'
    BY <1>2, <1>14, <2>2 DEF Ev
  <2>4. Change(q, x)'
    BY <1>2, <1>3, <1>13, <2>2, <2>3 DEF Change
  <2>5. Lone(q)'
    BY <1>2, <1>8, <1>17 DEF Changing, Lone
  <2> QED BY <1>2, <1>17, <2>4, <2>5 DEF Changing, Stage
<1>18. ASSUME Deleting(q) PROVE Stage(q)'
  <2>1. PICK x \in Choices[q] : Delete(q, x)
    BY <1>18 DEF Deleting
  <2>2. Waits(q, Ev(q, "delete", x), None) /\ As(q, x)
    BY <1>8, <2>1 DEF Delete, Sends, Works
  <2>3. Works(q, Ev(q, "delete", x), None)'
    BY <1>14, <2>2 DEF Ev
  <2>4. Delete(q, x)'
    BY <1>2, <1>3, <1>13, <2>2, <2>3 DEF Delete
  <2> QED BY <1>2, <1>18, <2>4 DEF Deleting, Stage
<1>19. ~Off(q)
  BY <1>8 DEF Off
<1> QED BY <1>7, <1>11, <1>12, <1>15, <1>16, <1>17, <1>18, <1>19 DEF Stage

\* When the worker goes on or is done, the pools it does not handle stay where
\* they are.
LEMMA WorkAside ==
    ASSUME Settled, Live, ~At(gen, "idle"), NEW q, q = queue[gen].busy.pool,
           \A p \in Pools \ {q} :
             /\ ippool'[p] = ippool[p] /\ watch'[p] = watch[p] /\ addrs'[p] = addrs[p]
             /\ (gen \in listening'[p] <=> gen \in listening[p])
             /\ (p \in servers'[gen] <=> p \in servers[gen])
             /\ \A n \in NetsOf(p) : /\ cache'[gen][n] = cache[gen][n] /\ dhcp'[gen][n] = dhcp[gen][n]
                                     /\ subnet'[gen][n] = subnet[gen][n],
           UNCHANGED <<indexer, gen, main, tenants, budget>>,
           \/ Finish(gen)
           \/ \E w : Goto(gen, w) /\ w.pc # "idle"
    PROVE  \A p \in Pools \ {q} : Stage(p)'
<1>1. q \in Pools /\ Mine(q)
  BY HandledPool
<1>2. \A p \in Pools \ {q} : ~Changing(p)
  BY <1>1, NotChanging
<1>3. \A p \in Pools \ {q} : ~Mine(p)
  BY DEF Mine
<1>4. \A p \in Pools \ {q} : Evs(p)' = Evs(p) /\ ~Mine(p)'
  BY <1>3, FinishFrame, GotoFrame
<1>5. Aside(q)
  BY <1>3, <1>4 DEF Aside
<1> QED BY <1>1, <1>2, <1>5, OthersStage DEF Uncrashed

LEMMA SyncAddStage ==
    ASSUME Settled, Live, SyncAdd(gen)
    PROVE  Queueing' /\ \A p \in Pools : Stage(p)'
<1>0. PICK q, s, o : q = queue[gen].busy.pool /\ s = ippool[q] /\ o = Object(q, s)
  OBVIOUS
<1>1. ~At(gen, "idle") /\ worker[gen].pc = "sync" /\ queue[gen].busy.action = "add" /\ gen \in Gens
  BY LiveFacts DEF SyncAdd, At
<1>2. UNCHANGED <<ippool, watch, indexer, listening, cache, dhcp, subnet, servers, gen, main, tenants, budget>>
  BY DEF SyncAdd, feed, tables, app, clients
<1>3. /\ q \in Pools /\ Mine(q) /\ Adding(q) /\ Works(q, Ev(q, "add", s), s)
  BY <1>0, <1>1, HandledPool, HandledStage
<1>4. s # None /\ indexer[gen][q] = s /\ Empty(q) /\ LacksAddr(q, s) /\ watch[q] = <<>> /\ s \in Choices[q]
  BY <1>0, <1>1, <1>3, GivenPool DEF Adding, Works, Sends, Waits
<1>5. ~AddressTaken(gen)
  BY <1>0, <1>4 DEF AddressTaken, LacksAddr
<1>6. addrs' = Addressed(o) /\ Goto(gen, [IdleWorker EXCEPT !.pc = "pool", !.obj = o])
  BY <1>0, <1>1, <1>4, <1>5 DEF SyncAdd
<1>7. [IdleWorker EXCEPT !.pc = "pool", !.obj = o].pc = "pool" /\ [IdleWorker EXCEPT !.pc = "pool", !.obj = o].obj = o
  BY DEF IdleWorker
<1>8. o.name = q /\ o.spec = s
  BY <1>0, <1>3, <1>4, ChoiceFields
<1>9. addrs'[q] = addrs[q] \cup {ServerIP[s.conf]} /\ \A p \in Pools \ {q} : addrs'[p] = addrs[p]
  BY <1>0, <1>3, <1>6, <1>8 DEF Addressed, Settled, Sound, Typed, Types
<1>10. /\ worker'[gen] = [IdleWorker EXCEPT !.pc = "pool", !.obj = o] /\ queue' = queue /\ Queueing'
       /\ \A p \in Pools : Evs(p)' = Evs(p) /\ (Mine(p)' <=> Mine(p))
  BY <1>0, <1>1, <1>2, <1>6, <1>7, GotoFrame
<1>11. \A p \in Pools \ {q} : Stage(p)'
  BY <1>0, <1>1, <1>2, <1>6, <1>7, <1>9, WorkAside
<1>12. HasAddr(q, s)'
  BY <1>0, <1>2, <1>4, <1>9 DEF HasAddr, LacksAddr, Uncrashed
<1>13. Works(q, Ev(q, "add", s), s)'
  BY <1>0, <1>2, <1>3, <1>10 DEF Works, Ev
<1>14. Empty(q)'
  BY <1>0, <1>2, <1>4 DEF Empty, Blank
<1>15. Adding(q)'
  BY <1>0, <1>2, <1>3, <1>4, <1>7, <1>10, <1>12, <1>13, <1>14 DEF Adding
<1> QED BY <1>0, <1>10, <1>11, <1>15 DEF Stage

\* The registration of a pool that was added, from the address to the cache.
LEMMA AddingFacts ==
    ASSUME Settled, Live, worker[gen].pc \in {"pool", "status"}
    PROVE  \E q, s :
             /\ q \in Pools /\ s \in Choices[q]
             /\ q = queue[gen].busy.pool /\ s = ippool[q] /\ worker[gen].obj = Object(q, s)
             /\ Adding(q) /\ Works(q, Ev(q, "add", s), s)
             /\ worker[gen].pc = "pool" => Empty(q) /\ HasAddr(q, s)
             /\ worker[gen].pc = "status" =>
                  /\ cache[gen][s.net] = None /\ dhcp[gen][s.net] = Object(q, s)
                  /\ subnet[gen][s.net] = s.conf /\ Hears(q, s)
<1>0. PICK q, s : q = queue[gen].busy.pool /\ s = ippool[q]
  OBVIOUS
<1>1. ~At(gen, "idle")
  BY DEF At
<1>2. q \in Pools
  BY <1>0, <1>1, HandledPool
<1>3. ~On(q)
  BY <1>0, <1>1, HandledPool DEF On
<1>4. ~Changing(q)
  BY <1>0, <1>1, HandledPool DEF Changing, Change, Sends, Waits
<1>5. ~Deleting(q)
  BY <1>0, <1>1, HandledPool DEF Deleting, Delete, Sends, Waits
<1>6. Adding(q) /\ Works(q, Ev(q, "add", s), s)
  BY <1>0, <1>1, <1>3, <1>4, <1>5, HandledPool
<1>7. s # None /\ Mine(q)
  BY <1>0, <1>6 DEF Adding, Works
<1>8. s \in Choices[q]
  BY <1>0, <1>2, <1>7, GivenPool
<1>9. \/ worker[gen].pc = "pool" /\ worker[gen].obj = Object(q, s) /\ Empty(q) /\ HasAddr(q, s)
      \/ /\ worker[gen].pc = "status" /\ worker[gen].obj = Object(q, s)
         /\ cache[gen][s.net] = None /\ dhcp[gen][s.net] = worker[gen].obj /\ subnet[gen][s.net] = s.conf
         /\ Hears(q, s)
  BY <1>0, <1>6, <1>7 DEF Adding, Sends, Waits
<1> QED BY <1>0, <1>2, <1>6, <1>8, <1>9

LEMMA StartPoolStage ==
    ASSUME PatientUsers, OwnNetworks, Settled, Live, StartPool(gen)
    PROVE  Queueing' /\ \A p \in Pools : Stage(p)'
<1>1. worker[gen].pc = "pool" /\ ~At(gen, "idle") /\ gen \in Gens
  BY LiveFacts DEF StartPool, At
<1>2. PICK q, s :
        /\ q \in Pools /\ s \in Choices[q]
        /\ q = queue[gen].busy.pool /\ s = ippool[q] /\ worker[gen].obj = Object(q, s)
        /\ Adding(q) /\ Works(q, Ev(q, "add", s), s) /\ Empty(q) /\ HasAddr(q, s)
  BY <1>1, AddingFacts
<1>0. PICK o : o = Object(q, s)
  OBVIOUS
<1>3. o.name = q /\ o.spec = s /\ s.conf \notin Broken /\ s # None /\ o # None
  BY <1>0, <1>2, ChoiceFields DEF PatientUsers
<1>4. /\ dhcp' = Pooled(gen, o) /\ Run(gen, o)
      /\ subnet' = [subnet EXCEPT ![gen][s.net] = s.conf]
      /\ Goto(gen, [worker[gen] EXCEPT !.pc = "status"])
      /\ UNCHANGED <<ippool, addrs, indexer, watch, cache, gen, main, tenants, budget>>
  BY <1>0, <1>2, <1>3 DEF StartPool, Subnetted, feed, app, clients
<1>5. worker[gen] \in Workers
  BY <1>1, HandledTyped DEF Settled, Sound
<1>6. /\ [worker[gen] EXCEPT !.pc = "status"].pc = "status"
      /\ [worker[gen] EXCEPT !.pc = "status"].obj = o
  BY <1>0, <1>2, <1>5 DEF Workers
<1>7. /\ worker'[gen] = [worker[gen] EXCEPT !.pc = "status"] /\ queue' = queue /\ Queueing'
      /\ \A p \in Pools : Evs(p)' = Evs(p) /\ (Mine(p)' <=> Mine(p))
  BY <1>1, <1>4, <1>6, GotoFrame
<1>8. /\ dhcp'[gen][s.net] = o /\ subnet'[gen][s.net] = s.conf
      /\ \A n \in Nets \ {s.net} : dhcp'[gen][n] = dhcp[gen][n] /\ subnet'[gen][n] = subnet[gen][n]
  <2>1. s.net \in Nets /\ o.spec.net = s.net
    BY <1>2, <1>3, ChoiceFields
  <2>2. dhcp'[gen][s.net] = o /\ \A n \in Nets \ {s.net} : dhcp'[gen][n] = dhcp[gen][n]
    BY <1>4, <2>1, TableCalls
  <2>3. subnet'[gen][s.net] = s.conf /\ \A n \in Nets \ {s.net} : subnet'[gen][n] = subnet[gen][n]
    BY <1>4, <2>1, SubnetCalls
  <2> QED BY <2>2, <2>3
<1>9. /\ listening' = [listening EXCEPT ![q] = @ \cup {gen}]
      /\ servers' = [servers EXCEPT ![gen] = @ \cup {q}]
  BY <1>3, <1>4 DEF Run
<1>10. /\ gen \in listening'[q] /\ q \in servers'[gen]
       /\ \A p \in Pools \ {q} : /\ listening'[p] = listening[p]
                                 /\ (p \in servers'[gen] <=> p \in servers[gen])
  <2>1. listening \in [Pools -> SUBSET Gens] /\ servers \in [Gens -> SUBSET Pools]
    BY DEF Settled, Sound, Typed, Types
  <2>2. gen \in listening'[q] /\ \A p \in Pools \ {q} : listening'[p] = listening[p]
    BY <1>2, <1>9, <2>1
  <2>3. q \in servers'[gen] /\ \A p \in Pools \ {q} : p \in servers'[gen] <=> p \in servers[gen]
    BY <1>1, <1>9, <2>1
  <2> QED BY <2>2, <2>3
<1>11. \A p \in Pools \ {q} : Stage(p)'
  <2>1. \A p \in Pools \ {q} : \A n \in NetsOf(p) :
          dhcp'[gen][n] = dhcp[gen][n] /\ subnet'[gen][n] = subnet[gen][n]
    BY <1>2, <1>8, OtherNets
  <2>2. \E w : Goto(gen, w) /\ w.pc # "idle"
    BY <1>4, <1>6
  <2>3. \A p \in Pools \ {q} :
          /\ ippool'[p] = ippool[p] /\ watch'[p] = watch[p] /\ addrs'[p] = addrs[p]
          /\ (gen \in listening'[p] <=> gen \in listening[p])
          /\ (p \in servers'[gen] <=> p \in servers[gen])
    BY <1>4, <1>10
  <2>4. \A p \in Pools \ {q} : \A n \in NetsOf(p) :
          /\ cache'[gen][n] = cache[gen][n] /\ dhcp'[gen][n] = dhcp[gen][n]
          /\ subnet'[gen][n] = subnet[gen][n]
    BY <1>4, <2>1
  <2>5. q = queue[gen].busy.pool /\ UNCHANGED <<indexer, gen, main, tenants, budget>>
    BY <1>2, <1>4
  <2> QED BY <1>1, <2>2, <2>3, <2>4, <2>5, WorkAside
<1>12. Hears(q, s)'
  BY <1>2, <1>4, <1>10 DEF Hears, HasAddr, Uncrashed
<1>13. Works(q, Ev(q, "add", s), s)'
  BY <1>2, <1>4, <1>7 DEF Works, Ev
<1>14. cache'[gen][s.net] = None
  BY <1>2, <1>4, ChoiceFields DEF Empty, Blank
<1>15. main # "wait" => q \notin tenants
  BY <1>2 DEF Adding
<1>16. Adding(q)'
  BY <1>0, <1>2, <1>3, <1>4, <1>6, <1>7, <1>8, <1>12, <1>13, <1>14, <1>15 DEF Adding
<1> QED BY <1>7, <1>11, <1>16 DEF Stage

\* The pool is cached, and the informer is going to be told of its new status.
LEMMA RegisterCalls ==
    ASSUME Settled, Live, Register(gen), NEW q \in Pools, NEW s \in Choices[q],
           q = worker[gen].obj.name, s = ippool[q], cache[gen][s.net] = None, watch[q] = <<>>
    PROVE  /\ cache' = Cached(gen, Object(q, s)) /\ Finish(gen) /\ used' = used \ {q}
           /\ current' = IF Counts THEN current + 1 ELSE current
           /\ watch'[q] = <<s>> /\ \A p \in Pools \ {q} : watch'[p] = watch[p]
           /\ UNCHANGED <<ippool, nic, informing, indexer, dhcp, subnet, servers, gen, main, appStatus,
                          target, leases, clients, budget>>
<1>1. s # None /\ Object(q, s).spec = s
  BY ChoiceFields
<1>2. /\ cache' = Cached(gen, Object(q, s)) /\ Finish(gen) /\ StatusReset(q)
      /\ current' = IF Counts THEN current + 1 ELSE current
      /\ UNCHANGED <<nic, informing, indexer, dhcp, subnet, servers, gen, main, appStatus, target,
                     leases, clients, budget>>
  BY <1>1 DEF Register
<1>3. used' = used \ {q} /\ ippool' = ippool /\ Sent({q})
  BY <1>2 DEF StatusReset
<1>4. informing
  BY LiveFacts DEF Working
<1>5. watch'[q] = Append(<<>>, s) /\ \A p \in Pools \ {q} : watch'[p] = watch[p]
  BY <1>3, <1>4 DEF Sent
<1>6. Append(<<>>, s) = <<s>>
  OBVIOUS
<1> QED BY <1>2, <1>3, <1>5, <1>6

LEMMA RegisterStage ==
    ASSUME PatientUsers, OwnNetworks, Settled, Live, Register(gen)
    PROVE  Queueing' /\ \A p \in Pools : Stage(p)'
<1>1. worker[gen].pc = "status" /\ ~At(gen, "idle") /\ gen \in Gens
  BY LiveFacts DEF Register, At
<1>2. PICK q, s :
        /\ q \in Pools /\ s \in Choices[q]
        /\ q = queue[gen].busy.pool /\ s = ippool[q] /\ worker[gen].obj = Object(q, s)
        /\ Adding(q) /\ Works(q, Ev(q, "add", s), s)
        /\ cache[gen][s.net] = None /\ dhcp[gen][s.net] = Object(q, s)
        /\ subnet[gen][s.net] = s.conf /\ Hears(q, s)
  BY <1>1, AddingFacts
<1>0. PICK o : o = Object(q, s)
  OBVIOUS
<1>3. o.name = q /\ o.spec = s /\ s # None
  BY <1>0, <1>2, ChoiceFields
<1>4. /\ cache' = Cached(gen, o) /\ Finish(gen)
      /\ watch'[q] = <<s>> /\ \A p \in Pools \ {q} : watch'[p] = watch[p]
      /\ UNCHANGED <<ippool, nic, indexer, dhcp, subnet, servers, gen, main, clients, budget>>
  BY <1>0, <1>2, <1>3, RegisterCalls DEF Works
<1>5. UNCHANGED <<addrs, listening, tenants>>
  BY <1>4 DEF nic, clients
<1>6. cache'[gen][s.net] = o /\ \A n \in Nets \ {s.net} : cache'[gen][n] = cache[gen][n]
  <2>1. s.net \in Nets /\ o.spec.net = s.net
    BY <1>2, <1>3, ChoiceFields
  <2> QED BY <1>4, <2>1, CacheCalls
<1>7. /\ \A p \in Pools : ~Mine(p)'
      /\ Evs(q)' = Evs(q) /\ Queueing'
  BY <1>1, <1>2, <1>4, FinishFrame DEF Works
<1>8. \A p \in Pools \ {q} : Stage(p)'
  <2>1. \A p \in Pools \ {q} : \A n \in NetsOf(p) : cache'[gen][n] = cache[gen][n]
    BY <1>2, <1>6, OtherNets
  <2> QED BY <1>1, <1>2, <1>4, <1>5, <2>1, WorkAside
<1>9. As(q, s)'
  BY <1>0, <1>2, <1>4, <1>5, <1>6 DEF As, Hears, HasAddr, Uncrashed
<1>10. Evs(q) = {} /\ indexer[gen][q] = s
  BY <1>2 DEF Works
<1>11. \A i \in DOMAIN watch'[q] : watch'[q][i] = s
  BY <1>4
<1>12. On(q)'
  BY <1>2, <1>3, <1>4, <1>7, <1>9, <1>10, <1>11 DEF On
<1> QED BY <1>7, <1>8, <1>12 DEF Stage

\* The worker handles an update of q, which was x and is s by now.
Updates(q, s, x) ==
    LET w == worker[gen]
    IN  /\ q \in Pools /\ s \in Choices[q] /\ x \in Choices[q] /\ x.net = s.net
        /\ q = queue[gen].busy.pool /\ s = ippool[q] /\ indexer[gen][q] = s
        /\ queue[gen].busy = Ev(q, "update", s)
        /\ \/ On(q) /\ x = s
           \/ Changing(q) /\ Works(q, Ev(q, "update", s), s)
        /\ \/ w.pc = "sync" /\ As(q, x)
           \/ w.pc = "change" /\ As(q, x) /\ w.obj = Object(q, s) /\ w.old = Object(q, x)
           \/ /\ w.pc = "reload" /\ w.obj = Object(q, s) /\ Changing(q)
              /\ cache[gen][s.net] # None /\ subnet[gen][s.net] = s.conf /\ Hears(q, s)

LEMMA UpdateFacts ==
    ASSUME PatientUsers, Settled, Live, ~At(gen, "idle"), queue[gen].busy.action = "update"
    PROVE  \E q, s, x : Updates(q, s, x)
<1>0. PICK q, s : q = queue[gen].busy.pool /\ s = ippool[q]
  OBVIOUS
<1>1. q \in Pools /\ Mine(q) /\ (On(q) \/ (Changing(q) /\ Works(q, Ev(q, "update", s), s)))
  BY <1>0, HandledPool, HandledStage
<1>2. CASE On(q)
  <2>1. s # None /\ indexer[gen][q] = s /\ As(q, s) /\ queue[gen].busy = Ev(q, "update", s)
        /\ \/ worker[gen].pc = "sync"
           \/ worker[gen].pc = "change" /\ worker[gen].obj = Object(q, s) /\ worker[gen].old = Object(q, s)
    BY <1>0, <1>1, <1>2 DEF On
  <2>2. s \in Choices[q]
    BY <1>0, <1>1, <2>1, GivenPool
  <2>3. Updates(q, s, s)
    BY <1>0, <1>1, <1>2, <2>1, <2>2 DEF Updates
  <2> QED BY <2>3
<1>3. CASE Changing(q) /\ Works(q, Ev(q, "update", s), s)
  <2>1. s # None /\ indexer[gen][q] = s /\ queue[gen].busy = Ev(q, "update", s)
    BY <1>0, <1>3 DEF Changing, Works
  <2>2. s \in Choices[q]
    BY <1>0, <1>1, <2>1, GivenPool
  <2>3. PICK x \in Choices[q] : Change(q, x)
    BY <1>3 DEF Changing
  <2>4. x.net = s.net
    BY <1>1, <2>2 DEF PatientUsers
  <2>5. \/ worker[gen].pc = "sync" /\ As(q, x)
        \/ worker[gen].pc = "change" /\ worker[gen].obj = Object(q, s) /\ worker[gen].old = Object(q, x) /\ As(q, x)
        \/ /\ worker[gen].pc = "reload" /\ worker[gen].obj = Object(q, s)
           /\ cache[gen][s.net] # None /\ subnet[gen][s.net] = s.conf /\ Hears(q, s)
    BY <1>0, <1>1, <2>3 DEF Change, Sends, Waits
  <2>6. Updates(q, s, x)
    BY <1>0, <1>1, <1>3, <2>1, <2>2, <2>4, <2>5 DEF Updates
  <2> QED BY <2>6
<1> QED BY <1>1, <1>2, <1>3

\* It is looked up in the cache.
LEMMA SyncUpdateStage ==
    ASSUME PatientUsers, Settled, Live, SyncUpdate(gen)
    PROVE  Queueing' /\ \A p \in Pools : Stage(p)'
<1>1. /\ worker[gen].pc = "sync" /\ ~At(gen, "idle") /\ gen \in Gens /\ queue[gen].busy.action = "update"
      /\ UNCHANGED <<ippool, watch, addrs, listening, indexer, cache, dhcp, subnet, servers, gen, main,
                     tenants, budget>>
  BY LiveFacts DEF SyncUpdate, At, nic, feed, tables, app, clients
<1>0. PICK q, s, x : Updates(q, s, x)
  BY <1>1, UpdateFacts
<1>2. /\ q \in Pools /\ s \in Choices[q] /\ x \in Choices[q] /\ x.net = s.net
      /\ q = queue[gen].busy.pool /\ s = ippool[q] /\ indexer[gen][q] = s
      /\ queue[gen].busy = Ev(q, "update", s)
      /\ \/ On(q) /\ x = s
         \/ Changing(q) /\ Works(q, Ev(q, "update", s), s)
      /\ As(q, x)
  BY <1>0, <1>1 DEF Updates
<1>3. PICK w : w = [pc |-> "change", obj |-> Object(q, s), old |-> Object(q, x)]
  OBVIOUS
<1>4. w.pc = "change" /\ w.obj = Object(q, s) /\ w.old = Object(q, x)
  BY <1>3
<1>5. indexer[gen][q] # None /\ cache[gen][queue[gen].busy.net] = Object(q, x) /\ Object(q, x) # None
  BY <1>2, ChoiceFields DEF As, Ev
<1>6. \/ Finish(gen) /\ appStatus = "INIT"
      \/ Goto(gen, w)
  BY <1>2, <1>3, <1>5 DEF SyncUpdate
<1>7. \A p \in Pools \ {q} : Stage(p)'
  BY <1>1, <1>2, <1>4, <1>6, WorkAside
<1>8. As(q, x)'
  BY <1>1, <1>2 DEF As, Hears, HasAddr, Uncrashed
<1>9. CASE On(q) /\ x = s
  <2>1. CASE Goto(gen, w)
    <3>1. /\ worker'[gen] = w /\ queue' = queue /\ Queueing'
          /\ Evs(q)' = Evs(q) /\ (Mine(q)' <=> Mine(q))
      BY <1>1, <1>2, <1>4, <2>1, GotoFrame
    <3>2. On(q)'
      BY <1>1, <1>2, <1>4, <1>8, <1>9, <3>1 DEF On, Ev
    <3> QED BY <1>7, <3>1, <3>2 DEF Stage
  <2>2. CASE Finish(gen)
    <3>1. Queueing' /\ ~Mine(q)' /\ Evs(q)' \subseteq Evs(q) \cup {queue[gen].busy}
      BY <1>1, <1>2, <2>2, FinishFrame
    <3>2. Evs(q)' \subseteq {Ev(q, "update", s)}
      BY <1>2, <1>9, <3>1 DEF On
    <3>3. On(q)'
      BY <1>1, <1>2, <1>8, <1>9, <3>1, <3>2 DEF On, Ev
    <3> QED BY <1>7, <3>1, <3>3 DEF Stage
  <2> QED BY <1>6, <2>1, <2>2
<1>10. CASE Changing(q) /\ Works(q, Ev(q, "update", s), s)
  <2>1. appStatus # "INIT"
    BY <1>10, LiveFacts DEF Changing, Working
  <2>2. /\ worker'[gen] = w /\ queue' = queue /\ Queueing'
        /\ \A p \in Pools : Evs(p)' = Evs(p) /\ (Mine(p)' <=> Mine(p))
    BY <1>1, <1>4, <1>6, <2>1, GotoFrame
  <2>3. Works(q, Ev(q, "update", s), s)'
    BY <1>1, <1>2, <1>10, <2>2 DEF Works, Ev
  <2>4. Change(q, x)'
    BY <1>1, <1>2, <1>4, <1>8, <2>2, <2>3 DEF Change
  <2>5. Lone(q)'
    BY <1>1, <1>10, <2>2 DEF Changing, Lone
  <2>6. Changing(q)'
    BY <1>1, <1>2, <1>10, <2>4, <2>5 DEF Changing
  <2> QED BY <1>7, <2>2, <2>6 DEF Stage
<1> QED BY <1>2, <1>9, <1>10

\* Its options are replaced.
LEMMA ReloadFacts ==
    ASSUME PatientUsers, Settled, Live, worker[gen].pc = "reload"
    PROVE  \E q, s : /\ q \in Pools /\ s \in Choices[q] /\ q = queue[gen].busy.pool /\ s = ippool[q]
                     /\ Changing(q) /\ Works(q, Ev(q, "update", s), s)
                     /\ worker[gen].obj = Object(q, s) /\ cache[gen][s.net] # None
                     /\ subnet[gen][s.net] = s.conf /\ Hears(q, s)
<1>0. PICK q : q = queue[gen].busy.pool
  OBVIOUS
<1>1. ~At(gen, "idle")
  BY DEF At
<1>2. Mine(q)
  BY <1>0, <1>1, HandledPool
<1>3. ~Adding(q) /\ ~Deleting(q) /\ ~On(q)
  <2>1. ~Adding(q)
    BY <1>2 DEF Adding, Sends, Waits
  <2>2. ~Deleting(q)
    BY <1>2 DEF Deleting, Delete, Sends, Waits
  <2>3. ~On(q)
    BY <1>2 DEF On
  <2> QED BY <2>1, <2>2, <2>3
<1>4. Changing(q) /\ Works(q, Ev(q, "update", ippool[q]), ippool[q])
  BY <1>0, <1>1, <1>3, HandledPool
<1>5. queue[gen].busy.action = "update"
  BY <1>4 DEF Works, Ev
<1>6. PICK r, s, x : Updates(r, s, x)
  BY <1>1, <1>5, UpdateFacts
<1>7. /\ r \in Pools /\ r = q /\ s \in Choices[q] /\ s = ippool[q]
      /\ worker[gen].obj = Object(q, s) /\ cache[gen][s.net] # None
      /\ subnet[gen][s.net] = s.conf /\ Hears(q, s)
  BY <1>0, <1>6 DEF Updates
<1> QED BY <1>0, <1>4, <1>7

LEMMA DropPoolStage ==
    ASSUME PatientUsers, OwnNetworks, Settled, Live, DropPool(gen)
    PROVE  Queueing' /\ \A p \in Pools : Stage(p)'
<1>1. /\ worker[gen].pc \in {"pool", "reload"} /\ ~At(gen, "idle") /\ gen \in Gens
      /\ UNCHANGED <<ippool, watch, addrs, listening, indexer, queue, worker, cache, subnet, servers,
                     gen, main, tenants, budget>>
      /\ dhcp[gen][worker[gen].obj.spec.net] # None
      /\ dhcp' = Unpooled(gen, worker[gen].obj.spec.net)
  BY LiveFacts DEF DropPool, At, nic, feed, tables, app, clients
<1>2. worker[gen].pc = "reload"
  <2>1. SUFFICES ASSUME worker[gen].pc = "pool" PROVE FALSE
    BY <1>1
  <2>2. PICK q, s : q \in Pools /\ s \in Choices[q] /\ worker[gen].obj = Object(q, s) /\ Empty(q)
    BY <2>1, AddingFacts
  <2> QED BY <1>1, <2>2, ChoiceFields DEF Empty, Blank
<1>4. PICK q, s : /\ q \in Pools /\ s \in Choices[q] /\ q = queue[gen].busy.pool /\ s = ippool[q]
                  /\ Changing(q) /\ Works(q, Ev(q, "update", s), s)
                  /\ worker[gen].obj = Object(q, s) /\ cache[gen][s.net] # None
                  /\ subnet[gen][s.net] = s.conf /\ Hears(q, s)
  BY <1>2, ReloadFacts
<1>5. Object(q, s).spec = s /\ s.net \in Nets /\ s # None
  BY <1>4, ChoiceFields
<1>6. \A n \in Nets \ {s.net} : dhcp'[gen][n] = dhcp[gen][n]
  <2>1. PICK o : o = worker[gen].obj /\ o.spec = s
    BY <1>4, <1>5
  <2>2. dhcp' = Unpooled(gen, o.spec.net)
    BY <1>1, <2>1
  <2> QED BY <1>5, <2>1, <2>2, TableCalls
<1>7. \A p \in Pools : Evs(p)' = Evs(p) /\ (Mine(p)' <=> Mine(p))
  BY <1>1 DEF Evs, Mine, At
<1>8. Queueing'
  BY <1>1 DEF Settled, Configured, Queueing, At
<1>9. \A p \in Pools \ {q} : ~Changing(p)
  BY <1>4, NotChanging DEF Works
<1>10. Aside(q)
  <2>1. \A p \in Pools \ {q} : \A n \in NetsOf(p) : dhcp'[gen][n] = dhcp[gen][n]
    BY <1>4, <1>6, OtherNets
  <2> QED BY <1>1, <1>7, <2>1 DEF Aside
<1>11. \A p \in Pools \ {q} : Stage(p)'
  BY <1>1, <1>4, <1>9, <1>10, OthersStage DEF Uncrashed
<1>12. Hears(q, s)'
  BY <1>1, <1>4 DEF Hears, HasAddr, Uncrashed
<1>13. Works(q, Ev(q, "update", s), s)'
  BY <1>1, <1>4, <1>7 DEF Works, Ev
<1>14. Change(q, s)'
  BY <1>1, <1>2, <1>4, <1>12, <1>13 DEF Change
<1>15. Lone(q)'
  BY <1>1, <1>4, <1>7 DEF Changing, Lone
<1>16. Changing(q)'
  BY <1>1, <1>4, <1>5, <1>14, <1>15 DEF Changing
<1> QED BY <1>8, <1>11, <1>16 DEF Stage

LEMMA ReloadPoolStage ==
    ASSUME PatientUsers, OwnNetworks, Settled, Live, ReloadPool(gen)
    PROVE  Queueing' /\ (\A p \in Pools : Stage(p)') /\ main = "running"
<1>1. /\ worker[gen].pc = "reload" /\ ~At(gen, "idle") /\ gen \in Gens
      /\ UNCHANGED <<ippool, watch, addrs, listening, indexer, subnet, servers,
                     gen, main, tenants, budget>>
      /\ dhcp' = Pooled(gen, worker[gen].obj) /\ cache' = Cached(gen, worker[gen].obj)
      /\ Finish(gen)
  BY LiveFacts DEF ReloadPool, At, nic, feed, tables, app, clients
<1>4. PICK q, s : /\ q \in Pools /\ s \in Choices[q] /\ q = queue[gen].busy.pool /\ s = ippool[q]
                  /\ Changing(q) /\ Works(q, Ev(q, "update", s), s)
                  /\ worker[gen].obj = Object(q, s) /\ cache[gen][s.net] # None
                  /\ subnet[gen][s.net] = s.conf /\ Hears(q, s)
  BY <1>1, ReloadFacts
<1>5. Object(q, s).spec = s /\ s.net \in Nets /\ s # None
  BY <1>4, ChoiceFields
<1>6. /\ dhcp'[gen][s.net] = Object(q, s) /\ cache'[gen][s.net] = Object(q, s)
      /\ \A n \in Nets \ {s.net} : dhcp'[gen][n] = dhcp[gen][n] /\ cache'[gen][n] = cache[gen][n]
  <2>1. PICK o : o = worker[gen].obj /\ o = Object(q, s) /\ o.spec = s
    BY <1>4, <1>5
  <2>2. dhcp' = Pooled(gen, o) /\ cache' = Cached(gen, o)
    BY <1>1, <2>1
  <2>3. dhcp'[gen][s.net] = o /\ \A n \in Nets \ {s.net} : dhcp'[gen][n] = dhcp[gen][n]
    BY <1>5, <2>1, <2>2, TableCalls
  <2>4. cache'[gen][s.net] = o /\ \A n \in Nets \ {s.net} : cache'[gen][n] = cache[gen][n]
    BY <1>5, <2>1, <2>2, CacheCalls
  <2> QED BY <2>1, <2>3, <2>4
<1>7. \A p \in Pools \ {q} : Stage(p)'
  <2>1. \A p \in Pools \ {q} : \A n \in NetsOf(p) :
          dhcp'[gen][n] = dhcp[gen][n] /\ cache'[gen][n] = cache[gen][n]
    BY <1>4, <1>6, OtherNets
  <2> QED BY <1>1, <1>4, <2>1, WorkAside
<1>8. Queueing' /\ ~Mine(q)' /\ Evs(q)' = Evs(q)
  BY <1>1, <1>4, FinishFrame DEF Works
<1>9. As(q, s)'
  BY <1>1, <1>4, <1>6 DEF As, Hears, HasAddr, Uncrashed
<1>10. watch[q] = <<>> /\ indexer[gen][q] = s /\ Evs(q) = {}
  BY <1>4 DEF Works
<1>11. On(q)'
  <2>1. ippool'[q] = s /\ indexer'[gen'][q] = s /\ watch'[q] = <<>> /\ Evs(q)' = {}
    BY <1>1, <1>4, <1>8, <1>10
  <2> QED BY <1>5, <1>8, <1>9, <2>1 DEF On
<1> QED BY <1>4, <1>7, <1>8, <1>11 DEF Stage, Changing

\* What changed is looked at.
LEMMA ChangeFacts ==
    ASSUME PatientUsers, Settled, Live, HandleChange(gen)
    PROVE  \E q, s, x :
             /\ Updates(q, s, x) /\ As(q, x) /\ gen \in Gens /\ ~At(gen, "idle")
             /\ worker[gen].obj = Object(q, s) /\ worker[gen].old = Object(q, x)
             /\ NeedsRestart(worker[gen].old, worker[gen].obj) <=> x.conf # s.conf
             /\ NeedsReload(worker[gen].old, worker[gen].obj) <=> x.opts # s.opts
<1>1. worker[gen].pc = "change" /\ ~At(gen, "idle") /\ gen \in Gens
  BY LiveFacts DEF HandleChange, At
<1>2. queue[gen].busy.action = "update"
  <2>1. PICK q : q = queue[gen].busy.pool
    OBVIOUS
  <2>2. /\ q \in Pools /\ Mine(q)
        /\ \/ On(q)
           \/ Adding(q) /\ Works(q, Ev(q, "add", ippool[q]), ippool[q])
           \/ Changing(q) /\ Works(q, Ev(q, "update", ippool[q]), ippool[q])
           \/ Deleting(q)
    BY <1>1, <2>1, HandledPool
  <2>3. ~Adding(q)
    BY <1>1, <2>2 DEF Adding, Sends, Waits
  <2>4. ~Deleting(q)
    BY <1>1, <2>2 DEF Deleting, Delete, Sends, Waits
  <2>5. On(q) => queue[gen].busy.action = "update"
    BY <2>2 DEF On, Ev
  <2>6. Works(q, Ev(q, "update", ippool[q]), ippool[q]) => queue[gen].busy.action = "update"
    BY DEF Works, Ev
  <2> QED BY <2>2, <2>3, <2>4, <2>5, <2>6
<1>3. PICK q, s, x : Updates(q, s, x)
  BY <1>1, <1>2, UpdateFacts
<1>4. /\ As(q, x) /\ worker[gen].obj = Object(q, s) /\ worker[gen].old = Object(q, x)
      /\ x.net = s.net
  BY <1>1, <1>3 DEF Updates
<1>5. /\ NeedsRestart(worker[gen].old, worker[gen].obj) <=> x.conf # s.conf
      /\ NeedsReload(worker[gen].old, worker[gen].obj) <=> x.opts # s.opts
  BY <1>4 DEF NeedsRestart, NeedsReload, Object
<1> QED BY <1>1, <1>3, <1>4, <1>5

\* Nothing has to be done, or the options are to be replaced.
LEMMA HandleChangeStage ==
    ASSUME PatientUsers, OwnNetworks, Settled, Live, HandleChange(gen),
           ~NeedsRestart(worker[gen].old, worker[gen].obj)
    PROVE  Queueing' /\ \A p \in Pools : Stage(p)'
<1>1. PICK q, s, x :
        /\ Updates(q, s, x) /\ As(q, x) /\ gen \in Gens /\ ~At(gen, "idle")
        /\ worker[gen].obj = Object(q, s) /\ worker[gen].old = Object(q, x)
        /\ NeedsRestart(worker[gen].old, worker[gen].obj) <=> x.conf # s.conf
        /\ NeedsReload(worker[gen].old, worker[gen].obj) <=> x.opts # s.opts
  BY ChangeFacts
<1>2. /\ q \in Pools /\ s \in Choices[q] /\ x \in Choices[q] /\ x.net = s.net /\ x.conf = s.conf
      /\ q = queue[gen].busy.pool /\ s = ippool[q] /\ indexer[gen][q] = s
      /\ queue[gen].busy = Ev(q, "update", s)
      /\ \/ On(q) /\ x = s
         \/ Changing(q) /\ Works(q, Ev(q, "update", s), s)
  BY <1>1 DEF Updates
<1>3. PICK w : w = [IdleWorker EXCEPT !.pc = "reload", !.obj = Object(q, s)]
  OBVIOUS
<1>4. w.pc = "reload" /\ w.obj = Object(q, s)
  BY <1>3 DEF IdleWorker
<1>5. \/ x.opts # s.opts /\ Goto(gen, w)
      \/ x.opts = s.opts /\ Finish(gen)
  BY <1>1, <1>3 DEF HandleChange
<1>6. UNCHANGED <<ippool, watch, addrs, listening, indexer, cache, dhcp, subnet, servers, gen, main,
                  tenants, budget>>
  BY DEF HandleChange, nic, feed, tables, clients
<1>7. \A p \in Pools \ {q} : Stage(p)'
  BY <1>1, <1>2, <1>4, <1>5, <1>6, WorkAside
<1>8. CASE x.opts # s.opts /\ Goto(gen, w)
  <2>1. Changing(q) /\ Works(q, Ev(q, "update", s), s)
    BY <1>2, <1>8
  <2>2. /\ worker'[gen] = w /\ queue' = queue /\ Queueing'
        /\ \A p \in Pools : Evs(p)' = Evs(p) /\ (Mine(p)' <=> Mine(p))
    BY <1>1, <1>4, <1>6, <1>8, GotoFrame
  <2>3. Works(q, Ev(q, "update", s), s)'
    BY <1>2, <1>6, <2>1, <2>2 DEF Works, Ev
  <2>4. cache[gen][s.net] # None
    <3>1. cache[gen][x.net] = Object(q, x)
      BY <1>1 DEF As
    <3>2. Object(q, x) # None
      BY <1>2, ChoiceFields
    <3> QED BY <1>2, <3>1, <3>2
  <2>5. subnet[gen][s.net] = s.conf /\ Hears(q, s)
    BY <1>1, <1>2 DEF As, Hears, HasAddr
  <2>6. Hears(q, s)'
    BY <1>6, <2>5 DEF Hears, HasAddr, Uncrashed
  <2>7. Change(q, s)'
    BY <1>2, <1>4, <1>6, <2>2, <2>3, <2>4, <2>5, <2>6 DEF Change
  <2>8. Lone(q)'
    BY <1>6, <2>1, <2>2 DEF Changing, Lone
  <2>9. Changing(q)'
    BY <1>2, <1>6, <2>1, <2>7, <2>8 DEF Changing
  <2> QED BY <1>7, <2>2, <2>9 DEF Stage
<1>9. CASE x.opts = s.opts /\ Finish(gen)
  <2>1. x = s
    <3>1. x \in Specs /\ s \in Specs
      BY <1>2, ChoiceFields
    <3>2. x.net = s.net /\ x.conf = s.conf /\ x.opts = s.opts
      BY <1>2, <1>9
    <3> QED BY <3>1, <3>2 DEF Specs
  <2>2. As(q, s)'
    BY <1>1, <1>6, <2>1 DEF As, Hears, HasAddr, Uncrashed
  <2>3. /\ Queueing' /\ ~Mine(q)' /\ Evs(q)' \subseteq Evs(q) \cup {queue[gen].busy}
    BY <1>1, <1>2, <1>6, <1>9, FinishFrame
  <2>4. Evs(q) \subseteq {Ev(q, "update", s)} /\ s # None /\ \A i \in DOMAIN watch[q] : watch[q][i] = s
    <3>1. CASE On(q)
      BY <1>2, <3>1 DEF On
    <3>2. CASE Changing(q) /\ Works(q, Ev(q, "update", s), s)
      <4>1. s # None
        BY <1>2, <3>2 DEF Changing
      <4>2. watch[q] = <<>> /\ Evs(q) = {}
        BY <3>2 DEF Works
      <4> QED BY <4>1, <4>2
    <3> QED BY <1>2, <3>1, <3>2
  <2>5. On(q)'
    BY <1>2, <1>6, <2>2, <2>3, <2>4 DEF On, Ev
  <2> QED BY <1>7, <2>3, <2>5 DEF Stage
<1> QED BY <1>5, <1>8, <1>9

\* When only one pool is under way, the others are served or not there.
LEMMA LoneOthers ==
    ASSUME Settled, Live, NEW q \in Pools, Lone(q), watch[q] # <<>> \/ Evs(q) # {} \/ Mine(q),
           NEW p \in Pools, p # q
    PROVE  Off(p) \/ On(p)
<1>1. Stage(p) /\ ~Changing(p)
  BY NotChanging, LiveFacts DEF Working
<1>2. watch[p] = <<>> /\ Evs(p) = {} /\ ~Mine(p)
  BY DEF Lone
<1>3. ~Adding(p)
  BY <1>2 DEF Adding, Sends, Waits, Works
<1>4. ~Deleting(p)
  BY <1>2 DEF Deleting, Delete, Sends, Waits, Works
<1> QED BY <1>1, <1>3, <1>4 DEF Stage

\* The settings need a restart: nothing else is under way.
LEMMA HandleRestart ==
    ASSUME PatientUsers, OwnNetworks, Settled, Live, HandleChange(gen),
           NeedsRestart(worker[gen].old, worker[gen].obj)
    PROVE  Queueing' /\ Services' /\ Calm'
<1>1. PICK q, s, x :
        /\ Updates(q, s, x) /\ As(q, x) /\ gen \in Gens /\ ~At(gen, "idle")
        /\ worker[gen].obj = Object(q, s) /\ worker[gen].old = Object(q, x)
        /\ NeedsRestart(worker[gen].old, worker[gen].obj) <=> x.conf # s.conf
        /\ NeedsReload(worker[gen].old, worker[gen].obj) <=> x.opts # s.opts
  BY ChangeFacts
<1>2. /\ q \in Pools /\ s \in Choices[q] /\ x \in Choices[q] /\ x # s
      /\ q = queue[gen].busy.pool /\ s = ippool[q]
      /\ Changing(q) /\ Works(q, Ev(q, "update", s), s)
  BY <1>1 DEF Updates
<1>0. PICK o : o = Object(q, x)
  OBVIOUS
<1>3. o.name = q /\ o.spec = x /\ s # None
  BY <1>0, <1>2, ChoiceFields
<1>4. /\ listening' = Stopped(gen, o) /\ addrs' = Unaddressed(o) /\ appStatus' = "RESTART" /\ Finish(gen)
      /\ UNCHANGED <<ippool, used, watch, indexer, cache, dhcp, subnet, servers, leases, gen, current,
                     target, main, tenants, budget>>
  BY <1>0, <1>1 DEF HandleChange, feed, tables, clients
<1>5. /\ listening'[q] = listening[q] \ {gen} /\ addrs'[q] = addrs[q] \ {ServerIP[x.conf]}
      /\ \A p \in Pools \ {q} : listening'[p] = listening[p] /\ addrs'[p] = addrs[p]
  BY <1>2, <1>3, <1>4 DEF Stopped, Unaddressed, Settled, Sound, Typed, Types
<1>6. main = "running" /\ Lone(q) /\ watch[q] = <<>> /\ Evs(q) = {} /\ Mine(q) /\ ~queue[gen].again
  BY <1>2 DEF Changing, Works
<1>7. \A p \in Pools \ {q} : Off(p) \/ On(p)
  BY <1>2, <1>6, LoneOthers
<1>8. /\ worker'[gen] = IdleWorker /\ Elems(queue'[gen]) = Elems(queue[gen]) /\ Queueing'
      /\ \A g \in Gens \ {gen} : worker'[g] = worker[g] /\ queue'[g] = queue[g]
  BY <1>1, <1>4, <1>6, FinishFrame
<1>9. Elems(queue[gen]) = {}
  <2>1. queue[gen] \in Queues(Events)
    BY <1>1 DEF Settled, Sound, Typed, Types
  <2>2. Elems(queue[gen]) \subseteq Events
    BY <2>1, ElemsTyped
  <2>3. \A p \in Pools : Evs(p) = {}
    BY <1>6 DEF Lone
  <2> QED BY <2>2, <2>3 DEF Evs, Events
<1>10. \A p \in Pools : listening[p] \subseteq {gen}
  BY DEF Settled, Configured, Calm
<1>11. Calm'
  <2>1. \A g \in Gens : Resting(g)'
    BY <1>1, <1>4, <1>8, <1>9 DEF Settled, Configured, Calm, Resting, At, IdleWorker
  <2>2. \A p \in Pools : listening'[p] \subseteq {gen}
    BY <1>5, <1>10
  <2>3. \A p \in Pools : ippool[p] = None => addrs'[p] = {}
    BY <1>2, <1>3, <1>5, <1>7 DEF Off, On
  <2> QED BY <1>4, <2>1, <2>2, <2>3 DEF Calm
<1>12. Stopping'
  <2>1. \A p \in Pools : watch'[p] = <<>>
    BY <1>4, <1>6 DEF Lone
  <2>2. Existing' \subseteq servers'[gen']
    <3>1. \A p \in Pools \ {q} : On(p) => p \in servers[gen]
      BY DEF On, As, Hears
    <3>2. q \in servers[gen]
      BY <1>1 DEF As, Hears
    <3>3. \A p \in Pools \ {q} : Off(p) => ippool[p] = None
      BY DEF Off
    <3> QED BY <1>4, <1>7, <3>1, <3>2, <3>3 DEF Existing
  <2>3. \A p \in Pools : ippool'[p] = None => listening'[p] = {}
    <3>1. \A p \in Pools \ {q} : Off(p) => gen \notin listening[p]
      BY DEF Off, Empty
    <3>2. \A p \in Pools \ {q} : On(p) => ippool[p] # None
      BY DEF On
    <3> QED BY <1>2, <1>3, <1>4, <1>5, <1>7, <1>10, <3>1, <3>2
  <2>4. Uncrashed' => \A p \in Existing' : addrs'[p] \subseteq {ServerIP[ippool'[p].conf]}
    <3>1. \A p \in Pools \ {q} : Uncrashed /\ On(p) => addrs[p] \subseteq {ServerIP[ippool[p].conf]}
      BY DEF On, As, Hears, HasAddr
    <3>2. Uncrashed => addrs[q] \subseteq {ServerIP[x.conf]}
      BY <1>1 DEF As, Hears, HasAddr
    <3>3. \A p \in Pools \ {q} : Off(p) => ippool[p] = None
      BY DEF Off
    <3> QED BY <1>4, <1>5, <1>7, <3>1, <3>2, <3>3 DEF Existing, Uncrashed
  <2> QED BY <1>4, <1>6, <2>1, <2>2, <2>3, <2>4 DEF Stopping
<1> QED BY <1>4, <1>6, <1>8, <1>11, <1>12 DEF Services

\* A deletion: the pool is looked up in the cache ...
LEMMA DeletionFacts ==
    ASSUME Settled, Live, ~At(gen, "idle"),
           queue[gen].busy.action = "delete" \/ worker[gen].pc = "cleanup"
    PROVE  \E q, x :
             /\ q \in Pools /\ x \in Choices[q] /\ q = queue[gen].busy.pool
             /\ ippool[q] = None /\ Deleting(q) /\ main = "running" /\ Budget["delete"] > 0
             /\ Works(q, Ev(q, "delete", x), None) /\ As(q, x)
             /\ \/ worker[gen].pc = "sync"
                \/ worker[gen].pc = "cleanup" /\ worker[gen].obj = Object(q, x)
<1>1. PICK q : q = queue[gen].busy.pool
  OBVIOUS
<1>2. q \in Pools /\ Mine(q) /\ Deleting(q)
  <2>1. /\ q \in Pools /\ Mine(q)
        /\ \/ On(q)
           \/ Adding(q) /\ Works(q, Ev(q, "add", ippool[q]), ippool[q])
           \/ Changing(q) /\ Works(q, Ev(q, "update", ippool[q]), ippool[q])
           \/ Deleting(q)
    BY <1>1, HandledPool
  <2>2. CASE queue[gen].busy.action = "delete"
    BY <1>1, <2>1, <2>2, HandledStage
  <2>3. CASE worker[gen].pc = "cleanup"
    <3>1. ~On(q)
      BY <2>1, <2>3 DEF On
    <3>2. ~Adding(q)
      BY <2>1, <2>3 DEF Adding, Sends, Waits
    <3>3. ~Changing(q)
      BY <2>1, <2>3 DEF Changing, Change, Sends, Waits
    <3> QED BY <2>1, <3>1, <3>2, <3>3
  <2> QED BY <2>1, <2>2, <2>3
<1>3. PICK x \in Choices[q] : Delete(q, x)
  BY <1>2 DEF Deleting
<1>4. /\ Works(q, Ev(q, "delete", x), None) /\ As(q, x)
      /\ \/ worker[gen].pc = "sync"
         \/ worker[gen].pc = "cleanup" /\ worker[gen].obj = Object(q, x)
  BY <1>2, <1>3 DEF Delete, Sends, Waits
<1> QED BY <1>1, <1>2, <1>3, <1>4 DEF Deleting

\* What is cleaned up is a pool that is served.
LEMMA NoPanic ==
    ASSUME Settled, NEW g \in Gens
    PROVE  ~Panic(g)
<1> SUFFICES ASSUME Panic(g)
             PROVE  FALSE
  OBVIOUS
<1>1. worker[g].pc = "cleanup" /\ ~At(g, "idle")
  BY DEF Panic, At
<1>2. g = gen /\ Live
  BY <1>1 DEF Settled, Configured, Calm, Resting
<1>3. PICK q, x : /\ q \in Pools /\ x \in Choices[q] /\ As(q, x)
                  /\ worker[gen].obj = Object(q, x)
  BY <1>1, <1>2, DeletionFacts
<1> QED BY <1>2, <1>3, ChoiceFields DEF As, Hears, Panic

LEMMA SyncDeleteStage ==
    ASSUME Settled, Live, SyncDelete(gen)
    PROVE  Queueing' /\ \A p \in Pools : Stage(p)'
<1>1. /\ worker[gen].pc = "sync" /\ ~At(gen, "idle") /\ gen \in Gens /\ queue[gen].busy.action = "delete"
      /\ UNCHANGED <<ippool, watch, addrs, listening, indexer, cache, dhcp, subnet, servers, gen, main,
                     tenants, budget>>
  BY LiveFacts DEF SyncDelete, At, nic, feed, tables, app, clients
<1>2. PICK q, x :
        /\ q \in Pools /\ x \in Choices[q] /\ q = queue[gen].busy.pool
        /\ ippool[q] = None /\ main = "running" /\ Budget["delete"] > 0
        /\ Works(q, Ev(q, "delete", x), None) /\ As(q, x)
  BY <1>1, DeletionFacts
<1>3. PICK w : w = [IdleWorker EXCEPT !.pc = "cleanup", !.obj = Object(q, x)]
  OBVIOUS
<1>4. w.pc = "cleanup" /\ w.obj = Object(q, x)
  BY <1>3 DEF IdleWorker
<1>5. cache[gen][queue[gen].busy.net] = Object(q, x) /\ Object(q, x) # None
  BY <1>2, ChoiceFields DEF As, Ev, Works
<1>6. Goto(gen, w)
  BY <1>3, <1>5 DEF SyncDelete
<1>7. \A p \in Pools \ {q} : Stage(p)'
  BY <1>1, <1>2, <1>4, <1>6, WorkAside
<1>8. /\ worker'[gen] = w /\ queue' = queue /\ Queueing'
      /\ \A p \in Pools : Evs(p)' = Evs(p) /\ (Mine(p)' <=> Mine(p))
  BY <1>1, <1>4, <1>6, GotoFrame
<1>9. Works(q, Ev(q, "delete", x), None)'
  BY <1>1, <1>2, <1>8 DEF Works, Ev
<1>10. As(q, x)'
  BY <1>1, <1>2 DEF As, Hears, HasAddr, Uncrashed
<1>11. Delete(q, x)'
  BY <1>1, <1>4, <1>8, <1>9, <1>10 DEF Delete
<1>12. Deleting(q)'
  BY <1>1, <1>2, <1>11 DEF Deleting
<1> QED BY <1>7, <1>8, <1>12 DEF Stage

\* ... and cleaned up.
LEMMA CleanupPoolStage ==
    ASSUME PatientUsers, OwnNetworks, FewFaults, Settled, Live, CleanupPool(gen)
    PROVE  Queueing' /\ (\A p \in Pools : Stage(p)') /\ main = "running"
<1>1. worker[gen].pc = "cleanup" /\ ~At(gen, "idle") /\ gen \in Gens
  BY LiveFacts DEF CleanupPool, At
<1>2. PICK q, x :
        /\ q \in Pools /\ x \in Choices[q] /\ q = queue[gen].busy.pool
        /\ ippool[q] = None /\ main = "running" /\ Budget["delete"] > 0
        /\ Works(q, Ev(q, "delete", x), None) /\ As(q, x)
        /\ worker[gen].obj = Object(q, x)
  BY <1>1, DeletionFacts
<1>0. PICK o : o = Object(q, x)
  OBVIOUS
<1>3. o.name = q /\ o.spec = x /\ x.net \in Nets
  BY <1>0, <1>2, ChoiceFields
<1>4. /\ listening' = Stopped(gen, o) /\ subnet' = [subnet EXCEPT ![gen][x.net] = None]
      /\ dhcp' = Unpooled(gen, o.spec.net) /\ cache' = Uncached(gen, o.spec.net)
      /\ addrs' = Unaddressed(o) /\ Finish(gen)
      /\ UNCHANGED <<ippool, watch, indexer, servers, gen, main, tenants, budget>>
  BY <1>0, <1>2, <1>3 DEF CleanupPool, feed, app, clients
<1>5. /\ listening'[q] = listening[q] \ {gen} /\ addrs'[q] = addrs[q] \ {ServerIP[x.conf]}
      /\ \A p \in Pools \ {q} : listening'[p] = listening[p] /\ addrs'[p] = addrs[p]
  BY <1>2, <1>3, <1>4 DEF Stopped, Unaddressed, Settled, Sound, Typed, Types
<1>6. /\ cache'[gen][x.net] = None /\ dhcp'[gen][x.net] = None /\ subnet'[gen][x.net] = None
      /\ \A n \in Nets \ {x.net} : /\ cache'[gen][n] = cache[gen][n] /\ dhcp'[gen][n] = dhcp[gen][n]
                                   /\ subnet'[gen][n] = subnet[gen][n]
  <2>1. cache'[gen][x.net] = None /\ \A n \in Nets \ {x.net} : cache'[gen][n] = cache[gen][n]
    BY <1>3, <1>4, CacheCalls
  <2>2. dhcp'[gen][x.net] = None /\ \A n \in Nets \ {x.net} : dhcp'[gen][n] = dhcp[gen][n]
    BY <1>3, <1>4, TableCalls
  <2>3. subnet'[gen][x.net] = None /\ \A n \in Nets \ {x.net} : subnet'[gen][n] = subnet[gen][n]
    BY <1>3, <1>4, SubnetCalls
  <2> QED BY <2>1, <2>2, <2>3
<1>7. \A p \in Pools \ {q} : Stage(p)'
  <2>1. \A p \in Pools \ {q} : \A n \in NetsOf(p) :
          /\ cache'[gen][n] = cache[gen][n] /\ dhcp'[gen][n] = dhcp[gen][n]
          /\ subnet'[gen][n] = subnet[gen][n]
    BY <1>2, <1>6, OtherNets
  <2> QED BY <1>1, <1>2, <1>4, <1>5, <2>1, WorkAside
<1>8. Queueing' /\ ~Mine(q)' /\ Evs(q)' = Evs(q)
  BY <1>1, <1>2, <1>4, FinishFrame DEF Works
<1>9. Uncrashed
  BY <1>2 DEF FewFaults, Uncrashed, BudgetKeys, Settled, Configured, Frugal, Sound, Typed, Types
<1>10. addrs'[q] = {}
  BY <1>2, <1>5, <1>9 DEF As, Hears, HasAddr
<1>11. Empty(q)'
  <2>1. \A n \in NetsOf(q) : n = x.net
    BY <1>2, OneNet
  <2> QED BY <1>4, <1>5, <1>6, <2>1 DEF Empty, Blank
<1>12. Off(q)'
  BY <1>2, <1>4, <1>8, <1>10, <1>11 DEF Off, Works
<1> QED BY <1>2, <1>7, <1>8, <1>12 DEF Stage

\* What every step of the worker leaves alone.
LEMMA WorkFrame ==
    ASSUME Settled, Live, Work(gen)
    PROVE  /\ gen \in Gens /\ OnlyAt(gen) /\ \A g \in Gens \ {gen} : queue'[g] = queue[g]
           /\ UNCHANGED <<ippool, informing, indexer, leases, target, gen, main, tenants, budget>>
<1>1. gen \in Gens
  BY LiveFacts
<1>2. OnlyAt(gen)
  BY <1>1, WorkOnly DEF Settled, Sound
<1>3. \A g \in Gens \ {gen} : queue'[g] = queue[g]
  BY <1>1 DEF Work, Take, SyncAdd, NotAdded, DropPool, StartPool, Register, SyncUpdate,
              HandleChange, ReloadPool, SyncDelete, CleanupPool, Goto, Finish, Settled, Sound, Typed, Types
<1>4. UNCHANGED <<ippool, informing, indexer, leases, target, gen, main, tenants, budget>>
  BY DEF Work, Take, SyncAdd, DropPool, StartPool, Register, StatusReset, SyncUpdate, HandleChange,
         ReloadPool, SyncDelete, CleanupPool, feed, tables, app, clients
<1> QED BY <1>1, <1>2, <1>3, <1>4

\* A network no pool may have is never touched.
LEMMA WorkNets ==
    ASSUME Settled, Live, Work(gen), NEW n \in Nets, \A p \in Pools : n \notin NetsOf(p)
    PROVE  /\ cache'[gen][n] = cache[gen][n] /\ dhcp'[gen][n] = dhcp[gen][n]
           /\ subnet'[gen][n] = subnet[gen][n]
<1>1. gen \in Gens
  BY LiveFacts
<1>2. worker[gen].pc \notin {"idle", "sync"} => worker[gen].obj.spec.net # n
  <2>1. SUFFICES ASSUME worker[gen].pc \notin {"idle", "sync"}
                 PROVE  worker[gen].obj.spec.net # n
    OBVIOUS
  <2>2. Made(worker[gen].obj)
    BY <1>1, <2>1 DEF Settled, Chosen
  <2>3. worker[gen].obj \in Objects
    BY <1>1, <2>1, HandledTyped DEF Settled, Sound
  <2>4. worker[gen].obj.name \in Pools
    BY <2>3, ObjectFields
  <2> QED BY <2>2, <2>4 DEF Made, NetsOf
<1>3. CASE DropPool(gen) \/ StartPool(gen) \/ ReloadPool(gen) \/ CleanupPool(gen)
  <2>1. worker[gen].obj.spec.net # n
    BY <1>2, <1>3 DEF DropPool, StartPool, ReloadPool, CleanupPool, At
  <2> QED BY <1>1, <1>3, <2>1 DEF DropPool, StartPool, ReloadPool, CleanupPool, Subnetted, Pooled,
                 Unpooled, Cached, Uncached, Settled, Sound, Typed, Types
<1>4. CASE Register(gen)
  <2>1. worker[gen].obj \in Objects
    BY <1>1, <1>4, HandledTyped DEF Register, At, Settled, Sound
  <2>2. worker[gen].obj.name \in Pools
    BY <2>1, ObjectFields
  <2>3. PICK p, s : p = worker[gen].obj.name /\ s = ippool[p]
    OBVIOUS
  <2>4. s # None => s \in Choices[p] /\ Object(p, s).spec = s
    BY <2>2, <2>3, GivenPool, ChoiceFields
  <2>5. s # None => s.net # n
    BY <2>2, <2>3, <2>4 DEF NetsOf
  <2>6. cache' = cache \/ (s # None /\ cache' = Cached(gen, Object(p, s)))
    BY <1>4, <2>3 DEF Register
  <2>7. cache'[gen][n] = cache[gen][n]
    BY <1>1, <2>4, <2>5, <2>6 DEF Cached, Settled, Sound, Typed, Types
  <2> QED BY <1>4, <2>7 DEF Register
<1>5. CASE Take(gen) \/ SyncAdd(gen) \/ SyncUpdate(gen) \/ HandleChange(gen) \/ SyncDelete(gen)
  BY <1>5 DEF Take, SyncAdd, SyncUpdate, HandleChange, SyncDelete, tables
<1> QED BY <1>3, <1>4, <1>5 DEF Work

LEMMA WorkUnused ==
    ASSUME Settled, Live, Work(gen)
    PROVE  Unused' /\ Unclaimed' /\ Frugal'
<1>1. /\ gen \in Gens /\ OnlyAt(gen) /\ main # "listen"
      /\ UNCHANGED <<indexer, gen, main, budget>>
  BY WorkFrame DEF Live
<1>2. \A g \in Gens \ {gen} : \A n \in Nets : Blank(g, n)' <=> Blank(g, n)
  BY <1>1 DEF OnlyAt, Blank
<1>3. Unused'
  <2>1. \A g \in Gens : g > gen => g # gen
    BY <1>1 DEF Gens
  <2> QED BY <1>1, <1>2, <2>1 DEF Settled, Configured, Unused
<1>4. Unclaimed'
  <2>1. \A n \in Nets : (\A p \in Pools : n \notin NetsOf(p)) => (Blank(gen, n)' <=> Blank(gen, n))
    BY <1>1, WorkNets DEF Blank
  <2>2. \A g \in Gens : \A n \in Nets : (\A p \in Pools : n \notin NetsOf(p)) => Blank(g, n)'
    BY <1>1, <1>2, <2>1 DEF Settled, Configured, Unclaimed, Blank
  <2> QED BY <2>2 DEF Unclaimed, NetsOf
<1>5. Frugal'
  BY <1>1 DEF Settled, Configured, Frugal
<1> QED BY <1>3, <1>4, <1>5

LEMMA WorkCalm ==
    ASSUME Settled, Live, Work(gen), appStatus' = appStatus
    PROVE  Calm'
<1>1. /\ gen \in Gens /\ OnlyAt(gen) /\ \A g \in Gens \ {gen} : queue'[g] = queue[g]
      /\ UNCHANGED <<gen, main>>
  BY WorkFrame
<1>2. Live'
  BY <1>1 DEF Live
<1>3. \A g \in Gens \ {gen} : Resting(g)'
  BY <1>1 DEF Settled, Configured, Calm, Resting, At, OnlyAt
<1>4. \A p \in Pools : listening[p] \subseteq {gen}
  BY DEF Settled, Configured, Calm
<1>5. \A p \in Pools : listening'[p] \subseteq {gen}
  <2>1. listening \in [Pools -> SUBSET Gens]
    BY DEF Settled, Sound, Typed, Types
  <2>2. CASE listening' = listening
    BY <1>4, <2>2
  <2>3. CASE listening' # listening
    <3>1. \/ \E o : listening' = Stopped(gen, o)
          \/ \E o : Run(gen, o)
      BY <2>3 DEF Work, Take, SyncAdd, DropPool, StartPool, Register, SyncUpdate, HandleChange,
                  ReloadPool, SyncDelete, CleanupPool, nic
    <3>2. ASSUME NEW o, listening' = Stopped(gen, o)
          PROVE  \A p \in Pools : listening'[p] \subseteq {gen}
      BY <1>4, <2>1, <3>2 DEF Stopped
    <3>3. ASSUME NEW o, Run(gen, o)
          PROVE  \A p \in Pools : listening'[p] \subseteq {gen}
      BY <1>4, <2>1, <3>3 DEF Run
    <3> QED BY <3>1, <3>2, <3>3
  <2> QED BY <2>2, <2>3
<1> QED BY <1>1, <1>2, <1>3, <1>5 DEF Calm

\* Only a pool no one has an address of is registered once the addresses were
\* taken again.
LEMMA WorkTenancy ==
    ASSUME Settled, Live, Work(gen)
    PROVE  Tenancy'
<1>1. UNCHANGED <<ippool, leases, gen, main, tenants>>
  BY WorkFrame
<1>2. used' = used \/ (Register(gen) /\ used' = used \ {worker[gen].obj.name})
  BY DEF Work, Take, SyncAdd, DropPool, StartPool, Register, StatusReset, SyncUpdate, HandleChange,
         ReloadPool, SyncDelete, CleanupPool
<1>3. Register(gen) /\ main \in {"replayed", "running"} => worker[gen].obj.name \notin tenants
  <2>1. SUFFICES ASSUME Register(gen), main \in {"replayed", "running"}
                 PROVE  worker[gen].obj.name \notin tenants
    OBVIOUS
  <2>2. PICK q, s : q \in Pools /\ s \in Choices[q] /\ worker[gen].obj = Object(q, s) /\ Adding(q)
    BY <2>1, AddingFacts DEF Register, At
  <2>3. worker[gen].obj.name = q
    BY <2>2, ChoiceFields
  <2> QED BY <2>1, <2>2, <2>3 DEF Adding
<1>4. \A p \in tenants : main \in {"replayed", "running"} => p \in used'
  BY <1>2, <1>3 DEF Settled, Configured, Tenancy
<1>5. \A p \in tenants : /\ ippool[p] # None
                         /\ main \in {"replayed", "running"} => leases[gen][p] = ippool[p].net
  BY DEF Settled, Configured, Tenancy
<1>6. \A p \in tenants' : /\ ippool'[p] # None
                          /\ main' \in {"replayed", "running"} => p \in used' /\ leases'[gen'][p] = ippool'[p].net
  BY <1>1, <1>4, <1>5
<1> QED BY <1>6 DEF Tenancy

\* The pools that were counted are those in the cache.
LEMMA CountedRegister ==
    ASSUME PatientUsers, OwnNetworks, Settled, Live, Register(gen), main = "wait"
    PROVE  current' = Cardinality(Registered')
<1>1. worker[gen].pc = "status" /\ gen \in Gens /\ Working
  BY LiveFacts DEF Register, At
<1>2. PICK q, s :
        /\ q \in Pools /\ s \in Choices[q]
        /\ q = queue[gen].busy.pool /\ s = ippool[q] /\ worker[gen].obj = Object(q, s)
        /\ Works(q, Ev(q, "add", s), s) /\ cache[gen][s.net] = None
  BY <1>1, AddingFacts
<1>0. PICK o : o = Object(q, s)
  OBVIOUS
<1>3. o.name = q /\ o.spec = s /\ s # None /\ o # None /\ s.net \in Nets
  BY <1>0, <1>2, ChoiceFields
<1>4. /\ cache' = Cached(gen, o) /\ UNCHANGED <<ippool, gen>>
      /\ current' = IF Counts THEN current + 1 ELSE current
  BY <1>0, <1>2, <1>3, RegisterCalls DEF Works
<1>5. cache'[gen][s.net] = o /\ \A n \in Nets \ {s.net} : cache'[gen][n] = cache[gen][n]
  BY <1>3, <1>4, CacheCalls
<1>6. Counts /\ current = Cardinality(Registered)
  BY <1>1 DEF Working, Counts
<1>7. \A p \in Pools \ {q} : ippool[p] # None => ippool[p].net \in Nets \ {s.net}
  <2>1. ASSUME NEW p \in Pools, p # q, ippool[p] # None
        PROVE  ippool[p].net \in Nets \ {s.net}
    <3>1. ippool[p] \in Choices[p]
      BY <2>1, GivenPool
    <3>2. ippool[p].net \in NetsOf(p)
      BY <2>1, <3>1, ChoiceFields
    <3> QED BY <1>2, <2>1, <3>2, OtherNets
  <2> QED BY <2>1
<1>8. Registered' = Registered \cup {q} /\ q \notin Registered
  BY <1>2, <1>3, <1>4, <1>5, <1>7 DEF Registered, Existing
<1>9. IsFiniteSet(Registered)
  BY PoolValues, FS_Subset DEF Registered, Existing
<1>10. Cardinality(Registered \cup {q}) = Cardinality(Registered) + 1
  BY <1>8, <1>9, FS_AddElement
<1> QED BY <1>4, <1>6, <1>8, <1>10

LEMMA WorkServices ==
    ASSUME PatientUsers, OwnNetworks, Settled, Live, Work(gen), appStatus' = appStatus,
           \A p \in Pools : Stage(p)', ReloadPool(gen) \/ CleanupPool(gen) => main = "running"
    PROVE  Services'
<1>1. UNCHANGED <<ippool, informing, target, gen, main>>
  BY WorkFrame
<1>2. Working
  BY LiveFacts
<1>3. main = "wait" => current' = Cardinality(Registered')
  <2>1. CASE Register(gen)
    BY <2>1, CountedRegister
  <2>2. CASE ~Register(gen) /\ main = "wait"
    <3>1. cache' = cache /\ current' = current
      BY <2>2 DEF Work, Take, SyncAdd, DropPool, StartPool, SyncUpdate, HandleChange, SyncDelete,
                  tables, app
    <3>2. Registered' = Registered
      BY <1>1, <3>1 DEF Registered, Existing
    <3> QED BY <1>2, <2>2, <3>1, <3>2 DEF Working
  <2> QED BY <2>1, <2>2
<1>4. Working'
  BY <1>1, <1>2, <1>3 DEF Working
<1>5. Live'
  BY <1>1 DEF Live
<1>6. Existing' = Existing
  BY <1>1 DEF Existing
<1> QED BY <1>1, <1>4, <1>5, <1>6 DEF Services, Settled, Configured

LEMMA WorkConfigured ==
    ASSUME PatientUsers, OwnNetworks, FewFaults, Settled, NEW g \in Gens, Work(g)
    PROVE  Configured'
<1>1. g = gen /\ Live /\ Work(gen)
  BY WorkNow
<1>2. Unused' /\ Unclaimed' /\ Frugal' /\ Tenancy'
  BY <1>1, WorkUnused, WorkTenancy
<1>3. CASE HandleChange(gen) /\ NeedsRestart(worker[gen].old, worker[gen].obj)
  BY <1>1, <1>2, <1>3, HandleRestart DEF Configured
<1>4. CASE ~(HandleChange(gen) /\ NeedsRestart(worker[gen].old, worker[gen].obj))
  <2>1. /\ Queueing' /\ \A p \in Pools : Stage(p)'
        /\ ReloadPool(gen) \/ CleanupPool(gen) => main = "running"
    BY <1>1, <1>4, TakeStage, SyncAddStage, DropPoolStage, StartPoolStage, RegisterStage,
       SyncUpdateStage, HandleChangeStage, ReloadPoolStage, SyncDeleteStage, CleanupPoolStage DEF Work
  <2>2. appStatus' = appStatus
    BY <1>1, <1>4 DEF Work, Take, SyncAdd, DropPool, StartPool, Register, SyncUpdate, HandleChange,
                      ReloadPool, SyncDelete, CleanupPool, app
  <2>3. Services' /\ Calm'
    BY <1>1, <2>1, <2>2, WorkServices, WorkCalm
  <2> QED BY <1>2, <2>1, <2>3 DEF Configured
<1> QED BY <1>3, <1>4

-----------------------------------------------------------------------------
(* The informer.                                                           *)

\* An event is on its way only to an informer that runs.
LEMMA WatchLive ==
    ASSUME Settled, NEW p \in Pools, watch[p] # <<>>
    PROVE  Live /\ informing
<1>1. informing /\ main \in {"wait", "replayed", "running"}
  BY DEF Settled, Sound, Typed, Fed, Informed
<1>2. ~Early /\ ~Stopping
  BY <1>1 DEF Early, Stopping
<1> QED BY <1>1, <1>2 DEF Settled, Configured, Services

\* The next event of a pool, and what it changes.
LEMMA DeliverFacts ==
    ASSUME Settled, NEW p \in Pools, Deliver(p)
    PROVE  \E new, old, e :
             /\ new = Head(watch[p]) /\ old = indexer[gen][p] /\ gen \in Gens /\ Live
             /\ e = [pool   |-> p,
                     action |-> IF new = None THEN "delete" ELSE IF old = None THEN "add" ELSE "update",
                     net    |-> IF new = None THEN old.net ELSE new.net]
             /\ e \in Events
             /\ queue'[gen] = Enqueued(queue[gen], e) /\ \A g \in Gens \ {gen} : queue'[g] = queue[g]
             /\ indexer'[gen][p] = new /\ \A q \in Pools \ {p} : indexer'[gen][q] = indexer[gen][q]
             /\ \A g \in Gens \ {gen} : indexer'[g] = indexer[g]
             /\ watch'[p] = Tail(watch[p]) /\ \A q \in Pools \ {p} : watch'[q] = watch[q]
             /\ UNCHANGED <<ippool, used, addrs, listening, informing, worker, cache, dhcp, subnet, servers,
                            leases, gen, appStatus, current, target, main, tenants, budget>>
<1>1. PICK new, old, e :
        /\ new = Head(watch[p]) /\ old = indexer[gen][p]
        /\ e = [pool   |-> p,
                action |-> IF new = None THEN "delete" ELSE IF old = None THEN "add" ELSE "update",
                net    |-> IF new = None THEN old.net ELSE new.net]
  OBVIOUS
<1>2. watch[p] # <<>>
  BY DEF Deliver
<1>3. Live /\ informing /\ gen \in Gens
  BY <1>2, WatchLive, LiveFacts
<1>4. /\ queue' = [queue EXCEPT ![gen] = Enqueued(queue[gen], e)]
      /\ indexer' = [indexer EXCEPT ![gen][p] = new]
      /\ watch' = [watch EXCEPT ![p] = Tail(watch[p])]
      /\ UNCHANGED <<ippool, used, addrs, listening, informing, worker, cache, dhcp, subnet, servers,
                     leases, gen, appStatus, current, target, main, tenants, budget>>
  BY <1>1 DEF Deliver, nic, tables, app, clients
<1>5. e \in Events
  <2>1. Follows(p) /\ watch[p] \in Seq(Specs \cup {None}) /\ old \in Specs \cup {None}
    BY <1>1, <1>3 DEF Settled, Sound, Typed, Types, Fed
  <2>2. new \in Specs \cup {None} /\ new = watch[p][1]
    BY <1>1, <1>2, <2>1, HeadTailProperties
  <2>3. new = None => old # None
    BY <1>1, <1>2, <2>1, <2>2 DEF Follows
  <2>4. (IF new = None THEN old.net ELSE new.net) \in Nets
    BY <2>1, <2>2, <2>3 DEF Specs
  <2> QED BY <1>1, <2>4 DEF Events
<1>6. /\ queue'[gen] = Enqueued(queue[gen], e) /\ \A g \in Gens \ {gen} : queue'[g] = queue[g]
      /\ watch'[p] = Tail(watch[p]) /\ \A q \in Pools \ {p} : watch'[q] = watch[q]
  BY <1>3, <1>4 DEF Settled, Sound, Typed, Types
<1>7. /\ indexer'[gen][p] = new /\ \A q \in Pools \ {p} : indexer'[gen][q] = indexer[gen][q]
      /\ \A g \in Gens \ {gen} : indexer'[g] = indexer[g]
  BY <1>3, <1>4 DEF Settled, Sound, Typed, Types
<1> QED BY <1>1, <1>3, <1>4, <1>5, <1>6, <1>7

LEMMA DeliverStage ==
    ASSUME Settled, NEW p \in Pools, Deliver(p)
    PROVE  Queueing' /\ \A q \in Pools : Stage(q)'
<1>1. PICK new, old, e :
        /\ new = Head(watch[p]) /\ old = indexer[gen][p] /\ gen \in Gens /\ Live
        /\ e = [pool   |-> p,
                action |-> IF new = None THEN "delete" ELSE IF old = None THEN "add" ELSE "update",
                net    |-> IF new = None THEN old.net ELSE new.net]
        /\ e \in Events
        /\ queue'[gen] = Enqueued(queue[gen], e) /\ \A g \in Gens \ {gen} : queue'[g] = queue[g]
        /\ indexer'[gen][p] = new /\ \A q \in Pools \ {p} : indexer'[gen][q] = indexer[gen][q]
        /\ \A g \in Gens \ {gen} : indexer'[g] = indexer[g]
        /\ watch'[p] = Tail(watch[p]) /\ \A q \in Pools \ {p} : watch'[q] = watch[q]
        /\ UNCHANGED <<ippool, used, addrs, listening, informing, worker, cache, dhcp, subnet, servers,
                       leases, gen, appStatus, current, target, main, tenants, budget>>
  BY DeliverFacts
<1>2. watch[p] # <<>> /\ watch[p] \in Seq(Specs \cup {None})
  BY DEF Deliver, Settled, Sound, Typed, Types
<1>3. /\ 1 \in DOMAIN watch[p] /\ new = watch[p][1]
      /\ \A i \in DOMAIN Tail(watch[p]) : i + 1 \in DOMAIN watch[p] /\ Tail(watch[p])[i] = watch[p][i + 1]
  <2>1. /\ Len(watch[p]) \in Nat \ {0} /\ DOMAIN watch[p] = 1..Len(watch[p])
        /\ Tail(watch[p]) \in Seq(Specs \cup {None}) /\ Len(Tail(watch[p])) = Len(watch[p]) - 1
        /\ \A i \in 1..Len(Tail(watch[p])) : Tail(watch[p])[i] = watch[p][i + 1]
    BY <1>2, HeadTailProperties, EmptySeq, LenProperties
  <2>2. DOMAIN Tail(watch[p]) = 1..Len(Tail(watch[p]))
    BY <2>1, LenProperties
  <2> QED BY <1>1, <2>1, <2>2
<1>4. /\ queue[gen] \in Queues(Events) /\ Simple(queue[gen])
      /\ (At(gen, "idle") => queue[gen].busy = NoEvent /\ ~queue[gen].again)
      /\ (queue[gen].again => queue[gen].busy.action = "update")
  BY <1>1 DEF Settled, Configured, Queueing, Sound, Typed, Types
<1>5. /\ queue'[gen].busy = queue[gen].busy /\ Simple(queue'[gen])
      /\ e # queue[gen].busy => Elems(queue'[gen]) = Elems(queue[gen]) \cup {e} /\ queue'[gen].again = queue[gen].again
      /\ e = queue[gen].busy => Elems(queue'[gen]) = Elems(queue[gen]) /\ queue'[gen].again
  BY <1>1, <1>4, EnqueuedSet
<1>6. e.pool = p
  BY <1>1
<1>7. e = queue[gen].busy => Mine(p)
  BY <1>1, <1>4, <1>6, PoolValues DEF Mine
<1>8. \A q \in Pools : Mine(q)' <=> Mine(q)
  BY <1>1, <1>5 DEF Mine, At
<1>9. /\ \A q \in Pools \ {p} : Evs(q)' = Evs(q)
      /\ Evs(p)' \subseteq Evs(p) \cup {e}
      /\ ~Mine(p) => Evs(p)' = Evs(p) \cup {e}
  BY <1>1, <1>5, <1>6, <1>7 DEF Evs
<1>10. \A q \in Pools \ {p} : ~Changing(q)
  BY <1>2, NotChanging
<1>11. Aside(p)
  <2>1. \A q \in Pools \ {p} : Mine(q) => e # queue[gen].busy
    BY <1>6 DEF Mine
  <2> QED BY <1>1, <1>5, <1>8, <1>9, <2>1 DEF Aside
<1>12. \A q \in Pools \ {p} : Stage(q)'
  BY <1>1, <1>10, <1>11, OthersStage DEF Uncrashed
<1>13. \A x : As(p, x)' = As(p, x) /\ LacksAddr(p, x)' = LacksAddr(p, x) /\ Empty(p)' = Empty(p)
  BY <1>1 DEF As, Hears, HasAddr, LacksAddr, Empty, Blank, Uncrashed
<1>14. \A x, y : Sends(p, x, y) => /\ x = old /\ y = new /\ watch'[p] = <<>> /\ Evs(p)' = {e} /\ ~Mine(p)'
  <2> SUFFICES ASSUME NEW x, NEW y, Sends(p, x, y)
               PROVE  /\ x = old /\ y = new /\ watch'[p] = <<>> /\ Evs(p)' = {e} /\ ~Mine(p)'
    OBVIOUS
  <2>1. watch[p] = <<y>> /\ indexer[gen][p] = x /\ Evs(p) = {} /\ ~Mine(p)
    BY DEF Sends
  <2>2. Head(<<y>>) = y /\ Tail(<<y>>) = <<>>
    OBVIOUS
  <2> QED BY <1>1, <1>8, <1>9, <2>1, <2>2
<1>15. \A x, y, f : Sends(p, x, y) /\ f = e => Waits(p, f, y)'
  BY <1>1, <1>14 DEF Waits
<1>16. Stage(p)
  BY <1>1, LiveFacts DEF Working
<1>17. ~Off(p)
  BY <1>2 DEF Off
<1>18. ASSUME On(p) PROVE Stage(p)' /\ (e = queue[gen].busy => queue[gen].busy.action = "update")
  <2>1. PICK s : s = ippool[p]
    OBVIOUS
  <2>2. new = s /\ old = s /\ s # None /\ \A i \in DOMAIN watch[p] : watch[p][i] = s
    BY <1>1, <1>3, <1>18, <2>1 DEF On
  <2>3. e = Ev(p, "update", s)
    BY <1>1, <2>2 DEF Ev
  <2>4. \A i \in DOMAIN watch'[p] : watch'[p][i] = s
    BY <1>1, <1>3, <2>2
  <2>5. Evs(p)' \subseteq {Ev(p, "update", s)}
    BY <1>9, <1>18, <2>1, <2>3 DEF On
  <2>6. On(p)'
    BY <1>1, <1>5, <1>8, <1>13, <1>18, <2>1, <2>2, <2>4, <2>5 DEF On, Ev
  <2> QED BY <2>3, <2>6 DEF Stage, Ev
<1>19. ASSUME Adding(p) PROVE Stage(p)' /\ ~Mine(p)
  <2>1. PICK s : s = ippool[p]
    OBVIOUS
  <2>2. s # None /\ Sends(p, None, s) /\ Empty(p) /\ LacksAddr(p, s)
    BY <1>2, <1>19, <2>1 DEF Adding, Waits, Works
  <2>3. e = Ev(p, "add", s)
    BY <1>1, <1>14, <2>2 DEF Ev
  <2>4. Waits(p, Ev(p, "add", s), s)'
    BY <1>1, <1>15, <2>1, <2>2, <2>3 DEF Ev
  <2>5. Adding(p)'
    BY <1>1, <1>13, <1>19, <2>1, <2>2, <2>4 DEF Adding
  <2> QED BY <2>2, <2>5 DEF Stage, Sends
<1>20. ASSUME Changing(p) PROVE Stage(p)' /\ ~Mine(p)
  <2>1. PICK s, x : s = ippool[p] /\ x \in Choices[p] /\ Change(p, x)
    BY <1>20 DEF Changing
  <2>2. Sends(p, x, s) /\ As(p, x)
    BY <1>2, <2>1 DEF Change, Waits, Works
  <2>3. x # None /\ s # None
    BY <1>20, <2>1, ChoiceFields DEF Changing
  <2>4. e = Ev(p, "update", s)
    BY <1>1, <1>14, <2>2, <2>3 DEF Ev
  <2>5. Waits(p, Ev(p, "update", s), s)'
    BY <1>1, <1>15, <2>1, <2>2, <2>4 DEF Ev
  <2>6. Change(p, x)'
    BY <1>1, <1>13, <2>1, <2>2, <2>5 DEF Change
  <2>7. Lone(p)'
    BY <1>1, <1>8, <1>9, <1>20 DEF Changing, Lone
  <2>8. Changing(p)'
    BY <1>1, <1>20, <2>1, <2>6, <2>7 DEF Changing
  <2> QED BY <2>2, <2>8 DEF Stage, Sends
<1>21. ASSUME Deleting(p) PROVE Stage(p)' /\ ~Mine(p)
  <2>1. PICK x : x \in Choices[p] /\ Delete(p, x)
    BY <1>21 DEF Deleting
  <2>2. Sends(p, x, None) /\ As(p, x)
    BY <1>2, <2>1 DEF Delete, Waits, Works
  <2>3. e = Ev(p, "delete", x)
    BY <1>1, <1>14, <2>2 DEF Ev
  <2>4. Waits(p, Ev(p, "delete", x), None)'
    BY <1>1, <1>15, <2>1, <2>2, <2>3 DEF Ev
  <2>5. Delete(p, x)'
    BY <1>1, <1>13, <2>1, <2>2, <2>4 DEF Delete
  <2>6. Deleting(p)'
    BY <1>1, <1>21, <2>1, <2>5 DEF Deleting
  <2> QED BY <2>2, <2>6 DEF Stage, Sends
<1>22. Stage(p)' /\ (e = queue[gen].busy => queue[gen].busy.action = "update")
  BY <1>7, <1>16, <1>17, <1>18, <1>19, <1>20, <1>21 DEF Stage
<1>23. Queueing'
  <2>1. \A g \in Gens : worker'[g] = worker[g]
    BY <1>1
  <2>2. Simple(queue'[gen]) /\ (queue'[gen].again => queue'[gen].busy.action = "update")
    BY <1>4, <1>5, <1>22
  <2>3. At(gen, "idle") => queue'[gen].busy = NoEvent /\ ~queue'[gen].again
    BY <1>1, <1>4, <1>5, PoolValues
  <2> QED BY <1>1, <2>1, <2>2, <2>3 DEF Settled, Configured, Queueing, At
<1> QED BY <1>12, <1>22, <1>23

LEMMA DeliverConfigured ==
    ASSUME Settled, NEW p \in Pools, Deliver(p)
    PROVE  Configured'
<1>1. /\ gen \in Gens /\ Live /\ \A g \in Gens \ {gen} : queue'[g] = queue[g] /\ indexer'[g] = indexer[g]
      /\ UNCHANGED <<ippool, used, addrs, listening, informing, worker, cache, dhcp, subnet, servers,
                     leases, gen, appStatus, current, target, main, tenants, budget>>
  BY DeliverFacts
<1>2. Queueing' /\ \A q \in Pools : Stage(q)'
  BY DeliverStage
<1>3. Registered' = Registered /\ Existing' = Existing
  BY <1>1 DEF Registered, Existing
<1>4. Live' /\ Working'
  BY <1>1, <1>2, <1>3, LiveFacts DEF Live, Working
<1>5. Services'
  BY <1>1, <1>3, <1>4 DEF Services, Settled, Configured
<1>6. Unused' /\ Unclaimed'
  <2>1. main # "listen" /\ \A g \in Gens : g > gen => g # gen
    BY <1>1 DEF Live, Gens
  <2>2. \A g \in Gens, n \in Nets : Blank(g, n)' = Blank(g, n)
    BY <1>1 DEF Blank
  <2>3. Unused'
    BY <1>1, <2>1, <2>2 DEF Settled, Configured, Unused
  <2>4. Unclaimed'
    BY <2>2 DEF Settled, Configured, Unclaimed, NetsOf
  <2> QED BY <2>3, <2>4
<1>7. Calm'
  BY <1>1, <1>4 DEF Settled, Configured, Calm, Resting, At
<1>8. Tenancy' /\ Frugal'
  BY <1>1 DEF Settled, Configured, Tenancy, Frugal
<1> QED BY <1>2, <1>5, <1>6, <1>7, <1>8 DEF Configured

-----------------------------------------------------------------------------
(* The main goroutine.                                                     *)

\* Before the informer lists the pools, and while the application stops.
LEMMA EarlyFacts ==
    ASSUME Settled, main \in {"start", "count", "listen"}
    PROVE  Early /\ ~Live /\ (\A g \in Gens : Resting(g)) /\ \A p \in Pools : watch[p] = <<>>
<1>1. ~Live /\ ~Stopping
  BY DEF Live, Stopping
<1>2. ~informing
  BY DEF Settled, Sound, Typed, Informed
<1>3. \A p \in Pools : watch[p] = <<>>
  BY <1>2 DEF Settled, Sound, Typed, Fed
<1> QED BY <1>1, <1>3 DEF Settled, Configured, Services, Calm

LEMMA StoppingFacts ==
    ASSUME Settled, main \in {"stop", "cleanup", "reinit"} \/ appStatus = "RESTART"
    PROVE  Stopping /\ ~Live /\ \A g \in Gens : Resting(g)
<1>1. ~Live /\ ~Early
  BY DEF Live, Early
<1> QED BY <1>1 DEF Settled, Configured, Services, Calm

\* The parts of the invariant that a step of the main goroutine leaves alone
\* unless it starts a generation or lists the pools.
LEMMA MainFrame ==
    ASSUME Settled, UNCHANGED <<worker, queue, cache, dhcp, subnet, indexer, gen, budget>>, main' # "listen"
    PROVE  /\ Queueing' /\ Unused' /\ Unclaimed' /\ Frugal'
           /\ \A g \in Gens : Resting(g)' <=> Resting(g)
<1>1. \A g \in Gens, n \in Nets : Blank(g, n)' = Blank(g, n)
  BY DEF Blank
<1>2. Queueing' /\ Frugal' /\ \A g \in Gens : Resting(g)' <=> Resting(g)
  BY DEF Settled, Configured, Queueing, Frugal, Resting, At
<1>3. Unused'
  BY <1>1 DEF Settled, Configured, Unused
<1>4. Unclaimed'
  BY <1>1 DEF Settled, Configured, Unclaimed, NetsOf
<1> QED BY <1>2, <1>3, <1>4

\* No pool in the API has its own address after a clean-up.
LEMMA CleanedFacts ==
    ASSUME Settled, addrs' = CleanedUp, UNCHANGED <<ippool, budget>>
    PROVE  /\ \A p \in Existing' : ServerIP[ippool'[p].conf] \notin addrs'[p]
           /\ \A p \in Pools : addrs'[p] \subseteq addrs[p]
           /\ \A p \in Existing' : addrs[p] \subseteq {ServerIP[ippool[p].conf]} => addrs'[p] = {}
BY DEF CleanedUp, Existing, Settled, Sound, Typed, Types

LEMMA StartProcessConfigured ==
    ASSUME Settled, StartProcess
    PROVE  Configured'
<1>1. /\ main = "start" /\ main' = "count" /\ addrs' = CleanedUp
      /\ UNCHANGED <<ippool, used, listening, watch, informing, indexer, queue, worker, cache, dhcp, subnet,
                     servers, leases, gen, appStatus, current, target, tenants, budget>>
  BY DEF StartProcess, feed, tables, clients
<1>2. Early /\ \A g \in Gens : Resting(g)
  BY <1>1, EarlyFacts
<1>3. /\ Queueing' /\ Unused' /\ Unclaimed' /\ Frugal'
      /\ \A g \in Gens : Resting(g)'
  BY <1>1, <1>2, MainFrame
<1>4. /\ \A p \in Existing' : ServerIP[ippool'[p].conf] \notin addrs'[p]
      /\ \A p \in Pools : addrs'[p] \subseteq addrs[p]
  BY <1>1, CleanedFacts
<1>5. Early'
  <2>1. Uncrashed' => \A p \in Pools : addrs'[p] = {}
    BY <1>1, <1>2, <1>4 DEF Early, Uncrashed
  <2>2. \A p \in Existing' : LacksAddr(p, ippool[p])'
    BY <1>4, <2>1 DEF LacksAddr, Existing
  <2> QED BY <1>1, <1>2, <2>2 DEF Early
<1>6. Calm'
  <2>1. \A p \in Pools : ippool[p] = None => addrs[p] = {}
    BY <1>1, EarlyFacts DEF Settled, Configured, Calm
  <2> QED BY <1>1, <1>3, <1>4, <2>1 DEF Settled, Configured, Calm
<1>7. Tenancy'
  BY <1>1 DEF Settled, Configured, Tenancy
<1> QED BY <1>1, <1>3, <1>5, <1>6, <1>7 DEF Configured, Services

LEMMA CountPoolsConfigured ==
    ASSUME Settled, CountPools
    PROVE  Configured'
<1>1. /\ main = "count" /\ main' = "listen" /\ gen' = gen + 1 /\ current' = 0
      /\ target' = Cardinality(Existing) /\ gen \in Nat
      /\ UNCHANGED <<ippool, used, addrs, listening, watch, informing, indexer, queue, worker, cache, dhcp,
                     subnet, servers, leases, appStatus, tenants, budget>>
  BY DEF CountPools, nic, feed, tables, clients, Settled, Sound, Typed, Types
<1>2. Early /\ ~Live /\ \A g \in Gens : Resting(g)
  BY <1>1, EarlyFacts
<1>3. \A g \in Gens, n \in Nets : Blank(g, n)' = Blank(g, n)
  BY <1>1 DEF Blank
<1>4. Queueing' /\ Frugal' /\ \A g \in Gens : Resting(g)'
  BY <1>1, <1>2 DEF Settled, Configured, Queueing, Frugal, Resting, At
<1>5. Unused'
  <2>1. \A g \in Gens : g > gen' \/ g = gen' => g > gen
    BY <1>1 DEF Gens
  <2> QED BY <1>1, <1>3, <2>1 DEF Settled, Configured, Unused
<1>6. Unclaimed'
  BY <1>3 DEF Settled, Configured, Unclaimed, NetsOf
<1>7. Early'
  <2>1. \A p \in Existing' : LacksAddr(p, ippool[p])'
    BY <1>1, <1>2 DEF Early, LacksAddr, Uncrashed, Existing
  <2> QED BY <1>1, <1>2, <2>1 DEF Early
<1>8. Calm'
  BY <1>1, <1>2, <1>4 DEF Settled, Configured, Calm, Early
<1>9. Services' /\ Tenancy'
  BY <1>1, <1>7 DEF Services, Settled, Configured, Tenancy, Existing
<1> QED BY <1>4, <1>5, <1>6, <1>8, <1>9 DEF Configured

\* Every pool there is waits in the queue.
LEMMA StartListenerConfigured ==
    ASSUME Settled, StartListener
    PROVE  Configured'
<1>1. PICK E : E = {[pool |-> p, action |-> "add", net |-> ippool[p].net] : p \in Existing}
  OBVIOUS
<1>2. PICK l \in Listings(E) : queue' = [queue EXCEPT ![gen] = l]
  BY <1>1 DEF StartListener
<1>3. /\ main = "listen" /\ main' = "wait" /\ informing' /\ indexer' = [indexer EXCEPT ![gen] = ippool]
      /\ UNCHANGED <<ippool, used, addrs, listening, watch, worker, cache, dhcp, subnet, servers, leases, gen,
                     appStatus, current, target, tenants, budget>>
  BY DEF StartListener, nic, tables, clients
<1>4. /\ Early /\ ~Live /\ (\A g \in Gens : Resting(g)) /\ (\A p \in Pools : watch[p] = <<>>)
      /\ gen \in Gens
  BY <1>3, EarlyFacts DEF Settled, Sound, Typed, Informed
<1>5. /\ indexer'[gen] = ippool /\ queue'[gen] = l
      /\ \A g \in Gens \ {gen} : indexer'[g] = indexer[g] /\ queue'[g] = queue[g]
  BY <1>2, <1>3, <1>4 DEF Settled, Sound, Typed, Types
<1>6. E \in SUBSET Events /\ IsFiniteSet(E)
  <2>1. E \in SUBSET Events
    BY <1>1 DEF Events, Existing, Specs, Settled, Sound, Typed, Types
  <2>2. PICK f : f = [p \in Existing |-> [pool |-> p, action |-> "add", net |-> ippool[p].net]]
    OBVIOUS
  <2>3. IsFiniteSet(Existing)
    BY PoolValues, FS_Subset DEF Existing
  <2>4. f \in Surjection(Existing, E)
    BY <1>1, <2>2 DEF Surjection
  <2> QED BY <2>1, <2>3, <2>4, FS_Surjection
<1>7. Elems(queue'[gen]) = E /\ Simple(queue'[gen]) /\ queue'[gen].busy = NoEvent /\ ~queue'[gen].again
  BY <1>2, <1>5, <1>6, ListingsSet, PoolValues
<1>8. Queueing'
  BY <1>3, <1>4, <1>5, <1>7 DEF Settled, Configured, Queueing, At
<1>9. \A p \in Pools : /\ ippool[p] # None => Evs(p)' = {Ev(p, "add", ippool[p])}
                       /\ ippool[p] = None => Evs(p)' = {}
                       /\ ~Mine(p)'
  <2>1. At(gen, "idle")
    BY <1>4 DEF Resting
  <2> QED BY <1>1, <1>3, <1>7, <2>1 DEF Evs, Ev, Existing, Mine, At
<1>10. \A n \in Nets : Blank(gen, n)' /\ cache[gen][n] = None
  BY <1>3, <1>4 DEF Settled, Configured, Unused, Blank
<1>11. \A p \in Pools : Empty(p)'
  <2>1. \A p \in Pools : listening'[p] = {}
    BY <1>3, <1>4 DEF Early
  <2>2. \A p \in Pools : \A n \in NetsOf(p) : n \in Nets
    BY ChoiceFields DEF NetsOf
  <2>3. \A p \in Pools : \A n \in NetsOf(p) : Blank(gen, n)'
    BY <1>10, <2>2
  <2>4. \A p \in Pools : NetsOf(p)' = NetsOf(p)
    BY DEF NetsOf
  <2> QED BY <1>3, <2>1, <2>3, <2>4 DEF Empty, Blank
<1>12. ASSUME NEW p \in Pools
       PROVE  Stage(p)'
  <2>1. PICK s : s = ippool[p]
    OBVIOUS
  <2>2. CASE s # None
    <3>1. Waits(p, Ev(p, "add", s), s)'
      BY <1>3, <1>4, <1>5, <1>9, <2>1, <2>2 DEF Waits, Ev
    <3>2. LacksAddr(p, s)'
      BY <1>3, <1>4, <2>1, <2>2 DEF Early, Existing, LacksAddr, Uncrashed
    <3>3. Adding(p)'
      BY <1>3, <1>11, <2>1, <2>2, <3>1, <3>2 DEF Adding
    <3> QED BY <3>3 DEF Stage
  <2>3. CASE s = None
    <3>1. addrs[p] = {}
      BY <1>4, <2>1, <2>3 DEF Settled, Configured, Calm
    <3>2. Off(p)'
      BY <1>3, <1>4, <1>5, <1>9, <1>11, <2>1, <2>3, <3>1 DEF Off
    <3> QED BY <3>2 DEF Stage
  <2> QED BY <2>2, <2>3
<1>13. current' = Cardinality(Registered')
  <2>1. \A p \in Existing : ippool[p].net \in Nets
    BY DEF Existing, Specs, Settled, Sound, Typed, Types
  <2>2. Registered' = {}
    BY <1>3, <1>10, <2>1 DEF Registered, Existing
  <2>3. current' = 0
    BY <1>3, <1>4 DEF Early
  <2> QED BY <2>2, <2>3, FS_EmptySet
<1>14. Live' /\ Working'
  BY <1>3, <1>4, <1>12, <1>13 DEF Live, Working, Early
<1>15. Services'
  BY <1>3, <1>14 DEF Services, Settled, Configured, Existing
<1>16. Unused' /\ Unclaimed'
  <2>1. \A g \in Gens, n \in Nets : Blank(g, n)' = Blank(g, n)
    BY <1>3 DEF Blank
  <2>2. \A g \in Gens : g > gen => g # gen
    BY <1>4 DEF Gens
  <2>3. Unused'
    BY <1>3, <1>5, <2>1, <2>2 DEF Settled, Configured, Unused
  <2>4. Unclaimed'
    BY <2>1 DEF Settled, Configured, Unclaimed, NetsOf
  <2> QED BY <2>3, <2>4
<1>17. Calm'
  BY <1>3, <1>4, <1>5, <1>14 DEF Settled, Configured, Calm, Resting, At
<1>18. Tenancy' /\ Frugal'
  BY <1>3 DEF Settled, Configured, Tenancy, Frugal
<1> QED BY <1>8, <1>15, <1>16, <1>17, <1>18 DEF Configured

\* Every pool is counted: all that are in the API are served.
LEMMA AllServed ==
    ASSUME Settled, main = "wait", current = target, Live
    PROVE  \A p \in Pools : Off(p) \/ On(p)
<1>1. Working /\ target = Cardinality(Existing)
  BY LiveFacts DEF Settled, Configured, Services
<1>2. IsFiniteSet(Existing) /\ Registered \subseteq Existing
  BY PoolValues, FS_Subset DEF Registered, Existing
<1>3. Cardinality(Registered) = Cardinality(Existing)
  BY <1>1 DEF Working
<1>4. Registered = Existing
  BY <1>2, <1>3, FS_Subset
<1>5. ASSUME NEW p \in Pools
      PROVE  ~Adding(p) /\ ~Changing(p) /\ ~Deleting(p)
  <2>1. ASSUME Adding(p) PROVE FALSE
    <3>1. ippool[p] # None
      BY <2>1 DEF Adding
    <3>2. cache[gen][ippool[p].net] # None
      BY <1>4, <3>1 DEF Registered, Existing
    <3>3. ippool[p].net \in NetsOf(p)
      BY <3>1, GivenPool, ChoiceFields
    <3> QED BY <2>1, <3>2, <3>3 DEF Adding, Empty, Blank
  <2> QED BY <2>1 DEF Changing, Deleting
<1> QED BY <1>1, <1>5 DEF Working, Stage

LEMMA ReplayConfigured ==
    ASSUME Settled, Replay
    PROVE  Configured'
<1>1. PICK again : again = {p \in tenants \cap Existing : cache[gen][ippool[p].net] # None}
  OBVIOUS
<1>2. /\ main = "wait" /\ current = target /\ main' = "replayed"
      /\ used' = used \cup again /\ Sent(again \ used) /\ leases' = Leased(gen, again)
      /\ UNCHANGED <<ippool, addrs, listening, informing, indexer, queue, worker, cache, dhcp, subnet,
                     servers, gen, appStatus, current, target, tenants, budget>>
  BY <1>1 DEF Replay, nic, clients
<1>3. Live /\ Working /\ gen \in Gens
  <2>1. ~Early /\ ~Stopping
    BY <1>2 DEF Early, Stopping
  <2>2. Live
    BY <2>1 DEF Settled, Configured, Services
  <2> QED BY <2>2, LiveFacts
<1>4. \A p \in Pools : Off(p) \/ On(p)
  BY <1>2, <1>3, AllServed
<1>5. \A p \in Pools : On(p) => cache[gen][ippool[p].net] # None
  <2>1. \A p \in Pools : ippool[p] # None => Object(p, ippool[p]) # None
    BY GivenPool, ChoiceFields
  <2> QED BY <2>1 DEF On, As
<1>6. again = tenants /\ tenants \subseteq Pools /\ \A p \in tenants : ippool[p] # None
  <2>1. tenants \subseteq Pools /\ \A p \in tenants : ippool[p] # None
    BY DEF Settled, Configured, Tenancy, Sound, Typed, Types
  <2>2. \A p \in tenants : cache[gen][ippool[p].net] # None
    BY <1>4, <1>5, <2>1 DEF Off
  <2> QED BY <1>1, <2>1, <2>2 DEF Existing
<1>7. \A p \in Pools : watch'[p] = watch[p] \/ (ippool[p] # None /\ watch'[p] = Append(watch[p], ippool[p]))
  BY <1>2, <1>6 DEF Sent
<1>8. ASSUME NEW p \in Pools
      PROVE  Stage(p)'
  <2>1. CASE Off(p)
    <3>1. watch'[p] = <<>>
      BY <1>7, <2>1 DEF Off
    <3>2. Off(p)'
      BY <1>2, <2>1, <3>1 DEF Off, Evs, Mine, At, Empty, Blank
    <3> QED BY <3>2 DEF Stage
  <2>2. CASE On(p)
    <3>1. PICK s : s = ippool[p]
      OBVIOUS
    <3>2. watch[p] \in Seq(Specs \cup {None}) /\ s \in Specs \cup {None}
      BY <3>1 DEF Settled, Sound, Typed, Types
    <3>3. \A i \in DOMAIN Append(watch[p], s) :
            \/ i \in DOMAIN watch[p] /\ Append(watch[p], s)[i] = watch[p][i]
            \/ Append(watch[p], s)[i] = s
      <4>1. /\ Len(watch[p]) \in Nat /\ DOMAIN watch[p] = 1..Len(watch[p])
            /\ DOMAIN Append(watch[p], s) = 1..(Len(watch[p]) + 1)
            /\ \A i \in 1..Len(watch[p]) : Append(watch[p], s)[i] = watch[p][i]
            /\ Append(watch[p], s)[Len(watch[p]) + 1] = s
        BY <3>2, AppendProperties, LenProperties
      <4> QED BY <4>1
    <3>4. \A i \in DOMAIN watch[p] : watch[p][i] = s
      BY <2>2, <3>1 DEF On
    <3>5. \A i \in DOMAIN watch'[p] : watch'[p][i] = s
      BY <1>7, <3>1, <3>3, <3>4
    <3>6. As(p, s)'
      BY <1>2, <2>2, <3>1 DEF On, As, Hears, HasAddr, Uncrashed
    <3>7. On(p)'
      BY <1>2, <2>2, <3>1, <3>5, <3>6 DEF On, Evs, Mine, At
    <3> QED BY <3>7 DEF Stage
  <2> QED BY <1>4, <2>1, <2>2
<1>9. /\ Queueing' /\ Unused' /\ Unclaimed' /\ Frugal'
      /\ \A g \in Gens : Resting(g)' <=> Resting(g)
  BY <1>2, MainFrame
<1>10. Live' /\ Working'
  BY <1>2, <1>3, <1>8 DEF Live, Working
<1>11. Services'
  BY <1>2, <1>10 DEF Services
<1>12. Calm'
  BY <1>2, <1>9, <1>10 DEF Settled, Configured, Calm
<1>13. Tenancy'
  <2>1. \A p \in tenants : leases'[gen][p] = ippool[p].net
    BY <1>2, <1>3, <1>6 DEF Leased, Settled, Sound, Typed, Types
  <2> QED BY <1>2, <1>6, <2>1 DEF Tenancy
<1> QED BY <1>9, <1>11, <1>12, <1>13 DEF Configured

LEMMA RunServicesDoneConfigured ==
    ASSUME Settled, RunServicesDone
    PROVE  Configured'
<1>1. /\ main = "replayed" /\ main' = "running" /\ appStatus' = "RUNNING"
      /\ UNCHANGED <<ippool, used, addrs, listening, watch, informing, indexer, queue, worker, cache, dhcp,
                     subnet, servers, leases, gen, current, target, tenants, budget>>
  BY DEF RunServicesDone, nic, feed, tables, clients
<1>2. Live /\ Working
  <2>1. ~Early /\ ~Stopping
    BY <1>1 DEF Early, Stopping
  <2>2. Live
    BY <2>1 DEF Settled, Configured, Services
  <2> QED BY <2>2, LiveFacts
<1>3. ASSUME NEW p \in Pools
      PROVE  Stage(p)'
  <2>1. ~Changing(p) /\ ~Deleting(p)
    BY <1>1 DEF Changing, Deleting
  <2>2. /\ \A x : As(p, x)' = As(p, x) /\ LacksAddr(p, x)' = LacksAddr(p, x) /\ HasAddr(p, x)' = HasAddr(p, x)
        /\ \A x : Hears(p, x)' = Hears(p, x)
        /\ Empty(p)' = Empty(p) /\ Evs(p)' = Evs(p) /\ (Mine(p)' <=> Mine(p))
    BY <1>1 DEF As, Hears, HasAddr, LacksAddr, Uncrashed, Empty, Blank, Evs, Mine, At
  <2>3. /\ \A x, y : Sends(p, x, y)' = Sends(p, x, y)
        /\ \A e, x : Waits(p, e, x)' = Waits(p, e, x) /\ Works(p, e, x)' = Works(p, e, x)
    BY <1>1, <2>2 DEF Sends, Waits, Works
  <2>4. Off(p) => Off(p)'
    BY <1>1, <2>2 DEF Off
  <2>5. On(p) => On(p)'
    BY <1>1, <2>2 DEF On, Ev
  <2>6. Adding(p) => Adding(p)'
    BY <1>1, <2>2, <2>3 DEF Adding, Ev
  <2>7. Stage(p)
    BY <1>2 DEF Working
  <2> QED BY <2>1, <2>4, <2>5, <2>6, <2>7 DEF Stage
<1>4. /\ Queueing' /\ Unused' /\ Unclaimed' /\ Frugal'
      /\ \A g \in Gens : Resting(g)' <=> Resting(g)
  BY <1>1, MainFrame
<1>5. Live' /\ Working'
  BY <1>1, <1>2, <1>3 DEF Live, Working
<1>6. Services'
  BY <1>1, <1>5 DEF Services
<1>7. Calm'
  BY <1>1, <1>4, <1>5 DEF Settled, Configured, Calm
<1>8. Tenancy'
  BY <1>1 DEF Settled, Configured, Tenancy
<1> QED BY <1>4, <1>6, <1>7, <1>8 DEF Configured

\* The restart, one step after the other.
LEMMA RestartConfigured ==
    ASSUME Settled, Cancel \/ StopListeners \/ CleanNetwork \/ Reinitialize
    PROVE  Configured'
<1>1. Stopping /\ ~Live /\ \A g \in Gens : Resting(g)
  BY StoppingFacts DEF Cancel, StopListeners, CleanNetwork, Reinitialize
<1>2. ~(StopListeners /\ ~(Existing \subseteq servers[gen]))
  BY <1>1 DEF StopListeners, Stopping
<1>3. /\ UNCHANGED <<ippool, used, indexer, queue, worker, cache, dhcp, subnet, servers, leases, gen,
                     current, target, tenants, budget>>
      /\ watch' = watch \/ watch' = [p \in Pools |-> <<>>]
      /\ main' \in {"stop", "cleanup", "reinit", "count"}
  BY <1>2 DEF Cancel, StopListeners, CleanNetwork, Reinitialize, nic, feed, tables, clients
<1>4. /\ Queueing' /\ Unused' /\ Unclaimed' /\ Frugal'
      /\ \A g \in Gens : Resting(g)'
  BY <1>1, <1>3, MainFrame
<1>5. \A p \in Pools : addrs'[p] \subseteq addrs[p] /\ listening'[p] \subseteq listening[p]
  <2>1. CASE Cancel \/ Reinitialize
    BY <2>1 DEF Cancel, Reinitialize, nic
  <2>2. CASE StopListeners
    BY <1>2, <2>2 DEF StopListeners, Closed, Settled, Sound, Typed, Types
  <2>3. CASE CleanNetwork
    BY <1>3, <2>3, CleanedFacts DEF CleanNetwork
  <2> QED BY <2>1, <2>2, <2>3
<1>6. \A p \in Pools : listening[p] \subseteq {gen} /\ (ippool[p] = None => addrs[p] = {})
  BY <1>1 DEF Settled, Configured, Calm
<1>7. Calm'
  <2>1. \A p \in Pools : listening'[p] \subseteq {gen} /\ (ippool[p] = None => addrs'[p] = {})
    BY <1>5, <1>6
  <2> QED BY <1>3, <1>4, <2>1 DEF Calm
<1>8. Tenancy'
  BY <1>3 DEF Settled, Configured, Tenancy
<1>9. Existing' = Existing /\ (Uncrashed' <=> Uncrashed)
  BY <1>3 DEF Existing, Uncrashed
<1>10. Uncrashed => \A p \in Existing : addrs'[p] \subseteq {ServerIP[ippool[p].conf]}
  BY <1>1, <1>5 DEF Stopping, Existing
<1>11. \A p \in Pools : watch'[p] = <<>>
  BY <1>1, <1>3 DEF Stopping
<1>12. CASE Cancel
  <2>1. main' = "stop" /\ main = "running" /\ UNCHANGED <<addrs, listening, appStatus>>
    BY <1>12 DEF Cancel, nic
  <2>2. Stopping'
    BY <1>1, <1>3, <1>9, <1>10, <1>11, <2>1 DEF Stopping
  <2> QED BY <1>4, <1>7, <1>8, <2>1, <2>2 DEF Configured, Services
<1>13. CASE StopListeners
  <2>1. main' = "cleanup" /\ main = "stop" /\ UNCHANGED <<addrs, appStatus>> /\ listening' = Closed
    BY <1>2, <1>13 DEF StopListeners
  <2>2. \A p \in Pools : listening'[p] = {}
    <3>1. \A p \in Pools : ippool[p] = None => listening[p] = {}
      BY <1>1, <2>1 DEF Stopping
    <3> QED BY <1>6, <2>1, <3>1 DEF Closed, Existing
  <2>3. Stopping'
    BY <1>3, <1>9, <1>10, <1>11, <1>1, <2>1, <2>2 DEF Stopping
  <2> QED BY <1>4, <1>7, <1>8, <2>1, <2>3 DEF Configured, Services
<1>14. CASE CleanNetwork
  <2>1. main' = "reinit" /\ main = "cleanup" /\ UNCHANGED <<listening, appStatus>> /\ addrs' = CleanedUp
    BY <1>14 DEF CleanNetwork
  <2>2. /\ \A p \in Existing' : ServerIP[ippool'[p].conf] \notin addrs'[p]
        /\ \A p \in Existing' : addrs[p] \subseteq {ServerIP[ippool[p].conf]} => addrs'[p] = {}
    BY <1>3, <2>1, CleanedFacts
  <2>3. \A p \in Existing' : LacksAddr(p, ippool[p])'
    BY <1>1, <1>3, <1>9, <2>2 DEF LacksAddr, Stopping
  <2>4. Stopping'
    BY <1>1, <1>3, <1>9, <1>10, <1>11, <2>1, <2>3 DEF Stopping
  <2> QED BY <1>4, <1>7, <1>8, <2>1, <2>4 DEF Configured, Services
<1>15. CASE Reinitialize
  <2>1. main' = "count" /\ main = "reinit" /\ UNCHANGED <<addrs, listening>> /\ appStatus' = "INIT"
    BY <1>15 DEF Reinitialize, nic
  <2>2. \A p \in Existing' : LacksAddr(p, ippool[p])'
    BY <1>1, <1>3, <1>9, <2>1 DEF Stopping, LacksAddr
  <2>3. \A p \in Pools : listening'[p] = {}
    BY <1>1, <2>1 DEF Stopping
  <2>4. Early'
    BY <2>1, <2>2, <2>3 DEF Early
  <2> QED BY <1>4, <1>7, <1>8, <2>1, <2>4 DEF Configured, Services
<1> QED BY <1>12, <1>13, <1>14, <1>15

LEMMA MainConfigured ==
    ASSUME Settled, Main
    PROVE  Configured'
BY StartProcessConfigured, CountPoolsConfigured, StartListenerConfigured, ReplayConfigured,
   RunServicesDoneConfigured, RestartConfigured DEF Main

-----------------------------------------------------------------------------
(* The environment.                                                        *)

LEMMA SpendFacts ==
    ASSUME Settled, NEW what \in BudgetKeys, Spend(what)
    PROVE  /\ Frugal' /\ Budget[what] > 0
           /\ what # "crash" => (Uncrashed' <=> Uncrashed)
           /\ what = "crash" => ~Uncrashed'
<1>1. /\ budget \in [BudgetKeys -> Nat] /\ Budget \in [BudgetKeys -> Nat]
      /\ \A k \in BudgetKeys : budget[k] <= Budget[k]
  BY EnvironmentAssumption DEF Settled, Sound, Typed, Types, Configured, Frugal
<1>2. budget[what] > 0 /\ budget' = [budget EXCEPT ![what] = budget[what] - 1]
  BY DEF Spend
<1>3. budget'[what] = budget[what] - 1 /\ \A k \in BudgetKeys \ {what} : budget'[k] = budget[k]
  BY <1>1, <1>2
<1>4. \A k \in BudgetKeys : budget'[k] <= Budget[k]
  BY <1>1, <1>2, <1>3
<1>5. Budget[what] > 0
  BY <1>1, <1>2
<1>6. "crash" \in BudgetKeys
  BY DEF BudgetKeys
<1> QED BY <1>1, <1>2, <1>3, <1>4, <1>5, <1>6 DEF Frugal, Uncrashed

\* When nothing is under way every pool is served as it is configured, or gone.
LEMMA IdleFacts ==
    ASSUME Settled, Idle
    PROVE  /\ Live /\ Working /\ gen \in Gens /\ main = "running"
           /\ \A p \in Pools : /\ Off(p) \/ On(p)
                               /\ watch[p] = <<>> /\ Evs(p) = {} /\ ~Mine(p)
<1>1. main = "running" /\ appStatus = "RUNNING"
  BY DEF Idle
<1>2. Live /\ Working /\ gen \in Gens
  <2>1. Live
    BY <1>1 DEF Live
  <2> QED BY <2>1, LiveFacts
<1>3. queue[gen].items = <<>> /\ At(gen, "idle") /\ \A p \in Pools : watch[p] = <<>>
  BY <1>2 DEF Idle
<1>4. Elems(queue[gen]) = {}
  BY <1>2, <1>3, ElemsTyped DEF Settled, Sound, Typed, Types
<1>5. \A p \in Pools : watch[p] = <<>> /\ Evs(p) = {} /\ ~Mine(p)
  BY <1>3, <1>4 DEF Evs, Mine
<1>6. ASSUME NEW p \in Pools
      PROVE  ~Adding(p) /\ ~Changing(p) /\ ~Deleting(p)
  <2>1. watch[p] = <<>> /\ Evs(p) = {} /\ ~Mine(p)
    BY <1>5
  <2>2. ~Adding(p)
    BY <2>1 DEF Adding, Sends, Waits, Works
  <2>3. ~Changing(p)
    BY <2>1 DEF Changing, Change, Sends, Waits, Works
  <2>4. ~Deleting(p)
    BY <2>1 DEF Deleting, Delete, Sends, Waits, Works
  <2> QED BY <2>2, <2>3, <2>4
<1> QED BY <1>1, <1>2, <1>5, <1>6 DEF Working, Stage

\* Users act when nothing is under way.
LEMMA UserIdle ==
    ASSUME PatientUsers, NEW what \in {"create", "change", "reload", "delete", "tenant"}, Spend(what)
    PROVE  Idle
<1>1. Circumstance = "idle"
  BY DEF PatientUsers, Spend
<1>2. CASE main = "start"
  BY <1>1, <1>2 DEF Circumstance
<1>3. CASE main # "start" /\ appStatus # "RUNNING"
  BY <1>1, <1>3 DEF Circumstance
<1>4. CASE main # "start" /\ appStatus = "RUNNING"
  BY <1>1, <1>4 DEF Circumstance
<1> QED BY <1>2, <1>3, <1>4

\* What is left to show for what a user does to pool p: the stage of p, and who
\* has an address.
LEMMA UserConfigured ==
    ASSUME Settled, Idle, Frugal', Uncrashed' <=> Uncrashed, NEW p \in Pools,
           UNCHANGED <<addrs, listening, informing, indexer, queue, worker, cache, dhcp, subnet,
                       servers, gen, appStatus, current, target, main>>,
           \A q \in Pools \ {p} : ippool'[q] = ippool[q], Sent({p}),
           tenants' \subseteq tenants \cup {p}, watch'[p] = <<ippool'[p]>> => Stage(p)', Tenancy'
    PROVE  Configured'
<1>1. /\ Live /\ Working /\ gen \in Gens /\ main = "running"
      /\ \A q \in Pools : /\ Off(q) \/ On(q)
                          /\ watch[q] = <<>> /\ Evs(q) = {} /\ ~Mine(q)
  BY IdleFacts
<1>2. watch'[p] = Append(<<>>, ippool'[p]) /\ \A q \in Pools \ {p} : watch'[q] = watch[q]
  BY <1>1 DEF Sent, Working
<1>3. Append(<<>>, ippool'[p]) = <<ippool'[p]>>
  OBVIOUS
<1>4. Stage(p)'
  BY <1>2, <1>3
<1>5. \A q \in Pools : Evs(q)' = Evs(q) /\ (Mine(q)' <=> Mine(q))
  BY DEF Evs, Mine, At
<1>6. Aside(p)
  BY <1>2, <1>5 DEF Aside
<1>7. \A q \in Pools : ~Mine(q)
  BY <1>1
<1>8. \A q \in Pools \ {p} : Off(q)' \/ On(q)'
  <2>1. ASSUME NEW q \in Pools \ {p}
        PROVE  Off(q)' \/ On(q)'
    <3>1. /\ ippool'[q] = ippool[q] /\ watch'[q] = <<>> /\ Evs(q)' = {} /\ ~Mine(q)'
          /\ Evs(q) = {}
      BY <1>1, <1>2, <1>5
    <3>2. \A x : As(q, x)' = As(q, x) /\ Empty(q)' = Empty(q)
      BY DEF As, Hears, HasAddr, Empty, Blank
    <3>3. Off(q) => Off(q)'
      BY <3>1, <3>2 DEF Off
    <3>4. On(q) => On(q)'
      BY <3>1, <3>2 DEF On
    <3> QED BY <1>1, <3>3, <3>4
  <2> QED BY <2>1
<1>9. Live' /\ Working'
  BY <1>1, <1>4, <1>8 DEF Live, Working, Stage
<1>10. Services'
  BY <1>1, <1>9 DEF Services
<1>11. \A g \in Gens, n \in Nets : Blank(g, n)' = Blank(g, n)
  BY DEF Blank
<1>12. Queueing' /\ \A g \in Gens : Resting(g)' <=> Resting(g)
  BY DEF Settled, Configured, Queueing, Resting, At
<1>13. Unused'
  BY <1>11 DEF Settled, Configured, Unused
<1>14. Unclaimed'
  BY <1>11 DEF Settled, Configured, Unclaimed, NetsOf
<1>15. Calm'
  BY <1>9, <1>12 DEF Settled, Configured, Calm
<1> QED BY <1>10, <1>12, <1>13, <1>14, <1>15 DEF Configured

LEMMA CreateConfigured ==
    ASSUME PatientUsers, Settled, NEW p \in Pools, CreatePool(p)
    PROVE  Configured'
<1>1. Idle
  BY UserIdle DEF CreatePool
<1>2. Frugal' /\ (Uncrashed' <=> Uncrashed)
  BY SpendFacts DEF CreatePool, BudgetKeys
<1>3. PICK s \in Choices[p] : Write(p, s)
  BY DEF CreatePool
<1>4. /\ ippool[p] = None /\ Sent({p}) /\ ippool' = [ippool EXCEPT ![p] = s]
      /\ UNCHANGED <<used, addrs, listening, informing, indexer, queue, worker, cache, dhcp, subnet,
                     servers, leases, gen, appStatus, current, target, main, tenants>>
  BY <1>3 DEF CreatePool, Write, nic, tables, app, clients
<1>5. ippool'[p] = s /\ s # None /\ \A q \in Pools \ {p} : ippool'[q] = ippool[q]
  BY <1>3, <1>4, ChoiceFields DEF Settled, Sound, Typed, Types
<1>6. Off(p) /\ ~Mine(p)
  BY <1>1, <1>4, IdleFacts DEF On
<1>7. p \notin tenants
  BY <1>4 DEF Settled, Configured, Tenancy
<1>8. ASSUME watch'[p] = <<ippool'[p]>>
      PROVE  Stage(p)'
  <2>1. Sends(p, None, s)'
    BY <1>4, <1>5, <1>6, <1>8 DEF Sends, Off, Evs, Mine, At
  <2>2. Empty(p)' /\ LacksAddr(p, s)'
    BY <1>2, <1>4, <1>6 DEF Off, Empty, Blank, LacksAddr
  <2>3. Adding(p)'
    BY <1>4, <1>5, <1>7, <2>1, <2>2 DEF Adding
  <2> QED BY <2>3 DEF Stage
<1>9. Tenancy'
  <2>1. \A q \in tenants : q \in Pools \ {p}
    BY <1>7 DEF Settled, Sound, Typed, Types
  <2> QED BY <1>4, <1>5, <2>1 DEF Settled, Configured, Tenancy
<1> QED BY <1>1, <1>2, <1>4, <1>5, <1>8, <1>9, UserConfigured

LEMMA ChangeConfigured ==
    ASSUME PatientUsers, Settled, NEW p \in Pools, ChangePool(p)
    PROVE  Configured'
<1>1. PICK s \in Choices[p] \ {ippool[p]}, what \in {"change", "reload"} : Spend(what) /\ Write(p, s)
  BY DEF ChangePool
<1>2. Idle
  BY <1>1, UserIdle
<1>3. Frugal' /\ (Uncrashed' <=> Uncrashed)
  BY <1>1, SpendFacts DEF BudgetKeys
<1>4. /\ ippool[p] # None /\ Sent({p}) /\ ippool' = [ippool EXCEPT ![p] = s]
      /\ UNCHANGED <<used, addrs, listening, informing, indexer, queue, worker, cache, dhcp, subnet,
                     servers, leases, gen, appStatus, current, target, main, tenants>>
  BY <1>1 DEF ChangePool, Write, nic, tables, app, clients
<1>5. ippool'[p] = s /\ s # None /\ \A q \in Pools \ {p} : ippool'[q] = ippool[q]
  BY <1>1, <1>4, ChoiceFields DEF Settled, Sound, Typed, Types
<1>6. PICK x : x = ippool[p]
  OBVIOUS
<1>7. x \in Choices[p] /\ x.net = s.net
  BY <1>1, <1>4, <1>6, GivenPool DEF PatientUsers
<1>8. On(p) /\ ~Mine(p) /\ Evs(p) = {} /\ indexer[gen][p] = x /\ As(p, x) /\ main = "running"
  BY <1>2, <1>4, <1>6, IdleFacts DEF Off, On
<1>9. ASSUME watch'[p] = <<ippool'[p]>>
      PROVE  Stage(p)'
  <2>1. Sends(p, x, s)'
    BY <1>4, <1>5, <1>8, <1>9 DEF Sends, Evs, Mine, At
  <2>2. As(p, x)'
    BY <1>3, <1>4, <1>8 DEF As, Hears, HasAddr
  <2>3. Change(p, x)'
    BY <1>5, <2>1, <2>2 DEF Change
  <2>4. Lone(p)'
    <3>1. \A q \in Pools : watch[q] = <<>> /\ Evs(q) = {} /\ ~Mine(q)
      BY <1>2, IdleFacts
    <3>2. \A q \in Pools \ {p} : watch'[q] = watch[q]
      BY <1>4 DEF Sent
    <3> QED BY <1>4, <3>1, <3>2 DEF Lone, Evs, Mine, At
  <2>5. Changing(p)'
    BY <1>4, <1>5, <1>7, <1>8, <2>3, <2>4 DEF Changing
  <2> QED BY <2>5 DEF Stage
<1>10. Tenancy'
  <2>1. \A q \in Pools : ippool[q] # None => ippool'[q] # None /\ ippool'[q].net = ippool[q].net
    BY <1>5, <1>6, <1>7
  <2>2. tenants \subseteq Pools
    BY DEF Settled, Sound, Typed, Types
  <2> QED BY <1>4, <2>1, <2>2 DEF Settled, Configured, Tenancy
<1> QED BY <1>2, <1>3, <1>4, <1>5, <1>9, <1>10, UserConfigured

LEMMA DeleteConfigured ==
    ASSUME PatientUsers, Settled, NEW p \in Pools, DeletePool(p)
    PROVE  Configured'
<1>1. Idle
  BY UserIdle DEF DeletePool
<1>2. Frugal' /\ (Uncrashed' <=> Uncrashed) /\ Budget["delete"] > 0
  BY SpendFacts DEF DeletePool, BudgetKeys
<1>4. /\ ippool[p] # None /\ p \notin used /\ Sent({p}) /\ ippool' = [ippool EXCEPT ![p] = None]
      /\ used' = used \ {p}
      /\ UNCHANGED <<addrs, listening, informing, indexer, queue, worker, cache, dhcp, subnet,
                     servers, leases, gen, appStatus, current, target, main, tenants>>
  BY DEF DeletePool, Deletable, Write, nic, tables, app, clients
<1>5. ippool'[p] = None /\ \A q \in Pools \ {p} : ippool'[q] = ippool[q]
  BY <1>4 DEF Settled, Sound, Typed, Types
<1>6. PICK x : x = ippool[p]
  OBVIOUS
<1>7. x \in Choices[p]
  BY <1>4, <1>6, GivenPool
<1>8. ~Mine(p) /\ Evs(p) = {} /\ indexer[gen][p] = x /\ As(p, x) /\ main = "running"
  BY <1>1, <1>4, <1>6, IdleFacts DEF Off, On
<1>9. ASSUME watch'[p] = <<ippool'[p]>>
      PROVE  Stage(p)'
  <2>1. Sends(p, x, None)'
    BY <1>4, <1>5, <1>8, <1>9 DEF Sends, Evs, Mine, At
  <2>2. As(p, x)'
    BY <1>2, <1>4, <1>8 DEF As, Hears, HasAddr
  <2>3. Delete(p, x)'
    BY <2>1, <2>2 DEF Delete
  <2>5. Deleting(p)'
    BY <1>2, <1>4, <1>5, <1>7, <1>8, <2>3 DEF Deleting
  <2> QED BY <2>5 DEF Stage
<1>10. Tenancy'
  <2>1. p \notin tenants
    BY <1>4, <1>8 DEF Settled, Configured, Tenancy
  <2>2. \A q \in tenants : q \in Pools \ {p}
    BY <2>1 DEF Settled, Sound, Typed, Types
  <2> QED BY <1>4, <1>5, <2>2 DEF Settled, Configured, Tenancy
<1> QED BY <1>1, <1>2, <1>4, <1>5, <1>9, <1>10, UserConfigured

LEMMA AddTenantConfigured ==
    ASSUME PatientUsers, Settled, NEW p \in Pools, AddTenant(p)
    PROVE  Configured'
<1>1. Idle
  BY UserIdle DEF AddTenant
<1>2. Frugal' /\ (Uncrashed' <=> Uncrashed)
  BY SpendFacts DEF AddTenant, BudgetKeys
<1>4. /\ ippool[p] # None /\ Sent({p}) /\ ippool' = ippool
      /\ used' = used \cup {p} /\ tenants' = tenants \cup {p} /\ leases' = Leased(gen, {p})
      /\ UNCHANGED <<addrs, listening, informing, indexer, queue, worker, cache, dhcp, subnet,
                     servers, gen, appStatus, current, target, main>>
  BY DEF AddTenant, nic, app
<1>6. PICK s : s = ippool[p]
  OBVIOUS
<1>8. On(p) /\ ~Mine(p) /\ Evs(p) = {} /\ As(p, s) /\ main = "running" /\ gen \in Gens
  BY <1>1, <1>4, <1>6, IdleFacts DEF Off, On
<1>9. ASSUME watch'[p] = <<ippool'[p]>>
      PROVE  Stage(p)'
  <2>1. ~Mine(p)' /\ Evs(p)' = {}
    BY <1>4, <1>8 DEF Evs, Mine, At
  <2>2. As(p, s)'
    BY <1>2, <1>4, <1>8 DEF As, Hears, HasAddr
  <2>3. \A i \in DOMAIN <<s>> : <<s>>[i] = s
    OBVIOUS
  <2>4. On(p)'
    BY <1>4, <1>6, <1>8, <1>9, <2>1, <2>2, <2>3 DEF On
  <2> QED BY <2>4 DEF Stage
<1>10. Tenancy'
  <2>1. leases'[gen][p] = s.net /\ \A q \in Pools \ {p} : leases'[gen][q] = leases[gen][q]
    BY <1>4, <1>6, <1>8 DEF Leased, Settled, Sound, Typed, Types
  <2>2. tenants \subseteq Pools
    BY DEF Settled, Sound, Typed, Types
  <2> QED BY <1>4, <1>6, <1>8, <2>1, <2>2 DEF Settled, Configured, Tenancy
<1> QED BY <1>1, <1>2, <1>4, <1>9, <1>10, UserConfigured

\* A packet changes nothing of this.
LEMMA PacketConfigured ==
    ASSUME Settled, UNCHANGED <<ippool, used, nic, feed, queue, worker, tables, app, tenants>>,
           Frugal', Uncrashed' <=> Uncrashed
    PROVE  Configured'
<1>1. UNCHANGED <<ippool, used, addrs, listening, informing, watch, indexer, queue, worker, cache, dhcp, subnet,
                  servers, leases, gen, appStatus, current, target, main, tenants>>
  BY DEF nic, feed, tables, app
<1>2. ASSUME NEW p \in Pools
      PROVE  Stage(p)' <=> Stage(p)
  <2>1. /\ \A x : As(p, x)' = As(p, x) /\ LacksAddr(p, x)' = LacksAddr(p, x) /\ HasAddr(p, x)' = HasAddr(p, x)
        /\ \A x : Hears(p, x)' = Hears(p, x)
        /\ Empty(p)' = Empty(p) /\ \A q \in Pools : Evs(q)' = Evs(q) /\ (Mine(q)' <=> Mine(q))
    BY <1>1 DEF As, Hears, HasAddr, LacksAddr, Empty, Blank, Evs, Mine, At
  <2>2. /\ \A x, y : Sends(p, x, y)' = Sends(p, x, y)
        /\ \A e, x : Waits(p, e, x)' = Waits(p, e, x) /\ Works(p, e, x)' = Works(p, e, x)
        /\ Lone(p)' = Lone(p)
    BY <1>1, <2>1 DEF Sends, Waits, Works, Lone
  <2>3. Off(p)' <=> Off(p)
    BY <1>1, <2>1 DEF Off
  <2>4. On(p)' <=> On(p)
    BY <1>1, <2>1 DEF On
  <2>5. Adding(p)' <=> Adding(p)
    BY <1>1, <2>1, <2>2 DEF Adding
  <2>6. \A x : Change(p, x)' <=> Change(p, x)
    BY <1>1, <2>1, <2>2 DEF Change
  <2>7. \A x : Delete(p, x)' <=> Delete(p, x)
    BY <1>1, <2>1, <2>2 DEF Delete
  <2>8. (Changing(p)' <=> Changing(p)) /\ (Deleting(p)' <=> Deleting(p))
    BY <1>1, <2>2, <2>6, <2>7 DEF Changing, Deleting
  <2> QED BY <2>3, <2>4, <2>5, <2>8 DEF Stage
<1>3. Live' <=> Live
  BY <1>1 DEF Live
<1>4. Registered' = Registered /\ Existing' = Existing
  BY <1>1 DEF Registered, Existing
<1>5. Working => Working'
  BY <1>1, <1>2, <1>4 DEF Working
<1>6. \A p \in Pools : \A x : LacksAddr(p, x)' = LacksAddr(p, x)
  BY <1>1 DEF LacksAddr
<1>7. Early => Early'
  BY <1>1, <1>4, <1>6 DEF Early, Existing
<1>8. Stopping => Stopping'
  BY <1>1, <1>4, <1>6 DEF Stopping, Existing
<1>9. Services'
  BY <1>1, <1>3, <1>4, <1>5, <1>7, <1>8 DEF Services, Settled, Configured
<1>10. \A g \in Gens, n \in Nets : Blank(g, n)' = Blank(g, n)
  BY <1>1 DEF Blank
<1>11. Queueing' /\ Calm' /\ Tenancy'
  BY <1>1, <1>3 DEF Settled, Configured, Queueing, Calm, Resting, At, Tenancy
<1>12. Unused'
  BY <1>1, <1>10 DEF Settled, Configured, Unused
<1>13. Unclaimed'
  BY <1>10 DEF Settled, Configured, Unclaimed, NetsOf
<1> QED BY <1>9, <1>11, <1>12, <1>13 DEF Configured

\* After a crash everything starts again, with the addresses of before.
LEMMA CrashConfigured ==
    ASSUME FewFaults, Settled, Crash
    PROVE  Configured'
<1>1. Frugal' /\ ~Uncrashed' /\ Budget["crash"] > 0
  BY SpendFacts DEF Crash, BudgetKeys
<1>2. ~(Budget["delete"] > 0)
  BY <1>1, EnvironmentAssumption DEF FewFaults, BudgetKeys
<1>3. Die
  BY DEF Crash
<1>4. \A g \in Gens, n \in Nets : Blank(g, n)'
  BY <1>3 DEF Die, NoTable, Blank
<1>5. \A p \in Pools : ippool[p] = None => addrs[p] = {}
  <2>1. CASE Live
    <3>1. \A p \in Pools : Stage(p) /\ ~Deleting(p)
      BY <1>2, <2>1, LiveFacts DEF Working, Deleting
    <3> QED BY <3>1 DEF Stage, Off, On, Adding, Changing
  <2>2. CASE ~Live
    BY <2>2 DEF Settled, Configured, Calm
  <2> QED BY <2>1, <2>2
<1>6. Queueing'
  BY <1>3, EmptySet DEF Die, Queueing, At, EmptyQueue
<1>7. Early'
  BY <1>1, <1>3 DEF Die, Early
<1>8. Unused' /\ Unclaimed'
  BY <1>3, <1>4 DEF Die, NoTable, Unused, Unclaimed
<1>9. Calm'
  <2>1. \A g \in Gens : Resting(g)'
    BY <1>3, EmptySet DEF Die, Resting, At, IdleWorker
  <2>2. \A p \in Pools : listening'[p] = {} /\ (ippool[p] = None => addrs'[p] = {})
    BY <1>3, <1>5 DEF Die
  <2> QED BY <1>3, <2>1, <2>2 DEF Calm, Die
<1>10. Tenancy'
  BY <1>3 DEF Die, Settled, Configured, Tenancy
<1> QED BY <1>1, <1>3, <1>6, <1>7, <1>8, <1>9, <1>10 DEF Configured, Services, Die

LEMMA NextConfigured ==
    ASSUME OwnNetworks, PatientUsers, FewFaults, Settled, [Next]_vars
    PROVE  Configured'
<1>1. ~ListError /\ \A g \in Gens : ~StatusError(g) /\ ~ListenError(g) /\ ~Panic(g)
  BY NoFailure, NoPanic
<1>2. CASE dhcpHandler
  <2>1. UNCHANGED <<ippool, used, nic, feed, queue, worker, tables, app, tenants, budget>>
    BY <1>2 DEF dhcpHandler, ReadLease, CheckPool, ReadPool, Reply, Handle
  <2> QED BY <2>1, PacketConfigured DEF Settled, Configured, Frugal, Uncrashed
<1>3. CASE Ask
  <2>1. UNCHANGED <<ippool, used, nic, feed, queue, worker, tables, app, tenants>>
    BY <1>3 DEF Ask, Receive
  <2>2. Frugal' /\ (Uncrashed' <=> Uncrashed)
    BY <1>3, SpendFacts DEF Ask, BudgetKeys
  <2> QED BY <2>1, <2>2, PacketConfigured
<1>4. CASE UNCHANGED vars
  <2>1. UNCHANGED <<ippool, used, nic, feed, queue, worker, tables, app, tenants, budget>>
    BY <1>4 DEF vars, clients
  <2> QED BY <2>1, PacketConfigured DEF Settled, Configured, Frugal, Uncrashed
<1>5. CASE Users
  BY <1>5, CreateConfigured, ChangeConfigured, DeleteConfigured, AddTenantConfigured DEF Users
<1>6. CASE Crash
  BY <1>6, CrashConfigured
<1>7. CASE Main
  BY <1>7, MainConfigured
<1>8. CASE \E g \in Gens : Work(g)
  BY <1>8, WorkConfigured
<1>9. CASE \E p \in Pools : Deliver(p)
  BY <1>9, DeliverConfigured
<1> QED BY <1>1, <1>2, <1>3, <1>4, <1>5, <1>6, <1>7, <1>8, <1>9 DEF Next, Faults

LEMMA InitConfigured == Init => Configured
<1> SUFFICES ASSUME Init PROVE Configured
  OBVIOUS
<1>1. \A g \in Gens, n \in Nets : Blank(g, n)
  BY DEF Init, NoTable, Blank
<1>2. Queueing
  BY EmptySet DEF Init, Queueing, At, EmptyQueue
<1>3. Early
  BY DEF Init, Early
<1>4. Unused /\ Unclaimed
  BY <1>1 DEF Init, NoTable, Unused, Unclaimed
<1>5. Calm
  BY EmptySet DEF Init, Calm, Resting, At, IdleWorker
<1>6. Tenancy /\ Frugal
  BY EnvironmentAssumption DEF Init, Tenancy, Frugal
<1> QED BY <1>2, <1>3, <1>4, <1>5, <1>6 DEF Configured, Services, Init

LEMMA SettledAlways ==
    ASSUME OwnNetworks, PatientUsers, FewFaults
    PROVE  Spec => []Settled
<1>1. Init => Settled
  BY InitSound, InitChosen, InitConfigured DEF Settled
<1>2. Settled /\ [Next]_vars => Settled'
  BY NextSound, NextChosen, NextConfigured DEF Settled
<1> QED BY <1>1, <1>2, PTL DEF Spec

\* While users wait until nothing is under way, no request fails and pools have
\* networks of their own: whenever there is nothing left to do, every pool in
\* the API is served as it is configured now. Its cache entry, DHCP pool and
\* subnet are those of its present settings, its listener is open, its server
\* address is on the interface and the leases of its machines are known. Between
\* two such moments there may have been registrations, reloads, restarts in the
\* process and, unless pools are deleted, crashes.
THEOREM ConfigurationAppliedHolds ==
    ASSUME OwnNetworks, PatientUsers, FewFaults
    PROVE  Spec => []ConfigurationApplied
<1>1. Settled => ConfigurationApplied
  <2> SUFFICES ASSUME Settled, Idle, NEW p \in Existing
               PROVE  Applied(p)
    BY DEF ConfigurationApplied
  <2>1. p \in Pools /\ ippool[p] # None /\ main = "running" /\ On(p)
    BY IdleFacts DEF Existing, Off
  <2>2. p \in tenants => leases[gen][p] = ippool[p].net
    BY <2>1 DEF Settled, Configured, Tenancy
  <2> QED BY <2>1, <2>2 DEF Applied, On, As, Hears, HasAddr
<1> QED BY <1>1, SettledAlways, PTL

\* Under the same assumptions nothing of an older configuration is left then,
\* unless there was a crash: no address, no listener of an earlier generation,
\* and no cached pool, DHCP pool or subnet of a network that lost its pool.
THEOREM NothingStaleHolds ==
    ASSUME OwnNetworks, PatientUsers, FewFaults
    PROVE  Spec => []NothingStale
<1>1. Settled => NothingStale
  <2> SUFFICES ASSUME Settled, Idle, budget["crash"] = Budget["crash"]
               PROVE  /\ \A p \in Pools :
                           /\ addrs[p] \subseteq {ServerIP[ippool[q].conf] : q \in Existing \cap {p}}
                           /\ listening[p] \subseteq IF p \in Existing THEN {gen} ELSE {}
                      /\ \A n \in Nets : (\A p \in Existing : ippool[p].net # n) =>
                           cache[gen][n] = None /\ dhcp[gen][n] = None /\ subnet[gen][n] = None
    BY DEF NothingStale
  <2>1. gen \in Gens /\ Uncrashed /\ \A p \in Pools : Off(p) \/ On(p)
    BY IdleFacts DEF Uncrashed
  <2>2. ASSUME NEW p \in Pools
        PROVE  /\ addrs[p] \subseteq {ServerIP[ippool[q].conf] : q \in Existing \cap {p}}
               /\ listening[p] \subseteq IF p \in Existing THEN {gen} ELSE {}
    <3>1. listening[p] \subseteq {gen}
      BY DEF Settled, Configured, Calm
    <3>2. CASE Off(p)
      BY <3>1, <3>2 DEF Off, Empty, Existing
    <3>3. CASE On(p)
      BY <2>1, <3>1, <3>3 DEF On, As, Hears, HasAddr, Existing
    <3> QED BY <2>1, <3>2, <3>3
  <2>3. ASSUME NEW n \in Nets, \A p \in Existing : ippool[p].net # n
        PROVE  Blank(gen, n)
    <3>1. CASE \A p \in Pools : n \notin NetsOf(p)
      BY <2>1, <3>1 DEF Settled, Configured, Unclaimed
    <3>2. CASE \E p \in Pools : n \in NetsOf(p)
      <4>1. PICK p \in Pools : n \in NetsOf(p)
        BY <3>2
      <4>2. ~On(p)
        <5>1. On(p) => ippool[p] \in Choices[p]
          BY GivenPool DEF On
        <5>2. On(p) => ippool[p].net = n
          BY <4>1, <5>1, OneNet
        <5> QED BY <2>3, <5>2 DEF On, Existing
      <4> QED BY <2>1, <4>1, <4>2 DEF Off, Empty
    <3> QED BY <3>1, <3>2
  <2> QED BY <2>2, <2>3 DEF Blank
<1> QED BY <1>1, SettledAlways, PTL

-----------------------------------------------------------------------------
(* What a client is answered, and the pools in use.                        *)

\* While a packet is handled, nobody changes the pool of its client back to what
\* it was when the packet was sent.
NotBack ==
    packet # NoPacket /\ packet.asked # None /\ ippool'[packet.client] = packet.asked =>
      ippool[packet.client] = packet.asked

\* A packet that was sent while nothing was under way, by a client whose pool
\* was not changed since.
UpToDate ==
    packet # NoPacket /\ packet.asked # None /\ ippool[packet.client] = packet.asked

\* Generation g has what client p of a pool configured as s is to be told, and
\* its worker is not about to replace it.
Knows(g, p, s) ==
    /\ leases[g][p] = s.net
    /\ cache[g][s.net] = Object(p, s) /\ dhcp[g][s.net] = Object(p, s)
    /\ ~(At(g, "reload") /\ worker[g].obj = Object(p, s))

\* What the handler of such a packet has found so far.
FoundSo(s, p) ==
    /\ packet.pc \in {"check", "read"} => packet.lease = s.net
    /\ packet.pc = "answer" => packet.pool = Object(p, s)

Informative ==
    UpToDate => Knows(packet.gen, packet.client, packet.asked) /\ FoundSo(packet.asked, packet.client)

\* A client is told the same as long as its pool is not changed, whatever the
\* worker does for that pool or for others.
LEMMA WorkKnows ==
    ASSUME OwnNetworks, PatientUsers, Settled, NEW h \in Gens, NEW p \in Pools, NEW s,
           s = ippool[p], s # None, Knows(h, p, s), NEW g \in Gens, Work(g)
    PROVE  Knows(h, p, s)'
<1>1. g = gen /\ Live /\ Work(gen) /\ gen \in Gens
  BY WorkNow
<1>2. s \in Choices[p] /\ s.net \in Nets /\ Object(p, s) # None /\ Object(p, s).name = p
  BY GivenPool, ChoiceFields
<1>3. OnlyAt(gen) /\ leases' = leases
  BY <1>1, WorkFrame
<1>4. CASE h # gen
  BY <1>3, <1>4 DEF OnlyAt, Knows, At
<1>5. CASE h = gen
  <2>1. cache[gen][s.net] = Object(p, s) /\ dhcp[gen][s.net] = Object(p, s)
    BY <1>5 DEF Knows
  <2>0. ASSUME cache'[gen][s.net] = cache[gen][s.net], dhcp'[gen][s.net] = dhcp[gen][s.net],
               ~(worker'[gen].pc = "reload" /\ worker'[gen].obj = Object(p, s))
        PROVE  Knows(h, p, s)'
    BY <1>3, <1>5, <2>0 DEF Knows, At
  <2>2. ASSUME ~At(gen, "idle"), NEW q \in Pools, NEW x \in Choices[q], q # p
        PROVE  s.net \in Nets \ {x.net}
    <3>1. s.net \in NetsOf(p)
      BY <1>2, ChoiceFields
    <3> QED BY <2>2, <3>1, OtherNets
  <2>3. CASE DropPool(gen) \/ ReloadPool(gen)
    <3>1. worker[gen].pc \in {"pool", "reload"} /\ ~At(gen, "idle")
      BY <2>3 DEF DropPool, ReloadPool, At
    <3>2. PICK q, x : /\ q \in Pools /\ x \in Choices[q] /\ x = ippool[q] /\ worker[gen].obj = Object(q, x)
                      /\ worker[gen].pc = "pool" => Empty(q)
      <4>1. CASE worker[gen].pc = "pool"
        BY <1>1, <4>1, AddingFacts
      <4>2. CASE worker[gen].pc = "reload"
        BY <1>1, <4>2, ReloadFacts
      <4> QED BY <3>1, <4>1, <4>2
    <3>3. q # p
      <4>1. worker[gen].pc = "pool" => q # p
        <5>1. s.net \in NetsOf(p)
          BY <1>2, ChoiceFields
        <5> QED BY <1>2, <2>1, <3>2, <5>1 DEF Empty, Blank
      <4>2. worker[gen].pc = "reload" => q # p
        BY <1>5, <3>2 DEF Knows, At
      <4> QED BY <3>1, <4>1, <4>2
    <3>4. PICK o : o = worker[gen].obj /\ o.spec.net = x.net /\ x.net \in Nets
      BY <3>2, ChoiceFields
    <3>5. s.net \in Nets \ {o.spec.net}
      BY <2>2, <3>1, <3>2, <3>3, <3>4
    <3>6. dhcp' \in {Pooled(gen, o), Unpooled(gen, o.spec.net)} /\ cache' \in {cache, Cached(gen, o)}
      BY <2>3, <3>4 DEF DropPool, ReloadPool
    <3>7. dhcp'[gen][s.net] = dhcp[gen][s.net] /\ cache'[gen][s.net] = cache[gen][s.net]
      BY <1>1, <3>4, <3>5, <3>6, TableCalls, CacheCalls
    <3>8. ~(worker'[gen].pc = "reload" /\ worker'[gen].obj = Object(p, s))
      <4>1. worker \in [Gens -> Workers]
        BY DEF Settled, Sound, Typed, Types
      <4>2. worker' = worker \/ worker' = [worker EXCEPT ![gen] = IdleWorker]
        BY <2>3 DEF DropPool, ReloadPool, Finish
      <4>3. worker' = worker \/ worker'[gen].pc = "idle"
        BY <1>1, <4>1, <4>2 DEF IdleWorker
      <4> QED BY <1>5, <4>3 DEF Knows, At
    <3> QED BY <2>0, <3>7, <3>8
  <2>4. CASE StartPool(gen) \/ Register(gen) \/ CleanupPool(gen)
    <3>1. worker'[gen].pc # "reload"
      <4>1. \/ Finish(gen) \/ Goto(gen, [worker[gen] EXCEPT !.pc = "cleanup"])
            \/ Goto(gen, [worker[gen] EXCEPT !.pc = "status"])
        BY <2>4 DEF StartPool, Register, CleanupPool
      <4>2. worker \in [Gens -> Workers]
        BY DEF Settled, Sound, Typed, Types
      <4> QED BY <1>1, <4>1, <4>2 DEF Finish, Goto, IdleWorker, Workers
    <3>2. CASE StartPool(gen)
      <4>1. dhcp[gen][worker[gen].obj.spec.net] = None /\ dhcp' = Pooled(gen, worker[gen].obj) /\ cache' = cache
        BY <3>2 DEF StartPool
      <4>2. worker[gen].obj.spec.net # s.net
        BY <1>2, <2>1, <4>1
      <4>3. dhcp'[gen][s.net] = dhcp[gen][s.net]
        BY <1>1, <4>1, <4>2 DEF Pooled, Settled, Sound, Typed, Types
      <4> QED BY <2>0, <3>1, <4>1, <4>3
    <3>3. CASE Register(gen)
      <4>1. PICK o : /\ dhcp' = dhcp
                     /\ cache' = cache \/ (cache' = Cached(gen, o) /\ cache[gen][o.spec.net] = None)
        BY <3>3 DEF Register
      <4>2. cache'[gen][s.net] = cache[gen][s.net]
        <5>1. CASE cache' = Cached(gen, o) /\ cache[gen][o.spec.net] = None
          <6>1. o.spec.net # s.net
            BY <1>2, <2>1, <5>1
          <6> QED BY <1>1, <1>2, <5>1, <6>1 DEF Cached, Settled, Sound, Typed, Types
        <5> QED BY <4>1, <5>1
      <4> QED BY <2>0, <3>1, <4>1, <4>2
    <3>4. CASE CleanupPool(gen)
      <4>1. worker[gen].pc = "cleanup" /\ ~At(gen, "idle")
        BY <3>4 DEF CleanupPool, At
      <4>2. PICK q, x : q \in Pools /\ x \in Choices[q] /\ ippool[q] = None /\ worker[gen].obj = Object(q, x)
        BY <1>1, <4>1, DeletionFacts
      <4>3. PICK o : o = worker[gen].obj /\ o.spec.net = x.net /\ x.net \in Nets
        BY <4>2, ChoiceFields
      <4>4. s.net \in Nets \ {o.spec.net}
        BY <2>2, <4>1, <4>2, <4>3
      <4>5. dhcp' = Unpooled(gen, o.spec.net) /\ cache' = Uncached(gen, o.spec.net)
        BY <3>4, <4>3 DEF CleanupPool
      <4>6. dhcp'[gen][s.net] = dhcp[gen][s.net] /\ cache'[gen][s.net] = cache[gen][s.net]
        BY <1>1, <4>3, <4>4, <4>5, TableCalls, CacheCalls
      <4> QED BY <2>0, <3>1, <4>6
    <3> QED BY <2>4, <3>2, <3>3, <3>4
  <2>5. CASE HandleChange(gen)
    <3>1. PICK q, z, x : /\ Updates(q, z, x) /\ As(q, x) /\ worker[gen].obj = Object(q, z)
                         /\ NeedsReload(worker[gen].old, worker[gen].obj) <=> x.opts # z.opts
      BY <1>1, <2>5, ChangeFacts
    <3>2. q \in Pools /\ z \in Choices[q] /\ x \in Choices[q] /\ x.net = z.net
      BY <3>1 DEF Updates
    <3>3. dhcp' = dhcp /\ cache' = cache
      BY <2>5 DEF HandleChange, tables
    <3>4. ~((worker'[gen].pc = "reload") /\ worker'[gen].obj = Object(p, s))
      <4>1. SUFFICES ASSUME (worker'[gen].pc = "reload"), worker'[gen].obj = Object(p, s)
                     PROVE  FALSE
        OBVIOUS
      <4>2. worker \in [Gens -> Workers]
        BY DEF Settled, Sound, Typed, Types
      <4>3. /\ NeedsReload(worker[gen].old, worker[gen].obj)
            /\ worker' = [worker EXCEPT ![gen] = [IdleWorker EXCEPT !.pc = "reload", !.obj = worker[gen].obj]]
        BY <1>1, <2>5, <4>1, <4>2 DEF HandleChange, Goto, Finish, At, IdleWorker
      <4>4. worker'[gen].obj = Object(q, z)
        BY <1>1, <3>1, <4>2, <4>3 DEF IdleWorker
      <4>5. q = p /\ z = s
        BY <4>1, <4>4 DEF Object
      <4>6. Object(p, x) = Object(p, s)
        BY <2>1, <3>1, <3>2, <4>5 DEF As
      <4>7. x = s
        BY <4>6 DEF Object
      <4> QED BY <3>1, <4>3, <4>5, <4>7
    <3> QED BY <2>0, <3>3, <3>4
  <2>6. CASE Take(gen) \/ SyncAdd(gen) \/ SyncUpdate(gen) \/ SyncDelete(gen)
    <3>1. dhcp' = dhcp /\ cache' = cache
      BY <2>6 DEF Take, SyncAdd, SyncUpdate, SyncDelete, tables
    <3>2. worker'[gen].pc # "reload"
      <4>1. worker \in [Gens -> Workers]
        BY DEF Settled, Sound, Typed, Types
      <4>2. CASE Take(gen)
        <5>1. worker' = [worker EXCEPT ![gen].pc = "sync"] /\ worker[gen] \in Workers
          BY <1>1, <4>1, <4>2 DEF Take
        <5>2. worker'[gen] = [worker[gen] EXCEPT !.pc = "sync"]
          BY <1>1, <4>1, <5>1
        <5> QED BY <5>1, <5>2 DEF Workers
      <4>3. CASE SyncAdd(gen)
        <5>1. PICK o : o = Object(queue[gen].busy.pool, indexer[gen][queue[gen].busy.pool])
          OBVIOUS
        <5>2. PICK w : w = [IdleWorker EXCEPT !.pc = "pool", !.obj = o]
          OBVIOUS
        <5>3. Finish(gen) \/ Goto(gen, w)
          BY <4>3, <5>1, <5>2 DEF SyncAdd, NotAdded
        <5>4. w.pc = "pool"
          BY <5>2 DEF IdleWorker
        <5> QED BY <1>1, <4>1, <5>3, <5>4 DEF Finish, Goto, IdleWorker
      <4>4. CASE SyncUpdate(gen)
        <5>1. PICK o, old : /\ o = Object(queue[gen].busy.pool, indexer[gen][queue[gen].busy.pool])
                            /\ old = cache[gen][queue[gen].busy.net]
          OBVIOUS
        <5>2. PICK w : w = [pc |-> "change", obj |-> o, old |-> old]
          OBVIOUS
        <5>3. Finish(gen) \/ Goto(gen, w)
          BY <4>4, <5>1, <5>2 DEF SyncUpdate
        <5>4. w.pc = "change"
          BY <5>2
        <5> QED BY <1>1, <4>1, <5>3, <5>4 DEF Finish, Goto, IdleWorker
      <4>5. CASE SyncDelete(gen)
        <5>1. PICK w : w = [IdleWorker EXCEPT !.pc = "cleanup", !.obj = cache[gen][queue[gen].busy.net]]
          OBVIOUS
        <5>2. Finish(gen) \/ Goto(gen, w)
          BY <4>5, <5>1 DEF SyncDelete
        <5>3. w.pc = "cleanup"
          BY <5>1 DEF IdleWorker
        <5> QED BY <1>1, <4>1, <5>2, <5>3 DEF Finish, Goto, IdleWorker
      <4> QED BY <2>6, <4>2, <4>3, <4>4, <4>5
    <3> QED BY <2>0, <3>1, <3>2
  <2> QED BY <1>1, <2>3, <2>4, <2>5, <2>6 DEF Work
<1> QED BY <1>4, <1>5

\* Nothing else touches the tables or a worker, but for leases that say the same.
LEMMA AsideKnows ==
    ASSUME Settled, NEW h \in Gens, NEW p \in Pools, NEW s, s = ippool[p], s # None, Knows(h, p, s),
           UNCHANGED <<worker, cache, dhcp>>,
           leases' = leases \/ \E S \in SUBSET Pools : leases' = Leased(gen, S)
    PROVE  Knows(h, p, s)'
<1>1. leases'[h][p] = s.net
  <2>1. CASE leases' = leases
    BY <2>1 DEF Knows
  <2>2. CASE \E S \in SUBSET Pools : leases' = Leased(gen, S)
    <3>1. PICK S \in SUBSET Pools : leases' = Leased(gen, S)
      BY <2>2
    <3> QED BY <3>1 DEF Leased, Knows, Settled, Sound, Typed, Types
  <2> QED BY <2>1, <2>2
<1> QED BY <1>1 DEF Knows, At

\* The handler finds what is there.
LEMMA HandlerInformative ==
    ASSUME Settled, Informative, dhcpHandler
    PROVE  Informative'
<1>1. UNCHANGED <<ippool, worker, cache, dhcp, leases>>
  BY DEF dhcpHandler, ReadLease, CheckPool, ReadPool, Reply, Handle, tables
<1>2. packet \in Packets
  BY DEF dhcpHandler, ReadLease, CheckPool, ReadPool, Reply, InPacket, Settled, Sound, Typed, Types, NoPacket
<1>3. SUFFICES ASSUME UpToDate' PROVE Informative'
  BY DEF Informative
<1>4. PICK net, o : net = leases[packet.gen][packet.client] /\ o = dhcp[packet.gen][packet.lease]
  OBVIOUS
<1>5. /\ packet'.gen = packet.gen /\ packet'.client = packet.client /\ packet'.asked = packet.asked
      /\ \/ packet.pc = "lease" /\ packet'.pc = "check" /\ packet'.lease = net
         \/ packet.pc = "check" /\ packet'.pc = "read" /\ packet'.lease = packet.lease
         \/ packet.pc = "read" /\ packet'.pc = "answer" /\ packet'.pool = o
  BY <1>2, <1>3, <1>4 DEF UpToDate, dhcpHandler, ReadLease, CheckPool, ReadPool, Reply, Handle, InPacket, Packets
<1>6. UpToDate
  BY <1>1, <1>2, <1>3, <1>5 DEF UpToDate, Packets, NoPacket
<1>7. Knows(packet.gen, packet.client, packet.asked) /\ FoundSo(packet.asked, packet.client)
  BY <1>6 DEF Informative
<1>8. Knows(packet.gen, packet.client, packet.asked)'
  BY <1>1, <1>5, <1>7 DEF Knows, At
<1>9. FoundSo(packet.asked, packet.client)'
  BY <1>4, <1>5, <1>7 DEF FoundSo, Knows
<1> QED BY <1>8, <1>9 DEF Informative

\* A client that asks while nothing is under way.
LEMMA AskInformative ==
    ASSUME Settled, Ask
    PROVE  Informative'
<1>1. UNCHANGED <<ippool, worker, cache, dhcp, leases>>
  BY DEF Ask, Receive, tables
<1>2. PICK p \in tenants, g \in Gens :
        /\ g \in listening[p]
        /\ packet' = [pc |-> "lease", gen |-> g, client |-> p, lease |-> None, pool |-> None,
                      asked |-> IF Idle THEN ippool[p] ELSE None]
  BY DEF Ask, Receive
<1>3. p \in Pools /\ g = gen
  BY <1>2 DEF Settled, Configured, Calm, Sound, Typed, Types
<1>4. CASE Idle
  <2>1. ippool[p] # None /\ main = "running" /\ leases[gen][p] = ippool[p].net
    BY <1>2, <1>4, IdleFacts DEF Settled, Configured, Tenancy
  <2>2. As(p, ippool[p]) /\ At(gen, "idle")
    BY <1>3, <1>4, <2>1, IdleFacts DEF Off, On, Idle
  <2>3. Knows(g, p, ippool[p])
    BY <1>3, <2>1, <2>2 DEF As, Knows, At
  <2>4. Knows(g, p, ippool[p])'
    BY <1>1, <2>3 DEF Knows, At
  <2>5. packet'.gen = g /\ packet'.client = p /\ packet'.asked = ippool'[p] /\ packet'.pc = "lease"
    BY <1>1, <1>2, <1>4
  <2>6. Knows(packet.gen, packet.client, packet.asked)' /\ FoundSo(packet.asked, packet.client)'
    BY <2>4, <2>5 DEF FoundSo, Knows, At
  <2> QED BY <2>6 DEF Informative
<1>5. CASE ~Idle
  BY <1>2, <1>5 DEF Informative, UpToDate
<1> QED BY <1>4, <1>5

LEMMA NextInformative ==
    ASSUME OwnNetworks, PatientUsers, FewFaults, Settled, Informative, [Next]_vars, [NotBack]_vars
    PROVE  Informative'
<1>1. ~ListError /\ \A g \in Gens : ~StatusError(g) /\ ~ListenError(g) /\ ~Panic(g)
  BY NoFailure, NoPanic
<1>2. CASE dhcpHandler \/ Ask
  BY <1>2, HandlerInformative, AskInformative
<1>3. CASE packet' = NoPacket
  BY <1>3 DEF Informative, UpToDate
<1>4. CASE /\ packet' = packet
           /\ \/ \E g \in Gens : Work(g) /\ ippool' = ippool
              \/ /\ UNCHANGED <<worker, cache, dhcp>>
                 /\ leases' = leases \/ \E S \in SUBSET Pools : leases' = Leased(gen, S)
  <2>1. SUFFICES ASSUME UpToDate' PROVE Informative'
    BY DEF Informative
  <2>2. packet # NoPacket /\ packet.asked # None /\ ippool'[packet.client] = packet.asked
    BY <1>4, <2>1 DEF UpToDate
  <2>3. UpToDate
    BY <2>2 DEF UpToDate, NotBack, vars
  <2>4. PICK h, p, s : h = packet.gen /\ p = packet.client /\ s = packet.asked
    OBVIOUS
  <2>5. h \in Gens /\ p \in Pools /\ s = ippool[p] /\ s # None
    BY <2>3, <2>4 DEF UpToDate, Settled, Sound, Typed, Types, Packets
  <2>6. Knows(h, p, s) /\ FoundSo(s, p)
    BY <2>3, <2>4 DEF Informative
  <2>7. Knows(h, p, s)'
    BY <1>4, <2>5, <2>6, WorkKnows, AsideKnows
  <2>8. Knows(packet.gen, packet.client, packet.asked)' /\ FoundSo(packet.asked, packet.client)'
    BY <1>4, <2>4, <2>6, <2>7 DEF FoundSo, Knows, At
  <2> QED BY <2>8 DEF Informative
<1>5. CASE \E g \in Gens : Work(g)
  <2>1. packet' = packet /\ ippool' = ippool
    BY <1>5 DEF Work, Take, SyncAdd, DropPool, StartPool, Register, StatusReset, SyncUpdate,
                HandleChange, ReloadPool, SyncDelete, CleanupPool, clients
  <2> QED BY <1>4, <1>5, <2>1
<1>6. CASE Main
  <2>1. packet' = NoPacket \/ (packet' = packet /\ UNCHANGED <<worker, cache, dhcp>>)
    BY <1>6 DEF Main, StartProcess, CountPools, StartListener, Replay, RunServicesDone, Cancel,
                StopListeners, Die, CleanNetwork, Reinitialize, tables, clients
  <2>2. packet' = NoPacket \/ leases' = leases \/ \E S \in SUBSET Pools : leases' = Leased(gen, S)
    <3>1. CASE Replay
      <4>1. PICK S : S = {p \in tenants \cap Existing : cache[gen][ippool[p].net] # None}
        OBVIOUS
      <4>2. leases' = Leased(gen, S) /\ S \in SUBSET Pools
        BY <3>1, <4>1 DEF Replay, Existing
      <4> QED BY <4>2
    <3>2. CASE ~Replay
      BY <1>6, <3>2 DEF Main, StartProcess, CountPools, StartListener, RunServicesDone, Cancel,
                  StopListeners, Die, CleanNetwork, Reinitialize, tables
    <3> QED BY <3>1, <3>2
  <2> QED BY <1>3, <1>4, <2>1, <2>2
<1>7. CASE Users
  <2>1. packet' = packet /\ UNCHANGED <<worker, cache, dhcp>>
    BY <1>7 DEF Users, CreatePool, ChangePool, DeletePool, AddTenant, Write, tables, clients
  <2>2. leases' = leases \/ \E S \in SUBSET Pools : leases' = Leased(gen, S)
    <3>1. CASE \E p \in Pools : AddTenant(p)
      BY <3>1 DEF AddTenant
    <3>2. CASE ~\E p \in Pools : AddTenant(p)
      BY <1>7, <3>2 DEF Users, CreatePool, ChangePool, DeletePool, Write, tables
    <3> QED BY <3>1, <3>2
  <2> QED BY <1>4, <2>1, <2>2
<1>8. CASE Crash
  BY <1>3, <1>8 DEF Crash, Die
<1>9. CASE \E p \in Pools : Deliver(p)
  BY <1>4, <1>9 DEF Deliver, tables, clients
<1>10. CASE UNCHANGED vars
  BY <1>4, <1>10 DEF vars, tables, clients
<1> QED BY <1>1, <1>2, <1>5, <1>6, <1>7, <1>8, <1>9, <1>10 DEF Next, Faults

\* In the same environment, a virtual machine that asks while nothing is under
\* way is answered with the configuration of its pool, unless that was changed
\* meanwhile: whatever is done for other pools at the same time, and even when
\* the packet is handled by a generation that has ended. A pool that is changed
\* and changed back while the packet is handled would look unchanged; NotBack
\* excludes it.
THEOREM AnsweredHolds ==
    ASSUME OwnNetworks, PatientUsers, FewFaults
    PROVE  Spec /\ [][NotBack]_vars => Answered
<1> DEFINE Reported ==
      LET p == packet.client IN
         /\ packet # NoPacket /\ packet' = NoPacket
         /\ main' = main
         /\ packet.asked # None /\ packet.asked = ippool[p]
         => /\ Idle /\ packet.gen = gen => Replies /\ packet.pool = Object(p, ippool[p])
            /\ Replies => packet.pool # None
<1>1. Init => Informative
  BY DEF Init, Informative, UpToDate
<1>2. Settled /\ Informative /\ [Next]_vars /\ [NotBack]_vars => Informative'
  BY NextInformative
<1>3. Settled /\ Informative /\ [Next]_vars => [Reported]_vars
  <2> SUFFICES ASSUME Settled, Informative, Next, packet # NoPacket, packet' = NoPacket, main' = main,
                      packet.asked # None, packet.asked = ippool[packet.client]
               PROVE  /\ Idle /\ packet.gen = gen =>
                           Replies /\ packet.pool = Object(packet.client, ippool[packet.client])
                      /\ Replies => packet.pool # None
    OBVIOUS
  <2>1. PICK h, p, s : h = packet.gen /\ p = packet.client /\ s = packet.asked
    OBVIOUS
  <2>2. packet \in Packets /\ h \in Gens /\ p \in Pools /\ s = ippool[p] /\ s # None
    BY <2>1 DEF Settled, Sound, Typed, Types, Packets
  <2>3. Knows(h, p, s) /\ FoundSo(s, p)
    BY <2>1 DEF Informative, UpToDate
  <2>4. s.net \in Nets /\ s.net # None /\ Object(p, s) # None
    <3>1. s.net \in Nets /\ Object(p, s) # None
      BY <2>2, GivenPool, ChoiceFields
    <3> QED BY <3>1, PoolValues
  <2>5. dhcpHandler
    <3>1. ~Main /\ ~Crash
      BY DEF Crash, Main, StartProcess, CountPools, StartListener, Replay, RunServicesDone, Cancel,
             StopListeners, Die, CleanNetwork, Reinitialize, clients
    <3>2. ~Users /\ ~ListError /\ \A q \in Pools : ~Deliver(q)
      BY DEF Users, CreatePool, ChangePool, DeletePool, AddTenant, Write, ListError, Deliver, clients
    <3>3. \A g \in Gens : ~Work(g) /\ ~StatusError(g) /\ ~ListenError(g) /\ ~Panic(g)
      BY NoPanic
         DEF Work, Take, SyncAdd, DropPool, StartPool, Register, SyncUpdate, HandleChange, ReloadPool,
             SyncDelete, CleanupPool, StatusError, ListenError, clients
    <3>4. ~Ask
      BY DEF Ask, Receive
    <3> QED BY <3>1, <3>2, <3>3, <3>4 DEF Next, Faults
  <2>6. Reply
    BY <2>1, <2>2, <2>3, <2>4, <2>5 DEF dhcpHandler, ReadLease, CheckPool, ReadPool, Handle, InPacket,
       NoPacket, Packets, Knows, FoundSo
  <2>7. packet.pc = "answer" /\ packet.pool = Object(p, s)
    BY <2>3, <2>6 DEF Reply, InPacket, FoundSo
  <2>8. Idle => gen \in listening[p]
    BY <2>2, IdleFacts DEF Off, On, As, Hears
  <2> QED BY <2>1, <2>2, <2>4, <2>7, <2>8 DEF Replies, InPacket
<1> QED BY <1>1, <1>2, <1>3, SettledAlways, PTL DEF Spec, Answered

\* While pools are deleted when nothing is under way, the protection of the
\* webhook, which knows no more than the status of the pool, is enough: a pool
\* with an address in use is not deleted, after restarts and crashes as well.
THEOREM ProtectedInUseHolds ==
    ASSUME OwnNetworks, PatientUsers, FewFaults
    PROVE  Spec => ProtectedInUse
<1>1. Settled /\ [Next]_vars => [\A p \in tenants : ippool[p] # None => ippool'[p] # None]_vars
  <2> SUFFICES ASSUME Settled, Next, NEW p \in tenants, ippool[p] # None
               PROVE  ippool'[p] # None
    OBVIOUS
  <2>1. p \in Pools /\ ippool \in [Pools -> Specs \cup {None}]
    BY DEF Settled, Sound, Typed, Types
  <2>2. CASE \E q \in Pools : DeletePool(q)
    <3>1. PICK q \in Pools : DeletePool(q)
      BY <2>2
    <3>2. Idle
      BY <3>1, UserIdle DEF DeletePool
    <3>3. p \in used
      BY <3>2, IdleFacts DEF Settled, Configured, Tenancy
    <3>4. q \notin used /\ ippool' = [ippool EXCEPT ![q] = None]
      BY <3>1 DEF DeletePool, Deletable, Write
    <3> QED BY <2>1, <3>3, <3>4
  <2>3. CASE \E q \in Pools : CreatePool(q) \/ ChangePool(q)
    <3>1. PICK q \in Pools : CreatePool(q) \/ ChangePool(q)
      BY <2>3
    <3>2. PICK x \in Choices[q] : ippool' = [ippool EXCEPT ![q] = x]
      BY <3>1 DEF CreatePool, ChangePool, Write
    <3>3. x # None
      BY <3>2, ChoiceFields
    <3> QED BY <2>1, <3>2, <3>3
  <2>4. CASE ~\E q \in Pools : DeletePool(q) \/ CreatePool(q) \/ ChangePool(q)
    <3>1. ippool' = ippool
      BY <2>4 DEF Next, Main, StartProcess, CountPools, StartListener, Replay, RunServicesDone, Cancel,
         StopListeners, CleanNetwork, Reinitialize, Die, Work, Take, SyncAdd, DropPool, StartPool,
         Register, StatusReset, SyncUpdate, HandleChange, ReloadPool, SyncDelete, CleanupPool, Deliver,
         Users, AddTenant, Faults, Crash, Panic, ListError, StatusError, ListenError, dhcpHandler,
         ReadLease, CheckPool,
         ReadPool, Reply, Handle, Ask, Receive
    <3> QED BY <3>1
  <2> QED BY <2>2, <2>3, <2>4
<1> QED BY <1>1, SettledAlways, PTL DEF Spec, ProtectedInUse

=============================================================================
