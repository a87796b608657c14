-------------------------- MODULE IPPoolController --------------------------
(***************************************************************************)
(* The IPPool controller: it registers a pool (server address, DHCP pool,  *)
(* listener, subnet, status, cache), follows its changes and cleans up.    *)
(*                                                                         *)
(* A change of some settings makes the application run RunServices again,  *)
(* in the same process: with a new memory, a new informer and a new worker.*)
(* The worker of before is not waited for.  Each run of RunServices is a   *)
(* generation; memory and workers are functions of it.                     *)
(*                                                                         *)
(* What a pool configures is three things: its network, a configuration    *)
(* whose changes need a restart (server address, range, router) and options*)
(* whose changes are reloaded (lease time, DNS).  Every pool has a bind    *)
(* interface of its own, which its name stands for and which never changes.*)
(***************************************************************************)
EXTENDS WorkQueue

CONSTANTS
    Pools,      \* names of IPPools, and their bind interfaces
    Nets,       \* network names
    Confs,      \* configurations
    Opts,       \* options
    ServerIP,   \* the server address of a configuration
    Broken,     \* configurations whose range or exclusions ipam refuses
    None,       \* no object, no map entry
    MaxGen      \* bound: generations of one process

ASSUME PoolConstants ==
    /\ Broken \subseteq Confs
    /\ DOMAIN ServerIP = Confs
    /\ MaxGen \in Nat \ {0}

VARIABLES
    ippool,     \* API: the spec of each IPPool
    used,       \* API: the pools whose status lists an address in use
    addrs,      \* addresses of each bind interface; they survive a crash
    listening,  \* generations with an open DHCP listener on each interface
    informing,  \* the informer of the newest generation runs
    watch,      \* events sent and not yet seen by that informer
    indexer,    \* per generation: the informer's copy
    queue,      \* ... the work queue
    worker,     \* ... the worker goroutine
    cache,      \* ... the cached IPPool of each network
    dhcp,       \* ... the DHCP pool of each network
    subnet,     \* ... the IPAM subnet of each network
    leases,     \* ... the network of the lease of each client, see DhcpServer
    servers,    \* ... the interfaces in the map of DHCP servers
    gen,        \* the newest generation, 0 before the first
    appStatus,  \* INIT, RUNNING or RESTART, for all generations
    current,    \* ippoolCountCurrent, for all generations
    target,     \* ippoolCountTarget
    main,       \* where the main goroutine is
    tenants,    \* pools with virtual machines that have a recorded address
    packet,     \* a DHCP packet that is handled, see DhcpServer
    budget      \* what the environment may still do

nic     == <<addrs, listening>>
feed    == <<informing, watch, indexer>>
tables  == <<cache, dhcp, subnet, servers, leases>>
clients == <<tenants, packet>>
app     == <<gen, appStatus, current, target, main>>
vars    == <<ippool, used, nic, feed, queue, worker, tables, app, clients, budget>>

Gens    == 1..MaxGen
Specs   == [net : Nets, conf : Confs, opts : Opts]
Objects == [name : Pools, spec : Specs]
Events  == [pool : Pools, action : {"add", "update", "delete"}, net : Nets]

ASSUME PoolValues ==
    /\ IsFiniteSet(Pools)
    /\ None \notin Specs \cup Objects \cup Confs \cup Nets
    /\ NoEvent \notin Events

Object(p, spec) == [name |-> p, spec |-> spec]

-----------------------------------------------------------------------------
(* The worker of generation g.                                             *)

Workers ==
    [pc  : {"idle", "sync", "pool", "status", "change", "reload", "cleanup"},
     obj : Objects \cup {None},     \* the object handled
     old : Objects \cup {None}]     \* what the cache had for its network

IdleWorker == [pc |-> "idle", obj |-> None, old |-> None]

At(g, pc)       == worker[g].pc = pc
Goto(g, w)      == worker' = [worker EXCEPT ![g] = w] /\ UNCHANGED queue
Finish(g) ==
    /\ worker' = [worker EXCEPT ![g] = IdleWorker]
    /\ queue'  = [queue EXCEPT ![g] = Completed(@)]

\* processNextItem.  A worker whose informer was stopped drains its queue.
Take(g) ==
    /\ At(g, "idle")
    /\ queue[g].items # <<>>
    /\ queue'  = [queue EXCEPT ![g] = Taken(@)]
    /\ worker' = [worker EXCEPT ![g].pc = "sync"]
    /\ UNCHANGED <<ippool, used, nic, feed, tables, app, clients, budget>>

\* Writes to the API are sent to the informer.
Sent(S) ==
    watch' = [p \in Pools |->
               IF informing /\ p \in S THEN Append(watch[p], ippool'[p]) ELSE watch[p]]

-----------------------------------------------------------------------------
(* The calls the handlers make: netlink, the DHCP server, ipam, the cache. *)

\* Mutant: removing an address does nothing.
StillAddressed(obj) == addrs

Addressed(obj) == [addrs EXCEPT ![obj.name] = @ \cup {ServerIP[obj.spec.conf]}]

Unaddressed(obj) == [addrs EXCEPT ![obj.name] = @ \ {ServerIP[obj.spec.conf]}]

\* Run opens a socket next to those of other generations; see ListenError for
\* one that cannot be opened.
Run(g, obj) ==
    /\ listening' = [listening EXCEPT ![obj.name] = @ \cup {g}]
    /\ servers'   = [servers EXCEPT ![g] = @ \cup {obj.name}]

Stopped(g, obj) == [listening EXCEPT ![obj.name] = @ \ {g}]

Subnetted(g, obj) == [subnet EXCEPT ![g][obj.spec.net] = obj.spec.conf]

Pooled(g, obj)   == [dhcp EXCEPT ![g][obj.spec.net] = obj]
Unpooled(g, net) == [dhcp EXCEPT ![g][net] = None]

\* createOrUpdateDHCPPool deletes the pool that exists before it adds the new
\* one; a packet that arrives in between finds none.
DropPool(g) ==
    LET net == worker[g].obj.spec.net
    IN  /\ At(g, "pool") \/ At(g, "reload")
        /\ dhcp[g][net] # None
        /\ dhcp' = Unpooled(g, net)
        /\ UNCHANGED <<ippool, used, nic, feed, queue, worker, cache, subnet,
                       servers, leases, app, clients, budget>>

\* Mutant: the pool stays in the cache.
StillCached(g, net) == cache

Cached(g, obj) == [cache EXCEPT ![g][obj.spec.net] = obj]

Uncached(g, net) == [cache EXCEPT ![g][net] = None]

-----------------------------------------------------------------------------
(* ADD: registerIPPool.                                                    *)

\* AddIpToNic fails with EEXIST.
AddressTaken(g) ==
    LET p == queue[g].busy.pool IN ServerIP[indexer[g][p].conf] \in addrs[p]

\* Mutant: a pool whose address cannot be added is cleaned up.
NotAddedCleans(g) ==
    LET p == queue[g].busy.pool
    IN  Goto(g, [IdleWorker EXCEPT !.pc = "cleanup", !.obj = Object(p, indexer[g][p])])

\* Nothing was set up then, and nothing is cleaned up.
NotAdded(g) == Finish(g)

SyncAdd(g) ==
    /\ At(g, "sync") /\ queue[g].busy.action = "add"
    /\ LET p == queue[g].busy.pool
           spec == indexer[g][p]
       IN  \/ /\ spec = None
              /\ Finish(g)
              /\ UNCHANGED addrs
           \/ /\ spec # None
              /\ AddressTaken(g)
              /\ NotAdded(g)
              /\ UNCHANGED addrs
           \/ /\ spec # None
              /\ ~AddressTaken(g)
              /\ addrs' = Addressed(Object(p, spec))
              /\ Goto(g, [IdleWorker EXCEPT !.pc = "pool", !.obj = Object(p, spec)])
    /\ UNCHANGED <<ippool, used, listening, feed, tables, app, clients, budget>>

\* The DHCP pool, its listener and the subnet with its excluded addresses.  ipam
\* refuses a subnet before it has one, and an exclusion after that.
StartPool(g) ==
    LET obj == worker[g].obj
        net == obj.spec.net
    IN  /\ At(g, "pool") /\ dhcp[g][net] = None
        /\ dhcp' = Pooled(g, obj)
        /\ Run(g, obj)
        /\ \/ /\ obj.spec.conf \in Broken
              /\ Goto(g, [worker[g] EXCEPT !.pc = "cleanup"])
              /\ subnet' \in {subnet, Subnetted(g, obj)}
           \/ /\ obj.spec.conf \notin Broken
              /\ subnet' = Subnetted(g, obj)
              /\ Goto(g, [worker[g] EXCEPT !.pc = "status"])
        /\ UNCHANGED <<ippool, used, addrs, feed, cache, leases, app, clients, budget>>

\* A pool is counted while the application initializes.
Counts == appStatus = "INIT"

\* resetIPPoolStatus: only the excluded addresses are allocated.
StatusReset(p) ==
    /\ used' = used \ {p}
    /\ UNCHANGED ippool
    /\ Sent({p})

\* The end of the registration.  The status is written to the pool as it is in
\* the API by now, and that pool is cached.
Register(g) ==
    LET p   == worker[g].obj.name
        new == Object(p, ippool[p])
    IN  /\ At(g, "status")
        /\ \/ /\ ippool[p] = None
              /\ Goto(g, [worker[g] EXCEPT !.pc = "cleanup"])
              /\ UNCHANGED <<ippool, used, watch, cache, current>>
           \/ /\ ippool[p] # None
              /\ StatusReset(p)
              /\ \/ /\ cache[g][new.spec.net] # None
                    /\ Goto(g, [worker[g] EXCEPT !.pc = "cleanup"])
                    /\ UNCHANGED <<cache, current>>
                 \/ /\ cache[g][new.spec.net] = None
                    /\ cache' = Cached(g, new)
                    /\ current' = IF Counts THEN current + 1 ELSE current
                    /\ Finish(g)
        /\ UNCHANGED <<nic, informing, indexer, dhcp, subnet, servers, leases, gen,
                       appStatus, target, main, clients, budget>>

-----------------------------------------------------------------------------
(* UPDATE: handleIPPoolObjectChange.  The cached pool is looked up by the  *)
(* network name of the event, which is the new one.                        *)

SyncUpdate(g) ==
    /\ At(g, "sync") /\ queue[g].busy.action = "update"
    /\ LET p    == queue[g].busy.pool
           spec == indexer[g][p]
           old  == cache[g][queue[g].busy.net]
       IN  \/ /\ spec = None \/ old = None \/ appStatus = "INIT"
              /\ Finish(g)
           \/ /\ spec # None /\ old # None /\ appStatus # "INIT"
              /\ Goto(g, [pc |-> "change", obj |-> Object(p, spec), old |-> old])
    /\ UNCHANGED <<ippool, used, nic, feed, tables, app, clients, budget>>

\* Mutant: every change needs a restart.
AnyChange(old, new) == old # new

NeedsRestart(old, new) == old.spec.conf # new.spec.conf \/ old.spec.net # new.spec.net

\* Mutant: the options are not compared.
NeverReloads(old, new) == FALSE

NeedsReload(old, new) == old.spec.opts # new.spec.opts

\* The handler waits as long as a restart is under way, whichever state the
\* application is in after it.
HandleChange(g) ==
    LET obj == worker[g].obj
        old == worker[g].old
    IN  /\ At(g, "change")
        /\ appStatus # "RESTART"
        /\ \/ /\ NeedsRestart(old, obj)
              /\ listening' = Stopped(g, old)
              /\ addrs' = Unaddressed(old)
              /\ appStatus' = "RESTART"
              /\ Finish(g)
           \/ /\ ~NeedsRestart(old, obj) /\ NeedsReload(old, obj)
              /\ Goto(g, [IdleWorker EXCEPT !.pc = "reload", !.obj = obj])
              /\ UNCHANGED <<nic, appStatus>>
           \/ /\ ~NeedsRestart(old, obj) /\ ~NeedsReload(old, obj)
              /\ Finish(g)
              /\ UNCHANGED <<nic, appStatus>>
        /\ UNCHANGED <<ippool, used, feed, tables, gen, current, target, main,
                       clients, budget>>

ReloadPool(g) ==
    LET obj == worker[g].obj
    IN  /\ At(g, "reload") /\ dhcp[g][obj.spec.net] = None
        /\ dhcp' = Pooled(g, obj)
        /\ cache' = Cached(g, obj)
        /\ Finish(g)
        /\ UNCHANGED <<ippool, used, nic, feed, subnet, servers, leases, app,
                       clients, budget>>

-----------------------------------------------------------------------------
(* DELETE, and a registration that failed: cleanupIPPoolObjects.           *)

SyncDelete(g) ==
    /\ At(g, "sync") /\ queue[g].busy.action = "delete"
    /\ LET old == cache[g][queue[g].busy.net]
       IN  IF old = None THEN Finish(g)
           ELSE Goto(g, [IdleWorker EXCEPT !.pc = "cleanup", !.obj = old])
    /\ UNCHANGED <<ippool, used, nic, feed, tables, app, clients, budget>>

\* The listener is looked up in the map of servers; see Panic for one that is
\* not there.
CleanupPool(g) ==
    LET obj == worker[g].obj
        net == obj.spec.net
    IN  /\ At(g, "cleanup")
        /\ obj.name \in servers[g]
        /\ listening' = Stopped(g, obj)
        /\ subnet' = [subnet EXCEPT ![g][net] = None]
        /\ dhcp'   = Unpooled(g, net)
        /\ cache'  = Uncached(g, net)
        /\ addrs'  = Unaddressed(obj)
        /\ Finish(g)
        /\ UNCHANGED <<ippool, used, feed, servers, leases, app, clients, budget>>

Work(g) ==
    \/ Take(g) \/ SyncAdd(g) \/ DropPool(g) \/ StartPool(g) \/ Register(g)
    \/ SyncUpdate(g) \/ HandleChange(g) \/ ReloadPool(g)
    \/ SyncDelete(g) \/ CleanupPool(g)
=============================================================================
