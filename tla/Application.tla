---------------------------- MODULE Application ----------------------------
(***************************************************************************)
(* The main goroutine of the application and the pools: the start, the     *)
(* restart inside of the process that a changed pool asks for, and the     *)
(* users who create, change and delete pools, with the admission webhook   *)
(* between them and the API.                                               *)
(***************************************************************************)
EXTENDS DhcpServer

CONSTANTS
    Choices,    \* the specs users give to each pool
    Budget,     \* how often the environment may do each thing
    Window      \* and when, see Circumstance

BudgetKeys == {"create", "change", "reload", "delete", "tenant", "packet", "crash", "fail",
               "listen"}

ASSUME EnvironmentAssumption ==
    /\ Choices \in [Pools -> SUBSET Specs]
    /\ Budget \in [BudgetKeys -> Nat]
    /\ Window \in [BudgetKeys -> SUBSET {"idle", "busy", "starting", "down"}]

Existing == {p \in Pools : ippool[p] # None}

-----------------------------------------------------------------------------
(* A process starts with an empty memory, and dies with it.                *)

NoTable(keys) == [g \in Gens |-> [k \in keys |-> None]]

Init ==
    /\ ippool \in [Pools -> Specs \cup {None}]
    /\ \A p \in Pools : ippool[p] \in Choices[p] \cup {None}
    /\ used = {} /\ tenants = {}
    /\ addrs = [p \in Pools |-> {}]
    /\ budget = Budget
    /\ listening = [p \in Pools |-> {}]
    /\ informing = FALSE
    /\ watch     = [p \in Pools |-> <<>>]
    /\ indexer   = NoTable(Pools)
    /\ queue     = [g \in Gens |-> EmptyQueue]
    /\ worker    = [g \in Gens |-> IdleWorker]
    /\ cache     = NoTable(Nets)
    /\ dhcp      = NoTable(Nets)
    /\ subnet    = NoTable(Nets)
    /\ leases    = NoTable(Pools)
    /\ packet    = NoPacket
    /\ servers   = [g \in Gens |-> {}]
    /\ gen       = 0
    /\ appStatus = "INIT"
    /\ current   = 0
    /\ target    = 0
    /\ main      = "start"

\* The addresses stay when only the container is replaced, and go with the
\* network namespace when the pod is.
Die ==
    /\ addrs' \in {addrs, [p \in Pools |-> {}]}
    /\ listening' = [p \in Pools |-> {}]
    /\ informing' = FALSE
    /\ watch'     = [p \in Pools |-> <<>>]
    /\ indexer'   = NoTable(Pools)
    /\ queue'     = [g \in Gens |-> EmptyQueue]
    /\ worker'    = [g \in Gens |-> IdleWorker]
    /\ cache'     = NoTable(Nets)
    /\ dhcp'      = NoTable(Nets)
    /\ subnet'    = NoTable(Nets)
    /\ leases'    = NoTable(Pools)
    /\ packet'    = NoPacket
    /\ servers'   = [g \in Gens |-> {}]
    /\ gen'       = 0
    /\ appStatus' = "INIT"
    /\ current'   = 0
    /\ target'    = 0
    /\ main'      = "start"
    /\ UNCHANGED <<ippool, used, tenants>>

-----------------------------------------------------------------------------
(* The main goroutine.                                                     *)

\* Mutant: only the pools with an address in use are cleaned up.
CleanedUpInUse == [p \in Pools |-> IF p \in used THEN {} ELSE addrs[p]]

\* NetworkCleanup, with the pools as they are in the API.
CleanedUp ==
    [p \in Pools |-> IF p \in Existing THEN addrs[p] \ {ServerIP[ippool[p].conf]}
                     ELSE addrs[p]]

StartProcess ==
    /\ main = "start"
    /\ main' = "count"
    /\ addrs' = CleanedUp
    /\ UNCHANGED <<ippool, used, listening, feed, queue, worker, tables, gen,
                   appStatus, current, target, clients, budget>>

\* RunServices: a new generation with empty tables, and the pools it waits for.
CountPools ==
    /\ main = "count" /\ gen < MaxGen
    /\ gen' = gen + 1
    /\ target' = Cardinality(Existing)
    /\ current' = 0
    /\ main' = "listen"
    /\ UNCHANGED <<ippool, used, nic, feed, queue, worker, tables, appStatus,
                   clients, budget>>

\* The informer of the new generation lists the pools.
StartListener ==
    /\ main = "listen"
    /\ main' = "wait"
    /\ informing' = TRUE
    /\ indexer' = [indexer EXCEPT ![gen] = ippool]
    /\ \E q \in Listings({[pool |-> p, action |-> "add", net |-> ippool[p].net] : p \in Existing}) :
         queue' = [queue EXCEPT ![gen] = q]
    /\ UNCHANGED <<ippool, used, nic, watch, worker, tables, gen, appStatus,
                   current, target, clients, budget>>

\* All pools are counted; the vmnetcfg controller takes the recorded addresses
\* again and writes them to the status of the pools it finds in the cache.
Replay ==
    LET again == {p \in tenants \cap Existing : cache[gen][ippool[p].net] # None}
    IN  /\ main = "wait" /\ current = target
        /\ main' = "replayed"
        /\ used' = used \cup again
        /\ UNCHANGED ippool /\ Sent(again \ used)
        /\ leases' = Leased(gen, again)
        /\ UNCHANGED <<nic, informing, indexer, queue, worker, cache, dhcp, subnet,
                       servers, gen, appStatus, current, target, clients, budget>>

RunServicesDone ==
    /\ main = "replayed"
    /\ main' = "running"
    /\ appStatus' = "RUNNING"
    /\ UNCHANGED <<ippool, used, nic, feed, queue, worker, tables, gen, current,
                   target, clients, budget>>

\* The loop of Run sees the restart: cancel() stops the informer ...
Cancel ==
    /\ main = "running" /\ appStatus = "RESTART"
    /\ main' = "stop"
    /\ informing' = FALSE
    /\ watch' = [p \in Pools |-> <<>>]
    /\ UNCHANGED <<ippool, used, nic, indexer, queue, worker, tables, gen,
                   appStatus, current, target, clients, budget>>

\* Mutant: no listener is stopped.
NoneClosed == listening

Closed == [p \in Pools |-> IF p \in Existing THEN listening[p] \ {gen} ELSE listening[p]]

\* ... stopDHCPListeners closes the listeners of all pools in the API.  One
\* that never got a listener is a nil server, and the process panics.
StopListeners ==
    /\ main = "stop"
    /\ \/ /\ Existing \subseteq servers[gen]
          /\ main' = "cleanup"
          /\ listening' = Closed
          /\ UNCHANGED <<ippool, used, addrs, feed, queue, worker, tables, gen,
                         appStatus, current, target, clients>>
       \/ /\ ~(Existing \subseteq servers[gen])
          /\ Die
    /\ UNCHANGED budget

CleanNetwork ==
    /\ main = "cleanup"
    /\ main' = "reinit"
    /\ addrs' = CleanedUp
    /\ UNCHANGED <<ippool, used, listening, feed, queue, worker, tables, gen,
                   appStatus, current, target, clients, budget>>

Reinitialize ==
    /\ main = "reinit"
    /\ main' = "count"
    /\ appStatus' = "INIT"
    /\ UNCHANGED <<ippool, used, nic, feed, queue, worker, tables, gen, current,
                   target, clients, budget>>

Main ==
    \/ StartProcess \/ CountPools \/ StartListener \/ Replay \/ RunServicesDone
    \/ Cancel \/ StopListeners \/ CleanNetwork \/ Reinitialize

\* The informer: an event changes the copy and queues the key.
Deliver(p) ==
    /\ watch[p] # <<>>
    /\ LET new == Head(watch[p])
           old == indexer[gen][p]
           e == [pool   |-> p,
                 action |-> IF new = None THEN "delete" ELSE IF old = None THEN "add" ELSE "update",
                 net    |-> IF new = None THEN old.net ELSE new.net]
       IN  /\ indexer' = [indexer EXCEPT ![gen][p] = new]
           /\ queue' = [queue EXCEPT ![gen] = Enqueued(@, e)]
    /\ watch' = [watch EXCEPT ![p] = Tail(@)]
    /\ UNCHANGED <<ippool, used, nic, informing, worker, tables, app, clients, budget>>

-----------------------------------------------------------------------------
(* The environment.                                                        *)

\* Nothing is under way.
Idle ==
    /\ main = "running" /\ appStatus = "RUNNING"
    /\ \A g \in Gens : At(g, "idle") /\ queue[g].items = <<>>
    /\ \A p \in Pools : watch[p] = <<>>

Circumstance ==
    CASE main = "start" -> "down"
      [] main # "start" /\ appStatus # "RUNNING" -> "starting"
      [] main # "start" /\ appStatus = "RUNNING" -> IF Idle THEN "idle" ELSE "busy"

Spend(what) ==
    /\ budget[what] > 0
    /\ Circumstance \in Window[what]
    /\ budget' = [budget EXCEPT ![what] = @ - 1]

Write(p, spec) ==
    /\ ippool' = [ippool EXCEPT ![p] = spec]
    /\ Sent({p})
    /\ UNCHANGED <<nic, informing, indexer, queue, worker, tables, app, clients>>

CreatePool(p) ==
    /\ ippool[p] = None
    /\ Spend("create")
    /\ \E spec \in Choices[p] : Write(p, spec)
    /\ UNCHANGED used

ChangePool(p) ==
    /\ ippool[p] # None
    /\ \E spec \in Choices[p] \ {ippool[p]} :
         /\ Spend(IF [spec EXCEPT !.opts = ippool[p].opts] = ippool[p]
                  THEN "reload" ELSE "change")
         /\ Write(p, spec)
    /\ UNCHANGED used

\* Mutant: the webhook lets everything through.
Unguarded(p) == TRUE

\* validateIPPool refuses to delete a pool whose status lists an address that
\* is not excluded.
Deletable(p) == p \notin used

DeletePool(p) ==
    /\ ippool[p] # None
    /\ Deletable(p)
    /\ Spend("delete")
    /\ Write(p, None)
    /\ used' = used \ {p}

\* A virtual machine gets an address of the pool.
AddTenant(p) ==
    /\ main = "running"
    /\ ippool[p] # None
    /\ cache[gen][ippool[p].net] # None
    /\ p \notin tenants
    /\ Spend("tenant")
    /\ tenants' = tenants \cup {p}
    /\ used' = used \cup {p}
    /\ leases' = Leased(gen, {p})
    /\ UNCHANGED ippool /\ Sent({p})
    /\ UNCHANGED <<nic, informing, indexer, queue, worker, cache, dhcp, subnet,
                   servers, app, packet>>

\* A virtual machine asks for its address.
Ask ==
    /\ Spend("packet")
    /\ \E p \in tenants, g \in Gens : Receive(g, p, IF Idle THEN ippool[p] ELSE None)

Crash ==
    /\ main # "start"
    /\ Spend("crash")
    /\ Die

\* A registration cannot read or write the status of its pool, which another
\* writer may have changed in between, or cannot read it back once written.
StatusError(g) ==
    LET p == worker[g].obj.name
    IN  /\ At(g, "status")
        /\ Spend("fail")
        /\ Goto(g, [worker[g] EXCEPT !.pc = "cleanup"])
        /\ \/ UNCHANGED <<ippool, used, watch>>
           \/ ippool[p] # None /\ StatusReset(p)
        /\ UNCHANGED <<nic, informing, indexer, tables, app, clients>>

\* Run cannot open the socket of a registration, which is cleaned up then
\* although it has no server.
ListenError(g) ==
    LET obj == worker[g].obj
    IN  /\ At(g, "pool") /\ dhcp[g][obj.spec.net] = None
        /\ Spend("listen")
        /\ dhcp' = Pooled(g, obj)
        /\ Goto(g, [worker[g] EXCEPT !.pc = "cleanup"])
        /\ UNCHANGED <<ippool, used, nic, feed, cache, subnet, servers, leases, app,
                       clients>>

\* A clean-up closes a listener that was never started: the server is nil, and
\* the panic of the worker ends the process.
Panic(g) ==
    /\ At(g, "cleanup")
    /\ worker[g].obj.name \notin servers[g]
    /\ Die
    /\ UNCHANGED budget

\* The main goroutine cannot list the pools: RunServices returns early and the
\* application counts as running; a cleanup does nothing.
ListError ==
    /\ Spend("fail")
    /\ \/ /\ main = "count" /\ gen < MaxGen
          /\ gen' = gen + 1
          /\ main' = "running"
          /\ appStatus' = "RUNNING"
       \/ /\ main \in {"start", "stop", "cleanup"}
          /\ main' = CASE main = "start" -> "count"
                       [] main = "stop" -> "cleanup"
                       [] main = "cleanup" -> "reinit"
          /\ UNCHANGED <<gen, appStatus>>
    /\ UNCHANGED <<ippool, used, nic, feed, queue, worker, tables, current,
                   target, clients>>

Users  == \E p \in Pools : CreatePool(p) \/ ChangePool(p) \/ DeletePool(p) \/ AddTenant(p)
Faults == Crash \/ ListError \/ \E g \in Gens : StatusError(g) \/ ListenError(g)

Next ==
    \/ Main
    \/ \E g \in Gens : Work(g) \/ Panic(g)
    \/ \E p \in Pools : Deliver(p)
    \/ dhcpHandler \/ Ask
    \/ Users \/ Faults

Spec == Init /\ [][Next]_vars

\* The goroutines run: main, the worker of each generation, the informer.
FairSpec ==
    /\ Spec
    /\ WF_vars(Main)
    /\ \A g \in Gens : WF_vars(Work(g) \/ Panic(g))
    /\ \A p \in Pools : WF_vars(Deliver(p))

-----------------------------------------------------------------------------
(* Properties.                                                             *)

\* The value every variable may have.
Types ==
    /\ ippool \in [Pools -> Specs \cup {None}]
    /\ used \subseteq Existing
    /\ tenants \subseteq Pools
    /\ addrs \in [Pools -> SUBSET {ServerIP[c] : c \in Confs}]
    /\ listening \in [Pools -> SUBSET Gens]
    /\ informing \in BOOLEAN
    /\ watch \in [Pools -> Seq(Specs \cup {None})]
    /\ indexer \in [Gens -> [Pools -> Specs \cup {None}]]
    /\ queue \in [Gens -> Queues(Events)]
    /\ worker \in [Gens -> Workers]
    /\ cache \in [Gens -> [Nets -> Objects \cup {None}]]
    /\ dhcp \in [Gens -> [Nets -> Objects \cup {None}]]
    /\ subnet \in [Gens -> [Nets -> Confs \cup {None}]]
    /\ leases \in [Gens -> [Pools -> Nets \cup {None}]]
    /\ packet \in Packets \cup {NoPacket}
    /\ servers \in [Gens -> SUBSET Pools]
    /\ gen \in 0..MaxGen
    /\ appStatus \in {"INIT", "RUNNING", "RESTART"}
    /\ current \in Nat /\ target \in Nat
    /\ main \in {"start", "count", "listen", "wait", "replayed", "running",
                 "stop", "cleanup", "reinit"}
    /\ budget \in [BudgetKeys -> Nat]

\* The bound on the generations is not reached before a restart.
Spare == main = "count" => gen < MaxGen

\* Every variable holds a value the code can produce, and no behaviour is cut
\* off by the bound on the generations.
TypeOK == Types /\ Spare

\* When there is nothing left to do, every pool is served as it is configured
\* now: cache, DHCP pool, subnet, listener, server address and lease.
Applied(p) ==
    LET spec == ippool[p]
    IN  /\ cache[gen][spec.net] = Object(p, spec)
        /\ dhcp[gen][spec.net] = Object(p, spec)
        /\ subnet[gen][spec.net] = spec.conf
        /\ gen \in listening[p]
        /\ ServerIP[spec.conf] \in addrs[p]
        /\ p \in tenants => leases[gen][p] = spec.net

ConfigurationApplied == Idle => \A p \in Existing : Applied(p)

\* When there is nothing left to do in a process that did not crash, no address,
\* listener, cached pool, DHCP pool or subnet is left of an older configuration.
NothingStale ==
    Idle /\ budget["crash"] = Budget["crash"] =>
      /\ \A p \in Pools :
           /\ addrs[p] \subseteq {ServerIP[ippool[q].conf] : q \in Existing \cap {p}}
           /\ listening[p] \subseteq IF p \in Existing THEN {gen} ELSE {}
      /\ \A n \in Nets : (\A p \in Existing : ippool[p].net # n) =>
           cache[gen][n] = None /\ dhcp[gen][n] = None /\ subnet[gen][n] = None

\* Two generations never answer on the same interface.
OneListener == \A p \in Pools : Cardinality(listening[p]) <= 1

\* A pool in the cache is one the DHCP server and ipam know, in the same form:
\* the vmnetcfg controller takes the cache for the list of pools that work.
CacheBacked ==
    \A g \in Gens : At(g, "idle") => \A n \in Nets : cache[g][n] # None =>
      dhcp[g][n] = cache[g][n] /\ subnet[g][n] = cache[g][n].spec.conf

\* Once its address is added, a registration that fails can be cleaned up
\* (ippool.go:46): the listener that is stopped was started, or Close would meet
\* a nil server.  It does when a socket cannot be opened.
CleanupPossible ==
    \A g \in Gens : At(g, "cleanup") => worker[g].obj.name \in servers[g]

\* It can as long as every socket could be opened: what fails before Run is not
\* cleaned up, what is in the cache has a server, and a registration that is
\* cleaned up does not take the entry of another pool for its own.
NoNilServer == budget["listen"] = Budget["listen"] => CleanupPossible

\* A virtual machine that asks while nothing is under way is answered with the
\* configuration of its pool, unless something is under way again when the
\* handler ends or the pool is not the same; and it gets an answer without
\* a configuration only when its pool was changed after it asked.
Answered ==
    [][LET p == packet.client IN
         /\ packet # NoPacket /\ packet' = NoPacket
         /\ main' = main
         /\ packet.asked # None /\ packet.asked = ippool[p]
         => /\ Idle /\ packet.gen = gen => Replies /\ packet.pool = Object(p, ippool[p])
            /\ Replies => packet.pool # None]_vars

\* A restart ends with an application that runs.
RestartEnds == appStatus = "RESTART" ~> appStatus = "RUNNING"

\* A pool that has addresses in use is not deleted (README.md:77-78).
ProtectedInUse ==
    [][\A p \in tenants : ippool[p] # None => ippool'[p] # None]_vars
=============================================================================
