------------------------------ MODULE IpHelper ------------------------------
(***************************************************************************)
(* The helper as a system: the two controllers, the informers that feed    *)
(* them, the start of the process (RunServices) and its crash, and the     *)
(* users who create, change and delete virtual machines.                   *)
(***************************************************************************)
EXTENDS VmNetCfgController, VmController

CONSTANTS
    Shapes,     \* the interface lists a virtual machine can be given
    Budget,     \* how often the environment may do each thing
    Window      \* and when, see Circumstance

BudgetKeys ==
    {"create", "update", "unplug", "delete", "edit", "manual", "reload", "crash", "fail"}
Circumstances == {"idle", "reloading", "busy", "down"}

ASSUME EnvironmentAssumption ==
    /\ Shapes \in [VMs -> SUBSET SUBSET Nics]
    /\ Budget \in [BudgetKeys -> Nat]
    /\ Window \in [BudgetKeys -> SUBSET Circumstances]

-----------------------------------------------------------------------------
(* The process starts and stops.                                           *)

NoLeases == [m \in MACs |-> ZeroLease]
NoTables == [n \in Networks |-> {}]
NoPools  == [n \in Networks |-> [on |-> FALSE, lu |-> 0, lubs |-> 0]]

Init ==
    /\ vm         = [v \in VMs |-> GoneVm]
    /\ cfg        = [v \in VMs |-> GoneCfg(0)]
    /\ pool       = [n \in Networks |-> [alloc |-> {}, used |-> 0, lu |-> 0, lubs |-> 0]]
    /\ vmWatch    = [v \in VMs |-> <<>>]
    /\ cfgWatch   = [v \in VMs |-> <<>>]
    /\ vmIndexer  = [v \in VMs |-> GoneVm]
    /\ cfgIndexer = [v \in VMs |-> GoneCfg(0)]
    /\ queue      = [c \in Controllers |-> EmptyQueue]
    /\ worker     = [c \in Controllers |-> IdleWorker]
    /\ leases = NoLeases
    /\ ipam   = NoTables
    /\ cache  = NoPools
    /\ phase  = "down"
    /\ count  = 0
    /\ target = 0
    /\ clock  = 1      \* 0 is the zero time of an unset timestamp
    /\ budget = Budget

\* resetIPPoolStatus: only the excluded addresses are allocated, and the old
\* LastUpdate becomes LastUpdateBeforeStart.
ResetStatus(n) ==
    [alloc |-> Excluded, used |-> Cardinality(Excluded), lu |-> clock,
     lubs |-> IF pool[n].lu = 0 THEN clock ELSE pool[n].lu]

\* RunServices up to the end of the wait for the pools, as one step: every
\* pool is registered in a fresh memory and its status is reset.
StartPools ==
    /\ phase = "down"
    /\ phase' = "pools"
    /\ pool' = [n \in Networks |-> IF n \in Configured THEN ResetStatus(n) ELSE pool[n]]
    /\ cache' = [n \in Networks |->
                  IF n \in Configured
                  THEN [on |-> TRUE, lu |-> clock, lubs |-> ResetStatus(n).lubs]
                  ELSE cache[n]]
    /\ ipam' = [n \in Networks |-> IF n \in Configured THEN Excluded ELSE {}]
    /\ UNCHANGED <<vm, cfg, events, queue, worker, leases, count, target, clock, budget>>

\* getVmNetCfgs fixes the number of vmnetcfgs the start waits for ...
CountVmNetCfgs ==
    /\ phase = "pools"
    /\ phase' = "counted"
    /\ target' = Cardinality({v \in VMs : cfg[v].exists})
    /\ count' = 0
    /\ UNCHANGED <<api, events, queue, worker, memory, clock, budget>>

\* ... before the informer of the vmnetcfg listener lists them.
StartCfgListener ==
    /\ phase = "counted"
    /\ phase' = "init"
    /\ cfgIndexer' = cfg
    /\ \E q \in Listings({[key |-> v, action |-> "add"] : v \in {w \in VMs : cfg[w].exists}}) :
         queue' = [queue EXCEPT !["vmnetcfg"] = q]
    /\ UNCHANGED <<api, vmWatch, cfgWatch, vmIndexer, worker, memory, count, target, clock, budget>>

\* The wait ends when exactly as many ADD events were handled as vmnetcfgs
\* were counted; then the VirtualMachine listener starts.
StartVmListener ==
    /\ phase = "init"
    /\ count = target
    /\ phase' = "running"
    /\ vmIndexer' = vm
    /\ \E q \in Listings({[key |-> v, action |-> "add"] : v \in {w \in VMs : vm[w].exists}}) :
         queue' = [queue EXCEPT !["vm"] = q]
    /\ count' = 0 /\ target' = 0
    /\ UNCHANGED <<api, vmWatch, cfgWatch, cfgIndexer, worker, memory, clock, budget>>

-----------------------------------------------------------------------------
(* The informers: an event changes the indexer and queues the key.         *)

DeliverCfg(v) ==
    /\ cfgWatch[v] # <<>>
    /\ LET new == Head(cfgWatch[v])
       IN  /\ cfgIndexer' = [cfgIndexer EXCEPT ![v] = new]
           /\ queue' = [queue EXCEPT !["vmnetcfg"] =
                         Enqueued(@, [key |-> v, action |-> ActionOf(cfgIndexer[v], new)])]
    /\ cfgWatch' = [cfgWatch EXCEPT ![v] = Tail(@)]
    /\ UNCHANGED <<api, vmWatch, vmIndexer, worker, memory, boot>>

DeliverVm(v) ==
    /\ vmWatch[v] # <<>>
    /\ LET new == Head(vmWatch[v])
       IN  /\ vmIndexer' = [vmIndexer EXCEPT ![v] = new]
           /\ queue' = [queue EXCEPT !["vm"] =
                         Enqueued(@, [key |-> v, action |-> ActionOf(vmIndexer[v], new)])]
    /\ vmWatch' = [vmWatch EXCEPT ![v] = Tail(@)]
    /\ UNCHANGED <<api, cfgWatch, cfgIndexer, worker, memory, boot>>

-----------------------------------------------------------------------------
(* The environment.                                                        *)

Waiting ==
    /\ phase = "running"
    /\ \A c \in Controllers : worker[c].pc = "idle" /\ queue[c].items = <<>>
    /\ \A v \in VMs : vmWatch[v] = <<>> /\ cfgWatch[v] = <<>>

\* Nothing is under way.
Idle == Waiting /\ \A n \in Configured : cache[n].on

\* A pool is reloaded, and nothing else is under way.
Reloading == Waiting /\ ~Idle

Circumstance ==
    IF phase = "down" THEN "down" ELSE IF Idle THEN "idle"
    ELSE IF Reloading THEN "reloading" ELSE "busy"

Spend(what) ==
    /\ budget[what] > 0
    /\ Circumstance \in Window[what]
    /\ budget' = [budget EXCEPT ![what] = @ - 1]

WriteVm(v, obj) ==
    /\ vm' = [vm EXCEPT ![v] = obj]
    /\ vmWatch' = IF phase = "running" THEN [vmWatch EXCEPT ![v] = Append(@, obj)]
                  ELSE vmWatch
    /\ UNCHANGED <<cfg, pool, cfgWatch, vmIndexer, cfgIndexer, queue, worker,
                   memory, phase, count, target, clock>>

CreateVm(v) ==
    /\ ~vm[v].exists
    /\ Spend("create")
    /\ \E nics \in Shapes[v] : WriteVm(v, [exists |-> TRUE, nics |-> nics])

\* Interfaces get their MAC address, are plugged or unplugged, or something
\* else of the object changes.
UpdateVm(v) ==
    /\ vm[v].exists
    /\ \E nics \in Shapes[v] :
         /\ Spend(IF vm[v].nics \subseteq nics THEN "update" ELSE "unplug")
         /\ WriteVm(v, [exists |-> TRUE, nics |-> nics])

DeleteVm(v) ==
    /\ vm[v].exists
    /\ Spend("delete")
    /\ WriteVm(v, GoneVm)

\* A user creates a vmnetcfg, with or without addresses, and no finalizer.
CreateManually(v) ==
    /\ ~cfg[v].exists
    /\ Spend("manual")
    /\ \E nics \in Shapes[v], a \in IPs \cup {NoIP} :
         WriteCfg(v, [cfg[v] EXCEPT !.exists = TRUE, !.ctime = clock,
                        !.spec = [n \in Nics |-> IF n \in nics THEN a ELSE NoNic]])
    /\ UNCHANGED <<vm, pool, vmWatch, vmIndexer, cfgIndexer, queue, worker,
                   memory, phase, count, target, clock>>

\* A user writes another address in a vmnetcfg.
EditIP(v) ==
    /\ cfg[v].exists /\ ~cfg[v].del
    /\ Spend("edit")
    /\ \E n \in NicsOf(cfg[v].spec), a \in IPs :
         /\ a # cfg[v].spec[n]
         /\ WriteCfg(v, [cfg[v] EXCEPT !.spec[n] = a])
    /\ UNCHANGED <<vm, pool, vmWatch, vmIndexer, cfgIndexer, queue, worker,
                   memory, phase, count, target, clock>>

\* A user changes an option of a pool, and handleIPPoolObjectChange takes the
\* pool out of the cache ...
UncachePool(n) ==
    /\ phase = "running" /\ cache[n].on
    /\ Spend("reload")
    /\ \E lu \in {cache[n].lu, pool[n].lu} :
         cache' = [cache EXCEPT ![n] = [@ EXCEPT !.on = FALSE, !.lu = lu]]
    /\ UNCHANGED <<api, events, queue, worker, leases, ipam, phase, count, target, clock>>

\* ... and puts the informer's copy in, whose LastUpdate is the one of now, or
\* an older one when the copy lags behind.
CachePool(n) ==
    /\ phase = "running" /\ n \in Configured /\ ~cache[n].on
    /\ cache' = [cache EXCEPT ![n].on = TRUE]
    /\ UNCHANGED <<api, events, queue, worker, leases, ipam, boot>>

\* An API request of a worker fails for another reason than a conflict.
ApiError(c) ==
    /\ \/ worker[c].pc \in {"poolget", "poolput", "update", "ustatus", "unfinal",
                            "macs", "create", "delete"}
       \/ c = self /\ worker[c].pc = "clean" /\ worker[c].todo = {}
    /\ Spend("fail")
    /\ \/ /\ worker[c].pc \in {"poolget", "poolput"}
          /\ Step(c, [worker[c] EXCEPT !.pc = worker[c].next, !.fresh = FALSE,
                                       !.used = 0, !.retry = 0])
          /\ UNCHANGED <<queue, count, cfgIndexer>>
       \/ /\ worker[c].pc \notin {"poolget", "poolput"}
          /\ Return(c)
          /\ cfgIndexer' = IF worker[c].pc = "ustatus" THEN Overwritten ELSE cfgIndexer
    /\ UNCHANGED <<api, vmWatch, cfgWatch, vmIndexer, memory, phase, target, clock>>

\* getVmNetCfgs fails: RunServices returns early, and the application counts as
\* running without a listener for vmnetcfgs or virtual machines.
CountError ==
    /\ phase = "pools"
    /\ Spend("fail")
    /\ phase' = "unlistened"
    /\ UNCHANGED <<api, events, queue, worker, memory, count, target, clock>>

\* The process dies, its memory with it.
Crash ==
    /\ phase # "down"
    /\ Spend("crash")
    /\ phase' = "down"
    /\ leases'     = NoLeases
    /\ ipam'       = NoTables
    /\ cache'      = NoPools
    /\ queue'      = [c \in Controllers |-> EmptyQueue]
    /\ worker'     = [c \in Controllers |-> IdleWorker]
    /\ vmWatch'    = [v \in VMs |-> <<>>]
    /\ cfgWatch'   = [v \in VMs |-> <<>>]
    /\ vmIndexer'  = [v \in VMs |-> GoneVm]
    /\ cfgIndexer' = [v \in VMs |-> GoneCfg(0)]
    /\ count' = 0 /\ target' = 0
    /\ UNCHANGED <<api, clock>>

Tick ==
    /\ clock < MaxClock
    /\ clock' = clock + 1
    /\ UNCHANGED <<api, events, queue, worker, memory, phase, count, target, budget>>

-----------------------------------------------------------------------------

Start     == StartPools \/ CountVmNetCfgs \/ StartCfgListener \/ StartVmListener
Informers == \E v \in VMs : DeliverCfg(v) \/ DeliverVm(v)
Pools     == \E n \in Networks : UncachePool(n) \/ CachePool(n)
Users     == \E v \in VMs : CreateVm(v) \/ UpdateVm(v) \/ DeleteVm(v)
                         \/ EditIP(v) \/ CreateManually(v)
Faults    == Crash \/ CountError \/ \E c \in Controllers : ApiError(c)

Next == Start \/ Informers \/ CfgWorker \/ VmWorker \/ Pools \/ Users \/ Faults \/ Tick

Spec == Init /\ [][Next]_vars

\* The goroutines run: the start, the three workers, both informers.
FairSpec ==
    /\ Spec
    /\ WF_vars(Start) /\ WF_vars(CfgWorker) /\ WF_vars(VmWorker)
    /\ \A n \in Networks : WF_vars(CachePool(n))
    /\ \A v \in VMs : WF_vars(DeliverCfg(v)) /\ WF_vars(DeliverVm(v))

-----------------------------------------------------------------------------
(* Properties.                                                             *)

\* Every variable holds a value the code can produce; in particular an
\* exhausted subnet never makes GetIP hand out the empty address.
TypeOK ==
    /\ vm \in [VMs -> VmObjects]
    /\ cfg \in [VMs -> CfgObjects]
    /\ pool \in [Networks -> PoolStatuses]
    /\ vmWatch \in [VMs -> Seq(VmObjects)]
    /\ cfgWatch \in [VMs -> Seq(CfgObjects)]
    /\ vmIndexer \in [VMs -> VmObjects]
    /\ cfgIndexer \in [VMs -> CfgObjects]
    /\ queue \in [Controllers -> Queues(Event)]
    /\ worker \in [Controllers -> Workers]
    /\ leases \in [MACs -> Leases]
    /\ ipam \in [Networks -> SUBSET IPs]
    /\ cache \in [Networks -> [on : BOOLEAN, lu : Nat, lubs : Nat]]
    /\ phase \in {"down", "pools", "unlistened", "counted", "init", "running"}
    /\ count \in Nat
    /\ target \in Nat
    /\ clock \in Nat
    /\ budget \in [BudgetKeys -> Nat]

\* The interface of a lease is one its virtual machine still has.
InUse(m) == CheckLease(m) /\ <<m, leases[m].net>> \in vm[leases[m].ref].nics

\* The DHCP server never serves one address of a network to two interfaces,
\* whatever the two controllers free and allocate meanwhile.
UniqueLease ==
    \A l, m \in MACs :
      /\ l # m /\ CheckLease(l) /\ CheckLease(m)
      /\ leases[l].net = leases[m].net
      => leases[l].ip # leases[m].ip

\* The address of a lease is marked in the IPAM table, or GetIP could hand it
\* out again: the lease and the mark are set and cleared by separate calls.
LeaseBacked ==
    \A m \in MACs : CheckLease(m) => leases[m].ip \in ipam[leases[m].net]

\* When the helper has nothing left to do, every interface a virtual machine
\* has on a configured network is served the address its vmnetcfg records,
\* unless the vmnetcfg reports an error for it (README.md:34).
Served ==
    Idle => \A v \in VMs : \A n \in vm[v].nics :
              NetOf(n) \in Configured =>
                \/ cfg[v].status[n] = "ERROR"
                \/ /\ cfg[v].spec[n] \in IPs
                   /\ leases[MacOf(n)] = [ip |-> cfg[v].spec[n], ref |-> v, net |-> NetOf(n)]

\* With an address for everyone no interface is put in error before a user
\* edits an address or creates a vmnetcfg, however the events of one vmnetcfg
\* and its own status updates interleave.
NoErrors ==
    (\A k \in {"edit", "manual"} : budget[k] = Budget[k]) =>
      \A v \in VMs, n \in Nics : cfg[v].status[n] # "ERROR"

\* An address a vmnetcfg records with status OK is served to nobody else, before
\* a user edits an address: after a restart those addresses are taken again
\* before others are given out (comment at vmnetcfg.go:84-87).
NoHijack ==
    budget["edit"] = Budget["edit"] =>
    \A v \in VMs : \A n \in NicsOf(cfg[v].spec) : \A m \in MACs :
      /\ cfg[v].status[n] = "OK"
      /\ leases[m].net = NetOf(n) /\ leases[m].ip = cfg[v].spec[n]
      => leases[m].ref = v

\* A virtual machine that holds a lease and has an address recorded for that
\* interface holds it for the recorded address, across restarts and requests
\* to the API server that fail.
LeaseMatchesRecord ==
    \A v \in VMs : \A n \in NicsOf(cfg[v].spec) :
      /\ leases[MacOf(n)].ref = v /\ leases[MacOf(n)].net = NetOf(n)
      /\ cfg[v].spec[n] \in IPs
      => leases[MacOf(n)].ip = cfg[v].spec[n]

\* No write of the helper replaces or removes the recorded address of an
\* interface that stays in the vmnetcfg (README.md:35).
StaticRecord ==
    [][\A v \in VMs : \A n \in NicsOf(cfg[v].spec) :
         cfg[v].spec[n] \in IPs /\ cfg'[v].exists /\ cfg'[v].spec[n] # NoNic
         => cfg'[v].spec[n] = cfg[v].spec[n]]_cfg

\* While the process lives, an interface that is served and still plugged in
\* keeps its lease (README.md:35).
ServedAddressStatic ==
    [][phase' # "down" => \A m \in MACs : InUse(m) => leases'[m] = leases[m]]_vars

\* While the process lives, an address that a vmnetcfg records with status OK
\* for an interface its virtual machine still has is not given back to the
\* subnet (README.md:36).
ReleasedOnlyOnDelete ==
    [][phase' # "down" =>
       \A v \in VMs : \A n \in vm[v].nics :
         /\ cfg[v].status[n] = "OK"
         /\ cfg[v].spec[n] \in ipam[NetOf(n)]
         => cfg[v].spec[n] \in ipam'[NetOf(n)]]_vars

Spent(what) == budget[what] < Budget[what]

\* As long as no virtual machine is deleted, an interface on a configured
\* network is served in the end, or reported in error, or unplugged: no lost
\* event, conflict or restart starves it.
EventuallyServed ==
    \A v \in VMs : \A n \in MACs \X Configured :
      n \in vm[v].nics ~> \/ n \notin vm[v].nics
                          \/ leases[MacOf(n)].ref = v
                          \/ cfg[v].status[n] = "ERROR"
                          \/ Spent("delete")

\* The start does not wait for ever for the vmnetcfgs it counted, also when
\* some of them end in error (comment at vmnetcfg/controller.go:104-106).
BecomesOperational == (phase = "init") ~> (phase = "running" \/ phase = "down")

\* The lease of a virtual machine that is deleted goes in the end, unless a
\* virtual machine of that name is created again or the process crashes.
EventuallyReleased ==
    \A v \in VMs : \A m \in MACs :
      leases[m].ref = v /\ ~vm[v].exists
        ~> leases[m].ref # v \/ vm[v].exists \/ Spent("crash")

\* When the helper has nothing left to do, no lease is left of an interface
\* that was unplugged or of a virtual machine that was deleted (README.md:36).
NoOrphan == Idle => \A m \in MACs : CheckLease(m) => InUse(m)

\* When the helper has nothing left to do, every address that is marked in a
\* subnet is excluded or served: the pool is not used up by addresses of
\* deleted virtual machines (README.md:25-27).
NoLeak ==
    Idle => \A net \in Networks : \A a \in ipam[net] \ Excluded :
              \E m \in MACs : leases[m].ip = a /\ leases[m].net = net

\* When the helper has nothing left to do, the status of a pool tells what is
\* allocated (README.md:183), whatever was created, deleted and created again or
\* interrupted by a crash: each address is marked and listed, or released and
\* taken off the list, in separate steps.  Machines keep their interfaces here,
\* so that only the vmnetcfg controller writes the status.
PoolStatusAccurate ==
    Idle => \A net \in Configured :
              pool[net].alloc = ipam[net] /\ pool[net].used = Cardinality(ipam[net])

\* Two controllers write the status, from reads of different moments: one that
\* cleans up an interface that was unplugged, while the other allocates.  What
\* is left when both are done may lack an address that changed hands, but lists
\* none that is free, and counts none: no write is lost in a conflict, after
\* which the webhook would protect a pool for ever (README.md:77-78).
ListedAllocated ==
    Idle => \A net \in Configured :
              /\ pool[net].alloc \subseteq ipam[net]
              /\ pool[net].used <= Cardinality(ipam[net])

=============================================================================
