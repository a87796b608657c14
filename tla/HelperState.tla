---------------------------- MODULE HelperState ----------------------------
(***************************************************************************)
(* The state the kubevirt-ip-helper controllers share, and the steps their *)
(* handlers have in common.                                                *)
(*                                                                         *)
(* Three groups of variables:                                              *)
(*   - the Kubernetes API: VirtualMachines, VirtualMachineNetworkConfigs   *)
(*     and the status of the IPPools, which survive a restart;             *)
(*   - what travels from the API to a controller: the watch streams, the   *)
(*     informers' indexers and the work queues;                            *)
(*   - the memory of the process: the DHCP leases, the IPAM tables, the    *)
(*     pool cache and the two workers, which a restart loses.              *)
(*                                                                         *)
(* A namespace/name key is an element of VMs: a VirtualMachineNetworkConfig*)
(* (vmnetcfg for short) has the name of its virtual machine.  A network    *)
(* interface is a MAC address on a network.                                *)
(***************************************************************************)
EXTENDS Integers, FiniteSets, Sequences, WorkQueue

CONSTANTS
    VMs,            \* keys (namespace/name) of virtual machines
    MACs,           \* hardware addresses
    Networks,       \* multus network names
    Configured,     \* the networks that have an IPPool
    IPs,            \* the addresses between start and end of every pool
    Excluded,       \* the addresses every pool excludes
    NoIP,           \* the empty string in an IPAddress field
    NoNic,          \* marks an interface a spec does not list
    NoRef,          \* the empty Reference of the zero lease
    MaxRetries,     \* bound of the status update loop, 10 in the code
    MaxClock        \* bound of the clock

ASSUME ConstantsAssumption ==
    /\ Configured \subseteq Networks
    /\ IsFiniteSet(VMs)
    /\ IsFiniteSet(IPs)
    /\ Excluded \subseteq IPs
    /\ NoIP \notin IPs
    /\ NoNic \notin IPs \cup {NoIP}
    /\ NoRef \notin VMs
    /\ MaxRetries \in Nat \ {0}
    /\ MaxClock \in Nat \ {0}

VARIABLES
    vm,         \* API: the VirtualMachine objects
    cfg,        \* API: the vmnetcfg objects
    pool,       \* API: the status of the IPPool of each network
    vmWatch,    \* VirtualMachine events sent and not yet seen by the informer
    cfgWatch,   \* the same for the vmnetcfgs
    vmIndexer,  \* the VirtualMachine informer's copy
    cfgIndexer, \* the vmnetcfg informer's copy
    queue,      \* the work queue of each controller
    worker,     \* the worker goroutine of each controller
    leases,     \* memory: the DHCP leases
    ipam,       \* memory: the addresses allocated in each subnet
    cache,      \* memory: the cached IPPool of each network
    phase,      \* how far RunServices has come
    count,      \* vmnetcfgCountCurrent
    target,     \* vmnetcfgCountTarget
    clock,      \* wall clock, in the seconds of a Kubernetes timestamp
    budget      \* what the environment may still do

api      == <<vm, cfg, pool>>
events   == <<vmWatch, cfgWatch, vmIndexer, cfgIndexer>>
memory   == <<leases, ipam, cache>>
boot     == <<phase, count, target, clock, budget>>
vars     == <<api, events, queue, worker, memory, boot>>

Controllers == {"vm", "vmnetcfg"}
Nics        == MACs \X Networks
MacOf(n)    == n[1]
NetOf(n)    == n[2]

-----------------------------------------------------------------------------
(* Objects.  A spec maps an interface to its address, NoIP while it has    *)
(* none, NoNic when the object does not list it; a status maps it to the   *)
(* Status string, "NONE" when the status list has no entry for it.         *)

Specs    == [Nics -> IPs \cup {NoIP, NoNic}]
Statuses == [Nics -> {"NONE", "OK", "ERROR"}]
NicsOf(spec) == {n \in Nics : spec[n] # NoNic}

EmptySpec   == [n \in Nics |-> NoNic]
EmptyStatus == [n \in Nics |-> "NONE"]

CfgObjects ==
    [exists : BOOLEAN, rv : Nat, spec : Specs, status : Statuses,
     fin : BOOLEAN, del : BOOLEAN, ctime : Nat]

\* rv is the resourceVersion: it keeps growing over deletion and re-creation.
GoneCfg(rv) ==
    [exists |-> FALSE, rv |-> rv, spec |-> EmptySpec, status |-> EmptyStatus,
     fin |-> FALSE, del |-> FALSE, ctime |-> 0]

VmObjects == [exists : BOOLEAN, nics : SUBSET Nics]
GoneVm    == [exists |-> FALSE, nics |-> {}]

PoolStatuses == [alloc : SUBSET IPs, used : Nat, lu : Nat, lubs : Nat]

-----------------------------------------------------------------------------
(* Events.                                                                 *)

Actions == {"add", "update", "delete"}
Event   == [key : VMs, action : Actions]

ASSUME EventAssumption == NoEvent \notin Event

\* The handlers registered with both informers: the indexer tells an
\* addition from an update.
ActionOf(old, new) ==
    IF ~new.exists THEN "delete" ELSE IF old.exists THEN "update" ELSE "add"

-----------------------------------------------------------------------------
(* The locals of a handler in progress.                                    *)

PCs == {"idle", "sync",
        "nic", "owner", "held", "getip", "addlease",     \* vmnetcfg, per nic
        "update", "ustatus", "unfinal",                  \* vmnetcfg, API
        "macs", "refs", "create", "delete",              \* vm
        "clean", "release", "poolget", "poolput"}        \* both

Workers ==
    [pc : PCs,
     obj    : CfgObjects,                    \* the vmnetcfg being handled
     todo   : SUBSET Nics,                   \* interfaces still to visit
     nic    : Nics \cup {NoNic},             \* the one being visited
     ip     : IPs \cup {NoIP},               \* address taken or to release
     spec   : Specs,                         \* NetworkConfig to write
     status : Statuses,                      \* status list to write
     change : BOOLEAN,                       \* networkChange
     op     : {"add", "delete"},             \* event of updateIPPoolStatus
     fresh  : BOOLEAN,                       \* nobody wrote the pool since Get
     used   : Nat,                           \* Used as read after Get
     retry  : Nat,
     next   : {"nic", "getip", "clean"}]     \* where updateIPPoolStatus returns

IdleWorker ==
    [pc |-> "idle", obj |-> GoneCfg(0), todo |-> {}, nic |-> NoNic,
     ip |-> NoIP, spec |-> EmptySpec, status |-> EmptyStatus,
     change |-> FALSE, op |-> "add", fresh |-> FALSE, used |-> 0,
     retry |-> 0, next |-> "nic"]

Step(c, w) == worker' = [worker EXCEPT ![c] = w]

KeyOf(c) == queue[c].busy.key

\* processNextItem: take an item, and be done with it.
TakeItem(c) ==
    /\ worker[c].pc = "idle"
    /\ queue[c].items # <<>>
    /\ queue' = [queue EXCEPT ![c] = Taken(@)]
    /\ Step(c, [IdleWorker EXCEPT !.pc = "sync"])
    /\ UNCHANGED <<api, events, memory, boot>>

Done(c) ==
    /\ Step(c, IdleWorker)
    /\ queue' = [queue EXCEPT ![c] = Completed(@)]

\* Mutants: every event is counted; an object with an interface in error is
\* not counted.
CountsUpdates(c) == c = "vmnetcfg" /\ phase = "init"

CountsWithoutError(c) ==
    /\ c = "vmnetcfg" /\ queue[c].busy.action = "add" /\ phase = "init"
    /\ \A n \in Nics : worker[c].status[n] # "ERROR"

Counts(c) == c = "vmnetcfg" /\ queue[c].busy.action = "add" /\ phase = "init"

\* A handler returns to sync, which counts a vmnetcfg ADD, in error or not,
\* as long as the application initializes.
Return(c) ==
    /\ Done(c)
    /\ count' = IF Counts(c) THEN count + 1 ELSE count

-----------------------------------------------------------------------------
(* Writes to a vmnetcfg.  The API server refuses one whose resourceVersion *)
(* is not the current one, ignores one that changes nothing and sends the  *)
(* others to the watchers.                                                 *)

Watched == phase \in {"init", "running"}

Current(v, obj) == cfg[v].exists /\ cfg[v].rv = obj.rv

Changed(v, obj) ==
    IF obj = cfg[v] THEN obj ELSE [obj EXCEPT !.rv = cfg[v].rv + 1]

WriteCfg(v, obj) ==
    LET new == Changed(v, obj)
    IN  /\ cfg' = [cfg EXCEPT ![v] = new]
        /\ cfgWatch' = IF Watched /\ new # cfg[v]
                       THEN [cfgWatch EXCEPT ![v] = Append(@, new)]
                       ELSE cfgWatch

-----------------------------------------------------------------------------
(* dhcp and ipam, as their callers see them.                               *)

ZeroLease == [ip |-> NoIP, ref |-> NoRef, net |-> NoNic]
Leases    == [ip : IPs \cup {NoIP}, ref : VMs \cup {NoRef},
              net : Networks \cup {NoNic}]

CheckLease(mac) == leases[mac] # ZeroLease

\* Mutant: a lease is never deleted.
KeepLease(mac) == leases' = leases

DeleteLease(mac) == leases' = [leases EXCEPT ![mac] = ZeroLease]

AddLease(mac, net, ip, ref) ==
    leases' = IF CheckLease(mac) THEN leases
              ELSE [leases EXCEPT ![mac] = [ip |-> ip, ref |-> ref, net |-> net]]

\* Mutants: an address in use is granted, the requested address is not heeded,
\* and an exhausted subnet grants the empty address.
GrantUsed(net, given)  == {a \in IPs : given \in {NoIP, a}}
GrantOther(net, given) == IPs \ ipam[net]
GrantEmpty(net, given) ==
    IF IPs \ ipam[net] = {} THEN {NoIP} ELSE {a \in IPs \ ipam[net] : given \in {NoIP, a}}

\* The addresses GetIP can return for a request, none when it fails.
Grantable(net, given) ==
    {a \in IPs \ ipam[net] : given \in {NoIP, a}}

\* Mutant: an address is never released.
NotReleased(net, a) == ipam

Released(net, a) == [ipam EXCEPT ![net] = @ \ {a}]

-----------------------------------------------------------------------------
(* cleanupNetworkInterface: the lease goes by MAC address, the address by  *)
(* the value in the object, whoever holds them, then the pool status.      *)

Cleanup(c) ==
    LET w == worker[c]
    IN  /\ w.pc = "clean"
        /\ \E n \in w.todo :
             /\ DeleteLease(MacOf(n))
             /\ Step(c, [w EXCEPT !.pc = "release", !.nic = n,
                                  !.todo = @ \ {n}, !.ip = w.obj.spec[n],
                                  !.next = "clean"])
        /\ UNCHANGED <<api, events, queue, ipam, cache, boot>>

ReleaseIP(c) ==
    LET w   == worker[c]
        net == NetOf(w.nic)
    IN  /\ w.pc = "release"
        /\ ipam' = Released(net, w.ip)
        /\ Step(c, IF cache[net].on
                   THEN [w EXCEPT !.pc = "poolget", !.op = "delete", !.retry = 0]
                   ELSE [w EXCEPT !.pc = w.next])
        /\ UNCHANGED <<api, events, queue, leases, cache, boot>>

\* Mutant: an address stays listed when it is released.
ListedForever(alloc, op, ip) == alloc \cup {ip}

\* The list of allocated addresses in the pool status after an event.
Listed(alloc, op, ip) == IF op = "add" THEN alloc \cup {ip} ELSE alloc \ {ip}

\* updateIPPoolStatus, one attempt: Get and count the allocated addresses...
UpdateIPPoolStatusGet(c) ==
    LET w   == worker[c]
        net == NetOf(w.nic)
    IN  /\ w.pc = "poolget"
        /\ Step(c, IF w.op = "add" /\ w.ip \in pool[net].alloc
                   THEN [w EXCEPT !.pc = w.next]
                   ELSE [w EXCEPT !.pc = "poolput", !.fresh = TRUE,
                                  !.used = Cardinality(ipam[net])])
        /\ UNCHANGED <<api, events, queue, memory, boot>>

Reported(status, w) ==
    [status EXCEPT !.alloc = Listed(@, w.op, w.ip), !.used = w.used, !.lu = clock]

\* Mutant: a write that conflicts is not tried again.
NoRetry(w) == TRUE

GivesUp(w) == w.retry + 1 = MaxRetries

\* ... and write, which fails when the other controller wrote in between.
UpdateIPPoolStatusPut(c) ==
    LET w   == worker[c]
        net == NetOf(w.nic)
        ret == [w EXCEPT !.pc = w.next, !.fresh = FALSE, !.used = 0, !.retry = 0]
    IN  /\ w.pc = "poolput"
        /\ \/ /\ w.fresh
              /\ pool' = [pool EXCEPT ![net] = Reported(@, w)]
              /\ worker' = [d \in Controllers |->
                             IF d = c THEN ret
                             ELSE [worker[d] EXCEPT !.fresh =
                                    @ /\ NetOf(worker[d].nic) # net]]
           \/ /\ ~w.fresh
              /\ Step(c, IF GivesUp(w) THEN ret
                         ELSE [w EXCEPT !.pc = "poolget", !.used = 0, !.retry = @ + 1])
              /\ pool' = pool
        /\ UNCHANGED <<vm, cfg, events, queue, memory, boot>>

=============================================================================
