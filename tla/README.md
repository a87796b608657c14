# kubevirt-ip-helper in TLA+

The kubevirt-ip-helper gives KubeVirt virtual machines static addresses over
DHCP. It watches three kinds of Kubernetes objects and keeps a table of leases
in memory. One of several replicas does this, the leader; a second program, the
admission webhook, protects pools that are in use. This directory models the
controllers, the allocators, the DHCP server, the start, the leader election and
the webhook, checks them with TLC, and proves facts about the allocator, the
leader election and the webhook with TLAPS.

## 1. Inventory

A *vmnetcfg* is a VirtualMachineNetworkConfig, the object in which the helper
records the addresses of one virtual machine; it has the name of the machine.

| component | state | operations |
| --- | --- | --- |
| VirtualMachine controller (`pkg/controller/vm`) | informer copy, work queue, one worker | creates, updates and deletes the vmnetcfg of a machine; cleans up interfaces that were unplugged |
| vmnetcfg controller (`pkg/controller/vmnetcfg`) | informer copy, work queue, one worker | gives each interface an address and a lease, records them, takes them back on deletion, counts handled objects during the start |
| IPPool controller (`pkg/controller/ippool`) | informer copy, work queue, one worker | registers a pool (server address, DHCP pool, listener, subnet, excluded addresses, status, cache), reloads or restarts on a change, cleans up on deletion |
| IP allocator (`pkg/ipam`) | table of each subnet, a mutex | NewSubnet, DeleteSubnet, GetIP, ReleaseIP, Used, Available |
| DHCP allocator (`pkg/dhcp`) | pools, leases by MAC address, listeners, a mutex | AddPool, DeletePool, AddLease, CheckLease, GetLease, DeleteLease, the packet handler, Run, Stop |
| pool cache (`pkg/cache`) | IPPool objects by network name, no lock | Add, Check, Get, Delete |
| application (`pkg/app`) | status, two counters with targets | RunServices, restart inside of the process, network cleanup |
| leader election (`cmd/kubevirt-ip-helper`, `pkg/app`) | the Lease, the pod label, three goroutines | acquire, renew, release; OnStartedLeading, OnStoppedLeading; the signal handler |
| network (`pkg/network`) | addresses of the bind interface | add, remove |
| metrics (`pkg/metrics`) | gauges | written by everyone, read by nobody inside |
| webhook (`cmd/kubevirt-ip-helper-webhook`, `pkg/webhook/admission`, `service`) | registration, HTTPS server | refuses the deletion of a pool in use |
| webhook certificates (`pkg/webhook/config`, `scheduler`) | a Secret and a signing request that all pods share, files, a timer | creates, renews and copies the key and its certificate |

**Interactions.** The controllers never call each other. They meet in the API
(the VirtualMachine controller writes vmnetcfgs that the vmnetcfg controller
reads and writes; both write the status of the pools) and in the memory of the
process (leases, address tables, pool cache), each from one goroutine. Events
reach a worker through a watch, an informer's copy and a work queue whose items
are a key *with an action*; the worker then reads the informer's copy, which
may have moved on. The start is sequential: pools, then the vmnetcfgs that
exist, then virtual machines, each phase waiting for a counter. Replicas meet in
the Lease; the label and the server addresses of a replica outlive its process.
The pods of the webhook meet in the Secret and the signing request.

**Hard behaviours.** Nothing in memory survives a restart and everything is
rebuilt from the vmnetcfgs. API writes are conditional and are not retried: an
error is logged and the event is forgotten. One handler changes several things
that do not change together: address, lease, record, pool status. Two
goroutines share the memory without a common lock. The event queue absorbs
repeated events. A restart inside of the process leaves goroutines of before
behind, which share the application's status with the new ones. The packet
handler takes no lock while pools are replaced. Elector, services and signal
handler set up and clean up the same things and do not wait for each other. A
certificate is renewed in seven requests, any of which may be the last.
`PROJECT.json` lists each hazard at its line.

**What makes it correct.** No address is served twice; a lease is backed by the
allocator and agrees with the record; an address that is served does not change
and is not given away; what is deleted is released in the end, and nothing is
leaked; everyone is served or told so; the start ends; the pool status tells
what is allocated; every pool is served as it is configured now and nothing of
an older configuration is left; a machine that asks gets the configuration of
its pool; a pool in use is not deleted; the allocator is linearizable and stays
inside its subnet; one replica leads, has the label and the server addresses,
and another one takes over from it; the webhook has a valid certificate again
whatever fails, and none expires while it is used.

## 2. Modules

| module | stands for |
| --- | --- |
| `WorkQueue` | client-go's deduplicating queue with one worker; the order of an informer's first list |
| `HelperState` | the state the two controllers of virtual machines share (API objects, watches, informer copies, queues, memory), conditional writes, and the steps both have: processNextItem, cleanupNetworkInterface, updateIPPoolStatus |
| `VmNetCfgController` | `pkg/controller/vmnetcfg`: one action per stretch of `updateVirtualMachineNetworkConfig` between two points where somebody else can act |
| `VmController` | `pkg/controller/vm`, in the same way |
| `IpHelper` | composes both with the informers, the part of RunServices that waits for vmnetcfgs, crashes, failed requests, a clock and the users; the properties of addresses and leases |
| `MCIpHelper` | budgets and shapes of virtual machines for the runs |
| `IPPoolController` | `pkg/controller/ippool`: registration, reload, restart, clean-up, with what it calls of `pkg/dhcp`, `pkg/cache`, `pkg/network` |
| `DhcpServer` | the packet handler of `pkg/dhcp`, read by read |
| `Application` | composes them with the main goroutine (start, wait for the pools, restart inside of the process), the informer, crashes, failed requests, users behind the webhook and a client that asks; the properties of pools |
| `MCApplication` | budgets and configurations of pools for the runs |
| `AddressPool` | abstract: what the allocator promises |
| `Ipam` | `pkg/ipam` at the level of goroutines and the mutex; implements `AddressPool` |
| `MCIpam` | subnets and symmetry for the runs |
| `LeaderElection` | `cmd/kubevirt-ip-helper/main.go` and the callbacks in `pkg/app`: elector, services and signal handler of each replica |
| `MCLeader` | budgets for the run |
| `CertConfig` | `pkg/webhook/config`: `Run`, one action per request |
| `Webhook` | composes it with the process of the webhook, the registration, the scheduler, the HTTPS server, the signer and rolling updates |
| `MCWebhook` | budgets for the run |
| `IpamProofs`, `LeaderProofs`, `WebhookProofs` | theorems about `Ipam`, `LeaderElection` and `Webhook` |
| `WorkQueueProofs` | lemmas about the work queue and the order of a first list |
| `RecordProofs`, `LeaseProofs`, `ServedProofs` | theorems about `IpHelper`: types, recorded addresses and pool status; leases and how they agree with the records; that nothing is forgotten. Each extends the one before |
| `ApplicationProofs` | theorems about `Application` |

`AddressPool` is what `IpHelper` takes an allocator for: there GetIP and
ReleaseIP are one step each, and that `Ipam` implements them so is checked
(`PoolSpec`) and proved (`ImplementsAddressPool`).

`IpHelper` and `Application` look at the same process from two sides. In
`IpHelper` the pools are registered once, and the only change is a reload, which
takes the pool out of the cache and puts it back with newer timestamps; in
`Application` the virtual machines are a set of pools that have `tenants`. What
joins them is the status of a pool and its place in the cache, which both models
have.

### IpHelper

An interface is a pair of MAC address and network name. `cfg[v].spec` maps an
interface to the IPAddress of its NetworkConfig entry and `cfg[v].status` to the
Status of its NetworkConfigStatus entry, so lists are functions and keep no
order. Handlers range over their lists in an arbitrary order, since `CheckNic`
and `Cleanup` pick an interface with `\E`; the list of a real object has a fixed
order, so this adds behaviours and removes none. `worker[c]` holds the locals of
the handler in progress and `pc` where it is. `rv` is the resourceVersion. A
pool's status keeps the set of allocated addresses, the number used and the two
timestamps.

### Application

RunServices makes a new memory (allocators, cache, metrics) and new controllers
each time it runs, and the worker of the time before is not waited for: it ends
what it is doing and drains its queue. A *generation* is one run of RunServices.
`cache`, `dhcp`, `subnet`, `servers`, `queue`, `worker` and `indexer` are
functions of the generation; `appStatus` and the two counters are shared by all
of them through pointers; `addrs` and `listening` belong to the network
interfaces, and the addresses survive a killed container but not a replaced pod.

The spec of a pool is a network, a configuration and options. Configurations
are what handleIPPoolObjectChange restarts for (server address, subnet, range,
exclusions, router) and options what it reloads (lease time, DNS, NTP);
`ServerIP` gives a configuration its address, `Broken` are those that ipam
refuses. Each pool has a bind interface of its own that never changes; the code
compares no bind interfaces. `used` are the pools whose status lists an address
that is not excluded, which is all the webhook asks. The sleeps of the main loop
are not modelled: the time a step takes is arbitrary.

### DhcpServer

A packet arrives at a listener of some generation, and the handler reads the
lease, the existence of the pool and the pool in three steps, in the tables of
that generation. A pool stands for the options that are copied from it; None is
the zero value Go returns for a pool that is gone. `packet.asked` is a history
variable: the spec of the pool if nothing was under way when the client asked.
DISCOVER, REQUEST and RELEASE share the steps, since all three build the reply
from the pool; a RELEASE is answered as well (dhcp.go:304-312).

### LeaderElection

Per replica, `elector` is where the main goroutine is, `services` the goroutine
of OnStartedLeading, `signal` the one that waits for a signal. `lease.age` is the
time since the holder renewed and `waited[r]` the time since a renewal `r` knows
of; they differ when the answer to a renewal is lost. `GiveUp` stands for
RenewDeadline with RetryPeriod, `LeaseDuration` for what the others wait; the
code has 15, 5 and 60 seconds (app.go:127-130). A replica is *settled* when it
stands by or leads and no signal has arrived. `Die` is the end of a process in
any way: the services end with it, the label and the addresses stay unless the
pod is replaced.

### CertConfig and Webhook

A certificate is named by the key it was made for, so a pair matches when both
fields are the same, and `left` is the time each has. Keys that nobody has any
more are used again (`Fresh`). `pod[w]` has the memory, the files and the running
server of a pod; `renewing` tells whether main or the scheduler called `Run`. Time
passes only while every pod waits: work takes no time, since minutes are what
the code measures. An update runs two pods for a while, of which the older is
terminated when the newer is running (there are no probes in the chart).

### Where a handler is cut into actions

Before each API request, and between two calls that another goroutine could come
between and tell apart. Two calls with nothing observable between them are one
action. CheckLease and GetLease are two reads, hence `CheckNic`/`CheckOwner` and
`CheckMacs`/`CheckRefs`; so are CheckPool and GetPool, hence
`CheckPool`/`ReadPool`. A request that fails may have taken effect (the
signing request, the removal of the Secret, the release of the Lease) where that
makes a difference. A registration adds its address (`SyncAdd`), sets up DHCP and
ipam (`StartPool`), and writes and caches (`Register`); the clean-up is one
action, since its calls touch maps of its own generation. Where a socket cannot
be opened (`ListenError`) there is no server, the clean-up that follows closes a nil
one, and the process ends (`Panic`). `CountError` is a RunServices that cannot list
the vmnetcfgs: it returns, and the application counts as running with its pools
but without the other two controllers (`phase = "unlistened"`). The key and the
certificate of the webhook are two files, and `HalfCopied` is a write that fails
between them.

Three cuts are coarser than the code. `UpdateIPPoolStatusGet` reads the pool from
the API and counts the marks in one step; the count is written only if nobody
wrote the pool in between, but a mark the other controller sets or clears
between the two calls is counted as if it had been before both. `CheckHeld` looks at
a lease and deletes it in one step (vmnetcfg.go:112-114); the VirtualMachine
controller could only delete the same lease in between. `CreatedWhileDown` reads
the timestamps of the cached pool at its own step, where the code uses the pool it got
at vmnetcfg.go:37. For the code a reload in between comes too late to matter,
which the model has as a reload after the step; an error it has in addition is
the one of a reload before, and NoErrors is checked with reloads while idle only.

Operators marked *Mutant* are not part of any specification: each is a broken
form of the definition that follows it, kept to show that a property notices.

## 3. Runs

The runs of `MCIpHelper` and `MCApplication` bound the environment by a budget
per kind of event and by a window (`Circumstance`): `idle` events come only when
the helper has nothing to do, `reloading` ones while it only reloads a pool,
`busy` ones while it runs, `starting` ones while it starts or restarts (in
`Application`), `down` ones between a crash and the next start. `MCLeader` and
`MCWebhook` have a budget per kind of fault, and `AnyCount` bounds the faults of
all kinds together. MaxRetries is 2: the second attempt is the last one, and 3 in
MCHotPlug, where the second one can meet a conflict as well. The code's bound is
10; a handler conflicts only with writes of the other one, which are fewer than
that in every run.
MaxGen bounds the generations; TypeOK of MCPools says that the bound is not what
stops that run.

| run | question | checks |
| --- | --- | --- |
| MCLifecycle | create, plug, unplug, delete, restart, each when idle, two addresses for three interfaces, a third one excluded | TypeOK, LeaseBacked, NoOrphan, NoLeak, ServedAddressStatic, ReleasedOnlyOnDelete |
| MCGrowth | two machines created at any time; when idle, a user edits an address or changes an option of the pool, and the helper crashes; a user creates a vmnetcfg while it is down | Served, NoErrors, NoHijack |
| MCRestart | a crash and a deletion, with or without a re-creation, at any point, one address for two | PoolStatusAccurate, EventuallyServed, EventuallyReleased, BecomesOperational |
| MCHotPlug | an interface is unplugged for another one at any point, two addresses for three interfaces: both controllers write the pool status | ListedAllocated |
| MCFailure | a failed request, a crash and a reload of the pool at any point; a second interface, on a network without a pool, from the start or plugged in when idle | UniqueLease, LeaseMatchesRecord, StaticRecord |
| MCPools | two pools created, changed, reloaded and deleted, each when idle; a client that asks at any time | TypeOK, ConfigurationApplied, NothingStale, OneListener, ProtectedInUse, Answered, RestartEnds |
| MCPoolFaults | two pools of one network, changed while the application runs, deleted at any point, with a crash, a failed request, a socket that cannot be opened and a configuration that cannot be registered | CacheBacked, NoNilServer |
| MCIpam | two goroutines, a subnet created and deleted | TypeOK, FoundStillTrue, PoolSpec, CallsReturn |
| MCLeader | two replicas and any three of: signals, crashes, a restart, missed renewals, a stall, a failed request for label or clean-up | TypeOK, OneLeader, AddressOnce, LabelMarksLeader, TakesOver |
| MCWebhook | two pods one after the other, with a failed request, a crash, files that cannot be written, a late signer, an outage | TypeOK, Paired, NeverExpires, TickRenews, Recovers |

Two machines, one or two networks and up to three addresses are enough
for the cases the hazards name: a competitor for the address of another, a pool
that is exhausted, an address that is reused, a second interface of the same
machine, a network without a pool. Two pools are enough for a pool that is
served while another one restarts everything, and for two that share a network;
three configurations for a change with and without a new server address. Two
goroutines let one wait for the mutex, or lose its subnet, while the other
works. Two replicas are a leader and its successor; three faults are enough for
one of each of two replicas and one of the take-over between them. A
certificate of 11 units with two units to the minute, of which three minutes
are the renewal period, lets a tick find every remainder that the truncation can
leave, and one failed renewal be repeated before the certificate expires.
`DistinctSeconds` (MCGrowth) excludes a vmnetcfg that a user creates in the same
second as a pool update before or after it, in which the creation check of the
code cannot decide.

**Fairness** (`FairSpec`). In `IpHelper` the start, the three workers and each
informer's delivery are goroutines that never wait for one another, so each is
weakly fair as a whole; in `Application` the main goroutine, the worker of each
generation and the informer, for the same reason. Users, crashes and failures
are not fair. In `Ipam` the steps of a goroutine are weakly fair and its Lock
strongly, because a `sync.Mutex` in starvation mode hands itself to the longest
waiter. In `LeaderElection` the three goroutines of each replica and time are
weakly fair; a process that ended is started again by the kubelet, so its start
is part of `Elector`. In `Webhook` the goroutine of each pod, the termination of
a pod that has a successor, the signer and time.

**Conditional properties.** A property that names a part of the budget
(`Unspent`, `Spent`, `budget["late"] = Budget["late"]`) says that it holds as long
as that one fault has not happened, whatever else has:

- `OneLeader` and `AddressOnce` do not speak of a process that was stalled:
  nothing tells the services that the Lease was lost.
- `AddressOnce` lets replicas on the way out have addresses beside a new leader.
  After a signal the Lease is released before the addresses are removed
  (ReleaseOnCancel comes before OnStoppedLeading), and the services, which nobody
  stops, may add an address or the label after the clean-up.
- `NoNilServer` does not speak of a socket that could not be opened: the clean-up
  that follows panics, see below. `NoErrors` and `NoHijack` speak of the time before
  a user edits an address, the first of that before one creates a vmnetcfg, too.
- `EventuallyServed` does not speak of machines after a deletion: a machine
  created again at once can be absorbed by the queue, see below.
- `Recovers` assumes a signer that needs less than two seconds. A later one
  leaves a Secret with an empty certificate, which is not due, and every start of
  the webhook panics on it in `StartCertRenewalScheduler`.
- `PoolStatusAccurate` is checked where machines keep their interfaces, so that
  the vmnetcfg controller alone writes the status. With two writers the status
  can lack an address (see below). `ListedAllocated` is what remains: it lists
  and counts none that is free. It needs the repeated attempt after a conflict; a
  deletion, a crash, a reload, a failed request or an edit beside the unplug
  breaks it as well, since each can have a release that nobody writes down.
- `NeverExpires` assumes that the files could be written. If not, the next tick
  is computed from the new certificate in the Secret while the old one is served.
- `Answered` allows a reply without any configuration when the pool was changed
  after the client asked: a reload deletes the pool and adds it again, and the
  handler that finds it in between takes the zero pool, with a nil server
  identifier (dhcp.go:235-240).

### Where the code differs from what it says

Each of these runs is expected to find its property violated.

| run | property | what happens |
| --- | --- | --- |
| MCRestartHangs | RestartEnds | the worker of the generation before waits for the end of the restart and asks for another one while the application initializes, which then waits for a count that never comes |
| MCPoolInUse | ProtectedInUse | a restart empties the pool status, on which alone the webhook relies; the pool is deleted before the addresses are taken again |

The same properties hold in the passing runs, whose environment leaves out the
trigger: that is what the windows are for. Served, NoOrphan, NoLeak,
ConfigurationApplied and NothingStale speak of moments at which the helper has
nothing left to do (`Idle`).

Other budgets of the same models lead to these, which have no run of their own.
In `MCIpHelper`, with a `Window` of `Anytime` where nothing else is said:

- Served, `Shapes <- HotPlug`, Updates = 1: an interface is plugged in while the
  vmnetcfg worker writes the object. The VirtualMachine controller gets a
  conflict (vm.go:104), which is logged and not retried.
- Served, Creates = 2, Deletes = 1, one machine: create, delete, create in quick
  succession. The second addition is absorbed by the first in the queue, the
  deletion is handled last and nobody creates the vmnetcfg again.
- NoErrors, Creates = 2, Reloads = 1, MaxClock = 3: the cached pool gets the
  LastUpdate of now. A vmnetcfg created a second before, whose turn comes after,
  passes for one created while the helper was down (vmnetcfg.go:86-87) and ends
  in error. With Creates = Crashes = 1 the same happens without a reload: the
  helper itself has created the vmnetcfg just before it crashed.
- NoErrors, `Shapes <- HotPlug`, one machine, Creates = Unplugs = 1, three
  addresses: the VirtualMachine controller deletes the lease between CheckLease and
  GetLease (vmnetcfg.go:61), and the zero lease passes for that of another machine.
- Served, Creates = 2, Reloads = 1: the vmnetcfg worker looks for the pool between
  the Delete and the Add of a reload (ippool.go:184-189), and gives up.
- Served, `Shapes <- TwoNetworks`: a network without a pool stops the handling of
  the other interface, which has a lease by then that is never recorded.
- ServedAddressStatic, `Shapes <- HotPlug`, Updates = 2: the write of the record
  conflicts, the next event deletes the lease and allocates another address.
- ReleasedOnlyOnDelete, Creates = 2, Deletes = 1, Edits = 1: deleting a vmnetcfg
  in error releases the address of another machine.
- ReleasedOnlyOnDelete and LeaseBacked after a deletion that is handled twice
  from an old informer copy, Creates = 2, Deletes = 1, one address.
- NoLeak, Creates = 1, Deletes = 1: deleted before the address was recorded.
- NoOrphan, Creates = Deletes = Crashes = 1: a machine is deleted while the
  helper is down, and nobody looks for vmnetcfgs whose machine is gone.
- NoHijack, Creates = 2, Crashes = 1, one address: after a crash an object
  without address is listed before a recorded one and gets its address.
- PoolStatusAccurate, Unplugs = 1, one address: freed by one controller and
  allocated by the other between two status updates.
- BecomesOperational, Manuals = 1 (`FairSpec`): an object appears between count
  and list, and the counter overshoots.

In `MCApplication`:

- ConfigurationApplied, a `Window` of `Anytime`, Changes = 1: a change that
  arrives while the application initializes is dropped.
- CacheBacked, the same: a change between the informer's copy and the status
  write is cached, but the DHCP pool and the subnet have the settings of before,
  and later comparisons see no difference.
- ConfigurationApplied, with `Choices` of two networks for one pool: the update
  of a renamed network looks for the new name in the cache and finds nothing.
- OneListener, Changes = Fails = 1: when the pools cannot be listed, no listener
  is stopped at a restart, and the next generation listens beside them. With
  Creates = Deletes = Changes = 1, `Anytime`, no request has to fail: a pool that
  is deleted between the end of the informer and stopDHCPListeners, and created
  again, keeps the listener of before.
- ConfigurationApplied, Creates = Deletes = Crashes = 1, `Anytime`: a
  pool deleted while the container is replaced leaves its server address, and a
  pool created again later cannot be registered.
- NoNilServer, Creates = Deletes = 2, Crashes = Reloads = 1, shared network,
  `Anytime`, without a failed socket: such a pool, which has no listener, is compared with the cached
  pool of its network, cached in its place by a reload, and cleaned up when it is
  deleted: Close of a nil server.
- CleanupPossible, Sockets = 1: the socket of a registration cannot be opened. The
  clean-up for which registerIPPool asks (ippool.go:46-56) calls Close, but Run has
  stored no server (dhcp.go:326-333): the process panics, and the server address
  stays on the interface.
- RestartEnds, Changes = 1, and one of the configurations in `Broken`: the restart waits for a
  pool that cannot be registered.

In `MCWebhook`:

- Paired, Window = TRUE: a rolling update during a renewal. Both pods use the
  name of one signing request, and the Secret gets the key of one with the
  certificate for the other. The server does not start with it until the next
  renewal.
- NeverExpires, Fails = 2: two failed renewals are one too many for a period of
  three minutes. The code's default of 30 days leaves room for more.

## 4. Proofs

`IpamProofs`, for any set of goroutines, networks and addresses:

- `TypesAndExclusion`: types, and at most one goroutine between Lock and Unlock.
  MutualExclusion alone is not inductive; `Holding` says who is inside *holds*
  the mutex, and that a goroutine that left its loop has found an address.
- `TablesHold`, `FoundHolds`: tables stay inside of their subnets, without the
  broadcast address, and what a loop found still holds when it is written. The
  invariant `Tables` adds `SubnetSeen`: a goroutine that has found its subnet
  knows that the network has had one, so no second subnet will take its place.
- `ImplementsAddressPool`: every step is a step of `AddressPool` or stutters.
  A grant happens at `Mark`; a refusal at the moment the goroutine leaves.

The last three assume `Generations <= 1`: a network gets a subnet at most once in
the life of the allocator, which holds between two starts of the services
unless two pools have one network name or a pool is deleted and created again.
Without it a goroutine can mark an address in a table that came later.
MutualExclusion and TablesInSubnet are only proved, not checked in a run: a broken
mutex shows in `FoundStillTrue`.

`LeaderProofs`, for any number of replicas, any durations with
`GiveUp < LeaseDuration` and any budget:

- `LeaderTypes`; its invariant `Typed` says that the budget only shrinks.
- `OneLeaderHolds`. The age of the Lease and the patience of its holder are kept
  by different clocks; `Leading` ties them: as long as no process was stalled, a
  leader holds the Lease, and `lease.age <= waited <= GiveUp`. So the Lease is
  not free while anybody leads.
- `LabelHolds`, from `Labelled`: a replica that stands by has no label, and one
  whose services are past adding it does, unless it is on its way out.
- `AddressesHold`, from `Cleaned` (a replica that stands by has no addresses) and
  `Crashed` (with crashes only, whoever has addresses holds the Lease, which was
  renewed one unit ago at most). It assumes `GiveUp > 1`, so that a leader does
  not give up before its first retry.

`WebhookProofs`, for any number of pods and keys and any durations:

- `WebhookTypes`. `Made` says that who is about to fetch, delete or store has a
  key in memory.
- `PairedHolds`, from `Alone` (there is one pod) and `Matched`: a request that is
  read was made for the key in memory, and the request, the Secret and the pair
  that is about to be stored have no certificate for another key.
- `TickRenewsHolds`, from `Unsigned` and `OnTime`: while the scheduler waits, the
  certificate has less than Period minutes more left than the timer; `Limit` is
  that bound in units. The truncation of both durations costs at most the minute
  that the code adds.

The last two assume `Budget["rollout"] = 0`, no rolling update. `MCWebhook`
checks them with one outside of a renewal; during one `Paired` is false.

`RecordProofs`, for any virtual machines, MAC addresses, networks and addresses, and
any interleaving of the two workers, the informers, crashes, failures and users:

- `HelperTypesHold`. TypeOK needs to know where a handler is: `Typed` adds which
  locals are set at which `pc` (`Handlers`), that a worker which is not idle has
  taken an event, and that nothing waits while no informer runs (`Quiet`). It
  contains that `GetIP` never returns the empty address.
- `HelperLeavesRecords`: a step that replaces or removes a recorded address of an
  interface that stays is a user's edit. Both controllers write objects they read
  earlier. `Copied` says that a copy with the resourceVersion of the object has
  its spec, wherever it is (informer, watch, worker), so a conditional write that
  is accepted was computed from the truth; `Faithful` says what a handler intends
  to write keeps the addresses of its copy.
- `StaticRecordHolds`: the property of MCFailure, when users edit no address.
- `PoolStatusHolds`: the status of every pool tells what is allocated whenever the
  helper is at rest. It assumes that a machine keeps its list of interfaces
  (`FixedShapes`: then the vmnetcfg worker alone frees, allocates and writes the status), that no request
  fails (a status update that fails is dropped) and that no pool is reloaded (the
  worker would look for it in between); deletions, edits, vmnetcfgs created by
  users, crashes and restarts are all there. In `Books`, `Telling` says that
  every status is right unless the worker is between the table and the status,
  and then it is right up to the address of that interface.

`LeaseProofs`, for any virtual machines, networks and addresses:

- `UniqueLeaseHolds`, `LeaseBackedHolds`: no two leases of a network have one
  address, and every lease has its mark. The invariant `Leasing` adds `Marked`, and
  what the vmnetcfg worker relies on between its calls (`Reserved`): the address
  it was granted is still marked and nobody's, the one it releases is nobody's
  any more. `Growth` is why the other controller does not come in between.
- They assume `OnlyGrowth` (nothing is deleted, unplugged or created by hand) and
  `OneNetwork` (a machine uses a MAC address on one network): the environment of
  MCFailure and MCGrowth, with crashes, failures, edits and reloads. With
  deletions they are only model-checked, in MCLifecycle: a clean-up that runs
  twice releases the address of somebody else (see above).
- `NoLeakHolds`, from the same assumptions: `Accounted` says that a mark is an
  exclusion, a lease, or the address the worker is about to lease or release;
  `Vacant`, that an interface that is about to get an address has no lease, so
  that no lease is overwritten.
- `LeaseMatchesRecordHolds`, `ServedAddressStaticHolds`, `ReleasedOnlyOnDeleteHolds`:
  in the same environment, when a machine also keeps its list of interfaces and
  users edit no address, a lease is for the recorded address, and neither it nor
  the mark of a recorded address ends while the process lives. The difficulty is
  the vmnetcfg that is handled again from an old copy. `Settled` follows an
  address from the lease to the record: `Ordered` says that copies and events get
  newer on the way, `Parked` that the lease of an interface without a recorded
  address is either in the hands of the worker or left by a write that failed,
  and then everything the worker can still read has that interface without address
  in error, which it skips. `Meant` is about the locals of the worker: what it is about to record is
  leased, and an object with the resourceVersion of the informer's is the informer's.
  `NextSteady` proves the invariant `Firm` together with the two
  action properties.

`ServedProofs`, for any virtual machines, networks and addresses:

- `ServedHolds`: when the helper is at rest, each interface has a lease for the
  address its vmnetcfg records, or an error there. This is the safety half of
  "every machine is served": whatever is not as it should be is in a queue, in a
  watch or in the hands of a worker. For a vmnetcfg that is `Remembered`: the last
  event is of the object in the API, and an object with an interface that is not
  `Provided` for is on its way to its worker. `Diligent` is why a handler may
  finish: each interface it has visited is provided for, and one that works from
  an old object is not the last, so a write that conflicts (vmnetcfg.go:234, 399;
  it is logged and never retried) is followed by a newer event. `Awaited` says the same of
  a machine that has no vmnetcfg yet, through the other informer and worker;
  that a restart lists everything re-establishes both.
- It assumes `OnlyGrowth`, `FixedShapes` and no edits, like the theorems before;
  that a MAC address is of one interface of one machine (`OwnMacs`); that every
  interface is on a network with a pool (`Pooled`); and that no request fails
  and no pool is reloaded. Each of the last two excludes a counterexample in the
  list of section 3; a failed request is not retried by anyone. Crashes,
  restarts and every interleaving of the workers and the informers remain.

`ApplicationProofs`, for any pools, networks, configurations and generations:

- `ApplicationTypes`. `Fed` ties the events on their way to the informer to its
  copy and to the API, so that no deletion is delivered of a pool the informer
  does not know; `Waiting` keeps the generations to come empty; `Looking` is about
  a packet whose lease was found. `TypeOK` is `Types`, which holds always, and
  `Spare`, that the bound on the generations is not reached, which a run has to
  see to; hence the form `Spare => TypeOK`.
- `CacheBackedHolds`: a pool is in the cache as the DHCP server and ipam have it,
  in behaviours in which no pool is changed while it is registered
  (`[]Undisturbed`; otherwise it is false, see above). The invariant `Tables` says
  for each place of the worker which networks are as they should be. Users,
  crashes, failed requests, broken configurations and old generations are all
  there, and two pools may share a network.
- `CacheBackedUnchanging`: the same from an assumption about the users, that a
  pool that is created again is configured as before.
- `NoNilServerHolds`, when no two pools share a network (`OwnNetworks`) and as long
  as every socket could be opened: `WithServer` says that what is cached, or handled after
  the listener was started, has a server, `Unheard` that only a failed socket
  leaves a registration without one; `Chosen` that everything in queues, copies and cache is of the pool it
  seems to be of. MCPoolFaults has pools that do share one and checks the
  property there; with a crash and a second creation it is false, see above.
- `OneListenerHolds`, when no pool is deleted and no request fails (`KeptPools`).
  `Once` says that a pool is added once per generation and not after it has a
  server; `Listening` that only the generation that runs has pools pending or
  listeners. At stopDHCPListeners every pool has a server, or the process ends,
  so nothing is pending and the worker that lives on starts no listener. Sockets
  may fail: no listener is open then, and the process ends. Without
  either assumption the property is false, see above; MCPools checks it with
  deletions while nothing is under way.
- `ConfigurationAppliedHolds`, `NothingStaleHolds`: whenever there is nothing left to
  do, every pool is served exactly as it is configured, and nothing is left of what
  was before. They assume `OwnNetworks`; that users wait until nothing is under
  way, keep the network of a pool and give it no configuration in `Broken`
  (`PatientUsers`); and that no request and no socket fails, and nothing crashes if a pool is ever
  deleted (`FewFaults`). MCPools satisfies all of them; section 3 has the counterexamples
  with users who do not wait, rename a network or configure what is broken, and
  with a crash around a deletion. What the users wait for is a fact about the moment of
  their step, so the invariant `Configured` has to follow it to the end:
  - While the informer runs (`Working`), every pool is in one of the stages `Off`, `On`,
    `Adding`, `Changing` and `Deleting`. A stage says where the one event of the pool
    is (watch, queue or worker) and what cache, DHCP pool, subnet, listener and address
    are at that point. An event of one pool moves no other pool, because
    their networks differ. While `main` waits, the counter is the number of
    pools that are in the cache (`Registered`), so it stops at the number it
    counted and not before the last one is served.
  - `Early` is a generation that has no informer yet, `Stopping` one that has lost it.
    A restart begins at the end of a change, with every queue and watch empty, so
    nothing of the old generation moves any more; its listeners are closed and the
    addresses of the pools in the API removed before the next one counts. A new
    process removes the addresses that a crash left in the same way
    (`LacksAddr`), which is why a registration never finds its own there.
  - `Calm` says that what is not of the current generation is at rest; `Unused`
    and `Unclaimed`, that tables nobody owns are empty; `Tenancy`, that a lease is
    known from the replay on.
  The queue is handled as a set of events, which the last lemmas of `WorkQueueProofs`
  justify.
- `AnsweredHolds`, under the same assumptions and `[][NotBack]_vars`: nobody changes a pool back
  to what it was when a packet was sent that is still handled (the property could
  not tell such a pool from one that was not changed; MCPools has too few changes
  for it). `Knows` says that the generation the packet arrived at keeps
  the lease, the DHCP pool and the cache entry it is answered from, and that no
  reload is about to replace them: a reload is only for a pool whose cache entry
  is not what it is configured as.
- `ProtectedInUseHolds`, under the assumptions of `ConfigurationAppliedHolds`: no pool in use is
  deleted. The webhook reads the status of the pool, which a registration empties
  and the replay fills; `Tenancy` says that this is done before anyone may delete.
  MCPoolInUse shows what happens to a user who does not wait.

`PoolValues` are the assumptions these proofs make about constants: finitely many
pools; `None` is no spec, object, configuration or network; `NoEvent` is no event, which
`HelperState` assumes as well, together with finitely many virtual machines, so
that the vmnetcfgs can be counted.

Model-checked only:

- Liveness, which the prover does not handle, and `BecomesOperational`,
  `RestartEnds`, `TakesOver`, `Recovers` with it.
- `NoErrors` and `NoOrphan`: both are false when users act at any time, and what
  a window excludes is a fact about every earlier moment, not about the state.
  They need for vmnetcfgs what `Configured` is for pools.
- `Served`, `NoLeak` and `PoolStatusAccurate` outside of the assumptions of their theorems,
  for the same reason.
- `ListedAllocated`: with two writers of the pool status an invariant would have to
  say what each of them has read when the other writes.
- `ServedAddressStatic`, `ReleasedOnlyOnDelete` and `LeaseMatchesRecord` with
  deletions, edits and hot-plug, and `NoHijack`: they hold in the environment of
  their runs and are false beyond, as the list above says of most of them.
- `NeverExpires` depends on the number of failures that fit in a period.

## 5. Not modelled

- Metrics (`pkg/metrics`): gauges and counters nothing reads back. Usage only
  reads. Log lines, status messages, the wording of answers.
- Packet contents and the strings of addresses, IPv6. Two packets at one time:
  the handler writes nothing, so they would not meet.
- `pkg/util`, which is stateless, and generated code.
- Broken watches that are listed again, and the tombstones they lead to:
  `DeleteFunc` panics on one (vm/event.go:147), which is a crash.
- Data races on Go maps: the runtime stops the process, which is a crash.
- A bind interface shared by two pools, or changed in a pool.
- The timestamps of a pool together with a restart inside of the process: they
  are in `HelperState`, where a start follows a crash.
- A renewal that takes longer than a minute. The ticker of the scheduler is a
  global variable that goroutines of before still wait for (scheduler.go).

## 6. Plan

1. `UniqueLease` and `LeaseBacked` with machines that are deleted while nothing is
   under way, which needs an invariant about the vmnetcfg that waits for its
   finalizer.
2. `OneListener` for pools that are deleted but never created again.
