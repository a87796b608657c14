---------------------------- MODULE RecordProofs ----------------------------
(***************************************************************************)
(* Proofs about the helper's state: its types, for any virtual machines,   *)
(* networks, pools and budget, and what the steps its handlers share       *)
(* preserve; and about what is recorded: the addresses in the vmnetcfgs,   *)
(* which the two controllers write from copies that may be old, and the    *)
(* allocated addresses in the status of the pools.                         *)
(***************************************************************************)
EXTENDS IpHelper, WorkQueueProofs

-----------------------------------------------------------------------------
(* The locals of a handler.  Where a handler is tells what it has found.   *)

AtNic(w)      == w.pc \in {"owner", "held", "getip", "addlease", "release", "poolget", "poolput"}
InRelease(w)  == w.pc \in {"release", "poolget", "poolput"}
Granted(w)    == w.pc = "addlease" \/ (w.pc \in {"poolget", "poolput"} /\ w.op = "add")
InCleanup(w)  == w.pc = "clean" \/ (InRelease(w) /\ w.next = "clean")

\* The handlers whose locals agree with the place they are at: a nic where one
\* is visited, an address where one was granted, and only interfaces of the
\* object where the object is cleaned up.
Handlers ==
    {w \in Workers :
       /\ AtNic(w) => w.nic \in Nics
       /\ Granted(w) => w.ip \in IPs
       /\ InCleanup(w) => w.todo \subseteq NicsOf(w.obj.spec)}

\* A worker that handles something has taken it from its queue.
Working ==
    /\ queue \in [Controllers -> Queues(Event)]
    /\ worker \in [Controllers -> Handlers]
    /\ \A c \in Controllers : worker[c].pc # "idle" => queue[c].busy \in Event

\* A controller whose listener was not started yet has nothing to do.
Quiet ==
    /\ ~Watched =>
         /\ worker["vmnetcfg"].pc = "idle" /\ queue["vmnetcfg"].items = <<>>
         /\ \A v \in VMs : cfgWatch[v] = <<>>
    /\ phase # "running" =>
         /\ worker["vm"].pc = "idle" /\ queue["vm"].items = <<>>
         /\ \A v \in VMs : vmWatch[v] = <<>>

Typed == TypeOK /\ Working /\ Quiet

-----------------------------------------------------------------------------
(* Objects.                                                                *)

LEMMA NicFields == \A n \in Nics : MacOf(n) \in MACs /\ NetOf(n) \in Networks
BY DEF Nics, MacOf, NetOf

LEMMA EmptyTyped == EmptySpec \in Specs /\ EmptyStatus \in Statuses /\ NicsOf(EmptySpec) = {}
BY DEF EmptySpec, EmptyStatus, Specs, Statuses, NicsOf

LEMMA GoneTyped == (\A rv \in Nat : GoneCfg(rv) \in CfgObjects) /\ GoneVm \in VmObjects
BY EmptyTyped DEF GoneCfg, CfgObjects, GoneVm, VmObjects

LEMMA ChangedTyped ==
    ASSUME NEW v \in VMs, cfg[v] \in CfgObjects, NEW obj \in CfgObjects
    PROVE  Changed(v, obj) \in CfgObjects
BY DEF Changed, CfgObjects

\* A write of a vmnetcfg changes that object, and the watchers of the API see
\* it when there are any.
LEMMA WriteCfgTyped ==
    ASSUME cfg \in [VMs -> CfgObjects], cfgWatch \in [VMs -> Seq(CfgObjects)],
           NEW v \in VMs, NEW obj \in CfgObjects, WriteCfg(v, obj)
    PROVE  /\ cfg' \in [VMs -> CfgObjects]
           /\ cfgWatch' \in [VMs -> Seq(CfgObjects)]
           /\ ~Watched => cfgWatch' = cfgWatch
BY ChangedTyped, AppendProperties DEF WriteCfg

-----------------------------------------------------------------------------
(* Workers.                                                                *)

LEMMA IdleTyped == IdleWorker \in Handlers /\ IdleWorker.pc = "idle"
<1>1. GoneCfg(0) \in CfgObjects /\ EmptySpec \in Specs /\ EmptyStatus \in Statuses
  BY EmptyTyped, GoneTyped
<1> QED BY <1>1 DEF IdleWorker, Handlers, Workers, PCs, AtNic, InRelease, Granted, InCleanup

LEMMA StepWorking ==
    ASSUME Working, NEW c \in Controllers, NEW w \in Handlers,
           worker[c].pc # "idle", Step(c, w), UNCHANGED queue
    PROVE  Working'
BY DEF Working, Step

LEMMA DoneWorking ==
    ASSUME Working, NEW c \in Controllers, worker[c].pc # "idle", Done(c)
    PROVE  Working' /\ \A d \in Controllers \ {c} : queue'[d] = queue[d] /\ worker'[d] = worker[d]
BY IdleTyped, CompletedTyped DEF Working, Done, Step

LEMMA ReturnWorking ==
    ASSUME Working, count \in Nat, NEW c \in Controllers, worker[c].pc # "idle", Return(c)
    PROVE  /\ Working' /\ count' \in Nat
           /\ \A d \in Controllers \ {c} : queue'[d] = queue[d] /\ worker'[d] = worker[d]
BY DoneWorking DEF Return

LEMMA EnqueueWorking ==
    ASSUME Working, NEW c \in Controllers, NEW e \in Event,
           queue' = [queue EXCEPT ![c] = Enqueued(@, e)], UNCHANGED worker
    PROVE  Working'
BY EnqueuedTyped DEF Working

\* What a worker does while it handles something leaves the other controller
\* as quiet as it was.
LEMMA WorkQuiet ==
    ASSUME Typed, NEW c \in Controllers, worker[c].pc # "idle",
           \A d \in Controllers \ {c} :
             queue'[d] = queue[d] /\ worker'[d].pc = worker[d].pc,
           UNCHANGED <<phase, vmWatch>>, ~Watched => cfgWatch' = cfgWatch
    PROVE  Quiet'
BY DEF Typed, Quiet, Watched, Controllers

LEMMA StepTyped ==
    ASSUME Typed, NEW c \in Controllers, NEW w \in Handlers, worker[c].pc # "idle",
           Step(c, w), UNCHANGED <<api, events, queue, boot>>,
           leases' \in [MACs -> Leases], ipam' \in [Networks -> SUBSET IPs], UNCHANGED cache
    PROVE  Typed'
<1>1. Working'
  BY StepWorking DEF Typed
<1>2. Quiet'
  <2>1. \A d \in Controllers \ {c} : queue'[d] = queue[d] /\ worker'[d].pc = worker[d].pc
    BY DEF Typed, Working, Step
  <2> QED BY <2>1, WorkQuiet DEF boot, events
<1>3. TypeOK'
  BY <1>1 DEF Typed, TypeOK, Working, Handlers, api, events, boot
<1> QED BY <1>1, <1>2, <1>3 DEF Typed

\* The handler ends, and may have written its vmnetcfg.
LEMMA ReturnTyped ==
    ASSUME Typed, NEW c \in Controllers, worker[c].pc # "idle", Return(c),
           cfg' \in [VMs -> CfgObjects], cfgWatch' \in [VMs -> Seq(CfgObjects)],
           ~Watched => cfgWatch' = cfgWatch, cfgIndexer' \in [VMs -> CfgObjects],
           UNCHANGED <<vm, pool, vmWatch, vmIndexer, memory, phase, target, clock>>,
           budget' \in [BudgetKeys -> Nat]
    PROVE  Typed'
<1>1. /\ Working' /\ count' \in Nat
      /\ \A d \in Controllers \ {c} : queue'[d] = queue[d] /\ worker'[d] = worker[d]
  BY ReturnWorking DEF Typed, TypeOK
<1>2. Quiet'
  BY <1>1, WorkQuiet
<1>3. TypeOK'
  BY <1>1 DEF Typed, TypeOK, Working, Handlers, memory
<1> QED BY <1>1, <1>2, <1>3 DEF Typed

LEMMA TakeItemTyped ==
    ASSUME Typed, NEW c \in Controllers, TakeItem(c)
    PROVE  Typed'
<1>1. [IdleWorker EXCEPT !.pc = "sync"] \in Handlers
  BY IdleTyped DEF Handlers, Workers, PCs, AtNic, Granted, InCleanup, InRelease
<1>2. queue[c] \in Queues(Event) /\ queue[c].items # <<>>
  BY DEF Typed, Working, TakeItem
<1>3. Taken(queue[c]) \in Queues(Event) /\ Taken(queue[c]).busy \in Event
  BY <1>2, TakenTyped
<1>4. Working'
  BY <1>1, <1>3 DEF Typed, Working, TakeItem, Step
<1>5. Quiet'
  BY <1>2 DEF Typed, Quiet, Watched, TakeItem, Step, Controllers, Working, boot, events
<1>6. TypeOK'
  BY <1>4 DEF Typed, TypeOK, Working, Handlers, TakeItem, api, events, boot, memory
<1> QED BY <1>4, <1>5, <1>6 DEF Typed

\* An object that is read belongs to the types, its interfaces among them.
LEMMA SpecTyped ==
    ASSUME NEW spec \in Specs
    PROVE  /\ NicsOf(spec) \subseteq Nics
           /\ \A n \in Nics : spec[n] \in IPs \cup {NoIP, NoNic}
           /\ \A n \in NicsOf(spec) : spec[n] \in IPs \cup {NoIP}
BY DEF Specs, NicsOf

\* The worker of a controller that is not idle handles an event of its queue.
LEMMA WorkerTyped ==
    ASSUME Typed, NEW c \in Controllers
    PROVE  /\ worker[c] \in Handlers /\ worker[c] \in Workers
           /\ worker[c].pc # "idle" => KeyOf(c) \in VMs
BY DEF Typed, Working, Handlers, Event, KeyOf

-----------------------------------------------------------------------------
(* The worker of the vmnetcfg controller.                                  *)

LEMMA SyncCfgTyped ==
    ASSUME Typed, SyncCfg
    PROVE  Typed'
<1> DEFINE e   == queue[me].busy
           obj == cfgIndexer[e.key]
           w   == [IdleWorker EXCEPT !.pc = IF obj.del THEN "clean" ELSE "nic",
                     !.obj = obj, !.todo = NicsOf(obj.spec), !.spec = obj.spec]
<1>1. me \in Controllers /\ worker[me].pc = "sync" /\ worker[me].pc # "idle"
  BY DEF me, Controllers, SyncCfg
<1>2. e.key \in VMs /\ obj \in CfgObjects
  BY <1>1, WorkerTyped DEF KeyOf, Typed, TypeOK
<1>3. obj.spec \in Specs /\ NicsOf(obj.spec) \subseteq Nics /\ obj.del \in BOOLEAN
  BY <1>2, SpecTyped DEF CfgObjects
<1>4. w \in Handlers
  <2>1. w \in Workers
    BY <1>2, <1>3, IdleTyped DEF Handlers, Workers, PCs
  <2>2. w.pc \in {"clean", "nic"} /\ w.todo = NicsOf(w.obj.spec)
    BY <1>2, <1>3, IdleTyped DEF Handlers, Workers
  <2> QED BY <2>1, <2>2 DEF Handlers, AtNic, Granted, InCleanup, InRelease
<1>5. CASE e.action = "delete" \/ ~obj.exists
  <2>1. Done(me) /\ UNCHANGED <<api, events, memory, boot>>
    BY <1>5 DEF SyncCfg
  <2>2. Working' /\ \A d \in Controllers \ {me} : queue'[d] = queue[d] /\ worker'[d] = worker[d]
    BY <1>1, <2>1, DoneWorking DEF Typed
  <2>3. Quiet'
    BY <1>1, <2>1, <2>2, WorkQuiet DEF events, boot
  <2>4. TypeOK'
    BY <2>1, <2>2 DEF Typed, TypeOK, Working, Handlers, api, events, memory, boot
  <2> QED BY <2>2, <2>3, <2>4 DEF Typed
<1>6. CASE ~(e.action = "delete" \/ ~obj.exists)
  <2>1. Step(me, w) /\ UNCHANGED <<api, events, queue, memory, boot>>
    BY <1>6 DEF SyncCfg
  <2> QED BY <1>1, <1>4, <2>1, StepTyped DEF memory, Typed, TypeOK
<1> QED BY <1>5, <1>6

LEMMA InErrorTyped ==
    ASSUME NEW w \in Workers, NEW n \in Nics
    PROVE  InError(w, n) \in Handlers
BY DEF InError, Handlers, Workers, PCs, Statuses, AtNic, Granted, InCleanup, InRelease

LEMMA CheckNicTyped ==
    ASSUME Typed, CheckNic
    PROVE  Typed'
<1> DEFINE w    == worker[me]
           v(n) == [w EXCEPT !.todo = @ \ {n}, !.nic = n]
<1>1. me \in Controllers /\ w.pc = "nic" /\ w.pc # "idle" /\ w \in Workers
  BY WorkerTyped DEF me, Controllers, CheckNic
<1>2. ASSUME NEW n \in w.todo
      PROVE  /\ n \in Nics /\ v(n) \in Workers
             /\ [v(n) EXCEPT !.pc = "owner"] \in Handlers
             /\ [v(n) EXCEPT !.pc = "getip"] \in Handlers
  <2>1. n \in Nics
    BY <1>1 DEF Workers
  <2>2. v(n) \in Workers /\ v(n).nic = n
    BY <1>1, <2>1 DEF Workers
  <2>3. /\ [v(n) EXCEPT !.pc = "owner"] \in Workers
        /\ [v(n) EXCEPT !.pc = "getip"] \in Workers
    BY <2>2 DEF Workers, PCs
  <2> HIDE DEF v
  <2> QED BY <2>1, <2>2, <2>3 DEF Handlers, Workers, AtNic, Granted, InCleanup, InRelease
<1>3. PICK x \in Handlers : Step(me, x)
  BY <1>1, <1>2, InErrorTyped DEF CheckNic
<1> QED BY <1>1, <1>3, StepTyped DEF CheckNic, memory, Typed, TypeOK

LEMMA NoPoolTyped ==
    ASSUME Typed, NoPool
    PROVE  Typed'
<1>1. me \in Controllers /\ worker[me].pc # "idle"
  BY DEF me, Controllers, NoPool
<1> QED BY <1>1, ReturnTyped DEF NoPool, api, events, Typed, TypeOK

LEMMA CheckOwnerTyped ==
    ASSUME Typed, CheckOwner
    PROVE  Typed'
<1> DEFINE w == worker[me]
<1>1. me \in Controllers /\ w.pc = "owner" /\ w.pc # "idle" /\ w \in Workers /\ w.nic \in Nics
  BY WorkerTyped DEF me, Controllers, CheckOwner, Handlers, AtNic
<1>2. [w EXCEPT !.pc = "held"] \in Handlers
  BY <1>1 DEF Handlers, Workers, PCs, AtNic, Granted, InCleanup, InRelease
<1>3. PICK x \in Handlers : Step(me, x)
  BY <1>1, <1>2, InErrorTyped DEF CheckOwner
<1> QED BY <1>1, <1>3, StepTyped DEF CheckOwner, memory, Typed, TypeOK

LEMMA DeleteLeaseTyped ==
    ASSUME leases \in [MACs -> Leases], NEW m \in MACs, DeleteLease(m)
    PROVE  leases' \in [MACs -> Leases]
BY DEF DeleteLease, ZeroLease, Leases

LEMMA CheckHeldTyped ==
    ASSUME Typed, CheckHeld
    PROVE  Typed'
<1> DEFINE w == worker[me]
           n == w.nic
           l == leases[MacOf(n)]
<1>1. me \in Controllers /\ w.pc = "held" /\ w.pc # "idle" /\ w \in Workers /\ n \in Nics
  BY WorkerTyped DEF me, Controllers, CheckHeld, Handlers, AtNic
<1>2. MacOf(n) \in MACs /\ l.ip \in IPs \cup {NoIP}
  BY <1>1, NicFields DEF Typed, TypeOK, Leases
<1>3. \A s \in {"NONE", "OK", "ERROR"} :
        [w EXCEPT !.pc = "nic", !.nic = NoNic, !.status[n] = s] \in Handlers
  BY <1>1 DEF Handlers, Workers, PCs, Statuses, AtNic, Granted, InCleanup, InRelease
<1>4. w.obj.status[n] \in {"NONE", "OK", "ERROR"}
  BY <1>1 DEF Workers, CfgObjects, Statuses
<1>5. /\ [w EXCEPT !.pc = "getip"] \in Handlers
      /\ [w EXCEPT !.pc = "release", !.ip = l.ip, !.next = "getip"] \in Handlers
  BY <1>1, <1>2 DEF Handlers, Workers, PCs, AtNic, Granted, InCleanup, InRelease
<1>6. PICK x \in Handlers : Step(me, x)
  BY <1>3, <1>4, <1>5 DEF CheckHeld
<1>7. leases' \in [MACs -> Leases]
  BY <1>2, DeleteLeaseTyped DEF CheckHeld, Typed, TypeOK
<1> QED BY <1>1, <1>6, <1>7, StepTyped DEF CheckHeld, Typed, TypeOK

LEMMA GetIPTyped ==
    ASSUME Typed, GetIP
    PROVE  Typed'
<1> DEFINE w == worker[me]
           n == w.nic
<1>1. me \in Controllers /\ w.pc = "getip" /\ w.pc # "idle" /\ w \in Workers /\ n \in Nics
  BY WorkerTyped DEF me, Controllers, GetIP, Handlers, AtNic
<1>2. \A a \in IPs : [w EXCEPT !.pc = "addlease", !.ip = a] \in Handlers
  BY <1>1 DEF Handlers, Workers, PCs, AtNic, Granted, InCleanup, InRelease
<1>3. [w EXCEPT !.ip = NoIP] \in Workers
  BY <1>1 DEF Workers
<1>4. PICK x \in Handlers : Step(me, x)
  BY <1>1, <1>2, <1>3, InErrorTyped DEF GetIP, Grantable
<1>5. ipam' \in [Networks -> SUBSET IPs]
  <2>1. NetOf(n) \in Networks /\ ipam \in [Networks -> SUBSET IPs]
    BY <1>1, NicFields DEF Typed, TypeOK
  <2>2. \/ \E a \in IPs : ipam' = [ipam EXCEPT ![NetOf(n)] = @ \cup {a}]
        \/ UNCHANGED ipam
    BY DEF GetIP, Grantable
  <2> QED BY <2>1, <2>2
<1> QED BY <1>1, <1>4, <1>5, StepTyped DEF GetIP, Typed, TypeOK

LEMMA RegisterLeaseTyped ==
    ASSUME Typed, RegisterLease
    PROVE  Typed'
<1> DEFINE w == worker[me]
           n == w.nic
           x == [w EXCEPT !.pc = "poolget", !.op = "add", !.next = "nic", !.retry = 0,
                          !.change = TRUE, !.spec = Recorded(w), !.status[n] = "OK"]
<1>1. /\ me \in Controllers /\ w.pc = "addlease" /\ w.pc # "idle" /\ w \in Workers
      /\ n \in Nics /\ w.ip \in IPs
  BY WorkerTyped DEF me, Controllers, RegisterLease, Handlers, AtNic, Granted
<1>2. Recorded(w) \in Specs
  BY <1>1 DEF Recorded, Workers, Specs
<1>3. x \in Workers /\ x.pc = "poolget" /\ x.nic = n /\ x.ip = w.ip /\ x.next = "nic"
  <2>1. [w.status EXCEPT ![n] = "OK"] \in Statuses
    BY <1>1 DEF Workers, Statuses
  <2> QED BY <1>1, <1>2, <2>1 DEF Workers, PCs
<1>4. x \in Handlers
  BY <1>1, <1>3 DEF Handlers, AtNic, Granted, InCleanup, InRelease
<1>5. leases' \in [MACs -> Leases]
  <2>1. MacOf(n) \in MACs /\ NetOf(n) \in Networks /\ KeyOf(me) \in VMs
    BY <1>1, NicFields, WorkerTyped
  <2>2. [ip |-> w.ip, ref |-> KeyOf(me), net |-> NetOf(n)] \in Leases
    BY <1>1, <2>1 DEF Leases
  <2> QED BY <2>1, <2>2 DEF RegisterLease, AddLease, Typed, TypeOK
<1> QED BY <1>1, <1>4, <1>5, StepTyped DEF RegisterLease, Typed, TypeOK

LEMMA NicsDoneTyped ==
    ASSUME Typed, NicsDone
    PROVE  Typed'
<1> DEFINE w == worker[me]
<1>1. me \in Controllers /\ w.pc = "nic" /\ w.pc # "idle" /\ w \in Workers
  BY WorkerTyped DEF me, Controllers, NicsDone
<1>2. [w EXCEPT !.pc = "update"] \in Handlers /\ [w EXCEPT !.pc = "ustatus"] \in Handlers
  BY <1>1 DEF Handlers, Workers, PCs, AtNic, Granted, InCleanup, InRelease
<1>3. CASE Return(me)
  BY <1>1, <1>3, ReturnTyped DEF NicsDone, api, events, Typed, TypeOK
<1>4. CASE ~Return(me)
  <2>1. PICK x \in Handlers : Step(me, x)
    BY <1>2, <1>4 DEF NicsDone
  <2> QED BY <1>1, <1>4, <2>1, StepTyped DEF NicsDone, memory, boot, Typed, TypeOK
<1> QED BY <1>3, <1>4

LEMMA UpdateSpecTyped ==
    ASSUME Typed, UpdateSpec
    PROVE  Typed'
<1> DEFINE w   == worker[me]
           v   == KeyOf(me)
           new == [cfg[v] EXCEPT !.spec = w.spec]
           x   == [w EXCEPT !.pc = "ustatus", !.obj = Changed(v, new)]
<1>1. me \in Controllers /\ w.pc = "update" /\ w.pc # "idle" /\ w \in Workers /\ v \in VMs
  BY WorkerTyped DEF me, Controllers, UpdateSpec
<1>2. new \in CfgObjects
  <2>1. cfg[v] \in CfgObjects /\ w.spec \in Specs
    BY <1>1 DEF Typed, TypeOK, Workers
  <2> QED BY <2>1 DEF CfgObjects
<1>3. Changed(v, new) \in CfgObjects
  BY <1>1, <1>2, ChangedTyped DEF Typed, TypeOK
<1>4. x \in Handlers
  BY <1>1, <1>3 DEF Handlers, Workers, PCs, AtNic, Granted, InCleanup, InRelease
<1>5. CASE Current(v, w.obj)
  <2>1. WriteCfg(v, new) /\ Step(me, x) /\ UNCHANGED <<queue, count>>
    BY <1>5 DEF UpdateSpec
  <2>2. /\ cfg' \in [VMs -> CfgObjects] /\ cfgWatch' \in [VMs -> Seq(CfgObjects)]
        /\ ~Watched => cfgWatch' = cfgWatch
    BY <1>1, <1>2, <2>1, WriteCfgTyped DEF Typed, TypeOK
  <2>3. Working'
    BY <1>1, <1>4, <2>1, StepWorking DEF Typed
  <2>4. \A d \in Controllers \ {me} : queue'[d] = queue[d] /\ worker'[d].pc = worker[d].pc
    BY <2>1 DEF Step, Typed, Working
  <2>5. UNCHANGED <<phase, vmWatch>>
    BY DEF UpdateSpec
  <2>6. Quiet'
    BY <1>1, <2>2, <2>4, <2>5, WorkQuiet
  <2>7. TypeOK'
    BY <2>1, <2>2, <2>3 DEF UpdateSpec, Typed, TypeOK, Working, Handlers, memory
  <2> QED BY <2>3, <2>6, <2>7 DEF Typed
<1>6. CASE ~Current(v, w.obj)
  BY <1>1, <1>6, ReturnTyped DEF UpdateSpec, Typed, TypeOK
<1> QED BY <1>5, <1>6

\* The overwritten object differs from the informer's in its status only.
LEMMA OverwrittenStatus ==
    ASSUME Typed
    PROVE  /\ Overwritten \in [VMs -> CfgObjects]
           /\ \A u \in VMs :
                /\ Overwritten[u].spec = cfgIndexer[u].spec
                /\ Overwritten[u].exists = cfgIndexer[u].exists
                /\ Overwritten[u].rv = cfgIndexer[u].rv
                /\ Overwritten[u].del = cfgIndexer[u].del
                /\ u # KeyOf(me) => Overwritten[u] = cfgIndexer[u]
<1> DEFINE v    == KeyOf(me)
           s    == worker[me].status
           over == [cfgIndexer EXCEPT ![v].status = s]
<1>1. cfgIndexer \in [VMs -> CfgObjects] /\ s \in Statuses
  BY DEF Typed, TypeOK, me, Controllers, Workers
<1>2. CASE Overwritten = cfgIndexer
  BY <1>1, <1>2
<1>3. CASE Overwritten = over
  <2>1. \A u \in VMs : u # v => over[u] = cfgIndexer[u]
    BY <1>1
  <2>2. v \in VMs => over[v] = [cfgIndexer[v] EXCEPT !.status = s]
    BY <1>1
  <2>3. \A o \in CfgObjects :
          LET x == [o EXCEPT !.status = s]
          IN  /\ x \in CfgObjects /\ x.spec = o.spec /\ x.exists = o.exists
              /\ x.rv = o.rv /\ x.del = o.del
    BY <1>1 DEF CfgObjects
  <2>4. DOMAIN over = VMs /\ over = [u \in DOMAIN over |-> over[u]]
    BY <1>1
  <2> HIDE DEF over, s
  <2>5. \A u \in VMs : over[u] \in CfgObjects
    BY <1>1, <2>1, <2>2, <2>3
  <2>6. over \in [VMs -> CfgObjects]
    BY <2>4, <2>5
  <2>7. ASSUME NEW u \in VMs
        PROVE  /\ over[u].spec = cfgIndexer[u].spec /\ over[u].exists = cfgIndexer[u].exists
               /\ over[u].rv = cfgIndexer[u].rv /\ over[u].del = cfgIndexer[u].del
    <3>1. CASE u # v
      BY <2>1, <3>1
    <3>2. CASE u = v
      <4>1. over[u] = [cfgIndexer[u] EXCEPT !.status = s]
        BY <2>2, <3>2
      <4>2. cfgIndexer[u] \in CfgObjects
        BY <1>1
      <4> QED BY <2>3, <4>1, <4>2
    <3> QED BY <3>1, <3>2
  <2> QED BY <1>3, <2>1, <2>6, <2>7
<1> QED BY <1>2, <1>3 DEF Overwritten

LEMMA UpdateStatusTyped ==
    ASSUME Typed, UpdateStatus
    PROVE  Typed'
<1> DEFINE w   == worker[me]
           v   == KeyOf(me)
           new == [cfg[v] EXCEPT !.status = w.status]
<1>1. me \in Controllers /\ w.pc = "ustatus" /\ w.pc # "idle" /\ w \in Workers /\ v \in VMs
  BY WorkerTyped DEF me, Controllers, UpdateStatus
<1>2. new \in CfgObjects
  <2>1. cfg[v] \in CfgObjects /\ w.status \in Statuses
    BY <1>1 DEF Typed, TypeOK, Workers
  <2> QED BY <1>1, <2>1 DEF CfgObjects
<1>3. /\ cfg' \in [VMs -> CfgObjects] /\ cfgWatch' \in [VMs -> Seq(CfgObjects)]
      /\ ~Watched => cfgWatch' = cfgWatch
  BY <1>1, <1>2, WriteCfgTyped DEF UpdateStatus, Typed, TypeOK
<1>4. cfgIndexer' \in [VMs -> CfgObjects]
  BY OverwrittenStatus DEF UpdateStatus
<1>5. Return(me) /\ UNCHANGED <<vm, pool, vmWatch, vmIndexer, memory, phase, target, clock, budget>>
  BY DEF UpdateStatus
<1> QED BY <1>1, <1>3, <1>4, <1>5, ReturnTyped DEF Typed, TypeOK

\* A handler that ends with a write of a vmnetcfg or none.
LEMMA WriteReturnTyped ==
    ASSUME Typed, NEW c \in Controllers, worker[c].pc # "idle", Return(c),
           NEW obj \in CfgObjects,
           WriteCfg(KeyOf(c), obj) \/ UNCHANGED <<cfg, cfgWatch>>,
           UNCHANGED <<vm, pool, vmWatch, vmIndexer, cfgIndexer, memory, phase, target, clock, budget>>
    PROVE  Typed'
<1>1. KeyOf(c) \in VMs
  BY WorkerTyped
<1>2. /\ cfg' \in [VMs -> CfgObjects] /\ cfgWatch' \in [VMs -> Seq(CfgObjects)]
      /\ ~Watched => cfgWatch' = cfgWatch
  BY <1>1, WriteCfgTyped DEF Typed, TypeOK
<1> QED BY <1>2, ReturnTyped DEF Typed, TypeOK

LEMMA RemoveFinalizerTyped ==
    ASSUME Typed, RemoveFinalizer
    PROVE  Typed'
<1> DEFINE obj == GoneCfg(cfg[KeyOf(me)].rv)
<1>1. me \in Controllers /\ worker[me].pc # "idle"
  BY DEF me, Controllers, RemoveFinalizer
<1>2. obj \in CfgObjects
  BY <1>1, WorkerTyped, GoneTyped DEF Typed, TypeOK, CfgObjects
<1>3. /\ WriteCfg(KeyOf(me), obj) \/ UNCHANGED <<cfg, cfgWatch>>
      /\ Return(me)
      /\ UNCHANGED <<vm, pool, vmWatch, vmIndexer, cfgIndexer, memory, phase, target, clock, budget>>
  BY DEF RemoveFinalizer
<1> QED BY <1>1, <1>2, <1>3, WriteReturnTyped

LEMMA CleanupDoneTyped ==
    ASSUME Typed, CleanupDone
    PROVE  Typed'
<1>1. me \in Controllers /\ worker[me].pc # "idle" /\ worker[me] \in Workers
  BY WorkerTyped DEF me, Controllers, CleanupDone
<1>2. [worker[me] EXCEPT !.pc = "unfinal"] \in Handlers
  BY <1>1 DEF Handlers, Workers, PCs, AtNic, Granted, InCleanup, InRelease
<1> QED BY <1>1, <1>2, StepTyped DEF CleanupDone, memory, Typed, TypeOK

-----------------------------------------------------------------------------
(* The clean-up and the pool status, which both workers write.             *)

LEMMA CleanupTyped ==
    ASSUME Typed, NEW c \in Controllers, Cleanup(c)
    PROVE  Typed'
<1> DEFINE w    == worker[c]
           x(n) == [w EXCEPT !.pc = "release", !.nic = n, !.todo = @ \ {n},
                             !.ip = w.obj.spec[n], !.next = "clean"]
<1>1. /\ w.pc = "clean" /\ w.pc # "idle" /\ w \in Workers /\ w.obj.spec \in Specs
      /\ w.todo \subseteq NicsOf(w.obj.spec)
  BY WorkerTyped DEF Cleanup, Handlers, InCleanup, Workers, CfgObjects
<1>2. PICK n \in w.todo : DeleteLease(MacOf(n)) /\ Step(c, x(n))
  BY DEF Cleanup
<1>3. n \in Nics /\ w.obj.spec[n] \in IPs \cup {NoIP} /\ MacOf(n) \in MACs
  BY <1>1, SpecTyped, NicFields
<1>4. x(n) \in Workers
  BY <1>1, <1>3 DEF Workers, PCs
<1>5. /\ x(n).pc = "release" /\ x(n).nic = n /\ x(n).obj = w.obj /\ x(n).todo = w.todo \ {n}
  BY <1>1 DEF Workers
<1>6. x(n) \in Handlers
  BY <1>1, <1>3, <1>4, <1>5 DEF Handlers, AtNic, Granted, InCleanup, InRelease
<1>7. leases' \in [MACs -> Leases]
  BY <1>2, <1>3, DeleteLeaseTyped DEF Typed, TypeOK
<1>8. UNCHANGED <<api, events, queue, ipam, cache, boot>>
  BY DEF Cleanup
<1> QED BY <1>1, <1>2, <1>6, <1>7, <1>8, StepTyped DEF Typed, TypeOK

LEMMA ReleaseIPTyped ==
    ASSUME Typed, NEW c \in Controllers, ReleaseIP(c)
    PROVE  Typed'
<1> DEFINE w == worker[c]
           x == [w EXCEPT !.pc = "poolget", !.op = "delete", !.retry = 0]
           y == [w EXCEPT !.pc = w.next]
<1>1. w.pc = "release" /\ w.pc # "idle" /\ w \in Handlers /\ w \in Workers /\ w.nic \in Nics
  BY WorkerTyped DEF ReleaseIP, Handlers, AtNic
<1>2. x \in Workers /\ y \in Workers
  BY <1>1 DEF Workers, PCs
<1>3. x \in Handlers
  BY <1>1, <1>2 DEF Handlers, Workers, AtNic, Granted, InCleanup, InRelease
<1>4. y \in Handlers
  BY <1>1, <1>2 DEF Handlers, Workers, AtNic, Granted, InCleanup, InRelease
<1>5. ipam' \in [Networks -> SUBSET IPs]
  BY <1>1, NicFields DEF ReleaseIP, Released, Typed, TypeOK
<1>6. PICK z \in Handlers : Step(c, z)
  BY <1>3, <1>4 DEF ReleaseIP
<1> QED BY <1>1, <1>5, <1>6, StepTyped DEF ReleaseIP, Typed, TypeOK

LEMMA TablesFinite == TypeOK => \A n \in Networks : Cardinality(ipam[n]) \in Nat
BY ConstantsAssumption, FS_Subset, FS_CardinalityType DEF TypeOK

LEMMA PoolGetTyped ==
    ASSUME Typed, NEW c \in Controllers, UpdateIPPoolStatusGet(c)
    PROVE  Typed'
<1> DEFINE w == worker[c]
           k == Cardinality(ipam[NetOf(w.nic)])
           x == [w EXCEPT !.pc = "poolput", !.fresh = TRUE, !.used = k]
           y == [w EXCEPT !.pc = w.next]
<1>1. w.pc = "poolget" /\ w.pc # "idle" /\ w \in Handlers /\ w \in Workers /\ w.nic \in Nics
  BY WorkerTyped DEF UpdateIPPoolStatusGet, Handlers, AtNic
<1>2. k \in Nat
  BY <1>1, NicFields, TablesFinite DEF Typed
<1>3. x \in Workers /\ y \in Workers
  BY <1>1, <1>2 DEF Workers, PCs
<1>4. x \in Handlers
  BY <1>1, <1>3 DEF Handlers, Workers, AtNic, Granted, InCleanup, InRelease
<1>5. y \in Handlers
  BY <1>1, <1>3 DEF Handlers, Workers, AtNic, Granted, InCleanup, InRelease
<1>6. PICK z \in Handlers : Step(c, z)
  BY <1>4, <1>5 DEF UpdateIPPoolStatusGet
<1> QED BY <1>1, <1>6, StepTyped DEF UpdateIPPoolStatusGet, memory, Typed, TypeOK

LEMMA ReportedTyped ==
    ASSUME Typed, NEW c \in Controllers, worker[c].pc = "poolput", NEW n \in Networks
    PROVE  Reported(pool[n], worker[c]) \in PoolStatuses
<1> DEFINE w == worker[c]
<1>1. /\ w \in Workers /\ w.used \in Nat /\ w.op \in {"add", "delete"}
      /\ w.op = "add" => w.ip \in IPs
  BY WorkerTyped DEF Handlers, Workers, Granted
<1>2. pool[n] \in PoolStatuses /\ clock \in Nat
  BY DEF Typed, TypeOK
<1>3. Listed(pool[n].alloc, w.op, w.ip) \subseteq IPs
  BY <1>1, <1>2 DEF Listed, PoolStatuses
<1> QED BY <1>1, <1>2, <1>3 DEF Reported, PoolStatuses

LEMMA PoolPutTyped ==
    ASSUME Typed, NEW c \in Controllers, UpdateIPPoolStatusPut(c)
    PROVE  Typed'
<1> DEFINE w   == worker[c]
           net == NetOf(w.nic)
           ret == [w EXCEPT !.pc = w.next, !.fresh = FALSE, !.used = 0, !.retry = 0]
           y   == [w EXCEPT !.pc = "poolget", !.used = 0, !.retry = @ + 1]
           stale(d) == [worker[d] EXCEPT !.fresh = @ /\ NetOf(worker[d].nic) # net]
<1>1. /\ w.pc = "poolput" /\ w.pc # "idle" /\ w \in Handlers /\ w \in Workers
      /\ w.nic \in Nics /\ net \in Networks
  BY WorkerTyped, NicFields DEF UpdateIPPoolStatusPut, Handlers, AtNic
<1>2. ret \in Workers /\ y \in Workers
  <2>1. w.next \in PCs /\ w.retry + 1 \in Nat
    BY <1>1 DEF Workers, PCs
  <2>2. ret \in Workers
    BY <1>1, <2>1 DEF Workers
  <2>3. y \in Workers
    BY <1>1, <2>1 DEF Workers, PCs
  <2> QED BY <2>2, <2>3
<1>3. ret \in Handlers
  BY <1>1, <1>2 DEF Handlers, Workers, AtNic, Granted, InCleanup, InRelease
<1>4. y \in Handlers
  BY <1>1, <1>2 DEF Handlers, Workers, AtNic, Granted, InCleanup, InRelease
<1>5. CASE w.fresh
  <2>1. \A d \in Controllers : stale(d) \in Workers /\ stale(d).pc = worker[d].pc
    BY WorkerTyped DEF Workers
  <2>2. \A d \in Controllers : stale(d) \in Handlers
    BY <2>1, WorkerTyped DEF Handlers, Workers, AtNic, Granted, InCleanup, InRelease
  <2>3. /\ worker' = [d \in Controllers |-> IF d = c THEN ret ELSE stale(d)]
        /\ pool' = [pool EXCEPT ![net] = Reported(pool[net], w)]
        /\ UNCHANGED <<vm, cfg, events, queue, memory, boot>>
    BY <1>5 DEF UpdateIPPoolStatusPut
  <2>4. Working'
    <3>1. worker' \in [Controllers -> Handlers]
      BY <1>3, <2>2, <2>3
    <3>2. \A d \in Controllers : worker'[d].pc # "idle" => worker[d].pc # "idle"
      BY <1>1, <2>1, <2>3
    <3> QED BY <2>3, <3>1, <3>2 DEF Typed, Working
  <2>5. \A d \in Controllers \ {c} : queue'[d] = queue[d] /\ worker'[d].pc = worker[d].pc
    BY <2>1, <2>3
  <2>6. Quiet'
    BY <1>1, <2>3, <2>5, WorkQuiet DEF events, boot
  <2>7. pool' \in [Networks -> PoolStatuses]
    BY <1>1, <2>3, ReportedTyped DEF Typed, TypeOK
  <2>8. TypeOK'
    BY <2>3, <2>4, <2>7 DEF Typed, TypeOK, Working, Handlers, events, memory, boot
  <2> QED BY <2>4, <2>6, <2>8 DEF Typed
<1>6. CASE ~w.fresh
  <2>1. PICK z \in Handlers : Step(c, z)
    BY <1>3, <1>4, <1>6 DEF UpdateIPPoolStatusPut
  <2>2. UNCHANGED <<api, events, queue, memory, boot>>
    BY <1>6 DEF UpdateIPPoolStatusPut, api
  <2> QED BY <1>1, <2>1, <2>2, StepTyped DEF memory, Typed, TypeOK
<1> QED BY <1>5, <1>6

LEMMA CfgWorkerTyped ==
    ASSUME Typed, CfgWorker
    PROVE  Typed'
<1>1. me \in Controllers
  BY DEF me, Controllers
<1> QED
  BY <1>1, TakeItemTyped, SyncCfgTyped, CheckNicTyped, NoPoolTyped, CheckOwnerTyped,
     CheckHeldTyped, GetIPTyped, RegisterLeaseTyped, NicsDoneTyped, UpdateSpecTyped,
     UpdateStatusTyped, CleanupTyped, CleanupDoneTyped, RemoveFinalizerTyped,
     ReleaseIPTyped, PoolGetTyped, PoolPutTyped
  DEF CfgWorker

-----------------------------------------------------------------------------
(* The worker of the virtual machine controller.                           *)

LEMMA SyncVmTyped ==
    ASSUME Typed, SyncVm
    PROVE  Typed'
<1> DEFINE e  == queue[self].busy
           o  == vmIndexer[e.key]
           sp == [n \in Nics |-> IF n \in o.nics THEN NoIP ELSE NoNic]
           x  == [IdleWorker EXCEPT !.pc = "delete"]
           y  == [IdleWorker EXCEPT !.pc = "macs", !.obj = cfg[e.key], !.spec = sp]
<1>1. self \in Controllers /\ worker[self].pc = "sync" /\ worker[self].pc # "idle"
  BY DEF self, Controllers, SyncVm
<1>2. e.key \in VMs /\ cfg[e.key] \in CfgObjects /\ sp \in Specs
  BY <1>1, WorkerTyped DEF KeyOf, Typed, TypeOK, Specs
<1>3. x \in Handlers /\ y \in Handlers
  <2>1. x \in Workers /\ y \in Workers
    BY <1>2, IdleTyped DEF Handlers, Workers, PCs
  <2>2. x.pc = "delete" /\ y.pc = "macs"
    BY IdleTyped DEF Handlers, Workers
  <2> QED BY <2>1, <2>2 DEF Handlers, AtNic, Granted, InCleanup, InRelease
<1>4. CASE Done(self)
  <2>1. UNCHANGED <<api, events, memory, boot>>
    BY DEF SyncVm
  <2>2. Working' /\ \A d \in Controllers \ {self} : queue'[d] = queue[d] /\ worker'[d] = worker[d]
    BY <1>1, <1>4, DoneWorking DEF Typed
  <2>3. Quiet'
    BY <1>1, <2>1, <2>2, WorkQuiet DEF events, boot
  <2>4. TypeOK'
    BY <2>1, <2>2 DEF Typed, TypeOK, Working, Handlers, api, events, memory, boot
  <2> QED BY <2>2, <2>3, <2>4 DEF Typed
<1>5. CASE ~Done(self)
  <2>1. PICK z \in Handlers : Step(self, z)
    BY <1>3, <1>5 DEF SyncVm
  <2> QED BY <1>1, <1>5, <2>1, StepTyped DEF SyncVm, memory, Typed, TypeOK
<1> QED BY <1>4, <1>5

LEMMA CheckMacsTyped ==
    ASSUME Typed, CheckMacs
    PROVE  Typed'
<1> DEFINE w == worker[self]
           t == {n \in NicsOf(w.spec) : CheckLease(MacOf(n))}
           x == [w EXCEPT !.pc = "refs", !.todo = t]
<1>1. self \in Controllers /\ w.pc = "macs" /\ w.pc # "idle" /\ w \in Workers
  BY WorkerTyped DEF self, Controllers, CheckMacs
<1>2. t \subseteq Nics
  BY <1>1, SpecTyped DEF Workers
<1>3. x \in Workers /\ x.pc = "refs"
  BY <1>1, <1>2 DEF Workers, PCs
<1>4. x \in Handlers
  BY <1>3 DEF Handlers, AtNic, Granted, InCleanup, InRelease
<1> QED BY <1>1, <1>4, StepTyped DEF CheckMacs, memory, Typed, TypeOK

LEMMA NetworkConfigsTyped ==
    ASSUME NEW w \in Workers
    PROVE  NetworkConfigs(w) \in Specs
<1>1. w.spec \in Specs /\ w.obj.spec \in Specs
  BY DEF Workers, CfgObjects
<1> QED BY <1>1 DEF NetworkConfigs, Specs

LEMMA CheckRefsTyped ==
    ASSUME Typed, CheckRefs
    PROVE  Typed'
<1> DEFINE w  == worker[self]
           sp == NetworkConfigs(w)
           p  == IF w.obj.exists THEN "clean" ELSE "create"
           x  == [w EXCEPT !.pc = p, !.todo = Dropped(w.obj.spec, sp), !.spec = sp]
<1>1. /\ self \in Controllers /\ w.pc = "refs" /\ w.pc # "idle" /\ w \in Workers
      /\ w.obj.spec \in Specs
  BY WorkerTyped DEF self, Controllers, CheckRefs, Workers, CfgObjects
<1>2. CASE Return(self)
  BY <1>1, <1>2, ReturnTyped DEF CheckRefs, api, events, Typed, TypeOK
<1>3. CASE ~Return(self)
  <2>1. sp \in Specs /\ Dropped(w.obj.spec, sp) \subseteq NicsOf(w.obj.spec)
    BY <1>1, NetworkConfigsTyped DEF Dropped
  <2>2. Dropped(w.obj.spec, sp) \subseteq Nics
    BY <1>1, <2>1, SpecTyped
  <2>3. x \in Workers /\ x.pc = p /\ x.todo = Dropped(w.obj.spec, sp) /\ x.obj = w.obj
    BY <1>1, <2>1, <2>2 DEF Workers, PCs
  <2>4. x \in Handlers
    <3>1. x.pc \in {"clean", "create"} /\ x.todo \subseteq NicsOf(x.obj.spec)
      BY <2>1, <2>3
    <3> QED BY <2>3, <3>1 DEF Handlers, AtNic, Granted, InCleanup, InRelease
  <2>5. Step(self, x) /\ UNCHANGED <<queue, count>>
    BY <1>3 DEF CheckRefs
  <2> QED BY <1>1, <2>4, <2>5, StepTyped DEF CheckRefs, memory, boot, Typed, TypeOK
<1> QED BY <1>2, <1>3

LEMMA CreateCfgTyped ==
    ASSUME Typed, CreateCfg
    PROVE  Typed'
<1> DEFINE w   == worker[self]
           v   == KeyOf(self)
           obj == [cfg[v] EXCEPT !.exists = TRUE, !.spec = w.spec, !.fin = TRUE, !.ctime = clock]
<1>1. self \in Controllers /\ w.pc # "idle" /\ w.spec \in Specs /\ v \in VMs
  BY WorkerTyped DEF self, Controllers, CreateCfg, Workers
<1>2. obj \in CfgObjects
  <2>1. cfg[v] \in CfgObjects /\ clock \in Nat
    BY <1>1 DEF Typed, TypeOK
  <2> QED BY <1>1, <2>1 DEF CfgObjects
<1>3. /\ WriteCfg(v, obj) \/ UNCHANGED <<cfg, cfgWatch>>
      /\ Return(self)
      /\ UNCHANGED <<vm, pool, vmWatch, vmIndexer, cfgIndexer, memory, phase, target, clock, budget>>
  BY DEF CreateCfg
<1> QED BY <1>1, <1>2, <1>3, WriteReturnTyped

LEMMA UpdateCfgTyped ==
    ASSUME Typed, UpdateCfg
    PROVE  Typed'
<1> DEFINE w   == worker[self]
           v   == KeyOf(self)
           obj == [cfg[v] EXCEPT !.spec = w.spec]
<1>1. self \in Controllers /\ w.pc # "idle" /\ w.spec \in Specs /\ v \in VMs
  BY WorkerTyped DEF self, Controllers, UpdateCfg, Workers
<1>2. obj \in CfgObjects
  <2>1. cfg[v] \in CfgObjects
    BY <1>1 DEF Typed, TypeOK
  <2> QED BY <1>1, <2>1 DEF CfgObjects
<1>3. /\ WriteCfg(v, obj) \/ UNCHANGED <<cfg, cfgWatch>>
      /\ Return(self)
      /\ UNCHANGED <<vm, pool, vmWatch, vmIndexer, cfgIndexer, memory, phase, target, clock, budget>>
  BY DEF UpdateCfg
<1> QED BY <1>1, <1>2, <1>3, WriteReturnTyped

LEMMA DeleteCfgTyped ==
    ASSUME Typed, DeleteCfg
    PROVE  Typed'
<1> DEFINE v   == KeyOf(self)
           obj == IF cfg[v].fin THEN [cfg[v] EXCEPT !.del = TRUE] ELSE GoneCfg(cfg[v].rv)
<1>1. self \in Controllers /\ worker[self].pc # "idle" /\ v \in VMs
  BY WorkerTyped DEF self, Controllers, DeleteCfg
<1>2. obj \in CfgObjects
  <2>1. cfg[v] \in CfgObjects
    BY <1>1 DEF Typed, TypeOK
  <2>2. cfg[v].rv \in Nat /\ [cfg[v] EXCEPT !.del = TRUE] \in CfgObjects
    BY <2>1 DEF CfgObjects
  <2> QED BY <2>2, GoneTyped
<1>3. /\ WriteCfg(v, obj) \/ UNCHANGED <<cfg, cfgWatch>>
      /\ Return(self)
      /\ UNCHANGED <<vm, pool, vmWatch, vmIndexer, cfgIndexer, memory, phase, target, clock, budget>>
  BY DEF DeleteCfg
<1> QED BY <1>1, <1>2, <1>3, WriteReturnTyped

LEMMA VmWorkerTyped ==
    ASSUME Typed, VmWorker
    PROVE  Typed'
<1>1. self \in Controllers
  BY DEF self, Controllers
<1> QED
  BY <1>1, TakeItemTyped, SyncVmTyped, CheckMacsTyped, CheckRefsTyped, CreateCfgTyped,
     UpdateCfgTyped, DeleteCfgTyped, CleanupTyped, ReleaseIPTyped, PoolGetTyped, PoolPutTyped
  DEF VmWorker

-----------------------------------------------------------------------------
(* The start and the informers.                                            *)

\* A step that leaves the workers, their queues and the phase alone.
LEMMA OutsideTyped ==
    ASSUME Typed, TypeOK', UNCHANGED <<queue, worker, phase>>,
           phase = "running" \/ UNCHANGED vmWatch, Watched \/ UNCHANGED cfgWatch
    PROVE  Typed'
BY DEF Typed, Working, Quiet, Watched

LEMMA StartPoolsTyped ==
    ASSUME Typed, StartPools
    PROVE  Typed'
<1>1. \A n \in Networks : ResetStatus(n) \in PoolStatuses
  BY ConstantsAssumption, FS_Subset, FS_CardinalityType
  DEF ResetStatus, PoolStatuses, Typed, TypeOK
<1>2. pool' \in [Networks -> PoolStatuses] /\ ipam' \in [Networks -> SUBSET IPs]
  BY <1>1, ConstantsAssumption DEF StartPools, Typed, TypeOK
<1>3. cache' \in [Networks -> [on : BOOLEAN, lu : Nat, lubs : Nat]]
  <2>1. \A n \in Networks : [on |-> TRUE, lu |-> clock, lubs |-> ResetStatus(n).lubs]
                              \in [on : BOOLEAN, lu : Nat, lubs : Nat]
    BY <1>1 DEF PoolStatuses, Typed, TypeOK
  <2> QED BY <2>1 DEF StartPools, Typed, TypeOK
<1>4. TypeOK'
  BY <1>2, <1>3 DEF StartPools, Typed, TypeOK, events
<1> QED BY <1>4 DEF StartPools, Typed, Working, Quiet, Watched, events

LEMMA CountVmNetCfgsTyped ==
    ASSUME Typed, CountVmNetCfgs
    PROVE  Typed'
<1>1. Cardinality({v \in VMs : cfg[v].exists}) \in Nat
  BY ConstantsAssumption, FS_Subset, FS_CardinalityType
<1>2. TypeOK'
  BY <1>1 DEF CountVmNetCfgs, Typed, TypeOK, api, events, memory
<1> QED BY <1>2 DEF CountVmNetCfgs, Typed, Working, Quiet, Watched, events

LEMMA ListedTyped ==
    ASSUME NEW S \in SUBSET VMs,
           NEW q \in Listings({[key |-> v, action |-> "add"] : v \in S})
    PROVE  q \in Queues(Event)
<1> DEFINE f == [v \in S |-> [key |-> v, action |-> "add"]]
           T == {[key |-> v, action |-> "add"] : v \in S}
<1>1. T \subseteq Event
  BY DEF Event, Actions
<1>2. IsFiniteSet(S)
  BY ConstantsAssumption, FS_Subset
<1>3. f \in Surjection(S, T)
  BY DEF Surjection
<1>4. IsFiniteSet(T)
  BY <1>2, <1>3, FS_Surjection
<1> QED BY <1>1, <1>4, ListingsTyped

LEMMA StartCfgListenerTyped ==
    ASSUME Typed, StartCfgListener
    PROVE  Typed'
<1>1. PICK q \in Queues(Event) : queue' = [queue EXCEPT !["vmnetcfg"] = q]
  BY ListedTyped DEF StartCfgListener
<1>2. worker["vmnetcfg"].pc = "idle"
  BY DEF Typed, Quiet, Watched, StartCfgListener
<1>3. Working'
  BY <1>1, <1>2 DEF Typed, Working, Controllers, StartCfgListener
<1>4. TypeOK'
  BY <1>3 DEF StartCfgListener, Typed, TypeOK, Working, api, memory
<1> QED BY <1>1, <1>3, <1>4 DEF StartCfgListener, Typed, Quiet, Watched, Working, Controllers

LEMMA StartVmListenerTyped ==
    ASSUME Typed, StartVmListener
    PROVE  Typed'
<1>1. PICK q \in Queues(Event) : queue' = [queue EXCEPT !["vm"] = q]
  BY ListedTyped DEF StartVmListener
<1>2. worker["vm"].pc = "idle"
  BY DEF Typed, Quiet, StartVmListener
<1>3. Working'
  BY <1>1, <1>2 DEF Typed, Working, Controllers, StartVmListener
<1>4. TypeOK'
  BY <1>3 DEF StartVmListener, Typed, TypeOK, Working, api, memory
<1> QED BY <1>3, <1>4 DEF StartVmListener, Typed, Quiet, Watched

LEMMA DeliverCfgTyped ==
    ASSUME Typed, NEW v \in VMs, DeliverCfg(v)
    PROVE  Typed'
<1> DEFINE new == Head(cfgWatch[v])
           e   == [key |-> v, action |-> ActionOf(cfgIndexer[v], new)]
<1>1. cfgWatch[v] \in Seq(CfgObjects) /\ cfgWatch[v] # <<>>
  BY DEF DeliverCfg, Typed, TypeOK
<1>2. new \in CfgObjects /\ Tail(cfgWatch[v]) \in Seq(CfgObjects)
  BY <1>1, HeadTailProperties
<1>3. e \in Event
  BY DEF Event, Actions, ActionOf
<1>4. "vmnetcfg" \in Controllers
  BY DEF Controllers
<1>5. Working'
  BY <1>3, <1>4, EnqueueWorking DEF DeliverCfg, Typed
<1>6. TypeOK'
  BY <1>2, <1>5 DEF DeliverCfg, Typed, TypeOK, Working, api, memory, boot
<1>7. Watched
  BY <1>1 DEF Typed, Quiet
<1> QED BY <1>5, <1>6, <1>7 DEF DeliverCfg, Typed, Quiet, Watched, boot, Working, Controllers

LEMMA DeliverVmTyped ==
    ASSUME Typed, NEW v \in VMs, DeliverVm(v)
    PROVE  Typed'
<1> DEFINE new == Head(vmWatch[v])
           e   == [key |-> v, action |-> ActionOf(vmIndexer[v], new)]
<1>1. vmWatch[v] \in Seq(VmObjects) /\ vmWatch[v] # <<>>
  BY DEF DeliverVm, Typed, TypeOK
<1>2. new \in VmObjects /\ Tail(vmWatch[v]) \in Seq(VmObjects)
  BY <1>1, HeadTailProperties
<1>3. e \in Event
  BY DEF Event, Actions, ActionOf
<1>4. "vm" \in Controllers
  BY DEF Controllers
<1>5. Working'
  BY <1>3, <1>4, EnqueueWorking DEF DeliverVm, Typed
<1>6. TypeOK'
  BY <1>2, <1>5 DEF DeliverVm, Typed, TypeOK, Working, api, memory, boot
<1>7. phase = "running"
  BY <1>1 DEF Typed, Quiet
<1> QED BY <1>5, <1>6, <1>7 DEF DeliverVm, Typed, Quiet, Watched, boot

-----------------------------------------------------------------------------
(* The environment.                                                        *)

\* What the environment does lowers its budget, by one.
LEMMA SpendTyped ==
    ASSUME budget \in [BudgetKeys -> Nat], NEW what \in BudgetKeys, Spend(what)
    PROVE  /\ budget' \in [BudgetKeys -> Nat]
           /\ budget[what] > 0
           /\ budget'[what] = budget[what] - 1
           /\ \A k \in BudgetKeys \ {what} : budget'[k] = budget[k]
BY DEF Spend

LEMMA WriteVmTyped ==
    ASSUME Typed, NEW v \in VMs, NEW obj \in VmObjects, WriteVm(v, obj),
           budget' \in [BudgetKeys -> Nat]
    PROVE  Typed'
<1>1. vm' \in [VMs -> VmObjects] /\ vmWatch' \in [VMs -> Seq(VmObjects)]
  BY AppendProperties DEF WriteVm, Typed, TypeOK
<1>2. TypeOK'
  BY <1>1 DEF WriteVm, Typed, TypeOK, memory
<1> QED BY <1>2, OutsideTyped DEF WriteVm

LEMMA EditCfgTyped ==
    ASSUME Typed, NEW v \in VMs, NEW obj \in CfgObjects, WriteCfg(v, obj),
           budget' \in [BudgetKeys -> Nat],
           UNCHANGED <<vm, pool, vmWatch, vmIndexer, cfgIndexer, queue, worker,
                       memory, phase, count, target, clock>>
    PROVE  Typed'
<1>1. /\ cfg' \in [VMs -> CfgObjects] /\ cfgWatch' \in [VMs -> Seq(CfgObjects)]
      /\ ~Watched => cfgWatch' = cfgWatch
  BY WriteCfgTyped DEF Typed, TypeOK
<1>2. TypeOK'
  BY <1>1 DEF Typed, TypeOK, memory
<1> QED BY <1>1, <1>2, OutsideTyped

LEMMA UsersTyped ==
    ASSUME Typed, NEW v \in VMs,
           CreateVm(v) \/ UpdateVm(v) \/ DeleteVm(v) \/ EditIP(v) \/ CreateManually(v)
    PROVE  Typed'
<1> USE DEF BudgetKeys
<1>0. budget \in [BudgetKeys -> Nat] /\ cfg[v] \in CfgObjects /\ clock \in Nat
  BY DEF Typed, TypeOK
<1>1. \A nics \in Shapes[v] : [exists |-> TRUE, nics |-> nics] \in VmObjects
  BY EnvironmentAssumption DEF VmObjects
<1>2. CASE CreateVm(v)
  BY <1>0, <1>1, <1>2, SpendTyped, WriteVmTyped DEF CreateVm
<1>3. CASE UpdateVm(v)
  BY <1>0, <1>1, <1>3, SpendTyped, WriteVmTyped DEF UpdateVm
<1>4. CASE DeleteVm(v)
  BY <1>0, <1>4, GoneTyped, SpendTyped, WriteVmTyped DEF DeleteVm
<1>5. CASE EditIP(v)
  <2>1. PICK n \in NicsOf(cfg[v].spec), a \in IPs : WriteCfg(v, [cfg[v] EXCEPT !.spec[n] = a])
    BY <1>5 DEF EditIP
  <2>2. [cfg[v].spec EXCEPT ![n] = a] \in Specs
    BY <1>0 DEF CfgObjects, Specs
  <2>3. [cfg[v] EXCEPT !.spec[n] = a] \in CfgObjects
    BY <1>0, <2>2 DEF CfgObjects
  <2> QED BY <1>0, <1>5, <2>1, <2>3, SpendTyped, EditCfgTyped DEF EditIP
<1>6. CASE CreateManually(v)
  <2> DEFINE sp(nics, a) == [n \in Nics |-> IF n \in nics THEN a ELSE NoNic]
             obj(nics, a) == [cfg[v] EXCEPT !.exists = TRUE, !.ctime = clock, !.spec = sp(nics, a)]
  <2>1. PICK nics \in Shapes[v], a \in IPs \cup {NoIP} : WriteCfg(v, obj(nics, a))
    BY <1>6 DEF CreateManually
  <2>2. sp(nics, a) \in Specs
    BY DEF Specs
  <2>3. obj(nics, a) \in CfgObjects
    BY <1>0, <2>2 DEF CfgObjects
  <2> QED BY <1>0, <1>6, <2>1, <2>3, SpendTyped, EditCfgTyped DEF CreateManually
<1> QED BY <1>2, <1>3, <1>4, <1>5, <1>6

LEMMA PoolsTyped ==
    ASSUME Typed, NEW n \in Networks, UncachePool(n) \/ CachePool(n)
    PROVE  Typed'
<1>0. /\ cache[n] \in [on : BOOLEAN, lu : Nat, lubs : Nat] /\ pool[n].lu \in Nat
      /\ budget \in [BudgetKeys -> Nat]
  BY DEF Typed, TypeOK, PoolStatuses
<1>1. CASE UncachePool(n)
  <2>1. PICK lu \in Nat : cache' = [cache EXCEPT ![n] = [@ EXCEPT !.on = FALSE, !.lu = lu]]
    BY <1>0, <1>1 DEF UncachePool
  <2>2. [cache[n] EXCEPT !.on = FALSE, !.lu = lu] \in [on : BOOLEAN, lu : Nat, lubs : Nat]
    BY <1>0
  <2>3. cache' \in [Networks -> [on : BOOLEAN, lu : Nat, lubs : Nat]]
    BY <2>1, <2>2 DEF Typed, TypeOK
  <2>4. budget' \in [BudgetKeys -> Nat]
    BY <1>0, <1>1, SpendTyped DEF UncachePool, BudgetKeys
  <2>5. TypeOK'
    BY <1>1, <2>3, <2>4 DEF UncachePool, Typed, TypeOK, api, events
  <2> QED BY <1>1, <2>5, OutsideTyped DEF UncachePool, events
<1>2. CASE CachePool(n)
  <2>1. [cache[n] EXCEPT !.on = TRUE] \in [on : BOOLEAN, lu : Nat, lubs : Nat]
    BY <1>0
  <2>2. cache' \in [Networks -> [on : BOOLEAN, lu : Nat, lubs : Nat]]
    BY <1>2, <2>1 DEF CachePool, Typed, TypeOK
  <2>3. TypeOK'
    BY <1>2, <2>2 DEF CachePool, Typed, TypeOK, api, events, boot
  <2> QED BY <1>2, <2>3, OutsideTyped DEF CachePool, events, boot
<1> QED BY <1>1, <1>2

LEMMA CountErrorTyped ==
    ASSUME Typed, CountError
    PROVE  Typed'
<1>1. budget' \in [BudgetKeys -> Nat]
  BY SpendTyped DEF CountError, Typed, TypeOK, BudgetKeys
<1>2. TypeOK'
  BY <1>1 DEF CountError, Typed, TypeOK, api, events, memory
<1> QED BY <1>2 DEF CountError, Typed, Working, Quiet, Watched, events

LEMMA ApiErrorTyped ==
    ASSUME Typed, NEW c \in Controllers, ApiError(c)
    PROVE  Typed'
<1> DEFINE w == worker[c]
           x == [w EXCEPT !.pc = w.next, !.fresh = FALSE, !.used = 0, !.retry = 0]
<1>1. w.pc # "idle" /\ w \in Handlers /\ w \in Workers
  BY WorkerTyped DEF ApiError
<1>2. budget' \in [BudgetKeys -> Nat]
  BY SpendTyped DEF ApiError, Typed, TypeOK, BudgetKeys
<1>3. CASE w.pc \in {"poolget", "poolput"}
  <2>1. x \in Workers
    BY <1>1 DEF Workers, PCs
  <2>2. x \in Handlers
    BY <1>1, <1>3, <2>1 DEF Handlers, Workers, AtNic, Granted, InCleanup, InRelease
  <2>3. Step(c, x) /\ UNCHANGED <<api, events, memory, queue, count, phase, target, clock>>
    BY <1>3 DEF ApiError, events
  <2>4. Working'
    BY <1>1, <2>2, <2>3, StepWorking DEF Typed
  <2>5. \A d \in Controllers \ {c} : queue'[d] = queue[d] /\ worker'[d].pc = worker[d].pc
    BY <2>3 DEF Step, Typed, Working
  <2>6. Quiet'
    BY <1>1, <2>3, <2>5, WorkQuiet DEF events
  <2>7. TypeOK'
    BY <1>2, <2>3, <2>4 DEF Typed, TypeOK, Working, Handlers, api, events, memory
  <2> QED BY <2>4, <2>6, <2>7 DEF Typed
<1>4. CASE w.pc \notin {"poolget", "poolput"}
  <2>1. cfgIndexer' \in [VMs -> CfgObjects]
    BY <1>4, OverwrittenStatus DEF ApiError, Typed, TypeOK
  <2>2. Return(c) /\ UNCHANGED <<api, vmWatch, cfgWatch, vmIndexer, memory, phase, target, clock>>
    BY <1>4 DEF ApiError
  <2> QED BY <1>1, <1>2, <2>1, <2>2, ReturnTyped DEF api, Typed, TypeOK
<1> QED BY <1>3, <1>4

\* The memory and the workers of a process that starts.
LEMMA FreshTyped ==
    /\ NoLeases \in [MACs -> Leases]
    /\ NoTables \in [Networks -> SUBSET IPs]
    /\ NoPools \in [Networks -> [on : BOOLEAN, lu : Nat, lubs : Nat]]
    /\ [c \in Controllers |-> EmptyQueue] \in [Controllers -> Queues(Event)]
    /\ [c \in Controllers |-> IdleWorker] \in [Controllers -> Handlers]
    /\ [v \in VMs |-> <<>>] \in [VMs -> Seq(VmObjects)]
    /\ [v \in VMs |-> <<>>] \in [VMs -> Seq(CfgObjects)]
    /\ [v \in VMs |-> GoneVm] \in [VMs -> VmObjects]
    /\ [v \in VMs |-> GoneCfg(0)] \in [VMs -> CfgObjects]
<1>1. ZeroLease \in Leases
  BY DEF ZeroLease, Leases
<1> QED BY <1>1, EmptyQueueTyped, IdleTyped, GoneTyped, EmptySeq DEF NoLeases, NoTables, NoPools

LEMMA CrashTyped ==
    ASSUME Typed, Crash
    PROVE  Typed'
<1>1. budget' \in [BudgetKeys -> Nat]
  BY SpendTyped DEF Crash, Typed, TypeOK, BudgetKeys
<1>2. Working'
  BY FreshTyped, IdleTyped DEF Crash, Working
<1>3. TypeOK'
  BY <1>1, <1>2, FreshTyped DEF Crash, Typed, TypeOK, Working, Handlers, api
<1>4. Quiet'
  BY IdleTyped DEF Crash, Quiet, Controllers, EmptyQueue
<1> QED BY <1>2, <1>3, <1>4 DEF Typed

LEMMA TickTyped ==
    ASSUME Typed, Tick
    PROVE  Typed'
<1>1. TypeOK'
  BY DEF Tick, Typed, TypeOK, api, events, memory
<1> QED BY <1>1, OutsideTyped DEF Tick, events

-----------------------------------------------------------------------------

LEMMA InitTyped == Init => Typed
<1> SUFFICES ASSUME Init PROVE Typed
    OBVIOUS
<1>1. Working
  BY FreshTyped, IdleTyped DEF Init, Working
<1>2. TypeOK
  <2>1. pool \in [Networks -> PoolStatuses]
    BY DEF Init, PoolStatuses
  <2> QED BY <1>1, <2>1, FreshTyped, EnvironmentAssumption DEF Init, TypeOK, Working, Handlers
<1>3. Quiet
  BY IdleTyped DEF Init, Quiet, Controllers, EmptyQueue
<1> QED BY <1>1, <1>2, <1>3 DEF Typed

LEMMA NextTyped == Typed /\ [Next]_vars => Typed'
<1> SUFFICES ASSUME Typed, [Next]_vars PROVE Typed'
    OBVIOUS
<1>1. CASE Start
  BY <1>1, StartPoolsTyped, CountVmNetCfgsTyped, StartCfgListenerTyped, StartVmListenerTyped
  DEF Start
<1>2. CASE Informers
  BY <1>2, DeliverCfgTyped, DeliverVmTyped DEF Informers
<1>3. CASE CfgWorker \/ VmWorker
  BY <1>3, CfgWorkerTyped, VmWorkerTyped
<1>4. CASE Pools
  BY <1>4, PoolsTyped DEF Pools
<1>5. CASE Users
  BY <1>5, UsersTyped DEF Users
<1>6. CASE Faults
  BY <1>6, CrashTyped, CountErrorTyped, ApiErrorTyped DEF Faults
<1>7. CASE Tick
  BY <1>7, TickTyped
<1>8. CASE UNCHANGED vars
  <2>1. TypeOK'
    BY <1>8 DEF vars, api, events, memory, boot, Typed, TypeOK
  <2> QED BY <1>8, <2>1, OutsideTyped DEF vars, boot, events
<1> QED BY <1>1, <1>2, <1>3, <1>4, <1>5, <1>6, <1>7, <1>8 DEF Next

-----------------------------------------------------------------------------
(* Facts the proofs about the helper have in common.                       *)

LEMMA TwoWorkers ==
    /\ me \in Controllers /\ self \in Controllers /\ me # self
    /\ \A c \in Controllers : c = me \/ c = self
    /\ me = "vmnetcfg" /\ self = "vm"
BY DEF me, self, Controllers

\* The first event of a watch stream, and the rest.
LEMMA FirstAndRest ==
    ASSUME NEW S, NEW s \in Seq(S), s # <<>>
    PROVE  /\ Head(s) = s[1] /\ 1 \in DOMAIN s
           /\ \A i \in DOMAIN Tail(s) : i + 1 \in DOMAIN s /\ Tail(s)[i] = s[i + 1]
BY HeadTailProperties, LenProperties

\* One thing at a time comes off the budget.
LEMMA NextSpends ==
    ASSUME [Next]_vars
    PROVE  UNCHANGED budget \/ \E what \in BudgetKeys : Spend(what)
<1>1. CASE Start \/ Informers \/ Tick \/ UNCHANGED vars
  BY <1>1 DEF Start, StartPools, CountVmNetCfgs, StartCfgListener, StartVmListener, Informers,
    DeliverCfg, DeliverVm, Tick, boot, vars
<1>2. CASE Pools \/ Faults
  BY <1>2 DEF Pools, UncachePool, CachePool, Faults, Crash, CountError, ApiError, boot, BudgetKeys
<1>3. CASE Users
  BY <1>3 DEF Users, CreateVm, UpdateVm, DeleteVm, EditIP, CreateManually, BudgetKeys
<1>4. CASE CfgWorker \/ VmWorker
  BY <1>4 DEF CfgWorker, VmWorker, TakeItem, Cleanup, ReleaseIP, UpdateIPPoolStatusGet,
    UpdateIPPoolStatusPut, SyncCfg, CheckNic, NoPool, CheckOwner, CheckHeld, GetIP,
    RegisterLease, NicsDone, UpdateSpec, UpdateStatus, CleanupDone, RemoveFinalizer,
    SyncVm, CheckMacs, CheckRefs, CreateCfg, UpdateCfg, DeleteCfg, boot
<1> QED BY <1>1, <1>2, <1>3, <1>4 DEF Next

\* What the environment may not do it never does.
LEMMA NeverSpent ==
    ASSUME TypeOK, NEW k \in BudgetKeys, budget[k] = 0, [Next]_vars
    PROVE  budget'[k] = 0 /\ ~Spend(k)
<1>1. ~Spend(k)
  BY DEF Spend
<1>2. \A what \in BudgetKeys : Spend(what) => budget'[k] = 0
  BY <1>1, SpendTyped DEF TypeOK
<1> QED BY <1>1, <1>2, NextSpends

\* For any virtual machines, networks, address ranges and interleavings of the
\* two workers, the informers, crashes and users, every variable keeps to its
\* values; GetIP never hands out the empty address, and a handler never adds an
\* address to the status of a pool that is not one of the pool.
THEOREM HelperTypesHold == Spec => []TypeOK
<1>1. Typed => TypeOK
  BY DEF Typed
<1> QED BY <1>1, InitTyped, NextTyped, PTL DEF Spec

-----------------------------------------------------------------------------
(* Copies.  The resourceVersion of a copy tells whether its spec is still  *)
(* the one in the API.                                                     *)

Copy(x, v) == x.rv <= cfg[v].rv /\ (x.rv = cfg[v].rv => x.spec = cfg[v].spec)

\* The copies in the informer, on their way to it, and in the two handlers.
Copied ==
    /\ \A v \in VMs :
         /\ Copy(GoneCfg(0), v)
         /\ Copy(cfgIndexer[v], v)
         /\ \A i \in DOMAIN cfgWatch[v] : Copy(cfgWatch[v][i], v)
    /\ \A c \in Controllers :
         worker[c].pc # "idle" => Copy(worker[c].obj, KeyOf(c))

\* An object that is gone has no interfaces.
Blank == \A v \in VMs : ~cfg[v].exists => NicsOf(cfg[v].spec) = {}

-----------------------------------------------------------------------------
(* What a handler is going to write keeps the addresses of its copy.       *)

Keeping(w) ==
    \A n \in Nics : w.obj.spec[n] \in IPs => w.spec[n] \in {w.obj.spec[n], NoNic}

Kind(c, w) ==
    IF c = "vmnetcfg"
    THEN /\ Keeping(w)
         /\ w.pc = "addlease" /\ w.obj.spec[w.nic] \in IPs => w.ip = w.obj.spec[w.nic]
    ELSE w.pc \in {"clean", "release", "poolget", "poolput"} => Keeping(w)

Faithful == \A c \in Controllers : Kind(c, worker[c])

Records == Typed /\ Copied /\ Blank /\ Faithful

-----------------------------------------------------------------------------
(* Copies stay copies: a write that changes an object gives it another     *)
(* resourceVersion.                                                        *)

\* What a step may do to the objects, to the copies on their way, to those in
\* the informer and to those of the workers.
Grown == \A v \in VMs : cfg'[v] = cfg[v] \/ cfg'[v].rv = cfg[v].rv + 1

Sending ==
    \A v \in VMs : \A i \in DOMAIN cfgWatch'[v] :
      \/ cfgWatch'[v][i] = cfg'[v]
      \/ \E j \in DOMAIN cfgWatch[v] : cfgWatch'[v][i] = cfgWatch[v][j]

Receiving ==
    \A v \in VMs :
      \/ cfgIndexer'[v] \in {GoneCfg(0), cfg'[v]}
      \/ \E j \in DOMAIN cfgWatch[v] : cfgIndexer'[v] = cfgWatch[v][j]
      \/ cfgIndexer'[v].rv = cfgIndexer[v].rv /\ cfgIndexer'[v].spec = cfgIndexer[v].spec

Reading(c) ==
    \/ worker'[c].pc = "idle"
    \/ worker'[c].obj \in {GoneCfg(0), cfgIndexer[queue'[c].busy.key], cfg'[queue'[c].busy.key]}
    \/ /\ worker[c].pc # "idle" /\ queue'[c].busy = queue[c].busy
       /\ worker'[c].obj = worker[c].obj

LEMMA CopiesStay ==
    ASSUME Typed, Typed', Copied, Grown, Sending, Receiving,
           \A c \in Controllers : Reading(c)
    PROVE  Copied'
<1> DEFINE Still(x, v) == x.rv <= cfg'[v].rv /\ (x.rv = cfg'[v].rv => x.spec = cfg'[v].spec)
<1>1. \A v \in VMs : cfg[v].rv \in Nat /\ cfg'[v].rv \in Nat
  BY DEF Typed, TypeOK, CfgObjects
<1>2. ASSUME NEW v \in VMs, NEW x, x.rv \in Nat, Copy(x, v)
      PROVE  Still(x, v)
  BY <1>1, <1>2 DEF Copy, Grown
<1>3. \A v \in VMs : GoneCfg(0) \in CfgObjects /\ cfgIndexer[v] \in CfgObjects
  BY GoneTyped DEF Typed, TypeOK
<1>4. \A v \in VMs : \A j \in DOMAIN cfgWatch[v] : cfgWatch[v][j] \in CfgObjects
  BY ElementOfSeq DEF Typed, TypeOK
<1>5. \A x \in CfgObjects : x.rv \in Nat
  BY DEF CfgObjects
<1>6. ASSUME NEW v \in VMs
      PROVE  /\ Still(GoneCfg(0), v) /\ Still(cfgIndexer[v], v) /\ Still(cfg'[v], v)
             /\ \A j \in DOMAIN cfgWatch[v] : Still(cfgWatch[v][j], v)
  BY <1>1, <1>2, <1>3, <1>4, <1>5 DEF Copied
<1>7. ASSUME NEW v \in VMs
      PROVE  Still(cfgIndexer'[v], v) /\ \A i \in DOMAIN cfgWatch'[v] : Still(cfgWatch'[v][i], v)
  BY <1>6 DEF Sending, Receiving
<1>8. ASSUME NEW c \in Controllers, worker'[c].pc # "idle"
      PROVE  Still(worker'[c].obj, queue'[c].busy.key)
  <2>1. queue'[c].busy.key \in VMs
    BY <1>8 DEF Typed, Working, Event
  <2>2. worker[c].pc # "idle" => /\ queue[c].busy.key \in VMs /\ worker[c].obj \in CfgObjects
                                 /\ Copy(worker[c].obj, queue[c].busy.key)
    BY WorkerTyped DEF Copied, KeyOf, Workers
  <2> QED BY <1>2, <1>5, <1>6, <1>8, <2>1, <2>2 DEF Reading
<1> QED BY <1>6, <1>7, <1>8 DEF Copied, Copy, KeyOf, GoneCfg, EmptySpec

LEMMA WriteCfgGrows ==
    ASSUME Typed, NEW v \in VMs, NEW obj \in CfgObjects, WriteCfg(v, obj)
    PROVE  /\ Grown /\ Sending
           /\ \A u \in VMs \ {v} : cfg'[u] = cfg[u]
           /\ cfg'[v].spec = obj.spec /\ cfg'[v].exists = obj.exists
<1> DEFINE new == Changed(v, obj)
<1>1. cfg[v] \in CfgObjects /\ cfgWatch[v] \in Seq(CfgObjects) /\ new \in CfgObjects
  BY ChangedTyped DEF Typed, TypeOK
<1>2. /\ new = cfg[v] \/ new.rv = cfg[v].rv + 1
      /\ new.spec = obj.spec /\ new.exists = obj.exists
  BY <1>1 DEF Changed, CfgObjects
<1>3. cfg' = [cfg EXCEPT ![v] = new]
  BY DEF WriteCfg
<1>4. cfgWatch' = cfgWatch \/ cfgWatch' = [cfgWatch EXCEPT ![v] = Append(cfgWatch[v], new)]
  BY DEF WriteCfg
<1>5. \A i \in DOMAIN Append(cfgWatch[v], new) :
        \/ Append(cfgWatch[v], new)[i] = new
        \/ i \in DOMAIN cfgWatch[v] /\ Append(cfgWatch[v], new)[i] = cfgWatch[v][i]
  BY <1>1, AppendProperties
<1>6. Grown
  BY <1>2, <1>3 DEF Grown, Typed, TypeOK
<1>7. Sending
  BY <1>3, <1>4, <1>5 DEF Sending, Typed, TypeOK
<1> QED BY <1>2, <1>3, <1>6, <1>7 DEF Typed, TypeOK

\* A step of a handler that writes nothing to the API and stays with its copy.
LEMMA LocalRecords ==
    ASSUME Records, Typed', NEW c \in Controllers, NEW w, worker[c].pc # "idle",
           Step(c, w), w.obj = worker[c].obj, Kind(c, w),
           UNCHANGED <<cfg, cfgWatch, cfgIndexer, queue>>
    PROVE  Records'
<1>1. worker'[c] = w /\ \A d \in Controllers \ {c} : worker'[d] = worker[d]
  BY DEF Step, Records, Typed, Working
<1>2. \A d \in Controllers : Reading(d)
  BY <1>1 DEF Reading
<1>3. Grown /\ Sending /\ Receiving
  BY DEF Grown, Sending, Receiving
<1>4. Copied'
  BY <1>2, <1>3, CopiesStay DEF Records
<1>5. Faithful'
  BY <1>1 DEF Records, Faithful, Kind, Keeping
<1> QED BY <1>4, <1>5 DEF Records, Blank

LEMMA IdleKeeps == \A c \in Controllers : Kind(c, IdleWorker)
BY ConstantsAssumption DEF Kind, Keeping, IdleWorker, GoneCfg, EmptySpec

\* The end of a handler, which may have written the object.
LEMMA EndRecords ==
    ASSUME Records, Typed', NEW c \in Controllers, worker[c].pc # "idle", Done(c),
           Grown, Sending, Receiving, Blank'
    PROVE  Records'
<1>1. /\ worker'[c] = IdleWorker
      /\ \A d \in Controllers \ {c} : worker'[d] = worker[d] /\ queue'[d] = queue[d]
  BY DEF Done, Step, Records, Typed, Working
<1>2. \A d \in Controllers : Reading(d)
  BY <1>1, IdleTyped DEF Reading
<1>3. Copied'
  BY <1>2, CopiesStay DEF Records
<1>4. Faithful'
  BY <1>1, IdleKeeps DEF Records, Faithful, Kind, Keeping
<1> QED BY <1>3, <1>4 DEF Records

\* ... and has not.
LEMMA ReturnRecords ==
    ASSUME Records, Typed', NEW c \in Controllers, worker[c].pc # "idle", Done(c),
           UNCHANGED <<cfg, cfgWatch, cfgIndexer>>
    PROVE  Records'
<1>1. Grown /\ Sending /\ Receiving
  BY DEF Grown, Sending, Receiving
<1>2. Blank'
  BY DEF Blank, Records
<1> QED BY <1>1, <1>2, EndRecords

LEMMA TakeItemRecords ==
    ASSUME Records, Typed', NEW c \in Controllers, TakeItem(c)
    PROVE  Records'
<1> DEFINE w == [IdleWorker EXCEPT !.pc = "sync"]
<1>1. /\ worker'[c] = w
      /\ \A d \in Controllers \ {c} : worker'[d] = worker[d] /\ queue'[d] = queue[d]
  BY DEF TakeItem, Step, Records, Typed, Working
<1>2. w.obj = GoneCfg(0) /\ w.spec = IdleWorker.spec /\ w.obj = IdleWorker.obj /\ w.pc = "sync"
  BY IdleTyped DEF IdleWorker
<1>3. Grown /\ Sending /\ Receiving
  BY DEF Grown, Sending, Receiving, TakeItem, api, events
<1>4. \A d \in Controllers : Reading(d)
  BY <1>1, <1>2 DEF Reading
<1>5. Copied'
  BY <1>3, <1>4, CopiesStay DEF Records
<1>6. Kind(c, w)
  BY <1>2, IdleKeeps DEF Kind, Keeping
<1> HIDE DEF w
<1>7. Faithful'
  <2>1. Kind(c, worker[c])'
    BY <1>1, <1>6 DEF Kind, Keeping
  <2>2. ASSUME NEW d \in Controllers \ {c}
        PROVE  Kind(d, worker[d])'
    <3>1. worker'[d] = worker[d] /\ Kind(d, worker[d])
      BY <1>1 DEF Records, Faithful
    <3> QED BY <3>1 DEF Kind, Keeping
  <2> QED BY <2>1, <2>2 DEF Faithful
<1> QED BY <1>5, <1>7 DEF Records, Blank, TakeItem, api, boot

-----------------------------------------------------------------------------
(* The vmnetcfg controller.                                                *)

LEMMA SyncCfgRecords ==
    ASSUME Records, Typed', SyncCfg
    PROVE  Records'
<1> DEFINE e   == queue[me].busy
           obj == cfgIndexer[e.key]
           w   == [IdleWorker EXCEPT !.pc = IF obj.del THEN "clean" ELSE "nic",
                     !.obj = obj, !.todo = NicsOf(obj.spec), !.spec = obj.spec]
<1>1. me \in Controllers /\ worker[me].pc # "idle" /\ me = "vmnetcfg"
  BY DEF me, Controllers, SyncCfg
<1>2. UNCHANGED <<cfg, cfgWatch, cfgIndexer>>
  BY DEF SyncCfg, api, events, boot
<1>3. CASE Done(me)
  BY <1>1, <1>2, <1>3, ReturnRecords
<1>4. CASE ~Done(me)
  <2>1. Step(me, w) /\ UNCHANGED queue
    BY <1>4 DEF SyncCfg
  <2>2. w.obj = obj /\ w.spec = obj.spec /\ w.pc \in {"clean", "nic"}
    BY DEF IdleWorker
  <2>3. worker'[me] = w /\ \A d \in Controllers \ {me} : worker'[d] = worker[d]
    BY <1>1, <2>1 DEF Step, Records, Typed, Working
  <2>4. \A d \in Controllers : Reading(d)
    BY <2>1, <2>2, <2>3 DEF Reading
  <2>5. Grown /\ Sending /\ Receiving
    BY <1>2 DEF Grown, Sending, Receiving
  <2>6. Copied'
    BY <2>4, <2>5, CopiesStay DEF Records
  <2>7. Kind(me, w)
    BY <1>1, <2>2 DEF Kind, Keeping
  <2> HIDE DEF w
  <2>8. Faithful'
    BY <2>3, <2>7 DEF Records, Faithful, Kind, Keeping
  <2> QED BY <1>2, <2>6, <2>8 DEF Records, Blank
<1> QED BY <1>3, <1>4

LEMMA InErrorKeeps ==
    ASSUME NEW w \in Workers, NEW n \in Nics, Keeping(w)
    PROVE  InError(w, n).obj = w.obj /\ Kind(me, InError(w, n))
<1>1. InError(w, n).obj = w.obj /\ InError(w, n).spec = w.spec /\ InError(w, n).pc = "nic"
  BY DEF InError, Workers
<1> QED BY <1>1 DEF Kind, Keeping, me

LEMMA MeKeeps ==
    ASSUME Records
    PROVE  /\ me \in Controllers /\ me = "vmnetcfg" /\ Keeping(worker[me])
           /\ worker[me] \in Workers /\ worker[me] \in Handlers
           /\ worker[me].pc = "addlease" /\ worker[me].obj.spec[worker[me].nic] \in IPs
                => worker[me].ip = worker[me].obj.spec[worker[me].nic]
BY WorkerTyped DEF me, Controllers, Records, Faithful, Kind

LEMMA CheckNicRecords ==
    ASSUME Records, Typed', CheckNic
    PROVE  Records'
<1> DEFINE w    == worker[me]
           v(n) == [w EXCEPT !.todo = @ \ {n}, !.nic = n]
<1>1. w.pc # "idle" /\ w \in Workers
  BY MeKeeps DEF CheckNic
<1>2. ASSUME NEW n \in w.todo
      PROVE  /\ n \in Nics /\ v(n) \in Workers /\ Keeping(v(n)) /\ v(n).obj = w.obj
             /\ Kind(me, [v(n) EXCEPT !.pc = "owner"]) /\ [v(n) EXCEPT !.pc = "owner"].obj = w.obj
             /\ Kind(me, [v(n) EXCEPT !.pc = "getip"]) /\ [v(n) EXCEPT !.pc = "getip"].obj = w.obj
  <2>1. n \in Nics /\ v(n) \in Workers /\ v(n).obj = w.obj /\ v(n).spec = w.spec
    BY <1>1, <1>2 DEF Workers
  <2>2. /\ [v(n) EXCEPT !.pc = "owner"].obj = w.obj /\ [v(n) EXCEPT !.pc = "owner"].spec = w.spec
        /\ [v(n) EXCEPT !.pc = "getip"].obj = w.obj /\ [v(n) EXCEPT !.pc = "getip"].spec = w.spec
        /\ [v(n) EXCEPT !.pc = "owner"].pc = "owner" /\ [v(n) EXCEPT !.pc = "getip"].pc = "getip"
    BY <1>1 DEF Workers
  <2> QED BY <2>1, <2>2, MeKeeps DEF Kind, Keeping
<1>3. PICK x : Step(me, x) /\ x.obj = w.obj /\ Kind(me, x)
  BY <1>2, InErrorKeeps DEF CheckNic
<1> QED BY <1>1, <1>3, MeKeeps, LocalRecords DEF CheckNic, api, events, boot

LEMMA CheckOwnerRecords ==
    ASSUME Records, Typed', CheckOwner
    PROVE  Records'
<1> DEFINE w == worker[me]
<1>1. w.pc # "idle" /\ w \in Workers /\ w.nic \in Nics
  BY MeKeeps DEF CheckOwner, Handlers, AtNic
<1>2. [w EXCEPT !.pc = "held"].obj = w.obj /\ Kind(me, [w EXCEPT !.pc = "held"])
  BY <1>1, MeKeeps DEF Kind, Keeping, Workers
<1>3. PICK x : Step(me, x) /\ x.obj = w.obj /\ Kind(me, x)
  BY <1>1, <1>2, MeKeeps, InErrorKeeps DEF CheckOwner
<1> QED BY <1>1, <1>3, MeKeeps, LocalRecords DEF CheckOwner, api, events, boot

LEMMA CheckHeldRecords ==
    ASSUME Records, Typed', CheckHeld
    PROVE  Records'
<1> DEFINE w == worker[me]
           n == w.nic
           l == leases[MacOf(n)]
           x == [w EXCEPT !.pc = "getip"]
           y == [w EXCEPT !.pc = "nic", !.nic = NoNic, !.status[n] = w.obj.status[n]]
           z == [w EXCEPT !.pc = "release", !.ip = l.ip, !.next = "getip"]
<1>1. w.pc # "idle" /\ w \in Workers
  BY MeKeeps DEF CheckHeld
<1>2. /\ x.obj = w.obj /\ x.spec = w.spec /\ x.pc = "getip"
      /\ y.obj = w.obj /\ y.spec = w.spec /\ y.pc = "nic"
      /\ z.obj = w.obj /\ z.spec = w.spec /\ z.pc = "release"
  BY <1>1 DEF Workers
<1>3. Step(me, x) \/ Step(me, y) \/ Step(me, z)
  BY DEF CheckHeld
<1> HIDE DEF x, y, z
<1>4. Kind(me, x) /\ Kind(me, y) /\ Kind(me, z)
  BY <1>2, MeKeeps DEF Kind, Keeping
<1>5. UNCHANGED <<cfg, cfgWatch, cfgIndexer, queue>>
  BY DEF CheckHeld, api, events, boot
<1> QED BY <1>1, <1>2, <1>3, <1>4, <1>5, MeKeeps, LocalRecords

\* GetIP grants the address the copy records, when it records one.
LEMMA GetIPRecords ==
    ASSUME Records, Typed', GetIP
    PROVE  Records'
<1> DEFINE w == worker[me]
           n == w.nic
           x(a) == [w EXCEPT !.pc = "addlease", !.ip = a]
           y == InError([w EXCEPT !.ip = NoIP], n)
<1>1. w.pc # "idle" /\ w \in Workers /\ n \in Nics
  BY MeKeeps DEF GetIP, Handlers, AtNic
<1>2. UNCHANGED <<cfg, cfgWatch, cfgIndexer, queue>>
  BY DEF GetIP, api, events, boot
<1>3. CASE \E a \in Grantable(NetOf(n), w.obj.spec[n]) : Step(me, x(a))
  <2>1. PICK a \in IPs : w.obj.spec[n] \in {NoIP, a} /\ Step(me, x(a))
    BY <1>3 DEF Grantable
  <2>2. /\ x(a).obj = w.obj /\ x(a).spec = w.spec /\ x(a).nic = n /\ x(a).ip = a
        /\ x(a).pc = "addlease"
    BY <1>1 DEF Workers
  <2> HIDE DEF x
  <2>3. Kind(me, x(a))
    BY <2>1, <2>2, MeKeeps, ConstantsAssumption DEF Kind, Keeping
  <2> QED BY <1>1, <1>2, <2>1, <2>2, <2>3, MeKeeps, LocalRecords
<1>4. CASE Step(me, y)
  <2>1. /\ [w EXCEPT !.ip = NoIP] \in Workers /\ [w EXCEPT !.ip = NoIP].obj = w.obj
        /\ [w EXCEPT !.ip = NoIP].spec = w.spec
    BY <1>1 DEF Workers
  <2>2. Keeping([w EXCEPT !.ip = NoIP])
    BY <2>1, MeKeeps DEF Keeping
  <2>3. y.obj = w.obj /\ Kind(me, y)
    BY <1>1, <2>1, <2>2, InErrorKeeps
  <2> QED BY <1>1, <1>2, <1>4, <2>3, MeKeeps, LocalRecords
<1> QED BY <1>3, <1>4 DEF GetIP

LEMMA RegisterLeaseRecords ==
    ASSUME Records, Typed', RegisterLease
    PROVE  Records'
<1> DEFINE w == worker[me]
           n == w.nic
           x == [w EXCEPT !.pc = "poolget", !.op = "add", !.next = "nic", !.retry = 0,
                          !.change = TRUE, !.spec = Recorded(w), !.status[n] = "OK"]
<1>1. w.pc = "addlease" /\ w.pc # "idle" /\ w \in Workers /\ n \in Nics /\ w.spec \in Specs
  BY MeKeeps DEF RegisterLease, Handlers, AtNic, Workers
<1>2. x.obj = w.obj /\ x.spec = Recorded(w) /\ x.pc = "poolget"
  BY <1>1 DEF Workers
<1>3. Step(me, x) /\ UNCHANGED <<cfg, cfgWatch, cfgIndexer, queue>>
  BY DEF RegisterLease, api, events, boot
<1> HIDE DEF x
<1>4. Kind(me, x)
  <2>1. \A k \in Nics : Recorded(w)[k] = IF k = n THEN w.ip ELSE w.spec[k]
    BY <1>1 DEF Recorded, Specs
  <2> QED BY <1>1, <1>2, <2>1, MeKeeps DEF Kind, Keeping
<1> QED BY <1>1, <1>2, <1>3, <1>4, MeKeeps, LocalRecords

LEMMA NicsDoneRecords ==
    ASSUME Records, Typed', NicsDone
    PROVE  Records'
<1> DEFINE w == worker[me]
           x == [w EXCEPT !.pc = "update"]
           y == [w EXCEPT !.pc = "ustatus"]
<1>1. w.pc # "idle" /\ w \in Workers
  BY MeKeeps DEF NicsDone
<1>2. UNCHANGED <<cfg, cfgWatch, cfgIndexer>>
  BY DEF NicsDone, api, events
<1>3. x.obj = w.obj /\ x.spec = w.spec /\ x.pc = "update" /\ y.obj = w.obj /\ y.spec = w.spec /\ y.pc = "ustatus"
  BY <1>1 DEF Workers
<1>4. (Step(me, x) /\ UNCHANGED queue) \/ (Step(me, y) /\ UNCHANGED queue) \/ Done(me)
  BY DEF NicsDone, Return
<1> HIDE DEF x, y
<1>5. Kind(me, x) /\ Kind(me, y)
  BY <1>3, MeKeeps DEF Kind, Keeping
<1> QED BY <1>1, <1>2, <1>3, <1>4, <1>5, MeKeeps, LocalRecords, ReturnRecords

LEMMA UpdateSpecRecords ==
    ASSUME Records, Typed', UpdateSpec
    PROVE  Records'
<1> DEFINE w   == worker[me]
           v   == KeyOf(me)
           new == [cfg[v] EXCEPT !.spec = w.spec]
           x   == [w EXCEPT !.pc = "ustatus", !.obj = Changed(v, new)]
<1>1. w.pc # "idle" /\ w \in Workers /\ v \in VMs /\ cfg[v] \in CfgObjects /\ w.spec \in Specs
  BY MeKeeps, WorkerTyped DEF UpdateSpec, Records, Typed, TypeOK, Workers
<1>2. UNCHANGED cfgIndexer
  BY DEF UpdateSpec
<1>3. CASE Current(v, w.obj)
  <2>1. WriteCfg(v, new) /\ Step(me, x) /\ UNCHANGED queue
    BY <1>3 DEF UpdateSpec
  <2>2. new \in CfgObjects /\ new.spec = w.spec /\ new.exists
    BY <1>1, <1>3 DEF CfgObjects, Current
  <2>3. /\ Grown /\ Sending /\ \A u \in VMs \ {v} : cfg'[u] = cfg[u]
        /\ cfg'[v].spec = w.spec /\ cfg'[v].exists
    BY <1>1, <2>1, <2>2, WriteCfgGrows DEF Records
  <2>4. cfg'[v] = Changed(v, new)
    BY <1>1, <2>1 DEF WriteCfg, Records, Typed, TypeOK
  <2>5. x.obj = cfg'[v] /\ x.spec = w.spec /\ x.pc = "ustatus"
    BY <1>1, <2>4 DEF Workers
  <2>6. worker'[me] = x /\ \A d \in Controllers \ {me} : worker'[d] = worker[d]
    BY <2>1, MeKeeps DEF Step, Records, Typed, Working
  <2> HIDE DEF x
  <2>7. \A d \in Controllers : Reading(d)
    BY <2>1, <2>5, <2>6 DEF Reading, KeyOf
  <2>8. Receiving
    BY <1>2 DEF Receiving
  <2>9. Copied'
    BY <2>3, <2>7, <2>8, CopiesStay DEF Records
  <2>10. Faithful'
    <3>1. Kind(me, x)
      BY <2>3, <2>5, MeKeeps DEF Kind, Keeping
    <3> QED BY <2>6, <3>1 DEF Records, Faithful, Kind, Keeping
  <2>11. Blank'
    BY <2>3 DEF Records, Blank
  <2> QED BY <1>2, <2>9, <2>10, <2>11 DEF Records
<1>4. CASE ~Current(v, w.obj)
  <2>1. Done(me) /\ UNCHANGED <<cfg, cfgWatch>>
    BY <1>4 DEF UpdateSpec, Return
  <2> QED BY <1>1, <1>2, <2>1, MeKeeps, ReturnRecords
<1> QED BY <1>3, <1>4

LEMMA UpdateStatusRecords ==
    ASSUME Records, Typed', UpdateStatus
    PROVE  Records'
<1> DEFINE w   == worker[me]
           v   == KeyOf(me)
           new == [cfg[v] EXCEPT !.status = w.status]
<1>1. w.pc # "idle" /\ v \in VMs /\ cfg[v] \in CfgObjects /\ w.status \in Statuses
  BY MeKeeps, WorkerTyped DEF UpdateStatus, Records, Typed, TypeOK, Workers
<1>2. new \in CfgObjects /\ new.spec = cfg[v].spec /\ new.exists = cfg[v].exists
  BY <1>1 DEF CfgObjects
<1>3. /\ Grown /\ Sending /\ \A u \in VMs \ {v} : cfg'[u] = cfg[u]
      /\ cfg'[v].spec = cfg[v].spec /\ cfg'[v].exists = cfg[v].exists
  <2>1. CASE WriteCfg(v, new)
    BY <1>1, <1>2, <2>1, WriteCfgGrows DEF Records
  <2>2. CASE UNCHANGED <<cfg, cfgWatch>>
    BY <2>2 DEF Grown, Sending
  <2> QED BY <2>1, <2>2 DEF UpdateStatus
<1>4. Receiving
  BY OverwrittenStatus DEF UpdateStatus, Receiving, Records
<1>5. Blank'
  BY <1>3 DEF Records, Blank
<1>6. Done(me) 
  BY DEF UpdateStatus, Return
<1> QED BY <1>1, <1>3, <1>4, <1>5, <1>6, MeKeeps, EndRecords

\* The end of a handler that writes an object, or does not.
LEMMA WriteRecords ==
    ASSUME Records, Typed', NEW c \in Controllers, worker[c].pc # "idle", Done(c),
           NEW obj \in CfgObjects, ~obj.exists => NicsOf(obj.spec) = {},
           WriteCfg(KeyOf(c), obj) \/ UNCHANGED <<cfg, cfgWatch>>,
           UNCHANGED cfgIndexer
    PROVE  Records'
<1>1. KeyOf(c) \in VMs
  BY WorkerTyped DEF Records
<1>2. CASE UNCHANGED <<cfg, cfgWatch>>
  BY <1>2, ReturnRecords
<1>3. CASE WriteCfg(KeyOf(c), obj)
  <2>1. /\ Grown /\ Sending /\ \A u \in VMs \ {KeyOf(c)} : cfg'[u] = cfg[u]
        /\ cfg'[KeyOf(c)].spec = obj.spec /\ cfg'[KeyOf(c)].exists = obj.exists
    BY <1>1, <1>3, WriteCfgGrows DEF Records
  <2>2. Blank'
    BY <2>1 DEF Records, Blank
  <2>3. Receiving
    BY DEF Receiving
  <2> QED BY <2>1, <2>2, <2>3, EndRecords
<1> QED BY <1>2, <1>3

LEMMA GoneBlank ==
    ASSUME Typed, NEW v \in VMs
    PROVE  /\ GoneCfg(cfg[v].rv) \in CfgObjects /\ ~GoneCfg(cfg[v].rv).exists
           /\ NicsOf(GoneCfg(cfg[v].rv).spec) = {}
BY GoneTyped, EmptyTyped DEF Typed, TypeOK, CfgObjects, GoneCfg

LEMMA RemoveFinalizerRecords ==
    ASSUME Records, Typed', RemoveFinalizer
    PROVE  Records'
<1> DEFINE v   == KeyOf(me)
           obj == GoneCfg(cfg[v].rv)
<1>1. worker[me].pc # "idle" /\ v \in VMs
  BY MeKeeps, WorkerTyped DEF RemoveFinalizer, Records
<1>2. obj \in CfgObjects /\ NicsOf(obj.spec) = {}
  BY <1>1, GoneBlank DEF Records
<1>3. Done(me) /\ UNCHANGED cfgIndexer /\ (WriteCfg(v, obj) \/ UNCHANGED <<cfg, cfgWatch>>)
  BY DEF RemoveFinalizer, Return
<1> QED BY <1>1, <1>2, <1>3, MeKeeps, WriteRecords

LEMMA CleanupDoneRecords ==
    ASSUME Records, Typed', CleanupDone
    PROVE  Records'
<1> DEFINE w == worker[me]
           x == [w EXCEPT !.pc = "unfinal"]
<1>1. w.pc # "idle" /\ x.obj = w.obj /\ x.spec = w.spec /\ x.pc = "unfinal"
  BY MeKeeps DEF CleanupDone, Workers
<1>2. Kind(me, x)
  BY <1>1, MeKeeps DEF Kind, Keeping
<1>3. Step(me, x) /\ UNCHANGED <<cfg, cfgWatch, cfgIndexer, queue>>
  BY DEF CleanupDone, api, events, boot
<1> QED BY <1>1, <1>2, <1>3, MeKeeps, LocalRecords

-----------------------------------------------------------------------------
(* The clean-up and the pool status.                                       *)

\* A handler that cleans up and goes on with the same copy and the same spec.
LEMMA SameKind ==
    ASSUME NEW c \in Controllers, NEW w, NEW x, Kind(c, w), x.obj = w.obj, x.spec = w.spec,
           x.pc # "addlease",
           w.pc \in {"clean", "release", "poolget", "poolput"}
    PROVE  Kind(c, x)
BY DEF Kind, Keeping

LEMMA CleanupRecords ==
    ASSUME Records, Typed', NEW c \in Controllers, Cleanup(c)
    PROVE  Records'
<1> DEFINE w    == worker[c]
           x(n) == [w EXCEPT !.pc = "release", !.nic = n, !.todo = @ \ {n},
                             !.ip = w.obj.spec[n], !.next = "clean"]
<1>1. w.pc = "clean" /\ w.pc # "idle" /\ w \in Workers /\ Kind(c, w)
  BY WorkerTyped DEF Cleanup, Records, Faithful
<1>2. PICK n \in w.todo : Step(c, x(n))
  BY DEF Cleanup
<1>3. x(n).obj = w.obj /\ x(n).spec = w.spec /\ x(n).pc = "release"
  BY <1>1 DEF Workers
<1> HIDE DEF x
<1>4. Kind(c, x(n))
  BY <1>1, <1>3, SameKind
<1>5. UNCHANGED <<cfg, cfgWatch, cfgIndexer, queue>>
  BY DEF Cleanup, api, events, boot
<1> QED BY <1>1, <1>2, <1>3, <1>4, <1>5, LocalRecords

LEMMA NextNotGrant == \A w \in Workers : w.next # "addlease"
BY DEF Workers

LEMMA ReleaseIPRecords ==
    ASSUME Records, Typed', NEW c \in Controllers, ReleaseIP(c)
    PROVE  Records'
<1> DEFINE w == worker[c]
           x == [w EXCEPT !.pc = "poolget", !.op = "delete", !.retry = 0]
           y == [w EXCEPT !.pc = w.next]
<1>1. w.pc = "release" /\ w.pc # "idle" /\ w \in Workers /\ Kind(c, w)
  BY WorkerTyped DEF ReleaseIP, Records, Faithful
<1>2. /\ x.obj = w.obj /\ x.spec = w.spec /\ x.pc # "addlease"
      /\ y.obj = w.obj /\ y.spec = w.spec /\ y.pc # "addlease"
  BY <1>1, NextNotGrant DEF Workers
<1>3. Step(c, x) \/ Step(c, y)
  BY DEF ReleaseIP
<1>4. UNCHANGED <<cfg, cfgWatch, cfgIndexer, queue>>
  BY DEF ReleaseIP, api, events, boot
<1> HIDE DEF x, y
<1>5. Kind(c, x) /\ Kind(c, y)
  BY <1>1, <1>2, SameKind
<1> QED BY <1>1, <1>2, <1>3, <1>4, <1>5, LocalRecords

LEMMA PoolGetRecords ==
    ASSUME Records, Typed', NEW c \in Controllers, UpdateIPPoolStatusGet(c)
    PROVE  Records'
<1> DEFINE w == worker[c]
           x == [w EXCEPT !.pc = "poolput", !.fresh = TRUE, !.used = Cardinality(ipam[NetOf(w.nic)])]
           y == [w EXCEPT !.pc = w.next]
<1>1. w.pc = "poolget" /\ w.pc # "idle" /\ w \in Workers /\ Kind(c, w)
  BY WorkerTyped DEF UpdateIPPoolStatusGet, Records, Faithful
<1>2. /\ x.obj = w.obj /\ x.spec = w.spec /\ x.pc # "addlease"
      /\ y.obj = w.obj /\ y.spec = w.spec /\ y.pc # "addlease"
  BY <1>1, NextNotGrant DEF Workers
<1>3. Step(c, x) \/ Step(c, y)
  BY DEF UpdateIPPoolStatusGet
<1>4. UNCHANGED <<cfg, cfgWatch, cfgIndexer, queue>>
  BY DEF UpdateIPPoolStatusGet, api, events, boot
<1> HIDE DEF x, y
<1>5. Kind(c, x) /\ Kind(c, y)
  BY <1>1, <1>2, SameKind
<1> QED BY <1>1, <1>2, <1>3, <1>4, <1>5, LocalRecords

LEMMA PoolPutRecords ==
    ASSUME Records, Typed', NEW c \in Controllers, UpdateIPPoolStatusPut(c)
    PROVE  Records'
<1> DEFINE w   == worker[c]
           net == NetOf(w.nic)
           ret == [w EXCEPT !.pc = w.next, !.fresh = FALSE, !.used = 0, !.retry = 0]
           y   == [w EXCEPT !.pc = "poolget", !.used = 0, !.retry = @ + 1]
           stale(d) == [worker[d] EXCEPT !.fresh = @ /\ NetOf(worker[d].nic) # net]
<1>1. w.pc = "poolput" /\ w.pc # "idle" /\ w \in Workers /\ Kind(c, w)
  BY WorkerTyped DEF UpdateIPPoolStatusPut, Records, Faithful
<1>2. /\ ret.obj = w.obj /\ ret.spec = w.spec /\ ret.pc # "addlease"
      /\ y.obj = w.obj /\ y.spec = w.spec /\ y.pc # "addlease"
  BY <1>1, NextNotGrant DEF Workers
<1>3. UNCHANGED <<cfg, cfgWatch, cfgIndexer, queue>>
  BY DEF UpdateIPPoolStatusPut, events, boot
<1>4. ASSUME NEW d \in Controllers
      PROVE  /\ stale(d).obj = worker[d].obj /\ stale(d).spec = worker[d].spec
             /\ stale(d).pc = worker[d].pc /\ stale(d).nic = worker[d].nic
             /\ stale(d).ip = worker[d].ip
  BY WorkerTyped DEF Records, Workers
<1>5. \/ Step(c, ret) \/ Step(c, y)
      \/ worker' = [d \in Controllers |-> IF d = c THEN ret ELSE stale(d)]
  BY DEF UpdateIPPoolStatusPut
<1> HIDE DEF ret, y, stale
<1>6. Kind(c, ret) /\ Kind(c, y)
  BY <1>1, <1>2, SameKind
<1>7. CASE Step(c, ret) \/ Step(c, y)
  BY <1>1, <1>2, <1>3, <1>6, <1>7, LocalRecords
<1>8. CASE worker' = [d \in Controllers |-> IF d = c THEN ret ELSE stale(d)]
  <2>1. worker'[c] = ret /\ \A d \in Controllers \ {c} : worker'[d] = stale(d)
    BY <1>8
  <2>2. \A d \in Controllers : Reading(d)
    BY <1>1, <1>2, <1>3, <1>4, <2>1 DEF Reading
  <2>3. Grown /\ Sending /\ Receiving
    BY <1>3 DEF Grown, Sending, Receiving
  <2>4. Copied'
    BY <2>2, <2>3, CopiesStay DEF Records
  <2>5. ASSUME NEW d \in Controllers \ {c}
        PROVE  Kind(d, stale(d))
    BY <1>4, <2>5 DEF Records, Faithful, Kind, Keeping
  <2>6. Faithful'
    BY <1>6, <2>1, <2>5 DEF Faithful, Kind, Keeping
  <2> QED BY <1>3, <2>4, <2>6 DEF Records, Blank
<1> QED BY <1>5, <1>7, <1>8

LEMMA CfgWorkerRecords ==
    ASSUME Records, Typed', CfgWorker
    PROVE  Records'
<1>1. CASE NoPool
  <2>1. worker[me].pc # "idle" /\ Done(me) /\ UNCHANGED <<cfg, cfgWatch, cfgIndexer>>
    BY <1>1 DEF NoPool, Return, api, events
  <2> QED BY <2>1, MeKeeps, ReturnRecords
<1> QED BY <1>1, MeKeeps, TakeItemRecords, SyncCfgRecords, CheckNicRecords, CheckOwnerRecords,
           CheckHeldRecords, GetIPRecords, RegisterLeaseRecords, NicsDoneRecords,
           UpdateSpecRecords, UpdateStatusRecords, CleanupRecords, CleanupDoneRecords,
           RemoveFinalizerRecords, ReleaseIPRecords, PoolGetRecords, PoolPutRecords
    DEF CfgWorker

-----------------------------------------------------------------------------
(* The VirtualMachine controller.                                          *)

LEMMA SelfKeeps ==
    ASSUME Records
    PROVE  /\ self \in Controllers /\ self = "vm" /\ self # "vmnetcfg"
           /\ worker[self] \in Workers
           /\ worker[self].pc = "clean" => Keeping(worker[self])
BY WorkerTyped DEF self, Controllers, Records, Faithful, Kind

LEMMA SyncVmRecords ==
    ASSUME Records, Typed', SyncVm
    PROVE  Records'
<1> DEFINE e == queue[self].busy
           o == vmIndexer[e.key]
           x == [IdleWorker EXCEPT !.pc = "delete"]
           y == [IdleWorker EXCEPT !.pc = "macs", !.obj = cfg[e.key],
                   !.spec = [n \in Nics |-> IF n \in o.nics THEN NoIP ELSE NoNic]]
<1>1. worker[self].pc # "idle" /\ self \in Controllers /\ self # "vmnetcfg"
  BY SelfKeeps DEF SyncVm
<1>2. UNCHANGED <<cfg, cfgWatch, cfgIndexer>>
  BY DEF SyncVm, api, events, boot
<1>3. CASE Done(self)
  BY <1>1, <1>2, <1>3, ReturnRecords
<1>4. CASE ~Done(self)
  <2>1. UNCHANGED queue /\ (Step(self, x) \/ Step(self, y))
    BY <1>4 DEF SyncVm
  <2>2. x.obj = GoneCfg(0) /\ x.pc = "delete" /\ y.obj = cfg'[e.key] /\ y.pc = "macs"
    BY <1>2 DEF IdleWorker
  <2> HIDE DEF x, y
  <2>3. /\ worker'[self] \in {x, y}
        /\ \A d \in Controllers \ {self} : worker'[d] = worker[d]
    BY <1>1, <2>1 DEF Step, Records, Typed, Working
  <2>4. \A d \in Controllers : Reading(d)
    BY <2>1, <2>2, <2>3 DEF Reading
  <2>5. Grown /\ Sending /\ Receiving
    BY <1>2 DEF Grown, Sending, Receiving
  <2>6. Copied'
    BY <2>4, <2>5, CopiesStay DEF Records
  <2>7. Faithful'
    BY <1>1, <2>2, <2>3 DEF Records, Faithful, Kind, Keeping
  <2> QED BY <1>2, <2>6, <2>7 DEF Records, Blank
<1> QED BY <1>3, <1>4

LEMMA CheckMacsRecords ==
    ASSUME Records, Typed', CheckMacs
    PROVE  Records'
<1> DEFINE w == worker[self]
           x == [w EXCEPT !.pc = "refs", !.todo = {n \in NicsOf(w.spec) : CheckLease(MacOf(n))}]
<1>1. w.pc # "idle" /\ x.obj = w.obj /\ x.pc = "refs"
  BY SelfKeeps DEF CheckMacs, Workers
<1>2. Kind(self, x)
  BY <1>1, SelfKeeps DEF Kind
<1>3. Step(self, x) /\ UNCHANGED <<cfg, cfgWatch, cfgIndexer, queue>>
  BY DEF CheckMacs, api, events, boot
<1> QED BY <1>1, <1>2, <1>3, SelfKeeps, LocalRecords

\* The new NetworkConfig keeps the addresses of the object that was read.
LEMMA CheckRefsRecords ==
    ASSUME Records, Typed', CheckRefs
    PROVE  Records'
<1> DEFINE w    == worker[self]
           spec == NetworkConfigs(w)
           x    == [w EXCEPT !.pc = IF w.obj.exists THEN "clean" ELSE "create",
                             !.todo = Dropped(w.obj.spec, spec), !.spec = spec]
<1>1. w.pc # "idle" /\ x.obj = w.obj /\ x.spec = spec
  BY SelfKeeps DEF CheckRefs, Workers
<1>2. UNCHANGED <<cfg, cfgWatch, cfgIndexer>>
  BY DEF CheckRefs, api, events
<1>3. Done(self) \/ (Step(self, x) /\ UNCHANGED queue)
  BY DEF CheckRefs, Return
<1> HIDE DEF x
<1>4. Kind(self, x)
  BY <1>1, SelfKeeps, ConstantsAssumption DEF Kind, Keeping, NetworkConfigs
<1> QED BY <1>1, <1>2, <1>3, <1>4, SelfKeeps, LocalRecords, ReturnRecords

LEMMA CreateCfgRecords ==
    ASSUME Records, Typed', CreateCfg
    PROVE  Records'
<1> DEFINE w   == worker[self]
           v   == KeyOf(self)
           obj == [cfg[v] EXCEPT !.exists = TRUE, !.spec = w.spec, !.fin = TRUE, !.ctime = clock]
<1>1. w.pc # "idle" /\ v \in VMs /\ w.spec \in Specs /\ cfg[v] \in CfgObjects /\ clock \in Nat
  BY SelfKeeps, WorkerTyped DEF CreateCfg, Records, Typed, TypeOK, Workers
<1>2. obj \in CfgObjects /\ obj.exists
  BY <1>1 DEF CfgObjects
<1>3. Done(self) /\ UNCHANGED cfgIndexer /\ (WriteCfg(v, obj) \/ UNCHANGED <<cfg, cfgWatch>>)
  BY DEF CreateCfg, Return
<1> HIDE DEF obj
<1> QED BY <1>1, <1>2, <1>3, SelfKeeps, WriteRecords

LEMMA UpdateCfgRecords ==
    ASSUME Records, Typed', UpdateCfg
    PROVE  Records'
<1> DEFINE w   == worker[self]
           v   == KeyOf(self)
           obj == [cfg[v] EXCEPT !.spec = w.spec]
<1>1. w.pc # "idle" /\ v \in VMs /\ w.spec \in Specs /\ cfg[v] \in CfgObjects
  BY SelfKeeps, WorkerTyped DEF UpdateCfg, Records, Typed, TypeOK, Workers
<1>2. obj \in CfgObjects /\ obj.exists = cfg[v].exists
  BY <1>1 DEF CfgObjects
<1>3. Done(self) /\ UNCHANGED cfgIndexer
      /\ ((Current(v, w.obj) /\ WriteCfg(v, obj)) \/ UNCHANGED <<cfg, cfgWatch>>)
  BY DEF UpdateCfg, Return
<1> HIDE DEF obj
<1>4. CASE Current(v, w.obj) /\ WriteCfg(v, obj)
  BY <1>1, <1>2, <1>3, <1>4, SelfKeeps, WriteRecords DEF Current
<1>5. CASE UNCHANGED <<cfg, cfgWatch>>
  BY <1>1, <1>3, <1>5, SelfKeeps, ReturnRecords
<1> QED BY <1>3, <1>4, <1>5

LEMMA DeleteCfgRecords ==
    ASSUME Records, Typed', DeleteCfg
    PROVE  Records'
<1> DEFINE v == KeyOf(self)
           x == [cfg[v] EXCEPT !.del = TRUE]
           y == GoneCfg(cfg[v].rv)
<1>1. worker[self].pc # "idle" /\ v \in VMs /\ cfg[v] \in CfgObjects
  BY SelfKeeps, WorkerTyped DEF DeleteCfg, Records, Typed, TypeOK
<1>2. x \in CfgObjects /\ x.exists = cfg[v].exists
  BY <1>1 DEF CfgObjects
<1>3. y \in CfgObjects /\ NicsOf(y.spec) = {}
  BY <1>1, GoneBlank DEF Records
<1>4. /\ Done(self) /\ UNCHANGED cfgIndexer
      /\ \/ (cfg[v].exists /\ WriteCfg(v, x)) \/ WriteCfg(v, y) \/ UNCHANGED <<cfg, cfgWatch>>
  BY DEF DeleteCfg, Return
<1> HIDE DEF x, y
<1>5. CASE cfg[v].exists /\ WriteCfg(v, x)
  BY <1>1, <1>2, <1>4, <1>5, SelfKeeps, WriteRecords
<1>6. CASE WriteCfg(v, y)
  BY <1>1, <1>3, <1>4, <1>6, SelfKeeps, WriteRecords
<1>7. CASE UNCHANGED <<cfg, cfgWatch>>
  BY <1>1, <1>4, <1>7, SelfKeeps, ReturnRecords
<1> QED BY <1>4, <1>5, <1>6, <1>7

LEMMA VmWorkerRecords ==
    ASSUME Records, Typed', VmWorker
    PROVE  Records'
BY SelfKeeps, TakeItemRecords, SyncVmRecords, CheckMacsRecords, CheckRefsRecords,
   CreateCfgRecords, UpdateCfgRecords, DeleteCfgRecords, CleanupRecords,
   ReleaseIPRecords, PoolGetRecords, PoolPutRecords DEF VmWorker

-----------------------------------------------------------------------------
(* The start, the informers and the environment.                           *)

\* A step outside the workers, which may queue an event.
LEMMA OutsideRecords ==
    ASSUME Records, Typed', UNCHANGED worker,
           \A c \in Controllers : worker[c].pc # "idle" => queue'[c].busy = queue[c].busy,
           Grown, Sending, Receiving, Blank'
    PROVE  Records'
<1>1. \A c \in Controllers : Reading(c)
  BY DEF Reading
<1>2. Copied'
  BY <1>1, CopiesStay DEF Records
<1> QED BY <1>2 DEF Records, Faithful, Kind, Keeping

LEMMA StartRecords ==
    ASSUME Records, Typed', Start \/ CountError
    PROVE  Records'
<1>1. /\ UNCHANGED <<cfg, cfgWatch, worker>>
      /\ cfgIndexer' = cfgIndexer \/ cfgIndexer' = cfg
  BY DEF Start, StartPools, CountVmNetCfgs, StartCfgListener, StartVmListener, CountError, api, events
<1>2. \A c \in Controllers : worker[c].pc # "idle" => queue'[c] = queue[c]
  BY DEF Start, StartPools, CountVmNetCfgs, StartCfgListener, StartVmListener, CountError,
         Records, Typed, Quiet, Working, Watched, Controllers
<1>3. Grown /\ Sending /\ Receiving
  BY <1>1 DEF Grown, Sending, Receiving
<1>4. Blank'
  BY <1>1 DEF Records, Blank
<1> QED BY <1>1, <1>2, <1>3, <1>4, OutsideRecords

LEMMA DeliverCfgRecords ==
    ASSUME Records, Typed', NEW v \in VMs, DeliverCfg(v)
    PROVE  Records'
<1> DEFINE new == Head(cfgWatch[v])
           e   == [key |-> v, action |-> ActionOf(cfgIndexer[v], new)]
<1>1. cfgWatch \in [VMs -> Seq(CfgObjects)] /\ cfgWatch[v] # <<>> /\ cfgIndexer \in [VMs -> CfgObjects]
  BY DEF DeliverCfg, Records, Typed, TypeOK
<1>2. /\ UNCHANGED <<cfg, worker>>
      /\ cfgWatch' = [cfgWatch EXCEPT ![v] = Tail(cfgWatch[v])]
      /\ cfgIndexer' = [cfgIndexer EXCEPT ![v] = new]
  BY DEF DeliverCfg, api, boot
<1>3. new = cfgWatch[v][1] /\ 1 \in DOMAIN cfgWatch[v]
  BY <1>1, HeadTailProperties, LenProperties
<1>4. \A i \in DOMAIN Tail(cfgWatch[v]) :
        i + 1 \in DOMAIN cfgWatch[v] /\ Tail(cfgWatch[v])[i] = cfgWatch[v][i + 1]
  BY <1>1, HeadTailProperties, LenProperties
<1>5. Grown /\ Sending /\ Receiving
  BY <1>1, <1>2, <1>3, <1>4 DEF Grown, Sending, Receiving
<1>6. e \in Event
  BY DEF Event, Actions, ActionOf
<1>7. \A c \in Controllers : queue'[c].busy = queue[c].busy
  BY <1>6, EnqueuedTyped DEF DeliverCfg, Records, Typed, Working, Controllers
<1>8. Blank'
  BY <1>2 DEF Records, Blank
<1> QED BY <1>2, <1>5, <1>7, <1>8, OutsideRecords

LEMMA DeliverVmRecords ==
    ASSUME Records, Typed', NEW v \in VMs, DeliverVm(v)
    PROVE  Records'
<1> DEFINE e == [key |-> v, action |-> ActionOf(vmIndexer[v], Head(vmWatch[v]))]
<1>1. UNCHANGED <<cfg, cfgWatch, cfgIndexer, worker>>
  BY DEF DeliverVm, api, boot
<1>2. e \in Event
  BY DEF Event, Actions, ActionOf
<1>3. \A c \in Controllers : queue'[c].busy = queue[c].busy
  BY <1>2, EnqueuedTyped DEF DeliverVm, Records, Typed, Working, Controllers
<1>4. Grown /\ Sending /\ Receiving
  BY <1>1 DEF Grown, Sending, Receiving
<1>5. Blank'
  BY <1>1 DEF Records, Blank
<1> QED BY <1>1, <1>3, <1>4, <1>5, OutsideRecords

\* What a user writes when it creates a vmnetcfg.
Written(v, nics, a) ==
    [cfg[v] EXCEPT !.exists = TRUE, !.ctime = clock,
                   !.spec = [n \in Nics |-> IF n \in nics THEN a ELSE NoNic]]

LEMMA WrittenTyped ==
    ASSUME Typed, NEW v \in VMs, NEW nics, NEW a \in IPs \cup {NoIP}
    PROVE  Written(v, nics, a) \in CfgObjects /\ Written(v, nics, a).exists
<1>1. [n \in Nics |-> IF n \in nics THEN a ELSE NoNic] \in Specs
  BY DEF Specs
<1>2. cfg[v] \in CfgObjects /\ clock \in Nat
  BY DEF Typed, TypeOK
<1> QED BY <1>1, <1>2 DEF Written, CfgObjects

\* ... and when it edits an address.
LEMMA EditedTyped ==
    ASSUME Typed, NEW v \in VMs, cfg[v].exists, NEW n \in NicsOf(cfg[v].spec), NEW a \in IPs
    PROVE  /\ [cfg[v] EXCEPT !.spec[n] = a] \in CfgObjects
           /\ [cfg[v] EXCEPT !.spec[n] = a].exists
<1>1. cfg[v] \in CfgObjects
  BY DEF Typed, TypeOK
<1>2. [cfg[v].spec EXCEPT ![n] = a] \in Specs
  BY <1>1 DEF CfgObjects, Specs
<1> QED BY <1>1, <1>2 DEF CfgObjects

LEMMA UsersRecords ==
    ASSUME Records, Typed', NEW v \in VMs,
           CreateVm(v) \/ UpdateVm(v) \/ DeleteVm(v) \/ EditIP(v) \/ CreateManually(v)
    PROVE  Records'
<1>1. CASE CreateVm(v) \/ UpdateVm(v) \/ DeleteVm(v)
  <2>1. UNCHANGED <<cfg, cfgWatch, cfgIndexer, queue, worker>>
    BY <1>1 DEF CreateVm, UpdateVm, DeleteVm, WriteVm
  <2>2. Grown /\ Sending /\ Receiving
    BY <2>1 DEF Grown, Sending, Receiving
  <2>3. Blank'
    BY <2>1 DEF Records, Blank
  <2> QED BY <2>1, <2>2, <2>3, OutsideRecords
<1>2. CASE EditIP(v) \/ CreateManually(v)
  <2>1. PICK obj \in CfgObjects : obj.exists /\ WriteCfg(v, obj)
    <3>1. CASE EditIP(v)
      BY <3>1, EditedTyped DEF EditIP, Records
    <3>2. CASE CreateManually(v)
      <4>1. PICK nics \in Shapes[v], a \in IPs \cup {NoIP} : WriteCfg(v, Written(v, nics, a))
        BY <3>2 DEF CreateManually, Written
      <4> QED BY <4>1, WrittenTyped DEF Records
    <3> QED BY <1>2, <3>1, <3>2
  <2>2. /\ Grown /\ Sending /\ \A u \in VMs \ {v} : cfg'[u] = cfg[u]
        /\ cfg'[v].exists
    BY <2>1, WriteCfgGrows DEF Records
  <2>3. UNCHANGED <<cfgIndexer, queue, worker>>
    BY <1>2 DEF EditIP, CreateManually
  <2>4. Receiving
    BY <2>3 DEF Receiving
  <2>5. Blank'
    BY <2>2 DEF Records, Blank
  <2> QED BY <2>2, <2>3, <2>4, <2>5, OutsideRecords
<1> QED BY <1>1, <1>2

LEMMA PoolsRecords ==
    ASSUME Records, Typed', NEW n \in Networks, UncachePool(n) \/ CachePool(n)
    PROVE  Records'
<1>1. UNCHANGED <<cfg, cfgWatch, cfgIndexer, queue, worker>>
  BY DEF UncachePool, CachePool, api, events
<1>2. Grown /\ Sending /\ Receiving
  BY <1>1 DEF Grown, Sending, Receiving
<1>3. Blank'
  BY <1>1 DEF Records, Blank
<1> QED BY <1>1, <1>2, <1>3, OutsideRecords

LEMMA ApiErrorRecords ==
    ASSUME Records, Typed', NEW c \in Controllers, ApiError(c)
    PROVE  Records'
<1> DEFINE w == worker[c]
           x == [w EXCEPT !.pc = w.next, !.fresh = FALSE, !.used = 0, !.retry = 0]
<1>1. w.pc # "idle" /\ w \in Workers /\ Kind(c, w)
  BY WorkerTyped DEF ApiError, Records, Faithful
<1>2. UNCHANGED <<cfg, cfgWatch>> /\ Receiving
  BY OverwrittenStatus DEF ApiError, api, events, Receiving, Records
<1>3. CASE w.pc \in {"poolget", "poolput"} /\ Step(c, x) /\ UNCHANGED queue
  <2>1. x.obj = w.obj /\ x.spec = w.spec /\ x.pc # "addlease"
    BY <1>1, NextNotGrant DEF Workers
  <2> HIDE DEF x
  <2>2. Kind(c, x)
    BY <1>1, <1>3, <2>1, SameKind
  <2>3. worker'[c] = x /\ \A d \in Controllers \ {c} : worker'[d] = worker[d]
    BY <1>3 DEF Step, Records, Typed, Working
  <2>4. \A d \in Controllers : Reading(d)
    BY <1>1, <1>3, <2>1, <2>3 DEF Reading
  <2>5. Grown /\ Sending /\ Receiving
    BY <1>2 DEF Grown, Sending, Receiving
  <2>6. Copied'
    BY <2>4, <2>5, CopiesStay DEF Records
  <2>7. Faithful'
    BY <2>2, <2>3 DEF Records, Faithful, Kind, Keeping
  <2> QED BY <1>2, <2>6, <2>7 DEF Records, Blank
<1>4. CASE Done(c)
  <2>1. Grown /\ Sending /\ Blank'
    BY <1>2 DEF Grown, Sending, Records, Blank
  <2> QED BY <1>1, <1>2, <1>4, <2>1, EndRecords
<1> QED BY <1>3, <1>4 DEF ApiError, Return

LEMMA CrashRecords ==
    ASSUME Records, Typed', Crash
    PROVE  Records'
<1>1. UNCHANGED cfg /\ \A v \in VMs : cfgWatch'[v] = <<>> /\ cfgIndexer'[v] = GoneCfg(0)
  BY DEF Crash, api
<1>2. \A c \in Controllers : worker'[c] = IdleWorker
  BY DEF Crash
<1>3. Grown /\ Sending /\ Receiving /\ \A c \in Controllers : Reading(c)
  BY <1>1, <1>2, IdleTyped DEF Grown, Sending, Receiving, Reading
<1>4. Copied'
  BY <1>3, CopiesStay DEF Records
<1>5. Faithful'
  BY <1>2, IdleKeeps DEF Faithful, Kind, Keeping
<1> QED BY <1>1, <1>4, <1>5 DEF Records, Blank

LEMMA InitRecords ==
    ASSUME Init
    PROVE  Records
<1>1. Typed
  BY InitTyped
<1>2. /\ \A v \in VMs : /\ cfg[v] = GoneCfg(0) /\ cfgIndexer[v] = GoneCfg(0)
                        /\ DOMAIN cfgWatch[v] = {}
      /\ \A c \in Controllers : worker[c] = IdleWorker
  BY DEF Init
<1>3. GoneCfg(0).rv = 0 /\ GoneCfg(0).spec = EmptySpec
  BY DEF GoneCfg
<1>4. Copied
  BY <1>2, <1>3, IdleTyped DEF Copied, Copy
<1>5. Blank
  BY <1>2, <1>3, EmptyTyped DEF Blank
<1>6. Faithful
  BY <1>2, IdleKeeps DEF Faithful
<1> QED BY <1>1, <1>4, <1>5, <1>6 DEF Records

LEMMA NextRecords == Records /\ [Next]_vars => Records'
<1> SUFFICES ASSUME Records, [Next]_vars PROVE Records'
    OBVIOUS
<1>0. Typed'
  BY NextTyped DEF Records
<1>1. CASE Start \/ CfgWorker \/ VmWorker
  BY <1>0, <1>1, StartRecords, CfgWorkerRecords, VmWorkerRecords
<1>2. CASE Informers
  BY <1>0, <1>2, DeliverCfgRecords, DeliverVmRecords DEF Informers
<1>3. CASE Pools
  BY <1>0, <1>3, PoolsRecords DEF Pools
<1>4. CASE Users
  BY <1>0, <1>4, UsersRecords DEF Users
<1>5. CASE Faults
  BY <1>0, <1>5, CrashRecords, StartRecords, ApiErrorRecords DEF Faults
<1>6. CASE Tick \/ UNCHANGED vars
  <2>1. UNCHANGED <<cfg, cfgWatch, cfgIndexer, queue, worker>>
    BY <1>6 DEF Tick, vars, api, events, boot
  <2>2. Grown /\ Sending /\ Receiving
    BY <2>1 DEF Grown, Sending, Receiving
  <2>3. Blank'
    BY <2>1 DEF Records, Blank
  <2> QED BY <1>0, <2>1, <2>2, <2>3, OutsideRecords
<1> QED BY <1>1, <1>2, <1>3, <1>4, <1>5, <1>6 DEF Next

-----------------------------------------------------------------------------
(* No step replaces a recorded address.                                    *)

Untouched ==
    \A v \in VMs : \A n \in NicsOf(cfg[v].spec) :
      cfg[v].spec[n] \in IPs /\ cfg'[v].exists /\ cfg'[v].spec[n] # NoNic
      => cfg'[v].spec[n] = cfg[v].spec[n]

LEMMA WriteUntouched ==
    ASSUME Typed, NEW v \in VMs, NEW obj \in CfgObjects, WriteCfg(v, obj),
           obj.exists => \A n \in NicsOf(cfg[v].spec) :
                           cfg[v].spec[n] \in IPs => obj.spec[n] \in {cfg[v].spec[n], NoNic}
    PROVE  Untouched
BY WriteCfgGrows DEF Untouched

LEMMA CurrentUntouched ==
    ASSUME Records, NEW c \in Controllers, worker[c].pc # "idle", Keeping(worker[c]),
           Current(KeyOf(c), worker[c].obj),
           WriteCfg(KeyOf(c), [cfg[KeyOf(c)] EXCEPT !.spec = worker[c].spec])
    PROVE  Untouched
<1> DEFINE w   == worker[c]
           v   == KeyOf(c)
           new == [cfg[v] EXCEPT !.spec = w.spec]
<1>1. v \in VMs /\ w.spec \in Specs /\ cfg[v] \in CfgObjects
  BY WorkerTyped DEF Records, Typed, TypeOK, Workers
<1>2. new \in CfgObjects /\ new.spec = w.spec
  BY <1>1 DEF CfgObjects
<1>3. w.obj.spec = cfg[v].spec
  BY DEF Current, Records, Copied, Copy
<1> QED BY <1>1, <1>2, <1>3, WriteUntouched DEF Keeping, NicsOf, Records

LEMMA NextUntouched ==
    ASSUME Records, [Next]_vars
    PROVE  Untouched \/ \E v \in VMs : EditIP(v)
<1>1. CASE UNCHANGED cfg
  BY <1>1 DEF Untouched
<1>2. \A v \in VMs : cfg[v] \in CfgObjects
  BY DEF Records, Typed, TypeOK
<1>3. CASE UpdateSpec
  BY <1>1, <1>3, MeKeeps, CurrentUntouched DEF UpdateSpec
<1>4. CASE UpdateStatus
  <2>1. KeyOf(me) \in VMs /\ worker[me].status \in Statuses
    BY <1>4, MeKeeps, WorkerTyped DEF UpdateStatus, Records, Workers
  <2>2. /\ [cfg[KeyOf(me)] EXCEPT !.status = worker[me].status] \in CfgObjects
        /\ [cfg[KeyOf(me)] EXCEPT !.status = worker[me].status].spec = cfg[KeyOf(me)].spec
    BY <1>2, <2>1 DEF CfgObjects
  <2> QED BY <1>1, <1>4, <2>1, <2>2, WriteUntouched DEF UpdateStatus, Records
<1>5. CASE RemoveFinalizer
  <2>1. KeyOf(me) \in VMs
    BY <1>5, MeKeeps, WorkerTyped DEF RemoveFinalizer, Records
  <2> QED BY <1>1, <1>5, <2>1, GoneBlank, WriteUntouched DEF RemoveFinalizer, Records
<1>6. CASE CreateCfg
  <2> DEFINE v   == KeyOf(self)
             obj == [cfg[v] EXCEPT !.exists = TRUE, !.spec = worker[self].spec,
                                   !.fin = TRUE, !.ctime = clock]
  <2>1. v \in VMs /\ worker[self].spec \in Specs /\ clock \in Nat
    BY <1>6, SelfKeeps, WorkerTyped DEF CreateCfg, Records, Typed, TypeOK, Workers
  <2>2. obj \in CfgObjects
    BY <1>2, <2>1 DEF CfgObjects
  <2>3. \/ UNCHANGED cfg
        \/ ~cfg[v].exists /\ WriteCfg(v, obj)
    BY <1>6 DEF CreateCfg
  <2> HIDE DEF obj
  <2> QED BY <1>1, <2>1, <2>2, <2>3, WriteUntouched DEF Records, Blank
<1>7. CASE UpdateCfg
  BY <1>1, <1>7, SelfKeeps, CurrentUntouched DEF UpdateCfg
<1>8. CASE DeleteCfg
  <2> DEFINE v == KeyOf(self)
  <2>1. v \in VMs
    BY <1>8, SelfKeeps, WorkerTyped DEF DeleteCfg, Records
  <2>2. [cfg[v] EXCEPT !.del = TRUE] \in CfgObjects /\ [cfg[v] EXCEPT !.del = TRUE].spec = cfg[v].spec
    BY <1>2, <2>1 DEF CfgObjects
  <2> QED BY <1>1, <1>8, <2>1, <2>2, GoneBlank, WriteUntouched DEF DeleteCfg, Records
<1>9. CASE Users
  <2>1. PICK v \in VMs : CreateVm(v) \/ UpdateVm(v) \/ DeleteVm(v) \/ EditIP(v) \/ CreateManually(v)
    BY <1>9 DEF Users
  <2>2. CASE EditIP(v)
    BY <2>2
  <2>3. CASE CreateManually(v)
    <3>1. PICK nics \in Shapes[v], a \in IPs \cup {NoIP} : WriteCfg(v, Written(v, nics, a))
      BY <2>3 DEF CreateManually, Written
    <3> QED BY <2>3, <3>1, WrittenTyped, WriteUntouched DEF CreateManually, Records, Blank
  <2>4. CASE CreateVm(v) \/ UpdateVm(v) \/ DeleteVm(v)
    BY <1>1, <2>4 DEF CreateVm, UpdateVm, DeleteVm, WriteVm
  <2> QED BY <2>1, <2>2, <2>3, <2>4
<1>10. CASE \/ Start \/ Informers \/ Pools \/ Faults \/ Tick \/ UNCHANGED vars
  BY <1>1, <1>10
  DEF Start, StartPools, CountVmNetCfgs, StartCfgListener, StartVmListener, Informers,
      DeliverCfg, DeliverVm, Pools, UncachePool, CachePool, Faults, Crash, CountError,
      ApiError, Tick, vars, api
<1>11. CASE TakeItem(me) \/ TakeItem(self) \/ Cleanup(me) \/ Cleanup(self) \/ ReleaseIP(me)
            \/ ReleaseIP(self) \/ UpdateIPPoolStatusGet(me) \/ UpdateIPPoolStatusGet(self)
            \/ UpdateIPPoolStatusPut(me) \/ UpdateIPPoolStatusPut(self)
  BY <1>1, <1>11
  DEF TakeItem, Cleanup, ReleaseIP, UpdateIPPoolStatusGet, UpdateIPPoolStatusPut, api
<1>12. CASE \/ SyncCfg \/ CheckNic \/ NoPool \/ CheckOwner \/ CheckHeld \/ GetIP
            \/ RegisterLease \/ NicsDone \/ CleanupDone \/ SyncVm \/ CheckMacs \/ CheckRefs
  BY <1>1, <1>12
  DEF SyncCfg, CheckNic, NoPool, CheckOwner, CheckHeld, GetIP, RegisterLease, NicsDone,
      CleanupDone, SyncVm, CheckMacs, CheckRefs, api
<1> QED BY <1>3, <1>4, <1>5, <1>6, <1>7, <1>8, <1>9, <1>10, <1>11, <1>12
    DEF Next, CfgWorker, VmWorker

\* A user who may not edit addresses never does.
LEMMA NeverEdited ==
    ASSUME TypeOK, budget["edit"] = 0, [Next]_vars
    PROVE  budget'["edit"] = 0 /\ ~ \E v \in VMs : EditIP(v)
BY NeverSpent DEF BudgetKeys, EditIP

\* No step of the helper replaces or removes a recorded address of an interface
\* that stays, whatever copies the two controllers write from, whichever
\* crashes, failures and edits there are, and however many machines and
\* networks: only a user who edits the address does.
THEOREM HelperLeavesRecords ==
    Spec => [][Untouched \/ \E v \in VMs : EditIP(v)]_vars
<1>1. Records /\ [Next]_vars => [Untouched \/ \E v \in VMs : EditIP(v)]_vars
  BY NextUntouched
<1> QED BY <1>1, InitRecords, NextRecords, PTL DEF Spec

\* As long as no user edits an address, no step at all replaces one: the
\* property the runs check, for the runs without edits.
THEOREM StaticRecordHolds ==
    ASSUME Budget["edit"] = 0
    PROVE  Spec => StaticRecord
<1> DEFINE Unedited == budget["edit"] = 0
<1>1. Init => Records /\ Unedited
  BY InitRecords DEF Init
<1>2. Records /\ Unedited /\ [Next]_vars => Unedited' /\ [Untouched]_cfg
  BY NextUntouched, NeverEdited DEF Records, Typed
<1>3. Records /\ Unedited /\ [Next]_vars => (Records /\ Unedited)'
  BY <1>2, NextRecords
<1> QED BY <1>1, <1>2, <1>3, PTL DEF Spec, StaticRecord, Untouched

-----------------------------------------------------------------------------
(* The status of the pools.  While the interfaces of a virtual machine do  *)
(* not change, only the vmnetcfg worker frees and allocates.               *)

\* A virtual machine has one list of interfaces.
FixedShapes == \A v \in VMs : \A s, t \in Shapes[v] : s = t

\* No request fails, and no pool is reloaded.
Sure == budget["fail"] = 0 /\ budget["reload"] = 0

Fits(x, v)   == x.exists => x.nics \in Shapes[v]
Shaped(x, v) == x.exists => NicsOf(x.spec) \in Shapes[v]

\* The virtual machines, the vmnetcfgs and all copies have that list.
Fitting ==
    \A v \in VMs :
      /\ Fits(vm[v], v) /\ Fits(vmIndexer[v], v)
      /\ \A i \in DOMAIN vmWatch[v] : Fits(vmWatch[v][i], v)
      /\ Shaped(cfg[v], v) /\ Shaped(cfgIndexer[v], v)
      /\ \A i \in DOMAIN cfgWatch[v] : Shaped(cfgWatch[v][i], v)

\* The vmnetcfg worker writes it, and visits nothing else.
Whole(w, v) ==
    w.pc \notin {"idle", "sync"} =>
      /\ NicsOf(w.spec) \in Shapes[v] /\ w.todo \subseteq NicsOf(w.spec)
      /\ AtNic(w) => w.nic \in NicsOf(w.spec)

\* The VirtualMachine worker finds it, and has nothing to clean up.
Alike(w, v) ==
    /\ w.pc \in {"idle", "sync", "macs", "refs", "create", "delete"}
    /\ w.pc \in {"macs", "refs", "create"} => Shaped(w.obj, v) /\ NicsOf(w.spec) \in Shapes[v]

Removing(w) == w.pc \in {"poolget", "poolput"} /\ w.op = "delete"

\* What the status of a pool lacks is what the vmnetcfg worker is about to add
\* to it or to remove from it.
Told(net) ==
    LET w == worker[me]
    IN  IF (Granted(w) \/ Removing(w)) /\ NetOf(w.nic) = net
        THEN /\ Granted(w) => w.ip \in ipam[net] /\ pool[net].alloc = ipam[net] \ {w.ip}
             /\ Removing(w) => pool[net].alloc \ {w.ip} = ipam[net]
             /\ w.pc = "poolput" => w.fresh /\ w.used = Cardinality(ipam[net])
        ELSE pool[net].alloc = ipam[net] /\ pool[net].used = Cardinality(ipam[net])

Telling == phase # "down" => \A net \in Configured : cache[net].on /\ Told(net)

Books ==
    /\ Typed /\ Sure /\ Fitting /\ Telling
    /\ Whole(worker[me], KeyOf(me)) /\ Alike(worker[self], KeyOf(self))

LEMMA SureStays ==
    ASSUME Typed, Sure, [Next]_vars
    PROVE  /\ Sure'
           /\ \A n \in Networks : ~UncachePool(n)
           /\ ~CountError /\ \A c \in Controllers : ~ApiError(c)
BY NeverSpent DEF Sure, Typed, BudgetKeys, UncachePool, CountError, ApiError

\* What the invariant says of the objects is not about anything else.
LEMMA FittingStays ==
    ASSUME Fitting, UNCHANGED <<vm, cfg, events>>
    PROVE  Fitting'
BY DEF Fitting, events

\* A step of which the status of a pool need not tell.
Plain(w) == ~Granted(w) /\ ~Removing(w)

LEMMA PlainTold ==
    ASSUME Telling, UNCHANGED <<pool, ipam, cache, phase>>,
           Plain(worker[me]), Plain(worker'[me])
    PROVE  Telling'
BY DEF Telling, Told, Plain

\* A step of the vmnetcfg worker.
LEMMA MeBooks ==
    ASSUME Books, Typed', Sure', Fitting', Telling', worker[me].pc # "idle",
           NEW w, Step(me, w), UNCHANGED queue, Whole(w, KeyOf(me))
    PROVE  Books'
<1>1. worker'[me] = w /\ worker'[self] = worker[self]
  BY TwoWorkers DEF Step, Books, Typed, Working
<1> QED BY <1>1 DEF Books, KeyOf

\* ... of the VirtualMachine worker.
LEMMA SelfBooks ==
    ASSUME Books, Typed', Sure', NEW w, Step(self, w), Alike(w, KeyOf(self)),
           UNCHANGED <<vm, cfg, events, queue, pool, ipam, cache, phase>>
    PROVE  Books'
<1>1. worker'[self] = w /\ worker'[me] = worker[me]
  BY TwoWorkers DEF Step, Books, Typed, Working
<1>2. Fitting'
  BY FittingStays DEF Books
<1>3. Telling'
  BY <1>1 DEF Books, Telling, Told
<1> QED BY <1>1, <1>2, <1>3 DEF Books, KeyOf

\* The end of a handler.
LEMMA DoneBooks ==
    ASSUME Books, Typed', Sure', Fitting', NEW c \in Controllers, worker[c].pc # "idle", Done(c),
           UNCHANGED <<pool, ipam, cache, phase>>, c = me => Plain(worker[me])
    PROVE  Books'
<1>1. /\ worker'[c] = IdleWorker /\ IdleWorker.pc = "idle"
      /\ \A d \in Controllers \ {c} : worker'[d] = worker[d] /\ queue'[d] = queue[d]
  BY IdleTyped DEF Done, Step, Books, Typed, Working
<1>2. CASE c = me
  <2>1. Plain(IdleWorker)
    BY IdleTyped DEF Plain, Granted, Removing
  <2>2. Telling'
    BY <1>1, <1>2, <2>1, PlainTold DEF Books
  <2> QED BY <1>1, <1>2, <2>2, TwoWorkers DEF Books, Whole, KeyOf
<1>3. CASE c = self
  <2>1. Telling'
    BY <1>1, <1>3, TwoWorkers DEF Books, Telling, Told
  <2> QED BY <1>1, <1>3, <2>1, TwoWorkers DEF Books, Alike, KeyOf
<1> QED BY <1>2, <1>3, TwoWorkers

LEMMA TakeItemBooks ==
    ASSUME Books, Typed', Sure', NEW c \in Controllers, TakeItem(c)
    PROVE  Books'
<1> DEFINE w == [IdleWorker EXCEPT !.pc = "sync"]
<1>1. /\ worker'[c] = w /\ w.pc = "sync" /\ worker[c].pc = "idle"
      /\ \A d \in Controllers \ {c} : worker'[d] = worker[d] /\ queue'[d] = queue[d]
  BY DEF TakeItem, Step, Books, Typed, Working, IdleWorker
<1> HIDE DEF w
<1>2. UNCHANGED <<vm, cfg, events, pool, ipam, cache, phase>>
  BY DEF TakeItem, api, memory, boot
<1>3. Fitting'
  BY <1>2, FittingStays DEF Books
<1>4. CASE c = me
  <2>1. Telling'
    BY <1>1, <1>2, <1>4, PlainTold DEF Books, Plain, Granted, Removing
  <2> QED BY <1>1, <1>3, <1>4, <2>1, TwoWorkers DEF Books, Whole, KeyOf
<1>5. CASE c = self
  <2>1. Telling'
    BY <1>1, <1>2, <1>5, TwoWorkers DEF Books, Telling, Told
  <2> QED BY <1>1, <1>3, <1>5, <2>1, TwoWorkers DEF Books, Alike, KeyOf
<1> QED BY <1>4, <1>5, TwoWorkers

LEMMA MeAt ==
    ASSUME Books
    PROVE  /\ me \in Controllers /\ worker[me] \in Workers /\ worker[me] \in Handlers
           /\ worker[me].pc # "idle" => KeyOf(me) \in VMs
           /\ Whole(worker[me], KeyOf(me))
BY WorkerTyped, TwoWorkers DEF Books

-----------------------------------------------------------------------------
(* The pool status, for the vmnetcfg worker.                               *)

\* A local step that the status need not tell of.
LEMMA MeLocal ==
    ASSUME Books, Typed', Sure', UNCHANGED <<vm, cfg, events, queue, pool, ipam, cache, phase>>,
           NEW w, Step(me, w), worker[me].pc # "idle", Plain(worker[me]), Plain(w),
           Whole(w, KeyOf(me))
    PROVE  Books'
<1>1. worker'[me] = w
  BY TwoWorkers DEF Step, Books, Typed, Working
<1> QED BY <1>1, FittingStays, PlainTold, MeBooks DEF Books

\* The end of the handler without a write.
LEMMA MeLeaves ==
    ASSUME Books, Typed', Sure', UNCHANGED <<vm, cfg, events, pool, ipam, cache, phase>>,
           worker[me].pc # "idle", Plain(worker[me]), Done(me)
    PROVE  Books'
BY FittingStays, DoneBooks, TwoWorkers DEF Books

\* A handler that goes on with the same list.
LEMMA SameWhole ==
    ASSUME NEW v, NEW w, NEW x, Whole(w, v), w.pc \notin {"idle", "sync"}, x.spec = w.spec,
           x.todo \subseteq w.todo, AtNic(x) => x.nic \in w.todo \/ (AtNic(w) /\ x.nic = w.nic)
    PROVE  Whole(x, v)
BY DEF Whole

LEMMA InErrorWhole ==
    ASSUME NEW w \in Workers, NEW n \in Nics, NEW v, Whole(w, v), w.pc \notin {"idle", "sync"}
    PROVE  Whole(InError(w, n), v) /\ Plain(InError(w, n))
<1>1. /\ InError(w, n).spec = w.spec /\ InError(w, n).todo = w.todo
      /\ InError(w, n).nic = NoNic /\ InError(w, n).pc = "nic"
  BY DEF InError, Workers
<1> QED BY <1>1, SameWhole DEF AtNic, Plain, Granted, Removing

LEMMA SyncCfgBooks ==
    ASSUME Books, Typed', Sure', SyncCfg
    PROVE  Books'
<1> DEFINE e   == queue[me].busy
           obj == cfgIndexer[e.key]
           w   == [IdleWorker EXCEPT !.pc = IF obj.del THEN "clean" ELSE "nic",
                     !.obj = obj, !.todo = NicsOf(obj.spec), !.spec = obj.spec]
<1>1. /\ UNCHANGED <<vm, cfg, events, pool, ipam, cache, phase>>
      /\ worker[me].pc = "sync" /\ worker[me].pc # "idle" /\ Plain(worker[me]) /\ e.key \in VMs
  BY MeAt DEF SyncCfg, api, memory, boot, Plain, Granted, Removing, KeyOf
<1>2. /\ w.pc \in {"clean", "nic"} /\ w.spec = obj.spec /\ w.todo = NicsOf(obj.spec)
  BY DEF IdleWorker
<1>3. CASE Done(me)
  BY <1>1, <1>3, MeLeaves
<1>4. CASE obj.exists /\ Step(me, w) /\ UNCHANGED queue
  <2>1. NicsOf(obj.spec) \in Shapes[KeyOf(me)]
    BY <1>1, <1>4 DEF Books, Fitting, Shaped, KeyOf
  <2> HIDE DEF w
  <2>2. Whole(w, KeyOf(me)) /\ Plain(w)
    BY <1>2, <2>1 DEF Whole, AtNic, Plain, Granted, Removing
  <2> QED BY <1>1, <1>4, <2>2, MeLocal
<1> QED BY <1>3, <1>4 DEF SyncCfg

LEMMA CheckNicBooks ==
    ASSUME Books, Typed', Sure', CheckNic
    PROVE  Books'
<1> DEFINE w    == worker[me]
           v(n) == [w EXCEPT !.todo = @ \ {n}, !.nic = n]
           x(n) == [v(n) EXCEPT !.pc = "owner"]
           y(n) == [v(n) EXCEPT !.pc = "getip"]
<1>1. /\ UNCHANGED <<vm, cfg, events, queue, pool, ipam, cache, phase>>
      /\ w.pc = "nic" /\ w.pc # "idle" /\ w \in Workers /\ Plain(w) /\ Whole(w, KeyOf(me))
  BY MeAt DEF CheckNic, api, memory, boot, Plain, Granted, Removing
<1>2. PICK n \in w.todo : Step(me, InError(v(n), n)) \/ Step(me, x(n)) \/ Step(me, y(n))
  BY DEF CheckNic
<1>3. /\ n \in Nics /\ v(n) \in Workers /\ v(n).spec = w.spec /\ v(n).pc = "nic"
      /\ v(n).todo = w.todo \ {n} /\ v(n).nic = n
  BY <1>1 DEF Workers
<1> HIDE DEF v
<1>4. /\ x(n).spec = w.spec /\ x(n).todo = w.todo \ {n} /\ x(n).nic = n /\ x(n).pc = "owner"
      /\ y(n).spec = w.spec /\ y(n).todo = w.todo \ {n} /\ y(n).nic = n /\ y(n).pc = "getip"
  BY <1>3 DEF Workers
<1> HIDE DEF x, y
<1>5. /\ Whole(v(n), KeyOf(me)) /\ Whole(x(n), KeyOf(me)) /\ Whole(y(n), KeyOf(me))
      /\ Plain(x(n)) /\ Plain(y(n))
  BY <1>1, <1>3, <1>4, SameWhole DEF AtNic, Plain, Granted, Removing
<1> QED BY <1>1, <1>2, <1>3, <1>5, InErrorWhole, MeLocal

LEMMA CheckOwnerBooks ==
    ASSUME Books, Typed', Sure', CheckOwner
    PROVE  Books'
<1> DEFINE w == worker[me]
           x == [w EXCEPT !.pc = "held"]
<1>1. /\ UNCHANGED <<vm, cfg, events, queue, pool, ipam, cache, phase>> /\ w.nic \in Nics
      /\ w.pc = "owner" /\ w.pc # "idle" /\ w \in Workers /\ Plain(w) /\ Whole(w, KeyOf(me))
  BY MeAt DEF CheckOwner, api, memory, boot, Plain, Granted, Removing, Handlers, AtNic
<1>2. Step(me, InError(w, w.nic)) \/ Step(me, x)
  BY DEF CheckOwner
<1>3. x.spec = w.spec /\ x.todo = w.todo /\ x.nic = w.nic /\ x.pc = "held"
  BY <1>1 DEF Workers
<1> HIDE DEF x
<1>4. Whole(x, KeyOf(me)) /\ Plain(x)
  BY <1>1, <1>3, SameWhole DEF AtNic, Plain, Granted, Removing
<1> QED BY <1>1, <1>2, <1>4, InErrorWhole, MeLocal

LEMMA CheckHeldBooks ==
    ASSUME Books, Typed', Sure', CheckHeld
    PROVE  Books'
<1> DEFINE w == worker[me]
           n == w.nic
           l == leases[MacOf(n)]
           x == [w EXCEPT !.pc = "getip"]
           y == [w EXCEPT !.pc = "nic", !.nic = NoNic, !.status[n] = w.obj.status[n]]
           z == [w EXCEPT !.pc = "release", !.ip = l.ip, !.next = "getip"]
<1>1. /\ UNCHANGED <<vm, cfg, events, queue, pool, ipam, cache, phase>>
      /\ w.pc = "held" /\ w.pc # "idle" /\ w \in Workers /\ Plain(w) /\ Whole(w, KeyOf(me))
  BY MeAt DEF CheckHeld, api, memory, boot, Plain, Granted, Removing
<1>2. Step(me, x) \/ Step(me, y) \/ Step(me, z)
  BY DEF CheckHeld
<1>3. /\ x.spec = w.spec /\ x.todo = w.todo /\ x.nic = w.nic /\ x.pc = "getip"
      /\ y.spec = w.spec /\ y.todo = w.todo /\ y.pc = "nic"
      /\ z.spec = w.spec /\ z.todo = w.todo /\ z.nic = w.nic /\ z.pc = "release"
  BY <1>1 DEF Workers
<1> HIDE DEF x, y, z
<1>4. /\ Whole(x, KeyOf(me)) /\ Whole(y, KeyOf(me)) /\ Whole(z, KeyOf(me))
      /\ Plain(x) /\ Plain(y) /\ Plain(z)
  BY <1>1, <1>3, SameWhole DEF AtNic, Plain, Granted, Removing
<1> QED BY <1>1, <1>2, <1>4, MeLocal

LEMMA NicsDoneBooks ==
    ASSUME Books, Typed', Sure', NicsDone
    PROVE  Books'
<1> DEFINE w == worker[me]
           x == [w EXCEPT !.pc = "update"]
           y == [w EXCEPT !.pc = "ustatus"]
<1>1. /\ UNCHANGED <<vm, cfg, events, pool, ipam, cache, phase>>
      /\ w.pc = "nic" /\ w.pc # "idle" /\ w \in Workers /\ Plain(w) /\ Whole(w, KeyOf(me))
  BY MeAt DEF NicsDone, api, memory, boot, Plain, Granted, Removing
<1>2. /\ x.spec = w.spec /\ x.todo = w.todo /\ x.pc = "update"
      /\ y.spec = w.spec /\ y.todo = w.todo /\ y.pc = "ustatus"
  BY <1>1 DEF Workers
<1>3. (Step(me, x) /\ UNCHANGED queue) \/ (Step(me, y) /\ UNCHANGED queue) \/ Done(me)
  BY DEF NicsDone, Return
<1> HIDE DEF x, y
<1>4. Whole(x, KeyOf(me)) /\ Whole(y, KeyOf(me)) /\ Plain(x) /\ Plain(y)
  BY <1>1, <1>2, SameWhole DEF AtNic, Plain, Granted, Removing
<1> QED BY <1>1, <1>3, <1>4, MeLocal, MeLeaves

LEMMA CleanupBooks ==
    ASSUME Books, Typed', Sure', Cleanup(me) \/ CleanupDone
    PROVE  Books'
<1> DEFINE w    == worker[me]
           x(n) == [w EXCEPT !.pc = "release", !.nic = n, !.todo = @ \ {n},
                             !.ip = w.obj.spec[n], !.next = "clean"]
           y    == [w EXCEPT !.pc = "unfinal"]
<1>1. /\ UNCHANGED <<vm, cfg, events, queue, pool, ipam, cache, phase>>
      /\ w.pc = "clean" /\ w.pc # "idle" /\ w \in Workers /\ Plain(w) /\ Whole(w, KeyOf(me))
  BY MeAt DEF Cleanup, CleanupDone, api, memory, boot, Plain, Granted, Removing
<1>2. (\E n \in w.todo : Step(me, x(n))) \/ Step(me, y)
  BY DEF Cleanup, CleanupDone
<1>3. /\ y.spec = w.spec /\ y.todo = w.todo /\ y.pc = "unfinal"
      /\ \A n : x(n).spec = w.spec /\ x(n).todo = w.todo \ {n} /\ x(n).nic = n /\ x(n).pc = "release"
  BY <1>1 DEF Workers
<1> HIDE DEF x, y
<1>4. /\ Whole(y, KeyOf(me)) /\ Plain(y)
      /\ \A n \in w.todo : Whole(x(n), KeyOf(me)) /\ Plain(x(n))
  BY <1>1, <1>3, SameWhole DEF AtNic, Plain, Granted, Removing
<1> QED BY <1>1, <1>2, <1>4, MeLocal

LEMMA GetIPBooks ==
    ASSUME Books, Typed', Sure', GetIP
    PROVE  Books'
<1> DEFINE w == worker[me]
           n == w.nic
           x(a) == [w EXCEPT !.pc = "addlease", !.ip = a]
           z == [w EXCEPT !.ip = NoIP]
<1>1. /\ UNCHANGED <<vm, cfg, events, queue, pool, cache, phase>> /\ n \in Nics
      /\ w.pc = "getip" /\ w.pc # "idle" /\ w \in Workers /\ Plain(w) /\ Whole(w, KeyOf(me))
  BY MeAt DEF GetIP, api, boot, Plain, Granted, Removing, Handlers, AtNic
<1>2. CASE UNCHANGED ipam /\ Step(me, InError(z, n))
  <2>1. z \in Workers /\ z.spec = w.spec /\ z.todo = w.todo /\ z.pc = "getip" /\ z.nic = n
    BY <1>1 DEF Workers
  <2> HIDE DEF z
  <2>2. Whole(z, KeyOf(me))
    BY <1>1, <2>1, SameWhole DEF AtNic
  <2> QED BY <1>1, <1>2, <2>1, <2>2, InErrorWhole, MeLocal
<1>3. ASSUME NEW a \in IPs, a \notin ipam[NetOf(n)], Step(me, x(a)),
             ipam' = [ipam EXCEPT ![NetOf(n)] = @ \cup {a}]
      PROVE  Books'
  <2>1. /\ x(a).spec = w.spec /\ x(a).todo = w.todo /\ x(a).nic = n /\ x(a).ip = a
        /\ x(a).pc = "addlease"
    BY <1>1 DEF Workers
  <2>2. worker'[me] = x(a)
    BY <1>3, TwoWorkers DEF Step, Books, Typed, Working
  <2> HIDE DEF x
  <2>3. Whole(x(a), KeyOf(me)) /\ Granted(x(a)) /\ ~Removing(x(a))
    BY <1>1, <2>1, SameWhole DEF AtNic, Granted, Removing
  <2>4. /\ ipam'[NetOf(n)] = ipam[NetOf(n)] \cup {a}
        /\ \A net \in Networks : net # NetOf(n) => ipam'[net] = ipam[net]
    BY <1>1, <1>3, NicFields DEF Books, Typed, TypeOK
  <2>5. ASSUME NEW net \in Configured, cache[net].on, pool[net].alloc = ipam[net],
               pool[net].used = Cardinality(ipam[net])
        PROVE  Told(net)'
    BY <1>1, <1>3, <2>1, <2>2, <2>3, <2>4, <2>5, ConstantsAssumption DEF Told
  <2>6. Telling'
    BY <1>1, <2>5 DEF Books, Telling, Told, Plain
  <2> QED BY <1>1, <1>3, <2>3, <2>6, FittingStays, MeBooks DEF Books
<1> QED BY <1>2, <1>3 DEF GetIP, Grantable

LEMMA RegisterLeaseBooks ==
    ASSUME Books, Typed', Sure', RegisterLease
    PROVE  Books'
<1> DEFINE w == worker[me]
           n == w.nic
           x == [w EXCEPT !.pc = "poolget", !.op = "add", !.next = "nic", !.retry = 0,
                          !.change = TRUE, !.spec = Recorded(w), !.status[n] = "OK"]
<1>1. /\ UNCHANGED <<vm, cfg, events, queue, pool, ipam, cache, phase>> /\ n \in Nics
      /\ w.pc = "addlease" /\ w.pc # "idle" /\ w \in Workers /\ Granted(w)
      /\ Whole(w, KeyOf(me)) /\ w.ip \in IPs /\ w.spec \in Specs
  BY MeAt DEF RegisterLease, api, boot, Granted, Handlers, AtNic, Workers
<1>2. /\ x.spec = Recorded(w) /\ x.todo = w.todo /\ x.nic = n /\ x.ip = w.ip
      /\ x.pc = "poolget" /\ x.op = "add"
  BY <1>1 DEF Workers
<1>3. Step(me, x)
  BY DEF RegisterLease
<1> HIDE DEF x
<1>4. worker'[me] = x
  BY <1>3, TwoWorkers DEF Step, Books, Typed, Working
<1>5. n \in NicsOf(w.spec) /\ NicsOf(Recorded(w)) = NicsOf(w.spec)
  <2>1. \A k \in Nics : Recorded(w)[k] = IF k = n THEN w.ip ELSE w.spec[k]
    BY <1>1 DEF Recorded, Specs
  <2>2. n \in NicsOf(w.spec)
    BY <1>1 DEF Whole, AtNic
  <2> QED BY <1>1, <2>1, <2>2, ConstantsAssumption DEF NicsOf
<1>6. Whole(x, KeyOf(me)) /\ Granted(x) /\ ~Removing(x)
  BY <1>1, <1>2, <1>5 DEF Whole, AtNic, Granted, Removing
<1>7. \A net \in Configured : Told(net) => Told(net)'
  BY <1>1, <1>2, <1>4, <1>6 DEF Told, Removing
<1>8. Telling'
  BY <1>1, <1>7 DEF Books, Telling
<1> QED BY <1>1, <1>3, <1>6, <1>8, FittingStays, MeBooks DEF Books

LEMMA ReleaseIPBooks ==
    ASSUME Books, Typed', Sure', ReleaseIP(me)
    PROVE  Books'
<1> DEFINE w   == worker[me]
           net == NetOf(w.nic)
           x   == [w EXCEPT !.pc = "poolget", !.op = "delete", !.retry = 0]
           y   == [w EXCEPT !.pc = w.next]
<1>1. /\ UNCHANGED <<vm, cfg, events, queue, pool, cache, phase>> /\ w.nic \in Nics
      /\ w.pc = "release" /\ w.pc # "idle" /\ w \in Workers /\ Plain(w) /\ Whole(w, KeyOf(me))
  BY MeAt DEF ReleaseIP, api, boot, Plain, Granted, Removing, Handlers, AtNic
<1>2. /\ x.spec = w.spec /\ x.todo = w.todo /\ x.nic = w.nic /\ x.ip = w.ip /\ x.pc = "poolget"
      /\ x.op = "delete"
      /\ y.spec = w.spec /\ y.todo = w.todo /\ y.nic = w.nic /\ y.pc \in {"nic", "getip", "clean"}
  BY <1>1 DEF Workers
<1>3. /\ Step(me, IF cache[net].on THEN x ELSE y)
      /\ ipam' = [ipam EXCEPT ![net] = @ \ {w.ip}]
  BY DEF ReleaseIP, Released
<1> HIDE DEF x, y
<1>4. /\ ipam'[net] = ipam[net] \ {w.ip}
      /\ \A k \in Networks : k # net => ipam'[k] = ipam[k]
  BY <1>1, <1>3, NicFields DEF Books, Typed, TypeOK
<1>5. /\ Whole(x, KeyOf(me)) /\ Removing(x) /\ ~Granted(x)
      /\ Whole(y, KeyOf(me)) /\ Plain(y)
  BY <1>1, <1>2, SameWhole DEF AtNic, Granted, Removing, Plain
<1>6. worker'[me] = IF cache[net].on THEN x ELSE y
  BY <1>3, TwoWorkers DEF Step, Books, Typed, Working
<1>7. ASSUME NEW k \in Configured, cache[k].on, pool[k].alloc = ipam[k],
             pool[k].used = Cardinality(ipam[k])
      PROVE  Told(k)'
  <2>1. CASE k = net
    BY <1>1, <1>2, <1>4, <1>5, <1>6, <1>7, <2>1 DEF Told
  <2>2. CASE k # net
    <3>1. ipam'[k] = ipam[k] /\ pool' = pool
      BY <1>1, <1>4, <2>2, ConstantsAssumption
    <3> QED BY <1>2, <1>5, <1>6, <1>7, <2>2, <3>1 DEF Told, Plain
  <2> QED BY <2>1, <2>2
<1>8. Telling'
  BY <1>1, <1>7 DEF Books, Telling, Told, Plain
<1> QED BY <1>1, <1>3, <1>5, <1>8, FittingStays, MeBooks DEF Books

\* The list has the address only if the table has it no more.
LEMMA PoolGetBooks ==
    ASSUME Books, Typed', Sure', UpdateIPPoolStatusGet(me)
    PROVE  Books'
<1> DEFINE w   == worker[me]
           net == NetOf(w.nic)
           x   == [w EXCEPT !.pc = "poolput", !.fresh = TRUE, !.used = Cardinality(ipam[net])]
           y   == [w EXCEPT !.pc = w.next]
<1>1. /\ UNCHANGED <<vm, cfg, events, queue, pool, ipam, cache, phase>> /\ w.nic \in Nics
      /\ w.pc = "poolget" /\ w.pc # "idle" /\ w \in Workers /\ Whole(w, KeyOf(me))
      /\ w.op \in {"add", "delete"}
  BY MeAt DEF UpdateIPPoolStatusGet, api, memory, boot, Handlers, AtNic, Workers
<1>2. /\ x.spec = w.spec /\ x.todo = w.todo /\ x.nic = w.nic /\ x.ip = w.ip /\ x.pc = "poolput"
      /\ x.op = w.op /\ x.fresh = TRUE /\ x.used = Cardinality(ipam[net])
      /\ y.spec = w.spec /\ y.todo = w.todo /\ y.nic = w.nic /\ y.pc \in {"nic", "getip", "clean"}
  BY <1>1 DEF Workers
<1>3. /\ Step(me, x) \/ Step(me, y)
      /\ Step(me, y) \/ ~(w.op = "add" /\ w.ip \in pool[net].alloc)
      /\ Step(me, x) \/ (w.op = "add" /\ w.ip \in pool[net].alloc)
  BY DEF UpdateIPPoolStatusGet
<1> HIDE DEF x, y
<1>4. Whole(x, KeyOf(me)) /\ Whole(y, KeyOf(me)) /\ Plain(y)
  BY <1>1, <1>2, SameWhole DEF AtNic, Granted, Removing, Plain
<1>5. CASE Step(me, x)
  <2>1. worker'[me] = x
    BY <1>5, TwoWorkers DEF Step, Books, Typed, Working
  <2>2. \A k \in Configured : Told(k) => Told(k)'
    BY <1>1, <1>2, <2>1 DEF Told, Granted, Removing
  <2>3. Telling'
    BY <1>1, <2>2 DEF Books, Telling
  <2> QED BY <1>1, <1>4, <1>5, <2>3, FittingStays, MeBooks DEF Books
<1>6. CASE Step(me, y) /\ w.op = "add" /\ w.ip \in pool[net].alloc
  <2>1. worker'[me] = y
    BY <1>6, TwoWorkers DEF Step, Books, Typed, Working
  <2>2. ASSUME NEW k \in Configured, Told(k)
        PROVE  Told(k)'
    <3>1. k # net
      BY <1>1, <1>6, <2>2 DEF Told, Granted
    <3> QED BY <1>1, <1>4, <2>1, <2>2, <3>1 DEF Told, Plain
  <2>3. Telling'
    BY <1>1, <2>2 DEF Books, Telling
  <2> QED BY <1>1, <1>4, <1>6, <2>3, FittingStays, MeBooks DEF Books
<1> QED BY <1>3, <1>5, <1>6

LEMMA PoolPutBooks ==
    ASSUME Books, Typed', Sure', UpdateIPPoolStatusPut(me)
    PROVE  Books'
<1> DEFINE w   == worker[me]
           net == NetOf(w.nic)
           ret == [w EXCEPT !.pc = w.next, !.fresh = FALSE, !.used = 0, !.retry = 0]
           y   == [w EXCEPT !.pc = "poolget", !.used = 0, !.retry = @ + 1]
           stale(d) == [worker[d] EXCEPT !.fresh = @ /\ NetOf(worker[d].nic) # net]
           all == [d \in Controllers |-> IF d = me THEN ret ELSE stale(d)]
<1>1. /\ UNCHANGED <<vm, cfg, events, queue, ipam, cache, phase>> /\ w.nic \in Nics
      /\ w.pc = "poolput" /\ w.pc # "idle" /\ w \in Workers /\ Whole(w, KeyOf(me))
      /\ w.op \in {"add", "delete"}
  BY MeAt DEF UpdateIPPoolStatusPut, memory, boot, Handlers, AtNic, Workers
<1>2. /\ ret.spec = w.spec /\ ret.todo = w.todo /\ ret.nic = w.nic
      /\ ret.pc \in {"nic", "getip", "clean"}
      /\ y.spec = w.spec /\ y.todo = w.todo /\ y.nic = w.nic /\ y.ip = w.ip /\ y.op = w.op
      /\ y.pc = "poolget"
      /\ all[me] = ret
      /\ \A d \in Controllers : d # me =>
           all[d].pc = worker[d].pc /\ all[d].obj = worker[d].obj /\ all[d].spec = worker[d].spec
  BY <1>1, WorkerTyped, TwoWorkers DEF Workers, Books
<1>3. \/ w.fresh /\ pool' = [pool EXCEPT ![net] = Reported(@, w)] /\ worker' = all
      \/ ~w.fresh /\ pool' = pool /\ (Step(me, ret) \/ Step(me, y))
  BY DEF UpdateIPPoolStatusPut
<1> HIDE DEF ret, y, all
<1>4. Whole(ret, KeyOf(me)) /\ Plain(ret) /\ Whole(y, KeyOf(me))
  BY <1>1, <1>2, SameWhole DEF AtNic, Granted, Removing, Plain
<1>5. net \in Networks /\ pool[net] \in PoolStatuses
  BY <1>1, NicFields DEF Books, Typed, TypeOK
<1>6. CASE w.fresh /\ pool' = [pool EXCEPT ![net] = Reported(@, w)] /\ worker' = all
  <2>1. /\ pool'[net].alloc = Listed(pool[net].alloc, w.op, w.ip) /\ pool'[net].used = w.used
        /\ \A k \in Networks : k # net => pool'[k] = pool[k]
    BY <1>5, <1>6 DEF Reported, PoolStatuses, Books, Typed, TypeOK
  <2>2. ASSUME NEW k \in Configured, Told(k)
        PROVE  Told(k)'
    <3>1. k \in Networks
      BY ConstantsAssumption
    <3>2. CASE k # net
      BY <1>1, <1>2, <1>4, <1>6, <2>1, <2>2, <3>1, <3>2 DEF Told, Plain
    <3>3. CASE k = net
      <4>1. /\ w.op = "add" => w.ip \in ipam[net] /\ pool[net].alloc = ipam[net] \ {w.ip}
            /\ w.op = "delete" => pool[net].alloc \ {w.ip} = ipam[net]
            /\ w.used = Cardinality(ipam[net])
        BY <1>1, <2>2, <3>3 DEF Told, Granted, Removing
      <4>2. Listed(pool[net].alloc, w.op, w.ip) = ipam[net]
        BY <1>1, <4>1 DEF Listed
      <4> QED BY <1>1, <1>2, <1>4, <1>6, <2>1, <3>3, <4>1, <4>2 DEF Told, Plain
    <3> QED BY <3>2, <3>3
  <2>3. Telling'
    BY <1>1, <2>2 DEF Books, Telling
  <2>4. Fitting'
    BY <1>1, FittingStays DEF Books
  <2>5. Whole(worker'[me], KeyOf(me)') /\ Alike(worker'[self], KeyOf(self)')
    BY <1>1, <1>2, <1>4, <1>6, TwoWorkers DEF Books, Alike, KeyOf
  <2> QED BY <2>3, <2>4, <2>5 DEF Books
<1>7. CASE ~w.fresh /\ pool' = pool /\ (Step(me, ret) \/ Step(me, y))
  <2>1. worker'[me] \in {ret, y}
    BY <1>7, TwoWorkers DEF Step, Books, Typed, Working
  <2>2. ASSUME NEW k \in Configured, Told(k)
        PROVE  Told(k)'
    <3>1. k # net
      BY <1>1, <1>7, <2>2 DEF Told, Granted, Removing
    <3> QED BY <1>1, <1>2, <1>4, <1>7, <2>1, <2>2, <3>1 DEF Told, Plain
  <2>3. Telling'
    BY <1>1, <2>2 DEF Books, Telling
  <2> QED BY <1>1, <1>4, <1>7, <2>3, FittingStays, MeBooks DEF Books
<1> QED BY <1>3, <1>6, <1>7

-----------------------------------------------------------------------------
(* The pool status, for the writes of vmnetcfgs.                           *)

\* A write of the list the copies have.
LEMMA WriteFitting ==
    ASSUME Typed, Fitting, NEW v \in VMs, NEW obj \in CfgObjects, WriteCfg(v, obj),
           Shaped(obj, v), UNCHANGED <<vm, vmWatch, vmIndexer>>,
           \A u \in VMs : Shaped(cfgIndexer'[u], u)
    PROVE  Fitting'
<1>1. /\ Sending /\ \A u \in VMs \ {v} : cfg'[u] = cfg[u]
      /\ cfg'[v].spec = obj.spec /\ cfg'[v].exists = obj.exists
  BY WriteCfgGrows
<1>2. \A u \in VMs : Shaped(cfg'[u], u)
  BY <1>1 DEF Fitting, Shaped
<1>3. \A u \in VMs : \A i \in DOMAIN cfgWatch'[u] : Shaped(cfgWatch'[u][i], u)
  BY <1>1, <1>2 DEF Fitting, Sending
<1> QED BY <1>2, <1>3 DEF Fitting

\* The end of a handler that writes, or does not.
LEMMA WriteBooks ==
    ASSUME Books, Typed', Sure', NEW c \in Controllers, worker[c].pc # "idle", Done(c),
           c = me => Plain(worker[me]), NEW obj \in CfgObjects, Shaped(obj, KeyOf(c)),
           WriteCfg(KeyOf(c), obj) \/ UNCHANGED <<cfg, cfgWatch>>,
           UNCHANGED <<vm, vmWatch, vmIndexer, pool, ipam, cache, phase>>,
           \A u \in VMs : Shaped(cfgIndexer'[u], u)
    PROVE  Books'
<1>1. KeyOf(c) \in VMs
  BY WorkerTyped DEF Books
<1>2. CASE UNCHANGED <<cfg, cfgWatch>>
  <2>1. Fitting'
    BY <1>2 DEF Books, Fitting
  <2> QED BY <2>1, DoneBooks
<1>3. CASE WriteCfg(KeyOf(c), obj)
  BY <1>1, <1>3, WriteFitting, DoneBooks DEF Books
<1> QED BY <1>2, <1>3

LEMMA UpdateSpecBooks ==
    ASSUME Books, Typed', Sure', UpdateSpec
    PROVE  Books'
<1> DEFINE w   == worker[me]
           v   == KeyOf(me)
           new == [cfg[v] EXCEPT !.spec = w.spec]
           x   == [w EXCEPT !.pc = "ustatus", !.obj = Changed(v, new)]
<1>1. /\ UNCHANGED <<vm, vmWatch, vmIndexer, cfgIndexer, pool, ipam, cache, phase>>
      /\ w.pc = "update" /\ w.pc # "idle" /\ w \in Workers /\ Plain(w) /\ Whole(w, v)
      /\ v \in VMs /\ w.spec \in Specs /\ cfg[v] \in CfgObjects
  BY MeAt DEF UpdateSpec, memory, Plain, Granted, Removing, Workers, Books, Typed, TypeOK
<1>2. CASE Done(me) /\ UNCHANGED <<cfg, cfgWatch>>
  BY <1>1, <1>2, MeLeaves DEF events
<1>3. CASE WriteCfg(v, new) /\ Step(me, x) /\ UNCHANGED queue
  <2>1. new \in CfgObjects /\ Shaped(new, v)
    BY <1>1 DEF CfgObjects, Shaped, Whole
  <2>2. Fitting'
    BY <1>1, <1>3, <2>1, WriteFitting DEF Books, Fitting
  <2>3. x.spec = w.spec /\ x.todo = w.todo /\ x.nic = w.nic /\ x.pc = "ustatus"
    BY <1>1 DEF Workers
  <2> HIDE DEF x
  <2>4. Whole(x, v) /\ Plain(x) /\ worker'[me] = x
    BY <1>1, <1>3, <2>3, SameWhole, TwoWorkers
    DEF AtNic, Plain, Granted, Removing, Step, Books, Typed, Working
  <2> QED BY <1>1, <1>3, <2>2, <2>4, PlainTold, MeBooks DEF Books
<1> QED BY <1>2, <1>3 DEF UpdateSpec, Return

LEMMA UpdateStatusBooks ==
    ASSUME Books, Typed', Sure', UpdateStatus
    PROVE  Books'
<1> DEFINE w   == worker[me]
           v   == KeyOf(me)
           new == [cfg[v] EXCEPT !.status = w.status]
<1>1. /\ UNCHANGED <<vm, vmWatch, vmIndexer, pool, ipam, cache, phase>>
      /\ w.pc = "ustatus" /\ w.pc # "idle" /\ Plain(w) /\ v \in VMs /\ w.status \in Statuses
      /\ cfg[v] \in CfgObjects /\ Done(me)
      /\ WriteCfg(v, new) \/ UNCHANGED <<cfg, cfgWatch>>
  BY MeAt DEF UpdateStatus, memory, Return, Plain, Granted, Removing, Workers, Books, Typed, TypeOK
<1>2. new \in CfgObjects /\ Shaped(new, v)
  BY <1>1 DEF CfgObjects, Shaped, Books, Fitting
<1>3. \A u \in VMs : Shaped(cfgIndexer'[u], u)
  BY OverwrittenStatus DEF UpdateStatus, Books, Fitting, Shaped
<1> QED BY <1>1, <1>2, <1>3, TwoWorkers, WriteBooks

LEMMA GoneShaped ==
    ASSUME Typed, NEW v \in VMs
    PROVE  GoneCfg(cfg[v].rv) \in CfgObjects /\ Shaped(GoneCfg(cfg[v].rv), v)
BY GoneBlank DEF Shaped

LEMMA RemoveFinalizerBooks ==
    ASSUME Books, Typed', Sure', RemoveFinalizer
    PROVE  Books'
<1> DEFINE v == KeyOf(me)
<1>1. /\ UNCHANGED <<vm, vmWatch, vmIndexer, cfgIndexer, pool, ipam, cache, phase>>
      /\ worker[me].pc = "unfinal" /\ worker[me].pc # "idle" /\ Plain(worker[me])
      /\ v \in VMs /\ Done(me)
      /\ WriteCfg(v, GoneCfg(cfg[v].rv)) \/ UNCHANGED <<cfg, cfgWatch>>
  BY MeAt DEF RemoveFinalizer, memory, Return, Plain, Granted, Removing
<1> QED BY <1>1, GoneShaped, TwoWorkers, WriteBooks DEF Books, Fitting

LEMMA CfgWorkerBooks ==
    ASSUME Books, Typed', Sure', CfgWorker
    PROVE  Books'
<1>1. CASE NoPool
  <2>1. /\ worker[me].pc = "nic" /\ Done(me)
        /\ UNCHANGED <<vm, cfg, events, pool, ipam, cache, phase>>
    BY <1>1 DEF NoPool, Return, api, memory
  <2> QED BY <2>1, MeLeaves DEF Plain, Granted, Removing
<1> QED BY <1>1, TwoWorkers, TakeItemBooks, SyncCfgBooks, CheckNicBooks, CheckOwnerBooks,
           CheckHeldBooks, GetIPBooks, RegisterLeaseBooks, NicsDoneBooks, UpdateSpecBooks,
           UpdateStatusBooks, CleanupBooks, RemoveFinalizerBooks, ReleaseIPBooks,
           PoolGetBooks, PoolPutBooks
    DEF CfgWorker

LEMMA SelfAt ==
    ASSUME Books
    PROVE  /\ self \in Controllers /\ worker[self] \in Workers
           /\ worker[self].pc # "idle" => KeyOf(self) \in VMs
           /\ Alike(worker[self], KeyOf(self))
BY WorkerTyped, TwoWorkers DEF Books

LEMMA SyncVmBooks ==
    ASSUME Books, Typed', Sure', SyncVm
    PROVE  Books'
<1> DEFINE e == queue[self].busy
           o == vmIndexer[e.key]
           sp == [n \in Nics |-> IF n \in o.nics THEN NoIP ELSE NoNic]
           x == [IdleWorker EXCEPT !.pc = "delete"]
           y == [IdleWorker EXCEPT !.pc = "macs", !.obj = cfg[e.key], !.spec = sp]
<1>1. /\ UNCHANGED <<vm, cfg, events, pool, ipam, cache, phase>> /\ worker[self].pc # "idle"
      /\ e.key \in VMs /\ o.nics \subseteq Nics
  BY SelfAt DEF SyncVm, api, memory, boot, KeyOf, Books, Typed, TypeOK, VmObjects
<1>2. x.pc = "delete" /\ y.pc = "macs" /\ y.obj = cfg[e.key] /\ y.spec = sp
  BY DEF IdleWorker
<1>3. NicsOf(sp) = o.nics
  BY <1>1, ConstantsAssumption DEF NicsOf
<1>4. \/ Done(self)
      \/ Step(self, x) /\ UNCHANGED queue
      \/ o.exists /\ Step(self, y) /\ UNCHANGED queue
  <2>1. CASE e.action = "delete"
    BY <2>1 DEF SyncVm
  <2>2. CASE e.action # "delete"
    BY <2>2 DEF SyncVm
  <2> QED BY <2>1, <2>2
<1> HIDE DEF x, y, sp
<1>5. Alike(x, KeyOf(self))
  BY <1>2 DEF Alike
<1>6. o.exists => Alike(y, KeyOf(self))
  BY <1>1, <1>2, <1>3 DEF Alike, Books, Fitting, Fits, KeyOf
<1>7. Fitting'
  BY <1>1, FittingStays DEF Books
<1>8. CASE Done(self)
  BY <1>1, <1>7, <1>8, TwoWorkers, DoneBooks
<1>9. CASE ~Done(self)
  BY <1>1, <1>4, <1>5, <1>6, <1>9, SelfBooks
<1> QED BY <1>8, <1>9

LEMMA CheckMacsBooks ==
    ASSUME Books, Typed', Sure', CheckMacs
    PROVE  Books'
<1> DEFINE w == worker[self]
           x == [w EXCEPT !.pc = "refs", !.todo = {n \in NicsOf(w.spec) : CheckLease(MacOf(n))}]
<1>1. /\ UNCHANGED <<vm, cfg, events, queue, pool, ipam, cache, phase>> /\ Step(self, x)
  BY DEF CheckMacs, api, memory, boot
<1>2. x.pc = "refs" /\ x.obj = w.obj /\ x.spec = w.spec /\ w.pc = "macs"
  BY SelfAt DEF CheckMacs, Workers
<1> HIDE DEF x
<1>3. Alike(x, KeyOf(self))
  BY <1>2, SelfAt DEF Alike
<1> QED BY <1>1, <1>3, SelfBooks

\* The vmnetcfg has the list of its virtual machine: nothing to update.
LEMMA CheckRefsBooks ==
    ASSUME FixedShapes, Books, Typed', Sure', CheckRefs
    PROVE  Books'
<1> DEFINE w    == worker[self]
           spec == NetworkConfigs(w)
           x    == [w EXCEPT !.pc = IF w.obj.exists THEN "clean" ELSE "create",
                             !.todo = Dropped(w.obj.spec, spec), !.spec = spec]
<1>1. /\ UNCHANGED <<vm, cfg, events, pool, ipam, cache, phase>> /\ w \in Workers
      /\ w.pc = "refs" /\ w.pc # "idle" /\ KeyOf(self) \in VMs
      /\ Shaped(w.obj, KeyOf(self)) /\ NicsOf(w.spec) \in Shapes[KeyOf(self)]
  BY SelfAt DEF CheckRefs, api, memory, Alike
<1>2. NicsOf(spec) = NicsOf(w.spec)
  BY ConstantsAssumption DEF NicsOf, NetworkConfigs
<1>3. w.obj.exists => spec = w.obj.spec
  <2>1. w.obj.spec \in Specs /\ w.spec \in Specs
    BY <1>1 DEF Workers, CfgObjects
  <2>2. w.obj.exists => NicsOf(w.obj.spec) = NicsOf(w.spec)
    BY <1>1 DEF Shaped, FixedShapes
  <2> QED BY <2>1, <2>2 DEF NetworkConfigs, NicsOf, Specs
<1>4. Done(self) \/ (~w.obj.exists /\ Step(self, x) /\ UNCHANGED queue)
  BY <1>3 DEF CheckRefs, Return
<1>5. x.pc = IF w.obj.exists THEN "clean" ELSE "create"
  BY <1>1 DEF Workers
<1>6. x.obj = w.obj /\ x.spec = spec
  BY <1>1 DEF Workers
<1> HIDE DEF x, spec
<1>7. ~w.obj.exists => Alike(x, KeyOf(self))
  BY <1>1, <1>2, <1>5, <1>6 DEF Alike
<1>8. Fitting'
  BY <1>1, FittingStays DEF Books
<1> QED BY <1>1, <1>4, <1>7, <1>8, TwoWorkers, SelfBooks, DoneBooks

LEMMA WriteVmCfgBooks ==
    ASSUME Books, Typed', Sure', CreateCfg \/ DeleteCfg
    PROVE  Books'
<1> DEFINE w == worker[self]
           v == KeyOf(self)
           x == [cfg[v] EXCEPT !.exists = TRUE, !.spec = w.spec, !.fin = TRUE, !.ctime = clock]
           y == [cfg[v] EXCEPT !.del = TRUE]
           z == GoneCfg(cfg[v].rv)
<1>1. /\ UNCHANGED <<vm, vmWatch, vmIndexer, cfgIndexer, pool, ipam, cache, phase>>
      /\ w.pc # "idle" /\ v \in VMs /\ w.spec \in Specs /\ cfg[v] \in CfgObjects /\ clock \in Nat
      /\ Done(self) /\ (CreateCfg => NicsOf(w.spec) \in Shapes[v])
  BY SelfAt DEF CreateCfg, DeleteCfg, memory, Return, Workers, Alike, Books, Typed, TypeOK
<1>2. /\ x \in CfgObjects /\ (CreateCfg => Shaped(x, v))
      /\ y \in CfgObjects /\ Shaped(y, v)
      /\ z \in CfgObjects /\ Shaped(z, v)
  BY <1>1, GoneShaped DEF CfgObjects, Shaped, Books, Fitting
<1>3. /\ CreateCfg => WriteCfg(v, x) \/ UNCHANGED <<cfg, cfgWatch>>
      /\ DeleteCfg => WriteCfg(v, y) \/ WriteCfg(v, z) \/ UNCHANGED <<cfg, cfgWatch>>
  BY DEF CreateCfg, DeleteCfg
<1> HIDE DEF x, y, z
<1> QED BY <1>1, <1>2, <1>3, TwoWorkers, WriteBooks DEF Books, Fitting

LEMMA VmWorkerBooks ==
    ASSUME FixedShapes, Books, Typed', Sure', VmWorker
    PROVE  Books'
<1>1. ~ \/ UpdateCfg \/ Cleanup(self) \/ ReleaseIP(self)
        \/ UpdateIPPoolStatusGet(self) \/ UpdateIPPoolStatusPut(self)
  BY SelfAt
  DEF Alike, UpdateCfg, Cleanup, ReleaseIP, UpdateIPPoolStatusGet, UpdateIPPoolStatusPut
<1> QED BY <1>1, TwoWorkers, TakeItemBooks, SyncVmBooks, CheckMacsBooks, CheckRefsBooks,
           WriteVmCfgBooks DEF VmWorker

-----------------------------------------------------------------------------
(* The pool status, for the steps of the others.                           *)

\* A step of somebody else.
LEMMA OthersBooks ==
    ASSUME Books, Typed', Sure', Fitting', UNCHANGED <<worker, pool, ipam>>,
           \A net \in Configured : cache[net].on => cache'[net].on,
           phase # "down" \/ UNCHANGED phase,
           \A c \in Controllers : worker[c].pc # "idle" => queue'[c].busy = queue[c].busy
    PROVE  Books'
<1>1. Telling'
  BY DEF Books, Telling, Told
<1>2. Whole(worker[me], KeyOf(me)')
  BY TwoWorkers DEF Books, Whole, KeyOf
<1>3. Alike(worker[self], KeyOf(self)')
  BY TwoWorkers DEF Books, Alike, KeyOf
<1> QED BY <1>1, <1>2, <1>3 DEF Books

LEMMA StartBooks ==
    ASSUME Books, Typed', Sure', Start
    PROVE  Books'
<1>1. CASE StartPools
  <2>1. /\ UNCHANGED <<vm, cfg, events, queue, worker>> /\ phase = "down"
        /\ \A n \in Configured :
             /\ pool'[n].alloc = Excluded /\ pool'[n].used = Cardinality(Excluded)
             /\ ipam'[n] = Excluded /\ cache'[n].on
    BY <1>1, ConstantsAssumption DEF StartPools, ResetStatus
  <2>2. worker[me].pc = "idle"
    BY <2>1, TwoWorkers DEF Books, Typed, Quiet, Watched
  <2>3. Telling'
    BY <2>1, <2>2 DEF Telling, Told, Granted, Removing
  <2> QED BY <2>1, <2>3, FittingStays DEF Books, KeyOf
<1>2. CASE CountVmNetCfgs
  BY <1>2, FittingStays, OthersBooks DEF CountVmNetCfgs, api, memory, Books
<1>3. CASE StartCfgListener
  <2>1. /\ UNCHANGED <<vm, cfg, pool, vmWatch, cfgWatch, vmIndexer, worker, ipam, cache>>
        /\ cfgIndexer' = cfg /\ phase = "counted" /\ queue'[self] = queue[self]
    BY <1>3, TwoWorkers DEF StartCfgListener, api, memory, Books, Typed, Working
  <2>2. worker[me].pc = "idle"
    BY <2>1, TwoWorkers DEF Books, Typed, Quiet, Watched
  <2>3. Fitting'
    BY <2>1 DEF Books, Fitting
  <2> QED BY <2>1, <2>2, <2>3, TwoWorkers, OthersBooks
<1>4. CASE StartVmListener
  <2>1. /\ UNCHANGED <<vm, cfg, pool, vmWatch, cfgWatch, cfgIndexer, worker, ipam, cache>>
        /\ vmIndexer' = vm /\ phase = "init" /\ queue'[me] = queue[me]
    BY <1>4, TwoWorkers DEF StartVmListener, api, memory, Books, Typed, Working
  <2>2. worker[self].pc = "idle"
    BY <2>1, TwoWorkers DEF Books, Typed, Quiet
  <2>3. Fitting'
    BY <2>1 DEF Books, Fitting
  <2> QED BY <2>1, <2>2, <2>3, TwoWorkers, OthersBooks
<1> QED BY <1>1, <1>2, <1>3, <1>4 DEF Start

LEMMA DeliverCfgBooks ==
    ASSUME Books, Typed', Sure', NEW v \in VMs, DeliverCfg(v)
    PROVE  Books'
<1> DEFINE new == Head(cfgWatch[v])
           e   == [key |-> v, action |-> ActionOf(cfgIndexer[v], new)]
<1>1. cfgWatch \in [VMs -> Seq(CfgObjects)] /\ cfgWatch[v] # <<>> /\ cfgIndexer \in [VMs -> CfgObjects]
  BY DEF DeliverCfg, Books, Typed, TypeOK
<1>2. /\ UNCHANGED <<vm, cfg, vmWatch, vmIndexer, worker, pool, ipam, cache, phase>>
      /\ cfgWatch' = [cfgWatch EXCEPT ![v] = Tail(cfgWatch[v])]
      /\ cfgIndexer' = [cfgIndexer EXCEPT ![v] = new]
  BY DEF DeliverCfg, api, memory, boot
<1>3. /\ new = cfgWatch[v][1] /\ 1 \in DOMAIN cfgWatch[v]
      /\ \A i \in DOMAIN Tail(cfgWatch[v]) :
           i + 1 \in DOMAIN cfgWatch[v] /\ Tail(cfgWatch[v])[i] = cfgWatch[v][i + 1]
  BY <1>1, FirstAndRest
<1>4. Fitting'
  BY <1>1, <1>2, <1>3 DEF Books, Fitting
<1>5. e \in Event
  BY DEF Event, Actions, ActionOf
<1>6. \A c \in Controllers : queue'[c].busy = queue[c].busy
  BY <1>5, EnqueuedTyped DEF DeliverCfg, Books, Typed, Working, Controllers
<1> QED BY <1>2, <1>4, <1>6, OthersBooks

LEMMA DeliverVmBooks ==
    ASSUME Books, Typed', Sure', NEW v \in VMs, DeliverVm(v)
    PROVE  Books'
<1> DEFINE new == Head(vmWatch[v])
           e   == [key |-> v, action |-> ActionOf(vmIndexer[v], new)]
<1>1. vmWatch \in [VMs -> Seq(VmObjects)] /\ vmWatch[v] # <<>> /\ vmIndexer \in [VMs -> VmObjects]
  BY DEF DeliverVm, Books, Typed, TypeOK
<1>2. /\ UNCHANGED <<vm, cfg, cfgWatch, cfgIndexer, worker, pool, ipam, cache, phase>>
      /\ vmWatch' = [vmWatch EXCEPT ![v] = Tail(vmWatch[v])]
      /\ vmIndexer' = [vmIndexer EXCEPT ![v] = new]
  BY DEF DeliverVm, api, memory, boot
<1>3. /\ new = vmWatch[v][1] /\ 1 \in DOMAIN vmWatch[v]
      /\ \A i \in DOMAIN Tail(vmWatch[v]) :
           i + 1 \in DOMAIN vmWatch[v] /\ Tail(vmWatch[v])[i] = vmWatch[v][i + 1]
  BY <1>1, FirstAndRest
<1>4. Fitting'
  BY <1>1, <1>2, <1>3 DEF Books, Fitting
<1>5. e \in Event
  BY DEF Event, Actions, ActionOf
<1>6. \A c \in Controllers : queue'[c].busy = queue[c].busy
  BY <1>5, EnqueuedTyped DEF DeliverVm, Books, Typed, Working, Controllers
<1> QED BY <1>2, <1>4, <1>6, OthersBooks

LEMMA WriteVmBooks ==
    ASSUME Books, Typed', Sure', NEW v \in VMs, NEW obj \in VmObjects, Fits(obj, v), WriteVm(v, obj)
    PROVE  Books'
<1>1. /\ vm \in [VMs -> VmObjects] /\ vmWatch \in [VMs -> Seq(VmObjects)]
      /\ vm' = [vm EXCEPT ![v] = obj]
      /\ UNCHANGED <<cfg, pool, cfgWatch, vmIndexer, cfgIndexer, queue, worker, ipam, cache, phase>>
  BY DEF WriteVm, memory, Books, Typed, TypeOK
<1>2. \A u \in VMs : \A i \in DOMAIN vmWatch'[u] : Fits(vmWatch'[u][i], u)
  <2>1. CASE UNCHANGED vmWatch
    BY <2>1 DEF Books, Fitting
  <2>2. CASE vmWatch' = [vmWatch EXCEPT ![v] = Append(@, obj)]
    <3>1. \A i \in DOMAIN Append(vmWatch[v], obj) : Fits(Append(vmWatch[v], obj)[i], v)
      BY <1>1, AppendProperties, LenProperties DEF Books, Fitting
    <3> QED BY <1>1, <2>2, <3>1 DEF Books, Fitting
  <2> QED BY <2>1, <2>2 DEF WriteVm
<1>3. Fitting'
  BY <1>1, <1>2 DEF Books, Fitting
<1> QED BY <1>1, <1>3, OthersBooks

LEMMA UsersBooks ==
    ASSUME Books, Typed', Sure', NEW v \in VMs,
           CreateVm(v) \/ UpdateVm(v) \/ DeleteVm(v) \/ EditIP(v) \/ CreateManually(v)
    PROVE  Books'
<1>1. CASE CreateVm(v) \/ UpdateVm(v) \/ DeleteVm(v)
  <2>1. \A nics \in Shapes[v] : /\ [exists |-> TRUE, nics |-> nics] \in VmObjects
                                /\ Fits([exists |-> TRUE, nics |-> nics], v)
    BY EnvironmentAssumption DEF VmObjects, Fits
  <2>2. GoneVm \in VmObjects /\ Fits(GoneVm, v)
    BY GoneTyped DEF GoneVm, Fits
  <2>3. PICK obj \in VmObjects : Fits(obj, v) /\ WriteVm(v, obj)
    BY <1>1, <2>1, <2>2 DEF CreateVm, UpdateVm, DeleteVm
  <2> QED BY <2>3, WriteVmBooks
<1>2. CASE EditIP(v) \/ CreateManually(v)
  <2>1. PICK obj \in CfgObjects : Shaped(obj, v) /\ WriteCfg(v, obj)
    <3>1. CASE EditIP(v)
      <4>1. PICK n \in NicsOf(cfg[v].spec), a \in IPs :
              cfg[v].exists /\ WriteCfg(v, [cfg[v] EXCEPT !.spec[n] = a])
        BY <3>1 DEF EditIP
      <4>2. [cfg[v] EXCEPT !.spec[n] = a] \in CfgObjects
        BY <4>1, EditedTyped DEF Books
      <4>3. cfg[v] \in CfgObjects /\ cfg[v].spec \in Specs
        BY DEF Books, Typed, TypeOK, CfgObjects
      <4>4. [cfg[v] EXCEPT !.spec[n] = a].spec = [cfg[v].spec EXCEPT ![n] = a]
        BY <4>3 DEF CfgObjects
      <4>5. NicsOf([cfg[v].spec EXCEPT ![n] = a]) = NicsOf(cfg[v].spec)
        BY <4>1, <4>3, ConstantsAssumption DEF NicsOf, Specs
      <4> QED BY <4>1, <4>2, <4>4, <4>5 DEF Books, Fitting, Shaped
    <3>2. CASE CreateManually(v)
      <4>1. PICK nics \in Shapes[v], a \in IPs \cup {NoIP} : WriteCfg(v, Written(v, nics, a))
        BY <3>2 DEF CreateManually, Written
      <4>2. Written(v, nics, a) \in CfgObjects
        BY WrittenTyped DEF Books
      <4>3. Written(v, nics, a).spec = [n \in Nics |-> IF n \in nics THEN a ELSE NoNic]
        BY DEF Written, Books, Typed, TypeOK, CfgObjects
      <4>4. nics \subseteq Nics
        BY EnvironmentAssumption
      <4>5. NicsOf(Written(v, nics, a).spec) = nics
        BY <4>3, <4>4, ConstantsAssumption DEF NicsOf
      <4> QED BY <4>1, <4>2, <4>5 DEF Shaped
    <3> QED BY <1>2, <3>1, <3>2
  <2>2. UNCHANGED <<vm, vmWatch, vmIndexer, cfgIndexer, queue, worker, pool, ipam, cache, phase>>
    BY <1>2 DEF EditIP, CreateManually, memory
  <2>3. Fitting'
    BY <2>1, <2>2, WriteFitting DEF Books, Fitting
  <2> QED BY <2>2, <2>3, OthersBooks
<1> QED BY <1>1, <1>2

LEMMA CrashBooks ==
    ASSUME Books, Typed', Sure', Crash
    PROVE  Books'
<1>1. /\ UNCHANGED <<vm, cfg>> /\ phase' = "down"
      /\ \A v \in VMs : /\ vmWatch'[v] = <<>> /\ vmIndexer'[v] = GoneVm
                        /\ cfgWatch'[v] = <<>> /\ cfgIndexer'[v] = GoneCfg(0)
      /\ worker'[me] = IdleWorker /\ worker'[self] = IdleWorker
  BY TwoWorkers DEF Crash, api
<1>2. Fitting'
  BY <1>1 DEF Books, Fitting, Fits, Shaped, GoneVm, GoneCfg
<1> QED BY <1>1, <1>2, IdleTyped DEF Books, Telling, Whole, Alike

LEMMA NextBooks ==
    ASSUME FixedShapes, Books, [Next]_vars
    PROVE  Books'
<1>1. /\ Typed' /\ Sure' /\ \A n \in Networks : ~UncachePool(n)
      /\ ~CountError /\ \A c \in Controllers : ~ApiError(c)
  BY NextTyped, SureStays DEF Books
<1>2. CASE UNCHANGED <<vm, cfg, events, queue, worker, pool, ipam, cache, phase>>
  BY <1>1, <1>2, FittingStays, OthersBooks DEF Books
<1>3. CASE \E n \in Networks : CachePool(n)
  <2>1. PICK n \in Networks : CachePool(n)
    BY <1>3
  <2>2. \A net \in Configured : cache[net].on => cache'[net].on
    BY <2>1, ConstantsAssumption DEF CachePool, Books, Typed, TypeOK
  <2>3. UNCHANGED <<vm, cfg, events, queue, worker, pool, ipam, phase>>
    BY <2>1 DEF CachePool, api, boot
  <2> QED BY <1>1, <2>2, <2>3, FittingStays, OthersBooks DEF Books
<1>4. CASE Users
  BY <1>1, <1>4, UsersBooks DEF Users
<1>5. CASE Start \/ Informers
  BY <1>1, <1>5, StartBooks, DeliverCfgBooks, DeliverVmBooks DEF Informers
<1>6. CASE CfgWorker \/ VmWorker
  BY <1>1, <1>6, CfgWorkerBooks, VmWorkerBooks
<1>7. CASE Crash
  BY <1>1, <1>7, CrashBooks
<1>8. Tick \/ UNCHANGED vars => UNCHANGED <<vm, cfg, events, queue, worker, pool, ipam, cache, phase>>
  BY DEF Tick, vars, api, memory, boot
<1> QED BY <1>1, <1>2, <1>3, <1>4, <1>5, <1>6, <1>7, <1>8 DEF Next, Pools, Faults

LEMMA InitBooks ==
    ASSUME Init, Budget["fail"] = 0, Budget["reload"] = 0
    PROVE  Books
<1>1. Fitting
  BY DEF Init, Fitting, Fits, Shaped, GoneVm, GoneCfg
<1> QED BY <1>1, InitTyped, IdleTyped, TwoWorkers DEF Init, Books, Sure, Telling, Whole, Alike

\* The status of every pool tells what is allocated whenever the helper is at
\* rest, however the two controllers, the informers, crashes and restarts
\* interleave, and whatever vmnetcfgs and addresses users write: while no
\* interface is plugged in or out, so that only the vmnetcfg controller writes
\* the status, no request fails and no pool is reloaded.
THEOREM PoolStatusHolds ==
    ASSUME FixedShapes, Budget["fail"] = 0, Budget["reload"] = 0
    PROVE  Spec => []PoolStatusAccurate
<1>1. Init => Books
  BY InitBooks
<1>2. Books /\ [Next]_vars => Books'
  BY NextBooks
<1>3. Books => PoolStatusAccurate
  <2> SUFFICES ASSUME Books, Idle, NEW net \in Configured
               PROVE  pool[net].alloc = ipam[net] /\ pool[net].used = Cardinality(ipam[net])
    BY DEF PoolStatusAccurate
  <2>1. phase # "down" /\ worker[me].pc = "idle"
    BY TwoWorkers DEF Idle, Waiting
  <2> QED BY <2>1 DEF Books, Telling, Told, Granted, Removing
<1> QED BY <1>1, <1>2, <1>3, PTL DEF Spec

=============================================================================
