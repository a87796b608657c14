---------------------------- MODULE LeaseProofs ----------------------------
(***************************************************************************)
(* Proofs about the leases: each has an address of its own and a mark in   *)
(* the IPAM table, and no other address is marked, as long as virtual      *)
(* machines come and grow and users leave the creation of vmnetcfgs to the *)
(* helper; and a lease is for the recorded address and stays, as long as   *)
(* users leave interfaces and recorded addresses alone.                    *)
(***************************************************************************)
EXTENDS RecordProofs

-----------------------------------------------------------------------------
(* What the virtual machines list only grows, and every vmnetcfg and copy  *)
(* of one lists only interfaces the VirtualMachine informer knows of.      *)

\* The interfaces a vmnetcfg may list: what the informer has told so far, or
\* will tell when it starts.
Bound(v) == IF phase = "running" THEN vmIndexer[v].nics ELSE vm[v].nics

\* The versions of a virtual machine, oldest first: each lists what the one
\* before it does.
Chain(v) ==
    /\ vm[v].nics \subseteq UNION Shapes[v]
    /\ ~vm[v].exists => vm[v].nics = {}
    /\ vmIndexer[v].nics \subseteq vm[v].nics
    /\ \A i \in DOMAIN vmWatch[v] :
         /\ vmWatch[v][i].exists
         /\ vmIndexer[v].nics \subseteq vmWatch[v][i].nics
         /\ vmWatch[v][i].nics \subseteq vm[v].nics
         /\ \A j \in DOMAIN vmWatch[v] :
              i <= j => vmWatch[v][i].nics \subseteq vmWatch[v][j].nics

Growing == \A v \in VMs : Chain(v)

\* A vmnetcfg nobody deletes.
Live(x, v) == ~x.del /\ NicsOf(x.spec) \subseteq Bound(v)

Copies ==
    \A v \in VMs :
      /\ Live(cfg[v], v) /\ Live(cfgIndexer[v], v)
      /\ \A i \in DOMAIN cfgWatch[v] : Live(cfgWatch[v][i], v)

\* The locals of a handler of v, that lists nothing either the informer does
\* not know of.
Within(w, v) ==
    /\ Live(w.obj, v)
    /\ NicsOf(w.spec) \subseteq Bound(v)
    /\ w.todo \subseteq Bound(v)
    /\ AtNic(w) => w.nic \in Bound(v)

\* Nothing is cleaned up: no vmnetcfg is deleted, and a virtual machine still
\* has what its vmnetcfg lists.
Uncleaned ==
    /\ \A c \in Controllers : /\ worker[c].next # "clean"
                              /\ worker[c].pc # "idle" => Within(worker[c], KeyOf(c))
    /\ worker[me].pc \notin {"clean", "unfinal"}
    /\ worker[self].pc \in {"idle", "sync", "macs", "refs", "create", "clean"}
    /\ worker[self].pc \in {"macs", "refs"} =>
         NicsOf(worker[self].obj.spec) \subseteq NicsOf(worker[self].spec)
    /\ worker[self].pc = "clean" => worker[self].todo = {}

\* No virtual machine is deleted.
Undeleted ==
    /\ \A i \in DOMAIN queue[self].items : queue[self].items[i].action # "delete"
    /\ worker[self].pc # "idle" => queue[self].busy.action # "delete"

\* The environment deletes and unplugs nothing and creates no vmnetcfg itself.
Unspent == \A k \in {"delete", "unplug", "manual"} : budget[k] = 0

Growth == Typed /\ Unspent /\ Growing /\ Copies /\ Uncleaned /\ Undeleted

-----------------------------------------------------------------------------
(* The leases.                                                             *)

\* The lease of m is marked, and of an interface its virtual machine had.
Marked(m) ==
    /\ leases[m].net \in Networks
    /\ leases[m].ip \in ipam[leases[m].net]
    /\ leases[m].ref \in VMs
    /\ <<m, leases[m].net>> \in UNION Shapes[leases[m].ref]

\* No lease has the address.
NotServed(net, a) == \A m \in MACs : ~(CheckLease(m) /\ leases[m].net = net /\ leases[m].ip = a)

\* What the vmnetcfg worker relies on between two of its calls: the address it
\* was granted is still marked and nobody's, the one it gives back is nobody's
\* any more, and the lease it found is still of the same virtual machine.
Reserved ==
    LET w == worker[me]
    IN  /\ w.pc = "addlease" => /\ w.ip \in ipam[NetOf(w.nic)]
                                /\ NotServed(NetOf(w.nic), w.ip)
        /\ w.pc = "release" => NotServed(NetOf(w.nic), w.ip)
        /\ w.pc = "held" => leases[MacOf(w.nic)].ref = KeyOf(me)

Leasing ==
    /\ \A m \in MACs : CheckLease(m) => Marked(m)
    /\ UniqueLease
    /\ Reserved
    /\ ~Watched => leases = NoLeases

-----------------------------------------------------------------------------
(* Growth, for the steps of the workers.                                   *)

\* What the workers leave alone.
Outside == UNCHANGED <<vm, vmWatch, vmIndexer, phase>> /\ Unspent'

\* A worker that is where it was, as far as these proofs look.
Still(c) ==
    /\ worker'[c].pc = worker[c].pc /\ worker'[c].next = worker[c].next
    /\ worker'[c].obj = worker[c].obj /\ worker'[c].spec = worker[c].spec
    /\ worker'[c].todo = worker[c].todo /\ worker'[c].nic = worker[c].nic
    /\ worker'[c].ip = worker[c].ip

LEMMA OutsideKeeps ==
    ASSUME Growth, Outside
    PROVE  /\ Unspent' /\ Growing'
           /\ \A v \in VMs : Bound(v)' = Bound(v)
           /\ UNCHANGED <<cfg, cfgIndexer, cfgWatch>> => Copies'
BY DEF Growth, Outside, Unspent, Growing, Chain, Copies, Live, Bound

\* The vmnetcfg worker stays with its object, or starts with one.
LEMMA MeGrowth ==
    ASSUME Growth, Typed', Outside, Copies', worker[me].pc # "idle", Still(self),
           queue' = queue, NEW w, worker'[me] = w,
           w.next # "clean", w.pc \notin {"clean", "unfinal"}, Within(w, KeyOf(me))
    PROVE  Growth'
<1>1. Unspent' /\ Growing' /\ \A v \in VMs : Bound(v)' = Bound(v)
  BY OutsideKeeps
<1>2. \A c \in Controllers : worker[c].pc # "idle" => KeyOf(c) \in VMs
  BY WorkerTyped DEF Growth
<1>3. Uncleaned'
  BY <1>1, <1>2, TwoWorkers DEF Growth, Uncleaned, Within, AtNic, Live, Still, KeyOf
<1>4. Undeleted'
  BY DEF Growth, Undeleted, Still
<1> QED BY <1>1, <1>3, <1>4 DEF Growth

LEMMA IdleWithin ==
    /\ \A v : Live(GoneCfg(0), v) /\ Within(IdleWorker, v)
    /\ IdleWorker.next = "nic" /\ IdleWorker.pc = "idle" /\ IdleWorker.obj = GoneCfg(0)
BY EmptyTyped DEF Within, Live, IdleWorker, GoneCfg, AtNic

LEMMA MeDone ==
    ASSUME Growth, Typed', Outside, Copies', worker[me].pc # "idle", Done(me)
    PROVE  Growth'
<1>1. Unspent' /\ Growing' /\ \A v \in VMs : Bound(v)' = Bound(v)
  BY OutsideKeeps
<1>2. worker'[me] = IdleWorker /\ worker'[self] = worker[self] /\ queue'[self] = queue[self]
  BY TwoWorkers DEF Done, Step, Growth, Typed, Working
<1>3. worker[self].pc # "idle" => KeyOf(self) \in VMs
  BY TwoWorkers, WorkerTyped DEF Growth
<1>4. Uncleaned'
  BY <1>1, <1>2, <1>3, TwoWorkers, IdleWithin DEF Growth, Uncleaned, Within, Live, KeyOf
<1>5. Undeleted'
  BY <1>2 DEF Growth, Undeleted
<1> QED BY <1>1, <1>4, <1>5 DEF Growth

\* A step of the vmnetcfg worker within an object.
LEMMA MeStep ==
    ASSUME Growth, Typed', Outside, worker[me].pc # "idle",
           UNCHANGED <<cfg, cfgIndexer, cfgWatch, queue>>, NEW w, Step(me, w),
           w.next # "clean", w.pc \notin {"clean", "unfinal"}, Within(w, KeyOf(me))
    PROVE  Growth'
<1>1. worker'[me] = w /\ Still(self)
  BY TwoWorkers DEF Step, Still, Growth, Typed, Working
<1>2. Copies'
  BY OutsideKeeps
<1> QED BY <1>1, <1>2, MeGrowth

LEMMA MeInside ==
    ASSUME Growth
    PROVE  /\ me \in Controllers /\ worker[me] \in Workers /\ worker[me] \in Handlers
           /\ worker[me].next # "clean" /\ worker[me].pc \notin {"clean", "unfinal"}
           /\ worker[me].pc # "idle" =>
                KeyOf(me) \in VMs /\ Within(worker[me], KeyOf(me))
BY WorkerTyped, TwoWorkers DEF Growth, Uncleaned

LEMMA TakeItemGrowth ==
    ASSUME Growth, Typed', NEW c \in Controllers, TakeItem(c)
    PROVE  Growth'
<1> DEFINE w == [IdleWorker EXCEPT !.pc = "sync"]
<1>1. Outside /\ UNCHANGED <<cfg, cfgIndexer, cfgWatch>>
  BY DEF TakeItem, Outside, Growth, Unspent, api, events, boot
<1>2. Unspent' /\ Growing' /\ Copies' /\ \A v \in VMs : Bound(v)' = Bound(v)
  BY <1>1, OutsideKeeps
<1>3. \A v : Within(w, v) /\ w.next = "nic" /\ w.pc = "sync" /\ w.nic = NoNic
  BY IdleWithin DEF Within, AtNic, Live, IdleWorker
<1>4. /\ worker'[c] = w
      /\ \A d \in Controllers \ {c} : worker'[d] = worker[d] /\ queue'[d] = queue[d]
      /\ queue'[c] = Taken(queue[c]) /\ queue[c].items # <<>>
  BY DEF TakeItem, Step, Growth, Typed, Working
<1>5. \A d \in Controllers : worker[d].pc # "idle" => KeyOf(d) \in VMs
  BY WorkerTyped DEF Growth
<1>6. queue'[c].busy \in Event
  BY <1>3, <1>4 DEF Typed, Working
<1> HIDE DEF w
<1>7. \A d \in Controllers : (worker[d].pc # "idle" => Within(worker[d], KeyOf(d)))'
  <2>1. \A d \in Controllers \ {c} : (worker[d].pc # "idle" => Within(worker[d], KeyOf(d)))'
    BY <1>2, <1>4, <1>5 DEF Growth, Uncleaned, Within, Live, KeyOf
  <2>2. KeyOf(c)' \in VMs
    BY <1>6 DEF KeyOf, Event
  <2>3. Within(w, KeyOf(c))'
    BY <1>2, <1>3, <2>2 DEF Within, Live
  <2> QED BY <1>4, <2>1, <2>3
<1>8. Uncleaned'
  BY <1>3, <1>4, <1>7, TwoWorkers DEF Growth, Uncleaned
<1>9. Undeleted'
  <2>1. CASE c = me
    BY <1>4, <2>1, TwoWorkers DEF Growth, Undeleted
  <2>2. CASE c = self
    <3>1. queue[self] \in Queues(Event) /\ queue[self].items \in Seq(Event)
      BY TwoWorkers DEF Growth, Typed, Working, Queues
    <3>2. /\ queue'[self].busy = Head(queue[self].items)
          /\ queue'[self].items = Tail(queue[self].items)
      BY <1>4, <2>2, <3>1 DEF Taken, Queues
    <3>3. 1 \in DOMAIN queue[self].items /\ Head(queue[self].items) = queue[self].items[1]
      BY <1>4, <2>2, <3>1, HeadTailProperties, LenProperties
    <3>4. \A i \in DOMAIN Tail(queue[self].items) :
            /\ i + 1 \in DOMAIN queue[self].items
            /\ Tail(queue[self].items)[i] = queue[self].items[i + 1]
      BY <1>4, <2>2, <3>1, HeadTailProperties, LenProperties
    <3> QED BY <3>2, <3>3, <3>4 DEF Growth, Undeleted
  <2> QED BY <2>1, <2>2, TwoWorkers
<1> QED BY <1>2, <1>8, <1>9 DEF Growth

LEMMA SyncCfgGrowth ==
    ASSUME Growth, Typed', SyncCfg
    PROVE  Growth'
<1> DEFINE e   == queue[me].busy
           obj == cfgIndexer[e.key]
           w   == [IdleWorker EXCEPT !.pc = IF obj.del THEN "clean" ELSE "nic",
                     !.obj = obj, !.todo = NicsOf(obj.spec), !.spec = obj.spec]
<1>1. Outside /\ UNCHANGED <<cfg, cfgIndexer, cfgWatch>> /\ worker[me].pc # "idle"
  BY DEF SyncCfg, Outside, Growth, Unspent, api, events, boot
<1>2. Live(obj, e.key) /\ e = queue[me].busy
  BY <1>1, MeInside DEF Growth, Copies, KeyOf
<1>3. w.next = "nic" /\ w.pc = "nic" /\ w.obj = obj /\ w.spec = obj.spec
      /\ w.todo = NicsOf(obj.spec) /\ w.nic = NoNic
  BY <1>2 DEF IdleWorker, Live
<1>4. (Step(me, w) /\ UNCHANGED queue) \/ Done(me)
  BY DEF SyncCfg
<1> HIDE DEF w
<1>5. Within(w, KeyOf(me))
  BY <1>2, <1>3 DEF Within, AtNic, Live, KeyOf
<1>6. Copies'
  BY <1>1, OutsideKeeps
<1> QED BY <1>1, <1>3, <1>4, <1>5, <1>6, MeStep, MeDone

\* A handler that goes on with the same object, spec and interfaces.
LEMMA SameWithin ==
    ASSUME NEW v, NEW w, NEW x, Within(w, v), x.obj = w.obj, x.spec = w.spec,
           x.todo \subseteq w.todo, AtNic(x) => x.nic \in w.todo \/ (AtNic(w) /\ x.nic = w.nic)
    PROVE  Within(x, v)
BY DEF Within

LEMMA InErrorWithin ==
    ASSUME NEW w \in Workers, NEW n \in Nics, NEW v, Within(w, v)
    PROVE  /\ Within(InError(w, n), v) /\ InError(w, n).next = w.next
           /\ InError(w, n).pc = "nic"
<1>1. /\ InError(w, n).obj = w.obj /\ InError(w, n).spec = w.spec /\ InError(w, n).todo = w.todo
      /\ InError(w, n).nic = NoNic /\ InError(w, n).next = w.next /\ InError(w, n).pc = "nic"
  BY DEF InError, Workers
<1> QED BY <1>1 DEF Within, AtNic

LEMMA CheckNicGrowth ==
    ASSUME Growth, Typed', CheckNic
    PROVE  Growth'
<1> DEFINE w    == worker[me]
           v(n) == [w EXCEPT !.todo = @ \ {n}, !.nic = n]
           x(n) == [v(n) EXCEPT !.pc = "owner"]
           y(n) == [v(n) EXCEPT !.pc = "getip"]
<1>1. w.pc # "idle" /\ w \in Workers /\ Within(w, KeyOf(me)) /\ w.next # "clean"
  BY MeInside DEF CheckNic
<1>2. PICK n \in w.todo : Step(me, InError(v(n), n)) \/ Step(me, x(n)) \/ Step(me, y(n))
  BY DEF CheckNic
<1>3. /\ n \in Nics /\ v(n) \in Workers /\ v(n).obj = w.obj /\ v(n).spec = w.spec
      /\ v(n).todo = w.todo \ {n} /\ v(n).nic = n /\ v(n).next = w.next /\ v(n).pc = "nic"
  BY <1>1 DEF CheckNic, Workers
<1> HIDE DEF v
<1>4. /\ x(n).obj = w.obj /\ x(n).spec = w.spec /\ x(n).todo = w.todo \ {n} /\ x(n).nic = n
      /\ x(n).next = w.next /\ x(n).pc = "owner"
      /\ y(n).obj = w.obj /\ y(n).spec = w.spec /\ y(n).todo = w.todo \ {n} /\ y(n).nic = n
      /\ y(n).next = w.next /\ y(n).pc = "getip"
  BY <1>3 DEF Workers
<1> HIDE DEF x, y
<1>5. /\ Within(v(n), KeyOf(me)) /\ Within(x(n), KeyOf(me)) /\ Within(y(n), KeyOf(me))
  BY <1>1, <1>3, <1>4, SameWithin DEF AtNic
<1>6. Outside /\ UNCHANGED <<cfg, cfgIndexer, cfgWatch, queue>>
  BY DEF CheckNic, Outside, Growth, Unspent, api, events, boot
<1> QED BY <1>1, <1>2, <1>3, <1>4, <1>5, <1>6, InErrorWithin, MeStep

LEMMA CheckOwnerGrowth ==
    ASSUME Growth, Typed', CheckOwner
    PROVE  Growth'
<1> DEFINE w == worker[me]
           x == [w EXCEPT !.pc = "held"]
<1>1. w.pc # "idle" /\ w \in Workers /\ w.nic \in Nics /\ Within(w, KeyOf(me)) /\ w.next # "clean"
  BY MeInside DEF CheckOwner, Handlers, AtNic
<1>2. Step(me, InError(w, w.nic)) \/ Step(me, x)
  BY DEF CheckOwner
<1>3. /\ x.obj = w.obj /\ x.spec = w.spec /\ x.todo = w.todo /\ x.nic = w.nic
      /\ x.next = w.next /\ x.pc = "held"
  BY <1>1 DEF Workers
<1> HIDE DEF x
<1>4. Outside /\ UNCHANGED <<cfg, cfgIndexer, cfgWatch, queue>>
  BY DEF CheckOwner, Outside, Growth, Unspent, api, events, boot
<1> QED BY <1>1, <1>2, <1>3, <1>4, SameWithin, InErrorWithin, MeStep DEF AtNic, CheckOwner

LEMMA CheckHeldGrowth ==
    ASSUME Growth, Typed', CheckHeld
    PROVE  Growth'
<1> DEFINE w == worker[me]
           n == w.nic
           l == leases[MacOf(n)]
           x == [w EXCEPT !.pc = "getip"]
           y == [w EXCEPT !.pc = "nic", !.nic = NoNic, !.status[n] = w.obj.status[n]]
           z == [w EXCEPT !.pc = "release", !.ip = l.ip, !.next = "getip"]
<1>1. w.pc # "idle" /\ w \in Workers /\ Within(w, KeyOf(me)) /\ w.next # "clean"
  BY MeInside DEF CheckHeld
<1>2. Step(me, x) \/ Step(me, y) \/ Step(me, z)
  BY DEF CheckHeld
<1>3. /\ x.obj = w.obj /\ x.spec = w.spec /\ x.todo = w.todo /\ x.nic = w.nic
      /\ x.next = w.next /\ x.pc = "getip"
      /\ y.obj = w.obj /\ y.spec = w.spec /\ y.todo = w.todo /\ y.nic = NoNic
      /\ y.next = w.next /\ y.pc = "nic"
      /\ z.obj = w.obj /\ z.spec = w.spec /\ z.todo = w.todo /\ z.nic = w.nic
      /\ z.next = "getip" /\ z.pc = "release"
  BY <1>1 DEF Workers
<1> HIDE DEF x, y, z
<1>4. Outside /\ UNCHANGED <<cfg, cfgIndexer, cfgWatch, queue>>
  BY DEF CheckHeld, Outside, Growth, Unspent, api, events, boot
<1> QED BY <1>1, <1>2, <1>3, <1>4, SameWithin, MeStep DEF AtNic, CheckHeld

LEMMA GetIPGrowth ==
    ASSUME Growth, Typed', GetIP
    PROVE  Growth'
<1> DEFINE w == worker[me]
           n == w.nic
           x(a) == [w EXCEPT !.pc = "addlease", !.ip = a]
           z == [w EXCEPT !.ip = NoIP]
<1>1. w.pc # "idle" /\ w \in Workers /\ n \in Nics /\ Within(w, KeyOf(me)) /\ w.next # "clean"
  BY MeInside DEF GetIP, Handlers, AtNic
<1>2. (\E a \in IPs : Step(me, x(a))) \/ Step(me, InError(z, n))
  BY DEF GetIP, Grantable
<1>3. ASSUME NEW a
      PROVE  /\ x(a).obj = w.obj /\ x(a).spec = w.spec /\ x(a).todo = w.todo
             /\ x(a).nic = n /\ x(a).next = w.next /\ x(a).pc = "addlease"
  BY <1>1 DEF Workers
<1>4. /\ z \in Workers /\ z.obj = w.obj /\ z.spec = w.spec /\ z.todo = w.todo
      /\ z.nic = n /\ z.next = w.next /\ z.pc = w.pc
  BY <1>1 DEF Workers
<1> HIDE DEF x, z
<1>5. Within(z, KeyOf(me)) /\ \A a : Within(x(a), KeyOf(me))
  BY <1>1, <1>3, <1>4, SameWithin DEF AtNic, GetIP
<1>6. Outside /\ UNCHANGED <<cfg, cfgIndexer, cfgWatch, queue>>
  BY DEF GetIP, Outside, Growth, Unspent, api, events, boot
<1> QED BY <1>1, <1>2, <1>3, <1>4, <1>5, <1>6, InErrorWithin, MeStep

LEMMA RegisterLeaseGrowth ==
    ASSUME Growth, Typed', RegisterLease
    PROVE  Growth'
<1> DEFINE w == worker[me]
           n == w.nic
           x == [w EXCEPT !.pc = "poolget", !.op = "add", !.next = "nic", !.retry = 0,
                          !.change = TRUE, !.spec = Recorded(w), !.status[n] = "OK"]
<1>1. /\ w.pc # "idle" /\ w \in Workers /\ n \in Nics /\ w.spec \in Specs
      /\ Within(w, KeyOf(me)) /\ w.next # "clean"
  BY MeInside DEF RegisterLease, Handlers, AtNic, Workers
<1>2. /\ x.obj = w.obj /\ x.spec = Recorded(w) /\ x.todo = w.todo /\ x.nic = n
      /\ x.next = "nic" /\ x.pc = "poolget"
  BY <1>1 DEF Workers
<1>3. Step(me, x) /\ Outside /\ UNCHANGED <<cfg, cfgIndexer, cfgWatch, queue>>
  BY DEF RegisterLease, Outside, Growth, Unspent, api, events, boot
<1> HIDE DEF x
<1>4. AtNic(w) /\ \A k \in Nics : Recorded(w)[k] = IF k = n THEN w.ip ELSE w.spec[k]
  BY <1>1 DEF Recorded, Specs, RegisterLease, AtNic
<1>5. Within(x, KeyOf(me))
  BY <1>1, <1>2, <1>4 DEF Within, NicsOf
<1> QED BY <1>1, <1>2, <1>3, <1>5, MeStep

LEMMA NicsDoneGrowth ==
    ASSUME Growth, Typed', NicsDone
    PROVE  Growth'
<1> DEFINE w == worker[me]
           x == [w EXCEPT !.pc = "update"]
           y == [w EXCEPT !.pc = "ustatus"]
<1>1. w.pc # "idle" /\ w \in Workers /\ Within(w, KeyOf(me)) /\ w.next # "clean"
  BY MeInside DEF NicsDone
<1>2. /\ x.obj = w.obj /\ x.spec = w.spec /\ x.todo = w.todo /\ x.nic = w.nic
      /\ x.next = w.next /\ x.pc = "update"
      /\ y.obj = w.obj /\ y.spec = w.spec /\ y.todo = w.todo /\ y.nic = w.nic
      /\ y.next = w.next /\ y.pc = "ustatus"
  BY <1>1 DEF Workers
<1>3. (Step(me, x) /\ UNCHANGED queue) \/ (Step(me, y) /\ UNCHANGED queue) \/ Done(me)
  BY DEF NicsDone, Return
<1> HIDE DEF x, y
<1>4. Outside /\ UNCHANGED <<cfg, cfgIndexer, cfgWatch>>
  BY DEF NicsDone, Outside, Growth, Unspent, api, events
<1>5. Copies'
  BY <1>4, OutsideKeeps
<1> QED BY <1>1, <1>2, <1>3, <1>4, <1>5, SameWithin, MeStep, MeDone DEF AtNic

\* A write that deletes nothing and lists nothing the informer does not know.
LEMMA WriteLive ==
    ASSUME Growth, \A v \in VMs : Bound(v)' = Bound(v),
           NEW v \in VMs, NEW obj \in CfgObjects,
           WriteCfg(v, obj), Live(obj, v),
           \A u \in VMs : cfgIndexer'[u].del = cfgIndexer[u].del /\ cfgIndexer'[u].spec = cfgIndexer[u].spec
    PROVE  Copies' /\ Live(cfg'[v], v)
<1> DEFINE new == Changed(v, obj)
<1>1. cfg[v] \in CfgObjects /\ cfgWatch[v] \in Seq(CfgObjects) /\ new \in CfgObjects
  BY ChangedTyped DEF Growth, Typed, TypeOK
<1>2. new.spec = obj.spec /\ new.del = obj.del
  BY <1>1 DEF Changed, CfgObjects
<1>3. /\ cfg' = [cfg EXCEPT ![v] = new]
      /\ cfgWatch' = cfgWatch \/ cfgWatch' = [cfgWatch EXCEPT ![v] = Append(cfgWatch[v], new)]
  BY DEF WriteCfg
<1>4. \A i \in DOMAIN Append(cfgWatch[v], new) :
        \/ Append(cfgWatch[v], new)[i] = new
        \/ i \in DOMAIN cfgWatch[v] /\ Append(cfgWatch[v], new)[i] = cfgWatch[v][i]
  BY <1>1, AppendProperties
<1>5. cfg'[v] = new /\ \A u \in VMs \ {v} : cfg'[u] = cfg[u]
  BY <1>3 DEF Growth, Typed, TypeOK
<1>6. \A u \in VMs : Live(cfg[u], u)'
  BY <1>2, <1>5 DEF Growth, Copies, Live
<1>7. \A u \in VMs : Live(cfgIndexer[u], u)'
  BY DEF Growth, Copies, Live
<1>8. \A u \in VMs : \A i \in DOMAIN cfgWatch'[u] : Live(cfgWatch[u][i], u)'
  <2>1. \A u \in VMs : \A i \in DOMAIN cfgWatch'[u] :
          \/ u = v /\ cfgWatch'[u][i] = new
          \/ i \in DOMAIN cfgWatch[u] /\ cfgWatch'[u][i] = cfgWatch[u][i]
    BY <1>3, <1>4 DEF Growth, Typed, TypeOK
  <2> HIDE DEF new
  <2>2. \A u \in VMs : \A i \in DOMAIN cfgWatch[u] : ~cfgWatch[u][i].del /\ NicsOf(cfgWatch[u][i].spec) \subseteq Bound(u)'
    BY DEF Growth, Copies, Live
  <2> QED BY <1>2, <2>1, <2>2 DEF Live
<1> QED BY <1>2, <1>5, <1>6, <1>7, <1>8 DEF Copies, Live

LEMMA UpdateSpecGrowth ==
    ASSUME Growth, Typed', UpdateSpec
    PROVE  Growth'
<1> DEFINE w   == worker[me]
           v   == KeyOf(me)
           new == [cfg[v] EXCEPT !.spec = w.spec]
           x   == [w EXCEPT !.pc = "ustatus", !.obj = Changed(v, new)]
<1>1. /\ w.pc = "update" /\ w.pc # "idle" /\ w \in Workers /\ v \in VMs /\ Within(w, v)
      /\ w.next # "clean" /\ w.spec \in Specs /\ cfg[v] \in CfgObjects
  BY MeInside DEF UpdateSpec, Growth, Typed, TypeOK, Workers
<1>2. Outside /\ UNCHANGED cfgIndexer /\ \A u \in VMs : Bound(u)' = Bound(u)
  BY OutsideKeeps DEF UpdateSpec, Outside, Growth, Unspent
<1>3. CASE Current(v, w.obj)
  <2>1. WriteCfg(v, new) /\ Step(me, x) /\ UNCHANGED queue
    BY <1>3 DEF UpdateSpec
  <2>2. new \in CfgObjects /\ new.spec = w.spec /\ new.del = cfg[v].del
    BY <1>1 DEF CfgObjects
  <2>3. Live(new, v)
    BY <1>1, <2>2 DEF Live, Within, Growth, Copies
  <2>4. Copies' /\ Live(cfg'[v], v) /\ cfg'[v] = Changed(v, new)
    BY <1>1, <1>2, <2>1, <2>2, <2>3, WriteLive DEF WriteCfg, Growth, Typed, TypeOK
  <2>5. /\ x.obj = cfg'[v] /\ x.spec = w.spec /\ x.pc = "ustatus" /\ x.todo = w.todo
        /\ x.nic = w.nic /\ x.next = w.next
    BY <1>1, <2>4 DEF Workers
  <2>6. worker'[me] = x /\ Still(self)
    BY <2>1, TwoWorkers DEF Step, Still, Growth, Typed, Working
  <2> HIDE DEF x
  <2>7. Within(x, v)
    BY <1>1, <2>4, <2>5 DEF Within, AtNic
  <2> QED BY <1>1, <1>2, <2>1, <2>4, <2>5, <2>6, <2>7, MeGrowth
<1>4. CASE ~Current(v, w.obj)
  <2>1. Done(me) /\ UNCHANGED <<cfg, cfgWatch>>
    BY <1>4 DEF UpdateSpec, Return
  <2> QED BY <1>1, <1>2, <2>1, OutsideKeeps, MeDone
<1> QED BY <1>3, <1>4

LEMMA UpdateStatusGrowth ==
    ASSUME Growth, Typed', UpdateStatus
    PROVE  Growth'
<1> DEFINE w   == worker[me]
           v   == KeyOf(me)
           new == [cfg[v] EXCEPT !.status = w.status]
<1>1. w.pc # "idle" /\ v \in VMs /\ cfg[v] \in CfgObjects /\ w.status \in Statuses
  BY MeInside DEF UpdateStatus, Growth, Typed, TypeOK, Workers
<1>2. new \in CfgObjects /\ new.spec = cfg[v].spec /\ new.del = cfg[v].del
  BY <1>1 DEF CfgObjects
<1>3. \A u \in VMs : cfgIndexer'[u].del = cfgIndexer[u].del /\ cfgIndexer'[u].spec = cfgIndexer[u].spec
  BY OverwrittenStatus DEF UpdateStatus, Growth
<1>4. Outside /\ \A u \in VMs : Bound(u)' = Bound(u)
  BY OutsideKeeps DEF UpdateStatus, Outside, Growth, Unspent
<1>5. Copies'
  <2>1. CASE WriteCfg(v, new)
    BY <1>1, <1>2, <1>3, <1>4, <2>1, WriteLive DEF Growth, Copies, Live
  <2>2. CASE UNCHANGED <<cfg, cfgWatch>>
    BY <1>3, <1>4, <2>2 DEF Growth, Copies, Live
  <2> QED BY <2>1, <2>2 DEF UpdateStatus
<1>6. Done(me)
  BY DEF UpdateStatus, Return
<1> QED BY <1>1, <1>4, <1>5, <1>6, MeDone

LEMMA MePoolGrowth ==
    ASSUME Growth, Typed', ReleaseIP(me) \/ UpdateIPPoolStatusGet(me)
    PROVE  Growth'
<1> DEFINE w == worker[me]
           x == [w EXCEPT !.pc = "poolget", !.op = "delete", !.retry = 0]
           y == [w EXCEPT !.pc = w.next]
           z == [w EXCEPT !.pc = "poolput", !.fresh = TRUE, !.used = Cardinality(ipam[NetOf(w.nic)])]
<1>1. /\ w.pc # "idle" /\ w \in Workers /\ Within(w, KeyOf(me)) /\ AtNic(w)
      /\ w.next \in {"nic", "getip"}
  BY MeInside DEF ReleaseIP, UpdateIPPoolStatusGet, AtNic, Workers
<1>2. Step(me, x) \/ Step(me, y) \/ Step(me, z)
  BY DEF ReleaseIP, UpdateIPPoolStatusGet
<1>3. /\ x.obj = w.obj /\ x.spec = w.spec /\ x.todo = w.todo /\ x.nic = w.nic
      /\ x.next = w.next /\ x.pc = "poolget"
      /\ y.obj = w.obj /\ y.spec = w.spec /\ y.todo = w.todo /\ y.nic = w.nic
      /\ y.next = w.next /\ y.pc = w.next
      /\ z.obj = w.obj /\ z.spec = w.spec /\ z.todo = w.todo /\ z.nic = w.nic
      /\ z.next = w.next /\ z.pc = "poolput"
  BY <1>1 DEF Workers
<1> HIDE DEF x, y, z
<1>4. Outside /\ UNCHANGED <<cfg, cfgIndexer, cfgWatch, queue>>
  BY DEF ReleaseIP, UpdateIPPoolStatusGet, Outside, Growth, Unspent, api, events, boot
<1>5. Within(x, KeyOf(me)) /\ Within(y, KeyOf(me)) /\ Within(z, KeyOf(me))
  BY <1>1, <1>3, SameWithin
<1> QED BY <1>1, <1>2, <1>3, <1>4, <1>5, MeStep

LEMMA MePutGrowth ==
    ASSUME Growth, Typed', UpdateIPPoolStatusPut(me)
    PROVE  Growth'
<1> DEFINE w   == worker[me]
           net == NetOf(w.nic)
           ret == [w EXCEPT !.pc = w.next, !.fresh = FALSE, !.used = 0, !.retry = 0]
           y   == [w EXCEPT !.pc = "poolget", !.used = 0, !.retry = @ + 1]
           stale(d) == [worker[d] EXCEPT !.fresh = @ /\ NetOf(worker[d].nic) # net]
<1>1. /\ w.pc = "poolput" /\ w.pc # "idle" /\ w \in Workers /\ Within(w, KeyOf(me)) /\ AtNic(w)
      /\ w.next \in {"nic", "getip"}
  BY MeInside DEF UpdateIPPoolStatusPut, AtNic, Workers
<1>2. /\ ret.obj = w.obj /\ ret.spec = w.spec /\ ret.todo = w.todo /\ ret.nic = w.nic
      /\ ret.next = w.next /\ ret.pc = w.next
      /\ y.obj = w.obj /\ y.spec = w.spec /\ y.todo = w.todo /\ y.nic = w.nic
      /\ y.next = w.next /\ y.pc = "poolget"
  BY <1>1 DEF Workers
<1>3. Outside /\ UNCHANGED <<cfg, cfgIndexer, cfgWatch, queue>>
  BY DEF UpdateIPPoolStatusPut, Outside, Growth, Unspent, events, boot
<1>4. ASSUME NEW d \in Controllers
      PROVE  /\ stale(d).obj = worker[d].obj /\ stale(d).spec = worker[d].spec
             /\ stale(d).pc = worker[d].pc /\ stale(d).nic = worker[d].nic
             /\ stale(d).ip = worker[d].ip /\ stale(d).todo = worker[d].todo
             /\ stale(d).next = worker[d].next
  BY WorkerTyped DEF Growth, Workers
<1>5. \/ Step(me, ret) \/ Step(me, y)
      \/ worker' = [d \in Controllers |-> IF d = me THEN ret ELSE stale(d)]
  BY DEF UpdateIPPoolStatusPut
<1> HIDE DEF ret, y, stale
<1>6. Within(ret, KeyOf(me)) /\ Within(y, KeyOf(me))
  BY <1>1, <1>2, SameWithin
<1>7. CASE Step(me, ret) \/ Step(me, y)
  BY <1>1, <1>2, <1>3, <1>6, <1>7, MeStep
<1>8. CASE worker' = [d \in Controllers |-> IF d = me THEN ret ELSE stale(d)]
  <2>1. worker'[me] = ret /\ Still(self)
    BY <1>4, <1>8, TwoWorkers DEF Still
  <2>2. Copies'
    BY <1>3, OutsideKeeps
  <2> QED BY <1>1, <1>2, <1>3, <1>6, <2>1, <2>2, MeGrowth
<1> QED BY <1>5, <1>7, <1>8

LEMMA CfgWorkerGrowth ==
    ASSUME Growth, Typed', CfgWorker
    PROVE  Growth'
<1>1. ~(Cleanup(me) \/ CleanupDone \/ RemoveFinalizer)
  BY MeInside DEF Cleanup, CleanupDone, RemoveFinalizer
<1>2. CASE NoPool
  <2>1. /\ worker[me].pc # "idle" /\ Done(me) /\ Outside
        /\ UNCHANGED <<cfg, cfgWatch, cfgIndexer>>
    BY <1>2 DEF NoPool, Return, Outside, Growth, Unspent, api, events
  <2> QED BY <2>1, OutsideKeeps, MeDone
<1> QED BY <1>1, <1>2, TwoWorkers, TakeItemGrowth, SyncCfgGrowth, CheckNicGrowth,
           CheckOwnerGrowth, CheckHeldGrowth, GetIPGrowth, RegisterLeaseGrowth, NicsDoneGrowth,
           UpdateSpecGrowth, UpdateStatusGrowth, MePoolGrowth, MePutGrowth
    DEF CfgWorker

-----------------------------------------------------------------------------
(* Growth: the VirtualMachine worker.                                      *)

LEMMA SelfInside ==
    ASSUME Growth
    PROVE  /\ self \in Controllers /\ worker[self] \in Workers
           /\ worker[self].next # "clean"
           /\ worker[self].pc \in {"idle", "sync", "macs", "refs", "create", "clean"}
           /\ worker[self].pc \in {"macs", "refs"} =>
                NicsOf(worker[self].obj.spec) \subseteq NicsOf(worker[self].spec)
           /\ worker[self].pc = "clean" => worker[self].todo = {}
           /\ worker[self].pc # "idle" =>
                /\ KeyOf(self) \in VMs /\ Within(worker[self], KeyOf(self))
                /\ phase = "running" /\ queue[self].busy.action # "delete"
BY WorkerTyped, TwoWorkers DEF Growth, Uncleaned, Undeleted, Typed, Quiet

LEMMA SelfStep ==
    ASSUME Growth, Typed', Outside, worker[self].pc # "idle",
           UNCHANGED <<cfg, cfgIndexer, cfgWatch, queue>>, NEW w, Step(self, w),
           w.next # "clean", w.pc \in {"macs", "refs", "create", "clean"}, Within(w, KeyOf(self)),
           w.pc \in {"macs", "refs"} => NicsOf(w.obj.spec) \subseteq NicsOf(w.spec),
           w.pc = "clean" => w.todo = {}
    PROVE  Growth'
<1>1. Unspent' /\ Growing' /\ Copies' /\ \A v \in VMs : Bound(v)' = Bound(v)
  BY OutsideKeeps
<1>2. worker'[self] = w /\ worker'[me] = worker[me]
  BY TwoWorkers DEF Step, Growth, Typed, Working
<1>3. \A c \in Controllers : worker[c].pc # "idle" => KeyOf(c) \in VMs
  BY WorkerTyped DEF Growth
<1>4. Uncleaned'
  BY <1>1, <1>2, <1>3, TwoWorkers DEF Growth, Uncleaned, Within, AtNic, Live, KeyOf
<1>5. Undeleted'
  BY DEF Growth, Undeleted
<1> QED BY <1>1, <1>4, <1>5 DEF Growth

LEMMA SelfDone ==
    ASSUME Growth, Typed', Outside, Copies', worker[self].pc # "idle", Done(self)
    PROVE  Growth'
<1>1. Unspent' /\ Growing' /\ \A v \in VMs : Bound(v)' = Bound(v)
  BY OutsideKeeps
<1>2. /\ worker'[self] = IdleWorker /\ worker'[me] = worker[me] /\ queue'[me] = queue[me]
      /\ queue'[self] = Completed(queue[self])
  BY TwoWorkers DEF Done, Step, Growth, Typed, Working
<1>3. worker[me].pc # "idle" => KeyOf(me) \in VMs
  BY TwoWorkers, WorkerTyped DEF Growth
<1>4. Uncleaned'
  BY <1>1, <1>2, <1>3, TwoWorkers, IdleWithin DEF Growth, Uncleaned, Within, AtNic, Live, KeyOf
<1>5. Undeleted'
  <2> DEFINE items == queue[self].items
             busy  == queue[self].busy
  <2>1. items \in Seq(Event) /\ busy \in Event /\ busy.action # "delete"
    BY TwoWorkers, SelfInside DEF Growth, Typed, Working, Queues
  <2>2. queue'[self].items = items \/ queue'[self].items = Append(items, busy)
    BY <1>2 DEF Completed
  <2>3. \A i \in DOMAIN Append(items, busy) :
          Append(items, busy)[i] = busy \/ (i \in DOMAIN items /\ Append(items, busy)[i] = items[i])
    BY <2>1, AppendProperties
  <2> HIDE DEF items, busy
  <2>4. \A i \in DOMAIN items : items[i].action # "delete"
    BY DEF Growth, Undeleted, items
  <2> QED BY <1>2, <2>1, <2>2, <2>3, <2>4, IdleWithin DEF Undeleted
<1> QED BY <1>1, <1>4, <1>5 DEF Growth

LEMMA SyncVmGrowth ==
    ASSUME Growth, Typed', SyncVm
    PROVE  Growth'
<1> DEFINE e  == queue[self].busy
           o  == vmIndexer[e.key]
           sp == [n \in Nics |-> IF n \in o.nics THEN NoIP ELSE NoNic]
           x  == [IdleWorker EXCEPT !.pc = "macs", !.obj = cfg[e.key], !.spec = sp]
<1>1. /\ worker[self].pc # "idle" /\ e.key \in VMs /\ phase = "running" /\ e.action # "delete"
      /\ o.nics \subseteq Nics
  BY SelfInside DEF SyncVm, KeyOf, Growth, Typed, TypeOK, VmObjects
<1>2. Outside /\ UNCHANGED <<cfg, cfgIndexer, cfgWatch>>
  BY DEF SyncVm, Outside, Growth, Unspent, api, events, boot
<1>3. Done(self) \/ (Step(self, x) /\ UNCHANGED queue)
  BY <1>1 DEF SyncVm
<1>4. /\ x.obj = cfg[e.key] /\ x.spec = sp /\ x.pc = "macs" /\ x.next = "nic" /\ x.todo = {}
  BY DEF IdleWorker
<1>5. NicsOf(sp) = o.nics /\ Bound(e.key) = o.nics
  BY <1>1, ConstantsAssumption DEF NicsOf, Bound
<1> HIDE DEF x, sp
<1>6. Live(cfg[e.key], e.key)
  BY <1>1 DEF Growth, Copies
<1>7. Within(x, KeyOf(self)) /\ NicsOf(x.obj.spec) \subseteq NicsOf(x.spec)
  BY <1>4, <1>5, <1>6 DEF Within, AtNic, Live, KeyOf
<1> QED BY <1>1, <1>2, <1>3, <1>4, <1>7, OutsideKeeps, SelfStep, SelfDone

LEMMA CheckMacsGrowth ==
    ASSUME Growth, Typed', CheckMacs
    PROVE  Growth'
<1> DEFINE w == worker[self]
           t == {n \in NicsOf(w.spec) : CheckLease(MacOf(n))}
           x == [w EXCEPT !.pc = "refs", !.todo = t]
<1>1. /\ w.pc = "macs" /\ w.pc # "idle" /\ w \in Workers /\ Within(w, KeyOf(self))
      /\ w.next # "clean" /\ NicsOf(w.obj.spec) \subseteq NicsOf(w.spec)
  BY SelfInside DEF CheckMacs
<1>2. /\ x.obj = w.obj /\ x.spec = w.spec /\ x.todo = t /\ x.next = w.next /\ x.pc = "refs"
  BY <1>1 DEF Workers
<1>3. Step(self, x) /\ Outside /\ UNCHANGED <<cfg, cfgIndexer, cfgWatch, queue>>
  BY DEF CheckMacs, Outside, Growth, Unspent, api, events, boot
<1> HIDE DEF x
<1>4. Within(x, KeyOf(self))
  BY <1>1, <1>2 DEF Within, AtNic
<1> QED BY <1>1, <1>2, <1>3, <1>4, SelfStep

\* No interface is dropped: the virtual machine has every one its object lists.
LEMMA CheckRefsGrowth ==
    ASSUME Growth, Typed', CheckRefs
    PROVE  Growth'
<1> DEFINE w    == worker[self]
           spec == NetworkConfigs(w)
           x    == [w EXCEPT !.pc = IF w.obj.exists THEN "clean" ELSE "create",
                             !.todo = Dropped(w.obj.spec, spec), !.spec = spec]
<1>1. /\ w.pc = "refs" /\ w.pc # "idle" /\ w \in Workers /\ Within(w, KeyOf(self))
      /\ w.next # "clean" /\ NicsOf(w.obj.spec) \subseteq NicsOf(w.spec)
  BY SelfInside DEF CheckRefs
<1>2. NicsOf(spec) = NicsOf(w.spec)
  BY ConstantsAssumption DEF NicsOf, NetworkConfigs
<1>3. Dropped(w.obj.spec, spec) = {}
  BY <1>1 DEF Dropped, NicsOf, NetworkConfigs
<1>4. /\ x.obj = w.obj /\ x.spec = spec /\ x.todo = {} /\ x.next = w.next
      /\ x.pc \in {"clean", "create"}
  BY <1>1, <1>3 DEF Workers
<1>5. Outside /\ UNCHANGED <<cfg, cfgIndexer, cfgWatch>>
  BY DEF CheckRefs, Outside, Growth, Unspent, api, events
<1>6. Done(self) \/ (Step(self, x) /\ UNCHANGED queue)
  BY DEF CheckRefs, Return
<1> HIDE DEF x, spec
<1>7. Within(x, KeyOf(self))
  BY <1>1, <1>2, <1>4 DEF Within, AtNic
<1> QED BY <1>1, <1>4, <1>5, <1>6, <1>7, OutsideKeeps, SelfStep, SelfDone

LEMMA WriteVmCfgGrowth ==
    ASSUME Growth, Typed', CreateCfg \/ UpdateCfg
    PROVE  Growth'
<1> DEFINE w == worker[self]
           v == KeyOf(self)
           x == [cfg[v] EXCEPT !.exists = TRUE, !.spec = w.spec, !.fin = TRUE, !.ctime = clock]
           y == [cfg[v] EXCEPT !.spec = w.spec]
<1>1. /\ w.pc # "idle" /\ v \in VMs /\ w.spec \in Specs /\ cfg[v] \in CfgObjects /\ clock \in Nat
      /\ Within(w, v)
  BY SelfInside DEF CreateCfg, UpdateCfg, Growth, Typed, TypeOK, Workers
<1>2. /\ x \in CfgObjects /\ x.spec = w.spec /\ x.del = cfg[v].del
      /\ y \in CfgObjects /\ y.spec = w.spec /\ y.del = cfg[v].del
  BY <1>1 DEF CfgObjects
<1>3. Outside /\ UNCHANGED cfgIndexer /\ Done(self)
  BY DEF CreateCfg, UpdateCfg, Outside, Growth, Unspent, Return
<1>4. WriteCfg(v, x) \/ WriteCfg(v, y) \/ UNCHANGED <<cfg, cfgWatch>>
  BY DEF CreateCfg, UpdateCfg
<1> HIDE DEF x, y
<1>5. Live(x, v) /\ Live(y, v)
  BY <1>1, <1>2 DEF Live, Within, Growth, Copies
<1>6. \A u \in VMs : Bound(u)' = Bound(u)
  BY <1>3, OutsideKeeps
<1>7. Copies'
  BY <1>1, <1>2, <1>3, <1>4, <1>5, <1>6, OutsideKeeps, WriteLive
<1> QED BY <1>1, <1>3, <1>7, SelfDone

LEMMA VmWorkerGrowth ==
    ASSUME Growth, Typed', VmWorker
    PROVE  Growth'
<1>1. ~ \/ DeleteCfg \/ Cleanup(self) \/ ReleaseIP(self)
        \/ UpdateIPPoolStatusGet(self) \/ UpdateIPPoolStatusPut(self)
  BY SelfInside
  DEF DeleteCfg, Cleanup, ReleaseIP, UpdateIPPoolStatusGet, UpdateIPPoolStatusPut
<1> QED BY <1>1, TwoWorkers, TakeItemGrowth, SyncVmGrowth, CheckMacsGrowth, CheckRefsGrowth,
           WriteVmCfgGrowth DEF VmWorker

-----------------------------------------------------------------------------
(* Growth: the start, the informers and the environment.                   *)

\* A step outside the workers, which may queue an event.
LEMMA OutsideGrowth ==
    ASSUME Growth, Typed', Unspent', Growing', Copies', UNCHANGED worker,
           \A c \in Controllers : worker[c].pc # "idle" => queue'[c].busy = queue[c].busy,
           \A v \in VMs : Bound(v) \subseteq Bound(v)',
           \A i \in DOMAIN queue'[self].items : queue'[self].items[i].action # "delete"
    PROVE  Growth'
<1>1. \A c \in Controllers : worker[c].pc # "idle" => KeyOf(c) \in VMs
  BY WorkerTyped DEF Growth
<1>2. Uncleaned'
  BY <1>1, TwoWorkers DEF Growth, Uncleaned, Within, AtNic, Live, KeyOf
<1>3. Undeleted'
  BY TwoWorkers DEF Growth, Undeleted
<1> QED BY <1>2, <1>3 DEF Growth

\* The queue a first list leaves holds additions only.
LEMMA ListedAdds ==
    ASSUME NEW S, NEW q \in Listings({[key |-> v, action |-> "add"] : v \in S})
    PROVE  \A i \in DOMAIN q.items : q.items[i].action # "delete"
<1> DEFINE T == {[key |-> v, action |-> "add"] : v \in S}
<1>1. PICK s \in [1..Cardinality(T) -> T] : q = [EmptyQueue EXCEPT !.items = s]
  BY DEF Listings
<1>2. q.items = s
  BY <1>1 DEF EmptyQueue
<1> QED BY <1>2

LEMMA StartGrowth ==
    ASSUME Growth, Typed', Start
    PROVE  Growth'
<1>1. UNCHANGED <<vm, cfg, vmWatch, cfgWatch, worker, budget>>
  BY DEF Start, StartPools, CountVmNetCfgs, StartCfgListener, StartVmListener, api, events
<1>2. CASE StartPools \/ CountVmNetCfgs
  <2>1. UNCHANGED <<vmIndexer, cfgIndexer, queue>> /\ \A v \in VMs : Bound(v)' = Bound(v)
    BY <1>1, <1>2 DEF StartPools, CountVmNetCfgs, events, Bound
  <2>2. Unspent' /\ Growing' /\ Copies'
    BY <1>1, <2>1 DEF Growth, Unspent, Growing, Chain, Copies, Live
  <2> QED BY <1>1, <2>1, <2>2, OutsideGrowth DEF Growth, Undeleted
<1>3. CASE StartCfgListener
  <2>1. /\ vmIndexer' = vmIndexer /\ cfgIndexer' = cfg /\ \A v \in VMs : Bound(v)' = Bound(v)
    BY <1>1, <1>3 DEF StartCfgListener, Bound
  <2>2. queue'[self] = queue[self] /\ worker[me].pc = "idle"
    BY <1>3, TwoWorkers DEF StartCfgListener, Growth, Typed, Working, Quiet, Watched
  <2>3. Unspent' /\ Growing' /\ Copies'
    BY <1>1, <2>1 DEF Growth, Unspent, Growing, Chain, Copies, Live
  <2> QED BY <1>1, <2>1, <2>2, <2>3, TwoWorkers, OutsideGrowth DEF Growth, Undeleted
<1>4. CASE StartVmListener
  <2>1. /\ vmIndexer' = vm /\ cfgIndexer' = cfgIndexer
        /\ \A v \in VMs : Bound(v)' = Bound(v) /\ vmWatch[v] = <<>>
    BY <1>1, <1>4 DEF StartVmListener, Bound, Growth, Typed, Quiet
  <2>2. queue'[me] = queue[me] /\ worker[self].pc = "idle"
    BY <1>4, TwoWorkers DEF StartVmListener, Growth, Typed, Working, Quiet
  <2>3. \A i \in DOMAIN queue'[self].items : queue'[self].items[i].action # "delete"
    <3>1. PICK q \in Listings({[key |-> v, action |-> "add"] : v \in {u \in VMs : vm[u].exists}}) :
            queue' = [queue EXCEPT ![self] = q]
      BY <1>4, TwoWorkers DEF StartVmListener
    <3>2. queue'[self] = q
      BY <3>1, TwoWorkers DEF Growth, Typed, Working
    <3> QED BY <3>2, ListedAdds
  <2>4. Unspent' /\ Copies'
    BY <1>1, <2>1 DEF Growth, Unspent, Copies, Live
  <2>5. Growing'
    BY <1>1, <2>1 DEF Growth, Growing, Chain
  <2> QED BY <1>1, <2>1, <2>2, <2>3, <2>4, <2>5, TwoWorkers, OutsideGrowth
<1> QED BY <1>2, <1>3, <1>4 DEF Start

LEMMA DeliverCfgGrowth ==
    ASSUME Growth, Typed', NEW v \in VMs, DeliverCfg(v)
    PROVE  Growth'
<1> DEFINE new == Head(cfgWatch[v])
           e   == [key |-> v, action |-> ActionOf(cfgIndexer[v], new)]
<1>1. cfgWatch \in [VMs -> Seq(CfgObjects)] /\ cfgWatch[v] # <<>> /\ cfgIndexer \in [VMs -> CfgObjects]
  BY DEF DeliverCfg, Growth, Typed, TypeOK
<1>2. /\ UNCHANGED <<cfg, worker>> /\ Outside
      /\ cfgWatch' = [cfgWatch EXCEPT ![v] = Tail(cfgWatch[v])]
      /\ cfgIndexer' = [cfgIndexer EXCEPT ![v] = new]
  BY DEF DeliverCfg, Outside, Growth, Unspent, api, boot
<1>3. new = cfgWatch[v][1] /\ 1 \in DOMAIN cfgWatch[v]
  BY <1>1, HeadTailProperties, LenProperties
<1>4. \A i \in DOMAIN Tail(cfgWatch[v]) :
        i + 1 \in DOMAIN cfgWatch[v] /\ Tail(cfgWatch[v])[i] = cfgWatch[v][i + 1]
  BY <1>1, HeadTailProperties, LenProperties
<1>5. Unspent' /\ Growing' /\ \A u \in VMs : Bound(u)' = Bound(u)
  BY <1>2, OutsideKeeps
<1>6. Copies'
  <2>1. \A u \in VMs : Live(cfg[u], u)' /\ Live(cfgIndexer[u], u)'
    BY <1>1, <1>2, <1>3, <1>5 DEF Growth, Copies, Live
  <2>2. \A u \in VMs : \A i \in DOMAIN cfgWatch'[u] :
          \E j \in DOMAIN cfgWatch[u] : cfgWatch'[u][i] = cfgWatch[u][j]
    BY <1>1, <1>2, <1>4
  <2> QED BY <1>5, <2>1, <2>2 DEF Growth, Copies, Live
<1>7. e \in Event
  BY DEF Event, Actions, ActionOf
<1>8. queue'[self] = queue[self] /\ queue'[me].busy = queue[me].busy
  BY <1>7, TwoWorkers, EnqueuedTyped DEF DeliverCfg, Growth, Typed, Working
<1> QED BY <1>2, <1>5, <1>6, <1>8, TwoWorkers, OutsideGrowth DEF Growth, Undeleted

LEMMA DeliverVmGrowth ==
    ASSUME Growth, Typed', NEW v \in VMs, DeliverVm(v)
    PROVE  Growth'
<1> DEFINE new == Head(vmWatch[v])
           e   == [key |-> v, action |-> ActionOf(vmIndexer[v], new)]
<1>1. vmWatch \in [VMs -> Seq(VmObjects)] /\ vmWatch[v] # <<>> /\ vmIndexer \in [VMs -> VmObjects]
  BY DEF DeliverVm, Growth, Typed, TypeOK
<1>2. /\ UNCHANGED <<vm, cfg, cfgWatch, cfgIndexer, worker, phase, budget>>
      /\ vmWatch' = [vmWatch EXCEPT ![v] = Tail(vmWatch[v])]
      /\ vmIndexer' = [vmIndexer EXCEPT ![v] = new]
  BY DEF DeliverVm, api, boot
<1>3. new = vmWatch[v][1] /\ 1 \in DOMAIN vmWatch[v]
  BY <1>1, HeadTailProperties, LenProperties
<1>4. \A i \in DOMAIN Tail(vmWatch[v]) :
        i \in Nat /\ 1 <= i + 1 /\ i + 1 \in DOMAIN vmWatch[v] /\ Tail(vmWatch[v])[i] = vmWatch[v][i + 1]
  BY <1>1, HeadTailProperties, LenProperties
<1>5. vmIndexer'[v] = new /\ vmWatch'[v] = Tail(vmWatch[v])
      /\ \A u \in VMs \ {v} : vmIndexer'[u] = vmIndexer[u] /\ vmWatch'[u] = vmWatch[u]
  BY <1>1, <1>2
<1>6. new.exists /\ vmIndexer[v].nics \subseteq new.nics
  BY <1>3 DEF Growth, Growing, Chain
<1>7. \A u \in VMs : Bound(u) \subseteq Bound(u)'
  BY <1>2, <1>5, <1>6 DEF Bound
<1>8. Growing'
  <2>1. /\ new.nics \subseteq vm[v].nics
        /\ \A i \in DOMAIN Tail(vmWatch[v]) :
             /\ Tail(vmWatch[v])[i].exists
             /\ new.nics \subseteq Tail(vmWatch[v])[i].nics
             /\ Tail(vmWatch[v])[i].nics \subseteq vm[v].nics
             /\ \A j \in DOMAIN Tail(vmWatch[v]) :
                  i <= j => Tail(vmWatch[v])[i].nics \subseteq Tail(vmWatch[v])[j].nics
    BY <1>3, <1>4 DEF Growth, Growing, Chain
  <2> HIDE DEF new
  <2>2. /\ vm' = vm /\ vm[v].nics \subseteq UNION Shapes[v] /\ (~vm[v].exists => vm[v].nics = {})
    BY <1>2 DEF Growth, Growing, Chain
  <2>3. Chain(v)'
    BY <1>5, <2>1, <2>2 DEF Chain
  <2>4. \A u \in VMs \ {v} : Chain(u)'
    BY <1>2, <1>5 DEF Growth, Growing, Chain
  <2> QED BY <2>3, <2>4 DEF Growing
<1>9. Unspent' /\ Copies'
  BY <1>2, <1>7 DEF Growth, Unspent, Copies, Live
<1>10. e \in Event /\ e.action # "delete"
  BY <1>6 DEF Event, Actions, ActionOf
<1>11. /\ queue'[me] = queue[me] /\ queue'[self].busy = queue[self].busy
       /\ queue'[self] = Enqueued(queue[self], e)
  BY <1>10, TwoWorkers, EnqueuedTyped DEF DeliverVm, Growth, Typed, Working
<1>12. \A i \in DOMAIN queue'[self].items : queue'[self].items[i].action # "delete"
  <2> DEFINE items == queue[self].items
  <2>1. items \in Seq(Event) /\ queue[self] \in Queues(Event)
    BY TwoWorkers DEF Growth, Typed, Working, Queues
  <2>2. queue'[self].items = items \/ queue'[self].items = Append(items, e)
    BY <1>11, <2>1 DEF Enqueued, Queues
  <2>3. \A i \in DOMAIN Append(items, e) :
          Append(items, e)[i] = e \/ (i \in DOMAIN items /\ Append(items, e)[i] = items[i])
    BY <1>10, <2>1, AppendProperties
  <2>4. \A i \in DOMAIN items : items[i].action # "delete"
    BY DEF Growth, Undeleted
  <2> HIDE DEF items, e
  <2> QED BY <1>10, <2>2, <2>3, <2>4
<1> QED BY <1>2, <1>7, <1>8, <1>9, <1>11, <1>12, TwoWorkers, OutsideGrowth

\* What was spent stays spent, and what may not be spent is not.
LEMMA SpendGrowth ==
    ASSUME Growth, NEW what \in BudgetKeys, Spend(what)
    PROVE  Unspent' /\ what \notin {"delete", "unplug", "manual"}
BY SpendTyped DEF Growth, Typed, TypeOK, Unspent, Spend, BudgetKeys

LEMMA WriteVmGrowth ==
    ASSUME Growth, Typed', Unspent', NEW v \in VMs, NEW nics \in Shapes[v],
           vm[v].nics \subseteq nics, WriteVm(v, [exists |-> TRUE, nics |-> nics])
    PROVE  Growth'
<1> DEFINE new == [exists |-> TRUE, nics |-> nics]
<1>1. /\ UNCHANGED <<cfg, cfgWatch, cfgIndexer, vmIndexer, queue, worker, phase>>
      /\ vm' = [vm EXCEPT ![v] = new]
      /\ vmWatch' = vmWatch \/ vmWatch' = [vmWatch EXCEPT ![v] = Append(vmWatch[v], new)]
  BY DEF WriteVm
<1>2. vm'[v] = new /\ \A u \in VMs \ {v} : vm'[u] = vm[u] /\ vmWatch'[u] = vmWatch[u]
  BY <1>1 DEF Growth, Typed, TypeOK
<1>3. \A u \in VMs : Bound(u) \subseteq Bound(u)'
  BY <1>1, <1>2 DEF Bound
<1>4. vmWatch[v] \in Seq(VmObjects) /\ new \in VmObjects
  BY EnvironmentAssumption DEF Growth, Typed, TypeOK, VmObjects
<1>5. /\ Len(vmWatch[v]) \in Nat /\ DOMAIN vmWatch[v] = 1..Len(vmWatch[v])
      /\ DOMAIN Append(vmWatch[v], new) = 1..(Len(vmWatch[v]) + 1)
      /\ Append(vmWatch[v], new)[Len(vmWatch[v]) + 1] = new
      /\ \A i \in DOMAIN vmWatch[v] : Append(vmWatch[v], new)[i] = vmWatch[v][i]
  BY <1>4, AppendProperties, LenProperties
<1>6. /\ vmIndexer[v].nics \subseteq vm[v].nics /\ vm[v].nics \subseteq nics
      /\ \A i \in DOMAIN vmWatch[v] :
           /\ vmWatch[v][i].exists
           /\ vmIndexer[v].nics \subseteq vmWatch[v][i].nics
           /\ vmWatch[v][i].nics \subseteq nics
           /\ \A j \in DOMAIN vmWatch[v] :
                i <= j => vmWatch[v][i].nics \subseteq vmWatch[v][j].nics
  BY DEF Growth, Growing, Chain
<1>7. Chain(v)'
  <2>1. new.exists /\ new.nics = nics /\ nics \subseteq UNION Shapes[v] /\ vmIndexer' = vmIndexer
    BY <1>1
  <2> HIDE DEF new
  <2>2. CASE vmWatch' = vmWatch
    BY <1>2, <1>6, <2>1, <2>2 DEF Chain
  <2>3. CASE vmWatch'[v] = Append(vmWatch[v], new)
    <3>1. \A i \in DOMAIN vmWatch'[v] :
            \/ i \in DOMAIN vmWatch[v] /\ vmWatch'[v][i] = vmWatch[v][i]
            \/ i = Len(vmWatch[v]) + 1 /\ vmWatch'[v][i] = new
      BY <1>5, <2>3
    <3>2. \A i, j \in DOMAIN vmWatch'[v] : i <= j => vmWatch'[v][i].nics \subseteq vmWatch'[v][j].nics
      BY <1>5, <1>6, <2>1, <3>1
    <3> QED BY <1>2, <1>6, <2>1, <3>1, <3>2 DEF Chain
  <2> QED BY <1>1, <2>2, <2>3 DEF Growth, Typed, TypeOK
<1>8. \A u \in VMs \ {v} : Chain(u)'
  BY <1>1, <1>2 DEF Growth, Growing, Chain
<1>9. Copies'
  BY <1>1, <1>3 DEF Growth, Copies, Live
<1> QED BY <1>1, <1>3, <1>7, <1>8, <1>9, OutsideGrowth DEF Growing, Growth, Undeleted

LEMMA UsersGrowth ==
    ASSUME Growth, Typed', NEW v \in VMs,
           CreateVm(v) \/ UpdateVm(v) \/ DeleteVm(v) \/ EditIP(v) \/ CreateManually(v)
    PROVE  Growth'
<1> USE DEF BudgetKeys
<1>1. CASE CreateVm(v)
  <2>1. Unspent'
    BY <1>1, SpendGrowth DEF CreateVm
  <2>2. vm[v].nics = {}
    BY <1>1 DEF CreateVm, Growth, Growing, Chain
  <2> QED BY <1>1, <2>1, <2>2, WriteVmGrowth DEF CreateVm
<1>2. CASE UpdateVm(v)
  <2>1. PICK nics \in Shapes[v] :
          /\ Spend(IF vm[v].nics \subseteq nics THEN "update" ELSE "unplug")
          /\ WriteVm(v, [exists |-> TRUE, nics |-> nics])
    BY <1>2 DEF UpdateVm
  <2>2. Unspent' /\ vm[v].nics \subseteq nics
    BY <2>1, SpendGrowth
  <2> QED BY <2>1, <2>2, WriteVmGrowth
<1>3. CASE DeleteVm(v) \/ CreateManually(v)
  BY <1>3, SpendGrowth DEF DeleteVm, CreateManually
<1>4. CASE EditIP(v)
  <2> DEFINE obj(n, a) == [cfg[v] EXCEPT !.spec[n] = a]
  <2>1. PICK n \in NicsOf(cfg[v].spec), a \in IPs : WriteCfg(v, obj(n, a))
    BY <1>4 DEF EditIP
  <2>2. Unspent' /\ UNCHANGED <<vm, vmWatch, vmIndexer, cfgIndexer, queue, worker, phase>>
    BY <1>4, SpendGrowth DEF EditIP
  <2>3. cfg[v] \in CfgObjects /\ cfg[v].spec \in Specs
    BY DEF Growth, Typed, TypeOK, CfgObjects
  <2>4. [cfg[v].spec EXCEPT ![n] = a] \in Specs /\ NicsOf([cfg[v].spec EXCEPT ![n] = a]) = NicsOf(cfg[v].spec)
    BY <2>3, ConstantsAssumption DEF Specs, NicsOf
  <2>5. /\ obj(n, a) \in CfgObjects /\ obj(n, a).spec = [cfg[v].spec EXCEPT ![n] = a]
        /\ obj(n, a).del = cfg[v].del
    BY <2>3, <2>4 DEF CfgObjects
  <2> HIDE DEF obj
  <2>6. Live(obj(n, a), v)
    BY <2>4, <2>5 DEF Growth, Copies, Live
  <2>7. Growing' /\ \A u \in VMs : Bound(u)' = Bound(u)
    BY <2>2 DEF Growth, Growing, Chain, Bound
  <2>8. Copies'
    BY <2>1, <2>2, <2>5, <2>6, <2>7, WriteLive
  <2> QED BY <2>2, <2>7, <2>8, OutsideGrowth DEF Growth, Undeleted
<1> QED BY <1>1, <1>2, <1>3, <1>4

LEMMA PoolsGrowth ==
    ASSUME Growth, Typed', NEW n \in Networks, UncachePool(n) \/ CachePool(n)
    PROVE  Growth'
<1>1. Unspent'
  BY SpendGrowth DEF UncachePool, CachePool, BudgetKeys, boot, Growth, Unspent
<1>2. UNCHANGED <<vm, cfg, vmWatch, cfgWatch, vmIndexer, cfgIndexer, queue, worker, phase>>
  BY DEF UncachePool, CachePool, api, events, boot
<1>3. Growing' /\ Copies' /\ \A u \in VMs : Bound(u)' = Bound(u)
  BY <1>2 DEF Growth, Growing, Chain, Copies, Live, Bound
<1> QED BY <1>1, <1>2, <1>3, OutsideGrowth DEF Growth, Undeleted

LEMMA CountErrorGrowth ==
    ASSUME Growth, Typed', CountError
    PROVE  Growth'
<1>1. /\ UNCHANGED <<vm, cfg, vmWatch, cfgWatch, vmIndexer, cfgIndexer, queue, worker>>
      /\ phase = "pools" /\ phase' = "unlistened"
  BY DEF CountError, api, events
<1>2. Unspent'
  BY SpendGrowth DEF CountError, BudgetKeys
<1>3. Growing' /\ Copies' /\ \A v \in VMs : Bound(v)' = Bound(v)
  BY <1>1 DEF Growth, Growing, Chain, Copies, Live, Bound
<1> QED BY <1>1, <1>2, <1>3, OutsideGrowth DEF Growth, Undeleted

LEMMA ApiErrorGrowth ==
    ASSUME Growth, Typed', NEW c \in Controllers, ApiError(c)
    PROVE  Growth'
<1> DEFINE w == worker[c]
           x == [w EXCEPT !.pc = w.next, !.fresh = FALSE, !.used = 0, !.retry = 0]
<1>1. w.pc # "idle" /\ w \in Workers
  BY WorkerTyped DEF ApiError, Growth
<1>2. Outside /\ UNCHANGED <<cfg, cfgWatch>>
  BY SpendGrowth DEF ApiError, Outside, BudgetKeys, api, events
<1>3. \A u \in VMs : cfgIndexer'[u].del = cfgIndexer[u].del /\ cfgIndexer'[u].spec = cfgIndexer[u].spec
  BY OverwrittenStatus DEF ApiError, Growth
<1>4. (\A u \in VMs : Bound(u)' = Bound(u)) /\ Copies'
  BY <1>2, <1>3, OutsideKeeps DEF Growth, Copies, Live
<1>5. CASE w.pc \in {"poolget", "poolput"} /\ Step(c, x) /\ UNCHANGED <<queue, cfgIndexer>>
  <2>1. c = me
    BY <1>5, TwoWorkers, SelfInside
  <2>2. w.next \in {"nic", "getip"} /\ Within(w, KeyOf(me)) /\ AtNic(w)
    BY <1>1, <1>5, <2>1, MeInside DEF Workers, AtNic
  <2>3. /\ x.obj = w.obj /\ x.spec = w.spec /\ x.todo = w.todo /\ x.nic = w.nic
        /\ x.next = w.next /\ x.pc = w.next
    BY <1>1 DEF Workers
  <2> HIDE DEF x
  <2>4. Within(x, KeyOf(me))
    BY <2>2, <2>3, SameWithin
  <2> QED BY <1>1, <1>2, <1>5, <2>1, <2>2, <2>3, <2>4, MeStep
<1>6. CASE c = me /\ Done(me)
  BY <1>1, <1>2, <1>4, <1>6, MeDone
<1>7. CASE c = self /\ Done(self)
  BY <1>1, <1>2, <1>4, <1>7, SelfDone
<1> QED BY <1>5, <1>6, <1>7, TwoWorkers DEF ApiError, Return

LEMMA CrashGrowth ==
    ASSUME Growth, Typed', Crash
    PROVE  Growth'
<1>1. Unspent' /\ phase' = "down" /\ UNCHANGED <<vm, cfg>>
  BY SpendGrowth DEF Crash, BudgetKeys, api
<1>2. /\ \A v \in VMs : /\ vmWatch'[v] = <<>> /\ cfgWatch'[v] = <<>>
                        /\ vmIndexer'[v] = GoneVm /\ cfgIndexer'[v] = GoneCfg(0)
      /\ \A c \in Controllers : worker'[c] = IdleWorker /\ queue'[c] = EmptyQueue
  BY DEF Crash
<1>3. \A v \in VMs : Bound(v) \subseteq Bound(v)'
  BY <1>1 DEF Bound, Growth, Growing, Chain
<1>4. Growing'
  BY <1>1, <1>2 DEF Growth, Growing, Chain, GoneVm
<1>5. Copies'
  BY <1>1, <1>2, <1>3, IdleWithin DEF Growth, Copies, Live
<1>6. Uncleaned' /\ Undeleted'
  BY <1>2, TwoWorkers, IdleWithin DEF Uncleaned, Undeleted, EmptyQueue
<1> QED BY <1>1, <1>4, <1>5, <1>6 DEF Growth

LEMMA NextGrowth ==
    ASSUME Growth, [Next]_vars
    PROVE  Growth'
<1>0. Typed'
  BY NextTyped DEF Growth
<1>1. CASE Start \/ CfgWorker \/ VmWorker
  BY <1>0, <1>1, StartGrowth, CfgWorkerGrowth, VmWorkerGrowth
<1>2. CASE Informers
  BY <1>0, <1>2, DeliverCfgGrowth, DeliverVmGrowth DEF Informers
<1>3. CASE Pools
  BY <1>0, <1>3, PoolsGrowth DEF Pools
<1>4. CASE Users
  BY <1>0, <1>4, UsersGrowth DEF Users
<1>5. CASE Faults
  BY <1>0, <1>5, CrashGrowth, CountErrorGrowth, ApiErrorGrowth DEF Faults
<1>6. CASE Tick \/ UNCHANGED vars
  <2>1. /\ UNCHANGED <<cfg, cfgWatch, cfgIndexer, queue, worker>>
        /\ UNCHANGED <<vm, vmWatch, vmIndexer, phase, budget>>
    BY <1>6 DEF Tick, vars, api, events, boot
  <2>2. Outside
    BY <2>1 DEF Outside, Growth, Unspent
  <2> QED BY <1>0, <2>1, <2>2, OutsideKeeps, OutsideGrowth DEF Growth, Undeleted
<1> QED BY <1>1, <1>2, <1>3, <1>4, <1>5, <1>6 DEF Next

\* The environment in which the theorems below hold: nothing is deleted,
\* unplugged or created by hand.
OnlyGrowth == Budget["delete"] = 0 /\ Budget["unplug"] = 0 /\ Budget["manual"] = 0

LEMMA InitGrowth ==
    ASSUME OnlyGrowth, Init
    PROVE  Growth
<1>1. Typed
  BY InitTyped
<1>2. /\ \A v \in VMs : /\ vm[v] = GoneVm /\ cfg[v] = GoneCfg(0) /\ vmWatch[v] = <<>>
                        /\ cfgWatch[v] = <<>> /\ vmIndexer[v] = GoneVm /\ cfgIndexer[v] = GoneCfg(0)
      /\ \A c \in Controllers : worker[c] = IdleWorker /\ queue[c] = EmptyQueue
  BY DEF Init
<1>3. Unspent /\ Growing /\ Copies
  BY <1>2, IdleWithin DEF Init, OnlyGrowth, Unspent, Growing, Chain, GoneVm, Copies
<1>4. Uncleaned /\ Undeleted
  BY <1>2, TwoWorkers, IdleWithin DEF Uncleaned, Undeleted, EmptyQueue
<1> QED BY <1>1, <1>3, <1>4 DEF Growth

-----------------------------------------------------------------------------
(* The leases, for the steps of the vmnetcfg worker that touch them.       *)

LEMMA BoundShapes ==
    ASSUME Growth, NEW v \in VMs
    PROVE  Bound(v) \subseteq UNION Shapes[v]
BY DEF Growth, Growing, Chain, Bound

\* The worker is at an interface its virtual machine had.
LEMMA AtShape ==
    ASSUME Growth, AtNic(worker[me])
    PROVE  /\ worker[me].pc # "idle" /\ worker[me] \in Workers /\ KeyOf(me) \in VMs
           /\ worker[me].nic \in Nics /\ worker[me].nic \in UNION Shapes[KeyOf(me)]
           /\ worker[me].nic = <<MacOf(worker[me].nic), NetOf(worker[me].nic)>>
           /\ MacOf(worker[me].nic) \in MACs /\ NetOf(worker[me].nic) \in Networks
<1>1. worker[me].pc # "idle"
  BY DEF AtNic
<1>2. /\ worker[me] \in Handlers /\ worker[me] \in Workers /\ KeyOf(me) \in VMs
      /\ worker[me].nic \in Bound(KeyOf(me))
  BY <1>1, MeInside DEF Within
<1>3. worker[me].nic \in Nics
  BY <1>2 DEF Handlers
<1> QED BY <1>1, <1>2, <1>3, BoundShapes DEF Nics, MacOf, NetOf

LEMMA LeaseTypes ==
    ASSUME Growth
    PROVE  leases \in [MACs -> Leases] /\ ipam \in [Networks -> SUBSET IPs]
BY DEF Growth, Typed, TypeOK

\* A step that leaves the leases and the tables alone.
LEMMA SameLeases ==
    ASSUME Leasing, UNCHANGED <<leases, ipam>>, Watched => Watched',
           \/ worker'[me].pc \notin {"addlease", "release", "held"}
           \/ Still(me) /\ KeyOf(me)' = KeyOf(me)
    PROVE  Leasing'
<1>1. /\ \A m \in MACs : CheckLease(m)' = CheckLease(m) /\ Marked(m)' = Marked(m)
      /\ UniqueLease' = UniqueLease
      /\ \A net, a : NotServed(net, a)' = NotServed(net, a)
  BY DEF CheckLease, Marked, UniqueLease, NotServed
<1>2. Reserved'
  BY <1>1 DEF Leasing, Reserved, Still
<1> QED BY <1>1, <1>2 DEF Leasing, NoLeases

LEMMA CheckOwnerLeases ==
    ASSUME Growth, Leasing, CheckOwner
    PROVE  Leasing'
<1> DEFINE w == worker[me]
           x == [w EXCEPT !.pc = "held"]
<1>1. AtNic(w) /\ UNCHANGED <<leases, ipam, queue, phase>>
  BY DEF CheckOwner, AtNic, memory, boot
<1>2. /\ w \in Workers /\ w.nic \in Nics /\ me \in Controllers
      /\ worker \in [Controllers -> Handlers]
  BY <1>1, AtShape, TwoWorkers DEF Growth, Typed, Working
<1>3. x.pc = "held" /\ x.nic = w.nic /\ InError(w, w.nic).pc = "nic"
  BY <1>2 DEF Workers, InError
<1> HIDE DEF x
<1>4. CASE worker'[me] = InError(w, w.nic)
  BY <1>1, <1>3, <1>4, SameLeases DEF Watched
<1>5. CASE worker'[me] = x /\ leases[MacOf(w.nic)].ref = KeyOf(me)
  <2>1. /\ \A m \in MACs : CheckLease(m)' = CheckLease(m) /\ Marked(m)' = Marked(m)
        /\ UniqueLease' = UniqueLease
    BY <1>1 DEF CheckLease, Marked, UniqueLease
  <2>2. Reserved'
    BY <1>1, <1>3, <1>5 DEF Reserved, KeyOf
  <2> QED BY <1>1, <2>1, <2>2 DEF Leasing, NoLeases, Watched
<1> QED BY <1>2, <1>4, <1>5 DEF CheckOwner, Step, Duplicate, x

\* A virtual machine has a MAC address on one network only.
OneNetwork ==
    \A v \in VMs : \A n, k \in UNION Shapes[v] : MacOf(n) = MacOf(k) => n = k

LEMMA DeletedLease ==
    ASSUME Growth, Leasing, NEW mac \in MACs, DeleteLease(mac)
    PROVE  /\ leases'[mac] = ZeroLease
           /\ \A m \in MACs \ {mac} : leases'[m] = leases[m]
BY LeaseTypes DEF DeleteLease

LEMMA CheckHeldLeases ==
    ASSUME OneNetwork, Growth, Leasing, CheckHeld
    PROVE  Leasing'
<1> DEFINE w == worker[me]
           n == w.nic
           l == leases[MacOf(n)]
           x == [w EXCEPT !.pc = "getip"]
           y == [w EXCEPT !.pc = "nic", !.nic = NoNic, !.status[n] = w.obj.status[n]]
           z == [w EXCEPT !.pc = "release", !.ip = l.ip, !.next = "getip"]
<1>1. AtNic(w) /\ w.pc = "held" /\ UNCHANGED <<ipam, queue, phase>>
  BY DEF CheckHeld, AtNic, boot
<1>2. /\ w \in Workers /\ KeyOf(me) \in VMs /\ me \in Controllers
      /\ worker \in [Controllers -> Handlers]
      /\ MacOf(n) \in MACs /\ n = <<MacOf(n), NetOf(n)>> /\ n \in UNION Shapes[KeyOf(me)]
  BY <1>1, AtShape, TwoWorkers DEF Growth, Typed, Working
<1>3. /\ x.pc = "getip" /\ y.pc = "nic" /\ z.pc = "release" /\ z.nic = n /\ z.ip = l.ip
  BY <1>2 DEF Workers
<1> HIDE DEF x, y, z
<1>4. CASE worker'[me] \in {x, y} /\ UNCHANGED leases
  BY <1>1, <1>3, <1>4, SameLeases DEF Watched
<1>5. CASE worker'[me] = z /\ CheckLease(MacOf(n)) /\ DeleteLease(MacOf(n))
  <2>1. /\ leases'[MacOf(n)] = ZeroLease
        /\ \A m \in MACs \ {MacOf(n)} : leases'[m] = leases[m]
    BY <1>2, <1>5, DeletedLease
  <2>2. l.net = NetOf(n)
    <3>1. Marked(MacOf(n)) /\ l.ref = KeyOf(me)
      BY <1>1, <1>2, <1>5 DEF Leasing, Reserved
    <3>2. <<MacOf(n), l.net>> \in UNION Shapes[KeyOf(me)]
      BY <3>1 DEF Marked
    <3>3. <<MacOf(n), l.net>> = n
      BY <1>2, <3>2 DEF OneNetwork, MacOf
    <3> QED BY <1>2, <3>3
  <2>3. \A m \in MACs : CheckLease(m)' => /\ CheckLease(m) /\ leases'[m] = leases[m]
                                          /\ m # MacOf(n)
    BY <2>1 DEF CheckLease
  <2>4. \A m \in MACs : ~(CheckLease(m)' /\ leases'[m].net = NetOf(n) /\ leases'[m].ip = l.ip)
    BY <1>2, <1>5, <2>2, <2>3 DEF Leasing, UniqueLease
  <2>5. \A m \in MACs : CheckLease(m)' => Marked(m)'
    BY <1>1, <2>3 DEF Leasing, Marked
  <2>6. UniqueLease'
    BY <2>3 DEF Leasing, UniqueLease
  <2>7. Reserved'
    BY <1>3, <1>5, <2>4 DEF Reserved, NotServed
  <2>8. Watched'
    BY <1>1, <1>2 DEF Watched, Growth, Typed, Quiet, me
  <2> QED BY <2>5, <2>6, <2>7, <2>8 DEF Leasing
<1> QED BY <1>2, <1>4, <1>5 DEF CheckHeld, Step, x, y, z

LEMMA GetIPLeases ==
    ASSUME Growth, Leasing, GetIP
    PROVE  Leasing'
<1> DEFINE w   == worker[me]
           n   == w.nic
           net == NetOf(n)
           x(a) == [w EXCEPT !.pc = "addlease", !.ip = a]
           z   == [w EXCEPT !.ip = NoIP]
<1>1. AtNic(w) /\ w.pc = "getip" /\ UNCHANGED <<leases, queue, phase>>
  BY DEF GetIP, AtNic, boot
<1>2. /\ w \in Workers /\ me \in Controllers /\ worker \in [Controllers -> Handlers]
      /\ n \in Nics /\ net \in Networks
  BY <1>1, AtShape, TwoWorkers DEF Growth, Typed, Working
<1>3. CASE Step(me, InError(z, n)) /\ UNCHANGED ipam
  <2>1. z \in Workers
    BY <1>2 DEF Workers
  <2> HIDE DEF z
  <2>2. InError(z, n).pc = "nic"
    BY <1>2, <2>1 DEF Workers, InError
  <2>3. worker'[me].pc = "nic"
    BY <1>2, <1>3, <2>2 DEF Step
  <2> QED BY <1>1, <1>3, <2>3, SameLeases DEF Watched
<1>4. ASSUME NEW a \in Grantable(net, w.obj.spec[n]),
             ipam' = [ipam EXCEPT ![net] = @ \cup {a}], Step(me, x(a))
      PROVE  Leasing'
  <2>1. a \in IPs /\ a \notin ipam[net]
    BY DEF Grantable
  <2>2. x(a).pc = "addlease" /\ x(a).ip = a /\ x(a).nic = n /\ worker'[me] = x(a)
    BY <1>2, <1>4 DEF Workers, Step
  <2>3. a \in ipam'[net] /\ \A k \in Networks : ipam[k] \subseteq ipam'[k]
    BY <1>2, <1>4, LeaseTypes
  <2>4. \A m \in MACs : CheckLease(m)' = CheckLease(m)
    BY <1>1 DEF CheckLease
  <2>5. \A m \in MACs : CheckLease(m)' => Marked(m)'
    BY <1>1, <2>3, <2>4 DEF Leasing, Marked
  <2>6. \A m \in MACs : ~(CheckLease(m)' /\ leases'[m].net = net /\ leases'[m].ip = a)
    BY <1>1, <2>1, <2>4 DEF Leasing, Marked
  <2>7. UniqueLease'
    BY <1>1, <2>4 DEF Leasing, UniqueLease
  <2> HIDE DEF x
  <2>8. Reserved'
    BY <2>2, <2>3, <2>6 DEF Reserved, NotServed
  <2> QED BY <1>1, <2>5, <2>7, <2>8 DEF Leasing, Watched, NoLeases
<1> QED BY <1>3, <1>4 DEF GetIP

LEMMA RegisterLeaseLeases ==
    ASSUME Growth, Leasing, RegisterLease
    PROVE  Leasing'
<1> DEFINE w   == worker[me]
           n   == w.nic
           new == [ip |-> w.ip, ref |-> KeyOf(me), net |-> NetOf(n)]
           x   == [w EXCEPT !.pc = "poolget", !.op = "add", !.next = "nic", !.retry = 0,
                            !.change = TRUE, !.spec = Recorded(w), !.status[n] = "OK"]
<1>1. AtNic(w) /\ w.pc = "addlease" /\ UNCHANGED <<ipam, queue, phase>>
  BY DEF RegisterLease, AtNic, boot
<1>2. /\ w \in Workers /\ me \in Controllers /\ worker \in [Controllers -> Handlers]
      /\ MacOf(n) \in MACs /\ NetOf(n) \in Networks /\ KeyOf(me) \in VMs
      /\ n = <<MacOf(n), NetOf(n)>> /\ n \in UNION Shapes[KeyOf(me)]
  BY <1>1, AtShape, TwoWorkers DEF Growth, Typed, Working
<1>3. Step(me, x) /\ x.pc = "poolget"
  BY <1>2 DEF RegisterLease, Workers
<1>4. worker'[me].pc = "poolget"
  BY <1>2, <1>3 DEF Step
<1>5. CASE UNCHANGED leases
  BY <1>1, <1>4, <1>5, SameLeases DEF Watched
<1>6. CASE leases' = [leases EXCEPT ![MacOf(n)] = new]
  <2>1. /\ leases'[MacOf(n)] = new /\ \A m \in MACs \ {MacOf(n)} : leases'[m] = leases[m]
    BY <1>2, <1>6, LeaseTypes
  <2>2. w.ip \in ipam[NetOf(n)] /\ NotServed(NetOf(n), w.ip)
    BY <1>1 DEF Leasing, Reserved
  <2>3. \A m \in MACs : CheckLease(m)' => Marked(m)'
    <3>1. /\ new.net \in Networks /\ new.ip \in ipam[new.net] /\ new.ref \in VMs
          /\ <<MacOf(n), new.net>> \in UNION Shapes[new.ref]
      BY <1>2, <2>2
    <3> HIDE DEF new
    <3>2. \A m \in MACs \ {MacOf(n)} : CheckLease(m)' => Marked(m)'
      BY <1>1, <2>1 DEF CheckLease, Leasing, Marked
    <3>3. \A m \in MACs : m = MacOf(n) => Marked(m)'
      BY <1>1, <2>1, <3>1 DEF Marked
    <3> QED BY <3>2, <3>3
  <2>4. UniqueLease'
    BY <2>1, <2>2 DEF CheckLease, NotServed, Leasing, UniqueLease
  <2>5. Watched' /\ Reserved'
    BY <1>1, <1>4 DEF Watched, Growth, Typed, Quiet, me, Reserved
  <2> QED BY <2>3, <2>4, <2>5 DEF Leasing
<1> QED BY <1>5, <1>6 DEF RegisterLease, AddLease

LEMMA ReleaseIPLeases ==
    ASSUME Growth, Leasing, ReleaseIP(me)
    PROVE  Leasing'
<1> DEFINE w   == worker[me]
           net == NetOf(w.nic)
           x   == [w EXCEPT !.pc = "poolget", !.op = "delete", !.retry = 0]
           y   == [w EXCEPT !.pc = w.next]
<1>1. AtNic(w) /\ w.pc = "release" /\ UNCHANGED <<leases, queue, phase>>
  BY DEF ReleaseIP, AtNic, boot
<1>2. w \in Workers /\ me \in Controllers /\ worker \in [Controllers -> Handlers]
  BY <1>1, AtShape, TwoWorkers DEF Growth, Typed, Working
<1>3. worker'[me].pc \in {"poolget", "nic", "getip", "clean"}
  BY <1>2 DEF ReleaseIP, Step, Workers
<1>4. NotServed(net, w.ip) /\ ipam' = [ipam EXCEPT ![net] = @ \ {w.ip}]
  BY <1>1 DEF Leasing, Reserved, ReleaseIP, Released
<1>5. \A m \in MACs : CheckLease(m)' = CheckLease(m)
  BY <1>1 DEF CheckLease
<1>6. \A m \in MACs : CheckLease(m)' => Marked(m)'
  BY <1>1, <1>4, <1>5, LeaseTypes DEF Leasing, Marked, NotServed
<1>7. UniqueLease'
  BY <1>1, <1>5 DEF Leasing, UniqueLease
<1>8. Reserved'
  BY <1>3 DEF Reserved
<1> QED BY <1>1, <1>6, <1>7, <1>8 DEF Leasing, Watched, NoLeases

-----------------------------------------------------------------------------
(* The leases, for the other steps.                                        *)

Elsewhere(w) == w.pc \notin {"addlease", "release", "held"}

LEMMA NextElsewhere == \A w \in Workers : w.next \notin {"addlease", "release", "held"}
BY DEF Workers

\* What the vmnetcfg worker does before and after it handles leases.
LEMMA CfgElsewhere ==
    ASSUME Growth, \/ TakeItem(me) \/ SyncCfg \/ CheckNic \/ NoPool \/ NicsDone \/ UpdateSpec
                   \/ UpdateStatus \/ UpdateIPPoolStatusGet(me) \/ UpdateIPPoolStatusPut(me)
    PROVE  Elsewhere(worker'[me]) /\ UNCHANGED <<leases, ipam, phase>>
<1> DEFINE w == worker[me]
<1>1. w \in Workers /\ me \in Controllers /\ worker \in [Controllers -> Handlers]
  BY MeInside DEF Growth, Typed, Working
<1>2. UNCHANGED <<leases, ipam, phase>>
  BY DEF TakeItem, SyncCfg, CheckNic, NoPool, NicsDone, UpdateSpec, UpdateStatus,
         UpdateIPPoolStatusGet, UpdateIPPoolStatusPut, memory, boot
<1>3. Done(me) => worker'[me].pc = "idle"
  BY <1>1, IdleTyped DEF Done, Step
<1>4. CASE TakeItem(me)
  BY <1>2, <1>1, <1>4 DEF TakeItem, Step, IdleWorker, Elsewhere
<1>5. CASE SyncCfg
  <2> DEFINE obj == cfgIndexer[queue[me].busy.key]
             x   == [IdleWorker EXCEPT !.pc = IF obj.del THEN "clean" ELSE "nic", !.obj = obj,
                                       !.todo = NicsOf(obj.spec), !.spec = obj.spec]
  <2>1. Step(me, x) \/ Done(me)
    BY <1>5 DEF SyncCfg
  <2>2. x.pc \in {"clean", "nic"}
    BY DEF IdleWorker
  <2> HIDE DEF x
  <2> QED BY <1>1, <1>2, <1>3, <2>1, <2>2 DEF Step, Elsewhere
<1>6. CASE CheckNic
  <2> DEFINE v(n) == [w EXCEPT !.todo = @ \ {n}, !.nic = n]
  <2>1. PICK n \in w.todo : \/ Step(me, InError(v(n), n))
                            \/ Step(me, [v(n) EXCEPT !.pc = "owner"])
                            \/ Step(me, [v(n) EXCEPT !.pc = "getip"])
    BY <1>6 DEF CheckNic
  <2>2. n \in Nics /\ v(n) \in Workers
    BY <1>1 DEF Workers
  <2> HIDE DEF v
  <2>3. /\ InError(v(n), n).pc = "nic" /\ [v(n) EXCEPT !.pc = "owner"].pc = "owner"
        /\ [v(n) EXCEPT !.pc = "getip"].pc = "getip"
    BY <2>2 DEF InError, Workers
  <2> QED BY <1>2, <1>1, <2>1, <2>3 DEF Step, Elsewhere
<1>7. CASE NoPool \/ UpdateStatus
  BY <1>2, <1>3, <1>7 DEF NoPool, UpdateStatus, Return, Elsewhere
<1>8. CASE NicsDone
  <2>1. [w EXCEPT !.pc = "update"].pc = "update" /\ [w EXCEPT !.pc = "ustatus"].pc = "ustatus"
    BY <1>1 DEF Workers
  <2>2. \/ Step(me, [w EXCEPT !.pc = "update"]) \/ Step(me, [w EXCEPT !.pc = "ustatus"])
        \/ Done(me)
    BY <1>8 DEF NicsDone, Return
  <2> QED BY <1>2, <1>1, <1>3, <2>1, <2>2 DEF Step, Elsewhere
<1>9. CASE UpdateSpec
  <2> DEFINE obj == Changed(KeyOf(me), [cfg[KeyOf(me)] EXCEPT !.spec = w.spec])
  <2>1. Step(me, [w EXCEPT !.pc = "ustatus", !.obj = obj]) \/ Done(me)
    BY <1>9 DEF UpdateSpec, Return
  <2> HIDE DEF obj
  <2>2. [w EXCEPT !.pc = "ustatus", !.obj = obj].pc = "ustatus"
    BY <1>1 DEF Workers
  <2> QED BY <1>2, <1>1, <1>3, <2>1, <2>2 DEF Step, Elsewhere
<1>10. CASE UpdateIPPoolStatusGet(me)
  <2> DEFINE k == Cardinality(ipam[NetOf(w.nic)])
  <2>1. \/ Step(me, [w EXCEPT !.pc = w.next])
        \/ Step(me, [w EXCEPT !.pc = "poolput", !.fresh = TRUE, !.used = k])
    BY <1>10 DEF UpdateIPPoolStatusGet
  <2> HIDE DEF k
  <2>2. /\ [w EXCEPT !.pc = w.next].pc = w.next
        /\ [w EXCEPT !.pc = "poolput", !.fresh = TRUE, !.used = k].pc = "poolput"
    BY <1>1 DEF Workers
  <2> QED BY <1>2, <1>1, <2>1, <2>2, NextElsewhere DEF Step, Elsewhere
<1>11. CASE UpdateIPPoolStatusPut(me)
  <2> DEFINE ret == [w EXCEPT !.pc = w.next, !.fresh = FALSE, !.used = 0, !.retry = 0]
             y   == [w EXCEPT !.pc = "poolget", !.used = 0, !.retry = @ + 1]
             all == [d \in Controllers |->
                       IF d = me THEN ret
                       ELSE [worker[d] EXCEPT !.fresh = @ /\ NetOf(worker[d].nic) # NetOf(w.nic)]]
  <2>1. Step(me, ret) \/ Step(me, y) \/ worker' = all
    BY <1>11 DEF UpdateIPPoolStatusPut
  <2>2. ret.pc = w.next /\ y.pc = "poolget" /\ all[me] = ret
    BY <1>1 DEF Workers
  <2> HIDE DEF ret, y, all
  <2> QED BY <1>2, <1>1, <2>1, <2>2, NextElsewhere DEF Step, Elsewhere
<1> QED BY <1>2, <1>4, <1>5, <1>6, <1>7, <1>8, <1>9, <1>10, <1>11

LEMMA CfgWorkerLeases ==
    ASSUME OneNetwork, Growth, Leasing, CfgWorker
    PROVE  Leasing'
<1>1. ~(Cleanup(me) \/ CleanupDone \/ RemoveFinalizer)
  BY MeInside DEF Cleanup, CleanupDone, RemoveFinalizer
<1>2. CASE CheckOwner \/ CheckHeld \/ GetIP \/ RegisterLease \/ ReleaseIP(me)
  BY <1>2, CheckOwnerLeases, CheckHeldLeases, GetIPLeases, RegisterLeaseLeases, ReleaseIPLeases
<1>3. CASE \/ TakeItem(me) \/ SyncCfg \/ CheckNic \/ NoPool \/ NicsDone \/ UpdateSpec
           \/ UpdateStatus \/ UpdateIPPoolStatusGet(me) \/ UpdateIPPoolStatusPut(me)
  BY <1>3, CfgElsewhere, SameLeases DEF Elsewhere, Watched
<1> QED BY <1>1, <1>2, <1>3 DEF CfgWorker

\* The VirtualMachine worker touches no lease and no table.
LEMMA VmWorkerLeases ==
    ASSUME Growth, Leasing, VmWorker
    PROVE  Leasing'
<1>1. ~ \/ DeleteCfg \/ Cleanup(self) \/ ReleaseIP(self)
        \/ UpdateIPPoolStatusGet(self) \/ UpdateIPPoolStatusPut(self)
  BY SelfInside
  DEF DeleteCfg, Cleanup, ReleaseIP, UpdateIPPoolStatusGet, UpdateIPPoolStatusPut
<1>2. UNCHANGED <<leases, ipam, phase>>
  BY <1>1 DEF VmWorker, TakeItem, SyncVm, CheckMacs, CheckRefs, CreateCfg, UpdateCfg, memory, boot
<1>3. worker'[me] = worker[me] /\ queue'[me] = queue[me]
  BY <1>1, TwoWorkers
  DEF VmWorker, TakeItem, SyncVm, CheckMacs, CheckRefs, CreateCfg, UpdateCfg, Return, Done, Step,
      Growth, Typed, Working
<1> QED BY <1>2, <1>3, SameLeases DEF Still, KeyOf, Watched

\* The address pools are registered before there is a lease.
LEMMA StartLeases ==
    ASSUME Growth, Leasing, Start \/ CountError
    PROVE  Leasing'
<1>1. CASE StartPools
  <2>1. leases = NoLeases /\ leases' = leases /\ worker[me].pc = "idle" /\ worker' = worker
    BY <1>1, TwoWorkers DEF StartPools, Leasing, Watched, Growth, Typed, Quiet
  <2>2. \A m \in MACs : ~CheckLease(m)'
    BY <2>1 DEF NoLeases, CheckLease
  <2> QED BY <2>1, <2>2 DEF Leasing, UniqueLease, Reserved
<1>2. CASE CountVmNetCfgs \/ CountError \/ StartCfgListener \/ StartVmListener
  <2>1. UNCHANGED <<leases, ipam, worker>> /\ (Watched => Watched')
    BY <1>2 DEF CountVmNetCfgs, CountError, StartCfgListener, StartVmListener, memory, Watched
  <2>2. Elsewhere(worker[me]) \/ queue'[me] = queue[me]
    BY <1>2, TwoWorkers
    DEF CountVmNetCfgs, CountError, StartCfgListener, StartVmListener, Growth, Typed, Quiet, Working,
        Watched, Elsewhere
  <2> QED BY <2>1, <2>2, SameLeases DEF Elsewhere, Still, KeyOf
<1> QED BY <1>1, <1>2 DEF Start

LEMMA InformersLeases ==
    ASSUME Growth, Leasing, NEW v \in VMs, DeliverCfg(v) \/ DeliverVm(v)
    PROVE  Leasing'
<1> DEFINE e(x, y) == [key |-> v, action |-> ActionOf(x, y)]
<1>1. UNCHANGED <<leases, ipam, worker, phase>>
  BY DEF DeliverCfg, DeliverVm, memory, boot
<1>2. \A x, y : e(x, y) \in Event
  BY DEF Event, Actions, ActionOf
<1>3. queue'[me].busy = queue[me].busy
  BY <1>2, TwoWorkers, EnqueuedTyped DEF DeliverCfg, DeliverVm, Growth, Typed, Working
<1> QED BY <1>1, <1>3, SameLeases DEF Still, KeyOf, Watched

LEMMA OthersLeases ==
    ASSUME Growth, Leasing, Pools \/ Users \/ Tick \/ UNCHANGED vars
    PROVE  Leasing'
<1>1. UNCHANGED <<leases, ipam, worker, queue, phase>>
  BY DEF Pools, UncachePool, CachePool, Users, CreateVm, UpdateVm, DeleteVm, WriteVm, EditIP,
         CreateManually, Tick, vars, events, memory, boot
<1> QED BY <1>1, SameLeases DEF Still, KeyOf, Watched

LEMMA FaultsLeases ==
    ASSUME Growth, Leasing, Faults
    PROVE  Leasing'
<1>1. CASE Crash
  <2>1. leases' = NoLeases /\ worker'[me].pc = "idle"
    BY <1>1, TwoWorkers, IdleTyped DEF Crash
  <2>2. \A m \in MACs : ~CheckLease(m)'
    BY <2>1 DEF NoLeases, CheckLease
  <2> QED BY <2>1, <2>2 DEF Leasing, UniqueLease, Reserved
<1>2. ASSUME NEW c \in Controllers, ApiError(c)
      PROVE  Leasing'
  <2> DEFINE w == worker[c]
             x == [w EXCEPT !.pc = w.next, !.fresh = FALSE, !.used = 0, !.retry = 0]
  <2>1. UNCHANGED <<leases, ipam, phase>> /\ worker \in [Controllers -> Handlers] /\ w \in Workers
    BY <1>2, WorkerTyped DEF ApiError, memory, Growth, Typed, Working
  <2>2. x.pc = w.next
    BY <2>1 DEF Workers
  <2>3. \/ Step(c, x) /\ UNCHANGED queue
        \/ Done(c)
    BY <1>2 DEF ApiError, Return
  <2> HIDE DEF x
  <2>4. CASE c = me
    <3>1. Elsewhere(worker'[me])
      BY <2>1, <2>2, <2>3, <2>4, NextElsewhere, IdleTyped DEF Done, Step, Elsewhere
    <3> QED BY <2>1, <3>1, SameLeases DEF Elsewhere, Watched
  <2>5. CASE c # me
    <3>1. worker'[me] = worker[me] /\ queue'[me] = queue[me]
      BY <2>1, <2>3, <2>5, TwoWorkers DEF Done, Step, Growth, Typed, Working
    <3> QED BY <2>1, <3>1, SameLeases DEF Still, KeyOf, Watched
  <2> QED BY <2>4, <2>5
<1> QED BY <1>1, <1>2, StartLeases DEF Faults

LEMMA InitLeases == Init => Leasing
<1> SUFFICES ASSUME Init PROVE Leasing
    OBVIOUS
<1>1. leases = NoLeases /\ worker[me].pc = "idle"
  BY TwoWorkers, IdleTyped DEF Init
<1>2. \A m \in MACs : ~CheckLease(m)
  BY <1>1 DEF NoLeases, CheckLease
<1> QED BY <1>1, <1>2 DEF Leasing, UniqueLease, Reserved

LEMMA NextLeases ==
    ASSUME OneNetwork, Growth, Leasing, [Next]_vars
    PROVE  Leasing'
BY CfgWorkerLeases, VmWorkerLeases, StartLeases, InformersLeases, OthersLeases, FaultsLeases
DEF Next, Informers

-----------------------------------------------------------------------------

\* For any number of virtual machines, networks and addresses, every lease is
\* of an address of its own, through every interleaving of the two workers, the
\* informers, failing requests, crashes, edits of addresses and reloads of
\* pools, as long as the interfaces of the virtual machines only grow in number
\* and each has its MAC addresses on one network.
THEOREM UniqueLeaseHolds ==
    ASSUME OnlyGrowth, OneNetwork
    PROVE  Spec => []UniqueLease
<1>1. Init => Growth /\ Leasing
  BY InitGrowth, InitLeases
<1>2. Growth /\ Leasing /\ [Next]_vars => Growth' /\ Leasing'
  BY NextGrowth, NextLeases
<1>3. Leasing => UniqueLease
  BY DEF Leasing
<1> QED BY <1>1, <1>2, <1>3, PTL DEF Spec

\* In the same environment a lease never lacks its mark in the IPAM table: no
\* order of the separate calls that mark and release an address and that add
\* and delete the lease leaves an address served and free to be granted.
THEOREM LeaseBackedHolds ==
    ASSUME OnlyGrowth, OneNetwork
    PROVE  Spec => []LeaseBacked
<1>1. Init => Growth /\ Leasing
  BY InitGrowth, InitLeases
<1>2. Growth /\ Leasing /\ [Next]_vars => Growth' /\ Leasing'
  BY NextGrowth, NextLeases
<1>3. Leasing => LeaseBacked
  BY DEF Leasing, LeaseBacked, Marked
<1> QED BY <1>1, <1>2, <1>3, PTL DEF Spec

-----------------------------------------------------------------------------
(* The tables: what is marked is served, or about to be.                   *)

\* The vmnetcfg worker has an address of its own in hand: it will add a lease
\* of it, or has deleted the one there was.
Holding(w, net, a) ==
    w.pc \in {"addlease", "release"} /\ NetOf(w.nic) = net /\ w.ip = a

Accounted ==
    \A net \in Networks : \A a \in ipam[net] \ Excluded :
      \/ \E m \in MACs : leases[m].ip = a /\ leases[m].net = net
      \/ Holding(worker[me], net, a)

\* Where the worker relies on the interface having no lease.
Expecting(w) ==
    w.pc \in {"getip", "addlease"} \/ (InRelease(w) /\ w.next = "getip")

Vacant == Expecting(worker[me]) => ~CheckLease(MacOf(worker[me].nic))

Accounts == Accounted /\ Vacant

\* The vmnetcfg worker stays where it is, as far as the tables are concerned.
Further(w, x) ==
    /\ w.pc \notin {"addlease", "release"} /\ x.pc \notin {"addlease", "release"}
    /\ Expecting(x) => Expecting(w) /\ x.nic = w.nic

LEMMA SameAccounts ==
    ASSUME Accounts, UNCHANGED <<leases, ipam>>, Still(me) \/ Further(worker[me], worker'[me])
    PROVE  Accounts'
<1>1. Accounted'
  BY DEF Accounts, Accounted, Holding, Still, Further
<1>2. Vacant'
  BY DEF Accounts, Vacant, CheckLease, Still, Further, Expecting, InRelease
<1> QED BY <1>1, <1>2 DEF Accounts

\* The steps of the vmnetcfg worker that touch neither lease nor table.
LEMMA CfgAccounts ==
    ASSUME Growth, Accounts,
           \/ TakeItem(me) \/ SyncCfg \/ CheckNic \/ NoPool \/ CheckOwner \/ NicsDone
           \/ UpdateSpec \/ UpdateStatus
           \/ UpdateIPPoolStatusGet(me) \/ UpdateIPPoolStatusPut(me)
    PROVE  Accounts'
<1> DEFINE w == worker[me]
<1>1. w \in Workers /\ me \in Controllers /\ worker \in [Controllers -> Handlers]
  BY MeInside DEF Growth, Typed, Working
<1>2. UNCHANGED <<leases, ipam>>
  BY DEF TakeItem, SyncCfg, CheckNic, NoPool, CheckOwner, NicsDone, UpdateSpec, UpdateStatus,
         UpdateIPPoolStatusGet, UpdateIPPoolStatusPut, memory
<1>3. Done(me) => worker'[me].pc = "idle"
  BY <1>1, IdleTyped DEF Done, Step
<1>4. CASE TakeItem(me)
  BY <1>2, <1>1, <1>4, SameAccounts
  DEF TakeItem, Step, IdleWorker, Further, Expecting, InRelease
<1>5. CASE SyncCfg
  <2> DEFINE obj == cfgIndexer[queue[me].busy.key]
             x   == [IdleWorker EXCEPT !.pc = IF obj.del THEN "clean" ELSE "nic", !.obj = obj,
                                       !.todo = NicsOf(obj.spec), !.spec = obj.spec]
  <2>1. (Step(me, x) \/ Done(me)) /\ w.pc = "sync"
    BY <1>5 DEF SyncCfg
  <2>2. x.pc \in {"clean", "nic"}
    BY DEF IdleWorker
  <2> HIDE DEF x
  <2> QED BY <1>1, <1>2, <1>3, <2>1, <2>2, SameAccounts DEF Step, Further, Expecting, InRelease
<1>6. CASE CheckNic
  <2> DEFINE v(n) == [w EXCEPT !.todo = @ \ {n}, !.nic = n]
             y(n) == [v(n) EXCEPT !.pc = "getip"]
  <2>1. PICK n \in w.todo :
          /\ w.pc = "nic"
          /\ \/ Step(me, InError(v(n), n))
             \/ Step(me, [v(n) EXCEPT !.pc = "owner"])
             \/ ~CheckLease(MacOf(n)) /\ Step(me, y(n))
    BY <1>6 DEF CheckNic
  <2>2. n \in Nics /\ v(n) \in Workers /\ v(n).nic = n
    BY <1>1 DEF Workers
  <2> HIDE DEF v
  <2>3. /\ InError(v(n), n).pc = "nic" /\ [v(n) EXCEPT !.pc = "owner"].pc = "owner"
        /\ y(n).pc = "getip" /\ y(n).nic = n
    BY <2>2 DEF InError, Workers
  <2> HIDE DEF y
  <2>4. CASE worker'[me].pc \in {"nic", "owner"}
    BY <1>2, <2>1, <2>4, SameAccounts DEF Further, Expecting, InRelease
  <2>5. CASE ~CheckLease(MacOf(n)) /\ worker'[me] = y(n)
    <3>1. Accounted'
      BY <1>2, <2>1, <2>3, <2>5 DEF Accounts, Accounted, Holding
    <3>2. Vacant'
      BY <1>2, <2>3, <2>5 DEF Vacant, CheckLease
    <3> QED BY <3>1, <3>2 DEF Accounts
  <2> QED BY <1>1, <2>1, <2>3, <2>4, <2>5 DEF Step
<1>7. CASE NoPool \/ UpdateStatus
  BY <1>2, <1>3, <1>7, SameAccounts
  DEF NoPool, UpdateStatus, Return, Further, Expecting, InRelease
<1>8. CASE NicsDone
  <2>1. [w EXCEPT !.pc = "update"].pc = "update" /\ [w EXCEPT !.pc = "ustatus"].pc = "ustatus"
    BY <1>1 DEF Workers
  <2>2. /\ w.pc = "nic"
        /\ \/ Step(me, [w EXCEPT !.pc = "update"]) \/ Step(me, [w EXCEPT !.pc = "ustatus"])
           \/ Done(me)
    BY <1>8 DEF NicsDone, Return
  <2> QED BY <1>2, <1>1, <1>3, <2>1, <2>2, SameAccounts DEF Step, Further, Expecting, InRelease
<1>9. CASE UpdateSpec
  <2> DEFINE obj == Changed(KeyOf(me), [cfg[KeyOf(me)] EXCEPT !.spec = w.spec])
  <2>1. (Step(me, [w EXCEPT !.pc = "ustatus", !.obj = obj]) \/ Done(me)) /\ w.pc = "update"
    BY <1>9 DEF UpdateSpec, Return
  <2> HIDE DEF obj
  <2>2. [w EXCEPT !.pc = "ustatus", !.obj = obj].pc = "ustatus"
    BY <1>1 DEF Workers
  <2> QED BY <1>2, <1>1, <1>3, <2>1, <2>2, SameAccounts DEF Step, Further, Expecting, InRelease
<1>10. CASE CheckOwner
  <2>1. [w EXCEPT !.pc = "held"].pc = "held" /\ InError(w, w.nic).pc = "nic"
    BY <1>1, <1>10, AtShape DEF InError, Workers, CheckOwner, AtNic
  <2>2. w.pc = "owner" /\ (Step(me, InError(w, w.nic)) \/ Step(me, [w EXCEPT !.pc = "held"]))
    BY <1>10 DEF CheckOwner
  <2> QED BY <1>1, <1>2, <2>1, <2>2, SameAccounts DEF Step, Further, Expecting, InRelease
<1>11. CASE UpdateIPPoolStatusGet(me)
  <2> DEFINE k == Cardinality(ipam[NetOf(w.nic)])
             x == [w EXCEPT !.pc = w.next]
             y == [w EXCEPT !.pc = "poolput", !.fresh = TRUE, !.used = k]
  <2>1. w.pc = "poolget" /\ (Step(me, x) \/ Step(me, y))
    BY <1>11 DEF UpdateIPPoolStatusGet
  <2> HIDE DEF k
  <2>2. /\ x.pc = w.next /\ x.next = w.next /\ x.nic = w.nic
        /\ y.pc = "poolput" /\ y.next = w.next /\ y.nic = w.nic /\ w.next \in {"nic", "getip", "clean"}
    BY <1>1 DEF Workers
  <2> HIDE DEF x, y
  <2> QED BY <1>2, <1>1, <2>1, <2>2, SameAccounts DEF Step, Further, Expecting, InRelease
<1>12. CASE UpdateIPPoolStatusPut(me)
  <2> DEFINE ret == [w EXCEPT !.pc = w.next, !.fresh = FALSE, !.used = 0, !.retry = 0]
             y   == [w EXCEPT !.pc = "poolget", !.used = 0, !.retry = @ + 1]
             all == [d \in Controllers |->
                       IF d = me THEN ret
                       ELSE [worker[d] EXCEPT !.fresh = @ /\ NetOf(worker[d].nic) # NetOf(w.nic)]]
  <2>1. w.pc = "poolput" /\ (Step(me, ret) \/ Step(me, y) \/ worker' = all)
    BY <1>12 DEF UpdateIPPoolStatusPut
  <2>2. /\ ret.pc = w.next /\ ret.next = w.next /\ ret.nic = w.nic /\ all[me] = ret
        /\ y.pc = "poolget" /\ y.next = w.next /\ y.nic = w.nic /\ w.next \in {"nic", "getip", "clean"}
    BY <1>1 DEF Workers
  <2> HIDE DEF ret, y, all
  <2> QED BY <1>2, <1>1, <2>1, <2>2, SameAccounts DEF Step, Further, Expecting, InRelease
<1> QED BY <1>4, <1>5, <1>6, <1>7, <1>8, <1>9, <1>10, <1>11, <1>12

\* An edited address: the lease goes, the mark is left for ReleaseIP.
LEMMA CheckHeldAccounts ==
    ASSUME OneNetwork, Growth, Leasing, Accounts, CheckHeld
    PROVE  Accounts'
<1> DEFINE w == worker[me]
           n == w.nic
           l == leases[MacOf(n)]
           x == [w EXCEPT !.pc = "getip"]
           y == [w EXCEPT !.pc = "nic", !.nic = NoNic, !.status[n] = w.obj.status[n]]
           z == [w EXCEPT !.pc = "release", !.ip = l.ip, !.next = "getip"]
<1>1. AtNic(w) /\ w.pc = "held" /\ UNCHANGED ipam
  BY DEF CheckHeld, AtNic
<1>2. /\ w \in Workers /\ KeyOf(me) \in VMs /\ me \in Controllers
      /\ worker \in [Controllers -> Handlers]
      /\ MacOf(n) \in MACs /\ n = <<MacOf(n), NetOf(n)>> /\ n \in UNION Shapes[KeyOf(me)]
  BY <1>1, AtShape, TwoWorkers DEF Growth, Typed, Working
<1>3. /\ x.pc = "getip" /\ x.nic = n /\ y.pc = "nic"
      /\ z.pc = "release" /\ z.nic = n /\ z.ip = l.ip
  BY <1>2 DEF Workers
<1> HIDE DEF x, y, z
<1>4. CASE worker'[me] = y /\ UNCHANGED leases
  BY <1>1, <1>3, <1>4, SameAccounts DEF Further, Expecting, InRelease
<1>5. CASE worker'[me] = x /\ UNCHANGED leases /\ ~CheckLease(MacOf(n))
  <2>1. Accounted'
    BY <1>1, <1>3, <1>5 DEF Accounts, Accounted, Holding
  <2>2. Vacant'
    BY <1>3, <1>5 DEF Vacant, CheckLease
  <2> QED BY <2>1, <2>2 DEF Accounts
<1>6. CASE worker'[me] = z /\ CheckLease(MacOf(n)) /\ DeleteLease(MacOf(n))
  <2>1. /\ leases'[MacOf(n)] = ZeroLease
        /\ \A m \in MACs \ {MacOf(n)} : leases'[m] = leases[m]
    BY <1>2, <1>6, DeletedLease
  <2>2. l.net = NetOf(n)
    <3>1. Marked(MacOf(n)) /\ l.ref = KeyOf(me)
      BY <1>1, <1>2, <1>6 DEF Leasing, Reserved
    <3>2. <<MacOf(n), l.net>> \in UNION Shapes[KeyOf(me)]
      BY <3>1 DEF Marked
    <3>3. <<MacOf(n), l.net>> = n
      BY <1>2, <3>2 DEF OneNetwork, MacOf
    <3> QED BY <1>2, <3>3
  <2>3. Accounted'
    <3>1. ASSUME NEW net \in Networks, NEW a \in ipam[net] \ Excluded,
                 NEW m \in MACs, leases[m].ip = a, leases[m].net = net
          PROVE  \/ \E k \in MACs : leases'[k].ip = a /\ leases'[k].net = net
                 \/ Holding(z, net, a)
      BY <1>3, <2>1, <2>2, <3>1 DEF Holding
    <3> QED BY <1>1, <1>6, <3>1 DEF Accounts, Accounted, Holding
  <2>4. Vacant'
    BY <1>3, <1>6, <2>1 DEF Vacant, CheckLease
  <2> QED BY <2>3, <2>4 DEF Accounts
<1> QED BY <1>2, <1>4, <1>5, <1>6 DEF CheckHeld, Step, x, y, z

LEMMA GetIPAccounts ==
    ASSUME Growth, Accounts, GetIP
    PROVE  Accounts'
<1> DEFINE w   == worker[me]
           n   == w.nic
           net == NetOf(n)
           x(a) == [w EXCEPT !.pc = "addlease", !.ip = a]
           z   == [w EXCEPT !.ip = NoIP]
<1>1. AtNic(w) /\ w.pc = "getip" /\ UNCHANGED leases
  BY DEF GetIP, AtNic
<1>2. /\ w \in Workers /\ me \in Controllers /\ worker \in [Controllers -> Handlers]
      /\ n \in Nics /\ net \in Networks
  BY <1>1, AtShape, TwoWorkers DEF Growth, Typed, Working
<1>3. CASE Step(me, InError(z, n)) /\ UNCHANGED ipam
  <2>1. z \in Workers
    BY <1>2 DEF Workers
  <2> HIDE DEF z
  <2>2. InError(z, n).pc = "nic"
    BY <1>2, <2>1 DEF Workers, InError
  <2>3. worker'[me].pc = "nic"
    BY <1>2, <1>3, <2>2 DEF Step
  <2> QED BY <1>1, <1>3, <2>3, SameAccounts DEF Further, Expecting, InRelease
<1>4. ASSUME NEW a \in IPs, ipam' = [ipam EXCEPT ![net] = @ \cup {a}], Step(me, x(a))
      PROVE  Accounts'
  <2>1. x(a).pc = "addlease" /\ x(a).ip = a /\ x(a).nic = n /\ worker'[me] = x(a)
    BY <1>2, <1>4 DEF Workers, Step
  <2> HIDE DEF x
  <2>2. /\ ipam'[net] = ipam[net] \cup {a}
        /\ \A k \in Networks : k # net => ipam'[k] = ipam[k]
    BY <1>2, <1>4, LeaseTypes
  <2>3. Accounted'
    BY <1>1, <2>1, <2>2 DEF Accounts, Accounted, Holding
  <2>4. Vacant'
    BY <1>1, <2>1 DEF Accounts, Vacant, CheckLease, Expecting
  <2> QED BY <2>3, <2>4 DEF Accounts
<1> QED BY <1>3, <1>4 DEF GetIP, Grantable

\* The granted address becomes the one of the lease, for there is none yet.
LEMMA RegisterLeaseAccounts ==
    ASSUME Growth, Accounts, RegisterLease
    PROVE  Accounts'
<1> DEFINE w   == worker[me]
           n   == w.nic
           new == [ip |-> w.ip, ref |-> KeyOf(me), net |-> NetOf(n)]
           x   == [w EXCEPT !.pc = "poolget", !.op = "add", !.next = "nic", !.retry = 0,
                            !.change = TRUE, !.spec = Recorded(w), !.status[n] = "OK"]
<1>1. AtNic(w) /\ w.pc = "addlease" /\ UNCHANGED ipam
  BY DEF RegisterLease, AtNic
<1>2. /\ w \in Workers /\ me \in Controllers /\ worker \in [Controllers -> Handlers]
      /\ MacOf(n) \in MACs
  BY <1>1, AtShape, TwoWorkers DEF Growth, Typed, Working
<1>3. Step(me, x) /\ x.pc = "poolget" /\ x.next = "nic"
  BY <1>2 DEF RegisterLease, Workers
<1> HIDE DEF x
<1>4. worker'[me].pc = "poolget" /\ worker'[me].next = "nic"
  BY <1>2, <1>3 DEF Step
<1>5. ~CheckLease(MacOf(n))
  BY <1>1 DEF Accounts, Vacant, Expecting
<1>6. leases' = [leases EXCEPT ![MacOf(n)] = new]
  BY <1>5 DEF RegisterLease, AddLease
<1>7. /\ leases'[MacOf(n)].ip = w.ip /\ leases'[MacOf(n)].net = NetOf(n)
      /\ \A m \in MACs : m # MacOf(n) => leases'[m] = leases[m]
  BY <1>2, <1>6, LeaseTypes
<1>8. leases[MacOf(n)].ip = NoIP
  BY <1>5 DEF CheckLease, ZeroLease
<1>9. \A net \in Networks : ipam[net] \subseteq IPs
  BY LeaseTypes
<1>10. Accounted'
  BY <1>1, <1>2, <1>7, <1>8, <1>9, ConstantsAssumption DEF Accounts, Accounted, Holding
<1>11. Vacant'
  BY <1>4 DEF Vacant, Expecting, InRelease
<1> QED BY <1>10, <1>11 DEF Accounts

LEMMA ReleaseIPAccounts ==
    ASSUME Growth, Accounts, ReleaseIP(me)
    PROVE  Accounts'
<1> DEFINE w   == worker[me]
           net == NetOf(w.nic)
           x   == [w EXCEPT !.pc = "poolget", !.op = "delete", !.retry = 0]
           y   == [w EXCEPT !.pc = w.next]
<1>1. AtNic(w) /\ w.pc = "release" /\ UNCHANGED leases
  BY DEF ReleaseIP, AtNic
<1>2. w \in Workers /\ me \in Controllers /\ worker \in [Controllers -> Handlers] /\ net \in Networks
  BY <1>1, AtShape, TwoWorkers DEF Growth, Typed, Working
<1>3. Step(me, x) \/ Step(me, y)
  BY DEF ReleaseIP
<1>4. /\ x.pc = "poolget" /\ x.next = w.next /\ x.nic = w.nic
      /\ y.pc = w.next /\ y.next = w.next /\ y.nic = w.nic /\ w.next \in {"nic", "getip", "clean"}
  BY <1>2 DEF Workers
<1> HIDE DEF x, y
<1>5. /\ ipam'[net] = ipam[net] \ {w.ip}
      /\ \A k \in Networks : k # net => ipam'[k] = ipam[k]
  BY <1>2, LeaseTypes DEF ReleaseIP, Released
<1>6. Accounted'
  BY <1>1, <1>5 DEF Accounts, Accounted, Holding
<1>7. Vacant'
  BY <1>1, <1>2, <1>3, <1>4 DEF Accounts, Vacant, CheckLease, Expecting, InRelease, Step
<1> QED BY <1>6, <1>7 DEF Accounts

LEMMA NextAccounts ==
    ASSUME OneNetwork, Growth, Leasing, Accounts, [Next]_vars
    PROVE  Accounts'
<1>1. CASE CfgWorker
  <2>1. ~(Cleanup(me) \/ CleanupDone \/ RemoveFinalizer)
    BY MeInside DEF Cleanup, CleanupDone, RemoveFinalizer
  <2> QED BY <1>1, <2>1, CfgAccounts, CheckHeldAccounts, GetIPAccounts, RegisterLeaseAccounts,
             ReleaseIPAccounts DEF CfgWorker
<1>2. CASE VmWorker
  <2>1. ~ \/ DeleteCfg \/ Cleanup(self) \/ ReleaseIP(self)
          \/ UpdateIPPoolStatusGet(self) \/ UpdateIPPoolStatusPut(self)
    BY SelfInside
    DEF DeleteCfg, Cleanup, ReleaseIP, UpdateIPPoolStatusGet, UpdateIPPoolStatusPut
  <2>2. UNCHANGED <<leases, ipam>>
    BY <1>2, <2>1
    DEF VmWorker, TakeItem, SyncVm, CheckMacs, CheckRefs, CreateCfg, UpdateCfg, memory
  <2>3. worker'[me] = worker[me]
    BY <1>2, <2>1, TwoWorkers
    DEF VmWorker, TakeItem, SyncVm, CheckMacs, CheckRefs, CreateCfg, UpdateCfg, Return, Done, Step,
        Growth, Typed, Working
  <2> QED BY <2>2, <2>3, SameAccounts DEF Still
<1>3. CASE StartPools \/ Crash
  <2>1. worker'[me].pc = "idle" /\ \A net \in Networks : ipam'[net] \subseteq Excluded
    BY <1>3, TwoWorkers, IdleTyped
    DEF StartPools, Crash, NoTables, Growth, Typed, Quiet, Watched
  <2> QED BY <2>1 DEF Accounts, Accounted, Vacant, Expecting, InRelease
<1>4. CASE \/ CountVmNetCfgs \/ CountError \/ StartCfgListener \/ StartVmListener
           \/ Informers \/ Pools \/ Users \/ Tick \/ UNCHANGED vars
  <2>1. UNCHANGED <<leases, ipam, worker>>
    BY <1>4
    DEF CountVmNetCfgs, CountError, StartCfgListener, StartVmListener, Informers, DeliverCfg, DeliverVm,
        Pools, UncachePool, CachePool, Users, CreateVm, UpdateVm, DeleteVm, WriteVm, EditIP,
        CreateManually, Tick, vars, events, memory, boot
  <2> QED BY <2>1, SameAccounts DEF Still
<1>5. ASSUME NEW c \in Controllers, ApiError(c)
      PROVE  Accounts'
  <2> DEFINE w == worker[c]
             x == [w EXCEPT !.pc = w.next, !.fresh = FALSE, !.used = 0, !.retry = 0]
  <2>1. /\ UNCHANGED <<leases, ipam>> /\ worker \in [Controllers -> Handlers] /\ w \in Workers
        /\ w.pc \notin {"addlease", "release"}
    BY <1>5, WorkerTyped DEF ApiError, memory, Growth, Typed, Working
  <2>2. x.pc = w.next /\ x.next = w.next /\ x.nic = w.nic /\ w.next \in {"nic", "getip", "clean"}
    BY <2>1 DEF Workers
  <2>3. (w.pc \in {"poolget", "poolput"} /\ Step(c, x)) \/ Done(c)
    BY <1>5 DEF ApiError, Return
  <2> HIDE DEF x
  <2>4. CASE c = me
    <3>1. Further(worker[me], worker'[me])
      BY <2>1, <2>2, <2>3, <2>4, IdleTyped DEF Done, Step, Further, Expecting, InRelease
    <3> QED BY <2>1, <3>1, SameAccounts
  <2>5. CASE c # me
    <3>1. worker'[me] = worker[me]
      BY <2>1, <2>3, <2>5, TwoWorkers DEF Done, Step
    <3> QED BY <2>1, <3>1, SameAccounts DEF Still
  <2> QED BY <2>4, <2>5
<1> QED BY <1>1, <1>2, <1>3, <1>4, <1>5 DEF Next, Start, Faults

\* No address stays marked that is neither excluded nor served: the address of
\* a lease that an edit ends, of a write that conflicts or of a request that
\* fails is given back or still served whenever the helper is at rest.
THEOREM NoLeakHolds ==
    ASSUME OnlyGrowth, OneNetwork
    PROVE  Spec => []NoLeak
<1>1. Init => Growth /\ Leasing /\ Accounts
  <2>1. Init => Accounts
    BY TwoWorkers, IdleTyped DEF Init, NoTables, Accounts, Accounted, Vacant, Expecting, InRelease
  <2> QED BY <2>1, InitGrowth, InitLeases
<1>2. Growth /\ Leasing /\ Accounts /\ [Next]_vars => Growth' /\ Leasing' /\ Accounts'
  BY NextGrowth, NextLeases, NextAccounts
<1>3. Accounts => NoLeak
  BY TwoWorkers DEF Accounts, Accounted, Holding, NoLeak, Idle, Waiting
<1> QED BY <1>1, <1>2, <1>3, PTL DEF Spec

-----------------------------------------------------------------------------
(* The records.  While no user edits an address, the vmnetcfg worker wants *)
(* what is recorded, or nothing is recorded yet.                           *)

\* The virtual machines and their vmnetcfgs have one list of interfaces, and
\* the VirtualMachine worker finds nothing to change.
Fixed ==
    /\ \A v \in VMs :
         /\ Fits(vm[v], v) /\ Fits(vmIndexer[v], v) /\ Shaped(cfg[v], v)
         /\ \A i \in DOMAIN vmWatch[v] : Fits(vmWatch[v][i], v)
    /\ Alike(worker[self], KeyOf(self))

\* What the vmnetcfg worker still has to do for v: an item that waits, one to
\* be queued again, and the one it works on until it has written the spec.
Ended(w)   == w.pc = "ustatus" /\ w.change
Queued(v)  == \E i \in DOMAIN queue[me].items : queue[me].items[i].key = v
Again(v)   == queue[me].again /\ KeyOf(me) = v
Busy(v)    == worker[me].pc # "idle" /\ KeyOf(me) = v
Handled(v) == Busy(v) /\ ~Ended(worker[me])

Asked(v)   == Queued(v) \/ Again(v) \/ Handled(v)

\* At most one of them.
Once(v) ==
    /\ \A i, j \in DOMAIN queue[me].items :
         queue[me].items[i].key = v /\ queue[me].items[j].key = v => i = j
    /\ Queued(v) => ~Again(v) /\ ~Handled(v)
    /\ Again(v) => ~Handled(v)

\* It has read the object, or is going to.
Deep(w)    == w.pc \notin {"idle", "sync"}
Inside(v)  == Handled(v) /\ Deep(worker[me])
Reads(v)   == Queued(v) \/ Again(v) \/ (Handled(v) /\ ~Deep(worker[me]))

\* An object that asks for an address for n.
Open(x, n) == x.spec[n] = NoIP /\ x.status[n] # "ERROR"

\* What is on its way is newer than what has arrived.
Ordered(v) ==
    \A i \in DOMAIN cfgWatch[v] :
      /\ cfgIndexer[v].rv < cfgWatch[v][i].rv
      /\ \A j \in DOMAIN cfgWatch[v] : i < j => cfgWatch[v][i].rv < cfgWatch[v][j].rv
      /\ cfgWatch[v][i].rv = cfg[v].rv => cfgWatch[v][i].status = cfg[v].status

\* Nobody was told of a vmnetcfg that does not exist.
Untold(v)  == cfgWatch[v] = <<>> /\ ~Queued(v) /\ ~Busy(v) /\ \A m \in MACs : leases[m].ref # v
Nothing(v) == cfg[v].exists \/ Untold(v)

\* An object that asks is handled once, and every copy the worker is going to
\* read has the spec of the API.
Asking(v) ==
    /\ \A i \in DOMAIN cfgWatch[v] :
         /\ cfgWatch[v][i].spec = cfg[v].spec
         /\ \A n \in Nics : Open(cfgWatch[v][i], n) => i = 1 /\ ~Asked(v)
    /\ \A n \in Nics : Open(cfgIndexer[v], n) => Once(v)
    /\ Asked(v) =>
         /\ cfgIndexer[v].spec = cfg[v].spec
         /\ \A n \in Nics :
              /\ cfgIndexer[v].rv = cfg[v].rv
              /\ cfgIndexer[v].spec[n] = NoIP /\ cfgIndexer[v].status[n] = "ERROR"
              => cfg[v].status[n] = "ERROR"

\* A lease of v for n other than the recorded one.
Unrecorded(v, n) ==
    /\ leases[MacOf(n)].ref = v /\ leases[MacOf(n)].net = NetOf(n)
    /\ leases[MacOf(n)].ip # cfg[v].spec[n]

Visiting(w)   == w.pc \in {"owner", "held", "getip", "addlease"}
Pending(w, n) == n \in w.todo \/ (Visiting(w) /\ n = w.nic)

\* Nothing is recorded then, and nobody looks at the lease any more.
Parked(v, n) ==
    Unrecorded(v, n) =>
      /\ cfg[v].spec[n] = NoIP
      /\ Reads(v) => cfgIndexer[v].status[n] = "ERROR"
      /\ \A i \in DOMAIN cfgWatch[v] : cfgWatch[v][i].status[n] = "ERROR"
      /\ Inside(v) => \/ worker[me].obj.status[n] = "ERROR"
                      \/ ~Pending(worker[me], n) /\ worker[me].spec[n] = leases[MacOf(n)].ip

Settled(v) ==
    /\ Ordered(v) /\ Nothing(v) /\ Asking(v)
    /\ \A n \in NicsOf(cfg[v].spec) : Parked(v, n)

LeaseOf(v, n, a) == [ip |-> a, ref |-> v, net |-> NetOf(n)]

\* The locals of a handler of v: its object is the informer's or an older one
\* with the recorded spec, and an address it wants recorded is leased.
Meant(w, v) ==
    /\ w.obj.spec = cfg[v].spec
    /\ ~Ended(w) => /\ w.obj.rv <= cfgIndexer[v].rv
                    /\ w.obj.rv = cfgIndexer[v].rv => w.obj = cfgIndexer[v]
    /\ w.pc # "release" /\ w.next = "nic"
    /\ Visiting(w) => w.nic \notin w.todo /\ w.obj.status[w.nic] # "ERROR"
    /\ w.pc = "addlease" => w.obj.spec[w.nic] \in {NoIP, w.ip}
    /\ w.pc \in {"update", "ustatus"} => w.todo = {}
    /\ w.pc = "update" => w.change
    /\ w.pc = "ustatus" => w.spec = w.obj.spec
    /\ \A n \in Nics :
         /\ w.spec[n] # w.obj.spec[n] =>
              /\ w.change /\ Open(w.obj, n)
              /\ leases[MacOf(n)] = LeaseOf(v, n, w.spec[n])
         /\ w.spec[n] = NoIP /\ ~Pending(w, n) => w.status[n] = "ERROR"

Rested == worker[me].pc = "idle" => queue[me].busy = NoEvent /\ ~queue[me].again

Steady ==
    /\ budget["edit"] = 0
    /\ Fixed /\ Rested
    /\ phase = "down" => ipam = NoTables
    /\ \A v \in VMs : Settled(v)
    /\ Deep(worker[me]) => Meant(worker[me], KeyOf(me))

Base == Growth /\ Leasing /\ Accounts /\ Records
Firm == Base /\ Steady

LEMMA FirmAt ==
    ASSUME Firm
    PROVE  /\ me \in Controllers /\ self \in Controllers /\ me # self
           /\ worker \in [Controllers -> Handlers] /\ queue \in [Controllers -> Queues(Event)]
           /\ worker[me] \in Workers /\ worker[me] \in Handlers
           /\ worker[me].pc # "idle" =>
                KeyOf(me) \in VMs /\ Watched /\ phase # "down" /\ queue[me].busy \in Event
           /\ worker[me].pc \notin {"clean", "unfinal", "release"}
           /\ \A v \in VMs : cfg[v] \in CfgObjects /\ cfgIndexer[v] \in CfgObjects
                             /\ cfgWatch[v] \in Seq(CfgObjects)
BY MeInside, WorkerTyped, TwoWorkers
DEF Firm, Base, Growth, Steady, Typed, TypeOK, Working, Quiet, Watched, Deep, Meant

-----------------------------------------------------------------------------
(* The list of interfaces.                                                 *)

\* A step that touches neither a virtual machine nor the worker of theirs.
LEMMA FixedSame ==
    ASSUME Fixed, UNCHANGED <<vm, vmWatch, vmIndexer>>, \A v \in VMs : Shaped(cfg'[v], v),
           Alike(worker'[self], KeyOf(self)')
    PROVE  Fixed'
BY DEF Fixed

\* What a step of the vmnetcfg worker leaves of the other one.
Aside ==
    /\ worker'[self].pc = worker[self].pc
    /\ worker'[self].obj = worker[self].obj
    /\ worker'[self].spec = worker[self].spec
    /\ queue'[self] = queue[self]

LEMMA AsideFixed ==
    ASSUME Fixed, UNCHANGED <<vm, vmWatch, vmIndexer>>, \A v \in VMs : Shaped(cfg'[v], v), Aside
    PROVE  Fixed'
BY FixedSame DEF Fixed, Aside, Alike, KeyOf

LEMMA StepAside ==
    ASSUME Firm, \/ \E w : Step(me, w) /\ UNCHANGED queue
                 \/ TakeItem(me) \/ Done(me)
    PROVE  Aside
BY FirmAt DEF Step, TakeItem, Done, Aside

LEMMA PutAside ==
    ASSUME Firm, UpdateIPPoolStatusPut(me)
    PROVE  Aside
<1> DEFINE w   == worker[me]
           ret == [w EXCEPT !.pc = w.next, !.fresh = FALSE, !.used = 0, !.retry = 0]
           o   == [worker[self] EXCEPT !.fresh = @ /\ NetOf(worker[self].nic) # NetOf(w.nic)]
<1>1. UNCHANGED queue /\ (worker'[self] = o \/ \E x : Step(me, x))
  BY FirmAt DEF UpdateIPPoolStatusPut
<1>2. worker[self] \in Workers
  BY FirmAt DEF Handlers
<1>3. o.pc = worker[self].pc /\ o.obj = worker[self].obj /\ o.spec = worker[self].spec
  BY <1>2 DEF Workers
<1> HIDE DEF o
<1> QED BY <1>1, <1>3, StepAside DEF Aside

LEMMA MeantAt ==
    ASSUME NEW w, NEW v, Meant(w, v), NEW n \in Nics, w.spec[n] # w.obj.spec[n]
    PROVE  /\ w.change /\ Open(w.obj, n)
           /\ leases[MacOf(n)] = LeaseOf(v, n, w.spec[n])
           /\ leases[MacOf(n)].ip = w.spec[n] /\ leases[MacOf(n)].ref = v
           /\ leases[MacOf(n)].net = NetOf(n)
<1>1. w.change /\ Open(w.obj, n) /\ leases[MacOf(n)] = LeaseOf(v, n, w.spec[n])
  BY DEF Meant
<1> QED BY <1>1 DEF LeaseOf

\* The spec the worker writes lists what the one it read does.
LEMMA MeantList ==
    ASSUME Firm, Deep(worker[me])
    PROVE  NicsOf(worker[me].spec) = NicsOf(cfg[KeyOf(me)].spec)
<1>1. KeyOf(me) \in VMs /\ worker[me] \in Workers /\ Meant(worker[me], KeyOf(me))
  BY FirmAt DEF Firm, Steady, Deep
<1>2. ASSUME NEW n \in Nics, worker[me].spec[n] # worker[me].obj.spec[n]
      PROVE  worker[me].spec[n] # NoNic /\ worker[me].obj.spec[n] # NoNic
  <2>1. leases[MacOf(n)].ip = worker[me].spec[n] /\ Open(worker[me].obj, n)
    BY <1>1, <1>2, MeantAt
  <2>2. leases[MacOf(n)] \in Leases
    BY NicFields, LeaseTypes DEF Firm, Base
  <2>3. worker[me].spec[n] \in IPs \cup {NoIP}
    BY <2>1, <2>2 DEF Leases
  <2> QED BY <1>2, <2>1, <2>3, ConstantsAssumption DEF Open
<1> QED BY <1>1, <1>2 DEF Meant, NicsOf

LEMMA CfgWorkerFixed ==
    ASSUME Firm, CfgWorker
    PROVE  Fixed'
<1> DEFINE w == worker[me]
           v == KeyOf(me)
<1>1. ~(Cleanup(me) \/ CleanupDone \/ RemoveFinalizer \/ ReleaseIP(me))
  BY FirmAt DEF Cleanup, CleanupDone, RemoveFinalizer, ReleaseIP
<1>2. UNCHANGED <<vm, vmWatch, vmIndexer>>
  BY <1>1 DEF CfgWorker, TakeItem, SyncCfg, CheckNic, NoPool, CheckOwner, CheckHeld, GetIP,
     RegisterLease, NicsDone, UpdateSpec, UpdateStatus, UpdateIPPoolStatusGet,
     UpdateIPPoolStatusPut, api, events
<1>3. Aside
  <2>1. CASE UpdateIPPoolStatusPut(me) \/ TakeItem(me)
    BY <2>1, PutAside, StepAside
  <2>2. CASE SyncCfg \/ CheckNic \/ NoPool \/ CheckOwner \/ CheckHeld \/ GetIP \/ RegisterLease
    BY <2>2, StepAside
    DEF SyncCfg, CheckNic, NoPool, CheckOwner, CheckHeld, GetIP, RegisterLease, Return
  <2>3. CASE NicsDone \/ UpdateSpec \/ UpdateStatus \/ UpdateIPPoolStatusGet(me)
    BY <2>3, StepAside DEF NicsDone, UpdateSpec, UpdateStatus, UpdateIPPoolStatusGet, Return
  <2> QED BY <1>1, <2>1, <2>2, <2>3 DEF CfgWorker
<1>4. \A u \in VMs : cfg[u] \in CfgObjects /\ Shaped(cfg[u], u)
  BY FirmAt DEF Firm, Steady, Fixed
<1>5. CASE UNCHANGED cfg
  BY <1>2, <1>3, <1>4, <1>5, AsideFixed DEF Firm, Steady
<1>6. ASSUME NEW obj \in CfgObjects, v \in VMs, WriteCfg(v, obj),
             NicsOf(obj.spec) = NicsOf(cfg[v].spec), cfg[v].exists
      PROVE  Fixed'
  <2>1. cfg' = [cfg EXCEPT ![v] = Changed(v, obj)]
    BY <1>6 DEF WriteCfg
  <2>2. Changed(v, obj).spec = obj.spec
    BY <1>6 DEF Changed, CfgObjects
  <2>3. \A u \in VMs : Shaped(cfg'[u], u)
    BY <1>4, <1>6, <2>1, <2>2 DEF Firm, Base, Growth, Typed, TypeOK, Shaped
  <2> QED BY <1>2, <1>3, <2>3, AsideFixed DEF Firm, Steady
<1>7. CASE UpdateSpec
  <2> DEFINE new == [cfg[v] EXCEPT !.spec = w.spec]
  <2>1. w.pc = "update" /\ ((Current(v, w.obj) /\ WriteCfg(v, new)) \/ UNCHANGED cfg)
    BY <1>7 DEF UpdateSpec
  <2>2. v \in VMs /\ w.spec \in Specs /\ NicsOf(w.spec) = NicsOf(cfg[v].spec)
    BY <2>1, FirmAt, MeantList DEF Deep, Workers
  <2>3. new \in CfgObjects /\ new.spec = w.spec
    BY <1>4, <2>2 DEF CfgObjects
  <2> HIDE DEF new
  <2> QED BY <1>5, <1>6, <2>1, <2>2, <2>3 DEF Current
<1>8. CASE UpdateStatus
  <2> DEFINE new == [cfg[v] EXCEPT !.status = w.status]
  <2>1. w.pc = "ustatus" /\ ((Current(v, w.obj) /\ WriteCfg(v, new)) \/ UNCHANGED cfg)
    BY <1>8 DEF UpdateStatus
  <2>2. v \in VMs /\ w.status \in Statuses
    BY <2>1, FirmAt DEF Workers
  <2>3. new \in CfgObjects /\ new.spec = cfg[v].spec
    BY <1>4, <2>2 DEF CfgObjects
  <2> HIDE DEF new
  <2> QED BY <1>5, <1>6, <2>1, <2>2, <2>3 DEF Current
<1>9. CASE ~UpdateSpec /\ ~UpdateStatus
  <2>1. UNCHANGED cfg
    BY <1>1, <1>9 DEF CfgWorker, TakeItem, SyncCfg, CheckNic, NoPool, CheckOwner, CheckHeld, GetIP,
       RegisterLease, NicsDone, UpdateIPPoolStatusGet, UpdateIPPoolStatusPut, api
  <2> QED BY <1>5, <2>1
<1> QED BY <1>7, <1>8, <1>9

\* The steps of the VirtualMachine worker.
LEMMA SelfFixed ==
    ASSUME Firm, NEW w, Step(self, w), UNCHANGED <<vm, vmWatch, vmIndexer, cfg, queue>>,
           Alike(w, KeyOf(self))
    PROVE  Fixed'
<1>1. worker'[self] = w
  BY FirmAt DEF Step
<1> QED BY <1>1, FixedSame DEF Firm, Steady, Fixed, KeyOf

LEMMA SelfDoneFixed ==
    ASSUME Firm, Done(self), UNCHANGED <<vm, vmWatch, vmIndexer>>, \A v \in VMs : Shaped(cfg'[v], v)
    PROVE  Fixed'
<1>1. worker'[self] = IdleWorker /\ IdleWorker.pc = "idle"
  BY FirmAt, IdleTyped DEF Step, Done
<1>2. Alike(worker'[self], KeyOf(self)')
  BY <1>1 DEF Alike
<1> QED BY <1>2, FixedSame DEF Firm, Steady

LEMMA SyncVmFixed ==
    ASSUME Firm, SyncVm
    PROVE  Fixed'
<1> DEFINE e == queue[self].busy
           o == vmIndexer[e.key]
           sp == [n \in Nics |-> IF n \in o.nics THEN NoIP ELSE NoNic]
           x == [IdleWorker EXCEPT !.pc = "delete"]
           y == [IdleWorker EXCEPT !.pc = "macs", !.obj = cfg[e.key], !.spec = sp]
<1>1. /\ UNCHANGED <<vm, vmWatch, vmIndexer, cfg>> /\ e.key \in VMs /\ o.nics \subseteq Nics
  BY TwoWorkers, WorkerTyped
  DEF SyncVm, api, events, KeyOf, Firm, Base, Growth, Typed, TypeOK, VmObjects
<1>2. x.pc = "delete" /\ y.pc = "macs" /\ y.obj = cfg[e.key] /\ y.spec = sp
  BY DEF IdleWorker
<1>3. NicsOf(sp) = o.nics
  BY <1>1, ConstantsAssumption DEF NicsOf
<1>4. \/ Done(self)
      \/ Step(self, x) /\ UNCHANGED queue
      \/ o.exists /\ Step(self, y) /\ UNCHANGED queue
  <2>1. CASE e.action = "delete"
    BY <2>1 DEF SyncVm
  <2>2. CASE e.action # "delete"
    BY <2>2 DEF SyncVm
  <2> QED BY <2>1, <2>2
<1> HIDE DEF x, y, sp
<1>5. Alike(x, KeyOf(self))
  BY <1>2 DEF Alike
<1>6. o.exists => Alike(y, KeyOf(self))
  BY <1>1, <1>2, <1>3 DEF Alike, Firm, Steady, Fixed, Fits, KeyOf
<1>7. \A v \in VMs : Shaped(cfg'[v], v)
  BY <1>1 DEF Firm, Steady, Fixed
<1> QED BY <1>1, <1>4, <1>5, <1>6, <1>7, SelfFixed, SelfDoneFixed

LEMMA CheckMacsFixed ==
    ASSUME Firm, CheckMacs
    PROVE  Fixed'
<1> DEFINE w == worker[self]
           x == [w EXCEPT !.pc = "refs", !.todo = {n \in NicsOf(w.spec) : CheckLease(MacOf(n))}]
<1>1. UNCHANGED <<vm, vmWatch, vmIndexer, cfg, queue>> /\ Step(self, x)
  BY DEF CheckMacs, api, events
<1>2. x.pc = "refs" /\ x.obj = w.obj /\ x.spec = w.spec /\ w.pc = "macs"
  BY FirmAt DEF CheckMacs, Workers, Handlers
<1> HIDE DEF x
<1>3. Alike(x, KeyOf(self))
  BY <1>2 DEF Alike, Firm, Steady, Fixed
<1> QED BY <1>1, <1>3, SelfFixed

\* The vmnetcfg has the list of its virtual machine: nothing to update.
LEMMA CheckRefsFixed ==
    ASSUME FixedShapes, Firm, CheckRefs
    PROVE  Fixed'
<1> DEFINE w    == worker[self]
           spec == NetworkConfigs(w)
           x    == [w EXCEPT !.pc = IF w.obj.exists THEN "clean" ELSE "create",
                             !.todo = Dropped(w.obj.spec, spec), !.spec = spec]
<1>1. /\ UNCHANGED <<vm, vmWatch, vmIndexer, cfg>> /\ w \in Workers /\ KeyOf(self) \in VMs
      /\ w.pc = "refs" /\ Shaped(w.obj, KeyOf(self)) /\ NicsOf(w.spec) \in Shapes[KeyOf(self)]
  BY FirmAt, WorkerTyped
  DEF CheckRefs, api, events, Alike, Firm, Base, Growth, Steady, Fixed, Handlers
<1>2. NicsOf(spec) = NicsOf(w.spec)
  BY ConstantsAssumption DEF NicsOf, NetworkConfigs
<1>3. w.obj.exists => spec = w.obj.spec
  <2>1. w.obj.spec \in Specs /\ w.spec \in Specs
    BY <1>1 DEF Workers, CfgObjects
  <2>2. w.obj.exists => NicsOf(w.obj.spec) = NicsOf(w.spec)
    BY <1>1 DEF Shaped, FixedShapes
  <2> QED BY <2>1, <2>2 DEF NetworkConfigs, NicsOf, Specs
<1>4. Done(self) \/ (~w.obj.exists /\ Step(self, x) /\ UNCHANGED queue)
  BY <1>3 DEF CheckRefs, Return
<1>5. x.pc = IF w.obj.exists THEN "clean" ELSE "create"
  BY <1>1 DEF Workers
<1>6. x.obj = w.obj /\ x.spec = spec
  BY <1>1 DEF Workers
<1> HIDE DEF x, spec
<1>7. ~w.obj.exists => Alike(x, KeyOf(self))
  BY <1>1, <1>2, <1>5, <1>6 DEF Alike
<1>8. \A v \in VMs : Shaped(cfg'[v], v)
  BY <1>1 DEF Firm, Steady, Fixed
<1> QED BY <1>1, <1>4, <1>7, <1>8, SelfFixed, SelfDoneFixed

LEMMA CreateCfgFixed ==
    ASSUME Firm, CreateCfg
    PROVE  Fixed'
<1> DEFINE w == worker[self]
           v == KeyOf(self)
           x == [cfg[v] EXCEPT !.exists = TRUE, !.spec = w.spec, !.fin = TRUE, !.ctime = clock]
<1>1. /\ UNCHANGED <<vm, vmWatch, vmIndexer>> /\ Done(self)
      /\ v \in VMs /\ w \in Workers /\ cfg[v] \in CfgObjects /\ NicsOf(w.spec) \in Shapes[v]
      /\ UNCHANGED cfg \/ WriteCfg(v, x)
  BY FirmAt, WorkerTyped
  DEF CreateCfg, Return, Alike, Firm, Base, Growth, Steady, Fixed, Handlers
<1>2. Changed(v, x).spec = w.spec
  BY <1>1 DEF Changed, CfgObjects
<1> HIDE DEF x
<1>3. \A u \in VMs : Shaped(cfg'[u], u)
  <2>1. CASE WriteCfg(v, x)
    BY <1>1, <1>2, <2>1 DEF WriteCfg, Firm, Steady, Fixed, Shaped, Base, Growth, Typed, TypeOK
  <2> QED BY <1>1, <2>1 DEF Firm, Steady, Fixed
<1> QED BY <1>1, <1>3, SelfDoneFixed

LEMMA TakeVmFixed ==
    ASSUME Firm, TakeItem(self)
    PROVE  Fixed'
<1> DEFINE w == [IdleWorker EXCEPT !.pc = "sync"]
<1>1. worker'[self] = w /\ UNCHANGED <<vm, vmWatch, vmIndexer, cfg>>
  BY FirmAt DEF TakeItem, Step, api, events
<1>2. w.pc = "sync"
  BY DEF IdleWorker
<1>3. \A v \in VMs : Shaped(cfg'[v], v)
  BY <1>1 DEF Firm, Steady, Fixed
<1> QED BY <1>1, <1>2, <1>3, FixedSame DEF Alike, Firm, Steady

\* The VirtualMachine worker has nothing to clean up or to delete.
LEMMA SelfNever ==
    ASSUME Firm
    PROVE  ~ \/ UpdateCfg \/ DeleteCfg \/ Cleanup(self) \/ ReleaseIP(self)
             \/ UpdateIPPoolStatusGet(self) \/ UpdateIPPoolStatusPut(self)
<1>1. worker[self].pc \in {"idle", "sync", "macs", "refs", "create"}
  BY SelfInside DEF Firm, Base, Steady, Fixed, Alike
<1> QED BY <1>1
    DEF UpdateCfg, DeleteCfg, Cleanup, ReleaseIP, UpdateIPPoolStatusGet, UpdateIPPoolStatusPut

LEMMA VmWorkerFixed ==
    ASSUME FixedShapes, Firm, VmWorker
    PROVE  Fixed'
BY SelfNever, TakeVmFixed, SyncVmFixed, CheckMacsFixed, CheckRefsFixed, CreateCfgFixed DEF VmWorker

-----------------------------------------------------------------------------
(* What the worker has to do for an object.                                *)

\* The work there is for v does not grow: nothing new is read, and the handler
\* goes on with what it has read.
LessWork(v) ==
    /\ Once(v) => Once(v)'
    /\ ~Asked(v) => ~Asked(v)'
    /\ ~Queued(v) /\ ~Busy(v) => ~Queued(v)' /\ ~Busy(v)'
    /\ Reads(v)' => Reads(v)
    /\ Inside(v)' => \/ Reads(v) /\ worker'[me].obj = cfgIndexer[v]
                     \/ /\ Inside(v)
                        /\ worker'[me].obj = worker[me].obj /\ worker'[me].spec = worker[me].spec
                        /\ \A n \in Nics : Pending(worker'[me], n) => Pending(worker[me], n)

\* The objects and the leases of v are left alone.
SameFor(v) ==
    /\ cfg'[v] = cfg[v] /\ cfgWatch'[v] = cfgWatch[v] /\ cfgIndexer'[v] = cfgIndexer[v]
    /\ \A m \in MACs : leases'[m] = leases[m] \/ (leases[m].ref # v /\ leases'[m].ref # v)

LEMMA LessSettled ==
    ASSUME NEW v \in VMs, Settled(v), SameFor(v), LessWork(v)
    PROVE  Settled(v)'
<1>1. Ordered(v)'
  BY DEF Settled, SameFor, Ordered
<1>2. Nothing(v)'
  BY DEF Settled, SameFor, LessWork, Nothing, Untold
<1>3. Asking(v)'
  BY DEF Settled, SameFor, LessWork, Asking, Open
<1>4. ASSUME NEW n \in NicsOf(cfg[v].spec)
      PROVE  Parked(v, n)'
  <2>1. n \in Nics /\ MacOf(n) \in MACs /\ Parked(v, n)
    BY <1>4, NicFields DEF NicsOf, Settled
  <2>2. SUFFICES ASSUME Unrecorded(v, n)'
                 PROVE  Parked(v, n)'
    BY DEF Parked
  <2>3. Unrecorded(v, n) /\ leases'[MacOf(n)] = leases[MacOf(n)]
    BY <2>1, <2>2 DEF SameFor, Unrecorded
  <2>4. Inside(v)' => \/ worker'[me].obj.status[n] = "ERROR"
                      \/ ~Pending(worker'[me], n) /\ worker'[me].spec[n] = leases[MacOf(n)].ip
    BY <2>1, <2>3 DEF Parked, LessWork
  <2>5. Reads(v)' => cfgIndexer'[v].status[n] = "ERROR"
    BY <2>1, <2>3 DEF Parked, LessWork, SameFor
  <2> QED BY <2>1, <2>3, <2>4, <2>5 DEF Parked, SameFor
<1>5. NicsOf(cfg'[v].spec) = NicsOf(cfg[v].spec)
  BY DEF SameFor
<1> QED BY <1>1, <1>2, <1>3, <1>4, <1>5 DEF Settled, NicsOf

\* Neither the queue nor the worker changes.
LEMMA SameWork ==
    ASSUME UNCHANGED <<queue[me], worker[me]>>, NEW v
    PROVE  LessWork(v)
BY DEF LessWork, Once, Asked, Queued, Again, Busy, Handled, Inside, Reads, KeyOf

\* The worker goes on with an object.
LEMMA MeWork ==
    ASSUME queue'[me] = queue[me], Deep(worker[me]), Deep(worker'[me]), ~Ended(worker[me]),
           worker'[me].obj = worker[me].obj, worker'[me].spec = worker[me].spec,
           \A n \in Nics : Pending(worker'[me], n) => Pending(worker[me], n),
           NEW v
    PROVE  LessWork(v)
<1>1. /\ Queued(v)' = Queued(v) /\ Again(v)' = Again(v) /\ Busy(v)' = Busy(v)
      /\ Handled(v)' => Handled(v)
  BY DEF Queued, Again, Busy, Handled, Deep, KeyOf
<1>2. Once(v) => Once(v)'
  BY <1>1 DEF Once
<1> QED BY <1>1, <1>2 DEF LessWork, Asked, Inside, Reads

\* The worker goes on with another object, or has written the spec of v.
LEMMA OtherWork ==
    ASSUME queue'[me] = queue[me], Deep(worker[me]), Deep(worker'[me]), ~Ended(worker[me]),
           NEW v, KeyOf(me) # v \/ Ended(worker'[me])
    PROVE  LessWork(v)
<1>1. /\ Queued(v)' = Queued(v) /\ Again(v)' = Again(v) /\ Busy(v)' = Busy(v)
      /\ ~Handled(v)'
  BY DEF Queued, Again, Busy, Handled, Deep, KeyOf
<1>2. Once(v) => Once(v)'
  BY <1>1 DEF Once
<1> QED BY <1>1, <1>2 DEF LessWork, Asked, Inside, Reads

\* The worker reads its object from the informer.
LEMMA SyncWork ==
    ASSUME queue'[me] = queue[me], worker[me].pc = "sync", Deep(worker'[me]),
           worker'[me].obj = cfgIndexer[KeyOf(me)], NEW v
    PROVE  LessWork(v)
<1>1. /\ Queued(v)' = Queued(v) /\ Again(v)' = Again(v) /\ Busy(v)' = Busy(v)
      /\ Handled(v)' => Handled(v)
  BY DEF Queued, Again, Busy, Handled, Deep, KeyOf, Ended
<1>2. Once(v) => Once(v)'
  BY <1>1 DEF Once
<1> QED BY <1>1, <1>2 DEF LessWork, Asked, Inside, Reads, Deep, Handled, Busy

\* The worker takes an item.
LEMMA TakeWork ==
    ASSUME Firm, TakeItem(me), NEW v \in VMs
    PROVE  LessWork(v)
<1> DEFINE q == queue[me]
           r == queue'[me]
           w == worker'[me]
<1>1. /\ q.items \in Seq(Event) /\ q.items # <<>> /\ ~q.again /\ worker[me].pc = "idle"
      /\ r.items = Tail(q.items) /\ r.busy = Head(q.items) /\ ~r.again
  BY FirmAt DEF TakeItem, Taken, Queues, Firm, Steady, Rested
<1>2. w.pc = "sync"
  BY FirmAt DEF TakeItem, Step, IdleWorker
<1>3. /\ r.busy = q.items[1] /\ 1 \in DOMAIN q.items
      /\ \A i \in DOMAIN r.items : i \in Nat \ {0} /\ i + 1 \in DOMAIN q.items /\ r.items[i] = q.items[i + 1]
  <2>1. /\ Head(q.items) = q.items[1] /\ 1 \in DOMAIN q.items
        /\ \A i \in DOMAIN Tail(q.items) :
             i + 1 \in DOMAIN q.items /\ Tail(q.items)[i] = q.items[i + 1]
    BY <1>1, FirstAndRest
  <2>2. \A i \in DOMAIN Tail(q.items) : i \in Nat \ {0}
    BY <1>1, HeadTailProperties, LenProperties
  <2> QED BY <1>1, <2>1, <2>2
<1> HIDE DEF q, r, w
<1>4. /\ Queued(v)' <=> \E i \in DOMAIN r.items : r.items[i].key = v
      /\ Again(v)' = FALSE /\ (Busy(v)' <=> q.items[1].key = v)
      /\ (Handled(v)' <=> q.items[1].key = v) /\ ~Deep(w) /\ w = worker'[me]
  BY <1>1, <1>2, <1>3 DEF Queued, Again, Busy, Handled, KeyOf, Ended, Deep, r, w
<1>5. /\ Queued(v) <=> \E i \in DOMAIN q.items : q.items[i].key = v
      /\ ~Busy(v) /\ ~Handled(v) /\ ~Again(v)
  BY <1>1 DEF Queued, Busy, Handled, Again, q
<1>6. Queued(v)' \/ Handled(v)' => Queued(v)
  BY <1>3, <1>4, <1>5
<1>7. Once(v) => Once(v)'
  <2>1. Once(v) => \A i, j \in DOMAIN q.items : q.items[i].key = v /\ q.items[j].key = v => i = j
    BY DEF Once, q
  <2>2. ASSUME Once(v), NEW i \in DOMAIN r.items, NEW j \in DOMAIN r.items,
               r.items[i].key = v, r.items[j].key = v
        PROVE  i = j
    BY <1>3, <2>1, <2>2
  <2>3. ASSUME Once(v), NEW i \in DOMAIN r.items, r.items[i].key = v, q.items[1].key = v
        PROVE  FALSE
    <3>1. i \in Nat \ {0} /\ i + 1 \in DOMAIN q.items /\ q.items[i + 1].key = v
      BY <1>3, <2>3
    <3>2. i + 1 = 1
      BY <1>3, <2>1, <2>3, <3>1
    <3> QED BY <3>1, <3>2
  <2> QED BY <1>4, <2>2, <2>3 DEF Once, r
<1> QED BY <1>4, <1>5, <1>6, <1>7 DEF LessWork, Asked, Reads, Inside

\* The worker is done with its item, which waits again if it was added since.
LEMMA DoneWork ==
    ASSUME Firm, worker[me].pc # "idle", Done(me), NEW v \in VMs
    PROVE  /\ LessWork(v) /\ Rested' /\ ~Again(v)' /\ ~Busy(v)' /\ ~Handled(v)'
           /\ Queued(v)' => Queued(v) \/ Again(v)
<1> DEFINE q == queue[me]
           r == queue'[me]
<1>1. /\ q \in Queues(Event) /\ q.items \in Seq(Event) /\ q.busy \in Event /\ r = Completed(q)
      /\ worker'[me] = IdleWorker /\ IdleWorker.pc = "idle"
  BY FirmAt, IdleTyped DEF Done, Step, Queues
<1>2. /\ r.items = IF q.again THEN Append(q.items, q.busy) ELSE q.items
      /\ r.busy = NoEvent /\ ~r.again
  BY <1>1 DEF Completed
<1>3. /\ Len(q.items) \in Nat /\ DOMAIN q.items = 1..Len(q.items)
      /\ DOMAIN Append(q.items, q.busy) = 1..(Len(q.items) + 1)
      /\ \A i \in 1..Len(q.items) : Append(q.items, q.busy)[i] = q.items[i]
      /\ Append(q.items, q.busy)[Len(q.items) + 1] = q.busy
  BY <1>1, AppendProperties, LenProperties
<1> HIDE DEF q, r
<1>4. /\ Queued(v)' <=> \E i \in DOMAIN r.items : r.items[i].key = v
      /\ ~Again(v)' /\ ~Busy(v)' /\ ~Handled(v)' /\ Rested'
  BY <1>1, <1>2 DEF Queued, Again, Busy, Handled, Rested, r
<1>5. /\ Queued(v) <=> \E i \in DOMAIN q.items : q.items[i].key = v
      /\ Again(v) <=> q.again /\ q.busy.key = v
      /\ Again(v) => Busy(v)
  BY DEF Queued, Again, Busy, KeyOf, q
<1>6. Queued(v)' => Queued(v) \/ Again(v)
  BY <1>2, <1>3, <1>4, <1>5
<1>7. Once(v) => Once(v)'
  <2>1. Once(v) => \A i, j \in DOMAIN q.items : q.items[i].key = v /\ q.items[j].key = v => i = j
    BY DEF Once, q
  <2>2. ASSUME Once(v), NEW i \in DOMAIN r.items, NEW j \in DOMAIN r.items,
               r.items[i].key = v, r.items[j].key = v
        PROVE  i = j
    <3>1. CASE ~q.again
      BY <1>2, <2>1, <2>2, <3>1
    <3>2. CASE q.again
      <4>1. q.busy.key = v => \A k \in DOMAIN q.items : q.items[k].key # v
        BY <1>5, <2>2, <3>2 DEF Once
      <4> QED BY <1>2, <1>3, <2>1, <2>2, <3>2, <4>1
    <3> QED BY <3>1, <3>2
  <2> QED BY <1>4, <2>2 DEF Once, r
<1> QED BY <1>4, <1>5, <1>6, <1>7 DEF LessWork, Asked, Reads, Inside

-----------------------------------------------------------------------------
(* The steps of the vmnetcfg worker.                                       *)

LEMMA SameMeant ==
    ASSUME NEW w \in Workers, NEW x, NEW v, Meant(w, v), ~Ended(w),
           x.obj = w.obj, x.spec = w.spec, x.change = w.change, x.next = "nic", x.pc # "release",
           Visiting(x) => x.nic \notin x.todo /\ x.obj.status[x.nic] # "ERROR",
           x.pc = "addlease" => x.obj.spec[x.nic] \in {NoIP, x.ip},
           x.pc \in {"update", "ustatus"} => x.todo = {},
           x.pc = "update" => x.change,
           x.pc = "ustatus" => ~x.change,
           \A n \in Nics : x.spec[n] = NoIP /\ ~Pending(x, n) => x.status[n] = "ERROR"
    PROVE  Meant(x, v)
<1>1. x.pc = "ustatus" => w.spec = w.obj.spec
  <2>1. w.spec \in Specs /\ w.obj.spec \in Specs
    BY DEF Workers, CfgObjects
  <2>2. x.pc = "ustatus" => \A n \in Nics : w.spec[n] = w.obj.spec[n]
    BY MeantAt
  <2> QED BY <2>1, <2>2 DEF Specs
<1>2. \A n \in Nics : x.spec[n] # x.obj.spec[n] =>
        x.change /\ Open(x.obj, n) /\ leases[MacOf(n)] = LeaseOf(v, n, x.spec[n])
  BY MeantAt
<1> QED BY <1>1, <1>2 DEF Meant, Ended, Visiting

LEMMA MeSteady ==
    ASSUME Firm, Fixed', budget'["edit"] = 0, queue'[me] = queue[me],
           UNCHANGED <<cfg, cfgWatch, cfgIndexer, leases, phase>>,
           Deep(worker[me]), ~Ended(worker[me]), NEW x, worker'[me] = x, Deep(x),
           x.obj = worker[me].obj, x.spec = worker[me].spec,
           \A n \in Nics : Pending(x, n) => Pending(worker[me], n),
           Meant(x, KeyOf(me))
    PROVE  Steady'
<1>1. KeyOf(me)' = KeyOf(me) /\ phase # "down" /\ x.pc # "idle"
  BY FirmAt DEF Deep, KeyOf
<1>2. Rested'
  BY <1>1 DEF Rested
<1>3. \A v \in VMs : LessWork(v) /\ SameFor(v)
  BY MeWork DEF SameFor
<1>4. \A v \in VMs : Settled(v)'
  BY <1>3, LessSettled DEF Firm, Steady
<1>5. (Deep(worker[me]) => Meant(worker[me], KeyOf(me)))'
  BY <1>1 DEF Meant
<1> QED BY <1>1, <1>2, <1>4, <1>5 DEF Steady

\* The worker goes on with an object and with what it wants to write of its
\* spec.
LEMMA MeGoesOn ==
    ASSUME Firm, Fixed', budget'["edit"] = 0, queue'[me] = queue[me],
           UNCHANGED <<cfg, cfgWatch, cfgIndexer, leases, phase>>,
           Deep(worker[me]), worker[me].pc # "ustatus", NEW x, worker'[me] = x, Deep(x),
           x.obj = worker[me].obj, x.spec = worker[me].spec, x.change = worker[me].change,
           x.next = "nic", x.pc # "release",
           Visiting(x) => x.nic \notin x.todo /\ x.obj.status[x.nic] # "ERROR",
           x.pc = "addlease" => x.obj.spec[x.nic] \in {NoIP, x.ip},
           x.pc \in {"update", "ustatus"} => x.todo = {},
           x.pc = "update" => x.change,
           x.pc = "ustatus" => ~x.change,
           \A n \in Nics : Pending(x, n) => Pending(worker[me], n),
           \A n \in Nics : x.spec[n] = NoIP /\ ~Pending(x, n) => x.status[n] = "ERROR"
    PROVE  Steady'
<1>1. Meant(worker[me], KeyOf(me)) /\ ~Ended(worker[me])
  BY DEF Firm, Steady, Ended
<1>2. Meant(x, KeyOf(me))
  BY <1>1, SameMeant, FirmAt
<1> QED BY <1>1, <1>2, MeSteady

LEMMA DoneSteady ==
    ASSUME Firm, Fixed', budget'["edit"] = 0, Done(me), worker[me].pc # "idle",
           UNCHANGED <<cfg, cfgWatch, cfgIndexer, leases, phase>>
    PROVE  Steady'
<1>1. \A v \in VMs : LessWork(v) /\ SameFor(v)
  BY DoneWork DEF SameFor
<1>2. \A v \in VMs : Settled(v)'
  BY <1>1, LessSettled DEF Firm, Steady
<1>3. Rested' /\ phase # "down"
  BY DoneWork, FirmAt
<1>4. worker'[me] = IdleWorker /\ IdleWorker.pc = "idle"
  BY FirmAt, IdleTyped DEF Done, Step
<1> QED BY <1>2, <1>3, <1>4 DEF Steady, Deep

LEMMA TakeItemSteady ==
    ASSUME Firm, Fixed', TakeItem(me)
    PROVE  Steady'
<1> DEFINE w == [IdleWorker EXCEPT !.pc = "sync"]
<1>1. worker'[me] = w /\ UNCHANGED <<cfg, cfgWatch, cfgIndexer, leases, ipam, phase, budget>>
  BY FirmAt DEF TakeItem, Step, api, events, memory, boot
<1>2. w.pc = "sync"
  BY DEF IdleWorker
<1>3. \A v \in VMs : LessWork(v) /\ SameFor(v)
  BY <1>1, TakeWork DEF SameFor
<1>4. \A v \in VMs : Settled(v)'
  BY <1>3, LessSettled DEF Firm, Steady
<1> QED BY <1>1, <1>2, <1>4 DEF Firm, Steady, Rested, Deep

\* The object has the recorded spec, and none of it is handled yet.
LEMMA SyncCfgSteady ==
    ASSUME Firm, Fixed', SyncCfg
    PROVE  Steady'
<1> DEFINE v   == KeyOf(me)
           obj == cfgIndexer[v]
           w   == [IdleWorker EXCEPT !.pc = IF obj.del THEN "clean" ELSE "nic",
                     !.obj = obj, !.todo = NicsOf(obj.spec), !.spec = obj.spec]
<1>1. /\ UNCHANGED <<cfg, cfgWatch, cfgIndexer, leases, ipam, phase, budget>>
      /\ worker[me].pc = "sync" /\ v \in VMs /\ phase # "down"
      /\ Done(me) \/ (Step(me, w) /\ UNCHANGED queue)
  BY FirmAt DEF SyncCfg, api, events, memory, boot, KeyOf
<1>2. CASE Done(me)
  BY <1>1, <1>2, DoneSteady DEF Firm, Steady
<1>3. CASE Step(me, w) /\ UNCHANGED queue
  <2>1. ~obj.del /\ obj.spec = cfg[v].spec
    <3>1. Asked(v)
      BY <1>1 DEF Asked, Handled, Busy, Ended
    <3> QED BY <1>1, <3>1 DEF Firm, Base, Growth, Copies, Live, Steady, Settled, Asking
  <2>2. /\ w.pc = "nic" /\ w.obj = obj /\ w.spec = obj.spec /\ w.todo = NicsOf(obj.spec)
        /\ w.next = "nic" /\ worker'[me] = w
    BY <1>3, <2>1, FirmAt DEF IdleWorker, Step
  <2>3. obj.rv <= cfgIndexer[v].rv
    BY <1>1, FirmAt DEF CfgObjects
  <2> HIDE DEF w
  <2>4. Deep(w) /\ ~Ended(w)
    BY <2>2 DEF Deep, Ended
  <2>5. \A n \in Nics : w.spec[n] = NoIP => Pending(w, n)
    BY <2>2, ConstantsAssumption DEF Pending, Visiting, NicsOf
  <2>6. Meant(w, v)
    BY <2>1, <2>2, <2>3, <2>5 DEF Meant, Visiting
  <2>7. \A u \in VMs : LessWork(u) /\ SameFor(u)
    BY <1>1, <1>3, <2>2, <2>4, SyncWork DEF SameFor
  <2>8. \A u \in VMs : Settled(u)'
    BY <2>7, LessSettled DEF Firm, Steady
  <2>9. (Deep(worker[me]) => Meant(worker[me], KeyOf(me)))'
    BY <1>1, <1>3, <2>2, <2>6 DEF Meant, KeyOf
  <2>10. Rested'
    BY <2>2 DEF Rested
  <2> QED BY <1>1, <2>8, <2>9, <2>10 DEF Firm, Steady
<1> QED BY <1>1, <1>2, <1>3

\* The worker puts an interface in error and goes on.
LEMMA ErrorSteady ==
    ASSUME Firm, Fixed', budget'["edit"] = 0, queue'[me] = queue[me],
           UNCHANGED <<cfg, cfgWatch, cfgIndexer, leases, phase>>,
           worker[me].pc \in {"nic", "owner", "getip"}, NEW n \in Nics, NEW u \in Workers,
           u.obj = worker[me].obj, u.spec = worker[me].spec, u.change = worker[me].change,
           u.next = worker[me].next, u.status = worker[me].status, u.todo \subseteq worker[me].todo,
           \A m \in Nics : Pending(worker[me], m) => m \in u.todo \/ m = n,
           worker'[me] = InError(u, n)
    PROVE  Steady'
<1> DEFINE w == worker[me]
           x == InError(u, n)
<1>1. /\ x.pc = "nic" /\ x.obj = w.obj /\ x.spec = w.spec /\ x.change = w.change
      /\ x.next = w.next /\ x.todo = u.todo /\ x.status = [w.status EXCEPT ![n] = "ERROR"]
  BY DEF InError, Workers
<1>2. Meant(w, KeyOf(me)) /\ w.status \in Statuses
  BY FirmAt DEF Firm, Steady, Deep, Workers
<1> HIDE DEF x
<1>3. ASSUME NEW m \in Nics, x.spec[m] = NoIP, ~Pending(x, m)
      PROVE  x.status[m] = "ERROR"
  <2>1. CASE m = n
    BY <1>1, <1>2, <2>1 DEF Statuses
  <2>2. CASE m # n
    <3>1. ~Pending(w, m)
      BY <1>1, <1>3, <2>2 DEF Pending, Visiting
    <3>2. w.status[m] = "ERROR"
      BY <1>1, <1>2, <1>3, <3>1 DEF Meant
    <3> QED BY <1>1, <1>2, <2>2, <3>2 DEF Statuses
  <2> QED BY <2>1, <2>2
<1>4. \A m \in Nics : Pending(x, m) => Pending(w, m)
  BY <1>1 DEF Pending, Visiting
<1>5. Deep(w) /\ Deep(x) /\ ~Visiting(x) /\ w.next = "nic"
  BY <1>1, <1>2 DEF Deep, Visiting, Meant
<1> QED BY <1>1, <1>3, <1>4, <1>5, MeGoesOn DEF x

\* The worker looks at an interface, or at another one.
LEMMA VisitSteady ==
    ASSUME Firm, Fixed', budget'["edit"] = 0, queue'[me] = queue[me],
           UNCHANGED <<cfg, cfgWatch, cfgIndexer, leases, phase>>,
           Deep(worker[me]), worker[me].pc # "ustatus", NEW x, worker'[me] = x,
           x.obj = worker[me].obj, x.spec = worker[me].spec, x.change = worker[me].change,
           x.next = "nic", x.status = worker[me].status, x.pc \notin {"idle", "sync", "release"},
           Visiting(x) => x.nic \notin x.todo /\ x.obj.status[x.nic] # "ERROR",
           x.pc = "addlease" => x.obj.spec[x.nic] \in {NoIP, x.ip},
           x.pc \in {"update", "ustatus"} => x.todo = {},
           x.pc = "update" => x.change,
           x.pc = "ustatus" => ~x.change,
           \A n \in Nics : Pending(x, n) <=> Pending(worker[me], n)
    PROVE  Steady'
<1>1. Meant(worker[me], KeyOf(me))
  BY DEF Firm, Steady
<1>2. \A n \in Nics : x.spec[n] = NoIP /\ ~Pending(x, n) => x.status[n] = "ERROR"
  BY <1>1 DEF Meant
<1> QED BY <1>2, MeGoesOn DEF Deep

LEMMA CheckNicSteady ==
    ASSUME Firm, Fixed', CheckNic
    PROVE  Steady'
<1> DEFINE w    == worker[me]
           v(n) == [w EXCEPT !.todo = @ \ {n}, !.nic = n]
           x(n) == [v(n) EXCEPT !.pc = "owner"]
           y(n) == [v(n) EXCEPT !.pc = "getip"]
<1>1. /\ w \in Workers /\ w.pc = "nic"
      /\ UNCHANGED <<cfg, cfgWatch, cfgIndexer, leases, phase, queue>> /\ budget'["edit"] = 0
  BY FirmAt DEF CheckNic, api, events, memory, boot, Firm, Steady
<1>2. PICK n \in w.todo :
        \/ Step(me, InError(v(n), n))
        \/ w.obj.status[n] # "ERROR" /\ (Step(me, x(n)) \/ Step(me, y(n)))
  BY DEF CheckNic
<1>3. /\ n \in Nics /\ v(n) \in Workers /\ v(n).obj = w.obj /\ v(n).spec = w.spec
      /\ v(n).todo = w.todo \ {n} /\ v(n).nic = n /\ v(n).next = w.next /\ v(n).pc = "nic"
      /\ v(n).change = w.change /\ v(n).status = w.status
  BY <1>1 DEF Workers
<1> HIDE DEF v
<1>4. /\ x(n).obj = w.obj /\ x(n).spec = w.spec /\ x(n).todo = w.todo \ {n} /\ x(n).nic = n
      /\ x(n).next = w.next /\ x(n).pc = "owner" /\ x(n).change = w.change
      /\ x(n).status = w.status
  BY <1>3 DEF Workers
<1>5. /\ y(n).obj = w.obj /\ y(n).spec = w.spec /\ y(n).todo = w.todo \ {n} /\ y(n).nic = n
      /\ y(n).next = w.next /\ y(n).pc = "getip" /\ y(n).change = w.change
      /\ y(n).status = w.status
  BY <1>3 DEF Workers
<1> HIDE DEF x, y
<1>6. CASE Step(me, InError(v(n), n))
  <2>1. worker'[me] = InError(v(n), n)
    BY <1>6, FirmAt DEF Step
  <2>2. \A m \in Nics : Pending(w, m) => m \in v(n).todo \/ m = n
    BY <1>1, <1>3 DEF Pending, Visiting
  <2> QED BY <1>1, <1>3, <2>1, <2>2, ErrorSteady
<1>7. w.next = "nic" /\ Deep(w)
  BY <1>1 DEF Firm, Steady, Meant, Deep
<1>8. ASSUME w.obj.status[n] # "ERROR", NEW z, Step(me, z), z = x(n) \/ z = y(n)
      PROVE  Steady'
  <2>1. worker'[me] = z
    BY <1>8, FirmAt DEF Step
  <2>2. \A m \in Nics : Pending(z, m) <=> Pending(w, m)
    BY <1>1, <1>2, <1>4, <1>5, <1>8 DEF Pending, Visiting
  <2> QED BY <1>1, <1>4, <1>5, <1>7, <1>8, <2>1, <2>2, VisitSteady
<1> QED BY <1>2, <1>6, <1>8

LEMMA CheckOwnerSteady ==
    ASSUME Firm, Fixed', CheckOwner
    PROVE  Steady'
<1> DEFINE w == worker[me]
           n == w.nic
           x == [w EXCEPT !.pc = "held"]
<1>1. /\ w \in Workers /\ n \in Nics /\ w.pc = "owner"
      /\ UNCHANGED <<cfg, cfgWatch, cfgIndexer, leases, phase, queue>> /\ budget'["edit"] = 0
      /\ Step(me, InError(w, n)) \/ Step(me, x)
  BY FirmAt DEF CheckOwner, api, events, memory, boot, Firm, Steady, Handlers, AtNic
<1>2. CASE Step(me, InError(w, n))
  <2>1. worker'[me] = InError(w, n)
    BY <1>2, FirmAt DEF Step
  <2>2. \A m \in Nics : Pending(w, m) => m \in w.todo \/ m = n
    BY DEF Pending, Visiting
  <2> QED BY <1>1, <2>1, <2>2, ErrorSteady
<1>3. /\ x.obj = w.obj /\ x.spec = w.spec /\ x.todo = w.todo /\ x.nic = w.nic
      /\ x.next = w.next /\ x.pc = "held" /\ x.change = w.change /\ x.status = w.status
  BY <1>1 DEF Workers
<1> HIDE DEF x
<1>4. CASE Step(me, x)
  <2>1. worker'[me] = x
    BY <1>4, FirmAt DEF Step
  <2>2. \A m \in Nics : Pending(x, m) <=> Pending(w, m)
    BY <1>1, <1>3 DEF Pending, Visiting
  <2>3. w.next = "nic" /\ Deep(w) /\ n \notin w.todo /\ w.obj.status[n] # "ERROR"
    BY <1>1 DEF Firm, Steady, Meant, Visiting, Deep
  <2> QED BY <1>1, <1>3, <2>1, <2>2, <2>3, VisitSteady
<1> QED BY <1>1, <1>2, <1>4

LEMMA GetIPSteady ==
    ASSUME Firm, Fixed', GetIP
    PROVE  Steady'
<1> DEFINE w    == worker[me]
           n    == w.nic
           x(a) == [w EXCEPT !.pc = "addlease", !.ip = a]
           u    == [w EXCEPT !.ip = NoIP]
<1>1. /\ w \in Workers /\ n \in Nics /\ w.pc = "getip"
      /\ UNCHANGED <<cfg, cfgWatch, cfgIndexer, leases, phase, queue>> /\ budget'["edit"] = 0
  BY FirmAt DEF GetIP, api, events, memory, boot, Firm, Steady, Handlers, AtNic
<1>2. \/ \E a \in IPs : w.obj.spec[n] \in {NoIP, a} /\ Step(me, x(a))
      \/ Step(me, InError(u, n))
  BY DEF GetIP, Grantable
<1>3. /\ u \in Workers /\ u.obj = w.obj /\ u.spec = w.spec /\ u.change = w.change
      /\ u.next = w.next /\ u.status = w.status /\ u.todo = w.todo
  BY <1>1 DEF Workers
<1> HIDE DEF u
<1>4. CASE Step(me, InError(u, n))
  <2>1. worker'[me] = InError(u, n)
    BY <1>4, FirmAt DEF Step
  <2>2. \A m \in Nics : Pending(w, m) => m \in w.todo \/ m = n
    BY DEF Pending, Visiting
  <2> QED BY <1>1, <1>3, <2>1, <2>2, ErrorSteady
<1>5. ASSUME NEW a \in IPs, w.obj.spec[n] \in {NoIP, a}, Step(me, x(a))
      PROVE  Steady'
  <2>1. /\ x(a).obj = w.obj /\ x(a).spec = w.spec /\ x(a).todo = w.todo /\ x(a).nic = w.nic
        /\ x(a).next = w.next /\ x(a).pc = "addlease" /\ x(a).change = w.change
        /\ x(a).status = w.status /\ x(a).ip = a
    BY <1>1 DEF Workers
  <2> HIDE DEF x
  <2>2. worker'[me] = x(a)
    BY <1>5, FirmAt DEF Step
  <2>3. \A m \in Nics : Pending(x(a), m) <=> Pending(w, m)
    BY <1>1, <2>1 DEF Pending, Visiting
  <2>4. w.next = "nic" /\ Deep(w) /\ n \notin w.todo /\ w.obj.status[n] # "ERROR"
    BY <1>1 DEF Firm, Steady, Meant, Visiting, Deep
  <2> QED BY <1>1, <1>5, <2>1, <2>2, <2>3, <2>4, VisitSteady
<1> QED BY <1>2, <1>4, <1>5

LEMMA PoolGetSteady ==
    ASSUME Firm, Fixed', UpdateIPPoolStatusGet(me)
    PROVE  Steady'
<1> DEFINE w == worker[me]
           x == [w EXCEPT !.pc = w.next]
           y == [w EXCEPT !.pc = "poolput", !.fresh = TRUE, !.used = Cardinality(ipam[NetOf(w.nic)])]
<1>1. /\ w \in Workers /\ w.pc = "poolget" /\ w.next = "nic"
      /\ UNCHANGED <<cfg, cfgWatch, cfgIndexer, leases, phase, queue>> /\ budget'["edit"] = 0
      /\ Step(me, x) \/ Step(me, y)
  BY FirmAt DEF UpdateIPPoolStatusGet, api, events, memory, boot, Firm, Steady, Meant, Deep
<1>2. /\ x.obj = w.obj /\ x.spec = w.spec /\ x.todo = w.todo /\ x.change = w.change
      /\ x.status = w.status /\ x.pc = "nic" /\ x.next = "nic"
  BY <1>1 DEF Workers
<1>3. /\ y.obj = w.obj /\ y.spec = w.spec /\ y.todo = w.todo /\ y.change = w.change
      /\ y.status = w.status /\ y.pc = "poolput" /\ y.next = "nic"
  BY <1>1 DEF Workers
<1> HIDE DEF x, y
<1>4. worker'[me] = x \/ worker'[me] = y
  BY <1>1, FirmAt DEF Step
<1> QED BY <1>1, <1>2, <1>3, <1>4, VisitSteady DEF Pending, Visiting, Deep

LEMMA PoolPutSteady ==
    ASSUME Firm, Fixed', UpdateIPPoolStatusPut(me)
    PROVE  Steady'
<1> DEFINE w == worker[me]
           x == [w EXCEPT !.pc = w.next, !.fresh = FALSE, !.used = 0, !.retry = 0]
           y == [w EXCEPT !.pc = "poolget", !.used = 0, !.retry = @ + 1]
<1>1. /\ w \in Workers /\ w.pc = "poolput" /\ w.next = "nic"
      /\ UNCHANGED <<cfg, cfgWatch, cfgIndexer, leases, phase, queue>> /\ budget'["edit"] = 0
      /\ worker'[me] = x \/ Step(me, x) \/ Step(me, y)
  BY FirmAt DEF UpdateIPPoolStatusPut, events, memory, boot, Firm, Steady, Meant, Deep
<1>2. /\ x.obj = w.obj /\ x.spec = w.spec /\ x.todo = w.todo /\ x.change = w.change
      /\ x.status = w.status /\ x.pc = "nic" /\ x.next = "nic"
  BY <1>1 DEF Workers
<1>3. /\ y.obj = w.obj /\ y.spec = w.spec /\ y.todo = w.todo /\ y.change = w.change
      /\ y.status = w.status /\ y.pc = "poolget" /\ y.next = "nic"
  BY <1>1 DEF Workers
<1> HIDE DEF x, y
<1>4. worker'[me] = x \/ worker'[me] = y
  BY <1>1, FirmAt DEF Step
<1> QED BY <1>1, <1>2, <1>3, <1>4, VisitSteady DEF Pending, Visiting, Deep

LEMMA NoPoolSteady ==
    ASSUME Firm, Fixed', NoPool
    PROVE  Steady'
BY DoneSteady DEF NoPool, Return, api, events, memory, Firm, Steady

LEMMA NicsDoneSteady ==
    ASSUME Firm, Fixed', NicsDone
    PROVE  Steady'
<1> DEFINE w == worker[me]
           x == [w EXCEPT !.pc = "update"]
           y == [w EXCEPT !.pc = "ustatus"]
<1>1. /\ w \in Workers /\ w.pc = "nic" /\ w.todo = {} /\ w.next = "nic"
      /\ UNCHANGED <<cfg, cfgWatch, cfgIndexer, leases, phase>> /\ budget'["edit"] = 0
      /\ \/ w.change /\ Step(me, x) /\ UNCHANGED queue
         \/ ~w.change /\ Step(me, y) /\ UNCHANGED queue
         \/ Done(me)
  BY FirmAt DEF NicsDone, Return, api, events, memory, Firm, Steady, Meant, Deep
<1>2. /\ x.obj = w.obj /\ x.spec = w.spec /\ x.todo = w.todo /\ x.change = w.change
      /\ x.status = w.status /\ x.pc = "update" /\ x.next = "nic"
  BY <1>1 DEF Workers
<1>3. /\ y.obj = w.obj /\ y.spec = w.spec /\ y.todo = w.todo /\ y.change = w.change
      /\ y.status = w.status /\ y.pc = "ustatus" /\ y.next = "nic"
  BY <1>1 DEF Workers
<1> HIDE DEF x, y
<1>4. CASE Done(me)
  BY <1>1, <1>4, DoneSteady
<1>5. CASE UNCHANGED queue /\ ((w.change /\ Step(me, x)) \/ (~w.change /\ Step(me, y)))
  <2>1. (w.change /\ worker'[me] = x) \/ (~w.change /\ worker'[me] = y)
    BY <1>5, FirmAt DEF Step
  <2> QED BY <1>1, <1>2, <1>3, <1>5, <2>1, VisitSteady DEF Pending, Visiting, Deep
<1> QED BY <1>1, <1>4, <1>5

\* The interface the worker visits is one its object lists.
LEMMA VisitedNic ==
    ASSUME FixedShapes, Firm, NEW n \in Bound(KeyOf(me)), worker[me].pc # "idle"
    PROVE  n \in NicsOf(cfg[KeyOf(me)].spec)
<1> DEFINE v == KeyOf(me)
<1>1. v \in VMs /\ Shapes[v] \subseteq SUBSET Nics
  BY FirmAt, EnvironmentAssumption
<1>2. cfg[v].exists
  BY <1>1 DEF Firm, Steady, Settled, Nothing, Untold, Busy
<1>3. NicsOf(cfg[v].spec) \in Shapes[v]
  BY <1>1, <1>2 DEF Firm, Steady, Fixed, Shaped
<1>4. n \in UNION Shapes[v]
  BY <1>1, BoundShapes DEF Firm, Base
<1> QED BY <1>1, <1>3, <1>4 DEF FixedShapes

\* A lease the worker finds is the recorded one.
LEMMA CheckHeldSteady ==
    ASSUME FixedShapes, OneNetwork, Firm, Fixed', CheckHeld
    PROVE  Steady' /\ UNCHANGED leases
<1> DEFINE w == worker[me]
           v == KeyOf(me)
           n == w.nic
           l == leases[MacOf(n)]
           x == [w EXCEPT !.pc = "getip"]
           y == [w EXCEPT !.pc = "nic", !.nic = NoNic, !.status[n] = w.obj.status[n]]
<1>1. /\ w \in Workers /\ n \in Nics /\ w.pc = "held" /\ v \in VMs /\ n \in Bound(v)
      /\ MacOf(n) \in MACs /\ NetOf(n) \in Networks
      /\ UNCHANGED <<cfg, cfgWatch, cfgIndexer, phase, queue>> /\ budget'["edit"] = 0
  BY FirmAt, MeInside, NicFields
  DEF CheckHeld, api, events, boot, Firm, Base, Steady, Handlers, AtNic, Within
<1>2. Meant(w, v) /\ Deep(w)
  BY <1>1 DEF Firm, Steady, Deep
<1>3. CheckLease(MacOf(n)) =>
        l.ref = v /\ l.net = NetOf(n) /\ l.ip \in IPs /\ l.ip = w.obj.spec[n]
  <2>1. SUFFICES ASSUME CheckLease(MacOf(n))
                 PROVE  l.ref = v /\ l.net = NetOf(n) /\ l.ip \in IPs /\ l.ip = w.obj.spec[n]
    OBVIOUS
  <2>2. l.ref = v /\ Marked(MacOf(n))
    BY <1>1, <2>1 DEF Firm, Base, Leasing, Reserved
  <2>3. l.ip \in IPs
    BY <2>2 DEF Marked, Firm, Base, Growth, Typed, TypeOK
  <2>4. l.net = NetOf(n)
    <3>1. n \in UNION Shapes[v] /\ <<MacOf(n), l.net>> \in UNION Shapes[v]
      BY <1>1, <2>2, BoundShapes DEF Firm, Base, Marked
    <3>2. <<MacOf(n), l.net>> = n
      BY <1>1, <3>1 DEF OneNetwork, MacOf
    <3> QED BY <3>2 DEF NetOf
  <2>5. n \in NicsOf(cfg[v].spec)
    BY <1>1, VisitedNic
  <2>6. Parked(v, n)
    BY <1>1, <2>5 DEF Firm, Steady, Settled
  <2>7. Inside(v) /\ Pending(w, n) /\ w.obj.status[n] # "ERROR"
    BY <1>1, <1>2 DEF Inside, Handled, Busy, Ended, Pending, Visiting, Meant
  <2>8. l.ip = cfg[v].spec[n]
    BY <2>2, <2>4, <2>6, <2>7 DEF Parked, Unrecorded
  <2>9. w.obj.spec = cfg[v].spec
    BY <1>2 DEF Meant
  <2> QED BY <2>2, <2>3, <2>4, <2>8, <2>9
<1>4. /\ UNCHANGED leases
      /\ Step(me, x) \/ (CheckLease(MacOf(n)) /\ Step(me, y))
  BY <1>3 DEF CheckHeld, Kept
<1>5. w.next = "nic" /\ n \notin w.todo /\ w.obj.status[n] # "ERROR"
  BY <1>1, <1>2 DEF Meant, Visiting
<1>6. CASE Step(me, x)
  <2>1. /\ x.obj = w.obj /\ x.spec = w.spec /\ x.todo = w.todo /\ x.nic = w.nic
        /\ x.next = w.next /\ x.pc = "getip" /\ x.change = w.change /\ x.status = w.status
    BY <1>1 DEF Workers
  <2> HIDE DEF x
  <2>2. worker'[me] = x
    BY <1>6, FirmAt DEF Step
  <2>3. \A m \in Nics : Pending(x, m) <=> Pending(w, m)
    BY <1>1, <2>1 DEF Pending, Visiting
  <2> QED BY <1>1, <1>2, <1>4, <1>5, <2>1, <2>2, <2>3, VisitSteady
<1>7. CASE CheckLease(MacOf(n)) /\ Step(me, y)
  <2>1. /\ y.obj = w.obj /\ y.spec = w.spec /\ y.todo = w.todo
        /\ y.next = w.next /\ y.pc = "nic" /\ y.change = w.change
        /\ \A m \in Nics \ {n} : y.status[m] = w.status[m]
    BY <1>1 DEF Workers, Statuses
  <2> HIDE DEF y
  <2>2. worker'[me] = y
    BY <1>7, FirmAt DEF Step
  <2>3. w.spec[n] # NoIP
    <3>1. w.obj.spec[n] # NoIP
      BY <1>3, <1>7, ConstantsAssumption
    <3> QED BY <1>1, <1>2, <3>1, MeantAt DEF Open
  <2>4. ASSUME NEW m \in Nics, y.spec[m] = NoIP, ~Pending(y, m)
        PROVE  y.status[m] = "ERROR"
    <3>1. m # n /\ ~Pending(w, m)
      BY <1>1, <2>1, <2>3, <2>4 DEF Pending, Visiting
    <3> QED BY <1>2, <2>1, <2>4, <3>1 DEF Meant
  <2>5. \A m \in Nics : Pending(y, m) => Pending(w, m)
    BY <2>1 DEF Pending, Visiting
  <2> QED BY <1>1, <1>2, <1>4, <1>5, <2>1, <2>2, <2>4, <2>5, MeGoesOn DEF Visiting, Deep
<1> QED BY <1>4, <1>6, <1>7

\* The worker goes on with something to do for its object.
LEMMA SameAsked ==
    ASSUME queue'[me] = queue[me], Deep(worker[me]), Deep(worker'[me]), ~Ended(worker[me]),
           ~Ended(worker'[me]), NEW v
    PROVE  /\ Once(v)' = Once(v) /\ Asked(v)' = Asked(v) /\ Reads(v)' = Reads(v)
           /\ Inside(v)' = Inside(v)
<1>1. /\ Queued(v)' = Queued(v) /\ Again(v)' = Again(v) /\ Busy(v)' = Busy(v)
      /\ Handled(v)' = Handled(v)
  BY DEF Queued, Again, Busy, Handled, Deep, KeyOf
<1>2. Once(v)' = Once(v)
  BY <1>1 DEF Once
<1> QED BY <1>1, <1>2 DEF Asked, Inside, Reads

\* Two interfaces of a virtual machine that have a MAC address are one.
LEMMA SameNic ==
    ASSUME FixedShapes, OneNetwork, Firm, NEW n \in Bound(KeyOf(me)), worker[me].pc # "idle",
           NEW k \in NicsOf(cfg[KeyOf(me)].spec), MacOf(k) = MacOf(n)
    PROVE  k = n
<1> DEFINE v == KeyOf(me)
<1>1. v \in VMs
  BY FirmAt
<1>2. cfg[v].exists
  BY <1>1 DEF Firm, Steady, Settled, Nothing, Untold, Busy
<1>3. NicsOf(cfg[v].spec) \in Shapes[v]
  BY <1>1, <1>2 DEF Firm, Steady, Fixed, Shaped
<1>4. n \in UNION Shapes[v]
  BY <1>1, BoundShapes DEF Firm, Base
<1> QED BY <1>1, <1>3, <1>4 DEF OneNetwork

\* A lease for an address that is not recorded yet: the object that asks is
\* handled only once.
LEMMA RegisterLeaseSteady ==
    ASSUME FixedShapes, OneNetwork, Firm, Fixed', RegisterLease
    PROVE  /\ Steady' /\ ~CheckLease(MacOf(worker[me].nic))
           /\ \A m \in MACs \ {MacOf(worker[me].nic)} : leases'[m] = leases[m]
<1>0. PICK w \in Workers, v \in VMs, n \in Nics : w = worker[me] /\ v = KeyOf(me) /\ n = w.nic
  BY AtShape DEF RegisterLease, AtNic, Firm, Base
<1> DEFINE x == [w EXCEPT !.pc = "poolget", !.op = "add", !.next = "nic", !.retry = 0,
                          !.change = TRUE, !.spec = Recorded(w), !.status[n] = "OK"]
<1>1. /\ w.pc = "addlease" /\ w.ip \in IPs /\ n \in Bound(v) /\ MacOf(n) \in MACs
      /\ UNCHANGED <<cfg, cfgWatch, cfgIndexer, phase, queue>> /\ budget'["edit"] = 0
      /\ AddLease(MacOf(n), NetOf(n), w.ip, v) /\ worker'[me] = x /\ phase # "down"
  BY <1>0, FirmAt, MeInside, NicFields
  DEF RegisterLease, Step, api, events, boot, Firm, Base, Steady, Handlers, AtNic, Granted, Within
<1>2. /\ leases \in [MACs -> Leases] /\ ~CheckLease(MacOf(n))
      /\ leases' = [leases EXCEPT ![MacOf(n)] = LeaseOf(v, n, w.ip)]
  BY <1>0, <1>1, LeaseTypes DEF Firm, Base, Accounts, Vacant, Expecting, AddLease, LeaseOf
<1>3. /\ \A m \in MACs \ {MacOf(n)} : leases'[m] = leases[m]
      /\ leases'[MacOf(n)] = LeaseOf(v, n, w.ip)
      /\ leases[MacOf(n)].ref = NoRef
      /\ leases'[MacOf(n)].ref = v /\ leases'[MacOf(n)].ip = w.ip
      /\ leases'[MacOf(n)].net = NetOf(n)
  BY <1>0, <1>1, <1>2 DEF CheckLease, ZeroLease, LeaseOf
<1>4. /\ x.pc = "poolget" /\ x.obj = w.obj /\ x.todo = w.todo /\ x.next = "nic" /\ x.change
      /\ \A k \in Nics \ {n} : x.spec[k] = w.spec[k] /\ x.status[k] = w.status[k]
      /\ x.spec[n] = w.ip
  BY <1>0, <1>1 DEF Workers, Recorded, Specs, Statuses
<1> HIDE DEF x
<1>5. /\ Meant(w, v) /\ Deep(w) /\ Deep(x) /\ ~Ended(w) /\ ~Ended(x)
      /\ n \notin w.todo /\ w.obj.status[n] # "ERROR" /\ w.obj.spec[n] \in {NoIP, w.ip}
      /\ w.obj.spec = cfg[v].spec
  BY <1>0, <1>1, <1>4 DEF Firm, Steady, Deep, Meant, Ended, Visiting
<1>6. /\ \A k \in Nics : Pending(x, k) => Pending(w, k)
      /\ \A k \in Nics \ {n} : Pending(x, k) <=> Pending(w, k)
      /\ ~Pending(x, n)
  BY <1>0, <1>1, <1>4, <1>5 DEF Pending, Visiting
<1>7. ASSUME NEW u \in VMs \ {v}
      PROVE  Settled(u)'
  <2>1. SameFor(u)
    BY <1>0, <1>1, <1>3, ConstantsAssumption DEF SameFor
  <2>2. LessWork(u)
    BY <1>0, <1>1, <1>5, OtherWork
  <2> QED BY <2>1, <2>2, LessSettled DEF Firm, Steady
<1>8. Settled(v)'
  <2>1. /\ Once(v)' = Once(v) /\ Asked(v)' = Asked(v) /\ Reads(v)' = Reads(v)
        /\ Inside(v)' = Inside(v)
    BY <1>0, <1>1, <1>5, SameAsked
  <2>2. Settled(v) /\ Handled(v) /\ Asked(v) /\ Busy(v)
    BY <1>0, <1>1, <1>5 DEF Firm, Steady, Handled, Busy, Asked
  <2>3. Ordered(v)' /\ Nothing(v)'
    BY <1>0, <1>1, <2>2 DEF Settled, Ordered, Nothing, Untold
  <2>4. Asking(v)'
    BY <1>0, <1>1, <2>1, <2>2 DEF Settled, Asking, Open
  <2>5. ASSUME NEW k \in NicsOf(cfg[v].spec), k # n
        PROVE  Parked(v, k)'
    <3>1. k \in Nics /\ MacOf(k) \in MACs /\ Parked(v, k)
      BY <2>2, <2>5, NicFields DEF Settled, NicsOf
    <3>2. leases'[MacOf(k)] = leases[MacOf(k)]
      BY <1>0, <1>1, <1>3, <2>5, <3>1, SameNic
    <3>3. Unrecorded(v, k)' = Unrecorded(v, k)
      BY <1>0, <1>1, <3>2 DEF Unrecorded
    <3>4. /\ worker'[me].obj = w.obj /\ worker'[me].spec[k] = w.spec[k]
          /\ Pending(worker'[me], k) => Pending(w, k)
      BY <1>0, <1>1, <1>4, <1>6, <2>5, <3>1
    <3> QED BY <1>0, <1>1, <2>1, <3>1, <3>2, <3>3, <3>4 DEF Parked
  <2>6. Parked(v, n)'
    <3>1. SUFFICES ASSUME Unrecorded(v, n)'
                   PROVE  Parked(v, n)'
      BY DEF Parked
    <3>2. cfg[v].spec[n] = NoIP
      <4>1. leases'[MacOf(n)].ip # cfg[v].spec[n]
        BY <1>1, <3>1 DEF Unrecorded
      <4> QED BY <1>3, <1>5, <4>1
    <3>3. Reads(v) => cfgIndexer[v].status[n] = "ERROR"
      <4>1. Reads(v) => ~Once(v)
        BY <1>0, <1>5, <2>2 DEF Reads, Once
      <4>2. cfgIndexer[v].spec[n] = NoIP
        BY <2>2, <3>2 DEF Settled, Asking
      <4> QED BY <1>0, <1>1, <2>2, <4>1, <4>2 DEF Settled, Asking, Open
    <3>4. \A i \in DOMAIN cfgWatch[v] : cfgWatch[v][i].status[n] = "ERROR"
      BY <1>0, <1>1, <2>2, <3>2 DEF Settled, Asking, Open
    <3> QED BY <1>0, <1>1, <1>3, <1>4, <1>6, <2>1, <3>2, <3>3, <3>4 DEF Parked
  <2> QED BY <1>0, <1>1, <2>3, <2>4, <2>5, <2>6 DEF Settled, NicsOf
<1>9. Meant(x, v)'
  <2>1. ASSUME NEW k \in Nics, x.spec[k] # x.obj.spec[k]
        PROVE  Open(x.obj, k) /\ leases'[MacOf(k)] = LeaseOf(v, k, x.spec[k])
    <3>1. CASE k = n
      BY <1>3, <1>4, <1>5, <2>1, <3>1 DEF Open
    <3>2. CASE k # n
      <4>1. Open(w.obj, k) /\ leases[MacOf(k)] = LeaseOf(v, k, w.spec[k]) /\ leases[MacOf(k)].ref = v
        BY <1>4, <1>5, <2>1, <3>2, MeantAt
      <4>2. MacOf(k) # MacOf(n) /\ MacOf(k) \in MACs
        BY <1>0, <1>1, <1>3, <4>1, NicFields, ConstantsAssumption
      <4> QED BY <1>3, <1>4, <3>2, <4>1, <4>2
    <3> QED BY <3>1, <3>2
  <2>2. ASSUME NEW k \in Nics, x.spec[k] = NoIP, ~Pending(x, k)
        PROVE  x.status[k] = "ERROR"
    <3>1. k # n
      BY <1>0, <1>1, <1>4, <2>2, ConstantsAssumption
    <3> QED BY <1>4, <1>5, <1>6, <2>2, <3>1 DEF Meant
  <2>3. x.obj.rv <= cfgIndexer[v].rv /\ (x.obj.rv = cfgIndexer[v].rv => x.obj = cfgIndexer[v])
    BY <1>4, <1>5 DEF Meant
  <2>4. x.obj.spec = cfg[v].spec /\ ~Visiting(x)
    BY <1>4, <1>5 DEF Visiting
  <2>5. \A k \in Nics : LeaseOf(v, k, x.spec[k])' = LeaseOf(v, k, x.spec[k])
    BY DEF LeaseOf
  <2> QED BY <1>0, <1>1, <1>4, <2>1, <2>2, <2>3, <2>4, <2>5 DEF Meant
<1>10. KeyOf(me)' = v /\ Rested'
  BY <1>0, <1>1, <1>4 DEF KeyOf, Rested
<1>11. (Deep(worker[me]) => Meant(worker[me], KeyOf(me)))'
  BY <1>0, <1>1, <1>9, <1>10 DEF Meant
<1> QED BY <1>0, <1>1, <1>2, <1>3, <1>7, <1>8, <1>10, <1>11 DEF Steady

\* What the worker knows of its object: it exists, and is still handled.
LEMMA MeObject ==
    ASSUME Firm, Deep(worker[me]), ~Ended(worker[me]), NEW v, v = KeyOf(me)
    PROVE  /\ v \in VMs /\ Settled(v) /\ Handled(v) /\ Asked(v) /\ Busy(v) /\ Inside(v)
           /\ cfg[v].exists /\ Meant(worker[me], v) /\ worker[me].obj.spec = cfg[v].spec
           /\ cfgIndexer[v].spec = cfg[v].spec
<1>1. /\ v \in VMs /\ Settled(v) /\ Handled(v) /\ Asked(v) /\ Busy(v) /\ Inside(v)
      /\ Meant(worker[me], v)
  BY FirmAt DEF Firm, Steady, Handled, Asked, Busy, Inside, Deep
<1> QED BY <1>1 DEF Settled, Nothing, Untold, Asking, Meant

\* Of an object that is the newest there is nothing is on its way.
LEMMA NewestCopy ==
    ASSUME Firm, NEW v \in VMs, Settled(v), NEW x, x.rv = cfg[v].rv,
           x.rv <= cfgIndexer[v].rv, x.rv = cfgIndexer[v].rv => x = cfgIndexer[v]
    PROVE  cfgWatch[v] = <<>> /\ cfgIndexer[v].rv = cfg[v].rv /\ x = cfgIndexer[v]
<1>1. /\ cfg[v].rv \in Nat /\ cfgIndexer[v].rv \in Nat /\ cfgWatch[v] \in Seq(CfgObjects)
      /\ cfgIndexer[v].rv <= cfg[v].rv
  BY FirmAt DEF CfgObjects, Firm, Base, Records, Copied, Copy
<1>2. cfgIndexer[v].rv = cfg[v].rv
  BY <1>1
<1>3. \A i \in DOMAIN cfgWatch[v] : FALSE
  <2>1. SUFFICES ASSUME NEW i \in DOMAIN cfgWatch[v]
                 PROVE  FALSE
    OBVIOUS
  <2>2. cfgWatch[v][i].rv \in Nat /\ cfgWatch[v][i].rv <= cfg[v].rv
    <3>1. cfgWatch[v][i] \in CfgObjects
      BY <1>1, <2>1, LenProperties
    <3> QED BY <2>1, <3>1 DEF CfgObjects, Firm, Base, Records, Copied, Copy
  <2> QED BY <1>1, <1>2, <2>1, <2>2 DEF Settled, Ordered
<1>4. cfgWatch[v] = <<>>
  <2>1. Len(cfgWatch[v]) \in Nat /\ DOMAIN cfgWatch[v] = 1..Len(cfgWatch[v])
    BY <1>1, LenProperties
  <2>2. Len(cfgWatch[v]) = 0
    BY <1>3, <2>1
  <2> QED BY <1>1, <2>2, EmptySeq
<1> QED BY <1>2, <1>4

\* A write to one object leaves the others alone.
LEMMA WriteOther ==
    ASSUME Firm, NEW v \in VMs, NEW obj, WriteCfg(v, obj)
    PROVE  /\ \A u \in VMs \ {v} : cfg'[u] = cfg[u] /\ cfgWatch'[u] = cfgWatch[u]
           /\ cfg'[v] = Changed(v, obj)
           /\ obj = cfg[v] => cfg'[v] = cfg[v] /\ cfgWatch'[v] = cfgWatch[v]
           /\ obj # cfg[v] /\ Watched /\ Changed(v, obj) # cfg[v] =>
                cfgWatch'[v] = Append(cfgWatch[v], Changed(v, obj))
BY DEF WriteCfg, Changed, Firm, Base, Growth, Typed, TypeOK

\* The new addresses are recorded only while the object is the newest: nobody
\* is going to ask again.
LEMMA UpdateSpecSteady ==
    ASSUME Firm, Fixed', UpdateSpec
    PROVE  Steady'
<1>0. PICK w, v, c : /\ w = worker[me] /\ v = KeyOf(me)
                      /\ c = Changed(v, [cfg[v] EXCEPT !.spec = w.spec])
  OBVIOUS
<1> DEFINE new == [cfg[v] EXCEPT !.spec = w.spec]
           x   == [w EXCEPT !.pc = "ustatus", !.obj = c]
<1>1. /\ w \in Workers /\ w.pc = "update" /\ v \in VMs /\ phase # "down" /\ Watched
      /\ UNCHANGED <<cfgIndexer, leases, phase>> /\ budget'["edit"] = 0
      /\ cfg[v] \in CfgObjects /\ w.spec \in Specs /\ cfgIndexer[v] \in CfgObjects
      /\ \/ Current(v, w.obj) /\ WriteCfg(v, new) /\ worker'[me] = x /\ UNCHANGED queue
         \/ Done(me) /\ UNCHANGED <<cfg, cfgWatch>>
  BY <1>0, FirmAt DEF UpdateSpec, Return, Step, memory, Firm, Steady, Workers
<1>2. CASE Done(me) /\ UNCHANGED <<cfg, cfgWatch>>
  BY <1>0, <1>1, <1>2, DoneSteady
<1>3. CASE Current(v, w.obj) /\ WriteCfg(v, new) /\ worker'[me] = x /\ UNCHANGED queue
  <2>1. /\ x.pc = "ustatus" /\ x.obj = c /\ x.spec = w.spec /\ x.todo = w.todo /\ x.next = w.next
        /\ x.change = w.change /\ x.status = w.status
    BY <1>1 DEF Workers
  <2>2. /\ new.spec = w.spec /\ new.rv = cfg[v].rv /\ new.status = cfg[v].status
        /\ new.exists = cfg[v].exists
        /\ c.spec = w.spec /\ c.status = cfg[v].status /\ c.exists = cfg[v].exists
        /\ new # cfg[v] => c.rv = cfg[v].rv + 1 /\ c # cfg[v]
        /\ new = cfg[v] => c = cfg[v]
        /\ c = Changed(v, new)
    BY <1>0, <1>1 DEF CfgObjects, Changed
  <2>3. new # cfg[v] => w.spec # cfg[v].spec
    BY <1>1 DEF CfgObjects
  <2> HIDE DEF x
  <2>4. /\ Meant(w, v) /\ Deep(w) /\ Deep(x) /\ ~Ended(w) /\ Ended(x) /\ w.next = "nic"
        /\ w.change /\ w.todo = {} /\ ~Visiting(x)
    BY <1>0, <1>1, <2>1 DEF Firm, Steady, Deep, Meant, Ended, Visiting
  <2>5. /\ Settled(v) /\ Handled(v) /\ Asked(v) /\ Inside(v) /\ cfg[v].exists
        /\ w.obj.spec = cfg[v].spec /\ cfgIndexer[v].spec = cfg[v].spec
    BY <1>0, <2>4, MeObject
  <2>6. /\ \A u \in VMs \ {v} : cfg'[u] = cfg[u] /\ cfgWatch'[u] = cfgWatch[u]
        /\ cfg'[v] = c
        /\ new = cfg[v] => cfgWatch'[v] = cfgWatch[v]
        /\ new # cfg[v] => cfgWatch'[v] = Append(cfgWatch[v], c)
    BY <1>1, <1>3, <2>2, WriteOther
  <2>7. \A u \in VMs : LessWork(u)
    BY <1>3, <1>0, <2>4, OtherWork
  <2>8. ASSUME NEW u \in VMs, u # v \/ new = cfg[v]
        PROVE  Settled(u)'
    <3>1. SameFor(u)
      BY <1>1, <2>2, <2>6, <2>8 DEF SameFor
    <3> QED BY <2>7, <3>1, LessSettled DEF Firm, Steady
  <2>9. ASSUME new # cfg[v]
        PROVE  Settled(v)'
    <3>1. w.obj.rv = cfg[v].rv
      BY <1>3 DEF Current
    <3>2. w.obj.rv <= cfgIndexer[v].rv /\ (w.obj.rv = cfgIndexer[v].rv => w.obj = cfgIndexer[v])
      BY <2>4 DEF Meant
    <3>3. cfgWatch[v] = <<>> /\ cfgIndexer[v].rv = cfg[v].rv /\ w.obj = cfgIndexer[v]
      BY <1>1, <2>5, <3>1, <3>2, NewestCopy
    <3>4. PICK n \in Nics : w.spec[n] # w.obj.spec[n]
      <4>1. w.obj.spec \in Specs /\ w.spec \in Specs /\ w.spec # w.obj.spec
        BY <1>1, <2>3, <2>5, <2>9 DEF Workers, CfgObjects
      <4> QED BY <4>1 DEF Specs
    <3>5. Once(v)
      <4>1. Open(cfgIndexer[v], n)
        BY <2>4, <3>3, <3>4, MeantAt
      <4> QED BY <2>5, <4>1 DEF Settled, Asking
    <3>6. ~Queued(v)' /\ ~Again(v)' /\ ~Handled(v)' /\ Once(v)'
      <4>1. ~Queued(v) /\ ~Again(v)
        BY <2>5, <3>5 DEF Once
      <4>2. ~Queued(v)' /\ ~Again(v)'
        BY <1>3, <4>1 DEF Queued, Again, KeyOf
      <4>3. ~Handled(v)'
        BY <1>3, <2>4 DEF Handled
      <4> QED BY <1>1, <2>7, <3>5, <4>2, <4>3 DEF LessWork
    <3>7. cfgWatch'[v] = <<c>> /\ DOMAIN cfgWatch'[v] = {1} /\ cfgWatch'[v][1] = c
      BY <2>6, <2>9, <3>3
    <3>8. Ordered(v)'
      BY <1>1, <2>2, <2>6, <2>9, <3>3, <3>7 DEF Ordered, CfgObjects
    <3>9. Nothing(v)'
      BY <2>2, <2>5, <2>6 DEF Nothing
    <3>10. Asking(v)'
      BY <1>1, <2>2, <2>6, <3>6, <3>7 DEF Asking, Asked, Open
    <3>11. ASSUME NEW k \in NicsOf(c.spec), Unrecorded(v, k)'
           PROVE  /\ c.spec[k] = NoIP /\ cfg[v].status[k] = "ERROR"
      <4>1. k \in Nics /\ leases[MacOf(k)].ip # w.spec[k]
        BY <1>1, <2>2, <2>6, <3>11 DEF Unrecorded, NicsOf
      <4>2. w.spec[k] = cfg[v].spec[k]
        BY <2>4, <2>5, <4>1, MeantAt
      <4>3. Unrecorded(v, k) /\ k \in NicsOf(cfg[v].spec)
        BY <1>1, <2>2, <3>11, <4>1, <4>2 DEF Unrecorded, NicsOf
      <4>4. Parked(v, k)
        BY <2>5, <4>3 DEF Settled
      <4>5. cfg[v].spec[k] = NoIP /\ w.obj.status[k] = "ERROR"
        BY <1>0, <2>5, <4>1, <4>3, <4>4 DEF Parked
      <4>6. cfg[v].status[k] = "ERROR"
        BY <2>5, <3>3, <4>1, <4>5 DEF Settled, Asking
      <4> QED BY <2>2, <4>2, <4>5, <4>6
    <3>12. ASSUME NEW k \in NicsOf(c.spec)
           PROVE  Parked(v, k)'
      <4>1. ~Reads(v)' /\ ~Inside(v)'
        BY <3>6 DEF Reads, Inside
      <4> QED BY <2>2, <2>6, <3>7, <3>11, <4>1 DEF Parked
    <3> QED BY <2>6, <3>8, <3>9, <3>10, <3>12 DEF Settled, NicsOf
  <2>10. Meant(x, v)'
    <3>1. x.obj.spec = cfg'[v].spec /\ x.spec = x.obj.spec
      BY <2>1, <2>2, <2>6
    <3>2. ASSUME NEW k \in Nics, x.spec[k] = NoIP
          PROVE  x.status[k] = "ERROR"
      <4>1. ~Pending(w, k)
        BY <1>1, <2>4 DEF Pending, Visiting
      <4>2. w.spec[k] = NoIP
        BY <2>1, <3>2
      <4>3. w.status[k] = "ERROR"
        BY <2>4, <3>2, <4>1, <4>2 DEF Meant
      <4> QED BY <2>1, <4>3
    <3> QED BY <2>1, <2>4, <3>1, <3>2 DEF Meant
  <2>11. KeyOf(me)' = v /\ Rested'
    BY <1>0, <1>3, <2>1 DEF KeyOf, Rested
  <2>12. (Deep(worker[me]) => Meant(worker[me], KeyOf(me)))'
    BY <1>3, <2>10, <2>11 DEF Meant
  <2>13. \A u \in VMs : Settled(u)'
    BY <2>8, <2>9
  <2> QED BY <1>1, <2>11, <2>12, <2>13 DEF Steady
<1> QED BY <1>1, <1>2, <1>3

\* The end of a handler that writes the status, or fails to: an interface that
\* has no address is in error by now, in the informer's copy as well.
LEMMA StatusSteady ==
    ASSUME Firm, Fixed', budget'["edit"] = 0, worker[me].pc = "ustatus", Done(me),
           UNCHANGED <<leases, phase>>, cfgIndexer' = Overwritten,
           \/ /\ Current(KeyOf(me), worker[me].obj)
              /\ WriteCfg(KeyOf(me), [cfg[KeyOf(me)] EXCEPT !.status = worker[me].status])
           \/ UNCHANGED <<cfg, cfgWatch>>
    PROVE  Steady'
<1>0. PICK w, v, c : /\ w = worker[me] /\ v = KeyOf(me)
                     /\ c = Changed(v, [cfg[v] EXCEPT !.status = w.status])
  OBVIOUS
<1> DEFINE new == [cfg[v] EXCEPT !.status = w.status]
<1>1. /\ w \in Workers /\ w.pc = "ustatus" /\ v \in VMs /\ phase # "down" /\ Watched
      /\ cfg[v] \in CfgObjects /\ w.status \in Statuses /\ cfgIndexer[v] \in CfgObjects
      /\ cfgWatch[v] \in Seq(CfgObjects) /\ cfgIndexer[v].rv <= cfg[v].rv
      /\ \A i \in DOMAIN cfgWatch[v] : cfgWatch[v][i].rv <= cfg[v].rv
  BY <1>0, FirmAt DEF Workers, Firm, Base, Records, Copied, Copy
<1>2. Meant(w, v) /\ w.todo = {} /\ w.spec = cfg[v].spec /\ Busy(v) /\ Settled(v) /\ cfg[v].exists
  <2>1. Meant(w, v) /\ Busy(v) /\ Settled(v)
    BY <1>0, <1>1 DEF Firm, Steady, Deep, Busy
  <2> QED BY <1>1, <2>1 DEF Meant, Settled, Nothing, Untold
<1>3. \A n \in Nics : cfg[v].spec[n] = NoIP => w.status[n] = "ERROR"
  <2>1. \A n \in Nics : ~Pending(w, n)
    BY <1>1, <1>2 DEF Pending, Visiting
  <2> QED BY <1>2, <2>1 DEF Meant
<1>4. /\ \A u \in VMs : LessWork(u)
      /\ Queued(v)' => Queued(v) \/ Again(v)
      /\ Rested' /\ ~Again(v)' /\ ~Busy(v)' /\ ~Handled(v)' /\ worker'[me].pc = "idle"
  BY <1>1, <1>0, DoneWork, FirmAt, IdleTyped DEF Done, Step
<1>5. \/ /\ cfgIndexer' = [cfgIndexer EXCEPT ![v].status = w.status]
         /\ ~w.change
      \/ cfgIndexer' = cfgIndexer
  BY <1>0 DEF Overwritten
<1>6. /\ \A u \in VMs \ {v} : cfgIndexer'[u] = cfgIndexer[u]
      /\ cfgIndexer'[v].rv = cfgIndexer[v].rv /\ cfgIndexer'[v].spec = cfgIndexer[v].spec
      /\ cfgIndexer'[v].status = cfgIndexer[v].status
         \/ (~w.change /\ cfgIndexer'[v].status = w.status)
  BY <1>1, <1>5 DEF Firm, Base, Growth, Typed, TypeOK, CfgObjects
<1>7. /\ new.spec = cfg[v].spec /\ new.exists = cfg[v].exists /\ new.status = w.status
      /\ c.spec = cfg[v].spec /\ c.exists = cfg[v].exists /\ c.status = w.status
      /\ new # cfg[v] => c.rv = cfg[v].rv + 1 /\ c # cfg[v]
      /\ new = cfg[v] => c = cfg[v]
      /\ c = Changed(v, new)
  BY <1>0, <1>1 DEF CfgObjects, Changed
<1>8. /\ \A u \in VMs \ {v} : cfg'[u] = cfg[u] /\ cfgWatch'[u] = cfgWatch[u]
      /\ \/ cfg'[v] = cfg[v] /\ cfgWatch'[v] = cfgWatch[v]
         \/ /\ cfg'[v] = c /\ c.rv = cfg[v].rv + 1
            /\ cfgWatch'[v] = Append(cfgWatch[v], c)
  <2>1. CASE UNCHANGED <<cfg, cfgWatch>>
    BY <2>1
  <2>2. CASE WriteCfg(v, new)
    <3>1. /\ \A u \in VMs \ {v} : cfg'[u] = cfg[u] /\ cfgWatch'[u] = cfgWatch[u]
          /\ cfg'[v] = c
          /\ new = cfg[v] => cfg'[v] = cfg[v] /\ cfgWatch'[v] = cfgWatch[v]
          /\ new # cfg[v] => cfgWatch'[v] = Append(cfgWatch[v], c)
      BY <1>1, <1>7, <2>2, WriteOther
    <3> QED BY <1>7, <3>1
  <2> QED BY <1>0, <2>1, <2>2
<1> HIDE DEF new
\* The events on their way to the informer, the new one last.
<1>9. \A i \in DOMAIN cfgWatch'[v] :
        \/ i \in DOMAIN cfgWatch[v] /\ cfgWatch'[v][i] = cfgWatch[v][i]
        \/ /\ cfg'[v] = c /\ c.rv = cfg[v].rv + 1 /\ cfgWatch'[v][i] = c
           /\ i = Len(cfgWatch[v]) + 1
  <2>1. CASE cfgWatch'[v] = cfgWatch[v]
    BY <2>1
  <2>2. CASE /\ cfg'[v] = c /\ c.rv = cfg[v].rv + 1
             /\ cfgWatch'[v] = Append(cfgWatch[v], c)
    <3>1. Len(cfgWatch[v]) \in Nat /\ DOMAIN cfgWatch[v] = 1..Len(cfgWatch[v])
      BY <1>1, LenProperties
    <3>2. \A i \in DOMAIN Append(cfgWatch[v], c) :
            \/ i \in DOMAIN cfgWatch[v] /\ Append(cfgWatch[v], c)[i] = cfgWatch[v][i]
            \/ i = Len(cfgWatch[v]) + 1 /\ Append(cfgWatch[v], c)[i] = c
      BY <1>1, <3>1
    <3> QED BY <2>2, <3>2
  <2> QED BY <1>8, <2>1, <2>2
<1>10. \A u \in VMs \ {v} : Settled(u)'
  BY <1>4, <1>6, <1>8, LessSettled DEF SameFor, Firm, Steady
<1>11. cfg'[v].spec = cfg[v].spec /\ cfg'[v].exists
  BY <1>2, <1>7, <1>8
<1>12. Ordered(v)'
  <2>1. /\ cfg[v].rv \in Nat /\ cfgIndexer[v].rv \in Nat
        /\ \A i \in DOMAIN cfgWatch[v] : i \in Nat /\ i <= Len(cfgWatch[v]) /\ cfgWatch[v][i].rv \in Nat
        /\ Len(cfgWatch[v]) \in Nat
    <3>1. /\ Len(cfgWatch[v]) \in Nat /\ DOMAIN cfgWatch[v] = 1..Len(cfgWatch[v])
          /\ \A i \in DOMAIN cfgWatch[v] : cfgWatch[v][i] \in CfgObjects
      BY <1>1, LenProperties
    <3> QED BY <1>1, <3>1 DEF CfgObjects
  <2>2. CASE cfg'[v] = cfg[v] /\ cfgWatch'[v] = cfgWatch[v]
    BY <1>2, <1>6, <2>2 DEF Settled, Ordered
  <2>3. CASE cfg'[v] = c /\ c.rv = cfg[v].rv + 1
    <3>1. Ordered(v)
      BY <1>2 DEF Settled
    <3>2. ASSUME NEW i \in DOMAIN cfgWatch'[v], i \in DOMAIN cfgWatch[v],
                 cfgWatch'[v][i] = cfgWatch[v][i]
          PROVE  /\ cfgIndexer'[v].rv < cfgWatch'[v][i].rv
                 /\ cfgWatch'[v][i].rv < cfg'[v].rv
      BY <1>1, <1>6, <2>1, <2>3, <3>1, <3>2 DEF Ordered
    <3>3. cfgIndexer'[v].rv < c.rv
      BY <1>1, <1>6, <2>1, <2>3
    <3>4. \A i, j \in DOMAIN cfgWatch'[v] : i < j => cfgWatch'[v][i].rv < cfgWatch'[v][j].rv
      BY <1>9, <2>1, <2>3, <3>1, <3>2 DEF Ordered
    <3>5. \A i \in DOMAIN cfgWatch'[v] : /\ cfgIndexer'[v].rv < cfgWatch'[v][i].rv
                                         /\ cfgWatch'[v][i].rv = cfg'[v].rv =>
                                              cfgWatch'[v][i].status = cfg'[v].status
      BY <1>9, <2>1, <2>3, <3>2, <3>3
    <3> QED BY <3>4, <3>5 DEF Ordered
  <2> QED BY <1>8, <2>2, <2>3
<1>13. Nothing(v)'
  BY <1>11 DEF Nothing
<1>14. Asking(v)'
  <2>1. Asking(v) /\ (Once(v) => Once(v)') /\ (Asked(v)' => Asked(v))
    BY <1>1, <1>2, <1>4 DEF Settled, LessWork
  <2>2. ~w.change => Asked(v) /\ cfgIndexer[v].spec = cfg[v].spec
    <3>1. ~w.change => Asked(v)
      BY <1>0, <1>2 DEF Asked, Handled, Ended
    <3> QED BY <2>1, <3>1 DEF Asking
  <2>3. ASSUME NEW i \in DOMAIN cfgWatch'[v]
        PROVE  /\ cfgWatch'[v][i].spec = cfg'[v].spec
               /\ \A n \in Nics : Open(cfgWatch'[v][i], n) => i = 1 /\ ~Asked(v)'
    BY <1>3, <1>7, <1>9, <1>11, <2>1 DEF Asking, Open
  <2>4. ASSUME NEW n \in Nics, Open(cfgIndexer'[v], n)
        PROVE  Once(v)'
    <3>1. Open(cfgIndexer[v], n)
      BY <1>3, <1>6, <2>2, <2>4 DEF Open
    <3> QED BY <2>1, <3>1 DEF Asking
  <2>5. ASSUME Asked(v)', NEW n \in Nics, cfgIndexer'[v].rv = cfg'[v].rv,
               cfgIndexer'[v].spec[n] = NoIP, cfgIndexer'[v].status[n] = "ERROR"
        PROVE  cfg'[v].status[n] = "ERROR"
    <3>1. cfg'[v] = cfg[v]
      <4>1. cfg[v].rv \in Nat /\ cfgIndexer[v].rv \in Nat
        BY <1>1 DEF CfgObjects
      <4> QED BY <1>1, <1>6, <1>8, <2>5, <4>1
    <3>2. Asked(v)
      BY <2>1, <2>5
    <3>3. cfgIndexer[v].status[n] = "ERROR"
      <4>1. CASE cfgIndexer'[v].status = cfgIndexer[v].status
        BY <2>5, <4>1
      <4>2. CASE ~w.change
        <5>1. Handled(v) /\ (Queued(v) \/ Again(v))
          <6>1. Handled(v)
            BY <1>0, <1>2, <4>2 DEF Handled, Ended
          <6> QED BY <1>4, <2>5, <6>1 DEF Asked
        <5>2. ~Open(cfgIndexer[v], n)
          BY <2>1, <5>1 DEF Asking, Once
        <5> QED BY <1>6, <2>5, <5>2 DEF Open
      <4> QED BY <1>6, <4>1, <4>2
    <3> QED BY <1>6, <2>1, <2>5, <3>1, <3>2, <3>3 DEF Asking
  <2>6. Asked(v)' => cfgIndexer'[v].spec = cfg'[v].spec
    BY <1>6, <1>11, <2>1 DEF Asking
  <2> QED BY <2>3, <2>4, <2>5, <2>6 DEF Asking, Open
<1>15. ASSUME NEW n \in NicsOf(cfg[v].spec)
       PROVE  Parked(v, n)'
  <2>1. SUFFICES ASSUME Unrecorded(v, n)'
                 PROVE  Parked(v, n)'
    BY DEF Parked
  <2>2. n \in Nics /\ Unrecorded(v, n) /\ Parked(v, n)
    BY <1>2, <1>11, <1>15, <2>1 DEF Unrecorded, NicsOf, Settled
  <2>3. cfg[v].spec[n] = NoIP /\ w.status[n] = "ERROR"
    BY <1>3, <2>2 DEF Parked
  <2>4. Reads(v)' => cfgIndexer'[v].status[n] = "ERROR"
    BY <1>1, <1>4, <1>6, <2>2, <2>3 DEF LessWork, Parked
  <2>5. \A i \in DOMAIN cfgWatch'[v] : cfgWatch'[v][i].status[n] = "ERROR"
    BY <1>7, <1>9, <2>2, <2>3 DEF Parked
  <2>6. ~Inside(v)'
    BY <1>4 DEF Inside
  <2> QED BY <1>11, <2>3, <2>4, <2>5, <2>6 DEF Parked
<1>16. Settled(v)'
  BY <1>11, <1>12, <1>13, <1>14, <1>15 DEF Settled, NicsOf
<1> QED BY <1>1, <1>4, <1>10, <1>16 DEF Steady, Deep

LEMMA UpdateStatusSteady ==
    ASSUME Firm, Fixed', UpdateStatus
    PROVE  Steady'
BY StatusSteady DEF UpdateStatus, Return, memory, Firm, Steady

LEMMA CfgWorkerSteady ==
    ASSUME FixedShapes, OneNetwork, Firm, CfgWorker
    PROVE  Steady' /\ ~ReleaseIP(me) /\ ~Cleanup(me)
<1>1. Fixed'
  BY CfgWorkerFixed
<1>2. ~(Cleanup(me) \/ CleanupDone \/ RemoveFinalizer \/ ReleaseIP(me))
  BY FirmAt DEF Cleanup, CleanupDone, RemoveFinalizer, ReleaseIP
<1> QED BY <1>1, <1>2, TakeItemSteady, SyncCfgSteady, CheckNicSteady, NoPoolSteady,
     CheckOwnerSteady, CheckHeldSteady, GetIPSteady, RegisterLeaseSteady, NicsDoneSteady,
     UpdateSpecSteady, UpdateStatusSteady, PoolGetSteady, PoolPutSteady DEF CfgWorker

-----------------------------------------------------------------------------
(* The other steps.                                                        *)

\* A step that leaves the vmnetcfgs, the leases and the worker alone.
LEMMA AsideSteady ==
    ASSUME Firm, Fixed', budget'["edit"] = 0,
           UNCHANGED <<queue[me], worker[me], cfg, cfgWatch, cfgIndexer, leases>>,
           phase' = "down" => ipam' = NoTables
    PROVE  Steady'
<1>1. \A v \in VMs : SameFor(v) /\ LessWork(v)
  BY SameWork DEF SameFor
<1>2. \A v \in VMs : Settled(v)'
  BY <1>1, LessSettled DEF Firm, Steady
<1>3. Rested' /\ (Deep(worker[me]) => Meant(worker[me], KeyOf(me)))'
  BY DEF Firm, Steady, Rested, Meant, KeyOf
<1> QED BY <1>2, <1>3 DEF Steady

\* Nothing was sent of a vmnetcfg that is new, and nobody works on it.
LEMMA CreateCfgSteady ==
    ASSUME FixedShapes, Firm, Fixed', budget'["edit"] = 0, CreateCfg
    PROVE  Steady'
<1>0. PICK w, v, c : /\ w = worker[self] /\ v = KeyOf(self)
                     /\ c = Changed(v, [cfg[v] EXCEPT !.exists = TRUE, !.spec = w.spec,
                                                      !.fin = TRUE, !.ctime = clock])
  OBVIOUS
<1> DEFINE new == [cfg[v] EXCEPT !.exists = TRUE, !.spec = w.spec, !.fin = TRUE, !.ctime = clock]
<1>1. /\ w \in Workers /\ w.pc = "create" /\ v \in VMs /\ phase = "running" /\ Watched
      /\ UNCHANGED <<cfgIndexer, leases, ipam, phase>> /\ Done(self)
      /\ cfg[v] \in CfgObjects /\ cfgIndexer[v] \in CfgObjects
      /\ UNCHANGED <<cfg, cfgWatch>> \/ (~cfg[v].exists /\ WriteCfg(v, new))
      /\ cfgIndexer[v].rv <= cfg[v].rv
  <2>1. /\ w \in Workers /\ w.pc = "create" /\ v \in VMs
        /\ UNCHANGED <<cfgIndexer, leases, ipam, phase>> /\ Done(self)
        /\ UNCHANGED <<cfg, cfgWatch>> \/ (~cfg[v].exists /\ WriteCfg(v, new))
    BY <1>0, FirmAt, WorkerTyped DEF CreateCfg, Return, memory, Firm, Base, Growth
  <2>2. phase = "running"
    BY <1>0, <2>1, TwoWorkers DEF Firm, Base, Growth, Typed, Quiet
  <2>3. cfgIndexer[v].rv <= cfg[v].rv
    BY <2>1 DEF Firm, Base, Records, Copied, Copy
  <2> QED BY <2>1, <2>2, <2>3, FirmAt DEF Watched
<1>2. UNCHANGED <<queue[me], worker[me]>>
  BY <1>1, FirmAt DEF Done, Step
<1>3. CASE UNCHANGED <<cfg, cfgWatch>>
  BY <1>1, <1>2, <1>3, AsideSteady
<1>4. CASE ~cfg[v].exists /\ WriteCfg(v, new)
  <2>1. new.exists /\ new # cfg[v] /\ c.exists /\ c.rv = cfg[v].rv + 1 /\ c = Changed(v, new) /\ c # cfg[v]
    BY <1>0, <1>1, <1>4 DEF CfgObjects, Changed
  <2>2. Settled(v) /\ Untold(v)
    BY <1>1, <1>4 DEF Firm, Steady, Settled, Nothing
  <2>3. cfgWatch[v] = <<>> /\ ~Queued(v) /\ ~Busy(v) /\ ~Again(v) /\ ~Handled(v)
    BY <2>2, FirmAt DEF Untold, Firm, Steady, Rested, Again, Busy, Handled
  <2>4. /\ \A u \in VMs \ {v} : cfg'[u] = cfg[u] /\ cfgWatch'[u] = cfgWatch[u]
        /\ cfg'[v] = c /\ cfgWatch'[v] = Append(cfgWatch[v], c)
    BY <1>1, <1>4, <2>1, WriteOther
  <2> HIDE DEF new
  <2>5. cfgWatch'[v] = <<c>> /\ DOMAIN cfgWatch'[v] = {1} /\ cfgWatch'[v][1] = c
    BY <2>3, <2>4
  <2>6. ~Queued(v)' /\ ~Again(v)' /\ ~Handled(v)'
    BY <1>2, <2>3 DEF Queued, Again, Handled, Busy, KeyOf
  <2>7. Ordered(v)' /\ Nothing(v)'
    BY <1>1, <2>1, <2>4, <2>5 DEF Ordered, Nothing, CfgObjects
  <2>8. Once(v)'
    BY <2>6 DEF Once, Queued
  <2>9. Asking(v)'
    BY <2>4, <2>5, <2>6, <2>8 DEF Asking, Asked, Open
  <2>10. \A n \in NicsOf(c.spec) : Parked(v, n)'
    <3>1. \A n \in NicsOf(c.spec) : leases'[MacOf(n)].ref # v
      BY <1>1, <2>2, NicFields DEF Untold, NicsOf
    <3> QED BY <3>1 DEF Parked, Unrecorded
  <2>11. Settled(v)'
    BY <2>4, <2>7, <2>9, <2>10 DEF Settled, NicsOf
  <2>12. ASSUME NEW u \in VMs \ {v}
         PROVE  Settled(u)'
    BY <1>1, <1>2, <2>4, SameWork, LessSettled DEF SameFor, Firm, Steady
  <2>13. Rested'
    BY <1>2 DEF Firm, Steady, Rested
  <2>14. (Deep(worker[me]) => Meant(worker[me], KeyOf(me)))'
    <3>1. Deep(worker[me]) => KeyOf(me) # v /\ KeyOf(me) \in VMs /\ Meant(worker[me], KeyOf(me))
      BY <2>3, FirmAt DEF Busy, Deep, Firm, Steady
    <3> QED BY <1>1, <1>2, <2>4, <3>1 DEF Meant, KeyOf
  <2> QED BY <1>1, <2>11, <2>12, <2>13, <2>14 DEF Steady
<1> QED BY <1>1, <1>3, <1>4

LEMMA VmWorkerSteady ==
    ASSUME FixedShapes, Firm, budget'["edit"] = 0, VmWorker
    PROVE  Steady' /\ UNCHANGED <<leases, ipam>>
<1>1. Fixed'
  BY VmWorkerFixed
<1>2. ~ \/ UpdateCfg \/ DeleteCfg \/ Cleanup(self) \/ ReleaseIP(self)
        \/ UpdateIPPoolStatusGet(self) \/ UpdateIPPoolStatusPut(self)
  BY SelfNever
<1>3. UNCHANGED <<leases, ipam, phase>> /\ (phase = "down" => ipam = NoTables)
  BY <1>2 DEF VmWorker, TakeItem, SyncVm, CheckMacs, CheckRefs, CreateCfg, memory, boot, Firm, Steady
<1>4. CASE CreateCfg
  BY <1>1, <1>3, <1>4, CreateCfgSteady
<1>5. CASE TakeItem(self) \/ SyncVm \/ CheckMacs \/ CheckRefs
  <2>1. UNCHANGED <<cfg, cfgWatch, cfgIndexer>>
    BY <1>5 DEF TakeItem, SyncVm, CheckMacs, CheckRefs, api, events
  <2>2. UNCHANGED <<queue[me], worker[me]>>
    BY <1>5, FirmAt DEF TakeItem, SyncVm, CheckMacs, CheckRefs, Step, Done, Return
  <2> QED BY <1>1, <1>3, <2>1, <2>2, AsideSteady
<1> QED BY <1>2, <1>3, <1>4, <1>5 DEF VmWorker

\* An item is added for v.
LEMMA AddedWork ==
    ASSUME Firm, NEW v \in VMs, NEW e \in Event, e.key = v,
           queue' = [queue EXCEPT ![me] = Enqueued(@, e)], UNCHANGED worker
    PROVE  /\ Rested' /\ KeyOf(me)' = KeyOf(me)
           /\ \A u \in VMs : Inside(u)' = Inside(u) /\ Busy(u)' = Busy(u) /\ Handled(u)' = Handled(u)
           /\ \A u \in VMs \ {v} : /\ Queued(u)' = Queued(u) /\ Again(u)' = Again(u)
                                   /\ Once(u)' = Once(u)
           /\ ~Asked(v) => Once(v)'
<1> DEFINE q == queue[me]
           r == queue'[me]
<1>1. /\ q \in Queues(Event) /\ q.items \in Seq(Event) /\ r = Enqueued(q, e)
  BY FirmAt DEF Queues
<1>2. /\ Len(q.items) \in Nat /\ DOMAIN q.items = 1..Len(q.items)
      /\ Append(q.items, e) \in Seq(Event) /\ Len(Append(q.items, e)) = Len(q.items) + 1
      /\ DOMAIN Append(q.items, e) = 1..(Len(q.items) + 1)
      /\ \A i \in 1..Len(q.items) : Append(q.items, e)[i] = q.items[i]
      /\ Append(q.items, e)[Len(q.items) + 1] = e
  BY <1>1, AppendProperties, LenProperties
<1>3. \/ r = q /\ \E i \in DOMAIN q.items : q.items[i] = e
      \/ r.items = q.items /\ r.busy = q.busy /\ r.again /\ q.busy = e
      \/ r.items = Append(q.items, e) /\ r.busy = q.busy /\ r.again = q.again
  <2> DEFINE x == [q EXCEPT !.again = TRUE]
             y == [q EXCEPT !.items = Append(q.items, e)]
  <2>1. /\ x.items = q.items /\ x.busy = q.busy /\ x.again
        /\ y.items = Append(q.items, e) /\ y.busy = q.busy /\ y.again = q.again
    BY <1>1 DEF Queues
  <2>2. r = IF \E i \in 1..Len(q.items) : q.items[i] = e THEN q ELSE IF q.busy = e THEN x ELSE y
    BY <1>1 DEF Enqueued
  <2> HIDE DEF q, r, x, y
  <2> QED BY <1>2, <2>1, <2>2
<1>4. worker[me].pc = "idle" => q.busy # e /\ ~q.again
  <2>1. NoEvent # e
    BY EventAssumption
  <2>2. Rested
    BY DEF Firm, Steady
  <2> QED BY <2>1, <2>2 DEF Rested
<1>5. r.busy = q.busy
  BY <1>3
<1> HIDE DEF q, r
<1>6. KeyOf(me)' = KeyOf(me) /\ KeyOf(me) = q.busy.key
  BY <1>5 DEF KeyOf, q, r
<1>7. \A u \in VMs : Inside(u)' = Inside(u) /\ Busy(u)' = Busy(u) /\ Handled(u)' = Handled(u)
  BY <1>6 DEF Inside, Busy, Handled
<1>8. Rested'
  <2>1. worker[me].pc = "idle" => q.busy = NoEvent
    BY DEF Firm, Steady, Rested, q
  <2>2. worker[me].pc = "idle" => ~r.again
    BY <1>3, <1>4
  <2> QED BY <1>5, <2>1, <2>2 DEF Rested, r
<1>9. ASSUME NEW u \in VMs \ {v}
      PROVE  Queued(u)' = Queued(u) /\ Again(u)' = Again(u) /\ Once(u)' = Once(u)
  <2>1. \A i : i \in DOMAIN r.items /\ r.items[i].key = u <=> i \in DOMAIN q.items /\ q.items[i].key = u
    BY <1>2, <1>3, <1>9
  <2>2. \A i : i \in DOMAIN q.items /\ q.items[i].key = u => r.items[i].key = u
    BY <2>1
  <2>3. Queued(u)' = Queued(u)
    BY <2>1 DEF Queued, q, r
  <2>4. Again(u)' = Again(u)
    BY <1>3, <1>6, <1>9 DEF Again, q, r
  <2>5. Once(u)' = Once(u)
    BY <1>7, <1>9, <2>1, <2>3, <2>4 DEF Once, q, r
  <2> QED BY <2>3, <2>4, <2>5
<1>10. ASSUME ~Asked(v)
       PROVE  Once(v)'
  <2>1. ~Queued(v) /\ ~Again(v) /\ ~Handled(v) /\ ~Handled(v)'
    BY <1>7, <1>10 DEF Asked
  <2>2. \A i \in DOMAIN q.items : q.items[i].key # v
    BY <2>1 DEF Queued, q
  <2>3. CASE r.items = q.items /\ r.busy = q.busy /\ r.again /\ q.busy = e
    <3>1. ~Queued(v)'
      BY <2>2, <2>3 DEF Queued, r
    <3> QED BY <2>1, <3>1 DEF Once, Queued
  <2>4. CASE r.items = Append(q.items, e) /\ r.busy = q.busy /\ r.again = q.again
    <3>1. ~Again(v)'
      BY <1>6, <2>1, <2>4 DEF Again, q, r
    <3>2. \A i, j \in DOMAIN r.items : r.items[i].key = v /\ r.items[j].key = v => i = j
      BY <1>2, <2>2, <2>4
    <3> QED BY <2>1, <3>1, <3>2 DEF Once, r
  <2> QED BY <1>3, <2>2, <2>3, <2>4
<1> QED BY <1>6, <1>7, <1>8, <1>9, <1>10

\* The informer's copy becomes the first of the events on their way.
LEMMA DeliverCfgSteady ==
    ASSUME Firm, budget'["edit"] = 0, NEW v \in VMs, DeliverCfg(v)
    PROVE  Steady'
<1> DEFINE new == Head(cfgWatch[v])
           e   == [key |-> v, action |-> ActionOf(cfgIndexer[v], new)]
           s   == cfgWatch[v]
<1>1. /\ UNCHANGED <<vm, cfg, vmWatch, vmIndexer, worker, leases, ipam, phase>>
      /\ cfgWatch' = [cfgWatch EXCEPT ![v] = Tail(s)]
      /\ cfgIndexer' = [cfgIndexer EXCEPT ![v] = new]
      /\ queue' = [queue EXCEPT ![me] = Enqueued(@, e)]
      /\ s # <<>> /\ s \in Seq(CfgObjects) /\ e \in Event /\ e.key = v
  BY FirmAt, TwoWorkers DEF DeliverCfg, api, memory, boot, Event, Actions, ActionOf
<1>2. /\ \A u \in VMs \ {v} : cfgWatch'[u] = cfgWatch[u] /\ cfgIndexer'[u] = cfgIndexer[u]
      /\ cfgWatch'[v] = Tail(s) /\ cfgIndexer'[v] = s[1] /\ 1 \in DOMAIN s
      /\ \A i \in DOMAIN Tail(s) : i + 1 \in DOMAIN s /\ Tail(s)[i] = s[i + 1]
      /\ \A i \in DOMAIN Tail(s) : i \in Nat /\ 1 < i + 1
  <2>1. /\ Head(s) = s[1] /\ 1 \in DOMAIN s
        /\ \A i \in DOMAIN Tail(s) : i + 1 \in DOMAIN s /\ Tail(s)[i] = s[i + 1]
    BY <1>1, FirstAndRest
  <2>2. \A i \in DOMAIN Tail(s) : i \in Nat /\ 1 < i + 1
    BY <1>1, HeadTailProperties, LenProperties
  <2> QED BY <1>1, <2>1, <2>2 DEF Firm, Base, Growth, Typed, TypeOK
<1>3. /\ Rested' /\ KeyOf(me)' = KeyOf(me)
      /\ \A u \in VMs : Inside(u)' = Inside(u) /\ Busy(u)' = Busy(u) /\ Handled(u)' = Handled(u)
      /\ \A u \in VMs \ {v} : /\ Queued(u)' = Queued(u) /\ Again(u)' = Again(u)
                              /\ Once(u)' = Once(u)
      /\ ~Asked(v) => Once(v)'
  BY <1>1, AddedWork
<1>4. Aside
  <2>1. queue'[self] = queue[self]
    BY <1>1, FirmAt
  <2> QED BY <1>1, <2>1 DEF Aside
<1> HIDE DEF new, e, s
<1>5. Fixed'
  BY <1>1, <1>4, AsideFixed DEF Firm, Steady, Fixed
<1>6. ASSUME NEW u \in VMs \ {v}
      PROVE  Settled(u)'
  <2>1. SameFor(u)
    BY <1>1, <1>2, <1>6 DEF SameFor
  <2>2. LessWork(u)
    BY <1>1, <1>3, <1>6 DEF LessWork, Asked, Reads, Inside
  <2> QED BY <2>1, <2>2, LessSettled DEF Firm, Steady
<1>7. Settled(v)'
  <2>1. Settled(v) /\ Ordered(v) /\ Asking(v) /\ Nothing(v)
    BY DEF Firm, Steady, Settled
  <2>2. cfg[v].exists
    BY <1>1, <2>1 DEF Nothing, Untold, s
  <2>3. cfgWatch[v] = s
    BY DEF s
  <2>4. Ordered(v)'
    BY <1>1, <1>2, <2>1, <2>3 DEF Ordered
  <2>5. Nothing(v)'
    BY <1>1, <2>2 DEF Nothing
  <2>6. Asking(v)'
    <3>1. \A i \in DOMAIN Tail(s) : /\ Tail(s)[i].spec = cfg[v].spec
                                    /\ \A n \in Nics : ~Open(Tail(s)[i], n)
      BY <1>2, <2>1, <2>3 DEF Asking
    <3>2. \A n \in Nics : Open(s[1], n) => Once(v)'
      BY <1>2, <1>3, <2>1, <2>3 DEF Asking
    <3>3. /\ s[1].spec = cfg[v].spec
          /\ s[1].rv = cfg[v].rv => s[1].status = cfg[v].status
      BY <1>2, <2>1, <2>3 DEF Asking, Ordered
    <3> QED BY <1>1, <1>2, <3>1, <3>2, <3>3 DEF Asking, Open
  <2>7. ASSUME NEW n \in NicsOf(cfg[v].spec)
        PROVE  Parked(v, n)'
    <3>1. Parked(v, n)
      BY <2>1, <2>7 DEF Settled
    <3>2. Unrecorded(v, n)' = Unrecorded(v, n)
      BY <1>1 DEF Unrecorded
    <3> QED BY <1>1, <1>2, <1>3, <2>3, <3>1, <3>2 DEF Parked
  <2> QED BY <1>1, <2>4, <2>5, <2>6, <2>7 DEF Settled
<1>8. (Deep(worker[me]) => Meant(worker[me], KeyOf(me)))'
  <2>1. SUFFICES ASSUME Deep(worker[me])
                 PROVE  Meant(worker[me], KeyOf(me))'
    BY <1>1
  <2>2. Meant(worker[me], KeyOf(me)) /\ KeyOf(me) \in VMs /\ worker[me].obj.rv \in Nat
    BY <2>1, FirmAt DEF Firm, Steady, Deep, Workers, CfgObjects
  <2>3. ~Ended(worker[me]) =>
          /\ worker[me].obj.rv <= cfgIndexer'[KeyOf(me)].rv
          /\ worker[me].obj.rv = cfgIndexer'[KeyOf(me)].rv => worker[me].obj = cfgIndexer'[KeyOf(me)]
    <3>1. CASE KeyOf(me) # v
      BY <1>2, <2>2, <3>1 DEF Meant
    <3>2. CASE KeyOf(me) = v
      <4>1. cfgIndexer[v].rv < s[1].rv
        BY <1>2 DEF Firm, Steady, Settled, Ordered, s
      <4>2. cfgIndexer[v].rv \in Nat /\ s[1].rv \in Nat
        <5>1. s[1] \in CfgObjects
          BY <1>1, <1>2, LenProperties
        <5> QED BY <5>1, FirmAt DEF CfgObjects
      <4> QED BY <1>2, <2>2, <3>2, <4>1, <4>2 DEF Meant
    <3> QED BY <3>1, <3>2
  <2> QED BY <1>1, <1>3, <2>2, <2>3 DEF Meant
<1> QED BY <1>1, <1>3, <1>5, <1>6, <1>7, <1>8 DEF Firm, Steady

-----------------------------------------------------------------------------
(* The start, the users and the faults.                                    *)

\* Where the vmnetcfg controller is not told of anything.
LEMMA OutsideSteady ==
    ASSUME Firm, Fixed', budget'["edit"] = 0,
           UNCHANGED <<queue[me], worker, cfg, cfgWatch, cfgIndexer, leases, ipam>>,
           phase # "down" => phase' # "down", phase' = "down" => phase = "down"
    PROVE  Steady'
BY AsideSteady DEF Firm, Steady

LEMMA StartPoolsSteady ==
    ASSUME Firm, budget'["edit"] = 0, StartPools
    PROVE  Steady'
<1>1. UNCHANGED <<vm, cfg, events, queue, worker, leases>> /\ phase' # "down"
  BY DEF StartPools
<1>2. Fixed'
  BY <1>1, AsideFixed DEF Firm, Steady, Fixed, Aside, events
<1> QED BY <1>1, <1>2, AsideSteady DEF events

LEMMA StartVmListenerSteady ==
    ASSUME Firm, budget'["edit"] = 0, StartVmListener
    PROVE  Steady'
<1>1. /\ UNCHANGED <<vm, cfg, vmWatch, cfgWatch, cfgIndexer, worker, leases, ipam>>
      /\ vmIndexer' = vm /\ phase = "init" /\ phase' = "running" /\ queue'[me] = queue[me]
  BY TwoWorkers, FirmAt DEF StartVmListener, api, memory
<1>2. worker'[self].pc = "idle"
  BY <1>1, TwoWorkers DEF Firm, Base, Growth, Typed, Quiet
<1>3. Fixed'
  BY <1>1, <1>2 DEF Firm, Steady, Fixed, Alike
<1> QED BY <1>1, <1>3, OutsideSteady

\* The events of the first list, one for each vmnetcfg that exists.
LEMMA ListedOnce ==
    ASSUME NEW S \in SUBSET VMs,
           NEW q \in Listings({[key |-> v, action |-> "add"] : v \in S})
    PROVE  /\ q \in Queues(Event) /\ q.busy = NoEvent /\ ~q.again
           /\ \A i \in DOMAIN q.items : q.items[i].key \in S
           /\ \A i, j \in DOMAIN q.items : q.items[i].key = q.items[j].key => i = j
<1> DEFINE f == [v \in S |-> [key |-> v, action |-> "add"]]
           T == {[key |-> v, action |-> "add"] : v \in S}
<1>1. T \subseteq Event
  BY DEF Event, Actions
<1>2. IsFiniteSet(S)
  BY ConstantsAssumption, FS_Subset
<1>3. f \in Surjection(S, T)
  BY DEF Surjection
<1>4. IsFiniteSet(T)
  BY <1>2, <1>3, FS_Surjection
<1>5. \A x \in T : x.key \in S /\ x = [key |-> x.key, action |-> "add"]
  OBVIOUS
<1> HIDE DEF T
<1>6. q \in Queues(Event) /\ q.busy = NoEvent
  BY <1>1, <1>4, ListingsTyped DEF T
<1>7. /\ ~q.again
      /\ {q.items[i] : i \in DOMAIN q.items} = T
      /\ \A i, j \in DOMAIN q.items : q.items[i] = q.items[j] => i = j
  BY <1>4, ListingsOnce DEF T
<1>8. \A i \in DOMAIN q.items : q.items[i] \in T
  BY <1>7
<1> QED BY <1>5, <1>6, <1>7, <1>8

LEMMA StartCfgListenerSteady ==
    ASSUME Firm, budget'["edit"] = 0, StartCfgListener
    PROVE  Steady'
<1> DEFINE S == {v \in VMs : cfg[v].exists}
<1>1. PICK q \in Listings({[key |-> v, action |-> "add"] : v \in S}) : queue' = [queue EXCEPT ![me] = q]
  BY TwoWorkers DEF StartCfgListener
<1>2. /\ UNCHANGED <<vm, cfg, vmWatch, cfgWatch, vmIndexer, worker, leases, ipam>>
      /\ cfgIndexer' = cfg /\ phase = "counted" /\ phase' = "init"
  BY DEF StartCfgListener, api, memory
<1>3. /\ worker[me].pc = "idle" /\ \A v \in VMs : cfgWatch[v] = <<>>
  BY <1>2, TwoWorkers DEF Firm, Base, Growth, Typed, Quiet, Watched
<1>4. \A m \in MACs : leases[m].ref \notin VMs
  <2>1. leases = NoLeases
    BY <1>2 DEF Firm, Base, Leasing, Watched
  <2> QED BY <2>1, ConstantsAssumption DEF NoLeases, ZeroLease
<1>5. /\ S \subseteq VMs
      /\ q.busy = NoEvent /\ ~q.again
      /\ \A i \in DOMAIN q.items : q.items[i].key \in S
      /\ \A i, j \in DOMAIN q.items : q.items[i].key = q.items[j].key => i = j
  BY <1>1, ListedOnce
<1>6. queue'[me] = q /\ queue'[self] = queue[self]
  BY <1>1, FirmAt
<1>7. Fixed'
  BY <1>2, <1>6, AsideFixed DEF Firm, Steady, Fixed, Aside
<1> HIDE DEF S
<1>8. ASSUME NEW v \in VMs
      PROVE  Settled(v)'
  <2>1. ~Again(v)' /\ ~Busy(v)' /\ ~Handled(v)' /\ (Queued(v)' => v \in S)
    BY <1>2, <1>3, <1>5, <1>6 DEF Again, Busy, Handled, Queued
  <2>2. Once(v)'
    BY <1>5, <1>6, <2>1 DEF Once
  <2>3. Nothing(v)'
    BY <1>2, <1>3, <1>4, <2>1 DEF Nothing, Untold, S
  <2>4. DOMAIN cfgWatch'[v] = {}
    BY <1>2, <1>3
  <2>5. Ordered(v)' /\ Asking(v)'
    BY <1>2, <2>2, <2>4 DEF Ordered, Asking
  <2>6. \A n \in NicsOf(cfg'[v].spec) : Parked(v, n)'
    BY <1>2, <1>4, NicFields DEF Parked, Unrecorded, NicsOf
  <2> QED BY <2>3, <2>5, <2>6 DEF Settled
<1>9. Rested' /\ ~Deep(worker'[me])
  BY <1>2, <1>3, <1>5, <1>6 DEF Rested, Deep
<1> QED BY <1>2, <1>7, <1>8, <1>9 DEF Steady

\* Nothing is left of the process, or nothing was ever started.
Fresh ==
    /\ \A v \in VMs : Fits(vm[v], v) /\ Shaped(cfg[v], v)
    /\ budget["edit"] = 0 /\ leases = NoLeases /\ ipam = NoTables
    /\ \A c \in Controllers : queue[c] = EmptyQueue /\ worker[c] = IdleWorker
    /\ \A v \in VMs : /\ vmWatch[v] = <<>> /\ vmIndexer[v] = GoneVm
                      /\ cfgWatch[v] = <<>> /\ cfgIndexer[v] = GoneCfg(0)

LEMMA FreshSteady == Fresh => Steady
<1> SUFFICES ASSUME Fresh PROVE Steady
    OBVIOUS
<1> USE DEF Fresh
<1>1. /\ worker[me].pc = "idle" /\ worker[self].pc = "idle"
      /\ queue[me].items = <<>> /\ ~queue[me].again /\ queue[me].busy = NoEvent
  BY TwoWorkers, IdleTyped DEF EmptyQueue
<1>2. Fixed
  <2>1. \A v \in VMs : Fits(vmIndexer[v], v) /\ DOMAIN vmWatch[v] = {}
    BY DEF Fits, GoneVm
  <2> QED BY <1>1, <2>1 DEF Fixed, Alike
<1>3. ASSUME NEW v \in VMs
      PROVE  Settled(v)
  <2>1. \A m \in MACs : leases[m].ref # v
    BY ConstantsAssumption DEF NoLeases, ZeroLease
  <2>2. ~Queued(v) /\ ~Again(v) /\ ~Busy(v) /\ ~Handled(v) /\ DOMAIN cfgWatch[v] = {}
    BY <1>1 DEF Queued, Again, Busy, Handled
  <2>3. Nothing(v)
    BY <2>1, <2>2 DEF Nothing, Untold
  <2>4. Once(v)
    BY <1>1, <2>2 DEF Once
  <2>5. Ordered(v) /\ Asking(v)
    BY <2>2, <2>4 DEF Ordered, Asking, Asked
  <2>6. \A n \in NicsOf(cfg[v].spec) : Parked(v, n)
    BY <2>1, NicFields DEF Parked, Unrecorded, NicsOf
  <2> QED BY <2>3, <2>5, <2>6 DEF Settled
<1>4. Rested /\ ~Deep(worker[me])
  BY <1>1 DEF Rested, Deep
<1> QED BY <1>2, <1>3, <1>4 DEF Steady

LEMMA InitSteady ==
    ASSUME Init, Budget["edit"] = 0
    PROVE  Steady
<1>1. /\ budget["edit"] = 0 /\ leases = NoLeases /\ ipam = NoTables
      /\ \A c \in Controllers : queue[c] = EmptyQueue /\ worker[c] = IdleWorker
      /\ \A v \in VMs : /\ vm[v] = GoneVm /\ cfg[v] = GoneCfg(0)
                        /\ vmWatch[v] = <<>> /\ vmIndexer[v] = GoneVm
                        /\ cfgWatch[v] = <<>> /\ cfgIndexer[v] = GoneCfg(0)
  BY DEF Init
<1>2. \A v \in VMs : Fits(vm[v], v) /\ Shaped(cfg[v], v)
  BY <1>1 DEF Fits, Shaped, GoneVm, GoneCfg
<1> QED BY <1>1, <1>2, FreshSteady DEF Fresh

LEMMA CrashSteady ==
    ASSUME Firm, budget'["edit"] = 0, Crash
    PROVE  Steady' /\ phase' = "down"
<1>1. /\ UNCHANGED <<vm, cfg>> /\ phase' = "down" /\ leases' = NoLeases /\ ipam' = NoTables
      /\ \A c \in Controllers : queue'[c] = EmptyQueue /\ worker'[c] = IdleWorker
      /\ \A v \in VMs : /\ vmWatch'[v] = <<>> /\ vmIndexer'[v] = GoneVm
                        /\ cfgWatch'[v] = <<>> /\ cfgIndexer'[v] = GoneCfg(0)
  BY DEF Crash, api
<1>2. \A v \in VMs : Fits(vm'[v], v) /\ Shaped(cfg'[v], v)
  BY <1>1 DEF Firm, Steady, Fixed
<1>3. Fresh'
  BY <1>1, <1>2 DEF Fresh
<1>4. Steady'
  BY <1>3, FreshSteady, PTL
<1> QED BY <1>1, <1>4

LEMMA DeliverVmSteady ==
    ASSUME Firm, budget'["edit"] = 0, NEW v \in VMs, DeliverVm(v)
    PROVE  Steady'
<1> DEFINE new == Head(vmWatch[v])
           e   == [key |-> v, action |-> ActionOf(vmIndexer[v], new)]
<1>1. /\ vmWatch \in [VMs -> Seq(VmObjects)] /\ vmWatch[v] # <<>> /\ vmIndexer \in [VMs -> VmObjects]
      /\ UNCHANGED <<vm, cfg, cfgWatch, cfgIndexer, worker, leases, ipam, phase>>
      /\ vmWatch' = [vmWatch EXCEPT ![v] = Tail(vmWatch[v])]
      /\ vmIndexer' = [vmIndexer EXCEPT ![v] = new]
      /\ queue' = [queue EXCEPT ![self] = Enqueued(@, e)]
  BY TwoWorkers DEF DeliverVm, api, memory, boot, Firm, Base, Growth, Typed, TypeOK
<1>2. /\ new = vmWatch[v][1] /\ 1 \in DOMAIN vmWatch[v]
      /\ \A i \in DOMAIN Tail(vmWatch[v]) :
           i + 1 \in DOMAIN vmWatch[v] /\ Tail(vmWatch[v])[i] = vmWatch[v][i + 1]
  BY <1>1, FirstAndRest
<1>3. e \in Event
  BY DEF Event, Actions, ActionOf
<1>4. queue'[me] = queue[me] /\ queue'[self].busy = queue[self].busy
  <2>1. queue[self] \in Queues(Event) /\ queue'[self] = Enqueued(queue[self], e) /\ queue'[me] = queue[me]
    BY <1>1, FirmAt
  <2> QED BY <1>3, <2>1, EnqueuedTyped
<1> HIDE DEF new, e
<1>5. Fixed'
  <2>1. \A u \in VMs : /\ Fits(vm'[u], u) /\ Fits(vmIndexer'[u], u) /\ Shaped(cfg'[u], u)
                       /\ \A i \in DOMAIN vmWatch'[u] : Fits(vmWatch'[u][i], u)
    BY <1>1, <1>2 DEF Firm, Steady, Fixed
  <2>2. Alike(worker'[self], KeyOf(self)')
    BY <1>1, <1>4 DEF Firm, Steady, Fixed, Alike, KeyOf
  <2> QED BY <2>1, <2>2 DEF Fixed
<1> QED BY <1>1, <1>4, <1>5, OutsideSteady

LEMMA UsersSteady ==
    ASSUME Firm, budget'["edit"] = 0, ~Spend("edit"), NEW v \in VMs,
           CreateVm(v) \/ UpdateVm(v) \/ DeleteVm(v) \/ EditIP(v) \/ CreateManually(v)
    PROVE  Steady'
<1>1. ~DeleteVm(v) /\ ~EditIP(v) /\ ~CreateManually(v)
  <2>1. ~Spend("delete") /\ ~Spend("manual")
    BY DEF Spend, Firm, Base, Growth, Unspent
  <2> QED BY <2>1 DEF DeleteVm, EditIP, CreateManually
<1>2. PICK obj : obj \in VmObjects /\ Fits(obj, v) /\ WriteVm(v, obj)
  <2>1. \A nics \in Shapes[v] : /\ [exists |-> TRUE, nics |-> nics] \in VmObjects
                                /\ Fits([exists |-> TRUE, nics |-> nics], v)
    BY EnvironmentAssumption DEF VmObjects, Fits
  <2> QED BY <1>1, <2>1 DEF CreateVm, UpdateVm
<1>3. /\ vm \in [VMs -> VmObjects] /\ vmWatch \in [VMs -> Seq(VmObjects)]
      /\ vm' = [vm EXCEPT ![v] = obj]
      /\ UNCHANGED <<cfg, cfgWatch, vmIndexer, cfgIndexer, queue, worker, leases, ipam, phase>>
  BY <1>2 DEF WriteVm, memory, Firm, Base, Growth, Typed, TypeOK
<1>4. \A u \in VMs : \A i \in DOMAIN vmWatch'[u] : Fits(vmWatch'[u][i], u)
  <2>1. CASE UNCHANGED vmWatch
    BY <2>1 DEF Firm, Steady, Fixed
  <2>2. CASE vmWatch' = [vmWatch EXCEPT ![v] = Append(@, obj)]
    <3>1. \A i \in DOMAIN Append(vmWatch[v], obj) : Fits(Append(vmWatch[v], obj)[i], v)
      BY <1>2, <1>3, AppendProperties, LenProperties DEF Firm, Steady, Fixed
    <3> QED BY <1>3, <2>2, <3>1 DEF Firm, Steady, Fixed
  <2> QED BY <1>2, <2>1, <2>2 DEF WriteVm
<1>5. Fixed'
  <2>1. \A u \in VMs : /\ Fits(vm'[u], u) /\ Fits(vmIndexer'[u], u) /\ Shaped(cfg'[u], u)
    BY <1>2, <1>3 DEF Firm, Steady, Fixed
  <2>2. Alike(worker'[self], KeyOf(self)')
    BY <1>3 DEF Firm, Steady, Fixed, Alike, KeyOf
  <2> QED BY <1>4, <2>1, <2>2 DEF Fixed
<1> QED BY <1>3, <1>5, OutsideSteady

\* A request of a worker fails.
LEMMA ApiErrorSteady ==
    ASSUME Firm, budget'["edit"] = 0, NEW c \in Controllers, ApiError(c)
    PROVE  Steady' /\ UNCHANGED <<leases, ipam>>
<1>1. /\ UNCHANGED <<vm, cfg, vmWatch, cfgWatch, vmIndexer, leases, ipam, phase>>
      /\ \A v \in VMs : Shaped(cfg'[v], v)
  BY DEF ApiError, api, memory, Firm, Steady, Fixed
<1>2. CASE c = self
  <2>1. Done(self) /\ UNCHANGED cfgIndexer
    <3>1. worker[self].pc \in {"idle", "sync", "macs", "refs", "create"}
      BY SelfInside DEF Firm, Base, Steady, Fixed, Alike
    <3> QED BY <1>2, <3>1 DEF ApiError, Return
  <2>2. queue'[me] = queue[me] /\ worker'[me] = worker[me]
    BY <2>1, FirmAt DEF Done, Step
  <2>3. Fixed'
    BY <1>1, <2>1, SelfDoneFixed
  <2> QED BY <1>1, <2>2, <2>1, <2>3, AsideSteady DEF Firm, Steady
<1>3. CASE c = me /\ worker[me].pc \in {"poolget", "poolput"}
  <2> DEFINE w == worker[me]
             x == [w EXCEPT !.pc = w.next, !.fresh = FALSE, !.used = 0, !.retry = 0]
  <2>1. Step(me, x) /\ UNCHANGED <<queue, cfgIndexer>>
    BY <1>3 DEF ApiError
  <2>2. Fixed'
    BY <1>1, <2>1, StepAside, AsideFixed DEF Firm, Steady
  <2>3. Deep(w) /\ w \in Workers /\ w.next = "nic"
    BY <1>3, FirmAt DEF Firm, Steady, Deep, Meant
  <2>4. /\ x.obj = w.obj /\ x.spec = w.spec /\ x.change = w.change /\ x.next = "nic"
        /\ x.status = w.status /\ x.pc = "nic" /\ x.todo = w.todo
    BY <2>3 DEF Workers
  <2>5. worker'[me] = x
    BY <2>1, FirmAt DEF Step
  <2> HIDE DEF x
  <2>6. \A n \in Nics : Pending(x, n) <=> Pending(worker[me], n)
    BY <1>3, <2>4 DEF Pending, Visiting
  <2> QED BY <1>1, <1>3, <2>1, <2>2, <2>3, <2>4, <2>5, <2>6, VisitSteady DEF Visiting
<1>4. CASE c = me /\ worker[me].pc \notin {"poolget", "poolput"}
  <2>1. Done(me) /\ worker[me].pc # "idle"
    BY <1>4 DEF ApiError, Return
  <2>2. Fixed'
    BY <1>1, <2>1, StepAside, AsideFixed DEF Firm, Steady
  <2>3. CASE worker[me].pc = "ustatus"
    <3>1. cfgIndexer' = Overwritten
      BY <1>4, <2>3 DEF ApiError
    <3> QED BY <1>1, <2>1, <2>2, <2>3, <3>1, StatusSteady
  <2>4. CASE worker[me].pc # "ustatus"
    <3>1. UNCHANGED cfgIndexer
      BY <1>4, <2>4 DEF ApiError
    <3> QED BY <1>1, <2>1, <2>2, <3>1, DoneSteady
  <2> QED BY <2>3, <2>4
<1> QED BY <1>2, <1>3, <1>4, FirmAt, TwoWorkers

\* What a step takes away it takes when an object is deleted, which does not
\* happen here, or with the process.
Lasting ==
    \/ phase' = "down"
    \/ /\ \A m \in MACs : CheckLease(m) => leases'[m] = leases[m]
       /\ \A net \in Networks : ipam[net] \subseteq ipam'[net]

LEMMA NextSteady ==
    ASSUME OnlyGrowth, OneNetwork, FixedShapes, Firm, [Next]_vars
    PROVE  Firm' /\ Lasting
<1>1. Base'
  BY NextGrowth, NextLeases, NextAccounts, NextRecords DEF Firm, Base
<1>2. budget'["edit"] = 0 /\ ~Spend("edit")
  BY NeverSpent DEF Firm, Base, Growth, Typed, Steady, BudgetKeys
<1> SUFFICES Steady' /\ Lasting
    BY <1>1 DEF Firm
<1>3. CASE CfgWorker
  <2>1. Steady' /\ ~ReleaseIP(me) /\ ~Cleanup(me)
    BY <1>3, CfgWorkerSteady
  <2>2. \A m \in MACs : CheckLease(m) => leases'[m] = leases[m]
    <3>1. CASE RegisterLease
      BY <1>2, <3>1, CfgWorkerFixed, RegisterLeaseSteady DEF CfgWorker
    <3>2. CASE CheckHeld
      BY <1>2, <1>3, <3>2, CfgWorkerFixed, CheckHeldSteady
    <3>3. CASE ~RegisterLease /\ ~CheckHeld
      <4>1. UNCHANGED leases
        BY <1>3, <2>1, <3>3
        DEF CfgWorker, TakeItem, SyncCfg, CheckNic, NoPool, CheckOwner, GetIP, NicsDone, UpdateSpec,
            UpdateStatus, UpdateIPPoolStatusGet, UpdateIPPoolStatusPut, CleanupDone, RemoveFinalizer,
            memory
      <4> QED BY <4>1
    <3> QED BY <3>1, <3>2, <3>3
  <2>3. \A net \in Networks : ipam[net] \subseteq ipam'[net]
    <3>1. CASE GetIP
      BY <3>1, FirmAt DEF GetIP, Firm, Base, Growth, Typed, TypeOK
    <3>2. CASE ~GetIP
      <4>1. UNCHANGED ipam
        BY <1>3, <2>1, <3>2
        DEF CfgWorker, TakeItem, SyncCfg, CheckNic, NoPool, CheckOwner, CheckHeld, RegisterLease,
            NicsDone, UpdateSpec, UpdateStatus, UpdateIPPoolStatusGet, UpdateIPPoolStatusPut,
            CleanupDone, RemoveFinalizer, memory
      <4> QED BY <4>1
    <3> QED BY <3>1, <3>2
  <2> QED BY <2>1, <2>2, <2>3 DEF Lasting
<1>4. CASE VmWorker
  BY <1>2, <1>4, VmWorkerSteady DEF Lasting
<1>5. CASE StartPools
  <2>1. /\ UNCHANGED leases /\ \A net \in Networks : ipam[net] = {}
    BY <1>5 DEF StartPools, Firm, Steady, NoTables
  <2> QED BY <1>2, <1>5, <2>1, StartPoolsSteady DEF Lasting
<1>6. CASE StartCfgListener \/ StartVmListener
  <2>1. UNCHANGED <<leases, ipam>>
    BY <1>6 DEF StartCfgListener, StartVmListener, memory
  <2> QED BY <1>2, <1>6, <2>1, StartCfgListenerSteady, StartVmListenerSteady DEF Lasting
<1>7. CASE Informers
  <2>1. UNCHANGED <<leases, ipam>>
    BY <1>7 DEF Informers, DeliverCfg, DeliverVm, memory
  <2> QED BY <1>2, <1>7, <2>1, DeliverCfgSteady, DeliverVmSteady DEF Lasting, Informers
<1>8. CASE Users
  <2>1. UNCHANGED <<leases, ipam>>
    BY <1>8 DEF Users, CreateVm, UpdateVm, DeleteVm, WriteVm, EditIP, CreateManually, memory
  <2> QED BY <1>2, <1>8, <2>1, UsersSteady DEF Lasting, Users
<1>9. CASE CountVmNetCfgs \/ CountError \/ Pools \/ Tick \/ UNCHANGED vars
  <2>1. /\ UNCHANGED <<vm, cfg, vmWatch, cfgWatch, vmIndexer, cfgIndexer, queue, worker, leases, ipam>>
        /\ phase # "down" => phase' # "down"
        /\ phase' = "down" => phase = "down"
    BY <1>9 DEF CountVmNetCfgs, CountError, Pools, UncachePool, CachePool, Tick, vars, api, events,
                 memory, boot
  <2>2. Fixed'
    BY <2>1, AsideFixed DEF Firm, Steady, Fixed, Aside
  <2> QED BY <1>2, <2>1, <2>2, OutsideSteady DEF Lasting
<1>10. CASE Faults
  BY <1>2, <1>10, <1>9, CrashSteady, ApiErrorSteady DEF Lasting, Faults
<1> QED BY <1>3, <1>4, <1>5, <1>6, <1>7, <1>8, <1>9, <1>10 DEF Next, Start

-----------------------------------------------------------------------------

LEMMA InitFirm ==
    ASSUME OnlyGrowth, Budget["edit"] = 0, Init
    PROVE  Firm
<1>1. Accounts
  BY TwoWorkers, IdleTyped DEF Init, NoTables, Accounts, Accounted, Vacant, Expecting, InRelease
<1> QED BY <1>1, InitGrowth, InitLeases, InitRecords, InitSteady DEF Firm, Base

\* A lease an interface of a virtual machine holds is for the address its
\* vmnetcfg records, if it records one: for every number of machines, interfaces
\* and networks, through every conflict, failing request, crash in the middle
\* of a synchronisation, stale informer copy and reload of a pool, while users
\* only add virtual machines and leave their lists of interfaces and the
\* recorded addresses alone.
THEOREM LeaseMatchesRecordHolds ==
    ASSUME OnlyGrowth, OneNetwork, FixedShapes, Budget["edit"] = 0
    PROVE  Spec => []LeaseMatchesRecord
<1>1. Init => Firm
  BY InitFirm
<1>2. Firm /\ [Next]_vars => Firm'
  BY NextSteady
<1>3. Firm => LeaseMatchesRecord
  BY ConstantsAssumption DEF Firm, Steady, Settled, Parked, Unrecorded, LeaseMatchesRecord
<1> QED BY <1>1, <1>2, <1>3, PTL DEF Spec

\* In the same environment an interface that is served keeps its lease as long
\* as the process lives: when the informer's copy is older than the vmnetcfg,
\* when a write conflicts or a request fails, the worker that handles the
\* object again finds the address it leased recorded, or its interface in error.
THEOREM ServedAddressStaticHolds ==
    ASSUME OnlyGrowth, OneNetwork, FixedShapes, Budget["edit"] = 0
    PROVE  Spec => ServedAddressStatic
<1>1. Init => Firm
  BY InitFirm
<1>2. Firm /\ [Next]_vars => Firm'
  BY NextSteady
<1>3. Firm /\ [Next]_vars
      => [phase' # "down" => \A m \in MACs : InUse(m) => leases'[m] = leases[m]]_vars
  BY NextSteady DEF Lasting, InUse
<1> QED BY <1>1, <1>2, <1>3, PTL DEF Spec, ServedAddressStatic

\* In the same environment no address that a vmnetcfg records with status OK
\* is given back as long as the process lives.
THEOREM ReleasedOnlyOnDeleteHolds ==
    ASSUME OnlyGrowth, OneNetwork, FixedShapes, Budget["edit"] = 0
    PROVE  Spec => ReleasedOnlyOnDelete
<1>1. Init => Firm
  BY InitFirm
<1>2. Firm /\ [Next]_vars => Firm'
  BY NextSteady
<1>3. Firm /\ [Next]_vars
      => [phase' # "down" =>
            \A v \in VMs : \A n \in vm[v].nics :
              /\ cfg[v].status[n] = "OK"
              /\ cfg[v].spec[n] \in ipam[NetOf(n)]
              => cfg[v].spec[n] \in ipam'[NetOf(n)]]_vars
  <2>1. Firm => \A v \in VMs : \A n \in vm[v].nics : NetOf(n) \in Networks
    BY NicFields DEF Firm, Base, Growth, Typed, TypeOK, VmObjects
  <2> QED BY <2>1, NextSteady DEF Lasting
<1> QED BY <1>1, <1>2, <1>3, PTL DEF Spec, ReleasedOnlyOnDelete

=============================================================================
