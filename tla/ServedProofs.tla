---------------------------- MODULE ServedProofs ----------------------------
(***************************************************************************)
(* The proof that nothing is forgotten: when the helper is at rest, every  *)
(* interface of every virtual machine is served, through every             *)
(* interleaving, write conflict, crash and restart, as long as every       *)
(* interface is on a network with a pool and no request fails.             *)
(***************************************************************************)
EXTENDS LeaseProofs

-----------------------------------------------------------------------------
(* Nothing is forgotten.  While no request fails and every interface is on *)
(* a network with a pool, a vmnetcfg that is not what it should be is on   *)
(* its way to its worker, and a virtual machine without one is, too.       *)

\* Each MAC address is of one interface of one virtual machine.
OwnMacs ==
    \A u, v \in VMs : \A n \in UNION Shapes[u], k \in UNION Shapes[v] :
      MacOf(n) = MacOf(k) => u = v /\ n = k

Pooled == \A v \in VMs : \A n \in UNION Shapes[v] : NetOf(n) \in Configured

\* What x says of interface n is so: an object of v, or a handler's locals.
Provided(x, v, n) ==
    \/ x.status[n] = "ERROR"
    \/ x.spec[n] \in IPs /\ leases[MacOf(n)] = LeaseOf(v, n, x.spec[n])

Concerned(v) == cfgWatch[v] # <<>> \/ Queued(v) \/ Again(v) \/ Busy(v)

\* The last event is of the object in the API.
Latest(v) == IF cfgWatch[v] = <<>> THEN cfgIndexer[v] ELSE cfgWatch[v][Len(cfgWatch[v])]
Newest(v) == Latest(v).rv = cfg[v].rv

\* The worker never gets an object that is not there.
Known(v) ==
    /\ Queued(v) \/ Busy(v) => cfgIndexer[v].exists
    /\ \A i \in DOMAIN cfgWatch[v] : cfgWatch[v][i].exists

Remembered(v) ==
    /\ Known(v)
    /\ Watched => /\ Newest(v)
                  /\ cfg[v].exists =>
                       Concerned(v) \/ \A n \in NicsOf(cfg[v].spec) : Provided(cfg[v], v, n)

Present ==
    /\ \A i \in DOMAIN queue[me].items : queue[me].items[i].action # "delete"
    /\ worker[me].pc # "idle" => queue[me].busy.action # "delete"

\* A handler of v: one whose object is not the newest is not the last one, and
\* each interface it has visited is provided for.
Diligent(w, v) ==
    /\ ~Ended(w) /\ w.obj.rv # cfgIndexer[v].rv => Queued(v) \/ Again(v)
    /\ Ended(w) => w.obj.rv = cfg[v].rv
    /\ \A n \in NicsOf(w.obj.spec) : Pending(w, n) \/ Provided(w, v, n)

CfgTidy ==
    /\ \A v \in VMs : Remembered(v)
    /\ Present
    /\ Deep(worker[me]) => Diligent(worker[me], KeyOf(me))

\* No lease ends.
Lasts == \A m \in MACs : CheckLease(m) => leases'[m] = leases[m]

LEMMA ProvidedStays ==
    ASSUME Lasts, NEW v \in VMs, NEW n \in Nics, NEW x, Provided(x, v, n)
    PROVE  Provided(x, v, n)'
<1>1. CASE x.status[n] = "ERROR"
  BY <1>1 DEF Provided
<1>2. CASE x.spec[n] \in IPs /\ leases[MacOf(n)] = LeaseOf(v, n, x.spec[n])
  <2>1. LeaseOf(v, n, x.spec[n]).ref = v /\ ZeroLease.ref = NoRef /\ NoRef # v
    BY ConstantsAssumption DEF LeaseOf, ZeroLease
  <2>2. CheckLease(MacOf(n))
    BY <1>2, <2>1 DEF CheckLease
  <2>3. leases'[MacOf(n)] = leases[MacOf(n)]
    BY <2>2, NicFields DEF Lasts
  <2> QED BY <1>2, <2>3 DEF Provided
<1> QED BY <1>1, <1>2 DEF Provided

\* A lease found for an interface of v is of v.
LEMMA LeaseOwner ==
    ASSUME OwnMacs, Firm, NEW v \in VMs, NEW n \in UNION Shapes[v], CheckLease(MacOf(n))
    PROVE  /\ leases[MacOf(n)].ref = v /\ leases[MacOf(n)].ip \in IPs
           /\ leases[MacOf(n)] = LeaseOf(v, n, leases[MacOf(n)].ip)
<1>1. n \in Nics /\ MacOf(n) \in MACs
  BY EnvironmentAssumption, NicFields
<1>2. Marked(MacOf(n)) /\ leases[MacOf(n)] \in Leases /\ ipam \in [Networks -> SUBSET IPs]
  BY <1>1, LeaseTypes DEF Firm, Base, Leasing
<1>3. PICK k : k = <<MacOf(n), leases[MacOf(n)].net>>
  OBVIOUS
<1>4. k \in UNION Shapes[leases[MacOf(n)].ref] /\ MacOf(k) = MacOf(n) /\ leases[MacOf(n)].ref \in VMs
      /\ NetOf(k) = leases[MacOf(n)].net /\ leases[MacOf(n)].ip \in IPs
  BY <1>2, <1>3 DEF Marked, MacOf, NetOf
<1>5. leases[MacOf(n)].ref = v /\ k = n
  BY <1>4 DEF OwnMacs
<1> QED BY <1>2, <1>4, <1>5 DEF LeaseOf, Leases

-----------------------------------------------------------------------------
(* The work of the vmnetcfg worker.                                        *)

\* A step that leaves the vmnetcfgs, their events and the queue alone.
LEMMA GoesOnTidy ==
    ASSUME Firm, CfgTidy, Lasts, queue'[me] = queue[me],
           UNCHANGED <<cfg, cfgWatch, cfgIndexer, phase>>,
           worker'[me].pc = "idle" <=> worker[me].pc = "idle",
           (Deep(worker[me]) => Diligent(worker[me], KeyOf(me)))'
    PROVE  CfgTidy'
<1>1. \A v \in VMs : /\ Queued(v)' = Queued(v) /\ Again(v)' = Again(v) /\ Busy(v)' = Busy(v)
                     /\ KeyOf(me)' = KeyOf(me)
  BY DEF Queued, Again, Busy, KeyOf
<1>2. ASSUME NEW v \in VMs
      PROVE  Remembered(v)'
  <2>1. Concerned(v)' = Concerned(v)
    BY <1>1 DEF Concerned
  <2>2. Newest(v)' = Newest(v) /\ Known(v)' = Known(v)
    BY <1>1 DEF Newest, Latest, Known
  <2>3. ASSUME NEW n \in NicsOf(cfg[v].spec), Provided(cfg[v], v, n)
        PROVE  Provided(cfg[v], v, n)'
    <3>1. PICK x : x = cfg[v]
      OBVIOUS
    <3>2. Provided(x, v, n)'
      BY <2>3, <3>1, ProvidedStays DEF NicsOf
    <3> QED BY <3>1, <3>2 DEF Provided
  <2> QED BY <2>1, <2>2, <2>3 DEF CfgTidy, Remembered, Watched
<1>3. Present'
  BY DEF CfgTidy, Present
<1> QED BY <1>1, <1>2, <1>3 DEF CfgTidy, Diligent, Provided, KeyOf, Queued, Again

\* It visits the interfaces of its object.
LEMMA VisitDiligent ==
    ASSUME Firm, CfgTidy, Lasts, queue'[me] = queue[me],
           UNCHANGED <<cfg, cfgWatch, cfgIndexer, phase>>,
           Deep(worker[me]), ~Ended(worker[me]), NEW x, worker'[me] = x, Deep(x), ~Ended(x),
           x.obj = worker[me].obj,
           \A n \in Nics : \/ Pending(x, n)
                           \/ /\ ~Pending(worker[me], n)
                              /\ x.status[n] = worker[me].status[n] /\ x.spec[n] = worker[me].spec[n]
                           \/ Provided(x, KeyOf(me), n)'
    PROVE  CfgTidy'
<1>0. PICK w, v : w = worker[me] /\ v = KeyOf(me)
  OBVIOUS
<1>1. v \in VMs /\ Diligent(w, v) /\ KeyOf(me)' = v
  BY <1>0, FirmAt DEF CfgTidy, Deep, KeyOf
<1>2. Queued(v)' = Queued(v) /\ Again(v)' = Again(v)
  BY DEF Queued, Again, KeyOf
<1>3. ASSUME NEW n \in NicsOf(x.obj.spec)
      PROVE  Pending(x, n) \/ Provided(x, v, n)'
  <2>1. CASE ~Pending(w, n) /\ x.status[n] = w.status[n] /\ x.spec[n] = w.spec[n]
    <3>1. Provided(w, v, n)
      BY <1>0, <1>1, <1>3, <2>1 DEF Diligent
    <3>2. Provided(x, v, n)
      BY <2>1, <3>1 DEF Provided
    <3> QED BY <1>1, <1>3, <3>2, ProvidedStays DEF NicsOf
  <2>2. \/ Pending(x, n)
        \/ ~Pending(w, n) /\ x.status[n] = w.status[n] /\ x.spec[n] = w.spec[n]
        \/ Provided(x, v, n)'
    <3>1. n \in Nics
      BY <1>3 DEF NicsOf
    <3>2. Provided(x, KeyOf(me), n)' => Provided(x, v, n)'
      BY <1>1 DEF Provided
    <3> QED BY <1>0, <3>1, <3>2
  <2> QED BY <2>1, <2>2
<1>4. Diligent(x, v)'
  BY <1>0, <1>1, <1>2, <1>3 DEF Diligent, Pending, Visiting, Ended
<1>5. (Diligent(worker[me], KeyOf(me)))'
  BY <1>1, <1>4 DEF Diligent, Provided
<1> QED BY <1>5, GoesOnTidy DEF Deep

LEMMA CheckNicTidy ==
    ASSUME Firm, CfgTidy, Lasts, CheckNic
    PROVE  CfgTidy'
<1> DEFINE w    == worker[me]
           v(n) == [w EXCEPT !.todo = @ \ {n}, !.nic = n]
           e(n) == InError(v(n), n)
           x(n) == [v(n) EXCEPT !.pc = "owner"]
           y(n) == [v(n) EXCEPT !.pc = "getip"]
<1>1. /\ w \in Workers /\ w.pc = "nic"
      /\ UNCHANGED <<cfg, cfgWatch, cfgIndexer, phase, queue>>
  BY FirmAt DEF CheckNic, api, events, boot
<1>2. PICK n \in w.todo : Step(me, e(n)) \/ Step(me, x(n)) \/ Step(me, y(n))
  BY DEF CheckNic
<1>3. /\ n \in Nics /\ v(n) \in Workers /\ v(n).obj = w.obj /\ v(n).spec = w.spec
      /\ v(n).todo = w.todo \ {n} /\ v(n).nic = n /\ v(n).status = w.status
  BY <1>1 DEF Workers
<1> HIDE DEF v
<1>4. /\ x(n).obj = w.obj /\ x(n).spec = w.spec /\ x(n).todo = w.todo \ {n} /\ x(n).nic = n
      /\ x(n).pc = "owner" /\ x(n).status = w.status
      /\ y(n).obj = w.obj /\ y(n).spec = w.spec /\ y(n).todo = w.todo \ {n} /\ y(n).nic = n
      /\ y(n).pc = "getip" /\ y(n).status = w.status
  BY <1>3 DEF Workers
<1>5. /\ e(n).obj = w.obj /\ e(n).spec = w.spec /\ e(n).todo = w.todo \ {n}
      /\ e(n).pc = "nic" /\ e(n).status[n] = "ERROR"
      /\ \A k \in Nics \ {n} : e(n).status[k] = w.status[k]
  BY <1>3 DEF Workers, InError, Statuses
<1> HIDE DEF x, y, e
<1>6. ASSUME NEW z, Step(me, z), z = e(n) \/ z = x(n) \/ z = y(n)
      PROVE  CfgTidy'
  <2>1. worker'[me] = z
    BY <1>6, FirmAt DEF Step
  <2>2. \A k \in Nics : Pending(w, k) <=> k \in w.todo
    BY <1>1 DEF Pending, Visiting
  <2>3. ASSUME NEW k \in Nics
        PROVE  \/ Pending(z, k)
               \/ ~Pending(w, k) /\ z.status[k] = w.status[k] /\ z.spec[k] = w.spec[k]
               \/ Provided(z, KeyOf(me), k)'
    BY <1>4, <1>5, <1>6, <2>2 DEF Pending, Visiting, Provided
  <2>4. Deep(w) /\ Deep(z) /\ ~Ended(w) /\ ~Ended(z) /\ z.obj = w.obj
    BY <1>1, <1>4, <1>5, <1>6 DEF Deep, Ended
  <2> QED BY <1>1, <2>1, <2>3, <2>4, VisitDiligent
<1> QED BY <1>2, <1>6

LEMMA CheckOwnerTidy ==
    ASSUME Firm, CfgTidy, Lasts, CheckOwner
    PROVE  CfgTidy'
<1> DEFINE w == worker[me]
           n == w.nic
           e == InError(w, n)
           x == [w EXCEPT !.pc = "held"]
<1>1. /\ w \in Workers /\ n \in Nics /\ w.pc = "owner"
      /\ UNCHANGED <<cfg, cfgWatch, cfgIndexer, phase, queue>>
      /\ Step(me, e) \/ Step(me, x)
  BY FirmAt DEF CheckOwner, api, events, boot, Handlers, AtNic
<1>2. /\ x.obj = w.obj /\ x.spec = w.spec /\ x.todo = w.todo /\ x.nic = n
      /\ x.pc = "held" /\ x.status = w.status
      /\ e.obj = w.obj /\ e.spec = w.spec /\ e.todo = w.todo /\ e.pc = "nic"
      /\ e.status[n] = "ERROR" /\ \A k \in Nics \ {n} : e.status[k] = w.status[k]
  BY <1>1 DEF Workers, InError, Statuses
<1> HIDE DEF x, e
<1>3. ASSUME NEW z, Step(me, z), z = e \/ z = x
      PROVE  CfgTidy'
  <2>1. worker'[me] = z
    BY <1>3, FirmAt DEF Step
  <2>2. \A k \in Nics : Pending(w, k) <=> k \in w.todo \/ k = n
    BY <1>1 DEF Pending, Visiting
  <2>3. ASSUME NEW k \in Nics
        PROVE  \/ Pending(z, k)
               \/ ~Pending(w, k) /\ z.status[k] = w.status[k] /\ z.spec[k] = w.spec[k]
               \/ Provided(z, KeyOf(me), k)'
    BY <1>2, <1>3, <2>2 DEF Pending, Visiting, Provided
  <2>4. Deep(w) /\ Deep(z) /\ ~Ended(w) /\ ~Ended(z) /\ z.obj = w.obj
    BY <1>1, <1>2, <1>3 DEF Deep, Ended
  <2> QED BY <1>1, <2>1, <2>3, <2>4, VisitDiligent
<1> QED BY <1>1, <1>3

\* A lease that is kept is for the address the worker is going to leave.
LEMMA CheckHeldTidy ==
    ASSUME OwnMacs, Firm, CfgTidy, Lasts, UNCHANGED leases, CheckHeld
    PROVE  CfgTidy'
<1>0. PICK w, n, v : w = worker[me] /\ n = w.nic /\ v = KeyOf(me)
  OBVIOUS
<1> DEFINE l == leases[MacOf(n)]
           x == [w EXCEPT !.pc = "getip"]
           y == [w EXCEPT !.pc = "nic", !.nic = NoNic, !.status[n] = w.obj.status[n]]
<1>1. /\ w \in Workers /\ n \in Nics /\ w.pc = "held" /\ MacOf(n) \in MACs
      /\ v \in VMs /\ n \in UNION Shapes[v]
      /\ UNCHANGED <<cfg, cfgWatch, cfgIndexer, phase, queue>> /\ KeyOf(me)' = v
  BY <1>0, AtShape DEF CheckHeld, api, events, boot, AtNic, Firm, Base, KeyOf
<1>2. \/ Step(me, x)
      \/ CheckLease(MacOf(n)) /\ l.ip = w.obj.spec[n] /\ Step(me, y)
  <2>1. ~(CheckLease(MacOf(n)) /\ DeleteLease(MacOf(n)))
    <3>1. leases \in [MACs -> Leases]
      BY LeaseTypes DEF Firm, Base
    <3> QED BY <1>1, <3>1 DEF DeleteLease, CheckLease
  <2> QED BY <1>0, <2>1 DEF CheckHeld, Kept
<1>3. /\ x.obj = w.obj /\ x.spec = w.spec /\ x.todo = w.todo /\ x.nic = n
      /\ x.pc = "getip" /\ x.status = w.status
      /\ y.obj = w.obj /\ y.spec = w.spec /\ y.todo = w.todo /\ y.pc = "nic"
      /\ \A k \in Nics \ {n} : y.status[k] = w.status[k]
  BY <1>0, <1>1 DEF Workers, Statuses
<1>4. Meant(w, v) /\ Deep(w) /\ ~Ended(w)
  BY <1>0, <1>1 DEF Firm, Steady, Deep, Ended
<1>5. ASSUME CheckLease(MacOf(n)), l.ip = w.obj.spec[n]
      PROVE  w.spec[n] \in IPs /\ l = LeaseOf(v, n, w.spec[n])
  <2>1. l.ip \in IPs /\ l = LeaseOf(v, n, l.ip)
    BY <1>1, <1>5, LeaseOwner
  <2>2. w.spec[n] # w.obj.spec[n] => l.ip = w.spec[n]
    BY <1>1, <1>4, MeantAt
  <2> QED BY <1>5, <2>1, <2>2
<1> HIDE DEF x, y
<1>6. ASSUME NEW z, Step(me, z),
             z = x \/ (z = y /\ CheckLease(MacOf(n)) /\ l.ip = w.obj.spec[n])
      PROVE  CfgTidy'
  <2>1. worker'[me] = z
    BY <1>6, FirmAt DEF Step
  <2>2. \A k \in Nics : Pending(w, k) <=> k \in w.todo \/ k = n
    BY <1>0, <1>1 DEF Pending, Visiting
  <2>3. z = y => Provided(z, v, n)'
    BY <1>3, <1>5, <1>6 DEF Provided
  <2>4. ASSUME NEW k \in Nics
        PROVE  \/ Pending(z, k)
               \/ ~Pending(w, k) /\ z.status[k] = w.status[k] /\ z.spec[k] = w.spec[k]
               \/ Provided(z, v, k)'
    BY <1>3, <1>6, <2>2, <2>3 DEF Pending, Visiting
  <2>5. Deep(z) /\ ~Ended(z) /\ z.obj = w.obj
    BY <1>3, <1>6 DEF Deep, Ended
  <2>6. \A k \in Nics : Provided(z, v, k)' => Provided(z, KeyOf(me), k)'
    BY <1>1 DEF Provided
  <2> QED BY <1>0, <1>1, <1>4, <2>1, <2>4, <2>5, <2>6, VisitDiligent
<1> QED BY <1>2, <1>6

LEMMA GetIPTidy ==
    ASSUME Firm, CfgTidy, Lasts, GetIP
    PROVE  CfgTidy'
<1> DEFINE w    == worker[me]
           n    == w.nic
           x(a) == [w EXCEPT !.pc = "addlease", !.ip = a]
           u    == [w EXCEPT !.ip = NoIP]
           e    == InError(u, n)
<1>1. /\ w \in Workers /\ n \in Nics /\ w.pc = "getip"
      /\ UNCHANGED <<cfg, cfgWatch, cfgIndexer, phase, queue>>
  BY FirmAt DEF GetIP, api, events, boot, Handlers, AtNic
<1>2. (\E a \in IPs : Step(me, x(a))) \/ Step(me, e)
  BY DEF GetIP, Grantable
<1>3. /\ u \in Workers /\ u.obj = w.obj /\ u.spec = w.spec /\ u.status = w.status /\ u.todo = w.todo
  BY <1>1 DEF Workers
<1> HIDE DEF u
<1>4. /\ e.obj = w.obj /\ e.spec = w.spec /\ e.todo = w.todo /\ e.pc = "nic"
      /\ e.status[n] = "ERROR" /\ \A k \in Nics \ {n} : e.status[k] = w.status[k]
  BY <1>1, <1>3 DEF Workers, InError, Statuses
<1>5. \A a \in IPs : /\ x(a).obj = w.obj /\ x(a).spec = w.spec /\ x(a).todo = w.todo /\ x(a).nic = n
                     /\ x(a).pc = "addlease" /\ x(a).status = w.status
  BY <1>1 DEF Workers
<1> HIDE DEF x, e
<1>6. ASSUME NEW z, Step(me, z), z = e \/ \E a \in IPs : z = x(a)
      PROVE  CfgTidy'
  <2>1. worker'[me] = z
    BY <1>6, FirmAt DEF Step
  <2>2. \A k \in Nics : Pending(w, k) <=> k \in w.todo \/ k = n
    BY <1>1 DEF Pending, Visiting
  <2>3. ASSUME NEW k \in Nics
        PROVE  \/ Pending(z, k)
               \/ ~Pending(w, k) /\ z.status[k] = w.status[k] /\ z.spec[k] = w.spec[k]
               \/ Provided(z, KeyOf(me), k)'
    BY <1>4, <1>5, <1>6, <2>2 DEF Pending, Visiting, Provided
  <2>4. Deep(w) /\ Deep(z) /\ ~Ended(w) /\ ~Ended(z) /\ z.obj = w.obj
    BY <1>1, <1>4, <1>5, <1>6 DEF Deep, Ended
  <2> QED BY <1>1, <2>1, <2>3, <2>4, VisitDiligent
<1> QED BY <1>2, <1>6

LEMMA RegisterLeaseTidy ==
    ASSUME FixedShapes, OneNetwork, Firm, Fixed', CfgTidy, Lasts, RegisterLease
    PROVE  CfgTidy'
<1>0. PICK w \in Workers, v \in VMs, n \in Nics : w = worker[me] /\ v = KeyOf(me) /\ n = w.nic
  BY AtShape DEF RegisterLease, AtNic, Firm, Base
<1> DEFINE x == [w EXCEPT !.pc = "poolget", !.op = "add", !.next = "nic", !.retry = 0,
                          !.change = TRUE, !.spec = Recorded(w), !.status[n] = "OK"]
<1>1. /\ w.pc = "addlease" /\ w.ip \in IPs /\ MacOf(n) \in MACs
      /\ UNCHANGED <<cfg, cfgWatch, cfgIndexer, phase, queue>>
      /\ AddLease(MacOf(n), NetOf(n), w.ip, v) /\ worker'[me] = x /\ KeyOf(me)' = v
  BY <1>0, FirmAt, NicFields
  DEF RegisterLease, Step, api, events, boot, Handlers, AtNic, Granted, KeyOf
<1>2. leases'[MacOf(n)] = LeaseOf(v, n, w.ip)
  <2>1. ~CheckLease(MacOf(n))
    BY <1>0, RegisterLeaseSteady
  <2>2. leases \in [MACs -> Leases]
    BY LeaseTypes DEF Firm, Base
  <2> QED BY <1>1, <2>1, <2>2 DEF AddLease, LeaseOf
<1>3. /\ x.pc = "poolget" /\ x.obj = w.obj /\ x.todo = w.todo
      /\ \A k \in Nics \ {n} : x.spec[k] = w.spec[k] /\ x.status[k] = w.status[k]
      /\ x.spec[n] = w.ip
  BY <1>0, <1>1 DEF Workers, Recorded, Specs, Statuses
<1> HIDE DEF x
<1>4. Deep(w) /\ ~Ended(w) /\ Deep(x) /\ ~Ended(x)
  BY <1>1, <1>3 DEF Deep, Ended
<1>5. Provided(x, KeyOf(me), n)'
  BY <1>1, <1>2, <1>3 DEF Provided
<1>6. ASSUME NEW k \in Nics
      PROVE  \/ Pending(x, k)
             \/ ~Pending(w, k) /\ x.status[k] = w.status[k] /\ x.spec[k] = w.spec[k]
             \/ Provided(x, KeyOf(me), k)'
  BY <1>0, <1>3, <1>5 DEF Pending, Visiting
<1> QED BY <1>0, <1>1, <1>3, <1>4, <1>6, VisitDiligent

\* It goes on with what it has.
LEMMA OnTidy ==
    ASSUME Firm, CfgTidy, Lasts, queue'[me] = queue[me],
           UNCHANGED <<cfg, cfgWatch, cfgIndexer, phase>>,
           Deep(worker[me]), ~Ended(worker[me]), NEW x, worker'[me] = x, Deep(x), ~Ended(x),
           x.obj = worker[me].obj, x.spec = worker[me].spec, x.status = worker[me].status,
           \A n \in Nics : Pending(x, n) <=> Pending(worker[me], n)
    PROVE  CfgTidy'
BY VisitDiligent

LEMMA PoolGetTidy ==
    ASSUME Firm, CfgTidy, Lasts, UpdateIPPoolStatusGet(me)
    PROVE  CfgTidy'
<1> DEFINE w == worker[me]
           x == [w EXCEPT !.pc = w.next]
           y == [w EXCEPT !.pc = "poolput", !.fresh = TRUE, !.used = Cardinality(ipam[NetOf(w.nic)])]
<1>1. /\ w \in Workers /\ w.pc = "poolget" /\ w.next = "nic"
      /\ UNCHANGED <<cfg, cfgWatch, cfgIndexer, phase, queue>>
      /\ Step(me, x) \/ Step(me, y)
  BY FirmAt DEF UpdateIPPoolStatusGet, api, events, boot, Firm, Steady, Meant, Deep
<1>2. /\ x.obj = w.obj /\ x.spec = w.spec /\ x.todo = w.todo /\ x.status = w.status /\ x.pc = "nic"
      /\ y.obj = w.obj /\ y.spec = w.spec /\ y.todo = w.todo /\ y.status = w.status
      /\ y.pc = "poolput"
  BY <1>1 DEF Workers
<1> HIDE DEF x, y
<1>3. worker'[me] = x \/ worker'[me] = y
  BY <1>1, FirmAt DEF Step
<1> QED BY <1>1, <1>2, <1>3, OnTidy DEF Pending, Visiting, Deep, Ended

LEMMA PoolPutTidy ==
    ASSUME Firm, CfgTidy, Lasts, UpdateIPPoolStatusPut(me)
    PROVE  CfgTidy'
<1> DEFINE w == worker[me]
           x == [w EXCEPT !.pc = w.next, !.fresh = FALSE, !.used = 0, !.retry = 0]
           y == [w EXCEPT !.pc = "poolget", !.used = 0, !.retry = @ + 1]
<1>1. /\ w \in Workers /\ w.pc = "poolput" /\ w.next = "nic"
      /\ UNCHANGED <<cfg, cfgWatch, cfgIndexer, phase, queue>>
      /\ worker'[me] = x \/ Step(me, x) \/ Step(me, y)
  BY FirmAt DEF UpdateIPPoolStatusPut, events, boot, Firm, Steady, Meant, Deep
<1>2. /\ x.obj = w.obj /\ x.spec = w.spec /\ x.todo = w.todo /\ x.status = w.status /\ x.pc = "nic"
      /\ y.obj = w.obj /\ y.spec = w.spec /\ y.todo = w.todo /\ y.status = w.status
      /\ y.pc = "poolget"
  BY <1>1 DEF Workers
<1> HIDE DEF x, y
<1>3. worker'[me] = x \/ worker'[me] = y
  BY <1>1, FirmAt DEF Step
<1> QED BY <1>1, <1>2, <1>3, OnTidy DEF Pending, Visiting, Deep, Ended

-----------------------------------------------------------------------------
(* The vmnetcfg worker is done.                                            *)

\* An object the step leaves alone.
LEMMA OtherRemembered ==
    ASSUME Firm, Lasts, NEW v \in VMs, Remembered(v), UNCHANGED phase,
           cfg'[v] = cfg[v], cfgWatch'[v] = cfgWatch[v],
           cfgIndexer'[v].rv = cfgIndexer[v].rv, cfgIndexer'[v].exists = cfgIndexer[v].exists,
           Concerned(v) => Concerned(v)',
           Queued(v)' \/ Busy(v)' => Queued(v) \/ Again(v) \/ Busy(v)
    PROVE  Remembered(v)'
<1>1. Again(v) => Busy(v)
  BY DEF Firm, Steady, Rested, Again, Busy
<1>2. Known(v)'
  BY <1>1 DEF Remembered, Known
<1>3. Newest(v)' = Newest(v)
  BY DEF Newest, Latest
<1>4. ASSUME NEW n \in NicsOf(cfg[v].spec), Provided(cfg[v], v, n)
      PROVE  Provided(cfg[v], v, n)'
  <2>1. PICK x : x = cfg[v]
    OBVIOUS
  <2>2. Provided(x, v, n)'
    BY <1>4, <2>1, ProvidedStays DEF NicsOf
  <2> QED BY <2>1, <2>2 DEF Provided
<1> QED BY <1>2, <1>3, <1>4 DEF Remembered, Watched

\* What waits still waits when the worker is done, and what came up meanwhile
\* waits as well.
LEMMA DoneKeeps ==
    ASSUME Firm, worker[me].pc # "idle", Done(me), CfgTidy
    PROVE  /\ \A v \in VMs : Queued(v) \/ Again(v) => Queued(v)'
           /\ Present'
<1>0. PICK q, r : q = queue[me] /\ r = queue'[me]
  OBVIOUS
<1>1. /\ q \in Queues(Event) /\ q.busy \in Event /\ q.busy.action # "delete"
      /\ r = Completed(q) /\ worker'[me].pc = "idle"
  BY <1>0, FirmAt, IdleWithin DEF Done, Step, CfgTidy, Present
<1>2. /\ q.again => \E i \in DOMAIN r.items : r.items[i] = q.busy
      /\ \A i \in DOMAIN r.items :
           r.items[i] = q.busy \/ \E j \in DOMAIN q.items : r.items[i] = q.items[j]
      /\ \A i \in DOMAIN q.items : i \in DOMAIN r.items /\ r.items[i] = q.items[i]
  BY <1>1, CompletedItems
<1>3. ASSUME NEW v \in VMs, Queued(v) \/ Again(v)
      PROVE  Queued(v)'
  <2>1. CASE Queued(v)
    BY <1>0, <1>2, <2>1 DEF Queued
  <2>2. CASE Again(v)
    BY <1>0, <1>2, <2>2 DEF Again, Queued, KeyOf
  <2> QED BY <1>3, <2>1, <2>2
<1>4. Present'
  <2>1. \A i \in DOMAIN q.items : q.items[i].action # "delete"
    BY <1>0 DEF CfgTidy, Present
  <2> QED BY <1>0, <1>1, <1>2, <2>1 DEF Present
<1> QED BY <1>3, <1>4

\* The worker is done with v, and the other objects are as they were.
LEMMA DoneTidy ==
    ASSUME Firm, CfgTidy, Lasts, worker[me].pc # "idle", Done(me), UNCHANGED phase,
           NEW v \in VMs, v = KeyOf(me), Remembered(v)',
           \A u \in VMs \ {v} : /\ cfg'[u] = cfg[u] /\ cfgWatch'[u] = cfgWatch[u]
                                /\ cfgIndexer'[u] = cfgIndexer[u]
    PROVE  CfgTidy'
<1>1. worker'[me].pc = "idle"
  BY FirmAt, IdleWithin DEF Done, Step
<1>2. ASSUME NEW u \in VMs \ {v}
      PROVE  Remembered(u)'
  <2>1. /\ ~Busy(u)' /\ (Queued(u)' => Queued(u) \/ Again(u))
        /\ Queued(u) \/ Again(u) => Queued(u)'
    BY <1>2, DoneWork, DoneKeeps
  <2>2. Concerned(u) => Concerned(u)'
    <3>1. ~Busy(u)
      BY <1>2 DEF Busy
    <3> QED BY <1>2, <2>1, <3>1 DEF Concerned
  <2>3. Remembered(u)
    BY <1>2 DEF CfgTidy
  <2> QED BY <1>2, <2>1, <2>2, <2>3, OtherRemembered
<1>3. Present'
  BY DoneKeeps
<1> QED BY <1>1, <1>2, <1>3 DEF CfgTidy, Deep

\* What is left of v: the object is there, and it is provided for or comes again.
LEMMA DoneKnown ==
    ASSUME Firm, CfgTidy, worker[me].pc # "idle", Done(me), NEW v \in VMs, v = KeyOf(me),
           cfgIndexer'[v].exists = cfgIndexer[v].exists,
           \A i \in DOMAIN cfgWatch'[v] : cfgWatch'[v][i].exists
    PROVE  Known(v)'
<1>1. ~Busy(v)' /\ Busy(v)
  BY DoneWork DEF Busy
<1>2. Known(v)
  BY DEF CfgTidy, Remembered
<1> QED BY <1>1, <1>2 DEF Known

\* A write to v makes the last event the newest object.
LEMMA WrittenNewest ==
    ASSUME Firm, Watched, NEW v \in VMs, NEW obj, WriteCfg(v, obj), Known(v), Newest(v),
           Changed(v, obj).exists, cfgIndexer'[v].rv = cfgIndexer[v].rv
    PROVE  Newest(v)' /\ \A i \in DOMAIN cfgWatch'[v] : cfgWatch'[v][i].exists
<1>0. PICK new, s, t : new = Changed(v, obj) /\ s = cfgWatch[v] /\ t = cfgWatch'[v]
  OBVIOUS
<1>1. s \in Seq(CfgObjects) /\ cfg'[v] = new /\ cfgWatch \in [VMs -> Seq(CfgObjects)]
  BY <1>0, FirmAt, WriteOther DEF Firm, Base, Growth, Typed, TypeOK
<1>2. CASE new = cfg[v]
  <2>1. cfgWatch'[v] = cfgWatch[v]
    BY <1>0, <1>2 DEF WriteCfg
  <2> QED BY <1>1, <1>2, <2>1 DEF Newest, Latest, Known
<1>3. CASE new # cfg[v]
  <2>1. t = Append(s, new)
    BY <1>0, <1>1, <1>3 DEF WriteCfg
  <2>2. /\ Len(s) \in Nat /\ DOMAIN s = 1..Len(s)
        /\ DOMAIN t = 1..(Len(s) + 1) /\ Len(t) = Len(s) + 1 /\ t # <<>>
        /\ \A i \in 1..Len(s) : t[i] = s[i]
        /\ t[Len(s) + 1] = new
    BY <1>1, <2>1, LenProperties
  <2>3. (Latest(v).rv = cfg[v].rv)'
    BY <1>0, <1>1, <2>2 DEF Latest
  <2>4. ASSUME NEW i \in DOMAIN t
        PROVE  t[i].exists
    <3>1. i \in 1..Len(s) \/ i = Len(s) + 1
      BY <2>2
    <3> QED BY <1>0, <2>2, <3>1 DEF Known
  <2> QED BY <1>0, <2>3, <2>4 DEF Newest
<1> QED BY <1>2, <1>3

\* A write that conflicts was computed from an old copy, and the worker is
\* going to handle a newer one.
LEMMA ConflictConcerned ==
    ASSUME Firm, CfgTidy, Deep(worker[me]), ~Ended(worker[me]), NEW v, v = KeyOf(me),
           ~Current(v, worker[me].obj)
    PROVE  cfgWatch[v] # <<>> \/ Queued(v) \/ Again(v)
<1>1. v \in VMs /\ cfg[v].exists /\ Watched /\ Diligent(worker[me], v)
  BY MeObject, FirmAt DEF CfgTidy, Deep
<1>2. worker[me].obj.rv # cfg[v].rv
  BY <1>1 DEF Current
<1>3. Newest(v)
  BY <1>1 DEF CfgTidy, Remembered
<1> QED BY <1>1, <1>2, <1>3 DEF Diligent, Newest, Latest

\* The handler that fails leaves v to the next one.
LEMMA ConflictTidy ==
    ASSUME Firm, CfgTidy, Lasts, Deep(worker[me]), ~Ended(worker[me]), Done(me),
           ~Current(KeyOf(me), worker[me].obj), UNCHANGED <<cfg, cfgWatch, phase>>,
           \A v \in VMs : /\ cfgIndexer'[v].rv = cfgIndexer[v].rv
                          /\ cfgIndexer'[v].exists = cfgIndexer[v].exists
                          /\ v # KeyOf(me) => cfgIndexer'[v] = cfgIndexer[v]
    PROVE  CfgTidy'
<1>0. PICK v : v = KeyOf(me)
  OBVIOUS
<1>1. v \in VMs /\ worker[me].pc # "idle" /\ Remembered(v)
  BY <1>0, FirmAt DEF Deep, CfgTidy
<1>2. Known(v)'
  BY <1>0, <1>1, DoneKnown DEF Remembered, Known
<1>3. Concerned(v)'
  BY <1>0, <1>1, ConflictConcerned, DoneKeeps DEF Concerned
<1>4. Newest(v)' = Newest(v)
  BY <1>1 DEF Newest, Latest
<1>5. Remembered(v)'
  BY <1>1, <1>2, <1>3, <1>4 DEF Remembered, Watched
<1> QED BY <1>0, <1>1, <1>5, DoneTidy

LEMMA NicsDoneTidy ==
    ASSUME Firm, CfgTidy, Lasts, NicsDone
    PROVE  CfgTidy'
<1>0. PICK w, v : w = worker[me] /\ v = KeyOf(me)
  OBVIOUS
<1> DEFINE x == [w EXCEPT !.pc = "update"]
           y == [w EXCEPT !.pc = "ustatus"]
<1>1. /\ w \in Workers /\ w.pc = "nic" /\ w.todo = {} /\ v \in VMs
      /\ UNCHANGED <<cfg, cfgWatch, cfgIndexer, phase>>
      /\ \/ w.change /\ Step(me, x) /\ UNCHANGED queue
         \/ ~w.change /\ Step(me, y) /\ UNCHANGED queue
         \/ ~w.change /\ w.status = EmptyStatus /\ Done(me)
  BY <1>0, FirmAt DEF NicsDone, Return, api, events
<1>2. /\ x.obj = w.obj /\ x.spec = w.spec /\ x.todo = w.todo /\ x.status = w.status
      /\ x.pc = "update"
      /\ y.obj = w.obj /\ y.spec = w.spec /\ y.todo = w.todo /\ y.status = w.status
      /\ y.pc = "ustatus" /\ y.change = w.change
  BY <1>1 DEF Workers
<1> HIDE DEF x, y
<1>3. Deep(w) /\ ~Ended(w) /\ \A n \in Nics : ~Pending(w, n)
  BY <1>1 DEF Deep, Ended, Pending, Visiting
<1>4. CASE UNCHANGED queue /\ ((w.change /\ Step(me, x)) \/ (~w.change /\ Step(me, y)))
  <2>1. worker'[me] = x \/ (~w.change /\ worker'[me] = y)
    BY <1>4, FirmAt DEF Step
  <2> QED BY <1>0, <1>1, <1>2, <1>3, <1>4, <2>1, OnTidy DEF Pending, Visiting, Deep, Ended
<1>5. CASE ~w.change /\ w.status = EmptyStatus /\ Done(me)
  <2>1. Meant(w, v) /\ Diligent(w, v) /\ Remembered(v)
    BY <1>0, <1>1, <1>3 DEF Firm, Steady, CfgTidy
  <2>2. ASSUME NEW n \in NicsOf(cfg[v].spec)
        PROVE  Provided(cfg[v], v, n)'
    <3>1. n \in Nics /\ w.obj.spec = cfg[v].spec /\ n \in NicsOf(w.obj.spec)
      BY <2>1 DEF Meant, NicsOf
    <3>2. w.spec[n] = cfg[v].spec[n]
      BY <1>5, <2>1, <3>1 DEF Meant
    <3>3. Provided(w, v, n) /\ w.status[n] # "ERROR"
      BY <1>3, <1>5, <2>1, <3>1 DEF Diligent, EmptyStatus
    <3>4. Provided(w, v, n)'
      BY <1>1, <3>1, <3>3, ProvidedStays
    <3>5. cfg'[v] = cfg[v]
      BY <1>1
    <3>6. w.spec[n] \in IPs /\ leases'[MacOf(n)] = LeaseOf(v, n, w.spec[n])
      BY <3>3, <3>4 DEF Provided
    <3> QED BY <3>2, <3>5, <3>6 DEF Provided
  <2>3. Known(v)'
    BY <1>0, <1>1, <1>5, <2>1, DoneKnown DEF Remembered, Known
  <2>4. Newest(v)' = Newest(v)
    BY <1>1 DEF Newest, Latest
  <2>5. Remembered(v)'
    BY <1>1, <2>1, <2>2, <2>3, <2>4 DEF Remembered, Watched
  <2> QED BY <1>0, <1>1, <1>5, <2>5, DoneTidy
<1> QED BY <1>1, <1>4, <1>5

\* The addresses are recorded, and the handler goes on with the object it wrote.
LEMMA UpdateSpecTidy ==
    ASSUME Firm, CfgTidy, Lasts, UpdateSpec
    PROVE  CfgTidy'
<1>0. PICK w, v, c : /\ w = worker[me] /\ v = KeyOf(me)
                      /\ c = Changed(v, [cfg[v] EXCEPT !.spec = w.spec])
  OBVIOUS
<1> DEFINE new == [cfg[v] EXCEPT !.spec = w.spec]
           x   == [w EXCEPT !.pc = "ustatus", !.obj = c]
<1>1. /\ w \in Workers /\ w.pc = "update" /\ v \in VMs /\ Watched
      /\ UNCHANGED <<cfgIndexer, phase>> /\ cfg[v] \in CfgObjects /\ w.spec \in Specs
      /\ \/ Current(v, w.obj) /\ WriteCfg(v, new) /\ worker'[me] = x /\ UNCHANGED queue
         \/ ~Current(v, w.obj) /\ Done(me) /\ UNCHANGED <<cfg, cfgWatch>>
  BY <1>0, FirmAt DEF UpdateSpec, Return, Step, Workers
<1>2. Deep(w) /\ ~Ended(w) /\ Remembered(v) /\ Diligent(w, v) /\ Meant(w, v)
  BY <1>0, <1>1 DEF Deep, Ended, CfgTidy, Firm, Steady
<1>3. CASE ~Current(v, w.obj) /\ Done(me) /\ UNCHANGED <<cfg, cfgWatch>>
  BY <1>0, <1>1, <1>2, <1>3, ConflictTidy
<1>4. CASE Current(v, w.obj) /\ WriteCfg(v, new) /\ worker'[me] = x /\ UNCHANGED queue
  <2>1. /\ x.pc = "ustatus" /\ x.obj = c /\ x.spec = w.spec /\ x.todo = w.todo
        /\ x.change = w.change /\ x.status = w.status
    BY <1>1 DEF Workers
  <2>2. c.spec = w.spec /\ c.exists = cfg[v].exists /\ c = Changed(v, new)
    BY <1>0, <1>1 DEF CfgObjects, Changed
  <2> HIDE DEF x
  <2>3. /\ cfg[v].exists /\ w.change /\ w.todo = {} /\ Deep(x) /\ Ended(x)
    BY <1>1, <1>2, <1>4, <2>1 DEF Meant, Deep, Ended, Current
  <2>4. \A n \in Nics : ~Pending(w, n)
    BY <1>1, <2>3 DEF Pending, Visiting
  <2>5. /\ \A u \in VMs \ {v} : cfg'[u] = cfg[u] /\ cfgWatch'[u] = cfgWatch[u]
        /\ cfg'[v] = c
    BY <1>1, <1>4, <2>2, WriteOther
  <2>6. KeyOf(me)' = v /\ Busy(v)'
    BY <1>0, <1>4, <2>1 DEF KeyOf, Busy
  <2>7. ASSUME NEW u \in VMs \ {v}
        PROVE  Remembered(u)'
    <3>1. Queued(u)' = Queued(u) /\ Again(u)' = Again(u)
      BY <1>4 DEF Queued, Again, KeyOf
    <3>2. ~Busy(u) /\ ~Busy(u)'
      BY <1>0, <2>6, <2>7 DEF Busy
    <3>3. Concerned(u) => Concerned(u)'
      BY <2>5, <2>7, <3>1, <3>2 DEF Concerned
    <3>4. Remembered(u)
      BY <2>7 DEF CfgTidy
    <3> QED BY <1>1, <2>5, <2>7, <3>1, <3>2, <3>3, <3>4, OtherRemembered
  <2>8. Remembered(v)'
    <3>1. Known(v) /\ Newest(v) /\ Busy(v)
      BY <1>0, <1>1, <1>2 DEF Remembered, Busy
    <3>2. Newest(v)' /\ \A i \in DOMAIN cfgWatch'[v] : cfgWatch'[v][i].exists
      BY <1>1, <1>4, <2>2, <2>3, <3>1, WrittenNewest
    <3>3. Known(v)'
      BY <1>1, <3>1, <3>2 DEF Known
    <3> QED BY <2>6, <3>2, <3>3 DEF Remembered, Concerned
  <2>9. Present'
    BY <1>0, <1>1, <1>4 DEF CfgTidy, Present
  <2>10. Diligent(x, v)'
    <3>1. x.obj.rv = cfg'[v].rv
      BY <2>1, <2>5
    <3>2. ASSUME NEW n \in NicsOf(x.obj.spec)
          PROVE  Provided(x, v, n)'
      <4>1. n \in Nics /\ n \in NicsOf(w.obj.spec)
        <5>1. NicsOf(w.spec) = NicsOf(cfg[v].spec)
          BY <1>0, <1>2, MeantList
        <5> QED BY <1>2, <2>1, <2>2, <3>2, <5>1 DEF Meant, NicsOf
      <4>2. Provided(w, v, n)
        BY <1>2, <2>4, <4>1 DEF Diligent
      <4>3. Provided(w, v, n)'
        BY <1>1, <4>1, <4>2, ProvidedStays
      <4> QED BY <2>1, <4>3 DEF Provided
    <3> QED BY <2>3, <3>1, <3>2 DEF Diligent
  <2>11. (Deep(worker[me]) => Diligent(worker[me], KeyOf(me)))'
    BY <1>4, <2>6, <2>10 DEF Diligent, Provided, Pending
  <2> QED BY <2>7, <2>8, <2>9, <2>11 DEF CfgTidy
<1> QED BY <1>1, <1>3, <1>4

\* The handler ends with the status: of the object it has recorded, or of the
\* one it has read when nothing was to be recorded.
LEMMA UpdateStatusTidy ==
    ASSUME Firm, CfgTidy, Lasts, UpdateStatus
    PROVE  CfgTidy'
<1>0. PICK w, v, obj : /\ w = worker[me] /\ v = KeyOf(me)
                        /\ obj = [cfg[v] EXCEPT !.status = w.status]
  OBVIOUS
<1>1. /\ w \in Workers /\ w.pc = "ustatus" /\ v \in VMs /\ Watched /\ UNCHANGED phase
      /\ cfg[v] \in CfgObjects /\ Done(me) /\ cfgIndexer' = Overwritten
      /\ \/ Current(v, w.obj) /\ WriteCfg(v, obj)
         \/ ~Current(v, w.obj) /\ UNCHANGED <<cfg, cfgWatch>>
  BY <1>0, FirmAt DEF UpdateStatus, Return
<1>2. Deep(w) /\ Remembered(v) /\ Diligent(w, v) /\ Meant(w, v)
  BY <1>0, <1>1 DEF Deep, CfgTidy, Firm, Steady
<1>3. \A u \in VMs : /\ cfgIndexer'[u].rv = cfgIndexer[u].rv
                     /\ cfgIndexer'[u].exists = cfgIndexer[u].exists
                     /\ u # v => cfgIndexer'[u] = cfgIndexer[u]
  BY <1>0, <1>1, OverwrittenStatus DEF Firm, Base, Growth
<1>4. cfg[v].exists
  BY <1>0, <1>1 DEF Firm, Steady, Settled, Nothing, Untold, Busy
<1>5. CASE ~Current(v, w.obj) /\ UNCHANGED <<cfg, cfgWatch>>
  <2>1. ~Ended(w)
    BY <1>2, <1>4, <1>5 DEF Diligent, Current
  <2> QED BY <1>0, <1>1, <1>2, <1>3, <1>5, <2>1, ConflictTidy
<1>6. CASE Current(v, w.obj) /\ WriteCfg(v, obj)
  <2>1. /\ obj.spec = cfg[v].spec /\ obj.status = w.status /\ obj.exists
        /\ Changed(v, obj).spec = cfg[v].spec /\ Changed(v, obj).status = w.status
        /\ Changed(v, obj).exists
    BY <1>0, <1>1, <1>4 DEF CfgObjects, Changed
  <2>2. /\ \A u \in VMs \ {v} : cfg'[u] = cfg[u] /\ cfgWatch'[u] = cfgWatch[u]
        /\ cfg'[v].spec = cfg[v].spec /\ cfg'[v].status = w.status
    BY <1>1, <1>6, <2>1, WriteOther
  <2>3. Newest(v)' /\ \A i \in DOMAIN cfgWatch'[v] : cfgWatch'[v][i].exists
    BY <1>1, <1>2, <1>3, <1>6, <2>1, WrittenNewest DEF Remembered
  <2>4. Known(v)'
    BY <1>0, <1>1, <1>3, <2>3, DoneKnown
  <2>5. ASSUME NEW n \in NicsOf(cfg'[v].spec)
        PROVE  Provided(cfg[v], v, n)'
    <3>1. n \in Nics /\ w.obj.spec = cfg[v].spec /\ n \in NicsOf(w.obj.spec)
          /\ w.spec[n] = cfg'[v].spec[n] /\ ~Pending(w, n)
      BY <1>1, <1>2, <2>2 DEF Meant, NicsOf, Pending, Visiting
    <3>2. Provided(w, v, n)
      BY <1>2, <3>1 DEF Diligent
    <3>3. Provided(w, v, n)'
      BY <1>1, <3>1, <3>2, ProvidedStays
    <3> QED BY <2>2, <3>1, <3>3 DEF Provided
  <2>6. Remembered(v)'
    BY <2>3, <2>4, <2>5 DEF Remembered
  <2> QED BY <1>0, <1>1, <1>3, <2>2, <2>6, DoneTidy
<1> QED BY <1>1, <1>5, <1>6

\* The object is there, and it is the informer's.
LEMMA SyncCfgTidy ==
    ASSUME Firm, CfgTidy, Lasts, SyncCfg
    PROVE  CfgTidy'
<1>0. PICK v, obj : v = KeyOf(me) /\ obj = cfgIndexer[v]
  OBVIOUS
<1> DEFINE w == [IdleWorker EXCEPT !.pc = IF obj.del THEN "clean" ELSE "nic",
                   !.obj = obj, !.todo = NicsOf(obj.spec), !.spec = obj.spec]
<1>1. /\ UNCHANGED <<cfg, cfgWatch, cfgIndexer, phase>> /\ worker[me].pc = "sync" /\ v \in VMs
      /\ queue[me].busy.action = "delete" \/ ~obj.exists \/ (Step(me, w) /\ UNCHANGED queue)
  BY <1>0, FirmAt DEF SyncCfg, api, events, boot, KeyOf
<1>2. queue[me].busy.action # "delete" /\ obj.exists
  BY <1>0, <1>1 DEF CfgTidy, Present, Remembered, Known, Busy
<1>3. /\ w.pc \in {"clean", "nic"} /\ w.obj = obj /\ w.todo = NicsOf(obj.spec)
  BY DEF IdleWorker
<1> HIDE DEF w
<1>4. worker'[me] = w /\ KeyOf(me)' = v /\ cfgIndexer'[v] = obj /\ UNCHANGED queue
  BY <1>0, <1>1, <1>2, FirmAt DEF Step, KeyOf
<1>5. Deep(w) /\ ~Ended(w) /\ \A n \in NicsOf(obj.spec) : Pending(w, n)
  BY <1>3 DEF Deep, Ended, Pending
<1>6. Diligent(w, v)'
  BY <1>3, <1>4, <1>5 DEF Diligent
<1>7. (Deep(worker[me]) => Diligent(worker[me], KeyOf(me)))'
  BY <1>4, <1>6 DEF Diligent, Provided
<1>8. worker'[me].pc # "idle"
  BY <1>3, <1>4
<1> QED BY <1>1, <1>4, <1>7, <1>8, GoesOnTidy

\* The item is taken, and its object handled.
LEMMA TakeItemTidy ==
    ASSUME Firm, CfgTidy, Lasts, TakeItem(me)
    PROVE  CfgTidy'
<1> DEFINE q == queue[me]
           r == queue'[me]
<1>1. /\ q.items \in Seq(Event) /\ q.items # <<>> /\ worker[me].pc = "idle" /\ ~q.again
      /\ r.items = Tail(q.items) /\ r.busy = Head(q.items) /\ ~r.again
      /\ UNCHANGED <<cfg, cfgWatch, cfgIndexer, phase>>
  BY FirmAt DEF TakeItem, Taken, Queues, api, events, boot, Firm, Steady, Rested
<1>2. worker'[me].pc = "sync"
  BY FirmAt DEF TakeItem, Step, IdleWorker
<1>3. /\ r.busy = q.items[1] /\ 1 \in DOMAIN q.items
      /\ \A i \in DOMAIN r.items : i + 1 \in DOMAIN q.items /\ r.items[i] = q.items[i + 1]
      /\ \A i \in DOMAIN q.items : i = 1 \/ (i - 1 \in DOMAIN r.items /\ q.items[i] = r.items[i - 1])
  <2>1. q \in Queues(Event) /\ r = Taken(q)
    BY FirmAt DEF TakeItem
  <2> QED BY <1>1, <2>1, TakenItems
<1>4. ASSUME NEW v \in VMs
      PROVE  Remembered(v)'
  <2>1. Queued(v)' \/ Busy(v)' => Queued(v)
    <3>1. Queued(v)' => Queued(v)
      BY <1>3 DEF Queued
    <3>2. Busy(v)' => Queued(v)
      BY <1>3 DEF Busy, Queued, KeyOf
    <3> QED BY <3>1, <3>2
  <2>2. Queued(v) => Queued(v)' \/ Busy(v)'
    <3>1. ASSUME NEW i \in DOMAIN q.items, q.items[i].key = v
          PROVE  Queued(v)' \/ Busy(v)'
      <4>1. CASE i = 1
        BY <1>2, <1>3, <3>1, <4>1 DEF Busy, KeyOf
      <4>2. CASE i - 1 \in DOMAIN r.items /\ q.items[i] = r.items[i - 1]
        BY <3>1, <4>2 DEF Queued
      <4> QED BY <1>3, <3>1, <4>1, <4>2
    <3> QED BY <3>1 DEF Queued
  <2>3. ~Again(v) /\ ~Busy(v)
    BY <1>1 DEF Again, Busy
  <2>4. Concerned(v) => Concerned(v)'
    BY <1>1, <2>2, <2>3 DEF Concerned
  <2>5. Remembered(v)
    BY DEF CfgTidy
  <2> QED BY <1>1, <2>1, <2>4, <2>5, OtherRemembered
<1>5. Present'
  <2>1. \A i \in DOMAIN q.items : q.items[i].action # "delete"
    BY DEF CfgTidy, Present
  <2>2. \A i \in DOMAIN r.items : r.items[i].action # "delete"
    BY <1>3, <2>1
  <2>3. r.busy.action # "delete"
    BY <1>3, <2>1
  <2> QED BY <2>2, <2>3 DEF Present
<1> QED BY <1>2, <1>4, <1>5 DEF CfgTidy, Deep

\* Every pool is in the cache while the helper runs.
Cached == phase # "down" => \A net \in Configured : cache[net].on

\* The pools of all interfaces are there.
LEMMA PoolThere ==
    ASSUME Firm, Pooled, Cached
    PROVE  ~NoPool
<1> SUFFICES ASSUME NoPool
             PROVE  FALSE
  OBVIOUS
<1>1. PICK n \in worker[me].todo : ~cache[NetOf(n)].on
  BY DEF NoPool
<1>2. worker[me].pc # "idle" /\ phase # "down" /\ KeyOf(me) \in VMs
  BY FirmAt DEF NoPool
<1>3. n \in UNION Shapes[KeyOf(me)]
  BY <1>1, <1>2, MeInside, BoundShapes DEF Within, Firm, Base
<1> QED BY <1>1, <1>2, <1>3 DEF Pooled, Cached

LEMMA CfgWorkerLasts ==
    ASSUME OneNetwork, FixedShapes, Firm, budget'["edit"] = 0, CfgWorker
    PROVE  Lasts
<1>1. Fixed' /\ ~ReleaseIP(me) /\ ~Cleanup(me) /\ ~CleanupDone /\ ~RemoveFinalizer
  BY CfgWorkerFixed, CfgWorkerSteady, FirmAt DEF CleanupDone, RemoveFinalizer
<1>2. /\ CheckHeld => UNCHANGED leases
      /\ RegisterLease => /\ ~CheckLease(MacOf(worker[me].nic))
                          /\ \A m \in MACs \ {MacOf(worker[me].nic)} : leases'[m] = leases[m]
  BY <1>1, CheckHeldSteady, RegisterLeaseSteady
<1>3. CASE RegisterLease
  BY <1>2, <1>3 DEF Lasts
<1>4. CASE ~RegisterLease
  <2>1. UNCHANGED leases
    BY <1>1, <1>2, <1>4
    DEF CfgWorker, TakeItem, SyncCfg, CheckNic, NoPool, CheckOwner, GetIP, NicsDone,
        UpdateSpec, UpdateStatus, UpdateIPPoolStatusGet, UpdateIPPoolStatusPut, memory
  <2> QED BY <2>1 DEF Lasts
<1> QED BY <1>3, <1>4

LEMMA CfgWorkerTidy ==
    ASSUME OwnMacs, FixedShapes, OneNetwork, Pooled, Firm, budget'["edit"] = 0, Cached, CfgTidy,
           CfgWorker
    PROVE  CfgTidy'
<1>1. Fixed' /\ ~ReleaseIP(me) /\ ~Cleanup(me) /\ ~CleanupDone /\ ~RemoveFinalizer
  BY CfgWorkerFixed, CfgWorkerSteady, FirmAt DEF CleanupDone, RemoveFinalizer
<1>2. Lasts /\ (CheckHeld => UNCHANGED leases)
  BY <1>1, CfgWorkerLasts, CheckHeldSteady
<1> QED BY <1>1, <1>2, PoolThere, TakeItemTidy, SyncCfgTidy, CheckNicTidy, CheckOwnerTidy,
           CheckHeldTidy, GetIPTidy, RegisterLeaseTidy, NicsDoneTidy, UpdateSpecTidy,
           UpdateStatusTidy, PoolGetTidy, PoolPutTidy
       DEF CfgWorker

-----------------------------------------------------------------------------
(* The others leave the vmnetcfg worker what it has to do, or add to it.   *)

LEMMA AsideTidy ==
    ASSUME CfgTidy, UNCHANGED <<queue[me], worker[me], cfg, cfgWatch, cfgIndexer, leases>>,
           Watched' = Watched
    PROVE  CfgTidy'
<1>1. \A v \in VMs : /\ Queued(v)' = Queued(v) /\ Again(v)' = Again(v) /\ Busy(v)' = Busy(v)
                     /\ KeyOf(me)' = KeyOf(me)
  BY DEF Queued, Again, Busy, KeyOf
<1>2. ASSUME NEW v \in VMs
      PROVE  Remembered(v)'
  <2>1. Concerned(v)' = Concerned(v) /\ Newest(v)' = Newest(v) /\ Known(v)' = Known(v)
    BY <1>1 DEF Concerned, Newest, Latest, Known
  <2> QED BY <2>1 DEF CfgTidy, Remembered, Provided
<1>3. Present'
  BY DEF CfgTidy, Present
<1>4. (Deep(worker[me]) => Diligent(worker[me], KeyOf(me)))'
  <2>1. \A v \in VMs : Queued(v)' \/ Again(v)' <=> Queued(v) \/ Again(v)
    BY <1>1
  <2>2. KeyOf(me)' = KeyOf(me)
    BY DEF KeyOf
  <2>3. (Queued(KeyOf(me)) \/ Again(KeyOf(me)))' <=> Queued(KeyOf(me)) \/ Again(KeyOf(me))
    BY DEF Queued, Again, KeyOf
  <2> QED BY <2>2, <2>3 DEF CfgTidy, Diligent, Provided
<1> QED BY <1>2, <1>3, <1>4 DEF CfgTidy

\* A vmnetcfg is created, and its event is on its way.
LEMMA CreateCfgTidy ==
    ASSUME Firm, CfgTidy, CreateCfg
    PROVE  CfgTidy'
<1>0. PICK w, v, obj : /\ w = worker[self] /\ v = KeyOf(self)
                       /\ obj = [cfg[v] EXCEPT !.exists = TRUE, !.spec = w.spec,
                                               !.fin = TRUE, !.ctime = clock]
  OBVIOUS
<1>1. /\ v \in VMs /\ phase = "running" /\ Watched
      /\ UNCHANGED <<cfgIndexer, leases, phase>> /\ Done(self) /\ cfg[v] \in CfgObjects
      /\ UNCHANGED <<cfg, cfgWatch>> \/ (~cfg[v].exists /\ WriteCfg(v, obj))
  BY <1>0, FirmAt, SelfInside DEF CreateCfg, Return, memory, Firm, Base, Watched
<1>2. UNCHANGED <<queue[me], worker[me]>> /\ Watched' = Watched
  BY <1>1, FirmAt DEF Done, Step, Watched
<1>3. CASE UNCHANGED <<cfg, cfgWatch>>
  BY <1>1, <1>2, <1>3, AsideTidy
<1>4. CASE ~cfg[v].exists /\ WriteCfg(v, obj)
  <2>1. obj.exists /\ obj # cfg[v] /\ Changed(v, obj).exists /\ Changed(v, obj) # cfg[v]
    BY <1>0, <1>1, <1>4 DEF CfgObjects, Changed
  <2>2. /\ \A u \in VMs \ {v} : cfg'[u] = cfg[u] /\ cfgWatch'[u] = cfgWatch[u]
        /\ cfgWatch'[v] = Append(cfgWatch[v], Changed(v, obj))
    BY <1>1, <1>4, <2>1, WriteOther
  <2>3. \A u \in VMs : /\ Queued(u)' = Queued(u) /\ Again(u)' = Again(u) /\ Busy(u)' = Busy(u)
                       /\ Busy(u) => u = KeyOf(me)
    BY <1>2 DEF Queued, Again, Busy, KeyOf
  <2>4. ~Busy(v)
    BY <1>1, <1>4 DEF Firm, Steady, Settled, Nothing, Untold
  <2>5. Lasts
    BY <1>1 DEF Lasts
  <2>6. ASSUME NEW u \in VMs \ {v}
        PROVE  Remembered(u)'
    <3>1. (Concerned(u) => Concerned(u)') /\ Remembered(u)
      BY <2>2, <2>3, <2>6 DEF Concerned, CfgTidy
    <3>2. Queued(u)' \/ Busy(u)' => Queued(u) \/ Again(u) \/ Busy(u)
      BY <2>3
    <3> QED BY <1>1, <2>2, <2>5, <2>6, <3>1, <3>2, OtherRemembered
  <2>7. Remembered(v)'
    <3>1. Remembered(v)
      BY <1>1 DEF CfgTidy
    <3>2. Newest(v)' /\ \A i \in DOMAIN cfgWatch'[v] : cfgWatch'[v][i].exists
      BY <1>1, <1>4, <2>1, <3>1, WrittenNewest DEF Remembered
    <3>3. cfgWatch'[v] # <<>>
      BY <1>1, <2>2, FirmAt
    <3>4. Known(v)'
      BY <1>1, <2>3, <3>1, <3>2 DEF Remembered, Known
    <3> QED BY <3>2, <3>3, <3>4 DEF Remembered, Concerned
  <2>8. Present'
    BY <1>2 DEF CfgTidy, Present
  <2>9. (Deep(worker[me]) => Diligent(worker[me], KeyOf(me)))'
    <3>1. PICK k : k = KeyOf(me)
      OBVIOUS
    <3>2. KeyOf(me)' = k /\ (Queued(k) <=> Queued(k)') /\ (Again(k) <=> Again(k)')
      BY <1>2, <3>1 DEF KeyOf, Queued, Again
    <3>3. ASSUME Deep(worker[me])
          PROVE  Diligent(worker[me], k)'
      <4>1. k \in VMs \ {v}
        BY <2>4, <3>1, <3>3, FirmAt DEF Deep, Busy
      <4>2. cfg'[k] = cfg[k] /\ Diligent(worker[me], k)
        BY <2>2, <3>1, <3>3, <4>1 DEF CfgTidy
      <4> QED BY <1>1, <1>2, <3>2, <4>2 DEF Diligent, Provided
    <3> QED BY <1>2, <3>2, <3>3 DEF Diligent, Provided, Deep
  <2> QED BY <2>6, <2>7, <2>8, <2>9 DEF CfgTidy
<1> QED BY <1>1, <1>3, <1>4

LEMMA VmWorkerTidy ==
    ASSUME FixedShapes, Firm, budget'["edit"] = 0, CfgTidy, VmWorker
    PROVE  CfgTidy'
<1>1. UNCHANGED <<leases, ipam>>
  BY VmWorkerSteady
<1>2. CASE TakeItem(self) \/ SyncVm \/ CheckMacs \/ CheckRefs
  <2>1. UNCHANGED <<cfg, cfgWatch, cfgIndexer>> /\ Watched' = Watched
    BY <1>2 DEF TakeItem, SyncVm, CheckMacs, CheckRefs, api, events, boot, Watched
  <2>2. UNCHANGED <<queue[me], worker[me]>>
    BY <1>2, FirmAt DEF TakeItem, SyncVm, CheckMacs, CheckRefs, Step, Done, Return
  <2> QED BY <1>1, <2>1, <2>2, AsideTidy
<1> QED BY <1>2, CreateCfgTidy, SelfNever DEF VmWorker

\* The event is queued, and the rest of what is on its way follows.
LEMMA DeliverCfgTidy ==
    ASSUME Firm, CfgTidy, NEW v \in VMs, DeliverCfg(v)
    PROVE  CfgTidy'
<1>0. PICK s, e, q, r : /\ s = cfgWatch[v] /\ q = queue[me] /\ r = queue'[me]
                        /\ e = [key |-> v, action |-> ActionOf(cfgIndexer[v], Head(s))]
  OBVIOUS
<1>1. /\ UNCHANGED <<cfg, worker, leases, phase>>
      /\ cfgWatch' = [cfgWatch EXCEPT ![v] = Tail(s)]
      /\ cfgIndexer' = [cfgIndexer EXCEPT ![v] = Head(s)]
      /\ queue' = [queue EXCEPT ![me] = Enqueued(@, e)]
      /\ s # <<>> /\ s \in Seq(CfgObjects) /\ e \in Event /\ e.key = v
  BY <1>0, FirmAt, TwoWorkers DEF DeliverCfg, api, memory, boot, Event, Actions, ActionOf
<1>2. /\ \A u \in VMs \ {v} : cfgWatch'[u] = cfgWatch[u] /\ cfgIndexer'[u] = cfgIndexer[u]
      /\ cfgWatch'[v] = Tail(s) /\ cfgIndexer'[v] = s[1] /\ 1 \in DOMAIN s
      /\ \A i \in DOMAIN Tail(s) : i + 1 \in DOMAIN s /\ Tail(s)[i] = s[i + 1]
  <2>1. /\ Head(s) = s[1] /\ 1 \in DOMAIN s
        /\ \A i \in DOMAIN Tail(s) : i + 1 \in DOMAIN s /\ Tail(s)[i] = s[i + 1]
    BY <1>1, FirstAndRest
  <2> QED BY <1>1, <2>1 DEF Firm, Base, Growth, Typed, TypeOK
<1>3. \A i \in DOMAIN s : s[i].exists
  BY <1>0 DEF CfgTidy, Remembered, Known
<1>4. e.action # "delete"
  BY <1>0, <1>1, <1>2, <1>3, FirstAndRest DEF ActionOf
<1>5. /\ KeyOf(me)' = KeyOf(me)
      /\ \A u \in VMs : Busy(u)' = Busy(u)
      /\ \A u \in VMs \ {v} : Queued(u)' = Queued(u) /\ Again(u)' = Again(u)
  BY <1>1, AddedWork
<1>6. r = Enqueued(q, e) /\ q \in Queues(Event)
  BY <1>0, <1>1, FirmAt
<1>7. Queued(v)' \/ Again(v)'
  <2>1. \/ \E i \in DOMAIN r.items : r.items[i] = e
        \/ r.again /\ q.busy = e /\ r.busy = q.busy
    BY <1>1, <1>6, EnqueuedItems
  <2>2. CASE \E i \in DOMAIN r.items : r.items[i] = e
    BY <1>0, <1>1, <2>2 DEF Queued
  <2>3. CASE r.again /\ q.busy = e /\ r.busy = q.busy
    BY <1>0, <1>1, <2>3 DEF Again, KeyOf
  <2> QED BY <2>1, <2>2, <2>3
<1>8. Lasts
  BY <1>1 DEF Lasts
<1>9. ASSUME NEW u \in VMs \ {v}
      PROVE  Remembered(u)'
  <2>1. Concerned(u)' = Concerned(u) /\ Remembered(u)
    BY <1>2, <1>5, <1>9 DEF Concerned, CfgTidy
  <2> QED BY <1>1, <1>2, <1>5, <1>8, <1>9, <2>1, OtherRemembered
<1>10. Remembered(v)'
  <2>1. Known(v)'
    BY <1>2, <1>3 DEF Known
  <2>2. Latest(v)' = Latest(v)
    <3>1. Latest(v) = s[Len(s)]
      BY <1>0, <1>1 DEF Latest
    <3>2. Len(s) \in Nat \ {0} /\ Tail(s) \in Seq(CfgObjects) /\ Len(Tail(s)) = Len(s) - 1
      BY <1>1, HeadTailProperties, LenProperties, EmptySeq
    <3>3. CASE Tail(s) = <<>>
      <4>1. Len(Tail(s)) = 0
        BY <3>3, EmptySeq
      <4>2. Len(s) = 1
        BY <3>2, <4>1
      <4> QED BY <1>2, <3>1, <3>3, <4>2 DEF Latest
    <3>4. CASE Tail(s) # <<>>
      <4>1. Len(Tail(s)) \in DOMAIN Tail(s)
        BY <3>2, <3>4, LenProperties, EmptySeq
      <4>2. Tail(s)[Len(Tail(s))] = s[Len(Tail(s)) + 1]
        BY <1>2, <4>1
      <4>3. Len(Tail(s)) + 1 = Len(s)
        BY <3>2
      <4> QED BY <1>2, <3>1, <3>4, <4>2, <4>3 DEF Latest
    <3> QED BY <3>3, <3>4
  <2>3. Remembered(v)
    BY DEF CfgTidy
  <2> QED BY <1>1, <1>7, <2>1, <2>2, <2>3 DEF Remembered, Newest, Concerned, Watched
<1>11. Present'
  <2>1. \A i \in DOMAIN q.items : q.items[i].action # "delete"
    BY <1>0 DEF CfgTidy, Present
  <2>2. \A i \in DOMAIN r.items : r.items[i] = e \/ \E j \in DOMAIN q.items : r.items[i] = q.items[j]
    BY <1>1, <1>6, EnqueuedItems
  <2>3. \A i \in DOMAIN r.items : r.items[i].action # "delete"
    BY <1>4, <2>1, <2>2
  <2>4. r.busy = q.busy
    BY <1>1, <1>6, EnqueuedItems
  <2> QED BY <1>0, <1>1, <2>3, <2>4 DEF CfgTidy, Present
<1>12. (Deep(worker[me]) => Diligent(worker[me], KeyOf(me)))'
  <2>1. PICK w, k : w = worker[me] /\ k = KeyOf(me)
    OBVIOUS
  <2>2. ASSUME Deep(w)
        PROVE  Diligent(w, k)'
    <3>1. k \in VMs /\ Diligent(w, k)
      BY <2>1, <2>2, FirmAt DEF Deep, CfgTidy
    <3>2. CASE k = v
      BY <1>1, <1>7, <3>1, <3>2 DEF Diligent, Provided
    <3>3. CASE k # v
      BY <1>1, <1>2, <1>5, <3>1, <3>3 DEF Diligent, Provided
    <3> QED BY <3>2, <3>3
  <2> QED BY <1>1, <1>5, <2>1, <2>2 DEF Diligent, Provided, Pending
<1> QED BY <1>9, <1>10, <1>11, <1>12 DEF CfgTidy

\* The first list holds every object there is.
LEMMA ListedAll ==
    ASSUME NEW S \in SUBSET VMs,
           NEW q \in Listings({[key |-> v, action |-> "add"] : v \in S}), NEW v \in S
    PROVE  \E i \in DOMAIN q.items : q.items[i].key = v
<1> DEFINE f == [u \in S |-> [key |-> u, action |-> "add"]]
           T == {[key |-> u, action |-> "add"] : u \in S}
<1>1. IsFiniteSet(S)
  BY ConstantsAssumption, FS_Subset
<1>2. f \in Surjection(S, T)
  BY DEF Surjection
<1>3. IsFiniteSet(T)
  BY <1>1, <1>2, FS_Surjection
<1>4. {q.items[i] : i \in DOMAIN q.items} = T
  BY <1>3, ListingsOnce
<1>5. [key |-> v, action |-> "add"] \in T
  OBVIOUS
<1>6. PICK i \in DOMAIN q.items : q.items[i] = [key |-> v, action |-> "add"]
  BY <1>4, <1>5
<1> QED BY <1>6

LEMMA StartCfgListenerTidy ==
    ASSUME Firm, CfgTidy, StartCfgListener
    PROVE  CfgTidy'
<1>0. PICK S : S = {v \in VMs : cfg[v].exists}
  OBVIOUS
<1>1. PICK q \in Listings({[key |-> v, action |-> "add"] : v \in S}) : queue' = [queue EXCEPT ![me] = q]
  BY <1>0, TwoWorkers DEF StartCfgListener
<1>2. /\ UNCHANGED <<cfg, cfgWatch, worker>> /\ cfgIndexer' = cfg /\ phase = "counted"
  BY DEF StartCfgListener, api, memory
<1>3. /\ worker[me].pc = "idle" /\ \A v \in VMs : cfgWatch[v] = <<>>
  BY <1>2, TwoWorkers DEF Firm, Base, Growth, Typed, Quiet, Watched
<1>4. S \in SUBSET VMs /\ queue'[me] = q
  BY <1>0, <1>1, FirmAt
<1>5. ASSUME NEW v \in VMs
      PROVE  Remembered(v)'
  <2>1. ~Busy(v)' /\ cfgWatch'[v] = <<>> /\ cfgIndexer'[v] = cfg'[v]
    BY <1>2, <1>3 DEF Busy
  <2>2. Queued(v)' <=> v \in S
    <3>1. v \in S => Queued(v)'
      BY <1>4, ListedAll DEF Queued
    <3>2. \A i \in DOMAIN q.items : q.items[i].key \in S
      BY <1>4, ListedOnce
    <3>3. Queued(v)' => v \in S
      BY <1>4, <3>2 DEF Queued
    <3> QED BY <3>1, <3>3
  <2>3. v \in S <=> cfg'[v].exists
    BY <1>0, <1>2
  <2>4. Known(v)'
    BY <2>1, <2>2, <2>3 DEF Known
  <2>5. Newest(v)'
    BY <2>1 DEF Newest, Latest
  <2> QED BY <2>2, <2>3, <2>4, <2>5 DEF Remembered, Concerned
<1>6. \A i \in DOMAIN q.items : q.items[i].action # "delete"
  BY ListedAdds
<1> QED BY <1>2, <1>3, <1>4, <1>5, <1>6 DEF CfgTidy, Present, Deep

LEMMA FreshTidy == Fresh /\ phase = "down" => CfgTidy
<1> SUFFICES ASSUME Fresh, phase = "down" PROVE CfgTidy
    OBVIOUS
<1>1. worker[me].pc = "idle" /\ queue[me].items = <<>> /\ ~Watched
  BY TwoWorkers, IdleTyped DEF Fresh, EmptyQueue, Watched
<1>2. ASSUME NEW v \in VMs
      PROVE  Remembered(v)
  <2>1. DOMAIN cfgWatch[v] = {} /\ ~Queued(v) /\ ~Busy(v)
    BY <1>1 DEF Fresh, Queued, Busy
  <2> QED BY <1>1, <2>1 DEF Remembered, Known
<1> QED BY <1>1, <1>2 DEF CfgTidy, Present, Deep

LEMMA NextCfgTidy ==
    ASSUME OwnMacs, FixedShapes, OneNetwork, OnlyGrowth, Pooled, Firm, Sure, Cached, CfgTidy,
           [Next]_vars
    PROVE  CfgTidy'
<1>1. budget'["edit"] = 0 /\ ~Spend("edit") /\ ~Spend("delete") /\ ~Spend("manual")
  BY NeverSpent DEF Firm, Base, Growth, Typed, Steady, BudgetKeys, Spend, Unspent
<1>2. CASE Users
  <2>1. PICK v \in VMs : CreateVm(v) \/ UpdateVm(v)
    BY <1>1, <1>2 DEF Users, DeleteVm, EditIP, CreateManually
  <2>2. UNCHANGED <<queue, worker, cfg, cfgWatch, cfgIndexer, leases, phase>>
    BY <2>1 DEF CreateVm, UpdateVm, WriteVm, memory
  <2> QED BY <2>2, AsideTidy DEF Watched
<1>3. CASE Crash
  <2>1. /\ UNCHANGED <<vm, cfg>> /\ phase' = "down" /\ leases' = NoLeases /\ ipam' = NoTables
        /\ \A c \in Controllers : queue'[c] = EmptyQueue /\ worker'[c] = IdleWorker
        /\ \A v \in VMs : /\ vmWatch'[v] = <<>> /\ vmIndexer'[v] = GoneVm
                          /\ cfgWatch'[v] = <<>> /\ cfgIndexer'[v] = GoneCfg(0)
    BY <1>3 DEF Crash, api
  <2>2. (Fresh /\ phase = "down")'
    BY <1>1, <2>1 DEF Fresh, Firm, Steady, Fixed
  <2> QED BY <2>2, FreshTidy, PTL
<1>4. CASE StartPools \/ CountVmNetCfgs \/ StartVmListener \/ Pools \/ Tick \/ UNCHANGED vars
         \/ \E v \in VMs : DeliverVm(v)
  <2>1. UNCHANGED <<worker[me], cfg, cfgWatch, cfgIndexer, leases>>
    BY <1>4 DEF StartPools, CountVmNetCfgs, StartVmListener, Pools, CachePool, UncachePool, Tick,
                DeliverVm, vars, api, events, memory
  <2>2. queue'[me] = queue[me]
    BY <1>4, FirmAt, TwoWorkers
    DEF StartPools, CountVmNetCfgs, StartVmListener, Pools, CachePool, UncachePool, Tick,
        DeliverVm, vars
  <2>3. \/ phase' = phase \/ (phase = "init" /\ phase' = "running")
        \/ phase \notin {"init", "running"} /\ phase' \notin {"init", "running"}
    <3>1. CASE StartPools \/ CountVmNetCfgs \/ StartVmListener
      BY <3>1 DEF StartPools, CountVmNetCfgs, StartVmListener
    <3>2. CASE ~(StartPools \/ CountVmNetCfgs \/ StartVmListener)
      BY <1>4, <3>2 DEF Pools, CachePool, UncachePool, Tick, DeliverVm, vars, boot
    <3> QED BY <3>1, <3>2
  <2>4. Watched' = Watched
    BY <2>3 DEF Watched
  <2> QED BY <2>1, <2>2, <2>4, AsideTidy
<1>5. CASE StartCfgListener \/ \E v \in VMs : DeliverCfg(v)
  BY <1>5, StartCfgListenerTidy, DeliverCfgTidy
<1>6. CASE CfgWorker \/ VmWorker
  BY <1>1, <1>6, CfgWorkerTidy, VmWorkerTidy
<1>7. ~CountError /\ \A c \in Controllers : ~ApiError(c)
  BY SureStays DEF Firm, Base, Growth
<1> QED BY <1>2, <1>3, <1>4, <1>5, <1>6, <1>7 DEF Next, Start, Informers, Faults

-----------------------------------------------------------------------------
(* The work of the VirtualMachine worker.                                  *)

VmQueued(v) == \E i \in DOMAIN queue[self].items : queue[self].items[i].key = v
VmBusy(v)   == worker[self].pc # "idle" /\ KeyOf(self) = v

\* The VirtualMachine controller is told of v, or going to be.
Awaited(v) == phase # "running" \/ vmWatch[v] # <<>> \/ VmQueued(v) \/ VmBusy(v)

\* A handler of v found no lease of another machine, and the vmnetcfg it found
\* is still there.
Owning(w, v) ==
    /\ w.pc = "refs" => \A n \in w.todo : leases[MacOf(n)].ref = v
    /\ w.obj.exists => cfg[v].exists

VmTidy ==
    /\ \A v \in VMs :
         /\ VmQueued(v) \/ VmBusy(v) => vmIndexer[v].exists
         /\ vm[v].nics # {} => cfg[v].exists \/ Awaited(v)
    /\ worker[self].pc = "idle" => queue[self].busy = NoEvent
    /\ worker[self].pc # "idle" => Owning(worker[self], KeyOf(self))

\* No vmnetcfg goes.
Remains == \A v \in VMs : cfg[v].exists => cfg'[v].exists

\* The VirtualMachine worker is not aware of the step.
Unaware ==
    /\ queue'[self] = queue[self] /\ worker'[self].pc = worker[self].pc
    /\ worker'[self].obj = worker[self].obj /\ worker'[self].todo = worker[self].todo

LEMMA AsideVm ==
    ASSUME Firm, VmTidy, Lasts, Remains, Unaware, UNCHANGED <<vm, vmWatch, vmIndexer>>,
           phase' = "running" => phase = "running"
    PROVE  VmTidy'
<1>1. \A v \in VMs : VmQueued(v)' = VmQueued(v) /\ VmBusy(v)' = VmBusy(v)
  BY DEF VmQueued, VmBusy, KeyOf, Unaware
<1>2. ASSUME NEW v \in VMs
      PROVE  /\ VmQueued(v)' \/ VmBusy(v)' => vmIndexer'[v].exists
             /\ vm'[v].nics # {} => cfg'[v].exists \/ Awaited(v)'
  <2>1. cfg[v].exists => cfg'[v].exists
    BY DEF Remains
  <2> QED BY <1>1, <2>1 DEF VmTidy, Awaited
<1>3. (worker[self].pc # "idle" => Owning(worker[self], KeyOf(self)))'
  <2>1. PICK w, v : w = worker[self] /\ v = KeyOf(self)
    OBVIOUS
  <2>2. w \in Workers /\ (w.pc # "idle" => v \in VMs)
    BY <2>1, SelfInside DEF Firm, Base
  <2>3. ASSUME w.pc # "idle"
        PROVE  Owning(w, v)'
    <3>1. Owning(w, v) /\ v \in VMs /\ w.todo \subseteq Nics
      BY <2>1, <2>2, <2>3 DEF VmTidy, Workers
    <3>2. ASSUME NEW n \in w.todo, leases[MacOf(n)].ref = v
          PROVE  leases'[MacOf(n)].ref = v
      <4>1. MacOf(n) \in MACs /\ CheckLease(MacOf(n))
        BY <3>1, <3>2, NicFields, ConstantsAssumption DEF CheckLease, ZeroLease
      <4> QED BY <3>2, <4>1 DEF Lasts
    <3> QED BY <3>1, <3>2 DEF Owning, Remains
  <2>4. KeyOf(self)' = v
    BY <2>1 DEF KeyOf, Unaware
  <2> QED BY <2>1, <2>3, <2>4 DEF Owning, Unaware
<1> QED BY <1>2, <1>3 DEF VmTidy, Unaware

\* The handler goes on.
LEMMA GoesOnVm ==
    ASSUME Firm, VmTidy, UNCHANGED <<vm, cfg, vmWatch, vmIndexer, queue, leases, phase>>,
           worker[self].pc # "idle", NEW w, Step(self, w), w.pc # "idle", Owning(w, KeyOf(self))
    PROVE  VmTidy'
<1>1. worker'[self] = w
  BY FirmAt DEF Step
<1>2. \A v \in VMs : VmQueued(v)' = VmQueued(v) /\ VmBusy(v)' = VmBusy(v)
  BY <1>1 DEF VmQueued, VmBusy, KeyOf
<1>3. (Owning(worker[self], KeyOf(self)))'
  BY <1>1 DEF Owning, KeyOf
<1> QED BY <1>1, <1>2, <1>3 DEF VmTidy, Awaited

\* It is done with a machine that has its vmnetcfg, or needs none.
LEMMA DoneVm ==
    ASSUME Firm, VmTidy, Remains, UNCHANGED <<vm, vmWatch, vmIndexer, phase>>,
           worker[self].pc # "idle", Done(self),
           vm[KeyOf(self)].nics # {} => cfg'[KeyOf(self)].exists
    PROVE  VmTidy'
<1>0. PICK q, r, k : q = queue[self] /\ r = queue'[self] /\ k = KeyOf(self)
  OBVIOUS
<1>1. /\ q \in Queues(Event) /\ q.busy \in Event /\ q.busy.key = k
      /\ r = Completed(q) /\ worker'[self].pc = "idle" /\ r.busy = NoEvent
  BY <1>0, FirmAt, IdleTyped
  DEF Done, Step, Completed, KeyOf, Firm, Base, Growth, Typed, Working
<1>2. /\ \A i \in DOMAIN r.items :
           r.items[i] = q.busy \/ \E j \in DOMAIN q.items : r.items[i] = q.items[j]
      /\ \A i \in DOMAIN q.items : i \in DOMAIN r.items /\ r.items[i] = q.items[i]
  BY <1>1, CompletedItems
<1>3. ASSUME NEW v \in VMs
      PROVE  /\ VmQueued(v)' \/ VmBusy(v)' => vmIndexer'[v].exists
             /\ vm'[v].nics # {} => cfg'[v].exists \/ Awaited(v)'
  <2>1. ~VmBusy(v)' /\ (VmBusy(v) <=> v = k)
    BY <1>0, <1>1 DEF VmBusy
  <2>2. (VmQueued(v) => VmQueued(v)') /\ (VmQueued(v)' => VmQueued(v) \/ v = k)
    BY <1>0, <1>1, <1>2 DEF VmQueued
  <2>3. /\ VmQueued(v) \/ VmBusy(v) => vmIndexer[v].exists
        /\ vm[v].nics # {} => cfg[v].exists \/ Awaited(v)
        /\ cfg[v].exists => cfg'[v].exists
    BY DEF VmTidy, Remains
  <2> QED BY <1>0, <2>1, <2>2, <2>3 DEF Awaited
<1> QED BY <1>0, <1>1, <1>3 DEF VmTidy

LEMMA TakeVm ==
    ASSUME Firm, VmTidy, TakeItem(self)
    PROVE  VmTidy'
<1>0. PICK q, r : q = queue[self] /\ r = queue'[self]
  OBVIOUS
<1>1. /\ q \in Queues(Event) /\ q.items # <<>> /\ r = Taken(q) /\ worker[self].pc = "idle"
      /\ UNCHANGED <<vm, cfg, vmWatch, vmIndexer, phase>>
  BY <1>0, FirmAt DEF TakeItem, api, events, boot
<1>2. /\ r.busy = q.items[1] /\ 1 \in DOMAIN q.items
      /\ \A i \in DOMAIN r.items : i + 1 \in DOMAIN q.items /\ r.items[i] = q.items[i + 1]
      /\ \A i \in DOMAIN q.items : i = 1 \/ (i - 1 \in DOMAIN r.items /\ q.items[i] = r.items[i - 1])
  BY <1>1, TakenItems
<1>3. worker'[self].pc = "sync" /\ ~worker'[self].obj.exists
  BY FirmAt DEF TakeItem, Step, IdleWorker, GoneCfg
<1>4. ASSUME NEW v \in VMs
      PROVE  /\ VmQueued(v)' \/ VmBusy(v)' => vmIndexer'[v].exists
             /\ vm'[v].nics # {} => cfg'[v].exists \/ Awaited(v)'
  <2>1. VmQueued(v)' \/ VmBusy(v)' => VmQueued(v)
    BY <1>0, <1>2 DEF VmQueued, VmBusy, KeyOf
  <2>2. ASSUME VmQueued(v)
        PROVE  VmQueued(v)' \/ VmBusy(v)'
    <3>1. PICK i \in DOMAIN q.items : q.items[i].key = v
      BY <1>0, <2>2 DEF VmQueued
    <3>2. CASE i = 1
      BY <1>0, <1>2, <1>3, <3>1, <3>2 DEF VmBusy, KeyOf
    <3>3. CASE i - 1 \in DOMAIN r.items /\ q.items[i] = r.items[i - 1]
      BY <1>0, <3>1, <3>3 DEF VmQueued
    <3> QED BY <1>2, <3>1, <3>2, <3>3
  <2>3. ~VmBusy(v)
    BY <1>1 DEF VmBusy
  <2> QED BY <1>1, <2>1, <2>2, <2>3 DEF VmTidy, Awaited
<1>5. (worker[self].pc # "idle" => Owning(worker[self], KeyOf(self)))'
  BY <1>3 DEF Owning
<1> QED BY <1>3, <1>4, <1>5 DEF VmTidy

\* The machine is there, and the vmnetcfg is read.
LEMMA SyncVmTidy ==
    ASSUME Firm, VmTidy, SyncVm
    PROVE  VmTidy'
<1>0. PICK v : v = KeyOf(self)
  OBVIOUS
<1> DEFINE w == [IdleWorker EXCEPT !.pc = "macs", !.obj = cfg[v],
                   !.spec = [n \in Nics |-> IF n \in vmIndexer[v].nics THEN NoIP ELSE NoNic]]
<1>1. /\ UNCHANGED <<vm, cfg, vmWatch, vmIndexer, leases, phase>> /\ worker[self].pc = "sync"
      /\ v \in VMs /\ queue[self].busy.action # "delete"
  BY <1>0, SelfInside DEF SyncVm, api, events, memory, boot, Firm, Base
<1>2. vmIndexer[v].exists
  BY <1>0, <1>1 DEF VmTidy, VmBusy
<1>3. Step(self, w) /\ UNCHANGED queue
  BY <1>0, <1>1, <1>2 DEF SyncVm, KeyOf
<1>4. w.pc = "macs" /\ w.obj = cfg[v]
  BY DEF IdleWorker
<1> HIDE DEF w
<1>5. Owning(w, v) /\ w.pc # "idle"
  BY <1>4 DEF Owning
<1> QED BY <1>0, <1>1, <1>3, <1>5, GoesOnVm

\* The leases of the interfaces are its own.
LEMMA CheckMacsTidy ==
    ASSUME OwnMacs, Firm, VmTidy, CheckMacs
    PROVE  VmTidy'
<1>0. PICK w, v : w = worker[self] /\ v = KeyOf(self)
  OBVIOUS
<1> DEFINE x == [w EXCEPT !.pc = "refs", !.todo = {n \in NicsOf(w.spec) : CheckLease(MacOf(n))}]
<1>1. /\ UNCHANGED <<vm, cfg, vmWatch, vmIndexer, queue, leases, phase>> /\ Step(self, x)
      /\ w.pc = "macs" /\ w \in Workers /\ v \in VMs
  BY <1>0, SelfInside DEF CheckMacs, api, events, memory, boot, Firm, Base
<1>2. /\ x.pc = "refs" /\ x.obj = w.obj /\ x.todo = {n \in NicsOf(w.spec) : CheckLease(MacOf(n))}
  BY <1>1 DEF Workers
<1>3. NicsOf(w.spec) \in Shapes[v]
  BY <1>0, <1>1 DEF Firm, Steady, Fixed, Alike
<1> HIDE DEF x
<1>4. \A n \in x.todo : leases[MacOf(n)].ref = v
  <2>1. \A n \in x.todo : n \in UNION Shapes[v] /\ CheckLease(MacOf(n))
    BY <1>2, <1>3
  <2> QED BY <1>1, <2>1, LeaseOwner
<1>5. Owning(x, v) /\ x.pc # "idle" /\ w.pc # "idle"
  BY <1>0, <1>1, <1>2, <1>4 DEF VmTidy, Owning
<1> QED BY <1>0, <1>1, <1>5, GoesOnVm

\* Nothing is to be done for a machine that has its vmnetcfg or no interface.
LEMMA CheckRefsTidy ==
    ASSUME FixedShapes, Firm, VmTidy, CheckRefs
    PROVE  VmTidy'
<1>0. PICK w, v, spec : w = worker[self] /\ v = KeyOf(self) /\ spec = NetworkConfigs(w)
  OBVIOUS
<1> DEFINE own  == \A n \in w.todo : leases[MacOf(n)].ref = v
           x    == [w EXCEPT !.pc = IF w.obj.exists THEN "clean" ELSE "create",
                             !.todo = Dropped(w.obj.spec, spec), !.spec = spec]
<1>1. /\ UNCHANGED <<vm, cfg, vmWatch, vmIndexer, leases, phase>>
      /\ w.pc = "refs" /\ w \in Workers /\ v \in VMs /\ NicsOf(w.spec) \in Shapes[v]
  BY <1>0, SelfInside
  DEF CheckRefs, api, events, memory, Firm, Base, Steady, Fixed, Alike
<1>2. NicsOf(spec) = NicsOf(w.spec)
  BY <1>0, ConstantsAssumption DEF NicsOf, NetworkConfigs
<1>3. own /\ (w.obj.exists => cfg[v].exists)
  BY <1>0, <1>1 DEF VmTidy, Owning
<1>4. \/ Done(self) /\ (w.obj.exists \/ NicsOf(spec) = {})
      \/ Step(self, x) /\ UNCHANGED queue
  BY <1>0, <1>3 DEF CheckRefs, Return
<1>5. CASE Done(self) /\ (w.obj.exists \/ NicsOf(spec) = {})
  <2>1. NicsOf(spec) = {} => vm[v].nics = {}
    BY <1>1, <1>2 DEF FixedShapes, Firm, Steady, Fixed, Fits, Base, Growth, Growing, Chain
  <2>2. vm[v].nics # {} => cfg'[v].exists
    BY <1>1, <1>3, <1>5, <2>1
  <2>3. Remains
    BY <1>1 DEF Remains
  <2> QED BY <1>0, <1>1, <1>5, <2>2, <2>3, DoneVm
<1>6. CASE Step(self, x) /\ UNCHANGED queue
  <2>1. x.obj = w.obj /\ x.pc \in {"clean", "create"}
    BY <1>1 DEF Workers
  <2> HIDE DEF x
  <2>2. Owning(x, v) /\ x.pc # "idle"
    BY <1>3, <2>1 DEF Owning
  <2> QED BY <1>0, <1>1, <1>6, <2>2, GoesOnVm
<1> QED BY <1>4, <1>5, <1>6

LEMMA CreateCfgVm ==
    ASSUME Firm, VmTidy, Remains, CreateCfg
    PROVE  VmTidy'
<1>0. PICK v, obj : /\ v = KeyOf(self)
                    /\ obj = [cfg[v] EXCEPT !.exists = TRUE, !.spec = worker[self].spec,
                                            !.fin = TRUE, !.ctime = clock]
  OBVIOUS
<1>1. /\ UNCHANGED <<vm, vmWatch, vmIndexer, phase>> /\ Done(self) /\ worker[self].pc = "create"
      /\ v \in VMs /\ cfg[v] \in CfgObjects
      /\ (cfg[v].exists /\ UNCHANGED cfg) \/ WriteCfg(v, obj)
  BY <1>0, FirmAt, SelfInside DEF CreateCfg, Return, Firm, Base
<1>2. Changed(v, obj).exists
  BY <1>0, <1>1 DEF CfgObjects, Changed
<1>3. cfg'[v].exists
  BY <1>1, <1>2, WriteOther DEF WriteCfg, Firm, Base, Growth, Typed, TypeOK
<1> QED BY <1>0, <1>1, <1>3, DoneVm

-----------------------------------------------------------------------------

\* The event of the machine is queued.
LEMMA DeliverVmTidy ==
    ASSUME Firm, VmTidy, NEW v \in VMs, DeliverVm(v)
    PROVE  VmTidy'
<1>0. PICK new, e, q, r : /\ q = queue[self] /\ r = queue'[self] /\ new = Head(vmWatch[v])
                          /\ e = [key |-> v, action |-> ActionOf(vmIndexer[v], new)]
  OBVIOUS
<1>1. /\ UNCHANGED <<vm, cfg, worker, leases, phase>>
      /\ vmWatch' = [vmWatch EXCEPT ![v] = Tail(vmWatch[v])]
      /\ vmIndexer' = [vmIndexer EXCEPT ![v] = new] /\ vmIndexer \in [VMs -> VmObjects]
      /\ vmWatch \in [VMs -> Seq(VmObjects)] /\ vmWatch[v] # <<>>
      /\ r = Enqueued(q, e) /\ q \in Queues(Event) /\ e \in Event /\ e.key = v
  BY <1>0, FirmAt, TwoWorkers
  DEF DeliverVm, api, memory, boot, Event, Actions, ActionOf, Firm, Base, Growth, Typed, TypeOK
<1>2. new.exists
  <2>1. new = vmWatch[v][1] /\ 1 \in DOMAIN vmWatch[v]
    BY <1>0, <1>1, FirstAndRest
  <2> QED BY <2>1 DEF Firm, Base, Growth, Growing, Chain
<1>3. /\ r.busy = q.busy
      /\ \/ \E i \in DOMAIN r.items : r.items[i] = e
         \/ r.again /\ q.busy = e
      /\ \A i \in DOMAIN r.items : r.items[i] = e \/ \E j \in DOMAIN q.items : r.items[i] = q.items[j]
      /\ \A i \in DOMAIN q.items : i \in DOMAIN r.items /\ r.items[i] = q.items[i]
  BY <1>1, EnqueuedItems
<1>4. q.busy = e => worker[self].pc # "idle"
  BY <1>0, <1>1, EventAssumption DEF VmTidy
<1>5. KeyOf(self)' = KeyOf(self) /\ q.busy.key = KeyOf(self)
  BY <1>0, <1>3 DEF KeyOf
<1>6. VmQueued(v)' \/ VmBusy(v)'
  BY <1>0, <1>1, <1>3, <1>4, <1>5 DEF VmQueued, VmBusy
<1>7. ASSUME NEW u \in VMs
      PROVE  /\ VmQueued(u)' \/ VmBusy(u)' => vmIndexer'[u].exists
             /\ vm'[u].nics # {} => cfg'[u].exists \/ Awaited(u)'
  <2>1. CASE u = v
    BY <1>1, <1>2, <1>6, <2>1 DEF Awaited
  <2>2. CASE u # v
    <3>1. (VmQueued(u) => VmQueued(u)') /\ (VmQueued(u)' => VmQueued(u))
      <4>1. VmQueued(u) => VmQueued(u)'
        BY <1>0, <1>3 DEF VmQueued
      <4>2. ASSUME NEW i \in DOMAIN r.items, r.items[i].key = u
            PROVE  \E j \in DOMAIN q.items : q.items[j].key = u
        <5>1. e.key # u
          BY <1>1, <2>2
        <5>2. r.items[i] = e \/ \E j \in DOMAIN q.items : r.items[i] = q.items[j]
          BY <1>3
        <5> QED BY <4>2, <5>1, <5>2
      <4>3. VmQueued(u)' => VmQueued(u)
        BY <1>0, <4>2 DEF VmQueued
      <4> QED BY <4>1, <4>3
    <3>2. VmBusy(u)' = VmBusy(u)
      BY <1>1, <1>5 DEF VmBusy
    <3>3. vmIndexer'[u] = vmIndexer[u] /\ vmWatch'[u] = vmWatch[u]
      BY <1>1, <2>2
    <3> QED BY <1>1, <3>1, <3>2, <3>3 DEF VmTidy, Awaited
  <2> QED BY <2>1, <2>2
<1>8. (worker[self].pc # "idle" => Owning(worker[self], KeyOf(self)))'
  BY <1>1, <1>5 DEF VmTidy, Owning
<1> QED BY <1>0, <1>1, <1>3, <1>7, <1>8 DEF VmTidy

\* Every machine there is waits in the queue.
LEMMA StartVmListenerTidy ==
    ASSUME Firm, VmTidy, StartVmListener
    PROVE  VmTidy'
<1>0. PICK S : S = {v \in VMs : vm[v].exists}
  OBVIOUS
<1>1. PICK q \in Listings({[key |-> v, action |-> "add"] : v \in S}) : queue' = [queue EXCEPT ![self] = q]
  BY <1>0, TwoWorkers DEF StartVmListener
<1>2. UNCHANGED <<vm, worker>> /\ vmIndexer' = vm /\ phase = "init"
  BY DEF StartVmListener, api
<1>3. worker[self].pc = "idle"
  BY <1>2, TwoWorkers DEF Firm, Base, Growth, Typed, Quiet
<1>4. S \in SUBSET VMs /\ queue'[self] = q
  BY <1>0, <1>1, FirmAt
<1>5. q.busy = NoEvent /\ \A i \in DOMAIN q.items : q.items[i].key \in S
  BY <1>4, ListedOnce
<1>6. ASSUME NEW v \in VMs
      PROVE  /\ VmQueued(v)' \/ VmBusy(v)' => vmIndexer'[v].exists
             /\ vm'[v].nics # {} => cfg'[v].exists \/ Awaited(v)'
  <2>1. v \in S => VmQueued(v)'
    BY <1>4, ListedAll DEF VmQueued
  <2>2. VmQueued(v)' => v \in S
    BY <1>4, <1>5 DEF VmQueued
  <2>3. ~VmBusy(v)'
    BY <1>2, <1>3 DEF VmBusy
  <2>4. vm[v].nics # {} => v \in S
    BY <1>0 DEF Firm, Base, Growth, Growing, Chain
  <2> QED BY <1>0, <1>2, <2>1, <2>2, <2>3, <2>4 DEF Awaited
<1> QED BY <1>2, <1>3, <1>4, <1>5, <1>6 DEF VmTidy

-----------------------------------------------------------------------------
(* Every step.                                                             *)

LEMMA NextCached ==
    ASSUME Typed, Sure, Cached, [Next]_vars
    PROVE  Cached'
<1>1. \A n \in Networks : ~UncachePool(n)
  BY SureStays
<1>2. cache \in [Networks -> [on : BOOLEAN, lu : Nat, lubs : Nat]] /\ Configured \subseteq Networks
  BY ConstantsAssumption DEF Typed, TypeOK
<1>3. CASE StartPools
  BY <1>2, <1>3 DEF StartPools, Cached
<1>4. CASE Crash
  BY <1>4 DEF Crash, Cached
<1>5. CASE Pools
  <2>1. PICK n \in Networks : CachePool(n)
    BY <1>1, <1>5 DEF Pools
  <2>2. phase' = phase /\ \A net \in Networks : cache[net].on => cache'[net].on
    BY <1>2, <2>1 DEF CachePool, boot
  <2> QED BY <1>2, <2>2 DEF Cached
<1>6. CASE CountVmNetCfgs \/ StartCfgListener \/ StartVmListener \/ Informers \/ Users \/ Tick
         \/ UNCHANGED vars \/ CountError \/ \E c \in Controllers : ApiError(c)
  <2>1. UNCHANGED cache /\ (phase' = phase \/ phase # "down")
    BY <1>6
    DEF CountVmNetCfgs, StartCfgListener, StartVmListener, Informers, DeliverCfg, DeliverVm, Users,
        CreateVm, UpdateVm, DeleteVm, WriteVm, EditIP, CreateManually, Tick, CountError, ApiError,
        vars, memory, boot
  <2> QED BY <2>1 DEF Cached
<1>7. CASE CfgWorker \/ VmWorker
  <2>1. UNCHANGED <<cache, phase>>
    BY <1>7
    DEF CfgWorker, VmWorker, TakeItem, Cleanup, ReleaseIP, UpdateIPPoolStatusGet,
        UpdateIPPoolStatusPut, SyncCfg, CheckNic, NoPool, CheckOwner, CheckHeld, GetIP,
        RegisterLease, NicsDone, UpdateSpec, UpdateStatus, CleanupDone, RemoveFinalizer,
        SyncVm, CheckMacs, CheckRefs, CreateCfg, UpdateCfg, DeleteCfg, memory, boot
  <2> QED BY <2>1 DEF Cached
<1> QED BY <1>3, <1>4, <1>5, <1>6, <1>7 DEF Next, Start, Faults

LEMMA NextRemains ==
    ASSUME FixedShapes, Firm, [Next]_vars
    PROVE  Remains
<1>1. budget'["edit"] = 0 /\ ~Spend("edit") /\ ~Spend("manual")
  BY NeverSpent DEF Firm, Base, Growth, Typed, Steady, BudgetKeys, Spend, Unspent
<1>2. \A v \in VMs : cfg[v] \in CfgObjects
  BY FirmAt
<1>3. ASSUME NEW v \in VMs, NEW obj, WriteCfg(v, obj), cfg[v].exists => Changed(v, obj).exists
      PROVE  Remains
  <2>1. cfg'[v] = Changed(v, obj) /\ \A u \in VMs \ {v} : cfg'[u] = cfg[u]
    BY <1>3, WriteOther
  <2> QED BY <1>3, <2>1 DEF Remains
<1>4. CASE UpdateSpec \/ UpdateStatus
  <2>1. PICK v, x, y : /\ v = KeyOf(me) /\ x = [cfg[v] EXCEPT !.spec = worker[me].spec]
                       /\ y = [cfg[v] EXCEPT !.status = worker[me].status]
    OBVIOUS
  <2>2. /\ v \in VMs
        /\ WriteCfg(v, x) \/ WriteCfg(v, y) \/ UNCHANGED cfg
    BY <1>4, <2>1, FirmAt DEF UpdateSpec, UpdateStatus
  <2>3. cfg[v].exists => Changed(v, x).exists /\ Changed(v, y).exists
    BY <1>2, <2>1, <2>2 DEF CfgObjects, Changed
  <2> QED BY <1>3, <2>2, <2>3 DEF Remains
<1>5. CASE CreateCfg
  <2>1. PICK v, x : /\ v = KeyOf(self)
                    /\ x = [cfg[v] EXCEPT !.exists = TRUE, !.spec = worker[self].spec,
                                          !.fin = TRUE, !.ctime = clock]
    OBVIOUS
  <2>2. v \in VMs /\ (WriteCfg(v, x) \/ UNCHANGED cfg)
    BY <1>5, <2>1, SelfInside DEF CreateCfg, Firm, Base
  <2>3. cfg[v].exists => Changed(v, x).exists
    BY <1>2, <2>1, <2>2 DEF CfgObjects, Changed
  <2> QED BY <1>3, <2>2, <2>3 DEF Remains
<1>6. CASE CfgWorker /\ ~UpdateSpec /\ ~UpdateStatus
  <2>1. ~RemoveFinalizer
    BY FirmAt DEF RemoveFinalizer
  <2>2. UNCHANGED cfg
    BY <1>6, <2>1
    DEF CfgWorker, TakeItem, Cleanup, ReleaseIP, UpdateIPPoolStatusGet, UpdateIPPoolStatusPut,
        SyncCfg, CheckNic, NoPool, CheckOwner, CheckHeld, GetIP, RegisterLease, NicsDone,
        CleanupDone, api
  <2> QED BY <2>2 DEF Remains
<1>7. CASE VmWorker /\ ~CreateCfg
  <2>1. UNCHANGED cfg
    BY <1>7, SelfNever DEF VmWorker, TakeItem, SyncVm, CheckMacs, CheckRefs, api
  <2> QED BY <2>1 DEF Remains
<1>8. CASE Start \/ Informers \/ Pools \/ Users \/ Faults \/ Tick \/ UNCHANGED vars
  <2>1. UNCHANGED cfg
    BY <1>1, <1>8
    DEF Start, StartPools, CountVmNetCfgs, StartCfgListener, StartVmListener, Informers, DeliverCfg,
        DeliverVm, Pools, UncachePool, CachePool, Users, CreateVm, UpdateVm, DeleteVm, WriteVm,
        EditIP, CreateManually, Faults, Crash, CountError, ApiError, Tick, vars, api
  <2> QED BY <2>1 DEF Remains
<1> QED BY <1>4, <1>5, <1>6, <1>7, <1>8 DEF Next

\* A machine is created or changed: its event is on its way, or the helper is
\* going to list it.
LEMMA UsersVm ==
    ASSUME Firm, VmTidy, NEW v \in VMs, CreateVm(v) \/ UpdateVm(v)
    PROVE  VmTidy'
<1>1. PICK obj : WriteVm(v, obj)
  BY DEF CreateVm, UpdateVm
<1>2. /\ UNCHANGED <<cfg, vmIndexer, queue, worker, leases, phase>>
      /\ \A u \in VMs \ {v} : vm'[u] = vm[u] /\ vmWatch'[u] = vmWatch[u]
      /\ phase = "running" => vmWatch'[v] # <<>>
  <2>1. vm \in [VMs -> VmObjects] /\ vmWatch \in [VMs -> Seq(VmObjects)]
    BY DEF Firm, Base, Growth, Typed, TypeOK
  <2>2. Append(vmWatch[v], obj) # <<>>
    BY <2>1
  <2> QED BY <1>1, <2>1, <2>2 DEF WriteVm, memory
<1>3. ASSUME NEW u \in VMs
      PROVE  /\ VmQueued(u)' \/ VmBusy(u)' => vmIndexer'[u].exists
             /\ vm'[u].nics # {} => cfg'[u].exists \/ Awaited(u)'
  <2>1. VmQueued(u)' = VmQueued(u) /\ VmBusy(u)' = VmBusy(u)
    BY <1>2 DEF VmQueued, VmBusy, KeyOf
  <2>2. CASE u = v
    BY <1>2, <2>1, <2>2 DEF VmTidy, Awaited
  <2>3. CASE u # v
    BY <1>2, <2>1, <2>3 DEF VmTidy, Awaited
  <2> QED BY <2>2, <2>3
<1>4. (worker[self].pc # "idle" => Owning(worker[self], KeyOf(self)))'
  BY <1>2 DEF VmTidy, Owning, KeyOf
<1> QED BY <1>2, <1>3, <1>4 DEF VmTidy

LEMMA FreshVm == Fresh /\ phase = "down" => VmTidy
<1> SUFFICES ASSUME Fresh, phase = "down" PROVE VmTidy
    OBVIOUS
<1>1. worker[self].pc = "idle" /\ queue[self].items = <<>> /\ queue[self].busy = NoEvent
  BY TwoWorkers, IdleTyped DEF Fresh, EmptyQueue
<1>2. \A v \in VMs : ~VmQueued(v) /\ ~VmBusy(v) /\ Awaited(v)
  BY <1>1 DEF VmQueued, VmBusy, Awaited
<1> QED BY <1>1, <1>2 DEF VmTidy

\* The vmnetcfg worker leaves the other one and its queue alone.
LEMMA MeOnly ==
    ASSUME Firm, CfgWorker
    PROVE  Unaware
<1>1. /\ \A w : Step(me, w) /\ UNCHANGED queue => Unaware
      /\ Done(me) \/ TakeItem(me) => Unaware
  BY FirmAt DEF Step, Done, TakeItem, Unaware
<1>2. CASE TakeItem(me) \/ SyncCfg \/ NicsDone \/ UpdateSpec \/ UpdateStatus
           \/ CleanupDone \/ RemoveFinalizer \/ NoPool
  BY <1>1, <1>2 DEF SyncCfg, NicsDone, UpdateSpec, UpdateStatus, CleanupDone, RemoveFinalizer,
                    NoPool, Return
<1>3. CASE CheckNic \/ CheckOwner \/ GetIP \/ RegisterLease
  BY <1>1, <1>3 DEF CheckNic, CheckOwner, GetIP, RegisterLease
<1>4. CASE CheckHeld
  BY <1>1, <1>4 DEF CheckHeld
<1>5. CASE Cleanup(me) \/ ReleaseIP(me)
  BY <1>1, <1>5 DEF Cleanup, ReleaseIP
<1>6. CASE UpdateIPPoolStatusGet(me)
  BY <1>1, <1>6 DEF UpdateIPPoolStatusGet
<1>7. CASE UpdateIPPoolStatusPut(me)
  <2>1. worker[self] \in Workers
    BY FirmAt, WorkerTyped DEF Firm, Base, Growth, Handlers
  <2>2. CASE worker[me].fresh
    <3>1. worker'[self] = [worker[self] EXCEPT !.fresh = @ /\ NetOf(worker[self].nic) # NetOf(worker[me].nic)]
      BY <1>7, <2>2, FirmAt DEF UpdateIPPoolStatusPut
    <3>2. UNCHANGED queue
      BY <1>7 DEF UpdateIPPoolStatusPut
    <3> QED BY <2>1, <3>1, <3>2 DEF Workers, Unaware
  <2>3. CASE ~worker[me].fresh
    BY <1>1, <1>7, <2>3 DEF UpdateIPPoolStatusPut
  <2> QED BY <2>2, <2>3
<1> QED BY <1>2, <1>3, <1>4, <1>5, <1>6, <1>7 DEF CfgWorker

LEMMA NextVmTidy ==
    ASSUME OwnMacs, FixedShapes, OneNetwork, OnlyGrowth, Firm, Sure, VmTidy, [Next]_vars
    PROVE  VmTidy'
<1>1. budget'["edit"] = 0 /\ ~Spend("edit") /\ ~Spend("delete") /\ ~Spend("manual")
  BY NeverSpent DEF Firm, Base, Growth, Typed, Steady, BudgetKeys, Spend, Unspent
<1>2. Remains
  BY NextRemains
<1>3. CASE Users
  <2>1. PICK v \in VMs : CreateVm(v) \/ UpdateVm(v)
    BY <1>1, <1>3 DEF Users, DeleteVm, EditIP, CreateManually
  <2> QED BY <2>1, UsersVm
<1>4. CASE Crash
  <2>1. /\ UNCHANGED <<vm, cfg>> /\ phase' = "down" /\ leases' = NoLeases /\ ipam' = NoTables
        /\ \A c \in Controllers : queue'[c] = EmptyQueue /\ worker'[c] = IdleWorker
        /\ \A v \in VMs : /\ vmWatch'[v] = <<>> /\ vmIndexer'[v] = GoneVm
                          /\ cfgWatch'[v] = <<>> /\ cfgIndexer'[v] = GoneCfg(0)
    BY <1>4 DEF Crash, api
  <2>2. (Fresh /\ phase = "down")'
    BY <1>1, <2>1 DEF Fresh, Firm, Steady, Fixed
  <2> QED BY <2>2, FreshVm, PTL
<1>5. CASE StartPools \/ CountVmNetCfgs \/ StartCfgListener \/ Pools \/ Tick \/ UNCHANGED vars
         \/ (\E v \in VMs : DeliverCfg(v)) \/ CfgWorker
  <2>1. UNCHANGED <<vm, vmWatch, vmIndexer>>
    <3>1. CASE CfgWorker
      BY <3>1
      DEF CfgWorker, TakeItem, Cleanup, ReleaseIP, UpdateIPPoolStatusGet, UpdateIPPoolStatusPut,
          SyncCfg, CheckNic, NoPool, CheckOwner, CheckHeld, GetIP, RegisterLease, NicsDone,
          UpdateSpec, UpdateStatus, CleanupDone, RemoveFinalizer, api, events
    <3>2. CASE ~CfgWorker
      BY <1>5, <3>2
      DEF StartPools, CountVmNetCfgs, StartCfgListener, Pools, CachePool, UncachePool, Tick,
          DeliverCfg, vars, api, events
    <3> QED BY <3>1, <3>2
  <2>2. Unaware
    <3>1. CASE CfgWorker
      BY <3>1, MeOnly
    <3>2. CASE ~CfgWorker
      BY <1>5, <3>2, FirmAt, TwoWorkers
      DEF StartPools, CountVmNetCfgs, StartCfgListener, Pools, CachePool, UncachePool, Tick,
          DeliverCfg, vars, Unaware
    <3> QED BY <3>1, <3>2
  <2>3. phase' = "running" => phase = "running"
    <3>1. CASE CfgWorker
      BY <3>1
      DEF CfgWorker, TakeItem, Cleanup, ReleaseIP, UpdateIPPoolStatusGet, UpdateIPPoolStatusPut,
          SyncCfg, CheckNic, NoPool, CheckOwner, CheckHeld, GetIP, RegisterLease, NicsDone,
          UpdateSpec, UpdateStatus, CleanupDone, RemoveFinalizer, boot
    <3>2. CASE ~CfgWorker
      BY <1>5, <3>2
      DEF StartPools, CountVmNetCfgs, StartCfgListener, Pools, CachePool, UncachePool, Tick,
          DeliverCfg, vars, boot
    <3> QED BY <3>1, <3>2
  <2>4. Lasts
    <3>1. CASE CfgWorker
      BY <1>1, <3>1, CfgWorkerLasts
    <3>2. CASE ~CfgWorker
      <4>1. UNCHANGED leases
        BY <1>5, <3>2
        DEF StartPools, CountVmNetCfgs, StartCfgListener, Pools, CachePool, UncachePool, Tick,
            DeliverCfg, vars, memory
      <4> QED BY <4>1 DEF Lasts
    <3> QED BY <3>1, <3>2
  <2> QED BY <1>2, <2>1, <2>2, <2>3, <2>4, AsideVm
<1>6. CASE StartVmListener \/ \E v \in VMs : DeliverVm(v)
  BY <1>6, StartVmListenerTidy, DeliverVmTidy
<1>7. CASE VmWorker
  BY <1>2, <1>7, SelfNever, TakeVm, SyncVmTidy, CheckMacsTidy, CheckRefsTidy, CreateCfgVm DEF VmWorker
<1>8. ~CountError /\ \A c \in Controllers : ~ApiError(c)
  BY SureStays DEF Firm, Base, Growth
<1> QED BY <1>3, <1>4, <1>5, <1>6, <1>7, <1>8 DEF Next, Start, Informers, Faults

Tidy == Firm /\ Sure /\ Cached /\ CfgTidy /\ VmTidy

LEMMA NextTidy ==
    ASSUME OnlyGrowth, OwnMacs, FixedShapes, Pooled, Tidy, [Next]_vars
    PROVE  Tidy'
<1>1. OneNetwork
  BY DEF OwnMacs, OneNetwork
<1>2. Firm' /\ Sure' /\ Cached'
  BY <1>1, NextSteady, SureStays, NextCached DEF Tidy, Firm, Base, Growth
<1>3. CfgTidy' /\ VmTidy'
  BY <1>1, NextCfgTidy, NextVmTidy DEF Tidy
<1> QED BY <1>2, <1>3 DEF Tidy

LEMMA InitTidy ==
    ASSUME OnlyGrowth, Budget["edit"] = 0, Budget["fail"] = 0, Budget["reload"] = 0, Init
    PROVE  Tidy
<1>1. Fresh /\ phase = "down"
  <2>1. \A v \in VMs : Fits(vm[v], v) /\ Shaped(cfg[v], v)
    BY DEF Init, Fits, Shaped, GoneVm, GoneCfg
  <2> QED BY <2>1 DEF Init, Fresh
<1>2. CfgTidy /\ VmTidy
  BY <1>1, FreshTidy, FreshVm
<1>3. Sure /\ Cached
  BY DEF Init, Sure, Cached
<1> QED BY <1>2, <1>3, InitFirm DEF Tidy

\* Whenever the helper is at rest, every interface of every virtual machine is
\* served the address its vmnetcfg records, unless the vmnetcfg reports an error
\* for it: no event of a machine or a vmnetcfg is lost, no conflicting write is
\* forgotten and no restart leaves anything out, for every number of machines,
\* interfaces and networks; while machines are only added with interfaces of
\* their own on networks with a pool, and no request fails and no pool is
\* reloaded.
THEOREM ServedHolds ==
    ASSUME OnlyGrowth, OwnMacs, FixedShapes, Pooled,
           Budget["edit"] = 0, Budget["fail"] = 0, Budget["reload"] = 0
    PROVE  Spec => []Served
<1>1. Init => Tidy
  BY InitTidy
<1>2. Tidy /\ [Next]_vars => Tidy'
  BY NextTidy
<1>3. Tidy => Served
  <2> SUFFICES ASSUME Tidy, Idle, NEW v \in VMs, NEW n \in vm[v].nics
               PROVE  \/ cfg[v].status[n] = "ERROR"
                      \/ /\ cfg[v].spec[n] \in IPs
                         /\ leases[MacOf(n)] = [ip |-> cfg[v].spec[n], ref |-> v, net |-> NetOf(n)]
    BY DEF Served
  <2>1. /\ phase = "running" /\ cfgWatch[v] = <<>> /\ vmWatch[v] = <<>>
        /\ \A c \in {me, self} : worker[c].pc = "idle" /\ queue[c].items = <<>>
    BY TwoWorkers DEF Idle, Waiting
  <2>2. ~Queued(v) /\ ~VmQueued(v) /\ ~Busy(v) /\ ~VmBusy(v)
    BY <2>1 DEF Queued, VmQueued, Busy, VmBusy
  <2>3. ~Again(v)
    BY <2>1 DEF Again, Tidy, Firm, Steady, Rested
  <2>4. cfg[v].exists
    BY <2>1, <2>2 DEF Tidy, VmTidy, Awaited
  <2>5. n \in NicsOf(cfg[v].spec)
    <3>1. vm[v].exists
      BY DEF Tidy, Firm, Base, Growth, Growing, Chain
    <3> QED BY <2>4, <3>1 DEF FixedShapes, Tidy, Firm, Steady, Fixed, Fits, Shaped
  <2>6. Provided(cfg[v], v, n)
    BY <2>1, <2>2, <2>3, <2>4, <2>5 DEF Tidy, CfgTidy, Remembered, Concerned, Watched
  <2> QED BY <2>6 DEF Provided, LeaseOf
<1> QED BY <1>1, <1>2, <1>3, PTL DEF Spec

=============================================================================
