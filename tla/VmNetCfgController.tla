------------------------- MODULE VmNetCfgController -------------------------
(***************************************************************************)
(* The worker of the VirtualMachineNetworkConfig controller: it gives each *)
(* interface of a vmnetcfg an address and a lease, and takes them back     *)
(* when the object is being deleted.  Each action is the code between two  *)
(* points where the virtual machine controller, the informers or a user    *)
(* can act.                                                                *)
(***************************************************************************)
EXTENDS HelperState

me == "vmnetcfg"

\* sync: the object is the indexer's, which may lag behind the API or be ahead
\* of the event.  An event whose object has gone is dropped and not counted,
\* even while the application counts.
SyncCfg ==
    LET e   == queue[me].busy
        obj == cfgIndexer[e.key]
    IN  /\ worker[me].pc = "sync"
        /\ IF e.action = "delete" \/ ~obj.exists
           THEN Done(me)
           ELSE /\ Step(me, [IdleWorker EXCEPT !.pc = IF obj.del THEN "clean" ELSE "nic",
                                               !.obj = obj,
                                               !.todo = NicsOf(obj.spec),
                                               !.spec = obj.spec])
                /\ UNCHANGED queue
        /\ UNCHANGED <<api, events, memory, boot>>

\* Mutant: the creation time is compared with the wrong end of the outage.
CreatedAfterStart(obj, net) ==
    /\ queue[me].busy.action = "add"
    /\ obj.status = EmptyStatus
    /\ obj.ctime > cache[net].lu

\* The vmnetcfg is new to this process, has no status yet and was created
\* between the last status update of the previous run and this start.
CreatedWhileDown(obj, net) ==
    /\ queue[me].busy.action = "add"
    /\ obj.status = EmptyStatus
    /\ obj.ctime > cache[net].lubs
    /\ cache[net].lu > obj.ctime

InError(w, n) == [w EXCEPT !.pc = "nic", !.nic = NoNic, !.status[n] = "ERROR"]

\* One interface: its pool must be cached, an interface in error is left
\* alone, and CheckLease decides whether GetLease is called.
CheckNic ==
    LET w == worker[me]
    IN  /\ w.pc = "nic"
        /\ \E n \in w.todo :
             LET v == [w EXCEPT !.todo = @ \ {n}, !.nic = n]
             IN  /\ cache[NetOf(n)].on
                 /\ Step(me,
                      IF w.obj.status[n] = "ERROR" THEN InError(v, n)
                      ELSE IF CheckLease(MacOf(n)) THEN [v EXCEPT !.pc = "owner"]
                      ELSE IF CreatedWhileDown(w.obj, NetOf(n)) THEN InError(v, n)
                      ELSE [v EXCEPT !.pc = "getip"])
        /\ UNCHANGED <<api, events, queue, memory, boot>>

\* The handler gives up on the whole object when one pool is missing.
NoPool ==
    /\ worker[me].pc = "nic"
    /\ \E n \in worker[me].todo : ~cache[NetOf(n)].on
    /\ Return(me)
    /\ UNCHANGED <<api, events, memory, phase, target, clock, budget>>

\* Mutant: any lease of the MAC address makes it a duplicate.
Leased(l, v) == l.ref # NoRef

Duplicate(l, v) == l.ref # v

\* The owner of the lease.  It may have gone since CheckLease: GetLease then
\* returns the zero lease, whose Reference is nobody's.
CheckOwner ==
    LET w == worker[me]
        n == w.nic
    IN  /\ w.pc = "owner"
        /\ Step(me, IF \/ Duplicate(leases[MacOf(n)], KeyOf(me))
                       \/ CreatedWhileDown(w.obj, NetOf(n))
                    THEN InError(w, n)
                    ELSE [w EXCEPT !.pc = "held"])
        /\ UNCHANGED <<api, events, queue, memory, boot>>

\* Mutants: a known lease is renewed, or kept, whatever its address.
NeverKept(l, given)  == FALSE
AlwaysKept(l, given) == TRUE

Kept(l, given) == l.ip = given

\* A lease of this virtual machine: kept with its old status when it serves
\* the address of the spec, cleaned up first when it serves another one.
CheckHeld ==
    LET w == worker[me]
        n == w.nic
        l == leases[MacOf(n)]
    IN  /\ w.pc = "held"
        /\ \/ /\ ~CheckLease(MacOf(n))
              /\ Step(me, [w EXCEPT !.pc = "getip"])
              /\ UNCHANGED leases
           \/ /\ CheckLease(MacOf(n)) /\ Kept(l, w.obj.spec[n])
              /\ Step(me, [w EXCEPT !.pc = "nic", !.nic = NoNic,
                                    !.status[n] = w.obj.status[n]])
              /\ UNCHANGED leases
           \/ /\ CheckLease(MacOf(n)) /\ ~Kept(l, w.obj.spec[n])
              /\ DeleteLease(MacOf(n))
              /\ Step(me, [w EXCEPT !.pc = "release", !.ip = l.ip, !.next = "getip"])
        /\ UNCHANGED <<api, events, queue, ipam, cache, boot>>

GetIP ==
    LET w     == worker[me]
        n     == w.nic
        net   == NetOf(n)
        given == w.obj.spec[n]
    IN  /\ w.pc = "getip"
        /\ \/ \E a \in Grantable(net, given) :
                /\ ipam' = [ipam EXCEPT ![net] = @ \cup {a}]
                /\ Step(me, [w EXCEPT !.pc = "addlease", !.ip = a])
           \/ /\ Grantable(net, given) = {}
              /\ Step(me, InError([w EXCEPT !.ip = NoIP], n))
              /\ UNCHANGED ipam
        /\ UNCHANGED <<api, events, queue, leases, cache, boot>>

Recorded(w) == [w.spec EXCEPT ![w.nic] = w.ip]

RegisterLease ==
    LET w == worker[me]
        n == w.nic
    IN  /\ w.pc = "addlease"
        /\ AddLease(MacOf(n), NetOf(n), w.ip, KeyOf(me))
        /\ Step(me, [w EXCEPT !.pc = "poolget", !.op = "add", !.next = "nic",
                              !.retry = 0, !.change = TRUE,
                              !.spec = Recorded(w), !.status[n] = "OK"])
        /\ UNCHANGED <<api, events, queue, ipam, cache, boot>>

\* All interfaces visited.
NicsDone ==
    LET w == worker[me]
    IN  /\ w.pc = "nic" /\ w.todo = {}
        /\ \/ /\ w.change
              /\ Step(me, [w EXCEPT !.pc = "update"])
              /\ UNCHANGED <<queue, count>>
           \/ /\ ~w.change /\ w.status # EmptyStatus
              /\ Step(me, [w EXCEPT !.pc = "ustatus"])
              /\ UNCHANGED <<queue, count>>
           \/ /\ ~w.change /\ w.status = EmptyStatus
              /\ Return(me)
        /\ UNCHANGED <<api, events, memory, phase, target, clock, budget>>

\* The new addresses are recorded, unless the object changed meanwhile: then
\* the handler fails and leaves leases and addresses as they are.
UpdateSpec ==
    LET w   == worker[me]
        v   == KeyOf(me)
        new == [cfg[v] EXCEPT !.spec = w.spec]
    IN  /\ w.pc = "update"
        /\ \/ /\ Current(v, w.obj)
              /\ WriteCfg(v, new)
              /\ Step(me, [w EXCEPT !.pc = "ustatus", !.obj = Changed(v, new)])
              /\ UNCHANGED <<queue, count>>
           \/ /\ ~Current(v, w.obj)
              /\ Return(me)
              /\ UNCHANGED <<cfg, cfgWatch>>
        /\ UNCHANGED <<vm, pool, vmWatch, vmIndexer, cfgIndexer, memory,
                       phase, target, clock, budget>>

\* Without a network change updateVirtualMachineNetworkConfigStatus is given the
\* informer's own object, and overwrites its status before the request.
Overwritten ==
    LET w == worker[me]
        v == KeyOf(me)
    IN  IF ~w.change /\ cfgIndexer[v].exists /\ cfgIndexer[v].rv = w.obj.rv
        THEN [cfgIndexer EXCEPT ![v].status = w.status]
        ELSE cfgIndexer

UpdateStatus ==
    LET w   == worker[me]
        v   == KeyOf(me)
    IN  /\ w.pc = "ustatus"
        /\ IF Current(v, w.obj)
           THEN WriteCfg(v, [cfg[v] EXCEPT !.status = w.status])
           ELSE UNCHANGED <<cfg, cfgWatch>>
        /\ cfgIndexer' = Overwritten
        /\ Return(me)
        /\ UNCHANGED <<vm, pool, vmWatch, vmIndexer, memory, phase, target, clock, budget>>

CleanupDone ==
    /\ worker[me].pc = "clean" /\ worker[me].todo = {}
    /\ Step(me, [worker[me] EXCEPT !.pc = "unfinal"])
    /\ UNCHANGED <<api, events, queue, memory, boot>>

\* Removing the last finalizer of an object being deleted removes the object.
RemoveFinalizer ==
    LET w == worker[me]
        v == KeyOf(me)
    IN  /\ w.pc = "unfinal"
        /\ IF w.obj.fin /\ Current(v, w.obj)
           THEN WriteCfg(v, GoneCfg(cfg[v].rv))
           ELSE UNCHANGED <<cfg, cfgWatch>>
        /\ Return(me)
        /\ UNCHANGED <<vm, pool, vmWatch, vmIndexer, cfgIndexer, memory,
                       phase, target, clock, budget>>

CfgWorker ==
    \/ TakeItem(me) \/ SyncCfg \/ CheckNic \/ NoPool \/ CheckOwner \/ CheckHeld \/ GetIP
    \/ RegisterLease \/ NicsDone \/ UpdateSpec \/ UpdateStatus
    \/ Cleanup(me) \/ CleanupDone \/ RemoveFinalizer
    \/ ReleaseIP(me) \/ UpdateIPPoolStatusGet(me) \/ UpdateIPPoolStatusPut(me)

=============================================================================
