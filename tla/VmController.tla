---------------------------- MODULE VmController ----------------------------
(***************************************************************************)
(* The worker of the VirtualMachine controller: it creates, updates and    *)
(* deletes the vmnetcfg of a virtual machine, and cleans up the interfaces *)
(* a virtual machine lost before it writes the new list.                   *)
(***************************************************************************)
EXTENDS HelperState

self == "vm"

\* sync and the Get of handleVirtualMachineObjectChange.  The interfaces with
\* a MAC address and a network name become the wanted spec.
SyncVm ==
    LET e == queue[self].busy
        o == vmIndexer[e.key]
    IN  /\ worker[self].pc = "sync"
        /\ IF e.action # "delete" /\ ~o.exists
           THEN Done(self)
           ELSE /\ Step(self,
                     IF e.action = "delete" THEN [IdleWorker EXCEPT !.pc = "delete"]
                     ELSE [IdleWorker EXCEPT
                             !.pc = "macs", !.obj = cfg[e.key],
                             !.spec = [n \in Nics |-> IF n \in o.nics THEN NoIP ELSE NoNic]])
                /\ UNCHANGED queue
        /\ UNCHANGED <<api, events, memory, boot>>

\* getNetworkConfigs, CheckLease: the interfaces whose owner must be read.
CheckMacs ==
    LET w == worker[self]
    IN  /\ w.pc = "macs"
        /\ Step(self, [w EXCEPT !.pc = "refs",
                                !.todo = {n \in NicsOf(w.spec) : CheckLease(MacOf(n))}])
        /\ UNCHANGED <<api, events, queue, memory, boot>>

\* Mutant: every interface starts without an address.
FreshConfigs(w) == w.spec

\* The new NetworkConfig: an interface already listed keeps its address.
NetworkConfigs(w) ==
    [n \in Nics |-> IF w.spec[n] = NoNic THEN NoNic
                    ELSE IF w.obj.spec[n] = NoNic THEN NoIP ELSE w.obj.spec[n]]

\* Mutant: an interface that was unplugged is forgotten without a cleanup.
NoneDropped(old, new) == {}

\* The interfaces of the old NetworkConfig that are not in the new one.
Dropped(old, new) == {n \in NicsOf(old) : new[n] # old[n]}

\* getNetworkConfigs, GetLease, and what its callers do with the list.
CheckRefs ==
    LET w    == worker[self]
        spec == NetworkConfigs(w)
        own  == \A n \in w.todo : leases[MacOf(n)].ref = KeyOf(self)
        same == w.obj.exists /\ spec = w.obj.spec
        none == ~w.obj.exists /\ NicsOf(spec) = {}
    IN  /\ w.pc = "refs"
        /\ \/ /\ ~own \/ same \/ none
              /\ Return(self)
           \/ /\ own /\ ~same /\ ~none
              /\ Step(self,
                   [w EXCEPT !.pc   = IF w.obj.exists THEN "clean" ELSE "create",
                             !.todo = Dropped(w.obj.spec, spec),
                             !.spec = spec])
              /\ UNCHANGED <<queue, count>>
        /\ UNCHANGED <<api, events, memory, phase, target, clock, budget>>

CreateCfg ==
    LET w == worker[self]
        v == KeyOf(self)
    IN  /\ w.pc = "create"
        /\ IF cfg[v].exists
           THEN UNCHANGED <<cfg, cfgWatch>>
           ELSE WriteCfg(v, [cfg[v] EXCEPT !.exists = TRUE, !.spec = w.spec,
                                           !.fin = TRUE, !.ctime = clock])
        /\ Return(self)
        /\ UNCHANGED <<vm, pool, vmWatch, vmIndexer, cfgIndexer, memory,
                       phase, target, clock, budget>>

\* After the cleanup: a conflict leaves the object with the interfaces whose
\* leases and addresses are already gone.
UpdateCfg ==
    LET w == worker[self]
        v == KeyOf(self)
    IN  /\ w.pc = "clean" /\ w.todo = {}
        /\ IF Current(v, w.obj)
           THEN WriteCfg(v, [cfg[v] EXCEPT !.spec = w.spec])
           ELSE UNCHANGED <<cfg, cfgWatch>>
        /\ Return(self)
        /\ UNCHANGED <<vm, pool, vmWatch, vmIndexer, cfgIndexer, memory,
                       phase, target, clock, budget>>

\* A finalizer keeps the object until the vmnetcfg controller removes it; one
\* that has none is gone at once.
DeleteCfg ==
    LET v == KeyOf(self)
    IN  /\ worker[self].pc = "delete"
        /\ IF cfg[v].exists
           THEN WriteCfg(v, IF cfg[v].fin THEN [cfg[v] EXCEPT !.del = TRUE]
                            ELSE GoneCfg(cfg[v].rv))
           ELSE UNCHANGED <<cfg, cfgWatch>>
        /\ Return(self)
        /\ UNCHANGED <<vm, pool, vmWatch, vmIndexer, cfgIndexer, memory,
                       phase, target, clock, budget>>

VmWorker ==
    \/ TakeItem(self) \/ SyncVm \/ CheckMacs \/ CheckRefs \/ CreateCfg \/ UpdateCfg \/ DeleteCfg
    \/ Cleanup(self) \/ ReleaseIP(self)
    \/ UpdateIPPoolStatusGet(self) \/ UpdateIPPoolStatusPut(self)

=============================================================================
