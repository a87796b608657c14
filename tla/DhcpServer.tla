----------------------------- MODULE DhcpServer -----------------------------
(***************************************************************************)
(* The packet handler of the DHCP server.  Every generation has a table of *)
(* leases and listeners of its own, and a packet is handled with the table *)
(* of the listener it arrived at.  The handler takes no lock: the pool it  *)
(* looks for, and then reads, may be replaced between its steps.           *)
(*                                                                         *)
(* Each pool has one client, a virtual machine behind its bind interface.  *)
(* One packet is handled at a time: a DISCOVER, REQUEST or RELEASE, which   *)
(* are all answered, the others being dropped at the end.  A pool stands   *)
(* for the options that are copied from it to the reply.                   *)
(***************************************************************************)
EXTENDS IPPoolController

Packets ==
    [pc     : {"lease", "check", "read", "answer"},
     gen    : Gens,
     client : Pools,
     lease  : Nets \cup {None},        \* lease.PoolName
     pool   : Objects \cup {None},     \* None: the zero DHCPPool
     asked  : Specs \cup {None}]       \* only for the property Answered

NoPacket == [pc |-> "none"]

InPacket(pc) == packet.pc = pc

\* Mutant: the leases go to the table of the first generation.
LeasedFirst(g, S) ==
    [leases EXCEPT ![1] = [p \in Pools |-> IF p \in S THEN ippool[p].net ELSE @[p]]]

\* AddLease, for the clients of the pools in S.
Leased(g, S) ==
    [leases EXCEPT ![g] = [p \in Pools |-> IF p \in S THEN ippool[p].net ELSE @[p]]]

Receive(g, p, asked) ==
    /\ packet = NoPacket
    /\ g \in listening[p]
    /\ packet' = [pc |-> "lease", gen |-> g, client |-> p, lease |-> None,
                  pool |-> None, asked |-> asked]
    /\ UNCHANGED <<ippool, used, nic, feed, queue, worker, tables, app, tenants>>

Handle(p) ==
    /\ packet' = p
    /\ UNCHANGED <<ippool, used, nic, feed, queue, worker, tables, app, tenants, budget>>

\* The lease of the hardware address.  Without one there is no reply.
ReadLease ==
    /\ InPacket("lease")
    /\ LET net == leases[packet.gen][packet.client]
       IN  Handle(IF net = None THEN NoPacket
                  ELSE [packet EXCEPT !.pc = "check", !.lease = net])

CheckPool ==
    /\ InPacket("check")
    /\ Handle(IF dhcp[packet.gen][packet.lease] = None THEN NoPacket
              ELSE [packet EXCEPT !.pc = "read"])

\* When the pool was deleted meanwhile this is the zero value.
ReadPool ==
    /\ InPacket("read")
    /\ Handle([packet EXCEPT !.pc = "answer", !.pool = dhcp[packet.gen][packet.lease]])

\* The reply goes out on the socket the packet came in, when that is open.
Replies == InPacket("answer") /\ packet.gen \in listening[packet.client]

Reply ==
    /\ InPacket("answer")
    /\ Handle(NoPacket)

dhcpHandler == ReadLease \/ CheckPool \/ ReadPool \/ Reply
=============================================================================
