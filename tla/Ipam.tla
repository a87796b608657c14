-------------------------------- MODULE Ipam --------------------------------
(***************************************************************************)
(* The IP address allocator at the level of goroutines.  GetIP and         *)
(* ReleaseIP look the subnet up before they take the mutex, and again, by  *)
(* name, for every access after that; NewSubnet and DeleteSubnet replace   *)
(* the subnet without the mutex.  Addresses are numbers.                   *)
(***************************************************************************)
EXTENDS Integers

CONSTANTS
    Networks,       \* names of subnets
    Threads,        \* goroutines that call GetIP and ReleaseIP
    Nobody,         \* the mutex is free
    Addresses,      \* the addresses that occur
    NoIP,           \* the empty string
    SubnetSpecs,    \* the parameters NewSubnet is called with
    Generations     \* how often NewSubnet is called for a network

ASSUME IpamAssumption ==
    /\ Nobody \notin Threads
    /\ Addresses \subseteq Nat
    /\ NoIP \notin Addresses
    /\ SubnetSpecs \subseteq [lo : Addresses, hi : Addresses, start : Addresses, end : Addresses]
    /\ Generations \in Nat

VARIABLES
    ipam,       \* the subnets
    mutex,      \* who holds the mutex
    call,       \* the call each thread is in
    gen,        \* how often NewSubnet was called for each network
    alive       \* no goroutine panicked

vars == <<ipam, mutex, call, gen, alive>>

\* lo and hi are the first and the last address of the cidr: hi is the
\* broadcast address.  used holds the keys of the table ips that map to true.
Subnets ==
    [on : BOOLEAN, lo : Nat, hi : Nat, ips : SUBSET Addresses, used : SUBSET Addresses]
NoSubnet == [on |-> FALSE, lo |-> 0, hi |-> 0, ips |-> {}, used |-> {}]

Calls ==
    [pc : {"idle", "exists", "lock", "check", "scan", "mark"},
     op : {"get", "release"},
     name : Networks,
     given : Addresses \cup {NoIP},
     found : Addresses \cup {NoIP}]

Init ==
    /\ ipam = [n \in Networks |-> NoSubnet]
    /\ mutex = Nobody
    /\ call \in [Threads -> {c \in Calls : c.pc = "idle" /\ c.found = NoIP}]
    /\ gen = [n \in Networks |-> 0]
    /\ alive = TRUE

-----------------------------------------------------------------------------
(* Subnets.                                                                *)

InCidr(s, a) == s.lo <= a /\ a <= s.hi

\* The errors of NewSubnet.
Valid(s) ==
    InCidr(s, s.start) /\ InCidr(s, s.end) /\ s.start <= s.end /\ s.end # s.hi

NewSubnet(n) ==
    /\ gen[n] < Generations
    /\ \E s \in SubnetSpecs :
         ipam' = IF Valid(s)
                 THEN [ipam EXCEPT ![n] =
                        [on |-> TRUE, lo |-> s.lo, hi |-> s.hi, used |-> {},
                         ips |-> {a \in Addresses : s.start <= a /\ a <= s.end}]]
                 ELSE ipam
    /\ gen' = [gen EXCEPT ![n] = @ + 1]
    /\ UNCHANGED <<mutex, call, alive>>

DeleteSubnet(n) ==
    /\ ipam' = [ipam EXCEPT ![n] = NoSubnet]
    /\ UNCHANGED <<mutex, call, gen, alive>>

-----------------------------------------------------------------------------
(* GetIP and ReleaseIP.                                                    *)

Step(t, pc) == call' = [call EXCEPT ![t].pc = pc]

\* Mutant: an error path without the unlock.
LeaveLocked(t) == Step(t, "idle") /\ UNCHANGED mutex

\* The deferred Unlock.
Leave(t) == Step(t, "idle") /\ mutex' = Nobody

Invoke(t) ==
    /\ call[t].pc = "idle"
    /\ \E op \in {"get", "release"}, n \in Networks, a \in Addresses \cup {NoIP} :
         call' = [call EXCEPT ![t] =
                   [pc |-> "exists", op |-> op, name |-> n, given |-> a, found |-> NoIP]]
    /\ UNCHANGED <<ipam, mutex, gen, alive>>

\* Not protected by the mutex.
Exists(t) ==
    /\ call[t].pc = "exists"
    /\ Step(t, IF ipam[call[t].name].on THEN "lock" ELSE "idle")
    /\ UNCHANGED <<ipam, mutex, gen, alive>>

\* Mutant: the mutex does not exclude anybody.
AnyTime == TRUE

Free == mutex = Nobody

Lock(t) ==
    /\ call[t].pc = "lock"
    /\ Free
    /\ mutex' = t
    /\ Step(t, "check")
    /\ UNCHANGED <<ipam, gen, alive>>

\* The checks of the given address: GetIP makes them only if there is one and
\* also rejects the broadcast address, ReleaseIP rejects the empty one.
Acceptable(s, op, a) ==
    IF op = "release" THEN a # NoIP /\ s.on /\ InCidr(s, a)
    ELSE a # NoIP => s.on /\ InCidr(s, a) /\ a # s.hi

Check(t) ==
    LET c == call[t]
    IN  /\ c.pc = "check"
        /\ \/ /\ Acceptable(ipam[c.name], c.op, c.given)
              /\ Step(t, "scan")
              /\ UNCHANGED mutex
           \/ /\ ~Acceptable(ipam[c.name], c.op, c.given)
              /\ Leave(t)
        /\ UNCHANGED <<ipam, gen, alive>>

\* Mutants: the loop of GetIP does not look whether an address is allocated;
\* it ends with the empty address when the table is full.
MatchesUsed(s, op, a) ==
    IF op = "release" THEN s.used \cap {a} ELSE {b \in s.ips : a \in {NoIP, b}}

MatchesEmpty(s, op, a) ==
    IF s.ips = s.used THEN {NoIP}
    ELSE IF op = "release" THEN s.used \cap {a} ELSE {b \in s.ips \ s.used : a \in {NoIP, b}}

\* The entries of the table at which a loop ends without an error.
Matches(s, op, a) ==
    IF op = "release" THEN s.used \cap {a} ELSE {b \in s.ips \ s.used : a \in {NoIP, b}}

Scan(t) ==
    LET c == call[t]
        m == Matches(ipam[c.name], c.op, c.given)
    IN  /\ c.pc = "scan"
        /\ \/ \E a \in m : /\ call' = [call EXCEPT ![t].pc = "mark", ![t].found = a]
                           /\ UNCHANGED mutex
           \/ m = {} /\ Leave(t)
        /\ UNCHANGED <<ipam, gen, alive>>

\* The table as it is now gets the entry, whether or not it had that key.
Marked(s, op, a) ==
    [s EXCEPT !.ips = @ \cup {a},
              !.used = IF op = "get" THEN @ \cup {a} ELSE @ \ {a}]

Mark(t) ==
    LET c == call[t]
    IN  /\ c.pc = "mark"
        /\ ipam[c.name].on
        /\ ipam' = [ipam EXCEPT ![c.name] = Marked(@, c.op, c.found)]
        /\ Leave(t)
        /\ UNCHANGED <<gen, alive>>

\* The subnet is gone: an assignment to an entry of a nil map.
NilMapPanic(t) ==
    /\ call[t].pc = "mark"
    /\ ~ipam[call[t].name].on
    /\ alive' = FALSE
    /\ UNCHANGED <<ipam, mutex, call, gen>>

-----------------------------------------------------------------------------

Thread(t) == Exists(t) \/ Check(t) \/ Scan(t) \/ Mark(t) \/ NilMapPanic(t)

Next ==
    /\ alive
    /\ \/ \E n \in Networks : NewSubnet(n) \/ DeleteSubnet(n)
       \/ \E t \in Threads : Invoke(t) \/ Lock(t) \/ Thread(t)

Spec == Init /\ [][Next]_vars

\* Goroutines are scheduled, and a sync.Mutex is handed to a goroutine that
\* waits for long.
FairSpec ==
    /\ Spec
    /\ \A t \in Threads : WF_vars(alive /\ Thread(t)) /\ SF_vars(alive /\ Lock(t))

-----------------------------------------------------------------------------
(* Properties.                                                             *)

\* The variables hold values of their kinds.
TypeOK ==
    /\ ipam \in [Networks -> Subnets]
    /\ mutex \in Threads \cup {Nobody}
    /\ call \in [Threads -> Calls]
    /\ gen \in [Networks -> Nat]
    /\ alive \in BOOLEAN

Inside(t) == call[t].pc \in {"check", "scan", "mark"}

\* The critical sections of GetIP and ReleaseIP exclude each other.
MutualExclusion == \A t, u \in Threads : Inside(t) /\ Inside(u) => t = u

\* No table has an address the range of its subnet must not contain: a pool
\* never serves the broadcast address or one outside of the subnet.
TablesInSubnet ==
    \A n \in Networks :
      /\ ipam[n].used \subseteq ipam[n].ips
      /\ \A a \in ipam[n].ips : InCidr(ipam[n], a) /\ a # ipam[n].hi

\* What a loop found is still so when the entry is written, unless the subnet
\* was deleted: the address for GetIP is free, the one for ReleaseIP is not.
FoundStillTrue ==
    \A t \in Threads :
      LET c == call[t]
      IN  c.pc = "mark" /\ ipam[c.name].on => c.found \in Matches(ipam[c.name], c.op, c.given)

\* The refinement mapping: what the tables and the calls stand for.
Range == [n \in Networks |-> ipam[n].ips]
Taken == [n \in Networks |-> ipam[n].used]
AskOf(c) ==
    IF c.pc = "idle" THEN [op |-> "none", name |-> "none", given |-> NoIP]
    ELSE [op |-> c.op, name |-> c.name, given |-> c.given]
Asked == [t \in Threads |-> AskOf(call[t])]

Pool == INSTANCE AddressPool WITH range <- Range, taken <- Taken, ask <- Asked

\* Every GetIP and ReleaseIP takes effect at one moment between its call and
\* its return; GetIP never grants a taken address, and a call is refused only
\* if it must be.
PoolSpec == Pool!Spec

\* Every call returns, unless a panic ends the process.
CallsReturn == \A t \in Threads : call[t].pc # "idle" ~> call[t].pc = "idle" \/ ~alive

=============================================================================
