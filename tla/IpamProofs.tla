----------------------------- MODULE IpamProofs -----------------------------
(***************************************************************************)
(* Proofs about the allocator, for any number of goroutines, networks and  *)
(* addresses.  The facts about the tables need that a network gets a       *)
(* subnet at most once: a mark that is set in the table of a second subnet *)
(* may lie outside of its range.                                           *)
(***************************************************************************)
EXTENDS Ipam, TLAPS

-----------------------------------------------------------------------------
(* Types and mutual exclusion.                                             *)

\* A goroutine between Lock and Unlock is the one that holds the mutex, and
\* one that has left its loop without an error has found an address.
Holding ==
    \A t \in Threads :
      /\ Inside(t) => mutex = t
      /\ call[t].pc = "mark" => call[t].found \in Addresses

LEMMA InitTypes == Init => TypeOK /\ Holding
BY IpamAssumption DEF Init, TypeOK, Holding, Inside, Subnets, NoSubnet, Calls

LEMMA NextTypes == TypeOK /\ Holding /\ [Next]_vars => TypeOK' /\ Holding'
<1> SUFFICES ASSUME TypeOK, Holding, [Next]_vars
             PROVE  TypeOK' /\ Holding'
    OBVIOUS
<1> USE IpamAssumption
<1>1. ASSUME NEW n \in Networks, NewSubnet(n)
      PROVE  TypeOK' /\ Holding'
  <2>1. ASSUME NEW s \in SubnetSpecs
        PROVE  [on |-> TRUE, lo |-> s.lo, hi |-> s.hi, used |-> {},
                ips |-> {a \in Addresses : s.start <= a /\ a <= s.end}] \in Subnets
    BY <2>1 DEF Subnets
  <2>2. ipam' \in [Networks -> Subnets]
    BY <1>1, <2>1 DEF NewSubnet, TypeOK
  <2> QED BY <1>1, <2>2 DEF NewSubnet, TypeOK, Holding, Inside
<1>2. ASSUME NEW n \in Networks, DeleteSubnet(n)
      PROVE  TypeOK' /\ Holding'
  BY <1>2 DEF DeleteSubnet, TypeOK, Holding, Inside, Subnets, NoSubnet
<1>3. ASSUME NEW t \in Threads, Invoke(t)
      PROVE  TypeOK' /\ Holding'
  BY <1>3 DEF Invoke, TypeOK, Holding, Inside, Calls
<1>4. ASSUME NEW t \in Threads, Lock(t)
      PROVE  TypeOK' /\ Holding'
  BY <1>4 DEF Lock, Free, Step, TypeOK, Holding, Inside, Calls
<1>5. ASSUME NEW t \in Threads, Exists(t)
      PROVE  TypeOK' /\ Holding'
  BY <1>5 DEF Exists, Step, TypeOK, Holding, Inside, Calls
<1>6. ASSUME NEW t \in Threads, Check(t)
      PROVE  TypeOK' /\ Holding'
  BY <1>6 DEF Check, Leave, Step, TypeOK, Holding, Inside, Calls
<1>7. ASSUME NEW t \in Threads, Scan(t)
      PROVE  TypeOK' /\ Holding'
  <2>1. \A a \in Matches(ipam[call[t].name], call[t].op, call[t].given) : a \in Addresses
    BY <1>7 DEF Scan, Matches, TypeOK, Subnets, Calls
  <2> QED BY <1>7, <2>1 DEF Scan, Leave, Step, TypeOK, Holding, Inside, Calls
<1>8. ASSUME NEW t \in Threads, Mark(t)
      PROVE  TypeOK' /\ Holding'
  <2> DEFINE n == call[t].name
  <2>1. /\ n \in Networks
        /\ call[t].found \in Addresses
    BY <1>8 DEF Mark, TypeOK, Holding, Calls
  <2>2. Marked(ipam[n], call[t].op, call[t].found) \in Subnets
    BY <2>1 DEF Marked, TypeOK, Subnets
  <2>4. ipam' \in [Networks -> Subnets]
    BY <1>8, <2>1, <2>2 DEF Mark, TypeOK
  <2>5. /\ call' = [call EXCEPT ![t].pc = "idle"]
        /\ mutex' = Nobody /\ UNCHANGED <<gen, alive>>
        /\ Inside(t)
    BY <1>8 DEF Mark, Leave, Step, Inside
  <2>6. call' \in [Threads -> Calls]
    BY <2>5 DEF TypeOK, Calls
  <2> QED
    BY <2>4, <2>5, <2>6 DEF TypeOK, Holding, Inside
<1>9. ASSUME NEW t \in Threads, NilMapPanic(t)
      PROVE  TypeOK' /\ Holding'
  BY <1>9 DEF NilMapPanic, TypeOK, Holding, Inside
<1>10. CASE UNCHANGED vars
  BY <1>10 DEF vars, TypeOK, Holding, Inside
<1> QED
  BY <1>1, <1>2, <1>3, <1>4, <1>5, <1>6, <1>7, <1>8, <1>9, <1>10 DEF Next, Thread

\* However many goroutines call the allocator, at most one is between Lock and
\* Unlock of GetIP or ReleaseIP.
THEOREM TypesAndExclusion == Spec => [](TypeOK /\ MutualExclusion)
<1>1. TypeOK /\ Holding => MutualExclusion
  BY DEF Holding, MutualExclusion
<1> QED BY <1>1, InitTypes, NextTypes, PTL DEF Spec

-----------------------------------------------------------------------------
(* The tables, when a network gets a subnet at most once.                  *)

\* A call that has seen its subnet knows that NewSubnet was called, so the
\* subnet can only disappear under it, not change.
SubnetSeen ==
    /\ \A n \in Networks : ipam[n].on => gen[n] # 0
    /\ \A n \in Networks : ~ipam[n].on => ipam[n] = NoSubnet
    /\ \A t \in Threads : call[t].pc \notin {"idle", "exists"} => gen[call[t].name] # 0

Tables == TypeOK /\ Holding /\ TablesInSubnet /\ FoundStillTrue /\ SubnetSeen

LEMMA InitTables == Init => Tables
<1> SUFFICES ASSUME Init PROVE TablesInSubnet /\ FoundStillTrue /\ SubnetSeen
    BY InitTypes DEF Tables
<1>1. TablesInSubnet /\ SubnetSeen
  BY DEF Init, TablesInSubnet, SubnetSeen, NoSubnet
<1>2. FoundStillTrue
  BY DEF Init, FoundStillTrue
<1> QED BY <1>1, <1>2

\* A new subnet has no address outside of the cidr and not the broadcast.
LEMMA NewTable ==
    ASSUME NEW s \in SubnetSpecs, Valid(s), NEW a \in Addresses, s.start <= a, a <= s.end
    PROVE  s.lo <= a /\ a <= s.hi /\ a # s.hi
<1>1. /\ s.lo \in Nat /\ s.hi \in Nat /\ s.start \in Nat /\ s.end \in Nat
      /\ a \in Nat
  BY IpamAssumption
<1> QED BY <1>1 DEF Valid, InCidr

LEMMA NextTables ==
    ASSUME Generations <= 1, Tables, [Next]_vars
    PROVE  Tables'
<1>0. TypeOK' /\ Holding'
  BY NextTypes DEF Tables
<1> USE IpamAssumption
<1> SUFFICES TablesInSubnet' /\ FoundStillTrue' /\ SubnetSeen'
    BY <1>0 DEF Tables
<1>1. ASSUME NEW n \in Networks, NewSubnet(n)
      PROVE  TablesInSubnet' /\ FoundStillTrue' /\ SubnetSeen'
  <2>1. PICK s \in SubnetSpecs :
          ipam' = IF Valid(s)
                  THEN [ipam EXCEPT ![n] =
                         [on |-> TRUE, lo |-> s.lo, hi |-> s.hi, used |-> {},
                          ips |-> {a \in Addresses : s.start <= a /\ a <= s.end}]]
                  ELSE ipam
    BY <1>1 DEF NewSubnet
  <2>2. gen[n] = 0 /\ gen' = [gen EXCEPT ![n] = 1] /\ call' = call
    <3>1. gen[n] \in Nat /\ gen[n] < Generations /\ Generations \in Nat
      BY <1>1 DEF NewSubnet, Tables, TypeOK
    <3>2. gen[n] = 0
      BY <3>1
    <3> QED BY <1>1, <3>2 DEF NewSubnet
  <2>3. TablesInSubnet'
    BY <2>1, NewTable DEF Tables, TypeOK, TablesInSubnet, InCidr
  <2>4. \A m \in Networks : m # n => ipam'[m] = ipam[m]
    BY <2>1 DEF Tables, TypeOK
  <2>5. \A t \in Threads : call[t].pc = "mark" => call[t].name \in Networks /\ call[t].name # n
    BY <2>2 DEF Tables, TypeOK, SubnetSeen, Calls
  <2>6. FoundStillTrue'
    BY <2>2, <2>4, <2>5 DEF Tables, FoundStillTrue, Matches
  <2>7. \A m \in Networks : gen[m] # 0 => gen'[m] # 0
    BY <2>2 DEF Tables, TypeOK
  <2>8. \A m \in Networks : /\ ipam'[m].on => gen'[m] # 0
                            /\ ~ipam'[m].on => ipam'[m] = NoSubnet
    BY <2>1, <2>2, <2>4, <2>7 DEF Tables, TypeOK, SubnetSeen
  <2>9. SubnetSeen'
    BY <2>2, <2>7, <2>8 DEF Tables, TypeOK, SubnetSeen, Calls
  <2> QED BY <2>3, <2>6, <2>9
<1>2. ASSUME NEW n \in Networks, DeleteSubnet(n)
      PROVE  TablesInSubnet' /\ FoundStillTrue' /\ SubnetSeen'
  <2>1. /\ ipam'[n] = NoSubnet
        /\ \A m \in Networks : m # n => ipam'[m] = ipam[m]
        /\ gen' = gen /\ call' = call
    BY <1>2 DEF DeleteSubnet, Tables, TypeOK
  <2>2. TablesInSubnet' /\ SubnetSeen'
    BY <2>1 DEF Tables, TablesInSubnet, SubnetSeen, NoSubnet, InCidr
  <2>3. FoundStillTrue'
    <3>1. \A t \in Threads : call[t].name \in Networks
      BY DEF Tables, TypeOK, Calls
    <3>2. ~ipam'[n].on
      BY <2>1 DEF NoSubnet
    <3> QED BY <2>1, <3>1, <3>2 DEF Tables, FoundStillTrue, Matches
  <2> QED BY <2>2, <2>3
<1>3. ASSUME NEW t \in Threads, Invoke(t) \/ Lock(t) \/ Exists(t) \/ Check(t) \/ NilMapPanic(t)
      PROVE  TablesInSubnet' /\ FoundStillTrue' /\ SubnetSeen'
  <2>1. ipam' = ipam /\ gen' = gen
    BY <1>3 DEF Invoke, Lock, Exists, Check, NilMapPanic
  <2>2. /\ \A u \in Threads : u # t => call'[u] = call[u]
        /\ call'[t] # call[t] => call'[t].pc # "mark"
        /\ \/ call'[t].pc \in {"idle", "exists"}
           \/ /\ call'[t].name = call[t].name
              /\ \/ call[t].pc \notin {"idle", "exists"}
                 \/ ipam[call[t].name].on
    <3>1. CASE Invoke(t)
      BY <3>1 DEF Invoke, Tables, TypeOK, Calls
    <3>2. CASE Lock(t)
      BY <3>2 DEF Lock, Step, Tables, TypeOK, Calls
    <3>3. CASE Exists(t)
      BY <3>3 DEF Exists, Step, Tables, TypeOK, Calls
    <3>4. CASE Check(t)
      BY <3>4 DEF Check, Step, Leave, Tables, TypeOK, Calls
    <3>5. CASE NilMapPanic(t)
      BY <3>5 DEF NilMapPanic, Tables, TypeOK, Calls
    <3> QED BY <1>3, <3>1, <3>2, <3>3, <3>4, <3>5
  <2>3. TablesInSubnet'
    BY <2>1 DEF Tables, TablesInSubnet, InCidr
  <2>4. FoundStillTrue'
    BY <2>1, <2>2 DEF Tables, FoundStillTrue, Matches
  <2>5. SubnetSeen'
    BY <2>1, <2>2 DEF Tables, TypeOK, Calls, SubnetSeen
  <2> QED BY <2>3, <2>4, <2>5
<1>4. ASSUME NEW t \in Threads, Scan(t)
      PROVE  TablesInSubnet' /\ FoundStillTrue' /\ SubnetSeen'
  <2>1. ipam' = ipam /\ gen' = gen /\ call[t].pc = "scan"
    BY <1>4 DEF Scan
  <2>2. /\ \A u \in Threads : u # t => call'[u] = call[u]
        /\ \/ call'[t].pc = "idle"
           \/ /\ call'[t].name = call[t].name /\ call'[t].op = call[t].op
              /\ call'[t].given = call[t].given /\ call'[t].pc = "mark"
              /\ call'[t].found \in Matches(ipam[call[t].name], call[t].op, call[t].given)
    BY <1>4 DEF Scan, Step, Leave, Tables, TypeOK, Calls
  <2>3. TablesInSubnet'
    BY <2>1 DEF Tables, TablesInSubnet, InCidr
  <2>4. FoundStillTrue'
    BY <2>1, <2>2 DEF Tables, FoundStillTrue, Matches
  <2>5. SubnetSeen'
    BY <2>1, <2>2 DEF Tables, TypeOK, Calls, SubnetSeen
  <2> QED BY <2>3, <2>4, <2>5
<1>5. ASSUME NEW t \in Threads, Mark(t)
      PROVE  TablesInSubnet' /\ FoundStillTrue' /\ SubnetSeen'
  <2> DEFINE c == call[t]
  <2>1. /\ c.name \in Networks /\ ipam[c.name].on /\ c.pc = "mark"
        /\ ipam' = [ipam EXCEPT ![c.name] = Marked(@, c.op, c.found)]
        /\ call' = [call EXCEPT ![t].pc = "idle"]
        /\ gen' = gen
    BY <1>5 DEF Mark, Leave, Step, Tables, TypeOK, Calls
  <2>2. c.found \in Matches(ipam[c.name], c.op, c.given)
    BY <2>1 DEF Tables, FoundStillTrue
  <2>3. c.found \in ipam[c.name].ips
    BY <2>1, <2>2 DEF Matches, Tables, TablesInSubnet
  <2>9. ipam'[c.name] = Marked(ipam[c.name], c.op, c.found) /\ ipam[c.name] \in Subnets
    BY <2>1 DEF Tables, TypeOK
  <2>4. /\ \A n \in Networks : n # c.name => ipam'[n] = ipam[n]
        /\ ipam'[c.name].on
        /\ ipam'[c.name].lo = ipam[c.name].lo
        /\ ipam'[c.name].hi = ipam[c.name].hi
        /\ ipam'[c.name].ips = ipam[c.name].ips
        /\ ipam'[c.name].used \subseteq ipam[c.name].used \cup {c.found}
    <3>1. \A n \in Networks : n # c.name => ipam'[n] = ipam[n]
      BY <2>1 DEF Tables, TypeOK
    <3> DEFINE before == ipam[c.name]
               after == ipam'[c.name]
    <3>2. /\ after.on = before.on /\ after.lo = before.lo /\ after.hi = before.hi
          /\ after.ips = before.ips \cup {c.found}
      BY <2>9 DEF Marked, Subnets
    <3>3. after.used \subseteq before.used \cup {c.found}
      BY <2>9 DEF Marked, Subnets
    <3>4. after.ips = before.ips
      BY <2>3, <3>2
    <3> QED BY <2>1, <3>1, <3>2, <3>3, <3>4
  <2>5. TablesInSubnet'
    BY <2>1, <2>3, <2>4 DEF Tables, TablesInSubnet, InCidr
  <2>6. \A u \in Threads : u # t => call'[u] = call[u] /\ call[u].pc # "mark"
    BY <2>1 DEF Tables, TypeOK, Holding, Inside
  <2>7. FoundStillTrue'
    BY <2>1, <2>6 DEF Tables, TypeOK, Calls, FoundStillTrue
  <2>8. SubnetSeen'
    BY <2>1, <2>4 DEF Tables, TypeOK, Calls, SubnetSeen
  <2> QED BY <2>5, <2>7, <2>8
<1>6. CASE UNCHANGED vars
  BY <1>6 DEF vars, Tables, TablesInSubnet, InCidr, FoundStillTrue, Matches, SubnetSeen
<1> QED
  BY <1>1, <1>2, <1>3, <1>4, <1>5, <1>6 DEF Next, Thread

\* As long as a network gets a subnet only once, no table ever contains an
\* address outside of its subnet or the broadcast address, although NewSubnet
\* and DeleteSubnet do not take the mutex.
THEOREM TablesHold ==
    ASSUME Generations <= 1
    PROVE  Spec => []TablesInSubnet
<1>1. Tables => TablesInSubnet
  BY DEF Tables
<1> QED BY <1>1, InitTables, NextTables, PTL DEF Spec

\* Under the same assumption the entry a call writes is still as the call found
\* it: the loops of GetIP and ReleaseIP do not act on an address that changed.
THEOREM FoundHolds ==
    ASSUME Generations <= 1
    PROVE  Spec => []FoundStillTrue
<1>1. Tables => FoundStillTrue
  BY DEF Tables
<1> QED BY <1>1, InitTables, NextTables, PTL DEF Spec

-----------------------------------------------------------------------------
(* The allocator implements AddressPool.                                   *)

LEMMA InitPool == Init => Pool!Init
BY DEF Init, Pool!Init, Pool!NoRequest, NoSubnet, Range, Taken, Asked, AskOf

\* What the abstract state does when one goroutine returns.
LEMMA ReturnPool ==
    ASSUME Tables, NEW t \in Threads, call[t].pc # "idle",
           call' = [call EXCEPT ![t].pc = "idle"]
    PROVE  /\ Asked[t] = [op |-> call[t].op, name |-> call[t].name, given |-> call[t].given]
           /\ Asked' = [Asked EXCEPT ![t] = Pool!NoRequest]
BY DEF Tables, TypeOK, Calls, Asked, AskOf, Pool!NoRequest

\* A call that finds nothing could not be answered otherwise.
LEMMA RefusePool ==
    ASSUME Tables, NEW t \in Threads, call[t].pc # "idle",
           call' = [call EXCEPT ![t].pc = "idle"], ipam' = ipam,
           Matches(ipam[call[t].name], call[t].op, call[t].given) = {}
    PROVE  Pool!Refuse(t)
<1>1. call[t].name \in Networks /\ call[t].op \in {"get", "release"}
  BY DEF Tables, TypeOK, Calls
<1>2. /\ Asked[t] = [op |-> call[t].op, name |-> call[t].name, given |-> call[t].given]
      /\ Asked' = [Asked EXCEPT ![t] = Pool!NoRequest]
  BY ReturnPool
<1>3. Range' = Range /\ Taken' = Taken
  BY DEF Range, Taken
<1>4. CASE call[t].op = "get"
  <2>1. {a \in Range[call[t].name] \ Taken[call[t].name] : call[t].given \in {NoIP, a}} = {}
    BY <1>1, <1>4 DEF Matches, Range, Taken
  <2> QED
    BY <1>2, <1>3, <1>4, <2>1
    DEF Pool!Refuse, Pool!Grantable, Pool!Answered
<1>5. CASE call[t].op = "release"
  <2>1. call[t].given \notin Taken[call[t].name]
    BY <1>1, <1>5 DEF Matches, Taken
  <2> QED
    BY <1>2, <1>3, <1>5, <2>1
    DEF Pool!Refuse, Pool!Answered
<1> QED BY <1>1, <1>4, <1>5

\* The checks of the given address only reject what the table has not.
LEMMA RejectedHasNoMatch ==
    ASSUME Tables, NEW t \in Threads,
           ~Acceptable(ipam[call[t].name], call[t].op, call[t].given)
    PROVE  Matches(ipam[call[t].name], call[t].op, call[t].given) = {}
<1> DEFINE s == ipam[call[t].name]
<1>1. call[t].name \in Networks /\ call[t].op \in {"get", "release"}
  BY DEF Tables, TypeOK, Calls
<1>2. /\ s \in Subnets
      /\ s.used \subseteq s.ips
      /\ \A a \in s.ips : InCidr(s, a) /\ a # s.hi
      /\ ~s.on => s.ips = {}
  BY <1>1 DEF Tables, TypeOK, TablesInSubnet, SubnetSeen, NoSubnet
<1>3. NoIP \notin s.ips
  BY <1>2, IpamAssumption DEF Subnets
<1>4. CASE call[t].op = "get"
  BY <1>2, <1>4 DEF Acceptable, Matches
<1>5. CASE call[t].op = "release"
  BY <1>2, <1>3, <1>5 DEF Acceptable, Matches
<1> QED BY <1>1, <1>4, <1>5

\* A step that changes neither the tables nor what is asked is a stutter.
LEMMA StutterPool ==
    ASSUME ipam' = ipam, Asked' = Asked
    PROVE  [Pool!Next]_(Pool!vars)
BY DEF Pool!vars, Range, Taken

LEMMA NextPool ==
    ASSUME Generations <= 1, Tables, [Next]_vars
    PROVE  [Pool!Next]_(Pool!vars)
<1>1. ASSUME NEW n \in Networks, NewSubnet(n)
      PROVE  [Pool!Next]_(Pool!vars)
  <2>1. call' = call /\ gen[n] = 0
    <3>1. gen[n] \in Nat /\ gen[n] < Generations /\ Generations \in Nat
      BY <1>1, IpamAssumption DEF NewSubnet, Tables, TypeOK
    <3> QED BY <1>1, <3>1 DEF NewSubnet
  <2>2. ipam[n] = NoSubnet
    BY <2>1 DEF Tables, SubnetSeen
  <2>3. Asked' = Asked
    BY <2>1 DEF Asked
  <2>4. PICK s \in SubnetSpecs :
          ipam' = IF Valid(s)
                  THEN [ipam EXCEPT ![n] =
                         [on |-> TRUE, lo |-> s.lo, hi |-> s.hi, used |-> {},
                          ips |-> {a \in Addresses : s.start <= a /\ a <= s.end}]]
                  ELSE ipam
    BY <1>1 DEF NewSubnet
  <2>5. CASE Valid(s)
    <3> DEFINE r == {a \in Addresses : s.start <= a /\ a <= s.end}
    <3>1. r \in SUBSET Addresses
      OBVIOUS
    <3>2. Range' = [Range EXCEPT ![n] = r] /\ Taken' = Taken
      <4>1. /\ ipam'[n].ips = r /\ ipam'[n].used = ipam[n].used
            /\ \A m \in Networks : m # n => ipam'[m] = ipam[m]
        BY <2>2, <2>4, <2>5 DEF Tables, TypeOK, NoSubnet
      <4> QED BY <4>1 DEF Range, Taken
    <3>3. Range[n] = {}
      BY <2>2 DEF Range, NoSubnet
    <3> QED BY <2>3, <3>1, <3>2, <3>3 DEF Pool!Next, Pool!Open
  <2>6. CASE ~Valid(s)
    BY <2>3, <2>4, <2>6, StutterPool
  <2> QED BY <2>5, <2>6
<1>2. ASSUME NEW n \in Networks, DeleteSubnet(n)
      PROVE  [Pool!Next]_(Pool!vars)
  <2>1. ipam' = [ipam EXCEPT ![n] = NoSubnet] /\ Asked' = Asked
    BY <1>2 DEF DeleteSubnet, Asked
  <2>2. Range' = [Range EXCEPT ![n] = {}] /\ Taken' = [Taken EXCEPT ![n] = {}]
    BY <2>1 DEF Range, Taken, Tables, TypeOK, NoSubnet
  <2> QED BY <2>1, <2>2 DEF Pool!Next, Pool!Close
<1>3. ASSUME NEW t \in Threads, Invoke(t)
      PROVE  [Pool!Next]_(Pool!vars)
  <2>1. PICK op \in {"get", "release"}, n \in Networks, a \in Addresses \cup {NoIP} :
          call' = [call EXCEPT ![t] =
                    [pc |-> "exists", op |-> op, name |-> n, given |-> a, found |-> NoIP]]
    BY <1>3 DEF Invoke
  <2> DEFINE r == [op |-> op, name |-> n, given |-> a]
  <2>2. r \in Pool!Requests
    BY DEF Pool!Requests
  <2>3. Asked' = [Asked EXCEPT ![t] = r] /\ Asked[t] = Pool!NoRequest
    BY <1>3, <2>1 DEF Invoke, Asked, AskOf, Pool!NoRequest, Tables, TypeOK
  <2>4. Range' = Range /\ Taken' = Taken
    BY <1>3 DEF Invoke, Range, Taken
  <2> QED BY <2>2, <2>3, <2>4 DEF Pool!Next, Pool!Ask
<1>4. ASSUME NEW t \in Threads, Exists(t)
      PROVE  [Pool!Next]_(Pool!vars)
  <2>1. CASE ipam[call[t].name].on
    <3>1. Asked' = Asked
      BY <1>4, <2>1 DEF Exists, Step, Asked, AskOf, Tables, TypeOK, Calls
    <3> QED BY <1>4, <3>1, StutterPool DEF Exists
  <2>2. CASE ~ipam[call[t].name].on
    <3>1. /\ call[t].pc # "idle" /\ ipam' = ipam
          /\ call' = [call EXCEPT ![t].pc = "idle"]
      BY <1>4, <2>2 DEF Exists, Step
    <3>2. ~Acceptable(ipam[call[t].name], call[t].op, call[t].given)
          \/ call[t].given = NoIP
      BY <2>2 DEF Acceptable
    <3>3. Matches(ipam[call[t].name], call[t].op, call[t].given) = {}
      <4>1. call[t].name \in Networks
        BY DEF Tables, TypeOK, Calls
      <4>2. ipam[call[t].name] = NoSubnet
        BY <2>2, <4>1 DEF Tables, SubnetSeen
      <4> QED BY <4>2 DEF Matches, NoSubnet
    <3> QED BY <3>1, <3>3, RefusePool DEF Pool!Next
  <2> QED BY <2>1, <2>2
<1>5. ASSUME NEW t \in Threads, Lock(t)
      PROVE  [Pool!Next]_(Pool!vars)
  <2>1. Asked' = Asked
    BY <1>5 DEF Lock, Step, Asked, AskOf, Tables, TypeOK, Calls
  <2> QED BY <1>5, <2>1, StutterPool DEF Lock
<1>6. ASSUME NEW t \in Threads, Check(t)
      PROVE  [Pool!Next]_(Pool!vars)
  <2>1. CASE Acceptable(ipam[call[t].name], call[t].op, call[t].given)
    <3>1. Asked' = Asked
      BY <1>6, <2>1 DEF Check, Step, Asked, AskOf, Tables, TypeOK, Calls
    <3> QED BY <1>6, <3>1, StutterPool DEF Check
  <2>2. CASE ~Acceptable(ipam[call[t].name], call[t].op, call[t].given)
    <3>1. /\ call[t].pc # "idle" /\ ipam' = ipam
          /\ call' = [call EXCEPT ![t].pc = "idle"]
      BY <1>6, <2>2 DEF Check, Leave, Step
    <3> QED BY <2>2, <3>1, RejectedHasNoMatch, RefusePool DEF Pool!Next
  <2> QED BY <2>1, <2>2
<1>7. ASSUME NEW t \in Threads, Scan(t)
      PROVE  [Pool!Next]_(Pool!vars)
  <2>1. CASE Matches(ipam[call[t].name], call[t].op, call[t].given) = {}
    <3>1. /\ call[t].pc # "idle" /\ ipam' = ipam
          /\ call' = [call EXCEPT ![t].pc = "idle"]
      BY <1>7, <2>1 DEF Scan, Leave, Step
    <3> QED BY <2>1, <3>1, RefusePool DEF Pool!Next
  <2>2. CASE Matches(ipam[call[t].name], call[t].op, call[t].given) # {}
    <3>1. Asked' = Asked
      BY <1>7, <2>2 DEF Scan, Asked, AskOf, Tables, TypeOK, Calls
    <3> QED BY <1>7, <3>1, StutterPool DEF Scan
  <2> QED BY <2>1, <2>2
<1>8. ASSUME NEW t \in Threads, Mark(t)
      PROVE  [Pool!Next]_(Pool!vars)
  <2> DEFINE c == call[t]
             s == ipam[c.name]
  <2>1. /\ c.name \in Networks /\ s.on /\ c.pc = "mark" /\ c.op \in {"get", "release"}
        /\ ipam' = [ipam EXCEPT ![c.name] = Marked(@, c.op, c.found)]
        /\ call' = [call EXCEPT ![t].pc = "idle"]
    BY <1>8 DEF Mark, Leave, Step, Tables, TypeOK, Calls
  <2>2. c.found \in Matches(s, c.op, c.given)
    BY <2>1 DEF Tables, FoundStillTrue
  <2>3. c.found \in s.ips
    BY <2>1, <2>2 DEF Matches, Tables, TablesInSubnet
  <2>4. /\ Asked[t] = [op |-> c.op, name |-> c.name, given |-> c.given]
        /\ Asked' = [Asked EXCEPT ![t] = Pool!NoRequest]
    BY <2>1, ReturnPool
  <2>5. /\ ipam'[c.name].ips = s.ips
        /\ ipam'[c.name].used = IF c.op = "get" THEN s.used \cup {c.found}
                                ELSE s.used \ {c.found}
    <3>1. ipam'[c.name] = Marked(s, c.op, c.found) /\ s \in Subnets
      BY <2>1 DEF Tables, TypeOK
    <3> QED BY <2>3, <3>1 DEF Marked, Subnets
  <2>6. \A n \in Networks : n # c.name => ipam'[n] = ipam[n]
    BY <2>1 DEF Tables, TypeOK
  <2>7. Range' = Range
    BY <2>5, <2>6 DEF Range
  <2>8. /\ Taken[c.name] = s.used
        /\ Taken' = [Taken EXCEPT ![c.name] = ipam'[c.name].used]
    <3>1. c.name \in Networks
      BY <2>1
    <3> QED BY <2>6, <3>1 DEF Taken
  <2>9. /\ Asked[t].op = c.op /\ Asked[t].name = c.name /\ Asked[t].given = c.given
        /\ Pool!Answered(t) /\ UNCHANGED Range
    BY <2>4, <2>7 DEF Pool!Answered
  <2>10. CASE c.op = "get"
    <3>1. Taken' = [Taken EXCEPT ![c.name] = Taken[c.name] \cup {c.found}]
      BY <2>5, <2>8, <2>10
    <3>2. c.found \in Range[c.name] \ Taken[c.name] /\ c.given \in {NoIP, c.found}
      BY <2>1, <2>2, <2>10 DEF Matches, Range, Taken
    <3>3. c.found \in Pool!Grantable(Asked[t])
      BY <2>9, <3>2 DEF Pool!Grantable
    <3>4. Pool!Grant(t)
      BY <2>9, <2>10, <3>1, <3>3 DEF Pool!Grant
    <3> QED BY <3>4 DEF Pool!Next
  <2>11. CASE c.op = "release"
    <3>1. c.found = c.given /\ c.given \in Taken[c.name]
      BY <2>2, <2>8, <2>11 DEF Matches
    <3>2. Taken' = [Taken EXCEPT ![c.name] = Taken[c.name] \ {c.given}]
      BY <2>5, <2>8, <2>11, <3>1
    <3>3. Pool!GiveBack(t)
      BY <2>9, <2>11, <3>1, <3>2 DEF Pool!GiveBack
    <3> QED BY <3>3 DEF Pool!Next
  <2> QED BY <2>1, <2>10, <2>11
<1>9. ASSUME NEW t \in Threads, NilMapPanic(t)
      PROVE  [Pool!Next]_(Pool!vars)
  BY <1>9, StutterPool DEF NilMapPanic, Asked
<1>10. CASE UNCHANGED vars
  BY <1>10, StutterPool DEF vars, Asked
<1> QED
  BY <1>1, <1>2, <1>3, <1>4, <1>5, <1>6, <1>7, <1>8, <1>9, <1>10 DEF Next, Thread

\* As long as a network gets a subnet only once, every GetIP and ReleaseIP
\* takes effect at one moment: no address is granted while it is taken, and a
\* call is refused only if it must be.
THEOREM ImplementsAddressPool ==
    ASSUME Generations <= 1
    PROVE  Spec => PoolSpec
<1>1. Init => Tables /\ Pool!Init
  BY InitTables, InitPool
<1>2. Tables /\ [Next]_vars => Tables'
  BY NextTables
<1>3. Tables /\ [Next]_vars => [Pool!Next]_(Pool!vars)
  BY NextPool
<1> QED BY <1>1, <1>2, <1>3, PTL DEF Spec, PoolSpec, Pool!Spec

=============================================================================
