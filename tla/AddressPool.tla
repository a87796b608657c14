---------------------------- MODULE AddressPool ----------------------------
(***************************************************************************)
(* What the address allocator promises its callers: every call takes       *)
(* effect at one moment between the request and the answer.  An address    *)
(* is granted only while it belongs to the subnet and nobody has it, it is *)
(* the requested one if there was one, and a call is refused only if no    *)
(* answer was possible at that moment.                                     *)
(***************************************************************************)
EXTENDS Integers

CONSTANTS Networks, Threads, Addresses, NoIP

VARIABLES
    range,  \* the addresses of each subnet, none while there is no subnet
    taken,  \* those that are granted and not released
    ask     \* the call each thread waits for

vars == <<range, taken, ask>>

Requests == [op : {"get", "release"}, name : Networks, given : Addresses \cup {NoIP}]
NoRequest == [op |-> "none", name |-> "none", given |-> NoIP]

Init ==
    /\ range = [n \in Networks |-> {}]
    /\ taken = [n \in Networks |-> {}]
    /\ ask = [t \in Threads |-> NoRequest]

Open(n) ==
    /\ range[n] = {}
    /\ \E r \in SUBSET Addresses : range' = [range EXCEPT ![n] = r]
    /\ UNCHANGED <<taken, ask>>

Close(n) ==
    /\ range' = [range EXCEPT ![n] = {}]
    /\ taken' = [taken EXCEPT ![n] = {}]
    /\ UNCHANGED ask

Ask(t) ==
    /\ ask[t] = NoRequest
    /\ \E r \in Requests : ask' = [ask EXCEPT ![t] = r]
    /\ UNCHANGED <<range, taken>>

Answered(t) == ask' = [ask EXCEPT ![t] = NoRequest]

\* The addresses that may be the answer to a request.
Grantable(r) == {a \in range[r.name] \ taken[r.name] : r.given \in {NoIP, a}}

Grant(t) ==
    /\ ask[t].op = "get"
    /\ \E a \in Grantable(ask[t]) : taken' = [taken EXCEPT ![ask[t].name] = @ \cup {a}]
    /\ Answered(t)
    /\ UNCHANGED range

GiveBack(t) ==
    /\ ask[t].op = "release"
    /\ ask[t].given \in taken[ask[t].name]
    /\ taken' = [taken EXCEPT ![ask[t].name] = @ \ {ask[t].given}]
    /\ Answered(t)
    /\ UNCHANGED range

Refuse(t) ==
    /\ \/ ask[t].op = "get" /\ Grantable(ask[t]) = {}
       \/ ask[t].op = "release" /\ ask[t].given \notin taken[ask[t].name]
    /\ Answered(t)
    /\ UNCHANGED <<range, taken>>

Next ==
    \/ \E n \in Networks : Open(n) \/ Close(n)
    \/ \E t \in Threads : Ask(t) \/ Grant(t) \/ GiveBack(t) \/ Refuse(t)

Spec == Init /\ [][Next]_vars

=============================================================================
