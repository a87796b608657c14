--------------------------- MODULE MCApplication ---------------------------
EXTENDS Application, TLC

CONSTANTS p1, p2, n1, n2, c1, c2, c3, o1, o2, a1, a2
CONSTANTS Creates, Changes, Reloads, Deletes, Tenants, Questions, Crashes, Fails,
          Sockets

MCBudget == [create |-> Creates, change |-> Changes, reload |-> Reloads,
             delete |-> Deletes, tenant |-> Tenants, packet |-> Questions,
             crash |-> Crashes, fail |-> Fails, listen |-> Sockets]

Faulty == {"crash", "fail", "listen"}

\* When the environment acts: users while the application has nothing to do;
\* or as long as it runs, pools being deleted at any time; or everything at any
\* time.  Faults always come at any time.
Always  == {"idle", "busy", "starting", "down"}
Patient == [k \in BudgetKeys |-> IF k \in Faulty THEN Always ELSE {"idle"}]
Busy    == [k \in BudgetKeys |-> CASE k \in Faulty \cup {"delete"} -> Always
                                   [] k = "create" -> {"idle"}
                                   [] OTHER -> {"idle", "busy"}]
Anytime == [k \in BudgetKeys |-> Always]

\* c1 and c2 differ in the range only, c3 has another server address.
MCServerIP == [c \in Confs |-> IF c = c3 THEN a2 ELSE a1]

\* Every pool keeps its network, one of its own or the same for all; only p1 is
\* ever configured differently.
Given(net) ==
    [p \in Pools |->
      [net : {net[p]}, conf : IF p = p1 THEN Confs ELSE {c1}, opts : IF p = p1 THEN Opts ELSE {o1}]]

OwnNet    == Given([p \in Pools |-> IF p = p1 THEN n1 ELSE n2])
SharedNet == Given([p \in Pools |-> n1])
=============================================================================
