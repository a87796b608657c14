----------------------------- MODULE MCIpHelper -----------------------------
EXTENDS IpHelper, TLC

CONSTANTS v1, v2, v3, m1, m2, m3, n1, n2, a1, a2, a3
CONSTANTS Creates, Updates, Unplugs, Deletes, Edits, Manuals, Reloads, Crashes, Fails

MCBudget == [create |-> Creates, update |-> Updates, unplug |-> Unplugs,
             delete |-> Deletes, edit |-> Edits, manual |-> Manuals,
             reload |-> Reloads, crash |-> Crashes, fail |-> Fails]

\* When the environment acts: while the helper has nothing to do, at any time,
\* at any time but for the changes of virtual machines, which wait until it has
\* nothing to do, or at any time but for edits, reloads and crashes, which wait
\* likewise, and for vmnetcfgs of users, which come while the helper is down.
Patient     == [k \in BudgetKeys |-> {"idle"}]
Anytime     == [k \in BudgetKeys |-> Circumstances]
UpdatesIdle == [k \in BudgetKeys |-> IF k = "update" THEN {"idle"} ELSE Circumstances]
EditsIdle   == [k \in BudgetKeys |-> IF k \in {"edit", "reload", "crash"} THEN {"idle"}
                                    ELSE IF k = "manual" THEN {"down"}
                                    ELSE {"idle", "busy", "down"}]

\* A vmnetcfg that is created while the helper is down is created in another
\* second than the pool status updates before and after it.
DistinctSeconds ==
    phase \in {"down", "pools"} =>
      \A v \in VMs : cfg[v].exists /\ ~cfg[v].fin =>
        \A n \in Configured : cfg[v].ctime \notin {pool[n].lu, pool[n].lubs}

\* One interface each, every one with a MAC address of its own.
OneNic == [v \in VMs |-> {{<<IF v = v1 THEN m1 ELSE IF v = v2 THEN m2 ELSE m3, n1>>}}]

\* v1 can have no interface yet, one, or two on the same network.
HotPlug == [v \in VMs |-> IF v = v1 THEN {{}, {<<m1, n1>>}, {<<m1, n1>>, <<m2, n1>>}}
                          ELSE {{<<m3, n1>>}}]

\* Two virtual machines can come with the same MAC address.
SharedMac == [v \in VMs |-> {{<<IF v = v3 THEN m2 ELSE m1, n1>>}}]

\* v1 has an interface on each of two networks, the second from the start or
\* plugged in later.
TwoNetworks == [v \in VMs |-> IF v = v1 THEN {{<<m1, n1>>}, {<<m1, n1>>, <<m2, n2>>}}
                              ELSE {{<<m3, n1>>}}]
=============================================================================
