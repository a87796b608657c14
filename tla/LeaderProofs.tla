---------------------------- MODULE LeaderProofs ----------------------------
(***************************************************************************)
(* Proofs about the election, for any number of replicas, any durations    *)
(* and any number of signals, crashes, lost renewals and failed requests.  *)
(***************************************************************************)
EXTENDS LeaderElection, TLAPS

-----------------------------------------------------------------------------
(* The budget only shrinks.                                                *)

Spending == \A what \in BudgetKeys : budget[what] <= Budget[what]

Typed == TypeOK /\ Spending

Frugal ==
    /\ budget' \in [BudgetKeys -> Nat]
    /\ \A what \in BudgetKeys : budget'[what] <= budget[what]

LEMMA SpendFrugal ==
    ASSUME Typed, NEW what \in BudgetKeys \ {"any"}, Spend(what)
    PROVE  Frugal /\ ~Unspent(what)'
BY LeaderConstants DEF Typed, TypeOK, Spending, Spend, Frugal, Unspent, BudgetKeys

LEMMA UnchangedFrugal ==
    ASSUME Typed, UNCHANGED budget
    PROVE  Frugal
BY LeaderConstants DEF Typed, TypeOK, Frugal, BudgetKeys

\* What a step leaves unspent was unspent before it.
LEMMA Unspending ==
    ASSUME Typed, Frugal
    PROVE  /\ Spending'
           /\ \A what \in BudgetKeys : Unspent(what)' => Unspent(what)
BY LeaderConstants DEF Typed, TypeOK, Spending, Frugal, Unspent, BudgetKeys

LEMMA LabelRemoved ==
    ASSUME Typed, NEW r \in Replicas, RemoveLeaderPodLabel(r)
    PROVE  /\ Frugal
           /\ label' \in {label, label \ {r}}
           /\ Unspent("unlabel")' => r \notin label'
BY SpendFrugal, UnchangedFrugal DEF RemoveLeaderPodLabel, BudgetKeys

LEMMA AddressesRemoved ==
    ASSUME Typed, NEW r \in Replicas, NetworkCleanup(r)
    PROVE  /\ Frugal
           /\ addrs' \in {addrs, addrs \ {r}}
           /\ Unspent("unclean")' => r \notin addrs'
BY SpendFrugal, UnchangedFrugal DEF NetworkCleanup, BudgetKeys

LEMMA NextFrugal == Typed /\ [Next]_vars => Frugal
<1> SUFFICES ASSUME Typed, [Next]_vars PROVE Frugal
    OBVIOUS
<1> USE SpendFrugal, UnchangedFrugal, LabelRemoved, AddressesRemoved DEF BudgetKeys
<1>1. ASSUME NEW r \in Replicas, Elector(r)
      PROVE  Frugal
  BY <1>1 DEF Elector, StartProcess, InitApp, Acquire, Renew, StopElector, Release,
              Unlabel, CleanNetwork, Exit
<1>2. ASSUME NEW r \in Replicas, RunServices(r) \/ Restart(r)
      PROVE  Frugal
  BY <1>2 DEF RunServices, AddLeaderPodLabel, RegisterPools, RestartUnlabels,
              RestartCleans, Restart
<1>3. ASSUME NEW r \in Replicas, HandleSignal(r) \/ CatchSignal(r) \/ Crash(r)
      PROVE  Frugal
  BY <1>3 DEF HandleSignal, SignalUnlabels, SignalCleans, SignalExits, CatchSignal, Crash
<1>4. CASE Tick
  BY <1>4 DEF Tick
<1>5. CASE UNCHANGED vars
  BY <1>5 DEF vars
<1> QED BY <1>1, <1>2, <1>3, <1>4, <1>5 DEF Next

-----------------------------------------------------------------------------
(* Types.                                                                  *)

LEMMA InitTyped == Init => Typed
BY LeaderConstants DEF Init, Typed, TypeOK, Spending, Electors, Services, Signals, BudgetKeys

LEMMA DieTyped ==
    ASSUME Typed, NEW r \in Replicas, Die(r), Frugal
    PROVE  TypeOK'
BY LeaderConstants
   DEF Typed, TypeOK, Die, ElectorGoes, ServicesGo, SignalGoes, Electors, Services,
       Signals, Frugal

LEMMA NextTyped == Typed /\ [Next]_vars => Typed'
<1> SUFFICES ASSUME Typed, [Next]_vars PROVE TypeOK'
    BY NextFrugal, Unspending DEF Typed
<1>0. Frugal
  BY NextFrugal
<1> USE <1>0, LeaderConstants
    DEF Typed, TypeOK, ElectorGoes, ServicesGo, SignalGoes, Electors, Services,
        Signals, Frugal
<1>1. ASSUME NEW r \in Replicas, StartProcess(r) \/ CleanNetwork(r)
      PROVE  TypeOK'
  BY <1>1, AddressesRemoved DEF StartProcess, CleanNetwork
<1>2. ASSUME NEW r \in Replicas, InitApp(r) \/ Unlabel(r)
      PROVE  TypeOK'
  BY <1>2, LabelRemoved DEF InitApp, Unlabel
<1>3. ASSUME NEW r \in Replicas, Acquire(r)
      PROVE  TypeOK'
  BY <1>3 DEF Acquire
<1>4. ASSUME NEW r \in Replicas, Renew(r)
      PROVE  TypeOK'
  BY <1>4 DEF Renew
<1>5. ASSUME NEW r \in Replicas, StopElector(r)
      PROVE  TypeOK'
  BY <1>5 DEF StopElector
<1>6. ASSUME NEW r \in Replicas, Release(r)
      PROVE  TypeOK'
  BY <1>6 DEF Release
<1>7. ASSUME NEW r \in Replicas, Exit(r) \/ SignalExits(r) \/ Crash(r)
      PROVE  TypeOK'
  BY <1>7, DieTyped DEF Exit, SignalExits, Crash
<1>8. ASSUME NEW r \in Replicas, AddLeaderPodLabel(r) \/ RegisterPools(r) \/ Restart(r)
      PROVE  TypeOK'
  BY <1>8 DEF AddLeaderPodLabel, RegisterPools, Restart
<1>9. ASSUME NEW r \in Replicas, RestartUnlabels(r)
      PROVE  TypeOK'
  BY <1>9, LabelRemoved DEF RestartUnlabels
<1>10. ASSUME NEW r \in Replicas, RestartCleans(r)
       PROVE  TypeOK'
  BY <1>10, AddressesRemoved DEF RestartCleans
<1>11. ASSUME NEW r \in Replicas, CatchSignal(r)
       PROVE  TypeOK'
  BY <1>11 DEF CatchSignal
<1>12. ASSUME NEW r \in Replicas, SignalUnlabels(r)
       PROVE  TypeOK'
  BY <1>12, LabelRemoved DEF SignalUnlabels
<1>13. ASSUME NEW r \in Replicas, SignalCleans(r)
       PROVE  TypeOK'
  BY <1>13, AddressesRemoved DEF SignalCleans
<1>14. CASE Tick
  BY <1>14 DEF Tick
<1>15. CASE UNCHANGED vars
  BY <1>15 DEF vars
<1> QED
  BY <1>1, <1>2, <1>3, <1>4, <1>5, <1>6, <1>7, <1>8, <1>9, <1>10, <1>11, <1>12,
     <1>13, <1>14, <1>15
  DEF Next, Elector, RunServices, HandleSignal

\* For any number of replicas every variable keeps to its values: a Lease is
\* held by a replica, its age and what a process counts never exceed their
\* bounds.
THEOREM LeaderTypes == Spec => []TypeOK
<1>1. Typed => TypeOK
  BY DEF Typed
<1> QED BY <1>1, InitTyped, NextTyped, PTL DEF Spec

-----------------------------------------------------------------------------
(* One leader.                                                             *)

\* A leader holds the Lease, and knows of a renewal that is no younger than
\* the last one: it gives up before the Lease expires.
Leading ==
    Unspent("stall") =>
      \A r \in Replicas : Leads(r) => lease.holder = r /\ lease.age <= waited[r]

LEMMA LeadingExcludes ==
    ASSUME Typed, Leading, Unspent("stall"), NEW r \in Replicas, Leads(r)
    PROVE  ~Free /\ lease.holder = r
BY LeaderConstants DEF Typed, TypeOK, Leading, Free

LEMMA DieLeading ==
    ASSUME Typed, Leading, NEW r \in Replicas, Die(r), Frugal
    PROVE  Leading'
BY Unspending DEF Typed, TypeOK, Leading, Die, Leads, ElectorGoes, BudgetKeys

LEMMA NextLeading == Typed /\ Leading /\ [Next]_vars => Leading'
<1> SUFFICES ASSUME Typed, Leading, [Next]_vars, Unspent("stall")'
             PROVE  Leading'
    BY DEF Leading
<1>0. Frugal /\ Unspent("stall")
  BY NextFrugal, Unspending DEF BudgetKeys
<1> USE <1>0
<1>1. ASSUME NEW r \in Replicas, Acquire(r)
      PROVE  Leading'
  <2>1. \A s \in Replicas : ~Leads(s)
    BY <1>1, LeadingExcludes DEF Acquire
  <2> QED BY <1>1, <2>1 DEF Acquire, Typed, TypeOK, Leading, Leads, ElectorGoes
<1>2. ASSUME NEW r \in Replicas, Renew(r)
      PROVE  Leading'
  <2>1. \A s \in Replicas : Leads(s) => s = r
    BY <1>2, LeadingExcludes DEF Renew
  <2> QED BY <1>2, <2>1 DEF Renew, Typed, TypeOK, Leading, Leads
<1>3. ASSUME NEW r \in Replicas, Release(r)
      PROVE  Leading'
  <2>1. ~Leads(r)
    BY <1>3 DEF Release, Leads
  <2> QED BY <1>3, <2>1 DEF Release, Typed, TypeOK, Leading, Leads, ElectorGoes
<1>4. ASSUME NEW r \in Replicas,
             StartProcess(r) \/ InitApp(r) \/ StopElector(r) \/ Unlabel(r) \/ CleanNetwork(r)
      PROVE  Leading'
  BY <1>4 DEF StartProcess, InitApp, StopElector, Unlabel, CleanNetwork, Typed, TypeOK,
              Leading, Leads, ElectorGoes
<1>5. ASSUME NEW r \in Replicas, Exit(r) \/ SignalExits(r) \/ Crash(r)
      PROVE  Leading'
  BY <1>5, DieLeading DEF Exit, SignalExits, Crash
<1>6. ASSUME NEW r \in Replicas,
             RunServices(r) \/ Restart(r) \/ CatchSignal(r) \/ SignalUnlabels(r) \/ SignalCleans(r)
      PROVE  Leading'
  BY <1>6 DEF RunServices, AddLeaderPodLabel, RegisterPools, RestartUnlabels, RestartCleans,
              Restart, CatchSignal, SignalUnlabels, SignalCleans, Leading, Leads
<1>7. CASE Tick
  <2>1. \A r \in Replicas : Leads(r) => InTime(r)
    BY <1>7, SpendFrugal DEF Tick, Leads, BudgetKeys
  <2> QED BY <1>7, <2>1 DEF Tick, InTime, Typed, TypeOK, Leading, Leads
<1>8. CASE UNCHANGED vars
  BY <1>8 DEF vars, Leading, Leads
<1> QED
  BY <1>1, <1>2, <1>3, <1>4, <1>5, <1>6, <1>7, <1>8 DEF Next, Elector, HandleSignal

\* For any number of replicas: as long as no process was stalled two never
\* take themselves for the leader (app.go:127-133).
THEOREM OneLeaderHolds == Spec => [](TypeOK /\ OneLeader)
<1>1. Init => Typed /\ Leading
  BY InitTyped DEF Init, Leading, Leads
<1>2. Typed /\ Leading => TypeOK /\ OneLeader
  BY LeadingExcludes DEF OneLeader, Typed
<1> QED BY <1>1, <1>2, NextTyped, NextLeading, PTL DEF Spec

-----------------------------------------------------------------------------
(* The label.                                                              *)

\* A replica that stands by has no label, one whose services have passed the
\* label has it until it is asked to go.
Labelled ==
    Unspent("unlabel") => \A r \in Replicas :
      /\ elector[r] = "acquire" => r \notin label
      /\ services[r] \in {"pools", "serve"} /\ Settled(r) => r \in label

LEMMA DieLabelled ==
    ASSUME Typed, Labelled, NEW r \in Replicas, Die(r), Frugal
    PROVE  Labelled'
BY Unspending
DEF Typed, TypeOK, Labelled, Die, Settled, Cancelled, ElectorGoes, ServicesGo, SignalGoes, BudgetKeys

LEMMA NextLabelled == Typed /\ Labelled /\ [Next]_vars => Labelled'
<1> SUFFICES ASSUME Typed, Labelled, [Next]_vars, Unspent("unlabel")'
             PROVE  Labelled'
    BY DEF Labelled
<1>0. Frugal /\ Unspent("unlabel")
  BY NextFrugal, Unspending DEF BudgetKeys
<1> USE <1>0
    DEF Typed, TypeOK, Labelled, Settled, Cancelled, ElectorGoes, ServicesGo, SignalGoes
<1>1. ASSUME NEW r \in Replicas, InitApp(r) \/ Unlabel(r)
      PROVE  Labelled'
  BY <1>1, LabelRemoved DEF InitApp, Unlabel
<1>2. ASSUME NEW r \in Replicas, RestartUnlabels(r)
      PROVE  Labelled'
  BY <1>2, LabelRemoved DEF RestartUnlabels
<1>3. ASSUME NEW r \in Replicas, SignalUnlabels(r)
      PROVE  Labelled'
  BY <1>3, LabelRemoved DEF SignalUnlabels
<1>4. ASSUME NEW r \in Replicas, AddLeaderPodLabel(r)
      PROVE  Labelled'
  BY <1>4, SpendFrugal DEF AddLeaderPodLabel, BudgetKeys
<1>5. ASSUME NEW r \in Replicas,
             StartProcess(r) \/ Acquire(r) \/ Renew(r) \/ StopElector(r) \/ Release(r) \/ CleanNetwork(r)
      PROVE  Labelled'
  BY <1>5 DEF StartProcess, Acquire, Renew, StopElector, Release, CleanNetwork
<1>6. ASSUME NEW r \in Replicas, Exit(r) \/ SignalExits(r) \/ Crash(r)
      PROVE  Labelled'
  BY <1>6, DieLabelled DEF Exit, SignalExits, Crash
<1>7. ASSUME NEW r \in Replicas, RegisterPools(r) \/ Restart(r) \/ RestartCleans(r)
      PROVE  Labelled'
  BY <1>7 DEF RegisterPools, Restart, RestartCleans
<1>8. ASSUME NEW r \in Replicas, CatchSignal(r) \/ SignalCleans(r)
      PROVE  Labelled'
  BY <1>8 DEF CatchSignal, SignalCleans
<1>9. CASE Tick \/ UNCHANGED vars
  BY <1>9 DEF Tick, vars
<1> QED
  BY <1>1, <1>2, <1>3, <1>4, <1>5, <1>6, <1>7, <1>8, <1>9
  DEF Next, Elector, RunServices, HandleSignal

\* For any number of replicas: as long as no request for it failed the label is
\* on the leader that serves, and on no replica that stands by.
THEOREM LabelHolds == Spec => []LabelMarksLeader
<1>1. Init => Typed /\ Labelled
  BY InitTyped DEF Init, Labelled, Settled
<1>2. Typed /\ Labelled => LabelMarksLeader
  BY DEF Labelled, LabelMarksLeader, Settled, Leads
<1> QED BY <1>1, <1>2, NextTyped, NextLabelled, PTL DEF Spec

-----------------------------------------------------------------------------
(* The server addresses.                                                   *)

\* A replica that stands by, or is about to, has no addresses.
Cleaned ==
    Unspent("unclean") => \A r \in addrs : elector[r] \notin {"init", "acquire"}

LEMMA DieCleaned ==
    ASSUME Typed, Cleaned, NEW r \in Replicas, Die(r), Frugal
    PROVE  Cleaned'
BY Unspending DEF Typed, TypeOK, Cleaned, Die, ElectorGoes, BudgetKeys

LEMMA NextCleaned == Typed /\ Cleaned /\ [Next]_vars => Cleaned'
<1> SUFFICES ASSUME Typed, Cleaned, [Next]_vars, Unspent("unclean")'
             PROVE  Cleaned'
    BY DEF Cleaned
<1>0. Frugal /\ Unspent("unclean")
  BY NextFrugal, Unspending DEF BudgetKeys
<1> USE <1>0 DEF Typed, TypeOK, Cleaned, ElectorGoes, ServicesGo, SignalGoes
<1>1. ASSUME NEW r \in Replicas, StartProcess(r) \/ CleanNetwork(r)
      PROVE  Cleaned'
  BY <1>1, AddressesRemoved DEF StartProcess, CleanNetwork
<1>2. ASSUME NEW r \in Replicas, RestartCleans(r) \/ SignalCleans(r)
      PROVE  Cleaned'
  BY <1>2, AddressesRemoved DEF RestartCleans, SignalCleans
<1>3. ASSUME NEW r \in Replicas,
             InitApp(r) \/ Acquire(r) \/ Renew(r) \/ StopElector(r) \/ Release(r) \/ Unlabel(r)
      PROVE  Cleaned'
  BY <1>3 DEF InitApp, Acquire, Renew, StopElector, Release, Unlabel
<1>4. ASSUME NEW r \in Replicas, Exit(r) \/ SignalExits(r) \/ Crash(r)
      PROVE  Cleaned'
  BY <1>4, DieCleaned DEF Exit, SignalExits, Crash
<1>5. ASSUME NEW r \in Replicas, RegisterPools(r)
      PROVE  Cleaned'
  BY <1>5 DEF RegisterPools
<1>6. ASSUME NEW r \in Replicas,
             AddLeaderPodLabel(r) \/ Restart(r) \/ RestartUnlabels(r) \/ CatchSignal(r) \/ SignalUnlabels(r)
      PROVE  Cleaned'
  BY <1>6 DEF AddLeaderPodLabel, Restart, RestartUnlabels, CatchSignal, SignalUnlabels
<1>7. CASE Tick \/ UNCHANGED vars
  BY <1>7 DEF Tick, vars
<1> QED
  BY <1>1, <1>2, <1>3, <1>4, <1>5, <1>6, <1>7 DEF Next, Elector, RunServices, HandleSignal

Undisturbed == Unspent("stall") /\ Unspent("unclean") /\ OnlyCrashes

\* As long as replicas are only killed, and start again in time, none is on its
\* way out, renewals succeed, and a replica with addresses holds the Lease.
Crashed ==
    Undisturbed =>
      /\ \A r \in Replicas :
           /\ signal[r] = "none" /\ elector[r] \in {"down", "init", "acquire", "lead"}
           /\ waited[r] <= 1
      /\ \A r \in addrs : lease.holder = r /\ lease.age <= 1

LEMMA UndisturbedBefore ==
    ASSUME Typed, Frugal, Undisturbed'
    PROVE  Undisturbed
BY Unspending DEF Undisturbed, OnlyCrashes, BudgetKeys

\* The Lease of a replica with addresses is not free.
LEMMA CrashedExcludes ==
    ASSUME Typed, Crashed, Undisturbed, NEW r \in addrs, GiveUp > 1
    PROVE  ~Free /\ lease.holder = r
BY LeaderConstants DEF Typed, TypeOK, Crashed, Free

LEMMA NextCrashed ==
    ASSUME GiveUp > 1
    PROVE  Typed /\ Leading /\ Cleaned /\ Crashed /\ [Next]_vars => Crashed'
<1> SUFFICES ASSUME Typed, Leading, Cleaned, Crashed, [Next]_vars, Undisturbed'
             PROVE  Crashed'
    BY DEF Crashed
<1>0. Frugal /\ Undisturbed
  BY NextFrugal, UndisturbedBefore
<1>1. /\ \A r \in Replicas : /\ signal[r] = "none"
                             /\ elector[r] \in {"down", "init", "acquire", "lead"}
                             /\ waited[r] <= 1
      /\ \A r \in addrs : lease.holder = r /\ lease.age <= 1
  BY <1>0 DEF Crashed
<1> USE <1>0 DEF Typed, TypeOK, Crashed, ElectorGoes, ServicesGo, SignalGoes
<1>2. ASSUME NEW r \in Replicas, StartProcess(r)
      PROVE  Crashed'
  BY <1>1, <1>2, AddressesRemoved DEF StartProcess
<1>3. ASSUME NEW r \in Replicas, InitApp(r)
      PROVE  Crashed'
  BY <1>1, <1>3 DEF InitApp
<1>4. ASSUME NEW r \in Replicas, Acquire(r)
      PROVE  Crashed'
  <2>1. addrs = {}
    BY <1>4, CrashedExcludes DEF Acquire
  <2> QED BY <1>1, <1>4, <2>1 DEF Acquire
<1>5. ASSUME NEW r \in Replicas, Renew(r)
      PROVE  Crashed'
  <2>1. \A s \in addrs : s = r
    BY <1>5, CrashedExcludes DEF Renew
  <2> QED BY <1>1, <1>5, <2>1 DEF Renew
<1>6. ASSUME NEW r \in Replicas,
             StopElector(r) \/ Release(r) \/ Unlabel(r) \/ CleanNetwork(r) \/ Exit(r)
      PROVE  FALSE
  BY <1>1, <1>6, LeaderConstants DEF StopElector, Release, Unlabel, CleanNetwork, Exit, Cancelled
<1>7. ASSUME NEW r \in Replicas, HandleSignal(r)
      PROVE  FALSE
  BY <1>1, <1>7 DEF HandleSignal, SignalUnlabels, SignalCleans, SignalExits
<1>8. ASSUME NEW r \in Replicas, CatchSignal(r)
      PROVE  FALSE
  BY <1>8, SpendFrugal DEF CatchSignal, Undisturbed, OnlyCrashes, BudgetKeys
<1>9. ASSUME NEW r \in Replicas, Crash(r)
      PROVE  Crashed'
  BY <1>1, <1>9 DEF Crash, Die
<1>10. ASSUME NEW r \in Replicas, RegisterPools(r)
       PROVE  Crashed'
  <2>1. Leads(r)
    BY <1>1, <1>10 DEF RegisterPools, Leads
  <2>2. lease.holder = r /\ lease.age <= 1
    BY <1>1, <2>1 DEF Leading, Undisturbed
  <2> QED BY <1>1, <1>10, <2>2 DEF RegisterPools
<1>11. ASSUME NEW r \in Replicas, RestartCleans(r)
       PROVE  Crashed'
  BY <1>1, <1>11, AddressesRemoved DEF RestartCleans
<1>12. ASSUME NEW r \in Replicas, AddLeaderPodLabel(r) \/ Restart(r) \/ RestartUnlabels(r)
       PROVE  Crashed'
  BY <1>1, <1>12 DEF AddLeaderPodLabel, Restart, RestartUnlabels
<1>13. CASE Tick
  <2>1. \A r \in Replicas : InTime(r) /\ elector[r] # "down" /\ waited[r] = 0
    BY <1>1, <1>13, SpendFrugal DEF Tick, Undisturbed, OnlyCrashes, BudgetKeys
  <2>2. \A r \in addrs : Leads(r)
    BY <1>1, <2>1 DEF Cleaned, Undisturbed, Leads
  <2>3. \A r \in addrs : lease.age = 0
    BY <2>1, <2>2 DEF Leading, Undisturbed
  <2> QED BY <1>1, <1>13, <2>1, <2>3 DEF Tick
<1>14. CASE UNCHANGED vars
  BY <1>1, <1>14 DEF vars, Undisturbed, OnlyCrashes, Unspent
<1> QED
  BY <1>2, <1>3, <1>4, <1>5, <1>6, <1>7, <1>8, <1>9, <1>10, <1>11, <1>12, <1>13, <1>14
  DEF Next, Elector, RunServices

\* For any number of replicas, when a leader gets a second try to renew: as long
\* as no process was stalled and no clean-up failed, two replicas have server
\* addresses only while one of them is on its way out, and never when replicas
\* are only killed and start again in time (main.go:44-48).
THEOREM AddressesHold ==
    ASSUME GiveUp > 1
    PROVE  Spec => []AddressOnce
<1>1. Init => Typed /\ Leading /\ Cleaned /\ Crashed
  BY InitTyped DEF Init, Leading, Leads, Cleaned, Crashed
<1>2. Typed /\ Leading /\ Cleaned /\ Crashed => AddressOnce
  <2> SUFFICES ASSUME Typed, Leading, Cleaned, Crashed, Unspent("stall"), Unspent("unclean"),
                      NEW r \in addrs, NEW s \in addrs,
                      OnlyCrashes \/ (Settled(r) /\ Settled(s))
               PROVE  r = s
      BY DEF AddressOnce
  <2>1. CASE OnlyCrashes
    BY <2>1 DEF Crashed, Undisturbed
  <2>2. CASE Settled(r) /\ Settled(s)
    <3>1. Leads(r) /\ Leads(s)
      BY <2>2 DEF Cleaned, Settled, Leads
    <3> QED BY <3>1 DEF Leading, Typed, TypeOK
  <2> QED BY <2>1, <2>2
<1>3. Typed /\ Leading /\ Cleaned /\ Crashed /\ [Next]_vars
        => (Typed /\ Leading /\ Cleaned /\ Crashed)'
  BY NextTyped, NextLeading, NextCleaned, NextCrashed
<1> QED BY <1>1, <1>2, <1>3, PTL DEF Spec
=============================================================================
