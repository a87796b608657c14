--------------------------- MODULE LeaderElection ---------------------------
(***************************************************************************)
(* The replicas of the helper: one of them holds a Lease and runs the      *)
(* services, the others stand by.  A process has three goroutines: main,   *)
(* which runs the elector of client-go, the services that the elector      *)
(* starts, and the one that waits for a signal.  They share the label of   *)
(* the pod, which the metrics service selects, and the server addresses on *)
(* the bind interfaces.  Both outlive the process, the pod does not.       *)
(*                                                                         *)
(* Time is counted in units that suffice for a process to start, to end    *)
(* and to try a renewal.                                                   *)
(***************************************************************************)
EXTENDS Integers, FiniteSets

CONSTANTS
    Replicas,
    None,           \* nobody holds the Lease
    LeaseDuration,  \* the age at which others may take the Lease
    GiveUp,         \* RetryPeriod and RenewDeadline: how long a leader tries
    Budget          \* how often the environment may do each thing

BudgetKeys ==
    {"signal", "crash", "restart", "miss", "stall", "outage", "unlabel", "unclean", "any"}

ASSUME LeaderConstants ==
    /\ None \notin Replicas
    /\ LeaseDuration \in Nat /\ GiveUp \in Nat \ {0}
    /\ GiveUp < LeaseDuration
    /\ Budget \in [BudgetKeys -> Nat]

VARIABLES
    lease,      \* API: the holder of the Lease and the time since its renewal
    label,      \* API: the replicas whose pod has the label
    addrs,      \* the replicas with server addresses on their interfaces
    elector,    \* the main goroutine of each replica
    services,   \* ... the goroutine of OnStartedLeading
    signal,     \* ... the goroutine that waits for a signal
    waited,     \* ... the time since a renewal the elector knows of
    budget      \* what the environment may still do

vars == <<lease, label, addrs, elector, services, signal, waited, budget>>

Electors == {"down", "init", "acquire", "lead", "release", "unlabel", "clean", "exit"}
Services == {"none", "label", "pools", "serve", "unlabel", "close"}
Signals  == {"none", "caught", "clean", "exit"}

\* "any" counts them all.
Spend(what) ==
    /\ budget[what] > 0 /\ budget["any"] > 0
    /\ budget' = [budget EXCEPT ![what] = @ - 1, !["any"] = @ - 1]

ElectorGoes(r, pc)  == elector' = [elector EXCEPT ![r] = pc]
ServicesGo(r, pc)   == services' = [services EXCEPT ![r] = pc]
SignalGoes(r, pc)   == signal' = [signal EXCEPT ![r] = pc]

Init ==
    /\ lease = [holder |-> None, age |-> 0]
    /\ label = {} /\ addrs = {}
    /\ elector  = [r \in Replicas |-> "down"]
    /\ services = [r \in Replicas |-> "none"]
    /\ signal   = [r \in Replicas |-> "none"]
    /\ waited   = [r \in Replicas |-> 0]
    /\ budget = Budget

-----------------------------------------------------------------------------
(* What the goroutines share.  The label is read and written in two        *)
(* requests; a write that meets another is lost, as if it came before.     *)

\* Mutant: the label stays.
StillLabelled(r) == UNCHANGED <<label, budget>>

RemoveLeaderPodLabel(r) ==
    \/ label' = label \ {r} /\ UNCHANGED budget
    \/ r \in label /\ Spend("unlabel") /\ UNCHANGED label

\* Mutant: the addresses stay.
StillAddressed(r) == UNCHANGED <<addrs, budget>>

\* Without the list of the pools nothing is removed.
NetworkCleanup(r) ==
    \/ addrs' = addrs \ {r} /\ UNCHANGED budget
    \/ r \in addrs /\ Spend("unclean") /\ UNCHANGED addrs

\* The process ends.  Its container is started again in the same pod, or
\* the pod is replaced.
Die(r) ==
    /\ \E gone \in {{}, {r}} : label' = label \ gone /\ addrs' = addrs \ gone
    /\ ElectorGoes(r, "down") /\ ServicesGo(r, "none") /\ SignalGoes(r, "none")
    /\ waited' = [waited EXCEPT ![r] = 0]
    /\ UNCHANGED lease

-----------------------------------------------------------------------------
(* The main goroutine.                                                     *)

StartProcess(r) ==
    /\ elector[r] = "down"
    /\ ElectorGoes(r, "init")
    /\ NetworkCleanup(r)
    /\ UNCHANGED <<lease, label, services, signal, waited>>

InitApp(r) ==
    /\ elector[r] = "init"
    /\ ElectorGoes(r, "acquire")
    /\ RemoveLeaderPodLabel(r)
    /\ UNCHANGED <<lease, addrs, services, signal, waited>>

Cancelled(r) == signal[r] # "none"

\* Mutant: a lease counts as expired when its holder should give up.
FreeEarly == lease.holder = None \/ lease.age >= GiveUp

\* Mutant: a lease never expires.
NeverFree == lease.holder = None

\* The identity of a process is new: it waits for its own Lease of before, too.
Free == lease.holder = None \/ lease.age >= LeaseDuration

Acquire(r) ==
    /\ elector[r] = "acquire" /\ ~Cancelled(r) /\ Free
    /\ lease' = [holder |-> r, age |-> 0]
    /\ ElectorGoes(r, "lead") /\ ServicesGo(r, "label")
    /\ UNCHANGED <<label, addrs, signal, waited, budget>>

\* The answer to a renewal may be lost.
Renew(r) ==
    /\ elector[r] = "lead" /\ ~Cancelled(r) /\ waited[r] > 0
    /\ lease.holder = r \/ Free
    /\ lease' = [holder |-> r, age |-> 0]
    /\ \/ waited' = [waited EXCEPT ![r] = 0] /\ UNCHANGED budget
       \/ waited[r] < GiveUp /\ Spend("miss") /\ UNCHANGED waited
    /\ UNCHANGED <<label, addrs, elector, services, signal>>

\* The elector ends: a signal cancelled its context, or no renewal succeeded.
StopElector(r) ==
    /\ \/ /\ elector[r] = "lead" /\ (Cancelled(r) \/ waited[r] >= GiveUp)
          /\ ElectorGoes(r, "release")
       \/ /\ elector[r] = "acquire" /\ Cancelled(r)
          /\ ElectorGoes(r, "unlabel")
    /\ UNCHANGED <<lease, label, addrs, services, signal, waited, budget>>

\* ReleaseOnCancel.
Release(r) ==
    /\ elector[r] = "release"
    /\ ElectorGoes(r, "unlabel")
    /\ \/ /\ lease' = IF lease.holder = r THEN [holder |-> None, age |-> 0] ELSE lease
          /\ UNCHANGED budget
       \/ lease.holder = r /\ Spend("miss") /\ UNCHANGED lease
    /\ UNCHANGED <<label, addrs, services, signal, waited>>

\* OnStoppedLeading, also of an elector that never led.
Unlabel(r) ==
    /\ elector[r] = "unlabel"
    /\ ElectorGoes(r, "clean")
    /\ RemoveLeaderPodLabel(r)
    /\ UNCHANGED <<lease, addrs, services, signal, waited>>

CleanNetwork(r) ==
    /\ elector[r] = "clean"
    /\ ElectorGoes(r, "exit")
    /\ NetworkCleanup(r)
    /\ UNCHANGED <<lease, label, services, signal, waited>>

\* Mutant: the process stays and takes part in the next election.
Rejoin(r) ==
    /\ elector[r] = "exit"
    /\ ElectorGoes(r, "acquire")
    /\ UNCHANGED <<lease, label, addrs, services, signal, waited, budget>>

Exit(r) ==
    /\ elector[r] = "exit"
    /\ Die(r)
    /\ UNCHANGED budget

Elector(r) ==
    \/ StartProcess(r) \/ InitApp(r) \/ Acquire(r) \/ Renew(r)
    \/ StopElector(r) \/ Release(r) \/ Unlabel(r) \/ CleanNetwork(r) \/ Exit(r)

-----------------------------------------------------------------------------
(* The services.  Nobody tells them that the elector ended.                *)

AddLeaderPodLabel(r) ==
    /\ services[r] = "label"
    /\ ServicesGo(r, "pools")
    /\ \/ label' = label \cup {r} /\ UNCHANGED budget
       \/ Spend("unlabel") /\ UNCHANGED label
    /\ UNCHANGED <<lease, addrs, elector, signal, waited>>

\* RunServices waits for ever for a pool whose address is already there.
RegisterPools(r) ==
    /\ services[r] = "pools" /\ r \notin addrs
    /\ ServicesGo(r, "serve")
    /\ addrs' = addrs \cup {r}
    /\ UNCHANGED <<lease, label, elector, signal, waited, budget>>

\* A pool was changed: the services are stopped and run again.
Restart(r) ==
    /\ services[r] = "serve"
    /\ Spend("restart")
    /\ ServicesGo(r, "unlabel")
    /\ UNCHANGED <<lease, label, addrs, elector, signal, waited>>

RestartUnlabels(r) ==
    /\ services[r] = "unlabel"
    /\ ServicesGo(r, "close")
    /\ RemoveLeaderPodLabel(r)
    /\ UNCHANGED <<lease, addrs, elector, signal, waited>>

RestartCleans(r) ==
    /\ services[r] = "close"
    /\ ServicesGo(r, "label")
    /\ NetworkCleanup(r)
    /\ UNCHANGED <<lease, label, elector, signal, waited>>

RunServices(r) ==
    \/ AddLeaderPodLabel(r) \/ RegisterPools(r) \/ RestartUnlabels(r) \/ RestartCleans(r)

-----------------------------------------------------------------------------
(* The goroutine that waits for a signal.                                  *)

CatchSignal(r) ==
    /\ signal[r] = "none" /\ elector[r] # "down"
    /\ Spend("signal")
    /\ SignalGoes(r, "caught")
    /\ UNCHANGED <<lease, label, addrs, elector, services, waited>>

SignalUnlabels(r) ==
    /\ signal[r] = "caught"
    /\ SignalGoes(r, "clean")
    /\ RemoveLeaderPodLabel(r)
    /\ UNCHANGED <<lease, addrs, elector, services, waited>>

SignalCleans(r) ==
    /\ signal[r] = "clean"
    /\ SignalGoes(r, "exit")
    /\ NetworkCleanup(r)
    /\ UNCHANGED <<lease, label, elector, services, waited>>

SignalExits(r) ==
    /\ signal[r] = "exit"
    /\ Die(r)
    /\ UNCHANGED budget

HandleSignal(r) == SignalUnlabels(r) \/ SignalCleans(r) \/ SignalExits(r)

-----------------------------------------------------------------------------
(* The environment.                                                        *)

Crash(r) ==
    /\ elector[r] # "down"
    /\ Spend("crash")
    /\ Die(r)

\* The replica is not about to do something: a leader that could not renew in
\* time gives up.
Settled(r) == elector[r] \in {"acquire", "lead"} /\ ~Cancelled(r)
InTime(r)  == Settled(r) /\ (elector[r] = "lead" => waited[r] < GiveUp)

\* Each kind of delay has its budget: a process that is stalled, a container
\* that is not started, a renewal that does not succeed.
Tick ==
    /\ IF \E r \in Replicas : ~InTime(r) /\ elector[r] # "down" THEN Spend("stall")
       ELSE IF \E r \in Replicas : elector[r] = "down" THEN Spend("outage")
       ELSE IF \E r \in Replicas : waited[r] > 0 THEN Spend("miss")
       ELSE UNCHANGED budget
    /\ lease' = IF lease.age < LeaseDuration THEN [lease EXCEPT !.age = @ + 1] ELSE lease
    /\ waited' = [r \in Replicas |->
                   IF elector[r] = "lead" /\ waited[r] < GiveUp THEN waited[r] + 1
                   ELSE waited[r]]
    /\ UNCHANGED <<label, addrs, elector, services, signal>>

Next ==
    \/ \E r \in Replicas : \/ Elector(r) \/ RunServices(r) \/ HandleSignal(r)
                           \/ Restart(r) \/ CatchSignal(r) \/ Crash(r)
    \/ Tick

Spec == Init /\ [][Next]_vars

\* Goroutines run, containers are started, time goes on.
FairSpec ==
    /\ Spec
    /\ \A r \in Replicas :
         WF_vars(Elector(r)) /\ WF_vars(RunServices(r)) /\ WF_vars(HandleSignal(r))
    /\ WF_vars(Tick)

-----------------------------------------------------------------------------
(* Properties.                                                             *)

\* Every variable holds a value the code can produce, and only a replica that
\* led runs services.
TypeOK ==
    /\ lease \in [holder : Replicas \cup {None}, age : 0..LeaseDuration]
    /\ label \subseteq Replicas /\ addrs \subseteq Replicas
    /\ elector \in [Replicas -> Electors]
    /\ services \in [Replicas -> Services]
    /\ signal \in [Replicas -> Signals]
    /\ waited \in [Replicas -> 0..GiveUp]
    /\ budget \in [BudgetKeys -> Nat]
    /\ \A r \in Replicas :
         services[r] # "none" => elector[r] \notin {"down", "init", "acquire"}

Unspent(what) == budget[what] = Budget[what]

Leads(r) == elector[r] = "lead"

\* As long as no process was stalled no two replicas take themselves for the
\* leader: a leader gives up before others may take its Lease.
OneLeader == Unspent("stall") => \A r, s \in Replicas : Leads(r) /\ Leads(s) => r = s

OnlyCrashes == Unspent("signal") /\ Unspent("miss") /\ Unspent("outage")

\* As long as no process was stalled and no clean-up failed, of two replicas
\* with server addresses one is on its way out or in.  When replicas were only
\* killed, and started again in time, no two ever have addresses: the one that
\* was killed removes its own before another can lead (comment at main.go:44-46).
AddressOnce ==
    Unspent("stall") /\ Unspent("unclean") =>
      \A r, s \in addrs : OnlyCrashes \/ (Settled(r) /\ Settled(s)) => r = s

\* As long as no request for it failed the label marks the leader and nobody
\* else, and a leader that serves has it (comments at main.go:47, app.go:95).
LabelMarksLeader ==
    Unspent("unlabel") => \A r \in Replicas : Settled(r) =>
      /\ r \in label => Leads(r)
      /\ services[r] = "serve" => r \in label

\* As long as the addresses could be removed, some replica serves again and
\* again, whatever happened to the others.
TakesOver ==
    [](Unspent("unclean")) => []<>(\E r \in Replicas : services[r] = "serve")
=============================================================================
