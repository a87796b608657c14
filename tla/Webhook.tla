------------------------------ MODULE Webhook -------------------------------
(***************************************************************************)
(* The process of the admission webhook: main, the scheduler that renews   *)
(* the certificate, the HTTPS server, and what surrounds them: the signer  *)
(* of the cluster, the kubelet, rolling updates, the clock.                *)
(***************************************************************************)
EXTENDS CertConfig

NoProcess == [pc |-> "none", renewing |-> FALSE, replaces |-> FALSE, pair |-> None,
              files |-> None, served |-> None, timer |-> 0]
Down      == [NoProcess EXCEPT !.pc = "down"]

Exists(w) == ~At(w, "none")

\* A first installation, or one after another whose certificate is new or has
\* expired.
Init ==
    /\ \E t \in {0, Validity} : LET k == CHOOSE k \in Keys : TRUE IN
         /\ secret \in {None, [key |-> k, cert |-> k]}
         /\ left = [i \in Keys |-> IF i = k THEN t ELSE 0]
    /\ csr = None
    /\ vwc \in BOOLEAN
    /\ pod = [w \in Pods |-> IF w = 1 THEN Down ELSE NoProcess]
    /\ budget = Budget

-----------------------------------------------------------------------------
(* The process.  A panic ends it, and the files with it.                   *)

Die(w) == pod' = [pod EXCEPT ![w] = Down]

StartWebhook(w) ==
    /\ At(w, "down")
    /\ Go(w, "checkSecret")
    /\ UNCHANGED <<secret, csr, vwc, left, budget>>

\* Init of the admission handler: the configuration is created unless it
\* exists.  An error is a panic, also when it only seems not to exist.
RegisterWebhook(w) ==
    /\ At(w, "register")
    /\ \/ /\ vwc' = TRUE
          /\ Go(w, "schedule")
          /\ UNCHANGED budget
       \/ /\ vwc' \in {vwc, TRUE}
          /\ Spend("fail")
          /\ Die(w)
    /\ UNCHANGED <<secret, csr, left>>

LongestOf(s, t) == IF s > t THEN s ELSE t

\* Mutant: the tick comes when the certificate has Period minutes left.
DelayOnTime(s) == LongestOf(Minutes(left[s.cert]) - Period, 1)

\* Mutant: nothing keeps the minutes positive.
DelayUnbounded(s) == Minutes(left[s.cert]) - Period + 1

\* sTime: the minutes until the tick.
Delay(s) == LongestOf(Minutes(left[s.cert]) - Period + 1, 1)

\* StartCertRenewalScheduler panics without a certificate it can read.
Schedule(w) ==
    /\ At(w, "schedule")
    /\ \/ /\ Readable(secret)
          /\ pod' = [pod EXCEPT ![w].timer = Delay(secret) * Minute,
                                ![w].pc = IF pod[w].renewing THEN "wait" ELSE "serve"]
          /\ UNCHANGED budget
       \/ /\ IF Readable(secret) THEN Spend("fail") ELSE UNCHANGED budget
          /\ Die(w)
    /\ UNCHANGED <<secret, csr, vwc, left>>

\* ListenAndServeTLS returns at once when key and certificate do not match.
Loaded(files) == IF files # None /\ files.key = files.cert THEN files ELSE None

\* The scheduler stops the server of before; main and scheduler start one.
Serve(w) ==
    /\ At(w, "serve")
    /\ pod' = [pod EXCEPT ![w].served = Loaded(pod[w].files),
                          ![w].pc = IF pod[w].renewing THEN "schedule" ELSE "wait"]
    /\ UNCHANGED <<secret, csr, vwc, left, budget>>

\* The goroutine of the scheduler receives the tick.
Renew(w) ==
    /\ At(w, "wait") /\ pod[w].timer = 0
    /\ pod' = [pod EXCEPT ![w].pc = "checkSecret", ![w].renewing = TRUE]
    /\ UNCHANGED <<secret, csr, vwc, left, budget>>

Work(w) ==
    \/ StartWebhook(w) \/ ConfigRun(w) \/ RegisterWebhook(w) \/ Schedule(w)
    \/ Serve(w) \/ Renew(w)

-----------------------------------------------------------------------------
(* The environment.                                                        *)

Sign ==
    /\ csr # None /\ csr.approved /\ csr.cert = Empty
    /\ csr' = [csr EXCEPT !.cert = csr.key]
    /\ left' = [left EXCEPT ![csr.key] = Validity]
    /\ UNCHANGED <<secret, vwc, pod, budget>>

\* Time passes while the pods wait: the work between two waits is assumed to
\* take less than a unit, and so is the replacement of a pod.
PassTime ==
    /\ \A w \in Pods : pod[w].pc \in {"none", "down", "wait"}
    /\ \A w \in Pods : At(w, "wait") => pod[w].timer > 0
    /\ Cardinality({w \in Pods : Exists(w)}) = 1
    /\ IF \E w \in Pods : At(w, "down") THEN Spend("outage") ELSE UNCHANGED budget
    /\ left' = [k \in Keys |-> IF k \in InUse /\ left[k] > 0 THEN left[k] - 1 ELSE 0]
    /\ pod' = [w \in Pods |-> IF At(w, "wait") THEN [pod[w] EXCEPT !.timer = @ - 1] ELSE pod[w]]
    /\ UNCHANGED <<secret, csr, vwc>>

Crash(w) ==
    /\ Exists(w) /\ ~At(w, "down")
    /\ Spend("crash")
    /\ Die(w)
    /\ UNCHANGED <<secret, csr, vwc, left>>

\* A rolling update starts the next pod beside the one that runs: at any time,
\* or only when nobody is about to renew the certificate.
Rollout(w) ==
    /\ Exists(w) /\ w + 1 \in Pods /\ ~Exists(w + 1)
    /\ Window \/ (At(w, "wait") /\ Readable(secret) /\ ~Due(secret))
    /\ Spend("rollout")
    /\ pod' = [pod EXCEPT ![w + 1] = Down]
    /\ UNCHANGED <<secret, csr, vwc, left>>

\* The next pod counts as ready when its container runs.
Terminate(w) ==
    /\ Exists(w) /\ w + 1 \in Pods /\ Exists(w + 1) /\ ~At(w + 1, "down")
    /\ pod' = [pod EXCEPT ![w] = NoProcess]
    /\ UNCHANGED <<secret, csr, vwc, left, budget>>

Next ==
    \/ \E w \in Pods : Work(w) \/ Crash(w) \/ Rollout(w) \/ Terminate(w)
    \/ Sign \/ PassTime

Spec == Init /\ [][Next]_vars

\* The goroutines run, the kubelet starts what ended, the signer signs, pods
\* are replaced, and time goes on.
FairSpec ==
    /\ Spec
    /\ \A w \in Pods : WF_vars(Work(w)) /\ WF_vars(Terminate(w))
    /\ WF_vars(Sign) /\ WF_vars(PassTime)

-----------------------------------------------------------------------------
(* Properties.                                                             *)

\* Every variable holds a value the code can produce.
TypeOK ==
    /\ secret \in Pairs \cup {None}
    /\ csr \in CSRs \cup {None}
    /\ vwc \in BOOLEAN
    /\ left \in [Keys -> 0..Validity]
    /\ pod \in [Pods -> PodStates]
    /\ budget \in [BudgetKeys -> Nat]

Matching(pair) == pair # None => pair.cert \in {pair.key, Empty}

\* The certificate in the Secret is the one of the key beside it, whatever a
\* crash, a failed request or a request left from before comes between.
Paired == Matching(secret)

Valid(pair) == pair # None /\ left[pair.cert] > 0

\* As long as the files could be written, no certificate expires while a server
\* uses it: the renewal period leaves room for failed renewals.
NeverExpires ==
    [][\A w \in Pods : Valid(pod[w].served) /\ pod'[w].served = pod[w].served
         /\ budget["miscopy"] = Budget["miscopy"] => Valid(pod[w].served)']_vars

\* A tick is never for nothing: when it arrives the certificate is due (the
\* extra minute of the scheduler).
TickRenews ==
    [][\A w \in Pods : At(w, "checkExpire") /\ pod[w].renewing /\ budget' = budget
         => ~At(w, "copy")']_vars

Guarding == vwc /\ \E w \in Pods : Valid(pod[w].served)

\* Whatever fails, as long as the signer is in time the webhook is registered
\* and serves a valid certificate again and again.
Recovers == [](budget["late"] = Budget["late"]) => []<>Guarding
=============================================================================
