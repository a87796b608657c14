--------------------------- MODULE WebhookProofs ----------------------------
(***************************************************************************)
(* Proofs about the certificates of the webhook, for any set of keys, any  *)
(* periods and any number of crashes, outages, late signatures and failed  *)
(* requests and writes.                                                    *)
(***************************************************************************)
EXTENDS Webhook, TLAPS

-----------------------------------------------------------------------------
(* Types.                                                                  *)

\* What a renewal has made so far is there when it is needed.
Made ==
    \A w \in Pods : pod[w].pc \in {"fetch", "delete", "store"} => pod[w].pair \in Pairs

LEMMA SpendTyped ==
    ASSUME TypeOK, NEW what \in BudgetKeys, Spend(what)
    PROVE  budget' \in [BudgetKeys -> Nat]
BY DEF TypeOK, Spend

LEMMA NoProcessTyped == NoProcess \in PodStates /\ Down \in PodStates
BY DEF NoProcess, Down, PodStates, Steps

\* The timer gets a whole number of minutes, and not less than one.
LEMMA DelayTyped ==
    ASSUME TypeOK, Readable(secret)
    PROVE  Delay(secret) \in Nat \ {0} /\ Delay(secret) * Minute \in Nat
<1>1. secret.cert \in Keys
  BY DEF TypeOK, Readable, Pairs
<1>2. left[secret.cert] \in Nat
  BY <1>1, CertConstants DEF TypeOK
<1>3. Minutes(left[secret.cert]) \in Int
  BY <1>2, CertConstants DEF Minutes
<1>4. Delay(secret) \in Nat \ {0}
  BY <1>3, CertConstants DEF Delay, LongestOf
<1> QED BY <1>4, CertConstants

\* A step that sets the program counter and the pair.
LEMMA PairTyped ==
    ASSUME TypeOK, Made, NEW w \in Pods, NEW pc \in Steps, NEW pair \in Pairs \cup {None},
           pc \in {"fetch", "delete", "store"} => pair \in Pairs,
           pod' = [pod EXCEPT ![w].pc = pc, ![w].pair = pair]
    PROVE  pod' \in [Pods -> PodStates] /\ Made'
<1>1. pod[w] \in PodStates
  BY DEF TypeOK
<1>2. [pod[w] EXCEPT !.pc = pc, !.pair = pair] \in PodStates
  BY <1>1 DEF PodStates
<1>3. pod' = [pod EXCEPT ![w] = [pod[w] EXCEPT !.pc = pc, !.pair = pair]]
  BY DEF TypeOK
<1>4. pod' \in [Pods -> PodStates]
  BY <1>2, <1>3 DEF TypeOK
<1>5. pod'[w].pc = pc /\ pod'[w].pair = pair
  BY <1>1, <1>3 DEF TypeOK, PodStates
<1>6. \A v \in Pods \ {w} : pod'[v] = pod[v]
  BY <1>3 DEF TypeOK
<1> QED BY <1>4, <1>5, <1>6 DEF Made

\* A step that sets the program counter alone.
LEMMA GoTyped ==
    ASSUME TypeOK, Made, NEW w \in Pods, NEW pc \in Steps, Go(w, pc),
           pc \in {"fetch", "delete", "store"} => pod[w].pair \in Pairs
    PROVE  pod' \in [Pods -> PodStates] /\ Made'
<1>1. pod[w] \in PodStates
  BY DEF TypeOK
<1>2. pod' = [pod EXCEPT ![w].pc = pc, ![w].pair = pod[w].pair]
  BY <1>1 DEF Go, TypeOK, PodStates
<1>3. pod[w].pair \in Pairs \cup {None}
  BY <1>1 DEF PodStates
<1> QED BY <1>2, <1>3, PairTyped

\* A step to checkCSR, for a new Secret or for one that is replaced.
LEMMA ReplacesTyped ==
    ASSUME TypeOK, Made, NEW w \in Pods, NEW b \in BOOLEAN,
           pod' = [pod EXCEPT ![w].pc = "checkCSR", ![w].replaces = b]
    PROVE  pod' \in [Pods -> PodStates] /\ Made'
<1>1. pod[w] \in PodStates
  BY DEF TypeOK
<1>2. [pod[w] EXCEPT !.pc = "checkCSR", !.replaces = b] \in PodStates
  BY <1>1 DEF PodStates, Steps
<1>3. pod' = [pod EXCEPT ![w] = [pod[w] EXCEPT !.pc = "checkCSR", !.replaces = b]]
  BY DEF TypeOK
<1>4. pod' \in [Pods -> PodStates]
  BY <1>2, <1>3 DEF TypeOK
<1>5. pod'[w].pc = "checkCSR" /\ \A v \in Pods \ {w} : pod'[v] = pod[v]
  BY <1>1, <1>3 DEF TypeOK, PodStates
<1> QED BY <1>4, <1>5 DEF Made

\* A step that sets the program counter and the files.
LEMMA FilesTyped ==
    ASSUME TypeOK, Made, NEW w \in Pods, NEW pc \in {"serve", "register"},
           NEW files \in Pairs \cup {None},
           pod' = [pod EXCEPT ![w].pc = pc, ![w].files = files]
    PROVE  pod' \in [Pods -> PodStates] /\ Made'
<1>1. pod[w] \in PodStates
  BY DEF TypeOK
<1>2. [pod[w] EXCEPT !.pc = pc, !.files = files] \in PodStates
  BY <1>1 DEF PodStates, Steps
<1>3. pod' = [pod EXCEPT ![w] = [pod[w] EXCEPT !.pc = pc, !.files = files]]
  BY DEF TypeOK
<1>4. pod' \in [Pods -> PodStates]
  BY <1>2, <1>3 DEF TypeOK
<1>5. pod'[w].pc = pc /\ \A v \in Pods \ {w} : pod'[v] = pod[v]
  BY <1>1, <1>3 DEF TypeOK, PodStates
<1> QED BY <1>4, <1>5 DEF Made

\* A step that sets the program counter and the timer.
LEMMA TimerTyped ==
    ASSUME TypeOK, Made, NEW w \in Pods, NEW pc \in {"wait", "serve"}, NEW t \in Nat,
           pod' = [pod EXCEPT ![w].timer = t, ![w].pc = pc]
    PROVE  pod' \in [Pods -> PodStates] /\ Made'
<1>1. pod[w] \in PodStates
  BY DEF TypeOK
<1>2. [pod[w] EXCEPT !.timer = t, !.pc = pc] \in PodStates
  BY <1>1 DEF PodStates, Steps
<1>3. pod' = [pod EXCEPT ![w] = [pod[w] EXCEPT !.timer = t, !.pc = pc]]
  BY DEF TypeOK
<1>4. pod' \in [Pods -> PodStates]
  BY <1>2, <1>3 DEF TypeOK
<1>5. pod'[w].pc = pc /\ \A v \in Pods \ {w} : pod'[v] = pod[v]
  BY <1>1, <1>3 DEF TypeOK, PodStates
<1> QED BY <1>4, <1>5 DEF Made

LEMMA AbortTyped ==
    ASSUME TypeOK, Made, NEW w \in Pods, Abort(w)
    PROVE  pod' \in [Pods -> PodStates] /\ Made'
BY PairTyped DEF Abort, Steps

LEMMA DieTyped ==
    ASSUME TypeOK, Made, NEW w \in Pods, Die(w)
    PROVE  pod' \in [Pods -> PodStates] /\ Made'
BY NoProcessTyped DEF Die, TypeOK, Made, NoProcess, Down

LEMMA InitTyped == Init => TypeOK /\ Made
<1> SUFFICES ASSUME Init PROVE TypeOK /\ Made
    OBVIOUS
<1>1. PICK t \in {0, Validity} : LET k == CHOOSE k \in Keys : TRUE IN
        /\ secret \in {None, [key |-> k, cert |-> k]}
        /\ left = [i \in Keys |-> IF i = k THEN t ELSE 0]
  BY DEF Init
<1>2. (CHOOSE k \in Keys : TRUE) \in Keys
  BY CertConstants
<1>3. secret \in Pairs \cup {None}
  BY <1>1, <1>2 DEF Pairs
<1>4. left \in [Keys -> 0..Validity]
  BY <1>1, CertConstants
<1>5. pod \in [Pods -> PodStates] /\ Made
  BY NoProcessTyped DEF Init, Made, NoProcess, Down
<1> QED BY <1>3, <1>4, <1>5, CertConstants DEF Init, TypeOK

LEMMA NextTyped == TypeOK /\ Made /\ [Next]_vars => TypeOK' /\ Made'
<1> SUFFICES ASSUME TypeOK, Made, [Next]_vars
             PROVE  TypeOK' /\ Made'
    OBVIOUS
<1> USE CertConstants, SpendTyped, NoProcessTyped
<1>1. ASSUME NEW w \in Pods, StartWebhook(w)
      PROVE  TypeOK' /\ Made'
  BY <1>1, GoTyped DEF StartWebhook, TypeOK, Steps
<1>2. ASSUME NEW w \in Pods, CheckSecret(w)
      PROVE  TypeOK' /\ Made'
  <2>1. budget' \in [BudgetKeys -> Nat]
    BY <1>2 DEF CheckSecret, TypeOK, BudgetKeys
  <2>2. pod' \in [Pods -> PodStates] /\ Made'
    BY <1>2, GoTyped, ReplacesTyped DEF CheckSecret, Steps
  <2> QED BY <1>2, <2>1, <2>2 DEF CheckSecret, TypeOK
<1>3. ASSUME NEW w \in Pods, CheckExpire(w)
      PROVE  TypeOK' /\ Made'
  <2>1. budget' \in [BudgetKeys -> Nat]
    BY <1>3 DEF CheckExpire, TypeOK, BudgetKeys
  <2>2. pod' \in [Pods -> PodStates] /\ Made'
    BY <1>3, GoTyped, ReplacesTyped DEF CheckExpire, Steps
  <2> QED BY <1>3, <2>1, <2>2 DEF CheckExpire, TypeOK
<1>4. ASSUME NEW w \in Pods, RemoveCSR(w)
      PROVE  TypeOK' /\ Made'
  <2>1. budget' \in [BudgetKeys -> Nat] /\ csr' \in CSRs \cup {None}
    BY <1>4 DEF RemoveCSR, TypeOK, BudgetKeys
  <2>2. pod' \in [Pods -> PodStates] /\ Made'
    BY <1>4, GoTyped DEF RemoveCSR, Steps
  <2> QED BY <1>4, <2>1, <2>2 DEF RemoveCSR, TypeOK
<1>5. ASSUME NEW w \in Pods, CreateCSR(w)
      PROVE  TypeOK' /\ Made'
  <2> PICK k \in Fresh : CreateCSR(w)!2!(k)
    BY <1>5 DEF CreateCSR
  <2>1. k \in Keys /\ Request(k, TRUE) \in CSRs /\ Request(k, FALSE) \in CSRs
    BY DEF Fresh, Request, CSRs
  <2>2. csr' \in CSRs \cup {None} /\ budget' \in [BudgetKeys -> Nat]
    BY <2>1 DEF TypeOK, BudgetKeys
  <2>3. CASE pod' = [pod EXCEPT ![w].pc = "fetch", ![w].pair = [key |-> k, cert |-> Empty]]
    <3>1. [key |-> k, cert |-> Empty] \in Pairs
      BY <2>1 DEF Pairs
    <3>2. pod' \in [Pods -> PodStates] /\ Made'
      BY <2>3, <3>1, PairTyped DEF Steps
    <3> QED BY <1>5, <2>2, <3>2 DEF CreateCSR, TypeOK
  <2>4. CASE Abort(w)
    BY <1>5, <2>2, <2>4, AbortTyped DEF CreateCSR, TypeOK
  <2> QED BY <2>3, <2>4
<1>6. ASSUME NEW w \in Pods, FetchCertificate(w)
      PROVE  TypeOK' /\ Made'
  <2>1. budget' \in [BudgetKeys -> Nat]
    BY <1>6 DEF FetchCertificate, TypeOK, BudgetKeys
  <2>2. CASE Abort(w)
    BY <1>6, <2>1, <2>2, AbortTyped DEF FetchCertificate, TypeOK
  <2>3. CASE csr # None /\ ~Abort(w)
    <3> DEFINE pair == [key |-> pod[w].pair.key, cert |-> csr.cert]
    <3>1. pair \in Pairs
      BY <1>6, <2>3 DEF FetchCertificate, At, TypeOK, Made, Pairs, CSRs
    <3>2. \E pc \in {"delete", "store"} : pod' = [pod EXCEPT ![w].pc = pc, ![w].pair = pair]
      BY <1>6, <2>3 DEF FetchCertificate
    <3>3. pod' \in [Pods -> PodStates] /\ Made'
      BY <3>1, <3>2, PairTyped DEF Steps
    <3> QED BY <1>6, <2>1, <3>3 DEF FetchCertificate, TypeOK
  <2> QED BY <1>6, <2>2, <2>3 DEF FetchCertificate
<1>7. ASSUME NEW w \in Pods, DeleteSecret(w)
      PROVE  TypeOK' /\ Made'
  <2>1. budget' \in [BudgetKeys -> Nat] /\ secret' \in Pairs \cup {None}
    BY <1>7 DEF DeleteSecret, TypeOK, BudgetKeys
  <2>2. pod[w].pair \in Pairs
    BY <1>7 DEF DeleteSecret, At, Made
  <2>3. pod' \in [Pods -> PodStates] /\ Made'
    BY <1>7, <2>2, GoTyped, AbortTyped DEF DeleteSecret, Steps
  <2> QED BY <1>7, <2>1, <2>3 DEF DeleteSecret, TypeOK
<1>8. ASSUME NEW w \in Pods, StoreSecret(w)
      PROVE  TypeOK' /\ Made'
  <2>1. pod[w].pair \in Pairs
    BY <1>8 DEF StoreSecret, At, Made
  <2>2. secret' \in Pairs \cup {None} /\ budget' \in [BudgetKeys -> Nat]
    BY <1>8, <2>1 DEF StoreSecret, TypeOK, BudgetKeys
  <2> QED BY <1>8, <2>2, AbortTyped DEF StoreSecret, TypeOK
<1>9. ASSUME NEW w \in Pods, CopyFiles(w)
      PROVE  TypeOK' /\ Made'
  <2>1. budget' \in [BudgetKeys -> Nat]
    BY <1>9 DEF CopyFiles, TypeOK, BudgetKeys
  <2>2. PICK files \in Pairs \cup {None} :
          pod' = [pod EXCEPT ![w].pc = IF pod[w].renewing THEN "serve" ELSE "register",
                             ![w].files = files]
    BY <1>9 DEF CopyFiles
  <2> QED BY <1>9, <2>1, <2>2, FilesTyped DEF CopyFiles, TypeOK
<1>10. ASSUME NEW w \in Pods, RegisterWebhook(w)
       PROVE  TypeOK' /\ Made'
  <2>1. CASE Go(w, "schedule")
    BY <1>10, <2>1, GoTyped DEF RegisterWebhook, TypeOK, Steps, BudgetKeys
  <2>2. CASE Die(w)
    BY <1>10, <2>2, DieTyped DEF RegisterWebhook, TypeOK, BudgetKeys
  <2> QED BY <1>10, <2>1, <2>2 DEF RegisterWebhook
<1>11. ASSUME NEW w \in Pods, Schedule(w)
       PROVE  TypeOK' /\ Made'
  <2>1. CASE Die(w)
    BY <1>11, <2>1, DieTyped DEF Schedule, TypeOK, BudgetKeys
  <2>2. CASE Readable(secret) /\ ~Die(w)
    <3>1. PICK pc \in {"wait", "serve"} :
            pod' = [pod EXCEPT ![w].timer = Delay(secret) * Minute, ![w].pc = pc]
      BY <1>11, <2>2 DEF Schedule
    <3>2. Delay(secret) * Minute \in Nat
      BY <2>2, DelayTyped
    <3>3. pod' \in [Pods -> PodStates] /\ Made'
      BY <3>1, <3>2, TimerTyped
    <3> QED BY <1>11, <2>2, <3>3 DEF Schedule, TypeOK
  <2> QED BY <1>11, <2>1, <2>2 DEF Schedule
<1>12. ASSUME NEW w \in Pods, Serve(w)
       PROVE  TypeOK' /\ Made'
  BY <1>12 DEF Serve, Loaded, At, TypeOK, Made, PodStates, Steps
<1>13. ASSUME NEW w \in Pods, Renew(w)
       PROVE  TypeOK' /\ Made'
  BY <1>13 DEF Renew, At, TypeOK, Made, PodStates, Steps
<1>14. ASSUME NEW w \in Pods, Crash(w)
       PROVE  TypeOK' /\ Made'
  BY <1>14 DEF Crash, Die, TypeOK, Made, BudgetKeys, NoProcess, Down
<1>15. ASSUME NEW w \in Pods, Rollout(w)
       PROVE  TypeOK' /\ Made'
  BY <1>15 DEF Rollout, TypeOK, Made, BudgetKeys, NoProcess, Down
<1>16. ASSUME NEW w \in Pods, Terminate(w)
       PROVE  TypeOK' /\ Made'
  BY <1>16 DEF Terminate, TypeOK, Made, NoProcess
<1>17. CASE Sign
  BY <1>17 DEF Sign, TypeOK, Made, CSRs
<1>18. CASE PassTime
  <2>1. left' \in [Keys -> 0..Validity]
    BY <1>18 DEF PassTime, TypeOK
  <2>2. pod' \in [Pods -> PodStates]
    BY <1>18 DEF PassTime, At, TypeOK, PodStates
  <2>3. ASSUME NEW w \in Pods
        PROVE  pod'[w].pc = pod[w].pc /\ pod'[w].pair = pod[w].pair
    BY <1>18 DEF PassTime, TypeOK, PodStates
  <2> QED BY <1>18, <2>1, <2>2, <2>3 DEF PassTime, TypeOK, Made, BudgetKeys
<1>19. CASE UNCHANGED vars
  BY <1>19 DEF vars, TypeOK, Made
<1> QED
  BY <1>1, <1>2, <1>3, <1>4, <1>5, <1>6, <1>7, <1>8, <1>9, <1>10, <1>11, <1>12, <1>13,
     <1>14, <1>15, <1>16, <1>17, <1>18, <1>19
  DEF Next, Work, ConfigRun

-----------------------------------------------------------------------------
(* The key and its certificate.  The name of the signing request is shared *)
(* by all pods, so this is about one pod at a time.                        *)

Alone == budget["rollout"] = 0 /\ \A w \in Pods : w # 1 => At(w, "none")

\* The request that is read is the one that was made for the key in memory: a
\* request of before was removed, or the creation has failed.
Matched ==
    /\ Matching(csr) /\ Matching(secret)
    /\ At(1, "fetch") => (csr # None => csr.key = pod[1].pair.key)
    /\ At(1, "delete") \/ At(1, "store") => Matching(pod[1].pair)

LEMMA FirstPod == TypeOK => 1 \in Pods /\ pod[1] \in PodStates
BY CertConstants DEF TypeOK, Pods

LEMMA OnlyFirstWorks == Alone => \A w \in Pods : Work(w) => w = 1
BY DEF Alone, At, Work, ConfigRun, CheckSecret, CheckExpire, RemoveCSR, CreateCSR,
       FetchCertificate, DeleteSecret, StoreSecret, CopyFiles, StartWebhook,
       RegisterWebhook, Schedule, Serve, Renew

LEMMA DieSteps ==
    ASSUME TypeOK, Die(1)
    PROVE  pod'[1].pc = "down" /\ ~pod'[1].renewing
BY FirstPod DEF Die, NoProcess, Down, TypeOK

\* Where the steps lead that may panic.
LEMMA RegisterSteps ==
    ASSUME TypeOK, RegisterWebhook(1) \/ Schedule(1)
    PROVE  pod'[1].pc \in {"schedule", "wait", "serve", "down"}
<1>0. 1 \in Pods /\ pod[1] \in PodStates
  BY FirstPod
<1>1. CASE RegisterWebhook(1)
  BY <1>0, <1>1, DieSteps DEF RegisterWebhook, Go, TypeOK, PodStates
<1>2. CASE Schedule(1)
  BY <1>0, <1>2, DieSteps DEF Schedule, TypeOK, PodStates
<1> QED BY <1>1, <1>2

LEMMA CreateSteps ==
    ASSUME TypeOK, CreateCSR(1)
    PROVE  pod'[1].pc \in {"fetch", "copy"}
<1>0. 1 \in Pods /\ pod[1] \in PodStates
  BY FirstPod
<1>1. PICK k \in Fresh :
        \/ pod' = [pod EXCEPT ![1].pc = "fetch", ![1].pair = [key |-> k, cert |-> Empty]]
        \/ pod' = [pod EXCEPT ![1].pc = "copy", ![1].pair = None]
  BY DEF CreateCSR, Abort
<1> QED BY <1>0, <1>1 DEF TypeOK, PodStates

LEMMA InitMatched == Init => Matched
<1>1. Init => csr = None /\ Matching(secret)
  <2> DEFINE k == CHOOSE i \in Keys : TRUE
  <2>1. Init => secret = None \/ secret = [key |-> k, cert |-> k]
    BY DEF Init
  <2> HIDE DEF k
  <2> QED BY <2>1 DEF Init, Matching
<1>2. Init => pod[1].pc = "down"
  BY CertConstants DEF Init, NoProcess, Down, Pods
<1> QED BY <1>1, <1>2 DEF Matched, Matching, At

LEMMA NextAlone == TypeOK /\ Alone /\ [Next]_vars => Alone'
<1> SUFFICES ASSUME TypeOK, Alone, [Next]_vars
             PROVE  Alone'
    OBVIOUS
<1> USE DEF TypeOK, Alone, At, Go, Spend, BudgetKeys, PodStates
<1>1. ASSUME NEW w \in Pods, ConfigRun(w)
      PROVE  Alone'
  <2>1. w = 1 /\ budget'["rollout"] = 0
    BY <1>1 DEF ConfigRun, CheckSecret, CheckExpire, RemoveCSR, CreateCSR, FetchCertificate,
                DeleteSecret, StoreSecret, CopyFiles
  <2>2. \A v \in Pods \ {w} : pod'[v] = pod[v]
    BY <1>1 DEF ConfigRun, CheckSecret, CheckExpire, RemoveCSR, CreateCSR, FetchCertificate,
                DeleteSecret, StoreSecret, CopyFiles, Abort
  <2> QED BY <2>1, <2>2
<1>2. ASSUME NEW w \in Pods,
             StartWebhook(w) \/ RegisterWebhook(w) \/ Schedule(w) \/ Serve(w) \/ Renew(w)
      PROVE  Alone'
  <2>1. w = 1 /\ budget'["rollout"] = 0
    BY <1>2 DEF StartWebhook, RegisterWebhook, Schedule, Serve, Renew
  <2>2. \A v \in Pods \ {w} : pod'[v] = pod[v]
    BY <1>2 DEF StartWebhook, RegisterWebhook, Schedule, Serve, Renew, Die
  <2> QED BY <2>1, <2>2
<1>3. ASSUME NEW w \in Pods, Crash(w)
      PROVE  Alone'
  BY <1>3 DEF Crash, Exists, Die
<1>4. ASSUME NEW w \in Pods, Rollout(w)
      PROVE  Alone'
  BY <1>4 DEF Rollout
<1>5. ASSUME NEW w \in Pods, Terminate(w)
      PROVE  Alone'
  BY <1>5 DEF Terminate, NoProcess
<1>6. CASE Sign \/ UNCHANGED vars
  BY <1>6 DEF Sign, vars
<1>7. CASE PassTime
  BY <1>7 DEF PassTime
<1> QED BY <1>1, <1>2, <1>3, <1>4, <1>5, <1>6, <1>7 DEF Next, Work

LEMMA NextMatched == TypeOK /\ Made /\ Alone /\ Matched /\ [Next]_vars => Matched'
<1> SUFFICES ASSUME TypeOK, Made, Alone, Matched, [Next]_vars
             PROVE  Matched'
    OBVIOUS
<1>0. 1 \in Pods /\ pod[1] \in PodStates
  BY FirstPod
<1>1. \A w \in Pods : Work(w) => w = 1
  BY OnlyFirstWorks
<1> USE <1>0 DEF TypeOK, Matched, Matching, At, Go
<1>2. CASE RemoveCSR(1)
  <2>1. pod'[1].pc \in {"create", "copy"}
    BY <1>2 DEF RemoveCSR, PodStates
  <2> QED BY <1>2, <2>1 DEF RemoveCSR
<1>3. CASE CreateCSR(1)
  BY <1>3 DEF CreateCSR, Accepted, Request, Abort, PodStates
<1>4. CASE FetchCertificate(1)
  BY <1>4 DEF FetchCertificate, Abort, PodStates
<1>5. CASE DeleteSecret(1)
  BY <1>5 DEF DeleteSecret, Abort, PodStates
<1>6. CASE StoreSecret(1)
  BY <1>6 DEF StoreSecret, Abort, PodStates
<1>7. CASE CheckSecret(1) \/ CheckExpire(1) \/ CopyFiles(1) \/ StartWebhook(1)
  BY <1>7 DEF CheckSecret, CheckExpire, CopyFiles, StartWebhook, PodStates
<1>8. CASE RegisterWebhook(1) \/ Schedule(1)
  BY <1>8, RegisterSteps DEF RegisterWebhook, Schedule
<1>9. CASE Serve(1) \/ Renew(1)
  BY <1>9 DEF Serve, Renew, PodStates
<1>10. ASSUME NEW w \in Pods, Crash(w) \/ Rollout(w) \/ Terminate(w)
       PROVE  Matched'
  BY <1>10 DEF Crash, Rollout, Terminate, Die, NoProcess, Down
<1>11. CASE Sign
  BY <1>11 DEF Sign, CSRs
<1>12. CASE PassTime
  <2>1. pod'[1].pc = pod[1].pc /\ pod'[1].pair = pod[1].pair
    BY <1>12 DEF PassTime, PodStates
  <2> QED BY <1>12, <2>1 DEF PassTime
<1>13. CASE UNCHANGED vars
  BY <1>13 DEF vars
<1> QED
  BY <1>1, <1>2, <1>3, <1>4, <1>5, <1>6, <1>7, <1>8, <1>9, <1>10, <1>11, <1>12, <1>13
  DEF Next, Work, ConfigRun

\* Every state the webhook reaches has the types the code can produce.
THEOREM WebhookTypes == Spec => []TypeOK
BY InitTyped, NextTyped, PTL DEF Spec

\* Without rolling updates, however often requests fail, the process crashes
\* or the signer is late, the Secret never has a certificate for another key
\* than the one beside it (config.go:57-71, tls.go:162-178).
THEOREM PairedHolds ==
    ASSUME Budget["rollout"] = 0
    PROVE  Spec => []Paired
<1>1. Init => TypeOK /\ Made /\ Alone /\ Matched
  <2>1. Init => Alone
    BY DEF Init, Alone, At, NoProcess
  <2> QED BY <2>1, InitMatched, InitTyped
<1>2. TypeOK /\ Made /\ Alone /\ Matched /\ [Next]_vars
        => (TypeOK /\ Made /\ Alone /\ Matched)'
  BY NextTyped, NextAlone, NextMatched
<1>3. Matched => Paired
  BY DEF Matched, Paired
<1> QED BY <1>1, <1>2, <1>3, PTL DEF Spec

-----------------------------------------------------------------------------
(* The tick of the scheduler, for any period and any validity.             *)

Limit == Period * Minute

\* The minutes are truncated, and so the tick comes a minute later.
LEMMA MinutesBound ==
    ASSUME NEW t \in Nat
    PROVE  /\ Minutes(t) \in Nat
           /\ Minutes(t) * Minute <= t /\ t < (Minutes(t) + 1) * Minute
BY CertConstants DEF Minutes

LEMMA DueInTime ==
    ASSUME NEW t \in Nat, t < Limit
    PROVE  Minutes(t) < Period
<1>1. Minutes(t) \in Nat /\ Minutes(t) * Minute < Period * Minute
  <2> DEFINE m == Minutes(t)
             limit == Period * Minute
  <2>1. m \in Nat /\ m * Minute <= t /\ t < limit
    BY MinutesBound DEF Limit
  <2>2. m * Minute \in Nat /\ limit \in Nat
    BY <2>1, CertConstants
  <2> HIDE DEF m, limit
  <2>3. m * Minute < limit
    BY <2>1, <2>2
  <2> QED BY <2>1, <2>3 DEF m, limit
<1>2. ASSUME NEW m \in Nat, m >= Period
      PROVE  m * Minute >= Period * Minute
  BY <1>2, CertConstants
<1> QED BY <1>1, <1>2, CertConstants

LEMMA DelayLate ==
    ASSUME TypeOK, Readable(secret)
    PROVE  left[secret.cert] < Limit + Delay(secret) * Minute
<1> DEFINE t == left[secret.cert]
           d == Delay(secret)
<1>1. t \in Nat
  BY CertConstants DEF TypeOK, Readable, Pairs
<1>2. t < (Minutes(t) + 1) * Minute /\ Minutes(t) \in Nat
  BY <1>1, MinutesBound
<1>3. d \in Nat /\ Minutes(t) + 1 <= Period + d
  BY <1>2, DelayTyped, CertConstants DEF Delay, LongestOf
<1>4. (Minutes(t) + 1) * Minute <= (Period + d) * Minute
  BY <1>2, <1>3, CertConstants
<1>5. (Period + d) * Minute = Limit + d * Minute
  BY <1>3, CertConstants DEF Limit
<1>6. d * Minute \in Nat /\ Limit \in Nat
  BY <1>3, CertConstants DEF Limit
<1> HIDE DEF t, d
<1>7. t < Limit + d * Minute
  BY <1>1, <1>2, <1>4, <1>5, <1>6, CertConstants
<1> QED BY <1>7 DEF t, d

\* No certificate that is in use is signed again: the key of a request that is
\* not signed yet is new.
Unsigned ==
    csr # None /\ csr.cert = Empty =>
      /\ secret # None => secret.cert # csr.key
      /\ At(1, "delete") \/ At(1, "store") => pod[1].pair.cert # csr.key

LEMMA NextUnsigned ==
    TypeOK /\ Made /\ Alone /\ Matched /\ Unsigned /\ [Next]_vars => Unsigned'
<1> SUFFICES ASSUME TypeOK, Made, Alone, Matched, Unsigned, [Next]_vars
             PROVE  Unsigned'
    OBVIOUS
<1>0. 1 \in Pods /\ pod[1] \in PodStates
  BY FirstPod
<1>1. \A w \in Pods : Work(w) => w = 1
  BY OnlyFirstWorks
<1> USE <1>0, CertConstants DEF TypeOK, Unsigned, At, Go
<1>2. CASE RemoveCSR(1)
  <2>1. pod'[1].pc \in {"create", "copy"}
    BY <1>2 DEF RemoveCSR, PodStates
  <2> QED BY <1>2, <2>1 DEF RemoveCSR
<1>3. CASE CreateCSR(1)
  <2>1. pod'[1].pc \in {"fetch", "copy"}
    BY <1>3, CreateSteps
  <2>2. ASSUME NEW k \in Fresh, secret # None
        PROVE  secret.cert # k
    <3>1. secret.cert \in KeysOf(secret) \/ secret.cert = Empty
      BY <2>2 DEF KeysOf
    <3>2. k \in Keys \ InUse
      BY DEF Fresh
    <3> QED BY <3>1, <3>2 DEF InUse
  <2> QED BY <1>3, <2>1, <2>2 DEF CreateCSR, Accepted, Request
<1>4. CASE FetchCertificate(1)
  <2>1. pod'[1].pc \in {"delete", "store"} => csr # None /\ pod'[1].pair.cert = csr.cert
    BY <1>4 DEF FetchCertificate, Abort, PodStates
  <2>2. csr # None => csr.key # Empty
    BY DEF CSRs
  <2> QED BY <1>4, <2>1, <2>2 DEF FetchCertificate
<1>5. CASE DeleteSecret(1)
  <2>1. pod'[1].pc = "copy" \/ (pod'[1].pc = "store" /\ pod'[1].pair = pod[1].pair)
    BY <1>5 DEF DeleteSecret, Abort, PodStates
  <2> QED BY <1>5, <2>1 DEF DeleteSecret
<1>6. CASE StoreSecret(1)
  <2>1. pod'[1].pc = "copy"
    BY <1>6 DEF StoreSecret, Abort, PodStates
  <2> QED BY <1>6, <2>1 DEF StoreSecret
<1>7. CASE CheckSecret(1) \/ CheckExpire(1) \/ CopyFiles(1) \/ StartWebhook(1)
  BY <1>7 DEF CheckSecret, CheckExpire, CopyFiles, StartWebhook, PodStates
<1>8. CASE RegisterWebhook(1) \/ Schedule(1)
  BY <1>8, RegisterSteps DEF RegisterWebhook, Schedule
<1>9. CASE Serve(1) \/ Renew(1)
  BY <1>9 DEF Serve, Renew, PodStates
<1>10. ASSUME NEW w \in Pods, Crash(w) \/ Rollout(w) \/ Terminate(w)
       PROVE  Unsigned'
  BY <1>10 DEF Crash, Rollout, Terminate, Die, NoProcess, Down
<1>11. CASE Sign
  <2>1. csr'.cert # Empty
    BY <1>11 DEF Sign, CSRs
  <2> QED BY <2>1
<1>12. CASE PassTime
  <2>1. pod'[1].pc = pod[1].pc /\ pod'[1].pair = pod[1].pair
    BY <1>12 DEF PassTime, PodStates
  <2> QED BY <1>12, <2>1 DEF PassTime
<1>13. CASE UNCHANGED vars
  BY <1>13 DEF vars
<1> QED
  BY <1>1, <1>2, <1>3, <1>4, <1>5, <1>6, <1>7, <1>8, <1>9, <1>10, <1>11, <1>12, <1>13
  DEF Next, Work, ConfigRun

InMain == ~pod[1].renewing

\* While the process waits the certificate becomes due before the tick comes,
\* and after the tick it is due.
OnTime ==
    /\ At(1, "down") => InMain
    /\ At(1, "wait") \/ (At(1, "serve") /\ InMain) =>
         Readable(secret) /\ left[secret.cert] < Limit + pod[1].timer
    /\ (At(1, "checkSecret") \/ At(1, "checkExpire")) /\ ~InMain =>
         Readable(secret) /\ left[secret.cert] < Limit

LEMMA LimitPositive == Limit \in Nat /\ Limit > 0
BY CertConstants DEF Limit

LEMMA LeftTyped == TypeOK /\ Readable(secret) => secret.cert \in Keys /\ left[secret.cert] \in Nat
BY CertConstants DEF TypeOK, Readable, Pairs

LEMMA ScheduleOnTime ==
    ASSUME TypeOK, OnTime, Schedule(1)
    PROVE  OnTime'
<1>0. 1 \in Pods /\ pod[1] \in PodStates
  BY FirstPod
<1>1. CASE Die(1)
  <2>1. pod'[1].pc = "down" /\ ~pod'[1].renewing
    BY <1>1, DieSteps
  <2> QED BY <2>1 DEF OnTime, At, InMain
<1>2. CASE Readable(secret) /\ ~Die(1)
  <2>1. /\ pod'[1].pc \in {"wait", "serve"}
        /\ pod'[1].timer = Delay(secret) * Minute
        /\ UNCHANGED <<secret, left>>
    BY <1>0, <1>2 DEF Schedule, TypeOK, PodStates
  <2>2. left[secret.cert] < Limit + Delay(secret) * Minute
    BY <1>2, DelayLate
  <2>3. Readable(secret)' /\ (left[secret.cert] < Limit + pod[1].timer)'
    BY <1>2, <2>1, <2>2 DEF Readable, Limit
  <2> QED BY <2>1, <2>3 DEF OnTime, At
<1> QED BY <1>1, <1>2 DEF Schedule

LEMMA PassTimeOnTime ==
    ASSUME TypeOK, OnTime, PassTime
    PROVE  OnTime'
<1>0. 1 \in Pods /\ pod[1] \in PodStates
  BY FirstPod
<1>1. UNCHANGED secret /\ pod'[1].pc = pod[1].pc /\ pod'[1].renewing = pod[1].renewing
  BY <1>0 DEF PassTime, PodStates
<1>2. pod[1].pc \in {"none", "down", "wait"}
  BY <1>0 DEF PassTime
<1>3. ASSUME At(1, "wait")
      PROVE  Readable(secret)' /\ (left[secret.cert] < Limit + pod[1].timer)'
  <2>1. Readable(secret) /\ left[secret.cert] < Limit + pod[1].timer
    BY <1>3 DEF OnTime
  <2>2. secret.cert \in Keys /\ left[secret.cert] \in Nat
    BY <2>1, LeftTyped
  <2>3. pod[1].timer \in Nat /\ pod[1].timer > 0 /\ pod'[1].timer = pod[1].timer - 1
    BY <1>0, <1>3 DEF PassTime, At, PodStates
  <2>4. secret.cert \in InUse
    BY <2>1 DEF Readable, InUse, KeysOf
  <2>5. left'[secret.cert] = IF left[secret.cert] > 0 THEN left[secret.cert] - 1 ELSE 0
    BY <2>2, <2>4 DEF PassTime
  <2>6. left'[secret.cert] < Limit + pod'[1].timer
    BY <2>1, <2>2, <2>3, <2>5, LimitPositive
  <2> QED BY <1>1, <2>1, <2>6 DEF Readable, Limit
<1> QED BY <1>1, <1>2, <1>3 DEF OnTime, At, InMain

LEMMA NextOnTime ==
    TypeOK /\ Alone /\ Unsigned /\ OnTime /\ [Next]_vars => OnTime'
<1> SUFFICES ASSUME TypeOK, Alone, Unsigned, OnTime, [Next]_vars
             PROVE  OnTime'
    OBVIOUS
<1>0. 1 \in Pods /\ pod[1] \in PodStates
  BY FirstPod
<1>1. \A w \in Pods : Work(w) => w = 1
  BY OnlyFirstWorks
<1>2. CASE CheckSecret(1)
  BY <1>0, <1>2 DEF CheckSecret, OnTime, InMain, Readable, Limit, At, Go, TypeOK, PodStates
<1>3. CASE CheckExpire(1) \/ RemoveCSR(1) \/ CreateCSR(1) \/ FetchCertificate(1)
          \/ DeleteSecret(1) \/ StoreSecret(1)
  <2>1. pod'[1].pc \in {"copy", "checkCSR", "create", "fetch", "delete", "store"}
    <3>1. CASE CheckExpire(1) \/ RemoveCSR(1)
      BY <1>0, <3>1 DEF CheckExpire, RemoveCSR, Go, TypeOK, PodStates
    <3>2. CASE CreateCSR(1)
      BY <3>2, CreateSteps
    <3>3. CASE FetchCertificate(1) \/ DeleteSecret(1) \/ StoreSecret(1)
      BY <1>0, <3>3 DEF FetchCertificate, DeleteSecret, StoreSecret, Abort, Go, TypeOK, PodStates
    <3> QED BY <1>3, <3>1, <3>2, <3>3
  <2> QED BY <2>1 DEF OnTime, At
<1>4. CASE CopyFiles(1)
  BY <1>0, <1>4 DEF CopyFiles, OnTime, InMain, At, Go, TypeOK, PodStates
<1>5. CASE StartWebhook(1)
  BY <1>0, <1>5 DEF StartWebhook, OnTime, InMain, At, Go, TypeOK, PodStates
<1>6. CASE RegisterWebhook(1)
  <2>1. pod'[1].pc = "schedule" \/ (pod'[1].pc = "down" /\ ~pod'[1].renewing)
    BY <1>0, <1>6, DieSteps DEF RegisterWebhook, Go, TypeOK, PodStates
  <2> QED BY <2>1 DEF OnTime, At, InMain
<1>7. CASE Schedule(1)
  BY <1>7, ScheduleOnTime
<1>8. CASE Serve(1)
  BY <1>0, <1>8 DEF Serve, OnTime, InMain, Readable, Limit, At, TypeOK, PodStates
<1>9. CASE Renew(1)
  <2>1. pod[1].timer = 0 /\ Readable(secret) /\ left[secret.cert] < Limit
    BY <1>0, <1>9, LimitPositive DEF Renew, OnTime
  <2> QED BY <1>0, <1>9, <2>1 DEF Renew, OnTime, InMain, Readable, Limit, At, TypeOK, PodStates
<1>10. ASSUME NEW w \in Pods, Crash(w) \/ Rollout(w) \/ Terminate(w)
       PROVE  OnTime'
  <2>1. Crash(1)
    BY <1>10 DEF Crash, Rollout, Terminate, Exists, Alone, At, Spend, Pods
  <2>2. pod'[1].pc = "down" /\ ~pod'[1].renewing
    BY <2>1, DieSteps DEF Crash
  <2> QED BY <2>2 DEF OnTime, At, InMain
<1>11. CASE Sign
  <2>1. UNCHANGED <<secret, pod>>
    BY <1>11 DEF Sign
  <2>2. Readable(secret) => left'[secret.cert] = left[secret.cert]
    BY <1>11, LeftTyped DEF Sign, Unsigned, Readable, TypeOK
  <2> QED BY <2>1, <2>2 DEF OnTime, InMain, At, Readable, Limit
<1>12. CASE PassTime
  BY <1>12, PassTimeOnTime
<1>13. CASE UNCHANGED vars
  BY <1>13 DEF vars, OnTime, InMain, At, Readable, Limit
<1> QED
  BY <1>1, <1>2, <1>3, <1>4, <1>5, <1>6, <1>7, <1>8, <1>9, <1>10, <1>11, <1>12, <1>13
  DEF Next, Work, ConfigRun

\* Without rolling updates, for any period and any validity: when the tick
\* arrives the certificate is due, and unless a request fails it is renewed
\* (scheduler.go:23-28, tls.go:211-213).
THEOREM TickRenewsHolds ==
    ASSUME Budget["rollout"] = 0
    PROVE  Spec => TickRenews
<1> DEFINE IInv == TypeOK /\ Made /\ Alone /\ Matched /\ Unsigned /\ OnTime
<1>1. Init => IInv
  <2>1. Init => Alone
    BY DEF Init, Alone, At, NoProcess
  <2>2. Init => TypeOK /\ Made
    BY InitTyped
  <2>3. Init => Matched /\ Unsigned /\ OnTime
    BY InitMatched, InitTyped, FirstPod DEF Init, Unsigned, OnTime, At, InMain, NoProcess, Down
  <2> QED BY <2>1, <2>2, <2>3
<1>2. IInv /\ [Next]_vars => IInv'
  BY NextTyped, NextAlone, NextMatched, NextUnsigned, NextOnTime
<1>3. IInv /\ [Next]_vars =>
        [\A w \in Pods : At(w, "checkExpire") /\ pod[w].renewing /\ budget' = budget
           => ~At(w, "copy")']_vars
  <2> SUFFICES ASSUME IInv, Next, NEW w \in Pods, At(w, "checkExpire"), pod[w].renewing,
                      budget' = budget
               PROVE  ~At(w, "copy")'
      OBVIOUS
  <2>0. 1 \in Pods /\ pod[1] \in PodStates
    BY FirstPod
  <2>1. w = 1
    BY DEF Alone, At
  <2>2. Due(secret)
    <3>1. Readable(secret) /\ left[secret.cert] < Limit /\ left[secret.cert] \in Nat
      BY <2>1, LeftTyped DEF OnTime, At, InMain
    <3> QED BY <3>1, DueInTime DEF Due
  <2>3. CASE CheckExpire(1)
    <3>1. ~Spend("fail")
      BY DEF Spend, TypeOK, BudgetKeys
    <3>2. pod'[1].pc = "checkCSR"
      BY <2>0, <2>2, <2>3, <3>1 DEF CheckExpire, TypeOK, PodStates
    <3> QED BY <2>1, <3>2 DEF At
  <2>4. ASSUME NEW v \in Pods, Crash(v) \/ Rollout(v) \/ Terminate(v)
        PROVE  FALSE
    BY <2>4 DEF Crash, Rollout, Terminate, Exists, Spend, Alone, At, TypeOK, BudgetKeys, Pods
  <2>5. CASE Sign
    BY <2>5 DEF Sign, At
  <2>6. ~PassTime
    BY <2>0, <2>1 DEF PassTime, At
  <2>7. ASSUME NEW v \in Pods, Work(v)
        PROVE  CheckExpire(1)
    <3>1. v = 1 /\ At(1, "checkExpire")
      BY <2>1, <2>7, OnlyFirstWorks
    <3> QED BY <2>7, <3>1 DEF Work, ConfigRun, At, CheckSecret, RemoveCSR, CreateCSR,
              FetchCertificate, DeleteSecret, StoreSecret, CopyFiles, StartWebhook,
              RegisterWebhook, Schedule, Serve, Renew
  <2> QED BY <2>3, <2>4, <2>5, <2>6, <2>7 DEF Next
<1> QED BY <1>1, <1>2, <1>3, PTL DEF Spec, TickRenews
=============================================================================
