----------------------------- MODULE CertConfig -----------------------------
(***************************************************************************)
(* The configuration handler of the admission webhook: it keeps a key and  *)
(* its certificate in a Secret, asks the cluster to sign a new certificate *)
(* when there is none or when it expires soon, and copies the pair to the  *)
(* files the HTTPS server reads.  The Secret and the signing request have  *)
(* fixed names, which all pods of the webhook share.                       *)
(*                                                                         *)
(* A certificate is named by the key it is made for; left is the time it   *)
(* has.  Times are counted in units of which a minute has several, because *)
(* the code truncates durations to minutes.                                *)
(***************************************************************************)
EXTENDS Integers, FiniteSets

CONSTANTS
    MaxPods,    \* bound: pods of the webhook, one after the other
    Keys,       \* bound: private keys that are in use at one time
    None,       \* no object, no file
    Empty,      \* the certificate of a request that is not signed yet
    Validity,   \* units a new certificate is valid
    Period,     \* certRenewalPeriod, in minutes
    Minute,     \* units in a minute
    Budget,     \* how often the environment may do each thing
    Window      \* whether pods are replaced at any time, see Rollout

BudgetKeys == {"fail", "miscopy", "late", "crash", "outage", "rollout"}

ASSUME CertConstants ==
    /\ MaxPods \in Nat \ {0}
    /\ Validity \in Nat /\ Period \in Nat \ {0} /\ Minute \in Nat \ {0}
    /\ Keys # {} /\ Empty \notin Keys /\ None \notin Keys
    /\ Budget \in [BudgetKeys -> Nat]
    /\ Window \in BOOLEAN

VARIABLES
    secret,     \* API: the Secret with the pair
    csr,        \* API: the CertificateSigningRequest
    vwc,        \* API: the ValidatingWebhookConfiguration exists
    left,       \* the time each certificate has left
    pod,        \* the pods: process memory, files and server
    budget      \* what the environment may still do

vars == <<secret, csr, vwc, left, pod, budget>>

Pods  == 1..MaxPods
Pairs == [key : Keys, cert : Keys \cup {Empty}]
CSRs  == [key : Keys, approved : BOOLEAN, cert : Keys \cup {Empty}]

Steps == {"none", "down", "checkSecret", "checkExpire", "checkCSR", "create",
          "fetch", "delete", "store", "copy", "register", "schedule", "serve", "wait"}

PodStates ==
    [pc       : Steps,
     renewing : BOOLEAN,                \* the scheduler called, not main
     replaces : BOOLEAN,                \* renewTLSPair: the Secret existed
     pair     : Pairs \cup {None},      \* tlsPair; its certificate comes last
     files    : Pairs \cup {None},      \* tls.key and tls.crt
     served   : Pairs \cup {None},      \* what the running server uses
     timer    : Nat]                    \* the time until the tick

At(w, pc) == pod[w].pc = pc
Go(w, pc) == pod' = [pod EXCEPT ![w].pc = pc]

Spend(what) == budget[what] > 0 /\ budget' = [budget EXCEPT ![what] = @ - 1]

KeysOf(x) == IF x = None THEN {} ELSE {x.key, x.cert} \ {Empty}
InUse ==
    KeysOf(secret) \cup KeysOf(csr) \cup
    UNION {KeysOf(pod[w].pair) \cup KeysOf(pod[w].files) \cup KeysOf(pod[w].served) : w \in Pods}

\* A new key; which one does not matter.
Fresh == {k \in Keys \ InUse : k = CHOOSE i \in Keys \ InUse : TRUE}

-----------------------------------------------------------------------------
(* Run, one request to the API after the other.                            *)

\* checkSecret takes any error for a Secret that does not exist.
CheckSecret(w) ==
    /\ At(w, "checkSecret")
    /\ \/ /\ secret # None
          /\ Go(w, "checkExpire")
          /\ UNCHANGED budget
       \/ /\ IF secret = None THEN UNCHANGED budget ELSE Spend("fail")
          /\ pod' = [pod EXCEPT ![w].pc = "checkCSR", ![w].replaces = FALSE]
    /\ UNCHANGED <<secret, csr, vwc, left>>

Readable(s) == s # None /\ s.cert # Empty
Minutes(t)  == t \div Minute

\* Mutant: a certificate is renewed when it has expired.
DueExpired(s) == Readable(s) /\ left[s.cert] = 0

\* checkCertExpireDate: an error counts as a certificate that is not due.
Due(s) == Readable(s) /\ Minutes(left[s.cert]) < Period

CheckExpire(w) ==
    /\ At(w, "checkExpire")
    /\ \/ /\ Due(secret)
          /\ pod' = [pod EXCEPT ![w].pc = "checkCSR", ![w].replaces = TRUE]
          /\ UNCHANGED budget
       \/ /\ IF Due(secret) THEN Spend("fail") ELSE UNCHANGED budget
          /\ Go(w, "copy")
    /\ UNCHANGED <<secret, csr, vwc, left>>

\* Mutant: a request of before is left alone.
KeepCSR(w) ==
    /\ At(w, "checkCSR")
    /\ Go(w, "create")
    /\ UNCHANGED <<secret, csr, vwc, left, budget>>

\* checkCSR and deleteCSR: a request of before is removed.  A failed check
\* counts as no request; a failed removal ends renewTLSPair, and only that.
RemoveCSR(w) ==
    /\ At(w, "checkCSR")
    /\ \/ /\ csr' = None
          /\ Go(w, "create")
          /\ UNCHANGED budget
       \/ /\ csr # None
          /\ Spend("fail")
          /\ \/ Go(w, "create") /\ UNCHANGED csr
             \/ pod[w].replaces /\ Go(w, "copy") /\ csr' \in {csr, None}
    /\ UNCHANGED <<secret, vwc, left>>

\* An error ends generateTLSKeyAndCert.  Without a key createSecret fails as
\* well, so that Run goes on to the files in either case.
Abort(w) == pod' = [pod EXCEPT ![w].pc = "copy", ![w].pair = None]

Request(k, approved) == [key |-> k, approved |-> approved, cert |-> Empty]

\* Mutant: it does not matter that the request exists.
AlwaysAccepted == TRUE

\* Create fails when the name is taken.
Accepted == csr = None

\* A new key, a request for it, and its approval.
CreateCSR(w) ==
    /\ At(w, "create")
    /\ \E k \in Fresh :
         \/ /\ Accepted
            /\ csr' = IF csr = None THEN Request(k, TRUE) ELSE csr
            /\ pod' = [pod EXCEPT ![w].pc = "fetch",
                                  ![w].pair = [key |-> k, cert |-> Empty]]
            /\ UNCHANGED budget
         \/ /\ ~Accepted
            /\ Abort(w)
            /\ UNCHANGED <<csr, budget>>
         \/ /\ Accepted /\ Spend("fail")
            /\ csr' \in {csr, Request(k, FALSE), Request(k, TRUE)}
            /\ Abort(w)
    /\ UNCHANGED <<secret, vwc, left>>

\* Two seconds later the certificate is read.  One that is not signed yet is
\* taken as it is, empty; the signer is late then, or the request a different
\* one that was never approved.
FetchCertificate(w) ==
    /\ At(w, "fetch")
    /\ \/ /\ csr # None
          /\ IF csr.cert = Empty /\ csr.approved THEN Spend("late") ELSE UNCHANGED budget
          /\ pod' = [pod EXCEPT ![w].pc = IF pod[w].replaces THEN "delete" ELSE "store",
                                ![w].pair = [key |-> pod[w].pair.key, cert |-> csr.cert]]
       \/ /\ IF csr = None THEN UNCHANGED budget ELSE Spend("fail")
          /\ Abort(w)
    /\ UNCHANGED <<secret, csr, vwc, left>>

\* deleteSecret, which fails on a Secret that is gone.
DeleteSecret(w) ==
    /\ At(w, "delete")
    /\ \/ /\ secret' = None
          /\ IF secret = None THEN Abort(w) ELSE Go(w, "store")
          /\ UNCHANGED budget
       \/ /\ Spend("fail")
          /\ secret' \in {secret, None}
          /\ Abort(w)
    /\ UNCHANGED <<csr, vwc, left>>

\* createSecret, which fails on a Secret that exists.
StoreSecret(w) ==
    /\ At(w, "store")
    /\ \/ /\ secret' = IF secret = None THEN pod[w].pair ELSE secret
          /\ UNCHANGED budget
       \/ /\ secret = None
          /\ Spend("fail")
          /\ secret' \in {None, pod[w].pair}
    /\ Abort(w)
    /\ UNCHANGED <<csr, vwc, left>>

\* The key is written before the certificate; when that fails, the certificate
\* file is as before or lost.
HalfCopied(w) ==
    {[key |-> secret.key, cert |-> cert] :
        cert \in {Empty} \cup (IF pod[w].files = None THEN {} ELSE {pod[w].files.cert})}

\* writeTLSDataFromSecret, whose error Run only logs.
CopyFiles(w) ==
    /\ At(w, "copy")
    /\ \E files \in Pairs \cup {None} :
         /\ pod' = [pod EXCEPT ![w].pc = IF pod[w].renewing THEN "serve" ELSE "register",
                               ![w].files = files]
         /\ \/ /\ files = IF secret = None THEN pod[w].files ELSE secret
               /\ UNCHANGED budget
            \/ /\ secret # None
               /\ files \in {pod[w].files} \cup HalfCopied(w)
               /\ Spend("miscopy")
    /\ UNCHANGED <<secret, csr, vwc, left>>

ConfigRun(w) ==
    \/ CheckSecret(w) \/ CheckExpire(w) \/ RemoveCSR(w) \/ CreateCSR(w)
    \/ FetchCertificate(w) \/ DeleteSecret(w) \/ StoreSecret(w) \/ CopyFiles(w)
=============================================================================
