-------------------------- MODULE WorkQueueProofs --------------------------
(***************************************************************************)
(* What the operations of the work queue return, for any set of events.    *)
(***************************************************************************)
EXTENDS WorkQueue, SequenceTheorems, FiniteSetTheorems, TLAPS

\* A queue that was just made is empty.
LEMMA EmptyQueueTyped == \A S : EmptyQueue \in Queues(S)
BY EmptySeq DEF EmptyQueue, Queues

\* Adding an item leaves the one being processed alone.
LEMMA EnqueuedTyped ==
    ASSUME NEW S, NEW q \in Queues(S), NEW e \in S
    PROVE  Enqueued(q, e) \in Queues(S) /\ Enqueued(q, e).busy = q.busy
BY AppendProperties DEF Enqueued, Queues

\* Taking an item makes the first one that waits the one being processed.
LEMMA TakenTyped ==
    ASSUME NEW S, NEW q \in Queues(S), q.items # <<>>
    PROVE  /\ Taken(q) \in Queues(S)
           /\ Taken(q).busy = Head(q.items)
           /\ Taken(q).busy \in S
BY HeadTailProperties DEF Taken, Queues

\* An item that was added while it was processed waits again, once it is done.
LEMMA CompletedTyped ==
    ASSUME NEW S, NEW q \in Queues(S), q.busy \in S
    PROVE  Completed(q) \in Queues(S)
BY AppendProperties DEF Completed, Queues

\* An item that is added waits, or is going to when the worker is done.
LEMMA EnqueuedItems ==
    ASSUME NEW S, NEW q \in Queues(S), NEW e \in S, NEW r, r = Enqueued(q, e)
    PROVE  /\ r.busy = q.busy
           /\ \/ \E i \in DOMAIN r.items : r.items[i] = e
              \/ r.again /\ q.busy = e
           /\ \A i \in DOMAIN r.items : r.items[i] = e \/ \E j \in DOMAIN q.items : r.items[i] = q.items[j]
           /\ \A i \in DOMAIN q.items : i \in DOMAIN r.items /\ r.items[i] = q.items[i]
<1> DEFINE x == [q EXCEPT !.again = TRUE]
           y == [q EXCEPT !.items = Append(q.items, e)]
<1>1. /\ x.items = q.items /\ x.busy = q.busy /\ x.again
      /\ y.items = Append(q.items, e) /\ y.busy = q.busy /\ q.items \in Seq(S)
  BY DEF Queues
<1>2. r = IF \E i \in 1..Len(q.items) : q.items[i] = e THEN q ELSE IF q.busy = e THEN x ELSE y
  BY <1>1 DEF Enqueued
<1>3. /\ Len(q.items) \in Nat /\ DOMAIN q.items = 1..Len(q.items)
      /\ DOMAIN Append(q.items, e) = 1..(Len(q.items) + 1)
      /\ \A i \in 1..Len(q.items) : Append(q.items, e)[i] = q.items[i]
      /\ Append(q.items, e)[Len(q.items) + 1] = e
  BY <1>1, AppendProperties, LenProperties
<1> HIDE DEF x, y
<1>4. CASE r = q /\ \E i \in 1..Len(q.items) : q.items[i] = e
  BY <1>3, <1>4
<1>5. CASE r = x /\ q.busy = e
  BY <1>1, <1>5
<1>6. CASE r = y
  <2>1. r.items = Append(q.items, e) /\ r.busy = q.busy
    BY <1>1, <1>6
  <2>2. \A i \in DOMAIN r.items : i \in DOMAIN q.items \/ i = Len(q.items) + 1
    BY <1>3, <2>1
  <2>3. Len(q.items) + 1 \in DOMAIN r.items
    BY <1>3, <2>1
  <2> QED BY <1>3, <2>1, <2>2, <2>3
<1> QED BY <1>2, <1>4, <1>5, <1>6

\* What waits after an item is taken is what waited behind it.
LEMMA TakenItems ==
    ASSUME NEW S, NEW q \in Queues(S), q.items # <<>>, NEW r, r = Taken(q)
    PROVE  /\ r.busy = q.items[1] /\ 1 \in DOMAIN q.items
           /\ \A i \in DOMAIN r.items : i + 1 \in DOMAIN q.items /\ r.items[i] = q.items[i + 1]
           /\ \A i \in DOMAIN q.items : i = 1 \/ (i - 1 \in DOMAIN r.items /\ q.items[i] = r.items[i - 1])
<1>1. q.items \in Seq(S) /\ r.items = Tail(q.items) /\ r.busy = Head(q.items)
  BY DEF Taken, Queues
<1>2. /\ DOMAIN q.items = 1..Len(q.items) /\ Len(q.items) \in Nat \ {0}
      /\ DOMAIN Tail(q.items) = 1..(Len(q.items) - 1)
      /\ \A i \in 1..(Len(q.items) - 1) : Tail(q.items)[i] = q.items[i + 1]
      /\ Head(q.items) = q.items[1]
  BY <1>1, HeadTailProperties, LenProperties, EmptySeq
<1>3. \A i \in DOMAIN q.items : i = 1 \/ (i - 1 \in 1..(Len(q.items) - 1) /\ (i - 1) + 1 = i)
  BY <1>2
<1>4. \A i \in DOMAIN q.items : i = 1 \/ (i - 1 \in DOMAIN r.items /\ q.items[i] = r.items[i - 1])
  BY <1>1, <1>2, <1>3
<1>5. \A i \in DOMAIN r.items : i + 1 \in DOMAIN q.items /\ r.items[i] = q.items[i + 1]
  BY <1>1, <1>2
<1> QED BY <1>1, <1>2, <1>4, <1>5

\* What waits when the worker is done is what waited, and the item it is done
\* with when that was added again.
LEMMA CompletedItems ==
    ASSUME NEW S, NEW q \in Queues(S), q.busy \in S, NEW r, r = Completed(q)
    PROVE  /\ q.again => \E i \in DOMAIN r.items : r.items[i] = q.busy
           /\ \A i \in DOMAIN r.items :
                r.items[i] = q.busy \/ \E j \in DOMAIN q.items : r.items[i] = q.items[j]
           /\ \A i \in DOMAIN q.items : i \in DOMAIN r.items /\ r.items[i] = q.items[i]
<1>1. /\ q.items \in Seq(S)
      /\ q.again => r.items = Append(q.items, q.busy)
      /\ ~q.again => r.items = q.items
  BY DEF Completed, Queues
<1>2. /\ Len(q.items) \in Nat /\ DOMAIN q.items = 1..Len(q.items)
      /\ DOMAIN Append(q.items, q.busy) = 1..(Len(q.items) + 1)
      /\ \A i \in 1..Len(q.items) : Append(q.items, q.busy)[i] = q.items[i]
      /\ Append(q.items, q.busy)[Len(q.items) + 1] = q.busy
  BY <1>1, AppendProperties, LenProperties
<1>3. CASE q.again
  <2>1. \A i \in DOMAIN r.items : i \in DOMAIN q.items \/ i = Len(q.items) + 1
    BY <1>1, <1>2, <1>3
  <2>2. Len(q.items) + 1 \in DOMAIN r.items
    BY <1>1, <1>2, <1>3
  <2> QED BY <1>1, <1>2, <1>3, <2>1, <2>2
<1> QED BY <1>1, <1>3

\* The first list of an informer leaves a queue of the events of that list and
\* nothing in progress.
LEMMA ListingsTyped ==
    ASSUME NEW S, NEW T \in SUBSET S, IsFiniteSet(T), NEW q \in Listings(T)
    PROVE  q \in Queues(S) /\ q.busy = NoEvent
<1>1. Cardinality(T) \in Nat
  BY FS_CardinalityType
<1>2. PICK s \in [1..Cardinality(T) -> T] : q = [EmptyQueue EXCEPT !.items = s]
  BY DEF Listings
<1>3. s \in Seq(S)
  BY <1>1, <1>2, IsASeq, SeqMonotonic
<1> QED BY <1>2, <1>3 DEF EmptyQueue, Queues

\* Each event of the list waits once.
LEMMA ListingsOnce ==
    ASSUME NEW T, IsFiniteSet(T), NEW q \in Listings(T)
    PROVE  /\ ~q.again
           /\ {q.items[i] : i \in DOMAIN q.items} = T
           /\ \A i, j \in DOMAIN q.items : q.items[i] = q.items[j] => i = j
<1> DEFINE I == 1..Cardinality(T)
<1>1. Cardinality(T) \in Nat
  BY FS_CardinalityType
<1>2. PICK s \in [I -> T] : q = [EmptyQueue EXCEPT !.items = s] /\ {s[i] : i \in DOMAIN s} = T
  BY DEF Listings
<1>3. ~q.again /\ q.items = s /\ DOMAIN s = I
  BY <1>2 DEF EmptyQueue
<1>4. IsFiniteSet(I) /\ Cardinality(I) = Cardinality(T)
  BY <1>1, FS_Interval
<1>5. s \in Surjection(I, T)
  BY <1>2, <1>3 DEF Surjection
<1>6. s \in Injection(I, T)
  BY <1>4, <1>5, FS_Surjection
<1> QED BY <1>2, <1>3, <1>6 DEF Injection, IsInjective

-----------------------------------------------------------------------------
(* The queue as a set.                                                     *)

Elems(q) == {q.items[i] : i \in DOMAIN q.items}

\* Nothing waits twice, or while it is processed.
Simple(q) ==
    /\ \A i, j \in DOMAIN q.items : q.items[i] = q.items[j] => i = j
    /\ q.busy \notin Elems(q)

LEMMA ElemsTyped ==
    ASSUME NEW S, NEW q \in Queues(S)
    PROVE  Elems(q) \subseteq S /\ (q.items = <<>> <=> Elems(q) = {})
<1>1. q.items \in Seq(S) /\ DOMAIN q.items = 1..Len(q.items) /\ Len(q.items) \in Nat
  BY LenProperties DEF Queues
<1>2. \A i \in DOMAIN q.items : q.items[i] \in S
  BY <1>1, ElementOfSeq
<1>3. q.items # <<>> => 1 \in DOMAIN q.items
  BY <1>1, EmptySeq
<1>4. q.items = <<>> => DOMAIN q.items = {}
  BY <1>1, EmptySeq
<1> QED BY <1>2, <1>3, <1>4 DEF Elems

\* Adding an item adds it to the set, unless it is being processed.
LEMMA EnqueuedSet ==
    ASSUME NEW S, NEW q \in Queues(S), NEW e \in S, Simple(q), NEW r, r = Enqueued(q, e)
    PROVE  /\ r.busy = q.busy /\ Simple(r)
           /\ e # q.busy => Elems(r) = Elems(q) \cup {e} /\ r.again = q.again
           /\ e = q.busy => Elems(r) = Elems(q) /\ r.again
<1> DEFINE x == [q EXCEPT !.again = TRUE]
           y == [q EXCEPT !.items = Append(q.items, e)]
<1>1. /\ x.items = q.items /\ x.busy = q.busy /\ x.again
      /\ y.items = Append(q.items, e) /\ y.busy = q.busy /\ y.again = q.again /\ q.items \in Seq(S)
  BY DEF Queues
<1>3. /\ Len(q.items) \in Nat /\ DOMAIN q.items = 1..Len(q.items)
      /\ DOMAIN Append(q.items, e) = 1..(Len(q.items) + 1)
      /\ \A i \in 1..Len(q.items) : Append(q.items, e)[i] = q.items[i]
      /\ Append(q.items, e)[Len(q.items) + 1] = e
  BY <1>1, AppendProperties, LenProperties
<1>2. r = IF e \in Elems(q) THEN q ELSE IF q.busy = e THEN x ELSE y
  BY <1>1, <1>3 DEF Enqueued, Elems
<1> HIDE DEF x, y
<1>4. CASE r = q /\ e \in Elems(q)
  BY <1>4 DEF Simple
<1>5. CASE r = x /\ q.busy = e /\ e \notin Elems(q)
  BY <1>1, <1>5 DEF Simple, Elems
<1>6. CASE r = y /\ q.busy # e /\ e \notin Elems(q)
  <2>1. r.items = Append(q.items, e) /\ r.busy = q.busy /\ r.again = q.again
    BY <1>1, <1>6
  <2>2. /\ \A i \in DOMAIN r.items : i \in DOMAIN q.items \/ i = Len(q.items) + 1
        /\ Len(q.items) + 1 \in DOMAIN r.items /\ r.items[Len(q.items) + 1] = e
        /\ \A i \in DOMAIN q.items : i \in DOMAIN r.items /\ r.items[i] = q.items[i]
    BY <1>3, <2>1
  <2>3. Elems(r) = Elems(q) \cup {e}
    BY <2>2 DEF Elems
  <2>4. \A i \in DOMAIN q.items : q.items[i] # e
    BY <1>6 DEF Elems
  <2>5. Simple(r)
    BY <1>6, <2>1, <2>2, <2>3, <2>4 DEF Simple
  <2> QED BY <1>6, <2>1, <2>3, <2>5
<1> QED BY <1>2, <1>4, <1>5, <1>6

\* Taking an item takes it out of the set.
LEMMA TakenSet ==
    ASSUME NEW S, NEW q \in Queues(S), q.items # <<>>, Simple(q), NEW r, r = Taken(q)
    PROVE  /\ r.busy \in Elems(q) /\ Elems(r) = Elems(q) \ {r.busy}
           /\ r.again = q.again /\ Simple(r)
<1>1. /\ r.busy = q.items[1] /\ 1 \in DOMAIN q.items
      /\ \A i \in DOMAIN r.items : i + 1 \in DOMAIN q.items /\ r.items[i] = q.items[i + 1]
      /\ \A i \in DOMAIN q.items : i = 1 \/ (i - 1 \in DOMAIN r.items /\ q.items[i] = r.items[i - 1])
  BY TakenItems
<1>2. r.again = q.again
  BY DEF Taken, Queues
<1>3. DOMAIN r.items \subseteq Nat \ {0}
  <2>1. r \in Queues(S)
    BY TakenTyped
  <2>2. DOMAIN r.items = 1..Len(r.items) /\ Len(r.items) \in Nat
    BY <2>1, LenProperties DEF Queues
  <2> QED BY <2>2
<1>4. \A i \in DOMAIN r.items : r.items[i] # q.items[1]
  BY <1>1, <1>3 DEF Simple
<1>5. Elems(r) = Elems(q) \ {r.busy}
  BY <1>1, <1>4 DEF Elems
<1>6. \A i, j \in DOMAIN r.items : r.items[i] = r.items[j] => i = j
  BY <1>1, <1>3 DEF Simple
<1> QED BY <1>1, <1>2, <1>5, <1>6 DEF Simple, Elems

\* An item that was added while it was processed is in the set once it is done.
LEMMA CompletedSet ==
    ASSUME NEW S, NEW q \in Queues(S), NoEvent \notin S, q.busy \in S, Simple(q), NEW r, r = Completed(q)
    PROVE  /\ r.busy = NoEvent /\ ~r.again /\ Simple(r)
           /\ q.again => Elems(r) = Elems(q) \cup {q.busy}
           /\ ~q.again => Elems(r) = Elems(q)
<1>1. /\ q.items \in Seq(S) /\ r.busy = NoEvent /\ ~r.again
      /\ q.again => r.items = Append(q.items, q.busy)
      /\ ~q.again => r.items = q.items
  BY DEF Completed, Queues
<1>2. r \in Queues(S)
  BY CompletedTyped
<1>3. NoEvent \notin Elems(r)
  BY <1>2, ElemsTyped
<1>4. CASE ~q.again
  BY <1>1, <1>3, <1>4 DEF Simple, Elems
<1>5. CASE q.again
  <2>1. /\ Len(q.items) \in Nat /\ DOMAIN q.items = 1..Len(q.items)
        /\ DOMAIN r.items = 1..(Len(q.items) + 1)
        /\ \A i \in 1..Len(q.items) : r.items[i] = q.items[i]
        /\ r.items[Len(q.items) + 1] = q.busy
    BY <1>1, <1>5, AppendProperties, LenProperties
  <2>2. /\ \A i \in DOMAIN r.items : i \in DOMAIN q.items \/ i = Len(q.items) + 1
        /\ Len(q.items) + 1 \in DOMAIN r.items
        /\ \A i \in DOMAIN q.items : i \in DOMAIN r.items
    BY <2>1
  <2>3. Elems(r) = Elems(q) \cup {q.busy}
    BY <2>1, <2>2 DEF Elems
  <2>4. \A i \in DOMAIN q.items : q.items[i] # q.busy
    BY DEF Simple, Elems
  <2>5. \A i, j \in DOMAIN r.items : r.items[i] = r.items[j] => i = j
    <3>1. ASSUME NEW i \in DOMAIN q.items, NEW j \in DOMAIN q.items, r.items[i] = r.items[j]
          PROVE  i = j
      <4>1. r.items[i] = q.items[i] /\ r.items[j] = q.items[j]
        BY <2>1
      <4> QED BY <3>1, <4>1 DEF Simple
    <3>2. \A i \in DOMAIN q.items : r.items[i] # r.items[Len(q.items) + 1]
      BY <2>1, <2>4
    <3> QED BY <2>2, <3>1, <3>2
  <2> QED BY <1>1, <1>3, <1>5, <2>3, <2>5 DEF Simple
<1> QED BY <1>4, <1>5

\* A queue that was just made, and one with the first list of an informer.
LEMMA EmptySet == Elems(EmptyQueue) = {} /\ Simple(EmptyQueue)
<1>1. EmptyQueue.items = <<>> /\ DOMAIN <<>> = {}
  BY EmptySeq DEF EmptyQueue
<1> QED BY <1>1 DEF Elems, Simple

LEMMA ListingsSet ==
    ASSUME NEW S, NEW T \in SUBSET S, IsFiniteSet(T), NoEvent \notin S, NEW q \in Listings(T)
    PROVE  Elems(q) = T /\ Simple(q) /\ q.busy = NoEvent /\ ~q.again
BY ListingsTyped, ListingsOnce DEF Elems, Simple

=============================================================================
