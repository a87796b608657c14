----------------------------- MODULE WorkQueue -----------------------------
(***************************************************************************)
(* client-go's work queue with the single worker every listener of the     *)
(* helper starts: adding an item that waits is absorbed, adding the one    *)
(* being processed queues it again once the worker is done with it.        *)
(***************************************************************************)
EXTENDS Integers, Sequences, FiniteSets

CONSTANT NoEvent    \* no item is being processed

Queues(Event) == [items : Seq(Event), busy : Event \cup {NoEvent}, again : BOOLEAN]

EmptyQueue == [items |-> <<>>, busy |-> NoEvent, again |-> FALSE]

Enqueued(q, e) ==
    IF \E i \in 1..Len(q.items) : q.items[i] = e THEN q
    ELSE IF q.busy = e THEN [q EXCEPT !.again = TRUE]
    ELSE [q EXCEPT !.items = Append(@, e)]

Taken(q) == [q EXCEPT !.busy = Head(q.items), !.items = Tail(@)]

Completed(q) ==
    [items |-> IF q.again THEN Append(q.items, q.busy) ELSE q.items,
     busy  |-> NoEvent,
     again |-> FALSE]

\* The queues an informer's first list can leave, in whatever order it comes.
Listings(Events) ==
    {[EmptyQueue EXCEPT !.items = s] :
       s \in {t \in [1..Cardinality(Events) -> Events] :
                {t[i] : i \in DOMAIN t} = Events}}
=============================================================================
