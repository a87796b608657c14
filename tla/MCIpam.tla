------------------------------- MODULE MCIpam -------------------------------
EXTENDS Ipam

CONSTANTS t1, t2, n1

\* The subnet 0..3, with 3 as its broadcast address: a range that is accepted
\* and one for each error of NewSubnet.
Specs ==
    {[lo |-> 0, hi |-> 3, start |-> 1, end |-> 2],
     [lo |-> 0, hi |-> 3, start |-> 4, end |-> 2],
     [lo |-> 0, hi |-> 3, start |-> 1, end |-> 4],
     [lo |-> 0, hi |-> 3, start |-> 2, end |-> 1],
     [lo |-> 0, hi |-> 3, start |-> 2, end |-> 3]}
=============================================================================
