-------------------------- MODULE MCOrderedListSet --------------------------
EXTENDS OrderedListSet, TLC

CONSTANTS t1, t2, t3

Con(k) == [op |-> "contains", key |-> k]
Ins(k) == [op |-> "insert", key |-> k]
Rem(k) == [op |-> "remove", key |-> k]
Iter == [op |-> "iter", key |-> 0]

\* Three threads whose cursors pass over each other's nodes: inserts in
\* front of and behind a node being removed, a duplicate insert, and an
\* iteration over the changing list.
RaceThreads == {t1, t2, t3}
RaceScript == (t1 :> <<Ins(2), Rem(1)>>)
           @@ (t2 :> <<Ins(1), Ins(3), Con(2)>>)
           @@ (t3 :> <<Ins(2), Rem(2), Iter>>)

\* One thread iterates over a node another thread then removes.
IterThreads == {t1, t2}
IterScript == (t1 :> <<Ins(1), Iter>>) @@ (t2 :> <<Rem(1)>>)
=============================================================================
