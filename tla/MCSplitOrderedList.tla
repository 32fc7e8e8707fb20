------------------------- MODULE MCSplitOrderedList -------------------------
(* Instances of split_ordered_list.rs over a 4-bit usize: keys 0..7, list *)
(* keys 0..15, and a count that wraps modulo 16.                          *)
EXTENDS SplitOrderedList, TLC

CONSTANTS t1, t2, t3

Ins(k) == [op |-> "insert", key |-> k]
Del(k) == [op |-> "delete", key |-> k]
Get(k) == [op |-> "lookup", key |-> k]

\* Keys 1 and 3 share bucket 1 at size 2: every pair of threads races on
\* the bucket's sentinel, on inserting next to each other and on deleting
\* what the other inserted.
RaceThreads == {t1, t2, t3}
RaceScript == (t1 :> <<Ins(1), Del(3)>>)
           @@ (t2 :> <<Ins(3), Del(1)>>)
           @@ (t3 :> <<Del(1)>>)

\* Six inserts make the sixth see count 5 > 2 * 2 and double size; the
\* calls after it split buckets 0 and 1 into 2 and 3, and the last insert
\* finds its key present.
GrowThreads == {t1, t2}
GrowScript == (t1 :> <<Ins(0), Ins(2), Ins(4), Get(6)>>)
           @@ (t2 :> <<Ins(1), Ins(3), Ins(5), Ins(3)>>)

\* A delete of a key between its insert's CAS and count.fetch_add: the
\* fetch_sub wraps count, and the insert's fetch_add reads the wrapped value.
WrapThreads == {t1, t2}
WrapScript == (t1 :> <<Ins(1)>>) @@ (t2 :> <<Del(1)>>)
\* Lookups of keys 1 and 3 while another thread inserts and deletes 1 and a
\* third inserts 3, all in bucket 1, which the first call initialises.
LookupScript == (t1 :> <<Ins(1), Del(1)>>)
             @@ (t2 :> <<Get(1), Get(3)>>)
             @@ (t3 :> <<Ins(3)>>)

\* Such races double size on a wrapped count, from 2 to 4 and 8; then
\* 8 * LOAD_FACTOR wraps to 0, any nonzero count exceeds it, and size * 2
\* wraps to 0.
ZeroScript == (t1 :> <<Ins(1), Ins(1), Ins(1)>>) @@ (t2 :> <<Del(1), Del(1), Del(1)>>)
=============================================================================
