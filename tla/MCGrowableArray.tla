-------------------------- MODULE MCGrowableArray --------------------------
(* Scaled instance of growable_array.rs: a 6-bit usize, 4-slot segments   *)
(* (SEGMENT_LOGSIZE 2) and a 2-bit tag, so that, as with 64 bits, 1024    *)
(* slots and 3 tag bits, the largest height the tag holds is exactly the  *)
(* height that addresses every usize.                                     *)
EXTENDS GrowableArray, TLC

CONSTANTS t1, t2

MCThreads == {t1, t2}

\* 41 and 40 share their two upper digits, so both threads race to grow
\* the root and to install the same inner segments; both threads ask for
\* 1, at heights the other thread may have raised in between; 3 equals
\* max_key at height 1.
MCRequests == (t1 :> <<1, 41>>) @@ (t2 :> <<40, 3, 1>>)

\* A single get of an index whose upper digit is SegSize - 1.
LeakRequests == (t1 :> <<48>>) @@ (t2 :> <<>>)

\* No get at all before the array is dropped.
EmptyRequests == (t1 :> <<>>) @@ (t2 :> <<>>)

\* A get of usize::MAX.
MaxRequests == (t1 :> <<63>>) @@ (t2 :> <<>>)
=============================================================================
