------------------------------ MODULE SlotArray ------------------------------
(***************************************************************************)
(* What GrowableArray<T> promises its caller (growable_array.rs, get):     *)
(* an array of atomic cells indexed by usize, where get(i) always yields   *)
(* the same cell for the same i.  The caller's only write to a cell is a   *)
(* compare-and-set from null, after which it reads back what the cell now  *)
(* holds (split_ordered_list.rs, lookup_bucket).  Here that                *)
(* get-then-CAS is one atomic step; seen[t] is what thread t read back,    *)
(* paired with the index it asked for.                                     *)
(***************************************************************************)
CONSTANTS Indices,   \* indices the callers ask for
          Threads,   \* calling threads
          Elems,     \* values callers store
          Null       \* the null pointer

VARIABLES cell, seen

Init ==
  /\ cell = [i \in Indices |-> Null]
  /\ seen = [t \in Threads |-> <<Null, Null>>]

\* Thread t stores e into cell i unless someone stored there first, and
\* reads back the cell.
Store(t, i, e) ==
  /\ cell' = IF cell[i] = Null THEN [cell EXCEPT ![i] = e] ELSE cell
  /\ seen' = [seen EXCEPT ![t] = <<i, cell'[i]>>]

Next == \E t \in Threads, i \in Indices, e \in Elems : Store(t, i, e)

Spec == Init /\ [][Next]_<<cell, seen>>
=============================================================================
