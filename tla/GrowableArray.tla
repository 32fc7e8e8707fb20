---------------------------- MODULE GrowableArray ----------------------------
(***************************************************************************)
(* The lock-free growable trie of atomic slots,                            *)
(* src/homework/src/hash_table/growable_array.rs.                          *)
(*                                                                         *)
(* Memory is a sequence of published segments; a segment is a function     *)
(* from 0..SegSize-1 to a slot word: Null, a segment id (inner levels) or  *)
(* an element (leaf level).  Segments allocated for a CAS that loses are   *)
(* freed at once and never published, so they are not represented.  The   *)
(* root is the Atomic<Segment> with its crossbeam tag, the tree height.    *)
(*                                                                         *)
(* Each thread runs the calls listed in Requests[t]: get(index) followed   *)
(* by the caller's CAS of the returned slot from null to an element, as   *)
(* SplitOrderedList::lookup_bucket does.  Drop runs once all calls are     *)
(* done (it takes &mut self).                                              *)
(***************************************************************************)
EXTENDS Integers, Sequences, FiniteSets, Bitwise

CONSTANTS
  Threads,     \* threads calling get
  Requests,    \* Requests[t]: the indices thread t passes to get, in order
  WordBits,    \* USIZE_SIZE, the width of usize
  SegLog,      \* SEGMENT_LOGSIZE
  TagBits,     \* low bits of a Segment pointer that crossbeam uses as tag
  MaxSegs,     \* bound on the number of published segments
  Null         \* the null pointer (a model value); segment ids are 1, 2, ...

ASSUME /\ WordBits \in Nat \ {0}
       /\ SegLog \in 1..WordBits
       /\ TagBits \in Nat \ {0}
       /\ \A t \in Threads : \A k \in 1..Len(Requests[t]) :
             Requests[t][k] \in 0..(2^WordBits - 1)

SegSize == 2^SegLog            \* 1 << SEGMENT_LOGSIZE
WordMax == 2^WordBits - 1      \* usize::MAX
TagMask == 2^TagBits - 1       \* crossbeam's low_bits::<Segment>()
SegPtr(n) == [seg |-> n]       \* a word pointing to segment n
Elem(t, k) == [elem |-> <<t, k>>]  \* the element thread t stores at its k-th call

VARIABLES
  root,     \* [ptr, tag]: GrowableArray.root; the tag is the height
  mem,      \* published segments, id = position in the sequence
  pc,       \* per-thread program counter
  calls,    \* number of calls thread t has started
  snap,     \* root as loaded by the thread (the CAS expected value)
  cur,      \* segment the descent is in (`node`)
  ht,       \* current_height of the descent
  slot,     \* <<segment, offset>> the descent is at / returned
  seen,     \* <<index, word>> read back after the caller's CAS
  freed,    \* segments deallocated by Drop
  dropped,  \* Drop has run
  crashed   \* Drop dereferenced an invalid root

vars == <<root, mem, pc, calls, snap, cur, ht, slot, seen, freed, dropped,
          crashed>>

Idx(t) == Requests[t][calls[t]]

EmptySegment == [x \in 0..SegSize - 1 |-> Null]

(* get, lines 235-243: the largest key the tree addresses at height h.    *)
MaxKey(h) ==
  IF h > 0
  THEN shiftR(WordMax, WordBits - (IF WordBits < SegLog * h
                                    THEN WordBits ELSE SegLog * h))
  ELSE 0

(* get, line 275: the digit of index used at height h.                    *)
Digit(index, h) == shiftR(index, (h - 1) * SegLog) & (SegSize - 1)

-----------------------------------------------------------------------------
Init ==
  /\ root = [ptr |-> Null, tag |-> 0]
  /\ mem = <<>>
  /\ pc = [t \in Threads |-> "idle"]
  /\ calls = [t \in Threads |-> 0]
  /\ snap = [t \in Threads |-> [ptr |-> Null, tag |-> 0]]
  /\ cur = [t \in Threads |-> Null]
  /\ ht = [t \in Threads |-> 0]
  /\ slot = [t \in Threads |-> <<Null, Null>>]
  /\ seen = [t \in Threads |-> <<Null, Null>>]
  /\ freed = {}
  /\ dropped = FALSE
  /\ crashed = FALSE

\* A thread calls get with its next requested index.
Call(t) ==
  /\ pc[t] = "idle"
  /\ calls[t] < Len(Requests[t])
  /\ calls' = [calls EXCEPT ![t] = @ + 1]
  /\ pc' = [pc EXCEPT ![t] = "load"]
  /\ UNCHANGED <<root, mem, snap, cur, ht, slot, seen, freed, dropped, crashed>>

\* Lines 233-246: load the root; if the index is below max_key, start the
\* descent from this root at its height.
LoadRoot(t) ==
  /\ pc[t] = "load"
  /\ Idx(t) < MaxKey(root.tag)
  /\ cur' = [cur EXCEPT ![t] = root.ptr]
  /\ ht' = [ht EXCEPT ![t] = root.tag]
  /\ pc' = [pc EXCEPT ![t] = "walk"]
  /\ UNCHANGED <<root, mem, calls, snap, slot, seen, freed, dropped, crashed>>

\* Lines 233-245: otherwise remember the root for the growth CAS.
LoadRootTooLow(t) ==
  /\ pc[t] = "load"
  /\ ~ (Idx(t) < MaxKey(root.tag))
  /\ snap' = [snap EXCEPT ![t] = root]
  /\ pc' = [pc EXCEPT ![t] = "grow"]
  /\ UNCHANGED <<root, mem, calls, cur, ht, slot, seen, freed, dropped, crashed>>

(* Lines 249-264: a new segment whose slot 0 holds the old root; the CAS   *)
(* installs it with tag root_height + 1, truncated to the tag bits.        *)
NewTag(h) == (h + 1) & TagMask

\* Mutant: the new root's slot 0 is left null, losing the old tree.
GrowRootUnlinked(t) ==
  /\ pc[t] = "grow"
  /\ root = snap[t]
  /\ Len(mem) < MaxSegs
  /\ mem' = Append(mem, EmptySegment)
  /\ root' = [ptr |-> SegPtr(Len(mem) + 1), tag |-> NewTag(snap[t].tag)]
  /\ pc' = [pc EXCEPT ![t] = "load"]
  /\ UNCHANGED <<calls, snap, cur, ht, slot, seen, freed, dropped, crashed>>

\* Lines 254-266: the growth CAS succeeds; the loop re-reads the root.
GrowRoot(t) ==
  /\ pc[t] = "grow"
  /\ root = snap[t]
  /\ Len(mem) < MaxSegs
  /\ mem' = Append(mem, [EmptySegment EXCEPT ![0] = snap[t].ptr])
  /\ root' = [ptr |-> SegPtr(Len(mem) + 1), tag |-> NewTag(snap[t].tag)]
  /\ pc' = [pc EXCEPT ![t] = "load"]
  /\ UNCHANGED <<calls, snap, cur, ht, slot, seen, freed, dropped, crashed>>

\* Lines 260-266: the growth CAS fails; the new segment is dropped.
GrowRootFail(t) ==
  /\ pc[t] = "grow"
  /\ root # snap[t]
  /\ pc' = [pc EXCEPT ![t] = "load"]
  /\ UNCHANGED <<root, mem, calls, snap, cur, ht, slot, seen, freed, dropped,
                 crashed>>

\* Lines 274-285: at height 1 the slot itself is returned to the caller.
WalkLeaf(t) ==
  /\ pc[t] = "walk"
  /\ ht[t] = 1
  /\ slot' = [slot EXCEPT ![t] = <<cur[t].seg, Digit(Idx(t), 1)>>]
  /\ pc' = [pc EXCEPT ![t] = "publish"]
  /\ UNCHANGED <<root, mem, calls, snap, cur, ht, seen, freed, dropped, crashed>>

\* Mutant: the height-1 check comes after following the slot, so a leaf
\* element is taken for a segment.
WalkDownAtLeaf(t) ==
  LET child == mem[cur[t].seg][Digit(Idx(t), ht[t])]
  IN /\ pc[t] = "walk"
     /\ child # Null
     /\ cur' = [cur EXCEPT ![t] = child]
     /\ ht' = [ht EXCEPT ![t] = @ - 1]
     /\ UNCHANGED <<root, mem, pc, calls, snap, slot, seen, freed, dropped,
                    crashed>>

\* Lines 274-308: a non-null child is followed one level down.
WalkDown(t) ==
  LET child == mem[cur[t].seg][Digit(Idx(t), ht[t])]
  IN /\ pc[t] = "walk"
     /\ ht[t] # 1
     /\ child # Null
     /\ cur' = [cur EXCEPT ![t] = child]
     /\ ht' = [ht EXCEPT ![t] = @ - 1]
     /\ UNCHANGED <<root, mem, pc, calls, snap, slot, seen, freed, dropped,
                    crashed>>

\* Lines 274-287: a null child; remember the slot for the install CAS.
WalkNull(t) ==
  LET d == Digit(Idx(t), ht[t])
  IN /\ pc[t] = "walk"
     /\ ht[t] # 1
     /\ mem[cur[t].seg][d] = Null
     /\ slot' = [slot EXCEPT ![t] = <<cur[t].seg, d>>]
     /\ pc' = [pc EXCEPT ![t] = "install"]
     /\ UNCHANGED <<root, mem, calls, snap, cur, ht, seen, freed, dropped,
                    crashed>>

\* Lines 288-298: the CAS from null publishes a fresh segment, and the
\* descent continues in it.
Install(t) ==
  LET s == slot[t][1]
      d == slot[t][2]
      n == Len(mem) + 1
  IN /\ pc[t] = "install"
     /\ mem[s][d] = Null
     /\ Len(mem) < MaxSegs
     /\ mem' = [Append(mem, EmptySegment) EXCEPT ![s][d] = SegPtr(n)]
     /\ cur' = [cur EXCEPT ![t] = SegPtr(n)]
     /\ ht' = [ht EXCEPT ![t] = @ - 1]
     /\ pc' = [pc EXCEPT ![t] = "walk"]
     /\ UNCHANGED <<root, calls, snap, slot, seen, freed, dropped, crashed>>

\* Mutant: a failed install retries the CAS against the stale null
\* instead of reading the slot again.
InstallRetryStale(t) ==
  /\ pc[t] = "install"
  /\ mem[slot[t][1]][slot[t][2]] # Null
  /\ UNCHANGED vars

\* Lines 299-304: another thread installed first; the fresh segment is
\* dropped and the same slot is read again.
InstallFail(t) ==
  /\ pc[t] = "install"
  /\ mem[slot[t][1]][slot[t][2]] # Null
  /\ pc' = [pc EXCEPT ![t] = "walk"]
  /\ UNCHANGED <<root, mem, calls, snap, cur, ht, slot, seen, freed, dropped,
                 crashed>>

(* The caller's CAS on the returned slot from null to its element, then   *)
(* its read of the slot (split_ordered_list.rs, lookup_bucket, 104-112).  *)
Publish(t) ==
  LET s == slot[t][1]
      d == slot[t][2]
      word == IF mem[s][d] = Null THEN Elem(t, calls[t]) ELSE mem[s][d]
  IN /\ pc[t] = "publish"
     /\ mem' = [mem EXCEPT ![s][d] = word]
     /\ seen' = [seen EXCEPT ![t] = <<Idx(t), word>>]
     /\ pc' = [pc EXCEPT ![t] = "idle"]
     /\ UNCHANGED <<root, calls, snap, cur, ht, slot, freed, dropped, crashed>>

(* Drop, lines 176-207: from the root at its tagged height, free each     *)
(* segment and push the non-null children of slots 0..max_key-1, where   *)
(* max_key = SEGMENT_LOGSIZE-size minus one; leaf segments free only      *)
(* themselves.                                                            *)
\* Mutant: the traversal starts at slot 1 and misses the old root.
RECURSIVE DropTreeFrom1(_, _)
DropTreeFrom1(p, h) ==
  IF h = 1 THEN {p.seg}
  ELSE {p.seg} \cup UNION {DropTreeFrom1(mem[p.seg][x], h - 1) :
                            x \in {y \in 1..(SegSize - 1) - 1 : mem[p.seg][y] # Null}}

RECURSIVE DropTree(_, _)
DropTree(p, h) ==
  IF h = 1 THEN {p.seg}
  ELSE {p.seg} \cup UNION {DropTree(mem[p.seg][x], h - 1) :
                            x \in {y \in 0..(SegSize - 1) - 1 : mem[p.seg][y] # Null}}

(* Lines 180-181: into_owned on a null root (height 0) is a debug          *)
(* assertion failure, and in release a null dereference in the loop; a     *)
(* non-null root with tag 0 underflows height - 1.  Both crash.            *)
Drop ==
  /\ ~ dropped
  /\ \A t \in Threads : pc[t] = "idle" /\ calls[t] = Len(Requests[t])
  /\ dropped' = TRUE
  /\ crashed' = (root.tag = 0)
  /\ freed' = IF root.tag = 0 THEN {} ELSE DropTree(root.ptr, root.tag)
  /\ UNCHANGED <<root, mem, pc, calls, snap, cur, ht, slot, seen>>

Step(t) ==
  \/ Call(t)
  \/ LoadRoot(t)
  \/ LoadRootTooLow(t)
  \/ GrowRoot(t)
  \/ GrowRootFail(t)
  \/ WalkLeaf(t)
  \/ WalkDown(t)
  \/ WalkNull(t)
  \/ Install(t)
  \/ InstallFail(t)
  \/ Publish(t)

Next == Drop \/ \E t \in Threads : Step(t)

\* Threads are OS threads; a runnable thread is eventually scheduled.
Spec == Init /\ [][Next]_vars /\ \A t \in Threads : WF_vars(Step(t))

-----------------------------------------------------------------------------
SegIds == 1..MaxSegs
AllElems == UNION {{Elem(t, k) : k \in 1..Len(Requests[t])} : t \in Threads}
Words == {Null} \cup {SegPtr(n) : n \in SegIds} \cup AllElems

TypeOK ==
  /\ root \in [ptr : {Null} \cup {SegPtr(n) : n \in SegIds}, tag : 0..TagMask]
  /\ Len(mem) \in 0..MaxSegs
  /\ \A s \in 1..Len(mem) : mem[s] \in [0..SegSize - 1 -> Words]
  /\ pc \in [Threads -> {"idle", "load", "grow", "walk", "install", "publish"}]
  /\ \A t \in Threads :
       /\ calls[t] \in 0..Len(Requests[t])
       /\ pc[t] \in {"walk", "install"} => /\ cur[t] \in {SegPtr(n) : n \in 1..Len(mem)}
                                           /\ ht[t] \in 1..TagMask
       /\ pc[t] = "publish" => slot[t] \in (1..Len(mem)) \X (0..SegSize - 1)
  /\ freed \subseteq SegIds
  /\ dropped \in BOOLEAN /\ crashed \in BOOLEAN

(* The word the tree holds for index i: walk the digits from the root;    *)
(* an index above the root's max_key has no slot yet.                     *)
RECURSIVE Walk(_, _, _)
Walk(n, h, i) ==
  IF n = Null THEN Null
  ELSE LET w == mem[n.seg][Digit(i, h)]
       IN IF h = 1 THEN w ELSE Walk(w, h - 1, i)

LeafValue(i) ==
  IF root.tag = 0 \/ i > MaxKey(root.tag) THEN Null
  ELSE Walk(root.ptr, root.tag, i)

Requested == UNION {{Requests[t][k] : k \in 1..Len(Requests[t])} : t \in Threads}

\* get implements SlotArray: the cell of index i is the leaf slot reached
\* from the current root, and what a caller reads back after its CAS is
\* that cell.  Growth of the root and installs of inner segments move no
\* cell, and no two indices share one.
Slots == INSTANCE SlotArray WITH
           Indices <- Requested,
           Elems <- AllElems,
           cell <- [i \in Requested |-> LeafValue(i)]

SlotSpec == Slots!Spec

\* Every get call returns: the growth and install CAS loops of get only
\* retry after another thread's CAS succeeded.
GetReturns == \A t \in Threads : pc[t] # "idle" ~> pc[t] = "idle"

\* Dropping the array frees every segment that was ever published: none
\* is left unreachable by the traversal of Drop.
DropFreesAll == dropped /\ ~ crashed => freed = 1..Len(mem)

\* Dropping an array whose get was never called does not crash
\* (SplitOrderedList::new() followed by drop reaches this).
DropNeverCrashes == ~ crashed

\* The height of the tree never decreases (spec: "Height only
\* increases"), whatever index get is called with.
HeightMonotonic == [][root'.tag >= root.tag]_root
=============================================================================
