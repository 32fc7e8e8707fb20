---------------------------- MODULE OrderedListSet ----------------------------
(***************************************************************************)
(* The lock-coupling sorted list set, src/homework/src/list_set.rs.       *)
(*                                                                         *)
(* Every pointer of the list, the head and each node's next, sits in its   *)
(* own Mutex.  nxt[l] is the pointer guarded by lock l (HeadLock for the   *)
(* head, a node id for that node's next), owner[l] the thread holding l.   *)
(* A node is allocated by an insert call and named by it: <<t, i>> is the  *)
(* node of thread t's i-th call, and its data is that call's key.         *)
(*                                                                         *)
(* A step acquires at most one lock.  What a thread reads while it holds   *)
(* the lock guarding it (the pointer, the data of the node it points to,   *)
(* which no other thread can unlink) is read in the same step.            *)
(*                                                                         *)
(* Each thread runs the calls Script[t]: contains, insert, remove, or iter *)
(* (create an Iter and call next until it returns None, keeping every     *)
(* reference it returned until the thread's next call).                   *)
(***************************************************************************)
EXTENDS Integers, Sequences, FiniteSets

CONSTANTS
  Threads,    \* calling threads
  Script,     \* Script[t]: the calls of thread t, in order
  Null,       \* the null pointer
  HeadLock,   \* the Mutex of OrderedListSet.head
  NoOwner,    \* an unlocked Mutex
  NoLock,     \* a thread holding no cursor or iterator guard
  NoOp, NoRes \* see AtomicSet

Calls(t) == 1..Len(Script[t])
ASSUME /\ \A t \in Threads : \A i \in Calls(t) :
            Script[t][i].op \in {"contains", "insert", "remove", "iter"}
       /\ {Null, HeadLock, NoOwner, NoLock} \cap Threads = {}
NodeIds == UNION {{<<t, i>> : i \in {j \in Calls(t) : Script[t][j].op = "insert"}}
                  : t \in Threads}
LockIds == {HeadLock} \cup NodeIds

Data(n) == Script[n[1]][n[2]].key          \* Node.data

VARIABLES
  nxt,      \* nxt[l]: the pointer guarded by lock l
  owner,    \* owner[l]: the thread holding lock l, or NoOwner
  alloc,    \* nodes allocated so far
  freed,    \* nodes deallocated so far
  pc,       \* per-thread program counter
  opi,      \* number of calls thread t has started
  guard,    \* the MutexGuard of the cursor or the Iter (a lock id)
  found,    \* the result of find
  first,    \* Iter's second field: the head node is still to be returned
  refs,     \* the references Iter::next returned in the current call
  res,      \* the result of the current call once it has taken effect
  dropped,  \* the set has been dropped
  stable    \* history: keys present since the thread's Iter locked the head

vars == <<nxt, owner, alloc, freed, pc, opi, guard, found, first, refs, res,
          dropped, stable>>

Op(t) == Script[t][opi[t]]
Key(t) == Op(t).key

\* Mutant: find walks past a node equal to the key.
ExamineLt(t, l) ==
  LET c == nxt[l] IN
  IF c = Null \/ Key(t) < Data(c)
  THEN /\ found' = [found EXCEPT ![t] = c # Null /\ Key(t) = Data(c)]
       /\ pc' = [pc EXCEPT ![t] = "op"]
  ELSE /\ pc' = [pc EXCEPT ![t] = "lockNext"]
       /\ UNCHANGED found

\* Mutant: find reports found wherever it stops at a node.
ExamineNoEq(t, l) ==
  LET c == nxt[l] IN
  IF c = Null \/ Key(t) <= Data(c)
  THEN /\ found' = [found EXCEPT ![t] = c # Null]
       /\ pc' = [pc EXCEPT ![t] = "op"]
  ELSE /\ pc' = [pc EXCEPT ![t] = "lockNext"]
       /\ UNCHANGED found

(* Cursor::find, lines 41-49 and 55-62, once the cursor holds lock l:     *)
(* stop at a null pointer or at the first node whose data is >= key, and  *)
(* report whether it equals key; otherwise go on locking the node's next. *)
Examine(t, l) ==
  LET c == nxt[l] IN
  IF c = Null \/ Key(t) <= Data(c)
  THEN /\ found' = [found EXCEPT ![t] = c # Null /\ Key(t) = Data(c)]
       /\ pc' = [pc EXCEPT ![t] = "op"]
  ELSE /\ pc' = [pc EXCEPT ![t] = "lockNext"]
       /\ UNCHANGED found

\* The MutexGuard the thread holds is dropped.
Release(t) == owner' = [owner EXCEPT ![guard[t]] = NoOwner]

(* Drop, lines 173-182, walks the list from the head; the nodes it meets *)
(* are those reachable from the head.                                     *)
RECURSIVE Chain(_, _)
Chain(p, fuel) ==
  IF p = Null \/ fuel = 0 THEN <<>> ELSE <<p>> \o Chain(nxt[p], fuel - 1)

ListSeq == Chain(nxt[HeadLock], Cardinality(NodeIds))
Reachable == {ListSeq[i] : i \in 1..Len(ListSeq)}

-----------------------------------------------------------------------------
Init ==
  /\ nxt = [l \in LockIds |-> Null]
  /\ owner = [l \in LockIds |-> NoOwner]
  /\ alloc = {}
  /\ freed = {}
  /\ pc = [t \in Threads |-> "idle"]
  /\ opi = [t \in Threads |-> 0]
  /\ guard = [t \in Threads |-> NoLock]
  /\ found = [t \in Threads |-> FALSE]
  /\ first = [t \in Threads |-> FALSE]
  /\ refs = [t \in Threads |-> {}]
  /\ res = [t \in Threads |-> NoRes]
  /\ dropped = FALSE
  /\ stable = [t \in Threads |-> {}]

\* The thread starts its next call; the references of its previous one are
\* no longer used.
Call(t) ==
  /\ pc[t] = "idle"
  /\ opi[t] < Len(Script[t])
  /\ ~ dropped
  /\ opi' = [opi EXCEPT ![t] = @ + 1]
  /\ pc' = [pc EXCEPT ![t] = IF Script[t][opi[t] + 1].op = "iter" THEN "iterLock"
                             ELSE "lockHead"]
  /\ refs' = [refs EXCEPT ![t] = {}]
  /\ res' = [res EXCEPT ![t] = NoRes]
  /\ UNCHANGED <<nxt, owner, alloc, freed, guard, found, first, dropped, stable>>

\* OrderedListSet::find, line 80, and Cursor::find, lines 40-49: lock the
\* head and look at the first node.
LockHead(t) ==
  /\ pc[t] = "lockHead"
  /\ owner[HeadLock] = NoOwner
  /\ owner' = [owner EXCEPT ![HeadLock] = t]
  /\ guard' = [guard EXCEPT ![t] = HeadLock]
  /\ Examine(t, HeadLock)
  /\ UNCHANGED <<nxt, alloc, freed, opi, first, refs, res, dropped, stable>>

\* Mutant: the old guard is kept when the cursor moves on.
LockNextKeepOld(t) ==
  LET n == nxt[guard[t]] IN
  /\ pc[t] = "lockNext"
  /\ owner[n] = NoOwner
  /\ owner' = [owner EXCEPT ![n] = t]
  /\ guard' = [guard EXCEPT ![t] = n]
  /\ Examine(t, n)
  /\ UNCHANGED <<nxt, alloc, freed, opi, first, refs, res, dropped, stable>>

\* Cursor::find, lines 51-64: lock the current node's next, then drop the
\* guard held so far (the assignment to self.0), and look at the node the
\* new guard points to.
LockNext(t) ==
  LET n == nxt[guard[t]] IN
  /\ pc[t] = "lockNext"
  /\ owner[n] = NoOwner
  /\ owner' = [owner EXCEPT ![n] = t, ![guard[t]] = NoOwner]
  /\ guard' = [guard EXCEPT ![t] = n]
  /\ Examine(t, n)
  /\ UNCHANGED <<nxt, alloc, freed, opi, first, refs, res, dropped, stable>>

\* The call returns: its result, and the cursor's guard is dropped.
Return(t, r) ==
  /\ Release(t)
  /\ guard' = [guard EXCEPT ![t] = NoLock]
  /\ res' = [res EXCEPT ![t] = r]
  /\ pc' = [pc EXCEPT ![t] = "idle"]

\* contains, lines 87-90.
Contains(t) ==
  /\ pc[t] = "op" /\ Op(t).op = "contains"
  /\ Return(t, IF found[t] THEN "found" ELSE "absent")
  /\ UNCHANGED <<nxt, alloc, freed, opi, found, first, refs, dropped, stable>>

\* insert, lines 94-97: the key is present.
InsertPresent(t) ==
  /\ pc[t] = "op" /\ Op(t).op = "insert"
  /\ found[t]
  /\ Return(t, "err")
  /\ UNCHANGED <<nxt, alloc, freed, opi, found, first, refs, dropped, stable>>

\* Mutant: the new node is created with a null next, cutting off the
\* cursor's node and everything after it.
InsertNewNoSucc(t) ==
  LET n == <<t, opi[t]>> IN
  /\ pc[t] = "op" /\ Op(t).op = "insert"
  /\ ~ found[t]
  /\ nxt' = [nxt EXCEPT ![n] = Null, ![guard[t]] = n]
  /\ alloc' = alloc \cup {n}
  /\ Return(t, "ok")
  /\ UNCHANGED <<freed, opi, found, first, refs, dropped, stable>>

\* insert, lines 99-102: a new node pointing to the cursor's node is
\* written through the held guard.
InsertNew(t) ==
  LET n == <<t, opi[t]>> IN
  /\ pc[t] = "op" /\ Op(t).op = "insert"
  /\ ~ found[t]
  /\ nxt' = [nxt EXCEPT ![n] = nxt[guard[t]], ![guard[t]] = n]
  /\ alloc' = alloc \cup {n}
  /\ Return(t, "ok")
  /\ UNCHANGED <<freed, opi, found, first, refs, dropped, stable>>

\* remove, lines 107-110: the key is absent.
RemoveAbsent(t) ==
  /\ pc[t] = "op" /\ Op(t).op = "remove"
  /\ ~ found[t]
  /\ Return(t, "err")
  /\ UNCHANGED <<nxt, alloc, freed, opi, found, first, refs, dropped, stable>>

\* Mutant: the removed node is unlinked without locking its next.
RemoveNodeNoLock(t) ==
  LET c == nxt[guard[t]] IN
  /\ pc[t] = "op" /\ Op(t).op = "remove"
  /\ found[t]
  /\ nxt' = [nxt EXCEPT ![guard[t]] = nxt[c]]
  /\ freed' = freed \cup {c}
  /\ stable' = [u \in Threads |-> stable[u] \ {Data(c)}]
  /\ Return(t, "ok")
  /\ UNCHANGED <<alloc, opi, found, first, refs, dropped>>

\* Mutant: the node owning the held guard is freed instead of the one it
\* points to.
RemoveNodeFreesPred(t) ==
  LET c == nxt[guard[t]] IN
  /\ pc[t] = "op" /\ Op(t).op = "remove"
  /\ found[t]
  /\ owner[c] = NoOwner
  /\ nxt' = [nxt EXCEPT ![guard[t]] = nxt[c]]
  /\ freed' = freed \cup {guard[t]}
  /\ stable' = [u \in Threads |-> stable[u] \ {Data(c)}]
  /\ Return(t, "ok")
  /\ UNCHANGED <<alloc, opi, found, first, refs, dropped>>

(* remove, lines 112-119: lock the removed node's next (waiting for any   *)
(* thread whose cursor holds it), link the predecessor past it, and on    *)
(* return drop both guards and free the node.                             *)
RemoveNode(t) ==
  LET c == nxt[guard[t]] IN
  /\ pc[t] = "op" /\ Op(t).op = "remove"
  /\ found[t]
  /\ owner[c] = NoOwner
  /\ nxt' = [nxt EXCEPT ![guard[t]] = nxt[c]]
  /\ freed' = freed \cup {c}
  /\ stable' = [u \in Threads |-> stable[u] \ {Data(c)}]
  /\ Return(t, "ok")
  /\ UNCHANGED <<alloc, opi, found, first, refs, dropped>>

\* iter, lines 128-130: Iter(Some(head.lock()), true).
IterLock(t) ==
  /\ pc[t] = "iterLock"
  /\ owner[HeadLock] = NoOwner
  /\ owner' = [owner EXCEPT ![HeadLock] = t]
  /\ guard' = [guard EXCEPT ![t] = HeadLock]
  /\ first' = [first EXCEPT ![t] = TRUE]
  /\ stable' = [stable EXCEPT ![t] = {Data(n) : n \in Reachable}]
  /\ pc' = [pc EXCEPT ![t] = "iterNext"]
  /\ UNCHANGED <<nxt, alloc, freed, opi, found, refs, res, dropped>>

\* next, lines 144-146: the list is empty; the caller sees None and drops
\* the Iter with its guard.
IterEmpty(t) ==
  /\ pc[t] = "iterNext"
  /\ nxt[guard[t]] = Null
  /\ Return(t, NoRes)
  /\ UNCHANGED <<nxt, alloc, freed, opi, found, first, refs, dropped, stable>>

\* Mutant: the first call clears the flag but returns nothing for the head
\* node, moving on as later calls do.
IterFirstSkip(t) ==
  /\ pc[t] = "iterNext"
  /\ nxt[guard[t]] # Null /\ first[t]
  /\ first' = [first EXCEPT ![t] = FALSE]
  /\ UNCHANGED <<nxt, owner, alloc, freed, pc, opi, guard, found, refs, res, dropped, stable>>

\* next, lines 148-155: the first call returns the head node's data.
IterFirst(t) ==
  LET n == nxt[guard[t]] IN
  /\ pc[t] = "iterNext"
  /\ n # Null /\ first[t]
  /\ first' = [first EXCEPT ![t] = FALSE]
  /\ refs' = [refs EXCEPT ![t] = @ \cup {n}]
  /\ UNCHANGED <<nxt, owner, alloc, freed, pc, opi, guard, found, res, dropped, stable>>

(* next, lines 157-167: lock the current node's next; at the end of the   *)
(* list drop both guards (self.0 = None) and return None, else move the   *)
(* guard on and return the next node's data.                              *)
IterStep(t) ==
  LET n == nxt[guard[t]] IN
  /\ pc[t] = "iterNext"
  /\ n # Null /\ ~ first[t]
  /\ owner[n] = NoOwner
  /\ IF nxt[n] = Null
     THEN /\ Return(t, NoRes)
          /\ UNCHANGED refs
     ELSE /\ owner' = [owner EXCEPT ![n] = t, ![guard[t]] = NoOwner]
          /\ guard' = [guard EXCEPT ![t] = n]
          /\ refs' = [refs EXCEPT ![t] = @ \cup {nxt[n]}]
          /\ UNCHANGED <<pc, res>>
  /\ UNCHANGED <<nxt, alloc, freed, opi, found, first, dropped, stable>>

(* Drop, lines 172-183: once no thread uses the set, free every node      *)
(* reachable from the head.                                                *)
Drop ==
  /\ ~ dropped
  /\ \A t \in Threads : pc[t] = "idle" /\ opi[t] = Len(Script[t])
  /\ dropped' = TRUE
  /\ freed' = freed \cup Reachable
  /\ UNCHANGED <<nxt, owner, alloc, pc, opi, guard, found, first, refs, res, stable>>

Step(t) ==
  \/ Call(t) \/ LockHead(t) \/ LockNext(t)
  \/ Contains(t) \/ InsertPresent(t) \/ InsertNew(t)
  \/ RemoveAbsent(t) \/ RemoveNode(t)
  \/ IterLock(t) \/ IterEmpty(t) \/ IterFirst(t) \/ IterStep(t)

Next == Drop \/ \E t \in Threads : Step(t)

\* Threads are OS threads.  A thread waiting for a Mutex is enabled only
\* while it is free, but every script is finite, so once the other threads
\* are done the lock stays free: weak fairness per thread is enough.
Spec == Init /\ [][Next]_vars /\ \A t \in Threads : WF_vars(Step(t))
-----------------------------------------------------------------------------
TypeOK ==
  /\ nxt \in [LockIds -> NodeIds \cup {Null}]
  /\ owner \in [LockIds -> Threads \cup {NoOwner}]
  /\ alloc \subseteq NodeIds /\ freed \subseteq alloc
  /\ pc \in [Threads -> {"idle", "lockHead", "lockNext", "op", "iterLock",
                         "iterNext"}]
  /\ \A t \in Threads : opi[t] \in 0..Len(Script[t])
  /\ guard \in [Threads -> LockIds \cup {NoLock}]
  /\ found \in [Threads -> BOOLEAN]
  /\ first \in [Threads -> BOOLEAN]
  /\ refs \in [Threads -> SUBSET NodeIds]
  /\ res \in [Threads -> {NoRes, "found", "absent", "ok", "err"}]
  /\ dropped \in BOOLEAN

\* The list from the head is strictly increasing and ends in null: find's
\* `key <= data` stop, with insert linking in front of the node it stopped
\* at, never places a duplicate or an out-of-order node, whatever the
\* interleaving of cursors.
Sorted ==
  /\ ListSeq = <<>> \/ nxt[ListSeq[Len(ListSeq)]] = Null
  /\ \A i \in 1..Len(ListSeq) - 1 : Data(ListSeq[i]) < Data(ListSeq[i + 1])

\* No freed node is reachable from the head, held as a cursor's or an
\* Iter's guard, or locked by anyone: remove frees a node only after taking
\* its next lock, which every thread standing on the node holds.
MemorySafe ==
  /\ ~ dropped => Reachable \cap freed = {}
  /\ \A l \in NodeIds : owner[l] # NoOwner => l \notin freed
  /\ \A t \in Threads : guard[t] \in NodeIds => guard[t] \notin freed

\* No node is lost: while the set lives, every node allocated and not yet
\* freed is reachable from the head (insert links the new node in front of
\* the cursor's node, remove relinks past the node it frees), and Drop then
\* frees exactly the nodes still allocated.
NoLeak == alloc \ freed = IF dropped THEN {} ELSE Reachable

\* An iteration run to its end yields every key present from the moment its
\* Iter locked the head until the end: next moves its guard hand over hand,
\* so a concurrent remove or insert can neither move a key the iterator has
\* not reached behind it nor make it skip one.
IterComplete ==
  \A t \in Threads :
    (pc[t] = "idle" /\ opi[t] > 0 /\ Op(t).op = "iter")
      => stable[t] \subseteq {Data(r) : r \in refs[t]}

\* Every call returns: lock coupling takes locks in list order, so no two
\* threads wait on each other.
CallsReturn == \A t \in Threads : pc[t] # "idle" ~> pc[t] = "idle"

\* The set is linearizable: contains, insert and remove take effect at
\* their last step, while the cursor still holds the guard in front of the
\* key's position.
AbsSet == {Data(n) : n \in Reachable}
AbsOp == [t \in Threads |->
            IF opi[t] = 0 \/ Op(t).op = "iter" THEN NoOp
            ELSE [op |-> Op(t).op, key |-> Key(t)]]
UsedKeys == UNION {{Script[t][i].key : i \in Calls(t)} : t \in Threads}

Atomic == INSTANCE AtomicSet WITH
            Keys <- UsedKeys, aset <- AbsSet, aop <- AbsOp, ares <- res

LinSpec == Atomic!Spec

\* Every reference Iter::next returned is to a live node while the caller
\* may still use it (its lifetime is that of the set, not of the Iter).
IterRefsValid == \A t \in Threads : refs[t] \cap freed = {}
=============================================================================
