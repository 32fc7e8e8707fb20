--------------------------- MODULE SplitOrderedList ---------------------------
(***************************************************************************)
(* The split-ordered hash map, src/homework/src/hash_table/                *)
(* split_ordered_list.rs, over a word of WordBits bits.                    *)
(*                                                                         *)
(* The lock-free sorted list it is built on is not under src/ and is       *)
(* modelled from its contract (spec section 6): the list is the set of     *)
(* linked nodes, find_harris is one atomic step that positions a cursor   *)
(* <<pred, curr>>, insert is the CAS of pred.next from curr, and delete    *)
(* marks and unlinks curr, failing if it was already deleted.  The bucket *)
(* table is the array GrowableArray implements (SlotArray): one atomic     *)
(* cell per trie index reverse_bits(b).                                    *)
(*                                                                         *)
(* Each thread runs the calls Script[t], a sequence of [op, key] records. *)
(***************************************************************************)
EXTENDS Integers, Sequences, FiniteSets, Bitwise

CONSTANTS
  Threads,    \* calling threads
  Script,     \* Script[t]: the calls thread t makes, in order
  WordBits,   \* width of usize
  Null,       \* the null pointer
  ListHead,   \* the list's head pointer, as a cursor position
  NoneV,      \* the value None of a sentinel node
  NoOp, NoRes, Absent  \* see LinearizableMap

HiMask == 2^(WordBits - 1)        \* HI_MASK
WordMod == 2^WordBits             \* usize arithmetic wraps modulo this
LOAD_FACTOR == 2
Keys == 0..HiMask - 1              \* keys with the top bit clear

ASSUME /\ WordBits \in Nat /\ WordBits >= 2
       /\ \A t \in Threads : \A i \in 1..Len(Script[t]) :
            Script[t][i].op \in {"insert", "delete", "lookup"}

(* usize::reverse_bits over WordBits bits, one bit at a time.             *)
RECURSIVE RevAcc(_, _, _)
RevAcc(x, n, acc) ==
  IF n = 0 THEN acc ELSE RevAcc(x \div 2, n - 1, 2 * acc + (x % 2))

RevTable == [x \in 0..2^WordBits - 1 |-> RevAcc(x, WordBits, 0)]
ReverseBits(x) == RevTable[x]

\* Mutant: the data key built without HI_MASK.
ContentKeyNoHi(k) == ReverseBits(k)

(* make_content_key, lines 117-123: reverse_bits(key | HI_MASK).         *)
ContentKeyTable == [k \in 0..HiMask - 1 |-> ReverseBits(k | HiMask)]
MakeContentKey(k) == ContentKeyTable[k]

(* lookup_bucket, lines 66-73: halve size until it is at most index; the  *)
(* parent bucket is index minus that power of two.                        *)
RECURSIVE HalveUntil(_, _)
HalveUntil(p, index) ==
  IF p \div 2 > index THEN HalveUntil(p \div 2, index) ELSE p \div 2

ParentBucket(size_, index) == index - HalveUntil(size_, index)

(* assert_valid_key, lines 146-148: the top bit of key is clear.          *)
ValidKey(k) == k < HiMask

(* A node is its list key, its value and who allocated it (thread, call): *)
(* two sentinels of one bucket, made by two racing lookup_bucket calls,  *)
(* are distinct nodes.                                                    *)
Val(t, i) == <<t, i>>                       \* the value of t's i-th call
Sentinel(t, i, b) == [lk |-> ReverseBits(b), val |-> NoneV, by |-> <<t, i>>]
DataNode(t, i, k) == [lk |-> MakeContentKey(k), val |-> Val(t, i), by |-> <<t, i>>]

VARIABLES
  list,     \* the nodes linked in the lock-free list
  buckets,  \* trie cell reverse_bits(b) -> sentinel of bucket b, or Null
  size,     \* SplitOrderedList.size
  count,    \* SplitOrderedList.count
  pc,       \* per-thread program counter
  opi,      \* number of calls thread t has started
  sz,       \* the size find read (`size` in insert)
  bstack,   \* lookup_bucket recursion: buckets still to return, innermost first
  anchor,   \* the node the next find_harris starts from (a cloned cursor)
  cpred,    \* cursor.prev after find_harris
  ccurr,    \* cursor.curr after find_harris
  res,      \* the call's result once it has taken effect
  gone      \* history: the call's key was absent at some instant of the call

vars == <<list, buckets, size, count, pc, opi, sz, bstack, anchor, cpred,
          ccurr, res, gone>>

Op(t) == Script[t][opi[t]]
Key(t) == Op(t).key
Top(t) == Head(bstack[t])

BucketSlots == {ReverseBits(b) : b \in Keys}
Data == {n \in list : n.val # NoneV}
IsPresent(k) == \E n \in list : n.lk = MakeContentKey(k)

(* The list is sorted by lk; the node after position p.                   *)
After(p) == IF p = ListHead THEN list ELSE {n \in list : n.lk > p.lk}
First(S) == CHOOSE n \in S : \A m \in S : n.lk <= m.lk
Last(S) == CHOOSE n \in S : \A m \in S : n.lk >= m.lk
Succ(p) == IF After(p) = {} THEN Null ELSE First(After(p))

(* Cursor::find_harris from position a to lk: pred is the last node below *)
(* lk (or a itself), curr the first node at or above lk.                   *)
FindPred(a, lk) ==
  LET lt == {n \in After(a) : n.lk < lk} IN IF lt = {} THEN a ELSE Last(lt)
FindCurr(a, lk) ==
  LET ge == {n \in After(a) : n.lk >= lk} IN IF ge = {} THEN Null ELSE First(ge)
Found(a, lk) == FindCurr(a, lk) # Null /\ FindCurr(a, lk).lk = lk

(* Cursor::insert: CAS of pred.next from curr, which fails if pred was    *)
(* deleted (its next is marked) or its successor changed.                 *)
CasOK(p, c) == (p = ListHead \/ p \in list) /\ Succ(p) = c

R(kind) == [kind |-> kind]
ResOk == R("ok")
ResPresent == R("present")
ResAbsent == R("absent")
ResValue(v) == [kind |-> "value", val |-> v]

-----------------------------------------------------------------------------
Init ==
  /\ list = {}
  /\ buckets = [i \in BucketSlots |-> Null]
  /\ size = 2
  /\ count = 0
  /\ pc = [t \in Threads |-> "idle"]
  /\ opi = [t \in Threads |-> 0]
  /\ sz = [t \in Threads |-> 2]
  /\ bstack = [t \in Threads |-> <<>>]
  /\ anchor = [t \in Threads |-> ListHead]
  /\ cpred = [t \in Threads |-> ListHead]
  /\ ccurr = [t \in Threads |-> Null]
  /\ res = [t \in Threads |-> NoRes]
  /\ gone = [t \in Threads |-> FALSE]

\* lookup / insert / delete, first line: assert_valid_key.
Call(t) ==
  LET k == Script[t][opi[t] + 1].key IN
  /\ pc[t] = "idle"
  /\ opi[t] < Len(Script[t])
  /\ ValidKey(k)
  /\ opi' = [opi EXCEPT ![t] = @ + 1]
  /\ res' = [res EXCEPT ![t] = NoRes]
  /\ gone' = [gone EXCEPT ![t] = ~ IsPresent(k)]
  /\ pc' = [pc EXCEPT ![t] = "find"]
  /\ UNCHANGED <<list, buckets, size, count, sz, bstack, anchor, cpred, ccurr>>

\* Mutant: the bucket index masked with size instead of size - 1.
FindBucketMask(t) ==
  /\ pc[t] = "find"
  /\ sz' = [sz EXCEPT ![t] = size]
  /\ bstack' = [bstack EXCEPT ![t] = <<Key(t) & size>>]
  /\ pc' = [pc EXCEPT ![t] = "lbLoad"]
  /\ UNCHANGED <<list, buckets, size, count, opi, anchor, cpred, ccurr, res, gone>>

\* find, lines 132-134: read size and look up bucket key % size.  With a
\* size of 0, key % size panics and the thread never returns.
FindBucket(t) ==
  /\ pc[t] = "find"
  /\ size # 0
  /\ sz' = [sz EXCEPT ![t] = size]
  /\ bstack' = [bstack EXCEPT ![t] = <<Key(t) % size>>]
  /\ pc' = [pc EXCEPT ![t] = "lbLoad"]
  /\ UNCHANGED <<list, buckets, size, count, opi, anchor, cpred, ccurr, res, gone>>

(* lookup_bucket returns a cursor at node n to its caller: find, or the   *)
(* lookup_bucket of a child bucket, which uses it as its parent cursor.   *)
ReturnBucket(t, n) ==
  /\ bstack' = [bstack EXCEPT ![t] = Tail(@)]
  /\ anchor' = [anchor EXCEPT ![t] = n]
  /\ pc' = [pc EXCEPT ![t] = IF Tail(bstack[t]) = <<>> THEN "findKey"
                             ELSE "lbFind"]

\* lookup_bucket, lines 52-63: the bucket's trie cell holds its sentinel.
LookupBucketHit(t) ==
  LET cell == buckets[ReverseBits(Top(t))] IN
  /\ pc[t] = "lbLoad"
  /\ cell # Null
  /\ ReturnBucket(t, cell)
  /\ UNCHANGED <<list, buckets, size, count, opi, sz, cpred, ccurr, res, gone>>

(* lookup_bucket, lines 65-77: the cell is null; compute the parent from  *)
(* a fresh read of size, and either start from the list head (parent 0)   *)
(* or first look up the parent bucket.                                    *)
LookupBucketMiss(t) ==
  LET p == ParentBucket(size, Top(t)) IN
  /\ pc[t] = "lbLoad"
  /\ buckets[ReverseBits(Top(t))] = Null
  /\ IF p = 0
     THEN /\ anchor' = [anchor EXCEPT ![t] = ListHead]
          /\ pc' = [pc EXCEPT ![t] = "lbFind"]
          /\ UNCHANGED bstack
     ELSE /\ bstack' = [bstack EXCEPT ![t] = <<p>> \o @]
          /\ UNCHANGED <<anchor, pc>>
  /\ UNCHANGED <<list, buckets, size, count, opi, sz, cpred, ccurr, res, gone>>

\* lookup_bucket, lines 84-96: from the parent cursor, the sentinel is
\* already linked; the local one is dropped.
SentinelFound(t) ==
  LET lk == ReverseBits(Top(t)) IN
  /\ pc[t] = "lbFind"
  /\ Found(anchor[t], lk)
  /\ ccurr' = [ccurr EXCEPT ![t] = FindCurr(anchor[t], lk)]
  /\ pc' = [pc EXCEPT ![t] = "lbPublish"]
  /\ UNCHANGED <<list, buckets, size, count, opi, sz, bstack, anchor, cpred,
                 res, gone>>

\* lookup_bucket, lines 84-93: the sentinel is not linked yet.
SentinelMissing(t) ==
  LET lk == ReverseBits(Top(t)) IN
  /\ pc[t] = "lbFind"
  /\ ~ Found(anchor[t], lk)
  /\ cpred' = [cpred EXCEPT ![t] = FindPred(anchor[t], lk)]
  /\ ccurr' = [ccurr EXCEPT ![t] = FindCurr(anchor[t], lk)]
  /\ pc' = [pc EXCEPT ![t] = "lbInsert"]
  /\ UNCHANGED <<list, buckets, size, count, opi, sz, bstack, anchor, res, gone>>

\* Mutant: the sentinel's CAS result is ignored.
InsertSentinelNoCas(t) ==
  LET s == Sentinel(t, opi[t], Top(t)) IN
  /\ pc[t] = "lbInsert"
  /\ list' = list \cup {s}
  /\ ccurr' = [ccurr EXCEPT ![t] = s]
  /\ pc' = [pc EXCEPT ![t] = "lbPublish"]
  /\ UNCHANGED <<buckets, size, count, opi, sz, bstack, anchor, cpred, res, gone>>

\* lookup_bucket, lines 98-101: CAS the sentinel in; on failure search
\* again from a clone of the parent cursor.
InsertSentinel(t) ==
  LET s == Sentinel(t, opi[t], Top(t)) IN
  /\ pc[t] = "lbInsert"
  /\ IF CasOK(cpred[t], ccurr[t])
     THEN /\ list' = list \cup {s}
          /\ ccurr' = [ccurr EXCEPT ![t] = s]
          /\ pc' = [pc EXCEPT ![t] = "lbPublish"]
     ELSE /\ pc' = [pc EXCEPT ![t] = "lbFind"]
          /\ UNCHANGED <<list, ccurr>>
  /\ UNCHANGED <<buckets, size, count, opi, sz, bstack, anchor, cpred, res, gone>>

\* Mutant: the trie cell gets the cursor's predecessor, not its current node.
PublishBucketPrev(t) ==
  LET i == ReverseBits(Top(t)) IN
  /\ pc[t] = "lbPublish"
  /\ buckets' = IF buckets[i] = Null THEN [buckets EXCEPT ![i] = cpred[t]]
                ELSE buckets
  /\ ReturnBucket(t, ccurr[t])
  /\ UNCHANGED <<list, size, count, opi, sz, cpred, ccurr, res, gone>>

\* lookup_bucket, lines 104-114: publish the sentinel in the trie cell by
\* a CAS from null (a lost race is ignored) and return the cursor.
PublishBucket(t) ==
  LET i == ReverseBits(Top(t)) IN
  /\ pc[t] = "lbPublish"
  /\ buckets' = IF buckets[i] = Null THEN [buckets EXCEPT ![i] = ccurr[t]]
                ELSE buckets
  /\ ReturnBucket(t, ccurr[t])
  /\ UNCHANGED <<list, size, count, opi, sz, cpred, ccurr, res, gone>>

(* find, lines 136-143: from a clone of the bucket cursor, position the   *)
(* cursor at the data key; the call then goes on by its operation.        *)
FindKeyStep(t) ==
  LET lk == MakeContentKey(Key(t)) IN
  /\ pc[t] = "findKey"
  /\ cpred' = [cpred EXCEPT ![t] = FindPred(anchor[t], lk)]
  /\ ccurr' = [ccurr EXCEPT ![t] = FindCurr(anchor[t], lk)]

\* Mutant: the value at the cursor is returned without checking found.
LookupNoFoundCheck(t) ==
  LET c == FindCurr(anchor[t], MakeContentKey(Key(t))) IN
  /\ FindKeyStep(t)
  /\ Op(t).op = "lookup"
  /\ res' = [res EXCEPT ![t] = IF c # Null THEN ResValue(c.val) ELSE ResAbsent]
  /\ pc' = [pc EXCEPT ![t] = "idle"]
  /\ UNCHANGED <<list, buckets, size, count, opi, sz, bstack, anchor, gone>>

\* lookup, lines 152-161.
Lookup(t) ==
  LET c == FindCurr(anchor[t], MakeContentKey(Key(t))) IN
  /\ FindKeyStep(t)
  /\ Op(t).op = "lookup"
  /\ res' = [res EXCEPT ![t] = IF Found(anchor[t], MakeContentKey(Key(t)))
                               THEN ResValue(c.val) ELSE ResAbsent]
  /\ pc' = [pc EXCEPT ![t] = "idle"]
  /\ UNCHANGED <<list, buckets, size, count, opi, sz, bstack, anchor, gone>>

\* insert, lines 172-176: the key is present; the value is given back.
InsertPresent(t) ==
  /\ FindKeyStep(t)
  /\ Op(t).op = "insert"
  /\ Found(anchor[t], MakeContentKey(Key(t)))
  /\ res' = [res EXCEPT ![t] = ResPresent]
  /\ pc' = [pc EXCEPT ![t] = "idle"]
  /\ UNCHANGED <<list, buckets, size, count, opi, sz, bstack, anchor, gone>>

\* insert, lines 172-177: the key is absent; try to link the node.
InsertAbsent(t) ==
  /\ FindKeyStep(t)
  /\ Op(t).op = "insert"
  /\ ~ Found(anchor[t], MakeContentKey(Key(t)))
  /\ pc' = [pc EXCEPT ![t] = "insCAS"]
  /\ UNCHANGED <<list, buckets, size, count, opi, sz, bstack, anchor, res, gone>>

\* delete, lines 194-197: the key is absent.
DeleteAbsent(t) ==
  /\ FindKeyStep(t)
  /\ Op(t).op = "delete"
  /\ ~ Found(anchor[t], MakeContentKey(Key(t)))
  /\ res' = [res EXCEPT ![t] = ResAbsent]
  /\ pc' = [pc EXCEPT ![t] = "idle"]
  /\ UNCHANGED <<list, buckets, size, count, opi, sz, bstack, anchor, gone>>

\* delete, lines 194-199: the key is present; delete at the cursor.
DeletePresent(t) ==
  /\ FindKeyStep(t)
  /\ Op(t).op = "delete"
  /\ Found(anchor[t], MakeContentKey(Key(t)))
  /\ pc' = [pc EXCEPT ![t] = "delete"]
  /\ UNCHANGED <<list, buckets, size, count, opi, sz, bstack, anchor, res, gone>>

\* Mutant: a failed CAS is retried with the same, stale cursor.
InsertNodeRetryStale(t) ==
  /\ pc[t] = "insCAS"
  /\ IF CasOK(cpred[t], ccurr[t])
     THEN /\ list' = list \cup {DataNode(t, opi[t], Key(t))}
          /\ res' = [res EXCEPT ![t] = ResOk]
          /\ pc' = [pc EXCEPT ![t] = "countInc"]
     ELSE UNCHANGED <<list, res, pc>>
  /\ UNCHANGED <<buckets, size, count, opi, sz, bstack, anchor, cpred, ccurr, gone>>

\* insert, lines 178-181: CAS the data node in; on failure run find again.
InsertNode(t) ==
  /\ pc[t] = "insCAS"
  /\ IF CasOK(cpred[t], ccurr[t])
     THEN /\ list' = list \cup {DataNode(t, opi[t], Key(t))}
          /\ res' = [res EXCEPT ![t] = ResOk]
          /\ pc' = [pc EXCEPT ![t] = "countInc"]
     ELSE /\ pc' = [pc EXCEPT ![t] = "find"]
          /\ UNCHANGED <<list, res>>
  /\ UNCHANGED <<buckets, size, count, opi, sz, bstack, anchor, cpred, ccurr, gone>>

\* insert, lines 184-185: count.fetch_add(1); resize if the old count
\* exceeds size * LOAD_FACTOR for the size find read, a product that wraps
\* in a release build.
CountInc(t) ==
  /\ pc[t] = "countInc"
  /\ count' = (count + 1) % WordMod
  /\ pc' = [pc EXCEPT ![t] = IF count > (sz[t] * LOAD_FACTOR) % WordMod THEN "sizeCAS"
                             ELSE "idle"]
  /\ UNCHANGED <<list, buckets, size, opi, sz, bstack, anchor, cpred, ccurr,
                 res, gone>>

\* insert, line 186: one CAS of size from the read value to its double.
Resize(t) ==
  /\ pc[t] = "sizeCAS"
  /\ size' = IF size = sz[t] THEN (sz[t] * 2) % WordMod ELSE size
  /\ pc' = [pc EXCEPT ![t] = "idle"]
  /\ UNCHANGED <<list, buckets, count, opi, sz, bstack, anchor, cpred, ccurr,
                 res, gone>>

\* History: unlinking n makes its key absent for every call on that key.
GoneAfterDelete(n) ==
  [u \in Threads |-> gone[u] \/ (opi[u] > 0 /\ MakeContentKey(Key(u)) = n.lk)]

\* Mutant: the Err of Cursor::delete is taken for success.
DeleteNodeIgnoreErr(t) ==
  LET n == ccurr[t] IN
  /\ pc[t] = "delete"
  /\ list' = list \ {n}
  /\ res' = [res EXCEPT ![t] = ResValue(n.val)]
  /\ gone' = GoneAfterDelete(n)
  /\ pc' = [pc EXCEPT ![t] = "countDec"]
  /\ UNCHANGED <<buckets, size, count, opi, sz, bstack, anchor, cpred, ccurr>>

\* Mutant: the Err path of delete also decrements count.
DeleteNodeErrDec(t) ==
  LET n == ccurr[t] IN
  /\ pc[t] = "delete"
  /\ IF n \in list
     THEN /\ list' = list \ {n}
          /\ res' = [res EXCEPT ![t] = ResValue(n.val)]
          /\ gone' = GoneAfterDelete(n)
     ELSE /\ res' = [res EXCEPT ![t] = ResAbsent]
          /\ UNCHANGED <<list, gone>>
  /\ pc' = [pc EXCEPT ![t] = "countDec"]
  /\ UNCHANGED <<buckets, size, count, opi, sz, bstack, anchor, cpred, ccurr>>

(* delete, lines 199-205: Cursor::delete marks and unlinks curr; it fails *)
(* if curr was already deleted by another thread, reported as Err.        *)
DeleteNode(t) ==
  LET n == ccurr[t] IN
  /\ pc[t] = "delete"
  /\ IF n \in list
     THEN /\ list' = list \ {n}
          /\ res' = [res EXCEPT ![t] = ResValue(n.val)]
          /\ gone' = GoneAfterDelete(n)
          /\ pc' = [pc EXCEPT ![t] = "countDec"]
     ELSE /\ res' = [res EXCEPT ![t] = ResAbsent]
          /\ pc' = [pc EXCEPT ![t] = "idle"]
          /\ UNCHANGED <<list, gone>>
  /\ UNCHANGED <<buckets, size, count, opi, sz, bstack, anchor, cpred, ccurr>>

\* delete, line 201: count.fetch_sub(1), wrapping like usize.
CountDec(t) ==
  /\ pc[t] = "countDec"
  /\ count' = (count - 1) % WordMod
  /\ pc' = [pc EXCEPT ![t] = "idle"]
  /\ UNCHANGED <<list, buckets, size, opi, sz, bstack, anchor, cpred, ccurr,
                 res, gone>>

Step(t) ==
  \/ Call(t) \/ FindBucket(t)
  \/ LookupBucketHit(t) \/ LookupBucketMiss(t)
  \/ SentinelFound(t) \/ SentinelMissing(t) \/ InsertSentinel(t)
  \/ PublishBucket(t)
  \/ Lookup(t) \/ InsertPresent(t) \/ InsertAbsent(t)
  \/ DeleteAbsent(t) \/ DeletePresent(t)
  \/ InsertNode(t) \/ CountInc(t) \/ Resize(t)
  \/ DeleteNode(t) \/ CountDec(t)

Next == \E t \in Threads : Step(t)

\* Threads are OS threads; no step of the map blocks, so a thread with a
\* step to take is eventually scheduled.
Spec == Init /\ [][Next]_vars /\ \A t \in Threads : WF_vars(Step(t))

-----------------------------------------------------------------------------
AllVals == UNION {{Val(t, i) : i \in 1..Len(Script[t])} : t \in Threads}
Nodes == [lk : 0..WordMod - 1, val : {NoneV} \cup AllVals,
          by : UNION {{<<t, i>> : i \in 1..Len(Script[t])} : t \in Threads}]
Results == {ResOk, ResPresent, ResAbsent} \cup {ResValue(v) : v \in AllVals}

TypeOK ==
  /\ list \subseteq Nodes
  /\ buckets \in [BucketSlots -> {Null} \cup Nodes]
  /\ size \in {2^j : j \in 1..WordBits - 1}
  /\ count \in 0..WordMod - 1
  /\ pc \in [Threads -> {"idle", "find", "lbLoad", "lbFind", "lbInsert",
                         "lbPublish", "findKey", "insCAS", "countInc",
                         "sizeCAS", "delete", "countDec"}]
  /\ \A t \in Threads :
       /\ opi[t] \in 0..Len(Script[t])
       /\ bstack[t] \in Seq(Keys)
       /\ anchor[t] \in {ListHead} \cup Nodes
       /\ cpred[t] \in {ListHead} \cup Nodes
       /\ ccurr[t] \in {Null} \cup Nodes
       /\ res[t] \in {NoRes} \cup Results
  /\ gone \in [Threads -> BOOLEAN]

(* Split order (spec 4.2).  Over every size and key of the word: the      *)
(* reversal agrees with its bitwise definition; a data key sorts after    *)
(* its bucket's sentinel and before every later sentinel; and the parent  *)
(* lookup_bucket starts from sorts before the bucket and is the same for  *)
(* any later, larger size.  In every reachable list: the nearest sentinel *)
(* before a data node of key k belongs to k's bucket or an ancestor of   *)
(* it (k % 2^j for 2^j <= size), never to another bucket.                 *)
RefReverse(x) ==
  LET RECURSIVE Sum(_)
      Sum(i) == IF i = WordBits THEN 0
                ELSE ((x \div 2^i) % 2) * 2^(WordBits - 1 - i) + Sum(i + 1)
  IN Sum(0)

SplitOrderSound ==
  /\ \A x \in 0..WordMod - 1 : ReverseBits(x) = RefReverse(x)
  /\ \A j \in 1..WordBits - 1, k \in Keys :
       LET s == 2^j
           b == k % s
       IN /\ ReverseBits(b) < MakeContentKey(k)
          /\ \A b2 \in 0..s - 1 :
                ReverseBits(b2) > ReverseBits(b)
                  => ReverseBits(b2) > MakeContentKey(k)
          /\ b > 0 => ReverseBits(ParentBucket(s, b)) < ReverseBits(b)
          /\ \A j2 \in j..WordBits - 1 :
                ParentBucket(2^j2, b) = ParentBucket(s, b)
  /\ \A n \in Data :
       LET before == {m \in list \ Data : m.lk < n.lk} IN
       before # {} =>
         \E j \in 0..WordBits - 1 :
           /\ 2^j <= size
           /\ ReverseBits(Last(before).lk) = (ReverseBits(n.lk) - HiMask) % 2^j

\* The list never holds two nodes with one list key (two sentinels of a
\* bucket racing in lookup_bucket, or a data node inserted twice), and a
\* trie cell only ever holds its own bucket's sentinel, which stays linked.
ListWellFormed ==
  /\ \A m, n \in list : m.lk = n.lk => m = n
  /\ \A i \in BucketSlots :
       buckets[i] # Null => /\ buckets[i].lk = i
                           /\ buckets[i].val = NoneV
                           /\ buckets[i] \in list

\* Every node a CAS links (a sentinel in lookup_bucket, a data node in
\* insert) lies strictly between the cursor's pred and curr: the bucket and
\* parent arithmetic always positions the cursor where the key belongs,
\* so the linked list stays sorted.
InsertsInOrder ==
  [][\A t \in Threads :
       pc[t] \in {"lbInsert", "insCAS"} /\ pc'[t] \in {"lbPublish", "countInc"}
         => \A n \in list' \ list :
              /\ cpred[t] = ListHead \/ cpred[t].lk < n.lk
              /\ ccurr[t] = Null \/ n.lk < ccurr[t].lk]_vars

\* When no call is running, count equals the number of data nodes.
CountCoherent ==
  (\A t \in Threads : pc[t] = "idle") => count = Cardinality(Data)

\* A thread decides to double size (line 185) only when the map holds more
\* than size * LOAD_FACTOR entries, counting those whose delete has not
\* decremented count yet.
ResizeDecisionSound ==
  [][\A t \in Threads :
       (pc[t] = "countInc" /\ pc'[t] = "sizeCAS")
         => Cardinality(Data) + Cardinality({u \in Threads : pc[u] = "countDec"})
              > sz[t] * LOAD_FACTOR]_vars

\* size stays a power of two within the word (spec 8.6), which find's
\* key % size and lookup_bucket's halving loop rely on: the resize of
\* line 186 doubles size in wrapping arithmetic, and only when the check
\* of line 185 on count, itself wrapping, asks for it.
SizePowerOfTwo == size \in {2^j : j \in 1..WordBits - 1}

\* Every call returns: the retry loops of find, lookup_bucket and insert
\* only repeat after another thread changed the list.
CallsReturn == \A t \in Threads : pc[t] # "idle" ~> pc[t] = "idle"

\* The map is linearizable: with each call taking effect at its list
\* step (the find that decides it, the insert CAS, the delete), the
\* results are those of an atomic map.
UsedKeys == UNION {{Script[t][i].key : i \in 1..Len(Script[t])} : t \in Threads}
AbsMap == [k \in UsedKeys |-> IF IsPresent(k)
                          THEN (CHOOSE n \in list : n.lk = MakeContentKey(k)).val
                          ELSE Absent]
AbsOp == [t \in Threads |->
            IF opi[t] = 0 THEN NoOp
            ELSE IF Op(t).op = "insert"
                 THEN [op |-> "insert", key |-> Key(t), val |-> Val(t, opi[t])]
                 ELSE [op |-> Op(t).op, key |-> Key(t)]]

Lin == INSTANCE LinearizableMap WITH
         Keys <- UsedKeys, Vals <- AllVals, amap <- AbsMap, aop <- AbsOp, ares <- res

LinSpec == Lin!Spec
=============================================================================
