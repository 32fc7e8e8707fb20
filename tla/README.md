# TLA+ models of cs492-concur

This directory holds TLA+ models of the concurrent data structures in
`src/homework/src`. It also holds the TLC configurations that check them.
Every action names the lines of Rust it translates; `PROJECT.json` has the
full map from each definition to its source lines.

## The system

| Part | Source | Role |
|---|---|---|
| Growable array | `hash_table/growable_array.rs` | A lock-free trie of atomic word slots. The root is an `Atomic<Segment>` whose crossbeam tag is the tree height. `get(index)` first raises the height by a CAS loop on the root, whose new root has the old one in slot 0. It then descends, installing missing segments by a CAS from null. `Drop` walks the tree and frees the segments. |
| Split-ordered map | `hash_table/split_ordered_list.rs` | A lock-free hash map (`NonblockingMap`): one sorted lock-free list holds every node. Buckets are sentinel nodes, and their pointers live in the growable array at index `reverse_bits(b)`. `count` is bumped with `fetch_add`/`fetch_sub`, and `size` is doubled by a CAS when `count > size * LOAD_FACTOR`. |
| Harris list | external crate `lockfree::list` | The sorted list the map is built on: `find_harris`, `insert` (CAS of `pred.next`) and `delete` (mark and unlink). It is not under `src/`, so it is modelled from its contract in `spec.md`. |
| Epoch reclamation | external crate `crossbeam_epoch` | Guards that delay frees. Not modelled. |
| Lock-coupling set | `list_set.rs` | `OrderedListSet`: a sorted list with a mutex on every `next` pointer, traversed hand over hand. It offers `contains`, `insert`, `remove` and an `Iter` that holds one lock at a time. |

How the parts interact:
- The map calls `GrowableArray::get(reverse_bits(b))` in `lookup_bucket`. It then CASes the returned slot from null to the bucket's sentinel.
- The map only ever relies on "the same index always yields the same cell, and a CAS from null wins at most once". `SlotArray` states exactly this, and `GrowableArray` is checked to refine it. `SplitOrderedList` therefore models the bucket table as one atomic cell per index.

## Modules

| Module | Models | State | Actions |
|---|---|---|---|
| `SlotArray` | what `get` plus the caller's CAS promise | `cell`, `seen` | `Store` |
| `GrowableArray` | `growable_array.rs` | `root` (pointer and tag), `mem` (published segments), per-thread `pc`, `snap`, `cur`, `ht`, `slot`; `freed`, `dropped`, `crashed` for `Drop` | `Call`, `LoadRoot`, `LoadRootTooLow`, `GrowRoot`, `GrowRootFail`, `WalkLeaf`, `WalkDown`, `WalkNull`, `Install`, `InstallFail`, `Publish` (the caller's CAS), `Drop` |
| `MCGrowableArray` | instances: two threads and their index lists | | |
| `LinearizableMap` | the `NonblockingMap` contract: an atomic map with call/return | `amap`, `aop`, `ares`, `gone` | `Invoke`, `Insert`, `Delete`, `DeleteEarlierAbsent`, `Lookup` |
| `SplitOrderedList` | `split_ordered_list.rs` over the list contract | `list` (set of linked nodes), `buckets`, `size`, `count`; per thread `pc`, `opi`, `sz`, `bstack` (the `lookup_bucket` recursion), `anchor`/`cpred`/`ccurr` (cursors), `res` | `Call`, `FindBucket`, `LookupBucketHit`, `LookupBucketMiss`, `SentinelFound`, `SentinelMissing`, `InsertSentinel`, `PublishBucket`, `Lookup`, `InsertPresent`, `InsertAbsent`, `DeleteAbsent`, `DeletePresent`, `InsertNode`, `CountInc`, `Resize`, `DeleteNode`, `CountDec` |
| `MCSplitOrderedList` | instances: scripts of calls per thread | | |
| `AtomicSet` | what `OrderedListSet` promises: an atomic set with call/return | `aset`, `aop`, `ares` | `Invoke`, `Contains`, `Insert`, `Remove` |
| `OrderedListSet` | `list_set.rs` | `stable` (history, for `IterComplete`), `nxt` (head and every `next` pointer, by the lock guarding it), `owner` (holder of each Mutex), `alloc`, `freed`; per thread `pc`, `opi`, `guard` (the cursor's or Iter's MutexGuard), `found`, `first` (Iter's flag), `refs` (references returned by `next`), `res`; `dropped` | `Call`, `LockHead`, `LockNext`, `Contains`, `InsertPresent`, `InsertNew`, `RemoveAbsent`, `RemoveNode`, `IterLock`, `IterEmpty`, `IterFirst`, `IterStep`, `Drop` |
| `MCOrderedListSet` | instances: scripts of calls per thread | | |

### How the state maps to the code

**Growable array.**
- A pointer word is `Null`, `[seg |-> n]` (segment n of `mem`) or an element record.
- `root.tag` is the crossbeam tag, kept modulo `2^TagBits`.
- The word width is scaled from 64 to `WordBits = 6`, `SEGMENT_LOGSIZE` to `SegLog = 2`, and the tag from 3 bits to `TagBits = 2`. The scaling keeps the real build's relation: `ceil(W / L)` levels equals the largest tag value (64/10/3 there, 6/2/2 here). So the tag overflow of the real code is reachable in the model.
- A segment allocated for a CAS that loses is freed at once and never published, so it is not represented.

**Split-ordered map.**
- A list node is `[lk, val, by]`: its list key, its value (`NoneV` for a sentinel), and the thread and call that allocated it. `by` keeps two racing sentinels of one bucket distinct.
- usize is 4 bits wide: keys 0..7, list keys 0..15, and `count` wraps modulo 16. `size * LOAD_FACTOR` and `size * 2` wrap as in a release build (a debug build panics at the same point). A `find` that reads a size of 0 stops the thread, as the panic of `key % 0` does. `reverse_bits`, `make_content_key` (`key | HI_MASK`) and the parent-bucket loop are translated bit for bit.
- Each call is cut at its shared-memory steps:
  - the load of `size`;
  - each load of a bucket cell;
  - each `find_harris` (atomic, per the list's contract);
  - each CAS (sentinel, trie cell, data node, `size`);
  - `Cursor::delete`;
  - each `fetch_add`/`fetch_sub`.

**Lock-coupling set.**
- A node is named by the insert call that allocated it, and its data is that call's key.
- A step acquires at most one Mutex. The reads a thread makes under a lock it holds happen in the same step: the pointer, and the data of the node it points to, which nobody can unlink meanwhile.
- `LockNext` acquires the next lock before it drops the old guard, exactly as the assignment `self.0 = next_guard` does.
- `RemoveNode` waits for the removed node's `next` lock, relinks, frees the node and drops both guards.
- An `iter` call runs `next` until it returns `None`. The caller keeps the references it got until its next call.
- The history variable `stable[t]` holds the keys present since thread t's Iter locked the head and not removed since. An iteration is complete when it has returned all of them.

## Properties and runs

| Run | Config | Expect | Checks |
|---|---|---|---|
| `trie_race` | `GrowableArray.cfg` | pass | Two threads get indices 1, 41 / 40, 3, 1: a root grows from height 0 to 3 under a concurrent descent and both race to install segments. `SlotSpec` (refinement of `SlotArray`): every get/CAS yields the one cell of its index. `GetReturns`: every get returns under weak fairness. `DropFreesAll`: Drop frees every published segment. `TypeOK`. |
| `trie_drop_leak` | `GrowableArrayLeak.cfg` | violation | `get(48)` puts a subtree under slot 3 of the root (the last slot); Drop's `0..max_key` misses it. |
| `trie_drop_empty` | `GrowableArrayEmpty.cfg` | violation | Dropping a never-used array: `into_owned` on the null root. |
| `trie_max_index` | `GrowableArrayMax.cfg` | violation | `get(usize::MAX)`: the height wraps to 0 in the tag bits (`HeightMonotonic`). |
| `map_race` | `SplitOrderedListRace.cfg` | pass | Three threads: insert 1 / delete 3, insert 3 / delete 1, delete 1 (keys 1 and 3 share bucket 1). `ListWellFormed`: one node per list key, and a published bucket holds its own linked sentinel. `CountCoherent`: when no call runs, `count` equals the number of data nodes. `LinSpec`: refinement of `LinearizableMap`, i.e. linearizability. `CallsReturn`. `TypeOK`: among the types, a published trie cell holds a list node, never the list head a cursor starts from. |
| `map_grow` | `SplitOrderedListGrow.cfg` | pass | Six inserts double `size`, then calls use buckets 2 and 3. `SplitOrderSound`: split order over every size and key of the word, and in every reached list the nearest sentinel before a data node is one of its own bucket's. `InsertsInOrder`: each CAS links its node between the cursor's pred and curr. `LinSpec`. |
| `map_count_wrap` | `SplitOrderedListWrap.cfg` | violation | Insert 1 / delete 1: `ResizeDecisionSound` fails because count wraps and the insert doubles `size` in an empty map. |
| `map_lookup` | `SplitOrderedListLookup.cfg` | pass | Lookups of 1 and 3 race an insert and delete of 1 and an insert of 3, all in bucket 1, which the racing calls initialise. `LinSpec`. |
| `map_size_zero` | `SplitOrderedListSizeZero.cfg` | violation | Three inserts of 1, each overtaken by a delete of 1: size doubles to 4 and 8 on wrapped counts, and the next doubling wraps to 0 (`SizePowerOfTwo`). |

| `set_race` | `OrderedListSet.cfg` | pass | Three threads: insert 2 / remove 1, insert 1 / insert 3 / contains 2, insert 2 / remove 2 / iter. `Sorted`: the list is strictly increasing. `MemorySafe`: no freed node is reachable, locked, or held as a guard. `NoLeak`: in every state each allocated, unfreed node is reachable from the head, and after Drop none is left. `IterComplete`: an iteration run to its end has yielded every key present from its start to its end. `LinSpec`: refinement of `AtomicSet`. `CallsReturn`: no deadlock or starvation. `TypeOK`. |
| `set_iter_dangling` | `OrderedListSetIter.cfg` | violation | Insert 1 then iter / remove 1: the reference `next` returned to node 1 dangles after the remove frees it (`IterRefsValid`). |

Every property of a passing run has a mutant in `PROJECT.json`: an operator
defined just before the action it replaces, making a plausible coding
mistake, under which TLC reports the property violated.

### Findings

1. **Drop leaks a subtree.** `growable_array.rs:194`: the loop `0..max_key` skips the last slot (spec 9(a)).
2. **Drop of an unused array dereferences a null root.** `growable_array.rs:181`.
3. **The height wraps at the largest index.** `growable_array.rs:245/256`: `get(usize::MAX)` raises the height past what the tag holds, and it wraps to 0. The loop then never ends.
4. **count wraps below zero.** `split_ordered_list.rs:184/201`: count is incremented after the insert's CAS. A delete in between wraps count, and `size` is then doubled without cause.
5. **size can wrap to 0.** `split_ordered_list.rs:185-186`: `size * LOAD_FACTOR` and `size * 2` are unchecked. Every count wrap of finding 4 doubles size. After W-2 of them, on a W-bit word, size is 2^(W-1) and `size * LOAD_FACTOR` wraps to 0. The next insert with a nonzero count then doubles size to 0, and the next `find` panics on `key % size`. The model's 4-bit word needs two wraps; a 64-bit build needs 62, so a test never sees it.
6. **Iter hands out dangling references.** `list_set.rs:166`: `Iter::next` returns `&'l T` with the lifetime of the set. A remove frees the node as soon as the iterator has moved past it.

## Bounds and why they suffice

- **Trie.** Heights 0..3 are reached, and MaxSegs = 8 segments bounds memory. The two threads race on growth (1 and 40 need height 1 and 3) and on installs (41 and 40 share a path). Slot 3 is left unused, so the leak bug stays out of the passing run and is shown separately.
- **Map, race run.** Three threads give every pair of operations on one bucket, including two deletes of one node and a delete racing an insert's count update.
- **Set.** Three threads with two or three calls each give every pair of cursors meeting on one node: a remove waiting for a lock held by a cursor or an Iter, inserts racing at one position, and a duplicate insert.
- **Map, lookup run.** Each lookup can land before, between or after the insert and the delete of its key, and during the initialisation of its bucket.
- **Map, grow run.** Two threads with four calls each reach a resize and the buckets it splits off.
- The largest run takes under a minute.

## Fairness

Threads are OS threads and no step blocks: every CAS either succeeds or lets the thread retry. So each thread gets weak fairness on its own step (`WF_vars(Step(t))`). `CHECK_DEADLOCK FALSE` is used because each script is finite and the system stops when every call has returned. The liveness properties (`GetReturns`, `CallsReturn`) are what rule out getting stuck.

In `OrderedListSet`, a thread waiting for a Mutex is enabled only while the Mutex is free, and `std::sync::Mutex` promises no fairness. Weak fairness is still enough here: every script is finite, so once the other threads have finished, the lock stays free.

## Not modelled

- **The Harris list's internals.** `lockfree::list` is an external crate, and its source is not part of this repository. There is no code to translate, so marked pointers and the `Err` retry of `find_harris` are not modelled. The list is modelled by the contract `spec.md` section 6 states, and the map's own retry loops around it are modelled.
- **Epoch reclamation and memory orderings.** `crossbeam_epoch` is external too, and its source is not in this repository. Every access is sequentially consistent, and a node unlinked from the map's list stays readable by the calls that reached it, as the guards promise.
- **Values.** They are opaque model values.

## Plan

1. `GrowableArray` refining `SlotArray` (done).
2. `SplitOrderedList` refining `LinearizableMap` over the slot abstraction (done).
3. `OrderedListSet` refining `AtomicSet` (done).
4. A split of a bucket whose parent is not bucket 0 (done: the grow run doubles `size` to 4 and splits bucket 3 off its parent, bucket 1).
5. A map run in which two inserts cross the load factor together, so that two resize CASes of the same observed `size` race and one must fail. It needs more calls than the race scripts hold within the five-minute bound.
