# A TLA+ model of terark-zip

terark-zip is a C++ library of compressed, searchable data structures: static and
dynamic tries, rank-select bit vectors, entropy coders, blob stores with their
compressors, the index over them, and what is needed to build and to serve them.
This directory models the parts with logic of their own, checks them with TLC on
small instances, and proves with TLAPS, for instances of every size, what the
concurrent parts rest on.

All source paths below are relative to `src/terark/` of the repository.

## 1. Inventory

### Concurrent parts

**The concurrent Patricia trie** (`fsa/cspptrie.{hpp,inl,cpp}`). *State:* nodes in
a memory pool with flags (`FLAG_final`, `FLAG_set_final`, `FLAG_lock`,
`FLAG_lazy_free`) and child pointers; per trie a queue of tokens (`m_dummy`,
`m_tail`, `m_token_qlen`, `m_head_lock`, `m_head_is_dead`, `m_head_is_idle`); per
token a state, a place in the queue (`m_link.verseq`) and `m_min_age`; per thread a
lazy free list. *Operations:* `acquire`, `release`, `idle`, `dispose` of a token;
`insert` at four concurrency levels; `lookup`; `revoke_expired_nodes`; iterators.
*Interaction:* a thread uses the trie between acquire and release of its token.
Writers never change the shape of a node in place: they publish a copy with one
store or CAS into the parent and put the old node on their lazy free list, with an
age. The token at the head of the queue bounds the age of what anyone can still
read, and that bound is what `revoke_expired_nodes` compares with. *Hard:* release
does not wait for the queue's lock, it leaves dead tokens behind for others; insert
prepares its change on nodes that others replace meanwhile; memory is reused while
readers walk. *Correct means:* the queue stays whole and sorted and no `TERARK_DIE`
is reached; no `min_age` is ahead of a token in use; no thread reaches freed memory;
the trie is the set of the inserted keys at every moment; every key is inserted by
one writer; a lookup sees what was inserted before it; no node leaks; an iterator
beside a writer misses and invents no word.

**The page cache** (`zbs/lru_page_cache.cpp`). *State:* pages with a key (file id
and page), a reference count and a loaded flag; an LRU ring of the pages nobody
uses; per file a ring of its pages; closed files that still have pages; a table of
permanent file ids. *Operations:* `open`, `close`, `safe_close`, `pread` of one page
(pins it) and over several pages (copies), `discard`. *Interaction:* one mutex; pages
are read from the file outside of it by the thread that allocated them; others that
want the page wait. *Hard:* waiting for others' pages while holding pages; failing
reads; files closed beside reads; running out of pages; growth of the id table.
*Correct means:* a pinned page keeps its content; a copied read is what was asked;
the LRU ring is exactly the unused pages; an id names its object until it is
dropped; `pread` returns.

**The pipeline** (`thread/pipeline.{hpp,cpp}`). *State:* stages with execution
units, a bounded queue behind each, counters of the running units, `m_run`; serial
numbers on the items; in serial stages a reorder window and an overflow heap.
*Operations:* `compile`/`start`, `enqueue`, `stop`, `wait`; the loops of first,
middle, last and serial stages; the catch block. *Interaction:* units talk through
the queues only, and the end of the input is concluded from three reads: `m_run`,
the running count of the stage before, an empty queue. *Correct means:* no task is
lost, duplicated or freed twice; serial stages see the serial order; `wait` returns.

**Queues** (`circular_queue.hpp`, `util/concurrent_queue.hpp`,
`util/auto_grow_circular_queue.hpp`). A ring with a mutex and two condition
variables, timed and untimed waits. *Correct means:* it is a bounded deque, no
wake-up is lost, a call that can be served is served.

**Thread local instances** (`thread/instance_tls.hpp`, `instance_tls_owner.hpp`). A
matrix of slots per thread, an id per owner, members that outlive their thread and
are handed to another. Ending threads and dying owners meet in the slots. *Correct
means:* every member is at one place, is deleted once and while nobody reaches it,
and the owner's destructor ends.

**Memory pools** (`mempool_*.hpp`). Free lists by size class, a skip list of huge
blocks whose links lie in the free blocks, thread caches over a shared chunk whose
end is moved by a CAS. *Correct means:* no two live blocks overlap, nothing is lost.

### Data structures of one thread

Here a long sequence of legal calls, a boundary, or a cache that is stale is what a
test hardly reaches. Each is checked against the plain object it stands for.

| Part | State and operations | Correct means |
|---|---|---|
| Hash maps (`gold_hash_map.hpp`, `hash_strmap.hpp`) | slots, chains, free lists, string pool; insert, erase, revoke, rehash, sort | a key is found iff it was put in, chains are consistent |
| Set operations (`set_op.hpp`, `heap_ext.hpp`, `multi_way_*.hpp`, `radix_sort.*`) | loser tree, heap, intersections, radix sort | equal to the set or sorted sequence |
| Rank-select (`succinct/`) | words, two levels of counters, select hints | rank, select and runs agree with the bits |
| Plain bit vectors (`bitmap.*`) | words, size, capacity | ranges, shifts and growth agree with a sequence of bits |
| Integer vectors (`util/sorted_uint_vec.*`) | blocks of four forms, an index of samples | `get`, `get2`, bounds agree with the sequence |
| Entropy coders (`entropy/`) | histograms, tables, interleaved states | decode(encode(r)) = r with the table alone |
| Streams (`io/StreamBuffer.*`, `io/ZeroCopy.*`) | buffer, position, stream behind it | bytes are read and written once, in order |
| String vectors (`util/*strvec*`) | pool and offsets in nine layouts | strings and bounds agree with the sequence |
| Blob stores (`zbs/`) | builder, file, loaded store | records come out after load, reorder, detach |
| Dictionary compression (`zbs/dict_zip_blob_store.cpp`) | operations on a record; builder with threads and passes; file | every record decodes to itself |
| Static tries (`fsa/nest_louds_trie*`, `fsa/nest_trie_dawg.cpp`) | LOUDS bits, labels, nested levels | words, numbers, ranks, bounds, iteration are right |
| Index (`idx/terark_zip_index.cpp`) | cut head, prefix part, suffix part | a key's rank, bounds and iteration are right |

`PROJECT.json` lists every part with its sources, those that are not modelled too,
and the 40 places that are hard to test, each with the property that covers it.

## 2. Modules

| Module | Models | Uses |
|---|---|---|
| `CsppToken` | the token queue, one action per shared access | instance of `CsppEpoch` |
| `CsppEpoch` | abstract: what the queue promises | |
| `CsppReclaim` | retiring and freeing of nodes | extends `CsppEpoch` |
| `CsppInsert` | `insert_multi_writer`, `lookup` | |
| `CsppIter` | `insert_one_writer` and the iterators | |
| `LruPageCache` | `SingleLruReadonlyCache` | |
| `CircularPermanentID` | the id table | instance of `PermanentID` (abstract) |
| `Pipeline` | `PipelineProcessor`, `PipelineStage` | assumes `BoundedDeque` |
| `ConcurrentQueue` | `concurrent_queue` and the pipeline's queues | `RingQueue`, instance of `BoundedDeque` (abstract) |
| `InstanceTls` | `instance_tls`, `instance_tls_owner` | |
| `ThreadCachePool`, `MemPool` | pool with thread caches, pools of one thread | `SkipList` |
| `GoldHash`, `StrMap` | `gold_hash_tab`, `hash_strmap` | |
| `SetOps` | set operations, merges, radix sort | |
| `RankSelect` | rank-select vectors: one, several dimensions, sparse | |
| `FeBitVec` | `febitvec`, `static_bitmap` | |
| `SortedUintVec` | sorted integers in blocks | |
| `EntropyBase`, `Huffman`, `Rans`, `EntropyCoders` | histograms and tables, the two coders, their use | |
| `StreamBuffers` | buffered streams | |
| `StrVec` | string vectors | |
| `BlobStores`, `DictZipCodec`, `DictZipStore` | stores, the codec of a record, the store around it | `DictZipStore` extends `BlobStores` |
| `NestLoudsTrie`, `NestTrieDawg` | the trie; words, ranks, iterator | |
| `ZipIndex` | the index with all its prefix and suffix parts | |
| `*Proofs` | proofs about the module of that name | section 5 |

A specification that needs nothing but constants is run as it is (`CsppToken`,
`CsppReclaim`, `CsppInsert`, which names its keys itself, `Pipeline`, whose
pipelines are at its end, and `LruPageCache`). `MCThreads` (thread local members, the
blocking queue, progress of the page cache), `MCContainers` (pools, maps, id table, set
operations, iterators of the CSPP trie), `MCData` and `MCStores` put several components in
one run: a variable `part` says which component a behaviour is about, the others stay in
one canonical state. No component's behaviour depends on that.

Definitions named `X_Something` next to `X` are mutants: `X` with a plausible
mistake, under which a property must fail. No specification uses them;
`PROJECT.json` pairs them with the properties.

### CsppToken

A token belongs to one thread, which is named after it. The variables are the
fields of the token and the trie; `pc` and `loc` are the thread's place and locals.
The actions are grouped as the functions are: `mt_acquire` (`Acquire*`), `mt_release`
(`Release*`), `mt_update` (`Update*`), the walk `dequeue` (`Dequeue*`),
`reclaim_head` (`Reclaim*`), `idle` and `dispose`. Each action is one access to
memory that another thread can change: a CAS, an atomic load or store, or the plain
accesses made under `m_head_lock`. Memory is sequentially consistent, and
`cas_weak` fails only on a difference (a spurious failure repeats the loop).

The stores that publish a new head (`m_dummy.m_link.next`, `m_dummy.m_min_age`, the two
head flags, the token's `m_min_age`) are one action each, in the order of the branch they
are in (`After`); so are the CAS to `ReleaseDone` and the later clearing of `m_link` in
`reclaim_head`. Threads without the lock run between any two of them.

`stale` is a history variable that no step reads. It becomes true when `mt_release` starts
a walk (3186) from a link that it read at 3108, before it had the lock, and that is no
longer its `m_link.next`. Up to then `NoDie`, `QueueRight` and `ImplementsEpoch` hold;
what happens afterwards is the run token_stale (section 6). No interleaving is cut off.

### CsppEpoch and CsppReclaim

`CsppEpoch` forgets the queue: tokens are linked or not, in use or not, and have a
verseq. Its guards are the promise: a token's or the trie's `min_age` is set only
from the verseq of a token that is the oldest of the linked ones. `CsppToken`
implements it (`ImplementsEpoch`: linked and in use are computed from flags, pcs
and locals, the other variables are the same). `Verseqs` is the set of numbers that
may be given out: `Nat` in the proofs and in the refinement, an interval in the runs.

`CsppReclaim` adds the nodes: those of the trie (`live`), the lazy free lists, and
for every thread the nodes it may hold a pointer to (`reach`): all that were in the
trie at some time since its token was acquired. `Replace` is `update_curr_ptr`,
`Add` a new node without a retired one, `Revoke` one round of
`revoke_expired_nodes`; all other actions are those of the tokens.

### CsppInsert and CsppIter

Writers search, allocate the suffix nodes and the copy one by one, lock the parent, mark
the node, compare, swing the pointer, unlock, or back out at one of the three race
conditions. All four changes of a node are there (fork, split of the zpath, a new child,
the final mark), and the fast root node with its own CAS paths. Every allocation may fail,
whether the pool is full or not (`AllocFails`), and each failure takes the way out that the
code has at that place: the chain of suffix nodes built so far is revoked, or nothing is.
`init_value` may fail as well. A suffix longer than `MaxZpath` is a chain of nodes.
Children are copied in one step: within a token's tenure a child pointer never gets an old
value back, so a torn copy differs from what the later compare sees. A reader's lookup is
one action per node. `CsppIter` has the other insert, of one writer, with fast nodes that
grow from plain ones, and beside it the iterators: a stack of nodes, one node read per
step.

### LruPageCache and CircularPermanentID

In `LruPageCache` all that the mutex protects is one record, `cache`: a locked
section is one action. A thread's read goes through `pread` (all pages pinned or
allocated under the lock), then page by page `Load`/`LoadFails` and `SetLoaded` for
its own pages, `WaitLoaded` for others', then `ExitRead` or, for a single page, a
pinned buffer until `discard`. The LRU ring is modelled link by link since the
code's mistakes would be there; hash chains and the files' rings are abstracted.
`CircularPermanentID` keeps the array, the dropped bits, capacity, tail and
`m_min_id` with the code's index arithmetic; `PermanentID` is a function from ids to
objects.

### Pipeline, ConcurrentQueue

A pipeline (stages, who feeds it, which tasks `process` keeps or throws at) is
chosen in `Init`. A unit's `pc` names the place in its loop: `ReadRun`, `ReadPrev`,
`ReadEmpty` are the three reads of `isPrevRunning`; `PopTimeout`, `PopFront`,
`Process`, `PushBack` the body; `PopSerial`, `SerialProcess`, `SerialPush`,
`SerialWait`, `FlushPush` the loop and the end of `run_serial_step_fast`;
`DrainEmpty`, `DrainPrev`, `DrainPop` the loop of the catch block. `fate` and `log`
are history variables: what became of each task, and the order in which serial
stages saw the items. Queue operations are atomic: `ConcurrentQueue` shows that,
with its mutex, its two condition variables, spurious wake-ups and timeouts, the
queue is the bounded deque that `Pipeline` takes it for.

`EarlyStop = FALSE` restricts the environment: `stop()` and exceptions come after
every unit has begun to run. Without it the code loses items (section 7).

### InstanceTls

`GetTls` starts the lookup of a thread's member (reuse one from the free list or make
one); `Exit` starts the end of a thread, which clears its slots one by one
(`DropSlot`), tests whether the owner is dying (`TestDying`) and pushes the member on
the owner's free list or counts it as killed; `BeginDestroy`, `Reborn`,
`DeleteMembers` are the owner's destructor: it clears the slots of the threads that
have not begun to end, waits until the counts add up, and deletes all members.

### Pools, maps, vectors, coders, stores, tries, index

The widths that are compiled in (bits of a word, words of a line, bits of a byte,
entries of a block, bytes of a header) are constants, so that short inputs meet every
boundary. Files are sequences of cells, one per byte, that say what the byte is part
of: a reader gets what lies at the place it computes, and a wrong offset shows.
Actions are the calls of the classes; properties compare every query with the
sequence, set or map the calls have built.

## 3. Runs

| Run | Properties | Instance |
|---|---|---|
| token_queue | `PlaceIsKept`; until `stale`: `NoDie`, `QueueRight`, refinement `ImplementsEpoch` | 3 tokens, `MaxSeq` 4, `MAX_DEL_PTRS` 1 |
| token_stale | violation of `MinAgeIsHeld` | 3 tokens, `MaxSeq` 6, `MAX_DEL_PTRS` 1 |
| reclaim | `MinAgeSafe`, `NoUseAfterFree`, `AgesOnlyGrow` | 2 writers, 1 reader, 3 nodes, verseqs 1 to 4 |
| reclaim_one_writer | violation of `NoUseAfterFree` | 1 writer, 1 reader |
| insert | `TrieIsSet`, `LookupSees`, `NodesAccounted` | 2 writers, 1 reader, 6 keys, zpaths of 2 labels, 12 nodes |
| lru_pages | `PinnedIsKept`, `BooksAgree` | 3 threads, 2 pages, 3 opens |
| lru_cross | `CopiedIsRight`, `PagesComeBack` | 2 threads, 4 pages, reads over 2 pages that may fail |
| pipeline | `OrderRestored`, `NothingLost`, `WaitReturns` under fairness | 6 pipelines, queues of 1, window of 2 |
| threads | `TlsSafe`, `DestroyReturns`; refinement `ImplementsDeque`, `WaiterIsServed`; `PreadReturns`; all three liveness properties under fairness | 2 threads, 2 owners, 3 members; 3 callers of 2 calls; 2 readers, 3 pages, reads over 1 and 2 pages |
| containers | `PoolIsWhole`, `SeqIsWhole`, `FindsContent`, `StrMapRight`, refinement `KeepsIds`, `SetOpsRight`, `IterRight` | 2 pool threads over 5 units; 4 hash keys and 7 calls; 4 strings, 5 calls and 3 map types, one of them with room for 3 links and 6 units; 7 ids with words of 2 bits; up to 5 ways; words of up to 4 bytes, 3 iterator calls |
| data | `BitVectorsRight`, `IntegersRight`, `RoundTrip`, `StreamRight`, `StringsRight` | words of 2 bits and lines of 2 words, up to 7 bits; bytes of 3 bits; 5 stream calls; 2 calls on string vectors |
| stores | `PlainStoresRight`, `UnzipRight`, `DictStoreRight`, `StaticTrieRight`, `IteratesWords`, `IndexRight` | records of up to 3 symbols; batches of 2 records and 2 bytes, a lake of 4; dictionaries of 22 and 70 bytes; 24 trie configurations with 1 to 3 levels; index keys of 2-bit bytes |

What each property says, and of which code, is in the comment before it.

### Bounds, and why they are enough

* *Three tokens* give a head, a successor the walk ends at, and one to walk over or
  to race with; a fourth only lengthens the walk, and the theorems of section 5 hold
  for every number. `MAX_DEL_PTRS = 1` (32 in the code) lets a walk delete both below
  and beyond the limit. Verseqs are only compared, and four suffice for a token to be
  moved to the tail and overtaken again; six let it become the head a second
  time with the same flags, which token_stale needs. No operation starts at the bound;
  those under way end, so deadlock is checked.
* *Three nodes* make one in the trie, one retired, one reused. The reclaim runs
  disable the deadlock check: at the bound on verseqs all tokens may be gone.
* *The six keys* are the empty key, a prefix, a fork, a branch, and the two already
  loaded; one insert per writer makes every pair of changes meet at the same node,
  at parent and child, or at the root. Two of the keys need a chain of suffix nodes. The
  pool has 12 nodes, and any allocation may fail before it is full.
* *Two pages for three threads* keep the cache short of pages; four pages and two
  files of two pages make two longer reads overlap in all ways.
* *Queues of one* block every push that can block. Three units before a serial
  stage, four tasks and a window of 2 (4 or 64 in the code) are the least with which
  an item moves from the overflow to the window in both of the places that do so.
* *Three callers* are two waiters and one who notifies; a ring of three places wraps
  around within their six calls.
* *Two threads and two owners* share ids and reuse members; three members let one be
  handed on while two are held.
* *Words of 2 bits* let the id table double twice within 7 ids, with every position of
  the ring and every pattern of dropped ids before; with lines of two words, 7 bits
  are two lines, the second of them partly padding.
* *The other sizes* are the least at which every form of a block, node, record or file
  occurs, with one element more and one less than it holds.

The runs of several components, and the reclaim runs, have `CHECK_DEADLOCK FALSE`:
a behaviour ends when its bounded number of calls is used up.

### Fairness

* `Pipeline!FairSpec`: units, callers of enqueue and the main thread take steps:
  threads are scheduled and `process` returns.
* `MCThreads!MCSpec`: a thread that ends goes on ending (`ExitStep`), an owner's
  destructor takes the step it can take (`Reborn`, `DeleteMembers`), and a caller in a
  queue's call gets the lock (`QueueStep`), a thread inside `pread` takes steps, as file
  reads return. A caller need not call, a time-out need not come, and the holder of a
  buffer need not discard it.
* `CsppToken!FairSpec` and `CsppInsert!FairSpec` (section 7): a thread inside an
  operation runs.

All of it is weak fairness of threads that are not blocked, which any scheduler
gives; none assumes that a particular race is won.

## 4. Results that hold

The queue of tokens is whole in every interleaving up to a walk that starts from a stale
link (section 6), and up to then what it declares reclaimable is safe: both are proved. With several
writers, memory is not reused too early: proved. Insert is linearizable on the
instance's keys: every writer's key is in the trie from one moment on, once, and
lookups that start afterwards find it. An iterator beside a writer sees every word
that was there all the time, in order. The page cache is right as long as single-page
reads do not fail: proved for reads inside of one page. The pipeline restores the order,
and it loses nothing if it is not stopped before its threads have begun: both are proved.
The blocking queue is a deque and loses no
wake-up, the members of a thread local owner are safe, and a permanent id names its
object until it is dropped: proved. The data structures
agree with what they stand for on all inputs of the instances, except in the ways that
section 7 lists.

## 5. Proofs

Eight modules hold the proofs; TLAPS checks them for every value of the constants
that the named assumptions allow. A theorem's invariant was checked by TLC first.

### CsppReclaimProofs: epochs and memory

For every set of tokens, writers and nodes and every set of verseqs, from
`VerseqsAssumption` and `ReclaimAssumption`:

* `EpochSafety` (`EpochSpec => []MinAgeSafe`): no `min_age`, of the trie or cached in a
  token, is newer than the verseq of a linked token. `MinAgeSafe` alone is not
  inductive: a token that joins must get a verseq that is not below any min_age. The
  invariant is `EpochInv = EpochTypeOK /\ Places /\ MinAgeSafe /\ AgesBounded`, where
  `Places` says that linked tokens have distinct verseqs up to the tail's, and
  `AgesBounded` that no min_age has passed the tail.
* `EpochMonotone` (`EpochSpec => AgesOnlyGrow`): what was declared reclaimable stays so.
* `ReclaimSafety`: with `MultiWriteMultiRead`, `Spec => []NoUseAfterFree`. The invariant
  is `NodeInv = ReclaimTypeOK /\ EpochInv /\ ReachInUse /\ ReachKept /\ LiveNotRetired
  /\ Protected`. `Protected` is the heart: a retired node that some thread holds is safe
  because its writer has not learned a min_age beyond its age, and cannot, since either
  the writer's own place in the queue is not beyond that age or the holder is ahead of
  the writer. With one writer the theorem is false (section 6).

### CsppTokenProofs: the token queue implements the epochs

For every finite set of tokens, `MAX_DEL_PTRS` and `MaxSeq`, from `TokensAssumption` and
`BoundsAssumption`, and of every behaviour up to the step, if any, in which `stale` becomes
true: a walk from a stale link breaks the queue (section 6), and the theorems say nothing
of what follows it.

* `TokenInvariant` (`Spec => [](stale \/ TokenInv)`). `TokenInv` has eleven parts: types;
  who holds the lock and what its locals are (`LockInv`, `Local`); what is in del_tokens
  (`DelInv`); the tokens in the queue are a chain in the order of their verseqs that ends at
  the tail (`ChainInv`); where the chain begins while the holder of the lock has cut it
  (`FirstInv`), who has `is_head` set (`HeadInv`), what a walk knows of the token it has
  reached (`WalkInv`); which of the stores that publish a new head have been made
  (`StageInv`); min_ages are not ahead of the chain, nor will be when the walk ends
  (`AgeInv`); `m_token_qlen` is not below the number of tokens (`QlenInv`).
* `QueueNeverDies` (`NoDie`) and `QueueStaysRight` (`QueueRight`) follow from it;
  `PlacesAreKept` from it and the step: it is `PlaceIsKept` up to `stale`, which TLC checks
  without that condition.
* `QueueIsEpoch` (`Spec => ImplementsEpoch`): up to `stale`, every step of the queue is a
  step of `CsppEpoch` or a stutter, with the tokens that a walk has already unlinked taken
  out. With it, `EpochSafety` and `EpochMonotone` hold of the queue in the code up to then.

The steps are of three kinds, and each kind has its lemmas. A step on the thread's own
token changes nothing another thread relies on (`PlainStep`). A step of the holder of the
lock is seen by that holder alone (`HolderStep`): for it, the queue is a chain from the
token it has reached (`QueueFor`), whatever its predecessors point to. A step on
del_tokens is neither.

### ConcurrentQueueProofs: the blocking queue

For every finite set of callers and all sizes, from `QueueAssumption`:

* `QueueIsDeque` (`QueueSpec => ImplementsDeque`): the ring with its mutex is
  `BoundedDeque`. The invariant is `IsRing`: head and tail are in the ring, and the cells
  that hold elements are those from head to tail; one lemma for each operation of the ring
  says what it does to the sequence that the ring stands for.
* `NoWakeupIsLost` (`QueueSpec => []NoLostWakeup`): while there is an element and a popper
  sleeps, another popper is awake and on its way; the same for pushers and free places.
  `NoLostWakeup` is not inductive, as one notify may be followed by a second put before
  the woken caller runs. `WakeupsSuffice` counts: if a popper sleeps, at least as many are
  awake as there are elements.

### InstanceTlsProofs: thread local members

`MembersAreSafe` (`TlsSpec => []TlsSafe`), from `TlsAssumption`. `TlsInv` is
`TlsTypeOK`, ids of living owners are below the number of ids and differ (`IdsBounded`,
`IdsDistinct`), what a slot, an ending thread and a free list may hold (`InSlots`,
`InExit`, `InFree`), no member is at two of these places (`Apart`), every member that is
not deleted is at one of them (`Accounted`), and what is deleted belonged to an owner that
ends (`Deleted`). `TlsSafe` leaves out the threads that are between two steps of their
end or of a reuse; these are what `InExit` and `Apart` add.

### PipelineProofs: order in a pipeline

`OrderIsRestored` (`Spec => []OrderRestored`), for every pipeline, queue size and window,
from `PipelineAssumption` alone. It asks of a pipeline what the code asserts: there is a
stage, a stage has at least one unit (`thread/pipeline.cpp:262`), exactly one if it deals
with serials (526, 577, 701), and what gives out serials comes before what keeps them; and
of its use what the interface asks: a task is enqueued once (it is destroyed once), callers
enqueue tasks only if the first stage does not make them, and a first stage that makes them
makes at least one. The theorem holds for early stops and for exceptions too. `OrderInv` is

* `SerialTypeOK`;
* `Fine`: no two places (in a queue, in a unit's hands, in the window or overflow of a
  serial stage) between two generators hold the same serial number, and none holds a
  number that has not been given out;
* `CallerInv`: only the caller that holds `m_mutexForInqueue` is in the middle of its
  tasks;
* `KeepInv`: what a serial stage knows at each point: the window holds the serials from
  the expected one on, each at its place modulo the window; what is in the overflow is
  later; what process was called for is earlier, and increases; when the stage waits for
  input, the head of the window is empty or holds a serial it does not expect.

`OrderRestored` alone says nothing of duplicates; a serial given out twice would be put
over the item that is in the window. That is why every item is followed from place to
place through the whole pipeline (`Moved`, `FineMoved`), with one lemma for each kind of
move and one for each action. The arithmetic of the window is in `WindowMoves`, the least
element of the overflow comes from the well-foundedness of `Nat`.

### PipelineTaskProofs: no task is lost

From `PipelineAssumption` too, with the places of `PipelineProofs`:

* `TasksAreKept` (`Spec => []OnePlace`): a task that was enqueued or made and that nobody
  has destroyed, kept or leaked is in exactly one place, any other in none. It holds
  whenever `stop()` is called and whatever throws. The invariant is `TaskInv = OrderInv /\
  ShapeInv /\ OwnerInv /\ NewInv`. `OwnerInv` says it by owners, a queue or a unit, instead
  of by counting: each living task has one owner, which has it once, and an owner has living
  tasks only; a step moves a task between two owners. `ShapeInv` says at which points a unit
  has an item, a window, an overflow; `NewInv` that what is enqueued or made next was never
  seen before. `PlacesCount` leads from owners to the cardinality in `OnePlace`.
* `CheckSerialHolds` (`Spec => []SerialsInTime`): the exception of `CHECK_SERIAL` (635) is
  never thrown. `NumberedInv` says that behind what gives out serials no item is without
  one, `AheadInv` that nothing on its way to a serial stage is before the serial that the
  stage expects.
* `NothingIsLost` (`ASSUME ~EarlyStop PROVE Spec => []NothingLost`): besides, a unit that
  has left leaves nothing in the queue before it, and when `wait()` returns all tasks are
  destroyed or kept, if no exception leaked one. With early stops this is false (section 7,
  `LeavesNothing`). It needs the way in which a pipeline ends: `CountInv`, the number of
  running units that `isPrevRunning` reads is that of the units that have begun and not
  left; `MainInv`, `stop()` comes after all enqueues, stages are joined in order; `EndInv`,
  what a unit that leaves has learned is still so: once it has read that no unit of the
  stage before runs, none will, and once it has then seen the queue empty, it stays empty.
  After an exception some of that is no longer so (the catch block reads the two in the
  other order), but then a task is lost and `Complete` says nothing.

### CircularPermanentIDProofs: the id table

`IdsAreKept` (`Spec => KeepsIds`): the ring implements `PermanentID`, for every power of
two as word size and any number of ids, from `PermanentIDAssumption`. The invariant
`IdInv` only says that the arrays have the capacity the code believes they have and that
the tail is inside: the table is a function of the ring, so nothing else must be carried.
The argument is the arithmetic of places. Ids less than the capacity apart have different
places (`Apart`), the tail is where the next id goes (`Span`), and when the capacity
doubles, exactly the places whose ids have the new bit must move (`DoublePlace`): each of
the four ways a push can go moves at least these (`Ready`, `GrowReady`), whole words of
bits included (`Words`). The provers know that quotient and remainder are unique but not
that they exist; `CanDivide` derives it from the well-foundedness of `Nat`. The id that
push *returns* is another matter: it is wrong when a ring that starts at index 0 doubles
(below, section 7), and the theorem does not speak of it.

`UseIsCounted` (`Spec => [](UsedIsCounted /\ m_num_free \in Nat)`): `num_used()` is the
number of ids in use, and `m_num_free`, which is unsigned in the code, never goes below 0.
`CountInv` adds to `IdInv` that the ids in use are finitely many; the effects of push and
drop on the table (`Pushed`, `Dropped`) are those of the first proof, and what is new is how
far the tail moves when the first id is dropped and takes dropped ones with it.

### LruPageCacheProofs: the page cache

For every finite set of threads, any number of pages and files, from `LruAssumption` and
with the hypothesis `SinglePage`: reads stay inside of one page and do not fail. Both are
needed: after a failed read of one page `PinnedIsKept` is false (section 7), and the pages
of a longer read are taken in a fold over the cache, which is induction over data.

* `PinnedPagesAreKept` (`Spec => []PinnedIsKept`): the page of a buffer keeps its content
  until the buffer is discarded.
* `BooksAlwaysAgree` (`BooksAgree`): hash table, lists of the files, list of dropped files
  and `busypage_num` agree.
* `ReferencesAreHeld` (`RefsAreHeld`, the first half of `PagesComeBack`): `ref_count` is
  the number of threads that hold the page.
* `ClosedPagesAreUnused` (`ClosedIsUnused`): nobody holds a page of a dropped file, so its
  pages may be reused at once.

The invariant is `LruInv = CacheOK /\ ThreadsOK`. Of the cache: types and ids that were
given out; `Loaded`, a loaded page has the content of its key; `Books`, for each file its
pages and their number (`FilesOK`), one page for a key (`KeysOK`), what is on the list of
dropped files (`ListOK`), `busypage_num`; `RingOn`, the neighbours of a page without
references in the LRU ring have none either. Of the threads: each is idle or a `Reader` of
a page that has its key, in a file that is open, with the content once it is loaded; and
`RefsOK`, `ref_count` is the number of readers. `PinnedIsKept` alone is not inductive,
because `alloc_page` decides by the ring and the list of dropped files which page to take.
With `RingOn` the tail of the ring is a page without references, with `ListOK` and the
readers' open files a page of a dropped file has no reader: so by `RefsOK` no reader's page
is taken. That the free pages are *one* ring is not needed for this. What each operation
does to the books is in `LosePage`, `GainPage` and `MovePageIs`, to references and ring in
`PinIs`, `UnpinIs` and `TakenIs`; `HeldKept` and `OpenKept` keep the other threads' part.

### Only model-checked, and why

* Liveness (`PreadReturns`, `WaitReturns`, `DestroyReturns`, `WaiterIsServed`): the prover has no rules for fairness. `NoWakeupIsLost` is the
  safety part of `WaiterIsServed`.
* What recursion computes: reachability in the trie (`TrieIsSet`, `LookupSees`,
  `NodesAccounted`, `IterRight`), the skip lists of the pools (`PoolIsWhole`,
  `SeqIsWhole`), collision chains (`FindsContent`, `StrMapRight`), coders, merges,
  block searches, static tries and their iteration (`IteratesWords`), the index. These need induction over data, which the
  installed provers cannot do: the library's induction theorems take an operator as
  parameter. The same holds for the pages of a longer read, a fold over the cache.
* Of the page cache: longer reads (`CopiedIsRight` is about them alone), failing reads,
  and `LruIsFree` in `PagesComeBack`, that the free pages are all in one ring. For some
  constants the invariants are false (failing reads of one page, too few pages for a
  longer read, section 7).

## 6. Disagreements between code and a claim, as runs

**token_stale** (`fsa/cspptrie.cpp:3108`). `mt_release` of an idle head reads
`m_link.next` before it takes the lock; the CAS at 3183 compares the flags alone. If
meanwhile `reclaim_head` has moved the token to the tail and it has become the head again,
the flags are the same and the walk at 3186 starts from the old link. The token there may
be behind a token in use, which the walk passes: `m_dummy.m_min_age` goes ahead of it, and
what its thread reads may be freed. Nothing dies on the way. `insert_multi_writer` and
`lookup` assert the opposite of the token they are called with (`MinAgeIsHeld`).

**reclaim_one_writer** (`fsa/cspptrie.cpp:1228`, `2364`). Below `MultiWriteMultiRead`
a node is aged with the writer's own verseq, which those levels never update, and
freed by the trie's min_age, which moves on with the readers. A reader's node is
freed, although `fsa/cspptrie.hpp:39` says "iterator with token will keep valid".

## 7. Further configurations

Each is a configuration of section 3 with the changes named; the properties and
specifications are in the modules.

| Base | Changes | Property | Outcome |
|---|---|---|---|
| `CsppToken.cfg` | two tokens, `MaxSeq = 5`, no symmetry, `FairSpec` | `LockIsReleased` | holds (until `stale`) |
| `CsppToken.cfg` | two tokens, `MaxSeq = 5` | `DeadHeadIsFlagged` | violated: `mt_release` stores `ReleaseWait` and `m_head_is_dead` in two steps (3126); a dead head can stay without the flag, and min_age stands still |
| `CsppInsert.cfg` | `InitFails = FALSE` | `LazyFreeIsPermanent` | violated: 1694 clears the flag that 1673 calls permanent |
| `CsppInsert.cfg` | no readers | `FinalIsComing` | violated: `init_value` fails after `FLAG_set_final` is set (2067); the next insert of the key waits for a final mark nobody sets |
| `CsppInsert.cfg` | no readers, `InitFails = FALSE`, `FairSpec` | `InsertReturns` | violated: a writer that marks a node another has merely locked leaves `FLAG_lazy_free` on it when it backs out (1668, 1695); all later writers of that node retry for ever |
| `CsppInsert.cfg` | `Keys <- MCKeysRoot` | `NodesAccounted` | violated: when the CAS on a slot of the fast root fails, only the first node of the new chain of suffix nodes is freed (1966) |
| `LruPageCache.cfg` | 2 threads, `PageNum = 2`, `Fails = {1}`, `MaxOpen = 1` | `LoadingHasLoader` | violated: after a failed read of one page (806) the page stays in the table with nobody loading it |
| `LruPageCache.cfg` | 2 threads, `PageNum = 3`, `Fails = {1}` | `PinnedIsKept` | violated: the same failure leaves the page out of the LRU ring; the next hit corrupts the ring (767-768) |
| `LruPageCache.cfg` | 2 threads, `PageNum = 3`, `Spans = {2}`, `MaxOpen = 2` | `ClosedIsUnused` | violated: no page can be allocated in the middle of a longer read (863), the references taken so far stay |
| `LruPageCache.cfg` | 2 threads, `PageNum = 4`, `Spans = {2}`, `MaxOpen = 1` | `CopiesAll` | violated: a longer read whose pages are all hits copies nothing (909) |
| `Pipeline.cfg` | `Pipelines <- NoneThrowing`, `QueueSize = 3`, `EarlyStop = TRUE`, `Spec` | `LeavesNothing` | violated: a unit counts itself when its thread runs, not when it is created (`thread/pipeline.cpp:456`, assertion at 464) |
| `Pipeline.cfg` | `Spec` | `DrainedIsEmpty` | violated: the catch block reads `empty()` before `isRunning()` (478) |
| `Pipeline.cfg` | `Pipelines <- OneThrowing` | `WaitReturns` | violated: after an exception in the first stage, `enqueue` blocks for ever in a full queue |
| `MCContainers.cfg` | `PrefixKeys <- MCPrefixLeaf`, `MCTrieSpec` | `PrefixReturns` | violated: `seek_max_prefix` dies at a leaf the key goes beyond (4977); `tests/tries/test_adfa_iter.cpp:655-696` calls it so |
| `MCData.cfg` | `MixedUses <- MCOneIndex` or `MCMove` | `BitVectorsRight` | violated: mixed vectors of two dimensions that are given one select index only; pointers into a block that a build has moved |
| `MCData.cfg` | `VecUses <- MCVecDelim` | `StringsRight` | violated: delimiters of the `UintTpl` vectors |
| `MCData.cfg` | `VecUses <- MCVecLong`, `MCZipSpec` | `StringsRight` | violated: long compressed pools |
| `MCData.cfg` | `MCZoSpec` | `StringsRight` | violated: strings that end where a block of offsets ends are read with offsets from beyond it, and the longest length misses the last string (`util/zo_sorted_strvec.cpp:176-240`) |
| `MCData.cfg` | `BitsAnySpec`; `HintSpec` | `ZeroRunEnds`; `HintsAgree` | violated: runs into the padding; lower bound with a hint |
| `MCData.cfg` | `MCSeekSpec` | `StreamRight` | violated: seek inside the buffer (`io/StreamBuffer.cpp:580-612`) |
| `MCData.cfg` | `MCStraddleSpec` | `StreamRight` | violated: a read of a buffer for both reading and writing that goes past what is in it |
| `MCData.cfg` | `MCLosingSpec` | `StreamRight` | violated: a read past the buffer that meets the end throws with the buffer emptied: the bytes it held are gone (187-200) |
| `MCData.cfg` | `MCLineSpec` | `StreamRight` | violated: getline has read a line and then throws, when the line ends with a CR that is the last byte (337-352) or, without a stream, has no end |
| `MCData.cfg` | `MCRetrySpec`, `Rooms = {1}` | `StreamRight` | violated: a flush that is called again after a short write writes the bytes again (404-416) |
| `MCData.cfg` | `FullKinds = {"seekout"}` | `StreamRight` | violated: tell after a flush that failed |
| `MCData.cfg` | `FullKinds = {"zcwrite"}` | `StreamRight` | violated: a failed zcWrite forgets the begin of what a later flush writes |
| `MCData.cfg` | `IoKinds = {"memory"}` | `StreamRight` | violated: memory mode never allocates its buffer (562-574) |
| `MCStores.cfg` | `MCOffsetsSpec` | `OffsetsAreChecked` | violated: the checksum of the offsets is not compared (`zbs/dict_zip_blob_store.cpp:1363`) |
| `MCStores.cfg` | `MCTrieSpec` | `IndexBoundRight` | violated: a lower bound past the last word |
| `MCStores.cfg` | `MCTrieCacheSpec` | `RanksRight` | violated: ranks from the cache when the empty word is there |
| `MCStores.cfg` | `MCIndexAnySpec` | `IndexRight` | violated: cached ranks with the empty word; descending keys with a non descending prefix or several crit-bit tries |
| `MCStores.cfg` | `MCIndexAnySpec` | `SuffixIsThere` | violated: a trie without suffixes that was not reordered finds a word and reads its suffix through a null pointer (`idx/terark_zip_index.cpp:1993`) |

### Seen while modelling

Places where the code as read does not do what its neighbourhood expects. The modules
model the code as it is; the runs keep to inputs that avoid these, and say so.

* Permanent ids: a push that doubles a ring that starts at index 0 returns an id too
  large by the old capacity (`zbs/lru_page_cache.cpp:190`, assertion at 214).
* CSPP: `reclaim_head` clears `m_link` of a token (3347) that its owner may have deleted
  since the CAS to `ReleaseDone` (3346; compare the comment at 2992). `idle()` of an iterator leaves a stale stack for `incr`; `seek_end` on an empty
  trie leaves a stack.
* Queues: `FiberQueue(size)` holds size - 1; `erase` and `clear` notify nobody;
  `double_cap` with the head at 0 while the ring is full.
* Pools: `mempool_lock_free.hpp:222-245` pops with a CAS on an untagged head;
  the huge list's mutex is taken again by its holder (256-277).
* Hash maps: shrinking does not relink (`gold_hash_map`); `erase_if_kv` destroys twice,
  free lists enabled again, sort after erase (`hash_strmap`).
* Set operations: `radix_sort_tpl` skips positions when no string has the last length;
  `intersection_size` of the loser tree has no return; the heap's `copy_if2` drops the
  last group.
* Bit vectors: flags of mixed vectors are swapped between layouts; select pointers
  dangle after a growth; `il_256_32_41` counts its select0 slots wrong; operators of
  `febitvec` with a vector of another size mix in its padding; a padded constructor's
  mask is off by one (`bitmap.cpp:26-38`).
* String vectors: `RevOrdStrVec` ignores the index (`util/rev_ord_strvec.hpp:107-152`);
  level 1 asserts false (`util/sortable_strvec.cpp:349`); `back()` is off by one.
* Blob stores: offsets of `plain_detach`, width of offsets after a reordering of
  `MixedLenBlobStore`, checksum in `EntropyZipBlobStore`'s spread read.
* Dictionary store: a purge pads when the dictionary's size is a multiple of 16 and
  loses the no-compress bits; the embedded dictionary's pointer dangles (2107-2108);
  `finishZip` polls a counter that is not atomic (750).
* Static tries: `lower_bound` from another root; `build_with_id` without terminal bits;
  `restore_next_string` after a load.
* Index: the suffix's lower bound on reversed input; the base of the last crit-bit trie
  when the number of words is a multiple of its entries; `TerarkKeyIndexReader::next`
  (91-95) tests its flag the wrong way round.

## 8. Plan

Done: all modules of section 2, their runs, and the proofs of section 5. Left:

1. Models: `mempool_lock_free` (its free lists compose with `CsppReclaim`, whose tokens
   keep a popped head from coming back), `for_each_tls`, fibers as units of a pipeline,
   `set_readonly` of the trie, two tokens of a thread on one lazy list, the suffix array
   dictionary.
2. Proofs: the page cache for longer reads, with pages enough for all threads; that its
   free pages are one ring, with the ring as a sequence beside the links.

## 9. Not modelled, and why

* Weak memory: the trie's plain accesses are atomic and sequentially consistent.
* `uint64` wrap-around of verseqs and the 16 bits of `ref_count`: out of reach of any
  run of the program, or noted as a hazard.
* Values of the trie: a user's update of a value in place beside a writer that copies
  the node is a protocol between users.
* `MultiLruReadonlyCache`: several page caches without common state.
* Other automata of `fsa/`: built by one thread, read only afterwards, generic walks.
* Containers (`valvec.hpp`): sequences in the modules that use them.
* Statistics, logging, command line tools, and the wrappers of fibers and kernel I/O.
