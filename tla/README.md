# Verification of mod-cpp

mod-cpp is a collection of C++20 programs, one per `.cc` file: concurrent queues
and a stack, a thread puzzle, a go-back-N protocol, allocators and pools, owning
pointers, containers, and demonstrations of the language. Every file ends in a
*routine* that tests or shows what it defines; `main` (`src/main.cc`) calls one of
them. This directory holds TLA+ models of those with state worth the name, TLC
configurations that check them, and TLAPS proofs.

`tlc -config <run>.cfg <module>` repeats a run (`PROJECT.json` pairs them),
`tlapm <module>.tla` a proof.

## 1. Inventory

### Components with concurrency

| component | state | operations | how its parts interact |
|---|---|---|---|
| lockless queue, `lockless_queue.cc` | ring `data`, atomics `push_idx`, `shadow_push_idx`, `pop_idx`, `shadow_pop_idx` | `push`, `pop`, each with a claim loop (compare-exchange) and a publication loop (spin until one's predecessors are published) | the threads share the four indices and the slots |
| lockless stack, `lockless_stack.cc` | atomic `head`, linked `node`s on the heap | `push` (new, compare-exchange), `pop` (dereference, compare-exchange, delete) | the threads share `head` and the nodes; `delete` is not coordinated with readers |
| bounded queue, `bounded_queue.cc` | `deque`, mutex, condition variables `producer_cond`, `consumer_cond` | `push`, `pop` | each `notify_one`s the other side |
| H2O generator, `h2o.cc` | counters `h_cnt`, `o_cnt`, mutex, two condition variables, the output | the loops of the H and O threads, `reset_state` | a molecule is finished by any thread, and the counters are reset by whichever enters next |
| packaged tasks, `future.cc` | `deque` of tasks, mutex, a future | `main`'s loop (make, push, get), the worker's (look, take, run) | the worker polls under the mutex `main` needs and fulfils the future `main` waits for |
| stop requests, `jthread.cc` | a stop token, mutex, condition variable | `request_stop`; a thread that polls the token, one that waits with it | the library's callback wakes the sleeper |
| coroutines, `coroutine.cc` | a stack and `ctx` per coroutine, one `main_ctx` | construction, `switch_to` in both directions, `__entry`, `__exit` | control passes by `setjmp` and `longjmp` |
| TCP demo, `tcp.cc` | two global queues with mutexes; sender: `buf`, `send_base`, `current_seq`, `tcp_counter`; receiver: `recv_base`, `tcp_buf`, `ready_seq`, `app_buf` | `tcp_connect`, `tcp_send`, `tcp_recv`, the timer's loop, `handler_fn`, `do_recv`, the destructor | five threads, four mutexes, two condition variables, and fields shared without a lock |

What makes them hard is the interleaving of accesses, notifications that fall
where nobody waits, indices that come round, memory that is deleted while
another thread is about to read it, and sleeps that nobody ends.

### Sequential components

| component | state | operations |
|---|---|---|
| memory allocator, `memory_allocator.cc` | nodes; free regions in a set (by length and address), `left2right`, `right2left`; `addr2len` | `allocate` (best fit, split, new node), `release` (merge with both neighbours) |
| list pool, `opool.cc` | nodes, `cur_free_idx`, `freelist` | `New`, `Release`; the constructor of the object may throw |
| intrusive pool, `object-pool.cc` | nodes, `free_list` threaded through the free chunks | `New`, `Release`; the same |
| copy-on-write, `cow.cc` | per object a pointer to a counted `Data` | constructors, assignments, destructor, `mutable_operation` |
| shared and weak pointers, `shared_ptr.cc` | counted metadata; the set of weak pointers each `shared_pointer` resets | constructors, assignments, destructors of both classes, `lock` |
| binary heap, `heap.cc` | array `data`, `last` | construction from a vector, `push`, `pop` |
| linked list, `linked_list.cc` | a ring of nodes: `next` owns, `prev` is weak | push and pop at both ends, destruction |
| hash table, `hash_table.cc` | array of lists of nodes, `len` | `operator[]`, `erase`, `count` |
| vec, `vec.cc` | `stack_vec`, `heap_vec`, size and capacity | `emplace_back`, `grow`, `operator[]` |
| string, `string.cc` | buffer and length | constructors, assignments, destructor, `operator[]`, `substr` |
| unique pointer, `unique_ptr.cc` | a pointer | construction and moves |
| rule of five, `ro5.cc` | two allocations and a socket | construction that may fail, copy, move, destruction |
| iterator and sort, `iterator.cc` | an array | quicksort over iterators |

What makes them hard is long sequences of legal calls (fragmentation, reuse,
several owners), a constructor that throws half-way, and objects that were moved
from, are empty, or are assigned to themselves.

The remaining files show features of the language (overloading, templates,
lambdas, virtual functions, casts, ...) and keep no state beyond one call. They
and the build files are listed in `PROJECT.json` and are not modelled.
`parallel_computing.cc` is under `#if 0`, and `coro.cc` is a counter in a coroutine
whose state machine the compiler writes.

### What makes each component correct

| component | properties |
|---|---|
| lockless queue | no race on a slot; a claim is exclusive; elements leave in the order they were claimed, none lost or repeated; refusals are justified; publication never jams |
| lockless stack | no node used after `delete`; no node lost or linked twice; last in, first out; lock-freedom |
| bounded queue | capacity; no lost wake-up; never everybody asleep; FIFO; progress |
| H2O | whole molecules only; nobody sleeps through a reset; progress |
| TCP demo | in-order delivery without gaps; acknowledgements are true; what is not acknowledged is kept; sleeps end |
| allocator | memory is tiled by blocks and free regions; three indexes, one content; coalescing; its own asserts |
| pools | a chunk is in one place and has one holder; no growth while a chunk is free |
| containers | the representation (heap order, both directions of the ring, one node per key); what a priority queue, deque and map promise; contents survive growth |
| string, unique pointer, rule of five | every resource has one owner and lives as long, also when a constructor throws |
| sort | sorted at the end, elements only exchanged, no scan leaves its range |
| tasks, stop requests, coroutines | every queued task is answered; a request is not slept through; control returns to a frame that exists |
| COW, shared pointers | counts count owners; no use after delete, no leak; changes stay private; weak pointers are reset in time |

## 2. Modules

| module | models | state and actions |
|---|---|---|
| `BoundedFifo`, `LifoStack`, `Pool`, `PriorityQueue`, `Deque`, `Map` | what queues, the stack, the pools, the heap, the list and vec, and the hash table promise: abstract specifications | a bag, a sequence or a function; in the concurrent ones an element is in the container or in the hands of the thread that took it |
| `LocklessQueue` | `lockless_queue.cc` | `pc`, `cur`, `val` are a thread's place in `push`/`pop` and its locals; an action is one access to shared memory: `PushCall` loads the index, `PushCheck`/`PushRefuse` evaluate `can_push`, `PushClaim`/`PushRetry` are the compare-exchange, `PushWrite`, `PushPublish`; likewise for `pop` |
| `LocklessStack` | `lockless_stack.cc` with an explicit heap (`alive`, `prev`, `data`) that may return an address as soon as it was deleted | `PopDeref` is the read of `cur_head->prev` that precedes the compare-exchange on line 35 |
| `BoundedQueue` | `bounded_queue.cc` with `bounded_queue_routine`'s threads | `mtx` and `pc` say who is inside and who sleeps; test and sleep are one step (`PushWait`, `PopWait`), as the mutex makes them; `NotifyOne` wakes any one sleeper; wake-ups may be spurious |
| `H2O` | `h2o.cc` | one action per section between two operations on the mutex or condition variables; `h_out`, `o_out` are the atoms written since the last whole molecule |
| `Tcp` | `tcp.cc` | a `pc` per thread; a section under a mutex is one action unless another thread reads its state without that mutex: `tcp_send`'s five steps, the two reads of the handler's predicate, its sleep, and the timer's increment and notification are all separate |
| `MemoryAllocator` | `memory_allocator.cc` | `Allocate`, `AllocateInNewNode`, `Release`; a failed `assert` sets `failed` and ends the run |
| `ListPool`, `IntrusivePool` | `opool.cc`, `object-pool.cc` | one action per way `New` finds a chunk, with a constructor that returns or throws; `holders` and `lost` are history |
| `CopyOnWrite`, `SharedPointer` | `cow.cc`, `shared_ptr.cc` | one action per member function over a few variables; following a null or dangling pointer sets `undefined` and ends the run |
| `MinHeap` | `heap.cc` | `data` is the used part of the array; `Sunk` and `Risen` are one round of `down` and `up`, `Down` and `Up` as many rounds as the recursion can take (recursive functions; once the element is in place a round changes nothing) |
| `LinkedList` | `linked_list.cc` | `live`, `next`, `prev`; `Relink` drops the nodes nobody owns when a function returns |
| `HashTable`, `Vec` | `hash_table.cc`, `vec.cc` | the members; `Storage` is where `operator[]` looks, `Grown` what `grow` copies |
| `CharString`, `UniquePointer`, `RuleOfFive` | `string.cc`, `unique_ptr.cc`, `ro5.cc` | one action per special member function over a few variables, with the buffers, objects or descriptors that exist |
| `MiniSort` | `iterator.cc` | a step is the start of a call, a round of the loop, or the recursion; `pending` is the stack of calls |
| `Containers` | the eight modules above by `INSTANCE` | one of them takes steps, by `routine` |
| `Routines` | `main.cc`'s choice of one routine: extends `Containers` by the five components with storage and counts | `routine`, and the state of all of them |
| `TaskQueue`, `StopToken`, `Coroutines` | `future.cc`, `jthread.cc`, `coroutine.cc` | a `pc` per thread; what happens under the mutex is one step; the library's wait with a token tests and sleeps in one step for its own callback; `main_ctx` is `"live"` while the frame that saved it is there |
| `Tasks` | `main.cc`'s choice among those three | `routine`, and the state of all of them |
| `MC...` | instances for TLC: symmetry, constants that are expressions | |
| `LocklessQueueProofs`, `LocklessStackProofs`, `BoundedQueueProofs`, `H2OProofs`, `TcpProofs`, `TasksProofs` | the theorems about the module of that name (section 5) | |
| `RoutinesProofs`, `ContainersProofs` | the theorems about `Routines`: the counting classes, the pools and the allocator; the containers and owning classes, and the types of all | |

Some modules define an operator twice, the second time as the code has it:
`HasRoomLate` before `HasRoom`, `InsertLeftOnly` before `insert_memory_region`.
The first is a deliberate mistake, nowhere used; `PROJECT.json` ("mutants") says
which property fails when it replaces the other.

Abstractions that hold throughout: elements and payloads are model values; the
atomics are sequentially consistent in the code (no memory order is given), so an
interleaving of atomic steps is exact; `compare_exchange_weak` may fail without a
reason (`LocklessStack`'s `PopRetry`); printing is left out except where it
is the result (H2O).

## 3. Runs

| run | instance | shows |
|---|---|---|
| `LocklessQueue` | 2 producers, 2 consumers, 3 slots, 2 values; lap-free, fair | whoever claimed a slot gets through the publication loop; no race on a slot, `push_idx` names a free slot, the ring implements `BoundedFifo`, refusals of threads nobody overtook are justified |
| `LocklessQueueLapped` | 2 producers, 1 consumer, 4 slots; any schedule | **fails**, see section 6 |
| `LocklessStack` | 2 pushers, 1 popper, 3 addresses, 2 values; fair | no use after `delete`, no node lost, the list implements `LifoStack`, operations keep completing |
| `LocklessStackTwoPoppers` | 1 pusher, 2 poppers | **fails**, see section 6 |
| `BoundedQueue` | 2 producers, 2 consumers, capacity 2, 2 values; fair | capacity, no lost wake-up, `BoundedFifo`, progress |
| `H2O` | 3 H, 2 O threads; fair | whole molecules, justified sleep, progress |
| `Tcp` | send window 3, receive window 2, 4 packets; fair | delivery, acknowledgements, the shared send buffer, and that an acknowledgement ends the handler's sleep |
| `TcpHandlesOnce` | 2 packets | **fails**, see section 6 |
| `Routines` | allocator: nodes of 4 bytes at 4, 8 and 13, three blocks of 1 to 4 bytes; pools: three nodes of two chunks; three pointer variables, four blocks, two weak pointers; heap of up to 5 of 3 numbers; list of 3 elements; 3 keys, 2 of which collide; vec of 2 on the stack and 5 in all; 2 strings of up to 2 characters; 3 descriptors besides the standard input; arrays of 5 of 3 numbers | all properties of the sequential components |
| `Tasks` | 2 shared states of tasks, 3 coroutines; weakly fair | a queued task is answered, no stop request is slept through, coroutines return to a frame that is there |
| `CopyOnWriteMoves`, `SharedPointerSelfAssign` | three variables | **fail**, see section 6 |

### Why the bounds are enough

* Queue: three slots (capacity two) are the fewest in which both sides
  can hold several slots at once, indices wrap and the ring is empty, partly full
  and full; two threads a side give overtaking, out-of-order writes and waiting
  in the publication loops. The proofs (section 5) cover every size.
* Stack: three addresses let a node be deleted and reused while another thread
  still holds its address, with one more node between them.
* Bounded queue and H2O: two threads a side, three H threads, so that a
  `notify_one` has a choice and a woken thread can find its place taken. The
  proofs cover every number of threads.
* TCP: the sender's window is larger than the receiver's, so packets are
  dropped at the receiver's edge; one packet more than the window wraps `buf`.
  `tcp_counter` stops at `TimeOutLimit` (only `>= TimeOutLimit` is ever asked)
  and `MaxSeq` bounds the packets.
* Routines: the allocator's nodes at 4 and 8 touch (as two results of `new`
  can) and 13 does not; three blocks in four bytes give a block between two
  free ones, so release merges on both sides. Three pools' nodes are one more
  than the growth from the first needs. Three variables are an assignment between
  two of them in sight of a third. `MaxNodes` bounds the pools, `Bases` the
  allocator's nodes.
* Containers: a heap of five has a node with two children below the root, one with
  a single child, and leaves; the list needs a node in between two others; two
  keys in one bucket and one in another are every case of a lookup; the vec goes from
  the object to the heap (3 elements) and from array to array (5). Strings of two
  characters have proper substrings at both ends. `MaxInsertions`, `MaxSize` and
  `MaxText` bound the runs. All 243 arrays of five are sorted: with three values there
  are equal elements, extremes as pivots, and ranges of every shape.
* Tasks: two tasks, because the worker may still hold the last one while `main` makes
  the next; three coroutines, so that one is constructed and others are resumed
  between a construction and its first resumption.

What the run says of an operation is grouped: `MemoryTiled`, `IndexesAgree`,
`RefcntCountsOwners`, `WellDefined`, `ContainersSound`, `OwnedOnce` and
`NobodyStranded` are conjunctions of the components' own properties (`Coalesced`,
`AssertsHold`, `NothingLeaks`, `SubscriptionsAgree`, `HeapOrdered`, `RingsAgree`,
`OneNodePerKey`, `SortedAround`, ...), which the modules state one by one.

Symmetry is used where no liveness is checked.

### The two kinds of programs in `Routines`

The classes of `cow.cc` and `shared_ptr.cc` have members that are undefined for
some arguments. `routine` therefore runs each under *all* programs (`"cow"`,
`"shared_pointer"`), where type correctness, `NothingLeaks` and the counts of
`shared_ptr.cc` hold up to the first undefined step, and under programs that
avoid those uses (`"cow_copies"`: no default construction, no moves;
`"shared_pointer_careful"`: no copies of empty pointers, no self-assignment, no
copied weak pointers, no `lock` of a weak pointer to an empty pointer), where
nothing undefined happens, a mutation is seen through one object only, and weak
and shared pointers know each other. `ro5.cc` is treated alike: `"ro5"` moves objects
and keeps its allocations in order, `"ro5_copies"` does not and keeps its sockets too.

## 4. Fairness

* `LocklessQueue`: weak fairness of the steps a thread takes while it holds a
  claimed slot. `std::thread` promises concurrent forward progress; a thread in
  `push` or `pop` waits for nothing but earlier claims.
* `LocklessQueue`, `LapFree`: between loading an index and the compare-exchange a
  thread misses fewer than `QueueCapacity` advances. This is an assumption on the
  schedule and the code does not enforce it (section 6). With one producer and one
  consumer it always holds (theorem `SinglePairIsLapFree`).
* `LocklessStack`: weak fairness of each thread, and spurious failures of
  `compare_exchange_weak` at last stop; `LockFree` then says that *somebody*
  completes, not everybody.
* `BoundedQueue`, `H2O`: a thread inside the mutex runs on; somebody gets the free
  mutex, but nobody in particular, as `std::mutex` is not fair; spurious wake-ups
  at last stop (with them for ever, a schedule may do nothing else).
* `Tasks`: weak fairness of both threads of `future.cc`, and nothing for `main` at the mutex,
  since `std::mutex` promises nothing while the worker takes it again and again. That is
  enough for a task that is in the queue (`QueuedTasksAnswered`): `main` then waits for the
  future and leaves the mutex to the worker. That `main` gets to queue the next task cannot
  be shown (section 6), and no run assumes it.
* `Tcp`: each thread runs on, and a call once begun; nobody has to call.

## 5. Proofs

| module | theorem | says |
|---|---|---|
| `LocklessQueueProofs` | `TypeCorrect` | the indices and locals stay in range, under any schedule |
| | `IndicesKeepOrder`, `RaceFree`, `Pushable` | under `LapFree`, for any threads and ring size: the four indices keep their order, no slot is written while somebody else accesses it, `push_idx` names a slot in nobody's hands |
| | `RefusalsAreJustified`, `RingImplementsFifo` | under `LapFree`: threads nobody overtook refuse only when they must; the ring implements `BoundedFifo` |
| | `SinglePairIsLapFree` | one producer and one consumer are always lap-free |
| `LocklessStackProofs` | `StackTypeCorrect` | heap, head and locals stay well typed, for any threads |
| | `PopTouchesLiveNodes`, `NodesAreAccounted`, `StackImplementsLifo` | with one popping thread and any number of pushing ones: no deleted node is touched, every node has one owner, the list implements `LifoStack` |
| `BoundedQueueProofs` | `TypeCorrect`, `NoWakeupLost`, `NeverAllAsleep`, `RefinesFifo` | capacity and exclusion; no wake-up is lost; the threads never all sleep (with a capacity and both kinds of threads); the queue implements `BoundedFifo` |
| `H2OProofs` | `TypeCorrect`, `OnlyWholeMolecules`, `NobodySleepsThrough`, `NeverAllAsleep` | the code's assertions on the counters; whole molecules; no reset is slept through; the threads never all sleep |
| `TcpProofs` | `TcpTypeCorrect`, `DeliveryInOrder`, `AcknowledgedIsDelivered`, `WindowIsKept`, `NoRaceOnBuf` | for any windows, time-out and number of packets: packets arrive in order, once and without a gap; acknowledgements are true; what is not acknowledged stays in `buf`, and the timer never reads the slot being written |
| `TasksProofs` | `TasksTypeCorrect`, `NobodyIsStranded` | the awaited task is in one place, a stop request is not slept through, `main` can go on after a coroutine |
| `RoutinesProofs` | `CountsAreOwners`, `NothingUndefined`, `MutationsArePrivate` | `cow.cc` and `shared_ptr.cc`, for any number of objects, pointers and blocks: what `RefcntCountsOwners`, `WellDefined` and `MutationIsPrivate` say |
| | `EveryChunkIsAccounted`, `GrowthIsNeeded`, `PoolsKeepPromise` | both pools, of any number of nodes and chunks: each chunk in one place, no needless growth, and `Pool` implemented |
| | `MemoryIsTiled`, `IndexesAlwaysAgree` | `memory_allocator.cc`, for any node size, addresses of nodes, callers and lengths other than 0: what `MemoryTiled` and `IndexesAgree` say |
| `ContainersProofs` | `EverythingIsOwnedOnce` | `string.cc`, `unique_ptr.cc` and `ro5.cc`, for any number of variables, texts and descriptors: what `OwnedOnce` says, also when a constructor throws |
| | `ContainersAreSound` | `heap.cc`, `linked_list.cc`, `hash_table.cc` and `iterator.cc`, for any elements, keys, hash function and sizes: what `ContainersSound` says, `build_heap` for every array and the sort at every moment |
| | `ContainersKeepPromises` | the heap implements `PriorityQueue`, the list and `vec` implement `Deque`, the hash table implements `Map`, for the same |
| | `TypesAreKept` | the state of all thirteen components stays well typed, if nobody asks the allocator for 0 bytes |

They rest on the modules' `ASSUME`s, named in each module: disjoint groups of
threads; sets that are finite where their members are counted (threads that sleep,
`Addrs`, `Objects`, `Pointers`); a ring, windows, nodes of at least one place; null
values that are no elements, addresses, blocks, chunks or texts. Three hypotheses
are about the program: `LapFree` (section 4) for the queue; `OnePopper` for the
stack, without which the code is wrong (`LocklessStackTwoPoppers`); and `0 \notin Lens`
for the allocator, of which nobody asks for nothing, as with it an address is handed
out twice (section 6).

* **Lockless queue.** `IndexOrder` alone is not inductive: a claim keeps it
  only if the test of `can_push` still holds at the compare-exchange.
  `ProducersInv` adds that claimed slots are distinct and lie between
  `shadow_push_idx` and `push_idx`, that `lag` is the ring distance a loaded index
  has fallen behind, and that a thread in front of its compare-exchange whose index
  is current has room. Here `LapFree` enters: lag below a lap and an equal index
  mean lag zero. `ConsumersInv` is its mirror image. All statements about the
  ring are about `Dist`, with a few lemmas on how `After` changes it. The refinement
  needs `ElementsInv` as well: published slots hold elements, and a push's slot
  holds its element before it is published. The publication of a push is then the
  abstract enqueue, the compare-exchange of a pop the dequeue, the publication of a
  pop the return; every other step stutters.
* **Lockless stack.** `ListInv` says that there is a sequence of nodes, without
  repetition, that starts at `head` and is chained by `prev`, and that it is the nodes in
  use that are neither with a push nor already unlinked by a pop. `PushersInv` gives
  each push a node of its own whose `prev` is the head it has seen, and `PopperInv` says
  that the popper's node is on the list until its compare-exchange and with nobody else
  after it. Every step keeps the list, puts a node in front or takes the first
  (`NextCases`). With a second popper `PopperInv` fails at once. `Link`, which follows
  the pointers, is shown to run along the sequence (`LinkFollows`).
* **Bounded queue.** `NoSleeperForgotten` is a count: if anybody of a side
  sleeps, the work for that side (free places, or elements) is covered by threads
  of that side that are awake and attending, plus notifications still to be sent.
  Waking, sleeping, working and notifying each have a lemma (`MoreAwake`,
  `WorkDone`, `WorkMade`, `WorkAnnounced`). It is inductive with `TypeOK`.
* **H2O.** The invariant adds that the counters are what was printed of the
  molecule, that a thread on its way to the reset found it full, and that a full
  molecule is always in the hands of somebody who will find it full.
* **TCP.** `SenderInv`, `ReceiverInv` and `ChannelInv`: the window is never wider than
  `buf`, whose slots hold the packets of the window (two numbers less than a window
  apart have different slots, `SlotsDiffer`); what the receiver keeps lies in its window;
  every packet under way was stored and every acknowledgement under way is true,
  whatever is lost, repeated or late.
* **Tasks.** `NobodyStranded` becomes inductive with who holds the mutex
  (`MutexHeld`), that the task in `main`'s hands is a new one (`TaskIsNew`), and that the
  request is made after the flag was set (`FlagFirst`).
* **Counts.** `CowInv` and `SharedInv` compare the count with the number of variables
  that point to the block: for `shared_ptr.cc` they are equal in every program; a moved-from
  object of `cow.cc` is not counted, so in general the count is only at most that number,
  and at least one while the `Data` exists. One lemma gives the number before and after
  one variable changes (`DifferInOne`). Privacy follows: a count of one leaves no other
  variable. `WeaksKnown` says that a weak pointer and a shared pointer know each other or
  neither does, and that a variable that is no pointer has no subscribers.
* **Pools.** `Books` is the same for both: free, held and lost chunks are disjoint and
  together all that were carved, their numbers add up, and `peak` is their sum. `New`
  and `Release` move one chunk between the parts (`BooksTake`, `BooksCarve`,
  `BooksRelease`; `BooksSwap`, since a chunk a constructor loses is booked as one that is
  held). `OPoolInv` adds that `freelist` has no repetition, `ObjectPoolInv` that the
  free chunks are chained from `free_list` (`IsChain`), of which `Nth` is shown to be
  the walk (`NthFollows`).
* **Allocator.** Blocks and free regions are treated alike, as the parts of the nodes
  (`Parts`): none is empty, no two overlap, they hold the bytes the nodes hold, and none
  crosses from one node to another unless nodes touch. Three lemmas say that this
  survives a cut (`PartsSplit`), a merge (`PartsJoin`) and a new node (`PartsNode`);
  `allocate` is then a cut, and `release` up to two merges (`Merging`) of a region that is
  for the moment neither. That regions do not overlap is also why the assertions hold: no
  two free regions start, or end, at one address, so `Indexed` survives every insertion.
  `addr2len` must know each block's length (`AddrKnown`), and blocks must not be empty:
  this is where the hypothesis on lengths enters. `BestFitFits` shows that what
  `lower_bound` finds exists.

* **Owners.** `TextInv`, `UniqueInv` and `FiveInv` say of strings, pointers and objects of
  `ro5.cc` that a resource is of one variable at most and exists while it is some variable's;
  for strings and `ro5.cc` also the converse, that nothing exists that is nobody's, which a
  constructor that throws could break. A string is moreover never longer than the text in
  its buffer, without which a copy would read past it. Sockets (`FiveSockets`) are owned
  while objects are only copied; a moved-from object has descriptor 0 (section 6).
* **Hash table.** `TableBuckets` says that a bucket holds only nodes whose key has its hash,
  none twice. What a bucket holds is treated as a set of nodes (`Held`), of which each
  operation on the bucket's sequence is a change (`BucketAppend`, `BucketReplace`,
  `BucketRemove`), so that the table is a map whose domain is `present`.
* **vec.** Written cells are those below `vec_size`, on the side `Storage` names, and there is
  an array on the heap exactly when there are more elements than fit in the object. `Grown`
  then keeps them at their places.
* **Sort.** `Ranges` says that the ranges still to be sorted follow each other without
  overlap; two elements that no range has together are in order (`SortOrdered`). In the
  running call what the loop has passed lies on its side of the pivot (`Opened`, `Between`,
  `Parted`): for this reason each scan meets an element that stops it before the range
  ends, and a call for a part never gets the whole. Exchanges keep the number of
  occurrences of every value (`ExchangeCounts`, a bijection).
* **Linked list.** `Rings` says that the nodes that exist are f[0] to f[m], the sentinel first,
  with `next` leading up and `prev` down (`IsRing`). Inserting and removing at either end make
  such an f from the old one; `Walk`, the recursive function behind the list's contents, is
  shown to run along f (`RingSays`).
* **Heap.** A sinking element is the only one that may be greater than a child, and its father
  is no greater than its children (`SinkOrdered`); either that changes nothing any more, or the
  position grows. A rising element likewise, with the father (`RiseOrdered`). Each round keeps
  this, only exchanges two elements, and there are as many rounds as the array has cells; so
  the last leaves a heap of the same elements. The recursive functions exist because a function
  applied n times does (`Iterate`, `IterateOne`). For the bag of `PriorityQueue`, the root is
  least by descent along fathers (`RootIsLeast`), and the bag's size is the array's length
  (`BagHasLength`).
* **Types.** Most of `TypeOK` is part of the invariants above. What is left: the allocator's
  indexes are functions with regions in their ranges (`AllocTyped`) and every `Data` has
  contents (`VecTyped`). An empty block, given back on an address that has been handed out
  again, would leave an empty region; hence the hypothesis `0 \notin Lens` once more.

Recursive functions (`Walk`, `Nth`, `Down`, `Up`, `build_heap`) are proved about by an
induction over an interval of numbers, as a set that holds 0 and with each number the next
(`UpTo`, from the well-ordering of the naturals), which needs no theorem with an operator
as parameter.

Model-checked only: liveness (`ClaimsComplete`, `LockFree`, `KeepsMoving`, `KeepsProducing`,
`AckEndsSleep`, `QueuedTasksAnswered`), since the prover treats neither fairness with `ENABLED` nor
leads-to over it. Every other property of the runs that pass is a theorem.

## 6. Where code and claims part

Checked by runs that fail:

* `LocklessQueueLapped`: `push_idx` is documented as "the first index can be
  pushed" (`lockless_queue.cc:17`). The indices are kept modulo the capacity, so a
  thread held between `can_push` and the compare-exchange for a whole lap
  succeeds although the ring may be full by then.
* `LocklessStackTwoPoppers`: `pop` reads `cur_head->prev` (`lockless_stack.cc:35`)
  of a node another `pop` may have deleted; the test runs ten poppers.
* `TcpHandlesOnce`: the handler thread "handle[s] 2 events" (`tcp.cc:30`),
  but `handler_fn` returns after it has been woken once.
* `CopyOnWriteMoves`: the move constructor leaves `rhs.data` in place and does not
  count the new owner (`cow.cc:64`); `cow_routine` moves an object and destroys
  both, which is the trace of the run: the second destructor follows deleted `Data`.
* `SharedPointerSelfAssign`: assigning a sole owner to itself (`shared_ptr.cc:62`)
  deletes the object and follows a null pointer.

Seen while modelling, without a run of their own:

* `lockless_queue.cc:37`: `push` returns silently when the ring is full, and
  `single_thread_test` pushes ten elements into a ring of three.
* `lockless_queue.cc:37`, `:50`: `can_push` and `can_pop` are asked about an index that another
  thread may have moved on, without anybody being held for a lap. One push and one pop in
  between make an empty ring look full to a push, which drops its element; a pop and a push in
  between make a full ring look empty to a pop, which `multi_thread_test` prints as "empty". For
  this reason `RefusalIsJustified` is about threads whose index is current, and a refusal is
  no step of `BoundedFifo`.
* `memory_allocator.cc:84`: `allocate(0)` returns an address that the next call
  returns again; after one `release` the other fails the assert on line 111.
  The run's `Lens` and the theorems exclude 0.
* `opool.cc:37`: what the comment on `allocate` calls raw memory comes from
  `new T[NodeCapacity]` and already holds objects; `~MemoryNode` destroys all of
  them, released or not.
* `heap.cc:55`: construction from a vector copies `nums[1]` to `nums[n]`, so it drops
  the first element and reads past the end; line 54 lets one element too many through.
* `hash_table.cc:47`: `erase` does not count down, so `size()` only ever grows, and after an
  erase it is more than the number of keys.
* `string.cc:25`: `substr` calls `strlen` on a buffer without terminator, and aborts if
  the part holds one (`s1[1] = '\0'` on line 124 is such a string); `string.cc:70`:
  move assignment takes the buffer but not its length, so the result is empty.
* `ro5.cc:76`: a moved-from object has `sockfd` 0, and its destructor closes the
  standard input; the next `socket()` can return 0, which another moved-from object
  closes in turn. `ro5.cc:15`, `:55`: the assignments cannot be instantiated.
* `linked_list.cc:19`: the ring of owning pointers keeps every node alive after the list
  is gone; `unique_ptr.cc` and `vec.cc` have no destructor and never free anything.
* `future.cc:43`: the worker's `continue` unlocks the mutex and locks it again at once; it may
  do so every time before `main` gets the mutex, so no result need ever come.
* `coroutine.cc:65`: a coroutine that is resumed after it has finished returns from
  `__exit` to no return address; `Coroutines` resumes none.
* `shared_ptr.cc:148`: `lock` of a weak pointer to an empty or moved-from
  `shared_pointer` follows null metadata.
* `shared_ptr.cc:136`: the implicit copies of `weak_pointer` leave the subscriptions as they are;
  one that was copied over and has died is still reset by `~shared_pointer` (`:97`).
* `tcp.cc`: the class templates are never instantiated and would not compile
  (`std::thread(do_recv)` on line 98, a `const` receiver on line 196); the model
  gives them the obvious meaning. `terminate_handler_thread` is never read, so
  the destructor can wait for the handler for ever; the receiver's thread is
  never joined. `terminate_timer_thread`, `send_base` and `current_seq` are plain
  variables shared between threads: the model lets each access happen at any
  point of the interleaving, and does not model what a compiler may do beyond
  that.

## 7. Not modelled

* A pool's destruction; `T` constructors that use the pool they are built by; the
  allocator's request that is larger than a node (it throws and changes nothing).
* A constructor of an element of `vec` that throws after `vec_size ++` (`vec.cc:88`, `:95`) and
  leaves an element counted that was not constructed; the implicit copy of a `linked_list`, which
  shares the sentinel with the original.
* Pointers over one raw pointer twice (`shared_ptr.cc`), which the tests avoid.
* Calls that throw before they change anything (a full window, no connection).
* A `new` that finds no memory: strings are made while a buffer is free.
* Memory orders weaker than sequential consistency: the code asks for none.
* A heap built from `MaxHeapSize` elements; a `vec` that is copied (two owners of
  one array) or grows while it is handed one of its own elements; `substr` of a part
  with a terminator (it aborts); the assignments of `ro5.cc` (they do not compile);
  a coroutine resumed after its end.
* `promise_example` and `async_example` (`future.cc`) are one library call each, `coro.cc`
  is a counter in a generator, and `rvalue.cc`, `oo.cc`, `template.cc`, `misc.cc` and
  the other files of the demonstrations listed in `PROJECT.json` show overload
  resolution, layout, templates and printing: no state that two calls share.

## 8. Plan

The concurrent components came first, then the sequential ones, their composition with
abstract specifications, and the proofs of section 5, in the order in which a mistake would
be hardest to find by a test: queue, stack, threads that sleep, protocol, counts, pools,
allocator, containers. All that is modelled of the repository is all that keeps state, and
every safety property, action property and refinement of the runs that pass is proved.

What would come next: liveness by hand-written well-founded arguments, once a prover accepts
them; and fixes of what section 6 lists, after which `OnePopper`, `LapFree` and `0 \notin Lens`
could be dropped as hypotheses.
