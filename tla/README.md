# libcc in TLA+

A verification project for libcc, a C library of containers, work queues,
memory accounting, JSON, random numbers and mathematics. It holds TLA+ modules
that model the library's work queues, lists with their shared pool, hash map
and multimap, memory accounting, and JSON writer and reader, configurations that check them with
TLC on small instances, and proofs that TLAPS checks for every instance.

    tlc -workers 2 -config MCWorkQ_main.cfg MCWorkQ    # a run
    tlapm WorkQProofs.tla                              # the proofs

PROJECT.json lists the components, the runs, the mutants that show that each
checked property depends on the code, the source lines behind each definition,
the findings, the hazards of the code and the theorems.

## Inventory

| component | source | state | operations | hard behaviour | what makes it correct |
|---|---|---|---|---|---|
| workq | `cc_workq.c` | three queues of nodes, a map from task to node, `purge_id`, `state`, two condition variables, a mutex, threads | new, delete, reset, purge, flush, finish, run, wait, cancel, status, pending | interleaving of clients and workers; nodes held across unlocks; accesses without the mutex; one-bit epochs; broadcasts | queues, map and status agree; a task is run by one worker and given back once; nobody sleeps through its event; priority order |
| jobq | `cc_jobq.c` | two queues of iterators, `state` with a pause, two condition variables, a mutex, threads | new, delete, pause, resume, finish, run, pending | as workq, and pauses; delete that unlocks between finishing and stopping | each accepted job is run once; a paused queue begins nothing; no lost wakeup |
| list | `cc_list.c` | doubly linked iterators, a free list per list, a global pool of blocks with a reference count and a mutex | insert, append, remove, replace, move, swap, appendList, find, sorted insert, discard, delete | the pool is shared by all threads and frees all its blocks when the last list gives its iterators back | links and size describe a sequence; no iterator is in two places; no block is freed while an iterator of it is in use |
| map | `cc_map.c` | a list of nodes sorted by hash, length and key; an array of bucket heads | add, find, remove, grow, discard | growth in place with iterators held; removal that advances the iterator; failed allocations | a key is in the map at most once and is found; a bucket points to its first node |
| multimap | `cc_multimap.c` | a map from a key to a list of values | add, find, remove, iterate | an iterator over two levels; the last value of a key removes the key | iteration visits every value once; no empty list stays |
| memory | `cc_memory.c` | counters under a mutex; in debug builds maps from addresses to allocations | malloc, calloc, realloc, memalign, free, check, info | allocations by the tracker itself; addresses that are used again | counters equal the live allocations; each free finds its allocation |
| JSON stream | `jsmn/cc_jsmnStream.c` | a stack of open objects and arrays, a buffer, an error flag | begin, end, key, value, buffer | any order of calls; full depth; failed allocation | text is complete and nested, or the error is sticky |
| JSON wrapper | `jsmn/cc_jsmnWrapper.c` | tokens of the external parser jsmn and the tree built from them | new, delete, find | unwinding from any depth | every node is owned once and freed once |
| stack4f, pow2n | `math/cc_stack4f.c`, `math/cc_pow2n.c` | a list of matrices; none | push, pop; powers of two | failed allocation; width of integers | last in first out; the least power of two not below the argument |
| rectangles | `math/cc_rect12f.c` | none | intersect, union, clip, normalise | degenerate and touching rectangles | the result is the geometric one |
| hash, log, timestamp, random numbers | `cc_mumurhash3.c`, `cc_log.c`, `cc_timestamp.c`, `rng/` | seeds | | | |
| floating point mathematics | the rest of `math/`, `docs/` | none | vectors, matrices, quaternions, rays, planes | rounding | |

How they interact: `workq` and `jobq` keep their tasks in `list`s, and `workq`
finds them with a `map` whose keys are the task pointers. `map` is built on
`list`, `multimap` on both. All allocate through `memory`, and the debug
tracker of `memory` is itself built on `map` and `list` in a variant that
allocates directly, because the tracker runs with `memory`'s mutex held. The
list pool's mutex is taken inside the queues' mutexes, and `memory`'s inside
the pool's. The clients of a workq are called back: `run_fn` by a worker without
the mutex, `finish_fn` by a client's call with the mutex held.

## Plan

1. Done: `WorkQ`, the abstract `TaskQueue` it implements, `JobQ`; all safety
   properties of both proved, and the safety part of the refinement.
2. Done: `ListPool`, the lists as sequences and the pool with its blocks and its
   counts; its invariants proved for any sizes.
3. Done: `CCList`, the head, tail, next and prev fields and the stacks of free
   iterators, implementing `ListPool`; the links and the refinement proved.
4. Done: `HashMap` for every hash function, with growth under held iterators;
   `MultiMap` on it, which implements the abstract `MultiTable`; its invariants
   and that refinement proved.
5. Done: `Memory`, counters and tracker with the tracker's own failed
   allocations; all its properties proved, with the sums.
6. Done: `JsonStream` against a grammar of complete texts, `JsonTree`, and
   `Json`, which writes with the one and reads with the other.
7. Given up: powers of two and rectangles. They are formulas without state; a
   unit test reaches all that a model of them could say.
8. Done: the proofs that a stream writes JSON, that a tree is owned, and that
   what was written is what is read.

## The modules

| module | what it is |
|---|---|
| `CCSeq` | two operators on sequences: what a walk with removals leaves of a list, and a move |
| `TaskQueue` | the abstract specification of a workq: a line of tasks, workers, results |
| `WorkQ` | cc_workq, with its properties and mutants |
| `JobQ` | cc_jobq, with its properties and mutants |
| `ListPool` | the iterators of cc_list: lists as sequences, the global pool |
| `CCList` | the pointers of cc_list, which implement `ListPool` |
| `HashMap` | cc_map: what each function makes of the nodes and the buckets |
| `MultiTable` | the abstract specification of a multimap: a table from keys to values |
| `MultiMap` | cc_multimap on `HashMap`, its iterator and its allocations |
| `Memory` | cc_memory of a debug build: heap, counters, tracker, threads |
| `JsonStream` | cc_jsmnStream and the grammar its texts follow |
| `JsonTree` | cc_jsmnWrapper: the functions that build a tree, and what they free |
| `Json` | both, with jsmn between them, and the tree that the calls of a stream mean |
| `MCWorkQ`, `MCJobQ`, `MCListPool`, `MCCCList`, `MCMultiMap`, `MCMemory`, `MCJson` | instances for TLC |
| `CCSeqLemmas` | proved facts on the sequence operators, and on recursion up to a bound |
| `WorkQProofs`, `JobQProofs`, `ListPoolProofs`, `CCListProofs`, `MemoryProofs`, `MultiMapProofs`, `JsonProofs` | the inductive invariants of the module of that name, and the theorems |

Definitions named `Mutant...` are mistakes the code does not make. They stand
before the definition they would replace, no action uses them, and a run with
one in place must find the property violated.

### State and actions of WorkQ

A section of the code that holds `self->mutex`, from its lock or its return
from `pthread_cond_wait` to its unlock or its next `pthread_cond_wait`, is one
action: nothing another thread does can come between. `pc` says where each
thread is between its actions. So `cc_workq_thread` has three: `WorkerStart`
(lock, take a thread id, loop), `WorkerWake` (back from the wait, loop) and
`WorkerDone` (`run_fn` has returned; file the task, broadcast, and go straight
on with the loop, as the code does without unlocking). `LoopTop` is the part
they share, and the time between `Begin` and `WorkerDone` is the run of the
task without the mutex.

Three places touch shared state without the mutex, and are steps of their own:
the writes of `purge_id` in reset (`ResetBegin`, `ResetRestore`) and delete
(`DeleteJoin`), and the read of `node->status` after the unlock in the
non-blocking wait and cancel (`ReadStatus`). Each is a single aligned word; the
model takes a racing access to see the value before or after the other.

A condition variable is the set of threads asleep on it. A broadcast empties
the set; a woken thread acts when it gets the mutex. `Spurious` is the return
without a broadcast that POSIX allows.

A node and the list iterator that points to it have one life, from `run` to
`removeLocked`, and are one identity of the finite set `Node`. A freed node may
be allocated again; a client that comes back from a sleep with a node that is
not its task's any more goes to `"undefined"`, where nothing is assumed of it and
from which it does not return. That case is real: see the findings.

The queues: `queue_pending` is a sequence, as its order matters.
`queue_active` and `queue_complete` are sets: the code walks them from end to
end and looks at their sizes, and their order shows only in the order of
`finish_fn` calls. `map_task` is the map. Failed allocations in `run` are undone
within the critical section and leave the state as it was; a `pthread_create`
that fails in `new` is the case `created # Worker` of `New`.

Two ghosts record what the clients know: `lent` has the tasks submitted and not
given back, as far as return values and `finish_fn` calls have told; `fresh` has
the tasks passed to `run` since the last purge.

Who calls what is a parameter: `Calls[p]`, `Tasks[p]` and `Priorities[t]`. The
module assumes what the header says and the code needs: the calls that end in
`finish_fn` are made by the main thread (`cc_workq.h:47`), a `run_fn` calls at
most `run`, nobody is inside a call when the main thread deletes. A `finish_fn`
must not call the workq, since its mutex is not re-entrant (`cc_workq.c:205`).
Five more restrictions are not assumed by the model but by some theorems and
runs, because what these say is not so without them (see Limits of the code):
`ResetsAlone`, nobody submits tasks while the main thread resets; `NeverPolls`,
nobody uses the non-blocking wait and cancel; `OnePriority`, a task is always
submitted with one priority; `KeepsAwaited`, what a client waits for is cancelled
by no other, and main neither purges nor resets while others wait; and
`FinishesAlone`, nobody cancels while the main thread finishes.

### JobQ

The same scheme, with `state = "PAUSED"` added. A job is the iterator that `run`
allocates, since one task may be queued several times. `delete` is a finish, an
unlock, and then a stop under a new lock: `"delete_stop"` is the gap between.
The ghost `owed` has the jobs accepted and not yet run to their end.

### ListPool and CCList

A list is used by one thread at a time, and `cc_listPool_get` and
`cc_listPool_put` hold the pool's mutex for all they do to it, so a call on a
list is one action whichever thread makes it; a call takes at most one section
of the pool's mutex. In `ListPool` a list is the sequence of its iterators, and
free iterators are sets: the ones a list keeps to itself (`spare`) and the
pool's (`free`). `Get` hands out any set of the right size, `Put` frees all
blocks when the reference count reaches zero. Where an iterator is inserted,
moved or swapped to is any position. A block that cannot be allocated makes the
call fail and change nothing.

`CCList` has the fields of the C structures and a function for each of
`cc_listIter_add`, `_remove` and `_move`, from all links to all links; the calls
are built from them as in the code. The stacks of free iterators are sequences,
as the `next` field that links them is not in use otherwise. `Linked` is what a
walk from the head finds, and `CCList!Sequences` maps it to `ListPool`'s `seq`.

The calls on two lists take two different ones: a list appended to itself would
lose its head and tail (`cc_list.c:848`), a list swapped with itself moves
(`cc_list.c:781`).

### HashMap and MultiMap

A `cc_map` is a value here: hash function, capacity, the sorted list of nodes as
a sequence, and the array of bucket heads. A map has one node per key, so the
key stands for the node and for an iterator to it, which is how iterators that
are held over a growth or a removal stay meaningful. Keys are numbered in the
order `cc_mapNode_cmp` gives keys of one hash. `WalkEnd` is the walk through a
bucket, `AddPlace` where a node goes, `Rebuilt` the loop of `grow` from the last
bucket to the first over the array it reads, `Removed` the repair of a head. An
array that cannot be had is `had = FALSE`: the add succeeds with longer buckets.

`MultiMap` makes one action of each call of a multimap, since a multimap is used
by one thread at a time. A value stands for the item of the list it is in.
`heap` is what is allocated, an allocation a kind with its key and value, and
`NewFails` and `AddFails` fail each allocation in turn and pass the labels the
code passes. `cursor` is the client's iterator; the client removes through it
and adds beside it. The ghost `due` has the pairs that a walk still has to
visit: those there at its beginning, less those it has visited, and less those
`nextList` skips.
`MultiTable` has the tables of values alone, and `MultiMap!Table` maps `lists`
to it.

### Memory

The build modelled is that with `MEMORY_DEBUG`, which has all the state. Each
call is a chain of actions, and an action is one call of the C library's
allocator or one section of `memory_mutex`: `MallocBlock`, `MallocCount`,
`MemoryAdd`; `ReallocRem`, `ReallocBlock`, `ReallocCount`, `MemoryAdd`;
`ReallocFails`, `ReallocRestore`; `FreeRem`, `FreeCount`, `FreeBlock`. What a
thread has in hand between two of them is in `call`. An address that `free` or
`realloc` gives up may be given to another thread at once. The tracker allocates
its maps' entries itself; `MeminfoAdd` has the three things that can come of it
when it has no memory. The ghost `held` has the addresses that clients have,
`missed` those of them the tracker does not answer for: it had no memory for
them, or their `realloc` failed. In the second case the tracker has the size
that was asked for and not the size of the block (`cc_memory.c:503`).

### JsonStream, JsonTree and Json

A text is a sequence of marks: brackets, commas, colons, and one mark each for
any name, string and primitive. `state` is the array of states, one for each
level; `Val`, `StreamKey`, `End` and `Buffer` are the calls, and every write may
fail for want of memory. A call that returns 0 leaves what it wrote: nothing is
given out after it. The ghost `asked` has the marks of the calls that returned
1, `refused` says that some call returned 0. `Parsed` is JSON, mark by mark,
written without a look at the stream: what is open and what may come next.

In `JsonTree` the recursive functions of the wrapper are frames of a stack, and
the code of one of them between two calls is an action. An allocation is a kind
and the path of its value in the tree, so that a free of a subtree is a prefix.
The first disjunct of each Enter action is the function that returns NULL
having freed what it allocated; `Undone` and `Unlisted` are what the unwinding of
a container frees.

`Json` puts them together. jsmn is external: `Tokens` is what it makes of a text
the stream gives out, with the number of children that it documents and that
`cc_jsmnWrapper.c` relies on: `Scan` adds the token of a mark and counts it in the
bracket that is open. `Foreign` are tokens of other texts, with names that are no
strings or have no value, and the text that jsmn refuses. `TreeOf` is what the
calls of a stream mean, call by call (`Grow`): where the next value goes and which
parts the values so far have. It knows nothing of tokens, counts or frames;
`RoundTrip` says that the heap of the reader is that and nothing else.

## The runs

| run | instance | states | shows |
|---|---|---|---|
| `workq_main` | 1 client with every blocking call, 2 workers, 3 tasks, 2 priorities | 134416 | the ten safety properties below |
| `workq_shared` | 3 clients, 2 of them on the same task, tasks that submit, polling, changed priorities, no reset | 773393 | what a sleeper may rely on; epochs |
| `workq_live` | 1 client, 1 worker, 4 tasks of 2 priorities, 3 nodes, fair | 69629 | calls return, tasks are begun in turn, `TaskQueue` is implemented |
| `workq_priority`, `workq_cancel_finish`, `workq_flush_wait` | 2 tasks | 306, 859, 112 before the violation | the three findings |
| `jobq` | 2 clients with every call, 3 workers, 4 jobs, fair | 130594 | all seven properties of the jobq |
| `list_pool` | 2 lists, 2 blocks of 3 iterators, sets of 2 | 17350 | five invariants of lists and pool |
| `list_links` | 2 lists, 2 blocks of 2 iterators, sets of 2 | 615 | links agree, `ListPool` is implemented |
| `multi_map` | 4 keys, 3 values, up to 4 pairs, 3 hash functions, capacity from 1 | 136710 | buckets, finding, walks, leaks, `MultiTable` is implemented |
| `memory` | 3 threads, 3 addresses, 2 sizes, 2 sites | 33475 | counters and tracker tell the truth |
| `json` | 3 levels, texts of 12 marks, every allocation failing | 285804 | texts, unwinding, and what is written is read |

The properties of `workq_main`: `TypeOK`; `QueuesAgree` (status, queue and map
tell one story); `OneWorkerPerActive` (a node is held by one worker and lives
while it is); `SettledOnce` (a task goes back to its owner once);
`PendingSorted`; `ResetDrains` (what reset leaves);
`DeleteSettlesAll` (delete gives back every task and leaks no node);
`NoLostWakeup`; and the action properties `PurgeDropsStale` (a purge takes
exactly the tasks that were not submitted again since the last one, whatever
they did meanwhile) and `TaskQueueSafety` (each step is one of `TaskQueue`, so
that a new task goes behind its equals and none overtakes another:
`FirstComeFirstServed`, which is proved apart).
Those of `workq_shared`: `SleeperWatches` (until a broadcast wakes it, a client in
wait or cancel has the node of its task, and that is still to be waited for,
whatever others submit, wait for, flush or finish) and `NoForcedPurge`. Those of
`workq_live`: `EveryCallReturns`; `EveryTaskServed`, no task waits for ever behind
tasks of its own priority or lower, however often these are submitted;
`TaskQueueSpec`. It says no more because the code promises no more: a task of low
priority starves while tasks of higher ones keep coming. Those of the jobq:
`OneWorkerPerJob`, `NoJobLost`, `NoLostWakeup`, `PausedBeginsNothing`,
`EveryCallReturns` (also of a client whose finish another client's pause
suspends, once that is taken back), `EveryJobBegun`. Those of the lists: `OneHome` (an iterator is in one place),
`NoDangling` (none is in use after its block was freed, none is lost),
`CountsExact`, `BlocksFreed` and `LinksAgree` (a list reads the same from both
ends).

Those of the multimap: `MapStaysOK` (the nodes are in order and a bucket is
headed by the first of its own, after any growth and removal), `FindsExactly` (a
key is found if and only if it has values), `WalkExact` (a walk visits every
value that is there from its beginning to its end, and none twice, while the
client adds and removes), `NothingLeaks` and the refinement `TableSpec`. Those
of memory: `CountersExact`, `TrackerAgrees` (its two maps and the sums of
sizes) and `HeldTracked`. Those of JSON: `TextOK` (a stream without an error
holds the beginning of a text, and what it gives out is a whole one with every
mark asked for), `TreeOwned` (a failure leaves nothing, a success a tree all of
whose parts hang on it) and `RoundTrip`.

Why these bounds. Two workers are the fewest that can race for a task, hold two
active nodes and have a broadcast reach only one of them; three tasks of two
priorities give two of one priority and one of another, which the order of the
queue needs, and let one be active, one pending and one complete at once. There
are as many nodes as tasks: the map keeps one node per task, so more could not
be in use. In `workq_shared` two clients and a `run_fn` submit the same task, the
clients sleep for it together, and main flushes and finishes beside them, so that
a node could be freed under a sleeper, and is freed under one just woken. That a
task comes behind its equals matters only with three equals and a worker that is
busy: `workq_live` has three, a lower one, one worker, and fewer nodes than tasks;
it leaves purge, whose epochs multiply the states, to `workq_main`. Three workers in the jobq let two end their
jobs together while a third sleeps. Blocks of three and sets of two leave the
pool with fewer iterators than a set, so that it allocates with some left, and
takes sets across blocks; two lists suffice to pass iterators on and to be
deleted in either order. In `list_links` four iterators give lists of every
length up to four: an iterator with two neighbours, at either end, alone.
In `multi_map` one bucket grows to two and to
four, under a hash that splits a bucket between its nodes, one that gives two
keys the same hash, so that length and bytes decide, and one in which all nodes
move; a key longer than `CC_MAP_KEYLEN` is refused. Two of the three values
compare equal. Four pairs are enough for a growth that fails and is made up for
later, and for lists of three. In `memory` three threads on three addresses can
be at three different steps while an address passes from one to another. In
`json` twelve marks hold a member before and after a container two levels
down, and a level used twice; calls after a refusal are cut at four marks, as
nothing is given out any more. The other counters need no bound: `next_tid` ends
with the threads and `purge_id` has three values. `CHECK_DEADLOCK` stays on:
the systems can always go on, at the least with a new instance after a
deletion.

Fairness. A worker that can run, a client inside a call and the main thread
inside a call take their next step in the end: a mutex that is held for finite
sections is granted, and `run_fn` is taken to return. The scheduler gives no
more: nobody has to begin a call, and no spurious wakeup is relied on.
`workq_live` has one client, so that no cancel of another strands a finish. The
jobq's `EveryCallReturns` has as its premise that the queue is not paused for ever
and that submissions end: a finish looks at the pause once, before it sleeps
(`cc_jobq.c:278`), and waits for the jobs of others too.

`TaskQueue` is what a client may rely on: a task stands in line behind those of
its priority and higher, is begun when it is at the head and a worker is free,
is run once and keeps its result until it is taken back. `WorkQ!Lifecycle` maps
the node fields to its two variables, for clients that submit each task with one
priority. That each step is one of `TaskQueue`'s is checked with two workers in
`workq_main`, its liveness, that workers make progress as long as there is work, in
`workq_live`.

## Findings

- A pending task whose priority is raised is compared with its neighbours by its
  old priority (`cc_workq.c:578`) and does not pass them (`workq_priority`).
- A cancel of the last pending task wakes nobody (`cc_workq.c:737`): a finish of
  another thread sleeps on (`workq_cancel_finish`).
- A client in wait or cancel goes on, once woken, with the node it found before
  its sleep (`cc_workq.c:688`, `721`). Between the broadcast and its turn at the
  mutex the main thread may flush, finish, purge or reset, which frees that node
  (`cc_workq.c:169`), or another client may take the same task back: a freed node
  is read, and removed a second time (`workq_flush_wait`). `cc_workq.h` does not
  forbid it.

## Limits of the code

Besides the findings; no run is about these. The models state them as assumptions
on the clients or leave the case out.

- A client that waits for a pending task is not told when a cancel of another
  thread or a purge takes it: it sleeps on with a freed node (`cc_workq.c:685`,
  `737`, `393`). `SleeperWatches` holds under `KeepsAwaited`.
- The non-blocking wait and cancel read the status after the unlock
  (`cc_workq.c:681`, `726`): the caller may be told COMPLETE for a task that the
  workq keeps and gives back again. `SettledOnce` holds under `NeverPolls`.
- reset holds -1 in `purge_id` outside the mutex (`cc_workq.c:355`): a task
  submitted meanwhile fails the assertion of `cc_workq.c:48`. `NoForcedPurge`
  holds under `ResetsAlone`.
- `cc_stack4f_push` does not look at what `cc_list_insert` returns
  (`math/cc_stack4f.c:94`): if it fails, the copy is lost.
- `cc_map_findf` and `cc_map_addf`, and the multimap's forms of them, format the key
  into `CC_MAP_KEYLEN` bytes and silently cut what is longer (`cc_map.c:672`,
  `785`): two long keys become one. The model speaks of the key that reaches
  `findp` and `addp`.
- The stream writes keys and strings as they are: quotes and control characters
  in them are the client's to escape. `TextOK` is about texts whose strings are.
- A map of capacity 2^30 cannot grow: twice its capacity is no int. `Grown`
  stops at `HashRange`, where growth would have no hashes left to divide.

## What is proved

`WorkQProofs` proves, for every set of nodes, tasks, clients and workers, every
`Calls`, `Tasks` and `Priorities` that satisfy `WorkQAssumption`:

- `WorkQInvariant`: `IInv` is invariant, if `ResetsAlone`;
- from it `WorkQTypeCorrect`, `WorkQQueuesAgree`, `WorkQOneWorkerPerActive` and
  `WorkQNoForcedPurge`;
- `WorkQSettledOnce` and `WorkQDeleteSettlesAll`, if `NeverPolls` too;
- `WorkQResetDrains` and `WorkQPurgeDropsStale`, if `ResetsAlone`;
- `WorkQPendingSorted`, `WorkQFirstComeFirstServed` and the refinement
  `WorkQImplementsTaskQueue`, if `OnePriority` too;
- `WorkQSleeperWatches`, if `KeepsAwaited` too, and `WorkQNoLostWakeup`, if
  `FinishesAlone` besides;
- `WorkQNoDeadlock`, from the same and at least one worker: whatever call a
  client is inside, it may go on itself or a worker may.

None of these properties is inductive alone. That queues, map and status agree
after `WorkerDone` depends on the node in the worker's hands being on the active
queue, which depends on no call removing an active node, which depends on the
clients that come back from a sleep holding a node of the status they look at.
`IInv` has a conjunct for each: `Types`; `Queues`, the agreement; that a free
node is blank; `OneWorkerPerActive`; `Held`, what the clients hold; `Phases`,
which `pc` values go with which `state` and with which values of `purge_id`, and
that no worker runs once they are joined; `NoForcedPurge`; and `Emptied`, that
delete's purge has freed every node. The proof has a lemma per action and, under
it, a step per conjunct; the sequence facts are in `CCSeqLemmas`.
`NoForcedPurge` is where `ResetsAlone` enters: with it, no node is created
between `ResetBegin` and `ResetRestore`. TLC checks `IInv` on the instances of
`workq_main` and `workq_shared` too, and the invariants named next where their
hypotheses hold.

The other properties need more than `IInv`, and each has an invariant of its
own. `QueueSteps` says what a step can do to the queues at all: a worker's, a
submission, a call that `Returns` nodes and marks others, or nothing;
`SettleEffects` that a wait or a cancel `Holds` the node or `Takes` the task, and
`WorkerEffects` what a worker's pass does to the nodes. On these rest:

- the order, `InOrder`: every node in use has the priority of its task
  (`Priced`), so that `MovePos` leaves a pending task where it is, and the queue
  is sorted. A step keeps the order of the nodes (`KeepsOrder`) or inserts one
  behind its equals (`Joins`). Without `OnePriority` the theorem is false, as
  `workq_priority` shows;
- the epochs, `Purges`: a node has the current `purge_id` (in a reset, the one it
  saved) if and only if its task is `fresh` (`Epochs`); a reset that has purged
  has left only active nodes, all marked, and what became of them, and
  waits for those if it blocks (`Drained`); and there are no nodes before the
  workq is complete (`Unused`). With `Epochs`, one flip of a bit at each purge is
  enough for ever, as a node older than the last purge is gone or marked;
- the sleepers, `Sleepers` and `Waiters`: a client asleep in wait or cancel has
  the node that the map has for its task, and the status for which it sleeps is
  that node's; a worker sleeps only while no node is pending. A step that changes
  this is a `WorkerDone`, which wakes all clients, a submission, which
  wakes all workers, or a call of the sleeper's own. The calls of others remove
  settled nodes, and no client sleeps for one; pending ones only in a cancel, a
  purge or a reset, which `KeepsAwaited` keeps off what a client waits for. A
  cancel of the last pending task under a finish is excluded by `FinishesAlone`,
  which is what `workq_cancel_finish` shows to be needed. Of a client that was
  woken nothing is said, as `workq_flush_wait` shows;
- the staff, `Staffed`: while the queue runs every worker is in its loop, delete
  joins only workers that exist, and only main is in a call when it does not run.
  With the sleepers it gives `NoDeadlock`, for clients that are not
  `"undefined"`: the node a sleeping client waits for
  is active, in the hands of a worker, or pending, and then no worker sleeps; at
  a join no worker sleeps either. `MayGoOn` writes out the guards of the steps
  that go on with a call, as the prover has no ENABLED. That the call then
  returns needs fairness: `EveryCallReturns`, which TLC checks.

For the refinement, `Stands` and `InLine` are what `Lifecycle` makes of map and
queue. `RunNewSubmits`, `WorkerImplements` and `ReturnsImplement` show that each
step is one of `TaskQueue`'s or changes neither; `InsertAt`, `Keep` and `Tail` go
through from the nodes to their tasks because the map has each node under its
task (`KeepImage`), and a worker that begins a task has room for it among
`Capacity` because each active node has a worker of its own (`WorkerFree`; a
count of threads is an int, so `WorkQAssumption` has `Worker` finite). Proved is
`TaskQueueSafety`; the fairness is left to `workq_live`.

`JobQProofs` proves, for any jobs and clients and any finite set of workers:
`JobQInvariant`, and from it `JobQTypeCorrect`, `JobQOneWorkerPerJob`,
`JobQNoJobLost`, `JobQNoLostWakeup`, `JobQPausedBeginsNothing`,
`JobQThreadIdsDiffer` and `JobQNoDeadlock`, with no restriction on who calls
what; the last needs at least one worker, and a queue that nobody has paused
under the finish. Its invariant is
`Types`, `Ids` (thread ids differ and are below the number of workers), `Jobs`
(a job is pending once or in the hands of one worker), `Phases`, `NoJobLost` and
`NoLostWakeup`. `Phases` says which `pc` of the main thread goes with which
`state`, and that all jobs are done from the end of delete's finish on, over the
gap before its stop: what the free queues of a stopped jobq depend on. The
assumption on the workers is that of a count of threads. `JobQNoDeadlock` adds
`Staffed`, as in `WorkQProofs`: a client asleep in finish has a job ahead of it,
which a worker runs or, as none sleeps over a pending job, may begin.

`CCListProofs` proves `CCListInvariant`, `CCListLinksAgree` and the refinement
`CCListImplementsListPool`, under `CCListAssumption`. The links of a list are
a chain through a sequence of distinct iterators; what `cc_listIter_add`,
`_remove` and `_move` make of the links is the chain of the sequence with the
iterator inserted, removed or moved. `Linked`, the walk from the head, is a
recursive function, which is shown to compute the chain by an induction up to its
length. Once each call is seen to do to the sequences and the stacks what
`ListPool` says, the invariant of `ListPoolProofs` is that of the pointers too,
through the refinement.

`ListPoolProofs` proves, for any lists and blocks and any sizes of sets and
blocks with `ListPoolAssumption`: `ListPoolInvariant`, and from it
`ListPoolTypeCorrect`, `ListPoolOneHome`, `ListPoolNoDangling`,
`ListPoolCountsExact` and `ListPoolBlocksFreed`. Here the properties together
are the inductive invariant, with the finiteness of the set of blocks that
cardinalities need; `list_pool` checks them. That the counts are exact needs
that no iterator is in two places, and that none dangles needs that the blocks
are freed at a count of zero only. The invariant falls into two parts:
`Homes`, what the lists hold, which the calls change a list at a time
(`Rehome`), and `Pooled`, the pool and the set of iterators in use, which only
get and put change (`GetKeepsPool`, `PutKeepsPool`).

`MemoryProofs` proves, for any threads, sites and sizes and any finite set of
addresses: `MemoryInvariant`, and from it `MemoryHeldTracked`,
`MemoryCountersExact`, `MemoryTrackerAgrees` and `MemoryTypeOK`: all that
`memory` checks, and that no counter and no site's size goes below zero.
`HeldTracked` alone is not inductive: that `MemoryAdd` tracks an address that is
new to the tracker needs that a block in a call is no client's and no other
call's, which is `Owners`, and that the tracker knows the clients' addresses
only, which is why realloc takes an address out of it before it gives the block
up. The steps fall into those that take a block from its client (`TakenKeeps`),
give it back (`ReturnedKeeps`), move a call on (`MovesOn`), and those at the heap
and the count. The sums have an invariant of their own, `SInv`, on top of that
one: types, `SizeExact` and `SiteSums`. A sum is a fold that takes the members of
a set in the order of CHOOSE; `SumUnfolds` shows that the fold exists for every
finite set and `SumTakesAny` that any member may be taken first, both with
`InductionUpTo`, and from these come the sums of a function that has one place
more (`SumOfOneMore`) or one place changed (`SumOfOneMoved`). A block between
realloc's two steps weighs what it did before (`Weight`): no other call has it
in hand, so a step changes one block's weight at most (`WeightOfOther`), and
each of malloc, realloc and free adds to `memory_size` what it changes.

`MultiMapProofs` proves, for any keys, values and ranks, any hash functions and
any capacity that divides `HashRange` (`HashMapAssumption` says of it what makes
it a power of two): `MultiMapInvariant`, and from it `MultiMapMapStaysOK`,
`MultiMapFindsExactly`, `MultiMapNothingLeaks`, `MultiMapWalkExact` and the
refinement `MultiMapImplementsTable`: all that `multi_map` checks. The invariant
is `MapOK` with `ListsOK`, a key is in the map if and only if its list has
values; `CursorOK`, the iterator is at such a key and at a value of its list,
without which a removal could take a node that is not there; and `ClosedOK`.
The first half of the module is about the map. By the order of the nodes, the
slots do not decrease along the list (`SlotMonotone`), so each bucket is a
stretch of it (`BucketsByPlace`); the walk of find ends at the place where the
key is or belongs (`WalkEndSplits`), and so does a search from the next bucket
in use (`AddPlaceSplits`); `InsertedOK` and `RemovedOK` follow. For the growth
(`GrownOK`), the loop over the old buckets has the invariant that those it has
not come to are as they were and those it has made are heads in the doubled
table (`RebuiltFacts`), which holds because it goes from the last to the first.
The loops are recursive functions; `RecursionUpTo` shows that they exist. For
the walks, a pair is ahead of the iterator if the iterator's key is `Before` its
key, or its value comes later in the same list (`AheadIs`), an order that no
call changes, since none changes a hash; so adds and growth beside a walk leave
what is due ahead of it, and each step of the walk takes the first of it
(`AlongList`, `ToNextKey`).

`JsonProofs` proves, for any depth and any bounds, `JsonStreamInvariant` and from
it `JsonTextOK`. The stream keeps no record of what it has written but its states,
so the invariant says what these have to be for the text to be JSON: unless a
call has failed, every level below the current one is an open object or array
that has a child and no name waiting (`Below`), the current one is as its own
calls leave it (`Current`), and the grammar, run over the text, has the same
brackets open and wants what the state `Says`. There is a lemma for each way a
call returns 1: a value at the root (`RootStep`), a value in a container
(`ScalarStep`), a container in a container (`NestStep`), a name (`KeyStep`), an
end (`EndStep`). An end pops a level, and the level below says `"more"` whatever
it was when the value began, since `Val` gave it its child before. What a failed
call leaves in text and states is bound by nothing, and need not be: the error
stays. `ParsedUnfolds` shows that the recursive function in `Parsed` exists.

For the reader it proves `JsonTreeInvariant` and from it `JsonTreeOwned`, for any
tokens, of texts or not. The frames are a chain of calls from the root
(`Chained`), and every allocation has one place among them (`Located`): a
function answers for its own and for the children in its list (`Mine`), and what
was just returned is what the top frame got (`Got`). So a function that fails
frees all that it has, and if it fails for want of an append, what it got too
(`FreedMine`, `FreedGot`), and what its caller answers for is left
(`ReturnedNull`). Unless NULL was returned, each allocation hangs on another or is
the child that a frame is to put in its list (`Rooted`, `Coming`); after NULL
nothing is said of that, since every caller then frees what it has and returns
NULL as well. There is a lemma for each way the frames move: a return with what the function has (`ReturnedOk`),
a call (`Called`), a step within a function (`Stayed`); and a lemma per action,
which says what is new and what holds it.

The third invariant, `RoundInv`, is about writer and reader together, and from it
follows `JsonRoundTrip`, for any calls and any depth. While a text of the stream
is read, the reader is at a place in the marks of the calls that wrote it, after
the first n of them (`Follows`): `pos` is behind the tokens of these n; the frames
of objects and arrays hold the brackets open there, each with the number of
children that the finished tokens have for it, not those seen so far (`Holds`);
and the heap is the tree of the n marks, but for what the functions of the moment
have allocated or have not put in a list yet (`Ahead` a call, `Behind` a return).
The argument has three parts. First the marks alone: `TextOK`'s grammar and jsmn's
scan have the same brackets open after each of them (`Fits`, `ParsedFits`), the
next place in the tree counts the children of each open bracket (`Matches`), and
a token that is made keeps its type, its count being final once its bracket is
closed (`Persists`). So the finished tokens tell, at each place, whether the
innermost bracket ends here (`InmostFacts`), which is the question that
`ContainerLoop` asks by `done` and `size`. Then the frames: the paths of the
containers on the stack grow, so that the one that ends is the one whose bracket
closes, and the brackets of the others stay open (`SteadyCloses`). Last the steps:
there is a lemma per action, which names the mark it takes, if it takes one, and
shows that the parts it allocates are those that the mark adds.
`ScannedUnfolds` and `GrownUnfolds` show that the recursive functions exist.

Only model-checked: all that depends on fairness, `EveryCallReturns`,
`EveryTaskServed`, `EveryJobBegun` and the progress in `TaskQueueSpec` (the prover
has neither ENABLED nor liveness under fairness). The library's induction
theorems take operator parameters, which the provers cannot instantiate; what
the recursive functions in `Keep`, `Parsed`, `Scanned` and `Grown` compute is
proved with a least element of a set of numbers instead (`InductionUpTo`). Every
invariant and action property of the runs is a theorem.

## What is not modelled

Of the lists, the data of the iterators, with replace and the searches, and the
lists of `cc_list_newCMalloc`, which calloc each iterator and touch no pool; the
place of a sorted insertion is in `MultiMap`. Of the maps, `sizeof`; of memory,
`memcheckptr` and the reports, which change nothing, and the build without
`MEMORY_DEBUG`, which has the counters alone; of JSON, the formatting of
numbers, the cut of long strings, printing and files. The matrix stack, powers
of two and rectangles have no state worth the name and are for unit tests. Hash,
log, timestamp, random numbers and floating point mathematics are not modelled:
the first matters to no property (the map is modelled for every hash function),
the next are input and output, and the last are about statistics and rounding.
Left out of the queues: thread priorities
(`setpriority` changes no order the model fixes), `ASSERT` (compiled out unless
`ASSERT_DEBUG`), log messages, and the contents of tasks.
