# Verification of nuaf

nuaf replaces `malloc` and `free` so that a use of freed memory raises SIGSEGV:
every small object gets a virtual page of its own, every large object a range of
pages of its own, and no page is ever used for a second object. This directory
holds TLA+ models of the allocator (`allocator.c`, `freelist.c`, `freelist.h`), of
the malloc family in front of it (`wrapper.h`), of the life of a process that uses
it, and of the benchmark programs that come with it; TLC runs on small instances;
and TLAPS proofs of the properties that matter most, for every value of the
parameters.

## The system

| Component | State | Operations | Interacts with |
|---|---|---|---|
| Size classes, backing file (`freelist.h`, `freelist.c`) | `g_flsts[b].high_canonical_addr` | choose a class, bump to the next slot | called under `g_m` |
| Small objects (`freelist.c`, `allocator.c`) | `g_flsts[b].top_of_stack`, the next pointers inside freed objects, `high_vaddr`, `g_m` | `freelist_pop`, `freelist_push`, `xxmalloc`, `xxfree` | kernel (`mmap`, `mremap`); the program, which wrote the words the links later live in |
| Large objects (`allocator.c`) | `large_obj_next_page`, `g_big_obj_m`, the header on the first page | `xxmalloc_big`, the `munmap` branch of `xxfree` | kernel; the search for headers |
| Interior pointers (`allocator.c`) | none: reads page metadata with no lock | `xxmalloc_usable_size`, `get_obj_start` | races with every step that maps, moves or unmaps |
| Heap locks (`allocator.c`) | both mutexes | `xxmalloc_lock`, `xxmalloc_unlock` | no caller in the repository |
| Process life cycle (`allocator.c`) | `data_fd`, `par_ps`, the SIGSEGV handler | `init_mem` (from the constructor and from every call that sees `data_fd == 0`), `destroy_mem`, `sigsegv_handler` | the loader, `fork`, calls before the constructor and after the destructor |
| malloc API (`wrapper.h`, `gnuwrapper.cpp`) | none | `calloc`, `realloc`, `memalign`, `aligned_alloc`, `strdup`, `getcwd`, ... | `xxmalloc`, `xxfree`, `xxmalloc_usable_size` |
| Benchmark programs (`CMA_benchmarks`) | per program: blocks, loop counters; a barrier (`ptbarrier.h`); `stopflag`, `finished` of larson | threads that allocate, hand over, resize and free blocks | the malloc API; one another through the barrier, joins and polled flags |
| Timers, processor counts, tests, scripts | | | |
| Mapping counter | `num_mappings` | incremented and decremented without a common lock | an error message |

What makes each of them correct:

* slots of the file never overlap, never reach into page metadata or past a page;
  a class holds every request it serves;
* the lists threaded through freed objects stay lists, whatever the program had
  stored there and however calls interleave;
* no page is handed out twice, and the pages of a freed object are unmapped from
  the moment `free` returns;
* from every byte of a live object its start and size are found, without a lock;
* a free of a freed object does not go unnoticed;
* every call returns, or the process ends;
* what the API returns holds the size asked for, is aligned as asked, and the
  functions that make a second object lose neither;
* the heap is initialised once per process, before anything is given out, and goes
  on in a forked child where the parent left it;
* the benchmarks use the heap as a correct program does, and end.

What is hard about it: two mutexes and code outside both; reads of page metadata
before the mutex is taken; a header written after it has been released; retries
of `mremap` that change memory even when they fail; errors reported from inside
critical sections through library functions that may allocate; an initialisation
that a thread may enter before, during or instead of the constructor; a child that
inherits mutexes; threads that replace one another while main watches flags
without a lock. `PROJECT.json`
lists these hazards line by line with the properties that address them.

## Modules

| Module | Models | Used by |
|---|---|---|
| `Layout` | address arithmetic: classes, slots, page counts, interior pointers | all models of the heap |
| `Requests` | how requests of one size are served, and the slots its class gets in the file | `RequestsProofs` |
| `Nuaf` | the allocator, its threads, the program and the memory of the process | `NuafRefinement`, `NuafProofs` |
| `SafeHeap` | the promise to the program, abstractly: objects that never share addresses | `NuafRefinement` |
| `NuafRefinement` | the refinement mapping from `Nuaf` to `SafeHeap` | `MCNuaf`, `HeapProofs` |
| `MCNuaf` | `Nuaf` for TLC: the symmetry of its threads | |
| `Wrapper` | the malloc family over the objects of `xxmalloc` | `WrapperProofs` |
| `Process` | `init_mem`, lazy initialisation, `fork` and `destroy_mem` around the heap | `ProcessProofs` |
| `Barrier` | what a barrier promises, abstractly | `PtBarrier` |
| `PtBarrier` | the barrier of `ptbarrier.h` | `ForkJoin` |
| `ForkJoin` | the five benchmarks whose main creates threads and joins them | `Larson` |
| `Larson` | the sixth, larson; composes it with the others into one specification | `BenchmarkProofs` |

Theorems and proofs are in modules of their own:

| Module | Proves | Uses |
|---|---|---|
| `LayoutProofs` | lemmas about `Layout` | `Layout` |
| `RequestsProofs` | all properties of `Requests` | `LayoutProofs` |
| `NuafProofs` | the inductive invariant of the heap; freed pages stay unmapped, objects never share pages | `LayoutProofs` |
| `HeapProofs` | what the program that uses the heap may rely on; that `Nuaf` implements `SafeHeap` | `NuafProofs`, `NuafRefinement` |
| `FreelistProofs` | types, page reuse and the slots of the file also when system calls fail; the lists threaded through freed objects | `HeapProofs` |
| `WrapperProofs` | the safety of the malloc API | `LayoutProofs` |
| `ProcessProofs` | the inductive invariant of the process and its theorems | |
| `BenchmarkProofs` | the barrier, and the safety of the six benchmark programs | |

### How `Nuaf` corresponds to the code

`mem` is the virtual memory: for each page `UNMAPPED`, or the first word of the
page (`head`: the block type of a small-object page, the magic word of a large
object, or what the program stored), its second word (`np`), the first word of
the small object on it (`link`), and the slot of the file it was mapped from.
Pages are numbers; the watermarks are page numbers, since the code only adds
multiples of `PAGE_SIZE` to them. The other variables have the names of the C
globals; `pc` and `loc` are where each thread is and the locals of its call;
`live` and `freed` are the objects the program holds and those whose free has
returned; an object whose free is in progress is in `loc` (`Dying`).

One step is the code between two accesses to state that another thread may
change. Code under a mutex is one step where everything it touches is guarded by
that mutex:

| Action | Code |
|---|---|
| `xxmalloc`, `LockSmall`, `PopFresh`, `PopTop`, `PopFails` | `xxmalloc` with `freelist_pop` |
| `LockBig`, `MmapBig`, `MmapBigFails`, `WriteHeader` | `xxmalloc_big`; the header is a step of its own, after the unlock |
| `xxfree`, `FreeAgain` (via `ReadSize`) | `xxfree` up to the size, read without a lock |
| `get_obj_start` | the second unlocked search, for large objects |
| `Munmap` | the large branch |
| `MremapAndPush`, `MremapFails`, `MremapGivesUp` | the retry loop, one step per attempt, with `freelist_push` |
| `xxmalloc_lock`, `LockAllSmall`, `LockAllBig`, `xxmalloc_unlock` | the heap locks |
| `Store` | the program writes into an object |

The kernel is modelled by what the code relies on. `mremap` with `MREMAP_FIXED`
unmaps its target and the pages of the old range past the new length before it
looks at the first page, also when it then fails: `MremapCleared`. `munmap` of
unmapped pages succeeds. A load or store on an unmapped page ends the process
(the SIGSEGV handler exits). The program never stores past the end of an object;
of a store only its effect on the words the allocator reads is kept: the first word of a
small object, and the first two words of a later page of a large one, where the search
for a header looks.

With `PERROR_ALLOCATES` a `perror` under a mutex waits for the mutex its own thread
holds (`Reenters`): in `PopFails` and `MremapFails` for `g_m`, in `MmapBigFails` for
`g_big_obj_m`. The one in `MremapGivesUp` does not, for the `fprintf` before it
(`allocator.c:243`) has used `stderr`, and a `perror` opens no stream then.

`CeilLog2` stands for `(int) ceil(log2(n))`; floating-point `log2` is exact at
powers of two and monotone, so the result is the integer logarithm.

### How `Wrapper` corresponds to the code

The functions of `wrapper.h` keep no state, and two threads' calls meet only
inside `xxmalloc` and `xxfree`, which `Nuaf` treats; so a call is one step. Each
function is an operator that takes the heap and its arguments and gives the set
of possible outcomes, in the order of the code: `memalign` makes an object, frees
it and makes a padded one. The heap keeps what the API can tell apart: where
each object begins, the size it was made for, the two watermarks. A small object may
begin at any slot of its class. `malloc` refuses sizes with the top bit set; `xxmalloc`
itself never returns NULL, since the process ends when no page is left, and such
calls have no outcome in the model. Of a string `strdup` and `strndup` copy only the
length is kept. `malloc_good_size` makes an object, asks for its size and frees it. What the caller of
`pvalloc` asked for is the size before it is rounded up to `VALLOC_ALIGNMENT`.

### How `Process` corresponds to the code

`Process` is `Nuaf` seen from outside: an object is its page, the file and the slot
it was mapped from, the freelists are one set, the classes one. What it adds is
everything before, after and around: `Constructor`, `CheckProcess`, `Reset`,
`MakeDataFile` and `FreelistInit` are `init_mem` from the test of `par_ps` on, one
step for each piece of state another thread or a fork may see half done; `Enter` is the
test `data_fd == 0` at the head of `xxmalloc`, `xxmalloc_big` and `xxfree`; `Lock`,
`PopFresh`, `PopFree`, `MmapBig`, `Push` and `MunmapBig` are the calls; `Fork` keeps
the memory, the mutexes and the one thread that forks; `destroy_mem` closes `data_fd`
and `Ends` is the exit. `fds` is the table of descriptors: `mkstemp` takes the lowest
one that is free, which is 0 when the process has no standard input. All mappings are
private and descriptors belong to a process, so parent and child no longer meet after
a fork: one of the two is followed. The process ends with 2 when the SIGSEGV handler
cannot be installed (`allocator.c:81-84`) and with 1 when there is no data file; no thread
sees anything between the two, so both are outcomes of `MakeDataFile`.

### How `Barrier` to `Larson` correspond to the code

A block of memory is named by who makes it and what it is, and `live` is the set of
blocks that are allocated. Every step of a benchmark says which blocks it uses, makes
and frees (`Heap`); a block that is used or freed while it is not allocated, or made
again while it is, ends the behaviour with `misuse`. A step is the code between two
accesses to what other threads see. Random choices (sizes, victims, which objects phong
resizes) are any choice. `PtBarrier` is `pthread_barrier_wait` in two steps, cut at
`pthread_cond_wait`. In `Larson` a relay is the chain of threads that succeed one
another on one array; the steps follow `exercise_heap` from its first test of `stopflag`
to the creation of the successor, and `runthreads` with its polling of `finished`. `_beginthread` ignores a failed
`pthread_create` (`larson.cpp:88`): `BeginThread` may leave the relay without a first
thread, and main then waits for ever, or without a successor, which nobody notices.
The blocks of larson are in `blkp`, one for each cell, and stay allocated at its exit; those
of the others are in `live`, and `Leaked` names which of them stay.

## Runs

| Run | Shows |
|---|---|
| `nuaf_safety` | a correct program (sizes 1, 3, 9): types, freed pages unmapped, interior pointers resolve, no SIGSEGV, freelists sound, slots disjoint, pages never reused |
| `nuaf_misuse` | the same heap under double frees (also concurrent) and stores through stale pointers; interior pointers of live objects resolve next to other large objects; `Nuaf` implements `SafeHeap`; of the calls that free a small object at most one returns; every call completes or the process ends, so a second free of a small object ends it |
| `nuaf_faults` | with `mmap`, `mremap` and `munmap` all failing at will, `perror` allocating and `UserWords` stored where the allocator later reads: addresses and file slots are still never given out twice |
| `requests` | with the real constants, every size up to 16500 (four pages and a bit): the class is the smallest that holds it; large objects hold their size and are unmapped exactly; all slots of all classes over 24 file pages (three rounds of each class) lie in their page, follow one another without overlap, and every byte leads back to its slot |
| `wrapper` | any calls of the API, two objects held: returned memory holds the size asked for (also with products and sums that overflow), is aligned; no object lost; `realloc` and `strdup` copy mapped memory only |
| `process` | from the start of a process with calls before its constructor to its exit, or a fork and on in the child: no page and no slot is given out twice; every slot comes from the data file; calls complete but in a child that has inherited a locked mutex |
| `benchmarks` | the six benchmark programs, also when threads cannot be created: each block is used and freed only while it is allocated, what is left at the exit is what the program is known to leave, phong never resizes past its bounds or to 0, the barrier implements `Barrier`, each program ends unless main waits for a thread that was never created |

Five runs show where the program differs from what its documents, comments or
tests say; the findings in `PROJECT.json` quote the lines:

| Run | Shows |
|---|---|
| `nuaf_double_free` | two concurrent frees of one large object both return |
| `nuaf_perror` | if `perror` allocates, a refused second free hangs on `g_m` |
| `wrapper_aligned` | of a pointer that `memalign` returned `malloc_usable_size` tells the size of the whole object, more than follows the pointer; `realloc` goes by the same number and may give the pointer back with too few bytes after it |
| `process_fork` | a child forked while another thread holds a mutex of the heap hangs in its first call that needs it |
| `process_stdin` | in a process without a standard input `data_fd` is 0: its forked child resets the watermarks under live objects |

`SecondFreeTerminates`, which `nuaf_perror` refutes for a `perror` that allocates,
holds otherwise: it follows from `CallsComplete` and `SmallDoubleFreeCaught` of
`nuaf_misuse`.

### Bounds

* `Nuaf`: pages of 8 bytes with 1 byte of metadata, classes of 1, 2 and 4 bytes, a
  1-byte header: three classes, slots that do and do not fit in the rest of a page,
  large objects of two pages, requests at both sides of `LARGEST_BLOCK_SIZE`. Two
  threads suffice for the races listed: each is between two calls. Three or four small
  pages allow for allocation, free, reuse of the slot through the freelist, and (with
  four, in `nuaf_safety`) lists of two; the four large pages of `nuaf_misuse` hold two
  objects side by side, whose headers and pages the unlocked searches could confuse.
  `SMALL_CAP` bounds the small pages; it is `LARGE_OBJ_VADDR_START`, so that the two areas
  do not meet (the code never checks that they do not; the real distance is 2^28 pages).
  `VADDR_END` is the address space, a real limit at which `mmap` and `mremap` fail.
  `MAX_TRIES` is 100 in the code and 4 here: the loop does the same thing each time.
* `Requests`: the constants of `freelist.h`; `MAX_SIZE` is past four pages, and
  `FILE_PAGES` gives each class three pages.
* `Wrapper`: 10-bit sizes, pages of 32 bytes, classes of 4, 8 and 16 bytes; alignments
  below and above the page size, one that is no power of two, 0 and `sizeof(double)`;
  sizes 0, one in each class, a large one and one with the top bit set. `MAX_HELD` is 2:
  `realloc` and `memalign` have two objects at a time. The areas have three small pages and
  seventeen large ones, room for the padded objects of the largest alignment.
* `Process`: two threads, three pages for each area: two objects and a free in between
  before or after the fork. `Fds` are three descriptors, of which 0 may be open; one is
  used per data file, and a process makes at most two.
* `ForkJoin`, `Larson`: two threads, two rounds, three objects (phong: one of warmup, so
  that it frees and resizes what it has resized before); larson with one array and then
  with two, two cells each, and threads that are succeeded after two or more replacements.
  Phong's largest size is 2 or more: with 1 its `realloc` asks for half of 1 (see Proofs).

Threads of `Nuaf` are symmetric in the runs without liveness. Deadlock is not checked
because the program may stop calling and the process may end; that no thread
waits for ever is what `CallsComplete` and `Completes` say.

### Faults and schedules the runs assume away

Each is a constant of the model, and each is a hazard in `PROJECT.json`; the properties
named fail with the other value.

* `MUNMAP_MAY_FAIL` (`FALSE` but in `nuaf_faults`): when `munmap` fails, a freed large object stays
  accessible, and `StaleUnmapped` fails.
* `MREMAP_MAY_FAIL` (`FALSE` but in `nuaf_faults`): when `mremap` fails for want of resources, its
  retries with a longer old range unmap live neighbours, and `NoFalsePositive` fails.
* `UserWords`: when the program stores the magic word at the start of a page of a large
  object, `InteriorResolves` fails.
* `EarlyThreads = {MainThread}`: with two threads that call before the constructor has run,
  `OwnSlots` fails. `EARLY_FORK = FALSE`: a fork that early makes it fail as well.
* `SLEEP_OUTLASTS_START`: larson's main sleeps long enough for its threads to begin;
  otherwise a thread that has not begun when `stopflag` is set never says that it has finished,
  and `Completes` fails. `GRACE_OUTLASTS_THREADS`: its five seconds outlast the threads that
  are still about to exit; otherwise two threads may work on one array, and `HeapUsedCorrectly`
  fails. That they never do is thus assumed and not a property.
* `ALIGNED_ARE_RESIZED = FALSE`: pointers of `memalign` are not passed to `realloc`; see
  `wrapper_aligned`.

### Fairness

* `nuaf_misuse`: each thread's steps within a call are weakly fair, that is, a thread
  that can go on is scheduled. Nothing is assumed of the order in which a mutex is
  handed over: a thread that waits for a mutex is only promised progress when the
  mutex is free from some point on, which holds because the other threads' calls
  use up the bounded pages. Calls of `xxmalloc_lock` use up nothing, so
  `CallsComplete` speaks of executions in which they stop. The program need not make calls.
* `process`: the steps of a thread within a call are weakly fair, and taking a mutex is
  strongly fair: two threads that wait for one take turns, which the kernel's futex queues
  give in practice though POSIX does not promise it.
* `benchmarks`: main and every thread are scheduled (weak fairness). Threads never wait
  for one another but at the barrier, in joins and in larson's polling loop.

## Proofs

Every invariant and action property of the passing runs, and both refinements, are
theorems, for every value of the constants that satisfies the assumptions named in the
modules and the hypotheses given here. What is left to TLC is said at the end.

### The arithmetic (`LayoutProofs`, `RequestsProofs`)

`LayoutAssumption` says what `freelist.h` makes its constants: `PAGE_SIZE` is
2^(`MAGIC_NUMBER` + `NUM_BLOCK_TYPES`), so classes are powers of two up to half a page;
the header of a large object fits in a page. The provers know nothing of `^`, so
`PowerAssumption` (and `WidthAssumption` of `Wrapper`) state its recursion, which TLC
evaluates for the constants of every run. Induction over such powers is not available as
a rule with an operator parameter; `NatMin` (a set of naturals has a least element) takes its
place: the least counterexample is contradicted. From these: each class divides a page and
fits beside the metadata, the class `BlockType` chooses is the least that holds the request, a
slot is followed by a slot, an object's start is found from each of its bytes, and the length
to unmap is the length mapped. `RequestsProofs` states them as the five properties of the run
`requests`, with the invariant that the walk over the file is always at a slot of its class.

### The heap (`NuafProofs`, `HeapProofs`, `FreelistProofs`)

All of it for any set of threads, sizes, page numbers and classes, with and without misuse by
the program and with `mmap` failing. There are two hypotheses about the environment:

* `AreasApart`: the small area stays below the large one. Every theorem needs it.
* `Reliable`: besides, `munmap` and `mremap` fail only when their arguments make them, and the
  program does not store the magic word at the start of a page of a large object. Not needed by
  `TypeCorrect`, `PagesNeverReused`, `ObjectsStayApart` and `SlotsStayDisjoint`, which are
  theorems of all that `nuaf_faults` explores. `StaleUnmapped` and `InteriorResolves` are false without it (see the
  bounds above), and so is `NoFalsePositive`.

`NuafProofs`: `StaleStaysUnmapped` (`[]StaleUnmapped`), which is not inductive: it follows from
the watermarks only if nothing is mapped above them, no object lies above them, no free moves a
page other than its object's, and every push and pop concerns a page no other object
is on. The invariant `IInv` says so in named parts:

* `Watermarks`, `SmallHeads`, `CanonicalSlots`: what is mapped, and with what
  metadata;
* `ObjectsSound`, `ObjectsApart`: each object's place, its header while it is
  mapped, no other header among its pages;
* `LocalsSound`: what the unlocked reads of a thread in `xxfree` or
  `xxmalloc_big` are still worth at each label, whatever the others have done
  since; it needs that pages only ever lose their metadata by going away;
* `MutexHeld`: who holds `g_m`;
* `FreelistsFalling`: each freelist holds the free pages of its class in falling
  order. Pages are pushed at the rising watermark, so the order needs no
  induction along the list: the top is the highest free page of its class, and
  each link names the highest below it.

There is one lemma per action; `KeepObject`, `KeepLocals`, `ShrinkHeap`,
`NewSmallObject` and `SmallReturn` hold what several actions share.

`HeapProofs` adds what the program sees, in the invariant `HeldInv`: an object it holds is
not being freed (`HeldApart`) and its pages are mapped (`HeldMapped`) as long as no thread is
retrying `mremap`, which unmaps neighbours, or the program has done nothing wrong; a program
that does not misuse objects frees each of them once (`FreedOnce`), so it cannot make a thread
retry; and such a program has not been ended by a SIGSEGV (`Faultless`). From it:

* `OnlyMisuseFaults`: `Spec => []NoFalsePositive`;
* `EveryInteriorPointerResolves`: `Spec => []InteriorResolves`. The search goes down from the
  pointer's page; `ObjectsSound` says that it meets no header before the object's own;
* `SecondSmallFreeNeverReturns`: `Spec => SmallDoubleFreeCaught`;
* `KeepsSafeHeapPromise`: `Spec => ImplementsSafeHeap`. Each step maps to one of `SafeHeap` or
  to a stutter: an allocation becomes visible when the call returns, a free when it is called
  and when the first of the calls that free the object returns. The addresses of a new object
  are free in `SafeHeap` because `ObjectsApart` covers freed objects too.

`FreelistProofs` begins with what failures leave standing. A failed `mremap` unmaps pages that
are free or in use, a failed `munmap` leaves a freed object where it was, and a search that meets
a magic word of the program sends `munmap` to the wrong pages. `FaultInv` keeps of `IInv` what
survives this:

* `ObjectsPlaced`: where the objects lie, but not that large ones still have their header;
  `SmallStale`: a freed small object is not where it was (its page has moved, or is gone);
* `LeadsTo`: a pointer of a freelist leads to a free page of its class, or to a page below the
  watermark that is not mapped, hence never will be; `FreelistsApart`: no two lead to
  the same mapped page. The lists may have holes (a pop that meets one is a SIGSEGV), yet no page
  is popped twice;
* `Slots`: of two slots of a class under mapped pages one ends before the other begins, and all
  end before the next slot of their class. A free moves a slot from one page to another, so this
  is about all mapped pages at once, free ones included;
* `LocalsPlaced`: a thread that frees a small object still knows its page; of one that
  frees a large object all that is left is that it stays above `LARGE_OBJ_VADDR_START`.

From it, under `AreasApart` alone:

* `TypeCorrect`: `Spec => []TypeOK`, which includes that every pointer stays in the address space;
* `PagesNeverReused`: `Spec => NoReuse`. The lemmas of the three actions that make
  objects also show that the new object is apart from all others;
* `ObjectsStayApart`: `Spec => []ObjectsApart`. Freed objects never leave `Known`, and a step adds
  to it only what it hands to the program, one object at most (`KnownGrows`), so that the
  property is inductive beside `FaultInv`;
* `SlotsStayDisjoint`: `Spec => []SlotsDisjoint`; slots of different classes are on different
  pages of the file.

Then, under `Reliable`, `SlotInv`: an object begins in its page where its slot does
(`ObjectSlots`), and so does what a freelist points to (`FreeSlots`).

* `FreelistsStaySound`: `Spec => []FreelistsSound`. The property walks the lists; the proof
  takes the least number of links after which a walk would leave the free pages of
  the class in falling order, and `FreelistsFalling` contradicts it.

### The malloc API (`WrapperProofs`)

For any width of `size_t`, page size, classes, sizes, number of objects held, under `Modest`:
pointers of `memalign` are not resized, alignments that are powers of two are no larger than
every address and at most a quarter of the range of a `size_t`, no size plus an alignment
leaves that range, and blocks and headers are multiples of `sizeof(double)`. Each of them
is needed: the property that fails without it is named above and under "Not modelled".

The invariant `WInv` is `HeapOK` (every object lies in its area below the watermark, apart from
the others, and holds the size it was made for) and `Owns`: each pointer the program holds is
into one object, no two into the same, and every object is behind one. It is carried through
the functions in the order the code calls them, so there is a lemma for each way of
making a second object (`realloc`, `memalign`, `aligned_alloc`, `malloc_good_size`).

`WrapperTypeCorrect`, `RequestsFit` (`[]HeldFits`), `NoObjectLost` (`[]NothingLost`),
`AlignmentKept` (`[]AlignedAsAsked`) and `ReallocCopiesWithin` (`[]CopiesWithinObject`).

### The process (`ProcessProofs`)

For any number of threads and pages, in a process that starts
in the ordinary way (`OrdinaryStart`: descriptor 0 is open; before the constructor has
run only the main thread calls, and it does not fork):

* `ProcessInvariance` and `ProcessTypeCorrect`: the inductive invariant and the types;
* `SlotsAreOwn`: `Spec => []OwnSlots`;
* `PagesGivenOnce`: `Spec => NoReuse`.

`OwnSlots` is not inductive: an object being freed is on neither side of a call and comes
back with its slot, and slots are only own slots if `freelist_init` runs once, before any
is dealt. The invariant says how far `init_mem` has come while the process starts
(`StartSequence`), that nobody is in it afterwards (`Initialisation`: `data_fd` is not 0
since `mkstemp` found 0 taken, `Descriptors`), that nothing is given out before
(`NothingBefore`), and that pages lie below the watermarks (`Pages`) and slots below the next
slot (`Slots`, the objects being freed included).

### The benchmarks (`BenchmarkProofs`)

For any number of threads, rounds, objects and cells, threads that cannot be created included:

* `BarrierImplementsBarrier`, `SuiteImplementsBarrier`: `PtBarrier` implements `Barrier`, alone
  and within the suite. `BarrierInv` says that `called` counts the threads that wait, and
  that there is a round `g` such that the threads that are out of the barrier or on their way
  out of it have arrived `g` times and those that wait once more;
* `SuiteTypeCorrect`: `Spec => []TypeOK`;
* `BlocksUsedCorrectly`: `Spec => []HeapUsedCorrectly`, if `GRACE_OUTLASTS_THREADS`. The
  invariant `LiveInv` says exactly which blocks are allocated: those of main and, for each
  thread, what was made for it or handed to it and what it has made, as a function of
  where main and the thread are and of the thread's counters. Each block has one `Owner`, so
  a step of a thread changes what that thread holds and nothing else (`HeapStep`,
  `ThreadGoesOn`). For larson `LarsonInv` says that only relays of the current round are at
  work and those main has not created are not, and that a cell points to a freed block only
  while a relay is about to replace it. That no time is read before it is written is `WrittenInv`;
* `SizesStayInBounds`: `Spec => []ResizedWithinBounds`, if the largest size is not 1. A size
  reaches 0 only if one of at most 3 is above the largest size. For a largest size of 2 that
  would be 3, which doubling and quartering do not give (`SizesInv`). For a largest size of
  1 it is 2: phong called that way resizes an object from 1 to 2 and then to 0 bytes, takes
  the NULL for a failure and exits.

### Checked by TLC only

`CallsComplete` of `Nuaf` and of `Process` and `Completes`: liveness under fairness is out of
TLAPS's reach, as is `ENABLED`. `DoubleFreeCaught` and `SecondFreeTerminates` are claims the
code does not keep; TLC shows the executions.

## Not modelled

* `num_mappings`: only printed. Its unlocked updates are in the hazard list.
* `cpuinfo.h`, `timer.h`: wrappers of system calls for several platforms; they measure and
  decide nothing. The parsing of the benchmarks' arguments and their statistics, likewise.
* Tests and scripts: sequential programs, whose assertions the properties restate, and
  scripts that run benchmarks.
* In `Process`: a failed `ftruncate` of the data file (reported and ignored,
  `allocator.c:96`); files the program opens while it exits, which could get the
  descriptor `destroy_mem` has closed; page contents, which `Nuaf` has.
* In `Wrapper`: alignments above every address, for which the alignment test of
  `memalign` (`wrapper.h:205`) holds of any pointer; sizes within one alignment
  of `SIZE_MAX`, which `aligned_alloc` and `pvalloc` wrap to a small one (`wrapper.h:226`,
  465); products
  past `SIZE_MAX` in `recalloc` (`wrapper.h:471`); a path that does not fit `getcwd`'s buffer,
  which is then lost (`wrapper.h:340`). With any of these `HeldFits`, `AlignedAsAsked`
  or `NothingLost` fails; they are listed as hazards.
* In `PtBarrier`: spurious wakeups (`ptbarrier.h:46` does not wait in a loop).
* `valloc` and `pvalloc` of the C library, which programs get because `gnuwrapper.cpp` gives
  nuaf's no public names, and the heap behind them.
* The contents of objects, and the shared page cache under the private mappings.
* Meeting of the two areas: `README.md:11` leaves it to the user.
* The comments at `freelist.h:15-17` and `allocator.c:103` put the limit of small
  objects at 1024 bytes; the code uses `PAGE_SIZE / 2` = 2048, and so do the models.

## Plan

1. Done: the models of all components and their runs.
2. Done: theorems for every safety property and both refinements.
3. To do: `Wrapper`'s heap as an implementation of `SafeHeap`, so that the promise to the
   program and the API in front of it meet in one theorem.
4. To do: the rest of `Reliable`, and `Modest`, taken apart, so that each theorem of the heap and
   of the API names only the hypotheses it needs (`StaleUnmapped` does not need the half about
   `mremap`'s failures: only pages that are mapped can be lost to them).
