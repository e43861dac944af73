# Verification of programming_languages_archive

This directory holds TLA+ specifications of the programs in the repository, the
TLC configurations that check them on small instances, and proofs of their main
properties checked by TLAPS. Two allocators are at the centre: the one of laboratory
work 4, modelled, checked and in large part proved, and the allocator the lab gives
as its reference, `malloc-impl.c`, whose main arena is modelled step by step for one
thread and whose races are modelled for several. The image transformer with its
tests, the sepia command, the I/O library and the dictionary are modelled and
checked. Every safety property that a run checks is also proved, for all values of the
constants, except those of `malloc-impl.c` with one thread.

All paths below are relative to the repository. `mem.c` stands for
`labs/assignment-4-memory-allocator/src/mem.c`, `malloc-impl.c` for
`labs/assignment-4-memory-allocator/docs/malloc-impl.c`.

## 1. Inventory of the system

The repository is an archive of course work: independent programs, each of one
process and one thread. What is hard in them is a data structure that long sequences
of calls reshape in place (the allocator), calls to the kernel that may fail or do
something else than asked (mmap, munmap, read, fopen, fclose), formats and
coordinates with boundaries, and fixed-width arithmetic. `malloc-impl.c` adds
threads: they share an arena behind a mutex, and free takes a way past that mutex.

| Component | State | Operations | Interacts with | Hard behaviour | What makes it correct |
|---|---|---|---|---|---|
| Memory allocator (`labs/assignment-4-memory-allocator/src`) | block headers in mapped regions, linked in a list that starts at `HEAP_START` | `heap_init`, `heap_term`, `_malloc`, `_free` | client (calls), kernel (`mmap`, `munmap`), the rest of the process (shared address space) | regions placed elsewhere, failed mmap and munmap, merging and splitting in place, a walk that unmaps what it walks on, `size_t` wrapping | blocks tile the heap; live pointers never overlap; the list stays complete; nothing but headers is read; the end of the heap gives back all of it and nothing else |
| Allocator demo and tests (`src/main.c`, `tester`) | none of its own | sequences of calls, a guard mapping | allocator, kernel | non-contiguous growth | the assertions |
| `malloc-impl.c` | the arena: boundary tags, bins, binmap, fast bins, top; each thread's tcache; parameters; mappings | `malloc`, `calloc`, `free`, `realloc`, `memalign`, `malloc_trim`, `mallopt`, a thread's exit | client threads, kernel (`sbrk`, `mmap`, `mremap`, `munmap`), others who call `sbrk` | lock-free fast bins, checks made without the lock, lazily kept maps and flags, refused or foreign `sbrk`, signed and unsigned sizes | every chunk has one owner; boundary tags and bins tell the truth; the best fit is served; NULL only when the kernel refused; every call returns |
| Allocator debug output (`src/mem_debug.c`, `src/util.c`) | none | print headers | stdio | none | not modelled |
| Image files (`labs/assignment-3-image-rotation/solution/src/bmp.c`, the same file in lab 5) | `FILE` positions, header, pixel buffer | `from_bmp`, `to_bmp` | stdio, images | short reads, padding, negative heights, `-INT32_MIN` | write then read is the identity; each error path frees the image once |
| Images and rotation (`image.c`, `dimensions.c`, `transform.c`) | owned pixel buffer | `image_create`, `image_destroy`, `image_rotate` | heap | non-square images, empty images | rotations compose, and are bijections of pixels |
| Image transformer (`solution/src/main.c`) | two images, two files | one run | all of the above | order of open, write and close; truncation of a long angle to int; results of `fclose` ignored | exit status 0 only for a complete target, no leak on any path |
| BMP comparator (`labs/assignment-3-image-rotation/tester/src`) | two `FILE` positions | `bmp_cmp`, `file_cmp` | stdio | chunks, short reads | a test passes only if every pixel is there |
| Sepia filter (`labs/assignment-5-sepia-filter`) | image buffers | `image_sepia_c`, `image_sepia_sse` | image files | vector loop and scalar tail, float rounding, short writes | both give the same image; status 0 means it is in the target |
| I/O library (`labs/assignment-1-io-library/lib.inc`, `labs/assignment-2-dictionary/lib.asm`) | stdin position, caller's buffer | `read_char`, `read_word`, `parse_uint`, `parse_int`, `print_uint`, `print_int`, `string_*` | kernel | read errors, NUL bytes, words that fill the buffer, wrapping numbers | parse after print is the identity; no write past the buffer |
| Dictionary (`labs/assignment-2-dictionary/main.asm`, `dict.asm`, `colon.inc`, `words.inc`) | list of entries built at assembly time | `find_word`, `_start` | I/O library | duplicate keys, empty and long input | the newest entry of a key is found; each failure has its message |
| Seminar exercises (`seminars`) | registers | short programs | kernel | signed comparison in `parse_uint` | as the I/O library |
| Build files, Python harnesses, texts | | | | | not modelled: not part of the programs |

The hazards of each part, with the line where they bite, are listed in
`PROJECT.json` with the properties that would catch it. Some have none: what goes
wrong there is in the models, but the properties allow it, by name, as what the code
does (an angle cut to an `int`, a failed `fclose`, a top that ends off a page, a new top
that is trimmed away), or it lies outside the bounds and is covered by a theorem (the
least height of an image).

## 2. The allocator

### What the code does

`alloc_region` (mem.c:120) maps a region of whole pages, at the wanted address if
it is free and wherever the kernel likes if not, and writes one free block into
it. `_malloc` walks the list from `HEAP_START`; at each block it first merges the
free blocks that follow at once, and takes the first that is free and large
enough, splitting off the rest when the rest is at least a header and a minimal
block. If there is none it maps another region behind the last block, links it,
merges it when both are free and adjacent, and searches again from there. `_free`
marks a block and merges forward only. `heap_term` walks the list, sums up blocks
that follow each other at once and gives each such span to `munmap`.

### Modules

| Module | Contents |
|---|---|
| `MemAllocator` | the code: state, helpers, one action per loop iteration or call boundary, `Spec`, `FairSpec`, the properties and the inductive invariants |
| `HeapSpec` | the abstract promise: a set of owned bytes, disjoint lent intervals, foreign pages untouched |
| `MCMemAllocator` | the instance for TLC, with the properties that walk the list from its start |
| `MemAllocatorProofs` | sizes and operators (lemmas), the invariant `IInv` (one lemma per action), the theorems that follow, and `Spec => HeapPromise`: the code implements `HeapSpec`; then the list: no read goes astray, no block is lost, `heap_term` visits all, the search is first fit |
| `Induction` | lemmas for all the proofs: least elements and induction for sets of naturals, iterates of a function |

### State and actions

| Model | Code |
|---|---|
| `hdr`, a function from block addresses to `[next, capacity, is_free]` | every `struct block_header` in use; a header stands for the bytes at its address |
| `heapMem`, `otherMem` | bytes mapped by `alloc_region`, and by anybody else in the process |
| `start`, `live` | what the client knows: the result of `heap_init`, and the pointers it may still free, with the sizes it asked for |
| `pc`, `query`, `block`, `grown`, `regionStart`, `regionSize` | where the current call is, and its locals |
| `degraded` | history: `heap_init` was placed elsewhere, or a `munmap` failed |
| `HeapInit`, `HeapInitFails` | `heap_init` |
| `MallocCall`, `Search...`, `GrowHeap`, `GrowFails` | `_malloc`, `memalloc`, `try_memalloc_existing`, `find_good_or_last`, `split_if_too_big`, `grow_heap` |
| `FreeCall`, `FreeMerge`, `FreeReturns` | `_free` |
| `TermCall`, `TermEnters`, `SpanExtends`, `SpanUnmaps`, `SpanStaysMapped`, `TermReturns` | `heap_term` |
| `SearchWild`, `TermWild` | a loop reads an address where no header is: undefined behaviour, after which nothing is said (`Undefined`) |
| `OtherMaps`, `OtherUnmaps` | mappings of others between calls, such as the guard of test 5 (main.c:95 and 113) |

Each iteration of a loop is a step of its own, so that termination is a property
and not an assumption. Sizes are `size_t`: sums, differences and products are
taken modulo `SIZE_MOD` wherever the code may overflow.

The client is well behaved: it starts one heap at a time, frees only pointers it
holds, and frees each once. This is what the code requires of it.

### Abstractions

* Contents of memory are not modelled. A stale header that happens to survive
  somewhere outside the heap is therefore never read as one: reading it is "wild".
* `mmap` gives free pages of the address space, or fails; `munmap` takes whole pages
  or fails; it always fails for a start that is not on a page.
* Other owners come and go between calls only: the program has one thread.
* `BSR_CORRUPTED` and the NULL checks on internal arguments are unreachable from the
  four calls (`HEAP_START` is not NULL) and have no action.
* The variants marked "Variant:" in `MemAllocator` are plausible mistakes in the
  code. `PROJECT.json` pairs each with the property that must catch it. They are
  part of no behaviour of `Spec`.

## 3. malloc-impl.c

### Modules

| Module | Contents |
|---|---|
| `MallocSizes` | the size arithmetic: a request padded to a chunk, the index of a bin, a fast bin and a tcache bin, as functions of the figures of a build |
| `Arena` | the main arena as a record, and the routines that move chunks between its lists as operators on it: `unlink_chunk`, splitting, sorting into bins, `malloc_consolidate`, `systrim`, `_int_free` |
| `ArenaCheck` | the assertions of a `MALLOC_DEBUG` build, `do_check_chunk` to `do_check_malloc_state` |
| `PtMalloc` | the calls of one thread: one action per way through `_int_malloc` and `sysmalloc` that ends the search, and per turn of the loop over the unsorted chunks |
| `PtThreads` | several threads: each read and write of shared memory a step |
| `MCPtMalloc`, `MCPtThreads` | the instances for TLC |
| `PtMallocProofs` | the proofs about the sizes, and that every call of one thread ends |
| `PtOwnershipProofs` | the proofs that every chunk of one thread's arena has one owner, and that what is mapped is accounted for |
| `PtThreadsProofs` | the proofs about the threads |

`Arena` extends `MallocSizes`, `PtMalloc` extends `ArenaCheck`; `PtThreads` stands by
itself.

### One thread

Memory is counted in words. Chunks are headers in a function from addresses, so that
merging, splitting and trimming work on addresses as in the code, and a header read
where there is none is seen as such. A list of free chunks is a sequence from `fd` to
`bk`; the chunks of large bins that are not on the nextsize ring are those not in
`skip`. `foot` is the `prev_size` word, which exists only while the chunk below is free.

| Model | Code |
|---|---|
| `av` (record of `Arena`) | `main_arena`, the thread's tcache, the program break |
| `mp` | `mp_` and `global_max_fast` |
| `mmapped`, `maps` | chunks with `IS_MMAPPED`, and pages the kernel has handed out |
| `live`, `call` | what the client holds; the call under way and its locals |
| `FastbinServes`, `SmallbinServes`, `EntersLoop` | `_int_malloc` up to its loop |
| `LastRemainderServes`, `ExactFitCached`, `ExactFitServes`, `UnfitGoesToBin` | a turn of the loop over the unsorted chunks |
| `CachedServes`, `LargeBinServes`, `BinServes`, `TopServes`, `ConsolidatesAgain` | behind the loop: the cached fit, the own large bin, the binmap, top, once more |
| `MapsRequest`, `MapIsRefused`, `TopGrows`, `TopMoves`, `TopMovesApart`, `TopIsMapped`, `NoMemory`, `SysmallocAborts` | `sysmalloc` |
| `Delivers` | the caller of `_int_malloc`: `__libc_malloc`, `_int_realloc`, `_int_memalign`, `tcache_init` |
| `Resumes`, `UnmapsOld` | a call goes on when `tcache_init` has returned; `realloc` of a mapped chunk unmaps it when its contents have been copied |
| `Malloc`, `Calloc`, `Memalign`, `Free`, `Realloc`, `MallocTrim`, `Mallopt` | the calls, with the tcache and the in-place ways of `realloc` |
| `ForeignSbrk` | somebody else moves the break |

The kernel refuses `sbrk` and `mmap` when there is no room, and with `MayRefuse`
whenever it likes; it places a mapping at the lowest free address. `malloc_printerr`
and failed assertions set `av.died`, after which nothing happens.

### Threads

`PtThreads` takes the one fast bin and the steps `free` makes on it without the mutex
(read the neighbour's size, set the flag, link, compare and exchange), `malloc`'s
removal from it with the mutex (`REMOVE_FB`, the stash into the tcache),
`malloc_consolidate` chunk by chunk, `systrim`'s two stores, `tcache_init` and
`tcache_thread_shutdown`. What `PtMalloc` has in detail, the search of the bins and of
top, is a set here; the tcache's own memory is too large for the fast bins and small
enough for the small ones, so it comes from there. When it is released at a thread's exit,
the chunk it becomes part of may be large enough to consolidate the fast bins and to trim
top, or not; and a trim may find nothing to give back (`KeepsTop`). Any thread may free a chunk that another one was given. The word
of a chunk that the lists use as a link holds `Junk` while a client has the chunk.

### Abstractions

* The lists are sequences, so the test that `fd` and `bk` agree is true by
  construction; so are the tests for a misaligned link.
* One mutex and one arena: `arena_get` chooses between arenas in `arena.c`, which the
  repository does not have.
* Stores are seen in the order they are made, as under the C11 order the code asks for
  where it matters.

## 4. The other programs

### Image transformer (lab 3)

| Module | Contents |
|---|---|
| `Image` | padding, pixel indices, `rotate_90`, `rotate_180`, `rotate_270` as maps of positions, and what their loops leave in a new buffer |
| `Picture` | the meaning the program is measured against: what a BMP file shows, a quarter turn of a picture, and how a picture is stored. Written independently of `Image` |
| `ImageTransformer` | `main`, `from_bmp` and `to_bmp` over the source, two buffers and the target, one action per row and call, `...Fails` for a call that fails |
| `RotationTest` | a test as `tester.cmake` runs it: the transformer, then `image-matcher`, that is `bmp_cmp` row by row and `file_cmp` chunk by chunk |
| `MCImageTransformer` | the files and arguments of the runs |

A pixel is named by the offset of its first byte in the source file, so that a
pixel in a wrong place is always visible. Memory that malloc gave and nobody wrote
holds `Garbage`. `int` and `long` have the widths `INT_MOD` and `LONG_MOD`, and
negating the least `int` is a choice between what builds make of it. A file is the
part of its header that `read_header` looks at, and a length. `fclose` of the target
may lose what stdio holds (`CloseTargetLoses`); `unsaved` remembers it.

In `RotationTest` the expected file is the right one, one with another pixel, a short
one, one of another size, or none; each read and seek of the matcher may fail, which
`misread` remembers.

### Input and output library (labs 1 and 2)

| Module | Contents |
|---|---|
| `WordReader` | `read_char`, `read_word`: one action per system call or store; a read may fail |
| `IoNumbers` | `print_uint`, `print_int`, then `parse_uint`, `parse_int` on what was printed or on any text; one action per loop iteration |
| `Dictionary` | extends `WordReader` by the list the `colon` macro builds, `find_word` and `_start` |

`slot` in `WordReader` is the byte on the stack that `read_char` gives to the kernel:
nothing between two calls in `read_word` writes there, so a read that fails
finds the byte before. The buffer of the dictionary is zeroed by the loader;
`Garbage` marks the bytes `read_word` has not written, which no comparison may need.
`write` may write less than asked; the program does not look at its result.

The conversions are arithmetic: `IoNumbers` works with character codes where the
code does, and with words modulo `WORD_MOD`.

### Sepia filter (lab 5)

`Sepia` runs either filter over a buffer of bytes: groups of four pixels by
`sepia_sse_apply`, single pixels by the loop of `image_sepia_c`. Coefficients are
integers in thousandths: single-precision rounding is left out, so that the
equality of the two filters is that of their structure, saturation and order of
bytes, not of their last bits. `SepiaCommand` is `main` around it: `bmp.c` is the code
of lab 3, which `ImageTransformer` has step by step, so each of its functions is one
step that succeeds, fails or writes a part.

## 5. What TLC checks

### Allocator

All its runs use `HEADER = 2`, `BLOCK_MIN_CAPACITY = 2`, `PAGE = 4`,
`REGION_MIN_SIZE = 8` (two pages, as in the source), `HEAP_START = 4` (the second
page), `SIZE_MOD = 64`, and the queries 0 (below a minimal block), 3 (leaves a rest
too small to split off a minimal region), 7 (more than a minimal region's block
holds, so that it needs three pages) and 63 (wraps). `heap_init` asks for 0 or 9
bytes, one region of two pages and one of three. Others may map page 4, which is
`HEAP_START`, and page 12, which is the page behind a minimal first region.
Addresses end at `MemSize`, which bounds everything else: memory for up to three
regions (28). With three regions the list has a middle
region, growth is possible next to the last region and away from it, and regions
can lie below `HEAP_START`'s region in the list order and above it in address
order; the rest of the bounds only multiplies such cases.

| Run | Properties | Shows |
|---|---|---|
| `heap_safety` (`MemAllocator.cfg`, about 550,000 states) | `BlocksTileHeap`, `LivePointersBacked`, `NoLostBlock`, `GrowthSuffices`, `WildOnlyWhenDegraded`, `FreeReadsHeaders`, `TermReleasesAll`, `HeapListComplete`, `SearchPassesOnlyUnfit`, `UnmapsWholePages`, `HeapPromise`, `CallsReturn` | the heap stays a heap through every sequence of calls, placements and failures; the code implements `HeapSpec`, and every call returns |
| `heap_init_elsewhere` (`HeapInitElsewhere.cfg`) | `SuccessfulInitIsUsable`, violated | see the findings |

What the properties say:

* `BlocksTileHeap`: blocks are disjoint, and together are exactly the mapped bytes.
* `LivePointersBacked`, `NoLostBlock`: pointers held and blocks taken are the same
  thing, and a block is at least as large as asked and as the minimum.
* `HeapListComplete`: from `HEAP_START` the list reaches every block and ends.
* `SearchPassesOnlyUnfit`: the search is first fit over coalesced blocks; the heap
  grows only when no run of free adjacent blocks could have held the query.
* `GrowthSuffices`: a heap that has grown satisfies the query, unless it wraps.
* `UnmapsWholePages`, `TermReleasesAll`: `munmap` gets whole pages of the heap, and in
  the end all of them.
* `WildOnlyWhenDegraded`, `FreeReadsHeaders`: nothing but headers is read; the
  loop of `_free` never leaves them, not even in a degraded heap.
* `CallsReturn`: the list is finite, so every loop over it ends.

Fairness: `FairSpec` asks weak fairness of the steps the allocator takes inside a
call, and nothing of the client, of others or of the choice between outcomes. A
call of a single-threaded program runs until it returns; that is all the
assumption says. Deadlock is checked in all runs: between calls others or the
client can always act.

### malloc-impl.c

| Run | Properties | Shows |
|---|---|---|
| `pt_malloc` (`PtMalloc.cfg`, about 590,000 states) | `StateChecked`, `OwnedOnce`, `TakesBestFit`, `CallsAdvance` | the arena under `malloc`, `calloc` and `free` with three live blocks |
| `pt_system` (`PtSystem.cfg`, about 634,000 states) | `AbortsOnlyOffPage`, `MapsAccounted`, `NullMeansRefused` | all the calls against a kernel that refuses and a break that others move |
| `pt_threads` (`PtThreads.cfg`, about 359,000 states) | `OneOwner`, `ExitKeepsNothing`, `NeverAborts`, `CallsReturn` | two threads on one arena and one fast bin |
| `trim_grows` (`TrimGrows.cfg`) | `TrimReleases`, violated | see the findings |

* `StateChecked`: what a debug build asserts at the ends of calls holds after every
  step, and so do four things it does not look at: headers lead to headers, the bins
  are exactly the chunks that claim to be free, the ring of a large bin has the first
  chunk of each size, and `have_fastchunks` misses nothing while there is one thread.
* `OwnedOnce`: every chunk is with the client, in one list, top, the tcache itself or
  a fence, and only once.
* `TakesBestFit`: a chunk from the sorted bins is the smallest of them that serves.
  This is a statement about the binmap, the order in bins and the walk over them.
* `CallsAdvance`: each step of a call lowers a measure, so a call that does not abort
  returns. The measure is lexicographic because `malloc` consolidates and starts over, and
  because a call may first have to allocate its tcache, also the `malloc` that `realloc`
  makes to copy a mapped chunk.
* `AbortsOnlyOffPage`: only a top that ends off a page makes `malloc_printerr` or an
  assertion end the process. It ends there when others have moved the break, or when the
  first break was not at a page and the second `MORECORE`, which would complete the
  page, was refused. `NullMeansRefused`: NULL is
  returned when the kernel refused, or, after somebody else moved the break, when
  freeing the old top trims the new memory away again (malloc-impl.c:2862).
* `MapsAccounted`: mappings, chunks and counters agree through `memalign`'s offsets
  and `mremap`.
* `OneOwner`, `NeverAborts`: no interleaving of pushes, pops, consolidations and trims
  loses, duplicates or refuses a chunk.

Bounds. A small build: pages of 16 words, small bins for chunks of 4 and 6 words, three
large bins, one tcache bin and one fast bin with chunks of 4 words, one chunk in
the tcache. Requests of 1, 5 and 8 words give a chunk that is cached and fast, one of
a small bin and one of a large bin, three at a time, in two pages of heap: chunks
meet on both sides, remainders are too small or not, bins hold two chunks of one
size, and top runs out. `MAX_ITERS` is 2 instead of 10000, so that the loop is also
left early. `pt_system` has one live block, requests of 1, 20 and 40 words around an
mmap threshold of 12 and a trim threshold of 24, alignment 8, one option or one
foreign step of a word or a page, two pages to map. A mapped chunk of exactly
`DEFAULT_MMAP_THRESHOLD_MAX` (48) words leaves the thresholds alone, because its size is
compared with its flag bits; and the mmap threshold `mallopt` is offered is above
half of `HEAP_MAX_SIZE` (96) and refused. `MaxAsides` (1) bounds how often
options and the foreign break change, `MaxCalls` (6) the calls of `pt_threads`, which
has three chunks and two threads: enough for a removal to be overtaken by a push
and for a consolidation between the steps of a free.

Fairness. `FairSpec` of `PtThreads` has weak fairness of each thread's own steps: the
scheduler runs every thread that can go on. Nothing is asked of the client, and the
mutex needs no more because calls are bounded. `PtMalloc` states no fairness:
`CallsAdvance` is a safety property, and deadlock is checked. In `pt_threads` it is
not: all threads may have exited.

### Other programs

| Run | Properties | Shows |
|---|---|---|
| `image_transformer` (`ImageTransformer.cfg`, about 1,140,000 states) | `ExitReleasesAll`, `ReadShowsFile`, `RowsFitTheBuffer`, `ShortFileIsRejected`, `TargetIsBeginning`, `SuccessIsTurnedPicture`, `PassMeansTurned` | whatever fails, the target is a beginning of the right file; status 0 means all of it; a test that passes has seen every pixel |
| `word_reader` (`WordReader.cfg`, about 490,000 states) | `NoOverrun`, `WordIsNext`, `FailureIsJustified` | words are taken from stdin one by one and never leave the buffer |
| `dictionary` (`Dictionary.cfg`, about 32,000 states) | `AnswerIsRight`, `ComparesWrittenBytes`, `Terminates` | each input gets its answer |
| `io_numbers` (`IoNumbers.cfg`, about 26,000 states) | `ParseReadsNumeral`, `PrintsNumeral` | numbers are printed and parsed as numerals mean them |
| `sepia` (`Sepia.cfg`, about 13,000 states) | `SameAsScalar`, `ExitTellsResult` | the vector filter is the scalar one, and the exit status tells what is in the target |
| `repeated_byte` (`RepeatedByte.cfg`) | `FoundWasAsked`, violated | see the findings |

`PassMeansTurned` is about the transformer and its tests together. `cmp_chunk` takes a
chunk shorter than its buffer for the end of a row and then skips the padding, so
two files that both end early could compare equal; they do so only where the right
file lacks nothing but padding behind its last row, or when the matcher's own reads
failed.

Bounds. Images: widths 1 to 4 need 1, 2, 3 and 0 bytes of padding; one to three
rows in both orders tell every rotation and its inverse apart on images that are
not square; files lack 0, 1, 2, 4 or 40 bytes, which ends them in the last padding,
the last row, an earlier one or the header, and one file has a byte too many.
The matcher's buffer holds two pixels, so that rows end inside a chunk, at its end and
behind it. `MaxAlloc = 27` bytes is nine pixels: larger images are refused, among them both
readings of the least height. Reader: inputs of up to five bytes over two letters, a
blank and a zero, buffers of 0 to 3 bytes: words that fit, that leave no room for
their zero and that are cut in two. Dictionary: a key given twice, and one that is
the beginning of another. Numbers: all words of eight bits, so that both signs,
the least word and three digits occur; texts of up to four characters over the
signs, the ends of the digits and the characters next to them, so that values
wrap. Sepia: up to nine pixels, that is up to two groups of four with each
remainder.

Fairness: the dictionary's `Spec` asks that the program goes on while it runs, by steps
in which no read fails; reads that fail for ever keep `read_word` going, so `Terminates`
is about runs in which no read fails. The image and sepia models
state no fairness: their loops are bounded by counters, and no liveness is claimed.

### Findings

1. `heap_init` reports success for a region that is not at `HEAP_START`, and
   `_malloc` (mem.c:255) and `heap_term` (mem.c:233) start at `HEAP_START` all the same.
   The trace has five states: another mapping takes the page, `heap_init` succeeds
   elsewhere, `_malloc` starts, its first read finds no header.
2. `read_char` takes a failed `read` for a byte (lab 2, lib.asm:151): the byte before
   is repeated, and the dictionary may answer for a key that was not asked for.
3. `systrim` compares a signed `top_area` with an unsigned `pad` (malloc-impl.c:2920):
   when top is minimal, `malloc_trim (0)` raises the break by a page and returns 1, the
   value its comments (lines 770 and 2902) reserve for released memory.

What the models also show, without a run of its own:

* A query close to the largest `size_t` wraps (mem.c:121): each such call maps a minimal
  region, keeps it, and returns NULL. `GrowthSuffices` therefore excepts it.
* The angle is cut to an `int` before it is checked (lab 3, main.c:33): 2^32 + 90 is
  accepted, although the task allows the listed values only.
* The result of `fclose(target_file)` is ignored (labs 3 and 5): the program may exit
  with status 0 and a short target; `unsaved` is what the properties except.
* A second MORECORE that is refused leaves top off a page, and a later call aborts
  (malloc-impl.c:2767 and 2542).
* `__libc_pvalloc` computes `rounded_bytes & -(pagesize - 1)` (malloc-impl.c:3559), which
  is not the rounding to pages its comment (line 743) promises. It is not modelled.

## 6. What is proved

### Allocator

Assumptions (`LayoutAssumption`, `SpaceAssumption`, `ClientAssumption` in
`MemAllocator`): header, minimal capacity and page are positive; a minimal region
is whole pages with room for a header and a minimal block; `HEAP_START` is a page
in the address space; a `size_t` is wider than the address space by a header and a
minimal block, and holds a whole number of pages. The source's values (17, 24,
8192, 4096, 2^64, a 47-bit user space) satisfy them. The queries are any sizes,
wrapping ones included. TLC evaluates the assumptions in every run.

| Theorem | Statement |
|---|---|
| `HeapStaysWellFormed` | `Spec => []IInv` |
| `TypeCorrect`, `HeapIsTiled`, `PointersStayBacked`, `GrowthIsEnough` | the invariants of the same content |
| `TermUnmapsWholePages` | `Spec => UnmapsWholePages` |
| `AllocatorImplementsHeap` | `Spec => HeapPromise` |
| `LinksStayIntact`, `NoWildRead` | `Spec => []LinkInv`, `Spec => []WildOnlyWhenDegraded` |
| `ListStaysComplete`, `TermLeavesNothing`, `NoBlockIsLost` | `Spec => []ListInv`, `Spec => []TermReleasesAll`, `Spec => []NoLostBlock` |
| `BlocksStayOrdered`, `FreeReadsOnlyHeaders` | `Spec => []FreeInv`, `Spec => []FreeReadsHeaders` |
| `SearchIsFirstFit` | `Spec => []SearchPassesOnlyUnfit` |
| `ListIsComplete` | `Spec => []HeapListComplete` |

The argument. None of the invariants is inductive alone. `IInv` adds to them:

* every block ends in the address space, which keeps the sums in a merge and in
  `heap_term` from wrapping;
* `RegionEdges`: where a block's `next` is not the place it ends at, both are page
  boundaries. This is why a span of `heap_term` is whole pages although the code
  keeps no record of its regions;
* `CallState`: what a call in progress holds, above all that `regionStart` and
  `regionSize` describe bytes of the heap that end where `block` ends.

`MemAllocatorProofs` first proves that merge, split, marking, a new region and a
munmap keep two predicates on headers, `WellFormed` and `Covers`; each action
then follows from the lemma of the operator it uses. `round_pages` needs an
argument of its own: it may wrap to 0 only when the next page boundary is
`SIZE_MOD` itself, in which case the minimal region size takes over.

`IInv` holds in degraded heaps too: tiling, backed pointers and page-wise unmapping
do not depend on where `heap_init` was placed or on munmap succeeding.

`LinkInv` is what keeps reads on headers when nothing has degraded. Links lead to
blocks and no two lead to the same, so a swallowed block is forgotten by all. In
`heap_term` the first block left has no predecessor left, and the blocks of a span
are a chain from its first block; hence unmapping the span takes away no block
that another one links to, nor the one the walk goes on at.

`ListInv` adds that the list reaches every block. Reaching is stated without a path
(`Reaches`): a set of blocks that has the first one and is closed under links is the set
of all blocks. In this form the steps that merge, split, grow and unmap keep it, as each
turns a closed set of the new heap into one of the old. While `heap_term` is under way
the first block is the one the walk goes on at, and a span has no gap, so the last span
leaves nothing (`TermLeavesNothing`). `NoBlockIsLost` needs this too: a block that
outlived its heap would be taken and nobody's.

`FreeInv` is for degraded heaps, where links may lead to regions that are gone.
The blocks that searches have gone through, among them all that the client holds, are a
chain from `HEAP_START` whose links have been followed and led to blocks (`Walked`,
`Trail`). Merges and new regions keep this, as links inside the chain are unique and
the blocks can be ranked so that every link into the bytes of a block leads down
(`Ranks`): no walk comes back to a block it has passed, whatever the kernel places where
an old link still points. `_free` starts at a block of the trail and follows its links.

`SearchInv`: between `HEAP_START` and the block the first search is at there is a set
of blocks, linked to each other and to that block, none of which serves. When the
search has come to the end, `Reaches` makes that set all the blocks.

`HeapListComplete` speaks of `Walk`, a recursive function. `Iterates` gives a function with
the same recursion, so `Walk` has the values its definition says; the walk repeats no
block, as links to a block are unique; so by the pigeonhole principle it ends within as many
steps as there are blocks, and what it has met is closed under links. Induction over the
steps is induction on a set of naturals (`SetInduction`).

`LinkInv`, `ListInv`, `FreeInv` and `SearchInv` were checked by TLC on small instances before
they were proved.

The refinement uses the identity on bytes and pointers: the contents of a taken
block are bytes of the heap, and other live pointers lie in other blocks.

### Image transformer

`ImageTransformerProofs` assumes that an `int` has an even number of values, a `long`
its square, that the width and height of a header are ints (`InputAssumption`), that
malloc can give less than a quarter of what a `size_t` counts, and nothing else about
sizes.

| Theorem | Statement |
|---|---|
| `PaddingCompletesRow` | `get_padding` is the padding of the format |
| `PixelsHaveIndices`, `RotationsStayInside` | positions have indices in their buffer, rotations move them into the new image |
| `RotationsUndo` | opposite angles undo each other |
| `EveryPixelArrives` | the loops of a rotation copy every pixel to its place |
| `ExitGivesAllBack`, `RowsStayInside` | `Spec => []ExitReleasesAll`, `Spec => []RowsFitTheBuffer` |
| `BufferShowsFile`, `ShortFilesRejected` | `Spec => []ReadShowsFile`, `Spec => []ShortFileIsRejected` |
| `TargetBegins`, `SuccessTurnsPicture` | if `54 + 2 * MaxAlloc < INT_MOD`: `Spec => []TargetIsBeginning`, `Spec => []SuccessIsTurnedPicture` |

`EveryPixelArrives` rests on two facts: two positions of an image never share an
index (`IndicesDiffer`), and no two are moved to the same place (`RotationsUndo`).
The invariant behind `ExitGivesAllBack` and `RowsStayInside` (`TakenIsGivenBack`) says
which buffers and streams are held at each place of `main` and `from_bmp`, and that a buffer that is being read
into has an index for every pixel; a height is positive whatever a build makes of
the least `int` (`HeightsArePositive`).

`FileRead` is the invariant of from_bmp: the position in the file tells which rows are
in the buffer, each at the place its order gives it (`RowsHavePlaces`, `RowsApart`). A
position behind the end of the file is possible only before the first row, so when all
rows are there the file has them. For the least `int` a build may take the height to
be `LONG_MOD - INT_MOD \div 2`; so many rows are more bytes than malloc can give, also
after the product has wrapped (`HeightIsRows`, from `MemoryAssumption`).

`FileWritten` is the invariant of to_bmp: at each place the target holds the header and
so many rows and paddings of the stored picture (`BodyItems`, `AppendBegins`), and the
rotated buffer shows the turned picture: what the loops of image_rotate do to positions
is what turning means (`TurnedIsRotated`), and they reach every position of the new
image (`RotationsReachAll`). The hypothesis `54 + 2 * MaxAlloc < INT_MOD` is needed:
the header counts the file's bytes and the image's sides in 32 bits, and to_bmp checks
none of them, so the header of a picture of more than 4 GB is wrong.

| Theorem | Statement |
|---|---|
| `TestsRunTransformer` | `TestSpec => Spec`: every theorem about the transformer holds in its tests |
| `PassedTestsTurn` | if `54 + 2 * MaxAlloc < INT_MOD`: `TestSpec => []PassMeansTurned` |

`Comparing` is the invariant of the matcher: both files are at the same place, which
is the beginning of a row, inside one or behind its pixels, and everything before that
place is in the target, whichever way the last row ended. Since the target
is a beginning of the right picture (`TargetBegins`), being there is being right.

### malloc-impl.c

`PtMallocProofs` assumes `SizesAssumption` (a header of two words, an alignment that
is a multiple of it, a minimal chunk of at least four words) and
`LadderAssumption` (each row of the large-bin table goes on no lower than the row
before it ended). The 64-bit and 32-bit figures of the code satisfy both; TLC
evaluates them for the small build. About the calls it also assumes `ArenaAssumption`
(memory is aligned like the header of a chunk, as in the 64-bit build, which is the one
`Arena` models; the figures are naturals) and `MallocAssumption` (requests, pads, alignments
and options are naturals, an alignment is not zero, and the default limit of the fast
bins is no larger than the largest allowed). About ownership it assumes `KernelAssumption` as well: the break
starts somewhere in `1 .. BrkLimit` and others only raise it (sysmalloc aborts when it
finds the break lowered, malloc-impl.c:2699, which the model does not have); the kernel maps pages above the break; a
page is larger than the smallest chunk and an alignment together; and the alignments
memalign works with are at least `MINSIZE`, to which `_mid_memalign` raises them
(malloc-impl.c:3471). `PtThreadsProofs` assumes `ChunkAssumption`: chunks
are finitely many, and neither NULL nor data in a link is taken for one, nor NULL for a thread.

| Theorem | Statement |
|---|---|
| `RequestFits` | a padded request is aligned, at least `MINSIZE`, and leaves room for the request |
| `BinsClimb`, `LaterBinsFit` | `bin_index` is monotone; a chunk of a later bin is larger |
| `BinExists` | the bin of a chunk is one of the sorted ones |
| `StaysSound` | `Spec => []MInv` |
| `WorkIsFinite` | what a call has to do (`Pending`) is measured in natural numbers |
| `CallsEnd` | `Spec => CallsAdvance` |
| `NothingOwnedTwice` | `Spec => []OwnedOnce` |
| `MappingsAccounted` | `Spec => []MapsAccounted` |
| `ThreadsInvariant` | `Spec => []IInv` |
| `ExitedThreadKeepsNothing` | `Spec => []ExitKeepsNothing` |
| `ThreadsOwn` | `Spec => []OInv` |
| `NoFreeAborts` | `Spec => []NeverAborts` |
| `ChunkHasOneOwner` | `Spec => []OneOwner` |

`LaterBinsFit` is what `_int_malloc` relies on when it takes the last chunk of a larger
bin and only asserts that it is big enough (malloc-impl.c:4254). It follows from `BinsClimb`, whose
argument is by cases: both small; one on each side of the border; or two rows of the
table, where the row of the larger size reaches at least as far.

`CallsEnd` and `WorkIsFinite` say together that no call runs for ever, whatever the client asks
for, whatever the kernel refuses and whoever moves the break. There is one lemma per
action (`FastbinServesSteps` to `DeadSteps`), and each shows which weight of `Pending`
falls while those before it stay: a search that enters the loop leaves the bins behind;
a turn of the loop takes a chunk off the unsorted list and gives nothing back to it,
also not through the tcache, the own large bin or a split; `malloc_consolidate` clears
`have_fastchunks`, after which the list may be as long as it likes; a refused mapping is
not tried twice; and everything else goes to a later phase. The list can be seen to
shrink only if the chunk goes to another bin, and it does because a chunk of at least
`Least` words, twice a header, has a bin behind the unsorted one (`BinOfSized`). That
sizes are no smaller is the core of `MInv`, and it is enough to say it of the
`prev_size` words behind free chunks (`FeetFine`): `_int_malloc` asserts that
a chunk's size agrees with that word, and `_int_free` checks the size of what it frees. Where the code
asserts (`malloc_consolidate` compares the size of a fast chunk with its bin, and the
`prev_size` with the size below), the proof uses what has been asserted: the process
is dead or the sizes agree. `MInv` also says that the exact fit a search has put into
the tcache stays there until the search takes it (`CachedStays`), that the chunk
`realloc` copies from stays mapped (`CopyMapped`), that `global_max_fast` never admits a chunk
without a fast bin (`Params`, kept by `FastLimit`), and the types. Loops over chunks
(`malloc_consolidate`, the stash into the tcache) are folds in the model; `IsFold` gives a
fold an invariant.

`NothingOwnedTwice` needs an invariant about the whole arena (`OInv` of
`PtOwnershipProofs`). It was first checked with TLC, on the instances of both runs of
`PtMalloc`; like `MInv` it says that the process is dead or that `Holding` is true:

* `Stock(av, K, Env)`: no two chunks overlap (`Tiled`); each lies below the break or in
  pages mapped for the arena, and in each of these lies a chunk (`Backed`); nothing stands on two lists or twice on
  one (`Once`); each chunk on a list has a size that list is for (`AllSuit`); and
  the chunks of at least `MINSIZE` are those of `K` and those on a list, and no chunk is
  both. The smaller ones are the fences.
* `K` is what somebody has: `Held`, the chunks of the client, of the call under way and of the
  tcache, and top, which is none of them (`Owned`).
* `Blocks`: the mapped chunks lie in whole pages of their own. With it a step of the
  arena cannot take their pages, nor munmap the arena's.
* `CallOwns`: what a call works on is the client's until it is freed, what it has found is not, is
  large enough for what will be cut from it, and no call makes a second tcache.

`_int_free` needs no boundary tags for this. What it merges with is either below it, where the
`prev_size` word and the size found there must agree and `unlink_chunk` must find the chunk in
its bin, or above it: each merge passes an assertion that
says what the proof needs, and if the assertion fails the process is dead. So the tags can be
left to `StateChecked`. `IntFreeOwned` and `ConsolidateOwned` state this for
the whole routines: from a stock in which somebody has `p`, `_int_free(p)` leads to a stock in which
nobody has, or to death. Splitting (`TwoPieces`), taking from the end of a list, growing top,
moving it behind fences (`NewTopOwned`) and trimming it have lemmas of the same
form, and then there is one lemma per action (those that end in `Owns`), each about
the parts of `Holding` the action can disturb. The last step from the invariant to
`OwnedOnce` counts: the lists laid end to end (`Lists`) repeat nothing
(`Flattened`, `ListsAreOnce`), and four sets that do not meet have as many members
as the four have together (`FourParts`).

`MappingsAccounted` follows from the same invariant and `Counted`, which says that
`n_mmaps` and `mmapped_mem` count the mapped chunks and the words of their pages
(`Tally`). That each page mapped for the arena has a chunk in it (`Covered`) is the
half of `Backed` that `OwnedOnce` does not need: whatever is cut, its pieces have all
its pages between them (`PiecePages`), a new top fills its mapping, and the fences behind
an old top reach into its last page, because `sysmalloc` asserts that top ends where a page
does (`FencePages`). The steps that change a mapping replace one mapped chunk by another
(`SwapCounts`), add one at a place no other has, or take one away.

`IInv` of the threads is the types of everything shared and, for each thread,
`Fine`: a formula on its own record and its own tcache only. The point of `Fine` is that a
thread in its exit has neither a tcache nor the right to make one
(`tcache_shutting_down`), so no chunk it frees is cached. Since no step of a thread
writes another's record or tcache, whatever others do to the bin, the links or the
mutex leaves it alone, and no statement about the list is needed.

`OInv` says who owns each chunk. Its core, `Owned`, asks for an assignment of chunks to
owners: the arena, the client, the fast bin, the list a consolidation is walking, or a
field of one thread (`p`, `got`, `mem`, `todo`, `entries`). The fast bin and the list being walked are
sequences without repetitions that the links spell out (`IsList`). With one owner for each chunk
almost every step is local: it hands one chunk over (`Hands`), or a whole list
(`TakesList`), and what others own, and the links of their lists, stay. Three facts need
more:

* A push links a chunk while it is still the thread's own, so setting the link disturbs
  no list; the exchange succeeds only if the first chunk is the one linked to, which may
  be another visit of the same chunk: the list is then right nevertheless.
* A removal reads the first chunk and its link before it exchanges. Only a thread
  with the mutex takes chunks away (`Alone`), so between its steps others only push:
  the chunk it has read stays in the list with its link (`Looks`). This is why the
  exchange cannot be deceived by a chunk that has left the bin and come back.
* `ChecksWithMutex` finds top smaller than the arena (`Room`), because the two are
  equal only between the stores of a `systrim` that has the mutex.

`ChunkHasOneOwner` then reads `Places` off the assignment: `Chain` spells the list and
ends within as many steps as there are chunks (`ChainShows`, by `SetInduction`).

### Sepia filter

| Theorem | Statement |
|---|---|
| `FiltersAgree`, `GroupsStayInside`, `TypeCorrect` | `Spec => []SameAsScalar`, `[]LoopsStayInside`, `[]TypeOK` |
| `CommandTellsResult` | `CommandSpec => []ExitTellsResult` |

The filter's invariant: a whole number of pixels is done, each the scalar filter's,
nothing is written behind them, and what is left to the vector loop is a multiple of
four that ends at `simd_count`. Around it, `CommandInv` says what main holds at each of
its steps, that there is an image to write once the filter has returned one, and that
the target begins like it.

### Word reader and dictionary

`LibraryProofs` assumes that a blank, a zero, letters and `Garbage` are different things
(`ByteAssumption`), and that there is a largest buffer, which is the memory behind it
(`SizeAssumption`).

| Theorem | Statement |
|---|---|
| `ReaderInvariant`, `ReaderTypeCorrect`, `NothingOverrun` | `ReaderSpec => []RInv`, `[]ReaderTypeOK`, `[]NoOverrun` |
| `ReturnsNextWord`, `FailsForAReason` | `ReaderSpec => []WordIsNext`, `[]FailureIsJustified` |
| `DictInvariant`, `AnswersRight`, `ComparesOnlyWritten` | `Spec => []DInv`, `[]AnswerIsRight`, `[]ComparesWrittenBytes` |

`RInv`: between two characters there is room for one more and the zero; what lies before
`length` has been written; and, until a read fails, the input from where the call began
is blanks and then the bytes in the buffer (`Progress`). The properties name the start and
the length of the next word by CHOOSE; the proof shows that only one start and one
length fit. `DInv` adds that `read_word` is called once with the whole buffer, that none of the
entries passed is the word, and what each of the three ends has printed. Reads and
writes that fail are steps like any other; `failed` and `lost` are what the properties
except.

### Numbers

Here `LibraryProofs` assumes an even number of words and texts without zero bytes.

| Theorem | Statement |
|---|---|
| `IoInvariant` | `Spec => []IoInv` |
| `ParsesTheNumeral`, `PrintsTheNumeral` | `Spec => []ParseReadsNumeral`, `Spec => []PrintsNumeral` |

The value of a numeral is a recursive function of its digits. `Iterates` provides its
values, so that a digit more means ten times the value and the digit (`Follows`); a digit put in
front, which is how `print_uint` works, is an induction over the digits behind it (`Reads`). While
printing, the digits still to come (`rax`) and those in the buffer make the number; while
parsing, `rax` is the value of the digits so far modulo the word, since taking
the remainder at each step is taking it at the end (`ModStep`).

### Only model-checked

Of the safety properties, four of `PtMalloc`: `StateChecked`, `AbortsOnlyOffPage`,
`TakesBestFit` and `NullMeansRefused`. The first two are about
the boundary tags, the order of the bins and the rings of the large bins, which ownership
does not depend on because the code asserts what it needs of them; that these
assertions never fail is the very thing to prove there. `TakesBestFit` needs the order of the bins and
that the map of bins has no false zero. Liveness,
`CallsReturn` (both) and `Terminates`, stays with TLC because liveness under fairness is
beyond the prover.

### Not modelled

* Of `malloc-impl.c`: other arenas and the choice between them (`arena.c` is not in the
  repository); hooks, memory tagging, `perturb`; statistics and their output
  (`mallinfo`, `malloc_stats`, `malloc_info`, maxima); the contents of memory, hence
  what `calloc` clears and `realloc` copies; the keys that detect a double free in the
  tcache, as the client frees each block once; `valloc`, `pvalloc` and
  `posix_memalign`, which check and round their arguments and call memalign; requests
  beyond `PTRDIFF_MAX`, refused before anything happens; a break that others lower
  (malloc-impl.c:2699); races on mapped chunks' counters and thresholds.
* Of lab 4: `mem_debug.c` and `util.c` (they print), and the tester's harness.
* Of lab 3: the matcher's handling of a wrong number of arguments, and sizes so large
  that three times the width wraps.
* Of lab 5: single-precision rounding, and the benchmark.
* The seminars' exercises, build files, Python harnesses and texts.

## 7. Plan

What would come next, in order of importance.

1. `PtMalloc`: `StateChecked` for every instance, with the boundary
   tags of `ArenaCheck` added to the invariant of ownership.
2. An abstract allocator that `PtMalloc` implements, as `MemAllocator` does `HeapSpec`:
   pieces of memory that do not overlap, handed out and taken back.
3. The counters of mapped chunks that several threads change, the one hazard whose
   behaviour is not modelled at all.
4. The `parse_uint` of the seminars.

## 8. Running

    tlc -workers 2 -config MemAllocator.cfg MCMemAllocator.tla
    tlapm MemAllocatorProofs.tla

and likewise for the other runs (`PROJECT.json` lists module and configuration) and
proof modules.
