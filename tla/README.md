# A TLA+ model of spdk_sample

`src/` is a collection of small C++ programs that move many files, blobs or
blocks between a tar archive, a directory or memory and an NVMe device, and
print how long it took. They share one shape, a bounded pipeline of
asynchronous transfers, and solve its problems (who takes the next item, who is
the last, what may be freed when) again and again with different machinery:
SPDK events on several cores, SPDK completions, kernel AIO with a polling
thread, POSIX AIO with notification threads. This project models each pipeline
at the grain at which its actors can interfere, states what they promise in
common as one abstract specification, checks that each implements it with TLC,
and proves with TLAPS, for every number of items and every option, that all six
of them do and that their counters, buffers and shutdowns are right. The ten
programs beside them make one call after another; they share one module, which
asks what becomes of them when a call fails, and what it answers is proved too,
for every number of files and names of any length.

Paths below are relative to `src/src/`.

## Inventory

| program | state it keeps | operations | what is hard | what makes it correct |
|---|---|---|---|---|
| `bdev_write_blobs.cpp` | blobstore, a channel per lcore, `head`, `completed_count`, `meta_count`, a stage per file | bring-up, create, open, resize, sync, write, close, unload, each an event or a callback | lcores make and free channels concurrently; completions in any order; the metadata throttle; the option 0 and options too large | each file written once, at most `--concurrency` in flight, no idle place while a file waits, clean unload |
| `bdev_read_blobs.cpp` | the same with `opening_count`, `closing_count`, `reading_count` | load, iterate, open, read, close, unload | `reading_count` is loaded and then exchanged while other lcores change it; throttled events post themselves again; channels of all lcores are reset from one | exact counters, no lost read, no spinning for ever, no channel freed under a read |
| `bdev_benchmark.cpp` | `global_left_count`, `head`, `clean_count`, the lock-free queue of buffer indices | start loop per lcore, completion, claim, flush, clean per lcore | all of it concurrent on all lcores; more indices than buffer when the device is small | distinct buffers inside the allocation, one flush after the last block, device closed after the last channel |
| `io_benchmark.cpp` | `completed_count`, `completed`, the group being submitted | `io_submit` in groups, poller thread | partial acceptance, EAGAIN, completion during submission | each request submitted and counted once, the poller leaves last |
| `linuxaio_read_files.cpp`, `linuxaio_write_files.cpp` | `active_count`, `completed_count`, `completed` | main thread: place, open, submit; poller: reap, close | compare-exchange against the poller; a full ring; order of the last steps | exact count, ring large enough, context alive for the last access, termination |
| `aio_read_files.cpp`, `aio_write_files.cpp` | the same | threads of an OpenMP loop; a notification thread per completion | any number of threads on one counter; the main thread destroys the context | exact count, one last callback, nothing but a last step after it |
| `tar_benchmark.cpp` | none (functions) and the results queue | map the archive, parse headers, record and print times | GNU long names, block rounding, end of archive | exactly the files of the archive, each with its own name and place; nothing read outside it |
| `sequential_write.cpp` | `active_count`, never initialised | take a place, write, flush every 500, wait | nobody polls for completions, so no place is ever given back | it ends without an error only if there was nothing to write |
| `blobfs_write_files.cpp`, `blobfs_read_files.cpp`, `blobfs.cpp` | file system, one channel, files | synchronous calls on lcore 1, served by lcore 0 as events | a caller that waits for itself; what was got on one lcore and is used on the other; names flattened by `escape_file_name` | they end; what is foreign is known; no two names collide that need not |
| `bdev_benchmark_sync.cpp`, `io_benchmark_sync.cpp` | the block they are at | one block at a time, a flush behind each | a count of 0: `&files[ 0 ]`, a division by `files.size()` | every block done once, nothing used before or after its time |
| `blob.c`, `blob.cpp`, `bdev.cpp` | store, blob, channel, buffers | a chain of callbacks; `unload_bs` wherever it breaks (`blob`) | each call may fail after others have succeeded | what is left behind, and that the error path does unload |
| `sequential.cpp`, `cmb.cpp` | controller, queue pair, buffer | probe, one read polled for once; an allocation | as above | as above |

Components interact only through the tar reader (the list of files) and the
operating system or SPDK: no two programs run together. The interactions that
matter are inside each program: events posted to the ring of an lcore (a FIFO),
callbacks on the lcore that submitted a command, threads sharing atomics,
requests that block one lcore until another has served them.

## Modules

| module | models | extends or uses |
|---|---|---|
| `Transfer` | nothing: the abstract specification. A set of items, a limit, items in flight, items done, one outcome | |
| `WriteBlobs`, `WriteBlobsProofs` | `bdev_write_blobs.cpp` | instance of `Transfer` |
| `ReadBlobs`, `ReadBlobsProofs` | `bdev_read_blobs.cpp` | instance of `Transfer` |
| `BdevBenchmark`, `BdevBenchmarkProofs` | `bdev_benchmark.cpp` | instance of `Transfer` |
| `IoBenchmark`, `IoBenchmarkProofs` | `io_benchmark.cpp` | instance of `Transfer` |
| `LinuxAio`, `LinuxAioProofs` | `linuxaio_read_files.cpp`, `linuxaio_write_files.cpp` | instance of `Transfer` |
| `AioFiles`, `AioFilesProofs` | `aio_read_files.cpp`, `aio_write_files.cpp` | instance of `Transfer` |
| `FileList` | the vector of files of the two programs that read directories | |
| `TarFile` | `load_tar` and `parse_tar` of `tar_benchmark.cpp`, on archives as GNU tar writes them | |
| `FilesProofs` | the theorems about both | extends both |
| `CallChain` | nothing: what a call is | |
| `BlobChains` | the calls of `blob.c`, `blob.cpp`, `bdev.cpp` | `CallChain` |
| `BlobfsChains` | the calls of `blobfs.cpp`, `blobfs_write_files.cpp`, `blobfs_read_files.cpp` | `CallChain` |
| `DirectChains` | the calls of `bdev_benchmark_sync.cpp`, `io_benchmark_sync.cpp`, `sequential.cpp`, `sequential_write.cpp`, `cmb.cpp` | `CallChain` |
| `CallChains`, `CallChainsProofs` | what runs them: places, resources, failures, lcores, exits | the three above |

A module `...Proofs` extends the module it is about and TLAPS, and holds its
theorems; `FilesProofs` extends two, so `FileList` has names of its own (`ListSpec`,
`ListInductive`, ...). TLC runs the modules themselves; bounds are constants with a
value in the `.cfg`.

A call of a `CallChain` is a record: what is called (`op`), how its result
arrives (`how`: at once, by a callback, as a request another lcore serves, as
an event on another lcore, through a queue pair, or one of the two loops on a
counter), the resources it is given (`needs`), those released on the way to it
(`drops`), those that are there or gone if it succeeds (`takes`, `frees`), and
what the source makes of its failure (`fails`). `CallChains` has one action per
way a call can go on (`Begin`, `Deliver`, `Succeed`, `Fail`, `FailUnseen`,
`CompleteWithError`, `Misuse`, ...), so the chains are data and the same properties are asked of all.

Conventions. A variable has the name of the member it models. An action is one
handler or callback from its first to its last statement, unless another actor
may change an atomic between two of its accesses: then it is one action per
access (`LoadReadingCount`/`ExchangeReadingCount`, `LoadActive`/`ExchangeActive`,
`CountDown`/`Claim`/`Submit`, `Record`/`GivePlaceBack`). `stage` says where an
item is: in a ring as an event, at the device as a command, or between two
accesses of the handler that has it. `status` is that of the process: the macro
`ABORT` and an uncaught exception end it ("aborted"); "undefined" is the use of
an element that is not there, of a null pointer or of a mapping that failed (the
reader of archives calls it "crashed"), after which nothing is claimed but why it
came to that. A call that can fail has the failing alternative beside the
succeeding one, and where the source does not look at the result, it goes on as
if nothing had happened: channels of the two blob programs may be null, and so
may the buffer the writer copies the archive to, the archive itself may not be
mapped, and `sequential`'s read may complete with an error. The calls that have no
failing alternative are listed under "Not modelled". A definition
named `..._Bug` is a mistake (a dropped guard, an off-by-one, a swapped order)
and is used by no specification: each property is checked to fail when the
definition of the same name without the suffix is replaced by it.

What is abstracted: the contents and sizes of items, names (except where
`escape_file_name` and the tar reader look at them), times, printing, and the
offsets on the device. The number of items, options, cores and threads
are constants or chosen in `Init`.

External code is modelled from how it is used: io_submit and io_getevents (a
ring of `RingSize` requests, each complete at any later moment, whose slot is
free when its event is reaped), SIGEV_THREAD (a thread per completion), the
static schedule of OpenMP, the doubling of `std::vector`, and SPDK: an event is
run once by the lcore it was posted to, a callback by the lcore of its channel;
a channel belongs to the lcore that got it; a synchronous call of blobfs blocks
its caller until lcore 0 has served it; a store with an open blob refuses to be
unloaded (`EBUSY`), a file system to create a file it has (`EEXIST`), a full
queue pair to take a command.

## Runs

All bounds are in the `.cfg` files; deadlock is checked everywhere (`Ended` is
the only step of a process that has ended).

| run | question | bounds and why they are enough |
|---|---|---|
| `write_blobs_pipeline` | is the pipeline of the writer bounded, full, exact, clean, terminating, a `Transfer`, and what becomes of it when a channel is null? | 4 files, 2 lcores, `--concurrency` from 0 (all) to one more than the files: files start in the first group, in later claims and at the end; room for two metadata operations and 4-bit words, so `meta_count` is saturated and wraps |
| `write_blobs_meta_bound` | does `max_meta_concurrency` bound anything? (no) | 3 files and room for 2 operations: one more than the bound |
| `read_blobs_pipeline` | the same for the reader, its shared counter and its bring-up, channels that are null included | stores of 0, 1 and 4 blobs on 3 lcores: one lcore submits to another's channel while a third changes the counter; two slots of each metadata kind, so a third operation is throttled; `--concurrency` from 0 (all) to one more than the blobs |
| `bdev_benchmark_blocks` | buffers, claims, flush and shutdown across lcores | `--count` 5 on a device of 4 blocks; `--concurrency` 0, below, and above both; 2 lcores: one that flushes and one that is still on its way out |
| `io_benchmark_groups` | partial submission | groups from 0 to more than all, a ring smaller than a group |
| `linuxaio_threads` | two threads on one counter | 4 files, places below, at and above the ring |
| `linuxaio_default` | does the program run without its option? (no) | 2 files |
| `aio_threads` | loop threads and callbacks | 2 threads, 4 files, 3 places: two compete for the last |
| `file_list_moves`, `file_list_parts` | elements that move while they point to themselves (right), and keep their offsets (one program does not) | 4 elements: the vector moves one, then two |
| `tar_archives` | does the parser list the files that were written? | up to 2 members (one that moves the next) of every kind; blocks of 2 bytes, so that sizes are nothing, a part of a block, a whole one and more; names and link targets of one block and of two; up to 4 blocks cut off, two more than the zero blocks |
| `call_chains` | what do the ten other programs use, release, leave behind, on which lcore, and do they end? | 2 files: one that is done and one to collide with it; names of 1 or 2 characters out of a letter, `/` and `_`: all that `escape_file_name` tells apart, each beside each; a `--block_size` that is 0 or not; `QueueSize` 3 and `MaxActive` 2 (for 500), a queue with room for the writes and a flush, so that flushes fill it |

Runs marked "no" are expected to fail and are the findings:

- `create_file` and `close_file` of the writer test `max_meta_concurrency` but
  only skip the increment; the callback decrements all the same, so the counter
  wraps and then throttles nothing (`bdev_write_blobs.cpp:232`).
- The default `--concurrency` 0 means "all" in the SPDK programs and "none" in
  the AIO programs, which never start (`linuxaio_read_files.cpp:100`).
- The move constructor of `aio_read_files.cpp:55` drops `offset`.

What the passing runs allow for rather than exclude:

- With a `--concurrency` above the number of items the SPDK programs use elements
  past the end of the vector (`bdev_write_blobs.cpp:277`,
  `bdev_read_blobs.cpp:203`), and end as "undefined" in the model
  (`bdev_benchmark.cpp` takes the minimum, and `BufferInBounds` holds there).
- `spdk_bs_alloc_io_channel` may return null in `bdev_write_blobs.cpp:266` and
  `bdev_read_blobs.cpp:236`; the lcore is counted all the same. `IoOnOpenChannel` and
  `ReadsHaveChannels` show that every other step keeps its order, and say which use
  of a null ends the program: a write to it, a read that replaces it on the lcore it runs
  on (`bdev_read_blobs.cpp:143`; the deleter of what is replaced runs on null), or giving
  it back. The writer's `init_storage` may also copy to a null buffer, or from a
  mapping that failed.
- What `mmap` returns is never compared with `MAP_FAILED` (`tar_benchmark.cpp:83`).
  `ReadsInside` shows that the reader then ends at its first access and never comes
  back with a list; `blobfs_write_files` trips over it when it copies the archive (`:164`).
- An archive that lost its zero blocks, or has no member at all, is read one byte
  outside its mapping (`tar_benchmark.cpp:96` and `:68`), which `ReadsInside`
  excludes by its hypotheses.
- `NothingMisused`: some allocations are used without a look at their result
  (`Unchecked` lists them for each program: `bdev.cpp:75`, `blobfs.cpp:133`, ...); the
  two synchronous benchmarks take a list of blocks to have elements
  (`bdev_benchmark_sync.cpp:185`, `io_benchmark_sync.cpp:81`), and the second divides by
  `--block_size` (`:58`, `:62`). For the nulls the property says what the end looks like:
  the call that is about to be made uses one, and everything else it uses is there.
- `CleanExit`: `Overlooked` lists what may fail without a trace: a truncate (`blobfs.cpp`), the
  status `sequential`'s read completes with (`sequential.cpp:65`), `io_benchmark_sync`'s
  `ioctl` (`:61`), and a buffer nobody uses. Nobody detaches the NVMe controller,
  `sequential` may leave its read unanswered, and
  `sequential_write` never ends well once it has written: it spins for ever,
  which `Termination` allows for too.
- `HelloUnloads`: broken off while its blob is open, `blob` is refused the unload
  with `EBUSY`, because `unload_bs` closes no blob (`blob.c:96`).
- `OwnLcore`: the channel and file system of `blobfs.cpp`, the file system of
  `blobfs_read_files.cpp`, and the channel of a `bdev.cpp` that failed, are used or
  released on another lcore than the one they were got on.
- `NamesKeptApart`: `escape_file_name` makes one name of two when a `/` stands
  beside a `/` or a `_` in one of them.

## Fairness

`WF_vars(Next)` in the SPDK programs, the ten of `CallChains` included: the reactors
poll and devices answer, so whatever can happen next does not wait for ever; an event that posts itself again leaves the state
as it was and is no step that fairness asks for, so `Termination` also says that
something else is always due. In the programs with threads each thread has weak
fairness of its own, and so has the kernel's completion of requests; failing
(`ReapFails`) has none. Nowhere is a compare-exchange promised to succeed. The
hypotheses of `Termination` (an item to transfer, a place to transfer it in, room
for an event) are inputs for which the programs wait for ever otherwise; they
are listed as hazards. `ReadBlobs` needs none: it ends with an empty store too.

## Proofs

Eight modules prove theorems for every number of files, blocks, lcores and
threads, every limit and every option, from `ConstantsOK` of their module and
nothing else. Each proves `Spec => []Inductive` (`InductiveCorrect`; in
`WriteBlobsProofs` the conjuncts of `Inductive` by name), draws the invariants and
the refinement of `Transfer` from it, and has one lemma per conjunct or per action,
whichever is less, under which there is one step per action. `TypeOK` and
`Inductive` were model-checked on the instances above before they were proved; the runs
check what they imply.

| module | theorems | what `Inductive` adds to the invariants, and why |
|---|---|---|
| `WriteBlobsProofs` | `TypeCorrect`, `PipelineIsFull`, `ClaimsInOrder`, `WritesHaveChannels`, `ShutdownIsClean`, `ResultsAreExact`, `MetaCountIsExact`, `ImplementsTransfer` | that the last file closes the storage needs `completed_count` to be the number of closed files; that a write finds its lcore's event done needs the last lcore to have made its channel before the start event (`ChannelInv`), and `WritesHaveChannels` adds that a pending write has one that is not null (`WritesPending`) and at which uses of a null the process ends (`UndefinedBecause`); that nothing is left at the end needs the places in flight to be accounted for (`ClaimInv`). `meta_count` needs that a file which asks for a place is in flight and holds none |
| `ReadBlobsProofs` | `InductiveCorrect`, `CountsAreExact`, `PipelineIsFull`, `ReadsNeverThrottled`, `ReadsUseChannels`, `ShutdownIsClean`, `ImplementsTransfer` | the same `ChannelInv`, `ClaimInv`, `ReadsPending` and `UndefinedBecause`, and `ReadInv`: the blob whose `read_blob` an lcore is in the middle of was posted to that lcore, so no other one has it, it is not counted yet, and the exchange, which only succeeds on the value that was loaded, adds one for it |
| `BdevBenchmarkProofs` | `InductiveCorrect`, `ReadsStayInBuffer`, `ReadsHaveOwnBuffers`, `PopAlwaysSucceeds`, `ShutdownIsOrdered`, `ImplementsTransfer` | the blocks of the start loop are dealt to the lcores in turn (`LoopInv`); an lcore about to pop has claimed a block that has no buffer (`PopInv`); every place is a block in flight or on the way from one to the next (`CountInv`); buffer indices leave the queue in the order of the blocks or come back to it, so they are distinct and never short (`QueueInv`); and nothing of the shutdown begins before the count is zero, which is when all blocks are done, nor on an lcore before its own start loop has ended (`EndInv`) |
| `IoBenchmarkProofs` | `InductiveCorrect`, `SubmittedAndCountedOnce`, `ImplementsTransfer` | a request is in one place, in the ring, completed or reaped, and none before it was submitted (`Apart`): so accepting a part of a group adds that many to those under way, and each is counted when it leaves the last place; `completed` means all of them were (`Ending`) |
| `LinuxAioProofs` | `InductiveCorrect`, `ActiveCountExact`, `RingIsLargeEnough`, `ImplementsTransfer` | where the file of each thread is at each of its steps: the file at the main thread's index waits up to the exchange and is claimed until it is submitted (`MainInv`); the poller's keeps its place until the step of `close_file`, different in the two programs, that gives it back (`PollerInv`); each is recorded once (`RecordInv`); the poller leaves no file behind and leaves when all are recorded (`Ending`) |
| `AioFilesProofs` | `InductiveCorrect`, `ActiveCountExact`, `CompletionIsLast`, `ImplementsTransfer` | the shares of the static schedule are disjoint and cover the files (lemma `Schedule`); behind a thread's index its share waits, and the file at it is claimed from the exchange on (`LoopInv`); a file is counted once and one of them finds that it is the last (`CountInv`) |
| `FilesProofs` | of `TarFile`: `InductiveCorrect`, `FilesAreRead`, `ReaderStaysInside`; of `FileList`: `ListInductiveCorrect`, `SelfFollowsMoves`, `PartsAreAligned` | of the reader, see below; of the vector, that the parts of the buffer follow each other and end at `total_size`, which is a whole number of pages (`PartsInOrder`) |
| `CallChainsProofs` | `InductiveCorrect`, `NothingIsMisused`, `ExitsAreClean`, `HelloIsUnloaded`, `LcoresAreKept`, `NamesStayApart` | see below |

The proofs about `CallChains` have three layers. A table says of each program at which
of its calls each resource is held (`Span`) and which of them lcore 1 makes (`Away`).
The lemmas on the chains (two for each, `...Calls` and `...OK`, summed up in `ChainsOK`) show
that every call keeps to its table: it needs what is held before it, leaves what is held
after it, is made on the lcore where what it uses was got, is of a known kind if its
failure goes unseen, and, if that leaves a null, is followed by calls that go straight to
the one that trips over it (`Wait`, `WaitOK`); and that the loop over the files leaves what it found. The lemmas on
the actions then are about any chain that does: while nothing has failed the program holds
what the table says (`HeldInv`), on the lcore it says (`SiteInv`); the files done are those
before the one it is at (`LoopInv`); a failure nobody saw is one the program overlooks, or has
left a null that is still held, with the call that uses it ahead or tripped over
(`FailInv`, `NullInv`), which is why nothing but what is overlooked has failed before a
clean exit, which holds none; `sequential_write` has
given no place back since it took its first (`QueueInv`), so it cannot leave its loop; and
`unload_bs` is where a broken `hello_blob` goes with its store (`HelloInv`).

`NamesStayApart` needs what `escape_file_name` computes for names of any length. The folds
of `FlattenSeq` are unrolled into the function of all prefixes of the escaped name
(`Stages`, whose existence is shown), and what holds of every prefix is shown from the
well-foundedness of `<` on the naturals (`LeastOf`, `Induct`, from
`WellFoundedInduction`), which takes a set instead of the predicate that the library's
induction theorems are parameterised by. Where two names first differ, what they become
differs too unless one has a `/` and the other a `_` there (`EscapedApart`); then the `_`
has become two characters, so the `/` is followed by another `/` or `_` (`SlashFollowed`);
and no name is the beginning of another that becomes the same (`NotShorter`).

Of the `ImplementsTransfer` theorems the safety part is the refinement: every initial
state of the program maps to one of `Transfer`, and every action to `Advance`,
`Report`, `Fail` or a stutter. `Transfer` states no fairness.

The reader of archives is a loop over blocks; what it should find is a fold over members
(`Archive`, `Written`). `Inductive` says where the two meet: the reader is before the
header of one of the three parts a member may have, the blocks before it are those of the
members before (`At`, `End`), what it has listed is what these were written as, and it
remembers a long name only if the member's own header is next, and then where that name is
(`Before`). The lemmas take it apart in this order: `FlattenSeq` as the last of its
prefixes, each one sequence longer than the one before (`FlatNext`, `FlatBegins`); which
block is where (`BlockIs`, `HeaderThere`), how far the next header is (`BlocksIs`, the two
ways to round up to blocks agree), what is made of a header (`HeaderOK`), and that the
reader is then before the next part (`PartsFollow`, `Arrive`). That the loop stops at the
end of the last member and not before rests on the zero block there (`StatusAtEnd`), which is
why both properties ask for one.

Model-checked only: liveness (all `Termination`; out of the prover's reach, like
anything about ENABLED). Every invariant and every refinement the passing runs check is
proved.

## Not modelled

- Sizes and layout: the offsets of items on a device or in an archive's copy, the
  layout of the buffer of `linuxaio_write_files.cpp`, the sizes of buffers (and so
  `--block_size` of `sequential_write.cpp`, which multiplies the bytes that are filled
  but not the buffer), the size of the target of the `io_benchmark`s. Names and
  directories: a directory is its list of regular files.
- `--repeat` of `io_benchmark.cpp` and `io_benchmark_sync.cpp`: one run after the
  other, each with a context of its own.
- Failures without an alternative in the models: `spdk_event_allocate` running out of
  events, `std::bad_alloc`, and what the AIO programs call before their list of files
  is made (`posix_memalign`, `load_tar`, `io_queue_init`, `ioctl`). `FilesProofs` says what
  a mapping that failed does to any caller of `parse_tar`.
- A `--block_size` of 0, but for the division in `io_benchmark_sync.cpp`:
  `io_benchmark.cpp:75` divides by it in the same way; in the benchmarks on a block
  device it makes the size of the buffer 0, and its allocation, which is looked at, fail.
- Times and what is printed of them; command lines; the namespaces of a controller.
- The results of transfers that nobody looks at (short writes, `aio_error`,
  `fdatasync`): the models let failed and successful transfers end alike, as the
  programs do.
- Crashes and restarts: nothing the programs keep is read again by a later run of them,
  except stores and file systems, whose consistency is SPDK's.

What a further step could take up: the composition of the tar reader's list with
the writers that copy it, with the sizes and offsets of both.
