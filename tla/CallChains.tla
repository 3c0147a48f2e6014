------------------------------ MODULE CallChains ------------------------------
(***************************************************************************)
(* Runs the programs that make one call after another, each under the      *)
(* options it may be given: what it holds and on which lcore it got it,    *)
(* which call failed, and how it ends.  A call begins, with what the       *)
(* program releases just before it, and ends later, well or badly.         *)
(***************************************************************************)
EXTENDS BlobChains, BlobfsChains, DirectChains

CONSTANTS
  MaxFiles,            \* how many files, or blocks, a run may have
  MaxName,             \* how many characters a name in the archive may have
  QueueSize,           \* the requests a queue pair has room for
  MaxActive            \* the 500u of sequential_write

ASSUME ConstantsOK ==
  /\ MaxFiles \in Nat /\ MaxName \in Nat \ {0}
  /\ QueueSize \in Nat \ {0} /\ MaxActive \in Nat \ {0}

Null == -1             \* the place of a resource that is a null pointer

(* A program and its options: --create, what it is told to do, --count or  *)
(* the number of files in the archive or the file system; --block_size     *)
(* where a 0 gets as far as a division.                                    *)
Options(name, create, mode, files, block) ==
  [name : {name}, create : create, mode : mode, files : files, block : block]
Runs ==
  LET n == 0 .. MaxFiles IN
  UNION {Options("hello", {TRUE}, {"write"}, {0}, {1}),
         Options("bdev", BOOLEAN, {"read"}, {0}, {1}),
         Options("blobfs", BOOLEAN, {"read", "write", "delete"}, {0}, {1}),
         Options("blobfs_write_files", {TRUE}, {"write", "flush"}, n, {1}),
         Options("blobfs_read_files", {FALSE}, {"read"}, n, {1}),
         Options("bdev_benchmark_sync", {FALSE}, {"read", "write", "flush"}, n, {1}),
         Options("io_benchmark_sync", {FALSE}, {"read", "write"}, n, {0, 1}),
         Options("sequential", {FALSE}, {"read"}, {0}, {1}),
         Options("sequential_write", {FALSE}, {"write"}, n, {1}),
         Options("cmb", {FALSE}, {"allocate"}, {0}, {1})}

Names == UNION {[1 .. n -> {"a", "/", "_"}] : n \in 1 .. MaxName}

VARIABLES
  run,                 \* the program and its options
  names,               \* the names of the files in the archive
  pc,                  \* the call it is at
  calling,             \* whether that call has begun
  file, done,          \* the file it is at, the files it has done
  lcore,               \* where it runs
  held,                \* what it holds, with the lcore that got it or Null
  foreign,             \* what was used or released on another lcore
  failed,              \* the operations that failed
  rc,                  \* the error reported, or "ok"
  status,              \* of the process
  active,              \* context->active_count of sequential_write
  commands             \* in the queue pair

place  == <<pc, calling, file, done, lcore>>
errors == <<failed, rc>>
queue  == <<active, commands>>
vars == <<run, names, place, held, foreign, errors, status, queue>>

(* "stopping": the reactors have ended, or main has returned, and the      *)
(* context is about to be destroyed.                                       *)
Status == {"running", "stopping", "exited", "aborted", "undefined"}

(* sequential_write leaves active_count uninitialised. *)
Init ==
  /\ run \in Runs
  /\ names \in [1 .. run.files -> IF run.name = "blobfs_write_files"
                                  THEN Names ELSE {<<"a">>}]
  /\ pc = 1 /\ calling = FALSE
  /\ file = 0 /\ done = {}
  /\ lcore = 0
  /\ held = <<>>
  /\ foreign = {} /\ failed = {} /\ rc = "ok"
  /\ status = "running"
  /\ active \in IF run.name = "sequential_write" THEN 0 .. MaxActive + 1 ELSE {0}
  /\ commands = 0

-------------------------------------------------------------------------------
Chain ==
  CASE run.name = "hello" -> Hello
    [] run.name = "bdev" -> Bdev(run.create)
    [] run.name = "blobfs" -> Blobfs(run.create, run.mode)
    [] run.name = "blobfs_write_files" -> WriteFiles(run.mode = "flush")
    [] run.name = "blobfs_read_files" -> ReadFiles
    [] run.name = "bdev_benchmark_sync" -> BenchmarkSync(run.mode, run.files)
    [] run.name = "io_benchmark_sync" -> IoSync(run.mode, run.files, run.block)
    [] run.name = "sequential" -> Sequential
    [] run.name = "sequential_write" -> SequentialWrite
    [] run.name = "cmb" -> Cmb

Current == Chain.calls[pc]

LastFile_Bug(f) == f + 1 >= run.files - 1
LastFile(f) == f + 1 = run.files
Following_Bug(f) == f
Following(f) == f + 1

(* Go on with the next call, the first one for the next file, or the end.  *)
Proceed ==
  /\ calling' = FALSE
  /\ IF pc = Chain.last
     THEN /\ done' = done \cup {file}
          /\ file' = IF LastFile(file) THEN file ELSE Following(file)
          /\ pc' = IF LastFile(file) THEN pc + 1 ELSE Chain.first
     ELSE /\ pc' = IF pc + 1 = Chain.first /\ run.files = 0
                   THEN Chain.last + 1 ELSE pc + 1
          /\ UNCHANGED <<file, done>>
  /\ status' = IF pc' > Len(Chain.calls) THEN "stopping" ELSE "running"

-------------------------------------------------------------------------------
Ready(hows) == status = "running" /\ ~ calling /\ Current.how \in hows

(* A resource is not there or null (a divisor is one that is not there);   *)
(* or the deleter of a shared_ptr is run on a null channel.                *)
Nulls == {r \in DOMAIN held : held[r] = Null}
Misused ==
  \/ ~ (Current.needs \subseteq DOMAIN held \ Nulls)
  \/ "channel" \in Current.drops \cap Nulls

Misuse ==
  /\ Ready({"now", "callback", "request", "event", "submit", "poll", "claim", "spin"})
  /\ Misused
  /\ status' = "undefined"
  /\ UNCHANGED <<run, names, place, held, foreign, errors, queue>>

(* What belongs to the lcore it was got on: a channel is used and released *)
(* there, the others are given back there.                                 *)
Foreign(R) ==
  {r \in R \cap DOMAIN held \cap {"channel", "store", "blob", "fs", "file"} :
     held[r] # lcore}

Begin ==
  /\ Ready({"now", "callback", "request", "event", "submit", "poll"})
  /\ ~ Misused
  /\ calling' = TRUE
  /\ held' = Restrict(held, DOMAIN held \ Current.drops)
  /\ foreign' = foreign \cup Foreign(Current.drops \cup Current.frees
                                     \cup (Current.needs \cap {"channel"}))
  /\ UNCHANGED <<run, names, pc, file, done, lcore, errors, status, queue>>

(* The event runs on its lcore. *)
Deliver ==
  /\ status = "running" /\ calling
  /\ Current.how = "event"
  /\ lcore' = Current.on
  /\ Proceed
  /\ UNCHANGED <<run, names, held, foreign, errors, queue>>

(* A call can end: a request is served by lcore 0, which is not blocked by *)
(* the caller itself.                                                      *)
Answerable ==
  /\ status = "running" /\ calling
  /\ Current.how # "event"
  /\ Current.how = "request" => lcore # 0

(* What SPDK refuses: to unload a store with an open blob, to create a     *)
(* file that exists, to queue more requests than there is room for.        *)
Refusal ==
  CASE Current.op = "unload" /\ "blob" \in DOMAIN held -> "EBUSY"
    [] /\ Current.op = "create"
       /\ \E f \in done : EscapeFileName(names[f + 1]) = EscapeFileName(names[file + 1])
       -> "EEXIST"
    [] Current.how = "submit" /\ commands = QueueSize -> "ENOMEM"
    [] OTHER -> "none"

(* H and what was got on lcore c, or as a null. *)
With(H, R, c) == [r \in DOMAIN H \cup R |-> IF r \in R THEN c ELSE H[r]]

Succeed ==
  /\ Answerable
  /\ Refusal = "none"
  /\ held' = With(Restrict(held, DOMAIN held \ Current.frees), Current.takes, lcore)
  /\ commands' \in CASE Current.how = "submit" -> {commands + 1}
                     [] Current.how = "poll" -> 0 .. commands
                     [] OTHER -> {commands}
  /\ Proceed
  /\ UNCHANGED <<run, names, lcore, foreign, errors, active>>

(* A null that nobody looks at, or an error nobody looks at. *)
FailUnseen ==
  /\ Answerable
  /\ \/ /\ Current.fails = "null"
        /\ held' = With(held, Current.takes, Null)
     \/ /\ Current.fails = "ignored"
        /\ UNCHANGED held
  /\ failed' = failed \cup {Current.op}
  /\ Proceed
  /\ UNCHANGED <<run, names, lcore, foreign, rc, queue>>

(* Commands complete, at least one of them with an error, which their      *)
(* callback does not look at.                                              *)
CompleteWithError ==
  /\ Answerable
  /\ Current.how = "poll"
  /\ commands > 0
  /\ commands' \in 0 .. commands - 1
  /\ failed' = failed \cup {"completion"}
  /\ Proceed
  /\ UNCHANGED <<run, names, lcore, held, foreign, rc, active>>

(* hello's unload_bs unloads a store that is there, and no other program   *)
(* tidies up: ABORT of the benchmarks throws through C code, as io_failure *)
(* does through main, the others stop the reactors or return -1.           *)
Unloads_Bug(op) == FALSE
Unloads(op) ==
  run.name = "hello" /\ op # "unload" /\ "store" \in DOMAIN held
Throws ==
  run.name \in {"blobfs_write_files", "blobfs_read_files",
                "bdev_benchmark_sync", "io_benchmark_sync"}

Fail ==
  /\ Answerable
  /\ Current.fails = "noticed"
  /\ failed' = failed \cup {Current.op}
  /\ rc' = IF Refusal = "none" THEN Current.op ELSE Refusal
  /\ calling' = FALSE
  /\ IF Unloads(Current.op)
     THEN pc' = Len(Chain.calls) /\ UNCHANGED status
     ELSE status' = (IF Throws THEN "aborted" ELSE "stopping") /\ UNCHANGED pc
  /\ UNCHANGED <<run, names, file, done, lcore, held, foreign, queue>>

(* sequential_write: take a place, or flush and try again.  Nothing polls  *)
(* the queue pair, so nothing ever gives a place back.                     *)
TakePlace ==
  /\ Ready({"claim"}) /\ ~ Misused
  /\ active < MaxActive
  /\ active' = active + 1
  /\ Proceed
  /\ UNCHANGED <<run, names, lcore, held, foreign, errors, commands>>

Flush ==
  /\ Ready({"claim"}) /\ ~ Misused
  /\ active >= MaxActive
  /\ \/ /\ commands < QueueSize
        /\ commands' = commands + 1
        /\ UNCHANGED <<status, errors>>
     \/ /\ rc' = Current.op
        /\ failed' = failed \cup {Current.op}
        /\ status' = "stopping"
        /\ UNCHANGED commands
  /\ UNCHANGED <<run, names, place, held, foreign, active>>

(* The loop on active_count at the end. *)
SpinOnCount ==
  /\ Ready({"spin"})
  /\ IF active = 0
     THEN Proceed /\ UNCHANGED <<run, names, lcore, held, foreign, errors, queue>>
     ELSE UNCHANGED vars

(* The context goes with main: hello_cleanup, or its smart pointers.  By   *)
(* then there is no reactor, and a channel is released on no lcore.        *)
Owned ==
  {"write_buff", "read_buff", "buffer", "files", "qpair"}
  \cup (IF run.name = "hello" THEN {} ELSE {"channel"})

Exit ==
  /\ status = "stopping"
  /\ status' = "exited"
  /\ held' = Restrict(held, DOMAIN held \ Owned)
  /\ foreign' = foreign \cup (Owned \cap {"channel"} \cap DOMAIN held)
  /\ UNCHANGED <<run, names, place, errors, queue>>

Ended == status \in {"exited", "aborted", "undefined"} /\ UNCHANGED vars

Next ==
  \/ Misuse \/ Begin \/ Deliver \/ Succeed \/ FailUnseen \/ CompleteWithError \/ Fail
  \/ TakePlace \/ Flush \/ SpinOnCount \/ Exit \/ Ended

(* Reactors poll, the device answers and a thread goes on. *)
Spec == Init /\ [][Next]_vars /\ WF_vars(Next)
-------------------------------------------------------------------------------
(* Type correctness of the members of the contexts modelled. *)
TypeOK ==
  /\ run \in Runs
  /\ pc \in 1 .. Len(Chain.calls) + 1 /\ calling \in BOOLEAN
  /\ file \in 0 .. MaxFiles /\ done \subseteq 0 .. MaxFiles - 1
  /\ lcore \in {0, 1}
  /\ \A r \in DOMAIN held : held[r] \in {Null, 0, 1}
  /\ status \in Status
  /\ active \in 0 .. MaxFiles + MaxActive + 1 /\ commands \in 0 .. QueueSize

(* The allocations (and the mmap) whose null nobody looks for. *)
Unchecked ==
  CASE run.name = "bdev" -> {"channel"}
    [] run.name \in {"blobfs", "blobfs_read_files"} -> {"channel", "buffer"}
    [] run.name = "blobfs_write_files" -> {"channel", "buffer", "mapped"}
    [] run.name = "io_benchmark_sync" -> {"files"}
    [] OTHER -> {}

(* The state is well typed and, whatever fails and wherever a chain is     *)
(* left, no program uses what it has not got or has given back, but for    *)
(* the allocations above: what it trips over is such a null, and all else  *)
(* the call uses is there.  Excepted are the two benchmarks that take a    *)
(* list of blocks to have elements (&files[ 0 ], elapsed / files.size()),  *)
(* and a --block_size of 0.                                                *)
NothingMisused ==
  /\ TypeOK
  /\ status = "undefined" =>
       \/ /\ Current.needs \subseteq DOMAIN held
          /\ Nulls \cap Unchecked \cap (Current.needs \cup Current.drops) # {}
       \/ /\ run.name \in {"bdev_benchmark_sync", "io_benchmark_sync"}
          /\ run.files = 0
       \/ run.name = "io_benchmark_sync" /\ run.block = 0

(* What may fail without making a difference to how a program ends: the    *)
(* truncate of blobfs, the status of sequential's read, the ioctl of       *)
(* io_benchmark_sync, and the buffers nobody uses.                         *)
Overlooked ==
  CASE run.name = "blobfs" -> {"truncate"}
    [] run.name = "blobfs_read_files" /\ run.files = 0 -> {"buffer"}
    [] run.name = "io_benchmark_sync" -> {"ioctl"}
    [] run.name = "sequential" -> {"completion"}
    [] run.name = "cmb" -> {"buffer"}
    [] OTHER -> {}

(* A program that ends without an error has done every file, nothing has   *)
(* failed but what it overlooks, and it has given everything back but the  *)
(* NVMe controller, which nobody detaches; only sequential may leave a     *)
(* command unanswered.  sequential_write ends so only without a write: it  *)
(* waits for completions it never polls for.                               *)
CleanExit ==
  status = "exited" /\ rc = "ok" =>
    /\ done = 0 .. run.files - 1
    /\ failed \subseteq Overlooked
    /\ DOMAIN held \subseteq {"ctrlr"}
    /\ commands > 0 => run.name \in {"sequential", "sequential_write"}
    /\ run.name = "sequential_write" => run.files = 0

(* Wherever hello_blob is broken off, unload_bs unloads the store if it is *)
(* there, unless that fails too: and it does, with EBUSY, exactly when the *)
(* chain broke while the blob was open, for unload_bs does not close it.   *)
HelloUnloads ==
  run.name = "hello" /\ status = "exited" =>
    /\ "store" \in DOMAIN held <=> rc \in {"unload", "EBUSY"}
    /\ "blob" \in DOMAIN held <=> rc = "EBUSY"

(* What is got on an lcore is used and given back there, except that       *)
(* blobfs.cpp makes on lcore 0 the channel it uses on lcore 1, that it and *)
(* blobfs_read_files unload on lcore 1 what was loaded on lcore 0, and     *)
(* that main releases the channel of a chain that broke.                   *)
OwnLcore ==
  foreign \subseteq
    CASE run.name = "blobfs" -> {"channel", "fs"}
      [] run.name = "blobfs_read_files" -> {"fs"}
      [] run.name = "bdev" /\ rc # "ok" -> {"channel"}
      [] OTHER -> {}

(* blobfs_write_files stops at a file that exists only if the archive has  *)
(* a name twice, or one in which a "/" stands beside a "/" or a "_":       *)
(* otherwise escape_file_name keeps the names apart.                       *)
Ambiguous(name) ==
  \E k \in 1 .. Len(name) - 1 :
    {name[k], name[k + 1]} \in {{"/"}, {"/", "_"}}
NamesKeptApart ==
  rc = "EEXIST" =>
    \E f \in done :
      \/ names[f + 1] = names[file + 1]
      \/ Ambiguous(names[f + 1]) \/ Ambiguous(names[file + 1])

(* Every program ends, even when lcore 1 blocks on what lcore 0 must do;   *)
(* but sequential_write may spin for ever.                                 *)
Termination ==
  <>(\/ status \notin {"running", "stopping"}
     \/ status = "running" /\ Current.how = "spin" /\ active # 0)
===============================================================================
