----------------------------- MODULE DirectChains -----------------------------
(***************************************************************************)
(* The programs below the block device or beside SPDK: bdev_benchmark_sync *)
(* and io_benchmark_sync, one block at a time; sequential,                 *)
(* sequential_write and cmb, on a queue pair of the NVMe driver.           *)
(***************************************************************************)
EXTENDS CallChain

(* The vector of files has elements if n is not 0. *)
Files(n) == IF n = 0 THEN {} ELSE {"files"}

(* bdev_benchmark_sync: run up to &ctx->files[ 0 ]. *)
BenchmarkOpen(n) ==
  <<Now("get_bdev", {}, {}), Now("buffer", {}, {"buffer"}),
    Now("desc", {}, {"desc"}), Now("channel", {"desc"}, {"channel"}),
    Surely("emplace_back", {}, Files(n)), Surely("first_file", {"files"}, {})>>

(* The event and io_file; --flush is for writes only. *)
BenchmarkIo(mode) ==
  LET Io(op) == Later(op, {"desc", "channel", "buffer"}, {}) IN
  CASE mode = "read" -> <<Post(0, {}), Io("read")>>
    [] mode = "write" -> <<Post(0, {}), Io("write")>>
    [] mode = "flush" -> <<Post(0, {}), Io("write"), Io("flush")>>

(* close, when the last block is done. *)
BenchmarkClose ==
  <<Dropping(Freeing(Surely("bdev_close", {}, {}), "desc"), {"channel", "buffer"})>>

BenchmarkSync(mode, n) ==
  Looping(BenchmarkOpen(n), BenchmarkIo(mode), BenchmarkClose)

(* io_benchmark_sync: one run of the benchmark; --repeat makes one after   *)
(* the other.  Nobody looks whether ioctl gave the size of a block device  *)
(* (of a regular file fstat did); the size is divided by --block_size.     *)
(* Every element has a buffer, filled when it is made.                     *)
Divisor(block) == IF block = 0 THEN {"divisor"} ELSE {}
IoSync(mode, n, block) ==
  Looping(<<Now("open", {}, {"fd"}), Now("fstat", {"fd"}, {}),
            Ignoring(Now("ioctl", {"fd"}, {})), Surely("available", Divisor(block), {})>>
            \o (IF n = 0 THEN <<>>
                ELSE <<Unseen("files", {}), Surely("fill", {"files"}, {})>>),
          <<Now(mode, {"fd", "files"}, {})>>,
          <<Freeing(Surely("close", {}, {}), "fd"),
            Surely("average", {"files"}, {})>>)

-------------------------------------------------------------------------------
(* The NVMe programs find the controller and make a queue pair on it, and  *)
(* take a buffer of the controller's or else of the host's.                *)
Attach ==
  <<Now("probe", {}, {"ctrlr"}), Now("qpair", {"ctrlr"}, {"qpair"}),
    Now("buffer", {"ctrlr"}, {"buffer"})>>

Submit(op) == Step(op, "submit", {"qpair", "buffer"}, {})

(* sequential polls for the end of its read, once; read_cb does not look   *)
(* at the status the read ended with.                                      *)
Poll == Step("process_completions", "poll", {"qpair"}, {})
Sequential == Straight(Attach \o <<Submit("read"), Poll>>)

(* sequential_write takes a place for each write, submits it, and spins at *)
(* the end until every place is given back.                                *)
Claim == Step("flush", "claim", {"qpair"}, {})
Spin == Step("spin", "spin", {}, {})
SequentialWrite ==
  Looping(Attach, <<Claim, Submit("write")>>, <<Submit("flush"), Spin>>)

(* cmb only tries the allocation. *)
Cmb ==
  Straight(<<Now("probe", {}, {"ctrlr"}),
             Ignoring(Now("buffer", {"ctrlr"}, {"buffer"}))>>)
===============================================================================
