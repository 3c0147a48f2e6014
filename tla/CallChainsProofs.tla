-------------------------- MODULE CallChainsProofs --------------------------
(***************************************************************************)
(* Theorems about CallChains.  Every chain has a table that says at which  *)
(* of its calls each resource is held, and on which lcore the call is      *)
(* made; the lemmas on the chains show that every call keeps to its table, *)
(* and the invariant that the programs do, whatever fails.                 *)
(***************************************************************************)
EXTENDS CallChains, WellFoundedInduction, TLAPS

Resource ==
  {"store", "blob", "write_buff", "read_buff", "channel", "buffer", "fs", "file",
   "files", "desc", "fd", "ctrlr", "qpair", "mapped"}

(* The calls before which r is held, from the one after it was got to the  *)
(* one that gives it back, in a run in which nothing fails.                *)
HelloSpan(r) ==
  CASE r = "store" -> 4 .. 16
    [] r = "blob" -> 6 .. 14
    [] r = "write_buff" -> 9 .. 17
    [] r = "channel" -> 10 .. 16
    [] r = "read_buff" -> 12 .. 17
    [] OTHER -> {}
BdevSpan(create, r) ==
  CASE r = "store" -> IF create THEN 4 .. 13 ELSE 4 .. 9
    [] r = "blob" -> IF create THEN 6 .. 12 ELSE 5 .. 8
    [] r = "buffer" -> IF create THEN 9 .. 13 ELSE 6 .. 9
    [] r = "channel" -> IF create THEN 10 .. 13 ELSE 7 .. 9
    [] OTHER -> {}
BlobfsEnd(mode) == CASE mode = "read" -> 11 [] mode = "write" -> 16 [] OTHER -> 7
BlobfsSpan(mode, r) ==
  CASE r = "fs" -> 4 .. BlobfsEnd(mode)
    [] r = "channel" -> 5 .. BlobfsEnd(mode)
    [] r = "buffer" /\ mode # "delete" -> (BlobfsEnd(mode) - (IF mode = "read" THEN 3 ELSE 7)) .. BlobfsEnd(mode)
    [] r = "file" /\ mode # "delete" -> (IF mode = "read" THEN 7 ELSE 8) .. BlobfsEnd(mode) - 1
    [] OTHER -> {}
WriteFilesSpan(e, r) ==
  CASE r = "fs" -> 4 .. 16 + e
    [] r = "mapped" -> 6 .. 8
    [] r = "buffer" -> 7 .. 15 + e
    [] r = "channel" -> 11 .. 15 + e
    [] r = "file" -> 13 .. 14 + e
    [] OTHER -> {}
ReadFilesSpan(r) ==
  CASE r = "fs" -> 4 .. 10
    [] r = "channel" -> 6 .. 10
    [] r = "buffer" -> 7 .. 10
    [] r = "file" -> 8 .. 9
    [] OTHER -> {}
BenchmarkSpan(e, n, r) ==
  CASE r = "buffer" -> 3 .. 9 + e
    [] r = "desc" -> 4 .. 9 + e
    [] r = "channel" -> 5 .. 9 + e
    [] r = "files" /\ n # 0 -> 6 .. 10 + e
    [] OTHER -> {}
IoSyncSpan(n, r) ==
  CASE r = "fd" -> IF n = 0 THEN 2 .. 6 ELSE 2 .. 8
    [] r = "files" /\ n # 0 -> 6 .. 10
    [] OTHER -> {}
SequentialSpan(e, r) ==
  CASE r = "ctrlr" -> 2 .. 6 + e
    [] r = "qpair" -> 3 .. 6 + e
    [] r = "buffer" -> 4 .. 6 + e
    [] OTHER -> {}
CmbSpan(r) ==
  CASE r = "ctrlr" -> 2 .. 3
    [] r = "buffer" -> {3}
    [] OTHER -> {}

(* A flush is one call more. *)
Extra(mode) == IF mode = "flush" THEN 1 ELSE 0

Span(r) ==
  CASE run.name = "hello" -> HelloSpan(r)
    [] run.name = "bdev" -> BdevSpan(run.create, r)
    [] run.name = "blobfs" -> BlobfsSpan(run.mode, r)
    [] run.name = "blobfs_write_files" -> WriteFilesSpan(Extra(run.mode), r)
    [] run.name = "blobfs_read_files" -> ReadFilesSpan(r)
    [] run.name = "bdev_benchmark_sync" -> BenchmarkSpan(Extra(run.mode), run.files, r)
    [] run.name = "io_benchmark_sync" -> IoSyncSpan(run.files, r)
    [] run.name = "sequential" -> SequentialSpan(0, r)
    [] run.name = "sequential_write" -> SequentialSpan(2, r)
    [] run.name = "cmb" -> CmbSpan(r)
Has(k) == {r \in Resource : k \in Span(r)}

(* The calls made on lcore 1, and the lcore a resource is got on. *)
Away ==
  CASE run.name = "blobfs" -> 6 .. 17
    [] run.name = "blobfs_write_files" -> 10 .. 15 + Extra(run.mode)
    [] run.name = "blobfs_read_files" -> 5 .. 11
    [] OTHER -> {}
Where(k) == IF k \in Away THEN 1 ELSE 0

Homed == {"channel", "store", "blob", "fs", "file"}
Home(r) ==
  IF \/ r = "file"
     \/ r = "channel" /\ run.name \in {"blobfs_write_files", "blobfs_read_files"}
  THEN 1 ELSE 0
Allowed ==
  CASE run.name = "blobfs" -> {"channel", "fs"}
    [] run.name = "blobfs_read_files" -> {"fs"}
    [] OTHER -> {}

(* The two benchmarks that expect a block, without one or with blocks of   *)
(* size 0.                                                                 *)
Blockless ==
  \/ run.name \in {"bdev_benchmark_sync", "io_benchmark_sync"} /\ run.files = 0
  \/ run.name = "io_benchmark_sync" /\ run.block = 0

(* The allocations a null of which a program trips over, and the calls it  *)
(* makes from such a null to the call that needs what is not there.        *)
Trapped == {"buffer", "files", "mapped"} \ Overlooked
Wait ==
  CASE run.name = "blobfs" /\ run.mode = "read" -> {8}
    [] run.name = "blobfs" /\ run.mode = "write" -> {9, 13}
    [] run.name = "blobfs_write_files" -> {6, 7}
    [] run.name = "blobfs_read_files" /\ run.files # 0 -> {7, 8}
    [] run.name = "io_benchmark_sync" /\ run.files # 0 -> {6}
    [] OTHER -> {}

-------------------------------------------------------------------------------
(* What every call of a chain keeps to: it needs what is held, and leaves  *)
(* what the table says (HeldOK); it is made where the table says, and uses *)
(* and releases there what was got there (SiteOK); whose failure goes      *)
(* unseen is known (KindOK); and from a null the chain goes straight to    *)
(* the call that trips over it (WaitOK).                                   *)
HeldOK(c, k) ==
  /\ c.needs \subseteq Has(k) \/ Blockless
  /\ c.takes \subseteq Resource
  /\ \A r \in Resource :
       k + 1 \in Span(r) <=>
         r \in c.takes \/ (k \in Span(r) /\ r \notin c.drops /\ r \notin c.frees)

SiteOK(c, k) ==
  /\ Where(k + 1) = IF c.how = "event" THEN c.on ELSE Where(k)
  /\ \A r \in Homed :
       /\ r \in c.takes => Where(k) = Home(r)
       /\ r \in c.drops \cup c.frees \/ (r = "channel" /\ r \in c.needs) =>
            Where(k) = Home(r) \/ r \in Allowed
  /\ "channel" \in c.takes =>
       run.name \in {"hello", "bdev", "blobfs", "blobfs_write_files",
                     "blobfs_read_files", "bdev_benchmark_sync"}

KindOK(c, k) ==
  /\ c.op \notin {"ok", "EBUSY", "EEXIST", "ENOMEM"}
  /\ c.op = "unload" /\ run.name = "hello" <=> k = 16 /\ run.name = "hello"
  /\ k = 16 /\ run.name = "hello" =>
       c.needs = {"store"} /\ c.frees = {"store"} /\ c.takes = {}
  /\ c.fails = "null" =>
       /\ c.op \in {"buffer", "channel", "files", "mapped"} \cap Unchecked
       /\ c.takes = {c.op} /\ c.frees = {}
       /\ run.name # "hello" /\ k < Len(Chain.calls)
  /\ c.fails = "ignored" =>
       /\ c.op \in Overlooked /\ c.frees = {}
       /\ c.takes # {} => k = Len(Chain.calls)
       /\ run.name # "hello"
  /\ c.drops \subseteq {"buffer", "channel", "mapped"}
  /\ c.frees \cap {"buffer", "channel", "files", "mapped"} = {}
  /\ c.takes \cap Has(k) \subseteq c.drops
  /\ c.how \in {"event", "poll", "claim", "spin"} =>
       c.takes = {} /\ c.frees = {} /\ (c.how # "event" => c.drops = {})
  /\ c.how = "event" => c.fails = "never"
  /\ c.how = "submit" => run.name \in {"sequential", "sequential_write"}
  /\ c.how = "poll" => run.name = "sequential"
  /\ c.how = "claim" <=> run.name = "sequential_write" /\ k = 4
  /\ c.how = "spin" <=> run.name = "sequential_write" /\ k = 7
  /\ c.how \in {"now", "callback", "request", "event", "submit", "poll", "claim", "spin"}

GoesOn(k) == k # Chain.last /\ (k + 1 # Chain.first \/ run.files # 0)
WaitOK(c, k) ==
  /\ c.fails = "null" /\ c.op \in Trapped => k + 1 \in Wait /\ GoesOn(k)
  /\ k \in Wait =>
       \/ Has(k) \cap Trapped \subseteq c.needs
       \/ c.drops = {} /\ k + 1 \in Wait /\ GoesOn(k)

CallOK(k) ==
  /\ HeldOK(Chain.calls[k], k) /\ SiteOK(Chain.calls[k], k) /\ KindOK(Chain.calls[k], k)
  /\ WaitOK(Chain.calls[k], k)

(* And a chain: it begins with nothing and ends with what main releases;   *)
(* the loop leaves what it found.                                          *)
ChainOK ==
  LET n == Len(Chain.calls) IN
  /\ n \in Nat \ {0} /\ \A k \in 1 .. n : CallOK(k)
  /\ Has(1) = {} /\ Where(1) = 0
  /\ Has(n + 1) \subseteq Owned \cup {"ctrlr"} /\ "channel" \notin Has(n + 1)
  /\ Wait \subseteq 1 .. n
  /\ run.name = "hello" =>
       /\ n = 16 /\ Chain.first = 0 /\ Chain.last = 0
       /\ \A k \in 1 .. n : ("store" \in Has(k) <=> k >= 4) /\ ("blob" \in Has(k) => k \in 6 .. 14)
  /\ run.name = "sequential_write" => n = 7 /\ Chain.first = 4 /\ Chain.last = 5
  /\ \/ run.files = 0 /\ Chain.first = 0 /\ Chain.last = 0
     \/ /\ Chain.first \in 2 .. Chain.last /\ Chain.last \in 2 .. n - 1
        /\ Has(Chain.first) = Has(Chain.last + 1)
        /\ Where(Chain.first) = Where(Chain.last + 1)

-------------------------------------------------------------------------------
(* The invariant.                                                          *)
Coming == IF calling THEN Has(pc) \ Current.drops ELSE Has(pc)
HeldInv ==
  /\ DOMAIN held \subseteq Resource
  /\ status = "running" => pc \in 1 .. Len(Chain.calls)
  /\ status = "running" /\ rc = "ok" => DOMAIN held = Coming
  /\ status \in {"stopping", "exited"} /\ rc = "ok" =>
       pc = Len(Chain.calls) + 1 /\ DOMAIN held \subseteq Has(pc)
  /\ status = "exited" => DOMAIN held \cap Owned = {}

SiteInv ==
  /\ status = "running" => lcore = Where(pc)
  /\ \A r \in DOMAIN held \cap Homed : held[r] \in {Null, Home(r)}
  /\ Nulls \subseteq {"buffer", "channel", "files", "mapped"} \cap Unchecked
  /\ foreign \subseteq Allowed \cup (IF run.name = "bdev" /\ rc # "ok" THEN {"channel"} ELSE {})
  /\ "channel" \in DOMAIN held =>
       run.name \in {"hello", "bdev", "blobfs", "blobfs_write_files",
                     "blobfs_read_files", "bdev_benchmark_sync"}

(* The files done are those before the one the chain is at.                *)
LoopInv ==
  /\ file \in Nat
  /\ run.files = 0 =>
       done = {} /\ (Chain.last # 0 => pc \notin Chain.first .. Chain.last)
  /\ run.files > 0 =>
       /\ pc < Chain.first => file = 0 /\ done = {}
       /\ pc \in Chain.first .. Chain.last => file < run.files /\ done = 0 .. file - 1
       /\ pc > Chain.last => file < run.files /\ done = 0 .. run.files - 1

(* A failure nobody saw has left a null, which nothing gets rid of but the *)
(* call that trips over it; a call that has begun did not.                 *)
FailInv ==
  /\ rc = "ok" => failed \subseteq Overlooked \cup Nulls
  /\ Nulls \cap Trapped # {} => pc \in Wait
  /\ calling => Current.needs \cap Nulls = {}
  /\ rc # "ok" => status # "running" \/ run.name = "hello"
  /\ rc # "ok" /\ Throws => status = "aborted"

Collision ==
  \E f \in done : EscapeFileName(names[f + 1]) = EscapeFileName(names[file + 1])
NameInv ==
  /\ names \in [1 .. run.files -> Names]
  /\ rc = "EEXIST" => Collision /\ status # "running"

QueueInv ==
  /\ active \in 0 .. MaxActive + 1 /\ commands \in 0 .. QueueSize
  /\ calling => Current.how \notin {"claim", "spin"}
  /\ commands > 0 => run.name \in {"sequential", "sequential_write"}
  /\ run.name = "sequential_write" =>
       /\ run.files > 0 /\ (file > 0 \/ pc > 4) => active > 0
       /\ pc = 8 => active = 0

HelloInv ==
  run.name = "hello" =>
    /\ status = "running" /\ rc # "ok" =>
         pc = 16 /\ "store" \in DOMAIN held /\ rc \notin {"unload", "EBUSY"}
    /\ status \in {"stopping", "exited"} =>
         /\ "store" \in DOMAIN held <=> rc \in {"unload", "EBUSY"}
         /\ "blob" \in DOMAIN held <=> rc = "EBUSY"

NullInv ==
  status = "undefined" =>
    \/ /\ Current.needs \subseteq DOMAIN held
       /\ Nulls \cap (Current.needs \cup Current.drops) # {}
    \/ Blockless

Inductive ==
  /\ TypeOK /\ HeldInv /\ SiteInv /\ LoopInv /\ FailInv /\ NameInv /\ QueueInv
  /\ HelloInv /\ NullInv

-------------------------------------------------------------------------------
(* What the constructors of calls put into the members of a call.          *)
IsCall(c) ==
  DOMAIN c = {"op", "how", "needs", "takes", "drops", "frees", "on", "fails"}
Made(c, op, how, on, fails) ==
  IsCall(c) /\ c.op = op /\ c.how = how /\ c.on = on /\ c.fails = fails
Moves(c, needs, takes, drops, frees) ==
  c.needs = needs /\ c.takes = takes /\ c.drops = drops /\ c.frees = frees

LEMMA StepIs ==
  ASSUME NEW op, NEW how, NEW needs, NEW takes
  PROVE  LET c == Step(op, how, needs, takes) IN
         Made(c, op, how, 0, "noticed") /\ Moves(c, needs, takes, {}, {})
BY DEF Step, Made, Moves, IsCall

LEMMA PlainIs ==
  ASSUME NEW op, NEW needs, NEW takes
  PROVE  /\ LET c == Now(op, needs, takes) IN
            Made(c, op, "now", 0, "noticed") /\ Moves(c, needs, takes, {}, {})
         /\ LET c == Later(op, needs, takes) IN
            Made(c, op, "callback", 0, "noticed") /\ Moves(c, needs, takes, {}, {})
         /\ LET c == Ask(op, needs, takes) IN
            Made(c, op, "request", 0, "noticed") /\ Moves(c, needs, takes, {}, {})
BY StepIs DEF Now, Later, Ask

LEMMA SurelyIs ==
  ASSUME NEW op, NEW needs, NEW takes
  PROVE  LET c == Surely(op, needs, takes) IN
         Made(c, op, "now", 0, "never") /\ Moves(c, needs, takes, {}, {})
BY DEF Surely, Now, Step, Made, Moves, IsCall

LEMMA UnseenIs ==
  ASSUME NEW op, NEW needs
  PROVE  LET c == Unseen(op, needs) IN
         Made(c, op, "now", 0, "null") /\ Moves(c, needs, {op}, {}, {})
BY DEF Unseen, Now, Step, Made, Moves, IsCall

LEMMA PostIs ==
  ASSUME NEW l, NEW R
  PROVE  LET c == Post(l, R) IN
         Made(c, "event", "event", l, "never") /\ Moves(c, {}, {}, R, {})
BY DEF Post, Step, Made, Moves, IsCall

LEMMA IgnoringIs ==
  ASSUME NEW s, IsCall(s)
  PROVE  LET c == Ignoring(s) IN
         /\ Made(c, s.op, s.how, s.on, "ignored")
         /\ Moves(c, s.needs, s.takes, s.drops, s.frees)
BY DEF Ignoring, Made, Moves, IsCall

LEMMA DroppingIs ==
  ASSUME NEW s, IsCall(s), NEW R
  PROVE  LET c == Dropping(s, R) IN
         /\ Made(c, s.op, s.how, s.on, s.fails)
         /\ Moves(c, s.needs, s.takes, R, s.frees)
BY DEF Dropping, Made, Moves, IsCall

LEMMA FreeingIs ==
  ASSUME NEW s, IsCall(s), NEW r
  PROVE  LET c == Freeing(s, r) IN
         /\ Made(c, s.op, s.how, s.on, s.fails)
         /\ Moves(c, s.needs \cup {r}, s.takes, s.drops, {r})
BY DEF Freeing, Made, Moves, IsCall

-------------------------------------------------------------------------------
(* The chains.                                                            *)
(* The chain of blob.c, hello_blob.                                        *)
LEMMA HelloCalls ==
  ASSUME run.name = "hello"
  PROVE  /\ Len(Chain.calls) = 16
         /\ Chain.first = 0 /\ Chain.last = 0
         /\ Chain.calls[1] = Now("get_bdev", {}, {})
         /\ Chain.calls[2] = Now("create_bs_dev", {}, {})
         /\ Chain.calls[3] = Later("bs_init", {}, {"store"})
         /\ Chain.calls[4] = Later("create_blob", {"store"}, {})
         /\ Chain.calls[5] = Later("open_blob", {"store"}, {"blob"})
         /\ Chain.calls[6] = Later("resize", {"blob"}, {})
         /\ Chain.calls[7] = Later("sync_md", {"blob"}, {})
         /\ Chain.calls[8] = Now("write_buff", {}, {"write_buff"})
         /\ Chain.calls[9] = Now("channel", {"store"}, {"channel"})
         /\ Chain.calls[10] = Later("write", {"blob", "channel", "write_buff"}, {})
         /\ Chain.calls[11] = Now("read_buff", {}, {"read_buff"})
         /\ Chain.calls[12] = Later("read", {"blob", "channel", "read_buff"}, {})
         /\ Chain.calls[13] = Now("compare", {"write_buff", "read_buff"}, {})
         /\ Chain.calls[14] = Freeing(Later("close_blob", {}, {}), "blob")
         /\ Chain.calls[15] = Later("delete_blob", {"store"}, {})
         /\ Chain.calls[16] = Dropping(Freeing(Later("unload", {}, {}), "store"), {"channel"})
<1>1. Chain = Hello
  BY DEF Chain
<1> QED
  BY <1>1 DEF Hello, Straight, OpenDevice, HelloOpen, HelloWrite, HelloRead, UnloadBs

LEMMA HelloOK ==
  ASSUME run.name = "hello", run.files = 0
  PROVE  ChainOK
<1>1. \A r \in Resource : Span(r) =
        CASE r = "store" -> 4 .. 16
             [] r = "blob" -> 6 .. 14
             [] r = "write_buff" -> 9 .. 17
             [] r = "channel" -> 10 .. 16
             [] r = "read_buff" -> 12 .. 17
             [] OTHER -> {}
  BY DEF Resource, Span, HelloSpan
<1>2. Away = {} /\ Wait = {} /\ Unchecked = {}
      /\ Overlooked = {}
  BY DEF Away, Wait, Overlooked, Unchecked
<1> USE <1>1, <1>2 DEF Has, Resource
<1>3. Len(Chain.calls) = 16 /\ Chain.first = 0 /\ Chain.last = 0
  BY HelloCalls
<1>4. CallOK(1)
  <2>1. /\ Made(Chain.calls[1], "get_bdev", "now", 0, "noticed")
        /\ Moves(Chain.calls[1], {}, {}, {}, {})
    BY HelloCalls, PlainIs DEF Made, Moves
  <2> QED
    BY <1>3, <2>1 DEF Made, Moves, CallOK, HeldOK, SiteOK, KindOK,
       WaitOK, GoesOn, Trapped, Where, Homed, Home, Allowed, Blockless
<1>5. CallOK(2)
  <2>1. /\ Made(Chain.calls[2], "create_bs_dev", "now", 0, "noticed")
        /\ Moves(Chain.calls[2], {}, {}, {}, {})
    BY HelloCalls, PlainIs DEF Made, Moves
  <2> QED
    BY <1>3, <2>1 DEF Made, Moves, CallOK, HeldOK, SiteOK, KindOK,
       WaitOK, GoesOn, Trapped, Where, Homed, Home, Allowed, Blockless
<1>6. CallOK(3)
  <2>1. /\ Made(Chain.calls[3], "bs_init", "callback", 0, "noticed")
        /\ Moves(Chain.calls[3], {}, {"store"}, {}, {})
    BY HelloCalls, PlainIs DEF Made, Moves
  <2> QED
    BY <1>3, <2>1 DEF Made, Moves, CallOK, HeldOK, SiteOK, KindOK,
       WaitOK, GoesOn, Trapped, Where, Homed, Home, Allowed, Blockless
<1>7. CallOK(4)
  <2>1. /\ Made(Chain.calls[4], "create_blob", "callback", 0, "noticed")
        /\ Moves(Chain.calls[4], {"store"}, {}, {}, {})
    BY HelloCalls, PlainIs DEF Made, Moves
  <2> QED
    BY <1>3, <2>1 DEF Made, Moves, CallOK, HeldOK, SiteOK, KindOK,
       WaitOK, GoesOn, Trapped, Where, Homed, Home, Allowed, Blockless
<1>8. CallOK(5)
  <2>1. /\ Made(Chain.calls[5], "open_blob", "callback", 0, "noticed")
        /\ Moves(Chain.calls[5], {"store"}, {"blob"}, {}, {})
    BY HelloCalls, PlainIs DEF Made, Moves
  <2> QED
    BY <1>3, <2>1 DEF Made, Moves, CallOK, HeldOK, SiteOK, KindOK,
       WaitOK, GoesOn, Trapped, Where, Homed, Home, Allowed, Blockless
<1>9. CallOK(6)
  <2>1. /\ Made(Chain.calls[6], "resize", "callback", 0, "noticed")
        /\ Moves(Chain.calls[6], {"blob"}, {}, {}, {})
    BY HelloCalls, PlainIs DEF Made, Moves
  <2> QED
    BY <1>3, <2>1 DEF Made, Moves, CallOK, HeldOK, SiteOK, KindOK,
       WaitOK, GoesOn, Trapped, Where, Homed, Home, Allowed, Blockless
<1>10. CallOK(7)
  <2>1. /\ Made(Chain.calls[7], "sync_md", "callback", 0, "noticed")
        /\ Moves(Chain.calls[7], {"blob"}, {}, {}, {})
    BY HelloCalls, PlainIs DEF Made, Moves
  <2> QED
    BY <1>3, <2>1 DEF Made, Moves, CallOK, HeldOK, SiteOK, KindOK,
       WaitOK, GoesOn, Trapped, Where, Homed, Home, Allowed, Blockless
<1>11. CallOK(8)
  <2>1. /\ Made(Chain.calls[8], "write_buff", "now", 0, "noticed")
        /\ Moves(Chain.calls[8], {}, {"write_buff"}, {}, {})
    BY HelloCalls, PlainIs DEF Made, Moves
  <2> QED
    BY <1>3, <2>1 DEF Made, Moves, CallOK, HeldOK, SiteOK, KindOK,
       WaitOK, GoesOn, Trapped, Where, Homed, Home, Allowed, Blockless
<1>12. CallOK(9)
  <2>1. /\ Made(Chain.calls[9], "channel", "now", 0, "noticed")
        /\ Moves(Chain.calls[9], {"store"}, {"channel"}, {}, {})
    BY HelloCalls, PlainIs DEF Made, Moves
  <2> QED
    BY <1>3, <2>1 DEF Made, Moves, CallOK, HeldOK, SiteOK, KindOK,
       WaitOK, GoesOn, Trapped, Where, Homed, Home, Allowed, Blockless
<1>13. CallOK(10)
  <2>1. /\ Made(Chain.calls[10], "write", "callback", 0, "noticed")
        /\ Moves(Chain.calls[10], {"blob", "channel", "write_buff"}, {}, {}, {})
    BY HelloCalls, PlainIs DEF Made, Moves
  <2> QED
    BY <1>3, <2>1 DEF Made, Moves, CallOK, HeldOK, SiteOK, KindOK,
       WaitOK, GoesOn, Trapped, Where, Homed, Home, Allowed, Blockless
<1>14. CallOK(11)
  <2>1. /\ Made(Chain.calls[11], "read_buff", "now", 0, "noticed")
        /\ Moves(Chain.calls[11], {}, {"read_buff"}, {}, {})
    BY HelloCalls, PlainIs DEF Made, Moves
  <2> QED
    BY <1>3, <2>1 DEF Made, Moves, CallOK, HeldOK, SiteOK, KindOK,
       WaitOK, GoesOn, Trapped, Where, Homed, Home, Allowed, Blockless
<1>15. CallOK(12)
  <2>1. /\ Made(Chain.calls[12], "read", "callback", 0, "noticed")
        /\ Moves(Chain.calls[12], {"blob", "channel", "read_buff"}, {}, {}, {})
    BY HelloCalls, PlainIs DEF Made, Moves
  <2> QED
    BY <1>3, <2>1 DEF Made, Moves, CallOK, HeldOK, SiteOK, KindOK,
       WaitOK, GoesOn, Trapped, Where, Homed, Home, Allowed, Blockless
<1>16. CallOK(13)
  <2>1. /\ Made(Chain.calls[13], "compare", "now", 0, "noticed")
        /\ Moves(Chain.calls[13], {"write_buff", "read_buff"}, {}, {}, {})
    BY HelloCalls, PlainIs DEF Made, Moves
  <2> QED
    BY <1>3, <2>1 DEF Made, Moves, CallOK, HeldOK, SiteOK, KindOK,
       WaitOK, GoesOn, Trapped, Where, Homed, Home, Allowed, Blockless
<1>17. CallOK(14)
  <2>1. /\ Made(Chain.calls[14], "close_blob", "callback", 0, "noticed")
        /\ Moves(Chain.calls[14], {"blob"}, {}, {}, {"blob"})
    BY HelloCalls, FreeingIs, PlainIs DEF Made, Moves
  <2> QED
    BY <1>3, <2>1 DEF Made, Moves, CallOK, HeldOK, SiteOK, KindOK,
       WaitOK, GoesOn, Trapped, Where, Homed, Home, Allowed, Blockless
<1>18. CallOK(15)
  <2>1. /\ Made(Chain.calls[15], "delete_blob", "callback", 0, "noticed")
        /\ Moves(Chain.calls[15], {"store"}, {}, {}, {})
    BY HelloCalls, PlainIs DEF Made, Moves
  <2> QED
    BY <1>3, <2>1 DEF Made, Moves, CallOK, HeldOK, SiteOK, KindOK,
       WaitOK, GoesOn, Trapped, Where, Homed, Home, Allowed, Blockless
<1>19. CallOK(16)
  <2>1. /\ Made(Chain.calls[16], "unload", "callback", 0, "noticed")
        /\ Moves(Chain.calls[16], {"store"}, {}, {"channel"}, {"store"})
    BY HelloCalls, DroppingIs, FreeingIs, PlainIs DEF Made, Moves
  <2> QED
    BY <1>3, <2>1 DEF Made, Moves, CallOK, HeldOK, SiteOK, KindOK,
       WaitOK, GoesOn, Trapped, Where, Homed, Home, Allowed, Blockless
<1>20. ASSUME NEW k \in 1 .. 16 PROVE CallOK(k)
  BY <1>4, <1>5, <1>6, <1>7, <1>8, <1>9, <1>10, <1>11, <1>12, <1>13, <1>14, <1>15, <1>16, <1>17, <1>18, <1>19
<1>21. Has(1) = {} /\ Where(1) = 0
  BY DEF Where
<1>22. Has(17) \subseteq Owned \cup {"ctrlr"} /\ "channel" \notin Has(17)
  BY DEF Owned
<1>23. \A k \in 1 .. 16 : ("store" \in Has(k) <=> k >= 4) /\ ("blob" \in Has(k) => k \in 6 .. 14)
  OBVIOUS
<1> QED
  <2> HIDE <1>1, <1>2 DEF Has, Resource
  <2> QED BY <1>2, <1>3, <1>20, <1>21, <1>22, <1>23 DEF ChainOK

(* The chain of bdev, with --create.                                       *)
LEMMA BdevCreateCalls ==
  ASSUME run.name = "bdev", run.create
  PROVE  /\ Len(Chain.calls) = 13
         /\ Chain.first = 0 /\ Chain.last = 0
         /\ Chain.calls[1] = Now("get_bdev", {}, {})
         /\ Chain.calls[2] = Now("create_bs_dev", {}, {})
         /\ Chain.calls[3] = Later("bs_init", {}, {"store"})
         /\ Chain.calls[4] = Later("create_blob", {"store"}, {})
         /\ Chain.calls[5] = Later("open_blob", {"store"}, {"blob"})
         /\ Chain.calls[6] = Later("resize", {"blob"}, {})
         /\ Chain.calls[7] = Later("sync_md", {"blob"}, {})
         /\ Chain.calls[8] = Now("buffer", {}, {"buffer"})
         /\ Chain.calls[9] = Unseen("channel", {"store"})
         /\ Chain.calls[10] = Later("write", {"blob", "channel", "buffer"}, {})
         /\ Chain.calls[11] = Later("read", {"blob", "channel", "buffer"}, {})
         /\ Chain.calls[12] = Freeing(Later("close_blob", {}, {}), "blob")
         /\ Chain.calls[13] = Dropping(Freeing(Later("unload", {}, {}), "store"), {"buffer", "channel"})
<1>1. Chain = Bdev(run.create)
  BY DEF Chain
<1> QED
  BY <1>1 DEF Bdev, Straight, OpenDevice, BdevCreate, BdevRead

LEMMA BdevCreateOK ==
  ASSUME run.name = "bdev", run.create, run.files = 0
  PROVE  ChainOK
<1>1. \A r \in Resource : Span(r) =
        CASE r = "store" -> 4 .. 13
             [] r = "blob" -> 6 .. 12
             [] r = "buffer" -> 9 .. 13
             [] r = "channel" -> 10 .. 13
             [] OTHER -> {}
  BY DEF Resource, Span, BdevSpan
<1>2. Away = {} /\ Wait = {} /\ Unchecked = {"channel"}
      /\ Overlooked = {}
  BY DEF Away, Wait, Overlooked, Unchecked
<1> USE <1>1, <1>2 DEF Has, Resource
<1>3. Len(Chain.calls) = 13 /\ Chain.first = 0 /\ Chain.last = 0
  BY BdevCreateCalls
<1>4. CallOK(1)
  <2>1. /\ Made(Chain.calls[1], "get_bdev", "now", 0, "noticed")
        /\ Moves(Chain.calls[1], {}, {}, {}, {})
    BY BdevCreateCalls, PlainIs DEF Made, Moves
  <2> QED
    BY <1>3, <2>1 DEF Made, Moves, CallOK, HeldOK, SiteOK, KindOK,
       WaitOK, GoesOn, Trapped, Where, Homed, Home, Allowed, Blockless
<1>5. CallOK(2)
  <2>1. /\ Made(Chain.calls[2], "create_bs_dev", "now", 0, "noticed")
        /\ Moves(Chain.calls[2], {}, {}, {}, {})
    BY BdevCreateCalls, PlainIs DEF Made, Moves
  <2> QED
    BY <1>3, <2>1 DEF Made, Moves, CallOK, HeldOK, SiteOK, KindOK,
       WaitOK, GoesOn, Trapped, Where, Homed, Home, Allowed, Blockless
<1>6. CallOK(3)
  <2>1. /\ Made(Chain.calls[3], "bs_init", "callback", 0, "noticed")
        /\ Moves(Chain.calls[3], {}, {"store"}, {}, {})
    BY BdevCreateCalls, PlainIs DEF Made, Moves
  <2> QED
    BY <1>3, <2>1 DEF Made, Moves, CallOK, HeldOK, SiteOK, KindOK,
       WaitOK, GoesOn, Trapped, Where, Homed, Home, Allowed, Blockless
<1>7. CallOK(4)
  <2>1. /\ Made(Chain.calls[4], "create_blob", "callback", 0, "noticed")
        /\ Moves(Chain.calls[4], {"store"}, {}, {}, {})
    BY BdevCreateCalls, PlainIs DEF Made, Moves
  <2> QED
    BY <1>3, <2>1 DEF Made, Moves, CallOK, HeldOK, SiteOK, KindOK,
       WaitOK, GoesOn, Trapped, Where, Homed, Home, Allowed, Blockless
<1>8. CallOK(5)
  <2>1. /\ Made(Chain.calls[5], "open_blob", "callback", 0, "noticed")
        /\ Moves(Chain.calls[5], {"store"}, {"blob"}, {}, {})
    BY BdevCreateCalls, PlainIs DEF Made, Moves
  <2> QED
    BY <1>3, <2>1 DEF Made, Moves, CallOK, HeldOK, SiteOK, KindOK,
       WaitOK, GoesOn, Trapped, Where, Homed, Home, Allowed, Blockless
<1>9. CallOK(6)
  <2>1. /\ Made(Chain.calls[6], "resize", "callback", 0, "noticed")
        /\ Moves(Chain.calls[6], {"blob"}, {}, {}, {})
    BY BdevCreateCalls, PlainIs DEF Made, Moves
  <2> QED
    BY <1>3, <2>1 DEF Made, Moves, CallOK, HeldOK, SiteOK, KindOK,
       WaitOK, GoesOn, Trapped, Where, Homed, Home, Allowed, Blockless
<1>10. CallOK(7)
  <2>1. /\ Made(Chain.calls[7], "sync_md", "callback", 0, "noticed")
        /\ Moves(Chain.calls[7], {"blob"}, {}, {}, {})
    BY BdevCreateCalls, PlainIs DEF Made, Moves
  <2> QED
    BY <1>3, <2>1 DEF Made, Moves, CallOK, HeldOK, SiteOK, KindOK,
       WaitOK, GoesOn, Trapped, Where, Homed, Home, Allowed, Blockless
<1>11. CallOK(8)
  <2>1. /\ Made(Chain.calls[8], "buffer", "now", 0, "noticed")
        /\ Moves(Chain.calls[8], {}, {"buffer"}, {}, {})
    BY BdevCreateCalls, PlainIs DEF Made, Moves
  <2> QED
    BY <1>3, <2>1 DEF Made, Moves, CallOK, HeldOK, SiteOK, KindOK,
       WaitOK, GoesOn, Trapped, Where, Homed, Home, Allowed, Blockless
<1>12. CallOK(9)
  <2>1. /\ Made(Chain.calls[9], "channel", "now", 0, "null")
        /\ Moves(Chain.calls[9], {"store"}, {"channel"}, {}, {})
    BY BdevCreateCalls, UnseenIs DEF Made, Moves
  <2> QED
    BY <1>3, <2>1 DEF Made, Moves, CallOK, HeldOK, SiteOK, KindOK,
       WaitOK, GoesOn, Trapped, Where, Homed, Home, Allowed, Blockless
<1>13. CallOK(10)
  <2>1. /\ Made(Chain.calls[10], "write", "callback", 0, "noticed")
        /\ Moves(Chain.calls[10], {"blob", "channel", "buffer"}, {}, {}, {})
    BY BdevCreateCalls, PlainIs DEF Made, Moves
  <2> QED
    BY <1>3, <2>1 DEF Made, Moves, CallOK, HeldOK, SiteOK, KindOK,
       WaitOK, GoesOn, Trapped, Where, Homed, Home, Allowed, Blockless
<1>14. CallOK(11)
  <2>1. /\ Made(Chain.calls[11], "read", "callback", 0, "noticed")
        /\ Moves(Chain.calls[11], {"blob", "channel", "buffer"}, {}, {}, {})
    BY BdevCreateCalls, PlainIs DEF Made, Moves
  <2> QED
    BY <1>3, <2>1 DEF Made, Moves, CallOK, HeldOK, SiteOK, KindOK,
       WaitOK, GoesOn, Trapped, Where, Homed, Home, Allowed, Blockless
<1>15. CallOK(12)
  <2>1. /\ Made(Chain.calls[12], "close_blob", "callback", 0, "noticed")
        /\ Moves(Chain.calls[12], {"blob"}, {}, {}, {"blob"})
    BY BdevCreateCalls, FreeingIs, PlainIs DEF Made, Moves
  <2> QED
    BY <1>3, <2>1 DEF Made, Moves, CallOK, HeldOK, SiteOK, KindOK,
       WaitOK, GoesOn, Trapped, Where, Homed, Home, Allowed, Blockless
<1>16. CallOK(13)
  <2>1. /\ Made(Chain.calls[13], "unload", "callback", 0, "noticed")
        /\ Moves(Chain.calls[13], {"store"}, {}, {"buffer", "channel"}, {"store"})
    BY BdevCreateCalls, DroppingIs, FreeingIs, PlainIs DEF Made, Moves
  <2> QED
    BY <1>3, <2>1 DEF Made, Moves, CallOK, HeldOK, SiteOK, KindOK,
       WaitOK, GoesOn, Trapped, Where, Homed, Home, Allowed, Blockless
<1>17. ASSUME NEW k \in 1 .. 13 PROVE CallOK(k)
  BY <1>4, <1>5, <1>6, <1>7, <1>8, <1>9, <1>10, <1>11, <1>12, <1>13, <1>14, <1>15, <1>16
<1>18. Has(1) = {} /\ Where(1) = 0
  BY DEF Where
<1>19. Has(14) \subseteq Owned \cup {"ctrlr"} /\ "channel" \notin Has(14)
  BY DEF Owned
<1> QED
  <2> HIDE <1>1, <1>2 DEF Has, Resource
  <2> QED BY <1>2, <1>3, <1>17, <1>18, <1>19 DEF ChainOK

(* The chain of bdev, without --create.                                    *)
LEMMA BdevLoadCalls ==
  ASSUME run.name = "bdev", ~ run.create
  PROVE  /\ Len(Chain.calls) = 9
         /\ Chain.first = 0 /\ Chain.last = 0
         /\ Chain.calls[1] = Now("get_bdev", {}, {})
         /\ Chain.calls[2] = Now("create_bs_dev", {}, {})
         /\ Chain.calls[3] = Later("bs_load", {}, {"store"})
         /\ Chain.calls[4] = Later("iter_first", {"store"}, {"blob"})
         /\ Chain.calls[5] = Now("buffer", {}, {"buffer"})
         /\ Chain.calls[6] = Unseen("channel", {"store"})
         /\ Chain.calls[7] = Later("read", {"blob", "channel", "buffer"}, {})
         /\ Chain.calls[8] = Freeing(Later("close_blob", {}, {}), "blob")
         /\ Chain.calls[9] = Dropping(Freeing(Later("unload", {}, {}), "store"), {"buffer", "channel"})
<1>1. Chain = Bdev(run.create)
  BY DEF Chain
<1> QED
  BY <1>1 DEF Bdev, Straight, OpenDevice, BdevLoad, BdevRead

LEMMA BdevLoadOK ==
  ASSUME run.name = "bdev", ~ run.create, run.files = 0
  PROVE  ChainOK
<1>1. \A r \in Resource : Span(r) =
        CASE r = "store" -> 4 .. 9
             [] r = "blob" -> 5 .. 8
             [] r = "buffer" -> 6 .. 9
             [] r = "channel" -> 7 .. 9
             [] OTHER -> {}
  BY DEF Resource, Span, BdevSpan
<1>2. Away = {} /\ Wait = {} /\ Unchecked = {"channel"}
      /\ Overlooked = {}
  BY DEF Away, Wait, Overlooked, Unchecked
<1> USE <1>1, <1>2 DEF Has, Resource
<1>3. Len(Chain.calls) = 9 /\ Chain.first = 0 /\ Chain.last = 0
  BY BdevLoadCalls
<1>4. CallOK(1)
  <2>1. /\ Made(Chain.calls[1], "get_bdev", "now", 0, "noticed")
        /\ Moves(Chain.calls[1], {}, {}, {}, {})
    BY BdevLoadCalls, PlainIs DEF Made, Moves
  <2> QED
    BY <1>3, <2>1 DEF Made, Moves, CallOK, HeldOK, SiteOK, KindOK,
       WaitOK, GoesOn, Trapped, Where, Homed, Home, Allowed, Blockless
<1>5. CallOK(2)
  <2>1. /\ Made(Chain.calls[2], "create_bs_dev", "now", 0, "noticed")
        /\ Moves(Chain.calls[2], {}, {}, {}, {})
    BY BdevLoadCalls, PlainIs DEF Made, Moves
  <2> QED
    BY <1>3, <2>1 DEF Made, Moves, CallOK, HeldOK, SiteOK, KindOK,
       WaitOK, GoesOn, Trapped, Where, Homed, Home, Allowed, Blockless
<1>6. CallOK(3)
  <2>1. /\ Made(Chain.calls[3], "bs_load", "callback", 0, "noticed")
        /\ Moves(Chain.calls[3], {}, {"store"}, {}, {})
    BY BdevLoadCalls, PlainIs DEF Made, Moves
  <2> QED
    BY <1>3, <2>1 DEF Made, Moves, CallOK, HeldOK, SiteOK, KindOK,
       WaitOK, GoesOn, Trapped, Where, Homed, Home, Allowed, Blockless
<1>7. CallOK(4)
  <2>1. /\ Made(Chain.calls[4], "iter_first", "callback", 0, "noticed")
        /\ Moves(Chain.calls[4], {"store"}, {"blob"}, {}, {})
    BY BdevLoadCalls, PlainIs DEF Made, Moves
  <2> QED
    BY <1>3, <2>1 DEF Made, Moves, CallOK, HeldOK, SiteOK, KindOK,
       WaitOK, GoesOn, Trapped, Where, Homed, Home, Allowed, Blockless
<1>8. CallOK(5)
  <2>1. /\ Made(Chain.calls[5], "buffer", "now", 0, "noticed")
        /\ Moves(Chain.calls[5], {}, {"buffer"}, {}, {})
    BY BdevLoadCalls, PlainIs DEF Made, Moves
  <2> QED
    BY <1>3, <2>1 DEF Made, Moves, CallOK, HeldOK, SiteOK, KindOK,
       WaitOK, GoesOn, Trapped, Where, Homed, Home, Allowed, Blockless
<1>9. CallOK(6)
  <2>1. /\ Made(Chain.calls[6], "channel", "now", 0, "null")
        /\ Moves(Chain.calls[6], {"store"}, {"channel"}, {}, {})
    BY BdevLoadCalls, UnseenIs DEF Made, Moves
  <2> QED
    BY <1>3, <2>1 DEF Made, Moves, CallOK, HeldOK, SiteOK, KindOK,
       WaitOK, GoesOn, Trapped, Where, Homed, Home, Allowed, Blockless
<1>10. CallOK(7)
  <2>1. /\ Made(Chain.calls[7], "read", "callback", 0, "noticed")
        /\ Moves(Chain.calls[7], {"blob", "channel", "buffer"}, {}, {}, {})
    BY BdevLoadCalls, PlainIs DEF Made, Moves
  <2> QED
    BY <1>3, <2>1 DEF Made, Moves, CallOK, HeldOK, SiteOK, KindOK,
       WaitOK, GoesOn, Trapped, Where, Homed, Home, Allowed, Blockless
<1>11. CallOK(8)
  <2>1. /\ Made(Chain.calls[8], "close_blob", "callback", 0, "noticed")
        /\ Moves(Chain.calls[8], {"blob"}, {}, {}, {"blob"})
    BY BdevLoadCalls, FreeingIs, PlainIs DEF Made, Moves
  <2> QED
    BY <1>3, <2>1 DEF Made, Moves, CallOK, HeldOK, SiteOK, KindOK,
       WaitOK, GoesOn, Trapped, Where, Homed, Home, Allowed, Blockless
<1>12. CallOK(9)
  <2>1. /\ Made(Chain.calls[9], "unload", "callback", 0, "noticed")
        /\ Moves(Chain.calls[9], {"store"}, {}, {"buffer", "channel"}, {"store"})
    BY BdevLoadCalls, DroppingIs, FreeingIs, PlainIs DEF Made, Moves
  <2> QED
    BY <1>3, <2>1 DEF Made, Moves, CallOK, HeldOK, SiteOK, KindOK,
       WaitOK, GoesOn, Trapped, Where, Homed, Home, Allowed, Blockless
<1>13. ASSUME NEW k \in 1 .. 9 PROVE CallOK(k)
  BY <1>4, <1>5, <1>6, <1>7, <1>8, <1>9, <1>10, <1>11, <1>12
<1>14. Has(1) = {} /\ Where(1) = 0
  BY DEF Where
<1>15. Has(10) \subseteq Owned \cup {"ctrlr"} /\ "channel" \notin Has(10)
  BY DEF Owned
<1> QED
  <2> HIDE <1>1, <1>2 DEF Has, Resource
  <2> QED BY <1>2, <1>3, <1>13, <1>14, <1>15 DEF ChainOK

(* The chains of blobfs: to read, to write, to delete a file.              *)
LEMMA BlobfsReadCalls ==
  ASSUME run.name = "blobfs", run.mode = "read"
  PROVE  /\ Len(Chain.calls) = 11
         /\ Chain.first = 0 /\ Chain.last = 0
         /\ Chain.calls[1] = Now("get_bdev", {}, {})
         /\ Chain.calls[2] = Now("create_bs_dev", {}, {})
         /\ Chain.calls[3] = Later(IF run.create THEN "fs_init" ELSE "fs_load", {}, {"fs"})
         /\ Chain.calls[4] = Unseen("channel", {"fs"})
         /\ Chain.calls[5] = Post(1, {})
         /\ Chain.calls[6] = Ask("open", {"fs", "channel"}, {"file"})
         /\ Chain.calls[7] = Unseen("buffer", {})
         /\ Chain.calls[8] = Ask("read", {"file", "channel", "buffer"}, {})
         /\ Chain.calls[9] = Ask("sync", {"file", "channel"}, {})
         /\ Chain.calls[10] = Freeing(Ask("close", {"channel"}, {}), "file")
         /\ Chain.calls[11] = Dropping(Freeing(Later("unload", {}, {}), "fs"), {"buffer", "channel"})
<1>1. Chain = Blobfs(run.create, "read")
  BY DEF Chain
<1> QED
  BY <1>1 DEF Blobfs, Straight, OpenDevice, BlobfsOpen, BlobfsRead, UnloadFs

LEMMA BlobfsReadOK ==
  ASSUME run.name = "blobfs", run.mode = "read", run.files = 0
  PROVE  ChainOK
<1>1. \A r \in Resource : Span(r) =
        CASE r = "fs" -> 4 .. 11
             [] r = "channel" -> 5 .. 11
             [] r = "buffer" -> 8 .. 11
             [] r = "file" -> 7 .. 10
             [] OTHER -> {}
  BY DEF Resource, Span, BlobfsSpan, BlobfsEnd
<1>2. Away = 6 .. 17 /\ Wait = {8} /\ Unchecked = {"channel", "buffer"}
      /\ Overlooked = {"truncate"}
  BY DEF Away, Wait, Overlooked, Unchecked
<1> USE <1>1, <1>2 DEF Has, Resource
<1>3. Len(Chain.calls) = 11 /\ Chain.first = 0 /\ Chain.last = 0
  BY BlobfsReadCalls
<1>4. CallOK(1)
  <2>1. /\ Made(Chain.calls[1], "get_bdev", "now", 0, "noticed")
        /\ Moves(Chain.calls[1], {}, {}, {}, {})
    BY BlobfsReadCalls, PlainIs DEF Made, Moves
  <2> QED
    BY <1>3, <2>1 DEF Made, Moves, CallOK, HeldOK, SiteOK, KindOK,
       WaitOK, GoesOn, Trapped, Where, Homed, Home, Allowed, Blockless
<1>5. CallOK(2)
  <2>1. /\ Made(Chain.calls[2], "create_bs_dev", "now", 0, "noticed")
        /\ Moves(Chain.calls[2], {}, {}, {}, {})
    BY BlobfsReadCalls, PlainIs DEF Made, Moves
  <2> QED
    BY <1>3, <2>1 DEF Made, Moves, CallOK, HeldOK, SiteOK, KindOK,
       WaitOK, GoesOn, Trapped, Where, Homed, Home, Allowed, Blockless
<1>6. CallOK(3)
  <2>1. /\ Made(Chain.calls[3], IF run.create THEN "fs_init" ELSE "fs_load", "callback", 0, "noticed")
        /\ Moves(Chain.calls[3], {}, {"fs"}, {}, {})
    BY BlobfsReadCalls, PlainIs DEF Made, Moves
  <2> QED
    BY <1>3, <2>1 DEF Made, Moves, CallOK, HeldOK, SiteOK, KindOK,
       WaitOK, GoesOn, Trapped, Where, Homed, Home, Allowed, Blockless
<1>7. CallOK(4)
  <2>1. /\ Made(Chain.calls[4], "channel", "now", 0, "null")
        /\ Moves(Chain.calls[4], {"fs"}, {"channel"}, {}, {})
    BY BlobfsReadCalls, UnseenIs DEF Made, Moves
  <2> QED
    BY <1>3, <2>1 DEF Made, Moves, CallOK, HeldOK, SiteOK, KindOK,
       WaitOK, GoesOn, Trapped, Where, Homed, Home, Allowed, Blockless
<1>8. CallOK(5)
  <2>1. /\ Made(Chain.calls[5], "event", "event", 1, "never")
        /\ Moves(Chain.calls[5], {}, {}, {}, {})
    BY BlobfsReadCalls, PostIs DEF Made, Moves
  <2> QED
    BY <1>3, <2>1 DEF Made, Moves, CallOK, HeldOK, SiteOK, KindOK,
       WaitOK, GoesOn, Trapped, Where, Homed, Home, Allowed, Blockless
<1>9. CallOK(6)
  <2>1. /\ Made(Chain.calls[6], "open", "request", 0, "noticed")
        /\ Moves(Chain.calls[6], {"fs", "channel"}, {"file"}, {}, {})
    BY BlobfsReadCalls, PlainIs DEF Made, Moves
  <2> QED
    BY <1>3, <2>1 DEF Made, Moves, CallOK, HeldOK, SiteOK, KindOK,
       WaitOK, GoesOn, Trapped, Where, Homed, Home, Allowed, Blockless
<1>10. CallOK(7)
  <2>1. /\ Made(Chain.calls[7], "buffer", "now", 0, "null")
        /\ Moves(Chain.calls[7], {}, {"buffer"}, {}, {})
    BY BlobfsReadCalls, UnseenIs DEF Made, Moves
  <2> QED
    BY <1>3, <2>1 DEF Made, Moves, CallOK, HeldOK, SiteOK, KindOK,
       WaitOK, GoesOn, Trapped, Where, Homed, Home, Allowed, Blockless
<1>11. CallOK(8)
  <2>1. /\ Made(Chain.calls[8], "read", "request", 0, "noticed")
        /\ Moves(Chain.calls[8], {"file", "channel", "buffer"}, {}, {}, {})
    BY BlobfsReadCalls, PlainIs DEF Made, Moves
  <2> QED
    BY <1>3, <2>1 DEF Made, Moves, CallOK, HeldOK, SiteOK, KindOK,
       WaitOK, GoesOn, Trapped, Where, Homed, Home, Allowed, Blockless
<1>12. CallOK(9)
  <2>1. /\ Made(Chain.calls[9], "sync", "request", 0, "noticed")
        /\ Moves(Chain.calls[9], {"file", "channel"}, {}, {}, {})
    BY BlobfsReadCalls, PlainIs DEF Made, Moves
  <2> QED
    BY <1>3, <2>1 DEF Made, Moves, CallOK, HeldOK, SiteOK, KindOK,
       WaitOK, GoesOn, Trapped, Where, Homed, Home, Allowed, Blockless
<1>13. CallOK(10)
  <2>1. /\ Made(Chain.calls[10], "close", "request", 0, "noticed")
        /\ Moves(Chain.calls[10], {"channel", "file"}, {}, {}, {"file"})
    BY BlobfsReadCalls, FreeingIs, PlainIs DEF Made, Moves
  <2> QED
    BY <1>3, <2>1 DEF Made, Moves, CallOK, HeldOK, SiteOK, KindOK,
       WaitOK, GoesOn, Trapped, Where, Homed, Home, Allowed, Blockless
<1>14. CallOK(11)
  <2>1. /\ Made(Chain.calls[11], "unload", "callback", 0, "noticed")
        /\ Moves(Chain.calls[11], {"fs"}, {}, {"buffer", "channel"}, {"fs"})
    BY BlobfsReadCalls, DroppingIs, FreeingIs, PlainIs DEF Made, Moves
  <2> QED
    BY <1>3, <2>1 DEF Made, Moves, CallOK, HeldOK, SiteOK, KindOK,
       WaitOK, GoesOn, Trapped, Where, Homed, Home, Allowed, Blockless
<1>15. ASSUME NEW k \in 1 .. 11 PROVE CallOK(k)
  BY <1>4, <1>5, <1>6, <1>7, <1>8, <1>9, <1>10, <1>11, <1>12, <1>13, <1>14
<1>16. Has(1) = {} /\ Where(1) = 0
  BY DEF Where
<1>17. Has(12) \subseteq Owned \cup {"ctrlr"} /\ "channel" \notin Has(12)
  BY DEF Owned
<1> QED
  <2> HIDE <1>1, <1>2 DEF Has, Resource
  <2> QED BY <1>2, <1>3, <1>15, <1>16, <1>17 DEF ChainOK

LEMMA BlobfsWriteCalls ==
  ASSUME run.name = "blobfs", run.mode = "write"
  PROVE  /\ Len(Chain.calls) = 16
         /\ Chain.first = 0 /\ Chain.last = 0
         /\ Chain.calls[1] = Now("get_bdev", {}, {})
         /\ Chain.calls[2] = Now("create_bs_dev", {}, {})
         /\ Chain.calls[3] = Later(IF run.create THEN "fs_init" ELSE "fs_load", {}, {"fs"})
         /\ Chain.calls[4] = Unseen("channel", {"fs"})
         /\ Chain.calls[5] = Post(1, {})
         /\ Chain.calls[6] = Ask("create", {"fs", "channel"}, {})
         /\ Chain.calls[7] = Ask("open", {"fs", "channel"}, {"file"})
         /\ Chain.calls[8] = Unseen("buffer", {})
         /\ Chain.calls[9] = Surely("copy", {"buffer"}, {})
         /\ Chain.calls[10] = Ignoring(Ask("truncate", {"file", "channel"}, {}))
         /\ Chain.calls[11] = Ask("write", {"file", "channel", "buffer"}, {})
         /\ Chain.calls[12] = Dropping(Unseen("buffer", {}), {"buffer"})
         /\ Chain.calls[13] = Ask("read", {"file", "channel", "buffer"}, {})
         /\ Chain.calls[14] = Ask("sync", {"file", "channel"}, {})
         /\ Chain.calls[15] = Freeing(Ask("close", {"channel"}, {}), "file")
         /\ Chain.calls[16] = Dropping(Freeing(Later("unload", {}, {}), "fs"), {"buffer", "channel"})
<1>1. Chain = Blobfs(run.create, "write")
  BY DEF Chain
<1> QED
  BY <1>1 DEF Blobfs, Straight, OpenDevice, BlobfsOpen, BlobfsWrite, UnloadFs

LEMMA BlobfsWriteOK ==
  ASSUME run.name = "blobfs", run.mode = "write", run.files = 0
  PROVE  ChainOK
<1>1. \A r \in Resource : Span(r) =
        CASE r = "fs" -> 4 .. 16
             [] r = "channel" -> 5 .. 16
             [] r = "buffer" -> 9 .. 16
             [] r = "file" -> 8 .. 15
             [] OTHER -> {}
  BY DEF Resource, Span, BlobfsSpan, BlobfsEnd
<1>2. Away = 6 .. 17 /\ Wait = {9, 13} /\ Unchecked = {"channel", "buffer"}
      /\ Overlooked = {"truncate"}
  BY DEF Away, Wait, Overlooked, Unchecked
<1> USE <1>1, <1>2 DEF Has, Resource
<1>3. Len(Chain.calls) = 16 /\ Chain.first = 0 /\ Chain.last = 0
  BY BlobfsWriteCalls
<1>4. CallOK(1)
  <2>1. /\ Made(Chain.calls[1], "get_bdev", "now", 0, "noticed")
        /\ Moves(Chain.calls[1], {}, {}, {}, {})
    BY BlobfsWriteCalls, PlainIs DEF Made, Moves
  <2> QED
    BY <1>3, <2>1 DEF Made, Moves, CallOK, HeldOK, SiteOK, KindOK,
       WaitOK, GoesOn, Trapped, Where, Homed, Home, Allowed, Blockless
<1>5. CallOK(2)
  <2>1. /\ Made(Chain.calls[2], "create_bs_dev", "now", 0, "noticed")
        /\ Moves(Chain.calls[2], {}, {}, {}, {})
    BY BlobfsWriteCalls, PlainIs DEF Made, Moves
  <2> QED
    BY <1>3, <2>1 DEF Made, Moves, CallOK, HeldOK, SiteOK, KindOK,
       WaitOK, GoesOn, Trapped, Where, Homed, Home, Allowed, Blockless
<1>6. CallOK(3)
  <2>1. /\ Made(Chain.calls[3], IF run.create THEN "fs_init" ELSE "fs_load", "callback", 0, "noticed")
        /\ Moves(Chain.calls[3], {}, {"fs"}, {}, {})
    BY BlobfsWriteCalls, PlainIs DEF Made, Moves
  <2> QED
    BY <1>3, <2>1 DEF Made, Moves, CallOK, HeldOK, SiteOK, KindOK,
       WaitOK, GoesOn, Trapped, Where, Homed, Home, Allowed, Blockless
<1>7. CallOK(4)
  <2>1. /\ Made(Chain.calls[4], "channel", "now", 0, "null")
        /\ Moves(Chain.calls[4], {"fs"}, {"channel"}, {}, {})
    BY BlobfsWriteCalls, UnseenIs DEF Made, Moves
  <2> QED
    BY <1>3, <2>1 DEF Made, Moves, CallOK, HeldOK, SiteOK, KindOK,
       WaitOK, GoesOn, Trapped, Where, Homed, Home, Allowed, Blockless
<1>8. CallOK(5)
  <2>1. /\ Made(Chain.calls[5], "event", "event", 1, "never")
        /\ Moves(Chain.calls[5], {}, {}, {}, {})
    BY BlobfsWriteCalls, PostIs DEF Made, Moves
  <2> QED
    BY <1>3, <2>1 DEF Made, Moves, CallOK, HeldOK, SiteOK, KindOK,
       WaitOK, GoesOn, Trapped, Where, Homed, Home, Allowed, Blockless
<1>9. CallOK(6)
  <2>1. /\ Made(Chain.calls[6], "create", "request", 0, "noticed")
        /\ Moves(Chain.calls[6], {"fs", "channel"}, {}, {}, {})
    BY BlobfsWriteCalls, PlainIs DEF Made, Moves
  <2> QED
    BY <1>3, <2>1 DEF Made, Moves, CallOK, HeldOK, SiteOK, KindOK,
       WaitOK, GoesOn, Trapped, Where, Homed, Home, Allowed, Blockless
<1>10. CallOK(7)
  <2>1. /\ Made(Chain.calls[7], "open", "request", 0, "noticed")
        /\ Moves(Chain.calls[7], {"fs", "channel"}, {"file"}, {}, {})
    BY BlobfsWriteCalls, PlainIs DEF Made, Moves
  <2> QED
    BY <1>3, <2>1 DEF Made, Moves, CallOK, HeldOK, SiteOK, KindOK,
       WaitOK, GoesOn, Trapped, Where, Homed, Home, Allowed, Blockless
<1>11. CallOK(8)
  <2>1. /\ Made(Chain.calls[8], "buffer", "now", 0, "null")
        /\ Moves(Chain.calls[8], {}, {"buffer"}, {}, {})
    BY BlobfsWriteCalls, UnseenIs DEF Made, Moves
  <2> QED
    BY <1>3, <2>1 DEF Made, Moves, CallOK, HeldOK, SiteOK, KindOK,
       WaitOK, GoesOn, Trapped, Where, Homed, Home, Allowed, Blockless
<1>12. CallOK(9)
  <2>1. /\ Made(Chain.calls[9], "copy", "now", 0, "never")
        /\ Moves(Chain.calls[9], {"buffer"}, {}, {}, {})
    BY BlobfsWriteCalls, SurelyIs DEF Made, Moves
  <2> QED
    BY <1>3, <2>1 DEF Made, Moves, CallOK, HeldOK, SiteOK, KindOK,
       WaitOK, GoesOn, Trapped, Where, Homed, Home, Allowed, Blockless
<1>13. CallOK(10)
  <2>1. /\ Made(Chain.calls[10], "truncate", "request", 0, "ignored")
        /\ Moves(Chain.calls[10], {"file", "channel"}, {}, {}, {})
    BY BlobfsWriteCalls, IgnoringIs, PlainIs DEF Made, Moves
  <2> QED
    BY <1>3, <2>1 DEF Made, Moves, CallOK, HeldOK, SiteOK, KindOK,
       WaitOK, GoesOn, Trapped, Where, Homed, Home, Allowed, Blockless
<1>14. CallOK(11)
  <2>1. /\ Made(Chain.calls[11], "write", "request", 0, "noticed")
        /\ Moves(Chain.calls[11], {"file", "channel", "buffer"}, {}, {}, {})
    BY BlobfsWriteCalls, PlainIs DEF Made, Moves
  <2> QED
    BY <1>3, <2>1 DEF Made, Moves, CallOK, HeldOK, SiteOK, KindOK,
       WaitOK, GoesOn, Trapped, Where, Homed, Home, Allowed, Blockless
<1>15. CallOK(12)
  <2>1. /\ Made(Chain.calls[12], "buffer", "now", 0, "null")
        /\ Moves(Chain.calls[12], {}, {"buffer"}, {"buffer"}, {})
    BY BlobfsWriteCalls, DroppingIs, UnseenIs DEF Made, Moves
  <2> QED
    BY <1>3, <2>1 DEF Made, Moves, CallOK, HeldOK, SiteOK, KindOK,
       WaitOK, GoesOn, Trapped, Where, Homed, Home, Allowed, Blockless
<1>16. CallOK(13)
  <2>1. /\ Made(Chain.calls[13], "read", "request", 0, "noticed")
        /\ Moves(Chain.calls[13], {"file", "channel", "buffer"}, {}, {}, {})
    BY BlobfsWriteCalls, PlainIs DEF Made, Moves
  <2> QED
    BY <1>3, <2>1 DEF Made, Moves, CallOK, HeldOK, SiteOK, KindOK,
       WaitOK, GoesOn, Trapped, Where, Homed, Home, Allowed, Blockless
<1>17. CallOK(14)
  <2>1. /\ Made(Chain.calls[14], "sync", "request", 0, "noticed")
        /\ Moves(Chain.calls[14], {"file", "channel"}, {}, {}, {})
    BY BlobfsWriteCalls, PlainIs DEF Made, Moves
  <2> QED
    BY <1>3, <2>1 DEF Made, Moves, CallOK, HeldOK, SiteOK, KindOK,
       WaitOK, GoesOn, Trapped, Where, Homed, Home, Allowed, Blockless
<1>18. CallOK(15)
  <2>1. /\ Made(Chain.calls[15], "close", "request", 0, "noticed")
        /\ Moves(Chain.calls[15], {"channel", "file"}, {}, {}, {"file"})
    BY BlobfsWriteCalls, FreeingIs, PlainIs DEF Made, Moves
  <2> QED
    BY <1>3, <2>1 DEF Made, Moves, CallOK, HeldOK, SiteOK, KindOK,
       WaitOK, GoesOn, Trapped, Where, Homed, Home, Allowed, Blockless
<1>19. CallOK(16)
  <2>1. /\ Made(Chain.calls[16], "unload", "callback", 0, "noticed")
        /\ Moves(Chain.calls[16], {"fs"}, {}, {"buffer", "channel"}, {"fs"})
    BY BlobfsWriteCalls, DroppingIs, FreeingIs, PlainIs DEF Made, Moves
  <2> QED
    BY <1>3, <2>1 DEF Made, Moves, CallOK, HeldOK, SiteOK, KindOK,
       WaitOK, GoesOn, Trapped, Where, Homed, Home, Allowed, Blockless
<1>20. ASSUME NEW k \in 1 .. 16 PROVE CallOK(k)
  BY <1>4, <1>5, <1>6, <1>7, <1>8, <1>9, <1>10, <1>11, <1>12, <1>13, <1>14, <1>15, <1>16, <1>17, <1>18, <1>19
<1>21. Has(1) = {} /\ Where(1) = 0
  BY DEF Where
<1>22. Has(17) \subseteq Owned \cup {"ctrlr"} /\ "channel" \notin Has(17)
  BY DEF Owned
<1> QED
  <2> HIDE <1>1, <1>2 DEF Has, Resource
  <2> QED BY <1>2, <1>3, <1>20, <1>21, <1>22 DEF ChainOK

LEMMA BlobfsDeleteCalls ==
  ASSUME run.name = "blobfs", run.mode = "delete"
  PROVE  /\ Len(Chain.calls) = 7
         /\ Chain.first = 0 /\ Chain.last = 0
         /\ Chain.calls[1] = Now("get_bdev", {}, {})
         /\ Chain.calls[2] = Now("create_bs_dev", {}, {})
         /\ Chain.calls[3] = Later(IF run.create THEN "fs_init" ELSE "fs_load", {}, {"fs"})
         /\ Chain.calls[4] = Unseen("channel", {"fs"})
         /\ Chain.calls[5] = Post(1, {})
         /\ Chain.calls[6] = Ask("delete", {"fs", "channel"}, {})
         /\ Chain.calls[7] = Dropping(Freeing(Later("unload", {}, {}), "fs"), {"buffer", "channel"})
<1>1. Chain = Blobfs(run.create, "delete")
  BY DEF Chain
<1> QED
  BY <1>1 DEF Blobfs, Straight, OpenDevice, BlobfsOpen, BlobfsDelete, UnloadFs

LEMMA BlobfsDeleteOK ==
  ASSUME run.name = "blobfs", run.mode = "delete", run.files = 0
  PROVE  ChainOK
<1>1. \A r \in Resource : Span(r) =
        CASE r = "fs" -> 4 .. 7
             [] r = "channel" -> 5 .. 7
             [] OTHER -> {}
  BY DEF Resource, Span, BlobfsSpan, BlobfsEnd
<1>2. Away = 6 .. 17 /\ Wait = {} /\ Unchecked = {"channel", "buffer"}
      /\ Overlooked = {"truncate"}
  BY DEF Away, Wait, Overlooked, Unchecked
<1> USE <1>1, <1>2 DEF Has, Resource
<1>3. Len(Chain.calls) = 7 /\ Chain.first = 0 /\ Chain.last = 0
  BY BlobfsDeleteCalls
<1>4. CallOK(1)
  <2>1. /\ Made(Chain.calls[1], "get_bdev", "now", 0, "noticed")
        /\ Moves(Chain.calls[1], {}, {}, {}, {})
    BY BlobfsDeleteCalls, PlainIs DEF Made, Moves
  <2> QED
    BY <1>3, <2>1 DEF Made, Moves, CallOK, HeldOK, SiteOK, KindOK,
       WaitOK, GoesOn, Trapped, Where, Homed, Home, Allowed, Blockless
<1>5. CallOK(2)
  <2>1. /\ Made(Chain.calls[2], "create_bs_dev", "now", 0, "noticed")
        /\ Moves(Chain.calls[2], {}, {}, {}, {})
    BY BlobfsDeleteCalls, PlainIs DEF Made, Moves
  <2> QED
    BY <1>3, <2>1 DEF Made, Moves, CallOK, HeldOK, SiteOK, KindOK,
       WaitOK, GoesOn, Trapped, Where, Homed, Home, Allowed, Blockless
<1>6. CallOK(3)
  <2>1. /\ Made(Chain.calls[3], IF run.create THEN "fs_init" ELSE "fs_load", "callback", 0, "noticed")
        /\ Moves(Chain.calls[3], {}, {"fs"}, {}, {})
    BY BlobfsDeleteCalls, PlainIs DEF Made, Moves
  <2> QED
    BY <1>3, <2>1 DEF Made, Moves, CallOK, HeldOK, SiteOK, KindOK,
       WaitOK, GoesOn, Trapped, Where, Homed, Home, Allowed, Blockless
<1>7. CallOK(4)
  <2>1. /\ Made(Chain.calls[4], "channel", "now", 0, "null")
        /\ Moves(Chain.calls[4], {"fs"}, {"channel"}, {}, {})
    BY BlobfsDeleteCalls, UnseenIs DEF Made, Moves
  <2> QED
    BY <1>3, <2>1 DEF Made, Moves, CallOK, HeldOK, SiteOK, KindOK,
       WaitOK, GoesOn, Trapped, Where, Homed, Home, Allowed, Blockless
<1>8. CallOK(5)
  <2>1. /\ Made(Chain.calls[5], "event", "event", 1, "never")
        /\ Moves(Chain.calls[5], {}, {}, {}, {})
    BY BlobfsDeleteCalls, PostIs DEF Made, Moves
  <2> QED
    BY <1>3, <2>1 DEF Made, Moves, CallOK, HeldOK, SiteOK, KindOK,
       WaitOK, GoesOn, Trapped, Where, Homed, Home, Allowed, Blockless
<1>9. CallOK(6)
  <2>1. /\ Made(Chain.calls[6], "delete", "request", 0, "noticed")
        /\ Moves(Chain.calls[6], {"fs", "channel"}, {}, {}, {})
    BY BlobfsDeleteCalls, PlainIs DEF Made, Moves
  <2> QED
    BY <1>3, <2>1 DEF Made, Moves, CallOK, HeldOK, SiteOK, KindOK,
       WaitOK, GoesOn, Trapped, Where, Homed, Home, Allowed, Blockless
<1>10. CallOK(7)
  <2>1. /\ Made(Chain.calls[7], "unload", "callback", 0, "noticed")
        /\ Moves(Chain.calls[7], {"fs"}, {}, {"buffer", "channel"}, {"fs"})
    BY BlobfsDeleteCalls, DroppingIs, FreeingIs, PlainIs DEF Made, Moves
  <2> QED
    BY <1>3, <2>1 DEF Made, Moves, CallOK, HeldOK, SiteOK, KindOK,
       WaitOK, GoesOn, Trapped, Where, Homed, Home, Allowed, Blockless
<1>11. ASSUME NEW k \in 1 .. 7 PROVE CallOK(k)
  BY <1>4, <1>5, <1>6, <1>7, <1>8, <1>9, <1>10
<1>12. Has(1) = {} /\ Where(1) = 0
  BY DEF Where
<1>13. Has(8) \subseteq Owned \cup {"ctrlr"} /\ "channel" \notin Has(8)
  BY DEF Owned
<1> QED
  <2> HIDE <1>1, <1>2 DEF Has, Resource
  <2> QED BY <1>2, <1>3, <1>11, <1>12, <1>13 DEF ChainOK

(* The chain of blobfs_write_files.                                        *)
LEMMA WriteFilesCalls ==
  ASSUME run.name = "blobfs_write_files", run.mode = "write"
  PROVE  /\ Len(Chain.calls) = 16
         /\ Chain.first = 11 /\ Chain.last = 14
         /\ Chain.calls[1] = Now("get_bdev", {}, {})
         /\ Chain.calls[2] = Now("create_bs_dev", {}, {})
         /\ Chain.calls[3] = Later("fs_init", {}, {"fs"})
         /\ Chain.calls[4] = Now("load_tar", {}, {})
         /\ Chain.calls[5] = Unseen("mapped", {})
         /\ Chain.calls[6] = Unseen("buffer", {})
         /\ Chain.calls[7] = Surely("memcpy", {"buffer", "mapped"}, {})
         /\ Chain.calls[8] = Dropping(Now("parse_tar", {"buffer"}, {}), {"mapped"})
         /\ Chain.calls[9] = Post(1, {})
         /\ Chain.calls[10] = Unseen("channel", {"fs"})
         /\ Chain.calls[11] = Ask("create", {"fs", "channel"}, {})
         /\ Chain.calls[12] = Ask("open", {"fs", "channel"}, {"file"})
         /\ Chain.calls[13] = Ask("write", {"file", "channel", "buffer"}, {})
         /\ Chain.calls[14] = Freeing(Ask("close", {"channel"}, {}), "file")
         /\ Chain.calls[15] = Post(0, {"channel", "buffer"})
         /\ Chain.calls[16] = Freeing(Later("unload", {}, {}), "fs")
<1>1. Chain = WriteFiles(FALSE)
  BY DEF Chain
<1> QED
  BY <1>1 DEF WriteFiles, Looping, OpenDevice, InitStorage, CreateChannels, CreateFile, CloseStorage

LEMMA WriteFilesOK ==
  ASSUME run.name = "blobfs_write_files", run.mode = "write", run.files \in Nat
  PROVE  ChainOK
<1>1. \A r \in Resource : Span(r) =
        CASE r = "fs" -> 4 .. 16
             [] r = "mapped" -> 6 .. 8
             [] r = "buffer" -> 7 .. 15
             [] r = "channel" -> 11 .. 15
             [] r = "file" -> 13 .. 14
             [] OTHER -> {}
  BY DEF Resource, Span, WriteFilesSpan, Extra
<1>2. Away = 10 .. 15 /\ Wait = {6, 7} /\ Unchecked = {"channel", "buffer", "mapped"}
      /\ Overlooked = {}
  BY DEF Away, Extra, Wait, Overlooked, Unchecked
<1> USE <1>1, <1>2 DEF Has, Resource
<1>3. Len(Chain.calls) = 16 /\ Chain.first = 11 /\ Chain.last = 14
  BY WriteFilesCalls
<1>4. CallOK(1)
  <2>1. /\ Made(Chain.calls[1], "get_bdev", "now", 0, "noticed")
        /\ Moves(Chain.calls[1], {}, {}, {}, {})
    BY WriteFilesCalls, PlainIs DEF Made, Moves
  <2> QED
    BY <1>3, <2>1 DEF Made, Moves, CallOK, HeldOK, SiteOK, KindOK,
       WaitOK, GoesOn, Trapped, Where, Homed, Home, Allowed, Blockless
<1>5. CallOK(2)
  <2>1. /\ Made(Chain.calls[2], "create_bs_dev", "now", 0, "noticed")
        /\ Moves(Chain.calls[2], {}, {}, {}, {})
    BY WriteFilesCalls, PlainIs DEF Made, Moves
  <2> QED
    BY <1>3, <2>1 DEF Made, Moves, CallOK, HeldOK, SiteOK, KindOK,
       WaitOK, GoesOn, Trapped, Where, Homed, Home, Allowed, Blockless
<1>6. CallOK(3)
  <2>1. /\ Made(Chain.calls[3], "fs_init", "callback", 0, "noticed")
        /\ Moves(Chain.calls[3], {}, {"fs"}, {}, {})
    BY WriteFilesCalls, PlainIs DEF Made, Moves
  <2> QED
    BY <1>3, <2>1 DEF Made, Moves, CallOK, HeldOK, SiteOK, KindOK,
       WaitOK, GoesOn, Trapped, Where, Homed, Home, Allowed, Blockless
<1>7. CallOK(4)
  <2>1. /\ Made(Chain.calls[4], "load_tar", "now", 0, "noticed")
        /\ Moves(Chain.calls[4], {}, {}, {}, {})
    BY WriteFilesCalls, PlainIs DEF Made, Moves
  <2> QED
    BY <1>3, <2>1 DEF Made, Moves, CallOK, HeldOK, SiteOK, KindOK,
       WaitOK, GoesOn, Trapped, Where, Homed, Home, Allowed, Blockless
<1>8. CallOK(5)
  <2>1. /\ Made(Chain.calls[5], "mapped", "now", 0, "null")
        /\ Moves(Chain.calls[5], {}, {"mapped"}, {}, {})
    BY WriteFilesCalls, UnseenIs DEF Made, Moves
  <2> QED
    BY <1>3, <2>1 DEF Made, Moves, CallOK, HeldOK, SiteOK, KindOK,
       WaitOK, GoesOn, Trapped, Where, Homed, Home, Allowed, Blockless
<1>9. CallOK(6)
  <2>1. /\ Made(Chain.calls[6], "buffer", "now", 0, "null")
        /\ Moves(Chain.calls[6], {}, {"buffer"}, {}, {})
    BY WriteFilesCalls, UnseenIs DEF Made, Moves
  <2> QED
    BY <1>3, <2>1 DEF Made, Moves, CallOK, HeldOK, SiteOK, KindOK,
       WaitOK, GoesOn, Trapped, Where, Homed, Home, Allowed, Blockless
<1>10. CallOK(7)
  <2>1. /\ Made(Chain.calls[7], "memcpy", "now", 0, "never")
        /\ Moves(Chain.calls[7], {"buffer", "mapped"}, {}, {}, {})
    BY WriteFilesCalls, SurelyIs DEF Made, Moves
  <2> QED
    BY <1>3, <2>1 DEF Made, Moves, CallOK, HeldOK, SiteOK, KindOK,
       WaitOK, GoesOn, Trapped, Where, Homed, Home, Allowed, Blockless
<1>11. CallOK(8)
  <2>1. /\ Made(Chain.calls[8], "parse_tar", "now", 0, "noticed")
        /\ Moves(Chain.calls[8], {"buffer"}, {}, {"mapped"}, {})
    BY WriteFilesCalls, DroppingIs, PlainIs DEF Made, Moves
  <2> QED
    BY <1>3, <2>1 DEF Made, Moves, CallOK, HeldOK, SiteOK, KindOK,
       WaitOK, GoesOn, Trapped, Where, Homed, Home, Allowed, Blockless
<1>12. CallOK(9)
  <2>1. /\ Made(Chain.calls[9], "event", "event", 1, "never")
        /\ Moves(Chain.calls[9], {}, {}, {}, {})
    BY WriteFilesCalls, PostIs DEF Made, Moves
  <2> QED
    BY <1>3, <2>1 DEF Made, Moves, CallOK, HeldOK, SiteOK, KindOK,
       WaitOK, GoesOn, Trapped, Where, Homed, Home, Allowed, Blockless
<1>13. CallOK(10)
  <2>1. /\ Made(Chain.calls[10], "channel", "now", 0, "null")
        /\ Moves(Chain.calls[10], {"fs"}, {"channel"}, {}, {})
    BY WriteFilesCalls, UnseenIs DEF Made, Moves
  <2> QED
    BY <1>3, <2>1 DEF Made, Moves, CallOK, HeldOK, SiteOK, KindOK,
       WaitOK, GoesOn, Trapped, Where, Homed, Home, Allowed, Blockless
<1>14. CallOK(11)
  <2>1. /\ Made(Chain.calls[11], "create", "request", 0, "noticed")
        /\ Moves(Chain.calls[11], {"fs", "channel"}, {}, {}, {})
    BY WriteFilesCalls, PlainIs DEF Made, Moves
  <2> QED
    BY <1>3, <2>1 DEF Made, Moves, CallOK, HeldOK, SiteOK, KindOK,
       WaitOK, GoesOn, Trapped, Where, Homed, Home, Allowed, Blockless
<1>15. CallOK(12)
  <2>1. /\ Made(Chain.calls[12], "open", "request", 0, "noticed")
        /\ Moves(Chain.calls[12], {"fs", "channel"}, {"file"}, {}, {})
    BY WriteFilesCalls, PlainIs DEF Made, Moves
  <2> QED
    BY <1>3, <2>1 DEF Made, Moves, CallOK, HeldOK, SiteOK, KindOK,
       WaitOK, GoesOn, Trapped, Where, Homed, Home, Allowed, Blockless
<1>16. CallOK(13)
  <2>1. /\ Made(Chain.calls[13], "write", "request", 0, "noticed")
        /\ Moves(Chain.calls[13], {"file", "channel", "buffer"}, {}, {}, {})
    BY WriteFilesCalls, PlainIs DEF Made, Moves
  <2> QED
    BY <1>3, <2>1 DEF Made, Moves, CallOK, HeldOK, SiteOK, KindOK,
       WaitOK, GoesOn, Trapped, Where, Homed, Home, Allowed, Blockless
<1>17. CallOK(14)
  <2>1. /\ Made(Chain.calls[14], "close", "request", 0, "noticed")
        /\ Moves(Chain.calls[14], {"channel", "file"}, {}, {}, {"file"})
    BY WriteFilesCalls, FreeingIs, PlainIs DEF Made, Moves
  <2> QED
    BY <1>3, <2>1 DEF Made, Moves, CallOK, HeldOK, SiteOK, KindOK,
       WaitOK, GoesOn, Trapped, Where, Homed, Home, Allowed, Blockless
<1>18. CallOK(15)
  <2>1. /\ Made(Chain.calls[15], "event", "event", 0, "never")
        /\ Moves(Chain.calls[15], {}, {}, {"channel", "buffer"}, {})
    BY WriteFilesCalls, PostIs DEF Made, Moves
  <2> QED
    BY <1>3, <2>1 DEF Made, Moves, CallOK, HeldOK, SiteOK, KindOK,
       WaitOK, GoesOn, Trapped, Where, Homed, Home, Allowed, Blockless
<1>19. CallOK(16)
  <2>1. /\ Made(Chain.calls[16], "unload", "callback", 0, "noticed")
        /\ Moves(Chain.calls[16], {"fs"}, {}, {}, {"fs"})
    BY WriteFilesCalls, FreeingIs, PlainIs DEF Made, Moves
  <2> QED
    BY <1>3, <2>1 DEF Made, Moves, CallOK, HeldOK, SiteOK, KindOK,
       WaitOK, GoesOn, Trapped, Where, Homed, Home, Allowed, Blockless
<1>20. ASSUME NEW k \in 1 .. 16 PROVE CallOK(k)
  BY <1>4, <1>5, <1>6, <1>7, <1>8, <1>9, <1>10, <1>11, <1>12, <1>13, <1>14, <1>15, <1>16, <1>17, <1>18, <1>19
<1>21. Has(1) = {} /\ Where(1) = 0
  BY DEF Where
<1>22. Has(17) \subseteq Owned \cup {"ctrlr"} /\ "channel" \notin Has(17)
  BY DEF Owned
<1>23. Has(11) = Has(15) /\ Where(11) = Where(15)
  BY DEF Where
<1> QED
  <2> HIDE <1>1, <1>2 DEF Has, Resource
  <2> QED BY <1>2, <1>3, <1>20, <1>21, <1>22, <1>23 DEF ChainOK

(* The chain of blobfs_write_files, which flushes every file.              *)
LEMMA WriteFilesFlushCalls ==
  ASSUME run.name = "blobfs_write_files", run.mode = "flush"
  PROVE  /\ Len(Chain.calls) = 17
         /\ Chain.first = 11 /\ Chain.last = 15
         /\ Chain.calls[1] = Now("get_bdev", {}, {})
         /\ Chain.calls[2] = Now("create_bs_dev", {}, {})
         /\ Chain.calls[3] = Later("fs_init", {}, {"fs"})
         /\ Chain.calls[4] = Now("load_tar", {}, {})
         /\ Chain.calls[5] = Unseen("mapped", {})
         /\ Chain.calls[6] = Unseen("buffer", {})
         /\ Chain.calls[7] = Surely("memcpy", {"buffer", "mapped"}, {})
         /\ Chain.calls[8] = Dropping(Now("parse_tar", {"buffer"}, {}), {"mapped"})
         /\ Chain.calls[9] = Post(1, {})
         /\ Chain.calls[10] = Unseen("channel", {"fs"})
         /\ Chain.calls[11] = Ask("create", {"fs", "channel"}, {})
         /\ Chain.calls[12] = Ask("open", {"fs", "channel"}, {"file"})
         /\ Chain.calls[13] = Ask("write", {"file", "channel", "buffer"}, {})
         /\ Chain.calls[14] = Ask("sync", {"file", "channel"}, {})
         /\ Chain.calls[15] = Freeing(Ask("close", {"channel"}, {}), "file")
         /\ Chain.calls[16] = Post(0, {"channel", "buffer"})
         /\ Chain.calls[17] = Freeing(Later("unload", {}, {}), "fs")
<1>1. Chain = WriteFiles(TRUE)
  BY DEF Chain
<1> QED
  BY <1>1 DEF WriteFiles, Looping, OpenDevice, InitStorage, CreateChannels, CreateFile, CloseStorage

LEMMA WriteFilesFlushOK ==
  ASSUME run.name = "blobfs_write_files", run.mode = "flush", run.files \in Nat
  PROVE  ChainOK
<1>1. \A r \in Resource : Span(r) =
        CASE r = "fs" -> 4 .. 17
             [] r = "mapped" -> 6 .. 8
             [] r = "buffer" -> 7 .. 16
             [] r = "channel" -> 11 .. 16
             [] r = "file" -> 13 .. 15
             [] OTHER -> {}
  BY DEF Resource, Span, WriteFilesSpan, Extra
<1>2. Away = 10 .. 16 /\ Wait = {6, 7} /\ Unchecked = {"channel", "buffer", "mapped"}
      /\ Overlooked = {}
  BY DEF Away, Extra, Wait, Overlooked, Unchecked
<1> USE <1>1, <1>2 DEF Has, Resource
<1>3. Len(Chain.calls) = 17 /\ Chain.first = 11 /\ Chain.last = 15
  BY WriteFilesFlushCalls
<1>4. CallOK(1)
  <2>1. /\ Made(Chain.calls[1], "get_bdev", "now", 0, "noticed")
        /\ Moves(Chain.calls[1], {}, {}, {}, {})
    BY WriteFilesFlushCalls, PlainIs DEF Made, Moves
  <2> QED
    BY <1>3, <2>1 DEF Made, Moves, CallOK, HeldOK, SiteOK, KindOK,
       WaitOK, GoesOn, Trapped, Where, Homed, Home, Allowed, Blockless
<1>5. CallOK(2)
  <2>1. /\ Made(Chain.calls[2], "create_bs_dev", "now", 0, "noticed")
        /\ Moves(Chain.calls[2], {}, {}, {}, {})
    BY WriteFilesFlushCalls, PlainIs DEF Made, Moves
  <2> QED
    BY <1>3, <2>1 DEF Made, Moves, CallOK, HeldOK, SiteOK, KindOK,
       WaitOK, GoesOn, Trapped, Where, Homed, Home, Allowed, Blockless
<1>6. CallOK(3)
  <2>1. /\ Made(Chain.calls[3], "fs_init", "callback", 0, "noticed")
        /\ Moves(Chain.calls[3], {}, {"fs"}, {}, {})
    BY WriteFilesFlushCalls, PlainIs DEF Made, Moves
  <2> QED
    BY <1>3, <2>1 DEF Made, Moves, CallOK, HeldOK, SiteOK, KindOK,
       WaitOK, GoesOn, Trapped, Where, Homed, Home, Allowed, Blockless
<1>7. CallOK(4)
  <2>1. /\ Made(Chain.calls[4], "load_tar", "now", 0, "noticed")
        /\ Moves(Chain.calls[4], {}, {}, {}, {})
    BY WriteFilesFlushCalls, PlainIs DEF Made, Moves
  <2> QED
    BY <1>3, <2>1 DEF Made, Moves, CallOK, HeldOK, SiteOK, KindOK,
       WaitOK, GoesOn, Trapped, Where, Homed, Home, Allowed, Blockless
<1>8. CallOK(5)
  <2>1. /\ Made(Chain.calls[5], "mapped", "now", 0, "null")
        /\ Moves(Chain.calls[5], {}, {"mapped"}, {}, {})
    BY WriteFilesFlushCalls, UnseenIs DEF Made, Moves
  <2> QED
    BY <1>3, <2>1 DEF Made, Moves, CallOK, HeldOK, SiteOK, KindOK,
       WaitOK, GoesOn, Trapped, Where, Homed, Home, Allowed, Blockless
<1>9. CallOK(6)
  <2>1. /\ Made(Chain.calls[6], "buffer", "now", 0, "null")
        /\ Moves(Chain.calls[6], {}, {"buffer"}, {}, {})
    BY WriteFilesFlushCalls, UnseenIs DEF Made, Moves
  <2> QED
    BY <1>3, <2>1 DEF Made, Moves, CallOK, HeldOK, SiteOK, KindOK,
       WaitOK, GoesOn, Trapped, Where, Homed, Home, Allowed, Blockless
<1>10. CallOK(7)
  <2>1. /\ Made(Chain.calls[7], "memcpy", "now", 0, "never")
        /\ Moves(Chain.calls[7], {"buffer", "mapped"}, {}, {}, {})
    BY WriteFilesFlushCalls, SurelyIs DEF Made, Moves
  <2> QED
    BY <1>3, <2>1 DEF Made, Moves, CallOK, HeldOK, SiteOK, KindOK,
       WaitOK, GoesOn, Trapped, Where, Homed, Home, Allowed, Blockless
<1>11. CallOK(8)
  <2>1. /\ Made(Chain.calls[8], "parse_tar", "now", 0, "noticed")
        /\ Moves(Chain.calls[8], {"buffer"}, {}, {"mapped"}, {})
    BY WriteFilesFlushCalls, DroppingIs, PlainIs DEF Made, Moves
  <2> QED
    BY <1>3, <2>1 DEF Made, Moves, CallOK, HeldOK, SiteOK, KindOK,
       WaitOK, GoesOn, Trapped, Where, Homed, Home, Allowed, Blockless
<1>12. CallOK(9)
  <2>1. /\ Made(Chain.calls[9], "event", "event", 1, "never")
        /\ Moves(Chain.calls[9], {}, {}, {}, {})
    BY WriteFilesFlushCalls, PostIs DEF Made, Moves
  <2> QED
    BY <1>3, <2>1 DEF Made, Moves, CallOK, HeldOK, SiteOK, KindOK,
       WaitOK, GoesOn, Trapped, Where, Homed, Home, Allowed, Blockless
<1>13. CallOK(10)
  <2>1. /\ Made(Chain.calls[10], "channel", "now", 0, "null")
        /\ Moves(Chain.calls[10], {"fs"}, {"channel"}, {}, {})
    BY WriteFilesFlushCalls, UnseenIs DEF Made, Moves
  <2> QED
    BY <1>3, <2>1 DEF Made, Moves, CallOK, HeldOK, SiteOK, KindOK,
       WaitOK, GoesOn, Trapped, Where, Homed, Home, Allowed, Blockless
<1>14. CallOK(11)
  <2>1. /\ Made(Chain.calls[11], "create", "request", 0, "noticed")
        /\ Moves(Chain.calls[11], {"fs", "channel"}, {}, {}, {})
    BY WriteFilesFlushCalls, PlainIs DEF Made, Moves
  <2> QED
    BY <1>3, <2>1 DEF Made, Moves, CallOK, HeldOK, SiteOK, KindOK,
       WaitOK, GoesOn, Trapped, Where, Homed, Home, Allowed, Blockless
<1>15. CallOK(12)
  <2>1. /\ Made(Chain.calls[12], "open", "request", 0, "noticed")
        /\ Moves(Chain.calls[12], {"fs", "channel"}, {"file"}, {}, {})
    BY WriteFilesFlushCalls, PlainIs DEF Made, Moves
  <2> QED
    BY <1>3, <2>1 DEF Made, Moves, CallOK, HeldOK, SiteOK, KindOK,
       WaitOK, GoesOn, Trapped, Where, Homed, Home, Allowed, Blockless
<1>16. CallOK(13)
  <2>1. /\ Made(Chain.calls[13], "write", "request", 0, "noticed")
        /\ Moves(Chain.calls[13], {"file", "channel", "buffer"}, {}, {}, {})
    BY WriteFilesFlushCalls, PlainIs DEF Made, Moves
  <2> QED
    BY <1>3, <2>1 DEF Made, Moves, CallOK, HeldOK, SiteOK, KindOK,
       WaitOK, GoesOn, Trapped, Where, Homed, Home, Allowed, Blockless
<1>17. CallOK(14)
  <2>1. /\ Made(Chain.calls[14], "sync", "request", 0, "noticed")
        /\ Moves(Chain.calls[14], {"file", "channel"}, {}, {}, {})
    BY WriteFilesFlushCalls, PlainIs DEF Made, Moves
  <2> QED
    BY <1>3, <2>1 DEF Made, Moves, CallOK, HeldOK, SiteOK, KindOK,
       WaitOK, GoesOn, Trapped, Where, Homed, Home, Allowed, Blockless
<1>18. CallOK(15)
  <2>1. /\ Made(Chain.calls[15], "close", "request", 0, "noticed")
        /\ Moves(Chain.calls[15], {"channel", "file"}, {}, {}, {"file"})
    BY WriteFilesFlushCalls, FreeingIs, PlainIs DEF Made, Moves
  <2> QED
    BY <1>3, <2>1 DEF Made, Moves, CallOK, HeldOK, SiteOK, KindOK,
       WaitOK, GoesOn, Trapped, Where, Homed, Home, Allowed, Blockless
<1>19. CallOK(16)
  <2>1. /\ Made(Chain.calls[16], "event", "event", 0, "never")
        /\ Moves(Chain.calls[16], {}, {}, {"channel", "buffer"}, {})
    BY WriteFilesFlushCalls, PostIs DEF Made, Moves
  <2> QED
    BY <1>3, <2>1 DEF Made, Moves, CallOK, HeldOK, SiteOK, KindOK,
       WaitOK, GoesOn, Trapped, Where, Homed, Home, Allowed, Blockless
<1>20. CallOK(17)
  <2>1. /\ Made(Chain.calls[17], "unload", "callback", 0, "noticed")
        /\ Moves(Chain.calls[17], {"fs"}, {}, {}, {"fs"})
    BY WriteFilesFlushCalls, FreeingIs, PlainIs DEF Made, Moves
  <2> QED
    BY <1>3, <2>1 DEF Made, Moves, CallOK, HeldOK, SiteOK, KindOK,
       WaitOK, GoesOn, Trapped, Where, Homed, Home, Allowed, Blockless
<1>21. ASSUME NEW k \in 1 .. 17 PROVE CallOK(k)
  BY <1>4, <1>5, <1>6, <1>7, <1>8, <1>9, <1>10, <1>11, <1>12, <1>13, <1>14, <1>15, <1>16, <1>17, <1>18, <1>19, <1>20
<1>22. Has(1) = {} /\ Where(1) = 0
  BY DEF Where
<1>23. Has(18) \subseteq Owned \cup {"ctrlr"} /\ "channel" \notin Has(18)
  BY DEF Owned
<1>24. Has(11) = Has(16) /\ Where(11) = Where(16)
  BY DEF Where
<1> QED
  <2> HIDE <1>1, <1>2 DEF Has, Resource
  <2> QED BY <1>2, <1>3, <1>21, <1>22, <1>23, <1>24 DEF ChainOK

(* The chain of blobfs_read_files.                                         *)
LEMMA ReadFilesCalls ==
  ASSUME run.name = "blobfs_read_files"
  PROVE  /\ Len(Chain.calls) = 10
         /\ Chain.first = 7 /\ Chain.last = 9
         /\ Chain.calls[1] = Now("get_bdev", {}, {})
         /\ Chain.calls[2] = Now("create_bs_dev", {}, {})
         /\ Chain.calls[3] = Later("fs_load", {}, {"fs"})
         /\ Chain.calls[4] = Post(1, {})
         /\ Chain.calls[5] = Unseen("channel", {"fs"})
         /\ Chain.calls[6] = Unseen("buffer", {})
         /\ Chain.calls[7] = Ask("open", {"fs", "channel"}, {"file"})
         /\ Chain.calls[8] = Ask("read", {"file", "channel", "buffer"}, {})
         /\ Chain.calls[9] = Freeing(Ask("close", {"channel"}, {}), "file")
         /\ Chain.calls[10] = Dropping(Freeing(Later("unload", {}, {}), "fs"), {"buffer", "channel"})
<1>1. Chain = ReadFiles
  BY DEF Chain
<1> QED
  BY <1>1 DEF ReadFiles, Looping, OpenDevice, LoadStorage, ReadFile, UnloadFs

LEMMA ReadFilesOK ==
  ASSUME run.name = "blobfs_read_files", run.files \in Nat
  PROVE  ChainOK
<1>1. \A r \in Resource : Span(r) =
        CASE r = "fs" -> 4 .. 10
             [] r = "channel" -> 6 .. 10
             [] r = "buffer" -> 7 .. 10
             [] r = "file" -> 8 .. 9
             [] OTHER -> {}
  BY DEF Resource, Span, ReadFilesSpan
<1>2. Away = 5 .. 11 /\ Wait = (IF run.files # 0 THEN {7, 8} ELSE {}) /\ Unchecked = {"channel", "buffer"}
      /\ Overlooked = (IF run.files = 0 THEN {"buffer"} ELSE {})
  BY DEF Away, Wait, Overlooked, Unchecked
<1> USE <1>1, <1>2 DEF Has, Resource
<1>3. Len(Chain.calls) = 10 /\ Chain.first = 7 /\ Chain.last = 9
  BY ReadFilesCalls
<1>4. CallOK(1)
  <2>1. /\ Made(Chain.calls[1], "get_bdev", "now", 0, "noticed")
        /\ Moves(Chain.calls[1], {}, {}, {}, {})
    BY ReadFilesCalls, PlainIs DEF Made, Moves
  <2> QED
    BY <1>3, <2>1 DEF Made, Moves, CallOK, HeldOK, SiteOK, KindOK,
       WaitOK, GoesOn, Trapped, Where, Homed, Home, Allowed, Blockless
<1>5. CallOK(2)
  <2>1. /\ Made(Chain.calls[2], "create_bs_dev", "now", 0, "noticed")
        /\ Moves(Chain.calls[2], {}, {}, {}, {})
    BY ReadFilesCalls, PlainIs DEF Made, Moves
  <2> QED
    BY <1>3, <2>1 DEF Made, Moves, CallOK, HeldOK, SiteOK, KindOK,
       WaitOK, GoesOn, Trapped, Where, Homed, Home, Allowed, Blockless
<1>6. CallOK(3)
  <2>1. /\ Made(Chain.calls[3], "fs_load", "callback", 0, "noticed")
        /\ Moves(Chain.calls[3], {}, {"fs"}, {}, {})
    BY ReadFilesCalls, PlainIs DEF Made, Moves
  <2> QED
    BY <1>3, <2>1 DEF Made, Moves, CallOK, HeldOK, SiteOK, KindOK,
       WaitOK, GoesOn, Trapped, Where, Homed, Home, Allowed, Blockless
<1>7. CallOK(4)
  <2>1. /\ Made(Chain.calls[4], "event", "event", 1, "never")
        /\ Moves(Chain.calls[4], {}, {}, {}, {})
    BY ReadFilesCalls, PostIs DEF Made, Moves
  <2> QED
    BY <1>3, <2>1 DEF Made, Moves, CallOK, HeldOK, SiteOK, KindOK,
       WaitOK, GoesOn, Trapped, Where, Homed, Home, Allowed, Blockless
<1>8. CallOK(5)
  <2>1. /\ Made(Chain.calls[5], "channel", "now", 0, "null")
        /\ Moves(Chain.calls[5], {"fs"}, {"channel"}, {}, {})
    BY ReadFilesCalls, UnseenIs DEF Made, Moves
  <2> QED
    BY <1>3, <2>1 DEF Made, Moves, CallOK, HeldOK, SiteOK, KindOK,
       WaitOK, GoesOn, Trapped, Where, Homed, Home, Allowed, Blockless
<1>9. CallOK(6)
  <2>1. /\ Made(Chain.calls[6], "buffer", "now", 0, "null")
        /\ Moves(Chain.calls[6], {}, {"buffer"}, {}, {})
    BY ReadFilesCalls, UnseenIs DEF Made, Moves
  <2> QED
    BY <1>3, <2>1 DEF Made, Moves, CallOK, HeldOK, SiteOK, KindOK,
       WaitOK, GoesOn, Trapped, Where, Homed, Home, Allowed, Blockless
<1>10. CallOK(7)
  <2>1. /\ Made(Chain.calls[7], "open", "request", 0, "noticed")
        /\ Moves(Chain.calls[7], {"fs", "channel"}, {"file"}, {}, {})
    BY ReadFilesCalls, PlainIs DEF Made, Moves
  <2> QED
    BY <1>3, <2>1 DEF Made, Moves, CallOK, HeldOK, SiteOK, KindOK,
       WaitOK, GoesOn, Trapped, Where, Homed, Home, Allowed, Blockless
<1>11. CallOK(8)
  <2>1. /\ Made(Chain.calls[8], "read", "request", 0, "noticed")
        /\ Moves(Chain.calls[8], {"file", "channel", "buffer"}, {}, {}, {})
    BY ReadFilesCalls, PlainIs DEF Made, Moves
  <2> QED
    BY <1>3, <2>1 DEF Made, Moves, CallOK, HeldOK, SiteOK, KindOK,
       WaitOK, GoesOn, Trapped, Where, Homed, Home, Allowed, Blockless
<1>12. CallOK(9)
  <2>1. /\ Made(Chain.calls[9], "close", "request", 0, "noticed")
        /\ Moves(Chain.calls[9], {"channel", "file"}, {}, {}, {"file"})
    BY ReadFilesCalls, FreeingIs, PlainIs DEF Made, Moves
  <2> QED
    BY <1>3, <2>1 DEF Made, Moves, CallOK, HeldOK, SiteOK, KindOK,
       WaitOK, GoesOn, Trapped, Where, Homed, Home, Allowed, Blockless
<1>13. CallOK(10)
  <2>1. /\ Made(Chain.calls[10], "unload", "callback", 0, "noticed")
        /\ Moves(Chain.calls[10], {"fs"}, {}, {"buffer", "channel"}, {"fs"})
    BY ReadFilesCalls, DroppingIs, FreeingIs, PlainIs DEF Made, Moves
  <2> QED
    BY <1>3, <2>1 DEF Made, Moves, CallOK, HeldOK, SiteOK, KindOK,
       WaitOK, GoesOn, Trapped, Where, Homed, Home, Allowed, Blockless
<1>14. ASSUME NEW k \in 1 .. 10 PROVE CallOK(k)
  BY <1>4, <1>5, <1>6, <1>7, <1>8, <1>9, <1>10, <1>11, <1>12, <1>13
<1>15. Has(1) = {} /\ Where(1) = 0
  BY DEF Where
<1>16. Has(11) \subseteq Owned \cup {"ctrlr"} /\ "channel" \notin Has(11)
  BY DEF Owned
<1>17. Has(7) = Has(10) /\ Where(7) = Where(10)
  BY DEF Where
<1> QED
  <2> HIDE <1>1, <1>2 DEF Has, Resource
  <2> QED BY <1>2, <1>3, <1>14, <1>15, <1>16, <1>17 DEF ChainOK

(* The chain of bdev_benchmark_sync, to read or to write.                  *)
LEMMA BenchmarkCalls ==
  ASSUME run.name = "bdev_benchmark_sync", run.mode \in {"read", "write"}
  PROVE  /\ Len(Chain.calls) = 9
         /\ Chain.first = 7 /\ Chain.last = 8
         /\ Chain.calls[1] = Now("get_bdev", {}, {})
         /\ Chain.calls[2] = Now("buffer", {}, {"buffer"})
         /\ Chain.calls[3] = Now("desc", {}, {"desc"})
         /\ Chain.calls[4] = Now("channel", {"desc"}, {"channel"})
         /\ Chain.calls[5] = Surely("emplace_back", {}, Files(run.files))
         /\ Chain.calls[6] = Surely("first_file", {"files"}, {})
         /\ Chain.calls[7] = Post(0, {})
         /\ Chain.calls[8] = Later(run.mode, {"desc", "channel", "buffer"}, {})
         /\ Chain.calls[9] = Dropping(Freeing(Surely("bdev_close", {}, {}), "desc"), {"channel", "buffer"})
<1>1. Chain = BenchmarkSync(run.mode, run.files)
  BY DEF Chain
<1> QED
  BY <1>1 DEF BenchmarkSync, Looping, BenchmarkOpen, BenchmarkIo, BenchmarkClose

LEMMA BenchmarkOK ==
  ASSUME run.name = "bdev_benchmark_sync", run.mode \in {"read", "write"}, run.files \in Nat
  PROVE  ChainOK
<1>1. \A r \in Resource : Span(r) =
        CASE r = "buffer" -> 3 .. 9
             [] r = "desc" -> 4 .. 9
             [] r = "channel" -> 5 .. 9
             [] r = "files" -> IF run.files # 0 THEN 6 .. 10 ELSE {}
             [] OTHER -> {}
  <2>1. Extra(run.mode) = 0
    BY DEF Extra
  <2>2. \A r : Span(r) = BenchmarkSpan(0, run.files, r)
    BY <2>1 DEF Span
  <2> QED
    BY <2>2 DEF Resource, BenchmarkSpan
<1>2. Away = {} /\ Wait = {} /\ Unchecked = {}
      /\ Overlooked = {}
  BY DEF Away, Wait, Overlooked, Unchecked
<1> USE <1>1, <1>2 DEF Has, Resource
<1>3. Len(Chain.calls) = 9 /\ Chain.first = 7 /\ Chain.last = 8
  BY BenchmarkCalls
<1>4. CallOK(1)
  <2>1. /\ Made(Chain.calls[1], "get_bdev", "now", 0, "noticed")
        /\ Moves(Chain.calls[1], {}, {}, {}, {})
    BY BenchmarkCalls, PlainIs DEF Made, Moves
  <2> QED
    BY <1>3, <2>1 DEF Made, Moves, CallOK, HeldOK, SiteOK, KindOK,
       WaitOK, GoesOn, Trapped, Where, Homed, Home, Allowed, Blockless
<1>5. CallOK(2)
  <2>1. /\ Made(Chain.calls[2], "buffer", "now", 0, "noticed")
        /\ Moves(Chain.calls[2], {}, {"buffer"}, {}, {})
    BY BenchmarkCalls, PlainIs DEF Made, Moves
  <2> QED
    BY <1>3, <2>1 DEF Made, Moves, CallOK, HeldOK, SiteOK, KindOK,
       WaitOK, GoesOn, Trapped, Where, Homed, Home, Allowed, Blockless
<1>6. CallOK(3)
  <2>1. /\ Made(Chain.calls[3], "desc", "now", 0, "noticed")
        /\ Moves(Chain.calls[3], {}, {"desc"}, {}, {})
    BY BenchmarkCalls, PlainIs DEF Made, Moves
  <2> QED
    BY <1>3, <2>1 DEF Made, Moves, CallOK, HeldOK, SiteOK, KindOK,
       WaitOK, GoesOn, Trapped, Where, Homed, Home, Allowed, Blockless
<1>7. CallOK(4)
  <2>1. /\ Made(Chain.calls[4], "channel", "now", 0, "noticed")
        /\ Moves(Chain.calls[4], {"desc"}, {"channel"}, {}, {})
    BY BenchmarkCalls, PlainIs DEF Made, Moves
  <2> QED
    BY <1>3, <2>1 DEF Made, Moves, CallOK, HeldOK, SiteOK, KindOK,
       WaitOK, GoesOn, Trapped, Where, Homed, Home, Allowed, Blockless
<1>8. CallOK(5)
  <2>1. /\ Made(Chain.calls[5], "emplace_back", "now", 0, "never")
        /\ Moves(Chain.calls[5], {}, Files(run.files), {}, {})
    BY BenchmarkCalls, SurelyIs DEF Made, Moves
  <2> QED
    BY <1>3, <2>1 DEF Made, Moves, Files, CallOK, HeldOK, SiteOK, KindOK,
       WaitOK, GoesOn, Trapped, Where, Homed, Home, Allowed, Blockless
<1>9. CallOK(6)
  <2>1. /\ Made(Chain.calls[6], "first_file", "now", 0, "never")
        /\ Moves(Chain.calls[6], {"files"}, {}, {}, {})
    BY BenchmarkCalls, SurelyIs DEF Made, Moves
  <2> QED
    BY <1>3, <2>1 DEF Made, Moves, CallOK, HeldOK, SiteOK, KindOK,
       WaitOK, GoesOn, Trapped, Where, Homed, Home, Allowed, Blockless
<1>10. CallOK(7)
  <2>1. /\ Made(Chain.calls[7], "event", "event", 0, "never")
        /\ Moves(Chain.calls[7], {}, {}, {}, {})
    BY BenchmarkCalls, PostIs DEF Made, Moves
  <2> QED
    BY <1>3, <2>1 DEF Made, Moves, CallOK, HeldOK, SiteOK, KindOK,
       WaitOK, GoesOn, Trapped, Where, Homed, Home, Allowed, Blockless
<1>11. CallOK(8)
  <2>1. /\ Made(Chain.calls[8], run.mode, "callback", 0, "noticed")
        /\ Moves(Chain.calls[8], {"desc", "channel", "buffer"}, {}, {}, {})
    BY BenchmarkCalls, PlainIs DEF Made, Moves
  <2> QED
    BY <1>3, <2>1 DEF Made, Moves, CallOK, HeldOK, SiteOK, KindOK,
       WaitOK, GoesOn, Trapped, Where, Homed, Home, Allowed, Blockless
<1>12. CallOK(9)
  <2>1. /\ Made(Chain.calls[9], "bdev_close", "now", 0, "never")
        /\ Moves(Chain.calls[9], {"desc"}, {}, {"channel", "buffer"}, {"desc"})
    BY BenchmarkCalls, DroppingIs, FreeingIs, SurelyIs DEF Made, Moves
  <2> QED
    BY <1>3, <2>1 DEF Made, Moves, CallOK, HeldOK, SiteOK, KindOK,
       WaitOK, GoesOn, Trapped, Where, Homed, Home, Allowed, Blockless
<1>13. ASSUME NEW k \in 1 .. 9 PROVE CallOK(k)
  BY <1>4, <1>5, <1>6, <1>7, <1>8, <1>9, <1>10, <1>11, <1>12
<1>14. Has(1) = {} /\ Where(1) = 0
  BY DEF Where
<1>15. Has(10) \subseteq Owned \cup {"ctrlr"} /\ "channel" \notin Has(10)
  BY DEF Owned
<1>16. Has(7) = Has(9) /\ Where(7) = Where(9)
  BY DEF Where
<1> QED
  <2> HIDE <1>1, <1>2 DEF Has, Resource
  <2> QED BY <1>2, <1>3, <1>13, <1>14, <1>15, <1>16 DEF ChainOK

(* The chain of bdev_benchmark_sync, to write and flush.                   *)
LEMMA BenchmarkFlushCalls ==
  ASSUME run.name = "bdev_benchmark_sync", run.mode = "flush"
  PROVE  /\ Len(Chain.calls) = 10
         /\ Chain.first = 7 /\ Chain.last = 9
         /\ Chain.calls[1] = Now("get_bdev", {}, {})
         /\ Chain.calls[2] = Now("buffer", {}, {"buffer"})
         /\ Chain.calls[3] = Now("desc", {}, {"desc"})
         /\ Chain.calls[4] = Now("channel", {"desc"}, {"channel"})
         /\ Chain.calls[5] = Surely("emplace_back", {}, Files(run.files))
         /\ Chain.calls[6] = Surely("first_file", {"files"}, {})
         /\ Chain.calls[7] = Post(0, {})
         /\ Chain.calls[8] = Later("write", {"desc", "channel", "buffer"}, {})
         /\ Chain.calls[9] = Later("flush", {"desc", "channel", "buffer"}, {})
         /\ Chain.calls[10] = Dropping(Freeing(Surely("bdev_close", {}, {}), "desc"), {"channel", "buffer"})
<1>1. Chain = BenchmarkSync("flush", run.files)
  BY DEF Chain
<1> QED
  BY <1>1 DEF BenchmarkSync, Looping, BenchmarkOpen, BenchmarkIo, BenchmarkClose

LEMMA BenchmarkFlushOK ==
  ASSUME run.name = "bdev_benchmark_sync", run.mode = "flush", run.files \in Nat
  PROVE  ChainOK
<1>1. \A r \in Resource : Span(r) =
        CASE r = "buffer" -> 3 .. 10
             [] r = "desc" -> 4 .. 10
             [] r = "channel" -> 5 .. 10
             [] r = "files" -> IF run.files # 0 THEN 6 .. 11 ELSE {}
             [] OTHER -> {}
  <2>1. Extra(run.mode) = 1
    BY DEF Extra
  <2>2. \A r : Span(r) = BenchmarkSpan(1, run.files, r)
    BY <2>1 DEF Span
  <2> QED
    BY <2>2 DEF Resource, BenchmarkSpan
<1>2. Away = {} /\ Wait = {} /\ Unchecked = {}
      /\ Overlooked = {}
  BY DEF Away, Wait, Overlooked, Unchecked
<1> USE <1>1, <1>2 DEF Has, Resource
<1>3. Len(Chain.calls) = 10 /\ Chain.first = 7 /\ Chain.last = 9
  BY BenchmarkFlushCalls
<1>4. CallOK(1)
  <2>1. /\ Made(Chain.calls[1], "get_bdev", "now", 0, "noticed")
        /\ Moves(Chain.calls[1], {}, {}, {}, {})
    BY BenchmarkFlushCalls, PlainIs DEF Made, Moves
  <2> QED
    BY <1>3, <2>1 DEF Made, Moves, CallOK, HeldOK, SiteOK, KindOK,
       WaitOK, GoesOn, Trapped, Where, Homed, Home, Allowed, Blockless
<1>5. CallOK(2)
  <2>1. /\ Made(Chain.calls[2], "buffer", "now", 0, "noticed")
        /\ Moves(Chain.calls[2], {}, {"buffer"}, {}, {})
    BY BenchmarkFlushCalls, PlainIs DEF Made, Moves
  <2> QED
    BY <1>3, <2>1 DEF Made, Moves, CallOK, HeldOK, SiteOK, KindOK,
       WaitOK, GoesOn, Trapped, Where, Homed, Home, Allowed, Blockless
<1>6. CallOK(3)
  <2>1. /\ Made(Chain.calls[3], "desc", "now", 0, "noticed")
        /\ Moves(Chain.calls[3], {}, {"desc"}, {}, {})
    BY BenchmarkFlushCalls, PlainIs DEF Made, Moves
  <2> QED
    BY <1>3, <2>1 DEF Made, Moves, CallOK, HeldOK, SiteOK, KindOK,
       WaitOK, GoesOn, Trapped, Where, Homed, Home, Allowed, Blockless
<1>7. CallOK(4)
  <2>1. /\ Made(Chain.calls[4], "channel", "now", 0, "noticed")
        /\ Moves(Chain.calls[4], {"desc"}, {"channel"}, {}, {})
    BY BenchmarkFlushCalls, PlainIs DEF Made, Moves
  <2> QED
    BY <1>3, <2>1 DEF Made, Moves, CallOK, HeldOK, SiteOK, KindOK,
       WaitOK, GoesOn, Trapped, Where, Homed, Home, Allowed, Blockless
<1>8. CallOK(5)
  <2>1. /\ Made(Chain.calls[5], "emplace_back", "now", 0, "never")
        /\ Moves(Chain.calls[5], {}, Files(run.files), {}, {})
    BY BenchmarkFlushCalls, SurelyIs DEF Made, Moves
  <2> QED
    BY <1>3, <2>1 DEF Made, Moves, Files, CallOK, HeldOK, SiteOK, KindOK,
       WaitOK, GoesOn, Trapped, Where, Homed, Home, Allowed, Blockless
<1>9. CallOK(6)
  <2>1. /\ Made(Chain.calls[6], "first_file", "now", 0, "never")
        /\ Moves(Chain.calls[6], {"files"}, {}, {}, {})
    BY BenchmarkFlushCalls, SurelyIs DEF Made, Moves
  <2> QED
    BY <1>3, <2>1 DEF Made, Moves, CallOK, HeldOK, SiteOK, KindOK,
       WaitOK, GoesOn, Trapped, Where, Homed, Home, Allowed, Blockless
<1>10. CallOK(7)
  <2>1. /\ Made(Chain.calls[7], "event", "event", 0, "never")
        /\ Moves(Chain.calls[7], {}, {}, {}, {})
    BY BenchmarkFlushCalls, PostIs DEF Made, Moves
  <2> QED
    BY <1>3, <2>1 DEF Made, Moves, CallOK, HeldOK, SiteOK, KindOK,
       WaitOK, GoesOn, Trapped, Where, Homed, Home, Allowed, Blockless
<1>11. CallOK(8)
  <2>1. /\ Made(Chain.calls[8], "write", "callback", 0, "noticed")
        /\ Moves(Chain.calls[8], {"desc", "channel", "buffer"}, {}, {}, {})
    BY BenchmarkFlushCalls, PlainIs DEF Made, Moves
  <2> QED
    BY <1>3, <2>1 DEF Made, Moves, CallOK, HeldOK, SiteOK, KindOK,
       WaitOK, GoesOn, Trapped, Where, Homed, Home, Allowed, Blockless
<1>12. CallOK(9)
  <2>1. /\ Made(Chain.calls[9], "flush", "callback", 0, "noticed")
        /\ Moves(Chain.calls[9], {"desc", "channel", "buffer"}, {}, {}, {})
    BY BenchmarkFlushCalls, PlainIs DEF Made, Moves
  <2> QED
    BY <1>3, <2>1 DEF Made, Moves, CallOK, HeldOK, SiteOK, KindOK,
       WaitOK, GoesOn, Trapped, Where, Homed, Home, Allowed, Blockless
<1>13. CallOK(10)
  <2>1. /\ Made(Chain.calls[10], "bdev_close", "now", 0, "never")
        /\ Moves(Chain.calls[10], {"desc"}, {}, {"channel", "buffer"}, {"desc"})
    BY BenchmarkFlushCalls, DroppingIs, FreeingIs, SurelyIs DEF Made, Moves
  <2> QED
    BY <1>3, <2>1 DEF Made, Moves, CallOK, HeldOK, SiteOK, KindOK,
       WaitOK, GoesOn, Trapped, Where, Homed, Home, Allowed, Blockless
<1>14. ASSUME NEW k \in 1 .. 10 PROVE CallOK(k)
  BY <1>4, <1>5, <1>6, <1>7, <1>8, <1>9, <1>10, <1>11, <1>12, <1>13
<1>15. Has(1) = {} /\ Where(1) = 0
  BY DEF Where
<1>16. Has(11) \subseteq Owned \cup {"ctrlr"} /\ "channel" \notin Has(11)
  BY DEF Owned
<1>17. Has(7) = Has(10) /\ Where(7) = Where(10)
  BY DEF Where
<1> QED
  <2> HIDE <1>1, <1>2 DEF Has, Resource
  <2> QED BY <1>2, <1>3, <1>14, <1>15, <1>16, <1>17 DEF ChainOK

(* The chain of io_benchmark_sync.                                         *)
LEMMA IoSyncCalls ==
  ASSUME run.name = "io_benchmark_sync", run.files # 0, run.mode \in {"read", "write"}
  PROVE  /\ Len(Chain.calls) = 9
         /\ Chain.first = 7 /\ Chain.last = 7
         /\ Chain.calls[1] = Now("open", {}, {"fd"})
         /\ Chain.calls[2] = Now("fstat", {"fd"}, {})
         /\ Chain.calls[3] = Ignoring(Now("ioctl", {"fd"}, {}))
         /\ Chain.calls[4] = Surely("available", Divisor(run.block), {})
         /\ Chain.calls[5] = Unseen("files", {})
         /\ Chain.calls[6] = Surely("fill", {"files"}, {})
         /\ Chain.calls[7] = Now(run.mode, {"fd", "files"}, {})
         /\ Chain.calls[8] = Freeing(Surely("close", {}, {}), "fd")
         /\ Chain.calls[9] = Surely("average", {"files"}, {})
<1>1. Chain = IoSync(run.mode, run.files, run.block)
  BY DEF Chain
<1> QED
  BY <1>1 DEF IoSync, Looping

LEMMA IoSyncOK ==
  ASSUME run.name = "io_benchmark_sync", run.files # 0, run.mode \in {"read", "write"}, run.files \in Nat
  PROVE  ChainOK
<1>1. \A r \in Resource : Span(r) =
        CASE r = "fd" -> 2 .. 8
             [] r = "files" -> 6 .. 10
             [] OTHER -> {}
  BY DEF Resource, Span, IoSyncSpan
<1>2. Away = {} /\ Wait = {6} /\ Unchecked = {"files"}
      /\ Overlooked = {"ioctl"}
  BY DEF Away, Wait, Overlooked, Unchecked
<1> USE <1>1, <1>2 DEF Has, Resource
<1>3. Len(Chain.calls) = 9 /\ Chain.first = 7 /\ Chain.last = 7
  BY IoSyncCalls
<1>4. CallOK(1)
  <2>1. /\ Made(Chain.calls[1], "open", "now", 0, "noticed")
        /\ Moves(Chain.calls[1], {}, {"fd"}, {}, {})
    BY IoSyncCalls, PlainIs DEF Made, Moves
  <2> QED
    BY <1>3, <2>1 DEF Made, Moves, CallOK, HeldOK, SiteOK, KindOK,
       WaitOK, GoesOn, Trapped, Where, Homed, Home, Allowed, Blockless
<1>5. CallOK(2)
  <2>1. /\ Made(Chain.calls[2], "fstat", "now", 0, "noticed")
        /\ Moves(Chain.calls[2], {"fd"}, {}, {}, {})
    BY IoSyncCalls, PlainIs DEF Made, Moves
  <2> QED
    BY <1>3, <2>1 DEF Made, Moves, CallOK, HeldOK, SiteOK, KindOK,
       WaitOK, GoesOn, Trapped, Where, Homed, Home, Allowed, Blockless
<1>6. CallOK(3)
  <2>1. /\ Made(Chain.calls[3], "ioctl", "now", 0, "ignored")
        /\ Moves(Chain.calls[3], {"fd"}, {}, {}, {})
    BY IoSyncCalls, IgnoringIs, PlainIs DEF Made, Moves
  <2> QED
    BY <1>3, <2>1 DEF Made, Moves, CallOK, HeldOK, SiteOK, KindOK,
       WaitOK, GoesOn, Trapped, Where, Homed, Home, Allowed, Blockless
<1>7. CallOK(4)
  <2>1. /\ Made(Chain.calls[4], "available", "now", 0, "never")
        /\ Moves(Chain.calls[4], Divisor(run.block), {}, {}, {})
    BY IoSyncCalls, SurelyIs DEF Made, Moves
  <2> QED
    BY <1>3, <2>1 DEF Made, Moves, CallOK, HeldOK, SiteOK, KindOK,
       WaitOK, GoesOn, Trapped, Where, Homed, Home, Allowed, Blockless, Divisor
<1>8. CallOK(5)
  <2>1. /\ Made(Chain.calls[5], "files", "now", 0, "null")
        /\ Moves(Chain.calls[5], {}, {"files"}, {}, {})
    BY IoSyncCalls, UnseenIs DEF Made, Moves
  <2> QED
    BY <1>3, <2>1 DEF Made, Moves, CallOK, HeldOK, SiteOK, KindOK,
       WaitOK, GoesOn, Trapped, Where, Homed, Home, Allowed, Blockless
<1>9. CallOK(6)
  <2>1. /\ Made(Chain.calls[6], "fill", "now", 0, "never")
        /\ Moves(Chain.calls[6], {"files"}, {}, {}, {})
    BY IoSyncCalls, SurelyIs DEF Made, Moves
  <2> QED
    BY <1>3, <2>1 DEF Made, Moves, CallOK, HeldOK, SiteOK, KindOK,
       WaitOK, GoesOn, Trapped, Where, Homed, Home, Allowed, Blockless
<1>10. CallOK(7)
  <2>1. /\ Made(Chain.calls[7], run.mode, "now", 0, "noticed")
        /\ Moves(Chain.calls[7], {"fd", "files"}, {}, {}, {})
    BY IoSyncCalls, PlainIs DEF Made, Moves
  <2> QED
    BY <1>3, <2>1 DEF Made, Moves, CallOK, HeldOK, SiteOK, KindOK,
       WaitOK, GoesOn, Trapped, Where, Homed, Home, Allowed, Blockless
<1>11. CallOK(8)
  <2>1. /\ Made(Chain.calls[8], "close", "now", 0, "never")
        /\ Moves(Chain.calls[8], {"fd"}, {}, {}, {"fd"})
    BY IoSyncCalls, FreeingIs, SurelyIs DEF Made, Moves
  <2> QED
    BY <1>3, <2>1 DEF Made, Moves, CallOK, HeldOK, SiteOK, KindOK,
       WaitOK, GoesOn, Trapped, Where, Homed, Home, Allowed, Blockless
<1>12. CallOK(9)
  <2>1. /\ Made(Chain.calls[9], "average", "now", 0, "never")
        /\ Moves(Chain.calls[9], {"files"}, {}, {}, {})
    BY IoSyncCalls, SurelyIs DEF Made, Moves
  <2> QED
    BY <1>3, <2>1 DEF Made, Moves, CallOK, HeldOK, SiteOK, KindOK,
       WaitOK, GoesOn, Trapped, Where, Homed, Home, Allowed, Blockless
<1>13. ASSUME NEW k \in 1 .. 9 PROVE CallOK(k)
  BY <1>4, <1>5, <1>6, <1>7, <1>8, <1>9, <1>10, <1>11, <1>12
<1>14. Has(1) = {} /\ Where(1) = 0
  BY DEF Where
<1>15. Has(10) \subseteq Owned \cup {"ctrlr"} /\ "channel" \notin Has(10)
  BY DEF Owned
<1>16. Has(7) = Has(8) /\ Where(7) = Where(8)
  BY DEF Where
<1> QED
  <2> HIDE <1>1, <1>2 DEF Has, Resource
  <2> QED BY <1>2, <1>3, <1>13, <1>14, <1>15, <1>16 DEF ChainOK

(* The chain of io_benchmark_sync, without a block.                        *)
LEMMA IoSyncEmptyCalls ==
  ASSUME run.name = "io_benchmark_sync", run.files = 0, run.mode \in {"read", "write"}
  PROVE  /\ Len(Chain.calls) = 7
         /\ Chain.first = 5 /\ Chain.last = 5
         /\ Chain.calls[1] = Now("open", {}, {"fd"})
         /\ Chain.calls[2] = Now("fstat", {"fd"}, {})
         /\ Chain.calls[3] = Ignoring(Now("ioctl", {"fd"}, {}))
         /\ Chain.calls[4] = Surely("available", Divisor(run.block), {})
         /\ Chain.calls[5] = Now(run.mode, {"fd", "files"}, {})
         /\ Chain.calls[6] = Freeing(Surely("close", {}, {}), "fd")
         /\ Chain.calls[7] = Surely("average", {"files"}, {})
<1>1. Chain = IoSync(run.mode, run.files, run.block)
  BY DEF Chain
<1> QED
  BY <1>1 DEF IoSync, Looping

LEMMA IoSyncEmptyOK ==
  ASSUME run.name = "io_benchmark_sync", run.mode \in {"read", "write"}, run.files = 0
  PROVE  ChainOK
<1>1. \A r \in Resource : Span(r) =
        CASE r = "fd" -> 2 .. 6
             [] OTHER -> {}
  BY DEF Resource, Span, IoSyncSpan
<1>2. Away = {} /\ Wait = {} /\ Unchecked = {"files"}
      /\ Overlooked = {"ioctl"}
  BY DEF Away, Wait, Overlooked, Unchecked
<1> USE <1>1, <1>2 DEF Has, Resource
<1>3. Len(Chain.calls) = 7 /\ Chain.first = 5 /\ Chain.last = 5
  BY IoSyncEmptyCalls
<1>4. CallOK(1)
  <2>1. /\ Made(Chain.calls[1], "open", "now", 0, "noticed")
        /\ Moves(Chain.calls[1], {}, {"fd"}, {}, {})
    BY IoSyncEmptyCalls, PlainIs DEF Made, Moves
  <2> QED
    BY <1>3, <2>1 DEF Made, Moves, CallOK, HeldOK, SiteOK, KindOK,
       WaitOK, GoesOn, Trapped, Where, Homed, Home, Allowed, Blockless
<1>5. CallOK(2)
  <2>1. /\ Made(Chain.calls[2], "fstat", "now", 0, "noticed")
        /\ Moves(Chain.calls[2], {"fd"}, {}, {}, {})
    BY IoSyncEmptyCalls, PlainIs DEF Made, Moves
  <2> QED
    BY <1>3, <2>1 DEF Made, Moves, CallOK, HeldOK, SiteOK, KindOK,
       WaitOK, GoesOn, Trapped, Where, Homed, Home, Allowed, Blockless
<1>6. CallOK(3)
  <2>1. /\ Made(Chain.calls[3], "ioctl", "now", 0, "ignored")
        /\ Moves(Chain.calls[3], {"fd"}, {}, {}, {})
    BY IoSyncEmptyCalls, IgnoringIs, PlainIs DEF Made, Moves
  <2> QED
    BY <1>3, <2>1 DEF Made, Moves, CallOK, HeldOK, SiteOK, KindOK,
       WaitOK, GoesOn, Trapped, Where, Homed, Home, Allowed, Blockless
<1>7. CallOK(4)
  <2>1. /\ Made(Chain.calls[4], "available", "now", 0, "never")
        /\ Moves(Chain.calls[4], Divisor(run.block), {}, {}, {})
    BY IoSyncEmptyCalls, SurelyIs DEF Made, Moves
  <2> QED
    BY <1>3, <2>1 DEF Made, Moves, CallOK, HeldOK, SiteOK, KindOK,
       WaitOK, GoesOn, Trapped, Where, Homed, Home, Allowed, Blockless, Divisor
<1>8. CallOK(5)
  <2>1. /\ Made(Chain.calls[5], run.mode, "now", 0, "noticed")
        /\ Moves(Chain.calls[5], {"fd", "files"}, {}, {}, {})
    BY IoSyncEmptyCalls, PlainIs DEF Made, Moves
  <2> QED
    BY <1>3, <2>1 DEF Made, Moves, CallOK, HeldOK, SiteOK, KindOK,
       WaitOK, GoesOn, Trapped, Where, Homed, Home, Allowed, Blockless
<1>9. CallOK(6)
  <2>1. /\ Made(Chain.calls[6], "close", "now", 0, "never")
        /\ Moves(Chain.calls[6], {"fd"}, {}, {}, {"fd"})
    BY IoSyncEmptyCalls, FreeingIs, SurelyIs DEF Made, Moves
  <2> QED
    BY <1>3, <2>1 DEF Made, Moves, CallOK, HeldOK, SiteOK, KindOK,
       WaitOK, GoesOn, Trapped, Where, Homed, Home, Allowed, Blockless
<1>10. CallOK(7)
  <2>1. /\ Made(Chain.calls[7], "average", "now", 0, "never")
        /\ Moves(Chain.calls[7], {"files"}, {}, {}, {})
    BY IoSyncEmptyCalls, SurelyIs DEF Made, Moves
  <2> QED
    BY <1>3, <2>1 DEF Made, Moves, CallOK, HeldOK, SiteOK, KindOK,
       WaitOK, GoesOn, Trapped, Where, Homed, Home, Allowed, Blockless
<1>11. ASSUME NEW k \in 1 .. 7 PROVE CallOK(k)
  BY <1>4, <1>5, <1>6, <1>7, <1>8, <1>9, <1>10
<1>12. Has(1) = {} /\ Where(1) = 0
  BY DEF Where
<1>13. Has(8) \subseteq Owned \cup {"ctrlr"} /\ "channel" \notin Has(8)
  BY DEF Owned
<1>14. Has(5) = Has(6) /\ Where(5) = Where(6)
  BY DEF Where
<1> QED
  <2> HIDE <1>1, <1>2 DEF Has, Resource
  <2> QED BY <1>2, <1>3, <1>11, <1>12, <1>13, <1>14 DEF ChainOK

(* The chain of sequential.                                                *)
LEMMA SequentialCalls ==
  ASSUME run.name = "sequential"
  PROVE  /\ Len(Chain.calls) = 5
         /\ Chain.first = 0 /\ Chain.last = 0
         /\ Chain.calls[1] = Now("probe", {}, {"ctrlr"})
         /\ Chain.calls[2] = Now("qpair", {"ctrlr"}, {"qpair"})
         /\ Chain.calls[3] = Now("buffer", {"ctrlr"}, {"buffer"})
         /\ Chain.calls[4] = Submit("read")
         /\ Chain.calls[5] = Poll
<1>1. Chain = Sequential
  BY DEF Chain
<1> QED
  BY <1>1 DEF Sequential, Straight, Attach

LEMMA SequentialOK ==
  ASSUME run.name = "sequential", run.files = 0
  PROVE  ChainOK
<1>1. \A r \in Resource : Span(r) =
        CASE r = "ctrlr" -> 2 .. 6
             [] r = "qpair" -> 3 .. 6
             [] r = "buffer" -> 4 .. 6
             [] OTHER -> {}
  BY DEF Resource, Span, SequentialSpan
<1>2. Away = {} /\ Wait = {} /\ Unchecked = {}
      /\ Overlooked = {"completion"}
  BY DEF Away, Wait, Overlooked, Unchecked
<1> USE <1>1, <1>2 DEF Has, Resource
<1>3. Len(Chain.calls) = 5 /\ Chain.first = 0 /\ Chain.last = 0
  BY SequentialCalls
<1>4. CallOK(1)
  <2>1. /\ Made(Chain.calls[1], "probe", "now", 0, "noticed")
        /\ Moves(Chain.calls[1], {}, {"ctrlr"}, {}, {})
    BY SequentialCalls, PlainIs DEF Made, Moves
  <2> QED
    BY <1>3, <2>1 DEF Made, Moves, CallOK, HeldOK, SiteOK, KindOK,
       WaitOK, GoesOn, Trapped, Where, Homed, Home, Allowed, Blockless
<1>5. CallOK(2)
  <2>1. /\ Made(Chain.calls[2], "qpair", "now", 0, "noticed")
        /\ Moves(Chain.calls[2], {"ctrlr"}, {"qpair"}, {}, {})
    BY SequentialCalls, PlainIs DEF Made, Moves
  <2> QED
    BY <1>3, <2>1 DEF Made, Moves, CallOK, HeldOK, SiteOK, KindOK,
       WaitOK, GoesOn, Trapped, Where, Homed, Home, Allowed, Blockless
<1>6. CallOK(3)
  <2>1. /\ Made(Chain.calls[3], "buffer", "now", 0, "noticed")
        /\ Moves(Chain.calls[3], {"ctrlr"}, {"buffer"}, {}, {})
    BY SequentialCalls, PlainIs DEF Made, Moves
  <2> QED
    BY <1>3, <2>1 DEF Made, Moves, CallOK, HeldOK, SiteOK, KindOK,
       WaitOK, GoesOn, Trapped, Where, Homed, Home, Allowed, Blockless
<1>7. CallOK(4)
  <2>1. /\ Made(Chain.calls[4], "read", "submit", 0, "noticed")
        /\ Moves(Chain.calls[4], {"qpair", "buffer"}, {}, {}, {})
    BY SequentialCalls, StepIs DEF Made, Moves, Submit
  <2> QED
    BY <1>3, <2>1 DEF Made, Moves, CallOK, HeldOK, SiteOK, KindOK,
       WaitOK, GoesOn, Trapped, Where, Homed, Home, Allowed, Blockless
<1>8. CallOK(5)
  <2>1. /\ Made(Chain.calls[5], "process_completions", "poll", 0, "noticed")
        /\ Moves(Chain.calls[5], {"qpair"}, {}, {}, {})
    BY SequentialCalls, StepIs DEF Made, Moves, Poll
  <2> QED
    BY <1>3, <2>1 DEF Made, Moves, CallOK, HeldOK, SiteOK, KindOK,
       WaitOK, GoesOn, Trapped, Where, Homed, Home, Allowed, Blockless
<1>9. ASSUME NEW k \in 1 .. 5 PROVE CallOK(k)
  BY <1>4, <1>5, <1>6, <1>7, <1>8
<1>10. Has(1) = {} /\ Where(1) = 0
  BY DEF Where
<1>11. Has(6) \subseteq Owned \cup {"ctrlr"} /\ "channel" \notin Has(6)
  BY DEF Owned
<1> QED
  <2> HIDE <1>1, <1>2 DEF Has, Resource
  <2> QED BY <1>2, <1>3, <1>9, <1>10, <1>11 DEF ChainOK

(* The chain of sequential_write.                                          *)
LEMMA SequentialWriteCalls ==
  ASSUME run.name = "sequential_write"
  PROVE  /\ Len(Chain.calls) = 7
         /\ Chain.first = 4 /\ Chain.last = 5
         /\ Chain.calls[1] = Now("probe", {}, {"ctrlr"})
         /\ Chain.calls[2] = Now("qpair", {"ctrlr"}, {"qpair"})
         /\ Chain.calls[3] = Now("buffer", {"ctrlr"}, {"buffer"})
         /\ Chain.calls[4] = Claim
         /\ Chain.calls[5] = Submit("write")
         /\ Chain.calls[6] = Submit("flush")
         /\ Chain.calls[7] = Spin
<1>1. Chain = SequentialWrite
  BY DEF Chain
<1> QED
  BY <1>1 DEF SequentialWrite, Looping, Attach

LEMMA SequentialWriteOK ==
  ASSUME run.name = "sequential_write", run.files \in Nat
  PROVE  ChainOK
<1>1. \A r \in Resource : Span(r) =
        CASE r = "ctrlr" -> 2 .. 8
             [] r = "qpair" -> 3 .. 8
             [] r = "buffer" -> 4 .. 8
             [] OTHER -> {}
  BY DEF Resource, Span, SequentialSpan
<1>2. Away = {} /\ Wait = {} /\ Unchecked = {}
      /\ Overlooked = {}
  BY DEF Away, Wait, Overlooked, Unchecked
<1> USE <1>1, <1>2 DEF Has, Resource
<1>3. Len(Chain.calls) = 7 /\ Chain.first = 4 /\ Chain.last = 5
  BY SequentialWriteCalls
<1>4. CallOK(1)
  <2>1. /\ Made(Chain.calls[1], "probe", "now", 0, "noticed")
        /\ Moves(Chain.calls[1], {}, {"ctrlr"}, {}, {})
    BY SequentialWriteCalls, PlainIs DEF Made, Moves
  <2> QED
    BY <1>3, <2>1 DEF Made, Moves, CallOK, HeldOK, SiteOK, KindOK,
       WaitOK, GoesOn, Trapped, Where, Homed, Home, Allowed, Blockless
<1>5. CallOK(2)
  <2>1. /\ Made(Chain.calls[2], "qpair", "now", 0, "noticed")
        /\ Moves(Chain.calls[2], {"ctrlr"}, {"qpair"}, {}, {})
    BY SequentialWriteCalls, PlainIs DEF Made, Moves
  <2> QED
    BY <1>3, <2>1 DEF Made, Moves, CallOK, HeldOK, SiteOK, KindOK,
       WaitOK, GoesOn, Trapped, Where, Homed, Home, Allowed, Blockless
<1>6. CallOK(3)
  <2>1. /\ Made(Chain.calls[3], "buffer", "now", 0, "noticed")
        /\ Moves(Chain.calls[3], {"ctrlr"}, {"buffer"}, {}, {})
    BY SequentialWriteCalls, PlainIs DEF Made, Moves
  <2> QED
    BY <1>3, <2>1 DEF Made, Moves, CallOK, HeldOK, SiteOK, KindOK,
       WaitOK, GoesOn, Trapped, Where, Homed, Home, Allowed, Blockless
<1>7. CallOK(4)
  <2>1. /\ Made(Chain.calls[4], "flush", "claim", 0, "noticed")
        /\ Moves(Chain.calls[4], {"qpair"}, {}, {}, {})
    BY SequentialWriteCalls, StepIs DEF Made, Moves, Claim
  <2> QED
    BY <1>3, <2>1 DEF Made, Moves, CallOK, HeldOK, SiteOK, KindOK,
       WaitOK, GoesOn, Trapped, Where, Homed, Home, Allowed, Blockless
<1>8. CallOK(5)
  <2>1. /\ Made(Chain.calls[5], "write", "submit", 0, "noticed")
        /\ Moves(Chain.calls[5], {"qpair", "buffer"}, {}, {}, {})
    BY SequentialWriteCalls, StepIs DEF Made, Moves, Submit
  <2> QED
    BY <1>3, <2>1 DEF Made, Moves, CallOK, HeldOK, SiteOK, KindOK,
       WaitOK, GoesOn, Trapped, Where, Homed, Home, Allowed, Blockless
<1>9. CallOK(6)
  <2>1. /\ Made(Chain.calls[6], "flush", "submit", 0, "noticed")
        /\ Moves(Chain.calls[6], {"qpair", "buffer"}, {}, {}, {})
    BY SequentialWriteCalls, StepIs DEF Made, Moves, Submit
  <2> QED
    BY <1>3, <2>1 DEF Made, Moves, CallOK, HeldOK, SiteOK, KindOK,
       WaitOK, GoesOn, Trapped, Where, Homed, Home, Allowed, Blockless
<1>10. CallOK(7)
  <2>1. /\ Made(Chain.calls[7], "spin", "spin", 0, "noticed")
        /\ Moves(Chain.calls[7], {}, {}, {}, {})
    BY SequentialWriteCalls, StepIs DEF Made, Moves, Spin
  <2> QED
    BY <1>3, <2>1 DEF Made, Moves, CallOK, HeldOK, SiteOK, KindOK,
       WaitOK, GoesOn, Trapped, Where, Homed, Home, Allowed, Blockless
<1>11. ASSUME NEW k \in 1 .. 7 PROVE CallOK(k)
  BY <1>4, <1>5, <1>6, <1>7, <1>8, <1>9, <1>10
<1>12. Has(1) = {} /\ Where(1) = 0
  BY DEF Where
<1>13. Has(8) \subseteq Owned \cup {"ctrlr"} /\ "channel" \notin Has(8)
  BY DEF Owned
<1>14. Has(4) = Has(6) /\ Where(4) = Where(6)
  BY DEF Where
<1> QED
  <2> HIDE <1>1, <1>2 DEF Has, Resource
  <2> QED BY <1>2, <1>3, <1>11, <1>12, <1>13, <1>14 DEF ChainOK

(* The chain of cmb.                                                       *)
LEMMA CmbCalls ==
  ASSUME run.name = "cmb"
  PROVE  /\ Len(Chain.calls) = 2
         /\ Chain.first = 0 /\ Chain.last = 0
         /\ Chain.calls[1] = Now("probe", {}, {"ctrlr"})
         /\ Chain.calls[2] = Ignoring(Now("buffer", {"ctrlr"}, {"buffer"}))
<1>1. Chain = Cmb
  BY DEF Chain
<1> QED
  BY <1>1 DEF Cmb, Straight

LEMMA CmbOK ==
  ASSUME run.name = "cmb", run.files = 0
  PROVE  ChainOK
<1>1. \A r \in Resource : Span(r) =
        CASE r = "ctrlr" -> 2 .. 3
             [] r = "buffer" -> {3}
             [] OTHER -> {}
  BY DEF Resource, Span, CmbSpan
<1>2. Away = {} /\ Wait = {} /\ Unchecked = {}
      /\ Overlooked = {"buffer"}
  BY DEF Away, Wait, Overlooked, Unchecked
<1> USE <1>1, <1>2 DEF Has, Resource
<1>3. Len(Chain.calls) = 2 /\ Chain.first = 0 /\ Chain.last = 0
  BY CmbCalls
<1>4. CallOK(1)
  <2>1. /\ Made(Chain.calls[1], "probe", "now", 0, "noticed")
        /\ Moves(Chain.calls[1], {}, {"ctrlr"}, {}, {})
    BY CmbCalls, PlainIs DEF Made, Moves
  <2> QED
    BY <1>3, <2>1 DEF Made, Moves, CallOK, HeldOK, SiteOK, KindOK,
       WaitOK, GoesOn, Trapped, Where, Homed, Home, Allowed, Blockless
<1>5. CallOK(2)
  <2>1. /\ Made(Chain.calls[2], "buffer", "now", 0, "ignored")
        /\ Moves(Chain.calls[2], {"ctrlr"}, {"buffer"}, {}, {})
    BY CmbCalls, IgnoringIs, PlainIs DEF Made, Moves
  <2> QED
    BY <1>3, <2>1 DEF Made, Moves, CallOK, HeldOK, SiteOK, KindOK,
       WaitOK, GoesOn, Trapped, Where, Homed, Home, Allowed, Blockless
<1>6. ASSUME NEW k \in 1 .. 2 PROVE CallOK(k)
  BY <1>4, <1>5
<1>7. Has(1) = {} /\ Where(1) = 0
  BY DEF Where
<1>8. Has(3) \subseteq Owned \cup {"ctrlr"} /\ "channel" \notin Has(3)
  BY DEF Owned
<1> QED
  <2> HIDE <1>1, <1>2 DEF Has, Resource
  <2> QED BY <1>2, <1>3, <1>6, <1>7, <1>8 DEF ChainOK

(* What a run may be, by program.                                          *)
LEMMA RunsAre ==
  ASSUME run \in Runs
  PROVE  /\ run.files \in 0 .. MaxFiles
         /\ \/ run.name = "hello" /\ run.files = 0
            \/ run.name = "bdev" /\ run.create \in BOOLEAN /\ run.files = 0
            \/ run.name = "blobfs" /\ run.mode \in {"read", "write", "delete"} /\ run.files = 0
            \/ run.name = "blobfs_write_files" /\ run.mode \in {"write", "flush"}
            \/ run.name = "blobfs_read_files"
            \/ run.name = "bdev_benchmark_sync" /\ run.mode \in {"read", "write", "flush"}
            \/ run.name = "io_benchmark_sync" /\ run.mode \in {"read", "write"}
            \/ run.name = "sequential" /\ run.files = 0
            \/ run.name = "sequential_write"
            \/ run.name = "cmb" /\ run.files = 0
<1> DEFINE n == 0 .. MaxFiles
<1>1. ASSUME NEW name, NEW create, NEW mode, NEW files, NEW block,
             run \in Options(name, create, mode, files, block)
      PROVE  run.name = name /\ run.create \in create /\ run.mode \in mode /\ run.files \in files
  BY <1>1 DEF Options
<1>2. \/ run \in Options("hello", {TRUE}, {"write"}, {0}, {1})
      \/ run \in Options("bdev", BOOLEAN, {"read"}, {0}, {1})
      \/ run \in Options("blobfs", BOOLEAN, {"read", "write", "delete"}, {0}, {1})
      \/ run \in Options("blobfs_write_files", {TRUE}, {"write", "flush"}, n, {1})
      \/ run \in Options("blobfs_read_files", {FALSE}, {"read"}, n, {1})
      \/ run \in Options("bdev_benchmark_sync", {FALSE}, {"read", "write", "flush"}, n, {1})
      \/ run \in Options("io_benchmark_sync", {FALSE}, {"read", "write"}, n, {0, 1})
      \/ run \in Options("sequential", {FALSE}, {"read"}, {0}, {1})
      \/ run \in Options("sequential_write", {FALSE}, {"write"}, n, {1})
      \/ run \in Options("cmb", {FALSE}, {"allocate"}, {0}, {1})
  BY DEF Runs
<1>3. 0 \in n
  BY ConstantsOK
<1>4. CASE run \in Options("hello", {TRUE}, {"write"}, {0}, {1})
  BY <1>1, <1>3, <1>4
<1>5. CASE run \in Options("bdev", BOOLEAN, {"read"}, {0}, {1})
  BY <1>1, <1>3, <1>5
<1>6. CASE run \in Options("blobfs", BOOLEAN, {"read", "write", "delete"}, {0}, {1})
  BY <1>1, <1>3, <1>6
<1>7. CASE run \in Options("blobfs_write_files", {TRUE}, {"write", "flush"}, n, {1})
  BY <1>1, <1>3, <1>7
<1>8. CASE run \in Options("blobfs_read_files", {FALSE}, {"read"}, n, {1})
  BY <1>1, <1>3, <1>8
<1>9. CASE run \in Options("bdev_benchmark_sync", {FALSE}, {"read", "write", "flush"}, n, {1})
  BY <1>1, <1>3, <1>9
<1>10. CASE run \in Options("io_benchmark_sync", {FALSE}, {"read", "write"}, n, {0, 1})
  BY <1>1, <1>3, <1>10
<1>11. CASE run \in Options("sequential", {FALSE}, {"read"}, {0}, {1})
  BY <1>1, <1>3, <1>11
<1>12. CASE run \in Options("sequential_write", {FALSE}, {"write"}, n, {1})
  BY <1>1, <1>3, <1>12
<1>13. CASE run \in Options("cmb", {FALSE}, {"allocate"}, {0}, {1})
  BY <1>1, <1>3, <1>13
<1> QED
  BY <1>2, <1>4, <1>5, <1>6, <1>7, <1>8, <1>9, <1>10, <1>11, <1>12, <1>13

(* Every call of every chain keeps to its table.                           *)
LEMMA ChainsOK ==
  ASSUME run \in Runs
  PROVE  ChainOK
<1> run.files \in Nat
  BY RunsAre, ConstantsOK
<1> QED
  BY RunsAre, HelloOK, BdevCreateOK, BdevLoadOK, BlobfsReadOK, BlobfsWriteOK, BlobfsDeleteOK,
     WriteFilesOK, WriteFilesFlushOK, ReadFilesOK, BenchmarkOK, BenchmarkFlushOK, IoSyncOK,
     IoSyncEmptyOK, SequentialOK, SequentialWriteOK, CmbOK

-------------------------------------------------------------------------------
(* Every step keeps the run, and so its chain and the tables.              *)
LEMMA SameRun ==
  ASSUME run' = run
  PROVE  /\ Chain' = Chain /\ Current' = Chain.calls[pc']
         /\ Has(pc)' = Has(pc') /\ Where(pc)' = Where(pc')
         /\ Has(Len(Chain.calls) + 1)' = Has(Len(Chain.calls) + 1)
         /\ \A r : Home(r)' = Home(r)
         /\ Owned' = Owned /\ Blockless' = Blockless /\ Throws' = Throws
         /\ Allowed' = Allowed /\ Overlooked' = Overlooked /\ Trapped' = Trapped
         /\ Unchecked' = Unchecked
         /\ Wait' = Wait
<1>1. Chain' = Chain
  BY DEF Chain
<1>2. Current' = Chain.calls[pc']
  BY <1>1 DEF Current
<1>3. Has(pc)' = Has(pc')
  BY DEF Has, Span
<1>4. Where(pc)' = Where(pc')
  BY DEF Where, Away
<1>5. Owned' = Owned /\ Blockless' = Blockless /\ Throws' = Throws /\ Allowed' = Allowed
  BY DEF Owned, Blockless, Throws, Allowed
<1>6. \A r : Home(r)' = Home(r)
  BY DEF Home
<1>7. Overlooked' = Overlooked /\ Trapped' = Trapped /\ Wait' = Wait /\ Unchecked' = Unchecked
  BY DEF Overlooked, Trapped, Wait, Unchecked
<1> QED
  BY <1>1, <1>2, <1>3, <1>4, <1>5, <1>6, <1>7 DEF Has, Span

(* What is held at the next call is what this one leaves.                  *)
LEMMA HasIs ==
  ASSUME NEW k \in Nat \ {0}, k <= Len(Chain.calls), ChainOK
  PROVE  LET c == Chain.calls[k] IN
         /\ Has(k + 1) = ((Has(k) \ c.drops) \ c.frees) \cup c.takes
         /\ Has(k) \subseteq Resource /\ c.takes \subseteq Resource
<1>1. HeldOK(Chain.calls[k], k)
  BY DEF ChainOK, CallOK
<1> QED
  BY <1>1 DEF HeldOK, Has

(* A running program is at a call of its chain, which keeps to the tables. *)
LEMMA AtCall ==
  ASSUME Inductive, status = "running"
  PROVE  /\ pc \in 1 .. Len(Chain.calls) /\ Len(Chain.calls) \in Nat \ {0}
         /\ HeldOK(Current, pc) /\ SiteOK(Current, pc) /\ KindOK(Current, pc)
         /\ WaitOK(Current, pc) /\ Wait \subseteq 1 .. Len(Chain.calls)
         /\ Has(pc + 1) = ((Has(pc) \ Current.drops) \ Current.frees) \cup Current.takes
         /\ Has(pc) \subseteq Resource /\ Current.takes \subseteq Resource
         /\ lcore = Where(pc)
<1>1. ChainOK
  BY ChainsOK DEF Inductive, TypeOK
<1>2. pc \in 1 .. Len(Chain.calls) /\ Len(Chain.calls) \in Nat \ {0}
  BY <1>1 DEF Inductive, HeldInv, ChainOK
<1>3. /\ HeldOK(Current, pc) /\ SiteOK(Current, pc) /\ KindOK(Current, pc) /\ WaitOK(Current, pc)
      /\ Wait \subseteq 1 .. Len(Chain.calls)
  BY <1>1, <1>2 DEF ChainOK, CallOK, Current
<1>4. lcore = Where(pc)
  BY DEF Inductive, SiteInv
<1> QED
  BY <1>1, <1>2, <1>3, <1>4, HasIs DEF Current

(* The shape of a chain. *)
LEMMA Shape ==
  ASSUME run \in Runs
  PROVE  LET n == Len(Chain.calls) IN
         /\ n \in Nat \ {0} /\ run.files \in Nat /\ run.files <= MaxFiles
         /\ \/ run.files = 0 /\ Chain.first = 0 /\ Chain.last = 0
            \/ /\ Chain.last \in 2 .. n - 1 /\ Chain.first \in 2 .. Chain.last
               /\ Has(Chain.first) = Has(Chain.last + 1)
               /\ Where(Chain.first) = Where(Chain.last + 1)
         /\ run.name = "hello" => n = 16 /\ run.files = 0 /\ Chain.first = 0 /\ Chain.last = 0
         /\ run.name = "sequential_write" => n = 7 /\ Chain.first = 4 /\ Chain.last = 5
<1>1. ChainOK
  BY ChainsOK
<1>2. run.files \in Nat /\ run.files <= MaxFiles /\ (run.name = "hello" => run.files = 0)
  BY RunsAre, ConstantsOK
<1> QED
  BY <1>1, <1>2 DEF ChainOK

(* Going on: to a call at which as much is held as after this one.         *)
LEMMA Onward ==
  ASSUME Inductive, status = "running", run' = run, Proceed
  PROVE  /\ pc' \in 1 .. Len(Chain.calls) + 1 /\ calling' = FALSE
         /\ status' = IF pc' = Len(Chain.calls) + 1 THEN "stopping" ELSE "running"
         /\ Has(pc') = Has(pc + 1) /\ Where(pc') = Where(pc + 1)
         /\ file' \in 0 .. MaxFiles /\ done' \subseteq 0 .. MaxFiles - 1
         /\ GoesOn(pc) => pc' = pc + 1
         /\ pc = Len(Chain.calls) => pc' = pc + 1
         /\ run.name = "hello" => pc' = pc + 1
         /\ run.name = "sequential_write" =>
              /\ pc' = 8 => pc = 7
              /\ run.files > 0 /\ (file' > 0 \/ pc' > 4) => pc >= 4
<1> DEFINE n == Len(Chain.calls)
<1>1. run \in Runs /\ LoopInv /\ file \in 0 .. MaxFiles /\ done \subseteq 0 .. MaxFiles - 1
  BY DEF Inductive, TypeOK
<1>2. pc \in 1 .. n
  BY AtCall
<1>3. Chain' = Chain
  BY SameRun
<1>4. CASE pc = Chain.last
  <2>1. run.files > 0 /\ file < run.files /\ file \in Nat /\ Chain.first \in 2 .. Chain.last
        /\ Chain.last \in 2 .. n - 1
    BY <1>1, <1>2, <1>4, Shape DEF LoopInv
  <2>2. pc' \in {pc + 1, Chain.first}
    BY <1>4 DEF Proceed
  <2>3. Has(pc') = Has(pc + 1) /\ Where(pc') = Where(pc + 1)
    BY <1>1, <1>4, <2>1, <2>2, Shape
  <2>4. file' \in 0 .. MaxFiles /\ done' \subseteq 0 .. MaxFiles - 1
    <3>1. done' = done \cup {file} /\ file' = IF file + 1 = run.files THEN file ELSE file + 1
      BY <1>4 DEF Proceed, LastFile, Following
    <3>2. run.files \in Nat /\ run.files <= MaxFiles /\ MaxFiles \in Nat
      BY <1>1, Shape, ConstantsOK
    <3> QED
      BY <1>1, <2>1, <3>1, <3>2
  <2>5. calling' = FALSE /\ status' = IF pc' = n + 1 THEN "stopping" ELSE "running"
    BY <1>3, <1>4, <2>1, <2>2 DEF Proceed
  <2>6. run.name # "hello" /\ (run.name = "sequential_write" => pc = 5 /\ pc' <= 6)
    BY <1>1, <1>4, <2>1, <2>2, Shape
  <2> QED
    BY <1>4, <2>1, <2>2, <2>3, <2>4, <2>5, <2>6 DEF GoesOn
<1>5. CASE pc # Chain.last
  <2>1. pc' = IF pc + 1 = Chain.first /\ run.files = 0 THEN Chain.last + 1 ELSE pc + 1
    BY <1>5 DEF Proceed
  <2>2. file' = file /\ done' = done
    BY <1>5 DEF Proceed
  <2>3. Has(pc') = Has(pc + 1) /\ Where(pc') = Where(pc + 1)
    BY <1>1, <1>2, <2>1, Shape
  <2>4. run.name = "sequential_write" /\ run.files > 0 /\ file > 0 => pc >= 4
    BY <1>1, <1>2, Shape DEF LoopInv
  <2>5. pc' \in 1 .. n + 1 /\ n \in Nat
    BY <1>1, <1>2, <2>1, Shape
  <2>6. calling' = FALSE /\ status' = IF pc' = n + 1 THEN "stopping" ELSE "running"
    BY <1>3, <1>5, <2>5 DEF Proceed
  <2>7. /\ GoesOn(pc) => pc' = pc + 1
        /\ pc = n => pc' = pc + 1
        /\ run.name = "hello" => pc' = pc + 1
    BY <1>1, <1>2, <2>1, Shape DEF GoesOn
  <2>8. run.name = "sequential_write" =>
           /\ pc' = 8 => pc = 7
           /\ run.files > 0 /\ (file' > 0 \/ pc' > 4) => pc >= 4
    BY <1>1, <1>2, <2>1, <2>2, <2>4, Shape
  <2> QED
    BY <1>1, <1>5, <2>2, <2>3, <2>5, <2>6, <2>7, <2>8
<1> QED
  BY <1>4, <1>5

(* Going on keeps the account of the files.                                *)
LEMMA OnwardLoop ==
  ASSUME Inductive, status = "running", run' = run, Proceed
  PROVE  LoopInv'
<1> DEFINE n == Len(Chain.calls)
<1>1. run \in Runs /\ LoopInv
  BY DEF Inductive, TypeOK
<1>2. pc \in 1 .. n
  BY AtCall
<1>3. Chain' = Chain
  BY SameRun
<1>4. CASE pc = Chain.last
  <2>1. run.files > 0 /\ file < run.files /\ file \in Nat /\ Chain.first \in 2 .. Chain.last
        /\ Chain.last \in 2 .. n - 1 /\ run.files \in Nat /\ done = 0 .. file - 1
    BY <1>1, <1>2, <1>4, Shape DEF LoopInv
  <2>2. done' = 0 .. file
    <3>1. done' = done \cup {file}
      BY <1>4 DEF Proceed
    <3> QED
      BY <2>1, <3>1
  <2>3. CASE LastFile(file)
    <3>1. file' = file /\ pc' = pc + 1 /\ file + 1 = run.files
      BY <1>4, <2>3 DEF Proceed, LastFile
    <3>2. done' = 0 .. run.files - 1
      BY <2>1, <2>2, <3>1
    <3> QED
      BY <1>3, <1>4, <2>1, <3>1, <3>2 DEF LoopInv
  <2>4. CASE ~ LastFile(file)
    <3>1. file' = file + 1 /\ pc' = Chain.first /\ file + 1 < run.files
      BY <1>4, <2>1, <2>4 DEF Proceed, LastFile, Following
    <3>2. done' = 0 .. file' - 1
      BY <2>1, <2>2, <3>1
    <3> QED
      BY <1>3, <1>4, <2>1, <3>1, <3>2 DEF LoopInv
  <2> QED
    BY <2>3, <2>4
<1>5. CASE pc # Chain.last
  <2>1. pc' = IF pc + 1 = Chain.first /\ run.files = 0 THEN Chain.last + 1 ELSE pc + 1
    BY <1>5 DEF Proceed
  <2>2. file' = file /\ done' = done
    BY <1>5 DEF Proceed
  <2>3. CASE run.files = 0
    BY <1>1, <1>2, <1>3, <1>5, <2>1, <2>2, <2>3, Shape DEF LoopInv
  <2>4. CASE run.files > 0
    <3>1. Chain.first \in 2 .. Chain.last /\ Chain.last \in 2 .. n - 1
      BY <1>1, <2>4, Shape
    <3>2. pc' = pc + 1
      BY <2>1, <2>4
    <3>3. 0 .. 0 - 1 = {}
      OBVIOUS
    <3>4. pc < Chain.first => file = 0 /\ done = 0 .. file - 1
      BY <1>1, <2>4, <3>3 DEF LoopInv
    <3>5. run.files \in Nat /\ file \in Nat
      BY <1>1, Shape DEF LoopInv
    <3>6. pc' < Chain.first => file' = 0 /\ done' = {}
      BY <1>1, <1>2, <2>2, <2>4, <3>1, <3>2 DEF LoopInv
    <3>7. pc' \in Chain.first .. Chain.last => file' < run.files /\ done' = 0 .. file' - 1
      BY <1>1, <1>2, <1>5, <2>2, <2>4, <3>1, <3>2, <3>4, <3>5 DEF LoopInv
    <3>8. pc' > Chain.last => file' < run.files /\ done' = 0 .. run.files - 1
      BY <1>1, <1>2, <1>5, <2>2, <2>4, <3>1, <3>2 DEF LoopInv
    <3> QED
      BY <1>3, <2>2, <2>4, <3>5, <3>6, <3>7, <3>8 DEF LoopInv
  <2> QED
    BY <1>1, <2>3, <2>4, Shape
<1> QED
  BY <1>4, <1>5

-------------------------------------------------------------------------------
(* What a step keeps if it leaves alone what an invariant is about.        *)
LEMMA KeepsLoop ==
  ASSUME LoopInv, UNCHANGED <<run, pc, file, done>>
  PROVE  LoopInv'
BY SameRun DEF LoopInv

(* A step that does nothing to the files, or fails for another reason,     *)
(* keeps the account of the names.                                         *)
LEMMA KeepsNames ==
  ASSUME NameInv, UNCHANGED <<run, names>>,
         rc = "EEXIST" => UNCHANGED <<file, done>> /\ status' # "running",
         rc' = "EEXIST" => rc = "EEXIST"
  PROVE  NameInv'
BY DEF NameInv, Collision

(* The steps, one by one.                                                  *)
LEMMA MisuseStep ==
  ASSUME Inductive, Misuse
  PROVE  Inductive'
<1>1. /\ status = "running" /\ ~ calling /\ Misused /\ status' = "undefined"
      /\ UNCHANGED <<run, names, pc, calling, file, done, lcore, held, foreign, failed, rc,
                     active, commands>>
  BY DEF Misuse, Ready, place, errors, queue
<1>2. /\ TypeOK /\ HeldInv /\ SiteInv /\ LoopInv /\ FailInv /\ NameInv /\ QueueInv
      /\ HelloInv
  BY DEF Inductive
<1>3. Nulls' = Nulls
  BY <1>1 DEF Nulls
<1>4. /\ pc \in 1 .. Len(Chain.calls) /\ Len(Chain.calls) \in Nat \ {0}
      /\ HeldOK(Current, pc) /\ KindOK(Current, pc)
  BY <1>1, AtCall
<1>5. TypeOK'
  BY <1>1, <1>2, SameRun DEF TypeOK, Status
<1>6. HeldInv'
  BY <1>1, <1>2 DEF HeldInv
<1>7. SiteInv'
  BY <1>1, <1>2, <1>3, SameRun DEF SiteInv
<1>8. LoopInv'
  BY <1>1, <1>2, KeepsLoop
<1>9. FailInv'
  BY <1>1, <1>2, <1>3, SameRun DEF FailInv, Throws
<1>10. NameInv'
  BY <1>1, <1>2, KeepsNames
<1>11. QueueInv'
  BY <1>1, <1>2 DEF QueueInv
<1>12. HelloInv'
  BY <1>1, <1>2 DEF HelloInv
<1>13. NullInv'
  <2>1. Current.needs \subseteq DOMAIN held =>
          Nulls \cap (Current.needs \cup Current.drops) # {}
    BY <1>1 DEF Misused
  <2>2. Current' = Current
    BY <1>1, SameRun DEF Current
  <2>3. CASE rc = "ok"
    <3>1. DOMAIN held = Has(pc)
      BY <1>1, <1>2, <2>3 DEF HeldInv, Coming
    <3> QED
      BY <1>1, <1>3, <1>4, <2>1, <2>2, <3>1, SameRun DEF NullInv, HeldOK
  <2>4. CASE rc # "ok"
    <3>1. run.name = "hello" /\ pc = 16 /\ "store" \in DOMAIN held
      BY <1>1, <1>2, <2>4 DEF FailInv, HelloInv
    <3>2. Current.needs = {"store"}
      BY <1>4, <3>1 DEF KindOK
    <3> QED
      BY <1>1, <1>3, <2>1, <2>2, <3>1, <3>2 DEF NullInv
  <2> QED
    BY <2>3, <2>4
<1> QED
  BY <1>5, <1>6, <1>7, <1>8, <1>9, <1>10, <1>11, <1>12, <1>13 DEF Inductive

(* Where there is a null the program will trip over, it either does so     *)
(* here or keeps it and goes on to where it does.                          *)
LEMMA TrapIs ==
  ASSUME Inductive, status = "running", Nulls \cap Trapped # {}, Current.needs \cap Nulls = {}
  PROVE  Current.drops = {} /\ pc + 1 \in Wait /\ GoesOn(pc)
<1>1. HeldInv /\ FailInv /\ WaitOK(Current, pc)
  BY AtCall DEF Inductive
<1>2. pc \in Wait
  BY <1>1 DEF FailInv
<1>3. rc = "ok"
  BY <1>1, <1>2 DEF FailInv, Wait
<1>4. DOMAIN held \subseteq Has(pc)
  BY <1>1, <1>3 DEF HeldInv, Coming
<1>5. ~ (Has(pc) \cap Trapped \subseteq Current.needs)
  BY <1>4 DEF Nulls
<1> QED
  BY <1>1, <1>2, <1>5 DEF WaitOK

LEMMA BeginStep ==
  ASSUME Inductive, Begin
  PROVE  Inductive'
<1>1. /\ status = "running" /\ ~ calling /\ ~ Misused /\ calling' = TRUE
      /\ Current.how \in {"now", "callback", "request", "event", "submit", "poll"}
      /\ held' = Restrict(held, DOMAIN held \ Current.drops)
      /\ foreign' = foreign \cup Foreign(Current.drops \cup Current.frees
                                         \cup (Current.needs \cap {"channel"}))
      /\ UNCHANGED <<run, names, pc, file, done, lcore, failed, rc, status, active, commands>>
  BY DEF Begin, Ready, errors, queue
<1>2. /\ TypeOK /\ HeldInv /\ SiteInv /\ LoopInv /\ FailInv /\ NameInv /\ QueueInv
      /\ HelloInv
  BY DEF Inductive
<1>3. /\ DOMAIN held' = DOMAIN held \ Current.drops
      /\ \A r \in DOMAIN held' : held'[r] = held[r]
  BY <1>1 DEF Restrict
<1>4. Nulls' = Nulls \ Current.drops
  BY <1>3 DEF Nulls
<1>5. /\ pc \in 1 .. Len(Chain.calls) /\ Len(Chain.calls) \in Nat \ {0}
      /\ SiteOK(Current, pc) /\ KindOK(Current, pc) /\ lcore = Where(pc)
  BY <1>1, AtCall
<1>6. "channel" \notin Current.drops \cap Nulls /\ Current.needs \subseteq DOMAIN held \ Nulls
  BY <1>1 DEF Misused
<1>7. TypeOK'
  BY <1>1, <1>2, <1>3, SameRun DEF TypeOK, Status
<1>8. HeldInv'
  BY <1>1, <1>2, <1>3, SameRun DEF HeldInv, Coming, Current
<1>9. SiteInv'
  <2>1. Foreign(Current.drops \cup Current.frees \cup (Current.needs \cap {"channel"}))
          \subseteq Allowed
    <3> SUFFICES ASSUME NEW r \in Homed \cap DOMAIN held, held[r] # lcore,
                        r \in Current.drops \cup Current.frees \/ (r = "channel" /\ r \in Current.needs)
                 PROVE  r \in Allowed
      BY DEF Foreign, Homed
    <3>1. r \in Nulls \/ held[r] = Home(r)
      BY <1>2 DEF SiteInv, Nulls
    <3>2. r \in Nulls => r = "channel"
      BY <1>2 DEF SiteInv, Homed
    <3>3. r \notin Nulls
      BY <1>5, <1>6, <3>2 DEF KindOK
    <3> QED
      BY <1>5, <3>1, <3>3 DEF SiteOK
  <2>2. foreign' \subseteq Allowed' \cup (IF run.name' = "bdev" /\ rc' # "ok" THEN {"channel"} ELSE {})
    BY <1>1, <1>2, <2>1, SameRun DEF SiteInv
  <2>3. \A r \in DOMAIN held' \cap Homed : held'[r] \in {Null, Home(r)'}
    BY <1>1, <1>2, <1>3, SameRun DEF SiteInv
  <2> QED
    BY <1>1, <1>2, <1>3, <1>4, <2>2, <2>3, SameRun DEF SiteInv
<1>10. LoopInv'
  BY <1>1, <1>2, KeepsLoop
<1>11. FailInv'
  <2>1. Nulls \cap Trapped # {} => Current.drops = {}
    BY <1>1, <1>2, <1>6, TrapIs DEF FailInv
  <2>2. rc = "ok" => failed \subseteq Overlooked \cup Nulls'
    <3>1. Nulls \subseteq {"channel"} \cup Overlooked \cup Trapped
      BY <1>2 DEF SiteInv, Trapped
    <3> QED
      BY <1>2, <1>4, <1>6, <2>1, <3>1 DEF FailInv
  <2>3. Current' = Current
    BY <1>1, SameRun DEF Current
  <2> QED
    BY <1>1, <1>2, <1>4, <1>6, <2>2, <2>3, SameRun DEF FailInv
<1>12. NameInv'
  BY <1>1, <1>2, KeepsNames DEF NameInv
<1>13. QueueInv'
  BY <1>1, <1>2, SameRun DEF QueueInv, Current
<1>14. HelloInv'
  BY <1>1, <1>2, <1>3, <1>5 DEF HelloInv, KindOK
<1>15. NullInv'
  BY <1>1 DEF NullInv
<1> QED
  BY <1>7, <1>8, <1>9, <1>10, <1>11, <1>12, <1>13, <1>14, <1>15 DEF Inductive

(* What Proceed, whichever action it belongs to, makes true of the next    *)
(* call: everything but what the action does to held, foreign and rc.      *)
LEMMA OnwardType ==
  ASSUME Inductive, status = "running", run' = run, Proceed,
         lcore' \in {0, 1}, \A r \in DOMAIN held' : held'[r] \in {Null, 0, 1},
         active' \in 0 .. MaxActive + 1, commands' \in 0 .. QueueSize
  PROVE  TypeOK'
<1>1. /\ pc' \in 1 .. Len(Chain.calls) + 1 /\ calling' = FALSE
      /\ status' \in {"stopping", "running"}
      /\ file' \in 0 .. MaxFiles /\ done' \subseteq 0 .. MaxFiles - 1
  BY Onward
<1>2. active' \in 0 .. MaxFiles + MaxActive + 1
  BY ConstantsOK
<1> QED
  BY <1>1, <1>2, SameRun DEF Inductive, TypeOK, Status

(* A call that leaves what the table says.                                 *)
LEMMA OnwardHeld ==
  ASSUME Inductive, status = "running", run' = run, Proceed, rc' = rc,
         DOMAIN held' \subseteq Resource,
         rc = "ok" => DOMAIN held' \subseteq Has(pc + 1),
         rc = "ok" /\ pc < Len(Chain.calls) => DOMAIN held' = Has(pc + 1)
  PROVE  HeldInv'
<1>1. /\ pc' \in 1 .. Len(Chain.calls) + 1 /\ calling' = FALSE
      /\ status' = IF pc' = Len(Chain.calls) + 1 THEN "stopping" ELSE "running"
      /\ Has(pc') = Has(pc + 1)
      /\ pc = Len(Chain.calls) => pc' = pc + 1
  BY Onward
<1>2. pc \in 1 .. Len(Chain.calls) /\ Len(Chain.calls) \in Nat \ {0}
  BY AtCall
<1> QED
  BY <1>1, <1>2, SameRun DEF HeldInv, Coming

(* The failures and nulls a call leaves.                                   *)
LEMMA OnwardFail ==
  ASSUME Inductive, status = "running", run' = run, Proceed, rc' = rc,
         rc = "ok" => failed' \subseteq Overlooked \cup Nulls',
         Nulls' \cap Trapped # {} => pc + 1 \in Wait /\ GoesOn(pc)
  PROVE  FailInv'
<1>1. /\ calling' = FALSE /\ status' \in {"stopping", "running"}
      /\ GoesOn(pc) => pc' = pc + 1
  BY Onward
<1>2. Nulls' \cap Trapped # {} => pc' \in Wait
  BY <1>1
<1>3. rc # "ok" => run.name = "hello" /\ ~ Throws
  BY DEF Inductive, FailInv
<1> QED
  BY <1>1, <1>2, <1>3, SameRun DEF FailInv

(* The commands of a call that ends well.                                  *)
LEMMA OnwardQueue ==
  ASSUME Inductive, status = "running", run' = run, Proceed,
         active' \in 0 .. MaxActive + 1, commands' \in 0 .. QueueSize,
         commands' > 0 /\ commands = 0 => run.name \in {"sequential", "sequential_write"},
         run.name = "sequential_write" =>
           /\ active' # active => pc = 4 /\ active' > 0
           /\ pc = 4 => active' > 0
           /\ pc = 7 => active = 0
  PROVE  QueueInv'
<1>1. /\ pc' \in 1 .. Len(Chain.calls) + 1 /\ calling' = FALSE
      /\ run.name = "sequential_write" =>
              /\ pc' = 8 => pc = 7
              /\ run.files > 0 /\ (file' > 0 \/ pc' > 4) => pc >= 4
  BY Onward
<1>2. QueueInv /\ pc \in 1 .. Len(Chain.calls) /\ Len(Chain.calls) \in Nat
  BY AtCall DEF Inductive
<1>3. commands' > 0 => run.name \in {"sequential", "sequential_write"}
  BY <1>2 DEF QueueInv
<1>4. ASSUME run.name = "sequential_write"
      PROVE  /\ run.files > 0 /\ (file' > 0 \/ pc' > 4) => active' > 0
             /\ pc' = 8 => active' = 0
  BY <1>1, <1>2, <1>4 DEF QueueInv
<1> QED
  BY <1>1, <1>3, <1>4 DEF QueueInv

LEMMA DeliverStep ==
  ASSUME Inductive, Deliver
  PROVE  Inductive'
<1>1. /\ status = "running" /\ calling /\ Current.how = "event"
      /\ lcore' = Current.on /\ Proceed
      /\ UNCHANGED <<run, names, held, foreign, failed, rc, active, commands>>
  BY DEF Deliver, errors, queue
<1>2. /\ TypeOK /\ HeldInv /\ SiteInv /\ LoopInv /\ FailInv /\ NameInv /\ QueueInv
      /\ HelloInv
  BY DEF Inductive
<1>3. /\ pc \in 1 .. Len(Chain.calls) /\ Len(Chain.calls) \in Nat \ {0}
      /\ SiteOK(Current, pc) /\ KindOK(Current, pc)
      /\ Has(pc + 1) = ((Has(pc) \ Current.drops) \ Current.frees) \cup Current.takes
  BY <1>1, AtCall
<1>4. Current.takes = {} /\ Current.frees = {}
  BY <1>1, <1>3 DEF KindOK
<1>5. /\ pc' \in 1 .. Len(Chain.calls) + 1 /\ calling' = FALSE
      /\ status' = IF pc' = Len(Chain.calls) + 1 THEN "stopping" ELSE "running"
      /\ Where(pc') = Where(pc + 1)
      /\ run.name = "hello" => pc' = pc + 1
  BY <1>1, Onward
<1>6. lcore' = Where(pc')
  BY <1>1, <1>3, <1>5 DEF SiteOK
<1>7. Nulls' = Nulls
  BY <1>1 DEF Nulls
<1>8. TypeOK'
  <2>1. lcore' \in {0, 1}
    BY <1>6 DEF Where
  <2> QED
    BY <1>1, <1>2, <2>1, OnwardType DEF TypeOK, QueueInv
<1>9. HeldInv'
  <2>1. rc = "ok" => DOMAIN held' = Has(pc + 1)
    BY <1>1, <1>2, <1>3, <1>4 DEF HeldInv, Coming
  <2> QED
    BY <1>1, <1>2, <2>1, OnwardHeld DEF HeldInv
<1>10. SiteInv'
  BY <1>1, <1>2, <1>6, <1>7, SameRun DEF SiteInv
<1>11. LoopInv'
  BY <1>1, OnwardLoop
<1>12. FailInv'
  <2>1. Nulls \cap Trapped # {} => pc + 1 \in Wait /\ GoesOn(pc)
    BY <1>1, <1>2, TrapIs DEF FailInv
  <2> QED
    BY <1>1, <1>2, <1>7, <2>1, OnwardFail DEF FailInv
<1>13. NameInv'
  BY <1>1, <1>2, KeepsNames DEF NameInv
<1>14. QueueInv'
  <2>1. run.name = "sequential_write" => pc \notin {4, 7}
    BY <1>1, <1>3 DEF KindOK
  <2> QED
    BY <1>1, <1>2, <2>1, OnwardQueue DEF QueueInv
<1>15. HelloInv'
  <2> SUFFICES ASSUME run.name = "hello" PROVE HelloInv'
    BY <1>1 DEF HelloInv
  <2>1. pc # 16
    BY <1>3, <1>4 DEF KindOK
  <2>2. rc = "ok"
    BY <1>1, <1>2, <2>1 DEF HelloInv
  <2>3. Len(Chain.calls) = 16
    BY <1>2, Shape DEF TypeOK
  <2>4. status' = "running"
    BY <1>3, <1>5, <2>1, <2>3
  <2> QED
    BY <1>1, <2>2, <2>4 DEF HelloInv
<1>16. NullInv'
  BY <1>5 DEF NullInv
<1> QED
  BY <1>8, <1>9, <1>10, <1>11, <1>12, <1>13, <1>14, <1>15, <1>16 DEF Inductive

(* What is held without what a call frees. *)
LEMMA RestrictIs ==
  ASSUME NEW H, NEW S
  PROVE  /\ DOMAIN Restrict(H, DOMAIN H \ S) = DOMAIN H \ S
         /\ \A r \in DOMAIN H \ S : Restrict(H, DOMAIN H \ S)[r] = H[r]
BY DEF Restrict

LEMMA SucceedStep ==
  ASSUME Inductive, Succeed
  PROVE  Inductive'
<1>1. /\ status = "running" /\ calling /\ Current.how # "event" /\ Refusal = "none"
      /\ held' = With(Restrict(held, DOMAIN held \ Current.frees), Current.takes, lcore)
      /\ Proceed
      /\ UNCHANGED <<run, names, lcore, foreign, failed, rc, active>>
  BY DEF Succeed, Answerable, errors
<1>2. /\ TypeOK /\ HeldInv /\ SiteInv /\ LoopInv /\ FailInv /\ NameInv /\ QueueInv
      /\ HelloInv
  BY DEF Inductive
<1>3. /\ pc \in 1 .. Len(Chain.calls) /\ Len(Chain.calls) \in Nat \ {0}
      /\ SiteOK(Current, pc) /\ KindOK(Current, pc) /\ lcore = Where(pc)
      /\ Has(pc + 1) = ((Has(pc) \ Current.drops) \ Current.frees) \cup Current.takes
      /\ Has(pc) \subseteq Resource /\ Current.takes \subseteq Resource
  BY <1>1, AtCall
<1>4. /\ DOMAIN held' = (DOMAIN held \ Current.frees) \cup Current.takes
      /\ \A r \in Current.takes : held'[r] = lcore
      /\ \A r \in (DOMAIN held \ Current.frees) \ Current.takes : held'[r] = held[r]
  <2> DEFINE H == Restrict(held, DOMAIN held \ Current.frees)
  <2>1. /\ DOMAIN H = DOMAIN held \ Current.frees
        /\ \A r \in DOMAIN held \ Current.frees : H[r] = held[r]
    BY RestrictIs
  <2>2. held' = With(H, Current.takes, lcore)
    BY <1>1
  <2> HIDE DEF H
  <2>3. /\ DOMAIN With(H, Current.takes, lcore) = DOMAIN H \cup Current.takes
        /\ \A r \in Current.takes : With(H, Current.takes, lcore)[r] = lcore
        /\ \A r \in DOMAIN H \ Current.takes : With(H, Current.takes, lcore)[r] = H[r]
    BY DEF With
  <2> QED
    BY <2>1, <2>2, <2>3
<1>5. /\ pc' \in 1 .. Len(Chain.calls) + 1 /\ calling' = FALSE
      /\ status' = IF pc' = Len(Chain.calls) + 1 THEN "stopping" ELSE "running"
      /\ Where(pc') = Where(pc + 1)
      /\ run.name = "hello" => pc' = pc + 1
  BY <1>1, Onward
<1>6. lcore \in {0, 1} /\ lcore # Null
  BY <1>2 DEF TypeOK, Null
<1>7. Nulls' = (Nulls \ Current.frees) \ Current.takes
  BY <1>4, <1>6 DEF Nulls
<1>8. Current.needs \cap Nulls = {}
  BY <1>1, <1>2 DEF FailInv
<1>9. rc = "ok" => DOMAIN held = Has(pc) \ Current.drops
  BY <1>1, <1>2 DEF HeldInv, Coming
<1>10. commands' \in 0 .. QueueSize
       /\ (commands' # commands => run.name \in {"sequential", "sequential_write"})
  <2>1. Current.how = "submit" => commands # QueueSize
    BY <1>1 DEF Refusal
  <2>2. commands' \in CASE Current.how = "submit" -> {commands + 1}
                        [] Current.how = "poll" -> 0 .. commands
                        [] OTHER -> {commands}
    BY DEF Succeed
  <2>3. commands \in 0 .. QueueSize /\ QueueSize \in Nat
    BY <1>2, ConstantsOK DEF QueueInv
  <2>4. Current.how \in {"submit", "poll"} => run.name \in {"sequential", "sequential_write"}
    BY <1>3 DEF KindOK
  <2>5. CASE Current.how = "submit"
    BY <2>1, <2>2, <2>3, <2>4, <2>5
  <2>6. CASE Current.how = "poll"
    BY <2>2, <2>3, <2>4, <2>6
  <2>7. CASE Current.how \notin {"submit", "poll"}
    BY <2>2, <2>3, <2>7
  <2> QED
    BY <2>5, <2>6, <2>7
<1>11. TypeOK'
  <2>1. \A r \in DOMAIN held' : held'[r] \in {Null, 0, 1}
    BY <1>2, <1>4, <1>6 DEF TypeOK
  <2> QED
    BY <1>1, <1>2, <1>6, <1>10, <2>1, OnwardType DEF QueueInv
<1>12. HeldInv'
  <2>1. rc = "ok" => DOMAIN held' = Has(pc + 1)
    BY <1>3, <1>4, <1>9
  <2>2. DOMAIN held' \subseteq Resource
    BY <1>2, <1>3, <1>4 DEF HeldInv
  <2> QED
    BY <1>1, <2>1, <2>2, OnwardHeld
<1>13. SiteInv'
  <2>1. status' = "running" => lcore' = Where(pc')
    BY <1>1, <1>3, <1>5 DEF SiteOK
  <2>2. \A r \in DOMAIN held' \cap Homed : held'[r] \in {Null, Home(r)}
    BY <1>2, <1>3, <1>4 DEF SiteInv, SiteOK
  <2>3. "channel" \in DOMAIN held' =>
          run.name \in {"hello", "bdev", "blobfs", "blobfs_write_files",
                        "blobfs_read_files", "bdev_benchmark_sync"}
    BY <1>2, <1>3, <1>4 DEF SiteInv, SiteOK
  <2>4. Nulls' \subseteq {"buffer", "channel", "files", "mapped"} \cap Unchecked
    BY <1>2, <1>7 DEF SiteInv
  <2> QED
    BY <1>1, <1>2, <2>1, <2>2, <2>3, <2>4, SameRun DEF SiteInv
<1>14. LoopInv'
  BY <1>1, OnwardLoop
<1>15. FailInv'
  <2>1. Nulls' \subseteq Nulls
    BY <1>7
  <2>2. rc = "ok" => Nulls' = Nulls
    <3>1. Current.frees \cap Nulls = {}
      BY <1>2, <1>3 DEF SiteInv, KindOK
    <3>2. rc = "ok" => Current.takes \cap Nulls = {}
      BY <1>3, <1>9 DEF KindOK, Nulls
    <3> QED
      BY <1>7, <3>1, <3>2
  <2>3. Nulls \cap Trapped # {} => pc + 1 \in Wait /\ GoesOn(pc)
    BY <1>1, <1>8, TrapIs
  <2> QED
    BY <1>1, <1>2, <2>1, <2>2, <2>3, OnwardFail DEF FailInv
<1>16. NameInv'
  BY <1>1, <1>2, KeepsNames DEF NameInv
<1>17. QueueInv'
  <2>1. run.name = "sequential_write" => pc \notin {4, 7}
    BY <1>1, <1>2, <1>3 DEF KindOK, QueueInv
  <2> QED
    BY <1>1, <1>2, <1>10, <2>1, OnwardQueue DEF QueueInv
<1>18. HelloInv'
  <2> SUFFICES ASSUME run.name = "hello" PROVE HelloInv'
    BY <1>1 DEF HelloInv
  <2>1. Len(Chain.calls) = 16
    BY <1>2, Shape DEF TypeOK
  <2>2. CASE pc = 16
    <3>1. /\ Current.op = "unload" /\ Current.frees = {"store"} /\ Current.takes = {}
      BY <1>3, <2>2 DEF KindOK
    <3>2. "blob" \notin DOMAIN held
      BY <1>1, <3>1 DEF Refusal
    <3>3. "store" \notin DOMAIN held' /\ "blob" \notin DOMAIN held'
      BY <1>4, <3>1, <3>2
    <3>4. status' = "stopping" /\ rc' = rc /\ rc \notin {"unload", "EBUSY"}
      BY <1>1, <1>2, <1>5, <2>1, <2>2 DEF HelloInv
    <3> QED
      BY <3>3, <3>4 DEF HelloInv
  <2>3. CASE pc # 16
    BY <1>1, <1>2, <1>3, <1>5, <2>1, <2>3 DEF HelloInv
  <2> QED
    BY <2>2, <2>3
<1>19. NullInv'
  BY <1>5 DEF NullInv
<1> QED
  BY <1>11, <1>12, <1>13, <1>14, <1>15, <1>16, <1>17, <1>18, <1>19 DEF Inductive

LEMMA FailUnseenStep ==
  ASSUME Inductive, FailUnseen
  PROVE  Inductive'
<1>1. /\ status = "running" /\ calling /\ Current.how # "event"
      /\ \/ Current.fails = "null" /\ held' = With(held, Current.takes, Null)
         \/ Current.fails = "ignored" /\ held' = held
      /\ failed' = failed \cup {Current.op}
      /\ Proceed
      /\ UNCHANGED <<run, names, lcore, foreign, rc, active, commands>>
  BY DEF FailUnseen, Answerable, queue
<1>2. /\ TypeOK /\ HeldInv /\ SiteInv /\ LoopInv /\ FailInv /\ NameInv /\ QueueInv
      /\ HelloInv
  BY DEF Inductive
<1>3. /\ pc \in 1 .. Len(Chain.calls) /\ Len(Chain.calls) \in Nat \ {0}
      /\ SiteOK(Current, pc) /\ KindOK(Current, pc) /\ lcore = Where(pc)
      /\ Has(pc + 1) = ((Has(pc) \ Current.drops) \ Current.frees) \cup Current.takes
      /\ Has(pc) \subseteq Resource /\ Current.takes \subseteq Resource
  BY <1>1, AtCall
<1>4. Current.frees = {} /\ run.name # "hello"
  BY <1>1, <1>3 DEF KindOK
<1> DEFINE got == IF Current.fails = "null" THEN Current.takes ELSE {}
<1>5. /\ DOMAIN held' = DOMAIN held \cup got
      /\ \A r \in got : held'[r] = Null
      /\ \A r \in DOMAIN held \ got : held'[r] = held[r]
  <2>1. CASE Current.fails = "null"
    <3>1. held' = With(held, got, Null)
      BY <1>1, <2>1
    <3>2. /\ DOMAIN With(held, got, Null) = DOMAIN held \cup got
          /\ \A r \in got : With(held, got, Null)[r] = Null
          /\ \A r \in DOMAIN held \ got : With(held, got, Null)[r] = held[r]
      BY DEF With
    <3> QED
      BY <3>1, <3>2
  <2>2. CASE Current.fails # "null"
    BY <1>1, <2>2
  <2> QED
    BY <2>1, <2>2
<1>6. Nulls' = Nulls \cup got
  BY <1>5 DEF Nulls
<1>7. /\ got \subseteq Current.takes
      /\ got \subseteq {"buffer", "channel", "files", "mapped"} \cap Unchecked
      /\ Current.op \in Overlooked \cup got
      /\ pc < Len(Chain.calls) => got = Current.takes
      /\ got # {} => pc < Len(Chain.calls)
  <2>1. CASE Current.fails = "null"
    <3>1. /\ Current.op \in {"buffer", "channel", "files", "mapped"} \cap Unchecked
          /\ Current.takes = {Current.op}
          /\ pc < Len(Chain.calls)
      BY <1>3, <2>1 DEF KindOK
    <3> QED
      BY <2>1, <3>1
  <2>2. CASE Current.fails = "ignored"
    <3>1. /\ Current.op \in Overlooked
          /\ Current.takes # {} => pc = Len(Chain.calls)
      BY <1>3, <2>2 DEF KindOK
    <3> QED
      BY <1>3, <2>2, <3>1
  <2> QED
    BY <1>1, <2>1, <2>2
<1>8. got \cap Trapped # {} => pc + 1 \in Wait /\ GoesOn(pc)
  BY <1>1, <1>3, AtCall DEF KindOK, WaitOK
<1> HIDE DEF got
<1>9. /\ pc' \in 1 .. Len(Chain.calls) + 1 /\ calling' = FALSE
      /\ status' = IF pc' = Len(Chain.calls) + 1 THEN "stopping" ELSE "running"
      /\ Where(pc') = Where(pc + 1)
  BY <1>1, Onward
<1>10. Current.needs \cap Nulls = {}
  BY <1>1, <1>2 DEF FailInv
<1>11. TypeOK'
  <2>1. \A r \in DOMAIN held' : held'[r] \in {Null, 0, 1}
    BY <1>2, <1>5 DEF TypeOK
  <2> QED
    BY <1>1, <1>2, <2>1, OnwardType DEF QueueInv, TypeOK
<1>12. HeldInv'
  <2>1. rc = "ok" => DOMAIN held = Has(pc) \ Current.drops
    BY <1>1, <1>2 DEF HeldInv, Coming
  <2>2. DOMAIN held' \subseteq Resource
    BY <1>2, <1>3, <1>5, <1>7 DEF HeldInv
  <2>3. rc = "ok" => DOMAIN held' \subseteq Has(pc + 1)
    BY <1>3, <1>4, <1>5, <1>7, <2>1
  <2>4. rc = "ok" /\ pc < Len(Chain.calls) => DOMAIN held' = Has(pc + 1)
    BY <1>3, <1>4, <1>5, <1>7, <2>1
  <2> QED
    BY <1>1, <2>2, <2>3, <2>4, OnwardHeld
<1>13. SiteInv'
  <2>1. status' = "running" => lcore' = Where(pc')
    BY <1>1, <1>3, <1>9 DEF SiteOK
  <2>2. \A r \in DOMAIN held' \cap Homed : held'[r] \in {Null, Home(r)}
    BY <1>2, <1>5 DEF SiteInv
  <2>3. "channel" \in DOMAIN held' =>
          run.name \in {"hello", "bdev", "blobfs", "blobfs_write_files",
                        "blobfs_read_files", "bdev_benchmark_sync"}
    BY <1>2, <1>3, <1>5, <1>7 DEF SiteInv, SiteOK
  <2>4. Nulls' \subseteq {"buffer", "channel", "files", "mapped"} \cap Unchecked
    BY <1>2, <1>6, <1>7 DEF SiteInv
  <2> QED
    BY <1>1, <1>2, <2>1, <2>2, <2>3, <2>4, SameRun DEF SiteInv
<1>14. LoopInv'
  BY <1>1, OnwardLoop
<1>15. FailInv'
  <2>1. rc = "ok" => failed' \subseteq Overlooked \cup Nulls'
    BY <1>1, <1>2, <1>6, <1>7 DEF FailInv
  <2>2. Nulls' \cap Trapped # {} => pc + 1 \in Wait /\ GoesOn(pc)
    BY <1>1, <1>6, <1>8, <1>10, TrapIs
  <2> QED
    BY <1>1, <2>1, <2>2, OnwardFail
<1>16. NameInv'
  BY <1>1, <1>2, KeepsNames DEF NameInv
<1>17. QueueInv'
  <2>1. run.name = "sequential_write" => pc \notin {4, 7}
    BY <1>1, <1>2, <1>3 DEF KindOK, QueueInv
  <2> QED
    BY <1>1, <1>2, <2>1, OnwardQueue DEF QueueInv
<1>18. HelloInv'
  BY <1>1, <1>4 DEF HelloInv
<1>19. NullInv'
  BY <1>9 DEF NullInv
<1> QED
  BY <1>11, <1>12, <1>13, <1>14, <1>15, <1>16, <1>17, <1>18, <1>19 DEF Inductive

LEMMA CompleteWithErrorStep ==
  ASSUME Inductive, CompleteWithError
  PROVE  Inductive'
<1>1. /\ status = "running" /\ calling /\ Current.how = "poll" /\ commands > 0
      /\ commands' \in 0 .. commands - 1 /\ failed' = failed \cup {"completion"} /\ Proceed
      /\ UNCHANGED <<run, names, lcore, held, foreign, rc, active>>
  BY DEF CompleteWithError, Answerable
<1>2. /\ TypeOK /\ HeldInv /\ SiteInv /\ LoopInv /\ FailInv /\ NameInv /\ QueueInv
      /\ HelloInv
  BY DEF Inductive
<1>3. /\ pc \in 1 .. Len(Chain.calls) /\ Len(Chain.calls) \in Nat \ {0}
      /\ SiteOK(Current, pc) /\ KindOK(Current, pc)
      /\ Has(pc + 1) = ((Has(pc) \ Current.drops) \ Current.frees) \cup Current.takes
  BY <1>1, AtCall
<1>4. /\ Current.takes = {} /\ Current.frees = {} /\ Current.drops = {}
      /\ run.name = "sequential"
  BY <1>1, <1>3 DEF KindOK
<1>5. /\ calling' = FALSE /\ status' \in {"stopping", "running"} /\ Where(pc') = Where(pc + 1)
  BY <1>1, Onward
<1>6. Nulls' = Nulls
  BY <1>1 DEF Nulls
<1>7. commands' \in 0 .. QueueSize
  BY <1>1, <1>2, ConstantsOK DEF QueueInv
<1>8. TypeOK'
  BY <1>1, <1>2, <1>7, OnwardType DEF TypeOK, QueueInv
<1>9. HeldInv'
  <2>1. rc = "ok" => DOMAIN held' = Has(pc + 1)
    BY <1>1, <1>2, <1>3, <1>4 DEF HeldInv, Coming
  <2> QED
    BY <1>1, <1>2, <2>1, OnwardHeld DEF HeldInv
<1>10. SiteInv'
  <2>1. status' = "running" => lcore' = Where(pc')
    BY <1>1, <1>2, <1>3, <1>5 DEF SiteOK, SiteInv
  <2> QED
    BY <1>1, <1>2, <1>6, <2>1, SameRun DEF SiteInv
<1>11. LoopInv'
  BY <1>1, OnwardLoop
<1>12. FailInv'
  <2>1. rc = "ok" => failed' \subseteq Overlooked \cup Nulls'
    BY <1>1, <1>2, <1>4, <1>6 DEF FailInv, Overlooked
  <2>2. Nulls \cap Trapped = {}
    BY <1>2, <1>4 DEF FailInv, Wait
  <2> QED
    BY <1>1, <1>6, <2>1, <2>2, OnwardFail
<1>13. NameInv'
  BY <1>1, <1>2, KeepsNames DEF NameInv
<1>14. QueueInv'
  BY <1>1, <1>2, <1>4, <1>7, OnwardQueue DEF QueueInv
<1>15. HelloInv'
  BY <1>1, <1>4 DEF HelloInv
<1>16. NullInv'
  BY <1>5 DEF NullInv
<1> QED
  BY <1>8, <1>9, <1>10, <1>11, <1>12, <1>13, <1>14, <1>15, <1>16 DEF Inductive

(* What a refusal says of the call and of what is held. *)
LEMMA Refusals ==
  ASSUME Inductive, status = "running"
  PROVE  /\ Refusal \in {"EBUSY", "EEXIST", "ENOMEM", "none"}
         /\ Refusal = "EEXIST" => Collision
         /\ run.name = "hello" =>
              (Refusal = "EBUSY" <=> Current.op = "unload" /\ "blob" \in DOMAIN held)
         /\ run.name = "hello" => Refusal \in {"EBUSY", "none"}
<1>1. Refusal \in {"EBUSY", "EEXIST", "ENOMEM", "none"}
  BY DEF Refusal
<1>2. Refusal = "EEXIST" => Collision
  BY DEF Refusal, Collision
<1>3. ASSUME run.name = "hello" PROVE done = {} /\ Current.how # "submit"
  <2>1. run.files = 0
    BY <1>3, Shape DEF Inductive, TypeOK
  <2>2. done = {}
    BY <2>1 DEF Inductive, LoopInv
  <2> QED
    BY <1>3, <2>2, AtCall DEF KindOK
<1>4. run.name = "hello" => Refusal \in {"EBUSY", "none"}
  BY <1>3 DEF Refusal
<1>5. run.name = "hello" =>
              (Refusal = "EBUSY" <=> Current.op = "unload" /\ "blob" \in DOMAIN held)
  BY <1>3 DEF Refusal
<1> QED
  BY <1>1, <1>2, <1>4, <1>5

LEMMA FailStep ==
  ASSUME Inductive, Fail
  PROVE  Inductive'
<1>1. /\ status = "running" /\ calling
      /\ failed' = failed \cup {Current.op}
      /\ rc' = IF Refusal = "none" THEN Current.op ELSE Refusal
      /\ calling' = FALSE
      /\ \/ Unloads(Current.op) /\ pc' = Len(Chain.calls) /\ status' = status
         \/ /\ ~ Unloads(Current.op) /\ pc' = pc
            /\ status' = IF Throws THEN "aborted" ELSE "stopping"
      /\ UNCHANGED <<run, names, file, done, lcore, held, foreign, active, commands>>
  BY DEF Fail, Answerable, queue
<1>2. /\ TypeOK /\ HeldInv /\ SiteInv /\ LoopInv /\ FailInv /\ NameInv /\ QueueInv
      /\ HelloInv
  BY DEF Inductive
<1>3. /\ pc \in 1 .. Len(Chain.calls) /\ Len(Chain.calls) \in Nat \ {0}
      /\ KindOK(Current, pc) /\ lcore = Where(pc)
  BY <1>1, AtCall
<1>4. Nulls' = Nulls
  BY <1>1 DEF Nulls
<1>5. /\ Refusal \in {"EBUSY", "EEXIST", "ENOMEM", "none"}
      /\ Refusal = "EEXIST" => Collision
      /\ run.name = "hello" =>
              (Refusal = "EBUSY" <=> Current.op = "unload" /\ "blob" \in DOMAIN held)
      /\ run.name = "hello" => Refusal \in {"EBUSY", "none"}
  BY <1>1, Refusals
<1>6. rc' # "ok" /\ (rc' = "EEXIST" => Refusal = "EEXIST")
  BY <1>1, <1>3, <1>5 DEF KindOK
<1>7. Unloads(Current.op) => run.name = "hello" /\ Current.op # "unload" /\ "store" \in DOMAIN held
  BY DEF Unloads
<1>8. run.name = "hello" => Len(Chain.calls) = 16 /\ run.files = 0 /\ Chain.last = 0
  BY <1>2, Shape DEF TypeOK
<1>9. TypeOK'
  <2>1. pc' \in 1 .. Len(Chain.calls) + 1
    BY <1>1, <1>3
  <2>2. status' \in Status
    BY <1>1, <1>2 DEF TypeOK, Status
  <2> QED
    BY <1>1, <1>2, <2>1, <2>2, SameRun DEF TypeOK
<1>10. HeldInv'
  BY <1>1, <1>2, <1>3, <1>6, SameRun DEF HeldInv
<1>11. SiteInv'
  <2>1. status' = "running" => lcore' = Where(pc)'
    <3>1. status' = "running" => run.name = "hello"
      BY <1>1, <1>7
    <3>2. run.name = "hello" => Away = {}
      BY DEF Away
    <3> QED
      BY <1>1, <1>3, <3>1, <3>2, SameRun DEF Where
  <2> QED
    BY <1>1, <1>2, <1>4, <1>6, <2>1, SameRun DEF SiteInv
<1>12. LoopInv'
  BY <1>1, <1>2, <1>7, <1>8, SameRun DEF LoopInv
<1>13. FailInv'
  <2>1. Nulls \cap Trapped # {} => pc \in Wait /\ run.name # "hello"
    BY <1>2 DEF FailInv, Wait
  <2>2. Throws' = Throws /\ (Throws => run.name # "hello")
    BY <1>1, SameRun DEF Throws
  <2> QED
    BY <1>1, <1>4, <1>6, <1>7, <2>1, <2>2, SameRun DEF FailInv
<1>14. NameInv'
  <2>1. rc' = "EEXIST" => Collision' /\ run.name # "hello"
    BY <1>1, <1>5, <1>6 DEF Collision
  <2> QED
    BY <1>1, <1>2, <1>7, <2>1 DEF NameInv
<1>15. QueueInv'
  BY <1>1, <1>2, <1>7 DEF QueueInv
<1>16. HelloInv'
  <2> SUFFICES ASSUME run.name = "hello" PROVE HelloInv'
    BY <1>1 DEF HelloInv
  <2>1. Current.op = "unload" <=> pc = 16
    BY <1>3 DEF KindOK
  <2>2. "store" \in DOMAIN held => pc >= 4
    <3>1. ChainOK
      BY <1>2, ChainsOK DEF TypeOK
    <3> QED
      BY <1>1, <1>2, <1>3, <3>1 DEF HeldInv, Coming, HelloInv, ChainOK
  <2>3. CASE Unloads(Current.op)
    <3>1. rc' \notin {"unload", "EBUSY"}
      BY <1>1, <1>3, <1>5, <1>7, <2>3 DEF KindOK
    <3> QED
      BY <1>1, <1>7, <1>8, <2>3, <3>1 DEF HelloInv
  <2>4. CASE ~ Unloads(Current.op) /\ Current.op = "unload"
    <3>1. "store" \in DOMAIN held
      <4>1. CASE rc # "ok"
        BY <1>1, <1>2, <4>1 DEF HelloInv
      <4>2. CASE rc = "ok"
        <5>1. ChainOK
          BY <1>2, ChainsOK DEF TypeOK
        <5>2. "store" \in Has(pc) /\ "store" \notin Current.drops
          BY <1>3, <2>1, <2>4, <5>1 DEF ChainOK, KindOK
        <5> QED
          BY <1>1, <1>2, <4>2, <5>2 DEF HeldInv, Coming
      <4> QED
        BY <4>1, <4>2
    <3>2. rc' = IF "blob" \in DOMAIN held THEN "EBUSY" ELSE "unload"
      BY <1>1, <1>5, <2>4
    <3> QED
      BY <1>1, <2>4, <3>1, <3>2 DEF HelloInv
  <2>5. CASE ~ Unloads(Current.op) /\ Current.op # "unload"
    <3>1. "store" \notin DOMAIN held
      BY <2>5 DEF Unloads
    <3>2. rc = "ok" /\ pc # 16
      BY <1>1, <1>2, <2>1, <2>5 DEF HelloInv
    <3>3. "blob" \notin DOMAIN held
      <4>1. ChainOK
        BY <1>2, ChainsOK DEF TypeOK
      <4>2. "store" \in Has(pc) => "store" \in DOMAIN held
        BY <1>1, <1>2, <1>3, <3>2 DEF HeldInv, Coming, KindOK
      <4>3. "blob" \notin Has(pc)
        BY <1>3, <3>1, <4>1, <4>2 DEF ChainOK
      <4> QED
        BY <1>1, <1>2, <3>2, <4>3 DEF HeldInv, Coming
    <3>4. rc' \notin {"unload", "EBUSY"}
      BY <1>1, <1>3, <1>5, <2>5 DEF KindOK
    <3> QED
      BY <1>1, <2>5, <3>1, <3>3, <3>4 DEF HelloInv
  <2> QED
    BY <2>3, <2>4, <2>5
<1>17. NullInv'
  BY <1>1 DEF NullInv
<1> QED
  BY <1>9, <1>10, <1>11, <1>12, <1>13, <1>14, <1>15, <1>16, <1>17 DEF Inductive

LEMMA TakePlaceStep ==
  ASSUME Inductive, TakePlace
  PROVE  Inductive'
<1>1. /\ status = "running" /\ ~ calling /\ Current.how = "claim"
      /\ active < MaxActive /\ active' = active + 1 /\ Proceed
      /\ UNCHANGED <<run, names, lcore, held, foreign, failed, rc, commands>>
  BY DEF TakePlace, Ready, errors
<1>2. /\ TypeOK /\ HeldInv /\ SiteInv /\ LoopInv /\ FailInv /\ NameInv /\ QueueInv
      /\ HelloInv
  BY DEF Inductive
<1>3. /\ pc \in 1 .. Len(Chain.calls) /\ Len(Chain.calls) \in Nat \ {0}
      /\ SiteOK(Current, pc) /\ KindOK(Current, pc)
      /\ Has(pc + 1) = ((Has(pc) \ Current.drops) \ Current.frees) \cup Current.takes
  BY <1>1, AtCall
<1>4. /\ Current.takes = {} /\ Current.frees = {} /\ Current.drops = {}
      /\ run.name = "sequential_write" /\ pc = 4
  BY <1>1, <1>3 DEF KindOK
<1>5. /\ calling' = FALSE /\ status' \in {"stopping", "running"} /\ Where(pc') = Where(pc + 1)
  BY <1>1, Onward
<1>6. Nulls' = Nulls
  BY <1>1 DEF Nulls
<1>7. active' \in 1 .. MaxActive + 1
  BY <1>1, <1>2, ConstantsOK DEF QueueInv
<1>8. TypeOK'
  BY <1>1, <1>2, <1>7, OnwardType DEF TypeOK, QueueInv
<1>9. HeldInv'
  <2>1. rc = "ok" => DOMAIN held' = Has(pc + 1)
    BY <1>1, <1>2, <1>3, <1>4 DEF HeldInv, Coming
  <2> QED
    BY <1>1, <1>2, <2>1, OnwardHeld DEF HeldInv
<1>10. SiteInv'
  <2>1. status' = "running" => lcore' = Where(pc')
    BY <1>1, <1>2, <1>3, <1>5 DEF SiteOK, SiteInv
  <2> QED
    BY <1>1, <1>2, <1>6, <2>1, SameRun DEF SiteInv
<1>11. LoopInv'
  BY <1>1, OnwardLoop
<1>12. FailInv'
  <2>1. Nulls \cap Trapped = {}
    BY <1>2, <1>4 DEF FailInv, Wait
  <2> QED
    BY <1>1, <1>2, <1>6, <2>1, OnwardFail DEF FailInv
<1>13. NameInv'
  BY <1>1, <1>2, KeepsNames DEF NameInv
<1>14. QueueInv'
  BY <1>1, <1>2, <1>4, <1>7, OnwardQueue DEF QueueInv
<1>15. HelloInv'
  BY <1>1, <1>4 DEF HelloInv
<1>16. NullInv'
  BY <1>5 DEF NullInv
<1> QED
  BY <1>8, <1>9, <1>10, <1>11, <1>12, <1>13, <1>14, <1>15, <1>16 DEF Inductive

LEMMA FlushStep ==
  ASSUME Inductive, Flush
  PROVE  Inductive'
<1>1. /\ status = "running" /\ ~ calling /\ Current.how = "claim"
      /\ \/ /\ commands < QueueSize /\ commands' = commands + 1
            /\ UNCHANGED <<status, failed, rc>>
         \/ /\ rc' = Current.op /\ status' = "stopping" /\ commands' = commands
      /\ UNCHANGED <<run, names, pc, calling, file, done, lcore, held, foreign, active>>
  BY DEF Flush, Ready, errors, place
<1>2. /\ TypeOK /\ HeldInv /\ SiteInv /\ LoopInv /\ FailInv /\ NameInv /\ QueueInv
      /\ HelloInv
  BY DEF Inductive
<1>3. /\ pc \in 1 .. Len(Chain.calls) /\ KindOK(Current, pc)
  BY <1>1, AtCall
<1>4. run.name = "sequential_write" /\ Current.op \notin {"ok", "EEXIST"}
  BY <1>1, <1>3 DEF KindOK
<1>5. Nulls' = Nulls /\ Coming' = Coming
  BY <1>1, SameRun DEF Nulls, Coming, Current
<1>6. commands' \in 0 .. QueueSize
  BY <1>1, <1>2, ConstantsOK DEF QueueInv
<1>7. TypeOK'
  BY <1>1, <1>2, <1>6, SameRun DEF TypeOK, Status
<1>8. HeldInv'
  BY <1>1, <1>2, <1>3, <1>4, <1>5, SameRun DEF HeldInv
<1>9. SiteInv'
  BY <1>1, <1>2, <1>4, <1>5, SameRun DEF SiteInv
<1>10. LoopInv'
  BY <1>1, <1>2, KeepsLoop
<1>11. FailInv'
  BY <1>1, <1>2, <1>4, <1>5, SameRun DEF FailInv, Throws
<1>12. NameInv'
  BY <1>1, <1>2, <1>4, KeepsNames DEF NameInv
<1>13. QueueInv'
  BY <1>1, <1>2, <1>4, <1>6 DEF QueueInv
<1>14. HelloInv'
  BY <1>1, <1>4 DEF HelloInv
<1>15. NullInv'
  BY <1>1 DEF NullInv
<1> QED
  BY <1>7, <1>8, <1>9, <1>10, <1>11, <1>12, <1>13, <1>14, <1>15 DEF Inductive

LEMMA SpinStep ==
  ASSUME Inductive, SpinOnCount, active = 0
  PROVE  Inductive'
<1>1. /\ status = "running" /\ ~ calling /\ Current.how = "spin" /\ Proceed
      /\ UNCHANGED <<run, names, lcore, held, foreign, failed, rc, active, commands>>
  BY DEF SpinOnCount, Ready, errors, queue
<1>2. /\ TypeOK /\ HeldInv /\ SiteInv /\ LoopInv /\ FailInv /\ NameInv /\ QueueInv
      /\ HelloInv
  BY DEF Inductive
<1>3. /\ pc \in 1 .. Len(Chain.calls) /\ Len(Chain.calls) \in Nat \ {0}
      /\ SiteOK(Current, pc) /\ KindOK(Current, pc)
      /\ Has(pc + 1) = ((Has(pc) \ Current.drops) \ Current.frees) \cup Current.takes
  BY <1>1, AtCall
<1>4. /\ Current.takes = {} /\ Current.frees = {} /\ Current.drops = {}
      /\ run.name = "sequential_write" /\ pc = 7
  BY <1>1, <1>3 DEF KindOK
<1>5. /\ calling' = FALSE /\ status' \in {"stopping", "running"} /\ Where(pc') = Where(pc + 1)
  BY <1>1, Onward
<1>6. Nulls' = Nulls
  BY <1>1 DEF Nulls
<1>7. TypeOK'
  BY <1>1, <1>2, OnwardType DEF TypeOK, QueueInv
<1>8. HeldInv'
  <2>1. rc = "ok" => DOMAIN held' = Has(pc + 1)
    BY <1>1, <1>2, <1>3, <1>4 DEF HeldInv, Coming
  <2> QED
    BY <1>1, <1>2, <2>1, OnwardHeld DEF HeldInv
<1>9. SiteInv'
  <2>1. status' = "running" => lcore' = Where(pc')
    BY <1>1, <1>2, <1>3, <1>5 DEF SiteOK, SiteInv
  <2> QED
    BY <1>1, <1>2, <1>6, <2>1, SameRun DEF SiteInv
<1>10. LoopInv'
  BY <1>1, OnwardLoop
<1>11. FailInv'
  <2>1. Nulls \cap Trapped = {}
    BY <1>2, <1>4 DEF FailInv, Wait
  <2> QED
    BY <1>1, <1>2, <1>6, <2>1, OnwardFail DEF FailInv
<1>12. NameInv'
  BY <1>1, <1>2, KeepsNames DEF NameInv
<1>13. QueueInv'
  BY <1>1, <1>2, <1>4, OnwardQueue DEF QueueInv
<1>14. HelloInv'
  BY <1>1, <1>4 DEF HelloInv
<1>15. NullInv'
  BY <1>5 DEF NullInv
<1> QED
  BY <1>7, <1>8, <1>9, <1>10, <1>11, <1>12, <1>13, <1>14, <1>15 DEF Inductive

LEMMA ExitStep ==
  ASSUME Inductive, Exit
  PROVE  Inductive'
<1>1. /\ status = "stopping" /\ status' = "exited"
      /\ held' = Restrict(held, DOMAIN held \ Owned)
      /\ foreign' = foreign \cup (Owned \cap {"channel"} \cap DOMAIN held)
      /\ UNCHANGED <<run, names, pc, calling, file, done, lcore, failed, rc, active, commands>>
  BY DEF Exit, place, errors, queue
<1>2. /\ TypeOK /\ HeldInv /\ SiteInv /\ LoopInv /\ FailInv /\ NameInv /\ QueueInv
      /\ HelloInv
  BY DEF Inductive
<1>3. /\ DOMAIN held' = DOMAIN held \ Owned
      /\ \A r \in DOMAIN held' : held'[r] = held[r]
  BY <1>1 DEF Restrict
<1>4. Nulls' = Nulls \ Owned
  BY <1>3 DEF Nulls
<1>5. rc = "ok" => "channel" \notin DOMAIN held
  <2>1. "channel" \notin Has(Len(Chain.calls) + 1)
    BY <1>2, ChainsOK DEF TypeOK, ChainOK
  <2> QED
    BY <1>1, <1>2, <2>1 DEF HeldInv
<1>6. rc = "ok" => Nulls \subseteq Overlooked
  <2> SUFFICES ASSUME rc = "ok" PROVE Nulls \subseteq Overlooked
    OBVIOUS
  <2>1. ChainOK
    BY <1>2, ChainsOK DEF TypeOK
  <2>2. pc = Len(Chain.calls) + 1 /\ Len(Chain.calls) \in Nat /\ Wait \subseteq 1 .. Len(Chain.calls)
    BY <1>1, <1>2, <2>1 DEF HeldInv, ChainOK
  <2>3. Nulls \cap Trapped = {}
    BY <1>2, <2>2 DEF FailInv
  <2>4. "channel" \notin Nulls
    BY <1>5 DEF Nulls
  <2> QED
    BY <1>2, <2>3, <2>4 DEF SiteInv, Trapped
<1>7. TypeOK'
  BY <1>1, <1>2, <1>3, SameRun DEF TypeOK, Status
<1>8. HeldInv'
  BY <1>1, <1>2, <1>3, SameRun DEF HeldInv
<1>9. SiteInv'
  <2>1. "channel" \in DOMAIN held /\ "channel" \in Owned => "channel" \in Allowed \/ run.name = "bdev"
    <3>1. rc # "ok" => ~ Throws
      BY <1>1, <1>2 DEF FailInv
    <3> QED
      BY <1>2, <1>5, <3>1 DEF SiteInv, Allowed, Throws, Owned
  <2>2. foreign' \subseteq Allowed \cup (IF run.name = "bdev" /\ rc # "ok" THEN {"channel"} ELSE {})
    BY <1>1, <1>2, <1>5, <2>1 DEF SiteInv
  <2> QED
    BY <1>1, <1>2, <1>3, <1>4, <2>2, SameRun DEF SiteInv
<1>10. LoopInv'
  BY <1>1, <1>2, KeepsLoop
<1>11. FailInv'
  <2>1. rc = "ok" => failed \subseteq Overlooked
    BY <1>2, <1>6 DEF FailInv
  <2>2. Current' = Current
    BY <1>1, SameRun DEF Current
  <2> QED
    BY <1>1, <1>2, <1>4, <2>1, <2>2, SameRun DEF FailInv
<1>12. NameInv'
  BY <1>1, <1>2, KeepsNames DEF NameInv
<1>13. QueueInv'
  BY <1>1, <1>2, SameRun DEF QueueInv, Current
<1>14. HelloInv'
  BY <1>1, <1>2, <1>3 DEF HelloInv, Owned
<1>15. NullInv'
  BY <1>1 DEF NullInv
<1> QED
  BY <1>7, <1>8, <1>9, <1>10, <1>11, <1>12, <1>13, <1>14, <1>15 DEF Inductive

LEMMA StutterStep ==
  ASSUME Inductive, UNCHANGED vars
  PROVE  Inductive'
<1>1. UNCHANGED <<run, names, pc, calling, file, done, lcore, held, foreign, failed, rc,
                  status, active, commands>>
  BY DEF vars, place, errors, queue
<1>2. /\ TypeOK /\ HeldInv /\ SiteInv /\ LoopInv /\ FailInv /\ NameInv /\ QueueInv
      /\ HelloInv /\ NullInv
  BY DEF Inductive
<1>3. Nulls' = Nulls /\ Coming' = Coming
  BY <1>1, SameRun DEF Nulls, Coming, Current
<1>4. TypeOK' /\ HeldInv'
  BY <1>1, <1>2, <1>3, SameRun DEF TypeOK, HeldInv
<1>5. SiteInv' /\ FailInv'
  BY <1>1, <1>2, <1>3, SameRun DEF SiteInv, FailInv, Current
<1>6. LoopInv' /\ NameInv'
  BY <1>1, <1>2, KeepsLoop DEF NameInv, Collision
<1>7. QueueInv' /\ HelloInv' /\ NullInv'
  BY <1>1, <1>2, <1>3, SameRun DEF QueueInv, Current, HelloInv, NullInv
<1> QED
  BY <1>4, <1>5, <1>6, <1>7 DEF Inductive

(* Every step keeps the invariant.                                         *)
LEMMA InductiveNext ==
  ASSUME Inductive, [Next]_vars
  PROVE  Inductive'
<1>1. CASE Misuse
  BY <1>1, MisuseStep
<1>2. CASE Begin
  BY <1>2, BeginStep
<1>3. CASE Deliver
  BY <1>3, DeliverStep
<1>4. CASE Succeed
  BY <1>4, SucceedStep
<1>5. CASE FailUnseen
  BY <1>5, FailUnseenStep
<1>6. CASE Fail
  BY <1>6, FailStep
<1>7. CASE TakePlace
  BY <1>7, TakePlaceStep
<1>8. CASE Flush
  BY <1>8, FlushStep
<1>9. CASE SpinOnCount
  <2>1. active = 0 \/ UNCHANGED vars
    BY <1>9 DEF SpinOnCount
  <2> QED
    BY <1>9, <2>1, SpinStep, StutterStep
<1>10. CASE Exit
  BY <1>10, ExitStep
<1>11. CASE Ended
  BY <1>11, StutterStep DEF Ended
<1>12. CASE UNCHANGED vars
  BY <1>12, StutterStep
<1>13. CASE CompleteWithError
  BY <1>13, CompleteWithErrorStep
<1> QED
  BY <1>1, <1>2, <1>3, <1>4, <1>5, <1>6, <1>7, <1>8, <1>9, <1>10, <1>11, <1>12, <1>13 DEF Next

(* And every program begins with it.                                       *)
LEMMA InductiveInit ==
  ASSUME Init
  PROVE  Inductive
<1>1. /\ run \in Runs /\ pc = 1 /\ calling = FALSE /\ file = 0 /\ done = {} /\ lcore = 0
      /\ held = <<>> /\ foreign = {} /\ failed = {} /\ rc = "ok" /\ status = "running"
      /\ active \in 0 .. MaxActive + 1 /\ commands = 0
      /\ run.name # "sequential_write" => active = 0
  BY ConstantsOK DEF Init
<1>2. DOMAIN held = {}
  BY <1>1
<1>3. ChainOK
  BY <1>1, ChainsOK
<1>4. Nulls = {}
  BY <1>2 DEF Nulls
<1>5. TypeOK
  <2>1. /\ pc \in 1 .. Len(Chain.calls) + 1 /\ file \in 0 .. MaxFiles
        /\ active \in 0 .. MaxFiles + MaxActive + 1 /\ commands \in 0 .. QueueSize
    BY <1>1, <1>3, ConstantsOK DEF ChainOK
  <2>2. \A r \in DOMAIN held : held[r] \in {Null, 0, 1}
    BY <1>2
  <2> QED
    BY <1>1, <2>1, <2>2 DEF TypeOK, Status
<1>6. HeldInv
  BY <1>1, <1>2, <1>3 DEF HeldInv, Coming, ChainOK
<1>7. SiteInv
  BY <1>1, <1>2, <1>3, <1>4 DEF SiteInv, ChainOK
<1>8. LoopInv
  BY <1>1, Shape DEF LoopInv
<1>9. FailInv
  BY <1>1, <1>4 DEF FailInv
<1>10. NameInv
  <2>1. <<"a">> = [k \in 1 .. 1 |-> "a"]
    OBVIOUS
  <2>2. <<"a">> \in Names
    <3>1. <<"a">> \in [1 .. 1 -> {"a", "/", "_"}]
      BY <2>1
    <3>2. 1 \in 1 .. MaxName
      BY ConstantsOK
    <3> QED
      BY <3>1, <3>2 DEF Names
  <2>3. names \in [1 .. run.files -> Names]
    BY <2>2 DEF Init
  <2> QED
    BY <1>1, <2>3 DEF NameInv
<1>11. QueueInv
  BY <1>1, ConstantsOK DEF QueueInv
<1>12. HelloInv /\ NullInv
  BY <1>1 DEF HelloInv, NullInv
<1> QED
  BY <1>5, <1>6, <1>7, <1>8, <1>9, <1>10, <1>11, <1>12 DEF Inductive

-------------------------------------------------------------------------------
(* The numbers from which escape_file_name is reasoned about: a set of     *)
(* them has a least member, and one that holds 0 and every successor of    *)
(* its members holds all.                                                  *)
LEMMA LeastOf ==
  ASSUME NEW T \in SUBSET Nat, T # {}
  PROVE  \E x \in T : \A y \in T : x <= y
<1> DEFINE R == OpToRel(<, Nat)
<1>1. IsWellFoundedOn(R, Nat)
  BY NatLessThanWellFounded
<1>2. \A x, y \in Nat : y < x => <<y, x>> \in R
  BY DEF OpToRel
<1> HIDE DEF R
<1>3. PICK x \in T : \A y \in T : ~ (<<y, x>> \in R)
  BY <1>1, WFMin
<1>4. x \in Nat /\ \A y \in T : y \in Nat
  OBVIOUS
<1>5. ASSUME NEW y \in T PROVE x <= y
  <2>1. y \in Nat /\ ~ (y < x)
    BY <1>2, <1>3, <1>4
  <2> QED
    BY <2>1, <1>4
<1> QED
  BY <1>5

LEMMA Induct ==
  ASSUME NEW S, 0 \in S, \A n \in Nat : n \in S => n + 1 \in S
  PROVE  Nat \subseteq S
<1> DEFINE T == Nat \ S
<1> SUFFICES ASSUME T # {} PROVE FALSE
  OBVIOUS
<1>1. PICK x \in T : \A y \in T : x <= y
  BY LeastOf
<1>2. x # 0 /\ x \in Nat /\ x - 1 \in Nat
  OBVIOUS
<1>3. x - 1 \in S
  BY <1>1, <1>2
<1> QED
  BY <1>2, <1>3

(* The prefixes of an escaped name: f[k] is what the first k characters    *)
(* have become.                                                            *)
Escaped(name) == [k \in DOMAIN name |-> Escape(name[k])]
Stages(name, n, f) ==
  f = [i \in 1 .. n |-> IF i = 1 THEN Escaped(name)[i] ELSE f[i - 1] \o Escaped(name)[i]]
Slash == "/"
Under == "_"
Chars == {"a", Slash, Under}
Name(s, n) == n \in Nat \ {0} /\ s \in [1 .. n -> Chars]

(* One character and two.                                                  *)
LEMMA ShortSeqs ==
  ASSUME NEW S, NEW x \in S, NEW y \in S
  PROVE  /\ <<x>> \in Seq(S) /\ Len(<<x>>) = 1 /\ <<x>>[1] = x
         /\ <<x, y>> \in Seq(S) /\ Len(<<x, y>>) = 2
         /\ <<x, y>>[1] = x /\ <<x, y>>[2] = y
OBVIOUS

(* What a character becomes.                                               *)
LEMMA EscapeIs ==
  ASSUME NEW ch \in Chars
  PROVE  /\ Escape(ch) \in Seq(Chars) /\ Len(Escape(ch)) \in {1, 2}
         /\ ch = "a" <=> Escape(ch)[1] = "a"
         /\ ch = Slash => Len(Escape(ch)) = 1 /\ Escape(ch)[1] = Under
         /\ ch = Under =>
              Len(Escape(ch)) = 2 /\ Escape(ch)[1] = Under /\ Escape(ch)[2] = Under
<1>1. /\ Escape(Slash) = <<Under>> /\ Escape(Under) = <<Under, Under>>
      /\ Escape("a") = <<"a">>
  BY DEF Escape, Slash, Under
<1>2. /\ "a" \in Chars /\ Under \in Chars
      /\ "a" # Under /\ "a" # Slash /\ Slash # Under
  BY DEF Chars, Slash, Under
<1>3. /\ <<Under>> \in Seq(Chars) /\ Len(<<Under>>) = 1 /\ <<Under>>[1] = Under
      /\ <<"a">> \in Seq(Chars) /\ Len(<<"a">>) = 1 /\ <<"a">>[1] = "a"
      /\ <<Under, Under>> \in Seq(Chars) /\ Len(<<Under, Under>>) = 2
      /\ <<Under, Under>>[1] = Under /\ <<Under, Under>>[2] = Under
  BY <1>2, ShortSeqs
<1>4. CASE ch = "a"
  BY <1>1, <1>2, <1>3, <1>4
<1>5. CASE ch = Slash
  BY <1>1, <1>2, <1>3, <1>5
<1>6. CASE ch = Under
  BY <1>1, <1>2, <1>3, <1>6
<1> QED
  BY <1>4, <1>5, <1>6 DEF Chars

(* The prefixes exist, and the last of them is the escaped name.           *)
LEMMA StagesExist ==
  ASSUME NEW s, NEW n, Name(s, n)
  PROVE  \E f : Stages(s, n, f)
<1> DEFINE S == {m \in Nat : m <= n => \E f : Stages(s, m, f)}
<1>1. 0 \in S
  <2>1. Stages(s, 0, [i \in 1 .. 0 |-> <<>>])
    BY DEF Stages
  <2> QED
    BY <2>1
<1>2. ASSUME NEW m \in Nat, m \in S PROVE m + 1 \in S
  <2> SUFFICES ASSUME m + 1 <= n PROVE \E g : Stages(s, m + 1, g)
    OBVIOUS
  <2>1. PICK f : Stages(s, m, f)
    BY <1>2 DEF Name
  <2> DEFINE E(i) == Escaped(s)[i]
             g == [i \in 1 .. m + 1 |->
                     IF i = 1 THEN E(i) ELSE IF i = m + 1 THEN f[m] \o E(i) ELSE f[i - 1] \o E(i)]
  <2>2. \A i \in 1 .. m : f[i] = IF i = 1 THEN E(i) ELSE f[i - 1] \o E(i)
    BY <2>1 DEF Stages
  <2>3. \A i \in 1 .. m : g[i] = f[i]
    BY <2>2
  <2>4. \A i \in 1 .. m + 1 : g[i] = IF i = 1 THEN E(i) ELSE g[i - 1] \o E(i)
    <3>1. ASSUME NEW i \in 1 .. m + 1, i # 1, i = m + 1 PROVE g[i] = g[i - 1] \o E(i)
      <4>1. i - 1 = m /\ m \in 1 .. m
        BY <3>1
      <4> QED
        BY <2>3, <3>1, <4>1
    <3>2. ASSUME NEW i \in 1 .. m + 1, i # 1, i # m + 1 PROVE g[i] = g[i - 1] \o E(i)
      <4>1. i - 1 \in 1 .. m
        BY <3>2
      <4> QED
        BY <2>3, <3>2, <4>1
    <3> QED
      BY <3>1, <3>2
  <2>5. g = [i \in 1 .. m + 1 |-> g[i]]
    OBVIOUS
  <2> HIDE DEF g, E
  <2>6. g = [i \in 1 .. m + 1 |-> IF i = 1 THEN E(i) ELSE g[i - 1] \o E(i)]
    BY <2>4, <2>5
  <2> QED
    BY <2>6 DEF Stages, E
<1>3. n \in S
  <2> HIDE DEF S
  <2> QED
    BY <1>1, <1>2, Induct DEF Name
<1> QED
  BY <1>3

LEMMA EscapedName ==
  ASSUME NEW s, NEW n, Name(s, n)
  PROVE  \E f : Stages(s, n, f) /\ EscapeFileName(s) = f[n]
<1> DEFINE e == Escaped(s)
           f == CHOOSE f : Stages(s, n, f)
<1>1. DOMAIN e = 1 .. n /\ Len(e) = n /\ n # 0
  <2>1. e = [k \in 1 .. n |-> Escape(s[k])] /\ n \in Nat
    BY DEF Name, Escaped
  <2> QED
    BY <2>1 DEF Name
<1>2. EscapeFileName(s) = FlattenSeq(e)
  BY DEF EscapeFileName, Escaped
<1>3. Stages(s, n, f)
  BY StagesExist
<1> HIDE DEF e
<1>4. FlattenSeq(e) =
        (CHOOSE h : h = [i \in 1 .. Len(e) |-> IF i = 1 THEN e[i] ELSE h[i - 1] \o e[i]])[Len(e)]
  BY <1>1 DEF FlattenSeq
<1>5. FlattenSeq(e) = f[n]
  BY <1>1, <1>4 DEF Stages, e
<1> QED
  BY <1>2, <1>3, <1>5

(* Each prefix is the one before it and what the character becomes.        *)
LEMMA FirstStage ==
  ASSUME NEW s, NEW n, Name(s, n), NEW f, Stages(s, n, f)
  PROVE  f[1] = Escape(s[1])
BY DEF Name, Escaped, Stages

Grows(s, n, f) == \A k \in 2 .. n : f[k] = f[k - 1] \o Escape(s[k])

LEMMA NextStage ==
  ASSUME NEW s, NEW n, Name(s, n), NEW f, Stages(s, n, f)
  PROVE  Grows(s, n, f)
<1>1. n \in Nat /\ \A k \in 1 .. n : Escaped(s)[k] = Escape(s[k])
  BY DEF Name, Escaped
<1>2. \A k \in 1 .. n : f[k] = IF k = 1 THEN Escaped(s)[k] ELSE f[k - 1] \o Escaped(s)[k]
  BY DEF Stages
<1>3. ASSUME NEW k \in 2 .. n PROVE f[k] = f[k - 1] \o Escape(s[k])
  <2>1. k \in 1 .. n /\ k # 1
    BY <1>1
  <2> QED
    BY <1>1, <1>2, <2>1
<1> QED
  BY <1>3 DEF Grows

LEMMA StagesSeq ==
  ASSUME NEW s, NEW n, Name(s, n), NEW f, Stages(s, n, f)
  PROVE  \A k \in 1 .. n : f[k] \in Seq(Chars) /\ Escape(s[k]) \in Seq(Chars)
<1>1. n \in Nat /\ 1 \in 1 .. n /\ \A k \in 1 .. n : s[k] \in Chars
  BY DEF Name
<1>2. f[1] = Escape(s[1])
  BY FirstStage
<1>3. \A k \in 2 .. n : f[k] = f[k - 1] \o Escape(s[k])
  BY NextStage DEF Grows
<1>4. \A k \in 1 .. n : Escape(s[k]) \in Seq(Chars)
  BY <1>1, EscapeIs
<1> DEFINE S == {k \in Nat : k \in 1 .. n => f[k] \in Seq(Chars)}
<1>5. ASSUME NEW k \in Nat, k \in S PROVE k + 1 \in S
  <2> SUFFICES ASSUME k + 1 \in 1 .. n PROVE f[k + 1] \in Seq(Chars)
    OBVIOUS
  <2>1. CASE k = 0
    BY <1>1, <1>2, <1>4, <2>1
  <2>2. CASE k # 0
    <3>1. k \in 1 .. n /\ k + 1 \in 2 .. n /\ (k + 1) - 1 = k
      BY <1>1, <2>2
    <3>2. f[k] \in Seq(Chars) /\ Escape(s[k + 1]) \in Seq(Chars)
      BY <1>4, <1>5, <3>1
    <3>3. f[k + 1] = f[k] \o Escape(s[k + 1])
      BY <1>3, <3>1
    <3> QED
      BY <3>2, <3>3
  <2> QED
    BY <2>1, <2>2
<1>6. Nat \subseteq S
  <2>1. 0 \in S
    OBVIOUS
  <2> HIDE DEF S
  <2> QED
    BY <1>5, <2>1, Induct
<1>7. ASSUME NEW k \in 1 .. n PROVE f[k] \in Seq(Chars)
  <2>1. k \in S
    BY <1>1, <1>6
  <2> QED
    BY <2>1
<1> HIDE DEF S
<1> QED
  BY <1>4, <1>7

(* What the first k characters have become stands at the front of what    *)
(* the first j of them have.                                               *)
Begins(t, u) == Len(t) <= Len(u) /\ \A i \in 1 .. Len(t) : u[i] = t[i]

(* Every prefix is the beginning of the later ones.                        *)
LEMMA BeginsConcat ==
  ASSUME NEW t \in Seq(Chars), NEW u \in Seq(Chars), NEW v \in Seq(Chars), Begins(t, u)
  PROVE  Begins(t, u \o v)
BY DEF Begins

LEMMA StageBegins ==
  ASSUME NEW s, NEW n, Name(s, n), NEW f, Stages(s, n, f), NEW k \in 1 .. n
  PROVE  \A j \in k .. n : Begins(f[k], f[j])
<1>1. n \in Nat /\ \A i \in 1 .. n : f[i] \in Seq(Chars) /\ Escape(s[i]) \in Seq(Chars)
  BY StagesSeq DEF Name
<1> DEFINE S == {d \in Nat : k + d <= n => Begins(f[k], f[k + d])}
<1>2. 0 \in S
  <2>1. k + 0 = k /\ Begins(f[k], f[k])
    BY <1>1 DEF Begins
  <2> QED
    BY <2>1
<1>3. ASSUME NEW d \in Nat, d \in S PROVE d + 1 \in S
  <2> SUFFICES ASSUME k + (d + 1) <= n PROVE Begins(f[k], f[k + (d + 1)])
    OBVIOUS
  <2>1. k + d \in 1 .. n /\ k + (d + 1) \in 2 .. n /\ (k + (d + 1)) - 1 = k + d
    BY <1>1
  <2>2. f[k + (d + 1)] = f[k + d] \o Escape(s[k + (d + 1)])
    <3>1. \A i \in 2 .. n : f[i] = f[i - 1] \o Escape(s[i])
      BY NextStage DEF Grows
    <3> QED
      BY <2>1, <3>1
  <2>3. Begins(f[k], f[k + d])
    BY <1>1, <1>3, <2>1
  <2> QED
    BY <1>1, <2>1, <2>2, <2>3, BeginsConcat
<1>4. Nat \subseteq S
  <2> HIDE DEF S
  <2> QED
    BY <1>2, <1>3, Induct
<1>5. ASSUME NEW j \in k .. n PROVE Begins(f[k], f[j])
  <2>1. j - k \in Nat /\ k + (j - k) = j /\ j <= n
    BY <1>1
  <2>2. j - k \in S
    BY <1>4, <2>1
  <2> QED
    BY <2>1, <2>2
<1> QED
  BY <1>5

Before(f, i) == IF i = 1 THEN <<>> ELSE f[i - 1]

(* What the i-th character has become stands in the escaped name after     *)
(* what those before it have.                                              *)
LEMMA OneMore ==
  ASSUME NEW s, NEW n, Name(s, n), NEW f, Stages(s, n, f), NEW i \in 1 .. n
  PROVE  LET p == Len(Before(f, i)) IN
         /\ Before(f, i) \in Seq(Chars) /\ p \in Nat
         /\ f[i] = Before(f, i) \o Escape(s[i])
         /\ Len(f[i]) = p + Len(Escape(s[i])) /\ Len(f[i]) <= Len(f[n])
         /\ f[n][p + 1] = Escape(s[i])[1]
         /\ s[i] = Under => f[n][p + 2] = Under
<1> DEFINE B == Before(f, i)
           e == Escape(s[i])
<1>1. n \in Nat /\ i \in Nat /\ s[i] \in Chars
  BY DEF Name
<1>2. f[1] = Escape(s[1])
  BY FirstStage
<1>3. \A k \in 2 .. n : f[k] = f[k - 1] \o Escape(s[k])
  BY NextStage DEF Grows
<1>4. \A k \in 1 .. n : f[k] \in Seq(Chars)
  BY StagesSeq
<1>5. e \in Seq(Chars) /\ Len(e) \in {1, 2} /\ (s[i] = Under => Len(e) = 2 /\ e[2] = Under)
  BY <1>1, EscapeIs
<1>6. B \in Seq(Chars) /\ f[i] = B \o e
  <2>1. CASE i = 1
    BY <1>2, <1>5, <2>1 DEF Before
  <2>2. CASE i # 1
    <3>1. i \in 2 .. n /\ i - 1 \in 1 .. n
      BY <1>1, <2>2
    <3> QED
      BY <1>3, <1>4, <1>5, <2>2, <3>1 DEF Before
  <2> QED
    BY <2>1, <2>2
<1>7. Begins(f[i], f[n])
  <2>1. n \in i .. n
    BY <1>1
  <2> QED
    BY <2>1, StageBegins
<1> HIDE DEF B, e
<1>8. Len(f[i]) = Len(B) + Len(e) /\ Len(B) \in Nat /\ Len(e) \in Nat
  BY <1>5, <1>6
<1>9. \A k \in 1 .. Len(e) : (B \o e)[Len(B) + k] = e[k]
  BY <1>5, <1>6
<1>10. \A k \in 1 .. Len(e) : f[n][Len(B) + k] = e[k]
  <2> SUFFICES ASSUME NEW k \in 1 .. Len(e) PROVE f[n][Len(B) + k] = e[k]
    OBVIOUS
  <2>1. Len(B) + k \in 1 .. Len(f[i])
    BY <1>8
  <2>2. f[n][Len(B) + k] = f[i][Len(B) + k]
    BY <1>7, <2>1 DEF Begins
  <2> QED
    BY <1>6, <1>9, <2>2
<1>11. f[n][Len(B) + 1] = e[1] /\ (s[i] = Under => f[n][Len(B) + 2] = Under)
  BY <1>5, <1>10
<1>12. Len(f[i]) <= Len(f[n])
  BY <1>7 DEF Begins
<1> QED
  BY <1>6, <1>8, <1>11, <1>12 DEF B, e

(* Names that agree before i are escaped to the same before i.             *)
LEMMA SameBefore ==
  ASSUME NEW a, NEW n, Name(a, n), NEW fa, Stages(a, n, fa),
         NEW b, NEW m, Name(b, m), NEW fb, Stages(b, m, fb),
         NEW i \in Nat \ {0}, i <= n + 1, i <= m + 1,
         \A k \in 1 .. i - 1 : a[k] = b[k]
  PROVE  Before(fa, i) = Before(fb, i)
<1>1. n \in Nat \ {0} /\ m \in Nat \ {0}
  BY DEF Name
<1>2. fa[1] = Escape(a[1]) /\ fb[1] = Escape(b[1])
  BY FirstStage
<1>3. Grows(a, n, fa)
  BY NextStage
<1>4. Grows(b, m, fb)
  BY NextStage
<1> DEFINE S == {d \in Nat : d + 1 <= i - 1 => fa[d + 1] = fb[d + 1]}
<1>5. 0 \in S
  <2> SUFFICES ASSUME 1 <= i - 1 PROVE fa[1] = fb[1]
    OBVIOUS
  <2> QED
    BY <1>2
<1>6. ASSUME NEW d \in Nat, d \in S PROVE d + 1 \in S
  <2> SUFFICES ASSUME (d + 1) + 1 <= i - 1 PROVE fa[(d + 1) + 1] = fb[(d + 1) + 1]
    OBVIOUS
  <2>1. /\ (d + 1) + 1 \in 2 .. n /\ (d + 1) + 1 \in 2 .. m
        /\ ((d + 1) + 1) - 1 = d + 1 /\ (d + 1) + 1 \in 1 .. i - 1
    BY <1>1
  <2>2. fa[d + 1] = fb[d + 1]
    BY <1>6
  <2>3. fa[(d + 1) + 1] = fa[d + 1] \o Escape(a[(d + 1) + 1])
    BY <2>1, <1>3 DEF Grows
  <2>4. fb[(d + 1) + 1] = fb[d + 1] \o Escape(b[(d + 1) + 1])
    BY <2>1, <1>4 DEF Grows
  <2>5. a[(d + 1) + 1] = b[(d + 1) + 1]
    BY <2>1
  <2> QED
    BY <2>2, <2>3, <2>4, <2>5
<1>7. Nat \subseteq S
  <2> HIDE DEF S
  <2> QED
    BY <1>5, <1>6, Induct
<1>8. CASE i = 1
  BY <1>8 DEF Before
<1>9. CASE i # 1
  <2>1. i - 2 \in Nat /\ (i - 2) + 1 = i - 1
    BY <1>9
  <2>2. fa[i - 1] = fb[i - 1]
    <3>1. i - 2 \in S
      BY <1>7, <2>1
    <3> QED
      BY <2>1, <3>1
  <2> QED
    BY <1>9, <2>2 DEF Before
<1> QED
  BY <1>8, <1>9

(* A name is not the beginning of another that is escaped to the same.     *)
LEMMA NotShorter ==
  ASSUME NEW a, NEW n, Name(a, n), NEW fa, Stages(a, n, fa),
         NEW b, NEW m, Name(b, m), NEW fb, Stages(b, m, fb),
         fa[n] = fb[m], n < m, \A k \in 1 .. n : a[k] = b[k]
  PROVE  FALSE
<1>1. n \in Nat \ {0} /\ m \in Nat \ {0} /\ n + 1 \in 1 .. m /\ (n + 1) - 1 = n
  BY DEF Name
<1>2. Before(fa, n + 1) = Before(fb, n + 1)
  BY <1>1, SameBefore
<1>3. fa[n] = Before(fb, n + 1)
  BY <1>1, <1>2 DEF Before
<1>4. /\ Len(Before(fb, n + 1)) \in Nat
      /\ Len(fb[n + 1]) = Len(Before(fb, n + 1)) + Len(Escape(b[n + 1]))
      /\ Len(fb[n + 1]) <= Len(fb[m])
  BY <1>1, OneMore
<1>5. Len(Escape(b[n + 1])) \in {1, 2}
  BY <1>1, EscapeIs DEF Name
<1> DEFINE p == Len(Before(fb, n + 1))
           e == Len(Escape(b[n + 1]))
           q == Len(fb[n + 1])
<1>6. p \in Nat /\ q = p + e /\ q <= p /\ e \in {1, 2}
  BY <1>3, <1>4, <1>5
<1> HIDE DEF p, e, q
<1> QED
  BY <1>6

(* Where a "/" and a "_" become the same, what follows the "/" is a "/" or *)
(* a "_".                                                                  *)
LEMMA SlashFollowed ==
  ASSUME NEW a, NEW n, Name(a, n), NEW fa, Stages(a, n, fa),
         NEW b, NEW m, Name(b, m), NEW fb, Stages(b, m, fb),
         fa[n] = fb[m], NEW i \in 1 .. n, i \in 1 .. m,
         \A k \in 1 .. i - 1 : a[k] = b[k],
         a[i] = Slash, b[i] = Under
  PROVE  Ambiguous(a)
<1> DEFINE p == Len(Before(fa, i))
<1>1. n \in Nat \ {0} /\ m \in Nat \ {0} /\ i \in Nat \ {0} /\ i <= n + 1 /\ i <= m + 1
  BY DEF Name
<1>2. Before(fa, i) = Before(fb, i)
  BY <1>1, SameBefore
<1>3. Len(Escape(a[i])) = 1 /\ Len(Escape(b[i])) = 2
  <2>1. a[i] \in Chars /\ b[i] \in Chars
    BY DEF Name
  <2> QED
    BY <2>1, EscapeIs
<1>4. p \in Nat /\ Len(fa[i]) = p + 1
  <2>1. p \in Nat /\ Len(fa[i]) = p + Len(Escape(a[i]))
    BY OneMore
  <2> QED
    BY <1>3, <2>1
<1>5. p + 2 <= Len(fa[n]) /\ fa[n][p + 2] = Under
  <2>1. /\ Len(fb[i]) = Len(Before(fb, i)) + Len(Escape(b[i])) /\ Len(fb[i]) <= Len(fb[m])
        /\ fb[m][Len(Before(fb, i)) + 2] = Under
    BY OneMore
  <2>2. Len(Before(fb, i)) = p /\ fb[m] = fa[n]
    BY <1>2
  <2> HIDE DEF p
  <2>3. Len(fb[i]) = p + 2 /\ Len(fb[i]) <= Len(fa[n]) /\ fa[n][p + 2] = Under
    BY <1>3, <2>1, <2>2
  <2> QED
    BY <2>3
<1>6. i + 1 \in 1 .. n /\ (i + 1) - 1 = i
  <2>1. i # n
    BY <1>4, <1>5
  <2> QED
    BY <1>1, <2>1
<1>7. Before(fa, i + 1) = fa[i]
  BY <1>1, <1>6 DEF Before
<1>8. Escape(a[i + 1])[1] = Under
  <2>1. fa[n][Len(Before(fa, i + 1)) + 1] = Escape(a[i + 1])[1]
    BY <1>6, OneMore
  <2>2. Len(Before(fa, i + 1)) + 1 = p + 2
    BY <1>4, <1>7
  <2> QED
    BY <1>5, <2>1, <2>2
<1>9. a[i + 1] \in {Slash, Under}
  <2>1. a[i + 1] \in Chars
    BY <1>6 DEF Name
  <2>2. a[i + 1] # "a"
    <3>1. Under # "a"
      BY DEF Under
    <3> QED
      BY <1>8, <2>1, <3>1, EscapeIs
  <2> QED
    BY <2>1, <2>2 DEF Chars
<1>10. Len(a) = n
  BY <1>1 DEF Name
<1> QED
  <2>1. {a[i], a[i + 1]} \in {{Slash}, {Slash, Under}}
    BY <1>9
  <2>2. i \in 1 .. Len(a) - 1
    BY <1>1, <1>6, <1>10
  <2>3. \E k \in 1 .. Len(a) - 1 : {a[k], a[k + 1]} \in {{Slash}, {Slash, Under}}
    BY <2>1, <2>2
  <2> QED
    BY <2>3, Zenon DEF Ambiguous, Slash, Under

(* Two names that escape_file_name makes one are the same, or one of them  *)
(* is ambiguous.                                                           *)
LEMMA EscapedApart ==
  ASSUME NEW a, NEW n, Name(a, n), NEW b, NEW m, Name(b, m),
         EscapeFileName(a) = EscapeFileName(b)
  PROVE  a = b \/ Ambiguous(a) \/ Ambiguous(b)
<1>1. PICK fa : Stages(a, n, fa) /\ EscapeFileName(a) = fa[n]
  BY EscapedName
<1>2. PICK fb : Stages(b, m, fb) /\ EscapeFileName(b) = fb[m]
  BY EscapedName
<1>3. fa[n] = fb[m]
  BY <1>1, <1>2
<1>4. /\ n \in Nat \ {0} /\ m \in Nat \ {0}
      /\ \A k \in 1 .. n : a[k] \in Chars
      /\ \A k \in 1 .. m : b[k] \in Chars
  BY DEF Name
<1> DEFINE T == {k \in Nat : k \in 1 .. n /\ k \in 1 .. m /\ a[k] # b[k]}
<1>5. CASE T = {}
  <2>1. \A k \in Nat : k \in 1 .. n /\ k \in 1 .. m => a[k] = b[k]
    BY <1>5
  <2>2. ~ n < m
    BY <1>1, <1>2, <1>3, <1>4, <2>1, NotShorter
  <2>3. ~ m < n
    BY <1>1, <1>2, <1>3, <1>4, <2>1, NotShorter
  <2>4. n = m
    BY <1>4, <2>2, <2>3
  <2> QED
    BY <1>4, <2>1, <2>4 DEF Name
<1>6. CASE T # {}
  <2>1. PICK i \in T : \A k \in T : i <= k
    BY <1>6, LeastOf
  <2>2. i \in 1 .. n /\ i \in 1 .. m /\ a[i] # b[i]
    BY <2>1
  <2>3. \A k \in 1 .. i - 1 : a[k] = b[k]
    BY <1>4, <2>1, <2>2
  <2> HIDE DEF T
  <2>4. i \in Nat \ {0} /\ i <= n + 1 /\ i <= m + 1
    BY <1>4, <2>2
  <2>5. Before(fa, i) = Before(fb, i)
    BY <1>1, <1>2, <2>3, <2>4, SameBefore
  <2>6. Escape(a[i])[1] = Escape(b[i])[1]
    <3>1. fa[n][Len(Before(fa, i)) + 1] = Escape(a[i])[1]
      BY <1>1, <2>2, OneMore
    <3>2. fb[m][Len(Before(fb, i)) + 1] = Escape(b[i])[1]
      BY <1>2, <2>2, OneMore
    <3> QED
      BY <1>3, <2>5, <3>1, <3>2
  <2>7. a[i] \in Chars /\ b[i] \in Chars
    BY <1>4, <2>2
  <2>8. a[i] # "a" /\ b[i] # "a"
    BY <2>2, <2>6, <2>7, EscapeIs
  <2>9. (a[i] = Slash /\ b[i] = Under) \/ (b[i] = Slash /\ a[i] = Under)
    BY <2>2, <2>7, <2>8 DEF Chars
  <2>10. CASE a[i] = Slash /\ b[i] = Under
    BY <1>1, <1>2, <1>3, <2>2, <2>3, <2>10, SlashFollowed
  <2>11. CASE b[i] = Slash /\ a[i] = Under
    BY <1>1, <1>2, <1>3, <2>2, <2>3, <2>11, SlashFollowed
  <2> QED
    BY <2>9, <2>10, <2>11
<1> QED
  BY <1>5, <1>6

-------------------------------------------------------------------------------
(* The invariant holds of every program and every way it may go.           *)
THEOREM InductiveCorrect == Spec => []Inductive
<1>1. Init => Inductive
  BY InductiveInit
<1>2. Inductive /\ [Next]_vars => Inductive'
  BY InductiveNext
<1> QED
  BY <1>1, <1>2, PTL DEF Spec

(* Whatever fails, no program uses what it has not got: only an allocation *)
(* or an mmap whose result nobody looked at, or a benchmark without a      *)
(* block or with blocks of size 0, leads to undefined behaviour (the       *)
(* asserts and handlers of hello_blob, bdev.cpp, blobfs.cpp and the        *)
(* programs that read and write files).                                    *)
THEOREM NothingIsMisused == Spec => []NothingMisused
<1>1. Inductive => NothingMisused
  BY DEF Inductive, SiteInv, NullInv, Blockless, NothingMisused
<1> QED
  BY <1>1, InductiveCorrect, PTL

(* A program that ends without an error has done every file, overlooked    *)
(* nothing but what Overlooked names (the status of sequential's read is   *)
(* of it), and given everything back but the NVMe controller.              *)
THEOREM ExitsAreClean == Spec => []CleanExit
<1>1. ASSUME Inductive PROVE CleanExit
  <2> SUFFICES ASSUME status = "exited", rc = "ok"
               PROVE  /\ done = 0 .. run.files - 1
                      /\ failed \subseteq Overlooked
                      /\ DOMAIN held \subseteq {"ctrlr"}
                      /\ commands > 0 => run.name \in {"sequential", "sequential_write"}
                      /\ run.name = "sequential_write" => run.files = 0
    BY DEF CleanExit
  <2>1. /\ TypeOK /\ HeldInv /\ SiteInv /\ LoopInv /\ FailInv /\ QueueInv
    BY <1>1 DEF Inductive
  <2>2. ChainOK /\ run.files \in Nat
    BY <2>1, ChainsOK, Shape DEF TypeOK
  <2>3. pc = Len(Chain.calls) + 1 /\ DOMAIN held \subseteq Has(pc) /\ DOMAIN held \cap Owned = {}
    BY <2>1 DEF HeldInv
  <2>4. done = 0 .. run.files - 1
    <3>1. CASE run.files = 0
      BY <2>1, <3>1 DEF LoopInv
    <3>2. CASE run.files > 0
      <4>1. pc > Chain.last
        BY <2>1, <2>3, <3>2, Shape DEF TypeOK
      <4> QED
        BY <2>1, <3>2, <4>1 DEF LoopInv
    <3> QED
      BY <2>2, <3>1, <3>2
  <2>5. DOMAIN held \subseteq {"ctrlr"}
    BY <2>2, <2>3 DEF ChainOK
  <2>6. failed \subseteq Overlooked
    <3>1. Nulls = {}
      BY <2>1, <2>5 DEF Nulls, SiteInv
    <3> QED
      BY <2>1, <3>1 DEF FailInv
  <2>7. run.name = "sequential_write" => run.files = 0
    <3> SUFFICES ASSUME run.name = "sequential_write" PROVE run.files = 0
      OBVIOUS
    <3>1. Len(Chain.calls) = 7
      BY <2>2 DEF ChainOK
    <3>2. pc = 8 /\ active \in 0 .. MaxActive + 1
      BY <2>1, <2>3, <3>1 DEF QueueInv
    <3>3. ~ (active > 0) /\ (run.files > 0 => active > 0)
      BY <2>1, <3>2, ConstantsOK DEF QueueInv
    <3> QED
      BY <2>2, <3>3
  <2> QED
    BY <2>1, <2>4, <2>5, <2>6, <2>7 DEF QueueInv
<1> QED
  BY <1>1, InductiveCorrect, PTL

(* However hello_blob ends, it has unloaded the blobstore if it was there, *)
(* unless that failed too, and it fails exactly when the blob was open     *)
(* (unload_bs, blob.c:123).                                                *)
THEOREM HelloIsUnloaded == Spec => []HelloUnloads
<1>1. Inductive => HelloUnloads
  BY DEF Inductive, HelloInv, HelloUnloads
<1> QED
  BY <1>1, InductiveCorrect, PTL

(* What is got on an lcore is used and given back there, but for the       *)
(* exceptions OwnLcore names.                                              *)
THEOREM LcoresAreKept == Spec => []OwnLcore
<1>1. Inductive => OwnLcore
  BY DEF Inductive, SiteInv, Allowed, OwnLcore
<1> QED
  BY <1>1, InductiveCorrect, PTL

(* blobfs_write_files finds a file that exists already only if the archive *)
(* has a name twice, or an ambiguous one (escape_file_name).               *)
THEOREM NamesStayApart == Spec => []NamesKeptApart
<1>1. ASSUME Inductive PROVE NamesKeptApart
  <2> SUFFICES ASSUME rc = "EEXIST"
               PROVE  \E f \in done :
                        \/ names[f + 1] = names[file + 1]
                        \/ Ambiguous(names[f + 1]) \/ Ambiguous(names[file + 1])
    BY DEF NamesKeptApart
  <2>1. PICK f \in done :
          EscapeFileName(names[f + 1]) = EscapeFileName(names[file + 1])
    BY <1>1 DEF Inductive, NameInv, Collision
  <2>2. run \in Runs /\ LoopInv /\ names \in [1 .. run.files -> Names]
        /\ pc \in 1 .. Len(Chain.calls) + 1
    BY <1>1 DEF Inductive, NameInv, TypeOK
  <2>3. f + 1 \in 1 .. run.files /\ file + 1 \in 1 .. run.files
    <3>1. run.files > 0
      BY <2>1, <2>2, Shape DEF LoopInv
    <3>2. Chain.first \in Nat /\ Chain.last \in Nat /\ pc \in Nat /\ Len(Chain.calls) \in Nat
          /\ run.files \in Nat /\ file \in Nat
      BY <2>2, Shape DEF LoopInv
    <3>3. pc >= Chain.first
      BY <2>1, <2>2, <3>1, <3>2 DEF LoopInv
    <3>4. file < run.files /\ (done = 0 .. file - 1 \/ done = 0 .. run.files - 1)
      BY <2>2, <3>1, <3>2, <3>3 DEF LoopInv
    <3> QED
      BY <2>1, <3>2, <3>4
  <2>4. ASSUME NEW s \in Names PROVE \E n : Name(s, n)
    <3>1. PICK n \in 1 .. MaxName : s \in [1 .. n -> {"a", "/", "_"}]
      BY <2>4 DEF Names
    <3>2. {"a", "/", "_"} = Chars
      BY DEF Chars, Slash, Under
    <3>3. n \in Nat \ {0} /\ s \in [1 .. n -> Chars]
      <4>1. s \in [1 .. n -> Chars]
        BY <3>1, <3>2, Zenon
      <4> QED
        BY <4>1, ConstantsOK
    <3> QED
      BY <3>3 DEF Name
  <2>5. PICK n : Name(names[f + 1], n)
    BY <2>2, <2>3, <2>4
  <2>6. PICK m : Name(names[file + 1], m)
    BY <2>2, <2>3, <2>4
  <2> QED
    BY <2>1, <2>5, <2>6, EscapedApart
<1> QED
  BY <1>1, InductiveCorrect, PTL
===============================================================================
