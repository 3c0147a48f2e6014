---------------------------- MODULE BdevBenchmark ----------------------------
(***************************************************************************)
(* bdev_benchmark: reads or writes a number of blocks of a device with at  *)
(* most --concurrency of them in flight, then flushes if asked to, closes  *)
(* the device and stops.                                                   *)
(*                                                                         *)
(* Reads run on every lcore, writes on lcore 0 alone.  The lcores share    *)
(* three atomics and a lock-free queue of buffer indices, so a completion  *)
(* is as many actions as it has accesses to them: it pushes its index,     *)
(* counts itself down, claims the next block and pops an index for it.     *)
(* The ring of an lcore is a FIFO: clean never overtakes read_file.        *)
(***************************************************************************)
EXTENDS Integers, FiniteSets, Sequences

CONSTANTS
  Count,               \* --count
  DeviceBlocks,        \* spdk_bdev_get_num_blocks()
  NumCores,            \* rte_lcore_count()
  ConcurrencyOptions   \* the values --concurrency may be given

ASSUME ConstantsOK ==
  /\ Count \in Nat /\ DeviceBlocks \in Nat
  /\ NumCores \in Nat \ {0}
  /\ ConcurrencyOptions \subseteq Nat

Least(m, n) == IF m <= n THEN m ELSE n

(* The size of context->files. *)
NumFiles == Least(Count, DeviceBlocks)
File == 0 .. NumFiles - 1
Core == 0 .. NumCores - 1
NoCore == -1

VARIABLES
  status,              \* of the process: "running", "stopped" or "aborted"
  write, flush,        \* the options --write and --flush
  max_concurrency,     \* the option --concurrency
  desc,                \* the device: "none", "open" or "closed"
  starter, cleaner,    \* the events read_file/write_file and clean of an lcore
  at, cur,             \* where an lcore is in a handler, and with which file
  stage, lcore, buf,   \* of a file; buf is file->buffer_index
  buffer_index,        \* the queue of the indices of unused buffers
  global_left_count, head, clean_count,
  flusher, flushed     \* the lcore whose flush command is pending; it is done

optionVars == <<write, flush, max_concurrency>>
endVars    == <<desc, cleaner, clean_count, flusher, flushed>>
fileVars   == <<stage, lcore, buf>>
vars == <<status, optionVars, endVars, fileVars, starter, at, cur,
          buffer_index, global_left_count, head>>

(* context->channels holds one element per lcore that takes part. *)
Used == IF write THEN {0} ELSE Core
Cores == Cardinality(Used)

(* The blocks in flight together, and the buffers there are for them. *)
Slots == IF max_concurrency = 0 THEN NumFiles ELSE Least(max_concurrency, NumFiles)

(* "loop": between two iterations of the loop of read_file; "count": a     *)
(* completion about to count itself down; "claim": about to claim the next *)
(* file; "first" and "next": about to take a buffer and submit, called by  *)
(* the loop or after a claim.                                              *)
Place == {"idle", "loop", "first", "count", "claim", "next"}

(* The constructor of context_t makes an index for every block that may be *)
(* in flight, without regard to the size of the device, nor to --count     *)
(* when --concurrency is given.                                            *)
Indices == IF max_concurrency = 0 THEN Count ELSE max_concurrency

Init ==
  /\ status = "running"
  /\ write \in BOOLEAN /\ flush \in BOOLEAN
  /\ max_concurrency \in ConcurrencyOptions
  /\ desc = "none"
  /\ starter = [c \in Core |-> "none"] /\ cleaner = [c \in Core |-> "none"]
  /\ at = [c \in Core |-> "idle"] /\ cur = [c \in Core |-> 0]
  /\ stage = [f \in File |-> "idle"]
  /\ lcore = [f \in File |-> 0]
  /\ buf = [f \in File |-> 0]
  /\ buffer_index = IF write THEN <<>> ELSE [i \in 1 .. Indices |-> i - 1]
  /\ global_left_count = 0 /\ head = 0 /\ clean_count = 0
  /\ flusher = NoCore /\ flushed = FALSE

-------------------------------------------------------------------------------
(* Definitions named ..._Bug are not the program: each is a mistake one of *)
(* the properties at the end must notice.                                  *)

Idle(c) == status = "running" /\ at[c] = "idle"

Abort ==
  /\ status' = "aborted"
  /\ UNCHANGED <<optionVars, endVars, fileVars, starter, at, cur, buffer_index,
                 global_left_count, head>>

(* run: open the device, list the files and post an event to every lcore. *)
Run ==
  /\ Idle(0)
  /\ desc = "none"
  /\ \/ Abort
     \/ /\ desc' = "open"
        /\ global_left_count' = NumFiles
        /\ lcore' = [f \in File |-> f % Cores]
        /\ head' = Slots
        /\ starter' = [c \in Core |-> IF c \in Used THEN "posted" ELSE "none"]
        /\ UNCHANGED <<status, optionVars, cleaner, clean_count, flusher,
                       flushed, at, cur, stage, buf, buffer_index>>

(* read_file and write_file up to their loop: get a channel. *)
Start(c) ==
  /\ Idle(c)
  /\ starter[c] = "posted"
  /\ \/ Abort
     \/ /\ starter' = [starter EXCEPT ![c] = "done"]
        /\ at' = [at EXCEPT ![c] = "loop"]
        /\ cur' = [cur EXCEPT ![c] = c]
        /\ UNCHANGED <<status, optionVars, endVars, fileVars, buffer_index,
                       global_left_count, head>>

(* The head of the loop: lcore c starts every Cores-th of the first files. *)
Loop(c) ==
  /\ status = "running"
  /\ at[c] = "loop"
  /\ \/ /\ cur[c] < Slots
        /\ at' = [at EXCEPT ![c] = "first"]
        /\ stage' = [stage EXCEPT ![cur[c]] = "claimed"]
        /\ lcore' = [lcore EXCEPT ![cur[c]] = c]
     \/ /\ cur[c] >= Slots
        /\ at' = [at EXCEPT ![c] = "idle"]
        /\ UNCHANGED <<stage, lcore>>
  /\ UNCHANGED <<status, optionVars, endVars, buf, starter, cur, buffer_index,
                 global_left_count, head>>

(* The queue of free buffers: pop takes the oldest, push adds one. *)
Pop_Bug1(q) == [index |-> q[Len(q)], rest |-> SubSeq(q, 1, Len(q) - 1)]
Pop_Bug2(q) == [index |-> Head(q), rest |-> q]
Pop(q) == [index |-> Head(q), rest |-> Tail(q)]
Push_Bug(q, i) == q
Push(q, i) == Append(q, i)

(* read_file_cont and write_file_cont: a read spins until it has a buffer. *)
Submit(c) ==
  /\ status = "running"
  /\ at[c] \in {"first", "next"}
  /\ IF ~ write /\ buffer_index = <<>> THEN UNCHANGED vars
     ELSE \/ Abort
          \/ /\ IF write THEN UNCHANGED <<buf, buffer_index>>
                ELSE /\ buf' = [buf EXCEPT ![cur[c]] = Pop(buffer_index).index]
                     /\ buffer_index' = Pop(buffer_index).rest
             /\ stage' = [stage EXCEPT ![cur[c]] = "submitted"]
             /\ IF at[c] = "first"
                THEN /\ at' = [at EXCEPT ![c] = "loop"]
                     /\ cur' = [cur EXCEPT ![c] = @ + Cores]
                ELSE /\ at' = [at EXCEPT ![c] = "idle"]
                     /\ UNCHANGED cur
             /\ UNCHANGED <<status, optionVars, endVars, lcore, starter,
                            global_left_count, head>>

(* The completion of file f, up to the push of its buffer index, which     *)
(* comes before the test of success.                                       *)
Complete(f) ==
  LET c == lcore[f] IN
  /\ stage[f] = "submitted"
  /\ Idle(c)
  /\ buffer_index' = IF write THEN buffer_index ELSE Push(buffer_index, buf[f])
  /\ \/ /\ status' = "aborted"
        /\ UNCHANGED <<stage, at, cur>>
     \/ /\ stage' = [stage EXCEPT ![f] = "done"]
        /\ at' = [at EXCEPT ![c] = "count"]
        /\ cur' = [cur EXCEPT ![c] = f]
        /\ UNCHANGED status
  /\ UNCHANGED <<optionVars, endVars, lcore, buf, starter, global_left_count, head>>

(* close: post clean to every lcore that takes part. *)
Close == cleaner' = [c \in Core |-> IF c \in Used THEN "posted" ELSE "none"]

LastFile_Bug(n) == n = 1
LastFile(n) == n = 0

(* read_flush and write_flush: the last file of all flushes or closes, any *)
(* other goes on to claim the next.                                        *)
CountDown(c) ==
  /\ status = "running"
  /\ at[c] = "count"
  /\ global_left_count' = global_left_count - 1
  /\ \/ /\ ~ LastFile(global_left_count - 1)
        /\ at' = [at EXCEPT ![c] = "claim"]
        /\ UNCHANGED <<status, flusher, cleaner>>
     \/ /\ LastFile(global_left_count - 1)
        /\ at' = [at EXCEPT ![c] = "idle"]
        /\ IF flush
           THEN /\ \/ flusher' = c /\ UNCHANGED status
                   \/ status' = "aborted" /\ UNCHANGED flusher
                /\ UNCHANGED cleaner
           ELSE Close /\ UNCHANGED <<status, flusher>>
  /\ UNCHANGED <<optionVars, desc, clean_count, flushed, fileVars, starter, cur,
                 buffer_index, head>>

(* The rest of it: ++head, and the file it names if there is one. *)
Claimed == head
Claim(c) ==
  /\ status = "running"
  /\ at[c] = "claim"
  /\ head' = head + 1
  /\ IF Claimed \in File
     THEN /\ at' = [at EXCEPT ![c] = "next"]
          /\ cur' = [cur EXCEPT ![c] = Claimed]
          /\ stage' = [stage EXCEPT ![Claimed] = "claimed"]
          /\ lcore' = [lcore EXCEPT ![Claimed] = c]
     ELSE /\ at' = [at EXCEPT ![c] = "idle"]
          /\ UNCHANGED <<cur, stage, lcore>>
  /\ UNCHANGED <<status, optionVars, endVars, buf, starter, buffer_index,
                 global_left_count>>

(* The flush completes on the lcore that submitted it: close. *)
Flushed(c) ==
  /\ Idle(c)
  /\ flusher = c
  /\ \/ Abort
     \/ /\ flusher' = NoCore
        /\ flushed' = TRUE
        /\ Close
        /\ UNCHANGED <<status, optionVars, desc, clean_count, fileVars, starter,
                       at, cur, buffer_index, global_left_count, head>>

LastClean_Bug(n) == n = 1
LastClean(n) == n = Cores

(* clean: free the channel; the last lcore closes the device and stops. *)
Clean(c) ==
  /\ Idle(c)
  /\ starter[c] = "done" /\ cleaner[c] = "posted"
  /\ cleaner' = [cleaner EXCEPT ![c] = "done"]
  /\ clean_count' = clean_count + 1
  /\ IF LastClean(clean_count + 1)
     THEN desc' = "closed" /\ status' = "stopped"
     ELSE UNCHANGED <<desc, status>>
  /\ UNCHANGED <<optionVars, flusher, flushed, fileVars, starter, at, cur, buffer_index,
                 global_left_count, head>>

Ended == status # "running" /\ UNCHANGED vars

Next ==
  \/ Run
  \/ \E c \in Core : \/ Start(c) \/ Loop(c) \/ Submit(c) \/ CountDown(c)
                     \/ Claim(c) \/ Flushed(c) \/ Clean(c)
  \/ \E f \in File : Complete(f)
  \/ Ended

(* Every lcore runs and the device answers.  Spinning on the queue is no   *)
(* step: whoever has the buffer is.                                        *)
Spec == Init /\ [][Next]_vars /\ WF_vars(Next)
-------------------------------------------------------------------------------
(* Type correctness of the members of context_t and file_t modelled; the   *)
(* queue never holds more indices than the capacity it was built with.     *)
TypeOK ==
  /\ status \in {"running", "stopped", "aborted"}
  /\ write \in BOOLEAN /\ flush \in BOOLEAN /\ flushed \in BOOLEAN
  /\ max_concurrency \in Nat
  /\ desc \in {"none", "open", "closed"}
  /\ starter \in [Core -> {"none", "posted", "done"}]
  /\ cleaner \in [Core -> {"none", "posted", "done"}]
  /\ at \in [Core -> Place] /\ cur \in [Core -> Nat]
  /\ stage \in [File -> {"idle", "claimed", "submitted", "done"}]
  /\ lcore \in [File -> Core] /\ buf \in [File -> Nat]
  /\ buffer_index \in Seq(Nat) /\ Len(buffer_index) <= Indices
  /\ global_left_count \in Nat /\ head \in Nat /\ clean_count \in Nat
  /\ flusher \in Core \cup {NoCore}

At(s) == {f \in File : stage[f] = s}
Started == \A c \in Used : starter[c] = "done" /\ at[c] \notin {"loop", "first"}

(* The state is well typed, and no read is given memory past the end of    *)
(* the buffer, although the queue may hold more indices than the buffer    *)
(* has room for: the indices leave the queue in order, and there are no    *)
(* more reads than room when there are more indices.                       *)
BufferInBounds ==
  /\ TypeOK
  /\ ~ write => \A f \in At("submitted") : buf[f] < Slots

(* Two reads in flight never share a buffer, whichever lcores took them,   *)
(* and the buffer of a read in flight is not in the queue.                 *)
BuffersDistinct ==
  ~ write /\ status = "running" => \A f \in At("submitted") :
    /\ \A g \in At("submitted") \ {f} : buf[g] # buf[f]
    /\ \A i \in DOMAIN buffer_index : buffer_index[i] # buf[f]

(* read_file_cont never spins: every lcore that is about to pop an index   *)
(* will find one, whatever the others take in the meantime.                *)
PopNeverWaits ==
  ~ write => Cardinality({c \in Core : at[c] \in {"first", "next"}}) <= Len(buffer_index)

(* global_left_count reaches zero when every file has been transferred;     *)
(* only then is the device flushed, and after that are the lcores cleaned. *)
(* No command is pending on a channel that is freed or not there yet, and  *)
(* the device they share is closed last of all.                            *)
ShutdownInOrder ==
  /\ flusher # NoCore \/ flushed => At("done") = File
  /\ \A c \in Core : cleaner[c] # "none" => At("done") = File /\ (flushed <=> flush)
  /\ \A f \in At("submitted") : starter[lcore[f]] = "done" /\ cleaner[lcore[f]] = "none"
  /\ flusher # NoCore => cleaner[flusher] = "none"
  /\ desc = "closed" => \A c \in Used : cleaner[c] = "done" /\ at[c] = "idle"

(* What they rest on.  Before run nothing happens, and what happens then   *)
(* happens on lcores that have a channel; files behind head are idle.      *)
RunInv ==
  /\ desc = "none" => /\ \A c \in Core : starter[c] = "none"
                      /\ \A f \in File : stage[f] = "idle"
  /\ desc # "none" => head >= Slots /\ \A f \in File : f >= head => stage[f] = "idle"
  /\ \A c \in Core : starter[c] # "none" => c \in Used
  /\ \A c \in Core : at[c] # "idle" => starter[c] = "done"
  /\ \A f \in At("claimed") \cup At("submitted") : starter[lcore[f]] = "done"

(* The first Slots files are dealt to the lcores in turn, and the ones an  *)
(* lcore has yet to start are idle.                                        *)
LoopInv ==
  /\ \A c \in Core : at[c] \in {"loop", "first"} => cur[c] % Cores = c
  /\ \A c \in Core, f \in File : f < Slots /\ f % Cores = c =>
       /\ starter[c] = "posted" => stage[f] = "idle"
       /\ at[c] = "loop" /\ cur[c] <= f => stage[f] = "idle"
       /\ at[c] = "first" /\ cur[c] < f => stage[f] = "idle"

(* An lcore about to pop has a claimed file of its own. *)
Popping == {c \in Core : at[c] \in {"first", "next"}}
PopInv ==
  /\ \A c \in Popping : cur[c] \in At("claimed")
  /\ \A c, d \in Popping : cur[c] = cur[d] => c = d

(* A file that is claimed, at the device or on its way to the next claim   *)
(* has one of Slots places, as has each of the first that is not started.  *)
(* global_left_count lacks the files that are counted.                     *)
Counting == {c \in Core : at[c] = "count"}
Claiming == {c \in Core : at[c] = "claim"}
Unstarted == {f \in File : f < Slots /\ stage[f] = "idle"}
CountInv ==
  /\ Cardinality(Popping) = Cardinality(At("claimed"))
  /\ Cardinality(At("claimed")) + Cardinality(At("submitted")) + Cardinality(Counting)
       + Cardinality(Claiming) + Cardinality(Unstarted) <= Slots
  /\ desc # "none" =>
       global_left_count + Cardinality(At("done")) = NumFiles + Cardinality(Counting)

(* An index is in the queue or with a read in flight, until the process is *)
(* aborted.  The first to leave the queue are those it was built with, in  *)
(* their order.                                                            *)
Popped == Cardinality(At("submitted")) + Cardinality(At("done"))
QueueInv ==
  ~ write =>
    /\ Len(buffer_index) + Cardinality(At("submitted")) >= Indices
    /\ \A k \in DOMAIN buffer_index : buffer_index[k] < Indices
    /\ status = "running" =>
         /\ Len(buffer_index) + Cardinality(At("submitted")) = Indices
         /\ \A j, k \in DOMAIN buffer_index : buffer_index[j] = buffer_index[k] => j = k
         /\ \A k \in DOMAIN buffer_index :
              k + Popped <= Indices => buffer_index[k] = k - 1 + Popped

(* The last file is followed by the flush, if there is one, that by the    *)
(* clean events, and the last of these by the end.                         *)
Cleaned == {c \in Core : cleaner[c] = "done"}
Over == flusher # NoCore \/ flushed \/ \E c \in Core : cleaner[c] # "none"
EndInv ==
  /\ Over => desc # "none" /\ global_left_count = 0
  /\ clean_count = Cardinality(Cleaned)
  /\ flushed => flush /\ flusher = NoCore
  /\ flusher # NoCore => flush /\ \A c \in Core : cleaner[c] = "none"
  /\ \A c \in Core : cleaner[c] # "none" => (flushed <=> flush) /\ c \in Used
  /\ \A c \in Cleaned : at[c] = "idle" /\ starter[c] = "done"
  /\ desc = "closed" => Cleaned = Used /\ status # "running"

(* The inductive invariant. *)
Inductive ==
  /\ BufferInBounds /\ BuffersDistinct
  /\ RunInv /\ LoopInv /\ PopInv /\ CountInv /\ QueueInv /\ EndInv

(* The program ends: with a file to transfer, some completion is the last. *)
Termination == NumFiles > 0 => <>(status # "running")

(* The blocks are the items of Transfer. *)
Outcome ==
  CASE status = "running" -> "running"
    [] status = "stopped" -> "reported"
    [] OTHER -> "failed"
T == INSTANCE Transfer WITH
       items <- File, limit <- Slots, active <- At("claimed") \cup At("submitted"),
       done <- At("done"), outcome <- Outcome
TransferSpec == T!Spec
===============================================================================
