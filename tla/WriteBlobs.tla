------------------------------ MODULE WriteBlobs ------------------------------
(***************************************************************************)
(* bdev_write_blobs: copies every regular file of a tar archive into a     *)
(* blob of its own, as a pipeline of SPDK events and completion callbacks. *)
(*                                                                         *)
(* Each lcore has a reactor: it takes one event or completion after the    *)
(* other and runs its handler to the end.  A handler is one action.  The   *)
(* state of a file says which of its events or device operations is        *)
(* pending, so the order of a ring is dropped: every order the rings can   *)
(* deliver is a behaviour of the model.  Blob metadata operations (create, *)
(* open, resize, close) are issued and completed on lcore 0, where the     *)
(* store was created; a write is issued and completed on file->lcore.      *)
(* Since every access to meta_count is therefore made on lcore 0, the      *)
(* compare_exchange_strong in create_file and close_file finds the value   *)
(* loaded one line above it and the retry after it is never taken.         *)
(***************************************************************************)
EXTENDS Integers, FiniteSets

CONSTANTS
  NumFiles,            \* regular files of non-zero size in the archive
  NumCores,            \* rte_lcore_count()
  ConcurrencyOptions,  \* the values --concurrency may be given
  MaxMeta,             \* max_meta_concurrency, 32 in main()
  WordSize             \* 2^64: a size_t counts modulo WordSize

ASSUME ConstantsOK ==
  /\ NumFiles \in Nat
  /\ NumCores \in Nat \ {0}
  /\ ConcurrencyOptions \subseteq Nat
  /\ MaxMeta \in Nat
  /\ WordSize \in Nat /\ WordSize > MaxMeta

File == 0 .. NumFiles - 1
Core == 0 .. NumCores - 1
MetaCore == 0          \* the lcore that runs init_storage and all metadata

VARIABLES
  status,              \* of the process: see Status
  bs,                  \* the blobstore and its bring-up and unload
  channel,             \* context->channels, with the events that fill them
  null,                \* lcores whose channel could not be allocated
  start,               \* the event that starts the first files
  stage,               \* where a file is in the pipeline
  lcore,               \* file->lcore
  results,             \* how often a file's time is in context->results
  max_concurrency, head, meta_count, completed_count,
  channel_count, clean_count

storeVars == <<bs, channel, null, start, channel_count, clean_count>>
fileVars  == <<stage, lcore, results>>
countVars == <<max_concurrency, head, meta_count, completed_count>>
vars      == <<status, storeVars, fileVars, countVars>>

(* "aborted": ABORT or an uncaught exception ended the process.            *)
(* "undefined": an element past the end of context->files, a null channel  *)
(* or buffer, or an archive that is not mapped was used.                   *)
Status == {"running", "stopped", "aborted", "undefined"}
StoreState == {"none", "initializing", "ready", "unload", "unloading", "unloaded"}
ChannelState == {"none", "requested", "made", "releasing", "released"}

(* "create", "write" and "close" are events waiting in a ring; "creating", *)
(* "opening", "resizing", "writing" and "closing" are operations the       *)
(* device has not completed.                                               *)
Stage == {"idle", "create", "creating", "opening", "resizing",
          "write", "writing", "close", "closing", "closed"}

Init ==
  /\ status = "running"
  /\ bs = "none"
  /\ channel = [c \in Core |-> "none"]
  /\ null = {}
  /\ start = "none"
  /\ stage = [f \in File |-> "idle"]
  /\ lcore = [f \in File |-> 0]
  /\ results = [f \in File |-> 0]
  /\ max_concurrency \in ConcurrencyOptions
  /\ head = 0
  /\ meta_count = 0
  /\ completed_count = 0
  /\ channel_count = 0
  /\ clean_count = 0

-------------------------------------------------------------------------------
(* ABORT: stop the framework and throw out of a callback nobody catches. *)
Abort ==
  /\ status' = "aborted"
  /\ UNCHANGED <<storeVars, fileVars, countVars>>

(* A pointer to nothing, or past the end, is used. *)
Undefined ==
  /\ status' = "undefined"
  /\ UNCHANGED <<storeVars, fileVars, countVars>>

(* Lcore c has a channel: it was asked for, was not null, was not given back. *)
HasChannel(c) == channel[c] = "made" /\ c \notin null

(* Definitions named ..._Bug are not the program: each is a mistake one of *)
(* the properties at the end must notice.                                  *)

(* The entry of create_file and close_file, k times over: the counter is   *)
(* raised while it is below the limit, and the operation goes ahead        *)
(* whether it was raised or not.                                           *)
AcquireMeta_Bug(n, k) == n + 2 * k
AcquireMeta(n, k) ==
  IF n >= MaxMeta THEN n
  ELSE IF n + k <= MaxMeta THEN n + k ELSE MaxMeta

(* --meta_count, a size_t. *)
ReleaseMeta(n) == IF n = 0 THEN WordSize - 1 ELSE n - 1

(* The tests that make the last of n contributors go on alone. *)
LastChannel_Bug(n) == n = 1
LastChannel(n) == n = NumCores
LastFile_Bug(n) == n = NumFiles - 1
LastFile(n) == n = NumFiles

(* init_storage: look the device up and start initializing a blobstore. *)
InitStorage ==
  /\ status = "running"
  /\ bs = "none"
  /\ \/ Abort
     \/ /\ bs' = "initializing"
        /\ UNCHANGED <<status, channel, null, start, channel_count, clean_count,
                       fileVars, countVars>>

(* The callback of spdk_bs_init loads the archive, lists its files and     *)
(* asks every lcore for a channel.  An unreadable archive also ends here.  *)
(* Whether the archive was mapped and the buffer allocated is not looked   *)
(* at before the one is copied to the other and parsed.                    *)
StorageReady ==
  /\ status = "running"
  /\ bs = "initializing"
  /\ \/ Abort
     \/ Undefined
     \/ /\ bs' = "ready"
        /\ channel' = [c \in Core |-> "requested"]
        /\ UNCHANGED <<status, null, start, channel_count, clean_count, fileVars,
                       countVars>>

(* Lcore c allocates its channel; the last one posts the start event.  An  *)
(* allocation that failed leaves a null channel and is counted as well.    *)
CreateChannel(c) ==
  /\ status = "running"
  /\ channel[c] = "requested"
  /\ channel' = [channel EXCEPT ![c] = "made"]
  /\ null' \in {null, null \cup {c}}
  /\ channel_count' = channel_count + 1
  /\ start' = IF LastChannel(channel_count + 1) THEN "posted" ELSE start
  /\ UNCHANGED <<status, bs, clean_count, fileVars, countVars>>

Limit == IF max_concurrency = 0 THEN NumFiles ELSE max_concurrency

(* The start event calls create_file for the first max_concurrency         *)
(* elements of files, whether or not there are so many.                    *)
StartFiles ==
  /\ status = "running"
  /\ start = "posted"
  /\ IF Limit > NumFiles
     THEN Undefined
     ELSE /\ start' = "done"
          /\ max_concurrency' = Limit
          /\ head' = Limit
          /\ stage' = [f \in File |-> IF f < Limit THEN "creating" ELSE stage[f]]
          /\ meta_count' = AcquireMeta(meta_count, Limit)
          /\ UNCHANGED <<status, bs, channel, null, channel_count, clean_count,
                         lcore, results, completed_count>>

-------------------------------------------------------------------------------
CreateFile_Bug(f) ==            \* waits for a place, as in bdev_read_blobs
  /\ status = "running"
  /\ stage[f] = "create"
  /\ stage' = [stage EXCEPT ![f] = IF meta_count < MaxMeta THEN "creating" ELSE @]
  /\ meta_count' = AcquireMeta(meta_count, 1)
  /\ UNCHANGED <<status, storeVars, lcore, results, max_concurrency, head,
                 completed_count>>
CreateFile(f) ==
  /\ status = "running"
  /\ stage[f] = "create"
  /\ stage' = [stage EXCEPT ![f] = "creating"]
  /\ meta_count' = AcquireMeta(meta_count, 1)
  /\ UNCHANGED <<status, storeVars, lcore, results, max_concurrency, head,
                 completed_count>>

(* The device completes the operation file f waits for at stage "from".    *)
(* The callback aborts on an error and goes on to stage "to" otherwise.    *)
Completes(f, from, to) ==
  /\ status = "running"
  /\ stage[f] = from
  /\ \/ Abort
     \/ /\ stage' = [stage EXCEPT ![f] = to]
        /\ UNCHANGED <<status, storeVars, lcore, results, countVars>>

(* The blob exists: open it.  The blob is open: resize it. *)
BlobCreated(f) == Completes(f, "creating", "opening")
BlobOpened(f) == Completes(f, "opening", "resizing")

(* Unlike its siblings this callback gives its place up before it looks    *)
(* at bserrno.                                                             *)
BlobResized(f) ==
  /\ status = "running"
  /\ stage[f] = "resizing"
  /\ meta_count' = ReleaseMeta(meta_count)
  /\ \/ /\ status' = "aborted"
        /\ UNCHANGED stage
     \/ /\ stage' = [stage EXCEPT ![f] = "write"]
        /\ UNCHANGED status
  /\ UNCHANGED <<storeVars, lcore, results, max_concurrency, head,
                 completed_count>>

(* write_file runs on the lcore its event was allocated for, file->lcore,  *)
(* and submits to that lcore's channel, whatever the pointer holds.        *)
WriteFile(f) ==
  /\ status = "running"
  /\ stage[f] = "write"
  /\ \/ ~ HasChannel(lcore[f]) /\ Undefined
     \/ /\ HasChannel(lcore[f])
        /\ stage' = [stage EXCEPT ![f] = "writing"]
        /\ UNCHANGED <<status, storeVars, lcore, results, countVars>>

(* The write is complete: record its time, post the close to lcore 0. *)
BlobWritten(f) ==
  /\ status = "running"
  /\ stage[f] = "writing"
  /\ \/ Abort
     \/ /\ results' = [results EXCEPT ![f] = @ + 1]
        /\ stage' = [stage EXCEPT ![f] = "close"]
        /\ UNCHANGED <<status, storeVars, lcore, countVars>>

CloseFile(f) ==
  /\ status = "running"
  /\ stage[f] = "close"
  /\ stage' = [stage EXCEPT ![f] = "closing"]
  /\ meta_count' = AcquireMeta(meta_count, 1)
  /\ UNCHANGED <<status, storeVars, lcore, results, max_concurrency, head,
                 completed_count>>

(* close_storage: ask every lcore to give its channel back. *)
CloseStorage == channel' = [c \in Core |-> "releasing"]

(* The element the callback of spdk_blob_close claims: next - 1, where     *)
(* next is the value ++head has returned.                                  *)
Claimed_Bug == head + 1
Claimed == head

(* The blob is closed.  The last one closes the storage, every other one   *)
(* claims the next file, if one is left, and posts its create event.       *)
BlobClosed(f) ==
  /\ status = "running"
  /\ stage[f] = "closing"
  /\ \/ Abort
     \/ /\ meta_count' = ReleaseMeta(meta_count)
        /\ completed_count' = completed_count + 1
        /\ \/ /\ LastFile(completed_count + 1)
              /\ stage' = [stage EXCEPT ![f] = "closed"]
              /\ CloseStorage
              /\ UNCHANGED <<lcore, head>>
           \/ /\ ~ LastFile(completed_count + 1)
              /\ head' = head + 1
              /\ stage' = [g \in File |-> IF g = f THEN "closed"
                                          ELSE IF g = Claimed THEN "create"
                                          ELSE stage[g]]
              /\ lcore' = [g \in File |-> IF g = Claimed THEN MetaCore ELSE lcore[g]]
              /\ UNCHANGED channel
        /\ UNCHANGED <<status, bs, null, start, channel_count, clean_count, results,
                       max_concurrency>>

-------------------------------------------------------------------------------
(* Lcore c frees its channel, a null one too: the deleter runs for every    *)
(* pointer it was given.  The last one posts the unload to lcore 0.         *)
ReleaseChannel(c) ==
  /\ status = "running"
  /\ channel[c] = "releasing"
  /\ \/ c \in null /\ Undefined
     \/ /\ c \notin null
        /\ channel' = [channel EXCEPT ![c] = "released"]
        /\ clean_count' = clean_count + 1
        /\ bs' = IF LastChannel(clean_count + 1) THEN "unload" ELSE bs
        /\ UNCHANGED <<status, null, start, channel_count, fileVars, countVars>>

UnloadStore ==
  /\ status = "running"
  /\ bs = "unload"
  /\ bs' = "unloading"
  /\ UNCHANGED <<status, channel, null, start, channel_count, clean_count, fileVars,
                 countVars>>

(* The store is unloaded: free the buffer, print the results and stop. *)
StoreUnloaded ==
  /\ status = "running"
  /\ bs = "unloading"
  /\ \/ Abort
     \/ /\ bs' = "unloaded"
        /\ status' = "stopped"
        /\ UNCHANGED <<channel, null, start, channel_count, clean_count, fileVars,
                       countVars>>

(* The process has ended. *)
Ended == status # "running" /\ UNCHANGED vars

Next ==
  \/ InitStorage \/ StorageReady \/ StartFiles
  \/ \E c \in Core : CreateChannel(c) \/ ReleaseChannel(c)
  \/ \E f \in File :
       \/ CreateFile(f) \/ BlobCreated(f) \/ BlobOpened(f) \/ BlobResized(f)
       \/ WriteFile(f) \/ BlobWritten(f)
       \/ CloseFile(f) \/ BlobClosed(f)
  \/ UnloadStore \/ StoreUnloaded
  \/ Ended

(* Reactors poll for as long as the framework runs and the device answers  *)
(* every operation, with success or an error.                              *)
Fairness == WF_vars(Next)

Spec == Init /\ [][Next]_vars /\ Fairness
-------------------------------------------------------------------------------
(* Type correctness of every variable of context_t and file_t modelled. *)
TypeOK ==
  /\ status \in Status
  /\ bs \in StoreState
  /\ channel \in [Core -> ChannelState]
  /\ null \subseteq Core
  /\ start \in {"none", "posted", "done"}
  /\ stage \in [File -> Stage]
  /\ lcore \in [File -> Core]
  /\ results \in [File -> Nat]
  /\ max_concurrency \in Nat
  /\ head \in Nat
  /\ meta_count \in 0 .. WordSize - 1
  /\ completed_count \in Nat
  /\ channel_count \in Nat
  /\ clean_count \in Nat

Closed == {f \in File : stage[f] = "closed"}
InFlight == {f \in File : stage[f] \notin {"idle", "closed"}}
Metadata == {f \in File : stage[f] \in {"creating", "opening", "resizing", "closing"}}

(* --concurrency bounds the files between create and close, and as long as *)
(* a file waits to be claimed the pipeline is filled up to that bound: the *)
(* callback of spdk_blob_close neither loses a place nor makes one.        *)
PipelineFull ==
  start = "done" =>
    /\ Cardinality(InFlight) <= max_concurrency
    /\ (\E f \in File : stage[f] = "idle") => Cardinality(InFlight) = max_concurrency

(* head splits files into the claimed ones and the idle ones, so ++head    *)
(* never hands out a file that was claimed before.                         *)
ClaimedInOrder ==
  start = "done" => \A f \in File : (f < head) <=> (stage[f] # "idle")

(* Every completed write is in context->results once, whatever the order   *)
(* in which writes and closes of different files complete.                 *)
ResultsExact ==
  \A f \in File :
    results[f] = IF stage[f] \in {"close", "closing", "closed"} THEN 1 ELSE 0

(* A file is to be written to a null channel, or one is to be freed. *)
AtNull ==
  \/ \E f \in File : stage[f] = "write" /\ lcore[f] \in null
  \/ \E c \in null : channel[c] = "releasing"

(* The event of its lcore has run before a file is to be written, and the  *)
(* channel a write is pending on is not given back before it completes.    *)
(* What write_file and close_storage use unseen is there unless an         *)
(* allocation failed: every use of a null pointer is one of a channel      *)
(* spdk_bs_alloc_io_channel did not return, of the buffer or mapping of    *)
(* init_storage, or of a file past the end of an archive --concurrency is  *)
(* too large for.                                                          *)
IoOnOpenChannel ==
  /\ \A f \in File :
       /\ stage[f] \in {"write", "writing"} => channel[lcore[f]] = "made"
       /\ stage[f] = "writing" => HasChannel(lcore[f])
  /\ status = "undefined" =>
       AtNull \/ bs = "initializing" \/ Limit > NumFiles

(* The store is unloaded after every blob is closed and every lcore has    *)
(* given its channel back: spdk_bs_unload fails with -EBUSY otherwise.     *)
CleanShutdown ==
  /\ bs \in {"unload", "unloading", "unloaded"} =>
       \A c \in Core : channel[c] = "released"
  /\ (\E c \in Core : channel[c] \in {"releasing", "released"}) => Closed = File

(* As long as no more files are in flight than max_meta_concurrency allows *)
(* metadata operations, meta_count is exactly their number; it never wraps *)
(* below zero.                                                             *)
MetaCountExact ==
  (status # "aborted" /\ Limit <= MaxMeta) => meta_count = Cardinality(Metadata)

(* The facts PipelineFull, IoOnOpenChannel and CleanShutdown rest on.  The  *)
(* two counters of the lcores count what their names say, and a channel is *)
(* given back only when every file is closed.                              *)
Opened == {c \in Core : channel[c] \in {"made", "releasing", "released"}}
Released == {c \in Core : channel[c] = "released"}
ChannelInv ==
  /\ channel_count = Cardinality(Opened)
  /\ clean_count = Cardinality(Released)
  /\ bs \in {"none", "initializing"} =>
       start = "none" /\ \A c \in Core : channel[c] = "none"
  /\ start # "none" => Opened = Core
  /\ null \subseteq Opened
  /\ \A c \in Core : channel[c] \in {"releasing", "released"} =>
       start = "done" /\ Closed = File

(* Nothing happens to a file before the start event; after it, head has    *)
(* moved on by one for every file closed.                                  *)
ClaimInv ==
  /\ completed_count = Cardinality(Closed)
  /\ start # "done" => \A f \in File : stage[f] = "idle"
  /\ start = "done" =>
       /\ max_concurrency <= NumFiles
       /\ Closed # File => head = max_concurrency + completed_count

(* The inductive invariant. *)
Inductive ==
  /\ TypeOK
  /\ ChannelInv
  /\ ClaimInv
  /\ ClaimedInOrder
  /\ CleanShutdown

(* max_meta_concurrency bounds the metadata operations in flight: what the *)
(* member's name and the comparison in create_file and close_file claim.   *)
MetaBound == Cardinality(Metadata) <= MaxMeta

(* The program ends: no event is lost, no file is left unclaimed and no    *)
(* lcore waits for another one's channel.  An archive without files is     *)
(* excluded: nothing then calls close_storage.                             *)
Termination == NumFiles > 0 => <>(status # "running")

(* The pipeline implements Transfer: create, open, resize, write and close *)
(* are one transfer, and the place of a closed file goes to the next one.  *)
Outcome ==
  CASE status = "running" -> "running"
    [] status = "stopped" -> "reported"
    [] OTHER -> "failed"
T == INSTANCE Transfer WITH
       items <- File, limit <- Limit, active <- InFlight, done <- Closed,
       outcome <- Outcome
TransferSpec == T!Spec
===============================================================================
