------------------------------- MODULE ReadBlobs -------------------------------
(***************************************************************************)
(* bdev_read_blobs: lists the blobs of a store and reads each of them once *)
(* into its part of one buffer, as a pipeline of SPDK events.              *)
(*                                                                         *)
(* A handler runs to its end on the lcore that took it from its ring, and  *)
(* is one action unless it uses an atomic another lcore may change between *)
(* two of its accesses: read_blob loads reading_count and replaces it, and *)
(* is split in two.  Blobs are opened and closed on lcore 0; a read is     *)
(* submitted by the lcore the read_blob event was posted to, and completes *)
(* on the lcore of the channel it was given, that of blob->lcore.          *)
(***************************************************************************)
EXTENDS Integers, FiniteSets

CONSTANTS
  StoreSizes,          \* how many blobs a store may hold
  NumCores,            \* rte_lcore_count()
  ConcurrencyOptions,  \* the values --concurrency may be given
  MaxMeta              \* the 32u of open_blob and close_blob

ASSUME ConstantsOK ==
  /\ StoreSizes \subseteq Nat
  /\ NumCores \in Nat \ {0}
  /\ ConcurrencyOptions \subseteq Nat
  /\ MaxMeta \in Nat \ {0}

Core == 0 .. NumCores - 1
NoBlob == -1

VARIABLES
  stored,              \* how many blobs the store holds
  status,              \* of the process
  bs,                  \* the blobstore, from spdk_bs_load to spdk_bs_unload
  channel,             \* context->channels, with the events that fill them
  null,                \* lcores whose channel could not be allocated
  channel_count, loaded_count,
  stage,               \* where a blob is in the pipeline
  lcore,               \* blob->lcore
  site,                \* the lcore the last read_blob event was posted to
  running,             \* the blob whose read_blob an lcore is in the middle of
  active,              \* the local variable "active" of that read_blob
  results,             \* how often a blob's time is in context->results
  max_concurrency, head, opening_count, closing_count, reading_count,
  completed_count

storeVars == <<bs, channel, null, channel_count, loaded_count>>
readVars  == <<site, running, active, reading_count>>
claimVars == <<lcore, max_concurrency, head, completed_count>>
metaVars  == <<opening_count, closing_count>>
vars == <<stored, status, storeVars, stage, results, readVars, claimVars, metaVars>>

Blob == 0 .. stored - 1

(* "undefined": an element past the end of context->blobs, or a null       *)
(* channel, was used.                                                      *)
Status == {"running", "stopped", "aborted", "undefined"}
StoreState == {"none", "loading", "channels", "listing", "ready", "close",
               "unloading", "unloaded"}
ChannelState == {"none", "requested", "made", "released"}

(* "open", "read" and "close" are events waiting in a ring; "opening",     *)
(* "reading" and "closing" are operations the device has not completed.    *)
Stage == {"unlisted", "idle", "open", "opening", "read", "reading", "close",
          "closing", "closed"}

Init ==
  /\ stored \in StoreSizes
  /\ status = "running"
  /\ bs = "none"
  /\ channel = [c \in Core |-> "none"]
  /\ null = {}
  /\ channel_count = 0 /\ loaded_count = 0
  /\ stage = [b \in Blob |-> "unlisted"]
  /\ lcore = [b \in Blob |-> 0]
  /\ site = [b \in Blob |-> 0]
  /\ running = [c \in Core |-> NoBlob]
  /\ active = [c \in Core |-> 0]
  /\ results = [b \in Blob |-> 0]
  /\ max_concurrency \in ConcurrencyOptions
  /\ head = 0 /\ completed_count = 0 /\ reading_count = 0
  /\ opening_count = 0 /\ closing_count = 0

-------------------------------------------------------------------------------
(* Definitions named ..._Bug are not the program: each is a mistake one of *)
(* the properties at the end must notice.                                  *)

(* Lcore c can take its next event or completion. *)
Free(c) == status = "running" /\ running[c] = NoBlob

Abort ==
  /\ status' = "aborted"
  /\ UNCHANGED <<storeVars, stage, results, readVars, claimVars, metaVars>>

(* A pointer to nothing, or past the end, is used. *)
Undefined ==
  /\ status' = "undefined"
  /\ UNCHANGED <<storeVars, stage, results, readVars, claimVars, metaVars>>

(* load_storage: look the device up and load its blobstore. *)
LoadStorage ==
  /\ Free(0)
  /\ bs = "none"
  /\ \/ Abort
     \/ /\ bs' = "loading"
        /\ UNCHANGED <<status, channel, null, channel_count, loaded_count, stage,
                       results, readVars, claimVars, metaVars>>

(* The callback of spdk_bs_load asks every lcore for a channel. *)
StorageLoaded ==
  /\ Free(0)
  /\ bs = "loading"
  /\ \/ Abort
     \/ /\ bs' = "channels"
        /\ channel' = [c \in Core |-> "requested"]
        /\ UNCHANGED <<status, null, channel_count, loaded_count, stage, results,
                       readVars, claimVars, metaVars>>

LastChannel_Bug(n) == n = 1
LastChannel(n) == n = NumCores

(* Lcore c allocates its channel; the last one starts the iteration.  An   *)
(* allocation that failed leaves a null channel and is counted as well.    *)
CreateChannel(c) ==
  /\ Free(c)
  /\ channel[c] = "requested"
  /\ channel' = [channel EXCEPT ![c] = "made"]
  /\ null' \in {null, null \cup {c}}
  /\ channel_count' = channel_count + 1
  /\ bs' = IF LastChannel(channel_count + 1) THEN "listing" ELSE bs
  /\ UNCHANGED <<status, loaded_count, stage, results, readVars, claimVars,
                 metaVars>>

(* load_blobs for one more blob: append it and go on.  The lcores share    *)
(* the blobs in turn.                                                      *)
ListBlob(b) ==
  /\ Free(0)
  /\ bs = "listing"
  /\ b = loaded_count
  /\ loaded_count' = loaded_count + 1
  /\ stage' = [stage EXCEPT ![b] = "idle"]
  /\ lcore' = [lcore EXCEPT ![b] = b % NumCores]
  /\ UNCHANGED <<status, bs, channel, null, channel_count, results, readVars,
                 max_concurrency, head, completed_count, metaVars>>

Limit == IF max_concurrency = 0 THEN stored ELSE max_concurrency

(* load_blobs at -ENOENT: all blobs are listed.  Allocate the buffer and   *)
(* post an open_blob for the first max_concurrency elements of blobs,      *)
(* whether or not there are so many; with no blob at all post              *)
(* close_storage.  Any other error, and a failed allocation, abort.        *)
StartBlobs ==
  /\ Free(0)
  /\ bs = "listing"
  /\ \/ Abort
     \/ /\ loaded_count = stored
        /\ Limit > stored
        /\ Undefined
     \/ /\ loaded_count = stored
        /\ Limit <= stored
        /\ bs' = IF stored = 0 THEN "close" ELSE "ready"
        /\ max_concurrency' = Limit
        /\ head' = Limit
        /\ stage' = [b \in Blob |-> IF b < Limit THEN "open" ELSE "idle"]
        /\ UNCHANGED <<status, channel, null, channel_count, loaded_count, results,
                       readVars, lcore, completed_count, metaVars>>

-------------------------------------------------------------------------------
(* The test of open_blob and close_blob: no more than MaxMeta operations.  *)
Throttled(n) == n >= MaxMeta

(* open_blob: post the event once more while too many blobs are opening. *)
OpenBlob(b) ==
  /\ Free(0)
  /\ stage[b] = "open"
  /\ IF Throttled(opening_count)
     THEN UNCHANGED vars
     ELSE /\ opening_count' = opening_count + 1
          /\ stage' = [stage EXCEPT ![b] = "opening"]
          /\ UNCHANGED <<status, storeVars, results, readVars, claimVars,
                         closing_count>>

(* The blob is open: post its read to blob->lcore. *)
BlobOpened_Bug(b) ==            \* forgets to give its place up
  /\ Free(0)
  /\ stage[b] = "opening"
  /\ stage' = [stage EXCEPT ![b] = "read"]
  /\ site' = [site EXCEPT ![b] = lcore[b]]
  /\ UNCHANGED <<status, storeVars, results, running, active, reading_count,
                 claimVars, metaVars>>
BlobOpened(b) ==
  /\ Free(0)
  /\ stage[b] = "opening"
  /\ \/ Abort
     \/ /\ opening_count' = opening_count - 1
        /\ stage' = [stage EXCEPT ![b] = "read"]
        /\ site' = [site EXCEPT ![b] = lcore[b]]
        /\ UNCHANGED <<status, storeVars, results, running, active,
                       reading_count, claimVars, closing_count>>

(* read_blob up to reading_count.load().  max_concurrency is not zero      *)
(* here: load_blobs has replaced it by the number of blobs.  With          *)
(* max_concurrency reads under way the event goes to lcore 0.              *)
LoadReadingCount(c, b) ==
  /\ Free(c)
  /\ stage[b] = "read" /\ site[b] = c
  /\ IF reading_count >= max_concurrency
     THEN /\ site' = [site EXCEPT ![b] = 0]
          /\ UNCHANGED <<running, active>>
     ELSE /\ running' = [running EXCEPT ![c] = b]
          /\ active' = [active EXCEPT ![c] = reading_count]
          /\ UNCHANGED site
  /\ UNCHANGED <<status, storeVars, stage, results, reading_count, claimVars,
                 metaVars>>

(* compare_exchange_strong: another lcore may have changed reading_count   *)
(* since it was loaded.                                                    *)
Exchanges_Bug(c) == TRUE
Exchanges(c) == reading_count = active[c]

(* read_blob from compare_exchange_strong on: submit the read to the       *)
(* channel of blob->lcore, or post the event to lcore 0.  A null channel   *)
(* is replaced by one allocated on this lcore, and the deleter of the      *)
(* pointer it replaces then runs on null.  An lcore whose event has not    *)
(* run would have its channel made here; ReadsHaveChannels excludes it.    *)
ExchangeReadingCount(c) ==
  /\ status = "running"
  /\ running[c] # NoBlob
  /\ LET b == running[c]
         returns == /\ running' = [running EXCEPT ![c] = NoBlob]
                    /\ active' = [active EXCEPT ![c] = 0]
                    /\ UNCHANGED <<status, storeVars, results, claimVars, metaVars>>
     IN \/ /\ ~ Exchanges(c)
           /\ site' = [site EXCEPT ![b] = 0]
           /\ UNCHANGED <<reading_count, stage>>
           /\ returns
        \/ Exchanges(c) /\ lcore[b] \in null /\ Undefined
        \/ /\ Exchanges(c) /\ lcore[b] \notin null
           /\ reading_count' = active[c] + 1
           /\ stage' = [stage EXCEPT ![b] = "reading"]
           /\ UNCHANGED site
           /\ returns

ReadDone_Bug(n) == n
ReadDone(n) == n - 1   \* --reading_count

(* The read is complete: its time is recorded before bserrno is looked at. *)
BlobRead(b) ==
  /\ stage[b] = "reading"
  /\ Free(lcore[b])
  /\ reading_count' = ReadDone(reading_count)
  /\ results' = [results EXCEPT ![b] = @ + 1]
  /\ stage' = [stage EXCEPT ![b] = "close"]
  /\ status' \in {"running", "aborted"}
  /\ UNCHANGED <<storeVars, site, running, active, claimVars, metaVars>>

CloseBlob(b) ==
  /\ Free(0)
  /\ stage[b] = "close"
  /\ IF Throttled(closing_count)
     THEN UNCHANGED vars
     ELSE /\ closing_count' = closing_count + 1
          /\ stage' = [stage EXCEPT ![b] = "closing"]
          /\ UNCHANGED <<status, storeVars, results, readVars, claimVars,
                         opening_count>>

LastBlob_Bug(n) == n >= stored - 1
LastBlob(n) == n = stored
Claimed_Bug == head + 1
Claimed == head        \* next - 1, where next is the value of ++head

(* The blob is closed.  The last one frees the buffer and every lcore's    *)
(* channel, the null ones too, and unloads the store; every other one      *)
(* claims the next blob, if one is left, for the lcore it runs on, and     *)
(* posts its open_blob.                                                    *)
BlobClosed(b) ==
  /\ Free(0)
  /\ stage[b] = "closing"
  /\ \/ Abort
     \/ LastBlob(completed_count + 1) /\ null # {} /\ Undefined
     \/ /\ closing_count' = closing_count - 1
        /\ completed_count' = completed_count + 1
        /\ \/ /\ LastBlob(completed_count + 1) /\ null = {}
              /\ stage' = [stage EXCEPT ![b] = "closed"]
              /\ channel' = [c \in Core |-> "released"]
              /\ bs' = "unloading"
              /\ UNCHANGED <<lcore, head>>
           \/ /\ ~ LastBlob(completed_count + 1)
              /\ head' = head + 1
              /\ stage' = [a \in Blob |-> IF a = b THEN "closed"
                                          ELSE IF a = Claimed THEN "open"
                                          ELSE stage[a]]
              /\ lcore' = [a \in Blob |-> IF a = Claimed THEN 0 ELSE lcore[a]]
              /\ UNCHANGED <<channel, bs>>
        /\ UNCHANGED <<status, null, channel_count, loaded_count, results, readVars,
                       max_concurrency, opening_count>>

(* close_storage as an event of its own: the store is empty. *)
CloseStorage ==
  /\ Free(0)
  /\ bs = "close"
  /\ bs' = "unloading"
  /\ UNCHANGED <<status, channel, null, channel_count, loaded_count, stage, results,
                 readVars, claimVars, metaVars>>

(* The store is unloaded: print the results and stop. *)
StoreUnloaded ==
  /\ Free(0)
  /\ bs = "unloading"
  /\ \/ Abort
     \/ /\ bs' = "unloaded"
        /\ status' = "stopped"
        /\ UNCHANGED <<channel, null, channel_count, loaded_count, stage, results,
                       readVars, claimVars, metaVars>>

Ended == status # "running" /\ UNCHANGED vars

Next ==
  /\ UNCHANGED stored
  /\ \/ LoadStorage \/ StorageLoaded \/ StartBlobs \/ CloseStorage \/ StoreUnloaded
     \/ \E c \in Core : CreateChannel(c) \/ ExchangeReadingCount(c)
     \/ \E c \in Core, b \in Blob : LoadReadingCount(c, b)
     \/ \E b \in Blob :
          \/ ListBlob(b) \/ OpenBlob(b) \/ BlobOpened(b) \/ BlobRead(b)
          \/ CloseBlob(b) \/ BlobClosed(b)
     \/ Ended

(* Reactors poll and the device answers.  An event that is posted again    *)
(* leaves the state as it was, so it is no step this asks for: whenever an *)
(* event is put off, another handler is due.                               *)
Spec == Init /\ [][Next]_vars /\ WF_vars(Next)
-------------------------------------------------------------------------------
(* Type correctness of the members of context_t and blob_t modelled. *)
TypeOK ==
  /\ stored \in StoreSizes
  /\ status \in Status
  /\ bs \in StoreState
  /\ channel \in [Core -> ChannelState]
  /\ null \subseteq Core
  /\ channel_count \in 0 .. NumCores
  /\ loaded_count \in 0 .. stored
  /\ stage \in [Blob -> Stage]
  /\ lcore \in [Blob -> Core]
  /\ site \in [Blob -> Core]
  /\ running \in [Core -> Blob \cup {NoBlob}]
  /\ active \in [Core -> Nat]
  /\ results \in [Blob -> Nat]
  /\ max_concurrency \in Nat /\ head \in Nat /\ completed_count \in Nat
  /\ opening_count \in Nat /\ closing_count \in Nat /\ reading_count \in Nat

At(s) == {b \in Blob : stage[b] = s}
Closed == At("closed")
InFlight == {b \in Blob : stage[b] \notin {"unlisted", "idle", "closed"}}
Opened == {c \in Core : channel[c] \in {"made", "released"}}

BringUp == {"none", "loading", "channels"}
Unloading == {"unloading", "unloaded"}
Started == bs \in {"ready"} \cup Unloading

(* --concurrency bounds the blobs between open_blob and the end of their   *)
(* close, and the pipeline is filled up to it while a blob is unclaimed.   *)
PipelineFull ==
  Started /\ stored > 0 =>
    /\ Cardinality(InFlight) <= max_concurrency
    /\ At("idle") # {} => Cardinality(InFlight) = max_concurrency

(* The three counters count exactly the operations in flight, of which     *)
(* there are never more than 32 openings or closings.  Every lcore changes *)
(* reading_count: no update of another one is lost between a load and the  *)
(* exchange that follows it.                                               *)
CountsExact ==
  /\ opening_count = Cardinality(At("opening")) /\ opening_count <= MaxMeta
  /\ closing_count = Cardinality(At("closing")) /\ closing_count <= MaxMeta
  /\ reading_count = Cardinality(At("reading"))

(* The test of reading_count in read_blob never postpones a read: a blob   *)
(* that is about to be read is one of at most max_concurrency in flight.   *)
ReadNeverThrottled == At("read") # {} => reading_count < max_concurrency

(* Nothing is listed, read or unloaded before every lcore's event has run, *)
(* even if the store is empty.                                             *)
BringUpComplete == bs \notin BringUp => Opened = Core

(* A blob is to be read from a null channel, or its close, the last one, is *)
(* to reset one.                                                           *)
AtNull ==
  \/ \E c \in Core : running[c] # NoBlob /\ lcore[running[c]] \in null
  \/ \E b \in Blob : /\ stage[b] = "closing" /\ LastBlob(completed_count + 1)
                     /\ null # {}

(* A read is pending only on a channel its lcore has, one the last close   *)
(* has not freed.  What read_blob and the last close reset unseen is there *)
(* unless an allocation failed: the process only leaves the language over  *)
(* a channel spdk_bs_alloc_io_channel did not return, or over a blob past  *)
(* the end of a store --concurrency is too large for.                      *)
ReadsHaveChannels ==
  /\ BringUpComplete
  /\ \A b \in Blob : stage[b] = "reading" =>
       channel[lcore[b]] = "made" /\ lcore[b] \notin null
  /\ status = "undefined" => AtNull \/ Limit > stored

(* The store is unloaded with every blob closed, its time recorded once    *)
(* and, unless it was empty, every channel freed.                          *)
CleanShutdown ==
  bs \in Unloading =>
    /\ \A b \in Blob : stage[b] = "closed" /\ results[b] = 1
    /\ stored > 0 => \A c \in Core : channel[c] = "released"

(* The facts the invariants above rest on.  channel_count counts the       *)
(* channels made, and none is freed before the store is unloaded.          *)
ChannelInv ==
  /\ channel_count = Cardinality(Opened)
  /\ null \subseteq Opened
  /\ bs \in {"none", "loading"} => \A c \in Core : channel[c] = "none"
  /\ \A c \in Core : channel[c] = "released" => bs \in Unloading
  /\ BringUpComplete

(* Blobs are listed in order, and then claimed in order: head has moved on *)
(* by one for every blob closed.                                           *)
ClaimInv ==
  /\ completed_count = Cardinality(Closed)
  /\ bs \in BringUp => loaded_count = 0
  /\ bs = "close" => stored = 0 /\ max_concurrency = 0
  /\ ~ Started => \A b \in Blob :
                    stage[b] = IF b < loaded_count THEN "idle" ELSE "unlisted"
  /\ Started =>
       /\ \A b \in Blob : stage[b] # "unlisted" /\ (b < head <=> stage[b] # "idle")
       /\ max_concurrency <= stored
       /\ Closed # Blob => head = max_concurrency + completed_count

(* The blob whose read_blob an lcore is in the middle of was posted to     *)
(* that lcore, so no other one has it; a time is recorded with the read.   *)
ReadInv ==
  /\ \A c \in Core : running[c] # NoBlob =>
       stage[running[c]] = "read" /\ site[running[c]] = c
  /\ \A b \in Blob :
       results[b] = IF stage[b] \in {"close", "closing", "closed"} THEN 1 ELSE 0

(* The inductive invariant. *)
Inductive ==
  TypeOK /\ ChannelInv /\ ClaimInv /\ ReadInv /\ CountsExact /\ CleanShutdown

(* The program ends, whatever the lcores' interleaving: an event that is   *)
(* posted again is not posted for ever.                                    *)
Termination == <>(status # "running")

(* The pipeline implements Transfer. *)
Outcome ==
  CASE status = "running" -> "running"
    [] status = "stopped" -> "reported"
    [] OTHER -> "failed"
T == INSTANCE Transfer WITH
       items <- Blob, limit <- Limit, active <- InFlight, done <- Closed,
       outcome <- Outcome
TransferSpec == T!Spec
===============================================================================
