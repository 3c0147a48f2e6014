---------------------------- MODULE ReadBlobsProofs ----------------------------
(***************************************************************************)
(* Theorems about ReadBlobs for every store, number of lcores and          *)
(* concurrency option.                                                     *)
(***************************************************************************)
EXTENDS ReadBlobs, FiniteSetTheorems, TLAPS

USE ConstantsOK DEF ConstantsOK, Core

Steps == [Next]_vars
-------------------------------------------------------------------------------
(* The cardinalities the handlers count with. *)
LEMMA Interval ==
  ASSUME NEW n \in Nat
  PROVE  IsFiniteSet(0 .. n - 1) /\ Cardinality(0 .. n - 1) = n
<1>1. /\ IsFiniteSet(0 .. n - 1)
      /\ Cardinality(0 .. n - 1) = IF 0 > n - 1 THEN 0 ELSE (n - 1) - 0 + 1
  <2>1. 0 \in Int /\ n - 1 \in Int
    OBVIOUS
  <2> QED
    BY <2>1, FS_Interval, Zenon
<1> QED
  BY <1>1

LEMMA Sizes ==
  ASSUME stored \in Nat
  PROVE  /\ IsFiniteSet(Blob) /\ Cardinality(Blob) = stored
         /\ IsFiniteSet(Core) /\ Cardinality(Core) = NumCores
BY Interval DEF Blob

(* An element joins a subset of a finite set, or leaves it. *)
LEMMA OneMore ==
  ASSUME NEW D, IsFiniteSet(D), NEW S \in SUBSET D, NEW x \in D, x \notin S
  PROVE  /\ Cardinality(S) \in Nat
         /\ Cardinality(S \cup {x}) = Cardinality(S) + 1
BY FS_Subset, FS_AddElement, FS_CardinalityType

LEMMA OneLess ==
  ASSUME NEW D, IsFiniteSet(D), NEW S \in SUBSET D, NEW x \in S
  PROVE  /\ Cardinality(S) \in Nat \ {0}
         /\ Cardinality(S \ {x}) = Cardinality(S) - 1
<1>1. IsFiniteSet(S) /\ IsFiniteSet(S \ {x})
  BY FS_Subset
<1>2. Cardinality(S) \in Nat /\ S # {}
  BY <1>1, FS_CardinalityType
<1> QED
  BY <1>1, <1>2, FS_RemoveElement, FS_EmptySet

(* As many blobs as there are, or as many lcores, are all of them. *)
LEMMA AllOfThem ==
  ASSUME stored \in Nat
  PROVE  /\ \A S : S \subseteq Blob /\ Cardinality(S) = stored => S = Blob
         /\ \A S : S \subseteq Core /\ Cardinality(S) = NumCores => S = Core
<1>1. ASSUME NEW D, IsFiniteSet(D), NEW S \in SUBSET D, Cardinality(S) = Cardinality(D)
      PROVE  S = D
  BY <1>1, FS_Subset
<1> QED
  BY <1>1, Sizes
-------------------------------------------------------------------------------
(* What a step that moves no blob leaves alone. *)
LEMMA SetsKept ==
  ASSUME UNCHANGED <<stored, stage>>
  PROVE  /\ Blob' = Blob /\ Closed' = Closed /\ InFlight' = InFlight
         /\ At("opening")' = At("opening") /\ At("closing")' = At("closing")
         /\ At("reading")' = At("reading") /\ At("read")' = At("read")
         /\ At("idle")' = At("idle")
<1>1. Blob' = Blob
  BY DEF Blob
<1> QED
  BY <1>1 DEF Closed, InFlight, At

LEMMA InductiveInit == Init => Inductive
<1> SUFFICES ASSUME Init
             PROVE  Inductive
  OBVIOUS
<1>1. stored \in Nat
  BY DEF Init
<1>2. TypeOK
  BY <1>1 DEF Init, TypeOK, Status, StoreState, ChannelState, Stage
<1>3. Opened = {} /\ Closed = {} /\ At("opening") = {} /\ At("closing") = {}
      /\ At("reading") = {}
  BY DEF Init, Opened, Closed, At
<1>4. ChannelInv /\ CleanShutdown
  BY <1>3, FS_EmptySet
     DEF Init, ChannelInv, CleanShutdown, BringUpComplete, BringUp, Unloading
<1>7. CountsExact
  <2>1. Cardinality({}) = 0
    BY FS_EmptySet
  <2>2. opening_count = 0 /\ closing_count = 0 /\ reading_count = 0 /\ 0 <= MaxMeta
    BY DEF Init
  <2> QED
    BY <1>3, <2>1, <2>2 DEF CountsExact
<1>5. ClaimInv
  BY <1>1, <1>3, FS_EmptySet DEF Init, ClaimInv, Started, Unloading, Blob
<1>6. ReadInv
  BY DEF Init, ReadInv
<1> QED
  BY <1>2, <1>4, <1>5, <1>6, <1>7 DEF Inductive

(* The process ends, or nothing happens. *)
LEMMA Still ==
  ASSUME Inductive, status' \in Status,
         UNCHANGED <<stored, storeVars, stage, results, readVars, claimVars, metaVars>>
  PROVE  Inductive'
<1> USE DEF storeVars, readVars, claimVars, metaVars
<1>1. TypeOK'
  BY SetsKept DEF Inductive, TypeOK
<1>2. Opened' = Opened
  BY DEF Opened
<1>3. ChannelInv'
  BY <1>2 DEF Inductive, ChannelInv, BringUpComplete
<1>4. ClaimInv'
  BY SetsKept DEF Inductive, ClaimInv, Started
<1>5. ReadInv' /\ CountsExact' /\ CleanShutdown'
  BY SetsKept DEF Inductive, ReadInv, CountsExact, CleanShutdown
<1> QED
  BY <1>1, <1>3, <1>4, <1>5 DEF Inductive
-------------------------------------------------------------------------------
(* The blobs between open_blob and the end of their close. *)
Pipe == {"open", "opening", "read", "reading", "close", "closing"}

(* A blob goes from stage s to stage t. *)
LEMMA Moved ==
  ASSUME TypeOK, UNCHANGED stored, NEW b \in Blob, NEW s \in Stage, NEW t \in Stage,
         s # t, stage[b] = s, stage' = [stage EXCEPT ![b] = t]
  PROVE  /\ b \in At(s) /\ At(s)' = At(s) \ {b}
         /\ b \notin At(t) /\ At(t)' = At(t) \cup {b}
         /\ \A u \in Stage \ {s, t} : At(u)' = At(u)
<1>1. Blob' = Blob
  BY DEF Blob
<1> QED
  BY <1>1 DEF At, TypeOK

(* The counter of s is decremented, or that of t incremented, exactly.     *)
LEMMA MovedCounts ==
  ASSUME TypeOK, UNCHANGED stored, NEW b \in Blob, NEW s \in Stage, NEW t \in Stage,
         s # t, stage[b] = s, stage' = [stage EXCEPT ![b] = t]
  PROVE  /\ Cardinality(At(s)) \in Nat \ {0}
         /\ Cardinality(At(s)') = Cardinality(At(s)) - 1
         /\ Cardinality(At(t)) \in Nat
         /\ Cardinality(At(t)') = Cardinality(At(t)) + 1
<1>1. /\ b \in At(s) /\ At(s)' = At(s) \ {b}
      /\ b \notin At(t) /\ At(t)' = At(t) \cup {b}
  BY Moved
<1>2. IsFiniteSet(Blob) /\ At(s) \in SUBSET Blob /\ At(t) \in SUBSET Blob
  BY Sizes DEF TypeOK, At
<1>3. /\ Cardinality(At(s)) \in Nat \ {0}
      /\ Cardinality(At(s) \ {b}) = Cardinality(At(s)) - 1
  BY <1>1, <1>2, OneLess
<1>4. /\ Cardinality(At(t)) \in Nat
      /\ Cardinality(At(t) \cup {b}) = Cardinality(At(t)) + 1
  BY <1>1, <1>2, OneMore
<1> QED
  BY <1>1, <1>3, <1>4

(* Nothing but a stage of the pipeline changes: what the pipeline rests on *)
(* is kept.                                                                *)
LEMMA PipeStep ==
  ASSUME Inductive, UNCHANGED <<stored, storeVars, claimVars>>,
         NEW b \in Blob, NEW t \in Pipe, stage[b] \in Pipe,
         stage' = [stage EXCEPT ![b] = t] \/ stage' = stage
  PROVE  /\ Blob' = Blob /\ bs \notin Unloading /\ Started
         /\ ChannelInv' /\ ClaimInv' /\ CleanShutdown'
<1> USE DEF Inductive, Pipe, storeVars, claimVars
<1>1. Blob' = Blob
  BY DEF Blob
<1>2. bs \notin Unloading
  BY DEF CleanShutdown
<1>3. Started
  BY DEF ClaimInv
<1>4. Opened' = Opened /\ Closed' = Closed
  BY <1>1 DEF Opened, Closed, At, TypeOK
<1>5. ChannelInv'
  BY <1>4 DEF ChannelInv, BringUpComplete
<1>6. \A a \in Blob : stage'[a] # "unlisted" /\ (stage'[a] = "idle" <=> stage[a] = "idle")
  BY <1>3 DEF ClaimInv, TypeOK
<1>7. ClaimInv'
  BY <1>1, <1>3, <1>4, <1>6 DEF ClaimInv, Started
<1>8. CleanShutdown'
  BY <1>2 DEF CleanShutdown
<1> QED
  BY <1>1, <1>2, <1>3, <1>5, <1>7, <1>8

(* A blob that no lcore is reading moves on: the lcores in read_blob are   *)
(* not disturbed, whatever becomes of the site of that blob.               *)
LEMMA RunningKept ==
  ASSUME TypeOK, ReadInv, Blob' = Blob, UNCHANGED running, NEW b \in Blob, NEW t,
         stage[b] # "read", stage' = [stage EXCEPT ![b] = t],
         NEW u, site' = site \/ site' = [site EXCEPT ![b] = u],
         NEW c \in Core, running'[c] # NoBlob
  PROVE  stage'[running'[c]] = "read" /\ site'[running'[c]] = c
<1>1. /\ running[c] \in Blob
      /\ stage[running[c]] = "read" /\ site[running[c]] = c
  BY DEF TypeOK, ReadInv
<1>2. running[c] # b
  BY <1>1
<1> QED
  BY <1>1, <1>2 DEF TypeOK

Timed == {"close", "closing", "closed"}

LEMMA ResultsKept ==
  ASSUME TypeOK, ReadInv, Blob' = Blob, UNCHANGED results, NEW b \in Blob, NEW t,
         stage' = [stage EXCEPT ![b] = t], t \in Timed <=> stage[b] \in Timed
  PROVE  \A a \in Blob' : results'[a] = IF stage'[a] \in Timed THEN 1 ELSE 0
BY DEF TypeOK, ReadInv, Timed

(* Operations begin and end on lcore 0. *)
LEMMA OpenBlobStep ==
  ASSUME Inductive, UNCHANGED stored, NEW b \in Blob, OpenBlob(b)
  PROVE  Inductive'
<1>1. CASE UNCHANGED vars
  BY <1>1, Still DEF vars, Inductive, TypeOK
<1>2. CASE ~ Throttled(opening_count)
  <2> USE DEF Inductive
  <2>1. /\ stage[b] = "open" /\ stage' = [stage EXCEPT ![b] = "opening"]
        /\ opening_count' = opening_count + 1 /\ opening_count < MaxMeta
        /\ UNCHANGED <<status, storeVars, results, readVars, claimVars, closing_count>>
    BY <1>2 DEF OpenBlob, Throttled, TypeOK
  <2>2. Blob' = Blob /\ ChannelInv' /\ ClaimInv' /\ CleanShutdown'
    BY <2>1, PipeStep DEF Pipe
  <2>3. TypeOK'
    BY <2>1, <2>2 DEF TypeOK, Stage, storeVars, readVars, claimVars
  <2>4. CountsExact'
    <3>1. /\ At("closing")' = At("closing") /\ At("reading")' = At("reading")
          /\ Cardinality(At("opening")') = Cardinality(At("opening")) + 1
      BY <2>1, Moved, MovedCounts DEF Stage
    <3> QED
      BY <2>1, <3>1 DEF CountsExact, TypeOK, readVars
  <2>5. ReadInv'
    BY <2>1, <2>2, RunningKept, ResultsKept DEF ReadInv, Timed, readVars
  <2> QED
    BY <2>2, <2>3, <2>4, <2>5
<1> QED
  BY <1>1, <1>2 DEF OpenBlob
LEMMA BlobOpenedStep ==
  ASSUME Inductive, UNCHANGED stored, NEW b \in Blob, BlobOpened(b)
  PROVE  Inductive'
<1>1. CASE Abort
  BY <1>1, Still DEF Abort, Status
<1>2. CASE ~ Abort
  <2> USE DEF Inductive
  <2>1. /\ stage[b] = "opening" /\ stage' = [stage EXCEPT ![b] = "read"]
        /\ opening_count' = opening_count - 1
        /\ site' = [site EXCEPT ![b] = lcore[b]]
        /\ UNCHANGED <<status, storeVars, results, running, active, reading_count,
                       claimVars, closing_count>>
    BY <1>2 DEF BlobOpened
  <2>2. Blob' = Blob /\ ChannelInv' /\ ClaimInv' /\ CleanShutdown'
    BY <2>1, PipeStep DEF Pipe
  <2>3. /\ At("closing")' = At("closing") /\ At("reading")' = At("reading")
        /\ Cardinality(At("opening")') = Cardinality(At("opening")) - 1
        /\ Cardinality(At("opening")) \in Nat \ {0}
    BY <2>1, Moved, MovedCounts DEF Stage
  <2>4. opening_count' \in Nat
    BY <2>1, <2>3 DEF CountsExact
  <2>5. TypeOK'
    BY <2>1, <2>2, <2>4 DEF TypeOK, Stage, storeVars, claimVars
  <2>6. CountsExact'
    BY <2>1, <2>3 DEF CountsExact
  <2>7. ReadInv'
    BY <2>1, <2>2, RunningKept, ResultsKept DEF ReadInv, Timed
  <2> QED
    BY <2>2, <2>5, <2>6, <2>7
<1> QED
  BY <1>1, <1>2

LEMMA CloseBlobStep ==
  ASSUME Inductive, UNCHANGED stored, NEW b \in Blob, CloseBlob(b)
  PROVE  Inductive'
<1>1. CASE UNCHANGED vars
  BY <1>1, Still DEF vars, Inductive, TypeOK
<1>2. CASE ~ Throttled(closing_count)
  <2> USE DEF Inductive
  <2>1. /\ stage[b] = "close" /\ stage' = [stage EXCEPT ![b] = "closing"]
        /\ closing_count' = closing_count + 1 /\ closing_count < MaxMeta
        /\ UNCHANGED <<status, storeVars, results, readVars, claimVars, opening_count>>
    BY <1>2 DEF CloseBlob, Throttled, TypeOK
  <2>2. Blob' = Blob /\ ChannelInv' /\ ClaimInv' /\ CleanShutdown'
    BY <2>1, PipeStep DEF Pipe
  <2>3. TypeOK'
    BY <2>1, <2>2 DEF TypeOK, Stage, storeVars, readVars, claimVars
  <2>4. CountsExact'
    <3>1. /\ At("opening")' = At("opening") /\ At("reading")' = At("reading")
          /\ Cardinality(At("closing")') = Cardinality(At("closing")) + 1
      BY <2>1, Moved, MovedCounts DEF Stage
    <3> QED
      BY <2>1, <3>1 DEF CountsExact, TypeOK, readVars
  <2>5. ReadInv'
    BY <2>1, <2>2, RunningKept, ResultsKept DEF ReadInv, Timed, readVars
  <2> QED
    BY <2>2, <2>3, <2>4, <2>5
<1> QED
  BY <1>1, <1>2 DEF CloseBlob

(* A read completes on the lcore of its blob, and its time is recorded. *)
LEMMA BlobReadStep ==
  ASSUME Inductive, UNCHANGED stored, NEW b \in Blob, BlobRead(b)
  PROVE  Inductive'
<1> USE DEF Inductive
<1>1. /\ stage[b] = "reading" /\ stage' = [stage EXCEPT ![b] = "close"]
      /\ reading_count' = reading_count - 1
      /\ results' = [results EXCEPT ![b] = @ + 1]
      /\ status' \in {"running", "aborted"}
      /\ UNCHANGED <<storeVars, site, running, active, claimVars, metaVars>>
  BY DEF BlobRead, ReadDone
<1>2. Blob' = Blob /\ ChannelInv' /\ ClaimInv' /\ CleanShutdown'
  BY <1>1, PipeStep DEF Pipe
<1>3. /\ At("opening")' = At("opening") /\ At("closing")' = At("closing")
      /\ Cardinality(At("reading")') = Cardinality(At("reading")) - 1
      /\ Cardinality(At("reading")) \in Nat \ {0}
  BY <1>1, Moved, MovedCounts DEF Stage
<1>4. reading_count' \in Nat
  BY <1>1, <1>3 DEF CountsExact
<1>5. results[b] = 0
  BY <1>1 DEF ReadInv
<1>6. results' \in [Blob -> Nat]
      /\ \A a \in Blob : results'[a] = IF stage'[a] \in Timed THEN 1 ELSE 0
  BY <1>1, <1>5 DEF TypeOK, ReadInv, Timed
<1>7. TypeOK'
  BY <1>1, <1>2, <1>4, <1>6 DEF TypeOK, Stage, Status, storeVars, claimVars, metaVars
<1>8. CountsExact'
  BY <1>1, <1>3 DEF CountsExact, metaVars
<1>9. ReadInv'
  BY <1>1, <1>2, <1>6, RunningKept DEF ReadInv, Timed
<1> QED
  BY <1>2, <1>7, <1>8, <1>9

(* The two halves of read_blob.  The blob an lcore is in the middle of was *)
(* posted to that lcore, so no other one can be in the middle of it.       *)
LEMMA LoadStep ==
  ASSUME Inductive, UNCHANGED stored, NEW c \in Core, NEW b \in Blob,
         LoadReadingCount(c, b)
  PROVE  Inductive'
<1> USE DEF Inductive
<1>1. /\ running[c] = NoBlob /\ stage[b] = "read" /\ site[b] = c
      /\ UNCHANGED <<status, storeVars, stage, results, reading_count, claimVars, metaVars>>
  BY DEF LoadReadingCount, Free
<1>2. Blob' = Blob /\ ChannelInv' /\ ClaimInv' /\ CleanShutdown'
  BY <1>1, PipeStep DEF Pipe
<1>3. CountsExact'
  BY <1>1, SetsKept DEF CountsExact, metaVars
<1>4. CASE reading_count >= max_concurrency
  <2>1. site' = [site EXCEPT ![b] = 0] /\ UNCHANGED <<running, active>>
    BY <1>4 DEF LoadReadingCount
  <2>2. TypeOK'
    BY <1>1, <1>2, <2>1 DEF TypeOK, storeVars, claimVars, metaVars
  <2>3. ASSUME NEW d \in Core, running[d] # NoBlob
        PROVE  running[d] # b /\ running[d] \in Blob
    BY <1>1, <2>3 DEF ReadInv, TypeOK
  <2>4. ReadInv'
    BY <1>1, <1>2, <2>1, <2>3 DEF ReadInv, TypeOK
  <2> QED
    BY <1>2, <1>3, <2>2, <2>4
<1>5. CASE ~ (reading_count >= max_concurrency)
  <2>1. /\ running' = [running EXCEPT ![c] = b]
        /\ active' = [active EXCEPT ![c] = reading_count]
        /\ UNCHANGED site
    BY <1>5 DEF LoadReadingCount
  <2>2. TypeOK'
    BY <1>1, <1>2, <2>1 DEF TypeOK, storeVars, claimVars, metaVars
  <2>3. ReadInv'
    BY <1>1, <1>2, <2>1 DEF ReadInv, TypeOK
  <2> QED
    BY <1>2, <1>3, <2>2, <2>3
<1> QED
  BY <1>4, <1>5

LEMMA ExchangeStep ==
  ASSUME Inductive, UNCHANGED stored, NEW c \in Core, ExchangeReadingCount(c)
  PROVE  Inductive'
<1>0. CASE Undefined
  BY <1>0, Still DEF Undefined, Status
<1> SUFFICES ASSUME ~ Undefined
             PROVE  Inductive'
  BY <1>0
<1> USE DEF Inductive
<1> DEFINE b == running[c]
<1>1. /\ b \in Blob /\ stage[b] = "read" /\ site[b] = c
      /\ running' = [running EXCEPT ![c] = NoBlob] /\ active' = [active EXCEPT ![c] = 0]
      /\ UNCHANGED <<status, storeVars, results, claimVars, metaVars>>
  BY DEF ExchangeReadingCount, ReadInv, TypeOK
<1>2. ASSUME NEW d \in Core, running'[d] # NoBlob
      PROVE  /\ running'[d] = running[d] /\ running[d] \in Blob \ {b}
             /\ stage[running[d]] = "read" /\ site[running[d]] = d
  BY <1>1, <1>2 DEF ReadInv, TypeOK
<1>3. CASE Exchanges(c)
  <2>1. /\ reading_count' = reading_count + 1
        /\ stage' = [stage EXCEPT ![b] = "reading"]
        /\ UNCHANGED site
    BY <1>3 DEF ExchangeReadingCount, Exchanges
  <2>2. Blob' = Blob /\ ChannelInv' /\ ClaimInv' /\ CleanShutdown'
    BY <1>1, <2>1, PipeStep DEF Pipe
  <2>3. TypeOK'
    BY <1>1, <2>1, <2>2 DEF TypeOK, Stage, storeVars, claimVars, metaVars
  <2>4. CountsExact'
    <3>1. /\ At("opening")' = At("opening") /\ At("closing")' = At("closing")
          /\ Cardinality(At("reading")') = Cardinality(At("reading")) + 1
      BY <1>1, <2>1, Moved, MovedCounts DEF Stage
    <3> QED
      BY <1>1, <2>1, <3>1 DEF CountsExact, metaVars
  <2>5. ReadInv'
    <3>1. \A d \in Core : running'[d] # NoBlob =>
            stage'[running'[d]] = "read" /\ site'[running'[d]] = d
      BY <1>1, <1>2, <2>1 DEF TypeOK
    <3> QED
      BY <1>1, <2>1, <2>2, <3>1, ResultsKept DEF ReadInv, Timed
  <2> QED
    BY <2>2, <2>3, <2>4, <2>5
<1>4. CASE ~ Exchanges(c)
  <2>1. site' = [site EXCEPT ![b] = 0] /\ UNCHANGED <<reading_count, stage>>
    BY <1>4 DEF ExchangeReadingCount
  <2>2. Blob' = Blob /\ ChannelInv' /\ ClaimInv' /\ CleanShutdown'
    BY <1>1, <2>1, PipeStep DEF Pipe
  <2>3. TypeOK'
    BY <1>1, <2>1, <2>2 DEF TypeOK, storeVars, claimVars, metaVars
  <2>4. CountsExact'
    BY <1>1, <2>1, SetsKept DEF CountsExact, metaVars
  <2>5. ReadInv'
    BY <1>1, <1>2, <2>1, <2>2 DEF ReadInv, TypeOK
  <2> QED
    BY <2>2, <2>3, <2>4, <2>5
<1> QED
  BY <1>3, <1>4-------------------------------------------------------------------------------
(* The store, the channels and the list of blobs. *)

(* Only bs and the channels change, and bs stays in its part of the run. *)
LEMMA StoreStep ==
  ASSUME Inductive, ChannelInv', status' \in Status, bs' \in StoreState,
         channel' \in [Core -> ChannelState], null' \subseteq Core,
         channel_count' \in 0 .. NumCores,
         UNCHANGED <<stored, loaded_count, stage, results, readVars, claimVars, metaVars>>,
         bs' \in BringUp => bs \in BringUp,
         bs' # "close", bs' \in Unloading <=> bs \in Unloading,
         bs' = "ready" <=> bs = "ready",
         bs \in Unloading => UNCHANGED channel
  PROVE  Inductive'
<1> USE DEF Inductive, readVars, claimVars, metaVars
<1>1. TypeOK'
  BY SetsKept DEF TypeOK
<1>2. ClaimInv'
  BY SetsKept DEF ClaimInv, Started
<1>3. ReadInv' /\ CountsExact'
  BY SetsKept DEF ReadInv, CountsExact
<1>4. CleanShutdown'
  BY SetsKept DEF CleanShutdown
<1> QED
  BY <1>1, <1>2, <1>3, <1>4

LEMMA LoadStorageStep ==
  ASSUME Inductive, UNCHANGED stored, LoadStorage \/ StorageLoaded \/ StoreUnloaded
  PROVE  Inductive'
<1>1. CASE Abort
  BY <1>1, Still DEF Abort, Status
<1>2. CASE ~ Abort
  <2>1. /\ status' \in Status /\ bs' \in StoreState
        /\ UNCHANGED <<null, channel_count, loaded_count, stage, results, readVars,
                       claimVars, metaVars>>
        /\ \/ bs = "none" /\ bs' = "loading" /\ UNCHANGED channel
           \/ bs = "loading" /\ bs' = "channels" /\ channel' = [c \in Core |-> "requested"]
           \/ bs = "unloading" /\ bs' = "unloaded" /\ UNCHANGED channel
    BY <1>2 DEF LoadStorage, StorageLoaded, StoreUnloaded, Inductive, TypeOK,
                Status, StoreState
  <2>2. Opened' = Opened
    BY <2>1 DEF Opened, Inductive, ChannelInv
  <2>3. ChannelInv'
    BY <2>1, <2>2 DEF Inductive, ChannelInv, BringUpComplete, BringUp, Unloading
  <2>4. channel' \in [Core -> ChannelState]
    BY <2>1 DEF Inductive, TypeOK, ChannelState
  <2>5. channel_count' \in 0 .. NumCores /\ null' \subseteq Core
    BY <2>1 DEF Inductive, TypeOK
  <2> QED
    BY <2>1, <2>3, <2>4, <2>5, StoreStep DEF BringUp, Unloading
<1> QED
  BY <1>1, <1>2

LEMMA CreateChannelStep ==
  ASSUME Inductive, UNCHANGED stored, NEW c \in Core, CreateChannel(c)
  PROVE  Inductive'
<1> USE DEF Inductive
<1>1. /\ channel[c] = "requested" /\ channel' = [channel EXCEPT ![c] = "made"]
      /\ channel_count' = channel_count + 1
      /\ null' \in {null, null \cup {c}}
      /\ bs' = IF channel_count + 1 = NumCores THEN "listing" ELSE bs
      /\ UNCHANGED <<status, loaded_count, stage, results, readVars, claimVars, metaVars>>
  BY DEF CreateChannel, LastChannel
<1>2. c \notin Opened /\ Opened' = Opened \cup {c}
  BY <1>1 DEF Opened, TypeOK
<1>3. /\ IsFiniteSet(Core) /\ Cardinality(Core) = NumCores
      /\ Opened \in SUBSET Core /\ Opened' \in SUBSET Core
  BY <1>2, Sizes DEF TypeOK, Opened
<1>4. channel_count' = Cardinality(Opened') /\ channel_count' \in 0 .. NumCores
  <2>1. Cardinality(Opened \cup {c}) = Cardinality(Opened) + 1
    BY <1>2, <1>3, OneMore
  <2>2. Cardinality(Opened') \in Nat /\ Cardinality(Opened') <= Cardinality(Core)
    BY <1>3, FS_Subset, FS_CardinalityType
  <2>3. channel_count' = Cardinality(Opened')
    BY <1>1, <1>2, <2>1 DEF ChannelInv
  <2> QED
    BY <1>3, <2>2, <2>3
<1>5. bs = "channels"
  <2>1. c \notin Opened /\ Opened \in SUBSET Core
    BY <1>2 DEF Opened
  <2>2. bs \in BringUp
    BY <2>1 DEF ChannelInv, BringUpComplete
  <2> QED
    BY <1>1, <2>2 DEF ChannelInv, BringUp
<1>6. bs' = "listing" => Opened' = Core
  <2>1. bs' = "listing" => channel_count' = NumCores
    BY <1>1, <1>5
  <2> QED
    BY <1>3, <1>4, <2>1, AllOfThem DEF TypeOK
<1>7. ChannelInv'
  <2>1. \A d \in Core : channel'[d] # "released"
    BY <1>1, <1>5 DEF ChannelInv, TypeOK, Unloading
  <2>2. bs' \in {"listing", "channels"}
    BY <1>1, <1>5
  <2> QED
    BY <1>1, <1>2, <1>4, <1>6, <2>1, <2>2 DEF ChannelInv, BringUpComplete, BringUp
<1>8. /\ channel' \in [Core -> ChannelState] /\ bs' \in StoreState
      /\ null' \subseteq Core
  BY <1>1, <1>5 DEF TypeOK, ChannelState, StoreState
<1> QED
  BY <1>1, <1>4, <1>5, <1>7, <1>8, StoreStep DEF TypeOK, BringUp, Unloading

LEMMA ListBlobStep ==
  ASSUME Inductive, UNCHANGED stored, NEW b \in Blob, ListBlob(b)
  PROVE  Inductive'
<1> USE DEF Inductive
<1>1. /\ bs = "listing" /\ b = loaded_count /\ loaded_count' = loaded_count + 1
      /\ stage' = [stage EXCEPT ![b] = "idle"]
      /\ lcore' = [lcore EXCEPT ![b] = b % NumCores]
      /\ UNCHANGED <<status, bs, channel, null, channel_count, results, readVars,
                     max_concurrency, head, completed_count, metaVars>>
  BY DEF ListBlob
<1>2. Blob' = Blob /\ stored \in Nat /\ b \in Nat /\ b < stored
  BY DEF Blob, TypeOK
<1>3. stage[b] = "unlisted"
  BY <1>1, <1>2 DEF ClaimInv, Started, Unloading, TypeOK
<1>4. TypeOK'
  <2>1. b % NumCores \in Core
    BY <1>2
  <2>2. loaded_count' \in 0 .. stored
    BY <1>1, <1>2 DEF TypeOK
  <2> QED
    BY <1>1, <1>2, <2>1, <2>2 DEF TypeOK, Stage, readVars, metaVars
<1>5. Opened' = Opened /\ Closed' = Closed
  BY <1>1, <1>2, <1>3 DEF Opened, Closed, At, TypeOK
<1>6. ChannelInv'
  BY <1>1, <1>5 DEF ChannelInv, BringUpComplete
<1>7. ClaimInv'
  <2>1. ASSUME NEW a \in Blob
        PROVE  stage'[a] = IF a < loaded_count' THEN "idle" ELSE "unlisted"
    <3>1. a \in Nat /\ loaded_count \in Nat
      BY <1>2 DEF Blob, TypeOK
    <3>2. stage[a] = IF a < loaded_count THEN "idle" ELSE "unlisted"
      BY <1>1 DEF ClaimInv, Started, Unloading
    <3>3. stage'[a] = IF a = b THEN "idle" ELSE stage[a]
      BY <1>1 DEF TypeOK
    <3> QED
      BY <1>1, <3>1, <3>2, <3>3
  <2>2. ~ Started /\ ~ Started' /\ bs' \notin BringUp
    BY <1>1 DEF Started, Unloading, BringUp
  <2> QED
    BY <1>1, <1>2, <1>5, <2>1, <2>2 DEF ClaimInv
<1>8. CountsExact'
  <2>1. /\ At("opening")' = At("opening") /\ At("closing")' = At("closing")
        /\ At("reading")' = At("reading")
    BY <1>1, <1>2, <1>3 DEF At, TypeOK
  <2> QED
    BY <1>1, <2>1 DEF CountsExact, readVars, metaVars
<1>9. ReadInv'
  BY <1>1, <1>2, <1>3, RunningKept, ResultsKept DEF ReadInv, Timed, readVars
<1>10. CleanShutdown'
  BY <1>1 DEF CleanShutdown, Unloading
<1> QED
  BY <1>4, <1>6, <1>7, <1>8, <1>9, <1>10

(* The first Limit blobs are open, and head has passed them. *)
LEMMA StartBlobsStep ==
  ASSUME Inductive, UNCHANGED stored, StartBlobs
  PROVE  Inductive'
<1> USE DEF Inductive
<1>1. CASE Abort \/ Undefined
  BY <1>1, Still DEF Abort, Undefined, Status
<1>2. CASE ~ (Abort \/ Undefined)
  <2>1. /\ bs = "listing" /\ loaded_count = stored /\ Limit <= stored
        /\ bs' = IF stored = 0 THEN "close" ELSE "ready"
        /\ max_concurrency' = Limit /\ head' = Limit
        /\ stage' = [b \in Blob |-> IF b < Limit THEN "open" ELSE "idle"]
        /\ UNCHANGED <<status, channel, null, channel_count, loaded_count, results,
                       readVars, lcore, completed_count, metaVars>>
    BY <1>2 DEF StartBlobs
  <2>2. Blob' = Blob /\ stored \in Nat /\ Limit \in Nat /\ \A b \in Blob : b \in Nat /\ b < stored
    BY DEF Blob, TypeOK, Limit
  <2>3. \A b \in Blob : stage[b] = "idle"
    BY <2>1, <2>2 DEF ClaimInv, Started, Unloading
  <2>4. /\ Opened' = Opened /\ Closed = {} /\ Closed' = {}
        /\ \A u \in {"opening", "closing", "reading"} : At(u) = {} /\ At(u)' = {}
    BY <2>1, <2>2, <2>3 DEF Opened, Closed, At
  <2>5. TypeOK'
    BY <2>1, <2>2 DEF TypeOK, Stage, StoreState, readVars, metaVars
  <2>6. ChannelInv'
    BY <2>1, <2>4 DEF ChannelInv, BringUpComplete, BringUp, Unloading
  <2>7. completed_count' = 0
    BY <2>1, <2>4, FS_EmptySet DEF ClaimInv
  <2>8. ClaimInv'
    <3>1. Cardinality(Closed') = 0
      BY <2>4, FS_EmptySet
    <3>2. bs' \notin BringUp
      BY <2>1 DEF BringUp
    <3>3. CASE stored = 0
      <4>1. bs' = "close" /\ max_concurrency' = 0 /\ stored' = 0 /\ ~ Started' /\ Blob' = {}
        BY <2>1, <2>2, <3>3 DEF Started, Unloading, Blob
      <4> QED
        BY <2>7, <3>1, <3>2, <4>1 DEF ClaimInv
    <3>4. CASE stored # 0
      <4>1. bs' = "ready" /\ Started'
        BY <2>1, <3>4 DEF Started
      <4> QED
        BY <2>1, <2>2, <2>7, <3>1, <3>2, <4>1 DEF ClaimInv
    <3> QED
      BY <3>3, <3>4
  <2>9. ReadInv'
    <3>1. \A c \in Core : running[c] = NoBlob
      BY <2>3 DEF ReadInv, TypeOK
    <3> QED
      BY <2>1, <2>2, <2>3, <3>1 DEF ReadInv, readVars
  <2>10. CountsExact'
    BY <2>1, <2>4 DEF CountsExact, readVars, metaVars
  <2>11. CleanShutdown'
    BY <2>1 DEF CleanShutdown, Unloading
  <2> QED
    BY <2>5, <2>6, <2>8, <2>9, <2>10, <2>11
<1> QED
  BY <1>1, <1>2

(* An empty store is closed at once. *)
LEMMA CloseStorageStep ==
  ASSUME Inductive, UNCHANGED stored, CloseStorage
  PROVE  Inductive'
<1> USE DEF Inductive
<1>1. /\ bs = "close" /\ bs' = "unloading"
      /\ UNCHANGED <<status, channel, null, channel_count, loaded_count, stage, results,
                     readVars, claimVars, metaVars>>
  BY DEF CloseStorage
<1>2. stored = 0 /\ max_concurrency = 0 /\ Blob = {} /\ Blob' = {}
  BY <1>1 DEF ClaimInv, Blob
<1>3. TypeOK'
  BY <1>1, SetsKept DEF TypeOK, StoreState, readVars, claimVars, metaVars
<1>4. Opened' = Opened /\ Closed' = Closed /\ Closed = {}
  BY <1>1, <1>2 DEF Opened, Closed, At
<1>5. ChannelInv'
  BY <1>1, <1>4 DEF ChannelInv, BringUpComplete, BringUp, Unloading
<1>6. ClaimInv'
  BY <1>1, <1>2, <1>4 DEF ClaimInv, Started, Unloading, BringUp, claimVars
<1>7. ReadInv' /\ CountsExact'
  BY <1>1, SetsKept DEF ReadInv, CountsExact, readVars, metaVars
<1>8. CleanShutdown'
  BY <1>1, <1>2 DEF CleanShutdown
<1> QED
  BY <1>3, <1>5, <1>6, <1>7, <1>8
(* The last blob closed finds every other one closed; every other one      *)
(* claims the blob at head, which is idle.                                 *)
LEMMA BlobClosedStep ==
  ASSUME Inductive, UNCHANGED stored, NEW b \in Blob, BlobClosed(b)
  PROVE  Inductive'
<1> USE DEF Inductive
<1>1. CASE Abort \/ Undefined
  BY <1>1, Still DEF Abort, Undefined, Status
<1>2. CASE ~ (Abort \/ Undefined)
  <2>1. /\ stage[b] = "closing" /\ closing_count' = closing_count - 1
        /\ completed_count' = completed_count + 1
        /\ UNCHANGED <<status, null, channel_count, loaded_count, results, readVars,
                       max_concurrency, opening_count>>
    BY <1>2 DEF BlobClosed
  <2>2. Blob' = Blob /\ stored \in Nat /\ stored > 0
    BY DEF Blob, TypeOK
  <2>3. bs = "ready" /\ b \notin Closed
    BY <2>1 DEF ClaimInv, CleanShutdown, Started, Closed, At
  <2>4. Opened = Core /\ \A c \in Core : channel[c] = "made"
    BY <2>3 DEF ChannelInv, BringUpComplete, BringUp, Unloading, Opened
  <2>5. \A c \in Core : running[c] # NoBlob => running[c] \in Blob \ {b}
    BY <2>1 DEF ReadInv, TypeOK
  <2>6. CASE LastBlob(completed_count + 1)
    <3>1. /\ stage' = [stage EXCEPT ![b] = "closed"]
          /\ channel' = [c \in Core |-> "released"] /\ bs' = "unloading"
          /\ UNCHANGED <<lcore, head>>
      BY <1>2, <2>6 DEF BlobClosed
    <3>2. Closed' = Closed \cup {b}
      BY <2>1, <3>1, Moved DEF Closed, Stage
    <3>3. completed_count' = Cardinality(Closed')
      <4>1. Cardinality(Closed \cup {b}) = Cardinality(Closed) + 1
        BY <2>2, <2>3, Sizes, OneMore DEF Closed, At
      <4> QED
        BY <2>1, <3>2, <4>1 DEF ClaimInv
    <3>4. Closed' = Blob
      <4>1. Cardinality(Closed') = stored
        BY <2>1, <2>6, <3>3 DEF LastBlob
      <4>2. Closed' \subseteq Blob
        BY <2>2 DEF Closed, At
      <4> QED
        BY <2>2, <4>1, <4>2, AllOfThem
    <3>5. \A a \in Blob : stage'[a] = "closed"
      BY <3>4 DEF Closed, At
    <3>6. /\ At("opening")' = At("opening") /\ At("reading")' = At("reading")
          /\ Cardinality(At("closing")') = Cardinality(At("closing")) - 1
          /\ Cardinality(At("closing")) \in Nat \ {0}
      BY <2>1, <3>1, Moved, MovedCounts DEF Stage
    <3>7. CountsExact'
      BY <2>1, <3>6 DEF CountsExact, readVars
    <3>8. TypeOK'
      <4>1. closing_count' \in Nat
        BY <2>1, <3>6 DEF CountsExact
      <4> QED
        BY <2>1, <2>2, <3>1, <4>1
           DEF TypeOK, Stage, StoreState, ChannelState, readVars
    <3>9. ChannelInv'
      <4>1. Opened' = Core
        BY <3>1 DEF Opened
      <4> QED
        BY <2>1, <2>4, <3>1, <4>1
           DEF ChannelInv, BringUpComplete, BringUp, Unloading
    <3>10. ClaimInv'
      <4>1. bs' \notin BringUp /\ bs' # "close" /\ Started /\ Started'
        BY <2>3, <3>1 DEF Started, BringUp, Unloading
      <4> QED
        BY <2>1, <2>2, <3>1, <3>3, <3>4, <3>5, <4>1 DEF ClaimInv, TypeOK
    <3>11. ReadInv'
      BY <2>1, <2>2, <2>5, <3>1, RunningKept, ResultsKept DEF ReadInv, Timed, readVars
    <3>12. CleanShutdown'
      BY <2>1, <2>2, <3>1, <3>5, <3>11 DEF CleanShutdown, ReadInv
    <3> QED
      BY <3>7, <3>8, <3>9, <3>10, <3>11, <3>12
  <2>7. CASE ~ LastBlob(completed_count + 1)
    <3>1. /\ head' = head + 1
          /\ stage' = [a \in Blob |-> IF a = b THEN "closed"
                                      ELSE IF a = head THEN "open" ELSE stage[a]]
          /\ lcore' = [a \in Blob |-> IF a = head THEN 0 ELSE lcore[a]]
          /\ UNCHANGED <<channel, bs>>
      BY <1>2, <2>7 DEF BlobClosed, Claimed
    <3>2. \A a \in Blob : a \in Nat /\ a < stored
      BY <2>2 DEF Blob
    <3>3. Started /\ head \in Nat /\ \A a \in Blob : a < head <=> stage[a] # "idle"
      BY <2>3 DEF ClaimInv, Started, TypeOK
    <3>4. \A a \in Blob : a = head => stage[a] = "idle"
      BY <3>2, <3>3
    <3>5. /\ Closed' = Closed \cup {b} /\ At("opening")' = At("opening")
          /\ At("reading")' = At("reading") /\ At("closing")' = At("closing") \ {b}
          /\ b \in At("closing")
      BY <2>1, <2>2, <3>1, <3>4 DEF Closed, At
    <3>6. completed_count' = Cardinality(Closed')
      <4>1. Cardinality(Closed \cup {b}) = Cardinality(Closed) + 1
        BY <2>2, <2>3, Sizes, OneMore DEF Closed, At
      <4> QED
        BY <2>1, <3>5, <4>1 DEF ClaimInv
    <3>7. /\ Cardinality(At("closing")') = Cardinality(At("closing")) - 1
          /\ Cardinality(At("closing")) \in Nat \ {0}
      <4>1. At("closing") \in SUBSET Blob
        BY DEF At
      <4> QED
        BY <2>2, <3>5, <4>1, Sizes, OneLess
    <3>8. CountsExact'
      BY <2>1, <3>5, <3>7 DEF CountsExact, readVars
    <3>9. TypeOK'
      <4>1. closing_count' \in Nat /\ head' \in Nat /\ completed_count' \in Nat
        BY <2>1, <3>1, <3>3, <3>7 DEF CountsExact, TypeOK
      <4>2. stage' \in [Blob -> Stage] /\ lcore' \in [Blob -> Core]
        BY <3>1 DEF TypeOK, Stage
      <4> QED
        BY <2>1, <2>2, <3>1, <4>1, <4>2 DEF TypeOK, readVars
    <3>10. Opened' = Opened
      BY <3>1 DEF Opened
    <3>11. ChannelInv'
      BY <2>1, <3>1, <3>10 DEF ChannelInv, BringUpComplete
    <3>12. ClaimInv'
      <4>1. bs' \notin BringUp /\ bs' # "close" /\ Started'
        BY <2>3, <3>1 DEF Started, BringUp
      <4>2. head = max_concurrency + completed_count /\ max_concurrency <= stored
        BY <2>3, <3>3 DEF ClaimInv
      <4>3. head' = max_concurrency' + completed_count'
        BY <2>1, <3>1, <3>3, <4>2 DEF TypeOK
      <4>4. ASSUME NEW a \in Blob
            PROVE  stage'[a] # "unlisted" /\ (a < head' <=> stage'[a] # "idle")
        <5>1. stage[a] # "unlisted" /\ stage[b] # "idle"
          BY <2>1, <3>3 DEF ClaimInv
        <5> QED
          BY <3>1, <3>2, <3>3, <5>1
      <4> QED
        BY <2>1, <2>2, <3>6, <4>1, <4>2, <4>3, <4>4 DEF ClaimInv
    <3>13. ReadInv'
      <4>1. \A c \in Core : running'[c] # NoBlob =>
              stage'[running'[c]] = "read" /\ site'[running'[c]] = c
        BY <2>1, <2>5, <3>1, <3>4 DEF ReadInv, TypeOK, readVars
      <4>2. \A a \in Blob : results'[a] = IF stage'[a] \in Timed THEN 1 ELSE 0
        BY <2>1, <3>1, <3>4 DEF ReadInv, Timed
      <4> QED
        BY <2>2, <4>1, <4>2 DEF ReadInv, Timed
    <3>14. CleanShutdown'
      BY <2>3, <3>1 DEF CleanShutdown, Unloading
    <3> QED
      BY <3>8, <3>9, <3>11, <3>12, <3>13, <3>14
  <2> QED
    BY <2>6, <2>7
<1> QED
  BY <1>1, <1>2
-------------------------------------------------------------------------------
LEMMA InductiveStep == Inductive /\ Steps => Inductive'
<1> SUFFICES ASSUME Inductive, Steps
             PROVE  Inductive'
  OBVIOUS
<1>1. CASE UNCHANGED vars \/ (UNCHANGED stored /\ Ended)
  BY <1>1, Still DEF Ended, vars, Inductive, TypeOK
<1>2. CASE UNCHANGED stored /\ (LoadStorage \/ StorageLoaded \/ StoreUnloaded)
  BY <1>2, LoadStorageStep
<1>3. CASE UNCHANGED stored /\ (StartBlobs \/ CloseStorage)
  BY <1>3, StartBlobsStep, CloseStorageStep
<1>4. ASSUME UNCHANGED stored, NEW c \in Core,
             \/ CreateChannel(c) \/ ExchangeReadingCount(c)
             \/ \E b \in Blob : LoadReadingCount(c, b)
      PROVE  Inductive'
  BY <1>4, CreateChannelStep, ExchangeStep, LoadStep
<1>5. ASSUME UNCHANGED stored, NEW b \in Blob,
             \/ ListBlob(b) \/ OpenBlob(b) \/ BlobOpened(b) \/ BlobRead(b)
             \/ CloseBlob(b) \/ BlobClosed(b)
      PROVE  Inductive'
  BY <1>5, ListBlobStep, OpenBlobStep, BlobOpenedStep, BlobReadStep, CloseBlobStep,
     BlobClosedStep
<1> QED
  BY <1>1, <1>2, <1>3, <1>4, <1>5 DEF Steps, Next

(* The inductive invariant holds in every run: the channels made and the   *)
(* blobs closed are counted exactly, blobs are claimed in order, and the   *)
(* blob an lcore is in the middle of is waiting to be read on that lcore.  *)
THEOREM InductiveCorrect == Spec => []Inductive
<1>1. Inductive /\ [Next]_vars => Inductive'
  BY InductiveStep DEF Steps
<1> QED
  BY InductiveInit, <1>1, PTL DEF Spec
(* No update of the three counters is lost: reading_count among them,      *)
(* which every lcore loads and exchanges.                                  *)
THEOREM CountsAreExact == Spec => []CountsExact
<1>1. Inductive => CountsExact
  BY DEF Inductive
<1> QED
  BY InductiveCorrect, <1>1, PTL

(* The store is unloaded with every blob closed and recorded once. *)
THEOREM ShutdownIsClean == Spec => []CleanShutdown
<1>1. Inductive => CleanShutdown
  BY DEF Inductive
<1> QED
  BY InductiveCorrect, <1>1, PTL

(* What a pending read relies on, and the only ways out of the language. *)
ReadsPending == \A b \in Blob : stage[b] = "reading" => lcore[b] \notin null
UndefinedBecause == status = "undefined" => AtNull \/ Limit > stored

(* The lcores' events have run, and no channel is freed, while a blob is   *)
(* between its open and its close.                                         *)
LEMMA ChannelsMade ==
  ASSUME Inductive, NEW b \in Blob, stage[b] \in Pipe
  PROVE  bs = "ready" /\ \A c \in Core : channel[c] = "made"
<1> USE DEF Inductive
<1>1. bs = "ready"
  BY DEF Pipe, ClaimInv, CleanShutdown, Started
<1>2. \A c \in Core : channel[c] # "released"
  BY <1>1 DEF ChannelInv, Unloading
<1>3. Opened = Core
  BY <1>1 DEF ChannelInv, BringUpComplete, BringUp
<1> QED
  BY <1>1, <1>2, <1>3 DEF Opened

LEMMA PendingStep == Inductive /\ ReadsPending /\ Steps => ReadsPending'
<1> SUFFICES ASSUME Inductive, ReadsPending, Steps, UNCHANGED stored,
                    NEW a \in Blob, stage'[a] = "reading"
             PROVE  lcore'[a] \notin null'
  <2>1. UNCHANGED stored => Blob' = Blob
    BY DEF Blob
  <2> QED
    BY <2>1 DEF ReadsPending, Steps, Next, vars
<1>t. stage \in [Blob -> Stage] /\ lcore \in [Blob -> Core]
  BY DEF Inductive, TypeOK
<1>0. CASE stage'[a] = stage[a] /\ UNCHANGED <<lcore, null>>
  BY <1>0 DEF ReadsPending
<1>1. CASE \/ LoadStorage \/ StorageLoaded \/ CloseStorage \/ StoreUnloaded
           \/ Ended \/ UNCHANGED vars
  BY <1>0, <1>1 DEF LoadStorage, StorageLoaded, CloseStorage, StoreUnloaded, Ended,
     Abort, vars, storeVars, claimVars
<1>2. CASE StartBlobs
  <2>1. CASE Abort \/ Undefined
    BY <1>0, <2>1 DEF Abort, Undefined, storeVars, claimVars
  <2>2. CASE ~ (Abort \/ Undefined)
    BY <1>2, <2>2 DEF StartBlobs
  <2> QED
    BY <2>1, <2>2
<1>3. ASSUME NEW c \in Core, CreateChannel(c)
      PROVE  lcore'[a] \notin null'
  <2>1. stage[a] \in Pipe
    BY <1>3 DEF CreateChannel, Pipe
  <2> QED
    BY <1>3, <2>1, ChannelsMade DEF CreateChannel
<1>4. ASSUME NEW c \in Core, ExchangeReadingCount(c)
      PROVE  lcore'[a] \notin null'
  <2>1. CASE Undefined \/ ~ Exchanges(c)
    BY <1>0, <1>4, <2>1 DEF ExchangeReadingCount, Undefined, storeVars, claimVars
  <2>2. CASE ~ Undefined /\ Exchanges(c)
    <3>1. /\ stage' = [stage EXCEPT ![running[c]] = "reading"]
          /\ lcore[running[c]] \notin null /\ UNCHANGED <<lcore, null>>
      BY <1>4, <2>2 DEF ExchangeReadingCount, storeVars, claimVars
    <3> QED
      BY <1>t, <3>1 DEF ReadsPending
  <2> QED
    BY <2>1, <2>2
<1>5. ASSUME NEW c \in Core, NEW b \in Blob, LoadReadingCount(c, b)
      PROVE  lcore'[a] \notin null'
  BY <1>0, <1>5 DEF LoadReadingCount, storeVars, claimVars
<1>6. ASSUME NEW b \in Blob,
             OpenBlob(b) \/ BlobOpened(b) \/ BlobRead(b) \/ CloseBlob(b)
      PROVE  lcore'[a] \notin null'
  BY <1>0, <1>6, <1>t DEF OpenBlob, BlobOpened, BlobRead, CloseBlob, Abort, vars,
     storeVars, claimVars
<1>7. ASSUME NEW b \in Blob, ListBlob(b)
      PROVE  lcore'[a] \notin null'
  <2>1. stage' = [stage EXCEPT ![b] = "idle"] /\ UNCHANGED null
        /\ lcore' = [lcore EXCEPT ![b] = b % NumCores]
    BY <1>7 DEF ListBlob
  <2>2. stage[a] = "reading" /\ a # b
    BY <1>t, <2>1
  <2> QED
    BY <1>t, <2>1, <2>2 DEF ReadsPending
<1>8. ASSUME NEW b \in Blob, BlobClosed(b)
      PROVE  lcore'[a] \notin null'
  <2>1. CASE Abort \/ Undefined
    BY <1>0, <2>1 DEF Abort, Undefined, storeVars, claimVars
  <2>2. CASE ~ (Abort \/ Undefined) /\ LastBlob(completed_count + 1)
    BY <1>0, <1>8, <1>t, <2>2 DEF BlobClosed
  <2>3. CASE ~ (Abort \/ Undefined) /\ ~ LastBlob(completed_count + 1)
    <3>1. /\ stage'[a] = IF a = b THEN "closed"
                         ELSE IF a = head THEN "open" ELSE stage[a]
          /\ lcore'[a] = IF a = head THEN 0 ELSE lcore[a]
          /\ UNCHANGED null
      BY <1>8, <2>3 DEF BlobClosed, Claimed
    <3> QED
      BY <3>1 DEF ReadsPending
  <2> QED
    BY <2>1, <2>2, <2>3
<1> QED
  BY <1>1, <1>2, <1>3, <1>4, <1>5, <1>6, <1>7, <1>8 DEF Steps, Next

(* The handlers that use a pointer unseen. *)
LEMMA UndefinedStep ==
  Inductive /\ UndefinedBecause /\ Steps => UndefinedBecause'
<1> SUFFICES ASSUME Inductive, UndefinedBecause, Steps, status' = "undefined"
             PROVE  AtNull' \/ Limit' > stored'
  BY DEF UndefinedBecause
<1>0. CASE UNCHANGED vars \/ (UNCHANGED stored /\ Ended)
  BY <1>0 DEF UndefinedBecause, AtNull, LastBlob, Blob, vars, storeVars, readVars, claimVars, Ended, Limit
<1>1. CASE UNCHANGED stored /\ Undefined /\ (AtNull \/ Limit > stored)
  BY <1>1 DEF AtNull, LastBlob, Blob, Undefined, storeVars, readVars, claimVars, Limit
<1>2. CASE UNCHANGED stored /\ StartBlobs
  BY <1>1, <1>2 DEF StartBlobs, Free, Abort
<1>3. ASSUME NEW c \in Core, UNCHANGED stored, ExchangeReadingCount(c)
      PROVE  AtNull' \/ Limit' > stored'
  BY <1>1, <1>3 DEF AtNull, ExchangeReadingCount
<1>4. ASSUME NEW b \in Blob, UNCHANGED stored, BlobClosed(b)
      PROVE  AtNull' \/ Limit' > stored'
  BY <1>1, <1>4 DEF AtNull, BlobClosed, Free, Abort
<1>5. ASSUME NEW b \in Blob,
             \/ ListBlob(b) \/ OpenBlob(b) \/ BlobOpened(b) \/ BlobRead(b)
             \/ CloseBlob(b) \/ \E c \in Core : LoadReadingCount(c, b)
      PROVE  FALSE
  BY <1>5 DEF ListBlob, OpenBlob, BlobOpened, BlobRead, CloseBlob, LoadReadingCount,
     Free, Abort, vars
<1>6. CASE \/ LoadStorage \/ StorageLoaded \/ CloseStorage \/ StoreUnloaded
           \/ \E c \in Core : CreateChannel(c)
  BY <1>6 DEF LoadStorage, StorageLoaded, CloseStorage, StoreUnloaded, CreateChannel,
     Free, Abort
<1> QED
  BY <1>0, <1>2, <1>3, <1>4, <1>5, <1>6 DEF Steps, Next

(* No blob is listed before every lcore's event has run, a read is pending *)
(* only on a channel its lcore has, and read_blob and the last close only  *)
(* ever reset a null pointer when an allocation of create_channels failed. *)
THEOREM ReadsUseChannels == Spec => []ReadsHaveChannels
<1>1. Init => ReadsPending /\ UndefinedBecause
  BY DEF Init, ReadsPending, UndefinedBecause
<1>2. Inductive /\ ReadsPending /\ [Next]_vars => ReadsPending'
  BY PendingStep DEF Steps
<1>3. Inductive /\ UndefinedBecause /\ [Next]_vars => UndefinedBecause'
  BY UndefinedStep DEF Steps
<1>4. Inductive /\ ReadsPending /\ UndefinedBecause => ReadsHaveChannels
  BY ChannelsMade DEF Inductive, ChannelInv, TypeOK, ReadsPending, UndefinedBecause,
     ReadsHaveChannels, Pipe
<1> QED
  BY InductiveCorrect, <1>1, <1>2, <1>3, <1>4, PTL DEF Spec
-------------------------------------------------------------------------------
(* The blobs in flight and those closed are the first head ones. *)
LEMMA FullPipeline == Inductive => PipelineFull
<1> SUFFICES ASSUME Inductive, Started
             PROVE  /\ Cardinality(InFlight) <= max_concurrency
                    /\ At("idle") # {} => Cardinality(InFlight) = max_concurrency
  BY DEF PipelineFull
<1> USE DEF Inductive
<1>1. /\ stored \in Nat /\ IsFiniteSet(Blob) /\ Cardinality(Blob) = stored
      /\ \A b \in Blob : b \in Nat /\ b < stored
  BY Sizes DEF TypeOK, Blob
<1>2. /\ IsFiniteSet(InFlight) /\ Cardinality(InFlight) \in Nat
      /\ IsFiniteSet(Closed) /\ Cardinality(Closed) \in Nat
      /\ max_concurrency \in Nat /\ head \in Nat
  BY <1>1, FS_Subset, FS_CardinalityType DEF InFlight, Closed, At, TypeOK
<1>3. CASE Closed = Blob
  <2>1. InFlight = {} /\ At("idle") = {}
    BY <1>3 DEF InFlight, Closed, At
  <2>2. Cardinality(InFlight) = 0
    BY <2>1, FS_EmptySet
  <2> QED
    BY <1>2, <2>1, <2>2
<1>4. CASE Closed # Blob
  <2>1. head = max_concurrency + Cardinality(Closed)
    BY <1>4 DEF ClaimInv
  <2>2. Cardinality(InFlight \cup Closed) = Cardinality(InFlight) + Cardinality(Closed)
    <3>1. InFlight \cap Closed = {}
      BY DEF InFlight, Closed, At
    <3>2. Cardinality(InFlight \cup Closed)
            = Cardinality(InFlight) + Cardinality(Closed) - Cardinality(InFlight \cap Closed)
      BY <1>2, FS_Union
    <3>3. Cardinality(InFlight \cap Closed) = 0
      BY <3>1, FS_EmptySet
    <3> QED
      BY <1>2, <3>2, <3>3
  <2>3. InFlight \cup Closed = {b \in Blob : b < head}
    BY DEF InFlight, Closed, At, ClaimInv
  <2>4. CASE head <= stored
    <3>1. {b \in Blob : b < head} = 0 .. head - 1
      BY <1>1, <1>2, <2>4 DEF Blob
    <3>2. Cardinality(InFlight \cup Closed) = head
      BY <1>2, <2>3, <3>1, Interval
    <3> QED
      BY <1>2, <2>1, <2>2, <3>2
  <2>5. CASE head > stored
    <3>1. InFlight \cup Closed = Blob
      BY <1>1, <1>2, <2>3, <2>5
    <3>2. At("idle") = {}
      BY <1>1, <1>2, <2>5 DEF ClaimInv, At
    <3>3. Cardinality(InFlight) <= max_concurrency
      BY <1>1, <1>2, <2>1, <2>2, <2>5, <3>1
    <3> QED
      BY <3>2, <3>3
  <2> QED
    BY <1>1, <1>2, <2>4, <2>5
<1> QED
  BY <1>3, <1>4

(* --concurrency bounds the blobs in flight, and no place is lost while a  *)
(* blob waits.                                                             *)
THEOREM PipelineIsFull == Spec => []PipelineFull
BY InductiveCorrect, FullPipeline, PTL

(* read_blob never finds max_concurrency reads under way: the blob it is   *)
(* about to read is one of those in flight itself.                         *)
THEOREM ReadsNeverThrottled == Spec => []ReadNeverThrottled
<1>1. Inductive => ReadNeverThrottled
  <2> SUFFICES ASSUME Inductive, NEW b \in At("read")
               PROVE  reading_count < max_concurrency
    BY DEF ReadNeverThrottled
  <2> USE DEF Inductive
  <2>1. b \in Blob /\ stage[b] = "read" /\ Started
    BY DEF At, ClaimInv
  <2>2. stored \in Nat /\ stored > 0 /\ IsFiniteSet(Blob)
    BY <2>1, Sizes DEF TypeOK, Blob
  <2>3. /\ InFlight \in SUBSET Blob /\ b \notin At("reading")
        /\ At("reading") \cup {b} \in SUBSET InFlight /\ b \in InFlight
    BY <2>1 DEF InFlight, At
  <2>4. IsFiniteSet(InFlight) /\ Cardinality(InFlight) \in Nat
    BY <2>2, <2>3, FS_Subset, FS_CardinalityType
  <2>5. /\ Cardinality(At("reading")) \in Nat
        /\ Cardinality(At("reading") \cup {b}) = Cardinality(At("reading")) + 1
    BY <2>3, <2>4, OneMore
  <2>6. Cardinality(At("reading") \cup {b}) <= Cardinality(InFlight)
    BY <2>3, <2>4, FS_Subset
  <2>7. Cardinality(InFlight) <= max_concurrency /\ max_concurrency \in Nat
    BY <2>1, <2>2, FullPipeline DEF PipelineFull, TypeOK
  <2>8. reading_count = Cardinality(At("reading"))
    BY DEF CountsExact
  <2> QED
    BY <2>4, <2>5, <2>6, <2>7, <2>8
<1> QED
  BY InductiveCorrect, <1>1, PTL
-------------------------------------------------------------------------------
(* ReadBlobs implements Transfer. *)

(* The instance brings copies of these operators with it. *)
LEMMA SameOperators ==
  /\ \A S : T!Cardinality(S) = Cardinality(S)
  /\ \A S : IsFiniteSet(S) => T!IsFiniteSet(S)
BY DEF T!Cardinality, Cardinality, T!IsFiniteSet, IsFiniteSet

LEMMA LimitType ==
  ASSUME TypeOK
  PROVE  Limit \in Nat
BY DEF TypeOK, Limit

LEMMA RefinesInit == Init => T!Init
<1> SUFFICES ASSUME Init
             PROVE  T!Init
  OBVIOUS
<1>1. TypeOK
  BY InductiveInit DEF Inductive
<1>2. Limit \in Nat /\ T!IsFiniteSet(Blob)
  BY <1>1, LimitType, Sizes, SameOperators DEF TypeOK
<1>3. InFlight = {} /\ Closed = {} /\ Outcome = "running"
  BY DEF Init, InFlight, Closed, At, Outcome
<1> QED
  BY <1>2, <1>3 DEF T!Init

(* A step that moves no blob into the pipeline or out of it stutters. *)
LEMMA Stutters ==
  ASSUME UNCHANGED <<stored, status, max_concurrency>>,
         InFlight' = InFlight, Closed' = Closed
  PROVE  UNCHANGED T!vars
<1>1. Blob' = Blob /\ Limit' = Limit /\ Outcome' = Outcome
  BY DEF Blob, Limit, Outcome
<1> QED
  BY <1>1 DEF T!vars

(* The end of the process without a report. *)
LEMMA EndsBadly ==
  ASSUME status = "running", status' \in {"aborted", "undefined"},
         UNCHANGED <<stored, max_concurrency>>,
         InFlight' = InFlight, Closed' = Closed
  PROVE  T!Next
<1>1. Blob' = Blob /\ Limit' = Limit /\ Outcome = "running" /\ Outcome' = "failed"
  BY DEF Blob, Limit, Outcome
<1> QED
  BY <1>1 DEF T!Next, T!Fail

(* The blobs in D leave the pipeline for good, those in S enter it. *)
LEMMA Advances ==
  ASSUME Inductive', UNCHANGED <<stored, status>>, status = "running", Limit' = Limit,
         Started', stored > 0, max_concurrency' <= Limit,
         NEW D \in SUBSET InFlight, NEW S \in SUBSET Blob,
         S \cap (InFlight \cup Closed) = {},
         InFlight' = (InFlight \ D) \cup S, Closed' = Closed \cup D
  PROVE  T!Next
<1>1. Blob' = Blob /\ Outcome = "running" /\ Outcome' = "running"
  BY DEF Blob, Outcome
<1>2. TypeOK' /\ PipelineFull'
  <2>1. PipelineFull'
    BY FullPipeline, PTL
  <2> QED
    BY <2>1 DEF Inductive
<1>3. Limit \in Nat
  <2>1. Limit' \in Nat
    BY <1>2 DEF TypeOK, Limit
  <2> QED
    BY <2>1
<1>4. Cardinality(InFlight') <= Limit
  <2>1. Cardinality(InFlight') <= max_concurrency' /\ max_concurrency' \in Nat
    BY <1>2 DEF PipelineFull, TypeOK
  <2>2. stored \in Nat /\ InFlight' \subseteq Blob
    BY <1>1, <1>2 DEF TypeOK, InFlight
  <2>3. Cardinality(InFlight') \in Nat
    BY <2>2, Sizes, FS_Subset, FS_CardinalityType
  <2> QED
    BY <1>3, <2>1, <2>3
<1>5. T!Advance(D, S)
  BY <1>1, <1>4, SameOperators DEF T!Advance
<1>6. S \in SUBSET T!Waiting
  BY DEF T!Waiting
<1> QED
  BY <1>5, <1>6 DEF T!Next

(* The move of one blob along the pipeline. *)
LEMMA MoveStutters ==
  ASSUME TypeOK, NEW b \in Blob, NEW s \in Stage \ {"unlisted", "idle", "closed"},
         stage[b] \notin {"unlisted", "idle", "closed"},
         stage' = [stage EXCEPT ![b] = s],
         UNCHANGED <<stored, max_concurrency>>, status = "running",
         status' \in {"running", "aborted"}
  PROVE  T!Next \/ UNCHANGED T!vars
<1>1. Blob' = Blob
  BY DEF Blob
<1>2. InFlight' = InFlight /\ Closed' = Closed
  BY <1>1 DEF InFlight, Closed, At, TypeOK
<1> QED
  BY <1>2, Stutters, EndsBadly

LEMMA StartBlobsRefines ==
  ASSUME Inductive, Inductive', StartBlobs, UNCHANGED stored
  PROVE  T!Next \/ UNCHANGED T!vars
<1>1. TypeOK /\ status = "running" /\ ~ Started
  BY DEF Inductive, StartBlobs, Free, Started, Unloading
<1>2. Limit \in Nat /\ Blob' = Blob
  BY <1>1, LimitType DEF Blob
<1>3. CASE status' \in {"aborted", "undefined"}
  <2>1. UNCHANGED <<stage, max_concurrency>>
    BY <1>1, <1>3 DEF StartBlobs, Abort, Undefined, claimVars
  <2> QED
    BY <1>1, <1>3, <2>1, SetsKept, EndsBadly
<1>4. CASE status' \notin {"aborted", "undefined"}
  <2>1. /\ UNCHANGED status /\ loaded_count = stored /\ max_concurrency' = Limit
        /\ stage' = [b \in Blob |-> IF b < Limit THEN "open" ELSE "idle"]
        /\ bs' = IF stored = 0 THEN "close" ELSE "ready"
        /\ Limit <= stored
    BY <1>1, <1>4 DEF StartBlobs, Abort, Undefined
  <2>2. Limit' = Limit
    BY <1>1, <1>2, <2>1 DEF Limit, TypeOK
  <2>3. \A b \in Blob : stage[b] = "idle"
    BY <1>1, <2>1 DEF Inductive, ClaimInv, TypeOK, Blob
  <2> DEFINE S == {b \in Blob : b < Limit}
  <2>4. InFlight = {} /\ Closed = {} /\ Closed' = {} /\ InFlight' = S
    BY <1>2, <2>1, <2>3 DEF InFlight, Closed, At
  <2>5. CASE stored = 0
    <3>1. Blob = {}
      BY <2>5 DEF Blob
    <3>2. InFlight' = InFlight /\ Closed' = Closed
      BY <2>4, <3>1
    <3> QED
      BY <1>2, <2>1, <2>2, <3>2 DEF T!vars, Outcome
  <2>6. CASE stored # 0
    <3>1. Started' /\ stored > 0 /\ max_concurrency' <= Limit
      BY <1>1, <1>2, <2>1, <2>6 DEF Started, TypeOK
    <3>2. /\ {} \in SUBSET InFlight /\ S \in SUBSET Blob
          /\ S \cap (InFlight \cup Closed) = {}
          /\ InFlight' = (InFlight \ {}) \cup S /\ Closed' = Closed \cup {}
      BY <2>4
    <3> HIDE DEF S
    <3> QED
      BY <1>1, <2>1, <2>2, <3>1, <3>2, Advances
  <2> QED
    BY <2>5, <2>6
<1> QED
  BY <1>3, <1>4

LEMMA BlobClosedRefines ==
  ASSUME Inductive, Inductive', NEW b \in Blob, BlobClosed(b), UNCHANGED stored
  PROVE  T!Next \/ UNCHANGED T!vars
<1>1. /\ TypeOK /\ status = "running" /\ stage[b] = "closing" /\ b \in InFlight
      /\ Blob' = Blob /\ stored > 0
  <2>1. TypeOK /\ status = "running" /\ stage[b] = "closing" /\ b \in InFlight
    BY DEF Inductive, BlobClosed, Free, InFlight
  <2>2. Blob' = Blob /\ stored > 0
    BY <2>1 DEF TypeOK, Blob
  <2> QED
    BY <2>1, <2>2
<1>2. Started /\ max_concurrency <= Limit
  <2>1. Started
    BY <1>1 DEF Inductive, ClaimInv
  <2> QED
    BY <1>1, <2>1 DEF Limit, TypeOK
<1>3. CASE Abort \/ Undefined
  <2>1. UNCHANGED <<stage, max_concurrency>> /\ status' \in {"aborted", "undefined"}
    BY <1>3 DEF Abort, Undefined, claimVars
  <2> QED
    BY <1>1, <2>1, SetsKept, EndsBadly
<1>4. CASE ~ (Abort \/ Undefined)
  <2>1. UNCHANGED <<status, max_concurrency>> /\ bs' \in {bs, "unloading"}
    BY <1>4 DEF BlobClosed
  <2>2. Limit' = Limit /\ Started' /\ max_concurrency' <= Limit
    BY <1>2, <2>1 DEF Limit, Started, Unloading
  <2>3. CASE LastBlob(completed_count + 1)
    <3>1. stage' = [stage EXCEPT ![b] = "closed"]
      BY <1>4, <2>3 DEF BlobClosed
    <3>2. InFlight' = InFlight \ {b} /\ Closed' = Closed \cup {b}
      BY <1>1, <3>1 DEF InFlight, Closed, At, TypeOK
    <3>3. /\ {b} \in SUBSET InFlight /\ {} \in SUBSET Blob
          /\ {} \cap (InFlight \cup Closed) = {}
          /\ InFlight' = (InFlight \ {b}) \cup {}
      BY <1>1, <3>2
    <3> QED
      BY <1>1, <2>1, <2>2, <3>2, <3>3, Advances
  <2>4. CASE ~ LastBlob(completed_count + 1)
    <3>1. stage' = [a \in Blob |-> IF a = b THEN "closed"
                                   ELSE IF a = head THEN "open" ELSE stage[a]]
      BY <1>4, <2>4 DEF BlobClosed, Claimed
    <3>2. \A a \in Blob : a = head => stage[a] = "idle"
      BY <1>1, <1>2 DEF Inductive, ClaimInv, TypeOK, Blob
    <3> DEFINE S == {a \in Blob : a = head}
    <3>3. InFlight' = (InFlight \ {b}) \cup S /\ Closed' = Closed \cup {b}
      BY <1>1, <3>1, <3>2 DEF InFlight, Closed, At
    <3>4. /\ {b} \in SUBSET InFlight /\ S \in SUBSET Blob
          /\ S \cap (InFlight \cup Closed) = {}
      BY <1>1, <3>2 DEF InFlight, Closed, At
    <3> HIDE DEF S
    <3> QED
      BY <1>1, <2>1, <2>2, <3>3, <3>4, Advances
  <2> QED
    BY <2>3, <2>4
<1> QED
  BY <1>3, <1>4

LEMMA StoreUnloadedRefines ==
  ASSUME Inductive, StoreUnloaded, UNCHANGED stored
  PROVE  T!Next \/ UNCHANGED T!vars
<1>1. status = "running" /\ bs = "unloading" /\ UNCHANGED <<stage, max_concurrency>>
  BY DEF StoreUnloaded, Free, Abort, claimVars
<1>2. CASE Abort
  BY <1>1, <1>2, SetsKept, EndsBadly DEF Abort
<1>3. CASE ~ Abort
  <2>1. status' = "stopped" /\ Blob' = Blob /\ Limit' = Limit
    BY <1>1, <1>3 DEF StoreUnloaded, Blob, Limit
  <2>2. \A b \in Blob : stage[b] = "closed"
    BY <1>1 DEF Inductive, CleanShutdown, Unloading
  <2>3. InFlight = {} /\ Closed = Blob
    BY <2>2 DEF InFlight, Closed, At
  <2>4. InFlight' = InFlight /\ Closed' = Closed
    BY <1>1, SetsKept
  <2>5. T!Report
    BY <1>1, <2>1, <2>3, <2>4 DEF T!Report, T!Waiting, Outcome
  <2> QED
    BY <2>5 DEF T!Next
<1> QED
  BY <1>2, <1>3

LEMMA ListBlobRefines ==
  ASSUME Inductive, NEW b \in Blob, ListBlob(b), UNCHANGED stored
  PROVE  UNCHANGED T!vars
<1>1. /\ TypeOK /\ b = loaded_count /\ Blob' = Blob
      /\ UNCHANGED <<status, max_concurrency>>
      /\ stage' = [stage EXCEPT ![b] = "idle"]
  BY DEF Inductive, ListBlob, Blob
<1>2. stage[b] = "unlisted"
  BY <1>1 DEF Inductive, ClaimInv, ListBlob, Started, Unloading, TypeOK, Blob
<1>3. InFlight' = InFlight /\ Closed' = Closed
  BY <1>1, <1>2 DEF InFlight, Closed, At, TypeOK
<1> QED
  BY <1>1, <1>3, Stutters

LEMMA RefinesStep == Inductive /\ Steps => [T!Next]_T!vars
<1> SUFFICES ASSUME Inductive, Steps
             PROVE  T!Next \/ UNCHANGED T!vars
  BY DEF T!vars
<1>i. Inductive'
  BY InductiveStep
<1>t. TypeOK
  BY DEF Inductive
<1>0. CASE UNCHANGED vars \/ Ended
  <2>1. UNCHANGED <<stored, status, stage, max_concurrency>>
    BY <1>0 DEF Ended, vars, claimVars
  <2> QED
    BY <2>1, SetsKept, Stutters
<1>s. CASE ~ UNCHANGED vars /\ ~ Ended
  <2>1. Next /\ UNCHANGED stored
    BY <1>s DEF Steps, Next
  <2>2. CASE LoadStorage \/ StorageLoaded \/ CloseStorage
    <3>1. /\ status = "running" /\ status' \in {"running", "aborted"}
          /\ UNCHANGED <<stage, max_concurrency>>
      BY <2>2 DEF LoadStorage, StorageLoaded, CloseStorage, Free, Abort, claimVars
    <3> QED
      BY <2>1, <3>1, SetsKept, Stutters, EndsBadly
  <2>3. CASE StartBlobs
    BY <1>i, <2>1, <2>3, StartBlobsRefines
  <2>4. CASE StoreUnloaded
    BY <2>1, <2>4, StoreUnloadedRefines
  <2>5. ASSUME NEW c \in Core, CreateChannel(c)
        PROVE  UNCHANGED T!vars
    <3>1. UNCHANGED <<status, stage, max_concurrency>>
      BY <2>5 DEF CreateChannel, claimVars
    <3> QED
      BY <2>1, <3>1, SetsKept, Stutters
  <2>6. ASSUME NEW c \in Core, ExchangeReadingCount(c)
        PROVE  T!Next \/ UNCHANGED T!vars
    <3>1. /\ status' \in {"running", "undefined"} /\ status = "running"
          /\ UNCHANGED max_concurrency
      BY <2>6 DEF ExchangeReadingCount, Undefined, claimVars
    <3>2. CASE UNCHANGED stage
      BY <2>1, <3>1, <3>2, SetsKept, Stutters, EndsBadly
    <3>3. CASE ~ UNCHANGED stage
      <4>1. /\ running[c] \in Blob /\ stage[running[c]] = "read"
            /\ stage' = [stage EXCEPT ![running[c]] = "reading"] /\ UNCHANGED status
        BY <1>t, <2>6, <3>3 DEF ExchangeReadingCount, Undefined, Inductive, ReadInv, TypeOK
      <4> QED
        BY <1>t, <2>1, <3>1, <4>1, MoveStutters DEF Stage
    <3> QED
      BY <3>2, <3>3
  <2>7. ASSUME NEW c \in Core, NEW b \in Blob, LoadReadingCount(c, b)
        PROVE  UNCHANGED T!vars
    <3>1. UNCHANGED <<status, stage, max_concurrency>>
      BY <2>7 DEF LoadReadingCount, claimVars
    <3> QED
      BY <2>1, <3>1, SetsKept, Stutters
  <2>8. ASSUME NEW b \in Blob, ListBlob(b)
        PROVE  UNCHANGED T!vars
    BY <2>1, <2>8, ListBlobRefines
  <2>9. ASSUME NEW b \in Blob, OpenBlob(b) \/ BlobOpened(b) \/ BlobRead(b) \/ CloseBlob(b)
        PROVE  T!Next \/ UNCHANGED T!vars
    <3>1. /\ status = "running" /\ status' \in {"running", "aborted"}
          /\ UNCHANGED max_concurrency
      BY <2>9 DEF OpenBlob, BlobOpened, BlobRead, CloseBlob, Free, Abort, vars, claimVars
    <3>2. CASE UNCHANGED stage
      BY <2>1, <3>1, <3>2, SetsKept, Stutters, EndsBadly
    <3>3. CASE ~ UNCHANGED stage
      <4>1. /\ stage[b] \in {"open", "opening", "reading", "close"}
            /\ \E s \in {"opening", "read", "close", "closing"} :
                 stage' = [stage EXCEPT ![b] = s]
        BY <2>9, <3>3 DEF OpenBlob, BlobOpened, BlobRead, CloseBlob, Abort, vars
      <4> QED
        BY <1>t, <2>1, <3>1, <4>1, MoveStutters DEF Stage
    <3> QED
      BY <3>2, <3>3
  <2>10. ASSUME NEW b \in Blob, BlobClosed(b)
         PROVE  T!Next \/ UNCHANGED T!vars
    BY <1>i, <2>1, <2>10, BlobClosedRefines
  <2> QED
    BY <1>s, <2>1, <2>2, <2>3, <2>4, <2>5, <2>6, <2>7, <2>8, <2>9, <2>10 DEF Next
<1> QED
  BY <1>0, <1>s

(* Every run reads each blob of the store once, never more of them         *)
(* together than --concurrency, and reports when and only when all of them *)
(* are closed.                                                             *)
THEOREM ImplementsTransfer == Spec => TransferSpec
<1>1. Inductive /\ [Next]_vars => [T!Next]_T!vars
  BY RefinesStep DEF Steps
<1> QED
  BY RefinesInit, InductiveCorrect, <1>1, PTL DEF Spec, TransferSpec, T!Spec
===============================================================================
