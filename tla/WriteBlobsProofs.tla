--------------------------- MODULE WriteBlobsProofs ---------------------------
(***************************************************************************)
(* Theorems about WriteBlobs for every archive, number of lcores and       *)
(* concurrency option.                                                     *)
(***************************************************************************)
EXTENDS WriteBlobs, FiniteSetTheorems, TLAPS

USE ConstantsOK DEF ConstantsOK, File, Core

Steps == [Next]_vars
-------------------------------------------------------------------------------
(* The cardinalities the handlers count with. *)
LEMMA Interval ==
  ASSUME NEW n \in Nat
  PROVE  IsFiniteSet(0 .. n - 1) /\ Cardinality(0 .. n - 1) = n
<1>1. /\ IsFiniteSet(0 .. n - 1)
      /\ Cardinality(0 .. n - 1) = IF 0 > n - 1 THEN 0 ELSE (n - 1) - 0 + 1
  <2>1. 0 \in Int /\ n - 1 \in Int
    OBVIOUS
  <2> QED
    BY <2>1, FS_Interval, Zenon
<1> QED
  BY <1>1

LEMMA FilesFinite ==
  /\ IsFiniteSet(File) /\ Cardinality(File) = NumFiles
  /\ IsFiniteSet(Core) /\ Cardinality(Core) = NumCores
BY Interval

(* n, and only n, files come before the n-th. *)
LEMMA Prefix ==
  ASSUME NEW n \in Nat, n <= NumFiles
  PROVE  Cardinality({f \in File : f < n}) = n
<1>1. {f \in File : f < n} = 0 .. n - 1
  OBVIOUS
<1> QED
  BY <1>1, Interval

(* An element joins a set of files or of lcores. *)
LEMMA OneMore ==
  ASSUME NEW D, IsFiniteSet(D), NEW S \in SUBSET D, NEW x \in D, x \notin S
  PROVE  /\ Cardinality(S) \in Nat
         /\ Cardinality(S \cup {x}) = Cardinality(S) + 1
BY FS_Subset, FS_AddElement, FS_CardinalityType

(* As many files as there are, or as many lcores, are all of them. *)
LEMMA AllOfThem ==
  /\ \A S : S \subseteq File /\ Cardinality(S) = NumFiles => S = File
  /\ \A S : S \subseteq Core /\ Cardinality(S) = NumCores => S = Core
<1>1. ASSUME NEW D, IsFiniteSet(D), NEW S \in SUBSET D, Cardinality(S) = Cardinality(D)
      PROVE  S = D
  BY <1>1, FS_Subset
<1> QED
  BY <1>1, FilesFinite
-------------------------------------------------------------------------------
LEMMA MetaCountType ==
  ASSUME NEW n \in 0 .. WordSize - 1, NEW k \in Nat
  PROVE  AcquireMeta(n, k) \in 0 .. WordSize - 1 /\ ReleaseMeta(n) \in 0 .. WordSize - 1
BY DEF AcquireMeta, ReleaseMeta

LEMMA TypeInit == Init => TypeOK
BY DEF Init, TypeOK, Status, StoreState, ChannelState, Stage

(* What StartFiles leaves in meta_count is a size_t. *)
LEMMA LimitType ==
  ASSUME TypeOK
  PROVE  Limit \in Nat
BY DEF TypeOK, Limit

LEMMA TypeStep == TypeOK /\ Steps => TypeOK'
<1> SUFFICES ASSUME TypeOK, Steps
             PROVE  TypeOK'
  OBVIOUS
<1> USE DEF TypeOK, Status, StoreState, ChannelState, Stage
<1>0. CASE UNCHANGED vars
  BY <1>0 DEF vars, storeVars, fileVars, countVars
<1>1. CASE InitStorage
  BY <1>1 DEF InitStorage, Abort, Undefined, storeVars, fileVars, countVars
<1>2. CASE StorageReady
  BY <1>2 DEF StorageReady, Abort, Undefined, storeVars, fileVars, countVars
<1>3. CASE StartFiles
  <2>1. Limit \in Nat
    BY LimitType
  <2>2. AcquireMeta(meta_count, Limit) \in 0 .. WordSize - 1
    BY <2>1, MetaCountType
  <2> QED
    BY <1>3, <2>1, <2>2 DEF StartFiles, Undefined, storeVars, fileVars, countVars
<1>4. ASSUME NEW c \in Core, CreateChannel(c)
      PROVE  TypeOK'
  BY <1>4 DEF CreateChannel, storeVars, fileVars, countVars
<1>5. ASSUME NEW c \in Core, ReleaseChannel(c)
      PROVE  TypeOK'
  <2>1. CASE c \in null
    BY <1>5, <2>1 DEF ReleaseChannel, Undefined, storeVars, fileVars, countVars
  <2>2. CASE c \notin null
    <3>1. /\ channel' = [channel EXCEPT ![c] = "released"]
          /\ clean_count' = clean_count + 1 /\ bs' \in {bs, "unload"}
          /\ UNCHANGED <<status, null, start, channel_count, fileVars, countVars>>
      BY <1>5, <2>2 DEF ReleaseChannel
    <3> QED
      BY <3>1 DEF fileVars, countVars
  <2> QED
    BY <2>1, <2>2
<1>6. ASSUME NEW f \in File, CreateFile(f) \/ CloseFile(f)
      PROVE  TypeOK'
  <2>1. AcquireMeta(meta_count, 1) \in 0 .. WordSize - 1
    BY MetaCountType
  <2> QED
    BY <1>6, <2>1 DEF CreateFile, CloseFile, storeVars, fileVars, countVars
<1>7. ASSUME NEW f \in File, BlobCreated(f) \/ BlobOpened(f)
      PROVE  TypeOK'
  BY <1>7 DEF BlobCreated, BlobOpened, Completes, Abort, Undefined, storeVars, fileVars, countVars
<1>8. ASSUME NEW f \in File, BlobResized(f)
      PROVE  TypeOK'
  <2>1. ReleaseMeta(meta_count) \in 0 .. WordSize - 1
    BY MetaCountType
  <2> QED
    BY <1>8, <2>1 DEF BlobResized, storeVars, fileVars, countVars
<1>9. ASSUME NEW f \in File, WriteFile(f) \/ BlobWritten(f)
      PROVE  TypeOK'
  <2>1. CASE Abort
    BY <2>1 DEF Abort, Undefined, storeVars, fileVars, countVars
  <2>2. CASE WriteFile(f)
    BY <2>2 DEF WriteFile, Undefined, storeVars, fileVars, countVars
  <2>3. CASE BlobWritten(f) /\ ~ Abort
    <3>1. results[f] + 1 \in Nat
      OBVIOUS
    <3>2. results' \in [File -> Nat]
      BY <2>3, <3>1 DEF BlobWritten
    <3>3. stage' \in [File -> Stage]
      BY <2>3 DEF BlobWritten
    <3> QED
      BY <2>3, <3>2, <3>3 DEF BlobWritten, storeVars, countVars
  <2> QED
    BY <1>9, <2>1, <2>2, <2>3
<1>10. ASSUME NEW f \in File, BlobClosed(f)
       PROVE  TypeOK'
  <2>1. ReleaseMeta(meta_count) \in 0 .. WordSize - 1
    BY MetaCountType
  <2>2. CASE Abort
    BY <2>2 DEF Abort, Undefined, storeVars, fileVars, countVars
  <2>3. CASE ~ Abort
    <3>1. stage' \in [File -> Stage]
      <4>1. CASE LastFile(completed_count + 1)
        BY <1>10, <2>3, <4>1 DEF BlobClosed
      <4>2. CASE ~ LastFile(completed_count + 1)
        BY <1>10, <2>3, <4>2 DEF BlobClosed
      <4> QED
        BY <4>1, <4>2
    <3>2. lcore' \in [File -> Core]
      <4>1. MetaCore \in Core
        BY DEF MetaCore
      <4>2. CASE LastFile(completed_count + 1)
        BY <1>10, <2>3, <4>2 DEF BlobClosed
      <4>3. CASE ~ LastFile(completed_count + 1)
        BY <1>10, <2>3, <4>1, <4>3 DEF BlobClosed
      <4> QED
        BY <4>2, <4>3
    <3>3. channel' \in [Core -> ChannelState]
      BY <1>10, <2>3 DEF BlobClosed, CloseStorage
    <3>4. /\ head' \in Nat /\ completed_count' \in Nat
          /\ meta_count' \in 0 .. WordSize - 1
      <4>1. /\ meta_count' = ReleaseMeta(meta_count)
            /\ completed_count' = completed_count + 1
            /\ head' \in {head, head + 1}
        BY <1>10, <2>3 DEF BlobClosed
      <4> QED
        BY <2>1, <4>1
    <3> QED
      BY <1>10, <2>3, <3>1, <3>2, <3>3, <3>4 DEF BlobClosed
  <2> QED
    BY <2>2, <2>3
<1>11. CASE UnloadStore \/ StoreUnloaded
  BY <1>11 DEF UnloadStore, StoreUnloaded, Abort, Undefined, storeVars, fileVars, countVars
<1>12. CASE Ended
  BY <1>12, <1>0 DEF Ended
<1> QED
  BY <1>0, <1>1, <1>2, <1>3, <1>4, <1>5, <1>6, <1>7, <1>8, <1>9, <1>10, <1>11, <1>12
     DEF Steps, Next

(* Every variable keeps its type: the states of a store, a channel and a   *)
(* file, and a meta_count that stays a size_t even when it wraps.          *)
THEOREM TypeCorrect == Spec => []TypeOK
<1>1. TypeOK /\ [Next]_vars => TypeOK'
  BY TypeStep DEF Steps
<1> QED
  BY TypeInit, <1>1, PTL DEF Spec
-------------------------------------------------------------------------------
(* The inductive invariant: the counters of the lcores and of the closed   *)
(* files are exact, so "the last one goes on" is taken by one handler only *)
(* and only when every other one is done.                                  *)

LEMMA InductiveInit == Init => Inductive
<1> SUFFICES ASSUME Init
             PROVE  Inductive
  OBVIOUS
<1>1. Opened = {} /\ Released = {} /\ Closed = {}
  BY DEF Init, Opened, Released, Closed
<1> QED
  BY <1>1, TypeInit, FS_EmptySet
     DEF Init, Inductive, ChannelInv, ClaimInv, ClaimedInOrder, CleanShutdown

UnloadPhase == {"unload", "unloading", "unloaded"}

(* A step that neither claims nor closes a file, and leaves the channels   *)
(* alone, keeps the invariant.                                             *)
LEMMA Quiet ==
  ASSUME Inductive, TypeOK',
         UNCHANGED <<start, channel, null, channel_count, clean_count, completed_count,
                     head, max_concurrency>>,
         Closed' = Closed,
         \A f \in File : stage'[f] = "idle" <=> stage[f] = "idle",
         bs' \in {"none", "initializing"} => bs \in {"none", "initializing"},
         bs' \in UnloadPhase => bs \in UnloadPhase
  PROVE  Inductive'
<1>1. Opened' = Opened /\ Released' = Released
  BY DEF Opened, Released
<1>2. ChannelInv'
  BY <1>1 DEF Inductive, ChannelInv
<1>3. ClaimInv' /\ ClaimedInOrder'
  BY DEF Inductive, ClaimInv, ClaimedInOrder
<1>4. CleanShutdown'
  BY DEF Inductive, CleanShutdown, UnloadPhase
<1> QED
  BY <1>2, <1>3, <1>4 DEF Inductive

(* One of the handlers between create_file and spdk_blob_close ran. *)
LEMMA QuietFile ==
  ASSUME Inductive, TypeOK', UNCHANGED storeVars,
         UNCHANGED <<completed_count, head, max_concurrency>>,
         NEW f \in File, stage[f] \notin {"idle", "closed"},
         \/ UNCHANGED stage
         \/ \E s \in Stage \ {"idle", "closed"} : stage' = [stage EXCEPT ![f] = s]
  PROVE  Inductive'
<1>1. Closed' = Closed /\ \A g \in File : stage'[g] = "idle" <=> stage[g] = "idle"
  BY DEF Closed, Inductive, TypeOK
<1> QED
  BY <1>1, Quiet DEF storeVars

LEMMA InductiveStep == Inductive /\ Steps => Inductive'
<1> SUFFICES ASSUME Inductive, Steps
             PROVE  Inductive'
  OBVIOUS
<1>t. TypeOK /\ TypeOK'
  BY TypeStep DEF Inductive
<1>0. CASE UNCHANGED vars
  <2>1. Closed' = Closed
    BY <1>0 DEF vars, fileVars, Closed
  <2> QED
    BY <1>0, <1>t, <2>1, Quiet DEF vars, storeVars, fileVars, countVars
<1>a. CASE Abort \/ Undefined
  <2>1. Closed' = Closed
    BY <1>a DEF Abort, Undefined, fileVars, Closed
  <2> QED
    BY <1>a, <1>t, <2>1, Quiet DEF Abort, Undefined, storeVars, fileVars, countVars
<1>1. CASE InitStorage \/ UnloadStore \/ StoreUnloaded
  <2> SUFFICES ASSUME ~ Abort, ~ Undefined
               PROVE  Inductive'
    BY <1>a
  <2>1. /\ UNCHANGED <<start, channel, null, channel_count, clean_count, fileVars, countVars>>
        /\ bs' \in {"none", "initializing"} => bs \in {"none", "initializing"}
        /\ bs' \in UnloadPhase => bs \in UnloadPhase
    BY <1>1 DEF InitStorage, UnloadStore, StoreUnloaded, UnloadPhase, storeVars
  <2>2. Closed' = Closed
    BY <2>1 DEF fileVars, Closed
  <2> QED
    BY <1>t, <2>1, <2>2, Quiet DEF fileVars, countVars
<1>2. ASSUME NEW f \in File,
             \/ CreateFile(f) \/ BlobCreated(f) \/ BlobOpened(f) \/ BlobResized(f)
             \/ WriteFile(f) \/ BlobWritten(f) \/ CloseFile(f)
      PROVE  Inductive'
  <2> SUFFICES ASSUME ~ Abort, ~ Undefined
               PROVE  Inductive'
    BY <1>a
  <2>1. stage[f] \notin {"idle", "closed"}
    BY <1>2 DEF CreateFile, BlobCreated, BlobOpened, BlobResized, WriteFile,
                BlobWritten, CloseFile, Completes
  <2>2. /\ UNCHANGED storeVars
        /\ UNCHANGED <<completed_count, head, max_concurrency>>
    BY <1>2 DEF CreateFile, BlobCreated, BlobOpened, BlobResized, WriteFile,
                BlobWritten, CloseFile, Completes, countVars
  <2>3. \/ UNCHANGED stage
        \/ \E s \in Stage \ {"idle", "closed"} : stage' = [stage EXCEPT ![f] = s]
    BY <1>2 DEF CreateFile, BlobCreated, BlobOpened, BlobResized, WriteFile,
                BlobWritten, CloseFile, Completes, Stage
  <2> QED
    BY <1>t, <2>1, <2>2, <2>3, QuietFile
<1>3. CASE StorageReady
  <2> SUFFICES ASSUME ~ Abort, ~ Undefined
               PROVE  Inductive'
    BY <1>a
  <2>1. Opened' = Opened /\ Released' = Released /\ Closed' = Closed
    <3>1. \A c \in Core : channel[c] = "none" /\ channel'[c] = "requested"
      BY <1>3 DEF StorageReady, Inductive, ChannelInv
    <3> QED
      BY <1>3, <3>1 DEF StorageReady, Opened, Released, Closed, fileVars
  <2>2. ChannelInv'
    BY <1>3, <2>1 DEF StorageReady, Inductive, ChannelInv
  <2>3. ClaimInv' /\ ClaimedInOrder'
    BY <1>3, <2>1 DEF StorageReady, Inductive, ClaimInv, ClaimedInOrder, fileVars, countVars
  <2>4. CleanShutdown'
    BY <1>3 DEF StorageReady, CleanShutdown
  <2> QED
    BY <1>t, <2>2, <2>3, <2>4 DEF Inductive
<1>4. ASSUME NEW c \in Core, CreateChannel(c)
      PROVE  Inductive'
  <2>1. Opened' = Opened \cup {c} /\ c \notin Opened /\ Released' = Released
    BY <1>4, <1>t DEF CreateChannel, Opened, Released, TypeOK, ChannelState
  <2>2. Closed' = Closed
    BY <1>4 DEF CreateChannel, Closed, fileVars
  <2>3. start = "none"
    BY <1>4, <2>1 DEF Inductive, ChannelInv
  <2>4. channel_count' = Cardinality(Opened')
    <3>1. Cardinality(Opened \cup {c}) = Cardinality(Opened) + 1
      BY <2>1, FilesFinite, OneMore DEF Opened
    <3> QED
      BY <1>4, <2>1, <3>1 DEF CreateChannel, Inductive, ChannelInv
  <2>5. start' # "none" => Opened' = Core
    <3>1. start' # "none" => channel_count' = NumCores
      BY <1>4, <2>3 DEF CreateChannel, LastChannel
    <3>2. Opened' \subseteq Core
      BY DEF Opened
    <3> QED
      BY <2>4, <3>1, <3>2, AllOfThem
  <2>6. ChannelInv'
    BY <1>4, <1>t, <2>1, <2>2, <2>3, <2>4, <2>5
       DEF CreateChannel, Inductive, ChannelInv, TypeOK
  <2>7. ClaimInv' /\ ClaimedInOrder'
    BY <1>4, <2>2, <2>3 DEF CreateChannel, Inductive, ClaimInv, ClaimedInOrder,
                            fileVars, countVars
  <2>8. CleanShutdown'
    BY <1>4, <1>t, <2>2 DEF CreateChannel, Inductive, CleanShutdown, TypeOK
  <2> QED
    BY <1>t, <2>6, <2>7, <2>8 DEF Inductive
<1>5. CASE StartFiles
  <2>1. CASE Undefined
    BY <1>a, <2>1
  <2>2. CASE ~ Undefined
    <3>1. Limit \in Nat /\ Limit <= NumFiles
      BY <1>5, <1>t, <2>2, LimitType DEF StartFiles
    <3>2. /\ start' = "done" /\ max_concurrency' = Limit /\ head' = Limit
          /\ stage' = [f \in File |-> IF f < Limit THEN "creating" ELSE stage[f]]
          /\ UNCHANGED <<bs, channel, null, channel_count, clean_count, completed_count>>
      BY <1>5, <2>2, <3>1 DEF StartFiles, Undefined
    <3>3. \A f \in File : stage[f] = "idle"
      BY <1>5 DEF StartFiles, Inductive, ClaimInv
    <3>4. Closed = {} /\ Closed' = {}
      BY <3>2, <3>3 DEF Closed
    <3>5. completed_count' = 0
      BY <3>2, <3>4, FS_EmptySet DEF Inductive, ClaimInv
    <3>6. Opened' = Opened /\ Released' = Released
      BY <3>2 DEF Opened, Released
    <3>7. \A c \in Core : channel[c] \notin {"releasing", "released"}
      BY <1>5 DEF StartFiles, Inductive, ChannelInv
    <3>8. ChannelInv'
      BY <1>5, <3>2, <3>4, <3>6, <3>7 DEF StartFiles, Inductive, ChannelInv
    <3>9. ClaimInv' /\ ClaimedInOrder'
      BY <3>1, <3>2, <3>3, <3>4, <3>5, FS_EmptySet DEF ClaimInv, ClaimedInOrder
    <3>10. CleanShutdown'
      BY <3>2, <3>7 DEF Inductive, CleanShutdown
    <3> QED
      BY <1>t, <3>8, <3>9, <3>10 DEF Inductive
  <2> QED
    BY <2>1, <2>2
<1>6. ASSUME NEW f \in File, BlobClosed(f)
      PROVE  Inductive'
  <2> SUFFICES ASSUME ~ Abort, ~ Undefined
               PROVE  Inductive'
    BY <1>a
  <2>1. f \notin Closed /\ start = "done"
    BY <1>6 DEF BlobClosed, Closed, Inductive, ClaimInv
  <2>2. \A c \in Core : channel[c] = "made"
    <3>1. \A c \in Core : channel[c] \notin {"releasing", "released"}
      BY <2>1 DEF Inductive, ChannelInv
    <3>2. Opened = Core
      BY <2>1 DEF Inductive, ChannelInv
    <3> QED
      BY <3>1, <3>2 DEF Opened
  <2>3. Closed' = Closed \cup {f}
    <3>1. CASE LastFile(completed_count + 1)
      BY <1>6, <1>t, <3>1 DEF BlobClosed, Closed, TypeOK
    <3>2. CASE ~ LastFile(completed_count + 1)
      <4>1. head \in File => stage[head] = "idle"
        BY <1>t, <2>1 DEF Inductive, ClaimedInOrder, TypeOK
      <4>2. stage' = [g \in File |-> IF g = f THEN "closed"
                                     ELSE IF g = head THEN "create" ELSE stage[g]]
        BY <1>6, <3>2 DEF BlobClosed, Claimed
      <4> QED
        BY <4>1, <4>2 DEF Closed
    <3> QED
      BY <3>1, <3>2
  <2>4. completed_count' = Cardinality(Closed')
    <3>1. Cardinality(Closed \cup {f}) = Cardinality(Closed) + 1
      BY <2>1, FilesFinite, OneMore DEF Closed
    <3> QED
      BY <1>6, <2>3, <3>1 DEF BlobClosed, Inductive, ClaimInv
  <2>5. CASE LastFile(completed_count + 1)
    <3>1. completed_count' = NumFiles
      BY <1>6, <2>5 DEF BlobClosed, LastFile
    <3>2. Closed' = File
      <4>1. Closed' \subseteq File
        BY DEF Closed
      <4> QED
        BY <2>4, <3>1, <4>1, AllOfThem
    <3>3. /\ channel' = [c \in Core |-> "releasing"]
          /\ stage' = [stage EXCEPT ![f] = "closed"]
          /\ UNCHANGED <<bs, null, start, channel_count, clean_count, max_concurrency, head>>
      BY <1>6, <2>5 DEF BlobClosed, CloseStorage
    <3>4. Opened' = Opened /\ Released' = Released
      BY <2>2, <3>3 DEF Opened, Released
    <3>5. ChannelInv'
      <4>1. bs \notin {"none", "initializing"}
        BY <2>1 DEF Inductive, ChannelInv
      <4> QED
        BY <2>1, <3>2, <3>3, <3>4, <4>1 DEF Inductive, ChannelInv
    <3>6. ClaimInv'
      BY <2>1, <2>4, <3>2, <3>3 DEF Inductive, ClaimInv
    <3>7. ClaimedInOrder'
      BY <1>6, <1>t, <2>1, <3>3 DEF BlobClosed, Inductive, ClaimedInOrder, TypeOK
    <3>8. CleanShutdown'
      <4>1. 0 \in Core
        OBVIOUS
      <4>2. bs \notin UnloadPhase
        BY <2>2, <4>1 DEF Inductive, CleanShutdown, UnloadPhase
      <4> QED
        BY <3>2, <3>3, <4>2 DEF CleanShutdown, UnloadPhase
    <3> QED
      BY <1>t, <3>5, <3>6, <3>7, <3>8 DEF Inductive
  <2>6. CASE ~ LastFile(completed_count + 1)
    <3>1. /\ head' = head + 1
          /\ stage' = [g \in File |-> IF g = f THEN "closed"
                                       ELSE IF g = head THEN "create" ELSE stage[g]]
          /\ UNCHANGED <<bs, channel, null, start, channel_count, clean_count, max_concurrency>>
          /\ completed_count' = completed_count + 1
      BY <1>6, <2>6 DEF BlobClosed, Claimed
    <3>2. Opened' = Opened /\ Released' = Released
      BY <3>1 DEF Opened, Released
    <3>3. ChannelInv'
      BY <2>2, <3>1, <3>2 DEF Inductive, ChannelInv
    <3>4. ClaimInv'
      <4>1. head = max_concurrency + completed_count
        BY <2>1 DEF Inductive, ClaimInv
      <4> QED
        BY <1>t, <2>1, <2>4, <3>1, <4>1 DEF Inductive, ClaimInv, TypeOK
    <3>5. ClaimedInOrder'
      BY <1>6, <1>t, <2>1, <3>1 DEF BlobClosed, Inductive, ClaimedInOrder, TypeOK
    <3>6. CleanShutdown'
      BY <2>2, <3>1 DEF Inductive, CleanShutdown
    <3> QED
      BY <1>t, <3>3, <3>4, <3>5, <3>6 DEF Inductive
  <2> QED
    BY <2>5, <2>6
<1>7. ASSUME NEW c \in Core, ReleaseChannel(c)
      PROVE  Inductive'
  <2> SUFFICES ASSUME ~ Undefined
               PROVE  Inductive'
    BY <1>a
  <2>1. Released' = Released \cup {c} /\ c \notin Released /\ Opened' = Opened
    BY <1>7, <1>t DEF ReleaseChannel, Opened, Released, TypeOK, ChannelState
  <2>2. Closed' = Closed /\ Closed = File /\ start = "done"
    BY <1>7 DEF ReleaseChannel, Closed, fileVars, Inductive, ChannelInv
  <2>3. clean_count' = Cardinality(Released')
    <3>1. Cardinality(Released \cup {c}) = Cardinality(Released) + 1
      BY <2>1, FilesFinite, OneMore DEF Released
    <3> QED
      BY <1>7, <2>1, <3>1 DEF ReleaseChannel, Inductive, ChannelInv
  <2>4. bs' # bs => Released' = Core
    <3>1. bs' # bs => clean_count' = NumCores
      BY <1>7 DEF ReleaseChannel, LastChannel
    <3>2. Released' \subseteq Core
      BY DEF Released
    <3> QED
      BY <2>3, <3>1, <3>2, AllOfThem
  <2>5. ChannelInv'
    BY <1>7, <1>t, <2>1, <2>2, <2>3 DEF ReleaseChannel, Inductive, ChannelInv, TypeOK
  <2>6. ClaimInv' /\ ClaimedInOrder'
    BY <1>7, <2>2 DEF ReleaseChannel, Inductive, ClaimInv, ClaimedInOrder,
                      fileVars, countVars
  <2>7. CleanShutdown'
    <3>1. bs' \in UnloadPhase => \A d \in Core : channel'[d] = "released"
      <4>1. CASE bs' = bs
        BY <1>7, <2>1, <4>1 DEF ReleaseChannel, Inductive, CleanShutdown, UnloadPhase, Released
      <4>2. CASE bs' # bs
        BY <2>4, <4>2 DEF Released
      <4> QED
        BY <4>1, <4>2
    <3> QED
      BY <2>2, <3>1 DEF CleanShutdown, UnloadPhase
  <2> QED
    BY <1>t, <2>5, <2>6, <2>7 DEF Inductive
<1>8. CASE Ended
  BY <1>8, <1>0 DEF Ended
<1> QED
  BY <1>0, <1>1, <1>2, <1>3, <1>4, <1>5, <1>6, <1>7, <1>8 DEF Steps, Next
LEMMA InductiveCorrect == Spec => []Inductive
<1>1. Inductive /\ [Next]_vars => Inductive'
  BY InductiveStep DEF Steps
<1> QED
  BY InductiveInit, <1>1, PTL DEF Spec
-------------------------------------------------------------------------------
(* --concurrency bounds the files in flight, and no place is lost while a  *)
(* file waits: the claims made by the callbacks of spdk_blob_close.        *)
LEMMA FullPipeline == Inductive => PipelineFull
<1> SUFFICES ASSUME Inductive, start = "done"
             PROVE  /\ Cardinality(InFlight) <= max_concurrency
                    /\ (\E f \in File : stage[f] = "idle") =>
                         Cardinality(InFlight) = max_concurrency
  BY DEF PipelineFull
<1> USE DEF Inductive
<1>1. /\ IsFiniteSet(InFlight) /\ Cardinality(InFlight) \in Nat
      /\ IsFiniteSet(Closed) /\ Cardinality(Closed) \in Nat
  BY FilesFinite, FS_Subset, FS_CardinalityType DEF InFlight, Closed
<1>2. CASE Closed = File
  <2>1. InFlight = {}
    BY <1>2 DEF InFlight, Closed
  <2>2. \A f \in File : stage[f] = "closed"
    BY <1>2 DEF Closed
  <2> QED
    BY <2>1, <2>2, FS_EmptySet DEF TypeOK
<1>3. CASE Closed # File
  <2>1. /\ head = max_concurrency + Cardinality(Closed)
        /\ max_concurrency \in Nat /\ head \in Nat
    BY <1>3 DEF ClaimInv, TypeOK
  <2>2. Cardinality(InFlight \cup Closed) = Cardinality(InFlight) + Cardinality(Closed)
    <3>1. InFlight \cap Closed = {}
      BY DEF InFlight, Closed
    <3>2. Cardinality(InFlight \cup Closed)
            = Cardinality(InFlight) + Cardinality(Closed) - Cardinality(InFlight \cap Closed)
      BY <1>1, FS_Union
    <3> QED
      BY <1>1, <3>1, <3>2, FS_EmptySet
  <2>3. InFlight \cup Closed = {f \in File : f < head}
    BY DEF InFlight, Closed, ClaimedInOrder
  <2>4. CASE head <= NumFiles
    <3>1. Cardinality(InFlight \cup Closed) = head
      BY <2>1, <2>3, <2>4, Prefix
    <3> QED
      BY <1>1, <2>1, <2>2, <3>1
  <2>5. CASE head > NumFiles
    <3>1. InFlight \cup Closed = File
      BY <2>1, <2>3, <2>5
    <3>2. \A f \in File : stage[f] # "idle"
      BY <2>1, <2>5 DEF ClaimedInOrder
    <3>3. Cardinality(InFlight \cup Closed) = NumFiles
      BY <3>1, FilesFinite
    <3>4. Cardinality(InFlight) <= max_concurrency
      BY <1>1, <2>1, <2>2, <2>5, <3>3
    <3> QED
      BY <3>2, <3>4
  <2> QED
    BY <2>1, <2>4, <2>5
<1> QED
  BY <1>2, <1>3

THEOREM PipelineIsFull == Spec => []PipelineFull
BY InductiveCorrect, FullPipeline, PTL

(* What a file waits for and what the lcores hold: no file is written      *)
(* before every lcore has asked for its channel, and none is given back    *)
(* while one is.                                                           *)
LEMMA ChannelsMade ==
  ASSUME Inductive, NEW f \in File, stage[f] \notin {"idle", "closed"}
  PROVE  start = "done" /\ \A c \in Core : channel[c] = "made"
<1> USE DEF Inductive
<1>1. start = "done" /\ f \notin Closed
  BY DEF ClaimInv, Closed
<1>2. \A c \in Core : channel[c] \in {"made", "releasing", "released"}
  BY <1>1 DEF ChannelInv, Opened
<1>3. \A c \in Core : channel[c] \notin {"releasing", "released"}
  BY <1>1 DEF ChannelInv
<1> QED
  BY <1>1, <1>2, <1>3

(* What a pending write relies on, and the only ways out of the language. *)
WritesPending == \A f \in File : stage[f] = "writing" => lcore[f] \notin null
UndefinedBecause ==
  status = "undefined" => AtNull \/ bs = "initializing" \/ Limit > NumFiles

LEMMA PendingStep == Inductive /\ WritesPending /\ Steps => WritesPending'
<1> SUFFICES ASSUME Inductive, WritesPending, Steps, NEW g \in File,
                    stage'[g] = "writing"
             PROVE  lcore'[g] \notin null'
  BY DEF WritesPending
<1>t. stage \in [File -> Stage] /\ lcore \in [File -> Core]
  BY DEF Inductive, TypeOK
<1>0. CASE stage'[g] = stage[g] /\ UNCHANGED <<lcore, null>>
  BY <1>0 DEF WritesPending
<1>1. CASE StartFiles
  BY <1>0, <1>1, <1>t DEF StartFiles, Undefined, storeVars, fileVars
<1>2. ASSUME NEW f \in File,
             \/ CreateFile(f) \/ BlobCreated(f) \/ BlobOpened(f) \/ BlobResized(f)
             \/ BlobWritten(f) \/ CloseFile(f)
      PROVE  lcore'[g] \notin null'
  BY <1>0, <1>2, <1>t DEF CreateFile, BlobCreated, BlobOpened, BlobResized, BlobWritten,
     CloseFile, Completes, Abort, storeVars, fileVars
<1>3. ASSUME NEW f \in File, WriteFile(f)
      PROVE  lcore'[g] \notin null'
  BY <1>0, <1>3, <1>t DEF WriteFile, HasChannel, Undefined, storeVars, fileVars
<1>4. ASSUME NEW f \in File, BlobClosed(f)
      PROVE  lcore'[g] \notin null'
  <2>1. CASE Abort
    BY <1>0, <2>1 DEF Abort, storeVars, fileVars
  <2>2. CASE ~ Abort /\ LastFile(completed_count + 1)
    BY <1>0, <1>4, <1>t, <2>2 DEF BlobClosed
  <2>3. CASE ~ Abort /\ ~ LastFile(completed_count + 1)
    <3>1. /\ stage'[g] = IF g = f THEN "closed"
                         ELSE IF g = head THEN "create" ELSE stage[g]
          /\ lcore'[g] = IF g = head THEN MetaCore ELSE lcore[g]
          /\ UNCHANGED null
      BY <1>4, <2>3 DEF BlobClosed, Claimed
    <3> QED
      BY <3>1 DEF WritesPending
  <2> QED
    BY <2>1, <2>2, <2>3
<1>5. ASSUME NEW c \in Core, CreateChannel(c)
      PROVE  lcore'[g] \notin null'
  <2>1. stage[g] = "writing"
    BY <1>5 DEF CreateChannel, fileVars
  <2> QED
    BY <1>5, <2>1, ChannelsMade DEF CreateChannel
<1>6. CASE \/ InitStorage \/ StorageReady \/ UnloadStore \/ StoreUnloaded \/ Ended
           \/ UNCHANGED vars
           \/ \E c \in Core : ReleaseChannel(c)
  BY <1>0, <1>6 DEF InitStorage, StorageReady, UnloadStore, StoreUnloaded, Ended,
     ReleaseChannel, Abort, Undefined, vars, storeVars, fileVars
<1> QED
  BY <1>1, <1>2, <1>3, <1>4, <1>5, <1>6 DEF Steps, Next

(* The handlers that use a pointer unseen. *)
LEMMA UndefinedStep ==
  Inductive /\ UndefinedBecause /\ Steps => UndefinedBecause'
<1> SUFFICES ASSUME Inductive, UndefinedBecause, Steps, status' = "undefined"
             PROVE  AtNull' \/ bs' = "initializing" \/ Limit' > NumFiles
  BY DEF UndefinedBecause
<1>0. CASE UNCHANGED vars \/ Ended
  BY <1>0 DEF UndefinedBecause, AtNull, vars, storeVars, fileVars, countVars, Ended, Limit
<1>1. CASE Undefined /\ (AtNull \/ bs = "initializing" \/ Limit > NumFiles)
  BY <1>1 DEF AtNull, Undefined, storeVars, fileVars, countVars, Limit
<1>2. CASE StorageReady
  BY <1>1, <1>2 DEF StorageReady, Abort
<1>3. CASE StartFiles
  BY <1>1, <1>3 DEF StartFiles
<1>4. ASSUME NEW f \in File, WriteFile(f)
      PROVE  AtNull' \/ bs' = "initializing" \/ Limit' > NumFiles
  <2>1. channel[lcore[f]] = "made"
    BY <1>4, ChannelsMade DEF WriteFile, Inductive, TypeOK
  <2> QED
    BY <1>1, <1>4, <2>1 DEF AtNull, WriteFile, HasChannel
<1>5. ASSUME NEW c \in Core, ReleaseChannel(c)
      PROVE  AtNull' \/ bs' = "initializing" \/ Limit' > NumFiles
  BY <1>1, <1>5 DEF AtNull, ReleaseChannel
<1>6. ASSUME NEW f \in File,
             \/ CreateFile(f) \/ BlobCreated(f) \/ BlobOpened(f) \/ BlobResized(f)
             \/ BlobWritten(f) \/ CloseFile(f) \/ BlobClosed(f)
      PROVE  FALSE
  BY <1>6 DEF CreateFile, BlobCreated, BlobOpened, BlobResized, BlobWritten,
     CloseFile, BlobClosed, Completes, Abort
<1>7. CASE \/ InitStorage \/ UnloadStore \/ StoreUnloaded
           \/ \E c \in Core : CreateChannel(c)
  BY <1>7 DEF InitStorage, UnloadStore, StoreUnloaded, CreateChannel, Abort
<1> QED
  BY <1>0, <1>2, <1>3, <1>4, <1>5, <1>6, <1>7 DEF Steps, Next

(* No file is written before its lcore's event has run, no channel is      *)
(* given back under a pending write, and write_file and close_storage only *)
(* ever use a null pointer when an allocation, the mapping of the archive  *)
(* or --concurrency gave them one.                                         *)
THEOREM WritesHaveChannels == Spec => []IoOnOpenChannel
<1>1. Init => WritesPending /\ UndefinedBecause
  BY DEF Init, WritesPending, UndefinedBecause
<1>2. Inductive /\ WritesPending /\ [Next]_vars => WritesPending'
  BY PendingStep DEF Steps
<1>3. Inductive /\ UndefinedBecause /\ [Next]_vars => UndefinedBecause'
  BY UndefinedStep DEF Steps
<1>4. Inductive /\ WritesPending /\ UndefinedBecause => IoOnOpenChannel
  BY ChannelsMade DEF Inductive, TypeOK, WritesPending, UndefinedBecause,
     IoOnOpenChannel, HasChannel
<1> QED
  BY InductiveCorrect, <1>1, <1>2, <1>3, <1>4, PTL DEF Spec

(* spdk_bs_unload is reached with every blob closed and every channel      *)
(* given back, whatever the order of the lcores.                           *)
THEOREM ShutdownIsClean == Spec => []CleanShutdown
<1>1. Inductive => CleanShutdown
  BY DEF Inductive
<1> QED
  BY InductiveCorrect, <1>1, PTL

(* No file is claimed twice and none is passed over. *)
THEOREM ClaimsInOrder == Spec => []ClaimedInOrder
<1>1. Inductive => ClaimedInOrder
  BY DEF Inductive
<1> QED
  BY InductiveCorrect, <1>1, PTL
-------------------------------------------------------------------------------
(* Every completed write is recorded once. *)
LEMMA ResultsStep == Inductive /\ ResultsExact /\ Steps => ResultsExact'
<1> SUFFICES ASSUME Inductive, ResultsExact, Steps, NEW g \in File
             PROVE  results'[g] = IF stage'[g] \in {"close", "closing", "closed"}
                                  THEN 1 ELSE 0
  BY DEF ResultsExact
<1>t. /\ stage \in [File -> Stage] /\ results \in [File -> Nat]
      /\ results[g] = IF stage[g] \in {"close", "closing", "closed"} THEN 1 ELSE 0
  BY DEF Inductive, TypeOK, ResultsExact
<1>0. CASE UNCHANGED fileVars
  BY <1>0, <1>t DEF fileVars
<1>1. CASE StartFiles
  <2>1. stage[g] = "idle"
    BY <1>1 DEF StartFiles, Inductive, ClaimInv
  <2> QED
    BY <1>0, <1>1, <1>t, <2>1 DEF StartFiles, Undefined
<1>2. ASSUME NEW f \in File,
             \/ CreateFile(f) \/ BlobCreated(f) \/ BlobOpened(f) \/ BlobResized(f)
             \/ WriteFile(f) \/ CloseFile(f)
      PROVE  results'[g] = IF stage'[g] \in {"close", "closing", "closed"} THEN 1 ELSE 0
  <2>1. CASE CreateFile(f) \/ WriteFile(f) \/ CloseFile(f)
    BY <1>t, <2>1 DEF CreateFile, WriteFile, CloseFile, Undefined, fileVars
  <2>2. CASE BlobCreated(f) \/ BlobOpened(f)
    BY <1>t, <2>2 DEF BlobCreated, BlobOpened, Completes, Abort, Undefined, fileVars
  <2>3. CASE BlobResized(f)
    BY <1>t, <2>3 DEF BlobResized
  <2> QED
    BY <1>2, <2>1, <2>2, <2>3
<1>3. ASSUME NEW f \in File, BlobWritten(f), ~ Abort
      PROVE  results'[g] = IF stage'[g] \in {"close", "closing", "closed"} THEN 1 ELSE 0
  BY <1>3, <1>t DEF BlobWritten
<1>4. ASSUME NEW f \in File, BlobClosed(f), ~ Abort
      PROVE  results'[g] = IF stage'[g] \in {"close", "closing", "closed"} THEN 1 ELSE 0
  <2>1. UNCHANGED results
    BY <1>4 DEF BlobClosed
  <2>2. CASE LastFile(completed_count + 1)
    BY <1>4, <1>t, <2>1, <2>2 DEF BlobClosed
  <2>3. CASE ~ LastFile(completed_count + 1)
    <3>1. g = head => stage[g] = "idle"
      <4>1. start = "done"
        BY <1>4 DEF BlobClosed, Inductive, ClaimInv
      <4> QED
        BY <4>1 DEF Inductive, ClaimedInOrder, TypeOK
    <3>2. stage'[g] = IF g = f THEN "closed" ELSE IF g = head THEN "create" ELSE stage[g]
      BY <1>4, <2>3 DEF BlobClosed, Claimed
    <3> QED
      BY <1>4, <1>t, <2>1, <3>1, <3>2 DEF BlobClosed
  <2> QED
    BY <2>2, <2>3
<1>5. CASE Abort \/ Undefined
  BY <1>0, <1>5 DEF Abort, Undefined
<1>6. CASE \/ InitStorage \/ StorageReady \/ UnloadStore \/ StoreUnloaded
           \/ \E c \in Core : CreateChannel(c) \/ ReleaseChannel(c)
  BY <1>0, <1>6 DEF InitStorage, StorageReady, UnloadStore, StoreUnloaded,
                    CreateChannel, ReleaseChannel, Abort, Undefined
<1>7. CASE Ended \/ UNCHANGED vars
  BY <1>0, <1>7 DEF Ended, vars
<1> QED
  BY <1>1, <1>2, <1>3, <1>4, <1>5, <1>6, <1>7 DEF Steps, Next

THEOREM ResultsAreExact == Spec => []ResultsExact
<1>1. Init => ResultsExact
  BY DEF Init, ResultsExact
<1>2. Inductive /\ ResultsExact /\ [Next]_vars => ResultsExact'
  BY ResultsStep DEF Steps
<1> QED
  BY InductiveCorrect, <1>1, <1>2, PTL DEF Spec
-------------------------------------------------------------------------------
(* meta_count while the pipeline is no wider than its limit. *)
LEMMA OneLess ==
  ASSUME NEW D, IsFiniteSet(D), NEW S \in SUBSET D, NEW x \in S
  PROVE  /\ Cardinality(S) \in Nat \ {0}
         /\ Cardinality(S \ {x}) = Cardinality(S) - 1
<1>1. IsFiniteSet(S) /\ IsFiniteSet(S \ {x})
  BY FS_Subset
<1>2. Cardinality(S) \in Nat /\ S # {}
  BY <1>1, FS_CardinalityType
<1> QED
  BY <1>1, <1>2, FS_RemoveElement, FS_EmptySet

(* A file that asks for a place finds one: with it, no more files hold a   *)
(* place than are in flight.                                               *)
LEMMA PlaceLeft ==
  ASSUME Inductive, Limit <= MaxMeta, NEW f \in InFlight, f \notin Metadata
  PROVE  Cardinality(Metadata) \in Nat /\ Cardinality(Metadata) < MaxMeta
<1>1. start = "done"
  BY DEF Inductive, ClaimInv, InFlight
<1>2. /\ max_concurrency \in Nat /\ max_concurrency <= MaxMeta
      /\ Cardinality(InFlight) <= max_concurrency
  BY <1>1, FullPipeline DEF PipelineFull, Inductive, TypeOK, Limit
<1>3. /\ Metadata \cup {f} \in SUBSET InFlight /\ InFlight \in SUBSET File
      /\ f \in File /\ Metadata \in SUBSET File
  BY DEF Metadata, InFlight
<1>4. /\ Cardinality(Metadata) \in Nat
      /\ Cardinality(Metadata \cup {f}) = Cardinality(Metadata) + 1
  BY <1>3, OneMore, FilesFinite
<1>5. /\ Cardinality(InFlight) \in Nat
      /\ Cardinality(Metadata \cup {f}) <= Cardinality(InFlight)
  BY <1>3, FilesFinite, FS_Subset, FS_CardinalityType
<1> QED
  BY <1>2, <1>4, <1>5

(* The option is resolved once, to what it stood for. *)
LEMMA LimitStays == TypeOK /\ Steps => Limit' = Limit
<1> SUFFICES ASSUME TypeOK, Steps
             PROVE  Limit' = Limit
  OBVIOUS
<1>1. CASE StartFiles
  BY <1>1 DEF StartFiles, Undefined, Limit, countVars, TypeOK
<1>2. CASE UNCHANGED max_concurrency
  BY <1>2 DEF Limit
<1> QED
  BY <1>1, <1>2 DEF Steps, Next, vars, countVars, InitStorage, StorageReady,
     CreateChannel, ReleaseChannel, CreateFile, BlobCreated, BlobOpened, Completes,
     BlobResized, WriteFile, BlobWritten, CloseFile, BlobClosed, UnloadStore,
     StoreUnloaded, Ended, Abort, Undefined

LEMMA MetaCountStep == Inductive /\ MetaCountExact /\ Steps => MetaCountExact'
<1> SUFFICES ASSUME Inductive, MetaCountExact, Steps,
                    status' # "aborted", Limit' <= MaxMeta
             PROVE  meta_count' = Cardinality(Metadata')
  BY DEF MetaCountExact
<1>t. TypeOK /\ Limit \in Nat /\ Limit <= MaxMeta /\ stage \in [File -> Stage]
  BY LimitType, LimitStays DEF Inductive, TypeOK
<1>s. status # "aborted"
  BY DEF Steps, Next, vars, InitStorage, StorageReady, StartFiles, CreateChannel,
     ReleaseChannel, CreateFile, BlobCreated, BlobOpened, Completes, BlobResized,
     WriteFile, BlobWritten, CloseFile, BlobClosed, UnloadStore, StoreUnloaded, Ended
<1>c. meta_count = Cardinality(Metadata)
  BY <1>t, <1>s DEF MetaCountExact
<1>0. CASE UNCHANGED meta_count /\ Metadata' = Metadata
  BY <1>0, <1>c
<1>1. CASE StartFiles
  <2>1. CASE Limit > NumFiles
    BY <1>0, <1>1, <2>1 DEF StartFiles, Undefined, fileVars, countVars, Metadata
  <2>2. CASE ~ (Limit > NumFiles)
    <3>1. \A f \in File : stage[f] = "idle"
      BY <1>1 DEF StartFiles, Inductive, ClaimInv
    <3>2. Metadata = {}
      BY <3>1 DEF Metadata
    <3>3. meta_count = 0
      BY <1>c, <3>2, FS_EmptySet
    <3>4. Metadata' = {f \in File : f < Limit} /\ meta_count' = AcquireMeta(0, Limit)
      BY <1>1, <2>2, <3>1, <3>3 DEF StartFiles, Metadata
    <3>5. Cardinality(Metadata') = Limit
      BY <1>t, <2>2, <3>4, Prefix
    <3>6. AcquireMeta(0, Limit) = Limit
      BY <1>t DEF AcquireMeta
    <3> QED
      BY <3>4, <3>5, <3>6
  <2> QED
    BY <2>1, <2>2
<1>2. ASSUME NEW f \in File, CreateFile(f) \/ CloseFile(f)
      PROVE  meta_count' = Cardinality(Metadata')
  <2>1. /\ f \in InFlight /\ f \notin Metadata
        /\ Metadata' = Metadata \cup {f} /\ meta_count' = AcquireMeta(meta_count, 1)
    BY <1>2, <1>t DEF CreateFile, CloseFile, InFlight, Metadata
  <2>2. Cardinality(Metadata) \in Nat /\ Cardinality(Metadata) < MaxMeta
    BY <1>t, <2>1, PlaceLeft
  <2>3. AcquireMeta(meta_count, 1) = Cardinality(Metadata) + 1
    BY <1>c, <2>2 DEF AcquireMeta
  <2>4. Cardinality(Metadata \cup {f}) = Cardinality(Metadata) + 1
    <3>1. Metadata \in SUBSET File
      BY DEF Metadata
    <3> QED
      BY <2>1, <3>1, OneMore, FilesFinite
  <2> QED
    BY <2>1, <2>3, <2>4
<1>3. ASSUME NEW f \in Metadata, meta_count' = ReleaseMeta(meta_count),
             Metadata' = Metadata \ {f}
      PROVE  meta_count' = Cardinality(Metadata')
  <2>1. Metadata \in SUBSET File
    BY DEF Metadata
  <2>2. /\ Cardinality(Metadata) \in Nat \ {0}
        /\ Cardinality(Metadata \ {f}) = Cardinality(Metadata) - 1
    BY <2>1, OneLess, FilesFinite
  <2> QED
    BY <1>3, <1>c, <2>2 DEF ReleaseMeta
<1>4. ASSUME NEW f \in File, BlobResized(f)
      PROVE  meta_count' = Cardinality(Metadata')
  <2>1. f \in Metadata /\ meta_count' = ReleaseMeta(meta_count)
    BY <1>4 DEF BlobResized, Metadata
  <2>2. stage' = [stage EXCEPT ![f] = "write"]
    BY <1>4 DEF BlobResized
  <2>3. Metadata' = Metadata \ {f}
    BY <1>t, <2>2 DEF Metadata
  <2> QED
    BY <1>3, <2>1, <2>3
<1>5. ASSUME NEW f \in File, BlobClosed(f)
      PROVE  meta_count' = Cardinality(Metadata')
  <2>1. f \in Metadata /\ meta_count' = ReleaseMeta(meta_count)
    BY <1>5 DEF BlobClosed, Metadata, Abort, Undefined
  <2>2. CASE LastFile(completed_count + 1)
    <3>1. stage' = [stage EXCEPT ![f] = "closed"]
      BY <1>5, <2>2 DEF BlobClosed, Abort, Undefined
    <3>2. Metadata' = Metadata \ {f}
      BY <1>t, <3>1 DEF Metadata
    <3> QED
      BY <1>3, <2>1, <3>2
  <2>3. CASE ~ LastFile(completed_count + 1)
    <3>1. stage' = [g \in File |-> IF g = f THEN "closed"
                                   ELSE IF g = head THEN "create" ELSE stage[g]]
      BY <1>5, <2>3 DEF BlobClosed, Abort, Undefined, Claimed
    <3>2. \A g \in File : g = head => stage[g] = "idle"
      <4>1. start = "done"
        BY <1>5 DEF BlobClosed, Inductive, ClaimInv
      <4> QED
        BY <1>t, <4>1 DEF Inductive, ClaimedInOrder, TypeOK
    <3>3. Metadata' = Metadata \ {f}
      BY <3>1, <3>2 DEF Metadata
    <3> QED
      BY <1>3, <2>1, <3>3
  <2> QED
    BY <2>2, <2>3
<1>6. ASSUME NEW f \in File,
             \/ BlobCreated(f) \/ BlobOpened(f) \/ WriteFile(f) \/ BlobWritten(f)
      PROVE  meta_count' = Cardinality(Metadata')
  <2>1. UNCHANGED meta_count
    BY <1>6 DEF BlobCreated, BlobOpened, Completes, WriteFile, BlobWritten, Abort, Undefined,
                countVars
  <2>2. CASE BlobCreated(f) \/ BlobOpened(f)
    <3>1. Metadata' = Metadata
      BY <1>t, <2>2 DEF BlobCreated, BlobOpened, Completes, Abort, Undefined, Metadata
    <3> QED
      BY <1>0, <2>1, <3>1
  <2>3. CASE WriteFile(f) \/ BlobWritten(f)
    <3>1. Metadata' = Metadata
      BY <1>t, <2>3 DEF WriteFile, BlobWritten, Abort, Undefined, fileVars, Metadata
    <3> QED
      BY <1>0, <2>1, <3>1
  <2> QED
    BY <1>6, <2>2, <2>3
<1>7. CASE \/ InitStorage \/ StorageReady \/ UnloadStore \/ StoreUnloaded \/ Ended
           \/ UNCHANGED vars
           \/ \E c \in Core : CreateChannel(c) \/ ReleaseChannel(c)
  <2>1. UNCHANGED <<stage, meta_count>>
    BY <1>7 DEF InitStorage, StorageReady, UnloadStore, StoreUnloaded, Ended, Abort, Undefined,
                CreateChannel, ReleaseChannel, vars, fileVars, countVars
  <2> QED
    BY <1>0, <2>1 DEF Metadata
<1> QED
  BY <1>1, <1>2, <1>4, <1>5, <1>6, <1>7 DEF Steps, Next

(* meta_count is exactly the number of metadata operations, and never      *)
(* wraps, while --concurrency is no more than max_meta_concurrency.        *)
THEOREM MetaCountIsExact == Spec => []MetaCountExact
<1>1. Init => MetaCountExact
  <2> SUFFICES ASSUME Init
               PROVE  meta_count = Cardinality(Metadata)
    BY DEF MetaCountExact
  <2>1. Metadata = {} /\ meta_count = 0
    BY DEF Init, Metadata
  <2> QED
    BY <2>1, FS_EmptySet
<1>2. Inductive /\ MetaCountExact /\ [Next]_vars => MetaCountExact'
  BY MetaCountStep DEF Steps
<1> QED
  BY InductiveCorrect, <1>1, <1>2, PTL DEF Spec
-------------------------------------------------------------------------------
(* WriteBlobs implements Transfer. *)

LEMMA RefinesInit == Init => T!Init
<1> SUFFICES ASSUME Init
             PROVE  T!Init
  OBVIOUS
<1>1. Limit \in Nat
  BY TypeInit, LimitType
<1>2. InFlight = {} /\ Closed = {} /\ Outcome = "running"
  BY DEF Init, InFlight, Closed, Outcome
<1>3. T!IsFiniteSet(File)
  BY FilesFinite DEF T!IsFiniteSet, IsFiniteSet
<1> QED
  BY <1>1, <1>2, <1>3 DEF T!Init

(* The instance brings a copy of Cardinality with it. *)
LEMMA SameCardinality == \A S : T!Cardinality(S) = Cardinality(S)
BY DEF T!Cardinality, Cardinality

(* A step that moves no file into the pipeline or out of it stutters. *)
LEMMA Stutters ==
  ASSUME UNCHANGED <<status, max_concurrency>>,
         InFlight' = InFlight, Closed' = Closed
  PROVE  UNCHANGED T!vars
BY DEF T!vars, Limit, Outcome

LEMMA FilesStay ==
  ASSUME UNCHANGED stage
  PROVE  InFlight' = InFlight /\ Closed' = Closed
BY DEF InFlight, Closed

(* The end of the process without a report. *)
LEMMA EndsBadly ==
  ASSUME status = "running", status' \in {"aborted", "undefined"},
         UNCHANGED <<stage, max_concurrency>>
  PROVE  T!Next
<1>1. T!Fail
  BY FilesStay DEF T!Fail, Limit, Outcome
<1> QED
  BY <1>1 DEF T!Next

(* The files in D leave the pipeline for good, those in S enter it. *)
LEMMA Advances ==
  ASSUME Inductive', status = "running", UNCHANGED status, Limit' = Limit,
         start' = "done", max_concurrency' <= Limit,
         NEW D \in SUBSET InFlight, NEW S \in SUBSET File,
         S \cap (InFlight \cup Closed) = {},
         InFlight' = (InFlight \ D) \cup S, Closed' = Closed \cup D
  PROVE  T!Next
<1>1. Limit \in Nat
  <2>1. Limit' \in Nat
    BY DEF Inductive, TypeOK, Limit
  <2> QED
    BY <2>1
<1>2. Cardinality(InFlight') <= Limit
  <2>1. PipelineFull'
    BY FullPipeline, PTL
  <2>2. Cardinality(InFlight') <= max_concurrency'
    BY <2>1 DEF PipelineFull
  <2>3. InFlight' \subseteq File /\ max_concurrency' \in Nat
    BY DEF InFlight, Inductive, TypeOK
  <2>4. Cardinality(InFlight') \in Nat
    BY <2>3, FilesFinite, FS_Subset, FS_CardinalityType
  <2> QED
    BY <1>1, <2>2, <2>3, <2>4
<1>3. T!Advance(D, S)
  <2>1. Outcome = "running" /\ Outcome' = Outcome
    BY DEF Outcome
  <2> QED
    BY <1>2, <2>1, SameCardinality DEF T!Advance
<1>4. S \in SUBSET T!Waiting
  BY DEF T!Waiting
<1> QED
  BY <1>3, <1>4 DEF T!Next

LEMMA RefinesStep == Inductive /\ Steps => [T!Next]_T!vars
<1> SUFFICES ASSUME Inductive, Steps
             PROVE  T!Next \/ UNCHANGED T!vars
  BY DEF T!vars
<1>i. Inductive'
  BY InductiveStep
<1>t. TypeOK /\ TypeOK'
  BY <1>i DEF Inductive
<1>0. CASE UNCHANGED vars \/ Ended
  BY <1>0, Stutters, FilesStay DEF Ended, vars, fileVars, countVars
<1>a. CASE status = "running" /\ (Abort \/ Undefined)
  BY <1>a, EndsBadly DEF Abort, Undefined, fileVars, countVars
<1>1. CASE \/ InitStorage \/ StorageReady \/ UnloadStore
           \/ \E c \in Core : CreateChannel(c) \/ ReleaseChannel(c)
  <2>1. status = "running"
    BY <1>1 DEF InitStorage, StorageReady, UnloadStore, CreateChannel, ReleaseChannel
  <2>2. CASE ~ Abort /\ ~ Undefined
    <3>1. UNCHANGED <<status, stage, max_concurrency>>
      BY <1>1, <2>2 DEF InitStorage, StorageReady, UnloadStore, CreateChannel,
                        ReleaseChannel, fileVars, countVars
    <3> QED
      BY <3>1, FilesStay, Stutters
  <2> QED
    BY <1>a, <2>1, <2>2
<1>2. CASE StoreUnloaded
  <2>1. CASE ~ Abort /\ ~ Undefined
    <3>1. UNCHANGED <<stage, max_concurrency>> /\ status' = "stopped" /\ status = "running"
      BY <1>2, <2>1 DEF StoreUnloaded, fileVars, countVars
    <3>2. Closed = File
      <4>1. 0 \in Core
        OBVIOUS
      <4>2. channel[0] = "released"
        BY <1>2, <4>1 DEF StoreUnloaded, Inductive, CleanShutdown
      <4> QED
        BY <4>1, <4>2 DEF Inductive, CleanShutdown
    <3>3. InFlight = {}
      BY <3>2 DEF Closed, InFlight
    <3>4. T!Report
      BY <3>1, <3>2, <3>3, FilesStay DEF T!Report, T!Waiting, Limit, Outcome
    <3> QED
      BY <3>4 DEF T!Next
  <2> QED
    BY <1>2, <1>a, <2>1 DEF StoreUnloaded
<1>3. CASE StartFiles
  <2>1. CASE status' = "undefined"
    BY <1>3, <2>1, EndsBadly DEF StartFiles, Undefined, fileVars, countVars
  <2>2. CASE status' # "undefined"
    <3>1. Limit \in Nat
      BY <1>t, LimitType
    <3>2. /\ status = "running" /\ UNCHANGED status
          /\ start' = "done" /\ max_concurrency' = Limit
          /\ stage' = [f \in File |-> IF f < Limit THEN "creating" ELSE stage[f]]
          /\ \A f \in File : stage[f] = "idle"
      BY <1>3, <1>t, <2>2, <3>1 DEF StartFiles, Undefined, Inductive, ClaimInv
    <3>3. Limit' = Limit
      BY <3>1, <3>2 DEF Limit
    <3>4. InFlight = {} /\ Closed = {} /\ Closed' = {}
          /\ InFlight' = {f \in File : f < Limit}
      BY <3>2 DEF InFlight, Closed
    <3> DEFINE S == {f \in File : f < Limit}
    <3>5. S \in SUBSET File /\ {} \in SUBSET InFlight
      OBVIOUS
    <3>6. /\ S \cap (InFlight \cup Closed) = {}
          /\ InFlight' = (InFlight \ {}) \cup S
          /\ Closed' = Closed \cup {}
      BY <3>4
    <3>7. max_concurrency' <= Limit
      BY <3>1, <3>2
    <3> HIDE DEF S
    <3> QED
      BY <1>i, <3>2, <3>3, <3>5, <3>6, <3>7, Advances
  <2> QED
    BY <2>1, <2>2
<1>4. ASSUME NEW f \in File,
             \/ CreateFile(f) \/ BlobCreated(f) \/ BlobOpened(f) \/ BlobResized(f)
             \/ WriteFile(f) \/ BlobWritten(f) \/ CloseFile(f)
      PROVE  T!Next \/ UNCHANGED T!vars
  <2>1. status = "running" /\ UNCHANGED max_concurrency
    BY <1>4 DEF CreateFile, BlobCreated, BlobOpened, BlobResized, WriteFile,
                BlobWritten, CloseFile, Completes, Abort, Undefined, countVars
  <2>2. CASE status' \in {"aborted", "undefined"}
    <3>1. UNCHANGED stage
      BY <1>4, <2>1, <2>2 DEF CreateFile, BlobCreated, BlobOpened, BlobResized, WriteFile,
                BlobWritten, CloseFile, Completes, Abort, Undefined, fileVars
    <3> QED
      BY <2>1, <2>2, <3>1, EndsBadly
  <2>3. CASE status' \notin {"aborted", "undefined"}
    <3>1. /\ UNCHANGED status
          /\ stage[f] \notin {"idle", "closed"}
          /\ \E s \in Stage \ {"idle", "closed"} : stage' = [stage EXCEPT ![f] = s]
      BY <1>4, <2>1, <2>3 DEF CreateFile, BlobCreated, BlobOpened, BlobResized, WriteFile,
                BlobWritten, CloseFile, Completes, Abort, Undefined, Stage
    <3>2. InFlight' = InFlight /\ Closed' = Closed
      BY <1>t, <3>1 DEF InFlight, Closed, TypeOK
    <3> QED
      BY <2>1, <3>1, <3>2, Stutters
  <2> QED
    BY <2>2, <2>3
<1>5. ASSUME NEW f \in File, BlobClosed(f)
      PROVE  T!Next \/ UNCHANGED T!vars
  <2>1. status = "running"
    BY <1>5 DEF BlobClosed
  <2>2. CASE ~ Abort /\ ~ Undefined
    <3>1. UNCHANGED <<status, start, max_concurrency>> /\ f \in InFlight
      BY <1>5, <2>2 DEF BlobClosed, InFlight
    <3>2. start = "done"
      BY <1>5 DEF BlobClosed, Inductive, ClaimInv
    <3>3. max_concurrency' <= Limit /\ Limit' = Limit
      BY <1>t, <3>1 DEF Limit, TypeOK
    <3>4. CASE LastFile(completed_count + 1)
      <4>1. stage' = [stage EXCEPT ![f] = "closed"]
        BY <1>5, <2>2, <3>4 DEF BlobClosed
      <4>2. InFlight' = InFlight \ {f} /\ Closed' = Closed \cup {f}
        BY <1>t, <3>1, <4>1 DEF InFlight, Closed, TypeOK
      <4>3. /\ {f} \in SUBSET InFlight /\ {} \in SUBSET File
            /\ {} \cap (InFlight \cup Closed) = {}
            /\ InFlight' = (InFlight \ {f}) \cup {}
        BY <3>1, <4>2
      <4> QED
        BY <1>i, <2>1, <3>1, <3>2, <3>3, <4>2, <4>3, Advances
    <3>5. CASE ~ LastFile(completed_count + 1)
      <4>1. stage' = [g \in File |-> IF g = f THEN "closed"
                                     ELSE IF g = head THEN "create" ELSE stage[g]]
        BY <1>5, <2>2, <3>5 DEF BlobClosed, Claimed
      <4>2. \A g \in File : g = head => stage[g] = "idle"
        BY <1>t, <3>2 DEF Inductive, ClaimedInOrder, TypeOK
      <4> DEFINE S == {g \in File : g = head}
      <4>3. InFlight' = (InFlight \ {f}) \cup S /\ Closed' = Closed \cup {f}
        BY <3>1, <4>1, <4>2 DEF InFlight, Closed
      <4>4. /\ {f} \in SUBSET InFlight /\ S \in SUBSET File
            /\ S \cap (InFlight \cup Closed) = {}
        BY <3>1, <4>2 DEF InFlight, Closed
      <4> HIDE DEF S
      <4> QED
        BY <1>i, <2>1, <3>1, <3>2, <3>3, <4>3, <4>4, Advances
    <3> QED
      BY <3>4, <3>5
  <2> QED
    BY <1>a, <2>1, <2>2
<1> QED
  BY <1>0, <1>1, <1>2, <1>3, <1>4, <1>5 DEF Steps, Next

(* Every run transfers each file once, never more than --concurrency of    *)
(* them together, and reports when and only when all of them are closed.   *)
THEOREM ImplementsTransfer == Spec => TransferSpec
<1>1. Inductive /\ [Next]_vars => [T!Next]_T!vars
  BY RefinesStep DEF Steps
<1> QED
  BY RefinesInit, InductiveCorrect, <1>1, PTL DEF Spec, TransferSpec, T!Spec
===============================================================================
