---------------------------- MODULE AioFilesProofs ----------------------------
(***************************************************************************)
(* Theorems about AioFiles for every number of files and of threads and    *)
(* every limit.                                                            *)
(***************************************************************************)
EXTENDS AioFiles, FiniteSetTheorems, TLAPS

USE ConstantsOK DEF ConstantsOK, File, Thread
-------------------------------------------------------------------------------
LEMMA FilesFinite == IsFiniteSet(File) /\ Cardinality(File) = NumFiles
<1>1. /\ IsFiniteSet(0 .. NumFiles - 1)
      /\ Cardinality(0 .. NumFiles - 1) =
           IF 0 > NumFiles - 1 THEN 0 ELSE (NumFiles - 1) - 0 + 1
  <2>1. 0 \in Int /\ NumFiles - 1 \in Int
    OBVIOUS
  <2> QED
    BY <2>1, FS_Interval, Zenon
<1> QED
  BY <1>1

LEMMA SubsetSize ==
  ASSUME NEW S \in SUBSET File
  PROVE  IsFiniteSet(S) /\ Cardinality(S) \in 0 .. NumFiles
<1>1. IsFiniteSet(S) /\ Cardinality(S) <= Cardinality(File)
  BY FilesFinite, FS_Subset, Zenon
<1>2. Cardinality(S) \in Nat
  BY <1>1, FS_CardinalityType
<1> QED
  BY <1>1, <1>2, FilesFinite

LEMMA OneMore ==
  ASSUME NEW S \in SUBSET File, NEW f \in File \ S
  PROVE  Cardinality(S \cup {f}) = Cardinality(S) + 1
BY SubsetSize, FS_AddElement

LEMMA OneLess ==
  ASSUME NEW S \in SUBSET File, NEW f \in S
  PROVE  Cardinality(S \ {f}) = Cardinality(S) - 1
BY SubsetSize, FS_RemoveElement
-------------------------------------------------------------------------------
(* The static schedule cuts the files into one interval per thread. *)
LEMMA Times ==
  ASSUME NEW q \in Nat, NEW a \in Nat, NEW b \in Nat, a <= b
  PROVE  a * q \in Nat /\ a * q <= b * q
<1>1. PICK d \in Nat : b = a + d
  <2>1. b - a \in Nat /\ b = a + (b - a)
    OBVIOUS
  <2> QED
    BY <2>1
<1>2. b * q = a * q + d * q
  BY <1>1
<1>3. a * q \in Nat /\ d * q \in Nat
  BY <1>1
<1> QED
  BY <1>2, <1>3

LEMMA Schedule ==
  ASSUME NEW a \in 0 .. NumThreads, NEW b \in 0 .. NumThreads, a <= b
  PROVE  /\ Begin(a) \in Nat /\ Begin(b) \in Nat
         /\ Begin(a) <= Begin(b) /\ Begin(b) <= NumFiles
<1> DEFINE q == NumFiles \div NumThreads
           r == NumFiles % NumThreads
<1>1. q \in Nat /\ r \in Nat /\ r < NumThreads /\ NumFiles = NumThreads * q + r
  OBVIOUS
<1>2. Begin(a) = a * q + Least(a, r) /\ Begin(b) = b * q + Least(b, r)
  BY DEF Begin
<1> HIDE DEF q, r
<1>3. /\ a * q \in Nat /\ b * q \in Nat /\ NumThreads * q \in Nat
      /\ a * q <= b * q /\ b * q <= NumThreads * q
  BY <1>1, Times
<1>4. /\ Least(a, r) \in Nat /\ Least(b, r) \in Nat
      /\ Least(a, r) <= Least(b, r) /\ Least(b, r) <= r
  BY <1>1 DEF Least
<1> QED
  BY <1>1, <1>2, <1>3, <1>4

(* What the steps need of it. *)
LEMMA Parts ==
  /\ \A t \in Thread : /\ Begin(t) \in Nat /\ Begin(t + 1) \in Nat
                       /\ Begin(t) <= Begin(t + 1) /\ Begin(t + 1) <= NumFiles
  /\ \A s, t \in Thread : s < t => Begin(s + 1) <= Begin(t)
BY Schedule
-------------------------------------------------------------------------------
LEMMA InductiveInit == Init => Inductive
<1> SUFFICES ASSUME Init
             PROVE  Inductive
  OBVIOUS
<1>1. \A t \in Thread : Begin(t) \in 0 .. NumFiles
  BY Parts
<1>2. TypeOK
  <2>1. i \in [Thread -> 0 .. NumFiles]
    BY <1>1 DEF Init
  <2>2. at \in [Thread -> {"load", "exchange", "start", "done"}]
    BY DEF Init, Turn
  <2>3. /\ stage \in [File -> {"waiting", "claimed", "started", "syncing", "closing",
                               "released", "counted", "last", "done"}]
        /\ results \in [File -> Nat] /\ count \in [Thread -> Nat]
    BY DEF Init
  <2>4. active_count \in 0 .. NumFiles /\ completed_count \in 0 .. NumFiles
    BY DEF Init
  <2> QED
    BY <2>1, <2>2, <2>3, <2>4 DEF Init, TypeOK
<1>3. InPlace = {} /\ Counted = {}
  BY DEF Init, InPlace, Counted
<1>4. Cardinality(InPlace) = 0 /\ Cardinality(Counted) = 0
  BY <1>3, FS_EmptySet
<1>5. ActiveExact
  BY <1>2, <1>4 DEF Init, ActiveExact
<1>6. LoopInv
  BY Parts DEF Init, LoopInv, Turn
<1>7. CountInv
  BY <1>3, <1>4 DEF Init, CountInv
<1> QED
  BY <1>5, <1>6, <1>7 DEF Inductive
-------------------------------------------------------------------------------
(* A thread that is in the loop has a file of its own share. *)
LEMMA AtFile ==
  ASSUME LoopInv, NEW t \in Thread, at[t] # "done"
  PROVE  i[t] \in File /\ Begin(t) <= i[t] /\ i[t] < Begin(t + 1)
<1>1. /\ Begin(t) \in Nat /\ Begin(t + 1) \in Nat /\ Begin(t + 1) <= NumFiles
  BY Parts
<1>2. i[t] \in Begin(t) .. Begin(t + 1) /\ i[t] < Begin(t + 1)
  BY DEF LoopInv
<1> QED
  BY <1>1, <1>2

(* What does not change with the state of the files. *)
LEMMA CountKept ==
  ASSUME CountInv, Counted' = Counted, UNCHANGED resultVars,
         \A f \in File : stage'[f] = "last" => stage[f] = "last"
  PROVE  CountInv'
BY DEF CountInv, resultVars

LEMMA ActiveKept ==
  ASSUME ActiveExact, TypeOK', Running' => Running,
         InPlace' = InPlace, UNCHANGED active_count
  PROVE  ActiveExact'
BY DEF ActiveExact

(* Only the steps of the loop move a file that waits or has been claimed. *)
LEMMA LoopKept ==
  ASSUME TypeOK, LoopInv, UNCHANGED loopVars,
         NEW f \in File, stage[f] \notin {"waiting", "claimed"},
         NEW s, stage' = [stage EXCEPT ![f] = s]
  PROVE  LoopInv'
<1>1. \A g \in File : g # f => stage'[g] = stage[g]
  BY DEF TypeOK
<1>2. \A g \in File : stage[g] \in {"waiting", "claimed"} => stage'[g] = stage[g]
  BY <1>1
<1>3. ASSUME NEW t \in Thread
      PROVE  at[t] # "done" => i[t] \in File
  BY AtFile
<1> QED
  BY <1>2, <1>3 DEF LoopInv, loopVars

(* Steps that leave files, loops and counters alone. *)
LEMMA QuietStep ==
  ASSUME Inductive, UNCHANGED <<program, loopVars, stage, active_count, resultVars>>,
         Running' => Running,
         status' \in {"running", "returned", "stopped", "aborted", "crashed"}
  PROVE  Inductive'
<1> USE DEF Inductive, ActiveExact
<1>1. InPlace' = InPlace /\ Counted' = Counted
  BY DEF InPlace, Counted
<1>2. TypeOK'
  BY DEF TypeOK, loopVars, resultVars
<1>3. LoopInv'
  BY DEF LoopInv, loopVars
<1>4. CountInv'
  BY <1>1, CountKept
<1> QED
  BY <1>1, <1>2, <1>3, <1>4, ActiveKept

LEMMA LoadStep ==
  ASSUME Inductive, NEW t \in Thread, LoadActive(t)
  PROVE  Inductive'
<1> USE DEF Inductive, LoadActive
<1>t. TypeOK
  BY DEF ActiveExact
<1>1. InPlace' = InPlace /\ Counted' = Counted
  BY DEF InPlace, Counted
<1>2. TypeOK'
  <2>1. CASE HasPlace(active_count)
    <3>1. active_count \in Nat
      BY <1>t DEF TypeOK
    <3>2. count' \in [Thread -> Nat]
      BY <1>t, <2>1, <3>1 DEF TypeOK
    <3>3. at' \in [Thread -> {"load", "exchange", "start", "done"}]
      BY <1>t, <2>1 DEF TypeOK
    <3> QED
      BY <1>t, <3>2, <3>3 DEF TypeOK, resultVars
  <2>2. CASE ~ HasPlace(active_count)
    BY <1>t, <2>2 DEF TypeOK, resultVars
  <2> QED
    BY <2>1, <2>2
<1>3. LoopInv'
  BY <1>t DEF LoopInv, HasPlace, TypeOK
<1>4. CountInv'
  BY <1>1, CountKept
<1> QED
  BY <1>1, <1>2, <1>3, <1>4, ActiveKept DEF Running

(* Thread t takes a place, if no other thread has changed the count. *)
LEMMA ExchangeStep ==
  ASSUME Inductive, NEW t \in Thread, ExchangeActive(t)
  PROVE  Inductive'
<1> USE DEF Inductive
<1>t. TypeOK /\ at[t] = "exchange" /\ Running /\ Running'
  BY DEF ActiveExact, ExchangeActive, Running
<1>1. CASE ~ Exchanges(t)
  <2> USE <1>1 DEF ExchangeActive
  <2>1. InPlace' = InPlace /\ Counted' = Counted
    BY DEF InPlace, Counted
  <2>2. TypeOK'
    BY <1>t DEF TypeOK, resultVars
  <2>3. LoopInv'
    BY <1>t DEF LoopInv, TypeOK
  <2>4. CountInv'
    BY <2>1, CountKept
  <2> QED
    BY <1>t, <2>1, <2>2, <2>3, <2>4, ActiveKept
<1>2. CASE Exchanges(t)
  <2> DEFINE f == i[t]
  <2>1. f \in File /\ stage[f] = "waiting" /\ f < Begin(t + 1) /\ Begin(t) <= f
    BY <1>t, AtFile DEF LoopInv
  <2>2. count[t] = active_count /\ count[t] < Limit
    BY <1>2, <1>t DEF Exchanges, LoopInv
  <2>3. /\ active_count' = count[t] + 1 /\ at' = [at EXCEPT ![t] = "start"]
        /\ stage' = [stage EXCEPT ![f] = "claimed"]
        /\ UNCHANGED <<program, status, i, count, resultVars>>
    BY <1>2 DEF ExchangeActive
  <2> HIDE DEF f
  <2>4. InPlace' = InPlace \cup {f} /\ f \notin InPlace
    BY <1>t, <2>1, <2>3 DEF InPlace, TypeOK
  <2>5. /\ Cardinality(InPlace') = Cardinality(InPlace) + 1
        /\ Cardinality(InPlace') \in 0 .. NumFiles
        /\ Cardinality(InPlace) \in 0 .. NumFiles
    <3>1. InPlace' \in SUBSET File /\ InPlace \in SUBSET File
      BY DEF InPlace
    <3> QED
      BY <2>1, <2>4, <3>1, OneMore, SubsetSize
  <2>6. active_count' = Cardinality(InPlace') /\ active_count' <= Limit
    BY <1>t, <2>2, <2>3, <2>5 DEF ActiveExact
  <2>7. TypeOK'
    BY <1>t, <2>3, <2>5, <2>6 DEF TypeOK, resultVars
  <2>8. LoopInv'
    <3> SUFFICES ASSUME NEW s \in Thread
                 PROVE  /\ i[s] \in Begin(s) .. Begin(s + 1)
                        /\ at'[s] # "done" => i[s] < Begin(s + 1)
                        /\ at'[s] = "exchange" => count[s] < Limit
                        /\ \A g \in File : i[s] < g /\ g < Begin(s + 1) => stage'[g] = "waiting"
                        /\ at'[s] \in {"load", "exchange"} => stage'[i[s]] = "waiting"
                        /\ at'[s] = "start" => stage'[i[s]] = "claimed"
      BY <2>3 DEF LoopInv
    <3>1. CASE s = t
      BY <1>t, <2>1, <2>3, <3>1 DEF LoopInv, TypeOK, f
    <3>2. CASE s # t
      <4>1. at'[s] = at[s]
        BY <1>t, <2>3, <3>2 DEF TypeOK
      <4>2. \A g \in File : Begin(s) <= g /\ g < Begin(s + 1) => g # f
        <5>1. s < t \/ t < s
          BY <3>2
        <5>2. Begin(s + 1) <= Begin(t) \/ Begin(t + 1) <= Begin(s)
          BY <5>1, Parts
        <5> QED
          BY <2>1, <5>2, Parts
      <4>3. \A g \in File : g # f => stage'[g] = stage[g]
        BY <1>t, <2>3 DEF TypeOK
      <4>4. i[s] \in Begin(s) .. Begin(s + 1) /\ (at[s] # "done" => i[s] < Begin(s + 1))
        BY DEF LoopInv
      <4>5. at[s] # "done" => i[s] \in File
        BY <4>4, Parts
      <4>6. at[s] # "done" => stage'[i[s]] = stage[i[s]]
        BY <4>2, <4>3, <4>4, <4>5, Parts
      <4>7. \A g \in File : i[s] < g /\ g < Begin(s + 1) => stage'[g] = stage[g]
        BY <4>2, <4>3, <4>4, Parts
      <4> QED
        BY <4>1, <4>4, <4>6, <4>7 DEF LoopInv
    <3> QED
      BY <3>1, <3>2
  <2>9. CountInv'
    <3>1. Counted' = Counted
      BY <1>t, <2>1, <2>3 DEF Counted, TypeOK
    <3>2. \A g \in File : stage'[g] = "last" => stage[g] = "last"
      BY <1>t, <2>3 DEF TypeOK
    <3> QED
      BY <2>3, <3>1, <3>2, CountKept
  <2> QED
    BY <2>6, <2>7, <2>8, <2>9 DEF ActiveExact
<1> QED
  BY <1>1, <1>2

LEMMA StartStep ==
  ASSUME Inductive, NEW t \in Thread, StartFile(t), ~ Abort
  PROVE  Inductive'
<1> USE DEF Inductive
<1>t. TypeOK /\ at[t] = "start" /\ Running /\ Running'
  BY DEF ActiveExact, StartFile, Running
<1> DEFINE f == i[t]
<1>1. f \in File /\ stage[f] = "claimed" /\ f < Begin(t + 1) /\ Begin(t) <= f
  BY <1>t, AtFile DEF LoopInv
<1>2. /\ stage' = [stage EXCEPT ![f] = "started"]
      /\ i' = [i EXCEPT ![t] = f + 1]
      /\ at' = [at EXCEPT ![t] = Turn(t, f + 1)]
      /\ UNCHANGED <<program, status, count, active_count, resultVars>>
  BY <1>t DEF StartFile, TypeOK
<1> HIDE DEF f
<1>3. InPlace' = InPlace /\ Counted' = Counted
  BY <1>1, <1>2, <1>t DEF InPlace, Counted, TypeOK
<1>4. TypeOK'
  <2>1. f + 1 \in 0 .. NumFiles /\ Turn(t, f + 1) \in {"load", "done"}
    BY <1>1 DEF Turn
  <2> QED
    BY <1>2, <1>t, <2>1 DEF TypeOK, resultVars
<1>5. LoopInv'
  <2> SUFFICES ASSUME NEW s \in Thread
               PROVE  /\ i'[s] \in Begin(s) .. Begin(s + 1)
                      /\ at'[s] # "done" => i'[s] < Begin(s + 1)
                      /\ at'[s] = "exchange" => count[s] < Limit
                      /\ \A g \in File : i'[s] < g /\ g < Begin(s + 1) => stage'[g] = "waiting"
                      /\ at'[s] \in {"load", "exchange"} => stage'[i'[s]] = "waiting"
                      /\ at'[s] = "start" => stage'[i'[s]] = "claimed"
    BY <1>2 DEF LoopInv
  <2>1. \A g \in File : g # f => stage'[g] = stage[g]
    BY <1>2, <1>t DEF TypeOK
  <2>2. CASE s = t
    <3>1. i'[s] = f + 1 /\ at'[s] = Turn(t, f + 1)
      BY <1>2, <1>t, <2>2 DEF TypeOK
    <3>2. \A g \in File : f < g /\ g < Begin(t + 1) => stage'[g] = "waiting"
      BY <1>1, <2>1 DEF LoopInv, f
    <3>3. f + 1 \in Begin(t) .. Begin(t + 1)
      BY <1>1, Parts
    <3>4. f + 1 < Begin(t + 1) => stage'[f + 1] = "waiting"
      BY <1>1, <3>2, Parts
    <3> QED
      BY <1>1, <2>2, <3>1, <3>2, <3>3, <3>4, Parts DEF Turn
  <2>3. CASE s # t
    <3>1. at'[s] = at[s] /\ i'[s] = i[s]
      BY <1>2, <1>t, <2>3 DEF TypeOK
    <3>2. \A g \in File : stage[g] = "waiting" => stage'[g] = "waiting"
      BY <1>1, <2>1
    <3>3. i[s] \in Begin(s) .. Begin(s + 1) /\ (at[s] # "done" => i[s] < Begin(s + 1))
      BY DEF LoopInv
    <3>4. at[s] # "done" => i[s] \in File /\ i[s] # f
      <4>1. s < t \/ t < s
        BY <2>3
      <4>2. Begin(s + 1) <= Begin(t) \/ Begin(t + 1) <= Begin(s)
        BY <4>1, Parts
      <4> QED
        BY <1>1, <3>3, <4>2, Parts
    <3>5. at[s] # "done" => stage'[i[s]] = stage[i[s]]
      BY <2>1, <3>4
    <3> QED
      BY <3>1, <3>2, <3>3, <3>5 DEF LoopInv
  <2> QED
    BY <2>2, <2>3
<1>6. CountInv'
  <2>1. \A g \in File : stage'[g] = "last" => stage[g] = "last"
    BY <1>2, <1>t DEF TypeOK
  <2> QED
    BY <1>2, <1>3, <2>1, CountKept
<1> QED
  BY <1>2, <1>3, <1>4, <1>5, <1>6, <1>t, ActiveKept
-------------------------------------------------------------------------------
(* A callback that neither gives its place back nor counts its file. *)
LEMMA MoveStep ==
  ASSUME Inductive, NEW f \in File, stage[f] \notin {"waiting", "claimed"},
         NEW s \in {"syncing", "closing", "done", "counted"},
         stage' = [stage EXCEPT ![f] = s],
         InPlace' = InPlace, Counted' = Counted,
         UNCHANGED <<program, loopVars, active_count, resultVars>>,
         Running' => Running,
         status' \in {"running", "returned", "crashed"}
  PROVE  Inductive'
<1> USE DEF Inductive
<1>t. TypeOK
  BY DEF ActiveExact
<1>1. TypeOK'
  BY <1>t DEF TypeOK, loopVars, resultVars
<1>2. LoopInv'
  BY <1>t, LoopKept
<1>3. CountInv'
  <2>1. \A g \in File : stage'[g] = "last" => stage[g] = "last"
    BY <1>t DEF TypeOK
  <2> QED
    BY <2>1, CountKept
<1> QED
  BY <1>1, <1>2, <1>3, ActiveKept

LEMMA SyncCloseStep ==
  ASSUME Inductive, NEW f \in File,
         (SyncFile(f) /\ ~ Abort) \/ CloseFile(f) \/ CompareWrite(f) \/ LateStep(f)
  PROVE  Inductive'
<1>t. TypeOK
  BY DEF Inductive, ActiveExact
<1>1. CASE SyncFile(f) /\ ~ Abort
  <2>1. /\ stage[f] = "started" /\ stage' = [stage EXCEPT ![f] = "syncing"]
        /\ UNCHANGED <<program, status, loopVars, active_count, resultVars>>
        /\ status = "running"
    BY <1>1 DEF SyncFile, Step, Running
  <2>2. InPlace' = InPlace /\ Counted' = Counted
    BY <1>t, <2>1 DEF InPlace, Counted, TypeOK
  <2> QED
    BY <2>1, <2>2, MoveStep DEF Running
<1>2. CASE CloseFile(f)
  <2>1. /\ stage[f] \in {"started", "syncing"} /\ stage' = [stage EXCEPT ![f] = "closing"]
        /\ UNCHANGED <<program, status, loopVars, active_count, resultVars>>
        /\ status = "running"
    BY <1>2 DEF CloseFile, Step, Running
  <2>2. InPlace' = InPlace /\ Counted' = Counted
    BY <1>t, <2>1 DEF InPlace, Counted, TypeOK
  <2> QED
    BY <2>1, <2>2, MoveStep DEF Running
<1>3. CASE CompareWrite(f)
  <2>1. /\ stage[f] = "counted" /\ stage' = [stage EXCEPT ![f] = "done"]
        /\ UNCHANGED <<program, status, loopVars, active_count, resultVars>>
        /\ status = "running" /\ program = "write"
    BY <1>3 DEF CompareWrite, Step, Running
  <2>2. InPlace' = InPlace /\ Counted' = Counted
    BY <1>t, <2>1 DEF InPlace, Counted, TypeOK
  <2> QED
    BY <2>1, <2>2, MoveStep DEF Running
<1>4. CASE LateStep(f)
  <2> USE DEF Inductive
  <2>1. /\ stage[f] = "counted" /\ stage' = [stage EXCEPT ![f] = "done"]
        /\ UNCHANGED <<program, loopVars, active_count, resultVars>>
        /\ ~ Running' /\ status' \in {"returned", "crashed"}
    BY <1>4 DEF LateStep, Step, Running
  <2>2. Counted' = Counted
    BY <1>t, <2>1 DEF Counted, TypeOK
  <2>3. TypeOK'
    BY <1>t, <2>1 DEF TypeOK, loopVars, resultVars
  <2>4. LoopInv'
    BY <1>t, <2>1, LoopKept
  <2>5. CountInv'
    <3>1. \A g \in File : stage'[g] = "last" => stage[g] = "last"
      BY <1>t, <2>1 DEF TypeOK
    <3> QED
      BY <2>1, <2>2, <3>1, CountKept
  <2> QED
    BY <2>1, <2>3, <2>4, <2>5 DEF ActiveExact
<1> QED
  BY <1>1, <1>2, <1>3, <1>4

(* A callback gives its place back. *)
LEMMA ReleaseStep ==
  ASSUME Inductive, NEW f \in File, ReleaseRead(f) \/ ReleaseWrite(f)
  PROVE  Inductive'
<1> USE DEF Inductive
<1>t. TypeOK /\ Running /\ Running'
  BY DEF ActiveExact, ReleaseRead, ReleaseWrite, Running
<1>1. PICK s \in {"released", "done"} :
        /\ stage[f] \in {"counted", "closing"}
        /\ stage' = [stage EXCEPT ![f] = s]
        /\ active_count' = active_count - 1
        /\ UNCHANGED <<program, status, loopVars, resultVars>>
  BY DEF ReleaseRead, ReleaseWrite, Step, Release
<1>2. InPlace' = InPlace \ {f} /\ f \in InPlace
  BY <1>1, <1>t DEF InPlace, TypeOK, ReleaseRead, ReleaseWrite, Step
<1>3. Counted' = Counted
  BY <1>1, <1>t DEF Counted, TypeOK, ReleaseRead, ReleaseWrite, Step
<1>4. /\ Cardinality(InPlace') = Cardinality(InPlace) - 1
      /\ Cardinality(InPlace') \in 0 .. NumFiles /\ Cardinality(InPlace) \in 0 .. NumFiles
  <2>1. InPlace' \in SUBSET File /\ InPlace \in SUBSET File
    BY DEF InPlace
  <2> QED
    BY <1>2, <2>1, OneLess, SubsetSize
<1>5. active_count' = Cardinality(InPlace') /\ active_count' <= Limit
  BY <1>1, <1>4, <1>t DEF ActiveExact
<1>6. TypeOK'
  BY <1>1, <1>4, <1>5, <1>t DEF TypeOK, loopVars, resultVars
<1>7. LoopInv'
  BY <1>1, <1>t, LoopKept
<1>8. CountInv'
  <2>1. \A g \in File : stage'[g] = "last" => stage[g] = "last"
    BY <1>1, <1>t DEF TypeOK
  <2> QED
    BY <1>1, <1>3, <2>1, CountKept
<1> QED
  BY <1>5, <1>6, <1>7, <1>8 DEF ActiveExact

(* A callback counts its file, and may find that it is the last. *)
LEMMA CountStep ==
  ASSUME Inductive, NEW f \in File, CountFile(f)
  PROVE  Inductive'
<1> USE DEF Inductive
<1>t. TypeOK /\ Running /\ Running'
  BY DEF ActiveExact, CountFile, Running
<1>1. PICK s \in {"last", "counted"} :
        /\ s = "last" <=> completed_count + 1 = NumFiles
        /\ stage[f] = IF program = "read" THEN "closing" ELSE "released"
        /\ stage' = [stage EXCEPT ![f] = s]
        /\ results' = [results EXCEPT ![f] = @ + 1]
        /\ completed_count' = completed_count + 1
        /\ UNCHANGED <<program, status, loopVars, active_count, completed>>
  BY DEF CountFile, Step, Record, LastFile
<1>2. InPlace' = InPlace
  BY <1>1, <1>t DEF InPlace, TypeOK
<1>3. Counted' = Counted \cup {f} /\ f \notin Counted
  BY <1>1, <1>t DEF Counted, TypeOK
<1>4. /\ Cardinality(Counted') = completed_count + 1
      /\ Cardinality(Counted') \in 0 .. NumFiles
  <2>1. Counted' \in SUBSET File /\ Counted \in SUBSET File
    BY DEF Counted
  <2> QED
    BY <1>3, <2>1, OneMore, SubsetSize DEF CountInv
<1>5. completed_count # NumFiles /\ completed_count \in Nat
  BY <1>4, <1>t DEF TypeOK
<1>6. TypeOK'
  <2>1. results[f] + 1 \in Nat
    BY <1>t DEF TypeOK
  <2> QED
    BY <1>1, <1>4, <1>t, <2>1 DEF TypeOK, loopVars
<1>7. LoopInv'
  BY <1>1, <1>t, LoopKept
<1>8. CountInv'
  <2>1. ~ completed /\ \A g \in File : stage[g] # "last"
    BY <1>5 DEF CountInv
  <2>2. \A g \in File : stage'[g] = "last" => g = f /\ s = "last"
    BY <1>1, <1>t, <2>1 DEF TypeOK
  <2>3. \A g \in File : results'[g] = IF g \in Counted' THEN 1 ELSE 0
    BY <1>1, <1>3, <1>t DEF CountInv, TypeOK
  <2>4. completed' = completed
    BY <1>1
  <2> QED
    BY <1>1, <1>4, <2>1, <2>2, <2>3, <2>4 DEF CountInv
<1> QED
  BY <1>1, <1>2, <1>6, <1>7, <1>8, <1>t, ActiveKept

LEMMA SetCompletedStep ==
  ASSUME Inductive, NEW f \in File, SetCompleted(f)
  PROVE  Inductive'
<1> USE DEF Inductive
<1>t. TypeOK /\ Running /\ Running'
  BY DEF ActiveExact, SetCompleted, Running
<1>1. PICK s \in {"counted", "done"} :
        /\ s = IF program = "read" THEN "counted" ELSE "done"
        /\ stage[f] = "last"
        /\ stage' = [stage EXCEPT ![f] = s]
        /\ completed' = TRUE
        /\ UNCHANGED <<program, status, loopVars, active_count, completed_count, results>>
  BY DEF SetCompleted, Step
<1>2. InPlace' = InPlace /\ Counted' = Counted
  BY <1>1, <1>t DEF InPlace, Counted, TypeOK
<1>3. TypeOK'
  BY <1>1, <1>t DEF TypeOK, loopVars
<1>4. LoopInv'
  BY <1>1, <1>t, LoopKept
<1>5. CountInv'
  <2>1. completed_count = NumFiles /\ \A g \in File : stage[g] = "last" => g = f
    BY <1>1 DEF CountInv
  <2>2. \A g \in File : stage'[g] # "last"
    BY <1>1, <1>t, <2>1 DEF TypeOK
  <2> QED
    BY <1>1, <1>2, <2>1, <2>2 DEF CountInv
<1> QED
  BY <1>1, <1>2, <1>3, <1>4, <1>5, <1>t, ActiveKept
-------------------------------------------------------------------------------
LEMMA InductiveStep == Inductive /\ [Next]_vars => Inductive'
<1> SUFFICES ASSUME Inductive, [Next]_vars
             PROVE  Inductive'
  OBVIOUS
<1>t. TypeOK
  BY DEF Inductive, ActiveExact
<1>0. CASE UNCHANGED vars
  BY <1>0, <1>t, QuietStep DEF vars, TypeOK, Running
<1>1. CASE Running /\ Abort
  BY <1>1, QuietStep DEF Abort
<1>2. ASSUME NEW t \in Thread, Loop(t)
      PROVE  Inductive'
  <2>1. CASE LoadActive(t)
    BY <2>1, LoadStep
  <2>2. CASE ExchangeActive(t)
    BY <2>2, ExchangeStep
  <2>3. CASE StartFile(t)
    BY <1>1, <2>3, StartStep DEF StartFile
  <2> QED
    BY <1>2, <2>1, <2>2, <2>3 DEF Loop
<1>3. ASSUME NEW f \in File, Notification(f)
      PROVE  Inductive'
  <2>1. CASE SyncFile(f)
    BY <1>1, <2>1, SyncCloseStep DEF SyncFile
  <2>2. CASE CloseFile(f) \/ CompareWrite(f) \/ LateStep(f)
    BY <2>2, SyncCloseStep
  <2>3. CASE CountFile(f)
    BY <2>3, CountStep
  <2>4. CASE SetCompleted(f)
    BY <2>4, SetCompletedStep
  <2>5. CASE ReleaseRead(f) \/ ReleaseWrite(f)
    BY <2>5, ReleaseStep
  <2> QED
    BY <1>3, <2>1, <2>2, <2>3, <2>4, <2>5 DEF Notification
<1>4. CASE Return \/ Exit
  BY <1>4, QuietStep DEF Return, Exit, Running
<1>5. CASE Ended
  BY <1>0, <1>5 DEF Ended
<1> QED
  BY <1>0, <1>2, <1>3, <1>4, <1>5 DEF Next

(* Types, the shares of the threads and the counts, whatever the loop and  *)
(* the callbacks do between each other's steps.                            *)
THEOREM InductiveCorrect == Spec => []Inductive
BY InductiveInit, InductiveStep, PTL DEF Spec

(* Any number of threads and callbacks change active_count, and it is      *)
(* always the number of files that hold a place, at most the limit.        *)
THEOREM ActiveCountExact == Spec => []ActiveExact
<1>1. Inductive => ActiveExact
  BY DEF Inductive
<1> QED
  BY InductiveCorrect, <1>1, PTL

LEMMA AllCounted == Inductive /\ completed => Counted = File
<1> SUFFICES ASSUME Inductive, completed
             PROVE  Counted = File
  OBVIOUS
<1>1. Counted \in SUBSET File /\ Cardinality(Counted) = Cardinality(File)
  BY FilesFinite DEF Inductive, CountInv, Counted
<1> QED
  BY <1>1, FilesFinite, FS_Subset

(* One callback sets "completed", when every file is recorded, and what    *)
(* is left of the others then is their last step.                          *)
THEOREM CompletionIsLast == Spec => []CompletedLast
<1>1. Inductive => CompletedLast
  <2> SUFFICES ASSUME Inductive, completed, NEW f \in File
               PROVE  results[f] = 1 /\ stage[f] \in {"counted", "done"}
    BY DEF CompletedLast
  <2>1. f \in Counted
    BY AllCounted
  <2>2. results[f] = 1 /\ stage[f] # "last"
    BY <2>1 DEF Inductive, CountInv
  <2> QED
    BY <2>1, <2>2 DEF Counted
<1> QED
  BY InductiveCorrect, <1>1, PTL
-------------------------------------------------------------------------------
(* AioFiles implements Transfer. *)

LEMMA RefinesInit == Init => T!Init
<1> SUFFICES ASSUME Init
             PROVE  T!Init
  OBVIOUS
<1>1. Active = {} /\ Done = {} /\ Outcome = "running"
  BY DEF Init, Active, Done, Outcome, Running
<1>2. T!IsFiniteSet(File)
  BY FilesFinite DEF T!IsFiniteSet, IsFiniteSet
<1> QED
  BY <1>1, <1>2 DEF T!Init

(* The instance brings a copy of Cardinality with it. *)
LEMMA SameCardinality == \A S : T!Cardinality(S) = Cardinality(S)
BY DEF T!Cardinality, Cardinality

(* Files of D are done, files of S take a place. *)
LEMMA Advances ==
  ASSUME Inductive', Running, UNCHANGED status,
         NEW D \in SUBSET Active, NEW S \in SUBSET (File \ (Active \cup Done)),
         Active' = (Active \ D) \cup S, Done' = Done \cup D
  PROVE  T!Next
<1>1. Cardinality(Active') <= Limit
  <2>1. Active' \in SUBSET InPlace' /\ InPlace' \in SUBSET File
    BY DEF Active, InPlace
  <2>2. IsFiniteSet(InPlace') /\ Cardinality(InPlace') \in Nat
    BY <2>1, SubsetSize
  <2>3. Cardinality(Active') <= Cardinality(InPlace') /\ Cardinality(Active') \in Nat
    BY <2>1, <2>2, FS_Subset, FS_CardinalityType
  <2>4. Cardinality(InPlace') <= Limit
    BY DEF Inductive, ActiveExact, Running
  <2> QED
    BY <2>2, <2>3, <2>4
<1>2. T!Advance(D, S)
  <2>1. Outcome = "running" /\ Outcome' = Outcome
    BY DEF Outcome, Running
  <2> QED
    BY <1>1, <2>1, SameCardinality DEF T!Advance
<1>3. S \in SUBSET T!Waiting
  BY DEF T!Waiting
<1> QED
  BY <1>2, <1>3 DEF T!Next

LEMMA RefinesStep == Inductive /\ [Next]_vars => [T!Next]_T!vars
<1> SUFFICES ASSUME Inductive, [Next]_vars
             PROVE  T!Next \/ UNCHANGED T!vars
  BY DEF T!vars
<1>i. Inductive'
  BY InductiveStep
<1>t. TypeOK
  BY DEF Inductive, ActiveExact
<1>0. CASE Outcome' = Outcome /\ Active' = Active /\ Done' = Done
  BY <1>0 DEF T!vars
<1>1. CASE UNCHANGED <<status, stage>>
  BY <1>0, <1>1 DEF Outcome, Running, Active, Done
<1>a. CASE Running /\ Abort
  <2>1. T!Fail
    BY <1>a DEF Abort, Running, T!Fail, Outcome, Active, Done
  <2> QED
    BY <2>1 DEF T!Next
<1>2. ASSUME NEW t \in Thread, LoadActive(t) \/ StartFile(t)
      PROVE  T!Next \/ UNCHANGED T!vars
  <2>1. CASE LoadActive(t)
    BY <1>1, <2>1 DEF LoadActive
  <2>2. CASE StartFile(t) /\ ~ Abort
    <3>1. i[t] \in File /\ stage[i[t]] = "claimed"
      BY <2>2, AtFile DEF StartFile, Inductive, LoopInv
    <3>2. Active' = Active /\ Done' = Done /\ Outcome' = Outcome
      BY <1>t, <2>2, <3>1 DEF StartFile, Active, Done, TypeOK, Outcome, Running
    <3> QED
      BY <1>0, <3>2
  <2> QED
    BY <1>2, <1>a, <2>1, <2>2 DEF StartFile
<1>3. ASSUME NEW t \in Thread, ExchangeActive(t)
      PROVE  T!Next \/ UNCHANGED T!vars
  <2>1. CASE ~ Exchanges(t)
    BY <1>1, <1>3, <2>1 DEF ExchangeActive
  <2>2. CASE Exchanges(t)
    <3>1. /\ i[t] \in File /\ stage[i[t]] = "waiting" /\ Running
          /\ stage' = [stage EXCEPT ![i[t]] = "claimed"] /\ UNCHANGED status
      BY <1>3, <2>2, AtFile DEF ExchangeActive, Inductive, LoopInv
    <3>2. /\ {} \in SUBSET Active /\ {i[t]} \in SUBSET (File \ (Active \cup Done))
          /\ Active' = (Active \ {}) \cup {i[t]} /\ Done' = Done \cup {}
      BY <1>t, <3>1 DEF Active, Done, TypeOK
    <3> QED
      BY <1>i, <3>1, <3>2, Advances
  <2> QED
    BY <2>1, <2>2
<1>4. ASSUME NEW f \in File, NEW s, NEW r,
             stage[f] = s, stage' = [stage EXCEPT ![f] = r], Outcome' = Outcome,
             \/ s \in {"started", "syncing", "closing"} /\ r \in {"started", "syncing", "closing"}
             \/ s \in {"released", "counted", "last"} /\ r \in {"counted", "last", "done"}
      PROVE  UNCHANGED T!vars
  <2>1. Active' = Active /\ Done' = Done
    BY <1>4, <1>t DEF Active, Done, TypeOK
  <2> QED
    BY <1>4, <2>1 DEF T!vars
<1>5. ASSUME NEW f \in File, NEW r \in {"released", "counted", "last"},
             Running, UNCHANGED status,
             stage[f] = "closing", stage' = [stage EXCEPT ![f] = r]
      PROVE  T!Next
  <2>1. /\ {f} \in SUBSET Active /\ {} \in SUBSET (File \ (Active \cup Done))
        /\ Active' = (Active \ {f}) \cup {} /\ Done' = Done \cup {f}
    BY <1>5, <1>t DEF Active, Done, TypeOK
  <2> QED
    BY <1>5, <1>i, <2>1, Advances
<1>6. ASSUME NEW f \in File, Notification(f)
      PROVE  T!Next \/ UNCHANGED T!vars
  <2>1. CASE SyncFile(f)
    BY <1>4, <1>a, <2>1 DEF SyncFile, Step, Outcome, Running
  <2>2. CASE CloseFile(f)
    BY <1>4, <2>2 DEF CloseFile, Step, Outcome, Running
  <2>3. CASE CountFile(f)
    BY <1>4, <1>5, <2>3 DEF CountFile, Step, Outcome, Running
  <2>4. CASE SetCompleted(f) \/ ReleaseRead(f) \/ CompareWrite(f)
    BY <1>4, <2>4 DEF SetCompleted, ReleaseRead, CompareWrite, Step, Outcome, Running
  <2>5. CASE ReleaseWrite(f)
    BY <1>5, <2>5 DEF ReleaseWrite, Step
  <2>6. CASE LateStep(f)
    BY <1>4, <2>6 DEF LateStep, Step, Outcome, Running
  <2> QED
    BY <1>6, <2>1, <2>2, <2>3, <2>4, <2>5, <2>6 DEF Notification
<1>7. CASE Return
  <2>1. Counted = File /\ \A f \in File : stage[f] # "last"
    BY <1>7, AllCounted DEF Return, Inductive, CountInv
  <2>2. Active = {} /\ Done = File /\ Active' = {} /\ Done' = File
    BY <1>7, <2>1 DEF Return, Active, Done, Counted
  <2>3. T!Report
    BY <1>7, <2>2 DEF Return, T!Report, T!Waiting, Outcome, Running
  <2> QED
    BY <2>3 DEF T!Next
<1>8. CASE Exit
  <2>1. Outcome' = Outcome /\ Active' = Active /\ Done' = Done
    BY <1>8 DEF Exit, Outcome, Running, Active, Done
  <2> QED
    BY <1>0, <2>1
<1>9. CASE Ended \/ UNCHANGED vars
  BY <1>1, <1>9 DEF Ended, vars
<1> QED
  BY <1>2, <1>3, <1>6, <1>7, <1>8, <1>9 DEF Next, Loop

(* Every run of any number of threads transfers each file once, never more *)
(* than the limit together, and reports when all of them are counted.      *)
THEOREM ImplementsTransfer == Spec => TransferSpec
<1>1. Inductive /\ [Next]_vars => [T!Next]_T!vars
  BY RefinesStep
<1> QED
  BY RefinesInit, InductiveCorrect, <1>1, PTL DEF Spec, TransferSpec, T!Spec
===============================================================================
