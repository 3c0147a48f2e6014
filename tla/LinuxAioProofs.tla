---------------------------- MODULE LinuxAioProofs ----------------------------
(***************************************************************************)
(* Theorems about LinuxAio for every number of files, concurrency option   *)
(* and size of the ring.                                                   *)
(***************************************************************************)
EXTENDS LinuxAio, FiniteSetTheorems, TLAPS

USE ConstantsOK DEF ConstantsOK, File, NoFile
-------------------------------------------------------------------------------
LEMMA FilesFinite == IsFiniteSet(File) /\ Cardinality(File) = NumFiles
<1>1. /\ IsFiniteSet(0 .. NumFiles - 1)
      /\ Cardinality(0 .. NumFiles - 1) =
           IF 0 > NumFiles - 1 THEN 0 ELSE (NumFiles - 1) - 0 + 1
  <2>1. 0 \in Int /\ NumFiles - 1 \in Int
    OBVIOUS
  <2> QED
    BY <2>1, FS_Interval, Zenon
<1> QED
  BY <1>1

LEMMA SubsetSize ==
  ASSUME NEW S \in SUBSET File
  PROVE  IsFiniteSet(S) /\ Cardinality(S) \in 0 .. NumFiles
<1>1. IsFiniteSet(S) /\ Cardinality(S) <= Cardinality(File)
  BY FilesFinite, FS_Subset, Zenon
<1>2. Cardinality(S) \in Nat
  BY <1>1, FS_CardinalityType
<1> QED
  BY <1>1, <1>2, FilesFinite

LEMMA OneMore ==
  ASSUME NEW S \in SUBSET File, NEW f \in File \ S
  PROVE  Cardinality(S \cup {f}) = Cardinality(S) + 1
BY SubsetSize, FS_AddElement

LEMMA OneLess ==
  ASSUME NEW S \in SUBSET File, NEW f \in S
  PROVE  Cardinality(S \ {f}) = Cardinality(S) - 1
BY SubsetSize, FS_RemoveElement

LEMMA InductiveInit == Init => Inductive
<1> SUFFICES ASSUME Init
             PROVE  Inductive
  OBVIOUS
<1> USE DEF Init
<1>1. TypeOK
  <2>1. max_concurrency \in Nat /\ at \in {"load", "join"}
    BY DEF Turn
  <2>2. stage \in [File -> {"waiting", "claimed", "submitted", "complete", "reaped", "done"}]
    OBVIOUS
  <2>3. results \in [File -> Nat]
    OBVIOUS
  <2>4. /\ i \in 0 .. NumFiles /\ active_count \in 0 .. NumFiles
        /\ completed_count \in 0 .. NumFiles
    OBVIOUS
  <2> QED
    BY <2>1, <2>2, <2>3, <2>4 DEF TypeOK
<1>2. InFlight = {} /\ Recorded = {}
  BY DEF InFlight, Recorded
<1>3. ActiveExact /\ RecordInv
  BY <1>2, FS_EmptySet DEF ActiveExact, RecordInv, Unrecorded
<1>4. MainInv /\ PollerInv
  BY DEF MainInv, PollerInv, Holds, Turn
<1> QED
  BY <1>1, <1>3, <1>4 DEF Inductive
-------------------------------------------------------------------------------
(* A step of the main thread that neither takes a place nor records.       *)
LEMMA CountsKept ==
  ASSUME Inductive, InFlight' = InFlight,
         UNCHANGED <<active_count, max_concurrency, results, completed_count, completed>>
  PROVE  ActiveExact' /\ Recorded' = Recorded
BY DEF Inductive, ActiveExact, Recorded

LEMMA AbortStep ==
  ASSUME Inductive, UNCHANGED <<optionVars, mainVars, poller, cur, stage, active_count, resultVars>>,
         status' \in {"running", "stopped", "aborted", "refused"}
  PROVE  Inductive'
<1> USE DEF optionVars, mainVars, resultVars
<1>1. InFlight' = InFlight
  BY DEF InFlight
<1>2. ActiveExact' /\ Recorded' = Recorded
  BY <1>1, CountsKept
<1>3. TypeOK'
  BY DEF Inductive, TypeOK
<1>4. MainInv' /\ PollerInv'
  BY DEF Inductive, MainInv, PollerInv, Holds
<1>5. RecordInv'
  BY <1>2 DEF Inductive, RecordInv, Unrecorded
<1> QED
  BY <1>2, <1>3, <1>4, <1>5 DEF Inductive

LEMMA LoadStep ==
  ASSUME Inductive, LoadActive
  PROVE  Inductive'
<1> USE DEF Inductive, LoadActive, optionVars, resultVars
<1>1. InFlight' = InFlight
  BY DEF InFlight
<1>2. ActiveExact' /\ Recorded' = Recorded
  BY <1>1, CountsKept
<1>3. TypeOK'
  BY DEF TypeOK
<1>4. MainInv'
  BY DEF MainInv, HasPlace, TypeOK
<1>5. PollerInv'
  BY DEF PollerInv, Holds
<1>6. RecordInv'
  BY <1>2 DEF RecordInv, Unrecorded
<1> QED
  BY <1>2, <1>3, <1>4, <1>5, <1>6

(* The main thread takes a place, if the poller has not changed the count. *)
LEMMA ExchangeStep ==
  ASSUME Inductive, ExchangeActive
  PROVE  Inductive'
<1> USE DEF Inductive, optionVars, resultVars
<1>1. CASE ~ Exchanges
  <2> USE <1>1 DEF ExchangeActive
  <2>1. InFlight' = InFlight
    BY DEF InFlight
  <2>2. ActiveExact' /\ Recorded' = Recorded
    BY <2>1, CountsKept
  <2>3. TypeOK'
    BY DEF TypeOK
  <2>4. MainInv'
    BY DEF MainInv, TypeOK
  <2>5. PollerInv'
    BY DEF PollerInv, Holds
  <2>6. RecordInv'
    BY <2>2 DEF RecordInv, Unrecorded
  <2> QED
    BY <2>2, <2>3, <2>4, <2>5, <2>6
<1>2. CASE Exchanges
  <2>1. /\ i \in File /\ stage[i] = "waiting"
        /\ count = active_count /\ count < max_concurrency
    BY <1>2 DEF ExchangeActive, Exchanges, MainInv, TypeOK
  <2>2. /\ active_count' = count + 1 /\ at' = "open"
        /\ stage' = [stage EXCEPT ![i] = "claimed"]
        /\ UNCHANGED <<optionVars, status, i, count, poller, cur, resultVars>>
    BY <1>2 DEF ExchangeActive
  <2>3. InFlight' = InFlight \cup {i} /\ i \notin InFlight
    BY <2>1, <2>2 DEF InFlight, TypeOK
  <2>4. Cardinality(InFlight') = Cardinality(InFlight) + 1
    BY <2>1, <2>3, OneMore DEF InFlight
  <2>5. ActiveExact'
    BY <2>1, <2>2, <2>4 DEF ActiveExact, TypeOK
  <2>6. active_count' \in 0 .. NumFiles
    <3>1. InFlight' \in SUBSET File
      BY DEF InFlight
    <3> QED
      BY <2>5, <3>1, SubsetSize DEF ActiveExact
  <2>7. TypeOK'
    BY <2>2, <2>6 DEF TypeOK
  <2>8. MainInv'
    BY <2>1, <2>2 DEF MainInv, TypeOK
  <2>9. PollerInv'
    BY <2>1, <2>2 DEF PollerInv, Holds, TypeOK
  <2>10. RecordInv'
    <3>1. Recorded' = Recorded /\ i \notin Recorded
      BY <2>1, <2>2 DEF Recorded, RecordInv
    <3> QED
      BY <2>2, <3>1 DEF RecordInv, Unrecorded, TypeOK, Recorded
  <2> QED
    BY <2>5, <2>7, <2>8, <2>9, <2>10
<1> QED
  BY <1>1, <1>2

LEMMA OpenStep ==
  ASSUME Inductive, OpenFile, ~ Abort
  PROVE  Inductive'
<1> USE DEF Inductive, OpenFile, optionVars, resultVars
<1>1. InFlight' = InFlight
  BY DEF InFlight
<1>2. ActiveExact' /\ Recorded' = Recorded
  BY <1>1, CountsKept
<1>3. TypeOK'
  BY DEF TypeOK
<1>4. MainInv'
  BY DEF MainInv
<1>5. PollerInv'
  BY DEF PollerInv, Holds
<1>6. RecordInv'
  BY <1>2 DEF RecordInv, Unrecorded
<1> QED
  BY <1>2, <1>3, <1>4, <1>5, <1>6

(* The main thread hands file i to the kernel and turns to the next. *)
LEMMA SubmittedStep ==
  ASSUME Inductive, at = "submit", Submitted
  PROVE  Inductive'
<1> USE DEF Inductive, optionVars, resultVars
<1>1. i \in File /\ stage[i] = "claimed"
  BY DEF MainInv, TypeOK
<1>2. /\ stage' = [stage EXCEPT ![i] = "submitted"]
      /\ i' = i + 1 /\ at' = Turn(i + 1)
      /\ UNCHANGED <<optionVars, status, count, poller, cur, active_count, resultVars>>
  BY DEF Submitted
<1>3. InFlight' = InFlight
  BY <1>1, <1>2 DEF InFlight, TypeOK
<1>4. ActiveExact' /\ Recorded' = Recorded
  BY <1>2, <1>3, CountsKept
<1>5. TypeOK'
  BY <1>1, <1>2 DEF TypeOK, Turn
<1>6. MainInv'
  BY <1>1, <1>2 DEF MainInv, Turn, TypeOK
<1>7. PollerInv'
  BY <1>1, <1>2 DEF PollerInv, Holds, TypeOK
<1>8. RecordInv'
  <2>1. i \notin Recorded
    BY <1>1 DEF RecordInv
  <2> QED
    BY <1>2, <1>4, <2>1 DEF RecordInv, Unrecorded, TypeOK, Recorded
<1> QED
  BY <1>4, <1>5, <1>6, <1>7, <1>8
-------------------------------------------------------------------------------
(* The kernel and the poller move file f on, from s to t, without touching *)
(* its place.                                                              *)
LEMMA CompleteStep ==
  ASSUME Inductive, NEW f \in File, Complete(f)
  PROVE  Inductive'
<1> USE DEF Inductive, Complete, optionVars, mainVars, resultVars
<1>1. InFlight' = InFlight
  BY DEF InFlight, TypeOK
<1>2. ActiveExact' /\ Recorded' = Recorded
  BY <1>1, CountsKept
<1>3. TypeOK'
  BY DEF TypeOK
<1>4. MainInv'
  BY DEF MainInv, TypeOK
<1>5. PollerInv'
  BY DEF PollerInv, Holds, TypeOK
<1>6. RecordInv'
  BY <1>2 DEF RecordInv, Unrecorded, TypeOK, Recorded
<1> QED
  BY <1>2, <1>3, <1>4, <1>5, <1>6

LEMMA ReapStep ==
  ASSUME Inductive, NEW f \in File, Reap(f), ~ Abort
  PROVE  Inductive'
<1> USE DEF Inductive, Reap, optionVars, mainVars, resultVars
<1>1. InFlight' = InFlight
  BY DEF InFlight, TypeOK
<1>2. ActiveExact' /\ Recorded' = Recorded
  BY <1>1, CountsKept
<1>3. TypeOK'
  BY DEF TypeOK
<1>4. MainInv'
  BY DEF MainInv, TypeOK
<1>5. PollerInv'
  BY DEF PollerInv, Holds, TypeOK
<1>6. RecordInv'
  <2>1. results[f] = 0 /\ cur' = f /\ results' = results
    BY DEF RecordInv, Recorded
  <2>2. \A g \in Recorded : stage'[g] \in {"reaped", "done"}
    BY DEF RecordInv, TypeOK, Recorded
  <2>3. Unrecorded' => results'[cur'] = 0
    BY <2>1
  <2> QED
    BY <1>2, <2>1, <2>2, <2>3 DEF RecordInv
<1> QED
  BY <1>2, <1>3, <1>4, <1>5, <1>6

(* close_file gives the place of its file back. *)
LEMMA GiveBackStep ==
  ASSUME Inductive, Holds, GivePlaceBack, ~ Holds',
         poller' \in {"closed", "poll"},
         poller' = "closed" => program = "write" /\ Unrecorded,
         UNCHANGED <<optionVars, status, mainVars, cur, resultVars>>
  PROVE  Inductive'
<1> USE DEF Inductive, optionVars, mainVars, resultVars
<1>1. cur \in File /\ stage[cur] = "reaped"
  BY DEF PollerInv, Holds
<1>2. active_count' = active_count - 1 /\ stage' = [stage EXCEPT ![cur] = "done"]
  BY DEF GivePlaceBack, Release
<1>3. InFlight' = InFlight \ {cur} /\ cur \in InFlight
  BY <1>1, <1>2 DEF InFlight, TypeOK
<1>4. Cardinality(InFlight') = Cardinality(InFlight) - 1
  BY <1>3, OneLess DEF InFlight
<1>5. ActiveExact'
  BY <1>2, <1>4 DEF ActiveExact, TypeOK
<1>6. active_count' \in 0 .. NumFiles
  <2>1. InFlight' \in SUBSET File
    BY DEF InFlight
  <2> QED
    BY <1>5, <2>1, SubsetSize DEF ActiveExact
<1>7. TypeOK'
  BY <1>1, <1>2, <1>6 DEF TypeOK
<1>8. MainInv'
  BY <1>1, <1>2 DEF MainInv, TypeOK
<1>9. PollerInv'
  BY <1>1, <1>2 DEF PollerInv, Holds, TypeOK
<1>10. RecordInv'
  <2>1. Recorded' = Recorded
    BY DEF Recorded
  <2>2. \A f \in Recorded : stage'[f] \in {"reaped", "done"}
    BY <1>1, <1>2 DEF RecordInv, TypeOK, Recorded
  <2>3. Unrecorded' => results[cur] = 0
    BY DEF Unrecorded, RecordInv
  <2> QED
    <3>1. /\ \A f \in File : results'[f] \in {0, 1}
          /\ completed_count' = Cardinality(Recorded')
          /\ completed' => completed_count' = NumFiles
      BY <2>1 DEF RecordInv
    <3>2. \A f \in Recorded' : stage'[f] \in {"reaped", "done"}
      BY <2>1, <2>2
    <3>3. Unrecorded' => results'[cur'] = 0
      BY <2>3 DEF Unrecorded
    <3> HIDE DEF Inductive, resultVars, mainVars, optionVars, File
    <3> QED
      BY ONLY <3>1, <3>2, <3>3 DEF RecordInv
<1> QED
  BY <1>5, <1>7, <1>8, <1>9, <1>10

(* close_file records its file. *)
LEMMA RecordStep ==
  ASSUME Inductive, Unrecorded, Record, ~ Unrecorded',
         poller' \in {"closed", "poll"},
         poller' = "closed" => program = "read" /\ Holds,
         UNCHANGED <<optionVars, status, mainVars, cur, active_count, stage>>
  PROVE  Inductive'
<1> USE DEF Inductive, optionVars, mainVars
<1>1. cur \in File /\ results[cur] = 0 /\ stage[cur] \in {"reaped", "done"}
  BY DEF PollerInv, Holds, Unrecorded, RecordInv
<1>2. /\ results' = [results EXCEPT ![cur] = @ + 1]
      /\ completed_count' = completed_count + 1
      /\ completed' = (completed \/ completed_count + 1 = NumFiles)
  BY DEF Record, LastFile
<1>3. results'[cur] = 1 /\ \A f \in File \ {cur} : results'[f] = results[f]
  BY <1>1, <1>2 DEF TypeOK
<1>4. Recorded' = Recorded \cup {cur} /\ cur \notin Recorded /\ Recorded \in SUBSET File
  BY <1>1, <1>3 DEF Recorded
<1>5. completed_count' = Cardinality(Recorded')
  BY <1>1, <1>2, <1>4, OneMore DEF RecordInv
<1>6. completed_count' \in 0 .. NumFiles
  <2>1. Recorded' \in SUBSET File
    BY <1>1, <1>4
  <2> QED
    BY <1>5, <2>1, SubsetSize
<1>7. completed' \in BOOLEAN /\ (completed' => completed_count' = NumFiles)
  <2>1. completed => completed_count = NumFiles
    BY DEF RecordInv
  <2>2. completed_count # NumFiles
    BY <1>2, <1>6 DEF TypeOK
  <2> QED
    BY <1>2, <2>1, <2>2, Zenon
<1>8. InFlight' = InFlight
  BY DEF InFlight
<1>9. ActiveExact'
  BY <1>8 DEF ActiveExact
<1>10. results' \in [File -> Nat]
  BY <1>1, <1>2 DEF TypeOK
<1>11. TypeOK'
  BY <1>1, <1>6, <1>7, <1>10 DEF TypeOK
<1>12. MainInv'
  BY DEF MainInv
<1>13. PollerInv'
  BY <1>1 DEF PollerInv, Holds
<1>14. RecordInv'
  <2>1. \A f \in File : results'[f] \in {0, 1}
    BY <1>3 DEF RecordInv
  <2>2. \A f \in Recorded' : stage'[f] \in {"reaped", "done"}
    BY <1>1, <1>4 DEF RecordInv
  <2> QED
    BY <1>5, <1>7, <2>1, <2>2 DEF RecordInv
<1> QED
  BY <1>9, <1>11, <1>12, <1>13, <1>14
-------------------------------------------------------------------------------
LEMMA InductiveStep == Inductive /\ [Next]_vars => Inductive'
<1> SUFFICES ASSUME Inductive, [Next]_vars
             PROVE  Inductive'
  OBVIOUS
<1>t. TypeOK
  BY DEF Inductive
<1>1. CASE UNCHANGED vars
  BY <1>1, <1>t, AbortStep DEF vars, TypeOK
<1>2. CASE Abort
  BY <1>2, AbortStep DEF Abort
<1>3. CASE LoadActive
  BY <1>3, LoadStep
<1>4. CASE ExchangeActive
  BY <1>4, ExchangeStep
<1>5. CASE OpenFile
  BY <1>2, <1>5, OpenStep
<1>6. CASE SubmitRead
  <2>1. CASE Submitted
    BY <1>6, <2>1, SubmittedStep DEF SubmitRead
  <2>2. CASE ~ Submitted /\ ~ Abort
    BY <1>6, <2>2, AbortStep DEF SubmitRead
  <2> QED
    BY <1>2, <2>1, <2>2
<1>7. CASE SubmitWrite
  BY <1>1, <1>2, <1>7, SubmittedStep DEF SubmitWrite
<1>8. CASE Join
  BY <1>8, AbortStep DEF Join
<1>9. ASSUME NEW f \in File, Complete(f)
      PROVE  Inductive'
  BY <1>9, CompleteStep
<1>10. ASSUME NEW f \in File, Reap(f)
       PROVE  Inductive'
  BY <1>2, <1>10, ReapStep
<1>11. CASE ReapFails
  BY <1>2, <1>11 DEF ReapFails
<1>12. CASE CloseRead
  <2>1. CASE poller = "closing"
    <3>1. poller' = "closed" /\ Record /\ program = "read" /\ program' = program
      BY <1>12, <2>1 DEF CloseRead, optionVars
    <3>2. Unrecorded /\ Holds /\ ~ Unrecorded'
      BY <2>1, <3>1 DEF Unrecorded, Holds
    <3> QED
      BY <1>12, <2>1, <3>1, <3>2, RecordStep DEF CloseRead
  <2>2. CASE poller = "closed"
    <3>1. poller' = "poll" /\ GivePlaceBack /\ program = "read"
      BY <1>12, <2>2 DEF CloseRead
    <3>2. Holds /\ ~ Holds'
      BY <2>2, <3>1 DEF Holds
    <3> QED
      BY <1>12, <2>2, <3>1, <3>2, GiveBackStep DEF CloseRead
  <2> QED
    BY <1>12, <2>1, <2>2 DEF CloseRead
<1>13. CASE CloseWrite
  <2>1. CASE poller = "closing"
    <3>1. poller' = "closed" /\ GivePlaceBack /\ program = "write" /\ program' = program
      BY <1>13, <2>1 DEF CloseWrite, optionVars
    <3>2. Unrecorded /\ Holds /\ ~ Holds'
      BY <2>1, <3>1 DEF Unrecorded, Holds
    <3> QED
      BY <1>13, <2>1, <3>1, <3>2, GiveBackStep DEF CloseWrite
  <2>2. CASE poller = "closed"
    <3>1. poller' = "poll" /\ Record /\ program = "write"
      BY <1>13, <2>2 DEF CloseWrite
    <3>2. Unrecorded /\ ~ Unrecorded'
      BY <2>2, <3>1 DEF Unrecorded
    <3> QED
      BY <1>13, <2>2, <3>1, <3>2, RecordStep DEF CloseWrite
  <2> QED
    BY <1>13, <2>1, <2>2 DEF CloseWrite
<1>14. CASE PollerExit
  <2> USE <1>14 DEF PollerExit, Inductive, optionVars, mainVars
  <2>1. InFlight' = InFlight /\ Recorded' = Recorded
    BY DEF InFlight, Recorded, resultVars
  <2>2. ActiveExact' /\ TypeOK'
    BY <2>1 DEF ActiveExact, TypeOK, resultVars
  <2>3. MainInv' /\ PollerInv'
    BY DEF MainInv, PollerInv, Holds
  <2>4. RecordInv'
    BY <2>1 DEF RecordInv, Unrecorded, resultVars
  <2> QED
    BY <2>2, <2>3, <2>4
<1>15. CASE Ended
  BY <1>1, <1>15 DEF Ended
<1> QED
  BY <1>1, <1>3, <1>4, <1>5, <1>6, <1>7, <1>8, <1>9, <1>10, <1>11, <1>12,
     <1>13, <1>14, <1>15 DEF Next, Main, Poller, Kernel

(* Types, places and records, whatever the two threads do between each     *)
(* other's steps.                                                          *)
THEOREM InductiveCorrect == Spec => []Inductive
BY InductiveInit, InductiveStep, PTL DEF Spec

(* The load and the compare_exchange of the main thread, the decrement of  *)
(* the poller: active_count is always the number of files in flight, and   *)
(* never above --concurrency.                                              *)
THEOREM ActiveCountExact == Spec => []ActiveExact
<1>1. Inductive => ActiveExact
  BY DEF Inductive
<1> QED
  BY InductiveCorrect, <1>1, PTL
-------------------------------------------------------------------------------
(* The ring. *)
LEMMA RingStep == Inductive /\ RingSuffices /\ [Next]_vars => RingSuffices'
<1> SUFFICES ASSUME Inductive, RingSuffices, [Next]_vars, status' = "refused"
             PROVE  max_concurrency' > RingSize
  BY DEF RingSuffices
<1> USE DEF optionVars
<1>1. CASE status = "refused"
  <2>1. UNCHANGED vars
    BY <1>1 DEF Next, Main, Poller, Kernel, Ended, LoadActive, ExchangeActive, OpenFile,
       SubmitRead, SubmitWrite, Complete, Reap, ReapFails, CloseRead, CloseWrite,
       PollerExit, Join, Running
  <2> QED
    BY <1>1, <2>1 DEF RingSuffices, vars
<1>2. CASE status # "refused"
  <2>1. /\ at = "submit" /\ RingFull /\ UNCHANGED max_concurrency
    BY <1>2 DEF Next, Main, Poller, Kernel, Ended, LoadActive, ExchangeActive, OpenFile,
       SubmitRead, SubmitWrite, Submitted, Complete, Reap, ReapFails, CloseRead,
       CloseWrite, PollerExit, Join, Abort, vars, Running
  <2>2. i \in File /\ stage[i] = "claimed"
    BY <2>1 DEF Inductive, MainInv, TypeOK
  <2>3. /\ InRing \in SUBSET File /\ i \in File \ InRing
        /\ InRing \cup {i} \in SUBSET InFlight /\ InFlight \in SUBSET File
    BY <2>2 DEF InRing, InFlight
  <2>4. /\ IsFiniteSet(InFlight) /\ Cardinality(InFlight) \in 0 .. NumFiles
        /\ Cardinality(InRing) \in 0 .. NumFiles
        /\ Cardinality(InRing \cup {i}) = Cardinality(InRing) + 1
    BY <2>3, SubsetSize, OneMore
  <2>5. Cardinality(InRing \cup {i}) <= Cardinality(InFlight)
    BY <2>3, <2>4, FS_Subset
  <2>6. Cardinality(InFlight) <= max_concurrency /\ max_concurrency \in Nat
    BY DEF Inductive, ActiveExact, TypeOK
  <2> QED
    BY <2>1, <2>4, <2>5, <2>6 DEF RingFull
<1> QED
  BY <1>1, <1>2

(* io_queue_init( 1 ) is room enough: EAGAIN ends the reader only when     *)
(* --concurrency asks for more requests than the ring has room for.        *)
THEOREM RingIsLargeEnough == Spec => []RingSuffices
<1>1. Init => RingSuffices
  BY DEF Init, RingSuffices
<1> QED
  BY InductiveCorrect, <1>1, RingStep, PTL DEF Spec
-------------------------------------------------------------------------------
(* LinuxAio implements Transfer. *)

Done == {f \in File : stage[f] = "done"}

(* The file of an event leaves the poller before the next event, and the   *)
(* poller leaves when all files are recorded.                              *)
Ending ==
  /\ \A f \in File : stage[f] = "reaped" => Holds /\ f = cur
  /\ poller = "exited" => completed

LEMMA EndingStep == Inductive /\ Ending /\ [Next]_vars => Ending'
<1> SUFFICES ASSUME Inductive, Ending, [Next]_vars
             PROVE  Ending'
  OBVIOUS
<1>t. TypeOK
  BY DEF Inductive
<1> USE DEF optionVars, mainVars, resultVars
<1>1. CASE UNCHANGED <<program, poller, cur, completed>>
           /\ \A f \in File : stage'[f] = "reaped" => stage[f] = "reaped"
  BY <1>1 DEF Ending, Holds
<1>2. CASE LoadActive \/ OpenFile \/ SubmitRead \/ SubmitWrite \/ Join \/ Abort
           \/ Ended \/ UNCHANGED vars
  <2>1. UNCHANGED <<program, poller, cur, completed>>
    BY <1>2 DEF LoadActive, OpenFile, SubmitRead, SubmitWrite, Submitted, Join, Abort,
                Ended, vars
  <2>2. \A f \in File : stage'[f] = "reaped" => stage[f] = "reaped"
    BY <1>2, <1>t DEF LoadActive, OpenFile, SubmitRead, SubmitWrite, Submitted, Join,
                Abort, Ended, vars, TypeOK
  <2> QED
    BY <1>1, <2>1, <2>2
<1>3. CASE ExchangeActive
  BY <1>1, <1>3, <1>t DEF ExchangeActive, TypeOK
<1>4. ASSUME NEW f \in File, Complete(f)
      PROVE  Ending'
  BY <1>1, <1>4, <1>t DEF Complete, TypeOK
<1>5. ASSUME NEW f \in File, Reap(f), ~ Abort
      PROVE  Ending'
  BY <1>5, <1>t DEF Reap, Ending, Holds, TypeOK
<1>6. ASSUME Holds, GivePlaceBack, poller' # "exited", UNCHANGED completed
      PROVE  Ending'
  BY <1>6, <1>t DEF GivePlaceBack, Ending, TypeOK
<1>7. CASE CloseRead
  <2>1. CASE poller = "closing"
    BY <1>7, <2>1 DEF CloseRead, Record, Ending, Holds
  <2>2. CASE poller = "closed"
    BY <1>6, <1>7, <2>2 DEF CloseRead, Holds
  <2> QED
    BY <1>7, <2>1, <2>2 DEF CloseRead
<1>8. CASE CloseWrite
  <2>1. CASE poller = "closing"
    BY <1>6, <1>8, <2>1 DEF CloseWrite, Holds
  <2>2. CASE poller = "closed"
    BY <1>8, <2>2 DEF CloseWrite, Record, Ending, Holds
  <2> QED
    BY <1>8, <2>1, <2>2 DEF CloseWrite
<1>9. CASE PollerExit
  BY <1>9 DEF PollerExit, Ending, Holds
<1> QED
  BY <1>2, <1>3, <1>4, <1>5, <1>7, <1>8, <1>9
  DEF Next, Main, Poller, Kernel, ReapFails, Reap

(* When the main thread has joined the poller every file is done. *)
LEMMA JoinedLast ==
  ASSUME Inductive, Ending, poller = "exited"
  PROVE  Done = File /\ InFlight = {}
<1>1. completed_count = NumFiles
  BY DEF Ending, Inductive, RecordInv
<1>2. Recorded \in SUBSET File /\ Cardinality(Recorded) = Cardinality(File)
  BY <1>1, FilesFinite DEF Inductive, RecordInv, Recorded
<1>3. Recorded = File
  BY <1>2, FilesFinite, FS_Subset
<1>4. \A f \in File : stage[f] \in {"reaped", "done"}
  BY <1>3 DEF Inductive, RecordInv
<1>5. \A f \in File : stage[f] = "done"
  BY <1>4 DEF Ending, Holds
<1> QED
  BY <1>5 DEF Done, InFlight

LEMMA RefinesInit == Init => T!Init
<1> SUFFICES ASSUME Init
             PROVE  T!Init
  OBVIOUS
<1>1. InFlight = {} /\ Done = {} /\ Outcome = "running" /\ max_concurrency \in Nat
  BY DEF Init, InFlight, Done, Outcome
<1>2. T!IsFiniteSet(File)
  BY FilesFinite DEF T!IsFiniteSet, IsFiniteSet
<1> QED
  BY <1>1, <1>2 DEF T!Init, Done

(* The instance brings a copy of Cardinality with it. *)
LEMMA SameCardinality == \A S : T!Cardinality(S) = Cardinality(S)
BY DEF T!Cardinality, Cardinality

(* Files of D are given back, files of S take a place. *)
LEMMA Advances ==
  ASSUME Inductive', status = "running", UNCHANGED <<status, max_concurrency>>,
         NEW D \in SUBSET InFlight, NEW S \in SUBSET (File \ (InFlight \cup Done)),
         InFlight' = (InFlight \ D) \cup S, Done' = Done \cup D
  PROVE  T!Next
<1>1. Cardinality(InFlight') <= max_concurrency
  BY DEF Inductive, ActiveExact
<1>2. T!Advance(D, S)
  <2>1. Outcome = "running" /\ Outcome' = Outcome
    BY DEF Outcome
  <2> QED
    BY <1>1, <2>1, SameCardinality DEF T!Advance, Done
<1>3. S \in SUBSET T!Waiting
  BY DEF T!Waiting, Done
<1> QED
  BY <1>2, <1>3 DEF T!Next

LEMMA RefinesStep == Inductive /\ Ending /\ [Next]_vars => [T!Next]_T!vars
<1> SUFFICES ASSUME Inductive, Ending, [Next]_vars
             PROVE  T!Next \/ UNCHANGED T!vars
  BY DEF T!vars
<1>i. Inductive'
  BY InductiveStep
<1>t. TypeOK
  BY DEF Inductive
<1> USE DEF optionVars, mainVars, resultVars
<1>0. CASE UNCHANGED <<status, max_concurrency>> /\ InFlight' = InFlight /\ Done' = Done
  BY <1>0 DEF T!vars, Outcome, Done
<1>1. CASE /\ Running /\ status' \in {"aborted", "refused"}
           /\ UNCHANGED <<max_concurrency, stage>>
  <2>1. T!Fail
    BY <1>1 DEF T!Fail, Outcome, Running, InFlight
  <2> QED
    BY <2>1 DEF T!Next
<1>2. CASE UNCHANGED <<status, max_concurrency, stage>>
  BY <1>0, <1>2 DEF InFlight, Done
<1>a. CASE Running /\ Abort
  BY <1>1, <1>a DEF Abort
<1>3. CASE LoadActive \/ OpenFile \/ PollerExit \/ Ended \/ UNCHANGED vars
  <2>1. CASE OpenFile /\ Abort
    BY <1>a, <2>1 DEF OpenFile
  <2>2. CASE ~ (OpenFile /\ Abort)
    BY <1>2, <1>3, <2>2 DEF LoadActive, OpenFile, PollerExit, Ended, vars
  <2> QED
    BY <2>1, <2>2
<1>4. CASE ExchangeActive
  <2>1. CASE ~ Exchanges
    BY <1>2, <1>4, <2>1 DEF ExchangeActive
  <2>2. CASE Exchanges
    <3>1. /\ i \in File /\ stage[i] = "waiting" /\ status = "running"
          /\ stage' = [stage EXCEPT ![i] = "claimed"]
          /\ UNCHANGED <<status, max_concurrency>>
      BY <1>4, <1>t, <2>2 DEF ExchangeActive, Inductive, MainInv, TypeOK, Running
    <3>2. /\ {} \in SUBSET InFlight /\ {i} \in SUBSET (File \ (InFlight \cup Done))
          /\ InFlight' = (InFlight \ {}) \cup {i} /\ Done' = Done \cup {}
      BY <1>t, <3>1 DEF InFlight, Done, TypeOK
    <3> QED
      BY <1>i, <3>1, <3>2, Advances
  <2> QED
    BY <2>1, <2>2
<1>5. CASE Running /\ at = "submit" /\ Submitted
  <2>1. i \in File /\ stage[i] = "claimed"
    BY <1>5, <1>t DEF Inductive, MainInv, TypeOK
  <2>2. InFlight' = InFlight /\ Done' = Done
    BY <1>5, <1>t, <2>1 DEF Submitted, InFlight, Done, TypeOK
  <2> QED
    BY <1>0, <1>5, <2>2 DEF Submitted
<1>6. CASE SubmitRead
  <2>1. CASE ~ Abort /\ ~ Submitted
    BY <1>1, <1>6, <2>1 DEF SubmitRead
  <2> QED
    BY <1>5, <1>6, <1>a, <2>1 DEF SubmitRead
<1>7. CASE SubmitWrite
  BY <1>3, <1>5, <1>7, <1>a DEF SubmitWrite
<1>8. ASSUME NEW f \in File, Complete(f)
      PROVE  T!Next \/ UNCHANGED T!vars
  <2>1. InFlight' = InFlight /\ Done' = Done
    BY <1>8, <1>t DEF Complete, InFlight, Done, TypeOK
  <2> QED
    BY <1>0, <1>8, <2>1 DEF Complete
<1>9. ASSUME NEW f \in File, Reap(f)
      PROVE  T!Next \/ UNCHANGED T!vars
  <2>1. CASE Abort
    BY <1>9, <1>a, <2>1 DEF Reap
  <2>2. CASE ~ Abort
    <3>1. InFlight' = InFlight /\ Done' = Done
      BY <1>9, <1>t, <2>2 DEF Reap, InFlight, Done, TypeOK
    <3> QED
      BY <1>0, <1>9, <2>2, <3>1 DEF Reap
  <2> QED
    BY <2>1, <2>2
<1>10. CASE ReapFails
  BY <1>10, <1>a DEF ReapFails
<1>11. ASSUME Running, Holds, GivePlaceBack, UNCHANGED <<status, max_concurrency>>
       PROVE  T!Next
  <2>1. /\ cur \in File /\ stage[cur] = "reaped"
        /\ stage' = [stage EXCEPT ![cur] = "done"]
    BY <1>11 DEF Inductive, PollerInv, Holds, GivePlaceBack
  <2>2. /\ {cur} \in SUBSET InFlight /\ {} \in SUBSET (File \ (InFlight \cup Done))
        /\ InFlight' = (InFlight \ {cur}) \cup {} /\ Done' = Done \cup {cur}
    BY <1>t, <2>1 DEF InFlight, Done, TypeOK
  <2> QED
    BY <1>11, <1>i, <2>2, Advances DEF Running
<1>12. CASE CloseRead
  BY <1>2, <1>11, <1>12 DEF CloseRead, Holds
<1>13. CASE CloseWrite
  BY <1>2, <1>11, <1>13 DEF CloseWrite, Holds
<1>14. CASE Join
  <2>1. /\ Done = File /\ InFlight = {}
        /\ status = "running" /\ status' = "stopped" /\ UNCHANGED <<max_concurrency, stage>>
    BY <1>14, JoinedLast DEF Join, Running
  <2>2. InFlight' = {} /\ Done' = Done
    BY <2>1 DEF InFlight, Done
  <2>3. T!Report
    BY <2>1, <2>2 DEF T!Report, T!Waiting, Outcome, Done
  <2> QED
    BY <2>3 DEF T!Next
<1> QED
  BY <1>3, <1>4, <1>6, <1>7, <1>8, <1>9, <1>10, <1>12, <1>13, <1>14
  DEF Next, Main, Poller, Kernel

(* Every run of the two threads transfers each file once, never more than  *)
(* --concurrency together, and reports when all of them are closed.        *)
THEOREM ImplementsTransfer == Spec => TransferSpec
<1>1. Init => Ending
  BY DEF Init, Ending
<1>2. Spec => []Ending
  BY InductiveCorrect, <1>1, EndingStep, PTL DEF Spec
<1> QED
  BY RefinesInit, InductiveCorrect, <1>2, RefinesStep, PTL DEF Spec, TransferSpec, T!Spec
===============================================================================
