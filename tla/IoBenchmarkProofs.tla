--------------------------- MODULE IoBenchmarkProofs --------------------------
(***************************************************************************)
(* Theorems about IoBenchmark for every number of blocks, size of the      *)
(* groups and size of the ring.                                            *)
(***************************************************************************)
EXTENDS IoBenchmark, FiniteSetTheorems, TLAPS

USE ConstantsOK DEF ConstantsOK, File

Pending == ring \cup ready \cup events
-------------------------------------------------------------------------------
LEMMA Interval ==
  ASSUME NEW a \in Nat, NEW b \in Nat, a <= b
  PROVE  IsFiniteSet(a .. b - 1) /\ Cardinality(a .. b - 1) = b - a
<1>1. /\ IsFiniteSet(a .. b - 1)
      /\ Cardinality(a .. b - 1) = IF a > b - 1 THEN 0 ELSE (b - 1) - a + 1
  <2>1. a \in Int /\ b - 1 \in Int
    OBVIOUS
  <2> QED
    BY <2>1, FS_Interval, Zenon
<1> QED
  BY <1>1

LEMMA FilesFinite == IsFiniteSet(File) /\ Cardinality(File) = NumFiles
<1>1. 0 \in Nat /\ 0 <= NumFiles /\ NumFiles - 0 = NumFiles
  OBVIOUS
<1> QED
  BY <1>1, Interval

LEMMA SubsetSize ==
  ASSUME NEW S \in SUBSET File
  PROVE  IsFiniteSet(S) /\ Cardinality(S) \in 0 .. NumFiles
<1>1. IsFiniteSet(S) /\ Cardinality(S) <= Cardinality(File)
  BY FilesFinite, FS_Subset, Zenon
<1>2. Cardinality(S) \in Nat
  BY <1>1, FS_CardinalityType
<1> QED
  BY <1>1, <1>2, FilesFinite

(* A batch of r requests joins those that are pending. *)
LEMMA BatchAdded ==
  ASSUME NEW S \in SUBSET File, NEW n \in Nat, NEW r \in Nat,
         n + r <= NumFiles, \A f \in S : f < n
  PROVE  Cardinality(S \cup (n .. n + r - 1)) = Cardinality(S) + r
<1> DEFINE B == n .. n + r - 1
<1>1. IsFiniteSet(B) /\ Cardinality(B) = r
  <2>1. PICK b \in Nat : b = n + r
    OBVIOUS
  <2>2. IsFiniteSet(n .. b - 1) /\ Cardinality(n .. b - 1) = b - n
    <3>1. n \in Nat /\ b \in Nat /\ n <= b
      BY <2>1
    <3> QED
      BY <3>1, Interval, Zenon
  <2> QED
    BY <2>1, <2>2
<1>2. IsFiniteSet(S) /\ Cardinality(S) \in Nat
  BY SubsetSize
<1>3. S \cap B = {}
  OBVIOUS
<1>4. Cardinality(S \cup B) = Cardinality(S) + Cardinality(B) - Cardinality(S \cap B)
  BY <1>1, <1>2, FS_Union, Zenon
<1>5. Cardinality(S \cap B) = 0
  BY <1>3, FS_EmptySet
<1> QED
  BY <1>1, <1>2, <1>4, <1>5

LEMMA OneLess ==
  ASSUME NEW S \in SUBSET File, NEW f \in S
  PROVE  Cardinality(S \ {f}) = Cardinality(S) - 1
BY SubsetSize, FS_RemoveElement
-------------------------------------------------------------------------------
LEMMA InductiveInit == Init => Inductive
<1> SUFFICES ASSUME Init
             PROVE  Inductive
  OBVIOUS
<1>1. bulk \in Nat /\ Group \in Nat /\ last \in 0 .. NumFiles
  <2>1. bulk \in Nat /\ Group \in Nat
    BY DEF Init, Group
  <2>2. last = Least(Group, NumFiles)
    BY DEF Init
  <2> QED
    BY <2>1, <2>2 DEF Least
<1>2. TypeOK
  <2>1. next \in 0 .. NumFiles /\ next <= last /\ completed_count \in 0 .. NumFiles
    BY <1>1 DEF Init
  <2>2. accepted \in [File -> Nat]
    BY DEF Init
  <2> QED
    BY <1>1, <2>1, <2>2 DEF Init, TypeOK
<1>3. Cardinality(ring \cup ready \cup events) = 0
  BY FS_EmptySet, ring \cup ready \cup events = {} DEF Init
<1>4. ExactlyOnce
  BY <1>3 DEF Init, ExactlyOnce
<1> QED
  BY <1>2, <1>4 DEF Init, Inductive, Apart

LEMMA SubmitStep ==
  ASSUME Inductive, NEW r \in 1 .. NumFiles, Submit(r)
  PROVE  Inductive'
<1> USE DEF Inductive
<1> DEFINE batch == next .. next + r - 1
<1>1. Cardinality(ring \cup ready) \in Int
  BY SubsetSize DEF TypeOK
<1>2. r \in Nat /\ next + r <= last /\ last <= NumFiles
  <2>1. r <= Least(last - next, RingSize - Cardinality(ring \cup ready))
    BY <1>1 DEF Submit, TypeOK, Least
  <2> QED
    BY <1>1, <2>1 DEF TypeOK, Least
<1>3. /\ next' = next + r
      /\ batch \subseteq File
      /\ ring' = ring \cup batch /\ ready' = ready /\ events' = events
      /\ accepted' = [f \in File |-> IF f \in batch THEN accepted[f] + 1 ELSE accepted[f]]
      /\ UNCHANGED <<bulk, status, polling, completed_count, completed>>
  BY <1>2 DEF Submit, Resume, pollVars, TypeOK
<1>4. last' \in 0 .. NumFiles /\ next' <= last'
  <2>1. Group \in Nat /\ last + Group >= last
    BY DEF Group, TypeOK
  <2> QED
    BY <1>2, <1>3, <2>1 DEF Submit, TypeOK, Least
<1>5. TypeOK'
  BY <1>2, <1>3, <1>4 DEF TypeOK
<1>6. \A f \in File : accepted'[f] = IF f < next' THEN 1 ELSE 0
  BY <1>2, <1>3 DEF TypeOK, ExactlyOnce
<1>7. completed_count' + Cardinality((ring \cup ready \cup events)') = next'
  <2>1. Cardinality(Pending \cup batch) = Cardinality(Pending) + r
    <3>1. Pending \in SUBSET File /\ next \in Nat /\ next + r <= NumFiles
      BY <1>2 DEF Pending, TypeOK
    <3>2. \A f \in Pending : f < next
      BY DEF Pending, Apart
    <3> QED
      BY <1>2, <3>1, <3>2, BatchAdded
  <2>2. (ring \cup ready \cup events)' = Pending \cup batch
    BY <1>3 DEF Pending
  <2>3. Cardinality(Pending) \in Nat
    BY SubsetSize DEF Pending, TypeOK
  <2>4. completed_count + Cardinality(Pending) = next
    BY DEF ExactlyOnce, Pending
  <2>5. completed_count + (Cardinality(Pending) + r) = next + r
    <3>1. \A p \in Nat : completed_count + p = next => completed_count + (p + r) = next + r
      BY <1>2 DEF TypeOK
    <3> QED
      BY <2>3, <2>4, <3>1
  <2> QED
    BY <1>3, <2>1, <2>2, <2>5
<1>8. Apart'
  BY <1>2, <1>3 DEF Apart, TypeOK
<1> QED
  BY <1>5, <1>6, <1>7, <1>8 DEF ExactlyOnce

(* The request of an event leaves the pending ones when it is counted. *)
LEMMA CountStep ==
  ASSUME Inductive, NEW f \in File, Count(f), ~ Abort
  PROVE  Inductive'
<1> USE DEF Inductive
<1>1. /\ f \in events /\ events' = events \ {f} /\ ring' = ring /\ ready' = ready
      /\ completed_count' = completed_count + 1
      /\ completed' \in BOOLEAN
      /\ UNCHANGED <<bulk, status, mainVars, polling>>
  BY DEF Count, TypeOK
<1>2. (ring \cup ready \cup events)' = Pending \ {f}
  BY <1>1 DEF Pending, Apart
<1>3. Cardinality(Pending \ {f}) = Cardinality(Pending) - 1
  BY <1>1, OneLess DEF Pending, TypeOK
<1>4. Cardinality(Pending \ {f}) \in Nat /\ Cardinality(Pending) \in Nat
  BY SubsetSize DEF Pending, TypeOK
<1>5. completed_count' + Cardinality((ring \cup ready \cup events)') = next'
  <2>1. completed_count + Cardinality(Pending) = next
    BY DEF ExactlyOnce, Pending
  <2>2. (completed_count + 1) + (Cardinality(Pending) - 1) = next
    BY <1>4, <2>1 DEF TypeOK
  <2> QED
    BY <1>1, <1>2, <1>3, <2>2 DEF mainVars
<1>6. completed_count' \in 0 .. NumFiles
  <2>1. PICK c \in Nat : (completed_count + 1) + c = next
    BY <1>1, <1>2, <1>4, <1>5 DEF mainVars
  <2> QED
    BY <1>1, <2>1 DEF TypeOK
<1>7. TypeOK'
  BY <1>1, <1>6 DEF TypeOK, mainVars
<1>8. ExactlyOnce'
  BY <1>1, <1>5 DEF ExactlyOnce, mainVars
<1>9. Apart'
  BY <1>1 DEF Apart, mainVars, TypeOK
<1> QED
  BY <1>7, <1>8, <1>9

(* The other steps move requests between the places, or none at all. *)
LEMMA MoveStep ==
  ASSUME Inductive,
         UNCHANGED <<bulk, mainVars, completed_count, completed>>,
         status' \in {"running", "stopped", "aborted"}, polling' \in BOOLEAN,
         (ring \cup ready \cup events)' = ring \cup ready \cup events,
         ring' \cap ready' = {}, ring' \cap events' = {}, ready' \cap events' = {}
  PROVE  Inductive'
<1> USE DEF Inductive, mainVars
<1>1. TypeOK'
  BY DEF TypeOK
<1>2. ExactlyOnce'
  BY DEF ExactlyOnce
<1>3. Apart'
  BY DEF Apart
<1> QED
  BY <1>1, <1>2, <1>3

LEMMA InductiveStep == Inductive /\ [Next]_vars => Inductive'
<1> SUFFICES ASSUME Inductive, [Next]_vars
             PROVE  Inductive'
  OBVIOUS
<1> USE DEF mainVars, pollVars
<1>t. TypeOK /\ Apart
  BY DEF Inductive
<1>1. CASE UNCHANGED vars
  BY <1>1, <1>t, MoveStep DEF vars, TypeOK, Apart
<1>2. CASE Abort
  BY <1>2, <1>t, MoveStep DEF Abort, TypeOK, Apart
<1>3. ASSUME NEW r \in 1 .. NumFiles, Submit(r)
      PROVE  Inductive'
  BY <1>3, SubmitStep
<1>4. CASE SubmitFails
  BY <1>1, <1>2, <1>4 DEF SubmitFails
<1>5. CASE Join
  BY <1>5, <1>t, MoveStep DEF Join, TypeOK, Apart
<1>6. ASSUME NEW f \in File, Complete(f)
      PROVE  Inductive'
  BY <1>6, <1>t, MoveStep DEF Complete, TypeOK, Apart
<1>7. CASE Reap
  BY <1>7, <1>t, MoveStep DEF Reap, Polls, TypeOK, Apart
<1>8. CASE ReapFails
  BY <1>2, <1>8 DEF ReapFails
<1>9. ASSUME NEW f \in File, Count(f)
      PROVE  Inductive'
  BY <1>2, <1>9, CountStep
<1>10. CASE PollerExit
  BY <1>10, <1>t, MoveStep DEF PollerExit, TypeOK, Apart
<1>11. CASE Ended
  BY <1>1, <1>11 DEF Ended
<1> QED
  BY <1>1, <1>3, <1>4, <1>5, <1>6, <1>7, <1>8, <1>9, <1>10, <1>11
     DEF Next, Main, Poller, Kernel

(* Every variable keeps its type and every request is in one place. *)
THEOREM InductiveCorrect == Spec => []Inductive
BY InductiveInit, InductiveStep, PTL DEF Spec

(* However io_submit cuts the groups, whatever io_getevents returns and    *)
(* whatever else happens in between, every request is accepted once and    *)
(* every completion counted once.                                          *)
THEOREM SubmittedAndCountedOnce == Spec => []ExactlyOnce
<1>1. Inductive => ExactlyOnce
  BY DEF Inductive
<1> QED
  BY InductiveCorrect, <1>1, PTL
-------------------------------------------------------------------------------
(* IoBenchmark implements Transfer. *)

Done == {f \in File : accepted[f] > 0 /\ f \notin ring}

(* "completed" is set with the last request, and the poller leaves then. *)
Ending ==
  /\ completed => completed_count = NumFiles
  /\ ~ polling => completed

LEMMA EndingStep == Inductive /\ Ending /\ [Next]_vars => Ending'
<1> SUFFICES ASSUME Inductive, Ending, [Next]_vars
             PROVE  Ending'
  OBVIOUS
<1>1. CASE UNCHANGED <<polling, completed_count, completed>>
  BY <1>1 DEF Ending
<1>2. ASSUME NEW f \in File, Count(f), ~ Abort
      PROVE  Ending'
  <2>1. completed_count' = completed_count + 1 /\ completed_count' \in 0 .. NumFiles
    BY <1>2, InductiveStep DEF Count, Inductive, TypeOK
  <2>2. ~ completed
    BY <2>1 DEF Ending
  <2>3. /\ completed' = (completed \/ completed_count + 1 = NumFiles)
        /\ UNCHANGED polling
    BY <1>2 DEF Count, LastFile
  <2>4. completed' => completed_count' = NumFiles
    BY <2>1, <2>2, <2>3, Zenon
  <2>5. ~ polling' => completed'
    BY <2>3, Zenon DEF Ending
  <2> QED
    BY <2>4, <2>5 DEF Ending
<1>3. CASE PollerExit
  BY <1>3 DEF PollerExit, Ending
<1> QED
  BY <1>1, <1>2, <1>3
  DEF Next, Main, Poller, Kernel, SubmitFails, Join, Submit, Reap, ReapFails, Count,
      Complete, Ended, Abort, vars, pollVars

(* When the poller has returned every request is reaped and counted. *)
LEMMA JoinedLast ==
  ASSUME Inductive, Ending, ~ polling
  PROVE  Done = File /\ ring = {}
<1>1. completed_count = NumFiles
  BY DEF Ending
<1>2. Pending \in SUBSET File /\ Cardinality(Pending) \in Nat /\ IsFiniteSet(Pending)
  BY SubsetSize DEF Pending, Inductive, TypeOK
<1>3. completed_count + Cardinality(Pending) = next /\ next <= NumFiles
  BY DEF Inductive, ExactlyOnce, TypeOK, Pending
<1>4. Cardinality(Pending) = 0 /\ next = NumFiles
  BY <1>1, <1>2, <1>3
<1>5. Pending = {}
  BY <1>2, <1>4, FS_EmptySet
<1>6. \A f \in File : accepted[f] = 1
  BY <1>4 DEF Inductive, ExactlyOnce
<1> QED
  BY <1>5, <1>6 DEF Pending, Done

LEMMA RefinesInit == Init => T!Init
<1> SUFFICES ASSUME Init
             PROVE  T!Init
  OBVIOUS
<1>1. ring = {} /\ Done = {} /\ Outcome = "running"
  BY DEF Init, Done, Outcome
<1>2. T!IsFiniteSet(File)
  BY FilesFinite DEF T!IsFiniteSet, IsFiniteSet
<1> QED
  BY <1>1, <1>2 DEF T!Init, Done

(* The instance brings a copy of Cardinality with it. *)
LEMMA SameCardinality == \A S : T!Cardinality(S) = Cardinality(S)
BY DEF T!Cardinality, Cardinality

(* Requests of D leave the ring, requests of S enter it. *)
LEMMA Advances ==
  ASSUME Inductive', Running, UNCHANGED status,
         NEW D \in SUBSET ring, NEW S \in SUBSET (File \ (ring \cup Done)),
         ring' = (ring \ D) \cup S, Done' = Done \cup D
  PROVE  T!Next
<1>1. Cardinality(ring') <= NumFiles
  <2>1. ring' \in SUBSET File
    BY DEF Inductive, TypeOK
  <2> QED
    BY <2>1, SubsetSize
<1>2. T!Advance(D, S)
  <2>1. Outcome = "running" /\ Outcome' = Outcome
    BY DEF Outcome, Running
  <2> QED
    BY <1>1, <2>1, SameCardinality DEF T!Advance, Done
<1>3. S \in SUBSET T!Waiting
  BY DEF T!Waiting, Done
<1> QED
  BY <1>2, <1>3 DEF T!Next

LEMMA RefinesStep == Inductive /\ Ending /\ [Next]_vars => [T!Next]_T!vars
<1> SUFFICES ASSUME Inductive, Ending, [Next]_vars
             PROVE  T!Next \/ UNCHANGED T!vars
  BY DEF T!vars
<1>i. Inductive'
  BY InductiveStep
<1> USE DEF mainVars, pollVars
<1>0. CASE UNCHANGED <<status, accepted, ring>>
  BY <1>0 DEF T!vars, Outcome
<1>a. CASE Running /\ Abort
  <2>1. T!Fail
    BY <1>a DEF Abort, Running, T!Fail, Outcome
  <2> QED
    BY <2>1 DEF T!Next
<1>1. ASSUME NEW r \in 1 .. NumFiles, Submit(r)
      PROVE  T!Next
  <2> DEFINE S == {f \in File : f \in next .. next + r - 1}
  <2>1. /\ Running /\ UNCHANGED status
        /\ ring' = ring \cup (next .. next + r - 1)
        /\ accepted' = [f \in File |-> IF f \in next .. next + r - 1
                                       THEN accepted[f] + 1 ELSE accepted[f]]
    BY <1>1 DEF Submit
  <2>2. ring' = (ring \ {}) \cup S
    <3>1. ring' \in SUBSET File
      BY <1>i DEF Inductive, TypeOK
    <3> QED
      BY <2>1, <3>1
  <2>3. \A f \in S : accepted[f] = 0 /\ f \notin ring
    BY DEF Inductive, ExactlyOnce, Apart, TypeOK
  <2>4. S \in SUBSET (File \ (ring \cup Done))
    BY <2>3 DEF Done
  <2>5. Done' = Done \cup {}
    <3>1. \A f \in File \ S : accepted'[f] = accepted[f] /\ (f \in ring' <=> f \in ring)
      BY <2>1, <2>2
    <3>2. \A f \in S : f \in ring' /\ f \notin Done
      BY <2>2, <2>4
    <3> HIDE DEF S
    <3> QED
      BY <3>1, <3>2 DEF Done
  <2> HIDE DEF S
  <2> QED
    BY <1>i, <2>1, <2>2, <2>4, <2>5, Advances
<1>2. ASSUME NEW f \in File, Complete(f)
      PROVE  T!Next
  <2>1. /\ Running /\ UNCHANGED <<status, accepted>> /\ f \in ring
        /\ ring' = ring \ {f}
    BY <1>2 DEF Complete
  <2>2. accepted[f] = 1
    BY <2>1 DEF Inductive, ExactlyOnce, Apart
  <2>3. /\ {f} \in SUBSET ring /\ {} \in SUBSET (File \ (ring \cup Done))
        /\ ring' = (ring \ {f}) \cup {} /\ Done' = Done \cup {f}
    BY <2>1, <2>2 DEF Done
  <2> QED
    BY <1>i, <2>1, <2>3, Advances
<1>3. CASE Join
  <2>1. /\ Done = File /\ ring = {} /\ Done' = Done /\ ring' = {}
        /\ Running /\ status' = "stopped"
    BY <1>3, JoinedLast DEF Join, Done
  <2>2. T!Report
    BY <2>1 DEF T!Report, T!Waiting, Outcome, Running, Done
  <2> QED
    BY <2>2 DEF T!Next
<1>4. ASSUME NEW f \in File, Count(f)
      PROVE  T!Next \/ UNCHANGED T!vars
  BY <1>0, <1>4, <1>a DEF Count
<1>5. CASE SubmitFails \/ ReapFails
  BY <1>0, <1>5, <1>a DEF SubmitFails, ReapFails, Polls, vars
<1>6. CASE Reap \/ PollerExit \/ Ended \/ UNCHANGED vars
  BY <1>0, <1>6 DEF Reap, PollerExit, Ended, vars
<1> QED
  BY <1>1, <1>2, <1>3, <1>4, <1>5, <1>6 DEF Next, Main, Poller, Kernel

(* Every run of the two threads transfers each request once and reports    *)
(* when all of them are complete.                                          *)
THEOREM ImplementsTransfer == Spec => TransferSpec
<1>1. Init => Ending
  BY DEF Init, Ending
<1>2. Spec => []Ending
  BY InductiveCorrect, <1>1, EndingStep, PTL DEF Spec
<1> QED
  BY RefinesInit, InductiveCorrect, <1>2, RefinesStep, PTL DEF Spec, TransferSpec, T!Spec
===============================================================================
