-------------------------- MODULE BdevBenchmarkProofs --------------------------
(***************************************************************************)
(* Theorems about BdevBenchmark for every --count, size of the device,     *)
(* number of lcores and option --concurrency.                              *)
(***************************************************************************)
EXTENDS BdevBenchmark, FiniteSetTheorems, TLAPS

USE ConstantsOK DEF ConstantsOK

-------------------------------------------------------------------------------
(* Cardinalities. *)
LEMMA Interval ==
  ASSUME NEW n \in Nat
  PROVE  IsFiniteSet(0 .. n - 1) /\ Cardinality(0 .. n - 1) = n
<1>1. /\ IsFiniteSet(0 .. n - 1)
      /\ Cardinality(0 .. n - 1) = IF 0 > n - 1 THEN 0 ELSE (n - 1) - 0 + 1
  <2>1. 0 \in Int /\ n - 1 \in Int
    OBVIOUS
  <2> QED
    BY <2>1, FS_Interval, Zenon
<1> QED
  BY <1>1

LEMMA NumFilesType == NumFiles \in Nat
BY DEF NumFiles, Least

LEMMA Sizes ==
  /\ IsFiniteSet(File) /\ Cardinality(File) = NumFiles
  /\ IsFiniteSet(Core) /\ Cardinality(Core) = NumCores
BY NumFilesType, Interval DEF File, Core

LEMMA Part ==
  ASSUME NEW D, IsFiniteSet(D), NEW S \in SUBSET D
  PROVE  /\ IsFiniteSet(S) /\ Cardinality(S) \in Nat
         /\ Cardinality(S) <= Cardinality(D)
         /\ Cardinality(S) = Cardinality(D) => S = D
         /\ Cardinality(S) = 0 => S = {}
<1>1. IsFiniteSet(S) /\ Cardinality(S) <= Cardinality(D)
      /\ (Cardinality(S) = Cardinality(D) => S = D)
  BY FS_Subset
<1> QED
  BY <1>1, FS_CardinalityType, FS_EmptySet

(* S and T differ in x at most. *)
LEMMA Changed ==
  ASSUME NEW D, IsFiniteSet(D), NEW S \in SUBSET D, NEW T_ \in SUBSET D,
         NEW x \in D, \A y \in D : y # x => (y \in S <=> y \in T_)
  PROVE  Cardinality(T_) = Cardinality(S) + (IF x \in T_ THEN 1 ELSE 0)
                                          - (IF x \in S THEN 1 ELSE 0)
<1>1. /\ IsFiniteSet(S) /\ Cardinality(S) \in Nat
      /\ IsFiniteSet(T_) /\ Cardinality(T_) \in Nat
  BY Part
<1>2. CASE x \in S /\ x \in T_
  <2>1. S = T_
    BY <1>2
  <2> QED
    BY <1>1, <1>2, <2>1
<1>3. CASE x \notin S /\ x \notin T_
  <2>1. S = T_
    BY <1>3
  <2> QED
    BY <1>1, <1>3, <2>1
<1>4. CASE x \in T_ /\ x \notin S
  <2>1. T_ = S \cup {x}
    BY <1>4
  <2>2. Cardinality(S \cup {x}) = Cardinality(S) + 1
    BY <1>1, <1>4, FS_AddElement
  <2> QED
    BY <1>1, <1>4, <2>1, <2>2
<1>5. CASE x \in S /\ x \notin T_
  <2>1. S = T_ \cup {x}
    BY <1>5
  <2>2. Cardinality(T_ \cup {x}) = Cardinality(T_) + 1
    BY <1>1, <1>5, FS_AddElement
  <2> QED
    BY <1>1, <1>5, <2>1, <2>2
<1> QED
  BY <1>2, <1>3, <1>4, <1>5
-------------------------------------------------------------------------------
(* The files dealt to n lcores in turn. *)
LEMMA Dealt ==
  ASSUME NEW n \in Nat \ {0}
  PROVE  /\ \A c \in 0 .. n - 1 : c % n = c
         /\ \A a \in Nat : a % n \in 0 .. n - 1 /\ (a + n) % n = a % n
         /\ \A a, b \in Nat : a % n = b % n /\ a < b => a + n <= b
<1>1. \A c \in 0 .. n - 1 : c % n = c
  OBVIOUS
<1>2. ASSUME NEW a \in Nat
      PROVE  a % n \in 0 .. n - 1 /\ (a + n) % n = a % n
  <2> DEFINE q == a \div n
             r == a % n
  <2>1. q \in Nat /\ r \in 0 .. n - 1 /\ a = n * q + r
    OBVIOUS
  <2>2. \A k \in Nat, s \in 0 .. n - 1 : (n * k + s) % n = s
    OBVIOUS
  <2> HIDE DEF q, r
  <2>3. a + n = n * (q + 1) + r /\ q + 1 \in Nat
    BY <2>1
  <2>4. (a + n) % n = r
    BY <2>1, <2>2, <2>3
  <2> QED
    BY <2>1, <2>4 DEF r
<1>3. ASSUME NEW a \in Nat, NEW b \in Nat, a % n = b % n, a < b
      PROVE  a + n <= b
  <2> DEFINE p == a \div n
             q == b \div n
             r == a % n
  <2>1. p \in Nat /\ q \in Nat /\ r \in Nat /\ a = n * p + r /\ b = n * q + r
    BY <1>3
  <2> HIDE DEF p, q, r
  <2>2. p < q
    <3>1. ASSUME q <= p
          PROVE  FALSE
      <4>1. PICK d \in Nat : p = q + d
        BY <2>1, <3>1, p - q \in Nat, p = q + (p - q)
      <4>2. n * p = n * q + n * d /\ n * d \in Nat /\ n * q \in Nat
        BY <2>1, <4>1
      <4> QED
        BY <1>3, <2>1, <4>2
    <3> QED
      BY <2>1, <3>1
  <2>3. PICK d \in Nat : q = p + 1 + d
    BY <2>1, <2>2, q - (p + 1) \in Nat, q = p + 1 + (q - (p + 1))
  <2>4. n * q = n * p + n + n * d /\ n * d \in Nat /\ n * p \in Nat
    BY <2>1, <2>3
  <2> QED
    BY <2>1, <2>4
<1> QED
  BY <1>1, <1>2, <1>3

(* What is fixed when the options are. *)
LEMMA Options ==
  ASSUME TypeOK
  PROVE  /\ Slots \in 0 .. NumFiles /\ Indices \in Nat /\ Slots <= Indices
         /\ Slots < Indices => Slots = NumFiles
         /\ Cores \in 1 .. NumCores /\ Used = 0 .. Cores - 1 /\ Used \subseteq Core
         /\ IsFiniteSet(Used)
<1>1. /\ Slots \in 0 .. NumFiles /\ Indices \in Nat /\ Slots <= Indices
      /\ Slots < Indices => Slots = NumFiles
  BY NumFilesType DEF TypeOK, Slots, Indices, Least, NumFiles
<1>2. Cores \in 1 .. NumCores /\ Used = 0 .. Cores - 1
  <2>1. CASE write
    <3>1. Used = {0}
      BY <2>1 DEF Used
    <3>2. Cardinality({0}) = 1
      BY FS_Singleton
    <3>3. {0} = 0 .. 1 - 1
      OBVIOUS
    <3> QED
      BY <3>1, <3>2, <3>3 DEF Cores
  <2>2. CASE ~ write
    BY <2>2, Sizes DEF Used, Cores, Core
  <2> QED
    BY <2>1, <2>2
<1> QED
  BY <1>1, <1>2, Interval DEF Core

LEMMA OptionsKept ==
  ASSUME UNCHANGED optionVars
  PROVE  Slots' = Slots /\ Indices' = Indices /\ Used' = Used /\ Cores' = Cores
BY DEF optionVars, Slots, Indices, Used, Cores

(* The queue. *)
LEMMA Popped_ ==
  ASSUME NEW q \in Seq(Nat), q # <<>>
  PROVE  /\ Head(q) = q[1] /\ Head(q) \in Nat /\ Tail(q) \in Seq(Nat)
         /\ Len(q) >= 1 /\ Len(Tail(q)) = Len(q) - 1
         /\ \A k \in 1 .. Len(q) - 1 : Tail(q)[k] = q[k + 1]
OBVIOUS

LEMMA Pushed ==
  ASSUME NEW q \in Seq(Nat), NEW n \in Nat
  PROVE  /\ Append(q, n) \in Seq(Nat) /\ Len(Append(q, n)) = Len(q) + 1
         /\ \A k \in 1 .. Len(q) : Append(q, n)[k] = q[k]
         /\ Append(q, n)[Len(q) + 1] = n
OBVIOUS
-------------------------------------------------------------------------------
(* How the counts change when one file, or one lcore, moves on. *)
LEMMA Counts ==
  /\ \A s : At(s) \in SUBSET File
  /\ Popping \in SUBSET Core /\ Counting \in SUBSET Core /\ Claiming \in SUBSET Core
  /\ Cleaned \in SUBSET Core /\ Unstarted \in SUBSET File
  /\ \A s : Cardinality(At(s)) \in 0 .. NumFiles
  /\ Cardinality(Unstarted) \in Nat
  /\ Cardinality(Popping) \in Nat /\ Cardinality(Counting) \in Nat
  /\ Cardinality(Claiming) \in Nat /\ Cardinality(Cleaned) \in Nat
<1>1. /\ \A s : At(s) \in SUBSET File
      /\ Popping \in SUBSET Core /\ Counting \in SUBSET Core /\ Claiming \in SUBSET Core
      /\ Cleaned \in SUBSET Core /\ Unstarted \in SUBSET File
  BY DEF At, Popping, Counting, Claiming, Cleaned, Unstarted
<1>2. /\ \A S \in SUBSET File : Cardinality(S) \in 0 .. NumFiles
      /\ \A S \in SUBSET Core : Cardinality(S) \in Nat
  BY Sizes, Part, NumFilesType
<1> QED
  BY <1>1, <1>2

LEMMA FileMoves ==
  ASSUME UNCHANGED optionVars, NEW f \in File, \A g \in File : g # f => stage'[g] = stage[g]
  PROVE  /\ \A s : Cardinality(At(s)') = Cardinality(At(s)) + (IF stage'[f] = s THEN 1 ELSE 0)
                                            - (IF stage[f] = s THEN 1 ELSE 0)
         /\ stage'[f] # "idle" => Cardinality(Unstarted') =
              Cardinality(Unstarted) - (IF f < Slots /\ stage[f] = "idle" THEN 1 ELSE 0)
<1>1. ASSUME NEW s
      PROVE  Cardinality(At(s)') = Cardinality(At(s)) + (IF stage'[f] = s THEN 1 ELSE 0)
                                     - (IF stage[f] = s THEN 1 ELSE 0)
  <2>1. /\ At(s) \in SUBSET File /\ At(s)' \in SUBSET File
        /\ \A y \in File : y # f => (y \in At(s) <=> y \in At(s)')
        /\ f \in At(s) <=> stage[f] = s
        /\ f \in At(s)' <=> stage'[f] = s
    BY DEF At
  <2>2. Cardinality(At(s)') = Cardinality(At(s)) + (IF f \in At(s)' THEN 1 ELSE 0)
                                - (IF f \in At(s) THEN 1 ELSE 0)
    BY <2>1, Changed, Sizes
  <2> QED
    BY <2>1, <2>2
<1>2. ASSUME stage'[f] # "idle"
      PROVE  Cardinality(Unstarted') =
              Cardinality(Unstarted) - (IF f < Slots /\ stage[f] = "idle" THEN 1 ELSE 0)
  <2>1. /\ Unstarted \in SUBSET File /\ Unstarted' \in SUBSET File
        /\ \A y \in File : y # f => (y \in Unstarted <=> y \in Unstarted')
        /\ f \in Unstarted <=> f < Slots /\ stage[f] = "idle"
        /\ f \notin Unstarted'
    BY <1>2, OptionsKept DEF Unstarted
  <2>2. Cardinality(Unstarted') = Cardinality(Unstarted)
          + (IF f \in Unstarted' THEN 1 ELSE 0) - (IF f \in Unstarted THEN 1 ELSE 0)
    BY <2>1, Changed, Sizes
  <2>3. Cardinality(Unstarted) \in Nat
    BY Counts
  <2> QED
    BY <2>1, <2>2, <2>3
<1> QED
  BY <1>1, <1>2

LEMMA FilesStay ==
  ASSUME UNCHANGED <<optionVars, stage>>
  PROVE  Unstarted' = Unstarted /\ \A s : At(s)' = At(s)
<1>1. \A s : At(s)' = At(s)
  BY DEF At
<1> QED
  BY <1>1, OptionsKept DEF Unstarted

LEMMA CoreMoves ==
  ASSUME NEW c \in Core, \A d \in Core : d # c => at'[d] = at[d]
  PROVE  /\ Cardinality(Popping') = Cardinality(Popping)
              + (IF at'[c] \in {"first", "next"} THEN 1 ELSE 0)
              - (IF at[c] \in {"first", "next"} THEN 1 ELSE 0)
         /\ Cardinality(Counting') = Cardinality(Counting)
              + (IF at'[c] = "count" THEN 1 ELSE 0) - (IF at[c] = "count" THEN 1 ELSE 0)
         /\ Cardinality(Claiming') = Cardinality(Claiming)
              + (IF at'[c] = "claim" THEN 1 ELSE 0) - (IF at[c] = "claim" THEN 1 ELSE 0)
<1>1. /\ Popping \in SUBSET Core /\ Popping' \in SUBSET Core
      /\ Counting \in SUBSET Core /\ Counting' \in SUBSET Core
      /\ Claiming \in SUBSET Core /\ Claiming' \in SUBSET Core
  BY DEF Popping, Counting, Claiming
<1>2. ASSUME NEW d \in Core, d # c
      PROVE  /\ d \in Popping <=> d \in Popping'
             /\ d \in Counting <=> d \in Counting'
             /\ d \in Claiming <=> d \in Claiming'
  BY <1>2 DEF Popping, Counting, Claiming
<1>3. /\ c \in Popping <=> at[c] \in {"first", "next"}
      /\ c \in Popping' <=> at'[c] \in {"first", "next"}
      /\ c \in Counting <=> at[c] = "count"
      /\ c \in Counting' <=> at'[c] = "count"
      /\ c \in Claiming <=> at[c] = "claim"
      /\ c \in Claiming' <=> at'[c] = "claim"
  BY DEF Popping, Counting, Claiming
<1>4. Cardinality(Popping') = Cardinality(Popping)
        + (IF c \in Popping' THEN 1 ELSE 0) - (IF c \in Popping THEN 1 ELSE 0)
  BY <1>1, <1>2, Changed, Sizes
<1>5. Cardinality(Counting') = Cardinality(Counting)
        + (IF c \in Counting' THEN 1 ELSE 0) - (IF c \in Counting THEN 1 ELSE 0)
  BY <1>1, <1>2, Changed, Sizes
<1>6. Cardinality(Claiming') = Cardinality(Claiming)
        + (IF c \in Claiming' THEN 1 ELSE 0) - (IF c \in Claiming THEN 1 ELSE 0)
  BY <1>1, <1>2, Changed, Sizes
<1> QED
  BY <1>3, <1>4, <1>5, <1>6

LEMMA CoresStay ==
  ASSUME UNCHANGED at
  PROVE  Popping' = Popping /\ Counting' = Counting /\ Claiming' = Claiming
BY DEF Popping, Counting, Claiming
-------------------------------------------------------------------------------
(* When the end has begun every file is transferred and counted. *)
LEMMA OverDone ==
  ASSUME Inductive, Over
  PROVE  At("done") = File /\ Counting = {}
<1>1. Cardinality(At("done")) = NumFiles + Cardinality(Counting)
  <2>1. Cardinality(At("done")) \in 0 .. NumFiles /\ Cardinality(Counting) \in Nat
    BY Counts
  <2> QED
    BY <2>1 DEF Inductive, EndInv, CountInv
<1>2. /\ Cardinality(At("done")) \in 0 .. NumFiles /\ Cardinality(Counting) \in Nat
      /\ At("done") \in SUBSET File /\ Counting \in SUBSET Core
  BY Counts
<1>3. Cardinality(At("done")) = NumFiles /\ Cardinality(Counting) = 0
  BY <1>1, <1>2, NumFilesType
<1> QED
  BY <1>2, <1>3, Sizes, Part

(* A completion that has not counted itself leaves something to count. *)
LEMMA SomethingLeft ==
  ASSUME Inductive, NEW c \in Core, at[c] = "count"
  PROVE  /\ ~ Over /\ desc # "none" /\ global_left_count >= 1
<1>1. ~ Over
  BY OverDone DEF Counting
<1>2. desc # "none"
  BY DEF Inductive, RunInv
<1>3. /\ Counting # {} /\ Counting \in SUBSET Core /\ Cardinality(Counting) \in Nat
      /\ Cardinality(At("done")) \in 0 .. NumFiles
  BY Counts DEF Counting
<1>4. Cardinality(Counting) >= 1
  BY <1>3, Sizes, Part
<1>5. global_left_count \in Nat
  BY DEF Inductive, BufferInBounds, TypeOK
<1>6. global_left_count + Cardinality(At("done")) = NumFiles + Cardinality(Counting)
  BY <1>2 DEF Inductive, CountInv
<1> QED
  BY <1>1, <1>2, <1>3, <1>4, <1>5, <1>6, NumFilesType

(* An lcore about to pop has a claimed file. *)
LEMMA PoppingHasFile ==
  ASSUME Inductive, NEW c \in Core, at[c] \in {"first", "next"}
  PROVE  cur[c] \in File /\ stage[cur[c]] = "claimed"
BY DEF Inductive, PopInv, Popping, At

LEMMA Put ==
  ASSUME NEW S, NEW R, NEW m \in [S -> R], NEW x, NEW y \in R
  PROVE  [m EXCEPT ![x] = y] \in [S -> R]
OBVIOUS

LEMMA TypeStep == Inductive /\ [Next]_vars => TypeOK'
<1> SUFFICES ASSUME Inductive, [Next]_vars
             PROVE  TypeOK'
  OBVIOUS
<1> USE DEF optionVars, endVars, fileVars
<1>t. TypeOK
  BY DEF Inductive, BufferInBounds
<1>o. UNCHANGED optionVars => Indices' = Indices
  BY OptionsKept
<1>0. CASE UNCHANGED vars
  BY <1>0, <1>o, <1>t DEF TypeOK, vars
<1>a. CASE Abort
  BY <1>a, <1>o, <1>t DEF TypeOK, Abort
<1>1. CASE Run
  <2>1. [f \in File |-> f % Cores] \in [File -> Core]
    <3>1. ASSUME NEW f \in File
          PROVE  f % Cores \in Core
      <4>1. f \in Nat /\ Cores \in 1 .. NumCores
        BY <1>t, Options DEF File
      <4>2. f % Cores \in 0 .. Cores - 1
        BY <4>1, Dealt
      <4> QED
        BY <4>1, <4>2 DEF Core
    <3> QED
      BY <3>1
  <2>2. Slots \in Nat
    BY <1>t, Options, NumFilesType
  <2> QED
    BY <1>1, <1>a, <1>o, <1>t, <2>1, <2>2, NumFilesType DEF TypeOK, Run
<1>2. ASSUME NEW c \in Core, Start(c)
      PROVE  TypeOK'
  <2>1. c \in Nat
    BY DEF Core
  <2> QED
    <3>1. ASSUME ~ Abort
          PROVE  TypeOK'
      <4>1. /\ starter' = [starter EXCEPT ![c] = "done"]
            /\ at' = [at EXCEPT ![c] = "loop"]
            /\ cur' = [cur EXCEPT ![c] = c]
        BY <1>2, <3>1 DEF Start
      <4>2. /\ starter' \in [Core -> {"none", "posted", "done"}]
            /\ at' \in [Core -> Place] /\ cur' \in [Core -> Nat]
        BY <1>t, <2>1, <4>1 DEF TypeOK, Place
      <4> QED
        BY <1>2, <1>o, <1>t, <3>1, <4>2 DEF TypeOK, Start
    <3> QED
      BY <1>a, <3>1
<1>3. ASSUME NEW c \in Core, Loop(c)
      PROVE  TypeOK'
  <2>0. /\ at \in [Core -> Place] /\ lcore \in [File -> Core]
        /\ stage \in [File -> {"idle", "claimed", "submitted", "done"}]
    BY <1>t DEF TypeOK
  <2>1. /\ at' = [at EXCEPT ![c] = "first"] \/ at' = [at EXCEPT ![c] = "idle"]
        /\ stage' = [stage EXCEPT ![cur[c]] = "claimed"] \/ stage' = stage
        /\ lcore' = [lcore EXCEPT ![cur[c]] = c] \/ lcore' = lcore
    BY <1>3 DEF Loop
  <2>2. /\ at' \in [Core -> Place]
        /\ stage' \in [File -> {"idle", "claimed", "submitted", "done"}]
        /\ lcore' \in [File -> Core]
    BY <2>0, <2>1, Put DEF Place
  <2> QED
    BY <1>3, <1>o, <1>t, <2>2 DEF TypeOK, Loop
<1>4. ASSUME NEW c \in Core, Submit(c)
      PROVE  TypeOK'
  <2>1. CASE ~ write /\ buffer_index # <<>> /\ ~ UNCHANGED vars /\ ~ Abort
    <3>1. /\ Head(buffer_index) \in Nat /\ Tail(buffer_index) \in Seq(Nat)
          /\ Len(Tail(buffer_index)) = Len(buffer_index) - 1
          /\ Len(buffer_index) \in Nat
      BY <1>t, <2>1, Popped_ DEF TypeOK
    <3>2. buf' = [buf EXCEPT ![cur[c]] = Head(buffer_index)]
          /\ buffer_index' = Tail(buffer_index)
      BY <1>4, <2>1 DEF Submit, Pop
    <3>3. /\ buf' \in [File -> Nat] /\ buffer_index' \in Seq(Nat)
          /\ Len(buffer_index') <= Len(buffer_index)
      <4>1. buf \in [File -> Nat]
        BY <1>t DEF TypeOK
      <4>2. [buf EXCEPT ![cur[c]] = Head(buffer_index)] \in [File -> Nat]
        BY <3>1, <4>1, Put
      <4> QED
        BY <3>1, <3>2, <4>2
    <3>4. cur[c] + Cores \in Nat
      BY <1>t, Options DEF TypeOK
    <3>5. UNCHANGED optionVars /\ Indices \in Nat
      BY <1>4, <1>t, <2>1, Options DEF Submit
    <3>6. /\ stage' = [stage EXCEPT ![cur[c]] = "submitted"]
          /\ at' \in [Core -> Place] /\ cur' \in [Core -> Nat]
      BY <1>4, <1>t, <2>1, <3>4 DEF Submit, TypeOK, Place
    <3>7. Len(buffer_index') <= Indices'
      BY <1>o, <1>t, <3>1, <3>2, <3>5 DEF TypeOK
    <3> QED
      BY <1>4, <1>t, <2>1, <3>3, <3>5, <3>6, <3>7 DEF Submit, TypeOK
  <2>2. CASE write /\ ~ UNCHANGED vars /\ ~ Abort
    <3>4. cur[c] + Cores \in Nat
      BY <1>t, Options DEF TypeOK
    <3>6. /\ stage' = [stage EXCEPT ![cur[c]] = "submitted"]
          /\ at' \in [Core -> Place] /\ cur' \in [Core -> Nat]
      BY <1>4, <1>t, <2>2, <3>4 DEF Submit, TypeOK, Place
    <3> QED
      BY <1>4, <1>o, <1>t, <2>2, <3>6 DEF Submit, TypeOK
  <2> QED
    BY <1>0, <1>4, <1>a, <2>1, <2>2 DEF Submit
<1>5. ASSUME NEW f \in File, Complete(f)
      PROVE  TypeOK'
  <2>1. UNCHANGED optionVars /\ Indices \in Nat /\ f \in Nat
    BY <1>5, <1>t, Options DEF Complete, File
  <2>2. buffer_index' \in Seq(Nat) /\ Len(buffer_index') <= Indices'
    <3>1. CASE write
      BY <1>5, <1>o, <1>t, <2>1, <3>1 DEF Complete, TypeOK
    <3>2. CASE ~ write
      <4>1. buf[f] \in Nat /\ status = "running" /\ f \in At("submitted")
            /\ buffer_index' = Append(buffer_index, buf[f])
        BY <1>5, <1>t, <3>2 DEF Complete, TypeOK, Idle, At, Push
      <4>2. /\ Append(buffer_index, buf[f]) \in Seq(Nat)
            /\ Len(Append(buffer_index, buf[f])) = Len(buffer_index) + 1
            /\ Len(buffer_index) \in Nat
        BY <1>t, <4>1, Pushed DEF TypeOK
      <4>3. Cardinality(At("submitted")) >= 1
        <5>1. /\ At("submitted") \in SUBSET File
              /\ Cardinality(At("submitted")) \in 0 .. NumFiles
          BY Counts
        <5> QED
          BY <4>1, <5>1, Part, Sizes
      <4>4. Len(buffer_index) + Cardinality(At("submitted")) = Indices
        BY <3>2, <4>1 DEF Inductive, QueueInv
      <4>5. Cardinality(At("submitted")) \in Nat
        BY Counts
      <4> QED
        BY <1>o, <2>1, <4>1, <4>2, <4>3, <4>4, <4>5
    <3> QED
      BY <3>1, <3>2
  <2> QED
    <3>1. /\ at' \in [Core -> Place] /\ cur' \in [Core -> Nat]
          /\ stage' \in [File -> {"idle", "claimed", "submitted", "done"}]
          /\ status' \in {"running", "stopped", "aborted"}
      <4>1. /\ at \in [Core -> Place] /\ cur \in [Core -> Nat]
            /\ stage \in [File -> {"idle", "claimed", "submitted", "done"}]
        BY <1>t DEF TypeOK
      <4>2. /\ at' = [at EXCEPT ![lcore[f]] = "count"] \/ at' = at
            /\ cur' = [cur EXCEPT ![lcore[f]] = f] \/ cur' = cur
            /\ stage' = [stage EXCEPT ![f] = "done"] \/ stage' = stage
            /\ status' \in {"running", "stopped", "aborted"}
        BY <1>5 DEF Complete, Idle
      <4> QED
        BY <2>1, <4>1, <4>2, Put DEF Place
    <3> QED
      BY <1>5, <1>t, <2>1, <2>2, <3>1 DEF Complete, TypeOK
<1>6. ASSUME NEW c \in Core, CountDown(c)
      PROVE  TypeOK'
  <2>1. global_left_count' \in Nat
    BY <1>6, <1>t, SomethingLeft DEF CountDown, TypeOK
  <2>2. /\ at' \in [Core -> Place]
        /\ cleaner' \in [Core -> {"none", "posted", "done"}]
        /\ status' \in {"running", "stopped", "aborted"}
        /\ flusher' \in Core \cup {NoCore}
    BY <1>6, <1>t DEF CountDown, TypeOK, Close, Place
  <2> QED
    BY <1>6, <1>o, <1>t, <2>1, <2>2 DEF CountDown, TypeOK
<1>7. ASSUME NEW c \in Core, Claim(c)
      PROVE  TypeOK'
  <2>0. /\ at \in [Core -> Place] /\ lcore \in [File -> Core]
        /\ cur \in [Core -> Nat] /\ head \in Nat
        /\ stage \in [File -> {"idle", "claimed", "submitted", "done"}]
    BY <1>t DEF TypeOK
  <2>2. /\ at' = [at EXCEPT ![c] = "next"] \/ at' = [at EXCEPT ![c] = "idle"]
        /\ cur' = [cur EXCEPT ![c] = head] \/ cur' = cur
        /\ stage' = [stage EXCEPT ![head] = "claimed"] \/ stage' = stage
        /\ lcore' = [lcore EXCEPT ![head] = c] \/ lcore' = lcore
        /\ head' = head + 1
    BY <1>7 DEF Claim, Claimed
  <2>1. /\ at' \in [Core -> Place] /\ cur' \in [Core -> Nat] /\ head' \in Nat
        /\ stage' \in [File -> {"idle", "claimed", "submitted", "done"}]
        /\ lcore' \in [File -> Core]
    <3>1. at' \in [Core -> Place]
      BY <2>0, <2>2, Put DEF Place
    <3>2. head' \in Nat /\ cur' \in [Core -> Nat]
      BY <2>0, <2>2, Put
    <3>3. stage' \in [File -> {"idle", "claimed", "submitted", "done"}]
      BY <2>0, <2>2, Put
    <3>4. lcore' \in [File -> Core]
      BY <2>0, <2>2, Put
    <3> QED
      BY <3>1, <3>2, <3>3, <3>4
  <2> QED
    <3>1. UNCHANGED <<status, optionVars, endVars, buf, starter, buffer_index,
                      global_left_count>>
      BY <1>7, Zenon DEF Claim
    <3> QED
      BY <1>o, <1>t, <2>1, <3>1 DEF TypeOK
<1>8. ASSUME NEW c \in Core, Flushed(c)
      PROVE  TypeOK'
  BY <1>8, <1>a, <1>o, <1>t DEF Flushed, Close, TypeOK
<1>9. ASSUME NEW c \in Core, Clean(c)
      PROVE  TypeOK'
  BY <1>9, <1>o, <1>t DEF Clean, TypeOK
<1> QED
  BY <1>0, <1>1, <1>2, <1>3, <1>4, <1>5, <1>6, <1>7, <1>8, <1>9 DEF Next, Ended
-------------------------------------------------------------------------------
(* What the four steps that move a file do, lcore by lcore, file by file. *)
LEMMA Loops ==
  ASSUME Inductive, NEW c \in Core, Loop(c), cur[c] < Slots
  PROVE  /\ UNCHANGED <<status, optionVars, endVars, buf, starter, cur, buffer_index,
                        global_left_count, head>>
         /\ status = "running" /\ at[c] = "loop" /\ starter[c] = "done" /\ desc # "none"
         /\ at' = [at EXCEPT ![c] = "first"]
         /\ \A d \in Core : at'[d] = IF d = c THEN "first" ELSE at[d]
         /\ cur[c] \in File /\ cur[c] < head /\ stage[cur[c]] = "idle"
         /\ stage' = [stage EXCEPT ![cur[c]] = "claimed"]
         /\ \A f \in File : /\ stage'[f] = IF f = cur[c] THEN "claimed" ELSE stage[f]
                            /\ lcore'[f] = IF f = cur[c] THEN c ELSE lcore[f]
<1>t. TypeOK /\ RunInv /\ LoopInv
  BY DEF Inductive, BufferInBounds
<1> USE DEF optionVars, endVars
<1>1. cur[c] \in Nat /\ Slots \in 0 .. NumFiles /\ NumFiles \in Nat /\ head \in Nat
  BY <1>t, Options, NumFilesType DEF TypeOK
<1>2. /\ UNCHANGED <<status, optionVars, endVars, buf, starter, cur, buffer_index,
                     global_left_count, head>>
      /\ status = "running" /\ at[c] = "loop"
      /\ at' = [at EXCEPT ![c] = "first"]
      /\ stage' = [stage EXCEPT ![cur[c]] = "claimed"]
      /\ lcore' = [lcore EXCEPT ![cur[c]] = c]
  BY <1>1 DEF Loop
<1>3. starter[c] = "done" /\ desc # "none"
  BY <1>2, <1>t DEF RunInv
<1>4. cur[c] \in File /\ cur[c] < head
  BY <1>1, <1>3, <1>t DEF RunInv, File
<1>5. stage[cur[c]] = "idle"
  BY <1>1, <1>2, <1>4, <1>t DEF LoopInv
<1>6. /\ \A d \in Core : at'[d] = IF d = c THEN "first" ELSE at[d]
      /\ \A f \in File : stage'[f] = IF f = cur[c] THEN "claimed" ELSE stage[f]
      /\ \A f \in File : lcore'[f] = IF f = cur[c] THEN c ELSE lcore[f]
  BY <1>2, <1>t DEF TypeOK
<1> QED
  BY <1>2, <1>3, <1>4, <1>5, <1>6

LEMMA Submits ==
  ASSUME Inductive, NEW c \in Core, Submit(c), ~ Abort, ~ UNCHANGED vars
  PROVE  /\ UNCHANGED <<status, optionVars, endVars, lcore, starter, global_left_count, head>>
         /\ status = "running" /\ at[c] \in {"first", "next"}
         /\ at' = [at EXCEPT ![c] = IF at[c] = "first" THEN "loop" ELSE "idle"]
         /\ \A d \in Core : /\ at'[d] = IF d # c THEN at[d]
                                        ELSE IF at[c] = "first" THEN "loop" ELSE "idle"
                            /\ cur'[d] = IF d = c /\ at[c] = "first" THEN cur[c] + Cores
                                         ELSE cur[d]
         /\ cur[c] \in File /\ stage[cur[c]] = "claimed"
         /\ stage' = [stage EXCEPT ![cur[c]] = "submitted"]
         /\ \A f \in File : stage'[f] = IF f = cur[c] THEN "submitted" ELSE stage[f]
<1>t. TypeOK
  BY DEF Inductive, BufferInBounds
<1> USE DEF optionVars, endVars
<1>1. /\ UNCHANGED <<status, optionVars, endVars, lcore, starter, global_left_count, head>>
      /\ status = "running" /\ at[c] \in {"first", "next"}
      /\ at' = [at EXCEPT ![c] = IF at[c] = "first" THEN "loop" ELSE "idle"]
      /\ cur' = IF at[c] = "first" THEN [cur EXCEPT ![c] = @ + Cores] ELSE cur
      /\ stage' = [stage EXCEPT ![cur[c]] = "submitted"]
  BY DEF Submit
<1>2. cur[c] \in File /\ stage[cur[c]] = "claimed"
  BY <1>1, PoppingHasFile
<1>3. /\ \A d \in Core : at'[d] = IF d # c THEN at[d]
                                  ELSE IF at[c] = "first" THEN "loop" ELSE "idle"
      /\ \A d \in Core : cur'[d] = IF d = c /\ at[c] = "first" THEN cur[c] + Cores
                                   ELSE cur[d]
      /\ \A f \in File : stage'[f] = IF f = cur[c] THEN "submitted" ELSE stage[f]
  BY <1>1, <1>t DEF TypeOK
<1> QED
  BY <1>1, <1>2, <1>3

LEMMA Completes ==
  ASSUME Inductive, NEW f \in File, Complete(f), ~ UNCHANGED <<stage, at, cur>>
  PROVE  /\ UNCHANGED <<status, optionVars, endVars, lcore, buf, starter, global_left_count,
                        head>>
         /\ status = "running" /\ lcore[f] \in Core /\ at[lcore[f]] = "idle"
         /\ starter[lcore[f]] = "done" /\ desc # "none"
         /\ at' = [at EXCEPT ![lcore[f]] = "count"]
         /\ \A d \in Core : /\ at'[d] = IF d = lcore[f] THEN "count" ELSE at[d]
                            /\ cur'[d] = IF d = lcore[f] THEN f ELSE cur[d]
         /\ stage[f] = "submitted"
         /\ stage' = [stage EXCEPT ![f] = "done"]
         /\ \A g \in File : stage'[g] = IF g = f THEN "done" ELSE stage[g]
<1>t. TypeOK /\ RunInv
  BY DEF Inductive, BufferInBounds
<1> USE DEF optionVars, endVars
<1>1. /\ UNCHANGED <<status, optionVars, endVars, lcore, buf, starter, global_left_count,
                     head>>
      /\ status = "running" /\ at[lcore[f]] = "idle" /\ stage[f] = "submitted"
      /\ at' = [at EXCEPT ![lcore[f]] = "count"]
      /\ cur' = [cur EXCEPT ![lcore[f]] = f]
      /\ stage' = [stage EXCEPT ![f] = "done"]
  BY DEF Complete, Idle
<1>2. starter[lcore[f]] = "done" /\ lcore[f] \in Core /\ desc # "none"
  BY <1>1, <1>t DEF RunInv, At, TypeOK
<1>3. /\ \A d \in Core : at'[d] = IF d = lcore[f] THEN "count" ELSE at[d]
      /\ \A d \in Core : cur'[d] = IF d = lcore[f] THEN f ELSE cur[d]
      /\ \A g \in File : stage'[g] = IF g = f THEN "done" ELSE stage[g]
  BY <1>1, <1>t DEF TypeOK
<1> QED
  BY <1>1, <1>2, <1>3

LEMMA Claims ==
  ASSUME Inductive, NEW c \in Core, Claim(c)
  PROVE  /\ UNCHANGED <<status, optionVars, endVars, buf, starter, buffer_index,
                        global_left_count>>
         /\ status = "running" /\ at[c] = "claim" /\ starter[c] = "done" /\ desc # "none"
         /\ head \in Nat /\ head' = head + 1 /\ Slots \in Nat /\ head >= Slots
         /\ head \in File =>
              /\ at' = [at EXCEPT ![c] = "next"]
              /\ \A d \in Core : /\ at'[d] = IF d = c THEN "next" ELSE at[d]
                                 /\ cur'[d] = IF d = c THEN head ELSE cur[d]
              /\ stage[head] = "idle"
              /\ stage' = [stage EXCEPT ![head] = "claimed"]
              /\ \A f \in File : /\ stage'[f] = IF f = head THEN "claimed" ELSE stage[f]
                                 /\ lcore'[f] = IF f = head THEN c ELSE lcore[f]
         /\ head \notin File =>
              /\ at' = [at EXCEPT ![c] = "idle"]
              /\ \A d \in Core : at'[d] = IF d = c THEN "idle" ELSE at[d]
              /\ UNCHANGED <<cur, stage, lcore>>
<1>t. TypeOK /\ RunInv
  BY DEF Inductive, BufferInBounds
<1> USE DEF optionVars, endVars
<1>1. /\ UNCHANGED <<status, optionVars, endVars, buf, starter, buffer_index,
                     global_left_count>>
      /\ status = "running" /\ at[c] = "claim" /\ head' = head + 1
  BY DEF Claim
<1>2. starter[c] = "done" /\ desc # "none"
  BY <1>1, <1>t DEF RunInv
<1>3. head \in Nat /\ Slots \in Nat /\ head >= Slots
  BY <1>2, <1>t, Options, NumFilesType DEF RunInv, TypeOK
<1>4. ASSUME head \in File
      PROVE  /\ at' = [at EXCEPT ![c] = "next"]
             /\ \A d \in Core : /\ at'[d] = IF d = c THEN "next" ELSE at[d]
                                /\ cur'[d] = IF d = c THEN head ELSE cur[d]
             /\ stage[head] = "idle"
             /\ stage' = [stage EXCEPT ![head] = "claimed"]
             /\ \A f \in File : /\ stage'[f] = IF f = head THEN "claimed" ELSE stage[f]
                                /\ lcore'[f] = IF f = head THEN c ELSE lcore[f]
  <2>1. /\ at' = [at EXCEPT ![c] = "next"]
        /\ cur' = [cur EXCEPT ![c] = head]
        /\ stage' = [stage EXCEPT ![head] = "claimed"]
        /\ lcore' = [lcore EXCEPT ![head] = c]
    BY <1>4 DEF Claim, Claimed
  <2>2. stage[head] = "idle"
    BY <1>2, <1>3, <1>4, <1>t DEF RunInv
  <2>3. /\ \A d \in Core : at'[d] = IF d = c THEN "next" ELSE at[d]
        /\ \A d \in Core : cur'[d] = IF d = c THEN head ELSE cur[d]
        /\ \A f \in File : stage'[f] = IF f = head THEN "claimed" ELSE stage[f]
        /\ \A f \in File : lcore'[f] = IF f = head THEN c ELSE lcore[f]
    BY <1>t, <2>1 DEF TypeOK
  <2> QED
    BY <2>1, <2>2, <2>3
<1>5. ASSUME head \notin File
      PROVE  /\ at' = [at EXCEPT ![c] = "idle"]
             /\ \A d \in Core : at'[d] = IF d = c THEN "idle" ELSE at[d]
             /\ UNCHANGED <<cur, stage, lcore>>
  <2>1. at' = [at EXCEPT ![c] = "idle"] /\ UNCHANGED <<cur, stage, lcore>>
    BY <1>5 DEF Claim, Claimed
  <2> QED
    BY <1>t, <2>1 DEF TypeOK
<1> QED
  BY <1>1, <1>2, <1>3, <1>4, <1>5

LEMMA CountsDown ==
  ASSUME Inductive, NEW c \in Core, CountDown(c)
  PROVE  /\ UNCHANGED <<optionVars, desc, clean_count, flushed, fileVars, starter, cur,
                        buffer_index, head>>
         /\ status = "running" /\ at[c] = "count"
         /\ global_left_count' = global_left_count - 1
         /\ \E p \in {"claim", "idle"} :
              /\ at' = [at EXCEPT ![c] = p]
              /\ \A d \in Core : at'[d] = IF d = c THEN p ELSE at[d]
<1>t. TypeOK
  BY DEF Inductive, BufferInBounds
<1>1. at' = [at EXCEPT ![c] = "claim"] \/ at' = [at EXCEPT ![c] = "idle"]
  BY DEF CountDown
<1>2. PICK p \in {"claim", "idle"} : at' = [at EXCEPT ![c] = p]
  BY <1>1
<1>3. \A d \in Core : at'[d] = IF d = c THEN p ELSE at[d]
  BY <1>2, <1>t DEF TypeOK
<1> QED
  BY <1>2, <1>3 DEF CountDown
-------------------------------------------------------------------------------
LEMMA RunStep == Inductive /\ [Next]_vars => RunInv'
<1> SUFFICES ASSUME Inductive, [Next]_vars
             PROVE  RunInv'
  OBVIOUS
<1> USE DEF optionVars, endVars, fileVars
<1>t. TypeOK /\ RunInv
  BY DEF Inductive, BufferInBounds
<1>o. UNCHANGED optionVars => Used' = Used /\ Slots' = Slots
  BY OptionsKept
<1>0. CASE UNCHANGED <<optionVars, desc, head, starter, at, stage, lcore>>
  BY <1>0, <1>o, <1>t DEF RunInv, At
<1>1. CASE Run
  <2>1. ASSUME ~ Abort
        PROVE  RunInv'
    <3>1. /\ desc' = "open" /\ head' = Slots /\ UNCHANGED <<optionVars, stage, at>>
          /\ starter' = [c \in Core |-> IF c \in Used THEN "posted" ELSE "none"]
          /\ \A c \in Core : starter[c] = "none"
          /\ \A f \in File : stage[f] = "idle"
      BY <1>1, <1>t, <2>1 DEF Run, RunInv
    <3>2. \A c \in Core : at[c] = "idle"
      BY <1>t, <3>1 DEF RunInv
    <3>3. \A f \in File : stage'[f] = "idle"
      BY <3>1
    <3>4. Slots \in Nat
      BY <1>t, Options, NumFilesType
    <3> QED
      BY <1>o, <3>1, <3>2, <3>3, <3>4 DEF RunInv, At
  <2> QED
    BY <1>0, <1>1, <2>1 DEF Run, Abort
<1>2. ASSUME NEW c \in Core, Start(c)
      PROVE  RunInv'
  <2>1. ASSUME ~ Abort
        PROVE  RunInv'
    <3>1. /\ UNCHANGED <<optionVars, desc, head, stage, lcore>>
          /\ starter[c] = "posted"
          /\ starter' = [starter EXCEPT ![c] = "done"]
          /\ at' = [at EXCEPT ![c] = "loop"]
      BY <1>2, <2>1 DEF Start
    <3>2. /\ \A d \in Core : starter'[d] = IF d = c THEN "done" ELSE starter[d]
          /\ \A d \in Core : d # c => at'[d] = at[d]
      BY <1>t, <3>1 DEF TypeOK
    <3>3. \A f \in File : lcore[f] \in Core
      BY <1>t DEF TypeOK
    <3> QED
      BY <1>o, <1>t, <3>1, <3>2, <3>3 DEF RunInv, At
  <2> QED
    BY <1>0, <1>2, <2>1 DEF Start, Abort
<1>3. ASSUME NEW c \in Core, Loop(c)
      PROVE  RunInv'
  <2>1. CASE cur[c] < Slots
    <3>1. PICK g \in File :
            /\ UNCHANGED <<optionVars, desc, head, starter>>
            /\ starter[c] = "done" /\ desc # "none" /\ g < head
            /\ \A d \in Core : at'[d] = IF d = c THEN "first" ELSE at[d]
            /\ \A f \in File : /\ stage'[f] = IF f = g THEN "claimed" ELSE stage[f]
                               /\ lcore'[f] = IF f = g THEN c ELSE lcore[f]
      BY <1>3, <2>1, Loops
    <3>2. g \in Nat /\ head \in Nat
      BY <1>t DEF TypeOK, File
    <3> QED
      BY <1>o, <1>t, <3>1, <3>2 DEF RunInv, At
  <2>2. CASE ~ cur[c] < Slots
    <3>1. /\ UNCHANGED <<optionVars, desc, head, starter, stage, lcore>>
          /\ at' = [at EXCEPT ![c] = "idle"]
      BY <1>3, <2>2 DEF Loop
    <3> QED
      BY <1>o, <1>t, <3>1 DEF RunInv, At, TypeOK
  <2> QED
    BY <2>1, <2>2
<1>4. ASSUME NEW c \in Core, Submit(c)
      PROVE  RunInv'
  <2>1. ASSUME ~ Abort, ~ UNCHANGED vars
        PROVE  RunInv'
    BY <1>4, <1>o, <1>t, <2>1, Submits DEF RunInv, At
  <2> QED
    BY <1>0, <1>4, <2>1 DEF Submit, Abort, vars
<1>5. ASSUME NEW f \in File, Complete(f)
      PROVE  RunInv'
  <2>1. CASE UNCHANGED <<stage, at, cur>>
    BY <1>0, <1>5, <2>1 DEF Complete
  <2>2. CASE ~ UNCHANGED <<stage, at, cur>>
    BY <1>5, <1>o, <1>t, <2>2, Completes DEF RunInv, At
  <2> QED
    BY <2>1, <2>2
<1>6. ASSUME NEW c \in Core, CountDown(c)
      PROVE  RunInv'
  BY <1>6, <1>o, <1>t, CountsDown DEF RunInv, At
<1>7. ASSUME NEW c \in Core, Claim(c)
      PROVE  RunInv'
  <2>1. \A f \in File : f \in Nat
    BY DEF File
  <2> QED
    BY <1>7, <1>o, <1>t, <2>1, Claims DEF RunInv, At
<1>8. ASSUME NEW c \in Core, Flushed(c)
      PROVE  RunInv'
  BY <1>0, <1>8 DEF Flushed, Abort
<1>9. ASSUME NEW c \in Core, Clean(c)
      PROVE  RunInv'
  <2>1. /\ UNCHANGED <<optionVars, head, starter, at, stage, lcore>>
        /\ starter[c] = "done" /\ desc' \in {desc, "closed"}
    BY <1>9 DEF Clean
  <2>2. desc # "none" /\ desc' # "none"
    BY <1>t, <2>1 DEF RunInv
  <2> QED
    BY <1>o, <1>t, <2>1, <2>2 DEF RunInv, At
<1> QED
  BY <1>0, <1>1, <1>2, <1>3, <1>4, <1>5, <1>6, <1>7, <1>8, <1>9 DEF Next, Ended, vars

LEMMA LoopStep == Inductive /\ [Next]_vars => LoopInv'
<1> SUFFICES ASSUME Inductive, [Next]_vars
             PROVE  LoopInv'
  OBVIOUS
<1> USE DEF optionVars, endVars, fileVars
<1>t. TypeOK /\ RunInv /\ LoopInv
  BY DEF Inductive, BufferInBounds
<1>o. UNCHANGED optionVars => Cores' = Cores /\ Slots' = Slots
  BY OptionsKept
<1>c. Cores \in Nat \ {0} /\ \A f \in File : f \in Nat
  BY <1>t, Options DEF File
<1>s. Slots \in Nat
  BY <1>t, Options, NumFilesType
<1>0. CASE UNCHANGED <<optionVars, starter, at, cur, stage>>
  BY <1>0, <1>o DEF LoopInv, Inductive
<1>1. CASE Run
  <2>1. ASSUME ~ Abort
        PROVE  LoopInv'
    <3>1. /\ UNCHANGED <<optionVars, stage, at, cur>>
          /\ \A c \in Core : starter[c] = "none"
          /\ \A f \in File : stage'[f] = "idle"
      BY <1>1, <1>t, <2>1 DEF Run, RunInv
    <3>2. \A c \in Core : at'[c] = "idle"
      BY <1>t, <3>1 DEF RunInv
    <3> QED
      BY <3>1, <3>2 DEF LoopInv
  <2> QED
    BY <1>0, <1>1, <2>1 DEF Run, Abort
<1>2. ASSUME NEW c \in Core, Start(c)
      PROVE  LoopInv'
  <2>1. ASSUME ~ Abort
        PROVE  LoopInv'
    <3>1. /\ UNCHANGED <<optionVars, stage>> /\ starter[c] = "posted"
          /\ starter' = [starter EXCEPT ![c] = "done"]
          /\ at' = [at EXCEPT ![c] = "loop"]
          /\ cur' = [cur EXCEPT ![c] = c]
      BY <1>2, <2>1 DEF Start
    <3>2. /\ \A d \in Core : starter'[d] = IF d = c THEN "done" ELSE starter[d]
          /\ \A d \in Core : at'[d] = IF d = c THEN "loop" ELSE at[d]
          /\ \A d \in Core : cur'[d] = IF d = c THEN c ELSE cur[d]
      BY <1>t, <3>1 DEF TypeOK
    <3>3. c % Cores = c
      <4>1. c \in 0 .. Cores - 1
        BY <1>t, <3>1, Options DEF RunInv
      <4> QED
        BY <1>c, <4>1, Dealt
    <3> QED
      BY <1>o, <1>t, <3>1, <3>2, <3>3 DEF LoopInv
  <2> QED
    BY <1>0, <1>2, <2>1 DEF Start, Abort
<1>3. ASSUME NEW c \in Core, Loop(c)
      PROVE  LoopInv'
  <2>1. CASE cur[c] < Slots
    <3>1. \A f \in File : cur[c] < f => cur[c] <= f
      BY <1>c, <1>t DEF TypeOK
    <3> QED
      BY <1>3, <1>c, <1>o, <1>t, <2>1, Loops DEF LoopInv, TypeOK
  <2>2. CASE ~ cur[c] < Slots
    <3>1. /\ UNCHANGED <<optionVars, starter, stage, cur>>
          /\ at' = [at EXCEPT ![c] = "idle"]
      BY <1>3, <2>2 DEF Loop
    <3> QED
      BY <1>o, <1>t, <3>1 DEF LoopInv, TypeOK
  <2> QED
    BY <2>1, <2>2
<1>4. ASSUME NEW c \in Core, Submit(c)
      PROVE  LoopInv'
  <2>1. ASSUME ~ Abort, ~ UNCHANGED vars
        PROVE  LoopInv'
    <3>1. /\ UNCHANGED <<optionVars, starter>>
          /\ at[c] \in {"first", "next"} /\ cur[c] \in File /\ stage[cur[c]] = "claimed"
          /\ \A d \in Core : d # c => at'[d] = at[d] /\ cur'[d] = cur[d]
          /\ at[c] = "first" => at'[c] = "loop" /\ cur'[c] = cur[c] + Cores
          /\ at[c] # "first" => at'[c] = "idle"
          /\ \A f \in File : f # cur[c] => stage'[f] = stage[f]
      BY <1>4, <2>1, Submits
    <3>2. cur[c] \in Nat /\ (cur[c] + Cores) % Cores = cur[c] % Cores
          /\ \A f \in File : cur[c] + Cores <= f => cur[c] < f
      <4>1. cur[c] \in Nat
        BY <1>c, <3>1
      <4>2. (cur[c] + Cores) % Cores = cur[c] % Cores
        BY <1>c, <4>1, Dealt
      <4> QED
        BY <1>c, <4>1, <4>2
    <3>3. ASSUME NEW f \in File, stage[f] = "idle"
          PROVE  stage'[f] = "idle"
      BY <3>1, <3>3
    <3>4. \A d \in Core : at'[d] \in {"loop", "first"} => cur'[d] % Cores = d
      BY <1>t, <3>1, <3>2 DEF LoopInv
    <3>5. ASSUME NEW d \in Core, NEW f \in File, f < Slots, f % Cores = d
          PROVE  /\ starter[d] = "posted" => stage[f] = "idle"
                 /\ at'[d] = "loop" /\ cur'[d] <= f => stage[f] = "idle"
                 /\ at'[d] = "first" /\ cur'[d] < f => stage[f] = "idle"
      BY <1>t, <3>1, <3>2, <3>5 DEF LoopInv
    <3> QED
      BY <1>o, <3>1, <3>3, <3>4, <3>5 DEF LoopInv
  <2> QED
    BY <1>0, <1>4, <2>1 DEF Submit, Abort, vars
<1>5. ASSUME NEW f \in File, Complete(f)
      PROVE  LoopInv'
  <2>1. CASE UNCHANGED <<stage, at, cur>>
    BY <1>0, <1>5, <2>1 DEF Complete
  <2>2. CASE ~ UNCHANGED <<stage, at, cur>>
    BY <1>5, <1>o, <1>t, <2>2, Completes DEF LoopInv
  <2> QED
    BY <2>1, <2>2
<1>6. ASSUME NEW c \in Core, CountDown(c)
      PROVE  LoopInv'
  BY <1>6, <1>o, <1>t, CountsDown DEF LoopInv
<1>7. ASSUME NEW c \in Core, Claim(c)
      PROVE  LoopInv'
  BY <1>7, <1>c, <1>o, <1>t, Claims DEF LoopInv
<1>8. ASSUME NEW c \in Core, Flushed(c) \/ Clean(c)
      PROVE  LoopInv'
  BY <1>0, <1>8 DEF Flushed, Clean, Abort
<1> QED
  BY <1>0, <1>1, <1>2, <1>3, <1>4, <1>5, <1>6, <1>7, <1>8 DEF Next, Ended, vars

LEMMA PopStep == Inductive /\ [Next]_vars => PopInv'
<1> SUFFICES ASSUME Inductive, [Next]_vars
             PROVE  PopInv'
  OBVIOUS
<1> USE DEF optionVars, endVars, fileVars
<1>t. TypeOK /\ RunInv /\ PopInv
  BY DEF Inductive, BufferInBounds
<1>0. CASE UNCHANGED <<at, cur, stage>>
  BY <1>0, <1>t DEF PopInv, Popping, At
<1>2. ASSUME NEW c \in Core, Start(c)
      PROVE  PopInv'
  <2>1. ASSUME ~ Abort
        PROVE  PopInv'
    <3>1. /\ UNCHANGED stage
          /\ at' = [at EXCEPT ![c] = "loop"]
          /\ cur' = [cur EXCEPT ![c] = c]
      BY <1>2, <2>1 DEF Start
    <3> QED
      BY <1>t, <3>1 DEF PopInv, Popping, At, TypeOK
  <2> QED
    BY <1>0, <1>2, <2>1 DEF Start, Abort
<1>3. ASSUME NEW c \in Core, Loop(c)
      PROVE  PopInv'
  <2>1. CASE cur[c] < Slots
    BY <1>3, <1>t, <2>1, Loops DEF PopInv, Popping, At
  <2>2. CASE ~ cur[c] < Slots
    <3>1. /\ UNCHANGED <<stage, cur>> /\ at' = [at EXCEPT ![c] = "idle"]
      BY <1>3, <2>2 DEF Loop
    <3> QED
      BY <1>t, <3>1 DEF PopInv, Popping, At, TypeOK
  <2> QED
    BY <2>1, <2>2
<1>4. ASSUME NEW c \in Core, Submit(c)
      PROVE  PopInv'
  <2>1. ASSUME ~ Abort, ~ UNCHANGED vars
        PROVE  PopInv'
    BY <1>4, <1>t, <2>1, Submits DEF PopInv, Popping, At
  <2> QED
    BY <1>0, <1>4, <2>1 DEF Submit, Abort, vars
<1>5. ASSUME NEW f \in File, Complete(f)
      PROVE  PopInv'
  <2>1. CASE UNCHANGED <<stage, at, cur>>
    BY <1>0, <1>5, <2>1 DEF Complete
  <2>2. CASE ~ UNCHANGED <<stage, at, cur>>
    BY <1>5, <1>t, <2>2, Completes DEF PopInv, Popping, At
  <2> QED
    BY <2>1, <2>2
<1>6. ASSUME NEW c \in Core, CountDown(c)
      PROVE  PopInv'
  BY <1>6, <1>t, CountsDown DEF PopInv, Popping, At
<1>7. ASSUME NEW c \in Core, Claim(c)
      PROVE  PopInv'
  BY <1>7, <1>t, Claims DEF PopInv, Popping, At
<1>8. ASSUME NEW c \in Core, Flushed(c) \/ Clean(c)
      PROVE  PopInv'
  BY <1>0, <1>8 DEF Flushed, Clean, Abort
<1>9. CASE Run
  BY <1>0, <1>9 DEF Run, Abort
<1> QED
  BY <1>0, <1>2, <1>3, <1>4, <1>5, <1>6, <1>7, <1>8, <1>9 DEF Next, Ended, vars
-------------------------------------------------------------------------------
LEMMA CountStep == Inductive /\ [Next]_vars => CountInv'
<1> SUFFICES ASSUME Inductive, [Next]_vars
             PROVE  CountInv'
  OBVIOUS
<1>t. CountInv
  BY DEF Inductive
<1>y. TypeOK
  BY DEF Inductive, BufferInBounds
<1>n. /\ NumFiles \in Nat /\ Slots \in Nat /\ global_left_count \in Nat
      /\ Cardinality(At("claimed")) \in Nat /\ Cardinality(At("submitted")) \in Nat
      /\ Cardinality(At("done")) \in Nat
      /\ Cardinality(Unstarted) \in Nat /\ Cardinality(Popping) \in Nat
      /\ Cardinality(Counting) \in Nat /\ Cardinality(Claiming) \in Nat
  BY <1>y, Counts, Options, NumFilesType DEF TypeOK
<1>o. UNCHANGED optionVars => Slots' = Slots
  BY OptionsKept
<1>0. CASE UNCHANGED <<optionVars, desc, stage, at, global_left_count>>
  <2>1. /\ Unstarted' = Unstarted /\ \A s : At(s)' = At(s)
        /\ Popping' = Popping /\ Counting' = Counting /\ Claiming' = Claiming
        /\ Slots' = Slots /\ desc' = desc /\ global_left_count' = global_left_count
    BY <1>0, <1>o, FilesStay, CoresStay
  <2> QED
    BY <1>t, <2>1 DEF CountInv
<1>a. CASE Abort
  BY <1>0, <1>a DEF Abort, endVars, fileVars
<1>1. CASE Run
  <2>1. ASSUME ~ Abort
        PROVE  CountInv'
    <3>1. /\ UNCHANGED <<optionVars, stage, at>>
          /\ desc = "none" /\ global_left_count' = NumFiles
      BY <1>1, <2>1 DEF Run
    <3>2. /\ Unstarted' = Unstarted /\ \A s : At(s)' = At(s)
          /\ Popping' = Popping /\ Counting' = Counting /\ Claiming' = Claiming
          /\ Slots' = Slots
      BY <1>o, <3>1, FilesStay, CoresStay
    <3>3. /\ \A f \in File : stage[f] = "idle"
          /\ \A c \in Core : at[c] = "idle"
      BY <3>1 DEF Inductive, RunInv
    <3>4. At("done") = {} /\ Counting = {}
      BY <3>3 DEF At, Counting
    <3>5. Cardinality({}) = 0
      BY FS_EmptySet
    <3>6. NumFiles + Cardinality(At("done")) = NumFiles + Cardinality(Counting)
      BY <3>4, <3>5
    <3> QED
      BY <1>t, <3>1, <3>2, <3>6 DEF CountInv
  <2> QED
    BY <1>1, <1>a, <2>1
<1>2. ASSUME NEW c \in Core, Start(c)
      PROVE  CountInv'
  <2>1. ASSUME ~ Abort
        PROVE  CountInv'
    <3>1. /\ UNCHANGED <<optionVars, stage>> /\ desc' = desc
          /\ global_left_count' = global_left_count /\ at[c] = "idle"
          /\ \A d \in Core : at'[d] = IF d = c THEN "loop" ELSE at[d]
      BY <1>2, <1>y, <2>1 DEF Start, Idle, endVars, fileVars, TypeOK
    <3>2. /\ Unstarted' = Unstarted /\ \A s : At(s)' = At(s) /\ Slots' = Slots
      BY <1>o, <3>1, FilesStay
    <3>3. /\ Cardinality(Popping') = Cardinality(Popping)
          /\ Cardinality(Counting') = Cardinality(Counting)
          /\ Cardinality(Claiming') = Cardinality(Claiming)
      BY <1>n, <3>1, CoreMoves
    <3> QED
      BY <1>t, <3>1, <3>2, <3>3 DEF CountInv
  <2> QED
    BY <1>2, <1>a, <2>1 DEF Start
<1>3. ASSUME NEW c \in Core, Loop(c)
      PROVE  CountInv'
  <2>1. CASE cur[c] < Slots
    <3>1. /\ UNCHANGED optionVars /\ desc' = desc
          /\ global_left_count' = global_left_count /\ at[c] = "loop"
          /\ \A d \in Core : at'[d] = IF d = c THEN "first" ELSE at[d]
          /\ cur[c] \in File /\ stage[cur[c]] = "idle"
          /\ \A f \in File : stage'[f] = IF f = cur[c] THEN "claimed" ELSE stage[f]
      BY <1>3, <2>1, Loops DEF endVars
    <3>2. /\ Cardinality(Popping') = Cardinality(Popping) + 1
          /\ Cardinality(Counting') = Cardinality(Counting)
          /\ Cardinality(Claiming') = Cardinality(Claiming)
      BY <1>n, <3>1, CoreMoves
    <3>3. /\ Cardinality(At("claimed")') = Cardinality(At("claimed")) + 1
          /\ Cardinality(At("submitted")') = Cardinality(At("submitted"))
          /\ Cardinality(At("done")') = Cardinality(At("done"))
          /\ Cardinality(Unstarted') = Cardinality(Unstarted) - 1
      BY <1>n, <2>1, <3>1, FileMoves
    <3> QED
      BY <1>n, <1>o, <1>t, <3>1, <3>2, <3>3 DEF CountInv
  <2>2. CASE ~ cur[c] < Slots
    <3>1. /\ UNCHANGED <<optionVars, stage>> /\ desc' = desc
          /\ global_left_count' = global_left_count /\ at[c] = "loop"
          /\ \A d \in Core : at'[d] = IF d = c THEN "idle" ELSE at[d]
      BY <1>3, <1>y, <2>2 DEF Loop, endVars, TypeOK
    <3>2. /\ Unstarted' = Unstarted /\ \A s : At(s)' = At(s) /\ Slots' = Slots
      BY <1>o, <3>1, FilesStay
    <3>3. /\ Cardinality(Popping') = Cardinality(Popping)
          /\ Cardinality(Counting') = Cardinality(Counting)
          /\ Cardinality(Claiming') = Cardinality(Claiming)
      BY <1>n, <3>1, CoreMoves
    <3> QED
      BY <1>t, <3>1, <3>2, <3>3 DEF CountInv
  <2> QED
    BY <2>1, <2>2
<1>4. ASSUME NEW c \in Core, Submit(c)
      PROVE  CountInv'
  <2>1. ASSUME ~ Abort, ~ UNCHANGED vars
        PROVE  CountInv'
    <3>1. /\ UNCHANGED optionVars /\ desc' = desc
          /\ global_left_count' = global_left_count /\ at[c] \in {"first", "next"}
          /\ cur[c] \in File /\ stage[cur[c]] = "claimed"
          /\ \A f \in File : stage'[f] = IF f = cur[c] THEN "submitted" ELSE stage[f]
      BY <1>4, <2>1, Submits DEF endVars
    <3>p. at'[c] \in {"loop", "idle"} /\ \A d \in Core : d # c => at'[d] = at[d]
      BY <1>4, <2>1, Submits
    <3>2. /\ Cardinality(Popping') = Cardinality(Popping) - 1
          /\ Cardinality(Counting') = Cardinality(Counting)
          /\ Cardinality(Claiming') = Cardinality(Claiming)
      BY <1>n, <3>1, <3>p, CoreMoves
    <3>3. /\ Cardinality(At("claimed")') = Cardinality(At("claimed")) - 1
          /\ Cardinality(At("submitted")') = Cardinality(At("submitted")) + 1
          /\ Cardinality(At("done")') = Cardinality(At("done"))
          /\ Cardinality(Unstarted') = Cardinality(Unstarted)
      BY <1>n, <3>1, FileMoves
    <3> QED
      BY <1>n, <1>o, <1>t, <3>1, <3>2, <3>3 DEF CountInv
  <2> QED
    BY <1>0, <1>4, <1>a, <2>1 DEF Submit, vars, endVars, fileVars
<1>5. ASSUME NEW f \in File, Complete(f)
      PROVE  CountInv'
  <2>1. CASE UNCHANGED <<stage, at, cur>>
    BY <1>0, <1>5, <2>1 DEF Complete, endVars
  <2>2. CASE ~ UNCHANGED <<stage, at, cur>>
    <3>1. /\ UNCHANGED optionVars /\ desc' = desc
          /\ global_left_count' = global_left_count
          /\ lcore[f] \in Core /\ at[lcore[f]] = "idle"
          /\ \A d \in Core : at'[d] = IF d = lcore[f] THEN "count" ELSE at[d]
          /\ stage[f] = "submitted"
          /\ \A g \in File : stage'[g] = IF g = f THEN "done" ELSE stage[g]
      BY <1>5, <2>2, Completes DEF endVars
    <3>2. /\ Cardinality(Popping') = Cardinality(Popping)
          /\ Cardinality(Counting') = Cardinality(Counting) + 1
          /\ Cardinality(Claiming') = Cardinality(Claiming)
      BY <1>n, <3>1, CoreMoves
    <3>3. /\ Cardinality(At("claimed")') = Cardinality(At("claimed"))
          /\ Cardinality(At("submitted")') = Cardinality(At("submitted")) - 1
          /\ Cardinality(At("done")') = Cardinality(At("done")) + 1
          /\ Cardinality(Unstarted') = Cardinality(Unstarted)
      BY <1>n, <3>1, FileMoves
    <3> QED
      BY <1>n, <1>o, <1>t, <3>1, <3>2, <3>3 DEF CountInv
  <2> QED
    BY <2>1, <2>2
<1>6. ASSUME NEW c \in Core, CountDown(c)
      PROVE  CountInv'
  <2>1. /\ UNCHANGED <<optionVars, stage>> /\ desc' = desc /\ at[c] = "count"
        /\ global_left_count' = global_left_count - 1
    BY <1>6, CountsDown DEF fileVars
  <2>p. at'[c] \in {"claim", "idle"} /\ \A d \in Core : d # c => at'[d] = at[d]
    BY <1>6, CountsDown
  <2>2. /\ Unstarted' = Unstarted /\ \A s : At(s)' = At(s) /\ Slots' = Slots
    BY <1>o, <2>1, FilesStay
  <2>3. /\ Cardinality(Popping') = Cardinality(Popping)
        /\ Cardinality(Counting') = Cardinality(Counting) - 1
        /\ Cardinality(Claiming') \in Nat
        /\ Cardinality(Claiming') <= Cardinality(Claiming) + 1
    BY <1>n, <2>1, <2>p, CoreMoves
  <2> QED
    BY <1>n, <1>t, <2>1, <2>2, <2>3 DEF CountInv
<1>7. ASSUME NEW c \in Core, Claim(c)
      PROVE  CountInv'
  <2>1. /\ UNCHANGED optionVars /\ desc' = desc
        /\ global_left_count' = global_left_count /\ at[c] = "claim"
        /\ head \in Nat /\ head >= Slots
    BY <1>7, Claims DEF endVars
  <2>2. CASE head \in File
    <3>1. /\ \A d \in Core : at'[d] = IF d = c THEN "next" ELSE at[d]
          /\ stage[head] = "idle"
          /\ \A f \in File : stage'[f] = IF f = head THEN "claimed" ELSE stage[f]
      BY <1>7, <2>2, Claims
    <3>2. /\ Cardinality(Popping') = Cardinality(Popping) + 1
          /\ Cardinality(Counting') = Cardinality(Counting)
          /\ Cardinality(Claiming') = Cardinality(Claiming) - 1
      BY <1>n, <2>1, <3>1, CoreMoves
    <3>3. /\ Cardinality(At("claimed")') = Cardinality(At("claimed")) + 1
          /\ Cardinality(At("submitted")') = Cardinality(At("submitted"))
          /\ Cardinality(At("done")') = Cardinality(At("done"))
          /\ Cardinality(Unstarted') = Cardinality(Unstarted)
      BY <1>n, <2>1, <2>2, <3>1, FileMoves
    <3> QED
      BY <1>n, <1>o, <1>t, <2>1, <3>2, <3>3 DEF CountInv
  <2>3. CASE head \notin File
    <3>1. /\ \A d \in Core : at'[d] = IF d = c THEN "idle" ELSE at[d]
          /\ UNCHANGED stage
      BY <1>7, <2>3, Claims
    <3>2. /\ Unstarted' = Unstarted /\ \A s : At(s)' = At(s) /\ Slots' = Slots
      BY <1>o, <2>1, <3>1, FilesStay
    <3>3. /\ Cardinality(Popping') = Cardinality(Popping)
          /\ Cardinality(Counting') = Cardinality(Counting)
          /\ Cardinality(Claiming') = Cardinality(Claiming) - 1
      BY <1>n, <2>1, <3>1, CoreMoves
    <3> QED
      BY <1>n, <1>t, <2>1, <3>2, <3>3 DEF CountInv
  <2> QED
    BY <2>2, <2>3
<1>8. ASSUME NEW c \in Core, Flushed(c)
      PROVE  CountInv'
  BY <1>0, <1>8, <1>a DEF Flushed, fileVars
<1>9. ASSUME NEW c \in Core, Clean(c)
      PROVE  CountInv'
  <2>1. /\ UNCHANGED <<optionVars, stage, at, global_left_count>>
        /\ starter[c] = "done" /\ desc' \in {desc, "closed"}
    BY <1>9 DEF Clean, fileVars
  <2>2. desc # "none"
    BY <2>1 DEF Inductive, RunInv
  <2>3. /\ Unstarted' = Unstarted /\ \A s : At(s)' = At(s)
        /\ Popping' = Popping /\ Counting' = Counting /\ Claiming' = Claiming
        /\ Slots' = Slots /\ global_left_count' = global_left_count
    BY <1>o, <2>1, FilesStay, CoresStay
  <2> QED
    BY <1>t, <2>2, <2>3 DEF CountInv
<1> QED
  BY <1>0, <1>1, <1>2, <1>3, <1>4, <1>5, <1>6, <1>7, <1>8, <1>9
  DEF Next, Ended, vars, endVars, fileVars
-------------------------------------------------------------------------------
(* While the process runs, an lcore that freed its channel does nothing.   *)
LEMMA EndKept ==
  ASSUME Inductive, UNCHANGED <<optionVars, endVars, global_left_count>>,
         status = "running" \/ status' = status,
         \A c \in Cleaned : at'[c] = "idle" /\ starter'[c] = "done"
  PROVE  EndInv'
<1>1. EndInv
  BY DEF Inductive
<1>2. /\ UNCHANGED <<desc, cleaner, clean_count, flusher, flushed, global_left_count, flush>>
      /\ Cleaned' = Cleaned /\ Over' = Over /\ Used' = Used
  BY OptionsKept DEF endVars, optionVars, Cleaned, Over
<1>3. desc = "closed" => status' # "running"
  BY <1>1 DEF EndInv
<1> QED
  BY <1>1, <1>2, <1>3 DEF EndInv

LEMMA CleanedAre ==
  ASSUME Inductive, NEW c \in Core
  PROVE  /\ c \in Cleaned => Over /\ at[c] = "idle" /\ starter[c] = "done"
         /\ ~ Over => /\ Cleaned = {} /\ flusher = NoCore /\ ~ flushed
                      /\ \A d \in Core : cleaner[d] = "none"
BY DEF Inductive, EndInv, Cleaned, Over

LEMMA EndStep == Inductive /\ [Next]_vars => EndInv'
<1> SUFFICES ASSUME Inductive, [Next]_vars
             PROVE  EndInv'
  OBVIOUS
<1>e. EndInv
  BY DEF Inductive
<1>y. TypeOK
  BY DEF Inductive, BufferInBounds
<1>b. \A c \in Cleaned : at[c] = "idle" /\ starter[c] = "done" /\ c \in Core
  BY <1>e DEF EndInv, Cleaned
<1>0. CASE UNCHANGED vars
  BY <1>0, <1>b, EndKept DEF vars
<1>a. CASE Abort /\ status = "running"
  BY <1>a, <1>b, EndKept DEF Abort
<1>1. CASE Run
  <2>1. ASSUME ~ Abort
        PROVE  EndInv'
    <3>1. /\ UNCHANGED <<optionVars, cleaner, clean_count, flusher, flushed, at>>
          /\ desc = "none" /\ desc' = "open"
      BY <1>1, <2>1 DEF Run
    <3>2. ~ Over
      BY <1>e, <3>1 DEF EndInv
    <3>3. /\ Cleaned' = Cleaned /\ ~ Over'
      BY <3>1, <3>2 DEF Cleaned, Over
    <3>4. /\ Cleaned' = {} /\ flusher' = NoCore /\ ~ flushed'
          /\ \A d \in Core : cleaner'[d] = "none"
      BY <3>2, <3>3, <3>1 DEF Cleaned, Over
    <3>5. clean_count' = Cardinality(Cleaned')
      BY <1>e, <3>1, <3>3 DEF EndInv
    <3> QED
      BY <3>1, <3>3, <3>4, <3>5 DEF EndInv
  <2> QED
    BY <1>1, <1>a, <2>1 DEF Run, Idle
<1>2. ASSUME NEW c \in Core, Start(c)
      PROVE  EndInv'
  <2>1. ASSUME ~ Abort
        PROVE  EndInv'
    <3>1. /\ UNCHANGED <<optionVars, endVars, global_left_count>>
          /\ status = "running" /\ starter[c] = "posted"
          /\ starter' = [starter EXCEPT ![c] = "done"]
          /\ at' = [at EXCEPT ![c] = "loop"]
      BY <1>2, <2>1 DEF Start, Idle
    <3>2. c \notin Cleaned
      BY <1>b, <3>1
    <3>3. \A d \in Cleaned : at'[d] = "idle" /\ starter'[d] = "done"
      BY <1>b, <1>y, <3>1, <3>2 DEF TypeOK
    <3> QED
      BY <3>1, <3>3, EndKept
  <2> QED
    BY <1>2, <1>a, <2>1 DEF Start, Idle
<1>3. ASSUME NEW c \in Core, Loop(c)
      PROVE  EndInv'
  <2>1. /\ UNCHANGED <<optionVars, endVars, global_left_count, starter>>
        /\ status = "running" /\ at[c] = "loop"
        /\ at' = [at EXCEPT ![c] = "first"] \/ at' = [at EXCEPT ![c] = "idle"]
    BY <1>3 DEF Loop
  <2>2. c \notin Cleaned
    BY <1>b, <2>1
  <2>3. \A d \in Cleaned : at'[d] = "idle" /\ starter'[d] = "done"
    BY <1>b, <1>y, <2>1, <2>2 DEF TypeOK
  <2> QED
    BY <2>1, <2>3, EndKept
<1>4. ASSUME NEW c \in Core, Submit(c)
      PROVE  EndInv'
  <2>1. ASSUME ~ Abort, ~ UNCHANGED vars
        PROVE  EndInv'
    <3>1. /\ UNCHANGED <<optionVars, endVars, global_left_count, starter>>
          /\ status = "running" /\ at[c] \in {"first", "next"}
          /\ \A d \in Core : d # c => at'[d] = at[d]
      BY <1>4, <2>1, Submits
    <3>2. c \notin Cleaned
      BY <1>b, <3>1
    <3>3. \A d \in Cleaned : at'[d] = "idle" /\ starter'[d] = "done"
      BY <1>b, <3>1, <3>2
    <3> QED
      BY <3>1, <3>3, EndKept
  <2> QED
    BY <1>0, <1>4, <1>a, <2>1 DEF Submit
<1>5. ASSUME NEW f \in File, Complete(f)
      PROVE  EndInv'
  <2>1. CASE UNCHANGED <<stage, at, cur>>
    <3>1. /\ UNCHANGED <<optionVars, endVars, global_left_count, starter, at>>
          /\ status = "running"
      BY <1>5, <2>1 DEF Complete, Idle
    <3> QED
      BY <1>b, <3>1, EndKept
  <2>2. CASE ~ UNCHANGED <<stage, at, cur>>
    <3>1. /\ UNCHANGED <<optionVars, endVars, global_left_count, starter>>
          /\ status = "running" /\ stage[f] = "submitted"
          /\ \A d \in Core : d # lcore[f] => at'[d] = at[d]
      BY <1>5, <2>2, Completes
    <3>2. Cleaned = {}
      <4>1. ~ Over
        BY <3>1, OverDone DEF At
      <4> QED
        BY <4>1 DEF Cleaned, Over
    <3> QED
      BY <3>1, <3>2, EndKept
  <2> QED
    BY <2>1, <2>2
<1>6. ASSUME NEW c \in Core, CountDown(c)
      PROVE  EndInv'
  <2>1. /\ UNCHANGED <<optionVars, desc, clean_count, flushed, starter>>
        /\ status = "running" /\ at[c] = "count"
        /\ global_left_count' = global_left_count - 1
    BY <1>6, CountsDown DEF fileVars
  <2>2. /\ desc' # "none" /\ desc' # "closed"
    BY <1>6, <1>e, <2>1, SomethingLeft DEF EndInv
  <2>3. /\ Cleaned = {} /\ flusher = NoCore /\ ~ flushed
        /\ \A d \in Core : cleaner[d] = "none"
    BY <2>1, SomethingLeft DEF Cleaned, Over
  <2>4. clean_count' = Cardinality({})
    BY <1>e, <2>1, <2>3 DEF EndInv
  <2>5. CASE ~ LastFile(global_left_count - 1)
    <3>1. flusher' = NoCore /\ \A d \in Core : cleaner'[d] = "none"
      BY <1>6, <2>3, <2>5 DEF CountDown, LastFile
    <3>2. ~ Over' /\ Cleaned' = {} /\ ~ flushed'
      BY <2>1, <2>3, <3>1 DEF Over, Cleaned
    <3> QED
      BY <2>2, <2>4, <3>1, <3>2 DEF EndInv
  <2>6. CASE LastFile(global_left_count - 1) /\ flush
    <3>1. /\ global_left_count' = 0 /\ flush' = flush
          /\ \A d \in Core : cleaner'[d] = "none"
      BY <1>6, <2>1, <2>3, <2>6 DEF CountDown, LastFile, optionVars
    <3>2. Cleaned' = {} /\ ~ flushed'
      BY <2>1, <2>3, <3>1 DEF Cleaned
    <3> QED
      BY <2>2, <2>4, <2>6, <3>1, <3>2 DEF EndInv
  <2>7. CASE LastFile(global_left_count - 1) /\ ~ flush
    <3>1. /\ global_left_count' = 0 /\ flush' = flush /\ flusher' = NoCore
          /\ cleaner' = [d \in Core |-> IF d \in Used THEN "posted" ELSE "none"]
      BY <1>6, <2>1, <2>3, <2>7 DEF CountDown, LastFile, optionVars, Close
    <3>2. Cleaned' = {} /\ ~ flushed' /\ Used' = Used
      BY <2>1, <2>3, <3>1, OptionsKept DEF Cleaned
    <3> QED
      BY <2>2, <2>4, <2>7, <3>1, <3>2 DEF EndInv
  <2> QED
    BY <2>5, <2>6, <2>7
<1>7. ASSUME NEW c \in Core, Claim(c)
      PROVE  EndInv'
  <2>1. /\ UNCHANGED <<optionVars, endVars, global_left_count, starter>>
        /\ status = "running" /\ at[c] = "claim"
        /\ \A d \in Core : d # c => at'[d] = at[d]
    BY <1>7, Claims
  <2>2. c \notin Cleaned
    BY <1>b, <2>1
  <2>3. \A d \in Cleaned : at'[d] = "idle" /\ starter'[d] = "done"
    BY <1>b, <2>1, <2>2
  <2> QED
    BY <2>1, <2>3, EndKept
<1>8. ASSUME NEW c \in Core, Flushed(c)
      PROVE  EndInv'
  <2>1. ASSUME ~ Abort
        PROVE  EndInv'
    <3>1. /\ UNCHANGED <<optionVars, desc, clean_count, starter, at, global_left_count>>
          /\ status = "running" /\ flusher = c /\ flusher' = NoCore /\ flushed' = TRUE
          /\ cleaner' = [d \in Core |-> IF d \in Used THEN "posted" ELSE "none"]
      BY <1>8, <2>1 DEF Flushed, Close, Idle
    <3>2. c # NoCore
      BY DEF Core, NoCore
    <3>3. /\ flush /\ \A d \in Core : cleaner[d] = "none"
          /\ desc # "none" /\ desc # "closed" /\ global_left_count = 0
          /\ clean_count = Cardinality(Cleaned)
      BY <1>e, <3>1, <3>2 DEF EndInv, Over
    <3>4. /\ Cleaned' = {} /\ Cleaned = {} /\ Used' = Used /\ flush' = flush
      BY <3>1, <3>3, OptionsKept DEF Cleaned, optionVars
    <3> QED
      BY <3>1, <3>3, <3>4 DEF EndInv
  <2> QED
    BY <1>8, <1>a, <2>1 DEF Flushed, Idle
<1>9. ASSUME NEW c \in Core, Clean(c)
      PROVE  EndInv'
  <2>1. /\ UNCHANGED <<optionVars, flusher, flushed, starter, at, global_left_count>>
        /\ status = "running" /\ at[c] = "idle" /\ starter[c] = "done"
        /\ cleaner[c] = "posted"
        /\ cleaner' = [cleaner EXCEPT ![c] = "done"]
        /\ clean_count' = clean_count + 1
    BY <1>9 DEF Clean, Idle
  <2>2. /\ Over /\ flusher = NoCore /\ desc # "none" /\ desc # "closed"
        /\ global_left_count = 0 /\ clean_count = Cardinality(Cleaned)
    BY <1>e, <2>1 DEF EndInv, Over
  <2>3. /\ c \notin Cleaned /\ c \in Cleaned'
        /\ \A d \in Core : d # c => (d \in Cleaned <=> d \in Cleaned')
        /\ Cleaned \in SUBSET Core /\ Cleaned' \in SUBSET Core
        /\ \A d \in Core : cleaner'[d] # "none" => cleaner[d] # "none"
    BY <1>y, <2>1 DEF Cleaned, TypeOK
  <2>4. Cardinality(Cleaned') = Cardinality(Cleaned) + 1
    <3>1. Cardinality(Cleaned') = Cardinality(Cleaned) + (IF c \in Cleaned' THEN 1 ELSE 0)
                                    - (IF c \in Cleaned THEN 1 ELSE 0)
      BY <2>3, Changed, Sizes
    <3>2. Cardinality(Cleaned) \in Nat
      BY Counts
    <3> QED
      BY <2>3, <3>1, <3>2
  <2>5. Used' = Used /\ flush' = flush /\ Cores' = Cores
    BY <2>1, OptionsKept DEF optionVars
  <2>6. desc' = "closed" => Cleaned' = Used /\ status' # "running"
    <3>1. ASSUME desc' = "closed"
          PROVE  clean_count + 1 = Cores /\ status' = "stopped"
      BY <1>9, <2>2, <3>1 DEF Clean, LastClean
    <3>2. Cleaned' \in SUBSET Used
      BY <1>e, <2>3 DEF EndInv, Cleaned
    <3>3. IsFiniteSet(Used) /\ Cardinality(Used) = Cores
      BY <1>y, Options DEF Cores
    <3>4. Cardinality(Cleaned') = Cores => Cleaned' = Used
      BY <3>2, <3>3, Part
    <3> QED
      BY <2>2, <2>4, <3>1, <3>4
  <2>7. desc' # "none"
    BY <1>9, <2>2 DEF Clean
  <2>8. \A d \in Cleaned' : at'[d] = "idle" /\ starter'[d] = "done"
    BY <1>b, <2>1, <2>3
  <2>9. /\ clean_count' = Cardinality(Cleaned')
        /\ flushed' => flush'
        /\ \A d \in Core : cleaner'[d] # "none" => (flushed' <=> flush') /\ d \in Used
    BY <1>e, <2>1, <2>2, <2>3, <2>4, <2>5 DEF EndInv
  <2> QED
    BY <2>1, <2>2, <2>5, <2>6, <2>7, <2>8, <2>9 DEF EndInv
<1> QED
  BY <1>0, <1>1, <1>2, <1>3, <1>4, <1>5, <1>6, <1>7, <1>8, <1>9 DEF Next, Ended
-------------------------------------------------------------------------------
Bounds == ~ write => \A f \in At("submitted") : buf[f] < Slots
Buffers == Bounds /\ BuffersDistinct /\ QueueInv

LEMMA BuffersNow == Inductive => Buffers
BY DEF Inductive, BufferInBounds, Buffers, Bounds

LEMMA BuffersKept ==
  ASSUME Inductive, UNCHANGED <<optionVars, buf, buffer_index>>,
         status = "running" \/ status' = status,
         At("submitted")' = At("submitted"),
         Cardinality(At("done")') = Cardinality(At("done"))
  PROVE  Buffers'
<1>1. Buffers
  BY BuffersNow
<1>2. /\ Slots' = Slots /\ Indices' = Indices /\ write' = write /\ Popped' = Popped
      /\ buf' = buf /\ buffer_index' = buffer_index
      /\ status' = "running" => status = "running"
  BY OptionsKept DEF optionVars, Popped
<1>3. Bounds'
  BY <1>1, <1>2 DEF Buffers, Bounds
<1>4. BuffersDistinct'
  BY <1>1, <1>2 DEF Buffers, BuffersDistinct
<1>5. QueueInv'
  BY <1>1, <1>2 DEF Buffers, QueueInv
<1> QED
  BY <1>3, <1>4, <1>5 DEF Buffers

(* The files submitted and done do not include one that is claimed. *)
LEMMA PoppedBelow ==
  ASSUME NEW g \in File, stage[g] = "claimed"
  PROVE  Popped < NumFiles
<1>1. /\ At("submitted") \in SUBSET File /\ At("done") \in SUBSET File
      /\ At("submitted") \cap At("done") = {}
      /\ g \notin At("submitted") \cup At("done")
  BY DEF At
<1>2. /\ IsFiniteSet(At("submitted")) /\ IsFiniteSet(At("done"))
      /\ Cardinality(At("submitted")) \in Nat /\ Cardinality(At("done")) \in Nat
  BY <1>1, Sizes, Part
<1>3. Cardinality(At("submitted") \cup At("done")) =
        Cardinality(At("submitted")) + Cardinality(At("done"))
          - Cardinality(At("submitted") \cap At("done"))
  BY <1>2, FS_Union
<1>4. Cardinality({}) = 0
  BY FS_EmptySet
<1>5. Cardinality(At("submitted") \cup At("done")) = Popped
  <2>1. Cardinality(At("submitted") \cap At("done")) = 0
    BY <1>1, <1>4
  <2> QED
    BY <1>2, <1>3, <2>1 DEF Popped
<1>6. At("submitted") \cup At("done") \in SUBSET File
  BY <1>1
<1>7. At("submitted") \cup At("done") # File
  BY <1>1
<1>8. /\ Popped <= NumFiles /\ Popped # NumFiles
  BY <1>5, <1>6, <1>7, Sizes, Part
<1> QED
  BY <1>2, <1>8, NumFilesType DEF Popped

LEMMA BuffersStep == Inductive /\ [Next]_vars => Buffers'
<1> SUFFICES ASSUME Inductive, [Next]_vars
             PROVE  Buffers'
  OBVIOUS
<1>y. TypeOK
  BY DEF Inductive, BufferInBounds
<1>b. Bounds /\ BuffersDistinct /\ QueueInv
  BY BuffersNow DEF Buffers
<1>i. /\ Slots \in Nat /\ Indices \in Nat /\ Slots <= Indices
      /\ Slots < Indices => Slots = NumFiles
      /\ NumFiles \in Nat
  BY <1>y, Options, NumFilesType
<1>0. CASE UNCHANGED <<optionVars, stage, buf, buffer_index>>
           /\ (status = "running" \/ status' = status)
  BY <1>0, BuffersKept, FilesStay
<1>v. CASE UNCHANGED vars
  BY <1>0, <1>v DEF vars, fileVars
<1>a. CASE Abort /\ status = "running"
  BY <1>0, <1>a DEF Abort, fileVars
<1>1. CASE Run
  BY <1>0, <1>1, <1>a DEF Run, Idle
<1>2. ASSUME NEW c \in Core, Start(c)
      PROVE  Buffers'
  BY <1>0, <1>2, <1>a DEF Start, Idle, fileVars
<1>3. ASSUME NEW c \in Core, Loop(c)
      PROVE  Buffers'
  <2>1. CASE cur[c] < Slots
    <3>1. /\ UNCHANGED <<optionVars, buf, buffer_index>> /\ status = "running"
          /\ cur[c] \in File /\ stage[cur[c]] = "idle"
          /\ \A f \in File : stage'[f] = IF f = cur[c] THEN "claimed" ELSE stage[f]
      BY <1>3, <2>1, Loops
    <3>2. At("submitted")' = At("submitted") /\ At("done")' = At("done")
      BY <3>1 DEF At
    <3> QED
      BY <3>1, <3>2, BuffersKept
  <2>2. CASE ~ cur[c] < Slots
    BY <1>0, <1>3, <2>2 DEF Loop
  <2> QED
    BY <2>1, <2>2
<1>4. ASSUME NEW c \in Core, Submit(c)
      PROVE  Buffers'
  <2>1. ASSUME ~ Abort, ~ UNCHANGED vars
        PROVE  Buffers'
    <3> DEFINE g == cur[c]
    <3>1. /\ UNCHANGED optionVars /\ status' = status
          /\ g \in File /\ stage[g] = "claimed"
          /\ \A f \in File : stage'[f] = IF f = g THEN "submitted" ELSE stage[f]
      BY <1>4, <2>1, Submits
    <3>2. Slots' = Slots /\ Indices' = Indices /\ write' = write
      BY <3>1, OptionsKept DEF optionVars
    <3>3. CASE write
      BY <3>2, <3>3 DEF Buffers, Bounds, BuffersDistinct, QueueInv
    <3>4. CASE ~ write
      <4> DEFINE q == buffer_index
      <4>1. /\ q # <<>> /\ buffer_index' = Tail(q)
            /\ buf' = [buf EXCEPT ![g] = Head(q)]
            /\ status = "running"
        BY <1>4, <2>1, <3>4 DEF Submit, Pop
      <4>2. q \in Seq(Nat) /\ buf \in [File -> Nat]
        BY <1>y DEF TypeOK
      <4>3. \A f \in File : buf'[f] = IF f = g THEN Head(q) ELSE buf[f]
        BY <4>1, <4>2
      <4> HIDE DEF g
      <4>4. /\ Head(q) = q[1] /\ q[1] \in Nat /\ Tail(q) \in Seq(Nat)
            /\ Len(q) \in Nat /\ Len(q) >= 1 /\ Len(Tail(q)) = Len(q) - 1
            /\ \A k \in 1 .. Len(q) - 1 : Tail(q)[k] = q[k + 1]
            /\ DOMAIN q = 1 .. Len(q) /\ DOMAIN Tail(q) = 1 .. Len(q) - 1
        BY <4>1, <4>2, Popped_
      <4> HIDE DEF q
      <4>5. /\ At("submitted")' = At("submitted") \cup {g}
            /\ g \notin At("submitted")
        BY <3>1 DEF At
      <4>6. /\ Cardinality(At("submitted")') = Cardinality(At("submitted")) + 1
            /\ Cardinality(At("done")') = Cardinality(At("done"))
            /\ Cardinality(At("submitted")) \in Nat /\ Cardinality(At("done")) \in Nat
        <5>1. Cardinality(At("submitted")) \in Nat /\ Cardinality(At("done")) \in Nat
          BY Counts
        <5> QED
          BY <3>1, <5>1, FileMoves
      <4>7. Popped' = Popped + 1 /\ Popped \in Nat /\ Popped < NumFiles
        BY <3>1, <4>6, PoppedBelow DEF Popped
      <4>8. /\ Len(q) + Cardinality(At("submitted")) = Indices
            /\ \A j, k \in 1 .. Len(q) : q[j] = q[k] => j = k
            /\ \A k \in 1 .. Len(q) : q[k] < Indices
            /\ \A k \in 1 .. Len(q) : k + Popped <= Indices => q[k] = k - 1 + Popped
        BY <1>b, <3>4, <4>1, <4>4 DEF QueueInv, q
      <4>9. q[1] < Slots
        <5>1. CASE Slots = Indices
          BY <4>4, <4>8, <5>1
        <5>2. CASE Slots < Indices
          <6>1. 1 + Popped <= Indices
            BY <1>i, <4>7, <5>2
          <6>2. q[1] = 1 - 1 + Popped
            BY <4>4, <4>8, <6>1
          <6> QED
            BY <1>i, <4>7, <5>2, <6>2
        <5> QED
          BY <1>i, <5>1, <5>2
      <4>10. Bounds'
        <5>1. \A f \in At("submitted") : f \in File /\ buf[f] < Slots
          BY <1>b, <3>4 DEF Bounds, At
        <5> QED
          BY <3>1, <3>2, <4>3, <4>4, <4>5, <4>9, <5>1 DEF Bounds
      <4>11. BuffersDistinct'
        <5>1. /\ \A f \in At("submitted") : f \in File
              /\ \A f, h \in At("submitted") : f # h => buf[f] # buf[h]
              /\ \A f \in At("submitted"), k \in 1 .. Len(q) : q[k] # buf[f]
          BY <1>b, <3>4, <4>1, <4>4 DEF BuffersDistinct, At, q
        <5>2. \A k \in 1 .. Len(q) - 1 : /\ k + 1 \in 1 .. Len(q) /\ k + 1 # 1
                                         /\ Tail(q)[k] = q[k + 1] /\ q[k + 1] # q[1]
          BY <4>4, <4>8
        <5>3. ASSUME NEW f \in At("submitted")'
              PROVE  /\ \A h \in At("submitted")' \ {f} : buf'[h] # buf'[f]
                     /\ \A k \in 1 .. Len(q) - 1 : Tail(q)[k] # buf'[f]
          <6>1. \A h \in At("submitted") : buf'[h] = buf[h] /\ buf[h] # q[1]
            BY <4>3, <4>4, <4>5, <5>1
          <6>2. buf'[g] = q[1]
            BY <3>1, <4>3, <4>4
          <6>3. CASE f = g
            BY <4>5, <5>2, <6>1, <6>2, <6>3
          <6>4. CASE f # g
            <7>1. f \in At("submitted") /\ buf'[f] = buf[f] /\ buf[f] # q[1]
              BY <4>5, <5>3, <6>1, <6>4
            <7>2. ASSUME NEW h \in At("submitted")' \ {f}
                  PROVE  buf'[h] # buf'[f]
              <8>1. CASE h = g
                BY <6>2, <7>1, <8>1
              <8>2. CASE h # g
                BY <4>5, <5>1, <6>1, <7>1, <7>2, <8>2
              <8> QED
                BY <8>1, <8>2
            <7>3. \A k \in 1 .. Len(q) - 1 : Tail(q)[k] # buf'[f]
              BY <5>1, <5>2, <7>1
            <7> QED
              BY <7>2, <7>3
          <6> QED
            BY <6>3, <6>4
        <5>4. buffer_index' = Tail(q)
          BY <4>1 DEF q
        <5> QED
          BY <4>4, <5>3, <5>4 DEF BuffersDistinct
      <4>12. QueueInv'
        <5>1. buffer_index' = Tail(q) /\ DOMAIN buffer_index' = 1 .. Len(q) - 1
          BY <4>1, <4>4 DEF q
        <5>2. Len(buffer_index') + Cardinality(At("submitted")') = Indices'
          BY <1>i, <3>2, <4>4, <4>6, <4>8, <5>1
        <5>3. ASSUME NEW k \in 1 .. Len(q) - 1
              PROVE  /\ Tail(q)[k] < Indices
                     /\ \A j \in 1 .. Len(q) - 1 : Tail(q)[j] = Tail(q)[k] => j = k
                     /\ k + Popped' <= Indices => Tail(q)[k] = k - 1 + Popped'
          <6>1. k + 1 \in 1 .. Len(q) /\ k \in Nat /\ Tail(q)[k] = q[k + 1]
            BY <4>4
          <6>2. ASSUME NEW j \in 1 .. Len(q) - 1, Tail(q)[j] = Tail(q)[k]
                PROVE  j = k
            <7>1. j + 1 \in 1 .. Len(q) /\ j \in Nat /\ q[j + 1] = q[k + 1]
              BY <4>4, <6>1, <6>2
            <7> QED
              BY <4>8, <6>1, <7>1
          <6>3. ASSUME k + Popped' <= Indices
                PROVE  Tail(q)[k] = k - 1 + Popped'
            <7>1. (k + 1) + Popped <= Indices
              BY <1>i, <4>7, <6>1, <6>3
            <7>2. q[k + 1] = (k + 1) - 1 + Popped
              BY <4>8, <6>1, <7>1
            <7> QED
              BY <4>7, <6>1, <7>2
          <6> QED
            BY <4>8, <6>1, <6>2, <6>3
        <5>4. Len(buffer_index') + Cardinality(At("submitted")') >= Indices'
          BY <1>i, <3>2, <5>2
        <5> QED
          BY <3>2, <5>1, <5>2, <5>3, <5>4 DEF QueueInv
      <4> QED
        BY <4>10, <4>11, <4>12 DEF Buffers
    <3> QED
      BY <3>3, <3>4
  <2> QED
    BY <1>4, <1>a, <1>v, <2>1 DEF Submit
<1>5. ASSUME NEW f \in File, Complete(f)
      PROVE  Buffers'
  <2>1. /\ UNCHANGED <<optionVars, buf>> /\ status = "running" /\ stage[f] = "submitted"
        /\ buffer_index' = IF write THEN buffer_index ELSE Append(buffer_index, buf[f])
    BY <1>5 DEF Complete, Idle, Push
  <2>2. Slots' = Slots /\ Indices' = Indices /\ write' = write /\ buf' = buf
    BY <2>1, OptionsKept DEF optionVars
  <2>3. CASE write
    BY <2>2, <2>3 DEF Buffers, Bounds, BuffersDistinct, QueueInv
  <2>4. CASE ~ write
    <3> DEFINE q == buffer_index
               p == Append(q, buf[f])
    <3>1. q \in Seq(Nat) /\ buf \in [File -> Nat] /\ buf[f] \in Nat
      BY <1>y DEF TypeOK
    <3>2. /\ p \in Seq(Nat) /\ Len(q) \in Nat /\ Len(p) = Len(q) + 1
          /\ \A k \in 1 .. Len(q) : p[k] = q[k]
          /\ p[Len(q) + 1] = buf[f]
          /\ DOMAIN q = 1 .. Len(q) /\ DOMAIN p = 1 .. Len(q) + 1
      BY <3>1, Pushed
    <3>3. buffer_index' = p
      BY <2>1, <2>4
    <3> HIDE DEF p
    <3>4. /\ f \in At("submitted") /\ At("submitted") \in SUBSET File
          /\ \A h \in At("submitted") : buf[h] < Slots
          /\ \A h \in At("submitted") : \A e \in At("submitted") \ {h} : buf[e] # buf[h]
          /\ \A h \in At("submitted"), k \in 1 .. Len(q) : q[k] # buf[h]
          /\ Len(q) + Cardinality(At("submitted")) = Indices
          /\ \A j, k \in 1 .. Len(q) : q[j] = q[k] => j = k
          /\ \A k \in 1 .. Len(q) : q[k] < Indices
          /\ \A k \in 1 .. Len(q) : k + Popped <= Indices => q[k] = k - 1 + Popped
      BY <1>b, <2>1, <2>4, <3>2 DEF Bounds, BuffersDistinct, QueueInv, At
    <3> HIDE DEF q
    <3>5. Cardinality(At("submitted")) \in Nat /\ Cardinality(At("done")) \in Nat
      BY Counts
    <3>6. \A k \in 1 .. Len(q) + 1 : p[k] < Indices
      <4>1. p[Len(q) + 1] < Indices
        <5>1. buf[f] < Slots
          BY <3>4
        <5> QED
          BY <1>i, <3>1, <3>2, <5>1
      <4>2. \A k \in 1 .. Len(q) : p[k] < Indices
        BY <3>2, <3>4
      <4>3. \A k \in 1 .. Len(q) + 1 : k \in 1 .. Len(q) \/ k = Len(q) + 1
        BY <3>2
      <4> QED
        BY <4>1, <4>2, <4>3
    <3>7. CASE UNCHANGED <<stage, at, cur>>
      <4>1. At("submitted")' = At("submitted") /\ status' # "running"
        <5>1. At("submitted")' = At("submitted")
          BY <3>7 DEF At
        <5>2. stage' # [stage EXCEPT ![f] = "done"]
          BY <1>y, <2>1, <3>7 DEF TypeOK
        <5>3. status' = "aborted"
          BY <1>5, <5>2 DEF Complete
        <5> QED
          BY <5>1, <5>3
      <4>2. Bounds' /\ BuffersDistinct'
        BY <2>2, <3>4, <4>1 DEF Bounds, BuffersDistinct
      <4>3. Len(buffer_index') + Cardinality(At("submitted")') >= Indices'
        BY <1>i, <2>2, <3>2, <3>3, <3>4, <3>5, <4>1
      <4>4. QueueInv'
        BY <2>2, <3>2, <3>3, <3>6, <4>1, <4>3 DEF QueueInv
      <4> QED
        BY <4>2, <4>4 DEF Buffers
    <3>8. CASE ~ UNCHANGED <<stage, at, cur>>
      <4>1. /\ status' = status
            /\ \A g \in File : stage'[g] = IF g = f THEN "done" ELSE stage[g]
        BY <1>5, <3>8, Completes
      <4>2. At("submitted")' = At("submitted") \ {f}
        BY <4>1 DEF At
      <4>3. /\ Cardinality(At("submitted")') = Cardinality(At("submitted")) - 1
            /\ Cardinality(At("done")') = Cardinality(At("done")) + 1
        BY <2>1, <3>5, <4>1, FileMoves
      <4>4. Popped' = Popped /\ Popped \in Nat
        BY <3>5, <4>3 DEF Popped
      <4>5. Bounds'
        BY <2>2, <3>4, <4>2 DEF Bounds
      <4>6. BuffersDistinct'
        <5>1. ASSUME NEW h \in At("submitted")'
              PROVE  /\ \A e \in At("submitted")' \ {h} : buf[e] # buf[h]
                     /\ \A k \in 1 .. Len(q) + 1 : p[k] # buf[h]
          <6>1. h \in At("submitted") /\ h # f
            BY <4>2, <5>1
          <6>2. buf[f] # buf[h]
            BY <3>4, <6>1
          <6>3. ASSUME NEW k \in 1 .. Len(q) + 1
                PROVE  p[k] # buf[h]
            <7>1. CASE k \in 1 .. Len(q)
              BY <3>2, <3>4, <6>1, <7>1
            <7>2. CASE k = Len(q) + 1
              BY <3>2, <6>2, <7>2
            <7> QED
              BY <3>2, <7>1, <7>2
          <6> QED
            BY <3>4, <4>2, <6>1, <6>3
        <5> QED
          BY <2>2, <3>2, <3>3, <5>1 DEF BuffersDistinct
      <4>7. QueueInv'
        <5>1. Len(buffer_index') + Cardinality(At("submitted")') = Indices'
          BY <1>i, <2>2, <3>2, <3>3, <3>4, <3>5, <4>3
        <5>2. Len(buffer_index') + Cardinality(At("submitted")') >= Indices'
          BY <1>i, <2>2, <5>1
        <5>3. ASSUME NEW j \in 1 .. Len(q) + 1, NEW k \in 1 .. Len(q) + 1, p[j] = p[k]
              PROVE  j = k
          <6>1. \A i \in 1 .. Len(q) : p[i] = q[i] /\ q[i] # buf[f]
            BY <3>2, <3>4
          <6> QED
            BY <3>2, <3>4, <5>3, <6>1
        <5>4. ASSUME NEW k \in 1 .. Len(q) + 1, k + Popped <= Indices
              PROVE  p[k] = k - 1 + Popped
          <6>1. Popped = Cardinality(At("submitted")) + Cardinality(At("done"))
            BY DEF Popped
          <6>2. k # Len(q) + 1
            BY <1>i, <3>2, <3>4, <3>5, <5>4, <6>1
          <6>3. k \in 1 .. Len(q)
            BY <3>2, <6>2
          <6> QED
            BY <3>2, <3>4, <5>4, <6>3
        <5> QED
          BY <2>2, <3>2, <3>3, <3>6, <4>4, <5>1, <5>2, <5>3, <5>4 DEF QueueInv
      <4> QED
        BY <4>5, <4>6, <4>7 DEF Buffers
    <3> QED
      BY <3>7, <3>8
  <2> QED
    BY <2>3, <2>4
<1>6. ASSUME NEW c \in Core, CountDown(c)
      PROVE  Buffers'
  BY <1>0, <1>6 DEF CountDown, fileVars
<1>7. ASSUME NEW c \in Core, Claim(c)
      PROVE  Buffers'
  <2>1. UNCHANGED <<optionVars, buf, buffer_index>> /\ status = "running"
    BY <1>7, Claims
  <2>2. CASE head \in File
    <3>1. /\ stage[head] = "idle"
          /\ \A f \in File : stage'[f] = IF f = head THEN "claimed" ELSE stage[f]
      BY <1>7, <2>2, Claims
    <3>2. At("submitted")' = At("submitted") /\ At("done")' = At("done")
      BY <3>1 DEF At
    <3> QED
      BY <2>1, <3>2, BuffersKept
  <2>3. CASE head \notin File
    BY <1>0, <1>7, <2>1, <2>3, Claims
  <2> QED
    BY <2>2, <2>3
<1>8. ASSUME NEW c \in Core, Flushed(c)
      PROVE  Buffers'
  BY <1>0, <1>8, <1>a DEF Flushed, Idle, fileVars
<1>9. ASSUME NEW c \in Core, Clean(c)
      PROVE  Buffers'
  BY <1>0, <1>9 DEF Clean, Idle, fileVars
<1> QED
  BY <1>1, <1>2, <1>3, <1>4, <1>5, <1>6, <1>7, <1>8, <1>9, <1>v DEF Next, Ended
-------------------------------------------------------------------------------
LEMMA InductiveInit == Init => Inductive
<1> SUFFICES ASSUME Init
             PROVE  Inductive
  OBVIOUS
<1>1. TypeOK
  <2>1. Indices \in Nat
    BY DEF Init, Indices
  <2>2. buffer_index \in Seq(Nat) /\ Len(buffer_index) <= Indices
    BY <2>1 DEF Init
  <2>3. 0 \in Core
    BY DEF Core
  <2> QED
    BY <2>2, <2>3 DEF Init, TypeOK, Place
<1>2. /\ \A f \in File : stage[f] = "idle"
      /\ \A c \in Core : /\ starter[c] = "none" /\ cleaner[c] = "none"
                         /\ at[c] = "idle"
      /\ desc = "none" /\ flusher = NoCore /\ flushed = FALSE /\ clean_count = 0
      /\ status = "running"
  BY DEF Init
<1>3. /\ \A s : s # "idle" => At(s) = {}
      /\ Popping = {} /\ Counting = {} /\ Claiming = {} /\ Cleaned = {}
  BY <1>2 DEF At, Popping, Counting, Claiming, Cleaned
<1>4. Cardinality({}) = 0
  BY FS_EmptySet
<1>5. Slots \in 0 .. NumFiles /\ Indices \in Nat /\ NumFiles \in Nat
  BY <1>1, Options, NumFilesType
<1>6. BufferInBounds /\ BuffersDistinct
  BY <1>1, <1>3 DEF BufferInBounds, BuffersDistinct
<1>7. RunInv
  BY <1>2, <1>3 DEF RunInv
<1>8. LoopInv /\ PopInv
  BY <1>2, <1>3 DEF LoopInv, PopInv
<1>9. CountInv
  <2>1. Cardinality(Unstarted) <= Slots /\ Cardinality(Unstarted) \in Nat
    <3>1. Unstarted \in SUBSET (0 .. Slots - 1)
      BY <1>5 DEF Unstarted, File
    <3>2. IsFiniteSet(0 .. Slots - 1) /\ Cardinality(0 .. Slots - 1) = Slots
      BY <1>5, Interval
    <3>3. /\ Cardinality(Unstarted) <= Cardinality(0 .. Slots - 1)
          /\ Cardinality(Unstarted) \in Nat
      <4> DEFINE D == 0 .. Slots - 1
      <4>1. IsFiniteSet(D) /\ Unstarted \in SUBSET D
        BY <3>1, <3>2
      <4> HIDE DEF D
      <4>2. Cardinality(Unstarted) <= Cardinality(D) /\ Cardinality(Unstarted) \in Nat
        BY <4>1, Part
      <4> QED
        BY <4>2 DEF D
    <3> QED
      BY <3>2, <3>3
  <2>2. /\ Cardinality(At("claimed")) = 0 /\ Cardinality(At("submitted")) = 0
        /\ Cardinality(Popping) = 0 /\ Cardinality(Counting) = 0
        /\ Cardinality(Claiming) = 0
    BY <1>3, <1>4
  <2> QED
    BY <1>2, <1>5, <2>1, <2>2 DEF CountInv
<1>10. QueueInv
  <2>1. CASE write
    BY <2>1 DEF QueueInv
  <2>2. CASE ~ write
    <3>1. /\ Len(buffer_index) = Indices
          /\ \A k \in 1 .. Indices : buffer_index[k] = k - 1
          /\ DOMAIN buffer_index = 1 .. Indices
      <4>1. buffer_index = [i \in 1 .. Indices |-> i - 1]
        BY <2>2 DEF Init
      <4>2. DOMAIN buffer_index = 1 .. Indices
        BY <4>1
      <4>3. \A k \in 1 .. Indices : buffer_index[k] = k - 1
        BY <4>1
      <4>4. Len(buffer_index) = Indices
        <5>1. buffer_index \in Seq(Nat)
          BY <1>1 DEF TypeOK
        <5>2. Len(buffer_index) \in Nat /\ DOMAIN buffer_index = 1 .. Len(buffer_index)
          BY <5>1
        <5>3. \A m, n \in Nat : m < n => n \in 1 .. n /\ n \notin 1 .. m
          OBVIOUS
        <5> DEFINE n == Len(buffer_index)
        <5>4. n \in Nat /\ 1 .. n = 1 .. Indices
          BY <4>2, <5>2
        <5> HIDE DEF n
        <5>5. ~ n < Indices /\ ~ Indices < n
          BY <1>5, <5>3, <5>4
        <5>6. n = Indices
          BY <1>5, <5>4, <5>5
        <5> QED
          BY <5>6 DEF n
      <4> QED
        BY <4>2, <4>3, <4>4
    <3>2. Cardinality(At("submitted")) = 0 /\ Popped = 0
      <4>1. At("submitted") = {} /\ At("done") = {}
        BY <1>3
      <4>2. Cardinality(At("submitted")) = 0 /\ Cardinality(At("done")) = 0
        BY <1>4, <4>1
      <4> QED
        BY <4>2 DEF Popped
    <3> QED
      BY <1>5, <3>1, <3>2 DEF QueueInv
  <2> QED
    BY <2>1, <2>2
<1>11. EndInv
  <2>1. ~ Over
    BY <1>2 DEF Over
  <2> QED
    BY <1>2, <1>3, <1>4, <2>1 DEF EndInv
<1> QED
  BY <1>6, <1>7, <1>8, <1>9, <1>10, <1>11 DEF Inductive

LEMMA InductiveStep == Inductive /\ [Next]_vars => Inductive'
<1> SUFFICES ASSUME Inductive, [Next]_vars
             PROVE  Inductive'
  OBVIOUS
<1>1. TypeOK'
  BY TypeStep
<1>2. Buffers'
  BY BuffersStep
<1>3. BufferInBounds'
  BY <1>1, <1>2 DEF BufferInBounds, Buffers, Bounds
<1>4. RunInv' /\ LoopInv' /\ PopInv' /\ CountInv' /\ EndInv'
  BY RunStep, LoopStep, PopStep, CountStep, EndStep
<1> QED
  BY <1>2, <1>3, <1>4 DEF Inductive, Buffers

(* The inductive invariant holds in every reachable state. *)
THEOREM InductiveCorrect == Spec => []Inductive
BY InductiveInit, InductiveStep, PTL DEF Spec

(* No read is given memory past the end of the buffer, although the queue  *)
(* may hold more indices than the buffer has room for.                     *)
THEOREM ReadsStayInBuffer == Spec => []BufferInBounds
<1>1. Inductive => BufferInBounds
  BY DEF Inductive
<1> QED
  BY <1>1, InductiveCorrect, PTL

(* Two reads in flight never share a buffer, nor is the buffer of one in   *)
(* the queue.                                                              *)
THEOREM ReadsHaveOwnBuffers == Spec => []BuffersDistinct
<1>1. Inductive => BuffersDistinct
  BY DEF Inductive
<1> QED
  BY <1>1, InductiveCorrect, PTL

(* read_file_cont never spins: there is an index for every lcore that is   *)
(* about to pop one.                                                       *)
THEOREM PopAlwaysSucceeds == Spec => []PopNeverWaits
<1>1. ASSUME Inductive, ~ write
      PROVE  Cardinality(Popping) <= Len(buffer_index)
  <2>1. TypeOK
    BY <1>1 DEF Inductive, BufferInBounds
  <2>2. /\ Slots \in Nat /\ Indices \in Nat /\ Slots <= Indices
    BY <2>1, Options, NumFilesType
  <2>3. /\ Cardinality(At("claimed")) \in Nat /\ Cardinality(At("submitted")) \in Nat
        /\ Cardinality(Counting) \in Nat /\ Cardinality(Claiming) \in Nat
        /\ Cardinality(Unstarted) \in Nat
    BY Counts
  <2>4. /\ Cardinality(Popping) = Cardinality(At("claimed"))
        /\ Cardinality(At("claimed")) + Cardinality(At("submitted"))
             + Cardinality(Counting) + Cardinality(Claiming)
             + Cardinality(Unstarted) <= Slots
    BY <1>1 DEF Inductive, CountInv
  <2>5. Len(buffer_index) + Cardinality(At("submitted")) >= Indices
    BY <1>1 DEF Inductive, QueueInv
  <2>6. Len(buffer_index) \in Nat
    BY <2>1 DEF TypeOK
  <2> QED
    BY <2>2, <2>3, <2>4, <2>5, <2>6
<1>2. Inductive => PopNeverWaits
  BY <1>1 DEF PopNeverWaits, Popping
<1> QED
  BY <1>2, InductiveCorrect, PTL

(* The flush follows the last file, the channels are freed after the flush *)
(* when no command uses them, and the device is closed after the last.     *)
THEOREM ShutdownIsOrdered == Spec => []ShutdownInOrder
<1>1. ASSUME Inductive
      PROVE  ShutdownInOrder
  <2>1. EndInv /\ RunInv /\ TypeOK
    BY <1>1 DEF Inductive, BufferInBounds
  <2>2. Over => At("done") = File
    BY <1>1, OverDone
  <2>3. flusher # NoCore \/ flushed => At("done") = File
    BY <2>2 DEF Over
  <2>4. \A c \in Core : cleaner[c] # "none" => At("done") = File /\ (flushed <=> flush)
    BY <2>1, <2>2 DEF Over, EndInv
  <2>5. ASSUME NEW f \in At("submitted")
        PROVE  starter[lcore[f]] = "done" /\ cleaner[lcore[f]] = "none"
    <3>1. lcore[f] \in Core /\ starter[lcore[f]] = "done"
      BY <2>1 DEF RunInv, TypeOK, At
    <3>2. At("done") # File
      BY DEF At
    <3> QED
      BY <2>4, <3>1, <3>2
  <2>6. flusher # NoCore => cleaner[flusher] = "none"
    BY <2>1 DEF EndInv, TypeOK
  <2>7. desc = "closed" => \A c \in Used : cleaner[c] = "done" /\ at[c] = "idle"
    BY <2>1 DEF EndInv, Cleaned
  <2> QED
    BY <2>3, <2>4, <2>5, <2>6, <2>7 DEF ShutdownInOrder
<1> QED
  BY <1>1, InductiveCorrect, PTL
-------------------------------------------------------------------------------
Active == At("claimed") \cup At("submitted")
Done == At("done")

LEMMA RefinesInit == Init => T!Init
<1> SUFFICES ASSUME Init
             PROVE  T!Init
  OBVIOUS
<1>1. Active = {} /\ Done = {} /\ Outcome = "running"
  BY DEF Init, Active, Done, At, Outcome
<1>2. T!IsFiniteSet(File)
  BY Sizes DEF T!IsFiniteSet, IsFiniteSet
<1>3. Slots \in Nat
  <2>1. Inductive
    BY InductiveInit
  <2> QED
    BY <2>1, Options, NumFilesType DEF Inductive, BufferInBounds
<1> QED
  BY <1>1, <1>2, <1>3 DEF T!Init, Active, Done

(* The instance brings a copy of Cardinality with it. *)
LEMMA SameCardinality == \A S : T!Cardinality(S) = Cardinality(S)
BY DEF T!Cardinality, Cardinality

(* Never more blocks in flight than the option allows. *)
Fewer == Cardinality(Active) <= Slots

LEMMA FewerActive == Inductive => Fewer
<1> SUFFICES ASSUME Inductive
             PROVE  Cardinality(Active) <= Slots
  BY DEF Fewer
<1>1. /\ Cardinality(At("claimed")) \in Nat /\ Cardinality(At("submitted")) \in Nat
      /\ Cardinality(Counting) \in Nat /\ Cardinality(Claiming) \in Nat
      /\ Cardinality(Unstarted) \in Nat
  BY Counts
<1>2. /\ At("claimed") \in SUBSET File /\ At("submitted") \in SUBSET File
      /\ At("claimed") \cap At("submitted") = {}
  BY DEF At
<1>3. IsFiniteSet(At("claimed")) /\ IsFiniteSet(At("submitted"))
  BY <1>2, Sizes, Part
<1>4. Cardinality(Active) = Cardinality(At("claimed")) + Cardinality(At("submitted"))
                              - Cardinality(At("claimed") \cap At("submitted"))
  BY <1>3, FS_Union DEF Active
<1>5. Cardinality({}) = 0
  BY FS_EmptySet
<1>6. Cardinality(Active) = Cardinality(At("claimed")) + Cardinality(At("submitted"))
  <2>1. Cardinality(At("claimed") \cap At("submitted")) = 0
    BY <1>2, <1>5
  <2> QED
    BY <1>1, <1>4, <2>1
<1>7. Cardinality(At("claimed")) + Cardinality(At("submitted")) + Cardinality(Counting)
        + Cardinality(Claiming) + Cardinality(Unstarted) <= Slots
  BY DEF Inductive, CountInv
<1>8. Slots \in Nat
  BY Options, NumFilesType DEF Inductive, BufferInBounds
<1> QED
  BY <1>1, <1>6, <1>7, <1>8

LEMMA FewerActiveNext == Inductive' => Cardinality(Active') <= Slots'
<1>1. Inductive' => Fewer'
  BY FewerActive, PTL
<1> QED
  BY <1>1 DEF Fewer

(* Blocks of D are done, blocks of S are claimed. *)
LEMMA Advances ==
  ASSUME Inductive', status = "running", status' = status, UNCHANGED optionVars,
         NEW D \in SUBSET Active, NEW S \in SUBSET (File \ (Active \cup Done)),
         Active' = (Active \ D) \cup S, Done' = Done \cup D
  PROVE  T!Next
<1>1. Cardinality(Active') <= Slots
  <2>1. Cardinality(Active') <= Slots'
    BY FewerActiveNext
  <2> QED
    BY <2>1, OptionsKept
<1>2. T!Advance(D, S)
  <2>1. Outcome = "running" /\ Outcome' = Outcome /\ Slots' = Slots
    BY OptionsKept DEF Outcome
  <2> QED
    BY <1>1, <2>1, SameCardinality DEF T!Advance, Active, Done
<1>3. S \in SUBSET T!Waiting
  BY DEF T!Waiting, Active, Done
<1> QED
  BY <1>2, <1>3 DEF T!Next, Active

LEMMA RefinesStep == Inductive /\ [Next]_vars => [T!Next]_T!vars
<1> SUFFICES ASSUME Inductive, [Next]_vars
             PROVE  T!Next \/ UNCHANGED T!vars
  BY DEF T!vars
<1>i. Inductive'
  BY InductiveStep
<1>o. UNCHANGED optionVars => Slots' = Slots
  BY OptionsKept
<1>0. CASE UNCHANGED <<optionVars, status, stage>>
  <2>1. Outcome' = Outcome /\ \A s : At(s)' = At(s)
    BY <1>0 DEF Outcome, At
  <2> QED
    BY <1>0, <1>o, <2>1 DEF T!vars
<1>v. CASE UNCHANGED vars
  BY <1>0, <1>v DEF vars, fileVars
<1>f. CASE UNCHANGED <<optionVars, stage>> /\ status = "running" /\ status' = "aborted"
  <2>1. Outcome = "running" /\ Outcome' = "failed" /\ \A s : At(s)' = At(s)
    BY <1>f DEF Outcome, At
  <2>2. T!Fail
    BY <1>f, <1>o, <2>1 DEF T!Fail
  <2> QED
    BY <2>2 DEF T!Next
<1>a. CASE Abort /\ status = "running"
  BY <1>a, <1>f DEF Abort, fileVars
<1>1. CASE Run
  BY <1>0, <1>1, <1>a DEF Run, Idle
<1>2. ASSUME NEW c \in Core, Start(c)
      PROVE  T!Next \/ UNCHANGED T!vars
  BY <1>0, <1>2, <1>a DEF Start, Idle, fileVars
<1>3. ASSUME NEW c \in Core, Loop(c)
      PROVE  T!Next \/ UNCHANGED T!vars
  <2>1. CASE cur[c] < Slots
    <3>1. /\ UNCHANGED optionVars /\ status = "running" /\ status' = status
          /\ cur[c] \in File /\ stage[cur[c]] = "idle"
          /\ \A f \in File : stage'[f] = IF f = cur[c] THEN "claimed" ELSE stage[f]
      BY <1>3, <2>1, Loops
    <3>2. /\ {} \in SUBSET Active /\ {cur[c]} \in SUBSET (File \ (Active \cup Done))
          /\ Active' = (Active \ {}) \cup {cur[c]} /\ Done' = Done \cup {}
      BY <3>1 DEF Active, Done, At
    <3> QED
      BY <1>i, <3>1, <3>2, Advances
  <2>2. CASE ~ cur[c] < Slots
    BY <1>0, <1>3, <2>2 DEF Loop
  <2> QED
    BY <2>1, <2>2
<1>4. ASSUME NEW c \in Core, Submit(c)
      PROVE  T!Next \/ UNCHANGED T!vars
  <2>1. ASSUME ~ Abort, ~ UNCHANGED vars
        PROVE  UNCHANGED T!vars
    <3>1. /\ UNCHANGED optionVars /\ status' = status
          /\ cur[c] \in File /\ stage[cur[c]] = "claimed"
          /\ \A f \in File : stage'[f] = IF f = cur[c] THEN "submitted" ELSE stage[f]
      BY <1>4, <2>1, Submits
    <3>2. Active' = Active /\ Done' = Done /\ Outcome' = Outcome /\ Slots' = Slots
      BY <1>o, <3>1 DEF Active, Done, At, Outcome
    <3> QED
      BY <3>2 DEF T!vars, Active, Done
  <2> QED
    BY <1>4, <1>a, <1>v, <2>1 DEF Submit
<1>5. ASSUME NEW f \in File, Complete(f)
      PROVE  T!Next \/ UNCHANGED T!vars
  <2>1. CASE UNCHANGED <<stage, at, cur>>
    <3>1. /\ UNCHANGED optionVars /\ status = "running"
          /\ status' = status \/ status' = "aborted"
      BY <1>5 DEF Complete, Idle
    <3> QED
      BY <1>0, <1>f, <2>1, <3>1
  <2>2. CASE ~ UNCHANGED <<stage, at, cur>>
    <3>1. /\ UNCHANGED optionVars /\ status = "running" /\ status' = status
          /\ stage[f] = "submitted"
          /\ \A g \in File : stage'[g] = IF g = f THEN "done" ELSE stage[g]
      BY <1>5, <2>2, Completes
    <3>2. /\ {f} \in SUBSET Active /\ {} \in SUBSET (File \ (Active \cup Done))
          /\ Active' = (Active \ {f}) \cup {} /\ Done' = Done \cup {f}
      BY <3>1 DEF Active, Done, At
    <3> QED
      BY <1>i, <3>1, <3>2, Advances
  <2> QED
    BY <2>1, <2>2
<1>6. ASSUME NEW c \in Core, CountDown(c)
      PROVE  T!Next \/ UNCHANGED T!vars
  <2>1. /\ UNCHANGED <<optionVars, stage>> /\ status = "running"
        /\ status' = status \/ status' = "aborted"
    BY <1>6 DEF CountDown, fileVars
  <2> QED
    BY <1>0, <1>f, <2>1
<1>7. ASSUME NEW c \in Core, Claim(c)
      PROVE  T!Next \/ UNCHANGED T!vars
  <2>1. UNCHANGED optionVars /\ status = "running" /\ status' = status
    BY <1>7, Claims
  <2>2. CASE head \in File
    <3>1. /\ stage[head] = "idle"
          /\ \A f \in File : stage'[f] = IF f = head THEN "claimed" ELSE stage[f]
      BY <1>7, <2>2, Claims
    <3>2. /\ {} \in SUBSET Active /\ {head} \in SUBSET (File \ (Active \cup Done))
          /\ Active' = (Active \ {}) \cup {head} /\ Done' = Done \cup {}
      BY <2>2, <3>1 DEF Active, Done, At
    <3> QED
      BY <1>i, <2>1, <3>2, Advances
  <2>3. CASE head \notin File
    BY <1>0, <1>7, <2>1, <2>3, Claims
  <2> QED
    BY <2>2, <2>3
<1>8. ASSUME NEW c \in Core, Flushed(c)
      PROVE  T!Next \/ UNCHANGED T!vars
  BY <1>0, <1>8, <1>a DEF Flushed, Idle, fileVars
<1>9. ASSUME NEW c \in Core, Clean(c)
      PROVE  T!Next \/ UNCHANGED T!vars
  <2>1. /\ UNCHANGED <<optionVars, stage>> /\ status = "running"
        /\ status' = status \/ status' = "stopped"
    BY <1>9 DEF Clean, Idle, fileVars
  <2>2. Done = File
    <3>1. Over
      BY <1>9 DEF Clean, Over
    <3> QED
      BY <3>1, OverDone DEF Done
  <2>3. Active = {} /\ Active' = {} /\ Done' = Done
    BY <2>1, <2>2 DEF Active, Done, At
  <2>4. CASE status' = "stopped"
    <3>1. Outcome = "running" /\ Outcome' = "reported" /\ Slots' = Slots
      BY <1>o, <2>1, <2>4 DEF Outcome
    <3>2. T!Report
      BY <2>2, <2>3, <3>1 DEF T!Report, T!Waiting, Active, Done
    <3> QED
      BY <3>2 DEF T!Next
  <2> QED
    BY <1>0, <2>1, <2>4
<1> QED
  BY <1>1, <1>2, <1>3, <1>4, <1>5, <1>6, <1>7, <1>8, <1>9, <1>v DEF Next, Ended

(* Every run of any number of lcores transfers each block once, never more *)
(* than the option allows together, and ends when all of them are done.    *)
THEOREM ImplementsTransfer == Spec => TransferSpec
BY RefinesInit, InductiveCorrect, RefinesStep, PTL DEF Spec, TransferSpec, T!Spec
===============================================================================
