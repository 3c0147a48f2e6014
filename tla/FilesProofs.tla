------------------------------ MODULE FilesProofs ------------------------------
(***************************************************************************)
(* Theorems about where the programs have their files from.  TarFile, for  *)
(* archives of any number of members, sizes and names: the reader is       *)
(* always at one of the headers of a member, and what it has listed are    *)
(* the members before that one.  FileList, for every directory, size of a  *)
(* page and content of unwritten memory.                                   *)
(***************************************************************************)
EXTENDS TarFile, FileList, WellFoundedInduction, TLAPS

USE ConstantsOK DEF ConstantsOK

(* The blocks of the first n members, and how many they are.               *)
First(e, n) == [k \in 1 .. n |-> e[k]]
Flat(e, n) == FlattenSeq(First(e, n))
AllEntries == [n \in DOMAIN members |-> Entries(n, members[n])]
Laid(n) == Flat(AllEntries, n)
End(n) == Len(Laid(n))

(* The blocks of member n: those of a long target, a long name, and its    *)
(* own; At(n, part) are the blocks before that part.                       *)
Long(s) == IF s = 0 THEN 0 ELSE 1 + Blocks(s)
At(n, part) ==
  CASE part = "target" -> End(n - 1)
    [] part = "name" -> End(n - 1) + Long(members[n].target)
    [] OTHER -> End(n - 1) + Long(members[n].target) + Long(members[n].name)

HasPart(n, part) ==
  /\ part \in {"target", "name", "member"}
  /\ part = "target" => members[n].target # 0
  /\ part = "name" => members[n].name # 0

ParsedHeader ==
  [type : {"regular", "directory", "link", "long_name", "long_link"},
   size : Nat, name : Int, offset : Nat]
AllListed == [n \in DOMAIN members |-> Listed(Written[n])]

(* The reader is at a header of member n, and has listed those before it.  *)
Before(n, part) ==
  /\ HasPart(n, part)
  /\ offset = At(n, part) * BlockSize
  /\ headers \in Seq(ParsedHeader)
  /\ Files(headers) = Flat(AllListed, n - 1)
  /\ \A k \in 1 .. n - 1 : members[k].kind.readable
  /\ AfterLongName <=> part = "member" /\ members[n].name # 0
  /\ AfterLongName => prev.offset = (At(n, "name") + 1) * BlockSize

Arrived == \E n \in DOMAIN members : \E part \in {"target", "name", "member"} : Before(n, part)
Listing == Readable /\ Files(headers) = Files(Written)

WholeArchive ==
  /\ members \in Seq(Member)
  /\ lost \in Nat /\ mapped = SubSeq(Archive, 1, Len(Archive) - lost)

(* With a member there, only a failed mmap makes the reader crash, and it  *)
(* does so surely.                                                         *)
Crashed ==
  /\ status = "loading" => mapping = "none"
  /\ status = "crashed" => mapping = "failed"
  /\ mapping = "failed" => status \in {"parsing", "crashed"}

Inductive ==
  /\ WholeArchive
  /\ Complete =>
       /\ status \in {"loading", "parsing"} /\ (status = "loading" \/ members = <<>>) =>
            offset = 0 /\ headers = <<>>
       /\ status = "parsing" /\ members # <<>> => Arrived
       /\ status = "parsed" => Listing
       /\ status = "failed" => ~ Readable
       /\ members # <<>> => Crashed
       /\ status \in {"loading", "parsing", "parsed", "failed", "refused", "crashed"}

-------------------------------------------------------------------------------
(* Numbers: a set of them has a least member, and one that holds 0 and     *)
(* every successor of its members holds all.                               *)
LEMMA LeastOf ==
  ASSUME NEW T \in SUBSET Nat, T # {}
  PROVE  \E x \in T : \A y \in T : x <= y
<1> DEFINE R == OpToRel(<, Nat)
<1>1. IsWellFoundedOn(R, Nat)
  BY NatLessThanWellFounded
<1>2. \A x, y \in Nat : y < x => <<y, x>> \in R
  BY DEF OpToRel
<1> HIDE DEF R
<1>3. PICK x \in T : \A y \in T : ~ (<<y, x>> \in R)
  BY <1>1, WFMin
<1>4. x \in Nat /\ \A y \in T : y \in Nat
  OBVIOUS
<1>5. ASSUME NEW y \in T PROVE x <= y
  <2>1. y \in Nat /\ ~ (y < x)
    BY <1>2, <1>3, <1>4
  <2> QED
    BY <2>1, <1>4
<1> QED
  BY <1>5

(* Induction on the numbers.                                               *)
LEMMA Induct ==
  ASSUME NEW S, 0 \in S, \A n \in Nat : n \in S => n + 1 \in S
  PROVE  Nat \subseteq S
<1> DEFINE T == Nat \ S
<1> SUFFICES ASSUME T # {} PROVE FALSE
  OBVIOUS
<1>1. PICK x \in T : \A y \in T : x <= y
  BY LeastOf
<1>2. x # 0 /\ x \in Nat /\ x - 1 \in Nat
  OBVIOUS
<1>3. x - 1 \in S
  BY <1>1, <1>2
<1> QED
  BY <1>2, <1>3

-------------------------------------------------------------------------------
(* Flattened sequences.  What FlattenSeq computes is the last of the       *)
(* prefixes, each of which is the one before it and one sequence more.     *)
Grows(e, n, f) ==
  f = [i \in 1 .. n |-> IF i = 1 THEN First(e, n)[i] ELSE f[i - 1] \o First(e, n)[i]]

(* What the prefixes are.                                                  *)
LEMMA GrowsIs ==
  ASSUME NEW e, NEW n \in Nat, NEW f, Grows(e, n, f)
  PROVE  \A i \in 1 .. n : f[i] = IF i = 1 THEN e[i] ELSE f[i - 1] \o e[i]
<1>1. \A i \in 1 .. n : First(e, n)[i] = e[i]
  BY DEF First
<1>2. \A i \in 1 .. n : f[i] = IF i = 1 THEN First(e, n)[i] ELSE f[i - 1] \o First(e, n)[i]
  BY DEF Grows
<1> QED
  BY <1>1, <1>2

(* The recursive definition of the prefixes has a value.                   *)
LEMMA GrowsExists ==
  ASSUME NEW e, NEW n \in Nat
  PROVE  \E f : Grows(e, n, f)
<1> DEFINE S == {m \in Nat : \E f : Grows(e, m, f)}
<1>1. 0 \in S
  <2>1. Grows(e, 0, [i \in 1 .. 0 |-> <<>>])
    BY DEF Grows
  <2> QED
    BY <2>1
<1>2. ASSUME NEW m \in Nat, m \in S PROVE m + 1 \in S
  <2>1. PICK f : Grows(e, m, f)
    BY <1>2
  <2> DEFINE g == [i \in 1 .. m + 1 |->
                     IF i = 1 THEN e[i] ELSE IF i = m + 1 THEN f[m] \o e[i] ELSE f[i - 1] \o e[i]]
  <2>2. \A i \in 1 .. m : f[i] = IF i = 1 THEN e[i] ELSE f[i - 1] \o e[i]
    BY <2>1, GrowsIs
  <2>3. \A i \in 1 .. m : g[i] = f[i]
    BY <2>2
  <2>4. \A i \in 1 .. m + 1 : g[i] = IF i = 1 THEN e[i] ELSE g[i - 1] \o e[i]
    <3>1. ASSUME NEW i \in 1 .. m + 1, i # 1, i = m + 1 PROVE g[i] = g[i - 1] \o e[i]
      <4>1. i - 1 = m /\ m \in 1 .. m
        BY <3>1
      <4> QED
        BY <2>3, <3>1, <4>1
    <3>2. ASSUME NEW i \in 1 .. m + 1, i # 1, i # m + 1 PROVE g[i] = g[i - 1] \o e[i]
      <4>1. i - 1 \in 1 .. m
        BY <3>2
      <4> QED
        BY <2>3, <3>2, <4>1
    <3> QED
      BY <3>1, <3>2
  <2>5. g = [i \in 1 .. m + 1 |-> g[i]]
    OBVIOUS
  <2>6. \A i \in 1 .. m + 1 : First(e, m + 1)[i] = e[i]
    BY DEF First
  <2> HIDE DEF g
  <2> DEFINE R(i) == IF i = 1 THEN First(e, m + 1)[i] ELSE g[i - 1] \o First(e, m + 1)[i]
  <2>7. \A i \in 1 .. m + 1 : g[i] = R(i)
    BY <2>4, <2>6
  <2> HIDE DEF R
  <2>8. g = [i \in 1 .. m + 1 |-> R(i)]
    BY <2>5, <2>7
  <2> QED
    <3>1. Grows(e, m + 1, g)
      BY <2>8, Zenon DEF Grows, R
    <3> QED
      BY <3>1
<1>3. Nat \subseteq S
  <2> HIDE DEF S
  <2> QED
    BY <1>1, <1>2, Induct
<1> QED
  BY <1>3

(* FlattenSeq gives the last of them.                                      *)
LEMMA FlatIsLast ==
  ASSUME NEW e, NEW n \in Nat \ {0}
  PROVE  \E f : Grows(e, n, f) /\ Flat(e, n) = f[n]
<1> DEFINE q == First(e, n)
           f == CHOOSE f : Grows(e, n, f)
<1>1. Len(q) = n
  BY DEF First
<1>2. Grows(e, n, f)
  BY GrowsExists
<1> HIDE DEF q
<1>3. FlattenSeq(q) =
        (CHOOSE h : h = [i \in 1 .. Len(q) |-> IF i = 1 THEN q[i] ELSE h[i - 1] \o q[i]])[Len(q)]
  BY <1>1 DEF FlattenSeq
<1>4. FlattenSeq(q) = f[n]
  BY <1>1, <1>3 DEF Grows, q
<1> QED
  BY <1>2, <1>4 DEF Flat, q

(* The prefixes of a longer sequence begin with those of a shorter one.    *)
LEMMA GrowsAlike ==
  ASSUME NEW e, NEW n \in Nat, NEW f, Grows(e, n, f), NEW g, Grows(e, n + 1, g)
  PROVE  \A k \in 1 .. n : f[k] = g[k]
<1>1. \A i \in 1 .. n : f[i] = IF i = 1 THEN e[i] ELSE f[i - 1] \o e[i]
  BY GrowsIs
<1>2. \A i \in 1 .. n + 1 : g[i] = IF i = 1 THEN e[i] ELSE g[i - 1] \o e[i]
  BY GrowsIs
<1> DEFINE S == {k \in Nat : k \in 1 .. n => f[k] = g[k]}
<1>3. 0 \in S
  OBVIOUS
<1>4. ASSUME NEW k \in Nat, k \in S PROVE k + 1 \in S
  <2> SUFFICES ASSUME k + 1 \in 1 .. n PROVE f[k + 1] = g[k + 1]
    OBVIOUS
  <2>1. k + 1 \in 1 .. n + 1 /\ (k + 1) - 1 = k
    OBVIOUS
  <2>2. CASE k = 0
    BY <1>1, <1>2, <2>1, <2>2
  <2>3. CASE k # 0
    <3>1. f[k] = g[k] /\ k + 1 # 1
      BY <1>4, <2>3
    <3> QED
      BY <1>1, <1>2, <2>1, <3>1
  <2> QED
    BY <2>2, <2>3
<1>5. Nat \subseteq S
  <2> HIDE DEF S
  <2> QED
    BY <1>3, <1>4, Induct
<1> QED
  BY <1>5

(* Nothing in, nothing out.                                                *)
LEMMA FlatEmpty ==
  ASSUME NEW e
  PROVE  Flat(e, 0) = <<>>
<1>1. First(e, 0) = <<>>
  BY DEF First
<1> QED
  BY <1>1 DEF Flat, FlattenSeq

(* One sequence more is appended to what the others gave.                  *)
LEMMA FlatNext ==
  ASSUME NEW S, NEW e, NEW n \in Nat, e[n + 1] \in Seq(S)
  PROVE  Flat(e, n + 1) = Flat(e, n) \o e[n + 1]
<1>1. PICK g : Grows(e, n + 1, g) /\ Flat(e, n + 1) = g[n + 1]
  BY FlatIsLast
<1>2. \A i \in 1 .. n + 1 : g[i] = IF i = 1 THEN e[i] ELSE g[i - 1] \o e[i]
  BY <1>1, GrowsIs
<1>3. CASE n = 0
  <2>1. g[n + 1] = e[n + 1]
    BY <1>2, <1>3
  <2>2. Flat(e, n) = <<>>
    BY <1>3, FlatEmpty
  <2> QED
    BY <1>1, <2>1, <2>2
<1>4. CASE n # 0
  <2>1. PICK f : Grows(e, n, f) /\ Flat(e, n) = f[n]
    BY <1>4, FlatIsLast
  <2>2. f[n] = g[n]
    <3>1. \A k \in 1 .. n : f[k] = g[k]
      BY <1>1, <2>1, GrowsAlike
    <3> QED
      BY <1>4, <3>1
  <2>3. g[n + 1] = g[n] \o e[n + 1]
    <3>1. n + 1 \in 1 .. n + 1 /\ n + 1 # 1 /\ (n + 1) - 1 = n
      BY <1>4
    <3> QED
      BY <1>2, <3>1
  <2> QED
    BY <1>1, <2>1, <2>2, <2>3
<1> QED
  BY <1>3, <1>4

(* Sequences over S are flattened to sequences over S.                     *)
LEMMA FlatSeq ==
  ASSUME NEW S, NEW e, NEW n \in Nat, \A k \in 1 .. n : e[k] \in Seq(S)
  PROVE  \A k \in 0 .. n : Flat(e, k) \in Seq(S)
<1> DEFINE T == {k \in Nat : k \in 0 .. n => Flat(e, k) \in Seq(S)}
<1>1. 0 \in T
  <2>1. Flat(e, 0) = <<>>
    BY FlatEmpty
  <2>2. <<>> \in Seq(S)
    OBVIOUS
  <2> QED
    BY <2>1, <2>2
<1>2. ASSUME NEW k \in Nat, k \in T PROVE k + 1 \in T
  <2> SUFFICES ASSUME k + 1 \in 0 .. n PROVE Flat(e, k + 1) \in Seq(S)
    OBVIOUS
  <2>1. e[k + 1] \in Seq(S) /\ Flat(e, k) \in Seq(S)
    BY <1>2
  <2>2. Flat(e, k + 1) = Flat(e, k) \o e[k + 1]
    BY <2>1, FlatNext
  <2>3. \A u, v \in Seq(S) : u \o v \in Seq(S)
    OBVIOUS
  <2> HIDE DEF T
  <2> QED
    BY <2>1, <2>2, <2>3
<1>3. Nat \subseteq T
  <2> HIDE DEF T
  <2> QED
    BY <1>1, <1>2, Induct
<1> QED
  BY <1>3

(* Every prefix is the beginning of the later ones.                        *)
Begins(u, v) == Len(u) <= Len(v) /\ \A k \in 1 .. Len(u) : v[k] = u[k]

(* What is appended does not disturb the beginning.                        *)
LEMMA BeginsConcat ==
  ASSUME NEW S, NEW u \in Seq(S), NEW v \in Seq(S), NEW w \in Seq(S), Begins(u, v)
  PROVE  Begins(u, v \o w)
<1>1. Len(v \o w) = Len(v) + Len(w) /\ Len(u) \in Nat /\ Len(v) \in Nat /\ Len(w) \in Nat
  OBVIOUS
<1>2. \A k \in 1 .. Len(v) : (v \o w)[k] = v[k]
  OBVIOUS
<1> QED
  BY <1>1, <1>2 DEF Begins

(* What the first k sequences gave is the beginning of what more give.     *)
LEMMA FlatBegins ==
  ASSUME NEW S, NEW e, NEW n \in Nat, \A k \in 1 .. n : e[k] \in Seq(S), NEW k \in 0 .. n
  PROVE  \A j \in k .. n : Begins(Flat(e, k), Flat(e, j))
<1>1. \A j \in 0 .. n : Flat(e, j) \in Seq(S)
  BY FlatSeq
<1> DEFINE T == {d \in Nat : k + d <= n => Begins(Flat(e, k), Flat(e, k + d))}
<1>2. 0 \in T
  <2>1. k + 0 = k /\ Begins(Flat(e, k), Flat(e, k))
    BY <1>1 DEF Begins
  <2> QED
    BY <2>1
<1>3. ASSUME NEW d \in Nat, d \in T PROVE d + 1 \in T
  <2> SUFFICES ASSUME k + (d + 1) <= n PROVE Begins(Flat(e, k), Flat(e, k + (d + 1)))
    OBVIOUS
  <2> DEFINE m == k + d
  <2>1. m \in Nat /\ m + 1 \in 1 .. n /\ m \in 0 .. n /\ k + (d + 1) = m + 1
    OBVIOUS
  <2>2. Begins(Flat(e, k), Flat(e, m))
    BY <1>3, <2>1
  <2> HIDE DEF m
  <2>3. e[m + 1] \in Seq(S)
    BY <2>1
  <2>4. Flat(e, m + 1) = Flat(e, m) \o e[m + 1]
    BY <2>1, <2>3, FlatNext
  <2>5. Flat(e, k) \in Seq(S) /\ Flat(e, m) \in Seq(S)
    BY <1>1, <2>1
  <2>6. Begins(Flat(e, k), Flat(e, m) \o e[m + 1])
    BY <2>2, <2>3, <2>5, BeginsConcat
  <2> QED
    BY <2>1, <2>4, <2>6
<1>4. Nat \subseteq T
  <2> HIDE DEF T
  <2> QED
    BY <1>2, <1>3, Induct
<1>5. ASSUME NEW j \in k .. n PROVE Begins(Flat(e, k), Flat(e, j))
  <2>1. j - k \in Nat /\ k + (j - k) = j /\ j <= n
    OBVIOUS
  <2>2. j - k \in T
    BY <1>4, <2>1
  <2> QED
    BY <2>1, <2>2
<1> QED
  BY <1>5

-------------------------------------------------------------------------------
(* Blocks.                                                                 *)
Types == {"regular", "global", "directory", "link", "long_name", "long_link"}
Block ==
  [kind : {"header"}, type : Types, size : Nat, name : Int, readable : BOOLEAN]
    \cup [kind : {"data"}, text : Nat] \cup [kind : {"zero"}]

(* The parser rounds up to blocks as the writer does.                      *)
LEMMA BlocksIs ==
  ASSUME NEW s \in Nat
  PROVE  /\ Blocks(s) \in Nat /\ (s # 0 => Blocks(s) >= 1)
         /\ (s + BlockSize - 1) \div BlockSize = Blocks(s)
<1> DEFINE B == BlockSize
           q == s \div B
           r == s % B
<1>1. B \in Nat \ {0} /\ q \in Nat /\ r \in 0 .. B - 1 /\ s = B * q + r
  OBVIOUS
<1>2. \A j \in Nat, i \in 0 .. B - 1 : (B * j + i) \div B = j
  OBVIOUS
<1>3. Blocks(s) = q + (IF r = 0 THEN 0 ELSE 1)
  BY DEF Blocks
<1>4. s + BlockSize - 1 = B * q + r + B - 1
  BY <1>1
<1> HIDE DEF B, q, r
<1>5. CASE r = 0
  <2>1. s + BlockSize - 1 = B * q + (B - 1) /\ B - 1 \in 0 .. B - 1
    BY <1>1, <1>4, <1>5
  <2>2. (s + BlockSize - 1) \div B = q
    BY <1>1, <1>2, <2>1
  <2>3. s # 0 => q >= 1
    <3>1. q = 0 => B * q = 0
      BY <1>1
    <3> QED
      BY <1>1, <1>5, <3>1
  <2> QED
    BY <1>1, <1>3, <1>5, <2>2, <2>3 DEF B
<1>6. CASE r # 0
  <2>1. s + BlockSize - 1 = B * (q + 1) + (r - 1) /\ r - 1 \in 0 .. B - 1 /\ q + 1 \in Nat
    <3>1. B * (q + 1) = B * q + B /\ B * q \in Nat
      BY <1>1
    <3> QED
      BY <1>1, <1>4, <1>6, <3>1
  <2>2. (s + BlockSize - 1) \div B = q + 1
    BY <1>1, <1>2, <2>1
  <2> QED
    BY <1>1, <1>3, <1>6, <2>2 DEF B
<1> QED
  BY <1>5, <1>6

(* Offsets and the numbers of the blocks they are those of.                *)
LEMMA Offsets ==
  ASSUME NEW q \in Nat, NEW p \in Nat
  PROVE  /\ (q * BlockSize) \div BlockSize = q
         /\ q * BlockSize < p * BlockSize <=> q < p
         /\ q * BlockSize + BlockSize = (q + 1) * BlockSize
         /\ q * BlockSize < p * BlockSize - BlockSize <=> q + 1 < p
         /\ q * BlockSize \in Nat /\ (q * BlockSize = 0 <=> q = 0)
<1> DEFINE B == BlockSize
<1>1. B \in Nat \ {0}
  OBVIOUS
<1>2. (q * B) \div B = q
  OBVIOUS
<1>3. \A i, j \in Nat : i < j => (i + 1) * B <= j * B
  OBVIOUS
<1>4. \A i \in Nat : (i + 1) * B = i * B + B /\ i * B \in Nat
  OBVIOUS
<1> HIDE DEF B
<1>5. \A i, j \in Nat : i * B < j * B <=> i < j
  <2> SUFFICES ASSUME NEW i \in Nat, NEW j \in Nat PROVE i * B < j * B <=> i < j
    OBVIOUS
  <2>1. i < j => i * B < j * B
    BY <1>1, <1>3, <1>4
  <2>2. j < i => j * B < i * B
    BY <1>1, <1>3, <1>4
  <2>3. i * B \in Nat /\ j * B \in Nat
    BY <1>4
  <2> QED
    BY <2>1, <2>2, <2>3
<1>6. q * B < p * B - B <=> q + 1 < p
  <2>1. q * B < p * B - B <=> (q + 1) * B < p * B
    BY <1>1, <1>4
  <2> QED
    BY <1>5, <2>1
<1>7. q * B = 0 <=> q = 0
  BY <1>1, <1>4, <1>5
<1> QED
  BY <1>2, <1>4, <1>5, <1>6, <1>7 DEF B

(* The kinds of members: only regular files have a slash, and no content;  *)
(* and only they and the global headers have content.                      *)
KindOK(k) ==
  /\ k.type \in {"regular", "global", "directory", "link"}
  /\ k.size \in Nat /\ k.slash \in BOOLEAN /\ k.readable \in BOOLEAN
  /\ k.slash => k.size = 0
  /\ k.type \in {"directory", "link"} => k.size = 0

(* This is so of every kind there is.                                      *)
LEMMA KindIs ==
  ASSUME NEW k \in Kinds
  PROVE  KindOK(k)
<1>1. CASE k \in [type : {"regular", "global"}, size : Sizes, slash : {FALSE}, readable : {TRUE}]
  BY <1>1 DEF KindOK
<1>2. CASE k \in [type : {"regular"}, size : {0}, slash : {TRUE}, readable : {TRUE}]
  <2>1. k.type = "regular" /\ k.size = 0 /\ k.slash \in BOOLEAN /\ k.readable \in BOOLEAN
    BY <1>2
  <2> QED
    BY <2>1 DEF KindOK
<1>3. CASE k \in [type : {"directory", "link"}, size : {0}, slash : {FALSE}, readable : {TRUE}]
  <2>1. k.type \in {"directory", "link"} /\ k.size = 0 /\ k.slash \in BOOLEAN /\ k.readable \in BOOLEAN
    BY <1>3
  <2> QED
    BY <2>1 DEF KindOK
<1>4. CASE k \in [type : {"regular"}, size : {0}, slash : {FALSE}, readable : {FALSE}]
  <2>1. k.type = "regular" /\ k.size = 0 /\ k.slash \in BOOLEAN /\ k.readable \in BOOLEAN
    BY <1>4
  <2> QED
    BY <2>1 DEF KindOK
<1> QED
  BY <1>1, <1>2, <1>3, <1>4 DEF Kinds

(* The fields of a member.                                                 *)
LEMMA MemberIs ==
  ASSUME NEW m \in Member
  PROVE  m.kind \in Kinds /\ m.name \in Nat /\ m.target \in Nat
BY DEF Member

(* The headers of member n, and the block with its name.                   *)
HeaderOf(type, s, name, readable) ==
  [kind |-> "header", type |-> type, size |-> s, name |-> name, readable |-> readable]
TextOf(n) == [kind |-> "data", text |-> n]
LongHeader(type, s) == HeaderOf(type, s, LongLink, TRUE)
MemberHeader(n, m) ==
  HeaderOf(m.kind.type, m.kind.size, IF m.name # 0 THEN Cut ELSE n, m.kind.readable)

(* An entry, and what is there of a long name or target.                   *)
IsEntry(e, h, s, n) ==
  /\ e \in Seq(Block) /\ Len(e) = 1 + Blocks(s) /\ Blocks(s) \in Nat
  /\ e[1] = h
  /\ s # 0 => Blocks(s) >= 1 /\ e[2] = TextOf(n)

(* Entry writes such an entry.                                             *)
LEMMA EntryIs ==
  ASSUME NEW type \in Types, NEW s \in Nat, NEW name \in Int, NEW text \in Nat,
         NEW readable \in BOOLEAN
  PROVE  IsEntry(Entry(type, s, name, text, readable), HeaderOf(type, s, name, readable), s, text)
<1> DEFINE h == HeaderOf(type, s, name, readable)
           x == TextOf(text)
           d == [k \in 1 .. Blocks(s) |-> x]
<1>1. Blocks(s) \in Nat /\ (s # 0 => Blocks(s) >= 1)
  BY BlocksIs
<1>2. h \in Block /\ x \in Block
  BY DEF Block, HeaderOf, TextOf
<1>3. Entry(type, s, name, text, readable) = <<h>> \o d
  BY DEF Entry, HeaderOf, TextOf
<1> HIDE DEF h, x
<1>4. d \in Seq(Block) /\ Len(d) = Blocks(s) /\ (s # 0 => d[1] = x)
  BY <1>1, <1>2
<1> HIDE DEF d
<1>5. <<h>> \in Seq(Block) /\ Len(<<h>>) = 1 /\ <<h>>[1] = h
  BY <1>2
<1>6. /\ <<h>> \o d \in Seq(Block) /\ Len(<<h>> \o d) = 1 + Len(d)
      /\ (<<h>> \o d)[1] = h /\ (Len(d) >= 1 => (<<h>> \o d)[2] = d[1])
  BY <1>4, <1>5
<1> QED
  BY <1>1, <1>3, <1>4, <1>6 DEF IsEntry, h, x

LongPart(type, s, n) == IF s = 0 THEN <<>> ELSE Entry(type, s, LongLink, n, TRUE)
IsLongPart(e, h, s, n) ==
  /\ e \in Seq(Block) /\ Len(e) = Long(s) /\ Long(s) \in Nat
  /\ s # 0 => Long(s) >= 2 /\ e[1] = h /\ e[2] = TextOf(n)

(* So does the part of a long name or target, if there is one.             *)
LEMMA LongPartIs ==
  ASSUME NEW type \in Types, NEW s \in Nat, NEW n \in Nat
  PROVE  IsLongPart(LongPart(type, s, n), LongHeader(type, s), s, n)
<1>1. CASE s = 0
  BY <1>1 DEF IsLongPart, LongPart, Long
<1>2. CASE s # 0
  <2>1. LongLink \in Int /\ TRUE \in BOOLEAN
    BY DEF LongLink
  <2>2. IsEntry(Entry(type, s, LongLink, n, TRUE), LongHeader(type, s), s, n)
    BY <2>1, EntryIs DEF LongHeader
  <2>3. LongPart(type, s, n) = Entry(type, s, LongLink, n, TRUE) /\ Long(s) = 1 + Blocks(s)
    BY <1>2 DEF LongPart, Long
  <2> QED
    <3> DEFINE e == Entry(type, s, LongLink, n, TRUE)
    <3>1. e \in Seq(Block) /\ Len(e) = 1 + Blocks(s) /\ Blocks(s) \in Nat
          /\ e[1] = LongHeader(type, s) /\ Blocks(s) >= 1 /\ e[2] = TextOf(n)
      BY <1>2, <2>2 DEF IsEntry
    <3>2. LongPart(type, s, n) = e
      BY <2>3
    <3> HIDE DEF e
    <3>3. Len(e) = Long(s) /\ Long(s) \in Nat /\ Long(s) >= 2
      BY <2>3, <3>1
    <3>4. IsLongPart(e, LongHeader(type, s), s, n)
      BY <3>1, <3>3 DEF IsLongPart
    <3> QED
      BY <3>2, <3>4
<1> QED
  BY <1>1, <1>2

(* One sequence after another.                                             *)
IsConcat(r, a, b) ==
  /\ Len(r) = Len(a) + Len(b) /\ Len(a) \in Nat /\ Len(b) \in Nat
  /\ \A k \in 1 .. Len(a) : r[k] = a[k]
  /\ \A k \in 1 .. Len(b) : r[Len(a) + k] = b[k]

(* What \o makes is one after another.                                     *)
LEMMA Concat ==
  ASSUME NEW S, NEW a \in Seq(S), NEW b \in Seq(S)
  PROVE  a \o b \in Seq(S) /\ IsConcat(a \o b, a, b)
BY DEF IsConcat

(* What a member is in the archive.                                        *)
EntriesOK(e, n, m) ==
  LET t == Long(m.target)
      l == Long(m.name)
  IN  /\ e \in Seq(Block) /\ t \in Nat /\ l \in Nat /\ Blocks(m.kind.size) \in Nat
      /\ Len(e) = t + l + 1 + Blocks(m.kind.size)
      /\ m.target # 0 => e[1] = LongHeader("long_link", m.target) /\ t >= 2
      /\ m.name # 0 => /\ e[t + 1] = LongHeader("long_name", m.name) /\ l >= 2
                       /\ e[t + 2] = TextOf(n)
      /\ e[t + l + 1] = MemberHeader(n, m)

(* GNU tar writes a member so.                                             *)
LEMMA EntriesAre ==
  ASSUME NEW n \in Nat, NEW m \in Member
  PROVE  EntriesOK(Entries(n, m), n, m)
<1> DEFINE a == LongPart("long_link", m.target, n)
           b == LongPart("long_name", m.name, n)
           s == m.kind.size
           name == IF m.name # 0 THEN Cut ELSE n
           c == Entry(m.kind.type, s, name, n, m.kind.readable)
           u == a \o b
           e == u \o c
<1>1. m.name \in Nat /\ m.target \in Nat /\ m.kind \in Kinds
  BY MemberIs
<1>2. m.kind.type \in Types /\ s \in Nat /\ m.kind.readable \in BOOLEAN
  <2>1. KindOK(m.kind)
    BY <1>1, KindIs
  <2> QED
    BY <2>1 DEF KindOK, Types
<1>3. name \in Int
  BY DEF Cut
<1>4. IsLongPart(a, LongHeader("long_link", m.target), m.target, n)
  <2>1. "long_link" \in Types
    BY DEF Types
  <2> QED
    BY <1>1, <2>1, LongPartIs
<1>5. IsLongPart(b, LongHeader("long_name", m.name), m.name, n)
  <2>1. "long_name" \in Types
    BY DEF Types
  <2> QED
    BY <1>1, <2>1, LongPartIs
<1>6. IsEntry(c, MemberHeader(n, m), s, n)
  <2> HIDE DEF name
  <2>1. IsEntry(c, HeaderOf(m.kind.type, s, name, m.kind.readable), s, n)
    BY <1>2, <1>3, EntryIs
  <2> QED
    BY <2>1 DEF MemberHeader, name
<1>7. Entries(n, m) = e
  BY DEF Entries, LongPart
<1> HIDE DEF a, b, c, s
<1>8. a \in Seq(Block) /\ b \in Seq(Block) /\ c \in Seq(Block)
  BY <1>4, <1>5, <1>6 DEF IsLongPart, IsEntry
<1>9. u \in Seq(Block) /\ IsConcat(u, a, b)
  BY <1>8, Concat
<1> HIDE DEF u
<1>10. e \in Seq(Block) /\ IsConcat(e, u, c)
  BY <1>8, <1>9, Concat
<1> HIDE DEF e
<1> DEFINE t == Long(m.target)
           l == Long(m.name)
<1>11. t \in Nat /\ l \in Nat /\ Len(a) = t /\ Len(b) = l /\ Len(u) = t + l
  BY <1>4, <1>5, <1>9 DEF IsLongPart, IsConcat
<1>12. Len(c) = 1 + Blocks(s) /\ Blocks(s) \in Nat /\ c[1] = MemberHeader(n, m)
  BY <1>6 DEF IsEntry
<1> HIDE DEF t, l
<1>13. Len(e) = t + l + 1 + Blocks(s)
  BY <1>10, <1>11, <1>12 DEF IsConcat
<1>14. m.target # 0 => e[1] = LongHeader("long_link", m.target) /\ t >= 2
  <2> SUFFICES ASSUME m.target # 0 PROVE e[1] = LongHeader("long_link", m.target) /\ t >= 2
    OBVIOUS
  <2>1. t >= 2 /\ a[1] = LongHeader("long_link", m.target)
    BY <1>4 DEF IsLongPart, t
  <2>2. u[1] = a[1]
    BY <1>9, <1>11, <2>1 DEF IsConcat
  <2>3. e[1] = u[1]
    BY <1>10, <1>11, <2>1 DEF IsConcat
  <2> QED
    BY <2>1, <2>2, <2>3
<1>15. m.name # 0 => /\ e[t + 1] = LongHeader("long_name", m.name) /\ l >= 2
                     /\ e[t + 2] = TextOf(n)
  <2> SUFFICES ASSUME m.name # 0
               PROVE  /\ e[t + 1] = LongHeader("long_name", m.name) /\ l >= 2
                      /\ e[t + 2] = TextOf(n)
    OBVIOUS
  <2>1. l >= 2 /\ b[1] = LongHeader("long_name", m.name) /\ b[2] = TextOf(n)
    BY <1>5 DEF IsLongPart, l
  <2>2. u[t + 1] = b[1] /\ u[t + 2] = b[2]
    BY <1>9, <1>11, <2>1 DEF IsConcat
  <2>3. e[t + 1] = u[t + 1] /\ e[t + 2] = u[t + 2]
    BY <1>10, <1>11, <2>1 DEF IsConcat
  <2> QED
    BY <2>1, <2>2, <2>3
<1>16. e[t + l + 1] = MemberHeader(n, m)
  BY <1>10, <1>11, <1>12 DEF IsConcat
<1> QED
  BY <1>7, <1>10, <1>11, <1>12, <1>13, <1>14, <1>15, <1>16 DEF EntriesOK, t, l, s

-------------------------------------------------------------------------------
(* Where the blocks of a member are.                                       *)
LEMMA AllEntriesAre ==
  ASSUME members \in Seq(Member), NEW n \in DOMAIN members
  PROVE  /\ n \in Nat /\ n >= 1 /\ n <= Len(members) /\ members[n] \in Member
         /\ AllEntries[n] = Entries(n, members[n])
         /\ EntriesOK(AllEntries[n], n, members[n])
<1>1. n \in Nat /\ n >= 1 /\ n <= Len(members) /\ members[n] \in Member
  OBVIOUS
<1>2. AllEntries[n] = Entries(n, members[n])
  BY DEF AllEntries
<1>3. EntriesOK(Entries(n, members[n]), n, members[n])
  BY <1>1, EntriesAre
<1> QED
  BY <1>1, <1>2, <1>3

(* All members are written as sequences of blocks.                         *)
LEMMA AllAreSeqs ==
  ASSUME members \in Seq(Member)
  PROVE  /\ DOMAIN members = 1 .. Len(members) /\ Len(members) \in Nat
         /\ \A k \in 1 .. Len(members) : AllEntries[k] \in Seq(Block)
<1>1. DOMAIN members = 1 .. Len(members) /\ Len(members) \in Nat
  OBVIOUS
<1>2. ASSUME NEW k \in 1 .. Len(members) PROVE AllEntries[k] \in Seq(Block)
  <2>1. EntriesOK(AllEntries[k], k, members[k])
    BY <1>1, AllEntriesAre
  <2> QED
    BY <2>1 DEF EntriesOK
<1> QED
  BY <1>1, <1>2

(* So are the first n of them together.                                    *)
LEMMA LaidIs ==
  ASSUME members \in Seq(Member), NEW n \in 0 .. Len(members)
  PROVE  Laid(n) \in Seq(Block) /\ End(n) \in Nat
<1>1. Laid(n) \in Seq(Block)
  BY AllAreSeqs, FlatSeq DEF Laid
<1> QED
  BY <1>1 DEF End

(* Member n is right behind the members before it.                         *)
LEMMA EndNext ==
  ASSUME members \in Seq(Member), NEW n \in DOMAIN members
  PROVE  /\ Laid(n) = Laid(n - 1) \o AllEntries[n]
         /\ End(n) = End(n - 1) + Len(AllEntries[n])
<1> DEFINE m == n - 1
<1>1. m \in 0 .. Len(members) /\ m + 1 = n /\ m \in Nat
  BY AllAreSeqs
<1>2. AllEntries[n] \in Seq(Block)
  BY AllAreSeqs
<1> HIDE DEF m
<1>3. Flat(AllEntries, m + 1) = Flat(AllEntries, m) \o AllEntries[m + 1]
  BY <1>1, <1>2, FlatNext
<1>4. Laid(n) = Laid(m) \o AllEntries[n]
  BY <1>1, <1>3 DEF Laid
<1>5. Laid(m) \in Seq(Block)
  BY <1>1, LaidIs
<1>6. Len(Laid(m) \o AllEntries[n]) = Len(Laid(m)) + Len(AllEntries[n])
  BY <1>2, <1>5
<1> QED
  BY <1>4, <1>6 DEF End, m

(* The definition of the format and this proof agree where.                *)
LEMMA StartIs ==
  ASSUME members \in Seq(Member), NEW n \in DOMAIN members
  PROVE  Start(n) = End(n - 1)
<1> DEFINE E(k) == Entries(k, members[k])
<1>1. \A k \in 1 .. n - 1 : AllEntries[k] = E(k)
  <2>1. \A k \in 1 .. n - 1 : k \in DOMAIN members
    BY AllAreSeqs
  <2> QED
    BY <2>1 DEF AllEntries
<1> HIDE DEF E
<1>2. First(AllEntries, n - 1) = [k \in 1 .. n - 1 |-> E(k)]
  BY <1>1 DEF First
<1> QED
  BY <1>2 DEF Start, End, Laid, Flat, E

(* The beginning of a sequence.                                            *)
LEMMA Beginning ==
  ASSUME NEW S, NEW s \in Seq(S), NEW m \in 0 .. Len(s)
  PROVE  Len(SubSeq(s, 1, m)) = m /\ \A k \in 1 .. m : SubSeq(s, 1, m)[k] = s[k]
OBVIOUS

(* The archive, and what is left of it: all of the members and at least    *)
(* one zero block.                                                         *)
LEMMA ArchiveIs ==
  ASSUME members \in Seq(Member)
  PROVE  Archive = Laid(Len(members)) \o [k \in 1 .. TailBlocks |-> [kind |-> "zero"]]
<1> DEFINE E(k) == Entries(k, members[k])
<1>1. DOMAIN members = 1 .. Len(members)
  BY AllAreSeqs
<1>2. \A k \in 1 .. Len(members) : AllEntries[k] = E(k)
  BY <1>1 DEF AllEntries
<1>3. AllEntries = [k \in DOMAIN members |-> E(k)]
  BY DEF AllEntries
<1> HIDE DEF E
<1>4. First(AllEntries, Len(members)) = [k \in 1 .. Len(members) |-> E(k)]
  BY <1>2 DEF First
<1>5. First(AllEntries, Len(members)) = [k \in DOMAIN members |-> E(k)]
  BY <1>1, <1>4
<1> QED
  BY <1>5 DEF Archive, Laid, Flat, E

(* What a complete archive has in it, block by block.                      *)
LEMMA MappedIs ==
  ASSUME WholeArchive, Complete
  PROVE  /\ Len(mapped) \in Nat /\ End(Len(members)) < Len(mapped)
         /\ \A k \in 1 .. End(Len(members)) : mapped[k] = Laid(Len(members))[k]
         /\ \A k \in End(Len(members)) + 1 .. Len(mapped) : mapped[k].kind = "zero"
<1> DEFINE L == Laid(Len(members))
           Z == [k \in 1 .. TailBlocks |-> [kind |-> "zero"]]
           len == Len(L)
<1>1. members \in Seq(Member) /\ lost \in Nat /\ lost < TailBlocks
      /\ mapped = SubSeq(Archive, 1, Len(Archive) - lost)
  BY DEF WholeArchive, Complete
<1>2. L \in Seq(Block) /\ len \in Nat
  BY <1>1, LaidIs, AllAreSeqs
<1>3. Z \in Seq(Block) /\ Len(Z) = TailBlocks /\ \A k \in 1 .. TailBlocks : Z[k].kind = "zero"
  <2>1. [kind |-> "zero"] \in Block
    BY DEF Block
  <2> QED
    BY <2>1
<1>4. Archive = L \o Z
  BY <1>1, ArchiveIs
<1>5. End(Len(members)) = len
  BY DEF End
<1> HIDE DEF L, Z, len
<1>6. L \o Z \in Seq(Block) /\ IsConcat(L \o Z, L, Z)
  BY <1>2, <1>3, Concat
<1>7. Len(L) = len
  BY DEF len
<1> DEFINE A == L \o Z
<1> HIDE DEF A
<1>8. A \in Seq(Block) /\ Len(A) = len + TailBlocks
      /\ (\A k \in 1 .. len : A[k] = L[k]) 
      /\ (\A k \in 1 .. TailBlocks : A[len + k] = Z[k])
  BY <1>3, <1>6, <1>7 DEF IsConcat, A
<1>9. mapped = SubSeq(A, 1, Len(A) - lost)
  BY <1>1, <1>4 DEF A
<1>10. Len(A) - lost \in Nat /\ Len(A) - lost > len
  BY <1>1, <1>2, <1>8
<1>11. /\ Len(mapped) = Len(A) - lost
       /\ \A k \in 1 .. Len(mapped) : mapped[k] = A[k]
  <2> DEFINE m == Len(A) - lost
  <2>1. m \in 0 .. Len(A)
    BY <1>1, <1>2, <1>8, <1>10
  <2> HIDE DEF m
  <2>2. Len(SubSeq(A, 1, m)) = m /\ \A k \in 1 .. m : SubSeq(A, 1, m)[k] = A[k]
    BY <1>8, <2>1, Beginning
  <2>3. mapped = SubSeq(A, 1, m)
    BY <1>9 DEF m
  <2> QED
    BY <2>2, <2>3 DEF m
<1>12. \A k \in 1 .. len : mapped[k] = L[k]
  BY <1>2, <1>8, <1>10, <1>11
<1>13. ASSUME NEW k \in len + 1 .. Len(mapped)
       PROVE  mapped[k].kind = "zero"
  <2>1. Len(mapped) = (len + TailBlocks) - lost
    BY <1>8, <1>11
  <2>2. k - len \in 1 .. TailBlocks /\ len + (k - len) = k
    BY <1>1, <1>2, <2>1
  <2>3. A[len + (k - len)] = Z[k - len]
    BY <1>8, <2>2
  <2>4. mapped[k] = A[k]
    BY <1>2, <1>11, <2>1
  <2> QED
    BY <1>3, <2>2, <2>3, <2>4
<1> QED
  BY <1>3, <1>5, <1>10, <1>11, <1>12, <1>13 DEF L

(* Block i of member n.                                                    *)
LEMMA BlockIs ==
  ASSUME WholeArchive, Complete, NEW n \in DOMAIN members, NEW i \in 1 .. Len(AllEntries[n])
  PROVE  /\ mapped[End(n - 1) + i] = AllEntries[n][i]
         /\ End(n - 1) + i <= End(Len(members)) /\ End(n - 1) \in Nat
<1> DEFINE N == Len(members)
<1>1. members \in Seq(Member)
  BY DEF WholeArchive
<1>2. /\ n \in Nat /\ n \in 0 .. N /\ n - 1 \in 0 .. N /\ N \in n .. N /\ N \in Nat /\ N \in 0 .. N
      /\ AllEntries[n] \in Seq(Block)
  BY <1>1, AllAreSeqs
<1>3. /\ Laid(n) = Laid(n - 1) \o AllEntries[n]
      /\ End(n) = End(n - 1) + Len(AllEntries[n])
  BY <1>1, EndNext
<1>4. Laid(n - 1) \in Seq(Block) /\ Laid(n) \in Seq(Block) /\ Laid(N) \in Seq(Block)
  BY <1>1, <1>2, LaidIs
<1>5. IsConcat(Laid(n), Laid(n - 1), AllEntries[n])
  BY <1>2, <1>3, <1>4, Concat
<1>6. Begins(Laid(n), Laid(N))
  <2>1. \A j \in n .. N : Begins(Flat(AllEntries, n), Flat(AllEntries, j))
    BY <1>1, <1>2, AllAreSeqs, FlatBegins
  <2> QED
    BY <1>2, <2>1 DEF Laid
<1> DEFINE k == End(n - 1) + i
<1>7. k \in 1 .. End(n) /\ End(n - 1) \in Nat /\ End(n) \in Nat
  <2>1. End(n - 1) \in Nat /\ End(n) \in Nat
    BY <1>4 DEF End
  <2>2. Len(AllEntries[n]) \in Nat
    BY <1>2
  <2> QED
    BY <1>3, <2>1, <2>2
<1>8. Laid(n)[k] = AllEntries[n][i]
  BY <1>5 DEF IsConcat, End
<1> HIDE DEF k
<1>9. k <= End(N) /\ Laid(N)[k] = Laid(n)[k]
  BY <1>4, <1>6, <1>7 DEF Begins, End
<1>10. \A j \in 1 .. End(N) : mapped[j] = Laid(N)[j]
  BY MappedIs
<1>11. mapped[k] = Laid(N)[k]
  <2>1. End(N) \in Nat
    BY <1>4 DEF End
  <2>2. k \in 1 .. End(N)
    BY <1>7, <1>9, <2>1
  <2> QED
    BY <1>10, <2>2
<1> QED
  BY <1>7, <1>8, <1>9, <1>11 DEF k

-------------------------------------------------------------------------------
(* What is listed: the content of one header more.                         *)
LEMMA ListedSeq ==
  ASSUME NEW h
  PROVE  Listed(h) \in Seq({Place(h)})
<1> DEFINE p == Place(h)
<1>1. Listed(h) = <<>> \/ Listed(h) = <<p>>
  BY DEF Listed
<1> HIDE DEF p
<1>2. <<>> \in Seq({p}) /\ <<p>> \in Seq({p})
  OBVIOUS
<1>3. Listed(h) \in Seq({p})
  BY <1>1, <1>2
<1> QED
  BY <1>3 DEF p

(* One header more lists its content, or nothing.                          *)
LEMMA FilesAppend ==
  ASSUME NEW S, NEW hs \in Seq(S), NEW h \in S
  PROVE  Files(Append(hs, h)) = Files(hs) \o Listed(h)
<1> DEFINE n == Len(hs)
           a == Append(hs, h)
           g == [k \in 1 .. n + 1 |-> Listed(a[k])]
<1>1. /\ n \in Nat /\ DOMAIN hs = 1 .. n /\ DOMAIN a = 1 .. n + 1
      /\ a[n + 1] = h /\ \A k \in 1 .. n : a[k] = hs[k]
  OBVIOUS
<1> HIDE DEF a, n
<1>2. g[n + 1] = Listed(h)
  BY <1>1
<1>3. g[n + 1] \in Seq({Place(h)})
  BY <1>2, ListedSeq
<1>4. First(g, n + 1) = [k \in DOMAIN a |-> Listed(a[k])]
  BY <1>1 DEF First
<1>5. First(g, n) = [k \in DOMAIN hs |-> Listed(hs[k])]
  <2>1. \A k \in 1 .. n : k \in 1 .. n + 1
    BY <1>1
  <2>2. \A k \in 1 .. n : g[k] = Listed(hs[k])
    BY <1>1, <2>1
  <2> HIDE DEF g
  <2> QED
    BY <1>1, <2>2 DEF First
<1> HIDE DEF g
<1>6. Flat(g, n + 1) = Flat(g, n) \o g[n + 1]
  BY <1>1, <1>3, FlatNext
<1>7. Flat(g, n + 1) = Files(a) /\ Flat(g, n) = Files(hs)
  BY <1>4, <1>5 DEF Flat, Files
<1> QED
  BY <1>2, <1>6, <1>7 DEF a

(* One member more is listed by its content, or not.                       *)
LEMMA WrittenNext ==
  ASSUME members \in Seq(Member), NEW n \in DOMAIN members
  PROVE  Flat(AllListed, n) = Flat(AllListed, n - 1) \o Listed(Written[n])
<1> DEFINE m == n - 1
<1>1. m \in Nat /\ m + 1 = n
  BY AllAreSeqs
<1>2. AllListed[n] = Listed(Written[n])
  BY DEF AllListed
<1>3. AllListed[n] \in Seq({Place(Written[n])})
  BY <1>2, ListedSeq
<1> HIDE DEF m
<1>4. Flat(AllListed, m + 1) = Flat(AllListed, m) \o AllListed[m + 1]
  BY <1>1, <1>3, FlatNext
<1> QED
  BY <1>1, <1>2, <1>4 DEF m

(* What is listed is a sequence.                                           *)
LEMMA ListsAreSeqs ==
  ASSUME members \in Seq(Member), NEW n \in DOMAIN members
  PROVE  \E S : Flat(AllListed, n - 1) \in Seq(S)
<1> DEFINE P(k) == Place(Written[k])
           S == {P(k) : k \in DOMAIN members}
<1>1. n - 1 \in 0 .. n - 1 /\ n - 1 \in Nat /\ \A k \in 1 .. n - 1 : k \in DOMAIN members
  BY AllAreSeqs
<1>2. ASSUME NEW k \in 1 .. n - 1 PROVE AllListed[k] \in Seq(S)
  <2>1. k \in DOMAIN members
    BY <1>1
  <2>2. AllListed[k] = Listed(Written[k]) /\ P(k) \in S
    BY <2>1 DEF AllListed
  <2>3. Listed(Written[k]) = <<>> \/ Listed(Written[k]) = <<P(k)>>
    BY DEF Listed
  <2> DEFINE p == P(k)
  <2> HIDE DEF S, P
  <2>4. p \in S
    BY <2>2
  <2> HIDE DEF p
  <2>5. <<>> \in Seq(S) /\ <<p>> \in Seq(S)
    BY <2>4
  <2> QED
    BY <2>2, <2>3, <2>5 DEF p
<1> HIDE DEF S
<1>3. Flat(AllListed, n - 1) \in Seq(S)
  BY <1>1, <1>2, FlatSeq
<1> QED
  BY <1>3

(* All members listed are the files the property speaks of.                *)
LEMMA WrittenAll ==
  ASSUME members \in Seq(Member)
  PROVE  Files(Written) = Flat(AllListed, Len(members))
<1>1. DOMAIN Written = DOMAIN members /\ DOMAIN members = 1 .. Len(members)
  BY AllAreSeqs DEF Written
<1> DEFINE F(k) == Listed(Written[k])
<1>2. \A k \in 1 .. Len(members) : AllListed[k] = F(k)
  BY <1>1 DEF AllListed
<1> HIDE DEF F
<1>3. First(AllListed, Len(members)) = [k \in 1 .. Len(members) |-> F(k)]
  BY <1>2 DEF First
<1>4. First(AllListed, Len(members)) = [k \in DOMAIN Written |-> F(k)]
  BY <1>1, <1>3
<1> QED
  BY <1>4 DEF Files, Flat, F

(* What Written says of member n.                                          *)
LEMMA WrittenIs ==
  ASSUME members \in Seq(Member), NEW n \in DOMAIN members
  PROVE  Written[n] = [type |-> members[n].kind.type, size |-> members[n].kind.size, name |-> n,
                       offset |-> (At(n, "member") + 1) * BlockSize]
<1> DEFINE m == members[n]
           e == AllEntries[n]
<1>1. EntriesOK(e, n, m) /\ e = Entries(n, m)
  BY AllEntriesAre
<1>2. Start(n) = End(n - 1) /\ End(n - 1) \in Nat
  <2>1. n - 1 \in 0 .. Len(members)
    BY AllAreSeqs
  <2> QED
    BY <2>1, StartIs, LaidIs
<1>3. Written[n] = [type |-> m.kind.type, size |-> m.kind.size, name |-> n,
                    offset |-> DataStart(n) * BlockSize]
  BY DEF Written
<1>4. DataStart(n) = Start(n) + Len(e) - Blocks(m.kind.size)
  BY <1>1 DEF DataStart
<1> HIDE DEF e, m
<1>5. DataStart(n) = End(n - 1) + Long(m.target) + Long(m.name) + 1
  BY <1>1, <1>2, <1>4 DEF EntriesOK
<1>6. At(n, "member") = End(n - 1) + Long(m.target) + Long(m.name)
  BY DEF At, m
<1>7. DataStart(n) = At(n, "member") + 1
  BY <1>5, <1>6
<1> QED
  BY <1>3, <1>7 DEF m

(* A step that leaves the archive alone leaves alone what it is.           *)
LEMMA SameArchive ==
  ASSUME UNCHANGED <<members, lost, mapped>>
  PROVE  /\ \A n : End(n)' = End(n)
         /\ AllListed' = AllListed
         /\ WholeArchive' = WholeArchive /\ Complete' = Complete /\ Readable' = Readable
         /\ Written' = Written
<1>1. AllEntries' = AllEntries
  BY DEF AllEntries
<1>2. \A n : End(n)' = End(n)
  BY <1>1 DEF End, Laid, Flat, First
<1>3. \A n : Start(n)' = Start(n)
  BY DEF Start
<1>4. Written' = Written
  BY <1>3 DEF Written, DataStart
<1>5. AllListed' = AllListed
  BY <1>4 DEF AllListed, Listed, HasContent, Place
<1>6. Archive' = Archive
  BY DEF Archive
<1>7. WholeArchive' = WholeArchive
  BY <1>6 DEF WholeArchive
<1> QED
  BY <1>2, <1>4, <1>5, <1>7 DEF Complete, Readable

-------------------------------------------------------------------------------
(* The header at each place the reader may be, and that it is a header.    *)
HeaderAt(n, part) ==
  CASE part = "target" -> LongHeader("long_link", members[n].target)
    [] part = "name" -> LongHeader("long_name", members[n].name)
    [] OTHER -> MemberHeader(n, members[n])

(* There is a header at every part of every member.                        *)
LEMMA HeaderThere ==
  ASSUME WholeArchive, Complete, NEW n \in DOMAIN members, NEW part, HasPart(n, part)
  PROVE  /\ At(n, part) \in Nat /\ At(n, part) + 1 <= End(Len(members))
         /\ mapped[At(n, part) + 1] = HeaderAt(n, part)
<1> DEFINE e == AllEntries[n]
           t == Long(members[n].target)
           l == Long(members[n].name)
           q == End(n - 1)
           M == End(Len(members))
<1>1. EntriesOK(e, n, members[n])
  BY AllEntriesAre DEF WholeArchive
<1>2. /\ t \in Nat /\ l \in Nat /\ Blocks(members[n].kind.size) \in Nat
      /\ Len(e) = t + l + 1 + Blocks(members[n].kind.size)
      /\ e[t + l + 1] = MemberHeader(n, members[n])
  BY <1>1 DEF EntriesOK
<1>3. /\ members[n].target # 0 =>
           e[1] = LongHeader("long_link", members[n].target) /\ t >= 2
      /\ members[n].name # 0 =>
           e[t + 1] = LongHeader("long_name", members[n].name) /\ l >= 2
  BY <1>1 DEF EntriesOK
<1>4. \A i \in 1 .. Len(e) : mapped[q + i] = e[i] /\ q + i <= M /\ q \in Nat
  BY BlockIs
<1> HIDE DEF e, t, l, q, M
<1>5. CASE part = "target"
  <2>1. At(n, part) = q /\ HeaderAt(n, part) = LongHeader("long_link", members[n].target)
    BY <1>5 DEF At, HeaderAt, q
  <2>2. 1 \in 1 .. Len(e) /\ members[n].target # 0
    BY <1>2, <1>5 DEF HasPart
  <2> QED
    BY <1>3, <1>4, <2>1, <2>2 DEF M
<1>6. CASE part = "name"
  <2>1. At(n, part) = q + t /\ HeaderAt(n, part) = LongHeader("long_name", members[n].name)
    BY <1>6 DEF At, HeaderAt, q, t
  <2>2. t + 1 \in 1 .. Len(e) /\ members[n].name # 0
    BY <1>2, <1>6 DEF HasPart
  <2>3. mapped[q + (t + 1)] = e[t + 1] /\ q + (t + 1) <= M /\ q \in Nat
    BY <1>4, <2>2
  <2>4. q + (t + 1) = (q + t) + 1 /\ q + t \in Nat
    BY <1>2, <2>3
  <2> QED
    BY <1>3, <2>1, <2>2, <2>3, <2>4 DEF M
<1>7. CASE part = "member"
  <2>1. At(n, part) = q + t + l /\ HeaderAt(n, part) = MemberHeader(n, members[n])
    BY <1>7 DEF At, HeaderAt, q, t, l
  <2>2. t + l + 1 \in 1 .. Len(e)
    BY <1>2
  <2>3. mapped[q + (t + l + 1)] = e[t + l + 1] /\ q + (t + l + 1) <= M /\ q \in Nat
    BY <1>4, <2>2
  <2>4. q + (t + l + 1) = (q + t + l) + 1 /\ q + t + l \in Nat
    BY <1>2, <2>3
  <2> QED
    BY <1>2, <2>1, <2>3, <2>4 DEF M
<1> QED
  BY <1>5, <1>6, <1>7 DEF HasPart

(* The reader stands before a header and reads it.                         *)
LEMMA Reading ==
  ASSUME WholeArchive, Complete, NEW n \in DOMAIN members, NEW part, Before(n, part)
  PROVE  BlockAt(offset) = HeaderAt(n, part) /\ MoreBlocks
<1> DEFINE q == At(n, part)
           M == End(Len(members))
           len == Len(mapped)
<1>1. offset = q * BlockSize /\ HasPart(n, part)
  BY DEF Before
<1>2. q \in Nat /\ q + 1 <= M /\ mapped[q + 1] = HeaderAt(n, part)
  BY <1>1, HeaderThere
<1>3. len \in Nat /\ M < len
  BY MappedIs
<1>4. M \in Nat
  BY LaidIs, AllAreSeqs DEF WholeArchive
<1> HIDE DEF q, M
<1>5. offset \div BlockSize = q
  BY <1>1, <1>2, <1>3, Offsets
<1>6. q + 1 < len
  BY <1>2, <1>3, <1>4
<1> HIDE DEF len
<1>7. q * BlockSize < len * BlockSize - BlockSize
  BY <1>2, <1>3, <1>6, Offsets
<1> QED
  BY <1>1, <1>2, <1>5, <1>7 DEF BlockAt, MoreBlocks, size, len

(* Behind the header of a long name is the name of the member.             *)
LEMMA LongNameThere ==
  ASSUME WholeArchive, Complete, NEW n \in DOMAIN members, members[n].name # 0,
         NEW o, o = (At(n, "name") + 1) * BlockSize
  PROVE  BlockAt(o).text = n
<1> DEFINE e == AllEntries[n]
           t == Long(members[n].target)
           q == End(n - 1)
<1>1. EntriesOK(e, n, members[n])
  BY AllEntriesAre DEF WholeArchive
<1>2. e \in Seq(Block)
  BY <1>1 DEF EntriesOK
<1>3. t \in Nat /\ t + 2 \in 1 .. Len(e) /\ e[t + 2] = TextOf(n)
  <2>1. /\ t \in Nat /\ Len(e) = t + Long(members[n].name) + 1 + Blocks(members[n].kind.size)
        /\ Long(members[n].name) >= 2 /\ Long(members[n].name) \in Nat
        /\ Blocks(members[n].kind.size) \in Nat /\ e[t + 2] = TextOf(n)
    BY <1>1 DEF EntriesOK
  <2> QED
    BY <2>1
<1>4. mapped[q + (t + 2)] = e[t + 2] /\ q \in Nat
  BY <1>3, BlockIs
<1>5. At(n, "name") = q + t
  BY DEF At
<1> HIDE DEF e, t, q
<1> DEFINE r == q + t + 1
<1>6. o = r * BlockSize /\ r \in Nat /\ r + 1 = q + (t + 2)
  <2>1. At(n, "name") + 1 = r
    BY <1>5
  <2>2. r \in Nat /\ r + 1 = q + (t + 2)
    BY <1>3, <1>4
  <2> HIDE DEF r
  <2>3. o = r * BlockSize
    BY <2>1
  <2> QED
    BY <2>2, <2>3
<1> HIDE DEF r
<1>7. o \div BlockSize = r
  BY <1>6, Offsets
<1>8. BlockAt(o) = TextOf(n)
  BY <1>3, <1>4, <1>6, <1>7 DEF BlockAt
<1> QED
  BY <1>8 DEF TextOf

-------------------------------------------------------------------------------
(* What read_header makes of the header at each of these places.           *)
SizeAt(n, part) ==
  CASE part = "target" -> members[n].target
    [] part = "name" -> members[n].name
    [] OTHER -> members[n].kind.size
HeaderOK(h, n, part) ==
  /\ h \in ParsedHeader
  /\ h.size = SizeAt(n, part)
  /\ h.type = "long_name" <=> part = "name"
  /\ h.offset = (At(n, part) + 1) * BlockSize
  /\ part # "member" => Listed(h) = <<>>
  /\ part = "member" => Listed(h) = Listed(Written[n])

(* A header of type L or K is read as what it is.                          *)
LEMMA LongHeaderRead ==
  ASSUME members \in Seq(Member), ~ AfterLongName, NEW type \in {"long_link", "long_name"}, NEW s
  PROVE  Header(LongHeader(type, s)) =
           [type |-> type, size |-> s, name |-> LongLink, offset |-> offset + BlockSize]
<1> DEFINE b == LongHeader(type, s)
<1>1. b.type = type /\ b.size = s /\ b.name = LongLink
  BY DEF LongHeader, HeaderOf
<1>2. LongLink \notin DOMAIN members
  BY AllAreSeqs DEF LongLink
<1> HIDE DEF b
<1>3. ~ Slash(b) /\ Name(b) = LongLink
  BY <1>1, <1>2 DEF Slash, Name
<1>4. Type(b) = type
  BY <1>1, <1>3 DEF Type
<1> QED
  BY <1>1, <1>3, <1>4 DEF Header, b

(* It adds no file.                                                        *)
LEMMA LongHeaderOK ==
  ASSUME WholeArchive, Complete, NEW n \in DOMAIN members, NEW part \in {"target", "name"},
         Before(n, part)
  PROVE  HeaderOK(Header(HeaderAt(n, part)), n, part)
<1> DEFINE type == IF part = "target" THEN "long_link" ELSE "long_name"
           s == SizeAt(n, part)
           h == Header(HeaderAt(n, part))
<1>1. HeaderAt(n, part) = LongHeader(type, s)
  BY DEF HeaderAt, SizeAt
<1>2. /\ ~ AfterLongName /\ offset = At(n, part) * BlockSize /\ HasPart(n, part)
  BY DEF Before
<1>3. members \in Seq(Member)
  BY DEF WholeArchive
<1>4. h = [type |-> type, size |-> s, name |-> LongLink, offset |-> offset + BlockSize]
  BY <1>1, <1>2, <1>3, LongHeaderRead
<1>5. offset + BlockSize = (At(n, part) + 1) * BlockSize /\ offset + BlockSize \in Nat
  <2>1. At(n, part) \in Nat
    BY <1>2, HeaderThere
  <2> QED
    BY <1>2, <2>1, Offsets
<1>6. s \in Nat
  BY <1>3, AllEntriesAre, MemberIs DEF SizeAt
<1>7. h.type = type /\ h.size = s /\ h.offset = (At(n, part) + 1) * BlockSize
  BY <1>4, <1>5
<1>8. h \in ParsedHeader
  BY <1>4, <1>5, <1>6 DEF ParsedHeader, LongLink
<1> HIDE DEF h
<1>9. Listed(h) = <<>>
  BY <1>7 DEF Listed, HasContent
<1> QED
  BY <1>7, <1>8, <1>9 DEF HeaderOK, h

(* The member's own header has its name, of an L or in it, and its content.*)
LEMMA MemberHeaderRead ==
  ASSUME WholeArchive, Complete, NEW n \in DOMAIN members, Before(n, "member")
  PROVE  LET h == Header(MemberHeader(n, members[n]))
             k == members[n].kind
         IN  /\ h = [type |-> h.type, size |-> k.size, name |-> n, offset |-> offset + BlockSize]
             /\ k.size > 0 => h.type = IF k.type = "global" THEN "regular" ELSE k.type
             /\ h.type \in {"regular", "directory", "link"}
<1> DEFINE k == members[n].kind
           b == MemberHeader(n, members[n])
           h == Header(b)
<1>1. KindOK(k) /\ members[n].name \in Nat
  BY AllEntriesAre, MemberIs, KindIs DEF WholeArchive
<1>2. b.type = k.type /\ b.size = k.size /\ b.name = IF members[n].name # 0 THEN Cut ELSE n
  BY DEF MemberHeader, HeaderOf
<1>3. /\ AfterLongName <=> members[n].name # 0
      /\ AfterLongName => prev.offset = (At(n, "name") + 1) * BlockSize
  BY DEF Before
<1> HIDE DEF b
<1>4. Name(b) = n
  <2>1. CASE members[n].name # 0
    <3>1. BlockAt(prev.offset).text = n
      BY <1>3, <2>1, LongNameThere
    <3> QED
      BY <1>3, <2>1, <3>1 DEF Name
  <2>2. CASE members[n].name = 0
    BY <1>2, <1>3, <2>2 DEF Name
  <2> QED
    BY <2>1, <2>2
<1>5. ~ AfterLongName /\ Slash(b) => k.slash
  BY <1>2, <1>3 DEF Slash
<1> HIDE DEF k
<1>6. Type(b) \in {"regular", "directory", "link"}
  BY <1>1, <1>2 DEF Type, KindOK
<1>7. k.size > 0 => Type(b) = IF k.type = "global" THEN "regular" ELSE k.type
  <2> SUFFICES ASSUME k.size > 0
               PROVE  Type(b) = IF k.type = "global" THEN "regular" ELSE k.type
    OBVIOUS
  <2>1. ~ k.slash
    BY <1>1 DEF KindOK
  <2> QED
    BY <1>2, <1>5, <2>1 DEF Type
<1>8. h = [type |-> Type(b), size |-> k.size, name |-> n, offset |-> offset + BlockSize]
  BY <1>2, <1>4 DEF Header
<1>9. h.type = Type(b)
  BY <1>8
<1> HIDE DEF h
<1>10. /\ h = [type |-> h.type, size |-> k.size, name |-> n, offset |-> offset + BlockSize]
       /\ k.size > 0 => h.type = IF k.type = "global" THEN "regular" ELSE k.type
       /\ h.type \in {"regular", "directory", "link"}
  BY <1>6, <1>7, <1>8, <1>9
<1> QED
  BY <1>10 DEF h, b, k

(* It adds the file that was written, and none for another member.         *)
LEMMA MemberHeaderOK ==
  ASSUME WholeArchive, Complete, NEW n \in DOMAIN members, Before(n, "member")
  PROVE  HeaderOK(Header(HeaderAt(n, "member")), n, "member")
<1> DEFINE k == members[n].kind
           h == Header(HeaderAt(n, "member"))
           w == Written[n]
<1>1. HeaderAt(n, "member") = MemberHeader(n, members[n])
  BY DEF HeaderAt
<1>2. /\ h = [type |-> h.type, size |-> k.size, name |-> n, offset |-> offset + BlockSize]
      /\ k.size > 0 => h.type = IF k.type = "global" THEN "regular" ELSE k.type
      /\ h.type \in {"regular", "directory", "link"}
  BY <1>1, MemberHeaderRead
<1>3. offset = At(n, "member") * BlockSize /\ HasPart(n, "member")
  BY DEF Before
<1>4. offset + BlockSize = (At(n, "member") + 1) * BlockSize /\ offset + BlockSize \in Nat
  <2>1. At(n, "member") \in Nat
    BY <1>3, HeaderThere
  <2> QED
    BY <1>3, <2>1, Offsets
<1>5. w = [type |-> k.type, size |-> k.size, name |-> n,
           offset |-> (At(n, "member") + 1) * BlockSize]
  BY WrittenIs DEF WholeArchive
<1>6. KindOK(k) /\ n \in Nat
  BY AllEntriesAre, MemberIs, KindIs DEF WholeArchive
<1>7. k.size = SizeAt(n, "member")
  BY DEF SizeAt
<1> HIDE DEF h, w, k
<1>8. /\ h.size = k.size /\ h.name = n /\ h.offset = (At(n, "member") + 1) * BlockSize
      /\ k.size \in Nat
  BY <1>2, <1>4, <1>6 DEF KindOK
<1>9. /\ w.type = k.type /\ w.size = k.size /\ w.name = n
      /\ w.offset = (At(n, "member") + 1) * BlockSize
  BY <1>5
<1>10. h \in ParsedHeader
  BY <1>2, <1>4, <1>6 DEF KindOK, ParsedHeader
<1>11. Place(h) = Place(w)
  BY <1>8, <1>9 DEF Place
<1>12. HasContent(h) <=> HasContent(w)
  <2>1. CASE k.size > 0
    BY <1>2, <1>6, <1>8, <1>9, <2>1 DEF HasContent, KindOK
  <2>2. CASE ~ (k.size > 0)
    BY <1>8, <1>9, <2>2 DEF HasContent
  <2> QED
    BY <2>1, <2>2
<1>13. Listed(h) = Listed(w)
  BY <1>11, <1>12 DEF Listed
<1>14. h.type # "long_name"
  BY <1>2
<1> QED
  BY <1>7, <1>8, <1>10, <1>13, <1>14 DEF HeaderOK, h, w

-------------------------------------------------------------------------------
(* Where the next header is, and what becomes of the loop there.           *)
LEMMA NextOffsetIs ==
  ASSUME NEW q \in Nat, NEW s \in Nat, offset = q * BlockSize
  PROVE  NextOffset(s) = (q + 1 + Blocks(s)) * BlockSize
<1> DEFINE B == BlockSize
           k == Blocks(s)
<1>1. (s + BlockSize - 1) \div BlockSize = k /\ k \in Nat
  BY BlocksIs
<1>2. NextOffset(s) = q * B + k * B + B
  BY <1>1 DEF NextOffset
<1>3. B \in Nat
  OBVIOUS
<1> HIDE DEF B, k
<1>4. q * B + k * B + B = (q + 1 + k) * B
  BY <1>1, <1>3
<1> QED
  BY <1>2, <1>4 DEF B, k

(* Each part of a member is followed by the next, and the last of them by  *)
(* the next member.                                                        *)
FirstPart(n) ==
  IF members[n].target # 0 THEN "target" ELSE IF members[n].name # 0 THEN "name" ELSE "member"
SecondPart(n) == IF members[n].name # 0 THEN "name" ELSE "member"

(* That is so by the lengths of the parts.                                 *)
LEMMA PartsFollow ==
  ASSUME members \in Seq(Member), NEW n \in DOMAIN members
  PROVE  /\ At(n, FirstPart(n)) = End(n - 1) /\ HasPart(n, FirstPart(n))
         /\ HasPart(n, "target") =>
              At(n, "target") + 1 + Blocks(members[n].target) = At(n, SecondPart(n))
         /\ HasPart(n, SecondPart(n))
         /\ HasPart(n, "name") =>
              At(n, "name") + 1 + Blocks(members[n].name) = At(n, "member")
         /\ At(n, "member") + 1 + Blocks(members[n].kind.size) = End(n)
<1> DEFINE m == members[n]
           e == AllEntries[n]
           q == End(n - 1)
<1>1. EntriesOK(e, n, m) /\ m.target \in Nat /\ m.name \in Nat
  BY AllEntriesAre, MemberIs
<1>2. q \in Nat
  <2>1. n - 1 \in 0 .. Len(members)
    BY AllAreSeqs
  <2> QED
    BY <2>1, LaidIs
<1>3. End(n) = q + Len(e)
  BY EndNext
<1>4. /\ At(n, "target") = q /\ At(n, "name") = q + Long(m.target)
      /\ At(n, "member") = q + Long(m.target) + Long(m.name)
  BY DEF At
<1>5. /\ Long(m.target) \in Nat /\ Long(m.name) \in Nat /\ Blocks(m.kind.size) \in Nat
      /\ Len(e) = Long(m.target) + Long(m.name) + 1 + Blocks(m.kind.size)
  BY <1>1 DEF EntriesOK
<1>6. /\ m.target = 0 => Long(m.target) = 0
      /\ m.target # 0 => Long(m.target) = 1 + Blocks(m.target)
      /\ m.name = 0 => Long(m.name) = 0
      /\ m.name # 0 => Long(m.name) = 1 + Blocks(m.name)
  BY DEF Long
<1>7. Blocks(m.target) \in Nat /\ Blocks(m.name) \in Nat
  BY <1>1, BlocksIs
<1> HIDE DEF e, q
<1>8. At(n, FirstPart(n)) = q /\ HasPart(n, FirstPart(n))
  <2> HIDE DEF m
  <2>1. CASE m.target # 0
    BY <1>4, <2>1 DEF FirstPart, HasPart, m
  <2>2. CASE m.target = 0 /\ m.name # 0
    BY <1>2, <1>4, <1>6, <2>2 DEF FirstPart, HasPart, m
  <2>3. CASE m.target = 0 /\ m.name = 0
    <3>1. FirstPart(n) = "member"
      BY <2>3 DEF FirstPart, m
    <3>2. At(n, "member") = q
      BY <1>2, <1>4, <1>6, <2>3
    <3> QED
      BY <3>1, <3>2 DEF HasPart
  <2> QED
    BY <2>1, <2>2, <2>3
<1>9. HasPart(n, SecondPart(n))
  BY DEF HasPart, SecondPart
<1>10. m.target # 0 => At(n, "target") + 1 + Blocks(m.target) = At(n, SecondPart(n))
  <2> HIDE DEF m
  <2>1. CASE m.name # 0
    BY <1>2, <1>4, <1>5, <1>6, <1>7, <2>1 DEF SecondPart, m
  <2>2. CASE m.name = 0
    BY <1>2, <1>4, <1>5, <1>6, <1>7, <2>2 DEF SecondPart, m
  <2> QED
    BY <2>1, <2>2
<1>11. m.name # 0 => At(n, "name") + 1 + Blocks(m.name) = At(n, "member")
  <2> HIDE DEF m
  <2> QED
    BY <1>2, <1>4, <1>5, <1>6, <1>7
<1>12. At(n, "member") + 1 + Blocks(m.kind.size) = End(n)
  <2> HIDE DEF m
  <2> QED
    BY <1>2, <1>3, <1>4, <1>5
<1> QED
  BY <1>8, <1>9, <1>10, <1>11, <1>12 DEF HasPart, m, q

(* The loop goes on at a header.                                           *)
LEMMA StatusAtHeader ==
  ASSUME WholeArchive, Complete, NEW n \in DOMAIN members, NEW part, HasPart(n, part),
         NEW h, Append_(h), offset' = At(n, part) * BlockSize
  PROVE  status' = "parsing"
<1> DEFINE q == At(n, part)
           M == End(Len(members))
           len == Len(mapped)
<1>1. q \in Nat /\ q + 1 <= M /\ mapped[q + 1] = HeaderAt(n, part)
  BY HeaderThere
<1>2. len \in Nat /\ M < len
  BY MappedIs
<1>3. M \in Nat
  BY LaidIs, AllAreSeqs DEF WholeArchive
<1>4. offset' = q * BlockSize
  OBVIOUS
<1>5. HeaderAt(n, part).kind = "header"
  BY DEF HeaderAt, LongHeader, MemberHeader, HeaderOf
<1> HIDE DEF q, M
<1>6. offset' \div BlockSize = q
  BY <1>1, <1>4, Offsets
<1>7. q < len
  BY <1>1, <1>2, <1>3
<1> HIDE DEF len
<1>8. offset' < len * BlockSize
  BY <1>1, <1>2, <1>4, <1>7, Offsets
<1>9. offset' < size
  BY <1>8 DEF size, len
<1>10. ~ Ends(offset')
  BY <1>1, <1>5, <1>6 DEF Ends, BlockAt
<1> QED
  BY <1>9, <1>10 DEF Append_

(* The loop ends behind the last member.                                   *)
LEMMA StatusAtEnd ==
  ASSUME WholeArchive, Complete, NEW h, Append_(h),
         offset' = End(Len(members)) * BlockSize
  PROVE  status' = "parsed"
<1> DEFINE M == End(Len(members))
           len == Len(mapped)
<1>1. /\ len \in Nat /\ M < len
      /\ \A k \in M + 1 .. len : mapped[k].kind = "zero"
  BY MappedIs
<1>2. M \in Nat
  BY LaidIs, AllAreSeqs DEF WholeArchive
<1>3. offset' = M * BlockSize
  OBVIOUS
<1> HIDE DEF M
<1>4. offset' \div BlockSize = M
  BY <1>2, <1>3, Offsets
<1>5. mapped[M + 1].kind = "zero"
  BY <1>1, <1>2
<1> HIDE DEF len
<1>6. offset' < len * BlockSize
  BY <1>1, <1>2, <1>3, Offsets
<1>7. offset' < size
  BY <1>6 DEF size, len
<1>8. Ends(offset')
  BY <1>4, <1>5 DEF Ends, BlockAt
<1> QED
  BY <1>7, <1>8 DEF Append_

(* The reader is before a part, with one header more.                      *)
LEMMA Arrive ==
  ASSUME UNCHANGED <<members, lost, mapped>>, headers \in Seq(ParsedHeader),
         NEW h \in ParsedHeader, headers' = Append(headers, h),
         NEW n \in Nat, NEW part, HasPart(n, part), offset' = At(n, part) * BlockSize,
         Files(headers) \o Listed(h) = Flat(AllListed, n - 1),
         \A k \in 1 .. n - 1 : members[k].kind.readable,
         h.type = "long_name" <=> part = "member" /\ members[n].name # 0,
         h.type = "long_name" => h.offset = (At(n, "name") + 1) * BlockSize
  PROVE  Before(n, part)'
<1>1. /\ headers' \in Seq(ParsedHeader) /\ headers' # <<>>
      /\ headers'[Len(headers')] = h
  <2> DEFINE a == Append(headers, h)
  <2>1. /\ a \in Seq(ParsedHeader) /\ Len(headers) \in Nat
        /\ Len(a) = Len(headers) + 1 /\ a[Len(headers) + 1] = h
    OBVIOUS
  <2>2. headers' = a
    OBVIOUS
  <2> HIDE DEF a
  <2>3. a # <<>>
    BY <2>1
  <2> QED
    BY <2>1, <2>2, <2>3
<1>2. prev' = h
  BY <1>1 DEF prev, Last
<1>3. AfterLongName' <=> h.type = "long_name"
  BY <1>1, <1>2 DEF AfterLongName
<1>4. Files(headers') = Files(headers) \o Listed(h)
  BY FilesAppend
<1>5. /\ \A k, p : At(k, p)' = At(k, p)
      /\ AllListed' = AllListed /\ HasPart(n, part)' = HasPart(n, part)
  <2>1. (\A k : End(k)' = End(k)) /\ AllListed' = AllListed
    BY SameArchive
  <2>2. \A k, p : At(k, p)' = At(k, p)
    BY <2>1 DEF At, Long
  <2> QED
    BY <2>1, <2>2 DEF HasPart
<1>6. Files(headers)' = Flat(AllListed, n - 1)'
  <2>1. Files(headers)' = Files(headers')
    BY DEF Files, Listed, HasContent, Place
  <2>2. Flat(AllListed, n - 1)' = Flat(AllListed', n - 1)
    BY DEF Flat, First
  <2> QED
    BY <1>4, <1>5, <2>1, <2>2
<1>7. /\ (offset = At(n, part) * BlockSize)' /\ HasPart(n, part)'
      /\ (headers \in Seq(ParsedHeader))'
      /\ (\A k \in 1 .. n - 1 : members[k].kind.readable)'
  BY <1>1, <1>5 DEF ParsedHeader
<1>8. /\ (AfterLongName <=> part = "member" /\ members[n].name # 0)'
      /\ (AfterLongName => prev.offset = (At(n, "name") + 1) * BlockSize)'
  BY <1>2, <1>3, <1>5
<1> QED
  BY <1>6, <1>7, <1>8 DEF Before

-------------------------------------------------------------------------------
(* One header read: the reader is at the next one, or at the end.          *)
LEMMA HeaderIsOK ==
  ASSUME WholeArchive, Complete, NEW n \in DOMAIN members, NEW part, Before(n, part)
  PROVE  HeaderOK(Header(HeaderAt(n, part)), n, part)
<1>1. part \in {"target", "name", "member"}
  BY DEF Before, HasPart
<1>2. CASE part \in {"target", "name"}
  BY <1>2, LongHeaderOK
<1>3. CASE part = "member"
  BY <1>3, MemberHeaderOK
<1> QED
  BY <1>1, <1>2, <1>3

(* What reading the header of a part does to the variables.                *)
LEMMA Appending ==
  ASSUME WholeArchive, Complete, NEW n \in DOMAIN members, NEW part, Before(n, part),
         NEW h, h = Header(HeaderAt(n, part)), Append_(h)
  PROVE  /\ HeaderOK(h, n, part) /\ headers \in Seq(ParsedHeader)
         /\ headers' = Append(headers, h) /\ UNCHANGED <<members, lost, mapped>>
         /\ offset' = (At(n, part) + 1 + Blocks(SizeAt(n, part))) * BlockSize
<1>1. HeaderOK(h, n, part)
  BY HeaderIsOK
<1>2. h.size = SizeAt(n, part) /\ SizeAt(n, part) \in Nat
  BY <1>1 DEF HeaderOK, ParsedHeader
<1>3. /\ offset = At(n, part) * BlockSize /\ HasPart(n, part) /\ headers \in Seq(ParsedHeader)
  BY DEF Before
<1>4. At(n, part) \in Nat
  BY <1>3, HeaderThere
<1>5. /\ offset' = NextOffset(h.size) /\ headers' = Append(headers, h)
      /\ UNCHANGED <<members, lost, mapped>>
  BY DEF Append_
<1>6. NextOffset(SizeAt(n, part)) = (At(n, part) + 1 + Blocks(SizeAt(n, part))) * BlockSize
  BY <1>2, <1>3, <1>4, NextOffsetIs
<1> QED
  BY <1>1, <1>2, <1>3, <1>5, <1>6

(* After the data of a long target or name comes the next part of the      *)
(* member.                                                                 *)
LEMMA LongPartRead ==
  ASSUME WholeArchive, Complete, NEW n \in DOMAIN members, NEW part \in {"target", "name"},
         Before(n, part), Append_(Header(HeaderAt(n, part)))
  PROVE  status' = "parsing" /\ Arrived'
<1> DEFINE h == Header(HeaderAt(n, part))
<1>1. /\ HeaderOK(h, n, part) /\ headers \in Seq(ParsedHeader)
      /\ headers' = Append(headers, h) /\ UNCHANGED <<members, lost, mapped>>
      /\ offset' = (At(n, part) + 1 + Blocks(SizeAt(n, part))) * BlockSize
  BY Appending
<1>2. members \in Seq(Member) /\ Append_(h)
  BY DEF WholeArchive
<1>3. /\ HasPart(n, part) /\ Files(headers) = Flat(AllListed, n - 1)
      /\ \A k \in 1 .. n - 1 : members[k].kind.readable
  BY DEF Before
<1>4. n \in Nat
  BY <1>2, AllEntriesAre
<1>5. /\ h \in ParsedHeader /\ Listed(h) = <<>>
      /\ h.type = "long_name" <=> part = "name"
      /\ h.offset = (At(n, part) + 1) * BlockSize
  BY <1>1 DEF HeaderOK
<1> HIDE DEF h
<1>6. PICK p \in {"name", "member"} :
        /\ p = IF part = "target" THEN SecondPart(n) ELSE "member"
        /\ HasPart(n, p) /\ At(n, part) + 1 + Blocks(SizeAt(n, part)) = At(n, p)
  <2>1. CASE part = "target"
    <3>1. SecondPart(n) \in {"name", "member"}
      BY DEF SecondPart
    <3> QED
      BY <1>2, <1>3, <2>1, <3>1, PartsFollow DEF SizeAt
  <2>2. CASE part = "name"
    <3>1. HasPart(n, "member")
      BY DEF HasPart
    <3> QED
      BY <1>2, <1>3, <2>2, <3>1, PartsFollow DEF SizeAt
  <2> QED
    BY <2>1, <2>2
<1>7. h.type = "long_name" <=> p = "member" /\ members[n].name # 0
  BY <1>3, <1>5, <1>6 DEF SecondPart, HasPart
<1>8. h.type = "long_name" => h.offset = (At(n, "name") + 1) * BlockSize
  BY <1>5
<1>9. Files(headers) \o Listed(h) = Flat(AllListed, n - 1)
  <2>1. PICK S : Flat(AllListed, n - 1) \in Seq(S)
    BY <1>2, ListsAreSeqs
  <2>2. Flat(AllListed, n - 1) \o <<>> = Flat(AllListed, n - 1)
    BY <2>1
  <2> QED
    BY <1>3, <1>5, <2>2
<1>10. offset' = At(n, p) * BlockSize
  BY <1>1, <1>6
<1>11. Before(n, p)'
  BY <1>1, <1>3, <1>4, <1>5, <1>6, <1>7, <1>8, <1>9, <1>10, Arrive
<1>12. status' = "parsing"
  BY <1>2, <1>6, <1>10, StatusAtHeader
<1>13. n \in DOMAIN members'
  BY <1>1
<1> QED
  BY <1>6, <1>11, <1>12, <1>13 DEF Arrived

(* After the data of the member comes the next member, or a zero block.    *)
LEMMA MemberRead ==
  ASSUME WholeArchive, Complete, NEW n \in DOMAIN members, Before(n, "member"),
         members[n].kind.readable, Append_(Header(HeaderAt(n, "member")))
  PROVE  \/ status' = "parsing" /\ Arrived'
         \/ status' = "parsed" /\ Listing'
<1> DEFINE h == Header(HeaderAt(n, "member"))
           N == Len(members)
<1>1. /\ HeaderOK(h, n, "member") /\ headers \in Seq(ParsedHeader)
      /\ headers' = Append(headers, h) /\ UNCHANGED <<members, lost, mapped>>
      /\ offset' = (At(n, "member") + 1 + Blocks(SizeAt(n, "member"))) * BlockSize
  BY Appending
<1>2. members \in Seq(Member) /\ Append_(h)
  BY DEF WholeArchive
<1>3. /\ Files(headers) = Flat(AllListed, n - 1)
      /\ \A k \in 1 .. n - 1 : members[k].kind.readable
  BY DEF Before
<1>4. n \in Nat /\ n >= 1 /\ n <= N /\ N \in Nat /\ DOMAIN members = 1 .. N
  BY <1>2, AllEntriesAre, AllAreSeqs
<1>5. /\ h \in ParsedHeader /\ Listed(h) = Listed(Written[n]) /\ h.type # "long_name"
  BY <1>1 DEF HeaderOK
<1>6. offset' = End(n) * BlockSize
  BY <1>1, <1>2, PartsFollow DEF SizeAt
<1>7. Files(headers) \o Listed(h) = Flat(AllListed, n)
  BY <1>2, <1>3, <1>5, WrittenNext
<1>8. \A k \in 1 .. n : members[k].kind.readable
  BY <1>3, <1>4
<1> HIDE DEF h
<1>9. CASE n = N
  <2>1. status' = "parsed"
    BY <1>2, <1>6, <1>9, StatusAtEnd
  <2>2. Readable
    BY <1>4, <1>8, <1>9 DEF Readable
  <2>3. Files(headers') = Files(Written)
    <3>1. Files(Append(headers, h)) = Files(headers) \o Listed(h)
      BY <1>1, <1>5, FilesAppend
    <3>2. Files(Written) = Flat(AllListed, n)
      BY <1>2, <1>9, WrittenAll
    <3> QED
      BY <1>1, <1>7, <3>1, <3>2
  <2>4. Readable' /\ Files(headers)' = Files(Written)'
    <3>1. Readable' = Readable /\ Written' = Written
      BY <1>1, SameArchive
    <3>2. Files(headers)' = Files(headers') /\ Files(Written)' = Files(Written')
      BY DEF Files, Listed, HasContent, Place
    <3> QED
      BY <2>2, <2>3, <3>1, <3>2
  <2> QED
    BY <2>1, <2>4 DEF Listing
<1>10. CASE n # N
  <2> DEFINE m == n + 1
  <2>1. m \in DOMAIN members /\ m - 1 = n /\ m \in Nat
    BY <1>4, <1>10
  <2> HIDE DEF m
  <2>2. PICK p \in {"target", "name", "member"} : p = FirstPart(m)
    BY DEF FirstPart
  <2>3. HasPart(m, p) /\ At(m, p) = End(n)
    BY <1>2, <2>1, <2>2, PartsFollow
  <2>4. ~ (p = "member" /\ members[m].name # 0)
    BY <2>2 DEF FirstPart
  <2>5. offset' = At(m, p) * BlockSize
    BY <1>6, <2>3
  <2>6. status' = "parsing"
    BY <1>2, <2>1, <2>3, <2>5, StatusAtHeader
  <2>7. Before(m, p)'
    BY <1>1, <1>5, <1>7, <1>8, <2>1, <2>3, <2>4, <2>5, Arrive
  <2>8. m \in DOMAIN members'
    BY <1>1, <2>1
  <2> QED
    BY <2>2, <2>6, <2>7, <2>8 DEF Arrived
<1> QED
  BY <1>9, <1>10

-------------------------------------------------------------------------------
(* One step.  In an archive with members the loop ends where they do; in   *)
(* one without there is a zero block from the start.                       *)
LEMMA HeaderStep ==
  ASSUME Inductive, Complete, members # <<>>, ReadHeader
  PROVE  /\ UNCHANGED <<members, lost, mapped>>
         /\ \/ status' = "parsing" /\ Arrived'
            \/ status' = "parsed" /\ Listing'
            \/ status' = "failed" /\ ~ Readable
<1>1. status = "parsing" /\ WholeArchive
  BY DEF ReadHeader, Inductive
<1>2. PICK n \in DOMAIN members : \E part \in {"target", "name", "member"} : Before(n, part)
  BY <1>1 DEF Inductive, Arrived
<1>3. PICK part \in {"target", "name", "member"} : Before(n, part)
  BY <1>2
<1>4. BlockAt(offset) = HeaderAt(n, part)
  BY <1>1, <1>3, Reading
<1>5. CASE BlockAt(offset).readable /\ Append_(Header(BlockAt(offset)))
  <2>1. UNCHANGED <<members, lost, mapped>>
    BY <1>5 DEF Append_
  <2>2. CASE part \in {"target", "name"}
    BY <1>1, <1>3, <1>4, <1>5, <2>1, <2>2, LongPartRead
  <2>3. CASE part = "member"
    <3>1. members[n].kind.readable
      BY <1>4, <1>5, <2>3 DEF HeaderAt, MemberHeader, HeaderOf
    <3> QED
      BY <1>1, <1>3, <1>4, <1>5, <2>1, <2>3, <3>1, MemberRead
  <2> QED
    BY <1>3, <2>2, <2>3
<1>6. CASE /\ BlockAt(offset).kind = "header" => ~ BlockAt(offset).readable
           /\ status' = "failed" /\ UNCHANGED <<members, lost, mapped>>
  <2>1. HeaderAt(n, part).kind = "header" /\ ~ HeaderAt(n, part).readable
    BY <1>4, <1>6 DEF HeaderAt, LongHeader, MemberHeader, HeaderOf
  <2>2. part = "member"
    BY <1>3, <2>1 DEF HeaderAt, LongHeader, HeaderOf
  <2>3. ~ members[n].kind.readable
    BY <2>1, <2>2 DEF HeaderAt, MemberHeader, HeaderOf
  <2> QED
    BY <1>6, <2>3 DEF Readable
<1> QED
  BY <1>5, <1>6 DEF ReadHeader

(* No zero block and no end of the file is met among the members.          *)
LEMMA NoZeroBlock ==
  ASSUME Inductive, Complete, members # <<>>
  PROVE  ~ ReadZeroBlock /\ ~ EndLoop
<1> SUFFICES ASSUME status = "parsing" PROVE ~ ReadZeroBlock /\ ~ EndLoop
  BY DEF ReadZeroBlock, EndLoop
<1>1. PICK n \in DOMAIN members : \E part \in {"target", "name", "member"} : Before(n, part)
  BY DEF Inductive, Arrived
<1>2. PICK part \in {"target", "name", "member"} : Before(n, part)
  BY <1>1
<1>3. BlockAt(offset) = HeaderAt(n, part) /\ MoreBlocks
  BY <1>2, Reading DEF Inductive
<1>4. BlockAt(offset).kind = "header"
  BY <1>3 DEF HeaderAt, LongHeader, MemberHeader, HeaderOf
<1> QED
  BY <1>3, <1>4 DEF ReadZeroBlock, EndLoop

(* An archive without members has no files.                                *)
LEMMA NothingWritten ==
  ASSUME members = <<>>
  PROVE  Readable /\ Files(Written) = <<>>
<1>1. DOMAIN members = {} /\ members \in Seq(Member) /\ Len(members) = 0
  OBVIOUS
<1>2. Files(Written) = Flat(AllListed, 0)
  BY <1>1, WrittenAll
<1> QED
  BY <1>1, <1>2, FlatEmpty DEF Readable

(* No headers list no files.                                               *)
LEMMA NothingListed == Files(<<>>) = <<>>
<1> DEFINE e == <<>>
<1>1. First(e, 0) = [n \in DOMAIN <<>> |-> Listed(<<>>[n])]
  BY DEF First
<1>2. Flat(e, 0) = <<>>
  BY FlatEmpty
<1> QED
  BY <1>1, <1>2 DEF Files, Flat

(* Without members all blocks there are, are zero.                         *)
LEMMA AllZero ==
  ASSUME WholeArchive, Complete, members = <<>>, NEW q \in Nat, q * BlockSize < size
  PROVE  BlockAt(q * BlockSize).kind = "zero"
<1> DEFINE len == Len(mapped)
<1>1. Len(members) = 0 /\ End(0) = 0
  BY FlatEmpty DEF End, Laid
<1>2. len \in Nat /\ \A k \in 1 .. len : mapped[k].kind = "zero"
  BY <1>1, MappedIs
<1> HIDE DEF len
<1>3. q < len
  <2>1. q * BlockSize < len * BlockSize
    BY DEF size, len
  <2> QED
    BY <1>2, <2>1, Offsets
<1>4. (q * BlockSize) \div BlockSize = q
  BY <1>2, Offsets
<1> QED
  BY <1>2, <1>3, <1>4 DEF BlockAt

(* What the parser does there: it lists nothing, or reads before the file. *)
LEMMA EmptyStep ==
  ASSUME Inductive, Complete, members = <<>>, status = "parsing",
         ReadHeader \/ ReadZeroBlock \/ EndLoop
  PROVE  /\ UNCHANGED <<members, lost, mapped>>
         /\ \/ status' = "parsed" /\ Listing'
            \/ status' = "crashed"
<1>1. offset = 0 /\ headers = <<>> /\ WholeArchive
  BY DEF Inductive
<1>2. Readable /\ Files(Written) = <<>>
  BY NothingWritten
<1>3. ASSUME UNCHANGED <<members, lost, mapped>>, Files(headers') = <<>>
      PROVE  Listing'
  <2>1. Readable' = Readable /\ Written' = Written
    BY <1>3, SameArchive
  <2>2. Files(headers)' = Files(headers') /\ Files(Written)' = Files(Written')
    BY DEF Files, Listed, HasContent, Place
  <2> QED
    BY <1>2, <1>3, <2>1, <2>2 DEF Listing
<1>4. CASE ReadHeader
  <2>1. 0 * BlockSize = 0 /\ Len(mapped) \in Nat
    BY <1>1, MappedIs
  <2>2. 0 * BlockSize < size
    BY <1>1, <1>4, <2>1 DEF ReadHeader, MoreBlocks, size
  <2>3. BlockAt(offset).kind = "zero"
    BY <1>1, <2>1, <2>2, AllZero
  <2> QED
    BY <1>4, <2>3 DEF ReadHeader
<1>5. CASE EndLoop
  BY <1>1, <1>3, <1>5, NothingListed DEF EndLoop
<1>6. CASE ReadZeroBlock
  <2>1. CASE status' = "crashed" /\ UNCHANGED <<members, lost, mapped>>
    BY <2>1
  <2>2. ASSUME NEW type,
               Append_([type |-> type, size |-> 0, name |-> NoName, offset |-> offset + BlockSize])
        PROVE  /\ UNCHANGED <<members, lost, mapped>>
               /\ \/ status' = "parsed" /\ Listing'
                  \/ status' = "crashed"
    <3> DEFINE h == [type |-> type, size |-> 0, name |-> NoName, offset |-> offset + BlockSize]
    <3>1. /\ headers' = Append(headers, h) /\ UNCHANGED <<members, lost, mapped>>
          /\ offset' = NextOffset(h.size) /\ h.size = 0 /\ Append_(h)
      BY <2>2 DEF Append_
    <3> HIDE DEF h
    <3>2. Listed(h) = <<>>
      BY <3>1 DEF Listed, HasContent
    <3>3. Files(Append(headers, h)) = Files(headers) \o Listed(h)
      <4>1. headers \in Seq({h}) /\ h \in {h}
        BY <1>1
      <4> QED
        BY <4>1, FilesAppend
    <3>4. Listing'
      BY <1>1, <1>3, <3>1, <3>2, <3>3, NothingListed
    <3>5. status' # "parsing"
      <4>1. offset' = (0 + 1 + Blocks(0)) * BlockSize
        <5>1. offset = 0 * BlockSize
          BY <1>1
        <5> QED
          BY <3>1, <5>1, NextOffsetIs
      <4> DEFINE q == 0 + 1 + Blocks(0)
      <4>2. q \in Nat
        BY BlocksIs
      <4> HIDE DEF q
      <4>3. offset' < size => Ends(offset')
        BY <1>1, <4>1, <4>2, AllZero DEF Ends, q
      <4> QED
        BY <3>1, <4>3 DEF Append_
    <3> QED
      BY <3>1, <3>4, <3>5 DEF Append_
  <2> QED
    BY <1>6, <2>1, <2>2 DEF ReadZeroBlock
<1> QED
  BY <1>4, <1>5, <1>6

(* load_tar puts the reader before the first member.                       *)
LEMMA LoadStep ==
  ASSUME WholeArchive, members # <<>>, offset = 0, headers = <<>>
  PROVE  Arrived
<1>1. members \in Seq(Member)
  BY DEF WholeArchive
<1>2. 1 \in DOMAIN members
  BY <1>1, AllAreSeqs
<1>3. PICK p \in {"target", "name", "member"} : p = FirstPart(1)
  BY DEF FirstPart
<1>4. At(1, p) = End(1 - 1) /\ HasPart(1, p)
  BY <1>1, <1>2, <1>3, PartsFollow
<1>5. End(1 - 1) = 0
  BY FlatEmpty DEF End, Laid
<1>6. Flat(AllListed, 1 - 1) = <<>>
  BY FlatEmpty
<1>7. Files(headers) = Flat(AllListed, 1 - 1) /\ headers \in Seq(ParsedHeader)
  BY <1>6, NothingListed
<1>8. ~ (p = "member" /\ members[1].name # 0)
  BY <1>3 DEF FirstPart
<1>9. ~ AfterLongName
  BY DEF AfterLongName
<1>10. offset = At(1, p) * BlockSize
  BY <1>4, <1>5
<1>11. Before(1, p)
  BY <1>4, <1>7, <1>8, <1>9, <1>10 DEF Before
<1> QED
  BY <1>2, <1>11 DEF Arrived

(* The invariant holds at the start.                                       *)
LEMMA InductiveInit == Init => Inductive
<1> SUFFICES ASSUME Init
             PROVE  Inductive
  OBVIOUS
<1>1. members \in Seq(Member)
  BY DEF Init, SeqOf
<1>2. WholeArchive
  BY <1>1 DEF Init, WholeArchive
<1> QED
  BY <1>2 DEF Init, Inductive, Crashed

(* Nothing the invariant says of a step that leaves what it is about.      *)
LEMMA ArrivedStays ==
  ASSUME UNCHANGED <<members, lost, mapped, offset, headers>>
  PROVE  Arrived' = Arrived /\ Listing' = Listing
<1>1. /\ \A k : End(k)' = End(k)
      /\ AllListed' = AllListed /\ Readable' = Readable /\ Written' = Written
  BY SameArchive
<1>2. \A k, p : At(k, p)' = At(k, p)
  BY <1>1 DEF At, Long
<1>3. \A hs : Files(hs)' = Files(hs)
  BY DEF Files, Listed, HasContent, Place
<1>4. Files(headers)' = Files(headers) /\ Files(Written)' = Files(Written)
  BY <1>1 DEF Files, Listed, HasContent, Place
<1>5. \A n, p : Before(n, p)' = Before(n, p)
  BY <1>1, <1>2, <1>4
    DEF Before, HasPart, Flat, First, AfterLongName, prev, ParsedHeader
<1> QED
  BY <1>1, <1>4, <1>5 DEF Arrived, Listing

(* Every step keeps it.                                                    *)
LEMMA InductiveStep == Inductive /\ [Next]_vars => Inductive'
<1> SUFFICES ASSUME Inductive, [Next]_vars
             PROVE  Inductive'
  OBVIOUS
<1> DEFINE Same == UNCHANGED <<members, lost, mapped>>
<1>1. ASSUME Same PROVE WholeArchive' /\ Complete' = Complete /\ Readable' = Readable
  BY <1>1, SameArchive DEF Inductive
<1>2. Same
  BY DEF Next, LoadTar, ReadHeader, Append_, ReadZeroBlock, ReadUnmapped, EndLoop, Ended, vars
<1> SUFFICES ASSUME Complete
             PROVE  Inductive'
  BY <1>1, <1>2 DEF Inductive
<1>3. WholeArchive' /\ Complete' /\ Readable' = Readable
  BY <1>1, <1>2
<1>4. CASE UNCHANGED vars
  <2>1. Arrived' = Arrived /\ Listing' = Listing
    BY <1>4, ArrivedStays DEF vars
  <2> QED
    BY <1>3, <1>4, <2>1 DEF Inductive, Crashed, vars
<1>5. CASE LoadTar
  <2>1. offset = 0 /\ headers = <<>> /\ WholeArchive
    BY <1>5 DEF LoadTar, Inductive
  <2>2. Arrived' = Arrived
    BY <1>5, ArrivedStays DEF LoadTar
  <2>3. members # <<>> => Arrived'
    BY <2>1, <2>2, LoadStep
  <2>4. status' \in {"refused", "parsing"} /\ offset' = 0 /\ headers' = <<>>
    BY <1>5, <2>1 DEF LoadTar
  <2>5. members # <<>> => Crashed'
    BY <1>5 DEF LoadTar, Inductive, Crashed
  <2> QED
    BY <1>2, <1>3, <2>3, <2>4, <2>5 DEF Inductive
<1>6. CASE ReadHeader \/ ReadZeroBlock \/ EndLoop
  <2>1. CASE members = <<>>
    <3>1. status = "parsing"
      BY <1>6 DEF ReadHeader, ReadZeroBlock, EndLoop
    <3>2. \/ status' = "parsed" /\ Listing'
          \/ status' = "crashed"
      BY <1>6, <2>1, <3>1, EmptyStep
    <3> QED
      BY <1>2, <1>3, <2>1, <3>2 DEF Inductive
  <2>2. CASE members # <<>>
    <3>1. ReadHeader
      BY <1>6, <2>2, NoZeroBlock
    <3>2. \/ status' = "parsing" /\ Arrived'
          \/ status' = "parsed" /\ Listing'
          \/ status' = "failed" /\ ~ Readable
      BY <2>2, <3>1, HeaderStep
    <3>3. mapping = "made" /\ mapping' = mapping
      BY <3>1 DEF ReadHeader, Append_
    <3>4. Crashed'
      BY <3>2, <3>3 DEF Crashed
    <3> QED
      BY <1>2, <1>3, <2>2, <3>2, <3>4 DEF Inductive
  <2> QED
    BY <2>1, <2>2
<1>7. CASE ReadUnmapped
  <2>1. status' = "crashed" /\ mapping = "failed" /\ mapping' = mapping
    BY <1>7 DEF ReadUnmapped
  <2>2. Crashed'
    BY <2>1 DEF Crashed
  <2> QED
    BY <1>2, <1>3, <2>1, <2>2 DEF Inductive
<1> QED
  BY <1>4, <1>5, <1>6, <1>7 DEF Next, Ended

(* While the reader is at work it is before a header that the archive's    *)
(* writer put there, and has listed what the members before it are.        *)
THEOREM InductiveCorrect == Spec => []Inductive
BY InductiveInit, InductiveStep, PTL DEF Spec

(* parse_tar gives the programs exactly the files with content, in order,  *)
(* with their names, sizes and places; or, if one member cannot be read,   *)
(* no list at all.                                                         *)
THEOREM FilesAreRead == Spec => []FilesAreThose
<1>1. Inductive => FilesAreThose
  BY DEF Inductive, Listing, FilesAreThose
<1> QED
  BY <1>1, InductiveCorrect, PTL

(* parse_tar stays inside the file, if there is a member and, at the end,  *)
(* a zero block in it, and mmap gave the file; if it did not, there is     *)
(* nothing to stay in: the reader crashes, and gives no list.              *)
THEOREM ReaderStaysInside == Spec => []ReadsInside
<1>1. Inductive => ReadsInside
  BY DEF Inductive, Crashed, ReadsInside
<1> QED
  BY <1>1, InductiveCorrect, PTL

-------------------------------------------------------------------------------
(* The vector of files.                                                    *)
USE ListConstantsOK DEF ListConstantsOK

(* The end of a sequence, and the rest of it. *)
LEMMA Appended ==
  ASSUME NEW S, NEW q \in Seq(S), NEW x \in S
  PROVE  /\ Append(q, x) \in Seq(S) /\ Len(q) \in Nat
         /\ Len(Append(q, x)) = Len(q) + 1
         /\ \A k \in 1 .. Len(q) : Append(q, x)[k] = q[k]
         /\ Append(q, x)[Len(q) + 1] = x
         /\ DOMAIN q = 1 .. Len(q) /\ DOMAIN Append(q, x) = 1 .. Len(q) + 1
OBVIOUS

(* linuxaio_read_files gives a file whole pages, and enough of them. *)
LEMMA WholePages ==
  ASSUME program = "linuxaio_read", NEW s \in Nat
  PROVE  /\ Room(s) \in Nat /\ s <= Room(s)
         /\ \A t \in Nat : t % PageSize = 0 => (t + Room(s)) % PageSize = 0
<1> DEFINE P == PageSize
           q == s \div P
           r == s % P
           k == IF r # 0 THEN q + 1 ELSE q
<1>1. P \in Nat \ {0} /\ q \in Nat /\ r \in 0 .. P - 1 /\ s = P * q + r
  OBVIOUS
<1>2. \A j \in Nat : (P * j) % P = 0
  OBVIOUS
<1>3. Room(s) = (q + (IF r # 0 THEN 1 ELSE 0)) * P
  BY DEF Room
<1>4. \A t \in Nat : t % P = 0 => t \div P \in Nat /\ t = P * (t \div P)
  OBVIOUS
<1> HIDE DEF q, r, P
<1>5. k \in Nat /\ Room(s) = P * k
  BY <1>1, <1>3
<1>6. P * k \in Nat /\ s <= P * k
  <2>1. CASE r = 0
    BY <1>1, <2>1
  <2>2. CASE r # 0
    <3>1. P * (q + 1) = P * q + P /\ P * q \in Nat
      BY <1>1
    <3> QED
      BY <1>1, <2>2, <3>1
  <2> QED
    BY <2>1, <2>2
<1> HIDE DEF k
<1>7. ASSUME NEW t \in Nat, t % P = 0
      PROVE  (t + Room(s)) % P = 0
  <2>1. PICK j \in Nat : t = P * j
    BY <1>4, <1>7
  <2>2. t + Room(s) = P * (j + k) /\ j + k \in Nat
    BY <1>1, <1>5, <2>1
  <2> QED
    BY <1>2, <2>2
<1> QED
  BY <1>5, <1>6, <1>7 DEF P

(* Every file takes a number of bytes.                                     *)
LEMMA RoomType == \A s \in Nat : Room(s) \in Nat
<1> SUFFICES ASSUME NEW s \in Nat
             PROVE  Room(s) \in Nat
  OBVIOUS
<1>1. CASE program = "linuxaio_read"
  BY <1>1, WholePages
<1>2. CASE program # "linuxaio_read"
  BY <1>2 DEF Room
<1> QED
  BY <1>1, <1>2
-------------------------------------------------------------------------------
(* An empty vector has its elements where they should be.                  *)
LEMMA ListInductiveInit == ListInit => ListInductive
<1> SUFFICES ASSUME ListInit
             PROVE  ListInductive
  OBVIOUS
<1>1. Elements = {}
  BY DEF ListInit, Elements
<1>2. Shape
  BY DEF ListInit, Shape
<1>3. 0 % PageSize = 0
  OBVIOUS
<1> QED
  BY <1>1, <1>2, <1>3 DEF ListInit, ListInductive, SelfIsCurrent, PartsInOrder

(* What emplace_back does to the three lists, whether the vector had room  *)
(* for one more element or not.                                            *)
LEMMA Emplaced ==
  ASSUME ListInductive, NEW s \in Nat, Emplace(s)
  PROVE  /\ sizes' = Append(sizes, s)
         /\ memory' \in Nat /\ capacity' \in Nat
         /\ \E moved \in Seq(Nat) :
              /\ Len(moved) = Len(sizes)
              /\ program = "linuxaio_read" => moved = offsets
              /\ offsets' = Append(moved, total_size)
         /\ \E moved \in Seq(Nat \X Nat) :
              /\ Len(moved) = Len(sizes)
              /\ \A n \in 1 .. Len(sizes) : moved[n] = Address(memory', n)
              /\ self' = Append(moved, Address(memory', Len(sizes) + 1))
<1>s. Shape /\ SelfIsCurrent
  BY DEF ListInductive
<1>d. Len(sizes) \in Nat /\ Elements = 1 .. Len(sizes)
  BY <1>s DEF Shape, Elements
<1>1. sizes' = Append(sizes, s)
  BY DEF Emplace
<1>2. CASE Len(sizes) < capacity /\ UNCHANGED <<memory, capacity>>
           /\ offsets' = Append(offsets, total_size)
           /\ self' = Append(self, Address(memory, Len(sizes) + 1))
  BY <1>1, <1>2, <1>d, <1>s DEF Shape, SelfIsCurrent
<1>3. CASE /\ memory' = memory + 1 /\ capacity' = Grown(capacity)
           /\ \E moved \in MovedOffsets : offsets' = Append(moved, total_size)
           /\ self' = Append(MovedSelf(memory'), Address(memory', Len(sizes) + 1))
  <2>1. memory' \in Nat /\ capacity' \in Nat
    BY <1>3, <1>s DEF Shape, Grown
  <2>2. PICK moved \in MovedOffsets : offsets' = Append(moved, total_size)
    BY <1>3
  <2>3. moved \in Seq(Nat) /\ Len(moved) = Len(sizes)
    <3>1. CASE program = "linuxaio_read"
      BY <1>s, <2>2, <3>1 DEF MovedOffsets, Shape
    <3>2. CASE program # "linuxaio_read"
      <4>1. moved \in [1 .. Len(sizes) -> Nat]
        BY <1>d, <2>2, <3>2 DEF MovedOffsets
      <4> QED
        BY <1>d, <4>1
    <3> QED
      BY <3>1, <3>2
  <2>4. program = "linuxaio_read" => moved = offsets
    BY <2>2 DEF MovedOffsets
  <2>5. /\ MovedSelf(memory') \in Seq(Nat \X Nat)
        /\ Len(MovedSelf(memory')) = Len(sizes)
        /\ \A n \in 1 .. Len(sizes) : MovedSelf(memory')[n] = Address(memory', n)
    <3>1. MovedSelf(memory') = [n \in 1 .. Len(sizes) |-> <<memory', n>>]
      BY <1>d DEF MovedSelf, Address
    <3>2. \A n \in 1 .. Len(sizes) : <<memory', n>> \in Nat \X Nat
      BY <1>d, <2>1
    <3>3. MovedSelf(memory') \in [1 .. Len(sizes) -> Nat \X Nat]
      BY <3>1, <3>2
    <3> QED
      BY <1>d, <3>1, <3>3 DEF Address
  <2> QED
    BY <1>1, <1>3, <2>1, <2>2, <2>3, <2>4, <2>5
<1> QED
  BY <1>2, <1>3 DEF Emplace

(* One more file keeps the parts in order and the pointers current.        *)
LEMMA EmplaceStep ==
  ASSUME ListInductive, NEW s \in Nat, Emplace(s), total_size' = total_size + Room(s),
         program' = program
  PROVE  ListInductive'
<1> DEFINE len == Len(sizes)
<1>s. Shape /\ SelfIsCurrent /\ PartsInOrder
  BY DEF ListInductive
<1>t. len \in Nat /\ total_size \in Nat /\ Elements = 1 .. len
  BY <1>s DEF Shape, Elements
<1>1. /\ sizes' = Append(sizes, s) /\ memory' \in Nat /\ capacity' \in Nat
  BY Emplaced
<1>2. PICK o \in Seq(Nat) : /\ Len(o) = len
                            /\ program = "linuxaio_read" => o = offsets
                            /\ offsets' = Append(o, total_size)
  BY Emplaced
<1>3. PICK p \in Seq(Nat \X Nat) : /\ Len(p) = len
                                   /\ \A n \in 1 .. len : p[n] = Address(memory', n)
                                   /\ self' = Append(p, Address(memory', len + 1))
  BY Emplaced
<1>4. /\ sizes' \in Seq(Nat) /\ Len(sizes') = len + 1 /\ sizes'[len + 1] = s
      /\ \A n \in 1 .. len : sizes'[n] = sizes[n]
      /\ Elements' = 1 .. len + 1
  BY <1>s, <1>1, Appended DEF Shape, Elements
<1>5. /\ offsets' \in Seq(Nat) /\ Len(offsets') = len + 1
      /\ offsets'[len + 1] = total_size
      /\ \A n \in 1 .. len : offsets'[n] = o[n]
  BY <1>t, <1>2, Appended
<1>6. /\ self' \in Seq(Nat \X Nat) /\ Len(self') = len + 1
      /\ self'[len + 1] = Address(memory', len + 1)
      /\ \A n \in 1 .. len : self'[n] = Address(memory', n)
  <2>1. Address(memory', len + 1) \in Nat \X Nat
    BY <1>t, <1>1 DEF Address
  <2> QED
    BY <1>3, <2>1, Appended
<1> HIDE DEF len
<1>7. total_size' \in Nat
  <2>1. Room(s) \in Nat
    BY RoomType
  <2> QED
    BY <1>t, <2>1
<1>8. Shape'
  BY <1>1, <1>4, <1>5, <1>6, <1>7 DEF Shape
<1>9. \A n \in 1 .. len + 1 : n \in 1 .. len \/ n = len + 1
  BY <1>t
<1>10. SelfIsCurrent'
  BY <1>4, <1>6, <1>9 DEF SelfIsCurrent
<1>11. PartsInOrder'
  <2>1. SUFFICES ASSUME program = "linuxaio_read"
                 PROVE  /\ total_size' % PageSize = 0
                        /\ \A n \in Elements' :
                             /\ offsets'[n] % PageSize = 0
                             /\ offsets'[n] + sizes'[n] <= total_size'
                             /\ \A m \in Elements' : m < n => offsets'[m] + sizes'[m] <= offsets'[n]
    BY DEF PartsInOrder
  <2>2. /\ total_size % PageSize = 0
        /\ \A n \in 1 .. len :
             /\ offsets[n] % PageSize = 0
             /\ offsets[n] + sizes[n] <= total_size
             /\ \A m \in 1 .. len : m < n => offsets[m] + sizes[m] <= offsets[n]
    BY <1>s, <1>t, <2>1 DEF PartsInOrder
  <2>3. Room(s) \in Nat /\ s <= Room(s) /\ total_size' % PageSize = 0
    BY <1>t, <2>1, <2>2, WholePages
  <2>4. \A n \in 1 .. len : /\ offsets'[n] = offsets[n] /\ sizes'[n] = sizes[n]
                            /\ offsets[n] \in Nat /\ sizes[n] \in Nat
    <3>1. o = offsets
      BY <1>2, <2>1
    <3>2. /\ sizes \in Seq(Nat) /\ offsets \in Seq(Nat)
          /\ Len(offsets) = len /\ Len(sizes) = len
      BY <1>s DEF Shape, len
    <3>3. \A n \in 1 .. len : offsets[n] \in Nat /\ sizes[n] \in Nat
      BY <3>2
    <3> QED
      BY <1>4, <1>5, <3>1, <3>3
  <2>5. ASSUME NEW n \in 1 .. len
        PROVE  /\ offsets'[n] % PageSize = 0
               /\ offsets'[n] + sizes'[n] <= total_size'
               /\ \A m \in 1 .. len + 1 : m < n => offsets'[m] + sizes'[m] <= offsets'[n]
    <3>1. \A m \in 1 .. len + 1 : m < n => m \in 1 .. len
      BY <1>t
    <3>2. /\ offsets'[n] = offsets[n] /\ sizes'[n] = sizes[n]
          /\ offsets[n] \in Nat /\ sizes[n] \in Nat
          /\ offsets[n] % PageSize = 0 /\ offsets[n] + sizes[n] <= total_size
      BY <2>2, <2>4
    <3>3. offsets[n] + sizes[n] <= total_size'
      <4> DEFINE room == Room(s)
      <4>1. room \in Nat /\ total_size' = total_size + room
        BY <2>3
      <4> HIDE DEF room
      <4> QED
        BY <1>t, <3>2, <4>1
    <3> QED
      BY <2>2, <2>4, <3>1, <3>2, <3>3
  <2>6. ASSUME NEW n, n = len + 1
        PROVE  /\ offsets'[n] % PageSize = 0
               /\ offsets'[n] + sizes'[n] <= total_size'
               /\ \A m \in 1 .. len + 1 : m < n => offsets'[m] + sizes'[m] <= offsets'[n]
    <3>1. \A m \in 1 .. len + 1 : m < n => m \in 1 .. len
      BY <1>t, <2>6
    <3>2. offsets'[n] = total_size /\ sizes'[n] = s
      BY <1>4, <1>5, <2>6
    <3>3. total_size + s <= total_size'
      <4> DEFINE room == Room(s)
      <4>1. room \in Nat /\ s <= room /\ total_size' = total_size + room
        BY <2>3
      <4> HIDE DEF room
      <4> QED
        BY <1>t, <4>1
    <3>4. \A m \in 1 .. len : offsets'[m] + sizes'[m] <= total_size
      BY <2>2, <2>4
    <3> QED
      BY <2>2, <3>1, <3>2, <3>3, <3>4
  <2> QED
    BY <1>4, <1>9, <2>3, <2>5, <2>6
<1> QED
  BY <1>8, <1>10, <1>11 DEF ListInductive

(* Nothing else the program does disturbs them.                            *)
LEMMA ListInductiveStep == ListInductive /\ [ListNext]_listVars => ListInductive'
<1> SUFFICES ASSUME ListInductive, [ListNext]_listVars
             PROVE  ListInductive'
  OBVIOUS
<1>0. CASE UNCHANGED <<program, sizes, offsets, self, memory, capacity, total_size>>
  BY <1>0 DEF ListInductive, Shape, SelfIsCurrent, PartsInOrder, Elements
<1>1. CASE Allocate \/ ListEnded \/ UNCHANGED listVars
  BY <1>0, <1>1 DEF Allocate, ListEnded, listVars
<1>2. ASSUME NEW s \in FileSizes, LoadFile(s)
      PROVE  ListInductive'
  BY <1>0, <1>2, EmplaceStep DEF LoadFile
<1> QED
  BY <1>1, <1>2 DEF ListNext

(* The parts of the buffer follow each other, and every element points to  *)
(* itself.                                                                 *)
THEOREM ListInductiveCorrect == ListSpec => []ListInductive
BY ListInductiveInit, ListInductiveStep, PTL DEF ListSpec

(* The pointer the kernel hands back is the element, in whatever memory    *)
(* the vector has moved it to.                                             *)
THEOREM SelfFollowsMoves == ListSpec => []SelfIsCurrent
<1>1. ListInductive => SelfIsCurrent
  BY DEF ListInductive
<1> QED
  BY <1>1, ListInductiveCorrect, PTL

(* linuxaio_read_files reads every file into pages of its own inside the   *)
(* buffer.                                                                 *)
THEOREM PartsAreAligned == ListSpec => []AlignedParts
<1>1. ASSUME ListInductive, program = "linuxaio_read", NEW n \in Elements
      PROVE  OwnPart(n) /\ offsets[n] % PageSize = 0
  <2>1. /\ offsets[n] % PageSize = 0
        /\ offsets[n] + sizes[n] <= total_size
        /\ \A m \in Elements : m < n => offsets[m] + sizes[m] <= offsets[n]
        /\ \A m \in Elements : n < m => offsets[n] + sizes[n] <= offsets[m]
    BY <1>1 DEF ListInductive, PartsInOrder
  <2>2. \A m \in Elements \ {n} : m < n \/ n < m
    BY <1>1 DEF ListInductive, Shape, Elements
  <2> QED
    BY <2>1, <2>2 DEF OwnPart
<1>2. ListInductive => AlignedParts
  BY <1>1 DEF AlignedParts
<1> QED
  BY <1>2, ListInductiveCorrect, PTL
===============================================================================
