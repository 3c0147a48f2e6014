------------------------------- MODULE FileList -------------------------------
(***************************************************************************)
(* How aio_read_files and linuxaio_read_files list what they will read:    *)
(* load_files appends a file_t for every file that is not empty to the     *)
(* vector context->files and gives it the next part of one buffer.  The    *)
(* vector grows as they are appended, and then moves the elements it has   *)
(* to other memory, while each of them holds a pointer to itself for the   *)
(* kernel to hand back.                                                    *)
(*                                                                         *)
(* The names are its own, so that it can be extended together with TarFile.*)
(***************************************************************************)
EXTENDS Integers, Sequences

CONSTANTS
  Programs,            \* those of "aio_read" and "linuxaio_read" to look at
  FileSizes,           \* the sizes a file of the directory may have, in bytes
  MaxEntries,          \* bound: entries of the directory
  PageSize,            \* ctx.page_size
  Garbage              \* what memory that was never written may hold

ASSUME ListConstantsOK ==
  /\ Programs \subseteq {"aio_read", "linuxaio_read"}
  /\ FileSizes \subseteq Nat /\ Garbage \subseteq Nat
  /\ MaxEntries \in Nat /\ PageSize \in Nat \ {0}

VARIABLES
  program,
  entries,             \* entries of the directory seen
  sizes, offsets, self, \* of every element of context->files
  memory, capacity,    \* the memory the elements are in, and its room
  total_size,
  phase                \* "loading" or "reading"

listVars == <<program, entries, sizes, offsets, self, memory, capacity, total_size, phase>>

ListInit ==
  /\ program \in Programs
  /\ entries = 0
  /\ sizes = <<>> /\ offsets = <<>> /\ self = <<>>
  /\ memory = 0 /\ capacity = 0
  /\ total_size = 0
  /\ phase = "loading"

-------------------------------------------------------------------------------
(* Definitions named ..._Bug are not the program: each is a mistake one of *)
(* the properties at the end must notice.                                  *)

Address(m, n) == <<m, n>>
Elements == DOMAIN sizes

(* What the move constructors may make of the offsets of the elements: one *)
(* of them copies them, the other leaves them uninitialised.               *)
MovedOffsets ==
  IF program = "linuxaio_read" THEN {offsets} ELSE [Elements -> Garbage]

(* Both point the element in memory m to itself. *)
MovedSelf_Bug(m) == self
MovedSelf(m) == [n \in Elements |-> Address(m, n)]

(* The vector doubles when it is full. *)
Grown(room) == IF room = 0 THEN 1 ELSE 2 * room

(* emplace_back of a file_t whose part begins at total_size. *)
Emplace(s) ==
  LET last == Len(sizes) + 1 IN
  /\ sizes' = Append(sizes, s)
  /\ \/ /\ Len(sizes) < capacity
        /\ offsets' = Append(offsets, total_size)
        /\ self' = Append(self, Address(memory, last))
        /\ UNCHANGED <<memory, capacity>>
     \/ /\ Len(sizes) = capacity
        /\ memory' = memory + 1
        /\ capacity' = Grown(capacity)
        /\ \E moved \in MovedOffsets : offsets' = Append(moved, total_size)
        /\ self' = Append(MovedSelf(memory'), Address(memory', last))

(* How much of the buffer a file takes: one program aligns it to pages. *)
Room_Bug(s) == (s \div PageSize) * PageSize
Room(s) ==
  IF program = "linuxaio_read"
  THEN (s \div PageSize + (IF s % PageSize # 0 THEN 1 ELSE 0)) * PageSize
  ELSE s

(* load_files, for one more regular file of s bytes. *)
Counts(s) == s > 0
LoadFile(s) ==
  /\ phase = "loading"
  /\ entries < MaxEntries
  /\ entries' = entries + 1
  /\ IF Counts(s)
     THEN Emplace(s) /\ total_size' = total_size + Room(s)
     ELSE UNCHANGED <<sizes, offsets, self, memory, capacity, total_size>>
  /\ UNCHANGED <<program, phase>>

(* run: all files are listed; allocate total_size bytes for them. *)
Allocate ==
  /\ phase = "loading"
  /\ phase' = "reading"
  /\ UNCHANGED <<program, entries, sizes, offsets, self, memory, capacity, total_size>>

ListEnded == phase = "reading" /\ UNCHANGED listVars

ListNext == Allocate \/ ListEnded \/ \E s \in FileSizes : LoadFile(s)

ListSpec == ListInit /\ [][ListNext]_listVars
-------------------------------------------------------------------------------
(* The pointer the kernel hands back for an element is the element, in     *)
(* whatever memory it is after all moves.                                  *)
SelfIsCurrent == \A n \in Elements : self[n] = Address(memory, n)

(* The part of the buffer element n is read into is its own.               *)
OwnPart(n) ==
  /\ offsets[n] + sizes[n] <= total_size
  /\ \A m \in Elements \ {n} :
       \/ offsets[m] + sizes[m] <= offsets[n]
       \/ offsets[n] + sizes[n] <= offsets[m]

(* linuxaio_read_files reads every file into a part of its own that lies   *)
(* in the buffer and begins on a page, however often the vector has grown. *)
AlignedParts ==
  program = "linuxaio_read" =>
    \A n \in Elements : OwnPart(n) /\ offsets[n] % PageSize = 0

(* What they rest on: the parts follow each other and end at total_size,   *)
(* which is a whole number of pages in linuxaio_read_files.                *)
Shape ==
  /\ sizes \in Seq(Nat) /\ offsets \in Seq(Nat) /\ self \in Seq(Nat \X Nat)
  /\ Len(offsets) = Len(sizes) /\ Len(self) = Len(sizes)
  /\ memory \in Nat /\ capacity \in Nat /\ total_size \in Nat
PartsInOrder ==
  program = "linuxaio_read" =>
    /\ total_size % PageSize = 0
    /\ \A n \in Elements :
         /\ offsets[n] % PageSize = 0
         /\ offsets[n] + sizes[n] <= total_size
         /\ \A m \in Elements : m < n => offsets[m] + sizes[m] <= offsets[n]
ListInductive == Shape /\ SelfIsCurrent /\ PartsInOrder

(* Every file is read into a part of the buffer of its own. *)
EveryOwnPart == phase = "reading" => \A n \in Elements : OwnPart(n)
===============================================================================
