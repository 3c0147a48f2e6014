------------------------------- MODULE TarFile -------------------------------
(***************************************************************************)
(* load_tar and parse_tar: the tar archive whose files the programs write. *)
(* An archive is a sequence of blocks: for each member a header, followed  *)
(* by the blocks of its data; then zero blocks.  A member with a long name *)
(* (or a long link target) is preceded by a pseudo-member of type L (or K) *)
(* whose data is that name.                                                *)
(*                                                                         *)
(* Init writes an archive as GNU tar does, and may lose its last blocks;   *)
(* the actions parse it.  A name is the number of the member it belongs    *)
(* to, of a file's data only the length matters, and the fields of a       *)
(* header are numbers already: "readable" says whether parse_uint and the  *)
(* checksum accept them.                                                   *)
(***************************************************************************)
EXTENDS Integers, Sequences, SequencesExt

CONSTANTS
  BlockSize,           \* block_size
  Sizes,               \* the sizes a regular file may have, in bytes
  LongSizes,           \* the sizes of a long name or link; 0: it is not long
  MaxMembers,          \* bound: members of an archive
  TailBlocks,          \* zero blocks at the end of an archive
  LostBlocks           \* how many blocks an archive may have lost

ASSUME ConstantsOK ==
  /\ BlockSize \in Nat \ {0}
  /\ Sizes \subseteq Nat /\ LongSizes \subseteq Nat /\ LostBlocks \subseteq Nat
  /\ MaxMembers \in Nat /\ TailBlocks \in Nat \ {0}

VARIABLES
  members, lost,       \* what the archive was made of, and the blocks it lost
  mapped,              \* the blocks of the file
  mapping,             \* what mmap returned: "none" before, "made" or "failed"
  status,              \* "loading", "parsing", "parsed", "failed", "refused", "crashed"
  offset, headers      \* of parse_tar

vars == <<members, lost, mapped, mapping, status, offset, headers>>

(* The names a header may have: of member n, cut off after 100 bytes, of   *)
(* the pseudo-members, or none.                                            *)
Cut == -1
LongLink == -2
NoName == -3

Blocks(size) == size \div BlockSize + (IF size % BlockSize = 0 THEN 0 ELSE 1)

(* An entry is a header with its data: a block for each piece of it.       *)
Entry(type, size, name, text, readable) ==
  <<[kind |-> "header", type |-> type, size |-> size, name |-> name, readable |-> readable]>>
    \o [k \in 1 .. Blocks(size) |-> [kind |-> "data", text |-> text]]

(* Members: files; global headers (type g); directories, by their type or  *)
(* by the slash of their name; links; and members whose type or size       *)
(* parse_uint cannot read, such as the extended headers of type x.         *)
Kinds ==
  [type : {"regular", "global"}, size : Sizes, slash : {FALSE}, readable : {TRUE}]
    \cup [type : {"regular"}, size : {0}, slash : {TRUE}, readable : {TRUE}]
    \cup [type : {"directory", "link"}, size : {0}, slash : {FALSE}, readable : {TRUE}]
    \cup [type : {"regular"}, size : {0}, slash : {FALSE}, readable : {FALSE}]
Member == [kind : Kinds, name : LongSizes, target : LongSizes]

(* How GNU tar writes member n. *)
Entries(n, m) ==
  (IF m.target = 0 THEN <<>> ELSE Entry("long_link", m.target, LongLink, n, TRUE))
    \o (IF m.name = 0 THEN <<>> ELSE Entry("long_name", m.name, LongLink, n, TRUE))
    \o Entry(m.kind.type, m.kind.size,
             IF m.name # 0 THEN Cut ELSE n, n, m.kind.readable)

Archive ==
  FlattenSeq([n \in DOMAIN members |-> Entries(n, members[n])])
    \o [k \in 1 .. TailBlocks |-> [kind |-> "zero"]]

(* The size of the file, and the block at an offset of it. *)
size == Len(mapped) * BlockSize
BlockAt(o) == mapped[o \div BlockSize + 1]

Init ==
  /\ members \in SeqOf(Member, MaxMembers)
  /\ lost \in {l \in LostBlocks : l <= Len(Archive)}
  /\ mapped = SubSeq(Archive, 1, Len(Archive) - lost)
  /\ mapping = "none"
  /\ status = "loading"
  /\ offset = 0
  /\ headers = <<>>
-------------------------------------------------------------------------------
(* Definitions named ..._Bug are not the program: each is a mistake one of *)
(* the properties at the end must notice.                                  *)

(* load_tar may fail to open the file, and refuses one without a block.    *)
(* What mmap returns is not looked at: parse_tar is called with it.        *)
LoadTar ==
  /\ status = "loading"
  /\ \/ status' = "refused" /\ UNCHANGED mapping
     \/ size >= BlockSize /\ status' = "parsing" /\ mapping' \in {"made", "failed"}
  /\ UNCHANGED <<members, lost, mapped, offset, headers>>

prev == Last(headers)
AfterLongName == headers # <<>> /\ prev.type = "long_name"

(* The header read_header makes of block b.  A name after an L is where    *)
(* the data of the L is.  Only names in the header itself make directories.*)
Name_Bug(b) == b.name
Name(b) == IF AfterLongName THEN BlockAt(prev.offset).text ELSE b.name
Slash(b) == b.name \in DOMAIN members /\ members[b.name].kind.slash
Type(b) ==
  CASE ~ AfterLongName /\ Slash(b) -> "directory"
    [] b.type = "global" -> "regular"
    [] OTHER -> b.type
Header(b) ==
  [type |-> Type(b), size |-> b.size, name |-> Name(b), offset |-> offset + BlockSize]

(* Where the block after a header and its data is. *)
NextOffset_Bug(s) == offset + (s \div BlockSize + 1) * BlockSize + BlockSize
NextOffset(s) ==
  offset + ((s + BlockSize - 1) \div BlockSize) * BlockSize + BlockSize

(* The loop ends at a zero byte.  Behind the end of the file there may be  *)
(* one, or another byte (then the condition of the loop ends it as well),  *)
(* or no memory.                                                           *)
Ends(o) == BlockAt(o).kind = "zero"
Append_(h) ==
  /\ headers' = Append(headers, h)
  /\ offset' = NextOffset(h.size)
  /\ IF offset' < size
     THEN status' = IF Ends(offset') THEN "parsed" ELSE "parsing"
     ELSE status' \in {"parsed", "crashed"}
  /\ UNCHANGED <<members, lost, mapped, mapping>>

MoreBlocks == offset < size - BlockSize

(* One turn of the loop.  A block of data taken for a header would hardly  *)
(* have the checksum it needs; FilesAreThose shows that none is.           *)
ReadHeader ==
  /\ status = "parsing" /\ mapping = "made" /\ MoreBlocks
  /\ LET b == BlockAt(offset) IN
       \/ b.kind = "header" /\ b.readable /\ Append_(Header(b))
       \/ /\ b.kind = "header" => ~ b.readable
          /\ b.kind # "zero"
          /\ status' = "failed"
          /\ UNCHANGED <<members, lost, mapped, mapping, offset, headers>>

(* A zero block passes for a header without a name; then name_end[ -1 ] is *)
(* the byte before the block.  At the start of the file that is one of     *)
(* another mapping, or none.                                               *)
ReadZeroBlock ==
  /\ status = "parsing" /\ mapping = "made" /\ MoreBlocks
  /\ BlockAt(offset).kind = "zero"
  /\ \/ \E type \in {"regular", "directory"} :
          Append_([type |-> type, size |-> 0, name |-> NoName, offset |-> offset + BlockSize])
     \/ /\ offset = 0
        /\ status' = "crashed"
        /\ UNCHANGED <<members, lost, mapped, mapping, offset, headers>>

(* The first turn of the loop reads a header at MAP_FAILED. *)
ReadUnmapped ==
  /\ status = "parsing" /\ mapping = "failed" /\ MoreBlocks
  /\ status' = "crashed"
  /\ UNCHANGED <<members, lost, mapped, mapping, offset, headers>>

(* There is no further block for a header: a file of a single block ends   *)
(* here at once, mapped or not.                                            *)
EndLoop ==
  /\ status = "parsing" /\ ~ MoreBlocks
  /\ status' = "parsed"
  /\ UNCHANGED <<members, lost, mapped, mapping, offset, headers>>

Ended == status \notin {"loading", "parsing"} /\ UNCHANGED vars

Next == LoadTar \/ ReadHeader \/ ReadZeroBlock \/ ReadUnmapped \/ EndLoop \/ Ended

Spec == Init /\ [][Next]_vars
-------------------------------------------------------------------------------
(* The members an archive has, as a reader of the format's definition      *)
(* would list them: where the data of each begins follows from what was    *)
(* written before it.                                                      *)
HasContent(h) == h.type \in {"regular", "global"} /\ h.size > 0
Place(h) == [name |-> h.name, size |-> h.size, offset |-> h.offset]
Listed(h) == IF HasContent(h) THEN <<Place(h)>> ELSE <<>>
Files(hs) == FlattenSeq([n \in DOMAIN hs |-> Listed(hs[n])])
Start(n) == Len(FlattenSeq([k \in 1 .. n - 1 |-> Entries(k, members[k])]))
DataStart(n) ==
  Start(n) + Len(Entries(n, members[n])) - Blocks(members[n].kind.size)
Written ==
  [n \in DOMAIN members |->
     [type |-> members[n].kind.type, size |-> members[n].kind.size, name |-> n,
      offset |-> DataStart(n) * BlockSize]]

Complete == lost < TailBlocks
Readable == \A n \in DOMAIN members : members[n].kind.readable

(* From an archive with at least one zero block left at its end the        *)
(* programs get exactly the files that have content, in order, each with   *)
(* its own name, size and place (a global header counts as a file); or, if *)
(* it has a member that cannot be read, no list at all.                    *)
FilesAreThose ==
  Complete /\ status \in {"parsed", "failed"} =>
    IF Readable THEN status = "parsed" /\ Files(headers) = Files(Written)
    ELSE status = "failed"

(* As long as the file has a member and a zero block at its end, nothing   *)
(* outside it is read, neither before it nor behind it, unless mmap failed *)
(* unseen; and then the reader ends at its first access, never with a list *)
(* or an error a program would go on with.                                 *)
ReadsInside ==
  Complete /\ members # <<>> =>
    /\ status = "crashed" => mapping = "failed"
    /\ mapping = "failed" => status \in {"parsing", "crashed"}
===============================================================================
