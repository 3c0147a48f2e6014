----------------------------- MODULE BlobfsChains -----------------------------
(***************************************************************************)
(* blobfs.cpp, blobfs_write_files.cpp and blobfs_read_files.cpp: files of  *)
(* a blobfs by its synchronous calls.  They are made on lcore 1 and served *)
(* by lcore 0, to which the file system posts them as events.              *)
(***************************************************************************)
EXTENDS CallChain, SequencesExt

(* init_cb: make or load the file system, make the channel here, on lcore  *)
(* 0, and go on on lcore 1.                                                *)
BlobfsOpen(create) ==
  OpenDevice \o
  <<Later(IF create THEN "fs_init" ELSE "fs_load", {}, {"fs"}),
    Unseen("channel", {"fs"}), Post(1, {})>>

(* read_cb. *)
BlobfsRead ==
  <<Ask("open", {"fs", "channel"}, {"file"}), Unseen("buffer", {}),
    Ask("read", {"file", "channel", "buffer"}, {}),
    Ask("sync", {"file", "channel"}, {}),
    Freeing(Ask("close", {"channel"}, {}), "file")>>

(* write_cb with a message: the second buffer replaces the first. *)
BlobfsWrite ==
  <<Ask("create", {"fs", "channel"}, {}), Ask("open", {"fs", "channel"}, {"file"}),
    Unseen("buffer", {}), Surely("copy", {"buffer"}, {}),
    Ignoring(Ask("truncate", {"file", "channel"}, {})),
    Ask("write", {"file", "channel", "buffer"}, {}),
    Dropping(Unseen("buffer", {}), {"buffer"}),
    Ask("read", {"file", "channel", "buffer"}, {}),
    Ask("sync", {"file", "channel"}, {}),
    Freeing(Ask("close", {"channel"}, {}), "file")>>

(* write_cb without. *)
BlobfsDelete == <<Ask("delete", {"fs", "channel"}, {})>>

(* The end of both, on lcore 1. *)
UnloadFs == <<Dropping(Freeing(Later("unload", {}, {}), "fs"), {"buffer", "channel"})>>

Blobfs(create, mode) ==
  Straight(BlobfsOpen(create)
           \o (CASE mode = "read" -> BlobfsRead
                 [] mode = "write" -> BlobfsWrite
                 [] mode = "delete" -> BlobfsDelete)
           \o UnloadFs)

-------------------------------------------------------------------------------
(* blobfs_write_files: the file system is made and the archive copied to a *)
(* buffer on lcore 0, the files are written on lcore 1.  What mmap returns *)
(* in load_tar is not looked at: the copy is made of it.                   *)
InitStorage ==
  OpenDevice \o
  <<Later("fs_init", {}, {"fs"}), Now("load_tar", {}, {}), Unseen("mapped", {}),
    Unseen("buffer", {}), Surely("memcpy", {"buffer", "mapped"}, {}),
    Dropping(Now("parse_tar", {"buffer"}, {}), {"mapped"})>>

CreateChannels_Bug == <<Unseen("channel", {"fs"}), Post(1, {})>>
CreateChannels == <<Post(1, {}), Unseen("channel", {"fs"})>>

CreateFile(flush) ==
  <<Ask("create", {"fs", "channel"}, {}), Ask("open", {"fs", "channel"}, {"file"}),
    Ask("write", {"file", "channel", "buffer"}, {})>>
  \o (IF flush THEN <<Ask("sync", {"file", "channel"}, {})>> ELSE <<>>)
  \o <<Freeing(Ask("close", {"channel"}, {}), "file")>>

(* The end of the handler on lcore 1, then close_storage on lcore 0. *)
CloseStorage ==
  <<Post(0, {"channel", "buffer"}), Freeing(Later("unload", {}, {}), "fs")>>

WriteFiles(flush) ==
  Looping(InitStorage \o CreateChannels, CreateFile(flush), CloseStorage)

(* escape_file_name: a name is a sequence of characters. *)
Escape_Bug(ch) == IF ch = "/" THEN <<"_">> ELSE <<ch>>
Escape(ch) ==
  CASE ch = "/" -> <<"_">>
    [] ch = "_" -> <<"_", "_">>
    [] OTHER -> <<ch>>
EscapeFileName(name) == FlattenSeq([k \in DOMAIN name |-> Escape(name[k])])

-------------------------------------------------------------------------------
(* blobfs_read_files: the handler of lcore 1 lists the files, makes the    *)
(* channel and the buffer, reads every file, and unloads.                  *)
LoadStorage ==
  OpenDevice \o
  <<Later("fs_load", {}, {"fs"}), Post(1, {}), Unseen("channel", {"fs"}),
    Unseen("buffer", {})>>

ReadFile ==
  <<Ask("open", {"fs", "channel"}, {"file"}),
    Ask("read", {"file", "channel", "buffer"}, {}),
    Freeing(Ask("close", {"channel"}, {}), "file")>>

ReadFiles == Looping(LoadStorage, ReadFile, UnloadFs)
===============================================================================
