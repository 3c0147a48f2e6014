------------------------------ MODULE BlobChains ------------------------------
(***************************************************************************)
(* blob.c and blob.cpp (SPDK's hello_blob, the same calls in C and in C++) *)
(* and bdev.cpp: write one page to a blob and read it back.                *)
(***************************************************************************)
EXTENDS CallChain

(* hello_start to open_complete. *)
HelloOpen ==
  OpenDevice \o
  <<Later("bs_init", {}, {"store"}), Later("create_blob", {"store"}, {}),
    Later("open_blob", {"store"}, {"blob"})>>

(* open_complete to blob_write: make room, persist, write one page. *)
HelloWrite ==
  <<Later("resize", {"blob"}, {}), Later("sync_md", {"blob"}, {}),
    Now("write_buff", {}, {"write_buff"}), Now("channel", {"store"}, {"channel"}),
    Later("write", {"blob", "channel", "write_buff"}, {})>>

(* write_complete to delete_blob: read the page, compare, close, delete. *)
HelloRead ==
  <<Now("read_buff", {}, {"read_buff"}),
    Later("read", {"blob", "channel", "read_buff"}, {}),
    Now("compare", {"write_buff", "read_buff"}, {}),
    Freeing(Later("close_blob", {}, {}), "blob"),
    Later("delete_blob", {"store"}, {})>>

(* unload_bs, at the end of the chain and wherever it breaks: it frees the *)
(* channel, if there is one, and unloads the store.  It closes no blob.    *)
UnloadBs == <<Dropping(Freeing(Later("unload", {}, {}), "store"), {"channel"})>>

Hello == Straight(HelloOpen \o HelloWrite \o HelloRead \o UnloadBs)

-------------------------------------------------------------------------------
(* bdev.cpp, with --create: the store and the blob are new. *)
BdevCreate ==
  <<Later("bs_init", {}, {"store"}), Later("create_blob", {"store"}, {}),
    Later("open_blob", {"store"}, {"blob"}), Later("resize", {"blob"}, {}),
    Later("sync_md", {"blob"}, {}), Now("buffer", {}, {"buffer"}),
    Unseen("channel", {"store"}),
    Later("write", {"blob", "channel", "buffer"}, {})>>

(* Without: the first blob of the store is there, and is passed open. *)
BdevLoad ==
  <<Later("bs_load", {}, {"store"}), Later("iter_first", {"store"}, {"blob"}),
    Now("buffer", {}, {"buffer"}), Unseen("channel", {"store"})>>

(* Both: read the page, close, and free the rest on the way to the unload. *)
BdevRead_Bug ==                 \* closes the blob without waiting for the read
  <<Freeing(Later("close_blob", {}, {}), "blob"),
    Later("read", {"blob", "channel", "buffer"}, {}),
    Dropping(Freeing(Later("unload", {}, {}), "store"), {"buffer", "channel"})>>
BdevRead ==
  <<Later("read", {"blob", "channel", "buffer"}, {}),
    Freeing(Later("close_blob", {}, {}), "blob"),
    Dropping(Freeing(Later("unload", {}, {}), "store"), {"buffer", "channel"})>>

Bdev(create) ==
  Straight(OpenDevice \o (IF create THEN BdevCreate ELSE BdevLoad) \o BdevRead)
===============================================================================
