------------------------------ MODULE CallChain ------------------------------
(***************************************************************************)
(* The vocabulary of the programs that make one call after another.  Such  *)
(* a program is a chain of calls, those from "first" to "last" made once   *)
(* for each file.  A call is a record of                                   *)
(*   op     what is called                                                 *)
(*   how    "now": it returns its result; "callback": the device answers   *)
(*          later; "request": it blocks the caller until lcore 0 has       *)
(*          served it; "event": the chain goes on on another lcore;        *)
(*          "submit" and "poll": a command is put into a queue pair, those *)
(*          that are complete taken out; "claim" and "spin": the two loops *)
(*          on an atomic counter                                           *)
(*   needs  the resources it is given                                      *)
(*   drops  those released on the way to it                                *)
(*   takes, frees   those that are there, or gone, if it succeeds          *)
(*   on     the lcore of an event                                          *)
(*   fails  what becomes of its failure: "noticed", "null" if the result   *)
(*          of an allocation (or of mmap) is used unseen, "ignored",       *)
(*          "never"                                                        *)
(***************************************************************************)
EXTENDS Integers, Sequences

Step(op, how, needs, takes) ==
  [op |-> op, how |-> how, needs |-> needs, takes |-> takes, drops |-> {},
   frees |-> {}, on |-> 0, fails |-> "noticed"]

(* A call on the spot, a submission with a callback, a blocking call.      *)
Now(op, needs, takes) == Step(op, "now", needs, takes)
Later(op, needs, takes) == Step(op, "callback", needs, takes)
Ask(op, needs, takes) == Step(op, "request", needs, takes)

(* An allocation whose null nobody sees, and what cannot fail. *)
Unseen(op, needs) == [Now(op, needs, {op}) EXCEPT !.fails = "null"]
Surely(op, needs, takes) == [Now(op, needs, takes) EXCEPT !.fails = "never"]

(* Release R and post an event to lcore c. *)
Post(c, R) ==
  [Step("event", "event", {}, {}) EXCEPT !.on = c, !.drops = R, !.fails = "never"]

Ignoring(s) == [s EXCEPT !.fails = "ignored"]
Dropping(s, R) == [s EXCEPT !.drops = R]
Freeing(s, r) == [s EXCEPT !.needs = @ \cup {r}, !.frees = {r}]

(* The chain of a program without files, and that of one with. *)
Straight(calls) == [calls |-> calls, first |-> 0, last |-> 0]
Looping(before, body, after) ==
  [calls |-> before \o body \o after,
   first |-> Len(before) + 1, last |-> Len(before) + Len(body)]

(* Every SPDK program looks its device up by name and wraps it. *)
OpenDevice == <<Now("get_bdev", {}, {}), Now("create_bs_dev", {}, {})>>
==============================================================================
