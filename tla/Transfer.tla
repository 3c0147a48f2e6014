------------------------------- MODULE Transfer -------------------------------
(***************************************************************************)
(* What every program of the repository promises: a fixed set of items     *)
(* (blobs, files, blocks) is transferred, each one exactly once and never  *)
(* more than "limit" at a time (the --concurrency option, "max             *)
(* concurrency"); the elapsed time is reported once, when the last item is *)
(* done; an I/O error or a crash ends the run without a report.            *)
(*                                                                         *)
(* This module models no code of its own.  The programs are modelled in    *)
(* detail elsewhere and shown to implement it.                             *)
(***************************************************************************)
EXTENDS Naturals, FiniteSets

VARIABLES
  items,              \* the things to transfer, a finite set
  limit,              \* how many items may be in flight together
  active,             \* the items in flight
  done,               \* the items whose transfer is complete
  outcome             \* "running", "reported" or "failed"

vars == <<items, limit, active, done, outcome>>

Waiting == items \ (active \cup done)

Init ==
  /\ IsFiniteSet(items)
  /\ limit \in Nat
  /\ active = {}
  /\ done = {}
  /\ outcome = "running"

(* The items of D complete and those of S start.  An implementation that   *)
(* hands the place of a finished item to a waiting one does both at once.  *)
Advance(D, S) ==
  /\ outcome = "running"
  /\ active' = (active \ D) \cup S
  /\ done' = done \cup D
  /\ Cardinality(active') <= limit
  /\ UNCHANGED <<items, limit, outcome>>

(* The last items complete, unless they already have, and the run ends. *)
Report ==
  /\ outcome = "running"
  /\ Waiting = {}
  /\ active' = {}
  /\ done' = done \cup active
  /\ outcome' = "reported"
  /\ UNCHANGED <<items, limit>>

Fail ==
  /\ outcome = "running"
  /\ outcome' = "failed"
  /\ UNCHANGED <<items, limit, active, done>>

Next ==
  \/ \E D \in SUBSET active, S \in SUBSET Waiting : Advance(D, S)
  \/ Report
  \/ Fail

Spec == Init /\ [][Next]_vars
===============================================================================
