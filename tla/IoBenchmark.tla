------------------------------ MODULE IoBenchmark ------------------------------
(***************************************************************************)
(* io_benchmark: transfers a number of blocks of a file or a device with   *)
(* the kernel's asynchronous I/O.  The main thread submits them in groups  *)
(* of --bulk, of which the kernel may accept a part; a second thread, the  *)
(* poller, reaps up to --bulk events at a time and counts them.            *)
(***************************************************************************)
EXTENDS Integers, FiniteSets

CONSTANTS
  NumFiles,            \* the size of ctx.files
  BulkOptions,         \* the values --bulk may be given
  RingSize             \* requests the context of io_queue_init( 1 ) has room for

ASSUME ConstantsOK ==
  /\ NumFiles \in Nat
  /\ BulkOptions \subseteq Nat
  /\ RingSize \in Nat \ {0}

File == 0 .. NumFiles - 1
Least(m, n) == IF m <= n THEN m ELSE n

VARIABLES
  bulk,                \* the option --bulk
  status,              \* of the process
  next, last,          \* ios_begin and ios_end of the main thread's group
  accepted,            \* how often the kernel has accepted a request
  ring,                \* requests accepted and not complete
  ready,               \* requests complete, their events not reaped
  events,              \* the poller's events it has not come to yet
  polling,             \* false when the poller has returned
  completed_count, completed

mainVars == <<next, last, accepted>>
pollVars == <<events, polling, completed_count, completed>>
vars == <<bulk, status, mainVars, ring, ready, pollVars>>

(* One at a time unless bulk > 1u. *)
Group == IF bulk > 1 THEN bulk ELSE 1

Init ==
  /\ bulk \in BulkOptions
  /\ status = "running"
  /\ next = 0 /\ last = Least(Group, NumFiles)
  /\ accepted = [f \in File |-> 0]
  /\ ring = {} /\ ready = {} /\ events = {}
  /\ polling = TRUE
  /\ completed_count = 0 /\ completed = FALSE

-------------------------------------------------------------------------------
(* Definitions named ..._Bug are not the program: each is a mistake one of *)
(* the properties at the end must notice.                                  *)

Running == status = "running"

Abort ==
  /\ status' = "aborted"
  /\ UNCHANGED <<bulk, mainVars, ring, ready, pollVars>>

(* Where a group goes on after the kernel has accepted r of its requests. *)
Resume_Bug1(r) == IF r = last - next THEN next + r ELSE next
Resume_Bug2(r) == last
Resume(r) == next + r

(* io_submit accepts some of the rest of the group and the main thread     *)
(* goes on behind them; after the last it turns to the next group.         *)
Submit(r) ==
  /\ Running
  /\ r \in 1 .. Least(last - next, RingSize - Cardinality(ring \cup ready))
  /\ LET batch == next .. next + r - 1 IN
       /\ accepted' = [f \in File |-> IF f \in batch THEN accepted[f] + 1 ELSE accepted[f]]
       /\ ring' = ring \cup batch
  /\ next' = Resume(r)
  /\ last' = IF next' = last THEN Least(last + Group, NumFiles) ELSE last
  /\ UNCHANGED <<bulk, status, ready, pollVars>>

(* io_submit fails with EAGAIN, and the main thread tries again, exactly   *)
(* when there is no room; with any other error it ends the program.        *)
SubmitFails ==
  /\ Running
  /\ next < last
  /\ IF Cardinality(ring \cup ready) = RingSize THEN UNCHANGED vars ELSE Abort

(* The kernel is done with a request. *)
Complete(f) ==
  /\ Running
  /\ f \in ring
  /\ ring' = ring \ {f}
  /\ ready' = ready \cup {f}
  /\ UNCHANGED <<bulk, status, mainVars, pollVars>>

(* io_getevents returns up to bulk events: none if bulk is 0. *)
Polls == Running /\ polling /\ events = {} /\ ~ completed
Reap ==
  /\ Polls
  /\ \E E \in SUBSET ready \ {{}} :
       /\ Cardinality(E) <= bulk
       /\ events' = E
       /\ ready' = ready \ E
  /\ UNCHANGED <<bulk, status, mainVars, ring, polling, completed_count, completed>>

(* io_getevents may fail, even if there is no event. *)
ReapFails == Polls /\ Abort

LastFile_Bug(n) == n = NumFiles - 1
LastFile(n) == n = NumFiles

(* The poller's loop over the events: count a file; the last completes. *)
Count(f) ==
  /\ Running
  /\ f \in events
  /\ \/ Abort
     \/ /\ events' = events \ {f}
        /\ completed_count' = completed_count + 1
        /\ completed' = (completed \/ LastFile(completed_count + 1))
        /\ UNCHANGED <<bulk, status, mainVars, ring, ready, polling>>

(* The poller finds "completed" set and returns. *)
PollerExit ==
  /\ Running
  /\ polling /\ events = {} /\ completed
  /\ polling' = FALSE
  /\ UNCHANGED <<bulk, status, mainVars, ring, ready, events, completed_count, completed>>

(* Nothing is left to submit and the poller has returned: flush if asked   *)
(* to, report and end.                                                     *)
Join ==
  /\ Running
  /\ next = last /\ ~ polling
  /\ status' = "stopped"
  /\ UNCHANGED <<bulk, mainVars, ring, ready, pollVars>>

Main == SubmitFails \/ Join \/ \E r \in 1 .. NumFiles : Submit(r)
Poller == Reap \/ PollerExit \/ \E f \in File : Count(f)
Kernel == \E f \in File : Complete(f)
Ended == ~ Running /\ UNCHANGED vars

Next == Main \/ Poller \/ Kernel \/ ReapFails \/ Ended

(* The threads are scheduled and the kernel answers; it need not fail. *)
Spec == Init /\ [][Next]_vars /\ WF_vars(Main) /\ WF_vars(Poller) /\ WF_vars(Kernel)
-------------------------------------------------------------------------------
(* Type correctness of the variables of run and its threads. *)
TypeOK ==
  /\ bulk \in Nat /\ status \in {"running", "stopped", "aborted"}
  /\ next \in 0 .. NumFiles /\ last \in 0 .. NumFiles /\ next <= last
  /\ accepted \in [File -> Nat]
  /\ ring \subseteq File /\ ready \subseteq File /\ events \subseteq File
  /\ polling \in BOOLEAN /\ completed \in BOOLEAN
  /\ completed_count \in 0 .. NumFiles

(* However the kernel cuts a group into pieces, every request before the   *)
(* main thread's place is accepted exactly once and none behind it is; and *)
(* every completion is counted once, in whatever groups it is reaped.      *)
ExactlyOnce ==
  /\ \A f \in File : accepted[f] = IF f < next THEN 1 ELSE 0
  /\ completed_count + Cardinality(ring \cup ready \cup events) = next

(* What ExactlyOnce rests on: a request is in one place, and none that is  *)
(* anywhere has yet to be submitted.                                       *)
Apart ==
  /\ ring \cap ready = {} /\ ring \cap events = {} /\ ready \cap events = {}
  /\ \A f \in ring \cup ready \cup events : f < next

(* The inductive invariant. *)
Inductive == TypeOK /\ ExactlyOnce /\ Apart

(* With a request to wait for and room for an event the program ends. *)
Termination == NumFiles > 0 /\ bulk > 0 => <>(~ Running)

(* Submission and polling implement Transfer; nothing but the ring bounds  *)
(* the requests in flight.                                                 *)
Outcome ==
  CASE status = "running" -> "running"
    [] status = "stopped" -> "reported"
    [] OTHER -> "failed"
T == INSTANCE Transfer WITH
       items <- File, limit <- NumFiles, active <- ring,
       done <- {f \in File : accepted[f] > 0 /\ f \notin ring}, outcome <- Outcome
TransferSpec == T!Spec
===============================================================================
