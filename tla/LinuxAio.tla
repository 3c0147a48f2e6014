------------------------------- MODULE LinuxAio -------------------------------
(***************************************************************************)
(* linuxaio_read_files and linuxaio_write_files: transfer a list of files  *)
(* with the kernel's asynchronous I/O.  The main thread takes a place in   *)
(* active_count for each file, opens it and submits it; a second thread,   *)
(* the poller, reaps the completions, closes the files and gives the       *)
(* places back, until the last one sets "completed".                       *)
(*                                                                         *)
(* The threads run concurrently, so there is one action per access to      *)
(* active_count.  The programs differ in what a full ring does to them and *)
(* in the order in which they close a file.                                *)
(***************************************************************************)
EXTENDS Integers, FiniteSets

CONSTANTS
  NumFiles,            \* the size of context->files
  ConcurrencyOptions,  \* the values --concurrency may be given
  RingSize             \* requests the context of io_queue_init( 1 ) has room for

ASSUME ConstantsOK ==
  /\ NumFiles \in Nat
  /\ ConcurrencyOptions \subseteq Nat
  /\ RingSize \in Nat \ {0}

File == 0 .. NumFiles - 1
NoFile == -1

VARIABLES
  program,             \* "read" or "write"
  max_concurrency,     \* the option --concurrency
  status,              \* of the process; "refused": ended by a full ring
  at, i, count,        \* the main thread, the index of its loop, its last load
  poller, cur,         \* the other thread, and the file of its last event
  stage,               \* of a file
  active_count,
  results,             \* how often a file's time is recorded
  completed_count, completed

optionVars == <<program, max_concurrency>>
mainVars   == <<at, i, count>>
resultVars == <<results, completed_count, completed>>
vars == <<optionVars, status, mainVars, poller, cur, stage, active_count, resultVars>>

(* Where the main thread goes for file k of its loop. *)
Turn(k) == IF k < NumFiles THEN "load" ELSE "join"

Init ==
  /\ program \in {"read", "write"}
  /\ max_concurrency \in ConcurrencyOptions
  /\ status = "running"
  /\ at = Turn(0) /\ i = 0 /\ count = 0
  /\ poller = "poll" /\ cur = NoFile
  /\ stage = [f \in File |-> "waiting"]
  /\ active_count = 0
  /\ results = [f \in File |-> 0]
  /\ completed_count = 0 /\ completed = FALSE

(* Requests the kernel holds: accepted, and their event not reaped. *)
InRing == {f \in File : stage[f] \in {"submitted", "complete"}}

-------------------------------------------------------------------------------
(* Definitions named ..._Bug are not the program: each is a mistake one of *)
(* the properties at the end must notice.                                  *)

Running == status = "running"

Abort ==
  /\ status' = "aborted"
  /\ UNCHANGED <<optionVars, mainVars, poller, cur, stage, active_count, resultVars>>

HasPlace_Bug1(n) == n <= max_concurrency
HasPlace_Bug2(n) == n + 1 < max_concurrency
HasPlace(n) == n < max_concurrency

(* The main thread spins on active_count.load() while there is no place. *)
LoadActive ==
  /\ Running /\ at = "load"
  /\ IF HasPlace(active_count)
     THEN at' = "exchange" /\ count' = active_count
     ELSE UNCHANGED <<at, count>>
  /\ UNCHANGED <<optionVars, status, i, poller, cur, stage, active_count, resultVars>>

(* compare_exchange_strong fails if the poller gave a place back since. *)
Exchanges_Bug == TRUE
Exchanges == active_count = count
ExchangeActive ==
  /\ Running /\ at = "exchange"
  /\ IF Exchanges
     THEN /\ active_count' = count + 1
          /\ at' = "open"
          /\ stage' = [stage EXCEPT ![i] = "claimed"]
     ELSE at' = "load" /\ UNCHANGED <<active_count, stage>>
  /\ UNCHANGED <<optionVars, status, i, count, poller, cur, resultVars>>

(* Open the file (the writer makes its directory first), prepare the iocb. *)
OpenFile ==
  /\ Running /\ at = "open"
  /\ \/ Abort
     \/ /\ at' = "submit"
        /\ UNCHANGED <<optionVars, status, i, count, poller, cur, stage,
                       active_count, resultVars>>

(* io_submit has accepted the request: on to the next file. *)
Submitted ==
  /\ stage' = [stage EXCEPT ![i] = "submitted"]
  /\ i' = i + 1
  /\ at' = Turn(i + 1)
  /\ UNCHANGED <<optionVars, status, count, poller, cur, active_count, resultVars>>

RingFull == Cardinality(InRing) >= RingSize

(* The reader's io_submit: any error, EAGAIN among them, ends the program. *)
SubmitRead ==
  /\ Running /\ at = "submit" /\ program = "read"
  /\ \/ RingFull /\ status' = "refused"
        /\ UNCHANGED <<optionVars, mainVars, poller, cur, stage, active_count, resultVars>>
     \/ ~ RingFull /\ (Submitted \/ Abort)

(* The writer's write_file submits again as long as it gets EAGAIN. *)
SubmitWrite ==
  /\ Running /\ at = "submit" /\ program = "write"
  /\ IF RingFull THEN UNCHANGED vars ELSE Submitted \/ Abort

-------------------------------------------------------------------------------
(* The kernel is done with a request. *)
Complete(f) ==
  /\ Running
  /\ stage[f] = "submitted"
  /\ stage' = [stage EXCEPT ![f] = "complete"]
  /\ UNCHANGED <<optionVars, status, mainVars, poller, cur, active_count, resultVars>>

(* io_getevents returns an event, and the poller goes on to close_file. *)
Reap(f) ==
  /\ Running
  /\ poller = "poll" /\ ~ completed
  /\ stage[f] = "complete"
  /\ \/ Abort
     \/ /\ poller' = "closing"
        /\ cur' = f
        /\ stage' = [stage EXCEPT ![f] = "reaped"]
        /\ UNCHANGED <<optionVars, status, mainVars, active_count, resultVars>>

(* io_getevents may fail, even if there is no event. *)
ReapFails == Running /\ poller = "poll" /\ ~ completed /\ Abort

Release(n) == n - 1
GivePlaceBack ==
  /\ active_count' = Release(active_count)
  /\ stage' = [stage EXCEPT ![cur] = "done"]

(* Record the elapsed time and count the file; the last one completes. *)
LastFile_Bug(n) == n = NumFiles - 1
LastFile(n) == n = NumFiles
Record ==
  /\ results' = [results EXCEPT ![cur] = @ + 1]
  /\ completed_count' = completed_count + 1
  /\ completed' = (completed \/ LastFile(completed_count + 1))

(* The reader's close_file: record first, --active_count last. *)
CloseRead ==
  /\ Running /\ program = "read"
  /\ \/ /\ poller = "closing" /\ poller' = "closed"
        /\ Record
        /\ UNCHANGED <<active_count, stage>>
     \/ /\ poller = "closed" /\ poller' = "poll"
        /\ GivePlaceBack
        /\ UNCHANGED resultVars
  /\ UNCHANGED <<optionVars, status, mainVars, cur>>

(* The writer's: file.close_file() gives the place back before the record. *)
CloseWrite ==
  /\ Running /\ program = "write"
  /\ \/ /\ poller = "closing" /\ poller' = "closed"
        /\ GivePlaceBack
        /\ UNCHANGED resultVars
     \/ /\ poller = "closed" /\ poller' = "poll"
        /\ Record
        /\ UNCHANGED <<active_count, stage>>
  /\ UNCHANGED <<optionVars, status, mainVars, cur>>

(* The poller finds "completed" set and returns. *)
PollerExit ==
  /\ Running
  /\ poller = "poll" /\ completed
  /\ poller' = "exited"
  /\ UNCHANGED <<optionVars, status, mainVars, cur, stage, active_count, resultVars>>

(* The main thread joins the poller, prints the results and ends. *)
Join ==
  /\ Running
  /\ at = "join" /\ poller = "exited"
  /\ status' = "stopped"
  /\ UNCHANGED <<optionVars, mainVars, poller, cur, stage, active_count, resultVars>>

Main == LoadActive \/ ExchangeActive \/ OpenFile \/ SubmitRead \/ SubmitWrite \/ Join
Poller == CloseRead \/ CloseWrite \/ PollerExit \/ \E f \in File : Reap(f)
Kernel == \E f \in File : Complete(f)
Ended == ~ Running /\ UNCHANGED vars

Next == Main \/ Poller \/ Kernel \/ ReapFails \/ Ended

(* The threads are scheduled and the kernel answers; it need not fail.     *)
Spec == Init /\ [][Next]_vars /\ WF_vars(Main) /\ WF_vars(Poller) /\ WF_vars(Kernel)
-------------------------------------------------------------------------------
(* Type correctness of the members of context_t and file_t modelled. *)
TypeOK ==
  /\ program \in {"read", "write"} /\ max_concurrency \in Nat
  /\ status \in {"running", "stopped", "aborted", "refused"}
  /\ at \in {"load", "exchange", "open", "submit", "join"}
  /\ i \in 0 .. NumFiles /\ count \in Nat
  /\ poller \in {"poll", "closing", "closed", "exited"} /\ cur \in File \cup {NoFile}
  /\ stage \in [File -> {"waiting", "claimed", "submitted", "complete", "reaped", "done"}]
  /\ active_count \in 0 .. NumFiles
  /\ results \in [File -> Nat]
  /\ completed_count \in 0 .. NumFiles /\ completed \in BOOLEAN

InFlight == {f \in File : stage[f] \notin {"waiting", "done"}}

(* active_count counts exactly the files in flight although both threads   *)
(* change it, and there are never more of them than --concurrency allows.  *)
ActiveExact ==
  /\ active_count = Cardinality(InFlight)
  /\ active_count <= max_concurrency

(* What ActiveExact rests on.  The files behind the main thread's index    *)
(* wait; the one at it has a place from the exchange until it is submitted.*)
MainInv ==
  /\ at # "join" => i < NumFiles
  /\ at = "exchange" => count < max_concurrency
  /\ \A f \in File : f > i => stage[f] = "waiting"
  /\ at \in {"load", "exchange"} => stage[i] = "waiting"
  /\ at \in {"open", "submit"} => stage[i] = "claimed"

(* The poller holds the place of its file from the event until the steps   *)
(* of close_file, in the order of the program, have given it back.         *)
Holds == poller = "closing" \/ (poller = "closed" /\ program = "read")
PollerInv ==
  /\ poller \in {"closing", "closed"} => cur \in File
  /\ Holds => stage[cur] = "reaped"
  /\ poller = "closed" /\ program = "write" => stage[cur] = "done"

(* Each file is recorded once, by the poller, after its event.             *)
Recorded == {f \in File : results[f] > 0}
Unrecorded == poller = "closing" \/ (poller = "closed" /\ program = "write")
RecordInv ==
  /\ \A f \in File : results[f] \in {0, 1}
  /\ \A f \in Recorded : stage[f] \in {"reaped", "done"}
  /\ Unrecorded => results[cur] = 0
  /\ completed_count = Cardinality(Recorded)
  /\ completed => completed_count = NumFiles

(* The inductive invariant. *)
Inductive == TypeOK /\ ActiveExact /\ MainInv /\ PollerInv /\ RecordInv

(* A full ring never ends the reader while --concurrency is no greater     *)
(* than the ring: whoever holds a place finds room, because an event is    *)
(* reaped before its place is given back.                                  *)
RingSuffices == status = "refused" => max_concurrency > RingSize

(* With a file to transfer and a place for it, the program ends. *)
Termination == NumFiles > 0 /\ max_concurrency > 0 => <>(~ Running)

(* --concurrency is optional: the program also ends without it. *)
DefaultTerminates == <>(~ Running)

(* The two threads implement Transfer. *)
Outcome ==
  CASE status = "running" -> "running"
    [] status = "stopped" -> "reported"
    [] OTHER -> "failed"
T == INSTANCE Transfer WITH
       items <- File, limit <- max_concurrency, active <- InFlight,
       done <- {f \in File : stage[f] = "done"}, outcome <- Outcome
TransferSpec == T!Spec
===============================================================================
