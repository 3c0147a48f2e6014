------------------------------- MODULE AioFiles -------------------------------
(***************************************************************************)
(* aio_read_files and aio_write_files: transfer a list of files with POSIX *)
(* asynchronous I/O.  The threads of an OpenMP loop share the files out,   *)
(* take a place in active_count for each, open it and start its transfer.  *)
(* Every completion runs close_file in a notification thread of its own;   *)
(* the writer's first goes through sync_file.  The main thread leaves the  *)
(* loop when all its threads have, waits for "completed", and returns,     *)
(* which destroys the context whatever the notification threads are at.    *)
(*                                                                         *)
(* All of them run concurrently: an action has one access to a shared      *)
(* atomic.  A failed transfer ends as a successful one does, since nobody  *)
(* asks for its result.                                                    *)
(***************************************************************************)
EXTENDS Integers, FiniteSets

CONSTANTS
  NumFiles,            \* files to transfer; the writer's expected_count
  NumThreads,          \* threads of the OpenMP loop
  Limit                \* the 100u of read_file, the 1000u of write_file

ASSUME ConstantsOK ==
  /\ NumFiles \in Nat
  /\ NumThreads \in Nat \ {0}
  /\ Limit \in Nat \ {0}

File == 0 .. NumFiles - 1
Thread == 0 .. NumThreads - 1

(* The static schedule of the loop: thread t has the files from Begin(t)   *)
(* to Begin(t + 1) - 1.                                                    *)
Least(m, n) == IF m <= n THEN m ELSE n
Begin(t) == t * (NumFiles \div NumThreads) + Least(t, NumFiles % NumThreads)

VARIABLES
  program,             \* "read" or "write"
  status,              \* "running", "returned" from run(), "stopped", "aborted"
                       \* or "crashed" by a late access to the context
  at, i, count,        \* of a thread of the loop: place, loop index, last load
  stage,               \* of a file
  active_count, completed_count, completed,
  results              \* how often a file's time is recorded

loopVars   == <<at, i, count>>
resultVars == <<completed_count, completed, results>>
vars == <<program, status, loopVars, stage, active_count, resultVars>>

Turn(t, k) == IF k < Begin(t + 1) THEN "load" ELSE "done"

Init ==
  /\ program \in {"read", "write"}
  /\ status = "running"
  /\ at = [t \in Thread |-> Turn(t, Begin(t))]
  /\ i = [t \in Thread |-> Begin(t)]
  /\ count = [t \in Thread |-> 0]
  /\ stage = [f \in File |-> "waiting"]
  /\ active_count = 0 /\ completed_count = 0 /\ completed = FALSE
  /\ results = [f \in File |-> 0]

-------------------------------------------------------------------------------
(* Definitions named ..._Bug are not the program: each is a mistake one of *)
(* the properties at the end must notice.                                  *)

Running == status = "running"

(* Notification threads also run while the main thread is on its way out. *)
Alive == status \in {"running", "returned"}

Abort ==
  /\ status' = "aborted"
  /\ UNCHANGED <<program, loopVars, stage, active_count, resultVars>>

HasPlace(n) == n < Limit
LoadActive(t) ==
  /\ Running /\ at[t] = "load"
  /\ IF HasPlace(active_count)
     THEN /\ at' = [at EXCEPT ![t] = "exchange"]
          /\ count' = [count EXCEPT ![t] = active_count]
     ELSE UNCHANGED <<at, count>>
  /\ UNCHANGED <<program, status, i, stage, active_count, resultVars>>

(* compare_exchange_strong fails if any other thread came between. *)
Exchanges_Bug(t) == TRUE
Exchanges(t) == active_count = count[t]
ExchangeActive(t) ==
  /\ Running /\ at[t] = "exchange"
  /\ IF Exchanges(t)
     THEN /\ active_count' = count[t] + 1
          /\ at' = [at EXCEPT ![t] = "start"]
          /\ stage' = [stage EXCEPT ![i[t]] = "claimed"]
     ELSE /\ at' = [at EXCEPT ![t] = "load"]
          /\ UNCHANGED <<active_count, stage>>
  /\ UNCHANGED <<program, status, i, count, resultVars>>

(* The rest of read_file and write_file: open the file and start. *)
StartFile(t) ==
  /\ Running /\ at[t] = "start"
  /\ \/ Abort
     \/ /\ stage' = [stage EXCEPT ![i[t]] = "started"]
        /\ i' = [i EXCEPT ![t] = @ + 1]
        /\ at' = [at EXCEPT ![t] = Turn(t, i[t] + 1)]
        /\ UNCHANGED <<program, status, count, active_count, resultVars>>

-------------------------------------------------------------------------------
Step(f, from, to) == stage[f] = from /\ stage' = [stage EXCEPT ![f] = to]

(* The write is done: sync_file asks for an fsync. *)
SyncFile(f) ==
  /\ Running /\ program = "write" /\ stage[f] = "started"
  /\ \/ Abort
     \/ /\ Step(f, "started", "syncing")
        /\ UNCHANGED <<program, status, loopVars, active_count, resultVars>>

(* The read or the fsync is done: close_file closes the file. *)
CloseFile(f) ==
  /\ Running
  /\ Step(f, IF program = "read" THEN "started" ELSE "syncing", "closing")
  /\ UNCHANGED <<program, status, loopVars, active_count, resultVars>>

(* Record the time and count the file. *)
Record(f) ==
  /\ results' = [results EXCEPT ![f] = @ + 1]
  /\ completed_count' = completed_count + 1

LastFile_Bug(n) == n = NumFiles - 1
LastFile(n) == n = NumFiles

(* The callback counts its file, and reads how many there are afterwards.  *)
(* The context may be gone by then unless its file is the last.            *)
CountFile(f) ==
  /\ Running
  /\ Step(f, IF program = "read" THEN "closing" ELSE "released",
             IF LastFile(completed_count + 1) THEN "last" ELSE "counted")
  /\ Record(f)
  /\ UNCHANGED <<program, status, loopVars, active_count, completed>>

(* The last callback sets "completed", the writer's as its last step. *)
SetCompleted(f) ==
  /\ Running
  /\ Step(f, "last", IF program = "read" THEN "counted" ELSE "done")
  /\ completed' = TRUE
  /\ UNCHANGED <<program, status, loopVars, active_count, completed_count, results>>

Release_Bug(n) == n
Release(n) == n - 1

(* The reader's --active_count is its last step. *)
ReleaseRead(f) ==
  /\ Running /\ program = "read"
  /\ Step(f, "counted", "done")
  /\ active_count' = Release(active_count)
  /\ UNCHANGED <<program, status, loopVars, resultVars>>

(* The writer's comes before it records ... *)
ReleaseWrite(f) ==
  /\ Running /\ program = "write"
  /\ Step(f, "closing", "released")
  /\ active_count' = Release(active_count)
  /\ UNCHANGED <<program, status, loopVars, resultVars>>

(* ... and its last step is the comparison with expected_count. *)
CompareWrite(f) ==
  /\ Running /\ program = "write"
  /\ Step(f, "counted", "done")
  /\ UNCHANGED <<program, status, loopVars, active_count, resultVars>>

(* The last step of a callback that finds the context destroyed: it goes   *)
(* unnoticed or crashes the process.                                       *)
LateStep(f) ==
  /\ status = "returned"
  /\ Step(f, "counted", "done")
  /\ status' \in {"returned", "crashed"}
  /\ UNCHANGED <<program, loopVars, active_count, resultVars>>

(* All threads have left the loop and "completed" is set: the main thread  *)
(* prints the results and returns.                                         *)
Return ==
  /\ Running
  /\ \A t \in Thread : at[t] = "done"
  /\ completed
  /\ status' = "returned"
  /\ UNCHANGED <<program, loopVars, stage, active_count, resultVars>>

Exit ==
  /\ status = "returned"
  /\ status' = "stopped"
  /\ UNCHANGED <<program, loopVars, stage, active_count, resultVars>>

Loop(t) == LoadActive(t) \/ ExchangeActive(t) \/ StartFile(t)
Notification(f) ==
  \/ SyncFile(f) \/ CloseFile(f) \/ CountFile(f) \/ SetCompleted(f)
  \/ ReleaseRead(f) \/ ReleaseWrite(f) \/ CompareWrite(f) \/ LateStep(f)
Ended == ~ Alive /\ UNCHANGED vars

Next ==
  \/ \E t \in Thread : Loop(t)
  \/ \E f \in File : Notification(f)
  \/ Return \/ Exit \/ Ended

(* Every thread is scheduled and every transfer ends.  No single thread is *)
(* promised that its compare_exchange ever succeeds.                       *)
Spec ==
  /\ Init /\ [][Next]_vars
  /\ \A t \in Thread : WF_vars(Loop(t))
  /\ \A f \in File : WF_vars(Notification(f))
  /\ WF_vars(Return) /\ WF_vars(Exit)
-------------------------------------------------------------------------------
(* Type correctness of the members of context_t and file_t modelled. *)
TypeOK ==
  /\ program \in {"read", "write"}
  /\ status \in {"running", "returned", "stopped", "aborted", "crashed"}
  /\ at \in [Thread -> {"load", "exchange", "start", "done"}]
  /\ i \in [Thread -> 0 .. NumFiles] /\ count \in [Thread -> Nat]
  /\ stage \in [File -> {"waiting", "claimed", "started", "syncing", "closing",
                         "released", "counted", "last", "done"}]
  /\ active_count \in 0 .. NumFiles /\ completed_count \in 0 .. NumFiles
  /\ completed \in BOOLEAN /\ results \in [File -> Nat]

(* The files that hold a place: the reader's longer than the writer's. *)
InPlace == {f \in File : stage[f] \in
              {"claimed", "started", "syncing", "closing"}
              \cup IF program = "read" THEN {"counted", "last"} ELSE {}}

(* The state is well typed, and active_count counts exactly the files that *)
(* hold a place, whoever of the loop and the callbacks changes it, and     *)
(* never more than the limit.                                              *)
ActiveExact ==
  /\ TypeOK
  /\ Running => active_count = Cardinality(InPlace) /\ active_count <= Limit

(* "completed" is set when every file is recorded, exactly once.  All that *)
(* a callback may still have to do then, and so after the main thread has  *)
(* destroyed the context, is its very last step.                           *)
CompletedLast ==
  completed => \A f \in File : results[f] = 1 /\ stage[f] \in {"counted", "done"}

(* What they rest on.  The files behind a thread's index wait, up to the   *)
(* first one of the next thread; the one at it is claimed from the         *)
(* exchange until it is started.                                           *)
LoopInv ==
  \A t \in Thread :
    /\ i[t] \in Begin(t) .. Begin(t + 1)
    /\ at[t] # "done" => i[t] < Begin(t + 1)
    /\ at[t] = "exchange" => count[t] < Limit
    /\ \A f \in File : i[t] < f /\ f < Begin(t + 1) => stage[f] = "waiting"
    /\ at[t] \in {"load", "exchange"} => stage[i[t]] = "waiting"
    /\ at[t] = "start" => stage[i[t]] = "claimed"

(* A file is counted once, and one of them finds that it is the last.      *)
Counted == {f \in File : stage[f] \in {"counted", "last", "done"}}
CountInv ==
  /\ \A f \in File : results[f] = IF f \in Counted THEN 1 ELSE 0
  /\ completed_count = Cardinality(Counted)
  /\ \A f \in File : stage[f] = "last" => completed_count = NumFiles /\ ~ completed
  /\ \A f, g \in File : stage[f] = "last" /\ stage[g] = "last" => f = g
  /\ completed => completed_count = NumFiles

(* The inductive invariant. *)
Inductive == ActiveExact /\ LoopInv /\ CountInv

(* With a file to transfer the program ends: some callback is the last. *)
Termination == NumFiles > 0 => <>(~ Alive)

(* The threads and callbacks implement Transfer.  A file is done when it   *)
(* is counted or its place given back, whichever comes first.              *)
Outcome ==
  CASE Running -> "running"
    [] status = "aborted" -> "failed"
    [] OTHER -> "reported"
Active == {f \in File : stage[f] \in {"claimed", "started", "syncing", "closing"}}
Done == {f \in File : stage[f] \in {"released", "counted", "last", "done"}}
T == INSTANCE Transfer WITH
       items <- File, limit <- Limit, active <- Active, done <- Done,
       outcome <- Outcome
TransferSpec == T!Spec
===============================================================================
