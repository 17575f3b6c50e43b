------------------------------ MODULE FileLock ------------------------------
(***************************************************************************)
(* The advisory lock file of async-lock.ts and its users: calls that       *)
(* append to, or clear, the log of a topic under it.                       *)
(*                                                                         *)
(* A task is one call of appendWithLock or clearFileWithLock, a process    *)
(* runs several.  Every await of acquireLock is a step of its own; the     *)
(* callback is synchronous, so no other task of its process runs before it *)
(* ends, while the tasks of other processes do.  A process may die at any  *)
(* point and leaves its lock file behind; a process started in its place   *)
(* is one that has not run any of its tasks yet.                           *)
(***************************************************************************)
EXTENDS Naturals, Sequences, FiniteSets

CONSTANTS
  Tasks,
  Procs,
  Clearers,     \* the tasks that clear the log, the others append to it
  ProcOf,       \* the process of a task
  MaxCrashes,   \* processes that may die
  None

ASSUME LockAssumption ==
  /\ Clearers \subseteq Tasks
  /\ ProcOf \in [Tasks -> Procs]
  /\ MaxCrashes \in Nat
  /\ None \notin Tasks

VARIABLES
  pc,
  file,       \* the task that created the lock file, None when there is none
  pid,        \* the file holds its creator's pid, and is not empty
  aged,       \* the file is older than staleMs
  sawOld,     \* the age a task took from stat
  log, buf,   \* the topic's file, and what a task read of it
  alive,
  crashes,
  raced,      \* history: a steal removed the lock of a live process
  torn        \* history: a process died between truncation and write

vars == <<pc, file, pid, aged, sawOld, log, buf, alive, crashes, raced, torn>>

Holding == {"create", "locked", "truncate", "flush", "release"}
Steps == {"idle", "try", "stat", "read", "unlink", "recreate", "wait", "done", "failed"}
           \cup Holding

TypeOK ==
  /\ pc \in [Tasks -> Steps]
  /\ file \in Tasks \cup {None} /\ pid \in BOOLEAN /\ aged \in BOOLEAN
  /\ sawOld \in [Tasks -> BOOLEAN]
  /\ log \in Seq(Tasks) /\ buf \in [Tasks -> Seq(Tasks)]
  /\ alive \in [Procs -> BOOLEAN]
  /\ crashes \in 0 .. MaxCrashes
  /\ raced \in BOOLEAN /\ torn \in BOOLEAN

Init ==
  /\ pc = [t \in Tasks |-> "idle"]
  /\ file = None /\ pid = FALSE /\ aged = FALSE
  /\ sawOld = [t \in Tasks |-> FALSE]
  /\ log = <<>> /\ buf = [t \in Tasks |-> <<>>]
  /\ alive = [p \in Procs |-> TRUE]
  /\ crashes = 0 /\ raced = FALSE /\ torn = FALSE

LiveTask(t) == alive[ProcOf[t]]

\* a task runs when its process lives and is in no other task's callback
Runs(t) ==
  /\ LiveTask(t)
  /\ \A u \in Tasks \ {t} : ProcOf[u] = ProcOf[t] => pc[u] \notin {"truncate", "flush"}

Goto(t, step) == pc' = [pc EXCEPT ![t] = step]

-----------------------------------------------------------------------------
(* acquireLock *)

Start(t) ==
  /\ Runs(t) /\ pc[t] = "idle" /\ Goto(t, "try")
  /\ UNCHANGED <<file, pid, aged, sawOld, log, buf, alive, crashes, raced, torn>>

\* seeded fault: flag "w" instead of "wx"
TryOverwrite(t, otherwise) ==
  /\ file' = t /\ pid' = FALSE /\ aged' = FALSE /\ Goto(t, "create")
  /\ UNCHANGED <<sawOld, log, buf, alive, crashes, raced, torn>>

\* open with O_CREAT | O_EXCL: the file is there and empty
TryCreate(t, otherwise) ==
  /\ IF file = None
       THEN file' = t /\ pid' = FALSE /\ aged' = FALSE /\ Goto(t, "create")
       ELSE Goto(t, otherwise) /\ UNCHANGED <<file, pid, aged>>
  /\ UNCHANGED <<sawOld, log, buf, alive, crashes, raced, torn>>

Try(t) == Runs(t) /\ pc[t] = "try" /\ TryCreate(t, "stat")
Recreate(t) == Runs(t) /\ pc[t] = "recreate" /\ TryCreate(t, "wait")

\* the pid goes to the file that was opened, in place or not
WritePid(t) ==
  /\ Runs(t) /\ pc[t] = "create" /\ Goto(t, "locked")
  /\ pid' = (pid \/ file = t)
  /\ UNCHANGED <<file, aged, sawOld, log, buf, alive, crashes, raced, torn>>

Stat(t) ==
  /\ Runs(t) /\ pc[t] = "stat"
  /\ IF file = None
       THEN Goto(t, "wait") /\ UNCHANGED sawOld
       ELSE Goto(t, "read") /\ sawOld' = [sawOld EXCEPT ![t] = aged]
  /\ UNCHANGED <<file, pid, aged, log, buf, alive, crashes, raced, torn>>

\* a pid decides by the life of its process; without one, missing file
\* included, the age taken before decides
Stale(t) == IF file # None /\ pid THEN ~LiveTask(file) ELSE sawOld[t]

Read(t) ==
  /\ Runs(t) /\ pc[t] = "read"
  /\ Goto(t, IF Stale(t) THEN "unlink" ELSE "wait")
  /\ UNCHANGED <<file, pid, aged, sawOld, log, buf, alive, crashes, raced, torn>>

\* the steal removes whatever file is there by now
Unlink(t) ==
  /\ Runs(t) /\ pc[t] = "unlink" /\ Goto(t, "recreate")
  /\ raced' = (raced \/ (file # None /\ LiveTask(file)))
  /\ file' = None /\ pid' = FALSE /\ aged' = FALSE
  /\ UNCHANGED <<sawOld, log, buf, alive, crashes, torn>>

\* before its deadline the call retries after a delay, past it it throws
Retry(t) ==
  /\ Runs(t) /\ pc[t] = "wait" /\ Goto(t, "try")
  /\ UNCHANGED <<file, pid, aged, sawOld, log, buf, alive, crashes, raced, torn>>

\* seeded fault: only a call that finds no lock file looks at its deadline
TimeoutUnheld(t) ==
  /\ Runs(t) /\ pc[t] = "wait" /\ file = None /\ Goto(t, "failed")
  /\ UNCHANGED <<file, pid, aged, sawOld, log, buf, alive, crashes, raced, torn>>

Timeout(t) ==
  /\ Runs(t) /\ pc[t] = "wait" /\ Goto(t, "failed")
  /\ UNCHANGED <<file, pid, aged, sawOld, log, buf, alive, crashes, raced, torn>>

-----------------------------------------------------------------------------
(* The callback, and releaseLock in withLock's finally *)

\* clearFile, or the read of appendWithMkdir
Enter(t) ==
  /\ Runs(t) /\ pc[t] = "locked"
  /\ IF t \in Clearers
       THEN log' = <<>> /\ Goto(t, "release") /\ UNCHANGED buf
       ELSE buf' = [buf EXCEPT ![t] = log] /\ Goto(t, "truncate") /\ UNCHANGED log
  /\ UNCHANGED <<file, pid, aged, sawOld, alive, crashes, raced, torn>>

\* writeFileSync: open with O_TRUNC, then the content
Truncate(t) ==
  /\ Runs(t) /\ pc[t] = "truncate" /\ Goto(t, "flush")
  /\ log' = <<>>
  /\ UNCHANGED <<file, pid, aged, sawOld, buf, alive, crashes, raced, torn>>

\* seeded fault: the line replaces the content
FlushLineOnly(t) ==
  /\ Runs(t) /\ pc[t] = "flush" /\ Goto(t, "release")
  /\ log' = <<t>>
  /\ UNCHANGED <<file, pid, aged, sawOld, buf, alive, crashes, raced, torn>>

Flush(t) ==
  /\ Runs(t) /\ pc[t] = "flush" /\ Goto(t, "release")
  /\ log' = Append(buf[t], t)
  /\ UNCHANGED <<file, pid, aged, sawOld, buf, alive, crashes, raced, torn>>

Release(t) ==
  /\ Runs(t) /\ pc[t] = "release" /\ Goto(t, "done")
  /\ file' = None /\ pid' = FALSE /\ aged' = FALSE
  /\ UNCHANGED <<sawOld, log, buf, alive, crashes, raced, torn>>

-----------------------------------------------------------------------------
(* Time and death *)

\* A lock file grows older than staleMs.  Assumed: a live process writes its
\* pid into the file it has created before that.
Age ==
  /\ file # None /\ ~aged /\ (pid \/ ~LiveTask(file))
  /\ aged' = TRUE
  /\ UNCHANGED <<pc, file, pid, sawOld, log, buf, alive, crashes, raced, torn>>

Crash(p) ==
  /\ alive[p] /\ crashes < MaxCrashes
  /\ alive' = [alive EXCEPT ![p] = FALSE] /\ crashes' = crashes + 1
  /\ torn' = (torn \/ \E t \in Tasks : ProcOf[t] = p /\ pc[t] = "flush")
  /\ UNCHANGED <<pc, file, pid, aged, sawOld, log, buf, raced>>

-----------------------------------------------------------------------------
TaskStep(t) ==
  \/ Try(t) \/ WritePid(t) \/ Stat(t) \/ Read(t) \/ Unlink(t) \/ Recreate(t)
  \/ Retry(t) \/ Timeout(t) \/ Enter(t) \/ Truncate(t) \/ Flush(t) \/ Release(t)

Next ==
  \/ \E t \in Tasks : Start(t) \/ TaskStep(t)
  \/ Age
  \/ \E p \in Procs : Crash(p)

Spec == Init /\ [][Next]_vars

\* the event loop of a live process goes on, and the deadline of a call that
\* keeps retrying passes
Fairness == \A t \in Tasks : WF_vars(TaskStep(t)) /\ SF_vars(Timeout(t))

FairSpec == Spec /\ Fairness

-----------------------------------------------------------------------------
(* Properties *)

InSection(t) == LiveTask(t) /\ pc[t] \in {"locked", "truncate", "flush", "release"}

\* As long as no steal has removed a live holder's file, whichever processes
\* died and whichever files were found stale, at most one task is between
\* the acquisition and the release of the lock.
ExclusiveUnlessRaced ==
  ~raced => \A t, u \in Tasks : InSection(t) /\ InSection(u) => t = u

\* Calls that took effect, and the content of the log outside a rewrite
Effective == {t \in Tasks : pc[t] \in {"release", "done"}}
Content == IF \E t \in Tasks : pc[t] = "flush"
             THEN buf[CHOOSE t \in Tasks : pc[t] = "flush"] ELSE log

Abstract == INSTANCE TopicLog WITH
  log <- Content, done <- Effective, broken <- (raced \/ torn)

\* The lock makes every append and every clear of the log atomic: the
\* processes implement TopicLog until a steal hits a live holder or a process
\* dies in the middle of a rewrite.
LogIsAtomic == Abstract!Spec

\* Every call of a process that lives ends: it takes effect or throws, never
\* waits for ever on a lock whose holder died.
EveryCallEnds ==
  \A t \in Tasks : (pc[t] = "try") ~> (pc[t] \in {"done", "failed"} \/ ~LiveTask(t))

=============================================================================
