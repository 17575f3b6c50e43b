--------------------------- MODULE FileLockProofs ---------------------------
(***************************************************************************)
(* The lock of async-lock.ts, for any number of tasks, processes and       *)
(* crashes: mutual exclusion until a steal removes a live holder's file,   *)
(* and the refinement of TopicLog.                                         *)
(***************************************************************************)
EXTENDS FileLock, TLAPS

Quiet == ~raced /\ ~torn

\* a live holder's file is in place
HolderHasFile == ~raced => \A t \in Tasks : LiveTask(t) /\ pc[t] \in Holding => file = t

\* a rewrite that was not torn belongs to a live task, and a task about to
\* rewrite has read the current content
RewriterLives == ~torn => \A t \in Tasks : pc[t] = "flush" => LiveTask(t)
ReadIsCurrent == Quiet => \A t \in Tasks : LiveTask(t) /\ pc[t] = "truncate" => buf[t] = log

RewriterAppends == \A t \in Tasks : pc[t] \in {"truncate", "flush"} => t \notin Clearers

LockInv == TypeOK /\ HolderHasFile /\ RewriterLives /\ ReadIsCurrent /\ RewriterAppends

\* the initial state
LEMMA LockInit == Init => LockInv
<1> SUFFICES ASSUME Init PROVE LockInv
  OBVIOUS
<1>1. TypeOK
  <2>1. log \in Seq(Tasks) /\ <<>> \in Seq(Tasks)
    BY DEF Init
  <2>2. buf \in [Tasks -> Seq(Tasks)]
    BY <2>1 DEF Init
  <2>3. crashes \in 0 .. MaxCrashes
    BY LockAssumption DEF Init
  <2>4. pc \in [Tasks -> Steps]
    BY DEF Init, Steps
  <2>5. sawOld \in [Tasks -> BOOLEAN] /\ alive \in [Procs -> BOOLEAN]
    BY DEF Init
  <2> QED
    BY <2>1, <2>2, <2>3, <2>4, <2>5 DEF Init, TypeOK
<1>2. \A t \in Tasks : pc[t] = "idle"
  BY DEF Init
<1> QED
  BY <1>1, <1>2 DEF LockInv, HolderHasFile, RewriterLives, ReadIsCurrent, RewriterAppends, Holding

\* every step keeps the types
LEMMA LockType == ASSUME TypeOK, [Next]_vars PROVE TypeOK'
<1> USE LockAssumption DEF TypeOK, Steps, Holding, Goto
<1>1. CASE UNCHANGED vars
  BY <1>1 DEF vars
<1>2. ASSUME NEW t \in Tasks, Start(t) PROVE TypeOK'
  BY <1>2 DEF Start
<1>3. ASSUME NEW t \in Tasks, Try(t) PROVE TypeOK'
  BY <1>3 DEF Try, TryCreate
<1>4. ASSUME NEW t \in Tasks, Recreate(t) PROVE TypeOK'
  BY <1>4 DEF Recreate, TryCreate
<1>5. ASSUME NEW t \in Tasks, WritePid(t) PROVE TypeOK'
  <2>1. pid' \in BOOLEAN
    BY <1>5, Zenon DEF WritePid
  <2> QED
    BY <1>5, <2>1 DEF WritePid
<1>6. ASSUME NEW t \in Tasks, Stat(t) PROVE TypeOK'
  BY <1>6 DEF Stat
<1>7. ASSUME NEW t \in Tasks, Read(t) PROVE TypeOK'
  BY <1>7 DEF Read
<1>8. ASSUME NEW t \in Tasks, Unlink(t) PROVE TypeOK'
  <2>1. raced' \in BOOLEAN
    BY <1>8, Zenon DEF Unlink
  <2> QED
    BY <1>8, <2>1 DEF Unlink
<1>9. ASSUME NEW t \in Tasks, Retry(t) PROVE TypeOK'
  BY <1>9 DEF Retry
<1>10. ASSUME NEW t \in Tasks, Timeout(t) PROVE TypeOK'
  BY <1>10 DEF Timeout
<1>11. ASSUME NEW t \in Tasks, Enter(t) PROVE TypeOK'
  <2>1. CASE t \in Clearers
    <3>1. log' = <<>> /\ pc' = [pc EXCEPT ![t] = "release"]
          /\ UNCHANGED <<file, pid, aged, sawOld, buf, alive, crashes, raced, torn>>
      BY <1>11, <2>1, Zenon DEF Enter
    <3>2. log' \in Seq(Tasks) /\ pc' \in [Tasks -> Steps]
      BY <3>1
    <3> QED
      BY <3>1, <3>2
  <2>2. CASE t \notin Clearers
    <3>1. buf' = [buf EXCEPT ![t] = log] /\ pc' = [pc EXCEPT ![t] = "truncate"]
          /\ UNCHANGED <<file, pid, aged, sawOld, log, alive, crashes, raced, torn>>
      BY <1>11, <2>2, Zenon DEF Enter
    <3>2. buf' \in [Tasks -> Seq(Tasks)] /\ pc' \in [Tasks -> Steps]
      BY <3>1
    <3> QED
      BY <3>1, <3>2
  <2> QED
    BY <2>1, <2>2
<1>12. ASSUME NEW t \in Tasks, Truncate(t) PROVE TypeOK'
  BY <1>12 DEF Truncate
<1>13. ASSUME NEW t \in Tasks, Flush(t) PROVE TypeOK'
  BY <1>13 DEF Flush
<1>14. ASSUME NEW t \in Tasks, Release(t) PROVE TypeOK'
  BY <1>14 DEF Release
<1>15. CASE Age
  BY <1>15 DEF Age
<1>16. ASSUME NEW p \in Procs, Crash(p) PROVE TypeOK'
  <2>1. torn' \in BOOLEAN
    BY <1>16, Zenon DEF Crash
  <2> QED
    BY <1>16, <2>1 DEF Crash
<1> QED
  BY <1>1, <1>2, <1>3, <1>4, <1>5, <1>6, <1>7, <1>8, <1>9, <1>10, <1>11, <1>12,
     <1>13, <1>14, <1>15, <1>16 DEF Next, TaskStep

\* only a task moves in its own step
LEMMA OthersStay ==
  ASSUME TypeOK, NEW t \in Tasks, NEW step, Goto(t, step)
  PROVE  \A u \in Tasks : pc'[u] = IF u = t THEN step ELSE pc[u]
BY DEF TypeOK, Goto

\* two live tasks never hold the lock at once without a race
LEMMA OneHolder ==
  ASSUME LockInv, ~raced, NEW t \in Tasks, NEW u \in Tasks,
         LiveTask(t), LiveTask(u), pc[t] \in Holding, pc[u] \in Holding
  PROVE  t = u
BY DEF LockInv, HolderHasFile

LEMMA HolderStep == ASSUME LockInv, [Next]_vars PROVE HolderHasFile'
<1> USE DEF LockInv
<1> SUFFICES ASSUME ~raced', NEW u \in Tasks, LiveTask(u)', pc'[u] \in Holding
             PROVE  file' = u
  BY DEF HolderHasFile
<1>0. None \notin Tasks /\ "create" \in Holding
  BY LockAssumption DEF Holding
<1>1. CASE UNCHANGED vars
  BY <1>1 DEF vars, HolderHasFile, LiveTask
<1>2. ASSUME NEW t \in Tasks, NEW step, step \notin Holding, Goto(t, step),
             UNCHANGED <<file, alive, raced>>
      PROVE  file' = u
  BY <1>2, OthersStay DEF HolderHasFile, LiveTask
<1>3. ASSUME NEW t \in Tasks, NEW step, pc[t] \in Holding, Goto(t, step),
             UNCHANGED <<file, alive, raced>>
      PROVE  file' = u
  BY <1>3, OthersStay DEF HolderHasFile, LiveTask
<1>4. ASSUME NEW t \in Tasks, NEW step, step \notin Holding, Runs(t), TryCreate(t, step)
      PROVE  file' = u
  <2>1. CASE file = None
    <3>1. Goto(t, "create") /\ file' = t /\ UNCHANGED <<alive, raced>>
      BY <1>4, <2>1 DEF TryCreate
    <3>2. u # t => FALSE
      BY <3>1, <2>1, <1>0, OthersStay DEF HolderHasFile, LiveTask
    <3> QED
      BY <3>1, <3>2
  <2>2. CASE file # None
    BY <1>4, <2>2, <1>2 DEF TryCreate
  <2> QED
    BY <2>1, <2>2
<1>5. ASSUME NEW t \in Tasks, Unlink(t) PROVE file' = u
  <2>1. ~raced /\ (file = None \/ ~LiveTask(file)) /\ Goto(t, "recreate") /\ alive' = alive
    BY <1>5 DEF Unlink
  <2>2. pc[u] \in Holding /\ LiveTask(u)
    BY <2>1, OthersStay DEF Holding, LiveTask
  <2> QED
    BY <2>1, <2>2, <1>0 DEF HolderHasFile
<1>6. ASSUME NEW t \in Tasks, Release(t) PROVE file' = u
  <2>1. LiveTask(t) /\ pc[t] \in Holding /\ Goto(t, "done") /\ UNCHANGED <<alive, raced>>
    BY <1>6 DEF Release, Runs, Holding
  <2>2. u # t
    BY <2>1, OthersStay DEF Holding
  <2>3. pc[u] \in Holding /\ LiveTask(u)
    BY <2>1, <2>2, OthersStay DEF LiveTask
  <2> QED
    BY <2>1, <2>2, <2>3 DEF HolderHasFile
<1>7. CASE Age
  BY <1>7 DEF Age, HolderHasFile, LiveTask
<1>8. ASSUME NEW p \in Procs, Crash(p) PROVE file' = u
  BY <1>8, LockAssumption DEF Crash, HolderHasFile, LiveTask, TypeOK
<1>9. ASSUME NEW t \in Tasks, Start(t) PROVE file' = u
  BY <1>9, <1>2 DEF Start, Holding
<1>10. ASSUME NEW t \in Tasks, Try(t) PROVE file' = u
  BY <1>10, <1>4 DEF Try, Holding
<1>11. ASSUME NEW t \in Tasks, Recreate(t) PROVE file' = u
  BY <1>11, <1>4 DEF Recreate, Holding
<1>12. ASSUME NEW t \in Tasks, WritePid(t) PROVE file' = u
  BY <1>12, <1>3 DEF WritePid, Holding
<1>13. ASSUME NEW t \in Tasks, Stat(t) PROVE file' = u
  BY <1>13, <1>2 DEF Stat, Holding
<1>14. ASSUME NEW t \in Tasks, Read(t) PROVE file' = u
  BY <1>14, <1>2 DEF Read, Holding
<1>15. ASSUME NEW t \in Tasks, Retry(t) \/ Timeout(t) PROVE file' = u
  BY <1>15, <1>2 DEF Retry, Timeout, Holding
<1>16. ASSUME NEW t \in Tasks, Enter(t) \/ Truncate(t) \/ Flush(t) PROVE file' = u
  BY <1>16, <1>3 DEF Enter, Truncate, Flush, Holding
<1> QED
  BY <1>1, <1>5, <1>6, <1>7, <1>8, <1>9, <1>10, <1>11, <1>12, <1>13, <1>14,
     <1>15, <1>16 DEF Next, TaskStep

\* a step of t that neither enters nor leaves a rewrite
Outside(t, step) ==
  /\ Goto(t, step) /\ step \notin {"truncate", "flush"} /\ pc[t] # "flush"
  /\ UNCHANGED <<log, buf, alive, torn>>

LEMMA RewriteStep == ASSUME LockInv, [Next]_vars PROVE RewriterLives' /\ ReadIsCurrent'
<1> USE DEF LockInv
<1>1. CASE UNCHANGED vars
  BY <1>1 DEF vars, RewriterLives, ReadIsCurrent, Quiet, LiveTask
<1>2. ASSUME NEW t \in Tasks, NEW step, Outside(t, step), raced' = raced
      PROVE  RewriterLives' /\ ReadIsCurrent'
  BY <1>2, OthersStay DEF Outside, RewriterLives, ReadIsCurrent, Quiet, LiveTask
<1>3. ASSUME NEW t \in Tasks, Unlink(t) PROVE RewriterLives' /\ ReadIsCurrent'
  <2>1. Goto(t, "recreate") /\ UNCHANGED <<log, buf, alive, torn>> /\ (raced => raced')
    BY <1>3 DEF Unlink
  <2> QED
    BY <2>1, OthersStay DEF RewriterLives, ReadIsCurrent, Quiet, LiveTask
<1>4. ASSUME NEW t \in Tasks, Enter(t) PROVE RewriterLives' /\ ReadIsCurrent'
  <2>1. LiveTask(t) /\ pc[t] \in Holding /\ UNCHANGED <<alive, raced, torn>>
    BY <1>4 DEF Enter, Runs, Holding
  <2>2. \A u \in Tasks \ {t} : pc'[u] = pc[u] /\ buf'[u] = buf[u]
    BY <1>4 DEF Enter, Goto, TypeOK
  <2>3. pc'[t] # "flush" /\ (pc'[t] = "truncate" => buf'[t] = log' /\ log' = log)
    BY <1>4 DEF Enter, Goto, TypeOK
  <2>4. RewriterLives'
    BY <2>1, <2>2, <2>3 DEF RewriterLives, LiveTask
  <2>5. ASSUME Quiet', NEW u \in Tasks, LiveTask(u)', pc'[u] = "truncate" PROVE buf'[u] = log'
    <3>1. CASE u = t
      BY <3>1, <2>3, <2>5
    <3>2. CASE u # t
      BY <3>2, <2>1, <2>2, <2>5, OneHolder DEF Quiet, Holding, LiveTask
    <3> QED
      BY <3>1, <3>2
  <2> QED
    BY <2>4, <2>5 DEF ReadIsCurrent
<1>5. ASSUME NEW t \in Tasks, Truncate(t) \/ Flush(t) PROVE RewriterLives' /\ ReadIsCurrent'
  <2>1. LiveTask(t) /\ pc[t] \in Holding /\ UNCHANGED <<buf, alive, raced, torn>>
    BY <1>5 DEF Truncate, Flush, Runs, Holding
  <2>2. \A u \in Tasks \ {t} : pc'[u] = pc[u]
    BY <1>5 DEF Truncate, Flush, Goto, TypeOK
  <2>3. pc'[t] # "truncate"
    BY <1>5 DEF Truncate, Flush, Goto, TypeOK
  <2>4. RewriterLives'
    BY <2>1, <2>2 DEF RewriterLives, LiveTask
  <2>5. ASSUME Quiet', NEW u \in Tasks, LiveTask(u)', pc'[u] = "truncate" PROVE FALSE
    BY <2>1, <2>2, <2>3, <2>5, OneHolder DEF Quiet, Holding, LiveTask
  <2> QED
    BY <2>4, <2>5 DEF ReadIsCurrent
<1>6. CASE Age
  BY <1>6 DEF Age, RewriterLives, ReadIsCurrent, Quiet, LiveTask
<1>7. ASSUME NEW p \in Procs, Crash(p) PROVE RewriterLives' /\ ReadIsCurrent'
  <2>1. UNCHANGED <<pc, log, buf, raced>> /\ alive' = [alive EXCEPT ![p] = FALSE]
        /\ (torn => torn')
        /\ (~torn' => \A t \in Tasks : pc[t] = "flush" => ProcOf[t] # p)
    BY <1>7 DEF Crash
  <2>2. \A t \in Tasks : LiveTask(t)' => LiveTask(t)
    BY <2>1, LockAssumption DEF LiveTask, TypeOK
  <2>3. \A t \in Tasks : ProcOf[t] # p /\ LiveTask(t) => LiveTask(t)'
    BY <2>1, LockAssumption DEF LiveTask, TypeOK
  <2> QED
    BY <2>1, <2>2, <2>3 DEF RewriterLives, ReadIsCurrent, Quiet
<1>8. ASSUME NEW t \in Tasks, Start(t) \/ WritePid(t) \/ Retry(t) \/ Timeout(t) \/ Release(t)
      PROVE RewriterLives' /\ ReadIsCurrent'
  <2>1. \E step : Outside(t, step) /\ raced' = raced
    BY <1>8 DEF Start, WritePid, Retry, Timeout, Release, Outside
  <2> QED
    BY <2>1, <1>2
<1>9. ASSUME NEW t \in Tasks, Try(t) \/ Recreate(t) \/ Stat(t) \/ Read(t)
      PROVE RewriterLives' /\ ReadIsCurrent'
  <2>1. \E step : Outside(t, step) /\ raced' = raced
    BY <1>9 DEF Try, Recreate, TryCreate, Stat, Read, Outside
  <2> QED
    BY <2>1, <1>2
<1> QED
  BY <1>1, <1>3, <1>4, <1>5, <1>6, <1>7, <1>8, <1>9 DEF Next, TaskStep

\* a clearing task never reaches a rewrite
LEMMA AppendsStep == ASSUME LockInv, [Next]_vars PROVE RewriterAppends'
<1> USE DEF LockInv, TypeOK, RewriterAppends, Goto
<1>1. CASE UNCHANGED vars
  BY <1>1 DEF vars
<1>2. ASSUME NEW t \in Tasks, Start(t) \/ WritePid(t) \/ Retry(t) \/ Timeout(t) \/ Release(t) \/ Unlink(t)
      PROVE  RewriterAppends'
  BY <1>2 DEF Start, WritePid, Retry, Timeout, Release, Unlink
<1>3. ASSUME NEW t \in Tasks, Try(t) \/ Recreate(t) \/ Stat(t) \/ Read(t)
      PROVE  RewriterAppends'
  BY <1>3 DEF Try, Recreate, TryCreate, Stat, Read
<1>4. ASSUME NEW t \in Tasks, Enter(t) \/ Truncate(t) \/ Flush(t) PROVE RewriterAppends'
  BY <1>4 DEF Enter, Truncate, Flush
<1>5. CASE Age \/ \E p \in Procs : Crash(p)
  BY <1>5 DEF Age, Crash
<1> QED
  BY <1>1, <1>2, <1>3, <1>4, <1>5 DEF Next, TaskStep

\* The inductive invariant of the lock.
THEOREM LockInvariant == Spec => []LockInv
<1>1. LockInv /\ [Next]_vars => LockInv'
  BY LockType, HolderStep, RewriteStep, AppendsStep DEF LockInv
<1> QED
  BY <1>1, LockInit, PTL DEF Spec

\* Type correctness of the lock's model.
THEOREM LockTypes == Spec => []TypeOK
BY LockInvariant, PTL DEF LockInv

\* As long as no steal has removed a live holder's file, at most one task is
\* between acquireLock and releaseLock: for any number of tasks, processes
\* and crashes.
THEOREM LockExcludes == Spec => []ExclusiveUnlessRaced
<1>1. LockInv => ExclusiveUnlessRaced
  BY OneHolder DEF ExclusiveUnlessRaced, InSection, Holding
<1> QED
  BY <1>1, LockInvariant, PTL

-----------------------------------------------------------------------------
(* The refinement *)

\* outside a rewrite the content is the file, inside it what was read
LEMMA ContentOfFile ==
  ASSUME \A u \in Tasks : pc[u] # "flush"
  PROVE  Content = log
BY DEF Content

LEMMA ContentOfRewrite ==
  ASSUME NEW t \in Tasks, pc[t] = "flush", \A u \in Tasks : pc[u] = "flush" => u = t
  PROVE  Content = buf[t]
BY DEF Content

\* while nothing is broken a rewriter is alone
LEMMA RewriterAlone ==
  ASSUME LockInv, Quiet, NEW t \in Tasks, LiveTask(t), pc[t] \in Holding
  PROVE  \A u \in Tasks : pc[u] = "flush" => u = t
BY OneHolder DEF LockInv, RewriterLives, Quiet, Holding

\* a step that leaves log, buf and the rewriter alone leaves the content alone
LEMMA ContentStays ==
  ASSUME LockInv, Quiet, UNCHANGED <<log, buf>>,
         \A u \in Tasks : (pc'[u] = "flush") <=> (pc[u] = "flush")
  PROVE  Content' = Content
<1>1. CASE \A u \in Tasks : pc[u] # "flush"
  BY <1>1 DEF Content
<1>2. CASE \E u \in Tasks : pc[u] = "flush"
  <2>1. PICK t \in Tasks : pc[t] = "flush"
    BY <1>2
  <2>2. \A u \in Tasks : pc[u] = "flush" => u = t
    BY <2>1, RewriterAlone DEF LockInv, RewriterLives, Quiet, Holding
  <2>3. Content = buf[t]
    BY <2>1, <2>2, ContentOfRewrite
  <2>4. Content' = buf'[t]
    BY <2>1, <2>2 DEF Content
  <2> QED
    BY <2>3, <2>4
<1> QED
  BY <1>1, <1>2

\* a step of t between two steps of acquireLock and releaseLock maps to nothing
LEMMA OutsideStutters ==
  ASSUME LockInv, Quiet, Quiet', NEW t \in Tasks, NEW step, Outside(t, step),
         (step \in {"release", "done"}) <=> (pc[t] \in {"release", "done"})
  PROVE  UNCHANGED <<Content, Effective>>
<1>1. \A u \in Tasks : pc'[u] = IF u = t THEN step ELSE pc[u]
  BY OthersStay DEF Outside, LockInv
<1>2. \A u \in Tasks : (pc'[u] = "flush") <=> (pc[u] = "flush")
  BY <1>1 DEF Outside
<1>3. UNCHANGED <<log, buf>>
  BY DEF Outside
<1>4. Content' = Content
  BY <1>2, <1>3, ContentStays
<1>5. Effective' = Effective
  BY <1>1 DEF Effective
<1> QED
  BY <1>4, <1>5

Mapped == Abstract!Next \/ UNCHANGED <<Content, Effective, raced \/ torn>>

LEMMA MappedStep == ASSUME LockInv, [Next]_vars PROVE Mapped
<1> USE DEF LockInv
<1>0. (raced => raced') /\ (torn => torn')
  <2>1. ASSUME NEW t \in Tasks, Unlink(t) PROVE (raced => raced') /\ torn' = torn
    BY <2>1 DEF Unlink
  <2>2. ASSUME NEW p \in Procs, Crash(p) PROVE raced' = raced /\ (torn => torn')
    BY <2>2 DEF Crash
  <2>3. ASSUME NEW t \in Tasks, Start(t) \/ (TaskStep(t) /\ ~Unlink(t)) PROVE UNCHANGED <<raced, torn>>
    BY <2>3 DEF TaskStep, Start, Try, Recreate, TryCreate, WritePid, Stat, Read,
       Retry, Timeout, Enter, Truncate, Flush, Release
  <2>4. CASE Age \/ UNCHANGED vars
    BY <2>4 DEF Age, vars
  <2> QED
    BY <2>1, <2>2, <2>3, <2>4 DEF Next
<1>1. CASE ~Quiet'
  <2>1. (raced \/ torn)' = TRUE
    <3>1. raced' \in BOOLEAN /\ torn' \in BOOLEAN
      BY LockType DEF TypeOK
    <3> QED
      BY <1>1, <3>1 DEF Quiet
  <2> QED
    BY <2>1 DEF Mapped, Abstract!Next, Abstract!Break
<1> SUFFICES ASSUME Quiet' PROVE Mapped
  BY <1>1
<1>2. Quiet /\ ((raced \/ torn)' = (raced \/ torn))
  BY <1>0 DEF Quiet, TypeOK
<1>3. ASSUME NEW t \in Tasks, NEW step, Outside(t, step),
             (step \in {"release", "done"}) <=> (pc[t] \in {"release", "done"})
      PROVE  Mapped
  BY <1>2, <1>3, OutsideStutters DEF Mapped
<1>4. CASE UNCHANGED vars
  BY <1>4, <1>2 DEF vars, Mapped, Content, Effective
<1>5. ASSUME NEW t \in Tasks, Start(t) \/ WritePid(t) \/ Retry(t) \/ Timeout(t) \/ Release(t)
      PROVE Mapped
  <2>1. \E step : Outside(t, step) /\ ((step \in {"release", "done"}) <=> (pc[t] \in {"release", "done"}))
    BY <1>5 DEF Start, WritePid, Retry, Timeout, Release, Outside
  <2> QED
    BY <2>1, <1>3
<1>6. ASSUME NEW t \in Tasks, Try(t) \/ Recreate(t) \/ Stat(t) \/ Read(t) \/ Unlink(t)
      PROVE Mapped
  <2>1. \E step : Outside(t, step) /\ ((step \in {"release", "done"}) <=> (pc[t] \in {"release", "done"}))
    BY <1>6 DEF Try, Recreate, TryCreate, Stat, Read, Unlink, Outside
  <2> QED
    BY <2>1, <1>3
<1>7. ASSUME NEW t \in Tasks, Enter(t) PROVE Mapped
  <2>1. LiveTask(t) /\ pc[t] = "locked"
    BY <1>7 DEF Enter, Runs
  <2>2. \A u \in Tasks : pc[u] # "flush"
    BY <2>1, <1>2, RewriterAlone DEF Holding
  <2>3. CASE t \in Clearers
    <3>1. Goto(t, "release") /\ log' = <<>>
      BY <1>7, <2>3 DEF Enter
    <3>2. \A u \in Tasks : pc'[u] = IF u = t THEN "release" ELSE pc[u]
      BY <3>1, OthersStay
    <3>3. Content' = <<>>
      BY <3>1, <3>2, <2>2 DEF Content
    <3>4. t \notin Effective /\ Effective' = Effective \cup {t}
      BY <3>2, <2>1 DEF Effective
    <3>5. Abstract!Call(t)
      BY <3>3, <3>4, <2>3, <1>2 DEF Abstract!Call, Quiet
    <3> QED
      BY <3>5 DEF Mapped, Abstract!Next
  <2>4. CASE t \notin Clearers
    <3>1. Goto(t, "truncate") /\ log' = log
      BY <1>7, <2>4 DEF Enter
    <3>2. \A u \in Tasks : pc'[u] = IF u = t THEN "truncate" ELSE pc[u]
      BY <3>1, OthersStay
    <3>3. Content' = Content
      BY <3>1, <3>2, <2>2 DEF Content
    <3>4. Effective' = Effective
      BY <3>2, <2>1 DEF Effective
    <3> QED
      BY <3>3, <3>4, <1>2 DEF Mapped
  <2> QED
    BY <2>3, <2>4
<1>8. ASSUME NEW t \in Tasks, Truncate(t) PROVE Mapped
  <2>1. LiveTask(t) /\ pc[t] = "truncate" /\ Goto(t, "flush") /\ buf' = buf
    BY <1>8 DEF Truncate, Runs
  <2>2. \A u \in Tasks : pc[u] # "flush"
    BY <2>1, <1>2, RewriterAlone DEF Holding
  <2>3. \A u \in Tasks : pc'[u] = IF u = t THEN "flush" ELSE pc[u]
    BY <2>1, OthersStay
  <2>4. Content = log /\ buf[t] = log
    BY <2>1, <2>2, <1>2, ContentOfFile DEF ReadIsCurrent
  <2>5. Content' = buf'[t]
    BY <2>2, <2>3 DEF Content
  <2>6. Effective' = Effective
    BY <2>1, <2>3 DEF Effective
  <2> QED
    BY <2>1, <2>4, <2>5, <2>6, <1>2 DEF Mapped
<1>9. ASSUME NEW t \in Tasks, Flush(t) PROVE Mapped
  <2>1. LiveTask(t) /\ pc[t] = "flush" /\ Goto(t, "release") /\ log' = Append(buf[t], t)
    BY <1>9 DEF Flush, Runs
  <2>2. \A u \in Tasks : pc[u] = "flush" => u = t
    BY <2>1, <1>2, RewriterAlone DEF Holding
  <2>3. \A u \in Tasks : pc'[u] = IF u = t THEN "release" ELSE pc[u]
    BY <2>1, OthersStay
  <2>4. Content = buf[t]
    BY <2>1, <2>2, ContentOfRewrite
  <2>5. Content' = log'
    BY <2>2, <2>3 DEF Content
  <2>6. t \notin Effective /\ Effective' = Effective \cup {t}
    BY <2>1, <2>3 DEF Effective
  <2>7. t \notin Clearers
    BY <2>1 DEF RewriterAppends
  <2>8. Abstract!Call(t)
    BY <2>1, <2>4, <2>5, <2>6, <2>7, <1>2 DEF Abstract!Call, Quiet
  <2> QED
    BY <2>8 DEF Mapped, Abstract!Next
<1>10. CASE Age
  BY <1>10, <1>2 DEF Age, Mapped, Content, Effective
<1>11. ASSUME NEW p \in Procs, Crash(p) PROVE Mapped
  BY <1>11, <1>2 DEF Crash, Mapped, Content, Effective
<1> QED
  BY <1>4, <1>5, <1>6, <1>7, <1>8, <1>9, <1>10, <1>11 DEF Next, TaskStep

\* The locked append and clear implement the atomic log until a steal hits a
\* live holder or a process dies in the middle of a rewrite: initial states
\* map to initial states, and every step to a step of TopicLog or to nothing.
THEOREM LockImplementsLog == Spec => LogIsAtomic
<1>1. Init => Abstract!Init
  <2>1. ASSUME Init PROVE Content = <<>> /\ Effective = {} /\ (raced \/ torn) = FALSE
    BY <2>1 DEF Init, Content, Effective
  <2> QED
    BY <2>1 DEF Abstract!Init
<1>2. LockInv /\ [Next]_vars => [Abstract!Next]_(Abstract!vars)
  BY MappedStep DEF Mapped, Abstract!vars
<1> QED
  BY <1>1, <1>2, LockInvariant, PTL DEF Spec, LogIsAtomic, Abstract!Spec

=============================================================================
