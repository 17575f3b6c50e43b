---------------------- MODULE CommandExecutionProofs ----------------------
(***************************************************************************)
(* Proofs for CommandExecution.  The inductive invariant adds to the       *)
(* checked properties what they rest on: before the row exists nothing     *)
(* does (Fresh); the executor that created it is alone and the plan is not *)
(* there before it persists it (Early); an agent at work keeps the         *)
(* workstream running unless a cancellation took it (Agents); and the      *)
(* recovery claim names the one recoverer at work until it expires under   *)
(* it (Claimed).                                                           *)
(***************************************************************************)
EXTENDS CommandExecution, TLAPS

Fresh ==
  row = NoRow =>
    /\ ws = None /\ plan = None
    /\ \A a \in Callers : pc[a] \in {"start", "save"}

Early ==
  \A a \in Executors : pc[a] \in {"create", "persist"} => ws = None /\ plan = None

Agents == \A a \in Drivers : pc[a] = "agent" => ws \in {"running", "cancelled"}

Claimed == ~overran => \A a \in Recoverers : AtWork(a) => claim = a

CommandInv ==
  /\ TypeOK /\ Fresh /\ Early /\ Agents /\ OneAgent /\ Claimed /\ CompletedWasDecided

\* What a caller writes back is a row: its copy under another status.
LEMMA SavedRow ==
  ASSUME TypeOK, NEW a \in Callers, NEW s \in Statuses
  PROVE  /\ [inv[a] EXCEPT !.status = s] \in Rows
         /\ [inv EXCEPT ![a].status = s] \in [Callers -> Rows]
         /\ [inv EXCEPT ![a] = NoRow] \in [Callers -> Rows]
         /\ [inv EXCEPT ![a] = row] \in [Callers -> Rows]
<1>1. inv[a] \in Rows /\ NoRow \in Rows /\ row \in Rows
  BY DEF TypeOK, Rows, NoRow
<1>2. [inv[a] EXCEPT !.status = s] \in Rows
  BY <1>1 DEF Rows
<1> QED
  BY <1>1, <1>2 DEF TypeOK

\* So is what an error leaves behind.
LEMMA ThrownRow ==
  ASSUME TypeOK, NEW a \in Callers, NEW e \in BOOLEAN, Throw(a, e)
  PROVE  row' \in Rows /\ inv' \in [Callers -> Rows]
<1>1. "failed" \in Statuses
  BY DEF Statuses, Terminal
<1>2. inv' \in [Callers -> Rows]
  BY <1>1, SavedRow DEF Throw, Leave, Return
<1>3. row' = row \/ row' = [inv[a] EXCEPT !.status = "failed"]
  BY DEF Throw, Save
<1> QED
  BY <1>1, <1>2, <1>3, SavedRow DEF TypeOK

\* The invariant holds before the first call.
LEMMA InitInv == Init => CommandInv
<1> SUFFICES ASSUME Init PROVE CommandInv
  OBVIOUS
<1>1. NoRow \in Rows /\ NoRow.status = None
  BY DEF NoRow, Rows
<1>2. TypeOK
  <2>1. row \in Rows /\ inv \in [Callers -> Rows]
    BY <1>1 DEF Init
  <2>2. crashes \in 0 .. MaxCrashes /\ claim \in Recoverers \cup {None}
    BY CommandAssumption DEF Init
  <2>3. verified \in BOOLEAN /\ decision \in BOOLEAN /\ overran \in BOOLEAN
    BY DEF Init
  <2> QED
    BY <2>1, <2>2, <2>3 DEF Init, TypeOK
<1>3. Fresh /\ Early /\ Agents /\ OneAgent /\ Claimed
  BY DEF Init, Fresh, Early, Agents, OneAgent, Claimed, AtWork, Drivers, Callers
<1>4. CompletedWasDecided
  BY <1>1, CommandAssumption DEF Init, CompletedWasDecided
<1> QED
  BY <1>2, <1>3, <1>4 DEF CommandInv

\* An execution that finds no row preserves the invariant.
LEMMA LookupInv ==
  ASSUME CommandInv, NEW a \in Executors, Lookup(a)
  PROVE  CommandInv'
<1> USE CommandAssumption DEF CommandInv
<1>1. TypeOK'
  <2>1. a \in Callers
  BY DEF Drivers, Callers
  <2>2. row' \in Rows /\ inv' \in [Callers -> Rows]
    <3>1. /\ [status |-> "pending", bound |-> FALSE] \in Rows
          /\ [status |-> "running", bound |-> TRUE] \in Rows
          /\ {"pending", "running", "verifying", "completed", "failed", "cancelled"} \subseteq Statuses
      BY DEF Rows, Statuses, Terminal
    <3> QED
      BY <2>1, <3>1, SavedRow DEF TypeOK, Lookup, Goto, Drivers, Callers
  <2>3. claim' \in Recoverers \cup {None} /\ pc' \in [Callers -> {"start", "save", "create", "persist",
           "ensure", "resume", "schedule", "agent", "decide", "undone", "verify", "complete",
           "stop", "mark", "returned"}]
    BY <2>1 DEF TypeOK, Lookup, Goto, Drivers, Callers
  <2>4. /\ run' \in {None, "active", "cancelled"}
        /\ plan' \in {None, "planned", "running", "succeeded", "failed", "cancelled"}
        /\ ws' \in {None, "planned", "ready", "running", "integrated", "failed", "cancelled"}
        /\ dispatch' \in {None, "pending", "dispatched", "succeeded", "failed", "cancelled"}
    BY DEF TypeOK, Lookup, Goto, Drivers, Callers
  <2>5. verified' \in BOOLEAN /\ decision' \in BOOLEAN /\ crashes' \in 0 .. MaxCrashes /\ overran' \in BOOLEAN
    BY DEF TypeOK, Lookup, Goto, Drivers, Callers
  <2> QED
    BY <2>2, <2>3, <2>4, <2>5 DEF TypeOK
<1>2. Fresh'
  BY DEF TypeOK, Fresh, Rows, NoRow, Statuses, Terminal, Lookup, Goto, Drivers, Callers
<1>3. Early'
  BY DEF TypeOK, Fresh, Early, Agents, OneAgent, AtWork, NoRow, Lookup, Goto, Drivers,
         Callers
<1>4. Agents'
  BY DEF TypeOK, Early, Agents, OneAgent, Lookup, Goto, Drivers, Callers
<1>5. OneAgent'
  BY DEF TypeOK, Fresh, Agents, OneAgent, AtWork, NoRow, Lookup, Goto, Drivers, Callers
<1>6. Claimed'
  BY DEF TypeOK, Fresh, Claimed, AtWork, Lookup, Goto, Drivers, Callers
<1>7. CompletedWasDecided'
  BY DEF TypeOK, CompletedWasDecided, NoRow, Rows, Statuses, Terminal, Lookup, Goto,
         Drivers, Callers
<1> QED
  BY <1>1, <1>2, <1>3, <1>4, <1>5, <1>6, <1>7

\* Recording the pending row, or losing the race for it, preserves the invariant.
LEMMA SavePendingInv ==
  ASSUME CommandInv, NEW a \in Executors, SavePending(a)
  PROVE  CommandInv'
<1> USE CommandAssumption DEF CommandInv
<1>1. TypeOK'
  <2>1. a \in Callers
  BY DEF Drivers, Callers
  <2>2. row' \in Rows /\ inv' \in [Callers -> Rows]
    <3>1. /\ [status |-> "pending", bound |-> FALSE] \in Rows
          /\ [status |-> "running", bound |-> TRUE] \in Rows
          /\ {"pending", "running", "verifying", "completed", "failed", "cancelled"} \subseteq Statuses
      BY DEF Rows, Statuses, Terminal
    <3>2. row \in Rows /\ inv \in [Callers -> Rows]
      BY DEF TypeOK
    <3>3. \/ /\ row' = [status |-> "pending", bound |-> FALSE]
             /\ inv' = [inv EXCEPT ![a] = [status |-> "pending", bound |-> FALSE]]
          \/ row' = row /\ inv' = inv
      BY DEF SavePending
    <3> QED
      BY <2>1, <3>1, <3>2, <3>3
  <2>3. claim' \in Recoverers \cup {None} /\ pc' \in [Callers -> {"start", "save", "create", "persist",
           "ensure", "resume", "schedule", "agent", "decide", "undone", "verify", "complete",
           "stop", "mark", "returned"}]
    BY <2>1 DEF TypeOK, SavePending, Goto, Drivers, Callers
  <2>4. /\ run' \in {None, "active", "cancelled"}
        /\ plan' \in {None, "planned", "running", "succeeded", "failed", "cancelled"}
        /\ ws' \in {None, "planned", "ready", "running", "integrated", "failed", "cancelled"}
        /\ dispatch' \in {None, "pending", "dispatched", "succeeded", "failed", "cancelled"}
    BY DEF TypeOK, SavePending, Goto, Drivers, Callers
  <2>5. verified' \in BOOLEAN /\ decision' \in BOOLEAN /\ crashes' \in 0 .. MaxCrashes /\ overran' \in BOOLEAN
    BY DEF TypeOK, SavePending, Goto, Drivers, Callers
  <2> QED
    BY <2>2, <2>3, <2>4, <2>5 DEF TypeOK
<1>2. Fresh'
  BY DEF TypeOK, Fresh, Rows, NoRow, Statuses, Terminal, SavePending, Goto, Drivers, Callers
<1>3. Early'
  BY DEF TypeOK, Fresh, Early, Agents, OneAgent, AtWork, NoRow, SavePending, Goto, Drivers,
         Callers
<1>4. Agents'
  BY DEF TypeOK, Early, Agents, OneAgent, SavePending, Goto, Drivers, Callers
<1>5. OneAgent'
  BY DEF TypeOK, Fresh, Agents, OneAgent, AtWork, NoRow, SavePending, Goto, Drivers, Callers
<1>6. Claimed'
  BY DEF TypeOK, Fresh, Claimed, AtWork, SavePending, Goto, Drivers, Callers
<1>7. CompletedWasDecided'
  BY DEF TypeOK, CompletedWasDecided, NoRow, Rows, Statuses, Terminal, SavePending, Goto,
         Drivers, Callers
<1> QED
  BY <1>1, <1>2, <1>3, <1>4, <1>5, <1>6, <1>7

\* Creating the run, or failing to, preserves the invariant.
LEMMA CreateRunInv ==
  ASSUME CommandInv, NEW a \in Executors, CreateRun(a)
  PROVE  CommandInv'
<1> USE CommandAssumption DEF CommandInv
<1>1. TypeOK'
  <2>1. a \in Callers
  BY DEF Drivers, Callers
  <2>2. row' \in Rows /\ inv' \in [Callers -> Rows]
    <3>1. /\ [status |-> "pending", bound |-> FALSE] \in Rows
          /\ [status |-> "running", bound |-> TRUE] \in Rows
          /\ {"pending", "running", "verifying", "completed", "failed", "cancelled"} \subseteq Statuses
      BY DEF Rows, Statuses, Terminal
    <3> QED
      BY <2>1, <3>1, SavedRow, ThrownRow DEF TypeOK, CreateRun, Goto, Save, Return, Leave, Drivers, Callers
  <2>3. claim' \in Recoverers \cup {None} /\ pc' \in [Callers -> {"start", "save", "create", "persist",
           "ensure", "resume", "schedule", "agent", "decide", "undone", "verify", "complete",
           "stop", "mark", "returned"}]
    BY <2>1 DEF TypeOK, CreateRun, Goto, Save, Return, Leave, Throw, Drivers, Callers
  <2>4. /\ run' \in {None, "active", "cancelled"}
        /\ plan' \in {None, "planned", "running", "succeeded", "failed", "cancelled"}
        /\ ws' \in {None, "planned", "ready", "running", "integrated", "failed", "cancelled"}
        /\ dispatch' \in {None, "pending", "dispatched", "succeeded", "failed", "cancelled"}
    BY DEF TypeOK, CreateRun, Goto, Save, Return, Leave, Throw, Drivers, Callers
  <2>5. verified' \in BOOLEAN /\ decision' \in BOOLEAN /\ crashes' \in 0 .. MaxCrashes /\ overran' \in BOOLEAN
    BY DEF TypeOK, CreateRun, Goto, Save, Return, Leave, Throw, Drivers, Callers
  <2> QED
    BY <2>2, <2>3, <2>4, <2>5 DEF TypeOK
<1>2. Fresh'
  BY DEF TypeOK, Fresh, Rows, NoRow, Statuses, Terminal, CreateRun, Goto, Save, Return,
         Leave, Throw, Drivers, Callers
<1>3. Early'
  BY DEF TypeOK, Fresh, Early, Agents, OneAgent, AtWork, NoRow, CreateRun, Goto, Save,
         Return, Leave, Throw, Drivers, Callers
<1>4. Agents'
  BY DEF TypeOK, Early, Agents, OneAgent, CreateRun, Goto, Save, Return, Leave, Throw,
         Drivers, Callers
<1>5. OneAgent'
  BY DEF TypeOK, Fresh, Agents, OneAgent, AtWork, NoRow, CreateRun, Goto, Save, Return,
         Leave, Throw, Drivers, Callers
<1>6. Claimed'
  BY DEF TypeOK, Fresh, Claimed, AtWork, CreateRun, Goto, Save, Return, Leave, Throw,
         Drivers, Callers
<1>7. CompletedWasDecided'
  BY DEF TypeOK, CompletedWasDecided, NoRow, Rows, Statuses, Terminal, CreateRun, Goto,
         Save, Return, Leave, Throw, Drivers, Callers
<1> QED
  BY <1>1, <1>2, <1>3, <1>4, <1>5, <1>6, <1>7

\* Persisting the plan preserves the invariant.
LEMMA PersistInv ==
  ASSUME CommandInv, NEW a \in Executors, Persist(a)
  PROVE  CommandInv'
<1> USE CommandAssumption DEF CommandInv
<1>1. TypeOK'
  <2>1. a \in Callers
  BY DEF Drivers, Callers
  <2>2. row' \in Rows /\ inv' \in [Callers -> Rows]
    <3>1. /\ [status |-> "pending", bound |-> FALSE] \in Rows
          /\ [status |-> "running", bound |-> TRUE] \in Rows
          /\ {"pending", "running", "verifying", "completed", "failed", "cancelled"} \subseteq Statuses
      BY DEF Rows, Statuses, Terminal
    <3> QED
      BY <2>1, <3>1, SavedRow DEF TypeOK, Persist, Goto, Drivers, Callers
  <2>3. claim' \in Recoverers \cup {None} /\ pc' \in [Callers -> {"start", "save", "create", "persist",
           "ensure", "resume", "schedule", "agent", "decide", "undone", "verify", "complete",
           "stop", "mark", "returned"}]
    BY <2>1 DEF TypeOK, Persist, Goto, Drivers, Callers
  <2>4. /\ run' \in {None, "active", "cancelled"}
        /\ plan' \in {None, "planned", "running", "succeeded", "failed", "cancelled"}
        /\ ws' \in {None, "planned", "ready", "running", "integrated", "failed", "cancelled"}
        /\ dispatch' \in {None, "pending", "dispatched", "succeeded", "failed", "cancelled"}
    BY DEF TypeOK, Persist, Goto, Drivers, Callers
  <2>5. verified' \in BOOLEAN /\ decision' \in BOOLEAN /\ crashes' \in 0 .. MaxCrashes /\ overran' \in BOOLEAN
    BY DEF TypeOK, Persist, Goto, Drivers, Callers
  <2> QED
    BY <2>2, <2>3, <2>4, <2>5 DEF TypeOK
<1>2. Fresh'
  BY DEF TypeOK, Fresh, Rows, NoRow, Statuses, Terminal, Persist, Goto, Drivers, Callers
<1>3. Early'
  BY DEF TypeOK, Fresh, Early, Agents, OneAgent, AtWork, NoRow, Persist, Goto, Drivers,
         Callers
<1>4. Agents'
  BY DEF TypeOK, Early, Agents, OneAgent, Persist, Goto, Drivers, Callers
<1>5. OneAgent'
  BY DEF TypeOK, Fresh, Agents, OneAgent, AtWork, NoRow, Persist, Goto, Drivers, Callers
<1>6. Claimed'
  BY DEF TypeOK, Fresh, Claimed, AtWork, Persist, Goto, Drivers, Callers
<1>7. CompletedWasDecided'
  BY DEF TypeOK, CompletedWasDecided, NoRow, Rows, Statuses, Terminal, Persist, Goto,
         Drivers, Callers
<1> QED
  BY <1>1, <1>2, <1>3, <1>4, <1>5, <1>6, <1>7

\* Binding the assignment preserves the invariant.
LEMMA EnsureAssignmentsInv ==
  ASSUME CommandInv, NEW a \in Drivers, EnsureAssignments(a)
  PROVE  CommandInv'
<1> USE CommandAssumption DEF CommandInv
<1>1. TypeOK'
  <2>1. a \in Callers
  BY DEF Drivers, Callers
  <2>2. row' \in Rows /\ inv' \in [Callers -> Rows]
    <3>1. /\ [status |-> "pending", bound |-> FALSE] \in Rows
          /\ [status |-> "running", bound |-> TRUE] \in Rows
          /\ {"pending", "running", "verifying", "completed", "failed", "cancelled"} \subseteq Statuses
      BY DEF Rows, Statuses, Terminal
    <3> QED
      BY <2>1, <3>1, SavedRow DEF TypeOK, EnsureAssignments, Goto, Ensure, Drivers, Callers
  <2>3. claim' \in Recoverers \cup {None} /\ pc' \in [Callers -> {"start", "save", "create", "persist",
           "ensure", "resume", "schedule", "agent", "decide", "undone", "verify", "complete",
           "stop", "mark", "returned"}]
    BY <2>1 DEF TypeOK, EnsureAssignments, Goto, Ensure, Drivers, Callers
  <2>4. /\ run' \in {None, "active", "cancelled"}
        /\ plan' \in {None, "planned", "running", "succeeded", "failed", "cancelled"}
        /\ ws' \in {None, "planned", "ready", "running", "integrated", "failed", "cancelled"}
        /\ dispatch' \in {None, "pending", "dispatched", "succeeded", "failed", "cancelled"}
    BY DEF TypeOK, EnsureAssignments, Goto, Ensure, Drivers, Callers
  <2>5. verified' \in BOOLEAN /\ decision' \in BOOLEAN /\ crashes' \in 0 .. MaxCrashes /\ overran' \in BOOLEAN
    BY DEF TypeOK, EnsureAssignments, Goto, Ensure, Drivers, Callers
  <2> QED
    BY <2>2, <2>3, <2>4, <2>5 DEF TypeOK
<1>2. Fresh'
  BY DEF TypeOK, Fresh, Rows, NoRow, Statuses, Terminal, EnsureAssignments, Goto, Ensure,
         Drivers, Callers
<1>3. Early'
  BY DEF TypeOK, Fresh, Early, Agents, OneAgent, AtWork, NoRow, EnsureAssignments, Goto,
         Ensure, Drivers, Callers
<1>4. Agents'
  BY DEF TypeOK, Early, Agents, OneAgent, EnsureAssignments, Goto, Ensure, Drivers, Callers
<1>5. OneAgent'
  BY DEF TypeOK, Fresh, Agents, OneAgent, AtWork, NoRow, EnsureAssignments, Goto, Ensure,
         Drivers, Callers
<1>6. Claimed'
  BY DEF TypeOK, Fresh, Claimed, AtWork, EnsureAssignments, Goto, Ensure, Drivers, Callers
<1>7. CompletedWasDecided'
  BY DEF TypeOK, CompletedWasDecided, NoRow, Rows, Statuses, Terminal, EnsureAssignments,
         Goto, Ensure, Drivers, Callers
<1> QED
  BY <1>1, <1>2, <1>3, <1>4, <1>5, <1>6, <1>7

\* Claiming a recovery preserves the invariant.
LEMMA RecoverInv ==
  ASSUME CommandInv, NEW a \in Recoverers, Recover(a)
  PROVE  CommandInv'
<1> USE CommandAssumption DEF CommandInv
<1>1. TypeOK'
  <2>1. a \in Callers
  BY DEF Drivers, Callers
  <2>2. row' \in Rows /\ inv' \in [Callers -> Rows]
    <3>1. /\ [status |-> "pending", bound |-> FALSE] \in Rows
          /\ [status |-> "running", bound |-> TRUE] \in Rows
          /\ {"pending", "running", "verifying", "completed", "failed", "cancelled"} \subseteq Statuses
      BY DEF Rows, Statuses, Terminal
    <3> QED
      BY <2>1, <3>1, SavedRow DEF TypeOK, Recover, Goto, Ensure, ClaimFree, Drivers, Callers
  <2>3. claim' \in Recoverers \cup {None} /\ pc' \in [Callers -> {"start", "save", "create", "persist",
           "ensure", "resume", "schedule", "agent", "decide", "undone", "verify", "complete",
           "stop", "mark", "returned"}]
    BY <2>1 DEF TypeOK, Recover, Goto, Ensure, ClaimFree, Drivers, Callers
  <2>4. /\ run' \in {None, "active", "cancelled"}
        /\ plan' \in {None, "planned", "running", "succeeded", "failed", "cancelled"}
        /\ ws' \in {None, "planned", "ready", "running", "integrated", "failed", "cancelled"}
        /\ dispatch' \in {None, "pending", "dispatched", "succeeded", "failed", "cancelled"}
    BY DEF TypeOK, Recover, Goto, Ensure, ClaimFree, Drivers, Callers
  <2>5. verified' \in BOOLEAN /\ decision' \in BOOLEAN /\ crashes' \in 0 .. MaxCrashes /\ overran' \in BOOLEAN
    BY DEF TypeOK, Recover, Goto, Ensure, ClaimFree, Drivers, Callers
  <2> QED
    BY <2>2, <2>3, <2>4, <2>5 DEF TypeOK
<1>2. Fresh'
  BY DEF TypeOK, Fresh, Rows, NoRow, Statuses, Terminal, Recover, Goto, Ensure, ClaimFree,
         Drivers, Callers
<1>3. Early'
  BY DEF TypeOK, Fresh, Early, Agents, OneAgent, AtWork, NoRow, Recover, Goto, Ensure,
         ClaimFree, Drivers, Callers
<1>4. Agents'
  BY DEF TypeOK, Early, Agents, OneAgent, Recover, Goto, Ensure, ClaimFree, Drivers, Callers
<1>5. OneAgent'
  BY DEF TypeOK, Fresh, Agents, OneAgent, AtWork, NoRow, Recover, Goto, Ensure, ClaimFree,
         Drivers, Callers
<1>6. Claimed'
  BY DEF TypeOK, Fresh, Claimed, AtWork, Recover, Goto, Ensure, ClaimFree, Drivers, Callers
<1>7. CompletedWasDecided'
  BY DEF TypeOK, CompletedWasDecided, NoRow, Rows, Statuses, Terminal, Recover, Goto,
         Ensure, ClaimFree, Drivers, Callers
<1> QED
  BY <1>1, <1>2, <1>3, <1>4, <1>5, <1>6, <1>7

\* Marking the recovered row running preserves the invariant.
LEMMA ResumeInv ==
  ASSUME CommandInv, NEW a \in Recoverers, Resume(a)
  PROVE  CommandInv'
<1> USE CommandAssumption DEF CommandInv
<1>1. TypeOK'
  <2>1. a \in Callers
  BY DEF Drivers, Callers
  <2>2. row' \in Rows /\ inv' \in [Callers -> Rows]
    <3>1. /\ [status |-> "pending", bound |-> FALSE] \in Rows
          /\ [status |-> "running", bound |-> TRUE] \in Rows
          /\ {"pending", "running", "verifying", "completed", "failed", "cancelled"} \subseteq Statuses
      BY DEF Rows, Statuses, Terminal
    <3> QED
      BY <2>1, <3>1, SavedRow DEF TypeOK, Resume, Goto, Save, SaveAndGo, Drivers, Callers
  <2>3. claim' \in Recoverers \cup {None} /\ pc' \in [Callers -> {"start", "save", "create", "persist",
           "ensure", "resume", "schedule", "agent", "decide", "undone", "verify", "complete",
           "stop", "mark", "returned"}]
    BY <2>1 DEF TypeOK, Resume, Goto, Save, SaveAndGo, Drivers, Callers
  <2>4. /\ run' \in {None, "active", "cancelled"}
        /\ plan' \in {None, "planned", "running", "succeeded", "failed", "cancelled"}
        /\ ws' \in {None, "planned", "ready", "running", "integrated", "failed", "cancelled"}
        /\ dispatch' \in {None, "pending", "dispatched", "succeeded", "failed", "cancelled"}
    BY DEF TypeOK, Resume, Goto, Save, SaveAndGo, Drivers, Callers
  <2>5. verified' \in BOOLEAN /\ decision' \in BOOLEAN /\ crashes' \in 0 .. MaxCrashes /\ overran' \in BOOLEAN
    BY DEF TypeOK, Resume, Goto, Save, SaveAndGo, Drivers, Callers
  <2> QED
    BY <2>2, <2>3, <2>4, <2>5 DEF TypeOK
<1>2. Fresh'
  BY DEF TypeOK, Fresh, Rows, NoRow, Statuses, Terminal, Resume, Goto, Save, SaveAndGo,
         Drivers, Callers
<1>3. Early'
  BY DEF TypeOK, Fresh, Early, Agents, OneAgent, AtWork, NoRow, Resume, Goto, Save,
         SaveAndGo, Drivers, Callers
<1>4. Agents'
  BY DEF TypeOK, Early, Agents, OneAgent, Resume, Goto, Save, SaveAndGo, Drivers, Callers
<1>5. OneAgent'
  BY DEF TypeOK, Fresh, Agents, OneAgent, AtWork, NoRow, Resume, Goto, Save, SaveAndGo,
         Drivers, Callers
<1>6. Claimed'
  BY DEF TypeOK, Fresh, Claimed, AtWork, Resume, Goto, Save, SaveAndGo, Drivers, Callers
<1>7. CompletedWasDecided'
  BY DEF TypeOK, CompletedWasDecided, NoRow, Rows, Statuses, Terminal, Resume, Goto, Save,
         SaveAndGo, Drivers, Callers
<1> QED
  BY <1>1, <1>2, <1>3, <1>4, <1>5, <1>6, <1>7

\* Dispatching the workstream preserves the invariant.
LEMMA DispatchInv ==
  ASSUME CommandInv, NEW a \in Drivers, Dispatch(a)
  PROVE  CommandInv'
<1> USE CommandAssumption DEF CommandInv
<1>1. TypeOK'
  <2>1. a \in Callers
  BY DEF Drivers, Callers
  <2>2. row' \in Rows /\ inv' \in [Callers -> Rows]
    <3>1. /\ [status |-> "pending", bound |-> FALSE] \in Rows
          /\ [status |-> "running", bound |-> TRUE] \in Rows
          /\ {"pending", "running", "verifying", "completed", "failed", "cancelled"} \subseteq Statuses
      BY DEF Rows, Statuses, Terminal
    <3> QED
      BY <2>1, <3>1, SavedRow DEF TypeOK, Dispatch, Goto, Drivers, Callers
  <2>3. claim' \in Recoverers \cup {None} /\ pc' \in [Callers -> {"start", "save", "create", "persist",
           "ensure", "resume", "schedule", "agent", "decide", "undone", "verify", "complete",
           "stop", "mark", "returned"}]
    BY <2>1 DEF TypeOK, Dispatch, Goto, Drivers, Callers
  <2>4. /\ run' \in {None, "active", "cancelled"}
        /\ plan' \in {None, "planned", "running", "succeeded", "failed", "cancelled"}
        /\ ws' \in {None, "planned", "ready", "running", "integrated", "failed", "cancelled"}
        /\ dispatch' \in {None, "pending", "dispatched", "succeeded", "failed", "cancelled"}
    BY DEF TypeOK, Dispatch, Goto, Drivers, Callers
  <2>5. verified' \in BOOLEAN /\ decision' \in BOOLEAN /\ crashes' \in 0 .. MaxCrashes /\ overran' \in BOOLEAN
    BY DEF TypeOK, Dispatch, Goto, Drivers, Callers
  <2> QED
    BY <2>2, <2>3, <2>4, <2>5 DEF TypeOK
<1>2. Fresh'
  BY DEF TypeOK, Fresh, Rows, NoRow, Statuses, Terminal, Dispatch, Goto, Drivers,
         Callers
<1>3. Early'
  BY DEF TypeOK, Fresh, Early, Agents, OneAgent, AtWork, NoRow, Dispatch, Goto,
         Drivers, Callers
<1>4. Agents'
  BY DEF TypeOK, Early, Agents, OneAgent, Dispatch, Goto, Drivers, Callers
<1>5. OneAgent'
  BY DEF TypeOK, Fresh, Agents, OneAgent, AtWork, NoRow, Dispatch, Goto, Drivers,
         Callers
<1>6. Claimed'
  BY DEF TypeOK, Fresh, Claimed, AtWork, Dispatch, Goto, Drivers, Callers
<1>7. CompletedWasDecided'
  BY DEF TypeOK, CompletedWasDecided, NoRow, Rows, Statuses, Terminal, Dispatch, Goto,
         Drivers, Callers
<1> QED
  BY <1>1, <1>2, <1>3, <1>4, <1>5, <1>6, <1>7

\* A refused worktree preserves the invariant.
LEMMA DispatchThrowsInv ==
  ASSUME CommandInv, NEW a \in Drivers, DispatchThrows(a)
  PROVE  CommandInv'
<1> USE CommandAssumption DEF CommandInv
<1>1. TypeOK'
  <2>1. a \in Callers
  BY DEF Drivers, Callers
  <2>2. row' \in Rows /\ inv' \in [Callers -> Rows]
    <3>1. /\ [status |-> "pending", bound |-> FALSE] \in Rows
          /\ [status |-> "running", bound |-> TRUE] \in Rows
          /\ {"pending", "running", "verifying", "completed", "failed", "cancelled"} \subseteq Statuses
      BY DEF Rows, Statuses, Terminal
    <3> QED
      BY <2>1, <3>1, SavedRow, ThrownRow DEF TypeOK, DispatchThrows, Goto, Save, Return, Leave, Ready, Drivers, Callers
  <2>3. claim' \in Recoverers \cup {None} /\ pc' \in [Callers -> {"start", "save", "create", "persist",
           "ensure", "resume", "schedule", "agent", "decide", "undone", "verify", "complete",
           "stop", "mark", "returned"}]
    BY <2>1 DEF TypeOK, DispatchThrows, Goto, Save, Return, Leave, Throw, Ready, Drivers, Callers
  <2>4. /\ run' \in {None, "active", "cancelled"}
        /\ plan' \in {None, "planned", "running", "succeeded", "failed", "cancelled"}
        /\ ws' \in {None, "planned", "ready", "running", "integrated", "failed", "cancelled"}
        /\ dispatch' \in {None, "pending", "dispatched", "succeeded", "failed", "cancelled"}
    BY DEF TypeOK, DispatchThrows, Goto, Save, Return, Leave, Throw, Ready, Drivers, Callers
  <2>5. verified' \in BOOLEAN /\ decision' \in BOOLEAN /\ crashes' \in 0 .. MaxCrashes /\ overran' \in BOOLEAN
    BY DEF TypeOK, DispatchThrows, Goto, Save, Return, Leave, Throw, Ready, Drivers, Callers
  <2> QED
    BY <2>2, <2>3, <2>4, <2>5 DEF TypeOK
<1>2. Fresh'
  BY DEF TypeOK, Fresh, Rows, NoRow, Statuses, Terminal, DispatchThrows, Goto, Save, Return,
         Leave, Throw, Ready, Drivers, Callers
<1>3. Early'
  BY DEF TypeOK, Fresh, Early, Agents, OneAgent, AtWork, NoRow, DispatchThrows, Goto, Save,
         Return, Leave, Throw, Ready, Drivers, Callers
<1>4. Agents'
  BY DEF TypeOK, Early, Agents, OneAgent, DispatchThrows, Goto, Save, Return, Leave, Throw,
         Ready, Drivers, Callers
<1>5. OneAgent'
  BY DEF TypeOK, Fresh, Agents, OneAgent, AtWork, NoRow, DispatchThrows, Goto, Save, Return,
         Leave, Throw, Ready, Drivers, Callers
<1>6. Claimed'
  BY DEF TypeOK, Fresh, Claimed, AtWork, DispatchThrows, Goto, Save, Return, Leave, Throw,
         Ready, Drivers, Callers
<1>7. CompletedWasDecided'
  BY DEF TypeOK, CompletedWasDecided, NoRow, Rows, Statuses, Terminal, DispatchThrows, Goto,
         Save, Return, Leave, Throw, Ready, Drivers, Callers
<1> QED
  BY <1>1, <1>2, <1>3, <1>4, <1>5, <1>6, <1>7

\* A schedule with nothing ready preserves the invariant.
LEMMA NothingReadyInv ==
  ASSUME CommandInv, NEW a \in Drivers, NothingReady(a)
  PROVE  CommandInv'
<1> USE CommandAssumption DEF CommandInv
<1>1. TypeOK'
  <2>1. a \in Callers
  BY DEF Drivers, Callers
  <2>2. row' \in Rows /\ inv' \in [Callers -> Rows]
    <3>1. /\ [status |-> "pending", bound |-> FALSE] \in Rows
          /\ [status |-> "running", bound |-> TRUE] \in Rows
          /\ {"pending", "running", "verifying", "completed", "failed", "cancelled"} \subseteq Statuses
      BY DEF Rows, Statuses, Terminal
    <3> QED
      BY <2>1, <3>1, SavedRow DEF TypeOK, NothingReady, Goto, Ready, Drivers, Callers
  <2>3. claim' \in Recoverers \cup {None} /\ pc' \in [Callers -> {"start", "save", "create", "persist",
           "ensure", "resume", "schedule", "agent", "decide", "undone", "verify", "complete",
           "stop", "mark", "returned"}]
    BY <2>1 DEF TypeOK, NothingReady, Goto, Ready, Drivers, Callers
  <2>4. /\ run' \in {None, "active", "cancelled"}
        /\ plan' \in {None, "planned", "running", "succeeded", "failed", "cancelled"}
        /\ ws' \in {None, "planned", "ready", "running", "integrated", "failed", "cancelled"}
        /\ dispatch' \in {None, "pending", "dispatched", "succeeded", "failed", "cancelled"}
    BY DEF TypeOK, NothingReady, Goto, Ready, Drivers, Callers
  <2>5. verified' \in BOOLEAN /\ decision' \in BOOLEAN /\ crashes' \in 0 .. MaxCrashes /\ overran' \in BOOLEAN
    BY DEF TypeOK, NothingReady, Goto, Ready, Drivers, Callers
  <2> QED
    BY <2>2, <2>3, <2>4, <2>5 DEF TypeOK
<1>2. Fresh'
  BY DEF TypeOK, Fresh, Rows, NoRow, Statuses, Terminal, NothingReady, Goto, Ready, Drivers,
         Callers
<1>3. Early'
  BY DEF TypeOK, Fresh, Early, Agents, OneAgent, AtWork, NoRow, NothingReady, Goto, Ready,
         Drivers, Callers
<1>4. Agents'
  BY DEF TypeOK, Early, Agents, OneAgent, NothingReady, Goto, Ready, Drivers, Callers
<1>5. OneAgent'
  BY DEF TypeOK, Fresh, Agents, OneAgent, AtWork, NoRow, NothingReady, Goto, Ready, Drivers,
         Callers
<1>6. Claimed'
  BY DEF TypeOK, Fresh, Claimed, AtWork, NothingReady, Goto, Ready, Drivers, Callers
<1>7. CompletedWasDecided'
  BY DEF TypeOK, CompletedWasDecided, NoRow, Rows, Statuses, Terminal, NothingReady, Goto,
         Ready, Drivers, Callers
<1> QED
  BY <1>1, <1>2, <1>3, <1>4, <1>5, <1>6, <1>7

\* The agent's return preserves the invariant.
LEMMA AgentReturnsInv ==
  ASSUME CommandInv, NEW a \in Drivers, NEW good \in BOOLEAN, AgentReturns(a, good)
  PROVE  CommandInv'
<1> USE CommandAssumption DEF CommandInv
<1>1. TypeOK'
  <2>1. a \in Callers
  BY DEF Drivers, Callers
  <2>2. row' \in Rows /\ inv' \in [Callers -> Rows]
    <3>1. /\ [status |-> "pending", bound |-> FALSE] \in Rows
          /\ [status |-> "running", bound |-> TRUE] \in Rows
          /\ {"pending", "running", "verifying", "completed", "failed", "cancelled"} \subseteq Statuses
      BY DEF Rows, Statuses, Terminal
    <3> QED
      BY <2>1, <3>1, SavedRow, ThrownRow DEF TypeOK, AgentReturns, Goto, Save, Return, Leave, Drivers, Callers
  <2>3. claim' \in Recoverers \cup {None} /\ pc' \in [Callers -> {"start", "save", "create", "persist",
           "ensure", "resume", "schedule", "agent", "decide", "undone", "verify", "complete",
           "stop", "mark", "returned"}]
    BY <2>1 DEF TypeOK, AgentReturns, Goto, Save, Return, Leave, Throw, Drivers, Callers
  <2>4. /\ run' \in {None, "active", "cancelled"}
        /\ plan' \in {None, "planned", "running", "succeeded", "failed", "cancelled"}
        /\ ws' \in {None, "planned", "ready", "running", "integrated", "failed", "cancelled"}
        /\ dispatch' \in {None, "pending", "dispatched", "succeeded", "failed", "cancelled"}
    BY DEF TypeOK, AgentReturns, Goto, Save, Return, Leave, Throw, Drivers, Callers
  <2>5. verified' \in BOOLEAN /\ decision' \in BOOLEAN /\ crashes' \in 0 .. MaxCrashes /\ overran' \in BOOLEAN
    BY DEF TypeOK, AgentReturns, Goto, Save, Return, Leave, Throw, Drivers, Callers
  <2> QED
    BY <2>2, <2>3, <2>4, <2>5 DEF TypeOK
<1>2. Fresh'
  BY DEF TypeOK, Fresh, Rows, NoRow, Statuses, Terminal, AgentReturns, Goto, Save, Return,
         Leave, Throw, Drivers, Callers
<1>3. Early'
  BY DEF TypeOK, Fresh, Early, Agents, OneAgent, AtWork, NoRow, AgentReturns, Goto, Save,
         Return, Leave, Throw, Drivers, Callers
<1>4. Agents'
  BY DEF TypeOK, Early, Agents, OneAgent, AgentReturns, Goto, Save, Return, Leave, Throw,
         Drivers, Callers
<1>5. OneAgent'
  BY DEF TypeOK, Fresh, Agents, OneAgent, AtWork, NoRow, AgentReturns, Goto, Save, Return,
         Leave, Throw, Drivers, Callers
<1>6. Claimed'
  BY DEF TypeOK, Fresh, Claimed, AtWork, AgentReturns, Goto, Save, Return, Leave, Throw,
         Drivers, Callers
<1>7. CompletedWasDecided'
  BY DEF TypeOK, CompletedWasDecided, NoRow, Rows, Statuses, Terminal, AgentReturns, Goto,
         Save, Return, Leave, Throw, Drivers, Callers
<1> QED
  BY <1>1, <1>2, <1>3, <1>4, <1>5, <1>6, <1>7

\* The verdict on the schedule preserves the invariant.
LEMMA AfterScheduleInv ==
  ASSUME CommandInv, NEW a \in Drivers, AfterSchedule(a)
  PROVE  CommandInv'
<1> USE CommandAssumption DEF CommandInv
<1>1. TypeOK'
  <2>1. a \in Callers
  BY DEF Drivers, Callers
  <2>2. row' \in Rows /\ inv' \in [Callers -> Rows]
    <3>1. /\ [status |-> "pending", bound |-> FALSE] \in Rows
          /\ [status |-> "running", bound |-> TRUE] \in Rows
          /\ {"pending", "running", "verifying", "completed", "failed", "cancelled"} \subseteq Statuses
      BY DEF Rows, Statuses, Terminal
    <3>2. \/ row' = row /\ inv' = [inv EXCEPT ![a] = NoRow]
          \/ Throw(a, TRUE)
          \/ /\ row' = [inv[a] EXCEPT !.status = "verifying"]
             /\ inv' = [inv EXCEPT ![a].status = "verifying"]
          \/ row' = row /\ inv' = inv
      BY DEF AfterSchedule, Save, SaveAndGo, Return, Leave
    <3>3. "verifying" \in Statuses /\ row \in Rows /\ inv \in [Callers -> Rows]
      BY <3>1 DEF TypeOK
    <3>4. CASE Throw(a, TRUE)
      BY <2>1, <3>4, ThrownRow
    <3>5. /\ [inv[a] EXCEPT !.status = "verifying"] \in Rows
          /\ [inv EXCEPT ![a].status = "verifying"] \in [Callers -> Rows]
          /\ [inv EXCEPT ![a] = NoRow] \in [Callers -> Rows]
      BY <2>1, <3>3, SavedRow
    <3> QED
      BY <3>2, <3>3, <3>4, <3>5
  <2>3. claim' \in Recoverers \cup {None} /\ pc' \in [Callers -> {"start", "save", "create", "persist",
           "ensure", "resume", "schedule", "agent", "decide", "undone", "verify", "complete",
           "stop", "mark", "returned"}]
    BY <2>1 DEF TypeOK, AfterSchedule, Goto, Save, SaveAndGo, Return, Leave, Throw, Drivers,
           Callers
  <2>4. /\ run' \in {None, "active", "cancelled"}
        /\ plan' \in {None, "planned", "running", "succeeded", "failed", "cancelled"}
        /\ ws' \in {None, "planned", "ready", "running", "integrated", "failed", "cancelled"}
        /\ dispatch' \in {None, "pending", "dispatched", "succeeded", "failed", "cancelled"}
    BY DEF TypeOK, AfterSchedule, Goto, Save, SaveAndGo, Return, Leave, Throw, Drivers,
           Callers
  <2>5. verified' \in BOOLEAN /\ decision' \in BOOLEAN /\ crashes' \in 0 .. MaxCrashes /\ overran' \in BOOLEAN
    BY DEF TypeOK, AfterSchedule, Goto, Save, SaveAndGo, Return, Leave, Throw, Drivers,
           Callers
  <2> QED
    BY <2>2, <2>3, <2>4, <2>5 DEF TypeOK
<1>2. Fresh'
  BY DEF TypeOK, Fresh, Rows, NoRow, Statuses, Terminal, AfterSchedule, Goto, Save,
         SaveAndGo, Return, Leave, Throw, Drivers, Callers
<1>3. Early'
  BY DEF TypeOK, Fresh, Early, Agents, OneAgent, AtWork, NoRow, AfterSchedule, Goto, Save,
         SaveAndGo, Return, Leave, Throw, Drivers, Callers
<1>4. Agents'
  BY DEF TypeOK, Early, Agents, OneAgent, AfterSchedule, Goto, Save, SaveAndGo, Return,
         Leave, Throw, Drivers, Callers
<1>5. OneAgent'
  BY DEF TypeOK, Fresh, Agents, OneAgent, AtWork, NoRow, AfterSchedule, Goto, Save,
         SaveAndGo, Return, Leave, Throw, Drivers, Callers
<1>6. Claimed'
  BY DEF TypeOK, Fresh, Claimed, AtWork, AfterSchedule, Goto, Save, SaveAndGo, Return,
         Leave, Throw, Drivers, Callers
<1>7. CompletedWasDecided'
  BY DEF TypeOK, CompletedWasDecided, NoRow, Rows, Statuses, Terminal, AfterSchedule, Goto,
         Save, SaveAndGo, Return, Leave, Throw, Drivers, Callers
<1> QED
  BY <1>1, <1>2, <1>3, <1>4, <1>5, <1>6, <1>7

\* Verification preserves the invariant.
LEMMA VerifyInv ==
  ASSUME CommandInv, NEW a \in Drivers, Verify(a)
  PROVE  CommandInv'
<1> USE CommandAssumption DEF CommandInv
<1>1. TypeOK'
  <2>1. a \in Callers
  BY DEF Drivers, Callers
  <2>2. row' \in Rows /\ inv' \in [Callers -> Rows]
    <3>1. /\ [status |-> "pending", bound |-> FALSE] \in Rows
          /\ [status |-> "running", bound |-> TRUE] \in Rows
          /\ {"pending", "running", "verifying", "completed", "failed", "cancelled"} \subseteq Statuses
      BY DEF Rows, Statuses, Terminal
    <3> QED
      BY <2>1, <3>1, SavedRow, ThrownRow DEF TypeOK, Verify, Goto, Save, Return, Leave, Drivers, Callers
  <2>3. claim' \in Recoverers \cup {None} /\ pc' \in [Callers -> {"start", "save", "create", "persist",
           "ensure", "resume", "schedule", "agent", "decide", "undone", "verify", "complete",
           "stop", "mark", "returned"}]
    BY <2>1 DEF TypeOK, Verify, Goto, Save, Return, Leave, Throw, Drivers, Callers
  <2>4. /\ run' \in {None, "active", "cancelled"}
        /\ plan' \in {None, "planned", "running", "succeeded", "failed", "cancelled"}
        /\ ws' \in {None, "planned", "ready", "running", "integrated", "failed", "cancelled"}
        /\ dispatch' \in {None, "pending", "dispatched", "succeeded", "failed", "cancelled"}
    BY DEF TypeOK, Verify, Goto, Save, Return, Leave, Throw, Drivers, Callers
  <2>5. verified' \in BOOLEAN /\ decision' \in BOOLEAN /\ crashes' \in 0 .. MaxCrashes /\ overran' \in BOOLEAN
    BY DEF TypeOK, Verify, Goto, Save, Return, Leave, Throw, Drivers, Callers
  <2> QED
    BY <2>2, <2>3, <2>4, <2>5 DEF TypeOK
<1>2. Fresh'
  BY DEF TypeOK, Fresh, Rows, NoRow, Statuses, Terminal, Verify, Goto, Save, Return, Leave,
         Throw, Drivers, Callers
<1>3. Early'
  BY DEF TypeOK, Fresh, Early, Agents, OneAgent, AtWork, NoRow, Verify, Goto, Save, Return,
         Leave, Throw, Drivers, Callers
<1>4. Agents'
  BY DEF TypeOK, Early, Agents, OneAgent, Verify, Goto, Save, Return, Leave, Throw, Drivers,
         Callers
<1>5. OneAgent'
  BY DEF TypeOK, Fresh, Agents, OneAgent, AtWork, NoRow, Verify, Goto, Save, Return, Leave,
         Throw, Drivers, Callers
<1>6. Claimed'
  BY DEF TypeOK, Fresh, Claimed, AtWork, Verify, Goto, Save, Return, Leave, Throw, Drivers,
         Callers
<1>7. CompletedWasDecided'
  BY DEF TypeOK, CompletedWasDecided, NoRow, Rows, Statuses, Terminal, Verify, Goto, Save,
         Return, Leave, Throw, Drivers, Callers
<1> QED
  BY <1>1, <1>2, <1>3, <1>4, <1>5, <1>6, <1>7

\* The completion decision and the end of the command preserves the invariant.
LEMMA CompleteInv ==
  ASSUME CommandInv, NEW a \in Drivers, Complete(a)
  PROVE  CommandInv'
<1> USE CommandAssumption DEF CommandInv
<1>1. TypeOK'
  <2>1. a \in Callers
  BY DEF Drivers, Callers
  <2>2. row' \in Rows /\ inv' \in [Callers -> Rows]
    <3>1. /\ [status |-> "pending", bound |-> FALSE] \in Rows
          /\ [status |-> "running", bound |-> TRUE] \in Rows
          /\ {"pending", "running", "verifying", "completed", "failed", "cancelled"} \subseteq Statuses
      BY DEF Rows, Statuses, Terminal
    <3>2. \/ Throw(a, TRUE) \/ Throw(a, FALSE)
          \/ /\ row' = [inv[a] EXCEPT !.status = "completed"]
             /\ inv' = [inv EXCEPT ![a] = NoRow]
      BY DEF Complete, Finish, Save, Return, Leave
    <3>3. "completed" \in Statuses
      BY <3>1
    <3>4. ASSUME NEW e \in BOOLEAN, Throw(a, e) PROVE row' \in Rows /\ inv' \in [Callers -> Rows]
      BY <2>1, <3>4, ThrownRow
    <3>5. /\ [inv[a] EXCEPT !.status = "completed"] \in Rows
          /\ [inv EXCEPT ![a].status = "completed"] \in [Callers -> Rows]
          /\ [inv EXCEPT ![a] = NoRow] \in [Callers -> Rows]
      BY <2>1, <3>3, SavedRow
    <3> QED
      BY <3>2, <3>3, <3>4, <3>5
  <2>3. claim' \in Recoverers \cup {None} /\ pc' \in [Callers -> {"start", "save", "create", "persist",
           "ensure", "resume", "schedule", "agent", "decide", "undone", "verify", "complete",
           "stop", "mark", "returned"}]
    BY <2>1 DEF TypeOK, Complete, Goto, Save, Return, Leave, Throw, Finish, PlanMaySucceed,
           Drivers, Callers
  <2>4. /\ run' \in {None, "active", "cancelled"}
        /\ plan' \in {None, "planned", "running", "succeeded", "failed", "cancelled"}
        /\ ws' \in {None, "planned", "ready", "running", "integrated", "failed", "cancelled"}
        /\ dispatch' \in {None, "pending", "dispatched", "succeeded", "failed", "cancelled"}
    BY DEF TypeOK, Complete, Goto, Save, Return, Leave, Throw, Finish, PlanMaySucceed,
           Drivers, Callers
  <2>5. verified' \in BOOLEAN /\ decision' \in BOOLEAN /\ crashes' \in 0 .. MaxCrashes /\ overran' \in BOOLEAN
    BY DEF TypeOK, Complete, Goto, Save, Return, Leave, Throw, Finish, PlanMaySucceed,
           Drivers, Callers
  <2> QED
    BY <2>2, <2>3, <2>4, <2>5 DEF TypeOK
<1>2. Fresh'
  BY DEF TypeOK, Fresh, Rows, NoRow, Statuses, Terminal, Complete, Goto, Save, Return,
         Leave, Throw, Finish, PlanMaySucceed, Drivers, Callers
<1>3. Early'
  BY DEF TypeOK, Fresh, Early, Agents, OneAgent, AtWork, NoRow, Complete, Goto, Save,
         Return, Leave, Throw, Finish, PlanMaySucceed, Drivers, Callers
<1>4. Agents'
  BY DEF TypeOK, Early, Agents, OneAgent, Complete, Goto, Save, Return, Leave, Throw,
         Finish, PlanMaySucceed, Drivers, Callers
<1>5. OneAgent'
  BY DEF TypeOK, Fresh, Agents, OneAgent, AtWork, NoRow, Complete, Goto, Save, Return,
         Leave, Throw, Finish, PlanMaySucceed, Drivers, Callers
<1>6. Claimed'
  BY DEF TypeOK, Fresh, Claimed, AtWork, Complete, Goto, Save, Return, Leave, Throw, Finish,
         PlanMaySucceed, Drivers, Callers
<1>7. CompletedWasDecided'
  BY DEF TypeOK, CompletedWasDecided, NoRow, Rows, Statuses, Terminal, Complete, Goto, Save,
         Return, Leave, Throw, Finish, PlanMaySucceed, Drivers, Callers
<1> QED
  BY <1>1, <1>2, <1>3, <1>4, <1>5, <1>6, <1>7

\* Beginning a cancellation preserves the invariant.
LEMMA CancelInv ==
  ASSUME CommandInv, NEW a \in Cancellers, Cancel(a)
  PROVE  CommandInv'
<1> USE CommandAssumption DEF CommandInv
<1>1. TypeOK'
  <2>1. a \in Callers
  BY DEF Drivers, Callers
  <2>2. row' \in Rows /\ inv' \in [Callers -> Rows]
    <3>1. /\ [status |-> "pending", bound |-> FALSE] \in Rows
          /\ [status |-> "running", bound |-> TRUE] \in Rows
          /\ {"pending", "running", "verifying", "completed", "failed", "cancelled"} \subseteq Statuses
      BY DEF Rows, Statuses, Terminal
    <3> QED
      BY <2>1, <3>1, SavedRow DEF TypeOK, Cancel, Goto, Drivers, Callers
  <2>3. claim' \in Recoverers \cup {None} /\ pc' \in [Callers -> {"start", "save", "create", "persist",
           "ensure", "resume", "schedule", "agent", "decide", "undone", "verify", "complete",
           "stop", "mark", "returned"}]
    BY <2>1 DEF TypeOK, Cancel, Goto, Drivers, Callers
  <2>4. /\ run' \in {None, "active", "cancelled"}
        /\ plan' \in {None, "planned", "running", "succeeded", "failed", "cancelled"}
        /\ ws' \in {None, "planned", "ready", "running", "integrated", "failed", "cancelled"}
        /\ dispatch' \in {None, "pending", "dispatched", "succeeded", "failed", "cancelled"}
    BY DEF TypeOK, Cancel, Goto, Drivers, Callers
  <2>5. verified' \in BOOLEAN /\ decision' \in BOOLEAN /\ crashes' \in 0 .. MaxCrashes /\ overran' \in BOOLEAN
    BY DEF TypeOK, Cancel, Goto, Drivers, Callers
  <2> QED
    BY <2>2, <2>3, <2>4, <2>5 DEF TypeOK
<1>2. Fresh'
  BY DEF TypeOK, Fresh, Rows, NoRow, Statuses, Terminal, Cancel, Goto, Drivers, Callers
<1>3. Early'
  BY DEF TypeOK, Fresh, Early, Agents, OneAgent, AtWork, NoRow, Cancel, Goto, Drivers,
         Callers
<1>4. Agents'
  BY DEF TypeOK, Early, Agents, OneAgent, Cancel, Goto, Drivers, Callers
<1>5. OneAgent'
  BY DEF TypeOK, Fresh, Agents, OneAgent, AtWork, NoRow, Cancel, Goto, Drivers, Callers
<1>6. Claimed'
  BY DEF TypeOK, Fresh, Claimed, AtWork, Cancel, Goto, Drivers, Callers
<1>7. CompletedWasDecided'
  BY DEF TypeOK, CompletedWasDecided, NoRow, Rows, Statuses, Terminal, Cancel, Goto,
         Drivers, Callers
<1> QED
  BY <1>1, <1>2, <1>3, <1>4, <1>5, <1>6, <1>7

\* Cancelling run and plan preserves the invariant.
LEMMA StopPlanInv ==
  ASSUME CommandInv, NEW a \in Cancellers, StopPlan(a)
  PROVE  CommandInv'
<1> USE CommandAssumption DEF CommandInv
<1>1. TypeOK'
  <2>1. a \in Callers
  BY DEF Drivers, Callers
  <2>2. row' \in Rows /\ inv' \in [Callers -> Rows]
    <3>1. row \in Rows /\ inv \in [Callers -> Rows] /\ NoRow \in Rows
      BY DEF TypeOK, Rows, NoRow
    <3>2. row' = row /\ (inv' = inv \/ inv' = [inv EXCEPT ![a] = NoRow])
      BY DEF StopPlan, Return
    <3> QED
      BY <2>1, <3>1, <3>2
  <2>3. claim' \in Recoverers \cup {None} /\ pc' \in [Callers -> {"start", "save", "create", "persist",
           "ensure", "resume", "schedule", "agent", "decide", "undone", "verify", "complete",
           "stop", "mark", "returned"}]
    BY <2>1 DEF TypeOK, StopPlan, Goto, Return, Drivers, Callers
  <2>4. /\ run' \in {None, "active", "cancelled"}
        /\ plan' \in {None, "planned", "running", "succeeded", "failed", "cancelled"}
        /\ ws' \in {None, "planned", "ready", "running", "integrated", "failed", "cancelled"}
        /\ dispatch' \in {None, "pending", "dispatched", "succeeded", "failed", "cancelled"}
    BY DEF TypeOK, StopPlan, Goto, Return, Drivers, Callers
  <2>5. verified' \in BOOLEAN /\ decision' \in BOOLEAN /\ crashes' \in 0 .. MaxCrashes /\ overran' \in BOOLEAN
    BY DEF TypeOK, StopPlan, Goto, Return, Drivers, Callers
  <2> QED
    BY <2>2, <2>3, <2>4, <2>5 DEF TypeOK
<1>2. Fresh'
  BY DEF TypeOK, Fresh, Rows, NoRow, Statuses, Terminal, StopPlan, Goto, Return, Drivers,
         Callers
<1>3. Early'
  BY DEF TypeOK, Fresh, Early, Agents, OneAgent, AtWork, NoRow, StopPlan, Goto, Return,
         Drivers, Callers
<1>4. Agents'
  BY DEF TypeOK, Early, Agents, OneAgent, StopPlan, Goto, Return, Drivers, Callers
<1>5. OneAgent'
  BY DEF TypeOK, Fresh, Agents, OneAgent, AtWork, NoRow, StopPlan, Goto, Return, Drivers,
         Callers
<1>6. Claimed'
  BY DEF TypeOK, Fresh, Claimed, AtWork, StopPlan, Goto, Return, Drivers, Callers
<1>7. CompletedWasDecided'
  BY DEF TypeOK, CompletedWasDecided, NoRow, Rows, Statuses, Terminal, StopPlan, Goto,
         Return, Drivers, Callers
<1> QED
  BY <1>1, <1>2, <1>3, <1>4, <1>5, <1>6, <1>7

\* Marking the row cancelled preserves the invariant.
LEMMA MarkCancelledInv ==
  ASSUME CommandInv, NEW a \in Cancellers, MarkCancelled(a)
  PROVE  CommandInv'
<1> USE CommandAssumption DEF CommandInv
<1>1. TypeOK'
  <2>1. a \in Callers
  BY DEF Drivers, Callers
  <2>2. row' \in Rows /\ inv' \in [Callers -> Rows]
    <3>1. /\ [status |-> "pending", bound |-> FALSE] \in Rows
          /\ [status |-> "running", bound |-> TRUE] \in Rows
          /\ {"pending", "running", "verifying", "completed", "failed", "cancelled"} \subseteq Statuses
      BY DEF Rows, Statuses, Terminal
    <3> QED
      BY <2>1, <3>1, SavedRow DEF TypeOK, MarkCancelled, Goto, Save, Return, Drivers, Callers
  <2>3. claim' \in Recoverers \cup {None} /\ pc' \in [Callers -> {"start", "save", "create", "persist",
           "ensure", "resume", "schedule", "agent", "decide", "undone", "verify", "complete",
           "stop", "mark", "returned"}]
    BY <2>1 DEF TypeOK, MarkCancelled, Goto, Save, Return, Drivers, Callers
  <2>4. /\ run' \in {None, "active", "cancelled"}
        /\ plan' \in {None, "planned", "running", "succeeded", "failed", "cancelled"}
        /\ ws' \in {None, "planned", "ready", "running", "integrated", "failed", "cancelled"}
        /\ dispatch' \in {None, "pending", "dispatched", "succeeded", "failed", "cancelled"}
    BY DEF TypeOK, MarkCancelled, Goto, Save, Return, Drivers, Callers
  <2>5. verified' \in BOOLEAN /\ decision' \in BOOLEAN /\ crashes' \in 0 .. MaxCrashes /\ overran' \in BOOLEAN
    BY DEF TypeOK, MarkCancelled, Goto, Save, Return, Drivers, Callers
  <2> QED
    BY <2>2, <2>3, <2>4, <2>5 DEF TypeOK
<1>2. Fresh'
  BY DEF TypeOK, Fresh, Rows, NoRow, Statuses, Terminal, MarkCancelled, Goto, Save, Return,
         Drivers, Callers
<1>3. Early'
  BY DEF TypeOK, Fresh, Early, Agents, OneAgent, AtWork, NoRow, MarkCancelled, Goto, Save,
         Return, Drivers, Callers
<1>4. Agents'
  BY DEF TypeOK, Early, Agents, OneAgent, MarkCancelled, Goto, Save, Return, Drivers,
         Callers
<1>5. OneAgent'
  BY DEF TypeOK, Fresh, Agents, OneAgent, AtWork, NoRow, MarkCancelled, Goto, Save, Return,
         Drivers, Callers
<1>6. Claimed'
  BY DEF TypeOK, Fresh, Claimed, AtWork, MarkCancelled, Goto, Save, Return, Drivers, Callers
<1>7. CompletedWasDecided'
  BY DEF TypeOK, CompletedWasDecided, NoRow, Rows, Statuses, Terminal, MarkCancelled, Goto,
         Save, Return, Drivers, Callers
<1> QED
  BY <1>1, <1>2, <1>3, <1>4, <1>5, <1>6, <1>7

\* The end of a claim preserves the invariant.
LEMMA ClaimExpiresInv ==
  ASSUME CommandInv, ClaimExpires
  PROVE  CommandInv'
<1> USE DEF CommandInv
<1>1. overran' \in BOOLEAN
  <2>1. overran' = (overran \/ AtWork(claim))
    BY DEF ClaimExpires
  <2>2. AtWork(claim) \in BOOLEAN /\ overran \in BOOLEAN
    BY DEF AtWork, TypeOK
  <2> QED
    BY <2>1, <2>2, Zenon
<1>2. TypeOK'
  BY <1>1 DEF TypeOK, ClaimExpires
<1>3. Fresh' /\ Early' /\ Agents' /\ OneAgent' /\ CompletedWasDecided'
  BY DEF Fresh, Early, Agents, OneAgent, CompletedWasDecided, AtWork, ClaimExpires
<1>4. Claimed'
  BY DEF TypeOK, Claimed, AtWork, ClaimExpires
<1> QED
  BY <1>2, <1>3, <1>4

\* So does the death of the runtime.
LEMMA RestartInv ==
  ASSUME CommandInv, Restart
  PROVE  CommandInv'
<1> USE CommandAssumption DEF CommandInv
<1>1. TypeOK'
  <2>1. inv' \in [Callers -> Rows]
    BY DEF Restart, NoRow, Rows
  <2>2. crashes' \in 0 .. MaxCrashes
    BY DEF TypeOK, Restart
  <2>3. pc' \in [Callers -> {"start", "returned"}]
    BY DEF Restart
  <2> QED
    BY <2>1, <2>2, <2>3 DEF TypeOK, Restart
<1>2. \A a \in Callers : pc'[a] \in {"start", "returned"}
  BY DEF Restart
<1>3. Fresh'
  BY DEF TypeOK, Fresh, Restart
<1>4. Early' /\ Agents' /\ OneAgent' /\ Claimed'
  BY <1>2 DEF Early, Agents, OneAgent, Claimed, AtWork, Drivers, Callers
<1>5. CompletedWasDecided'
  BY DEF CompletedWasDecided, Restart
<1> QED
  BY <1>1, <1>3, <1>4, <1>5

\* Every step preserves the invariant.
LEMMA NextInv == CommandInv /\ [Next]_vars => CommandInv'
<1> SUFFICES ASSUME CommandInv, [Next]_vars PROVE CommandInv'
  OBVIOUS
<1>1. ASSUME NEW a \in Drivers, Drive(a) PROVE CommandInv'
  BY <1>1, EnsureAssignmentsInv, DispatchInv, DispatchThrowsInv, NothingReadyInv, AgentReturnsInv,
     AfterScheduleInv, VerifyInv, CompleteInv DEF Drive
<1>2. ASSUME NEW a \in Executors, Execute(a) PROVE CommandInv'
  BY <1>1, <1>2, LookupInv, SavePendingInv, CreateRunInv, PersistInv DEF Execute, Drivers
<1>3. ASSUME NEW a \in Recoverers, RecoverStep(a) PROVE CommandInv'
  BY <1>1, <1>3, RecoverInv, ResumeInv DEF RecoverStep, Drivers
<1>4. ASSUME NEW a \in Cancellers, CancelStep(a) PROVE CommandInv'
  BY <1>4, CancelInv, StopPlanInv, MarkCancelledInv DEF CancelStep
<1>5. CASE UNCHANGED vars
  BY <1>5 DEF vars, CommandInv, TypeOK, Fresh, Early, Agents, OneAgent, Claimed,
     CompletedWasDecided, AtWork
<1> QED
  BY <1>2, <1>3, <1>4, <1>5, ClaimExpiresInv, RestartInv DEF Next

\* The inductive invariant of the command executor, for any number of calls and
\* restarts.
THEOREM CommandInvariant == Spec => []CommandInv
  BY InitInv, NextInv, PTL DEF Spec

\* Type correctness of invocation rows, copies, plan, claim and steps.
THEOREM CommandTypes == Spec => []TypeOK
<1>1. CommandInv => TypeOK
  BY DEF CommandInv
<1> QED
  BY <1>1, CommandInvariant, PTL

\* At most one agent works on the command's workstream, and one executeCommand
\* owns the invocation, however executions, recoveries, cancellations, expired
\* claims and restarts overlap.
THEOREM CommandOneAgent == Spec => []OneAgent
<1>1. CommandInv => OneAgent
  BY DEF CommandInv
<1> QED
  BY <1>1, CommandInvariant, PTL

\* recoverCommand is single-flight until a claim outlives its 600 seconds under
\* a recoverer at work.
THEOREM CommandSingleFlight == Spec => []SingleFlight
<1>1. CommandInv => SingleFlight
  BY DEF CommandInv, Claimed, SingleFlight
<1> QED
  BY <1>1, CommandInvariant, PTL

\* A command recorded as completed has its pass decision and a plan that
\* succeeded.
THEOREM CommandDecided == Spec => []CompletedWasDecided
<1>1. CommandInv => CompletedWasDecided
  BY DEF CommandInv
<1> QED
  BY <1>1, CommandInvariant, PTL

=============================================================================
