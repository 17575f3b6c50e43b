------------------------------ MODULE WorkGraph ------------------------------
(***************************************************************************)
(* What executing a plan promises to whoever reads its tables: jobs begin in *)
(* the order of their dependencies, a job once begun never waits again, and   *)
(* a result others have built on is not withdrawn.  Waves, leases, worktrees, *)
(* processes, their deaths and the recovery after them are not here.          *)
(***************************************************************************)
CONSTANTS Jobs, Needs

VARIABLES
    state,   \* of a job: "waiting" (nobody has begun it), "started", "done",
             \* "deciding" (its integration is), "integrated", "failed",
             \* "blocked" or "cancelled"
    merged,  \* jobs whose branch is in the integration head
    verdict  \* of the plan: "open", "succeeded", "failed" or "cancelled"

vars == <<state, merged, verdict>>

Delivered(j) == state[j] \in {"done", "integrated"}
Lost(j)      == state[j] \in {"failed", "blocked", "cancelled"}
Over(j)      == state[j] \notin {"waiting", "started"}

\* Nobody has built on the result of j.
Unused(j) ==
    \A k \in Jobs : j \in Needs[k] => state[k] \in {"waiting", "blocked", "cancelled"}

Move(j, to) == state' = [state EXCEPT ![j] = to] /\ UNCHANGED <<merged, verdict>>

Init ==
    /\ state = [j \in Jobs |-> "waiting"]
    /\ merged = {}
    /\ verdict = "open"

Start(j) ==
    /\ state[j] = "waiting" /\ verdict = "open"
    /\ \A n \in Needs[j] : Delivered(n)
    /\ Move(j, "started")

Return(j) == state[j] = "started" /\ (Move(j, "done") \/ Move(j, "failed"))

\* From here on nobody may start on the strength of j until it is integrated.
Decide(j) ==
    /\ state[j] = "done" /\ Unused(j) /\ verdict # "succeeded"
    /\ Move(j, "deciding")

Merge(j) ==
    /\ state[j] \in {"done", "deciding", "cancelled"} /\ j \notin merged
    /\ merged' = merged \cup {j}
    /\ UNCHANGED <<state, verdict>>

\* Reported integrated: one job, or after a restart every one that was merged.
Integrate(S) ==
    /\ \A j \in S : state[j] \in {"done", "deciding"} /\ j \in merged
    /\ state' = [j \in Jobs |-> IF j \in S THEN "integrated" ELSE state[j]]
    /\ UNCHANGED <<merged, verdict>>

Withdraw(j) ==
    /\ state[j] \in {"done", "deciding"} /\ j \notin merged /\ Unused(j)
    /\ verdict # "succeeded"
    /\ Move(j, "failed")

Block(j) ==
    /\ state[j] = "waiting"
    /\ \E n \in Needs[j] : Lost(n)
    /\ Move(j, "blocked")

Cancel(j) ==
    /\ state[j] \in {"waiting", "started", "deciding", "blocked"}
    /\ Move(j, "cancelled")

\* A verdict: all delivered, or some lost, or a cancellation, with nothing at
\* work and nothing that could still start.
Conclude ==
    /\ verdict = "open"
    /\ \A j \in Jobs : Over(j)
    /\ \/ verdict' = "succeeded" /\ \A j \in Jobs : Delivered(j)
       \/ verdict' = "failed" /\ \E j \in Jobs : Lost(j)
       \/ verdict' = "cancelled"
    /\ UNCHANGED <<state, merged>>

Next ==
    \/ \E j \in Jobs : \/ Start(j) \/ Return(j) \/ Decide(j) \/ Merge(j)
                       \/ Withdraw(j) \/ Block(j) \/ Cancel(j)
    \/ \E S \in SUBSET Jobs : Integrate(S)
    \/ Conclude

Spec == Init /\ [][Next]_vars
=============================================================================
