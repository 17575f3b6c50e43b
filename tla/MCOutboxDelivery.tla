-------------------------- MODULE MCOutboxDelivery --------------------------
(* Two processes and two rows: as composition.ts configures every process     *)
(* with the worker id "orchestration-main", both share one id.                *)
EXTENDS OutboxDelivery, TLC

CONSTANTS w1, w2, e1, e2, mainId

MCWorkers == {w1, w2}
MCEntries == {e1, e2}
MCOneEntry == {e1}
MCWorkerIds == {mainId}

\* composition.ts: workerId is the literal "orchestration-main".
MCSharedId == [w \in MCWorkers |-> mainId]

\* Rows and processes are interchangeable.
MCSymmetry == Permutations(MCWorkers) \cup Permutations(MCEntries)
=============================================================================
