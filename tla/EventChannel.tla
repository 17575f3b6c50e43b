---------------------------- MODULE EventChannel ----------------------------
(***************************************************************************)
(* What the outbox promises its producers: an at-least-once channel that    *)
(* gives an event up after Limit recorded failures.  There are no workers,  *)
(* batches, leases, clocks or processes here; an event is sent once, may    *)
(* reach the subscribers any number of times, is acknowledged after it did, *)
(* and only a failed attempt reopens it or gives it up.                     *)
(***************************************************************************)
EXTENDS Naturals

CONSTANTS Events, Limit

VARIABLES
    fate,     \* "unsent", "open", "acknowledged" or "given up"
    reached,  \* times the event reached the subscribers (2 stands for more)
    failures, \* failed attempts recorded, up to Limit
    buried    \* events with a dead letter

vars == <<fate, reached, failures, buried>>

AtMost(n, cap) == IF n < cap THEN n ELSE cap

Init ==
    /\ fate = [e \in Events |-> "unsent"]
    /\ reached = [e \in Events |-> 0]
    /\ failures = [e \in Events |-> 0]
    /\ buried = {}

Send(e) ==
    /\ fate[e] = "unsent"
    /\ fate' = [fate EXCEPT ![e] = "open"]
    /\ UNCHANGED <<reached, failures, buried>>

\* Also after the event was acknowledged or given up: at least once.
Reach(e) ==
    /\ fate[e] # "unsent"
    /\ reached' = [reached EXCEPT ![e] = AtMost(@ + 1, 2)]
    /\ UNCHANGED <<fate, failures, buried>>

\* Never of an event that has been given up.
Acknowledge(e) ==
    /\ fate[e] = "open" /\ reached[e] > 0
    /\ fate' = [fate EXCEPT ![e] = "acknowledged"]
    /\ UNCHANGED <<reached, failures, buried>>

\* A failed attempt, possibly a late one, reopens the event or gives it up.
Reject(e) ==
    /\ fate[e] # "unsent"
    /\ failures' = [failures EXCEPT ![e] = AtMost(@ + 1, Limit)]
    /\ \/ fate' = [fate EXCEPT ![e] = "open"]
       \/ failures'[e] = Limit /\ fate' = [fate EXCEPT ![e] = "given up"]
    /\ UNCHANGED <<reached, buried>>

Bury(e) ==
    /\ failures[e] = Limit
    /\ buried' = buried \cup {e}
    /\ UNCHANGED <<fate, reached, failures>>

Next == \E e \in Events :
           Send(e) \/ Reach(e) \/ Acknowledge(e) \/ Reject(e) \/ Bury(e)

Spec == Init /\ [][Next]_vars
=============================================================================
