------------------------------ MODULE TopicLog ------------------------------
(***************************************************************************)
(* What appendWithLock and clearFileWithLock promise of a topic's log file *)
(* to the callers that share it: every call that takes effect does so in   *)
(* one step, once, on the whole content the earlier calls left.  The       *)
(* promise ends with Break, where nothing is known of the file any more.   *)
(***************************************************************************)
EXTENDS Sequences

CONSTANTS Tasks, Clearers

VARIABLES log, done, broken

vars == <<log, done, broken>>

Init == log = <<>> /\ done = {} /\ broken = FALSE

Call(t) ==
  /\ ~broken /\ t \notin done
  /\ log' = IF t \in Clearers THEN <<>> ELSE Append(log, t)
  /\ done' = done \cup {t}
  /\ UNCHANGED broken

Break == broken' = TRUE

Next == (\E t \in Tasks : Call(t)) \/ Break

Spec == Init /\ [][Next]_vars

=============================================================================
