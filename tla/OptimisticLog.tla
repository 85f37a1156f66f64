--------------------------- MODULE OptimisticLog ---------------------------
(***************************************************************************)
(* What LogEvent promises its callers: a log that is appended to by        *)
(* compare and set.  A writer reads the log, and its event is recorded     *)
(* only if nobody else's was recorded since; who records overtakes all     *)
(* others that have read.  Nobody waits, and a writer may give up.         *)
(*                                                                         *)
(* AuditChain, the three queries of LogEvent under UNIQUE (build_id,       *)
(* sequence_no), and the two steps BuildWorkflow takes for them are both   *)
(* shown to implement it, and by that AuditLog, the promise to readers.    *)
(***************************************************************************)
EXTENDS Sequences

CONSTANTS
    Writers,      \* who may record events at the same time
    EventData     \* what can be recorded

VARIABLES
    log,          \* what was recorded, oldest first
    current       \* the writers that have read the log as it is now

Init == log = <<>> /\ current = {}

Read(w) == /\ current' = current \cup {w}
           /\ UNCHANGED log

Record(w, d) == /\ w \in current
                /\ log' = Append(log, d)
                /\ current' = {}

GiveUp(w) == /\ current' = current \ {w}
             /\ UNCHANGED log

Next == \E w \in Writers : \/ Read(w)
                           \/ \E d \in EventData : Record(w, d)
                           \/ GiveUp(w)

Spec == Init /\ [][Next]_<<log, current>>
=============================================================================
