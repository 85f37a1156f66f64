------------------------------ MODULE AuditLog ------------------------------
(***************************************************************************)
(* What the audit trail of one build promises its readers: a list of       *)
(* events that only ever grows, one whole event at a time, at its end.     *)
(* Nothing is rewritten, nothing is inserted in the middle, and no two     *)
(* writers ever share a position.  AuditChain, the non-atomic LogEvent of  *)
(* internal/service/audit_service.go, is shown to implement it.            *)
(***************************************************************************)
EXTENDS Sequences

CONSTANT EventData      \* the event_data documents that can be recorded

VARIABLE log            \* the event_data of the events, oldest first

Init == log = <<>>

Record(d) == log' = Append(log, d)

Next == \E d \in EventData : Record(d)

Spec == Init /\ [][Next]_log
=============================================================================
