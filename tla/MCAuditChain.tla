---------------------------- MODULE MCAuditChain ----------------------------
(* AuditChain for TLC.  Calls and keys are interchangeable.                *)
EXTENDS AuditChain, TLC

WriterSymmetry == Permutations(Writers)
KeySymmetry == Permutations(Writers) \cup Permutations(Keys)
=============================================================================
