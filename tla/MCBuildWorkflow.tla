-------------------------- MODULE MCBuildWorkflow --------------------------
(* BuildWorkflow for TLC: who works on the build, and who is assigned.     *)
EXTENDS BuildWorkflow, TLC

(* One user with every workflow role: nothing but the order of queries     *)
(* stands between requests.                                                *)
Everything == [u \in Users |-> Personas]
Staffed == [r \in Personas |-> CHOOSE u \in Users : TRUE]

(* A build just created by an administrator, nobody assigned.              *)
Administered == [u \in Users |-> {"ADMIN", "AUDITOR"}]
Unstaffed == [r \in Personas |-> None]

(* Several users who share the work: all may be assigned to any role.      *)
Crew == [u \in Users |-> {"ADMIN", "SOLUTION_PROVIDER"}]

SlotSymmetry == Permutations(Slots)
=============================================================================
