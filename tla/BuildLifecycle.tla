--------------------------- MODULE BuildLifecycle ---------------------------
(***************************************************************************)
(* What the life of one build promises its readers (the state diagram of   *)
(* internal/model/build.go): the status moves one stage at a time, it can  *)
(* be cancelled until it is finalized, FINALIZED, CONTRACT_DOWNLOADED and  *)
(* CANCELLED admit no workflow change except the acknowledgment of the     *)
(* download, and the stored contract never changes once it is there.       *)
(* BuildWorkflow, the requests of the server, implements it when requests  *)
(* for the build do not overlap.                                           *)
(***************************************************************************)
CONSTANTS Contracts,    \* the contract documents that can be stored
          None          \* no contract

VARIABLES status, contract

Progress == {<<"CREATED", "SIGNING_KEY_REGISTERED">>,
             <<"SIGNING_KEY_REGISTERED", "WORKLOAD_SUBMITTED">>,
             <<"WORKLOAD_SUBMITTED", "ENVIRONMENT_STAGED">>,
             <<"ENVIRONMENT_STAGED", "ATTESTATION_KEY_REGISTERED">>,
             <<"ATTESTATION_KEY_REGISTERED", "FINALIZED">>}

Init == status = "CREATED" /\ contract = None

(* The stage is complete.                                                  *)
Advance == /\ \E p \in Progress : status = p[1] /\ status' = p[2]
           /\ UNCHANGED contract

(* The contract is stored and the build is finalized, in one step.         *)
Finalize == /\ status = "ATTESTATION_KEY_REGISTERED"
            /\ status' = "FINALIZED"
            /\ contract' \in Contracts

Cancel == /\ \E p \in Progress : status = p[1]
          /\ status' = "CANCELLED"
          /\ UNCHANGED contract

(* There is something to download before its download is acknowledged.     *)
Acknowledge == /\ status = "FINALIZED"
               /\ contract # None
               /\ status' = "CONTRACT_DOWNLOADED"
               /\ UNCHANGED contract

Next == \/ Advance
        \/ Finalize
        \/ Cancel
        \/ Acknowledge

Spec == Init /\ [][Next]_<<status, contract>>
=============================================================================
