------------------------ MODULE BuildWorkflow_proofs ------------------------
(***************************************************************************)
(* Theorems about BuildWorkflow, for any number of requests and users, any *)
(* bounds, and any of the operations.                                      *)
(***************************************************************************)
EXTENDS BuildWorkflow, FiniteSetTheorems, TLAPS

-----------------------------------------------------------------------------
(* How the steps change a request.                                         *)

(* A request keeps its type when its counter moves to a label.             *)
LEMMA AtRequest ==
    ASSUME NEW r \in Request, NEW l \in Labels
    PROVE  [r EXCEPT !.at = l] \in Request
BY DEF Request

LEMMA GotoType ==
    ASSUME req \in [Slots -> Request \cup {None}], NEW s \in Slots,
           req[s] # None, NEW l \in Labels, Goto(s, l)
    PROVE  req' \in [Slots -> Request \cup {None}]
<1>1. req[s] \in Request
  OBVIOUS
<1>2. [req[s] EXCEPT !.at = l] \in Request
  BY <1>1, AtRequest
<1>3. req' = [req EXCEPT ![s] = [req[s] EXCEPT !.at = l]]
  BY DEF Goto
<1> QED
  BY <1>2, <1>3

LEMMA DoneType ==
    ASSUME req \in [Slots -> Request \cup {None}], NEW s \in Slots, Done(s)
    PROVE  req' \in [Slots -> Request \cup {None}]
BY DEF Done

LEMMA NewType ==
    ASSUME held \in [Users -> SUBSET Roles], NEW u \in Users, NEW l \in Entries,
           NEW t \in EventTypes
    PROVE  New(u, l, t) \in Request
<1>1. NoDraft \in Contracts
  BY DEF NoDraft, Contracts
<1>2. "access" \in Labels /\ "AUDITOR" \in Personas
  BY DEF Labels, Personas
<1> QED
  BY <1>1, <1>2 DEF New, Request

LEMMA AcceptType ==
    ASSUME TypeOK, NEW s \in Slots, NEW r \in Request, Accept(s, r)
    PROVE  TypeOK'
<1>1. req' \in [Slots -> Request \cup {None}]
  BY DEF TypeOK, Accept
<1> QED
  BY <1>1 DEF TypeOK, Accept, store, Reached, Signing, Attesting

(* A check that passes moves its request and touches nothing else.         *)
LEMMA CheckType ==
    ASSUME TypeOK, NEW s \in Slots, NEW h, NEW c, NEW l \in Labels,
           Check(s, h, c, l)
    PROVE  req' \in [Slots -> Request \cup {None}]
BY GotoType DEF TypeOK, Check, At

(* A request keeps its type when it notes what it read.                    *)
LEMMA SeenRequest ==
    ASSUME NEW r \in Request, NEW l \in Labels, NEW n \in Nat
    PROVE  [r EXCEPT !.at = l, !.seen = n] \in Request
BY DEF Request

LEMMA DraftRequest ==
    ASSUME NEW r \in Request, NEW l \in Labels, NEW d \in Contracts
    PROVE  [r EXCEPT !.at = l, !.draft = d] \in Request
BY DEF Request

LEMMA DraftFields ==
    ASSUME NEW d \in Contracts, NEW n \in Nat
    PROVE  /\ [d EXCEPT !.signer = n] \in Contracts
           /\ [d EXCEPT !.attester = n] \in Contracts
           /\ [d EXCEPT !.env = n] \in Contracts
BY DEF Contracts

LEMMA KeysType ==
    ASSUME TypeOK
    PROVE  /\ Signing \in Seq({"generate", "upload_public"})
           /\ Attesting \in Seq({"generate", "upload_public"})
BY DEF TypeOK, KeyStages, Signing, Attesting

LEMMA GotoWithType ==
    ASSUME TypeOK, NEW s \in Slots, req[s] # None, NEW l \in Labels,
           NEW d \in Contracts, GotoWith(s, l, d)
    PROVE  req' \in [Slots -> Request \cup {None}]
<1>1. req[s] \in Request /\ req \in [Slots -> Request \cup {None}]
  BY DEF TypeOK
<1>2. [req[s] EXCEPT !.at = l, !.draft = d] \in Request
  BY <1>1, DraftRequest
<1> QED
  BY <1>1, <1>2 DEF GotoWith

LEMMA DraftType ==
    ASSUME TypeOK, NEW s \in Slots, req[s] # None
    PROVE  req[s].draft \in Contracts
<1>1. req[s] \in Request
  BY DEF TypeOK
<1> QED
  BY <1>1 DEF Request

(* The steps that only read.                                               *)
LEMMA ReadKeeps ==
    ASSUME NEW s \in Slots, Read(s)
    PROVE  UNCHANGED store
BY DEF Read, Check, RequireBuildAccess, ReadStatus, CheckTransitionAssignment,
       ReadTrail, ReadFinalizable, CheckFinalizeAssignment, CheckContractRole,
       CheckContractAssignment, ReadSigningKey, ReadAttestationKey, ReadSections,
       ReadEnvironmentKey, CheckSectionRole, CheckSectionAssignment,
       CheckSectionStatus, CheckNoSection, CheckKeyRole, CheckKeyAssignment,
       ReadKeyStatus, ReadDownloadable, CheckNoReceipt, CheckOperator,
       ReadAssignable, CheckAssigneeRole, CheckNotAssigned, ReadUnassignable

LEMMA ReadType ==
    ASSUME TypeOK, NEW s \in Slots, Read(s)
    PROVE  req' \in [Slots -> Request \cup {None}]
<1> USE DEF Labels
<1>t. req \in [Slots -> Request \cup {None}]
  BY DEF TypeOK
<1>1. CASE RequireBuildAccess(s)
  <2>1. req[s] \in Request /\ req[s] # None
    BY <1>1, <1>t DEF RequireBuildAccess, At
  <2>2. req[s].next \in Labels
    BY <2>1 DEF Request, Entries
  <2> QED
    BY <1>1, <2>1, <2>2, <1>t, GotoType DEF RequireBuildAccess
<1>2. CASE ReadStatus(s)
  BY <1>2, <1>t, GotoType DEF ReadStatus, At
<1>3. CASE ReadTrail(s)
  <2>1. req[s] \in Request
    BY <1>3, <1>t DEF ReadTrail, At
  <2>2. Len(events) \in Nat
    BY DEF TypeOK
  <2>3. [req[s] EXCEPT !.at = "trail.append", !.seen = Len(events)] \in Request
    BY <2>1, <2>2, SeenRequest
  <2> QED
    BY <1>3, <2>3, <1>t DEF ReadTrail
<1>4. CASE ReadSigningKey(s) \/ ReadEnvironmentKey(s)
  <2>1. Len(Signing) \in Nat
    BY KeysType
  <2>2. req[s] # None
    BY <1>4 DEF ReadSigningKey, ReadEnvironmentKey, At
  <2>3. /\ [req[s].draft EXCEPT !.signer = Len(Signing)] \in Contracts
        /\ [req[s].draft EXCEPT !.env = Len(Signing)] \in Contracts
    BY <2>1, <2>2, DraftType, DraftFields
  <2> QED
    BY <1>4, <2>2, <2>3, GotoWithType DEF ReadSigningKey, ReadEnvironmentKey
<1>5. CASE ReadAttestationKey(s)
  <2>1. Len(Attesting) \in Nat
    BY KeysType
  <2>2. req[s] # None
    BY <1>5 DEF ReadAttestationKey, At
  <2>3. [req[s].draft EXCEPT !.attester = Len(Attesting)] \in Contracts
    BY <2>1, <2>2, DraftType, DraftFields
  <2> QED
    BY <1>5, <2>2, <2>3, GotoWithType DEF ReadAttestationKey
<1>6. CASE ReadSections(s)
  <2>1. sections["DATA_OWNER"].key \in Nat
    BY <1>6 DEF ReadSections, TypeOK, Personas
  <2>2. req[s] # None
    BY <1>6 DEF ReadSections, At
  <2>3. [req[s].draft EXCEPT !.env = sections["DATA_OWNER"].key] \in Contracts
    BY <2>1, <2>2, DraftType, DraftFields
  <2> QED
    BY <1>6, <2>2, <2>3, GotoWithType DEF ReadSections
<1>7. CASE ReadDownloadable(s)
  <2>1. contract \in Contracts /\ req[s] # None
    BY <1>7 DEF ReadDownloadable, TypeOK, At
  <2> QED
    BY <1>7, <2>1, GotoWithType DEF ReadDownloadable
<1>8. CASE ReadKeyStatus(s)
  BY <1>8, <1>t, GotoType, DoneType DEF ReadKeyStatus, At
<1>9. CASE \/ CheckTransitionAssignment(s) \/ ReadFinalizable(s)
           \/ CheckFinalizeAssignment(s) \/ CheckContractRole(s)
           \/ CheckContractAssignment(s)
  BY <1>9, CheckType DEF CheckTransitionAssignment, ReadFinalizable,
     CheckFinalizeAssignment, CheckContractRole, CheckContractAssignment
<1>10. CASE \/ CheckSectionRole(s) \/ CheckSectionAssignment(s)
            \/ CheckSectionStatus(s) \/ CheckNoSection(s)
            \/ CheckKeyRole(s) \/ CheckKeyAssignment(s)
  BY <1>10, CheckType DEF CheckSectionRole, CheckSectionAssignment,
     CheckSectionStatus, CheckNoSection, CheckKeyRole, CheckKeyAssignment
<1>11. CASE \/ CheckNoReceipt(s) \/ CheckOperator(s) \/ ReadAssignable(s)
            \/ CheckAssigneeRole(s) \/ CheckNotAssigned(s) \/ ReadUnassignable(s)
  BY <1>11, CheckType DEF CheckNoReceipt, CheckOperator, ReadAssignable,
     CheckAssigneeRole, CheckNotAssigned, ReadUnassignable
<1> QED
  BY <1>1, <1>2, <1>3, <1>4, <1>5, <1>6, <1>7, <1>8, <1>9, <1>10, <1>11 DEF Read

(* The requests that a route accepts.                                      *)
LEMMA BeginAccepts ==
    ASSUME TypeOK, NEW s \in Slots, NEW u \in Users, Begin(s, u)
    PROVE  \E r \in Request :
              /\ Accept(s, r)
              /\ r.at = "access"
              /\ r.target = "CONTRACT_DOWNLOADED" => r.next = "receipt.read"
<1> DEFINE N(l, t) == New(u, l, t)
<1>h. held \in [Users -> SUBSET Roles]
  BY DEF TypeOK
<1>n. \A l \in Entries, t \in EventTypes :
         /\ N(l, t) \in Request
         /\ N(l, t).at = "access"
         /\ N(l, t).next = l /\ N(l, t).target = t
  BY <1>h, NewType DEF New
<1>l. {"status.read", "attestation.read", "finalize.read", "contract.roles",
       "section.roles", "section.key", "key.roles", "receipt.read", "assign.read",
       "unassign.read"} \subseteq Entries
  BY DEF Entries
<1>e. Stages \cup {"CANCELLED", "CREATED", "ROLE_ASSIGNED"} \subseteq EventTypes
  BY DEF EventTypes
<1>s. /\ "FINALIZED" \in Stages /\ "ATTESTATION_KEY_REGISTERED" \in Stages
      /\ "ENVIRONMENT_STAGED" \in Stages /\ "WORKLOAD_SUBMITTED" \in Stages
      /\ "SIGNING_KEY_REGISTERED" \in Stages /\ "CONTRACT_DOWNLOADED" \in Stages
  BY DEF Stages, ValidTransitions
<1> DEFINE Same(q, r) == /\ q \in Request
                         /\ q.at = r.at
                         /\ q.next = r.next
                         /\ q.target = r.target
<1>r. ASSUME NEW r \in Request
      PROVE  /\ \A p \in Personas : Same([r EXCEPT !.role = p], r)
             /\ \A p \in Personas, w \in Users :
                   Same([r EXCEPT !.role = p, !.whom = w], r)
             /\ \A m \in {"generate", "upload_public"} : Same([r EXCEPT !.mode = m], r)
             /\ \A d \in Contracts : Same([r EXCEPT !.draft = d], r)
  <2>1. ASSUME NEW p \in Personas
        PROVE  Same([r EXCEPT !.role = p], r)
    BY DEF Request
  <2>2. ASSUME NEW p \in Personas, NEW w \in Users
        PROVE  Same([r EXCEPT !.role = p, !.whom = w], r)
    BY DEF Request
  <2>3. ASSUME NEW m \in {"generate", "upload_public"}
        PROVE  Same([r EXCEPT !.mode = m], r)
    BY DEF Request
  <2>4. ASSUME NEW d \in Contracts
        PROVE  Same([r EXCEPT !.draft = d], r)
    BY DEF Request
  <2> HIDE DEF Same
  <2> QED
    BY <2>1, <2>2, <2>3, <2>4
<1>k. /\ "CONTRACT_DOWNLOADED" \notin KeyStages
      /\ \A p \in Personas : Completes(p) # "CONTRACT_DOWNLOADED"
  BY DEF KeyStages, Completes
<1> HIDE DEF N
<1>1. CASE PatchStatus(s, u)
  BY <1>1, <1>n, <1>l, <1>e DEF PatchStatus, N
<1>2. CASE CancelBuild(s, u) \/ RegisterAttestation(s, u)
  BY <1>2, <1>n, <1>l, <1>e, <1>s DEF CancelBuild, RegisterAttestation, N
<1>3. CASE FinalizeUploaded(s, u)
  <2>1. PICK c \in Uploads :
           Accept(s, [New(u, "finalize.read", "FINALIZED") EXCEPT !.draft.made = c])
    BY <1>3 DEF FinalizeUploaded
  <2>2. [NoDraft EXCEPT !.made = c] \in Contracts
    BY DEF NoDraft, Contracts
  <2>3. [N("finalize.read", "FINALIZED") EXCEPT !.draft.made = c]
           = [N("finalize.read", "FINALIZED") EXCEPT
                 !.draft = [NoDraft EXCEPT !.made = c]]
    BY DEF N, New
  <2>4. N("finalize.read", "FINALIZED") \in Request
    BY <1>n, <1>l, <1>e, <1>s
  <2> QED
    <3> DEFINE r == N("finalize.read", "FINALIZED")
               q == [r EXCEPT !.draft = [NoDraft EXCEPT !.made = c]]
    <3>1. r \in Request /\ r.at = "access" /\ r.target = "FINALIZED"
      BY <1>n, <1>l, <1>e, <1>s
    <3>2. q \in Request /\ q.at = "access" /\ q.target = "FINALIZED"
      BY <3>1, <2>2, <1>r
    <3>3. Accept(s, q)
      BY <2>1, <2>3 DEF N
    <3> HIDE DEF q
    <3> QED
      BY <3>2, <3>3
<1>4. CASE FinalizeContract(s, u) \/ AcknowledgeDownload(s, u)
           \/ DeleteBuildAssignments(s, u)
  BY <1>4, <1>n, <1>l, <1>e, <1>s
     DEF FinalizeContract, AcknowledgeDownload, DeleteBuildAssignments, N
<1>5. CASE SubmitSection(s, u)
  <2>1. PICK p \in Personas :
           Accept(s, [N("section.roles", Completes(p)) EXCEPT !.role = p])
    BY <1>5 DEF SubmitSection, N
  <2>2. Completes(p) \in EventTypes
    BY <1>e, <1>s DEF Completes
  <2> DEFINE r == N("section.roles", Completes(p))
             q == [r EXCEPT !.role = p]
  <2>3. r \in Request /\ r.at = "access" /\ r.target = Completes(p)
    BY <2>2, <1>n, <1>l
  <2>4. q \in Request /\ q.at = "access" /\ q.target = Completes(p)
    BY <2>3, <1>r
  <2> QED
    BY <2>1, <2>4, <1>k
<1>6. CASE SubmitEnvironmentSection(s, u)
  <2>1. Accept(s, [N("section.key", "ENVIRONMENT_STAGED") EXCEPT !.role = "DATA_OWNER"])
    BY <1>6 DEF SubmitEnvironmentSection, N
  <2>2. "DATA_OWNER" \in Personas
    BY DEF Personas
  <2> QED
    <3> DEFINE r == N("section.key", "ENVIRONMENT_STAGED")
               q == [r EXCEPT !.role = "DATA_OWNER"]
    <3>1. r \in Request /\ r.at = "access" /\ r.target = "ENVIRONMENT_STAGED"
      BY <1>n, <1>l, <1>e, <1>s
    <3>2. q \in Request /\ q.at = "access" /\ q.target = "ENVIRONMENT_STAGED"
      BY <3>1, <2>2, <1>r
    <3> QED
      BY <2>1, <3>2
<1>7. CASE RegisterKey(s, u)
  <2>1. PICK t \in KeyStages, m \in {"generate", "upload_public"} :
           Accept(s, [N("key.roles", t) EXCEPT !.mode = m])
    BY <1>7 DEF RegisterKey, N
  <2>2. t \in EventTypes
    BY <1>e, <1>s DEF KeyStages
  <2> DEFINE r == N("key.roles", t)
             q == [r EXCEPT !.mode = m]
  <2>3. r \in Request /\ r.at = "access" /\ r.target = t
    BY <2>2, <1>n, <1>l
  <2>4. q \in Request /\ q.at = "access" /\ q.target = t
    BY <2>3, <1>r
  <2> QED
    BY <2>1, <2>4, <1>k
<1>8. CASE CreateAssignment(s, u)
  <2>1. PICK p \in Personas, w \in Users :
           Accept(s, [N("assign.read", "ROLE_ASSIGNED") EXCEPT !.role = p, !.whom = w])
    BY <1>8 DEF CreateAssignment, N
  <2> DEFINE r == N("assign.read", "ROLE_ASSIGNED")
             q == [r EXCEPT !.role = p, !.whom = w]
  <2>2. r \in Request /\ r.at = "access" /\ r.target = "ROLE_ASSIGNED"
    BY <1>n, <1>l, <1>e
  <2>3. q \in Request /\ q.at = "access" /\ q.target = "ROLE_ASSIGNED"
    BY <2>2, <1>r
  <2> QED
    BY <2>1, <2>3
<1> QED
  BY <1>1, <1>2, <1>3, <1>4, <1>5, <1>6, <1>7, <1>8 DEF Begin

LEMMA BeginType ==
    ASSUME TypeOK, NEW s \in Slots, NEW u \in Users, Begin(s, u)
    PROVE  TypeOK'
BY BeginAccepts, AcceptType

LEMMA WriteType ==
    ASSUME TypeOK, NEW s \in Slots, Write(s),
           At(s, "status.write") => req[s].target \in Stages \cup {"CANCELLED"}
    PROVE  TypeOK'
<1> USE DEF TypeOK
<1>r. req[s] \in Request
  BY DEF Write, At, WriteStatus, AppendTrail, ReadAttestation, WriteFinalized,
         InsertSection, InsertKey, WriteDownloaded, InsertAssignment,
         DeleteAssignments
<1>f. /\ req[s].user \in Users /\ req[s].target \in EventTypes
      /\ req[s].role \in Personas /\ req[s].whom \in Users
      /\ req[s].mode \in {"generate", "upload_public"}
      /\ req[s].draft \in Contracts
  BY <1>r DEF Request
<1>l. /\ "trail.read" \in Labels /\ "receipt.write" \in Labels
      /\ "status.read" \in Labels /\ "key.status" \in Labels
  BY DEF Labels
<1>1. CASE WriteStatus(s)
  <2>1. req' \in [Slots -> Request \cup {None}]
    BY <1>1, <1>l, GotoType DEF WriteStatus, At
  <2> QED
    BY <1>1, <1>f, <2>1 DEF WriteStatus
<1>2. CASE AppendTrail(s)
  <2>1. req' \in [Slots -> Request \cup {None}]
    BY <1>2, <1>l, GotoType, DoneType DEF AppendTrail, At
  <2>2. events' \in Seq([type : EventTypes, by : Users, contract : Contracts])
    BY <1>2, <1>f DEF AppendTrail, Event
  <2>3. told' \subseteq EventTypes
    BY <1>2, <1>f DEF AppendTrail
  <2> QED
    BY <1>2, <2>1, <2>2, <2>3 DEF AppendTrail
<1>3. CASE ReadAttestation(s)
  <2>1. req' \in [Slots -> Request \cup {None}]
    BY <1>3, <1>l, GotoType, DoneType DEF ReadAttestation, At
  <2>2. "ATTESTATION_KEY_REGISTERED" \in EventTypes
    BY DEF EventTypes, Stages, ValidTransitions
  <2> QED
    BY <1>3, <2>1, <2>2 DEF ReadAttestation
<1>4. CASE WriteFinalized(s)
  <2>1. req' \in [Slots -> Request \cup {None}]
    BY <1>4, <1>l, GotoType DEF WriteFinalized, At
  <2>2. "FINALIZED" \in Stages
    BY DEF Stages, ValidTransitions
  <2> QED
    BY <1>4, <1>f, <2>1, <2>2 DEF WriteFinalized
<1>5. CASE InsertSection(s)
  <2>1. req' \in [Slots -> Request \cup {None}]
    BY <1>5, <1>l, GotoType, DoneType DEF InsertSection, At
  <2>2. req[s].draft.env \in Nat
    BY <1>f DEF Contracts
  <2>3. [by |-> req[s].user, key |-> req[s].draft.env] \in [by : Users, key : Nat]
    BY <1>f, <2>2
  <2>4. sections' \in [Personas -> [by : Users, key : Nat] \cup {None}]
    BY <1>5, <2>3 DEF InsertSection
  <2>5. UNCHANGED <<status, contract, keys, assigned, held, events, advanced,
                    authority, told>>
    BY <1>5 DEF InsertSection
  <2> QED
    BY <2>1, <2>4, <2>5
<1>6. CASE InsertKey(s)
  <2>1. req' \in [Slots -> Request \cup {None}]
    BY <1>6, <1>l, GotoType DEF InsertKey, At
  <2> DEFINE M == {"generate", "upload_public"}
             t == req[s].target
  <2>k. keys \in [KeyStages -> Seq(M)]
    OBVIOUS
  <2> HIDE DEF M
  <2>m. req[s].mode \in M
    BY <1>f DEF M
  <2>a. \A q \in Seq(M), m \in M : Append(q, m) \in Seq(M)
    OBVIOUS
  <2>2. keys' \in [KeyStages -> Seq(M)]
    <3>1. keys' = [keys EXCEPT ![t] = Append(keys[t], req[s].mode)]
      BY <1>6 DEF InsertKey
    <3>2. CASE t \in KeyStages
      BY <3>1, <3>2, <2>k, <2>m, <2>a
    <3>3. CASE t \notin KeyStages
      BY <3>1, <3>3, <2>k
    <3> QED
      BY <3>2, <3>3
  <2> USE DEF M
  <2> QED
    BY <1>6, <2>1, <2>2 DEF InsertKey
<1>7. CASE WriteDownloaded(s)
  <2>1. req' \in [Slots -> Request \cup {None}]
    BY <1>7, DoneType DEF WriteDownloaded
  <2>2. "CONTRACT_DOWNLOADED" \in Stages
    BY DEF Stages, ValidTransitions
  <2> QED
    BY <1>7, <1>f, <2>1, <2>2 DEF WriteDownloaded, EventTypes
<1>8. CASE InsertAssignment(s)
  <2>1. req' \in [Slots -> Request \cup {None}]
    BY <1>8, <1>l, GotoType DEF InsertAssignment, At
  <2> QED
    BY <1>8, <1>f, <2>1 DEF InsertAssignment
<1>9. CASE DeleteAssignments(s)
  <2>1. req' \in [Slots -> Request \cup {None}]
    BY <1>9, <1>l, GotoType DEF DeleteAssignments, At
  <2> QED
    BY <1>9, <2>1 DEF DeleteAssignments
<1> QED
  BY <1>1, <1>2, <1>3, <1>4, <1>5, <1>6, <1>7, <1>8, <1>9 DEF Write

LEMMA StopType ==
    ASSUME TypeOK, NEW s \in Slots, Stop(s)
    PROVE  TypeOK'
BY DoneType DEF TypeOK, Stop, store

LEMMA RolesType ==
    ASSUME TypeOK, NEW u \in Users, RemoveRoles(u) \/ AssignRole(u)
    PROVE  TypeOK'
BY BoundsAssumption DEF TypeOK, RemoveRoles, AssignRole

-----------------------------------------------------------------------------
(* What a request in progress has established, and still knows when it     *)
(* writes: not that the status is still what it read, but that the build   *)
(* has been there.                                                         *)
Receiving == {"receipt.read", "receipt.events", "receipt.assigned", "trail.read",
              "trail.append", "receipt.write"}

Knows(r) ==
    r # None =>
        /\ r.target = "CONTRACT_DOWNLOADED" =>
              r.at \in Receiving \/ (r.at = "access" /\ r.next = "receipt.read")
        /\ r.at \in {"status.assigned", "status.write"} =>
              /\ r.target \in Stages \cup {"CANCELLED"}
              /\ \A p \in ValidTransitions : p[2] = r.target => p[1] \in Reached
        /\ r.at \in {"finalize.assigned", "finalize.write"} =>
              "ATTESTATION_KEY_REGISTERED" \in Reached
        /\ r.at \in {"receipt.events", "receipt.assigned", "receipt.write"} =>
              "FINALIZED" \in Reached
        /\ r.at \in {"trail.read", "trail.append"} /\ r.target = "CONTRACT_DOWNLOADED" =>
              "FINALIZED" \in Reached

StageInv ==
    /\ TypeOK
    /\ status \in Reached
    /\ NoStageSkipped
    /\ \A s \in Slots : Knows(req[s])

(* Moving a request changes its counter, and nobody else's request.        *)
LEMMA GotoMoves ==
    ASSUME TypeOK, NEW s \in Slots, req[s] # None, NEW l, Goto(s, l)
    PROVE  /\ req'[s].at = l
           /\ req'[s].target = req[s].target
           /\ req'[s].user = req[s].user
           /\ req'[s].role = req[s].role
           /\ \A t \in Slots \ {s} : req'[t] = req[t]
<1>1. req[s] \in Request /\ req \in [Slots -> Request \cup {None}]
  BY DEF TypeOK
<1> QED
  BY <1>1 DEF Goto, Request

LEMMA GotoWithMoves ==
    ASSUME TypeOK, NEW s \in Slots, req[s] # None, NEW l, NEW d, GotoWith(s, l, d)
    PROVE  /\ req'[s].at = l
           /\ req'[s].target = req[s].target
           /\ req'[s].user = req[s].user
           /\ req'[s].role = req[s].role
           /\ \A t \in Slots \ {s} : req'[t] = req[t]
<1>1. req[s] \in Request /\ req \in [Slots -> Request \cup {None}]
  BY DEF TypeOK
<1> QED
  BY <1>1 DEF GotoWith, Request

LEMMA DoneMoves ==
    ASSUME TypeOK, NEW s \in Slots, Done(s)
    PROVE  /\ req'[s] = None
           /\ \A t \in Slots \ {s} : req'[t] = req[t]
BY DEF TypeOK, Done

(* Where a step that only reads can take a request, and what it found when *)
(* it went there.                                                          *)
LEMMA ReadMoves ==
    ASSUME TypeOK, NEW s \in Slots, Read(s), req'[s] # None
    PROVE  /\ req[s] # None
           /\ req'[s].target = req[s].target
           /\ req'[s].at = "status.assigned" =>
                 CanTransitionTo(status, req[s].target)
           /\ req'[s].at = "status.write" =>
                 \/ req[s].at = "status.assigned"
                 \/ CanTransitionTo(status, req[s].target) /\ req[s].target = "CANCELLED"
           /\ req'[s].at = "finalize.assigned" => CanTransitionTo(status, "FINALIZED")
           /\ req'[s].at = "finalize.write" => req[s].at = "finalize.assigned"
           /\ req'[s].at = "receipt.events" => status = "FINALIZED"
           /\ req'[s].at = "receipt.assigned" => req[s].at = "receipt.events"
           /\ req'[s].at # "receipt.write"
           /\ req'[s].at = "trail.read" => req[s].at = "receipt.assigned"
           /\ req'[s].at = "trail.append" => req[s].at = "trail.read"
           /\ req[s].at \in Receiving => req'[s].at \in Receiving
           /\ req[s].at = "access" /\ req[s].next = "receipt.read"
                 => req'[s].at \in Receiving
<1> USE DEF Receiving
<1>1. CASE RequireBuildAccess(s)
  <2>1. /\ req[s] # None /\ req[s] \in Request /\ Goto(s, req[s].next)
        /\ req[s].at = "access"
    BY <1>1 DEF RequireBuildAccess, At, TypeOK
  <2>2. req[s].next \in Entries
    BY <2>1 DEF Request
  <2> QED
    BY <2>1, <2>2, GotoMoves DEF Entries
<1>2. CASE ReadStatus(s)
  BY <1>2, GotoMoves DEF ReadStatus, At
<1>3. CASE ReadTrail(s)
  BY <1>3 DEF ReadTrail, At, TypeOK, Request
<1>4. CASE ReadSigningKey(s) \/ ReadEnvironmentKey(s) \/ ReadAttestationKey(s)
           \/ ReadSections(s)
  <2>1. CASE ReadSigningKey(s) \/ ReadEnvironmentKey(s)
    BY <2>1, GotoWithMoves DEF ReadSigningKey, ReadEnvironmentKey, At
  <2>2. CASE ReadAttestationKey(s) \/ ReadSections(s)
    BY <2>2, GotoWithMoves DEF ReadAttestationKey, ReadSections, At
  <2> QED
    BY <1>4, <2>1, <2>2
<1>5. CASE ReadDownloadable(s)
  BY <1>5, GotoWithMoves DEF ReadDownloadable, At
<1>6. CASE ReadKeyStatus(s)
  BY <1>6, GotoMoves, DoneMoves DEF ReadKeyStatus, At
<1>7. CASE \/ CheckTransitionAssignment(s) \/ ReadFinalizable(s)
           \/ CheckFinalizeAssignment(s) \/ CheckContractRole(s)
           \/ CheckContractAssignment(s)
  BY <1>7, GotoMoves DEF Check, At, CheckTransitionAssignment, ReadFinalizable,
     CheckFinalizeAssignment, CheckContractRole, CheckContractAssignment
<1>8. CASE \/ CheckSectionRole(s) \/ CheckSectionAssignment(s)
           \/ CheckSectionStatus(s) \/ CheckNoSection(s)
           \/ CheckKeyRole(s) \/ CheckKeyAssignment(s)
  BY <1>8, GotoMoves DEF Check, At, CheckSectionRole, CheckSectionAssignment,
     CheckSectionStatus, CheckNoSection, CheckKeyRole, CheckKeyAssignment
<1>9. CASE \/ CheckNoReceipt(s) \/ CheckOperator(s) \/ ReadAssignable(s)
           \/ CheckAssigneeRole(s) \/ CheckNotAssigned(s) \/ ReadUnassignable(s)
  BY <1>9, GotoMoves DEF Check, At, CheckNoReceipt, CheckOperator, ReadAssignable,
     CheckAssigneeRole, CheckNotAssigned, ReadUnassignable
<1> QED
  BY <1>1, <1>2, <1>3, <1>4, <1>5, <1>6, <1>7, <1>8, <1>9 DEF Read

LEMMA ReadAlone ==
    ASSUME TypeOK, NEW s \in Slots, Read(s)
    PROVE  \A t \in Slots \ {s} : req'[t] = req[t]
<1> USE DEF Goto, GotoWith, Done, Check, TypeOK
<1>1. CASE RequireBuildAccess(s) \/ ReadStatus(s) \/ ReadTrail(s)
  BY <1>1 DEF RequireBuildAccess, ReadStatus, ReadTrail
<1>6. CASE ReadKeyStatus(s) \/ ReadDownloadable(s)
  BY <1>6 DEF ReadKeyStatus, ReadDownloadable
<1>2. CASE \/ ReadSigningKey(s) \/ ReadAttestationKey(s) \/ ReadSections(s)
           \/ ReadEnvironmentKey(s)
  BY <1>2 DEF ReadSigningKey, ReadAttestationKey, ReadSections, ReadEnvironmentKey
<1>3. CASE \/ CheckTransitionAssignment(s) \/ ReadFinalizable(s)
           \/ CheckFinalizeAssignment(s) \/ CheckContractRole(s)
           \/ CheckContractAssignment(s)
  BY <1>3 DEF CheckTransitionAssignment, ReadFinalizable,
     CheckFinalizeAssignment, CheckContractRole, CheckContractAssignment
<1>4. CASE \/ CheckSectionRole(s) \/ CheckSectionAssignment(s)
           \/ CheckSectionStatus(s) \/ CheckNoSection(s)
           \/ CheckKeyRole(s) \/ CheckKeyAssignment(s)
  BY <1>4 DEF CheckSectionRole, CheckSectionAssignment,
     CheckSectionStatus, CheckNoSection, CheckKeyRole, CheckKeyAssignment
<1>5. CASE \/ CheckNoReceipt(s) \/ CheckOperator(s) \/ ReadAssignable(s)
           \/ CheckAssigneeRole(s) \/ CheckNotAssigned(s) \/ ReadUnassignable(s)
  BY <1>5 DEF CheckNoReceipt, CheckOperator, ReadAssignable,
     CheckAssigneeRole, CheckNotAssigned, ReadUnassignable
<1> QED
  BY <1>1, <1>2, <1>3, <1>4, <1>5, <1>6 DEF Read

(* Where a step that writes leaves its request.                            *)
LEMMA WriteMoves ==
    ASSUME TypeOK, NEW s \in Slots, Write(s)
    PROVE  /\ req[s] \in Request
           /\ \A t \in Slots \ {s} : req'[t] = req[t]
           /\ req'[s] # None =>
                /\ req'[s].target = req[s].target
                /\ \/ /\ req'[s].at = "trail.read"
                      /\ req[s].at \in {"status.write", "finalize.write",
                                        "assign.insert", "unassign.delete"}
                   \/ /\ req'[s].at = "receipt.write"
                      /\ req[s].at = "trail.append"
                      /\ req[s].target = "CONTRACT_DOWNLOADED"
                   \/ /\ req'[s].at \in {"status.read", "key.status"}
                      /\ req[s].at \in {"attestation.read", "section.insert",
                                        "key.insert"}
<1>1. CASE \/ WriteStatus(s) \/ WriteFinalized(s) \/ InsertAssignment(s)
           \/ DeleteAssignments(s) \/ InsertKey(s)
  BY <1>1, GotoMoves DEF TypeOK, WriteStatus, WriteFinalized, InsertAssignment,
     DeleteAssignments, InsertKey, At
<1>2. CASE AppendTrail(s)
  BY <1>2, GotoMoves, DoneMoves DEF TypeOK, AppendTrail, At
<1>3. CASE ReadAttestation(s)
  BY <1>3, GotoMoves, DoneMoves DEF TypeOK, ReadAttestation, At
<1>4. CASE InsertSection(s)
  BY <1>4, GotoMoves, DoneMoves DEF TypeOK, InsertSection, At
<1>5. CASE WriteDownloaded(s)
  BY <1>5, DoneMoves DEF TypeOK, WriteDownloaded, At
<1> QED
  BY <1>1, <1>2, <1>3, <1>4, <1>5 DEF Write

-----------------------------------------------------------------------------
(* The beginning.                                                          *)

LEMMA OrderStages ==
    /\ Order \in Seq(Stages) /\ Len(Order) = 4
    /\ \A i \in 1 .. 4 : Order[i] \in Stages
    /\ Order[1] = "SIGNING_KEY_REGISTERED" /\ Order[2] = "WORKLOAD_SUBMITTED"
    /\ Order[3] = "ENVIRONMENT_STAGED" /\ Order[4] = "ATTESTATION_KEY_REGISTERED"
BY DEF Order, Stages, ValidTransitions

(* A build that starts at a later stage has been staffed completely.       *)
LEMMA CompleterType ==
    ASSUME InitialStage > 0, NEW t \in Stages
    PROVE  Completer(t) \in Users
<1>1. RequiredRoleForTransition(t) \in Personas
  BY DEF RequiredRoleForTransition, Personas
<1> QED
  BY <1>1, StageAssumption DEF Completer

LEMMA StaffSizeType == StaffSize \in Nat
<1>1. IsFiniteSet(Personas)
  <2>1. Personas = {"SOLUTION_PROVIDER"} \cup {"DATA_OWNER"} \cup {"AUDITOR"}
                      \cup {"ENV_OPERATOR"}
    BY DEF Personas
  <2> QED
    BY <2>1, FS_Singleton, FS_Union
<1>2. IsFiniteSet({r \in Personas : InitialAssignment[r] # None})
  BY <1>1, FS_Subset
<1> QED
  BY <1>2, FS_CardinalityType DEF StaffSize

LEMMA InitType ==
    ASSUME Init
    PROVE  TypeOK
<1> DEFINE E == [type : EventTypes, by : Users, contract : Contracts]
<1>d. NoDraft \in Contracts
  BY DEF NoDraft, Contracts
<1>f. Founder \in Users
  BY FounderAssumption DEF Founder
<1>s. InitialStage \in 0 .. 4
  BY StageAssumption
<1>t. Stages \cup {"CANCELLED", "CREATED", "ROLE_ASSIGNED"} \subseteq EventTypes
  BY DEF EventTypes
<1>1. status \in Stages \cup {"CREATED", "CANCELLED"}
  BY <1>s, OrderStages DEF Init
<1>2. contract \in Contracts \cup {None}
  BY DEF Init
<1>3. sections \in [Personas -> [by : Users, key : Nat] \cup {None}]
  <2>1. ASSUME NEW r \in Personas, NEW n \in 1 .. 4
        PROVE  InitialSection(r, n) \in [by : Users, key : Nat] \cup {None}
    BY <1>s, StageAssumption DEF InitialSection
  <2> QED
    BY <2>1 DEF Init
<1>4. keys \in [KeyStages -> Seq({"generate", "upload_public"})]
  <2>1. ASSUME NEW n
        PROVE  InitialKeys(n) \in Seq({"generate", "upload_public"})
    <3> DEFINE M == {"generate", "upload_public"}
               m == IF KeyProvider = "memory" THEN "generate" ELSE "upload_public"
    <3>1. m \in M
      OBVIOUS
    <3>2. InitialKeys(n) = <<>> \/ InitialKeys(n) = <<m>>
      BY DEF InitialKeys
    <3>3. InitialKeys(n) \in Seq(M)
      <4>1. \A x \in M : <<x>> \in Seq(M)
        OBVIOUS
      <4>2. <<>> \in Seq(M)
        OBVIOUS
      <4> HIDE DEF M, m
      <4> QED
        BY <3>1, <3>2, <4>1, <4>2
    <3> QED
      BY <3>3
  <2> QED
    BY <2>1 DEF Init
<1>5. assigned \in [Personas -> Users \cup {None}]
  BY AssignmentAssumption DEF Init
<1>6. held \in [Users -> SUBSET Roles]
  BY RolesAssumption DEF Init
<1>7. events \in Seq(E)
  <2>1. CASE events = <<>>
    BY <2>1
  <2>2. CASE events = InitialTrail
    <3> DEFINE n == 1 + StaffSize + InitialStage
               F(i) == IF i = 1 THEN Event("CREATED", Founder, NoDraft)
                       ELSE IF i <= 1 + StaffSize
                            THEN Event("ROLE_ASSIGNED", Founder, NoDraft)
                            ELSE LET t == Order[i - 1 - StaffSize]
                                 IN  Event(t, Completer(t), NoDraft)
    <3>1. n \in Nat
      BY StaffSizeType, <1>s
    <3>2. ASSUME NEW i \in 1 .. n
          PROVE  F(i) \in E
      <4>1. CASE i <= 1 + StaffSize
        BY <4>1, <1>d, <1>f, <1>t DEF Event
      <4>2. CASE ~(i <= 1 + StaffSize)
        <5> DEFINE t == Order[i - 1 - StaffSize]
        <5>1. i - 1 - StaffSize \in 1 .. 4 /\ InitialStage > 0 /\ i # 1
          BY <4>2, <3>2, StaffSizeType, <1>s
        <5>2. t \in Stages
          BY <5>1, OrderStages
        <5>3. Completer(t) \in Users
          BY <5>1, <5>2, CompleterType
        <5>4. F(i) = Event(t, Completer(t), NoDraft)
          BY <4>2, <5>1
        <5> HIDE DEF t
        <5> QED
          BY <5>2, <5>3, <5>4, <1>d, <1>t DEF Event
      <4> QED
        BY <4>1, <4>2
    <3>3. InitialTrail = [i \in 1 .. n |-> F(i)]
      BY DEF InitialTrail
    <3> HIDE DEF n, F, E
    <3> QED
      BY <2>2, <3>1, <3>2, <3>3
  <2> QED
    BY <2>1, <2>2 DEF Init
<1>8. req \in [Slots -> Request \cup {None}]
  <2>1. ASSUME NEW u \in Users
        PROVE  Creation(u) \in Request
    <3>1. New(u, "status.read", "CREATED") \in Request
      BY <1>6, <1>t, NewType DEF Entries
    <3>2. "trail.read" \in Labels
      BY DEF Labels
    <3> QED
      BY <3>1, <3>2, AtRequest DEF Creation
  <2> QED
    BY <2>1 DEF Init
<1>9. advanced \subseteq [stage : Stages \cup {"CREATED", "CANCELLED"}, by : Users]
  <2>1. ASSUME NEW i \in 1 .. InitialStage
        PROVE  [stage |-> Order[i], by |-> Completer(Order[i])]
                  \in [stage : Stages \cup {"CREATED", "CANCELLED"}, by : Users]
    <3>1. InitialStage > 0 /\ Order[i] \in Stages
      BY <1>s, OrderStages
    <3> QED
      BY <3>1, CompleterType
  <2> QED
    BY <2>1 DEF Init
<1>10. authority \subseteq [role : Personas, user : Users] /\ told \subseteq EventTypes
  BY DEF Init
<1> HIDE DEF E
<1> QED
  BY <1>1, <1>2, <1>3, <1>4, <1>5, <1>6, <1>7, <1>8, <1>9, <1>10 DEF TypeOK, E

LEMMA StageInit ==
    ASSUME Init
    PROVE  StageInv
<1>s. InitialStage \in 0 .. 4
  BY StageAssumption
<1>r. Reached = {"CREATED"} \cup {Order[i] : i \in 1 .. InitialStage}
  <2>1. ASSUME NEW x
        PROVE  x \in {a.stage : a \in advanced}
                  <=> x \in {Order[i] : i \in 1 .. InitialStage}
    <3>1. ASSUME NEW i \in 1 .. InitialStage
          PROVE  Order[i] \in {a.stage : a \in advanced}
      <4> DEFINE a == [stage |-> Order[i], by |-> Completer(Order[i])]
      <4>1. a \in advanced /\ a.stage = Order[i]
        BY DEF Init
      <4> HIDE DEF a
      <4> QED
        BY <4>1
    <3> QED
      BY <3>1 DEF Init
  <2> QED
    BY <2>1 DEF Reached
<1>1. status \in Reached
  <2>1. status = IF InitialStage = 0 THEN "CREATED" ELSE Order[InitialStage]
    BY DEF Init
  <2> QED
    BY <2>1, <1>r, <1>s
<1>2. NoStageSkipped
  <2>1. CASE InitialStage = 0
    BY <2>1, <1>r DEF NoStageSkipped, ValidTransitions
  <2>2. CASE InitialStage = 1
    <3>1. Reached = {"CREATED", Order[1]}
      BY <2>2, <1>r
    <3> QED
      BY <3>1, OrderStages DEF NoStageSkipped, ValidTransitions
  <2>3. CASE InitialStage = 2
    <3>1. Reached = {"CREATED", Order[1], Order[2]}
      BY <2>3, <1>r
    <3> QED
      BY <3>1, OrderStages DEF NoStageSkipped, ValidTransitions
  <2>4. CASE InitialStage = 3
    <3>1. Reached = {"CREATED", Order[1], Order[2], Order[3]}
      BY <2>4, <1>r
    <3> QED
      BY <3>1, OrderStages DEF NoStageSkipped, ValidTransitions
  <2>5. CASE InitialStage = 4
    <3>1. Reached = {"CREATED", Order[1], Order[2], Order[3], Order[4]}
      BY <2>5, <1>r
    <3> QED
      BY <3>1, OrderStages DEF NoStageSkipped, ValidTransitions
  <2> QED
    BY <1>s, <2>1, <2>2, <2>3, <2>4, <2>5
<1>3. ASSUME NEW s \in Slots
      PROVE  Knows(req[s])
  <2>1. ASSUME NEW u
        PROVE  Knows(Creation(u))
    BY DEF Knows, Creation, New
  <2>2. Knows(None)
    BY DEF Knows
  <2>3. req[s] = None \/ \E u \in Users : req[s] = Creation(u)
    BY DEF Init
  <2> QED
    BY <2>1, <2>2, <2>3
<1> QED
  BY <1>1, <1>2, <1>3, InitType DEF StageInv

-----------------------------------------------------------------------------
(* The steps.                                                              *)

(* History is never lost.                                                  *)
LEMMA ReachedGrows ==
    ASSUME TypeOK, [Next]_vars
    PROVE  Reached \subseteq Reached'
<1>1. advanced \subseteq advanced'
  <2>1. ASSUME NEW s \in Slots, NEW u \in Users, Begin(s, u)
        PROVE  UNCHANGED advanced
    BY <2>1, BeginAccepts DEF Accept, store
  <2>2. ASSUME NEW s \in Slots, Read(s) \/ Stop(s)
        PROVE  UNCHANGED advanced
    BY <2>2, ReadKeeps DEF Stop, store
  <2>3. ASSUME NEW s \in Slots, Write(s)
        PROVE  advanced \subseteq advanced'
    BY <2>3 DEF Write, WriteStatus, AppendTrail, ReadAttestation, WriteFinalized,
       InsertSection, InsertKey, WriteDownloaded, InsertAssignment, DeleteAssignments
  <2>4. ASSUME NEW u \in Users, RemoveRoles(u) \/ AssignRole(u)
        PROVE  UNCHANGED advanced
    BY <2>4 DEF RemoveRoles, AssignRole
  <2>5. CASE UNCHANGED vars
    BY <2>5 DEF vars, store
  <2> QED
    BY <2>1, <2>2, <2>3, <2>4, <2>5 DEF Next
<1> QED
  BY <1>1 DEF Reached

LEMMA ReachedAdds ==
    ASSUME NEW t, NEW u, advanced' = advanced \cup {[stage |-> t, by |-> u]}
    PROVE  Reached' = Reached \cup {t}
<1> DEFINE a == [stage |-> t, by |-> u]
<1>1. a.stage = t
  OBVIOUS
<1> HIDE DEF a
<1>2. {b.stage : b \in advanced \cup {a}} = {b.stage : b \in advanced} \cup {t}
  BY <1>1
<1> QED
  BY <1>2 DEF Reached, a

(* So what a request knows stays true while others move.                   *)
LEMMA OthersKnow ==
    ASSUME StageInv, Reached \subseteq Reached', NEW t \in Slots, req'[t] = req[t]
    PROVE  Knows(req[t])'
BY DEF StageInv, Knows

(* A status that allows a transition is a stage the build has been at.     *)
LEMMA TransitionSeen ==
    ASSUME status \in Reached, NEW t, CanTransitionTo(status, t)
    PROVE  /\ t \in Stages \cup {"CANCELLED"}
           /\ \A p \in ValidTransitions : p[2] = t => p[1] \in Reached
BY DEF CanTransitionTo, ValidTransitions, Stages

LEMMA ReadStage ==
    ASSUME StageInv, NEW s \in Slots, Read(s)
    PROVE  StageInv'
<1>u. UNCHANGED store
  BY ReadKeeps
<1>r. UNCHANGED <<Reached, status, advanced>>
  BY <1>u DEF Reached, store
<1>1. TypeOK'
  BY ReadType, <1>u DEF StageInv, TypeOK, store
<1>2. ASSUME NEW t \in Slots
      PROVE  Knows(req[t])'
  <2>1. CASE t # s
    BY <2>1, ReadAlone, OthersKnow, <1>r DEF StageInv
  <2>2. CASE t = s /\ req'[s] = None
    BY <2>2 DEF Knows
  <2>3. CASE t = s /\ req'[s] # None
    <3>1. Knows(req[s]) /\ req[s] # None
      BY <2>3, ReadMoves DEF StageInv
    <3>2. req'[s].at \in {"status.assigned", "status.write"} =>
             /\ req'[s].target \in Stages \cup {"CANCELLED"}
             /\ \A p \in ValidTransitions : p[2] = req'[s].target => p[1] \in Reached
      BY <2>3, <3>1, ReadMoves, TransitionSeen DEF StageInv, Knows
    <3>3. req'[s].at \in {"finalize.assigned", "finalize.write"} =>
             "ATTESTATION_KEY_REGISTERED" \in Reached
      BY <2>3, <3>1, ReadMoves DEF StageInv, Knows, CanTransitionTo, ValidTransitions
    <3>4. req'[s].at \in {"receipt.events", "receipt.assigned", "receipt.write"} =>
             "FINALIZED" \in Reached
      BY <2>3, <3>1, ReadMoves DEF StageInv, Knows
    <3>6. req'[s].target = "CONTRACT_DOWNLOADED" => req'[s].at \in Receiving
      BY <2>3, <3>1, ReadMoves DEF StageInv, Knows
    <3>5. req'[s].at \in {"trail.read", "trail.append"}
             => (req'[s].target = "CONTRACT_DOWNLOADED" => "FINALIZED" \in Reached)
      BY <2>3, <3>1, ReadMoves DEF StageInv, Knows
    <3> QED
      BY <2>2, <2>3, <3>2, <3>3, <3>4, <3>5, <3>6, <1>r DEF Knows
  <2> QED
    BY <2>1, <2>2, <2>3
<1> QED
  BY <1>1, <1>2, <1>r DEF StageInv, NoStageSkipped

LEMMA WriteStage ==
    ASSUME StageInv, NEW s \in Slots, Write(s), Reached \subseteq Reached'
    PROVE  StageInv'
<1>r. req[s] \in Request /\ req[s] # None /\ Knows(req[s])
  BY WriteMoves DEF StageInv, Write, At, WriteStatus, AppendTrail, ReadAttestation,
     WriteFinalized, InsertSection, InsertKey, WriteDownloaded, InsertAssignment,
     DeleteAssignments
<1>1. TypeOK'
  BY <1>r, WriteType DEF StageInv, At, Knows
<1>2. status' \in Reached' /\ NoStageSkipped'
  <2>1. CASE WriteStatus(s)
    <3>1. /\ status' = req[s].target
          /\ Reached' = Reached \cup {req[s].target}
          /\ req[s].at = "status.write"
      BY <2>1, ReachedAdds DEF WriteStatus, At
    <3> QED
      BY <3>1, <1>r DEF StageInv, NoStageSkipped, Knows
  <2>2. CASE WriteFinalized(s)
    <3>1. /\ status' = "FINALIZED"
          /\ Reached' = Reached \cup {"FINALIZED"}
          /\ req[s].at = "finalize.write"
      BY <2>2, ReachedAdds DEF WriteFinalized, At
    <3> QED
      BY <3>1, <1>r DEF StageInv, NoStageSkipped, Knows, ValidTransitions
  <2>3. CASE WriteDownloaded(s)
    <3>1. /\ status' = "CONTRACT_DOWNLOADED"
          /\ Reached' = Reached \cup {"CONTRACT_DOWNLOADED"}
          /\ req[s].at = "receipt.write"
      BY <2>3, ReachedAdds DEF WriteDownloaded, At
    <3> QED
      BY <3>1, <1>r DEF StageInv, NoStageSkipped, Knows, ValidTransitions
  <2>4. CASE \/ AppendTrail(s) \/ ReadAttestation(s) \/ InsertSection(s)
             \/ InsertKey(s) \/ InsertAssignment(s) \/ DeleteAssignments(s)
    <3>1. UNCHANGED <<status, advanced>>
      BY <2>4 DEF AppendTrail, ReadAttestation, InsertSection, InsertKey,
         InsertAssignment, DeleteAssignments
    <3> QED
      BY <3>1 DEF StageInv, NoStageSkipped, Reached
  <2> QED
    BY <2>1, <2>2, <2>3, <2>4 DEF Write
<1>3. ASSUME NEW t \in Slots
      PROVE  Knows(req[t])'
  <2>1. CASE t # s
    BY <2>1, WriteMoves, OthersKnow DEF StageInv
  <2>2. CASE t = s /\ req'[s] = None
    BY <2>2 DEF Knows
  <2>3. CASE t = s /\ req'[s] # None
    <3>1. /\ req'[s].target = req[s].target
          /\ \/ /\ req'[s].at = "trail.read"
                /\ req[s].at \in {"status.write", "finalize.write",
                                  "assign.insert", "unassign.delete"}
             \/ /\ req'[s].at = "receipt.write"
                /\ req[s].at = "trail.append"
                /\ req[s].target = "CONTRACT_DOWNLOADED"
             \/ /\ req'[s].at \in {"status.read", "key.status"}
                /\ req[s].at \in {"attestation.read", "section.insert", "key.insert"}
      BY <2>3, WriteMoves DEF StageInv
    <3> QED
      BY <2>3, <3>1, <1>r DEF Knows, Receiving
  <2> QED
    BY <2>1, <2>2, <2>3
<1> QED
  BY <1>1, <1>2, <1>3 DEF StageInv

LEMMA BeginStage ==
    ASSUME StageInv, NEW s \in Slots, NEW u \in Users, Begin(s, u)
    PROVE  StageInv'
<1>1. PICK r \in Request : /\ Accept(s, r)
                           /\ r.at = "access"
                           /\ r.target = "CONTRACT_DOWNLOADED" => r.next = "receipt.read"
  BY BeginAccepts DEF StageInv
<1>2. TypeOK'
  BY BeginType DEF StageInv
<1>3. UNCHANGED <<Reached, status>>
  BY <1>1 DEF Accept, store, Reached
<1>4. req'[s] = r /\ \A t \in Slots \ {s} : req'[t] = req[t]
  BY <1>1 DEF Accept, StageInv, TypeOK
<1>5. ASSUME NEW t \in Slots
      PROVE  Knows(req[t])'
  BY <1>1, <1>3, <1>4, OthersKnow DEF Knows
<1> QED
  BY <1>2, <1>3, <1>5 DEF StageInv, NoStageSkipped

LEMMA StageStep ==
    ASSUME StageInv, [Next]_vars
    PROVE  StageInv'
<1>g. Reached \subseteq Reached'
  BY ReachedGrows DEF StageInv
<1>1. ASSUME NEW s \in Slots, NEW u \in Users, Begin(s, u)
      PROVE  StageInv'
  BY <1>1, BeginStage
<1>2. ASSUME NEW s \in Slots, Write(s)
      PROVE  StageInv'
  BY <1>2, <1>g, WriteStage
<1>3. ASSUME NEW s \in Slots, Read(s)
      PROVE  StageInv'
  BY <1>3, ReadStage
<1>4. ASSUME NEW s \in Slots, Stop(s)
      PROVE  StageInv'
  <2>1. TypeOK' /\ UNCHANGED store
    BY <1>4, StopType DEF StageInv, Stop
  <2>2. req'[s] = None /\ \A t \in Slots \ {s} : req'[t] = req[t]
    BY <1>4, DoneMoves DEF StageInv, Stop
  <2>3. ASSUME NEW t \in Slots
        PROVE  Knows(req[t])'
    BY <2>2, <1>g, OthersKnow DEF Knows
  <2> QED
    BY <2>1, <2>3 DEF StageInv, NoStageSkipped, Reached, store
<1>5. ASSUME NEW u \in Users, RemoveRoles(u) \/ AssignRole(u)
      PROVE  StageInv'
  <2>1. TypeOK' /\ UNCHANGED <<req, status, advanced>>
    BY <1>5, RolesType DEF StageInv, RemoveRoles, AssignRole
  <2> QED
    BY <2>1 DEF StageInv, NoStageSkipped, Reached, Knows
<1>6. CASE UNCHANGED vars
  BY <1>6 DEF vars, store, StageInv, TypeOK, NoStageSkipped, Reached, Knows
<1> QED
  BY <1>1, <1>2, <1>3, <1>4, <1>5, <1>6 DEF Next

-----------------------------------------------------------------------------
(* The inductive invariant: the stages a build has been at are closed      *)
(* under "before", and each request that is about to set a stage knows the *)
(* one before it has been reached, whatever the status has become since.   *)
THEOREM StageInvariant == Spec => []StageInv
<1>1. Init => StageInv
  BY StageInit
<1>2. StageInv /\ [Next]_vars => StageInv'
  BY StageStep
<1> QED
  BY <1>1, <1>2, PTL DEF Spec

(* The rows of the database and the requests in progress keep their types, *)
(* in particular no request ever sets a status the schema does not know.   *)
THEOREM TypeCorrect == Spec => []TypeOK
<1>1. StageInv => TypeOK
  BY DEF StageInv
<1> QED
  BY <1>1, StageInvariant, PTL

(* For any number of overlapping requests, dying at any point, a build is  *)
(* at a stage only after it has been at every stage before it.             *)
THEOREM NoStageSkippedAlways == Spec => []NoStageSkipped
<1>1. StageInv => NoStageSkipped
  BY DEF StageInv
<1> QED
  BY <1>1, StageInvariant, PTL

-----------------------------------------------------------------------------
(* Receipts.                                                               *)

ReceiptInv ==
    /\ DownloadedHasReceipt
    /\ \A s \in Slots : At(s, "receipt.write") => Receipts # {}

EventRows == [type : EventTypes, by : Users, contract : Contracts]

(* Only the recording of an event changes the trail, and it adds one.      *)
LEMMA EventsAppend ==
    ASSUME TypeOK, [Next]_vars
    PROVE  UNCHANGED events \/ \E e : events' = Append(events, e)
<1>1. ASSUME NEW s \in Slots, NEW u \in Users, Begin(s, u)
      PROVE  UNCHANGED events
  BY <1>1, BeginAccepts DEF Accept, store
<1>2. ASSUME NEW s \in Slots, Read(s) \/ Stop(s)
      PROVE  UNCHANGED events
  BY <1>2, ReadKeeps DEF Stop, store
<1>3. ASSUME NEW s \in Slots, Write(s)
      PROVE  UNCHANGED events \/ \E e : events' = Append(events, e)
  BY <1>3 DEF Write, WriteStatus, AppendTrail, ReadAttestation, WriteFinalized,
     InsertSection, InsertKey, WriteDownloaded, InsertAssignment, DeleteAssignments
<1>4. ASSUME NEW u \in Users, RemoveRoles(u) \/ AssignRole(u)
      PROVE  UNCHANGED events
  BY <1>4 DEF RemoveRoles, AssignRole
<1>5. CASE UNCHANGED vars
  BY <1>5 DEF vars, store
<1> QED
  BY <1>1, <1>2, <1>3, <1>4, <1>5 DEF Next

(* The trail only grows, so a receipt stays.                               *)
LEMMA ReceiptStays ==
    ASSUME TypeOK, [Next]_vars, Receipts # {}
    PROVE  (Receipts # {})'
<1>1. events \in Seq(EventRows)
  BY DEF TypeOK, EventRows
<1>2. \A i \in DOMAIN events : i \in DOMAIN events' /\ events'[i] = events[i]
  BY <1>1, EventsAppend
<1> QED
  BY <1>2 DEF Receipts

LEMMA ReceiptInit ==
    ASSUME Init
    PROVE  ReceiptInv
<1>1. ASSUME NEW a \in advanced
      PROVE  a.stage # "CONTRACT_DOWNLOADED"
  BY OrderStages, StageAssumption DEF Init
<1>2. ASSUME NEW s \in Slots
      PROVE  ~At(s, "receipt.write")
  <2>1. ASSUME NEW u \in Users
        PROVE  Creation(u).at = "trail.read"
    BY DEF Creation, New
  <2>2. req[s] = None \/ \E u \in Users : req[s] = Creation(u)
    BY DEF Init
  <2> QED
    BY <2>1, <2>2 DEF At
<1> QED
  BY <1>1, <1>2 DEF ReceiptInv, DownloadedHasReceipt, Reached

(* Only the acknowledgment itself sets the last stage: whatever else sets  *)
(* one has another target.                                                 *)
LEMMA OnlyReceiptsDownload ==
    ASSUME StageInv, [Next]_vars, "CONTRACT_DOWNLOADED" \in Reached',
           "CONTRACT_DOWNLOADED" \notin Reached
    PROVE  \E s \in Slots : At(s, "receipt.write")
<1>1. PICK s \in Slots : WriteStatus(s) \/ WriteFinalized(s) \/ WriteDownloaded(s)
  <2>1. ASSUME UNCHANGED advanced
        PROVE  FALSE
    BY <2>1 DEF Reached
  <2>2. ASSUME NEW s \in Slots, NEW u \in Users, Begin(s, u)
        PROVE  FALSE
    BY <2>1, <2>2, BeginAccepts DEF Accept, store, StageInv
  <2>3. ASSUME NEW s \in Slots, Read(s) \/ Stop(s)
        PROVE  FALSE
    BY <2>1, <2>3, ReadKeeps DEF Stop, store
  <2>4. ASSUME NEW u \in Users, RemoveRoles(u) \/ AssignRole(u)
        PROVE  FALSE
    BY <2>1, <2>4 DEF RemoveRoles, AssignRole
  <2>5. ~ UNCHANGED vars
    BY <2>1 DEF vars, store
  <2>6. ASSUME NEW s \in Slots,
               \/ AppendTrail(s) \/ ReadAttestation(s) \/ InsertSection(s)
               \/ InsertKey(s) \/ InsertAssignment(s) \/ DeleteAssignments(s)
        PROVE  FALSE
    BY <2>1, <2>6 DEF AppendTrail, ReadAttestation, InsertSection, InsertKey,
       InsertAssignment, DeleteAssignments
  <2> QED
    BY <2>2, <2>3, <2>4, <2>5, <2>6 DEF Next, Write
<1>2. CASE WriteStatus(s)
  <2>1. Reached' = Reached \cup {req[s].target} /\ req[s].at = "status.write"
    BY <1>2, ReachedAdds DEF WriteStatus, At
  <2>2. Knows(req[s]) /\ req[s] # None
    BY <1>2 DEF StageInv, WriteStatus, At
  <2> QED
    BY <2>1, <2>2 DEF Knows, Receiving
<1>3. CASE WriteFinalized(s)
  <2>1. advanced' = advanced \cup {[stage |-> "FINALIZED", by |-> req[s].user]}
    BY <1>3 DEF WriteFinalized
  <2>2. Reached' = Reached \cup {"FINALIZED"}
    BY <2>1, ReachedAdds
  <2> QED
    BY <2>2
<1>4. CASE WriteDownloaded(s)
  BY <1>4 DEF WriteDownloaded
<1> QED
  BY <1>1, <1>2, <1>3, <1>4

LEMMA ReceiptStep ==
    ASSUME StageInv, ReceiptInv, [Next]_vars
    PROVE  ReceiptInv'
<1>t. TypeOK
  BY DEF StageInv
<1>1. DownloadedHasReceipt'
  BY <1>t, ReceiptStays, OnlyReceiptsDownload DEF ReceiptInv, DownloadedHasReceipt
<1>2. ASSUME NEW s \in Slots, At(s, "receipt.write")'
      PROVE  (Receipts # {})'
  <2>k. CASE req'[s] = req[s]
    BY <1>2, <2>k, <1>t, ReceiptStays DEF ReceiptInv, At
  <2>1. ASSUME NEW t \in Slots, NEW u \in Users, Begin(t, u)
        PROVE  (Receipts # {})'
    <3>1. PICK r \in Request : Accept(t, r) /\ r.at = "access"
      BY <1>t, <2>1, BeginAccepts
    <3>2. CASE s = t
      BY <3>1, <3>2, <1>2, <1>t DEF Accept, At, TypeOK
    <3>3. CASE s # t
      BY <3>1, <3>3, <2>k, <1>t DEF Accept, TypeOK
    <3> QED
      BY <3>2, <3>3
  <2>2. ASSUME NEW t \in Slots, Read(t)
        PROVE  (Receipts # {})'
    BY <2>2, <2>k, <1>2, <1>t, ReadAlone, ReadMoves DEF At
  <2>3. ASSUME NEW t \in Slots, Stop(t)
        PROVE  (Receipts # {})'
    BY <2>3, <2>k, <1>2, <1>t, DoneMoves DEF At, Stop
  <2>4. ASSUME NEW t \in Slots, Write(t)
        PROVE  (Receipts # {})'
    <3>1. CASE s # t
      BY <3>1, <2>4, <2>k, <1>t, WriteMoves
    <3>2. CASE s = t
      <4>1. req[s].at = "trail.append" /\ req[s].target = "CONTRACT_DOWNLOADED"
        BY <3>2, <2>4, <1>2, <1>t, WriteMoves DEF At
      <4>2. AppendTrail(s)
        BY <3>2, <2>4, <4>1 DEF Write, At, WriteStatus, ReadAttestation,
           WriteFinalized, InsertSection, InsertKey, WriteDownloaded,
           InsertAssignment, DeleteAssignments
      <4>3. events' = Append(events, Event("CONTRACT_DOWNLOADED", req[s].user,
                                           req[s].draft))
        BY <4>1, <4>2 DEF AppendTrail
      <4>4. events \in Seq([type : EventTypes, by : Users, contract : Contracts])
        BY <1>t DEF TypeOK
      <4> DEFINE e == Event("CONTRACT_DOWNLOADED", req[s].user, req[s].draft)
      <4>5. e.type = "CONTRACT_DOWNLOADED"
        BY DEF Event
      <4> HIDE DEF e
      <4>6. Len(events) + 1 \in DOMAIN events' /\ events'[Len(events) + 1] = e
        BY <4>3, <4>4 DEF e
      <4> QED
        BY <4>5, <4>6 DEF Receipts
    <3> QED
      BY <3>1, <3>2
  <2>5. ASSUME NEW u \in Users, RemoveRoles(u) \/ AssignRole(u)
        PROVE  (Receipts # {})'
    BY <2>5, <2>k DEF RemoveRoles, AssignRole
  <2>6. CASE UNCHANGED vars
    BY <2>6, <2>k DEF vars
  <2> QED
    BY <2>1, <2>2, <2>3, <2>4, <2>5, <2>6 DEF Next
<1> QED
  BY <1>1, <1>2 DEF ReceiptInv

(* A build that is marked as downloaded has a receipt in its trail: the    *)
(* acknowledgment logs first and marks later, and nothing else marks.      *)
THEOREM DownloadedHasReceiptAlways == Spec => []DownloadedHasReceipt
<1>1. Init => ReceiptInv
  BY ReceiptInit
<1>2. StageInv /\ ReceiptInv /\ [Next]_vars => ReceiptInv'
  BY ReceiptStep
<1>3. ReceiptInv => DownloadedHasReceipt
  BY DEF ReceiptInv
<1> QED
  BY <1>1, <1>2, <1>3, StageInvariant, PTL DEF Spec

-----------------------------------------------------------------------------
(* The trail is the log AuditChain implements.                             *)

TrailLog == INSTANCE AuditLog WITH EventData <- EventRows, log <- events

(* To the requests it is the log by compare and set that AuditChain        *)
(* implements.  Those that have read the trail as it is now:               *)
TrailCurrent == {s \in Slots : At(s, "trail.append") /\ req[s].seen = Len(events)}
TrailRace == INSTANCE OptimisticLog WITH Writers <- Slots, EventData <- EventRows,
                                         log <- events, current <- TrailCurrent

(* Nobody has read more than there is.                                     *)
SeenInv == \A s \in Slots : At(s, "trail.append") => req[s].seen <= Len(events)

LEMMA ReadTrailMoves ==
    ASSUME TypeOK, NEW s \in Slots, ReadTrail(s)
    PROVE  /\ req'[s] # None /\ req'[s].at = "trail.append"
           /\ req'[s].seen = Len(events)
           /\ \A t \in Slots \ {s} : req'[t] = req[t]
<1> DEFINE r == req[s]
           q == [r EXCEPT !.at = "trail.append", !.seen = Len(events)]
<1>1. r \in Request /\ req \in [Slots -> Request \cup {None}]
  BY DEF TypeOK, ReadTrail, At
<1>2. Len(events) \in Nat
  BY DEF TypeOK
<1>3. req' = [req EXCEPT ![s] = q]
  BY DEF ReadTrail
<1> HIDE DEF r
<1>4. q.at = "trail.append" /\ q.seen = Len(events)
  BY <1>1 DEF Request
<1>5. q \in Request
  BY <1>1, <1>2, SeenRequest DEF Labels
<1> HIDE DEF q
<1>6. q # None
  BY <1>5, RequestAssumption
<1> QED
  BY <1>1, <1>3, <1>4, <1>6

(* No other read takes a request to or from its place in LogEvent.         *)
LEMMA OnlyReadTrailPlaces ==
    ASSUME TypeOK, NEW s \in Slots, Read(s), ~ReadTrail(s)
    PROVE  ~At(s, "trail.append") /\ ~At(s, "trail.append")'
<1>1. req[s] # None /\ req[s].at \notin {"trail.read", "trail.append"}
  <2>1. CASE \/ RequireBuildAccess(s) \/ ReadStatus(s) \/ CheckTransitionAssignment(s)
             \/ ReadFinalizable(s) \/ CheckFinalizeAssignment(s)
             \/ CheckContractRole(s) \/ CheckContractAssignment(s)
             \/ ReadSigningKey(s) \/ ReadAttestationKey(s) \/ ReadSections(s)
    BY <2>1 DEF Check, At, RequireBuildAccess, ReadStatus, CheckTransitionAssignment,
       ReadFinalizable, CheckFinalizeAssignment, CheckContractRole,
       CheckContractAssignment, ReadSigningKey, ReadAttestationKey, ReadSections
  <2>2. CASE \/ ReadEnvironmentKey(s) \/ CheckSectionRole(s)
             \/ CheckSectionAssignment(s) \/ CheckSectionStatus(s)
             \/ CheckNoSection(s) \/ CheckKeyRole(s) \/ CheckKeyAssignment(s)
             \/ ReadKeyStatus(s) \/ ReadDownloadable(s)
    BY <2>2 DEF Check, At, ReadEnvironmentKey, CheckSectionRole,
       CheckSectionAssignment, CheckSectionStatus, CheckNoSection, CheckKeyRole,
       CheckKeyAssignment, ReadKeyStatus, ReadDownloadable
  <2>3. CASE \/ CheckNoReceipt(s) \/ CheckOperator(s) \/ ReadAssignable(s)
             \/ CheckAssigneeRole(s) \/ CheckNotAssigned(s) \/ ReadUnassignable(s)
    BY <2>3 DEF Check, At, CheckNoReceipt, CheckOperator, ReadAssignable,
       CheckAssigneeRole, CheckNotAssigned, ReadUnassignable
  <2> QED
    BY <2>1, <2>2, <2>3 DEF Read
<1>2. ASSUME req'[s] # None
      PROVE  req'[s].at # "trail.append"
  BY <1>1, <1>2, ReadMoves
<1> QED
  BY <1>1, <1>2 DEF At

LEMMA OnlyAppendPlaces ==
    ASSUME TypeOK, NEW s \in Slots, Write(s), ~AppendTrail(s)
    PROVE  ~At(s, "trail.append") /\ ~At(s, "trail.append")' /\ UNCHANGED events
<1>1. ~At(s, "trail.append") /\ UNCHANGED events
  BY DEF Write, WriteStatus, ReadAttestation, WriteFinalized, InsertSection,
     InsertKey, WriteDownloaded, InsertAssignment, DeleteAssignments, At
<1>2. ASSUME req'[s] # None
      PROVE  req'[s].at # "trail.append"
  BY <1>2, WriteMoves
<1> QED
  BY <1>1, <1>2 DEF At

(* Who appends overtakes all the others.                                   *)
LEMMA AppendOvertakes ==
    ASSUME TypeOK, TypeOK', SeenInv, NEW s \in Slots, AppendTrail(s)
    PROVE  /\ s \in TrailCurrent /\ TrailCurrent' = {} /\ SeenInv'
           /\ \E e \in EventRows : events' = Append(events, e)
<1> DEFINE e == Event(req[s].target, req[s].user, req[s].draft)
<1>1. events \in Seq(EventRows) /\ events' = Append(events, e)
  BY DEF TypeOK, EventRows, AppendTrail
<1>2. e \in EventRows
  <2>1. req[s] \in Request
    BY DEF AppendTrail, At, TypeOK
  <2> QED
    BY <2>1 DEF Request, Event, EventRows
<1> HIDE DEF e
<1>3. Len(events) \in Nat /\ Len(events') = Len(events) + 1
  BY <1>1, <1>2
<1>4. s \in TrailCurrent
  BY DEF AppendTrail, TrailCurrent
<1>5. Write(s)
  BY DEF Write
<1>6. ~At(s, "trail.append")'
  <2>1. req[s] # None /\ req[s].at = "trail.append"
    BY DEF AppendTrail, At
  <2> QED
    BY <1>5, <2>1, WriteMoves DEF At
<1>7. ASSUME NEW t \in Slots, At(t, "trail.append")'
      PROVE  req'[t].seen \in Nat /\ req'[t].seen <= Len(events)
  <2>1. t # s /\ req'[t] = req[t]
    BY <1>5, <1>6, <1>7, WriteMoves
  <2>2. At(t, "trail.append") /\ req[t] \in Request
    BY <1>7, <2>1 DEF At, TypeOK
  <2> QED
    BY <2>1, <2>2 DEF SeenInv, Request
<1>8. TrailCurrent' = {}
  BY <1>3, <1>7 DEF TrailCurrent
<1>9. SeenInv'
  BY <1>3, <1>7 DEF SeenInv
<1> QED
  BY <1>1, <1>2, <1>4, <1>8, <1>9

(* While the trail stays, only the request that moves may change places.   *)
LEMMA OthersStayCurrent ==
    ASSUME UNCHANGED events, NEW s \in Slots,
           \A t \in Slots \ {s} : req'[t] = req[t]
    PROVE  /\ TrailCurrent' \ {s} = TrailCurrent \ {s}
           /\ SeenInv => \A t \in Slots \ {s} :
                 At(t, "trail.append")' => req'[t].seen <= Len(events')
BY DEF TrailCurrent, SeenInv, At

LEMMA AwayFromTrail ==
    ASSUME SeenInv, UNCHANGED events, NEW s \in Slots,
           \A t \in Slots \ {s} : req'[t] = req[t],
           ~At(s, "trail.append")'
    PROVE  SeenInv' /\ TrailCurrent' = TrailCurrent \ {s}
<1>1. SeenInv'
  BY OthersStayCurrent DEF SeenInv
<1>2. s \notin TrailCurrent'
  BY DEF TrailCurrent
<1> QED
  BY <1>1, <1>2, OthersStayCurrent

LEMMA TrailRaceStep ==
    ASSUME TypeOK, TypeOK', SeenInv, [Next]_vars
    PROVE  /\ SeenInv'
           /\ \/ \E s \in Slots :
                    \/ TrailCurrent' = TrailCurrent \cup {s} /\ UNCHANGED events
                    \/ TrailCurrent' = TrailCurrent \ {s} /\ UNCHANGED events
                    \/ /\ s \in TrailCurrent /\ TrailCurrent' = {}
                       /\ \E e \in EventRows : events' = Append(events, e)
              \/ TrailCurrent' = TrailCurrent /\ UNCHANGED events
<1>1. ASSUME NEW s \in Slots, NEW u \in Users, Begin(s, u)
      PROVE  SeenInv' /\ TrailCurrent' = TrailCurrent \ {s} /\ UNCHANGED events
  <2>1. PICK r \in Request : Accept(s, r) /\ r.at = "access"
    BY <1>1, BeginAccepts
  <2>2. req'[s] = r /\ (\A t \in Slots \ {s} : req'[t] = req[t]) /\ UNCHANGED events
    BY <2>1 DEF Accept, store, TypeOK
  <2>3. ~At(s, "trail.append")'
    BY <2>1, <2>2 DEF At
  <2> QED
    BY <2>2, <2>3, AwayFromTrail
<1>2. ASSUME NEW s \in Slots, ReadTrail(s)
      PROVE  SeenInv' /\ TrailCurrent' = TrailCurrent \cup {s} /\ UNCHANGED events
  <2>1. UNCHANGED events
    BY <1>2 DEF ReadTrail, store
  <2>2. /\ At(s, "trail.append")' /\ req'[s].seen = Len(events')
        /\ \A t \in Slots \ {s} : req'[t] = req[t]
    BY <1>2, <2>1, ReadTrailMoves DEF At
  <2>3. s \in TrailCurrent'
    BY <2>2 DEF TrailCurrent
  <2>4. req'[s].seen <= Len(events')
    <3>1. Len(events') \in Nat
      BY DEF TypeOK
    <3> QED
      BY <2>2, <3>1
  <2>5. SeenInv'
    BY <2>1, <2>2, <2>4, OthersStayCurrent DEF SeenInv
  <2> QED
    BY <2>1, <2>2, <2>3, <2>5, OthersStayCurrent
<1>3. ASSUME NEW s \in Slots, Read(s), ~ReadTrail(s)
      PROVE  SeenInv' /\ TrailCurrent' = TrailCurrent \ {s} /\ UNCHANGED events
  BY <1>3, ReadKeeps, ReadAlone, OnlyReadTrailPlaces, AwayFromTrail DEF store
<1>4. ASSUME NEW s \in Slots, Stop(s)
      PROVE  SeenInv' /\ TrailCurrent' = TrailCurrent \ {s} /\ UNCHANGED events
  <2>1. UNCHANGED events /\ Done(s)
    BY <1>4 DEF Stop, store
  <2>2. ~At(s, "trail.append")' /\ \A t \in Slots \ {s} : req'[t] = req[t]
    BY <2>1, DoneMoves DEF At
  <2> QED
    BY <2>1, <2>2, AwayFromTrail
<1>5. ASSUME NEW s \in Slots, Write(s), ~AppendTrail(s)
      PROVE  SeenInv' /\ TrailCurrent' = TrailCurrent \ {s} /\ UNCHANGED events
  BY <1>5, WriteMoves, OnlyAppendPlaces, AwayFromTrail
<1>6. CASE UNCHANGED vars \/ \E u \in Users : RemoveRoles(u) \/ AssignRole(u)
  <2>1. UNCHANGED <<req, events>>
    BY <1>6 DEF vars, store, RemoveRoles, AssignRole
  <2> QED
    BY <2>1 DEF SeenInv, TrailCurrent, At
<1>7. CASE \E s \in Slots : \/ \E u \in Users : Begin(s, u)
                           \/ Read(s) \/ Stop(s)
  BY <1>1, <1>2, <1>3, <1>4, <1>7
<1>8. CASE \E s \in Slots : Write(s)
  BY <1>5, <1>8, AppendOvertakes
<1> QED
  BY <1>6, <1>7, <1>8 DEF Next

LEMMA NobodyPlacedAtFirst ==
    ASSUME Init, NEW s \in Slots
    PROVE  ~At(s, "trail.append")
<1>1. ASSUME NEW u \in Users
      PROVE  Creation(u).at = "trail.read"
  BY DEF Creation, New
<1>2. req[s] = None \/ \E u \in Users : req[s] = Creation(u)
  BY DEF Init
<1> QED
  BY <1>1, <1>2 DEF At

(* What BuildWorkflow takes LogEvent for is what its callers get from it:  *)
(* whatever requests overlap, fail and die, an event enters the trail of a *)
(* build that is created empty only if no other did since its request read *)
(* the trail, as in AuditChain.                                            *)
THEOREM TrailIsRace == Spec /\ events = <<>> => TrailRace!Spec
<1>1. Init => SeenInv
  BY NobodyPlacedAtFirst DEF SeenInv
<1>2. Init /\ events = <<>> => TrailRace!Init
  BY NobodyPlacedAtFirst DEF TrailRace!Init, TrailCurrent
<1>3. TypeOK /\ TypeOK' /\ SeenInv /\ [Next]_vars
      => SeenInv' /\ [TrailRace!Next]_<<events, TrailCurrent>>
  BY TrailRaceStep DEF TrailRace!Next, TrailRace!Read, TrailRace!Record,
     TrailRace!GiveUp
<1> QED
  BY <1>1, <1>2, <1>3, TypeCorrect, PTL DEF Spec, TrailRace!Spec

(* So, to its readers, the trail is the append-only log that AuditChain    *)
(* shows LogEvent to implement.                                            *)
THEOREM TrailIsLog == Spec /\ events = <<>> => TrailLog!Spec
<1>1. TrailRace!Init => TrailLog!Init
  BY DEF TrailRace!Init, TrailLog!Init
<1>2. [TrailRace!Next]_<<events, TrailCurrent>> => [TrailLog!Next]_events
  BY DEF TrailRace!Next, TrailRace!Read, TrailRace!Record, TrailRace!GiveUp,
     TrailLog!Next, TrailLog!Record
<1> QED
  BY <1>1, <1>2, TrailIsRace, PTL DEF TrailRace!Spec, TrailLog!Spec
=============================================================================
