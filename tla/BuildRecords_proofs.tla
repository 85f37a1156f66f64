------------------------ MODULE BuildRecords_proofs ------------------------
(***************************************************************************)
(* More theorems about BuildWorkflow, for any number of requests and users *)
(* and any bounds: who did the work of a build, that its trail tells the   *)
(* truth, what clients are told, what its contract is made of, and where a *)
(* build ends for good.  They rest on one invariant, RecordInv: what each  *)
(* request has established by the label it is at, in terms of the part of  *)
(* the store that only grows.                                              *)
(***************************************************************************)
EXTENDS BuildWorkflow_proofs

(* Where a request is, or will be once it passes RequireBuildAccess.       *)
Here(r) == IF r.at = "access" THEN r.next ELSE r.at

(* The user of a request has been assigned to a role.                      *)
Authorised(r, role) == [role |-> role, user |-> r.user] \in authority

(* Its event, if it is about to record one, is that of a receipt.          *)
Receipting(r) ==
    r.at \in {"trail.read", "trail.append"} /\ r.target = "CONTRACT_DOWNLOADED"

(* Who is about to write has been assigned to the role that takes.         *)
Allowed(r) ==
    /\ r.at = "status.write" /\ r.target # "CANCELLED"
         => Authorised(r, RequiredRoleForTransition(r.target))
    /\ r.at = "finalize.write" => Authorised(r, "AUDITOR")
    /\ r.at \in {"section.status", "section.exists", "section.insert"}
         => Authorised(r, r.role)
    /\ r.at = "receipt.write" \/ Receipting(r) => Authorised(r, "ENV_OPERATOR")

(* A section is inserted at its stage, which may have passed since.        *)
Placed(r) ==
    r.at \in {"section.exists", "section.insert"} =>
        RequiredBuildStatus(r.role) \cap Reached # {}

(* The event a request will record fits its operation.                     *)
Aimed(r) ==
    /\ Here(r) \in {"finalize.read", "finalize.assigned", "finalize.write",
                    "contract.roles", "contract.assigned", "contract.signing",
                    "contract.attestation", "contract.sections"}
         => r.target = "FINALIZED"
    /\ Here(r) \in {"assign.read", "assign.roles", "assign.check", "assign.insert",
                    "unassign.read", "unassign.delete"}
         => r.target = "ROLE_ASSIGNED"
    /\ Here(r) \in {"receipt.read", "receipt.events", "receipt.assigned",
                    "receipt.write"}
         => r.target = "CONTRACT_DOWNLOADED"
    /\ Here(r) = "attestation.read" => "attestation" \in Ops

(* It has happened by the time it is recorded.                             *)
Happened(r) ==
    /\ r.at \in {"trail.read", "trail.append"} =>
         (r.target \in (Stages \ {"CONTRACT_DOWNLOADED"}) \cup {"CANCELLED"} =>
             [stage |-> r.target, by |-> r.user] \in advanced)
    /\ r.at \in {"receipt.events", "receipt.assigned"} \/ Receipting(r)
         => contract # None

(* A contract of the server with what it was made of.                      *)
Whole(c) ==
    /\ sections["SOLUTION_PROVIDER"] # None
    /\ sections["DATA_OWNER"] # None
    /\ c.env = sections["DATA_OWNER"].key
    /\ c.signer \in DOMAIN Signing
    /\ Signing[c.signer] = "generate"
    /\ c.attester \in DOMAIN Attesting

(* What has been gathered for it so far.                                   *)
Gathered(r) ==
    /\ r.at = "access" /\ r.next = "finalize.read" => r.draft.made # "backend"
    /\ r.at = "contract.attestation" => r.draft.signer \in DOMAIN Signing
    /\ r.at = "contract.sections" => /\ r.draft.signer \in DOMAIN Signing
                                     /\ r.draft.attester \in DOMAIN Attesting
    /\ r.at \in {"finalize.read", "finalize.assigned", "finalize.write"} =>
         (r.draft.made = "backend" => Whole(r.draft))

Has(r) ==
    r # None => /\ Allowed(r)
                /\ Placed(r)
                /\ Aimed(r)
                /\ Happened(r)
                /\ Gathered(r)

RecordInv ==
    /\ \A p \in Personas : assigned[p] # None =>
          [role |-> p, user |-> assigned[p]] \in authority
    /\ WorkAuthorised
    /\ SectionsFollowStages
    /\ TrailTellsTheTruth
    /\ ContractWhole
    /\ \A s \in Slots : Has(req[s])

-----------------------------------------------------------------------------
(* What no step takes back.                                                *)

Kept ==
    /\ authority \subseteq authority'
    /\ advanced \subseteq advanced'
    /\ Reached \subseteq Reached'
    /\ \A p \in Personas : sections[p] # None => sections'[p] = sections[p]
    /\ \A t \in KeyStages : \A i \in DOMAIN keys[t] :
          i \in DOMAIN keys'[t] /\ keys'[t][i] = keys[t][i]
    /\ contract # None => contract' # None

LEMMA Keeping == TypeOK /\ [Next]_vars => Kept
<1> SUFFICES ASSUME TypeOK, [Next]_vars PROVE Kept
  OBVIOUS
<1>g. Reached \subseteq Reached'
  BY ReachedGrows
<1>0. ASSUME UNCHANGED <<contract, sections, keys, advanced, authority>> PROVE Kept
  BY <1>0, <1>g DEF Kept
<1>1. ASSUME NEW s \in Slots, NEW u \in Users, Begin(s, u) PROVE Kept
  BY <1>0, <1>1, BeginAccepts DEF Accept, store
<1>2. ASSUME NEW s \in Slots, Read(s) \/ Stop(s) PROVE Kept
  BY <1>0, <1>2, ReadKeeps DEF Stop, store
<1>3. ASSUME NEW s \in Slots,
             \/ WriteStatus(s) \/ WriteDownloaded(s)
      PROVE  Kept
  BY <1>g, <1>3 DEF Kept, WriteStatus, WriteDownloaded
<1>4. ASSUME NEW s \in Slots,
             AppendTrail(s) \/ ReadAttestation(s) \/ DeleteAssignments(s)
      PROVE  Kept
  BY <1>0, <1>4 DEF AppendTrail, ReadAttestation, DeleteAssignments
<1>5. ASSUME NEW s \in Slots, WriteFinalized(s) PROVE Kept
  <2>1. req[s] # None
    BY <1>5 DEF WriteFinalized, At
  <2>2. req[s].draft # None
    BY <2>1, DraftType, NoneAssumption
  <2> QED
    BY <1>g, <1>5, <2>2 DEF Kept, WriteFinalized
<1>6. ASSUME NEW s \in Slots, InsertSection(s) PROVE Kept
  <2>1. \A p \in Personas : sections[p] # None => sections'[p] = sections[p]
    BY <1>6 DEF InsertSection, TypeOK
  <2> QED
    BY <1>g, <1>6, <2>1 DEF Kept, InsertSection
<1>7. ASSUME NEW s \in Slots, InsertKey(s) PROVE Kept
  <2> DEFINE M == {"generate", "upload_public"}
  <2>1. keys \in [KeyStages -> Seq(M)]
    BY DEF TypeOK
  <2>2. keys' = [keys EXCEPT ![req[s].target] = Append(@, req[s].mode)]
    BY <1>7 DEF InsertKey
  <2> HIDE DEF M
  <2>3. \A m : \A q \in Seq(M) : \A i \in DOMAIN q :
           i \in DOMAIN Append(q, m) /\ Append(q, m)[i] = q[i]
    OBVIOUS
  <2>4. \A t \in KeyStages : \A i \in DOMAIN keys[t] :
           i \in DOMAIN keys'[t] /\ keys'[t][i] = keys[t][i]
    BY <2>1, <2>2, <2>3
  <2> QED
    BY <1>g, <1>7, <2>4 DEF Kept, InsertKey
<1>8. ASSUME NEW s \in Slots, InsertAssignment(s) PROVE Kept
  BY <1>g, <1>8 DEF Kept, InsertAssignment
<1>9. ASSUME NEW u \in Users, RemoveRoles(u) \/ AssignRole(u) PROVE Kept
  BY <1>0, <1>9 DEF RemoveRoles, AssignRole
<1>10. CASE UNCHANGED vars
  BY <1>0, <1>10 DEF vars, store
<1> QED
  BY <1>1, <1>2, <1>3, <1>4, <1>5, <1>6, <1>7, <1>8, <1>9, <1>10 DEF Next, Write

(* Two submissions never replace one another: UNIQUE (build_id,            *)
(* persona_role) lets only the first one in, however long ago both checked.*)
THEOREM SectionOnceAlways == Spec => SectionOnce
<1>1. TypeOK /\ [Next]_vars =>
         \A r \in Personas : sections[r] # None => sections'[r] = sections[r]
  BY Keeping DEF Kept
<1> QED
  BY <1>1, TypeCorrect, PTL DEF Spec, SectionOnce

(* What a contract was made of stays in the store.                         *)
LEMMA WholeStays ==
    ASSUME TypeOK, Kept, NEW c, Whole(c)
    PROVE  /\ sections'["SOLUTION_PROVIDER"] # None
           /\ sections'["DATA_OWNER"] # None
           /\ c.env = sections'["DATA_OWNER"].key
           /\ c.signer \in DOMAIN Signing'
           /\ Signing'[c.signer] = "generate"
           /\ c.attester \in DOMAIN Attesting'
BY DEF Kept, Whole, Signing, Attesting, Personas, KeyStages

LEMMA KeysStay ==
    ASSUME Kept, NEW i
    PROVE  /\ i \in DOMAIN Signing => i \in DOMAIN Signing'
           /\ i \in DOMAIN Attesting => i \in DOMAIN Attesting'
BY DEF Kept, Signing, Attesting, KeyStages

(* So what a request has established stays established while others move.  *)
LEMMA OthersHave ==
    ASSUME TypeOK, Kept, NEW t \in Slots, Has(req[t]), req'[t] = req[t]
    PROVE  Has(req[t])'
<1> SUFFICES ASSUME req[t] # None
             PROVE  /\ Allowed(req[t])' /\ Placed(req[t])' /\ Aimed(req[t])'
                    /\ Happened(req[t])' /\ Gathered(req[t])'
  BY DEF Has
<1>1. Allowed(req[t])'
  BY DEF Has, Allowed, Authorised, Receipting, Kept, RequiredRoleForTransition
<1>2. Placed(req[t])'
  BY DEF Has, Placed, Kept, RequiredBuildStatus, Stages, ValidTransitions
<1>3. Aimed(req[t])'
  BY DEF Has, Aimed, Here
<1>4. Happened(req[t])'
  BY DEF Has, Happened, Receipting, Kept, Stages, ValidTransitions
<1>5. Gathered(req[t])'
  <2>1. Whole(req[t].draft) => Whole(req[t].draft)'
    BY WholeStays DEF Whole
  <2> QED
    BY <2>1, KeysStay DEF Has, Gathered
<1> QED
  BY <1>1, <1>2, <1>3, <1>4, <1>5

-----------------------------------------------------------------------------
(* What a request begins with.                                             *)

Fits(r) == r.at = "access" /\ Aimed(r) /\ (r.next = "finalize.read" => r.draft.made # "backend")

LEMMA BeginFits ==
    ASSUME TypeOK, NEW s \in Slots, NEW u \in Users, Begin(s, u)
    PROVE  \E r \in Request : Accept(s, r) /\ Fits(r)
<1> USE DEF Fits, Aimed, Here
<1>h. held \in [Users -> SUBSET Roles]
  BY DEF TypeOK
<1>n. \A l \in Entries, t \in EventTypes :
         /\ New(u, l, t) \in Request
         /\ New(u, l, t).at = "access"
         /\ New(u, l, t).next = l /\ New(u, l, t).target = t
  BY <1>h, NewType DEF New
<1>e. Stages \cup {"CANCELLED", "CREATED", "ROLE_ASSIGNED"} \subseteq EventTypes
  BY DEF EventTypes
<1>s. /\ "FINALIZED" \in Stages /\ "ATTESTATION_KEY_REGISTERED" \in Stages
      /\ "ENVIRONMENT_STAGED" \in Stages /\ "WORKLOAD_SUBMITTED" \in Stages
      /\ "SIGNING_KEY_REGISTERED" \in Stages /\ "CONTRACT_DOWNLOADED" \in Stages
  BY DEF Stages, ValidTransitions
<1> DEFINE Same(q, r) == /\ q \in Request
                         /\ q.at = r.at /\ q.next = r.next /\ q.target = r.target
<1>r. ASSUME NEW r \in Request
      PROVE  /\ \A p \in Personas : Same([r EXCEPT !.role = p], r)
             /\ \A p \in Personas, w \in Users :
                   Same([r EXCEPT !.role = p, !.whom = w], r)
             /\ \A m \in {"generate", "upload_public"} : Same([r EXCEPT !.mode = m], r)
  <2>1. ASSUME NEW p \in Personas
        PROVE  Same([r EXCEPT !.role = p], r)
    BY DEF Request
  <2>2. ASSUME NEW p \in Personas, NEW w \in Users
        PROVE  Same([r EXCEPT !.role = p, !.whom = w], r)
    BY DEF Request
  <2>3. ASSUME NEW m \in {"generate", "upload_public"}
        PROVE  Same([r EXCEPT !.mode = m], r)
    BY DEF Request
  <2> HIDE DEF Same
  <2> QED
    BY <2>1, <2>2, <2>3
<1>1. CASE PatchStatus(s, u)
  <2>1. PICK t \in (Stages \ {"CONTRACT_DOWNLOADED"}) \cup {"CANCELLED"} :
           Accept(s, New(u, "status.read", t))
    BY <1>1 DEF PatchStatus
  <2> DEFINE r == New(u, "status.read", t)
  <2>2. r \in Request /\ r.at = "access" /\ r.next = "status.read"
    BY <1>n, <1>e DEF Entries
  <2> HIDE DEF r
  <2>3. Fits(r)
    BY <2>2
  <2> QED
    BY <2>1, <2>2, <2>3 DEF r
<1>2. ASSUME NEW l \in {"status.read", "attestation.read", "contract.roles",
                        "receipt.read", "unassign.read"},
             NEW t \in EventTypes, Accept(s, New(u, l, t)),
             l = "contract.roles" => t = "FINALIZED",
             l = "receipt.read" => t = "CONTRACT_DOWNLOADED",
             l = "unassign.read" => t = "ROLE_ASSIGNED",
             l = "attestation.read" => "attestation" \in Ops
      PROVE  \E r \in Request : Accept(s, r) /\ Fits(r)
  <2> DEFINE r == New(u, l, t)
  <2>1. r \in Request /\ r.at = "access" /\ r.next = l /\ r.target = t
    BY <1>n, <1>2 DEF Entries
  <2> HIDE DEF r
  <2>2. Fits(r)
    BY <1>2, <2>1
  <2> QED
    BY <1>2, <2>1, <2>2 DEF r
<1>3. CASE CancelBuild(s, u) \/ RegisterAttestation(s, u) \/ FinalizeContract(s, u)
           \/ AcknowledgeDownload(s, u) \/ DeleteBuildAssignments(s, u)
  BY <1>2, <1>3, <1>e, <1>s DEF CancelBuild, RegisterAttestation, FinalizeContract,
     AcknowledgeDownload, DeleteBuildAssignments
<1>4. CASE FinalizeUploaded(s, u)
  <2>1. PICK c \in Uploads :
           Accept(s, [New(u, "finalize.read", "FINALIZED") EXCEPT !.draft.made = c])
    BY <1>4 DEF FinalizeUploaded
  <2> DEFINE r == New(u, "finalize.read", "FINALIZED")
             d == [NoDraft EXCEPT !.made = c]
             q == [r EXCEPT !.draft = d]
  <2>2. [New(u, "finalize.read", "FINALIZED") EXCEPT !.draft.made = c] = q
    BY DEF New
  <2>3. d \in Contracts /\ d.made = c /\ c # "backend"
    BY UploadsAssumption DEF NoDraft, Contracts
  <2>4. r \in Request /\ r.at = "access" /\ r.next = "finalize.read"
          /\ r.target = "FINALIZED"
    BY <1>n, <1>e, <1>s DEF Entries
  <2> HIDE DEF r, d
  <2>5. q \in Request /\ q.at = "access" /\ q.next = "finalize.read"
          /\ q.target = "FINALIZED" /\ q.draft = d
    BY <2>3, <2>4 DEF Request
  <2>6. Accept(s, q)
    BY <2>1, <2>2
  <2> HIDE DEF q
  <2>7. Fits(q)
    BY <2>3, <2>5
  <2> QED
    BY <2>5, <2>6, <2>7
<1>5. ASSUME NEW l \in {"section.roles", "section.key", "key.roles", "assign.read"},
             NEW t \in EventTypes, l = "assign.read" => t = "ROLE_ASSIGNED",
             NEW q, Same(q, New(u, l, t)), Accept(s, q)
      PROVE  \E r \in Request : Accept(s, r) /\ Fits(r)
  <2>1. q \in Request /\ q.at = "access" /\ q.next = l /\ q.target = t
    BY <1>n, <1>5 DEF Entries
  <2>2. Fits(q)
    BY <1>5, <2>1
  <2> QED
    BY <1>5, <2>1, <2>2
<1> HIDE DEF Fits, Same
<1>6. CASE SubmitSection(s, u)
  <2>1. PICK p \in Personas :
           Accept(s, [New(u, "section.roles", Completes(p)) EXCEPT !.role = p])
    BY <1>6 DEF SubmitSection
  <2>2. Completes(p) \in EventTypes
    BY <1>e, <1>s DEF Completes
  <2>3. New(u, "section.roles", Completes(p)) \in Request
    BY <1>n, <2>2 DEF Entries
  <2> DEFINE r == New(u, "section.roles", Completes(p))
             q == [r EXCEPT !.role = p]
  <2>4. r \in Request /\ Accept(s, q)
    BY <2>1, <2>2, <2>3
  <2> HIDE DEF r
  <2>5. Same(q, r)
    BY <1>r, <2>4
  <2> HIDE DEF q
  <2> QED
    BY <1>5, <2>2, <2>4, <2>5 DEF r
<1>7. CASE SubmitEnvironmentSection(s, u)
  <2>1. Accept(s, [New(u, "section.key", "ENVIRONMENT_STAGED")
                     EXCEPT !.role = "DATA_OWNER"])
    BY <1>7 DEF SubmitEnvironmentSection
  <2>2. New(u, "section.key", "ENVIRONMENT_STAGED") \in Request
    BY <1>n, <1>e, <1>s DEF Entries
  <2>3. "DATA_OWNER" \in Personas /\ "ENVIRONMENT_STAGED" \in EventTypes
    BY <1>e, <1>s DEF Personas
  <2> DEFINE r == New(u, "section.key", "ENVIRONMENT_STAGED")
             q == [r EXCEPT !.role = "DATA_OWNER"]
  <2>4. r \in Request /\ Accept(s, q)
    BY <2>1, <2>2, <2>3
  <2> HIDE DEF r
  <2>5. Same(q, r)
    BY <2>3, <1>r, <2>4
  <2> HIDE DEF q
  <2> QED
    BY <1>5, <2>3, <2>4, <2>5 DEF r
<1>8. CASE RegisterKey(s, u)
  <2>1. PICK t \in KeyStages, m \in {"generate", "upload_public"} :
           Accept(s, [New(u, "key.roles", t) EXCEPT !.mode = m])
    BY <1>8 DEF RegisterKey
  <2>2. t \in EventTypes
    BY <1>e, <1>s DEF KeyStages
  <2>3. New(u, "key.roles", t) \in Request
    BY <1>n, <2>2 DEF Entries
  <2> DEFINE r == New(u, "key.roles", t)
             q == [r EXCEPT !.mode = m]
  <2>4. r \in Request /\ Accept(s, q)
    BY <2>1, <2>2, <2>3
  <2> HIDE DEF r
  <2>5. Same(q, r)
    BY <1>r, <2>4
  <2> HIDE DEF q
  <2> QED
    BY <1>5, <2>2, <2>4, <2>5 DEF r
<1>9. CASE CreateAssignment(s, u)
  <2>1. PICK p \in Personas, w \in Users :
           Accept(s, [New(u, "assign.read", "ROLE_ASSIGNED")
                         EXCEPT !.role = p, !.whom = w])
    BY <1>9 DEF CreateAssignment
  <2>2. New(u, "assign.read", "ROLE_ASSIGNED") \in Request
    BY <1>n, <1>e DEF Entries
  <2>3. "ROLE_ASSIGNED" \in EventTypes
    BY <1>e
  <2> DEFINE r == New(u, "assign.read", "ROLE_ASSIGNED")
             q == [r EXCEPT !.role = p, !.whom = w]
  <2>4. r \in Request /\ Accept(s, q)
    BY <2>1, <2>2, <2>3
  <2> HIDE DEF r
  <2>5. Same(q, r)
    BY <1>r, <2>4
  <2> HIDE DEF q
  <2> QED
    BY <1>5, <2>3, <2>4, <2>5 DEF r
<1> QED
  BY <1>1, <1>3, <1>4, <1>6, <1>7, <1>8, <1>9 DEF Begin

-----------------------------------------------------------------------------
(* How a request moves.                                                    *)

LEMMA GotoKeeps ==
    ASSUME TypeOK, NEW s \in Slots, req[s] # None, NEW l, Goto(s, l)
    PROVE  /\ req'[s].at = l
           /\ req'[s].next = req[s].next
           /\ req'[s].target = req[s].target
           /\ req'[s].user = req[s].user
           /\ req'[s].role = req[s].role
           /\ req'[s].draft = req[s].draft
<1>1. req[s] \in Request /\ req \in [Slots -> Request \cup {None}]
  BY DEF TypeOK
<1> QED
  BY <1>1 DEF Goto, Request

LEMMA GotoWithKeeps ==
    ASSUME TypeOK, NEW s \in Slots, req[s] # None, NEW l, NEW d, GotoWith(s, l, d)
    PROVE  /\ req'[s].at = l
           /\ req'[s].next = req[s].next
           /\ req'[s].target = req[s].target
           /\ req'[s].user = req[s].user
           /\ req'[s].role = req[s].role
           /\ req'[s].draft = d
<1>1. req[s] \in Request /\ req \in [Slots -> Request \cup {None}]
  BY DEF TypeOK
<1> QED
  BY <1>1 DEF GotoWith, Request

(* Each check that passes establishes what the labels behind it rely on.   *)
LEMMA ReadHas ==
    ASSUME StageInv, RecordInv, NEW s \in Slots, Read(s)
    PROVE  Has(req[s])'
<1>t. TypeOK
  BY DEF StageInv
<1>u. UNCHANGED <<contract, sections, keys, assigned, advanced, authority>>
  BY ReadKeeps DEF store
<1>v. UNCHANGED <<Reached, Signing, Attesting>>
  BY <1>u DEF Reached, Signing, Attesting
<1>w. \A d : Whole(d)' <=> Whole(d)
  BY <1>u, <1>v DEF Whole
<1> SUFFICES ASSUME req'[s] # None
             PROVE  /\ Allowed(req'[s]) /\ Placed(req'[s]) /\ Aimed(req'[s])
                    /\ Happened(req'[s]) /\ Gathered(req'[s])
  BY <1>u, <1>v, <1>w DEF Has, Allowed, Authorised, Placed, Aimed, Here, Happened,
     Receipting, Gathered, RequiredRoleForTransition, RequiredBuildStatus, Stages,
     ValidTransitions
<1>r. req[s] # None /\ req[s] \in Request
  BY <1>t, ReadMoves DEF TypeOK
<1>h. /\ Allowed(req[s]) /\ Placed(req[s]) /\ Aimed(req[s])
      /\ Happened(req[s]) /\ Gathered(req[s])
  BY <1>r DEF RecordInv, Has
<1>a. ASSUME NEW p \in Personas, IsAssigned(s, p)
      PROVE  Authorised(req[s], p)
  <2>1. req[s].user \in Users /\ None \notin Users
    BY <1>r, NoneAssumption DEF Request
  <2> QED
    BY <1>a, <2>1 DEF IsAssigned, RecordInv, Authorised
<1>1. CASE RequireBuildAccess(s)
  <2>1. /\ req'[s].at = req[s].next /\ req'[s].at \in Entries
        /\ req[s].at = "access"
        /\ req'[s].target = req[s].target /\ req'[s].draft = req[s].draft
    BY <1>1, <1>r, <1>t, GotoKeeps DEF RequireBuildAccess, At, Request
  <2> HIDE DEF Entries
  <2>2. \A l \in Entries : l \in {"status.read", "attestation.read", "finalize.read",
            "contract.roles", "section.roles", "section.key", "key.roles",
            "receipt.read", "assign.read", "unassign.read"}
    BY DEF Entries
  <2>3. Allowed(req'[s]) /\ Placed(req'[s])
    BY <2>1, <2>2 DEF Allowed, Placed, Receipting
  <2>4. Aimed(req'[s])
    BY <1>h, <2>1, <2>2 DEF Aimed, Here
  <2>5. Happened(req'[s]) /\ Gathered(req'[s])
    BY <1>h, <2>1, <2>2 DEF Happened, Gathered, Receipting
  <2> QED
    BY <2>3, <2>4, <2>5
<1> DEFINE Stays == /\ req'[s].next = req[s].next
                    /\ req'[s].target = req[s].target
                    /\ req'[s].user = req[s].user
                    /\ req'[s].role = req[s].role
<1>g. ASSUME NEW l, NEW c, NEW h, Check(s, h, c, l)
      PROVE  /\ req[s].at = h /\ c /\ req'[s].at = l
             /\ Stays /\ req'[s].draft = req[s].draft
  BY <1>g, <1>r, <1>t, GotoKeeps DEF Check, At
<1>k. ASSUME NEW l, NEW d, GotoWith(s, l, d)
      PROVE  req'[s].at = l /\ Stays /\ req'[s].draft = d
  BY <1>k, <1>r, <1>t, GotoWithKeeps
<1>2. CASE ReadStatus(s)
  <2>1. /\ req[s].at = "status.read" /\ Stays
        /\ \/ req'[s].at = "status.write" /\ req'[s].target = "CANCELLED"
           \/ req'[s].at = "status.assigned"
    BY <1>2, <1>r, <1>t, GotoKeeps DEF ReadStatus, At
  <2> QED
    BY <2>1 DEF Allowed, Placed, Aimed, Here, Happened, Receipting, Gathered
<1>3. CASE CheckTransitionAssignment(s)
  <2>1. RequiredRoleForTransition(req[s].target) \in Personas
    BY DEF RequiredRoleForTransition, Personas
  <2>2. /\ Stays /\ req'[s].at = "status.write"
        /\ Authorised(req[s], RequiredRoleForTransition(req[s].target))
    BY <1>3, <1>g, <1>a, <2>1 DEF CheckTransitionAssignment
  <2> QED
    BY <2>2 DEF Allowed, Authorised, Placed, Aimed, Here, Happened, Receipting, Gathered
<1>4. CASE ReadTrail(s)
  <2>1. /\ Stays /\ req'[s].draft = req[s].draft
        /\ req[s].at = "trail.read" /\ req'[s].at = "trail.append"
    BY <1>4, <1>t, <1>r DEF ReadTrail, At, TypeOK, Request
  <2> QED
    BY <2>1, <1>h DEF Allowed, Authorised, Placed, Aimed, Here, Happened, Receipting,
       Gathered
<1>5. CASE ReadFinalizable(s)
  <2>1. /\ Stays /\ req'[s].draft = req[s].draft
        /\ req[s].at = "finalize.read" /\ req'[s].at = "finalize.assigned"
    BY <1>5, <1>g DEF ReadFinalizable
  <2> QED
    BY <2>1, <1>h DEF Allowed, Placed, Aimed, Here, Happened, Receipting, Gathered
<1>6. CASE CheckFinalizeAssignment(s)
  <2>1. /\ Stays /\ req'[s].draft = req[s].draft
        /\ req[s].at = "finalize.assigned" /\ req'[s].at = "finalize.write"
        /\ Authorised(req[s], "AUDITOR")
    BY <1>6, <1>g, <1>a DEF CheckFinalizeAssignment, Personas
  <2> QED
    BY <2>1, <1>h DEF Allowed, Authorised, Placed, Aimed, Here, Happened, Receipting,
       Gathered
<1>7. CASE CheckContractRole(s) \/ CheckContractAssignment(s)
  <2>1. /\ Stays /\ req[s].at \in {"contract.roles", "contract.assigned"}
        /\ req'[s].at \in {"contract.assigned", "contract.signing"}
    BY <1>7, <1>g DEF CheckContractRole, CheckContractAssignment
  <2> QED
    BY <2>1, <1>h DEF Allowed, Placed, Aimed, Here, Happened, Receipting, Gathered
<1> DEFINE M == {"generate", "upload_public"}
<1>m. Signing \in Seq(M) /\ Attesting \in Seq(M)
  BY <1>t, KeysType
<1> HIDE DEF M
<1>n. /\ Signing # <<>> => Len(Signing) \in DOMAIN Signing
      /\ Attesting # <<>> => Len(Attesting) \in DOMAIN Attesting
  BY <1>m
<1>8. CASE ReadSigningKey(s)
  <2> DEFINE d == [req[s].draft EXCEPT !.signer = Len(Signing)]
  <2>1. req[s].draft \in Contracts
    BY <1>r, <1>t, DraftType
  <2>2. d.signer = Len(Signing)
    BY <2>1 DEF Contracts
  <2>3. GotoWith(s, "contract.attestation", d) /\ Signing # <<>>
    BY <1>8 DEF ReadSigningKey
  <2> HIDE DEF d
  <2>4. /\ Stays /\ req'[s].draft = d /\ req'[s].at = "contract.attestation"
        /\ req[s].at = "contract.signing"
    BY <2>3, <1>k, <1>8 DEF ReadSigningKey, At
  <2> QED
    BY <2>2, <2>3, <2>4, <1>n, <1>h DEF Allowed, Placed, Aimed, Here, Happened,
       Receipting, Gathered
<1>9. CASE ReadAttestationKey(s)
  <2> DEFINE d == [req[s].draft EXCEPT !.attester = Len(Attesting)]
  <2>1. req[s].draft \in Contracts
    BY <1>r, <1>t, DraftType
  <2>2. d.attester = Len(Attesting) /\ d.signer = req[s].draft.signer
    BY <2>1 DEF Contracts
  <2>3. GotoWith(s, "contract.sections", d) /\ Attesting # <<>>
    BY <1>9 DEF ReadAttestationKey
  <2> HIDE DEF d
  <2>4. /\ Stays /\ req'[s].draft = d /\ req'[s].at = "contract.sections"
        /\ req[s].at = "contract.attestation"
    BY <2>3, <1>k, <1>9 DEF ReadAttestationKey, At
  <2> QED
    BY <2>2, <2>3, <2>4, <1>n, <1>h DEF Allowed, Placed, Aimed, Here, Happened,
       Receipting, Gathered
<1>10. CASE ReadSections(s)
  <2> DEFINE d == [req[s].draft EXCEPT !.env = sections["DATA_OWNER"].key]
  <2>1. req[s].draft \in Contracts
    BY <1>r, <1>t, DraftType
  <2>2. /\ d.env = sections["DATA_OWNER"].key
        /\ d.signer = req[s].draft.signer /\ d.attester = req[s].draft.attester
    BY <2>1 DEF Contracts
  <2>3. GotoWith(s, "finalize.read", d)
    BY <1>10 DEF ReadSections
  <2> HIDE DEF d
  <2>4. /\ Stays /\ req'[s].draft = d /\ req'[s].at = "finalize.read"
        /\ req[s].at = "contract.sections"
    BY <2>3, <1>k, <1>10 DEF ReadSections, At
  <2>5. Whole(d)
    BY <2>2, <2>4, <1>10, <1>h DEF ReadSections, Whole, Gathered
  <2> QED
    BY <2>4, <2>5, <1>h DEF Allowed, Placed, Aimed, Here, Happened, Receipting, Gathered
<1>11. CASE ReadEnvironmentKey(s)
  <2>1. Stays /\ req'[s].at = "section.roles"
    BY <1>11, <1>k DEF ReadEnvironmentKey
  <2> QED
    BY <2>1 DEF Allowed, Placed, Aimed, Here, Happened, Receipting, Gathered
<1>12. CASE CheckSectionRole(s)
  <2>1. Stays /\ req'[s].at = "section.assigned"
    BY <1>12, <1>g DEF CheckSectionRole
  <2> QED
    BY <2>1 DEF Allowed, Placed, Aimed, Here, Happened, Receipting, Gathered
<1>13. CASE CheckSectionAssignment(s)
  <2>1. req[s].role \in Personas
    BY <1>r DEF Request
  <2>2. /\ Stays /\ req'[s].at = "section.status"
        /\ Authorised(req[s], req[s].role)
    BY <1>13, <1>g, <1>a, <2>1 DEF CheckSectionAssignment
  <2> QED
    BY <2>2 DEF Allowed, Authorised, Placed, Aimed, Here, Happened, Receipting, Gathered
<1>14. CASE CheckSectionStatus(s)
  <2>1. /\ Stays /\ req[s].at = "section.status" /\ req'[s].at = "section.exists"
        /\ status \in RequiredBuildStatus(req[s].role)
    BY <1>14, <1>r, <1>t, GotoKeeps DEF CheckSectionStatus, Check, At
  <2>2. status \in Reached
    BY DEF StageInv
  <2>3. Allowed(req'[s])
    BY <2>1, <1>h DEF Allowed, Authorised, Receipting
  <2>4. Placed(req'[s])
    BY <2>1, <2>2 DEF Placed
  <2> QED
    BY <2>1, <2>3, <2>4 DEF Aimed, Here, Happened, Receipting, Gathered
<1>15. CASE CheckNoSection(s)
  <2>1. Stays /\ req[s].at = "section.exists" /\ req'[s].at = "section.insert"
    BY <1>15, <1>g DEF CheckNoSection
  <2>2. Allowed(req'[s])
    BY <2>1, <1>h DEF Allowed, Authorised, Receipting
  <2>3. Placed(req'[s])
    BY <2>1, <1>h DEF Placed
  <2> QED
    BY <2>1, <2>2, <2>3 DEF Aimed, Here, Happened, Receipting, Gathered
<1>16. CASE CheckKeyRole(s) \/ CheckKeyAssignment(s)
  <2>1. req'[s].at \in {"key.assigned", "key.insert"}
    BY <1>16, <1>g DEF CheckKeyRole, CheckKeyAssignment
  <2> QED
    BY <2>1 DEF Allowed, Placed, Aimed, Here, Happened, Receipting, Gathered
<1>17. CASE ReadKeyStatus(s)
  <2>1. Goto(s, "status.read")
    BY <1>17, <1>t, DoneMoves DEF ReadKeyStatus
  <2>2. req'[s].at = "status.read"
    BY <2>1, <1>r, <1>t, GotoKeeps
  <2> QED
    BY <2>2 DEF Allowed, Placed, Aimed, Here, Happened, Receipting, Gathered
<1>18. CASE ReadDownloadable(s)
  <2>1. /\ Stays /\ req[s].at = "receipt.read" /\ req'[s].at = "receipt.events"
        /\ contract # None
    BY <1>18, <1>k DEF ReadDownloadable, At
  <2> QED
    BY <2>1, <1>h DEF Allowed, Placed, Aimed, Here, Happened, Receipting, Gathered
<1>19. CASE CheckNoReceipt(s)
  <2>1. /\ Stays /\ req[s].at = "receipt.events" /\ req'[s].at = "receipt.assigned"
    BY <1>19, <1>g DEF CheckNoReceipt
  <2> QED
    BY <2>1, <1>h DEF Allowed, Placed, Aimed, Here, Happened, Receipting, Gathered
<1>20. CASE CheckOperator(s)
  <2>1. /\ Stays /\ req[s].at = "receipt.assigned" /\ req'[s].at = "trail.read"
        /\ Authorised(req[s], "ENV_OPERATOR")
    BY <1>20, <1>g, <1>a DEF CheckOperator, Personas
  <2>2. req[s].target = "CONTRACT_DOWNLOADED" /\ contract # None
    BY <2>1, <1>h DEF Aimed, Here, Happened
  <2> QED
    BY <2>1, <2>2 DEF Allowed, Authorised, Placed, Aimed, Here, Happened, Receipting,
       Gathered
<1>21. CASE \/ ReadAssignable(s) \/ CheckAssigneeRole(s) \/ CheckNotAssigned(s)
            \/ ReadUnassignable(s)
  <2>1. /\ Stays
        /\ req[s].at \in {"assign.read", "assign.roles", "assign.check",
                          "unassign.read"}
        /\ req'[s].at \in {"assign.roles", "assign.check", "assign.insert",
                           "unassign.delete"}
    BY <1>21, <1>g DEF ReadAssignable, CheckAssigneeRole, CheckNotAssigned,
       ReadUnassignable
  <2> QED
    BY <2>1, <1>h DEF Allowed, Placed, Aimed, Here, Happened, Receipting, Gathered
<1> QED
  BY <1>1, <1>2, <1>3, <1>4, <1>5, <1>6, <1>7, <1>8, <1>9, <1>10, <1>11, <1>12,
     <1>13, <1>14, <1>15, <1>16, <1>17, <1>18, <1>19, <1>20, <1>21 DEF Read

(* A write leaves its request at a label that relies on no more than what  *)
(* the write has just done.                                                *)
LEMMA WriteHas ==
    ASSUME StageInv, RecordInv, NEW s \in Slots, Write(s)
    PROVE  Has(req[s])'
<1>t. TypeOK
  BY DEF StageInv
<1> SUFFICES ASSUME req'[s] # None
             PROVE  /\ Allowed(req[s])' /\ Placed(req[s])' /\ Aimed(req[s])'
                    /\ Happened(req[s])' /\ Gathered(req[s])'
  BY DEF Has
<1> DEFINE Moved(l) == /\ req[s] # None
                       /\ req'[s].at = l
                       /\ req'[s].target = req[s].target
                       /\ req'[s].user = req[s].user
<1>g. ASSUME NEW l, At(s, l), NEW m, Goto(s, m)
      PROVE  Moved(m)
  BY <1>g, <1>t, GotoKeeps DEF At
<1>f. ASSUME req[s] # None
      PROVE  /\ Allowed(req[s]) /\ Aimed(req[s]) /\ Happened(req[s])
             /\ Knows(req[s])
  BY <1>f DEF RecordInv, StageInv, Has
<1>1. CASE WriteStatus(s)
  <2>1. /\ Moved("trail.read") /\ req[s].at = "status.write"
        /\ [stage |-> req[s].target, by |-> req[s].user] \in advanced'
    BY <1>1, <1>g DEF WriteStatus, At
  <2>2. req[s].target # "CONTRACT_DOWNLOADED"
    BY <2>1, <1>f DEF Knows, Receiving
  <2> QED
    BY <2>1, <2>2 DEF Allowed, Placed, Aimed, Here, Happened, Receipting, Gathered
<1>2. CASE AppendTrail(s)
  <2>1. /\ Moved("receipt.write") /\ UNCHANGED authority
        /\ req[s].at = "trail.append" /\ req[s].target = "CONTRACT_DOWNLOADED"
    <3>1. Goto(s, "receipt.write") /\ req[s].target = "CONTRACT_DOWNLOADED"
      BY <1>2, <1>t, DoneMoves DEF AppendTrail
    <3> QED
      BY <3>1, <1>2, <1>g DEF AppendTrail, At
  <2>2. Authorised(req[s], "ENV_OPERATOR")
    BY <2>1, <1>f DEF Allowed, Receipting
  <2> QED
    BY <2>1, <2>2, <1>f DEF Allowed, Authorised, Placed, Aimed, Here, Happened,
       Receipting, Gathered
<1>3. CASE WriteFinalized(s)
  <2>1. /\ Moved("trail.read") /\ req[s].at = "finalize.write"
        /\ [stage |-> "FINALIZED", by |-> req[s].user] \in advanced'
    BY <1>3, <1>g DEF WriteFinalized, At
  <2>2. req[s].target = "FINALIZED"
    BY <2>1, <1>f DEF Aimed, Here
  <2> QED
    BY <2>1, <2>2 DEF Allowed, Placed, Aimed, Here, Happened, Receipting, Gathered
<1>4. CASE InsertAssignment(s) \/ DeleteAssignments(s)
  <2>1. /\ Moved("trail.read") /\ req[s].at \in {"assign.insert", "unassign.delete"}
    BY <1>4, <1>g DEF InsertAssignment, DeleteAssignments, At
  <2>2. req[s].target = "ROLE_ASSIGNED"
    BY <2>1, <1>f DEF Aimed, Here
  <2> QED
    BY <2>1, <2>2 DEF Allowed, Placed, Aimed, Here, Happened, Receipting, Gathered,
       Stages, ValidTransitions
<1>5. ASSUME req'[s].at \in {"status.read", "key.status"}
      PROVE  /\ Allowed(req[s])' /\ Placed(req[s])' /\ Aimed(req[s])'
             /\ Happened(req[s])' /\ Gathered(req[s])'
  BY <1>5 DEF Allowed, Placed, Aimed, Here, Happened, Receipting, Gathered
<1>6. CASE ReadAttestation(s)
  <2>1. Goto(s, "status.read")
    BY <1>6, <1>t, DoneMoves DEF ReadAttestation
  <2> QED
    BY <2>1, <1>5, <1>6, <1>g DEF ReadAttestation
<1>7. CASE InsertSection(s)
  <2>1. Goto(s, "status.read")
    BY <1>7, <1>t, DoneMoves DEF InsertSection
  <2> QED
    BY <2>1, <1>5, <1>7, <1>g DEF InsertSection
<1>8. CASE InsertKey(s)
  BY <1>5, <1>8, <1>g DEF InsertKey
<1>9. CASE WriteDownloaded(s)
  BY <1>9, <1>t, DoneMoves DEF WriteDownloaded
<1> QED
  BY <1>1, <1>2, <1>3, <1>4, <1>6, <1>7, <1>8, <1>9 DEF Write

-----------------------------------------------------------------------------
(* What the writes leave in the store.                                     *)

LEMMA Writer ==
    ASSUME StageInv, RecordInv, NEW s \in Slots, Write(s)
    PROVE  /\ req[s] # None /\ req[s] \in Request /\ Knows(req[s])
           /\ Allowed(req[s]) /\ Placed(req[s]) /\ Aimed(req[s])
           /\ Happened(req[s]) /\ Gathered(req[s])
<1>1. req[s] # None
  BY DEF Write, At, WriteStatus, AppendTrail, ReadAttestation, WriteFinalized,
     InsertSection, InsertKey, WriteDownloaded, InsertAssignment, DeleteAssignments
<1> QED
  BY <1>1 DEF StageInv, TypeOK, RecordInv, Has

LEMMA WorkStep ==
    ASSUME StageInv, RecordInv, Kept, NEW s \in Slots, Write(s)
    PROVE  WorkAuthorised'
<1>w. /\ req[s] # None /\ req[s] \in Request /\ Allowed(req[s]) /\ Knows(req[s])
  BY Writer
<1>k. /\ authority \subseteq authority'
      /\ \A p \in Personas : sections[p] # None => sections'[p] = sections[p]
  BY DEF Kept
<1>i. WorkAuthorised
  BY DEF RecordInv
<1> DEFINE Done1(t) == advanced' \subseteq advanced \cup {[stage |-> t, by |-> req[s].user]}
<1>a. ASSUME NEW t, Done1(t),
             t # "CANCELLED" => Authorised(req[s], RequiredRoleForTransition(t))
      PROVE  \A a \in advanced' : a.stage # "CANCELLED" =>
                [role |-> RequiredRoleForTransition(a.stage), user |-> a.by] \in authority'
  <2> SUFFICES ASSUME NEW a \in advanced', a.stage # "CANCELLED"
               PROVE  [role |-> RequiredRoleForTransition(a.stage), user |-> a.by]
                         \in authority'
    OBVIOUS
  <2>1. CASE a \in advanced
    BY <2>1, <1>i, <1>k DEF WorkAuthorised
  <2>2. CASE a = [stage |-> t, by |-> req[s].user]
    <3>1. a.stage = t /\ a.by = req[s].user
      BY <2>2
    <3> QED
      BY <3>1, <1>a, <1>k DEF Authorised
  <2> QED
    BY <1>a, <2>1, <2>2
<1>b. ASSUME UNCHANGED advanced
      PROVE  \A a \in advanced' : a.stage # "CANCELLED" =>
                [role |-> RequiredRoleForTransition(a.stage), user |-> a.by] \in authority'
  BY <1>b, <1>i, <1>k DEF WorkAuthorised
<1>c. ASSUME UNCHANGED sections
      PROVE  \A p \in Personas : sections'[p] # None =>
                [role |-> p, user |-> sections'[p].by] \in authority'
  BY <1>c, <1>i, <1>k DEF WorkAuthorised
<1> DEFINE Needs(st) == RequiredRoleForTransition(st)
<1>x. WorkAuthorised' <=>
         /\ \A a \in advanced' : a.stage # "CANCELLED" =>
               [role |-> Needs(a.stage), user |-> a.by] \in authority'
         /\ \A p \in Personas : sections'[p] # None =>
               [role |-> p, user |-> sections'[p].by] \in authority'
  BY DEF WorkAuthorised
<1> HIDE DEF Needs
<1>1. CASE WriteStatus(s)
  <2>1. /\ Done1(req[s].target) /\ UNCHANGED sections /\ req[s].at = "status.write"
    BY <1>1 DEF WriteStatus, At
  <2>2. req[s].target # "CANCELLED"
           => Authorised(req[s], RequiredRoleForTransition(req[s].target))
    BY <2>1, <1>w DEF Allowed
  <2> QED
    BY <2>1, <2>2, <1>a, <1>c, <1>x DEF Needs
<1>2. CASE WriteFinalized(s)
  <2>1. /\ Done1("FINALIZED") /\ UNCHANGED sections /\ req[s].at = "finalize.write"
    BY <1>2 DEF WriteFinalized, At
  <2>2. Authorised(req[s], RequiredRoleForTransition("FINALIZED"))
    BY <2>1, <1>w DEF Allowed, RequiredRoleForTransition
  <2> QED
    BY <2>1, <2>2, <1>a, <1>c, <1>x DEF Needs
<1>3. CASE WriteDownloaded(s)
  <2>1. /\ Done1("CONTRACT_DOWNLOADED") /\ UNCHANGED sections
        /\ req[s].at = "receipt.write"
    BY <1>3 DEF WriteDownloaded, At
  <2>2. Authorised(req[s], RequiredRoleForTransition("CONTRACT_DOWNLOADED"))
    BY <2>1, <1>w DEF Allowed, RequiredRoleForTransition
  <2> QED
    BY <2>1, <2>2, <1>a, <1>c, <1>x DEF Needs
<1>4. CASE InsertSection(s)
  <2>1. /\ UNCHANGED advanced /\ req[s].at = "section.insert"
        /\ sections' = [sections EXCEPT ![req[s].role] =
                           [by |-> req[s].user, key |-> req[s].draft.env]]
    BY <1>4 DEF InsertSection, At
  <2>2. Authorised(req[s], req[s].role)
    BY <2>1, <1>w DEF Allowed
  <2>3. sections \in [Personas -> [by : Users, key : Nat] \cup {None}]
    BY DEF StageInv, TypeOK
  <2>4. \A p \in Personas : sections'[p] # None =>
           [role |-> p, user |-> sections'[p].by] \in authority'
    BY <2>1, <2>2, <2>3, <1>i, <1>k DEF WorkAuthorised, Authorised
  <2> QED
    BY <2>1, <2>4, <1>b, <1>x DEF Needs
<1>5. CASE \/ AppendTrail(s) \/ ReadAttestation(s) \/ InsertKey(s)
           \/ InsertAssignment(s) \/ DeleteAssignments(s)
  <2>1. UNCHANGED <<advanced, sections>>
    BY <1>5 DEF AppendTrail, ReadAttestation, InsertKey, InsertAssignment,
       DeleteAssignments
  <2> QED
    BY <2>1, <1>b, <1>c, <1>x DEF Needs
<1> QED
  BY <1>1, <1>2, <1>3, <1>4, <1>5 DEF Write

LEMMA AssignedStep ==
    ASSUME StageInv, RecordInv, NEW s \in Slots, Write(s)
    PROVE  \A p \in Personas : assigned'[p] # None =>
              [role |-> p, user |-> assigned'[p]] \in authority'
<1>i. \A p \in Personas : assigned[p] # None =>
         [role |-> p, user |-> assigned[p]] \in authority
  BY DEF RecordInv
<1>t. assigned \in [Personas -> Users \cup {None}]
  BY DEF StageInv, TypeOK
<1>1. CASE InsertAssignment(s)
  BY <1>1, <1>i, <1>t DEF InsertAssignment
<1>2. CASE DeleteAssignments(s)
  BY <1>2 DEF DeleteAssignments
<1>3. CASE \/ WriteStatus(s) \/ AppendTrail(s) \/ ReadAttestation(s)
           \/ WriteFinalized(s) \/ InsertSection(s) \/ InsertKey(s)
           \/ WriteDownloaded(s)
  <2>1. UNCHANGED <<assigned, authority>>
    BY <1>3 DEF WriteStatus, AppendTrail, ReadAttestation, WriteFinalized,
       InsertSection, InsertKey, WriteDownloaded
  <2> QED
    BY <2>1, <1>i
<1> QED
  BY <1>1, <1>2, <1>3 DEF Write

LEMMA SectionsStep ==
    ASSUME StageInv, RecordInv, Kept, NEW s \in Slots, Write(s)
    PROVE  SectionsFollowStages'
<1> DEFINE At1(p) == RequiredBuildStatus(p)
<1>x. /\ SectionsFollowStages' <=>
            \A p \in Personas : sections'[p] # None => At1(p) \cap Reached' # {}
      /\ SectionsFollowStages <=>
            \A p \in Personas : sections[p] # None => At1(p) \cap Reached # {}
  BY DEF SectionsFollowStages, RequiredBuildStatus, Stages, ValidTransitions
<1>w. /\ req[s] # None /\ req[s] \in Request
      /\ req[s].at = "section.insert" => At1(req[s].role) \cap Reached # {}
  BY Writer DEF Placed
<1>i. SectionsFollowStages /\ Reached \subseteq Reached'
  BY DEF RecordInv, Kept
<1> HIDE DEF At1
<1>1. CASE InsertSection(s)
  <2>1. /\ req[s].at = "section.insert"
        /\ sections' = [sections EXCEPT ![req[s].role] =
                           [by |-> req[s].user, key |-> req[s].draft.env]]
    BY <1>1 DEF InsertSection, At
  <2>2. sections \in [Personas -> [by : Users, key : Nat] \cup {None}]
    BY DEF StageInv, TypeOK
  <2> QED
    BY <2>1, <2>2, <1>i, <1>w, <1>x
<1>2. CASE \/ WriteStatus(s) \/ AppendTrail(s) \/ ReadAttestation(s)
           \/ WriteFinalized(s) \/ InsertKey(s) \/ WriteDownloaded(s)
           \/ InsertAssignment(s) \/ DeleteAssignments(s)
  <2>1. UNCHANGED sections
    BY <1>2 DEF WriteStatus, AppendTrail, ReadAttestation, WriteFinalized, InsertKey,
       WriteDownloaded, InsertAssignment, DeleteAssignments
  <2> QED
    BY <2>1, <1>i, <1>x
<1> QED
  BY <1>1, <1>2 DEF Write

LEMMA TrailStep ==
    ASSUME StageInv, RecordInv, Kept, NEW s \in Slots, Write(s)
    PROVE  TrailTellsTheTruth'
<1> DEFINE True1(e) ==
              /\ e.type \in (Stages \ {"CONTRACT_DOWNLOADED"}) \cup {"CANCELLED"} =>
                    [stage |-> e.type, by |-> e.by] \in advanced'
              /\ e.type = "CONTRACT_DOWNLOADED" =>
                    "FINALIZED" \in Reached' /\ contract' # None
<1>x. (\A i \in DOMAIN events' : True1(events'[i])) => TrailTellsTheTruth'
  BY DEF TrailTellsTheTruth, Stages, ValidTransitions
<1>k. /\ advanced \subseteq advanced' /\ Reached \subseteq Reached'
      /\ contract # None => contract' # None
  BY DEF Kept
<1>i. \A i \in DOMAIN events : True1(events[i])
  BY <1>k DEF RecordInv, TrailTellsTheTruth
<1>1. CASE AppendTrail(s)
  <2> DEFINE e == Event(req[s].target, req[s].user, req[s].draft)
  <2>1. /\ req[s].at = "trail.append" /\ events' = Append(events, e)
    BY <1>1 DEF AppendTrail, At
  <2>2. Knows(req[s]) /\ Happened(req[s]) /\ req[s] # None
    BY Writer
  <2>3. e.type = req[s].target /\ e.by = req[s].user
    BY DEF Event
  <2> HIDE DEF e
  <2>4. True1(e)
    BY <2>1, <2>2, <2>3, <1>k DEF Knows, Happened, Receipting
  <2>5. events \in Seq([type : EventTypes, by : Users, contract : Contracts])
    BY DEF StageInv, TypeOK
  <2> HIDE DEF True1
  <2>6. \A i \in DOMAIN events' : \/ i \in DOMAIN events /\ events'[i] = events[i]
                                 \/ events'[i] = e
    BY <2>1, <2>5
  <2>7. \A i \in DOMAIN events' : True1(events'[i])
    <3> TAKE i \in DOMAIN events'
    <3> QED
      BY <2>4, <2>6, <1>i
  <2> QED
    BY <2>7, <1>x
<1>2. CASE \/ WriteStatus(s) \/ ReadAttestation(s) \/ WriteFinalized(s)
           \/ InsertSection(s) \/ InsertKey(s) \/ WriteDownloaded(s)
           \/ InsertAssignment(s) \/ DeleteAssignments(s)
  <2>1. UNCHANGED events
    BY <1>2 DEF WriteStatus, ReadAttestation, WriteFinalized, InsertSection, InsertKey,
       WriteDownloaded, InsertAssignment, DeleteAssignments
  <2> HIDE DEF True1
  <2> QED
    BY <2>1, <1>i, <1>x
<1> QED
  BY <1>1, <1>2 DEF Write

LEMMA ContractStep ==
    ASSUME StageInv, RecordInv, Kept, NEW s \in Slots, Write(s)
    PROVE  ContractWhole'
<1>t. TypeOK
  BY DEF StageInv
<1>x. (contract' # None =>
         /\ "FINALIZED" \in Reached'
         /\ contract'.made = "backend" => Whole(contract)') => ContractWhole'
  BY DEF ContractWhole, Whole
<1>i. /\ Reached \subseteq Reached'
      /\ contract # None =>
            /\ "FINALIZED" \in Reached
            /\ contract.made = "backend" => Whole(contract)
  BY DEF RecordInv, Kept, ContractWhole, Whole
<1>1. CASE WriteFinalized(s)
  <2>1. /\ contract' = req[s].draft /\ req[s].at = "finalize.write"
        /\ Reached' = Reached \cup {"FINALIZED"}
    BY <1>1, ReachedAdds DEF WriteFinalized, At
  <2>2. req[s].draft.made = "backend" => Whole(req[s].draft)
    BY <2>1, Writer DEF Gathered
  <2>3. Whole(req[s].draft) => Whole(contract)'
    BY <2>1, <1>t, WholeStays DEF Whole
  <2> QED
    BY <2>1, <2>2, <2>3, <1>x
<1>2. CASE \/ WriteStatus(s) \/ AppendTrail(s) \/ ReadAttestation(s)
           \/ InsertSection(s) \/ InsertKey(s) \/ WriteDownloaded(s)
           \/ InsertAssignment(s) \/ DeleteAssignments(s)
  <2>1. UNCHANGED contract
    BY <1>2 DEF WriteStatus, AppendTrail, ReadAttestation, InsertSection, InsertKey,
       WriteDownloaded, InsertAssignment, DeleteAssignments
  <2>2. Whole(contract) => Whole(contract)'
    BY <2>1, <1>t, WholeStays DEF Whole
  <2> QED
    BY <2>1, <2>2, <1>i, <1>x
<1> QED
  BY <1>1, <1>2 DEF Write

LEMMA RecordStep ==
    ASSUME StageInv, RecordInv, [Next]_vars
    PROVE  RecordInv'
<1>t. TypeOK /\ Kept
  BY Keeping DEF StageInv
<1>h. \A s \in Slots : Has(req[s])
  BY DEF RecordInv
<1>o. ASSUME NEW s \in Slots, Has(req[s])', \A t \in Slots \ {s} : req'[t] = req[t]
      PROVE  \A t \in Slots : Has(req[t])'
  BY <1>o, <1>t, <1>h, OthersHave
<1>u. ASSUME UNCHANGED <<contract, sections, keys, assigned, events, advanced, authority>>
      PROVE  (\A s \in Slots : Has(req[s])') => RecordInv'
  BY <1>u DEF RecordInv, WorkAuthorised, SectionsFollowStages, TrailTellsTheTruth,
     ContractWhole, Reached, Signing, Attesting
<1>1. ASSUME NEW s \in Slots, NEW u \in Users, Begin(s, u)
      PROVE  RecordInv'
  <2>1. PICK r \in Request : Accept(s, r) /\ Fits(r)
    BY <1>1, <1>t, BeginFits
  <2>2. req'[s] = r /\ \A t \in Slots \ {s} : req'[t] = req[t]
    BY <2>1, <1>t DEF Accept, TypeOK
  <2>3. Has(req[s])'
    BY <2>1, <2>2 DEF Fits, Has, Allowed, Placed, Aimed, Here, Happened,
       Receipting, Gathered
  <2> QED
    BY <2>1, <2>2, <2>3, <1>o, <1>u DEF Accept, store
<1>2. ASSUME NEW s \in Slots, Read(s)
      PROVE  RecordInv'
  BY <1>2, <1>t, <1>o, <1>u, ReadHas, ReadAlone, ReadKeeps DEF store
<1>3. ASSUME NEW s \in Slots, Write(s)
      PROVE  RecordInv'
  <2>1. \A t \in Slots : Has(req[t])'
    BY <1>3, <1>t, <1>o, WriteHas, WriteMoves
  <2> QED
    BY <2>1, <1>3, <1>t, AssignedStep, WorkStep, SectionsStep, TrailStep, ContractStep
       DEF RecordInv
<1>4. ASSUME NEW s \in Slots, Stop(s)
      PROVE  RecordInv'
  <2>1. req'[s] = None /\ \A t \in Slots \ {s} : req'[t] = req[t]
    BY <1>4, <1>t, DoneMoves DEF Stop
  <2> QED
    BY <2>1, <1>4, <1>o, <1>u DEF Has, Stop, store
<1>5. ASSUME NEW u \in Users, RemoveRoles(u) \/ AssignRole(u)
      PROVE  RecordInv'
  <2>1. \A s \in Slots : Has(req[s])'
    BY <1>5, <1>t, <1>h, OthersHave DEF RemoveRoles, AssignRole
  <2> QED
    BY <2>1, <1>5, <1>u DEF RemoveRoles, AssignRole
<1>6. CASE UNCHANGED vars
  <2>1. \A s \in Slots : Has(req[s])'
    BY <1>6, <1>t, <1>h, OthersHave DEF vars
  <2> QED
    BY <2>1, <1>6, <1>u DEF vars, store
<1> QED
  BY <1>1, <1>2, <1>3, <1>4, <1>5, <1>6 DEF Next

-----------------------------------------------------------------------------
(* The beginning.                                                          *)

LEMMA RecordInit ==
    ASSUME Init
    PROVE  RecordInv
<1>s. InitialStage \in 0 .. 4
  BY StageAssumption
<1>a. ASSUME NEW p \in Personas, InitialAssignment[p] # None
      PROVE  /\ InitialAssignment[p] \in Users
             /\ [role |-> p, user |-> InitialAssignment[p]] \in authority
  <2>1. InitialAssignment[p] \in Users
    BY <1>a, AssignmentAssumption
  <2> QED
    BY <2>1 DEF Init
<1>c. ASSUME NEW t \in Stages, InitialStage > 0
      PROVE  [role |-> RequiredRoleForTransition(t), user |-> Completer(t)] \in authority
  <2>1. RequiredRoleForTransition(t) \in Personas
    BY DEF RequiredRoleForTransition, Personas
  <2>2. Completer(t) \in Users
    BY <1>c, CompleterType
  <2> QED
    BY <2>1, <2>2 DEF Init, Completer
<1>1. \A p \in Personas : assigned[p] # None =>
         [role |-> p, user |-> assigned[p]] \in authority
  BY <1>a DEF Init
<1>d. ASSUME NEW p \in Personas, sections[p] # None
      PROVE  /\ sections[p].by = InitialAssignment[p]
             /\ \/ p = "SOLUTION_PROVIDER" /\ InitialStage >= 2
                \/ p = "DATA_OWNER" /\ InitialStage >= 3
  BY <1>d, <1>s DEF Init, InitialSection
<1>2. WorkAuthorised
  <2> DEFINE Needs(st) == RequiredRoleForTransition(st)
  <2>1. ASSUME NEW a \in advanced
        PROVE  [role |-> Needs(a.stage), user |-> a.by] \in authority
    <3>1. PICK i \in 1 .. InitialStage :
             a = [stage |-> Order[i], by |-> Completer(Order[i])]
      BY DEF Init
    <3>2. InitialStage > 0 /\ Order[i] \in Stages
      BY <1>s, OrderStages
    <3>3. a.stage = Order[i] /\ a.by = Completer(Order[i])
      BY <3>1
    <3> QED
      BY <3>2, <3>3, <1>c
  <2>2. ASSUME NEW p \in Personas, sections[p] # None
        PROVE  [role |-> p, user |-> sections[p].by] \in authority
    <3>1. InitialAssignment[p] \in Users
      BY <2>2, <1>d, <1>s, StageAssumption
    <3> QED
      BY <2>2, <3>1, <1>d DEF Init
  <2> QED
    BY <2>1, <2>2 DEF WorkAuthorised
<1>r. ASSUME NEW i \in 1 .. InitialStage
      PROVE  /\ [stage |-> Order[i], by |-> Completer(Order[i])] \in advanced
             /\ Order[i] \in Reached
  <2> DEFINE a == [stage |-> Order[i], by |-> Completer(Order[i])]
  <2>1. a \in advanced /\ a.stage = Order[i]
    BY DEF Init
  <2> HIDE DEF a
  <2>2. Order[i] \in Reached
    BY <2>1 DEF Reached
  <2> QED
    BY <2>1, <2>2 DEF a
<1>3. SectionsFollowStages
  <2>1. ASSUME NEW p \in Personas, sections[p] # None
        PROVE  RequiredBuildStatus(p) \cap Reached # {}
    <3>1. CASE p = "SOLUTION_PROVIDER"
      <4>1. 1 \in 1 .. InitialStage
        BY <2>1, <3>1, <1>d, <1>s
      <4>2. Order[1] \in Reached
        BY <4>1, <1>r
      <4> QED
        BY <3>1, <4>2, OrderStages DEF RequiredBuildStatus
    <3>2. CASE p = "DATA_OWNER"
      <4>1. 2 \in 1 .. InitialStage
        BY <2>1, <3>2, <1>d, <1>s
      <4>2. Order[2] \in Reached
        BY <4>1, <1>r
      <4> QED
        BY <3>2, <4>2, OrderStages DEF RequiredBuildStatus
    <3> QED
      BY <2>1, <3>1, <3>2, <1>d
  <2> QED
    BY <2>1 DEF SectionsFollowStages
<1>4. TrailTellsTheTruth
  <2>1. ASSUME NEW i \in DOMAIN events
        PROVE  \/ events[i].type \in {"CREATED", "ROLE_ASSIGNED"}
               \/ \E j \in 1 .. InitialStage :
                     events[i].type = Order[j] /\ events[i].by = Completer(Order[j])
    <3>1. i \in 1 .. 1 + StaffSize + InitialStage /\ events[i] = InitialTrail[i]
      <4>1. events = <<>> \/ events = InitialTrail
        BY DEF Init
      <4>2. DOMAIN InitialTrail = 1 .. 1 + StaffSize + InitialStage
        BY DEF InitialTrail
      <4>3. events = InitialTrail
        BY <2>1, <4>1
      <4> QED
        BY <2>1, <4>2, <4>3
    <3>2. CASE i <= 1 + StaffSize
      <4>1. \/ InitialTrail[i] = Event("CREATED", Founder, NoDraft)
            \/ InitialTrail[i] = Event("ROLE_ASSIGNED", Founder, NoDraft)
        BY <3>1, <3>2 DEF InitialTrail
      <4> QED
        BY <3>1, <4>1 DEF Event
    <3>3. CASE ~(i <= 1 + StaffSize)
      <4> DEFINE j == i - 1 - StaffSize
      <4>1. j \in 1 .. InitialStage /\ i # 1
        BY <3>1, <3>3, StaffSizeType, <1>s
      <4>2. InitialTrail[i] = Event(Order[j], Completer(Order[j]), NoDraft)
        BY <3>1, <3>3, <4>1 DEF InitialTrail
      <4> HIDE DEF j
      <4> QED
        BY <3>1, <4>1, <4>2 DEF Event
    <3> QED
      BY <3>2, <3>3
  <2>2. \A j \in 1 .. InitialStage : Order[j] # "CONTRACT_DOWNLOADED"
    BY <1>s, OrderStages
  <2>3. /\ "CREATED" \notin Stages \cup {"CANCELLED"}
        /\ "ROLE_ASSIGNED" \notin Stages \cup {"CANCELLED"}
    BY DEF Stages, ValidTransitions
  <2> QED
    BY <2>1, <2>2, <2>3, <1>r DEF TrailTellsTheTruth
<1>5. ContractWhole
  BY DEF Init, ContractWhole
<1>6. ASSUME NEW s \in Slots
      PROVE  Has(req[s])
  <2>1. Has(None)
    BY DEF Has
  <2>2. ASSUME NEW u
        PROVE  Has(Creation(u))
    <3> DEFINE r == Creation(u)
    <3>1. r.at = "trail.read" /\ r.next = "status.read" /\ r.target = "CREATED"
      BY DEF Creation, New
    <3> HIDE DEF r
    <3>2. "CREATED" \notin Stages
      BY DEF Stages, ValidTransitions
    <3>3. Allowed(r) /\ Placed(r) /\ Aimed(r) /\ Happened(r) /\ Gathered(r)
      BY <3>1, <3>2 DEF Allowed, Placed, Aimed, Here, Happened, Receipting, Gathered
    <3> QED
      BY <3>3 DEF Has, r
  <2>3. req[s] = None \/ \E u \in Users : req[s] = Creation(u)
    BY DEF Init
  <2> QED
    BY <2>1, <2>2, <2>3
<1> QED
  BY <1>1, <1>2, <1>3, <1>4, <1>5, <1>6 DEF RecordInv

-----------------------------------------------------------------------------
THEOREM RecordInvariant == Spec => []RecordInv
<1>1. Init => RecordInv
  BY RecordInit
<1>2. StageInv /\ RecordInv /\ [Next]_vars => RecordInv'
  BY RecordStep
<1> QED
  BY <1>1, <1>2, StageInvariant, PTL DEF Spec

(* Whoever set a stage or submitted a section had been assigned to the     *)
(* role it takes, however many requests, assignments and removals overlap. *)
THEOREM WorkAuthorisedAlways == Spec => []WorkAuthorised
<1>1. RecordInv => WorkAuthorised
  BY DEF RecordInv
<1> QED
  BY <1>1, RecordInvariant, PTL

(* No section gets into a build before the stage it waits for.             *)
THEOREM SectionsFollowStagesAlways == Spec => []SectionsFollowStages
<1>1. RecordInv => SectionsFollowStages
  BY DEF RecordInv
<1> QED
  BY <1>1, RecordInvariant, PTL

(* No event is in the trail before what it reports, by whom it says.       *)
THEOREM TrailTellsTheTruthAlways == Spec => []TrailTellsTheTruth
<1>1. RecordInv => TrailTellsTheTruth
  BY DEF RecordInv
<1> QED
  BY <1>1, RecordInvariant, PTL

(* A contract the server made holds what is stored, though its parts were  *)
(* read one by one while others wrote: sections and keys are never         *)
(* replaced, and a later key only hides an earlier one.                    *)
THEOREM ContractWholeAlways == Spec => []ContractWhole
<1>1. RecordInv => ContractWhole
  BY DEF RecordInv
<1> QED
  BY <1>1, RecordInvariant, PTL

-----------------------------------------------------------------------------
(* What clients are told.  POST /attestation answers in stages that do not *)
(* imply the one it reports, but never before the signing key's.           *)

Recorded(t) == t \in Reached /\ \E i \in DOMAIN events : events[i].type = t

ToldStages == told \cap (Stages \cup {"CANCELLED"})

SuccessInv ==
    \A t \in ToldStages : \/ Recorded(t)
                          \/ /\ t = "ATTESTATION_KEY_REGISTERED"
                             /\ "attestation" \in Ops
                             /\ "SIGNING_KEY_REGISTERED" \in Reached

LEMMA SuccessStep ==
    ASSUME StageInv, RecordInv, ReceiptInv, SuccessInv, [Next]_vars
    PROVE  SuccessInv'
<1>t. TypeOK
  BY DEF StageInv
<1>g. Reached \subseteq Reached'
  BY <1>t, ReachedGrows
<1> DEFINE InTrail(t) == \E i \in DOMAIN events : events[i].type = t
           Later(t) == \E i \in DOMAIN events' : events'[i].type = t
           Early(t) == t = "ATTESTATION_KEY_REGISTERED" /\ "attestation" \in Ops
<1>x. /\ SuccessInv <=>
            \A t \in told \cap (Stages \cup {"CANCELLED"}) :
                \/ t \in Reached /\ InTrail(t)
                \/ Early(t) /\ "SIGNING_KEY_REGISTERED" \in Reached
      /\ SuccessInv' <=>
            \A t \in told' \cap (Stages \cup {"CANCELLED"}) :
                \/ t \in Reached' /\ Later(t)
                \/ Early(t) /\ "SIGNING_KEY_REGISTERED" \in Reached'
  BY DEF SuccessInv, ToldStages, Recorded, Stages, ValidTransitions
<1> HIDE DEF Early
<1>0. ASSUME UNCHANGED <<events, told>>
      PROVE  SuccessInv'
  BY <1>0, <1>g, <1>x
<1>1. ASSUME NEW s \in Slots, NEW u \in Users, Begin(s, u)
      PROVE  SuccessInv'
  BY <1>0, <1>1, <1>t, BeginAccepts DEF Accept, store
<1>2. ASSUME NEW s \in Slots, Read(s) \/ Stop(s)
      PROVE  SuccessInv'
  BY <1>0, <1>2, ReadKeeps DEF Stop, store
<1>3. ASSUME NEW s \in Slots, AppendTrail(s)
      PROVE  SuccessInv'
  <2> DEFINE e == Event(req[s].target, req[s].user, req[s].draft)
  <2>1. /\ events' = Append(events, e) /\ req[s].at = "trail.append"
        /\ told' \subseteq told \cup {req[s].target}
        /\ req[s].target = "CONTRACT_DOWNLOADED" => told' = told
    BY <1>3 DEF AppendTrail, At
  <2>2. e.type = req[s].target
    BY DEF Event
  <2> HIDE DEF e
  <2>3. events \in Seq([type : EventTypes, by : Users, contract : Contracts])
    BY <1>t DEF TypeOK
  <2>4. /\ Len(events) + 1 \in DOMAIN events' /\ events'[Len(events) + 1] = e
        /\ \A i \in DOMAIN events : i \in DOMAIN events' /\ events'[i] = events[i]
    BY <2>1, <2>3
  <2>5. Later(req[s].target) /\ \A t : InTrail(t) => Later(t)
    BY <2>2, <2>4
  <2>6. ASSUME req[s].target \in (Stages \ {"CONTRACT_DOWNLOADED"}) \cup {"CANCELLED"}
        PROVE  req[s].target \in Reached
    <3> DEFINE a == [stage |-> req[s].target, by |-> req[s].user]
    <3>1. Happened(req[s])
      BY <1>3, Writer DEF Write
    <3>2. a \in advanced /\ a.stage = req[s].target
      BY <2>1, <2>6, <3>1 DEF Happened
    <3> HIDE DEF a
    <3> QED
      BY <3>2 DEF Reached
  <2> HIDE DEF InTrail, Later
  <2>7. ASSUME NEW t \in told' \cap (Stages \cup {"CANCELLED"})
        PROVE  \/ t \in Reached' /\ Later(t)
               \/ Early(t) /\ "SIGNING_KEY_REGISTERED" \in Reached'
    BY <2>1, <2>5, <2>6, <2>7, <1>g, <1>x
  <2> QED
    BY <2>7, <1>x
<1>4. ASSUME NEW s \in Slots, WriteDownloaded(s)
      PROVE  SuccessInv'
  <2>1. /\ told' = told \cup {"CONTRACT_DOWNLOADED"} /\ UNCHANGED events
        /\ Reached' = Reached \cup {"CONTRACT_DOWNLOADED"}
        /\ At(s, "receipt.write")
    BY <1>4, ReachedAdds DEF WriteDownloaded
  <2>2. InTrail("CONTRACT_DOWNLOADED")
    BY <2>1 DEF ReceiptInv, Receipts
  <2> QED
    BY <2>1, <2>2, <1>x
<1>5. ASSUME NEW s \in Slots, ReadAttestation(s)
      PROVE  SuccessInv'
  <2>1. /\ UNCHANGED events
        /\ \/ /\ told' = told \cup {"ATTESTATION_KEY_REGISTERED"}
              /\ status \in {"SIGNING_KEY_REGISTERED",
                             "ATTESTATION_KEY_REGISTERED",
                             "FINALIZED", "CONTRACT_DOWNLOADED"}
           \/ told' = told
    BY <1>5 DEF ReadAttestation
  <2>2. "attestation" \in Ops
    BY <1>5, Writer DEF Write, Aimed, Here, ReadAttestation, At
  <2>3. ASSUME status \in {"SIGNING_KEY_REGISTERED", "ATTESTATION_KEY_REGISTERED",
                           "FINALIZED", "CONTRACT_DOWNLOADED"}
        PROVE  "SIGNING_KEY_REGISTERED" \in Reached
    BY <2>3 DEF StageInv, NoStageSkipped, ValidTransitions
  <2>4. "SIGNING_KEY_REGISTERED" \in Reached => "SIGNING_KEY_REGISTERED" \in Reached'
    BY <1>g
  <2>5. CASE told' = told
    BY <1>0, <2>1, <2>5
  <2>6. CASE /\ told' = told \cup {"ATTESTATION_KEY_REGISTERED"}
             /\ "SIGNING_KEY_REGISTERED" \in Reached
    <3>1. Early("ATTESTATION_KEY_REGISTERED")
      BY <2>2 DEF Early
    <3> QED
      BY <1>g, <1>x, <2>1, <2>4, <2>6, <3>1
  <2> QED
    BY <2>1, <2>3, <2>5, <2>6
<1>6. ASSUME NEW s \in Slots,
             \/ WriteStatus(s) \/ WriteFinalized(s) \/ InsertSection(s)
             \/ InsertKey(s) \/ InsertAssignment(s) \/ DeleteAssignments(s)
      PROVE  SuccessInv'
  BY <1>0, <1>6 DEF WriteStatus, WriteFinalized, InsertSection, InsertKey,
     InsertAssignment, DeleteAssignments
<1>7. ASSUME NEW u \in Users, RemoveRoles(u) \/ AssignRole(u)
      PROVE  SuccessInv'
  BY <1>0, <1>7 DEF RemoveRoles, AssignRole
<1>8. CASE UNCHANGED vars
  BY <1>0, <1>8 DEF vars, store
<1> QED
  BY <1>1, <1>2, <1>3, <1>4, <1>5, <1>6, <1>7, <1>8 DEF Next, Write

LEMMA SuccessInvariant == Spec => []SuccessInv
<1>1. Init => SuccessInv
  BY DEF Init, SuccessInv, ToldStages
<1>2. Init => ReceiptInv
  BY ReceiptInit
<1>3. StageInv /\ ReceiptInv /\ [Next]_vars => ReceiptInv'
  BY ReceiptStep
<1>4. StageInv /\ RecordInv /\ ReceiptInv /\ SuccessInv /\ [Next]_vars
         => SuccessInv'
  BY SuccessStep
<1> QED
  BY <1>1, <1>2, <1>3, <1>4, StageInvariant, RecordInvariant, PTL DEF Spec

(* Whatever else goes on, what a client was told is so: an answer is sent  *)
(* only after the status and the event are written, and neither is ever    *)
(* taken back.  The one exception is the idempotent answer of POST         *)
(* /attestation, which vouches for no more than the signing key's stage.   *)
THEOREM ToldIsRecorded ==
    Spec => [](\A t \in ToldStages :
                  IF t = "ATTESTATION_KEY_REGISTERED"
                     THEN "SIGNING_KEY_REGISTERED" \in Reached
                     ELSE Recorded(t))
<1>1. StageInv /\ SuccessInv =>
         \A t \in ToldStages : IF t = "ATTESTATION_KEY_REGISTERED"
                                  THEN "SIGNING_KEY_REGISTERED" \in Reached
                                  ELSE Recorded(t)
  <2> SUFFICES ASSUME StageInv, SuccessInv,
                      Recorded("ATTESTATION_KEY_REGISTERED")
               PROVE  "SIGNING_KEY_REGISTERED" \in Reached
    BY DEF SuccessInv
  <2> QED
    BY DEF StageInv, NoStageSkipped, ValidTransitions, Recorded
<1> QED
  BY <1>1, StageInvariant, SuccessInvariant, PTL

(* Where that route is not used, every stage a client was told of is       *)
(* reached and in the trail.                                               *)
THEOREM SuccessIsRecordedAlways ==
    ASSUME "attestation" \notin Ops
    PROVE  Spec => []SuccessIsRecorded
<1>1. SuccessInv => SuccessIsRecorded
  BY DEF SuccessInv, SuccessIsRecorded, ToldStages, Recorded
<1> QED
  BY <1>1, StageInvariant, SuccessInvariant, PTL

-----------------------------------------------------------------------------
(* The end of a build.                                                     *)

(* The way an acknowledgment goes.                                         *)
LEMMA ReceiptMoves ==
    ASSUME TypeOK, NEW s \in Slots, Read(s), req'[s] # None
    PROVE  /\ req'[s].at = "receipt.events" => req'[s].draft = contract
           /\ req'[s].at \in {"receipt.assigned", "trail.read", "trail.append"} =>
                 req'[s].draft = req[s].draft
           /\ req'[s].at = "receipt.assigned" => Receipts = {}
<1>1. CASE RequireBuildAccess(s)
  <2>1. req'[s].at \in Entries
    BY <1>1, GotoKeeps DEF RequireBuildAccess, At, TypeOK, Request
  <2> QED
    BY <2>1 DEF Entries
<1>2. CASE ReadStatus(s)
  BY <1>2, GotoKeeps DEF ReadStatus, At
<1>3. CASE ReadTrail(s)
  BY <1>3 DEF ReadTrail, At, TypeOK, Request
<1>4. CASE ReadSigningKey(s) \/ ReadEnvironmentKey(s) \/ ReadAttestationKey(s)
           \/ ReadSections(s)
  BY <1>4, GotoWithKeeps DEF ReadSigningKey, ReadEnvironmentKey, ReadAttestationKey,
     ReadSections, At
<1>5. CASE ReadDownloadable(s)
  BY <1>5, GotoWithKeeps DEF ReadDownloadable, At
<1>6. CASE ReadKeyStatus(s)
  <2>1. Goto(s, "status.read") /\ req[s] # None
    BY <1>6, DoneMoves DEF ReadKeyStatus, At
  <2> QED
    BY <2>1, GotoKeeps
<1>7. CASE \/ CheckTransitionAssignment(s) \/ ReadFinalizable(s)
           \/ CheckFinalizeAssignment(s) \/ CheckContractRole(s)
           \/ CheckContractAssignment(s)
  BY <1>7, GotoKeeps DEF Check, At, CheckTransitionAssignment, ReadFinalizable,
     CheckFinalizeAssignment, CheckContractRole, CheckContractAssignment
<1>8. CASE \/ CheckSectionRole(s) \/ CheckSectionAssignment(s)
           \/ CheckSectionStatus(s) \/ CheckNoSection(s)
           \/ CheckKeyRole(s) \/ CheckKeyAssignment(s)
  BY <1>8, GotoKeeps DEF Check, At, CheckSectionRole, CheckSectionAssignment,
     CheckSectionStatus, CheckNoSection, CheckKeyRole, CheckKeyAssignment
<1>9. CASE \/ CheckNoReceipt(s) \/ CheckOperator(s) \/ ReadAssignable(s)
           \/ CheckAssigneeRole(s) \/ CheckNotAssigned(s) \/ ReadUnassignable(s)
  BY <1>9, GotoKeeps DEF Check, At, CheckNoReceipt, CheckOperator, ReadAssignable,
     CheckAssigneeRole, CheckNotAssigned, ReadUnassignable
<1> QED
  BY <1>1, <1>2, <1>3, <1>4, <1>5, <1>6, <1>7, <1>8, <1>9 DEF Read

(* A request that has passed the check of the status and has yet to write: *)
(* one that will record a receipt, or set the status.                      *)
Moving(r) ==
    \/ r.at \in {"status.assigned", "status.write", "finalize.assigned",
                 "finalize.write", "receipt.assigned", "receipt.write"}
    \/ Receipting(r)
    \/ r.at = "receipt.events" /\ Receipts = {}

(* Nothing leads on from here: the build is cancelled, or its download is  *)
(* acknowledged; it was set to FINALIZED by PATCH /status, which stores no *)
(* contract; or its receipt is in the trail and the status that should     *)
(* have come after it is not.                                              *)
DeadEnd ==
    /\ \/ status \in {"CANCELLED", "CONTRACT_DOWNLOADED"}
       \/ status = "FINALIZED" /\ (contract = None \/ Receipts # {})
    /\ \A s \in Slots : req[s] # None => ~Moving(req[s])

LEMMA DeadEndRead ==
    ASSUME StageInv, RecordInv, DeadEnd, NEW s \in Slots, Read(s), req'[s] # None
    PROVE  ~Moving(req'[s])
<1>t. TypeOK
  BY DEF StageInv
<1>u. UNCHANGED <<status, contract, events, Receipts>>
  BY ReadKeeps DEF store, Receipts
<1>r. /\ req[s] # None /\ ~Moving(req[s]) /\ req'[s].target = req[s].target
  BY <1>t, ReadMoves DEF DeadEnd
<1>1. req'[s].at \notin {"status.assigned", "status.write"}
  <2>1. req[s].target = "CONTRACT_DOWNLOADED" => req'[s].at \in Receiving
    BY <1>r, <1>t, ReadMoves DEF StageInv, Knows
  <2>2. ~CanTransitionTo(status, req[s].target)
           \/ req[s].target = "CONTRACT_DOWNLOADED"
    BY DEF DeadEnd, CanTransitionTo, ValidTransitions, Terminal
  <2> QED
    BY <1>r, <1>t, <2>1, <2>2, ReadMoves DEF Moving, Receiving
<1>2. req'[s].at \notin {"finalize.assigned", "finalize.write"}
  BY <1>r, <1>t, ReadMoves DEF Moving, DeadEnd, CanTransitionTo, ValidTransitions,
     Terminal
<1>3. req'[s].at # "receipt.write" /\ ~Receipting(req'[s])
  BY <1>r, <1>t, ReadMoves DEF Moving, Receipting
<1>4. req'[s].at # "receipt.assigned"
  BY <1>r, <1>t, ReadMoves, ReceiptMoves DEF Moving
<1>5. ~(req'[s].at = "receipt.events" /\ Receipts = {})
  <2>1. ASSUME req'[s].at = "receipt.events"
        PROVE  status = "FINALIZED" /\ contract # None
    BY <2>1, <1>t, <1>u, ReadMoves, ReadHas DEF Has, Happened
  <2> QED
    BY <2>1 DEF DeadEnd
<1> QED
  BY <1>u, <1>1, <1>2, <1>3, <1>4, <1>5 DEF Moving

LEMMA DeadEndStep ==
    ASSUME StageInv, RecordInv, DeadEnd, [Next]_vars
    PROVE  DeadEnd' /\ UNCHANGED <<status, contract>>
<1>t. TypeOK
  BY DEF StageInv
<1>g. Receipts # {} => Receipts' # {}
  BY <1>t, ReceiptStays
<1>1. ASSUME NEW s \in Slots, \A t \in Slots \ {s} : req'[t] = req[t],
             req'[s] # None => ~(Moving(req[s])'),
             UNCHANGED <<status, contract>>
      PROVE  DeadEnd'
  <2>1. ASSUME NEW t \in Slots \ {s}, req'[t] # None
        PROVE  ~(Moving(req[t])')
    BY <1>1, <2>1, <1>g DEF DeadEnd, Moving, Receipting
  <2> QED
    BY <1>1, <1>g, <2>1 DEF DeadEnd
<1>2. ASSUME UNCHANGED <<status, contract, req>>
      PROVE  DeadEnd'
  BY <1>2, <1>g DEF DeadEnd, Moving, Receipting
<1>3. ASSUME NEW s \in Slots, NEW u \in Users, Begin(s, u)
      PROVE  DeadEnd' /\ UNCHANGED <<status, contract>>
  <2>1. PICK r \in Request : Accept(s, r) /\ r.at = "access"
    BY <1>3, <1>t, BeginAccepts
  <2>2. /\ req'[s] = r /\ UNCHANGED <<status, contract>>
        /\ \A t \in Slots \ {s} : req'[t] = req[t]
    BY <2>1, <1>t DEF Accept, TypeOK, store
  <2>3. ~(Moving(req[s])')
    BY <2>1, <2>2 DEF Moving, Receipting
  <2> QED
    BY <2>2, <2>3, <1>1
<1>4. ASSUME NEW s \in Slots, Read(s)
      PROVE  DeadEnd' /\ UNCHANGED <<status, contract>>
  <2>1. UNCHANGED <<status, contract, Receipts>>
    BY <1>4, ReadKeeps DEF store, Receipts
  <2>2. req'[s] # None => ~(Moving(req[s])')
    BY <1>4, <2>1, DeadEndRead DEF Moving, Receipting
  <2> QED
    BY <1>1, <1>4, <1>t, <2>1, <2>2, ReadAlone
<1>5. ASSUME NEW s \in Slots, Stop(s)
      PROVE  DeadEnd' /\ UNCHANGED <<status, contract>>
  BY <1>1, <1>5, <1>t, DoneMoves DEF Stop, store
<1>6. ASSUME NEW s \in Slots,
             \/ AppendTrail(s) \/ ReadAttestation(s) \/ InsertSection(s)
             \/ InsertKey(s) \/ InsertAssignment(s) \/ DeleteAssignments(s)
      PROVE  DeadEnd' /\ UNCHANGED <<status, contract>>
  <2>1. /\ UNCHANGED <<status, contract>>
        /\ req[s].at \in {"trail.append", "attestation.read", "section.insert",
                          "key.insert", "assign.insert", "unassign.delete"}
    BY <1>6 DEF AppendTrail, ReadAttestation, InsertSection, InsertKey,
       InsertAssignment, DeleteAssignments, At
  <2>2. req[s] # None /\ ~Moving(req[s]) /\ Knows(req[s]) /\ Write(s)
    BY <1>6, Writer DEF DeadEnd, Write
  <2>3. req[s].target # "CONTRACT_DOWNLOADED"
    BY <2>1, <2>2 DEF Moving, Receipting, Knows, Receiving
  <2>4. req'[s] # None => ~(Moving(req[s])')
    BY <2>1, <2>2, <2>3, <1>t, WriteMoves DEF Moving, Receipting
  <2> QED
    BY <1>1, <1>t, <2>1, <2>2, <2>4, WriteMoves
<1>7. ASSUME NEW s \in Slots,
             WriteStatus(s) \/ WriteFinalized(s) \/ WriteDownloaded(s)
      PROVE  FALSE
  BY <1>7 DEF WriteStatus, WriteFinalized, WriteDownloaded, At, DeadEnd, Moving
<1>8. ASSUME NEW u \in Users, RemoveRoles(u) \/ AssignRole(u)
      PROVE  DeadEnd' /\ UNCHANGED <<status, contract>>
  BY <1>2, <1>8 DEF RemoveRoles, AssignRole
<1>9. CASE UNCHANGED vars
  BY <1>2, <1>9 DEF vars, store
<1> QED
  BY <1>3, <1>4, <1>5, <1>6, <1>7, <1>8, <1>9 DEF Next, Write

(* Such a build keeps its status and its contract, or the lack of one, for *)
(* ever: it can be neither cancelled nor finalized again, and the retry of *)
(* an acknowledgment whose receipt got through is refused.                 *)
THEOREM DeadEndForGood ==
    Spec => [](DeadEnd => []DeadEnd /\ [][UNCHANGED <<status, contract>>]_vars)
<1>1. StageInv /\ RecordInv /\ DeadEnd /\ [Next]_vars
         => DeadEnd' /\ [UNCHANGED <<status, contract>>]_vars
  BY DeadEndStep
<1> QED
  BY <1>1, StageInvariant, RecordInvariant, PTL DEF Spec
=============================================================================
