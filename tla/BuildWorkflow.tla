--------------------------- MODULE BuildWorkflow ---------------------------
(***************************************************************************)
(* The requests that move one build from CREATED to CONTRACT_DOWNLOADED,   *)
(* as internal/service executes them: each is a sequence of autocommitted  *)
(* queries with no transaction or lock around them, so requests interleave *)
(* query by query, and each acts on what it read earlier.                  *)
(*                                                                         *)
(* A request occupies a slot.  Its record holds its program counter "at"   *)
(* and the local variables of the handler; every action below is one query *)
(* and the code up to the next.  The guard of an action is what the code   *)
(* checks before it goes on; a request that fails a check, a query, its    *)
(* deadline or its process ends with Stop, and nothing it wrote is undone. *)
(* LogEvent is taken at two steps, justified by AuditChain: it reads the   *)
(* length of the trail and appends only if the length is still the same.   *)
(*                                                                         *)
(* Left out: the checks of a request's form, and those of its signature,   *)
(* which every route here demands before the handler runs.                 *)
(***************************************************************************)
EXTENDS Naturals, FiniteSets, Sequences

CONSTANTS
    Slots,              \* requests that may be in progress at a time
    Users,
    Uploads,            \* contracts assembled by clients (deprecated v1 flow)
    Ops,                \* the operations this instance exercises
    KeyProvider,        \* "database" (main.go) or "memory" (development)
    InitialRoles,       \* global roles of the users at the start
    InitialAssignment,  \* who has been assigned to each role of the build
    InitialStage,       \* how many stages were completed before the start
    None,               \* NULL, no user, no request
    Grantable,          \* bound: the roles UpdateRoles hands out
    MaxEvents,          \* bound: events in the trail when a request starts
    MaxKeys             \* bound: keys of a type when a registration starts

Personas == {"SOLUTION_PROVIDER", "DATA_OWNER", "AUDITOR", "ENV_OPERATOR"}
Roles == Personas \cup {"ADMIN", "VIEWER"}

ASSUME UploadsAssumption == "backend" \notin Uploads
ASSUME RolesAssumption == InitialRoles \in [Users -> SUBSET Roles]
ASSUME AssignmentAssumption == InitialAssignment \in [Personas -> Users \cup {None}]
ASSUME StageAssumption ==
    /\ InitialStage \in 0 .. 4
    /\ InitialStage > 0 => \A r \in Personas : InitialAssignment[r] \in Users
ASSUME FounderAssumption ==
    \E u \in Users : InitialRoles[u] \cap {"ADMIN", "AUDITOR"} # {}
ASSUME ProviderAssumption == KeyProvider \in {"database", "memory"}
ASSUME BoundsAssumption == Grantable \subseteq Roles /\ {MaxEvents, MaxKeys} \subseteq Nat

VARIABLES
    status,         \* builds.status
    contract,       \* builds.contract_yaml and contract_hash
    sections,       \* build_sections, UNIQUE (build_id, persona_role)
    keys,           \* build_keys by type, in the order of created_at: the modes
    assigned,       \* build_assignments, UNIQUE (build_id, role_id)
    held,           \* user_roles
    events,         \* audit_events of the build
    req,            \* the requests in progress
    advanced,       \* history: each stage the status was set to, and by whom
    authority,      \* history: each assignment there ever was
    told            \* history: the stages clients were told are reached

store == <<status, contract, sections, keys, assigned, held, events,
           advanced, authority, told>>
vars == <<store, req>>

-----------------------------------------------------------------------------
(* The state machine of a build.                                           *)

Terminal == {"FINALIZED", "CONTRACT_DOWNLOADED", "CANCELLED"}

ValidTransitions == {<<"CREATED", "SIGNING_KEY_REGISTERED">>,
                     <<"SIGNING_KEY_REGISTERED", "WORKLOAD_SUBMITTED">>,
                     <<"WORKLOAD_SUBMITTED", "ENVIRONMENT_STAGED">>,
                     <<"ENVIRONMENT_STAGED", "ATTESTATION_KEY_REGISTERED">>,
                     <<"ATTESTATION_KEY_REGISTERED", "FINALIZED">>,
                     <<"FINALIZED", "CONTRACT_DOWNLOADED">>}

(* The stages a key of one or the other type completes.                    *)
KeyStages == {"SIGNING_KEY_REGISTERED", "ATTESTATION_KEY_REGISTERED"}

Stages == {p[2] : p \in ValidTransitions}

\* Faulty variant: any build can be cancelled.
CanAlwaysCancel(s, t) == t = "CANCELLED" \/ <<s, t>> \in ValidTransitions

\* Faulty variant: any other status may follow.
CanJump(s, t) == s \notin Terminal /\ s # t

CanTransitionTo(s, t) == \/ t = "CANCELLED" /\ s \notin Terminal
                         \/ <<s, t>> \in ValidTransitions

RequiredRoleForTransition(t) ==
    CASE t = "WORKLOAD_SUBMITTED"  -> "SOLUTION_PROVIDER"
      [] t = "ENVIRONMENT_STAGED"  -> "DATA_OWNER"
      [] t = "CONTRACT_DOWNLOADED" -> "ENV_OPERATOR"
      [] OTHER                     -> "AUDITOR"

(* mapStatusToEvent: the events are named for the stages they report.      *)
Event(t, u, c) == [type |-> t, by |-> u, contract |-> c]

-----------------------------------------------------------------------------
(* Requests.                                                               *)

Contracts == [made : Uploads \cup {"backend"}, signer : Nat, attester : Nat,
              env : Nat]

ASSUME NoneAssumption == None \notin Users \cup Contracts

NoDraft == [made |-> "backend", signer |-> 0, attester |-> 0, env |-> 0]

Labels == {"access",
           "status.read", "status.assigned", "status.write",
           "trail.read", "trail.append",
           "attestation.read",
           "finalize.read", "finalize.assigned", "finalize.write",
           "contract.roles", "contract.assigned", "contract.signing",
           "contract.attestation", "contract.sections",
           "section.key", "section.roles", "section.assigned",
           "section.status", "section.exists", "section.insert",
           "key.roles", "key.assigned", "key.insert", "key.status",
           "receipt.read", "receipt.events", "receipt.assigned", "receipt.write",
           "assign.read", "assign.roles", "assign.check", "assign.insert",
           "unassign.read", "unassign.delete"}

EventTypes == Stages \cup {"CANCELLED", "CREATED", "ROLE_ASSIGNED"}

(* Where the handler of a route begins.                                    *)
Entries == {"status.read", "attestation.read", "finalize.read", "contract.roles",
            "section.roles", "section.key", "key.roles", "receipt.read",
            "assign.read", "unassign.read"}

Request == [at : Labels, next : Entries, user : Users, roles : SUBSET Roles,
            target : EventTypes, role : Personas, whom : Users,
            mode : {"generate", "upload_public"}, seen : Nat, draft : Contracts]

ASSUME RequestAssumption == None \notin Request

(* A request as the authentication middleware hands it on: the roles are   *)
(* those the user holds now, and are not read again unless a step says so. *)
New(u, first, target) ==
    [at |-> "access", next |-> first, user |-> u, roles |-> held[u],
     target |-> target, role |-> "AUDITOR", whom |-> u, mode |-> "generate",
     seen |-> 0, draft |-> NoDraft]

At(s, label) == req[s] # None /\ req[s].at = label
Goto(s, label) == req' = [req EXCEPT ![s].at = label]
Done(s) == req' = [req EXCEPT ![s] = None]
GotoWith(s, label, draft) ==
    req' = [req EXCEPT ![s] = [@ EXCEPT !.at = label, !.draft = draft]]

Accept(s, r) == /\ req[s] = None
                /\ Len(events) < MaxEvents
                /\ req' = [req EXCEPT ![s] = r]
                /\ UNCHANGED store

(* Layer 1 and layer 2 of the access control, each a query of its own.     *)
HoldsRole(s, role) == role \in held[req[s].user]

\* Faulty variant: it is enough that somebody is assigned.
IsAssignedSomebody(s, role) == assigned[role] # None

IsAssigned(s, role) == assigned[role] = req[s].user

Check(s, here, condition, there) ==
    At(s, here) /\ condition /\ Goto(s, there) /\ UNCHANGED store

-----------------------------------------------------------------------------
(* The routes of cmd/server/main.go.                                       *)

(* PATCH /status: any stage but CONTRACT_DOWNLOADED may be asked for.      *)
PatchStatus(s, u) ==
    /\ "patch" \in Ops
    /\ \E t \in (Stages \ {"CONTRACT_DOWNLOADED"}) \cup {"CANCELLED"} :
          Accept(s, New(u, "status.read", t))

CancelBuild(s, u) ==
    /\ "cancel" \in Ops
    /\ held[u] \cap {"ADMIN", "AUDITOR"} # {}
    /\ Accept(s, New(u, "status.read", "CANCELLED"))

RegisterAttestation(s, u) ==
    /\ "attestation" \in Ops
    /\ "AUDITOR" \in held[u]
    /\ Accept(s, New(u, "attestation.read", "ATTESTATION_KEY_REGISTERED"))

(* The deprecated finalization stores the contract the client assembled.   *)
FinalizeUploaded(s, u) ==
    /\ "finalize" \in Ops
    /\ "AUDITOR" \in held[u]
    /\ \E c \in Uploads :
          Accept(s, [New(u, "finalize.read", "FINALIZED") EXCEPT !.draft.made = c])

FinalizeContract(s, u) ==
    /\ "contract" \in Ops
    /\ "AUDITOR" \in held[u]
    /\ Accept(s, New(u, "contract.roles", "FINALIZED"))

\* Faulty variant: a section of no stage asks for one that does not exist.
CompletesUnknown(role) == CASE role = "SOLUTION_PROVIDER" -> "WORKLOAD_SUBMITTED"
                            [] role = "DATA_OWNER"        -> "ENVIRONMENT_STAGED"
                            [] OTHER                      -> "SECTION_SUBMITTED"

(* roleToNextStatus: the stage a section completes, if it completes one.   *)
Completes(role) == CASE role = "SOLUTION_PROVIDER" -> "WORKLOAD_SUBMITTED"
                     [] role = "DATA_OWNER"        -> "ENVIRONMENT_STAGED"
                     [] OTHER                      -> "CREATED"

(* POST /sections and, for the workload, /v2/sections/workload.            *)
SubmitSection(s, u) ==
    /\ "section" \in Ops
    /\ \E r \in Personas :
          Accept(s, [New(u, "section.roles", Completes(r)) EXCEPT !.role = r])

(* POST /v2/sections/environment puts the signing key into the section.    *)
SubmitEnvironmentSection(s, u) ==
    /\ "environment" \in Ops
    /\ Accept(s, [New(u, "section.key", "ENVIRONMENT_STAGED")
                     EXCEPT !.role = "DATA_OWNER"])

(* "generate" is handled by the provider, which keeps the private key.     *)
RegisterKey(s, u) ==
    /\ "AUDITOR" \in held[u]
    /\ \E t \in KeyStages, m \in {"generate", "upload_public"} :
          /\ Len(keys[t]) < MaxKeys
          /\ t \in Ops
          /\ Accept(s, [New(u, "key.roles", t) EXCEPT !.mode = m])

AcknowledgeDownload(s, u) ==
    /\ "acknowledge" \in Ops
    /\ Accept(s, New(u, "receipt.read", "CONTRACT_DOWNLOADED"))

CreateAssignment(s, u) ==
    /\ "assign" \in Ops
    /\ held[u] \cap {"ADMIN", "AUDITOR"} # {}
    /\ \E r \in Personas, w \in Users :
          Accept(s, [New(u, "assign.read", "ROLE_ASSIGNED")
                        EXCEPT !.role = r, !.whom = w])

DeleteBuildAssignments(s, u) ==
    /\ "unassign" \in Ops
    /\ "ADMIN" \in held[u]
    /\ Accept(s, New(u, "unassign.read", "ROLE_ASSIGNED"))

(* RequireBuildAccess: an ADMIN, or whoever is assigned to the build.      *)
RequireBuildAccess(s) ==
    /\ At(s, "access")
    /\ \/ "ADMIN" \in req[s].roles
       \/ \E r \in Personas : IsAssigned(s, r)
    /\ Goto(s, req[s].next)
    /\ UNCHANGED store

-----------------------------------------------------------------------------
(* TransitionStatus.                                                       *)

(* The status is read and validated, and so are the roles the request came *)
(* with; a cancellation needs neither role nor assignment.                 *)
ReadStatus(s) ==
    /\ At(s, "status.read")
    /\ CanTransitionTo(status, req[s].target)
    /\ \/ /\ req[s].target = "CANCELLED"
          /\ Goto(s, "status.write")
       \/ /\ req[s].target # "CANCELLED"
          /\ RequiredRoleForTransition(req[s].target) \in req[s].roles
          /\ Goto(s, "status.assigned")
    /\ UNCHANGED store

CheckTransitionAssignment(s) ==
    Check(s, "status.assigned",
          IsAssigned(s, RequiredRoleForTransition(req[s].target)),
          "status.write")

(* UPDATE builds SET status = ... WHERE id = ...: whatever it is by now.   *)
WriteStatus(s) ==
    /\ At(s, "status.write")
    /\ status' = req[s].target
    /\ advanced' = advanced \cup {[stage |-> req[s].target, by |-> req[s].user]}
    /\ Goto(s, "trail.read")
    /\ UNCHANGED <<contract, sections, keys, assigned, held, events, authority, told>>

(* LogEvent.  The request is over once its event is stored, but for the    *)
(* acknowledgment of a download, whose status comes after its event.       *)
ReadTrail(s) ==
    /\ At(s, "trail.read")
    /\ req' = [req EXCEPT ![s].at = "trail.append", ![s].seen = Len(events)]
    /\ UNCHANGED store

\* Faulty variant: a lost event is logged and forgotten.
AppendBestEffort(s) ==
    /\ At(s, "trail.append")
    /\ req[s].target # "CONTRACT_DOWNLOADED"
    /\ told' = told \cup {req[s].target}
    /\ Done(s)
    /\ UNCHANGED <<status, contract, sections, keys, assigned, held, events,
                   advanced, authority>>

AppendTrail(s) ==
    /\ At(s, "trail.append")
    /\ req[s].seen = Len(events)
    /\ events' = Append(events, Event(req[s].target, req[s].user, req[s].draft))
    /\ \/ /\ req[s].target = "CONTRACT_DOWNLOADED"
          /\ Goto(s, "receipt.write")
          /\ UNCHANGED told
       \/ /\ req[s].target # "CONTRACT_DOWNLOADED"
          /\ told' = told \cup {req[s].target}
          /\ Done(s)
    /\ UNCHANGED <<status, contract, sections, keys, assigned, held, advanced,
                   authority>>

(* The handler of POST /attestation answers at once in some statuses; in   *)
(* the others, and when its read fails, it goes through TransitionStatus.  *)
ReadAttestation(s) ==
    /\ At(s, "attestation.read")
    /\ \/ /\ status \in {"SIGNING_KEY_REGISTERED", "ATTESTATION_KEY_REGISTERED",
                         "FINALIZED", "CONTRACT_DOWNLOADED"}
          /\ told' = told \cup {"ATTESTATION_KEY_REGISTERED"}
          /\ Done(s)
       \/ /\ Goto(s, "status.read")
          /\ UNCHANGED told
    /\ UNCHANGED <<status, contract, sections, keys, assigned, held, events,
                   advanced, authority>>

-----------------------------------------------------------------------------
(* FinalizeBuild, and FinalizeContract, which ends in it.                  *)

ReadFinalizable(s) ==
    Check(s, "finalize.read", CanTransitionTo(status, "FINALIZED"),
          "finalize.assigned")

\* Faulty variant: the event is logged before the status is set.
CheckFinalizeThenLog(s) ==
    Check(s, "finalize.assigned", IsAssigned(s, "AUDITOR"), "trail.read")

CheckFinalizeAssignment(s) ==
    Check(s, "finalize.assigned", IsAssigned(s, "AUDITOR"), "finalize.write")

WriteFinalized(s) ==
    /\ At(s, "finalize.write")
    /\ status' = "FINALIZED"
    /\ contract' = req[s].draft
    /\ advanced' = advanced \cup {[stage |-> "FINALIZED", by |-> req[s].user]}
    /\ Goto(s, "trail.read")
    /\ UNCHANGED <<sections, keys, assigned, held, events, authority, told>>

CheckContractRole(s) ==
    Check(s, "contract.roles", HoldsRole(s, "AUDITOR"), "contract.assigned")

CheckContractAssignment(s) ==
    Check(s, "contract.assigned", IsAssigned(s, "AUDITOR"), "contract.signing")

(* The latest key of a type is the last one registered.                    *)
Signing == keys["SIGNING_KEY_REGISTERED"]
Attesting == keys["ATTESTATION_KEY_REGISTERED"]

ReadSigningKey(s) ==
    /\ At(s, "contract.signing")
    /\ Signing # <<>>
    /\ GotoWith(s, "contract.attestation",
                [req[s].draft EXCEPT !.signer = Len(Signing)])
    /\ UNCHANGED store

ReadAttestationKey(s) ==
    /\ At(s, "contract.attestation")
    /\ Attesting # <<>>
    /\ GotoWith(s, "contract.sections",
                [req[s].draft EXCEPT !.attester = Len(Attesting)])
    /\ UNCHANGED store

\* Faulty variant: only the workload is demanded.
ReadSectionsLeniently(s) ==
    /\ At(s, "contract.sections")
    /\ sections["SOLUTION_PROVIDER"] # None
    /\ Signing[req[s].draft.signer] = "generate"
    /\ Goto(s, "finalize.read")
    /\ UNCHANGED store

(* Both sections and the private half of the signing key, which only a     *)
(* generated key has, are needed to assemble and sign the contract.        *)
ReadSections(s) ==
    /\ At(s, "contract.sections")
    /\ sections["SOLUTION_PROVIDER"] # None
    /\ sections["DATA_OWNER"] # None
    /\ Signing[req[s].draft.signer] = "generate"
    /\ GotoWith(s, "finalize.read",
                [req[s].draft EXCEPT !.env = sections["DATA_OWNER"].key])
    /\ UNCHANGED store

-----------------------------------------------------------------------------
(* SubmitSection.                                                          *)

ReadEnvironmentKey(s) ==
    /\ At(s, "section.key")
    /\ Signing # <<>>
    /\ GotoWith(s, "section.roles",
                [req[s].draft EXCEPT !.env = Len(Signing)])
    /\ UNCHANGED store

(* ValidateAssignmentForSubmission.  (The v2 routes call it once more, up  *)
(* front: that can only stop the request earlier.)                         *)
CheckSectionRole(s) ==
    Check(s, "section.roles", HoldsRole(s, req[s].role), "section.assigned")

CheckSectionAssignment(s) ==
    Check(s, "section.assigned", IsAssigned(s, req[s].role), "section.status")

(* requiredBuildStatusForRole; an ENV_OPERATOR's section has no stage.     *)
RequiredBuildStatus(role) ==
    CASE role = "SOLUTION_PROVIDER" -> {"SIGNING_KEY_REGISTERED"}
      [] role = "DATA_OWNER"        -> {"WORKLOAD_SUBMITTED"}
      [] role = "AUDITOR"           -> {"ENVIRONMENT_STAGED"}
      [] OTHER                      -> Stages \cup {"CREATED", "CANCELLED"}

\* Faulty variant: sections are taken at any stage.
CheckNoStatus(s) == Check(s, "section.status", TRUE, "section.exists")

CheckSectionStatus(s) ==
    Check(s, "section.status", status \in RequiredBuildStatus(req[s].role),
          "section.exists")

CheckNoSection(s) ==
    Check(s, "section.exists", sections[req[s].role] = None, "section.insert")

\* Faulty variant: a schema without UNIQUE (build_id, persona_role).
InsertSectionAgain(s) ==
    /\ At(s, "section.insert")
    /\ sections' = [sections EXCEPT ![req[s].role] =
                       [by |-> req[s].user, key |-> req[s].draft.env]]
    /\ Goto(s, "status.read")
    /\ UNCHANGED <<status, contract, keys, assigned, held, events, advanced,
                   authority, told>>

InsertSection(s) ==
    /\ At(s, "section.insert")
    /\ sections[req[s].role] = None
    /\ sections' = [sections EXCEPT ![req[s].role] =
                       [by |-> req[s].user, key |-> req[s].draft.env]]
    /\ IF req[s].role \in {"SOLUTION_PROVIDER", "DATA_OWNER"}
          THEN Goto(s, "status.read")
          ELSE Done(s)
    /\ UNCHANGED <<status, contract, keys, assigned, held, events, advanced,
                   authority, told>>

-----------------------------------------------------------------------------
(* RegisterSigningKey and RegisterAttestationKey.                          *)

CheckKeyRole(s) ==
    Check(s, "key.roles", HoldsRole(s, "AUDITOR"), "key.assigned")

CheckKeyAssignment(s) ==
    Check(s, "key.assigned", IsAssigned(s, "AUDITOR"), "key.insert")

(* The database provider inserts the private half of a generated key first *)
(* and its foreign key, the row of build_keys, is not there yet: it fails. *)
InsertKey(s) ==
    /\ At(s, "key.insert")
    /\ req[s].mode = "generate" => KeyProvider = "memory"
    /\ keys' = [keys EXCEPT ![req[s].target] = Append(@, req[s].mode)]
    /\ Goto(s, "key.status")
    /\ UNCHANGED <<status, contract, sections, assigned, held, events, advanced,
                   authority, told>>

(* moveToSigningKeyRegistered and moveToAttestationKeyRegistered: a key    *)
(* registered at any other stage leaves the status alone.                  *)
StageBefore(t) == IF t = "SIGNING_KEY_REGISTERED" THEN "CREATED"
                                                  ELSE "ENVIRONMENT_STAGED"

ReadKeyStatus(s) ==
    /\ At(s, "key.status")
    /\ IF status = StageBefore(req[s].target) THEN Goto(s, "status.read")
                                              ELSE Done(s)
    /\ UNCHANGED store

-----------------------------------------------------------------------------
(* AcknowledgeDownload.                                                    *)

(* The client acknowledges the contract it downloaded, which has to be the *)
(* one that is stored.                                                     *)
ReadDownloadable(s) ==
    /\ At(s, "receipt.read")
    /\ status = "FINALIZED"
    /\ contract # None
    /\ GotoWith(s, "receipt.events", contract)
    /\ UNCHANGED store

(* hasDownloadAcknowledgment.                                              *)
Receipts == {i \in DOMAIN events : events[i].type = "CONTRACT_DOWNLOADED"}

\* Faulty variant: only the status tells whether a download is acknowledged.
CheckStatusOnly(s) == Check(s, "receipt.events", TRUE, "receipt.assigned")

CheckNoReceipt(s) ==
    Check(s, "receipt.events", Receipts = {}, "receipt.assigned")

\* Faulty variant: the status is set before the receipt is logged.
CheckThenMark(s) ==
    Check(s, "receipt.assigned", IsAssigned(s, "ENV_OPERATOR"), "receipt.write")

CheckOperator(s) ==
    Check(s, "receipt.assigned", IsAssigned(s, "ENV_OPERATOR"), "trail.read")

WriteDownloaded(s) ==
    /\ At(s, "receipt.write")
    /\ status' = "CONTRACT_DOWNLOADED"
    /\ advanced' = advanced \cup {[stage |-> "CONTRACT_DOWNLOADED",
                                   by |-> req[s].user]}
    /\ told' = told \cup {"CONTRACT_DOWNLOADED"}
    /\ Done(s)
    /\ UNCHANGED <<contract, sections, keys, assigned, held, events, authority>>

-----------------------------------------------------------------------------
(* CreateAssignment and DeleteBuildAssignments.                            *)

ReadAssignable(s) ==
    Check(s, "assign.read", status \notin Terminal, "assign.roles")

CheckAssigneeRole(s) ==
    Check(s, "assign.roles", req[s].role \in held[req[s].whom], "assign.check")

CheckNotAssigned(s) ==
    Check(s, "assign.check", assigned[req[s].role] # req[s].whom, "assign.insert")

InsertAssignment(s) ==
    /\ At(s, "assign.insert")
    /\ assigned[req[s].role] = None
    /\ assigned' = [assigned EXCEPT ![req[s].role] = req[s].whom]
    /\ authority' = authority \cup {[role |-> req[s].role, user |-> req[s].whom]}
    /\ Goto(s, "trail.read")
    /\ UNCHANGED <<status, contract, sections, keys, held, events, advanced, told>>

ReadUnassignable(s) ==
    Check(s, "unassign.read", status \notin Terminal, "unassign.delete")

DeleteAssignments(s) ==
    /\ At(s, "unassign.delete")
    /\ assigned' = [r \in Personas |-> None]
    /\ Goto(s, "trail.read")
    /\ UNCHANGED <<status, contract, sections, keys, held, events, advanced,
                   authority, told>>

-----------------------------------------------------------------------------
(* UpdateRoles deletes the roles of a user and inserts the new ones one by *)
(* one.                                                                    *)
RemoveRoles(u) ==
    /\ "roles" \in Ops
    /\ held' = [held EXCEPT ![u] = {}]
    /\ UNCHANGED <<status, contract, sections, keys, assigned, events, advanced,
                   authority, told, req>>

AssignRole(u) ==
    /\ "roles" \in Ops
    /\ \E r \in Grantable : held' = [held EXCEPT ![u] = @ \cup {r}]
    /\ UNCHANGED <<status, contract, sections, keys, assigned, events, advanced,
                   authority, told, req>>

(* The request ends with an error, or with its process.                    *)
Stop(s) == req[s] # None /\ Done(s) /\ UNCHANGED store

(* Where a run starts.  A build without assignments has just been inserted *)
(* and CreateBuild is about to log it.  Otherwise it has been staffed, and *)
(* the first InitialStage stages were completed in good order, except that *)
(* some may have been set by PATCH /status, without their section.         *)
Order == <<"SIGNING_KEY_REGISTERED", "WORKLOAD_SUBMITTED",
           "ENVIRONMENT_STAGED", "ATTESTATION_KEY_REGISTERED">>

Fresh == \A r \in Personas : InitialAssignment[r] = None
Completer(t) == InitialAssignment[RequiredRoleForTransition(t)]
Founder == CHOOSE u \in Users : InitialRoles[u] \cap {"ADMIN", "AUDITOR"} # {}
StaffSize == Cardinality({r \in Personas : InitialAssignment[r] # None})

InitialTrail ==
    [i \in 1 .. 1 + StaffSize + InitialStage |->
        IF i = 1 THEN Event("CREATED", Founder, NoDraft)
        ELSE IF i <= 1 + StaffSize THEN Event("ROLE_ASSIGNED", Founder, NoDraft)
        ELSE LET t == Order[i - 1 - StaffSize] IN Event(t, Completer(t), NoDraft)]

InitialSection(r, stage) ==
    IF InitialStage < stage THEN None
    ELSE [by |-> InitialAssignment[r], key |-> IF r = "DATA_OWNER" THEN 1 ELSE 0]

InitialKeys(stage) ==
    IF InitialStage < stage THEN <<>>
    ELSE <<IF KeyProvider = "memory" THEN "generate" ELSE "upload_public">>

(* The insertion of the build is over, that of its first event is not.     *)
Creation(u) == [New(u, "status.read", "CREATED") EXCEPT !.at = "trail.read"]

Init ==
    /\ status = IF InitialStage = 0 THEN "CREATED" ELSE Order[InitialStage]
    /\ contract = None
    /\ \E skipped \in SUBSET {"SOLUTION_PROVIDER", "DATA_OWNER"} :
          sections = [r \in Personas |->
                         IF r \in skipped THEN None
                         ELSE CASE r = "SOLUTION_PROVIDER" -> InitialSection(r, 2)
                                [] r = "DATA_OWNER"        -> InitialSection(r, 3)
                                [] OTHER                   -> None]
    /\ keys = [t \in KeyStages |->
                  InitialKeys(IF t = "SIGNING_KEY_REGISTERED" THEN 1 ELSE 4)]
    /\ assigned = InitialAssignment
    /\ held = InitialRoles
    /\ \/ /\ ~Fresh
          /\ events = InitialTrail
          /\ req = [s \in Slots |-> None]
       \/ /\ Fresh
          /\ events = <<>>
          /\ \E s \in Slots, u \in Users :
                /\ held[u] \cap {"ADMIN", "AUDITOR"} # {}
                /\ req = [t \in Slots |-> IF t = s THEN Creation(u) ELSE None]
    /\ advanced = {[stage |-> Order[i], by |-> Completer(Order[i])] :
                      i \in 1 .. InitialStage}
    /\ authority = {a \in [role : Personas, user : Users] :
                       InitialAssignment[a.role] = a.user}
    /\ told = {}

Begin(s, u) ==
    \/ PatchStatus(s, u)
    \/ CancelBuild(s, u)
    \/ RegisterAttestation(s, u)
    \/ FinalizeUploaded(s, u)
    \/ FinalizeContract(s, u)
    \/ SubmitSection(s, u)
    \/ SubmitEnvironmentSection(s, u)
    \/ RegisterKey(s, u)
    \/ AcknowledgeDownload(s, u)
    \/ CreateAssignment(s, u)
    \/ DeleteBuildAssignments(s, u)

(* The steps that write to the database, and those that only read.         *)
Write(s) ==
    \/ WriteStatus(s)
    \/ AppendTrail(s)
    \/ ReadAttestation(s)
    \/ WriteFinalized(s)
    \/ InsertSection(s)
    \/ InsertKey(s)
    \/ WriteDownloaded(s)
    \/ InsertAssignment(s)
    \/ DeleteAssignments(s)

Read(s) ==
    \/ RequireBuildAccess(s)
    \/ ReadStatus(s)
    \/ CheckTransitionAssignment(s)
    \/ ReadTrail(s)
    \/ ReadFinalizable(s)
    \/ CheckFinalizeAssignment(s)
    \/ CheckContractRole(s)
    \/ CheckContractAssignment(s)
    \/ ReadSigningKey(s)
    \/ ReadAttestationKey(s)
    \/ ReadSections(s)
    \/ ReadEnvironmentKey(s)
    \/ CheckSectionRole(s)
    \/ CheckSectionAssignment(s)
    \/ CheckSectionStatus(s)
    \/ CheckNoSection(s)
    \/ CheckKeyRole(s)
    \/ CheckKeyAssignment(s)
    \/ ReadKeyStatus(s)
    \/ ReadDownloadable(s)
    \/ CheckNoReceipt(s)
    \/ CheckOperator(s)
    \/ ReadAssignable(s)
    \/ CheckAssigneeRole(s)
    \/ CheckNotAssigned(s)
    \/ ReadUnassignable(s)

Next ==
    \/ \E s \in Slots : \/ \E u \in Users : Begin(s, u)
                        \/ Write(s)
                        \/ Read(s)
                        \/ Stop(s)
    \/ \E u \in Users : RemoveRoles(u) \/ AssignRole(u)

Spec == Init /\ [][Next]_vars

-----------------------------------------------------------------------------
TypeOK ==
    /\ status \in Stages \cup {"CREATED", "CANCELLED"}
    /\ contract \in Contracts \cup {None}
    /\ sections \in [Personas -> [by : Users, key : Nat] \cup {None}]
    /\ keys \in [KeyStages -> Seq({"generate", "upload_public"})]
    /\ assigned \in [Personas -> Users \cup {None}]
    /\ held \in [Users -> SUBSET Roles]
    /\ events \in Seq([type : EventTypes, by : Users, contract : Contracts])
    /\ req \in [Slots -> Request \cup {None}]
    /\ advanced \subseteq [stage : Stages \cup {"CREATED", "CANCELLED"}, by : Users]
    /\ authority \subseteq [role : Personas, user : Users]
    /\ told \subseteq EventTypes

(* The stages the build has been at, in any order.                         *)
Reached == {"CREATED"} \cup {a.stage : a \in advanced}

(* However requests interleave and die, a build is at a stage only after   *)
(* it has been at every stage before it ("strict linear progression"): no  *)
(* two stale decisions add up to a shortcut.                               *)
NoStageSkipped == \A p \in ValidTransitions : p[2] \in Reached => p[1] \in Reached

(* Every stage a build has been at was set, and every section submitted,   *)
(* by somebody who has been assigned to the role it requires, whatever     *)
(* happens to roles and assignments while the request is under way.        *)
WorkAuthorised ==
    /\ \A a \in advanced : a.stage # "CANCELLED" =>
          [role |-> RequiredRoleForTransition(a.stage), user |-> a.by] \in authority
    /\ \A r \in Personas : sections[r] # None =>
          [role |-> r, user |-> sections[r].by] \in authority

(* A section is in the build only if the build has been at the stage that  *)
(* section waits for.                                                      *)
SectionsFollowStages ==
    \A r \in Personas : sections[r] # None =>
        RequiredBuildStatus(r) \cap Reached # {}

(* A stored contract comes from a finalization, after the attestation key  *)
(* stage; one made by the server holds both persona sections as they are   *)
(* stored now, and was signed with a private key the server has.           *)
ContractWhole ==
    contract # None =>
        /\ "FINALIZED" \in Reached
        /\ contract.made = "backend" =>
              /\ sections["SOLUTION_PROVIDER"] # None
              /\ sections["DATA_OWNER"] # None
              /\ contract.env = sections["DATA_OWNER"].key
              /\ contract.signer \in DOMAIN Signing
              /\ Signing[contract.signer] = "generate"
              /\ contract.attester \in DOMAIN Attesting

(* The trail reports only what happened: the event of a stage is there     *)
(* only if the actor it names set the build to that stage, and a receipt   *)
(* only if the build was finalized by then with a contract to receive.     *)
TrailTellsTheTruth ==
    \A i \in DOMAIN events :
        /\ events[i].type \in (Stages \ {"CONTRACT_DOWNLOADED"}) \cup {"CANCELLED"} =>
              [stage |-> events[i].type, by |-> events[i].by] \in advanced
        /\ events[i].type = "CONTRACT_DOWNLOADED" =>
              "FINALIZED" \in Reached /\ contract # None

(* A build is marked as downloaded only with a proof of receipt in its     *)
(* trail, also when the server dies between the two writes.                *)
DownloadedHasReceipt ==
    "CONTRACT_DOWNLOADED" \in Reached => Receipts # {}

(* A client that was told its request succeeded finds the stage reached    *)
(* and an event of it in the trail.                                        *)
SuccessIsRecorded ==
    \A t \in told \cap (Stages \cup {"CANCELLED"}) :
        /\ t \in Reached
        /\ \E i \in DOMAIN events : events[i].type = t

(* Each persona contributes once: two submissions that both find no        *)
(* section never replace one another.                                      *)
SectionOnce == [][\A r \in Personas : sections[r] # None =>
                                         sections'[r] = sections[r]]_vars

-----------------------------------------------------------------------------
(* What holds when requests for a build do not overlap (one slot).         *)

Lifecycle == INSTANCE BuildLifecycle

(* Then the life of the build is the one the state diagram promises, also  *)
(* when requests die halfway.                                              *)
ImplementsLifecycle == Lifecycle!Spec

(* The one receipt of a build is a receipt for the contract it stores.     *)
ReceiptForStoredContract ==
    \A i \in Receipts : events[i].contract = contract /\ Receipts = {i}

-----------------------------------------------------------------------------
(* What the documents say and overlapping requests break.                  *)

MoveAllowed(s, t) == s \notin Terminal \/ s = t \/ <<s, t>> \in ValidTransitions

(* FINALIZED, CONTRACT_DOWNLOADED and CANCELLED are immutable but for the  *)
(* acknowledgment of a download.                                           *)
TerminalIsFinal == [][MoveAllowed(status, status')]_vars
=============================================================================
