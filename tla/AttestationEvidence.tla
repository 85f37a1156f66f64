------------------------ MODULE AttestationEvidence ------------------------
(***************************************************************************)
(* The evidence of a finalized build: AttestationService uploads it and    *)
(* judges it with the attestation key of the build, which KeyService       *)
(* registers (internal/service/attestation_service.go, key_service.go,     *)
(* internal/keymgmt).                                                      *)
(*                                                                         *)
(* As everywhere in this server a request is a sequence of autocommitted   *)
(* queries.  The state of the attestation is checked once, at the start;   *)
(* the rows are written later, the state later still, and the event last,  *)
(* its loss ignored.  A request that dies between two writes ends with     *)
(* Stop and undoes nothing; one that fails before its first changes        *)
(* nothing and is no step.  Requests occupy slots, as in BuildWorkflow.    *)
(* Reads of what cannot change any more (that the build is final, a row of *)
(* evidence, a private half) are one step with the read next to them.      *)
(*                                                                         *)
(* A key is known by its id; evidence by its position in the table, and by *)
(* the key it was made for: whose public half encrypted the records and    *)
(* whose private half signed them (0: by none of this build).  Assignments *)
(* are frozen once a build is final: who may upload and who may verify are *)
(* constants, and their check can only end a request.                      *)
(***************************************************************************)
EXTENDS Naturals, Sequences

CONSTANTS
    Slots,          \* requests that may be in progress at a time
    Uploaders,      \* the assigned DATA_OWNER and ENV_OPERATOR
    Auditors,       \* the assigned AUDITOR
    KeyProvider,    \* "database" (main.go) or "memory" (development)
    Certificate,    \* keys come with an encryption certificate: the service
                    \* takes both, the route demands one of generated keys
    None,           \* NULL, no request
    MaxEvidence,    \* bound: rows of attestation_evidence
    MaxKeys         \* bound: keys the providers make

ASSUME ProviderAssumption == KeyProvider \in {"database", "memory"}
ASSUME CertificateAssumption == Certificate \in BOOLEAN
ASSUME BoundsAssumption == {MaxEvidence, MaxKeys} \subseteq Nat

VARIABLES
    finalized,      \* builds.status is FINALIZED or CONTRACT_DOWNLOADED
    contractKey,    \* the attestation key the contract was assembled with
    column,         \* attestation_state and attestation_verified_by
    evidence,       \* attestation_evidence: whom each was made for
    verdicts,       \* attestation_verifications, UNIQUE (evidence_id)
    keys,           \* build_keys of type ATTESTATION, by created_at
    private,        \* keys whose private half the provider stores
    made,           \* how many keys providers have made
    lastEvent,      \* the latest of audit_events about evidence
    req,            \* the requests in progress
    overtaken,      \* history: requests that read a state no longer current
    orderly         \* history: none of those wrote, none died between writes

tables == <<column, evidence, verdicts, keys, private, made, lastEvent>>
history == <<overtaken, orderly>>
vars == <<finalized, contractKey, tables, req, history>>

States == {"PENDING_UPLOAD", "UPLOADED", "VERIFIED", "REJECTED"}
Verdicts == {"VERIFIED", "REJECTED"}
Modes == {"generate", "upload_public"}
Users == Uploaders \cup Auditors

Labels == {"key.insert", "upload.insert", "upload.mark", "upload.log",
           "verify.judge", "verify.insert", "verify.mark", "verify.log"}

Key == [id : Nat, mode : Modes]
Verdict == [on : Nat, verdict : Verdicts, by : Auditors]
UploadEvent == [type : {"ATTESTATION_EVIDENCE_UPLOADED"}, on : Nat]
VerdictEvent == [type : {"ATTESTATION_VERIFIED"}, on : Nat, verdict : Verdicts]

Request == [at : Labels, user : Users, key : Key, on : Nat, madeFor : Nat,
            opened : BOOLEAN, verdict : Verdicts]

ASSUME NoneAssumption == None \notin Request \cup UploadEvent \cup VerdictEvent

NoKey == [id |-> 0, mode |-> "generate"]

\* Faulty variant: the verdict starts as an empty string.
NewUnset(u, first) ==
    [at |-> first, user |-> u, key |-> NoKey, on |-> 0, madeFor |-> 0,
     opened |-> FALSE, verdict |-> ""]

New(u, first) ==
    [at |-> first, user |-> u, key |-> NoKey, on |-> 0, madeFor |-> 0,
     opened |-> FALSE, verdict |-> "REJECTED"]

At(s, label) == req[s] # None /\ req[s].at = label
Goto(s, label) == req' = [req EXCEPT ![s].at = label]

Idle(s) == req[s] = None
Hold(s, r) == req' = [req EXCEPT ![s] = r]

(* The request is over.                                                    *)
Done(s) == /\ req' = [req EXCEPT ![s] = None]
           /\ overtaken' = overtaken \ {s}

-----------------------------------------------------------------------------
(* RegisterAttestationKey: KeyProvider.CreateAttestationKey, then the row. *)
(* The database provider inserts the private half of a generated key       *)
(* before the row of build_keys that its foreign key refers to: that fails.*)

MakeKey(s, u, m) ==
    /\ Idle(s)
    /\ made < MaxKeys
    /\ made' = made + 1
    /\ Hold(s, [New(u, "key.insert") EXCEPT !.key = [id |-> made + 1, mode |-> m]])
    /\ UNCHANGED <<finalized, contractKey, column, evidence, verdicts, keys,
                   lastEvent, history>>

\* Faulty variant: the private half of a generated key is kept for later.
CreateKeyLazily(s, u) ==
    \E m \in Modes :
        /\ m = "generate" => KeyProvider = "memory"
        /\ MakeKey(s, u, m)
        /\ UNCHANGED private

CreateKey(s, u) ==
    \/ /\ KeyProvider = "memory"
       /\ MakeKey(s, u, "generate")
       /\ private' = private \cup {made + 1}
    \/ /\ MakeKey(s, u, "upload_public")
       /\ UNCHANGED private

(* createBuildKey.  What follows moves the build before it is final only.  *)
InsertKey(s) ==
    /\ At(s, "key.insert")
    /\ keys' = Append(keys, req[s].key)
    /\ Done(s)
    /\ UNCHANGED <<finalized, contractKey, column, evidence, verdicts, private,
                   made, lastEvent, orderly>>

(* The contract is assembled with a key that was the latest at some time   *)
(* before; PATCH /status finalizes a build without any.                    *)
Finalize ==
    /\ ~finalized
    /\ finalized' = TRUE
    /\ \/ UNCHANGED contractKey
       \/ \E i \in DOMAIN keys : contractKey' = keys[i].id
    /\ UNCHANGED <<tables, req, history>>

-----------------------------------------------------------------------------
(* What the two operations do to builds.attestation_state.                 *)

(* updateBuildAttestationState writes without a condition on the state, so *)
(* the other requests hold an old one from now on.                         *)
SetState(s, state, by) ==
    /\ column' = [state |-> state, by |-> by]
    /\ orderly' = (orderly /\ s \notin overtaken)
    /\ overtaken' = {t \in Slots : req[t] # None} \ {s}

(* LogEvent; its error is discarded.                                       *)
Log(s, event) ==
    /\ lastEvent' \in {lastEvent, event}
    /\ Done(s)
    /\ UNCHANGED <<finalized, contractKey, column, evidence, verdicts, keys,
                   private, made, orderly>>

-----------------------------------------------------------------------------
(* UploadEvidence.                                                         *)

StartUpload(s, u) ==
    /\ Idle(s)
    /\ finalized
    /\ \E k \in 0 .. made : Hold(s, [New(u, "upload.insert") EXCEPT !.madeFor = k])
    /\ UNCHANGED <<finalized, contractKey, tables, history>>

\* Faulty variant: only while evidence waits for its verdict none is taken.
BeginUploadUnlessWaiting(s, u) ==
    /\ column.state # "UPLOADED"
    /\ StartUpload(s, u)

BeginUpload(s, u) ==
    /\ column.state \in {"PENDING_UPLOAD", "REJECTED"}
    /\ StartUpload(s, u)

\* Faulty variant: the files are stored in the background.
StoreEvidenceLater(s) ==
    /\ At(s, "upload.insert")
    /\ Goto(s, "upload.mark")
    /\ UNCHANGED <<finalized, contractKey, tables, history>>

InsertEvidence(s) ==
    /\ At(s, "upload.insert")
    /\ Len(evidence) < MaxEvidence
    /\ evidence' = Append(evidence, req[s].madeFor)
    /\ Hold(s, [New(req[s].user, "upload.mark") EXCEPT !.on = Len(evidence) + 1])
    /\ UNCHANGED <<finalized, contractKey, column, verdicts, keys, private, made,
                   lastEvent, history>>

MarkUploaded(s) ==
    /\ At(s, "upload.mark")
    /\ SetState(s, "UPLOADED", None)
    /\ Goto(s, "upload.log")
    /\ UNCHANGED <<finalized, contractKey, evidence, verdicts, keys, private,
                   made, lastEvent>>

LogUpload(s) ==
    /\ At(s, "upload.log")
    /\ Log(s, [type |-> "ATTESTATION_EVIDENCE_UPLOADED", on |-> req[s].on])

-----------------------------------------------------------------------------
(* VerifyEvidence.                                                         *)

(* The client names the evidence: any of the build, not only the latest.   *)
BeginVerify(s, u) ==
    /\ Idle(s)
    /\ finalized
    /\ column.state = "UPLOADED"
    /\ \E e \in DOMAIN evidence :
          Hold(s, [New(u, "verify.judge") EXCEPT !.on = e, !.madeFor = evidence[e]])
    /\ UNCHANGED <<finalized, contractKey, tables, history>>

(* The records are opened with the private half of the key and the right   *)
(* passphrase; their signature is checked with the public half as it is    *)
(* stored: encrypted, and then no key at all, when a certificate came with *)
(* the registration.                                                       *)
SignatureValid(madeFor, key) == madeFor = key.id /\ ~Certificate

JudgeWith(s, key) ==
    /\ At(s, "verify.judge")
    /\ keys # <<>>
    /\ \E opened \in BOOLEAN :
          /\ opened => key.id \in private
          /\ Hold(s, [req[s] EXCEPT
                        !.at = "verify.insert", !.key = key, !.opened = opened,
                        !.verdict = IF opened /\ SignatureValid(req[s].madeFor, key)
                                       THEN "VERIFIED" ELSE "REJECTED"])
    /\ UNCHANGED <<finalized, contractKey, tables, history>>

\* Faulty variant: ORDER BY created_at ASC, the first key that was registered.
JudgeWithFirst(s) == JudgeWith(s, Head(keys))

(* getLatestActiveBuildKeyByType: the latest now, whatever the contract    *)
(* was assembled with.                                                     *)
Judge(s) == JudgeWith(s, keys[Len(keys)])

Judgement(r) == [on |-> r.on, verdict |-> r.verdict, by |-> r.user]
Judged(r) == [New(r.user, "verify.mark") EXCEPT !.on = r.on, !.verdict = r.verdict]

\* Faulty variant: a schema without UNIQUE (evidence_id).
InsertVerdictAgain(s) ==
    /\ At(s, "verify.insert")
    /\ verdicts' = Append(verdicts, Judgement(req[s]))
    /\ Hold(s, Judged(req[s]))
    /\ UNCHANGED <<finalized, contractKey, column, evidence, keys, private, made,
                   lastEvent, history>>

\* Faulty variant: the event and the state come first.
InsertVerdictLast(s) ==
    /\ At(s, "verify.insert")
    /\ Hold(s, Judged(req[s]))
    /\ UNCHANGED <<finalized, contractKey, tables, history>>

InsertVerdict(s) ==
    /\ At(s, "verify.insert")
    /\ \A i \in DOMAIN verdicts : verdicts[i].on # req[s].on
    /\ verdicts' = Append(verdicts, Judgement(req[s]))
    /\ Hold(s, Judged(req[s]))
    /\ UNCHANGED <<finalized, contractKey, column, evidence, keys, private, made,
                   lastEvent, history>>

MarkJudged(s) ==
    /\ At(s, "verify.mark")
    /\ SetState(s, req[s].verdict, req[s].user)
    /\ Goto(s, "verify.log")
    /\ UNCHANGED <<finalized, contractKey, evidence, verdicts, keys, private,
                   made, lastEvent>>

LogVerdict(s) ==
    /\ At(s, "verify.log")
    /\ Log(s, [type |-> "ATTESTATION_VERIFIED", on |-> req[s].on,
               verdict |-> req[s].verdict])

-----------------------------------------------------------------------------
(* The request ends with an error, or with its process, which takes the    *)
(* event with it but leaves the rows.                                      *)
Stop(s) ==
    /\ req[s] # None
    /\ orderly' = (orderly /\ req[s].at \notin {"upload.mark", "verify.mark"})
    /\ Done(s)
    /\ UNCHANGED <<finalized, contractKey, tables>>

Init ==
    /\ finalized = FALSE
    /\ contractKey = 0
    /\ column = [state |-> "PENDING_UPLOAD", by |-> None]
    /\ evidence = <<>>
    /\ verdicts = <<>>
    /\ keys = <<>>
    /\ private = {}
    /\ made = 0
    /\ lastEvent = None
    /\ req = [s \in Slots |-> None]
    /\ overtaken = {}
    /\ orderly = TRUE

Begin(s) ==
    \/ \E u \in Auditors : CreateKey(s, u) \/ BeginVerify(s, u)
    \/ \E u \in Uploaders : BeginUpload(s, u)

Step(s) ==
    \/ InsertKey(s)
    \/ InsertEvidence(s)
    \/ MarkUploaded(s)
    \/ LogUpload(s)
    \/ Judge(s)
    \/ InsertVerdict(s)
    \/ MarkJudged(s)
    \/ LogVerdict(s)

Next == Finalize \/ \E s \in Slots : Begin(s) \/ Step(s) \/ Stop(s)

Spec == Init /\ [][Next]_vars

-----------------------------------------------------------------------------
TypeOK ==
    /\ finalized \in BOOLEAN
    /\ contractKey \in Nat
    /\ column \in [state : States, by : Auditors \cup {None}]
    /\ evidence \in Seq(Nat)
    /\ verdicts \in Seq(Verdict)
    /\ keys \in Seq(Key)
    /\ private \subseteq Nat
    /\ made \in Nat
    /\ lastEvent \in UploadEvent \cup VerdictEvent \cup {None}
    /\ req \in [Slots -> Request \cup {None}]
    /\ overtaken \subseteq Slots
    /\ orderly \in BOOLEAN

(* A decided state was decided: a verdict is stored that says the same, by *)
(* the auditor the state names; and no state but the first is without      *)
(* evidence.  This holds through races, lost events and requests that die. *)
DecisionIsStored ==
    /\ column.state # "PENDING_UPLOAD" => evidence # <<>>
    /\ column.state \in Verdicts =>
          \E i \in DOMAIN verdicts : /\ verdicts[i].verdict = column.state
                                     /\ verdicts[i].by = column.by

(* Evidence is judged at most once, also when the auditor verifies it      *)
(* twice at the same time with different outcomes, and what is judged is   *)
(* evidence of this build.                                                 *)
OneVerdict ==
    \A i, j \in DOMAIN verdicts :
        /\ verdicts[i].on \in DOMAIN evidence
        /\ verdicts[i].on = verdicts[j].on => i = j

(* The trail may lack events but invents none: the evidence its latest     *)
(* event reports, which the desktop offers for verification, is stored,    *)
(* and a verdict it reports is the stored one.                             *)
TrailTellsOfStored ==
    lastEvent # None =>
        /\ lastEvent.on \in DOMAIN evidence
        /\ lastEvent.type = "ATTESTATION_VERIFIED" =>
              \E i \in DOMAIN verdicts : /\ verdicts[i].on = lastEvent.on
                                         /\ verdicts[i].verdict = lastEvent.verdict

(* The attestation lifecycle of the design documents.                      *)
Documented == {<<"PENDING_UPLOAD", "UPLOADED">>, <<"UPLOADED", "VERIFIED">>,
               <<"UPLOADED", "REJECTED">>, <<"REJECTED", "UPLOADED">>}

(* Only a request that has been overtaken leaves the documented lifecycle: *)
(* one whose upload or verdict is based on a state that another request    *)
(* has replaced since it was read.                                         *)
OnlyOvertakenStray ==
    [][column' = column
       \/ <<column.state, column'.state>> \in Documented
       \/ \E s \in overtaken : req'[s] # req[s]]_vars

(* As long as no request is overtaken or dies between its two writes, the  *)
(* state agrees with the tables: UPLOADED means that evidence waits for    *)
(* its verdict, and can be judged, and a decision is that of the latest    *)
(* verdict.  (A verification that dies there leaves UPLOADED for good: its *)
(* evidence cannot be judged again, and other evidence cannot come.)       *)
Undecided == {e \in DOMAIN evidence : \A i \in DOMAIN verdicts : verdicts[i].on # e}

StateAgrees ==
    (orderly /\ \A s \in Slots : ~At(s, "verify.mark")) =>
        /\ column.state = "UPLOADED" => Undecided # {}
        /\ column.state \in Verdicts =>
              verdicts[Len(verdicts)].verdict = column.state

(* A generated key is in the table only when its private half is with the  *)
(* provider, whichever of the two stores is written first and whatever     *)
(* dies in between; no two keys share a private half.                      *)
GeneratedKeyUsable ==
    \A i \in DOMAIN keys :
        /\ keys[i].mode = "generate" => keys[i].id \in private
        /\ \A j \in DOMAIN keys : keys[i].id = keys[j].id => i = j

(* Evidence is found genuine only for the key of the contract, unless the  *)
(* auditor has registered another one since the contract was assembled.    *)
VerifiedForContract ==
    \A i \in DOMAIN verdicts :
        (verdicts[i].verdict = "VERIFIED" /\ contractKey # 0) =>
            \/ evidence[verdicts[i].on] = contractKey
            \/ keys[Len(keys)].id # contractKey

-----------------------------------------------------------------------------
(* What the documents say and the code does not do.                        *)

(* Evidence made for the key it is judged by, whose records were opened,   *)
(* is VERIFIED ("UPLOADED -> VERIFIED (Auditor verifies)").                *)
GenuineIsVerified ==
    \A s \in Slots :
        (/\ At(s, "verify.insert")
         /\ req[s].opened
         /\ req[s].madeFor = req[s].key.id) => req[s].verdict = "VERIFIED"
=============================================================================
