---------------------------- MODULE Verification ----------------------------
(***************************************************************************)
(* VerificationService (internal/service/verification_service.go): what    *)
(* GET /builds/{id}/verify and /verify-contract answer about one build,    *)
(* while requests record events, the actors' key changes, and the stored   *)
(* rows decay.                                                             *)
(*                                                                         *)
(* LogEvent is one step here: AuditChain shows that whatever its queries   *)
(* do, an event is appended whole or not at all.  What stays apart are the *)
(* check of a request's signature, the writing of the contract, and the    *)
(* recording of the event, which looks the key up again.                   *)
(*                                                                         *)
(* Hashes are injective: the hash of a request or of a contract is a model *)
(* value, the hash of an event the sequence of the data hashed so far.  A  *)
(* signature is the key that made it and the hash it is over.  There is    *)
(* one actor; event_data is what the verification reads of it.             *)
(***************************************************************************)
EXTENDS Naturals, Sequences, SequencesExt, FiniteSets

CONSTANTS
    Slots,          \* requests that may be in progress at a time
    Keys,           \* public keys the actor can register
    Submissions,    \* hashes of signed requests, which cover method, path
    Finalizations,  \* and body: of POST .../finalize; each may arrive again
    Pem,            \* a public key where a hash is expected
    Contracts,      \* hashes of contracts, standing for the contracts too
    None,           \* NULL, an absent field, no request
    MaxEvents,      \* bound: events recorded and under way
    MaxDamage       \* bound: how often stored rows are damaged

Requests == Submissions \cup Finalizations

ASSUME ValuesAssumption ==
    /\ Submissions \cap Finalizations = {}
    /\ Requests \cap Contracts = {}
    /\ Pem \notin Requests \cup Contracts
    /\ None \notin Keys \cup Requests \cup Contracts \cup {Pem}
ASSUME BoundsAssumption == {MaxEvents, MaxDamage} \subseteq Nat

VARIABLES
    trail,          \* audit_events of the build in order of sequence_no
    userKey,        \* users.public_key of the actor
    finalized,      \* builds.status is FINALIZED or CONTRACT_DOWNLOADED
    stored,         \* builds.contract_yaml and contract_hash
    req,            \* the requests in progress
    written,        \* history: the data of the trail at each append
    stores,         \* history: how often a build was set to FINALIZED
    damage          \* history: how often the trail, the contract was damaged

history == <<written, stores, damage>>
vars == <<trail, userKey, finalized, stored, req, history>>

Types == {"ROLE_ASSIGNED", "WORKLOAD_SUBMITTED", "BUILD_FINALIZED",
          "CONTRACT_DOWNLOADED"}

(* event_data: request_signature_hash and contract_hash, if present.       *)
Data == [request : Requests \cup {Pem, None}, contract : Contracts \cup {None}]
Signature == [by : Keys, over : Requests \cup Contracts]
Event == [type : Types, data : Data, signature : Signature \cup {None},
          pub : Keys \cup {None}]
Row == [type : Types, data : Data, signature : Signature \cup {None},
        pub : Keys \cup {None}, prev : Seq(Data), hash : Seq(Data)]
Columns == [yaml : Contracts \cup {None}, hash : Contracts \cup {None}]

(* What a request still has to do: write the contract, record the event.   *)
Request == [next : {"store", "log"}, event : Event, columns : Columns]

ASSUME NoneAssumption == None \notin Request \cup Signature

Unset == [yaml |-> None, hash |-> None]
NoDamage == [trail |-> 0, contract |-> 0]
Signed(h) == [by |-> userKey, over |-> h]
Of(h, c) == [request |-> h, contract |-> c]
EventOf(t, d, sig, pub) == [type |-> t, data |-> d, signature |-> sig, pub |-> pub]

-----------------------------------------------------------------------------
(* Requests.  RequireRequestSignature has checked the headers with the key *)
(* registered now; h is the hash they sign.                                *)

\* Faulty variant: a user without a key is let through.
BeginWithoutKey(s, next, event, columns) ==
    /\ req[s] = None
    /\ Len(trail) + Cardinality({t \in Slots : req[t] # None}) < MaxEvents
    /\ req' = [req EXCEPT ![s] = [next |-> next, event |-> event, columns |-> columns]]
    /\ UNCHANGED <<trail, userKey, finalized, stored, history>>

Begin(s, next, event, columns) ==
    /\ req[s] = None
    /\ Len(trail) + Cardinality({t \in Slots : req[t] # None}) < MaxEvents
    /\ userKey # None
    /\ req' = [req EXCEPT ![s] = [next |-> next, event |-> event, columns |-> columns]]
    /\ UNCHANGED <<trail, userKey, finalized, stored, history>>

(* Most events keep the hash of their request and its signature.           *)
SubmitSigned(s, h) ==
    /\ Begin(s, "log", EventOf("WORKLOAD_SUBMITTED", Of(h, None), Signed(h), None), Unset)

(* DeleteBuildAssignments: neither is kept.                                *)
DeleteAssignments(s) ==
    /\ Begin(s, "log", EventOf("ROLE_ASSIGNED", Of(None, None), None, None), Unset)

(* FinalizeContract of v2: the hash of the request beside the contract's.  *)
FinalizeContract(s, h, c) ==
    /\ ~finalized
    /\ Begin(s, "store", EventOf("BUILD_FINALIZED", Of(h, c), Signed(h), None),
             [yaml |-> c, hash |-> c])

(* PATCH /status: the status alone, and an event that keeps no signature.  *)
SetFinalized(s) ==
    /\ ~finalized
    /\ Begin(s, "store", EventOf("BUILD_FINALIZED", Of(None, None), None, None), Unset)

(* FinalizeBuild of v1: contract, hash, signature and key are those of the *)
(* body, unchecked; the key is handed on as the hash of the request.       *)
FinalizeBuild(s, yaml, c, sig, key) ==
    /\ ~finalized
    /\ Begin(s, "store", EventOf("BUILD_FINALIZED", Of(key, c), sig, None),
             [yaml |-> yaml, hash |-> c])

Receipt(s, key) ==
    /\ finalized
    /\ stored.hash # None
    /\ \A i \in DOMAIN trail : trail[i].type # "CONTRACT_DOWNLOADED"
    /\ Begin(s, "log", EventOf("CONTRACT_DOWNLOADED", Of(None, stored.hash),
                               Signed(stored.hash), key), Unset)

(* AcknowledgeDownload signs the contract's hash and names its key.        *)
AcknowledgeDownload(s) == Receipt(s, userKey)

(* UPDATE builds, whatever it holds by now; PATCH /status sets no contract.*)
Store(s) ==
    /\ req[s] # None /\ req[s].next = "store"
    /\ finalized' = TRUE
    /\ stored' = IF req[s].columns = Unset THEN stored ELSE req[s].columns
    /\ stores' = stores + 1
    /\ req' = [req EXCEPT ![s].next = "log"]
    /\ UNCHANGED <<trail, userKey, written, damage>>

Genesis == <<>>
EventHash(d, prev) == Append(prev, d)
LastHash == IF trail = <<>> THEN Genesis ELSE trail[Len(trail)].hash
RowOf(e, pub, prev) ==
    [type |-> e.type, data |-> e.data, signature |-> e.signature, pub |-> pub,
     prev |-> prev, hash |-> EventHash(e.data, prev)]

(* LogEvent.  A key not handed over is that of the users row, or none when *)
(* that row cannot be read.                                                *)
Log(s) ==
    /\ req[s] # None /\ req[s].next = "log"
    /\ \E pub \in IF req[s].event.pub # None THEN {req[s].event.pub}
                                             ELSE {userKey, None} :
          trail' = Append(trail, RowOf(req[s].event, pub, LastHash))
    /\ written' = written \cup {EventHash(req[s].event.data, LastHash)}
    /\ req' = [req EXCEPT ![s] = None]
    /\ UNCHANGED <<userKey, finalized, stored, stores, damage>>

(* The request fails, loses the race for the number, or is cut off.        *)
Stop(s) ==
    /\ req[s] # None
    /\ req' = [req EXCEPT ![s] = None]
    /\ UNCHANGED <<trail, userKey, finalized, stored, history>>

SetKey(k) ==
    /\ userKey' = k
    /\ UNCHANGED <<trail, finalized, stored, req, history>>

-----------------------------------------------------------------------------
(* Damage to what is stored: the fault the verification exists to find.    *)
(* Only columns it looks at are touched: the event's type, its actor and   *)
(* its sequence number enter no hash.  No request is in progress: what one *)
(* did before recording its event does not depend on the damage.           *)

Decays == /\ damage.trail + damage.contract < MaxDamage
          /\ \A s \in Slots : req[s] = None
          /\ UNCHANGED <<userKey, finalized, req, written, stores>>

DamageTrail == /\ Decays
               /\ damage' = [damage EXCEPT !.trail = @ + 1]
               /\ UNCHANGED stored

(* Data, links and hashes are replaced by those of other rows.             *)
CorruptRow(i, j) ==
    /\ \E d, p, h \in {i, j} :
          trail' = [trail EXCEPT ![i].data = trail[d].data, ![i].prev = trail[p].prev,
                                 ![i].hash = trail[h].hash]
    /\ trail' # trail
    /\ DamageTrail

LoseRow(i) ==
    /\ trail' = RemoveAt(trail, i)
    /\ DamageTrail

SwapRows(i, j) ==
    /\ i < j
    /\ trail' = [trail EXCEPT ![i] = trail[j], ![j] = trail[i]]
    /\ DamageTrail

(* One of the two columns of the contract; a pair that did not match is    *)
(* not made to match by accident.                                          *)
CorruptContract(c) ==
    /\ stored # Unset
    /\ stored' \in {[stored EXCEPT !.yaml = c], [stored EXCEPT !.hash = c]}
    /\ stored' # stored
    /\ stored'.yaml # stored'.hash
    /\ Decays
    /\ damage.contract = 0
    /\ damage' = [damage EXCEPT !.contract = 1]
    /\ UNCHANGED trail

-----------------------------------------------------------------------------
Init ==
    /\ trail = <<>>
    /\ userKey \in Keys
    /\ finalized = FALSE
    /\ stored = Unset
    /\ req = [s \in Slots |-> None]
    /\ written = {<<>>}
    /\ stores = 0
    /\ damage = NoDamage

(* The body of v1 is signed with the key of the moment over its hash, or   *)
(* not signed; the contract need not have that hash.                       *)
OldFinalization(s) ==
    \E yaml, c \in Contracts, key \in {Pem, None}, signed \in BOOLEAN :
        FinalizeBuild(s, yaml, c, IF signed THEN Signed(c) ELSE None, key)

Work ==
    \/ \E s \in Slots, h \in Submissions : SubmitSigned(s, h)
    \/ \E s \in Slots, h \in Finalizations, c \in Contracts : FinalizeContract(s, h, c)
    \/ \E s \in Slots : DeleteAssignments(s) \/ SetFinalized(s)
    \/ \E s \in Slots : OldFinalization(s) \/ AcknowledgeDownload(s)
    \/ \E s \in Slots : Store(s) \/ Log(s) \/ Stop(s)
    \/ \E k \in Keys \cup {None} : SetKey(k)

Decay ==
    \/ \E i, j \in DOMAIN trail : CorruptRow(i, j) \/ SwapRows(i, j)
    \/ \E i \in DOMAIN trail : LoseRow(i)
    \/ \E c \in Contracts : CorruptContract(c)

Next == Work \/ Decay
Spec == Init /\ [][Next]_vars

-----------------------------------------------------------------------------
(* VerifyBuildAuditChain: the verdict on each row.                         *)

\* Faulty variant: the first row is not compared with the genesis hash.
LinkOKAfterFirst(i) == i = 1 \/ trail[i].prev = trail[i - 1].hash

LinkOK(i) == trail[i].prev = IF i = 1 THEN Genesis ELSE trail[i - 1].hash
HashOK(i) == trail[i].hash = EventHash(trail[i].data, trail[i].prev)

\* Faulty variant: the contract goes first, as it did in v1.
SignatureHashOfContract(r, default) ==
    IF r.data.contract # None THEN r.data.contract
    ELSE IF r.data.request # None THEN r.data.request ELSE default

(* signatureHashForEvent: the hash of the request goes before that of the  *)
(* contract, and only some events may be verified by the contract.         *)
SignatureHash(r, default) ==
    IF r.data.request # None THEN r.data.request
    ELSE IF r.type \in {"BUILD_FINALIZED", "CONTRACT_DOWNLOADED"} /\ r.data.contract # None
         THEN r.data.contract
         ELSE default

(* VerifySignature; what is no hash, Pem, never verifies.                  *)
Verifies(pub, hash, sig) == sig.by = pub /\ sig.over = hash

RequiresSignature(type) == type # "ROLE_ASSIGNED"

\* Faulty variant: the key the actor has now.
SignatureOKNow(r) ==
    IF r.signature # None /\ userKey # None
    THEN Verifies(userKey, SignatureHash(r, r.hash), r.signature)
    ELSE r.signature # None \/ ~RequiresSignature(r.type)

SignatureOK(r) ==
    IF r.signature # None /\ r.pub # None
    THEN Verifies(r.pub, SignatureHash(r, r.hash), r.signature)
    ELSE r.signature # None \/ ~RequiresSignature(r.type)

Verified(i) == LinkOK(i) /\ HashOK(i) /\ SignatureOK(trail[i])

ChainIntact == \A i \in DOMAIN trail : LinkOK(i) /\ HashOK(i)

(* VerifyContractIntegrity, reading build and trail at the same time: the  *)
(* first finalization found must carry a signature that verifies.          *)
FirstFinalization(i) ==
    /\ i \in DOMAIN trail
    /\ trail[i].type = "BUILD_FINALIZED"
    /\ \A j \in 1 .. i - 1 : trail[j].type # "BUILD_FINALIZED"

\* Faulty variant: the signature is expected over the contract.
AttestsContract(r) ==
    /\ r.signature # None
    /\ r.pub # None
    /\ Verifies(r.pub, stored.hash, r.signature)

Attests(r) ==
    /\ r.signature # None
    /\ r.pub # None
    /\ Verifies(r.pub, SignatureHash(r, stored.hash), r.signature)

\* Faulty variant: the stored text is not hashed again.
ContractValidUnhashed ==
    /\ finalized
    /\ stored.yaml # None
    /\ \E i \in DOMAIN trail : FirstFinalization(i) /\ Attests(trail[i])

ContractValid ==
    /\ finalized
    /\ stored.yaml # None
    /\ stored.hash = stored.yaml
    /\ \E i \in DOMAIN trail : FirstFinalization(i) /\ Attests(trail[i])

-----------------------------------------------------------------------------
TypeOK ==
    /\ trail \in Seq(Row)
    /\ userKey \in Keys \cup {None}
    /\ finalized \in BOOLEAN
    /\ stored \in Columns
    /\ req \in [Slots -> Request \cup {None}]
    /\ written \subseteq Seq(Data)
    /\ stores \in Nat
    /\ damage \in [trail : Nat, contract : {0, 1}]

(* A chain that verifies tells a story that was once the whole story: data *)
(* changed, rows lost in the middle, reordered or relinked are all found,  *)
(* whatever was recorded afterwards.  Only the loss of the latest events   *)
(* passes, since nothing says how many there were.                         *)
IntactMeansRecorded ==
    ChainIntact => [i \in DOMAIN trail |-> trail[i].data] \in written

(* What the verification may hold against a row that was not damaged: the  *)
(* key changed between the check of the signature and its recording; or    *)
(* the build was finalized by PATCH /status, or by the deprecated route    *)
(* without a signature in the body, or with a public key in it, which is   *)
(* stored as a hash that nothing verifies.                                 *)
Excused(r) ==
    \/ r.signature # None /\ r.pub \notin {None, r.signature.by}
    \/ r.type = "BUILD_FINALIZED" /\ (r.signature = None \/ r.data.request = Pem)

(* No false alarm: as long as the trail is not damaged the chain verifies, *)
(* and so does every event that is not excused.  Whatever a writer signs   *)
(* is what the verification later looks for.                               *)
UndamagedVerifies ==
    damage.trail = 0 =>
        \A i \in DOMAIN trail : /\ LinkOK(i) /\ HashOK(i)
                                /\ Verified(i) \/ Excused(trail[i])

(* The verdict on an event is final: new events, new keys, revoked keys    *)
(* and another finalization leave it as it was.                            *)
VerdictStands ==
    [][damage' = damage => \A i \in DOMAIN trail : Verified(i)' = Verified(i)]_vars

(* What a valid contract means, whatever became of the trail: the event    *)
(* found names the contract that is stored, or its signature is over that  *)
(* contract, and it was made with the key recorded there.  (The type of an *)
(* event enters no hash: a finalization can be given the data of another   *)
(* event, which names no contract; its signature is then verified by the   *)
(* contract stored.)  Where two requests finalized the build, the event    *)
(* found need not be about the contract.                                   *)
ContractVouched ==
    (ContractValid /\ stores = 1) =>
        \A i \in DOMAIN trail : FirstFinalization(i) =>
            /\ trail[i].signature.by = trail[i].pub
            /\ stored.yaml \in {trail[i].data.contract, trail[i].signature.over}

(* The contract of a finalized build whose first finalization was recorded *)
(* with the key that signed it is found valid, and stays so.  (An event    *)
(* recorded without a key passes in the trail; the contract is then        *)
(* "signature missing".)                                                   *)
GenuineVerifies ==
    \A i \in DOMAIN trail :
        (/\ damage = NoDamage
         /\ stored.yaml = stored.hash
         /\ FirstFinalization(i)
         /\ trail[i].data.contract # None /\ trail[i].pub # None
         /\ ~Excused(trail[i]))
        => ContractValid
=============================================================================
