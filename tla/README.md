# A verification project for the persona-based contract generator

The program is a Go backend (chi router, pgx/sqlc, PostgreSQL) in which several
personas build one HPCR contract together: an auditor registers a signing key, a
solution provider submits the workload, a data owner the environment, the auditor
registers an attestation key and finalizes, and an environment operator downloads
the contract and acknowledges it with a signature. Every step is recorded in a
hash-chained audit trail.

The server uses no transactions and no locks around its handlers. **A handler is a
sequence of autocommitted queries**, so requests interleave query by query, and a
request may end after any of them (30 s timeout, lost connection, crash). What
protects the data are the checks a handler makes on what it read earlier and the
constraints of the schema. Which promises survive that is what this project is
about.

## 1. Inventory

| Component | State | Operations | Correct when |
|---|---|---|---|
| Audit trail (`service/audit_service.go`, `crypto/hash.go`) | `audit_events`, UNIQUE (build, sequence_no) | `LogEvent` = read latest, read actor, insert | chain verifies, no gap, no duplicate, append only, signatures verify |
| Build state machine (`model/build.go`, `service/build_service.go`) | `builds.status`, contract, `is_immutable` | `CreateBuild`, `TransitionStatus`, `FinalizeBuild`, cancel, `POST /attestation` | stages in order, terminal states final, every stage recorded |
| Sections (`service/section_service.go`, v2 routes) | `build_sections`, UNIQUE (build, role) | `SubmitSection`, `SubmitEnvironmentSection` | one per persona, at its stage, by its assignee |
| Assignments (`service/assignment_service.go`) | `build_assignments`, UNIQUE (build, role) | create, delete all, two-layer check | work is done by those assigned |
| Build keys (`service/key_service.go`, `keymgmt/`) | `build_keys`, `build_keys_private` | register in two modes, move the stage | the latest key can be used |
| Contract assembly (`service/contract_service.go`) | none of its own | `FinalizeContract` | contract is made of what is stored |
| Export (`service/export_service.go`) | receipt event, status | export, user data, `AcknowledgeDownload` | one receipt, for the stored contract |
| Attestation evidence (`service/attestation_service.go`) | evidence, verifications, `attestation_state` | upload, verify | state agrees with the latest verdict |
| Verification (`service/verification_service.go`) | none | verify trail, verify contract | accepts what the writers write, finds what was damaged |
| Users and roles (`service/user_service.go`) | `users`, `user_roles` | create, (de)activate, roles, keys, passwords | no one acts beyond their roles |
| Tokens, authentication, setup (`service/auth_service.go`, `middleware/auth.go`, `setup_guard.go`) | `api_tokens` | login, logout, create, revoke, `Auth` | revoked or inactive means out |
| Request signatures (`middleware/signature.go`) | none | verify header against the registered key | signed by the actor |
| Build access (`middleware/rbac.go`) | none | `RequireBuildAccess`, role guards | only those involved |
| Rotation (`service/rotation_service.go`) | none | report, force change, revoke key | |
| Rate limiter (`middleware/ratelimit.go`) | visitors, buckets, a lock, a ticker | take, ask, evict | one bucket per address, table does not grow for ever |
| System log, role catalogue, configuration, documentation pages, deployment | | | no decision depends on them |

**Interaction.** Router -> `Auth` (token, user, roles: three reads, the roles are a
snapshot) -> setup guard -> signature check -> role guard -> `RequireBuildAccess` ->
handler -> service. Section and key services call `TransitionStatus`, the contract
service calls `FinalizeBuild`, and all of them call `LogEvent`. The components share
nothing but the database.

**What is hard.** Check-then-write with other requests in between; UPDATEs without a
condition on what was checked; pairs of writes (section and status, status and event,
receipt and status, build and genesis event) of which only the first may happen; the
snapshot of the roles; the race for the next sequence number, which nothing retries.
`PROJECT.json` lists each hazard at its line with the properties that watch it.

## 2. Modules

| Module | Models | Promise |
|---|---|---|
| `AuditLog` | the trail as its readers see it: a list that grows at its end | abstract |
| `OptimisticLog` | the trail as the callers of `LogEvent` see it: an append by compare and set | abstract |
| `AuditChain` | `LogEvent` for one build, one action per query; keys change meanwhile | implements `OptimisticLog` and `AuditLog` |
| `BuildLifecycle` | the documented state diagram of a build and its contract | abstract |
| `BuildWorkflow` | every request that changes a build, one action per query | implements `BuildLifecycle` when requests do not overlap |
| `Accounts` | users, roles, tokens, login, the middleware in front of every request, seeding | who may act, and when |
| `AttestationEvidence` | evidence of a final build, its verdicts, and the keys it is judged by | |
| `Verification` | what the two verifications answer, against all writers and damage to the rows | |
| `TokenBucket` | one bucket per address, for ever | abstract |
| `RateLimiter` | the table of limiters, its two locks and its cleaning | implements `TokenBucket` |
| `AuditChain_proofs`, `BuildWorkflow_proofs`, `BuildRecords_proofs`, `BuildSerial_proofs`, `Accounts_proofs`, `AttestationEvidence_proofs`, `RateLimiter_proofs`, `Verification_proofs` | theorems and proofs; `BuildRecords_proofs` builds on `BuildWorkflow_proofs`, `BuildSerial_proofs` on both | |
| `MCAuditChain`, `MCBuildWorkflow`, `MCAccounts`, `MCAttestationEvidence`, `MCVerification`, `MCRateLimiter` | symmetry and initial situations for TLC | |

Modules meet where the code does: `AuditChain` is the refinement of the one step
`LogEvent` takes in `AttestationEvidence` and `Verification` (and the two it takes in
`BuildWorkflow`); `Accounts` decides who may begin the requests of `BuildWorkflow`;
the contract `BuildWorkflow` assembles is what the last two are about.

Operators marked "Faulty variant" are mistakes one could make in the code. No
specification uses them; put in the place of the definition that follows they show
that the properties notice.

### AuditChain

A call of `LogEvent` is a *writer* with a program counter `pc` (`latest`, `actor`,
`insert`: its next query) and local variables `call`. `ReadLatest`, `ReadActor`,
`InsertEvent`/`InsertConflict` are the three queries; `Abort` is the end of a call
between any two. `RegisterPublicKey` and `RevokePublicKey` are other requests that
change `users.public_key` meanwhile. SHA-256 is taken as injective: a hash is the
sequence of the data hashed so far, so two hashes are equal exactly when two histories
are. A signature is the key that made it. The unique constraint is the guard of
`InsertEvent`; without it (a mutant) the chain breaks. Rows carry `signer`, which is
the key of `signature`, and `pub`, the column `actor_public_key`.

### BuildWorkflow

One build. The tables are `status`, `contract`, `sections`, `keys`, `assigned`, `held`
(user_roles) and `events`. A request occupies a *slot*; its record `req[s]` has the
label of its next query, `at`, and the locals of the handler: the user, the snapshot
`roles`, the stage it aims at, the draft of a contract, the length of the trail it
saw. Operations begin with the guards of the route (`PatchStatus`, `CancelBuild`,
`RegisterAttestation`, `FinalizeUploaded` (v1), `FinalizeContract` (v2),
`SubmitSection`, `SubmitEnvironmentSection`, `RegisterKey`, `AcknowledgeDownload`,
`CreateAssignment`, `DeleteBuildAssignments`), pass `RequireBuildAccess`, and then take
one action per query. Shared code is shared here too: sections and keys continue in
`status.read` (`TransitionStatus`), v2 finalization in `finalize.read`
(`FinalizeBuild`), and all end in `trail.read`/`trail.append` (`LogEvent`). A request
that fails any check or query ends with `Stop`, at any point, undoing nothing, which
is also what a crash does to it.

`LogEvent` takes two steps here instead of three: remember the length of the trail,
append if it is still the same. Both are the same thing to the requests, as is proved:
`OptimisticLog`, where a writer that has read the log is `current` until somebody
records an event, and may record one only while it is. In `AuditChain` a call is
current while it holds the number after the last one, in `BuildWorkflow` a request
while the trail is as long as it was.

`advanced`, `authority` and `told` are history variables: who ever set which stage,
who was ever assigned to what, which stages clients were told are reached. No action
reads them.

A contract is the record of what it was made from: `made` (`"backend"` or a contract
a client assembled), and the ordinals of the signing key, the attestation key, and the
key named by the environment section. A key is its mode. With the database provider a
generated key cannot be stored: its private half is inserted before the row its
foreign key refers to (`InsertKey`); `KeyProvider = "memory"` is the development
provider, under which v2 finalization can be reached at all.

In `BuildWorkflow`, data left out: payload contents, form checks, hashes and signatures of requests (all
can only make a request stop earlier, which `Stop` does too), timestamps, pagination.

### Accounts

The tables are `account` (users: `is_active`, `must_change_password`, the key and
whether it has expired, the password), `roles` (user_roles, with who assigned each)
and `token` (api_tokens). A request about users comes with a token, or is a login, and
its record `req[s]` walks through the chain of middleware that `main.go` installs:
`ReadToken`, `ReadUser`, `ReadRoles` are the three queries of `Auth`; `SetupGuard` and
the role guards decide on what these found (`pending`, `roles`), and
`RequireRequestSignature` reads the user once more (`CheckSignature`). Only then does a
handler change anything: `CreateUser` and `ClearRoles` followed by one `AssignRole` per
role, one `UPDATE` of a user (`Update`), or of a token. Login checks the row it read
(`CheckCredentials`) and inserts a token later (`LoginToken`).

The process is `server`: it listens from `StartServer` on, and seeds at the same time
(`SeedList`, `SeedCreate`, `SeedAssign`); `Crash` ends it and every request at any
moment, also where the code itself gives up (`os.Exit`). Keys and tokens expire at any
time. What a request learnt is judged by history: `met[s]` has what held *at some
moment* since the request began (its token not revoked and not expired, its user
active, the set-up done, the role held, the password right), `completed` the set-up
steps taken for each user, `admins` who ever was an administrator.

`RegisterPublicKey` and `ChangePassword` are open to the owner and to administrators,
so an administrator can complete the set-up of another user; the code allows it, and
`FirstLoginEnforced` counts it.

### AttestationEvidence

One build that becomes final (`Finalize`, either with the key its contract was
assembled with or, by `PATCH /status`, without any). The tables are `column`
(`attestation_state` and `attestation_verified_by`), `evidence`, `verdicts` with its
UNIQUE evidence, and `keys` with the private halves (`private`) their provider stores.
An upload checks the state (`BeginUpload`), then inserts the evidence, updates the
state, and records its event; a verification checks the state and reads the evidence
the client names (`BeginVerify`), reads the latest key and judges (`Judge`), inserts
the verdict, updates the state, and records its event. The loss of the event is
ignored, as in the code (`Log`), and `Stop` ends a request between any two steps. Keys
can still be registered: `CreateKey` stores what the provider keeps and `InsertKey`
the row, which makes this the model of key management too.

Evidence is its position and the key it was made for; whether records could be opened
is a choice, possible only with the private half. `SignatureValid` is the one fact
about the data: the signature is checked with `build_keys.public_key` as it is stored,
which is encrypted when a certificate came with the registration.

History: `overtaken` are the requests in progress that read a state another request
has replaced, `orderly` is true until one of those writes the state or a request dies
between its row and the state.

### Verification

What `GET /builds/{id}/verify` and `/verify-contract` answer are operators
(`LinkOK`, `HashOK`, `SignatureHash`, `SignatureOK`, `Verified`, `ContractValid`) over
the stored rows; the actions are everybody who writes those rows: an ordinary signed
event (`SubmitSigned`), one whose signature is not kept (`DeleteAssignments`), the
three ways to finalize (`FinalizeContract` of v2, `FinalizeBuild` of v1, whose body is
unchecked, and `SetFinalized`, which is `PATCH /status`), and `AcknowledgeDownload`.
The hash a signature is over covers method and path, so those of `POST
.../finalize` (`Finalizations`) are not those of any other request (`Submissions`).
A request has had its signature checked with the key registered when it began
(`Begin`); `Store` writes status and contract, `Log` appends the event with the key
registered *then*, or none if the user cannot be read; `SetKey` changes it in between.

The fault model is the one the verification exists for. Between requests a row's data,
link and hash, any of the three, are replaced by another row's (`CorruptRow`), rows
are lost or change places (`LoseRow`, `SwapRows`), a column of the contract changes
(`CorruptContract`); requests go on afterwards. Type, actor and sequence number are
not damaged: they enter no hash, so whatever became of them the chain would verify. History: `written` are the trails there have been,
`stores` counts finalizations, `damage` what was damaged.

### RateLimiter

`visitors` is the map, with the limiter of each address; `seen` and `limiter` its
`lastSeen` and the token bucket of `golang.org/x/time/rate`, which is an external
library modelled by what it computes. `Find` and `Create` are `getVisitor`, under the
lock of the table; `Allow` asks the limiter after that lock is released; `CleanUp` is
the goroutine of `cleanupVisitors`, woken by a ticker that drops ticks (`due`).
Points in time are kept as ages, and `Tick` is the passing of one unit; an age stops
growing where it makes no more difference. The code has two instances that share
nothing: 20 tokens, 10 per second, 5 minutes; and 3 tokens, 5 per minute, 10 minutes.

## 3. Runs

All runs are exhaustive. For builds, evidence and the trail deadlock is not checked,
because the bounds stop the system and a server without requests rests; in the other
modules something can always happen, and it is.

| Run | Configuration | Shows |
|---|---|---|
| `chain` | `AuditChain`: 3 writers, 3 events, ordinary and receipt events, an actor's key comes and goes | `TypeOK`, `ChainIntact`, `NoGapNoDuplicate`, `HashCommitsToHistory`; `ReceiptVerifies`: the proof of receipt stays verifiable whatever happens to the operator's key; `ImplementsRace`: the three queries implement `OptimisticLog`; a database that numbered the rows itself (`InsertNumbered`) would still give a log, but not this one |
| `progress` | 3 writers, fairness | `SomeoneGetsIn` |
| `stages` | `BuildWorkflow` from `WORKLOAD_SUBMITTED`, 2 requests: status, environment, other sections | `TypeOK`, `NoStageSkipped`, `SectionsFollowStages`, `SuccessIsRecorded`, `SectionOnce` |
| `contract` | from `ATTESTATION_KEY_REGISTERED`, memory provider, 2 requests: signing keys registered again, cancel, both finalizations, acknowledgment | `ContractWhole`, `DownloadedHasReceipt`, `TrailTellsTheTruth` |
| `assignments` | 2 users, 2 requests, roles and assignments change | `WorkAuthorised` |
| `serial` | 1 request at a time, every operation | `ImplementsLifecycle`, `ReceiptForStoredContract` |
| `accounts` | 2 requests of every operation, 3 users, 3 tokens, from a new database and from one with an administrator and a user whose set-up is half done | `TypeOK`, `ActsWithin`, `FirstLoginEnforced`, `GrantsComeFromAdmins` |
| `attestation` | 2 requests, 2 pieces of evidence, 2 keys, memory provider, no certificates | `TypeOK`, `DecisionIsStored`, `OneVerdict`, `TrailTellsOfStored`, `StateAgrees`, `OnlyOvertakenStray`, `GeneratedKeyUsable`, `VerifiedForContract` |
| `verification` | 2 requests, keys, hashes and contracts; 2 events, 2 damages | `TypeOK`, `IntactMeansRecorded`, `UndamagedVerifies`, `VerdictStands`, `ContractVouched`, `GenuineVerifies` |
| `ratelimit` | 2 addresses, 2 requests, buckets of 2, fairness | `TypeOK`, `HeldIsCurrent`, `Forgotten`; `RateLimiter` implements `TokenBucket` |

What the properties of the last three mean:

* A state of the attestation is backed by rows, and so is an event, whoever races or
  dies (`DecisionIsStored`, `TrailTellsOfStored`); evidence is judged once
  (`OneVerdict`). The documented lifecycle is left only by a request that acts on a
  state already replaced (`OnlyOvertakenStray`), and while none does and none dies
  half way, `UPLOADED` means there is evidence to judge and a decision is the latest
  one (`StateAgrees`). Evidence is found genuine only for the key of the contract or
  one registered since (`VerifiedForContract`).
* A chain that verifies was once the whole trail (`IntactMeansRecorded`): only the
  loss of the latest events passes. Without damage every event verifies, with the
  exceptions `Excused` names (`UndamagedVerifies`), and what becomes of keys changes
  no verdict (`VerdictStands`). With one finalization, a contract that is found valid,
  whether or not the chain verifies, is the one the first `BUILD_FINALIZED` event names
  or the one its signature is over, and that signature was made with the key recorded
  beside it (`ContractVouched`); a genuine contract is accepted (`GenuineVerifies`).
* Evicting idle addresses never gives a client a fuller bucket (`ImplementsBucket`),
  requests under way never hold an evicted limiter (`HeldIsCurrent`), and addresses
  that stay away are forgotten (`Forgotten`).

Two runs end in a violation, each of something the documents promise:

| Run | Property | What happens |
|---|---|---|
| `terminal` | `TerminalIsFinal` | a stale status write takes a build out of a terminal state |
| `genuine` | `GenuineIsVerified` | evidence made with the build's own generated key, whose records were opened, is rejected: its signature is checked with the encrypted public key |

The second needs `Certificate = TRUE`, what the route demands of a generated key; then
nothing is ever `VERIFIED`, and so `attestation`, to see both verdicts, registers keys
without one, which the service accepts.

**Also seen.** More of what the models do and the documents do not say, without a run
of its own:

* the key stored beside a signature is read after the signature was checked
  (`audit_service.go:74`), so an event can carry a key that did not sign it; `Excused`
  names this, and the proof of receipt, which hands its key over, is exempt
  (`ReceiptVerifies`);
* `PATCH /status` finalizes without a contract, and with an event without signature;
  a v1 finalization whose body carries a public key stores that where the verifier
  looks for a hash, and never verifies;
* a key that was revoked or could not be read is recorded as NULL; the trail then
  verifies, but the contract's "finalization signature" is "missing";
* `verify-contract` takes the first `BUILD_FINALIZED` event, which after two
  finalizations need not be about the stored contract;
* `POST /attestation` answers `already_registered` from three stages before the
  attestation key (`build_handler.go:313`);
* a crash while seeding, after the first user and before their role, leaves a system
  with users, hence no further seeding, and no administrator (`main.go:391`); nor does
  anything keep the last administrator from being deactivated or stripped of the role.
  Nobody can repair either through the server (`LockedOutForGood`);
* a build finalized by `PATCH /status` never gets a contract, and one whose
  acknowledgment died between receipt and status is never marked as downloaded: the
  retry finds the receipt and is refused (`DeadEndForGood` of `BuildRecords_proofs`);
* two acknowledgments that both find no receipt record one each, though "downloaded
  acknowledgement is one-time" (`Design/2-low-level-design.md:436`; with one request at
  a time there is one, `ReceiptForStoredContract`);
* a creation that dies after its row leaves a build whose trail begins with another
  event than the "genesis audit event" of `build_service.go:29`;
* a verification that dies between verdict and state leaves `UPLOADED` for good: its
  evidence cannot be judged again, and no other is taken (`DeadEndForGood` of
  `AttestationEvidence_proofs`);
* the rate limit of logins, "5 per minute", lets 8 through in some minutes: three that
  were saved and five earned (`RateBoundAlways`);
* evidence sent as multipart/form-data, for which the handler has a branch, cannot
  pass `RequireRequestSignature`, which hashes a JSON body (`signature.go:123`);
* the verification ignores `sequence_no`, event type and actor, which enter no hash; a
  row with type `BUILD_FINALIZED` and the data of an ordinary event is therefore
  verified by the stored contract's hash, which is why `ContractVouched` has two cases.

**Bounds.** Two requests suffice for every race found here and for the mutants: each
is one request acting on what another has changed. Events and keys are bounded only
where requests *begin* (`MaxEvents`, `MaxKeys`), so nothing that has begun is cut
short; the bounds leave room for the stages of the run and at least one repetition.
Which operations a run exercises is `Ops`: the operations that can interfere with the
property at hand. `InitialStage` starts a build with its first stages completed one after the other.
Since `PATCH /status` completes a stage without its section, Init leaves any of the
two sections out; that these builds can exist is what `serial` shows, which starts
from a new build. `chain` needs three events, for a row with a row before
and after it, and three writers, for one to lose to the other two. `accounts`
lets two requests or expiries happen (`MaxInputs`): one that acts and one that changes
what it has checked, in any interleaving; the third user and token are there to be
created. `attestation` has a request for each side of every race, evidence to be
judged while other evidence arrives, and a key that replaces another (2.5 million
states). `verification` lets two rows be damaged twice, with requests before and after
(`MaxEvents` counts the rows there are, so after a loss more are recorded; 2.5 million
states); a row lost *between* two others is beyond it. `ratelimit` has
one request to take a limiter and one to be refused, three limiters for two addresses
so that an evicted one may still be referred to, and `Cleanup = Burst * Cost + MaxPause`
exactly, the tightest values the assumption allows. `MaxPause` is an assumption
about scheduling, for the server far below the minutes it has. The proofs of section 4
hold for every value of all these constants.

**Fairness.** In `progress` (`SteadySpec`) no call is cut off, and a call that has
begun runs its queries (weak fairness of `LogEvent(w)`): the goroutine of a request is
scheduled and the pool answers. Nobody is obliged to begin a call. In `ratelimit`
(`FairSpec`) time passes, and the goroutines of requests (`Allow`) and of the ticker
(`CleanUp`) are scheduled; no client is obliged to send, and `CleanUp` may be
arbitrarily late.

## 4. Proofs

Proved by TLAPS for every value of the constants (any number of users, requests,
writers, keys, events, addresses), from the named assumptions of the modules: `None`
and `NoKey` are not values, the initial roles and assignments have their types, at
least one user may create builds, bounds are natural numbers, hashes of requests are
not hashes of contracts, and in the databases the server starts on roles and tokens
refer to users there are (the foreign keys of the schema). Theorems about fewer
instances than the module allows state the restriction as their assumption.

* `AuditChain_proofs`: `TypeCorrect`, `NoGapNoDuplicateAlways`, `ChainIntactAlways`,
  `HashCommitsAlways`, `ReceiptVerifiesAlways`, `ImplementsRaceAlways`,
  `ImplementsLogAlways`. The inductive invariant relates the rows *and the calls in
  flight*: the numbers in use are exactly 1 to the number of rows, a row's hash has the
  length of its number, and a call past `ReadLatest` holds either the genesis position
  or the number and hash of a row that is still there. Without the part about calls the
  insertion of a stale row could not be shown harmless. A second invariant, that a
  hash carries the data of each earlier row, gives `HashCommitsToHistory`. For the
  refinement of `OptimisticLog` it is shown what each query does to the set of calls
  whose number is the next one: the look-up enters its call, the insertion of a row
  empties the set since no call holds a number beyond the next, and nothing else but
  the end of a call changes it. That of `AuditLog` follows. `LosersWereOvertaken` is
  the part of `SomeoneGetsIn` that is not liveness: a call is refused only if the trail
  has grown since it read the latest event, and its event recorded only if it has not.
* `BuildWorkflow_proofs`: `TypeCorrect`; `NoStageSkippedAlways`, from `StageInv`;
  `DownloadedHasReceiptAlways`. `NoStageSkipped` is not inductive: a request about to
  write a status acts on an old read. `StageInv` adds `Knows`, what each request may
  rely on at each label: if it is past its check, the stage before its target *has been
  reached*, which other requests cannot undo because reached stages only grow. The
  status itself can move under it (run `terminal`); the history cannot. For receipts
  the invariant says that a request about to write `CONTRACT_DOWNLOADED` already has
  its event in the trail and that no other route can write that status. `TrailIsRace`
  and `TrailIsLog`: the trail of a build that is created empty implements the same
  `OptimisticLog` and `AuditLog` as `AuditChain`, so that the two steps `LogEvent`
  takes here are rightly taken for it. The invariant is that no request has read more
  events than there are; all else is which steps lead to and from `trail.append`.
* `BuildRecords_proofs`: `SectionOnceAlways`, `WorkAuthorisedAlways`,
  `SectionsFollowStagesAlways`, `TrailTellsTheTruthAlways`, `ContractWholeAlways`.
  All rest on `RecordInv`: what a request has established by each label (it was
  allowed, it placed its row, it aims at this stage, what it will report has happened,
  it gathered this draft) speaks only of that part of the store which grows and never
  shrinks, so no other request can make it false. The lemma that says so (`Kept`) is
  proved once for every action. On `SuccessInv`, which adds what has been *told*, rest
  `ToldIsRecorded`, for all routes, and `SuccessIsRecordedAlways`, for instances
  without the operation `"attestation"`: the idempotent answer of that route
  contradicts the property (see above), and `ToldIsRecorded` says what it is worth.
  `DeadEndForGood`: the four situations (`DeadEnd`) from which no request, retry or
  restart moves a build; the invariant needed is that nobody who passed a check
  earlier is still on the way (`Moving`).
* `BuildSerial_proofs`: `ReceiptForStoredContractAlways`, `ImplementsLifecycleAlways`
  and `TerminalIsFinalAlone`, under `OneAtATime` (one slot); the second from a new
  build. With one request at a time what it read is still so (`Steady`), at every
  label; that is what the refinement of `BuildLifecycle` needs, and what overlapping
  requests lack: the run `terminal` and the last theorem together say that it takes two
  requests that overlap to move a build out of a terminal state.
* `Accounts_proofs`: `TypeCorrect`, `ActsWithinAlways`, `FirstLoginEnforcedAlways`,
  `GrantsComeFromAdminsAlways`: all four properties of `accounts`. The invariant `IInv`
  has these parts: requests and tokens refer to rows there are (`References`); labels
  fit operations (`Shape`); what holds now has been seen (`Sees`); what a request has
  seen by each label, whatever has changed since (`Knowledge`), which is where the old
  reads of `Auth` are shown to be no older than the request; the flags of an account
  tell what was done for its user (`Settled`); who acts as an administrator has been
  one, and while the first is being made there is nobody else (`Authority`). `Moves`
  says once how any step may change a request, and the other lemmas split on it.
  `LockedOutForGood`: once no administrator is active, none is being made by the
  start-up, and no request found its user to be one (`LockedOut`), this is so for
  ever, and no role is assigned or removed and no user added any more. It is
  `Knowledge` that rules out a request that had passed its checks before.
* `AttestationEvidence_proofs`: all properties of `attestation`. `CoreInv` relates the
  requests in flight to the rows they have written, `KeyInv` the keys being registered
  to the private halves stored, `AgreeInv` says what an orderly history lets one
  conclude about the state, and that a request not overtaken still sees the state it
  read. `FollowsDocumentsAlone`: with one request at a time nobody is overtaken, and
  the documented lifecycle is kept, also by requests that die. `DeadEndForGood`: an
  attestation that says `UPLOADED` with all its evidence judged stays so.
* `RateLimiter_proofs`: `TypeCorrect`, `HeldIsCurrentAlways`, `ImplementsBucketAlways`,
  from `CleanupAssumption`: an address is evicted only after a time in which a
  bucket fills and no request can still hold the limiter. `main.go` gives 300 s against
  2 s and 600 s against 36 s. The invariant adds that addresses do not share limiters,
  that an address with a request under way was seen lately, and that a limiter has
  filled by as much as its address was away.
  `RateBoundAlways` says what this limits in numbers: a meter, which counts the
  requests of an address that are let through and the time since it was last set to
  zero, may be set to zero at any time, and never shows more than what the bucket holds
  plus what is earned. The meter changes nothing (`MeterIsRateLimiter`), and the
  invariant is that what is left in the bucket comes on top of what was let through.
* `Verification_proofs`: all properties of `verification`. For `UndamagedVerifies` and
  `GenuineVerifies` the invariants say of rows *and of events on their way* that their
  signature is over what the verifier will look for, and relate the contract stored to
  the finalization recorded. `IntactMeansRecorded` rests on two facts: every hash there
  is in the trail, after any damage, is the hash of a trail that was written
  (`HashesWritten`); and where all links and hashes verify, the hash of row n is the
  data of rows 1 to n (`HashIsHistory`). The second is an induction along the chain,
  done as a least counterexample (`LeastNumber`). `ContractVouched` rests on `Vouch`:
  damage only mixes columns of rows (`Mixed`), so a row that has the signature or the
  data of a finalization got it from one, and while the build was finalized once all of
  these are about the contract stored. `UndamagedIsLog`: without damage the trail, with
  all its columns, is the log of `AuditLog`, which is what is meant by `Log` being one
  step here.

**Only model-checked:** `SomeoneGetsIn` and `Forgotten` (liveness is out of the
prover's reach). `SuccessIsRecorded` with the operation `"attestation"` is not claimed.
Every other property of a passing run is proved. The theorems that restate no property
of a run (`ToldIsRecorded`, the dead ends, `LockedOutForGood`, `RateBoundAlways`,
`TrailIsRace`) were tried with TLC on the instances of section 3 or smaller ones, their
hypotheses included: each dead end is reachable, and two requests do race for a place
in the trail.

## 5. Plan

1. `AuditLog`, `OptimisticLog`, `AuditChain` and proofs, with the refinements - done.
2. `BuildLifecycle`, `BuildWorkflow`, all its invariants and its refinement - done.
3. `Accounts` and its proofs - done. Left: the profile, and what a second attempt finds
   after a user was created without all of its roles.
4. `AttestationEvidence` with key management, and its proofs - done. Left: keys that
   are registered while the build is not final yet are in `BuildWorkflow` only.
5. `Verification` and its proofs - done. Left: the reads of the verification itself
   one by one.
6. `TokenBucket`, `RateLimiter` and proofs - done.
7. Composition - the trails of `BuildWorkflow` and `Verification` are shown to be the
   log `AuditChain` implements, and the two steps of `LogEvent` in `BuildWorkflow` to
   be the compare and set that its three are - done. `AttestationEvidence` keeps the
   latest event only, and any event may be lost there, as `LogEvent`'s error is
   discarded.

## 6. Not modelled, and why

Encryption, certificate handling and the contract-go library (data: what matters of
them is which key something was made with); parsing, formatting, CORS, logging,
Swagger (no state); the system log and `last_used_at` (best effort, read by no
decision); role catalogue (constant); deployment; the five minutes a signed request
stays valid (it may arrive again in every model). TLC's time
bounds one build at a time: builds share only users and roles.
