----------------------------- MODULE AuditChain -----------------------------
(***************************************************************************)
(* AuditService.LogEvent of internal/service/audit_service.go, run by any  *)
(* number of concurrent requests for one build.                            *)
(*                                                                         *)
(* LogEvent is three autocommitted queries: read the latest event, read    *)
(* the actor's user row, insert the new event.  Nothing but the constraint *)
(* UNIQUE (build_id, sequence_no) orders two calls.  Here a call is a      *)
(* "writer" that takes one query per step and may stop between any two of  *)
(* them (request timeout, lost connection, crash).  Meanwhile users may    *)
(* register or lose public keys.                                           *)
(*                                                                         *)
(* SHA-256 is taken as injective: the hash of an event is the free term    *)
(* built from its data and the previous hash, that is, the sequence of the *)
(* data hashed so far.  The genesis hash is the empty sequence.            *)
(***************************************************************************)
EXTENDS Naturals, FiniteSets, Sequences

CONSTANTS
    Writers,      \* calls of LogEvent that may overlap
    Actors,       \* users in whose name events are recorded
    EventData,    \* event_data documents
    Receipts,     \* those of download acknowledgments (CONTRACT_DOWNLOADED)
    Keys,         \* public keys a user can register
    NoKey,        \* NULL in users.public_key and in the event's columns
    NoCall,       \* no local variables: the call has not started or is over
    MaxEvents     \* bound: no call starts once this many events are stored

ASSUME KeyAssumption == NoKey \notin Keys
ASSUME ReceiptAssumption == Receipts \subseteq EventData
ASSUME BoundAssumption == MaxEvents \in Nat

VARIABLES
    rows,         \* the rows of audit_events of this build
    userKey,      \* users.public_key
    pc,           \* next query of each call
    call          \* the local variables of each call

vars == <<rows, userKey, pc, call>>

Genesis == <<>>
\* Faulty variant: the hash of the data alone.
HashWithoutPrevious(d, prev) == <<d>>
EventHash(d, prev) == Append(prev, d)
Hashes == Seq(EventData)

Row == [seq : Nat \ {0}, prev : Hashes, hash : Hashes, data : EventData,
        actor : Actors, signer : Keys \cup {NoKey}, pub : Keys \cup {NoKey}]

(* A call carries the row it is building; "signer" is the key whose private *)
(* half made the request signature (NoKey: the event is recorded unsigned). *)
Call == [data : EventData, actor : Actors, signer : Keys \cup {NoKey},
         pub : Keys \cup {NoKey}, seq : Nat \ {0}, prev : Hashes]

TypeOK ==
    /\ rows \subseteq Row
    /\ userKey \in [Actors -> Keys \cup {NoKey}]
    /\ pc \in [Writers -> {"idle", "latest", "actor", "insert"}]
    /\ call \in [Writers -> Call \cup {NoCall}]
    /\ \A w \in Writers : pc[w] = "idle" \/ call[w] \in Call

Init ==
    /\ rows = {}
    /\ userKey \in [Actors -> Keys \cup {NoKey}]
    /\ pc = [w \in Writers |-> "idle"]
    /\ call = [w \in Writers |-> NoCall]

Goto(w, next) == pc' = [pc EXCEPT ![w] = next]

Return(w) == /\ pc' = [pc EXCEPT ![w] = "idle"]
             /\ call' = [call EXCEPT ![w] = NoCall]

(***************************************************************************)
(* The start of a call.  A signed call comes from a request whose          *)
(* signature was verified against the key registered at that moment.       *)
(* AcknowledgeDownload always signs, and hands the key it verified with to *)
(* LogEvent; the other callers leave the key to be looked up.              *)
(***************************************************************************)
Begin(w, a, d, signed) ==
    /\ pc[w] = "idle"
    /\ Cardinality(rows) < MaxEvents
    /\ d \in Receipts => signed
    /\ signed => userKey[a] # NoKey
    /\ call' = [call EXCEPT ![w] =
                   [data |-> d, actor |-> a,
                    signer |-> IF signed THEN userKey[a] ELSE NoKey,
                    pub |-> IF d \in Receipts THEN userKey[a] ELSE NoKey,
                    seq |-> 1, prev |-> Genesis]]
    /\ Goto(w, "latest")
    /\ UNCHANGED <<rows, userKey>>

\* Faulty variant: ORDER BY sequence_no ASC.
First == {r \in rows : \A q \in rows : r.seq <= q.seq}

(* GetLatestAuditEvent: ORDER BY sequence_no DESC LIMIT 1. *)
Latest == {r \in rows : \A q \in rows : q.seq <= r.seq}

Positioned(c, n, prev) == [c EXCEPT !.seq = n, !.prev = prev]

\* Faulty variant: the first event is numbered zero.
ReadLatestFromZero(w) ==
    /\ pc[w] = "latest"
    /\ \/ /\ Latest = {}
          /\ call' = [call EXCEPT ![w] = Positioned(@, 0, Genesis)]
       \/ \E r \in Latest :
             call' = [call EXCEPT ![w] = Positioned(@, r.seq + 1, r.hash)]
    /\ Goto(w, "actor")
    /\ UNCHANGED <<rows, userKey>>

(* No rows: the chain starts at the genesis hash; otherwise it continues.   *)
ReadLatest(w) ==
    /\ pc[w] = "latest"
    /\ \/ /\ Latest = {}
          /\ call' = [call EXCEPT ![w] = Positioned(@, 1, Genesis)]
       \/ \E r \in Latest :
             call' = [call EXCEPT ![w] = Positioned(@, r.seq + 1, r.hash)]
    /\ Goto(w, "actor")
    /\ UNCHANGED <<rows, userKey>>

\* Faulty variant: the key the caller gave is overwritten.
ReadActorAlways(w) ==
    /\ pc[w] = "actor"
    /\ call' = [call EXCEPT ![w].pub = userKey[call[w].actor]]
    /\ Goto(w, "insert")
    /\ UNCHANGED <<rows, userKey>>

(* The actor's key is filled in from the users row unless the caller gave   *)
(* one; an error of this query is ignored and leaves the key NULL.          *)
ReadActor(w) ==
    /\ pc[w] = "actor"
    /\ \/ /\ call[w].pub = NoKey
          /\ call' = [call EXCEPT ![w].pub = userKey[call[w].actor]]
       \/ UNCHANGED call
    /\ Goto(w, "insert")
    /\ UNCHANGED <<rows, userKey>>

NewRow(c) == [seq |-> c.seq, prev |-> c.prev, hash |-> EventHash(c.data, c.prev),
              data |-> c.data, actor |-> c.actor, signer |-> c.signer, pub |-> c.pub]

\* Faulty variant: a schema without UNIQUE (build_id, sequence_no).
InsertWithoutUnique(w) ==
    /\ pc[w] = "insert"
    /\ rows' = rows \cup {NewRow(call[w])}
    /\ Return(w)
    /\ UNCHANGED userKey

\* Faulty variant: the database numbers the events, and refuses none.
InsertNumbered(w) ==
    /\ pc[w] = "insert"
    /\ rows' = rows \cup {NewRow([call[w] EXCEPT !.seq = Cardinality(rows) + 1])}
    /\ Return(w)
    /\ UNCHANGED userKey

(* CreateAuditEvent under UNIQUE (build_id, sequence_no).                   *)
InsertEvent(w) ==
    /\ pc[w] = "insert"
    /\ \A r \in rows : r.seq # call[w].seq
    /\ rows' = rows \cup {NewRow(call[w])}
    /\ Return(w)
    /\ UNCHANGED userKey

\* Faulty variant: ON CONFLICT DO UPDATE, the loser replaces the winner.
ConflictOverwrites(w) ==
    /\ pc[w] = "insert"
    /\ \E r \in rows : r.seq = call[w].seq
    /\ rows' = {r \in rows : r.seq # call[w].seq} \cup {NewRow(call[w])}
    /\ Return(w)
    /\ UNCHANGED userKey

(* Another call took the number: LogEvent returns the error, the event is   *)
(* not recorded.                                                            *)
InsertConflict(w) ==
    /\ pc[w] = "insert"
    /\ \E r \in rows : r.seq = call[w].seq
    /\ Return(w)
    /\ UNCHANGED <<rows, userKey>>

(* The call ends at any point: timeout, lost connection, failed query.      *)
Abort(w) ==
    /\ pc[w] # "idle"
    /\ Return(w)
    /\ UNCHANGED <<rows, userKey>>

RegisterPublicKey(a, k) ==
    /\ userKey' = [userKey EXCEPT ![a] = k]
    /\ UNCHANGED <<rows, pc, call>>

RevokePublicKey(a) ==
    /\ userKey' = [userKey EXCEPT ![a] = NoKey]
    /\ UNCHANGED <<rows, pc, call>>

LogEvent(w) == \/ ReadLatest(w)
               \/ ReadActor(w)
               \/ InsertEvent(w)
               \/ InsertConflict(w)

Undisturbed ==
    \/ \E w \in Writers, a \in Actors, d \in EventData, signed \in BOOLEAN :
          Begin(w, a, d, signed)
    \/ \E w \in Writers : LogEvent(w)
    \/ \E a \in Actors : \/ \E k \in Keys : RegisterPublicKey(a, k)
                         \/ RevokePublicKey(a)

Next == Undisturbed \/ \E w \in Writers : Abort(w)

Spec == Init /\ [][Next]_vars

(* No call is cut off, and a call that has started runs its queries: the   *)
(* goroutine of the request is scheduled and the database answers.  Nobody *)
(* is obliged to start a call or to change a key.                          *)
SteadySpec == /\ Init /\ [][Undisturbed]_vars
              /\ \A w \in Writers : WF_vars(LogEvent(w))

-----------------------------------------------------------------------------
(* VerificationService.VerifyBuildAuditChain scans the rows in the order of *)
(* sequence_no; the event before r in that scan is the one in Preceding(r). *)
Preceding(r) == {q \in rows : /\ q.seq < r.seq
                              /\ \A p \in rows : p.seq < r.seq => p.seq <= q.seq}

HashLinked(r) ==
    /\ Preceding(r) = {} => r.prev = Genesis
    /\ \A q \in Preceding(r) : r.prev = q.hash
    /\ r.hash = EventHash(r.data, r.prev)

(* However LogEvent calls interleave and fail, a reader that verifies the   *)
(* hash chain of the build finds it intact, at every moment.                *)
ChainIntact == \A r \in rows : HashLinked(r)

(* Sequence numbers run from 1 without a gap, and each is used once: a call *)
(* that loses the race, or dies, leaves no hole for a reader to explain.    *)
NoGapNoDuplicate ==
    \A r \in rows :
        /\ \A q \in rows : q.seq = r.seq => q = r
        /\ r.seq = 1 \/ \E q \in rows : q.seq + 1 = r.seq

(* The hash of an event commits to the data of every event up to it: two    *)
(* trails that end in the same hash tell the same story.                    *)
HashCommitsToHistory ==
    \A r, q \in rows : q.seq <= r.seq => /\ q.seq \in DOMAIN r.hash
                                         /\ r.hash[q.seq] = q.data

(* The proof of receipt: the signature of a download acknowledgment always  *)
(* verifies with the public key recorded beside it, even when the operator  *)
(* rotates or loses the key while the acknowledgment is being recorded.     *)
ReceiptVerifies ==
    \A r \in rows : r.data \in Receipts => /\ r.signer # NoKey
                                           /\ r.pub = r.signer

(* Losing the race for a number is the only way to fail, so somebody wins:  *)
(* once a call looks up the latest of n events, the trail grows beyond n,   *)
(* although nothing retries a call that lost.                               *)
SomeoneGetsIn ==
    \A w \in Writers, n \in 0 .. MaxEvents - 1 :
        (pc[w] = "latest" /\ Cardinality(rows) = n) ~> (Cardinality(rows) > n)

(* The trail as an abstract log: the data of the events by sequence number. *)
DataAt(i) == CHOOSE d \in EventData : \E r \in rows : r.seq = i /\ r.data = d
Log == INSTANCE AuditLog WITH log <- [i \in 1 .. Cardinality(rows) |-> DataAt(i)]

(* LogEvent implements the append-only log: each step of each call appends  *)
(* one whole event at the end of the trail or leaves the trail alone.       *)
ImplementsLog == Log!Spec

(* The calls that have looked up the latest event and hold the number after *)
(* it, as long as that is the number the next event will get.               *)
Current == {w \in Writers : /\ pc[w] \in {"actor", "insert"}
                            /\ call[w].seq = Cardinality(rows) + 1}
Race == INSTANCE OptimisticLog WITH log <- [i \in 1 .. Cardinality(rows) |-> DataAt(i)],
                                    current <- Current

(* To its callers LogEvent is an append by compare and set, although it is  *)
(* three queries and a constraint: the event of a call is recorded only if  *)
(* no other was recorded since the call looked up the latest one, and who   *)
(* records overtakes every other call that is past its look-up.             *)
ImplementsRace == Race!Spec
=============================================================================
