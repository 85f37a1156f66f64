--------------------- MODULE AttestationEvidence_proofs ---------------------
(***************************************************************************)
(* Theorems about AttestationEvidence, for any number of requests, users,  *)
(* keys and pieces of evidence, with either provider.                      *)
(***************************************************************************)
EXTENDS AttestationEvidence, SequenceTheorems, TLAPS

-----------------------------------------------------------------------------
(* How a step changes the requests.                                        *)

Requests == [Slots -> Request \cup {None}]

LEMMA NewType ==
    ASSUME NEW u \in Users, NEW l \in Labels
    PROVE  New(u, l) \in Request
BY DEF New, NoKey, Request, Key, Modes, Verdicts

(* The locals a request starts a phase with.                               *)
LEMMA KeyLocals ==
    ASSUME NEW u \in Users, NEW n \in Nat, NEW m \in Modes
    PROVE  /\ [New(u, "key.insert") EXCEPT !.key = [id |-> n, mode |-> m]] \in Request
           /\ ([New(u, "key.insert") EXCEPT !.key = [id |-> n, mode |-> m]]).at = "key.insert"
           /\ ([New(u, "key.insert") EXCEPT !.key = [id |-> n, mode |-> m]]).key = [id |-> n, mode |-> m]
<1>1. [id |-> n, mode |-> m] \in Key /\ "key.insert" \in Labels
  BY DEF Key, Labels
<1> QED
  BY <1>1, NewType DEF Request, New

LEMMA UploadLocals ==
    ASSUME NEW u \in Users, NEW l \in Labels, NEW k \in Nat
    PROVE  /\ [New(u, l) EXCEPT !.madeFor = k] \in Request
           /\ ([New(u, l) EXCEPT !.madeFor = k]).at = l
           /\ ([New(u, l) EXCEPT !.madeFor = k]).madeFor = k
BY NewType DEF Request, New

LEMMA MarkLocals ==
    ASSUME NEW u \in Users, NEW l \in Labels, NEW n \in Nat
    PROVE  /\ [New(u, l) EXCEPT !.on = n] \in Request
           /\ ([New(u, l) EXCEPT !.on = n]).at = l
           /\ ([New(u, l) EXCEPT !.on = n]).on = n
BY NewType DEF Request, New

LEMMA HoldType ==
    ASSUME req \in Requests, NEW s \in Slots, NEW r \in Request \cup {None}, Hold(s, r)
    PROVE  /\ req' \in Requests
           /\ req'[s] = r
           /\ \A t \in Slots \ {s} : req'[t] = req[t]
BY DEF Hold, Requests

LEMMA GotoType ==
    ASSUME req \in Requests, NEW s \in Slots, req[s] # None, NEW l \in Labels, Goto(s, l)
    PROVE  /\ req' \in Requests
           /\ req'[s] = [req[s] EXCEPT !.at = l]
           /\ req'[s] # None
           /\ \A t \in Slots \ {s} : req'[t] = req[t]
<1>1. req[s] \in Request
  BY DEF Requests
<1>2. [req[s] EXCEPT !.at = l] \in Request
  BY <1>1 DEF Request
<1>3. req' = [req EXCEPT ![s] = [req[s] EXCEPT !.at = l]]
  BY DEF Goto
<1> QED
  BY <1>2, <1>3, NoneAssumption DEF Requests

LEMMA DoneType ==
    ASSUME req \in Requests, NEW s \in Slots, Done(s)
    PROVE  /\ req' \in Requests
           /\ req'[s] = None
           /\ \A t \in Slots \ {s} : req'[t] = req[t]
BY DEF Done, Requests

LEMMA AtType ==
    ASSUME req \in Requests, NEW s \in Slots, NEW l, At(s, l)
    PROVE  /\ req[s] \in Request /\ req[s] # None /\ req[s].at = l
           /\ req[s].user \in Users /\ req[s].key \in Key /\ req[s].on \in Nat
           /\ req[s].madeFor \in Nat /\ req[s].verdict \in Verdicts
<1>1. req[s] \in Request
  BY DEF At, Requests
<1> QED
  BY <1>1 DEF At, Request

-----------------------------------------------------------------------------
(* Every step keeps the types.  Each lemma also says what its action does  *)
(* to the request, so that the invariants need not look at it again.       *)

Others(s) == \A t \in Slots \ {s} : req'[t] = req[t]

LEMMA CreateKeyMoves ==
    ASSUME TypeOK, NEW s \in Slots, NEW u \in Auditors, CreateKey(s, u)
    PROVE  /\ TypeOK'
           /\ Others(s) /\ req'[s].at = "key.insert"
           /\ \E m \in Modes : /\ req'[s].key = [id |-> made + 1, mode |-> m]
                               /\ m = "generate" => made + 1 \in private'
           /\ made' = made + 1
           /\ private \subseteq private'
<1>1. PICK m \in Modes : /\ MakeKey(s, u, m)
                         /\ m = "generate" => private' = private \cup {made + 1}
                         /\ m # "generate" => private' = private
  BY DEF CreateKey, Modes
<1> DEFINE r == [New(u, "key.insert") EXCEPT !.key = [id |-> made + 1, mode |-> m]]
<1>2. made + 1 \in Nat /\ req \in Requests
  BY DEF TypeOK, Requests
<1>3. r \in Request /\ r.at = "key.insert" /\ r.key = [id |-> made + 1, mode |-> m]
  <2>1. u \in Users
    BY DEF Users
  <2> QED
    BY <1>2, <2>1, KeyLocals
<1>4. Hold(s, r)
  BY <1>1 DEF MakeKey
<1> HIDE DEF r
<1>5. req' \in Requests /\ req'[s] = r /\ Others(s)
  BY <1>2, <1>3, <1>4, HoldType DEF Others
<1>6. private' \subseteq Nat /\ private \subseteq private'
  BY <1>1, <1>2 DEF TypeOK
<1>7. TypeOK'
  BY <1>1, <1>2, <1>5, <1>6 DEF TypeOK, MakeKey, Requests, history
<1> QED
  BY <1>1, <1>3, <1>5, <1>6, <1>7 DEF MakeKey

LEMMA InsertKeyMoves ==
    ASSUME TypeOK, NEW s \in Slots, InsertKey(s)
    PROVE  TypeOK' /\ Others(s) /\ req'[s] = None
<1>1. req \in Requests /\ Done(s) /\ At(s, "key.insert")
  BY DEF TypeOK, InsertKey, Requests
<1>2. req' \in Requests /\ req'[s] = None /\ Others(s)
  BY <1>1, DoneType DEF Others
<1>3. req[s].key \in Key
  BY <1>1, AtType
<1>4. keys' \in Seq(Key)
  BY <1>3 DEF TypeOK, InsertKey
<1> QED
  BY <1>2, <1>4 DEF TypeOK, InsertKey, Requests, Done

LEMMA FinalizeMoves ==
    ASSUME TypeOK, Finalize
    PROVE  TypeOK'
<1>1. contractKey' \in Nat
  <2>1. \A i \in DOMAIN keys : keys[i] \in Key
    BY DEF TypeOK
  <2>2. \A i \in DOMAIN keys : keys[i].id \in Nat
    BY <2>1 DEF Key
  <2> QED
    BY <2>2 DEF TypeOK, Finalize
<1> QED
  BY <1>1 DEF TypeOK, Finalize, tables, history

LEMMA BeginUploadMoves ==
    ASSUME TypeOK, NEW s \in Slots, NEW u \in Uploaders, BeginUpload(s, u)
    PROVE  /\ TypeOK'
           /\ Others(s) /\ req'[s].at = "upload.insert"
<1>1. PICK k \in 0 .. made : Hold(s, [New(u, "upload.insert") EXCEPT !.madeFor = k])
  BY DEF BeginUpload, StartUpload
<1>2. k \in Nat /\ req \in Requests
  BY DEF TypeOK, Requests
<1> DEFINE r == [New(u, "upload.insert") EXCEPT !.madeFor = k]
<1>3. r \in Request /\ r.at = "upload.insert"
  <2>1. u \in Users /\ "upload.insert" \in Labels
    BY DEF Users, Labels
  <2> QED
    BY <1>2, <2>1, UploadLocals
<1>h. Hold(s, r)
  BY <1>1
<1> HIDE DEF r
<1>4. req' \in Requests /\ req'[s] = r /\ Others(s)
  BY <1>h, <1>1, <1>2, <1>3, HoldType DEF Others
<1> QED
  BY <1>3, <1>4 DEF BeginUpload, StartUpload, TypeOK, tables, history, Requests

LEMMA InsertEvidenceMoves ==
    ASSUME TypeOK, NEW s \in Slots, InsertEvidence(s)
    PROVE  /\ TypeOK'
           /\ Others(s) /\ req'[s].at = "upload.mark" /\ req'[s].on = Len(evidence) + 1
           /\ Len(evidence) \in Nat /\ Len(evidence') = Len(evidence) + 1
           /\ \A i \in 1 .. Len(evidence) : evidence'[i] = evidence[i]
           /\ DOMAIN evidence = 1 .. Len(evidence) /\ DOMAIN evidence' = 1 .. Len(evidence')
<1>1. req \in Requests /\ At(s, "upload.insert") /\ Len(evidence) + 1 \in Nat
  BY DEF TypeOK, InsertEvidence, Requests
<1>u. PICK u \in Users : u = req[s].user
  BY <1>1, AtType
<1>n. PICK n \in Nat : n = Len(evidence) + 1
  BY <1>1
<1> DEFINE r == [New(u, "upload.mark") EXCEPT !.on = n]
<1>2. r \in Request /\ r.at = "upload.mark" /\ r.on = n
  <2>1. "upload.mark" \in Labels
    BY DEF Labels
  <2> QED
    BY <2>1, MarkLocals
<1>3. Hold(s, r)
  BY <1>u, <1>n DEF InsertEvidence
<1> HIDE DEF r
<1>4. req' \in Requests /\ req'[s] = r /\ Others(s)
  BY <1>1, <1>2, <1>3, HoldType DEF Others
<1>5. req[s].madeFor \in Nat
  BY <1>1, AtType
<1>6. evidence' \in Seq(Nat)
  BY <1>5 DEF TypeOK, InsertEvidence
<1>7. TypeOK'
  BY <1>4, <1>6 DEF TypeOK, InsertEvidence, Requests, history
<1> QED
  BY <1>n, <1>2, <1>4, <1>5, <1>7 DEF InsertEvidence, TypeOK

(* Goto leaves the locals alone.                                           *)
LEMMA GotoKeeps ==
    ASSUME req \in Requests, NEW s \in Slots, req[s] # None, NEW l \in Labels, Goto(s, l)
    PROVE  /\ req' \in Requests /\ req'[s] # None
           /\ \A t \in Slots \ {s} : req'[t] = req[t]
           /\ req'[s].at = l /\ req'[s].on = req[s].on
           /\ req'[s].verdict = req[s].verdict /\ req'[s].user = req[s].user
<1> DEFINE r == req[s]
           q == [r EXCEPT !.at = l]
<1>1. r \in Request
  BY DEF Requests
<1>2. /\ req' \in Requests /\ req'[s] = q /\ req'[s] # None
      /\ \A t \in Slots \ {s} : req'[t] = req[t]
  BY GotoType
<1> HIDE DEF r
<1>3. q.at = l /\ q.on = r.on /\ q.verdict = r.verdict /\ q.user = r.user
  BY <1>1 DEF Request
<1> HIDE DEF q
<1> QED
  BY <1>2, <1>3 DEF r

LEMMA MarkUploadedMoves ==
    ASSUME TypeOK, NEW s \in Slots, MarkUploaded(s)
    PROVE  /\ TypeOK'
           /\ Others(s) /\ req'[s].at = "upload.log" /\ req'[s].on = req[s].on
           /\ column'.state = "UPLOADED"
<1>1. req \in Requests /\ req[s] # None /\ Goto(s, "upload.log")
  BY DEF TypeOK, MarkUploaded, At, Requests
<1>2. "upload.log" \in Labels /\ "UPLOADED" \in States
  BY DEF Labels, States
<1>3. /\ req' \in Requests /\ Others(s)
      /\ req'[s].at = "upload.log" /\ req'[s].on = req[s].on
  BY <1>1, <1>2, GotoKeeps DEF Others
<1>4. column' = [state |-> "UPLOADED", by |-> None]
  BY DEF MarkUploaded, SetState
<1>5. overtaken' \subseteq Slots /\ orderly' \in BOOLEAN
  BY DEF MarkUploaded, SetState, TypeOK
<1> QED
  BY <1>2, <1>3, <1>4, <1>5 DEF MarkUploaded, TypeOK, Requests

LEMMA LogUploadMoves ==
    ASSUME TypeOK, NEW s \in Slots, LogUpload(s)
    PROVE  TypeOK' /\ Others(s) /\ req'[s] = None
<1>1. req \in Requests /\ At(s, "upload.log") /\ Done(s)
  BY DEF TypeOK, LogUpload, Log, Requests
<1>2. req' \in Requests /\ req'[s] = None /\ Others(s)
  BY <1>1, DoneType DEF Others
<1>3. req[s].on \in Nat
  BY <1>1, AtType
<1>4. [type |-> "ATTESTATION_EVIDENCE_UPLOADED", on |-> req[s].on] \in UploadEvent
  BY <1>3 DEF UploadEvent
<1>5. lastEvent' \in UploadEvent \cup VerdictEvent \cup {None}
  BY <1>4 DEF LogUpload, Log, TypeOK
<1> QED
  BY <1>1, <1>2, <1>5 DEF LogUpload, Log, TypeOK, Done, Requests

LEMMA BeginVerifyMoves ==
    ASSUME TypeOK, NEW s \in Slots, NEW u \in Auditors, BeginVerify(s, u)
    PROVE  /\ TypeOK'
           /\ Others(s) /\ req'[s].at = "verify.judge" /\ req'[s].on \in DOMAIN evidence
           /\ req'[s].madeFor = evidence[req'[s].on] /\ req'[s].user = u
<1>1. PICK e \in DOMAIN evidence :
          Hold(s, [New(u, "verify.judge") EXCEPT !.on = e, !.madeFor = evidence[e]])
  BY DEF BeginVerify
<1>2. e \in Nat /\ evidence[e] \in Nat /\ req \in Requests
  BY DEF TypeOK, Requests
<1>k. PICK k \in Nat : k = evidence[e]
  BY <1>2
<1> DEFINE r == [New(u, "verify.judge") EXCEPT !.on = e, !.madeFor = k]
<1>3. /\ r \in Request /\ r.at = "verify.judge" /\ r.on = e /\ r.madeFor = k
      /\ r.user = u
  <2>1. u \in Users /\ "verify.judge" \in Labels
    BY DEF Users, Labels
  <2>2. New(u, "verify.judge") \in Request
    BY <2>1, NewType
  <2> QED
    BY <1>2, <2>2 DEF Request, New
<1>h. Hold(s, r)
  BY <1>1, <1>k
<1> HIDE DEF r
<1>4. req' \in Requests /\ req'[s] = r /\ Others(s)
  BY <1>h, <1>2, <1>3, HoldType DEF Others
<1>5. TypeOK'
  BY <1>3, <1>4 DEF BeginVerify, TypeOK, tables, history, Requests
<1> QED
  BY <1>3, <1>4, <1>5, <1>k

(* The latest key is one of the keys.                                      *)
LEMMA LatestKey ==
    ASSUME TypeOK, keys # <<>>
    PROVE  Len(keys) \in DOMAIN keys /\ keys[Len(keys)] \in Key
BY DEF TypeOK

LEMMA JudgeMoves ==
    ASSUME TypeOK, NEW s \in Slots, Judge(s)
    PROVE  /\ TypeOK'
           /\ Others(s) /\ req'[s].at = "verify.insert" /\ req'[s].on = req[s].on
           /\ req'[s].madeFor = req[s].madeFor /\ req'[s].user = req[s].user
           /\ req'[s].key = keys[Len(keys)]
           /\ req'[s].verdict = "VERIFIED" => req[s].madeFor = keys[Len(keys)].id
           /\ keys # <<>>
<1>k. PICK key \in Key : key = keys[Len(keys)]
  BY LatestKey DEF Judge, JudgeWith
<1>j. JudgeWith(s, key)
  BY <1>k DEF Judge
<1>1. PICK o \in BOOLEAN :
          Hold(s, [req[s] EXCEPT
                     !.at = "verify.insert", !.key = key, !.opened = o,
                     !.verdict = IF o /\ SignatureValid(req[s].madeFor, key)
                                    THEN "VERIFIED" ELSE "REJECTED"])
  BY <1>j DEF JudgeWith
<1> DEFINE valid == o /\ SignatureValid(req[s].madeFor, key)
<1>2. PICK v \in Verdicts : /\ v = IF valid THEN "VERIFIED" ELSE "REJECTED"
                            /\ v = "VERIFIED" => valid
  <2>1. CASE valid
    <3>1. "VERIFIED" \in Verdicts
      BY DEF Verdicts
    <3> HIDE DEF valid
    <3> QED
      BY <2>1, <3>1
  <2>2. CASE ~valid
    <3>1. "REJECTED" \in Verdicts
      BY DEF Verdicts
    <3> HIDE DEF valid
    <3> QED
      BY <2>2, <3>1
  <2> QED
    BY <2>1, <2>2
<1>s. ASSUME v = "VERIFIED" PROVE req[s].madeFor = key.id
  <2>1. valid
    BY <1>2, <1>s
  <2>2. SignatureValid(req[s].madeFor, key)
    BY <2>1
  <2> QED
    BY <2>2 DEF SignatureValid
<1>r. req \in Requests /\ At(s, "verify.judge")
  BY <1>j DEF TypeOK, Requests, JudgeWith
<1>3. req[s] \in Request /\ "verify.insert" \in Labels
  BY <1>r, AtType DEF Labels
<1> DEFINE r == [req[s] EXCEPT !.at = "verify.insert", !.key = key, !.opened = o,
                               !.verdict = v]
<1>4. /\ r \in Request /\ r.at = "verify.insert" /\ r.on = req[s].on /\ r.key = key
      /\ r.madeFor = req[s].madeFor /\ r.verdict = v /\ r.user = req[s].user
  BY <1>3 DEF Request
<1>h. Hold(s, r)
  BY <1>1, <1>2
<1> HIDE DEF r
<1>5. req' \in Requests /\ req'[s] = r /\ Others(s)
  BY <1>h, <1>r, <1>3, <1>4, HoldType DEF Others
<1>6. TypeOK'
  BY <1>5, <1>j DEF JudgeWith, TypeOK, tables, history, Requests
<1> QED
  BY <1>s, <1>4, <1>5, <1>6, <1>j, <1>k DEF JudgeWith

LEMMA InsertVerdictMoves ==
    ASSUME TypeOK, NEW s \in Slots, req[s].user \in Auditors, InsertVerdict(s)
    PROVE  /\ TypeOK'
           /\ Others(s) /\ req'[s].at = "verify.mark" /\ req'[s].on = req[s].on
           /\ req'[s].verdict = req[s].verdict /\ req'[s].user = req[s].user
           /\ req'[s] # None
           /\ Len(verdicts) \in Nat /\ Len(verdicts') = Len(verdicts) + 1
           /\ \A i \in 1 .. Len(verdicts) : verdicts'[i] = verdicts[i]
           /\ verdicts'[Len(verdicts')] =
                 [on |-> req[s].on, verdict |-> req[s].verdict, by |-> req[s].user]
           /\ DOMAIN verdicts = 1 .. Len(verdicts)
           /\ DOMAIN verdicts' = 1 .. Len(verdicts')
<1>1. req \in Requests /\ At(s, "verify.insert") /\ "verify.mark" \in Labels
  BY DEF TypeOK, InsertVerdict, Requests, Labels
<1>u. PICK u \in Auditors : u = req[s].user
  OBVIOUS
<1>n. PICK n \in Nat, v \in Verdicts : n = req[s].on /\ v = req[s].verdict
  BY <1>1, AtType
<1>v. u \in Users
  BY DEF Users
<1> DEFINE r == [New(u, "verify.mark") EXCEPT !.on = n, !.verdict = v]
<1>2. /\ r \in Request /\ r.at = "verify.mark" /\ r.on = n /\ r.verdict = v
      /\ r.user = u
  <2>1. New(u, "verify.mark") \in Request
    BY <1>1, <1>v, NewType
  <2> QED
    BY <2>1 DEF Request, New
<1>h. Hold(s, r)
  BY <1>u, <1>n DEF InsertVerdict, Judged
<1> HIDE DEF r
<1>3. req' \in Requests /\ req'[s] = r /\ Others(s)
  BY <1>h, <1>1, <1>2, HoldType DEF Others
<1> DEFINE row == [on |-> n, verdict |-> v, by |-> u]
<1>4. row \in Verdict
  BY DEF Verdict
<1>5. verdicts' = Append(verdicts, row)
  BY <1>u, <1>n DEF InsertVerdict, Judgement
<1> HIDE DEF row
<1>6. /\ verdicts' \in Seq(Verdict) /\ Len(verdicts) \in Nat
      /\ Len(verdicts') = Len(verdicts) + 1
      /\ \A i \in 1 .. Len(verdicts) : verdicts'[i] = verdicts[i]
      /\ verdicts'[Len(verdicts')] = row
      /\ DOMAIN verdicts = 1 .. Len(verdicts)
      /\ DOMAIN verdicts' = 1 .. Len(verdicts')
  BY <1>4, <1>5 DEF TypeOK
<1>7. TypeOK'
  BY <1>3, <1>6 DEF InsertVerdict, TypeOK, history, Requests
<1>8. req'[s] # None
  BY <1>2, <1>3, NoneAssumption
<1> QED
  BY <1>2, <1>3, <1>6, <1>7, <1>8, <1>u, <1>n DEF row

LEMMA MarkJudgedMoves ==
    ASSUME TypeOK, NEW s \in Slots, req[s].user \in Auditors, MarkJudged(s)
    PROVE  /\ TypeOK'
           /\ Others(s) /\ req'[s].at = "verify.log" /\ req'[s].on = req[s].on
           /\ req'[s].verdict = req[s].verdict /\ req'[s].user = req[s].user
           /\ column'.state = req[s].verdict /\ column'.by = req[s].user
           /\ req[s].verdict \in Verdicts
<1>1. /\ req \in Requests /\ req[s] # None /\ At(s, "verify.mark")
      /\ Goto(s, "verify.log") /\ "verify.log" \in Labels
  BY DEF TypeOK, MarkJudged, At, Requests, Labels
<1>2. /\ req' \in Requests /\ Others(s)
      /\ req'[s].at = "verify.log" /\ req'[s].on = req[s].on
      /\ req'[s].verdict = req[s].verdict /\ req'[s].user = req[s].user
  BY <1>1, GotoKeeps DEF Others
<1>3. req[s].verdict \in Verdicts /\ Verdicts \subseteq States
  BY <1>1, AtType DEF Verdicts, States
<1>4. column' = [state |-> req[s].verdict, by |-> req[s].user]
  BY DEF MarkJudged, SetState
<1>5. overtaken' \subseteq Slots /\ orderly' \in BOOLEAN
  BY DEF MarkJudged, SetState, TypeOK
<1>6. TypeOK'
  BY <1>2, <1>3, <1>4, <1>5 DEF MarkJudged, TypeOK, Requests
<1> QED
  BY <1>2, <1>3, <1>4, <1>6

LEMMA LogVerdictMoves ==
    ASSUME TypeOK, NEW s \in Slots, LogVerdict(s)
    PROVE  TypeOK' /\ Others(s) /\ req'[s] = None
<1>1. req \in Requests /\ At(s, "verify.log") /\ Done(s)
  BY DEF TypeOK, LogVerdict, Log, Requests
<1>2. req' \in Requests /\ req'[s] = None /\ Others(s)
  BY <1>1, DoneType DEF Others
<1>3. req[s].on \in Nat /\ req[s].verdict \in Verdicts
  BY <1>1, AtType
<1>4. [type |-> "ATTESTATION_VERIFIED", on |-> req[s].on, verdict |-> req[s].verdict]
         \in VerdictEvent
  BY <1>3 DEF VerdictEvent
<1>5. lastEvent' \in UploadEvent \cup VerdictEvent \cup {None}
  BY <1>4 DEF LogVerdict, Log, TypeOK
<1> QED
  BY <1>1, <1>2, <1>5 DEF LogVerdict, Log, TypeOK, Done, Requests

LEMMA StopMoves ==
    ASSUME TypeOK, NEW s \in Slots, Stop(s)
    PROVE  TypeOK' /\ Others(s) /\ req'[s] = None
<1>1. req' \in Requests /\ req'[s] = None /\ Others(s)
  BY DoneType DEF TypeOK, Stop, Requests, Others
<1>2. overtaken' \subseteq Slots /\ orderly' \in BOOLEAN
  BY DEF Stop, Done, TypeOK
<1> QED
  BY <1>1, <1>2 DEF Stop, TypeOK, tables, Requests

-----------------------------------------------------------------------------
(* The tables only grow, and what a request has written is in them.        *)

Grows ==
    /\ DOMAIN evidence \subseteq DOMAIN evidence'
    /\ DOMAIN verdicts \subseteq DOMAIN verdicts'
    /\ \A i \in DOMAIN verdicts : verdicts'[i] = verdicts[i]

Stored == {"upload.mark", "upload.log",
           "verify.judge", "verify.insert", "verify.mark", "verify.log"}
Verifying == {"verify.judge", "verify.insert", "verify.mark", "verify.log"}
Decided == {"verify.mark", "verify.log"}

HasVerdict(t) ==
    \E i \in DOMAIN verdicts : /\ verdicts[i].on = req[t].on
                               /\ verdicts[i].verdict = req[t].verdict
                               /\ verdicts[i].by = req[t].user

FactsOf(t) ==
    req[t] # None =>
        /\ req[t].at \in Verifying => req[t].user \in Auditors
        /\ req[t].at \in Stored => req[t].on \in DOMAIN evidence
        /\ req[t].at \in Decided => HasVerdict(t)

Rows == OneVerdict /\ DecisionIsStored /\ TrailTellsOfStored

CoreInv == TypeOK /\ (\A t \in Slots : FactsOf(t)) /\ Rows

LEMMA OthersKeepFacts ==
    ASSUME CoreInv, NEW s \in Slots, Others(s), Grows, FactsOf(s)'
    PROVE  \A t \in Slots : FactsOf(t)'
<1>1. SUFFICES ASSUME NEW t \in Slots, t # s PROVE FactsOf(t)'
  OBVIOUS
<1>2. FactsOf(t) /\ req'[t] = req[t]
  BY <1>1 DEF CoreInv, Others
<1> QED
  BY <1>2 DEF FactsOf, HasVerdict, Grows

(* A step that ends a request, or moves it without writing to the tables.  *)
LEMMA EndedFacts ==
    ASSUME NEW s \in Slots, req'[s] = None
    PROVE  FactsOf(s)'
BY DEF FactsOf

LEMMA TablesKept ==
    ASSUME UNCHANGED <<column, evidence, verdicts>>
    PROVE  Grows /\ (Rows /\ UNCHANGED lastEvent => Rows')
BY DEF Grows, Rows, OneVerdict, DecisionIsStored, TrailTellsOfStored

LEMMA CreateKeyCore ==
    ASSUME CoreInv, NEW s \in Slots, NEW u \in Auditors, CreateKey(s, u)
    PROVE  CoreInv'
<1>1. UNCHANGED <<column, evidence, verdicts, lastEvent>>
  BY DEF CreateKey, MakeKey
<1>2. TypeOK' /\ Others(s) /\ req'[s].at = "key.insert"
  BY CreateKeyMoves DEF CoreInv
<1>3. FactsOf(s)'
  BY <1>2 DEF FactsOf, Verifying, Stored, Decided
<1> QED
  BY <1>1, <1>2, <1>3, TablesKept, OthersKeepFacts DEF CoreInv

LEMMA InsertKeyCore ==
    ASSUME CoreInv, NEW s \in Slots, InsertKey(s)
    PROVE  CoreInv'
<1>1. UNCHANGED <<column, evidence, verdicts, lastEvent>>
  BY DEF InsertKey
<1>2. TypeOK' /\ Others(s) /\ req'[s] = None
  BY InsertKeyMoves DEF CoreInv
<1> QED
  BY <1>1, <1>2, EndedFacts, TablesKept, OthersKeepFacts DEF CoreInv

LEMMA FinalizeCore ==
    ASSUME CoreInv, Finalize
    PROVE  CoreInv'
<1>1. UNCHANGED <<column, evidence, verdicts, lastEvent, req>>
  BY DEF Finalize, tables
<1>2. TypeOK'
  BY FinalizeMoves DEF CoreInv
<1>3. \A t \in Slots : FactsOf(t)'
  BY <1>1 DEF CoreInv, FactsOf, HasVerdict
<1> QED
  BY <1>1, <1>2, <1>3, TablesKept DEF CoreInv

LEMMA BeginUploadCore ==
    ASSUME CoreInv, NEW s \in Slots, NEW u \in Uploaders, BeginUpload(s, u)
    PROVE  CoreInv'
<1>1. UNCHANGED <<column, evidence, verdicts, lastEvent>>
  BY DEF BeginUpload, StartUpload, tables
<1>2. TypeOK' /\ Others(s) /\ req'[s].at = "upload.insert"
  BY BeginUploadMoves DEF CoreInv
<1>3. FactsOf(s)'
  BY <1>2 DEF FactsOf, Verifying, Stored, Decided
<1> QED
  BY <1>1, <1>2, <1>3, TablesKept, OthersKeepFacts DEF CoreInv

LEMMA InsertEvidenceCore ==
    ASSUME CoreInv, NEW s \in Slots, InsertEvidence(s)
    PROVE  CoreInv'
<1>1. UNCHANGED <<column, verdicts, lastEvent>>
  BY DEF InsertEvidence
<1>2. /\ TypeOK' /\ Others(s) /\ req'[s].at = "upload.mark"
      /\ req'[s].on = Len(evidence) + 1
      /\ Len(evidence) \in Nat /\ Len(evidence') = Len(evidence) + 1
      /\ DOMAIN evidence = 1 .. Len(evidence) /\ DOMAIN evidence' = 1 .. Len(evidence')
  BY InsertEvidenceMoves DEF CoreInv
<1>3. Grows
  BY <1>1, <1>2 DEF Grows
<1>4. FactsOf(s)'
  BY <1>2 DEF FactsOf, Verifying, Stored, Decided
<1>5. OneVerdict' /\ TrailTellsOfStored'
  BY <1>1, <1>3 DEF CoreInv, Rows, OneVerdict, TrailTellsOfStored, Grows
<1>6. evidence' # <<>>
  BY <1>2
<1>7. DecisionIsStored'
  BY <1>1, <1>6 DEF CoreInv, Rows, DecisionIsStored
<1> QED
  BY <1>2, <1>3, <1>4, <1>5, <1>7, OthersKeepFacts DEF CoreInv, Rows

LEMMA MarkUploadedCore ==
    ASSUME CoreInv, NEW s \in Slots, MarkUploaded(s)
    PROVE  CoreInv'
<1>1. UNCHANGED <<evidence, verdicts, lastEvent>> /\ At(s, "upload.mark")
  BY DEF MarkUploaded
<1>2. /\ TypeOK' /\ Others(s) /\ req'[s].at = "upload.log" /\ req'[s].on = req[s].on
      /\ column'.state = "UPLOADED"
  BY MarkUploadedMoves DEF CoreInv
<1>3. Grows
  BY <1>1 DEF Grows
<1>4. req[s].on \in DOMAIN evidence
  BY <1>1 DEF CoreInv, FactsOf, At, Stored
<1>5. FactsOf(s)'
  BY <1>1, <1>2, <1>4 DEF FactsOf, Verifying, Stored, Decided
<1>6. OneVerdict' /\ TrailTellsOfStored'
  BY <1>1 DEF CoreInv, Rows, OneVerdict, TrailTellsOfStored
<1>7. DecisionIsStored'
  BY <1>1, <1>2, <1>4 DEF DecisionIsStored, Verdicts
<1> QED
  BY <1>2, <1>3, <1>5, <1>6, <1>7, OthersKeepFacts DEF CoreInv, Rows

LEMMA LogUploadCore ==
    ASSUME CoreInv, NEW s \in Slots, LogUpload(s)
    PROVE  CoreInv'
<1>1. UNCHANGED <<column, evidence, verdicts>> /\ At(s, "upload.log")
  BY DEF LogUpload, Log
<1>2. TypeOK' /\ Others(s) /\ req'[s] = None
  BY LogUploadMoves DEF CoreInv
<1>3. req[s].on \in DOMAIN evidence
  BY <1>1 DEF CoreInv, FactsOf, At, Stored
<1>4. \/ lastEvent' = lastEvent
      \/ lastEvent' = [type |-> "ATTESTATION_EVIDENCE_UPLOADED", on |-> req[s].on]
  BY DEF LogUpload, Log
<1>5. TrailTellsOfStored'
  BY <1>1, <1>3, <1>4 DEF CoreInv, Rows, TrailTellsOfStored
<1>6. OneVerdict' /\ DecisionIsStored'
  BY <1>1 DEF CoreInv, Rows, OneVerdict, DecisionIsStored
<1> QED
  BY <1>1, <1>2, <1>5, <1>6, EndedFacts, TablesKept, OthersKeepFacts DEF CoreInv, Rows

LEMMA BeginVerifyCore ==
    ASSUME CoreInv, NEW s \in Slots, NEW u \in Auditors, BeginVerify(s, u)
    PROVE  CoreInv'
<1>1. UNCHANGED <<column, evidence, verdicts, lastEvent>>
  BY DEF BeginVerify, tables
<1>2. /\ TypeOK' /\ Others(s) /\ req'[s].at = "verify.judge"
      /\ req'[s].on \in DOMAIN evidence /\ req'[s].user = u
  BY BeginVerifyMoves DEF CoreInv
<1>3. FactsOf(s)'
  BY <1>1, <1>2 DEF FactsOf, Verifying, Stored, Decided
<1> QED
  BY <1>1, <1>2, <1>3, TablesKept, OthersKeepFacts DEF CoreInv

LEMMA JudgeCore ==
    ASSUME CoreInv, NEW s \in Slots, Judge(s)
    PROVE  CoreInv'
<1>1. UNCHANGED <<column, evidence, verdicts, lastEvent>> /\ At(s, "verify.judge")
  BY DEF Judge, JudgeWith, tables
<1>2. /\ TypeOK' /\ Others(s) /\ req'[s].at = "verify.insert"
      /\ req'[s].on = req[s].on /\ req'[s].user = req[s].user
  BY JudgeMoves DEF CoreInv
<1>3. req[s].on \in DOMAIN evidence /\ req[s].user \in Auditors
  BY <1>1 DEF CoreInv, FactsOf, At, Stored, Verifying
<1>4. FactsOf(s)'
  BY <1>1, <1>2, <1>3 DEF FactsOf, Verifying, Stored, Decided
<1> QED
  BY <1>1, <1>2, <1>4, TablesKept, OthersKeepFacts DEF CoreInv

LEMMA InsertVerdictCore ==
    ASSUME CoreInv, NEW s \in Slots, InsertVerdict(s)
    PROVE  CoreInv'
<1>1. /\ UNCHANGED <<column, evidence, lastEvent>> /\ At(s, "verify.insert")
      /\ \A i \in DOMAIN verdicts : verdicts[i].on # req[s].on
  BY DEF InsertVerdict
<1>2. req[s].on \in DOMAIN evidence /\ req[s].user \in Auditors
  BY <1>1 DEF CoreInv, FactsOf, At, Stored, Verifying
<1>3. /\ TypeOK' /\ Others(s) /\ req'[s].at = "verify.mark" /\ req'[s].on = req[s].on
      /\ req'[s].verdict = req[s].verdict /\ req'[s].user = req[s].user
      /\ Len(verdicts) \in Nat /\ Len(verdicts') = Len(verdicts) + 1
      /\ \A i \in 1 .. Len(verdicts) : verdicts'[i] = verdicts[i]
      /\ verdicts'[Len(verdicts')] =
            [on |-> req[s].on, verdict |-> req[s].verdict, by |-> req[s].user]
      /\ DOMAIN verdicts = 1 .. Len(verdicts)
      /\ DOMAIN verdicts' = 1 .. Len(verdicts')
  BY <1>2, InsertVerdictMoves DEF CoreInv
<1>4. Grows
  BY <1>1, <1>3 DEF Grows
<1>5. Len(verdicts') \in DOMAIN verdicts'
  BY <1>3
<1>6. HasVerdict(s)'
  BY <1>3, <1>5 DEF HasVerdict
<1>7. FactsOf(s)'
  BY <1>1, <1>2, <1>3, <1>6 DEF FactsOf, Stored, Verifying
<1>8. OneVerdict'
  <2>1. SUFFICES ASSUME NEW i \in DOMAIN verdicts', NEW j \in DOMAIN verdicts'
                 PROVE  /\ verdicts'[i].on \in DOMAIN evidence'
                        /\ verdicts'[i].on = verdicts'[j].on => i = j
    BY DEF OneVerdict
  <2>2. \A k \in DOMAIN verdicts' : k \in DOMAIN verdicts \/ k = Len(verdicts')
    BY <1>3
  <2>3. \A k \in DOMAIN verdicts : verdicts'[k] = verdicts[k]
    BY <1>4 DEF Grows
  <2>4. verdicts'[Len(verdicts')].on = req[s].on
    BY <1>3
  <2> QED
    BY <1>1, <1>2, <2>2, <2>3, <2>4 DEF CoreInv, Rows, OneVerdict
<1>9. DecisionIsStored' /\ TrailTellsOfStored'
  BY <1>1, <1>4 DEF CoreInv, Rows, DecisionIsStored, TrailTellsOfStored, Grows
<1> QED
  BY <1>3, <1>4, <1>7, <1>8, <1>9, OthersKeepFacts DEF CoreInv, Rows

LEMMA MarkJudgedCore ==
    ASSUME CoreInv, NEW s \in Slots, MarkJudged(s)
    PROVE  CoreInv'
<1>1. UNCHANGED <<evidence, verdicts, lastEvent>> /\ At(s, "verify.mark")
  BY DEF MarkJudged
<1>2. req[s].on \in DOMAIN evidence /\ req[s].user \in Auditors /\ HasVerdict(s)
  BY <1>1 DEF CoreInv, FactsOf, At, Stored, Verifying, Decided
<1>3. /\ TypeOK' /\ Others(s) /\ req'[s].at = "verify.log" /\ req'[s].on = req[s].on
      /\ req'[s].verdict = req[s].verdict /\ req'[s].user = req[s].user
      /\ column'.state = req[s].verdict /\ column'.by = req[s].user
  BY <1>2, MarkJudgedMoves DEF CoreInv
<1>4. Grows
  BY <1>1 DEF Grows
<1>5. HasVerdict(s)'
  BY <1>1, <1>2, <1>3 DEF HasVerdict
<1>6. FactsOf(s)'
  BY <1>1, <1>2, <1>3, <1>5 DEF FactsOf
<1>7. OneVerdict' /\ TrailTellsOfStored'
  BY <1>1 DEF CoreInv, Rows, OneVerdict, TrailTellsOfStored
<1>8. evidence # <<>>
  BY <1>2 DEF CoreInv, TypeOK
<1>9. DecisionIsStored'
  BY <1>1, <1>2, <1>3, <1>8 DEF DecisionIsStored, HasVerdict
<1> QED
  BY <1>3, <1>4, <1>6, <1>7, <1>9, OthersKeepFacts DEF CoreInv, Rows

LEMMA LogVerdictCore ==
    ASSUME CoreInv, NEW s \in Slots, LogVerdict(s)
    PROVE  CoreInv'
<1>1. UNCHANGED <<column, evidence, verdicts>> /\ At(s, "verify.log")
  BY DEF LogVerdict, Log
<1>2. TypeOK' /\ Others(s) /\ req'[s] = None
  BY LogVerdictMoves DEF CoreInv
<1>3. req[s].on \in DOMAIN evidence /\ HasVerdict(s)
  BY <1>1 DEF CoreInv, FactsOf, At, Stored, Decided
<1>4. \/ lastEvent' = lastEvent
      \/ lastEvent' = [type |-> "ATTESTATION_VERIFIED", on |-> req[s].on,
                       verdict |-> req[s].verdict]
  BY DEF LogVerdict, Log
<1>5. TrailTellsOfStored'
  BY <1>1, <1>3, <1>4 DEF CoreInv, Rows, TrailTellsOfStored, HasVerdict
<1>6. OneVerdict' /\ DecisionIsStored'
  BY <1>1 DEF CoreInv, Rows, OneVerdict, DecisionIsStored
<1> QED
  BY <1>1, <1>2, <1>5, <1>6, EndedFacts, TablesKept, OthersKeepFacts DEF CoreInv, Rows

LEMMA StopCore ==
    ASSUME CoreInv, NEW s \in Slots, Stop(s)
    PROVE  CoreInv'
<1>1. UNCHANGED <<column, evidence, verdicts, lastEvent>>
  BY DEF Stop, tables
<1>2. TypeOK' /\ Others(s) /\ req'[s] = None
  BY StopMoves DEF CoreInv
<1> QED
  BY <1>1, <1>2, EndedFacts, TablesKept, OthersKeepFacts DEF CoreInv

LEMMA CoreInit == Init => CoreInv
<1> SUFFICES ASSUME Init PROVE CoreInv
  OBVIOUS
<1>1. TypeOK
  <2>1. column \in [state : States, by : Auditors \cup {None}]
    BY DEF Init, States
  <2>2. evidence \in Seq(Nat) /\ verdicts \in Seq(Verdict) /\ keys \in Seq(Key)
    BY EmptySeq DEF Init
  <2>3. req \in [Slots -> Request \cup {None}]
    BY DEF Init
  <2> QED
    BY <2>1, <2>2, <2>3 DEF Init, TypeOK
<1>2. \A t \in Slots : FactsOf(t)
  BY DEF Init, FactsOf
<1>3. Rows
  BY DEF Init, Rows, OneVerdict, DecisionIsStored, TrailTellsOfStored, Verdicts
<1> QED
  BY <1>1, <1>2, <1>3 DEF CoreInv

LEMMA CoreStep == CoreInv /\ [Next]_vars => CoreInv'
<1> SUFFICES ASSUME CoreInv, [Next]_vars PROVE CoreInv'
  OBVIOUS
<1>1. CASE Finalize
  BY <1>1, FinalizeCore
<1>2. CASE \E s \in Slots : Begin(s)
  BY <1>2, CreateKeyCore, BeginVerifyCore, BeginUploadCore DEF Begin
<1>3. CASE \E s \in Slots : Step(s)
  BY <1>3, InsertKeyCore, InsertEvidenceCore, MarkUploadedCore, LogUploadCore,
     JudgeCore, InsertVerdictCore, MarkJudgedCore, LogVerdictCore DEF Step
<1>4. CASE \E s \in Slots : Stop(s)
  BY <1>4, StopCore
<1>5. CASE UNCHANGED vars
  <2>1. UNCHANGED <<finalized, contractKey, column, evidence, verdicts, keys, private,
                    made, lastEvent, req, overtaken, orderly>>
    BY <1>5 DEF vars, tables, history
  <2>2. TypeOK'
    BY <2>1 DEF CoreInv, TypeOK
  <2>3. \A t \in Slots : FactsOf(t)'
    BY <2>1 DEF CoreInv, FactsOf, HasVerdict
  <2> QED
    BY <2>1, <2>2, <2>3, TablesKept DEF CoreInv
<1> QED
  BY <1>1, <1>2, <1>3, <1>4, <1>5 DEF Next

LEMMA CoreAlways == Spec => []CoreInv
BY CoreInit, CoreStep, PTL DEF Spec

(* The variables always have their types.                                  *)
THEOREM TypeCorrect == Spec => []TypeOK
BY CoreAlways, PTL DEF CoreInv

(* However many requests race, lose their event or die, the state of the   *)
(* attestation is one that a stored verdict of the named auditor supports. *)
THEOREM DecisionIsStoredAlways == Spec => []DecisionIsStored
BY CoreAlways, PTL DEF CoreInv, Rows

(* No evidence is judged twice, however many verify it at the same time.   *)
THEOREM OneVerdictAlways == Spec => []OneVerdict
BY CoreAlways, PTL DEF CoreInv, Rows

(* The event about evidence that a client reads last tells of stored rows. *)
THEOREM TrailTellsOfStoredAlways == Spec => []TrailTellsOfStored
BY CoreAlways, PTL DEF CoreInv, Rows

-----------------------------------------------------------------------------
(* A request that nobody has overtaken still sees the state it has read.   *)

StateOf(t) ==
    (req[t] # None /\ t \notin overtaken) =>
        /\ req[t].at \in {"upload.insert", "upload.mark"} =>
              column.state \in {"PENDING_UPLOAD", "REJECTED"}
        /\ req[t].at \in {"verify.judge", "verify.insert", "verify.mark"} =>
              column.state = "UPLOADED"

StateInv == CoreInv /\ \A t \in Slots : StateOf(t)

LEMMA OthersKeepState ==
    ASSUME StateInv, NEW s \in Slots, Others(s), column' = column,
           overtaken \ {s} \subseteq overtaken', StateOf(s)'
    PROVE  \A t \in Slots : StateOf(t)'
<1>1. SUFFICES ASSUME NEW t \in Slots, t # s PROVE StateOf(t)'
  OBVIOUS
<1>2. StateOf(t) /\ req'[t] = req[t]
  BY <1>1 DEF StateInv, Others
<1> QED
  BY <1>1, <1>2 DEF StateOf

LEMMA BeginState ==
    ASSUME StateInv, NEW s \in Slots, Begin(s)
    PROVE  \A t \in Slots : StateOf(t)'
<1>t. TypeOK
  BY DEF StateInv, CoreInv
<1>1. CASE \E u \in Auditors : CreateKey(s, u)
  <2>1. PICK u \in Auditors : CreateKey(s, u)
    BY <1>1
  <2>2. column' = column /\ overtaken' = overtaken
    BY <2>1 DEF CreateKey, MakeKey, history
  <2>3. Others(s) /\ req'[s].at = "key.insert"
    BY <1>t, <2>1, CreateKeyMoves
  <2>4. StateOf(s)'
    BY <2>3 DEF StateOf
  <2> QED
    BY <2>2, <2>3, <2>4, OthersKeepState
<1>2. CASE \E u \in Auditors : BeginVerify(s, u)
  <2>1. PICK u \in Auditors : BeginVerify(s, u)
    BY <1>2
  <2>2. column' = column /\ overtaken' = overtaken /\ column.state = "UPLOADED"
    BY <2>1 DEF BeginVerify, tables, history
  <2>3. Others(s) /\ req'[s].at = "verify.judge"
    BY <1>t, <2>1, BeginVerifyMoves
  <2>4. StateOf(s)'
    BY <2>2, <2>3 DEF StateOf
  <2> QED
    BY <2>2, <2>3, <2>4, OthersKeepState
<1>3. CASE \E u \in Uploaders : BeginUpload(s, u)
  <2>1. PICK u \in Uploaders : BeginUpload(s, u)
    BY <1>3
  <2>2. /\ column' = column /\ overtaken' = overtaken
        /\ column.state \in {"PENDING_UPLOAD", "REJECTED"}
    BY <2>1 DEF BeginUpload, StartUpload, tables, history
  <2>3. Others(s) /\ req'[s].at = "upload.insert"
    BY <1>t, <2>1, BeginUploadMoves
  <2>4. StateOf(s)'
    BY <2>2, <2>3 DEF StateOf
  <2> QED
    BY <2>2, <2>3, <2>4, OthersKeepState
<1> QED
  BY <1>1, <1>2, <1>3 DEF Begin

(* The steps that end a request.                                           *)
LEMMA EndState ==
    ASSUME StateInv, NEW s \in Slots,
           InsertKey(s) \/ LogUpload(s) \/ LogVerdict(s) \/ Stop(s)
    PROVE  \A t \in Slots : StateOf(t)'
<1>1. column' = column /\ Done(s)
  BY DEF InsertKey, LogUpload, LogVerdict, Log, Stop, tables
<1>2. Others(s) /\ req'[s] = None
  BY <1>1, DoneType DEF StateInv, CoreInv, TypeOK, Requests, Others
<1>3. StateOf(s)'
  BY <1>2 DEF StateOf
<1> QED
  BY <1>1, <1>2, <1>3, OthersKeepState DEF Done

LEMMA InsertEvidenceState ==
    ASSUME StateInv, NEW s \in Slots, InsertEvidence(s)
    PROVE  \A t \in Slots : StateOf(t)'
<1>1. column' = column /\ overtaken' = overtaken /\ At(s, "upload.insert")
  BY DEF InsertEvidence, history
<1>2. Others(s) /\ req'[s].at = "upload.mark"
  BY InsertEvidenceMoves DEF StateInv, CoreInv
<1>3. StateOf(s)'
  BY <1>1, <1>2 DEF StateInv, StateOf, At
<1> QED
  BY <1>1, <1>2, <1>3, OthersKeepState

LEMMA JudgeState ==
    ASSUME StateInv, NEW s \in Slots, Judge(s)
    PROVE  \A t \in Slots : StateOf(t)'
<1>1. column' = column /\ overtaken' = overtaken /\ At(s, "verify.judge")
  BY DEF Judge, JudgeWith, tables, history
<1>2. Others(s) /\ req'[s].at = "verify.insert"
  BY JudgeMoves DEF StateInv, CoreInv
<1>3. StateOf(s)'
  BY <1>1, <1>2 DEF StateInv, StateOf, At
<1> QED
  BY <1>1, <1>2, <1>3, OthersKeepState

(* Who writes or marks a verdict is an auditor.                            *)
LEMMA VerifierIsAuditor ==
    ASSUME CoreInv, NEW s \in Slots, At(s, "verify.insert") \/ At(s, "verify.mark")
    PROVE  req[s].user \in Auditors
BY DEF CoreInv, FactsOf, At, Verifying

LEMMA InsertVerdictState ==
    ASSUME StateInv, NEW s \in Slots, InsertVerdict(s)
    PROVE  \A t \in Slots : StateOf(t)'
<1>1. column' = column /\ overtaken' = overtaken /\ At(s, "verify.insert")
  BY DEF InsertVerdict, history
<1>2. Others(s) /\ req'[s].at = "verify.mark"
  BY <1>1, InsertVerdictMoves, VerifierIsAuditor DEF StateInv, CoreInv
<1>3. StateOf(s)'
  BY <1>1, <1>2 DEF StateInv, StateOf, At
<1> QED
  BY <1>1, <1>2, <1>3, OthersKeepState

(* The steps that write the state overtake everybody else.                 *)
LEMMA MarkMoves ==
    ASSUME CoreInv, NEW s \in Slots, MarkUploaded(s) \/ MarkJudged(s)
    PROVE  /\ Others(s) /\ req'[s].at \in {"upload.log", "verify.log"}
           /\ overtaken' = {t \in Slots : req[t] # None} \ {s}
           /\ orderly' = (orderly /\ s \notin overtaken)
<1>1. CASE MarkUploaded(s)
  BY <1>1, MarkUploadedMoves DEF CoreInv, MarkUploaded, SetState
<1>2. CASE MarkJudged(s)
  BY <1>2, MarkJudgedMoves, VerifierIsAuditor DEF CoreInv, MarkJudged, SetState
<1> QED
  BY <1>1, <1>2

LEMMA MarkState ==
    ASSUME StateInv, NEW s \in Slots, MarkUploaded(s) \/ MarkJudged(s)
    PROVE  \A t \in Slots : StateOf(t)'
<1>1. /\ Others(s) /\ req'[s].at \in {"upload.log", "verify.log"}
      /\ overtaken' = {t \in Slots : req[t] # None} \ {s}
  BY MarkMoves DEF StateInv
<1>2. SUFFICES ASSUME NEW t \in Slots PROVE StateOf(t)'
  OBVIOUS
<1>3. CASE t = s
  BY <1>1, <1>3 DEF StateOf
<1>4. CASE t # s
  <2>1. req'[t] = req[t]
    BY <1>1, <1>4 DEF Others
  <2> QED
    BY <1>1, <1>4, <2>1 DEF StateOf
<1> QED
  BY <1>3, <1>4

LEMMA StateInit == Init => StateInv
BY CoreInit DEF Init, StateInv, StateOf

LEMMA StateStep == StateInv /\ [Next]_vars => StateInv'
<1> SUFFICES ASSUME StateInv, [Next]_vars PROVE StateInv'
  OBVIOUS
<1>0. CoreInv'
  BY CoreStep DEF StateInv
<1>1. CASE Finalize \/ UNCHANGED vars
  <2>1. UNCHANGED <<column, req, overtaken>>
    BY <1>1 DEF Finalize, vars, tables, history
  <2> QED
    BY <1>0, <2>1 DEF StateInv, StateOf
<1>2. CASE \E s \in Slots : Begin(s)
  BY <1>0, <1>2, BeginState DEF StateInv
<1>3. CASE \E s \in Slots : Step(s)
  <2>1. PICK s \in Slots : Step(s)
    BY <1>3
  <2>2. \A t \in Slots : StateOf(t)'
    BY <2>1, EndState, InsertEvidenceState, MarkState, JudgeState, InsertVerdictState
       DEF Step
  <2> QED
    BY <1>0, <2>2 DEF StateInv
<1>4. CASE \E s \in Slots : Stop(s)
  BY <1>0, <1>4, EndState DEF StateInv
<1> QED
  BY <1>1, <1>2, <1>3, <1>4 DEF Next

LEMMA StateAlways == Spec => []StateInv
BY StateInit, StateStep, PTL DEF Spec

(* What a step does to the state is in the documented lifecycle, or done   *)
(* by a request that had been overtaken.                                   *)
LEMMA MarkStrays ==
    ASSUME StateInv, NEW s \in Slots, MarkUploaded(s) \/ MarkJudged(s)
    PROVE  \/ <<column.state, column'.state>> \in Documented
           \/ \E t \in overtaken : req'[t] # req[t]
<1>1. CASE s \in overtaken
  <2>1. req[s].at \in {"upload.mark", "verify.mark"}
    BY DEF MarkUploaded, MarkJudged, At
  <2>2. req'[s].at \in {"upload.log", "verify.log"}
    BY MarkMoves DEF StateInv
  <2>3. req'[s] # req[s]
    BY <2>1, <2>2
  <2> QED
    BY <1>1, <2>3
<1>2. CASE s \notin overtaken /\ MarkUploaded(s)
  <2>1. column.state \in {"PENDING_UPLOAD", "REJECTED"}
    BY <1>2 DEF StateInv, StateOf, MarkUploaded, At
  <2>2. column'.state = "UPLOADED"
    BY <1>2, MarkUploadedMoves DEF StateInv, CoreInv
  <2> QED
    BY <2>1, <2>2 DEF Documented
<1>3. CASE s \notin overtaken /\ MarkJudged(s)
  <2>1. column.state = "UPLOADED" /\ At(s, "verify.mark")
    BY <1>3 DEF StateInv, StateOf, MarkJudged, At
  <2>2. column'.state \in Verdicts
    BY <1>3, <2>1, MarkJudgedMoves, VerifierIsAuditor DEF StateInv, CoreInv
  <2> QED
    BY <2>1, <2>2 DEF Documented, Verdicts
<1> QED
  BY <1>1, <1>2, <1>3

LEMMA StrayStep ==
    ASSUME StateInv, [Next]_vars
    PROVE  \/ column' = column
           \/ <<column.state, column'.state>> \in Documented
           \/ \E s \in overtaken : req'[s] # req[s]
<1>1. CASE \E s \in Slots : MarkUploaded(s) \/ MarkJudged(s)
  BY <1>1, MarkStrays
<1>2. CASE Finalize \/ UNCHANGED vars
  BY <1>2 DEF Finalize, vars, tables
<1>3. CASE \E s \in Slots : Begin(s) \/ Stop(s)
  BY <1>3 DEF Begin, CreateKey, MakeKey, BeginVerify, BeginUpload, StartUpload, Stop, tables
<1>4. CASE \E s \in Slots : \/ InsertKey(s) \/ InsertEvidence(s) \/ LogUpload(s)
                            \/ Judge(s) \/ InsertVerdict(s) \/ LogVerdict(s)
  BY <1>4 DEF InsertKey, InsertEvidence, LogUpload, LogVerdict, Log, Judge, JudgeWith,
              InsertVerdict, tables
<1> QED
  BY <1>1, <1>2, <1>3, <1>4 DEF Next, Step

(* Only requests that have been overtaken leave the documented lifecycle   *)
(* of the attestation.                                                     *)
THEOREM OnlyOvertakenStrayAlways == Spec => OnlyOvertakenStray
<1>1. StateInv /\ [Next]_vars =>
        [\/ column' = column
         \/ <<column.state, column'.state>> \in Documented
         \/ \E s \in overtaken : req'[s] # req[s]]_vars
  BY StrayStep
<1> QED
  BY <1>1, StateAlways, PTL DEF Spec, OnlyOvertakenStray

-----------------------------------------------------------------------------
(* While no request is overtaken or dies between its writes, the state     *)
(* agrees with the tables.  What has just been uploaded, and not marked,   *)
(* is unknown to whoever verifies; of the requests that have a verdict to  *)
(* mark, the one that nobody has overtaken wrote the latest, or is not     *)
(* the only one.                                                           *)

Choosing == {"verify.judge", "verify.insert"}
Marking == {"upload.mark", "verify.mark"}
Latest == verdicts[Len(verdicts)].verdict

Fresh(s) ==
    (At(s, "upload.mark") /\ s \notin overtaken) =>
        /\ req[s].on \in Undecided
        /\ \A t \in Slots :
              (req[t] # None /\ req[t].at \in Choosing) => req[t].on # req[s].on

Sole(s) ==
    (orderly /\ At(s, "verify.mark") /\ s \notin overtaken) =>
        \/ Latest = req[s].verdict
        \/ \E t \in Slots \ {s} : At(t, "verify.mark")

AgreeInv ==
    /\ StateInv
    /\ \A s \in Slots : Fresh(s) /\ Sole(s)
    /\ StateAgrees

(* A step of a request that has nothing to mark, before or after.          *)
LEMMA QuietAgrees ==
    ASSUME AgreeInv, NEW s \in Slots, Others(s), UNCHANGED <<column, evidence, verdicts>>,
           orderly' => orderly, overtaken \ {s} \subseteq overtaken',
           req[s] # None => req[s].at \notin Marking,
           req'[s] # None => req'[s].at \notin Marking,
           req'[s] # None /\ req'[s].at \in Choosing =>
              \/ column.state = "UPLOADED"
              \/ req[s] # None /\ req[s].at \in Choosing /\ req'[s].on = req[s].on
    PROVE  /\ \A t \in Slots : Fresh(t)' /\ Sole(t)'
           /\ StateAgrees'
<1>1. \A t \in Slots, l \in Marking : At(t, l)' <=> At(t, l)
  BY DEF At, Others
<1>2. \A t \in Slots, l \in Marking : At(t, l) => t # s /\ req'[t] = req[t]
  BY DEF At, Others
<1>3. "upload.mark" \in Marking /\ "verify.mark" \in Marking
  BY DEF Marking
<1>4. ASSUME NEW t \in Slots PROVE Fresh(t)'
  <2>1. SUFFICES ASSUME At(t, "upload.mark")', t \notin overtaken'
                 PROVE  /\ req'[t].on \in Undecided'
                        /\ \A r \in Slots : (req'[r] # None /\ req'[r].at \in Choosing)
                              => req'[r].on # req'[t].on
    BY DEF Fresh
  <2>2. At(t, "upload.mark") /\ t # s /\ req'[t] = req[t] /\ t \notin overtaken
    BY <1>1, <1>2, <1>3, <2>1
  <2>3. /\ req[t].on \in Undecided
        /\ \A r \in Slots : (req[r] # None /\ req[r].at \in Choosing)
              => req[r].on # req[t].on
    BY <2>2 DEF AgreeInv, Fresh
  <2>4. req'[t].on \in Undecided'
    BY <2>2, <2>3 DEF Undecided
  <2>5. column.state # "UPLOADED"
    BY <2>2 DEF AgreeInv, StateInv, StateOf, At
  <2>6. ASSUME NEW r \in Slots, req'[r] # None, req'[r].at \in Choosing
        PROVE  req'[r].on # req'[t].on
    BY <2>2, <2>3, <2>5, <2>6 DEF Others
  <2> QED
    BY <2>4, <2>6
<1>5. ASSUME NEW t \in Slots PROVE Sole(t)'
  <2>1. SUFFICES ASSUME orderly', At(t, "verify.mark")', t \notin overtaken'
                 PROVE  \/ Latest' = req'[t].verdict
                        \/ \E r \in Slots \ {t} : At(r, "verify.mark")'
    BY DEF Sole
  <2>2. At(t, "verify.mark") /\ t # s /\ req'[t] = req[t] /\ t \notin overtaken /\ orderly
    BY <1>1, <1>2, <1>3, <2>1
  <2>3. \/ Latest = req[t].verdict
        \/ \E r \in Slots \ {t} : At(r, "verify.mark")
    BY <2>2 DEF AgreeInv, Sole
  <2> QED
    BY <1>1, <1>3, <2>2, <2>3 DEF Latest
<1>6. StateAgrees'
  BY <1>1, <1>3 DEF AgreeInv, StateAgrees, Undecided
<1> QED
  BY <1>4, <1>5, <1>6

LEMMA BeginAgrees ==
    ASSUME AgreeInv, NEW s \in Slots, Begin(s)
    PROVE  /\ \A t \in Slots : Fresh(t)' /\ Sole(t)'
           /\ StateAgrees'
<1>t. TypeOK
  BY DEF AgreeInv, StateInv, CoreInv
<1> USE DEF Marking, Choosing
<1>1. CASE \E u \in Auditors : CreateKey(s, u)
  <2>1. PICK u \in Auditors : CreateKey(s, u)
    BY <1>1
  <2>2. /\ UNCHANGED <<column, evidence, verdicts, overtaken, orderly>>
        /\ req[s] = None
    BY <2>1 DEF CreateKey, MakeKey, history, Idle
  <2>3. Others(s) /\ req'[s].at = "key.insert"
    BY <1>t, <2>1, CreateKeyMoves
  <2> QED
    BY <2>2, <2>3, QuietAgrees
<1>2. CASE \E u \in Auditors : BeginVerify(s, u)
  <2>1. PICK u \in Auditors : BeginVerify(s, u)
    BY <1>2
  <2>2. /\ UNCHANGED <<column, evidence, verdicts, overtaken, orderly>>
        /\ column.state = "UPLOADED" /\ req[s] = None
    BY <2>1 DEF BeginVerify, tables, history, Idle
  <2>3. Others(s) /\ req'[s].at = "verify.judge"
    BY <1>t, <2>1, BeginVerifyMoves
  <2> QED
    BY <2>2, <2>3, QuietAgrees
<1>3. CASE \E u \in Uploaders : BeginUpload(s, u)
  <2>1. PICK u \in Uploaders : BeginUpload(s, u)
    BY <1>3
  <2>2. /\ UNCHANGED <<column, evidence, verdicts, overtaken, orderly>>
        /\ req[s] = None
    BY <2>1 DEF BeginUpload, StartUpload, tables, history, Idle
  <2>3. Others(s) /\ req'[s].at = "upload.insert"
    BY <1>t, <2>1, BeginUploadMoves
  <2> QED
    BY <2>2, <2>3, QuietAgrees
<1> QED
  BY <1>1, <1>2, <1>3 DEF Begin

LEMMA EndAgrees ==
    ASSUME AgreeInv, NEW s \in Slots,
           \/ InsertKey(s) \/ LogUpload(s) \/ LogVerdict(s)
           \/ Stop(s) /\ req[s].at \notin Marking
    PROVE  /\ \A t \in Slots : Fresh(t)' /\ Sole(t)'
           /\ StateAgrees'
<1>a. UNCHANGED <<column, evidence, verdicts>> /\ Done(s)
  BY DEF InsertKey, LogUpload, LogVerdict, Log, Stop, tables
<1>b. orderly' => orderly
  <2>1. CASE InsertKey(s) \/ LogUpload(s) \/ LogVerdict(s)
    BY <2>1 DEF InsertKey, LogUpload, LogVerdict, Log
  <2>2. CASE Stop(s)
    BY <2>2 DEF Stop
  <2> QED
    BY <2>1, <2>2
<1>c. req[s].at \notin Marking
  BY DEF InsertKey, LogUpload, LogVerdict, At, Marking
<1>1. /\ UNCHANGED <<column, evidence, verdicts>> /\ Done(s)
      /\ orderly' => orderly
      /\ req[s].at \notin Marking
  BY <1>a, <1>b, <1>c
<1>2. Others(s) /\ req'[s] = None
  BY <1>1, DoneType DEF AgreeInv, StateInv, CoreInv, TypeOK, Requests, Others
<1>3. overtaken \ {s} \subseteq overtaken'
  BY <1>1 DEF Done
<1> QED
  BY <1>1, <1>2, <1>3, QuietAgrees

LEMMA JudgeAgrees ==
    ASSUME AgreeInv, NEW s \in Slots, Judge(s)
    PROVE  /\ \A t \in Slots : Fresh(t)' /\ Sole(t)'
           /\ StateAgrees'
<1>1. /\ UNCHANGED <<column, evidence, verdicts, overtaken, orderly>>
      /\ At(s, "verify.judge")
  BY DEF Judge, JudgeWith, tables, history
<1>2. Others(s) /\ req'[s].at = "verify.insert" /\ req'[s].on = req[s].on
  BY JudgeMoves DEF AgreeInv, StateInv, CoreInv
<1> QED
  BY <1>1, <1>2, QuietAgrees DEF Marking, Choosing, At

(* Who dies with something to mark leaves a state that need not agree.     *)
LEMMA StopAgrees ==
    ASSUME AgreeInv, NEW s \in Slots, Stop(s), req[s].at \in Marking
    PROVE  /\ \A t \in Slots : Fresh(t)' /\ Sole(t)'
           /\ StateAgrees'
<1>1. /\ UNCHANGED <<column, evidence, verdicts>> /\ Done(s) /\ ~orderly'
  BY DEF Stop, tables, Marking
<1>2. Others(s) /\ req'[s] = None /\ overtaken \ {s} \subseteq overtaken'
  BY <1>1, DoneType DEF AgreeInv, StateInv, CoreInv, TypeOK, Requests, Others, Done
<1>3. ASSUME NEW t \in Slots PROVE Fresh(t)'
  <2>1. CASE t = s
    BY <1>2, <2>1 DEF Fresh, At
  <2>2. CASE t # s
    <3>1. Fresh(t) /\ req'[t] = req[t]
      BY <1>2, <2>2 DEF AgreeInv, Others
    <3>2. \A r \in Slots : req'[r] # None => req'[r] = req[r]
      BY <1>2 DEF Others
    <3> QED
      BY <1>1, <1>2, <2>2, <3>1, <3>2 DEF Fresh, At, Undecided
  <2> QED
    BY <2>1, <2>2
<1> QED
  BY <1>1, <1>3 DEF Sole, StateAgrees

LEMMA InsertEvidenceAgrees ==
    ASSUME AgreeInv, NEW s \in Slots, InsertEvidence(s)
    PROVE  /\ \A t \in Slots : Fresh(t)' /\ Sole(t)'
           /\ StateAgrees'
<1>c. CoreInv
  BY DEF AgreeInv, StateInv
<1>1. /\ UNCHANGED <<column, verdicts, overtaken, orderly>> /\ At(s, "upload.insert")
  BY DEF InsertEvidence, history
<1>2. /\ Others(s) /\ req'[s].at = "upload.mark" /\ req'[s].on = Len(evidence) + 1
      /\ Len(evidence) \in Nat /\ Len(evidence') = Len(evidence) + 1
      /\ DOMAIN evidence = 1 .. Len(evidence) /\ DOMAIN evidence' = 1 .. Len(evidence')
  BY <1>c, InsertEvidenceMoves DEF CoreInv
<1>3. Undecided \subseteq Undecided'
  BY <1>1, <1>2 DEF Undecided
<1>4. Fresh(s)'
  <2>1. \A i \in DOMAIN verdicts : verdicts[i].on \in DOMAIN evidence
    BY <1>c DEF CoreInv, Rows, OneVerdict
  <2>2. req'[s].on \in Undecided'
    BY <1>1, <1>2, <2>1 DEF Undecided
  <2>3. ASSUME NEW t \in Slots, req'[t] # None, req'[t].at \in Choosing
        PROVE  req'[t].on # req'[s].on
    <3>1. t # s /\ req'[t] = req[t]
      BY <1>2, <2>3 DEF Others, Choosing
    <3>2. req[t].on \in DOMAIN evidence
      BY <1>c, <2>3, <3>1 DEF CoreInv, FactsOf, Choosing, Stored
    <3> QED
      BY <1>2, <3>1, <3>2
  <2> QED
    BY <2>2, <2>3 DEF Fresh
<1>5. ASSUME NEW t \in Slots, t # s PROVE Fresh(t)'
  <2>1. Fresh(t) /\ req'[t] = req[t]
    BY <1>2, <1>5 DEF AgreeInv, Others
  <2>2. \A r \in Slots : req'[r] # None /\ req'[r].at \in Choosing => req'[r] = req[r]
    BY <1>2 DEF Others, Choosing
  <2> QED
    BY <1>1, <1>3, <2>1, <2>2 DEF Fresh, At
<1>6. \A t \in Slots : At(t, "verify.mark")' <=> At(t, "verify.mark")
  BY <1>1, <1>2 DEF At, Others
<1>7. \A t \in Slots : At(t, "verify.mark") => req'[t] = req[t]
  BY <1>1, <1>2 DEF At, Others
<1>8. ASSUME NEW t \in Slots PROVE Sole(t)'
  <2>1. Sole(t)
    BY DEF AgreeInv
  <2> QED
    BY <1>1, <1>6, <1>7, <2>1 DEF Sole, Latest
<1>9. StateAgrees'
  BY <1>1, <1>3, <1>6 DEF AgreeInv, StateAgrees
<1> QED
  BY <1>4, <1>5, <1>8, <1>9

LEMMA MarkUploadedAgrees ==
    ASSUME AgreeInv, NEW s \in Slots, MarkUploaded(s)
    PROVE  /\ \A t \in Slots : Fresh(t)' /\ Sole(t)'
           /\ StateAgrees'
<1>c. CoreInv
  BY DEF AgreeInv, StateInv
<1>1. UNCHANGED <<evidence, verdicts>> /\ At(s, "upload.mark")
  BY DEF MarkUploaded
<1>2. /\ Others(s) /\ req'[s].at = "upload.log" /\ column'.state = "UPLOADED"
      /\ overtaken' = {t \in Slots : req[t] # None} \ {s}
      /\ orderly' = (orderly /\ s \notin overtaken)
  BY <1>c, MarkUploadedMoves, MarkMoves DEF CoreInv
<1>3. ASSUME NEW t \in Slots PROVE ~At(t, "upload.mark")' \/ t \in overtaken'
  BY <1>2 DEF At, Others
<1>4. ASSUME NEW t \in Slots PROVE ~At(t, "verify.mark")' \/ t \in overtaken'
  BY <1>2 DEF At, Others
<1>5. StateAgrees'
  <2>1. orderly' => req[s].on \in Undecided
    BY <1>1, <1>2 DEF AgreeInv, Fresh
  <2> QED
    BY <1>1, <1>2, <2>1 DEF StateAgrees, Undecided, Verdicts
<1> QED
  BY <1>3, <1>4, <1>5 DEF Fresh, Sole

LEMMA InsertVerdictAgrees ==
    ASSUME AgreeInv, NEW s \in Slots, InsertVerdict(s)
    PROVE  /\ \A t \in Slots : Fresh(t)' /\ Sole(t)'
           /\ StateAgrees'
<1>c. CoreInv
  BY DEF AgreeInv, StateInv
<1>1. /\ UNCHANGED <<column, evidence, overtaken, orderly>> /\ At(s, "verify.insert")
  BY DEF InsertVerdict, history
<1>2. /\ Others(s) /\ req'[s].at = "verify.mark" /\ req'[s].on = req[s].on
      /\ req'[s].verdict = req[s].verdict /\ req'[s] # None
      /\ Len(verdicts) \in Nat /\ Len(verdicts') = Len(verdicts) + 1
      /\ \A i \in 1 .. Len(verdicts) : verdicts'[i] = verdicts[i]
      /\ verdicts'[Len(verdicts')] =
            [on |-> req[s].on, verdict |-> req[s].verdict, by |-> req[s].user]
      /\ DOMAIN verdicts = 1 .. Len(verdicts)
      /\ DOMAIN verdicts' = 1 .. Len(verdicts')
  BY <1>c, <1>1, InsertVerdictMoves, VerifierIsAuditor DEF CoreInv
<1>3. At(s, "verify.mark")'
  BY <1>2 DEF At
<1>4. ASSUME NEW t \in Slots PROVE Fresh(t)'
  <2>1. SUFFICES ASSUME At(t, "upload.mark")', t \notin overtaken'
                 PROVE  /\ req'[t].on \in Undecided'
                        /\ \A r \in Slots : (req'[r] # None /\ req'[r].at \in Choosing)
                              => req'[r].on # req'[t].on
    BY DEF Fresh
  <2>2. t # s /\ req'[t] = req[t] /\ At(t, "upload.mark") /\ t \notin overtaken
    BY <1>1, <1>2, <2>1 DEF At, Others
  <2>3. /\ req[t].on \in Undecided
        /\ \A r \in Slots : (req[r] # None /\ req[r].at \in Choosing)
              => req[r].on # req[t].on
    BY <2>2 DEF AgreeInv, Fresh
  <2>4. req[s].on # req[t].on
    BY <1>1, <2>3 DEF At, Choosing
  <2>5. verdicts'[Len(verdicts')].on = req[s].on
    BY <1>2
  <2>6. \A i \in DOMAIN verdicts' : verdicts'[i].on # req[t].on
    BY <1>2, <2>3, <2>4, <2>5 DEF Undecided
  <2>7. req'[t].on \in Undecided'
    BY <1>1, <2>2, <2>3, <2>6 DEF Undecided
  <2>8. \A r \in Slots : req'[r] # None /\ req'[r].at \in Choosing => req'[r] = req[r]
    BY <1>2 DEF Others, Choosing
  <2> QED
    BY <2>2, <2>3, <2>7, <2>8
<1>5. Sole(s)'
  <2>1. Latest' = req'[s].verdict
    BY <1>2 DEF Latest
  <2> QED
    BY <2>1 DEF Sole
<1>6. ASSUME NEW t \in Slots, t # s PROVE Sole(t)'
  <2>1. \E r \in Slots \ {t} : At(r, "verify.mark")'
    BY <1>3, <1>6
  <2> QED
    BY <2>1 DEF Sole
<1>7. StateAgrees'
  BY <1>3 DEF StateAgrees
<1> QED
  BY <1>4, <1>5, <1>6, <1>7

LEMMA MarkJudgedAgrees ==
    ASSUME AgreeInv, NEW s \in Slots, MarkJudged(s)
    PROVE  /\ \A t \in Slots : Fresh(t)' /\ Sole(t)'
           /\ StateAgrees'
<1>c. CoreInv
  BY DEF AgreeInv, StateInv
<1>1. UNCHANGED <<evidence, verdicts>> /\ At(s, "verify.mark")
  BY DEF MarkJudged
<1>2. /\ Others(s) /\ req'[s].at = "verify.log"
      /\ column'.state = req[s].verdict /\ req[s].verdict \in Verdicts
      /\ overtaken' = {t \in Slots : req[t] # None} \ {s}
      /\ orderly' = (orderly /\ s \notin overtaken)
  BY <1>c, <1>1, MarkJudgedMoves, MarkMoves, VerifierIsAuditor DEF CoreInv
<1>3. ASSUME NEW t \in Slots PROVE ~At(t, "upload.mark")' \/ t \in overtaken'
  BY <1>2 DEF At, Others
<1>4. ASSUME NEW t \in Slots PROVE ~At(t, "verify.mark")' \/ t \in overtaken'
  BY <1>2 DEF At, Others
<1>5. StateAgrees'
  <2>1. SUFFICES ASSUME orderly', \A t \in Slots : ~At(t, "verify.mark")'
                 PROVE  /\ column'.state = "UPLOADED" => Undecided' # {}
                        /\ Latest' = column'.state
    BY DEF StateAgrees, Latest
  <2>2. \A t \in Slots \ {s} : ~At(t, "verify.mark")
    BY <1>2, <2>1 DEF At, Others
  <2>3. Latest = req[s].verdict
    BY <1>1, <1>2, <2>1, <2>2 DEF AgreeInv, Sole
  <2> QED
    BY <1>1, <1>2, <2>3 DEF Latest, Verdicts
<1> QED
  BY <1>3, <1>4, <1>5 DEF Fresh, Sole

LEMMA AgreeInit == Init => AgreeInv
BY StateInit DEF Init, AgreeInv, Fresh, Sole, StateAgrees, At, Verdicts

LEMMA AgreeStep == AgreeInv /\ [Next]_vars => AgreeInv'
<1> SUFFICES ASSUME AgreeInv, [Next]_vars PROVE AgreeInv'
  OBVIOUS
<1>0. StateInv'
  BY StateStep DEF AgreeInv
<1>1. CASE Finalize \/ UNCHANGED vars
  <2>1. UNCHANGED <<column, evidence, verdicts, req, overtaken, orderly>>
    BY <1>1 DEF Finalize, vars, tables, history
  <2>2. \A t \in Slots : Fresh(t)' /\ Sole(t)'
    BY <2>1 DEF AgreeInv, Fresh, Sole, At, Undecided, Latest
  <2>3. StateAgrees'
    BY <2>1 DEF AgreeInv, StateAgrees, At, Undecided
  <2> QED
    BY <1>0, <2>2, <2>3 DEF AgreeInv
<1>2. CASE \E s \in Slots : Begin(s)
  BY <1>0, <1>2, BeginAgrees DEF AgreeInv
<1>3. CASE \E s \in Slots : Step(s)
  <2>1. PICK s \in Slots : Step(s)
    BY <1>3
  <2>2. (\A t \in Slots : Fresh(t)' /\ Sole(t)') /\ StateAgrees'
    BY <2>1, EndAgrees, InsertEvidenceAgrees, MarkUploadedAgrees, JudgeAgrees,
       InsertVerdictAgrees, MarkJudgedAgrees DEF Step
  <2> QED
    BY <1>0, <2>2 DEF AgreeInv
<1>4. CASE \E s \in Slots : Stop(s)
  <2>1. PICK s \in Slots : Stop(s)
    BY <1>4
  <2>2. (\A t \in Slots : Fresh(t)' /\ Sole(t)') /\ StateAgrees'
    BY <2>1, EndAgrees, StopAgrees
  <2> QED
    BY <1>0, <2>2 DEF AgreeInv
<1> QED
  BY <1>1, <1>2, <1>3, <1>4 DEF Next

(* Unless a request was overtaken, or died between its two writes, what    *)
(* the state says is what the tables say.                                  *)
THEOREM StateAgreesAlways == Spec => []StateAgrees
<1>1. AgreeInv => StateAgrees
  BY DEF AgreeInv
<1> QED
  BY <1>1, AgreeInit, AgreeStep, PTL DEF Spec

-----------------------------------------------------------------------------
(* Keys: what is in the table was made, for no two rows the same; the key  *)
(* of the contract is among them and, once another has been registered,    *)
(* never the latest again.                                                 *)

Ready(k) == k.mode = "generate" => k.id \in private
Other(k) == \A i \in DOMAIN keys : keys[i].id # k.id

OwnKey(k) == contractKey # 0 => k = contractKey \/ keys[Len(keys)].id # contractKey

KeyFacts(s) ==
    req[s] # None =>
        /\ req[s].at = "key.insert" =>
              /\ req[s].key.id \in 1 .. made
              /\ Ready(req[s].key) /\ Other(req[s].key)
        /\ req[s].at # "key.insert" => finalized
        /\ req[s].at \in Choosing => req[s].madeFor = evidence[req[s].on]
        /\ req[s].at = "verify.insert" /\ req[s].verdict = "VERIFIED" =>
              OwnKey(req[s].madeFor)

Inserting(s) == req[s] # None /\ req[s].at = "key.insert"

KeyTable ==
    /\ \A i \in DOMAIN keys : keys[i].id \in 1 .. made
    /\ contractKey # 0 => \E i \in DOMAIN keys : keys[i].id = contractKey
    /\ ~finalized => contractKey = 0 /\ verdicts = <<>>
    /\ \A s, t \in Slots : Inserting(s) /\ Inserting(t) /\ s # t =>
          req[s].key.id # req[t].key.id

KeyInv ==
    /\ CoreInv /\ KeyTable
    /\ \A s \in Slots : KeyFacts(s)
    /\ GeneratedKeyUsable /\ VerifiedForContract

(* A step that leaves the keys and the rows alone, and starts no insertion.*)
LEMMA QuietKeys ==
    ASSUME KeyInv, NEW s \in Slots, Others(s), KeyFacts(s)', ~Inserting(s)',
           UNCHANGED <<finalized, contractKey, evidence, verdicts, keys, private, made>>
    PROVE  /\ KeyTable' /\ (\A t \in Slots : KeyFacts(t)')
           /\ GeneratedKeyUsable' /\ VerifiedForContract'
<1>1. ASSUME NEW t \in Slots, t # s PROVE KeyFacts(t)'
  <2>1. KeyFacts(t) /\ req'[t] = req[t]
    BY <1>1 DEF KeyInv, Others
  <2> QED
    BY <2>1 DEF KeyFacts, Ready, Other, OwnKey
<1>2. \A t \in Slots : Inserting(t)' => t # s /\ Inserting(t) /\ req'[t] = req[t]
  BY DEF Inserting, Others
<1>3. KeyTable'
  BY <1>2 DEF KeyInv, KeyTable
<1>4. GeneratedKeyUsable' /\ VerifiedForContract'
  BY DEF KeyInv, GeneratedKeyUsable, VerifiedForContract
<1> QED
  BY <1>1, <1>3, <1>4

LEMMA CreateKeyKeys ==
    ASSUME KeyInv, NEW s \in Slots, NEW u \in Auditors, CreateKey(s, u)
    PROVE  /\ KeyTable' /\ (\A t \in Slots : KeyFacts(t)')
           /\ GeneratedKeyUsable' /\ VerifiedForContract'
<1>1. UNCHANGED <<finalized, contractKey, evidence, verdicts, keys>> /\ req[s] = None
  BY DEF CreateKey, MakeKey, Idle
<1>2. /\ Others(s) /\ req'[s].at = "key.insert"
      /\ \E m \in Modes : /\ req'[s].key = [id |-> made + 1, mode |-> m]
                          /\ m = "generate" => made + 1 \in private'
      /\ made' = made + 1 /\ private \subseteq private'
  BY CreateKeyMoves DEF KeyInv, CoreInv
<1>3. made \in Nat
  BY DEF KeyInv, CoreInv, TypeOK
<1>4. \A k \in 1 .. made : k \in 1 .. made' /\ k # made + 1
  BY <1>2, <1>3
<1>5. /\ req'[s].key.id = made + 1
      /\ req'[s].key.mode = "generate" => made + 1 \in private'
  BY <1>2
<1>6. KeyFacts(s)'
  BY <1>1, <1>2, <1>3, <1>4, <1>5 DEF KeyFacts, Ready, Other, KeyInv, KeyTable, Choosing
<1>7. ASSUME NEW t \in Slots, t # s PROVE KeyFacts(t)'
  <2>1. KeyFacts(t) /\ req'[t] = req[t]
    BY <1>2, <1>7 DEF KeyInv, Others
  <2> QED
    BY <1>1, <1>2, <1>4, <2>1 DEF KeyFacts, Ready, Other, OwnKey
<1>8. KeyTable'
  <2>1. \A t \in Slots \ {s} : Inserting(t)' =>
           /\ Inserting(t) /\ req'[t] = req[t]
           /\ req'[t].key.id # made + 1
    BY <1>2, <1>4 DEF Inserting, Others, KeyInv, KeyFacts
  <2>2. \A t, r \in Slots : Inserting(t)' /\ Inserting(r)' /\ t # r =>
           req'[t].key.id # req'[r].key.id
    BY <1>5, <2>1 DEF KeyInv, KeyTable
  <2> QED
    BY <1>1, <1>4, <2>2 DEF KeyInv, KeyTable
<1>9. GeneratedKeyUsable' /\ VerifiedForContract'
  BY <1>1, <1>2 DEF KeyInv, GeneratedKeyUsable, VerifiedForContract
<1> QED
  BY <1>6, <1>7, <1>8, <1>9

LEMMA InsertKeyKeys ==
    ASSUME KeyInv, NEW s \in Slots, InsertKey(s)
    PROVE  /\ KeyTable' /\ (\A t \in Slots : KeyFacts(t)')
           /\ GeneratedKeyUsable' /\ VerifiedForContract'
<1>1. /\ UNCHANGED <<finalized, contractKey, evidence, verdicts, private, made>>
      /\ keys' = Append(keys, req[s].key) /\ At(s, "key.insert")
  BY DEF InsertKey
<1>2. TypeOK' /\ Others(s) /\ req'[s] = None
  BY InsertKeyMoves DEF KeyInv, CoreInv
<1>k. PICK k \in Key : k = req[s].key
  BY <1>1, AtType DEF KeyInv, CoreInv, TypeOK, Requests
<1>3. /\ Len(keys) \in Nat /\ Len(keys') = Len(keys) + 1
      /\ DOMAIN keys = 1 .. Len(keys) /\ DOMAIN keys' = 1 .. Len(keys')
      /\ \A i \in 1 .. Len(keys) : keys'[i] = keys[i]
      /\ keys'[Len(keys')] = k
  BY <1>1, <1>k DEF KeyInv, CoreInv, TypeOK
<1>4. k.id \in 1 .. made /\ Ready(k) /\ Other(k)
  BY <1>1, <1>k DEF KeyInv, KeyFacts, At
<1>5. \A i \in DOMAIN keys' : i \in DOMAIN keys \/ i = Len(keys')
  BY <1>3
<1>6. contractKey # 0 => keys'[Len(keys')].id # contractKey
  BY <1>3, <1>4 DEF KeyInv, KeyTable, Other
<1>7. \A t \in Slots : Inserting(t)' => /\ t # s /\ Inserting(t) /\ req'[t] = req[t]
                                        /\ req[t].key.id # k.id
  BY <1>1, <1>2, <1>k DEF KeyInv, KeyTable, Inserting, Others, At
<1>8. ASSUME NEW t \in Slots PROVE KeyFacts(t)'
  <2>1. CASE t = s
    BY <1>2, <2>1 DEF KeyFacts
  <2>2. CASE t # s
    <3>1. KeyFacts(t) /\ req'[t] = req[t]
      BY <1>2, <2>2 DEF KeyInv, Others
    <3>2. Inserting(t)' => Other(req[t].key)'
      <4>1. SUFFICES ASSUME Inserting(t)', NEW i \in DOMAIN keys'
                     PROVE  keys'[i].id # req'[t].key.id
        BY <3>1 DEF Other
      <4>2. Other(req[t].key) /\ req[t].key.id # k.id /\ req'[t] = req[t]
        BY <1>7, <3>1, <4>1 DEF KeyFacts, Inserting
      <4> QED
        BY <1>3, <1>5, <4>2 DEF Other
    <3>3. \A m : OwnKey(m)'
      BY <1>1, <1>6 DEF OwnKey
    <3> QED
      BY <1>1, <3>1, <3>2, <3>3 DEF KeyFacts, Ready, Inserting
  <2> QED
    BY <2>1, <2>2
<1>9. KeyTable'
  <2>1. \A i \in DOMAIN keys' : keys'[i].id \in 1 .. made'
    BY <1>1, <1>3, <1>4, <1>5 DEF KeyInv, KeyTable
  <2>2. contractKey' # 0 => \E i \in DOMAIN keys' : keys'[i].id = contractKey'
    BY <1>1, <1>3 DEF KeyInv, KeyTable
  <2>3. \A t, r \in Slots : Inserting(t)' /\ Inserting(r)' /\ t # r =>
           req'[t].key.id # req'[r].key.id
    BY <1>7 DEF KeyInv, KeyTable
  <2> QED
    BY <1>1, <2>1, <2>2, <2>3 DEF KeyInv, KeyTable
<1>10. GeneratedKeyUsable'
  <2>1. SUFFICES ASSUME NEW i \in DOMAIN keys', NEW j \in DOMAIN keys'
                 PROVE  /\ keys'[i].mode = "generate" => keys'[i].id \in private'
                        /\ keys'[i].id = keys'[j].id => i = j
    BY DEF GeneratedKeyUsable
  <2>2. GeneratedKeyUsable
    BY DEF KeyInv
  <2>3. \A n \in DOMAIN keys : keys'[n] = keys[n] /\ keys[n].id # k.id
    BY <1>3, <1>4 DEF Other
  <2> QED
    BY <1>1, <1>3, <1>4, <1>5, <2>2, <2>3 DEF GeneratedKeyUsable, Ready
<1>11. VerifiedForContract'
  BY <1>1, <1>6 DEF VerifiedForContract
<1> QED
  BY <1>8, <1>9, <1>10, <1>11

LEMMA FinalizeKeys ==
    ASSUME KeyInv, Finalize
    PROVE  /\ KeyTable' /\ (\A t \in Slots : KeyFacts(t)')
           /\ GeneratedKeyUsable' /\ VerifiedForContract'
<1>1. /\ UNCHANGED <<evidence, verdicts, keys, private, made, req>> /\ ~finalized /\ finalized'
      /\ contractKey' = contractKey \/ \E i \in DOMAIN keys : contractKey' = keys[i].id
  BY DEF Finalize, tables
<1>2. verdicts = <<>> /\ contractKey = 0
  BY <1>1 DEF KeyInv, KeyTable
<1>3. KeyTable'
  BY <1>1, <1>2 DEF KeyInv, KeyTable, Inserting
<1>4. \A t \in Slots : KeyFacts(t)'
  BY <1>1 DEF KeyInv, KeyFacts, Ready, Other, Choosing
<1>5. GeneratedKeyUsable'
  BY <1>1 DEF KeyInv, GeneratedKeyUsable
<1>6. VerifiedForContract'
  BY <1>1, <1>2 DEF VerifiedForContract
<1> QED
  BY <1>3, <1>4, <1>5, <1>6

LEMMA BeginKeys ==
    ASSUME KeyInv, NEW s \in Slots,
           \/ \E u \in Auditors : BeginVerify(s, u)
           \/ \E u \in Uploaders : BeginUpload(s, u)
    PROVE  /\ KeyTable' /\ (\A t \in Slots : KeyFacts(t)')
           /\ GeneratedKeyUsable' /\ VerifiedForContract'
<1>1. /\ UNCHANGED <<finalized, contractKey, evidence, verdicts, keys, private, made>>
      /\ finalized
  BY DEF BeginVerify, BeginUpload, StartUpload, tables
<1>2. /\ Others(s)
      /\ \/ req'[s].at = "verify.judge" /\ req'[s].madeFor = evidence[req'[s].on]
         \/ req'[s].at = "upload.insert"
  BY BeginVerifyMoves, BeginUploadMoves DEF KeyInv, CoreInv
<1>3. KeyFacts(s)' /\ ~Inserting(s)'
  BY <1>1, <1>2 DEF KeyFacts, Inserting, Choosing
<1> QED
  BY <1>1, <1>2, <1>3, QuietKeys

LEMMA EndKeys ==
    ASSUME KeyInv, NEW s \in Slots, LogUpload(s) \/ LogVerdict(s) \/ Stop(s)
    PROVE  /\ KeyTable' /\ (\A t \in Slots : KeyFacts(t)')
           /\ GeneratedKeyUsable' /\ VerifiedForContract'
<1>1. /\ UNCHANGED <<finalized, contractKey, evidence, verdicts, keys, private, made>>
      /\ Done(s)
  BY DEF LogUpload, LogVerdict, Log, Stop, tables
<1>2. Others(s) /\ req'[s] = None
  BY <1>1, DoneType DEF KeyInv, CoreInv, TypeOK, Requests, Others
<1>3. KeyFacts(s)' /\ ~Inserting(s)'
  BY <1>2 DEF KeyFacts, Inserting
<1> QED
  BY <1>1, <1>2, <1>3, QuietKeys

LEMMA MarkKeys ==
    ASSUME KeyInv, NEW s \in Slots, MarkUploaded(s) \/ MarkJudged(s)
    PROVE  /\ KeyTable' /\ (\A t \in Slots : KeyFacts(t)')
           /\ GeneratedKeyUsable' /\ VerifiedForContract'
<1>1. /\ UNCHANGED <<finalized, contractKey, evidence, verdicts, keys, private, made>>
      /\ At(s, "upload.mark") \/ At(s, "verify.mark")
  BY DEF MarkUploaded, MarkJudged
<1>2. Others(s) /\ req'[s].at \in {"upload.log", "verify.log"}
  BY MarkMoves DEF KeyInv
<1>3. finalized
  BY <1>1 DEF KeyInv, KeyFacts, At
<1>4. KeyFacts(s)' /\ ~Inserting(s)'
  BY <1>1, <1>2, <1>3 DEF KeyFacts, Inserting, Choosing
<1> QED
  BY <1>1, <1>2, <1>4, QuietKeys

LEMMA JudgeKeys ==
    ASSUME KeyInv, NEW s \in Slots, Judge(s)
    PROVE  /\ KeyTable' /\ (\A t \in Slots : KeyFacts(t)')
           /\ GeneratedKeyUsable' /\ VerifiedForContract'
<1>1. /\ UNCHANGED <<finalized, contractKey, evidence, verdicts, keys, private, made>>
      /\ At(s, "verify.judge")
  BY DEF Judge, JudgeWith, tables
<1>2. /\ Others(s) /\ req'[s].at = "verify.insert" /\ req'[s].on = req[s].on
      /\ req'[s].madeFor = req[s].madeFor
      /\ req'[s].verdict = "VERIFIED" => req[s].madeFor = keys[Len(keys)].id
  BY JudgeMoves DEF KeyInv, CoreInv
<1>3. finalized /\ req[s].madeFor = evidence[req[s].on]
  BY <1>1 DEF KeyInv, KeyFacts, At, Choosing
<1>4. req'[s].verdict = "VERIFIED" => OwnKey(req[s].madeFor)
  BY <1>2 DEF OwnKey
<1>5. KeyFacts(s)' /\ ~Inserting(s)'
  BY <1>1, <1>2, <1>3, <1>4 DEF KeyFacts, Inserting, OwnKey
<1> QED
  BY <1>1, <1>2, <1>5, QuietKeys

LEMMA InsertEvidenceKeys ==
    ASSUME KeyInv, NEW s \in Slots, InsertEvidence(s)
    PROVE  /\ KeyTable' /\ (\A t \in Slots : KeyFacts(t)')
           /\ GeneratedKeyUsable' /\ VerifiedForContract'
<1>c. CoreInv
  BY DEF KeyInv
<1>1. /\ UNCHANGED <<finalized, contractKey, verdicts, keys, private, made>>
      /\ At(s, "upload.insert")
  BY DEF InsertEvidence
<1>2. /\ Others(s) /\ req'[s].at = "upload.mark"
      /\ DOMAIN evidence = 1 .. Len(evidence)
      /\ \A i \in 1 .. Len(evidence) : evidence'[i] = evidence[i]
  BY InsertEvidenceMoves DEF KeyInv, CoreInv
<1>3. finalized
  BY <1>1 DEF KeyInv, KeyFacts, At
<1>4. KeyFacts(s)' /\ ~Inserting(s)'
  BY <1>1, <1>2, <1>3 DEF KeyFacts, Inserting, Choosing
<1>5. ASSUME NEW t \in Slots, t # s PROVE KeyFacts(t)'
  <2>1. KeyFacts(t) /\ req'[t] = req[t]
    BY <1>2, <1>5 DEF KeyInv, Others
  <2>2. req[t] # None /\ req[t].at \in Choosing => req[t].on \in DOMAIN evidence
    BY <1>c DEF CoreInv, FactsOf, Choosing, Stored
  <2> QED
    BY <1>1, <1>2, <2>1, <2>2 DEF KeyFacts, Ready, Other, OwnKey
<1>6. \A t \in Slots : Inserting(t)' => t # s /\ Inserting(t) /\ req'[t] = req[t]
  BY <1>2, <1>4 DEF Inserting, Others
<1>7. KeyTable'
  BY <1>1, <1>6 DEF KeyInv, KeyTable
<1>8. \A i \in DOMAIN verdicts : verdicts[i].on \in DOMAIN evidence
  BY <1>c DEF CoreInv, Rows, OneVerdict
<1>9. GeneratedKeyUsable' /\ VerifiedForContract'
  BY <1>1, <1>2, <1>8 DEF KeyInv, GeneratedKeyUsable, VerifiedForContract
<1> QED
  BY <1>4, <1>5, <1>7, <1>9

LEMMA InsertVerdictKeys ==
    ASSUME KeyInv, NEW s \in Slots, InsertVerdict(s)
    PROVE  /\ KeyTable' /\ (\A t \in Slots : KeyFacts(t)')
           /\ GeneratedKeyUsable' /\ VerifiedForContract'
<1>c. CoreInv
  BY DEF KeyInv
<1>1. /\ UNCHANGED <<finalized, contractKey, evidence, keys, private, made>>
      /\ At(s, "verify.insert")
  BY DEF InsertVerdict
<1>2. /\ Others(s) /\ req'[s].at = "verify.mark"
      /\ \A i \in 1 .. Len(verdicts) : verdicts'[i] = verdicts[i]
      /\ Len(verdicts) \in Nat /\ Len(verdicts') = Len(verdicts) + 1
      /\ verdicts'[Len(verdicts')] =
            [on |-> req[s].on, verdict |-> req[s].verdict, by |-> req[s].user]
      /\ DOMAIN verdicts = 1 .. Len(verdicts)
      /\ DOMAIN verdicts' = 1 .. Len(verdicts')
  BY <1>c, <1>1, InsertVerdictMoves, VerifierIsAuditor DEF CoreInv
<1>3. /\ finalized /\ req[s].madeFor = evidence[req[s].on]
      /\ req[s].verdict = "VERIFIED" => OwnKey(req[s].madeFor)
  BY <1>1 DEF KeyInv, KeyFacts, At, Choosing
<1>4. KeyFacts(s)' /\ ~Inserting(s)'
  BY <1>1, <1>2, <1>3 DEF KeyFacts, Inserting, Choosing
<1>5. ASSUME NEW t \in Slots, t # s PROVE KeyFacts(t)'
  <2>1. KeyFacts(t) /\ req'[t] = req[t]
    BY <1>2, <1>5 DEF KeyInv, Others
  <2> QED
    BY <1>1, <2>1 DEF KeyFacts, Ready, Other, OwnKey
<1>6. \A t \in Slots : Inserting(t)' => t # s /\ Inserting(t) /\ req'[t] = req[t]
  BY <1>2, <1>4 DEF Inserting, Others
<1>7. KeyTable'
  BY <1>1, <1>3, <1>6 DEF KeyInv, KeyTable
<1>8. VerifiedForContract'
  <2>1. SUFFICES ASSUME NEW i \in DOMAIN verdicts', verdicts'[i].verdict = "VERIFIED"
                 PROVE  OwnKey(evidence[verdicts'[i].on])
    BY <1>1 DEF VerifiedForContract, OwnKey
  <2>2. CASE i \in DOMAIN verdicts
    BY <1>2, <2>1, <2>2 DEF KeyInv, VerifiedForContract, OwnKey
  <2>3. CASE i = Len(verdicts')
    <3>1. verdicts'[i].on = req[s].on /\ verdicts'[i].verdict = req[s].verdict
      BY <1>2, <2>3
    <3> QED
      BY <1>3, <2>1, <3>1
  <2> QED
    BY <1>2, <2>2, <2>3
<1>9. GeneratedKeyUsable'
  BY <1>1 DEF KeyInv, GeneratedKeyUsable
<1> QED
  BY <1>4, <1>5, <1>7, <1>8, <1>9

LEMMA KeyInit == Init => KeyInv
<1> SUFFICES ASSUME Init PROVE KeyInv
  OBVIOUS
<1>1. CoreInv
  BY CoreInit
<1>2. KeyTable /\ (\A s \in Slots : KeyFacts(s))
  BY DEF Init, KeyTable, KeyFacts, Inserting
<1>3. GeneratedKeyUsable /\ VerifiedForContract
  BY DEF Init, GeneratedKeyUsable, VerifiedForContract
<1> QED
  BY <1>1, <1>2, <1>3 DEF KeyInv

LEMMA KeyStep == KeyInv /\ [Next]_vars => KeyInv'
<1> SUFFICES ASSUME KeyInv, [Next]_vars PROVE KeyInv'
  OBVIOUS
<1>0. CoreInv'
  BY CoreStep DEF KeyInv
<1>1. CASE Finalize
  BY <1>0, <1>1, FinalizeKeys DEF KeyInv
<1>2. CASE \E s \in Slots : Begin(s)
  BY <1>0, <1>2, CreateKeyKeys, BeginKeys DEF Begin, KeyInv
<1>3. CASE \E s \in Slots : Step(s)
  BY <1>0, <1>3, InsertKeyKeys, InsertEvidenceKeys, MarkKeys, EndKeys, JudgeKeys,
     InsertVerdictKeys DEF Step, KeyInv
<1>4. CASE \E s \in Slots : Stop(s)
  BY <1>0, <1>4, EndKeys DEF KeyInv
<1>5. CASE UNCHANGED vars
  <2>1. UNCHANGED <<finalized, contractKey, evidence, verdicts, keys, private, made, req>>
    BY <1>5 DEF vars, tables, history
  <2>2. KeyTable' /\ \A s \in Slots : KeyFacts(s)'
    BY <2>1 DEF KeyInv, KeyTable, Inserting, KeyFacts, Ready, Other, OwnKey
  <2>3. GeneratedKeyUsable' /\ VerifiedForContract'
    BY <2>1 DEF KeyInv, GeneratedKeyUsable, VerifiedForContract
  <2> QED
    BY <1>0, <2>2, <2>3 DEF KeyInv
<1> QED
  BY <1>1, <1>2, <1>3, <1>4, <1>5 DEF Next

LEMMA KeyAlways == Spec => []KeyInv
BY KeyInit, KeyStep, PTL DEF Spec

(* A generated key that can be read has its private half.                  *)
THEOREM GeneratedKeyUsableAlways == Spec => []GeneratedKeyUsable
BY KeyAlways, PTL DEF KeyInv

(* Evidence is verified for the key of the contract, or the auditor has    *)
(* registered another.                                                     *)
THEOREM VerifiedForContractAlways == Spec => []VerifiedForContract
BY KeyAlways, PTL DEF KeyInv

-----------------------------------------------------------------------------
(* Requests that do not overlap overtake nobody, whichever of them die.    *)

OneAtATime == \A s, t \in Slots : s = t

FollowsDocuments ==
    [][column' = column \/ <<column.state, column'.state>> \in Documented]_vars

LEMMA NobodyOvertaken ==
    ASSUME OneAtATime, CoreInv, overtaken = {}, [Next]_vars
    PROVE  overtaken' = {}
<1>1. CASE \E s \in Slots : MarkUploaded(s) \/ MarkJudged(s)
  BY <1>1, MarkMoves DEF OneAtATime
<1>2. CASE Finalize \/ UNCHANGED vars
  BY <1>2 DEF Finalize, vars, history
<1>3. CASE \E s \in Slots : Begin(s)
  BY <1>3 DEF Begin, CreateKey, MakeKey, BeginVerify, BeginUpload, StartUpload, history
<1>4. CASE \E s \in Slots : \/ InsertKey(s) \/ LogUpload(s) \/ LogVerdict(s)
                            \/ Stop(s)
  BY <1>4 DEF InsertKey, LogUpload, LogVerdict, Log, Stop, Done
<1>5. CASE \E s \in Slots : InsertEvidence(s) \/ Judge(s) \/ InsertVerdict(s)
  BY <1>5 DEF InsertEvidence, Judge, JudgeWith, InsertVerdict, history
<1> QED
  BY <1>1, <1>2, <1>3, <1>4, <1>5 DEF Next, Step

(* The attestation lifecycle of the design documents, which overlapping    *)
(* requests leave, is followed as long as requests come one after the      *)
(* other: evidence is uploaded only where none waits or was accepted, and  *)
(* judged once, also when requests die between two of their writes.        *)
THEOREM FollowsDocumentsAlone ==
    ASSUME OneAtATime
    PROVE  Spec => FollowsDocuments
<1>1. Init => overtaken = {}
  BY DEF Init
<1>2. CoreInv /\ overtaken = {} /\ [Next]_vars => (overtaken = {})'
  BY NobodyOvertaken
<1>3. StateInv /\ overtaken = {} /\ [Next]_vars =>
        [column' = column \/ <<column.state, column'.state>> \in Documented]_vars
  BY StrayStep
<1> QED
  BY <1>1, <1>2, <1>3, CoreAlways, StateAlways, PTL DEF Spec, FollowsDocuments

-----------------------------------------------------------------------------
(* A verification that dies between its verdict and the state leaves this: *)
(* evidence waits, says the state, but all of it is judged.  Requests that *)
(* are not about to write the state, nor to store evidence, may be there.  *)

DeadEnd ==
    /\ column.state = "UPLOADED"
    /\ Undecided = {}
    /\ \A s \in Slots : req[s] # None =>
          req[s].at \notin {"upload.insert", "upload.mark", "verify.mark"}

NothingMoves == UNCHANGED <<column, evidence, verdicts>>

LEMMA DeadEndStep ==
    ASSUME CoreInv, DeadEnd, [Next]_vars
    PROVE  DeadEnd' /\ NothingMoves
<1>t. TypeOK
  BY DEF CoreInv
<1>1. ASSUME NothingMoves, NEW s \in Slots, Others(s),
             req'[s] # None =>
                req'[s].at \notin {"upload.insert", "upload.mark", "verify.mark"}
      PROVE  DeadEnd'
  <2>1. ASSUME NEW t \in Slots, req'[t] # None
        PROVE  req'[t].at \notin {"upload.insert", "upload.mark", "verify.mark"}
    BY <1>1, <2>1 DEF Others, DeadEnd
  <2> QED
    BY <1>1, <2>1 DEF DeadEnd, NothingMoves, Undecided
<1>2. CASE Finalize \/ UNCHANGED vars
  BY <1>2 DEF Finalize, vars, tables, DeadEnd, NothingMoves, Undecided
<1>3. ASSUME NEW s \in Slots, NEW u \in Auditors, CreateKey(s, u)
      PROVE  DeadEnd' /\ NothingMoves
  <2>1. NothingMoves
    BY <1>3 DEF CreateKey, MakeKey, NothingMoves
  <2> QED
    BY <1>1, <1>3, <1>t, <2>1, CreateKeyMoves
<1>4. ASSUME NEW s \in Slots, NEW u \in Auditors, BeginVerify(s, u)
      PROVE  DeadEnd' /\ NothingMoves
  <2>1. NothingMoves
    BY <1>4 DEF BeginVerify, tables, NothingMoves
  <2> QED
    BY <1>1, <1>4, <1>t, <2>1, BeginVerifyMoves
<1>5. ASSUME NEW s \in Slots, Judge(s)
      PROVE  DeadEnd' /\ NothingMoves
  <2>1. NothingMoves
    BY <1>5 DEF Judge, JudgeWith, tables, NothingMoves
  <2> QED
    BY <1>1, <1>5, <1>t, <2>1, JudgeMoves
<1>6. ASSUME NEW s \in Slots,
             InsertKey(s) \/ LogUpload(s) \/ LogVerdict(s) \/ Stop(s)
      PROVE  DeadEnd' /\ NothingMoves
  <2>1. NothingMoves /\ Done(s)
    BY <1>6 DEF InsertKey, LogUpload, LogVerdict, Log, Stop, tables, NothingMoves
  <2>2. Others(s) /\ req'[s] = None
    BY <1>t, <2>1, DoneType DEF TypeOK, Requests, Others
  <2> QED
    BY <1>1, <2>1, <2>2
<1>7. ASSUME NEW s \in Slots, InsertVerdict(s)
      PROVE  FALSE
  <2>1. /\ req[s] # None /\ req[s].at = "verify.insert"
        /\ \A i \in DOMAIN verdicts : verdicts[i].on # req[s].on
    BY <1>7 DEF InsertVerdict, At
  <2>2. req[s].on \in DOMAIN evidence
    BY <2>1 DEF CoreInv, FactsOf, Stored
  <2> QED
    BY <2>1, <2>2 DEF DeadEnd, Undecided
<1>8. ASSUME NEW s \in Slots,
             \/ InsertEvidence(s) \/ MarkUploaded(s) \/ MarkJudged(s)
             \/ \E u \in Uploaders : BeginUpload(s, u)
      PROVE  FALSE
  BY <1>8 DEF InsertEvidence, MarkUploaded, MarkJudged, BeginUpload, At, DeadEnd
<1> QED
  BY <1>2, <1>3, <1>4, <1>5, <1>6, <1>7, <1>8 DEF Next, Begin, Step

(* Such an attestation stays as it is for ever: no evidence is uploaded to *)
(* it, none is judged, and it never leaves UPLOADED.  (That it is reached  *)
(* takes one lost connection in VerifyEvidence.)                           *)
THEOREM DeadEndForGood ==
    Spec => [](DeadEnd => []DeadEnd /\ [][NothingMoves]_vars)
<1>1. CoreInv /\ DeadEnd /\ [Next]_vars => DeadEnd' /\ [NothingMoves]_vars
  BY DeadEndStep
<1> QED
  BY <1>1, CoreAlways, PTL DEF Spec
=============================================================================
