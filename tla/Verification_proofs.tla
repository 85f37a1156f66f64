------------------------ MODULE Verification_proofs ------------------------
(***************************************************************************)
(* Proofs about Verification: its types; that an undamaged trail verifies  *)
(* but for what is excused, and a verdict stands; that a chain which       *)
(* verifies was recorded, whatever the damage; that a genuine contract is  *)
(* found valid, and what a valid contract means.                           *)
(***************************************************************************)
EXTENDS Verification, SequenceTheorems, WellFoundedInduction, TLAPS

(* What the signature of an event was made over is what SignatureHash will *)
(* look for, whatever its default.                                         *)
OverWhatItSays(e) ==
    \/ e.data.request = e.signature.over
    \/ /\ e.data.request = None
       /\ e.type \in {"BUILD_FINALIZED", "CONTRACT_DOWNLOADED"}
       /\ e.data.contract = e.signature.over

(* What the writers may hand to LogEvent, and thus what a row may hold.    *)
Fits(e) ==
    \/ e.type = "ROLE_ASSIGNED" /\ e.signature = None
    \/ e.type = "BUILD_FINALIZED" /\ (e.signature = None \/ e.data.request = Pem)
    \/ e.signature # None /\ OverWhatItSays(e)

(* A recorded finalization stands for a build that is finalized, with a    *)
(* contract if the event has one.                                          *)
Carried(e) ==
    e.type = "BUILD_FINALIZED" =>
        finalized /\ (e.data.contract # None => stored.yaml # None)

(* What is to be stored: a contract, or nothing where the event names none.*)
Brings(e, c) ==
    c.yaml # None \/ (c = Unset /\ e.data.contract = None)

(* An event that has nothing of a finalization.                            *)
Plain(e) == e.type # "BUILD_FINALIZED" /\ e.data.request \notin Finalizations

(* An event says nothing of another contract than the one in the columns:  *)
(* data that goes by the request that finalized names it, and a signature  *)
(* of a finalization is over such a request or over that contract.  The    *)
(* deprecated route may store a contract that is not the one hashed.       *)
About(e, c) ==
    c.yaml = c.hash =>
        /\ e.data.request \in Finalizations => e.data.contract = c.yaml
        /\ e.type = "BUILD_FINALIZED" /\ e.signature # None =>
               e.signature.over \in Finalizations \cup {c.yaml}

(* What a request is when it begins.                                       *)
Well(next, e, c) ==
    /\ Fits(e)
    /\ next = "log" => Plain(e)
    /\ next = "store" => Brings(e, c) /\ About(e, c)

Begins ==
    \E s \in Slots, next \in {"store", "log"}, e \in Event, c \in Columns :
        Begin(s, next, e, c) /\ Well(next, e, c)

(* The steps there are, with the operations that begin a request as one.   *)
Step ==
    \/ Begins
    \/ \E s \in Slots : Store(s) \/ Log(s) \/ Stop(s)
    \/ \E k \in Keys \cup {None} : SetKey(k)
    \/ \E i, j \in DOMAIN trail : CorruptRow(i, j) \/ SwapRows(i, j)
    \/ \E i \in DOMAIN trail : LoseRow(i)
    \/ \E c \in Contracts : CorruptContract(c)
    \/ UNCHANGED vars

LEMMA SignedType ==
    ASSUME NEW h \in Requests \cup Contracts, userKey \in Keys
    PROVE  /\ Signed(h) \in Signature
           /\ Signed(h) # None
           /\ Signed(h).over = h
PROOF
<1>1. Signed(h) \in Signature BY DEF Signed, Signature
<1> QED BY <1>1, NoneAssumption DEF Signed

LEMMA EventType ==
    ASSUME NEW t \in Types, NEW d \in Data,
           NEW sig \in Signature \cup {None}, NEW pub \in Keys \cup {None}
    PROVE  EventOf(t, d, sig, pub) \in Event
PROOF BY DEF EventOf, Event

LEMMA OfType ==
    ASSUME NEW h \in Requests \cup {Pem, None}, NEW c \in Contracts \cup {None}
    PROVE  Of(h, c) \in Data
PROOF BY DEF Of, Data

LEMMA UnsetType == Unset \in Columns
PROOF BY DEF Unset, Columns

(* Every operation begins with an event that fits: the signature it keeps  *)
(* is over the hash its data names first.                                  *)
LEMMA Opens ==
    ASSUME TypeOK, Work
    PROVE  \/ Begins
           \/ \E s \in Slots : Store(s) \/ Log(s) \/ Stop(s)
           \/ \E k \in Keys \cup {None} : SetKey(k)
PROOF
<1> DEFINE Opening(s, next, e, c) == Begin(s, next, e, c) /\ Well(next, e, c)
<1>0. None \notin Finalizations /\ Pem \notin Finalizations
      BY ValuesAssumption DEF Requests
<1>1. ASSUME NEW s \in Slots, NEW h \in Submissions, SubmitSigned(s, h)
      PROVE  Begins
  <2> DEFINE e == EventOf("WORKLOAD_SUBMITTED", Of(h, None), Signed(h), None)
  <2>1. userKey \in Keys BY <1>1 DEF SubmitSigned, Begin, TypeOK
  <2>4. h \in Requests BY DEF Requests
  <2>2. e \in Event BY <2>1, <2>4, SignedType, EventType, OfType DEF Types
  <2>5. Plain(e) BY ValuesAssumption DEF Plain, EventOf, Of
  <2>3. Well("log", e, Unset)
        BY <2>1, <2>4, <2>5, SignedType DEF Well, Fits, OverWhatItSays, EventOf, Of
  <2> QED BY <1>1, <2>2, <2>3, UnsetType DEF SubmitSigned, Begins
<1>2. ASSUME NEW s \in Slots, NEW h \in Finalizations, NEW c \in Contracts,
             FinalizeContract(s, h, c)
      PROVE  Begins
  <2> DEFINE e == EventOf("BUILD_FINALIZED", Of(h, c), Signed(h), None)
             cols == [yaml |-> c, hash |-> c]
  <2>1. userKey \in Keys BY <1>2 DEF FinalizeContract, Begin, TypeOK
  <2>6. h \in Requests BY DEF Requests
  <2>2. e \in Event BY <2>1, <2>6, SignedType, EventType, OfType DEF Types
  <2>3. c # None BY ValuesAssumption
  <2>7. About(e, cols) BY <2>1, <2>6, SignedType DEF About, EventOf, Of
  <2>4. Well("store", e, cols)
        BY <2>1, <2>3, <2>6, <2>7, SignedType
        DEF Well, Brings, Fits, OverWhatItSays, EventOf, Of
  <2>5. cols \in Columns BY DEF Columns
  <2> QED BY <1>2, <2>2, <2>4, <2>5 DEF FinalizeContract, Begins
<1>3. ASSUME NEW s \in Slots, DeleteAssignments(s)
      PROVE  Begins
  <2> DEFINE e == EventOf("ROLE_ASSIGNED", Of(None, None), None, None)
  <2>1. e \in Event BY EventType, OfType DEF Types
  <2>2. Well("log", e, Unset) BY <1>0 DEF Well, Fits, Plain, EventOf, Of
  <2> QED BY <1>3, <2>1, <2>2, UnsetType DEF DeleteAssignments, Begins
<1>4. ASSUME NEW s \in Slots, SetFinalized(s)
      PROVE  Begins
  <2> DEFINE e == EventOf("BUILD_FINALIZED", Of(None, None), None, None)
  <2>1. e \in Event BY EventType, OfType DEF Types
  <2>2. Well("store", e, Unset)
        BY <1>0 DEF Well, Brings, About, Fits, EventOf, Of
  <2> QED BY <1>4, <2>1, <2>2, UnsetType DEF SetFinalized, Begins
<1>5. ASSUME NEW s \in Slots, NEW yaml \in Contracts, NEW c \in Contracts,
             NEW key \in {Pem, None}, NEW signed \in BOOLEAN,
             FinalizeBuild(s, yaml, c, IF signed THEN Signed(c) ELSE None, key)
      PROVE  Begins
  <2> DEFINE sig == IF signed THEN Signed(c) ELSE None
             e == EventOf("BUILD_FINALIZED", Of(key, c), sig, None)
             cols == [yaml |-> yaml, hash |-> c]
  <2>1. userKey \in Keys BY <1>5 DEF FinalizeBuild, Begin, TypeOK
  <2>2. sig \in Signature \cup {None} /\ (sig # None => sig.over = c)
        BY <2>1, SignedType
  <2>3. e \in Event BY <2>2, EventType, OfType DEF Types
  <2>4. yaml # None BY ValuesAssumption
  <2>5. e.type = "BUILD_FINALIZED" /\ e.signature = sig
          /\ e.data.request = key /\ e.data.contract = c
        BY DEF EventOf, Of
  <2> HIDE DEF sig, e
  <2>6. Well("store", e, cols)
        BY <1>0, <2>2, <2>4, <2>5 DEF Well, Brings, About, Fits, OverWhatItSays
  <2>7. cols \in Columns BY DEF Columns
  <2>8. Begin(s, "store", e, cols) BY <1>5 DEF FinalizeBuild, sig, e
  <2> QED BY <2>3, <2>6, <2>7, <2>8 DEF Begins
<1>6. ASSUME NEW s \in Slots, AcknowledgeDownload(s)
      PROVE  Begins
  <2> DEFINE e == EventOf("CONTRACT_DOWNLOADED", Of(None, stored.hash),
                          Signed(stored.hash), userKey)
  <2>1. userKey \in Keys BY <1>6 DEF AcknowledgeDownload, Receipt, Begin, TypeOK
  <2>2. stored.hash \in Contracts
        BY <1>6 DEF AcknowledgeDownload, Receipt, TypeOK, Columns
  <2>3. e \in Event BY <2>1, <2>2, SignedType, EventType, OfType DEF Types
  <2>4. Well("log", e, Unset)
        BY <1>0, <2>1, <2>2, SignedType
        DEF Well, Fits, Plain, OverWhatItSays, EventOf, Of
  <2>5. Begin(s, "log", e, Unset) BY <1>6 DEF AcknowledgeDownload, Receipt
  <2> QED BY <2>3, <2>4, <2>5, UnsetType DEF Begins
<1> QED BY <1>1, <1>2, <1>3, <1>4, <1>5, <1>6 DEF Work, OldFinalization

LEMMA Steps ==
    ASSUME TypeOK, [Next]_vars
    PROVE  Step
PROOF BY Opens DEF Next, Decay, Step

-----------------------------------------------------------------------------
(* Types.                                                                  *)

LEMMA InitTypeOK == Init => TypeOK
PROOF
<1> SUFFICES ASSUME Init PROVE TypeOK OBVIOUS
<1>1. trail \in Seq(Row) BY DEF Init
<1>2. stored \in Columns BY UnsetType DEF Init
<1>3. req \in [Slots -> Request \cup {None}] BY DEF Init
<1>4. written \subseteq Seq(Data) BY DEF Init
<1>5. damage \in [trail : Nat, contract : {0, 1}] BY DEF Init, NoDamage
<1>6. finalized \in BOOLEAN BY DEF Init
<1> QED BY <1>1, <1>2, <1>3, <1>4, <1>5, <1>6 DEF Init, TypeOK

(* A row is made of an event, a key and the hash of the row before it.     *)
LEMMA LastHashType == TypeOK => LastHash \in Seq(Data)
PROOF
<1> SUFFICES ASSUME TypeOK PROVE LastHash \in Seq(Data) OBVIOUS
<1>1. CASE trail = <<>> BY <1>1 DEF LastHash, Genesis
<1>2. CASE trail # <<>>
  <2>1. Len(trail) \in 1 .. Len(trail) BY <1>2 DEF TypeOK
  <2>2. trail[Len(trail)] \in Row BY <2>1 DEF TypeOK
  <2> QED BY <1>2, <2>2 DEF LastHash, Row
<1> QED BY <1>1, <1>2

LEMMA RowType ==
    ASSUME TypeOK, NEW e \in Event, NEW pub \in Keys \cup {None}
    PROVE  /\ RowOf(e, pub, LastHash) \in Row
           /\ EventHash(e.data, LastHash) \in Seq(Data)
PROOF
<1>1. LastHash \in Seq(Data) BY LastHashType
<1>2. e.data \in Data /\ e.type \in Types /\ e.signature \in Signature \cup {None}
      BY DEF Event
<1>3. EventHash(e.data, LastHash) \in Seq(Data) BY <1>1, <1>2 DEF EventHash
<1> QED BY <1>1, <1>2, <1>3 DEF RowOf, Row

(* What a request is made of.                                              *)
LEMMA RequestType ==
    ASSUME TypeOK, NEW s \in Slots, req[s] # None
    PROVE  /\ req[s] \in Request
           /\ req[s].event \in Event
           /\ req[s].columns \in Columns
           /\ req[s].event.pub \in Keys \cup {None}
PROOF
<1>1. req[s] \in Request BY DEF TypeOK
<1>2. req[s].event \in Event /\ req[s].columns \in Columns BY <1>1 DEF Request
<1> QED BY <1>1, <1>2 DEF Event

LEMMA LoggedRow ==
    ASSUME TypeOK, NEW s \in Slots, Log(s)
    PROVE  \E pub \in Keys \cup {None} :
              trail' = Append(trail, RowOf(req[s].event, pub, LastHash))
PROOF
<1>1. req[s] # None BY DEF Log
<1>2. req[s].event.pub \in Keys \cup {None} BY <1>1, RequestType
<1>3. userKey \in Keys \cup {None} BY DEF TypeOK
<1> QED BY <1>2, <1>3 DEF Log

(* A corrupted row keeps its type, signature and key; its data, link and   *)
(* hash are its own or those of the other row.                             *)
LEMMA CorruptedRow ==
    ASSUME TypeOK, NEW i \in DOMAIN trail, NEW j \in DOMAIN trail, CorruptRow(i, j)
    PROVE  \E r \in Row :
              /\ trail' = [trail EXCEPT ![i] = r]
              /\ r.type = trail[i].type /\ r.signature = trail[i].signature
              /\ r.pub = trail[i].pub
              /\ r.data \in {trail[i].data, trail[j].data}
              /\ r.hash \in {trail[i].hash, trail[j].hash}
PROOF
<1>0. trail \in Seq(Row) /\ trail[i] \in Row /\ trail[j] \in Row BY DEF TypeOK
<1>1. PICK d \in {i, j}, p \in {i, j}, h \in {i, j} :
         trail' = [trail EXCEPT ![i].data = trail[d].data, ![i].prev = trail[p].prev,
                                ![i].hash = trail[h].hash]
      BY DEF CorruptRow
<1> DEFINE r == [trail[i] EXCEPT !.data = trail[d].data, !.prev = trail[p].prev,
                                 !.hash = trail[h].hash]
<1>2. trail[d] \in Row /\ trail[p] \in Row /\ trail[h] \in Row BY <1>0
<1>3. /\ r \in Row
      /\ r.type = trail[i].type /\ r.signature = trail[i].signature
      /\ r.pub = trail[i].pub
      /\ r.data = trail[d].data /\ r.hash = trail[h].hash
      BY <1>0, <1>2 DEF Row
<1>4. trail' = [trail EXCEPT ![i] = r] BY <1>0, <1>1
<1> QED BY <1>3, <1>4

LEMMA TrailType == TypeOK /\ Step => trail' \in Seq(Row)
PROOF
<1> SUFFICES ASSUME TypeOK, Step PROVE trail' \in Seq(Row) OBVIOUS
<1>0. trail \in Seq(Row) BY DEF TypeOK
<1>1. CASE Begins BY <1>0, <1>1 DEF Begins, Begin
<1>2. ASSUME NEW s \in Slots, Store(s) \/ Stop(s)
      PROVE  trail' \in Seq(Row)
      BY <1>0, <1>2 DEF Store, Stop
<1>3. ASSUME NEW s \in Slots, Log(s)
      PROVE  trail' \in Seq(Row)
  <2>1. PICK pub \in Keys \cup {None} :
           trail' = Append(trail, RowOf(req[s].event, pub, LastHash))
        BY <1>3, LoggedRow
  <2>2. req[s].event \in Event BY <1>3, RequestType DEF Log
  <2>3. RowOf(req[s].event, pub, LastHash) \in Row BY <2>2, RowType
  <2> QED BY <1>0, <2>1, <2>3
<1>4. ASSUME NEW i \in DOMAIN trail, NEW j \in DOMAIN trail, CorruptRow(i, j)
      PROVE  trail' \in Seq(Row)
  <2>1. trail[i] \in Row /\ trail[j] \in Row BY <1>0
  <2>2. PICK r \in Row : trail' = [trail EXCEPT ![i] = r]
        BY <1>4, <2>1, CorruptedRow
  <2> QED BY <1>0, <2>2, ExceptSeq
<1>5. ASSUME NEW i \in DOMAIN trail, NEW j \in DOMAIN trail, SwapRows(i, j)
      PROVE  trail' \in Seq(Row)
  <2>1. trail[i] \in Row /\ trail[j] \in Row BY <1>0
  <2> DEFINE once == [trail EXCEPT ![i] = trail[j]]
  <2>2. once \in Seq(Row) /\ DOMAIN once = DOMAIN trail
        BY <1>0, <2>1, ExceptSeq
  <2>3. [once EXCEPT ![j] = trail[i]] \in Seq(Row) BY <2>1, <2>2, ExceptSeq
  <2>4. trail' = [once EXCEPT ![j] = trail[i]] BY <1>5 DEF SwapRows
  <2> QED BY <2>3, <2>4
<1>6. ASSUME NEW i \in DOMAIN trail, LoseRow(i)
      PROVE  trail' \in Seq(Row)
  <2>1. trail' = RemoveAt(trail, i) BY <1>6 DEF LoseRow
  <2>2. trail' = SubSeq(trail, 1, i - 1) \o SubSeq(trail, i + 1, Len(trail))
        BY <2>1 DEF RemoveAt
  <2>3. i \in 1 .. Len(trail) BY <1>0
  <2>4. SubSeq(trail, 1, i - 1) \in Seq(Row) BY <1>0, <2>3
  <2>5. SubSeq(trail, i + 1, Len(trail)) \in Seq(Row) BY <1>0, <2>3
  <2> QED BY <2>2, <2>4, <2>5
<1>7. ASSUME NEW k \in Keys \cup {None}, SetKey(k) PROVE trail' \in Seq(Row)
      BY <1>0, <1>7 DEF SetKey
<1>8. ASSUME NEW c \in Contracts, CorruptContract(c) PROVE trail' \in Seq(Row)
      BY <1>0, <1>8 DEF CorruptContract
<1>9. CASE UNCHANGED vars BY <1>0, <1>9 DEF vars
<1> QED BY <1>1, <1>2, <1>3, <1>4, <1>5, <1>6, <1>7, <1>8, <1>9 DEF Step

LEMMA RequestsType == TypeOK /\ Step => req' \in [Slots -> Request \cup {None}]
PROOF
<1> SUFFICES ASSUME TypeOK, Step PROVE req' \in [Slots -> Request \cup {None}] OBVIOUS
<1>0. req \in [Slots -> Request \cup {None}] BY DEF TypeOK
<1>1. CASE Begins
  <2>1. PICK s \in Slots, next \in {"store", "log"}, e \in Event, c \in Columns :
           Begin(s, next, e, c)
        BY <1>1 DEF Begins
  <2>2. [next |-> next, event |-> e, columns |-> c] \in Request BY DEF Request
  <2> QED BY <1>0, <2>1, <2>2 DEF Begin
<1>2. ASSUME NEW s \in Slots, Store(s)
      PROVE  req' \in [Slots -> Request \cup {None}]
  <2>1. req[s] \in Request BY <1>2, RequestType DEF Store
  <2>2. [req[s] EXCEPT !.next = "log"] \in Request BY <2>1 DEF Request
  <2>3. req' = [req EXCEPT ![s] = [req[s] EXCEPT !.next = "log"]] BY <1>2 DEF Store
  <2> QED BY <1>0, <2>2, <2>3
<1>3. ASSUME NEW s \in Slots, Log(s) \/ Stop(s)
      PROVE  req' \in [Slots -> Request \cup {None}]
      BY <1>0, <1>3 DEF Log, Stop
<1>4. ASSUME NEW k \in Keys \cup {None}, SetKey(k)
      PROVE  req' \in [Slots -> Request \cup {None}]
      BY <1>0, <1>4 DEF SetKey
<1>5. CASE Decay
      BY <1>0, <1>5 DEF Decay, CorruptRow, SwapRows, LoseRow, CorruptContract,
                        DamageTrail, Decays
<1>6. CASE UNCHANGED vars BY <1>0, <1>6 DEF vars
<1> QED BY <1>1, <1>2, <1>3, <1>4, <1>5, <1>6 DEF Step, Decay

LEMMA StoredType == TypeOK /\ Step => stored' \in Columns
PROOF
<1> SUFFICES ASSUME TypeOK, Step PROVE stored' \in Columns OBVIOUS
<1>0. stored \in Columns BY DEF TypeOK
<1>1. CASE Begins BY <1>0, <1>1 DEF Begins, Begin
<1>2. ASSUME NEW s \in Slots, Store(s) PROVE stored' \in Columns
      BY <1>0, <1>2, RequestType DEF Store
<1>3. ASSUME NEW s \in Slots, Log(s) \/ Stop(s) PROVE stored' \in Columns
      BY <1>0, <1>3 DEF Log, Stop
<1>4. ASSUME NEW k \in Keys \cup {None}, SetKey(k) PROVE stored' \in Columns
      BY <1>0, <1>4 DEF SetKey
<1>5. ASSUME NEW i \in DOMAIN trail, NEW j \in DOMAIN trail,
             CorruptRow(i, j) \/ SwapRows(i, j) \/ LoseRow(i)
      PROVE  stored' \in Columns
      BY <1>0, <1>5 DEF CorruptRow, SwapRows, LoseRow, DamageTrail
<1>6. ASSUME NEW c \in Contracts, CorruptContract(c) PROVE stored' \in Columns
  <2>1. /\ [stored EXCEPT !.yaml = c] \in Columns
        /\ [stored EXCEPT !.hash = c] \in Columns
        BY <1>0 DEF Columns
  <2>2. \/ stored' = [stored EXCEPT !.yaml = c]
        \/ stored' = [stored EXCEPT !.hash = c]
        BY <1>6 DEF CorruptContract
  <2> QED BY <2>1, <2>2
<1>7. CASE UNCHANGED vars BY <1>0, <1>7 DEF vars
<1> QED BY <1>1, <1>2, <1>3, <1>4, <1>5, <1>6, <1>7 DEF Step

LEMMA HistoryType ==
    TypeOK /\ Step => /\ written' \subseteq Seq(Data)
                     /\ stores' \in Nat
                     /\ damage' \in [trail : Nat, contract : {0, 1}]
PROOF
<1> SUFFICES ASSUME TypeOK, Step
             PROVE  /\ written' \subseteq Seq(Data)
                    /\ stores' \in Nat
                    /\ damage' \in [trail : Nat, contract : {0, 1}]
    OBVIOUS
<1>0. /\ written \subseteq Seq(Data) /\ stores \in Nat
      /\ damage \in [trail : Nat, contract : {0, 1}]
      BY DEF TypeOK
<1>1. CASE Begins BY <1>0, <1>1 DEF Begins, Begin, history
<1>2. ASSUME NEW s \in Slots, Store(s)
      PROVE  written' = written /\ stores' \in Nat /\ damage' = damage
      BY <1>0, <1>2 DEF Store
<1>3. ASSUME NEW s \in Slots, Log(s)
      PROVE  written' \subseteq Seq(Data) /\ stores' = stores /\ damage' = damage
  <2>1. req[s].event \in Event BY <1>3, RequestType DEF Log
  <2>2. EventHash(req[s].event.data, LastHash) \in Seq(Data)
        BY <2>1, RowType DEF TypeOK
  <2> QED BY <1>0, <1>3, <2>2 DEF Log
<1>4. ASSUME NEW s \in Slots, Stop(s)
      PROVE  written' = written /\ stores' = stores /\ damage' = damage
      BY <1>4 DEF Stop, history
<1>5. ASSUME NEW k \in Keys \cup {None}, SetKey(k)
      PROVE  written' = written /\ stores' = stores /\ damage' = damage
      BY <1>5 DEF SetKey, history
<1>6. ASSUME NEW i \in DOMAIN trail, NEW j \in DOMAIN trail,
             CorruptRow(i, j) \/ SwapRows(i, j) \/ LoseRow(i)
      PROVE  /\ written' = written /\ stores' = stores
             /\ damage' \in [trail : Nat, contract : {0, 1}]
  <2>1. damage' = [damage EXCEPT !.trail = @ + 1] /\ Decays
        BY <1>6 DEF CorruptRow, SwapRows, LoseRow, DamageTrail
  <2> QED BY <1>0, <2>1 DEF Decays
<1>7. ASSUME NEW c \in Contracts, CorruptContract(c)
      PROVE  /\ written' = written /\ stores' = stores
             /\ damage' \in [trail : Nat, contract : {0, 1}]
      BY <1>0, <1>7 DEF CorruptContract, Decays
<1>8. CASE UNCHANGED vars BY <1>0, <1>8 DEF vars, history
<1> QED BY <1>0, <1>1, <1>2, <1>3, <1>4, <1>5, <1>6, <1>7, <1>8 DEF Step

LEMMA FlagsType ==
    TypeOK /\ Step => userKey' \in Keys \cup {None} /\ finalized' \in BOOLEAN
PROOF
<1> SUFFICES ASSUME TypeOK, Step
             PROVE  userKey' \in Keys \cup {None} /\ finalized' \in BOOLEAN
    OBVIOUS
<1>0. userKey \in Keys \cup {None} /\ finalized \in BOOLEAN BY DEF TypeOK
<1>1. CASE Begins BY <1>0, <1>1 DEF Begins, Begin
<1>2. ASSUME NEW s \in Slots, Store(s) \/ Log(s) \/ Stop(s)
      PROVE  userKey' = userKey /\ finalized' \in {finalized, TRUE}
      BY <1>2 DEF Store, Log, Stop
<1>3. ASSUME NEW k \in Keys \cup {None}, SetKey(k)
      PROVE  userKey' \in Keys \cup {None} /\ finalized' = finalized
      BY <1>3 DEF SetKey
<1>4. CASE Decay
      BY <1>0, <1>4 DEF Decay, CorruptRow, SwapRows, LoseRow, CorruptContract,
                        DamageTrail, Decays
<1>5. CASE UNCHANGED vars BY <1>0, <1>5 DEF vars
<1> QED BY <1>0, <1>1, <1>2, <1>3, <1>4, <1>5 DEF Step, Decay

(* The values of Verification have their types in every reachable state.   *)
THEOREM TypeCorrect == Spec => []TypeOK
PROOF
<1>1. Init => TypeOK BY InitTypeOK
<1>2. TypeOK /\ [Next]_vars => TypeOK'
      BY Steps, TrailType, RequestsType, StoredType, HistoryType, FlagsType DEF TypeOK
<1> QED BY <1>1, <1>2, PTL DEF Spec

-----------------------------------------------------------------------------
(* What the writers record.                                                *)

(* The inductive invariant behind UndamagedVerifies.  It speaks of the     *)
(* requests too: what they will record has been signed already.            *)
PendingFit == \A s \in Slots : req[s] # None => Fits(req[s].event)

TrailFits ==
    damage.trail = 0 =>
        \A i \in DOMAIN trail : LinkOK(i) /\ HashOK(i) /\ Fits(trail[i])

RecordsFit == PendingFit /\ TrailFits

LEMMA InitRecordsFit == Init => RecordsFit
PROOF BY DEF Init, RecordsFit, PendingFit, TrailFits

LEMMA PendingFitKept == TypeOK /\ PendingFit /\ Step => PendingFit'
PROOF
<1> SUFFICES ASSUME TypeOK, PendingFit, Step, NEW t \in Slots, req'[t] # None
             PROVE  Fits(req'[t].event)
    BY DEF PendingFit, Fits, OverWhatItSays
<1>0. req \in [Slots -> Request \cup {None}] BY DEF TypeOK
<1>1. CASE Begins
  <2>1. PICK s \in Slots, next \in {"store", "log"}, e \in Event, c \in Columns :
           Begin(s, next, e, c) /\ Well(next, e, c)
        BY <1>1 DEF Begins
  <2>2. Fits(e) BY <2>1 DEF Well
  <2>3. req' = [req EXCEPT ![s] = [next |-> next, event |-> e, columns |-> c]]
        BY <2>1 DEF Begin
  <2>4. CASE t = s
    <3>1. req'[t].event = e BY <1>0, <2>3, <2>4
    <3> QED BY <2>2, <3>1
  <2>5. CASE t # s BY <1>0, <2>3, <2>5 DEF PendingFit
  <2> QED BY <2>4, <2>5
<1>2. ASSUME NEW s \in Slots, Store(s) PROVE Fits(req'[t].event)
  <2>1. req[s] \in Request BY <1>2, RequestType DEF Store
  <2>2. req[t] # None /\ req'[t].event = req[t].event
        BY <1>0, <1>2, <2>1 DEF Store, Request
  <2> QED BY <2>2 DEF PendingFit
<1>3. ASSUME NEW s \in Slots, Log(s) \/ Stop(s) PROVE Fits(req'[t].event)
  <2>1. req'[t] = req[t] BY <1>0, <1>3 DEF Log, Stop
  <2> QED BY <2>1 DEF PendingFit
<1>4. CASE req' = req BY <1>4 DEF PendingFit
<1>5. CASE Decay
      BY <1>4, <1>5 DEF Decay, CorruptRow, SwapRows, LoseRow, CorruptContract,
                        DamageTrail, Decays
<1>6. ASSUME NEW k \in Keys \cup {None}, SetKey(k) PROVE Fits(req'[t].event)
      BY <1>4, <1>6 DEF SetKey
<1>7. CASE UNCHANGED vars BY <1>4, <1>7 DEF vars
<1> QED BY <1>1, <1>2, <1>3, <1>5, <1>6, <1>7 DEF Step, Decay

(* Unless it damages it, a step leaves the trail alone or adds one row.    *)
LEMMA Grows ==
    ASSUME TypeOK, Step, damage' = damage \/ damage'.trail = 0
    PROVE  \/ trail' = trail
           \/ \E s \in Slots, pub \in Keys \cup {None} :
                 /\ Log(s) /\ req[s] # None
                 /\ trail' = Append(trail, RowOf(req[s].event, pub, LastHash))
PROOF
<1>1. CASE Begins BY <1>1 DEF Begins, Begin
<1>2. ASSUME NEW s \in Slots, Store(s) \/ Stop(s) PROVE trail' = trail
      BY <1>2 DEF Store, Stop
<1>3. ASSUME NEW s \in Slots, Log(s)
      PROVE  /\ req[s] # None
             /\ \E pub \in Keys \cup {None} :
                   trail' = Append(trail, RowOf(req[s].event, pub, LastHash))
      BY <1>3, LoggedRow DEF Log
<1>4. ASSUME NEW i \in DOMAIN trail, NEW j \in DOMAIN trail,
             CorruptRow(i, j) \/ SwapRows(i, j) \/ LoseRow(i)
      PROVE  FALSE
  <2>1. damage' = [damage EXCEPT !.trail = @ + 1]
        BY <1>4 DEF CorruptRow, SwapRows, LoseRow, DamageTrail
  <2>2. damage \in [trail : Nat, contract : {0, 1}] BY DEF TypeOK
  <2>3. damage'.trail = damage.trail + 1 /\ damage.trail \in Nat BY <2>1, <2>2
  <2> QED BY <2>3
<1>5. ASSUME NEW c \in Contracts, CorruptContract(c) PROVE trail' = trail
      BY <1>5 DEF CorruptContract
<1>6. ASSUME NEW k \in Keys \cup {None}, SetKey(k) PROVE trail' = trail
      BY <1>6 DEF SetKey
<1>7. CASE UNCHANGED vars BY <1>7 DEF vars
<1> QED BY <1>1, <1>2, <1>3, <1>4, <1>5, <1>6, <1>7 DEF Step

(* The trail is never less damaged than it was.                            *)
LEMMA DamageLasts ==
    TypeOK /\ Step /\ damage'.trail = 0 => damage.trail = 0
PROOF
<1> SUFFICES ASSUME TypeOK, Step, damage'.trail = 0 PROVE damage.trail = 0 OBVIOUS
<1>0. damage \in [trail : Nat, contract : {0, 1}] BY DEF TypeOK
<1>1. CASE Begins BY <1>1 DEF Begins, Begin, history
<1>2. ASSUME NEW s \in Slots, Store(s) \/ Log(s) \/ Stop(s) PROVE damage' = damage
      BY <1>2 DEF Store, Log, Stop, history
<1>3. ASSUME NEW i \in DOMAIN trail, NEW j \in DOMAIN trail,
             CorruptRow(i, j) \/ SwapRows(i, j) \/ LoseRow(i)
      PROVE  FALSE
  <2>1. damage' = [damage EXCEPT !.trail = @ + 1]
        BY <1>3 DEF CorruptRow, SwapRows, LoseRow, DamageTrail
  <2>2. damage'.trail = damage.trail + 1 /\ damage.trail \in Nat BY <1>0, <2>1
  <2> QED BY <2>2
<1>4. ASSUME NEW c \in Contracts, CorruptContract(c) PROVE damage'.trail = damage.trail
      BY <1>0, <1>4 DEF CorruptContract
<1>5. ASSUME NEW k \in Keys \cup {None}, SetKey(k) PROVE damage' = damage
      BY <1>5 DEF SetKey, history
<1>6. CASE UNCHANGED vars BY <1>6 DEF vars, history
<1> QED BY <1>1, <1>2, <1>3, <1>4, <1>5, <1>6 DEF Step

(* A row that is appended: the rows before it and the verdicts on them are *)
(* as they were, and it is linked, hashed, and what its event was.         *)
LEMMA Appended ==
    ASSUME TypeOK, NEW e \in Event, NEW pub \in Keys \cup {None},
           NEW k \in Nat, k = Len(trail) + 1,
           trail' = Append(trail, RowOf(e, pub, LastHash))
    PROVE  /\ DOMAIN trail' = DOMAIN trail \cup {k}
           /\ \A i \in DOMAIN trail :
                 /\ i # k
                 /\ trail'[i] = trail[i]
                 /\ LinkOK(i)' = LinkOK(i)
                 /\ HashOK(i)' = HashOK(i)
           /\ trail'[k] = RowOf(e, pub, LastHash)
           /\ LinkOK(k)'
           /\ HashOK(k)'
PROOF
<1> DEFINE n == Len(trail)
           r == RowOf(e, pub, LastHash)
<1>0. trail \in Seq(Row) /\ n \in Nat /\ DOMAIN trail = 1 .. n /\ k = n + 1 BY DEF TypeOK
<1>1. r \in Row BY RowType
<1> HIDE DEF r
<1>2. /\ trail' \in Seq(Row) /\ DOMAIN trail' = 1 .. k
      /\ trail'[k] = r
      /\ \A i \in 1 .. n : trail'[i] = trail[i]
      BY <1>0, <1>1, AppendProperties DEF r
<1>3. DOMAIN trail' = DOMAIN trail \cup {k} BY <1>0, <1>2
<1>4. ASSUME NEW i \in DOMAIN trail
      PROVE  /\ i # k
             /\ trail'[i] = trail[i]
             /\ LinkOK(i)' = LinkOK(i)
             /\ HashOK(i)' = HashOK(i)
  <2>1. i \in 1 .. n /\ trail'[i] = trail[i] BY <1>0, <1>2, <1>4
  <2>2. i # k BY <1>0, <2>1
  <2>3. i # 1 => trail'[i - 1] = trail[i - 1]
    <3> SUFFICES ASSUME i # 1 PROVE trail'[i - 1] = trail[i - 1] OBVIOUS
    <3>1. i - 1 \in 1 .. n BY <1>0, <2>1
    <3> QED BY <1>2, <3>1
  <2>4. LinkOK(i)' = LinkOK(i) BY <2>1, <2>3 DEF LinkOK, Genesis
  <2>5. HashOK(i)' = HashOK(i) BY <2>1 DEF HashOK, EventHash
  <2> QED BY <2>1, <2>2, <2>4, <2>5
<1>5. r.prev = LastHash /\ r.hash = EventHash(r.data, r.prev) BY DEF r, RowOf
<1>6. LinkOK(k)'
  <2>1. CASE trail = <<>>
    <3>1. k = 1 /\ LastHash = Genesis BY <1>0, <2>1 DEF LastHash
    <3> QED BY <1>2, <1>5, <3>1 DEF LinkOK, Genesis
  <2>2. CASE trail # <<>>
    <3>1. n \in 1 .. n /\ k # 1 /\ k - 1 = n BY <1>0, <2>2
    <3>2. LastHash = trail[n].hash BY <2>2 DEF LastHash
    <3>3. trail'[n] = trail[n] BY <1>2, <3>1
    <3> QED BY <1>2, <1>5, <3>1, <3>2, <3>3 DEF LinkOK
  <2> QED BY <2>1, <2>2
<1>7. HashOK(k)' BY <1>2, <1>5 DEF HashOK, EventHash
<1> QED BY <1>2, <1>3, <1>4, <1>6, <1>7 DEF r

LEMMA RowFits ==
    ASSUME NEW e, NEW pub, NEW prev
    PROVE  Fits(RowOf(e, pub, prev)) <=> Fits(e)
PROOF BY DEF Fits, OverWhatItSays, RowOf

LEMMA TrailFitsKept == TypeOK /\ RecordsFit /\ Step => TrailFits'
PROOF
<1> SUFFICES ASSUME TypeOK, RecordsFit, Step, damage'.trail = 0,
                    NEW i \in DOMAIN trail'
             PROVE  LinkOK(i)' /\ HashOK(i)' /\ Fits(trail'[i])
    BY DEF TrailFits, Fits, OverWhatItSays
<1>1. damage.trail = 0 BY DamageLasts
<1>2. \A j \in DOMAIN trail : LinkOK(j) /\ HashOK(j) /\ Fits(trail[j])
      BY <1>1 DEF RecordsFit, TrailFits
<1>3. CASE trail' = trail BY <1>2, <1>3 DEF LinkOK, HashOK, Genesis, EventHash
<1>4. ASSUME NEW s \in Slots, NEW pub \in Keys \cup {None}, req[s] # None,
             trail' = Append(trail, RowOf(req[s].event, pub, LastHash))
      PROVE  LinkOK(i)' /\ HashOK(i)' /\ Fits(trail'[i])
  <2>1. req[s].event \in Event /\ Fits(req[s].event)
        BY <1>4, RequestType DEF RecordsFit, PendingFit
  <2>2. Fits(RowOf(req[s].event, pub, LastHash)) BY <2>1, RowFits
  <2>3. PICK k \in Nat : k = Len(trail) + 1 BY DEF TypeOK
  <2>4. DOMAIN trail' = DOMAIN trail \cup {k} BY <1>4, <2>1, <2>3, Appended
  <2>5. CASE i = k BY <1>4, <2>1, <2>2, <2>3, <2>5, Appended
  <2>6. CASE i \in DOMAIN trail BY <1>2, <1>4, <2>1, <2>3, <2>6, Appended
  <2> QED BY <2>4, <2>5, <2>6
<1> QED BY <1>3, <1>4, Grows

LEMMA RecordsFitAlways == Spec => []RecordsFit
PROOF
<1>1. Init => RecordsFit BY InitRecordsFit
<1>2. TypeOK /\ RecordsFit /\ [Next]_vars => RecordsFit'
      BY Steps, PendingFitKept, TrailFitsKept DEF RecordsFit
<1> QED BY <1>1, <1>2, TypeCorrect, PTL DEF Spec

(* A row that fits verifies, or is excused.                                *)
LEMMA FitsVerifies ==
    ASSUME NEW r \in Row, NEW h, Fits(r), ~Excused(r)
    PROVE  /\ SignatureOK(r)
           /\ (r.signature # None /\ r.pub # None)
                 => Verifies(r.pub, SignatureHash(r, h), r.signature)
PROOF
<1>0. r.type \in Types /\ r.signature \in Signature \cup {None} BY DEF Row
<1>1. CASE r.type = "ROLE_ASSIGNED" /\ r.signature = None
      BY <1>1 DEF SignatureOK, RequiresSignature
<1>2. CASE r.type = "BUILD_FINALIZED" /\ (r.signature = None \/ r.data.request = Pem)
      BY <1>2 DEF Excused
<1>3. CASE r.signature # None /\ OverWhatItSays(r)
  <2>1. r.pub = None \/ r.pub = r.signature.by BY <1>3 DEF Excused
  <2>2. r.signature.over \in Requests \cup Contracts BY <1>0, <1>3 DEF Signature
  <2>3. r.signature.over # None BY <2>2, ValuesAssumption
  <2>4. \A d : SignatureHash(r, d) = r.signature.over
        BY <1>3, <2>3 DEF OverWhatItSays, SignatureHash
  <2> QED BY <1>3, <2>1, <2>4 DEF SignatureOK, Verifies
<1> QED BY <1>1, <1>2, <1>3 DEF Fits

(* An undamaged trail verifies, but for what is excused.                   *)
THEOREM UndamagedVerifiesAlways == Spec => []UndamagedVerifies
PROOF
<1>1. TypeOK /\ RecordsFit => UndamagedVerifies
  <2> SUFFICES ASSUME TypeOK, RecordsFit, damage.trail = 0, NEW i \in DOMAIN trail
               PROVE  /\ LinkOK(i) /\ HashOK(i)
                      /\ Verified(i) \/ Excused(trail[i])
      BY DEF UndamagedVerifies
  <2>1. trail[i] \in Row BY DEF TypeOK
  <2>2. LinkOK(i) /\ HashOK(i) /\ Fits(trail[i]) BY DEF RecordsFit, TrailFits
  <2> QED BY <2>1, <2>2, FitsVerifies DEF Verified
<1> QED BY <1>1, TypeCorrect, RecordsFitAlways, PTL

(* Unless something is damaged, a verdict stays what it was.               *)
THEOREM VerdictStandsAlways == Spec => VerdictStands
PROOF
<1>1. TypeOK /\ [Next]_vars =>
        (damage' = damage => \A i \in DOMAIN trail : Verified(i)' = Verified(i))
  <2> SUFFICES ASSUME TypeOK, Step, damage' = damage, NEW i \in DOMAIN trail
               PROVE  Verified(i)' = Verified(i)
      BY Steps
  <2>1. CASE trail' = trail
        BY <2>1 DEF Verified, LinkOK, HashOK, Genesis, EventHash, SignatureOK,
                    SignatureHash, Verifies, RequiresSignature
  <2>2. ASSUME NEW s \in Slots, NEW pub \in Keys \cup {None}, req[s] # None,
               trail' = Append(trail, RowOf(req[s].event, pub, LastHash))
        PROVE  Verified(i)' = Verified(i)
    <3>1. req[s].event \in Event BY <2>2, RequestType
    <3>0. PICK k \in Nat : k = Len(trail) + 1 BY DEF TypeOK
    <3>2. trail'[i] = trail[i] /\ LinkOK(i)' = LinkOK(i) /\ HashOK(i)' = HashOK(i)
          BY <2>2, <3>0, <3>1, Appended
    <3>3. SignatureOK(trail[i])' = SignatureOK(trail[i])
          BY <3>2 DEF SignatureOK, SignatureHash, Verifies, RequiresSignature
    <3> QED BY <3>2, <3>3 DEF Verified
  <2> QED BY <2>1, <2>2, Grows
<1> QED BY <1>1, TypeCorrect, PTL DEF Spec, VerdictStands

-----------------------------------------------------------------------------
(* What a recorded finalization says of the build.                         *)

PendingCarried ==
    \A s \in Slots : req[s] # None =>
        /\ req[s].next = "log" => Carried(req[s].event)
        /\ req[s].next = "store" => Brings(req[s].event, req[s].columns)

RecordedCarried == damage = NoDamage => \A i \in DOMAIN trail : Carried(trail[i])

FinalizationInv == PendingCarried /\ RecordedCarried

LEMMA InitFinalizationInv == Init => FinalizationInv
PROOF BY DEF Init, FinalizationInv, PendingCarried, RecordedCarried

(* Once finalized a build stays so, and once there is a contract there is  *)
(* one, whatever finalizes it again.                                       *)
LEMMA CarriedStays ==
    ASSUME TypeOK, PendingCarried, Step, NEW e, Carried(e)
    PROVE  (e.type = "BUILD_FINALIZED") =>
              finalized' /\ (e.data.contract # None => stored'.yaml # None)
PROOF
<1> SUFFICES ASSUME e.type = "BUILD_FINALIZED", finalized,
                    e.data.contract # None => stored.yaml # None
             PROVE  finalized' /\ (stored.yaml # None => stored'.yaml # None)
    BY DEF Carried
<1>1. CASE Begins BY <1>1 DEF Begins, Begin
<1>2. ASSUME NEW s \in Slots, Store(s)
      PROVE  finalized' /\ (stored.yaml # None => stored'.yaml # None)
  <2>1. req[s].columns.yaml # None \/ req[s].columns = Unset
        BY <1>2 DEF Store, PendingCarried, Brings
  <2>2. finalized' BY <1>2 DEF Store
  <2>3. stored' = stored \/ stored'.yaml = req[s].columns.yaml
        BY <1>2 DEF Store
  <2>4. req[s].columns = Unset => stored' = stored BY <1>2 DEF Store
  <2> QED BY <2>1, <2>2, <2>3, <2>4
<1>3. ASSUME NEW s \in Slots, Log(s) \/ Stop(s)
      PROVE  finalized' = finalized /\ stored' = stored
      BY <1>3 DEF Log, Stop
<1>4. ASSUME NEW k \in Keys \cup {None}, SetKey(k)
      PROVE  finalized' = finalized /\ stored' = stored
      BY <1>4 DEF SetKey
<1>5. ASSUME NEW i \in DOMAIN trail, NEW j \in DOMAIN trail,
             CorruptRow(i, j) \/ SwapRows(i, j) \/ LoseRow(i)
      PROVE  finalized' = finalized /\ stored' = stored
      BY <1>5 DEF CorruptRow, SwapRows, LoseRow, DamageTrail, Decays
<1>6. ASSUME NEW c \in Contracts, CorruptContract(c)
      PROVE  finalized' = finalized /\ (stored.yaml # None => stored'.yaml # None)
  <2>1. c # None BY ValuesAssumption
  <2>2. stored \in Columns BY DEF TypeOK
  <2>3. /\ [stored EXCEPT !.yaml = c].yaml \in {c}
        /\ [stored EXCEPT !.hash = c].yaml = stored.yaml
        BY <2>2 DEF Columns
  <2> QED BY <1>6, <2>1, <2>3 DEF CorruptContract, Decays
<1>7. CASE UNCHANGED vars BY <1>7 DEF vars
<1> QED BY <1>1, <1>2, <1>3, <1>4, <1>5, <1>6, <1>7 DEF Step

LEMMA PendingCarriedKept == TypeOK /\ PendingCarried /\ Step => PendingCarried'
PROOF
<1> DEFINE Good(r) ==
        /\ r.next = "log" => (r.event.type = "BUILD_FINALIZED" =>
               finalized' /\ (r.event.data.contract # None => stored'.yaml # None))
        /\ r.next = "store" => Brings(r.event, r.columns)
<1> SUFFICES ASSUME TypeOK, PendingCarried, Step, NEW t \in Slots, req'[t] # None
             PROVE  Good(req'[t])
    BY DEF PendingCarried, Carried, Brings, Unset
<1>0. req \in [Slots -> Request \cup {None}] BY DEF TypeOK
<1>1. ASSUME req[t] # None, req'[t] = req[t] PROVE Good(req'[t])
  <2>1. /\ req[t].next = "log" => Carried(req[t].event)
        /\ req[t].next = "store" => Brings(req[t].event, req[t].columns)
        BY <1>1 DEF PendingCarried
  <2> QED BY <1>1, <2>1, CarriedStays
<1> HIDE DEF Good
<1>2. CASE Begins
  <2>1. PICK s \in Slots, next \in {"store", "log"}, e \in Event, c \in Columns :
           Begin(s, next, e, c) /\ Well(next, e, c)
        BY <1>2 DEF Begins
  <2>2. req' = [req EXCEPT ![s] = [next |-> next, event |-> e, columns |-> c]]
        BY <2>1 DEF Begin
  <2>3. CASE t = s
    <3>1. req'[t] = [next |-> next, event |-> e, columns |-> c]
          BY <1>0, <2>2, <2>3
    <3> QED BY <2>1, <3>1 DEF Good, Well, Plain
  <2>4. CASE t # s BY <1>0, <1>1, <2>2, <2>4
  <2> QED BY <2>3, <2>4
<1>3. ASSUME NEW s \in Slots, Store(s) PROVE Good(req'[t])
  <2>1. CASE t # s BY <1>0, <1>1, <1>3, <2>1 DEF Store
  <2>2. CASE t = s
    <3>1. req[s] \in Request /\ req[s].next = "store"
          /\ req[s].columns \in Columns
          BY <1>3, RequestType DEF Store
    <3>2. req'[s].next = "log" /\ req'[s].event = req[s].event
          BY <1>0, <1>3, <3>1 DEF Store, Request
    <3>3. finalized' /\ Brings(req[s].event, req[s].columns)
          BY <1>3 DEF Store, PendingCarried
    <3>4. req[s].event.data.contract # None => stored'.yaml # None
      <4> SUFFICES ASSUME req[s].event.data.contract # None PROVE stored'.yaml # None
          OBVIOUS
      <4>1. req[s].columns.yaml # None BY <3>3 DEF Brings
      <4>2. req[s].columns # Unset BY <4>1 DEF Unset
      <4>3. stored' = req[s].columns BY <1>3, <4>2 DEF Store
      <4> QED BY <4>1, <4>3
    <3> QED BY <2>2, <3>2, <3>3, <3>4 DEF Good
  <2> QED BY <2>1, <2>2
<1>4. ASSUME NEW s \in Slots, Log(s) \/ Stop(s) PROVE Good(req'[t])
  <2>1. req'[t] = req[t] BY <1>0, <1>4 DEF Log, Stop
  <2> QED BY <1>1, <2>1
<1>5. CASE req' = req BY <1>1, <1>5
<1>6. CASE Decay
      BY <1>5, <1>6 DEF Decay, CorruptRow, SwapRows, LoseRow, CorruptContract,
                        DamageTrail, Decays
<1>7. ASSUME NEW k \in Keys \cup {None}, SetKey(k) PROVE Good(req'[t])
      BY <1>5, <1>7 DEF SetKey
<1>8. CASE UNCHANGED vars BY <1>5, <1>8 DEF vars
<1> QED BY <1>2, <1>3, <1>4, <1>6, <1>7, <1>8 DEF Step, Decay

LEMMA NoDamageLasts ==
    TypeOK /\ Step /\ damage' = NoDamage => damage = NoDamage
PROOF
<1> SUFFICES ASSUME TypeOK, Step, damage' = NoDamage PROVE damage = NoDamage OBVIOUS
<1>0. damage \in [trail : Nat, contract : {0, 1}] BY DEF TypeOK
<1>1. CASE Begins BY <1>1 DEF Begins, Begin, history
<1>2. ASSUME NEW s \in Slots, Store(s) \/ Log(s) \/ Stop(s) PROVE damage' = damage
      BY <1>2 DEF Store, Log, Stop, history
<1>3. ASSUME NEW i \in DOMAIN trail, NEW j \in DOMAIN trail,
             CorruptRow(i, j) \/ SwapRows(i, j) \/ LoseRow(i)
      PROVE  FALSE
  <2>1. damage' = [damage EXCEPT !.trail = @ + 1]
        BY <1>3 DEF CorruptRow, SwapRows, LoseRow, DamageTrail
  <2>2. damage'.trail = damage.trail + 1 /\ damage.trail \in Nat BY <1>0, <2>1
  <2> QED BY <2>2 DEF NoDamage
<1>4. ASSUME NEW c \in Contracts, CorruptContract(c) PROVE FALSE
  <2>1. damage'.contract = 1 BY <1>0, <1>4 DEF CorruptContract
  <2> QED BY <2>1 DEF NoDamage
<1>5. ASSUME NEW k \in Keys \cup {None}, SetKey(k) PROVE damage' = damage
      BY <1>5 DEF SetKey, history
<1>6. CASE UNCHANGED vars BY <1>6 DEF vars, history
<1> QED BY <1>1, <1>2, <1>3, <1>4, <1>5, <1>6 DEF Step

LEMMA RecordedCarriedKept == TypeOK /\ FinalizationInv /\ Step => RecordedCarried'
PROOF
<1> SUFFICES ASSUME TypeOK, FinalizationInv, Step, damage' = NoDamage,
                    NEW i \in DOMAIN trail',
                    trail'[i].type = "BUILD_FINALIZED"
             PROVE  finalized' /\ (trail'[i].data.contract # None => stored'.yaml # None)
    BY DEF RecordedCarried, Carried, NoDamage
<1>1. damage = NoDamage /\ damage'.trail = 0 BY NoDamageLasts DEF NoDamage
<1>2. \A j \in DOMAIN trail : Carried(trail[j])
      BY <1>1 DEF FinalizationInv, RecordedCarried
<1>3. ASSUME i \in DOMAIN trail, trail'[i] = trail[i]
      PROVE  finalized' /\ (trail'[i].data.contract # None => stored'.yaml # None)
      BY <1>2, <1>3, CarriedStays DEF FinalizationInv
<1>4. CASE trail' = trail BY <1>3, <1>4
<1>5. ASSUME NEW s \in Slots, NEW pub \in Keys \cup {None}, Log(s), req[s] # None,
             trail' = Append(trail, RowOf(req[s].event, pub, LastHash))
      PROVE  finalized' /\ (trail'[i].data.contract # None => stored'.yaml # None)
  <2>1. req[s].event \in Event BY <1>5, RequestType
  <2>2. PICK k \in Nat : k = Len(trail) + 1 BY DEF TypeOK
  <2>3. i \in DOMAIN trail => trail'[i] = trail[i]
        BY <1>5, <2>1, <2>2, Appended
  <2>4. i \in DOMAIN trail \/ i = k BY <1>5, <2>1, <2>2, Appended
  <2>5. CASE i = k
    <3>1. trail'[i] = RowOf(req[s].event, pub, LastHash)
          BY <1>5, <2>1, <2>2, <2>5, Appended
    <3>2. trail'[i].type = req[s].event.type /\ trail'[i].data = req[s].event.data
          BY <3>1 DEF RowOf
    <3>3. Carried(req[s].event) BY <1>5 DEF Log, FinalizationInv, PendingCarried
    <3> QED BY <3>2, <3>3, CarriedStays DEF FinalizationInv
  <2> QED BY <1>3, <2>3, <2>4, <2>5
<1> QED BY <1>1, <1>4, <1>5, Grows

LEMMA FinalizationInvAlways == Spec => []FinalizationInv
PROOF
<1>1. Init => FinalizationInv BY InitFinalizationInv
<1>2. TypeOK /\ FinalizationInv /\ [Next]_vars => FinalizationInv'
      BY Steps, PendingCarriedKept, RecordedCarriedKept DEF FinalizationInv
<1> QED BY <1>1, <1>2, TypeCorrect, PTL DEF Spec

(* A genuine contract is found valid.                                      *)
THEOREM GenuineVerifiesAlways == Spec => []GenuineVerifies
PROOF
<1>1. TypeOK /\ RecordsFit /\ FinalizationInv => GenuineVerifies
  <2> SUFFICES ASSUME TypeOK, RecordsFit, FinalizationInv, NEW i \in DOMAIN trail,
                      damage = NoDamage, stored.yaml = stored.hash,
                      FirstFinalization(i),
                      trail[i].data.contract # None, trail[i].pub # None,
                      ~Excused(trail[i])
               PROVE  ContractValid
      BY DEF GenuineVerifies
  <2>1. damage.trail = 0 BY DEF NoDamage
  <2>2. trail[i] \in Row BY DEF TypeOK
  <2>3. trail[i].type = "BUILD_FINALIZED" BY DEF FirstFinalization
  <2>4. finalized /\ stored.yaml # None
        BY <2>3 DEF FinalizationInv, RecordedCarried, Carried
  <2>5. trail[i].signature # None BY <2>3 DEF Excused
  <2>6. Fits(trail[i]) BY <2>1 DEF RecordsFit, TrailFits
  <2>7. Attests(trail[i]) BY <2>2, <2>5, <2>6, FitsVerifies DEF Attests
  <2> QED BY <2>4, <2>7 DEF ContractValid
<1> QED BY <1>1, TypeCorrect, RecordsFitAlways, FinalizationInvAlways, PTL

-----------------------------------------------------------------------------
(* What damage leaves: every row has the type, signature and key of one    *)
(* row that was there, the data of one and the hash of one.                *)
Mixed ==
    \A k \in DOMAIN trail' : \E i, j, h \in DOMAIN trail :
        /\ trail'[k].type = trail[i].type
        /\ trail'[k].signature = trail[i].signature
        /\ trail'[k].pub = trail[i].pub
        /\ trail'[k].data = trail[j].data
        /\ trail'[k].hash = trail[h].hash

LEMMA CorruptMixed ==
    ASSUME TypeOK, NEW i \in DOMAIN trail, NEW j \in DOMAIN trail, CorruptRow(i, j)
    PROVE  Mixed
PROOF
<1>1. PICK r \in Row :
         /\ trail' = [trail EXCEPT ![i] = r]
         /\ r.type = trail[i].type /\ r.signature = trail[i].signature
         /\ r.pub = trail[i].pub
         /\ r.data \in {trail[i].data, trail[j].data}
         /\ r.hash \in {trail[i].hash, trail[j].hash}
      BY CorruptedRow
<1>2. trail \in Seq(Row) BY DEF TypeOK
<1>3. DOMAIN trail' = DOMAIN trail /\ trail'[i] = r BY <1>1, <1>2
<1>4. \A k \in DOMAIN trail : k # i => trail'[k] = trail[k] BY <1>1, <1>2
<1>5. PICK d \in DOMAIN trail : trail'[i].data = trail[d].data BY <1>1, <1>3
<1>6. PICK h \in DOMAIN trail : trail'[i].hash = trail[h].hash BY <1>1, <1>3
<1>7. /\ trail'[i].type = trail[i].type /\ trail'[i].signature = trail[i].signature
      /\ trail'[i].pub = trail[i].pub
      BY <1>1, <1>3
<1> QED BY <1>3, <1>4, <1>5, <1>6, <1>7 DEF Mixed

LEMMA SwapMixed ==
    ASSUME TypeOK, NEW i \in DOMAIN trail, NEW j \in DOMAIN trail, SwapRows(i, j)
    PROVE  Mixed
PROOF
<1>1. trail \in Seq(Row) BY DEF TypeOK
<1>2. DOMAIN trail' = DOMAIN trail BY <1>1 DEF SwapRows
<1>3. ASSUME NEW k \in DOMAIN trail
      PROVE  \E q \in DOMAIN trail : trail'[k] = trail[q]
      BY <1>1, <1>3 DEF SwapRows
<1> QED BY <1>2, <1>3 DEF Mixed

LEMMA LoseMixed ==
    ASSUME TypeOK, NEW i \in DOMAIN trail, LoseRow(i)
    PROVE  Mixed
PROOF
<1>1. trail \in Seq(Row) /\ i \in 1 .. Len(trail) BY DEF TypeOK
<1>2. trail' = SubSeq(trail, 1, i - 1) \o SubSeq(trail, i + 1, Len(trail))
      BY DEF LoseRow, RemoveAt
<1>3. ASSUME NEW k \in DOMAIN trail'
      PROVE  \E q \in DOMAIN trail : trail'[k] = trail[q]
  <2> DEFINE before == SubSeq(trail, 1, i - 1)
             after == SubSeq(trail, i + 1, Len(trail))
  <2>1. /\ before \in Seq(Row) /\ Len(before) = i - 1
        /\ \A q \in 1 .. i - 1 : before[q] = trail[q]
        BY <1>1
  <2>2. /\ after \in Seq(Row) /\ Len(after) = Len(trail) - i
        /\ \A q \in 1 .. Len(trail) - i : after[q] = trail[i + q]
        BY <1>1
  <2>3. trail' = before \o after BY <1>2
  <2> HIDE DEF before, after
  <2>4. /\ before \o after \in Seq(Row)
        /\ Len(before \o after) = Len(before) + Len(after)
        /\ \A q \in 1 .. Len(before) + Len(after) :
              (before \o after)[q] = IF q <= Len(before) THEN before[q]
                                                       ELSE after[q - Len(before)]
        BY <2>1, <2>2, ConcatProperties
  <2>5. Len(before) + Len(after) = Len(trail) - 1 BY <1>1, <2>1, <2>2
  <2>6. /\ k \in 1 .. Len(trail) - 1
        /\ trail'[k] = IF k <= i - 1 THEN before[k] ELSE after[k - (i - 1)]
    <3>1. k \in 1 .. Len(before \o after) BY <1>3, <2>3, <2>4
    <3>2. k \in 1 .. Len(before) + Len(after) BY <2>4, <3>1
    <3> QED BY <2>1, <2>3, <2>4, <2>5, <3>2
  <2>7. CASE k <= i - 1 BY <1>1, <2>1, <2>6, <2>7
  <2>8. CASE k > i - 1
    <3>1. k - (i - 1) \in 1 .. Len(trail) - i BY <1>1, <2>6, <2>8
    <3>2. trail'[k] = after[k - (i - 1)] BY <1>1, <2>6, <2>8
    <3>4. after[k - (i - 1)] = trail[i + (k - (i - 1))] BY <2>2, <3>1
    <3>3. i + (k - (i - 1)) \in DOMAIN trail BY <1>1, <3>1
    <3> QED BY <3>2, <3>3, <3>4
  <2> QED BY <1>1, <2>6, <2>7, <2>8
<1> QED BY <1>3 DEF Mixed

(* A step mixes the rows there are, which includes that it leaves them as  *)
(* they are, or adds one.                                                  *)
LEMMA MixesOrGrows ==
    ASSUME TypeOK, Step
    PROVE  \/ Mixed
           \/ \E s \in Slots, pub \in Keys \cup {None} :
                 /\ Log(s) /\ req[s] # None
                 /\ trail' = Append(trail, RowOf(req[s].event, pub, LastHash))
PROOF
<1>1. trail' = trail => Mixed BY DEF Mixed
<1>2. ASSUME NEW i \in DOMAIN trail, NEW j \in DOMAIN trail,
             CorruptRow(i, j) \/ SwapRows(i, j) \/ LoseRow(i)
      PROVE  Mixed
      BY <1>2, CorruptMixed, SwapMixed, LoseMixed
<1>3. CASE damage' = damage BY <1>1, <1>3, Grows
<1>4. ASSUME NEW c \in Contracts, CorruptContract(c) PROVE trail' = trail
      BY <1>4 DEF CorruptContract
<1>5. CASE Begins BY <1>3, <1>5 DEF Begins, Begin, history
<1>6. ASSUME NEW s \in Slots, Store(s) \/ Log(s) \/ Stop(s) PROVE damage' = damage
      BY <1>6 DEF Store, Log, Stop, history
<1>7. ASSUME NEW k \in Keys \cup {None}, SetKey(k) PROVE damage' = damage
      BY <1>7 DEF SetKey, history
<1>8. CASE UNCHANGED vars BY <1>1, <1>8 DEF vars
<1> QED BY <1>1, <1>2, <1>3, <1>4, <1>5, <1>6, <1>7, <1>8 DEF Step

-----------------------------------------------------------------------------
(* A chain that verifies was recorded.                                     *)

(* Induction without a schema: a set of natural numbers has a least one.   *)
LessThan == {p \in Nat \X Nat : p[1] < p[2]}

LEMMA LeastNumber ==
    ASSUME NEW T, T \subseteq Nat, T # {}
    PROVE  \E m \in T : \A k \in T : m <= k
PROOF
<1>1. IsWellFoundedOn(LessThan, Nat)
      BY NatLessThanWellFounded DEF OpToRel, LessThan
<1>2. PICK m \in T : \A k \in T : <<k, m>> \notin LessThan BY <1>1, WFMin
<1>3. \A k \in T : ~(k < m) BY <1>2 DEF LessThan
<1> QED BY <1>3

(* In an intact chain each hash is the data of the trail up to its row.    *)
DataUpTo(n) == [i \in 1 .. n |-> trail[i].data]

LEMMA HashIsHistory ==
    ASSUME TypeOK, ChainIntact
    PROVE  \A n \in DOMAIN trail : trail[n].hash = DataUpTo(n)
PROOF
<1>0. trail \in Seq(Row) /\ DOMAIN trail = 1 .. Len(trail) /\ Len(trail) \in Nat
      BY DEF TypeOK
<1> DEFINE T == {n \in 1 .. Len(trail) : trail[n].hash # DataUpTo(n)}
<1> SUFFICES ASSUME T # {} PROVE FALSE BY <1>0
<1>1. T \subseteq Nat BY <1>0
<1>2. PICK m \in T : \A k \in T : m <= k BY <1>1, LeastNumber
<1>3. m \in 1 .. Len(trail) /\ trail[m].hash # DataUpTo(m) BY <1>2
<1>4. \A k \in 1 .. m - 1 : trail[k].hash = DataUpTo(k) BY <1>0, <1>2, <1>3
<1> HIDE DEF T
<1>5. trail[m].prev = DataUpTo(m - 1)
  <2>1. CASE m = 1
    <3>1. trail[m].prev = <<>> BY <1>0, <1>3, <2>1 DEF ChainIntact, LinkOK, Genesis
    <3> QED BY <2>1, <3>1 DEF DataUpTo
  <2>2. CASE m # 1
    <3>1. m - 1 \in 1 .. m - 1 BY <1>0, <1>3, <2>2
    <3>2. trail[m].prev = trail[m - 1].hash
          BY <1>0, <1>3, <2>2 DEF ChainIntact, LinkOK
    <3> QED BY <1>4, <3>1, <3>2
  <2> QED BY <2>1, <2>2
<1>6. trail[m].hash = Append(DataUpTo(m - 1), trail[m].data)
      BY <1>0, <1>3, <1>5 DEF ChainIntact, HashOK, EventHash
<1>7. \A i \in 1 .. m : trail[i].data \in Data
  <2>1. \A i \in 1 .. m : trail[i] \in Row BY <1>0, <1>3
  <2> QED BY <2>1 DEF Row
<1>8. Append(DataUpTo(m - 1), trail[m].data) = DataUpTo(m)
  <2>1. DataUpTo(m - 1) \in Seq(Data) /\ Len(DataUpTo(m - 1)) = m - 1
        BY <1>0, <1>3, <1>7 DEF DataUpTo
  <2>2. DataUpTo(m) \in Seq(Data) /\ Len(DataUpTo(m)) = m
        BY <1>0, <1>3, <1>7 DEF DataUpTo
  <2>3. /\ Append(DataUpTo(m - 1), trail[m].data) \in Seq(Data)
        /\ Len(Append(DataUpTo(m - 1), trail[m].data)) = m
        /\ Append(DataUpTo(m - 1), trail[m].data)[m] = trail[m].data
        /\ \A i \in 1 .. m - 1 :
              Append(DataUpTo(m - 1), trail[m].data)[i] = DataUpTo(m - 1)[i]
        BY <1>0, <1>3, <1>7, <2>1, AppendProperties
  <2>4. \A i \in 1 .. m : Append(DataUpTo(m - 1), trail[m].data)[i] = DataUpTo(m)[i]
        BY <1>0, <1>3, <2>3 DEF DataUpTo
  <2> QED BY <2>2, <2>3, <2>4, SeqEqual
<1> QED BY <1>3, <1>6, <1>8

(* Whatever became of the rows, their hashes are those of trails there     *)
(* have been, and so is the one the next event continues.                  *)
HashesWritten ==
    /\ Genesis \in written
    /\ \A i \in DOMAIN trail : trail[i].hash \in written

LEMMA WrittenGrows ==
    ASSUME TypeOK, Step
    PROVE  written \subseteq written'
PROOF
<1>1. CASE Begins BY <1>1 DEF Begins, Begin, history
<1>2. ASSUME NEW s \in Slots, Store(s) \/ Log(s) \/ Stop(s)
      PROVE  written \subseteq written'
      BY <1>2 DEF Store, Log, Stop, history
<1>3. ASSUME NEW k \in Keys \cup {None}, SetKey(k) PROVE written' = written
      BY <1>3 DEF SetKey, history
<1>4. CASE Decay
      BY <1>4 DEF Decay, CorruptRow, SwapRows, LoseRow, CorruptContract,
                  DamageTrail, Decays
<1>5. CASE UNCHANGED vars BY <1>5 DEF vars, history
<1> QED BY <1>1, <1>2, <1>3, <1>4, <1>5 DEF Step, Decay

LEMMA HashesWrittenKept == TypeOK /\ HashesWritten /\ Step => HashesWritten'
PROOF
<1> SUFFICES ASSUME TypeOK, HashesWritten, Step, NEW k \in DOMAIN trail'
             PROVE  Genesis \in written' /\ trail'[k].hash \in written'
    BY WrittenGrows DEF HashesWritten, Genesis
<1>1. Genesis \in written' BY WrittenGrows DEF HashesWritten
<1>2. \A i \in DOMAIN trail : trail[i].hash \in written'
      BY WrittenGrows DEF HashesWritten
<1>3. CASE Mixed
  <2>1. PICK h \in DOMAIN trail : trail'[k].hash = trail[h].hash BY <1>3 DEF Mixed
  <2> QED BY <1>1, <1>2, <2>1
<1>4. ASSUME NEW s \in Slots, NEW pub \in Keys \cup {None}, Log(s), req[s] # None,
             trail' = Append(trail, RowOf(req[s].event, pub, LastHash))
      PROVE  trail'[k].hash \in written'
  <2>1. req[s].event \in Event BY <1>4, RequestType
  <2>2. PICK n \in Nat : n = Len(trail) + 1 BY DEF TypeOK
  <2>3. /\ k \in DOMAIN trail \/ k = n
        /\ \A i \in DOMAIN trail : trail'[i] = trail[i]
        /\ trail'[n] = RowOf(req[s].event, pub, LastHash)
        BY <1>4, <2>1, <2>2, Appended
  <2>5. RowOf(req[s].event, pub, LastHash).hash = EventHash(req[s].event.data, LastHash)
        BY DEF RowOf
  <2>6. EventHash(req[s].event.data, LastHash) \in written' BY <1>4 DEF Log
  <2>4. trail'[n].hash \in written' BY <2>3, <2>5, <2>6
  <2> QED BY <1>2, <2>3, <2>4
<1> QED BY <1>1, <1>3, <1>4, MixesOrGrows

LEMMA HashesWrittenAlways == Spec => []HashesWritten
PROOF
<1>1. Init => HashesWritten BY DEF Init, HashesWritten, Genesis
<1>2. TypeOK /\ HashesWritten /\ [Next]_vars => HashesWritten'
      BY Steps, HashesWrittenKept
<1> QED BY <1>1, <1>2, TypeCorrect, PTL DEF Spec

(* A chain that verifies tells a story that was once the whole story.      *)
THEOREM IntactMeansRecordedAlways == Spec => []IntactMeansRecorded
PROOF
<1>1. TypeOK /\ HashesWritten => IntactMeansRecorded
  <2> SUFFICES ASSUME TypeOK, HashesWritten, ChainIntact
               PROVE  [i \in DOMAIN trail |-> trail[i].data] \in written
      BY DEF IntactMeansRecorded
  <2>0. DOMAIN trail = 1 .. Len(trail) /\ Len(trail) \in Nat BY DEF TypeOK
  <2>1. CASE Len(trail) = 0
    <3>1. [i \in DOMAIN trail |-> trail[i].data] = <<>> BY <2>0, <2>1
    <3> QED BY <3>1 DEF HashesWritten, Genesis
  <2>2. CASE Len(trail) # 0
    <3>1. Len(trail) \in DOMAIN trail BY <2>0, <2>2
    <3>2. trail[Len(trail)].hash = DataUpTo(Len(trail)) BY <3>1, HashIsHistory
    <3> QED BY <2>0, <3>1, <3>2 DEF HashesWritten, DataUpTo
  <2> QED BY <2>1, <2>2
<1> QED BY <1>1, TypeCorrect, HashesWrittenAlways, PTL

-----------------------------------------------------------------------------
(* What a valid contract means.                                            *)

(* The inductive invariant behind ContractVouched.  Before the build is    *)
(* finalized nothing recorded, or about to be, has anything of a           *)
(* finalization; what finalizes it first brings the contract it is about.  *)
(* About and Plain speak of a row's data apart from its type and           *)
(* signature, so that the rows of a mixed trail are what its rows were.    *)
Finalizing ==
    \A s \in Slots : req[s] # None /\ req[s].next = "store" =>
        About(req[s].event, req[s].columns)

NotYet ==
    stores = 0 =>
        /\ stored = Unset
        /\ \A i \in DOMAIN trail : Plain(trail[i])
        /\ \A s \in Slots : req[s] # None /\ req[s].next = "log" =>
              Plain(req[s].event)

Once ==
    stores = 1 =>
        /\ \A i \in DOMAIN trail : About(trail[i], stored)
        /\ \A s \in Slots : req[s] # None /\ req[s].next = "log" =>
              About(req[s].event, stored)

Vouch == Finalizing /\ NotYet /\ Once

LEMMA InitVouch == Init => Vouch
PROOF BY DEF Init, Vouch, Finalizing, NotYet, Once

(* An event without a finalization says nothing of any contract.           *)
LEMMA PlainAbout ==
    ASSUME NEW e, NEW c, Plain(e)
    PROVE  About(e, c)
PROOF BY DEF Plain, About

(* A property of the rows of a trail, of its type and signature and of its *)
(* data, is kept by what mixes them.                                       *)
LEMMA MixedPlain ==
    ASSUME Mixed, \A i \in DOMAIN trail : Plain(trail[i])
    PROVE  \A k \in DOMAIN trail' : Plain(trail'[k])
PROOF BY DEF Mixed, Plain

LEMMA MixedAbout ==
    ASSUME NEW c, Mixed, \A i \in DOMAIN trail : About(trail[i], c)
    PROVE  \A k \in DOMAIN trail' : About(trail'[k], c)
PROOF
<1> SUFFICES ASSUME NEW k \in DOMAIN trail', c.yaml = c.hash
             PROVE  /\ trail'[k].data.request \in Finalizations =>
                          trail'[k].data.contract = c.yaml
                    /\ trail'[k].type = "BUILD_FINALIZED" /\ trail'[k].signature # None
                       => trail'[k].signature.over \in Finalizations \cup {c.yaml}
    BY DEF About
<1>1. PICK i, j, h \in DOMAIN trail :
         /\ trail'[k].type = trail[i].type
         /\ trail'[k].signature = trail[i].signature
         /\ trail'[k].data = trail[j].data
      BY DEF Mixed
<1>2. About(trail[i], c) /\ About(trail[j], c) BY <1>1
<1> QED BY <1>1, <1>2 DEF About

(* The requests: one that stores becomes one that logs the same event.     *)
LEMMA FinalizingKept == TypeOK /\ Finalizing /\ Step => Finalizing'
PROOF
<1> SUFFICES ASSUME TypeOK, Finalizing, Step, NEW t \in Slots,
                    req'[t] # None, req'[t].next = "store"
             PROVE  About(req'[t].event, req'[t].columns)
    BY DEF Finalizing, About
<1>0. req \in [Slots -> Request \cup {None}] BY DEF TypeOK
<1>1. CASE Begins
  <2>1. PICK s \in Slots, next \in {"store", "log"}, e \in Event, c \in Columns :
           Begin(s, next, e, c) /\ Well(next, e, c)
        BY <1>1 DEF Begins
  <2>2. req' = [req EXCEPT ![s] = [next |-> next, event |-> e, columns |-> c]]
        BY <2>1 DEF Begin
  <2>3. CASE t = s
    <3>1. req'[t] = [next |-> next, event |-> e, columns |-> c]
          BY <1>0, <2>2, <2>3
    <3> QED BY <2>1, <3>1 DEF Well
  <2>4. CASE t # s BY <1>0, <2>2, <2>4 DEF Finalizing
  <2> QED BY <2>3, <2>4
<1>2. ASSUME NEW s \in Slots, Store(s)
      PROVE  About(req'[t].event, req'[t].columns)
  <2>1. req[s] \in Request BY <1>2, RequestType DEF Store
  <2>2. req'[s].next = "log" BY <1>0, <1>2, <2>1 DEF Store, Request
  <2>3. req'[t] = req[t] BY <1>0, <1>2, <2>2 DEF Store
  <2> QED BY <2>3 DEF Finalizing
<1>3. ASSUME NEW s \in Slots, Log(s) \/ Stop(s)
      PROVE  About(req'[t].event, req'[t].columns)
  <2>1. req'[t] = req[t] BY <1>0, <1>3 DEF Log, Stop
  <2> QED BY <2>1 DEF Finalizing
<1>4. CASE req' = req BY <1>4 DEF Finalizing
<1>5. CASE Decay
      BY <1>4, <1>5 DEF Decay, CorruptRow, SwapRows, LoseRow, CorruptContract,
                        DamageTrail, Decays
<1>6. ASSUME NEW k \in Keys \cup {None}, SetKey(k)
      PROVE  About(req'[t].event, req'[t].columns)
      BY <1>4, <1>6 DEF SetKey
<1>7. CASE UNCHANGED vars BY <1>4, <1>7 DEF vars
<1> QED BY <1>1, <1>2, <1>3, <1>5, <1>6, <1>7 DEF Step, Decay

(* A step that finalizes nothing: what it makes of the rows, and of the    *)
(* requests that only have to log, was there or begins with it.            *)
Unstored ==
    /\ stores' = stores
    /\ stored' = stored \/ (stored # Unset /\ stored'.yaml # stored'.hash)

LEMMA StoresOrNot ==
    ASSUME TypeOK, Step
    PROVE  \/ \E s \in Slots : Store(s)
           \/ Unstored
PROOF
<1>1. CASE Begins BY <1>1 DEF Begins, Begin, history, Unstored
<1>2. ASSUME NEW s \in Slots, Log(s) \/ Stop(s) PROVE Unstored
      BY <1>2 DEF Log, Stop, history, Unstored
<1>3. ASSUME NEW k \in Keys \cup {None}, SetKey(k) PROVE Unstored
      BY <1>3 DEF SetKey, history, Unstored
<1>4. ASSUME NEW i \in DOMAIN trail, NEW j \in DOMAIN trail,
             CorruptRow(i, j) \/ SwapRows(i, j) \/ LoseRow(i)
      PROVE  Unstored
      BY <1>4 DEF CorruptRow, SwapRows, LoseRow, DamageTrail, Decays, Unstored
<1>5. ASSUME NEW c \in Contracts, CorruptContract(c) PROVE Unstored
      BY <1>5 DEF CorruptContract, Decays, Unstored
<1>6. CASE UNCHANGED vars BY <1>6 DEF vars, history, Unstored
<1> QED BY <1>1, <1>2, <1>3, <1>4, <1>5, <1>6 DEF Step

(* Where nothing is stored, a request that has to log had to before, or    *)
(* begins and is plain.                                                    *)
LEMMA LogsOnly ==
    ASSUME TypeOK, Step, NEW t \in Slots, ~\E s \in Slots : Store(s),
           req'[t] # None, req'[t].next = "log"
    PROVE  req'[t] = req[t] \/ Plain(req'[t].event)
PROOF
<1>0. req \in [Slots -> Request \cup {None}] BY DEF TypeOK
<1>1. CASE Begins
  <2>1. PICK s \in Slots, next \in {"store", "log"}, e \in Event, c \in Columns :
           Begin(s, next, e, c) /\ Well(next, e, c)
        BY <1>1 DEF Begins
  <2>2. req' = [req EXCEPT ![s] = [next |-> next, event |-> e, columns |-> c]]
        BY <2>1 DEF Begin
  <2>3. CASE t = s
    <3>1. req'[t] = [next |-> next, event |-> e, columns |-> c]
          BY <1>0, <2>2, <2>3
    <3>2. next = "log" BY <3>1
    <3> QED BY <2>1, <3>1, <3>2 DEF Well
  <2>4. CASE t # s BY <1>0, <2>2, <2>4
  <2> QED BY <2>3, <2>4
<1>2. ASSUME NEW s \in Slots, Log(s) \/ Stop(s) PROVE req'[t] = req[t]
      BY <1>0, <1>2 DEF Log, Stop
<1>3. ASSUME NEW k \in Keys \cup {None}, SetKey(k) PROVE req'[t] = req[t]
      BY <1>3 DEF SetKey
<1>4. CASE Decay
      BY <1>4 DEF Decay, CorruptRow, SwapRows, LoseRow, CorruptContract,
                  DamageTrail, Decays
<1>5. CASE UNCHANGED vars BY <1>5 DEF vars
<1> QED BY <1>1, <1>2, <1>3, <1>4, <1>5 DEF Step, Decay

(* A row that is recorded has the type, data and signature of its event.   *)
LEMMA RowSays ==
    ASSUME NEW e, NEW pub, NEW prev
    PROVE  /\ Plain(e) => Plain(RowOf(e, pub, prev))
           /\ \A c : About(e, c) => About(RowOf(e, pub, prev), c)
PROOF BY DEF Plain, About, RowOf

LEMMA TrailPlainKept ==
    ASSUME TypeOK, Step, \A i \in DOMAIN trail : Plain(trail[i]),
           \A s \in Slots : req[s] # None /\ req[s].next = "log" => Plain(req[s].event)
    PROVE  \A k \in DOMAIN trail' : Plain(trail'[k])
PROOF
<1>1. CASE Mixed BY <1>1, MixedPlain
<1>2. ASSUME NEW s \in Slots, NEW pub \in Keys \cup {None}, Log(s), req[s] # None,
             trail' = Append(trail, RowOf(req[s].event, pub, LastHash)),
             NEW k \in DOMAIN trail'
      PROVE  Plain(trail'[k])
  <2>1. req[s].event \in Event BY <1>2, RequestType
  <2>2. PICK n \in Nat : n = Len(trail) + 1 BY DEF TypeOK
  <2>3. /\ k \in DOMAIN trail \/ k = n
        /\ \A i \in DOMAIN trail : trail'[i] = trail[i]
        /\ trail'[n] = RowOf(req[s].event, pub, LastHash)
        BY <1>2, <2>1, <2>2, Appended
  <2>4. Plain(RowOf(req[s].event, pub, LastHash)) BY <1>2, RowSays DEF Log
  <2> QED BY <2>3, <2>4
<1> QED BY <1>1, <1>2, MixesOrGrows

LEMMA TrailAboutKept ==
    ASSUME TypeOK, Step, NEW c, \A i \in DOMAIN trail : About(trail[i], c),
           \A s \in Slots : req[s] # None /\ req[s].next = "log" => About(req[s].event, c)
    PROVE  \A k \in DOMAIN trail' : About(trail'[k], c)
PROOF
<1>1. CASE Mixed BY <1>1, MixedAbout
<1>2. ASSUME NEW s \in Slots, NEW pub \in Keys \cup {None}, Log(s), req[s] # None,
             trail' = Append(trail, RowOf(req[s].event, pub, LastHash)),
             NEW k \in DOMAIN trail'
      PROVE  About(trail'[k], c)
  <2>1. req[s].event \in Event BY <1>2, RequestType
  <2>2. PICK n \in Nat : n = Len(trail) + 1 BY DEF TypeOK
  <2>3. /\ k \in DOMAIN trail \/ k = n
        /\ \A i \in DOMAIN trail : trail'[i] = trail[i]
        /\ trail'[n] = RowOf(req[s].event, pub, LastHash)
        BY <1>2, <2>1, <2>2, Appended
  <2>4. About(RowOf(req[s].event, pub, LastHash), c) BY <1>2, RowSays DEF Log
  <2> QED BY <2>3, <2>4
<1> QED BY <1>1, <1>2, MixesOrGrows

LEMMA NotYetKept == TypeOK /\ NotYet /\ Step => NotYet'
PROOF
<1> SUFFICES ASSUME TypeOK, NotYet, Step, stores' = 0
             PROVE  /\ stored' = Unset
                    /\ \A k \in DOMAIN trail' : Plain(trail'[k])
                    /\ \A t \in Slots : req'[t] # None /\ req'[t].next = "log" =>
                          Plain(req'[t].event)
    BY DEF NotYet, Plain, Unset
<1>1. ASSUME NEW s \in Slots PROVE ~Store(s)
  <2>1. Store(s) => stores' = stores + 1 BY DEF Store
  <2> QED BY <2>1 DEF TypeOK
<1>2. stored' = stored \/ stored # Unset
      BY <1>1, StoresOrNot DEF Unstored
<1>3. stores = 0 BY <1>1, StoresOrNot DEF Unstored
<1>4. stored = Unset BY <1>3 DEF NotYet
<1>5. \A k \in DOMAIN trail' : Plain(trail'[k]) BY <1>3, TrailPlainKept DEF NotYet
<1>6. ASSUME NEW t \in Slots, req'[t] # None, req'[t].next = "log"
      PROVE  Plain(req'[t].event)
      BY <1>1, <1>3, <1>6, LogsOnly DEF NotYet
<1> QED BY <1>2, <1>4, <1>5, <1>6

(* The contract stored first is the one its request is about.              *)
LEMMA OnceStored ==
    ASSUME TypeOK, Finalizing, NotYet, NEW s \in Slots, Store(s), stores' = 1
    PROVE  Once'
PROOF
<1>1. stores = 0
  <2>1. stores' = stores + 1 BY DEF Store
  <2> QED BY <2>1 DEF TypeOK
<1>2. stored' = req[s].columns BY <1>1 DEF Store, NotYet
<1>3. trail' = trail BY DEF Store
<1>4. \A i \in DOMAIN trail' : About(trail'[i], stored')
      BY <1>1, <1>3, PlainAbout DEF NotYet
<1>5. ASSUME NEW t \in Slots, req'[t] # None, req'[t].next = "log"
      PROVE  About(req'[t].event, stored')
  <2>1. req \in [Slots -> Request \cup {None}] BY DEF TypeOK
  <2>2. req[s] \in Request BY RequestType DEF Store
  <2>3. CASE t = s
    <3>1. req'[t].event = req[s].event BY <2>1, <2>2, <2>3 DEF Store, Request
    <3>2. About(req[s].event, req[s].columns) BY DEF Store, Finalizing
    <3> QED BY <1>2, <3>1, <3>2
  <2>4. CASE t # s
    <3>1. req'[t] = req[t] BY <2>1, <2>4 DEF Store
    <3>2. Plain(req[t].event) BY <1>1, <1>5, <3>1 DEF NotYet
    <3> QED BY <3>1, <3>2, PlainAbout
  <2> QED BY <2>3, <2>4
<1> QED BY <1>4, <1>5 DEF Once, About

LEMMA OnceKept == TypeOK /\ Vouch /\ Step => Once'
PROOF
<1> SUFFICES ASSUME TypeOK, Vouch, Step, stores' = 1 PROVE Once' BY DEF Once
<1>1. CASE \E s \in Slots : Store(s) BY <1>1, OnceStored DEF Vouch
<1>2. CASE ~\E s \in Slots : Store(s)
  <2>1. Unstored BY <1>2, StoresOrNot
  <2>2. CASE stored'.yaml # stored'.hash BY <2>2 DEF Once, About
  <2>3. CASE stored' = stored
    <3>1. stores = 1 BY <2>1 DEF Unstored
    <3>2. \A k \in DOMAIN trail' : About(trail'[k], stored)
          BY <3>1, TrailAboutKept DEF Vouch, Once
    <3>3. ASSUME NEW t \in Slots, req'[t] # None, req'[t].next = "log"
          PROVE  About(req'[t].event, stored)
          BY <1>2, <3>1, <3>3, LogsOnly, PlainAbout DEF Vouch, Once
    <3> QED BY <2>3, <3>2, <3>3 DEF Once, About
  <2> QED BY <2>1, <2>2, <2>3 DEF Unstored
<1> QED BY <1>1, <1>2

LEMMA VouchAlways == Spec => []Vouch
PROOF
<1>1. Init => Vouch BY InitVouch
<1>2. TypeOK /\ Vouch /\ [Next]_vars => Vouch'
      BY Steps, FinalizingKept, NotYetKept, OnceKept DEF Vouch
<1> QED BY <1>1, <1>2, TypeCorrect, PTL DEF Spec

(* A valid contract is the one the first finalization names or is signed   *)
(* over, whatever became of the trail, unless the build was finalized      *)
(* more than once.                                                         *)
THEOREM ContractVouchedAlways == Spec => []ContractVouched
PROOF
<1>1. TypeOK /\ Vouch => ContractVouched
  <2> SUFFICES ASSUME TypeOK, Vouch, ContractValid, stores = 1,
                      NEW i \in DOMAIN trail, FirstFinalization(i)
               PROVE  /\ trail[i].signature.by = trail[i].pub
                      /\ stored.yaml \in {trail[i].data.contract,
                                          trail[i].signature.over}
      BY DEF ContractVouched
  <2>1. PICK j \in DOMAIN trail : FirstFinalization(j) /\ Attests(trail[j])
        BY DEF ContractValid
  <2>2. i = j
    <3>1. i \in Nat \ {0} /\ j \in Nat \ {0} BY DEF TypeOK
    <3>2. ~(i < j) /\ ~(j < i) BY <2>1, <3>1 DEF FirstFinalization
    <3> QED BY <3>1, <3>2
  <2>3. trail[i].type = "BUILD_FINALIZED" BY DEF FirstFinalization
  <2>4. /\ trail[i].signature # None
        /\ trail[i].signature.by = trail[i].pub
        /\ trail[i].signature.over = SignatureHash(trail[i], stored.hash)
        BY <2>1, <2>2 DEF Attests, Verifies
  <2>5. stored.hash = stored.yaml /\ stored.yaml \in Contracts
        BY DEF ContractValid, TypeOK, Columns
  <2>6. /\ trail[i].data.request \in Finalizations =>
              trail[i].data.contract = stored.yaml
        /\ trail[i].signature.over \in Finalizations \cup {stored.yaml}
        BY <2>3, <2>4, <2>5 DEF Vouch, Once, About
  <2>7. SignatureHash(trail[i], stored.hash)
           \in {trail[i].data.request, trail[i].data.contract, stored.yaml}
        BY <2>5 DEF SignatureHash
  <2>8. trail[i].data.contract \notin Finalizations
    <3>1. trail[i] \in Row BY DEF TypeOK
    <3>2. trail[i].data \in Data BY <3>1 DEF Row
    <3> QED BY <3>2, ValuesAssumption DEF Data, Requests
  <2> QED BY <2>4, <2>6, <2>7, <2>8
<1> QED BY <1>1, TypeCorrect, VouchAlways, PTL

-----------------------------------------------------------------------------
(* The trail is the log AuditChain implements.                             *)

TrailLog == INSTANCE AuditLog WITH EventData <- Row, log <- trail

LEMMA AppendStep ==
    ASSUME TypeOK, damage'.trail = 0, Step
    PROVE  [TrailLog!Next]_trail
PROOF
<1>1. ASSUME NEW s \in Slots, NEW pub \in Keys \cup {None}, req[s] # None
      PROVE  RowOf(req[s].event, pub, LastHash) \in Row
  <2>1. req[s] \in Request BY <1>1 DEF TypeOK
  <2>2. req[s].event \in Event BY <2>1 DEF Request
  <2> QED BY <2>2, RowType
<1> QED BY <1>1, Grows DEF TrailLog!Next, TrailLog!Record

(* As long as it is not damaged, the trail with all its columns is the log *)
(* that AuditChain shows LogEvent to implement.                            *)
THEOREM UndamagedIsLog == Spec /\ [](damage.trail = 0) => TrailLog!Spec
PROOF
<1>1. Init => TrailLog!Init BY DEF Init, TrailLog!Init
<1>2. TypeOK /\ (damage.trail = 0)' /\ [Next]_vars => [TrailLog!Next]_trail
      BY Steps, AppendStep
<1> QED BY <1>1, <1>2, TypeCorrect, PTL DEF Spec, TrailLog!Spec
=============================================================================
