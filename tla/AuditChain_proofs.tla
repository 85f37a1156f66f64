-------------------------- MODULE AuditChain_proofs --------------------------
(***************************************************************************)
(* Proofs about AuditChain, for any number of overlapping LogEvent calls,  *)
(* users, keys and events.                                                 *)
(*                                                                         *)
(* The invariant ChainInv says, besides what the readers see, what a call  *)
(* in flight knows: the number and the previous hash it carries belong to  *)
(* an event that is stored (or to the genesis).  Events are never changed, *)
(* so that knowledge cannot go stale; only the number can be taken, and    *)
(* then the insert is refused.                                             *)
(***************************************************************************)
EXTENDS AuditChain, FiniteSetTheorems, SequenceTheorems, TLAPS

(* A row continues the chain from the row before it.                       *)
Linked ==
    \A r \in rows :
        /\ r.hash = EventHash(r.data, r.prev)
        /\ \/ r.seq = 1 /\ r.prev = Genesis
           \/ \E q \in rows : q.seq + 1 = r.seq /\ r.prev = q.hash

Unique == \A r, q \in rows : q.seq = r.seq => q = r

(* So does the row a call is about to insert.                              *)
Pending ==
    \A w \in Writers : pc[w] \in {"actor", "insert"} =>
        \/ call[w].seq = 1 /\ call[w].prev = Genesis
        \/ \E q \in rows : q.seq + 1 = call[w].seq /\ call[w].prev = q.hash

(* The rows are numbered 1 .. n.                                           *)
Dense ==
    /\ IsFiniteSet(rows)
    /\ \A r \in rows : r.seq <= Cardinality(rows)
    /\ \A i \in 1 .. Cardinality(rows) : \E r \in rows : r.seq = i

ChainInv == TypeOK /\ Linked /\ Unique /\ Pending

-----------------------------------------------------------------------------
(* The type invariant is inductive: every row and every call in flight is a *)
(* complete record of its columns, whatever the interleaving.              *)
LEMMA TypeStep == TypeOK /\ [Next]_vars => TypeOK'
<1> SUFFICES ASSUME TypeOK, [Next]_vars PROVE TypeOK'
  OBVIOUS
<1> USE DEF TypeOK, Hashes
<1>1. ASSUME NEW w \in Writers, NEW a \in Actors, NEW d \in EventData,
             NEW signed \in BOOLEAN, Begin(w, a, d, signed)
      PROVE  TypeOK'
  <2>1. [data |-> d, actor |-> a,
         signer |-> IF signed THEN userKey[a] ELSE NoKey,
         pub |-> IF d \in Receipts THEN userKey[a] ELSE NoKey,
         seq |-> 1, prev |-> Genesis] \in Call
    BY <1>1 DEF Call, Genesis
  <2> QED
    BY <1>1, <2>1 DEF Begin, Goto
<1>2. ASSUME NEW w \in Writers, ReadLatest(w) PROVE TypeOK'
  <2>1. call[w] \in Call
    BY <1>2 DEF ReadLatest
  <2>2. PICK n \in Nat \ {0}, p \in Hashes :
           call' = [call EXCEPT ![w] = Positioned(@, n, p)]
    <3>1. Genesis \in Hashes
      BY DEF Genesis
    <3>2. ASSUME NEW r \in Latest PROVE r.seq + 1 \in Nat \ {0} /\ r.hash \in Hashes
      BY DEF Latest, Row
    <3>3. CASE call' = [call EXCEPT ![w] = Positioned(@, 1, Genesis)]
      <4>1. 1 \in Nat \ {0}
        OBVIOUS
      <4> QED
        BY <3>1, <3>3, <4>1, Zenon
    <3>4. CASE \E r \in Latest :
                 call' = [call EXCEPT ![w] = Positioned(@, r.seq + 1, r.hash)]
      BY <3>2, <3>4
    <3> QED
      BY <1>2, <3>3, <3>4 DEF ReadLatest
  <2>3. Positioned(call[w], n, p) \in Call
    BY <2>1 DEF Positioned, Call
  <2> QED
    BY <1>2, <2>2, <2>3 DEF ReadLatest, Goto
<1>3. ASSUME NEW w \in Writers, ReadActor(w) PROVE TypeOK'
  <2>1. call[w] \in Call
    BY <1>3 DEF ReadActor
  <2>2. PICK c \in Call : call' = [call EXCEPT ![w] = c]
    BY <1>3, <2>1 DEF ReadActor, Call
  <2> QED
    BY <1>3, <2>2 DEF ReadActor, Goto
<1>4. ASSUME NEW w \in Writers, InsertEvent(w) PROVE TypeOK'
  <2>1. call[w] \in Call
    BY <1>4 DEF InsertEvent
  <2>2. NewRow(call[w]) \in Row
    BY <2>1 DEF NewRow, Row, Call, EventHash
  <2> QED
    BY <1>4, <2>2 DEF InsertEvent, Return
<1>5. ASSUME NEW w \in Writers, InsertConflict(w) \/ Abort(w) PROVE TypeOK'
  BY <1>5 DEF InsertConflict, Abort, Return
<1>6. ASSUME NEW a \in Actors, NEW k \in Keys, RegisterPublicKey(a, k) PROVE TypeOK'
  BY <1>6 DEF RegisterPublicKey
<1>7. ASSUME NEW a \in Actors, RevokePublicKey(a) PROVE TypeOK'
  BY <1>7 DEF RevokePublicKey
<1>8. CASE UNCHANGED vars
  BY <1>8 DEF vars
<1> QED
  BY <1>1, <1>2, <1>3, <1>4, <1>5, <1>6, <1>7, <1>8 DEF Next, Undisturbed, LogEvent

(* TypeOK holds in every reachable state.                                  *)
THEOREM TypeCorrect == Spec => []TypeOK
<1>1. Init => TypeOK
  BY DEF Init, TypeOK
<1> QED
  BY <1>1, TypeStep, PTL DEF Spec

-----------------------------------------------------------------------------
(* What a call knows stays true as long as stored events stay stored.       *)
LEMMA PendingStable ==
    ASSUME Pending, rows \subseteq rows',
           \A w \in Writers : pc'[w] \in {"actor", "insert"} =>
               /\ pc[w] \in {"actor", "insert"}
               /\ call'[w].seq = call[w].seq
               /\ call'[w].prev = call[w].prev
    PROVE  Pending'
BY DEF Pending, Genesis

(* The insert is the only step that changes the table, and the UNIQUE       *)
(* constraint is what keeps the chain a chain.                             *)
LEMMA ChainStep == ChainInv /\ [Next]_vars => ChainInv'
<1> SUFFICES ASSUME ChainInv, [Next]_vars PROVE Linked' /\ Unique' /\ Pending'
  BY TypeStep DEF ChainInv
<1> USE DEF ChainInv
<1>0. ASSUME UNCHANGED rows PROVE Linked' /\ Unique'
  BY <1>0 DEF Linked, Unique, EventHash, Genesis
<1>1. ASSUME NEW w \in Writers, NEW a \in Actors, NEW d \in EventData,
             NEW signed \in BOOLEAN, Begin(w, a, d, signed)
      PROVE  Linked' /\ Unique' /\ Pending'
  <2>1. \A v \in Writers : pc'[v] \in {"actor", "insert"} => v # w
    BY <1>1 DEF Begin, Goto, TypeOK
  <2>2. Pending'
    BY <1>1, <2>1, PendingStable DEF Begin, Goto, TypeOK
  <2> QED
    BY <1>0, <1>1, <2>2 DEF Begin
<1>2. ASSUME NEW w \in Writers, ReadLatest(w) PROVE Linked' /\ Unique' /\ Pending'
  <2>1. call[w] \in Call
    BY <1>2 DEF ReadLatest, TypeOK
  <2>2. \/ call'[w] = Positioned(call[w], 1, Genesis)
        \/ \E r \in rows : call'[w] = Positioned(call[w], r.seq + 1, r.hash)
    BY <1>2 DEF ReadLatest, Latest, TypeOK
  <2>3. \A n, p : /\ Positioned(call[w], n, p).seq = n
                 /\ Positioned(call[w], n, p).prev = p
    BY <2>1 DEF Positioned, Call
  <2>4. \/ call'[w].seq = 1 /\ call'[w].prev = Genesis
        \/ \E q \in rows : q.seq + 1 = call'[w].seq /\ call'[w].prev = q.hash
    BY <2>2, <2>3
  <2>5. \A v \in Writers : v # w => call'[v] = call[v] /\ pc'[v] = pc[v]
    BY <1>2 DEF ReadLatest, Goto, TypeOK
  <2>6. Pending'
    BY <1>2, <2>4, <2>5 DEF Pending, ReadLatest, Genesis
  <2> QED
    BY <1>0, <1>2, <2>6 DEF ReadLatest
<1>3. ASSUME NEW w \in Writers, ReadActor(w) PROVE Linked' /\ Unique' /\ Pending'
  <2>1. call[w] \in Call
    BY <1>3 DEF ReadActor, TypeOK
  <2>2. call'[w].seq = call[w].seq /\ call'[w].prev = call[w].prev
    BY <1>3, <2>1 DEF ReadActor, TypeOK, Call
  <2>3. \A v \in Writers : v # w => call'[v] = call[v] /\ pc'[v] = pc[v]
    BY <1>3 DEF ReadActor, Goto, TypeOK
  <2>4. Pending'
    BY <1>3, <2>2, <2>3 DEF Pending, ReadActor, Genesis
  <2> QED
    BY <1>0, <1>3, <2>4 DEF ReadActor
<1>4. ASSUME NEW w \in Writers, InsertEvent(w) PROVE Linked' /\ Unique' /\ Pending'
  <2> DEFINE n == NewRow(call[w])
  <2>1. /\ n.seq = call[w].seq /\ n.prev = call[w].prev
        /\ n.hash = EventHash(n.data, n.prev)
    BY DEF NewRow
  <2>2. rows' = rows \cup {n}
    BY <1>4 DEF InsertEvent
  <2>3. Linked'
    <3>1. \/ n.seq = 1 /\ n.prev = Genesis
          \/ \E q \in rows : q.seq + 1 = n.seq /\ n.prev = q.hash
      BY <1>4, <2>1 DEF Pending, InsertEvent
    <3> HIDE DEF n
    <3> QED
      BY <2>1, <2>2, <3>1 DEF Linked, EventHash, Genesis
  <2>4. Unique'
    <3> HIDE DEF n
    <3> QED
      BY <1>4, <2>1, <2>2 DEF Unique, InsertEvent
  <2>5. Pending'
    BY <1>4, PendingStable DEF InsertEvent, Return, TypeOK
  <2> QED
    BY <2>3, <2>4, <2>5
<1>5. ASSUME NEW w \in Writers, InsertConflict(w) \/ Abort(w)
      PROVE  Linked' /\ Unique' /\ Pending'
  <2>1. Pending'
    BY <1>5, PendingStable DEF InsertConflict, Abort, Return, TypeOK
  <2> QED
    BY <1>0, <1>5, <2>1 DEF InsertConflict, Abort
<1>6. ASSUME UNCHANGED <<rows, pc, call>> PROVE Linked' /\ Unique' /\ Pending'
  BY <1>0, <1>6 DEF Pending, Genesis
<1> QED
  BY <1>1, <1>2, <1>3, <1>4, <1>5, <1>6
  DEF Next, Undisturbed, LogEvent, RegisterPublicKey, RevokePublicKey, vars

LEMMA ChainInvariant == Spec => []ChainInv
<1>1. Init => ChainInv
  BY DEF Init, ChainInv, TypeOK, Linked, Unique, Pending
<1> QED
  BY <1>1, ChainStep, PTL DEF Spec

(* Whatever the number of calls that overlap and the points where they die, *)
(* sequence numbers are dense and never shared.                            *)
THEOREM NoGapNoDuplicateAlways == Spec => []NoGapNoDuplicate
<1>1. ChainInv => NoGapNoDuplicate
  BY DEF ChainInv, Linked, Unique, NoGapNoDuplicate
<1> QED
  BY <1>1, ChainInvariant, PTL

(* VerifyBuildAuditChain finds the hash chain of the build intact whenever   *)
(* it is called.                                                           *)
THEOREM ChainIntactAlways == Spec => []ChainIntact
<1>1. ChainInv => ChainIntact
  <2> SUFFICES ASSUME ChainInv, NEW r \in rows PROVE HashLinked(r)
    BY DEF ChainIntact
  <2>1. \A q \in rows : q.seq \in Nat \ {0}
    BY DEF ChainInv, TypeOK, Row
  <2>2. CASE r.seq = 1
    <3>1. r.prev = Genesis
      BY <2>1, <2>2 DEF ChainInv, Linked
    <3>2. Preceding(r) = {}
      BY <2>1, <2>2 DEF Preceding
    <3> QED
      BY <3>1, <3>2 DEF HashLinked, ChainInv, Linked
  <2>3. CASE r.seq # 1
    <3>1. PICK p \in rows : p.seq + 1 = r.seq /\ r.prev = p.hash
      BY <2>3 DEF ChainInv, Linked
    <3>2. \A q \in Preceding(r) : q = p
      <4> SUFFICES ASSUME NEW q \in Preceding(r) PROVE q = p
        OBVIOUS
      <4>1. q \in rows /\ q.seq < r.seq /\ p.seq <= q.seq
        BY <2>1, <3>1 DEF Preceding
      <4>2. q.seq = p.seq
        BY <2>1, <3>1, <4>1
      <4> QED
        BY <3>1, <4>1, <4>2 DEF ChainInv, Unique
    <3>3. p \in Preceding(r)
      BY <2>1, <3>1 DEF Preceding
    <3> QED
      BY <3>1, <3>2, <3>3 DEF HashLinked, ChainInv, Linked
  <2> QED
    BY <2>2, <2>3
<1> QED
  BY <1>1, ChainInvariant, PTL

-----------------------------------------------------------------------------
(* The number a call carries is at most one above the last, so a number     *)
(* that is still free is the next one.                                     *)
LEMMA NextFree ==
    ASSUME ChainInv, Dense, NEW w \in Writers, InsertEvent(w)
    PROVE  call[w].seq = Cardinality(rows) + 1
<1>1. Cardinality(rows) \in Nat
  BY FS_CardinalityType DEF Dense
<1>2. call[w].seq \in Nat \ {0}
  BY DEF InsertEvent, ChainInv, TypeOK, Call
<1>3. \A r \in rows : r.seq \in Nat \ {0}
  BY DEF ChainInv, TypeOK, Row
<1>4. call[w].seq <= Cardinality(rows) + 1
  BY <1>1, <1>3 DEF InsertEvent, ChainInv, Pending, Dense
<1>5. call[w].seq \notin 1 .. Cardinality(rows)
  BY DEF InsertEvent, Dense
<1> QED
  BY <1>1, <1>2, <1>4, <1>5

LEMMA DenseStep == ChainInv /\ Dense /\ [Next]_vars => Dense'
<1> SUFFICES ASSUME ChainInv, Dense, [Next]_vars PROVE Dense'
  OBVIOUS
<1>1. ASSUME NEW w \in Writers, InsertEvent(w) PROVE Dense'
  <2> DEFINE n == NewRow(call[w])
             c == Cardinality(rows)
  <2>1. n.seq = c + 1
    BY <1>1, NextFree DEF NewRow
  <2>2. rows' = rows \cup {n} /\ n \notin rows
    BY <1>1 DEF InsertEvent, NewRow
  <2>3. c \in Nat
    BY FS_CardinalityType DEF Dense
  <2>4. IsFiniteSet(rows') /\ Cardinality(rows') = c + 1
    <3> HIDE DEF n
    <3> QED
      BY <2>2, FS_AddElement DEF Dense
  <2>5. \A r \in rows : r.seq \in Nat /\ r.seq <= c
    BY DEF Dense, ChainInv, TypeOK, Row
  <2> HIDE DEF n
  <2>6. \A r \in rows' : r.seq <= c + 1
    BY <2>1, <2>2, <2>3, <2>5
  <2>7. \A i \in 1 .. c + 1 : \E r \in rows' : r.seq = i
    <3> SUFFICES ASSUME NEW i \in 1 .. c + 1 PROVE \E r \in rows' : r.seq = i
      OBVIOUS
    <3>1. CASE i = c + 1
      BY <2>1, <2>2, <3>1
    <3>2. CASE i \in 1 .. c
      BY <2>2, <3>2 DEF Dense
    <3> QED
      BY <2>3, <3>1, <3>2
  <2> QED
    BY <2>4, <2>6, <2>7 DEF Dense
<1>2. ASSUME UNCHANGED rows PROVE Dense'
  BY <1>2 DEF Dense
<1> QED
  BY <1>1, <1>2 DEF Next, Undisturbed, LogEvent, Begin, ReadLatest, ReadActor,
     InsertConflict, Abort, RegisterPublicKey, RevokePublicKey, vars

(* Hashes commit to the past: the hash of event number n is as long as n,   *)
(* and its i-th component is the data of event number i.                    *)
Committed ==
    \A r \in rows : /\ Len(r.hash) = r.seq
                    /\ \A q \in rows : q.seq <= r.seq => r.hash[q.seq] = q.data

(* Appending to the chain leaves the hashes already computed alone and      *)
(* extends the last of them; the number of a new row is above all others.   *)
LEMMA CommittedStep ==
    ChainInv /\ Dense /\ Committed /\ [Next]_vars => Committed'
<1> SUFFICES ASSUME ChainInv, Dense, Committed, [Next]_vars PROVE Committed'
  OBVIOUS
<1>1. ASSUME NEW w \in Writers, InsertEvent(w) PROVE Committed'
  <2> DEFINE n == NewRow(call[w])
             c == Cardinality(rows)
  <2>1. /\ n.seq = c + 1 /\ n.prev = call[w].prev
        /\ n.hash = Append(n.prev, n.data)
    BY <1>1, NextFree DEF NewRow, EventHash
  <2>2. rows' = rows \cup {n}
    BY <1>1 DEF InsertEvent
  <2>3. c \in Nat
    BY FS_CardinalityType DEF Dense
  <2>4. \A r \in rows : /\ r.seq \in Nat \ {0} /\ r.seq <= c
                        /\ r.hash \in Seq(EventData)
    BY DEF Dense, ChainInv, TypeOK, Row, Hashes
  <2>5. n.prev \in Seq(EventData) /\ n.data \in EventData
    BY <1>1 DEF NewRow, InsertEvent, ChainInv, TypeOK, Call, Hashes
  <2>6. \/ n.seq = 1 /\ n.prev = Genesis
        \/ \E q \in rows : q.seq + 1 = n.seq /\ n.prev = q.hash
    BY <1>1 DEF NewRow, InsertEvent, ChainInv, Pending
  <2> HIDE DEF n
  <2>7. Len(n.prev) = c /\ \A q \in rows : n.prev[q.seq] = q.data
    <3>1. CASE n.seq = 1 /\ n.prev = Genesis
      <4>1. c = 0 /\ Len(Genesis) = 0
        BY <2>1, <2>3, <3>1 DEF Genesis
      <4>2. rows = {}
        BY <2>4, <4>1
      <4> QED
        BY <3>1, <4>1, <4>2
    <3>2. CASE \E q \in rows : q.seq + 1 = n.seq /\ n.prev = q.hash
      <4>1. PICK p \in rows : p.seq + 1 = n.seq /\ n.prev = p.hash
        BY <3>2
      <4>2. p.seq = c
        BY <2>1, <2>3, <2>4, <4>1
      <4> QED
        BY <2>4, <4>1, <4>2 DEF Committed
    <3> QED
      BY <2>6, <3>1, <3>2
  <2>8. /\ Len(n.hash) = c + 1 /\ n.hash[c + 1] = n.data
        /\ \A i \in 1 .. c : n.hash[i] = n.prev[i]
    BY <2>1, <2>5, <2>7
  <2>9. \A q \in rows : n.hash[q.seq] = q.data
    BY <2>3, <2>4, <2>7, <2>8
  <2>10. \A r \in rows : ~(n.seq <= r.seq)
    BY <2>1, <2>3, <2>4
  <2> QED
    BY <2>1, <2>2, <2>8, <2>9, <2>10 DEF Committed
<1>2. ASSUME UNCHANGED rows PROVE Committed'
  BY <1>2 DEF Committed
<1> QED
  BY <1>1, <1>2 DEF Next, Undisturbed, LogEvent, Begin, ReadLatest, ReadActor,
     InsertConflict, Abort, RegisterPublicKey, RevokePublicKey, vars

LEMMA CommittedInvariant == Spec => [](ChainInv /\ Dense /\ Committed)
<1>1. Init => Dense /\ Committed
  BY FS_EmptySet DEF Init, Dense, Committed
<1>2. Init => ChainInv
  BY DEF Init, ChainInv, TypeOK, Linked, Unique, Pending
<1> QED
  BY <1>1, <1>2, ChainStep, DenseStep, CommittedStep, PTL DEF Spec

(* The hash of an event determines the data of every event up to it.        *)
THEOREM HashCommitsAlways == Spec => []HashCommitsToHistory
<1>1. ChainInv /\ Dense /\ Committed => HashCommitsToHistory
  <2> SUFFICES ASSUME ChainInv, Dense, Committed, NEW r \in rows, NEW q \in rows,
                      q.seq <= r.seq
               PROVE  q.seq \in DOMAIN r.hash /\ r.hash[q.seq] = q.data
    BY DEF HashCommitsToHistory
  <2>1. r.hash \in Seq(EventData) /\ r.seq \in Nat /\ q.seq \in Nat \ {0}
    BY DEF ChainInv, TypeOK, Row, Hashes
  <2>2. DOMAIN r.hash = 1 .. r.seq
    BY <2>1 DEF Committed
  <2> QED
    BY <2>1, <2>2 DEF Committed
<1> QED
  BY <1>1, CommittedInvariant, PTL

-----------------------------------------------------------------------------
(* A call that records an acknowledgment carries the key that signed it    *)
(* from its beginning; ReadActor looks a key up only for those without one.*)
ReceiptsSigned ==
    \A w \in Writers : (pc[w] # "idle" /\ call[w].data \in Receipts) =>
        call[w].signer # NoKey /\ call[w].pub = call[w].signer

ReceiptInv == ReceiptsSigned /\ ReceiptVerifies

LEMMA ReceiptStep == TypeOK /\ ReceiptInv /\ [Next]_vars => ReceiptInv'
<1> SUFFICES ASSUME TypeOK, ReceiptInv, [Next]_vars PROVE ReceiptInv'
  OBVIOUS
<1> DEFINE Fine(c) == c.data \in Receipts => c.signer # NoKey /\ c.pub = c.signer
<1>0. \A w \in Writers : pc[w] # "idle" => call[w] \in Call /\ Fine(call[w])
  BY DEF TypeOK, ReceiptInv, ReceiptsSigned
<1>1. ASSUME NEW w \in Writers,
             \A v \in Writers : v # w => pc'[v] = pc[v] /\ call'[v] = call[v],
             pc'[w] # "idle" => Fine(call'[w])
      PROVE  ReceiptsSigned'
  BY <1>0, <1>1 DEF ReceiptsSigned
<1>2. ASSUME UNCHANGED rows PROVE ReceiptVerifies'
  BY <1>2 DEF ReceiptInv, ReceiptVerifies
<1> HIDE DEF Fine
<1>3. ASSUME NEW w \in Writers, NEW a \in Actors, NEW d \in EventData,
             NEW signed \in BOOLEAN, Begin(w, a, d, signed)
      PROVE  ReceiptInv'
  <2> DEFINE c == [data |-> d, actor |-> a,
                   signer |-> IF signed THEN userKey[a] ELSE NoKey,
                   pub |-> IF d \in Receipts THEN userKey[a] ELSE NoKey,
                   seq |-> 1, prev |-> Genesis]
  <2>1. Fine(c)
    BY <1>3 DEF Begin, Fine
  <2>2. call'[w] = c
    BY <1>3 DEF Begin, TypeOK
  <2>3. \A v \in Writers : v # w => pc'[v] = pc[v] /\ call'[v] = call[v]
    BY <1>3 DEF Begin, Goto, TypeOK
  <2> QED
    BY <1>1, <1>2, <1>3, <2>1, <2>2, <2>3 DEF Begin, ReceiptInv
<1>4. ASSUME NEW w \in Writers, ReadLatest(w) PROVE ReceiptInv'
  <2>1. call[w] \in Call /\ Fine(call[w])
    BY <1>0, <1>4 DEF ReadLatest
  <2>2. \E n, p : call'[w] = Positioned(call[w], n, p)
    BY <1>4 DEF ReadLatest, TypeOK
  <2>3. Fine(call'[w])
    BY <2>1, <2>2 DEF Fine, Positioned, Call
  <2>4. \A v \in Writers : v # w => pc'[v] = pc[v] /\ call'[v] = call[v]
    BY <1>4 DEF ReadLatest, Goto, TypeOK
  <2> QED
    BY <1>1, <1>2, <1>4, <2>3, <2>4 DEF ReadLatest, ReceiptInv
<1>5. ASSUME NEW w \in Writers, ReadActor(w) PROVE ReceiptInv'
  <2>1. call[w] \in Call /\ Fine(call[w])
    BY <1>0, <1>5 DEF ReadActor
  <2>2. CASE call' = call
    <3>1. Fine(call'[w])
      BY <2>1, <2>2
    <3>2. \A v \in Writers : v # w => pc'[v] = pc[v] /\ call'[v] = call[v]
      BY <1>5, <2>2 DEF ReadActor, Goto, TypeOK
    <3> QED
      BY <1>1, <1>2, <1>5, <3>1, <3>2 DEF ReadActor, ReceiptInv
  <2>3. CASE call[w].pub = NoKey
                /\ call' = [call EXCEPT ![w].pub = userKey[call[w].actor]]
    <3>1. call[w].data \notin Receipts
      BY <2>1, <2>3 DEF Fine
    <3>2. call'[w].data = call[w].data
      BY <2>1, <2>3 DEF TypeOK, Call
    <3>3. Fine(call'[w])
      BY <3>1, <3>2 DEF Fine
    <3>4. \A v \in Writers : v # w => pc'[v] = pc[v] /\ call'[v] = call[v]
      BY <1>5, <2>3 DEF ReadActor, Goto, TypeOK
    <3> QED
      BY <1>1, <1>2, <1>5, <3>3, <3>4 DEF ReadActor, ReceiptInv
  <2> QED
    BY <1>5, <2>2, <2>3 DEF ReadActor
<1>6. ASSUME NEW w \in Writers, Return(w) PROVE ReceiptsSigned'
  <2>1. pc'[w] = "idle"
    BY <1>6 DEF Return, TypeOK
  <2>2. \A v \in Writers : v # w => pc'[v] = pc[v] /\ call'[v] = call[v]
    BY <1>6 DEF Return, TypeOK
  <2> QED
    BY <1>1, <2>1, <2>2
<1>7. ASSUME NEW w \in Writers, InsertEvent(w) PROVE ReceiptInv'
  <2>1. Fine(call[w])
    BY <1>0, <1>7 DEF InsertEvent
  <2>2. Fine(NewRow(call[w]))
    BY <2>1 DEF Fine, NewRow
  <2>3. ReceiptVerifies'
    BY <1>7, <2>2 DEF InsertEvent, ReceiptVerifies, ReceiptInv, Fine
  <2> QED
    BY <1>6, <1>7, <2>3 DEF InsertEvent, ReceiptInv
<1>8. ASSUME NEW w \in Writers, InsertConflict(w) \/ Abort(w) PROVE ReceiptInv'
  BY <1>2, <1>6, <1>8 DEF InsertConflict, Abort, ReceiptInv
<1>9. ASSUME UNCHANGED <<rows, pc, call>> PROVE ReceiptInv'
  BY <1>9 DEF ReceiptInv, ReceiptsSigned, ReceiptVerifies
<1> QED
  BY <1>3, <1>4, <1>5, <1>7, <1>8, <1>9
  DEF Next, Undisturbed, LogEvent, RegisterPublicKey, RevokePublicKey, vars

(* The signature of every proof of receipt verifies with the key recorded   *)
(* beside it, whatever happens to the operator's key meanwhile.            *)
THEOREM ReceiptVerifiesAlways == Spec => []ReceiptVerifies
<1>1. Init => ReceiptInv
  BY DEF Init, ReceiptInv, ReceiptsSigned, ReceiptVerifies
<1>2. ReceiptInv => ReceiptVerifies
  BY DEF ReceiptInv
<1> QED
  BY <1>1, <1>2, TypeCorrect, ReceiptStep, PTL DEF Spec

-----------------------------------------------------------------------------
(* The abstract log has at each position the data of the only row that has *)
(* that number.                                                            *)
TheLog == [i \in 1 .. Cardinality(rows) |-> DataAt(i)]

LEMMA DataOfRow == ChainInv => \A r \in rows : DataAt(r.seq) = r.data
<1> SUFFICES ASSUME ChainInv, NEW r \in rows PROVE DataAt(r.seq) = r.data
  OBVIOUS
<1>1. r.data \in EventData
  BY DEF ChainInv, TypeOK, Row
<1>2. \A d \in EventData : (\E q \in rows : q.seq = r.seq /\ q.data = d) <=> d = r.data
  BY <1>1 DEF ChainInv, Unique
<1> QED
  BY <1>1, <1>2 DEF DataAt

(* Inserting a row records its data at the end of the log.                 *)
LEMMA InsertRecords ==
    ASSUME ChainInv, Dense, ChainInv', Dense', NEW w \in Writers, InsertEvent(w)
    PROVE  \E d \in EventData : TheLog' = Append(TheLog, d)
<1> DEFINE n == NewRow(call[w])
           c == Cardinality(rows)
<1>1. /\ n.seq = c + 1 /\ n.data = call[w].data
      /\ call[w].data \in EventData
  BY NextFree DEF NewRow, InsertEvent, ChainInv, TypeOK, Call
<1>2. rows' = rows \cup {n} /\ n \notin rows
  BY DEF InsertEvent, NewRow
<1>3. c \in Nat
  BY FS_CardinalityType DEF Dense
<1> HIDE DEF n
<1>4. Cardinality(rows') = c + 1
  BY <1>2, FS_AddElement DEF Dense
<1>5. \A r \in rows : DataAt(r.seq) = r.data
  BY DataOfRow
<1>6. \A r \in rows' : DataAt(r.seq)' = r.data
  <2>1. (ChainInv => \A r \in rows : DataAt(r.seq) = r.data)'
    BY DataOfRow, PTL
  <2> QED
    BY <2>1
<1>7. ASSUME NEW i \in 1 .. c PROVE DataAt(i)' = DataAt(i) /\ DataAt(i) \in EventData
  <2>1. PICK r \in rows : r.seq = i
    BY DEF Dense
  <2>2. DataAt(r.seq) = r.data /\ r.data \in EventData
    BY <1>5 DEF ChainInv, TypeOK, Row
  <2>3. DataAt(r.seq)' = r.data
    BY <1>2, <1>6
  <2> QED
    BY <2>1, <2>2, <2>3
<1>8. ASSUME NEW i \in 1 .. c + 1, i = c + 1 PROVE DataAt(i)' = n.data
  BY <1>1, <1>2, <1>6, <1>8
<1>9. TheLog \in Seq(EventData) /\ Len(TheLog) = c
  BY <1>3, <1>7 DEF TheLog
<1>10. TheLog' = [i \in 1 .. c + 1 |-> DataAt(i)']
  BY <1>4 DEF TheLog
<1>11. TheLog' = Append(TheLog, n.data)
  <2> DEFINE longer == Append(TheLog, n.data)
  <2>1. n.data \in EventData
    BY <1>1
  <2>2. /\ longer \in Seq(EventData) /\ DOMAIN longer = 1 .. c + 1
        /\ longer[c + 1] = n.data
        /\ \A i \in 1 .. c : longer[i] = TheLog[i]
    <3> HIDE DEF TheLog
    <3> QED
      BY <1>3, <1>9, <2>1
  <2>3. \A i \in 1 .. c : longer[i] = DataAt(i)'
    BY <1>7, <2>2 DEF TheLog
  <2>4. \A i \in 1 .. c + 1 : longer[i] = DataAt(i)'
    <3> SUFFICES ASSUME NEW i \in 1 .. c + 1 PROVE longer[i] = DataAt(i)'
      OBVIOUS
    <3>1. i = c + 1 \/ i \in 1 .. c
      BY <1>3
    <3> HIDE DEF longer
    <3> QED
      BY <1>8, <2>2, <2>3, <3>1
  <2> HIDE DEF longer
  <2>5. longer = [i \in 1 .. c + 1 |-> longer[i]]
    <3>1. longer \in [1 .. Len(longer) -> EventData]
      BY <2>2, LenProperties
    <3>2. longer = [i \in DOMAIN longer |-> longer[i]]
      BY <3>1
    <3> QED
      BY <2>2, <3>2
  <2>6. longer = [i \in 1 .. c + 1 |-> DataAt(i)']
    BY <2>4, <2>5
  <2> QED
    BY <1>10, <2>6 DEF longer
<1> QED
  BY <1>1, <1>11

-----------------------------------------------------------------------------
(* LogEvent is an append by compare and set.                               *)

(* The number a call takes is one more than the events there were when it  *)
(* read the latest of them.                                                *)
LEMMA ReadCounts ==
    ASSUME ChainInv, Dense, NEW w \in Writers, ReadLatest(w)
    PROVE  call'[w].seq = Cardinality(rows) + 1
<1> DEFINE c == Cardinality(rows)
<1>1. c \in Nat /\ IsFiniteSet(rows)
  BY FS_CardinalityType DEF Dense
<1>2. call[w] \in Call /\ call \in [Writers -> Call \cup {NoCall}]
  BY DEF ReadLatest, ChainInv, TypeOK
<1>3. \A n, p : Positioned(call[w], n, p).seq = n
  BY <1>2 DEF Positioned, Call
<1>4. \A r \in rows : r.seq \in Nat \ {0} /\ r.seq <= c
  BY DEF Dense, ChainInv, TypeOK, Row
<1>5. CASE Latest = {}
  <2>1. rows = {}
    <3>1. c \notin 1 .. c
      BY <1>1, <1>4, <1>5 DEF Dense, Latest
    <3>2. c = 0
      BY <1>1, <3>1
    <3> QED
      BY <1>1, <3>2, FS_EmptySet
  <2>2. call'[w].seq = 1
    BY <1>2, <1>3, <1>5 DEF ReadLatest
  <2> QED
    BY <2>1, <2>2, FS_EmptySet
<1>6. CASE Latest # {}
  <2>1. PICK r \in Latest : call' = [call EXCEPT ![w] = Positioned(@, r.seq + 1, r.hash)]
    BY <1>6 DEF ReadLatest
  <2>2. r \in rows /\ \A q \in rows : q.seq <= r.seq
    BY <2>1 DEF Latest
  <2>3. r.seq \in 1 .. c
    BY <1>1, <1>4, <2>2
  <2>4. c \in 1 .. c
    BY <1>1, <2>3
  <2>5. PICK q \in rows : q.seq = c
    BY <2>4 DEF Dense
  <2>6. r.seq = c
    BY <1>1, <1>4, <2>2, <2>5
  <2>7. call'[w].seq = r.seq + 1
    BY <1>2, <1>3, <2>1
  <2> QED
    BY <2>6, <2>7
<1> QED
  BY <1>5, <1>6

LEMMA ActorKeepsNumber ==
    ASSUME TypeOK, NEW w \in Writers, ReadActor(w)
    PROVE  call'[w].seq = call[w].seq
<1>1. call[w] \in Call /\ call \in [Writers -> Call \cup {NoCall}]
  BY DEF ReadActor, TypeOK
<1> QED
  BY <1>1 DEF ReadActor, Call

LEMMA LoserOvertaken ==
    ASSUME ChainInv, Dense, NEW w \in Writers, InsertConflict(w)
    PROVE  call[w].seq < Cardinality(rows) + 1
<1>1. Cardinality(rows) \in Nat /\ \A r \in rows : r.seq \in Nat
  BY FS_CardinalityType DEF Dense, ChainInv, TypeOK, Row
<1> QED
  BY <1>1 DEF InsertConflict, Dense

(* No call holds a number beyond the next one.                             *)
LEMMA NumberBound ==
    ASSUME ChainInv, Dense, NEW w \in Writers, pc[w] \in {"actor", "insert"}
    PROVE  call[w].seq \in Nat /\ call[w].seq <= Cardinality(rows) + 1
<1>1. Cardinality(rows) \in Nat
  BY FS_CardinalityType DEF Dense
<1>2. call[w].seq \in Nat
  BY DEF ChainInv, TypeOK, Call
<1>3. \A r \in rows : r.seq \in Nat
  BY DEF ChainInv, TypeOK, Row
<1>4. CASE call[w].seq = 1
  BY <1>1, <1>4
<1>5. CASE \E q \in rows : q.seq + 1 = call[w].seq
  BY <1>1, <1>3, <1>5 DEF Dense
<1> QED
  BY <1>2, <1>4, <1>5 DEF ChainInv, Pending

(* Whose number is the next one changes with the rows and with the call    *)
(* itself only.                                                            *)
Same(w) == /\ pc'[w] \in {"actor", "insert"} <=> pc[w] \in {"actor", "insert"}
           /\ pc[w] \in {"actor", "insert"} => call'[w].seq = call[w].seq

LEMMA OthersStayCurrent ==
    ASSUME UNCHANGED rows, NEW w \in Writers, \A v \in Writers \ {w} : Same(v)
    PROVE  Current' \ {w} = Current \ {w}
<1>1. Cardinality(rows') = Cardinality(rows)
  OBVIOUS
<1>2. ASSUME NEW v \in Writers \ {w}
      PROVE  v \in Current' <=> v \in Current
  BY <1>1, <1>2 DEF Same, Current
<1> QED
  BY <1>2 DEF Current

LEMMA OnlyCallerMoves ==
    ASSUME TypeOK, NEW w \in Writers, LogEvent(w) \/ Abort(w)
    PROVE  \A v \in Writers \ {w} : Same(v)
<1> SUFFICES ASSUME NEW v \in Writers \ {w} PROVE pc'[v] = pc[v] /\ call'[v] = call[v]
  BY DEF Same
<1>1. pc \in [Writers -> {"idle", "latest", "actor", "insert"}]
      /\ call \in [Writers -> Call \cup {NoCall}]
  BY DEF TypeOK
<1>2. CASE ReadLatest(w)
  BY <1>1, <1>2 DEF ReadLatest, Goto
<1>3. CASE ReadActor(w)
  BY <1>1, <1>3 DEF ReadActor, Goto
<1>4. CASE InsertEvent(w) \/ InsertConflict(w) \/ Abort(w)
  BY <1>1, <1>4 DEF InsertEvent, InsertConflict, Abort, Return
<1> QED
  BY <1>2, <1>3, <1>4 DEF LogEvent

LEMMA ReturnedIsOut ==
    ASSUME TypeOK, NEW w \in Writers, Return(w)
    PROVE  w \notin Current'
<1>1. pc'[w] = "idle"
  BY DEF Return, TypeOK
<1> QED
  BY <1>1 DEF Current

(* Who records overtakes all the others.                                   *)
LEMMA RecordOvertakes ==
    ASSUME ChainInv, Dense, ChainInv', Dense', NEW w \in Writers, InsertEvent(w)
    PROVE  w \in Current /\ Current' = {}
<1>1. w \in Current
  BY NextFree DEF Current, InsertEvent
<1>2. Cardinality(rows') = Cardinality(rows) + 1
  <2>1. /\ rows' = rows \cup {NewRow(call[w])}
        /\ NewRow(call[w]).seq = call[w].seq
    BY DEF InsertEvent, NewRow
  <2>2. NewRow(call[w]) \notin rows
    BY <2>1 DEF InsertEvent
  <2> QED
    BY <2>1, <2>2, FS_AddElement DEF Dense
<1>3. Cardinality(rows) \in Nat
  BY FS_CardinalityType DEF Dense
<1>4. w \notin Current'
  BY ReturnedIsOut DEF InsertEvent, ChainInv
<1>5. ASSUME NEW v \in Writers \ {w}, v \in Current'
      PROVE  FALSE
  <2>1. Same(v)
    BY OnlyCallerMoves DEF LogEvent, ChainInv
  <2>2. pc[v] \in {"actor", "insert"} /\ call[v].seq = Cardinality(rows') + 1
    BY <1>5, <2>1 DEF Same, Current
  <2>3. call[v].seq \in Nat /\ call[v].seq <= Cardinality(rows) + 1
    BY <2>2, NumberBound
  <2> QED
    BY <1>2, <1>3, <2>2, <2>3
<1> QED
  BY <1>1, <1>4, <1>5 DEF Current

LEMMA RaceStep ==
    ASSUME ChainInv, Dense, ChainInv', Dense', [Next]_vars
    PROVE  \/ \E w \in Writers :
                 \/ Current' = Current \cup {w} /\ TheLog' = TheLog
                 \/ Current' = Current \ {w} /\ TheLog' = TheLog
                 \/ /\ w \in Current /\ Current' = {}
                    /\ \E d \in EventData : TheLog' = Append(TheLog, d)
           \/ Current' = Current /\ TheLog' = TheLog
<1>t. TypeOK /\ TypeOK'
  BY DEF ChainInv
<1>l. ASSUME UNCHANGED rows PROVE TheLog' = TheLog
  BY <1>l DEF TheLog, DataAt
<1>1. ASSUME NEW w \in Writers, ReadLatest(w)
      PROVE  Current' = Current \cup {w}
  <2>1. UNCHANGED rows /\ Current' \ {w} = Current \ {w}
    BY <1>1, <1>t, OnlyCallerMoves, OthersStayCurrent DEF LogEvent, ReadLatest
  <2>2. pc'[w] = "actor"
    BY <1>1, <1>t DEF ReadLatest, Goto, TypeOK
  <2>3. call'[w].seq = Cardinality(rows') + 1
    BY <1>1, <2>1, ReadCounts
  <2>4. w \in Current'
    BY <2>2, <2>3 DEF Current
  <2> QED
    BY <2>1, <2>4
<1>2. ASSUME NEW w \in Writers, ReadActor(w)
      PROVE  Current' = Current
  <2>1. UNCHANGED rows /\ Current' \ {w} = Current \ {w}
    BY <1>2, <1>t, OnlyCallerMoves, OthersStayCurrent DEF LogEvent, ReadActor
  <2>2. pc[w] = "actor" /\ pc'[w] = "insert"
    BY <1>2, <1>t DEF ReadActor, Goto, TypeOK
  <2>3. call'[w].seq = call[w].seq /\ Cardinality(rows') = Cardinality(rows)
    BY <1>2, <1>t, <2>1, ActorKeepsNumber
  <2>4. w \in Current' <=> w \in Current
    BY <2>2, <2>3 DEF Current
  <2> QED
    BY <2>1, <2>4
<1>3. ASSUME NEW w \in Writers, InsertConflict(w) \/ Abort(w)
      PROVE  Current' = Current \ {w}
  <2>1. UNCHANGED rows /\ Return(w)
    BY <1>3 DEF InsertConflict, Abort
  <2>2. Current' \ {w} = Current \ {w}
    BY <1>3, <1>t, <2>1, OnlyCallerMoves, OthersStayCurrent DEF LogEvent
  <2>3. w \notin Current'
    BY <1>t, <2>1, ReturnedIsOut
  <2> QED
    BY <2>2, <2>3
<1>4. ASSUME NEW w \in Writers, NEW a \in Actors, NEW d \in EventData,
             NEW signed \in BOOLEAN, Begin(w, a, d, signed)
      PROVE  Current' = Current
  <2>1. UNCHANGED rows /\ pc[w] = "idle" /\ pc'[w] = "latest"
    BY <1>4, <1>t DEF Begin, Goto, TypeOK
  <2>2. \A v \in Writers \ {w} : pc'[v] = pc[v] /\ call'[v] = call[v]
    BY <1>4, <1>t DEF Begin, Goto, TypeOK
  <2>3. \A v \in Writers \ {w} : Same(v)
    BY <2>2 DEF Same
  <2>4. Current' \ {w} = Current \ {w}
    BY <2>1, <2>3, OthersStayCurrent
  <2>5. w \notin Current /\ w \notin Current'
    BY <2>1 DEF Current
  <2> QED
    BY <2>4, <2>5
<1>5. ASSUME UNCHANGED <<rows, pc, call>>
      PROVE  Current' = Current
  BY <1>5 DEF Current
<1>6. ASSUME NEW w \in Writers, InsertEvent(w)
      PROVE  /\ w \in Current /\ Current' = {}
             /\ \E d \in EventData : TheLog' = Append(TheLog, d)
  BY <1>6, RecordOvertakes, InsertRecords
<1>7. ASSUME NEW w \in Writers, LogEvent(w) \/ Abort(w), ~InsertEvent(w)
      PROVE  \/ Current' = Current /\ TheLog' = TheLog
             \/ Current' = Current \cup {w} /\ TheLog' = TheLog
             \/ Current' = Current \ {w} /\ TheLog' = TheLog
  <2>1. UNCHANGED rows
    BY <1>7 DEF LogEvent, ReadLatest, ReadActor, InsertConflict, Abort
  <2>2. TheLog' = TheLog
    BY <2>1, <1>l
  <2> QED
    BY <1>1, <1>2, <1>3, <1>7, <2>2 DEF LogEvent
<1>8. CASE \E w \in Writers : LogEvent(w) \/ Abort(w)
  BY <1>6, <1>7, <1>8
<1>9. CASE \E w \in Writers, a \in Actors, d \in EventData, signed \in BOOLEAN :
              Begin(w, a, d, signed)
  <2>1. UNCHANGED rows
    BY <1>9 DEF Begin
  <2> QED
    BY <1>4, <1>9, <1>l, <2>1
<1>10. CASE \/ UNCHANGED vars
            \/ \E a \in Actors : \/ \E k \in Keys : RegisterPublicKey(a, k)
                                \/ RevokePublicKey(a)
  <2>1. UNCHANGED <<rows, pc, call>>
    BY <1>10 DEF vars, RegisterPublicKey, RevokePublicKey
  <2> QED
    BY <1>5, <1>l, <2>1
<1> QED
  BY <1>8, <1>9, <1>10 DEF Next, Undisturbed

(* To its callers LogEvent, three queries that others interrupt, is one    *)
(* append by compare and set, for any number of calls that overlap or die. *)
THEOREM ImplementsRaceAlways == Spec => ImplementsRace
<1>1. Init => Race!Init
  <2> SUFFICES ASSUME Init PROVE TheLog = <<>> /\ Current = {}
    BY DEF Race!Init, TheLog
  <2>1. Cardinality(rows) = 0
    BY FS_EmptySet DEF Init
  <2> QED
    BY <2>1 DEF Init, TheLog, Current
<1>2. /\ ChainInv /\ Dense /\ (ChainInv /\ Dense)' /\ [Next]_vars
      => [Race!Next]_<<[i \in 1 .. Cardinality(rows) |-> DataAt(i)], Current>>
  <2> SUFFICES ASSUME ChainInv, Dense, ChainInv', Dense', [Next]_vars
               PROVE  [Race!Next]_<<TheLog, Current>>
    BY DEF TheLog
  <2> QED
    BY RaceStep DEF Race!Next, Race!Read, Race!Record, Race!GiveUp, TheLog
<1> QED
  BY <1>1, <1>2, CommittedInvariant, PTL DEF Spec, ImplementsRace, Race!Spec

(* So, to its readers, LogEvent is the append-only log: every step of any  *)
(* call appends one whole event or leaves the trail alone.                 *)
THEOREM ImplementsLogAlways == Spec => ImplementsLog
<1>1. Race!Init => Log!Init
  BY DEF Race!Init, Log!Init
<1>2. [Race!Next]_<<[i \in 1 .. Cardinality(rows) |-> DataAt(i)], Current>>
        => [Log!Next]_[i \in 1 .. Cardinality(rows) |-> DataAt(i)]
  BY DEF Race!Next, Race!Read, Race!Record, Race!GiveUp, Log!Next, Log!Record
<1> QED
  BY <1>1, <1>2, ImplementsRaceAlways, PTL
     DEF ImplementsRace, Race!Spec, ImplementsLog, Log!Spec

(* A call is refused only if the trail has grown since it read the latest  *)
(* event, and recorded only if it has not: of any calls that race somebody *)
(* gets in.  SomeoneGetsIn needs fairness besides.                         *)
Raced ==
    \A w \in Writers :
        /\ ReadLatest(w) => call'[w].seq = Cardinality(rows) + 1
        /\ ReadActor(w) => call'[w].seq = call[w].seq
        /\ InsertEvent(w) => call[w].seq = Cardinality(rows) + 1
        /\ InsertConflict(w) => call[w].seq < Cardinality(rows) + 1

(* However many calls of LogEvent race, each that loses lost to another    *)
(* that recorded its event after the loser had read the latest one.        *)
THEOREM LosersWereOvertaken == Spec => [][Raced]_vars
<1>1. ChainInv /\ Dense => Raced
  <2> SUFFICES ASSUME ChainInv, Dense, NEW w \in Writers
      PROVE  /\ ReadLatest(w) => call'[w].seq = Cardinality(rows) + 1
             /\ ReadActor(w) => call'[w].seq = call[w].seq
             /\ InsertEvent(w) => call[w].seq = Cardinality(rows) + 1
             /\ InsertConflict(w) => call[w].seq < Cardinality(rows) + 1
    BY DEF Raced
  <2> QED
    BY LoserOvertaken, ReadCounts, ActorKeepsNumber, NextFree DEF ChainInv
<1> QED
  BY <1>1, CommittedInvariant, PTL
=============================================================================
