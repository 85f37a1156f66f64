------------------------ MODULE BuildSerial_proofs ------------------------
(***************************************************************************)
(* What a build promises when its requests do not overlap: its life is     *)
(* that of BuildLifecycle, and its one receipt is for the contract it      *)
(* stores.  Requests may still die after any query.                        *)
(***************************************************************************)
EXTENDS BuildRecords_proofs

OneAtATime == \A s, t \in Slots : s = t

(* With nobody else at work, what a request has read is still so.          *)
Steady(r) ==
    r # None =>
        /\ r.at \in {"status.assigned", "status.write"} =>
              CanTransitionTo(status, r.target)
        /\ r.at \in {"finalize.assigned", "finalize.write"} =>
              status = "ATTESTATION_KEY_REGISTERED"
        /\ (r.at \in {"receipt.events", "receipt.assigned", "receipt.write"}
              \/ Receipting(r)) => /\ status = "FINALIZED"
                                   /\ contract # None
                                   /\ r.draft = contract
        /\ (r.at = "receipt.assigned" \/ Receipting(r)) => Receipts = {}

SerialInv ==
    /\ Receipts # {} => status \in {"FINALIZED", "CONTRACT_DOWNLOADED"}
    /\ ReceiptForStoredContract
    /\ \A s \in Slots : Steady(req[s])

LEMMA ReadSteady ==
    ASSUME StageInv, RecordInv, SerialInv, NEW s \in Slots, Read(s)
    PROVE  Steady(req[s])'
<1>t. TypeOK
  BY DEF StageInv
<1>u. UNCHANGED <<status, contract, Receipts>>
  BY ReadKeeps DEF store, Receipts
<1> SUFFICES ASSUME req'[s] # None
             PROVE  Steady(req'[s])
  BY <1>u DEF Steady, Receipting, CanTransitionTo, ValidTransitions, Terminal
<1>r. /\ req[s] # None /\ Knows(req[s]) /\ Steady(req[s])
      /\ req'[s].target = req[s].target
  BY <1>t, ReadMoves DEF SerialInv, StageInv
<1>c. (req'[s].at \in {"receipt.events", "receipt.assigned"} \/ Receipting(req'[s]))
         => contract # None
  BY <1>t, <1>u, ReadHas DEF Has, Happened, Receipting
<1>1. req'[s].at \in {"status.assigned", "status.write"} =>
         CanTransitionTo(status, req'[s].target)
  BY <1>r, <1>t, ReadMoves DEF Steady
<1>2. req'[s].at \in {"finalize.assigned", "finalize.write"} =>
         status = "ATTESTATION_KEY_REGISTERED"
  BY <1>r, <1>t, ReadMoves DEF Steady, CanTransitionTo, ValidTransitions
<1>3. (req'[s].at \in {"receipt.events", "receipt.assigned", "receipt.write"}
         \/ Receipting(req'[s])) => /\ status = "FINALIZED"
                                    /\ contract # None
                                    /\ req'[s].draft = contract
  BY <1>r, <1>c, <1>t, ReadMoves, ReceiptMoves DEF Steady, Receipting
<1>4. (req'[s].at = "receipt.assigned" \/ Receipting(req'[s])) => Receipts = {}
  BY <1>r, <1>t, ReadMoves, ReceiptMoves DEF Steady, Receipting
<1> QED
  BY <1>1, <1>2, <1>3, <1>4 DEF Steady

-----------------------------------------------------------------------------
(* The writes.  Only one of them adds a receipt, and then there was none.  *)

LEMMA ReceiptsKept ==
    ASSUME UNCHANGED events
    PROVE  UNCHANGED Receipts
BY DEF Receipts

LEMMA WriteSerial ==
    ASSUME StageInv, RecordInv, SerialInv, OneAtATime, NEW s \in Slots, Write(s)
    PROVE  SerialInv'
<1>t. TypeOK
  BY DEF StageInv
<1>w. /\ req[s] # None /\ req[s] \in Request /\ Knows(req[s]) /\ Aimed(req[s])
      /\ Steady(req[s])
  BY Writer DEF SerialInv
<1>o. (Steady(req[s])') => \A t \in Slots : Steady(req[t])'
  BY DEF OneAtATime
<1>i. /\ Receipts # {} => status \in {"FINALIZED", "CONTRACT_DOWNLOADED"}
      /\ \A i \in Receipts : events[i].contract = contract /\ Receipts = {i}
  BY DEF SerialInv, ReceiptForStoredContract
<1>m. ASSUME req'[s] # None,
             req'[s].at \in {"trail.read", "status.read", "key.status"},
             req'[s].target # "CONTRACT_DOWNLOADED"
      PROVE  Steady(req[s])'
  BY <1>m DEF Steady, Receipting
<1>d. ASSUME req'[s] = None
      PROVE  Steady(req[s])'
  BY <1>d DEF Steady
<1>1. CASE WriteStatus(s)
  <2>1. /\ req[s].at = "status.write" /\ status' = req[s].target
        /\ Goto(s, "trail.read") /\ UNCHANGED <<events, contract>>
    BY <1>1 DEF WriteStatus, At
  <2>2. CanTransitionTo(status, req[s].target) /\ req[s].target # "CONTRACT_DOWNLOADED"
    BY <2>1, <1>w DEF Steady, Knows, Receiving
  <2>3. Receipts = {}
    BY <2>2, <1>i DEF CanTransitionTo, ValidTransitions, Terminal
  <2>4. req'[s].at = "trail.read" /\ req'[s].target # "CONTRACT_DOWNLOADED"
    BY <2>1, <2>2, <1>t, <1>w, GotoKeeps
  <2>5. Steady(req[s])'
    BY <2>4, <1>m, <1>d
  <2> QED
    BY <2>1, <2>3, <2>5, <1>o, ReceiptsKept DEF SerialInv, ReceiptForStoredContract
<1>2. CASE WriteFinalized(s)
  <2>1. /\ req[s].at = "finalize.write" /\ Goto(s, "trail.read") /\ UNCHANGED events
    BY <1>2 DEF WriteFinalized, At
  <2>2. status = "ATTESTATION_KEY_REGISTERED" /\ req[s].target = "FINALIZED"
    BY <2>1, <1>w DEF Steady, Aimed, Here
  <2>3. Receipts = {}
    BY <2>2, <1>i
  <2>4. req'[s].at = "trail.read" /\ req'[s].target # "CONTRACT_DOWNLOADED"
    BY <2>1, <2>2, <1>t, <1>w, GotoKeeps
  <2>5. Steady(req[s])'
    BY <2>4, <1>m, <1>d
  <2> QED
    BY <2>1, <2>3, <2>5, <1>o, ReceiptsKept DEF SerialInv, ReceiptForStoredContract
<1>3. CASE WriteDownloaded(s)
  <2>1. /\ status' = "CONTRACT_DOWNLOADED" /\ UNCHANGED <<events, contract>>
        /\ Done(s)
    BY <1>3 DEF WriteDownloaded
  <2>2. Steady(req[s])'
    BY <2>1, <1>d, <1>t, DoneMoves
  <2> QED
    BY <2>1, <2>2, <1>i, <1>o, ReceiptsKept DEF SerialInv, ReceiptForStoredContract
<1>4. CASE AppendTrail(s)
  <2> DEFINE e == Event(req[s].target, req[s].user, req[s].draft)
             n == Len(events) + 1
  <2>1. /\ req[s].at = "trail.append" /\ events' = Append(events, e)
        /\ UNCHANGED <<status, contract>>
    BY <1>4 DEF AppendTrail, At
  <2>2. e.type = req[s].target /\ e.contract = req[s].draft
    BY DEF Event
  <2> HIDE DEF e
  <2>3. events \in Seq([type : EventTypes, by : Users, contract : Contracts])
    BY <1>t DEF TypeOK
  <2>4. /\ DOMAIN events' = DOMAIN events \cup {n} /\ n \notin DOMAIN events
        /\ events'[n] = e
        /\ \A i \in DOMAIN events : events'[i] = events[i]
    BY <2>1, <2>3
  <2> HIDE DEF n
  <2>5. CASE req[s].target = "CONTRACT_DOWNLOADED"
    <3>1. /\ Receipts = {} /\ status = "FINALIZED" /\ req[s].draft = contract
          /\ contract # None
      BY <2>1, <2>5, <1>w DEF Steady, Receipting
    <3>2. Receipts' = {n}
      BY <2>2, <2>4, <2>5, <3>1 DEF Receipts
    <3>3. Goto(s, "receipt.write")
      BY <1>4, <2>5 DEF AppendTrail
    <3>4. req'[s].at = "receipt.write" /\ req'[s].draft = req[s].draft
      BY <3>3, <1>t, <1>w, GotoKeeps
    <3>5. Steady(req[s])'
      BY <2>1, <3>1, <3>4 DEF Steady, Receipting
    <3> QED
      BY <2>1, <2>2, <2>4, <3>1, <3>2, <3>5, <1>o DEF SerialInv, ReceiptForStoredContract
  <2>6. CASE req[s].target # "CONTRACT_DOWNLOADED"
    <3>1. Receipts' = Receipts
      BY <2>2, <2>4, <2>6 DEF Receipts
    <3>2. req'[s] = None
      BY <1>4, <2>6, <1>t, DoneMoves DEF AppendTrail
    <3>3. \A i \in Receipts : i \in DOMAIN events
      BY DEF Receipts
    <3> QED
      BY <2>1, <2>4, <3>1, <3>2, <3>3, <1>d, <1>i, <1>o
         DEF SerialInv, ReceiptForStoredContract
  <2> QED
    BY <2>5, <2>6
<1>5. ASSUME UNCHANGED <<status, contract, events>>, Steady(req[s])'
      PROVE  SerialInv'
  BY <1>5, <1>i, <1>o, ReceiptsKept DEF SerialInv, ReceiptForStoredContract
<1>6. ASSUME req[s].at \in {"attestation.read", "section.insert", "key.insert",
                            "assign.insert", "unassign.delete"}
      PROVE  Steady(req[s])'
  <2>1. req[s].target # "CONTRACT_DOWNLOADED"
    BY <1>6, <1>w DEF Knows, Receiving
  <2> QED
    BY <2>1, <1>6, <1>t, <1>m, <1>d, WriteMoves
<1>7. CASE \/ ReadAttestation(s) \/ InsertSection(s) \/ InsertKey(s)
           \/ InsertAssignment(s) \/ DeleteAssignments(s)
  <2>1. /\ UNCHANGED <<status, contract, events>>
        /\ req[s].at \in {"attestation.read", "section.insert", "key.insert",
                          "assign.insert", "unassign.delete"}
    BY <1>7 DEF ReadAttestation, InsertSection, InsertKey, InsertAssignment,
       DeleteAssignments, At
  <2> QED
    BY <2>1, <1>5, <1>6
<1> QED
  BY <1>1, <1>2, <1>3, <1>4, <1>7 DEF Write

LEMMA SerialStep ==
    ASSUME StageInv, RecordInv, SerialInv, OneAtATime, [Next]_vars
    PROVE  SerialInv'
<1>t. TypeOK
  BY DEF StageInv
<1>1. ASSUME UNCHANGED <<status, contract, events>>, \A s \in Slots : Steady(req[s])'
      PROVE  SerialInv'
  BY <1>1, ReceiptsKept DEF SerialInv, ReceiptForStoredContract
<1>2. ASSUME UNCHANGED <<status, contract, events, req>>
      PROVE  SerialInv'
  <2>1. \A s \in Slots : Steady(req[s])'
    BY <1>2, ReceiptsKept DEF SerialInv, Steady, Receipting
  <2> QED
    BY <1>1, <1>2, <2>1
<1>3. ASSUME NEW s \in Slots, Steady(req[s])'
      PROVE  \A t \in Slots : Steady(req[t])'
  BY <1>3 DEF OneAtATime
<1>4. ASSUME NEW s \in Slots, NEW u \in Users, Begin(s, u)
      PROVE  SerialInv'
  <2>1. PICK r \in Request : Accept(s, r) /\ r.at = "access"
    BY <1>4, <1>t, BeginAccepts
  <2>2. req'[s] = r
    BY <2>1, <1>t DEF Accept, TypeOK
  <2>3. Steady(req[s])'
    BY <2>1, <2>2 DEF Steady, Receipting
  <2> QED
    BY <2>1, <2>3, <1>1, <1>3 DEF Accept, store
<1>5. ASSUME NEW s \in Slots, Read(s)
      PROVE  SerialInv'
  BY <1>5, <1>1, <1>3, ReadSteady, ReadKeeps DEF store
<1>6. ASSUME NEW s \in Slots, Stop(s)
      PROVE  SerialInv'
  <2>1. Steady(req[s])'
    BY <1>6, <1>t, DoneMoves DEF Stop, Steady
  <2> QED
    BY <2>1, <1>6, <1>1, <1>3 DEF Stop, store
<1> QED
  BY <1>2, <1>4, <1>5, <1>6, WriteSerial
     DEF Next, RemoveRoles, AssignRole, vars, store

LEMMA SerialInit ==
    ASSUME Init
    PROVE  SerialInv
<1>1. Receipts = {}
  <2>1. TrailTellsTheTruth /\ contract = None
    BY RecordInit DEF RecordInv, Init
  <2> QED
    BY <2>1 DEF Receipts, TrailTellsTheTruth
<1>2. ASSUME NEW s \in Slots
      PROVE  Steady(req[s])
  <2>1. Steady(None)
    BY DEF Steady
  <2>2. ASSUME NEW u
        PROVE  Steady(Creation(u))
    <3>1. Creation(u).at = "trail.read" /\ Creation(u).target = "CREATED"
      BY DEF Creation, New
    <3> HIDE DEF Creation
    <3> QED
      BY <3>1 DEF Steady, Receipting
  <2>3. req[s] = None \/ \E u \in Users : req[s] = Creation(u)
    BY DEF Init
  <2> QED
    BY <2>1, <2>2, <2>3
<1> QED
  BY <1>1, <1>2 DEF SerialInv, ReceiptForStoredContract

-----------------------------------------------------------------------------
THEOREM SerialInvariant ==
    ASSUME OneAtATime
    PROVE  Spec => []SerialInv
<1>1. Init => SerialInv
  BY SerialInit
<1>2. StageInv /\ RecordInv /\ SerialInv /\ [Next]_vars => SerialInv'
  BY SerialStep
<1> QED
  BY <1>1, <1>2, StageInvariant, RecordInvariant, PTL DEF Spec

(* When requests do not overlap a build has at most one receipt, and it is *)
(* for the contract that is stored: hasDownloadAcknowledgment suffices.    *)
THEOREM ReceiptForStoredContractAlways ==
    ASSUME OneAtATime
    PROVE  Spec => []ReceiptForStoredContract
<1>1. SerialInv => ReceiptForStoredContract
  BY DEF SerialInv
<1> QED
  BY <1>1, SerialInvariant, PTL

-----------------------------------------------------------------------------
(* The refinement.                                                         *)

LEMMA LifecycleStep ==
    ASSUME StageInv, SerialInv, [Next]_vars
    PROVE  [Lifecycle!Next]_<<status, contract>>
<1>t. TypeOK
  BY DEF StageInv
<1>k. \A s \in Slots : Knows(req[s]) /\ Steady(req[s])
  BY DEF StageInv, SerialInv
<1>1. ASSUME NEW s \in Slots, WriteStatus(s)
      PROVE  Lifecycle!Next
  <2>1. /\ req[s] # None /\ req[s].at = "status.write"
        /\ status' = req[s].target /\ UNCHANGED contract
    BY <1>1 DEF WriteStatus, At
  <2>2. CanTransitionTo(status, status') /\ status' # "CONTRACT_DOWNLOADED"
    BY <2>1, <1>k DEF Steady, Knows, Receiving
  <2>3. CASE status' = "CANCELLED"
    <3>1. status \in Stages \cup {"CREATED"} /\ status \notin Terminal
      BY <2>2, <2>3, <1>t DEF CanTransitionTo, TypeOK, Terminal, ValidTransitions
    <3>2. \E p \in Lifecycle!Progress : status = p[1]
      BY <3>1 DEF Stages, ValidTransitions, Terminal, Lifecycle!Progress
    <3> QED
      BY <2>1, <2>3, <3>2 DEF Lifecycle!Next, Lifecycle!Cancel
  <2>4. CASE status' # "CANCELLED"
    <3>1. <<status, status'>> \in Lifecycle!Progress
      BY <2>2, <2>4 DEF CanTransitionTo, ValidTransitions, Lifecycle!Progress
    <3> QED
      BY <2>1, <3>1 DEF Lifecycle!Next, Lifecycle!Advance
  <2> QED
    BY <2>3, <2>4
<1>2. ASSUME NEW s \in Slots, WriteFinalized(s)
      PROVE  Lifecycle!Next
  <2>1. /\ req[s] # None /\ req[s].at = "finalize.write"
        /\ status' = "FINALIZED" /\ contract' = req[s].draft
    BY <1>2 DEF WriteFinalized, At
  <2>2. status = "ATTESTATION_KEY_REGISTERED" /\ req[s].draft \in Contracts
    BY <2>1, <1>k, <1>t, DraftType DEF Steady
  <2> QED
    BY <2>1, <2>2 DEF Lifecycle!Next, Lifecycle!Finalize
<1>3. ASSUME NEW s \in Slots, WriteDownloaded(s)
      PROVE  Lifecycle!Next
  <2>1. /\ req[s] # None /\ req[s].at = "receipt.write"
        /\ status' = "CONTRACT_DOWNLOADED" /\ UNCHANGED contract
    BY <1>3 DEF WriteDownloaded, At
  <2>2. status = "FINALIZED" /\ contract # None
    BY <2>1, <1>k DEF Steady
  <2> QED
    BY <2>1, <2>2 DEF Lifecycle!Next, Lifecycle!Acknowledge
<1>4. ASSUME NEW s \in Slots,
             \/ AppendTrail(s) \/ ReadAttestation(s) \/ InsertSection(s)
             \/ InsertKey(s) \/ InsertAssignment(s) \/ DeleteAssignments(s)
      PROVE  UNCHANGED <<status, contract>>
  BY <1>4 DEF AppendTrail, ReadAttestation, InsertSection, InsertKey,
     InsertAssignment, DeleteAssignments
<1>5. ASSUME NEW s \in Slots, Read(s) \/ Stop(s)
      PROVE  UNCHANGED <<status, contract>>
  BY <1>5, ReadKeeps DEF Stop, store
<1>6. ASSUME NEW s \in Slots, NEW u \in Users, Begin(s, u)
      PROVE  UNCHANGED <<status, contract>>
  BY <1>6, <1>t, BeginAccepts DEF Accept, store
<1>7. ASSUME NEW u \in Users, RemoveRoles(u) \/ AssignRole(u)
      PROVE  UNCHANGED <<status, contract>>
  BY <1>7 DEF RemoveRoles, AssignRole
<1>8. CASE UNCHANGED vars
  BY <1>8 DEF vars, store
<1> QED
  BY <1>1, <1>2, <1>3, <1>4, <1>5, <1>6, <1>7, <1>8 DEF Next, Write

(* The life of a new build whose requests come one after the other is the  *)
(* one the state diagram promises, though each request is a series of      *)
(* queries that may end after any of them.                                 *)
THEOREM ImplementsLifecycleAlways ==
    ASSUME OneAtATime, InitialStage = 0
    PROVE  Spec => ImplementsLifecycle
<1>1. Init => Lifecycle!Init
  BY DEF Init, Lifecycle!Init
<1>2. StageInv /\ SerialInv /\ [Next]_vars => [Lifecycle!Next]_<<status, contract>>
  BY LifecycleStep
<1> QED
  BY <1>1, <1>2, StageInvariant, SerialInvariant, PTL
     DEF Spec, ImplementsLifecycle, Lifecycle!Spec

(* FINALIZED, CONTRACT_DOWNLOADED and CANCELLED are immutable but for the  *)
(* acknowledgment of a download: what the documents say, and two requests  *)
(* at a time break, holds as long as requests do not overlap, whatever the *)
(* stage the build starts from.                                            *)
THEOREM TerminalIsFinalAlone ==
    ASSUME OneAtATime
    PROVE  Spec => TerminalIsFinal
<1>1. ASSUME StageInv, SerialInv, [Next]_vars
      PROVE  [MoveAllowed(status, status')]_vars
  <2>1. CASE UNCHANGED <<status, contract>>
    BY <2>1 DEF MoveAllowed
  <2>2. CASE Lifecycle!Advance \/ Lifecycle!Finalize \/ Lifecycle!Cancel
    BY <2>2 DEF Lifecycle!Advance, Lifecycle!Finalize, Lifecycle!Cancel,
       Lifecycle!Progress, MoveAllowed, Terminal
  <2>3. CASE Lifecycle!Acknowledge
    BY <2>3 DEF Lifecycle!Acknowledge, MoveAllowed, ValidTransitions
  <2> QED
    BY <1>1, <2>1, <2>2, <2>3, LifecycleStep DEF Lifecycle!Next
<1> QED
  BY <1>1, StageInvariant, SerialInvariant, PTL DEF Spec, TerminalIsFinal
=============================================================================
