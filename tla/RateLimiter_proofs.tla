------------------------- MODULE RateLimiter_proofs -------------------------
(***************************************************************************)
(* Proofs about RateLimiter: for any number of clients, of requests and of *)
(* tokens the table with its evictions is one bucket per client for ever.  *)
(* The inductive invariant says when a bucket may be forgotten: it has     *)
(* been filling for almost as long as its client was not seen, so that     *)
(* what is evicted is full; and no request holds it, since a request that  *)
(* is under way has touched its visitor recently.  From this follows what  *)
(* the limit is in numbers: how often a client is let through in a time.   *)
(***************************************************************************)
EXTENDS RateLimiter, TLAPS

LEMMA CapacityFacts == /\ Capacity \in Nat /\ Cost \in Nat /\ Cleanup \in Nat
                       /\ MaxPause \in Nat /\ Capacity + MaxPause <= Cleanup
                       /\ Cost > 0
  BY RateAssumption, TimesAssumption, CleanupAssumption DEF Capacity

(* No limiter serves two addresses.                                        *)
OwnLimiter ==
    \A a, b \in Addresses : visitors[a] # None /\ visitors[a] = visitors[b] => a = b

(* A request under way has touched its visitor when it began, or later.    *)
SeenLately == \A s \in Slots : req[s] # None => seen[req[s].from] <= req[s].age

(* A limiter was last asked by a request that had touched the visitor not  *)
(* long before, or it is full again.                                       *)
FillsWhileAway ==
    \A a \in Addresses : visitors[a] # None =>
        \/ seen[a] <= limiter[visitors[a]].age + MaxPause
        \/ Held(visitors[a]) = Capacity

IInv == TypeOK /\ HeldIsCurrent /\ OwnLimiter /\ SeenLately /\ FillsWhileAway

InFlight == [from : Addresses, limiter : Limiters, age : 0 .. MaxPause]
Store == [held : 0 .. Capacity, age : 0 .. Capacity]

LEMMA HeldType ==
    ASSUME TypeOK, NEW l \in Limiters
    PROVE  Held(l) \in 0 .. Capacity
  <1> HIDE DEF Capacity
  <1>1. limiter[l] \in [held : 0 .. Capacity, age : 0 .. Capacity]
    BY DEF TypeOK
  <1> QED BY <1>1, CapacityFacts DEF Held, AtMost

LEMMA InitHolds == Init => IInv
  <1> HIDE DEF Capacity
  <1> SUFFICES ASSUME Init PROVE IInv OBVIOUS
  <1>0. Full \in Store BY CapacityFacts DEF Full, Store
  <1>1. TypeOK
    <2>1. visitors \in [Addresses -> Limiters \cup {None}] BY DEF Init
    <2>2. seen \in [Addresses -> 0 .. Cleanup + 1] BY CapacityFacts DEF Init
    <2>3. limiter \in [Limiters -> Store] BY <1>0 DEF Init
    <2>4. req \in [Slots -> InFlight \cup {None}] BY DEF Init
    <2>5. ticker \in 0 .. Cleanup BY CapacityFacts DEF Init
    <2>6. answer \in [to : Addresses, ok : BOOLEAN] \cup {None} BY DEF Init
    <2>7. due \in BOOLEAN BY DEF Init
    <2> QED BY <2>1, <2>2, <2>3, <2>4, <2>5, <2>6, <2>7 DEF TypeOK, InFlight, Store
  <1> QED BY <1>1 DEF Init, IInv, HeldIsCurrent, OwnLimiter, SeenLately, FillsWhileAway

(* What each step does to the state, one lemma per action.                 *)

LEMMA FindStep ==
    ASSUME IInv, NEW s \in Slots, NEW a \in Addresses, Find(s, a)
    PROVE  IInv'
  <1> HIDE DEF Capacity
  <1> DEFINE l == visitors[a]
  <1>1. l \in Limiters /\ req[s] = None /\ visitors' = visitors /\ limiter' = limiter
    BY DEF IInv, TypeOK, Find, Take
  <1>2. req' = [req EXCEPT ![s] = [from |-> a, limiter |-> l, age |-> 0]]
    BY DEF Find, Take
  <1>3. [from |-> a, limiter |-> l, age |-> 0] \in InFlight
    BY <1>1, CapacityFacts DEF InFlight
  <1>4. seen' = [seen EXCEPT ![a] = 0] /\ ticker' = ticker /\ due' = due /\ answer' = answer
    BY DEF Find, Take
  <1>5. TypeOK'
    BY <1>1, <1>2, <1>3, <1>4, CapacityFacts DEF IInv, TypeOK, InFlight
  <1>6. HeldIsCurrent' BY <1>1, <1>2 DEF IInv, TypeOK, HeldIsCurrent
  <1>7. OwnLimiter' BY <1>1 DEF IInv, OwnLimiter
  <1>8. SeenLately'
    <2> SUFFICES ASSUME NEW t \in Slots, req'[t] # None
                 PROVE  seen'[req'[t].from] <= req'[t].age
      BY DEF SeenLately
    <2>1. CASE t = s BY <2>1, <1>2, <1>4 DEF IInv, TypeOK
    <2>2. CASE t # s
      <3>1. req'[t] = req[t] BY <2>2, <1>2 DEF IInv, TypeOK
      <3>2. req[t] \in InFlight BY <3>1 DEF IInv, TypeOK, InFlight
      <3>3. seen[req[t].from] <= req[t].age BY <3>1 DEF IInv, SeenLately
      <3> QED BY <3>1, <3>2, <3>3, <1>4 DEF IInv, TypeOK, InFlight
    <2> QED BY <2>1, <2>2
  <1>9. FillsWhileAway'
    <2> SUFFICES ASSUME NEW b \in Addresses, visitors[b] # None
                 PROVE  \/ seen'[b] <= limiter[visitors[b]].age + MaxPause
                        \/ Held(visitors[b]) = Capacity
      BY <1>1 DEF FillsWhileAway, Held
    <2>0. visitors[b] \in Limiters BY DEF IInv, TypeOK
    <2>1. limiter[visitors[b]].age \in Nat BY <2>0, CapacityFacts DEF IInv, TypeOK
    <2>2. CASE b = a BY <2>1, <2>2, <1>4, CapacityFacts DEF IInv, TypeOK
    <2>3. CASE b # a BY <2>3, <1>4 DEF IInv, TypeOK, FillsWhileAway
    <2> QED BY <2>2, <2>3
  <1> QED BY <1>5, <1>6, <1>7, <1>8, <1>9 DEF IInv

LEMMA CreateStep ==
    ASSUME IInv, NEW s \in Slots, NEW a \in Addresses, Create(s, a)
    PROVE  IInv'
  <1> HIDE DEF Capacity
  <1>0. PICK l \in Free : /\ Take(s, a, l)
                          /\ visitors' = [visitors EXCEPT ![a] = l]
                          /\ limiter' = [limiter EXCEPT ![l] = Full]
    BY DEF Create
  <1>1. /\ l \in Limiters /\ l # None /\ req[s] = None /\ visitors[a] = None
        /\ \A b \in Addresses : visitors[b] # l
        /\ \A t \in Slots : req[t] # None => req[t].limiter # l
    BY <1>0, NoneAssumption DEF Free, Create, Take
  <1>2. req' = [req EXCEPT ![s] = [from |-> a, limiter |-> l, age |-> 0]]
    BY <1>0 DEF Take
  <1>3. [from |-> a, limiter |-> l, age |-> 0] \in InFlight /\ Full \in Store
    BY <1>1, CapacityFacts DEF InFlight, Full, Store
  <1>4. seen' = [seen EXCEPT ![a] = 0] /\ ticker' = ticker /\ due' = due /\ answer' = answer
    BY <1>0 DEF Create, Take
  <1>5. TypeOK'
    <2>1. visitors' \in [Addresses -> Limiters \cup {None}]
      BY <1>0, <1>1 DEF IInv, TypeOK
    <2>2. seen' \in [Addresses -> 0 .. Cleanup + 1]
      BY <1>4, CapacityFacts DEF IInv, TypeOK
    <2>3. limiter' \in [Limiters -> Store]
      BY <1>0, <1>1, <1>3 DEF IInv, TypeOK, Store
    <2>4. req' \in [Slots -> InFlight \cup {None}]
      BY <1>2, <1>3 DEF IInv, TypeOK, InFlight
    <2>5. ticker' \in 0 .. Cleanup BY <1>4 DEF IInv, TypeOK
    <2>6. answer' \in [to : Addresses, ok : BOOLEAN] \cup {None}
      BY <1>4 DEF IInv, TypeOK
    <2>7. due' \in BOOLEAN BY <1>4 DEF IInv, TypeOK
    <2> QED BY <2>1, <2>2, <2>3, <2>4, <2>5, <2>6, <2>7 DEF TypeOK, InFlight, Store
  <1>6. \A t \in Slots : t # s /\ req'[t] # None =>
            req'[t] = req[t] /\ req[t] \in InFlight /\ req[t].from # a
    <2> SUFFICES ASSUME NEW t \in Slots, t # s, req'[t] # None
                 PROVE  req'[t] = req[t] /\ req[t] \in InFlight /\ req[t].from # a
      OBVIOUS
    <2>1. req'[t] = req[t] BY <1>2 DEF IInv, TypeOK
    <2>2. req[t] \in InFlight BY <2>1 DEF IInv, TypeOK, InFlight
    <2>3. visitors[req[t].from] = req[t].limiter BY <2>1 DEF IInv, HeldIsCurrent
    <2>4. req[t].limiter # None BY <2>2, NoneAssumption DEF InFlight
    <2> QED BY <2>1, <2>2, <2>3, <2>4, <1>1
  <1>7. HeldIsCurrent'
    BY <1>0, <1>1, <1>2, <1>6 DEF IInv, TypeOK, InFlight, HeldIsCurrent
  <1>8. OwnLimiter' BY <1>0, <1>1 DEF IInv, TypeOK, OwnLimiter
  <1>9. SeenLately'
    BY <1>2, <1>4, <1>6 DEF IInv, TypeOK, InFlight, SeenLately
  <1>10. FillsWhileAway'
    <2> SUFFICES ASSUME NEW b \in Addresses, visitors'[b] # None
                 PROVE  \/ seen'[b] <= limiter'[visitors'[b]].age + MaxPause
                        \/ AtMost(Capacity, limiter'[visitors'[b]].held
                                             + limiter'[visitors'[b]].age) = Capacity
      BY DEF FillsWhileAway, Held
    <2>1. CASE b = a
      <3>1. seen'[b] = 0 /\ visitors'[b] = l /\ limiter'[l].age = 0
        BY <2>1, <1>0, <1>1, <1>4 DEF IInv, TypeOK, Full
      <3> QED BY <3>1, CapacityFacts
    <2>2. CASE b # a
      <3>1. seen'[b] = seen[b] /\ visitors'[b] = visitors[b] /\ visitors[b] \in Limiters
        BY <2>2, <1>0, <1>4 DEF IInv, TypeOK
      <3>2. limiter'[visitors[b]] = limiter[visitors[b]]
        BY <3>1, <1>0, <1>1 DEF IInv, TypeOK
      <3> QED BY <2>2, <3>1, <3>2 DEF IInv, FillsWhileAway, Held
    <2> QED BY <2>1, <2>2
  <1> QED BY <1>5, <1>7, <1>8, <1>9, <1>10 DEF IInv

LEMMA AllowStep ==
    ASSUME IInv, NEW s \in Slots, Allow(s)
    PROVE  IInv'
  <1> HIDE DEF Capacity
  <1> DEFINE l == req[s].limiter
             a == req[s].from
             ok == Held(l) >= Cost
  <1>1. /\ req[s] # None /\ req[s] \in InFlight /\ l \in Limiters /\ a \in Addresses
        /\ visitors[a] = l /\ seen[a] <= req[s].age
        /\ l # None
    BY NoneAssumption DEF IInv, TypeOK, InFlight, Allow, HeldIsCurrent, SeenLately
  <1>2. /\ limiter' = IF ok THEN [limiter EXCEPT ![l] = [held |-> Held(l) - Cost, age |-> 0]]
                      ELSE limiter
        /\ answer' = [to |-> a, ok |-> ok]
        /\ req' = [req EXCEPT ![s] = None]
        /\ visitors' = visitors /\ seen' = seen /\ ticker' = ticker /\ due' = due
    BY DEF Allow
  <1>3. Held(l) \in 0 .. Capacity BY <1>1, HeldType DEF IInv
  <1>4. ok => [held |-> Held(l) - Cost, age |-> 0] \in Store
    <2> SUFFICES ASSUME ok PROVE Held(l) - Cost \in 0 .. Capacity /\ 0 \in 0 .. Capacity
      BY DEF Store
    <2> QED BY <1>3, CapacityFacts
  <1>5. TypeOK'
    <2>1. limiter' \in [Limiters -> Store]
      <3>1. CASE ok BY <3>1, <1>1, <1>2, <1>4 DEF IInv, TypeOK, Store
      <3>2. CASE ~ok BY <3>2, <1>2 DEF IInv, TypeOK, Store
      <3> QED BY <3>1, <3>2
    <2>2. req' \in [Slots -> InFlight \cup {None}] BY <1>2 DEF IInv, TypeOK, InFlight
    <2>3. ok \in BOOLEAN BY <1>3, CapacityFacts
    <2>4. answer' \in [to : Addresses, ok : BOOLEAN] \cup {None} BY <1>1, <1>2, <2>3
    <2>5. /\ visitors' \in [Addresses -> Limiters \cup {None}]
          /\ seen' \in [Addresses -> 0 .. Cleanup + 1]
          /\ ticker' \in 0 .. Cleanup /\ due' \in BOOLEAN
      BY <1>2 DEF IInv, TypeOK
    <2> QED BY <2>1, <2>2, <2>4, <2>5 DEF TypeOK, InFlight, Store
  <1>6. \A t \in Slots : req'[t] # None => t # s /\ req'[t] = req[t]
    BY <1>2 DEF IInv, TypeOK
  <1>7. HeldIsCurrent' BY <1>2, <1>6 DEF IInv, HeldIsCurrent
  <1>8. OwnLimiter' BY <1>2 DEF IInv, OwnLimiter
  <1>9. SeenLately' BY <1>2, <1>6 DEF IInv, SeenLately
  <1>10. FillsWhileAway'
    <2> SUFFICES ASSUME NEW b \in Addresses, visitors[b] # None
                 PROVE  \/ seen[b] <= limiter'[visitors[b]].age + MaxPause
                        \/ AtMost(Capacity, limiter'[visitors[b]].held
                                             + limiter'[visitors[b]].age) = Capacity
      BY <1>2 DEF FillsWhileAway, Held
    <2>0. \/ seen[b] <= limiter[visitors[b]].age + MaxPause
          \/ AtMost(Capacity, limiter[visitors[b]].held
                               + limiter[visitors[b]].age) = Capacity
      BY DEF IInv, FillsWhileAway, Held
    <2>1. CASE ~ok BY <2>0, <2>1, <1>2
    <2>2. CASE ok /\ b = a
      <3>1. limiter'[l].age = 0 BY <2>2, <1>1, <1>2 DEF IInv, TypeOK
      <3>2. seen[a] <= MaxPause
        BY <1>1, CapacityFacts DEF InFlight, IInv, TypeOK
      <3> QED BY <3>1, <3>2, <2>2, <1>1, CapacityFacts
    <2>3. CASE ok /\ b # a
      <3>1. visitors[b] # l BY <2>3, <1>1 DEF IInv, OwnLimiter
      <3>2. limiter'[visitors[b]] = limiter[visitors[b]]
        BY <3>1, <2>3, <1>2 DEF IInv, TypeOK
      <3> QED BY <3>2, <2>0
    <2> QED BY <2>1, <2>2, <2>3
  <1> QED BY <1>5, <1>7, <1>8, <1>9, <1>10 DEF IInv

(* Who is evicted has no request under way.                                *)
LEMMA ExpiredIdle ==
    ASSUME IInv, NEW s \in Slots, req[s] # None
    PROVE  req[s].from \notin Expired
  <1> HIDE DEF Capacity
  <1>1. req[s] \in InFlight /\ seen[req[s].from] <= req[s].age
    BY DEF IInv, TypeOK, InFlight, SeenLately
  <1>2. seen[req[s].from] <= Cleanup
    BY <1>1, CapacityFacts DEF InFlight, IInv, TypeOK
  <1> QED BY <1>1, <1>2, CapacityFacts DEF Expired, IInv, TypeOK, InFlight

(* What is evicted is full.                                                *)
LEMMA ExpiredFull ==
    ASSUME IInv, NEW a \in Expired
    PROVE  Held(visitors[a]) = Capacity
  <1> HIDE DEF Capacity
  <1>1. a \in Addresses /\ visitors[a] \in Limiters /\ visitors[a] # None /\ seen[a] > Cleanup
    BY DEF Expired, IInv, TypeOK
  <1>2. limiter[visitors[a]].age \in 0 .. Capacity
    BY <1>1 DEF IInv, TypeOK
  <1>3. seen[a] \in Nat BY <1>1, CapacityFacts DEF IInv, TypeOK
  <1> QED BY <1>1, <1>2, <1>3, CapacityFacts DEF IInv, FillsWhileAway

LEMMA CleanUpStep ==
    ASSUME IInv, CleanUp
    PROVE  IInv'
  <1> HIDE DEF Capacity
  <1>1. /\ visitors' = [a \in Addresses |-> IF a \in Expired THEN None ELSE visitors[a]]
        /\ due' = FALSE /\ seen' = seen /\ limiter' = limiter /\ req' = req
        /\ ticker' = ticker /\ answer' = answer
    BY DEF CleanUp
  <1>2. \A a \in Addresses : visitors'[a] # None => visitors'[a] = visitors[a]
    BY <1>1
  <1>3. TypeOK' BY <1>1 DEF IInv, TypeOK
  <1>4. HeldIsCurrent'
    <2> SUFFICES ASSUME NEW s \in Slots, req[s] # None
                 PROVE  visitors'[req[s].from] = req[s].limiter
      BY <1>1 DEF HeldIsCurrent
    <2>1. req[s].from \notin Expired BY ExpiredIdle
    <2> QED BY <2>1, <1>1 DEF IInv, TypeOK, HeldIsCurrent
  <1>5. OwnLimiter' BY <1>2 DEF IInv, OwnLimiter
  <1>6. SeenLately' BY <1>1 DEF IInv, SeenLately
  <1>7. FillsWhileAway' BY <1>1, <1>2 DEF IInv, FillsWhileAway, Held
  <1> QED BY <1>3, <1>4, <1>5, <1>6, <1>7 DEF IInv

LEMMA TickStep ==
    ASSUME IInv, Tick
    PROVE  IInv'
  <1> HIDE DEF Capacity
  <1>1. /\ \A s \in Slots : req[s] # None => req[s].age < MaxPause
        /\ req' = [s \in Slots |-> IF req[s] = None THEN None
                                   ELSE [req[s] EXCEPT !.age = @ + 1]]
        /\ seen' = [a \in Addresses |-> AtMost(Cleanup + 1, seen[a] + 1)]
        /\ limiter' = [l \in Limiters |-> [limiter[l] EXCEPT !.age = AtMost(Capacity, @ + 1)]]
        /\ ticker' = IF ticker < Cleanup THEN ticker + 1 ELSE 1
        /\ due' = (due \/ ticker' = Cleanup)
        /\ answer' = None
        /\ visitors' = visitors
    BY DEF Tick
  <1>2. \A s \in Slots : req[s] # None =>
            /\ req[s] \in InFlight /\ req'[s] = [req[s] EXCEPT !.age = @ + 1]
            /\ req'[s] \in InFlight
            /\ req'[s].age = req[s].age + 1 /\ req'[s].from = req[s].from
            /\ req'[s].limiter = req[s].limiter
    <2> SUFFICES ASSUME NEW s \in Slots, req[s] # None
                 PROVE  /\ req[s] \in InFlight /\ req'[s] = [req[s] EXCEPT !.age = @ + 1]
                        /\ req'[s] \in InFlight
                        /\ req'[s].age = req[s].age + 1 /\ req'[s].from = req[s].from
                        /\ req'[s].limiter = req[s].limiter
      OBVIOUS
    <2>1. req[s] \in InFlight /\ req'[s] = [req[s] EXCEPT !.age = @ + 1]
      BY <1>1 DEF IInv, TypeOK, InFlight
    <2>2. req[s].age < MaxPause BY <1>1
    <2>3. req[s].age + 1 \in 0 .. MaxPause BY <2>1, <2>2, CapacityFacts DEF InFlight
    <2> QED BY <2>1, <2>3 DEF InFlight
  <1>3. \A s \in Slots : req[s] = None => req'[s] = None
    BY <1>1
  <1>4. \A a \in Addresses : seen[a] \in Nat /\ seen'[a] = AtMost(Cleanup + 1, seen[a] + 1)
    BY <1>1, CapacityFacts DEF IInv, TypeOK
  <1>5. \A l \in Limiters :
            /\ limiter[l] \in Store
            /\ limiter'[l] = [limiter[l] EXCEPT !.age = AtMost(Capacity, @ + 1)]
            /\ limiter'[l].held = limiter[l].held
            /\ limiter'[l].age = AtMost(Capacity, limiter[l].age + 1)
            /\ limiter'[l] \in Store
    <2> SUFFICES ASSUME NEW l \in Limiters
                 PROVE  /\ limiter[l] \in Store
                        /\ limiter'[l] = [limiter[l] EXCEPT !.age = AtMost(Capacity, @ + 1)]
                        /\ limiter'[l].held = limiter[l].held
                        /\ limiter'[l].age = AtMost(Capacity, limiter[l].age + 1)
                        /\ limiter'[l] \in Store
      OBVIOUS
    <2>1. /\ limiter[l] \in Store
          /\ limiter'[l] = [limiter[l] EXCEPT !.age = AtMost(Capacity, @ + 1)]
      BY <1>1 DEF IInv, TypeOK, Store
    <2>2. AtMost(Capacity, limiter[l].age + 1) \in 0 .. Capacity
      BY <2>1, CapacityFacts DEF Store, AtMost
    <2> QED BY <2>1, <2>2 DEF Store
  <1>6. TypeOK'
    <2>1. visitors' \in [Addresses -> Limiters \cup {None}] BY <1>1 DEF IInv, TypeOK
    <2>2. seen' \in [Addresses -> 0 .. Cleanup + 1]
      <3>1. \A a \in Addresses : AtMost(Cleanup + 1, seen[a] + 1) \in 0 .. Cleanup + 1
        BY <1>4, CapacityFacts DEF AtMost
      <3> QED BY <3>1, <1>1
    <2>3. limiter' \in [Limiters -> Store]
      <3>1. limiter' = [l \in Limiters |-> limiter'[l]] BY <1>1
      <3> QED BY <3>1, <1>5
    <2>4. req' \in [Slots -> InFlight \cup {None}]
      <3>1. req' = [s \in Slots |-> req'[s]] BY <1>1
      <3>2. \A s \in Slots : req'[s] \in InFlight \cup {None} BY <1>2, <1>3
      <3> QED BY <3>1, <3>2
    <2>5. ticker' \in 0 .. Cleanup
      <3>1. Cleanup > 0 BY CapacityFacts, RateAssumption DEF Capacity
      <3> QED BY <3>1, <1>1, CapacityFacts DEF IInv, TypeOK
    <2>6. answer' \in [to : Addresses, ok : BOOLEAN] \cup {None} BY <1>1
    <2>7. due' \in BOOLEAN BY <1>1
    <2> QED BY <2>1, <2>2, <2>3, <2>4, <2>5, <2>6, <2>7 DEF TypeOK, InFlight, Store
  <1>7. HeldIsCurrent' BY <1>1, <1>2, <1>3 DEF IInv, HeldIsCurrent
  <1>8. OwnLimiter' BY <1>1 DEF IInv, OwnLimiter
  <1>9. SeenLately'
    <2> SUFFICES ASSUME NEW s \in Slots, req'[s] # None
                 PROVE  seen'[req'[s].from] <= req'[s].age
      BY DEF SeenLately
    <2>1. req[s] # None BY <1>3
    <2>2. seen[req[s].from] <= req[s].age BY <2>1 DEF IInv, SeenLately
    <2>3. req[s].from \in Addresses /\ req[s].age \in Nat
      <3>1. req[s] \in InFlight BY <2>1, <1>2
      <3>2. req[s].from \in Addresses /\ req[s].age \in 0 .. MaxPause
        BY <3>1 DEF InFlight
      <3> QED BY <3>2, CapacityFacts
    <2>4. PICK a \in Addresses : a = req[s].from BY <2>3
    <2>5. seen[a] \in Nat /\ seen'[a] = AtMost(Cleanup + 1, seen[a] + 1)
      BY <1>4
    <2>6. req'[s].from = a /\ req'[s].age = req[s].age + 1
      BY <2>1, <2>4, <1>2
    <2>7. seen[a] <= req[s].age BY <2>2, <2>4
    <2> DEFINE n == seen[a]
               m == req[s].age
    <2>8. n \in Nat /\ m \in Nat /\ n <= m BY <2>3, <2>5, <2>7
    <2> HIDE DEF n, m
    <2>9. AtMost(Cleanup + 1, n + 1) <= m + 1
      BY <2>8, CapacityFacts DEF AtMost
    <2> QED BY <2>5, <2>6, <2>9 DEF n, m
  <1>10. FillsWhileAway'
    <2> SUFFICES ASSUME NEW b \in Addresses, visitors[b] # None
                 PROVE  \/ seen'[b] <= limiter'[visitors[b]].age + MaxPause
                        \/ AtMost(Capacity, limiter'[visitors[b]].held
                                             + limiter'[visitors[b]].age) = Capacity
      BY <1>1 DEF FillsWhileAway, Held
    <2>0. \/ seen[b] <= limiter[visitors[b]].age + MaxPause
          \/ AtMost(Capacity, limiter[visitors[b]].held
                               + limiter[visitors[b]].age) = Capacity
      BY DEF IInv, FillsWhileAway, Held
    <2>1. visitors[b] \in Limiters BY DEF IInv, TypeOK
    <2> DEFINE m == limiter[visitors[b]]
    <2>2. m.held \in 0 .. Capacity /\ m.age \in 0 .. Capacity
      BY <2>1, <1>5 DEF Store
    <2>3. /\ limiter'[visitors[b]].held = m.held
          /\ limiter'[visitors[b]].age = AtMost(Capacity, m.age + 1)
      BY <2>1, <1>5
    <2>4. seen[b] \in Nat /\ seen'[b] = AtMost(Cleanup + 1, seen[b] + 1)
      BY <1>4
    <2> HIDE DEF m
    <2>5. seen[b] <= m.age + MaxPause \/ AtMost(Capacity, m.held + m.age) = Capacity
      BY <2>0 DEF m
    <2> QED BY <2>2, <2>3, <2>4, <2>5, CapacityFacts DEF AtMost
  <1> QED BY <1>6, <1>7, <1>8, <1>9, <1>10 DEF IInv

LEMMA NextKeeps == IInv /\ [Next]_vars => IInv'
  <1> SUFFICES ASSUME IInv, [Next]_vars PROVE IInv' OBVIOUS
  <1>1. ASSUME NEW s \in Slots, NEW a \in Addresses, Find(s, a) PROVE IInv'
    BY <1>1, FindStep
  <1>2. ASSUME NEW s \in Slots, NEW a \in Addresses, Create(s, a) PROVE IInv'
    BY <1>2, CreateStep
  <1>3. ASSUME NEW s \in Slots, Allow(s) PROVE IInv' BY <1>3, AllowStep
  <1>4. CASE CleanUp BY <1>4, CleanUpStep
  <1>5. CASE Tick BY <1>5, TickStep
  <1>6. CASE UNCHANGED vars
    BY <1>6 DEF vars, IInv, TypeOK, HeldIsCurrent, OwnLimiter, SeenLately,
                FillsWhileAway, Held
  <1> QED BY <1>1, <1>2, <1>3, <1>4, <1>5, <1>6 DEF Next

LEMMA Inductive == Spec => []IInv
  BY InitHolds, NextKeeps, PTL DEF Spec

(* RateLimiter keeps its types: in particular no limiter ever holds more   *)
(* than Burst tokens.                                                      *)
THEOREM TypeCorrect == Spec => []TypeOK
  <1>1. IInv => TypeOK BY DEF IInv
  <1> QED BY <1>1, Inductive, PTL

(* getVisitor and cleanupVisitors: no request ever asks a limiter that was *)
(* evicted, so that two requests of one client always share their bucket.  *)
THEOREM HeldIsCurrentAlways == Spec => []HeldIsCurrent
  <1>1. IInv => HeldIsCurrent BY DEF IInv
  <1> QED BY <1>1, Inductive, PTL

-----------------------------------------------------------------------------
(* The table implements the buckets: what each step does to Level.         *)

LEMMA LevelType == ASSUME TypeOK, NEW a \in Addresses PROVE Level[a] \in 0 .. Capacity
  <1> HIDE DEF Capacity
  <1>1. CASE visitors[a] = None BY <1>1, CapacityFacts DEF Level
  <1>2. CASE visitors[a] # None
    <2>1. visitors[a] \in Limiters BY <1>2 DEF TypeOK
    <2> QED BY <2>1, <1>2, HeldType DEF Level
  <1> QED BY <1>1, <1>2

LEMMA InitMaps == Init => Bucket!Init
  BY DEF Init, Bucket!Init, Level

LEMMA FindMaps ==
    ASSUME IInv, NEW s \in Slots, NEW a \in Addresses, Find(s, a)
    PROVE  UNCHANGED <<Level, answer>>
  BY DEF Find, Take, Level, Held

LEMMA CreateMaps ==
    ASSUME IInv, NEW s \in Slots, NEW a \in Addresses, Create(s, a)
    PROVE  UNCHANGED <<Level, answer>>
  <1> HIDE DEF Capacity
  <1>0. PICK l \in Free : /\ Take(s, a, l)
                          /\ visitors' = [visitors EXCEPT ![a] = l]
                          /\ limiter' = [limiter EXCEPT ![l] = Full]
    BY DEF Create
  <1>1. l \in Limiters /\ l # None /\ visitors[a] = None /\ answer' = answer
    BY <1>0, NoneAssumption DEF Free, Create, Take
  <1>2. \A b \in Addresses : visitors[b] # l BY <1>0 DEF Free
  <1>3. ASSUME NEW b \in Addresses PROVE Level'[b] = Level[b]
    <2>1. CASE b = a
      <3>1. visitors'[a] = l /\ limiter'[l] = Full
        BY <1>0, <1>1 DEF IInv, TypeOK
      <3>2. AtMost(Capacity, Full.held + Full.age) = Capacity
        BY CapacityFacts DEF AtMost, Full
      <3> QED BY <2>1, <3>1, <3>2, <1>1 DEF Level, Held
    <2>2. CASE b # a
      <3>1. visitors'[b] = visitors[b] BY <2>2, <1>0 DEF IInv, TypeOK
      <3>2. visitors[b] # None => limiter'[visitors[b]] = limiter[visitors[b]]
        BY <1>0, <1>2 DEF IInv, TypeOK
      <3> QED BY <3>1, <3>2 DEF Level, Held
    <2> QED BY <2>1, <2>2
  <1>4. Level' = Level BY <1>3 DEF Level
  <1> QED BY <1>1, <1>4

LEMMA AllowMaps ==
    ASSUME IInv, NEW s \in Slots, Allow(s)
    PROVE  \E a \in Addresses : Bucket!Admit(a) \/ Bucket!Refuse(a)
  <1> HIDE DEF Capacity
  <1> DEFINE l == req[s].limiter
             a == req[s].from
             ok == Held(l) >= Cost
  <1>1. /\ l \in Limiters /\ a \in Addresses /\ visitors[a] = l /\ l # None
    BY NoneAssumption DEF IInv, TypeOK, Allow, HeldIsCurrent
  <1>2. /\ limiter' = IF ok THEN [limiter EXCEPT ![l] = [held |-> Held(l) - Cost, age |-> 0]]
                      ELSE limiter
        /\ answer' = [to |-> a, ok |-> ok]
        /\ visitors' = visitors
    BY DEF Allow
  <1>3. Held(l) \in 0 .. Capacity BY <1>1, HeldType DEF IInv
  <1>4. Level[a] = Held(l) BY <1>1 DEF Level
  <1>5. CASE ~ok
    <2>1. Level' = Level BY <1>2, <1>5 DEF Level, Held
    <2>2. Level[a] < Cost BY <1>3, <1>4, <1>5, CapacityFacts
    <2>3. answer' = [to |-> a, ok |-> FALSE]
      <3>1. ok = FALSE BY <1>5
      <3> HIDE DEF ok
      <3> QED BY <3>1, <1>2
    <2>4. Bucket!Refuse(a) BY <2>1, <2>2, <2>3 DEF Bucket!Refuse
    <2> QED BY <1>1, <2>4
  <1>6. CASE ok
    <2>1. limiter'[l].held = Held(l) - Cost /\ limiter'[l].age = 0
      BY <1>1, <1>2, <1>6 DEF IInv, TypeOK
    <2>2. AtMost(Capacity, limiter'[l].held + limiter'[l].age) = Held(l) - Cost
      BY <2>1, <1>3, <1>6, CapacityFacts DEF AtMost
    <2>3. Level'[a] = Level[a] - Cost
      BY <2>2, <1>1, <1>2, <1>4 DEF Level, Held
    <2>4. ASSUME NEW b \in Addresses, b # a PROVE Level'[b] = Level[b]
      <3>1. visitors[b] # None => visitors[b] # l
        BY <2>4, <1>1 DEF IInv, OwnLimiter
      <3>2. visitors[b] # None => limiter'[visitors[b]] = limiter[visitors[b]]
        BY <3>1, <1>2 DEF IInv, TypeOK
      <3>3. visitors' = visitors BY <1>2
      <3>4. visitors[b] # None => Held(visitors[b])' = Held(visitors[b])
        BY <3>2, <3>3 DEF Held
      <3> QED BY <3>3, <3>4 DEF Level
    <2>5. Level' = [Level EXCEPT ![a] = @ - Cost]
      <3>1. Level' = [b \in Addresses |-> Level'[b]] BY DEF Level
      <3>2. [Level EXCEPT ![a] = @ - Cost]
              = [b \in Addresses |-> IF b = a THEN Level[b] - Cost ELSE Level[b]]
        BY <1>1 DEF Level
      <3> QED BY <3>1, <3>2, <2>3, <2>4
    <2>6. answer' = [to |-> a, ok |-> TRUE] BY <1>2, <1>6
    <2>7. Bucket!Admit(a) BY <2>5, <2>6, <1>4, <1>6 DEF Bucket!Admit
    <2> QED BY <1>1, <2>7
  <1> QED BY <1>5, <1>6

LEMMA CleanUpMaps ==
    ASSUME IInv, CleanUp
    PROVE  UNCHANGED <<Level, answer>>
  <1> HIDE DEF Capacity
  <1>1. /\ visitors' = [a \in Addresses |-> IF a \in Expired THEN None ELSE visitors[a]]
        /\ limiter' = limiter /\ answer' = answer
    BY DEF CleanUp
  <1>2. ASSUME NEW a \in Addresses PROVE Level'[a] = Level[a]
    <2>1. CASE a \in Expired
      <3>1. Held(visitors[a]) = Capacity BY <2>1, ExpiredFull
      <3> QED BY <2>1, <3>1, <1>1 DEF Level
    <2>2. CASE a \notin Expired BY <2>2, <1>1 DEF Level, Held
    <2> QED BY <2>1, <2>2
  <1>3. Level' = Level BY <1>2 DEF Level
  <1> QED BY <1>1, <1>3

LEMMA TickMaps ==
    ASSUME IInv, Tick
    PROVE  Bucket!Pass
  <1> HIDE DEF Capacity
  <1>1. /\ limiter' = [l \in Limiters |-> [limiter[l] EXCEPT !.age = AtMost(Capacity, @ + 1)]]
        /\ answer' = None /\ visitors' = visitors
    BY DEF Tick
  <1>2. ASSUME NEW a \in Addresses
        PROVE  Level'[a] = IF Level[a] < Capacity THEN Level[a] + 1 ELSE Capacity
    <2>1. CASE visitors[a] = None BY <2>1, <1>1, CapacityFacts DEF Level
    <2>2. CASE visitors[a] # None
      <3> DEFINE m == limiter[visitors[a]]
                 n == limiter'[visitors[a]]
      <3>1. m \in Store BY <2>2 DEF IInv, TypeOK, Store
      <3>2. n = [m EXCEPT !.age = AtMost(Capacity, @ + 1)]
        BY <2>2, <1>1 DEF IInv, TypeOK
      <3>3. n.held = m.held /\ n.age = AtMost(Capacity, m.age + 1)
        BY <3>1, <3>2 DEF Store
      <3>4. Level[a] = AtMost(Capacity, m.held + m.age) BY <2>2 DEF Level, Held
      <3>5. Level'[a] = AtMost(Capacity, n.held + n.age)
        BY <2>2, <1>1 DEF Level, Held
      <3>6. m.held \in 0 .. Capacity /\ m.age \in 0 .. Capacity BY <3>1 DEF Store
      <3> HIDE DEF m, n
      <3> QED BY <3>3, <3>4, <3>5, <3>6, CapacityFacts DEF AtMost
    <2> QED BY <2>1, <2>2
  <1>3. Level' = [a \in Addresses |->
                    IF Level[a] < Capacity THEN Level[a] + 1 ELSE Capacity]
    <2>1. Level' = [a \in Addresses |-> Level'[a]] BY DEF Level
    <2> QED BY <2>1, <1>2
  <1> QED BY <1>1, <1>3 DEF Bucket!Pass

LEMMA StepMaps == IInv /\ [Next]_vars => [Bucket!Next]_(Bucket!vars)
  <1> SUFFICES ASSUME IInv, [Next]_vars PROVE [Bucket!Next]_(Bucket!vars) OBVIOUS
  <1>1. ASSUME NEW s \in Slots, NEW a \in Addresses, Find(s, a)
        PROVE  UNCHANGED <<Level, answer>>
    BY <1>1, FindMaps
  <1>2. ASSUME NEW s \in Slots, NEW a \in Addresses, Create(s, a)
        PROVE  UNCHANGED <<Level, answer>>
    BY <1>2, CreateMaps
  <1>3. ASSUME NEW s \in Slots, Allow(s) PROVE Bucket!Next
    BY <1>3, AllowMaps DEF Bucket!Next
  <1>4. CASE CleanUp BY <1>4, CleanUpMaps DEF Bucket!vars
  <1>5. CASE Tick BY <1>5, TickMaps DEF Bucket!Next
  <1>6. CASE UNCHANGED vars BY <1>6 DEF vars, Level, Held, Bucket!vars
  <1> QED BY <1>1, <1>2, <1>3, <1>4, <1>5, <1>6 DEF Next, Bucket!vars

(* The limiter with its evictions implements one bucket per client that is *)
(* never forgotten: it admits when that bucket has a token, and only then. *)
THEOREM ImplementsBucketAlways == Spec => ImplementsBucket
  BY InitMaps, StepMaps, Inductive, PTL DEF Spec, ImplementsBucket, Bucket!Spec
-----------------------------------------------------------------------------
(* What the limit amounts to.  A meter is switched on at any moment, and   *)
(* as often as one likes; from then on it counts the requests of each      *)
(* address that are let through, and the units of time.                    *)

VARIABLES elapsed, admitted

meter == <<elapsed, admitted>>

Zero == elapsed = 0 /\ admitted = [a \in Addresses |-> 0]

Restart ==
    /\ elapsed' = 0 /\ admitted' = [a \in Addresses |-> 0]
    /\ UNCHANGED vars

Passes(s) == Held(req[s].limiter) >= Cost

Count(s) ==
    /\ Allow(s)
    /\ admitted' = IF Passes(s) THEN [admitted EXCEPT ![req[s].from] = @ + 1]
                                ELSE admitted
    /\ UNCHANGED elapsed

Clock == Tick /\ elapsed' = elapsed + 1 /\ UNCHANGED admitted

Unmetered ==
    /\ \/ \E s \in Slots, a \in Addresses : Find(s, a) \/ Create(s, a)
       \/ CleanUp
    /\ UNCHANGED meter

MeteredNext == Restart \/ (\E s \in Slots : Count(s)) \/ Clock \/ Unmetered

MeteredSpec == Init /\ Zero /\ [][MeteredNext]_<<vars, meter>>

(* In n units of time a client is let through no more than Burst + n/Cost  *)
(* times, wherever the n units begin.                                      *)
RateBound == \A a \in Addresses : Cost * admitted[a] <= Capacity + elapsed

MeterInv ==
    /\ elapsed \in Nat
    /\ admitted \in [Addresses -> Nat]
    /\ \A a \in Addresses : Cost * admitted[a] + Level[a] <= Capacity + elapsed

LEMMA Twice == ASSUME NEW c \in Nat, NEW n \in Nat PROVE c * (n + 1) = c * n + c
  OBVIOUS

LEMMA MeterRestart ==
    ASSUME TypeOK, NEW a \in Addresses
    PROVE  Cost * 0 + Level[a] <= Capacity + 0
  <1> HIDE DEF Capacity
  <1>1. Level[a] \in 0 .. Capacity BY LevelType
  <1>2. Cost * 0 = 0 BY CapacityFacts
  <1> QED BY <1>1, <1>2, CapacityFacts

(* A request that is let through takes a token, any other takes none.      *)
LEMMA MeterCount ==
    ASSUME IInv, MeterInv, NEW s \in Slots, Count(s), NEW b \in Addresses
    PROVE  Cost * admitted'[b] + Level'[b] <= Capacity + elapsed
  <1> HIDE DEF Capacity
  <1> DEFINE a == req[s].from
  <1>1. /\ a \in Addresses /\ visitors[a] # None /\ Level[a] = Held(req[s].limiter)
    BY NoneAssumption DEF IInv, TypeOK, Count, Allow, HeldIsCurrent, Level
  <1>2. /\ admitted' = IF Passes(s) THEN [admitted EXCEPT ![a] = @ + 1] ELSE admitted
        /\ answer' = [to |-> a, ok |-> Held(req[s].limiter) >= Cost]
    BY DEF Count, Allow
  <1>3. PICK c \in Addresses : Bucket!Admit(c) \/ Bucket!Refuse(c)
    BY AllowMaps DEF Count
  <1>4. c = a BY <1>2, <1>3 DEF Bucket!Admit, Bucket!Refuse
  <1>5. /\ Level[b] \in Nat /\ admitted[b] \in Nat /\ elapsed \in Nat
        /\ Cost * admitted[b] + Level[b] <= Capacity + elapsed
        /\ Level \in [Addresses -> 0 .. Capacity] /\ admitted \in [Addresses -> Nat]
    <2>1. \A e \in Addresses : Level[e] \in 0 .. Capacity BY LevelType DEF IInv
    <2>2. Level \in [Addresses -> 0 .. Capacity] BY <2>1 DEF Level
    <2> QED BY <2>1, <2>2, CapacityFacts DEF MeterInv
  <1>6. Level[a] \in 0 .. Capacity BY <1>1, <1>5
  <1>7. CASE Bucket!Admit(c)
    <2>1. Level[a] >= Cost /\ Level' = [Level EXCEPT ![a] = @ - Cost]
      BY <1>4, <1>7 DEF Bucket!Admit
    <2>2. admitted' = [admitted EXCEPT ![a] = @ + 1]
      BY <1>1, <1>2, <2>1 DEF Passes
    <2>3. CASE b # a
      <3>1. Level'[b] = Level[b] /\ admitted'[b] = admitted[b]
        BY <1>5, <2>1, <2>2, <2>3
      <3> QED BY <1>5, <3>1
    <2>4. CASE b = a
      <3>1. Level'[b] = Level[b] - Cost /\ admitted'[b] = admitted[b] + 1
        BY <1>5, <2>1, <2>2, <2>4
      <3>2. Cost * (admitted[b] + 1) = Cost * admitted[b] + Cost
        BY <1>5, CapacityFacts, Twice
      <3>3. Cost * admitted[b] \in Nat BY <1>5, CapacityFacts
      <3> QED BY <1>5, <3>1, <3>2, <3>3, CapacityFacts
    <2> QED BY <2>3, <2>4
  <1>8. CASE Bucket!Refuse(c)
    <2>1. Level[a] < Cost /\ Level' = Level BY <1>4, <1>8 DEF Bucket!Refuse
    <2>2. ~Passes(s) BY <1>1, <1>6, <2>1, CapacityFacts DEF Passes
    <2> QED BY <1>2, <1>5, <2>1, <2>2
  <1> QED BY <1>3, <1>7, <1>8

LEMMA MeterStep ==
    ASSUME IInv, MeterInv, [MeteredNext]_<<vars, meter>>
    PROVE  MeterInv'
  <1> HIDE DEF Capacity
  <1>t. elapsed \in Nat /\ admitted \in [Addresses -> Nat] BY DEF MeterInv
  <1>0. ASSUME UNCHANGED <<Level, meter>> PROVE MeterInv'
    BY <1>0 DEF MeterInv, meter
  <1>1. CASE Restart
    <2>1. /\ elapsed' = 0 /\ admitted' = [a \in Addresses |-> 0] /\ Level' = Level
      BY <1>1 DEF Restart, vars, Level, Held
    <2>2. \A a \in Addresses : Cost * 0 + Level[a] <= Capacity + 0
      BY MeterRestart DEF IInv
    <2> QED BY <2>1, <2>2 DEF MeterInv
  <1>2. ASSUME NEW s \in Slots, Count(s) PROVE MeterInv'
    <2>1. \A b \in Addresses : Cost * admitted'[b] + Level'[b] <= Capacity + elapsed
      BY <1>2, MeterCount
    <2>2. req[s].from \in Addresses
      BY <1>2 DEF Count, Allow, IInv, TypeOK
    <2>3. elapsed' = elapsed /\ admitted' \in [Addresses -> Nat]
      BY <1>2, <1>t, <2>2 DEF Count
    <2> QED BY <1>t, <2>1, <2>3 DEF MeterInv
  <1>3. CASE Clock
    <2>1. Bucket!Pass BY <1>3, TickMaps DEF Clock
    <2>2. elapsed' = elapsed + 1 /\ admitted' = admitted BY <1>3 DEF Clock
    <2>3. ASSUME NEW b \in Addresses
          PROVE  Cost * admitted[b] + Level'[b] <= Capacity + (elapsed + 1)
      <3>1. Level'[b] = IF Level[b] < Capacity THEN Level[b] + 1 ELSE Capacity
        BY <2>1 DEF Bucket!Pass
      <3>2. Level[b] \in 0 .. Capacity BY LevelType DEF IInv
      <3>3. Cost * admitted[b] \in Nat BY <1>t, CapacityFacts
      <3>4. Cost * admitted[b] + Level[b] <= Capacity + elapsed BY DEF MeterInv
      <3> DEFINE n == Cost * admitted[b]
      <3> HIDE DEF n
      <3>5. n \in Nat /\ n + Level[b] <= Capacity + elapsed BY <3>3, <3>4 DEF n
      <3>6. n + Level'[b] <= Capacity + (elapsed + 1)
        BY <1>t, <3>1, <3>2, <3>5, CapacityFacts
      <3> QED BY <3>6 DEF n
    <2> QED BY <1>t, <2>2, <2>3 DEF MeterInv
  <1>4. CASE Unmetered
    BY <1>4, <1>0, FindMaps, CreateMaps, CleanUpMaps DEF Unmetered
  <1>5. CASE UNCHANGED <<vars, meter>>
    BY <1>5, <1>0 DEF vars, Level, Held
  <1> QED BY <1>1, <1>2, <1>3, <1>4, <1>5 DEF MeteredNext

LEMMA MeterIsRateLimiter == MeteredSpec => Spec
  <1>1. [MeteredNext]_<<vars, meter>> => [Next]_vars
    BY DEF MeteredNext, Restart, Count, Clock, Unmetered, Next
  <1> QED BY <1>1, PTL DEF MeteredSpec, Spec

(* The limit in numbers: whatever is evicted and created meanwhile, in any *)
(* period a client gets its Burst and what is earned in that time, and no  *)
(* more.  For logins (a token every 12 s, 3 at most) that is 8 a minute:   *)
(* "5 requests per minute" is the rate that lasts.                         *)
THEOREM RateBoundAlways == MeteredSpec => []RateBound
  <1> HIDE DEF Capacity
  <1>1. Init /\ Zero => MeterInv
    <2> SUFFICES ASSUME Init, Zero PROVE MeterInv OBVIOUS
    <2>1. TypeOK BY InitHolds DEF IInv
    <2> QED BY <2>1, MeterRestart DEF Zero, MeterInv
  <1>2. IInv /\ MeterInv /\ [MeteredNext]_<<vars, meter>> => MeterInv'
    BY MeterStep
  <1>3. IInv /\ MeterInv => RateBound
    <2> SUFFICES ASSUME IInv, MeterInv, NEW a \in Addresses
                 PROVE  Cost * admitted[a] <= Capacity + elapsed
      BY DEF RateBound
    <2>1. Level[a] \in 0 .. Capacity BY LevelType DEF IInv
    <2>2. Cost * admitted[a] \in Nat BY CapacityFacts DEF MeterInv
    <2>3. Cost * admitted[a] + Level[a] <= Capacity + elapsed BY DEF MeterInv
    <2> DEFINE n == Cost * admitted[a]
    <2> HIDE DEF n
    <2>4. n \in Nat /\ n + Level[a] <= Capacity + elapsed BY <2>2, <2>3 DEF n
    <2>5. n <= Capacity + elapsed BY <2>1, <2>4, CapacityFacts DEF MeterInv
    <2> QED BY <2>5 DEF n
  <1> QED BY <1>1, <1>2, <1>3, MeterIsRateLimiter, Inductive, PTL DEF MeteredSpec
=============================================================================
