---------------------------- MODULE RateLimiter ----------------------------
(***************************************************************************)
(* RateLimiter of internal/middleware/ratelimit.go: a table of limiters by *)
(* client address, filled by the requests and cleared of idle addresses by *)
(* a goroutine of its own.                                                 *)
(*                                                                         *)
(* A request takes the limiter of its address out of the table under the   *)
(* lock of the table and asks it after that lock is released; in between   *)
(* the address may be evicted, and another request may find no limiter and *)
(* create one.  Each of these steps is atomic in the code (mu, and the     *)
(* lock inside rate.Limiter).                                              *)
(*                                                                         *)
(* Points in time are kept as ages, counted up to where they make no more  *)
(* difference.  A limiter (golang.org/x/time/rate) stores what it held     *)
(* when it last let a request through; it fills by one unit each unit of   *)
(* time, and a token is worth Cost units.  The server has two such tables, *)
(* global and login, that share nothing; this is either.                   *)
(***************************************************************************)
EXTENDS Naturals

CONSTANTS
    Addresses,      \* client addresses
    Slots,          \* requests that may be between the two locks
    Limiters,       \* identities of rate.Limiter objects
    None,           \* no limiter, no request, no answer
    Burst,          \* tokens of a full limiter
    Cost,           \* time in which a token is earned
    Cleanup,        \* period of the ticker, and age at which to evict
    MaxPause        \* longest time a request spends between the two locks

Capacity == Burst * Cost

ASSUME RateAssumption == Burst \in Nat \ {0} /\ Cost \in Nat \ {0}
ASSUME NoneAssumption == None \notin Limiters \cup Addresses
ASSUME TimesAssumption == Cleanup \in Nat /\ MaxPause \in Nat

(* 5 min and 20 tokens of 0.1 s; 10 min and 3 tokens of 12 s.  A request   *)
(* has no more between the two locks to do than to be scheduled.           *)
ASSUME CleanupAssumption == Capacity + MaxPause <= Cleanup

VARIABLES
    visitors,       \* the table: the limiter of each address, or None
    seen,           \* age of visitor.lastSeen
    limiter,        \* what each limiter held, and how long ago
    req,            \* the limiter each request has taken out, and how long ago
    ticker,         \* time since the ticker fired
    due,            \* the ticker has fired and was not received
    answer          \* history: the latest answer since time last passed

vars == <<visitors, seen, limiter, req, ticker, due, answer>>

AtMost(bound, n) == IF n < bound THEN n ELSE bound

\* Faulty variant: the bucket has no brim.
HeldUnlimited(l) == limiter[l].held + limiter[l].age

(* rate.Limiter: what it holds now.  It stores nothing when it refuses.    *)
Held(l) == AtMost(Capacity, limiter[l].held + limiter[l].age)

Full == [held |-> Capacity, age |-> 0]

(* Objects that nothing refers to are collected.                           *)
Free == {l \in Limiters : /\ \A a \in Addresses : visitors[a] # l
                          /\ \A s \in Slots : req[s] # None => req[s].limiter # l}

TypeOK ==
    /\ visitors \in [Addresses -> Limiters \cup {None}]
    /\ seen \in [Addresses -> 0 .. Cleanup + 1]
    /\ limiter \in [Limiters -> [held : 0 .. Capacity, age : 0 .. Capacity]]
    /\ req \in [Slots -> [from : Addresses, limiter : Limiters, age : 0 .. MaxPause]
                           \cup {None}]
    /\ ticker \in 0 .. Cleanup
    /\ due \in BOOLEAN
    /\ answer \in [to : Addresses, ok : BOOLEAN] \cup {None}

Init ==
    /\ visitors = [a \in Addresses |-> None]
    /\ seen = [a \in Addresses |-> 0]
    /\ limiter = [l \in Limiters |-> Full]
    /\ req = [s \in Slots |-> None]
    /\ ticker = 0
    /\ due = FALSE
    /\ answer = None

Take(s, a, l) ==
    /\ req[s] = None
    /\ req' = [req EXCEPT ![s] = [from |-> a, limiter |-> l, age |-> 0]]
    /\ UNCHANGED <<ticker, due, answer>>

\* Faulty variant: lastSeen is the time of the first request.
FindUnstamped(s, a) ==
    /\ visitors[a] # None
    /\ Take(s, a, visitors[a])
    /\ UNCHANGED <<visitors, seen, limiter>>

(* getVisitor of an address that is in the table, or is not.               *)
Find(s, a) ==
    /\ visitors[a] # None
    /\ Take(s, a, visitors[a])
    /\ seen' = [seen EXCEPT ![a] = 0]
    /\ UNCHANGED <<visitors, limiter>>

Create(s, a) ==
    /\ visitors[a] = None
    /\ \E l \in Free :
          /\ Take(s, a, l)
          /\ visitors' = [visitors EXCEPT ![a] = l]
          /\ limiter' = [limiter EXCEPT ![l] = Full]
    /\ seen' = [seen EXCEPT ![a] = 0]

(* Limit: Allow on the limiter that was taken out.                         *)
Allow(s) ==
    /\ req[s] # None
    /\ LET l == req[s].limiter
           ok == Held(l) >= Cost
       IN  /\ limiter' = IF ok THEN [limiter EXCEPT ![l] = [held |-> Held(l) - Cost, age |-> 0]]
                               ELSE limiter
           /\ answer' = [to |-> req[s].from, ok |-> ok]
    /\ req' = [req EXCEPT ![s] = None]
    /\ UNCHANGED <<visitors, seen, ticker, due>>

\* Faulty variant: the table is emptied.
Everybody == {a \in Addresses : visitors[a] # None}

(* cleanupVisitors: everybody who was not seen for longer than Cleanup.    *)
Expired == {a \in Addresses : visitors[a] # None /\ seen[a] > Cleanup}

CleanUp ==
    /\ due
    /\ due' = FALSE
    /\ visitors' = [a \in Addresses |-> IF a \in Expired THEN None ELSE visitors[a]]
    /\ UNCHANGED <<seen, limiter, req, ticker, answer>>

\* Faulty variant: a timer, which fires once.
TickOnce ==
    /\ \A s \in Slots : req[s] # None => req[s].age < MaxPause
    /\ req' = [s \in Slots |-> IF req[s] = None THEN None
                               ELSE [req[s] EXCEPT !.age = @ + 1]]
    /\ seen' = [a \in Addresses |-> AtMost(Cleanup + 1, seen[a] + 1)]
    /\ limiter' = [l \in Limiters |-> [limiter[l] EXCEPT !.age = AtMost(Capacity, @ + 1)]]
    /\ ticker' = AtMost(Cleanup, ticker + 1)
    /\ due' = (due \/ (ticker < Cleanup /\ ticker' = Cleanup))
    /\ answer' = None
    /\ UNCHANGED visitors

(* Time passes; the ticker drops what its goroutine is too slow for.       *)
Tick ==
    /\ \A s \in Slots : req[s] # None => req[s].age < MaxPause
    /\ req' = [s \in Slots |-> IF req[s] = None THEN None
                               ELSE [req[s] EXCEPT !.age = @ + 1]]
    /\ seen' = [a \in Addresses |-> AtMost(Cleanup + 1, seen[a] + 1)]
    /\ limiter' = [l \in Limiters |-> [limiter[l] EXCEPT !.age = AtMost(Capacity, @ + 1)]]
    /\ ticker' = IF ticker < Cleanup THEN ticker + 1 ELSE 1
    /\ due' = (due \/ ticker' = Cleanup)
    /\ answer' = None
    /\ UNCHANGED visitors

Next ==
    \/ \E s \in Slots, a \in Addresses : Find(s, a) \/ Create(s, a)
    \/ \E s \in Slots : Allow(s)
    \/ CleanUp
    \/ Tick

Spec == Init /\ [][Next]_vars

(* Time passes, and the requests and the goroutine of the ticker run.  No  *)
(* client is obliged to send anything.                                     *)
FairSpec == /\ Spec
            /\ \A s \in Slots : WF_vars(Allow(s))
            /\ WF_vars(CleanUp)
            /\ WF_vars(Tick)

-----------------------------------------------------------------------------
(* All requests of an address that are under way spend from one limiter,   *)
(* the one in the table: none holds a limiter that was evicted meanwhile.  *)
HeldIsCurrent ==
    \A s \in Slots : req[s] # None => visitors[req[s].from] = req[s].limiter

(* The table with its evictions implements one bucket for ever: a client   *)
(* gains nothing by staying away until it is forgotten, nor by requests    *)
(* that overlap the eviction, and is refused only when it has no token.    *)
Level == [a \in Addresses |-> IF visitors[a] = None THEN Capacity ELSE Held(visitors[a])]
Bucket == INSTANCE TokenBucket WITH level <- Level
ImplementsBucket == Bucket!Spec

(* The table does not grow for ever: an address that sends no more is      *)
(* forgotten, however late the cleaning is and whoever else is active.     *)
Forgotten ==
    \A a \in Addresses :
        <>[](\A s \in Slots : req[s] = None \/ req[s].from # a) => <>[](visitors[a] = None)
=============================================================================
