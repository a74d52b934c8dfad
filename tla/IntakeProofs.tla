---------------------------- MODULE IntakeProofs ----------------------------
(***************************************************************************)
(* What the limiter, the surge and the fare keep for every capacity,       *)
(* window, distance and number of rides, drivers and threads.              *)
(*                                                                         *)
(* The argument for the burst: what a window remembers was admitted by the *)
(* counter of now or by the one before, each answer only once, and the     *)
(* answer 1 that opened the earlier counter is forgotten by then.          *)
(***************************************************************************)
EXTENDS Intake, FiniteSetTheorems, TLAPS

-----------------------------------------------------------------------------
(* Rounding. *)

LEMMA Division ==
  ASSUME NEW x \in Int, NEW y \in Nat, y > 0
  PROVE  /\ x \div y \in Int
         /\ y * (x \div y) <= x /\ x < y * (x \div y) + y
OBVIOUS

LEMMA HalfUpNearest ==
  ASSUME NEW a \in Int, NEW b \in Nat, b > 0
  PROVE  /\ HalfUp(a, b) \in Int
         /\ 2 * (b * HalfUp(a, b)) <= 2 * a + b
         /\ 2 * a + b < 2 * (b * HalfUp(a, b)) + 2 * b
<1> DEFINE q == (2 * a + b) \div (2 * b)
<1>1. /\ 2 * a + b \in Int /\ 2 * b \in Nat /\ 2 * b > 0
  OBVIOUS
<1>2. /\ q \in Int /\ (2 * b) * q <= 2 * a + b /\ 2 * a + b < (2 * b) * q + 2 * b
  BY <1>1, Division
<1>3. (2 * b) * q = 2 * (b * q)
  BY <1>2
<1> HIDE DEF q
<1>4. b * q \in Int
  BY <1>2
<1> QED BY <1>2, <1>3, <1>4 DEF HalfUp, q

-----------------------------------------------------------------------------
(* The formulas of pricing.py. *)

\* compute_surge_multiplier (pricing.py:37-42), for any number of rides and
\* drivers: the multiplier is within 1.00 and 3.00, it is the greatest with
\* nobody available, and between the two it is the ratio, to the nearest
\* hundredth, halves up.
THEOREM SurgeCorrect ==
  ASSUME NEW rides \in Nat, NEW drivers \in Nat
  PROVE  LET surge == compute_surge_multiplier(rides, drivers) IN
         /\ surge \in Surges
         /\ drivers = 0 => surge = SURGE_MAX_MULTIPLIER
         /\ drivers <= rides /\ rides <= 3 * drivers /\ drivers > 0 =>
              /\ 2 * (drivers * surge) <= 200 * rides + drivers
              /\ 200 * rides < 2 * (drivers * surge) + drivers
<1> DEFINE surge == compute_surge_multiplier(rides, drivers)
<1>1. CASE drivers = 0 \/ rides >= 3 * drivers
  <2>1. surge = 300
    BY <1>1 DEF compute_surge_multiplier, SURGE_MAX_MULTIPLIER
  <2>2. drivers > 0 /\ rides <= 3 * drivers => rides = 3 * drivers
    BY <1>1
  <2> HIDE DEF surge
  <2> QED BY <2>1, <2>2 DEF Surges, surge, SURGE_MAX_MULTIPLIER, SURGE_MIN_MULTIPLIER
<1>2. CASE drivers > 0 /\ rides <= drivers
  <2>1. surge = 100
    BY <1>2 DEF compute_surge_multiplier, SURGE_MIN_MULTIPLIER
  <2> HIDE DEF surge
  <2> QED BY <1>2, <2>1 DEF Surges, surge, SURGE_MAX_MULTIPLIER, SURGE_MIN_MULTIPLIER
<1>3. CASE drivers > 0 /\ rides > drivers /\ rides < 3 * drivers
  <2>1. surge = HalfUp(100 * rides, drivers)
    BY <1>3 DEF compute_surge_multiplier
  <2>2. /\ surge \in Int
        /\ 2 * (drivers * surge) <= 200 * rides + drivers
        /\ 200 * rides + drivers < 2 * (drivers * surge) + 2 * drivers
    <3> DEFINE hundred == 100 * rides
    <3>1. hundred \in Int /\ 2 * hundred = 200 * rides
      OBVIOUS
    <3>2. surge = HalfUp(hundred, drivers)
      BY <2>1
    <3> HIDE DEF hundred, surge
    <3> QED BY <1>3, <3>1, <3>2, HalfUpNearest
  <2> HIDE DEF surge
  <2>3. drivers * surge \in Int
    BY <2>2
  <2>4. ASSUME surge <= 99 PROVE FALSE
    <3>1. drivers * surge <= drivers * 99
      BY <1>3, <2>2, <2>4, SMT
    <3> QED BY <1>3, <2>2, <2>3, <3>1
  <2>5. ASSUME surge >= 301 PROVE FALSE
    <3>1. drivers * surge >= drivers * 301
      BY <1>3, <2>2, <2>5, SMT
    <3> QED BY <1>3, <2>2, <2>3, <3>1
  <2>6. surge \in Surges
    BY <2>2, <2>4, <2>5 DEF Surges, SURGE_MAX_MULTIPLIER, SURGE_MIN_MULTIPLIER
  <2> QED BY <1>3, <2>2, <2>3, <2>6 DEF surge
<1> QED BY <1>1, <1>2, <1>3

\* calculate_fare (pricing.py:49-51), for any distance: with a multiplier in
\* its range the fare is within the base fare and three times it.
THEOREM FareCorrect ==
  ASSUME NEW metres \in Nat, NEW surge \in Surges
  PROVE  FareInRange(metres, calculate_fare(metres, surge))
<1> DEFINE base == calculate_base_fare(metres)
           fare == calculate_fare(metres, surge)
<1>1. base \in Nat /\ surge \in Int /\ 100 <= surge /\ surge <= 300
  BY DEF calculate_base_fare, Surges, SURGE_MAX_MULTIPLIER, SURGE_MIN_MULTIPLIER
<1> HIDE DEF base
<1>2. base * surge \in Int /\ base * 100 <= base * surge /\ base * surge <= base * 300
  BY <1>1, SMT
<1>3. fare = HalfUp(base * surge, 2000)
  BY DEF calculate_fare, base
<1>4. /\ fare \in Int /\ 2 * (2000 * fare) <= 2 * (base * surge) + 2000
      /\ 2 * (base * surge) + 2000 < 2 * (2000 * fare) + 4000
  <2> DEFINE x == base * surge
  <2>1. x \in Int /\ fare = HalfUp(x, 2000)
    BY <1>2, <1>3
  <2> HIDE DEF x, fare
  <2>2. /\ fare \in Int /\ 2 * (2000 * fare) <= 2 * x + 2000
        /\ 2 * x + 2000 < 2 * (2000 * fare) + 2 * 2000
    BY <2>1, HalfUpNearest
  <2> QED BY <2>1, <2>2 DEF x
<1> HIDE DEF fare
<1>5. base - 10 <= 20 * fare /\ 20 * fare <= 3 * base + 10
  BY <1>1, <1>2, <1>4
<1>6. 20 * fare \in (base - 10)..(3 * base + 10)
  BY <1>1, <1>4, <1>5
<1> QED BY <1>6 DEF FareInRange, fare, base

-----------------------------------------------------------------------------
(* The inductive invariant. *)

LocalsOK(t) ==
  /\ pc[t] = "expire" => req[t] \in Attempt
  /\ pc[t] \in {"get", "set", "save"} => req[t] \in Request
  /\ pc[t] \in {"set", "save"} =>
       req[t].surge \in Surges /\ CellOf[req[t].from] = CellOf[req[t].place]

CacheOK == \A c \in Cells : cache[c] # NoSurge => CellOf[cache[c].from] = c

IInv ==
  /\ TypeOK
  /\ \A t \in Threads : LocalsOK(t)
  /\ CacheOK
  /\ CountersExpire

Bounds ==
  /\ Capacity \in Nat /\ Capacity > 0 /\ Window \in Nat /\ Window > 0
  /\ SurgeTtl \in Nat /\ SurgeTtl > 0 /\ MaxResults \in Nat
  /\ Distances \subseteq Nat /\ CellOf \in [Places -> Cells]

LEMMA BoundsHold == Bounds
BY IntakeAssumption DEF Bounds

LEMMA IInvInit == Init => IInv
<1> SUFFICES ASSUME Init PROVE IInv
  OBVIOUS
<1>1. TypeOK
  BY BoundsHold DEF Init, TypeOK, Bounds, Steps
<1> QED BY <1>1 DEF Init, IInv, LocalsOK, CacheOK, CountersExpire

\* The request of thread t moves, and the limiter is left alone.
LEMMA QuoteRest ==
  ASSUME IInv, NEW t \in Threads, NEW step \in Steps, step # "expire", pc[t] # "expire",
         pc' = [pc EXCEPT ![t] = step],
         \A s \in Threads : s # t => req'[s] = req[s],
         req' \in [Threads -> Attempt \cup Request \cup {Nothing}],
         LocalsOK(t)', UNCHANGED limiter,
         cache' \in [Cells -> Surge \cup {NoSurge}], CacheOK',
         pending' \in [RideIds -> Places \cup {None}]
  PROVE  IInv'
<1>1. pc'[t] = step /\ \A s \in Threads : s # t => pc'[s] = pc[s]
  BY DEF IInv, TypeOK
<1>2. TypeOK'
  BY DEF IInv, TypeOK, limiter
<1>3. \A s \in Threads : LocalsOK(s)'
  <2> SUFFICES ASSUME NEW s \in Threads, s # t PROVE LocalsOK(s)'
    OBVIOUS
  <2>1. LocalsOK(s) /\ pc'[s] = pc[s] /\ req'[s] = req[s]
    BY <1>1 DEF IInv
  <2> QED BY <2>1 DEF LocalsOK
<1>4. CountersExpire'
  <2> SUFFICES ASSUME NEW u \in Riders, counter[u] > 0, u \notin orphaned, ttl[u] = 0
               PROVE  \E s \in Threads : pc'[s] = "expire" /\ req'[s].rider = u
    BY DEF CountersExpire, limiter, IInv, TypeOK
  <2>1. PICK s \in Threads : pc[s] = "expire" /\ req[s].rider = u
    BY DEF IInv, CountersExpire
  <2>2. s # t
    BY <2>1
  <2> QED BY <1>1, <2>1, <2>2
<1> QED BY <1>2, <1>3, <1>4 DEF IInv

LEMMA PendingNearNat == \A place \in Places : PendingNear(place) \in Nat
<1> SUFFICES ASSUME NEW place \in Places PROVE PendingNear(place) \in Nat
  OBVIOUS
<1>1. IsFiniteSet({r \in RideIds : pending[r] \in Box[place]})
  BY FS_Subset, IntakeAssumption
<1> QED BY <1>1, FS_CardinalityType DEF PendingNear

LEMMA RefuseStep ==
  ASSUME IInv, NEW t \in Threads, Refuse(t)
  PROVE  IInv'
<1>1. /\ pc' = [pc EXCEPT ![t] = "idle"] /\ req' = [req EXCEPT ![t] = Nothing]
      /\ pc[t] # "expire" /\ UNCHANGED <<limiter, cache, pending>>
  BY DEF Refuse, Goto
<1>2. LocalsOK(t)'
  BY <1>1 DEF LocalsOK, IInv, TypeOK
<1>3. /\ req' \in [Threads -> Attempt \cup Request \cup {Nothing}]
      /\ \A s \in Threads : s # t => req'[s] = req[s]
  BY <1>1 DEF IInv, TypeOK
<1>4. CacheOK' /\ cache' \in [Cells -> Surge \cup {NoSurge}]
      /\ pending' \in [RideIds -> Places \cup {None}] /\ "idle" \in Steps
  BY <1>1 DEF IInv, TypeOK, CacheOK, Steps
<1> QED BY <1>1, <1>2, <1>3, <1>4, QuoteRest

LEMMA CountPendingStep ==
  ASSUME IInv, NEW t \in Threads, CountPending(t)
  PROVE  IInv'
<1>1. PICK place \in Places, metres \in Distances :
        req' = [req EXCEPT ![t] =
          [place |-> place, metres |-> metres, rides |-> PendingNear(place),
           surge |-> NotQuoted, from |-> place]]
  BY DEF CountPending
<1> DEFINE q == [place |-> place, metres |-> metres, rides |-> PendingNear(place),
                 surge |-> NotQuoted, from |-> place]
<1>2. q \in Request
  BY PendingNearNat DEF Request
<1> HIDE DEF q
<1>3. /\ pc' = [pc EXCEPT ![t] = "get"] /\ req' = [req EXCEPT ![t] = q]
      /\ pc[t] # "expire" /\ UNCHANGED <<limiter, cache, pending>>
  BY <1>1 DEF CountPending, q
<1>4. LocalsOK(t)'
  BY <1>2, <1>3 DEF LocalsOK, IInv, TypeOK
<1>5. /\ req' \in [Threads -> Attempt \cup Request \cup {Nothing}]
      /\ \A s \in Threads : s # t => req'[s] = req[s]
  BY <1>2, <1>3 DEF IInv, TypeOK
<1>6. CacheOK' /\ cache' \in [Cells -> Surge \cup {NoSurge}]
      /\ pending' \in [RideIds -> Places \cup {None}] /\ "get" \in Steps
  BY <1>3 DEF IInv, TypeOK, CacheOK, Steps
<1> QED BY <1>3, <1>4, <1>5, <1>6, QuoteRest

LEMMA GetSurgeStep ==
  ASSUME IInv, NEW t \in Threads, GetSurge(t)
  PROVE  IInv'
<1> DEFINE cached == cache[surge_grid_key(req[t].place)]
           hit == cached # NoSurge
<1>1. pc[t] = "get" /\ req[t] \in Request /\ UNCHANGED <<limiter, cache, pending>>
  BY DEF GetSurge, IInv, LocalsOK
<1>2. PICK drivers \in 0..MaxResults :
        /\ req' = [req EXCEPT ![t] =
             [req[t] EXCEPT
                !.surge = IF hit THEN cached.surge
                          ELSE compute_surge_multiplier(req[t].rides, drivers),
                !.from = IF hit THEN cached.from ELSE req[t].place,
                !.rides = 0]]
        /\ pc' = [pc EXCEPT ![t] = AfterGet(hit)]
  BY DEF GetSurge
<1>3. req[t].rides \in Nat /\ req[t].place \in Places /\ drivers \in Nat
  BY <1>1, BoundsHold DEF Request, Bounds
<1>4. PICK surge \in Surges, from \in Places :
        /\ surge = IF hit THEN cached.surge
                   ELSE compute_surge_multiplier(req[t].rides, drivers)
        /\ from = IF hit THEN cached.from ELSE req[t].place
        /\ CellOf[from] = CellOf[req[t].place]
  <2>1. CASE hit
    <3>1. CellOf[req[t].place] \in Cells
      BY <1>3, BoundsHold DEF Bounds
    <3>2. cached \in Surge /\ CellOf[cached.from] = CellOf[req[t].place]
      BY <2>1, <3>1 DEF IInv, TypeOK, CacheOK, surge_grid_key
    <3> QED BY <2>1, <3>2 DEF Surge
  <2>2. CASE ~hit
    <3>1. compute_surge_multiplier(req[t].rides, drivers) \in Surges
      BY <1>3, SurgeCorrect
    <3> QED BY <1>3, <2>2, <3>1
  <2> QED BY <2>1, <2>2
<1> DEFINE q == [req[t] EXCEPT !.surge = surge, !.from = from, !.rides = 0]
           step == AfterGet(hit)
<1>5. /\ q \in Request /\ q.surge = surge /\ q.from = from /\ q.place = req[t].place
  BY <1>1 DEF Request
<1>6. req' = [req EXCEPT ![t] = q] /\ pc' = [pc EXCEPT ![t] = step]
  BY <1>2, <1>4
<1> HIDE DEF q
<1>7. step \in {"set", "save"}
  BY DEF AfterGet
<1> HIDE DEF step
<1>8. LocalsOK(t)'
  BY <1>4, <1>5, <1>6, <1>7 DEF LocalsOK, IInv, TypeOK
<1>9. /\ req' \in [Threads -> Attempt \cup Request \cup {Nothing}]
      /\ \A s \in Threads : s # t => req'[s] = req[s]
  BY <1>5, <1>6 DEF IInv, TypeOK
<1>10. CacheOK' /\ cache' \in [Cells -> Surge \cup {NoSurge}]
       /\ pending' \in [RideIds -> Places \cup {None}] /\ step \in Steps
  BY <1>1, <1>7 DEF IInv, TypeOK, CacheOK, Steps
<1> QED BY <1>1, <1>6, <1>7, <1>8, <1>9, <1>10, QuoteRest

LEMMA SetSurgeStep ==
  ASSUME IInv, NEW t \in Threads, SetSurge(t)
  PROVE  IInv'
<1>1. /\ pc[t] = "set" /\ pc' = [pc EXCEPT ![t] = "save"] /\ req' = req
      /\ UNCHANGED <<limiter, pending>>
  BY DEF SetSurge, Goto
<1>2. /\ req[t] \in Request /\ req[t].surge \in Surges
      /\ CellOf[req[t].from] = CellOf[req[t].place]
  BY <1>1 DEF IInv, LocalsOK
<1> DEFINE c == CellOf[req[t].place]
           entry == [surge |-> req[t].surge, ttl |-> SurgeTtl, from |-> req[t].from]
<1>3. /\ req[t].from \in Places /\ req[t].place \in Places /\ c \in Cells
      /\ cache' = [cache EXCEPT ![c] = entry]
  BY <1>2, BoundsHold DEF Request, SetSurge, surge_grid_key, Bounds
<1>4. entry \in Surge /\ entry.from = req[t].from
  BY <1>2, <1>3, BoundsHold DEF Surge, Bounds
<1> HIDE DEF entry
<1>5. cache' \in [Cells -> Surge \cup {NoSurge}]
  BY <1>3, <1>4 DEF IInv, TypeOK
<1>6. CacheOK'
  BY <1>2, <1>3, <1>4 DEF IInv, TypeOK, CacheOK
<1>7. LocalsOK(t)'
  BY <1>1, <1>2 DEF LocalsOK, IInv, TypeOK
<1>8. /\ req' \in [Threads -> Attempt \cup Request \cup {Nothing}]
      /\ pending' \in [RideIds -> Places \cup {None}] /\ "save" \in Steps
  BY <1>1 DEF IInv, TypeOK, Steps
<1> QED BY <1>1, <1>5, <1>6, <1>7, <1>8, QuoteRest

LEMMA SaveStep ==
  ASSUME IInv, NEW t \in Threads, Save(t)
  PROVE  IInv'
<1>1. /\ pc[t] = "save" /\ pc' = [pc EXCEPT ![t] = "idle"] /\ req' = [req EXCEPT ![t] = Nothing]
      /\ UNCHANGED <<limiter, cache>>
  BY DEF Save, Goto
<1>2. req[t].place \in Places
  BY <1>1 DEF IInv, LocalsOK, Request
<1>3. PICK r \in Free : pending' = [pending EXCEPT ![r] = req[t].place]
  BY DEF Save
<1>4. pending' \in [RideIds -> Places \cup {None}]
  BY <1>2, <1>3 DEF IInv, TypeOK, Free
<1>5. LocalsOK(t)'
  BY <1>1 DEF LocalsOK, IInv, TypeOK
<1>6. /\ req' \in [Threads -> Attempt \cup Request \cup {Nothing}]
      /\ \A s \in Threads : s # t => req'[s] = req[s]
  BY <1>1 DEF IInv, TypeOK
<1>7. CacheOK' /\ cache' \in [Cells -> Surge \cup {NoSurge}] /\ "idle" \in Steps
  BY <1>1 DEF IInv, TypeOK, CacheOK, Steps
<1> QED BY <1>1, <1>4, <1>5, <1>6, <1>7, QuoteRest

\* An INCR that finds no counter goes on to the EXPIRE.
LEMMA IncrStep ==
  ASSUME IInv, NEW t \in Threads, Incr(t)
  PROVE  IInv'
<1>1. PICK u \in Riders :
        LET count == Incremented(counter[u])
            step == IF SetsExpiry(count) THEN "expire" ELSE AfterAllow(count) IN
        /\ pc[t] = "idle"
        /\ counter' = [counter EXCEPT ![u] = count]
        /\ recent' = IF Allows(count)
                     THEN [recent EXCEPT ![u] = @ \cup {[age |-> 0, count |-> count]}]
                     ELSE recent
        /\ pc' = [pc EXCEPT ![t] = step]
        /\ req' = IF step = "expire" THEN [req EXCEPT ![t] = [rider |-> u, count |-> count]]
                                     ELSE req
  BY DEF Incr
<1> DEFINE count == Incremented(counter[u])
           step == IF SetsExpiry(count) THEN "expire" ELSE AfterAllow(count)
           q == [rider |-> u, count |-> count]
<1>2. UNCHANGED <<ttl, orphaned, cache, pending>>
  BY DEF Incr
<1>3. counter[u] \in 0..Capacity + 1
  BY DEF IInv, TypeOK
<1>4. count \in 0..Capacity + 1 /\ count \in Nat /\ (counter[u] = 0 => count = 1) /\ count > 0
  BY <1>3, BoundsHold DEF Incremented, Bounds
<1>5. step \in {"expire", "guards", "idle"} /\ (count = 1 => step = "expire")
  BY DEF SetsExpiry, AfterAllow
<1>6. q \in Attempt /\ q.rider = u
  BY <1>4 DEF Attempt
<1>7. /\ pc[t] = "idle" /\ counter' = [counter EXCEPT ![u] = count]
      /\ recent' = (IF Allows(count)
                    THEN [recent EXCEPT ![u] = @ \cup {[age |-> 0, count |-> count]}]
                    ELSE recent)
      /\ pc' = [pc EXCEPT ![t] = step]
      /\ req' = (IF step = "expire" THEN [req EXCEPT ![t] = q] ELSE req)
  BY <1>1
<1> HIDE DEF count, step, q
<1>8. recent' \in [Riders -> SUBSET Admitted]
  <2>1. [age |-> 0, count |-> count] \in Admitted
    BY <1>4, BoundsHold DEF Admitted, Bounds
  <2> QED BY <1>7, <2>1 DEF IInv, TypeOK
<1>9. /\ pc' \in [Threads -> Steps] /\ counter' \in [Riders -> 0..Capacity + 1]
      /\ req' \in [Threads -> Attempt \cup Request \cup {Nothing}]
  BY <1>4, <1>5, <1>6, <1>7 DEF IInv, TypeOK, Steps
<1>10. TypeOK'
  BY <1>2, <1>8, <1>9 DEF IInv, TypeOK
<1>11. ASSUME NEW s \in Threads PROVE LocalsOK(s)'
  <2>1. CASE s = t
    BY <1>5, <1>6, <1>7, <2>1 DEF LocalsOK, IInv, TypeOK
  <2>2. CASE s # t
    <3>1. pc'[s] = pc[s] /\ req'[s] = req[s]
      BY <1>7, <2>2 DEF IInv, TypeOK
    <3> QED BY <3>1 DEF LocalsOK, IInv
  <2> QED BY <2>1, <2>2
<1>12. CountersExpire'
  <2> SUFFICES ASSUME NEW v \in Riders, counter'[v] > 0, v \notin orphaned, ~(ttl[v] > 0)
               PROVE  \E s \in Threads : pc'[s] = "expire" /\ req'[s].rider = v
    BY <1>2 DEF CountersExpire
  <2>1. CASE counter[v] > 0
    <3>1. PICK s \in Threads : pc[s] = "expire" /\ req[s].rider = v
      BY <2>1 DEF IInv, CountersExpire
    <3>2. s # t
      BY <1>7, <3>1
    <3>3. pc'[s] = pc[s] /\ req'[s] = req[s]
      BY <1>7, <3>2 DEF IInv, TypeOK
    <3> QED BY <3>1, <3>3
  <2>2. CASE ~(counter[v] > 0)
    <3>1. v = u /\ counter[u] = 0
      BY <1>3, <1>7, <2>2, BoundsHold DEF IInv, TypeOK, Bounds
    <3>2. step = "expire"
      BY <1>4, <1>5, <3>1
    <3>3. pc'[t] = "expire" /\ req'[t] = q
      BY <1>7, <3>2 DEF IInv, TypeOK
    <3> QED BY <1>6, <3>1, <3>3
  <2> QED BY <2>1, <2>2
<1>13. CacheOK'
  BY <1>2 DEF IInv, CacheOK
<1> QED BY <1>10, <1>11, <1>12, <1>13 DEF IInv

\* What the requests that are not thread t's know, and what their counters keep.
LEMMA OthersKeep ==
  ASSUME IInv, NEW t \in Threads, NEW step, pc' = [pc EXCEPT ![t] = step],
         req' = [req EXCEPT ![t] = Nothing], step \notin {"expire", "get", "set", "save"}
  PROVE  /\ \A s \in Threads : LocalsOK(s)'
         /\ \A s \in Threads : s # t => pc'[s] = pc[s] /\ req'[s] = req[s]
<1>1. \A s \in Threads : s # t => pc'[s] = pc[s] /\ req'[s] = req[s]
  BY DEF IInv, TypeOK
<1>2. pc'[t] = step
  BY DEF IInv, TypeOK
<1> QED BY <1>1, <1>2 DEF IInv, LocalsOK

LEMMA ExpireStep ==
  ASSUME IInv, NEW t \in Threads, Expire(t)
  PROVE  IInv'
<1> DEFINE u == req[t].rider
           step == AfterAllow(req[t].count)
<1>1. /\ pc[t] = "expire" /\ req[t] \in Attempt /\ u \in Riders
      /\ ttl' = IF counter[u] > 0 THEN [ttl EXCEPT ![u] = Window] ELSE ttl
      /\ pc' = [pc EXCEPT ![t] = step] /\ req' = [req EXCEPT ![t] = Nothing]
      /\ UNCHANGED <<counter, recent, orphaned, cache, pending>>
  BY DEF Expire, IInv, LocalsOK, Attempt
<1>2. step \in {"guards", "idle"}
  BY DEF AfterAllow
<1> HIDE DEF u, step
<1>3. ttl' \in [Riders -> 0..Window]
  BY <1>1, BoundsHold DEF IInv, TypeOK, Bounds
<1>4. TypeOK'
  BY <1>1, <1>2, <1>3 DEF IInv, TypeOK, Steps
<1>5. /\ \A s \in Threads : LocalsOK(s)'
      /\ \A s \in Threads : s # t => pc'[s] = pc[s] /\ req'[s] = req[s]
  BY <1>1, <1>2, OthersKeep
<1>6. CountersExpire'
  <2> SUFFICES ASSUME NEW v \in Riders, counter[v] > 0, v \notin orphaned, ~(ttl'[v] > 0)
               PROVE  \E s \in Threads : pc'[s] = "expire" /\ req'[s].rider = v
    BY <1>1 DEF CountersExpire
  <2>1. v # u
    BY <1>1, BoundsHold DEF IInv, TypeOK, Bounds
  <2>2. ttl'[v] = ttl[v]
    BY <1>1, <2>1 DEF IInv, TypeOK
  <2>3. PICK s \in Threads : pc[s] = "expire" /\ req[s].rider = v
    BY <2>2 DEF IInv, CountersExpire
  <2>4. s # t
    BY <2>1, <2>3 DEF u
  <2> QED BY <1>5, <2>3, <2>4
<1>7. CacheOK'
  BY <1>1 DEF IInv, CacheOK
<1> QED BY <1>4, <1>5, <1>6, <1>7 DEF IInv

LEMMA FailStep ==
  ASSUME IInv, NEW t \in Threads, Fail(t)
  PROVE  IInv'
<1>1. /\ pc' = [pc EXCEPT ![t] = "idle"] /\ req' = [req EXCEPT ![t] = Nothing]
      /\ orphaned' = IF pc[t] = "expire" THEN orphaned \cup {req[t].rider} ELSE orphaned
      /\ UNCHANGED <<counter, ttl, recent, cache, pending>>
  BY DEF Fail, Goto
<1>2. pc[t] = "expire" => req[t].rider \in Riders
  BY DEF IInv, LocalsOK, Attempt
<1>3. TypeOK'
  BY <1>1, <1>2 DEF IInv, TypeOK, Steps
<1>4. /\ \A s \in Threads : LocalsOK(s)'
      /\ \A s \in Threads : s # t => pc'[s] = pc[s] /\ req'[s] = req[s]
  BY <1>1, OthersKeep
<1>5. CountersExpire'
  <2> SUFFICES ASSUME NEW v \in Riders, counter[v] > 0, v \notin orphaned', ~(ttl[v] > 0)
               PROVE  \E s \in Threads : pc'[s] = "expire" /\ req'[s].rider = v
    BY <1>1 DEF CountersExpire
  <2>1. PICK s \in Threads : pc[s] = "expire" /\ req[s].rider = v
    BY <1>1 DEF IInv, CountersExpire
  <2>2. s # t
    BY <1>1, <2>1
  <2> QED BY <1>4, <2>1, <2>2
<1>6. CacheOK'
  BY <1>1 DEF IInv, CacheOK
<1> QED BY <1>3, <1>4, <1>5, <1>6 DEF IInv

LEMMA LeaveStep ==
  ASSUME IInv, NEW r \in RideIds, Leave(r)
  PROVE  IInv'
BY DEF Leave, IInv, TypeOK, LocalsOK, CacheOK, CountersExpire, limiter

LEMMA TickStep ==
  ASSUME IInv, Tick
  PROVE  IInv'
<1>1. UNCHANGED <<orphaned, pending, pc, req>>
  BY DEF Tick
<1>2. counter' \in [Riders -> 0..Capacity + 1]
  BY BoundsHold DEF Tick, IInv, TypeOK, Bounds
<1>3. ttl' \in [Riders -> 0..Window]
  BY BoundsHold DEF Tick, IInv, TypeOK, Bounds
<1>4. recent' \in [Riders -> SUBSET Admitted]
  <2> SUFFICES ASSUME NEW u \in Riders, NEW x \in recent[u], x.age < Window - 1
               PROVE  [age |-> x.age + 1, count |-> x.count] \in Admitted
    BY DEF Tick
  <2>1. x \in Admitted
    BY DEF IInv, TypeOK
  <2> QED BY <2>1, BoundsHold DEF Admitted, Bounds
<1>5. ASSUME NEW c \in Cells
      PROVE  /\ cache'[c] \in Surge \cup {NoSurge}
             /\ cache'[c] # NoSurge => cache[c] # NoSurge /\ cache'[c].from = cache[c].from
  <2>1. cache[c] \in Surge \cup {NoSurge}
    BY DEF IInv, TypeOK
  <2>2. cache'[c] = IF cache[c].ttl <= 1 THEN NoSurge ELSE [cache[c] EXCEPT !.ttl = @ - 1]
    BY DEF Tick
  <2>3. CASE cache[c].ttl <= 1
    BY <2>2, <2>3
  <2>4. CASE ~(cache[c].ttl <= 1)
    <3>1. cache[c] \in Surge
      BY <2>1, <2>4 DEF NoSurge
    <3>2. cache[c].ttl \in 1..SurgeTtl /\ SurgeTtl \in Nat
      BY <3>1, BoundsHold DEF Surge, Bounds
    <3>3. cache[c].ttl - 1 \in 1..SurgeTtl
      BY <2>4, <3>2
    <3>4. [cache[c] EXCEPT !.ttl = cache[c].ttl - 1] \in Surge
      BY <3>1, <3>3 DEF Surge
    <3>5. [cache[c] EXCEPT !.ttl = cache[c].ttl - 1].from = cache[c].from
      BY <3>1 DEF Surge
    <3>6. cache[c] # NoSurge
      BY <2>4 DEF NoSurge
    <3> QED BY <2>2, <2>4, <3>4, <3>5, <3>6
  <2> QED BY <2>3, <2>4
<1>6. cache' \in [Cells -> Surge \cup {NoSurge}]
  BY <1>5 DEF Tick
<1>7. TypeOK'
  BY <1>1, <1>2, <1>3, <1>4, <1>6 DEF IInv, TypeOK
<1>8. CacheOK'
  BY <1>5 DEF IInv, CacheOK
<1>9. \A t \in Threads : LocalsOK(t)'
  BY <1>1 DEF IInv, LocalsOK
<1>10. CountersExpire'
  <2> SUFFICES ASSUME NEW u \in Riders, counter'[u] > 0, u \notin orphaned, ~(ttl'[u] > 0)
               PROVE  \E t \in Threads : pc[t] = "expire" /\ req[t].rider = u
    BY <1>1 DEF CountersExpire
  <2>1. ttl[u] \in Nat /\ counter'[u] = (IF ttl[u] = 1 THEN 0 ELSE counter[u])
        /\ ttl'[u] = (IF ttl[u] > 0 THEN ttl[u] - 1 ELSE 0)
    BY BoundsHold DEF Tick, IInv, TypeOK, Bounds
  <2>2. counter[u] > 0 /\ ~(ttl[u] > 0)
    BY <2>1
  <2> QED BY <2>2 DEF IInv, CountersExpire
<1> QED BY <1>7, <1>8, <1>9, <1>10 DEF IInv

LEMMA IInvStep == IInv /\ [Next]_vars => IInv'
<1> SUFFICES ASSUME IInv, [Next]_vars
             PROVE  IInv'
  OBVIOUS
<1>1. CASE UNCHANGED vars
  BY <1>1 DEF vars, limiter, IInv, TypeOK, LocalsOK, CacheOK, CountersExpire
<1>2. ASSUME NEW t \in Threads, Incr(t) PROVE IInv'
  BY <1>2, IncrStep
<1>3. ASSUME NEW t \in Threads, Step(t) PROVE IInv'
  BY <1>3, ExpireStep, RefuseStep, CountPendingStep, GetSurgeStep, SetSurgeStep, SaveStep DEF Step
<1>4. ASSUME NEW t \in Threads, Fail(t) PROVE IInv'
  BY <1>4, FailStep
<1>5. ASSUME NEW r \in RideIds, Leave(r) PROVE IInv'
  BY <1>5, LeaveStep
<1>6. CASE Tick
  BY <1>6, TickStep
<1> QED BY <1>1, <1>2, <1>3, <1>4, <1>5, <1>6 DEF Next

-----------------------------------------------------------------------------
(* Two windows of the limiter. *)

\* The counter was opened `first` ticks ago, a whole window ago when `first` is
\* Window, and there is none when it is -1.  What has been admitted since has
\* counts of its own, and what was admitted under the counter before, without
\* the request that opened that one, has too.
Opened(u, first) ==
  /\ first = -1 <=> counter[u] = 0
  /\ counter[u] = 0 => ttl[u] = 0 /\ \A x \in recent[u] : x.age > 0
  /\ ttl[u] > 0 => first + ttl[u] >= Window
  /\ \A x \in recent[u] :
       /\ x.count \in 1..Capacity
       /\ IF x.age <= first THEN x.count <= counter[u] /\ (x.count = 1 => x.age = first)
                            ELSE x.count >= 2
  /\ \A x, y \in recent[u] : x.count = y.count /\ (x.age <= first <=> y.age <= first) => x = y

Windows == \A u \in Riders : \E first \in (-1)..Window : Opened(u, first)

\* Only the request that has opened a counter is about to set its expiry.
Expiring ==
  \A s, t \in Threads : pc[s] = "expire" /\ pc[t] = "expire" /\ req[s].rider = req[t].rider =>
    s = t /\ counter[req[t].rider] > 0 /\ ttl[req[t].rider] = 0

LEMMA WindowsInit == Init => Windows /\ Expiring
<1> SUFFICES ASSUME Init PROVE Windows /\ Expiring
  OBVIOUS
<1>1. \A u \in Riders : Opened(u, -1)
  BY BoundsHold DEF Init, Opened, Bounds
<1>2. -1 \in (-1)..Window
  BY BoundsHold DEF Bounds
<1> QED BY <1>1, <1>2 DEF Windows, Init, Expiring

\* Different counts, so no more than there are counts.
LEMMA DistinctCounts ==
  ASSUME NEW S, NEW low \in {1, 2}, \A x \in S : x.count \in low..Capacity,
         \A x, y \in S : x.count = y.count => x = y
  PROVE  IsFiniteSet(S) /\ Cardinality(S) \in Nat /\ Cardinality(S) <= Capacity - low + 1
<1> DEFINE f == [x \in S |-> x.count]
<1>1. f \in Injection(S, low..Capacity)
  BY DEF Injection, IsInjective
<1> HIDE DEF f
<1>2. low \in Int /\ Capacity \in Int /\ Capacity >= 1
  BY BoundsHold DEF Bounds
<1>3. /\ IsFiniteSet(low..Capacity)
      /\ Cardinality(low..Capacity) = IF low > Capacity THEN 0 ELSE Capacity - low + 1
  BY <1>2, FS_Interval
<1>4. IsFiniteSet(S) /\ Cardinality(S) <= Cardinality(low..Capacity)
  BY <1>1, <1>3, FS_Injection
<1>5. Cardinality(S) \in Nat
  BY <1>4, FS_CardinalityType
<1>6. Cardinality(low..Capacity) <= Capacity - low + 1
  BY <1>2, <1>3
<1>7. Cardinality(low..Capacity) \in Nat
  BY <1>3, FS_CardinalityType
<1> QED BY <1>2, <1>4, <1>5, <1>6, <1>7

\* A whole capacity in one window, and one less in what is left of the other.
LEMMA WindowsBound == ASSUME Windows PROVE BoundedBurst
<1> SUFFICES ASSUME NEW u \in Riders PROVE Cardinality(recent[u]) < 2 * Capacity
  BY DEF BoundedBurst
<1>1. PICK first \in (-1)..Window : Opened(u, first)
  BY DEF Windows
<1> DEFINE R == recent[u]
           New == {x \in R : x.age <= first}
           Old == {x \in R : ~(x.age <= first)}
<1>2. /\ \A x \in New : x.count \in 1..Capacity
      /\ \A x, y \in New : x.count = y.count => x = y
  BY <1>1 DEF Opened
<1>3. \A x \in Old : x.count \in 2..Capacity
  BY <1>1 DEF Opened
<1>4. \A x, y \in Old : x.count = y.count => x = y
  BY <1>1 DEF Opened
<1>5. R = New \cup Old /\ New \cap Old = {}
  OBVIOUS
<1> HIDE DEF R, New, Old
<1>6. IsFiniteSet(New) /\ Cardinality(New) \in Nat /\ Cardinality(New) <= Capacity - 1 + 1
  BY <1>2, DistinctCounts
<1>7. IsFiniteSet(Old) /\ Cardinality(Old) \in Nat /\ Cardinality(Old) <= Capacity - 2 + 1
  BY <1>3, <1>4, DistinctCounts
<1>8. Cardinality(R) = Cardinality(New) + Cardinality(Old) - Cardinality(New \cap Old)
  BY <1>5, <1>6, <1>7, FS_Union
<1>9. Cardinality(New \cap Old) = 0
  BY <1>5, FS_EmptySet
<1>10. Capacity \in Nat
  BY BoundsHold DEF Bounds
<1>11. Cardinality(R) < 2 * Capacity
  BY <1>6, <1>7, <1>8, <1>9, <1>10
<1> QED BY <1>11 DEF R

\* A step after which the limiter of every rider is as before, and no request is
\* newly about to set an expiry.
LEMMA LimiterStays ==
  ASSUME Windows, Expiring, UNCHANGED <<counter, ttl, recent>>,
         \A s \in Threads : pc'[s] = "expire" => pc[s] = "expire" /\ req'[s] = req[s]
  PROVE  Windows' /\ Expiring'
BY DEF Windows, Opened, Expiring

LEMMA IncrWindows ==
  ASSUME IInv, Windows, Expiring, NEW t \in Threads, Incr(t)
  PROVE  Windows' /\ Expiring'
<1>1. PICK u \in Riders :
        LET count == Incremented(counter[u])
            step == IF SetsExpiry(count) THEN "expire" ELSE AfterAllow(count) IN
        /\ pc[t] = "idle"
        /\ counter' = [counter EXCEPT ![u] = count]
        /\ recent' = IF Allows(count)
                     THEN [recent EXCEPT ![u] = @ \cup {[age |-> 0, count |-> count]}]
                     ELSE recent
        /\ pc' = [pc EXCEPT ![t] = step]
        /\ req' = IF step = "expire" THEN [req EXCEPT ![t] = [rider |-> u, count |-> count]]
                                     ELSE req
        /\ ttl' = ttl
  BY DEF Incr
<1>2. PICK count : count = Incremented(counter[u])
  OBVIOUS
<1>3. PICK step : step = IF SetsExpiry(count) THEN "expire" ELSE AfterAllow(count)
  OBVIOUS
<1>4. /\ pc[t] = "idle" /\ ttl' = ttl /\ counter' = [counter EXCEPT ![u] = count]
      /\ recent' = (IF Allows(count)
                    THEN [recent EXCEPT ![u] = @ \cup {[age |-> 0, count |-> count]}]
                    ELSE recent)
      /\ pc' = [pc EXCEPT ![t] = step]
      /\ req' = (IF step = "expire" THEN [req EXCEPT ![t] = [rider |-> u, count |-> count]]
                                    ELSE req)
  BY <1>1, <1>2, <1>3
<1>5. counter[u] \in Nat /\ counter[u] <= Capacity + 1 /\ Capacity \in Nat /\ Capacity >= 1
      /\ Window \in Nat /\ Window >= 1
  BY BoundsHold DEF IInv, TypeOK, Bounds
<1>6. /\ count \in Nat /\ count > 0 /\ (count = 1 <=> counter[u] = 0)
      /\ counter[u] <= count /\ (count <= Capacity => count = counter[u] + 1)
  BY <1>2, <1>5 DEF Incremented
<1>7. (step = "expire") <=> (count = 1)
  BY <1>3 DEF SetsExpiry, AfterAllow
<1>8. /\ counter'[u] = count /\ \A v \in Riders : v # u => counter'[v] = counter[v]
      /\ \A v \in Riders : v # u => recent'[v] = recent[v]
      /\ pc'[t] = step /\ \A s \in Threads : s # t => pc'[s] = pc[s] /\ req'[s] = req[s]
  BY <1>4 DEF IInv, TypeOK
<1>9. recent'[u] = IF count <= Capacity THEN recent[u] \cup {[age |-> 0, count |-> count]}
                                        ELSE recent[u]
  BY <1>4 DEF IInv, TypeOK, Allows
<1>10. \A x \in recent[u] : x.age \in 0..Window - 1
  BY DEF IInv, TypeOK, Admitted
<1>11. PICK first \in (-1)..Window : Opened(u, first)
  BY DEF Windows
<1>12. \E g \in (-1)..Window : Opened(u, g)'
  <2> DEFINE new == [age |-> 0, count |-> count]
  <2>1. new.age = 0 /\ new.count = count
    OBVIOUS
  <2> HIDE DEF new
  <2>2. CASE counter[u] = 0
    <3>1. recent'[u] = recent[u] \cup {new} /\ count = 1 /\ ttl'[u] = 0
      BY <1>4, <1>5, <1>6, <1>9, <1>11, <2>2 DEF Opened, new
    <3>2. first = -1 /\ \A x \in recent[u] : x.age > 0
      BY <1>11, <2>2 DEF Opened
    <3>3. \A x \in recent[u] : x.count \in 2..Capacity
      BY <1>11, <3>2 DEF Opened
    <3>4. \A x, y \in recent[u] : x.count = y.count => x = y
      BY <1>10, <1>11, <3>2 DEF Opened
    <3>5. \A x \in recent'[u] :
            /\ x.count \in 1..Capacity
            /\ IF x.age <= 0 THEN x.count <= 1 /\ (x.count = 1 => x.age = 0) ELSE x.count >= 2
      BY <1>5, <1>10, <2>1, <3>1, <3>2, <3>3
    <3>6. \A x, y \in recent'[u] : x.count = y.count /\ (x.age <= 0 <=> y.age <= 0) => x = y
      BY <2>1, <3>1, <3>3, <3>4
    <3>7. Opened(u, 0)'
      BY <1>6, <1>8, <3>1, <3>5, <3>6 DEF Opened
    <3> QED BY <1>5, <3>7
  <2>3. CASE counter[u] # 0
    <3>1. first \in 0..Window /\ count > 1
      BY <1>5, <1>6, <1>11, <2>3 DEF Opened
    <3>2. \A x \in recent'[u] :
            /\ x.count \in 1..Capacity
            /\ IF x.age <= first THEN x.count <= count /\ (x.count = 1 => x.age = first)
                                 ELSE x.count >= 2
      <4>1. \A x \in recent[u] :
              /\ x.count \in 1..Capacity
              /\ IF x.age <= first THEN x.count <= count /\ (x.count = 1 => x.age = first)
                                   ELSE x.count >= 2
        BY <1>5, <1>6, <1>11 DEF Opened
      <4>2. count <= Capacity => new.count \in 1..Capacity
        BY <1>5, <1>6, <2>1
      <4>3. new.age <= first /\ new.count <= count /\ new.count # 1
        BY <1>6, <2>1, <3>1
      <4> QED BY <1>9, <4>1, <4>2, <4>3 DEF new
    <3>3. \A x, y \in recent'[u] :
            x.count = y.count /\ (x.age <= first <=> y.age <= first) => x = y
      <4>1. CASE count <= Capacity
        <5>1. recent'[u] = recent[u] \cup {new} /\ count = counter[u] + 1
          BY <1>6, <1>9, <4>1 DEF new
        <5>2. \A x \in recent[u] : x.age <= first => x.count # new.count
          BY <1>5, <1>11, <2>1, <5>1 DEF Opened
        <5>3. new.age <= first
          BY <2>1, <3>1
        <5>4. \A x, y \in recent[u] :
                x.count = y.count /\ (x.age <= first <=> y.age <= first) => x = y
          BY <1>11 DEF Opened
        <5> QED BY <5>1, <5>2, <5>3, <5>4
      <4>2. CASE ~(count <= Capacity)
        BY <1>9, <1>11, <4>2 DEF Opened
      <4> QED BY <4>1, <4>2
    <3>4. first # -1 /\ count # 0 /\ (ttl[u] > 0 => first + ttl[u] >= Window)
      BY <1>6, <1>11, <3>1 DEF Opened
    <3>5. Opened(u, first)'
      BY <1>4, <1>8, <3>2, <3>3, <3>4 DEF Opened
    <3> QED BY <3>5
  <2> QED BY <2>2, <2>3
<1>13. Windows'
  <2> SUFFICES ASSUME NEW v \in Riders, v # u PROVE \E g \in (-1)..Window : Opened(v, g)'
    BY <1>12 DEF Windows
  <2>1. counter'[v] = counter[v] /\ recent'[v] = recent[v] /\ ttl'[v] = ttl[v]
    BY <1>4, <1>8
  <2> QED BY <2>1 DEF Windows, Opened
<1>14. Expiring'
  <2> SUFFICES ASSUME NEW r \in Threads, NEW s \in Threads, pc'[r] = "expire", pc'[s] = "expire",
                      req'[r].rider = req'[s].rider
               PROVE  r = s /\ counter'[req'[s].rider] > 0 /\ ttl'[req'[s].rider] = 0
    BY DEF Expiring
  <2>1. pc'[t] = "expire" => req'[t].rider = u /\ counter[u] = 0
    BY <1>4, <1>6, <1>7, <1>8 DEF IInv, TypeOK
  <2>2. \A x \in Threads : x # t /\ pc'[x] = "expire" =>
          /\ pc[x] = "expire" /\ req'[x] = req[x] /\ req[x].rider \in Riders
          /\ counter[req[x].rider] > 0 /\ ttl[req[x].rider] = 0
    BY <1>8 DEF Expiring, IInv, LocalsOK, Attempt
  <2>3. CASE r = t
    <3>1. s = t
      BY <1>5, <2>1, <2>2, <2>3
    <3>2. ttl[u] = 0
      BY <1>11, <2>1, <2>3 DEF Opened
    <3> QED BY <1>4, <1>6, <1>8, <2>1, <2>3, <3>1, <3>2
  <2>4. CASE r # t
    <3>1. s # t
      BY <1>5, <2>1, <2>2, <2>4
    <3>2. r = s
      BY <2>2, <2>4, <3>1 DEF Expiring
    <3>3. req[s].rider # u => counter'[req[s].rider] = counter[req[s].rider]
      BY <1>8, <2>2, <3>1
    <3> QED BY <1>4, <1>6, <1>8, <2>2, <3>1, <3>2, <3>3
  <2> QED BY <2>3, <2>4
<1> QED BY <1>13, <1>14

LEMMA ExpireWindows ==
  ASSUME IInv, Windows, Expiring, NEW t \in Threads, Expire(t)
  PROVE  Windows' /\ Expiring'
<1>1. PICK u \in Riders : u = req[t].rider
  BY DEF Expire, IInv, LocalsOK, Attempt
<1>2. PICK step : step = AfterAllow(req[t].count)
  OBVIOUS
<1>3. /\ pc[t] = "expire" /\ ttl' = IF counter[u] > 0 THEN [ttl EXCEPT ![u] = Window] ELSE ttl
      /\ pc' = [pc EXCEPT ![t] = step] /\ req' = [req EXCEPT ![t] = Nothing]
      /\ UNCHANGED <<counter, recent>> /\ step # "expire"
  BY <1>1, <1>2 DEF Expire, AfterAllow
<1>4. counter[u] > 0
  BY <1>1, <1>3 DEF Expiring
<1>5. ttl'[u] = Window /\ \A v \in Riders : v # u => ttl'[v] = ttl[v]
  BY <1>3, <1>4 DEF IInv, TypeOK
<1>6. /\ pc'[t] # "expire"
      /\ \A s \in Threads : s # t => pc'[s] = pc[s] /\ req'[s] = req[s]
  BY <1>3 DEF IInv, TypeOK
<1>7. Window \in Nat /\ counter[u] \in Nat
  BY BoundsHold DEF Bounds, IInv, TypeOK
<1>8. Windows'
  <2> SUFFICES ASSUME NEW v \in Riders PROVE \E g \in (-1)..Window : Opened(v, g)'
    BY DEF Windows
  <2>1. PICK g \in (-1)..Window : Opened(v, g)
    BY DEF Windows
  <2>2. counter'[v] = counter[v] /\ recent'[v] = recent[v]
    BY <1>3
  <2>3. CASE v # u
    BY <1>5, <2>1, <2>2, <2>3 DEF Opened
  <2>4. CASE v = u
    <3>1. counter[v] # 0 /\ g # -1
      BY <1>4, <1>7, <2>1, <2>4 DEF Opened
    <3>2. g + Window >= Window /\ ttl'[v] = Window
      BY <1>5, <1>7, <2>4, <3>1
    <3> QED BY <2>1, <2>2, <3>1, <3>2 DEF Opened
  <2> QED BY <2>3, <2>4
<1>9. Expiring'
  <2> SUFFICES ASSUME NEW r \in Threads, NEW s \in Threads, pc'[r] = "expire", pc'[s] = "expire",
                      req'[r].rider = req'[s].rider
               PROVE  r = s /\ counter'[req'[s].rider] > 0 /\ ttl'[req'[s].rider] = 0
    BY DEF Expiring
  <2>1. r # t /\ s # t
    BY <1>6
  <2>2. /\ pc[r] = "expire" /\ pc[s] = "expire" /\ req'[s] = req[s] /\ req[r].rider = req[s].rider
        /\ req[s].rider \in Riders
    BY <1>6, <2>1 DEF IInv, LocalsOK, Attempt
  <2>3. req[s].rider # u
    BY <1>1, <1>3, <2>1, <2>2 DEF Expiring
  <2> QED BY <1>3, <1>5, <2>2, <2>3 DEF Expiring
<1> QED BY <1>8, <1>9

\* Of a counter that goes, what opened it is a window old.
LEMMA TickWindows ==
  ASSUME IInv, Windows, Expiring, Tick
  PROVE  Windows' /\ Expiring'
<1>1. UNCHANGED <<pc, req>> /\ Window \in Nat /\ Window > 0
  BY BoundsHold DEF Tick, Bounds
<1>2. ASSUME NEW u \in Riders
      PROVE  /\ counter[u] \in Nat /\ ttl[u] \in 0..Window
             /\ counter'[u] = IF ttl[u] = 1 THEN 0 ELSE counter[u]
             /\ ttl'[u] = IF ttl[u] > 0 THEN ttl[u] - 1 ELSE 0
             /\ recent'[u] = {[age |-> x.age + 1, count |-> x.count] :
                                x \in {y \in recent[u] : y.age < Window - 1}}
             /\ \A x \in recent[u] : x.age \in 0..Window - 1
  BY BoundsHold DEF Tick, IInv, TypeOK, Bounds, Admitted
<1>3. Windows'
  <2> SUFFICES ASSUME NEW u \in Riders PROVE \E g \in (-1)..Window : Opened(u, g)'
    BY DEF Windows
  <2>1. PICK first \in (-1)..Window : Opened(u, first)
    BY DEF Windows
  <2>2. \A x \in recent'[u] : \E y \in recent[u] :
          /\ x = [age |-> y.age + 1, count |-> y.count]
          /\ x.age = y.age + 1 /\ x.count = y.count /\ y.age \in 0..Window - 2
    BY <1>1, <1>2
  <2>3. \A x \in recent'[u] : x.age \in 1..Window - 1 /\ x.count \in 1..Capacity
    BY <1>1, <2>1, <2>2 DEF Opened
  <2>4. CASE ttl[u] = 1
    <3>1. counter[u] # 0 /\ first \in 0..Window /\ first >= Window - 1
      BY <1>1, <1>2, <2>1, <2>4 DEF Opened
    <3>2. counter'[u] = 0 /\ ttl'[u] = 0
      BY <1>2, <2>4
    <3>3. \A y \in recent[u] : y.age \in 0..Window - 2 => y.age <= first /\ y.count # 1
      BY <1>1, <2>1, <3>1 DEF Opened
    <3>4. \A x \in recent'[u] : x.count >= 2
      BY <2>2, <2>3, <3>3, BoundsHold DEF Bounds
    <3>5. \A x, y \in recent'[u] : x.count = y.count => x = y
      <4> SUFFICES ASSUME NEW x \in recent'[u], NEW y \in recent'[u], x.count = y.count
                   PROVE  x = y
        OBVIOUS
      <4>1. PICK a \in recent[u] :
              x = [age |-> a.age + 1, count |-> a.count] /\ x.count = a.count /\ a.age <= first
        BY <2>2, <3>3
      <4>2. PICK b \in recent[u] :
              y = [age |-> b.age + 1, count |-> b.count] /\ y.count = b.count /\ b.age <= first
        BY <2>2, <3>3
      <4>3. a = b
        BY <2>1, <4>1, <4>2 DEF Opened
      <4> QED BY <4>1, <4>2, <4>3
    <3>6. \A x \in recent'[u] : x.age > 0 /\ ~(x.age <= -1)
      BY <2>3
    <3>7. Opened(u, -1)'
      BY <2>3, <3>2, <3>4, <3>5, <3>6 DEF Opened
    <3> QED BY <1>1, <3>7
  <2>5. CASE ttl[u] # 1 /\ first = -1
    <3>1. counter[u] = 0 /\ ttl[u] = 0 /\ counter'[u] = 0 /\ ttl'[u] = 0
      BY <1>2, <2>1, <2>5 DEF Opened
    <3>2. \A y \in recent[u] : ~(y.age <= -1)
      BY <1>2
    <3>3. \A x \in recent'[u] : x.age > 0 /\ ~(x.age <= -1)
      BY <2>3
    <3>4. \A x \in recent'[u] : x.count >= 2
      BY <2>1, <2>2, <2>5, <3>2 DEF Opened
    <3>5. \A x, y \in recent'[u] : x.count = y.count => x = y
      <4> SUFFICES ASSUME NEW x \in recent'[u], NEW y \in recent'[u], x.count = y.count
                   PROVE  x = y
        OBVIOUS
      <4>1. PICK a \in recent[u] : x = [age |-> a.age + 1, count |-> a.count] /\ x.count = a.count
        BY <2>2
      <4>2. PICK b \in recent[u] : y = [age |-> b.age + 1, count |-> b.count] /\ y.count = b.count
        BY <2>2
      <4>3. a = b
        BY <2>1, <2>5, <3>2, <4>1, <4>2 DEF Opened
      <4> QED BY <4>1, <4>2, <4>3
    <3>6. Opened(u, -1)'
      BY <2>3, <3>1, <3>3, <3>4, <3>5 DEF Opened
    <3> QED BY <1>1, <3>6
  <2>6. CASE ttl[u] # 1 /\ first # -1
    <3>1. PICK g \in (-1)..Window : g = IF first = Window THEN Window ELSE first + 1
      BY <1>1
    <3>2. /\ counter[u] # 0 /\ counter'[u] = counter[u] /\ g # -1
          /\ ttl'[u] > 0 => g + ttl'[u] >= Window
      BY <1>1, <1>2, <2>1, <2>6, <3>1 DEF Opened
    <3>3. \A y \in recent[u] : y.age \in 0..Window - 2 =>
            (y.age + 1 <= g <=> y.age <= first) /\ (y.age = first => y.age + 1 = g)
      BY <1>1, <2>6, <3>1
    <3>4. \A x \in recent'[u] :
            IF x.age <= g THEN x.count <= counter'[u] /\ (x.count = 1 => x.age = g)
                          ELSE x.count >= 2
      <4> SUFFICES ASSUME NEW x \in recent'[u]
                   PROVE  IF x.age <= g THEN x.count <= counter'[u] /\ (x.count = 1 => x.age = g)
                                        ELSE x.count >= 2
        OBVIOUS
      <4>1. PICK y \in recent[u] :
              x.age = y.age + 1 /\ x.count = y.count /\ y.age \in 0..Window - 2
        BY <2>2
      <4>2. IF y.age <= first THEN y.count <= counter[u] /\ (y.count = 1 => y.age = first)
                              ELSE y.count >= 2
        BY <2>1 DEF Opened
      <4> QED BY <3>2, <3>3, <4>1, <4>2
    <3>5. \A x, y \in recent'[u] :
            x.count = y.count /\ (x.age <= g <=> y.age <= g) => x = y
      <4> SUFFICES ASSUME NEW x \in recent'[u], NEW y \in recent'[u], x.count = y.count,
                          x.age <= g <=> y.age <= g
                   PROVE  x = y
        OBVIOUS
      <4>1. PICK a \in recent[u] :
              /\ x = [age |-> a.age + 1, count |-> a.count]
              /\ x.age = a.age + 1 /\ x.count = a.count /\ a.age \in 0..Window - 2
        BY <2>2
      <4>2. PICK b \in recent[u] :
              /\ y = [age |-> b.age + 1, count |-> b.count]
              /\ y.age = b.age + 1 /\ y.count = b.count /\ b.age \in 0..Window - 2
        BY <2>2
      <4>3. a.age <= first <=> b.age <= first
        BY <3>3, <4>1, <4>2
      <4>4. a = b
        BY <2>1, <4>1, <4>2, <4>3 DEF Opened
      <4> QED BY <4>1, <4>2, <4>4
    <3>6. Opened(u, g)'
      BY <2>3, <3>2, <3>4, <3>5 DEF Opened
    <3> QED BY <3>6
  <2> QED BY <2>4, <2>5, <2>6
<1>4. Expiring'
  <2> SUFFICES ASSUME NEW r \in Threads, NEW s \in Threads, pc[r] = "expire", pc[s] = "expire",
                      req[r].rider = req[s].rider
               PROVE  r = s /\ counter'[req[s].rider] > 0 /\ ttl'[req[s].rider] = 0
    BY <1>1 DEF Expiring
  <2>1. req[s].rider \in Riders
    BY DEF IInv, LocalsOK, Attempt
  <2>2. r = s /\ counter[req[s].rider] > 0 /\ ttl[req[s].rider] = 0
    BY DEF Expiring
  <2> QED BY <1>2, <2>1, <2>2
<1> QED BY <1>3, <1>4

LEMMA WindowsStep == IInv /\ Windows /\ Expiring /\ [Next]_vars => Windows' /\ Expiring'
<1> SUFFICES ASSUME IInv, Windows, Expiring, [Next]_vars
             PROVE  Windows' /\ Expiring'
  OBVIOUS
<1>1. CASE UNCHANGED vars
  BY <1>1, LimiterStays DEF vars, limiter
<1>2. ASSUME NEW t \in Threads, Incr(t) PROVE Windows' /\ Expiring'
  BY <1>2, IncrWindows
<1>3. ASSUME NEW t \in Threads, Expire(t) PROVE Windows' /\ Expiring'
  BY <1>3, ExpireWindows
<1>4. ASSUME NEW t \in Threads, NEW step, step # "expire", UNCHANGED <<counter, ttl, recent>>,
             pc' = [pc EXCEPT ![t] = step], \A s \in Threads : s # t => req'[s] = req[s]
      PROVE  Windows' /\ Expiring'
  <2>1. \A s \in Threads : pc'[s] = "expire" => pc[s] = "expire" /\ req'[s] = req[s]
    BY <1>4 DEF IInv, TypeOK
  <2> QED BY <1>4, <2>1, LimiterStays
<1>5. ASSUME NEW t \in Threads, Refuse(t) \/ SetSurge(t) \/ Save(t) \/ Fail(t)
      PROVE  Windows' /\ Expiring'
  <2>1. PICK step : step \in {"idle", "save"} /\ Goto(t, step)
    BY <1>5 DEF Refuse, SetSurge, Save, Fail
  <2>2. pc' = [pc EXCEPT ![t] = step] /\ \A s \in Threads : s # t => req'[s] = req[s]
    BY <2>1 DEF Goto, IInv, TypeOK
  <2>3. UNCHANGED <<counter, ttl, recent>>
    BY <1>5 DEF Refuse, SetSurge, Save, Fail, limiter
  <2> QED BY <1>4, <2>1, <2>2, <2>3
<1>6. ASSUME NEW t \in Threads, CountPending(t) \/ GetSurge(t)
      PROVE  Windows' /\ Expiring'
  <2>1. PICK step : step \in {"get", "set", "save"} /\ pc' = [pc EXCEPT ![t] = step]
    BY <1>6 DEF CountPending, GetSurge, AfterGet
  <2>2. PICK q : req' = [req EXCEPT ![t] = q]
    BY <1>6 DEF CountPending, GetSurge
  <2>3. \A s \in Threads : s # t => req'[s] = req[s]
    BY <2>2 DEF IInv, TypeOK
  <2>4. UNCHANGED <<counter, ttl, recent>>
    BY <1>6 DEF CountPending, GetSurge, limiter
  <2> QED BY <1>4, <2>1, <2>3, <2>4
<1>7. ASSUME NEW r \in RideIds, Leave(r) PROVE Windows' /\ Expiring'
  BY <1>7, LimiterStays DEF Leave, limiter
<1>8. CASE Tick
  BY <1>8, TickWindows
<1> QED BY <1>1, <1>2, <1>3, <1>5, <1>6, <1>7, <1>8 DEF Next, Step

-----------------------------------------------------------------------------
(* The theorems. *)

LEMMA Invariance == Spec => []IInv
BY IInvInit, IInvStep, PTL DEF Spec

\* The variables keep their types: in particular no multiplier outside 1.00 and
\* 3.00 is ever cached.
THEOREM TypeCorrect == Spec => []TypeOK
<1>1. IInv => TypeOK
  BY DEF IInv
<1> QED BY <1>1, Invariance, PTL

\* Only a request that dies between INCR and EXPIRE (rate_limit.py:36-39) leaves
\* a counter that never expires.
THEOREM CountersExpireCorrect == Spec => []CountersExpire
<1>1. IInv => CountersExpire
  BY DEF IInv
<1> QED BY <1>1, Invariance, PTL

\* The stored fare is one the pickup's own cell has been quoted, and between the
\* base fare and three times it (services.py:221-234), for rides of any length.
THEOREM FareOfOwnCellCorrect == Spec => []FareOfOwnCell
<1>1. IInv => FareOfOwnCell
  <2> SUFFICES ASSUME IInv, NEW t \in Threads, pc[t] \in {"set", "save"}
               PROVE  /\ CellOf[req[t].from] = CellOf[req[t].place]
                      /\ FareInRange(req[t].metres, EstimatedFare(req[t]))
    BY DEF FareOfOwnCell
  <2>1. /\ req[t] \in Request /\ req[t].surge \in Surges
        /\ CellOf[req[t].from] = CellOf[req[t].place]
    BY DEF IInv, LocalsOK
  <2>2. req[t].metres \in Nat
    BY <2>1, BoundsHold DEF Request, Bounds
  <2> QED BY <2>1, <2>2, FareCorrect DEF EstimatedFare
<1> QED BY <1>1, Invariance, PTL

\* Less than two capacities are admitted in any stretch of time as long as a
\* window (rate_limit.py:33-40), for any capacity, window and number of requests
\* in flight, whether an EXPIRE is late or never comes.
THEOREM BoundedBurstCorrect == Spec => []BoundedBurst
<1>1. Init => Windows /\ Expiring
  BY WindowsInit
<1>2. Windows => BoundedBurst
  BY WindowsBound
<1> QED BY <1>1, <1>2, Invariance, WindowsStep, PTL DEF Spec
=============================================================================
