------------------------------ MODULE Intake ------------------------------
(***************************************************************************)
(* POST /rides up to the stored ride: the fixed-window rate limiter, the   *)
(* counts of rides and drivers around the pickup, the surge cache and the  *)
(* fare, as request threads run them.  Time passes between their steps, in *)
(* ticks.                                                                  *)
(*                                                                         *)
(* What belongs to other modules is answered in every way it may be:       *)
(* whether the body is valid and the rider has no active ride, how many of *)
(* the nearest drivers are available, and when a ride leaves REQUESTED.    *)
(* Of the table rides there is left which REQUESTED rides it holds.  The   *)
(* limiter of /auth is another instance of the same class, with addresses  *)
(* for keys.                                                               *)
(***************************************************************************)
EXTENDS Pricing, FiniteSets

CONSTANTS
  None,
  Riders,      \* the keys of the limiter
  Places,      \* where rides are asked for
  Cells,       \* the values of the surge grid key
  CellOf,      \* the cell each place rounds to
  Box,         \* the places whose rides count_pending_near counts for a place
  Distances,   \* the lengths of rides, in metres
  Threads,     \* request threads
  Capacity,    \* the limiter's capacity
  Window,      \* its window_seconds, in ticks
  SurgeTtl,    \* SURGE_TTL_SECONDS, in ticks
  MaxResults,  \* MAX_RESULTS of a geo search
  RideIds      \* bound: rides that may be REQUESTED at one time

ASSUME IntakeAssumption ==
  /\ CellOf \in [Places -> Cells]
  /\ Box \in [Places -> SUBSET Places]
  /\ Distances \subseteq Nat
  /\ Capacity \in Nat \ {0} /\ Window \in Nat \ {0} /\ SurgeTtl \in Nat \ {0}
  /\ MaxResults \in Nat
  /\ None \notin Places /\ IsFiniteSet(RideIds)

VARIABLES
  counter,   \* Redis: the counter of each key, 0 where there is none
  ttl,       \* Redis: how long each counter has left, 0 where it never expires
  recent,    \* history: the requests admitted in this tick and the last ones, a window
             \* in all
  orphaned,  \* history: keys whose request died between INCR and EXPIRE
  cache,     \* Redis: the surge of each cell, how long it has left, and, as
             \* history, the place it was computed for
  pending,   \* table rides: the pickup of each REQUESTED ride
  pc,        \* the next call of each thread
  req        \* the locals of the request each thread serves

limiter == <<counter, ttl, recent, orphaned>>
vars == <<limiter, cache, pending, pc, req>>

NotQuoted == -1
Surges == SURGE_MIN_MULTIPLIER..SURGE_MAX_MULTIPLIER

NoSurge == [ttl |-> 0]
Surge == [surge : Surges, ttl : 1..SurgeTtl, from : Places]

(* What INCR answered, while the limiter is asked; then the body, the rides *)
(* that have been counted, the quote and the place it was computed for.     *)
Nothing == <<>>
Attempt == [rider : Riders, count : Nat]

\* No two requests of one rider in one tick get the same answer: a counter
\* starts again only with a tick.
Admitted == [age : 0..Window - 1, count : Nat]

Request == [place : Places, metres : Distances, rides : Nat,
            surge : Surges \cup {NotQuoted}, from : Places]

Init ==
  /\ counter = [u \in Riders |-> 0]
  /\ ttl = [u \in Riders |-> 0]
  /\ recent = [u \in Riders |-> {}]
  /\ orphaned = {}
  /\ cache = [c \in Cells |-> NoSurge]
  /\ pending = [r \in RideIds |-> None]
  /\ pc = [t \in Threads |-> "idle"]
  /\ req = [t \in Threads |-> Nothing]

-----------------------------------------------------------------------------
(* RateLimiter.allow. *)

Goto(t, step) ==
  /\ pc' = [pc EXCEPT ![t] = step]
  /\ req' = IF step = "idle" THEN [req EXCEPT ![t] = Nothing] ELSE req

\* Variant for the mutation runs: the capacity is exceeded by one.
AllowsOneMore(count) == count <= Capacity + 1

Allows(count) == count <= Capacity

\* Variants for the mutation runs: the expiry is set when the counter is full,
\* or again by every request.
IsFull(count) == count = Capacity
IsAny(count) == TRUE

SetsExpiry(count) == count = 1

AfterAllow(count) == IF Allows(count) THEN "guards" ELSE "idle"

\* Counts beyond Capacity + 1 behave alike and are counted as that.
Incremented(count) == IF count > Capacity THEN count ELSE count + 1

Incr(t) == \E u \in Riders :
  LET count == Incremented(counter[u])
      step == IF SetsExpiry(count) THEN "expire" ELSE AfterAllow(count) IN
  /\ pc[t] = "idle"
  /\ counter' = [counter EXCEPT ![u] = count]
  /\ recent' = IF Allows(count)
               THEN [recent EXCEPT ![u] = @ \cup {[age |-> 0, count |-> count]}]
               ELSE recent
  /\ pc' = [pc EXCEPT ![t] = step]
  /\ req' = IF step = "expire" THEN [req EXCEPT ![t] = [rider |-> u, count |-> count]] ELSE req
  /\ UNCHANGED <<ttl, orphaned, cache, pending>>

Expire(t) ==
  /\ pc[t] = "expire"
  /\ LET u == req[t].rider IN
       ttl' = IF counter[u] > 0 THEN [ttl EXCEPT ![u] = Window] ELSE ttl
  /\ pc' = [pc EXCEPT ![t] = AfterAllow(req[t].count)]
  /\ req' = [req EXCEPT ![t] = Nothing]
  /\ UNCHANGED <<counter, recent, orphaned, cache, pending>>

-----------------------------------------------------------------------------
(* request_ride: the guards, the counts, the quote and the insert. *)

Refuse(t) ==
  /\ pc[t] = "guards"
  /\ Goto(t, "idle")
  /\ UNCHANGED <<limiter, cache, pending>>

PendingNear(place) == Cardinality({r \in RideIds : pending[r] \in Box[place]})

InFlight == {t \in Threads : pc[t] \in {"get", "set", "save"}}
Free == {r \in RideIds : pending[r] = None}

\* The body is read, and count_pending_near asked; the ride itself is not stored yet.
CountPending(t) == \E place \in Places, metres \in Distances :
  /\ pc[t] = "guards"
  /\ Cardinality(InFlight) < Cardinality(Free)
  /\ pc' = [pc EXCEPT ![t] = "get"]
  /\ req' = [req EXCEPT ![t] = [place |-> place, metres |-> metres, rides |-> PendingNear(place),
                                surge |-> NotQuoted, from |-> place]]
  /\ UNCHANGED <<limiter, cache, pending>>

\* Variant for the mutation runs: the grid key is one for all cells.
OneKey(place) == CHOOSE c \in Cells : TRUE

surge_grid_key(place) == CellOf[place]

\* Variant for the mutation runs: a quote from the cache is cached again.
AfterGetAlwaysSet(hit) == "set"

AfterGet(hit) == IF hit THEN "save" ELSE "set"

\* find_nearby_available_drivers, which answers some of the nearest MaxResults,
\* SurgeCache.get, and the multiplier computed on a miss.
GetSurge(t) ==
  /\ pc[t] = "get"
  /\ \E drivers \in 0..MaxResults :
       LET q == req[t]
           cached == cache[surge_grid_key(q.place)]
           hit == cached # NoSurge IN
       /\ req' = [req EXCEPT ![t] =
            [q EXCEPT !.surge = IF hit THEN cached.surge
                                ELSE compute_surge_multiplier(q.rides, drivers),
                      !.from = IF hit THEN cached.from ELSE q.place,
                      !.rides = 0]]
       /\ pc' = [pc EXCEPT ![t] = AfterGet(hit)]
  /\ UNCHANGED <<limiter, cache, pending>>

SetSurge(t) ==
  /\ pc[t] = "set"
  /\ LET q == req[t] IN
       cache' = [cache EXCEPT ![surge_grid_key(q.place)] =
                   [surge |-> q.surge, ttl |-> SurgeTtl, from |-> q.from]]
  /\ Goto(t, "save")
  /\ UNCHANGED <<limiter, pending>>

EstimatedFare(q) == calculate_fare(q.metres, q.surge)

\* The insert of the REQUESTED ride with its estimated fare.
Save(t) ==
  /\ pc[t] = "save"
  /\ \E r \in Free : pending' = [pending EXCEPT ![r] = req[t].place]
  /\ Goto(t, "idle")
  /\ UNCHANGED <<limiter, cache>>

-----------------------------------------------------------------------------
(* The rest of the system, and time. *)

\* A ride is accepted or cancelled.
Leave(r) ==
  /\ pending[r] # None
  /\ pending' = [pending EXCEPT ![r] = None]
  /\ UNCHANGED <<limiter, cache, pc, req>>

\* A call raises or the process dies.
Fail(t) ==
  /\ pc[t] # "idle"
  /\ orphaned' = IF pc[t] = "expire" THEN orphaned \cup {req[t].rider} ELSE orphaned
  /\ Goto(t, "idle")
  /\ UNCHANGED <<counter, ttl, recent, cache, pending>>

\* Time passes: Redis drops the keys whose time is up.
Tick ==
  /\ counter' = [u \in Riders |-> IF ttl[u] = 1 THEN 0 ELSE counter[u]]
  /\ ttl' = [u \in Riders |-> IF ttl[u] > 0 THEN ttl[u] - 1 ELSE 0]
  /\ recent' = [u \in Riders |-> {[age |-> x.age + 1, count |-> x.count] :
                                    x \in {y \in recent[u] : y.age < Window - 1}}]
  /\ cache' = [c \in Cells |-> IF cache[c].ttl <= 1 THEN NoSurge
                               ELSE [cache[c] EXCEPT !.ttl = @ - 1]]
  /\ UNCHANGED <<orphaned, pending, pc, req>>

Step(t) ==
  \/ Expire(t) \/ Refuse(t) \/ CountPending(t)
  \/ GetSurge(t) \/ SetSurge(t) \/ Save(t)

Next ==
  \/ \E t \in Threads : Incr(t) \/ Step(t) \/ Fail(t)
  \/ \E r \in RideIds : Leave(r)
  \/ Tick

Spec == Init /\ [][Next]_vars

\* Time passes, and a running thread is scheduled.
FairSpec == Spec /\ WF_vars(Tick) /\ \A t \in Threads : WF_vars(Step(t))

-----------------------------------------------------------------------------

Steps == {"idle", "expire", "guards", "get", "set", "save"}

\* The types of the variables; a multiplier is within 1.00 and 3.00 wherever it
\* is computed, cached or used, so also with nobody available.
TypeOK ==
  /\ counter \in [Riders -> 0..Capacity + 1]
  /\ ttl \in [Riders -> 0..Window]
  /\ recent \in [Riders -> SUBSET Admitted]
  /\ orphaned \subseteq Riders
  /\ cache \in [Cells -> Surge \cup {NoSurge}]
  /\ pending \in [RideIds -> Places \cup {None}]
  /\ pc \in [Threads -> Steps]
  /\ req \in [Threads -> Attempt \cup Request \cup {Nothing}]

\* However requests cluster around the end of a window and however late an
\* EXPIRE is, less than two capacities are admitted in any stretch of time as
\* long as a window.
BoundedBurst == \A u \in Riders : Cardinality(recent[u]) < 2 * Capacity

\* A counter that will never expire is one whose request died between its two
\* commands, or is between them now.
CountersExpire ==
  \A u \in Riders : counter[u] > 0 /\ u \notin orphaned =>
    \/ ttl[u] > 0
    \/ \E t \in Threads : pc[t] = "expire" /\ req[t].rider = u

\* A refused rider is served again, however often he tries in the meantime.
RefusedRecover ==
  \A u \in Riders : counter[u] > Capacity ~> counter[u] = 0 \/ u \in orphaned

\* The fare that is stored is one its own cell has been quoted: the surge was
\* computed around a place of the cell, and keeps the fare in its range.
FareOfOwnCell ==
  \A t \in Threads : pc[t] \in {"set", "save"} =>
    /\ CellOf[req[t].from] = CellOf[req[t].place]
    /\ FareInRange(req[t].metres, EstimatedFare(req[t]))

\* A surge is not served for ever: however many requests a cell has, and however
\* late one of them writes what it has computed, the cache is empty again some time.
SurgeRefreshed == \A c \in Cells : cache[c] # NoSurge ~> cache[c] = NoSurge
=============================================================================
