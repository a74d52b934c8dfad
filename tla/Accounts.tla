------------------------------ MODULE Accounts ------------------------------
(***************************************************************************)
(* Accounts and ratings: registration, login, mode switch, registration as *)
(* a driver, the availability toggle and the rating of a completed ride,   *)
(* as request threads run them.                                            *)
(*                                                                         *)
(* Each repository call is one atomic step (update_or_create is one        *)
(* transaction), and a save writes the whole row its request has read.     *)
(* Averages are counted in hundredths, a null average as 0.  Passwords,    *)
(* vehicles and comments are left out.  The value of is_available is       *)
(* RideService's; here its save writes the rating columns back.  A request *)
(* that is turned away before it has written anything is not a step.       *)
(***************************************************************************)
EXTENDS Integers, FiniteSets, FiniteSetsExt

CONSTANTS
  Ids,          \* the uuids available to new accounts
  Names,        \* usernames
  RideIds,      \* rides that may be completed
  Scores,       \* the scores clients send
  Threads,      \* request threads
  MaxRequests,  \* bound: how many requests are served
  MaxFailures   \* bound: how many requests die half way

ASSUME AccountAssumption ==
  Scores \subseteq Int /\ MaxRequests \in Nat /\ MaxFailures \in Nat

VARIABLES
  users,    \* table users: the row of each id
  drivers,  \* table drivers: the profile of each id
  rides,    \* the rider and the driver of each completed ride
  ratings,  \* table ratings
  tokens,   \* the tokens given out; `owner` is history, a token holds a name and a role
  pc,       \* the next call of each thread
  req,      \* the locals of the request each thread serves
  spoiled,  \* history: users with a row saved over a newer one, or a request that died
  started, failures

database == <<users, drivers, rides, ratings>>
vars == <<database, tokens, pc, req, spoiled, started, failures>>

Role == {"RIDER", "DRIVER"}

User == [name : Names, role : Role, avg_rating : 0..500, rating_count : Nat]
NoUser == [name |-> "none"]

Driver == [avg_rating : 0..500, rating_count : Nat]
NoDriver == [avg_rating |-> -1]
NewDriver == [avg_rating |-> 0, rating_count |-> 0]

Rating == [ride : RideIds, from : Ids, to : Ids, score : 1..5]
NoRide == <<>>

(* `id` is the account whose rows the request saves, `row` and `profile` the *)
(* rows it has read, `score` the rating it adds to them.                     *)
Idle == [op |-> "none"]
Request == [op : {"register", "driver", "mark", "rate"}, id : Ids, row : User \cup {NoUser},
            profile : Driver \cup {NoDriver}, ride : RideIds \cup {NoRide},
            from : Ids, score : 0..5]

Init ==
  /\ users = [i \in Ids |-> NoUser]
  /\ drivers = [i \in Ids |-> NoDriver]
  /\ rides = [r \in RideIds |-> NoRide]
  /\ ratings = {}
  /\ tokens = {}
  /\ pc = [t \in Threads |-> "idle"]
  /\ req = [t \in Threads |-> Idle]
  /\ spoiled = {}
  /\ started = 0 /\ failures = 0

-----------------------------------------------------------------------------

Goto(t, step) ==
  /\ pc' = [pc EXCEPT ![t] = step]
  /\ req' = IF step = "idle" THEN [req EXCEPT ![t] = Idle] ELSE req

Begin(t, op, id, row, profile, ride, from, score, step) ==
  /\ pc[t] = "idle" /\ started < MaxRequests
  /\ started' = started + 1
  /\ pc' = [pc EXCEPT ![t] = step]
  /\ req' = [req EXCEPT ![t] =
       [op |-> op, id |-> id, row |-> row, profile |-> profile,
        ride |-> ride, from |-> from, score |-> score]]
  /\ UNCHANGED <<database, tokens, spoiled, failures>>

HasAccount(i) == users[i] # NoUser

\* find_by_username
Named(name) == {i \in Ids : HasAccount(i) /\ users[i].name = name}

Grant(owner, name, role) ==
  tokens' = tokens \cup {[owner |-> owner, name |-> name, role |-> role]}

Spoil(i, stale) == spoiled' = IF stale THEN spoiled \cup {i} ELSE spoiled

-----------------------------------------------------------------------------
(* The requests that are one read and a token. *)

\* A client who knows the password logs in and gets the role of the row.
Login(i) ==
  /\ HasAccount(i)
  /\ Grant(i, users[i].name, users[i].role)
  /\ UNCHANGED <<database, pc, req, spoiled, started, failures>>

\* Variant for the mutation runs: the mode is granted to any user who is known.
MayDriveIfKnown(name) == Named(name) # {}

MayDrive(name) == \E i \in Named(name) : users[i].role = "DRIVER"

SwitchMode(token, mode) ==
  /\ mode = "DRIVER" => MayDrive(token.name)
  /\ Grant(token.owner, token.name, mode)
  /\ UNCHANGED <<database, pc, req, spoiled, started, failures>>

-----------------------------------------------------------------------------
(* Registration, and registration as a driver. *)

\* The id is drawn when the User is constructed, after the check of the name.
BeginRegister(t) == \E i \in Ids, name \in Names :
  /\ Named(name) = {}
  /\ ~HasAccount(i) /\ \A s \in Threads : req[s].op = "register" => req[s].id # i
  /\ Begin(t, "register", i,
           [name |-> name, role |-> "RIDER", avg_rating |-> 0, rating_count |-> 0],
           NoDriver, NoRide, i, 0, "insert")

\* Variant for the mutation runs: the column is not declared unique.
NotUnique(name) == TRUE

\* The unique constraint of users.username.
Unique(name) == Named(name) = {}

Insert(t) ==
  /\ pc[t] = "insert"
  /\ LET q == req[t] IN
       \/ Unique(q.row.name) /\ users' = [users EXCEPT ![q.id] = q.row] /\ Goto(t, "respond")
       \/ ~Unique(q.row.name) /\ UNCHANGED users /\ Goto(t, "idle")
  /\ UNCHANGED <<drivers, rides, ratings, tokens, spoiled, started, failures>>

BeginDriver(t) == \E token \in tokens : \E i \in Named(token.name) :
  Begin(t, "driver", i, users[i], NoDriver, NoRide, i, 0, "exists")

\* Variants for the mutation runs: the role is saved before the profile, or not
\* at all; a driver's rating is not counted for the user.
StepsOfPromoteFirst(q) ==
  IF q.op = "driver" THEN [exists |-> "user", user |-> "profile", profile |-> "respond"]
                     ELSE [profile |-> "read_user", user |-> "idle"]
StepsOfUnpromoted(q) ==
  IF q.op = "driver" THEN [exists |-> "profile", profile |-> "respond"]
                     ELSE [profile |-> "read_user", user |-> "idle"]
StepsOfDriverOnly(q) ==
  IF q.op = "driver" THEN [exists |-> "profile", profile |-> "user", user |-> "respond"]
                     ELSE [profile |-> "idle", user |-> "idle"]

\* What follows the check of a profile, and the saves of a profile and a user.
StepsOf(q) ==
  IF q.op = "driver" THEN [exists |-> "profile", profile |-> "user", user |-> "respond"]
                     ELSE [profile |-> "read_user", user |-> "idle"]

CheckProfile(t) ==
  /\ pc[t] = "exists"
  /\ LET q == req[t] IN
       Goto(t, IF drivers[q.id] = NoDriver THEN StepsOf(q).exists ELSE "idle")
  /\ UNCHANGED <<database, tokens, spoiled, started, failures>>

Respond(t) ==
  /\ pc[t] = "respond"
  /\ LET q == req[t] IN
       Grant(q.id, q.row.name, IF q.op = "driver" THEN "DRIVER" ELSE "RIDER")
  /\ Goto(t, "idle")
  /\ UNCHANGED <<database, spoiled, started, failures>>

-----------------------------------------------------------------------------
(* The availability toggle. *)

\* go_online, go_offline, or the accept, completion or cancellation of a ride
\* reads a profile to change is_available.
BeginMark(t) == \E i \in Ids :
  /\ drivers[i] # NoDriver
  /\ Begin(t, "mark", i, NoUser, drivers[i], NoRide, i, 0, "mark")

\* replace(driver, is_available=...) and save: the rating columns as they were
\* read, whatever has been written since.
SaveMark(t) ==
  /\ pc[t] = "mark"
  /\ drivers' = [drivers EXCEPT ![req[t].id] = req[t].profile]
  /\ Goto(t, "idle")
  /\ UNCHANGED <<users, rides, ratings, tokens, spoiled, started, failures>>

-----------------------------------------------------------------------------
(* Rating. *)

\* A driver completes a ride; module RideService has the steps.
CompleteRide(r) ==
  /\ rides[r] = NoRide
  /\ \E u, d \in Ids :
       /\ HasAccount(u) /\ drivers[d] # NoDriver
       /\ rides' = [rides EXCEPT ![r] = [rider |-> u, driver |-> d]]
  /\ UNCHANGED <<users, drivers, ratings, tokens, pc, req, spoiled, started, failures>>

\* Variant for the mutation runs: the score is not checked.
AnyScore(score) == TRUE

ValidScore(score) == score \in 1..5

HasRated(i, r) == \E rating \in ratings : rating.ride = r /\ rating.from = i

BeginRate(t) == \E r \in RideIds, score \in Scores : rides[r] # NoRide /\
  \E from \in {rides[r].rider, rides[r].driver} :
    /\ ValidScore(score)
    /\ ~HasRated(from, r)
    /\ Begin(t, "rate",
             IF from = rides[r].rider THEN rides[r].driver ELSE rides[r].rider,
             NoUser, NoDriver, r, from, score, "rating")

\* The insert; the unique constraint stops the second of two ratings.
SaveRating(t) ==
  /\ pc[t] = "rating"
  /\ LET q == req[t] IN
       \/ /\ ~HasRated(q.from, q.ride)
          /\ ratings' = ratings \cup
               {[ride |-> q.ride, from |-> q.from, to |-> q.id, score |-> q.score]}
          /\ Goto(t, "read_profile")
       \/ HasRated(q.from, q.ride) /\ UNCHANGED ratings /\ Goto(t, "idle")
  /\ UNCHANGED <<users, drivers, rides, tokens, spoiled, started, failures>>

ReadProfile(t) ==
  /\ pc[t] = "read_profile"
  /\ LET profile == drivers[req[t].id] IN
       /\ pc' = [pc EXCEPT ![t] = IF profile = NoDriver THEN "read_user" ELSE "profile"]
       /\ req' = [req EXCEPT ![t].profile = profile]
  /\ UNCHANGED <<database, tokens, spoiled, started, failures>>

ReadUser(t) ==
  /\ pc[t] = "read_user"
  /\ pc' = [pc EXCEPT ![t] = "user"]
  /\ req' = [req EXCEPT ![t].row = users[req[t].id]]
  /\ UNCHANGED <<database, tokens, spoiled, started, failures>>

\* Variant for the mutation runs: the mean of the old average and the score.
AveragesOfTwo(row, score) ==
  IF row.rating_count = 0 THEN {100 * score}
  ELSE {v \in 0..500 : 2 * v - row.avg_rating - 100 * score \in (-1)..1}

\* _incremental_avg and _round_to_2: the hundredths nearest to the new mean.
\* Half-way between two, the float may print as either side of the half.
Averages(row, score) ==
  LET n == row.rating_count
      total == row.avg_rating * n + 100 * score IN
  {v \in 0..500 : 2 * (n + 1) * v - 2 * total \in (-(n + 1))..(n + 1)}

Rated(row, score, avg) == [row EXCEPT !.avg_rating = avg, !.rating_count = @ + 1]

\* DriverRepository.save: a new profile, or the one that was read with a
\* rating more.
SaveProfile(t) ==
  /\ pc[t] = "profile"
  /\ LET q == req[t] IN
       /\ \/ q.op = "driver" /\ drivers' = [drivers EXCEPT ![q.id] = NewDriver]
          \/ /\ q.op = "rate"
             /\ \E avg \in Averages(q.profile, q.score) :
                  drivers' = [drivers EXCEPT ![q.id] = Rated(q.profile, q.score, avg)]
       /\ Goto(t, StepsOf(q).profile)
  /\ UNCHANGED <<users, rides, ratings, tokens, spoiled, started, failures>>

\* UserRepository.save: the row that was read, promoted or with a rating more.
SaveUser(t) ==
  /\ pc[t] = "user"
  /\ LET q == req[t] IN
       /\ \/ q.op = "driver" /\ users' = [users EXCEPT ![q.id] = [q.row EXCEPT !.role = "DRIVER"]]
          \/ /\ q.op = "rate"
             /\ \E avg \in Averages(q.row, q.score) :
                  users' = [users EXCEPT ![q.id] = Rated(q.row, q.score, avg)]
       /\ Spoil(q.id, users[q.id] # q.row)
       /\ Goto(t, StepsOf(q).user)
  /\ UNCHANGED <<drivers, rides, ratings, tokens, started, failures>>

-----------------------------------------------------------------------------

\* A call raises or the process dies; what is written stays written.
Fail(t) ==
  /\ pc[t] # "idle" /\ failures < MaxFailures
  /\ failures' = failures + 1
  /\ Spoil(req[t].id, req[t].op # "mark")
  /\ Goto(t, "idle")
  /\ UNCHANGED <<database, tokens, started>>

Step(t) ==
  \/ Insert(t) \/ CheckProfile(t) \/ SaveRating(t) \/ ReadProfile(t) \/ ReadUser(t)
  \/ SaveProfile(t) \/ SaveUser(t) \/ SaveMark(t) \/ Respond(t)

Next ==
  \/ \E i \in Ids : Login(i)
  \/ \E token \in tokens, mode \in Role : SwitchMode(token, mode)
  \/ \E r \in RideIds : CompleteRide(r)
  \/ \E t \in Threads :
       \/ BeginRegister(t) \/ BeginDriver(t) \/ BeginMark(t) \/ BeginRate(t)
       \/ Step(t) \/ Fail(t)

Spec == Init /\ [][Next]_vars

-----------------------------------------------------------------------------

\* What has been rated at all has at least one star on average.
InRange(row) == row.rating_count > 0 => row.avg_rating >= 100

RowsInRange ==
  \A i \in Ids :
    /\ HasAccount(i) => InRange(users[i])
    /\ drivers[i] # NoDriver => InRange(drivers[i])

\* The types of the variables; stored scores and averages are within one and
\* five stars, however often the averages have been rounded.
TypeOK ==
  /\ users \in [Ids -> User \cup {NoUser}]
  /\ drivers \in [Ids -> Driver \cup {NoDriver}]
  /\ RowsInRange
  /\ rides \in [RideIds -> [rider : Ids, driver : Ids] \cup {NoRide}]
  /\ ratings \subseteq Rating
  /\ tokens \subseteq [owner : Ids, name : Names, role : Role]
  /\ pc \in [Threads -> {"idle", "insert", "exists", "rating", "read_profile", "read_user",
                         "profile", "user", "mark", "respond"}]
  /\ req \in [Threads -> Request \cup {Idle}]
  /\ spoiled \subseteq Ids
  /\ started \in 0..MaxRequests /\ failures \in 0..MaxFailures

\* A token names the account it was given to, and no other, for as long as it
\* lives, although two registrations of one name may both pass the check.
TokenNamesOwner == \A token \in tokens : Named(token.name) = {token.owner}

\* Whoever holds a token for driver mode has a driver profile, so nothing he
\* may ask for there answers "No driver profile found": not after a failed
\* registration, and not after a stale save of his row.
DriverTokenHasProfile ==
  \A token \in tokens : token.role = "DRIVER" =>
    \A i \in Named(token.name) : drivers[i] # NoDriver

RatingsOf(i) == {rating \in ratings : rating.to = i}

\* The sum of the scores, as a number of stars.
Stars(given) == Cardinality({star \in given \X (1..5) : star[2] <= star[1].score})

\* The average is the mean of rating_count of the ratings, but for the rounding
\* of each step.
IsMeanOfSome(row, given) ==
  \E counted \in kSubset(row.rating_count, given) :
    LET n == row.rating_count
        off == row.avg_rating * n - 100 * Stars(counted)
    IN  4 * off \in (-(n * (n + 1)))..(n * (n + 1))

\* However ratings of one user and saves of his availability overwrite each
\* other, his row and his profile count each of his ratings at most once,
\* nobody else's, and the average is that of the ratings counted.
AveragesOfRatings ==
  \A i \in Ids :
    /\ HasAccount(i) => IsMeanOfSome(users[i], RatingsOf(i))
    /\ drivers[i] # NoDriver => IsMeanOfSome(drivers[i], RatingsOf(i))

AllIdle == \A t \in Threads : pc[t] = "idle"

\* Ratings are lost only where one user row was saved over a newer one, or
\* where a request died: otherwise, between requests, every rating is counted
\* in the user's row, whatever happens to his profile.
RatingsCounted ==
  AllIdle => \A i \in Ids : HasAccount(i) /\ i \notin spoiled =>
    users[i].rating_count = Cardinality(RatingsOf(i))

\* Nor is anybody else left with a profile and without the role, who could
\* neither switch to driver mode nor register again.
ProfileMakesDriver ==
  AllIdle => \A i \in Ids : drivers[i] # NoDriver /\ i \notin spoiled =>
    users[i].role = "DRIVER"

\* "DB `role` = permanent capability" (README.md:250).
RoleIsPermanent ==
  [][\A i \in Ids : HasAccount(i) /\ users[i].role = "DRIVER"
                      => users'[i].role = "DRIVER"]_vars
=============================================================================
