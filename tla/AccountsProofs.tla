--------------------------- MODULE AccountsProofs ---------------------------
(***************************************************************************)
(* What accounts, tokens and averages keep for any number of users,        *)
(* requests and failures.                                                  *)
(*                                                                         *)
(* The argument: accounts, their names and their profiles are never taken  *)
(* back, so what a token or a request once knew of them stays true, even   *)
(* of the rows a request writes back long after it read them.              *)
(*                                                                         *)
(* A rating is counted once its request has added it to the row; a row, in *)
(* a table or in the locals of a request, is the mean of some of the       *)
(* ratings counted so far, and of all of them where none has been lost.    *)
(***************************************************************************)
EXTENDS Accounts, FiniteSetTheorems, TLAPS

-----------------------------------------------------------------------------
(* Averages. *)

\* A fresh row may have any average, a rated one has one from 100 to 500.
LEMMA NearestIsBetween ==
  ASSUME NEW n \in Nat, NEW total \in Int, NEW v \in Int,
         100 * (n + 1) <= total, total <= 500 * (n + 1),
         2 * (n + 1) * v - 2 * total \in (-(n + 1))..(n + 1)
  PROVE  100 <= v /\ v <= 500
<1> DEFINE m == n + 1
<1>1. m \in Nat /\ m > 0
  OBVIOUS
<1>2. 2 * (n + 1) * v = 2 * (m * v) /\ 100 * (n + 1) = m * 100 /\ 500 * (n + 1) = m * 500
  BY SMT
<1>3. m * v \in Int
  BY <1>1
<1> HIDE DEF m
<1>4. 2 * (m * v) - 2 * total >= -m /\ 2 * (m * v) - 2 * total <= m
  BY <1>1, <1>2, <1>3 DEF m
<1>5. ASSUME v <= 99 PROVE FALSE
  <2>1. m * v <= m * 99
    BY <1>1, <1>5, SMT
  <2> QED BY <1>1, <1>2, <1>3, <1>4, <2>1 DEF m
<1>6. ASSUME v >= 501 PROVE FALSE
  <2>1. m * v >= m * 501
    BY <1>1, <1>6, SMT
  <2> QED BY <1>1, <1>2, <1>3, <1>4, <2>1 DEF m
<1> QED BY <1>5, <1>6

\* A rating keeps the average of any row, user's or driver's, within one and
\* five stars.
THEOREM AverageInRange ==
  ASSUME NEW row, row.rating_count \in Nat, row.avg_rating \in 0..500, InRange(row),
         NEW score \in 1..5, NEW v \in Averages(row, score)
  PROVE  v \in 100..500
<1> DEFINE n == row.rating_count
           a == row.avg_rating
           total == a * n + 100 * score
<1>1. n \in Nat /\ a \in Int /\ total \in Int /\ v \in Int
  <2>1. n \in Nat /\ a \in Int /\ v \in Int
    BY DEF Averages
  <2> HIDE DEF n, a
  <2>2. a * n \in Int
    BY <2>1
  <2> QED BY <2>1, <2>2
<1>2. 2 * (n + 1) * v - 2 * total \in (-(n + 1))..(n + 1)
  BY DEF Averages
<1>3. 100 * n <= a * n /\ a * n <= 500 * n
  <2>1. CASE n = 0
    BY <1>1, <2>1
  <2>2. CASE n > 0
    <3>1. 100 <= a /\ a <= 500
      BY <2>2 DEF InRange
    <3> HIDE DEF n, a
    <3> QED BY <1>1, <2>2, <3>1, SMT
  <2> QED BY <1>1, <2>1, <2>2
<1>4. 100 * (n + 1) <= total /\ total <= 500 * (n + 1)
  <2> HIDE DEF n, a
  <2>1. a * n \in Int
    BY <1>1
  <2> QED BY <1>1, <1>3, <2>1
<1> HIDE DEF n, a, total
<1> QED BY <1>1, <1>2, <1>4, NearestIsBetween

-----------------------------------------------------------------------------
(* The inductive invariant. *)

NamesUnique ==
  \A i, j \in Ids : HasAccount(i) /\ HasAccount(j) /\ users[i].name = users[j].name => i = j

ProfilesHaveAccounts == \A i \in Ids : drivers[i] # NoDriver => HasAccount(i)

RolesHaveProfiles ==
  \A i \in Ids : HasAccount(i) /\ users[i].role = "DRIVER" => drivers[i] # NoDriver

RidesHaveAccounts ==
  \A r \in RideIds : rides[r] # NoRide =>
    HasAccount(rides[r].rider) /\ HasAccount(rides[r].driver)

\* What was known of account i when `name` and `role` were read from it.
StillKnown(i, name, role) ==
  /\ HasAccount(i) /\ users[i].name = name
  /\ role = "DRIVER" => drivers[i] # NoDriver

TokensKnown == \A token \in tokens : StillKnown(token.owner, token.name, token.role)

RegisterKnown(t, q) ==
  /\ pc[t] \in {"insert", "respond"}
  /\ q.row \in User /\ q.row.role = "RIDER" /\ q.row.rating_count = 0
  /\ pc[t] = "insert" =>
       /\ ~HasAccount(q.id)
       /\ \A s \in Threads : s # t /\ req[s].op = "register" => req[s].id # q.id
  /\ pc[t] = "respond" => StillKnown(q.id, q.row.name, q.row.role)

DriverKnown(t, q) ==
  /\ pc[t] \in {"exists", "profile", "user", "respond"}
  /\ q.row \in User /\ InRange(q.row) /\ StillKnown(q.id, q.row.name, q.row.role)
  /\ pc[t] \in {"user", "respond"} => drivers[q.id] # NoDriver

RateKnown(t, q) ==
  /\ pc[t] \in {"rating", "read_profile", "profile", "read_user", "user"}
  /\ HasAccount(q.id) /\ q.score \in 1..5 /\ q.ride \in RideIds
  /\ pc[t] = "profile" =>
       q.profile \in Driver /\ InRange(q.profile) /\ drivers[q.id] # NoDriver
  /\ pc[t] = "user" =>
       q.row \in User /\ InRange(q.row) /\ StillKnown(q.id, q.row.name, q.row.role)

MarkKnown(t, q) ==
  /\ pc[t] = "mark"
  /\ HasAccount(q.id) /\ drivers[q.id] # NoDriver
  /\ q.profile \in Driver /\ InRange(q.profile)

RequestKnown(t) ==
  /\ (pc[t] = "idle") <=> (req[t] = Idle)
  /\ pc[t] # "idle" =>
       /\ req[t] \in Request
       /\ req[t].op = "register" => RegisterKnown(t, req[t])
       /\ req[t].op = "driver" => DriverKnown(t, req[t])
       /\ req[t].op = "rate" => RateKnown(t, req[t])
       /\ req[t].op = "mark" => MarkKnown(t, req[t])

IInv ==
  /\ TypeOK
  /\ NamesUnique /\ ProfilesHaveAccounts /\ RolesHaveProfiles /\ RidesHaveAccounts
  /\ TokensKnown
  /\ \A t \in Threads : RequestKnown(t)

LEMMA RowsDiffer ==
  /\ \A row \in User : row # NoUser /\ row.name \in Names /\ row.role \in Role
  /\ \A profile \in Driver : profile # NoDriver
  /\ NewDriver \in Driver /\ NewDriver # NoDriver /\ InRange(NewDriver)
<1>1. \A row \in User : row # NoUser
  BY DEF User, NoUser
<1>2. \A profile \in Driver : profile # NoDriver
  BY DEF Driver, NoDriver
<1>3. NewDriver \in Driver
  BY DEF NewDriver, Driver
<1> QED BY <1>1, <1>2, <1>3 DEF User, NewDriver, InRange

LEMMA RowsTyped ==
  ASSUME TypeOK, NEW i \in Ids
  PROVE  /\ HasAccount(i) => users[i] \in User /\ InRange(users[i])
         /\ drivers[i] # NoDriver => drivers[i] \in Driver /\ InRange(drivers[i])
<1>1. users[i] \in User \cup {NoUser} /\ drivers[i] \in Driver \cup {NoDriver}
  BY DEF TypeOK
<1>2. RowsInRange
  BY DEF TypeOK
<1> QED BY <1>1, <1>2 DEF HasAccount, RowsInRange

LEMMA RequestIsNotIdle == \A q \in Request : q # Idle /\ q.op \in {"register", "driver", "mark", "rate"}
BY DEF Request, Idle

LEMMA IInvInit == Init => IInv
BY AccountAssumption DEF Init, IInv, TypeOK, RowsInRange, NamesUnique, ProfilesHaveAccounts, RolesHaveProfiles,
   RidesHaveAccounts, TokensKnown, RequestKnown, HasAccount

-----------------------------------------------------------------------------
(* Accounts are never taken back. *)

Grows ==
  \A i \in Ids :
    /\ HasAccount(i) => HasAccount(i)' /\ users'[i].name = users[i].name
    /\ drivers[i] # NoDriver => drivers'[i] # NoDriver

LEMMA KnownStays ==
  ASSUME Grows, NEW i \in Ids, NEW name, NEW role, StillKnown(i, name, role)
  PROVE  StillKnown(i, name, role)'
BY DEF Grows, StillKnown

\* A request that does not move keeps what it knew, unless another account is
\* put where it is about to insert its own.
LEMMA OthersStay ==
  ASSUME IInv, Grows, NEW t \in Threads, pc'[t] = pc[t], req'[t] = req[t],
         req[t].op = "register" /\ pc[t] = "insert" =>
           /\ ~HasAccount(req[t].id)'
           /\ \A s \in Threads : s # t /\ req'[s].op = "register" => req'[s].id # req[t].id
  PROVE  RequestKnown(t)'
<1> DEFINE q == req[t]
<1>1. RequestKnown(t)
  BY DEF IInv
<1>2. CASE pc[t] = "idle"
  BY <1>1, <1>2 DEF RequestKnown
<1>3. CASE pc[t] # "idle"
  <2>1. q \in Request /\ q.id \in Ids
    BY <1>1, <1>3 DEF RequestKnown, Request
  <2>2. HasAccount(q.id) => HasAccount(q.id)'
    BY <2>1 DEF Grows
  <2>3. drivers[q.id] # NoDriver => drivers'[q.id] # NoDriver
    BY <2>1 DEF Grows
  <2>4. StillKnown(q.id, q.row.name, q.row.role) => StillKnown(q.id, q.row.name, q.row.role)'
    BY <2>1, KnownStays
  <2>5. CASE q.op = "register"
    <3>1. RegisterKnown(t, q)
      BY <1>1, <1>3, <2>5 DEF RequestKnown
    <3>2. RegisterKnown(t, req[t])'
      BY <2>4, <2>5, <3>1 DEF RegisterKnown
    <3> QED BY <1>1, <1>3, <2>1, <2>5, <3>2 DEF RequestKnown
  <2>6. CASE q.op = "driver"
    <3>1. DriverKnown(t, q)
      BY <1>1, <1>3, <2>6 DEF RequestKnown
    <3>2. DriverKnown(t, req[t])'
      BY <2>3, <2>4, <3>1 DEF DriverKnown
    <3> QED BY <1>1, <1>3, <2>1, <2>6, <3>2 DEF RequestKnown
  <2>7. CASE q.op = "rate"
    <3>1. RateKnown(t, q)
      BY <1>1, <1>3, <2>7 DEF RequestKnown
    <3>2. RateKnown(t, req[t])'
      BY <2>2, <2>3, <2>4, <3>1 DEF RateKnown
    <3> QED BY <1>1, <1>3, <2>1, <2>7, <3>2 DEF RequestKnown
  <2>8. CASE q.op = "mark"
    <3>1. MarkKnown(t, q)
      BY <1>1, <1>3, <2>8 DEF RequestKnown
    <3>2. MarkKnown(t, req[t])'
      BY <2>2, <2>3, <3>1 DEF MarkKnown, InRange
    <3> QED BY <1>1, <1>3, <2>1, <2>8, <3>2 DEF RequestKnown
  <2> QED BY <2>1, <2>5, <2>6, <2>7, <2>8, RequestIsNotIdle
<1> QED BY <1>2, <1>3

\* Thread t moves, and no account is added: the other requests know what they knew.
LEMMA NoNewAccount ==
  ASSUME IInv, Grows, NEW t \in Threads,
         \A s \in Threads : s # t => pc'[s] = pc[s] /\ req'[s] = req[s],
         \A i \in Ids : HasAccount(i)' => HasAccount(i),
         req'[t].op = "register" => req[t].op = "register" /\ req'[t].id = req[t].id,
         RequestKnown(t)'
  PROVE  \A s \in Threads : RequestKnown(s)'
<1> SUFFICES ASSUME NEW s \in Threads, s # t
             PROVE  RequestKnown(s)'
  OBVIOUS
<1>1. ASSUME req[s].op = "register", pc[s] = "insert"
      PROVE  /\ ~HasAccount(req[s].id)'
             /\ \A x \in Threads : x # s /\ req'[x].op = "register" => req'[x].id # req[s].id
  <2>1. req[s] \in Request /\ RegisterKnown(s, req[s])
    BY <1>1 DEF IInv, RequestKnown
  <2>2. req[s].id \in Ids
    BY <2>1 DEF Request
  <2> QED BY <1>1, <2>1, <2>2 DEF RegisterKnown
<1> QED BY <1>1, OthersStay

\* Nothing happens to the rows of users and drivers.
LEMMA SameRows ==
  ASSUME IInv, UNCHANGED <<users, drivers>>
  PROVE  /\ Grows /\ NamesUnique' /\ ProfilesHaveAccounts' /\ RolesHaveProfiles'
         /\ \A i \in Ids : HasAccount(i)' => HasAccount(i)
         /\ UNCHANGED rides => RidesHaveAccounts'
         /\ UNCHANGED tokens => TokensKnown'
BY DEF IInv, Grows, NamesUnique, ProfilesHaveAccounts, RolesHaveProfiles, HasAccount,
   RidesHaveAccounts, TokensKnown, StillKnown

LEMMA GotoEffect ==
  ASSUME IInv, NEW t \in Threads, NEW step, Goto(t, step)
  PROVE  /\ pc'[t] = step /\ pc' = [pc EXCEPT ![t] = step]
         /\ req'[t] = IF step = "idle" THEN Idle ELSE req[t]
         /\ req' \in [Threads -> Request \cup {Idle}]
         /\ \A s \in Threads : s # t => pc'[s] = pc[s] /\ req'[s] = req[s]
         /\ step = "idle" => RequestKnown(t)'
         /\ req'[t].op = "register" => req[t].op = "register" /\ req'[t].id = req[t].id
<1>1. /\ pc'[t] = step /\ pc' = [pc EXCEPT ![t] = step]
      /\ req'[t] = IF step = "idle" THEN Idle ELSE req[t]
      /\ req' \in [Threads -> Request \cup {Idle}]
      /\ \A s \in Threads : s # t => pc'[s] = pc[s] /\ req'[s] = req[s]
  BY DEF IInv, TypeOK, Goto
<1>2. step = "idle" => RequestKnown(t)'
  BY <1>1 DEF RequestKnown
<1> QED BY <1>1, <1>2 DEF Idle

-----------------------------------------------------------------------------
(* Tokens, rides, and the beginnings of requests. *)

LEMMA GrantKnown ==
  ASSUME IInv, UNCHANGED <<database, pc, req, spoiled, started, failures>>,
         NEW i \in Ids, NEW name, NEW role \in Role, StillKnown(i, name, role),
         Grant(i, name, role)
  PROVE  IInv'
<1> USE DEF database
<1>1. name \in Names
  BY RowsDiffer DEF StillKnown, HasAccount, IInv, TypeOK
<1>2. TypeOK'
  BY <1>1 DEF IInv, TypeOK, Grant, HasAccount, RowsInRange, InRange
<1>3. TokensKnown'
  BY DEF IInv, TokensKnown, Grant, StillKnown, HasAccount
<1>4. \A t \in Threads : RequestKnown(t)'
  BY DEF IInv, RequestKnown, RegisterKnown, DriverKnown, RateKnown, MarkKnown, StillKnown, HasAccount
<1> QED BY <1>2, <1>3, <1>4, SameRows DEF IInv

LEMMA LoginStep ==
  ASSUME IInv, NEW i \in Ids, Login(i)
  PROVE  IInv'
<1>1. users[i].role \in Role /\ StillKnown(i, users[i].name, users[i].role)
  BY RowsDiffer DEF Login, HasAccount, StillKnown, IInv, TypeOK, RolesHaveProfiles
<1> QED BY <1>1, GrantKnown DEF Login

LEMMA SwitchStep ==
  ASSUME IInv, NEW token \in tokens, NEW mode \in Role, SwitchMode(token, mode)
  PROVE  IInv'
<1>1. token.owner \in Ids /\ StillKnown(token.owner, token.name, token.role)
  BY DEF IInv, TypeOK, TokensKnown
<1>2. ASSUME mode = "DRIVER" PROVE drivers[token.owner] # NoDriver
  <2>1. PICK i \in Ids : HasAccount(i) /\ users[i].name = token.name /\ users[i].role = "DRIVER"
    BY <1>2 DEF SwitchMode, MayDrive, Named
  <2>2. i = token.owner
    BY <1>1, <2>1 DEF StillKnown, IInv, NamesUnique
  <2> QED BY <2>1, <2>2 DEF IInv, RolesHaveProfiles
<1>3. StillKnown(token.owner, token.name, mode)
  BY <1>1, <1>2 DEF StillKnown
<1> QED BY <1>1, <1>3, GrantKnown DEF SwitchMode

LEMMA CompleteStep ==
  ASSUME IInv, NEW r \in RideIds, CompleteRide(r)
  PROVE  IInv'
<1>1. PICK u, d \in Ids :
        /\ HasAccount(u) /\ drivers[d] # NoDriver
        /\ rides' = [rides EXCEPT ![r] = [rider |-> u, driver |-> d]]
  BY DEF CompleteRide
<1>2. HasAccount(d)
  BY <1>1 DEF IInv, ProfilesHaveAccounts
<1>3. TypeOK'
  BY <1>1 DEF CompleteRide, IInv, TypeOK, HasAccount, RowsInRange, InRange
<1>4. RidesHaveAccounts'
  BY <1>1, <1>2 DEF CompleteRide, IInv, TypeOK, RidesHaveAccounts, HasAccount
<1>5. \A t \in Threads : RequestKnown(t)'
  BY DEF CompleteRide, IInv, RequestKnown, RegisterKnown, DriverKnown, RateKnown, MarkKnown, StillKnown,
     HasAccount
<1> QED BY <1>3, <1>4, <1>5, SameRows DEF CompleteRide, IInv

LEMMA BeginTypes ==
  ASSUME IInv, NEW t \in Threads, NEW op, NEW i, NEW row, NEW profile, NEW ride, NEW from,
         NEW score, NEW step \in {"insert", "exists", "mark", "rating"},
         [op |-> op, id |-> i, row |-> row, profile |-> profile,
          ride |-> ride, from |-> from, score |-> score] \in Request,
         Begin(t, op, i, row, profile, ride, from, score, step)
  PROVE  /\ TypeOK' /\ UNCHANGED <<database, tokens>>
         /\ pc[t] = "idle" /\ pc'[t] = step
         /\ req'[t] \in Request
         /\ req'[t].op = op /\ req'[t].id = i /\ req'[t].row = row
         /\ req'[t].score = score /\ req'[t].ride = ride /\ req'[t].profile = profile
         /\ \A s \in Threads : s # t => pc'[s] = pc[s] /\ req'[s] = req[s]
<1> DEFINE q == [op |-> op, id |-> i, row |-> row, profile |-> profile,
                 ride |-> ride, from |-> from, score |-> score]
<1>1. q \in Request
  OBVIOUS
<1> HIDE DEF q
<1>2. /\ UNCHANGED <<database, tokens, spoiled, failures>> /\ pc[t] = "idle"
      /\ pc' = [pc EXCEPT ![t] = step] /\ req' = [req EXCEPT ![t] = q]
  BY DEF Begin, q
<1>3. started' \in 0..MaxRequests
  BY AccountAssumption DEF Begin, IInv, TypeOK
<1>4. pc' \in [Threads -> {"idle", "insert", "exists", "rating", "read_profile", "read_user",
                          "profile", "user", "mark", "respond"}]
  BY <1>2 DEF IInv, TypeOK
<1>5. req' \in [Threads -> Request \cup {Idle}]
  BY <1>1, <1>2 DEF IInv, TypeOK
<1>6. TypeOK'
  BY <1>2, <1>3, <1>4, <1>5 DEF IInv, TypeOK, database, HasAccount, RowsInRange, InRange
<1>7. pc'[t] = step /\ req'[t] = q
      /\ \A s \in Threads : s # t => pc'[s] = pc[s] /\ req'[s] = req[s]
  BY <1>2 DEF IInv, TypeOK
<1>8. q.op = op /\ q.id = i /\ q.row = row /\ q.score = score /\ q.ride = ride
      /\ q.profile = profile
  BY DEF q
<1> QED BY <1>1, <1>2, <1>6, <1>7, <1>8

\* A request begins that registers nobody: the others know what they knew.
LEMMA BeginRest ==
  ASSUME IInv, NEW t \in Threads, TypeOK', UNCHANGED <<database, tokens>>,
         req'[t].op # "register", RequestKnown(t)',
         \A s \in Threads : s # t => pc'[s] = pc[s] /\ req'[s] = req[s]
  PROVE  IInv'
<1>1. UNCHANGED <<users, drivers, rides, tokens>>
  BY DEF database
<1>2. /\ Grows /\ NamesUnique' /\ ProfilesHaveAccounts' /\ RolesHaveProfiles'
      /\ RidesHaveAccounts' /\ TokensKnown'
      /\ \A i \in Ids : HasAccount(i)' => HasAccount(i)
  BY <1>1, SameRows
<1>3. \A s \in Threads : RequestKnown(s)'
  BY <1>2, NoNewAccount
<1> QED BY <1>2, <1>3 DEF IInv

LEMMA BeginRegisterStep ==
  ASSUME IInv, NEW t \in Threads, BeginRegister(t)
  PROVE  IInv'
<1>1. PICK i \in Ids, name \in Names :
        /\ ~HasAccount(i) /\ \A s \in Threads : req[s].op = "register" => req[s].id # i
        /\ Begin(t, "register", i,
                 [name |-> name, role |-> "RIDER", avg_rating |-> 0, rating_count |-> 0],
                 NoDriver, NoRide, i, 0, "insert")
  BY DEF BeginRegister
<1> DEFINE row == [name |-> name, role |-> "RIDER", avg_rating |-> 0, rating_count |-> 0]
<1>2. row \in User /\ row.role = "RIDER" /\ row.rating_count = 0
  BY DEF User, Role
<1> HIDE DEF row
<1>3. Begin(t, "register", i, row, NoDriver, NoRide, i, 0, "insert")
  BY <1>1 DEF row
<1>4. /\ TypeOK' /\ UNCHANGED <<database, tokens>>
      /\ pc'[t] = "insert" /\ req'[t] \in Request
      /\ req'[t].op = "register" /\ req'[t].id = i /\ req'[t].row = row
      /\ \A s \in Threads : s # t => pc'[s] = pc[s] /\ req'[s] = req[s]
  <2>1. [op |-> "register", id |-> i, row |-> row, profile |-> NoDriver,
         ride |-> NoRide, from |-> i, score |-> 0] \in Request
    BY <1>2 DEF Request
  <2> QED BY <1>3, <2>1, BeginTypes
<1>5. UNCHANGED <<users, drivers, rides, tokens>>
  BY <1>4 DEF database
<1>6. /\ Grows /\ NamesUnique' /\ ProfilesHaveAccounts' /\ RolesHaveProfiles'
      /\ RidesHaveAccounts' /\ TokensKnown'
      /\ \A j \in Ids : HasAccount(j)' => HasAccount(j)
  BY <1>5, SameRows
<1>7. RequestKnown(t)'
  <2>1. RegisterKnown(t, req[t])'
    BY <1>1, <1>2, <1>4, <1>6 DEF RegisterKnown
  <2> QED BY <1>4, <2>1, RequestIsNotIdle DEF RequestKnown
<1>8. ASSUME NEW s \in Threads, s # t PROVE RequestKnown(s)'
  <2>1. ASSUME req[s].op = "register", pc[s] = "insert"
        PROVE  /\ ~HasAccount(req[s].id)'
               /\ \A x \in Threads : x # s /\ req'[x].op = "register" => req'[x].id # req[s].id
    <3>1. req[s] \in Request /\ RegisterKnown(s, req[s])
      BY <2>1 DEF IInv, RequestKnown
    <3>2. req[s].id \in Ids
      BY <3>1 DEF Request
    <3>3. req[s].id # i
      BY <1>1, <2>1
    <3>4. ~HasAccount(req[s].id)'
      <4>1. ~HasAccount(req[s].id)
        BY <2>1, <3>1 DEF RegisterKnown
      <4>2. req'[s] = req[s]
        BY <1>4, <1>8
      <4> QED BY <1>6, <3>2, <4>1, <4>2 DEF HasAccount
    <3>5. ASSUME NEW x \in Threads, x # s, req'[x].op = "register"
          PROVE  req'[x].id # req[s].id
      <4>1. CASE x = t
        BY <1>4, <3>3, <4>1
      <4>2. CASE x # t
        <5>1. req[x].op = "register" /\ req'[x] = req[x]
          BY <1>4, <3>5, <4>2
        <5> QED BY <2>1, <3>1, <3>5, <5>1 DEF RegisterKnown
      <4> QED BY <4>1, <4>2
    <3> QED BY <3>4, <3>5
  <2> QED BY <1>4, <1>6, <1>8, <2>1, OthersStay
<1> QED BY <1>4, <1>6, <1>7, <1>8 DEF IInv

LEMMA BeginDriverStep ==
  ASSUME IInv, NEW t \in Threads, BeginDriver(t)
  PROVE  IInv'
<1>1. PICK token \in tokens :
        \E i \in Named(token.name) : Begin(t, "driver", i, users[i], NoDriver, NoRide, i, 0, "exists")
  BY DEF BeginDriver
<1>2. PICK i \in Named(token.name) : Begin(t, "driver", i, users[i], NoDriver, NoRide, i, 0, "exists")
  BY <1>1
<1>3. i \in Ids /\ HasAccount(i)
  BY DEF Named
<1>4. users[i] \in User /\ InRange(users[i]) /\ StillKnown(i, users[i].name, users[i].role)
  <2>2. users[i] \in User /\ InRange(users[i])
    BY <1>3, RowsTyped DEF IInv
  <2>3. StillKnown(i, users[i].name, users[i].role)
    BY <1>3 DEF IInv, StillKnown, RolesHaveProfiles
  <2> QED BY <2>2, <2>3
<1>5. /\ TypeOK' /\ UNCHANGED <<database, tokens>>
      /\ pc'[t] = "exists" /\ req'[t] \in Request
      /\ req'[t].op = "driver" /\ req'[t].id = i /\ req'[t].row = users[i]
      /\ \A s \in Threads : s # t => pc'[s] = pc[s] /\ req'[s] = req[s]
  <2>1. [op |-> "driver", id |-> i, row |-> users[i], profile |-> NoDriver,
         ride |-> NoRide, from |-> i, score |-> 0] \in Request
    BY <1>3, <1>4 DEF Request
  <2> QED BY <1>2, <2>1, BeginTypes
<1>6. StillKnown(i, users[i].name, users[i].role)'
  BY <1>4, <1>5 DEF StillKnown, HasAccount, database
<1>7. RequestKnown(t)'
  <2>1. DriverKnown(t, req[t])'
    BY <1>4, <1>5, <1>6 DEF DriverKnown, InRange, database
  <2> QED BY <1>5, <2>1, RequestIsNotIdle DEF RequestKnown
<1> QED BY <1>5, <1>7, BeginRest

LEMMA BeginRateStep ==
  ASSUME IInv, NEW t \in Threads, BeginRate(t)
  PROVE  IInv'
<1>1. PICK r \in RideIds, score \in Scores : rides[r] # NoRide /\
        \E from \in {rides[r].rider, rides[r].driver} :
          /\ ValidScore(score)
          /\ Begin(t, "rate",
                   IF from = rides[r].rider THEN rides[r].driver ELSE rides[r].rider,
                   NoUser, NoDriver, r, from, score, "rating")
  BY DEF BeginRate
<1>2. PICK from \in {rides[r].rider, rides[r].driver} :
          /\ ValidScore(score)
          /\ Begin(t, "rate",
                   IF from = rides[r].rider THEN rides[r].driver ELSE rides[r].rider,
                   NoUser, NoDriver, r, from, score, "rating")
  BY <1>1
<1>3. PICK to : to = IF from = rides[r].rider THEN rides[r].driver ELSE rides[r].rider
  OBVIOUS
<1>4. rides[r].rider \in Ids /\ rides[r].driver \in Ids
  BY <1>1 DEF IInv, TypeOK
<1>5. from \in Ids /\ to \in Ids /\ HasAccount(to)
  BY <1>1, <1>3, <1>4 DEF IInv, RidesHaveAccounts
<1>6. Begin(t, "rate", to, NoUser, NoDriver, r, from, score, "rating") /\ score \in 1..5
  BY <1>2, <1>3 DEF ValidScore
<1>7. /\ TypeOK' /\ UNCHANGED <<database, tokens>>
      /\ pc'[t] = "rating" /\ req'[t] \in Request
      /\ req'[t].op = "rate" /\ req'[t].id = to /\ req'[t].score = score /\ req'[t].ride = r
      /\ \A s \in Threads : s # t => pc'[s] = pc[s] /\ req'[s] = req[s]
  <2>1. [op |-> "rate", id |-> to, row |-> NoUser, profile |-> NoDriver,
         ride |-> r, from |-> from, score |-> score] \in Request
    BY <1>5, <1>6 DEF Request
  <2> QED BY <1>6, <2>1, BeginTypes
<1>8. RequestKnown(t)'
  <2>1. RateKnown(t, req[t])'
    BY <1>5, <1>6, <1>7 DEF RateKnown, HasAccount, database
  <2> QED BY <1>7, <2>1, RequestIsNotIdle DEF RequestKnown
<1> QED BY <1>7, <1>8, BeginRest

LEMMA BeginMarkStep ==
  ASSUME IInv, NEW t \in Threads, BeginMark(t)
  PROVE  IInv'
<1>1. PICK i \in Ids : /\ drivers[i] # NoDriver
                       /\ Begin(t, "mark", i, NoUser, drivers[i], NoRide, i, 0, "mark")
  BY DEF BeginMark
<1>2. drivers[i] \in Driver /\ InRange(drivers[i]) /\ HasAccount(i)
  BY <1>1, RowsTyped DEF IInv, ProfilesHaveAccounts
<1>3. /\ TypeOK' /\ UNCHANGED <<database, tokens>>
      /\ pc'[t] = "mark" /\ req'[t] \in Request
      /\ req'[t].op = "mark" /\ req'[t].id = i /\ req'[t].profile = drivers[i]
      /\ \A s \in Threads : s # t => pc'[s] = pc[s] /\ req'[s] = req[s]
  <2>1. [op |-> "mark", id |-> i, row |-> NoUser, profile |-> drivers[i],
         ride |-> NoRide, from |-> i, score |-> 0] \in Request
    BY <1>2 DEF Request
  <2> QED BY <1>1, <2>1, BeginTypes
<1>4. RequestKnown(t)'
  <2>1. MarkKnown(t, req[t])'
    BY <1>1, <1>2, <1>3 DEF MarkKnown, HasAccount, InRange, database
  <2> QED BY <1>3, <2>1, RequestIsNotIdle DEF RequestKnown
<1> QED BY <1>3, <1>4, BeginRest

-----------------------------------------------------------------------------
(* The calls of requests. *)

LEMMA GrowthKeeps ==
  ASSUME IInv, Grows, UNCHANGED <<rides, tokens>>
  PROVE  RidesHaveAccounts' /\ TokensKnown'
<1>1. RidesHaveAccounts'
  BY DEF IInv, TypeOK, RidesHaveAccounts, Grows, HasAccount
<1>2. ASSUME NEW token \in tokens PROVE StillKnown(token.owner, token.name, token.role)'
  <2>1. token.owner \in Ids /\ StillKnown(token.owner, token.name, token.role)
    BY DEF IInv, TypeOK, TokensKnown
  <2> QED BY <2>1, KnownStays
<1> QED BY <1>1, <1>2 DEF TokensKnown

\* Thread t moves on, with `step` what it does next.
LEMMA GotoTypes ==
  ASSUME IInv, NEW t \in Threads, NEW step, Goto(t, step), pc[t] # "idle",
         step \in {"idle", "profile", "read_profile", "read_user", "user", "respond"}
  PROVE  /\ pc' \in [Threads -> {"idle", "insert", "exists", "rating", "read_profile",
                                 "read_user", "profile", "user", "mark", "respond"}]
         /\ req' \in [Threads -> Request \cup {Idle}]
<1>1. pc' = [pc EXCEPT ![t] = step]
  BY DEF Goto
<1> QED BY <1>1, GotoEffect DEF IInv, TypeOK

\* The calls after which the tables of accounts are as before.
LEMMA QuietRest ==
  ASSUME IInv, NEW t \in Threads, UNCHANGED <<users, drivers, rides, tokens>>, TypeOK',
         \A s \in Threads : s # t => pc'[s] = pc[s] /\ req'[s] = req[s],
         req'[t].op = "register" => req[t].op = "register" /\ req'[t].id = req[t].id,
         RequestKnown(t)'
  PROVE  IInv'
<1>1. /\ Grows /\ NamesUnique' /\ ProfilesHaveAccounts' /\ RolesHaveProfiles'
      /\ RidesHaveAccounts' /\ TokensKnown'
      /\ \A i \in Ids : HasAccount(i)' => HasAccount(i)
  BY SameRows
<1>2. \A s \in Threads : RequestKnown(s)'
  BY <1>1, NoNewAccount
<1> QED BY <1>1, <1>2 DEF IInv

LEMMA InsertStep ==
  ASSUME IInv, NEW t \in Threads, Insert(t)
  PROVE  IInv'
<1> DEFINE q == req[t]
<1>1. /\ pc[t] = "insert" /\ q \in Request /\ q.id \in Ids
      /\ q.op = "register" /\ RegisterKnown(t, q)
  <2>1. pc[t] = "insert" /\ RequestKnown(t)
    BY DEF Insert, IInv
  <2>2. q \in Request
    BY <2>1 DEF RequestKnown
  <2>3. q.op = "register"
    BY <2>1, <2>2, RequestIsNotIdle DEF RequestKnown, DriverKnown, RateKnown, MarkKnown
  <2>4. q.id \in Ids
    BY <2>2 DEF Request
  <2> QED BY <2>1, <2>2, <2>3, <2>4 DEF RequestKnown
<1>2. UNCHANGED <<drivers, rides, ratings, tokens, spoiled, started, failures>>
  BY DEF Insert
<1>3. CASE Unique(q.row.name) /\ users' = [users EXCEPT ![q.id] = q.row] /\ Goto(t, "respond")
  <2>1. q.row \in User /\ q.row # NoUser /\ q.row.role = "RIDER" /\ q.row.rating_count = 0
        /\ ~HasAccount(q.id)
    BY <1>1, RowsDiffer DEF RegisterKnown
  <2>2. users'[q.id] = q.row /\ (\A i \in Ids : i # q.id => users'[i] = users[i])
        /\ users' \in [Ids -> User \cup {NoUser}]
    BY <1>1, <1>3, <2>1 DEF IInv, TypeOK
  <2>3. Grows
    BY <1>2, <2>1, <2>2 DEF Grows, HasAccount
  <2>4. RidesHaveAccounts' /\ TokensKnown'
    BY <1>2, <2>3, GrowthKeeps
  <2>5. NamesUnique'
    BY <1>1, <1>3, <2>2 DEF IInv, NamesUnique, Unique, Named, HasAccount
  <2>6. ProfilesHaveAccounts'
    BY <1>2, <2>3 DEF IInv, ProfilesHaveAccounts, Grows
  <2>7. RolesHaveProfiles'
    BY <1>2, <2>1, <2>2 DEF IInv, RolesHaveProfiles, HasAccount
  <2>8. TypeOK'
    <3>1. InRange(q.row)
      BY <2>1 DEF InRange
    <3>2. RowsInRange'
      BY <1>2, <2>2, <3>1 DEF IInv, TypeOK, RowsInRange, HasAccount, InRange
    <3> QED BY <1>1, <1>2, <1>3, <2>2, <3>2, GotoTypes DEF IInv, TypeOK
  <2>9. /\ pc'[t] = "respond" /\ req'[t] = q
        /\ \A s \in Threads : s # t => pc'[s] = pc[s] /\ req'[s] = req[s]
    BY <1>3, GotoEffect
  <2>10. RequestKnown(t)'
    <3>1. StillKnown(q.id, q.row.name, q.row.role)'
      BY <2>1, <2>2, <2>9 DEF StillKnown, HasAccount
    <3>2. RegisterKnown(t, req[t])'
      BY <2>1, <2>9, <3>1 DEF RegisterKnown
    <3> QED BY <1>1, <2>9, <3>2, RequestIsNotIdle DEF RequestKnown
  <2>11. ASSUME NEW s \in Threads, s # t PROVE RequestKnown(s)'
    <3>1. ASSUME req[s].op = "register", pc[s] = "insert"
          PROVE  /\ ~HasAccount(req[s].id)'
                 /\ \A x \in Threads : x # s /\ req'[x].op = "register"
                                         => req'[x].id # req[s].id
      <4>1. req[s] \in Request /\ RegisterKnown(s, req[s])
        BY <3>1 DEF IInv, RequestKnown
      <4>2. req[s].id \in Ids /\ req[s].id # q.id /\ ~HasAccount(req[s].id)
        BY <1>1, <2>11, <3>1, <4>1 DEF RegisterKnown, Request
      <4>3. req'[s] = req[s] /\ req'[t] = req[t]
        BY <2>9, <2>11
      <4>4. ~HasAccount(req[s].id)'
        BY <2>2, <4>2, <4>3 DEF HasAccount
      <4>5. \A x \in Threads : req'[x] = req[x]
        BY <2>9
      <4>6. \A x \in Threads : x # s /\ req'[x].op = "register" => req'[x].id # req[s].id
        BY <3>1, <4>1, <4>5 DEF RegisterKnown
      <4> QED BY <4>4, <4>6
    <3> QED BY <2>3, <2>9, <2>11, <3>1, OthersStay
  <2> QED BY <2>4, <2>5, <2>6, <2>7, <2>8, <2>10, <2>11 DEF IInv
<1>4. CASE UNCHANGED users /\ Goto(t, "idle")
  <2>1. TypeOK'
    BY <1>1, <1>2, <1>4, GotoTypes DEF IInv, TypeOK, RowsInRange, HasAccount, InRange
  <2> QED BY <1>2, <1>4, <2>1, GotoEffect, QuietRest
<1> QED BY <1>3, <1>4 DEF Insert

LEMMA CheckProfileStep ==
  ASSUME IInv, NEW t \in Threads, CheckProfile(t)
  PROVE  IInv'
<1> DEFINE q == req[t]
<1>1. pc[t] = "exists" /\ RequestKnown(t) /\ UNCHANGED <<database, tokens, spoiled, started, failures>>
  BY DEF CheckProfile, IInv
<1>2. q \in Request /\ q.op = "driver" /\ DriverKnown(t, q)
  <2>1. q \in Request
    BY <1>1 DEF RequestKnown
  <2>2. q.op = "driver"
    BY <1>1, <2>1, RequestIsNotIdle DEF RequestKnown, RegisterKnown, RateKnown, MarkKnown
  <2> QED BY <1>1, <2>1, <2>2 DEF RequestKnown
<1>3. PICK step : step \in {"profile", "idle"} /\ Goto(t, step)
  BY <1>2 DEF CheckProfile, StepsOf
<1>4. TypeOK'
  BY <1>1, <1>3, GotoTypes DEF IInv, TypeOK, RowsInRange, HasAccount, InRange, database
<1>5. RequestKnown(t)'
  <2>1. CASE step = "idle"
    BY <1>3, <2>1, GotoEffect
  <2>2. CASE step = "profile"
    <3>1. pc'[t] = "profile" /\ req'[t] = q
      BY <1>3, <2>2, GotoEffect
    <3>2. StillKnown(q.id, q.row.name, q.row.role)'
      BY <1>1, <1>2, <3>1 DEF DriverKnown, StillKnown, HasAccount, database
    <3>3. DriverKnown(t, req[t])'
      BY <1>2, <3>1, <3>2 DEF DriverKnown, InRange
    <3> QED BY <1>2, <3>1, <3>3, RequestIsNotIdle DEF RequestKnown
  <2> QED BY <1>3, <2>1, <2>2
<1> QED BY <1>1, <1>3, <1>4, <1>5, GotoEffect, QuietRest DEF database

\* What the thread that is about to make one of a rating's own calls knows.
LEMMA RateRequest ==
  ASSUME IInv, NEW t \in Threads, pc[t] \in {"rating", "read_profile", "read_user"}
  PROVE  /\ req[t] \in Request /\ req[t].op = "rate" /\ RateKnown(t, req[t])
         /\ req[t].id \in Ids /\ HasAccount(req[t].id) /\ req[t].score \in 1..5
<1>1. RequestKnown(t)
  BY DEF IInv
<1>2. req[t] \in Request
  BY <1>1 DEF RequestKnown
<1>3. req[t].op = "rate"
  BY <1>1, <1>2, RequestIsNotIdle DEF RequestKnown, RegisterKnown, DriverKnown, MarkKnown
<1>4. RateKnown(t, req[t])
  BY <1>1, <1>3 DEF RequestKnown
<1> QED BY <1>2, <1>3, <1>4 DEF RateKnown, Request

LEMMA SaveRatingStep ==
  ASSUME IInv, NEW t \in Threads, SaveRating(t)
  PROVE  IInv'
<1> DEFINE q == req[t]
<1>1. /\ q \in Request /\ q.op = "rate" /\ q.id \in Ids /\ HasAccount(q.id) /\ q.score \in 1..5
      /\ pc[t] = "rating" /\ UNCHANGED <<users, drivers, rides, tokens, spoiled, started, failures>>
  BY RateRequest DEF SaveRating
<1>2. q.from \in Ids /\ q.ride \in RideIds \cup {NoRide}
  BY <1>1 DEF Request
<1>3. CASE /\ ratings' = ratings \cup
                {[ride |-> q.ride, from |-> q.from, to |-> q.id, score |-> q.score]}
           /\ Goto(t, "read_profile")
  <2>1. q.ride \in RideIds
    BY <1>1, RateRequest DEF RateKnown
  <2>2. ratings' \subseteq Rating
    BY <1>1, <1>2, <1>3, <2>1 DEF IInv, TypeOK, Rating
  <2>3. TypeOK'
    BY <1>1, <1>3, <2>2, GotoTypes DEF IInv, TypeOK, RowsInRange, HasAccount, InRange
  <2>4. RequestKnown(t)'
    <3>1. pc'[t] = "read_profile" /\ req'[t] = q
      BY <1>3, GotoEffect
    <3>2. RateKnown(t, req[t])'
      BY <1>1, <2>1, <3>1 DEF RateKnown, HasAccount
    <3> QED BY <1>1, <3>1, <3>2, RequestIsNotIdle DEF RequestKnown
  <2> QED BY <1>1, <1>3, <2>3, <2>4, GotoEffect, QuietRest
<1>4. CASE UNCHANGED ratings /\ Goto(t, "idle")
  <2>1. TypeOK'
    BY <1>1, <1>4, GotoTypes DEF IInv, TypeOK, RowsInRange, HasAccount, InRange
  <2> QED BY <1>1, <1>4, <2>1, GotoEffect, QuietRest
<1> QED BY <1>3, <1>4 DEF SaveRating

\* A request reads a row into its locals.
LEMMA ReadEffect ==
  ASSUME IInv, NEW t \in Threads, NEW step, NEW q \in Request, pc[t] # "idle",
         step \in {"read_user", "profile", "user"},
         pc' = [pc EXCEPT ![t] = step], req' = [req EXCEPT ![t] = q],
         UNCHANGED <<database, tokens, spoiled, started, failures>>
  PROVE  /\ TypeOK' /\ UNCHANGED <<users, drivers, rides, tokens>>
         /\ pc'[t] = step /\ req'[t] = q
         /\ \A s \in Threads : s # t => pc'[s] = pc[s] /\ req'[s] = req[s]
<1>1. /\ pc'[t] = step /\ req'[t] = q
      /\ \A s \in Threads : s # t => pc'[s] = pc[s] /\ req'[s] = req[s]
  BY DEF IInv, TypeOK
<1>2. pc' \in [Threads -> {"idle", "insert", "exists", "rating", "read_profile", "read_user",
                          "profile", "user", "mark", "respond"}]
  BY DEF IInv, TypeOK
<1>3. req' \in [Threads -> Request \cup {Idle}]
  BY DEF IInv, TypeOK
<1>4. TypeOK'
  BY <1>2, <1>3 DEF IInv, TypeOK, RowsInRange, HasAccount, InRange, database
<1> QED BY <1>1, <1>4 DEF database

LEMMA ReadProfileStep ==
  ASSUME IInv, NEW t \in Threads, ReadProfile(t)
  PROVE  IInv'
<1>1. /\ req[t] \in Request /\ req[t].op = "rate" /\ req[t].id \in Ids
      /\ HasAccount(req[t].id) /\ req[t].score \in 1..5 /\ RateKnown(t, req[t])
      /\ pc[t] = "read_profile"
  BY RateRequest DEF ReadProfile
<1> DEFINE q == [req[t] EXCEPT !.profile = drivers[req[t].id]]
           step == IF drivers[req[t].id] = NoDriver THEN "read_user" ELSE "profile"
<1>2. drivers[req[t].id] \in Driver \cup {NoDriver}
  BY <1>1 DEF IInv, TypeOK
<1>3. /\ q \in Request /\ q.op = "rate" /\ q.id = req[t].id /\ q.score = req[t].score
      /\ q.profile = drivers[req[t].id] /\ q.ride = req[t].ride
  BY <1>1, <1>2 DEF Request
<1>4. pc' = [pc EXCEPT ![t] = step] /\ req' = [req EXCEPT ![t] = q]
      /\ UNCHANGED <<database, tokens, spoiled, started, failures>>
  BY DEF ReadProfile, IInv, TypeOK
<1> HIDE DEF q
<1>5. step \in {"read_user", "profile"}
  OBVIOUS
<1>6. drivers[req[t].id] # NoDriver => InRange(drivers[req[t].id])
  BY <1>1, RowsTyped DEF IInv
<1>7. step = "profile" => drivers[req[t].id] # NoDriver
  OBVIOUS
<1> HIDE DEF step
<1>8. /\ TypeOK' /\ UNCHANGED <<users, drivers, rides, tokens>>
      /\ pc'[t] = step /\ req'[t] = q
      /\ \A s \in Threads : s # t => pc'[s] = pc[s] /\ req'[s] = req[s]
  BY <1>1, <1>3, <1>4, <1>5, ReadEffect
<1>9. RequestKnown(t)'
  <2>1. RateKnown(t, req[t])'
    BY <1>1, <1>2, <1>3, <1>5, <1>6, <1>7, <1>8 DEF RateKnown, HasAccount, InRange
  <2> QED BY <1>3, <1>5, <1>8, <2>1, RequestIsNotIdle DEF RequestKnown
<1> QED BY <1>3, <1>8, <1>9, QuietRest

LEMMA ReadUserStep ==
  ASSUME IInv, NEW t \in Threads, ReadUser(t)
  PROVE  IInv'
<1>1. /\ req[t] \in Request /\ req[t].op = "rate" /\ req[t].id \in Ids
      /\ HasAccount(req[t].id) /\ req[t].score \in 1..5 /\ RateKnown(t, req[t])
      /\ pc[t] = "read_user"
  BY RateRequest DEF ReadUser
<1> DEFINE q == [req[t] EXCEPT !.row = users[req[t].id]]
<1>2. users[req[t].id] \in User /\ InRange(users[req[t].id])
  BY <1>1, RowsTyped DEF IInv
<1>3. /\ q \in Request /\ q.op = "rate" /\ q.id = req[t].id /\ q.score = req[t].score
      /\ q.row = users[req[t].id] /\ q.ride = req[t].ride
  BY <1>1, <1>2 DEF Request
<1>4. pc' = [pc EXCEPT ![t] = "user"] /\ req' = [req EXCEPT ![t] = q]
      /\ UNCHANGED <<database, tokens, spoiled, started, failures>>
  BY DEF ReadUser, IInv, TypeOK
<1> HIDE DEF q
<1>5. /\ TypeOK' /\ UNCHANGED <<users, drivers, rides, tokens>>
      /\ pc'[t] = "user" /\ req'[t] = q
      /\ \A s \in Threads : s # t => pc'[s] = pc[s] /\ req'[s] = req[s]
  BY <1>1, <1>3, <1>4, ReadEffect
<1>6. StillKnown(q.id, q.row.name, q.row.role)
  BY <1>1, <1>3 DEF StillKnown, IInv, RolesHaveProfiles
<1>7. StillKnown(req[t].id, req[t].row.name, req[t].row.role)'
  BY <1>3, <1>5, <1>6 DEF StillKnown, HasAccount
<1>8. RequestKnown(t)'
  <2>1. RateKnown(t, req[t])'
    <3>1. HasAccount(req[t].id)'
      BY <1>7 DEF StillKnown
    <3>2. InRange(req[t].row)' /\ req'[t].row \in User
      BY <1>2, <1>3, <1>5 DEF InRange
    <3> QED BY <1>1, <1>3, <1>5, <1>7, <3>1, <3>2 DEF RateKnown
  <2> QED BY <1>3, <1>5, <2>1, RequestIsNotIdle DEF RequestKnown
<1> QED BY <1>3, <1>5, <1>8, QuietRest

-----------------------------------------------------------------------------
(* The saves of rows. *)

LEMMA PutProfile ==
  ASSUME IInv, NEW i \in Ids, HasAccount(i), NEW p \in Driver, InRange(p),
         drivers' = [drivers EXCEPT ![i] = p], UNCHANGED users
  PROVE  /\ Grows /\ NamesUnique' /\ ProfilesHaveAccounts' /\ RolesHaveProfiles' /\ RowsInRange'
         /\ drivers' \in [Ids -> Driver \cup {NoDriver}] /\ drivers'[i] # NoDriver
         /\ \A j \in Ids : HasAccount(j)' => HasAccount(j)
<1>1. /\ drivers'[i] = p /\ p # NoDriver /\ drivers' \in [Ids -> Driver \cup {NoDriver}]
      /\ \A j \in Ids : j # i => drivers'[j] = drivers[j]
  BY RowsDiffer DEF IInv, TypeOK
<1>2. Grows /\ NamesUnique' /\ ProfilesHaveAccounts' /\ RolesHaveProfiles'
  BY <1>1 DEF IInv, Grows, NamesUnique, ProfilesHaveAccounts, RolesHaveProfiles, HasAccount
<1>3. RowsInRange'
  BY <1>1 DEF IInv, TypeOK, RowsInRange, InRange, HasAccount
<1> QED BY <1>1, <1>2, <1>3 DEF HasAccount

LEMMA PutUser ==
  ASSUME IInv, NEW i \in Ids, HasAccount(i), NEW row \in User, InRange(row),
         row.name = users[i].name, row.role = "DRIVER" => drivers[i] # NoDriver,
         users' = [users EXCEPT ![i] = row], UNCHANGED drivers
  PROVE  /\ Grows /\ NamesUnique' /\ ProfilesHaveAccounts' /\ RolesHaveProfiles' /\ RowsInRange'
         /\ users' \in [Ids -> User \cup {NoUser}]
         /\ \A j \in Ids : HasAccount(j)' => HasAccount(j)
<1>1. /\ users'[i] = row /\ row # NoUser /\ users' \in [Ids -> User \cup {NoUser}]
      /\ \A j \in Ids : j # i => users'[j] = users[j]
  BY RowsDiffer DEF IInv, TypeOK
<1>2. Grows /\ \A j \in Ids : HasAccount(j)' => HasAccount(j)
  BY <1>1 DEF Grows, HasAccount
<1>3. \A j \in Ids : users'[j].name = users[j].name
  BY <1>1
<1>4. NamesUnique'
  BY <1>2, <1>3 DEF IInv, NamesUnique
<1>5. ProfilesHaveAccounts' /\ RolesHaveProfiles'
  BY <1>1, <1>2 DEF IInv, Grows, ProfilesHaveAccounts, RolesHaveProfiles, HasAccount
<1>6. RowsInRange'
  BY <1>1 DEF IInv, TypeOK, RowsInRange, InRange, HasAccount
<1> QED BY <1>1, <1>2, <1>4, <1>5, <1>6

\* A row with a rating more is a row, and its average is in range.
LEMMA RatedUser ==
  ASSUME NEW row \in User, InRange(row), NEW score \in 1..5, NEW avg \in Averages(row, score)
  PROVE  /\ Rated(row, score, avg) \in User /\ InRange(Rated(row, score, avg))
         /\ Rated(row, score, avg).name = row.name
         /\ Rated(row, score, avg).role = row.role
<1>1. row.rating_count \in Nat /\ row.avg_rating \in 0..500
  BY DEF User
<1>2. avg \in 100..500
  BY <1>1, AverageInRange
<1>3. avg \in 0..500 /\ row.rating_count + 1 \in Nat
  BY <1>1, <1>2
<1> DEFINE new == Rated(row, score, avg)
<1>4. new = [row EXCEPT !.avg_rating = avg, !.rating_count = row.rating_count + 1]
  BY DEF Rated
<1>5. new \in User /\ new.avg_rating = avg /\ new.name = row.name /\ new.role = row.role
  BY <1>3, <1>4 DEF User
<1>6. InRange(new)
  BY <1>2, <1>5 DEF InRange
<1> QED BY <1>5, <1>6

LEMMA RatedProfile ==
  ASSUME NEW row \in Driver, InRange(row), NEW score \in 1..5, NEW avg \in Averages(row, score)
  PROVE  Rated(row, score, avg) \in Driver /\ InRange(Rated(row, score, avg))
<1>1. row.rating_count \in Nat /\ row.avg_rating \in 0..500
  BY DEF Driver
<1>2. avg \in 100..500
  BY <1>1, AverageInRange
<1>3. avg \in 0..500 /\ row.rating_count + 1 \in Nat
  BY <1>1, <1>2
<1> DEFINE new == Rated(row, score, avg)
<1>4. new = [row EXCEPT !.avg_rating = avg, !.rating_count = row.rating_count + 1]
  BY DEF Rated
<1>5. new \in Driver /\ new.avg_rating = avg
  BY <1>3, <1>4 DEF Driver
<1>6. InRange(new)
  BY <1>2, <1>5 DEF InRange
<1> QED BY <1>5, <1>6

LEMMA SpoiledTypes ==
  ASSUME IInv, NEW i \in Ids, NEW stale \in BOOLEAN, Spoil(i, stale)
  PROVE  spoiled' \subseteq Ids
BY DEF Spoil, IInv, TypeOK

\* What the thread that is about to save a row knows.
LEMMA SaveRequest ==
  ASSUME IInv, NEW t \in Threads, pc[t] \in {"profile", "user"}
  PROVE  /\ req[t] \in Request /\ req[t].id \in Ids /\ HasAccount(req[t].id)
         /\ \/ req[t].op = "driver" /\ DriverKnown(t, req[t])
            \/ req[t].op = "rate" /\ RateKnown(t, req[t])
<1>1. RequestKnown(t)
  BY DEF IInv
<1>2. req[t] \in Request
  BY <1>1 DEF RequestKnown
<1>3. req[t].op # "register" /\ req[t].op # "mark"
  BY <1>1 DEF RequestKnown, RegisterKnown, MarkKnown
<1>4. \/ req[t].op = "driver" /\ DriverKnown(t, req[t])
      \/ req[t].op = "rate" /\ RateKnown(t, req[t])
  BY <1>1, <1>2, <1>3, RequestIsNotIdle DEF RequestKnown
<1> QED BY <1>2, <1>4 DEF DriverKnown, RateKnown, MarkKnown, StillKnown, Request

\* What the thread that is about to write a profile back knows.
LEMMA MarkRequest ==
  ASSUME IInv, NEW t \in Threads, pc[t] = "mark"
  PROVE  /\ req[t] \in Request /\ req[t].id \in Ids
         /\ req[t].op = "mark" /\ MarkKnown(t, req[t])
<1>1. RequestKnown(t)
  BY DEF IInv
<1>2. req[t] \in Request
  BY <1>1 DEF RequestKnown
<1>3. req[t].op = "mark"
  BY <1>1, <1>2, RequestIsNotIdle DEF RequestKnown, RegisterKnown, DriverKnown, RateKnown
<1> QED BY <1>1, <1>2, <1>3 DEF RequestKnown, Request

LEMMA SaveProfileStep ==
  ASSUME IInv, NEW t \in Threads, SaveProfile(t)
  PROVE  IInv'
<1> DEFINE q == req[t]
<1>1. /\ q \in Request /\ q.id \in Ids /\ HasAccount(q.id) /\ pc[t] = "profile"
      /\ \/ q.op = "driver" /\ DriverKnown(t, q)
         \/ q.op = "rate" /\ RateKnown(t, q)
  BY SaveRequest DEF SaveProfile
<1>2. PICK p \in Driver : InRange(p) /\ drivers' = [drivers EXCEPT ![q.id] = p]
  <2>1. CASE q.op = "driver"
    BY <2>1, RowsDiffer DEF SaveProfile
  <2>2. CASE q.op = "rate"
    <3>1. q.profile \in Driver /\ InRange(q.profile) /\ q.score \in 1..5
      BY <1>1, <2>2 DEF RateKnown
    <3>2. PICK avg \in Averages(q.profile, q.score) :
            drivers' = [drivers EXCEPT ![q.id] = Rated(q.profile, q.score, avg)]
      BY <2>2 DEF SaveProfile
    <3> QED BY <3>1, <3>2, RatedProfile
  <2> QED BY <1>1, <2>1, <2>2
<1>3. UNCHANGED <<users, rides, ratings, tokens, spoiled, started, failures>>
  BY DEF SaveProfile
<1>4. /\ Grows /\ NamesUnique' /\ ProfilesHaveAccounts' /\ RolesHaveProfiles' /\ RowsInRange'
      /\ drivers' \in [Ids -> Driver \cup {NoDriver}] /\ drivers'[q.id] # NoDriver
      /\ \A j \in Ids : HasAccount(j)' => HasAccount(j)
  BY <1>1, <1>2, <1>3, PutProfile
<1>5. RidesHaveAccounts' /\ TokensKnown'
  BY <1>3, <1>4, GrowthKeeps
<1>6. PICK step : /\ Goto(t, step)
                  /\ q.op = "driver" => step = "user"
                  /\ q.op = "rate" => step = "read_user"
  BY <1>1 DEF SaveProfile, StepsOf
<1>7. /\ pc'[t] = step /\ req'[t] = q /\ step \in {"user", "read_user"}
      /\ \A s \in Threads : s # t => pc'[s] = pc[s] /\ req'[s] = req[s]
  BY <1>1, <1>6, GotoEffect
<1>8. TypeOK'
  BY <1>1, <1>3, <1>4, <1>6, <1>7, GotoTypes DEF IInv, TypeOK
<1>9. RequestKnown(t)'
  <2>1. CASE q.op = "driver"
    <3>1. StillKnown(req[t].id, req[t].row.name, req[t].row.role)'
      BY <1>1, <1>3, <1>4, <1>7, <2>1 DEF DriverKnown, StillKnown, HasAccount
    <3>2. DriverKnown(t, req[t])'
      BY <1>1, <1>4, <1>6, <1>7, <2>1, <3>1 DEF DriverKnown, InRange
    <3> QED BY <1>1, <1>7, <2>1, <3>2, RequestIsNotIdle DEF RequestKnown
  <2>2. CASE q.op = "rate"
    <3>1. RateKnown(t, req[t])'
      BY <1>1, <1>3, <1>6, <1>7, <2>2 DEF RateKnown, HasAccount
    <3> QED BY <1>1, <1>7, <2>2, <3>1, RequestIsNotIdle DEF RequestKnown
  <2> QED BY <1>1, <2>1, <2>2
<1>10. \A s \in Threads : RequestKnown(s)'
  BY <1>1, <1>4, <1>7, <1>9, NoNewAccount
<1> QED BY <1>4, <1>5, <1>8, <1>10 DEF IInv

LEMMA SaveMarkStep ==
  ASSUME IInv, NEW t \in Threads, SaveMark(t)
  PROVE  IInv'
<1> DEFINE q == req[t]
<1>1. /\ pc[t] = "mark" /\ RequestKnown(t) /\ Goto(t, "idle")
      /\ drivers' = [drivers EXCEPT ![q.id] = q.profile]
      /\ UNCHANGED <<users, rides, ratings, tokens, spoiled, started, failures>>
  BY DEF SaveMark, IInv
<1>2. q \in Request /\ q.id \in Ids /\ MarkKnown(t, q)
  BY <1>1, MarkRequest
<1>3. PICK p \in Driver : p = q.profile /\ InRange(p)
  BY <1>2 DEF MarkKnown
<1>4. /\ Grows /\ NamesUnique' /\ ProfilesHaveAccounts' /\ RolesHaveProfiles' /\ RowsInRange'
      /\ drivers' \in [Ids -> Driver \cup {NoDriver}]
      /\ \A j \in Ids : HasAccount(j)' => HasAccount(j)
  BY <1>1, <1>2, <1>3, PutProfile DEF MarkKnown
<1>5. RidesHaveAccounts' /\ TokensKnown'
  BY <1>1, <1>4, GrowthKeeps
<1>6. TypeOK'
  BY <1>1, <1>4, GotoTypes DEF IInv, TypeOK
<1>7. \A s \in Threads : RequestKnown(s)'
  BY <1>1, <1>4, GotoEffect, NoNewAccount
<1> QED BY <1>4, <1>5, <1>6, <1>7 DEF IInv

LEMMA SaveUserStep ==
  ASSUME IInv, NEW t \in Threads, SaveUser(t)
  PROVE  IInv'
<1> DEFINE q == req[t]
<1>1. /\ q \in Request /\ q.id \in Ids /\ HasAccount(q.id) /\ pc[t] = "user"
      /\ \/ q.op = "driver" /\ DriverKnown(t, q)
         \/ q.op = "rate" /\ RateKnown(t, q)
  BY SaveRequest DEF SaveUser
<1>2. q.row \in User /\ InRange(q.row) /\ StillKnown(q.id, q.row.name, q.row.role)
  BY <1>1 DEF DriverKnown, RateKnown
<1>3. PICK row \in User : /\ InRange(row) /\ row.name = q.row.name
                          /\ row.role = "DRIVER" => drivers[q.id] # NoDriver
                          /\ users' = [users EXCEPT ![q.id] = row]
  <2>1. CASE q.op = "driver"
    <3> DEFINE row == [q.row EXCEPT !.role = "DRIVER"]
    <3>1. drivers[q.id] # NoDriver
      BY <1>1, <2>1 DEF DriverKnown
    <3>2. row \in User /\ InRange(row) /\ row.name = q.row.name
      BY <1>2 DEF User, Role, InRange
    <3>3. users' = [users EXCEPT ![q.id] = row]
      BY <2>1 DEF SaveUser
    <3> QED BY <3>1, <3>2, <3>3
  <2>2. CASE q.op = "rate"
    <3>1. q.score \in 1..5
      BY <1>1, <2>2 DEF RateKnown
    <3>2. PICK avg \in Averages(q.row, q.score) :
            users' = [users EXCEPT ![q.id] = Rated(q.row, q.score, avg)]
      BY <2>2 DEF SaveUser
    <3>3. /\ Rated(q.row, q.score, avg) \in User /\ InRange(Rated(q.row, q.score, avg))
          /\ Rated(q.row, q.score, avg).name = q.row.name
          /\ Rated(q.row, q.score, avg).role = q.row.role
      BY <1>2, <3>1, RatedUser
    <3> QED BY <1>2, <3>2, <3>3 DEF StillKnown
  <2> QED BY <1>1, <2>1, <2>2
<1>4. UNCHANGED <<drivers, rides, ratings, tokens, started, failures>>
  BY DEF SaveUser
<1>5. row.name = users[q.id].name
  BY <1>2, <1>3 DEF StillKnown
<1>6. /\ Grows /\ NamesUnique' /\ ProfilesHaveAccounts' /\ RolesHaveProfiles' /\ RowsInRange'
      /\ users' \in [Ids -> User \cup {NoUser}]
      /\ \A j \in Ids : HasAccount(j)' => HasAccount(j)
  BY <1>1, <1>3, <1>4, <1>5, PutUser
<1>7. RidesHaveAccounts' /\ TokensKnown'
  BY <1>4, <1>6, GrowthKeeps
<1>8. PICK step : /\ Goto(t, step)
                  /\ q.op = "driver" => step = "respond"
                  /\ q.op = "rate" => step = "idle"
  BY <1>1 DEF SaveUser, StepsOf
<1>9. /\ pc'[t] = step /\ step \in {"respond", "idle"}
      /\ req'[t] = IF step = "idle" THEN Idle ELSE q
      /\ req'[t].op = "register" => req[t].op = "register" /\ req'[t].id = req[t].id
      /\ \A s \in Threads : s # t => pc'[s] = pc[s] /\ req'[s] = req[s]
  BY <1>1, <1>8, GotoEffect
<1>10. TypeOK'
  <2>1. spoiled' \subseteq Ids
    BY <1>1, SpoiledTypes DEF SaveUser
  <2> QED BY <1>1, <1>4, <1>6, <1>8, <1>9, <2>1, GotoTypes DEF IInv, TypeOK
<1>11. RequestKnown(t)'
  <2>1. CASE q.op = "driver"
    <3>1. req'[t] = q /\ pc'[t] = "respond"
      BY <1>8, <1>9, <2>1
    <3>2. StillKnown(req[t].id, req[t].row.name, req[t].row.role)'
      <4>1. HasAccount(q.id) => users'[q.id].name = users[q.id].name /\ users'[q.id] # NoUser
        BY <1>1, <1>6 DEF Grows, HasAccount
      <4> QED BY <1>1, <1>2, <1>4, <3>1, <4>1 DEF StillKnown, HasAccount
    <3>3. DriverKnown(t, req[t])'
      BY <1>1, <1>2, <1>4, <2>1, <3>1, <3>2 DEF DriverKnown, InRange
    <3> QED BY <1>1, <2>1, <3>1, <3>3, RequestIsNotIdle DEF RequestKnown
  <2>2. CASE q.op = "rate"
    BY <1>8, <2>2, GotoEffect
  <2> QED BY <1>1, <2>1, <2>2
<1>12. \A s \in Threads : RequestKnown(s)'
  BY <1>6, <1>9, <1>11, NoNewAccount
<1> QED BY <1>6, <1>7, <1>10, <1>12 DEF IInv

LEMMA RespondStep ==
  ASSUME IInv, NEW t \in Threads, Respond(t)
  PROVE  IInv'
<1> DEFINE q == req[t]
           role == IF q.op = "driver" THEN "DRIVER" ELSE "RIDER"
<1>1. /\ pc[t] = "respond" /\ RequestKnown(t) /\ Goto(t, "idle") /\ Grant(q.id, q.row.name, role)
      /\ UNCHANGED <<users, drivers, rides, ratings, spoiled, started, failures>>
  BY DEF Respond, IInv, database
<1>2. q \in Request /\ (q.op = "register" \/ q.op = "driver")
  <2>1. q \in Request
    BY <1>1 DEF RequestKnown
  <2> QED BY <1>1, <2>1, RequestIsNotIdle DEF RequestKnown, RateKnown, MarkKnown
<1>3. q.id \in Ids /\ q.row \in User /\ StillKnown(q.id, q.row.name, role) /\ role \in Role
  <2>1. q.id \in Ids
    BY <1>2 DEF Request
  <2>2. CASE q.op = "register"
    <3>1. RegisterKnown(t, q)
      BY <1>1, <2>2 DEF RequestKnown
    <3> QED BY <1>1, <2>1, <2>2, <3>1 DEF RegisterKnown, StillKnown, Role
  <2>3. CASE q.op = "driver"
    <3>1. DriverKnown(t, q)
      BY <1>1, <2>3 DEF RequestKnown
    <3> QED BY <1>1, <2>1, <2>3, <3>1 DEF DriverKnown, StillKnown, Role
  <2> QED BY <1>2, <2>2, <2>3
<1>4. q.row.name \in Names
  BY <1>3, RowsDiffer
<1> HIDE DEF role
<1>5. tokens' = tokens \cup {[owner |-> q.id, name |-> q.row.name, role |-> role]}
  BY <1>1 DEF Grant
<1>6. TokensKnown'
  <2>1. ASSUME NEW token \in tokens' PROVE StillKnown(token.owner, token.name, token.role)
    <3>1. CASE token \in tokens
      BY <3>1 DEF IInv, TokensKnown
    <3>2. CASE token = [owner |-> q.id, name |-> q.row.name, role |-> role]
      BY <1>3, <3>2
    <3> QED BY <1>5, <3>1, <3>2
  <2> QED BY <1>1, <2>1 DEF TokensKnown, StillKnown, HasAccount
<1>7. TypeOK'
  <2>1. tokens' \subseteq [owner : Ids, name : Names, role : Role]
    BY <1>3, <1>4, <1>5 DEF IInv, TypeOK
  <2> QED BY <1>1, <2>1, GotoTypes DEF IInv, TypeOK, RowsInRange, HasAccount, InRange
<1>8. /\ Grows /\ NamesUnique' /\ ProfilesHaveAccounts' /\ RolesHaveProfiles' /\ RidesHaveAccounts'
      /\ \A i \in Ids : HasAccount(i)' => HasAccount(i)
  BY <1>1, SameRows
<1>9. \A s \in Threads : RequestKnown(s)'
  BY <1>1, <1>8, GotoEffect, NoNewAccount
<1> QED BY <1>6, <1>7, <1>8, <1>9 DEF IInv

LEMMA FailStep ==
  ASSUME IInv, NEW t \in Threads, Fail(t)
  PROVE  IInv'
<1>1. /\ pc[t] # "idle" /\ Goto(t, "idle") /\ failures < MaxFailures /\ failures' = failures + 1
      /\ UNCHANGED <<users, drivers, rides, ratings, tokens, started>>
  BY DEF Fail, database
<1>2. req[t] \in Request /\ req[t].id \in Ids
  <2>1. req[t] \in Request
    BY <1>1 DEF IInv, RequestKnown
  <2> QED BY <2>1 DEF Request
<1>3. TypeOK'
  <2>1. spoiled' \subseteq Ids
    BY <1>2, SpoiledTypes DEF Fail
  <2>2. failures' \in 0..MaxFailures
    BY <1>1, AccountAssumption DEF IInv, TypeOK
  <2> QED BY <1>1, <2>1, <2>2, GotoTypes DEF IInv, TypeOK, RowsInRange, HasAccount, InRange
<1> QED BY <1>1, <1>3, GotoEffect, QuietRest

LEMMA IInvStep == IInv /\ [Next]_vars => IInv'
<1> SUFFICES ASSUME IInv, [Next]_vars
             PROVE  IInv'
  OBVIOUS
<1>1. CASE UNCHANGED vars
  BY <1>1 DEF vars, database, IInv, TypeOK, RowsInRange, NamesUnique, ProfilesHaveAccounts,
     RolesHaveProfiles, RidesHaveAccounts, TokensKnown, RequestKnown, RegisterKnown, DriverKnown,
     RateKnown, MarkKnown, StillKnown, HasAccount, InRange
<1>2. ASSUME NEW i \in Ids, Login(i) PROVE IInv'
  BY <1>2, LoginStep
<1>3. ASSUME NEW token \in tokens, NEW mode \in Role, SwitchMode(token, mode) PROVE IInv'
  BY <1>3, SwitchStep
<1>4. ASSUME NEW r \in RideIds, CompleteRide(r) PROVE IInv'
  BY <1>4, CompleteStep
<1>5. ASSUME NEW t \in Threads,
             BeginRegister(t) \/ BeginDriver(t) \/ BeginMark(t) \/ BeginRate(t)
      PROVE  IInv'
  BY <1>5, BeginRegisterStep, BeginDriverStep, BeginMarkStep, BeginRateStep
<1>6. ASSUME NEW t \in Threads, Step(t) PROVE IInv'
  <2>1. CASE Insert(t)
    BY <2>1, InsertStep
  <2>2. CASE CheckProfile(t)
    BY <2>2, CheckProfileStep
  <2>3. CASE SaveRating(t)
    BY <2>3, SaveRatingStep
  <2>4. CASE ReadProfile(t)
    BY <2>4, ReadProfileStep
  <2>5. CASE ReadUser(t)
    BY <2>5, ReadUserStep
  <2>6. CASE SaveProfile(t)
    BY <2>6, SaveProfileStep
  <2>7. CASE SaveUser(t)
    BY <2>7, SaveUserStep
  <2>8. CASE Respond(t)
    BY <2>8, RespondStep
  <2>9. CASE SaveMark(t)
    BY <2>9, SaveMarkStep
  <2> QED BY <1>6, <2>1, <2>2, <2>3, <2>4, <2>5, <2>6, <2>7, <2>8, <2>9 DEF Step
<1>7. ASSUME NEW t \in Threads, Fail(t) PROVE IInv'
  BY <1>7, FailStep
<1> QED BY <1>1, <1>2, <1>3, <1>4, <1>5, <1>6, <1>7 DEF Next

-----------------------------------------------------------------------------
(* Stars and means. *)

LEMMA StarsOfNone == Stars({}) = 0
<1>1. {star \in {} \X (1..5) : star[2] <= star[1].score} = {}
  OBVIOUS
<1> QED BY <1>1, FS_EmptySet DEF Stars

LEMMA UpTo ==
  ASSUME NEW n \in Nat
  PROVE  IsFiniteSet(1..n) /\ Cardinality(1..n) = n
<1>1. 1 \in Int /\ n \in Int
  OBVIOUS
<1>2. IsFiniteSet(1..n) /\ Cardinality(1..n) = IF 1 > n THEN 0 ELSE n - 1 + 1
  BY <1>1, FS_Interval
<1> QED BY <1>2

\* A rating more adds its score.
LEMMA StarsOfOneMore ==
  ASSUME NEW given, IsFiniteSet(given), NEW x, x \notin given, x.score \in 1..5
  PROVE  Stars(given) \in Nat /\ Stars(given \cup {x}) = Stars(given) + x.score
<1> DEFINE A == {star \in given \X (1..5) : star[2] <= star[1].score}
           B == {x} \X (1..x.score)
           C == {star \in (given \cup {x}) \X (1..5) : star[2] <= star[1].score}
<1>1. IsFiniteSet(A)
  <2>1. IsFiniteSet(given \X (1..5))
    <3>1. IsFiniteSet(1..5)
      BY UpTo
    <3> QED BY <3>1, FS_Product
  <2>2. A \in SUBSET (given \X (1..5))
    OBVIOUS
  <2> HIDE DEF A
  <2> QED BY <2>1, <2>2, FS_Subset
<1>2. IsFiniteSet(B) /\ Cardinality(B) = x.score
  <2>1. IsFiniteSet({x}) /\ Cardinality({x}) = 1
    BY FS_Singleton
  <2>2. IsFiniteSet(1..x.score) /\ Cardinality(1..x.score) = x.score
    BY UpTo
  <2>3. IsFiniteSet(B) /\ Cardinality(B) = Cardinality({x}) * Cardinality(1..x.score)
    BY <2>1, <2>2, FS_Product
  <2> QED BY <2>1, <2>2, <2>3
<1>3. A \cap B = {}
  OBVIOUS
<1>4. C = A \cup B
  <2>1. ASSUME NEW star \in C PROVE star \in A \cup B
    OBVIOUS
  <2>2. ASSUME NEW star \in A PROVE star \in C
    OBVIOUS
  <2>3. ASSUME NEW star \in B PROVE star \in C
    OBVIOUS
  <2> QED BY <2>1, <2>2, <2>3
<1>5. Stars(given) = Cardinality(A) /\ Stars(given \cup {x}) = Cardinality(C)
  BY DEF Stars
<1> HIDE DEF A, B, C
<1>6. Cardinality(A) \in Nat
  BY <1>1, FS_CardinalityType
<1>7. Cardinality(C) = Cardinality(A) + Cardinality(B) - Cardinality(A \cap B)
  BY <1>1, <1>2, <1>4, FS_Union
<1>8. Cardinality(A \cap B) = 0
  BY <1>3, FS_EmptySet
<1> QED BY <1>2, <1>5, <1>6, <1>7, <1>8

\* One rounding more is within the bound for one rating more.
LEMMA OffStaysBounded ==
  ASSUME NEW n \in Nat, NEW a \in Int, NEW v \in Int, NEW stars \in Int, NEW score \in Int,
         4 * (a * n - 100 * stars) \in (-(n * (n + 1)))..(n * (n + 1)),
         2 * (n + 1) * v - 2 * (a * n + 100 * score) \in (-(n + 1))..(n + 1)
  PROVE  4 * (v * (n + 1) - 100 * (stars + score))
           \in (-((n + 1) * ((n + 1) + 1)))..((n + 1) * ((n + 1) + 1))
<1> DEFINE an == a * n
           vm == v * (n + 1)
           nn == n * (n + 1)
<1>1. an \in Int /\ vm \in Int /\ nn \in Int
  OBVIOUS
<1>2. 2 * (n + 1) * v = 2 * vm
  BY SMT
<1>3. (n + 1) * ((n + 1) + 1) = nn + 2 * (n + 1)
  BY SMT
<1>4. /\ 4 * (an - 100 * stars) \in (-nn)..nn
      /\ 2 * vm - 2 * (an + 100 * score) \in (-(n + 1))..(n + 1)
  BY <1>2
<1> HIDE DEF an, vm, nn
<1>5. 4 * (vm - 100 * (stars + score)) \in (-(nn + 2 * (n + 1)))..(nn + 2 * (n + 1))
  BY <1>1, <1>4
<1> QED BY <1>3, <1>5 DEF vm

LEMMA MeanOfNone ==
  ASSUME NEW row, row.rating_count = 0, row.avg_rating \in Int, NEW given
  PROVE  IsMeanOfSome(row, given)
<1>1. {} \in kSubset(row.rating_count, given)
  BY FS_EmptySet DEF kSubset
<1>2. 4 * (row.avg_rating * 0 - 100 * 0) \in (-(0 * (0 + 1)))..(0 * (0 + 1))
  OBVIOUS
<1> QED BY <1>1, <1>2, StarsOfNone DEF IsMeanOfSome

LEMMA MeanOfMore ==
  ASSUME NEW row, NEW given, IsMeanOfSome(row, given), NEW more, given \subseteq more
  PROVE  IsMeanOfSome(row, more)
<1>1. kSubset(row.rating_count, given) \subseteq kSubset(row.rating_count, more)
  BY DEF kSubset
<1> QED BY <1>1 DEF IsMeanOfSome

\* A row with a rating more is the mean of one rating more.
LEMMA RatedIsMean ==
  ASSUME NEW row, row.rating_count \in Nat, row.avg_rating \in Int,
         row \in User \/ row \in Driver,
         NEW given, IsFiniteSet(given), IsMeanOfSome(row, given),
         NEW x, x \notin given, x.score \in 1..5, NEW avg \in Averages(row, x.score)
  PROVE  IsMeanOfSome(Rated(row, x.score, avg), given \cup {x})
<1> DEFINE n == row.rating_count
           a == row.avg_rating
           new == Rated(row, x.score, avg)
<1>1. PICK counted \in kSubset(n, given) :
        4 * (a * n - 100 * Stars(counted)) \in (-(n * (n + 1)))..(n * (n + 1))
  BY DEF IsMeanOfSome
<1>2. counted \in SUBSET given /\ Cardinality(counted) = n
  BY <1>1 DEF kSubset
<1>3. IsFiniteSet(counted) /\ x \notin counted
  BY <1>2, FS_Subset
<1>4. Stars(counted) \in Nat /\ Stars(counted \cup {x}) = Stars(counted) + x.score
  BY <1>3, StarsOfOneMore
<1>5. Cardinality(counted \cup {x}) = n + 1
  BY <1>2, <1>3, FS_AddElement
<1>6. new.rating_count = n + 1 /\ new.avg_rating = avg
  BY DEF Rated, User, Driver
<1>7. counted \cup {x} \in kSubset(n + 1, given \cup {x})
  BY <1>2, <1>5 DEF kSubset
<1>8. /\ avg \in Int
      /\ 2 * (n + 1) * avg - 2 * (a * n + 100 * x.score) \in (-(n + 1))..(n + 1)
  BY DEF Averages
<1> HIDE DEF n, a, new
<1>9. 4 * (avg * (n + 1) - 100 * (Stars(counted) + x.score))
        \in (-((n + 1) * ((n + 1) + 1)))..((n + 1) * ((n + 1) + 1))
  <2>1. n \in Nat /\ a \in Int /\ x.score \in Int
    BY DEF n, a
  <2> QED BY <1>1, <1>4, <1>8, <2>1, OffStaysBounded
<1>10. IsMeanOfSome(new, given \cup {x})
  BY <1>4, <1>6, <1>7, <1>9 DEF IsMeanOfSome
<1> QED BY <1>10 DEF new
-----------------------------------------------------------------------------
(* Which ratings the rows count. *)

\* A rating is inserted before it is added to a profile and then to a user.
ProfilePending == {"read_profile", "profile"}
UserPending == ProfilePending \cup {"read_user", "user"}

\* The rating of the request of t is stored and, at these steps, not yet added.
Pending(t, steps) == pc[t] \in steps /\ req[t].op = "rate"

Own(t) == [ride |-> req[t].ride, from |-> req[t].from, to |-> req[t].id, score |-> req[t].score]

Counted(i, steps) ==
  {rating \in RatingsOf(i) : \A t \in Threads : Pending(t, steps) => rating # Own(t)}

RatingsKept ==
  /\ IsFiniteSet(ratings)
  /\ \A rating \in ratings : HasAccount(rating.to)
  /\ \A t \in Threads : Pending(t, UserPending) => Own(t) \in ratings
  /\ \A s, t \in Threads :
       Pending(s, UserPending) /\ Pending(t, UserPending) /\ Own(s) = Own(t) => s = t

OthersWait(t) == \A s \in Threads : s # t => pc'[s] = pc[s] /\ req'[s] = req[s]

LEMMA PendingForUser ==
  ASSUME NEW t \in Threads, NEW steps \in {ProfilePending, UserPending}, Pending(t, steps)
  PROVE  Pending(t, UserPending)
BY DEF Pending, UserPending, ProfilePending

LEMMA CountedIsFinite ==
  ASSUME RatingsKept, NEW i, NEW steps
  PROVE  IsFiniteSet(Counted(i, steps))
<1>1. Counted(i, steps) \in SUBSET ratings
  BY DEF Counted, RatingsOf
<1> QED BY <1>1, FS_Subset DEF RatingsKept

\* Thread t moves and adds nothing: the same ratings are counted.
LEMMA SameCounted ==
  ASSUME NEW t \in Threads, OthersWait(t), UNCHANGED ratings, NEW steps,
         Pending(t, steps)' <=> Pending(t, steps), Pending(t, steps) => Own(t)' = Own(t)
  PROVE  \A i \in Ids : Counted(i, steps)' = Counted(i, steps)
<1>1. \A s \in Threads : s # t => (Pending(s, steps)' <=> Pending(s, steps)) /\ Own(s)' = Own(s)
  BY DEF OthersWait, Pending, Own
<1>2. \A s \in Threads : (Pending(s, steps)' <=> Pending(s, steps))
                         /\ (Pending(s, steps) => Own(s)' = Own(s))
  BY <1>1
<1> QED BY <1>2 DEF Counted, RatingsOf

\* A rating that is stored is counted only when its request adds it.
LEMMA StoredNotCounted ==
  ASSUME RatingsKept, NEW t \in Threads, OthersWait(t), NEW steps \in {ProfilePending, UserPending},
         Own(t) \notin ratings, ratings' = ratings \cup {Own(t)}, req'[t] = req[t],
         ~Pending(t, UserPending), Pending(t, steps)'
  PROVE  \A i \in Ids : Counted(i, steps)' = Counted(i, steps)
<1>1. \A s \in Threads : s # t => (Pending(s, steps)' <=> Pending(s, steps)) /\ Own(s)' = Own(s)
  BY DEF OthersWait, Pending, Own
<1>2. Own(t)' = Own(t) /\ ~Pending(t, steps)
  BY PendingForUser DEF Own
<1> SUFFICES ASSUME NEW i \in Ids PROVE Counted(i, steps)' = Counted(i, steps)
  OBVIOUS
<1>3. ASSUME NEW rating \in Counted(i, steps)' PROVE rating \in Counted(i, steps)
  <2>1. rating # Own(t) /\ rating \in RatingsOf(i)'
    BY <1>2, <1>3 DEF Counted
  <2>2. rating \in RatingsOf(i)
    BY <2>1 DEF RatingsOf
  <2>3. \A s \in Threads : Pending(s, steps) => rating # Own(s)
    BY <1>1, <1>2, <1>3 DEF Counted
  <2> QED BY <2>2, <2>3 DEF Counted
<1>4. ASSUME NEW rating \in Counted(i, steps) PROVE rating \in Counted(i, steps)'
  <2>1. rating \in RatingsOf(i) /\ rating # Own(t)
    BY DEF Counted, RatingsOf
  <2>2. rating \in RatingsOf(i)'
    BY <2>1 DEF RatingsOf
  <2>3. \A s \in Threads : Pending(s, steps)' => rating # Own(s)'
    BY <1>1, <1>2, <1>4, <2>1 DEF Counted
  <2> QED BY <2>2, <2>3 DEF Counted
<1> QED BY <1>3, <1>4

\* The request of t adds its rating, or dies without.
LEMMA DoneCounted ==
  ASSUME RatingsKept, NEW t \in Threads, OthersWait(t), UNCHANGED ratings, NEW u, u = req[t].id,
         NEW steps \in {ProfilePending, UserPending}, Pending(t, steps), ~Pending(t, steps)'
  PROVE  /\ \A i \in Ids : i # u => Counted(i, steps)' = Counted(i, steps)
         /\ Counted(u, steps)' = Counted(u, steps) \cup {Own(t)}
         /\ Own(t) \notin Counted(u, steps)
<1> DEFINE own == Own(t)
<1>1. \A s \in Threads : s # t => (Pending(s, steps)' <=> Pending(s, steps)) /\ Own(s)' = Own(s)
  BY DEF OthersWait, Pending, Own
<1>2. own \in ratings /\ own.to = u
  BY PendingForUser DEF RatingsKept, Own
<1>3. \A s \in Threads : s # t /\ Pending(s, steps) => Own(s) # own
  BY PendingForUser DEF RatingsKept
<1>4. own \notin Counted(u, steps)
  BY DEF Counted
<1>5. \A i \in Ids : i # u => own \notin RatingsOf(i)
  BY <1>2 DEF RatingsOf
<1>6. own \in RatingsOf(u)
  BY <1>2 DEF RatingsOf
<1> HIDE DEF own
<1>7. \A i, rating : rating \in Counted(i, steps)
        <=> /\ rating \in RatingsOf(i) /\ rating # own
            /\ \A s \in Threads : s # t /\ Pending(s, steps) => rating # Own(s)
  BY DEF Counted, own
<1>8. \A i : RatingsOf(i)' = RatingsOf(i)
  BY DEF RatingsOf
<1>9. \A i, rating : rating \in Counted(i, steps)'
        <=> /\ rating \in RatingsOf(i)
            /\ \A s \in Threads : s # t /\ Pending(s, steps) => rating # Own(s)
  BY <1>1, <1>8 DEF Counted
<1>10. \A i \in Ids : i # u => Counted(i, steps)' = Counted(i, steps)
  <2> SUFFICES ASSUME NEW i \in Ids, i # u
               PROVE  \A rating : rating \in Counted(i, steps)' <=> rating \in Counted(i, steps)
    BY SMT DEF Counted
  <2> QED BY <1>5, <1>7, <1>9
<1>11. \A rating : rating \in Counted(u, steps)' <=> rating \in Counted(u, steps) \cup {own}
  <2> TAKE rating
  <2>1. CASE rating = own
    <3>1. \A s \in Threads : s # t /\ Pending(s, steps) => own # Own(s)
      BY <1>3
    <3> QED BY <1>6, <1>9, <2>1, <3>1
  <2>2. CASE rating # own
    BY <1>7, <1>9, <2>2
  <2> QED BY <2>1, <2>2
<1>12. Counted(u, steps)' = Counted(u, steps) \cup {own}
  BY <1>11
<1> QED BY <1>4, <1>10, <1>12 DEF own

-----------------------------------------------------------------------------
(* What is lost is lost where a user's row was saved over a newer one, or a *)
(* request died.                                                            *)

RowsCount ==
  \A i \in Ids : HasAccount(i) /\ i \notin spoiled =>
    users[i].rating_count = Cardinality(Counted(i, UserPending))

\* The request of t is about to save the role of i.
Promoting(t, i) == pc[t] = "user" /\ req[t].op = "driver" /\ req[t].id = i

Promoted ==
  \A i \in Ids : drivers[i] # NoDriver /\ i \notin spoiled =>
    users[i].role = "DRIVER" \/ \E t \in Threads : Promoting(t, i)

RowsMean ==
  \A i \in Ids :
    /\ HasAccount(i) => IsMeanOfSome(users[i], Counted(i, UserPending))
    /\ drivers[i] # NoDriver => IsMeanOfSome(drivers[i], Counted(i, ProfilePending))

\* The row the request of t will save is a mean, however long ago it was read.
HoldsUser(t) ==
  \/ req[t].op = "driver" /\ pc[t] \in {"exists", "profile", "user"}
  \/ req[t].op = "rate" /\ pc[t] = "user"

HoldsProfile(t) ==
  \/ req[t].op = "rate" /\ pc[t] = "profile"
  \/ req[t].op = "mark" /\ pc[t] = "mark"

HeldMean(t) ==
  /\ HoldsUser(t) => IsMeanOfSome(req[t].row, Counted(req[t].id, UserPending))
  /\ HoldsProfile(t) => IsMeanOfSome(req[t].profile, Counted(req[t].id, ProfilePending))

Kept == RatingsKept /\ RowsCount /\ Promoted /\ RowsMean /\ \A t \in Threads : HeldMean(t)

LEMMA KeptInit == Init => Kept
<1> SUFFICES ASSUME Init PROVE Kept
  OBVIOUS
<1>1. RatingsKept
  BY FS_EmptySet DEF Init, RatingsKept, Pending, Idle
<1>2. RowsCount /\ Promoted /\ RowsMean
  BY DEF Init, RowsCount, Promoted, RowsMean, HasAccount
<1>3. \A t \in Threads : HeldMean(t)
  BY DEF Init, HeldMean, HoldsUser, HoldsProfile, Idle
<1> QED BY <1>1, <1>2, <1>3 DEF Kept

\* Ratings once counted stay counted.
CountsGrow ==
  \A i \in Ids : /\ Counted(i, UserPending) \subseteq Counted(i, UserPending)'
                 /\ Counted(i, ProfilePending) \subseteq Counted(i, ProfilePending)'

LEMMA HeldMeansStay ==
  ASSUME IInv, Kept, NEW t \in Threads, OthersWait(t), CountsGrow, HeldMean(t)'
  PROVE  \A s \in Threads : HeldMean(s)'
<1> SUFFICES ASSUME NEW s \in Threads, s # t PROVE HeldMean(s)'
  OBVIOUS
<1>1. pc'[s] = pc[s] /\ req'[s] = req[s] /\ HeldMean(s)
  BY DEF OthersWait, Kept
<1>2. CASE pc[s] = "idle"
  BY <1>1, <1>2 DEF HeldMean, HoldsUser, HoldsProfile
<1>3. CASE pc[s] # "idle"
  <2>1. req[s] \in Request
    BY <1>3 DEF IInv, RequestKnown
  <2>2. PICK i \in Ids : i = req[s].id
    BY <2>1 DEF Request
  <2>3. PICK row, profile : row = req[s].row /\ profile = req[s].profile
    OBVIOUS
  <2>4. HoldsUser(s)' = HoldsUser(s) /\ HoldsProfile(s)' = HoldsProfile(s)
    BY <1>1 DEF HoldsUser, HoldsProfile
  <2>5. /\ HoldsUser(s) => IsMeanOfSome(row, Counted(i, UserPending))
        /\ HoldsProfile(s) => IsMeanOfSome(profile, Counted(i, ProfilePending))
    BY <1>1, <2>2, <2>3 DEF HeldMean
  <2>6. /\ HoldsUser(s) => IsMeanOfSome(row, Counted(i, UserPending)')
        /\ HoldsProfile(s) => IsMeanOfSome(profile, Counted(i, ProfilePending)')
    BY <2>5, MeanOfMore DEF CountsGrow
  <2>7. req'[s].id = i /\ req'[s].row = row /\ req'[s].profile = profile
    BY <1>1, <2>2, <2>3
  <2> QED BY <2>4, <2>6, <2>7 DEF HeldMean
<1> QED BY <1>2, <1>3

LEMMA RatingsWait ==
  ASSUME RatingsKept, NEW t \in Threads, OthersWait(t), UNCHANGED ratings,
         \A i \in Ids : HasAccount(i) => HasAccount(i)',
         ratings \subseteq Rating,
         Pending(t, UserPending)' => Pending(t, UserPending) /\ Own(t)' = Own(t)
  PROVE  RatingsKept'
<1>1. \A s \in Threads :
        Pending(s, UserPending)' => Pending(s, UserPending) /\ Own(s)' = Own(s)
  BY DEF OthersWait, Pending, Own
<1>2. \A rating \in ratings' : HasAccount(rating.to)'
  <2> SUFFICES ASSUME NEW rating \in ratings' PROVE HasAccount(rating.to)'
    OBVIOUS
  <2>1. rating \in ratings /\ rating.to \in Ids
    BY DEF Rating
  <2>2. HasAccount(rating.to)
    BY <2>1 DEF RatingsKept
  <2>3. PICK i \in Ids : i = rating.to
    BY <2>1
  <2> QED BY <2>2, <2>3
<1>3. IsFiniteSet(ratings')
  BY DEF RatingsKept
<1>4. \A s \in Threads : Pending(s, UserPending)' => Own(s)' \in ratings'
  BY <1>1 DEF RatingsKept
<1>5. \A r, s \in Threads :
        Pending(r, UserPending)' /\ Pending(s, UserPending)' /\ Own(r)' = Own(s)' => r = s
  BY <1>1 DEF RatingsKept
<1> QED BY <1>2, <1>3, <1>4, <1>5 DEF RatingsKept

\* Thread t moves, and no row of users and drivers changes.
LEMMA RowsKept ==
  ASSUME IInv, Kept, NEW t \in Threads, OthersWait(t), RatingsKept',
         UNCHANGED <<users, drivers, spoiled>>,
         \A i \in Ids : Counted(i, UserPending)' = Counted(i, UserPending),
         CountsGrow, ~Promoting(t, req[t].id), HeldMean(t)'
  PROVE  Kept'
<1>1. RowsCount'
  BY DEF Kept, RowsCount, HasAccount
<1>2. Promoted'
  BY DEF Kept, Promoted, Promoting, OthersWait
<1>3. RowsMean'
  <2> SUFFICES ASSUME NEW i \in Ids
               PROVE  /\ HasAccount(i)' => IsMeanOfSome(users'[i], Counted(i, UserPending)')
                      /\ drivers'[i] # NoDriver
                           => IsMeanOfSome(drivers'[i], Counted(i, ProfilePending)')
    BY DEF RowsMean
  <2>1. users'[i] = users[i] /\ drivers'[i] = drivers[i]
    OBVIOUS
  <2>2. HasAccount(i)' = HasAccount(i)
    BY DEF HasAccount
  <2> QED BY <2>1, <2>2, MeanOfMore DEF Kept, RowsMean, CountsGrow
<1>4. \A s \in Threads : HeldMean(s)'
  BY HeldMeansStay
<1> QED BY <1>1, <1>2, <1>3, <1>4 DEF Kept

\* Thread t moves without storing, adding or dropping a rating.
LEMMA NothingAdded ==
  ASSUME IInv, RatingsKept, NEW t \in Threads, OthersWait(t), UNCHANGED ratings, Grows,
         Pending(t, ProfilePending)' <=> Pending(t, ProfilePending),
         Pending(t, UserPending)' <=> Pending(t, UserPending),
         Pending(t, UserPending) => Own(t)' = Own(t)
  PROVE  /\ RatingsKept' /\ CountsGrow
         /\ \A i \in Ids : Counted(i, UserPending)' = Counted(i, UserPending)
         /\ \A i \in Ids : Counted(i, ProfilePending)' = Counted(i, ProfilePending)
<1>1. \A i \in Ids : Counted(i, UserPending)' = Counted(i, UserPending)
  BY SameCounted
<1>2. Pending(t, ProfilePending) => Own(t)' = Own(t)
  BY PendingForUser
<1>3. \A i \in Ids : Counted(i, ProfilePending)' = Counted(i, ProfilePending)
  BY <1>2, SameCounted
<1>4. RatingsKept'
  BY RatingsWait DEF IInv, TypeOK, Grows
<1> QED BY <1>1, <1>3, <1>4 DEF CountsGrow

\* The steps of requests that change no table.
LEMMA QuietKept ==
  ASSUME IInv, Kept, NEW t \in Threads, OthersWait(t),
         UNCHANGED <<users, drivers, ratings, spoiled>>,
         Pending(t, ProfilePending)' <=> Pending(t, ProfilePending),
         Pending(t, UserPending)' <=> Pending(t, UserPending),
         Pending(t, UserPending) => Own(t)' = Own(t),
         ~Promoting(t, req[t].id), HeldMean(t)'
  PROVE  Kept'
<1>1. Grows /\ RatingsKept
  BY DEF Grows, HasAccount, Kept
<1>2. /\ RatingsKept' /\ CountsGrow
      /\ \A i \in Ids : Counted(i, UserPending)' = Counted(i, UserPending)
  BY <1>1, NothingAdded
<1> QED BY <1>2, RowsKept

LEMMA BeginKept ==
  ASSUME IInv, Kept, NEW t \in Threads, NEW op, NEW i \in Ids, NEW row, NEW profile, NEW ride,
         NEW from, NEW score, NEW step \in {"insert", "exists", "mark", "rating"},
         Begin(t, op, i, row, profile, ride, from, score, step),
         op = "driver" => HasAccount(i) /\ row = users[i],
         op = "mark" => drivers[i] # NoDriver /\ profile = drivers[i]
  PROVE  Kept'
<1> DEFINE q == [op |-> op, id |-> i, row |-> row, profile |-> profile,
                 ride |-> ride, from |-> from, score |-> score]
<1>1. /\ pc[t] = "idle" /\ UNCHANGED <<users, drivers, ratings, spoiled>>
      /\ pc' = [pc EXCEPT ![t] = step] /\ req' = [req EXCEPT ![t] = q]
  BY DEF Begin, database
<1>2. q.op = op /\ q.id = i /\ q.row = row /\ q.profile = profile
  OBVIOUS
<1> HIDE DEF q
<1>3. pc'[t] = step /\ req'[t] = q /\ OthersWait(t)
  BY <1>1 DEF IInv, TypeOK, OthersWait
<1>4. /\ ~Pending(t, ProfilePending)' /\ ~Pending(t, UserPending)'
      /\ ~Pending(t, ProfilePending) /\ ~Pending(t, UserPending)
      /\ ~Promoting(t, req[t].id)
  BY <1>1, <1>3 DEF Pending, ProfilePending, UserPending, Promoting
<1>5. HeldMean(t)'
  <2>1. (HoldsProfile(t)' => op = "mark") /\ (HoldsUser(t)' => op = "driver")
    BY <1>2, <1>3 DEF HoldsProfile, HoldsUser
  <2>2. ASSUME op = "driver" PROVE IsMeanOfSome(row, Counted(i, UserPending))'
    <3>1. IsMeanOfSome(row, Counted(i, UserPending))
      BY <2>2 DEF Kept, RowsMean
    <3>2. Counted(i, UserPending)' = Counted(i, UserPending)
      BY <1>1, <1>3, <1>4, SameCounted
    <3> QED BY <3>1, <3>2
  <2>3. req'[t].id = i /\ req'[t].row = row /\ req'[t].profile = profile
    BY <1>2, <1>3
  <2>4. ASSUME op = "mark" PROVE IsMeanOfSome(profile, Counted(i, ProfilePending))'
    <3>1. IsMeanOfSome(profile, Counted(i, ProfilePending))
      BY <2>4 DEF Kept, RowsMean
    <3>2. Counted(i, ProfilePending)' = Counted(i, ProfilePending)
      BY <1>1, <1>3, <1>4, SameCounted
    <3> QED BY <3>1, <3>2
  <2> QED BY <2>1, <2>2, <2>3, <2>4 DEF HeldMean
<1> QED BY <1>1, <1>3, <1>4, <1>5, QuietKept

LEMMA BeginsKept ==
  ASSUME IInv, Kept, NEW t \in Threads,
         BeginRegister(t) \/ BeginDriver(t) \/ BeginMark(t) \/ BeginRate(t)
  PROVE  Kept'
<1>1. CASE BeginRegister(t)
  <2>1. PICK i \in Ids, name \in Names :
          Begin(t, "register", i,
                [name |-> name, role |-> "RIDER", avg_rating |-> 0, rating_count |-> 0],
                NoDriver, NoRide, i, 0, "insert")
    BY <1>1 DEF BeginRegister
  <2> QED BY <2>1, BeginKept
<1>2. CASE BeginDriver(t)
  <2>1. PICK i : /\ i \in Ids /\ HasAccount(i)
                 /\ Begin(t, "driver", i, users[i], NoDriver, NoRide, i, 0, "exists")
    BY <1>2 DEF BeginDriver, Named
  <2>2. PICK row : row = users[i]
    OBVIOUS
  <2>3. Begin(t, "driver", i, row, NoDriver, NoRide, i, 0, "exists")
    BY <2>1, <2>2
  <2> QED BY <2>1, <2>2, <2>3, BeginKept
<1>3. CASE BeginRate(t)
  <2>1. PICK r \in RideIds, score \in Scores : rides[r] # NoRide /\
          \E from \in {rides[r].rider, rides[r].driver} :
            Begin(t, "rate",
                  IF from = rides[r].rider THEN rides[r].driver ELSE rides[r].rider,
                  NoUser, NoDriver, r, from, score, "rating")
    BY <1>3 DEF BeginRate
  <2>2. PICK from \in {rides[r].rider, rides[r].driver} :
            Begin(t, "rate",
                  IF from = rides[r].rider THEN rides[r].driver ELSE rides[r].rider,
                  NoUser, NoDriver, r, from, score, "rating")
    BY <2>1
  <2>3. PICK to : to = IF from = rides[r].rider THEN rides[r].driver ELSE rides[r].rider
    OBVIOUS
  <2>4. rides[r].rider \in Ids /\ rides[r].driver \in Ids
    BY <2>1 DEF IInv, TypeOK
  <2>5. to \in Ids /\ Begin(t, "rate", to, NoUser, NoDriver, r, from, score, "rating")
    BY <2>2, <2>3, <2>4
  <2> QED BY <2>5, BeginKept
<1>4. CASE BeginMark(t)
  <2>1. PICK i \in Ids : /\ drivers[i] # NoDriver
                         /\ Begin(t, "mark", i, NoUser, drivers[i], NoRide, i, 0, "mark")
    BY <1>4 DEF BeginMark
  <2>2. PICK profile : profile = drivers[i]
    OBVIOUS
  <2>3. Begin(t, "mark", i, NoUser, profile, NoRide, i, 0, "mark")
    BY <2>1, <2>2
  <2> QED BY <2>1, <2>2, <2>3, BeginKept
<1> QED BY <1>1, <1>2, <1>3, <1>4

\* A step that only moves on, or ends, and is not in the middle of a rating.
LEMMA MovesKept ==
  ASSUME IInv, Kept, NEW t \in Threads, NEW step, Goto(t, step),
         UNCHANGED <<users, drivers, ratings, spoiled>>,
         \/ pc[t] \in {"insert", "rating", "respond"} /\ step = "idle"
         \/ pc[t] = "exists" /\ req[t].op = "driver" /\ step \in {"profile", "idle"}
  PROVE  Kept'
<1>1. /\ pc'[t] = step /\ req'[t] = IF step = "idle" THEN Idle ELSE req[t]
      /\ OthersWait(t)
  BY GotoEffect DEF OthersWait
<1>2. /\ ~Pending(t, ProfilePending)' /\ ~Pending(t, UserPending)'
      /\ ~Pending(t, ProfilePending) /\ ~Pending(t, UserPending)
      /\ ~Promoting(t, req[t].id)
  BY <1>1 DEF Pending, ProfilePending, UserPending, Promoting
<1>3. HeldMean(t)'
  <2>1. CASE step = "idle"
    BY <1>1, <2>1 DEF HeldMean, HoldsUser, HoldsProfile
  <2>2. CASE step = "profile"
    <3>1. pc[t] = "exists" /\ req[t].op = "driver" /\ req'[t] = req[t]
      BY <1>1, <2>2
    <3>2. req[t] \in Request
      BY <3>1 DEF IInv, RequestKnown
    <3>3. PICK i \in Ids : i = req[t].id
      BY <3>2 DEF Request
    <3>4. PICK row : row = req[t].row
      OBVIOUS
    <3>5. IsMeanOfSome(row, Counted(i, UserPending))
      BY <3>1, <3>3, <3>4 DEF Kept, HeldMean, HoldsUser
    <3>6. Counted(i, UserPending)' = Counted(i, UserPending)
      BY <1>1, <1>2, SameCounted
    <3>7. req'[t].id = i /\ req'[t].row = row /\ ~HoldsProfile(t)'
      BY <3>1, <3>3, <3>4 DEF HoldsProfile
    <3> QED BY <3>5, <3>6, <3>7 DEF HeldMean
  <2> QED BY <2>1, <2>2
<1> QED BY <1>1, <1>2, <1>3, QuietKept

LEMMA InsertKept ==
  ASSUME IInv, Kept, NEW t \in Threads, Insert(t)
  PROVE  Kept'
<1>1. /\ pc[t] = "insert" /\ req[t] \in Request /\ req[t].op = "register"
      /\ RegisterKnown(t, req[t])
  <2>1. pc[t] = "insert" /\ RequestKnown(t)
    BY DEF Insert, IInv
  <2>2. req[t] \in Request
    BY <2>1 DEF RequestKnown
  <2>3. req[t].op = "register"
    BY <2>1, <2>2, RequestIsNotIdle DEF RequestKnown, DriverKnown, RateKnown, MarkKnown
  <2> QED BY <2>1, <2>2, <2>3 DEF RequestKnown
<1>2. UNCHANGED <<drivers, ratings, spoiled>>
  BY DEF Insert
<1>3. CASE UNCHANGED users /\ Goto(t, "idle")
  BY <1>1, <1>2, <1>3, MovesKept
<1>4. CASE users' = [users EXCEPT ![req[t].id] = req[t].row] /\ Goto(t, "respond")
  <2>1. PICK u \in Ids : u = req[t].id
    BY <1>1 DEF Request
  <2>2. PICK row \in User : row = req[t].row
    BY <1>1 DEF RegisterKnown
  <2>3. row # NoUser /\ row.rating_count = 0 /\ row.avg_rating \in Int /\ ~HasAccount(u)
    <3>1. row.avg_rating \in 0..500 /\ row # NoUser
      BY RowsDiffer DEF User
    <3>2. ~HasAccount(req[t].id) /\ req[t].row.rating_count = 0
      BY <1>1 DEF RegisterKnown
    <3>3. ~HasAccount(u)
      BY <2>1, <3>2
    <3>4. row.rating_count = 0
      BY <2>2, <3>2
    <3>5. row.avg_rating \in Int
      BY <3>1
    <3> QED BY <3>1, <3>3, <3>4, <3>5
  <2>4. drivers[u] = NoDriver
    BY <2>3 DEF IInv, ProfilesHaveAccounts
  <2>5. users'[u] = row /\ \A i \in Ids : i # u => users'[i] = users[i]
    BY <1>4, <2>1, <2>2 DEF IInv, TypeOK
  <2>6. pc'[t] = "respond" /\ req'[t] = req[t] /\ OthersWait(t)
    BY <1>4, GotoEffect DEF OthersWait
  <2>7. /\ ~Pending(t, ProfilePending)' /\ ~Pending(t, UserPending)'
        /\ ~Pending(t, ProfilePending) /\ ~Pending(t, UserPending)
    BY <1>1, <2>6 DEF Pending, ProfilePending, UserPending
  <2>8. Grows
    BY <1>2, <2>3, <2>5 DEF Grows, HasAccount
  <2>9. /\ RatingsKept' /\ CountsGrow
        /\ \A i \in Ids : Counted(i, UserPending)' = Counted(i, UserPending)
        /\ \A i \in Ids : Counted(i, ProfilePending)' = Counted(i, ProfilePending)
    BY <1>2, <2>6, <2>7, <2>8, NothingAdded DEF Kept
  <2>10. RowsCount'
    <3>1. Counted(u, UserPending) = {}
      BY <2>3 DEF Kept, RatingsKept, Counted, RatingsOf
    <3>2. users'[u].rating_count = Cardinality(Counted(u, UserPending)')
      BY <2>3, <2>5, <2>9, <3>1, FS_EmptySet
    <3> QED BY <1>2, <2>5, <2>9, <3>2 DEF Kept, RowsCount, HasAccount
  <2>11. Promoted'
    BY <1>1, <1>2, <2>4, <2>5, <2>6 DEF Kept, Promoted, Promoting, OthersWait
  <2>12. RowsMean'
    <3>1. IsMeanOfSome(users'[u], Counted(u, UserPending)')
      BY <2>3, <2>5, MeanOfNone
    <3>2. ASSUME NEW i \in Ids, i # u, HasAccount(i)'
          PROVE  IsMeanOfSome(users'[i], Counted(i, UserPending)')
      BY <2>5, <2>9, <3>2 DEF Kept, RowsMean, HasAccount
    <3>3. ASSUME NEW i \in Ids, drivers'[i] # NoDriver
          PROVE  IsMeanOfSome(drivers'[i], Counted(i, ProfilePending)')
      BY <1>2, <2>9, <3>3 DEF Kept, RowsMean
    <3> QED BY <3>1, <3>2, <3>3 DEF RowsMean
  <2>13. HeldMean(t)'
    BY <1>1, <2>6 DEF HeldMean, HoldsUser, HoldsProfile
  <2>14. \A s \in Threads : HeldMean(s)'
    BY <2>6, <2>9, <2>13, HeldMeansStay
  <2> QED BY <2>9, <2>10, <2>11, <2>12, <2>14 DEF Kept
<1> QED BY <1>3, <1>4 DEF Insert

LEMMA SaveRatingKept ==
  ASSUME IInv, Kept, NEW t \in Threads, SaveRating(t)
  PROVE  Kept'
<1>1. /\ pc[t] = "rating" /\ req[t] \in Request /\ req[t].op = "rate" /\ req[t].id \in Ids
      /\ HasAccount(req[t].id) /\ UNCHANGED <<users, drivers, spoiled>>
  BY RateRequest DEF SaveRating
<1>2. CASE UNCHANGED ratings /\ Goto(t, "idle")
  BY <1>1, <1>2, MovesKept
<1>3. CASE /\ ~HasRated(req[t].from, req[t].ride)
           /\ ratings' = ratings \cup {Own(t)} /\ Goto(t, "read_profile")
  <2>1. pc'[t] = "read_profile" /\ req'[t] = req[t] /\ OthersWait(t)
    BY <1>3, GotoEffect DEF OthersWait
  <2>2. Own(t) \notin ratings /\ Own(t).to = req[t].id /\ Own(t)' = Own(t)
    BY <1>3, <2>1 DEF HasRated, Own
  <2>3. /\ ~Pending(t, UserPending) /\ ~Pending(t, ProfilePending)
        /\ Pending(t, UserPending)' /\ Pending(t, ProfilePending)'
        /\ ~Promoting(t, req[t].id)
    BY <1>1, <2>1 DEF Pending, ProfilePending, UserPending, Promoting
  <2>4. RatingsKept
    BY DEF Kept
  <2>5. \A i \in Ids : Counted(i, UserPending)' = Counted(i, UserPending)
    BY <1>3, <2>1, <2>2, <2>3, <2>4, StoredNotCounted
  <2>6. \A i \in Ids : Counted(i, ProfilePending)' = Counted(i, ProfilePending)
    BY <1>3, <2>1, <2>2, <2>3, <2>4, StoredNotCounted
  <2>7. RatingsKept'
    <3>1. IsFiniteSet(ratings')
      BY <1>3, <2>4, FS_AddElement DEF RatingsKept
    <3>2. \A rating \in ratings' : HasAccount(rating.to)'
      BY <1>1, <1>3, <2>2, <2>4 DEF RatingsKept, HasAccount
    <3>3. \A s \in Threads : s # t =>
            (Pending(s, UserPending)' <=> Pending(s, UserPending)) /\ Own(s)' = Own(s)
      BY <2>1 DEF OthersWait, Pending, Own
    <3>4. \A s \in Threads : Pending(s, UserPending)' => Own(s)' \in ratings'
      BY <1>3, <2>2, <2>4, <3>3 DEF RatingsKept
    <3>5. \A s \in Threads : s # t /\ Pending(s, UserPending)' => Own(s)' # Own(t)'
      BY <2>2, <2>4, <3>3 DEF RatingsKept
    <3>6. \A r, s \in Threads :
            Pending(r, UserPending)' /\ Pending(s, UserPending)' /\ Own(r)' = Own(s)' => r = s
      BY <2>4, <3>3, <3>5 DEF RatingsKept
    <3> QED BY <3>1, <3>2, <3>4, <3>6 DEF RatingsKept
  <2>8. HeldMean(t)'
    BY <2>1 DEF HeldMean, HoldsUser, HoldsProfile, Pending
  <2>9. HeldMean(t)' /\ CountsGrow
    BY <1>1, <2>1, <2>5, <2>6, <2>8 DEF CountsGrow
  <2> QED BY <1>1, <2>1, <2>3, <2>5, <2>7, <2>9, RowsKept
<1> QED BY <1>2, <1>3 DEF SaveRating, Own

LEMMA ReadProfileKept ==
  ASSUME IInv, Kept, NEW t \in Threads, ReadProfile(t)
  PROVE  Kept'
<1>1. /\ pc[t] = "read_profile" /\ req[t] \in Request /\ req[t].op = "rate"
      /\ UNCHANGED <<users, drivers, ratings, spoiled>>
  BY RateRequest DEF ReadProfile, database
<1>2. PICK u \in Ids : u = req[t].id
  BY <1>1 DEF Request
<1>3. PICK profile : profile = drivers[u]
  OBVIOUS
<1>4. PICK q : q = [req[t] EXCEPT !.profile = profile]
  OBVIOUS
<1>5. q.op = "rate" /\ q.id = u /\ q.profile = profile
      /\ q.ride = req[t].ride /\ q.from = req[t].from /\ q.score = req[t].score
  BY <1>1, <1>2, <1>4 DEF Request
<1>6. PICK step : /\ step = IF profile = NoDriver THEN "read_user" ELSE "profile"
                  /\ pc' = [pc EXCEPT ![t] = step] /\ req' = [req EXCEPT ![t] = q]
  BY <1>2, <1>3, <1>4 DEF ReadProfile, IInv, TypeOK
<1>7. pc'[t] = step /\ req'[t] = q /\ OthersWait(t)
  BY <1>6 DEF IInv, TypeOK, OthersWait
<1>8. Own(t)' = Own(t)
  BY <1>2, <1>5, <1>7 DEF Own
<1>9. Pending(t, UserPending) /\ Pending(t, ProfilePending) /\ Pending(t, UserPending)'
      /\ ~Promoting(t, req[t].id)
  BY <1>1, <1>5, <1>6, <1>7 DEF Pending, ProfilePending, UserPending, Promoting
<1>10. CASE profile # NoDriver
  <2>1. pc'[t] = "profile"
    BY <1>6, <1>7, <1>10
  <2>2. Pending(t, ProfilePending)'
    BY <1>5, <1>7, <2>1 DEF Pending, ProfilePending
  <2>3. HeldMean(t)'
    <3>1. ~HoldsUser(t)'
      BY <1>5, <1>7, <2>1 DEF HoldsUser
    <3>2. IsMeanOfSome(profile, Counted(u, ProfilePending))
      BY <1>3, <1>10 DEF Kept, RowsMean
    <3>3. Counted(u, ProfilePending)' = Counted(u, ProfilePending)
      BY <1>1, <1>7, <1>8, <1>9, <2>2, SameCounted
    <3> QED BY <1>5, <1>7, <3>1, <3>2, <3>3 DEF HeldMean
  <2> QED BY <1>1, <1>7, <1>8, <1>9, <2>2, <2>3, QuietKept
<1>11. CASE profile = NoDriver
  <2>1. pc'[t] = "read_user"
    BY <1>6, <1>7, <1>11
  <2>2. ~Pending(t, ProfilePending)'
    BY <1>5, <1>7, <2>1 DEF Pending, ProfilePending
  <2>3. RatingsKept /\ ratings \subseteq Rating
    BY DEF Kept, IInv, TypeOK
  <2>4. \A i \in Ids : Counted(i, UserPending)' = Counted(i, UserPending)
    BY <1>1, <1>7, <1>8, <1>9, SameCounted
  <2>5. /\ \A i \in Ids : i # u => Counted(i, ProfilePending)' = Counted(i, ProfilePending)
        /\ Counted(u, ProfilePending)' = Counted(u, ProfilePending) \cup {Own(t)}
    BY <1>1, <1>2, <1>7, <1>9, <2>2, <2>3, DoneCounted
  <2>6. CountsGrow
    BY <2>4, <2>5 DEF CountsGrow
  <2>7. \A i \in Ids : HasAccount(i) => HasAccount(i)'
    BY <1>1 DEF HasAccount
  <2>8. RatingsKept'
    BY <1>1, <1>7, <1>8, <1>9, <2>3, <2>7, RatingsWait
  <2>9. HeldMean(t)'
    BY <1>5, <1>7, <2>1 DEF HeldMean, HoldsUser, HoldsProfile
  <2> QED BY <1>1, <1>7, <1>9, <2>4, <2>6, <2>8, <2>9, RowsKept
<1> QED BY <1>10, <1>11

LEMMA ReadUserKept ==
  ASSUME IInv, Kept, NEW t \in Threads, ReadUser(t)
  PROVE  Kept'
<1>1. /\ pc[t] = "read_user" /\ req[t] \in Request /\ req[t].op = "rate"
      /\ HasAccount(req[t].id) /\ UNCHANGED <<users, drivers, ratings, spoiled>>
  BY RateRequest DEF ReadUser, database
<1>2. PICK u \in Ids : u = req[t].id
  BY <1>1 DEF Request
<1>3. PICK row : row = users[u]
  OBVIOUS
<1>4. PICK q : q = [req[t] EXCEPT !.row = row]
  OBVIOUS
<1>5. q.op = "rate" /\ q.id = u /\ q.row = row
      /\ q.ride = req[t].ride /\ q.from = req[t].from /\ q.score = req[t].score
  BY <1>1, <1>2, <1>4 DEF Request
<1>6. pc' = [pc EXCEPT ![t] = "user"] /\ req' = [req EXCEPT ![t] = q]
  BY <1>2, <1>3, <1>4 DEF ReadUser, IInv, TypeOK
<1>7. pc'[t] = "user" /\ req'[t] = q /\ OthersWait(t)
  BY <1>6 DEF IInv, TypeOK, OthersWait
<1>8. Own(t)' = Own(t)
  BY <1>2, <1>5, <1>7 DEF Own
<1>9. /\ Pending(t, UserPending) /\ ~Pending(t, ProfilePending)
      /\ Pending(t, UserPending)' /\ ~Pending(t, ProfilePending)'
      /\ ~Promoting(t, req[t].id)
  BY <1>1, <1>5, <1>7 DEF Pending, ProfilePending, UserPending, Promoting
<1>10. HeldMean(t)'
  <2>1. ~HoldsProfile(t)'
    BY <1>7 DEF HoldsProfile
  <2>2. IsMeanOfSome(row, Counted(u, UserPending))
    BY <1>1, <1>2, <1>3 DEF Kept, RowsMean
  <2>3. Counted(u, UserPending)' = Counted(u, UserPending)
    BY <1>1, <1>7, <1>8, <1>9, SameCounted
  <2> QED BY <1>5, <1>7, <2>1, <2>2, <2>3 DEF HeldMean
<1> QED BY <1>1, <1>7, <1>8, <1>9, <1>10, QuietKept

LEMMA FailKept ==
  ASSUME IInv, Kept, NEW t \in Threads, Fail(t)
  PROVE  Kept'
<1>1. /\ pc[t] # "idle" /\ Goto(t, "idle") /\ UNCHANGED <<users, drivers, ratings>>
      /\ spoiled \subseteq spoiled' /\ (req[t].op # "mark" => req[t].id \in spoiled')
  BY DEF Fail, database, Spoil
<1>2. pc'[t] = "idle" /\ req'[t] = Idle /\ OthersWait(t)
  BY <1>1, GotoEffect DEF OthersWait
<1>3. req[t] \in Request
  BY <1>1 DEF IInv, RequestKnown
<1>4. PICK u \in Ids : u = req[t].id
  BY <1>3 DEF Request
<1>5. ~Pending(t, UserPending)' /\ ~Pending(t, ProfilePending)'
  BY <1>2 DEF Pending, Idle
<1>6. RatingsKept /\ ratings \subseteq Rating
  BY DEF Kept, IInv, TypeOK
<1>7. /\ \A i \in Ids : i # u => Counted(i, UserPending)' = Counted(i, UserPending)
      /\ Counted(u, UserPending) \subseteq Counted(u, UserPending)'
  <2>1. CASE Pending(t, UserPending)
    BY <1>1, <1>2, <1>4, <1>5, <1>6, <2>1, DoneCounted
  <2>2. CASE ~Pending(t, UserPending)
    <3>1. \A i \in Ids : Counted(i, UserPending)' = Counted(i, UserPending)
      BY <1>1, <1>2, <1>5, <2>2, SameCounted
    <3> QED BY <3>1
  <2> QED BY <2>1, <2>2
<1>8. \A i \in Ids : Counted(i, ProfilePending) \subseteq Counted(i, ProfilePending)'
  <2>1. CASE Pending(t, ProfilePending)
    <3>1. /\ \A i \in Ids : i # u => Counted(i, ProfilePending)' = Counted(i, ProfilePending)
          /\ Counted(u, ProfilePending)' = Counted(u, ProfilePending) \cup {Own(t)}
      BY <1>1, <1>2, <1>4, <1>5, <1>6, <2>1, DoneCounted
    <3> QED BY <3>1
  <2>2. CASE ~Pending(t, ProfilePending)
    <3>1. \A i \in Ids : Counted(i, ProfilePending)' = Counted(i, ProfilePending)
      BY <1>1, <1>2, <1>5, <2>2, SameCounted
    <3> QED BY <3>1
  <2> QED BY <2>1, <2>2
<1>9. CountsGrow
  BY <1>7, <1>8 DEF CountsGrow
<1>10. RatingsKept'
  <2>1. \A i \in Ids : HasAccount(i) => HasAccount(i)'
    BY <1>1 DEF HasAccount
  <2> QED BY <1>1, <1>2, <1>5, <1>6, <2>1, RatingsWait
<1>11. RowsCount'
  <2>1. ASSUME req[t].op = "mark" PROVE Counted(u, UserPending)' = Counted(u, UserPending)
    <3>1. ~Pending(t, UserPending)
      BY <2>1 DEF Pending
    <3> QED BY <1>1, <1>2, <1>5, <3>1, SameCounted
  <2> QED BY <1>1, <1>4, <1>7, <2>1 DEF Kept, RowsCount, HasAccount
<1>12. Promoted'
  <2>1. ASSUME NEW i \in Ids, Promoting(t, i) PROVE i \in spoiled'
    BY <1>1, <2>1 DEF Promoting
  <2> QED BY <1>1, <1>2, <2>1 DEF Kept, Promoted, Promoting, OthersWait
<1>13. RowsMean'
  <2>1. ASSUME NEW i \in Ids, HasAccount(i)'
        PROVE  IsMeanOfSome(users'[i], Counted(i, UserPending)')
    <3>1. users'[i] = users[i] /\ IsMeanOfSome(users[i], Counted(i, UserPending))
      BY <1>1, <2>1 DEF Kept, RowsMean, HasAccount
    <3> QED BY <1>9, <3>1, MeanOfMore DEF CountsGrow
  <2>2. ASSUME NEW i \in Ids, drivers'[i] # NoDriver
        PROVE  IsMeanOfSome(drivers'[i], Counted(i, ProfilePending)')
    <3>1. drivers'[i] = drivers[i] /\ IsMeanOfSome(drivers[i], Counted(i, ProfilePending))
      BY <1>1, <2>2 DEF Kept, RowsMean
    <3> QED BY <1>9, <3>1, MeanOfMore DEF CountsGrow
  <2> QED BY <2>1, <2>2 DEF RowsMean
<1>14. HeldMean(t)'
  BY <1>2 DEF HeldMean, HoldsUser, HoldsProfile
<1>15. \A s \in Threads : HeldMean(s)'
  BY <1>2, <1>9, <1>14, HeldMeansStay
<1> QED BY <1>10, <1>11, <1>12, <1>13, <1>15 DEF Kept

LEMMA SaveProfileKept ==
  ASSUME IInv, Kept, NEW t \in Threads, SaveProfile(t)
  PROVE  Kept'
<1>1. /\ pc[t] = "profile" /\ req[t] \in Request /\ HasAccount(req[t].id)
      /\ \/ req[t].op = "driver" /\ DriverKnown(t, req[t])
         \/ req[t].op = "rate" /\ RateKnown(t, req[t])
      /\ UNCHANGED <<users, ratings, spoiled>>
  BY SaveRequest DEF SaveProfile
<1>2. PICK u \in Ids : u = req[t].id
  BY <1>1 DEF Request
<1>3. RatingsKept /\ ratings \subseteq Rating
  BY DEF Kept, IInv, TypeOK
<1>4. \A i \in Ids : HasAccount(i) => HasAccount(i)'
  BY <1>1 DEF HasAccount
<1>5. PICK p : drivers' = [drivers EXCEPT ![u] = p]
  BY <1>2 DEF SaveProfile
<1>6. drivers'[u] = p /\ \A i \in Ids : i # u => drivers'[i] = drivers[i]
  BY <1>5 DEF IInv, TypeOK
<1>7. CASE req[t].op = "driver"
  <2>1. p = NewDriver
    BY <1>2, <1>5, <1>6, <1>7 DEF SaveProfile, IInv, TypeOK
  <2>2. Goto(t, "user")
    BY <1>7 DEF SaveProfile, StepsOf
  <2>3. pc'[t] = "user" /\ req'[t] = req[t] /\ OthersWait(t)
    BY <2>2, GotoEffect DEF OthersWait
  <2>4. /\ ~Pending(t, ProfilePending)' /\ ~Pending(t, UserPending)'
        /\ ~Pending(t, ProfilePending) /\ ~Pending(t, UserPending)
    BY <1>7, <2>3 DEF Pending
  <2>5. Grows
    <3>1. p # NoDriver
      BY <2>1, RowsDiffer
    <3> QED BY <1>1, <1>4, <1>6, <3>1 DEF Grows
  <2>6. /\ RatingsKept' /\ CountsGrow
        /\ \A i \in Ids : Counted(i, UserPending)' = Counted(i, UserPending)
        /\ \A i \in Ids : Counted(i, ProfilePending)' = Counted(i, ProfilePending)
    BY <1>1, <1>3, <2>3, <2>4, <2>5, NothingAdded
  <2>7. RowsCount'
    BY <1>1, <2>6 DEF Kept, RowsCount, HasAccount
  <2>8. Promoted'
    <3>1. Promoting(t, u)'
      BY <1>2, <1>7, <2>3 DEF Promoting
    <3>2. ASSUME NEW i \in Ids, i # u, drivers'[i] # NoDriver, i \notin spoiled'
          PROVE  users'[i].role = "DRIVER" \/ \E s \in Threads : Promoting(s, i)'
      <4>1. users[i].role = "DRIVER" \/ \E s \in Threads : Promoting(s, i)
        BY <1>1, <1>6, <3>2 DEF Kept, Promoted
      <4>2. \A s \in Threads : Promoting(s, i) => s # t
        BY <1>1 DEF Promoting
      <4> QED BY <1>1, <2>3, <4>1, <4>2 DEF Promoting, OthersWait
    <3> QED BY <3>1, <3>2 DEF Promoted
  <2>9. RowsMean'
    <3>1. NewDriver.rating_count = 0 /\ NewDriver.avg_rating \in Int
      BY DEF NewDriver
    <3>2. IsMeanOfSome(drivers'[u], Counted(u, ProfilePending)')
      BY <1>6, <2>1, <3>1, MeanOfNone
    <3>3. ASSUME NEW i \in Ids, HasAccount(i)'
          PROVE  IsMeanOfSome(users'[i], Counted(i, UserPending)')
      BY <1>1, <2>6, <3>3 DEF Kept, RowsMean, HasAccount
    <3>4. ASSUME NEW i \in Ids, i # u, drivers'[i] # NoDriver
          PROVE  IsMeanOfSome(drivers'[i], Counted(i, ProfilePending)')
      BY <1>6, <2>6, <3>4 DEF Kept, RowsMean
    <3> QED BY <3>2, <3>3, <3>4 DEF RowsMean
  <2>10. HeldMean(t)'
    <3>1. PICK row : row = req[t].row
      OBVIOUS
    <3>2. IsMeanOfSome(row, Counted(u, UserPending))
      BY <1>1, <1>2, <1>7, <3>1 DEF Kept, HeldMean, HoldsUser
    <3>3. req'[t].id = u /\ req'[t].row = row /\ ~HoldsProfile(t)'
      BY <1>2, <2>3, <3>1 DEF HoldsProfile
    <3> QED BY <2>6, <3>2, <3>3 DEF HeldMean
  <2>11. \A s \in Threads : HeldMean(s)'
    BY <2>3, <2>6, <2>10, HeldMeansStay
  <2> QED BY <2>6, <2>7, <2>8, <2>9, <2>11 DEF Kept
<1>8. CASE req[t].op = "rate"
  <2>1. PICK profile \in Driver : profile = req[t].profile
    BY <1>1, <1>8 DEF RateKnown
  <2>2. PICK score \in 1..5 : score = req[t].score
    BY <1>1, <1>8 DEF RateKnown
  <2>3. PICK avg \in Averages(profile, score) : p = Rated(profile, score, avg)
    <3>1. PICK avg \in Averages(profile, score) :
            drivers' = [drivers EXCEPT ![u] = Rated(profile, score, avg)]
      BY <1>2, <1>8, <2>1, <2>2 DEF SaveProfile
    <3>2. drivers'[u] = Rated(profile, score, avg)
      BY <3>1 DEF IInv, TypeOK
    <3> QED BY <1>6, <3>2
  <2>4. Goto(t, "read_user")
    BY <1>8 DEF SaveProfile, StepsOf
  <2>5. pc'[t] = "read_user" /\ req'[t] = req[t] /\ OthersWait(t)
    BY <2>4, GotoEffect DEF OthersWait
  <2>6. /\ Pending(t, ProfilePending) /\ Pending(t, UserPending)
        /\ ~Pending(t, ProfilePending)' /\ Pending(t, UserPending)' /\ Own(t)' = Own(t)
    BY <1>1, <1>8, <2>5 DEF Pending, ProfilePending, UserPending, Own
  <2>7. \A i \in Ids : Counted(i, UserPending)' = Counted(i, UserPending)
    BY <1>1, <2>5, <2>6, SameCounted
  <2>8. /\ \A i \in Ids : i # u => Counted(i, ProfilePending)' = Counted(i, ProfilePending)
        /\ Counted(u, ProfilePending)' = Counted(u, ProfilePending) \cup {Own(t)}
        /\ Own(t) \notin Counted(u, ProfilePending)
    BY <1>1, <1>2, <1>3, <2>5, <2>6, DoneCounted
  <2>9. CountsGrow
    BY <2>7, <2>8 DEF CountsGrow
  <2>10. RatingsKept'
    BY <1>1, <1>3, <1>4, <2>5, <2>6, RatingsWait
  <2>11. RowsCount'
    BY <1>1, <2>7 DEF Kept, RowsCount, HasAccount
  <2>12. drivers[u] # NoDriver
    BY <1>1, <1>2, <1>8 DEF RateKnown
  <2>13. Promoted'
    <3>1. ASSUME NEW i \in Ids, drivers'[i] # NoDriver, i \notin spoiled'
          PROVE  users'[i].role = "DRIVER" \/ \E s \in Threads : Promoting(s, i)'
      <4>1. users[i].role = "DRIVER" \/ \E s \in Threads : Promoting(s, i)
        BY <1>1, <1>6, <2>12, <3>1 DEF Kept, Promoted
      <4>2. \A s \in Threads : Promoting(s, i) => s # t
        BY <1>1 DEF Promoting
      <4> QED BY <1>1, <2>5, <4>1, <4>2 DEF Promoting, OthersWait
    <3> QED BY <3>1 DEF Promoted
  <2>14. RowsMean'
    <3>1. IsMeanOfSome(profile, Counted(u, ProfilePending))
      BY <1>1, <1>2, <1>8, <2>1 DEF Kept, HeldMean, HoldsProfile
    <3>2. IsFiniteSet(Counted(u, ProfilePending))
      BY <1>3, CountedIsFinite
    <3>3. profile.rating_count \in Nat /\ profile.avg_rating \in Int
      BY DEF Driver
    <3>4. PICK own : own = Own(t)
      OBVIOUS
    <3>5. own.score = score /\ own \notin Counted(u, ProfilePending)
      BY <2>2, <2>8, <3>4 DEF Own
    <3>6. IsMeanOfSome(p, Counted(u, ProfilePending) \cup {own})
      BY <2>2, <2>3, <3>1, <3>2, <3>3, <3>5, RatedIsMean
    <3>7. IsMeanOfSome(drivers'[u], Counted(u, ProfilePending)')
      BY <1>6, <2>8, <3>4, <3>6
    <3>8. ASSUME NEW i \in Ids, HasAccount(i)'
          PROVE  IsMeanOfSome(users'[i], Counted(i, UserPending)')
      BY <1>1, <2>7, <3>8 DEF Kept, RowsMean, HasAccount
    <3>9. ASSUME NEW i \in Ids, i # u, drivers'[i] # NoDriver
          PROVE  IsMeanOfSome(drivers'[i], Counted(i, ProfilePending)')
      BY <1>6, <2>8, <3>9 DEF Kept, RowsMean
    <3> QED BY <3>7, <3>8, <3>9 DEF RowsMean
  <2>15. HeldMean(t)'
    BY <1>8, <2>5 DEF HeldMean, HoldsUser, HoldsProfile
  <2>16. \A s \in Threads : HeldMean(s)'
    BY <2>5, <2>9, <2>15, HeldMeansStay
  <2> QED BY <2>10, <2>11, <2>13, <2>14, <2>16 DEF Kept
<1> QED BY <1>1, <1>7, <1>8

\* A profile is written back as it was read: its average is still that of
\* ratings, though of fewer than have been counted since.
LEMMA SaveMarkKept ==
  ASSUME IInv, Kept, NEW t \in Threads, SaveMark(t)
  PROVE  Kept'
<1>1. /\ pc[t] = "mark" /\ req[t].op = "mark" /\ req[t] \in Request /\ MarkKnown(t, req[t])
      /\ UNCHANGED <<users, ratings, spoiled>>
  BY MarkRequest DEF SaveMark
<1>2. PICK u \in Ids : u = req[t].id
  BY <1>1 DEF Request
<1>3. PICK p \in Driver : p = req[t].profile
  BY <1>1 DEF MarkKnown
<1>4. drivers[u] # NoDriver /\ p # NoDriver
  BY <1>1, <1>2, RowsDiffer DEF MarkKnown
<1>5. drivers'[u] = p /\ \A i \in Ids : i # u => drivers'[i] = drivers[i]
  BY <1>2, <1>3 DEF SaveMark, IInv, TypeOK
<1>6. pc'[t] = "idle" /\ req'[t] = Idle /\ OthersWait(t)
  BY GotoEffect DEF SaveMark, OthersWait
<1>7. /\ ~Pending(t, ProfilePending)' /\ ~Pending(t, UserPending)'
      /\ ~Pending(t, ProfilePending) /\ ~Pending(t, UserPending)
  BY <1>1, <1>6 DEF Pending, Idle
<1>8. Grows /\ RatingsKept
  BY <1>1, <1>4, <1>5 DEF Grows, HasAccount, Kept
<1>9. /\ RatingsKept' /\ CountsGrow
      /\ \A i \in Ids : Counted(i, UserPending)' = Counted(i, UserPending)
      /\ \A i \in Ids : Counted(i, ProfilePending)' = Counted(i, ProfilePending)
  BY <1>1, <1>6, <1>7, <1>8, NothingAdded
<1>10. RowsCount'
  BY <1>1, <1>9 DEF Kept, RowsCount, HasAccount
<1>11. Promoted'
  <2>1. \A i \in Ids : ~Promoting(t, i)
    BY <1>1 DEF Promoting
  <2>2. \A i \in Ids : drivers'[i] # NoDriver => drivers[i] # NoDriver
    BY <1>4, <1>5
  <2> QED BY <1>1, <1>6, <2>1, <2>2 DEF Kept, Promoted, Promoting, OthersWait
<1>12. RowsMean'
  <2>1. IsMeanOfSome(p, Counted(u, ProfilePending))
    BY <1>1, <1>2, <1>3 DEF Kept, HeldMean, HoldsProfile
  <2>2. IsMeanOfSome(drivers'[u], Counted(u, ProfilePending)')
    BY <1>5, <1>9, <2>1
  <2>3. ASSUME NEW i \in Ids, HasAccount(i)'
        PROVE  IsMeanOfSome(users'[i], Counted(i, UserPending)')
    BY <1>1, <1>9, <2>3 DEF Kept, RowsMean, HasAccount
  <2>4. ASSUME NEW i \in Ids, i # u, drivers'[i] # NoDriver
        PROVE  IsMeanOfSome(drivers'[i], Counted(i, ProfilePending)')
    BY <1>5, <1>9, <2>4 DEF Kept, RowsMean
  <2> QED BY <2>2, <2>3, <2>4 DEF RowsMean
<1>13. HeldMean(t)'
  BY <1>6 DEF HeldMean, HoldsUser, HoldsProfile
<1>14. \A s \in Threads : HeldMean(s)'
  BY <1>6, <1>9, <1>13, HeldMeansStay
<1> QED BY <1>9, <1>10, <1>11, <1>12, <1>14 DEF Kept

\* A saved row is the row of an account.
LEMMA SaveUserGrows ==
  ASSUME IInv, NEW t \in Threads, SaveUser(t)
  PROVE  Grows
<1>1. /\ req[t].id \in Ids /\ HasAccount(req[t].id) /\ UNCHANGED drivers
      /\ \/ req[t].op = "driver" /\ DriverKnown(t, req[t])
         \/ req[t].op = "rate" /\ RateKnown(t, req[t])
  BY SaveRequest DEF SaveUser
<1>2. PICK u \in Ids : u = req[t].id
  BY <1>1
<1>3. PICK row \in User : row = req[t].row
  BY <1>1 DEF DriverKnown, RateKnown, SaveUser
<1>4. InRange(row) /\ row.name = users[u].name
  BY <1>1, <1>2, <1>3 DEF DriverKnown, RateKnown, MarkKnown, StillKnown, SaveUser
<1>5. PICK new : /\ users' = [users EXCEPT ![u] = new]
                 /\ new \in User /\ new.name = row.name
  <2>1. CASE req[t].op = "driver"
    <3>1. users' = [users EXCEPT ![u] = [row EXCEPT !.role = "DRIVER"]]
      BY <1>2, <1>3, <2>1 DEF SaveUser
    <3>2. [row EXCEPT !.role = "DRIVER"] \in User /\ [row EXCEPT !.role = "DRIVER"].name = row.name
      BY DEF User, Role
    <3> QED BY <3>1, <3>2
  <2>2. CASE req[t].op = "rate"
    <3>1. PICK score \in 1..5 : score = req[t].score
      BY <1>1, <2>2 DEF RateKnown
    <3>2. PICK avg \in Averages(row, score) :
            users' = [users EXCEPT ![u] = Rated(row, score, avg)]
      BY <1>2, <1>3, <2>2, <3>1 DEF SaveUser
    <3>3. Rated(row, score, avg) \in User /\ Rated(row, score, avg).name = row.name
      BY <1>4, RatedUser
    <3> QED BY <3>2, <3>3
  <2> QED BY <1>1, <2>1, <2>2
<1>6. users'[u] = new /\ \A i \in Ids : i # u => users'[i] = users[i]
  BY <1>5 DEF IInv, TypeOK
<1> QED BY <1>1, <1>4, <1>5, <1>6, RowsDiffer DEF Grows, HasAccount

LEMMA SaveUserKept ==
  ASSUME IInv, Kept, NEW t \in Threads, SaveUser(t)
  PROVE  Kept'
<1>1. /\ pc[t] = "user" /\ req[t] \in Request /\ HasAccount(req[t].id)
      /\ \/ req[t].op = "driver" /\ DriverKnown(t, req[t])
         \/ req[t].op = "rate" /\ RateKnown(t, req[t])
      /\ UNCHANGED <<drivers, ratings>> /\ spoiled \subseteq spoiled'
      /\ users[req[t].id] # req[t].row => req[t].id \in spoiled'
  BY SaveRequest DEF SaveUser, Spoil
<1>2. PICK u \in Ids : u = req[t].id
  BY <1>1 DEF Request
<1>3. PICK row \in User : row = req[t].row
  BY <1>1 DEF DriverKnown, RateKnown
<1>4. RatingsKept /\ ratings \subseteq Rating
  BY DEF Kept, IInv, TypeOK
<1>5. PICK new : users' = [users EXCEPT ![u] = new]
  BY <1>2 DEF SaveUser
<1>6. users'[u] = new /\ \A i \in Ids : i # u => users'[i] = users[i]
  BY <1>5 DEF IInv, TypeOK
<1>7. \A i \in Ids : HasAccount(i) => HasAccount(i)'
  <2>1. Grows
    BY SaveUserGrows
  <2> QED BY <2>1 DEF Grows
<1>8. u \notin spoiled' => users[u] = row /\ u \notin spoiled
  BY <1>1, <1>2, <1>3
<1>9. IsMeanOfSome(row, Counted(u, UserPending))
  BY <1>1, <1>2, <1>3 DEF Kept, HeldMean, HoldsUser
<1>10. CASE req[t].op = "driver"
  <2>1. new = [row EXCEPT !.role = "DRIVER"]
    <3>1. users' = [users EXCEPT ![u] = [row EXCEPT !.role = "DRIVER"]]
      BY <1>2, <1>3, <1>10 DEF SaveUser
    <3>2. users'[u] = [row EXCEPT !.role = "DRIVER"]
      BY <3>1 DEF IInv, TypeOK
    <3> QED BY <1>6, <3>2
  <2>2. /\ new.role = "DRIVER" /\ new.rating_count = row.rating_count
        /\ new.avg_rating = row.avg_rating
    BY <2>1 DEF User
  <2>3. Goto(t, "respond")
    BY <1>10 DEF SaveUser, StepsOf
  <2>4. pc'[t] = "respond" /\ req'[t] = req[t] /\ OthersWait(t)
    BY <2>3, GotoEffect DEF OthersWait
  <2>5. /\ ~Pending(t, ProfilePending)' /\ ~Pending(t, UserPending)'
        /\ ~Pending(t, ProfilePending) /\ ~Pending(t, UserPending)
    BY <1>10, <2>4 DEF Pending
  <2>6. /\ RatingsKept' /\ CountsGrow
        /\ \A i \in Ids : Counted(i, UserPending)' = Counted(i, UserPending)
        /\ \A i \in Ids : Counted(i, ProfilePending)' = Counted(i, ProfilePending)
    BY <1>1, <1>4, <2>4, <2>5, NothingAdded, SaveUserGrows
  <2>7. RowsCount'
    <3>1. u \notin spoiled' => users'[u].rating_count = Cardinality(Counted(u, UserPending)')
      BY <1>1, <1>2, <1>6, <1>8, <2>2, <2>6 DEF Kept, RowsCount
    <3>2. ASSUME NEW i \in Ids, i # u, HasAccount(i)', i \notin spoiled'
          PROVE  users'[i].rating_count = Cardinality(Counted(i, UserPending)')
      BY <1>1, <1>6, <2>6, <3>2 DEF Kept, RowsCount, HasAccount
    <3> QED BY <3>1, <3>2 DEF RowsCount
  <2>8. Promoted'
    <3>1. ASSUME NEW i \in Ids, i # u, drivers'[i] # NoDriver, i \notin spoiled'
          PROVE  users'[i].role = "DRIVER" \/ \E s \in Threads : Promoting(s, i)'
      <4>1. users[i].role = "DRIVER" \/ \E s \in Threads : Promoting(s, i)
        BY <1>1, <3>1 DEF Kept, Promoted
      <4>2. \A s \in Threads : Promoting(s, i) => s # t
        BY <1>2, <3>1 DEF Promoting
      <4> QED BY <1>6, <2>4, <3>1, <4>1, <4>2 DEF Promoting, OthersWait
    <3> QED BY <1>6, <2>2, <3>1 DEF Promoted
  <2>9. RowsMean'
    <3>1. IsMeanOfSome(users'[u], Counted(u, UserPending)')
      BY <1>6, <1>9, <2>2, <2>6 DEF IsMeanOfSome
    <3>2. ASSUME NEW i \in Ids, i # u, HasAccount(i)'
          PROVE  IsMeanOfSome(users'[i], Counted(i, UserPending)')
      BY <1>6, <2>6, <3>2 DEF Kept, RowsMean, HasAccount
    <3>3. ASSUME NEW i \in Ids, drivers'[i] # NoDriver
          PROVE  IsMeanOfSome(drivers'[i], Counted(i, ProfilePending)')
      BY <1>1, <2>6, <3>3 DEF Kept, RowsMean
    <3> QED BY <3>1, <3>2, <3>3 DEF RowsMean
  <2>10. HeldMean(t)'
    BY <1>10, <2>4 DEF HeldMean, HoldsUser, HoldsProfile
  <2>11. \A s \in Threads : HeldMean(s)'
    BY <2>4, <2>6, <2>10, HeldMeansStay
  <2> QED BY <2>6, <2>7, <2>8, <2>9, <2>11 DEF Kept
<1>11. CASE req[t].op = "rate"
  <2>1. PICK score \in 1..5 : score = req[t].score
    BY <1>1, <1>11 DEF RateKnown
  <2>2. PICK avg \in Averages(row, score) : new = Rated(row, score, avg)
    <3>1. PICK avg \in Averages(row, score) :
            users' = [users EXCEPT ![u] = Rated(row, score, avg)]
      BY <1>2, <1>3, <1>11, <2>1 DEF SaveUser
    <3>2. users'[u] = Rated(row, score, avg)
      BY <3>1 DEF IInv, TypeOK
    <3> QED BY <1>6, <3>2
  <2>3. new.role = row.role /\ new.rating_count = row.rating_count + 1
    BY <2>2 DEF Rated, User
  <2>4. Goto(t, "idle")
    BY <1>11 DEF SaveUser, StepsOf
  <2>5. pc'[t] = "idle" /\ req'[t] = Idle /\ OthersWait(t)
    BY <2>4, GotoEffect DEF OthersWait
  <2>6. /\ Pending(t, UserPending) /\ ~Pending(t, UserPending)'
        /\ ~Pending(t, ProfilePending) /\ ~Pending(t, ProfilePending)'
    BY <1>1, <1>11, <2>5 DEF Pending, ProfilePending, UserPending
  <2>7. \A i \in Ids : Counted(i, ProfilePending)' = Counted(i, ProfilePending)
    BY <1>1, <2>5, <2>6, SameCounted
  <2>8. PICK own : own = Own(t)
    OBVIOUS
  <2>9. /\ \A i \in Ids : i # u => Counted(i, UserPending)' = Counted(i, UserPending)
        /\ Counted(u, UserPending)' = Counted(u, UserPending) \cup {own}
        /\ own \notin Counted(u, UserPending) /\ own.score = score
    <3>1. /\ \A i \in Ids : i # u => Counted(i, UserPending)' = Counted(i, UserPending)
          /\ Counted(u, UserPending)' = Counted(u, UserPending) \cup {Own(t)}
          /\ Own(t) \notin Counted(u, UserPending)
      BY <1>1, <1>2, <1>4, <2>5, <2>6, DoneCounted
    <3>2. Own(t).score = score
      BY <2>1 DEF Own
    <3> QED BY <2>8, <3>1, <3>2
  <2>10. CountsGrow
    BY <2>7, <2>9 DEF CountsGrow
  <2>11. RatingsKept'
    BY <1>1, <1>4, <1>7, <2>5, <2>6, RatingsWait
  <2>12. IsFiniteSet(Counted(u, UserPending))
    BY <1>4, CountedIsFinite
  <2>13. RowsCount'
    <3>1. u \notin spoiled' => users'[u].rating_count = Cardinality(Counted(u, UserPending)')
      <4>1. Cardinality(Counted(u, UserPending)') = Cardinality(Counted(u, UserPending)) + 1
        BY <2>9, <2>12, FS_AddElement
      <4>2. u \notin spoiled' => row.rating_count = Cardinality(Counted(u, UserPending))
        BY <1>1, <1>2, <1>8 DEF Kept, RowsCount
      <4> QED BY <1>6, <2>3, <4>1, <4>2
    <3>2. ASSUME NEW i \in Ids, i # u, HasAccount(i)', i \notin spoiled'
          PROVE  users'[i].rating_count = Cardinality(Counted(i, UserPending)')
      BY <1>1, <1>6, <2>9, <3>2 DEF Kept, RowsCount, HasAccount
    <3> QED BY <3>1, <3>2 DEF RowsCount
  <2>14. Promoted'
    <3>1. \A i \in Ids : i \notin spoiled' => users'[i].role = users[i].role
      BY <1>6, <1>8, <2>3
    <3>2. ASSUME NEW i \in Ids, drivers'[i] # NoDriver, i \notin spoiled'
          PROVE  users'[i].role = "DRIVER" \/ \E s \in Threads : Promoting(s, i)'
      <4>1. users[i].role = "DRIVER" \/ \E s \in Threads : Promoting(s, i)
        BY <1>1, <3>2 DEF Kept, Promoted
      <4>2. \A s \in Threads : Promoting(s, i) => s # t
        BY <1>11 DEF Promoting
      <4> QED BY <2>5, <3>1, <3>2, <4>1, <4>2 DEF Promoting, OthersWait
    <3> QED BY <3>2 DEF Promoted
  <2>15. RowsMean'
    <3>1. row.rating_count \in Nat /\ row.avg_rating \in Int
      BY DEF User
    <3>2. IsMeanOfSome(new, Counted(u, UserPending) \cup {own})
      BY <1>9, <2>2, <2>9, <2>12, <3>1, RatedIsMean
    <3>3. IsMeanOfSome(users'[u], Counted(u, UserPending)')
      BY <1>6, <2>9, <3>2
    <3>4. ASSUME NEW i \in Ids, i # u, HasAccount(i)'
          PROVE  IsMeanOfSome(users'[i], Counted(i, UserPending)')
      BY <1>6, <2>9, <3>4 DEF Kept, RowsMean, HasAccount
    <3>5. ASSUME NEW i \in Ids, drivers'[i] # NoDriver
          PROVE  IsMeanOfSome(drivers'[i], Counted(i, ProfilePending)')
      BY <1>1, <2>7, <3>5 DEF Kept, RowsMean
    <3> QED BY <3>3, <3>4, <3>5 DEF RowsMean
  <2>16. HeldMean(t)'
    BY <2>5 DEF HeldMean, HoldsUser, HoldsProfile
  <2>17. \A s \in Threads : HeldMean(s)'
    BY <2>5, <2>10, <2>16, HeldMeansStay
  <2> QED BY <2>11, <2>13, <2>14, <2>15, <2>17 DEF Kept
<1> QED BY <1>1, <1>10, <1>11

LEMMA KeptStep == IInv /\ Kept /\ [Next]_vars => Kept'
<1> SUFFICES ASSUME IInv, Kept, [Next]_vars
             PROVE  Kept'
  OBVIOUS
<1>1. CASE UNCHANGED <<users, drivers, ratings, spoiled, pc, req>>
  <2>1. RatingsKept'
    BY <1>1 DEF Kept, RatingsKept, Pending, Own, HasAccount
  <2>2. \A i, steps : Counted(i, steps)' = Counted(i, steps)
    BY <1>1 DEF Counted, RatingsOf, Pending, Own
  <2>3. RowsCount' /\ RowsMean'
    BY <1>1, <2>2 DEF Kept, RowsCount, RowsMean, HasAccount
  <2>4. Promoted'
    BY <1>1 DEF Kept, Promoted, Promoting
  <2>5. \A t \in Threads : HeldMean(t)'
    BY <1>1, <2>2 DEF Kept, HeldMean, HoldsUser, HoldsProfile
  <2> QED BY <2>1, <2>3, <2>4, <2>5 DEF Kept
<1>2. CASE \/ UNCHANGED vars
           \/ \E i \in Ids : Login(i)
           \/ \E token \in tokens, mode \in Role : SwitchMode(token, mode)
           \/ \E r \in RideIds : CompleteRide(r)
  BY <1>1, <1>2 DEF vars, database, Login, SwitchMode, CompleteRide
<1>3. ASSUME NEW t \in Threads,
             BeginRegister(t) \/ BeginDriver(t) \/ BeginMark(t) \/ BeginRate(t)
      PROVE  Kept'
  BY <1>3, BeginsKept
<1>4. ASSUME NEW t \in Threads, Step(t) PROVE Kept'
  <2>1. CASE Insert(t)
    BY <2>1, InsertKept
  <2>2. CASE CheckProfile(t)
    <3>1. pc[t] = "exists" /\ UNCHANGED <<users, drivers, ratings, spoiled>>
      BY <2>2 DEF CheckProfile, database
    <3>2. req[t].op = "driver"
      BY <3>1, RequestIsNotIdle DEF IInv, RequestKnown, RegisterKnown, RateKnown, MarkKnown
    <3>3. PICK step : step \in {"profile", "idle"} /\ Goto(t, step)
      BY <2>2, <3>2 DEF CheckProfile, StepsOf
    <3> QED BY <3>1, <3>2, <3>3, MovesKept
  <2>3. CASE SaveRating(t)
    BY <2>3, SaveRatingKept
  <2>4. CASE ReadProfile(t)
    BY <2>4, ReadProfileKept
  <2>5. CASE ReadUser(t)
    BY <2>5, ReadUserKept
  <2>6. CASE SaveProfile(t)
    BY <2>6, SaveProfileKept
  <2>7. CASE SaveUser(t)
    BY <2>7, SaveUserKept
  <2>8. CASE Respond(t)
    BY <2>8, MovesKept DEF Respond, database
  <2>9. CASE SaveMark(t)
    BY <2>9, SaveMarkKept
  <2> QED BY <1>4, <2>1, <2>2, <2>3, <2>4, <2>5, <2>6, <2>7, <2>8, <2>9 DEF Step
<1>5. ASSUME NEW t \in Threads, Fail(t) PROVE Kept'
  BY <1>5, FailKept
<1> QED BY <1>2, <1>3, <1>4, <1>5 DEF Next

LEMMA Invariance == Spec => []IInv
BY IInvInit, IInvStep, PTL DEF Spec

LEMMA KeptAlways == Spec => []Kept
BY Invariance, KeptInit, KeptStep, PTL DEF Spec

-----------------------------------------------------------------------------
(* The theorems. *)

\* The variables keep their types, and stored averages stay within one and five
\* stars (_incremental_avg, services.py:237), for any number of ratings.
THEOREM TypeCorrect == Spec => []TypeOK
<1>1. IInv => TypeOK
  BY DEF IInv
<1> QED BY <1>1, Invariance, PTL

\* A token names the account it was given to, and no other, however many
\* registrations and saves overlap (views/auth.py:54, models.py:25).
THEOREM TokenNamesOwnerCorrect == Spec => []TokenNamesOwner
<1>1. IInv => TokenNamesOwner
  <2> SUFFICES ASSUME IInv, NEW token \in tokens
               PROVE  Named(token.name) = {token.owner}
    BY DEF TokenNamesOwner
  <2>1. token.owner \in Ids /\ HasAccount(token.owner) /\ users[token.owner].name = token.name
    BY DEF IInv, TypeOK, TokensKnown, StillKnown
  <2>2. \A i \in Ids : HasAccount(i) /\ users[i].name = token.name => i = token.owner
    BY <2>1 DEF IInv, NamesUnique
  <2> QED BY <2>1, <2>2 DEF Named
<1> QED BY <1>1, Invariance, PTL

\* Whoever holds a token for driver mode has a profile: the profile is saved
\* before the role (views/driver.py:38-41), and neither is ever taken back so
\* far that a switch of mode could be granted without it.
THEOREM DriverTokenHasProfileCorrect == Spec => []DriverTokenHasProfile
<1>1. IInv => DriverTokenHasProfile
  <2> SUFFICES ASSUME IInv, NEW token \in tokens, token.role = "DRIVER",
                      NEW i \in Named(token.name)
               PROVE  drivers[i] # NoDriver
    BY DEF DriverTokenHasProfile
  <2>1. token.owner \in Ids /\ StillKnown(token.owner, token.name, token.role)
    BY DEF IInv, TypeOK, TokensKnown
  <2>2. i = token.owner
    BY <2>1 DEF IInv, NamesUnique, StillKnown, Named
  <2> QED BY <2>1, <2>2 DEF StillKnown
<1> QED BY <1>1, Invariance, PTL

\* Between requests every rating is counted in the row of the user it is of
\* (services.py:216-227), unless his row was saved over a newer one or a
\* request died, for any number of raters at once.
THEOREM RatingsCountedCorrect == Spec => []RatingsCounted
<1>1. Kept => RatingsCounted
  <2> SUFFICES ASSUME Kept, AllIdle, NEW i \in Ids, HasAccount(i), i \notin spoiled
               PROVE  users[i].rating_count = Cardinality(RatingsOf(i))
    BY DEF RatingsCounted
  <2>1. \A t \in Threads : ~Pending(t, UserPending)
    BY DEF AllIdle, Pending, UserPending, ProfilePending
  <2>2. Counted(i, UserPending) = RatingsOf(i)
    BY <2>1 DEF Counted
  <2> QED BY <2>2 DEF Kept, RowsCount
<1> QED BY <1>1, KeptAlways, PTL

\* Between requests whoever has a profile has the role too (views/driver.py:38-41),
\* with the same two exceptions.
THEOREM ProfileMakesDriverCorrect == Spec => []ProfileMakesDriver
<1>1. Kept => ProfileMakesDriver
  BY DEF Kept, Promoted, Promoting, ProfileMakesDriver, AllIdle
<1> QED BY <1>1, KeptAlways, PTL

\* The average of a user and of a driver is the mean of as many of his ratings
\* as the row counts, within the rounding of each (_incremental_avg,
\* services.py:237), however many requests overwrite each other's rows.
THEOREM AveragesOfRatingsCorrect == Spec => []AveragesOfRatings
<1>1. Kept => AveragesOfRatings
  <2>1. \A i, steps : Counted(i, steps) \subseteq RatingsOf(i)
    BY DEF Counted
  <2> QED BY <2>1, MeanOfMore DEF Kept, RowsMean, AveragesOfRatings
<1> QED BY <1>1, KeptAlways, PTL
=============================================================================
