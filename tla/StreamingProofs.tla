-------------------------- MODULE StreamingProofs --------------------------
(***************************************************************************)
(* What the streams keep for any number of connections, drivers and rides, *)
(* and for any capacity of the channels.                                   *)
(*                                                                         *)
(* The inductive invariant adds two facts to the properties.  A channel    *)
(* that has not joined yet has been told nothing; and whatever is about to *)
(* send a stream.close to a ride's group - a task that is due, a send that *)
(* is pending, a channel that has got it - has a finished row behind it in *)
(* the history of the ride, which never shrinks.                           *)
(***************************************************************************)
EXTENDS Streaming, SequenceTheorems, TLAPS

-----------------------------------------------------------------------------
(* Sequences: what was told stays heard, then held, then queued. *)

Held(message) == IF message = None THEN <<>> ELSE <<message>>

\* What a channel has been told, if the client has heard `sent`, `message` is
\* in hand and `waiting` is in the channel.
Passed(sent, message, waiting) == sent \o Held(message) \o waiting

\* Append under a name of its own, which the provers leave folded.
Put(queued, message) == Append(queued, message)

\* A message sent to the channel goes to the end of the queue.
LEMMA SentLast ==
  ASSUME NEW s \in Seq(Messages), NEW m \in Messages \cup {None},
         NEW q \in Seq(Messages), NEW x \in Messages
  PROVE  Put(Passed(s, m, q), x) = Passed(s, m, Put(q, x))
<1> DEFINE t == Held(m)
<1>1. /\ t \in Seq(Messages) /\ <<x>> \in Seq(Messages)
  BY DEF Held
<1> HIDE DEF t
<1>2. s \o t \in Seq(Messages)
  BY <1>1, ConcatProperties
<1>3. (s \o t) \o q \in Seq(Messages)
  BY <1>2, ConcatProperties
<1>4. Append((s \o t) \o q, x) = ((s \o t) \o q) \o <<x>>
  BY <1>3, AppendIsConcat
<1>5. Append(q, x) = q \o <<x>>
  BY AppendIsConcat
<1>6. ((s \o t) \o q) \o <<x>> = (s \o t) \o (q \o <<x>>)
  BY <1>1, <1>2, ConcatAssociative
<1> QED BY <1>4, <1>5, <1>6 DEF Passed, Put, t

\* Taking the first message out of the queue.
LEMMA TakenFirst ==
  ASSUME NEW s \in Seq(Messages), NEW q \in Seq(Messages), q # <<>>
  PROVE  Passed(s, None, q) = Passed(s, Head(q), Tail(q))
<1>1. /\ Head(q) \in Messages /\ Tail(q) \in Seq(Messages)
      /\ <<Head(q)>> \in Seq(Messages)
  BY HeadTailProperties
<1>2. q = <<Head(q)>> \o Tail(q)
  <2>1. Len(<<Head(q)>> \o Tail(q)) = Len(q)
    BY <1>1, ConcatProperties, HeadTailProperties, LenProperties
  <2>2. \A i \in 1..Len(q) : (<<Head(q)>> \o Tail(q))[i] = q[i]
    BY <1>1, ConcatProperties, HeadTailProperties, LenProperties
  <2> QED BY <1>1, <2>1, <2>2, SeqEqual, ConcatProperties
<1>3. s \o <<>> = s
  BY ConcatEmptySeq
<1>4. s \o (<<Head(q)>> \o Tail(q)) = s \o <<Head(q)>> \o Tail(q)
  BY <1>1, ConcatAssociative
<1>5. Held(None) = <<>> /\ Held(Head(q)) = <<Head(q)>>
  BY <1>1, StreamAssumption DEF Held
<1> QED BY <1>2, <1>3, <1>4, <1>5 DEF Passed

\* Sending the message in hand on to the client.
LEMMA SentOn ==
  ASSUME NEW s \in Seq(Messages), NEW x \in Messages, NEW q \in Seq(Messages)
  PROVE  Passed(s, x, q) = Passed(Put(s, x), None, q)
<1>1. Append(s, x) \in Seq(Messages) /\ Append(s, x) = s \o <<x>>
  BY AppendProperties, AppendIsConcat
<1>2. Append(s, x) \o <<>> = Append(s, x)
  BY <1>1, ConcatEmptySeq
<1>3. Held(None) = <<>> /\ Held(x) = <<x>>
  BY StreamAssumption DEF Held
<1> QED BY <1>1, <1>2, <1>3 DEF Passed, Put

\* The property of the pump, in these terms.
LEMMA PumpPasses ==
  NothingLostInThePump <=>
    \A c \in Conns : pc[c] = "pump" => told[c] = Passed(heard[c], hand[c], queue[c])
BY DEF NothingLostInThePump, Passed, Held

-----------------------------------------------------------------------------
(* The ride table. *)

\* The row that is current is one the ride has had.
CurrentIsPast == \A r \in RideIds : rides[r] # NoRide => rides[r] \in past[r]

\* Ride r is given the row `new`, and nothing else happens in the table.
Stored(r, new) ==
  /\ new \in Ride
  /\ rides' = [rides EXCEPT ![r] = new]
  /\ past' = [past EXCEPT ![r] = @ \cup {new}]

LEMMA SuccessorIsRide ==
  ASSUME NEW old \in Ride, NEW new \in Successors(old)
  PROVE  new \in Ride
<1>1. old.version + 1 \in Nat
  BY DEF Ride
<1>2. CASE \E d \in Drivers : new = Accepted(old, d)
  BY <1>1, <1>2 DEF Ride, Accepted, RideStatus
<1>3. CASE new \in {Started(old), Completed(old), Cancelled(old)}
  BY <1>1, <1>3 DEF Ride, Started, Completed, Cancelled, RideStatus
<1> QED BY <1>2, <1>3 DEF Successors

LEMMA LedgerWrites ==
  ASSUME LedgerTypeOK, NEW r \in RideIds, Open(r) \/ Overwrite(r)
  PROVE  \E new : Stored(r, new)
<1>1. CASE Open(r)
  <2>1. PICK u \in Riders : Store(r, NewRide(u))
    BY <1>1 DEF Open
  <2>2. NewRide(u) \in Ride
    BY DEF NewRide, Ride, RideStatus
  <2> QED BY <2>1, <2>2 DEF Store, Stored
<1>2. CASE Overwrite(r)
  <2>1. PICK old \in past[r] : \E new \in Successors(old) : Store(r, new)
    BY <1>2 DEF Overwrite
  <2>2. PICK new \in Successors(old) : Store(r, new)
    BY <2>1
  <2>3. old \in Ride
    BY DEF LedgerTypeOK
  <2>4. new \in Ride
    BY <2>3, SuccessorIsRide
  <2> QED BY <2>2, <2>4 DEF Store, Stored
<1> QED BY <1>1, <1>2

LEMMA StoredKeepsLedger ==
  ASSUME LedgerTypeOK, CurrentIsPast, NEW r \in RideIds, NEW new, Stored(r, new)
  PROVE  /\ LedgerTypeOK' /\ CurrentIsPast'
         /\ \A x \in RideIds : past[x] \subseteq past'[x]
         /\ new \in past'[r]
BY DEF LedgerTypeOK, CurrentIsPast, Stored

-----------------------------------------------------------------------------
(* The inductive invariant. *)

\* A channel that is not a member yet has been told nothing.
ToldNothing(c) ==
  told[c] = <<>> /\ heard[c] = <<>> /\ queue[c] = <<>> /\ hand[c] = None

NothingBeforeJoining ==
  \A c \in Conns : pc[c] \in {"authorize", "join"} => ToldNothing(c)

HasEnded(r) == \E row \in past[r] : row.status \in {"COMPLETED", "CANCELLED"}

ToldToClose(c) == \E i \in 1..Len(told[c]) : told[c][i] = "stream.close"

\* Whoever closes a location stream, or will, has a finished row behind him.
CloseIsDue ==
  \A r \in RideIds :
    /\ <<"ride-cancelled", r>> \in due => HasEnded(r)
    /\ <<ride_location_group(r), "stream.close">> \in sends => HasEnded(r)
    /\ \A c \in Conns :
         group[c] = ride_location_group(r) /\ ToldToClose(c) => HasEnded(r)

IInv ==
  /\ TypeOK /\ CurrentIsPast
  /\ MembersAreOpen
  /\ NothingBeforeJoining /\ NothingLostInThePump
  /\ CloseIsDue

LEMMA IInvInit == Init => IInv
<1> SUFFICES ASSUME Init PROVE IInv
  OBVIOUS
<1>1. TypeOK
  <2>1. 0 \in 0..MaxWrites /\ 0 \in 0..MaxNotices /\ 0 <= Capacity
    BY StreamAssumption
  <2>2. \A M : <<>> \in Seq(M) /\ Len(<<>>) = 0
    BY EmptySeq
  <2>3. \A r \in RideIds : None # ride_location_group(r)
    BY StreamAssumption DEF Groups
  <2> QED BY <2>1, <2>2, <2>3 DEF Init, TypeOK, LedgerInit, LedgerTypeOK, ClientSays
<1>2. CurrentIsPast /\ MembersAreOpen /\ NothingBeforeJoining /\ NothingLostInThePump
  BY DEF Init, LedgerInit, CurrentIsPast, MembersAreOpen, NothingBeforeJoining,
     ToldNothing, NothingLostInThePump
<1>3. CloseIsDue
  <2>1. \A c \in Conns : ~ToldToClose(c)
    BY DEF Init, ToldToClose
  <2> QED BY <2>1 DEF Init, CloseIsDue
<1> QED BY <1>1, <1>2, <1>3 DEF IInv
-----------------------------------------------------------------------------
(* The services and the tasks. *)

LEMMA TaskKinds ==
  /\ DOMAIN TaskOf = {"MATCHED", "COMPLETED", "CANCELLED"}
  /\ TaskOf["MATCHED"] = "ride-accepted" /\ TaskOf["COMPLETED"] = "ride-completed"
  /\ TaskOf["CANCELLED"] = "ride-cancelled"
BY DEF TaskOf

\* A history that grows keeps what it justifies.
LEMMA EndedStays ==
  ASSUME NEW r \in RideIds, past[r] \subseteq past'[r], HasEnded(r)
  PROVE  HasEnded(r)'
BY DEF HasEnded

LEMMA SaveStep ==
  ASSUME IInv, NEW r \in RideIds, Save(r)
  PROVE  IInv'
<1> USE DEF service, client, history
<1>1. PICK new : Stored(r, new)
  BY LedgerWrites DEF IInv, TypeOK, Save
<1>2. /\ LedgerTypeOK' /\ CurrentIsPast' /\ new \in past'[r]
      /\ \A x \in RideIds : past[x] \subseteq past'[x]
  BY <1>1, StoredKeepsLedger DEF IInv, TypeOK
<1>3. /\ rides'[r] = new
      /\ \/ due' = due
         \/ new.status \in DOMAIN TaskOf /\ due' = due \cup {<<TaskOf[new.status], r>>}
      /\ unsent' \subseteq RideIds
  BY <1>1 DEF Save, GiveUp, Stored, IInv, TypeOK, LedgerTypeOK
<1>4. TypeOK'
  <2>1. due' \subseteq {TaskOf[s] : s \in DOMAIN TaskOf} \X RideIds
    BY <1>3 DEF IInv, TypeOK
  <2>2. writes' \in 0..MaxWrites
    BY StreamAssumption DEF Save, IInv, TypeOK
  <2>3. \A c \in Conns, x \in RideIds : group'[c] = ride_location_group(x) => past'[x] # {}
    BY <1>2 DEF Save, IInv, TypeOK
  <2> QED BY <1>2, <1>3, <2>1, <2>2, <2>3 DEF Save, IInv, TypeOK
<1>5. MembersAreOpen' /\ NothingBeforeJoining' /\ NothingLostInThePump'
  BY DEF Save, IInv, MembersAreOpen, NothingBeforeJoining, ToldNothing, NothingLostInThePump
<1>6. CloseIsDue'
  <2> SUFFICES ASSUME NEW x \in RideIds
               PROVE  /\ <<"ride-cancelled", x>> \in due' => HasEnded(x)'
                      /\ <<ride_location_group(x), "stream.close">> \in sends' => HasEnded(x)'
                      /\ \A c \in Conns :
                           group'[c] = ride_location_group(x) /\ ToldToClose(c)' => HasEnded(x)'
    BY DEF CloseIsDue, ride_location_group
  <2>1. HasEnded(x) => HasEnded(x)'
    BY <1>2, EndedStays
  <2>2. ASSUME <<"ride-cancelled", x>> \in due', <<"ride-cancelled", x>> \notin due
        PROVE  HasEnded(x)'
    <3>1. x = r /\ new.status = "CANCELLED"
      BY <1>3, <2>2, TaskKinds
    <3> QED BY <1>2, <3>1 DEF HasEnded
  <2>3. sends' = sends /\ group' = group /\ \A c \in Conns : ToldToClose(c)' = ToldToClose(c)
    BY DEF Save, ToldToClose
  <2> QED BY <2>1, <2>2, <2>3 DEF IInv, CloseIsDue
<1> QED BY <1>2, <1>4, <1>5, <1>6 DEF IInv

\* What a task or a request may add to the sends it is about to make: a close
\* for a ride's group only if the ride has ended.
MayAdd(g, message) ==
  /\ <<g, message>> \in Groups \X Messages
  /\ message = "stream.close" =>
       \A r \in RideIds : g = ride_location_group(r) => HasEnded(r)

LEMMA SendsGrow ==
  ASSUME IInv, UNCHANGED <<ledgerVars, members, queue, client, hand, pc, group, history>>,
         due' \subseteq due, unsent' \subseteq RideIds,
         writes' = writes, notices' \in 0..MaxNotices,
         sends' = sends \/ \E g, message : MayAdd(g, message) /\ Will(g, message)
  PROVE  IInv'
<1> USE DEF client, history, ledgerVars
<1>1. TypeOK'
  <2>1. sends' \subseteq Groups \X Messages
    BY DEF Will, MayAdd, IInv, TypeOK
  <2> QED BY <2>1 DEF IInv, TypeOK, LedgerTypeOK
<1>2. /\ CurrentIsPast' /\ MembersAreOpen' /\ NothingBeforeJoining'
      /\ NothingLostInThePump'
  BY DEF IInv, CurrentIsPast, MembersAreOpen, NothingBeforeJoining, ToldNothing,
     NothingLostInThePump
<1>3. CloseIsDue'
  <2> SUFFICES ASSUME NEW r \in RideIds
               PROVE  /\ <<"ride-cancelled", r>> \in due' => HasEnded(r)'
                      /\ <<ride_location_group(r), "stream.close">> \in sends' => HasEnded(r)'
                      /\ \A c \in Conns :
                           group'[c] = ride_location_group(r) /\ ToldToClose(c)' => HasEnded(r)'
    BY DEF CloseIsDue, ride_location_group
  <2>1. HasEnded(r)' = HasEnded(r) /\ \A c \in Conns : ToldToClose(c)' = ToldToClose(c)
    BY DEF HasEnded, ToldToClose
  <2>2. <<ride_location_group(r), "stream.close">> \in sends' => HasEnded(r)
    <3>1. CASE sends' = sends
      BY <3>1 DEF IInv, CloseIsDue
    <3>2. CASE \E g, message : MayAdd(g, message) /\ Will(g, message)
      <4>1. PICK g, message : MayAdd(g, message) /\ Will(g, message)
        BY <3>2
      <4>2. CASE <<g, message>> = <<ride_location_group(r), "stream.close">>
        <5>1. g = ride_location_group(r) /\ message = "stream.close"
          BY <4>2
        <5> QED BY <4>1, <5>1 DEF MayAdd
      <4>3. CASE <<g, message>> # <<ride_location_group(r), "stream.close">>
        BY <4>1, <4>3 DEF Will, IInv, CloseIsDue
      <4> QED BY <4>2, <4>3
    <3> QED BY <3>1, <3>2
  <2> QED BY <2>1, <2>2 DEF IInv, CloseIsDue
<1> QED BY <1>1, <1>2, <1>3 DEF IInv

LEMMA RunTaskStep ==
  ASSUME IInv, NEW kind, NEW r \in RideIds, RunTask(kind, r)
  PROVE  IInv'
<1>1. ride_location_group(r) \in Groups
  BY DEF Groups
<1>2. \A x \in RideIds : ride_location_group(r) = ride_location_group(x) => r = x
  BY DEF ride_location_group
<1>3. sends' = sends \/ \E g, message : MayAdd(g, message) /\ Will(g, message)
  <2>1. CASE kind = "ride-accepted" /\ AcceptedTask(rides[r], r)
    <3>1. MayAdd(ride_location_group(r), "driver.eta_to_pickup")
      BY <1>1 DEF MayAdd, Messages, RideEvents
    <3> QED BY <2>1, <3>1 DEF AcceptedTask
  <2>2. CASE kind = "ride-completed" /\ CompletedTask(rides[r], r)
    <3>1. IsCompleted(rides[r]) => HasEnded(r)
      BY DEF IsCompleted, HasEnded, IInv, CurrentIsPast, NoRide
    <3>2. IsCompleted(rides[r]) => MayAdd(ride_location_group(r), "stream.close")
      BY <1>1, <1>2, <3>1 DEF MayAdd, Messages
    <3> QED BY <2>2, <3>2 DEF CompletedTask
  <2>3. CASE kind = "ride-cancelled" /\ CancelledTask(rides[r], r)
    <3>1. HasEnded(r)
      BY <2>3 DEF RunTask, IInv, CloseIsDue
    <3>2. MayAdd(ride_location_group(r), "stream.close")
      BY <1>1, <1>2, <3>1 DEF MayAdd, Messages
    <3> QED BY <2>3, <3>2 DEF CancelledTask
  <2> QED BY <2>1, <2>2, <2>3 DEF RunTask, Handle
<1>4. due' \subseteq due /\ unsent' \subseteq RideIds
  BY DEF RunTask, GiveUp, IInv, TypeOK
<1> QED
  BY <1>3, <1>4, SendsGrow DEF RunTask, ledgerVars, history, client, IInv, TypeOK

LEMMA NoticeStep ==
  ASSUME IInv, NEW d \in Drivers, Notice(d)
  PROVE  IInv'
<1>1. \A r \in RideIds : MayAdd(ride_location_group(r), "driver.location")
  BY DEF MayAdd, Groups, Messages, RideEvents
<1>2. \A message \in OfferEvents \cup {"stream.close"} : MayAdd(driver_offers_group(d), message)
  BY DEF MayAdd, Groups, Messages, driver_offers_group, ride_location_group
<1>3. notices' \in 0..MaxNotices
  BY StreamAssumption DEF Notice, IInv, TypeOK
<1>4. CASE \E r \in RideIds : Will(ride_location_group(r), "driver.location")
  BY <1>1, <1>3, <1>4, SendsGrow
  DEF Notice, service, ledgerVars, history, client, IInv, TypeOK
<1>5. CASE \E message \in OfferEvents \cup {"stream.close"} :
              Will(driver_offers_group(d), message)
  BY <1>2, <1>3, <1>5, SendsGrow
  DEF Notice, service, ledgerVars, history, client, IInv, TypeOK
<1> QED BY <1>4, <1>5 DEF Notice

-----------------------------------------------------------------------------
(* The channel layer. *)

\* Each channel gets the message or does not; only a member with room does.
LEMMA SendReaches ==
  ASSUME NEW g, NEW message, GroupSend(g, message), NEW c \in Conns
  PROVE  \/ told'[c] = told[c] /\ queue'[c] = queue[c]
         \/ /\ c \in members[g] /\ Len(queue[c]) < Capacity
            /\ told'[c] = Append(told[c], message)
            /\ queue'[c] = Append(queue[c], message)
BY DEF GroupSend, HasRoom

LEMMA GroupSendStep ==
  ASSUME IInv, NEW g, NEW message, GroupSend(g, message)
  PROVE  IInv'
<1> USE DEF service, client
<1>1. g \in Groups /\ message \in Messages
  BY DEF GroupSend, IInv, TypeOK
<1>2. /\ rides' = rides /\ past' = past /\ due' = due /\ members' = members /\ hand' = hand
      /\ pc' = pc /\ group' = group /\ heard' = heard /\ inbox' = inbox /\ writes' = writes
      /\ notices' = notices /\ unsent' = unsent /\ sends' \subseteq sends
  BY DEF GroupSend
<1>3. /\ queue' = [c \in Conns |-> queue'[c]] /\ told' = [c \in Conns |-> told'[c]]
  BY DEF GroupSend
<1>4. ASSUME NEW c \in Conns
      PROVE  /\ queue'[c] \in Seq(Messages) /\ told'[c] \in Seq(Messages)
             /\ Len(queue'[c]) <= Capacity
  <2>1. queue[c] \in Seq(Messages) /\ told[c] \in Seq(Messages) /\ Len(queue[c]) <= Capacity
    BY DEF IInv, TypeOK
  <2>2. Append(queue[c], message) \in Seq(Messages) /\ Append(told[c], message) \in Seq(Messages)
    BY <1>1, <2>1, AppendProperties
  <2>3. Len(Append(queue[c], message)) = Len(queue[c]) + 1 /\ Len(queue[c]) \in Nat
    BY <1>1, <2>1, AppendProperties, LenProperties
  <2>4. Len(queue[c]) < Capacity => Len(Append(queue[c], message)) <= Capacity
    BY <2>3, StreamAssumption
  <2> QED BY <2>1, <2>2, <2>4, SendReaches
<1>5. TypeOK'
  <2>1. missed' \subseteq Conns /\ full' \subseteq Conns
    BY <1>1 DEF GroupSend, IInv, TypeOK
  <2> QED BY <1>2, <1>3, <1>4, <2>1 DEF IInv, TypeOK, LedgerTypeOK
<1>6. CurrentIsPast' /\ MembersAreOpen'
  BY <1>2 DEF IInv, CurrentIsPast, MembersAreOpen
<1>7. NothingBeforeJoining'
  <2> SUFFICES ASSUME NEW c \in Conns, pc[c] \in {"authorize", "join"}
               PROVE  ToldNothing(c)'
    BY <1>2 DEF NothingBeforeJoining
  <2>1. c \notin members[g]
    BY <1>1 DEF IInv, MembersAreOpen
  <2> QED BY <1>2, <2>1, SendReaches DEF IInv, NothingBeforeJoining, ToldNothing
<1>8. NothingLostInThePump'
  <2> SUFFICES ASSUME NEW c \in Conns, pc[c] = "pump"
               PROVE  told'[c] = Passed(heard[c], hand[c], queue'[c])
    BY <1>2 DEF NothingLostInThePump, Passed, Held
  <2>1. told[c] = Passed(heard[c], hand[c], queue[c])
    BY PumpPasses DEF IInv
  <2>2. /\ heard[c] \in Seq(Messages) /\ hand[c] \in Messages \cup {None}
        /\ queue[c] \in Seq(Messages)
    BY DEF IInv, TypeOK
  <2>3. Put(told[c], message) = Passed(heard[c], hand[c], Put(queue[c], message))
    BY <1>1, <2>1, <2>2, SentLast
  <2>4. \/ told'[c] = told[c] /\ queue'[c] = queue[c]
        \/ told'[c] = Put(told[c], message) /\ queue'[c] = Put(queue[c], message)
    BY SendReaches DEF Put
  <2> QED BY <2>1, <2>3, <2>4
<1>9. CloseIsDue'
  <2> SUFFICES ASSUME NEW r \in RideIds, NEW c \in Conns,
                      group[c] = ride_location_group(r), ToldToClose(c)', ~ToldToClose(c)
               PROVE  HasEnded(r)
    BY <1>2 DEF CloseIsDue, IInv, HasEnded, ride_location_group
  <2>1. told'[c] # told[c]
    BY DEF ToldToClose
  <2>2. c \in members[g] /\ told'[c] = Append(told[c], message)
    BY <2>1, SendReaches
  <2>3. g = ride_location_group(r)
    BY <1>1, <2>2 DEF IInv, MembersAreOpen
  <2>4. told[c] \in Seq(Messages)
    BY DEF IInv, TypeOK
  <2>5. message = "stream.close"
    BY <1>1, <2>2, <2>4 DEF ToldToClose
  <2> QED BY <2>3, <2>5 DEF GroupSend, IInv, CloseIsDue
<1> QED BY <1>5, <1>6, <1>7, <1>8, <1>9 DEF IInv
-----------------------------------------------------------------------------
(* A connection. *)

LEMMA AuthorizeStep ==
  ASSUME IInv, NEW c \in Conns, Authorize(c)
  PROVE  IInv'
<1> USE DEF service, client, history
<1>1. /\ rides' = rides /\ past' = past /\ due' = due /\ sends' = sends /\ members' = members
      /\ queue' = queue /\ inbox' = inbox /\ heard' = heard /\ hand' = hand
      /\ told' = told /\ missed' = missed /\ full' = full
      /\ writes' = writes /\ notices' = notices /\ unsent' = unsent
      /\ pc[c] = "authorize" /\ pc' = [pc EXCEPT ![c] = "join"]
  BY DEF Authorize, Goto
<1>2. PICK g \in Groups :
        /\ group' = [group EXCEPT ![c] = g]
        /\ \A r \in RideIds : g = ride_location_group(r) => past[r] # {}
  <2>1. CASE \E d \in Drivers : group' = [group EXCEPT ![c] = driver_offers_group(d)]
    BY <2>1 DEF Groups, driver_offers_group, ride_location_group
  <2>2. CASE \E r \in RideIds : /\ MayWatch(rides[r])
                               /\ group' = [group EXCEPT ![c] = ride_location_group(r)]
    <3>1. PICK r \in RideIds : /\ MayWatch(rides[r])
                              /\ group' = [group EXCEPT ![c] = ride_location_group(r)]
      BY <2>2
    <3>2. rides[r] \in past[r]
      BY <3>1 DEF MayWatch, IsTrackable, NoRide, IInv, CurrentIsPast
    <3>3. /\ ride_location_group(r) \in Groups
          /\ \A x \in RideIds : ride_location_group(r) = ride_location_group(x) => r = x
      BY DEF Groups, ride_location_group
    <3> QED BY <3>1, <3>2, <3>3
  <2> QED BY <2>1, <2>2 DEF Authorize
<1>3. TypeOK'
  <2>1. \A x \in Conns : (group'[x] = None) <=> (pc'[x] = "authorize")
    BY <1>1, <1>2, StreamAssumption DEF IInv, TypeOK
  <2>2. \A x \in Conns, r \in RideIds : group'[x] = ride_location_group(r) => past[r] # {}
    BY <1>2 DEF IInv, TypeOK
  <2> QED BY <1>1, <1>2, <2>1, <2>2 DEF IInv, TypeOK, LedgerTypeOK
<1>4. CurrentIsPast' /\ NothingBeforeJoining' /\ NothingLostInThePump'
  BY <1>1 DEF IInv, TypeOK, CurrentIsPast, NothingBeforeJoining, ToldNothing,
     NothingLostInThePump
<1>5. MembersAreOpen'
  BY <1>1, <1>2 DEF IInv, TypeOK, MembersAreOpen
<1>6. CloseIsDue'
  <2>1. ~ToldToClose(c)
    BY <1>1 DEF IInv, NothingBeforeJoining, ToldNothing, ToldToClose
  <2>2. \A x \in Conns : x # c => group'[x] = group[x]
    BY <1>2 DEF IInv, TypeOK
  <2> QED BY <1>1, <2>1, <2>2
      DEF IInv, CloseIsDue, HasEnded, ToldToClose, ride_location_group
<1> QED BY <1>3, <1>4, <1>5, <1>6 DEF IInv

\* Steps of a consumer leave the table, the tasks and what was told alone.
LEMMA CloseUndisturbed ==
  ASSUME CloseIsDue,
         UNCHANGED <<rides, past, due, sends, group, told>>
  PROVE  CloseIsDue'
BY DEF CloseIsDue, HasEnded, ToldToClose, ride_location_group

LEMMA JoinStep ==
  ASSUME IInv, NEW c \in Conns, Join(c)
  PROVE  IInv'
<1> USE DEF service, client, history
<1>1. group[c] \in Groups
  BY DEF Join, IInv, TypeOK
<1>2. TypeOK'
  BY <1>1 DEF Join, Goto, IInv, TypeOK, LedgerTypeOK
<1>3. CurrentIsPast' /\ NothingBeforeJoining'
  BY DEF Join, Goto, IInv, TypeOK, CurrentIsPast, NothingBeforeJoining, ToldNothing
<1>4. NothingLostInThePump'
  <2> SUFFICES ASSUME NEW x \in Conns, pc'[x] = "pump"
               PROVE  told[x] = Passed(heard[x], hand[x], queue[x])
    BY DEF Join, NothingLostInThePump, Passed, Held
  <2>1. CASE x = c
    <3>1. told[c] = <<>> /\ heard[c] = <<>> /\ queue[c] = <<>> /\ hand[c] = None
      BY DEF Join, IInv, NothingBeforeJoining, ToldNothing
    <3>2. Passed(<<>>, None, <<>>) = <<>>
      BY DEF Passed, Held
    <3> QED BY <2>1, <3>1, <3>2
  <2>2. CASE x # c
    BY <2>2, PumpPasses DEF Join, Goto, IInv, TypeOK
  <2> QED BY <2>1, <2>2
<1>5. MembersAreOpen'
  <2>1. ASSUME NEW g \in Groups
        PROVE  members'[g] = {x \in Conns : group'[x] = g /\ pc'[x] \in {"pump", "leave"}}
    <3>1. members[g] = {x \in Conns : group[x] = g /\ pc[x] \in {"pump", "leave"}}
      BY DEF IInv, MembersAreOpen
    <3>2. members'[g] = IF g = group[c] THEN members[g] \cup {c} ELSE members[g]
      BY <1>1 DEF Join, IInv, TypeOK
    <3>3. group' = group /\ pc' = [pc EXCEPT ![c] = "pump"]
      BY DEF Join, Goto
    <3>4. pc \in [Conns -> {"authorize", "join", "pump", "leave", "ended"}] /\ pc[c] = "join"
      BY DEF Join, IInv, TypeOK
    <3> QED BY <3>1, <3>2, <3>3, <3>4
  <2> QED BY <2>1 DEF MembersAreOpen
<1>6. CloseIsDue'
  BY CloseUndisturbed DEF Join, IInv
<1> QED BY <1>2, <1>3, <1>4, <1>5, <1>6 DEF IInv

LEMMA LeaveStep ==
  ASSUME IInv, NEW c \in Conns, Leave(c)
  PROVE  IInv'
<1> USE DEF service, client, history
<1>1. <<>> \in Seq(Messages) /\ Len(<<>>) <= Capacity
  BY EmptySeq, StreamAssumption
<1>2. TypeOK'
  BY <1>1 DEF Leave, Goto, IInv, TypeOK, LedgerTypeOK
<1>3. CurrentIsPast' /\ NothingBeforeJoining'
  BY DEF Leave, Goto, IInv, TypeOK, CurrentIsPast, NothingBeforeJoining, ToldNothing
<1>4. NothingLostInThePump'
  <2> SUFFICES ASSUME NEW x \in Conns, pc'[x] = "pump"
               PROVE  told[x] = Passed(heard[x], hand[x], queue'[x])
    BY DEF Leave, NothingLostInThePump, Passed, Held
  <2> QED BY PumpPasses DEF Leave, Goto, IInv, TypeOK
<1>5. MembersAreOpen'
  <2>1. ASSUME NEW g \in Groups
        PROVE  members'[g] = {x \in Conns : group'[x] = g /\ pc'[x] \in {"pump", "leave"}}
    <3>1. members[g] = {x \in Conns : group[x] = g /\ pc[x] \in {"pump", "leave"}}
      BY DEF IInv, MembersAreOpen
    <3>2. members'[g] = IF g = group[c] THEN members[g] \ {c} ELSE members[g]
      BY DEF Leave, IInv, TypeOK
    <3>3. group' = group /\ pc' = [pc EXCEPT ![c] = "ended"]
      BY DEF Leave, Goto
    <3>4. pc \in [Conns -> {"authorize", "join", "pump", "leave", "ended"}]
      BY DEF IInv, TypeOK
    <3> QED BY <3>1, <3>2, <3>3, <3>4
  <2> QED BY <2>1 DEF MembersAreOpen
<1>6. CloseIsDue'
  BY CloseUndisturbed DEF Leave, IInv
<1> QED BY <1>2, <1>3, <1>4, <1>5, <1>6 DEF IInv

LEMMA ReceiveStep ==
  ASSUME IInv, NEW c \in Conns, Receive(c)
  PROVE  IInv'
<1> USE DEF service, client, history
<1>1. queue[c] \in Seq(Messages) /\ queue[c] # <<>> /\ Len(queue[c]) <= Capacity
  BY DEF Receive, IInv, TypeOK
<1>2. /\ Head(queue[c]) \in Messages /\ Tail(queue[c]) \in Seq(Messages)
      /\ Len(Tail(queue[c])) <= Capacity
  <2>1. Len(Tail(queue[c])) = Len(queue[c]) - 1 /\ Len(queue[c]) \in Nat
    BY <1>1, HeadTailProperties, LenProperties
  <2> QED BY <1>1, <2>1, HeadTailProperties, StreamAssumption
<1>3. TypeOK'
  BY <1>2 DEF Receive, IInv, TypeOK, LedgerTypeOK
<1>4. CurrentIsPast' /\ MembersAreOpen' /\ NothingBeforeJoining'
  BY DEF Receive, IInv, TypeOK, CurrentIsPast, MembersAreOpen, NothingBeforeJoining,
     ToldNothing
<1>5. NothingLostInThePump'
  <2> SUFFICES ASSUME NEW x \in Conns, pc[x] = "pump"
               PROVE  told[x] = Passed(heard[x], hand'[x], queue'[x])
    BY DEF Receive, NothingLostInThePump, Passed, Held
  <2>1. told[x] = Passed(heard[x], hand[x], queue[x])
    BY PumpPasses DEF IInv
  <2>2. Passed(heard[c], None, queue[c]) = Passed(heard[c], Head(queue[c]), Tail(queue[c]))
    BY <1>1, TakenFirst DEF IInv, TypeOK
  <2>3. /\ hand' = [hand EXCEPT ![c] = Head(queue[c])] /\ hand[c] = None
        /\ queue' = [queue EXCEPT ![c] = Tail(queue[c])]
    BY DEF Receive
  <2> QED BY <2>1, <2>2, <2>3 DEF IInv, TypeOK
<1>6. CloseIsDue'
  BY CloseUndisturbed DEF Receive, IInv
<1> QED BY <1>3, <1>4, <1>5, <1>6 DEF IInv

\* The turn leaves the loop, or goes on having sent what was in hand.
LEMMA TurnEffect ==
  ASSUME IInv, NEW c \in Conns, Turn(c)
  PROVE  /\ pc[c] = "pump" /\ hand' = [hand EXCEPT ![c] = None]
         /\ \/ pc' = [pc EXCEPT ![c] = "leave"]
            \/ /\ pc' = pc
               /\ hand[c] # None => heard' = [heard EXCEPT ![c] = Put(@, hand[c])]
               /\ hand[c] = None => heard' = heard
BY DEF Turn, Goto, HasMessage, HasDisconnected, NextAfterPump, Put

LEMMA TurnStep ==
  ASSUME IInv, NEW c \in Conns, Turn(c)
  PROVE  IInv'
<1> USE DEF service, client, history
<1>1. TypeOK'
  <2>1. inbox' \in [Conns -> ClientSays]
    <3>1. inbox[c] \in ClientSays
      BY DEF IInv, TypeOK
    <3>2. inbox[c] # <<>> => Tail(inbox[c]) \in ClientSays
      <4>1. CASE inbox[c] = <<"http.request">> \/ inbox[c] = <<"http.disconnect">>
        <5>1. Tail(<<"http.request">>) = <<>> /\ Tail(<<"http.disconnect">>) = <<>>
          OBVIOUS
        <5>2. Tail(inbox[c]) = <<>>
          BY <4>1, <5>1
        <5> QED BY <5>2 DEF ClientSays
      <4>2. CASE inbox[c] = <<"http.request", "http.disconnect">>
        <5>1. Tail(inbox[c]) = <<"http.disconnect">>
          BY <4>2
        <5> QED BY <5>1 DEF ClientSays
      <4> QED BY <3>1, <4>1, <4>2 DEF ClientSays
    <3> QED BY <3>2 DEF Turn, IInv, TypeOK
  <2>2. heard' \in [Conns -> Seq(Messages)]
    <3>1. hand[c] # None => Append(heard[c], hand[c]) \in Seq(Messages)
      BY AppendProperties DEF IInv, TypeOK
    <3> QED BY <3>1 DEF Turn, HasMessage, IInv, TypeOK
  <2>3. pc' \in [Conns -> {"authorize", "join", "pump", "leave", "ended"}]
        /\ \A x \in Conns : pc'[x] = "authorize" <=> pc[x] = "authorize"
    BY TurnEffect DEF IInv, TypeOK
  <2> QED BY <2>1, <2>2, <2>3 DEF Turn, IInv, TypeOK, LedgerTypeOK
<1> DEFINE Labels == {"authorize", "join", "pump", "leave", "ended"}
<1>2. /\ pc \in [Conns -> Labels] /\ pc[c] = "pump"
      /\ pc' = pc \/ pc' = [pc EXCEPT ![c] = "leave"]
  BY TurnEffect DEF IInv, TypeOK
<1>3. \A x \in Conns : x # c => heard'[x] = heard[x] /\ hand'[x] = hand[x]
  BY DEF Turn, IInv, TypeOK
<1>4. CurrentIsPast' /\ MembersAreOpen'
  <2>1. \A x \in Conns : pc'[x] \in {"pump", "leave"} <=> pc[x] \in {"pump", "leave"}
    BY <1>2
  <2> QED BY <2>1 DEF Turn, IInv, CurrentIsPast, MembersAreOpen
<1>5. NothingBeforeJoining'
  <2>1. \A x \in Conns : pc'[x] \in {"authorize", "join"} => pc'[x] = pc[x] /\ x # c
    BY <1>2
  <2> QED BY <1>3, <2>1 DEF Turn, IInv, NothingBeforeJoining, ToldNothing
<1>6. NothingLostInThePump'
  <2> SUFFICES ASSUME NEW x \in Conns, pc'[x] = "pump"
               PROVE  told[x] = Passed(heard'[x], hand'[x], queue[x])
    BY DEF Turn, NothingLostInThePump, Passed, Held
  <2>1. pc[x] = "pump" /\ told[x] = Passed(heard[x], hand[x], queue[x])
    BY TurnEffect, PumpPasses DEF IInv, TypeOK
  <2>2. hand[c] # None =>
          Passed(heard[c], hand[c], queue[c]) = Passed(Put(heard[c], hand[c]), None, queue[c])
    BY SentOn DEF IInv, TypeOK
  <2>3. CASE x = c
    <3>1. pc' = pc
      BY <1>2, <2>3
    <3>0. /\ hand[c] # None => heard' = [heard EXCEPT ![c] = Put(@, hand[c])]
          /\ hand[c] = None => heard' = heard
      <4>1. pc' # [pc EXCEPT ![c] = "leave"]
        BY <1>2, <3>1
      <4> QED BY <4>1, TurnEffect
    <3>2. hand[c] # None => heard'[c] = Put(heard[c], hand[c])
      <4>1. DOMAIN heard = Conns
        BY DEF IInv, TypeOK
      <4> QED BY <3>0, <4>1
    <3>3. hand[c] = None => heard'[c] = heard[c]
      BY <3>0
    <3>4. hand'[c] = None
      BY TurnEffect DEF IInv, TypeOK
    <3> QED BY <2>1, <2>2, <2>3, <3>2, <3>3, <3>4
  <2>4. CASE x # c
    <3>1. heard'[x] = heard[x] /\ hand'[x] = hand[x]
      BY <2>4 DEF Turn, IInv, TypeOK
    <3> QED BY <2>1, <3>1
  <2> QED BY <2>3, <2>4
<1>7. CloseIsDue'
  BY CloseUndisturbed DEF Turn, IInv
<1> QED BY <1>1, <1>4, <1>5, <1>6, <1>7 DEF IInv

LEMMA BreakStep ==
  ASSUME IInv, NEW c \in Conns, Break(c)
  PROVE  IInv'
<1> USE DEF service, client, history, Goto, NextAfterPump
<1>1. TypeOK' /\ CurrentIsPast' /\ MembersAreOpen' /\ NothingBeforeJoining'
  BY DEF Break, IInv, TypeOK, LedgerTypeOK, CurrentIsPast, MembersAreOpen,
     NothingBeforeJoining, ToldNothing
<1>2. NothingLostInThePump'
  <2> SUFFICES ASSUME NEW x \in Conns, pc'[x] = "pump"
               PROVE  told[x] = Passed(heard[x], hand'[x], queue[x])
    BY DEF Break, NothingLostInThePump, Passed, Held
  <2> QED BY PumpPasses DEF Break, IInv, TypeOK
<1>3. CloseIsDue'
  BY CloseUndisturbed DEF Break, IInv
<1> QED BY <1>1, <1>2, <1>3 DEF IInv

LEMMA DisconnectStep ==
  ASSUME IInv, NEW c \in Conns, Disconnect(c)
  PROVE  IInv'
<1> USE DEF service, client, history
<1>1. TypeOK'
  <2>1. inbox[c] \in ClientSays /\ ~Contains(inbox[c], "http.disconnect")
    BY DEF Disconnect, IInv, TypeOK
  <2>2. inbox[c] \in {<<>>, <<"http.request">>}
    BY <2>1 DEF Contains, ClientSays
  <2>3. Append(inbox[c], "http.disconnect") \in ClientSays
    <3>1. CASE inbox[c] = <<>>
      <4>1. Append(inbox[c], "http.disconnect") = <<"http.disconnect">>
        BY <3>1
      <4> QED BY <4>1 DEF ClientSays
    <3>2. CASE inbox[c] = <<"http.request">>
      <4>1. Append(<<"http.request">>, "http.disconnect") = <<"http.request", "http.disconnect">>
        <5> DEFINE S == {"http.request", "http.disconnect"}
                   said == Append(<<"http.request">>, "http.disconnect")
                   both == <<"http.request", "http.disconnect">>
        <5>1. <<"http.request">> \in Seq(S) /\ "http.disconnect" \in S /\ both \in Seq(S)
          OBVIOUS
        <5>2. /\ said \in Seq(S) /\ Len(said) = 2
              /\ said[1] = "http.request" /\ said[2] = "http.disconnect"
          BY <5>1, AppendProperties
        <5>3. Len(both) = 2 /\ both[1] = "http.request" /\ both[2] = "http.disconnect"
          OBVIOUS
        <5> HIDE DEF said, both, S
        <5>4. \A i \in 1..2 : said[i] = both[i]
          BY <5>2, <5>3
        <5>5. said = both
          BY <5>1, <5>2, <5>3, <5>4, SeqEqual
        <5> QED BY <5>5 DEF said, both
      <4>2. Append(inbox[c], "http.disconnect") = <<"http.request", "http.disconnect">>
        BY <3>2, <4>1
      <4> QED BY <4>2 DEF ClientSays
    <3> QED BY <2>2, <3>1, <3>2
  <2> QED BY <2>3 DEF Disconnect, IInv, TypeOK, LedgerTypeOK
<1>2. CurrentIsPast' /\ MembersAreOpen' /\ NothingBeforeJoining' /\ NothingLostInThePump'
  BY DEF Disconnect, IInv, CurrentIsPast, MembersAreOpen, NothingBeforeJoining, ToldNothing,
     NothingLostInThePump
<1>3. CloseIsDue'
  BY CloseUndisturbed DEF Disconnect, IInv
<1> QED BY <1>1, <1>2, <1>3 DEF IInv

-----------------------------------------------------------------------------
(* The theorems. *)

LEMMA IInvStep == IInv /\ [Next]_streamVars => IInv'
<1> SUFFICES ASSUME IInv, [Next]_streamVars
             PROVE  IInv'
  OBVIOUS
<1>1. CASE UNCHANGED streamVars
  <2> USE <1>1 DEF streamVars, service, client, history
  <2>1. TypeOK' /\ CurrentIsPast'
    BY DEF IInv, TypeOK, LedgerTypeOK, CurrentIsPast
  <2>2. MembersAreOpen' /\ NothingBeforeJoining' /\ NothingLostInThePump'
    BY DEF IInv, MembersAreOpen, NothingBeforeJoining, ToldNothing, NothingLostInThePump
  <2>3. CloseIsDue'
    BY CloseUndisturbed DEF IInv
  <2> QED BY <2>1, <2>2, <2>3 DEF IInv
<1>2. CASE \E r \in RideIds : Save(r) \/ \E s \in DOMAIN TaskOf : RunTask(TaskOf[s], r)
  BY <1>2, SaveStep, RunTaskStep
<1>3. CASE \E d \in Drivers : Notice(d)
  BY <1>3, NoticeStep
<1>4. CASE \E g \in Groups, message \in Messages : GroupSend(g, message)
  BY <1>4, GroupSendStep
<1>5. CASE \E c \in Conns : Authorize(c) \/ Consume(c) \/ Break(c) \/ Disconnect(c)
  BY <1>5, AuthorizeStep, JoinStep, ReceiveStep, TurnStep, LeaveStep, BreakStep,
     DisconnectStep DEF Consume
<1> QED BY <1>1, <1>2, <1>3, <1>4, <1>5 DEF Next

LEMMA IInvHolds == Spec => []IInv
BY IInvInit, IInvStep, PTL DEF Spec

\* The state keeps its types, and no channel ever holds more than its capacity.
THEOREM TypeCorrect == Spec => []TypeOK
<1>1. IInv => TypeOK
  BY DEF IInv
<1> QED BY <1>1, IInvHolds, PTL

\* However streams end, a channel is in its group exactly while it is pumped.
THEOREM MembersCorrect == Spec => []MembersAreOpen
<1>1. IInv => MembersAreOpen
  BY DEF IInv
<1> QED BY <1>1, IInvHolds, PTL

\* The pump loses and reorders nothing, whatever the client says meanwhile.
THEOREM PumpCorrect == Spec => []NothingLostInThePump
<1>1. IInv => NothingLostInThePump
  BY DEF IInv
<1> QED BY <1>1, IInvHolds, PTL

\* Nobody closes the location stream of a ride that has not come to its end.
THEOREM CloseCorrect == Spec => []CloseFollowsFinish
<1>1. IInv => CloseFollowsFinish
  BY DEF IInv, CloseIsDue, CloseFollowsFinish, HasEnded, ToldToClose, Contains
<1> QED BY <1>1, IInvHolds, PTL
=============================================================================
