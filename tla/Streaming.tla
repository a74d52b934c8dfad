----------------------------- MODULE Streaming -----------------------------
(***************************************************************************)
(* The two event streams: a driver's offers and the location of a ride's   *)
(* driver.  A consumer authorises a request, opens the response, joins the *)
(* channel-layer group and pumps what the group is sent to the client      *)
(* until the client leaves or a stream.close arrives.                      *)
(*                                                                         *)
(* The ride table moves as RideLedger allows; the tasks its events start   *)
(* (module Dispatch carries them there) read a ride and then send; an      *)
(* event may be lost on the way and a task may die.  The channel layer is  *)
(* external: a group send reaches the channels that are members at that    *)
(* moment, drops what does not fit into a channel, and keeps the order.    *)
(***************************************************************************)
EXTENDS RideLedger, SequencesExt

CONSTANTS
  Conns,      \* requests for a stream, one connection each
  Capacity,   \* messages a channel of the channel layer holds
  Faults,     \* the faults that may happen, of "lost" and "dies"
  MaxWrites,  \* bound: writes to the ride table
  MaxNotices  \* bound: location updates, offers and sign-offs

VARIABLES
  due,      \* tasks of ride events the workers have yet to run
  sends,    \* the sends a task or a request is about to make
  members,  \* Redis: the channels of each group
  queue,    \* Redis: the messages waiting in each channel
  inbox,    \* what the client's side of each connection has to say
  hand,     \* the message chan_task of each connection has received, or None
  pc,       \* the next step of each consumer
  group,    \* the group each consumer is authorised for
  heard,    \* history: what each connection has been sent
  told,     \* history: what each channel has been sent
  missed,   \* history: connections whose group was closed before they joined
  full,     \* history: connections whose channel was full when sent to
  unsent,   \* history: rides whose end was lost on the way, or its task died
  writes, notices

service == <<rides, past, due, unsent, writes>>
client == <<inbox, heard>>
history == <<told, missed, full>>
streamVars ==
  <<service, sends, members, queue, client, hand, pc, group, history, notices>>

driver_offers_group(d) == <<"driver_offers", d>>
ride_location_group(r) == <<"ride_location", r>>
Groups == {driver_offers_group(d) : d \in Drivers}
            \cup {ride_location_group(r) : r \in RideIds}

RideEvents == {"driver.location", "driver.eta_to_pickup"}
OfferEvents == {"ride.offer", "offer.cancelled"}
Messages == RideEvents \cup OfferEvents \cup {"stream.close"}

ASSUME StreamAssumption ==
  /\ Capacity \in Nat \ {0} /\ Faults \subseteq {"lost", "dies"}
  /\ MaxWrites \in Nat /\ MaxNotices \in Nat
  /\ None \notin Messages \cup Groups

Init ==
  /\ LedgerInit
  /\ due = {} /\ sends = {}
  /\ members = [g \in Groups |-> {}]
  /\ queue = [c \in Conns |-> <<>>]
  /\ inbox = [c \in Conns |-> <<"http.request">>]
  /\ hand = [c \in Conns |-> None]
  /\ pc = [c \in Conns |-> "authorize"]
  /\ group = [c \in Conns |-> None]
  /\ heard = [c \in Conns |-> <<>>] /\ told = [c \in Conns |-> <<>>]
  /\ missed = {} /\ full = {} /\ unsent = {}
  /\ writes = 0 /\ notices = 0

-----------------------------------------------------------------------------
(* The services and the tasks: who sends what to which group. *)

\* Variant for the mutation runs: two handlers are confused.
TaskOfSwapped == [MATCHED |-> "ride-cancelled", COMPLETED |-> "ride-completed",
                  CANCELLED |-> "ride-accepted"]

TaskOf == [MATCHED |-> "ride-accepted", COMPLETED |-> "ride-completed",
           CANCELLED |-> "ride-cancelled"]

Closing == {"ride-completed", "ride-cancelled"}

\* Nobody will ever handle this task.
GiveUp(kind, r) ==
  unsent' = IF kind \in Closing THEN unsent \cup {r} ELSE unsent

\* A row is saved and its event published.  The event is lost where the request
\* fails between the two (complete_ride saves its driver there), the send fails
\* asynchronously, or the bridge cannot enqueue the task.
Save(r) ==
  /\ writes < MaxWrites
  /\ writes' = writes + 1
  /\ Open(r) \/ Overwrite(r)
  /\ LET status == rides'[r].status IN
       \/ status \notin DOMAIN TaskOf /\ UNCHANGED <<due, unsent>>
       \/ /\ status \in DOMAIN TaskOf
          /\ due' = due \cup {<<TaskOf[status], r>>} /\ UNCHANGED unsent
       \/ /\ status \in DOMAIN TaskOf /\ "lost" \in Faults
          /\ GiveUp(TaskOf[status], r) /\ UNCHANGED due
  /\ UNCHANGED <<sends, members, queue, client, hand, pc, group, history, notices>>

Will(g, message) == sends' = sends \cup {<<g, message>>}

\* handle_ride_accepted, up to its event for the rider: none if the row names
\* no driver any more, or the driver's position is not known.
AcceptedTask(ride, r) ==
  \/ ride.driver # None /\ Will(ride_location_group(r), "driver.eta_to_pickup")
  \/ UNCHANGED sends

\* Variant for the mutation runs: the check compares with the wrong status.
IsStillDriven(ride) == ride.status = "IN_PROGRESS"
IsCompleted(ride) == ride.status = "COMPLETED"

CompletedTask(ride, r) ==
  IF IsCompleted(ride) THEN Will(ride_location_group(r), "stream.close")
                       ELSE UNCHANGED sends

CancelledTask(ride, r) ==
  IF ride # NoRide THEN Will(ride_location_group(r), "stream.close")
                   ELSE UNCHANGED sends

Handle(kind, r) ==
  \/ kind = "ride-accepted" /\ AcceptedTask(rides[r], r)
  \/ kind = "ride-completed" /\ CompletedTask(rides[r], r)
  \/ kind = "ride-cancelled" /\ CancelledTask(rides[r], r)

\* A worker runs the task, or it raises or the worker is killed before it has
\* sent anything: it has been acknowledged, and no task asks to be retried.
RunTask(kind, r) ==
  /\ <<kind, r>> \in due
  /\ due' = due \ {<<kind, r>>}
  /\ \/ Handle(kind, r) /\ UNCHANGED unsent
     \/ "dies" \in Faults /\ GiveUp(kind, r) /\ UNCHANGED sends
  /\ UNCHANGED <<rides, past, writes, members, queue, client, hand, pc, group,
                 history, notices>>

IsTrackable(ride) == ride.status \in {"MATCHED", "IN_PROGRESS"}

\* update_location, its read of the driver's active ride; an offer or its
\* withdrawal from dispatch; go_offline.
Notice(d) ==
  /\ notices < MaxNotices
  /\ notices' = notices + 1
  /\ \/ \E r \in RideIds :
          /\ rides[r] # NoRide /\ rides[r].driver = d /\ IsTrackable(rides[r])
          /\ Will(ride_location_group(r), "driver.location")
     \/ \E message \in OfferEvents \cup {"stream.close"} :
          Will(driver_offers_group(d), message)
  /\ UNCHANGED <<service, members, queue, client, hand, pc, group, history>>

-----------------------------------------------------------------------------
(* The channel layer. *)

HasRoom(c) == Len(queue[c]) < Capacity

GroupSend(g, message) ==
  /\ <<g, message>> \in sends
  /\ sends' = sends \ {<<g, message>>}
  /\ LET reached == {c \in members[g] : HasRoom(c)}
         deliver(to) == [c \in Conns |->
                           IF c \in reached THEN Append(to[c], message) ELSE to[c]] IN
       /\ queue' = deliver(queue)
       /\ told' = deliver(told)
       /\ full' = full \cup (members[g] \ reached)
  /\ missed' = IF message = "stream.close"
                 THEN missed \cup {c \in Conns : pc[c] = "join" /\ group[c] = g}
                 ELSE missed
  /\ UNCHANGED <<service, members, client, hand, pc, group, notices>>

-----------------------------------------------------------------------------
(* A connection. *)

Goto(c, step) == pc' = [pc EXCEPT ![c] = step]

\* Variant for the mutation runs: only the statuses to refuse are listed, and a
\* ride that does not exist is not among them.
IsNotRefused(ride) == ride.status \notin {"REQUESTED", "COMPLETED", "CANCELLED"}
MayWatch(ride) == IsTrackable(ride)

\* The guards, on the ride as it is read now.  A refused request gets a plain
\* response and never becomes a stream.
Authorize(c) ==
  /\ pc[c] = "authorize"
  /\ \/ \E d \in Drivers : group' = [group EXCEPT ![c] = driver_offers_group(d)]
     \/ \E r \in RideIds :
          MayWatch(rides[r]) /\ group' = [group EXCEPT ![c] = ride_location_group(r)]
  /\ Goto(c, "join")
  /\ UNCHANGED <<service, sends, members, queue, client, hand, history, notices>>

\* The response is opened, then the channel joins the group.
Join(c) ==
  /\ pc[c] = "join"
  /\ members' = [members EXCEPT ![group[c]] = @ \cup {c}]
  /\ Goto(c, "pump")
  /\ UNCHANGED <<service, sends, queue, client, hand, group, history, notices>>

\* chan_task: the next message of the channel has been received.
Receive(c) ==
  /\ pc[c] = "pump" /\ hand[c] = None /\ queue[c] # <<>>
  /\ hand' = [hand EXCEPT ![c] = Head(queue[c])]
  /\ queue' = [queue EXCEPT ![c] = Tail(@)]
  /\ UNCHANGED <<service, sends, members, client, pc, group, history, notices>>

\* Variants for the mutation runs: only one of two finished tasks is looked at.
MessageAlone(c) == hand[c] # None /\ inbox[c] = <<>>
DisconnectAlone(c) == inbox[c] # <<>> /\ Head(inbox[c]) = "http.disconnect" /\ hand[c] = None
\* Variant for the mutation runs: the pump returns past the finally clause.
NextAfterPumpUnguarded == "ended"

HasMessage(c) == hand[c] # None
HasDisconnected(c) == inbox[c] # <<>> /\ Head(inbox[c]) = "http.disconnect"
NextAfterPump == "leave"

\* One turn of the loop: at least one of recv_task and chan_task is done, and
\* both may be.  A disconnect is looked at first.
Turn(c) ==
  /\ pc[c] = "pump"
  /\ inbox[c] # <<>> \/ hand[c] # None
  /\ inbox' = [inbox EXCEPT ![c] = IF @ = <<>> THEN @ ELSE Tail(@)]
  /\ hand' = [hand EXCEPT ![c] = None]
  /\ heard' = IF HasMessage(c) /\ ~HasDisconnected(c)
                THEN [heard EXCEPT ![c] = Append(@, hand[c])] ELSE heard
  /\ IF HasDisconnected(c) \/ hand[c] = "stream.close"
       THEN Goto(c, NextAfterPump) ELSE UNCHANGED pc
  /\ UNCHANGED <<service, sends, members, queue, group, history, notices>>

\* send_body raises: the client's connection is broken.
Break(c) ==
  /\ pc[c] = "pump" /\ HasMessage(c)
  /\ hand' = [hand EXCEPT ![c] = None]
  /\ Goto(c, NextAfterPump)
  /\ UNCHANGED <<service, sends, members, queue, client, group, history, notices>>

\* The finally clause of handle; nobody reads the channel any more.
Leave(c) ==
  /\ pc[c] = "leave"
  /\ members' = [members EXCEPT ![group[c]] = @ \ {c}]
  /\ queue' = [queue EXCEPT ![c] = <<>>]
  /\ Goto(c, "ended")
  /\ UNCHANGED <<service, sends, client, hand, group, history, notices>>

\* The client closes its side.
Disconnect(c) ==
  /\ pc[c] \in {"join", "pump"}
  /\ ~Contains(inbox[c], "http.disconnect")
  /\ inbox' = [inbox EXCEPT ![c] = Append(@, "http.disconnect")]
  /\ UNCHANGED <<service, sends, members, queue, heard, hand, pc, group, history, notices>>

Consume(c) == Join(c) \/ Receive(c) \/ Turn(c) \/ Leave(c)

Next ==
  \/ \E r \in RideIds : Save(r) \/ \E s \in DOMAIN TaskOf : RunTask(TaskOf[s], r)
  \/ \E d \in Drivers : Notice(d)
  \/ \E g \in Groups, message \in Messages : GroupSend(g, message)
  \/ \E c \in Conns : Authorize(c) \/ Consume(c) \/ Break(c) \/ Disconnect(c)

Spec == Init /\ [][Next]_streamVars

\* Workers run their tasks, sends are made, consumers are scheduled; of riders,
\* drivers and requests nothing is assumed.
FairSpec ==
  /\ Spec
  /\ \A s \in DOMAIN TaskOf, r \in RideIds : WF_streamVars(RunTask(TaskOf[s], r))
  /\ \A g \in Groups, message \in Messages : WF_streamVars(GroupSend(g, message))
  /\ \A c \in Conns : WF_streamVars(Consume(c))

-----------------------------------------------------------------------------

ClientSays == {<<>>, <<"http.request">>, <<"http.disconnect">>,
               <<"http.request", "http.disconnect">>}

\* The types of the variables; a consumer past its guards has a group, a
\* location stream watches a ride that exists, and a channel never holds more
\* than its capacity.
TypeOK ==
  /\ LedgerTypeOK
  /\ due \subseteq {TaskOf[s] : s \in DOMAIN TaskOf} \X RideIds
  /\ sends \subseteq Groups \X Messages
  /\ members \in [Groups -> SUBSET Conns]
  /\ queue \in [Conns -> Seq(Messages)]
  /\ \A c \in Conns : Len(queue[c]) <= Capacity
  /\ inbox \in [Conns -> ClientSays]
  /\ hand \in [Conns -> Messages \cup {None}]
  /\ pc \in [Conns -> {"authorize", "join", "pump", "leave", "ended"}]
  /\ group \in [Conns -> Groups \cup {None}]
  /\ \A c \in Conns : (group[c] = None) <=> (pc[c] = "authorize")
  /\ \A c \in Conns, r \in RideIds : group[c] = ride_location_group(r) => past[r] # {}
  /\ heard \in [Conns -> Seq(Messages)] /\ told \in [Conns -> Seq(Messages)]
  /\ missed \subseteq Conns /\ full \subseteq Conns /\ unsent \subseteq RideIds
  /\ writes \in 0..MaxWrites /\ notices \in 0..MaxNotices

\* A channel is a member of a group exactly from group_add to group_discard,
\* and of the group its request was authorised for: whatever ends a stream, a
\* disconnect, a close or an exception, it never stays a member.
MembersAreOpen ==
  \A g \in Groups : members[g] =
    {c \in Conns : group[c] = g /\ pc[c] \in {"pump", "leave"}}

\* What an open stream has sent is what its group was sent since it joined, in
\* that order, but for the message in hand and those still in the channel:
\* when the client speaks and a message arrives in the same turn of the pump,
\* neither is lost.
NothingLostInThePump ==
  \A c \in Conns : pc[c] = "pump" =>
    told[c] = heard[c] \o (IF hand[c] = None THEN <<>> ELSE <<hand[c]>>) \o queue[c]

\* The location stream of a ride is told to close only if the ride has been
\* completed or cancelled, although the tasks read rows that others overwrite.
CloseFollowsFinish ==
  \A r \in RideIds :
    \/ <<ride_location_group(r), "stream.close">> \in sends
    \/ \E c \in Conns : group[c] = ride_location_group(r)
                          /\ Contains(told[c], "stream.close")
    => \E row \in past[r] : row.status \in {"COMPLETED", "CANCELLED"}

Watches(c, r) == pc[c] = "pump" /\ group[c] = ride_location_group(r)
Finished(r) == rides[r].status \in {"COMPLETED", "CANCELLED"}

\* When a ride has come to its end, so do the streams of its location, however
\* its requests and tasks overlapped, with four exceptions: the close was sent
\* while the stream was between its guards and its group_add, or found its
\* channel full; the event of the end was lost, or its task died.
StreamsEndWithRide ==
  \A c \in Conns, r \in RideIds :
    <>[](Watches(c, r) /\ Finished(r)) => <>(c \in missed \cup full \/ r \in unsent)

\* The same of every stream ("closing the rider's stream", MILESTONE_NOTES.md:283).
EveryStreamEndsWithRide ==
  \A c \in Conns, r \in RideIds : ~<>[](Watches(c, r) /\ Finished(r))

\* A client who has left is noticed, and his channel leaves its group, however
\* many messages arrive.
DisconnectsNoticed ==
  \A c \in Conns :
    pc[c] # "authorize" /\ Contains(inbox[c], "http.disconnect") ~> pc[c] = "ended"
=============================================================================
