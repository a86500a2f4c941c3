----------------------------- MODULE ClientView -----------------------------
(***************************************************************************)
(* The client's view model (src/client/src/GymModelView.cpp) between the   *)
(* QML screens and the server.  Its handlers run in one thread, but        *)
(* replies arrive in any order, after another gym was selected or after    *)
(* the logout, and an error is not tied to the request it answers.         *)
(*                                                                         *)
(* The server is what the client's own requests need of it: a version      *)
(* counts the changes of slots and bookings it has made for this client.   *)
(***************************************************************************)
EXTENDS Integers, FiniteSets, Bags

CONSTANTS
  Gyms, NoGym,
  Calls,        \* the writes the user makes
  MaxInFlight,  \* bound: the user acts while fewer requests are in flight
  MaxEvents     \* bound: logins and changes the server makes

ASSUME ClientAssumption ==
  /\ NoGym \notin Gyms
  /\ MaxInFlight \in Nat /\ MaxEvents \in Nat

Lists == {"bookedIds", "queuedIds"}
Views == Lists \cup {"slots"}
Reads == Views \cup {"gyms", "figures"}  \* the user's hours and stats
AdminCalls == {"createSlot", "removeSlot", "createGym", "addHours", "addGymAdmin"}
ActionCalls == AdminCalls \cup {"book", "cancel"}
Writes == ActionCalls \cup {"join", "leave"}
ViewWrites == Writes \ {"createGym", "addHours", "addGymAdmin"}

ASSUME CallsAssumption == Calls \subseteq Writes

VARIABLES
  flight,     \* the bag of requests that have no reply yet
  counters,   \* m_pendingRequests, m_pendingActionRequests, m_isLoading
  selected,   \* m_selectedGymId
  gymsLoaded, \* m_gyms is not empty
  views,      \* m_slotsListModel, m_BookedSlotIds, m_QueuedSlotIds
  session,    \* m_userId: whose requests are sent; it outlives the logout
  screen,     \* "auth", "waiting" for the reply to a login, or "gym"
  version,    \* what the server has changed for this client
  excused     \* history: views that an error or a late reply has spoilt

vars == << flight, counters, selected, gymsLoaded, views, session, screen, version, excused >>

NoView(v) == [of |-> IF v = "slots" THEN NoGym ELSE 0, version |-> 0]

Init ==
  /\ flight = EmptyBag
  /\ counters = [pending |-> 0, actions |-> 0, loading |-> FALSE]
  /\ selected = NoGym
  /\ gymsLoaded = FALSE
  /\ views = [v \in Views |-> NoView(v)]
  /\ session = 0
  /\ screen = "auth"
  /\ version = 0
  /\ excused = {}

-----------------------------------------------------------------------------
(* The counters of requests.                                               *)
Larger(a, b) == IF a < b THEN b ELSE a

beginRequests(c, n) ==
  [c EXCEPT !.pending = @ + n, !.loading = @ \/ (c.pending = 0 /\ n > 0)]

endRequest(c) ==
  LET left == Larger(0, c.pending - 1) IN
  [c EXCEPT !.pending = left, !.loading = @ /\ left # 0]

beginActionRequest(c) == beginRequests([c EXCEPT !.actions = @ + 1], 1)

(* Bug: without qMax.                                                      *)
endActionRequestUnbounded(c) == endRequest([c EXCEPT !.actions = @ - 1])

endActionRequest(c) == endRequest([c EXCEPT !.actions = Larger(0, @ - 1)])

-----------------------------------------------------------------------------
(* What is sent: a bag of requests.  One pair stands for each copy of a    *)
(* request, so that their number is that of a set.                         *)
Copies(requests, kinds) ==
  UNION {{r} \X (1..requests[r]) : r \in {q \in BagToSet(requests) : q.kind \in kinds}}

Size(requests) == Cardinality(Copies(requests, Reads \cup Writes))

Sent(kind, of) == SetToBag({[kind |-> kind, of |-> of, version |-> 0, served |-> FALSE]})

SentByAnyone(kind) == Sent(kind, 0)   \* whose it is makes no difference to the view

loadSlots(gym, who) ==
  Sent("slots", gym) (+) Sent("bookedIds", who) (+) Sent("queuedIds", who)

init(who) == SentByAnyone("gyms") (+) SentByAnyone("figures") (+) Sent("queuedIds", who)

(* What a successful write makes the view send, by the kind of the write.  *)
onBookingFinished == Sent("bookedIds", session) (+) loadSlots(selected, session)

onQueueJoined(enrolled) ==
  (IF enrolled THEN Sent("bookedIds", session) ELSE EmptyBag)
    (+) Sent("queuedIds", session) (+) Sent("bookedIds", session)
    (+) loadSlots(selected, session)

(* Bug: the lists are read again, the gym's slots are not.                 *)
onQueueLeftListsOnly == Sent("queuedIds", session) (+) Sent("bookedIds", session)

onQueueLeft == Sent("queuedIds", session) (+) loadSlots(selected, session)

onSlotsChanged == loadSlots(selected, session)

onGymCreated == init(session)

FollowUps(kind) ==
  CASE kind \in {"book", "cancel"} -> {onBookingFinished}
    [] kind = "join" -> {onQueueJoined(enrolled) : enrolled \in BOOLEAN}
    [] kind = "leave" -> {onQueueLeft}
    [] kind \in {"createSlot", "removeSlot"} -> {onSlotsChanged}
    [] kind = "createGym" -> {onGymCreated}
    [] kind \in {"addHours", "addGymAdmin"} -> {EmptyBag}

-----------------------------------------------------------------------------
(* Calls of the screens.                                                   *)
CanCall == screen = "gym" /\ Size(flight) < MaxInFlight

Ask(requests) ==
  /\ flight' = flight (+) requests
  /\ counters' = beginRequests(counters, Size(requests))

login ==
  /\ screen = "auth"
  /\ screen' = "waiting"
  /\ UNCHANGED << flight, counters, selected, gymsLoaded, views, session, version, excused >>

authFinished ==
  /\ screen = "waiting"
  /\ version + session < MaxEvents
  /\ screen' = "gym"
  /\ session' = session + 1
  /\ Ask(init(session') (+) SentByAnyone("figures") (+) Sent("bookedIds", session'))
  /\ UNCHANGED << selected, gymsLoaded, views, version, excused >>

authError ==
  /\ screen = "waiting"
  /\ screen' = "auth"
  /\ UNCHANGED << flight, counters, selected, gymsLoaded, views, session, version, excused >>

selectGym(g) ==
  /\ CanCall
  /\ gymsLoaded
  /\ selected' = g
  /\ Ask(loadSlots(g, session))
  /\ UNCHANGED << gymsLoaded, views, session, screen, version, excused >>

refresh ==
  /\ CanCall
  /\ \/ Ask(init(session))
     \/ selected # NoGym /\ Ask(loadSlots(selected, session))
     \/ Ask(SentByAnyone("figures"))
  /\ UNCHANGED << selected, gymsLoaded, views, session, screen, version, excused >>

(* bookSlot, cancelBooking, removeSlot and addHours name a slot or a user  *)
(* that is shown; joinQueue and leaveQueue too, and count as no action.    *)
write(kind) ==
  /\ CanCall
  /\ kind \in {"createSlot", "addGymAdmin"} => selected # NoGym
  /\ kind \notin {"createSlot", "addGymAdmin", "createGym"} =>
       selected # NoGym /\ views["slots"].of # NoGym
  /\ flight' = flight (+) SentByAnyone(kind)
  /\ counters' = IF kind \in ActionCalls THEN beginActionRequest(counters)
                                         ELSE beginRequests(counters, 1)
  /\ UNCHANGED << selected, gymsLoaded, views, session, screen, version, excused >>

clearUserState ==
  /\ CanCall
  /\ screen' = "auth"
  /\ selected' = NoGym
  /\ gymsLoaded' = FALSE
  /\ views' = [v \in Views |-> NoView(v)]
  /\ excused' = {}
  /\ UNCHANGED << flight, counters, session, version >>

-----------------------------------------------------------------------------
(* The server makes a change, or reads what a view will show.  What other  *)
(* replies hold no property looks at.                                      *)
serve(r) ==
  LET after == IF r.kind \in ViewWrites THEN version + 1 ELSE version IN
  /\ ~r.served
  /\ r.kind \in Writes \cup Views
  /\ r.of # NoGym
  /\ after + session <= MaxEvents
  /\ version' = after
  /\ flight' = (flight (-) SetToBag({r}))
                 (+) SetToBag({[r EXCEPT !.served = TRUE,
                                         !.version = IF r.kind \in Views THEN after ELSE 0]})
  /\ UNCHANGED << counters, selected, gymsLoaded, views, session, screen, excused >>

Current(v) == [of |-> IF v = "slots" THEN selected ELSE session, version |-> version]

(* The reply replaces what was shown, whatever it is the reply to.         *)
onLoaded(r) ==
  LET reply == [of |-> r.of, version |-> r.version]
      late == r.of # Current(r.kind).of \/ r.version < views[r.kind].version
  IN
  /\ r.kind \in Views /\ r.served
  /\ views' = [views EXCEPT ![r.kind] = reply]
  /\ excused' = IF reply = Current(r.kind) THEN excused \ {r.kind}
                ELSE IF late THEN excused \cup {r.kind} ELSE excused
  /\ flight' = flight (-) SetToBag({r})
  /\ counters' = endRequest(counters)
  /\ UNCHANGED << selected, gymsLoaded, session, screen, version >>

onOtherLoaded(r) ==
  /\ r.kind \in Reads \ Views
  /\ gymsLoaded' = (gymsLoaded \/ r.kind = "gyms")
  /\ flight' = flight (-) SetToBag({r})
  /\ counters' = endRequest(counters)
  /\ UNCHANGED << selected, views, session, screen, version, excused >>

onWritten(r) ==
  /\ r.kind \in Writes /\ r.served
  /\ \E requests \in FollowUps(r.kind) :
       /\ flight' = (flight (-) SetToBag({r})) (+) requests
       /\ counters' = beginRequests(
            IF r.kind \in ActionCalls THEN endActionRequest(counters) ELSE endRequest(counters),
            Size(requests))
  /\ UNCHANGED << selected, gymsLoaded, views, session, screen, version, excused >>

(* Bug: only the request is ended.                                         *)
onApiErrorOfRequest(r) ==
  /\ flight' = flight (-) SetToBag({r})
  /\ counters' = endRequest(counters)
  /\ excused' = excused \cup (IF r.kind \in Views THEN {r.kind}
                              ELSE IF r.served THEN Views ELSE {})
  /\ UNCHANGED << selected, gymsLoaded, views, session, screen, version >>

(* Any request may fail, refused or lost before the server or after it.    *)
onApiError(r) ==
  /\ flight' = flight (-) SetToBag({r})
  /\ counters' = IF counters.actions > 0 THEN endActionRequest(counters) ELSE endRequest(counters)
  /\ excused' = excused \cup (IF r.kind \in Views THEN {r.kind}
                              ELSE IF r.served THEN Views ELSE {})
  /\ UNCHANGED << selected, gymsLoaded, views, session, screen, version >>

Next ==
  \/ login \/ authFinished \/ authError
  \/ \E g \in Gyms : selectGym(g)
  \/ refresh
  \/ \E kind \in Calls : write(kind)
  \/ clearUserState
  \/ \E r \in BagToSet(flight) :
       serve(r) \/ onLoaded(r) \/ onOtherLoaded(r) \/ onWritten(r) \/ onApiError(r)

Spec == Init /\ [][Next]_vars

-----------------------------------------------------------------------------
Request ==
  [kind : Reads \cup Writes, of : Gyms \cup {NoGym} \cup 0..MaxEvents,
   version : 0..MaxEvents, served : BOOLEAN]

TypeOK ==
  /\ BagToSet(flight) \subseteq Request
  /\ counters \in [pending : Nat, actions : Nat, loading : BOOLEAN]
  /\ selected \in Gyms \cup {NoGym}
  /\ gymsLoaded \in BOOLEAN
  /\ \A v \in Views : views[v].version \in 0..MaxEvents
  /\ \A v \in Lists : views[v].of \in 0..MaxEvents
  /\ views["slots"].of \in Gyms \cup {NoGym}
  /\ session \in 0..MaxEvents
  /\ screen \in {"auth", "waiting", "gym"}
  /\ version \in 0..MaxEvents
  /\ excused \subseteq Views

(* The client says it is loading exactly while a request has no reply,     *)
(* through errors booked on other requests and through a logout with       *)
(* requests in flight (GymModelView.cpp:75-104, 375-401).                  *)
LoadingWhileInFlight ==
  /\ counters.pending = Size(flight)
  /\ counters.loading <=> flight # EmptyBag

(* An error is shown as an action's only while an action is in flight,     *)
(* although errors of reads are booked on actions (GymModelView.cpp:393).  *)
ActionsArePending == counters.actions <= Cardinality(Copies(flight, ActionCalls))

(* The counters tell the truth about the requests in flight (the two       *)
(* above): what begins and ends them is spread over calls, replies, errors *)
(* and the logout, none of which knows the others (GymModelView.cpp:75-104,*)
(* 375-401).                                                               *)
CountersAreSound == LoadingWhileInFlight /\ ActionsArePending

(* When all replies are in, each view shows what the server had after the  *)
(* last change it made for this client, for the user who is logged in and  *)
(* the gym that is selected; unless an error or a reply overtaken by a     *)
(* newer one spoilt that view, and it was not read well since              *)
(* (GymModelView.cpp:117-128, 221-237, 275-280, 325-343).                  *)
QuietViewIsCurrent ==
  screen = "gym" /\ flight = EmptyBag =>
    \A v \in Views \ excused : views[v] = Current(v) \/ (v = "slots" /\ selected = NoGym)
=============================================================================
