---------------------------- MODULE NotifierProofs ----------------------------
(***************************************************************************)
(* No slot goes through the notifier's window unseen, for all slots,       *)
(* windows and clocks.  What makes it inductive is how long a slot that    *)
(* has not been seen can have been in the window: not at all while a pass  *)
(* is under way, and no longer than the notifier has slept otherwise.      *)
(* Then, that mails are sent in time: each one that is owed is gathered by *)
(* the next pass, and stays gathered until it is tried.                    *)
(***************************************************************************)
EXTENDS Notifier, AtomicBookingProofs, SequenceTheorems

(* Live slots in the window that neither a pass nor a fault accounts for.  *)
Unseen(s) == s \in InWindow(start, now) /\ Live(slots[s]) /\ s \notin accounted

UnseenAreNew ==
  \A s \in Slots : Unseen(s) =>
    /\ awake => ticks = 1 /\ start[s] - now = WindowTo
    /\ ~awake => start[s] - now >= WindowTo - ticks

(* The types of what the notifier adds to the tables.                      *)
PassTypeOK ==
  /\ now \in 0..MaxTime /\ start \in [Slots -> Starts]
  /\ awake \in BOOLEAN /\ rows \subseteq Slots /\ notifications \in Seq(Mails)
  /\ env \in Mails \cup {NoMail}
  /\ ticks \in 0..2
  /\ accounted \subseteq InWindow(start, now)
  /\ mailed \subseteq Mails
  /\ faults \in 0..MaxFaults
  /\ ~awake => rows = {} /\ notifications = << >>

NInv ==
  /\ Consistent(slots, users)
  /\ PassTypeOK
  /\ ~awake => ticks <= 1
  /\ UnseenAreNew

LEMMA InitNInv == NotifierInit => NInv
<1> SUFFICES ASSUME NotifierInit PROVE NInv
  OBVIOUS
<1>1. Consistent(slots, users)
  BY InitAgrees DEF NotifierInit, Init
<1>2. << >> \in Seq(Mails)
  OBVIOUS
<1>3. /\ now \in 0..MaxTime /\ faults \in 0..MaxFaults /\ ticks \in 0..2 /\ ticks <= 1
  <2>1. now = 0 /\ faults = 0 /\ ticks = 0
    BY DEF NotifierInit
  <2> QED
    BY <2>1, TimesAssumption
<1>6. /\ start \in [Slots -> Starts] /\ ~awake /\ awake \in BOOLEAN
      /\ rows \subseteq Slots /\ rows = {} /\ notifications = << >>
      /\ accounted = InWindow(start, now) /\ mailed \subseteq Mails /\ env \in Mails \cup {NoMail}
  BY DEF NotifierInit
<1>5. PassTypeOK
  BY <1>2, <1>3, <1>6 DEF PassTypeOK
<1>4. UnseenAreNew
  BY DEF NotifierInit, UnseenAreNew, Unseen
<1> QED
  BY <1>1, <1>3, <1>4, <1>5 DEF NInv

LEMMA Times ==
  ASSUME NInv
  PROVE  now \in Int /\ MaxTime \in Nat /\ \A s \in Slots : start[s] \in Int
<1>1. now \in 0..MaxTime /\ start \in [Slots -> Starts]
  BY DEF NInv, PassTypeOK
<1>2. MaxTime \in Nat /\ Starts \subseteq Int
  BY TimesAssumption
<1>3. now \in Int
  BY <1>1, <1>2
<1>4. ASSUME NEW s \in Slots PROVE start[s] \in Int
  <2>1. start[s] \in Starts
    BY <1>1
  <2> QED
    BY <1>2, <2>1
<1> QED
  BY <1>2, <1>3, <1>4

-----------------------------------------------------------------------------
(* Of all statements on slots rows only the INSERT brings one to life.     *)
LEMMA OneSlotRowLiveness ==
  ASSUME NEW sl, NEW new, NEW s \in Slots, OneSlotRow(sl, new, s),
         NEW q \in Slots, Live(new[q])
  PROVE  Live(sl[q])
BY DEF OneSlotRow

LEMMA ServeLiveness ==
  ASSUME Consistent(slots, users), NEW r \in Requests, NEW a \in Answers, Serve(r, a),
         NEW q \in Slots, Live(slots'[q]), ~Live(slots[q])
  PROVE  r.op = "createSlot" /\ r.slot = q
<1>1. SlotsOK(slots) /\ slots \in [Slots -> SlotRow]
  BY DEF Consistent, SlotsOK
<1>2. CASE createSlot(r, a)
  <2>1. slots' = insertSlot(slots, r.slot, r.cap) /\ r.slot \in Slots /\ r.op = "createSlot"
    BY <1>2, RequestFields DEF createSlot
  <2> QED
    BY <1>1, <2>1 DEF insertSlot
<1>3. CASE /\ r.slot \in Slots /\ r.user \in Users
           /\ \/ slots' = addEntry(slots, r.user, r.slot)
              \/ slots' = addToQueue(slots, r.user, r.slot)
              \/ slots' = removeFromQueue(slots, r.user, r.slot)
              \/ slots' = removeEntry(slots, r.user, r.slot)
  <2>1. PICK c \in Capacities : TRUE
    BY CapacitiesAssumption
  <2>2. OneSlotRow(slots, slots', r.slot)
    BY <1>1, <1>3, <2>1, OneSlotWritten
  <2> QED
    BY <1>3, <2>2, OneSlotRowLiveness
<1>4. CASE addUserEntry(r, a) \/ joinQueue(r, a) \/ leaveQueue(r, a)
  <2>1. r.slot \in Slots /\ r.user \in Users
    BY <1>4, RequestFields DEF addUserEntry, joinQueue, leaveQueue, SeatOps
  <2> QED
    BY <1>3, <1>4, <2>1 DEF addUserEntry, joinQueue, leaveQueue, vars
<1>5. CASE deleteUserEntry(r, a)
  <2> DEFINE left == removeEntry(slots, r.user, r.slot)
             next == getFirstInQueue(left, r.slot)
  <2>1. r.user \in Users /\ r.slot \in Slots
    BY <1>5, RequestFields DEF deleteUserEntry, SeatOps
  <2>2. SlotsOK(left)
    BY <1>1, <2>1, RemoveEntry
  <2>3. PICK c \in Capacities : TRUE
    BY CapacitiesAssumption
  <2>4. OneSlotRow(slots, left, r.slot)
    BY <1>1, <2>1, <2>3, OneSlotWritten
  <2>5. CASE slots' = left
    BY <1>3, <2>1, <2>5
  <2>6. CASE next # NoUser /\ slots' = promoteSlots(left, next, r.slot)
    <3> HIDE DEF left
    <3>1. next \in Users
      BY <2>1, <2>2, <2>6, FirstInQueue
    <3>2. OneSlotRow(left, promoteSlots(left, next, r.slot), r.slot)
      <4> HIDE DEF next
      <4> QED
        BY <2>1, <2>2, <2>3, <3>1, OneSlotWritten
    <3>3. Live(left[q])
      <4> HIDE DEF next
      <4> QED
        BY <2>1, <2>6, <3>2, OneSlotRowLiveness
    <3> QED
      BY <2>1, <2>4, <3>3, OneSlotRowLiveness
  <2> QED
    BY <1>5, <2>5, <2>6 DEF deleteUserEntry
<1>6. CASE patchSlot(r, a) \/ deleteSlot(r, a)
  <2>1. CASE patchSlot(r, a)
    BY <1>1, <2>1, RequestFields DEF patchSlot, changeSlotInfo, OnSlot, Live
  <2>2. CASE deleteSlot(r, a)
    BY <1>1, <2>2, RequestFields DEF deleteSlot, deleteSlotRow, OnSlot, EmptySlot, Live
  <2> QED
    BY <1>6, <2>1, <2>2
<1>7. CASE deleteUser(r, a)
  BY <1>7 DEF deleteUser
<1> QED
  BY <1>2, <1>4, <1>5, <1>6, <1>7 DEF Serve

-----------------------------------------------------------------------------
(* The notifier's own steps leave the tables and the start times alone.    *)
LEMMA TickStep ==
  ASSUME NInv, Tick
  PROVE  NInv'
<1>1. /\ now \in Int /\ MaxTime \in Nat /\ now' = now + 1
      /\ \A s \in Slots : start[s] \in Int
      /\ UNCHANGED << slots, users, start, awake, rows, notifications, env, faults >>
  BY Times DEF Tick, vars, pass
<1>2. now' \in 0..MaxTime /\ ticks' \in 0..2 /\ (~awake' => ticks' <= 1)
  BY <1>1 DEF NInv, PassTypeOK, Tick
<1>3. accounted' \subseteq InWindow(start, now)' /\ mailed' \subseteq Mails
  BY <1>1 DEF NInv, PassTypeOK, Tick
<1>4. PassTypeOK'
  BY <1>1, <1>2, <1>3 DEF NInv, PassTypeOK
<1>5. UnseenAreNew'
  <2> SUFFICES ASSUME NEW s \in Slots, Unseen(s)'
               PROVE  /\ awake' => ticks' = 1 /\ start'[s] - now' = WindowTo
                      /\ ~awake' => start'[s] - now' >= WindowTo - ticks'
    BY DEF UnseenAreNew
  <2>1. /\ start[s] - (now + 1) \in WindowFrom..WindowTo /\ Live(slots[s])
        /\ ticks = 0 /\ ticks' = 1 /\ s \notin accounted
    BY <1>1 DEF Unseen, InWindow, Tick
  <2>2. CASE s \in InWindow(start, now)
    BY <1>1, <2>1, <2>2, WindowAssumption DEF Unseen, NInv, UnseenAreNew, Tick
  <2>3. CASE s \notin InWindow(start, now)
    <3>1. start[s] - now = WindowTo + 1
      BY <1>1, <2>1, <2>3, WindowAssumption DEF InWindow
    <3> QED
      BY <1>1, <2>1, <3>1, WindowAssumption
  <2> QED
    BY <2>2, <2>3
<1> QED
  BY <1>1, <1>2, <1>4, <1>5 DEF NInv

LEMMA RequestStep ==
  ASSUME NInv, Request
  PROVE  NInv'
<1>1. PICK r \in Requests, a \in Answers :
        /\ Serve(r, a)
        /\ \/ /\ r.op \in Timed
              /\ Live(slots'[r.slot])
              /\ \E t \in Starts : reschedule(r.slot, t)
           \/ /\ r.op \in Timed => ~Live(slots'[r.slot])
              /\ UNCHANGED << start, accounted, mailed >>
  BY DEF Request
<1>2. Consistent(slots, users)'
  BY <1>1, StepConsistent DEF NInv
<1>3. UNCHANGED << now, awake, rows, notifications, env, ticks, faults >>
  BY DEF Request, pass
<1>4. CASE /\ r.op \in Timed
           /\ Live(slots'[r.slot])
           /\ \E t \in Starts : reschedule(r.slot, t)
  <2>1. r.slot \in Slots
    BY <1>4, RequestFields DEF Timed
  <2>2. PICK t \in Starts : reschedule(r.slot, t)
    BY <1>4
  <2>3. /\ start' \in [Slots -> Starts] /\ start'[r.slot] = t
        /\ \A s \in Slots : s # r.slot => start'[s] = start[s]
    BY <2>1, <2>2 DEF reschedule, NInv, PassTypeOK
  <2>4. \A s \in Slots : s # r.slot =>
          /\ s \in InWindow(start, now)' <=> s \in InWindow(start, now)
          /\ s \in accounted' <=> s \in accounted
    BY <1>3, <2>2, <2>3 DEF reschedule, InWindow
  <2>5. r.slot \in accounted' <=> r.slot \in InWindow(start, now)'
    BY <1>3, <2>1, <2>2 DEF reschedule, NInv, PassTypeOK
  <2>6. accounted' \subseteq InWindow(start, now)' /\ mailed' \subseteq Mails
    BY <2>2, <2>4, <2>5 DEF reschedule, NInv, PassTypeOK, InWindow
  <2>7. PassTypeOK'
    BY <1>3, <2>3, <2>6 DEF NInv, PassTypeOK
  <2>8. UnseenAreNew'
    <3> SUFFICES ASSUME NEW s \in Slots, Unseen(s)'
                 PROVE  /\ awake' => ticks' = 1 /\ start'[s] - now' = WindowTo
                        /\ ~awake' => start'[s] - now' >= WindowTo - ticks'
      BY DEF UnseenAreNew
    <3>1. s # r.slot
      BY <2>5 DEF Unseen
    <3>2. Live(slots[s])
      BY <1>1, <3>1, ServeLiveness DEF NInv, Unseen
    <3>3. Unseen(s)
      BY <2>4, <3>1, <3>2 DEF Unseen
    <3> QED
      BY <1>3, <2>3, <3>1, <3>3 DEF NInv, UnseenAreNew
  <2> QED
    BY <1>2, <1>3, <2>7, <2>8 DEF NInv
<1>5. CASE /\ r.op \in Timed => ~Live(slots'[r.slot])
           /\ UNCHANGED << start, accounted, mailed >>
  <2>1. UNCHANGED << start, accounted, mailed >>
    BY <1>5
  <2>2. PassTypeOK'
    BY <1>3, <2>1 DEF NInv, PassTypeOK, InWindow
  <2>3. ASSUME NEW s \in Slots, Unseen(s)' PROVE Unseen(s)
    <3>1. Live(slots[s])
      BY <1>1, <1>5, <2>3, ServeLiveness DEF NInv, Unseen, Timed
    <3> QED
      BY <1>3, <2>1, <2>3, <3>1 DEF Unseen, InWindow
  <2>4. UnseenAreNew'
    BY <1>3, <2>1, <2>3 DEF NInv, UnseenAreNew
  <2> QED
    BY <1>2, <1>3, <2>2, <2>4 DEF NInv
<1> QED
  BY <1>1, <1>4, <1>5

LEMMA MailsOfSlot ==
  ASSUME NInv, NEW s \in Slots
  PROVE  [i \in DOMAIN slots[s].enrolled |-> [user |-> slots[s].enrolled[i], slot |-> s]] \in Seq(Mails)
<1> DEFINE arr == slots[s].enrolled
           mail(i) == [user |-> arr[i], slot |-> s]
<1>1. arr \in Seq(Users)
  BY SlotFields DEF NInv, Consistent
<1> HIDE DEF arr
<1>2. Len(arr) \in Nat /\ DOMAIN arr = 1..Len(arr) /\ \A i \in 1..Len(arr) : arr[i] \in Users
  BY <1>1
<1>3. \A i \in 1..Len(arr) : mail(i) \in Mails
  BY <1>2 DEF Mails
<1> HIDE DEF mail
<1>4. [i \in 1..Len(arr) |-> mail(i)] \in [1..Len(arr) -> Mails]
  BY <1>3
<1>5. [i \in 1..Len(arr) |-> mail(i)] \in Seq(Mails)
  BY <1>2, <1>4, SeqDef
<1> QED
  BY <1>2, <1>5 DEF arr, mail

(* Reading, sending and going to sleep add nothing unseen.                 *)
LEMMA PassSteps ==
  ASSUME NInv, (\E s \in Slots : readEnrolled(s)) \/ send \/ sleep
  PROVE  NInv'
<1>1. /\ UNCHANGED << slots, users, now, start, accounted >>
      /\ (awake' = awake /\ ticks' = ticks) \/ (awake /\ ~awake' /\ ticks' = 0)
      /\ awake
  BY DEF readEnrolled, send, sleep, vars, time, history
<1>2. PassTypeOK'
  <2>1. ASSUME NEW s \in Slots, readEnrolled(s) PROVE PassTypeOK'
    <3>1. notifications' \in Seq(Mails)
      BY <2>1, MailsOfSlot DEF NInv, PassTypeOK, readEnrolled
    <3> QED
      BY <2>1, <3>1 DEF NInv, PassTypeOK, readEnrolled, vars, time, history, InWindow
  <2>2. CASE send
    <3>1. Head(notifications) \in Mails /\ Tail(notifications) \in Seq(Mails)
      BY <2>2 DEF NInv, PassTypeOK, send
    <3>2. env' \in Mails \cup {NoMail} /\ mailed' \subseteq Mails /\ faults' \in 0..MaxFaults
      BY <2>2, <3>1, TimesAssumption DEF NInv, PassTypeOK, send, delivered, setenv
    <3> QED
      BY <2>2, <3>1, <3>2 DEF NInv, PassTypeOK, send, delivered, vars, time, InWindow
  <2>3. CASE sleep
    <3>1. /\ UNCHANGED << now, start, rows, notifications, env, accounted, mailed, faults >>
          /\ rows = {} /\ notifications = << >>
      BY <2>3 DEF sleep, time, history
    <3>2. awake' \in BOOLEAN /\ ticks' \in 0..2
      <4>1. awake' \in BOOLEAN
        BY <2>3, Zenon DEF sleep
      <4>2. ticks' = 0
        BY <2>3 DEF sleep
      <4> QED
        BY <4>1, <4>2
    <3> QED
      BY <3>1, <3>2 DEF NInv, PassTypeOK, InWindow
  <2> QED
    BY <2>1, <2>2, <2>3
<1>3. UnseenAreNew'
  <2> SUFFICES ASSUME NEW s \in Slots, Unseen(s)'
               PROVE  /\ awake' => ticks' = 1 /\ start'[s] - now' = WindowTo
                      /\ ~awake' => start'[s] - now' >= WindowTo - ticks'
    BY DEF UnseenAreNew
  <2>1. Unseen(s)
    BY <1>1 DEF Unseen, InWindow
  <2>2. ticks = 1 /\ start[s] - now = WindowTo
    BY <1>1, <2>1 DEF NInv, UnseenAreNew
  <2> QED
    <3>1. start' = start /\ now' = now /\ start[s] \in Int /\ now \in Int /\ WindowTo \in Int
      BY <1>1, WindowAssumption, Times
    <3>2. CASE awake' = awake /\ ticks' = ticks
      BY <1>1, <2>2, <3>1, <3>2
    <3>3. CASE ~awake' /\ ticks' = 0
      BY <2>2, <3>1, <3>3
    <3> QED
      BY <1>1, <3>2, <3>3
<1>4. ~awake' => ticks' <= 1
  <2>1. CASE awake' = awake /\ ticks' = ticks
    BY <1>1, <2>1
  <2>2. CASE ticks' = 0
    BY <2>2
  <2> QED
    BY <1>1, <2>1, <2>2
<1> QED
  BY <1>1, <1>2, <1>3, <1>4 DEF NInv

(* After a SELECT or a fault nothing is unseen.                            *)
LEMMA SelectStep ==
  ASSUME NInv, selectSlots
  PROVE  NInv'
<1>1. /\ UNCHANGED << slots, users, now, start, notifications, env, mailed, faults >>
      /\ awake' /\ rows' = upcoming /\ ticks' = 0 /\ accounted' = accounted \cup upcoming
      /\ awake' \in BOOLEAN
  BY DEF selectSlots, vars, time
<1>2. upcoming \subseteq InWindow(start, now) /\ InWindow(start, now)' = InWindow(start, now)
  BY <1>1 DEF upcoming, InWindow
<1>3. PassTypeOK'
  BY <1>1, <1>2 DEF NInv, PassTypeOK, InWindow
<1>4. UnseenAreNew'
  BY <1>1, <1>2 DEF UnseenAreNew, Unseen, upcoming
<1> QED
  BY <1>1, <1>3, <1>4 DEF NInv

LEMMA DropStep ==
  ASSUME NInv, dropPass, UNCHANGED env \/ env' = NoMail
  PROVE  NInv'
<1>1. /\ UNCHANGED << slots, users, now, start, mailed >>
      /\ ~awake' /\ awake' \in BOOLEAN /\ rows' = {} /\ notifications' = << >> /\ ticks' = 0
      /\ accounted' = accounted \cup InWindow(start, now)
  BY DEF dropPass, vars, time
<1>2. faults' \in 0..MaxFaults
  BY TimesAssumption DEF dropPass, NInv, PassTypeOK
<1>3. InWindow(start, now)' = InWindow(start, now)
  BY <1>1 DEF InWindow
<1>4. << >> \in Seq(Mails)
  OBVIOUS
<1>5. PassTypeOK'
  BY <1>1, <1>2, <1>3, <1>4 DEF NInv, PassTypeOK
<1>6. UnseenAreNew'
  BY <1>1, <1>3 DEF UnseenAreNew, Unseen
<1> QED
  BY <1>1, <1>5, <1>6 DEF NInv

LEMMA NotifierNextNInv == NInv /\ [NotifierNext]_notifierVars => NInv'
<1> SUFFICES ASSUME NInv, [NotifierNext]_notifierVars PROVE NInv'
  OBVIOUS
<1>1. CASE UNCHANGED notifierVars
  BY <1>1 DEF notifierVars, vars, time, pass, history, NInv, PassTypeOK, UnseenAreNew, Unseen, InWindow
<1>2. CASE NotifierNext
  BY <1>2, TickStep, RequestStep, PassSteps, SelectStep, DropStep
     DEF NotifierNext, passFails, Restart
<1> QED
  BY <1>1, <1>2

LEMMA NotifierInvariance == NotifierSpec => []NInv
BY InitNInv, NotifierNextNInv, PTL DEF NotifierSpec

-----------------------------------------------------------------------------
(* How long a mail can have been owed.  One that the pass has gathered was *)
(* owed for two ticks when the pass began, one that it has not became owed *)
(* since it began, and after the pass no more than the sleep is added.     *)
Pending(m) == m.slot \in rows \/ m \in Members(notifications)

WaitIsShort(m) ==
  /\ ~awake => waited[m] <= 1 + ticks
  /\ awake /\ Pending(m) => waited[m] <= 2 + ticks
  /\ awake /\ ~Pending(m) => waited[m] <= ticks
  /\ awake /\ ticks = 2 => waited[m] = 0

WaitsOK ==
  /\ waited \in [Mails -> Nat]
  /\ \A m \in Mails : waited[m] < 4
  /\ \A m \in Mails : Owed(m) => WaitIsShort(m)

RInv == NInv /\ WaitsOK

LEMMA RInvTypes == RInv => NotifierTypeOK
BY ConsistentMeans DEF RInv, NInv, PassTypeOK, WaitsOK, NotifierTypeOK

LEMMA InitWaits == NotifierInit => WaitsOK
<1> SUFFICES ASSUME NotifierInit PROVE WaitsOK
  OBVIOUS
<1>1. waited = [m \in Mails |-> 0] /\ ~awake /\ ticks = 0
  BY DEF NotifierInit
<1> QED
  BY <1>1 DEF WaitsOK, WaitIsShort

LEMMA ConcatMembers ==
  ASSUME NEW S, NEW a \in Seq(S), NEW b \in Seq(S)
  PROVE  Members(a \o b) = Members(a) \cup Members(b)
<1>1. /\ Len(a) \in Nat /\ Len(b) \in Nat /\ DOMAIN a = 1..Len(a) /\ DOMAIN b = 1..Len(b)
      /\ DOMAIN (a \o b) = 1..(Len(a) + Len(b))
      /\ \A i \in 1..(Len(a) + Len(b)) :
           (a \o b)[i] = IF i <= Len(a) THEN a[i] ELSE b[i - Len(a)]
  OBVIOUS
<1>2. ASSUME NEW e \in Members(a \o b) PROVE e \in Members(a) \cup Members(b)
  <2>1. PICK i \in 1..(Len(a) + Len(b)) : (a \o b)[i] = e
    BY <1>1, <1>2 DEF Members
  <2>2. CASE i <= Len(a)
    BY <1>1, <2>1, <2>2 DEF Members
  <2>3. CASE ~(i <= Len(a))
    <3>1. i - Len(a) \in 1..Len(b) /\ b[i - Len(a)] = e
      BY <1>1, <2>1, <2>3
    <3> QED
      BY <1>1, <3>1 DEF Members
  <2> QED
    BY <2>2, <2>3
<1>3. ASSUME NEW e \in Members(a) PROVE e \in Members(a \o b)
  <2>1. PICK i \in 1..Len(a) : a[i] = e
    BY <1>1, <1>3 DEF Members
  <2>2. i \in 1..(Len(a) + Len(b)) /\ (a \o b)[i] = e
    BY <1>1, <2>1
  <2> QED
    BY <1>1, <2>2 DEF Members
<1>4. ASSUME NEW e \in Members(b) PROVE e \in Members(a \o b)
  <2>1. PICK i \in 1..Len(b) : b[i] = e
    BY <1>1, <1>4 DEF Members
  <2>2. i + Len(a) \in 1..(Len(a) + Len(b)) /\ (a \o b)[i + Len(a)] = e
    BY <1>1, <2>1
  <2> QED
    BY <1>1, <2>2 DEF Members
<1> QED
  BY <1>2, <1>3, <1>4

LEMMA TailMembers ==
  ASSUME NEW S, NEW a \in Seq(S), a # << >>, NEW e, e # Head(a)
  PROVE  e \in Members(Tail(a)) <=> e \in Members(a)
<1>1. /\ Len(a) \in Nat /\ Len(a) >= 1 /\ DOMAIN a = 1..Len(a) /\ Head(a) = a[1]
      /\ DOMAIN Tail(a) = 1..(Len(a) - 1)
      /\ \A i \in 1..(Len(a) - 1) : Tail(a)[i] = a[i + 1]
  OBVIOUS
<1>2. ASSUME e \in Members(Tail(a)) PROVE e \in Members(a)
  <2>1. PICK i \in 1..(Len(a) - 1) : Tail(a)[i] = e
    BY <1>1, <1>2 DEF Members
  <2>2. i + 1 \in 1..Len(a) /\ a[i + 1] = e
    BY <1>1, <2>1
  <2> QED
    BY <1>1, <2>2 DEF Members
<1>3. ASSUME e \in Members(a) PROVE e \in Members(Tail(a))
  <2>1. PICK i \in 1..Len(a) : a[i] = e
    BY <1>1, <1>3 DEF Members
  <2>2. i # 1
    BY <1>1, <2>1
  <2>3. i - 1 \in 1..(Len(a) - 1) /\ Tail(a)[i - 1] = e
    BY <1>1, <2>1, <2>2
  <2> QED
    BY <1>1, <2>3 DEF Members
<1> QED
  BY <1>2, <1>3

LEMMA TickWaits ==
  ASSUME RInv, Tick
  PROVE  WaitsOK'
<1>1. /\ waited' = [m \in Mails |-> IF Owed(m) /\ ticks = 0 THEN waited[m] + 1 ELSE 0]
      /\ waited \in [Mails -> Nat]
      /\ UNCHANGED << awake, rows, notifications >>
      /\ ticks' = IF ticks = 0 THEN 1 ELSE 2
  BY DEF Tick, pass, RInv, WaitsOK
<1>2. ASSUME NEW m \in Mails PROVE waited'[m] < 4 /\ WaitIsShort(m)'
  <2>1. CASE Owed(m) /\ ticks = 0
    <3>1. waited[m] \in Nat /\ waited'[m] = waited[m] + 1 /\ ticks' = 1 /\ WaitIsShort(m)
      BY <1>1, <2>1 DEF RInv, WaitsOK
    <3>2. Pending(m)' <=> Pending(m)
      BY <1>1 DEF Pending
    <3> QED
      BY <1>1, <2>1, <3>1, <3>2 DEF WaitIsShort
  <2>2. CASE ~(Owed(m) /\ ticks = 0)
    <3>1. waited'[m] = 0
      BY <1>1, <2>2
    <3>2. CASE ticks' = 1
      BY <3>1, <3>2 DEF WaitIsShort
    <3>3. CASE ticks' = 2
      BY <3>1, <3>3 DEF WaitIsShort
    <3> QED
      BY <1>1, <3>2, <3>3
  <2> QED
    BY <2>1, <2>2
<1>3. waited' \in [Mails -> Nat]
  BY <1>1
<1> QED
  BY <1>2, <1>3 DEF WaitsOK

LEMMA RequestWaits ==
  ASSUME RInv, Request
  PROVE  WaitsOK'
<1>1. UNCHANGED << now, awake, rows, notifications, ticks >>
  BY DEF Request, pass
<1>2. waited \in [Mails -> Nat] /\ ticks \in 0..2
  BY DEF RInv, NInv, PassTypeOK, WaitsOK
<1>3. PICK r \in Requests, a \in Answers :
        \/ \E t \in Starts : reschedule(r.slot, t)
        \/ mailed' = mailed /\ keepWaiting(Slots)
  BY DEF Request
<1>4. PICK S \in SUBSET Slots :
        /\ keepWaiting(S)
        /\ \A m \in Mails : m.slot \in S => (m \in mailed' <=> m \in mailed)
  <2>1. CASE \E t \in Starts : reschedule(r.slot, t)
    <3>1. /\ keepWaiting(Slots \ {r.slot})
          /\ mailed' = {m \in mailed : m.slot # r.slot}
      BY <2>1 DEF reschedule
    <3> QED
      BY <3>1
  <2>2. CASE mailed' = mailed /\ keepWaiting(Slots)
    BY <2>2
  <2> QED
    BY <1>3, <2>1, <2>2
<1>5. ASSUME NEW m \in Mails PROVE waited'[m] \in Nat /\ waited'[m] < 4 /\ (Owed(m)' => WaitIsShort(m)')
  <2>1. CASE m.slot \in S /\ Expects(m) /\ Expects(m)'
    <3>1. waited'[m] = waited[m] /\ (Owed(m)' => Owed(m))
      BY <1>4, <2>1 DEF keepWaiting, Owed
    <3>2. Pending(m)' <=> Pending(m)
      BY <1>1 DEF Pending
    <3> QED
      BY <1>1, <1>2, <3>1, <3>2 DEF RInv, WaitsOK, WaitIsShort
  <2>2. CASE ~(m.slot \in S /\ Expects(m) /\ Expects(m)')
    <3>1. waited'[m] = 0
      BY <1>4, <2>2 DEF keepWaiting
    <3> QED
      BY <1>1, <1>2, <3>1 DEF WaitIsShort
  <2> QED
    BY <2>1, <2>2
<1>6. waited' = [m \in Mails |-> waited'[m]]
  BY <1>4 DEF keepWaiting
<1> QED
  BY <1>5, <1>6 DEF WaitsOK

(* The SELECT finds the slot of every mail that is owed.                   *)
LEMMA SelectWaits ==
  ASSUME RInv, selectSlots
  PROVE  WaitsOK'
<1>1. /\ UNCHANGED << slots, users, now, start, mailed, waited >>
      /\ ~awake /\ awake' /\ rows' = upcoming /\ ticks' = 0
  BY DEF selectSlots, vars, time
<1>2. ticks \in 0..2 /\ ticks <= 1 /\ waited \in [Mails -> Nat]
  BY <1>1 DEF RInv, NInv, PassTypeOK, WaitsOK
<1>3. ASSUME NEW m \in Mails, Owed(m)' PROVE WaitIsShort(m)'
  <2>1. Owed(m)
    BY <1>1, <1>3 DEF Owed, Expects, InWindow
  <2>2. Pending(m)'
    BY <1>1, <2>1 DEF Pending, Owed, Expects, upcoming
  <2>3. waited[m] \in Nat /\ waited[m] <= 1 + ticks
    BY <1>1, <1>2, <2>1 DEF RInv, WaitsOK, WaitIsShort
  <2> QED
    BY <1>1, <1>2, <2>2, <2>3 DEF WaitIsShort
<1> QED
  BY <1>1, <1>3 DEF RInv, WaitsOK

(* Reading an array takes the mails of a slot over from rows.              *)
LEMMA ReadWaits ==
  ASSUME RInv, NEW s \in Slots, readEnrolled(s)
  PROVE  WaitsOK'
<1> DEFINE more == [i \in DOMAIN slots[s].enrolled |-> [user |-> slots[s].enrolled[i], slot |-> s]]
<1>1. /\ UNCHANGED << slots, users, now, start, awake, ticks, mailed, waited >>
      /\ rows' = rows \ {s} /\ notifications' = notifications \o more
  BY DEF readEnrolled, vars, time, history
<1>2. notifications \in Seq(Mails) /\ more \in Seq(Mails)
  BY MailsOfSlot DEF RInv, NInv, PassTypeOK
<1>3. ASSUME NEW m \in Mails, Owed(m) PROVE Pending(m)' <=> Pending(m)
  <2>1. Members(notifications') = Members(notifications) \cup Members(more)
    BY <1>1, <1>2, ConcatMembers
  <2>2. CASE m.slot = s
    <3>1. m.user \in Members(slots[s].enrolled) /\ m = [user |-> m.user, slot |-> s]
      BY <1>3, <2>2 DEF Owed, Expects, Mails
    <3>2. PICK i \in DOMAIN slots[s].enrolled : slots[s].enrolled[i] = m.user
      BY <3>1 DEF Members
    <3>3. i \in DOMAIN more /\ more[i] = m
      BY <3>1, <3>2
    <3>4. m \in Members(notifications')
      BY <2>1, <3>3 DEF Members
    <3>5. s \in rows
      BY DEF readEnrolled
    <3> QED
      BY <2>2, <3>4, <3>5 DEF Pending
  <2>3. CASE m.slot # s
    <3>1. m \notin Members(more)
      <4>1. \A i \in DOMAIN slots[s].enrolled : more[i].slot = s
        OBVIOUS
      <4> QED
        BY <2>3, <4>1 DEF Members
    <3> QED
      BY <1>1, <2>1, <2>3, <3>1 DEF Pending
  <2> QED
    BY <2>2, <2>3
<1>4. ASSUME NEW m \in Mails, Owed(m)' PROVE WaitIsShort(m)'
  <2>1. Owed(m)
    BY <1>1, <1>4 DEF Owed, Expects, InWindow
  <2> QED
    BY <1>1, <1>3, <2>1 DEF RInv, WaitsOK, WaitIsShort
<1> QED
  BY <1>1, <1>4 DEF RInv, WaitsOK

(* The head is waited for no longer, or anew; nobody else's mail is lost.  *)
LEMMA SendWaits ==
  ASSUME RInv, send
  PROVE  WaitsOK'
<1> DEFINE mail == Head(notifications)
<1>1. /\ UNCHANGED << slots, users, now, start, awake, rows, ticks >>
      /\ notifications # << >> /\ notifications' = Tail(notifications)
  BY DEF send, vars, time
<1>2. /\ notifications \in Seq(Mails) /\ mail \in Mails /\ ticks \in 0..2
      /\ waited \in [Mails -> Nat]
  BY <1>1 DEF RInv, NInv, PassTypeOK, WaitsOK
<1>3. \/ ~Live(users[mail.user]) /\ waited' = waited /\ mailed' = mailed
      \/ waited' = [waited EXCEPT ![mail] = 0] /\ mailed \subseteq mailed'
  BY DEF send, delivered, attempted
<1> HIDE DEF mail
<1>4. ASSUME NEW m \in Mails, m # mail PROVE Pending(m)' <=> Pending(m)
  <2>1. m \in Members(Tail(notifications)) <=> m \in Members(notifications)
    BY <1>1, <1>2, <1>4, TailMembers DEF mail
  <2> QED
    BY <1>1, <2>1 DEF Pending
<1>5. ASSUME NEW m \in Mails
      PROVE  waited'[m] \in Nat /\ waited'[m] < 4 /\ (Owed(m)' => WaitIsShort(m)')
  <2>1. Owed(m)' => Owed(m)
    BY <1>1, <1>3 DEF Owed, Expects, InWindow
  <2>2. CASE m = mail
    <3>1. Owed(m)' => waited'[m] = 0
      BY <1>1, <1>2, <1>3, <2>1, <2>2 DEF Owed, Expects
    <3>2. waited'[m] \in Nat /\ waited'[m] < 4
      BY <1>2, <1>3, <2>2 DEF RInv, WaitsOK
    <3> QED
      BY <1>1, <1>2, <3>1, <3>2 DEF WaitIsShort
  <2>3. CASE m # mail
    <3>1. waited'[m] = waited[m]
      BY <1>2, <1>3, <2>3
    <3> QED
      BY <1>1, <1>2, <1>4, <2>1, <2>3, <3>1 DEF RInv, WaitsOK, WaitIsShort
  <2> QED
    BY <2>2, <2>3
<1>6. waited' = [m \in Mails |-> waited'[m]]
  BY <1>2, <1>3
<1> QED
  BY <1>5, <1>6 DEF WaitsOK

(* A pass ends with nothing pending.                                       *)
LEMMA SleepWaits ==
  ASSUME RInv, sleep
  PROVE  WaitsOK'
<1>1. /\ UNCHANGED << slots, users, now, start, mailed, waited >>
      /\ awake /\ ~awake' /\ ticks' = 0 /\ rows = {} /\ notifications = << >>
  BY DEF sleep, vars, time, history
<1>2. ticks \in 0..2 /\ waited \in [Mails -> Nat]
  BY DEF RInv, NInv, PassTypeOK, WaitsOK
<1>3. ASSUME NEW m \in Mails, Owed(m)' PROVE WaitIsShort(m)'
  <2>1. Owed(m)
    BY <1>1, <1>3 DEF Owed, Expects, InWindow
  <2>2. ~Pending(m)
    BY <1>1 DEF Pending, Members
  <2>3. waited[m] \in Nat /\ waited[m] <= 1
    BY <1>1, <1>2, <2>1, <2>2 DEF RInv, WaitsOK, WaitIsShort
  <2> QED
    BY <1>1, <2>3 DEF WaitIsShort
<1> QED
  BY <1>1, <1>3 DEF RInv, WaitsOK

LEMMA DropWaits ==
  ASSUME dropPass
  PROVE  WaitsOK'
<1>1. waited' = [m \in Mails |-> 0] /\ ~awake' /\ ticks' = 0
  BY DEF dropPass
<1> QED
  BY <1>1 DEF WaitsOK, WaitIsShort

LEMMA NotifierRInv == NotifierSpec => []RInv
<1>1. NotifierInit => RInv
  BY InitNInv, InitWaits DEF RInv
<1>2. RInv /\ [NotifierNext]_notifierVars => RInv'
  <2> SUFFICES ASSUME RInv, [NotifierNext]_notifierVars PROVE RInv'
    OBVIOUS
  <2>1. NInv'
    BY NotifierNextNInv DEF RInv
  <2>2. CASE UNCHANGED notifierVars
    <3>1. /\ UNCHANGED << slots, users, now, start, awake, rows, notifications, ticks >>
          /\ UNCHANGED << mailed, waited >>
      BY <2>2 DEF notifierVars, vars, time, pass, history
    <3>2. \A m \in Mails : (Owed(m)' <=> Owed(m)) /\ (WaitIsShort(m)' <=> WaitIsShort(m))
      BY <3>1 DEF Owed, Expects, InWindow, WaitIsShort, Pending
    <3> QED
      BY <2>1, <3>1, <3>2 DEF RInv, WaitsOK
  <2>3. CASE NotifierNext
    <3>1. CASE Tick
      BY <2>1, <3>1, TickWaits DEF RInv
    <3>2. CASE Request
      BY <2>1, <3>2, RequestWaits DEF RInv
    <3>3. CASE selectSlots
      BY <2>1, <3>3, SelectWaits DEF RInv
    <3>4. ASSUME NEW s \in Slots, readEnrolled(s) PROVE RInv'
      BY <2>1, <3>4, ReadWaits DEF RInv
    <3>5. CASE send
      BY <2>1, <3>5, SendWaits DEF RInv
    <3>6. CASE sleep
      BY <2>1, <3>6, SleepWaits DEF RInv
    <3>7. CASE passFails \/ Restart
      BY <2>1, <3>7, DropWaits DEF RInv, passFails, Restart
    <3> QED
      BY <2>3, <3>1, <3>2, <3>3, <3>4, <3>5, <3>6, <3>7 DEF NotifierNext
  <2> QED
    BY <2>2, <2>3
<1> QED
  BY <1>1, <1>2, PTL DEF NotifierSpec

(* The tables and what a pass gathers from them have their types.          *)
THEOREM NotifierTypeCorrect == NotifierSpec => []NotifierTypeOK
BY RInvTypes, NotifierRInv, PTL

(* Nobody who takes part in a slot in the window is left without a mail    *)
(* for four ticks, unless his mail fails, a pass is lost or a pass is slow *)
(* (scheduler.cpp:76-120).                                                 *)
THEOREM RemindersArePrompt == NotifierSpec => []RemindersAreMade
<1>1. RInv => RemindersAreMade
  BY DEF RInv, WaitsOK, RemindersAreMade
<1> QED
  BY <1>1, NotifierRInv, PTL

(* A slot that leaves the window without its start being moved has been    *)
(* selected, whatever requests, failures and restarts came between, unless *)
(* a fault or a slow pass accounts for it.                                 *)
THEOREM NothingIsMissed == NotifierSpec => NothingMissed
<1> DEFINE Seen ==
      \A s \in InWindow(start, now) :
        start' = start /\ s \notin InWindow(start, now') /\ Live(slots[s]) => s \in accounted
<1>1. NInv /\ [NotifierNext]_notifierVars => [Seen]_notifierVars
  <2> SUFFICES ASSUME NInv, NotifierNext, NEW s \in Slots, s \in InWindow(start, now),
                      start' = start, s \notin InWindow(start, now'), Live(slots[s]),
                      s \notin accounted
               PROVE  FALSE
    BY DEF InWindow
  <2>1. Tick
    BY DEF NotifierNext, Request, selectSlots, readEnrolled, send, sleep, passFails, Restart,
           dropPass, time, InWindow
  <2>2. start[s] \in Int /\ now \in Int /\ now' = now + 1
    BY <2>1, Times DEF InWindow, Tick
  <2>3. start[s] - now = WindowFrom
    BY <2>2, WindowAssumption DEF InWindow
  <2>4. Unseen(s)
    BY DEF Unseen
  <2>5. awake => start[s] - now = WindowTo
    BY <2>4 DEF NInv, UnseenAreNew
  <2>6. ~awake => start[s] - now >= WindowTo
    BY <2>1, <2>4, WindowAssumption DEF NInv, UnseenAreNew, Tick
  <2> QED
    BY <2>2, <2>3, <2>5, <2>6, WindowAssumption
<1> QED
  BY <1>1, NotifierInvariance, PTL DEF NotifierSpec, NothingMissed
=============================================================================
