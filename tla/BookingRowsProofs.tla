-------------------------- MODULE BookingRowsProofs --------------------------
(***************************************************************************)
(* Facts about array_remove and array_append, and the types of the tables  *)
(* the statements of BookingRows return.                                   *)
(***************************************************************************)
EXTENDS BookingRows, FiniteSetTheorems, TLAPS

(* A non-empty set of natural numbers has a least element.  The library    *)
(* states induction with an operator parameter; this form needs none.      *)
LEMMA LeastNatural ==
  ASSUME NEW T, T \subseteq Nat, T # {}
  PROVE  \E n \in T : \A m \in T : n <= m
<1>1. PICK b \in T : TRUE
  OBVIOUS
<1> DEFINE S == 1..b
           W == {1..n : n \in {m \in T : m <= b}}
<1>2. IsFiniteSet(S)
  BY FS_Interval
<1>3. W \subseteq FiniteSubsetsOf(S)
  BY <1>2, FS_Subset DEF FiniteSubsetsOf
<1>4. W # {}
  BY <1>1
<1>5. PICK X \in W : \A Y \in W : << Y, X >> \notin StrictSubsetOrdering(S)
  <2> HIDE DEF W, S
  <2> QED
    BY <1>3, <1>4, FS_StrictSubsetOrderingWellFounded, WFMin
<1>6. PICK n \in T : n <= b /\ X = 1..n
  OBVIOUS
<1>7. ASSUME NEW m \in T PROVE n <= m
  <2> SUFFICES ASSUME m < n PROVE FALSE
    BY <1>6
  <2>1. 1..m \in W
    BY <1>6
  <2>2. 1..m \subseteq 1..n /\ n \in 1..n /\ n \notin 1..m /\ 1..n \subseteq 1..b
    BY <1>6
  <2>3. << 1..m, X >> \in StrictSubsetOrdering(S)
    BY <2>2, <1>6 DEF StrictSubsetOrdering
  <2> QED
    BY <2>1, <2>3, <1>5
<1> QED
  BY <1>7

-----------------------------------------------------------------------------
(* f is the function that RemoveAll builds, up to position k.              *)
KeptUpTo(f, arr, e, k) ==
  f = [n \in 0..k |->
         IF n = 0 THEN << >>
         ELSE IF arr[n] = e THEN f[n - 1] ELSE Append(f[n - 1], arr[n])]

LEMMA KeptExists ==
  ASSUME NEW arr, NEW e, NEW k \in Nat
  PROVE  \E f : KeptUpTo(f, arr, e, k)
<1> DEFINE B == {n \in Nat : ~ \E f : KeptUpTo(f, arr, e, n)}
<1> SUFFICES ASSUME B # {} PROVE FALSE
  OBVIOUS
<1>1. PICK n \in B : \A m \in B : n <= m
  BY LeastNatural
<1>2. n # 0
  <2>1. KeptUpTo([i \in 0..0 |-> << >>], arr, e, 0)
    BY DEF KeptUpTo
  <2> QED
    BY <2>1
<1>3. PICK f : KeptUpTo(f, arr, e, n - 1)
  BY <1>1, <1>2
<1> DEFINE last == IF arr[n] = e THEN f[n - 1] ELSE Append(f[n - 1], arr[n])
           g == [i \in 0..n |-> IF i = n THEN last ELSE f[i]]
<1>4. KeptUpTo(g, arr, e, n)
  <2>1. ASSUME NEW i \in 0..n
        PROVE  g[i] = IF i = 0 THEN << >>
                      ELSE IF arr[i] = e THEN g[i - 1] ELSE Append(g[i - 1], arr[i])
    <3>1. CASE i = n
      BY <3>1, <1>2
    <3>2. CASE i # n
      <4>1. i \in 0..(n - 1)
        BY <3>2
      <4>2. f[i] = IF i = 0 THEN << >>
                   ELSE IF arr[i] = e THEN f[i - 1] ELSE Append(f[i - 1], arr[i])
        BY <1>3, <4>1 DEF KeptUpTo
      <4>3. g[i] = f[i] /\ (i # 0 => g[i - 1] = f[i - 1])
        BY <4>1
      <4> QED
        BY <4>2, <4>3
    <3> QED
      BY <3>1, <3>2
  <2>2. g = [i \in 0..n |-> g[i]]
    OBVIOUS
  <2> HIDE DEF g
  <2>3. g = [i \in 0..n |-> IF i = 0 THEN << >>
                            ELSE IF arr[i] = e THEN g[i - 1] ELSE Append(g[i - 1], arr[i])]
    BY <2>1, <2>2
  <2> QED
    BY <2>3 DEF KeptUpTo
<1> QED
  BY <1>4

LEMMA RemoveAllDef ==
  ASSUME NEW S, NEW arr \in Seq(S), NEW e
  PROVE  \E f : KeptUpTo(f, arr, e, Len(arr)) /\ RemoveAll(arr, e) = f[Len(arr)]
<1> DEFINE f == CHOOSE h : KeptUpTo(h, arr, e, Len(arr))
<1>1. KeptUpTo(f, arr, e, Len(arr))
  BY KeptExists
<1>2. RemoveAll(arr, e) = f[Len(arr)]
  BY DEF RemoveAll, KeptUpTo
<1> QED
  BY <1>1, <1>2

(* array_append adds exactly one id.                                       *)
LEMMA AppendMembers ==
  ASSUME NEW S, NEW arr \in Seq(S), NEW e \in S
  PROVE  /\ Append(arr, e) \in Seq(S)
         /\ Members(Append(arr, e)) = Members(arr) \cup {e}
<1>1. /\ Append(arr, e) \in Seq(S)
      /\ DOMAIN Append(arr, e) = 1..(Len(arr) + 1)
      /\ DOMAIN arr = 1..Len(arr)
      /\ Len(arr) \in Nat
  OBVIOUS
<1>2. \A i \in 1..(Len(arr) + 1) :
        Append(arr, e)[i] = IF i = Len(arr) + 1 THEN e ELSE arr[i]
  OBVIOUS
<1>3. Members(Append(arr, e)) \subseteq Members(arr) \cup {e}
  BY <1>1, <1>2 DEF Members
<1>4. ASSUME NEW x \in Members(arr) PROVE x \in Members(Append(arr, e))
  <2>1. PICK i \in 1..Len(arr) : x = arr[i]
    BY <1>1 DEF Members
  <2>2. i \in 1..(Len(arr) + 1) /\ i # Len(arr) + 1
    BY <1>1
  <2> QED
    BY <1>1, <1>2, <2>1, <2>2 DEF Members
<1>5. e \in Members(Append(arr, e))
  <2>1. Len(arr) + 1 \in 1..(Len(arr) + 1)
    BY <1>1
  <2> QED
    BY <1>1, <1>2, <2>1 DEF Members
<1> QED
  BY <1>1, <1>3, <1>4, <1>5

(* array_remove keeps every other id and drops every copy of e.            *)
LEMMA RemoveAllMembers ==
  ASSUME NEW S, NEW arr \in Seq(S), NEW e
  PROVE  /\ RemoveAll(arr, e) \in Seq(S)
         /\ Members(RemoveAll(arr, e)) = Members(arr) \ {e}
<1>1. PICK f : KeptUpTo(f, arr, e, Len(arr)) /\ RemoveAll(arr, e) = f[Len(arr)]
  BY RemoveAllDef
<1> DEFINE Upto(n) == {arr[i] : i \in 1..n}
           B == {n \in 0..Len(arr) : ~(f[n] \in Seq(S) /\ Members(f[n]) = Upto(n) \ {e})}
<1>2. /\ Len(arr) \in Nat
      /\ Upto(Len(arr)) = Members(arr)
      /\ \A i \in 1..Len(arr) : arr[i] \in S
  BY DEF Members
<1>3. B = {}
  <2> SUFFICES ASSUME B # {} PROVE FALSE
    OBVIOUS
  <2>1. B \subseteq Nat
    BY <1>2
  <2>2. PICK n \in B : \A m \in B : n <= m
    <3> HIDE DEF B
    <3> QED
      BY LeastNatural, <2>1
  <2>3. n # 0
    <3>1. f[0] = << >>
      BY <1>1, <1>2 DEF KeptUpTo
    <3>2. << >> \in Seq(S) /\ Members(<< >>) = Upto(0) \ {e}
      BY DEF Members
    <3> QED
      BY <3>1, <3>2
  <2>4. n \in 1..Len(arr) /\ n - 1 \in 0..Len(arr) /\ n - 1 \notin B
    <3>1. n \in 0..Len(arr)
      OBVIOUS
    <3>2. n \in 1..Len(arr) /\ n - 1 \in 0..Len(arr) /\ ~(n <= n - 1)
      BY <1>2, <2>3, <3>1
    <3> HIDE DEF B
    <3> QED
      BY <3>2, <2>2
  <2>5. f[n - 1] \in Seq(S) /\ Members(f[n - 1]) = Upto(n - 1) \ {e}
    BY <2>4
  <2>6. f[n] = IF arr[n] = e THEN f[n - 1] ELSE Append(f[n - 1], arr[n])
    BY <1>1, <1>2, <2>3, <2>4 DEF KeptUpTo
  <2>7. Upto(n) = Upto(n - 1) \cup {arr[n]}
    <3>1. \A i \in Nat : i \in 1..n <=> (i \in 1..(n - 1) \/ i = n)
      BY <1>2, <2>4
    <3> QED
      BY <3>1, <1>2, <2>4
  <2>8. arr[n] \in S
    BY <1>2, <2>4
  <2>9. CASE arr[n] = e
    BY <2>5, <2>6, <2>7, <2>9, <2>4
  <2>10. CASE arr[n] # e
    <3>1. /\ f[n] \in Seq(S)
          /\ Members(f[n]) = (Upto(n - 1) \ {e}) \cup {arr[n]}
      BY <2>5, <2>6, <2>8, <2>10, AppendMembers
    <3> QED
      BY <3>1, <2>7, <2>10, <2>4
  <2> QED
    BY <2>9, <2>10
<1>4. Len(arr) \in 0..Len(arr)
  BY <1>2
<1> QED
  BY <1>1, <1>2, <1>3, <1>4

-----------------------------------------------------------------------------
(* Well-formed tables, and tables whose two copies of a booking agree.     *)
SlotsOK(sl) ==
  /\ sl \in [Slots -> SlotRow]
  /\ \A s \in Slots : ~Live(sl[s]) => sl[s].enrolled = << >> /\ sl[s].queue = << >>

UsersOK(us) ==
  /\ us \in [Users -> UserRow]
  /\ \A u \in Users : ~Live(us[u]) => us[u].enrolled = {} /\ us[u].queued = {}

Agree(sl, us) ==
  \A u \in Users : Live(us[u]) =>
    \A s \in Slots :
      /\ s \in us[u].enrolled <=> u \in Members(sl[s].enrolled)
      /\ s \in us[u].queued <=> u \in Members(sl[s].queue)

Consistent(sl, us) == SlotsOK(sl) /\ UsersOK(us) /\ Agree(sl, us)

(* What a statement that rewrites the arrays of one live slot changes.     *)
LEMMA OnSlotRow ==
  ASSUME NEW sl, SlotsOK(sl), NEW s \in Slots, NEW row \in SlotRow,
         row.st = sl[s].st
  PROVE  /\ SlotsOK(OnSlot(sl, s, row))
         /\ \A t \in Slots :
              OnSlot(sl, s, row)[t] = IF t = s /\ Live(sl[s]) THEN row ELSE sl[t]
BY DEF SlotsOK, OnSlot, Live

LEMMA SlotFields ==
  ASSUME NEW sl, SlotsOK(sl), NEW s \in Slots
  PROVE  /\ sl[s] \in SlotRow
         /\ sl[s].st \in {"unborn", "live", "gone"}
         /\ sl[s].cap \in Capacities
         /\ sl[s].enrolled \in Seq(Users)
         /\ sl[s].queue \in Seq(Users)
         /\ \A c \in Capacities : [sl[s] EXCEPT !.cap = c] \in SlotRow
         /\ \A q \in Seq(Users) : /\ [sl[s] EXCEPT !.enrolled = q] \in SlotRow
                                  /\ [sl[s] EXCEPT !.queue = q] \in SlotRow
<1>1. sl[s] \in SlotRow
  BY DEF SlotsOK
<1> QED
  BY <1>1 DEF SlotRow

LEMMA AddEntry ==
  ASSUME NEW sl, SlotsOK(sl), NEW s \in Slots, NEW u \in Users
  PROVE  /\ SlotsOK(addEntry(sl, u, s))
         /\ \A t \in Slots : LET new == addEntry(sl, u, s)[t] IN
              /\ new.st = sl[t].st /\ new.cap = sl[t].cap /\ new.queue = sl[t].queue
              /\ Members(new.enrolled) = IF t = s /\ Live(sl[s])
                                         THEN Members(sl[t].enrolled) \cup {u}
                                         ELSE Members(sl[t].enrolled)
<1> DEFINE row == [sl[s] EXCEPT !.enrolled = Append(@, u)]
<1>1. /\ Append(sl[s].enrolled, u) \in Seq(Users)
      /\ Members(Append(sl[s].enrolled, u)) = Members(sl[s].enrolled) \cup {u}
  BY SlotFields, AppendMembers
<1>2. row \in SlotRow /\ row.st = sl[s].st /\ row.cap = sl[s].cap
      /\ row.queue = sl[s].queue /\ row.enrolled = Append(sl[s].enrolled, u)
  BY <1>1, SlotFields DEF SlotRow
<1>3. addEntry(sl, u, s) = OnSlot(sl, s, row)
  BY DEF addEntry
<1> HIDE DEF row
<1>4. /\ SlotsOK(addEntry(sl, u, s))
      /\ \A t \in Slots :
           addEntry(sl, u, s)[t] = IF t = s /\ Live(sl[s]) THEN row ELSE sl[t]
  BY <1>2, <1>3, OnSlotRow
<1> QED
  BY <1>1, <1>2, <1>4

LEMMA RemoveEntry ==
  ASSUME NEW sl, SlotsOK(sl), NEW s \in Slots, NEW u \in Users
  PROVE  /\ SlotsOK(removeEntry(sl, u, s))
         /\ \A t \in Slots : LET new == removeEntry(sl, u, s)[t] IN
              /\ new.st = sl[t].st /\ new.cap = sl[t].cap /\ new.queue = sl[t].queue
              /\ Members(new.enrolled) = IF t = s /\ Live(sl[s])
                                         THEN Members(sl[t].enrolled) \ {u}
                                         ELSE Members(sl[t].enrolled)
<1> DEFINE row == [sl[s] EXCEPT !.enrolled = RemoveAll(@, u)]
<1>1. /\ RemoveAll(sl[s].enrolled, u) \in Seq(Users)
      /\ Members(RemoveAll(sl[s].enrolled, u)) = Members(sl[s].enrolled) \ {u}
  BY SlotFields, RemoveAllMembers
<1>2. row \in SlotRow /\ row.st = sl[s].st /\ row.cap = sl[s].cap
      /\ row.queue = sl[s].queue /\ row.enrolled = RemoveAll(sl[s].enrolled, u)
  BY <1>1, SlotFields DEF SlotRow
<1>3. removeEntry(sl, u, s) = OnSlot(sl, s, row)
  BY DEF removeEntry
<1> HIDE DEF row
<1>4. /\ SlotsOK(removeEntry(sl, u, s))
      /\ \A t \in Slots :
           removeEntry(sl, u, s)[t] = IF t = s /\ Live(sl[s]) THEN row ELSE sl[t]
  BY <1>2, <1>3, OnSlotRow
<1> QED
  BY <1>1, <1>2, <1>4

LEMMA AddToQueue ==
  ASSUME NEW sl, SlotsOK(sl), NEW s \in Slots, NEW u \in Users
  PROVE  /\ SlotsOK(addToQueue(sl, u, s))
         /\ \A t \in Slots : LET new == addToQueue(sl, u, s)[t] IN
              /\ new.st = sl[t].st /\ new.cap = sl[t].cap /\ new.enrolled = sl[t].enrolled
              /\ Members(new.queue) = IF t = s /\ Live(sl[s])
                                      THEN Members(sl[t].queue) \cup {u}
                                      ELSE Members(sl[t].queue)
<1> DEFINE row == [sl[s] EXCEPT !.queue = Append(@, u)]
<1>1. /\ Append(sl[s].queue, u) \in Seq(Users)
      /\ Members(Append(sl[s].queue, u)) = Members(sl[s].queue) \cup {u}
  BY SlotFields, AppendMembers
<1>2. row \in SlotRow /\ row.st = sl[s].st /\ row.cap = sl[s].cap
      /\ row.enrolled = sl[s].enrolled /\ row.queue = Append(sl[s].queue, u)
  BY <1>1, SlotFields DEF SlotRow
<1>3. addToQueue(sl, u, s) = OnSlot(sl, s, row)
  BY DEF addToQueue
<1> HIDE DEF row
<1>4. /\ SlotsOK(addToQueue(sl, u, s))
      /\ \A t \in Slots :
           addToQueue(sl, u, s)[t] = IF t = s /\ Live(sl[s]) THEN row ELSE sl[t]
  BY <1>2, <1>3, OnSlotRow
<1> QED
  BY <1>1, <1>2, <1>4

LEMMA RemoveFromQueue ==
  ASSUME NEW sl, SlotsOK(sl), NEW s \in Slots, NEW u \in Users
  PROVE  /\ SlotsOK(removeFromQueue(sl, u, s))
         /\ \A t \in Slots : LET new == removeFromQueue(sl, u, s)[t] IN
              /\ new.st = sl[t].st /\ new.cap = sl[t].cap /\ new.enrolled = sl[t].enrolled
              /\ Members(new.queue) = IF t = s /\ Live(sl[s])
                                      THEN Members(sl[t].queue) \ {u}
                                      ELSE Members(sl[t].queue)
<1> DEFINE row == [sl[s] EXCEPT !.queue = RemoveAll(@, u)]
<1>1. /\ RemoveAll(sl[s].queue, u) \in Seq(Users)
      /\ Members(RemoveAll(sl[s].queue, u)) = Members(sl[s].queue) \ {u}
  BY SlotFields, RemoveAllMembers
<1>2. row \in SlotRow /\ row.st = sl[s].st /\ row.cap = sl[s].cap
      /\ row.enrolled = sl[s].enrolled /\ row.queue = RemoveAll(sl[s].queue, u)
  BY <1>1, SlotFields DEF SlotRow
<1>3. removeFromQueue(sl, u, s) = OnSlot(sl, s, row)
  BY DEF removeFromQueue
<1> HIDE DEF row
<1>4. /\ SlotsOK(removeFromQueue(sl, u, s))
      /\ \A t \in Slots :
           removeFromQueue(sl, u, s)[t] = IF t = s /\ Live(sl[s]) THEN row ELSE sl[t]
  BY <1>2, <1>3, OnSlotRow
<1> QED
  BY <1>1, <1>2, <1>4

(* The statements on a users row.                                          *)
LEMMA UserStatements ==
  ASSUME NEW us, UsersOK(us), NEW u \in Users, NEW s \in Slots
  PROVE  /\ UsersOK(addEnrollment(us, u, s)) /\ UsersOK(removeEnrollment(us, u, s))
         /\ UsersOK(addQueuedSlot(us, u, s)) /\ UsersOK(removeQueuedSlot(us, u, s))
         /\ UsersOK(deleteUserRow(us, u))
BY DEF UsersOK, UserRow, Live, OnUser, addEnrollment, removeEnrollment,
       addQueuedSlot, removeQueuedSlot, deleteUserRow

(* A users row after a statement that changes one of its lists.            *)
ListsAfter(new, old, isTarget, enrolled, queued) ==
  /\ new.st = old.st
  /\ new.enrolled = IF isTarget /\ Live(old) THEN enrolled ELSE old.enrolled
  /\ new.queued = IF isTarget /\ Live(old) THEN queued ELSE old.queued

LEMMA UserLists ==
  ASSUME NEW us, UsersOK(us), NEW u \in Users, NEW s \in Slots, NEW v \in Users
  PROVE  /\ ListsAfter(addEnrollment(us, u, s)[v], us[v], v = u,
                       us[v].enrolled \cup {s}, us[v].queued)
         /\ ListsAfter(removeEnrollment(us, u, s)[v], us[v], v = u,
                       us[v].enrolled \ {s}, us[v].queued)
         /\ ListsAfter(addQueuedSlot(us, u, s)[v], us[v], v = u,
                       us[v].enrolled, us[v].queued \cup {s})
         /\ ListsAfter(removeQueuedSlot(us, u, s)[v], us[v], v = u,
                       us[v].enrolled, us[v].queued \ {s})
BY DEF ListsAfter, UsersOK, UserRow, Live, OnUser, addEnrollment, removeEnrollment,
       addQueuedSlot, removeQueuedSlot

-----------------------------------------------------------------------------
(* The handlers write the two copies in pairs, and each pair keeps them in *)
(* agreement.  The pairs that add need the slot to be there.               *)

(* addEntry with addEnrollment.                                            *)
LEMMA EnrolAgrees ==
  ASSUME NEW sl, NEW us, Consistent(sl, us), NEW u \in Users, NEW s \in Slots, Live(sl[s])
  PROVE  Consistent(addEntry(sl, u, s), addEnrollment(us, u, s))
<1>1. SlotsOK(sl) /\ UsersOK(us) /\ Agree(sl, us)
  BY DEF Consistent
<1>2. SlotsOK(addEntry(sl, u, s)) /\ UsersOK(addEnrollment(us, u, s))
  BY <1>1, AddEntry, UserStatements
<1>3. ASSUME NEW v \in Users, Live(addEnrollment(us, u, s)[v]), NEW t \in Slots
      PROVE  /\ t \in addEnrollment(us, u, s)[v].enrolled <=> v \in Members(addEntry(sl, u, s)[t].enrolled)
             /\ t \in addEnrollment(us, u, s)[v].queued <=> v \in Members(addEntry(sl, u, s)[t].queue)
  <2>1. ListsAfter(addEnrollment(us, u, s)[v], us[v], v = u, us[v].enrolled \cup {s}, us[v].queued)
    BY <1>1, UserLists
  <2>2. /\ Live(us[v])
        /\ addEnrollment(us, u, s)[v].queued = us[v].queued
        /\ addEnrollment(us, u, s)[v].enrolled = IF v = u THEN us[v].enrolled \cup {s} ELSE us[v].enrolled
    BY <1>3, <2>1 DEF ListsAfter, Live
  <2>3. ~Live(sl[t]) => sl[t].enrolled = << >> /\ sl[t].queue = << >>
    BY <1>1 DEF SlotsOK
  <2>4. Members(<< >>) = {}
    BY DEF Members
  <2>5. /\ t \in us[v].enrolled <=> v \in Members(sl[t].enrolled)
        /\ t \in us[v].queued <=> v \in Members(sl[t].queue)
    BY <1>1, <2>2 DEF Agree
  <2>6. /\ addEntry(sl, u, s)[t].queue = sl[t].queue
        /\ Members(addEntry(sl, u, s)[t].enrolled) = IF t = s /\ Live(sl[s])
                                           THEN Members(sl[t].enrolled) \cup {u}
                                           ELSE Members(sl[t].enrolled)
    BY <1>1, AddEntry
  <2> QED
    BY <2>2, <2>3, <2>4, <2>5, <2>6
<1> QED
  BY <1>2, <1>3 DEF Consistent, Agree

(* removeEntry with removeEnrollment.                                      *)
LEMMA UnenrolAgrees ==
  ASSUME NEW sl, NEW us, Consistent(sl, us), NEW u \in Users, NEW s \in Slots
  PROVE  Consistent(removeEntry(sl, u, s), removeEnrollment(us, u, s))
<1>1. SlotsOK(sl) /\ UsersOK(us) /\ Agree(sl, us)
  BY DEF Consistent
<1>2. SlotsOK(removeEntry(sl, u, s)) /\ UsersOK(removeEnrollment(us, u, s))
  BY <1>1, RemoveEntry, UserStatements
<1>3. ASSUME NEW v \in Users, Live(removeEnrollment(us, u, s)[v]), NEW t \in Slots
      PROVE  /\ t \in removeEnrollment(us, u, s)[v].enrolled <=> v \in Members(removeEntry(sl, u, s)[t].enrolled)
             /\ t \in removeEnrollment(us, u, s)[v].queued <=> v \in Members(removeEntry(sl, u, s)[t].queue)
  <2>1. ListsAfter(removeEnrollment(us, u, s)[v], us[v], v = u, us[v].enrolled \ {s}, us[v].queued)
    BY <1>1, UserLists
  <2>2. /\ Live(us[v])
        /\ removeEnrollment(us, u, s)[v].queued = us[v].queued
        /\ removeEnrollment(us, u, s)[v].enrolled = IF v = u THEN us[v].enrolled \ {s} ELSE us[v].enrolled
    BY <1>3, <2>1 DEF ListsAfter, Live
  <2>3. ~Live(sl[t]) => sl[t].enrolled = << >> /\ sl[t].queue = << >>
    BY <1>1 DEF SlotsOK
  <2>4. Members(<< >>) = {}
    BY DEF Members
  <2>5. /\ t \in us[v].enrolled <=> v \in Members(sl[t].enrolled)
        /\ t \in us[v].queued <=> v \in Members(sl[t].queue)
    BY <1>1, <2>2 DEF Agree
  <2>6. /\ removeEntry(sl, u, s)[t].queue = sl[t].queue
        /\ Members(removeEntry(sl, u, s)[t].enrolled) = IF t = s /\ Live(sl[s])
                                           THEN Members(sl[t].enrolled) \ {u}
                                           ELSE Members(sl[t].enrolled)
    BY <1>1, RemoveEntry
  <2> QED
    BY <2>2, <2>3, <2>4, <2>5, <2>6
<1> QED
  BY <1>2, <1>3 DEF Consistent, Agree

(* addToQueue with addQueuedSlot.                                          *)
LEMMA QueueAgrees ==
  ASSUME NEW sl, NEW us, Consistent(sl, us), NEW u \in Users, NEW s \in Slots, Live(sl[s])
  PROVE  Consistent(addToQueue(sl, u, s), addQueuedSlot(us, u, s))
<1>1. SlotsOK(sl) /\ UsersOK(us) /\ Agree(sl, us)
  BY DEF Consistent
<1>2. SlotsOK(addToQueue(sl, u, s)) /\ UsersOK(addQueuedSlot(us, u, s))
  BY <1>1, AddToQueue, UserStatements
<1>3. ASSUME NEW v \in Users, Live(addQueuedSlot(us, u, s)[v]), NEW t \in Slots
      PROVE  /\ t \in addQueuedSlot(us, u, s)[v].enrolled <=> v \in Members(addToQueue(sl, u, s)[t].enrolled)
             /\ t \in addQueuedSlot(us, u, s)[v].queued <=> v \in Members(addToQueue(sl, u, s)[t].queue)
  <2>1. ListsAfter(addQueuedSlot(us, u, s)[v], us[v], v = u, us[v].enrolled, us[v].queued \cup {s})
    BY <1>1, UserLists
  <2>2. /\ Live(us[v])
        /\ addQueuedSlot(us, u, s)[v].enrolled = us[v].enrolled
        /\ addQueuedSlot(us, u, s)[v].queued = IF v = u THEN us[v].queued \cup {s} ELSE us[v].queued
    BY <1>3, <2>1 DEF ListsAfter, Live
  <2>3. ~Live(sl[t]) => sl[t].enrolled = << >> /\ sl[t].queue = << >>
    BY <1>1 DEF SlotsOK
  <2>4. Members(<< >>) = {}
    BY DEF Members
  <2>5. /\ t \in us[v].enrolled <=> v \in Members(sl[t].enrolled)
        /\ t \in us[v].queued <=> v \in Members(sl[t].queue)
    BY <1>1, <2>2 DEF Agree
  <2>6. /\ addToQueue(sl, u, s)[t].enrolled = sl[t].enrolled
        /\ Members(addToQueue(sl, u, s)[t].queue) = IF t = s /\ Live(sl[s])
                                           THEN Members(sl[t].queue) \cup {u}
                                           ELSE Members(sl[t].queue)
    BY <1>1, AddToQueue
  <2> QED
    BY <2>2, <2>3, <2>4, <2>5, <2>6
<1> QED
  BY <1>2, <1>3 DEF Consistent, Agree

(* removeFromQueue with removeQueuedSlot.                                  *)
LEMMA UnqueueAgrees ==
  ASSUME NEW sl, NEW us, Consistent(sl, us), NEW u \in Users, NEW s \in Slots
  PROVE  Consistent(removeFromQueue(sl, u, s), removeQueuedSlot(us, u, s))
<1>1. SlotsOK(sl) /\ UsersOK(us) /\ Agree(sl, us)
  BY DEF Consistent
<1>2. SlotsOK(removeFromQueue(sl, u, s)) /\ UsersOK(removeQueuedSlot(us, u, s))
  BY <1>1, RemoveFromQueue, UserStatements
<1>3. ASSUME NEW v \in Users, Live(removeQueuedSlot(us, u, s)[v]), NEW t \in Slots
      PROVE  /\ t \in removeQueuedSlot(us, u, s)[v].enrolled <=> v \in Members(removeFromQueue(sl, u, s)[t].enrolled)
             /\ t \in removeQueuedSlot(us, u, s)[v].queued <=> v \in Members(removeFromQueue(sl, u, s)[t].queue)
  <2>1. ListsAfter(removeQueuedSlot(us, u, s)[v], us[v], v = u, us[v].enrolled, us[v].queued \ {s})
    BY <1>1, UserLists
  <2>2. /\ Live(us[v])
        /\ removeQueuedSlot(us, u, s)[v].enrolled = us[v].enrolled
        /\ removeQueuedSlot(us, u, s)[v].queued = IF v = u THEN us[v].queued \ {s} ELSE us[v].queued
    BY <1>3, <2>1 DEF ListsAfter, Live
  <2>3. ~Live(sl[t]) => sl[t].enrolled = << >> /\ sl[t].queue = << >>
    BY <1>1 DEF SlotsOK
  <2>4. Members(<< >>) = {}
    BY DEF Members
  <2>5. /\ t \in us[v].enrolled <=> v \in Members(sl[t].enrolled)
        /\ t \in us[v].queued <=> v \in Members(sl[t].queue)
    BY <1>1, <2>2 DEF Agree
  <2>6. /\ removeFromQueue(sl, u, s)[t].enrolled = sl[t].enrolled
        /\ Members(removeFromQueue(sl, u, s)[t].queue) = IF t = s /\ Live(sl[s])
                                           THEN Members(sl[t].queue) \ {u}
                                           ELSE Members(sl[t].queue)
    BY <1>1, RemoveFromQueue
  <2> QED
    BY <2>2, <2>3, <2>4, <2>5, <2>6
<1> QED
  BY <1>2, <1>3 DEF Consistent, Agree

LEMMA FirstInQueue ==
  ASSUME NEW sl, SlotsOK(sl), NEW s \in Slots, getFirstInQueue(sl, s) # NoUser
  PROVE  getFirstInQueue(sl, s) \in Users /\ Live(sl[s])
<1>1. Live(sl[s]) /\ sl[s].queue # << >> /\ getFirstInQueue(sl, s) = Head(sl[s].queue)
  BY DEF getFirstInQueue
<1>2. sl[s].queue \in Seq(Users)
  BY SlotFields
<1>3. Head(sl[s].queue) \in Users
  BY <1>1, <1>2
<1> QED
  BY <1>1, <1>3

(* The four statements that promote the head of the queue.                 *)
LEMMA PromoteAgrees ==
  ASSUME NEW sl, NEW us, Consistent(sl, us), NEW u \in Users, NEW s \in Slots, Live(sl[s])
  PROVE  Consistent(promoteSlots(sl, u, s), promoteUsers(us, u, s))
<1>1. Consistent(removeFromQueue(sl, u, s), removeQueuedSlot(us, u, s))
  BY UnqueueAgrees
<1>2. Live(removeFromQueue(sl, u, s)[s])
  BY RemoveFromQueue DEF Consistent, Live
<1> QED
  BY <1>1, <1>2, EnrolAgrees DEF promoteSlots, promoteUsers

-----------------------------------------------------------------------------
(* The requests of the administrators.                                     *)
LEMMA InsertSlot ==
  ASSUME NEW sl, SlotsOK(sl), NEW s \in Slots, NEW c \in Capacities
  PROVE  /\ SlotsOK(insertSlot(sl, s, c))
         /\ \A t \in Slots :
              insertSlot(sl, s, c)[t] = IF t = s THEN EmptySlot("live", c) ELSE sl[t]
<1>1. EmptySlot("live", c) \in SlotRow /\ EmptySlot("live", c).st = "live"
  BY DEF EmptySlot, SlotRow
<1> QED
  BY <1>1 DEF SlotsOK, insertSlot, Live

LEMMA ChangeSlotInfo ==
  ASSUME NEW sl, SlotsOK(sl), NEW s \in Slots, NEW c \in Capacities
  PROVE  /\ SlotsOK(changeSlotInfo(sl, s, c))
         /\ \A t \in Slots : LET new == changeSlotInfo(sl, s, c)[t] IN
              new.st = sl[t].st /\ new.enrolled = sl[t].enrolled /\ new.queue = sl[t].queue
<1> DEFINE row == [sl[s] EXCEPT !.cap = c]
<1>1. row \in SlotRow /\ row.st = sl[s].st
      /\ row.enrolled = sl[s].enrolled /\ row.queue = sl[s].queue
  BY SlotFields DEF SlotRow
<1>2. changeSlotInfo(sl, s, c) = OnSlot(sl, s, row)
  BY DEF changeSlotInfo
<1> HIDE DEF row
<1>3. /\ SlotsOK(changeSlotInfo(sl, s, c))
      /\ \A t \in Slots :
           changeSlotInfo(sl, s, c)[t] = IF t = s /\ Live(sl[s]) THEN row ELSE sl[t]
  BY <1>1, <1>2, OnSlotRow
<1> QED
  BY <1>1, <1>3

LEMMA DeleteUserRow ==
  ASSUME NEW us, UsersOK(us), NEW u \in Users
  PROVE  /\ UsersOK(deleteUserRow(us, u))
         /\ \A v \in Users : Live(deleteUserRow(us, u)[v]) => deleteUserRow(us, u)[v] = us[v]
BY DEF UsersOK, UserRow, OnUser, deleteUserRow, Live

LEMMA CreateAgrees ==
  ASSUME NEW sl, NEW us, Consistent(sl, us), NEW s \in Slots, sl[s].st = "unborn",
         NEW c \in Capacities
  PROVE  Consistent(insertSlot(sl, s, c), us)
<1>1. SlotsOK(sl) /\ UsersOK(us) /\ Agree(sl, us)
  BY DEF Consistent
<1>2. sl[s].enrolled = << >> /\ sl[s].queue = << >>
  BY <1>1 DEF SlotsOK, Live
<1>3. \A t \in Slots : /\ insertSlot(sl, s, c)[t].enrolled = sl[t].enrolled
                       /\ insertSlot(sl, s, c)[t].queue = sl[t].queue
  <2>1. EmptySlot("live", c).enrolled = << >> /\ EmptySlot("live", c).queue = << >>
    BY DEF EmptySlot
  <2>2. ASSUME NEW t \in Slots
        PROVE  insertSlot(sl, s, c)[t] = IF t = s THEN EmptySlot("live", c) ELSE sl[t]
    BY <1>1, InsertSlot
  <2> QED
    BY <1>2, <2>1, <2>2
<1> QED
  BY <1>1, <1>3, InsertSlot DEF Consistent, Agree

LEMMA PatchAgrees ==
  ASSUME NEW sl, NEW us, Consistent(sl, us), NEW s \in Slots, NEW c \in Capacities
  PROVE  Consistent(changeSlotInfo(sl, s, c), us)
<1>1. SlotsOK(sl) /\ UsersOK(us) /\ Agree(sl, us)
  BY DEF Consistent
<1>2. \A t \in Slots : /\ changeSlotInfo(sl, s, c)[t].enrolled = sl[t].enrolled
                       /\ changeSlotInfo(sl, s, c)[t].queue = sl[t].queue
  BY <1>1, ChangeSlotInfo
<1> QED
  BY <1>1, <1>2, ChangeSlotInfo DEF Consistent, Agree

LEMMA DeleteUserAgrees ==
  ASSUME NEW sl, NEW us, Consistent(sl, us), NEW u \in Users
  PROVE  Consistent(sl, deleteUserRow(us, u))
BY DeleteUserRow DEF Consistent, Agree

LEMMA DeleteSlotRow ==
  ASSUME NEW sl, SlotsOK(sl), NEW s \in Slots
  PROVE  /\ SlotsOK(deleteSlotRow(sl, s))
         /\ deleteSlotRow(sl, s)[s].enrolled = << >>
         /\ deleteSlotRow(sl, s)[s].queue = << >>
         /\ \A t \in Slots \ {s} : deleteSlotRow(sl, s)[t] = sl[t]
<1> DEFINE row == EmptySlot("gone", sl[s].cap)
<1>1. row \in SlotRow /\ row.st = "gone" /\ row.enrolled = << >> /\ row.queue = << >>
  BY SlotFields DEF SlotRow, EmptySlot
<1>2. deleteSlotRow(sl, s) = IF Live(sl[s]) THEN [sl EXCEPT ![s] = row] ELSE sl
  BY DEF deleteSlotRow, OnSlot
<1> HIDE DEF row
<1> QED
  BY <1>1, <1>2 DEF SlotsOK, Live

LEMMA StrikeAgrees ==
  ASSUME NEW sl, NEW us, Consistent(sl, us), NEW s \in Slots
  PROVE  Consistent(deleteSlotRow(sl, s), strike(sl, us, s))
<1>1. SlotsOK(sl) /\ UsersOK(us) /\ Agree(sl, us)
  BY DEF Consistent
<1> DEFINE new == strike(sl, us, s)
<1>2. new = [u \in Users |-> new[u]]
  BY DEF strike
<1>3. ASSUME NEW u \in Users
      PROVE  /\ new[u] \in UserRow
             /\ new[u].st = us[u].st
             /\ new[u].enrolled = IF u \in Members(sl[s].enrolled)
                                  THEN us[u].enrolled \ {s} ELSE us[u].enrolled
             /\ new[u].queued = IF u \in Members(sl[s].queue)
                                THEN us[u].queued \ {s} ELSE us[u].queued
  BY <1>1 DEF UsersOK, UserRow, strike
<1> HIDE DEF new
<1>4. UsersOK(new)
  BY <1>1, <1>2, <1>3 DEF UsersOK, Live
<1>5. Members(<< >>) = {}
  BY DEF Members
<1>6. ASSUME NEW u \in Users, Live(new[u]), NEW t \in Slots
      PROVE  /\ t \in new[u].enrolled <=> u \in Members(deleteSlotRow(sl, s)[t].enrolled)
             /\ t \in new[u].queued <=> u \in Members(deleteSlotRow(sl, s)[t].queue)
  <2>1. /\ t \in us[u].enrolled <=> u \in Members(sl[t].enrolled)
        /\ t \in us[u].queued <=> u \in Members(sl[t].queue)
    BY <1>1, <1>3, <1>6 DEF Agree, Live
  <2>2. CASE t = s
    BY <1>1, <1>3, <1>5, <2>1, <2>2, DeleteSlotRow
  <2>3. CASE t # s
    <3>1. deleteSlotRow(sl, s)[t] = sl[t]
      BY <1>1, <2>3, DeleteSlotRow
    <3>2. (t \in new[u].enrolled <=> t \in us[u].enrolled) /\ (t \in new[u].queued <=> t \in us[u].queued)
      BY <1>3, <2>3
    <3> QED
      BY <2>1, <3>1, <3>2
  <2> QED
    BY <2>2, <2>3
<1> QED
  BY <1>1, <1>4, <1>6, DeleteSlotRow DEF Consistent, Agree, new

LEMMA InitAgrees == \A sl \in InitSlots : Consistent(sl, InitUsers)
<1> SUFFICES ASSUME NEW sl \in InitSlots PROVE Consistent(sl, InitUsers)
  OBVIOUS
<1>1. Members(<< >>) = {}
  BY DEF Members
<1>2. ASSUME NEW s \in Slots
      PROVE  sl[s] \in SlotRow /\ sl[s].enrolled = << >> /\ sl[s].queue = << >>
  <2>1. PICK st \in {"unborn", "live"}, c \in Capacities : sl[s] = EmptySlot(st, c)
    BY DEF InitSlots
  <2> QED
    BY <2>1 DEF SlotRow, EmptySlot
<1>3. SlotsOK(sl)
  BY <1>2 DEF SlotsOK, InitSlots
<1>4. UsersOK(InitUsers)
  BY DEF UsersOK, InitUsers, UserRow, Live
<1>5. Agree(sl, InitUsers)
  BY <1>1, <1>2 DEF Agree, InitUsers
<1> QED
  BY <1>3, <1>4, <1>5 DEF Consistent

-----------------------------------------------------------------------------
(* Each statement writes one row, and only a row that is there.            *)
OneSlotRow(sl, new, s) ==
  /\ \A t \in Slots \ {s} : new[t] = sl[t]
  /\ IF Live(sl[s]) THEN new[s].st \in {"live", "gone"} ELSE new[s] = sl[s]

OneUserRow(us, new, u) ==
  /\ \A v \in Users \ {u} : new[v] = us[v]
  /\ ~Live(us[u]) => new[u] = us[u]

LEMMA OneSlotWritten ==
  ASSUME NEW sl, SlotsOK(sl), NEW s \in Slots, NEW u \in Users, NEW c \in Capacities
  PROVE  /\ OneSlotRow(sl, addEntry(sl, u, s), s)
         /\ OneSlotRow(sl, removeEntry(sl, u, s), s)
         /\ OneSlotRow(sl, addToQueue(sl, u, s), s)
         /\ OneSlotRow(sl, removeFromQueue(sl, u, s), s)
         /\ OneSlotRow(sl, changeSlotInfo(sl, s, c), s)
         /\ OneSlotRow(sl, deleteSlotRow(sl, s), s)
         /\ OneSlotRow(sl, promoteSlots(sl, u, s), s)
<1>1. ASSUME NEW row \in SlotRow, row.st \in {sl[s].st, "gone"}
      PROVE  OneSlotRow(sl, OnSlot(sl, s, row), s)
  BY <1>1 DEF SlotsOK, OnSlot, OneSlotRow, Live
<1>2. /\ OneSlotRow(sl, addEntry(sl, u, s), s)
      /\ OneSlotRow(sl, removeEntry(sl, u, s), s)
      /\ OneSlotRow(sl, addToQueue(sl, u, s), s)
  <2>1. sl[s] \in SlotRow
    BY SlotFields
  <2>2. /\ Append(sl[s].enrolled, u) \in Seq(Users)
        /\ RemoveAll(sl[s].enrolled, u) \in Seq(Users)
        /\ Append(sl[s].queue, u) \in Seq(Users)
    BY SlotFields, AppendMembers, RemoveAllMembers
  <2>3. /\ [sl[s] EXCEPT !.enrolled = Append(@, u)] \in SlotRow
        /\ [sl[s] EXCEPT !.enrolled = RemoveAll(@, u)] \in SlotRow
        /\ [sl[s] EXCEPT !.queue = Append(@, u)] \in SlotRow
    BY <2>1, <2>2 DEF SlotRow
  <2>4. /\ [sl[s] EXCEPT !.enrolled = Append(@, u)].st = sl[s].st
        /\ [sl[s] EXCEPT !.enrolled = RemoveAll(@, u)].st = sl[s].st
        /\ [sl[s] EXCEPT !.queue = Append(@, u)].st = sl[s].st
    BY <2>1 DEF SlotRow
  <2> QED
    BY <1>1, <2>3, <2>4 DEF addEntry, removeEntry, addToQueue
<1>3. /\ OneSlotRow(sl, removeFromQueue(sl, u, s), s)
      /\ OneSlotRow(sl, changeSlotInfo(sl, s, c), s)
  <2>1. sl[s] \in SlotRow
    BY SlotFields
  <2>2. RemoveAll(sl[s].queue, u) \in Seq(Users)
    BY SlotFields, RemoveAllMembers
  <2>3. /\ [sl[s] EXCEPT !.queue = RemoveAll(@, u)] \in SlotRow
        /\ [sl[s] EXCEPT !.cap = c] \in SlotRow
    BY <2>1, <2>2 DEF SlotRow
  <2>4. /\ [sl[s] EXCEPT !.queue = RemoveAll(@, u)].st = sl[s].st
        /\ [sl[s] EXCEPT !.cap = c].st = sl[s].st
    BY <2>1 DEF SlotRow
  <2> QED
    BY <1>1, <2>3, <2>4 DEF removeFromQueue, changeSlotInfo
<1>4. OneSlotRow(sl, deleteSlotRow(sl, s), s)
  <2>1. EmptySlot("gone", sl[s].cap) \in SlotRow /\ EmptySlot("gone", sl[s].cap).st = "gone"
    BY SlotFields DEF SlotRow, EmptySlot
  <2> QED
    BY <1>1, <2>1 DEF deleteSlotRow
<1>5. OneSlotRow(sl, promoteSlots(sl, u, s), s)
  <2> DEFINE mid == removeFromQueue(sl, u, s)
             new == addEntry(mid, u, s)
  <2>1. SlotsOK(mid) /\ mid[s].st = sl[s].st
    BY RemoveFromQueue
  <2>2. \A t \in Slots \ {s} : mid[t] = sl[t]
    BY <1>3 DEF OneSlotRow
  <2>3. ~Live(sl[s]) => mid = sl
    BY DEF removeFromQueue, OnSlot
  <2> HIDE DEF mid
  <2>4. new[s].st = mid[s].st /\ (~Live(mid[s]) => new = mid)
    BY <2>1, AddEntry DEF addEntry, OnSlot
  <2>5. \A t \in Slots \ {s} : new[t] = mid[t]
    BY <2>1 DEF SlotsOK, addEntry, OnSlot
  <2>6. new = promoteSlots(sl, u, s)
    BY DEF promoteSlots, mid
  <2> HIDE DEF new
  <2> QED
    BY <2>1, <2>2, <2>3, <2>4, <2>5, <2>6 DEF OneSlotRow, Live
<1> QED
  BY <1>2, <1>3, <1>4, <1>5

LEMMA OneUserWritten ==
  ASSUME NEW us, UsersOK(us), NEW u \in Users, NEW s \in Slots
  PROVE  /\ OneUserRow(us, addEnrollment(us, u, s), u)
         /\ OneUserRow(us, removeEnrollment(us, u, s), u)
         /\ OneUserRow(us, addQueuedSlot(us, u, s), u)
         /\ OneUserRow(us, removeQueuedSlot(us, u, s), u)
         /\ OneUserRow(us, deleteUserRow(us, u), u)
         /\ OneUserRow(us, promoteUsers(us, u, s), u)
BY DEF OneUserRow, UsersOK, UserRow, Live, OnUser, addEnrollment, removeEnrollment,
       addQueuedSlot, removeQueuedSlot, deleteUserRow, promoteUsers
=============================================================================
