-------------------------- MODULE ClientViewProofs --------------------------
(***************************************************************************)
(* The client's view model, for any number of gyms and any bounds.  First  *)
(* come the numbers of copies in the bag of requests, then the counters    *)
(* and the views, which rest on nothing of each other.                     *)
(***************************************************************************)
EXTENDS ClientView, FiniteSetTheorems, FunctionTheorems, TLAPS

IsFlight(b) ==
  /\ IsFiniteSet(DOMAIN b)
  /\ b = [r \in DOMAIN b |-> b[r]]
  /\ \A r \in DOMAIN b : b[r] \in Nat /\ b[r] > 0

(* The number of copies, 0 for what is not in the bag.                     *)
At(b, r) == IF r \in DOMAIN b THEN b[r] ELSE 0

Count(b, kinds) == Cardinality(Copies(b, kinds))

LEMMA CopiesMembers ==
  ASSUME NEW b, IsFlight(b), NEW kinds
  PROVE  /\ \A c : c \in Copies(b, kinds) <=>
               \E r \in DOMAIN b : \E i \in 1..b[r] : r.kind \in kinds /\ c = << r, i >>
         /\ \A r, i : << r, i >> \in Copies(b, kinds) <=>
               r.kind \in kinds /\ i \in 1..At(b, r)
<1>1. \A c : c \in Copies(b, kinds) <=>
        \E r \in DOMAIN b : \E i \in 1..b[r] : r.kind \in kinds /\ c = << r, i >>
  BY DEF Copies, BagToSet
<1>2. ASSUME NEW r, NEW i
      PROVE  << r, i >> \in Copies(b, kinds) <=> r.kind \in kinds /\ i \in 1..At(b, r)
  <2>1. << r, i >> \in Copies(b, kinds) <=> r \in DOMAIN b /\ r.kind \in kinds /\ i \in 1..b[r]
    BY <1>1
  <2>2. 1..0 = {}
    OBVIOUS
  <2> QED
    BY <2>1, <2>2 DEF At
<1> QED
  BY <1>1, <1>2

LEMMA AtNat ==
  ASSUME NEW b, IsFlight(b), NEW r
  PROVE  At(b, r) \in Nat /\ (At(b, r) > 0 <=> r \in DOMAIN b)
BY DEF IsFlight, At

LEMMA CopiesFinite ==
  ASSUME NEW b, IsFlight(b), NEW kinds
  PROVE  IsFiniteSet(Copies(b, kinds)) /\ Count(b, kinds) \in Nat
<1> DEFINE R == {q \in DOMAIN b : q.kind \in kinds}
           f == [r \in R |-> {r} \X (1..b[r])]
           T == {{r} \X (1..b[r]) : r \in R}
<1>1. IsFiniteSet(R)
  BY FS_Subset DEF IsFlight
<1>2. IsFiniteSet(T)
  <2>1. f \in Surjection(R, T)
    BY DEF Surjection
  <2> QED
    BY <1>1, <2>1, FS_Surjection
<1>3. \A t \in T : IsFiniteSet(t)
  <2> SUFFICES ASSUME NEW r \in R PROVE IsFiniteSet({r} \X (1..b[r]))
    OBVIOUS
  <2> HIDE DEF f, T
  <2>1. b[r] \in Int
    BY DEF IsFlight
  <2>2. IsFiniteSet(1..b[r])
    BY <2>1, FS_Interval
  <2>3. IsFiniteSet({r})
    BY FS_Singleton
  <2> QED
    BY <2>2, <2>3, FS_Product
<1>4. Copies(b, kinds) = UNION T
  BY DEF Copies, BagToSet
<1>5. IsFiniteSet(Copies(b, kinds))
  BY <1>2, <1>3, <1>4, FS_UNION
<1> QED
  BY <1>5, FS_CardinalityType DEF Count

LEMMA UnionIsFlight ==
  ASSUME NEW a, NEW b, IsFlight(a), IsFlight(b)
  PROVE  /\ IsFlight(a (+) b)
         /\ DOMAIN (a (+) b) = DOMAIN a \cup DOMAIN b
         /\ \A r : At(a (+) b, r) = At(a, r) + At(b, r)
<1>1. DOMAIN (a (+) b) = DOMAIN a \cup DOMAIN b
  BY DEF (+)
<1>2. \A r \in DOMAIN a \cup DOMAIN b : (a (+) b)[r] = At(a, r) + At(b, r)
  BY DEF (+), At
<1>3. IsFiniteSet(DOMAIN a \cup DOMAIN b)
  BY FS_Union DEF IsFlight
<1>4. \A r : At(a (+) b, r) = At(a, r) + At(b, r)
  <2>1. \A r : r \notin DOMAIN a \cup DOMAIN b => At(a, r) = 0 /\ At(b, r) = 0 /\ At(a (+) b, r) = 0
    BY <1>1 DEF At
  <2>2. \A r \in DOMAIN a \cup DOMAIN b : At(a (+) b, r) = At(a, r) + At(b, r)
    BY <1>1, <1>2 DEF At
  <2> QED
    BY <2>1, <2>2
<1>5. \A r \in DOMAIN a \cup DOMAIN b : (a (+) b)[r] \in Nat /\ (a (+) b)[r] > 0
  BY <1>2, AtNat
<1>6. a (+) b = [r \in DOMAIN (a (+) b) |-> (a (+) b)[r]]
  BY DEF (+)
<1> QED
  BY <1>1, <1>3, <1>4, <1>5, <1>6 DEF IsFlight

(* Nothing is lost or counted twice when requests are added: the copies    *)
(* that b adds are numbered after those of a.                              *)
LEMMA CountUnion ==
  ASSUME NEW a, NEW b, IsFlight(a), IsFlight(b), NEW kinds
  PROVE  Count(a (+) b, kinds) = Count(a, kinds) + Count(b, kinds)
<1> DEFINE A == Copies(a, kinds)
           B == Copies(b, kinds)
           C == Copies(a (+) b, kinds)
           f == [c \in B |-> << c[1], At(a, c[1]) + c[2] >>]
<1>1. IsFlight(a (+) b) /\ \A r : At(a (+) b, r) = At(a, r) + At(b, r)
  BY UnionIsFlight
<1>2. \A r : At(a, r) \in Nat /\ At(b, r) \in Nat
  BY AtNat
<1>3. /\ \A c : c \in A <=> \E r \in DOMAIN a : \E i \in 1..a[r] : r.kind \in kinds /\ c = << r, i >>
      /\ \A r, i : << r, i >> \in A <=> r.kind \in kinds /\ i \in 1..At(a, r)
  BY CopiesMembers
<1>4. /\ \A c : c \in B <=> \E r \in DOMAIN b : \E i \in 1..b[r] : r.kind \in kinds /\ c = << r, i >>
      /\ \A r, i : << r, i >> \in B <=> r.kind \in kinds /\ i \in 1..At(b, r)
  BY CopiesMembers
<1>5. /\ \A c : c \in C <=> \E r \in DOMAIN (a (+) b) : \E i \in 1..(a (+) b)[r] : r.kind \in kinds /\ c = << r, i >>
      /\ \A r, i : << r, i >> \in C <=> r.kind \in kinds /\ i \in 1..At(a (+) b, r)
  BY <1>1, CopiesMembers
<1>6. A \subseteq C
  BY <1>1, <1>2, <1>3, <1>5
<1> HIDE DEF A, B, C
<1>7. ASSUME NEW c \in B
      PROVE  /\ c = << c[1], c[2] >> /\ c[1].kind \in kinds /\ c[2] \in 1..At(b, c[1])
             /\ f[c] \in C \ A
  <2>1. PICK r \in DOMAIN b : \E i \in 1..b[r] : r.kind \in kinds /\ c = << r, i >>
    BY <1>4
  <2>2. PICK i \in 1..b[r] : r.kind \in kinds /\ c = << r, i >>
    BY <2>1
  <2>3. c = << c[1], c[2] >> /\ c[1] = r /\ c[2] = i
    BY <2>2
  <2>4. r.kind \in kinds /\ i \in 1..At(b, r)
    BY <1>4, <2>2
  <2>5. At(a, r) + i \in 1..At(a (+) b, r) /\ At(a, r) + i \notin 1..At(a, r)
    BY <1>1, <1>2, <2>4
  <2>6. << r, At(a, r) + i >> \in C \ A
    BY <1>3, <1>5, <2>4, <2>5
  <2> QED
    BY <2>3, <2>4, <2>6
<1>8. f \in [B -> C \ A]
  BY <1>7
<1>9. ASSUME NEW c \in B, NEW d \in B, f[c] = f[d] PROVE c = d
  <2>1. c[1] = d[1] /\ At(a, c[1]) + c[2] = At(a, c[1]) + d[2]
    BY <1>9
  <2>2. At(a, c[1]) \in Nat /\ c[2] \in Int /\ d[2] \in Int
    <3> HIDE DEF f
    <3>1. c[2] \in 1..At(b, c[1]) /\ d[2] \in 1..At(b, d[1])
      BY <1>7
    <3> QED
      BY <1>2, <3>1
  <2>3. c[2] = d[2]
    BY <2>1, <2>2
  <2> QED
    BY <1>7, <2>1, <2>3
<1>10. ASSUME NEW c \in C \ A PROVE \E d \in B : f[d] = c
  <2>1. PICK r \in DOMAIN (a (+) b) : \E i \in 1..(a (+) b)[r] : r.kind \in kinds /\ c = << r, i >>
    BY <1>5
  <2>2. PICK i \in 1..(a (+) b)[r] : r.kind \in kinds /\ c = << r, i >>
    BY <2>1
  <2>3. i \in 1..(At(a, r) + At(b, r)) /\ i \notin 1..At(a, r)
    BY <1>1, <1>3, <1>5, <1>10, <2>2
  <2>4. i - At(a, r) \in 1..At(b, r) /\ At(a, r) + (i - At(a, r)) = i
    BY <1>2, <2>3
  <2>5. << r, i - At(a, r) >> \in B
    BY <1>4, <2>2, <2>4
  <2>6. f[<< r, i - At(a, r) >>] = c
    BY <2>2, <2>4, <2>5
  <2> QED
    BY <2>5, <2>6
<1>11. f \in Bijection(B, C \ A)
  <2> HIDE DEF f
  <2> QED
    BY <1>8, <1>9, <1>10, Fun_IsBij
<1>12. IsFiniteSet(A) /\ IsFiniteSet(B) /\ Cardinality(A) \in Nat /\ Cardinality(B) \in Nat
  BY CopiesFinite DEF A, B, Count
<1>13. IsFiniteSet(C \ A) /\ Cardinality(C \ A) = Cardinality(B)
  <2>1. ExistsBijection(B, C \ A)
    BY <1>11 DEF ExistsBijection
  <2> QED
    BY <1>12, <2>1, FS_Bijection
<1>14. Cardinality(A \cup (C \ A)) = Cardinality(A) + Cardinality(C \ A) - Cardinality(A \cap (C \ A))
  BY <1>12, <1>13, FS_Union
<1>15. A \cup (C \ A) = C /\ A \cap (C \ A) = {}
  BY <1>6
<1>16. Cardinality(C) = Cardinality(A) + Cardinality(B) - Cardinality({})
  BY <1>13, <1>14, <1>15
<1>17. Cardinality({}) = 0
  BY FS_EmptySet
<1>18. Cardinality(C) = Cardinality(A) + Cardinality(B)
  BY <1>12, <1>16, <1>17
<1> QED
  BY <1>18 DEF A, B, C, Count

(* Taking one copy of a request out of the bag.                            *)
Without(b, r) == b (-) SetToBag({r})

LEMMA WithoutIsFlight ==
  ASSUME NEW b, IsFlight(b), NEW r, r \in DOMAIN b
  PROVE  /\ IsFlight(Without(b, r))
         /\ DOMAIN Without(b, r) \subseteq DOMAIN b
         /\ \A q \in DOMAIN b : q # r => q \in DOMAIN Without(b, r)
         /\ \A q : At(Without(b, r), q) = IF q = r THEN At(b, r) - 1 ELSE At(b, q)
<1> DEFINE left == [q \in DOMAIN b |-> IF q = r THEN b[q] - 1 ELSE b[q]]
           S == {q \in DOMAIN b : left[q] > 0}
<1>1. Without(b, r) = [q \in S |-> left[q]]
  <2>1. DOMAIN SetToBag({r}) = {r} /\ SetToBag({r})[r] = 1
    BY DEF SetToBag
  <2>2. \A q \in DOMAIN b :
          left[q] = IF q \in DOMAIN SetToBag({r}) THEN b[q] - SetToBag({r})[q] ELSE b[q]
    BY <2>1
  <2>3. left = [q \in DOMAIN b |-> IF q \in DOMAIN SetToBag({r}) THEN b[q] - SetToBag({r})[q] ELSE b[q]]
    BY <2>2
  <2> HIDE DEF left
  <2>4. DOMAIN left = DOMAIN b
    BY <2>3
  <2> QED
    BY <2>3, <2>4 DEF Without, (-)
<1>2. \A q \in DOMAIN b : left[q] = IF q = r THEN b[q] - 1 ELSE b[q]
  OBVIOUS
<1> HIDE DEF left
<1>3. DOMAIN Without(b, r) = S /\ \A q \in S : Without(b, r)[q] = left[q]
  BY <1>1
<1>4. \A q \in DOMAIN b : b[q] \in Nat /\ b[q] > 0
  BY DEF IsFlight
<1>5. IsFiniteSet(S)
  BY FS_Subset DEF IsFlight
<1>6. \A q \in S : left[q] \in Nat /\ left[q] > 0
  BY <1>2, <1>4
<1>7. \A q \in DOMAIN b : q # r => q \in S
  BY <1>2, <1>4
<1>8. ASSUME NEW q
      PROVE  At(Without(b, r), q) = IF q = r THEN At(b, r) - 1 ELSE At(b, q)
  <2>1. CASE q \in S
    BY <1>2, <1>3, <2>1 DEF At
  <2>2. CASE q \notin S /\ q = r
    <3>1. b[r] = 1
      BY <1>2, <1>4, <2>2
    <3> QED
      BY <1>3, <2>2, <3>1 DEF At
  <2>3. CASE q \notin S /\ q # r
    BY <1>3, <1>7, <2>3 DEF At
  <2> QED
    BY <2>1, <2>2, <2>3
<1>9. Without(b, r) = [q \in DOMAIN Without(b, r) |-> Without(b, r)[q]]
  BY <1>1
<1> QED
  BY <1>3, <1>5, <1>6, <1>7, <1>8, <1>9 DEF IsFlight

LEMMA CountWithout ==
  ASSUME NEW b, IsFlight(b), NEW r, r \in DOMAIN b, NEW kinds
  PROVE  Count(Without(b, r), kinds) = Count(b, kinds) - (IF r.kind \in kinds THEN 1 ELSE 0)
<1> DEFINE B == Copies(b, kinds)
           C == Copies(Without(b, r), kinds)
           last == << r, b[r] >>
<1>1. /\ IsFlight(Without(b, r))
      /\ \A q : At(Without(b, r), q) = IF q = r THEN At(b, r) - 1 ELSE At(b, q)
  BY WithoutIsFlight
<1>2. /\ \A c : c \in B <=> \E q \in DOMAIN b : \E i \in 1..b[q] : q.kind \in kinds /\ c = << q, i >>
      /\ \A q, i : << q, i >> \in B <=> q.kind \in kinds /\ i \in 1..At(b, q)
  BY CopiesMembers
<1>3. /\ \A c : c \in C <=> \E q \in DOMAIN Without(b, r) : \E i \in 1..Without(b, r)[q] :
                            q.kind \in kinds /\ c = << q, i >>
      /\ \A q, i : << q, i >> \in C <=> q.kind \in kinds /\ i \in 1..At(Without(b, r), q)
  BY <1>1, CopiesMembers
<1>4. b[r] \in Nat /\ b[r] > 0 /\ At(b, r) = b[r]
  BY DEF IsFlight, At
<1> HIDE DEF B, C
<1>5. \A q, i : << q, i >> \in C <=> << q, i >> \in B /\ << q, i >> # last
  <2> SUFFICES ASSUME NEW q, NEW i
               PROVE  << q, i >> \in C <=> << q, i >> \in B /\ << q, i >> # last
    OBVIOUS
  <2>1. << q, i >> # last <=> ~(q = r /\ i = b[r])
    OBVIOUS
  <2>2. i \in 1..At(Without(b, r), q) <=> i \in 1..At(b, q) /\ ~(q = r /\ i = b[r])
    <3>1. CASE q = r
      BY <1>1, <1>4, <3>1
    <3>2. CASE q # r
      BY <1>1, <3>2
    <3> QED
      BY <3>1, <3>2
  <2> QED
    BY <1>2, <1>3, <2>1, <2>2
<1>6. C = B \ {last}
  <2>1. \A c \in C : \E q, i : c = << q, i >>
    BY <1>3
  <2>2. \A c \in B : \E q, i : c = << q, i >>
    BY <1>2
  <2> HIDE DEF last
  <2> QED
    BY <1>5, <2>1, <2>2
<1>7. last \in B <=> r.kind \in kinds
  BY <1>2, <1>4
<1>8. IsFiniteSet(B) /\ Cardinality(B) \in Nat
  BY CopiesFinite DEF B, Count
<1>9. Cardinality(C) = IF last \in B THEN Cardinality(B) - 1 ELSE Cardinality(B)
  BY <1>6, <1>8, FS_RemoveElement
<1> QED
  BY <1>7, <1>8, <1>9 DEF B, C, Count

LEMMA OneIsFlight ==
  ASSUME NEW r
  PROVE  /\ IsFlight(SetToBag({r})) /\ DOMAIN SetToBag({r}) = {r}
         /\ IsFlight(EmptyBag) /\ DOMAIN EmptyBag = {}
<1>1. IsFiniteSet({r}) /\ IsFiniteSet({})
  BY FS_Singleton, FS_EmptySet
<1> QED
  BY <1>1 DEF SetToBag, EmptyBag, IsFlight

LEMMA CountOne ==
  ASSUME NEW r, NEW kinds
  PROVE  Count(SetToBag({r}), kinds) = IF r.kind \in kinds THEN 1 ELSE 0
<1> DEFINE B == Copies(SetToBag({r}), kinds)
<1>1. IsFlight(SetToBag({r})) /\ DOMAIN SetToBag({r}) = {r}
  BY OneIsFlight
<1>2. \A c : c \in B <=> \E q \in {r} : \E i \in 1..SetToBag({r})[q] : q.kind \in kinds /\ c = << q, i >>
  BY <1>1, CopiesMembers
<1>3. SetToBag({r})[r] = 1 /\ 1..1 = {1}
  BY DEF SetToBag
<1> HIDE DEF B
<1>4. B = IF r.kind \in kinds THEN {<< r, 1 >>} ELSE {}
  BY <1>2, <1>3
<1>5. Cardinality({<< r, 1 >>}) = 1 /\ Cardinality({}) = 0
  BY FS_Singleton, FS_EmptySet
<1> QED
  BY <1>4, <1>5 DEF B, Count

-----------------------------------------------------------------------------
(* The requests that the view sends.                                       *)
New(kind, of) == [kind |-> kind, of |-> of, version |-> 0, served |-> FALSE]

RequestOK(r) ==
  /\ r \in Request
  /\ r.kind = "slots" => r.of \in Gyms \cup {NoGym}
  /\ r.kind \in Lists => r.of \in 0..MaxEvents

FlightOK(b) == IsFlight(b) /\ \A r \in DOMAIN b : RequestOK(r)

(* Every view is read again, for this gym and this user.                   *)
Rereads(b, gym, who) ==
  {New("slots", gym), New("bookedIds", who), New("queuedIds", who)} \subseteq DOMAIN b

Unserved(b) == \A r \in DOMAIN b : ~r.served

LEMMA UnionFlightOK ==
  ASSUME NEW a, NEW b, FlightOK(a), FlightOK(b)
  PROVE  FlightOK(a (+) b) /\ DOMAIN (a (+) b) = DOMAIN a \cup DOMAIN b
<1>1. IsFlight(a (+) b) /\ DOMAIN (a (+) b) = DOMAIN a \cup DOMAIN b
  BY UnionIsFlight DEF FlightOK
<1> QED
  BY <1>1 DEF FlightOK

LEMMA UnionUnserved ==
  ASSUME NEW a, NEW b, FlightOK(a), FlightOK(b), Unserved(a), Unserved(b)
  PROVE  /\ FlightOK(a (+) b) /\ Unserved(a (+) b)
         /\ DOMAIN (a (+) b) = DOMAIN a \cup DOMAIN b
<1>1. FlightOK(a (+) b) /\ DOMAIN (a (+) b) = DOMAIN a \cup DOMAIN b
  BY UnionFlightOK
<1> QED
  BY <1>1 DEF Unserved

LEMMA WithoutFlightOK ==
  ASSUME NEW b, FlightOK(b), NEW r \in DOMAIN b
  PROVE  /\ FlightOK(Without(b, r))
         /\ DOMAIN Without(b, r) \subseteq DOMAIN b
         /\ \A q \in DOMAIN b : q # r => q \in DOMAIN Without(b, r)
<1>1. IsFlight(b)
  BY DEF FlightOK
<1>2. /\ IsFlight(Without(b, r))
      /\ DOMAIN Without(b, r) \subseteq DOMAIN b
      /\ \A q \in DOMAIN b : q # r => q \in DOMAIN Without(b, r)
  BY <1>1, WithoutIsFlight
<1> QED
  BY <1>2 DEF FlightOK

LEMMA SentOK ==
  /\ \A kind, of : IsFlight(Sent(kind, of)) /\ DOMAIN Sent(kind, of) = {New(kind, of)}
  /\ \A gym \in Gyms \cup {NoGym} : FlightOK(Sent("slots", gym))
  /\ \A v \in Lists, who \in 0..MaxEvents : FlightOK(Sent(v, who))
  /\ \A kind \in (Reads \cup Writes) \ Views : FlightOK(SentByAnyone(kind))
  /\ \A kind, of : Unserved(Sent(kind, of)) /\ Unserved(SentByAnyone(kind))
  /\ FlightOK(EmptyBag) /\ DOMAIN EmptyBag = {}
<1>1. \A kind, of : IsFlight(Sent(kind, of)) /\ DOMAIN Sent(kind, of) = {New(kind, of)}
  BY OneIsFlight DEF Sent, New
<1>2. 0 \in 0..MaxEvents
  BY ClientAssumption
<1>3. \A gym \in Gyms \cup {NoGym} : RequestOK(New("slots", gym))
  BY <1>2 DEF RequestOK, Request, New, Reads, Views, Lists
<1>4. \A v \in Lists, who \in 0..MaxEvents : RequestOK(New(v, who))
  BY <1>2 DEF RequestOK, Request, New, Reads, Views, Lists
<1>5. \A kind \in (Reads \cup Writes) \ Views : RequestOK(New(kind, 0))
  BY <1>2 DEF RequestOK, Request, New, Reads, Views, Lists
<1>6. FlightOK(EmptyBag) /\ DOMAIN EmptyBag = {}
  BY OneIsFlight DEF FlightOK
<1>7. \A kind, of : RequestOK(New(kind, of)) => FlightOK(Sent(kind, of))
  BY <1>1 DEF FlightOK
<1>8. \A kind : SentByAnyone(kind) = Sent(kind, 0)
  BY DEF SentByAnyone
<1>9. \A kind, of : Unserved(Sent(kind, of))
  <2> SUFFICES ASSUME NEW kind, NEW of PROVE Unserved(Sent(kind, of))
    OBVIOUS
  <2>1. ~New(kind, of).served
    BY DEF New
  <2>2. DOMAIN Sent(kind, of) = {New(kind, of)}
    BY <1>1
  <2> QED
    BY <2>1, <2>2 DEF Unserved
<1> QED
  BY <1>1, <1>3, <1>4, <1>5, <1>6, <1>7, <1>8, <1>9

LEMMA LoadSlotsOK ==
  ASSUME NEW gym \in Gyms \cup {NoGym}, NEW who \in 0..MaxEvents
  PROVE  FlightOK(loadSlots(gym, who)) /\ Unserved(loadSlots(gym, who)) /\ Rereads(loadSlots(gym, who), gym, who)
<1>1. /\ FlightOK(Sent("slots", gym)) /\ FlightOK(Sent("bookedIds", who)) /\ FlightOK(Sent("queuedIds", who))
      /\ DOMAIN Sent("slots", gym) = {New("slots", gym)}
      /\ DOMAIN Sent("bookedIds", who) = {New("bookedIds", who)}
      /\ DOMAIN Sent("queuedIds", who) = {New("queuedIds", who)}
  BY SentOK DEF Lists
<1> DEFINE two == Sent("slots", gym) (+) Sent("bookedIds", who)
<1>2. FlightOK(two) /\ DOMAIN two = {New("slots", gym), New("bookedIds", who)}
  BY <1>1, UnionFlightOK
<1>3. loadSlots(gym, who) = two (+) Sent("queuedIds", who)
  BY DEF loadSlots
<1> HIDE DEF two
<1>4. /\ FlightOK(loadSlots(gym, who))
      /\ DOMAIN loadSlots(gym, who) = {New("slots", gym), New("bookedIds", who), New("queuedIds", who)}
  <2>1. /\ FlightOK(two (+) Sent("queuedIds", who))
        /\ DOMAIN (two (+) Sent("queuedIds", who)) = DOMAIN two \cup DOMAIN Sent("queuedIds", who)
    BY <1>1, <1>2, UnionFlightOK
  <2> QED
    BY <1>1, <1>2, <1>3, <2>1, Zenon
<1> QED
  BY <1>4 DEF Unserved, Rereads, New, Reads, Views, Lists

LEMMA InitOK ==
  ASSUME NEW who \in 0..MaxEvents
  PROVE  FlightOK(init(who)) /\ Unserved(init(who)) /\ New("queuedIds", who) \in DOMAIN init(who)
<1>1. /\ FlightOK(SentByAnyone("gyms")) /\ FlightOK(SentByAnyone("figures")) /\ FlightOK(Sent("queuedIds", who))
      /\ DOMAIN SentByAnyone("gyms") = {New("gyms", 0)}
      /\ DOMAIN SentByAnyone("figures") = {New("figures", 0)}
      /\ DOMAIN Sent("queuedIds", who) = {New("queuedIds", who)}
  BY SentOK DEF Lists, Views, Reads, SentByAnyone
<1> DEFINE two == SentByAnyone("gyms") (+) SentByAnyone("figures")
<1>2. FlightOK(two) /\ DOMAIN two = {New("gyms", 0), New("figures", 0)}
  BY <1>1, UnionFlightOK
<1>3. init(who) = two (+) Sent("queuedIds", who)
  BY DEF init
<1> HIDE DEF two
<1>4. /\ FlightOK(init(who))
      /\ DOMAIN init(who) = {New("gyms", 0), New("figures", 0), New("queuedIds", who)}
  <2>1. /\ FlightOK(two (+) Sent("queuedIds", who))
        /\ DOMAIN (two (+) Sent("queuedIds", who)) = DOMAIN two \cup DOMAIN Sent("queuedIds", who)
    BY <1>1, <1>2, UnionFlightOK
  <2> QED
    BY <1>1, <1>2, <1>3, <2>1, Zenon
<1> QED
  BY <1>4 DEF Unserved, New, Reads, Views, Lists

(* Requests added to ones that reread everything still do.                 *)
LEMMA MoreRequests ==
  ASSUME NEW a, NEW b, FlightOK(a), FlightOK(b), Unserved(a), Unserved(b)
  PROVE  /\ FlightOK(a (+) b) /\ Unserved(a (+) b)
         /\ \A gym, who : Rereads(b, gym, who) => Rereads(a (+) b, gym, who)
<1>1. FlightOK(a (+) b) /\ DOMAIN (a (+) b) = DOMAIN a \cup DOMAIN b
  BY UnionFlightOK
<1> QED
  BY <1>1 DEF Unserved, Rereads

(* A write that changes what a view shows makes the view read everything   *)
(* again, and a write that only the screens of others show need not.       *)
LEMMA FollowUpsOK ==
  ASSUME selected \in Gyms \cup {NoGym}, session \in 0..MaxEvents,
         NEW kind \in Writes, NEW requests \in FollowUps(kind)
  PROVE  /\ FlightOK(requests) /\ Unserved(requests)
         /\ kind \in ViewWrites => Rereads(requests, selected, session)
<1> DEFINE all == loadSlots(selected, session)
           booked == Sent("bookedIds", session)
           queued == Sent("queuedIds", session)
<1>1. FlightOK(all) /\ Unserved(all) /\ Rereads(all, selected, session)
  BY LoadSlotsOK
<1>2. FlightOK(booked) /\ Unserved(booked) /\ FlightOK(queued) /\ Unserved(queued)
  BY SentOK DEF Lists
<1>3. FlightOK(EmptyBag) /\ Unserved(EmptyBag)
  BY SentOK DEF Unserved
<1> HIDE DEF all, booked, queued
<1>4. CASE kind \in {"book", "cancel"}
  <2>1. requests = booked (+) all
    BY <1>4 DEF FollowUps, onBookingFinished, booked, all
  <2> QED
    BY <1>1, <1>2, <2>1, MoreRequests
<1>5. CASE kind = "join"
  <2>1. PICK enrolled \in BOOLEAN : requests = onQueueJoined(enrolled)
    BY <1>5 DEF FollowUps
  <2> DEFINE first == IF enrolled THEN booked ELSE EmptyBag
  <2>2. requests = first (+) queued (+) booked (+) all
    BY <2>1 DEF onQueueJoined, booked, queued, all
  <2>3. FlightOK(first) /\ Unserved(first)
    BY <1>2, <1>3
  <2> HIDE DEF first
  <2>4. FlightOK(first (+) queued) /\ Unserved(first (+) queued)
    BY <1>2, <2>3, MoreRequests
  <2>5. FlightOK(first (+) queued (+) booked) /\ Unserved(first (+) queued (+) booked)
    BY <1>2, <2>4, MoreRequests
  <2> QED
    BY <1>1, <2>2, <2>5, MoreRequests
<1>6. CASE kind = "leave"
  <2>1. requests = queued (+) all
    BY <1>6 DEF FollowUps, onQueueLeft, queued, all
  <2> QED
    BY <1>1, <1>2, <2>1, MoreRequests
<1>7. CASE kind \in {"createSlot", "removeSlot"}
  <2>1. requests = all
    BY <1>7 DEF FollowUps, onSlotsChanged, all
  <2> QED
    BY <1>1, <2>1
<1>8. CASE kind = "createGym"
  <2>1. requests = init(session) /\ kind \notin ViewWrites
    BY <1>8 DEF FollowUps, onGymCreated, ViewWrites
  <2> QED
    BY <2>1, InitOK
<1>9. CASE kind \in {"addHours", "addGymAdmin"}
  <2>1. requests = EmptyBag /\ kind \notin ViewWrites
    BY <1>9 DEF FollowUps, ViewWrites
  <2> QED
    BY <1>3, <2>1
<1> QED
  BY <1>4, <1>5, <1>6, <1>7, <1>8, <1>9 DEF Writes, ActionCalls, AdminCalls

-----------------------------------------------------------------------------
(* The counters match the requests in flight, through every call.          *)
Counters == [pending : Nat, actions : Nat, loading : BOOLEAN]

CountersMatch(c, b) ==
  /\ c \in Counters
  /\ c.pending = Size(b)
  /\ c.loading <=> c.pending > 0
  /\ c.actions <= Count(b, ActionCalls)

LEMMA Counts ==
  ASSUME NEW b, FlightOK(b)
  PROVE  /\ Size(b) \in Nat /\ Size(b) = Count(b, Reads \cup Writes)
         /\ Count(b, ActionCalls) \in Nat
         /\ Size(b) > 0 <=> b # EmptyBag
<1>1. IsFlight(b)
  BY DEF FlightOK
<1>2. Size(b) = Count(b, Reads \cup Writes)
  BY DEF Size, Count
<1>3. Count(b, Reads \cup Writes) \in Nat /\ Count(b, ActionCalls) \in Nat
  BY <1>1, CopiesFinite
<1>4. ASSUME b # EmptyBag PROVE Size(b) > 0
  <2>1. DOMAIN b # {}
    <3> SUFFICES ASSUME DOMAIN b = {} PROVE FALSE
      OBVIOUS
    <3>1. b = [r \in {} |-> b[r]]
      BY <1>1 DEF IsFlight
    <3>2. [r \in {} |-> b[r]] = [r \in {} |-> 1]
      OBVIOUS
    <3> QED
      BY <1>4, <3>1, <3>2 DEF EmptyBag, SetToBag
  <2>2. PICK r : r \in DOMAIN b
    BY <2>1
  <2>3. r.kind \in Reads \cup Writes
    BY <2>2 DEF FlightOK, RequestOK, Request
  <2>4. 1 \in 1..At(b, r)
    BY <1>1, <2>2, AtNat
  <2>5. << r, 1 >> \in Copies(b, Reads \cup Writes)
    BY <1>1, <2>3, <2>4, CopiesMembers
  <2>6. IsFiniteSet(Copies(b, Reads \cup Writes))
    BY <1>1, CopiesFinite
  <2>7. Cardinality(Copies(b, Reads \cup Writes)) # 0
    BY <2>5, <2>6, FS_EmptySet
  <2> QED
    BY <1>2, <1>3, <2>7 DEF Count
<1>5. Size(EmptyBag) = 0
  <2>1. Copies(EmptyBag, Reads \cup Writes) = {}
    BY DEF Copies, EmptyBag, SetToBag, BagToSet
  <2> QED
    BY <2>1, FS_EmptySet DEF Size
<1> QED
  BY <1>2, <1>3, <1>4, <1>5

LEMMA CountsUnion ==
  ASSUME NEW a, NEW b, FlightOK(a), FlightOK(b)
  PROVE  /\ Size(a (+) b) = Size(a) + Size(b)
         /\ Count(a (+) b, ActionCalls) = Count(a, ActionCalls) + Count(b, ActionCalls)
<1>1. IsFlight(a) /\ IsFlight(b)
  BY DEF FlightOK
<1> QED
  BY <1>1, CountUnion DEF Size, Count

LEMMA CountsWithout ==
  ASSUME NEW b, FlightOK(b), NEW r \in DOMAIN b
  PROVE  /\ Size(Without(b, r)) = Size(b) - 1
         /\ Count(Without(b, r), ActionCalls)
              = Count(b, ActionCalls) - (IF r.kind \in ActionCalls THEN 1 ELSE 0)
<1>1. IsFlight(b) /\ r.kind \in Reads \cup Writes
  BY DEF FlightOK, RequestOK, Request
<1> QED
  BY <1>1, CountWithout DEF Size, Count

LEMMA CountsOne ==
  ASSUME NEW r, r.kind \in Reads \cup Writes
  PROVE  /\ Size(SetToBag({r})) = 1
         /\ Count(SetToBag({r}), ActionCalls) = IF r.kind \in ActionCalls THEN 1 ELSE 0
BY CountOne DEF Size, Count

LEMMA BeginFields ==
  ASSUME NEW c \in Counters, NEW n \in Nat
  PROVE  LET new == beginRequests(c, n) IN
           /\ new \in Counters
           /\ new.pending = c.pending + n /\ new.actions = c.actions
           /\ new.loading <=> c.loading \/ (c.pending = 0 /\ n > 0)
<1> DEFINE loading == c.loading \/ (c.pending = 0 /\ n > 0)
           new == [c EXCEPT !.pending = @ + n, !.loading = loading]
<1>1. beginRequests(c, n) = new
  BY DEF beginRequests
<1>2. loading \in BOOLEAN
  OBVIOUS
<1>3. c.pending + n \in Nat
  BY DEF Counters
<1> HIDE DEF loading
<1>4. new \in Counters /\ new.pending = c.pending + n /\ new.actions = c.actions
      /\ new.loading = loading
  BY <1>2, <1>3 DEF Counters
<1> HIDE DEF new
<1> QED
  BY <1>1, <1>4 DEF loading

LEMMA EndFields ==
  ASSUME NEW c \in Counters, c.pending > 0
  PROVE  LET new == endRequest(c) IN
           /\ new \in Counters
           /\ new.pending = c.pending - 1 /\ new.actions = c.actions
           /\ new.loading <=> c.loading /\ c.pending # 1
<1> DEFINE left == Larger(0, c.pending - 1)
           loading == c.loading /\ left # 0
           new == [c EXCEPT !.pending = left, !.loading = loading]
<1>1. endRequest(c) = new
  BY DEF endRequest
<1>2. left = c.pending - 1 /\ left \in Nat /\ (left # 0 <=> c.pending # 1)
  BY DEF Larger, Counters
<1>3. loading \in BOOLEAN
  OBVIOUS
<1>4. loading <=> c.loading /\ c.pending # 1
  BY <1>2
<1> HIDE DEF loading, left
<1>5. new \in Counters /\ new.pending = left /\ new.actions = c.actions
      /\ new.loading = loading
  BY <1>2, <1>3 DEF Counters
<1> HIDE DEF new
<1> QED
  BY <1>1, <1>2, <1>4, <1>5

LEMMA ActionFields ==
  ASSUME NEW c \in Counters
  PROVE  /\ LET new == [c EXCEPT !.actions = @ + 1] IN
               /\ new \in Counters /\ new.actions = c.actions + 1
               /\ new.pending = c.pending /\ new.loading = c.loading
         /\ LET new == [c EXCEPT !.actions = Larger(0, @ - 1)] IN
               /\ new \in Counters /\ new.actions = IF c.actions = 0 THEN 0 ELSE c.actions - 1
               /\ new.pending = c.pending /\ new.loading = c.loading
BY DEF Counters, Larger

LEMMA BeginMatches ==
  ASSUME NEW c, NEW b, NEW requests, FlightOK(b), FlightOK(requests), CountersMatch(c, b)
  PROVE  CountersMatch(beginRequests(c, Size(requests)), b (+) requests)
<1>1. /\ Size(b) \in Nat /\ Count(b, ActionCalls) \in Nat
      /\ Size(requests) \in Nat /\ Count(requests, ActionCalls) \in Nat
  BY Counts
<1>2. /\ Size(b (+) requests) = Size(b) + Size(requests)
      /\ Count(b (+) requests, ActionCalls) = Count(b, ActionCalls) + Count(requests, ActionCalls)
  BY CountsUnion
<1> DEFINE n == Size(requests)
           new == beginRequests(c, n)
<1>3. /\ new \in Counters
      /\ new.pending = c.pending + n /\ new.actions = c.actions
      /\ new.loading <=> c.loading \/ (c.pending = 0 /\ n > 0)
  BY <1>1, BeginFields DEF CountersMatch
<1> HIDE DEF new
<1>4. c.pending \in Nat /\ c.actions \in Nat
  BY DEF CountersMatch, Counters
<1>5. new.loading <=> new.pending > 0
  BY <1>1, <1>3, <1>4 DEF CountersMatch
<1>6. new.pending = Size(b (+) requests) /\ new.actions <= Count(b (+) requests, ActionCalls)
  BY <1>1, <1>2, <1>3, <1>4 DEF CountersMatch
<1> QED
  BY <1>3, <1>5, <1>6, Zenon DEF new, n, CountersMatch

LEMMA BeginActionMatches ==
  ASSUME NEW c, NEW b, NEW kind \in ActionCalls, FlightOK(b), CountersMatch(c, b)
  PROVE  CountersMatch(beginActionRequest(c), b (+) SentByAnyone(kind))
<1> DEFINE sent == SentByAnyone(kind)
<1>1. FlightOK(sent)
  BY SentOK DEF Writes, Views, Lists, ActionCalls, AdminCalls
<1>2. Size(sent) = 1 /\ Count(sent, ActionCalls) = 1
  <2>1. SentByAnyone(kind) = SetToBag({New(kind, 0)})
    BY DEF SentByAnyone, Sent, New
  <2>2. New(kind, 0).kind = kind /\ kind \in Reads \cup Writes
    BY DEF New, Writes
  <2> QED
    BY <2>1, <2>2, CountsOne
<1> HIDE DEF sent
<1>3. Size(b) \in Nat /\ Count(b, ActionCalls) \in Nat
  BY Counts
<1>4. /\ Size(b (+) sent) = Size(b) + 1
      /\ Count(b (+) sent, ActionCalls) = Count(b, ActionCalls) + 1
  BY <1>1, <1>2, CountsUnion
<1> DEFINE new == beginActionRequest(c)
<1>5. /\ new \in Counters
      /\ new.pending = c.pending + 1 /\ new.actions = c.actions + 1
      /\ new.loading <=> c.loading \/ c.pending = 0
  <2> DEFINE more == [c EXCEPT !.actions = @ + 1]
  <2>1. /\ more \in Counters /\ more.actions = c.actions + 1
        /\ more.pending = c.pending /\ more.loading = c.loading
    BY ActionFields DEF CountersMatch
  <2> HIDE DEF more
  <2>2. new = beginRequests(more, 1)
    BY DEF beginActionRequest, more
  <2> HIDE DEF new
  <2> QED
    BY <2>1, <2>2, BeginFields
<1> HIDE DEF new
<1>6. CountersMatch(new, b (+) sent)
  <2>1. c.pending \in Nat /\ c.actions \in Nat
    BY DEF CountersMatch, Counters
  <2>2. new.loading <=> new.pending > 0
    BY <1>5, <2>1 DEF CountersMatch
  <2>3. new.pending = Size(b (+) sent) /\ new.actions <= Count(b (+) sent, ActionCalls)
    BY <1>3, <1>4, <1>5, <2>1 DEF CountersMatch
  <2> QED
    BY <1>5, <2>2, <2>3 DEF CountersMatch
<1> QED
  BY <1>6 DEF new, sent

LEMMA BeginOneMatches ==
  ASSUME NEW c, NEW b, NEW kind \in Writes, FlightOK(b), CountersMatch(c, b)
  PROVE  CountersMatch(beginRequests(c, 1), b (+) SentByAnyone(kind))
<1>1. FlightOK(SentByAnyone(kind))
  BY SentOK DEF Writes, Views, Lists, ActionCalls, AdminCalls
<1>2. Size(SentByAnyone(kind)) = 1
  <2>1. SentByAnyone(kind) = SetToBag({New(kind, 0)})
    BY DEF SentByAnyone, Sent, New
  <2>2. New(kind, 0).kind = kind
    BY DEF New
  <2> QED
    BY <2>1, <2>2, CountsOne
<1> QED
  BY <1>1, <1>2, BeginMatches

LEMMA EndMatches ==
  ASSUME NEW c, NEW b, NEW r \in DOMAIN b, FlightOK(b), CountersMatch(c, b),
         r.kind \in ActionCalls => c.actions = 0
  PROVE  CountersMatch(endRequest(c), Without(b, r))
<1>1. FlightOK(Without(b, r))
  BY WithoutFlightOK
<1>2. /\ Size(b) \in Nat /\ Count(b, ActionCalls) \in Nat
      /\ Size(Without(b, r)) \in Nat /\ Count(Without(b, r), ActionCalls) \in Nat
  BY <1>1, Counts
<1>3. /\ Size(Without(b, r)) = Size(b) - 1
      /\ Count(Without(b, r), ActionCalls)
           = Count(b, ActionCalls) - (IF r.kind \in ActionCalls THEN 1 ELSE 0)
  BY CountsWithout
<1> DEFINE new == endRequest(c)
<1>4. c.pending \in Nat /\ c.pending > 0 /\ c.actions \in Nat
  BY <1>2, <1>3 DEF CountersMatch, Counters
<1>6. /\ new \in Counters
      /\ new.pending = c.pending - 1 /\ new.actions = c.actions
      /\ new.loading <=> c.loading /\ c.pending # 1
  BY <1>4, EndFields DEF CountersMatch
<1> HIDE DEF new
<1>7. new.loading <=> new.pending > 0
  BY <1>4, <1>6 DEF CountersMatch
<1>8. new.pending = Size(Without(b, r)) /\ new.actions <= Count(Without(b, r), ActionCalls)
  BY <1>2, <1>3, <1>4, <1>6 DEF CountersMatch
<1> QED
  BY <1>6, <1>7, <1>8, Zenon DEF new, CountersMatch

LEMMA EndActionMatches ==
  ASSUME NEW c, NEW b, NEW r \in DOMAIN b, FlightOK(b), CountersMatch(c, b)
  PROVE  CountersMatch(endActionRequest(c), Without(b, r))
<1>1. FlightOK(Without(b, r))
  BY WithoutFlightOK
<1>2. /\ Size(b) \in Nat /\ Count(b, ActionCalls) \in Nat
      /\ Size(Without(b, r)) \in Nat /\ Count(Without(b, r), ActionCalls) \in Nat
  BY <1>1, Counts
<1>3. /\ Size(Without(b, r)) = Size(b) - 1
      /\ Count(Without(b, r), ActionCalls) >= Count(b, ActionCalls) - 1
  BY <1>2, CountsWithout
<1> DEFINE new == endActionRequest(c)
<1>4. c.pending \in Nat /\ c.pending > 0 /\ c.actions \in Nat
  BY <1>2, <1>3 DEF CountersMatch, Counters
<1>6. /\ new \in Counters
      /\ new.pending = c.pending - 1
      /\ new.actions = IF c.actions = 0 THEN 0 ELSE c.actions - 1
      /\ new.loading <=> c.loading /\ c.pending # 1
  <2> DEFINE less == [c EXCEPT !.actions = Larger(0, @ - 1)]
  <2>1. /\ less \in Counters /\ less.actions = IF c.actions = 0 THEN 0 ELSE c.actions - 1
        /\ less.pending = c.pending /\ less.loading = c.loading
    BY ActionFields DEF CountersMatch
  <2> HIDE DEF less
  <2>2. new = endRequest(less)
    BY DEF endActionRequest, less
  <2> HIDE DEF new
  <2> QED
    BY <1>4, <2>1, <2>2, EndFields
<1> HIDE DEF new
<1>7. new.loading <=> new.pending > 0
  BY <1>4, <1>6 DEF CountersMatch
<1>8. new.pending = Size(Without(b, r)) /\ new.actions <= Count(Without(b, r), ActionCalls)
  BY <1>2, <1>3, <1>4, <1>6 DEF CountersMatch
<1> QED
  BY <1>6, <1>7, <1>8, Zenon DEF new, CountersMatch

-----------------------------------------------------------------------------
(* What every reachable state has.  The bound of a view's figures is that  *)
(* of the reads, which is why the kinds say whose the reads are.           *)
ViewsTyped ==
  /\ views = [v \in Views |-> views[v]]
  /\ \A v \in Views : views[v].version \in 0..MaxEvents
  /\ \A v \in Lists : views[v].of \in 0..MaxEvents
  /\ views["slots"].of \in Gyms \cup {NoGym}

RestTyped ==
  /\ selected \in Gyms \cup {NoGym}
  /\ gymsLoaded \in BOOLEAN
  /\ session \in 0..MaxEvents
  /\ screen \in {"auth", "waiting", "gym"}
  /\ version \in 0..MaxEvents
  /\ excused \subseteq Views

CountersInv ==
  /\ FlightOK(flight)
  /\ CountersMatch(counters, flight)
  /\ ViewsTyped
  /\ RestTyped

LEMMA NoViewsTyped ==
  ASSUME views = [v \in Views |-> NoView(v)]
  PROVE  ViewsTyped
<1>1. 0 \in 0..MaxEvents
  BY ClientAssumption
<1>2. \A v \in Views : views[v] = NoView(v)
  OBVIOUS
<1>3. views = [v \in Views |-> views[v]]
  OBVIOUS
<1> QED
  BY <1>1, <1>2, <1>3 DEF ViewsTyped, NoView, Views, Lists

LEMMA InitCountersInv == Init => CountersInv
<1> SUFFICES ASSUME Init PROVE CountersInv
  OBVIOUS
<1>1. FlightOK(flight)
  BY SentOK DEF Init
<1>2. CountersMatch(counters, flight)
  <2>1. Size(flight) \in Nat /\ ~(Size(flight) > 0) /\ Count(flight, ActionCalls) \in Nat
    BY <1>1, Counts DEF Init
  <2>2. counters = [pending |-> 0, actions |-> 0, loading |-> FALSE]
    BY DEF Init
  <2>3. /\ counters.pending = 0 /\ counters.actions = 0 /\ ~counters.loading
        /\ counters \in Counters
    BY <2>2 DEF Counters
  <2> QED
    BY <2>1, <2>3 DEF CountersMatch
<1>3. ViewsTyped
  BY NoViewsTyped DEF Init
<1>4. RestTyped
  <2>1. 0 \in 0..MaxEvents
    BY ClientAssumption
  <2> QED
    BY <2>1 DEF Init, RestTyped
<1> QED
  BY <1>1, <1>2, <1>3, <1>4 DEF CountersInv

(* Requests come, and no reply does.                                       *)
Grows ==
  /\ DOMAIN flight \subseteq DOMAIN flight'
  /\ \A q \in DOMAIN flight' : q \in DOMAIN flight \/ ~q.served

LEMMA AskKeeps ==
  ASSUME CountersInv, NEW requests, FlightOK(requests), Unserved(requests), Ask(requests)
  PROVE  /\ FlightOK(flight)' /\ CountersMatch(counters, flight)'
         /\ DOMAIN requests \subseteq DOMAIN flight' /\ Grows
<1>1. FlightOK(flight (+) requests) /\ DOMAIN (flight (+) requests) = DOMAIN flight \cup DOMAIN requests
  BY UnionFlightOK DEF CountersInv
<1>2. CountersMatch(beginRequests(counters, Size(requests)), flight (+) requests)
  BY BeginMatches DEF CountersInv
<1>3. flight' = flight (+) requests /\ counters' = beginRequests(counters, Size(requests))
  BY DEF Ask
<1> QED
  BY <1>1, <1>2, <1>3 DEF Grows, Unserved

LEMMA BeginSteps ==
  ASSUME CountersInv, login \/ authError \/ clearUserState
  PROVE  CountersInv'
<1>1. CASE login
  BY <1>1 DEF login, CountersInv, ViewsTyped, RestTyped
<1>2. CASE authError
  BY <1>2 DEF authError, CountersInv, ViewsTyped, RestTyped
<1>3. CASE clearUserState
  <2>1. ViewsTyped'
    <3>1. views' = [v \in Views |-> NoView(v)]
      BY <1>3 DEF clearUserState
    <3>2. 0 \in 0..MaxEvents
      BY ClientAssumption
    <3>3. \A v \in Views : views'[v] = NoView(v)
      BY <3>1
    <3> QED
      BY <3>1, <3>2, <3>3 DEF ViewsTyped, NoView, Views, Lists
  <2>2. FlightOK(flight)' /\ CountersMatch(counters, flight)'
    BY <1>3 DEF clearUserState, CountersInv
  <2>3. RestTyped'
    BY <1>3 DEF clearUserState, CountersInv, RestTyped
  <2> QED
    BY <2>1, <2>2, <2>3 DEF CountersInv
<1> QED
  BY <1>1, <1>2, <1>3

LEMMA AuthStep ==
  ASSUME CountersInv, authFinished
  PROVE  /\ CountersInv' /\ Grows
         /\ {New("bookedIds", session'), New("queuedIds", session')} \subseteq DOMAIN flight'
<1> DEFINE figures == init(session') (+) SentByAnyone("figures")
           all == figures (+) Sent("bookedIds", session')
<1>1. session' \in 0..MaxEvents
  <2>1. version \in Nat /\ session \in Nat /\ version + session < MaxEvents /\ session' = session + 1
    BY ClientAssumption DEF authFinished, CountersInv, RestTyped
  <2> QED
    BY <2>1, ClientAssumption
<1>2. /\ FlightOK(init(session')) /\ Unserved(init(session'))
      /\ New("queuedIds", session') \in DOMAIN init(session')
  BY <1>1, InitOK
<1>3. /\ FlightOK(SentByAnyone("figures")) /\ Unserved(SentByAnyone("figures"))
      /\ FlightOK(Sent("bookedIds", session')) /\ Unserved(Sent("bookedIds", session'))
      /\ DOMAIN Sent("bookedIds", session') = {New("bookedIds", session')}
  BY <1>1, SentOK DEF Reads, Views, Lists
<1>4. /\ FlightOK(figures) /\ Unserved(figures)
      /\ DOMAIN init(session') \subseteq DOMAIN figures
  BY <1>2, <1>3, UnionUnserved
<1> HIDE DEF figures
<1>5. /\ FlightOK(all) /\ Unserved(all)
      /\ DOMAIN all = DOMAIN figures \cup {New("bookedIds", session')}
  BY <1>3, <1>4, UnionUnserved
<1>6. Ask(all)
  BY DEF authFinished, figures
<1> HIDE DEF all
<1>7. /\ FlightOK(flight)' /\ CountersMatch(counters, flight)'
      /\ DOMAIN all \subseteq DOMAIN flight' /\ Grows
  BY <1>5, <1>6, AskKeeps
<1>8. ViewsTyped' /\ RestTyped'
  BY <1>1 DEF authFinished, CountersInv, ViewsTyped, RestTyped
<1>9. CountersInv'
  BY <1>7, <1>8 DEF CountersInv
<1> QED
  BY <1>2, <1>4, <1>5, <1>7, <1>9

LEMMA SelectStep ==
  ASSUME CountersInv, NEW g \in Gyms, selectGym(g)
  PROVE  CountersInv' /\ Grows /\ New("slots", g) \in DOMAIN flight'
<1>1. /\ FlightOK(loadSlots(g, session)) /\ Unserved(loadSlots(g, session))
      /\ Rereads(loadSlots(g, session), g, session)
  BY LoadSlotsOK DEF CountersInv, RestTyped
<1>2. /\ FlightOK(flight)' /\ CountersMatch(counters, flight)'
      /\ DOMAIN loadSlots(g, session) \subseteq DOMAIN flight' /\ Grows
  BY <1>1, AskKeeps DEF selectGym
<1>3. ViewsTyped' /\ RestTyped'
  BY DEF selectGym, CountersInv, ViewsTyped, RestTyped
<1> QED
  BY <1>1, <1>2, <1>3 DEF CountersInv, Rereads

LEMMA RefreshStep ==
  ASSUME CountersInv, refresh
  PROVE  CountersInv' /\ Grows
<1>1. /\ FlightOK(init(session)) /\ Unserved(init(session))
      /\ FlightOK(loadSlots(selected, session)) /\ Unserved(loadSlots(selected, session))
      /\ FlightOK(SentByAnyone("figures")) /\ Unserved(SentByAnyone("figures"))
  BY InitOK, LoadSlotsOK, SentOK DEF CountersInv, RestTyped, Reads, Views, Lists
<1>2. FlightOK(flight)' /\ CountersMatch(counters, flight)' /\ Grows
  <2>1. CASE Ask(init(session))
    BY <1>1, <2>1, AskKeeps
  <2>2. CASE Ask(loadSlots(selected, session))
    BY <1>1, <2>2, AskKeeps
  <2>3. CASE Ask(SentByAnyone("figures"))
    BY <1>1, <2>3, AskKeeps
  <2> QED
    BY <2>1, <2>2, <2>3 DEF refresh
<1>3. ViewsTyped' /\ RestTyped'
  BY DEF refresh, CountersInv, ViewsTyped, RestTyped
<1> QED
  BY <1>2, <1>3 DEF CountersInv

LEMMA WriteStep ==
  ASSUME CountersInv, NEW kind \in Calls, write(kind)
  PROVE  CountersInv' /\ Grows
<1>1. kind \in Writes
  BY CallsAssumption
<1>2. FlightOK(SentByAnyone(kind)) /\ Unserved(SentByAnyone(kind))
  BY <1>1, SentOK DEF Writes, Views, Lists, ActionCalls, AdminCalls
<1>3. flight' = flight (+) SentByAnyone(kind)
  BY DEF write
<1>4. FlightOK(flight)' /\ Grows
  <2>1. /\ FlightOK(flight (+) SentByAnyone(kind))
        /\ DOMAIN (flight (+) SentByAnyone(kind)) = DOMAIN flight \cup DOMAIN SentByAnyone(kind)
    BY <1>2, UnionFlightOK DEF CountersInv
  <2> QED
    BY <1>2, <1>3, <2>1 DEF Grows, Unserved
<1>5. CountersMatch(counters, flight)'
  <2>1. CASE kind \in ActionCalls
    <3>1. counters' = beginActionRequest(counters)
      BY <2>1 DEF write
    <3> QED
      BY <1>3, <2>1, <3>1, BeginActionMatches DEF CountersInv
  <2>2. CASE kind \notin ActionCalls
    <3>1. counters' = beginRequests(counters, 1)
      BY <2>2 DEF write
    <3> QED
      BY <1>1, <1>3, <3>1, BeginOneMatches DEF CountersInv
  <2> QED
    BY <2>1, <2>2
<1>6. ViewsTyped' /\ RestTyped'
  BY DEF write, CountersInv, ViewsTyped, RestTyped
<1> QED
  BY <1>4, <1>5, <1>6 DEF CountersInv

(* The server handles one copy of a request: one copy goes, one comes.     *)
Served(r, after) ==
  [r EXCEPT !.served = TRUE, !.version = IF r.kind \in Views THEN after ELSE 0]

LEMMA ServedFields ==
  ASSUME NEW r \in Request, NEW after
  PROVE  LET new == Served(r, after) IN
           /\ new.kind = r.kind /\ new.of = r.of /\ new.served = TRUE
           /\ new.version = IF r.kind \in Views THEN after ELSE 0
BY DEF Served, Request

LEMMA ServeStep ==
  ASSUME CountersInv, NEW r \in DOMAIN flight, serve(r)
  PROVE  /\ CountersInv'
         /\ version' = IF r.kind \in ViewWrites THEN version + 1 ELSE version
         /\ DOMAIN flight' = DOMAIN Without(flight, r) \cup {Served(r, version')}
<1>1. version' = IF r.kind \in ViewWrites THEN version + 1 ELSE version
  BY DEF serve
<1>2. version' \in 0..MaxEvents
  <2>1. version' + session <= MaxEvents
    BY <1>1 DEF serve
  <2>2. version \in Nat /\ session \in Nat /\ version' \in Nat
    BY <1>1, ClientAssumption DEF CountersInv, RestTyped
  <2>3. \A m, n \in Nat : m + n <= MaxEvents => m \in 0..MaxEvents
    BY ClientAssumption
  <2> QED
    BY <2>1, <2>2, <2>3
<1> DEFINE new == Served(r, version')
<1>3. RequestOK(r) /\ r \in Request
  BY DEF CountersInv, FlightOK, RequestOK
<1>4. new.kind = r.kind /\ RequestOK(new)
  <2>1. /\ new.kind = r.kind /\ new.of = r.of /\ new.served = TRUE
        /\ new.version = IF r.kind \in Views THEN version' ELSE 0
    BY <1>3, ServedFields
  <2>2. new.version \in 0..MaxEvents
    BY <1>2, <2>1, ClientAssumption
  <2>3. new \in Request
    <3>1. new = [r EXCEPT !.served = TRUE, !.version = new.version]
      BY <2>1 DEF Served
    <3> HIDE DEF new
    <3> QED
      BY <1>3, <2>2, <3>1 DEF Request
  <2> QED
    BY <1>3, <2>1, <2>3 DEF RequestOK
<1>5. flight' = Without(flight, r) (+) SetToBag({new})
  BY <1>1 DEF serve, Served, Without
<1> HIDE DEF new
<1>6. FlightOK(SetToBag({new})) /\ DOMAIN SetToBag({new}) = {new}
  BY <1>4, OneIsFlight DEF FlightOK
<1>7. FlightOK(Without(flight, r)) /\ FlightOK(flight)
  BY WithoutFlightOK DEF CountersInv
<1>8. FlightOK(flight)' /\ DOMAIN flight' = DOMAIN Without(flight, r) \cup {new}
  BY <1>5, <1>6, <1>7, UnionFlightOK
<1>9. Size(flight') = Size(flight) /\ Count(flight', ActionCalls) = Count(flight, ActionCalls)
  <2>1. /\ Size(flight') = Size(Without(flight, r)) + Size(SetToBag({new}))
        /\ Count(flight', ActionCalls)
             = Count(Without(flight, r), ActionCalls) + Count(SetToBag({new}), ActionCalls)
    BY <1>5, <1>6, <1>7, CountsUnion
  <2>2. /\ Size(Without(flight, r)) = Size(flight) - 1
        /\ Count(Without(flight, r), ActionCalls)
             = Count(flight, ActionCalls) - (IF r.kind \in ActionCalls THEN 1 ELSE 0)
    BY <1>7, CountsWithout
  <2>3. /\ Size(SetToBag({new})) = 1
        /\ Count(SetToBag({new}), ActionCalls) = IF r.kind \in ActionCalls THEN 1 ELSE 0
    BY <1>3, <1>4, CountsOne DEF Request
  <2>4. Size(flight) \in Nat /\ Count(flight, ActionCalls) \in Nat
    BY <1>7, Counts
  <2> QED
    BY <2>1, <2>2, <2>3, <2>4
<1>10. CountersMatch(counters, flight)'
  BY <1>9 DEF serve, CountersInv, CountersMatch
<1>11. ViewsTyped' /\ RestTyped'
  BY <1>2 DEF serve, CountersInv, ViewsTyped, RestTyped
<1> QED
  BY <1>1, <1>8, <1>10, <1>11 DEF CountersInv, new

LEMMA LoadedStep ==
  ASSUME CountersInv, NEW r \in DOMAIN flight, onLoaded(r) \/ onOtherLoaded(r)
  PROVE  CountersInv' /\ flight' = Without(flight, r)
<1>1. flight' = Without(flight, r) /\ counters' = endRequest(counters)
  BY DEF onLoaded, onOtherLoaded, Without
<1>2. r.kind \notin ActionCalls
  BY DEF onLoaded, onOtherLoaded, Reads, Views, Lists, ActionCalls, AdminCalls
<1>3. FlightOK(flight)' /\ CountersMatch(counters, flight)'
  BY <1>1, <1>2, WithoutFlightOK, EndMatches DEF CountersInv
<1>4. RestTyped'
  BY DEF onLoaded, onOtherLoaded, CountersInv, RestTyped
<1>5. ViewsTyped'
  <2>1. CASE onOtherLoaded(r)
    BY <2>1 DEF onOtherLoaded, CountersInv, ViewsTyped
  <2>2. CASE onLoaded(r)
    <3> DEFINE reply == [of |-> r.of, version |-> r.version]
    <3>1. views' = [views EXCEPT ![r.kind] = reply] /\ r.kind \in Views
      BY <2>2 DEF onLoaded
    <3>2. RequestOK(r) /\ reply.of = r.of /\ reply.version = r.version
      BY DEF CountersInv, FlightOK
    <3> HIDE DEF reply
    <3>3. views = [v \in Views |-> views[v]]
      BY DEF CountersInv, ViewsTyped
    <3>4. /\ views' = [v \in Views |-> views'[v]]
          /\ \A v \in Views : views'[v] = IF v = r.kind THEN reply ELSE views[v]
      BY <3>1, <3>3
    <3> QED
      BY <3>1, <3>2, <3>4 DEF CountersInv, ViewsTyped, RequestOK, Request, Views, Lists
  <2> QED
    BY <2>1, <2>2
<1> QED
  BY <1>1, <1>3, <1>4, <1>5 DEF CountersInv

LEMMA WrittenStep ==
  ASSUME CountersInv, NEW r \in DOMAIN flight, onWritten(r)
  PROVE  /\ CountersInv'
         /\ DOMAIN Without(flight, r) \subseteq DOMAIN flight'
         /\ \A q \in DOMAIN flight' : q \in DOMAIN flight \/ ~q.served
         /\ r.kind \in ViewWrites => Rereads(flight', selected, session)
<1> DEFINE left == Without(flight, r)
           ended == IF r.kind \in ActionCalls THEN endActionRequest(counters)
                                              ELSE endRequest(counters)
<1>1. PICK requests \in FollowUps(r.kind) :
        flight' = left (+) requests /\ counters' = beginRequests(ended, Size(requests))
  BY DEF onWritten, Without
<1>2. /\ FlightOK(requests) /\ Unserved(requests)
      /\ r.kind \in ViewWrites => Rereads(requests, selected, session)
  BY FollowUpsOK DEF onWritten, CountersInv, RestTyped
<1>3. FlightOK(left) /\ DOMAIN left \subseteq DOMAIN flight
  BY WithoutFlightOK DEF CountersInv
<1>4. CountersMatch(ended, left)
  BY EndMatches, EndActionMatches DEF CountersInv
<1> HIDE DEF left, ended
<1>5. FlightOK(flight)' /\ DOMAIN flight' = DOMAIN left \cup DOMAIN requests
  <2>1. FlightOK(left (+) requests) /\ DOMAIN (left (+) requests) = DOMAIN left \cup DOMAIN requests
    BY <1>2, <1>3, UnionFlightOK
  <2> QED
    BY <1>1, <2>1
<1>6. CountersMatch(counters, flight)'
  BY <1>1, <1>2, <1>3, <1>4, BeginMatches
<1>7. ViewsTyped' /\ RestTyped'
  BY DEF onWritten, CountersInv, ViewsTyped, RestTyped
<1>8. CountersInv'
  BY <1>5, <1>6, <1>7 DEF CountersInv
<1> QED
  BY <1>2, <1>3, <1>5, <1>8 DEF Rereads, Unserved, left

LEMMA ErrorStep ==
  ASSUME CountersInv, NEW r \in DOMAIN flight, onApiError(r)
  PROVE  CountersInv' /\ flight' = Without(flight, r)
<1>1. flight' = Without(flight, r)
  BY DEF onApiError, Without
<1>2. CountersMatch(counters, flight)'
  <2>1. CASE counters.actions > 0
    <3>1. counters' = endActionRequest(counters)
      BY <2>1 DEF onApiError
    <3> QED
      BY <1>1, <3>1, EndActionMatches DEF CountersInv
  <2>2. CASE ~(counters.actions > 0)
    <3>1. counters' = endRequest(counters)
      BY <2>2 DEF onApiError
    <3>2. counters.actions = 0
      BY <2>2 DEF CountersInv, CountersMatch, Counters
    <3> QED
      BY <1>1, <3>1, <3>2, EndMatches DEF CountersInv
  <2> QED
    BY <2>1, <2>2
<1>3. FlightOK(flight)'
  BY <1>1, WithoutFlightOK DEF CountersInv
<1>4. ViewsTyped' /\ RestTyped'
  <2>1. excused' \subseteq Views
    BY DEF onApiError, CountersInv, RestTyped
  <2> QED
    BY <2>1 DEF onApiError, CountersInv, ViewsTyped, RestTyped
<1> QED
  BY <1>1, <1>2, <1>3, <1>4 DEF CountersInv

LEMMA NextCountersInv == CountersInv /\ [Next]_vars => CountersInv'
<1> SUFFICES ASSUME CountersInv, [Next]_vars PROVE CountersInv'
  OBVIOUS
<1>1. CASE UNCHANGED vars
  BY <1>1 DEF vars, CountersInv, ViewsTyped, RestTyped
<1>2. CASE login \/ authError \/ clearUserState
  BY <1>2, BeginSteps
<1>3. CASE authFinished
  BY <1>3, AuthStep
<1>4. CASE \E g \in Gyms : selectGym(g)
  BY <1>4, SelectStep
<1>5. CASE refresh
  BY <1>5, RefreshStep
<1>6. CASE \E kind \in Calls : write(kind)
  BY <1>6, WriteStep
<1>7. CASE \E r \in BagToSet(flight) :
             serve(r) \/ onLoaded(r) \/ onOtherLoaded(r) \/ onWritten(r) \/ onApiError(r)
  BY <1>7, ServeStep, LoadedStep, WrittenStep, ErrorStep DEF BagToSet
<1> QED
  BY <1>1, <1>2, <1>3, <1>4, <1>5, <1>6, <1>7 DEF Next

LEMMA CountersInvariance == Spec => []CountersInv
BY InitCountersInv, NextCountersInv, PTL DEF Spec

(* The state keeps its types, whatever is sent and answered.               *)
THEOREM Types == Spec => []TypeOK
<1>1. CountersInv => TypeOK
  <2> SUFFICES ASSUME CountersInv PROVE TypeOK
    OBVIOUS
  <2>1. BagToSet(flight) \subseteq Request
    BY DEF CountersInv, FlightOK, RequestOK, BagToSet
  <2>2. counters \in [pending : Nat, actions : Nat, loading : BOOLEAN]
    BY DEF CountersInv, CountersMatch, Counters
  <2> QED
    BY <2>1, <2>2 DEF CountersInv, ViewsTyped, RestTyped, TypeOK
<1> QED
  BY <1>1, CountersInvariance, PTL

(* The client says it is loading exactly while a request has no reply, and *)
(* never has more actions pending than are in flight, for any number of    *)
(* requests in flight, through errors and logouts                          *)
(* (GymModelView.cpp:75-104, 393-401).                                     *)
THEOREM CountersAreExact == Spec => []CountersAreSound
<1>1. CountersInv => CountersAreSound
  <2> SUFFICES ASSUME CountersInv PROVE LoadingWhileInFlight /\ ActionsArePending
    BY DEF CountersAreSound
  <2>1. Size(flight) > 0 <=> flight # EmptyBag
    BY Counts DEF CountersInv
  <2> QED
    BY <2>1, Zenon DEF CountersInv, CountersMatch, LoadingWhileInFlight, ActionsArePending, Count
<1> QED
  BY <1>1, CountersInvariance, PTL

-----------------------------------------------------------------------------
(* A view that does not show what the server has is going to: something in *)
(* flight promises it, a read of the right list that the server has not    *)
(* served before its last change, or a change that is served and makes the *)
(* client read everything again.  When nothing is in flight, no promise is *)
(* left.                                                                   *)
Whose(v) == IF v = "slots" THEN selected ELSE session

Promises(r, v, of, current) ==
  \/ r.kind = v /\ r.of = of /\ (r.served => r.version = current)
  \/ r.kind \in ViewWrites /\ r.served

Fresh(v) ==
  \/ v \in excused
  \/ views[v] = Current(v)
  \/ v = "slots" /\ selected = NoGym
  \/ \E r \in DOMAIN flight : Promises(r, v, Whose(v), version)

ViewsInv ==
  /\ \A r \in DOMAIN flight : r.served => r.version <= version
  /\ \A v \in Views : views[v].version <= version
  /\ screen # "gym" => selected = NoGym
  /\ screen = "gym" => \A v \in Views : Fresh(v)

LEMMA CurrentIs ==
  ASSUME NEW v
  PROVE  Current(v) = [of |-> Whose(v), version |-> version]
BY DEF Current, Whose

LEMMA InitViewsInv == Init => ViewsInv
<1> SUFFICES ASSUME Init PROVE ViewsInv
  OBVIOUS
<1>1. DOMAIN flight = {}
  BY OneIsFlight DEF Init
<1>2. \A v \in Views : views[v].version = 0 /\ version = 0
  BY DEF Init, NoView
<1> QED
  BY <1>1, <1>2 DEF Init, ViewsInv

(* While requests are only added, whatever was promised still is.          *)
LEMMA GrowthKeepsViews ==
  ASSUME CountersInv, ViewsInv, Grows, UNCHANGED << selected, views, session, screen, version, excused >>
  PROVE  ViewsInv'
<1>1. \A v \in Views : Fresh(v) => Fresh(v)'
  <2> SUFFICES ASSUME NEW v \in Views, Fresh(v) PROVE Fresh(v)'
    OBVIOUS
  <2>1. Current(v)' = Current(v) /\ Whose(v)' = Whose(v) /\ version' = version
    BY DEF Current, Whose
  <2> QED
    BY <2>1 DEF Fresh, Grows
<1> QED
  BY <1>1 DEF ViewsInv, Grows

LEMMA AuthViews ==
  ASSUME CountersInv, ViewsInv, authFinished
  PROVE  ViewsInv'
<1>1. Grows /\ {New("bookedIds", session'), New("queuedIds", session')} \subseteq DOMAIN flight'
  BY AuthStep
<1>2. selected' = NoGym /\ screen' = "gym" /\ UNCHANGED << selected, views, version, excused >>
  BY DEF authFinished, ViewsInv
<1>3. ASSUME NEW v \in Lists PROVE \E r \in DOMAIN flight' : Promises(r, v, Whose(v)', version')
  <2>1. New(v, session') \in DOMAIN flight'
    BY <1>1, <1>3 DEF Lists
  <2>2. Promises(New(v, session'), v, Whose(v)', version')
    BY <1>3 DEF Promises, New, Whose, Lists
  <2> QED
    BY <2>1, <2>2
<1>4. \A v \in Views : Fresh(v)'
  BY <1>2, <1>3 DEF Fresh, Views
<1> QED
  BY <1>1, <1>2, <1>4 DEF ViewsInv, Grows

LEMMA SelectViews ==
  ASSUME CountersInv, ViewsInv, NEW g \in Gyms, selectGym(g)
  PROVE  ViewsInv'
<1>1. Grows /\ New("slots", g) \in DOMAIN flight'
  BY SelectStep
<1>2. selected' = g /\ screen = "gym" /\ UNCHANGED << views, session, screen, version, excused >>
  BY DEF selectGym, CanCall
<1>3. Fresh("slots")'
  <2>1. Promises(New("slots", g), "slots", Whose("slots")', version')
    BY <1>2 DEF Promises, New, Whose
  <2> QED
    BY <1>1, <2>1 DEF Fresh
<1>4. ASSUME NEW v \in Lists PROVE Fresh(v)'
  <2>1. v # "slots" /\ v \in Views /\ Fresh(v)
    BY <1>2 DEF Lists, Views, ViewsInv
  <2>2. Current(v)' = Current(v) /\ Whose(v)' = Whose(v) /\ version' = version
    BY <1>2, <2>1 DEF Current, Whose
  <2> QED
    BY <1>1, <1>2, <2>1, <2>2 DEF Fresh, Grows
<1> QED
  BY <1>1, <1>2, <1>3, <1>4 DEF ViewsInv, Grows, Views

LEMMA ServeViews ==
  ASSUME CountersInv, ViewsInv, NEW r \in DOMAIN flight, serve(r)
  PROVE  ViewsInv'
<1> DEFINE new == Served(r, version')
<1>1. /\ version' = IF r.kind \in ViewWrites THEN version + 1 ELSE version
      /\ DOMAIN flight' = DOMAIN Without(flight, r) \cup {new}
      /\ version' \in 0..MaxEvents
  BY ServeStep DEF CountersInv, RestTyped
<1>2. /\ DOMAIN Without(flight, r) \subseteq DOMAIN flight
      /\ \A q \in DOMAIN flight : q # r => q \in DOMAIN flight'
      /\ new \in DOMAIN flight'
  BY <1>1, WithoutFlightOK DEF CountersInv
<1>3. /\ new.kind = r.kind /\ new.of = r.of /\ new.served = TRUE
      /\ new.version = IF r.kind \in Views THEN version' ELSE 0
  BY ServedFields DEF CountersInv, FlightOK, RequestOK
<1>4. /\ version \in Nat /\ version' \in Nat /\ version <= version'
      /\ \A q \in DOMAIN flight : q.version \in Nat
      /\ \A v \in Views : views[v].version \in Nat
  <2>1. version \in Nat
    BY ClientAssumption DEF CountersInv, RestTyped
  <2>2. \A q \in DOMAIN flight : q.version \in Nat
    BY ClientAssumption DEF CountersInv, FlightOK, RequestOK, Request
  <2>3. \A v \in Views : views[v].version \in Nat
    BY ClientAssumption DEF CountersInv, ViewsTyped
  <2> QED
    BY <1>1, <2>1, <2>2, <2>3
<1>5. ~r.served /\ UNCHANGED << selected, views, session, screen, excused >>
  BY DEF serve
<1> HIDE DEF new
<1>6. \A q \in DOMAIN flight' : q.served => q.version <= version'
  <2> SUFFICES ASSUME NEW q \in DOMAIN flight', q.served PROVE q.version <= version'
    OBVIOUS
  <2>1. CASE q = new
    BY <1>3, <1>4, <2>1
  <2>2. CASE q \in DOMAIN flight
    BY <1>4, <2>2 DEF ViewsInv
  <2> QED
    BY <1>1, <1>2, <2>1, <2>2
<1>7. \A v \in Views : views'[v].version <= version'
  BY <1>4, <1>5 DEF ViewsInv
<1>8. ASSUME NEW v \in Views, Fresh(v) PROVE Fresh(v)'
  <2>1. CASE r.kind \in ViewWrites
    <3>1. Promises(new, v, Whose(v)', version')
      BY <1>3, <2>1 DEF Promises
    <3> QED
      BY <1>2, <3>1 DEF Fresh
  <2>2. CASE r.kind \notin ViewWrites
    <3>1. version' = version
      BY <1>1, <2>2
    <3>2. Current(v)' = Current(v) /\ Whose(v)' = Whose(v) /\ version' = version
      BY <1>5, <3>1 DEF Current, Whose
    <3>3. Promises(r, v, Whose(v), version) => Promises(new, v, Whose(v)', version')
      BY <1>3, <1>5, <2>2, <3>1 DEF Promises, Whose
    <3> QED
      BY <1>2, <1>5, <1>8, <3>2, <3>3 DEF Fresh
  <2> QED
    BY <2>1, <2>2
<1> QED
  BY <1>5, <1>6, <1>7, <1>8 DEF ViewsInv

LEMMA LoadedViews ==
  ASSUME CountersInv, ViewsInv, NEW r \in DOMAIN flight, onLoaded(r)
  PROVE  ViewsInv'
<1> DEFINE reply == [of |-> r.of, version |-> r.version]
<1>1. /\ DOMAIN flight' \subseteq DOMAIN flight
      /\ \A q \in DOMAIN flight : q # r => q \in DOMAIN flight'
  BY LoadedStep, WithoutFlightOK DEF CountersInv
<1>2. /\ r.kind \in Views /\ r.served
      /\ views' = [views EXCEPT ![r.kind] = reply]
      /\ UNCHANGED << selected, session, screen, version >>
  BY DEF onLoaded
<1>3. \A v \in Views : views'[v] = IF v = r.kind THEN reply ELSE views[v]
  <2>1. views = [v \in Views |-> views[v]]
    BY DEF CountersInv, ViewsTyped
  <2> HIDE DEF reply
  <2> QED
    BY <1>2, <2>1
<1>4. reply.version = r.version /\ r.version <= version
  BY <1>2 DEF ViewsInv
<1>5. excused' = IF reply = Current(r.kind) THEN excused \ {r.kind}
                 ELSE IF r.of # Current(r.kind).of \/ r.version < views[r.kind].version
                 THEN excused \cup {r.kind} ELSE excused
  BY DEF onLoaded
<1>6. \A v : Current(v)' = Current(v) /\ Whose(v)' = Whose(v) /\ version' = version
  BY <1>2 DEF Current, Whose
<1>7. \A v : Current(v) = [of |-> Whose(v), version |-> version]
  BY CurrentIs
<1>8. ASSUME NEW v \in Views, v # r.kind, Fresh(v) PROVE Fresh(v)'
  <2>1. ~Promises(r, v, Whose(v), version)
    BY <1>2, <1>8 DEF Promises, Views, Lists, ViewWrites, Writes, ActionCalls, AdminCalls
  <2>2. views'[v] = views[v] /\ (v \in excused => v \in excused')
    BY <1>3, <1>5, <1>8
  <2> QED
    BY <1>1, <1>2, <1>6, <1>8, <2>1, <2>2 DEF Fresh
<1>9. ASSUME Fresh(r.kind) PROVE Fresh(r.kind)'
  <2>1. views'[r.kind] = reply
    BY <1>2, <1>3
  <2>2. CASE reply = Current(r.kind)
    BY <1>6, <2>1, <2>2 DEF Fresh
  <2>3. CASE /\ reply # Current(r.kind)
             /\ r.of # Current(r.kind).of \/ r.version < views[r.kind].version
    BY <1>5, <2>3 DEF Fresh
  <2>4. CASE /\ reply # Current(r.kind)
             /\ ~(r.of # Current(r.kind).of \/ r.version < views[r.kind].version)
    <3>1. r.of = Whose(r.kind) /\ r.version # version
      BY <1>7, <2>4
    <3>2. /\ r.version \in Nat /\ version \in Nat /\ views[r.kind].version \in Nat
      BY <1>2, ClientAssumption
         DEF CountersInv, FlightOK, RequestOK, Request, ViewsTyped, RestTyped
    <3>3. views[r.kind] # Current(r.kind)
      <4>1. Current(r.kind).version = version
        BY <1>7
      <4> QED
        BY <1>4, <2>4, <3>1, <3>2, <4>1
    <3>4. ~Promises(r, r.kind, Whose(r.kind), version)
      BY <1>2, <3>1 DEF Promises, Views, Lists, ViewWrites, Writes, ActionCalls, AdminCalls
    <3>5. excused' = excused
      BY <1>5, <2>4
    <3> QED
      BY <1>1, <1>2, <1>6, <1>9, <3>3, <3>4, <3>5 DEF Fresh
  <2> QED
    BY <2>2, <2>3, <2>4
<1>10. \A v \in Views : views'[v].version <= version'
  BY <1>2, <1>3, <1>4 DEF ViewsInv
<1> QED
  BY <1>1, <1>2, <1>8, <1>9, <1>10 DEF ViewsInv

LEMMA OtherLoadedViews ==
  ASSUME CountersInv, ViewsInv, NEW r \in DOMAIN flight, onOtherLoaded(r)
  PROVE  ViewsInv'
<1>1. /\ DOMAIN flight' \subseteq DOMAIN flight
      /\ \A q \in DOMAIN flight : q # r => q \in DOMAIN flight'
  BY LoadedStep, WithoutFlightOK DEF CountersInv
<1>2. /\ r.kind \in Reads \ Views
      /\ UNCHANGED << selected, views, session, screen, version, excused >>
  BY DEF onOtherLoaded
<1>3. ASSUME NEW v \in Views, Fresh(v) PROVE Fresh(v)'
  <2>1. ~Promises(r, v, Whose(v), version)
    BY <1>2 DEF Promises, Reads, Views, Lists, ViewWrites, Writes, ActionCalls, AdminCalls
  <2>2. Current(v)' = Current(v) /\ Whose(v)' = Whose(v) /\ version' = version
    BY <1>2 DEF Current, Whose
  <2> QED
    BY <1>1, <1>2, <1>3, <2>1, <2>2 DEF Fresh
<1> QED
  BY <1>1, <1>2, <1>3 DEF ViewsInv

LEMMA WrittenViews ==
  ASSUME CountersInv, ViewsInv, NEW r \in DOMAIN flight, onWritten(r)
  PROVE  ViewsInv'
<1>1. /\ DOMAIN Without(flight, r) \subseteq DOMAIN flight'
      /\ \A q \in DOMAIN flight' : q \in DOMAIN flight \/ ~q.served
      /\ r.kind \in ViewWrites => Rereads(flight', selected, session)
      /\ \A q \in DOMAIN flight : q # r => q \in DOMAIN Without(flight, r)
  BY WrittenStep, WithoutFlightOK DEF CountersInv
<1>2. r.kind \in Writes /\ UNCHANGED << selected, views, session, screen, version, excused >>
  BY DEF onWritten
<1>3. ASSUME NEW v \in Views, Fresh(v) PROVE Fresh(v)'
  <2>1. CASE r.kind \in ViewWrites
    <3>1. New(v, Whose(v)) \in DOMAIN flight'
      BY <1>1, <2>1 DEF Rereads, Whose, Views, Lists
    <3>2. Promises(New(v, Whose(v)), v, Whose(v)', version')
      BY <1>2 DEF Promises, New, Whose
    <3> QED
      BY <3>1, <3>2 DEF Fresh
  <2>2. CASE r.kind \notin ViewWrites
    <3>1. ~Promises(r, v, Whose(v), version)
      BY <1>2, <2>2 DEF Promises, Views, Lists, Writes, ActionCalls, AdminCalls
    <3>2. Current(v)' = Current(v) /\ Whose(v)' = Whose(v) /\ version' = version
      BY <1>2 DEF Current, Whose
    <3> QED
      BY <1>1, <1>2, <1>3, <3>1, <3>2 DEF Fresh
  <2> QED
    BY <2>1, <2>2
<1> QED
  BY <1>1, <1>2, <1>3 DEF ViewsInv

LEMMA ErrorViews ==
  ASSUME CountersInv, ViewsInv, NEW r \in DOMAIN flight, onApiError(r)
  PROVE  ViewsInv'
<1>1. /\ DOMAIN flight' \subseteq DOMAIN flight
      /\ \A q \in DOMAIN flight : q # r => q \in DOMAIN flight'
  BY ErrorStep, WithoutFlightOK DEF CountersInv
<1>2. /\ UNCHANGED << selected, views, session, screen, version >>
      /\ excused' = excused \cup (IF r.kind \in Views THEN {r.kind}
                                  ELSE IF r.served THEN Views ELSE {})
  BY DEF onApiError
<1>3. ASSUME NEW v \in Views, Fresh(v) PROVE Fresh(v)'
  <2>1. CASE v \in excused'
    BY <2>1 DEF Fresh
  <2>2. CASE v \notin excused'
    <3>1. ~Promises(r, v, Whose(v), version)
      BY <1>2, <2>2 DEF Promises, Views, Lists, ViewWrites, Writes, ActionCalls, AdminCalls
    <3>2. Current(v)' = Current(v) /\ Whose(v)' = Whose(v) /\ version' = version
      BY <1>2 DEF Current, Whose
    <3>3. v \notin excused
      BY <1>2, <2>2
    <3> QED
      BY <1>1, <1>2, <1>3, <3>1, <3>2, <3>3 DEF Fresh
  <2> QED
    BY <2>1, <2>2
<1> QED
  BY <1>1, <1>2, <1>3 DEF ViewsInv

LEMMA NextViewsInv == CountersInv /\ ViewsInv /\ [Next]_vars => ViewsInv'
<1> SUFFICES ASSUME CountersInv, ViewsInv, [Next]_vars PROVE ViewsInv'
  OBVIOUS
<1>1. CASE UNCHANGED vars
  <2>1. Grows /\ UNCHANGED << selected, views, session, screen, version, excused >>
    BY <1>1 DEF vars, Grows
  <2> QED
    BY <2>1, GrowthKeepsViews
<1>2. CASE login \/ authError
  BY <1>2 DEF login, authError, ViewsInv
<1>3. CASE clearUserState
  <2>1. \A v \in Views : views'[v].version = 0
    BY <1>3 DEF clearUserState, NoView
  <2>2. version \in Nat
    BY ClientAssumption DEF CountersInv, RestTyped
  <2> QED
    BY <1>3, <2>1, <2>2 DEF clearUserState, ViewsInv
<1>4. CASE authFinished
  BY <1>4, AuthViews
<1>5. CASE \E g \in Gyms : selectGym(g)
  BY <1>5, SelectViews
<1>6. CASE refresh
  <2>1. Grows /\ UNCHANGED << selected, views, session, screen, version, excused >>
    BY <1>6, RefreshStep DEF refresh
  <2> QED
    BY <2>1, GrowthKeepsViews
<1>7. CASE \E kind \in Calls : write(kind)
  <2>1. Grows /\ UNCHANGED << selected, views, session, screen, version, excused >>
    BY <1>7, WriteStep DEF write
  <2> QED
    BY <2>1, GrowthKeepsViews
<1>8. CASE \E r \in BagToSet(flight) :
             serve(r) \/ onLoaded(r) \/ onOtherLoaded(r) \/ onWritten(r) \/ onApiError(r)
  BY <1>8, ServeViews, LoadedViews, OtherLoadedViews, WrittenViews, ErrorViews DEF BagToSet
<1> QED
  BY <1>1, <1>2, <1>3, <1>4, <1>5, <1>6, <1>7, <1>8 DEF Next

(* When all replies are in, every view that no error and no late reply has *)
(* spoilt shows what the server had after its last change, whatever the    *)
(* order of the replies (GymModelView.cpp:117-128, 221-280, 325-343).      *)
THEOREM QuietViews == Spec => []QuietViewIsCurrent
<1>1. ViewsInv => QuietViewIsCurrent
  <2> SUFFICES ASSUME ViewsInv, screen = "gym", flight = EmptyBag, NEW v \in Views \ excused
               PROVE  views[v] = Current(v) \/ (v = "slots" /\ selected = NoGym)
    BY DEF QuietViewIsCurrent
  <2>1. DOMAIN flight = {}
    BY OneIsFlight
  <2> QED
    BY <2>1 DEF ViewsInv, Fresh
<1> QED
  BY <1>1, CountersInvariance, InitViewsInv, NextViewsInv, PTL DEF Spec
=============================================================================
