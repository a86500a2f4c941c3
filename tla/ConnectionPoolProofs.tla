------------------------- MODULE ConnectionPoolProofs -------------------------
(***************************************************************************)
(* The safety of the connection pool for any number of threads and         *)
(* connections and any depth of nested guards.  The invariant says what    *)
(* each thread owns at each point of the guards' life; the connections'    *)
(* conservation and the wakeups are inductive on top of it.                *)
(***************************************************************************)
EXTENDS ConnectionPool, FiniteSetTheorems, TLAPS

(* What a thread owns, by the point it has reached.                        *)
ThreadOK(t) ==
  /\ pc[t] = "acquire" <=> t \in waiting \cup woken
  /\ current[t] <=> guards[t] > 0
  /\ pc[t] # "run" => guards[t] = 0
  /\ pc[t] = "acquire" \/ (pc[t] = "run" /\ guards[t] = 0) => held[t] = {}
  /\ pc[t] \in {"begin", "release"} => \E c \in Conns : held[t] = {c} /\ c \notin open
  /\ guards[t] > 0 => \E c \in Conns : held[t] = {c} /\ c \in open

ThreadsOK ==
  /\ waiting \cap woken = {}
  /\ \A t \in Threads : ThreadOK(t)

IInv ==
  /\ TypeOK
  /\ ThreadsOK
  /\ ConnectionsConserved
  /\ PooledConnectionsAreIdle
  /\ NoLostWakeup

LEMMA TailOfPool ==
  ASSUME NEW q \in Seq(Conns), q # << >>
  PROVE  /\ Head(q) \in Conns
         /\ Head(q) = q[1]
         /\ Tail(q) \in Seq(Conns)
         /\ Len(Tail(q)) = Len(q) - 1
         /\ \A i \in DOMAIN Tail(q) : i + 1 \in DOMAIN q /\ Tail(q)[i] = q[i + 1]
         /\ \A i \in DOMAIN q : i # 1 => i - 1 \in DOMAIN Tail(q) /\ Tail(q)[i - 1] = q[i]
OBVIOUS

LEMMA AppendToPool ==
  ASSUME NEW q \in Seq(Conns), NEW c \in Conns
  PROVE  /\ Append(q, c) \in Seq(Conns)
         /\ Len(Append(q, c)) = Len(q) + 1
         /\ \A i \in DOMAIN q : i \in DOMAIN Append(q, c) /\ Append(q, c)[i] = q[i]
         /\ Len(q) + 1 \in DOMAIN Append(q, c) /\ Append(q, c)[Len(q) + 1] = c
         /\ \A i \in DOMAIN Append(q, c) : i # Len(q) + 1 => i \in DOMAIN q
OBVIOUS

LEMMA InitIInv == Init => IInv
<1> SUFFICES ASSUME Init PROVE IInv
  OBVIOUS
<1>1. Cardinality(Conns) \in Nat
  BY FS_CardinalityType, ConnsAssumption
<1>2. pool \in Seq(Conns)
  BY <1>1 DEF Init
<1>3. TypeOK
  BY <1>2, MaxNestingAssumption DEF Init, TypeOK, Steps
<1>4. ThreadsOK
  BY DEF Init, ThreadsOK, ThreadOK
<1>5. ConnectionsConserved
  BY DEF Init, ConnectionsConserved
<1>6. PooledConnectionsAreIdle /\ NoLostWakeup
  BY DEF Init, PooledConnectionsAreIdle, NoLostWakeup
<1> QED
  BY <1>3, <1>4, <1>5, <1>6 DEF IInv

(* Taking the oldest connection of the pool keeps the connections in their *)
(* places: one leaves the pool for one thread.                             *)
LEMMA TakeFirstConserves ==
  ASSUME IInv, NEW t \in Threads, held[t] = {}, TakeFirst(t), UNCHANGED open
  PROVE  /\ pool' \in Seq(Conns) /\ Len(pool') = Len(pool) - 1
         /\ held' \in [Threads -> SUBSET Conns]
         /\ \E c \in Conns : held'[t] = {c} /\ c \notin open'
         /\ \A u \in Threads : u # t => held'[u] = held[u]
         /\ ConnectionsConserved'
         /\ PooledConnectionsAreIdle'
<1> DEFINE c == Head(pool)
<1>1. pool \in Seq(Conns) /\ pool # << >> /\ pool' = Tail(pool)
  BY DEF IInv, TypeOK, TakeFirst
<1>2. /\ c \in Conns /\ c = pool[1] /\ 1 \in DOMAIN pool
      /\ pool' \in Seq(Conns) /\ Len(pool') = Len(pool) - 1
      /\ \A i \in DOMAIN pool' : i + 1 \in DOMAIN pool /\ pool'[i] = pool[i + 1]
      /\ \A i \in DOMAIN pool : i # 1 => i - 1 \in DOMAIN pool' /\ pool'[i - 1] = pool[i]
  BY <1>1, TailOfPool
<1>3. /\ held \in [Threads -> SUBSET Conns]
      /\ held' = [held EXCEPT ![t] = {c}]
  BY DEF IInv, TypeOK, TakeFirst
<1> HIDE DEF c
<1>4. /\ held' \in [Threads -> SUBSET Conns]
      /\ held'[t] = {c}
      /\ \A u \in Threads : u # t => held'[u] = held[u]
  BY <1>2, <1>3
<1>5. c \notin open
  BY <1>2 DEF IInv, PooledConnectionsAreIdle
<1>6. \A u \in Threads : c \notin held[u]
  BY <1>2 DEF IInv, ConnectionsConserved, Pooled
<1>7. DOMAIN pool \subseteq Int /\ DOMAIN pool' \subseteq Int
  BY <1>1, <1>2
<1>8. Distinct(pool')
  <2> SUFFICES ASSUME NEW i \in DOMAIN pool', NEW j \in DOMAIN pool', pool'[i] = pool'[j]
               PROVE  i = j
    BY DEF Distinct
  <2>1. i + 1 = j + 1
    BY <1>2 DEF IInv, ConnectionsConserved, Distinct
  <2> QED
    BY <1>7, <2>1
<1>9. \A u, v \in Threads : u # v => held'[u] \cap held'[v] = {}
  BY <1>4, <1>6 DEF IInv, ConnectionsConserved
<1>10. \A d \in Conns : Pooled(d)' <=> (\A u \in Threads : d \notin held'[u])
  <2> SUFFICES ASSUME NEW d \in Conns
               PROVE  Pooled(d)' <=> (\A u \in Threads : d \notin held'[u])
    OBVIOUS
  <2>1. CASE d = c
    <3>1. ASSUME NEW i \in DOMAIN pool', pool'[i] = c PROVE FALSE
      <4>1. i + 1 = 1
        BY <1>2, <3>1 DEF IInv, ConnectionsConserved, Distinct
      <4>2. i \in 1..Len(pool')
        BY <1>2, <3>1
      <4> QED
        BY <4>1, <4>2, <1>2
    <3> QED
      BY <2>1, <3>1, <1>4 DEF Pooled
  <2>2. CASE d # c
    <3>1. Pooled(d)' <=> Pooled(d)
      BY <1>2, <2>2 DEF Pooled
    <3>2. \A u \in Threads : d \in held'[u] <=> d \in held[u]
      BY <1>4, <2>2
    <3> QED
      BY <3>1, <3>2 DEF IInv, ConnectionsConserved
  <2> QED
    BY <2>1, <2>2
<1>11. PooledConnectionsAreIdle'
  BY <1>2 DEF IInv, PooledConnectionsAreIdle
<1> QED
  BY <1>2, <1>4, <1>5, <1>8, <1>9, <1>10, <1>11 DEF ConnectionsConserved

LEMMA ReleaseConserves ==
  ASSUME IInv, NEW t \in Threads, releaseConnection(t)
  PROVE  /\ pool' \in Seq(Conns) /\ Len(pool') = Len(pool) + 1
         /\ held' \in [Threads -> SUBSET Conns]
         /\ held'[t] = {}
         /\ \A u \in Threads : u # t => held'[u] = held[u]
         /\ ConnectionsConserved'
         /\ PooledConnectionsAreIdle'
<1>1. PICK c \in Conns : held[t] = {c} /\ c \notin open
  BY DEF IInv, ThreadsOK, ThreadOK, releaseConnection
<1>2. /\ pool' = Append(pool, c)
      /\ held' = [held EXCEPT ![t] = @ \ {c}]
      /\ open' = open
      /\ pool \in Seq(Conns)
      /\ held \in [Threads -> SUBSET Conns]
  BY <1>1 DEF IInv, TypeOK, releaseConnection
<1>3. /\ pool' \in Seq(Conns) /\ Len(pool') = Len(pool) + 1
      /\ \A i \in DOMAIN pool : i \in DOMAIN pool' /\ pool'[i] = pool[i]
      /\ Len(pool) + 1 \in DOMAIN pool' /\ pool'[Len(pool) + 1] = c
      /\ \A i \in DOMAIN pool' : i # Len(pool) + 1 => i \in DOMAIN pool
  BY <1>2, AppendToPool
<1>4. /\ held' \in [Threads -> SUBSET Conns]
      /\ held'[t] = {}
      /\ \A u \in Threads : u # t => held'[u] = held[u]
  BY <1>1, <1>2
<1>5. \A i \in DOMAIN pool : pool[i] # c
  BY <1>1 DEF IInv, ConnectionsConserved, Pooled
<1>6. Distinct(pool')
  BY <1>3, <1>5 DEF IInv, ConnectionsConserved, Distinct
<1>7. \A u, v \in Threads : u # v => held'[u] \cap held'[v] = {}
  BY <1>4 DEF IInv, ConnectionsConserved
<1>8. \A d \in Conns : Pooled(d)' <=> (\A u \in Threads : d \notin held'[u])
  <2> SUFFICES ASSUME NEW d \in Conns
               PROVE  Pooled(d)' <=> (\A u \in Threads : d \notin held'[u])
    OBVIOUS
  <2>1. CASE d = c
    <3>1. \A u \in Threads : u # t => c \notin held[u]
      BY <1>1 DEF IInv, ConnectionsConserved
    <3> QED
      BY <2>1, <3>1, <1>3, <1>4 DEF Pooled
  <2>2. CASE d # c
    <3>1. Pooled(d)' <=> Pooled(d)
      BY <1>3, <2>2 DEF Pooled
    <3>2. \A u \in Threads : d \in held'[u] <=> d \in held[u]
      BY <1>1, <1>4, <2>2
    <3> QED
      BY <3>1, <3>2 DEF IInv, ConnectionsConserved
  <2> QED
    BY <2>1, <2>2
<1>9. PooledConnectionsAreIdle'
  BY <1>1, <1>2, <1>3 DEF IInv, PooledConnectionsAreIdle
<1> QED
  BY <1>3, <1>4, <1>6, <1>7, <1>8, <1>9 DEF ConnectionsConserved

(* A step that leaves the pool and the owners alone.                       *)
LEMMA OwnersUnchanged ==
  ASSUME IInv, UNCHANGED << pool, held >>,
         \A c \in open' : c \in open \/ (\E t \in Threads : c \in held[t])
  PROVE  ConnectionsConserved' /\ PooledConnectionsAreIdle'
<1>1. ConnectionsConserved'
  BY DEF IInv, ConnectionsConserved, Pooled
<1>2. PooledConnectionsAreIdle'
  <2>1. \A i \in DOMAIN pool : pool[i] \in Conns
    BY DEF IInv, TypeOK
  <2>2. \A i \in DOMAIN pool, t \in Threads : pool[i] \notin held[t]
    BY <2>1 DEF IInv, ConnectionsConserved, Pooled
  <2> QED
    BY <2>2 DEF IInv, PooledConnectionsAreIdle
<1> QED
  BY <1>1, <1>2

LEMMA FiniteWaits ==
  ASSUME TypeOK
  PROVE  /\ IsFiniteSet(woken) /\ Cardinality(woken) \in Nat
         /\ \A t : t \in woken => Cardinality(woken \ {t}) = Cardinality(woken) - 1
         /\ \A t : t \notin woken => Cardinality(woken \cup {t}) = Cardinality(woken) + 1
<1>1. IsFiniteSet(woken)
  BY ThreadsAssumption, FS_Subset DEF TypeOK
<1> QED
  BY <1>1, FS_CardinalityType, FS_AddElement, FS_RemoveElement

(* What a thread owns is untouched by a step of another one that neither   *)
(* opens nor closes a transaction on it.                                   *)
LEMMA OtherThreadOK ==
  ASSUME IInv, NEW t \in Threads, NEW u \in Threads, u # t,
         pc'[u] = pc[u], current'[u] = current[u], guards'[u] = guards[u],
         held'[u] = held[u],
         u \in (waiting \cup woken)' <=> u \in waiting \cup woken,
         \A c \in open' \ open : c \in held[t],
         \A c \in open \ open' : c \in held[t]
  PROVE  ThreadOK(u)'
<1>1. held[t] \cap held[u] = {}
  BY DEF IInv, ConnectionsConserved
<1> QED
  BY <1>1 DEF IInv, ThreadsOK, ThreadOK

LEMMA AcquireStep ==
  ASSUME IInv, NEW t \in Threads, acquireConnection(t),
         pc[t] = "run", ~current[t]
  PROVE  IInv'
<1>1. guards[t] = 0 /\ held[t] = {} /\ t \notin waiting \cup woken
  BY DEF IInv, TypeOK, ThreadsOK, ThreadOK
<1>2. CASE TakeFirst(t) /\ UNCHANGED << waiting, woken, open, current, guards >>
  <2>1. /\ pool' \in Seq(Conns) /\ Len(pool') = Len(pool) - 1
        /\ held' \in [Threads -> SUBSET Conns]
        /\ \E c \in Conns : held'[t] = {c} /\ c \notin open'
        /\ \A u \in Threads : u # t => held'[u] = held[u]
        /\ ConnectionsConserved'
        /\ PooledConnectionsAreIdle'
    BY <1>1, <1>2, TakeFirstConserves
  <2>2. TypeOK'
    BY <2>1, <1>2 DEF IInv, TypeOK, TakeFirst, Steps
  <2>3. ThreadsOK'
    <3>1. ThreadOK(t)'
      BY <1>1, <1>2, <2>1 DEF IInv, TypeOK, ThreadsOK, ThreadOK, TakeFirst
    <3>2. \A u \in Threads : u # t => ThreadOK(u)'
      BY <1>2, <2>1, OtherThreadOK DEF IInv, TypeOK, TakeFirst
    <3> QED
      BY <1>2, <3>1, <3>2 DEF IInv, ThreadsOK
  <2>4. NoLostWakeup'
    BY <1>2, <2>1, FiniteWaits DEF IInv, TypeOK, NoLostWakeup
  <2> QED
    BY <2>1, <2>2, <2>3, <2>4 DEF IInv
<1>3. CASE /\ pool = << >>
           /\ waiting' = waiting \cup {t}
           /\ pc' = [pc EXCEPT ![t] = "acquire"]
           /\ UNCHANGED << pool, held, woken, open, current, guards >>
  <2>1. TypeOK'
    BY <1>3 DEF IInv, TypeOK, Steps
  <2>2. ThreadsOK'
    <3>1. ThreadOK(t)'
      BY <1>1, <1>3 DEF IInv, TypeOK, ThreadsOK, ThreadOK
    <3>2. \A u \in Threads : u # t => ThreadOK(u)'
      BY <1>3, OtherThreadOK DEF IInv, TypeOK
    <3> QED
      BY <1>1, <1>3, <3>1, <3>2 DEF IInv, ThreadsOK
  <2>3. NoLostWakeup'
    BY <1>3, FiniteWaits DEF IInv, NoLostWakeup
  <2> QED
    BY <1>3, <2>1, <2>2, <2>3, OwnersUnchanged DEF IInv
<1> QED
  BY <1>2, <1>3 DEF acquireConnection

LEMMA ReturnFromWaitStep ==
  ASSUME IInv, NEW t \in Threads, returnFromWait(t)
  PROVE  IInv'
<1>1. /\ t \in woken /\ t \notin waiting /\ pc[t] = "acquire"
      /\ guards[t] = 0 /\ held[t] = {} /\ ~current[t]
      /\ woken' = woken \ {t}
  BY DEF IInv, TypeOK, ThreadsOK, ThreadOK, returnFromWait
<1>2. CASE TakeFirst(t) /\ UNCHANGED << waiting, open, current, guards >>
  <2>1. /\ pool' \in Seq(Conns) /\ Len(pool') = Len(pool) - 1
        /\ held' \in [Threads -> SUBSET Conns]
        /\ \E c \in Conns : held'[t] = {c} /\ c \notin open'
        /\ \A u \in Threads : u # t => held'[u] = held[u]
        /\ ConnectionsConserved'
        /\ PooledConnectionsAreIdle'
    BY <1>1, <1>2, TakeFirstConserves
  <2>2. TypeOK'
    BY <1>1, <1>2, <2>1 DEF IInv, TypeOK, TakeFirst, Steps
  <2>3. ThreadsOK'
    <3>1. ThreadOK(t)'
      BY <1>1, <1>2, <2>1 DEF IInv, TypeOK, ThreadsOK, ThreadOK, TakeFirst
    <3>2. \A u \in Threads : u # t => ThreadOK(u)'
      BY <1>1, <1>2, <2>1, OtherThreadOK DEF IInv, TypeOK, TakeFirst
    <3> QED
      BY <1>1, <1>2, <3>1, <3>2 DEF IInv, ThreadsOK
  <2>4. NoLostWakeup'
    <3>1. Cardinality(woken') = Cardinality(woken) - 1
      BY <1>1, FiniteWaits DEF IInv
    <3> QED
      BY <1>2, <2>1, <3>1, FiniteWaits DEF IInv, TypeOK, NoLostWakeup
  <2> QED
    BY <2>1, <2>2, <2>3, <2>4 DEF IInv
<1>3. CASE /\ pool = << >>
           /\ waiting' = waiting \cup {t}
           /\ UNCHANGED << pool, held, pc, open, current, guards >>
  <2>1. TypeOK'
    BY <1>1, <1>3 DEF IInv, TypeOK
  <2>2. ThreadsOK'
    <3>1. ThreadOK(t)'
      BY <1>1, <1>3 DEF IInv, TypeOK, ThreadsOK, ThreadOK
    <3>2. \A u \in Threads : u # t => ThreadOK(u)'
      BY <1>1, <1>3, OtherThreadOK DEF IInv, TypeOK
    <3> QED
      BY <1>1, <1>3, <3>1, <3>2 DEF IInv, ThreadsOK
  <2>3. NoLostWakeup'
    <3>1. Len(pool') = 0 /\ Cardinality(woken') \in Nat
      BY <1>1, <1>3, <2>1, ThreadsAssumption, FS_Subset, FS_CardinalityType DEF TypeOK
    <3> QED
      BY <3>1 DEF NoLostWakeup
  <2> QED
    BY <1>3, <2>1, <2>2, <2>3, OwnersUnchanged DEF IInv
<1> QED
  BY <1>2, <1>3 DEF returnFromWait

LEMMA SpuriousStep ==
  ASSUME IInv, NEW t \in Threads, SpuriousWakeup(t)
  PROVE  IInv'
<1>1. /\ waiting' = waiting \ {t} /\ woken' = woken \cup {t}
      /\ t \in waiting /\ t \notin woken
      /\ UNCHANGED << pool, held, open, current, guards, pc >>
  BY DEF IInv, ThreadsOK, SpuriousWakeup
<1>2. TypeOK'
  BY <1>1 DEF IInv, TypeOK
<1>3. ThreadsOK'
  BY <1>1 DEF IInv, ThreadsOK, ThreadOK
<1>4. NoLostWakeup'
  <2>1. Cardinality(woken') = Cardinality(woken) + 1
    BY <1>1, FiniteWaits DEF IInv
  <2> QED
    BY <1>1, <2>1, FiniteWaits DEF IInv, TypeOK, NoLostWakeup
<1> QED
  BY <1>1, <1>2, <1>3, <1>4, OwnersUnchanged DEF IInv

LEMMA ReleaseStep ==
  ASSUME IInv, NEW t \in Threads, releaseConnection(t)
  PROVE  IInv'
<1>1. /\ pool' \in Seq(Conns) /\ Len(pool') = Len(pool) + 1
      /\ held' \in [Threads -> SUBSET Conns]
      /\ held'[t] = {}
      /\ \A u \in Threads : u # t => held'[u] = held[u]
      /\ ConnectionsConserved'
      /\ PooledConnectionsAreIdle'
  BY ReleaseConserves
<1>2. /\ pc[t] = "release" /\ pc' = [pc EXCEPT ![t] = "run"]
      /\ guards[t] = 0 /\ ~current[t] /\ t \notin waiting \cup woken
      /\ UNCHANGED << open, current, guards >>
      /\ notify_one
  BY DEF IInv, TypeOK, ThreadsOK, ThreadOK, releaseConnection
<1>3. /\ waiting' \cup woken' = waiting \cup woken
      /\ waiting' \cap woken' = {}
      /\ waiting' \subseteq waiting
  BY <1>2 DEF IInv, ThreadsOK, notify_one, waits
<1>4. TypeOK'
  BY <1>1, <1>2, <1>3 DEF IInv, TypeOK, Steps
<1>5. ThreadsOK'
  <2>1. ThreadOK(t)'
    BY <1>1, <1>2, <1>3 DEF IInv, TypeOK, ThreadOK
  <2>2. \A u \in Threads : u # t => ThreadOK(u)'
    BY <1>1, <1>2, <1>3, OtherThreadOK DEF IInv, TypeOK
  <2> QED
    BY <1>3, <2>1, <2>2 DEF ThreadsOK
<1>6. NoLostWakeup'
  <2>1. CASE waiting = {}
    BY <2>1, <1>3 DEF NoLostWakeup
  <2>2. CASE waiting # {}
    <3>1. PICK w \in waiting : woken' = woken \cup {w}
      BY <1>2, <2>2 DEF notify_one
    <3>2. w \notin woken
      BY <3>1 DEF IInv, ThreadsOK
    <3>3. Cardinality(woken') = Cardinality(woken) + 1
      BY <3>1, <3>2, FiniteWaits DEF IInv
    <3> QED
      BY <1>1, <2>2, <3>3, FiniteWaits DEF IInv, TypeOK, NoLostWakeup
  <2> QED
    BY <2>1, <2>2
<1> QED
  BY <1>1, <1>4, <1>5, <1>6 DEF IInv

(* The guards: steps that leave the pool and the waiting threads alone.    *)
LEMMA GuardFrame ==
  ASSUME IInv, NEW t \in Threads, TypeOK', ThreadOK(t)',
         UNCHANGED << pool, waiting, woken, held >>,
         \A u \in Threads : u # t => pc'[u] = pc[u] /\ current'[u] = current[u] /\ guards'[u] = guards[u],
         \A c \in open' \ open : c \in held[t],
         \A c \in open \ open' : c \in held[t]
  PROVE  IInv'
<1>1. ThreadsOK'
  <2>1. \A u \in Threads : u # t => ThreadOK(u)'
    BY OtherThreadOK
  <2> QED
    BY <2>1 DEF IInv, ThreadsOK
<1>2. NoLostWakeup'
  BY DEF IInv, NoLostWakeup
<1> QED
  BY <1>1, <1>2, OwnersUnchanged DEF IInv

LEMMA EnterSharedStep ==
  ASSUME IInv, NEW t \in Threads, pc[t] = "run", guards[t] < MaxNesting, current[t],
         guards' = [guards EXCEPT ![t] = @ + 1],
         UNCHANGED << pool, waits, held, open, current, pc >>
  PROVE  IInv'
<1>1. guards[t] \in Nat /\ guards[t] + 1 \in 0..MaxNesting /\ guards[t] > 0
  BY MaxNestingAssumption DEF IInv, TypeOK, ThreadsOK, ThreadOK
<1>2. UNCHANGED << pool, waiting, woken, held, open, current, pc >>
  BY DEF waits
<1>3. TypeOK'
  BY <1>1, <1>2 DEF IInv, TypeOK
<1>4. ThreadOK(t)'
  BY <1>1, <1>2 DEF IInv, TypeOK, ThreadsOK, ThreadOK
<1> QED
  BY <1>2, <1>3, <1>4, GuardFrame DEF IInv, TypeOK

LEMMA BeginStep ==
  ASSUME IInv, NEW t \in Threads, beginTransaction(t)
  PROVE  IInv'
<1>1. guards[t] = 0
  BY DEF IInv, ThreadsOK, ThreadOK, beginTransaction
<1>2. UNCHANGED << pool, waiting, woken, held >>
  BY DEF waits, beginTransaction
<1>3. TypeOK'
  BY <1>1, <1>2, MaxNestingAssumption DEF IInv, TypeOK, beginTransaction, Steps
<1>4. ThreadOK(t)'
  <2>1. PICK c \in Conns : held[t] = {c}
    BY DEF IInv, ThreadsOK, ThreadOK, beginTransaction
  <2>2. /\ pc'[t] = "run" /\ current'[t] /\ guards'[t] = 1 /\ held'[t] = {c} /\ c \in open'
        /\ t \notin waiting' \cup woken'
    BY <1>1, <1>2, <2>1 DEF IInv, TypeOK, ThreadsOK, ThreadOK, beginTransaction
  <2> QED
    BY <2>2 DEF ThreadOK
<1> QED
  BY <1>2, <1>3, <1>4, GuardFrame DEF IInv, TypeOK, beginTransaction

LEMMA BeginFailsStep ==
  ASSUME IInv, NEW t \in Threads, beginFails(t)
  PROVE  IInv'
<1>1. UNCHANGED << pool, waiting, woken, held, open, current, guards >>
  BY DEF waits, beginFails
<1>2. TypeOK'
  BY <1>1 DEF IInv, TypeOK, beginFails, Steps
<1>3. ThreadOK(t)'
  BY <1>1 DEF IInv, TypeOK, ThreadsOK, ThreadOK, beginFails
<1> QED
  BY <1>1, <1>2, <1>3, GuardFrame DEF IInv, TypeOK, beginFails

LEMMA LeaveStep ==
  ASSUME IInv, NEW t \in Threads, leaveGuard(t)
  PROVE  IInv'
<1>1. UNCHANGED << pool, waiting, woken, held, open, current, pc >>
  BY DEF waits, leaveGuard
<1>2. guards[t] - 1 \in 0..MaxNesting /\ guards[t] - 1 > 0 /\ guards[t] > 0
  BY MaxNestingAssumption DEF IInv, TypeOK, leaveGuard
<1>3. TypeOK'
  BY <1>1, <1>2 DEF IInv, TypeOK, leaveGuard
<1>4. ThreadOK(t)'
  BY <1>1, <1>2 DEF IInv, TypeOK, ThreadsOK, ThreadOK, leaveGuard
<1> QED
  BY <1>1, <1>3, <1>4, GuardFrame DEF IInv, TypeOK, leaveGuard

LEMMA EndStep ==
  ASSUME IInv, NEW t \in Threads, endTransaction(t)
  PROVE  IInv'
<1>1. UNCHANGED << pool, waiting, woken, held >>
  BY DEF waits, endTransaction
<1>2. TypeOK'
  BY <1>1, MaxNestingAssumption DEF IInv, TypeOK, endTransaction, Steps
<1>3. ThreadOK(t)'
  <2>1. PICK c \in Conns : held[t] = {c}
    BY DEF IInv, ThreadsOK, ThreadOK, endTransaction
  <2>2. /\ pc'[t] = "release" /\ ~current'[t] /\ guards'[t] = 0 /\ held'[t] = {c} /\ c \notin open'
        /\ t \notin waiting' \cup woken'
    BY <1>1, <2>1 DEF IInv, TypeOK, ThreadsOK, ThreadOK, endTransaction
  <2> QED
    BY <2>2 DEF ThreadOK
<1> QED
  BY <1>1, <1>2, <1>3, GuardFrame DEF IInv, TypeOK, endTransaction

LEMMA NextIInv == IInv /\ [Next]_vars => IInv'
<1> SUFFICES ASSUME IInv, [Next]_vars PROVE IInv'
  OBVIOUS
<1>1. CASE UNCHANGED vars
  BY <1>1 DEF vars, waits, IInv, TypeOK, ThreadsOK, ThreadOK, ConnectionsConserved, Pooled,
              PooledConnectionsAreIdle, NoLostWakeup
<1>2. CASE Next
  <2>1. PICK t \in Threads :
          \/ enterGuard(t) \/ returnFromWait(t) \/ SpuriousWakeup(t)
          \/ beginTransaction(t) \/ beginFails(t)
          \/ leaveGuard(t) \/ endTransaction(t) \/ releaseConnection(t)
    BY <1>2 DEF Next
  <2>2. CASE enterGuard(t)
    BY <2>2, AcquireStep, EnterSharedStep DEF enterGuard
  <2> QED
    BY <2>1, <2>2, ReturnFromWaitStep, SpuriousStep, BeginStep, BeginFailsStep, LeaveStep,
       EndStep, ReleaseStep
<1> QED
  BY <1>1, <1>2

-----------------------------------------------------------------------------
LEMMA Invariance == Spec => []IInv
BY InitIInv, NextIInv, PTL DEF Spec

(* Every connection is always in the pool or in one thread's hands, and    *)
(* quiet while it is in the pool.                                          *)
THEOREM Conservation ==
  Spec => [](TypeOK /\ PooledConnectionsAreFree)
<1>1. IInv => TypeOK /\ PooledConnectionsAreFree
  BY DEF IInv, PooledConnectionsAreFree
<1> QED
  BY <1>1, Invariance, PTL

(* The pool never makes threads wait for each other in a circle.           *)
THEOREM NoHoldAndWait == Spec => []WaitersHoldNothing
<1>1. IInv => WaitersHoldNothing
  <2> SUFFICES ASSUME IInv, NEW t \in waiting \cup woken
               PROVE  held[t] = {} /\ guards[t] = 0
    BY DEF WaitersHoldNothing
  <2>1. t \in Threads
    BY DEF IInv, TypeOK
  <2> QED
    BY <2>1 DEF IInv, ThreadsOK, ThreadOK
<1> QED
  BY <1>1, Invariance, PTL

(* For every number of threads and connections, a sleeping thread never    *)
(* misses a connection that was put back.                                  *)
THEOREM WakeupsAreKept == Spec => []NoLostWakeup
<1>1. IInv => NoLostWakeup
  BY DEF IInv
<1> QED
  BY <1>1, Invariance, PTL

(* A transaction runs on one connection from its BEGIN to its end.         *)
THEOREM OneConnection == Spec => OneConnectionPerTransaction
<1> DEFINE Stays(t) ==
      guards[t] > 0 /\ guards'[t] > 0 => held'[t] = held[t] /\ held[t] \subseteq open'
<1>1. IInv /\ [Next]_vars => [\A t \in Threads : Stays(t)]_vars
  <2> SUFFICES ASSUME IInv, Next, NEW t \in Threads, guards[t] > 0, guards'[t] > 0
               PROVE  held'[t] = held[t] /\ held[t] \subseteq open'
    OBVIOUS
  <2>1. PICK u \in Threads :
          \/ enterGuard(u) \/ returnFromWait(u) \/ SpuriousWakeup(u)
          \/ beginTransaction(u) \/ beginFails(u)
          \/ leaveGuard(u) \/ endTransaction(u) \/ releaseConnection(u)
    BY DEF Next
  <2>2. PICK c \in Conns : held[t] = {c} /\ c \in open
    BY DEF IInv, ThreadsOK, ThreadOK
  <2>3. CASE u = t
    <3>1. pc[t] = "run" /\ t \notin woken /\ current[t]
      BY DEF IInv, TypeOK, ThreadsOK, ThreadOK
    <3>2. ~endTransaction(t)
      BY DEF endTransaction, IInv, TypeOK
    <3> QED
      BY <2>1, <2>2, <2>3, <3>1, <3>2
         DEF enterGuard, returnFromWait, SpuriousWakeup, beginTransaction, beginFails,
             leaveGuard, releaseConnection
  <2>4. CASE u # t
    <3>1. held[t] \cap held[u] = {}
      BY <2>4 DEF IInv, ConnectionsConserved
    <3>2. held'[t] = held[t]
      BY <2>1, <2>4
         DEF IInv, TypeOK, enterGuard, acquireConnection, TakeFirst, returnFromWait, SpuriousWakeup,
             beginTransaction, beginFails, leaveGuard, endTransaction, releaseConnection
    <3>3. c \in open'
      BY <2>1, <2>2, <3>1
         DEF enterGuard, acquireConnection, returnFromWait, SpuriousWakeup,
             beginTransaction, beginFails, leaveGuard, endTransaction, releaseConnection
    <3> QED
      BY <2>2, <3>2, <3>3
  <2> QED
    BY <2>3, <2>4
<1> QED
  BY <1>1, Invariance, PTL DEF Spec, OneConnectionPerTransaction
=============================================================================
