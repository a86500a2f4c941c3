---------------------------- MODULE ConnectionPool ----------------------------
(***************************************************************************)
(* The pool of database connections and the guards that tie a connection   *)
(* to the transaction of a thread (src/server/include/database.hpp,        *)
(* src/database.cpp, transaction_guard.hpp and .cpp).  The threads are     *)
(* Crow's workers, the scheduler and the notifier.  A section under        *)
(* m_mutex is one step; a return from m_cond_var.wait is another, which    *)
(* may come after other threads have had the mutex.                        *)
(***************************************************************************)
EXTENDS Integers, Sequences, FiniteSets

CONSTANTS
  Threads,     \* the threads that use the database
  Conns,       \* the connections opened by the constructor (12)
  MaxNesting   \* bound: guards a thread has open at once

ASSUME ThreadsAssumption == IsFiniteSet(Threads)
ASSUME ConnsAssumption == IsFiniteSet(Conns)
ASSUME MaxNestingAssumption == MaxNesting \in Nat \ {0}

VARIABLES
  pool,      \* m_conn_pool
  waiting,   \* the threads blocked on m_cond_var
  woken,     \* the threads woken up that have not got m_mutex back
  held,      \* the connections each thread's DBTransactions own
  open,      \* the connections on which a pqxx::work is unfinished
  current,   \* whether each thread's current_txn is set
  guards,    \* the number of TransactionGuards each thread has open
  pc

waits == << waiting, woken >>
vars == << pool, waits, held, open, current, guards, pc >>

Steps == {"run", "acquire", "begin", "release"}

Distinct(q) == \A i, j \in DOMAIN q : q[i] = q[j] => i = j
Pooled(c) == \E i \in DOMAIN pool : pool[i] = c

(* The constructor of Database has pushed each connection once.            *)
Init ==
  /\ pool \in [1..Cardinality(Conns) -> Conns]
  /\ Distinct(pool)
  /\ \A c \in Conns : Pooled(c)
  /\ waiting = {}
  /\ woken = {}
  /\ held = [t \in Threads |-> {}]
  /\ open = {}
  /\ current = [t \in Threads |-> FALSE]
  /\ guards = [t \in Threads |-> 0]
  /\ pc = [t \in Threads |-> "run"]

-----------------------------------------------------------------------------
TakeFirst(t) ==
  /\ pool # << >>
  /\ held' = [held EXCEPT ![t] = @ \cup {Head(pool)}]
  /\ pool' = Tail(pool)
  /\ pc' = [pc EXCEPT ![t] = "begin"]

(* acquireConnection up to the first test of the pool.                     *)
acquireConnection(t) ==
  /\ \/ /\ TakeFirst(t)
        /\ UNCHANGED waiting
     \/ /\ pool = << >>
        /\ waiting' = waiting \cup {t}
        /\ pc' = [pc EXCEPT ![t] = "acquire"]
        /\ UNCHANGED << pool, held >>
  /\ UNCHANGED << woken, open, current, guards >>

(* A woken thread has the mutex again and tests the pool once more.        *)
returnFromWait(t) ==
  /\ t \in woken
  /\ woken' = woken \ {t}
  /\ \/ /\ TakeFirst(t)
        /\ UNCHANGED waiting
     \/ /\ pool = << >>
        /\ waiting' = waiting \cup {t}
        /\ UNCHANGED << pool, held, pc >>
  /\ UNCHANGED << open, current, guards >>

SpuriousWakeup(t) ==
  /\ t \in waiting
  /\ waiting' = waiting \ {t}
  /\ woken' = woken \cup {t}
  /\ UNCHANGED << pool, held, open, current, guards, pc >>

notify_one ==
  \/ waiting = {} /\ UNCHANGED waits
  \/ \E w \in waiting : waiting' = waiting \ {w} /\ woken' = woken \cup {w}

(* Bug: notify only when the pool was empty.                               *)
releaseConnectionNotifyingOnce(t) ==
  /\ pc[t] = "release"
  /\ \E c \in held[t] : pool' = Append(pool, c) /\ held' = [held EXCEPT ![t] = @ \ {c}]
  /\ pc' = [pc EXCEPT ![t] = "run"]
  /\ IF pool = << >> THEN notify_one ELSE UNCHANGED waits
  /\ UNCHANGED << open, current, guards >>

(* The deleter of the shared_ptr that acquireConnection returned.          *)
releaseConnection(t) ==
  /\ pc[t] = "release"
  /\ \E c \in held[t] : pool' = Append(pool, c) /\ held' = [held EXCEPT ![t] = @ \ {c}]
  /\ pc' = [pc EXCEPT ![t] = "run"]
  /\ notify_one
  /\ UNCHANGED << open, current, guards >>

-----------------------------------------------------------------------------
(* Bug: every guard opens a transaction of its own.                        *)
enterGuardAlwaysOwning(t) ==
  /\ pc[t] = "run"
  /\ guards[t] < MaxNesting
  /\ acquireConnection(t)

(* The constructor of TransactionGuard: a guard inside another one shares  *)
(* its transaction.                                                        *)
enterGuard(t) ==
  /\ pc[t] = "run"
  /\ guards[t] < MaxNesting
  /\ \/ /\ current[t]
        /\ guards' = [guards EXCEPT ![t] = @ + 1]
        /\ UNCHANGED << pool, waits, held, open, current, pc >>
     \/ /\ ~current[t]
        /\ acquireConnection(t)

(* The constructor of DBTransaction: BEGIN on the acquired connection.     *)
beginTransaction(t) ==
  /\ pc[t] = "begin"
  /\ open' = open \cup held[t]
  /\ current' = [current EXCEPT ![t] = TRUE]
  /\ guards' = [guards EXCEPT ![t] = @ + 1]
  /\ pc' = [pc EXCEPT ![t] = "run"]
  /\ UNCHANGED << pool, waits, held >>

(* BEGIN throws: m_conn is destroyed with the unfinished DBTransaction.    *)
beginFails(t) ==
  /\ pc[t] = "begin"
  /\ pc' = [pc EXCEPT ![t] = "release"]
  /\ UNCHANGED << pool, waits, held, open, current, guards >>

(* Bug: an inner guard ends the transaction it shares.                     *)
leaveGuardEnding(t) ==
  /\ pc[t] = "run"
  /\ guards[t] > 1
  /\ guards' = [guards EXCEPT ![t] = @ - 1]
  /\ open' = open \ held[t]
  /\ pc' = [pc EXCEPT ![t] = "release"]
  /\ UNCHANGED << pool, waits, held, current >>

(* Bug: a guard is left twice.                                             *)
leaveGuardUnchecked(t) ==
  /\ pc[t] = "run"
  /\ guards' = [guards EXCEPT ![t] = @ - 1]
  /\ UNCHANGED << pool, waits, held, open, current, pc >>

(* The end of a guard that shares the transaction of another: its commit   *)
(* and its destructor do nothing.                                          *)
leaveGuard(t) ==
  /\ pc[t] = "run"
  /\ guards[t] > 1
  /\ guards' = [guards EXCEPT ![t] = @ - 1]
  /\ UNCHANGED << pool, waits, held, open, current, pc >>

(* Bug: the connection goes before the pqxx::work that uses it.            *)
endTransactionConnectionFirst(t) ==
  /\ pc[t] = "run"
  /\ guards[t] > 0
  /\ guards' = [guards EXCEPT ![t] = 0]
  /\ current' = [current EXCEPT ![t] = FALSE]
  /\ pc' = [pc EXCEPT ![t] = "release"]
  /\ UNCHANGED << pool, waits, held, open >>

(* The outermost guard commits and is destroyed, or an exception passes    *)
(* through all guards and the destructor of DBTransaction aborts; either   *)
(* way m_txn is gone before m_conn, its elder member.                      *)
endTransaction(t) ==
  /\ pc[t] = "run"
  /\ guards[t] > 0
  /\ guards' = [guards EXCEPT ![t] = 0]
  /\ current' = [current EXCEPT ![t] = FALSE]
  /\ open' = open \ held[t]
  /\ pc' = [pc EXCEPT ![t] = "release"]
  /\ UNCHANGED << pool, waits, held >>

Next ==
  \E t \in Threads :
    \/ enterGuard(t) \/ returnFromWait(t) \/ SpuriousWakeup(t)
    \/ beginTransaction(t) \/ beginFails(t)
    \/ leaveGuard(t) \/ endTransaction(t) \/ releaseConnection(t)

Spec == Init /\ [][Next]_vars

(* A woken thread gets the mutex in the end; transactions end (Booking's   *)
(* EveryRequestEnds) and their connections are released.                   *)
Fairness ==
  \A t \in Threads :
    /\ WF_vars(returnFromWait(t))
    /\ WF_vars(beginTransaction(t) \/ beginFails(t))
    /\ WF_vars(endTransaction(t))
    /\ WF_vars(releaseConnection(t))

FairSpec == Spec /\ Fairness

-----------------------------------------------------------------------------
TypeOK ==
  /\ pool \in Seq(Conns)
  /\ waiting \in SUBSET Threads
  /\ woken \in SUBSET Threads
  /\ held \in [Threads -> SUBSET Conns]
  /\ open \in SUBSET Conns
  /\ current \in [Threads -> BOOLEAN]
  /\ guards \in [Threads -> 0..MaxNesting]
  /\ pc \in [Threads -> Steps]

(* No connection is lost, duplicated or shared: each is in the pool once   *)
(* or belongs to one thread, on the paths of exceptions too                *)
(* (database.cpp:59-65, transaction_guard.cpp:4-15).                       *)
ConnectionsConserved ==
  /\ Distinct(pool)
  /\ \A t, u \in Threads : t # u => held[t] \cap held[u] = {}
  /\ \A c \in Conns : Pooled(c) <=> (\A t \in Threads : c \notin held[t])

(* A connection in the pool has no unfinished transaction on it, whose     *)
(* statements would join the next thread's (transaction_guard.hpp:15-19,   *)
(* 38-39: the order in which members are destroyed).                       *)
PooledConnectionsAreIdle == \A i \in DOMAIN pool : pool[i] \notin open

(* A thread that takes a connection from the pool has it for itself, and   *)
(* with nothing of another transaction on it, whichever way the last one   *)
(* ended (the two above; database.cpp:56-66, transaction_guard.hpp:38-39). *)
PooledConnectionsAreFree == ConnectionsConserved /\ PooledConnectionsAreIdle

(* A thread that waits for a connection holds none, however deep its       *)
(* guards are nested: threads never wait in a circle for the pool          *)
(* (transaction_guard.cpp:5).                                              *)
WaitersHoldNothing == \A t \in waiting \cup woken : held[t] = {} /\ guards[t] = 0

(* While a thread sleeps, every connection in the pool has a thread that   *)
(* was woken up for it: no wakeup is lost (database.cpp:58, 61-65).        *)
NoLostWakeup == waiting # {} => Cardinality(woken) >= Len(pool)

(* All statements of a transaction run on the connection it was begun on,  *)
(* whatever guards are opened and closed inside (transaction_guard.cpp).   *)
OneConnectionPerTransaction ==
  [][\A t \in Threads :
       guards[t] > 0 /\ guards'[t] > 0 => held'[t] = held[t] /\ held[t] \subseteq open']_vars

(* A free connection does not stay free while a thread sleeps for one.     *)
FreeConnectionIsTaken ==
  pool # << >> /\ waiting # {} ~> pool = << >> \/ waiting = {}
=============================================================================
