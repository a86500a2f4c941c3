------------------------------- MODULE Notifier -------------------------------
(***************************************************************************)
(* The notifier thread (src/server/src/scheduler.cpp, runNotifications)    *)
(* and its mailer: every 30 seconds it selects the slots that start in 55  *)
(* to 65 minutes, reads who is enrolled in each, and then mails them one   *)
(* after the other, while the booking requests and the clock go on.        *)
(***************************************************************************)
EXTENDS AtomicBooking

CONSTANTS
  WindowFrom, WindowTo,  \* the window of the SELECT, in ticks of the clock
  Starts,                \* the start times administrators give to slots
  NoMail,                \* the environment before the first mail
  MaxTime,               \* bound: the tick at which the clock stops
  MaxFaults              \* bound: failed statements, failed mails and restarts

(* A tick is half the window at the most.                                  *)
ASSUME WindowAssumption == WindowFrom \in Int /\ WindowTo \in Int /\ WindowFrom < WindowTo
ASSUME TimesAssumption == Starts \subseteq Int /\ MaxTime \in Nat /\ MaxFaults \in Nat

Mails == [user : Users, slot : Slots]

ASSUME NoMailAssumption == NoMail \notin Mails

VARIABLES
  now, start,      \* the clock, and the column start_time
  awake,           \* a pass is under way
  rows,            \* selected slots whose enrolled array has yet to be read
  notifications,   \* the mails the pass has yet to send
  env,             \* SMTP_TO, SMTP_SUBJECT and SMTP_BODY of the process
  ticks,           \* ticks since the pass, or the sleep, began (2 stands for more)
  accounted,       \* history: see NothingMissed
  mailed,          \* history: mails sent for slots in the window
  waited,          \* history: see RemindersAreMade
  faults           \* what has happened of what is bounded

time == << now, start >>
pass == << awake, rows, notifications >>
history == << accounted, mailed, waited >>
notifierVars == << vars, time, pass, env, ticks, history, faults >>

InWindow(st, t) == {s \in Slots : st[s] - t \in WindowFrom..WindowTo}

(* Who should be mailed at this moment.                                    *)
Expects(m) ==
  /\ m.slot \in InWindow(start, now) /\ Live(slots[m.slot])
  /\ m.user \in Members(slots[m.slot].enrolled)
  /\ Live(users[m.user])

Owed(m) == Expects(m) /\ m \notin mailed

(* A slot that is in the window already when the server starts, or whose   *)
(* start is moved into it, may have less than the whole window ahead.      *)
NotifierInit ==
  /\ Init
  /\ now = 0 /\ start \in [Slots -> Starts]
  /\ awake = FALSE /\ rows = {} /\ notifications = << >>
  /\ env = NoMail
  /\ ticks = 0
  /\ accounted = InWindow(start, now)
  /\ mailed = {} /\ waited = [m \in Mails |-> 0]
  /\ faults = 0

-----------------------------------------------------------------------------
(* Sleeping takes 30 seconds, so the clock ticks once at the most; a pass, *)
(* which mails one user after the other, takes as long as it takes.        *)
Tick ==
  /\ now < MaxTime
  /\ awake \/ ticks = 0
  /\ now' = now + 1
  /\ ticks' = IF ticks = 0 THEN 1 ELSE 2
  /\ accounted' = InWindow(start, now + 1) \cap (IF ticks = 0 THEN accounted ELSE Slots)
  /\ mailed' = {m \in mailed : m.slot \in InWindow(start, now + 1)}
  /\ waited' = [m \in Mails |-> IF Owed(m) /\ ticks = 0 THEN waited[m] + 1 ELSE 0]
  /\ UNCHANGED << vars, start, pass, env, faults >>

(* The start time is set by the two requests that carry one.               *)
Timed == {"createSlot", "patchSlot"}

(* A wait goes on while the same mail stays expected.                      *)
keepWaiting(S) ==
  waited' = [m \in Mails |-> IF m.slot \in S /\ Expects(m) /\ Expects(m)' THEN waited[m] ELSE 0]

reschedule(s, t) ==
  /\ start' = [start EXCEPT ![s] = t]
  /\ accounted' = IF s \in InWindow(start', now) THEN accounted \cup {s} ELSE accounted \ {s}
  /\ mailed' = {m \in mailed : m.slot # s}
  /\ keepWaiting(Slots \ {s})

Request ==
  /\ UNCHANGED << now, pass, env, ticks, faults >>
  /\ \E r \in Requests, a \in Answers :
       /\ Serve(r, a)
       /\ \/ /\ r.op \in Timed
             /\ Live(slots'[r.slot])
             /\ \E t \in Starts : reschedule(r.slot, t)
          \/ /\ r.op \in Timed => ~Live(slots'[r.slot])
             /\ UNCHANGED << start, accounted, mailed >>
             /\ keepWaiting(Slots)

-----------------------------------------------------------------------------
(* Bug: only the far end of the window is looked at.                       *)
upcomingFarEnd == {s \in Slots : Live(slots[s]) /\ start[s] - now = WindowTo}

(* is_cancelled is FALSE in every row: nothing calls closeSlot.            *)
upcoming == {s \in InWindow(start, now) : Live(slots[s])}

selectSlots ==
  /\ ~awake
  /\ awake' = TRUE
  /\ rows' = upcoming
  /\ ticks' = 0
  /\ accounted' = accounted \cup rows'
  /\ UNCHANGED << vars, time, notifications, env, mailed, waited, faults >>

(* Each slot's array is read in a transaction of its own.  A slot deleted  *)
(* since the SELECT has no row, which reads as NULL: it is skipped.        *)
readEnrolled(s) ==
  /\ awake /\ s \in rows
  /\ rows' = rows \ {s}
  /\ notifications' =
       notifications \o [i \in DOMAIN slots[s].enrolled |-> [user |-> slots[s].enrolled[i], slot |-> s]]
  /\ UNCHANGED << vars, time, awake, env, ticks, history, faults >>

(* setenv(name, value, 0) leaves a variable that is set as it is.          *)
setenv(mail) == env' = IF env = NoMail THEN mail ELSE env

(* A mail that was sent, or that failed, is waited for no longer, or anew. *)
attempted(mail) == waited' = [waited EXCEPT ![mail] = 0]

delivered(mail) ==
  /\ setenv(mail)
  /\ mailed' = mailed \cup {m \in {mail} : m.slot \in InWindow(start, now)}
  /\ attempted(mail)

(* Bug: the exception of an account that is gone ends the pass.            *)
sendAbandoning ==
  /\ awake /\ rows = {} /\ notifications # << >>
  /\ LET mail == Head(notifications)
     IN  \/ /\ ~Live(users[mail.user])
            /\ notifications' = << >>
            /\ UNCHANGED << env, mailed, waited, faults >>
         \/ /\ Live(users[mail.user])
            /\ notifications' = Tail(notifications)
            /\ delivered(mail)
            /\ UNCHANGED faults
  /\ UNCHANGED << vars, time, awake, rows, ticks, accounted >>

(* getEmailById throws for an account that is gone, and when its statement *)
(* fails, which leaves the environment alone; Mailer::send returns false   *)
(* when the script fails.  In each case the next mail is tried.            *)
send ==
  /\ awake /\ rows = {} /\ notifications # << >>
  /\ notifications' = Tail(notifications)
  /\ LET mail == Head(notifications)
     IN  \/ ~Live(users[mail.user]) /\ UNCHANGED << env, mailed, waited, faults >>
         \/ Live(users[mail.user]) /\ delivered(mail) /\ UNCHANGED faults
         \/ /\ Live(users[mail.user])
            /\ setenv(mail) \/ UNCHANGED env
            /\ faults < MaxFaults /\ faults' = faults + 1
            /\ attempted(mail)
            /\ UNCHANGED mailed
  /\ UNCHANGED << vars, time, awake, rows, ticks, accounted >>

sleep ==
  /\ awake /\ rows = {} /\ notifications = << >>
  /\ awake' = FALSE
  /\ ticks' = 0
  /\ UNCHANGED << vars, time, rows, notifications, env, history, faults >>

(* Bug: the vector of the mails outlives the pass.                         *)
dropPassKeepingMails ==
  /\ faults < MaxFaults /\ faults' = faults + 1
  /\ awake' = FALSE /\ rows' = {} /\ UNCHANGED notifications
  /\ ticks' = 0
  /\ accounted' = accounted \cup InWindow(start, now)
  /\ waited' = [m \in Mails |-> 0]
  /\ UNCHANGED << vars, time, mailed >>

(* What the pass has gathered is dropped, and the loop sleeps again.       *)
dropPass ==
  /\ faults < MaxFaults /\ faults' = faults + 1
  /\ awake' = FALSE /\ rows' = {} /\ notifications' = << >>
  /\ ticks' = 0
  /\ accounted' = accounted \cup InWindow(start, now)
  /\ waited' = [m \in Mails |-> 0]
  /\ UNCHANGED << vars, time, mailed >>

(* The SELECT or the read of an array throws.                              *)
passFails == (~awake \/ rows # {}) /\ dropPass /\ UNCHANGED env

Restart == dropPass /\ env' = NoMail

NotifierNext ==
  \/ Tick \/ Request
  \/ selectSlots \/ (\E s \in Slots : readEnrolled(s)) \/ send \/ sleep
  \/ passFails \/ Restart

NotifierSpec == NotifierInit /\ [][NotifierNext]_notifierVars

-----------------------------------------------------------------------------
NotifierTypeOK ==
  /\ TypeOK
  /\ now \in 0..MaxTime /\ start \in [Slots -> Starts]
  /\ awake \in BOOLEAN /\ rows \subseteq Slots /\ notifications \in Seq(Mails)
  /\ env \in Mails \cup {NoMail}
  /\ ticks \in 0..2
  /\ accounted \subseteq InWindow(start, now)
  /\ mailed \subseteq Mails
  /\ waited \in [Mails -> Nat]
  /\ faults \in 0..MaxFaults
  /\ ~awake => rows = {} /\ notifications = << >>

(* No slot goes through the whole window unselected (scheduler.cpp:65-80), *)
(* unless a pass in that time failed, or lasted longer than a tick because *)
(* mails are sent one by one, or the server was restarted.                 *)
NothingMissed ==
  [][\A s \in InWindow(start, now) :
       start' = start /\ s \notin InWindow(start, now') /\ Live(slots[s]) => s \in accounted]_notifierVars

(* Nobody who takes part in a slot in the window goes without a mail for   *)
(* four ticks: waited counts the ticks for which a mail is owed, from the  *)
(* moment it is, anew after a lost pass, a pass longer than a tick, or a   *)
(* failure of this very mail.  So whoever is unmailed when the slot leaves *)
(* a window of four ticks has one of these behind him, or came, or the     *)
(* slot was moved, within it.  Mails of others that fail, and accounts and *)
(* slots that go in the middle of a pass, are no excuse                    *)
(* (scheduler.cpp:76-89, 110-120).  Whom it reaches: MailsReachTheirUser.  *)
RemindersAreMade == \A m \in Mails : waited[m] < 4

(* A mail goes to the address the log names: "Sending reminder to <email>  *)
(* for slot <slot>" (scheduler.cpp:113-115; mailer.cpp:11).                *)
MailsReachTheirUser == [][\A m \in mailed' \ mailed : env' = m]_notifierVars
=============================================================================
