----------------------------- MODULE ClientStart -----------------------------
(***************************************************************************)
(* The life of a MuduoClient: the thread that creates, connects and        *)
(* destroys it, and its IO thread (common/Net.hpp), down to the mutexes    *)
(* and conditions they meet at (muduo/base/Mutex.h, Condition.h).          *)
(*                                                                         *)
(* They meet twice: startLoop waits until the IO thread has its EventLoop  *)
(* (EventLoopThread::mutex_, "loop"), and Connect waits on the             *)
(* CountDownLatch until the connection is up ("latch").  Every lock is two *)
(* steps, the pthread mutex and then holder_; a condition may wake its     *)
(* waiter for no reason.                                                   *)
(*                                                                         *)
(* The bodies of startLoop, threadFunc, wait and countDown are in the      *)
(* muduo library, outside the repository.                                  *)
(***************************************************************************)
EXTENDS Naturals

CONSTANTS User, IO, None

ASSUME StartAssumption == User # IO /\ None \notin {User, IO}

Threads == {User, IO}
Locks   == {"loop", "latch"}

VARIABLES
  owner,    \* who has each pthread mutex
  holder,   \* MutexLock::holder_
  sleeping, \* who sleeps in each condition
  at,       \* the lock a thread is about, or "none"
  pc,       \* and what it does next
  loop,     \* EventLoopThread::loop_ is set
  count,    \* CountDownLatch::count_
  conn,     \* _conn is set
  got,      \* what GetConnection gave last: "nothing yet", "null", "set"
  link,     \* the TCP connection: "none", "connecting", "up", "down"
  quit      \* the loop has been told to quit

mutexVars == <<owner, holder, sleeping>>
clientVars == <<loop, count, conn, got, link, quit>>
vars == <<mutexVars, at, pc, clientVars>>

Go(t, m, where) ==
  /\ at' = [at EXCEPT ![t] = m]
  /\ pc' = [pc EXCEPT ![t] = where]

Init ==
  /\ owner = [m \in Locks |-> None]
  /\ holder = [m \in Locks |-> None]
  /\ sleeping = [m \in Locks |-> {}]
  /\ at = [t \in Threads |-> "none"]
  /\ pc = [t \in Threads |-> IF t = User THEN "new" ELSE "unborn"]
  /\ loop = FALSE
  /\ count = 1
  /\ conn = FALSE
  /\ got = "nothing yet"
  /\ link = "none"
  /\ quit = FALSE

-----------------------------------------------------------------------------
(* MutexLock and Condition, by thread t on the lock m it is about *)

(* MutexLock::lock, in its two steps *)
Lock(t, m) ==
  /\ at[t] = m /\ pc[t] = "lock"
  /\ owner[m] = None
  /\ owner' = [owner EXCEPT ![m] = t]
  /\ Go(t, m, "assign")
  /\ UNCHANGED <<holder, sleeping, clientVars>>

AssignHolder(t, m) ==
  /\ at[t] = m /\ pc[t] = "assign"
  /\ holder' = [holder EXCEPT ![m] = t]
  /\ Go(t, m, "locked")
  /\ UNCHANGED <<owner, sleeping, clientVars>>

(* MutexLock::unlock *)
UnassignHolder(t, m) ==
  /\ at[t] = m /\ pc[t] = "done"
  /\ holder' = [holder EXCEPT ![m] = None]
  /\ Go(t, m, "unlock")
  /\ UNCHANGED <<owner, sleeping, clientVars>>

(* What a thread does after it has met the other one. *)
After(t, m) ==
  CASE t = User /\ m = "loop"  -> "made"
    [] t = User /\ m = "latch" -> "connected"
    [] t = IO /\ m = "latch"   -> "counted"
    [] t = IO /\ m = "loop"    -> IF loop THEN "looping" ELSE "ended"

Unlock(t, m) ==
  /\ at[t] = m /\ pc[t] = "unlock"
  /\ owner' = [owner EXCEPT ![m] = None]
  /\ Go(t, "none", After(t, m))
  /\ UNCHANGED <<holder, sleeping, clientVars>>

(* faulty: the mutex is let go with its holder still set. *)
UnassignGuardMissing(t, m) ==
  /\ at[t] = m /\ pc[t] = "wait"
  /\ Go(t, m, "sleep")
  /\ UNCHANGED <<mutexVars, clientVars>>

(* Condition::wait: the UnassignGuard, pthread_cond_wait, and the end of   *)
(* the guard.                                                              *)
UnassignGuard(t, m) ==
  /\ at[t] = m /\ pc[t] = "wait"
  /\ holder' = [holder EXCEPT ![m] = None]
  /\ Go(t, m, "sleep")
  /\ UNCHANGED <<owner, sleeping, clientVars>>

Sleep(t, m) ==
  /\ at[t] = m /\ pc[t] = "sleep"
  /\ owner' = [owner EXCEPT ![m] = None]
  /\ sleeping' = [sleeping EXCEPT ![m] = @ \cup {t}]
  /\ Go(t, m, "asleep")
  /\ UNCHANGED <<holder, clientVars>>

(* faulty: who has waited does not test again. *)
WakeUpOnce(t, m) ==
  /\ at[t] = m /\ pc[t] = "asleep"
  /\ t \notin sleeping[m]
  /\ owner[m] = None
  /\ owner' = [owner EXCEPT ![m] = t]
  /\ Go(t, m, "done")
  /\ UNCHANGED <<holder, sleeping, clientVars>>

WakeUp(t, m) ==
  /\ at[t] = m /\ pc[t] = "asleep"
  /\ t \notin sleeping[m]
  /\ owner[m] = None
  /\ owner' = [owner EXCEPT ![m] = t]
  /\ Go(t, m, "assign")
  /\ UNCHANGED <<holder, sleeping, clientVars>>

SpuriousWakeUp(t, m) ==
  /\ t \in sleeping[m]
  /\ sleeping' = [sleeping EXCEPT ![m] = @ \ {t}]
  /\ UNCHANGED <<owner, holder, at, pc, clientVars>>

NotifyAll(m) == sleeping' = [sleeping EXCEPT ![m] = {}]

Mutex(t, m) ==
  \/ Lock(t, m) \/ AssignHolder(t, m) \/ UnassignHolder(t, m) \/ Unlock(t, m)
  \/ UnassignGuard(t, m) \/ Sleep(t, m) \/ WakeUp(t, m)

-----------------------------------------------------------------------------
(* The user's thread *)

(* MuduoClient::MuduoClient: the latch is there before startLoop starts    *)
(* the thread.                                                             *)
NewClient ==
  /\ pc[User] = "new"
  /\ at' = [t \in Threads |-> "loop"]
  /\ pc' = [t \in Threads |-> "lock"]
  /\ UNCHANGED <<mutexVars, clientVars>>

(* What startLoop and CountDownLatch::wait wait for. *)
Holds(m) == IF m = "loop" THEN loop ELSE count = 0

(* while (! Holds(m)) wait(); *)
Test(m) ==
  /\ at[User] = m /\ pc[User] = "locked"
  /\ Go(User, m, IF Holds(m) THEN "done" ELSE "wait")
  /\ UNCHANGED <<mutexVars, clientVars>>

Connect ==
  /\ pc[User] = "made"
  /\ link' = "connecting"
  /\ Go(User, "latch", "lock")
  /\ UNCHANGED <<mutexVars, loop, count, conn, got, quit>>

(* GetConnection, as often as the user makes a call. *)
GetConnection ==
  /\ pc[User] = "connected"
  /\ got' = IF conn THEN "set" ELSE "null"
  /\ UNCHANGED <<mutexVars, at, pc, loop, count, conn, link, quit>>

(* ~MuduoClient destroys its members in the reverse of their order.  First *)
(* ~TcpClient, in this thread while the loop still runs: the connection    *)
(* keeps the callbacks and stays up with _conn, its last owner.  The lock  *)
(* that a TcpClient has for itself is muduo's and not here.                *)
DestroyTcpClient ==
  /\ pc[User] = "connected"
  /\ Go(User, "none", "closing")
  /\ UNCHANGED <<mutexVars, clientVars>>

(* Then ~EventLoopThread quits the loop and joins the thread, and its      *)
(* mutex, the latch and _conn go.                                          *)
Quit ==
  /\ pc[User] = "closing"
  /\ quit' = TRUE
  /\ Go(User, "none", "join")
  /\ UNCHANGED <<mutexVars, loop, count, conn, got, link>>

(* faulty: the thread is detached. *)
JoinNot ==
  /\ pc[User] = "join"
  /\ Go(User, "none", "destroy")
  /\ UNCHANGED <<mutexVars, clientVars>>

Join ==
  /\ pc[User] = "join"
  /\ pc[IO] = "ended"
  /\ Go(User, "none", "destroy")
  /\ UNCHANGED <<mutexVars, clientVars>>

-----------------------------------------------------------------------------
(* The IO thread *)

(* EventLoopThread::threadFunc tells startLoop of its loop, *)
SetLoop ==
  /\ at[IO] = "loop" /\ pc[IO] = "locked"
  /\ ~ quit
  /\ loop' = TRUE
  /\ NotifyAll("loop")
  /\ Go(IO, "loop", "done")
  /\ UNCHANGED <<owner, holder, count, conn, got, link, quit>>

(* and takes it back at its end. *)
ClearLoop ==
  /\ at[IO] = "loop" /\ pc[IO] = "locked"
  /\ quit
  /\ loop' = FALSE
  /\ Go(IO, "loop", "done")
  /\ UNCHANGED <<mutexVars, count, conn, got, link, quit>>

LeaveLoop ==
  /\ pc[IO] = "looping"
  /\ quit
  /\ Go(IO, "loop", "lock")
  /\ UNCHANGED <<mutexVars, clientVars>>

(* MuduoClient::OnConnection; the connection comes up once. *)
OnConnected ==
  /\ pc[IO] = "looping"
  /\ link = "connecting"
  /\ link' = "up"
  /\ Go(IO, "latch", "lock")
  /\ UNCHANGED <<mutexVars, loop, count, conn, got, quit>>

(* CountDownLatch::countDown *)
CountDown ==
  /\ at[IO] = "latch" /\ pc[IO] = "locked"
  /\ count' = count - 1
  /\ IF count' = 0 THEN NotifyAll("latch") ELSE UNCHANGED sleeping
  /\ Go(IO, "latch", "done")
  /\ UNCHANGED <<owner, holder, loop, conn, got, link, quit>>

(* faulty: a variable of the handler hides the member. *)
SetConnectionLocal ==
  /\ pc[IO] = "counted"
  /\ Go(IO, "none", "looping")
  /\ UNCHANGED <<mutexVars, clientVars>>

SetConnection ==
  /\ pc[IO] = "counted"
  /\ conn' = TRUE
  /\ Go(IO, "none", "looping")
  /\ UNCHANGED <<mutexVars, loop, count, got, link, quit>>

OnDisconnected ==
  /\ pc[IO] = "looping"
  /\ link = "up"
  /\ link' = "down"
  /\ conn' = FALSE
  /\ UNCHANGED <<mutexVars, at, pc, loop, count, got, quit>>

-----------------------------------------------------------------------------

UserStep ==
  \/ \E m \in Locks : Mutex(User, m) \/ Test(m)
  \/ NewClient \/ Connect \/ Quit \/ Join

IOStep ==
  \/ \E m \in Locks : Mutex(IO, m)
  \/ SetLoop \/ ClearLoop \/ LeaveLoop \/ CountDown \/ SetConnection

Next ==
  \/ UserStep \/ GetConnection \/ DestroyTcpClient
  \/ IOStep \/ OnConnected \/ OnDisconnected
  \/ \E t \in Threads, m \in Locks : SpuriousWakeUp(t, m)

(* Threads run, and get a mutex that is free again and again.  That the    *)
(* server accepts the connection, and that the user destroys the client,   *)
(* is not assumed.                                                         *)
Fairness == SF_vars(UserStep) /\ SF_vars(IOStep)

Spec == Init /\ [][Next]_vars /\ Fairness

-----------------------------------------------------------------------------

Inside == {"locked", "wait", "done"}

StartTypeOK ==
  /\ owner \in [Locks -> Threads \cup {None}]
  /\ holder \in [Locks -> Threads \cup {None}]
  /\ sleeping \in [Locks -> SUBSET Threads]
  /\ at \in [Threads -> Locks \cup {"none"}]
  /\ pc \in [Threads -> {"new", "unborn", "lock", "assign", "locked", "wait", "sleep", "asleep",
                         "done", "unlock", "made", "connected", "closing", "join", "destroy",
                         "looping", "counted", "ended"}]
  /\ loop \in BOOLEAN /\ conn \in BOOLEAN /\ quit \in BOOLEAN
  /\ count \in {0, 1}
  /\ got \in {"nothing yet", "null", "set"}
  /\ link \in {"none", "connecting", "up", "down"}

(* isLockedByThisThread tells the truth: holder_ names a thread only while *)
(* that thread has the mutex, through every sleep and wake-up, and it      *)
(* names it whenever the thread is in the part the mutex guards.           *)
HolderOwns ==
  \A m \in Locks, t \in Threads :
    /\ holder[m] = t => owner[m] = t
    /\ at[t] = m /\ pc[t] \in Inside => holder[m] = t

(* When the loop thread's mutex and the latch of a MuduoClient are         *)
(* destroyed nobody has, waits for or will use their mutexes (the          *)
(* assertion of ~MutexLock), and the IO thread, which writes _conn, has    *)
(* ended.                                                                  *)
DestroyedUnused ==
  pc[User] = "destroy" =>
    /\ pc[IO] = "ended"
    /\ \A m \in Locks : holder[m] = None /\ owner[m] = None /\ sleeping[m] = {}

(* GetConnection gives null in two cases: the IO thread has let Connect    *)
(* return and not yet set _conn, or the connection is lost.                *)
NullForAReason ==
  [][got' = "null" /\ got # "null"
       => at[IO] = "latch" \/ pc[IO] = "counted" \/ link = "down"]_vars

(* Connect returns once the connection has come up, and not before:        *)
(* whatever wakes the thread, and whenever it comes to wait.               *)
Latch == INSTANCE Gate WITH
  open   <- count = 0,
  passed <- pc[User] \in {"connected", "closing", "join", "destroy"}
ImplementsGate == Latch!GateSpec

=============================================================================
