-------------------------- MODULE ClientStartProofs --------------------------
(***************************************************************************)
(* Proofs about the start and end of a MuduoClient (ClientStart).          *)
(***************************************************************************)
EXTENDS ClientStart, TLAPS

LockPlaces == {"lock", "assign", "locked", "wait", "sleep", "asleep", "done", "unlock"}
Owning     == {"assign", "locked", "wait", "sleep", "done", "unlock"}

(* A thread is about a lock exactly in the middle of locking, waiting or   *)
(* unlocking, and the mutex and holder_ follow from where it is.           *)
Places ==
  /\ \A t \in Threads : at[t] # "none" <=> pc[t] \in LockPlaces
  /\ pc[User] \in LockPlaces \cup {"new", "made", "connected", "closing", "join", "destroy"}
  /\ pc[IO] \in {"unborn", "lock", "assign", "locked", "done", "unlock",
                 "looping", "counted", "ended"}

MutexOf(t, m) ==
  /\ owner[m] = t <=> at[t] = m /\ pc[t] \in Owning
  /\ holder[m] = t <=> at[t] = m /\ pc[t] \in Inside
  /\ t \in sleeping[m] => at[t] = m /\ pc[t] = "asleep"

Mutexes == \A t \in Threads, m \in Locks : MutexOf(t, m)

(* The connection, the count and _conn, one after the other. *)
Stages ==
  /\ pc[User] \in {"new", "made"} \/ at[User] = "loop" => link = "none"
  /\ pc[User] = "new" => pc[IO] = "unborn"
  /\ link \in {"none", "connecting"} => count = 1 /\ at[IO] # "latch" /\ pc[IO] # "counted"
  /\ at[IO] = "latch" /\ pc[IO] \in {"lock", "assign", "locked"} => count = 1
  /\ pc[IO] = "counted" \/ (at[IO] = "latch" /\ pc[IO] \in {"done", "unlock"}) => count = 0
  /\ count = 0 => conn \/ at[IO] = "latch" \/ pc[IO] = "counted" \/ link = "down"
  /\ pc[User] \in {"connected", "closing", "join", "destroy"} => count = 0
  /\ at[User] = "latch" /\ pc[User] \in {"done", "unlock"} => count = 0
  /\ pc[User] = "destroy" => pc[IO] = "ended"

IInv == StartTypeOK /\ Places /\ Mutexes /\ Stages

(* Before the client is made nobody is about a lock.                       *)
LEMMA InitInv == Init => IInv
<1> SUFFICES ASSUME Init PROVE IInv
  OBVIOUS
<1>1. StartTypeOK
  BY StartAssumption DEF Init, StartTypeOK, Threads, Locks
<1>2. Places
  BY StartAssumption DEF Init, Places, LockPlaces, Threads
<1>3. Mutexes
  BY StartAssumption DEF Init, Mutexes, MutexOf, Owning, Inside, Threads, Locks
<1>4. /\ pc[User] = "new" /\ pc[IO] = "unborn" /\ at[User] = "none" /\ at[IO] = "none"
      /\ link = "none" /\ count = 1
  BY StartAssumption DEF Init, Threads
<1>5. Stages
  BY <1>4 DEF Stages
<1> QED BY <1>1, <1>2, <1>3, <1>5 DEF IInv

-----------------------------------------------------------------------------
(* Each action keeps the invariant. *)

(* MutexLock::lock takes a mutex that is free, before holder_ says so.     *)
LEMMA LockInv ==
  ASSUME IInv, NEW t \in Threads, NEW m \in Locks, Lock(t, m)
  PROVE  IInv'
<1> USE StartAssumption DEF IInv
<1>1. StartTypeOK'
  BY DEF Lock, Go, mutexVars, clientVars, StartTypeOK, Places, Threads, Locks
<1>2. Places'
  <2>1. ASSUME NEW u \in Threads PROVE (at[u] # "none" <=> pc[u] \in LockPlaces)'
    <3>1. CASE u = t
      BY <3>1 DEF Lock, Go, mutexVars, clientVars, StartTypeOK, Places, LockPlaces, Locks
    <3>2. CASE u # t
      BY <3>2 DEF Lock, Go, mutexVars, clientVars, StartTypeOK, Places
    <3> QED BY <3>1, <3>2
  <2>2. (pc[User] \in LockPlaces \cup {"new", "made", "connected", "closing", "join", "destroy"})'
    BY DEF Lock, Go, mutexVars, clientVars, StartTypeOK, Places, LockPlaces, Threads, Locks
  <2>3. (pc[IO] \in {"unborn", "lock", "assign", "locked", "done", "unlock",
                      "looping", "counted", "ended"})'
    BY DEF Lock, Go, mutexVars, clientVars, StartTypeOK, Places, LockPlaces, Threads, Locks
  <2> QED BY <2>1, <2>2, <2>3 DEF Places
<1>3. Mutexes'
  <2> SUFFICES ASSUME NEW u \in Threads, NEW n \in Locks
               PROVE  MutexOf(u, n)'
    BY DEF Mutexes
  <2>1. MutexOf(u, n) /\ MutexOf(t, n) /\ MutexOf(u, m) /\ MutexOf(t, m)
    BY DEF Mutexes, Threads, Locks
  <2>2. /\ u # None /\ t # None
        /\ owner \in [Locks -> Threads \cup {None}] /\ holder \in [Locks -> Threads \cup {None}]
        /\ sleeping \in [Locks -> SUBSET Threads]
        /\ at \in [Threads -> Locks \cup {"none"}] /\ DOMAIN pc = Threads
        /\ t \in Threads /\ m \in Locks
        /\ at[u] # "none" <=> pc[u] \in LockPlaces
        /\ n # "none"
    BY DEF StartTypeOK, Places, Threads, Locks
  <2> QED BY <2>1, <2>2 DEF Lock, Go, mutexVars, clientVars, MutexOf, LockPlaces, Owning, Inside
<1>4. Stages'
  BY <1>1 DEF Lock, Go, mutexVars, clientVars, StartTypeOK, Places, LockPlaces, Stages, Threads, Locks
<1> QED BY <1>1, <1>2, <1>3, <1>4

(* holder_ is set by the thread that has just got the mutex.               *)
LEMMA AssignHolderInv ==
  ASSUME IInv, NEW t \in Threads, NEW m \in Locks, AssignHolder(t, m)
  PROVE  IInv'
<1> USE StartAssumption DEF IInv
<1>1. StartTypeOK'
  BY DEF AssignHolder, Go, mutexVars, clientVars, StartTypeOK, Places, Threads, Locks
<1>2. Places'
  <2>1. ASSUME NEW u \in Threads PROVE (at[u] # "none" <=> pc[u] \in LockPlaces)'
    <3>1. CASE u = t
      BY <3>1 DEF AssignHolder, Go, mutexVars, clientVars, StartTypeOK, Places, LockPlaces, Locks
    <3>2. CASE u # t
      BY <3>2 DEF AssignHolder, Go, mutexVars, clientVars, StartTypeOK, Places
    <3> QED BY <3>1, <3>2
  <2>2. (pc[User] \in LockPlaces \cup {"new", "made", "connected", "closing", "join", "destroy"})'
    BY DEF AssignHolder, Go, mutexVars, clientVars, StartTypeOK, Places, LockPlaces, Threads, Locks
  <2>3. (pc[IO] \in {"unborn", "lock", "assign", "locked", "done", "unlock",
                      "looping", "counted", "ended"})'
    BY DEF AssignHolder, Go, mutexVars, clientVars, StartTypeOK, Places, LockPlaces, Threads, Locks
  <2> QED BY <2>1, <2>2, <2>3 DEF Places
<1>3. Mutexes'
  <2> SUFFICES ASSUME NEW u \in Threads, NEW n \in Locks
               PROVE  MutexOf(u, n)'
    BY DEF Mutexes
  <2>1. MutexOf(u, n) /\ MutexOf(t, n) /\ MutexOf(u, m) /\ MutexOf(t, m)
    BY DEF Mutexes, Threads, Locks
  <2>2. /\ u # None /\ t # None
        /\ owner \in [Locks -> Threads \cup {None}] /\ holder \in [Locks -> Threads \cup {None}]
        /\ sleeping \in [Locks -> SUBSET Threads]
        /\ at \in [Threads -> Locks \cup {"none"}] /\ DOMAIN pc = Threads
        /\ t \in Threads /\ m \in Locks
        /\ at[u] # "none" <=> pc[u] \in LockPlaces
        /\ n # "none"
    BY DEF StartTypeOK, Places, Threads, Locks
  <2> QED BY <2>1, <2>2 DEF AssignHolder, Go, mutexVars, clientVars, MutexOf, LockPlaces, Owning, Inside
<1>4. Stages'
  BY <1>1 DEF AssignHolder, Go, mutexVars, clientVars, StartTypeOK, Places, LockPlaces, Stages, Threads, Locks
<1> QED BY <1>1, <1>2, <1>3, <1>4

(* unlock clears holder_ while the thread still has the mutex.             *)
LEMMA UnassignHolderInv ==
  ASSUME IInv, NEW t \in Threads, NEW m \in Locks, UnassignHolder(t, m)
  PROVE  IInv'
<1> USE StartAssumption DEF IInv
<1>1. StartTypeOK'
  BY DEF UnassignHolder, Go, mutexVars, clientVars, StartTypeOK, Places, Threads, Locks
<1>2. Places'
  <2>1. ASSUME NEW u \in Threads PROVE (at[u] # "none" <=> pc[u] \in LockPlaces)'
    <3>1. CASE u = t
      BY <3>1 DEF UnassignHolder, Go, mutexVars, clientVars, StartTypeOK, Places, LockPlaces, Locks
    <3>2. CASE u # t
      BY <3>2 DEF UnassignHolder, Go, mutexVars, clientVars, StartTypeOK, Places
    <3> QED BY <3>1, <3>2
  <2>2. (pc[User] \in LockPlaces \cup {"new", "made", "connected", "closing", "join", "destroy"})'
    BY DEF UnassignHolder, Go, mutexVars, clientVars, StartTypeOK, Places, LockPlaces, Threads, Locks
  <2>3. (pc[IO] \in {"unborn", "lock", "assign", "locked", "done", "unlock",
                      "looping", "counted", "ended"})'
    BY DEF UnassignHolder, Go, mutexVars, clientVars, StartTypeOK, Places, LockPlaces, Threads, Locks
  <2> QED BY <2>1, <2>2, <2>3 DEF Places
<1>3. Mutexes'
  <2> SUFFICES ASSUME NEW u \in Threads, NEW n \in Locks
               PROVE  MutexOf(u, n)'
    BY DEF Mutexes
  <2>1. MutexOf(u, n) /\ MutexOf(t, n) /\ MutexOf(u, m) /\ MutexOf(t, m)
    BY DEF Mutexes, Threads, Locks
  <2>2. /\ u # None /\ t # None
        /\ owner \in [Locks -> Threads \cup {None}] /\ holder \in [Locks -> Threads \cup {None}]
        /\ sleeping \in [Locks -> SUBSET Threads]
        /\ at \in [Threads -> Locks \cup {"none"}] /\ DOMAIN pc = Threads
        /\ t \in Threads /\ m \in Locks
        /\ at[u] # "none" <=> pc[u] \in LockPlaces
        /\ n # "none"
    BY DEF StartTypeOK, Places, Threads, Locks
  <2> QED BY <2>1, <2>2 DEF UnassignHolder, Go, mutexVars, clientVars, MutexOf, LockPlaces, Owning, Inside
<1>4. Stages'
  BY <1>1 DEF UnassignHolder, Go, mutexVars, clientVars, StartTypeOK, Places, LockPlaces, Stages, Threads, Locks
<1> QED BY <1>1, <1>2, <1>3, <1>4

(* The mutex is let go with holder_ cleared, and the thread goes on with   *)
(* what it met the other one for.                                          *)
LEMMA UnlockInv ==
  ASSUME IInv, NEW t \in Threads, NEW m \in Locks, Unlock(t, m)
  PROVE  IInv'
<1> USE StartAssumption DEF IInv
<1>1. StartTypeOK'
  BY DEF Unlock, After, Go, mutexVars, clientVars, StartTypeOK, Places, Threads, Locks
<1>2. Places'
  <2>1. ASSUME NEW u \in Threads PROVE (at[u] # "none" <=> pc[u] \in LockPlaces)'
    <3>1. CASE u = t
      BY <3>1 DEF Unlock, After, Go, mutexVars, clientVars, StartTypeOK, Places, LockPlaces, Locks, Threads
    <3>2. CASE u # t
      BY <3>2 DEF Unlock, After, Go, mutexVars, clientVars, StartTypeOK, Places
    <3> QED BY <3>1, <3>2
  <2>2. (pc[User] \in LockPlaces \cup {"new", "made", "connected", "closing", "join", "destroy"})'
    BY DEF Unlock, After, Go, mutexVars, clientVars, StartTypeOK, Places, LockPlaces, Threads, Locks
  <2>3. (pc[IO] \in {"unborn", "lock", "assign", "locked", "done", "unlock",
                      "looping", "counted", "ended"})'
    BY DEF Unlock, After, Go, mutexVars, clientVars, StartTypeOK, Places, LockPlaces, Threads, Locks
  <2> QED BY <2>1, <2>2, <2>3 DEF Places
<1>3. Mutexes'
  <2> SUFFICES ASSUME NEW u \in Threads, NEW n \in Locks
               PROVE  MutexOf(u, n)'
    BY DEF Mutexes
  <2>1. MutexOf(u, n) /\ MutexOf(t, n) /\ MutexOf(u, m) /\ MutexOf(t, m)
    BY DEF Mutexes, Threads, Locks
  <2>2. /\ u # None /\ t # None
        /\ owner \in [Locks -> Threads \cup {None}] /\ holder \in [Locks -> Threads \cup {None}]
        /\ sleeping \in [Locks -> SUBSET Threads]
        /\ at \in [Threads -> Locks \cup {"none"}] /\ DOMAIN pc = Threads
        /\ t \in Threads /\ m \in Locks
        /\ at[u] # "none" <=> pc[u] \in LockPlaces
        /\ n # "none"
    BY DEF StartTypeOK, Places, Threads, Locks
  <2> QED BY <2>1, <2>2 DEF Unlock, After, Go, mutexVars, clientVars, MutexOf, LockPlaces, Owning, Inside
<1>4. Stages'
  BY <1>1 DEF Unlock, After, Go, mutexVars, clientVars, StartTypeOK, Places, LockPlaces, Stages, Threads, Locks
<1> QED BY <1>1, <1>2, <1>3, <1>4

(* Condition::wait clears holder_ before the wait lets the mutex go.       *)
LEMMA UnassignGuardInv ==
  ASSUME IInv, NEW t \in Threads, NEW m \in Locks, UnassignGuard(t, m)
  PROVE  IInv'
<1> USE StartAssumption DEF IInv
<1>1. StartTypeOK'
  BY DEF UnassignGuard, Go, mutexVars, clientVars, StartTypeOK, Places, Threads, Locks
<1>2. Places'
  <2>1. ASSUME NEW u \in Threads PROVE (at[u] # "none" <=> pc[u] \in LockPlaces)'
    <3>1. CASE u = t
      BY <3>1 DEF UnassignGuard, Go, mutexVars, clientVars, StartTypeOK, Places, LockPlaces, Locks
    <3>2. CASE u # t
      BY <3>2 DEF UnassignGuard, Go, mutexVars, clientVars, StartTypeOK, Places
    <3> QED BY <3>1, <3>2
  <2>2. (pc[User] \in LockPlaces \cup {"new", "made", "connected", "closing", "join", "destroy"})'
    BY DEF UnassignGuard, Go, mutexVars, clientVars, StartTypeOK, Places, LockPlaces, Threads, Locks
  <2>3. (pc[IO] \in {"unborn", "lock", "assign", "locked", "done", "unlock",
                      "looping", "counted", "ended"})'
    BY DEF UnassignGuard, Go, mutexVars, clientVars, StartTypeOK, Places, LockPlaces, Threads, Locks
  <2> QED BY <2>1, <2>2, <2>3 DEF Places
<1>3. Mutexes'
  <2> SUFFICES ASSUME NEW u \in Threads, NEW n \in Locks
               PROVE  MutexOf(u, n)'
    BY DEF Mutexes
  <2>1. MutexOf(u, n) /\ MutexOf(t, n) /\ MutexOf(u, m) /\ MutexOf(t, m)
    BY DEF Mutexes, Threads, Locks
  <2>2. /\ u # None /\ t # None
        /\ owner \in [Locks -> Threads \cup {None}] /\ holder \in [Locks -> Threads \cup {None}]
        /\ sleeping \in [Locks -> SUBSET Threads]
        /\ at \in [Threads -> Locks \cup {"none"}] /\ DOMAIN pc = Threads
        /\ t \in Threads /\ m \in Locks
        /\ at[u] # "none" <=> pc[u] \in LockPlaces
        /\ n # "none"
    BY DEF StartTypeOK, Places, Threads, Locks
  <2> QED BY <2>1, <2>2 DEF UnassignGuard, Go, mutexVars, clientVars, MutexOf, LockPlaces, Owning, Inside
<1>4. Stages'
  BY <1>1 DEF UnassignGuard, Go, mutexVars, clientVars, StartTypeOK, Places, LockPlaces, Stages, Threads, Locks
<1> QED BY <1>1, <1>2, <1>3, <1>4

(* pthread_cond_wait lets the mutex go and the thread sleeps.              *)
LEMMA SleepInv ==
  ASSUME IInv, NEW t \in Threads, NEW m \in Locks, Sleep(t, m)
  PROVE  IInv'
<1> USE StartAssumption DEF IInv
<1>1. StartTypeOK'
  BY DEF Sleep, Go, mutexVars, clientVars, StartTypeOK, Places, Threads, Locks
<1>2. Places'
  <2>1. ASSUME NEW u \in Threads PROVE (at[u] # "none" <=> pc[u] \in LockPlaces)'
    <3>1. CASE u = t
      BY <3>1 DEF Sleep, Go, mutexVars, clientVars, StartTypeOK, Places, LockPlaces, Locks
    <3>2. CASE u # t
      BY <3>2 DEF Sleep, Go, mutexVars, clientVars, StartTypeOK, Places
    <3> QED BY <3>1, <3>2
  <2>2. (pc[User] \in LockPlaces \cup {"new", "made", "connected", "closing", "join", "destroy"})'
    BY DEF Sleep, Go, mutexVars, clientVars, StartTypeOK, Places, LockPlaces, Threads, Locks
  <2>3. (pc[IO] \in {"unborn", "lock", "assign", "locked", "done", "unlock",
                      "looping", "counted", "ended"})'
    BY DEF Sleep, Go, mutexVars, clientVars, StartTypeOK, Places, LockPlaces, Threads, Locks
  <2> QED BY <2>1, <2>2, <2>3 DEF Places
<1>3. Mutexes'
  <2> SUFFICES ASSUME NEW u \in Threads, NEW n \in Locks
               PROVE  MutexOf(u, n)'
    BY DEF Mutexes
  <2>1. MutexOf(u, n) /\ MutexOf(t, n) /\ MutexOf(u, m) /\ MutexOf(t, m)
    BY DEF Mutexes, Threads, Locks
  <2>2. /\ u # None /\ t # None
        /\ owner \in [Locks -> Threads \cup {None}] /\ holder \in [Locks -> Threads \cup {None}]
        /\ sleeping \in [Locks -> SUBSET Threads]
        /\ at \in [Threads -> Locks \cup {"none"}] /\ DOMAIN pc = Threads
        /\ t \in Threads /\ m \in Locks
        /\ at[u] # "none" <=> pc[u] \in LockPlaces
        /\ n # "none"
    BY DEF StartTypeOK, Places, Threads, Locks
  <2> QED BY <2>1, <2>2 DEF Sleep, Go, mutexVars, clientVars, MutexOf, LockPlaces, Owning, Inside
<1>4. Stages'
  BY <1>1 DEF Sleep, Go, mutexVars, clientVars, StartTypeOK, Places, LockPlaces, Stages, Threads, Locks
<1> QED BY <1>1, <1>2, <1>3, <1>4

(* A thread that was woken takes the mutex again, and has holder_ to set.  *)
LEMMA WakeUpInv ==
  ASSUME IInv, NEW t \in Threads, NEW m \in Locks, WakeUp(t, m)
  PROVE  IInv'
<1> USE StartAssumption DEF IInv
<1>1. StartTypeOK'
  BY DEF WakeUp, Go, mutexVars, clientVars, StartTypeOK, Places, Threads, Locks
<1>2. Places'
  <2>1. ASSUME NEW u \in Threads PROVE (at[u] # "none" <=> pc[u] \in LockPlaces)'
    <3>1. CASE u = t
      BY <3>1 DEF WakeUp, Go, mutexVars, clientVars, StartTypeOK, Places, LockPlaces, Locks
    <3>2. CASE u # t
      BY <3>2 DEF WakeUp, Go, mutexVars, clientVars, StartTypeOK, Places
    <3> QED BY <3>1, <3>2
  <2>2. (pc[User] \in LockPlaces \cup {"new", "made", "connected", "closing", "join", "destroy"})'
    BY DEF WakeUp, Go, mutexVars, clientVars, StartTypeOK, Places, LockPlaces, Threads, Locks
  <2>3. (pc[IO] \in {"unborn", "lock", "assign", "locked", "done", "unlock",
                      "looping", "counted", "ended"})'
    BY DEF WakeUp, Go, mutexVars, clientVars, StartTypeOK, Places, LockPlaces, Threads, Locks
  <2> QED BY <2>1, <2>2, <2>3 DEF Places
<1>3. Mutexes'
  <2> SUFFICES ASSUME NEW u \in Threads, NEW n \in Locks
               PROVE  MutexOf(u, n)'
    BY DEF Mutexes
  <2>1. MutexOf(u, n) /\ MutexOf(t, n) /\ MutexOf(u, m) /\ MutexOf(t, m)
    BY DEF Mutexes, Threads, Locks
  <2>2. /\ u # None /\ t # None
        /\ owner \in [Locks -> Threads \cup {None}] /\ holder \in [Locks -> Threads \cup {None}]
        /\ sleeping \in [Locks -> SUBSET Threads]
        /\ at \in [Threads -> Locks \cup {"none"}] /\ DOMAIN pc = Threads
        /\ t \in Threads /\ m \in Locks
        /\ at[u] # "none" <=> pc[u] \in LockPlaces
        /\ n # "none"
    BY DEF StartTypeOK, Places, Threads, Locks
  <2> QED BY <2>1, <2>2 DEF WakeUp, Go, mutexVars, clientVars, MutexOf, LockPlaces, Owning, Inside
<1>4. Stages'
  BY <1>1 DEF WakeUp, Go, mutexVars, clientVars, StartTypeOK, Places, LockPlaces, Stages, Threads, Locks
<1> QED BY <1>1, <1>2, <1>3, <1>4

(* A thread that is woken for no reason is where a notified one would be.  *)
LEMMA SpuriousWakeUpInv ==
  ASSUME IInv, NEW t \in Threads, NEW m \in Locks, SpuriousWakeUp(t, m)
  PROVE  IInv'
<1> USE StartAssumption DEF IInv
<1>1. StartTypeOK'
  BY DEF SpuriousWakeUp, Go, mutexVars, clientVars, StartTypeOK, Places, Threads, Locks
<1>2. Places'
  <2>1. ASSUME NEW u \in Threads PROVE (at[u] # "none" <=> pc[u] \in LockPlaces)'
    <3>1. CASE u = t
      BY <3>1 DEF SpuriousWakeUp, Go, mutexVars, clientVars, StartTypeOK, Places, LockPlaces, Locks
    <3>2. CASE u # t
      BY <3>2 DEF SpuriousWakeUp, Go, mutexVars, clientVars, StartTypeOK, Places
    <3> QED BY <3>1, <3>2
  <2>2. (pc[User] \in LockPlaces \cup {"new", "made", "connected", "closing", "join", "destroy"})'
    BY DEF SpuriousWakeUp, Go, mutexVars, clientVars, StartTypeOK, Places, LockPlaces, Threads, Locks
  <2>3. (pc[IO] \in {"unborn", "lock", "assign", "locked", "done", "unlock",
                      "looping", "counted", "ended"})'
    BY DEF SpuriousWakeUp, Go, mutexVars, clientVars, StartTypeOK, Places, LockPlaces, Threads, Locks
  <2> QED BY <2>1, <2>2, <2>3 DEF Places
<1>3. Mutexes'
  <2> SUFFICES ASSUME NEW u \in Threads, NEW n \in Locks
               PROVE  MutexOf(u, n)'
    BY DEF Mutexes
  <2>1. MutexOf(u, n) /\ MutexOf(t, n) /\ MutexOf(u, m) /\ MutexOf(t, m)
    BY DEF Mutexes, Threads, Locks
  <2>2. /\ u # None /\ t # None
        /\ owner \in [Locks -> Threads \cup {None}] /\ holder \in [Locks -> Threads \cup {None}]
        /\ sleeping \in [Locks -> SUBSET Threads]
        /\ at \in [Threads -> Locks \cup {"none"}] /\ DOMAIN pc = Threads
        /\ t \in Threads /\ m \in Locks
        /\ at[u] # "none" <=> pc[u] \in LockPlaces
        /\ n # "none"
    BY DEF StartTypeOK, Places, Threads, Locks
  <2> QED BY <2>1, <2>2 DEF SpuriousWakeUp, Go, mutexVars, clientVars, MutexOf, LockPlaces, Owning, Inside
<1>4. Stages'
  BY <1>1 DEF SpuriousWakeUp, Go, mutexVars, clientVars, StartTypeOK, Places, LockPlaces, Stages, Threads, Locks
<1> QED BY <1>1, <1>2, <1>3, <1>4

(* Whoever has waited tests again under the lock: it goes on only if what  *)
(* it waits for holds.                                                     *)
LEMMA TestInv ==
  ASSUME IInv, NEW m \in Locks, Test(m)
  PROVE  IInv'
<1> USE StartAssumption DEF IInv
<1>1. StartTypeOK'
  BY DEF Test, Holds, Go, mutexVars, clientVars, StartTypeOK, Places, Threads, Locks
<1>2. Places'
  BY DEF Test, Holds, Go, mutexVars, clientVars, StartTypeOK, Places, LockPlaces, Threads, Locks
<1>3. Mutexes'
  <2> SUFFICES ASSUME NEW u \in Threads, NEW n \in Locks
               PROVE  MutexOf(u, n)'
    BY DEF Mutexes
  <2>1. MutexOf(u, n) /\ MutexOf(User, n) /\ MutexOf(u, m) /\ MutexOf(User, m)
    BY DEF Mutexes, Threads, Locks
  <2>2. /\ u # None /\ User # None
        /\ owner \in [Locks -> Threads \cup {None}] /\ holder \in [Locks -> Threads \cup {None}]
        /\ sleeping \in [Locks -> SUBSET Threads]
        /\ at \in [Threads -> Locks \cup {"none"}] /\ DOMAIN pc = Threads
        /\ User \in Threads /\ m \in Locks
        /\ at[u] # "none" <=> pc[u] \in LockPlaces
        /\ n # "none"
    BY DEF StartTypeOK, Places, Threads, Locks
  <2> QED BY <2>1, <2>2 DEF Test, Holds, Go, mutexVars, clientVars, MutexOf, LockPlaces, Owning, Inside
<1>4. Stages'
  BY <1>1 DEF Test, Holds, Go, mutexVars, clientVars, StartTypeOK, Places, LockPlaces, Stages, Threads, Locks
<1> QED BY <1>1, <1>2, <1>3, <1>4

(* The constructor starts the IO thread, and both meet at the loop's       *)
(* lock.                                                                   *)
LEMMA NewClientInv ==
  ASSUME IInv, NewClient
  PROVE  IInv'
<1> USE StartAssumption DEF IInv
<1>1. StartTypeOK'
  BY DEF NewClient, Go, mutexVars, clientVars, StartTypeOK, Places, Threads, Locks
<1>2. Places'
  BY DEF NewClient, Go, mutexVars, clientVars, StartTypeOK, Places, LockPlaces, Threads, Locks
<1>3. Mutexes'
  <2> SUFFICES ASSUME NEW u \in Threads, NEW n \in Locks
               PROVE  MutexOf(u, n)'
    BY DEF Mutexes
  <2>1. MutexOf(u, n) /\ MutexOf(User, n) /\ MutexOf(u, "loop") /\ MutexOf(User, "loop")
    BY DEF Mutexes, Threads, Locks
  <2>2. /\ u # None /\ User # None
        /\ owner \in [Locks -> Threads \cup {None}] /\ holder \in [Locks -> Threads \cup {None}]
        /\ sleeping \in [Locks -> SUBSET Threads]
        /\ at \in [Threads -> Locks \cup {"none"}] /\ DOMAIN pc = Threads
        /\ User \in Threads /\ "loop" \in Locks
        /\ at[u] # "none" <=> pc[u] \in LockPlaces
        /\ n # "none"
    BY DEF StartTypeOK, Places, Threads, Locks
  <2>3. pc[u] \notin LockPlaces /\ pc'[u] = "lock"
    BY DEF NewClient, Stages, Threads, LockPlaces
  <2> QED BY <2>3, <2>1, <2>2 DEF mutexVars, NewClient, MutexOf, LockPlaces, Owning, Inside
<1>4. Stages'
  BY <1>1 DEF NewClient, Go, mutexVars, clientVars, StartTypeOK, Places, LockPlaces, Stages, Threads, Locks
<1> QED BY <1>1, <1>2, <1>3, <1>4

(* Connect asks for the connection and goes to the latch.                  *)
LEMMA ConnectInv ==
  ASSUME IInv, Connect
  PROVE  IInv'
<1> USE StartAssumption DEF IInv
<1>1. StartTypeOK'
  BY DEF Connect, Go, mutexVars, clientVars, StartTypeOK, Places, Threads, Locks
<1>2. Places'
  BY DEF Connect, Go, mutexVars, clientVars, StartTypeOK, Places, LockPlaces, Threads, Locks
<1>3. Mutexes'
  <2> SUFFICES ASSUME NEW u \in Threads, NEW n \in Locks
               PROVE  MutexOf(u, n)'
    BY DEF Mutexes
  <2>1. MutexOf(u, n) /\ MutexOf(User, n) /\ MutexOf(u, "latch") /\ MutexOf(User, "latch")
    BY DEF Mutexes, Threads, Locks
  <2>2. /\ u # None /\ User # None
        /\ owner \in [Locks -> Threads \cup {None}] /\ holder \in [Locks -> Threads \cup {None}]
        /\ sleeping \in [Locks -> SUBSET Threads]
        /\ at \in [Threads -> Locks \cup {"none"}] /\ DOMAIN pc = Threads
        /\ User \in Threads /\ "latch" \in Locks
        /\ at[u] # "none" <=> pc[u] \in LockPlaces
        /\ n # "none"
    BY DEF StartTypeOK, Places, Threads, Locks
  <2> QED BY <2>1, <2>2 DEF Connect, Go, mutexVars, clientVars, MutexOf, LockPlaces, Owning, Inside
<1>4. Stages'
  BY <1>1 DEF Connect, Go, mutexVars, clientVars, StartTypeOK, Places, LockPlaces, Stages, Threads, Locks
<1> QED BY <1>1, <1>2, <1>3, <1>4

(* GetConnection reads _conn without a lock and changes nothing.           *)
LEMMA GetConnectionInv ==
  ASSUME IInv, GetConnection
  PROVE  IInv'
<1> USE StartAssumption DEF IInv
<1>1. StartTypeOK'
  BY DEF GetConnection, Go, mutexVars, clientVars, StartTypeOK, Places, Threads, Locks
<1>2. Places'
  BY DEF GetConnection, Go, mutexVars, clientVars, StartTypeOK, Places, LockPlaces, Threads, Locks
<1>3. Mutexes'
  <2> SUFFICES ASSUME NEW u \in Threads, NEW n \in Locks
               PROVE  MutexOf(u, n)'
    BY DEF Mutexes
  <2>1. MutexOf(u, n) /\ MutexOf(User, n) /\ MutexOf(u, "latch") /\ MutexOf(User, "latch")
    BY DEF Mutexes, Threads, Locks
  <2>2. /\ u # None /\ User # None
        /\ owner \in [Locks -> Threads \cup {None}] /\ holder \in [Locks -> Threads \cup {None}]
        /\ sleeping \in [Locks -> SUBSET Threads]
        /\ at \in [Threads -> Locks \cup {"none"}] /\ DOMAIN pc = Threads
        /\ User \in Threads /\ "latch" \in Locks
        /\ at[u] # "none" <=> pc[u] \in LockPlaces
        /\ n # "none"
    BY DEF StartTypeOK, Places, Threads, Locks
  <2> QED BY <2>1, <2>2 DEF GetConnection, Go, mutexVars, clientVars, MutexOf, LockPlaces, Owning, Inside
<1>4. Stages'
  BY <1>1 DEF GetConnection, Go, mutexVars, clientVars, StartTypeOK, Places, LockPlaces, Stages, Threads, Locks
<1> QED BY <1>1, <1>2, <1>3, <1>4

(* ~TcpClient comes first, with the loop running.                          *)
LEMMA DestroyTcpClientInv ==
  ASSUME IInv, DestroyTcpClient
  PROVE  IInv'
<1> USE StartAssumption DEF IInv
<1>1. StartTypeOK'
  BY DEF DestroyTcpClient, Go, mutexVars, clientVars, StartTypeOK, Places, Threads, Locks
<1>2. Places'
  BY DEF DestroyTcpClient, Go, mutexVars, clientVars, StartTypeOK, Places, LockPlaces, Threads, Locks
<1>3. Mutexes'
  <2> SUFFICES ASSUME NEW u \in Threads, NEW n \in Locks
               PROVE  MutexOf(u, n)'
    BY DEF Mutexes
  <2>1. MutexOf(u, n) /\ MutexOf(User, n) /\ MutexOf(u, "latch") /\ MutexOf(User, "latch")
    BY DEF Mutexes, Threads, Locks
  <2>2. /\ u # None /\ User # None
        /\ owner \in [Locks -> Threads \cup {None}] /\ holder \in [Locks -> Threads \cup {None}]
        /\ sleeping \in [Locks -> SUBSET Threads]
        /\ at \in [Threads -> Locks \cup {"none"}] /\ DOMAIN pc = Threads
        /\ User \in Threads /\ "latch" \in Locks
        /\ at[u] # "none" <=> pc[u] \in LockPlaces
        /\ n # "none"
    BY DEF StartTypeOK, Places, Threads, Locks
  <2> QED BY <2>1, <2>2 DEF DestroyTcpClient, Go, mutexVars, clientVars, MutexOf, LockPlaces, Owning, Inside
<1>4. Stages'
  BY <1>1 DEF DestroyTcpClient, Go, mutexVars, clientVars, StartTypeOK, Places, LockPlaces, Stages, Threads, Locks
<1> QED BY <1>1, <1>2, <1>3, <1>4

(* Destruction begins: the loop is told to quit.                           *)
LEMMA QuitInv ==
  ASSUME IInv, Quit
  PROVE  IInv'
<1> USE StartAssumption DEF IInv
<1>1. StartTypeOK'
  BY DEF Quit, Go, mutexVars, clientVars, StartTypeOK, Places, Threads, Locks
<1>2. Places'
  BY DEF Quit, Go, mutexVars, clientVars, StartTypeOK, Places, LockPlaces, Threads, Locks
<1>3. Mutexes'
  <2> SUFFICES ASSUME NEW u \in Threads, NEW n \in Locks
               PROVE  MutexOf(u, n)'
    BY DEF Mutexes
  <2>1. MutexOf(u, n) /\ MutexOf(User, n) /\ MutexOf(u, "latch") /\ MutexOf(User, "latch")
    BY DEF Mutexes, Threads, Locks
  <2>2. /\ u # None /\ User # None
        /\ owner \in [Locks -> Threads \cup {None}] /\ holder \in [Locks -> Threads \cup {None}]
        /\ sleeping \in [Locks -> SUBSET Threads]
        /\ at \in [Threads -> Locks \cup {"none"}] /\ DOMAIN pc = Threads
        /\ User \in Threads /\ "latch" \in Locks
        /\ at[u] # "none" <=> pc[u] \in LockPlaces
        /\ n # "none"
    BY DEF StartTypeOK, Places, Threads, Locks
  <2> QED BY <2>1, <2>2 DEF Quit, Go, mutexVars, clientVars, MutexOf, LockPlaces, Owning, Inside
<1>4. Stages'
  BY <1>1 DEF Quit, Go, mutexVars, clientVars, StartTypeOK, Places, LockPlaces, Stages, Threads, Locks
<1> QED BY <1>1, <1>2, <1>3, <1>4

(* The join returns when the IO thread has ended.                          *)
LEMMA JoinInv ==
  ASSUME IInv, Join
  PROVE  IInv'
<1> USE StartAssumption DEF IInv
<1>1. StartTypeOK'
  BY DEF Join, Go, mutexVars, clientVars, StartTypeOK, Places, Threads, Locks
<1>2. Places'
  BY DEF Join, Go, mutexVars, clientVars, StartTypeOK, Places, LockPlaces, Threads, Locks
<1>3. Mutexes'
  <2> SUFFICES ASSUME NEW u \in Threads, NEW n \in Locks
               PROVE  MutexOf(u, n)'
    BY DEF Mutexes
  <2>1. MutexOf(u, n) /\ MutexOf(User, n) /\ MutexOf(u, "latch") /\ MutexOf(User, "latch")
    BY DEF Mutexes, Threads, Locks
  <2>2. /\ u # None /\ User # None
        /\ owner \in [Locks -> Threads \cup {None}] /\ holder \in [Locks -> Threads \cup {None}]
        /\ sleeping \in [Locks -> SUBSET Threads]
        /\ at \in [Threads -> Locks \cup {"none"}] /\ DOMAIN pc = Threads
        /\ User \in Threads /\ "latch" \in Locks
        /\ at[u] # "none" <=> pc[u] \in LockPlaces
        /\ n # "none"
    BY DEF StartTypeOK, Places, Threads, Locks
  <2> QED BY <2>1, <2>2 DEF Join, Go, mutexVars, clientVars, MutexOf, LockPlaces, Owning, Inside
<1>4. Stages'
  BY <1>1 DEF Join, Go, mutexVars, clientVars, StartTypeOK, Places, LockPlaces, Stages, Threads, Locks
<1> QED BY <1>1, <1>2, <1>3, <1>4

(* The IO thread tells startLoop of its loop, under the lock.              *)
LEMMA SetLoopInv ==
  ASSUME IInv, SetLoop
  PROVE  IInv'
<1> USE StartAssumption DEF IInv
<1>1. StartTypeOK'
  BY DEF SetLoop, NotifyAll, Go, mutexVars, clientVars, StartTypeOK, Places, Threads, Locks
<1>2. Places'
  BY DEF SetLoop, NotifyAll, Go, mutexVars, clientVars, StartTypeOK, Places, LockPlaces, Threads, Locks
<1>3. Mutexes'
  <2> SUFFICES ASSUME NEW u \in Threads, NEW n \in Locks
               PROVE  MutexOf(u, n)'
    BY DEF Mutexes
  <2>1. MutexOf(u, n) /\ MutexOf(IO, n) /\ MutexOf(u, "loop") /\ MutexOf(IO, "loop")
    BY DEF Mutexes, Threads, Locks
  <2>2. /\ u # None /\ IO # None
        /\ owner \in [Locks -> Threads \cup {None}] /\ holder \in [Locks -> Threads \cup {None}]
        /\ sleeping \in [Locks -> SUBSET Threads]
        /\ at \in [Threads -> Locks \cup {"none"}] /\ DOMAIN pc = Threads
        /\ IO \in Threads /\ "loop" \in Locks
        /\ at[u] # "none" <=> pc[u] \in LockPlaces
        /\ n # "none"
    BY DEF StartTypeOK, Places, Threads, Locks
  <2> QED BY <2>1, <2>2 DEF SetLoop, NotifyAll, Go, mutexVars, clientVars, MutexOf, LockPlaces, Owning, Inside
<1>4. Stages'
  BY <1>1 DEF SetLoop, NotifyAll, Go, mutexVars, clientVars, StartTypeOK, Places, LockPlaces, Stages, Threads, Locks
<1> QED BY <1>1, <1>2, <1>3, <1>4

(* At its end the IO thread takes the loop back, under the same lock.      *)
LEMMA ClearLoopInv ==
  ASSUME IInv, ClearLoop
  PROVE  IInv'
<1> USE StartAssumption DEF IInv
<1>1. StartTypeOK'
  BY DEF ClearLoop, Go, mutexVars, clientVars, StartTypeOK, Places, Threads, Locks
<1>2. Places'
  BY DEF ClearLoop, Go, mutexVars, clientVars, StartTypeOK, Places, LockPlaces, Threads, Locks
<1>3. Mutexes'
  <2> SUFFICES ASSUME NEW u \in Threads, NEW n \in Locks
               PROVE  MutexOf(u, n)'
    BY DEF Mutexes
  <2>1. MutexOf(u, n) /\ MutexOf(IO, n) /\ MutexOf(u, "loop") /\ MutexOf(IO, "loop")
    BY DEF Mutexes, Threads, Locks
  <2>2. /\ u # None /\ IO # None
        /\ owner \in [Locks -> Threads \cup {None}] /\ holder \in [Locks -> Threads \cup {None}]
        /\ sleeping \in [Locks -> SUBSET Threads]
        /\ at \in [Threads -> Locks \cup {"none"}] /\ DOMAIN pc = Threads
        /\ IO \in Threads /\ "loop" \in Locks
        /\ at[u] # "none" <=> pc[u] \in LockPlaces
        /\ n # "none"
    BY DEF StartTypeOK, Places, Threads, Locks
  <2> QED BY <2>1, <2>2 DEF ClearLoop, Go, mutexVars, clientVars, MutexOf, LockPlaces, Owning, Inside
<1>4. Stages'
  BY <1>1 DEF ClearLoop, Go, mutexVars, clientVars, StartTypeOK, Places, LockPlaces, Stages, Threads, Locks
<1> QED BY <1>1, <1>2, <1>3, <1>4

(* A loop that was told to quit leaves, and has one more lock to take.     *)
LEMMA LeaveLoopInv ==
  ASSUME IInv, LeaveLoop
  PROVE  IInv'
<1> USE StartAssumption DEF IInv
<1>1. StartTypeOK'
  BY DEF LeaveLoop, Go, mutexVars, clientVars, StartTypeOK, Places, Threads, Locks
<1>2. Places'
  BY DEF LeaveLoop, Go, mutexVars, clientVars, StartTypeOK, Places, LockPlaces, Threads, Locks
<1>3. Mutexes'
  <2> SUFFICES ASSUME NEW u \in Threads, NEW n \in Locks
               PROVE  MutexOf(u, n)'
    BY DEF Mutexes
  <2>1. MutexOf(u, n) /\ MutexOf(IO, n) /\ MutexOf(u, "loop") /\ MutexOf(IO, "loop")
    BY DEF Mutexes, Threads, Locks
  <2>2. /\ u # None /\ IO # None
        /\ owner \in [Locks -> Threads \cup {None}] /\ holder \in [Locks -> Threads \cup {None}]
        /\ sleeping \in [Locks -> SUBSET Threads]
        /\ at \in [Threads -> Locks \cup {"none"}] /\ DOMAIN pc = Threads
        /\ IO \in Threads /\ "loop" \in Locks
        /\ at[u] # "none" <=> pc[u] \in LockPlaces
        /\ n # "none"
    BY DEF StartTypeOK, Places, Threads, Locks
  <2> QED BY <2>1, <2>2 DEF LeaveLoop, Go, mutexVars, clientVars, MutexOf, LockPlaces, Owning, Inside
<1>4. Stages'
  BY <1>1 DEF LeaveLoop, Go, mutexVars, clientVars, StartTypeOK, Places, LockPlaces, Stages, Threads, Locks
<1> QED BY <1>1, <1>2, <1>3, <1>4

(* The connection comes up, and the IO thread goes to the latch with the   *)
(* count at one.                                                           *)
LEMMA OnConnectedInv ==
  ASSUME IInv, OnConnected
  PROVE  IInv'
<1> USE StartAssumption DEF IInv
<1>1. StartTypeOK'
  BY DEF OnConnected, Go, mutexVars, clientVars, StartTypeOK, Places, Threads, Locks
<1>2. Places'
  BY DEF OnConnected, Go, mutexVars, clientVars, StartTypeOK, Places, LockPlaces, Threads, Locks
<1>3. Mutexes'
  <2> SUFFICES ASSUME NEW u \in Threads, NEW n \in Locks
               PROVE  MutexOf(u, n)'
    BY DEF Mutexes
  <2>1. MutexOf(u, n) /\ MutexOf(IO, n) /\ MutexOf(u, "latch") /\ MutexOf(IO, "latch")
    BY DEF Mutexes, Threads, Locks
  <2>2. /\ u # None /\ IO # None
        /\ owner \in [Locks -> Threads \cup {None}] /\ holder \in [Locks -> Threads \cup {None}]
        /\ sleeping \in [Locks -> SUBSET Threads]
        /\ at \in [Threads -> Locks \cup {"none"}] /\ DOMAIN pc = Threads
        /\ IO \in Threads /\ "latch" \in Locks
        /\ at[u] # "none" <=> pc[u] \in LockPlaces
        /\ n # "none"
    BY DEF StartTypeOK, Places, Threads, Locks
  <2> QED BY <2>1, <2>2 DEF OnConnected, Go, mutexVars, clientVars, MutexOf, LockPlaces, Owning, Inside
<1>4. Stages'
  BY <1>1 DEF OnConnected, Go, mutexVars, clientVars, StartTypeOK, Places, LockPlaces, Stages, Threads, Locks
<1> QED BY <1>1, <1>2, <1>3, <1>4

(* countDown takes the only count, wakes the sleepers and has _conn still  *)
(* to set.                                                                 *)
LEMMA CountDownInv ==
  ASSUME IInv, CountDown
  PROVE  IInv'
<1> USE StartAssumption DEF IInv
<1>0. count = 1 /\ count' = 0
  BY DEF CountDown, Stages
<1>1. StartTypeOK'
  BY <1>0 DEF CountDown, NotifyAll, Go, mutexVars, clientVars, StartTypeOK, Places, Threads, Locks
<1>2. Places'
  BY DEF CountDown, NotifyAll, Go, mutexVars, clientVars, StartTypeOK, Places, LockPlaces, Threads, Locks
<1>3. Mutexes'
  <2> SUFFICES ASSUME NEW u \in Threads, NEW n \in Locks
               PROVE  MutexOf(u, n)'
    BY DEF Mutexes
  <2>1. MutexOf(u, n) /\ MutexOf(IO, n) /\ MutexOf(u, "latch") /\ MutexOf(IO, "latch")
    BY DEF Mutexes, Threads, Locks
  <2>2. /\ u # None /\ IO # None
        /\ owner \in [Locks -> Threads \cup {None}] /\ holder \in [Locks -> Threads \cup {None}]
        /\ sleeping \in [Locks -> SUBSET Threads]
        /\ at \in [Threads -> Locks \cup {"none"}] /\ DOMAIN pc = Threads
        /\ IO \in Threads /\ "latch" \in Locks
        /\ at[u] # "none" <=> pc[u] \in LockPlaces
        /\ n # "none"
    BY DEF StartTypeOK, Places, Threads, Locks
  <2> QED BY <2>1, <2>2 DEF CountDown, NotifyAll, Go, mutexVars, clientVars, MutexOf, LockPlaces, Owning, Inside
<1>4. Stages'
  BY <1>0, <1>1 DEF CountDown, NotifyAll, Go, mutexVars, clientVars, StartTypeOK, Places, LockPlaces, Stages, Threads, Locks
<1> QED BY <1>1, <1>2, <1>3, <1>4

(* _conn is set after the count: from here on GetConnection is not null.   *)
LEMMA SetConnectionInv ==
  ASSUME IInv, SetConnection
  PROVE  IInv'
<1> USE StartAssumption DEF IInv
<1>1. StartTypeOK'
  BY DEF SetConnection, Go, mutexVars, clientVars, StartTypeOK, Places, Threads, Locks
<1>2. Places'
  BY DEF SetConnection, Go, mutexVars, clientVars, StartTypeOK, Places, LockPlaces, Threads, Locks
<1>3. Mutexes'
  <2> SUFFICES ASSUME NEW u \in Threads, NEW n \in Locks
               PROVE  MutexOf(u, n)'
    BY DEF Mutexes
  <2>1. MutexOf(u, n) /\ MutexOf(IO, n) /\ MutexOf(u, "latch") /\ MutexOf(IO, "latch")
    BY DEF Mutexes, Threads, Locks
  <2>2. /\ u # None /\ IO # None
        /\ owner \in [Locks -> Threads \cup {None}] /\ holder \in [Locks -> Threads \cup {None}]
        /\ sleeping \in [Locks -> SUBSET Threads]
        /\ at \in [Threads -> Locks \cup {"none"}] /\ DOMAIN pc = Threads
        /\ IO \in Threads /\ "latch" \in Locks
        /\ at[u] # "none" <=> pc[u] \in LockPlaces
        /\ n # "none"
    BY DEF StartTypeOK, Places, Threads, Locks
  <2> QED BY <2>1, <2>2 DEF SetConnection, Go, mutexVars, clientVars, MutexOf, LockPlaces, Owning, Inside
<1>4. Stages'
  BY <1>1 DEF SetConnection, Go, mutexVars, clientVars, StartTypeOK, Places, LockPlaces, Stages, Threads, Locks
<1> QED BY <1>1, <1>2, <1>3, <1>4

(* The connection goes down and _conn is reset.                            *)
LEMMA OnDisconnectedInv ==
  ASSUME IInv, OnDisconnected
  PROVE  IInv'
<1> USE StartAssumption DEF IInv
<1>1. StartTypeOK'
  BY DEF OnDisconnected, Go, mutexVars, clientVars, StartTypeOK, Places, Threads, Locks
<1>2. Places'
  BY DEF OnDisconnected, Go, mutexVars, clientVars, StartTypeOK, Places, LockPlaces, Threads, Locks
<1>3. Mutexes'
  <2> SUFFICES ASSUME NEW u \in Threads, NEW n \in Locks
               PROVE  MutexOf(u, n)'
    BY DEF Mutexes
  <2>1. MutexOf(u, n) /\ MutexOf(IO, n) /\ MutexOf(u, "latch") /\ MutexOf(IO, "latch")
    BY DEF Mutexes, Threads, Locks
  <2>2. /\ u # None /\ IO # None
        /\ owner \in [Locks -> Threads \cup {None}] /\ holder \in [Locks -> Threads \cup {None}]
        /\ sleeping \in [Locks -> SUBSET Threads]
        /\ at \in [Threads -> Locks \cup {"none"}] /\ DOMAIN pc = Threads
        /\ IO \in Threads /\ "latch" \in Locks
        /\ at[u] # "none" <=> pc[u] \in LockPlaces
        /\ n # "none"
    BY DEF StartTypeOK, Places, Threads, Locks
  <2> QED BY <2>1, <2>2 DEF OnDisconnected, Go, mutexVars, clientVars, MutexOf, LockPlaces, Owning, Inside
<1>4. Stages'
  BY <1>1 DEF OnDisconnected, Go, mutexVars, clientVars, StartTypeOK, Places, LockPlaces, Stages, Threads, Locks
<1> QED BY <1>1, <1>2, <1>3, <1>4

(* The invariant is about the variables only.                              *)
LEMMA StutterInv == ASSUME IInv, UNCHANGED vars PROVE IInv'
<1> USE DEF IInv, vars, mutexVars, clientVars
<1>1. StartTypeOK'
  BY DEF StartTypeOK
<1>2. Places'
  BY DEF Places
<1>3. Mutexes'
  BY DEF Mutexes, MutexOf
<1>4. Stages'
  BY DEF Stages
<1> QED BY <1>1, <1>2, <1>3, <1>4

(* Every step of either thread keeps the invariant.                        *)
LEMMA StepInv == IInv /\ [Next]_vars => IInv'
<1> SUFFICES ASSUME IInv, [Next]_vars PROVE IInv'
  OBVIOUS
<1>1. ASSUME NEW t \in Threads, NEW m \in Locks, Mutex(t, m) PROVE IInv'
  BY <1>1, LockInv, AssignHolderInv, UnassignHolderInv, UnlockInv, UnassignGuardInv,
     SleepInv, WakeUpInv DEF Mutex
<1>2. CASE UserStep
  BY <1>2, <1>1, TestInv, NewClientInv, ConnectInv, QuitInv, JoinInv DEF UserStep, Threads
<1>3. CASE IOStep
  BY <1>3, <1>1, SetLoopInv, ClearLoopInv, LeaveLoopInv, CountDownInv, SetConnectionInv
  DEF IOStep, Threads
<1>4. CASE GetConnection \/ DestroyTcpClient \/ OnConnected \/ OnDisconnected
  BY <1>4, GetConnectionInv, DestroyTcpClientInv, OnConnectedInv, OnDisconnectedInv
<1>5. CASE \E t \in Threads, m \in Locks : SpuriousWakeUp(t, m)
  BY <1>5, SpuriousWakeUpInv
<1>6. CASE UNCHANGED vars
  BY <1>6, StutterInv
<1> QED BY <1>2, <1>3, <1>4, <1>5, <1>6 DEF Next

(* Where the two threads are determines who has each mutex and who its     *)
(* holder_ names, and the count follows the connection, in every reachable *)
(* state.                                                                  *)
THEOREM InvariantHolds == Spec => []IInv
  BY InitInv, StepInv, PTL DEF Spec

(* The variables keep their types; count_ never goes below zero.           *)
THEOREM TypeCorrect == Spec => []StartTypeOK
<1>1. IInv => StartTypeOK
  BY DEF IInv
<1> QED BY <1>1, InvariantHolds, PTL

(* holder_ never names a thread that does not have the mutex, whatever     *)
(* wakes it, and names it wherever the mutex guards.                       *)
THEOREM HolderAlwaysOwns == Spec => []HolderOwns
<1>1. IInv => HolderOwns
  BY DEF IInv, HolderOwns, Mutexes, MutexOf, Owning, Inside
<1> QED BY <1>1, InvariantHolds, PTL

(* ~MutexLock's assertion: nobody has, waits for or will use the mutexes   *)
(* of the loop thread and of the latch when they are destroyed, and the    *)
(* thread that writes _conn has ended.                                     *)
THEOREM LoopAndLatchAreUnused == Spec => []DestroyedUnused
<1>1. ASSUME IInv PROVE DestroyedUnused
  <2> SUFFICES ASSUME pc[User] = "destroy", NEW m \in Locks
               PROVE  holder[m] = None /\ owner[m] = None /\ sleeping[m] = {}
    BY <1>1 DEF DestroyedUnused, IInv, Stages
  <2>1. pc[IO] = "ended"
    BY <1>1 DEF IInv, Stages
  <2>2. \A t \in Threads : at[t] # m
    BY <1>1, <2>1 DEF IInv, Places, LockPlaces, Threads, Locks
  <2>3. \A t \in Threads : owner[m] # t /\ holder[m] # t /\ t \notin sleeping[m]
    BY <1>1, <2>2 DEF IInv, Mutexes, MutexOf
  <2>4. /\ owner[m] \in Threads \cup {None} /\ holder[m] \in Threads \cup {None}
        /\ sleeping[m] \subseteq Threads
    BY <1>1 DEF IInv, StartTypeOK
  <2> QED BY <2>1, <2>3, <2>4
<1> QED BY <1>1, InvariantHolds, PTL

(* GetConnection gives null only until OnConnection is through, or when    *)
(* the connection is lost.                                                 *)
THEOREM NullOnlyForAReason == Spec => NullForAReason
<1>1. IInv /\ [Next]_vars =>
        [got' = "null" /\ got # "null"
           => at[IO] = "latch" \/ pc[IO] = "counted" \/ link = "down"]_vars
  <2> SUFFICES ASSUME IInv, Next, got' = "null", got # "null"
               PROVE  at[IO] = "latch" \/ pc[IO] = "counted" \/ link = "down"
    BY DEF vars
  <2>1. GetConnection
    BY DEF Next, UserStep, IOStep, Mutex, Lock, AssignHolder, UnassignHolder, Unlock, UnassignGuard,
           Sleep, WakeUp, SpuriousWakeUp, Test, NewClient, Connect, DestroyTcpClient, Quit, Join, SetLoop, ClearLoop,
           LeaveLoop, OnConnected, CountDown, SetConnection, OnDisconnected, clientVars
  <2> QED BY <2>1 DEF GetConnection, IInv, Stages
<1> QED BY <1>1, InvariantHolds, PTL DEF Spec, NullForAReason

(* Connect returns only after the connection has come up, once: every step *)
(* of the threads opens the gate, passes it or does neither.               *)
THEOREM ConnectPassesOpenGate ==
  Spec => Latch!GateInit /\ [][Latch!GateNext]_<<count = 0, pc[User] \in {"connected", "closing", "join", "destroy"}>>
<1> DEFINE gate == <<count = 0, pc[User] \in {"connected", "closing", "join", "destroy"}>>
<1>1. ASSUME Init PROVE Latch!GateInit
  <2>1. count # 0 /\ pc[User] = "new"
    <3>1. pc = [t \in Threads |-> IF t = User THEN "new" ELSE "unborn"] /\ count = 1
      BY <1>1 DEF Init
    <3> QED BY <3>1 DEF Threads
  <2>2. (count = 0) = FALSE
    BY <2>1
  <2>3. (pc[User] \in {"connected", "closing", "join", "destroy"}) = FALSE
    BY <2>1
  <2> QED BY <2>2, <2>3 DEF Latch!GateInit
<1>2. IInv /\ [Next]_vars => [Latch!GateNext]_gate
  <2> SUFFICES ASSUME IInv, [Next]_vars PROVE [Latch!GateNext]_gate
    OBVIOUS
  <2> USE DEF Latch!GateNext, Latch!Open, Latch!Pass
  <2>1. IInv'
    BY StepInv
  <2>2. CASE CountDown
    <3>1. count = 1 /\ count' = 0
      BY <2>2 DEF CountDown, IInv, Stages
    <3>2. pc'[User] = pc[User]
      BY <2>2, StartAssumption DEF CountDown, Go, IInv, StartTypeOK, Threads
    <3>3. pc[User] \notin {"connected", "closing", "join", "destroy"}
      BY <3>1 DEF IInv, Stages
    <3> QED BY <3>1, <3>2, <3>3
  <2>3. CASE ~ CountDown
    <3>1. count' = count
      BY <2>3 DEF Next, UserStep, IOStep, Mutex, Lock, AssignHolder, UnassignHolder, Unlock, UnassignGuard,
             Sleep, WakeUp, SpuriousWakeUp, Test, NewClient, Connect, GetConnection, DestroyTcpClient, Quit, Join, SetLoop,
             ClearLoop, LeaveLoop, OnConnected, SetConnection, OnDisconnected, clientVars, vars
    <3>2. pc'[User] \in {"connected", "closing", "join", "destroy"} => count = 0
      BY <2>1, <3>1 DEF IInv, Stages
    <3>3. pc[User] \in {"connected", "closing", "join", "destroy"} => pc'[User] \in {"connected", "closing", "join", "destroy"}
      BY StartAssumption
      DEF Next, UserStep, IOStep, Mutex, Lock, AssignHolder, UnassignHolder, Unlock, UnassignGuard,
          Sleep, WakeUp, SpuriousWakeUp, Test, NewClient, Connect, GetConnection, DestroyTcpClient, Quit, Join, SetLoop,
          ClearLoop, LeaveLoop, OnConnected, CountDown, SetConnection, OnDisconnected, Go, vars,
          IInv, StartTypeOK, Places, LockPlaces, Threads
    <3> QED BY <3>1, <3>2, <3>3
  <2> QED BY <2>2, <2>3
<1> QED BY <1>1, <1>2, InvariantHolds, PTL DEF Spec

=============================================================================
