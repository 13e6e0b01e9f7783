--------------------------- MODULE CardLockProofs ---------------------------
(***************************************************************************)
(* When the card lock excludes, for any number of processes, of which any  *)
(* number may be killed: always, but for the one case in which the unlink  *)
(* of a reclaimer takes another lock than the abandoned one it had checked.*)
(***************************************************************************)
EXTENDS CardLock, TLAPS

\* Who has created the lock file has it, written once it may use it.
Owning == Critical \cup {"created"}

LockIsOwned ==
    \A p \in Procs : pc[p] \in Owning =>
        /\ lock # NoLock
        /\ lock.by = p
        /\ lock.written <=> pc[p] # "created"

\* What a reclaimer found out is true as long as the file is the one it saw.
MemoryIsRight ==
    \A p \in Procs : sameLock[p] =>
        /\ pc[p] \in {"examined", "judged", "condemnedLock"} => lock # NoLock /\ lock.old
        /\ pc[p] \in {"judged", "condemnedLock"} => Reclaimable

CondemnedCardsAreStale ==
    \A p \in Procs : pc[p] = "condemnedCard" => card = "stale"

\* As long as nothing has gone wrong, everybody lives, a lock is unwritten only
\* while it is being written and not for long, and so none is condemned.
AllIsWell ==
    /\ Crashed = {}
    /\ lock # NoLock /\ ~lock.written => BeingWritten /\ ~lock.old
    /\ \A p \in Procs : pc[p] # "condemnedLock"
    /\ ~slipped

\* The inductive invariant.
IInv ==
    /\ TypeOK
    /\ MemoryIsRight
    /\ slipped \/ LockIsOwned
    /\ slipped \/ CondemnedCardsAreStale
    /\ mishaps # 0 \/ AllIsWell

\* A lock file is there or not: the two are told apart by their fields.
LEMMA LockFilesAreNotNoLock ==
    ASSUME NEW p, NEW w, NEW o
    PROVE  LockFile(p, w, o) # NoLock
<1>1. DOMAIN LockFile(p, w, o) = {"by", "written", "old"}
  BY DEF LockFile
<1>2. DOMAIN NoLock = {"by"}
  BY DEF NoLock
<1> QED
  BY <1>1, <1>2

\* The lock path holds a typed file whenever it holds one.
LEMMA LockShape ==
    ASSUME TypeOK, lock # NoLock
    PROVE  /\ lock.by \in Procs
           /\ lock.written \in BOOLEAN
           /\ lock.old \in BOOLEAN
           /\ lock = LockFile(lock.by, lock.written, lock.old)
BY DEF TypeOK, LockFile

\* Only one process owns the lock file.
LEMMA OwnersAreUnique ==
    ASSUME LockIsOwned, NEW p \in Procs, NEW q \in Procs, pc[p] \in Owning, pc[q] \in Owning
    PROVE  p = q
BY DEF LockIsOwned

\* In the beginning there is neither lock nor card.
LEMMA InitIInv == ASSUME Init PROVE IInv
<1>1. \A p \in Procs : pc[p] = "idle" /\ ~sameLock[p]
  BY DEF Init
<1>2. TypeOK
  <2>1. mishaps \in 0..MaxMishaps
    BY MishapAssumption DEF Init
  <2>2. pc \in [Procs -> {"idle", "dead"} \cup Acquiring \cup Critical]
    BY DEF Init
  <2>3. sameLock \in [Procs -> BOOLEAN] /\ sameCard \in [Procs -> BOOLEAN]
    BY DEF Init
  <2>4. slipped \in BOOLEAN
    BY DEF Init
  <2>5. lock \in {NoLock} \cup {LockFile(p, w, o) : p \in Procs, w, o \in BOOLEAN}
    BY DEF Init
  <2>6. card \in {"none", "fresh", "stale"}
    BY DEF Init
  <2> QED
    BY <2>1, <2>2, <2>3, <2>4, <2>5, <2>6 DEF TypeOK
<1>3. MemoryIsRight /\ LockIsOwned /\ CondemnedCardsAreStale
  BY <1>1 DEF MemoryIsRight, LockIsOwned, CondemnedCardsAreStale, Owning, Critical
<1>4. AllIsWell
  BY <1>1 DEF Init, AllIsWell, Crashed, Alive
<1> QED
  BY <1>2, <1>3, <1>4 DEF IInv

Places == {"idle", "dead"} \cup Acquiring \cup Critical

\* A process goes from one system call to the next, or is killed, and leaves the
\* lock and the card alone; what it knows and has at the new place is true
\* (OpenFails, Examine, Judge, Recheck, ReadAgain, Crash, ...).
GoesOn(p, to) ==
    /\ to \in Places
    /\ pc[p] # "dead"
    /\ pc' = [pc EXCEPT ![p] = to]
    /\ UNCHANGED <<lock, card, slipped>>
    /\ sameLock' \in [Procs -> BOOLEAN]
    /\ sameCard' \in [Procs -> BOOLEAN]
    /\ mishaps' \in 0..MaxMishaps
    /\ mishaps' = 0 => /\ mishaps = 0
                       /\ pc[p] # "created"
                       /\ to \notin {"dead", "condemnedLock"}
    /\ \A q \in Procs \ {p} : sameLock'[q] = sameLock[q]
    /\ sameLock'[p] =>
          /\ to \in {"examined", "judged", "condemnedLock"} => lock # NoLock /\ lock.old
          /\ to \in {"judged", "condemnedLock"} => Reclaimable
    /\ to \in Owning =>
          slipped \/ (pc[p] \in Owning /\ (to = "created" <=> pc[p] = "created"))
    /\ to = "condemnedCard" => slipped \/ card = "stale"

LEMMA GoingKeepsIInv ==
    ASSUME IInv, NEW p \in Procs, NEW to, GoesOn(p, to)
    PROVE  IInv'
<1> USE DEF GoesOn, Places
<1>t. TypeOK
  BY DEF IInv
<1>a. /\ pc' \in [Procs -> {"idle", "dead"} \cup Acquiring \cup Critical]
      /\ pc'[p] = to
      /\ \A q \in Procs \ {p} : pc'[q] = pc[q]
  BY <1>t DEF TypeOK
<1>b. \A q \in Procs : ~Alive(q) => ~Alive(q)'
  BY <1>a DEF Alive
<1>d. lock # NoLock => lock.by \in Procs
  BY <1>t, LockShape
<1>1. TypeOK'
  BY <1>a, <1>t DEF TypeOK
<1>2. Reclaimable => Reclaimable'
  BY <1>b, <1>d DEF Reclaimable
<1>3. MemoryIsRight'
  BY <1>a, <1>2 DEF IInv, MemoryIsRight
<1>4. (slipped \/ LockIsOwned)'
  BY <1>a DEF IInv, LockIsOwned, Owning
<1>5. (slipped \/ CondemnedCardsAreStale)'
  BY <1>a DEF IInv, CondemnedCardsAreStale
<1>6. (mishaps # 0 \/ AllIsWell)'
  <2> SUFFICES ASSUME mishaps' = 0
               PROVE  AllIsWell'
    OBVIOUS
  <2>1. mishaps = 0 /\ AllIsWell
    BY DEF IInv
  <2>2. Crashed' = {}
    BY <1>a, <2>1 DEF AllIsWell, Crashed, Alive
  <2>3. (lock # NoLock /\ ~lock.written => BeingWritten /\ ~lock.old)'
    BY <1>a, <1>d, <2>1 DEF AllIsWell, BeingWritten
  <2>4. \A q \in Procs : pc'[q] # "condemnedLock"
    BY <1>a, <2>1 DEF AllIsWell
  <2> QED
    BY <2>1, <2>2, <2>3, <2>4 DEF AllIsWell
<1> QED
  BY <1>1, <1>3, <1>4, <1>5, <1>6 DEF IInv

\* A process changes the lock path, and nobody remembers it any more; the new
\* file is fit for its owner and, unless this is a slip or after one, no other
\* process owned the old one (Open, WriteOwner, GiveUpCreated, Reclaim, Unlock).
Replaces(p, to, file) ==
    /\ to \in {"idle", "opening", "created", "locked"}
    /\ \/ to \in {"idle", "opening"} /\ file = NoLock
       \/ to = "created" /\ file = LockFile(p, FALSE, FALSE)
       \/ to = "locked" /\ \E o \in BOOLEAN : file = LockFile(p, TRUE, o)
    /\ pc[p] # "dead"
    /\ pc' = [pc EXCEPT ![p] = to]
    /\ LockBecomes(file)
    /\ UNCHANGED <<card, sameCard, mishaps>>
    /\ slipped' \in BOOLEAN
    /\ slipped => slipped'
    /\ slipped' => mishaps # 0
    /\ slipped' \/ \A q \in Procs \ {p} : pc[q] \notin Owning

LEMMA ReplacingKeepsIInv ==
    ASSUME IInv, NEW p \in Procs, NEW to, NEW file, Replaces(p, to, file)
    PROVE  IInv'
<1> USE DEF Replaces
<1> USE DEF LockBecomes
<1>t. TypeOK
  BY DEF IInv
<1>a. /\ pc' \in [Procs -> {"idle", "dead"} \cup Acquiring \cup Critical]
      /\ pc'[p] = to
      /\ \A q \in Procs \ {p} : pc'[q] = pc[q]
  BY <1>t DEF TypeOK, Acquiring, Critical
<1>1. TypeOK'
  <2>1. CASE file = NoLock
    BY <1>a, <1>t, <2>1 DEF TypeOK
  <2>2. CASE file # NoLock
    <3>1. PICK w \in BOOLEAN, o \in BOOLEAN : file = LockFile(p, w, o)
      BY <2>2
    <3>2. lock' \in {LockFile(q, v, u) : q \in Procs, v, u \in BOOLEAN}
      BY <3>1
    <3> QED
      BY <1>a, <1>t, <3>2 DEF TypeOK
  <2> QED
    BY <2>1, <2>2
<1>2. MemoryIsRight'
  BY DEF MemoryIsRight
<1>3. (slipped \/ LockIsOwned)'
  <2> SUFFICES ASSUME ~slipped'
               PROVE  LockIsOwned'
    OBVIOUS
  <2>1. \A q \in Procs \ {p} : pc'[q] \notin Owning
    BY <1>a DEF Owning
  <2>2. CASE to = "created"
    BY <1>a, <2>1, <2>2, LockFilesAreNotNoLock DEF LockIsOwned, LockFile
  <2>3. CASE to = "locked"
    BY <1>a, <2>1, <2>3, LockFilesAreNotNoLock DEF LockIsOwned, LockFile
  <2>4. CASE to \in {"idle", "opening"}
    BY <1>a, <2>1, <2>4 DEF LockIsOwned, Owning, Critical
  <2> QED
    BY <2>2, <2>3, <2>4
<1>4. (slipped \/ CondemnedCardsAreStale)'
  BY <1>a DEF IInv, CondemnedCardsAreStale
<1>5. (mishaps # 0 \/ AllIsWell)'
  <2> SUFFICES ASSUME mishaps = 0
               PROVE  AllIsWell'
    OBVIOUS
  <2>1. AllIsWell
    BY DEF IInv
  <2>2. Crashed' = {}
    BY <1>a, <2>1 DEF AllIsWell, Crashed, Alive
  <2>3. (lock # NoLock /\ ~lock.written => BeingWritten /\ ~lock.old)'
    <3>1. CASE to = "created"
      BY <1>a, <3>1 DEF BeingWritten, LockFile
    <3>2. CASE to # "created"
      <4>1. file = NoLock \/ file.written
        BY <3>2 DEF LockFile
      <4> QED
        BY <4>1
    <3> QED
      BY <3>1, <3>2
  <2>4. \A q \in Procs : pc'[q] # "condemnedLock"
    BY <1>a, <2>1 DEF AllIsWell
  <2> QED
    BY <2>2, <2>3, <2>4 DEF AllIsWell
<1> QED
  BY <1>1, <1>2, <1>3, <1>4, <1>5 DEF IInv

\* Whoever changes the card owns the lock, so nobody else has condemned it.
LEMMA CardChangeKeepsIInv ==
    ASSUME IInv, NEW p \in Procs, pc[p] \in {"locked", "condemnedCard"},
           pc' = [pc EXCEPT ![p] = "releasing"], card' \in {"none", "fresh"},
           sameCard' \in [Procs -> BOOLEAN], UNCHANGED <<lock, sameLock, past>>
    PROVE  IInv'
<1> USE DEF past
<1>t. TypeOK
  BY DEF IInv
<1>a. /\ pc' \in [Procs -> {"idle", "dead"} \cup Acquiring \cup Critical]
      /\ pc'[p] = "releasing"
      /\ \A q \in Procs \ {p} : pc'[q] = pc[q]
  BY <1>t DEF TypeOK, Acquiring, Critical
<1>b. \A q \in Procs : Alive(q)' <=> Alive(q)
  BY <1>a DEF Alive
<1>d. lock # NoLock => lock.by \in Procs
  BY <1>t, LockShape
<1>1. TypeOK'
  BY <1>a, <1>t DEF TypeOK
<1>2. MemoryIsRight'
  BY <1>a, <1>b, <1>d DEF IInv, MemoryIsRight, Reclaimable
<1>3. (slipped \/ LockIsOwned)'
  BY <1>a DEF IInv, LockIsOwned, Owning, Critical
<1>4. (slipped \/ CondemnedCardsAreStale)'
  BY <1>a, OwnersAreUnique DEF IInv, CondemnedCardsAreStale, Owning, Critical
<1>5. (mishaps # 0 \/ AllIsWell)'
  BY <1>a, <1>b, <1>d DEF IInv, AllIsWell, Crashed, BeingWritten
<1> QED
  BY <1>1, <1>2, <1>3, <1>4, <1>5 DEF IInv

\* Time passes for the lock file: a late write is a mishap, and whoever has
\* looked at the file before had found it old.
LEMMA AgeingKeepsIInv ==
    ASSUME IInv, LockAges \/ WriteIsLate
    PROVE  IInv'
<1>0. /\ GetsOld
      /\ mishaps' \in 0..MaxMishaps
      /\ mishaps' = 0 => mishaps = 0 /\ ~BeingWritten
  BY MishapAssumption DEF LockAges, WriteIsLate, GoesWrong, IInv, TypeOK
<1> USE DEF GetsOld, mind
<1>a. /\ lock # NoLock
      /\ lock = LockFile(lock.by, lock.written, FALSE)
      /\ lock' = LockFile(lock.by, lock.written, TRUE)
      /\ lock.by \in Procs /\ lock.written \in BOOLEAN
  BY <1>0, LockShape DEF IInv, LockFile
<1>b. /\ lock' # NoLock
      /\ lock'.by = lock.by /\ lock'.written = lock.written /\ lock'.old = TRUE
  BY <1>a, LockFilesAreNotNoLock DEF LockFile
<1>1. TypeOK'
  <2>1. PICK q \in Procs, v \in BOOLEAN, u \in BOOLEAN : lock' = LockFile(q, v, u)
    BY <1>a
  <2>2. lock' \in {LockFile(p, w, o) : p \in Procs, w, o \in BOOLEAN}
    BY <2>1
  <2> QED
    BY <1>0, <2>2 DEF IInv, TypeOK
<1>2. MemoryIsRight'
  BY <1>0, <1>a, <1>b DEF IInv, MemoryIsRight, Reclaimable, Alive
<1>3. (slipped \/ LockIsOwned)'
  BY <1>0, <1>a, <1>b DEF IInv, LockIsOwned
<1>4. (slipped \/ CondemnedCardsAreStale)'
  BY <1>0 DEF IInv, CondemnedCardsAreStale
<1>5. (mishaps # 0 \/ AllIsWell)'
  BY <1>0, <1>a, <1>b DEF IInv, AllIsWell, Crashed, Alive, BeingWritten
<1> QED
  BY <1>1, <1>2, <1>3, <1>4, <1>5 DEF IInv

\* What a process does while it has no lock and after it, and its death.
LEMMA WaitingKeepsIInv ==
    ASSUME IInv, NEW p \in Procs,
           \/ Begin(p) \/ OpenFails(p) \/ GiveUpWaiting(p) \/ OperationFails(p)
           \/ ReadAgain(p) \/ ReadToken(p) \/ ReleaseFails(p) \/ Crash(p)
    PROVE  IInv'
<1> USE DEF GoesOn, Places, Owning, Critical, Acquiring, Goes, mind, past
<1>t. TypeOK
  BY DEF IInv
<1>1. CASE Begin(p)
  <2>1. GoesOn(p, "opening")
    BY <1>1, <1>t DEF Begin, TypeOK
  <2> QED
    BY <2>1, GoingKeepsIInv DEF Goes
<1>2. CASE OpenFails(p)
  <2>1. GoesOn(p, "blocked")
    BY <1>2, <1>t DEF OpenFails, TypeOK
  <2> QED
    BY <2>1, GoingKeepsIInv
<1>3. CASE GiveUpWaiting(p)
  <2>1. GoesOn(p, "idle")
    BY <1>3, <1>t DEF GiveUpWaiting, TypeOK
  <2> QED
    BY <2>1, GoingKeepsIInv
<1>4. CASE OperationFails(p)
  <2>1. GoesOn(p, "releasing")
    BY <1>4, <1>t DEF OperationFails, TypeOK
  <2> QED
    BY <2>1, GoingKeepsIInv
<1>5. CASE ReadAgain(p)
  <2>1. GoesOn(p, IF ScanConfirmed(p) THEN "condemnedCard" ELSE "releasing")
    BY <1>5, <1>t DEF ReadAgain, ScanConfirmed, TypeOK
  <2> QED
    BY <2>1, GoingKeepsIInv
<1>6. CASE ReadToken(p)
  <2>1. GoesOn(p, IF TokenIsMine(p) THEN "unlocking" ELSE "idle")
    BY <1>6, <1>t DEF ReadToken, TypeOK
  <2> QED
    BY <2>1, GoingKeepsIInv
<1>7. CASE ReleaseFails(p) \/ Crash(p)
  <2>1. mishaps' \in 0..MaxMishaps /\ mishaps' # 0
    BY <1>7, <1>t, MishapAssumption DEF ReleaseFails, Crash, GoesWrong, TypeOK
  <2>2. CASE ReleaseFails(p)
    <3>1. GoesOn(p, "idle")
      BY <2>1, <2>2, <1>t DEF ReleaseFails, TypeOK
    <3> QED
      BY <3>1, GoingKeepsIInv
  <2>3. CASE Crash(p)
    <3>1. GoesOn(p, "dead")
      BY <2>1, <2>3, <1>t DEF Crash, Alive, TypeOK
    <3> QED
      BY <3>1, GoingKeepsIInv
  <2> QED
    BY <1>7, <2>2, <2>3
<1> QED
  BY <1>1, <1>2, <1>3, <1>4, <1>5, <1>6, <1>7

\* A lock is created, written, given up or released by the one that owns it,
\* unless locks have slipped before.
LEMMA HoldingKeepsIInv ==
    ASSUME IInv, NEW p \in Procs,
           Open(p) \/ WriteOwner(p) \/ GiveUpCreated(p) \/ Unlock(p)
    PROVE  IInv'
<1> USE DEF Goes, past
<1>t. TypeOK /\ (slipped => mishaps # 0)
  BY DEF IInv, AllIsWell
<1>u. /\ sameLock \in [Procs -> BOOLEAN] /\ sameCard \in [Procs -> BOOLEAN]
      /\ slipped \in BOOLEAN
  BY <1>t DEF TypeOK
<1>o. /\ {"created", "locked", "unlocking"} \subseteq Owning
      /\ {"idle", "locked"} \subseteq Places
      /\ "idle" \notin Owning
  BY DEF Owning, Critical, Acquiring, Places
<1>1. CASE Open(p)
  <2>1. slipped \/ \A q \in Procs : pc[q] \notin Owning
    BY <1>1 DEF Open, IInv, LockIsOwned
  <2>2. Replaces(p, "created", LockFile(p, FALSE, FALSE))
    BY <1>1, <1>t, <1>u, <2>1 DEF Open, Replaces
  <2> QED
    BY <2>2, ReplacingKeepsIInv
<1>2. pc[p] \in Owning => slipped \/ \A q \in Procs \ {p} : pc[q] \notin Owning
  BY OwnersAreUnique DEF IInv
<1>3. CASE WriteOwner(p) /\ lock.by = p /\ lock # NoLock
  <2>1. Replaces(p, "locked", LockFile(p, TRUE, FALSE))
    BY <1>2, <1>3, <1>o, <1>t, <1>u DEF WriteOwner, Replaces
  <2> QED
    BY <2>1, ReplacingKeepsIInv
<1>5. CASE WriteOwner(p) /\ ~(lock.by = p /\ lock # NoLock)
  <2>1. slipped /\ mishaps # 0
    BY <1>5, <1>o, <1>t DEF WriteOwner, IInv, LockIsOwned
  <2>2. GoesOn(p, "locked")
    <3>1. mishaps' \in 0..MaxMishaps /\ mishaps' # 0
      BY <1>5, <1>t, <2>1 DEF WriteOwner, TypeOK
    <3> QED
      BY <1>5, <1>o, <1>u, <2>1, <3>1 DEF WriteOwner, GoesOn
  <2> QED
    BY <2>2, GoingKeepsIInv
<1>6. CASE GiveUpCreated(p) /\ LockBecomes(NoLock) /\ UNCHANGED mishaps
  <2>1. Replaces(p, "idle", NoLock)
    BY <1>2, <1>6, <1>o, <1>t DEF GiveUpCreated, TypeOK, Replaces
  <2> QED
    BY <2>1, ReplacingKeepsIInv
<1>7. CASE GiveUpCreated(p) /\ GoesWrong /\ UNCHANGED <<lock, sameLock>>
  <2>1. mishaps' \in 0..MaxMishaps /\ mishaps' # 0
    BY <1>7, <1>t, MishapAssumption DEF GoesWrong, TypeOK
  <2>2. GoesOn(p, "idle")
    BY <1>7, <1>o, <1>t, <2>1 DEF GiveUpCreated, TypeOK, GoesOn
  <2> QED
    BY <2>2, GoingKeepsIInv
<1>8. CASE Unlock(p)
  <2>1. Replaces(p, "idle", NoLock)
    BY <1>2, <1>8, <1>o, <1>t DEF Unlock, TypeOK, Replaces
  <2> QED
    BY <2>1, ReplacingKeepsIInv
<1> QED
  BY <1>1, <1>3, <1>5, <1>6, <1>7, <1>8 DEF GiveUpCreated

\* The four system calls of reclaimStaleCardLock.  What is condemned and still
\* there was left by a dead process, or given up by one whose unlink failed, or
\* is not written yet after all that time: something has gone wrong.
LEMMA ReclaimingKeepsIInv ==
    ASSUME IInv, NEW p \in Procs, Examine(p) \/ Judge(p) \/ Recheck(p) \/ Reclaim(p)
    PROVE  IInv'
<1> USE DEF Goes, mind, past
<1>t. /\ TypeOK
      /\ slipped => mishaps # 0
      /\ pc[p] = "condemnedLock" => mishaps # 0
  BY DEF IInv, AllIsWell
<1>u. /\ sameLock \in [Procs -> BOOLEAN] /\ sameCard \in [Procs -> BOOLEAN]
      /\ mishaps \in 0..MaxMishaps
  BY <1>t DEF TypeOK
<1>0. /\ {"examined", "judged", "condemnedLock", "opening"} \subseteq Places
      /\ {"examined", "judged", "condemnedLock", "opening"} \cap Owning = {}
  BY DEF Acquiring, Owning, Critical, Places
<1>1. CASE Examine(p) /\ lock # NoLock /\ lock.old
  <2>1. GoesOn(p, "examined")
    BY <1>0, <1>1, <1>t, <1>u DEF Examine, GoesOn
  <2> QED
    BY <2>1, GoingKeepsIInv
<1>2. CASE Examine(p) /\ ~(lock # NoLock /\ lock.old)
  <2>1. GoesOn(p, "opening")
    BY <1>0, <1>2, <1>t, <1>u DEF Examine, GoesOn
  <2> QED
    BY <2>1, GoingKeepsIInv
<1>3. CASE Judge(p)
  <2>1. sameLock[p] => lock # NoLock /\ lock.old
    BY <1>3 DEF Judge, IInv, MemoryIsRight
  <2>2. GoesOn(p, IF Reclaimable THEN "judged" ELSE "opening")
    BY <1>0, <1>3, <1>t, <1>u, <2>1 DEF Judge, GoesOn
  <2> QED
    BY <2>2, GoingKeepsIInv
<1>4. CASE Recheck(p) /\ lock # NoLock /\ sameLock[p]
  <2>1. lock.old /\ Reclaimable /\ lock.by \in Procs
    BY <1>4, <1>t, LockShape DEF Recheck, IInv, MemoryIsRight
  <2>2. mishaps # 0
    BY <1>4, <2>1 DEF Reclaimable, IInv, AllIsWell, Crashed
  <2>3. GoesOn(p, "condemnedLock")
    BY <1>0, <1>4, <1>t, <1>u, <2>1, <2>2 DEF Recheck, GoesOn
  <2> QED
    BY <2>3, GoingKeepsIInv
<1>5. CASE Recheck(p) /\ ~(lock # NoLock /\ sameLock[p])
  <2>1. GoesOn(p, "opening")
    BY <1>0, <1>5, <1>t, <1>u DEF Recheck, GoesOn
  <2> QED
    BY <2>1, GoingKeepsIInv
<1>6. CASE Reclaim(p)
  <2>1. slipped' \in BOOLEAN /\ (slipped => slipped') /\ mishaps # 0
    BY <1>6, <1>t DEF Reclaim, TypeOK
  <2>2. slipped' \/ \A q \in Procs \ {p} : pc[q] \notin Owning
    <3> SUFFICES ASSUME ~slipped', NEW q \in Procs, pc[q] \in Owning
                 PROVE  FALSE
      OBVIOUS
    <3>1. lock # NoLock /\ lock.by = q /\ (lock.written <=> pc[q] # "created")
      BY <2>1 DEF IInv, LockIsOwned
    <3>2. sameLock[p] /\ pc[q] # "created"
      BY <1>6, <3>1 DEF Reclaim
    <3>3. Reclaimable
      BY <1>6, <3>2 DEF Reclaim, IInv, MemoryIsRight
    <3>4. ~Alive(q)
      BY <3>1, <3>2, <3>3 DEF Reclaimable
    <3> QED
      BY <3>4 DEF Alive, Owning, Critical
  <2>3. Replaces(p, "opening", NoLock)
    BY <1>6, <2>1, <2>2 DEF Reclaim, Replaces
  <2> QED
    BY <2>3, ReplacingKeepsIInv
<1> QED
  BY <1>1, <1>2, <1>3, <1>4, <1>5, <1>6

\* No system call, crash or passing of time breaks the invariant.
LEMMA NextKeepsIInv ==
    ASSUME IInv, [Next]_vars
    PROVE  IInv'
<1>1. ASSUME NEW p \in Procs, Publish(p) \/ Withdraw(p) \/ RemoveCard(p)
      PROVE  IInv'
  BY <1>1, CardChangeKeepsIInv DEF Publish, Withdraw, RemoveCard, Goes
<1>2. CASE CardAges
  <2>1. /\ UNCHANGED <<lock, pc, sameLock, sameCard, mishaps, slipped>>
        /\ card' = "stale"
    BY <1>2 DEF CardAges, mind, past
  <2> QED
    BY <2>1 DEF IInv, TypeOK, LockIsOwned, MemoryIsRight, Reclaimable, Alive, Crashed,
       CondemnedCardsAreStale, AllIsWell, BeingWritten
<1>3. CASE UNCHANGED vars
  BY <1>3 DEF vars, IInv, TypeOK, LockIsOwned, MemoryIsRight, Reclaimable, Alive, Crashed,
     CondemnedCardsAreStale, AllIsWell, BeingWritten
<1>4. CASE \E p \in Procs : Step(p)
  <2>1. PICK p \in Procs : Step(p)
    BY <1>4
  <2> QED
    BY <1>1, <2>1, WaitingKeepsIInv, HoldingKeepsIInv, ReclaimingKeepsIInv
    DEF Step, Acquire, Use
<1> QED
  BY <1>2, <1>3, <1>4, AgeingKeepsIInv DEF Next

\* The invariant holds in every behaviour.
LEMMA Invariance == Spec => []IInv
<1>1. Init => IInv
  BY InitIInv
<1>2. IInv /\ [Next]_vars => IInv'
  BY NextKeepsIInv
<1> QED
  BY <1>1, <1>2, PTL DEF Spec

\* The variables of the lock keep their types.
THEOREM TypeCorrectness == Spec => []TypeOK
<1>1. IInv => TypeOK
  BY DEF IInv
<1> QED
  BY <1>1, Invariance, PTL

\* Until a reclaimer's unlink has taken the wrong lock, who holds the lock of a
\* card has its own lock file on the disk, however many processes were killed,
\* gave up or failed to release theirs (acquireCardWriteLock,
\* reclaimStaleCardLock, release).
THEOREM HoldersHaveTheLock == Spec => [](slipped \/ LockIsOwned)
<1>1. IInv => slipped \/ LockIsOwned
  BY DEF IInv
<1> QED
  BY <1>1, Invariance, PTL

\* Publications and removals of a card are serialized across processes
\* (withAgentCardWriteLock), also by a lock that one survivor of a crash reclaims
\* beside others, except after a slip; and without a mishap there is none.
THEOREM ExclusionAlways == Spec => []Exclusion
<1>1. ASSUME IInv PROVE Exclusion
  <2>1. slipped => mishaps # 0
    BY <1>1 DEF IInv, AllIsWell
  <2>2. slipped \/ LockIsOwned
    BY <1>1 DEF IInv
  <2>3. Critical \subseteq Owning
    BY DEF Owning
  <2> QED
    BY <2>1, <2>2, <2>3, OwnersAreUnique DEF Exclusion
<1> QED
  BY <1>1, Invariance, PTL

\* No cleaner removes a card that was renewed, unless a lock has slipped
\* (removeStaleCandidate).
THEOREM RenewedCardsStayAlways == Spec => RenewedCardsStay
<1>1. IInv => (\A p \in Cleaners :
                 pc[p] = "condemnedCard" /\ card' = "none" => card = "stale" \/ slipped)
  BY DEF IInv, CondemnedCardsAreStale, Procs
<1> QED
  BY <1>1, Invariance, PTL DEF RenewedCardsStay
=============================================================================
