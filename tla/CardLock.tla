------------------------------- MODULE CardLock -------------------------------
(***************************************************************************)
(* discovery/filesystem.ts and discovery/agent-card-registry.ts: the card  *)
(* of one runtime, and the lock file that serializes the processes which   *)
(* publish it and which remove it when it is stale.  A process is killed   *)
(* at any point and leaves its lock behind; others reclaim it.             *)
(*                                                                         *)
(* Every system call is an action: between two of them any process may     *)
(* make its own.  What a process goes on with is in `pc'.                  *)
(*                                                                         *)
(* Abstractions.  A file is told from another, and from itself before it   *)
(* changed, by inode, size and time; here every change of a path clears    *)
(* the flags of those who remember it (`sameLock', `sameCard').  An id of  *)
(* a killed process is not given to another.  The publication of a card    *)
(* by way of a temporary file is its atomic rename.                        *)
(***************************************************************************)
EXTENDS Naturals, FiniteSets

CONSTANTS Owners,      \* the runtime whose card it is
          Cleaners,    \* processes that remove stale cards
          MaxMishaps   \* bound: how often a process is killed, a call fails
                       \* that should remove a lock, or a lock is written late

Procs == Owners \cup Cleaners

ASSUME ProcsAssumption == Owners \cap Cleaners = {}
ASSUME MishapAssumption == MaxMishaps \in Nat

VARIABLES
    lock,       \* the lock file, NoLock if there is none
    card,       \* the card file: "none", "fresh", or "stale"
    pc,         \* what each process does next
    sameLock,   \* the lock file is still the one the process first examined
    sameCard,   \* the card is still the one the process found stale
    mishaps,    \* how much has gone wrong
    slipped     \* history: a reclaimer's unlink took another lock than the
                \* abandoned one that it had checked

mind == <<sameLock, sameCard>>
past == <<mishaps, slipped>>
vars == <<lock, card, pc, sameLock, sameCard, mishaps, slipped>>

NoLock == [by |-> "nobody"]
LockFile(p, written, old) == [by |-> p, written |-> written, old |-> old]

\* Between the return of acquireCardWriteLock and the end of release.
Critical == {"locked", "condemnedCard", "releasing", "unlocking"}
\* Inside acquireCardWriteLock.
Acquiring == {"opening", "created", "blocked", "examined", "judged", "condemnedLock"}

Init ==
    /\ lock = NoLock
    /\ card = "none"
    /\ pc = [p \in Procs |-> "idle"]
    /\ sameLock = [p \in Procs |-> FALSE]
    /\ sameCard = [p \in Procs |-> FALSE]
    /\ mishaps = 0
    /\ slipped = FALSE

-----------------------------------------------------------------------------
Goes(p, from, to) == pc[p] = from /\ pc' = [pc EXCEPT ![p] = to]

\* A change of the lock path: nobody's memory of it is right any more.
LockBecomes(file) ==
    /\ lock' = file
    /\ sameLock' = [p \in Procs |-> FALSE]

GoesWrong == mishaps < MaxMishaps /\ mishaps' = mishaps + 1

Alive(p) == pc[p] # "dead"
Crashed == {p \in Procs : ~Alive(p)}

\* A process begins: an owner to publish or renew its card, a cleaner when its
\* scan, which takes no lock, has read a stale card.
Begin(p) ==
    /\ Goes(p, "idle", "opening")
    /\ p \in Cleaners => card = "stale"
    /\ sameCard' = [sameCard EXCEPT ![p] = (p \in Cleaners)]
    /\ UNCHANGED <<lock, card, sameLock, past>>

\* open(.., 'wx').
Open(p) ==
    /\ lock = NoLock
    /\ Goes(p, "opening", "created")
    /\ LockBecomes(LockFile(p, FALSE, FALSE))
    /\ UNCHANGED <<card, sameCard, past>>

OpenFails(p) ==
    /\ lock # NoLock
    /\ Goes(p, "opening", "blocked")
    /\ UNCHANGED <<lock, card, mind, past>>

\* writeFile through the handle, which may no longer be that of the path.
WriteOwner(p) ==
    /\ Goes(p, "created", "locked")
    /\ IF lock # NoLock /\ lock.by = p
       THEN LockBecomes(LockFile(p, TRUE, FALSE))
       ELSE UNCHANGED <<lock, sameLock>>
    /\ UNCHANGED <<card, sameCard, past>>

\* The deadline of the call, or an error, before the lock is handed out: what
\* was created is unlinked by path, and that the unlink may fail is ignored.
GiveUpCreated(p) ==
    /\ \E from \in {"created", "locked"} : Goes(p, from, "idle")
    /\ \/ LockBecomes(NoLock) /\ UNCHANGED mishaps
       \/ GoesWrong /\ UNCHANGED <<lock, sameLock>>
    /\ UNCHANGED <<card, sameCard, slipped>>

\* The deadline, or a failing call of one that has no lock yet.
GiveUpWaiting(p) ==
    /\ \E from \in Acquiring \ {"created"} : Goes(p, from, "idle")
    /\ UNCHANGED <<lock, card, mind, past>>

\* reclaimStaleCardLock, its four system calls.  Whatever shows that the lock
\* is in use or gone leads back to open, after a delay or at once.
Examine(p) ==
    /\ IF lock # NoLock /\ lock.old
       THEN /\ Goes(p, "blocked", "examined")
            /\ sameLock' = [sameLock EXCEPT ![p] = TRUE]
       ELSE /\ Goes(p, "blocked", "opening")
            /\ UNCHANGED sameLock
    /\ UNCHANGED <<lock, card, sameCard, past>>

AnyLockMayGo == lock # NoLock
UnwrittenStays == lock # NoLock /\ lock.written /\ ~Alive(lock.by)
\* The lock names no owner, or one that is not alive.
Reclaimable == lock # NoLock /\ (lock.written => ~Alive(lock.by))

Judge(p) ==
    /\ Goes(p, "examined", IF Reclaimable THEN "judged" ELSE "opening")
    /\ UNCHANGED <<lock, card, mind, past>>

Recheck(p) ==
    /\ Goes(p, "judged", IF lock # NoLock /\ sameLock[p] THEN "condemnedLock" ELSE "opening")
    /\ UNCHANGED <<lock, card, mind, past>>

\* unlink takes whatever the path holds by now: perhaps not the file that was
\* examined, or one whose creator is only slow to write it.
Reclaim(p) ==
    /\ Goes(p, "condemnedLock", "opening")
    /\ LockBecomes(NoLock)
    /\ slipped' = (\/ slipped
                   \/ lock # NoLock /\ (~sameLock[p] \/ pc[lock.by] = "created"))
    /\ UNCHANGED <<card, sameCard, mishaps>>

-----------------------------------------------------------------------------
(* Under the lock. *)

\* writeAgentCardAtomically: the rename.
Publish(p) ==
    /\ p \in Owners
    /\ Goes(p, "locked", "releasing")
    /\ card' = "fresh"
    /\ sameCard' = [q \in Procs |-> FALSE]
    /\ UNCHANGED <<lock, sameLock, past>>

\* removeStaleCandidate: the card is read again under the lock, and must be
\* the one that was scanned and stale.
ScanTrusted(p) == TRUE
ScanConfirmed(p) == card = "stale" /\ sameCard[p]

ReadAgain(p) ==
    /\ p \in Cleaners
    /\ Goes(p, "locked", IF ScanConfirmed(p) THEN "condemnedCard" ELSE "releasing")
    /\ UNCHANGED <<lock, card, mind, past>>

RemoveCard(p) ==
    /\ Goes(p, "condemnedCard", "releasing")
    /\ card' = "none"
    /\ sameCard' = [q \in Procs |-> FALSE]
    /\ UNCHANGED <<lock, sameLock, past>>

\* removeAgentCard, the owner's last act: its own card, of any age.
Withdraw(p) ==
    /\ p \in Owners
    /\ Goes(p, "locked", "releasing")
    /\ card # "none"
    /\ card' = "none"
    /\ sameCard' = [q \in Procs |-> FALSE]
    /\ UNCHANGED <<lock, sameLock, past>>

\* The deadline has passed, or the operation fails: the lock is released.
OperationFails(p) ==
    /\ Goes(p, "locked", "releasing")
    /\ UNCHANGED <<lock, card, mind, past>>

\* release: read the lock, and unlink it if the token is one's own.
TokenIsMine(p) == lock # NoLock /\ lock.by = p

ReadToken(p) ==
    /\ Goes(p, "releasing", IF TokenIsMine(p) THEN "unlocking" ELSE "idle")
    /\ UNCHANGED <<lock, card, mind, past>>

Unlock(p) ==
    /\ Goes(p, "unlocking", "idle")
    /\ LockBecomes(NoLock)
    /\ UNCHANGED <<card, sameCard, past>>

\* The read or the unlink fails: the error is thrown, and the lock of a living
\* process stays.
ReleaseFails(p) ==
    /\ \E from \in {"releasing", "unlocking"} : Goes(p, from, "idle")
    /\ GoesWrong
    /\ UNCHANGED <<lock, card, mind, slipped>>

-----------------------------------------------------------------------------
(* The environment. *)

Crash(p) ==
    /\ Alive(p)
    /\ pc' = [pc EXCEPT ![p] = "dead"]
    /\ GoesWrong
    /\ UNCHANGED <<lock, card, mind, slipped>>

\* The lock file has been there for CARD_LOCK_STALE_AFTER_MS.
GetsOld ==
    /\ lock # NoLock
    /\ ~lock.old
    /\ lock' = [lock EXCEPT !.old = TRUE]
    /\ UNCHANGED <<card, pc, mind, slipped>>

BeingWritten == ~lock.written /\ pc[lock.by] = "created"

LockAges == GetsOld /\ ~BeingWritten /\ UNCHANGED mishaps

\* It was created all that time ago, and its creator has yet to write it.
WriteIsLate == GetsOld /\ BeingWritten /\ GoesWrong

\* The lease runs out and two more periods pass without a renewal.
CardAges ==
    /\ card = "fresh"
    /\ card' = "stale"
    /\ UNCHANGED <<lock, pc, mind, past>>

\* What a process does to get the lock.
Acquire(p) ==
    \/ Open(p) \/ OpenFails(p) \/ WriteOwner(p)
    \/ Examine(p) \/ Judge(p) \/ Recheck(p) \/ Reclaim(p)

\* What it does with it.
Use(p) ==
    \/ Publish(p) \/ ReadAgain(p) \/ RemoveCard(p) \/ ReadToken(p) \/ Unlock(p)

Step(p) ==
    \/ Begin(p) \/ Acquire(p) \/ Use(p)
    \/ GiveUpCreated(p) \/ GiveUpWaiting(p) \/ OperationFails(p)
    \/ Withdraw(p) \/ ReleaseFails(p) \/ Crash(p)

Next == (\E p \in Procs : Step(p)) \/ LockAges \/ WriteIsLate \/ CardAges

\* System calls return, time passes.
Fairness ==
    /\ \A p \in Procs : WF_vars(Acquire(p)) /\ WF_vars(Use(p))
    /\ WF_vars(LockAges)

Spec == Init /\ [][Next]_vars
FairSpec == Spec /\ Fairness

-----------------------------------------------------------------------------
\* The types of the variables.
TypeOK ==
    /\ lock \in {NoLock} \cup {LockFile(p, w, o) : p \in Procs, w, o \in BOOLEAN}
    /\ card \in {"none", "fresh", "stale"}
    /\ pc \in [Procs -> {"idle", "dead"} \cup Acquiring \cup Critical]
    /\ sameLock \in [Procs -> BOOLEAN]
    /\ sameCard \in [Procs -> BOOLEAN]
    /\ mishaps \in 0..MaxMishaps
    /\ slipped \in BOOLEAN

\* Card writes and removals are serialized across processes
\* (withAgentCardWriteLock) but for one case, which needs a mishap: between a
\* reclaimer's second look at an abandoned lock and its unlink, which goes by
\* path, another reclaimer has taken that lock away and a third process, or the
\* same, has put its own there; or the lock that was unlinked had been created
\* two minutes before and not been written yet (reclaimStaleCardLock).
Exclusion ==
    (\E p, q \in Procs : p # q /\ pc[p] \in Critical /\ pc[q] \in Critical)
        => slipped /\ mishaps # 0

\* As long as no lock was lost that way, a card that its owner has renewed is
\* never removed by a cleaner that found it stale before the renewal.
RenewedCardsStay ==
    [][\A p \in Cleaners :
        pc[p] = "condemnedCard" /\ card' = "none" => card = "stale" \/ slipped]_vars

\* Nobody waits for a process that was killed: its lock is reclaimed while
\* somebody wants it.
DeadLocksGo ==
    \A p \in Procs :
        (lock # NoLock /\ ~Alive(lock.by) /\ pc[p] \in Acquiring)
            ~> (lock = NoLock \/ Alive(lock.by) \/ pc[p] \notin Acquiring)
=============================================================================
