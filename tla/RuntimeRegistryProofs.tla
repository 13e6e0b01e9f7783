------------------------ MODULE RuntimeRegistryProofs -------------------------
(***************************************************************************)
(* The record file of a runtime for any number of peers, names, calls,     *)
(* failures and crashes: who holds its lock, which file a call may remove, *)
(* and what the owner can say of it.                                       *)
(***************************************************************************)
EXTENDS RuntimeRegistry, FiniteSetTheorems, SequenceTheorems, TLAPS

Steps == {"idle", "over", "dead", "look", "turn", "open", "reclaim", "critical", "unlink",
          "release", "unlock", "returned"}

Publication ==
    [kind : {"renew", "rename"}, step : {"publish", "restore", "undo"},
     attempted : Names \cup {None}, previous : Names \cup {None}, nameBefore : Names]

Queued == [kind : {"renew", "barrier"}] \cup [kind : {"rename"}, name : Names]

DiskOK ==
    /\ count \in [files : Nat, locks : Nat]
    /\ file = NoFile \/ file \in [stat : 1 .. count.files, name : Names]
    /\ lock = NoLock \/ lock \in [id : 1 .. count.locks, by : Workers]

WorkersOK ==
    /\ pc \in [Workers -> Steps]
    /\ seen \in [Workers -> Nat]
    /\ examined \in [Workers -> Nat]
    /\ \A w \in Workers : examined[w] <= count.locks
    /\ failed \in [Workers -> BOOLEAN]

OwnerOK ==
    /\ queue \in Seq(Queued)
    /\ call \in Publication \cup {NoCall}
    /\ current \in Names \cup {None}
    /\ currentName \in Names
    /\ leftovers \subseteq Names
    /\ toRemove \subseteq Names
    /\ shutdown \in {"no", "requested", "waiting", "removing", "done", "failed"}

\* What a call has the lock, unless one was stolen, is named in it; a lock that is about
\* to be reclaimed is still the abandoned one, or another one which that would steal; and
\* what has crashed does nothing more.
Locking ==
    /\ stolen \in BOOLEAN
    /\ ~stolen => \A w \in Workers : pc[w] \in HasLock => lock # NoLock /\ lock.by = w
    /\ \A w \in Workers : pc[w] = "reclaim" =>
          /\ crashed # {}
          /\ lock # NoLock /\ lock.id = examined[w] => ProcessOf(lock.by) \in crashed
    /\ stolen => crashed # {}
    /\ \A w \in Workers : ProcessOf(w) \in crashed => pc[w] = "dead"

\* A call that goes to unlink the record has looked at that very file under the lock.
LookedAt ==
    ~stolen => \A w \in Workers :
        pc[w] = "unlink" /\ file # NoFile => file.stat = seen[w]

\* What a publication in progress is about.
CallSound ==
    /\ pc[Publisher] \notin Resting => call \in Publication
    /\ pc[Publisher] = "idle" => call = NoCall
    /\ call.step = "publish" => call.attempted \in Names
    /\ call.step = "restore" => call.previous \in Names
    /\ call.step = "undo" => call.attempted \in Names /\ call.previous = None
    /\ pc[Publisher] \in {"look", "unlink"} => call.step = "undo"

\* The locks and the files are in order.
IInv == DiskOK /\ WorkersOK /\ OwnerOK /\ Locking /\ LookedAt /\ CallSound

-----------------------------------------------------------------------------
FileIn(S) == file # NoFile => file.name \in S

BeforeWrite == {"turn", "open", "reclaim", "critical"}
Afterwards  == {"release", "unlock", "returned"}

\* How far shutdown is, and what the calls of the owner may still do.
ShutdownOrder ==
    /\ pc[Remover] \notin Resting => shutdown = "removing"
    /\ call.step = "publish" => shutdown \in {"no", "requested", "waiting"}

\* Between two calls the file has the name that the owner says it has; during one it
\* has the name before or the one attempted.
NameAgrees ==
    /\ pc[Publisher] = "idle" /\ current # None => FileIn({current}) /\ current = currentName
    /\ call.step # "none" =>
          /\ call.previous # None => call.previous = call.nameBefore
          /\ call.kind = "renew" => call.step = "publish" /\ call.attempted = call.nameBefore
    /\ call.step = "publish" =>
          /\ current = call.previous
          /\ currentName = call.attempted
          /\ call.previous # None => FileIn({call.attempted, call.previous})
          /\ pc[Publisher] \in BeforeWrite => ~failed[Publisher]
          /\ pc[Publisher] \in Afterwards /\ ~failed[Publisher] => FileIn({call.attempted})
    /\ call.step \in {"restore", "undo"} => currentName = call.nameBefore
    /\ call.step = "restore" =>
          /\ FileIn({call.attempted, call.previous})
          /\ pc[Publisher] \in BeforeWrite => ~failed[Publisher]
          /\ pc[Publisher] \in Afterwards /\ ~failed[Publisher] => FileIn({call.previous})

\* What shutdown would remove of a runtime without a current record.
Known == IF leftovers # {} THEN leftovers ELSE {InitialName}

\* Without slips: of a runtime without a current record, every record that may be
\* there is known.
LeftoversKnown ==
    /\ pc[Publisher] = "idle" /\ current = None /\ shutdown # "done" =>
          FileIn(Known) /\ (leftovers = {} => currentName = InitialName)
    /\ call.step = "publish" /\ call.previous = None =>
          FileIn(Known \cup {call.attempted}) /\ (leftovers = {} => call.nameBefore = InitialName)
    /\ call.step = "undo" =>
          /\ leftovers = {} /\ call.nameBefore = InitialName /\ current = None
          /\ pc[Publisher] = "look" => FileIn({InitialName, call.attempted}) /\ ~failed[Publisher]
          /\ pc[Publisher] \in BeforeWrite \cup {"unlink"} =>
                /\ FileIn({call.attempted}) /\ ~failed[Publisher]
                /\ file # NoFile => file.stat = seen[Publisher]
          /\ pc[Publisher] \in {"release", "unlock"} =>
                IF failed[Publisher] THEN FileIn({call.attempted}) ELSE file = NoFile
          /\ pc[Publisher] = "returned" =>
                IF failed[Publisher] THEN FileIn({call.attempted}) ELSE FileIn({InitialName})

\* Without slips: once shutdown removes records nothing is published, and what may be
\* there is among what it has yet to remove.
RemovalComplete ==
    /\ shutdown \notin {"waiting"} => \A i \in DOMAIN queue : queue[i].kind # "barrier"
    /\ shutdown = "waiting" => \A i \in DOMAIN queue : queue[i].kind = "barrier" => i = Len(queue)
    /\ shutdown = "removing" =>
          /\ queue = <<>> /\ pc[Publisher] = "idle"
          /\ toRemove # {} /\ FileIn(toRemove)
          /\ pc[Remover] = "look" => ~failed[Remover]
          /\ pc[Remover] \in BeforeWrite \cup {"unlink"} =>
                /\ FileIn(Expected(Remover)) /\ ~failed[Remover]
                /\ file # NoFile => file.stat = seen[Remover]
          /\ pc[Remover] \in {"release", "unlock"} /\ ~failed[Remover] => file = NoFile
          /\ pc[Remover] = "returned" /\ ~failed[Remover] => FileIn(toRemove \ Expected(Remover))
    /\ shutdown = "done" =>
          file = NoFile /\ current = None /\ leftovers = {} /\ pc[Publisher] = "idle"

\* The records are in order, as long as the owner's process runs.
RecordInv ==
    Owner \notin crashed =>
        /\ ShutdownOrder
        /\ NameAgrees
        /\ slips = {} => LeftoversKnown /\ RemovalComplete

-----------------------------------------------------------------------------
(* The invariant of the locks. *)

\* The owner's process has two workers, every other process is one.
LEMMA Processes ==
    /\ Publisher \in Workers /\ Remover \in Workers /\ Publisher # Remover
    /\ ProcessOf(Publisher) = Owner /\ ProcessOf(Remover) = Owner
    /\ \A w \in Peers : w \in Workers /\ ProcessOf(w) = w /\ w \notin {Owner, Publisher, Remover}
    /\ \A w \in Workers : w \in Peers \/ w = Publisher \/ w = Remover
BY PeersAssumption DEF Workers, Publisher, Remover, Owner, ProcessOf

\* Files and locks are told from their absence.
LEMMA Absences ==
    /\ \A n \in Nat : \A f \in [stat : 1 .. n, name : Names] : f # NoFile /\ f.stat \in 1 .. n
    /\ \A n \in Nat : \A l \in [id : 1 .. n, by : Workers] : l # NoLock /\ l.id \in 1 .. n
    /\ NoFile.stat = 0 /\ NoLock.id = 0
    /\ NoCall.step = "none" /\ NoCall.kind = "none"
BY DEF NoFile, NoLock, NoCall

LEMMA InitIInv == Init => IInv
<1> SUFFICES ASSUME Init PROVE IInv
  OBVIOUS
<1> USE DEF Init
<1>1. DiskOK
  BY DEF DiskOK
<1>2. WorkersOK
  BY DEF WorkersOK, Steps
<1>3. OwnerOK
  BY NamesAssumption DEF OwnerOK
<1>4. \A w \in Workers : pc[w] \in {"idle", "over"}
  OBVIOUS
<1>5. pc[Publisher] = "idle"
  BY Processes
<1>6. Locking /\ LookedAt
  BY <1>4 DEF Locking, LookedAt, HasLock
<1>7. CallSound
  BY <1>5, Absences DEF CallSound, Resting
<1> QED
  BY <1>1, <1>2, <1>3, <1>6, <1>7 DEF IInv

\* A worker that goes on without touching a file: the ways that do not need the lock,
\* and those under it.
LEMMA GoesOn ==
    ASSUME IInv, NEW w \in Workers, NEW from, NEW to \in Steps,
           Goes(w, from, to),
           from \notin Resting \cup {"reclaim"} \/ (from = "idle" /\ w \in Peers),
           to \in HasLock => from \in HasLock,
           to \notin {"reclaim", "dead"},
           to = "unlink" /\ file # NoFile => file.stat = seen[w],
           w = Publisher => to \notin {"idle", "look"} /\ (to = "unlink" => call.step = "undo"),
           UNCHANGED <<disk, examined, owner, count, history>>,
           seen' = seen \/ (from = "look" /\ \E n \in Nat : seen' = [seen EXCEPT ![w] = n]),
           failed' \in [Workers -> BOOLEAN]
    PROVE  IInv'
<1> USE DEF disk, owner, history
<1>1. /\ pc \in [Workers -> Steps] /\ pc[w] = from /\ pc' = [pc EXCEPT ![w] = to]
      /\ seen \in [Workers -> Nat]
  BY DEF Goes, IInv, WorkersOK
<1>2. DiskOK' /\ OwnerOK'
  BY DEF IInv, DiskOK, OwnerOK
<1>3. seen' \in [Workers -> Nat] /\ \A v \in Workers : v # w => seen'[v] = seen[v]
  BY <1>1
<1>4. WorkersOK'
  BY <1>1, <1>3 DEF IInv, WorkersOK
<1>5. Locking'
  BY <1>1, Processes DEF IInv, Locking, HasLock, Resting
<1>6. LookedAt'
  <2>1. to = "unlink" => seen'[w] = seen[w]
    BY DEF HasLock
  <2>2. \A v \in Workers : pc'[v] = IF v = w THEN to ELSE pc[v]
    BY <1>1
  <2> QED
    BY <1>3, <2>1, <2>2 DEF IInv, LookedAt
<1>7. CallSound'
  BY <1>1, Processes DEF IInv, CallSound, Resting
<1> QED
  BY <1>2, <1>4, <1>5, <1>6, <1>7 DEF IInv

\* The steps of a worker that leave both files alone.
LEMMA WorkerGoesOn ==
    ASSUME IInv, NEW w \in Workers,
           \/ EnterTurn(w) \/ AcquireFails(w) \/ Release(w) \/ Look(w) \/ Recheck(w)
           \/ PeerReturns(w) \/ PeerLooks(w)
    PROVE  IInv'
<1> USE DEF Resting, HasLock, Steps
<1>1. failed \in [Workers -> BOOLEAN] /\ seen \in [Workers -> Nat]
  BY DEF IInv, WorkersOK
<1>2. \A v \in Peers : v # Publisher
  BY Processes
<1>3. w = Publisher /\ pc[w] = "look" => call.step = "undo"
  BY DEF IInv, CallSound
<1>4. CASE EnterTurn(w)
  BY <1>1, <1>4, GoesOn DEF EnterTurn
<1>5. CASE AcquireFails(w)
  <2>1. failed' \in [Workers -> BOOLEAN]
    BY <1>1, <1>5 DEF AcquireFails
  <2> QED
    BY <1>5, <2>1, GoesOn DEF AcquireFails, disk
<1>6. CASE Release(w)
  <2>1. CASE Goes(w, "release", "unlock")
    BY <1>1, <1>6, <2>1, GoesOn DEF Release
  <2>2. CASE Goes(w, "release", "returned")
    BY <1>1, <1>6, <2>2, GoesOn DEF Release
  <2> QED
    BY <1>6, <2>1, <2>2 DEF Release
<1>7. CASE Look(w)
  <2>1. CASE file # NoFile /\ file.name \in Expected(w)
    <3>1. file.stat \in Nat
      BY <2>1, Absences DEF IInv, DiskOK
    <3>2. Goes(w, "look", "turn") /\ seen' = [seen EXCEPT ![w] = file.stat]
      BY <1>7, <2>1 DEF Look
    <3> QED
      BY <1>1, <1>7, <3>1, <3>2, GoesOn DEF Look
  <2>2. CASE ~(file # NoFile /\ file.name \in Expected(w))
    <3>1. Goes(w, "look", "returned") /\ seen' = seen
      BY <1>7, <2>2 DEF Look
    <3> QED
      BY <1>1, <1>7, <3>1, GoesOn DEF Look
  <2> QED
    BY <2>1, <2>2
<1>8. CASE Recheck(w)
  <2>1. CASE LookAgain(w)
    <3>1. Goes(w, "critical", "unlink") /\ file.stat = seen[w]
      BY <1>8, <2>1 DEF Recheck, LookAgain
    <3>2. w = Publisher => call.step = "undo"
      BY <1>8 DEF Recheck, Removes
    <3> QED
      BY <1>1, <1>8, <3>1, <3>2, GoesOn DEF Recheck
  <2>2. CASE ~LookAgain(w)
    <3>1. Goes(w, "critical", "release")
      BY <1>8, <2>2 DEF Recheck
    <3> QED
      BY <1>1, <1>8, <3>1, GoesOn DEF Recheck
  <2> QED
    BY <2>1, <2>2
<1>9. CASE PeerReturns(w)
  BY <1>1, <1>2, <1>9, GoesOn DEF PeerReturns
<1>10. CASE PeerLooks(w)
  BY <1>1, <1>2, <1>10, GoesOn DEF PeerLooks
<1> QED
  BY <1>4, <1>5, <1>6, <1>7, <1>8, <1>9, <1>10

\* A lock is made where there was none: no call has one then.
LEMMA AcquireIInv ==
    ASSUME IInv, NEW w \in Workers, Acquire(w)
    PROVE  IInv'
<1>1. /\ pc \in [Workers -> Steps] /\ pc[w] = "open" /\ pc' = [pc EXCEPT ![w] = "critical"]
      /\ count \in [files : Nat, locks : Nat] /\ lock = NoLock
      /\ lock' = [id |-> count.locks + 1, by |-> w]
      /\ count' = [count EXCEPT !.locks = @ + 1]
      /\ UNCHANGED <<file, seen, examined, failed, owner, history>>
  BY DEF Acquire, Goes, IInv, WorkersOK, DiskOK
<1>2. count' \in [files : Nat, locks : Nat] /\ count'.files = count.files
      /\ count'.locks = count.locks + 1
  BY <1>1
<1>3. lock' \in [id : 1 .. count'.locks, by : Workers]
  BY <1>1, <1>2
<1>4. DiskOK'
  BY <1>1, <1>2, <1>3 DEF IInv, DiskOK
<1>5. WorkersOK'
  BY <1>1, <1>2 DEF IInv, WorkersOK, Steps
<1>6. OwnerOK'
  BY <1>1 DEF IInv, OwnerOK, owner
<1>7. \A v \in Workers : pc'[v] = IF v = w THEN "critical" ELSE pc[v]
  BY <1>1
<1>8. Locking'
  <2>1. lock' # NoLock /\ lock'.by = w /\ lock'.id = count.locks + 1
    BY <1>1, <1>2, <1>3, Absences
  <2>2. ~stolen => \A v \in Workers : pc[v] \notin HasLock
    BY <1>1 DEF IInv, Locking
  <2>3. \A v \in Workers : examined[v] # lock'.id
    BY <1>1, <2>1 DEF IInv, WorkersOK
  <2>4. (stolen' = stolen) /\ crashed' = crashed /\ examined' = examined
    BY <1>1 DEF history
  <2> QED
    BY <1>1, <1>7, <2>1, <2>2, <2>3, <2>4 DEF IInv, Locking, HasLock
<1>9. LookedAt'
  BY <1>1, <1>7 DEF IInv, LookedAt, history
<1>10. CallSound'
  BY <1>1, <1>7, Processes DEF IInv, CallSound, Resting, owner
<1> QED
  BY <1>4, <1>5, <1>6, <1>8, <1>9, <1>10 DEF IInv

\* Only a lock whose process has crashed is examined further.
LEMMA ExamineIInv ==
    ASSUME IInv, NEW w \in Workers, Examine(w)
    PROVE  IInv'
<1> USE DEF disk, owner, history
<1>1. /\ pc \in [Workers -> Steps] /\ pc[w] = "open" /\ pc' = [pc EXCEPT ![w] = "reclaim"]
      /\ examined \in [Workers -> Nat] /\ examined' = [examined EXCEPT ![w] = lock.id]
      /\ lock # NoLock /\ ProcessOf(lock.by) \in crashed
      /\ UNCHANGED <<disk, seen, failed, owner, count, history>>
  BY DEF Examine, IsStale, Goes, IInv, WorkersOK
<1>2. lock.id \in Nat /\ lock.id <= count.locks
  BY <1>1, Absences DEF IInv, DiskOK
<1>3. \A v \in Workers : pc'[v] = IF v = w THEN "reclaim" ELSE pc[v]
  BY <1>1
<1>4. DiskOK' /\ OwnerOK'
  BY <1>1 DEF IInv, DiskOK, OwnerOK
<1>5. WorkersOK'
  BY <1>1, <1>2 DEF IInv, WorkersOK, Steps
<1>6. Locking'
  BY <1>1, <1>3 DEF IInv, Locking, HasLock
<1>7. LookedAt'
  BY <1>1, <1>3 DEF IInv, LookedAt
<1>8. CallSound'
  BY <1>1, <1>3, Processes DEF IInv, CallSound, Resting
<1> QED
  BY <1>4, <1>5, <1>6, <1>7, <1>8 DEF IInv

\* What is reclaimed is the abandoned lock, whose holder is dead, or another one, and
\* then it is stolen.
LEMMA ReclaimIInv ==
    ASSUME IInv, NEW w \in Workers, Reclaim(w)
    PROVE  IInv'
<1> USE DEF owner, history
<1>1. /\ pc \in [Workers -> Steps] /\ pc[w] = "reclaim" /\ pc' = [pc EXCEPT ![w] = "open"]
      /\ lock' = NoLock /\ stolen' = (stolen \/ lock.id \notin {0, examined[w]})
      /\ UNCHANGED <<file, seen, examined, failed, owner, count, crashed, slips>>
  BY DEF Reclaim, Goes, IInv, WorkersOK
<1>2. \A v \in Workers : pc'[v] = IF v = w THEN "open" ELSE pc[v]
  BY <1>1
<1>3. DiskOK' /\ OwnerOK'
  BY <1>1 DEF IInv, DiskOK, OwnerOK
<1>4. WorkersOK'
  BY <1>1 DEF IInv, WorkersOK, Steps
<1>5. Locking'
  <2>1. crashed # {} /\ stolen' \in BOOLEAN
    BY <1>1 DEF IInv, Locking
  <2>2. ~stolen' => \A v \in Workers : pc[v] \notin HasLock
    <3> SUFFICES ASSUME ~stolen', NEW v \in Workers, pc[v] \in HasLock PROVE FALSE
      OBVIOUS
    <3>1. ~stolen /\ lock.id \in {0, examined[w]}
      BY <1>1
    <3>2. lock # NoLock /\ lock.by = v
      BY <3>1 DEF IInv, Locking
    <3>3. lock.id # 0
      BY <3>2, Absences DEF IInv, DiskOK
    <3>4. ProcessOf(v) \in crashed
      BY <1>1, <3>1, <3>2, <3>3 DEF IInv, Locking
    <3> QED
      BY <3>4 DEF IInv, Locking, HasLock
  <2> QED
    BY <1>1, <1>2, <2>1, <2>2 DEF IInv, Locking, HasLock
<1>6. LookedAt'
  BY <1>1, <1>2 DEF IInv, LookedAt
<1>7. CallSound'
  BY <1>1, <1>2, Processes DEF IInv, CallSound, Resting
<1> QED
  BY <1>3, <1>4, <1>5, <1>6, <1>7 DEF IInv

\* A lock that is not its own is stolen by a release.
LEMMA UnlockIInv ==
    ASSUME IInv, NEW w \in Workers, Unlock(w)
    PROVE  IInv'
<1> USE DEF owner, history
<1>1. /\ pc \in [Workers -> Steps] /\ pc[w] = "unlock" /\ pc' = [pc EXCEPT ![w] = "returned"]
      /\ lock' = NoLock /\ stolen' = (stolen \/ (lock # NoLock /\ lock.by # w))
      /\ UNCHANGED <<file, seen, examined, failed, owner, count, crashed, slips>>
  BY DEF Unlock, Goes, IInv, WorkersOK
<1>2. \A v \in Workers : pc'[v] = IF v = w THEN "returned" ELSE pc[v]
  BY <1>1
<1>3. DiskOK' /\ OwnerOK'
  BY <1>1 DEF IInv, DiskOK, OwnerOK
<1>4. WorkersOK'
  BY <1>1 DEF IInv, WorkersOK, Steps
<1>5. Locking'
  <2>1. stolen' \in BOOLEAN
    BY <1>1 DEF IInv, Locking
  <2>2. ~stolen' => \A v \in Workers \ {w} : pc[v] \notin HasLock
    BY <1>1 DEF IInv, Locking
  <2>3. stolen' => crashed # {}
    <3> SUFFICES ASSUME lock # NoLock, lock.by # w, ~stolen PROVE crashed # {}
      BY <1>1 DEF IInv, Locking
    <3> QED
      BY <1>1 DEF IInv, Locking, HasLock
  <2> QED
    BY <1>1, <1>2, <2>1, <2>2, <2>3 DEF IInv, Locking, HasLock
<1>6. LookedAt'
  BY <1>1, <1>2 DEF IInv, LookedAt
<1>7. CallSound'
  BY <1>1, <1>2, Processes DEF IInv, CallSound, Resting
<1> QED
  BY <1>3, <1>4, <1>5, <1>6, <1>7 DEF IInv

LEMMA UnlinkIInv ==
    ASSUME IInv, NEW w \in Workers, Unlink(w)
    PROVE  IInv'
<1> USE DEF owner, history
<1>1. /\ pc \in [Workers -> Steps] /\ pc[w] = "unlink" /\ pc' = [pc EXCEPT ![w] = "release"]
      /\ file' = NoFile \/ file' = file
      /\ failed' \in [Workers -> BOOLEAN]
      /\ UNCHANGED <<lock, seen, examined, owner, count, history>>
  BY DEF Unlink, Goes, IInv, WorkersOK
<1>2. \A v \in Workers : pc'[v] = IF v = w THEN "release" ELSE pc[v]
  BY <1>1
<1>3. DiskOK' /\ OwnerOK'
  BY <1>1 DEF IInv, DiskOK, OwnerOK
<1>4. WorkersOK'
  BY <1>1 DEF IInv, WorkersOK, Steps
<1>5. Locking'
  BY <1>1, <1>2 DEF IInv, Locking, HasLock
<1>6. LookedAt'
  BY <1>1, <1>2 DEF IInv, LookedAt
<1>7. CallSound'
  BY <1>1, <1>2, Processes DEF IInv, CallSound, Resting
<1> QED
  BY <1>3, <1>4, <1>5, <1>6, <1>7 DEF IInv

\* A file is written under the lock: unless it was stolen, no other call is about to
\* unlink one.
LEMMA PublishIInv ==
    ASSUME IInv, NEW renamed \in BOOLEAN, NEW fails \in BOOLEAN, Publish(renamed, fails)
    PROVE  IInv'
<1> USE DEF owner, history
<1>1. /\ pc \in [Workers -> Steps] /\ pc[Publisher] = "critical"
      /\ pc' = [pc EXCEPT ![Publisher] = "release"] /\ Publisher \in Workers
      /\ failed' \in [Workers -> BOOLEAN]
      /\ UNCHANGED <<lock, seen, examined, owner, history>>
  BY Processes DEF Publish, Goes, IInv, WorkersOK
<1>2. \A v \in Workers : pc'[v] = IF v = Publisher THEN "release" ELSE pc[v]
  BY <1>1
<1>3. call \in Publication /\ call.step # "undo"
  BY <1>1 DEF IInv, CallSound, Resting, Publish, Removes
<1>4. (IF call.step = "publish" THEN call.attempted ELSE call.previous) \in Names
  BY <1>3 DEF IInv, CallSound, Publication
<1>5. /\ count' \in [files : Nat, locks : Nat] /\ count'.locks = count.locks
      /\ (file' = file /\ count'.files = count.files)
         \/ file' \in [stat : 1 .. count'.files, name : Names]
  <2>1. count \in [files : Nat, locks : Nat]
    BY DEF IInv, DiskOK
  <2>2. CASE renamed
    BY <1>4, <2>1, <2>2 DEF Publish
  <2>3. CASE ~renamed
    BY <2>1, <2>3 DEF Publish
  <2> QED
    BY <2>2, <2>3
<1>6. DiskOK'
  BY <1>1, <1>5 DEF IInv, DiskOK
<1>7. OwnerOK'
  BY <1>1 DEF IInv, OwnerOK
<1>8. WorkersOK'
  BY <1>1, <1>5 DEF IInv, WorkersOK, Steps
<1>9. Locking'
  BY <1>1, <1>2 DEF IInv, Locking, HasLock
<1>10. LookedAt'
  <2>1. ~stolen => \A v \in Workers \ {Publisher} : pc[v] \notin HasLock
    BY <1>1 DEF IInv, Locking, HasLock
  <2> QED
    BY <1>1, <1>2, <2>1 DEF LookedAt, HasLock
<1>11. CallSound'
  BY <1>1, <1>2 DEF IInv, CallSound, Resting
<1> QED
  BY <1>6, <1>7, <1>8, <1>9, <1>10, <1>11 DEF IInv

\* A worker of the owner's process is set to a step that does not need the lock.
LEMMA OwnerSets ==
    ASSUME IInv, NEW w \in {Publisher, Remover}, NEW to \in {"idle", "over", "turn", "look"},
           Owner \notin crashed,
           pc' = pc \/ pc' = [pc EXCEPT ![w] = to],
           failed' = failed \/ failed' = [failed EXCEPT ![w] = FALSE],
           UNCHANGED <<disk, seen, examined, count, crashed, stolen>>,
           OwnerOK', CallSound'
    PROVE  IInv'
<1> USE DEF disk
<1>1. /\ pc \in [Workers -> Steps] /\ failed \in [Workers -> BOOLEAN]
      /\ w \in Workers /\ ProcessOf(w) = Owner
  BY Processes DEF IInv, WorkersOK
<1>2. \A v \in Workers : pc'[v] = pc[v] \/ (v = w /\ pc'[v] = to)
  BY <1>1
<1>3. DiskOK'
  BY DEF IInv, DiskOK
<1>4. WorkersOK'
  BY <1>1 DEF IInv, WorkersOK, Steps
<1>5. Locking'
  BY <1>1, <1>2 DEF IInv, Locking, HasLock
<1>6. LookedAt'
  BY <1>2 DEF IInv, LookedAt
<1> QED
  BY <1>3, <1>4, <1>5, <1>6 DEF IInv

\* What the queue hands over.
LEMMA NextOfQueue ==
    ASSUME OwnerOK, queue # <<>>
    PROVE  /\ Tail(queue) \in Seq(Queued)
           /\ Head(queue) \in Queued
           /\ Head(queue).kind = "rename" => Head(queue).name \in Names
<1>1. queue \in Seq(Queued)
  BY DEF OwnerOK
<1>2. Tail(queue) \in Seq(Queued) /\ Head(queue) \in Queued
  BY <1>1, HeadTailProperties
<1>3. \A q \in Queued : q.kind = "rename" => q.name \in Names
  BY DEF Queued
<1> QED
  BY <1>2, <1>3

\* The five ways of TakeUp, one at a time.
StartsShutdown ==
    /\ Head(queue).kind = "barrier"
    /\ shutdown' = "removing" /\ toRemove' = RecordsToRemove
    /\ Starts(Remover, "look")
    /\ UNCHANGED <<call, current, currentName, leftovers, stolen, slips>>
ThrowsAtOnce ==
    /\ Head(queue).kind = "renew" /\ shutdown # "no"
    /\ UNCHANGED <<pc, failed, call, current, currentName, leftovers, shutdown, toRemove,
                   stolen, slips>>
StartsPublication(name) ==
    /\ Head(queue).kind \in {"renew", "rename"} /\ shutdown = "no"
    /\ name = IF Head(queue).kind = "rename" THEN Head(queue).name ELSE currentName
    /\ call' = [kind |-> Head(queue).kind, step |-> "publish", attempted |-> name,
                previous |-> current, nameBefore |-> currentName]
    /\ currentName' = name
    /\ Starts(Publisher, "turn")
    /\ UNCHANGED <<current, leftovers, shutdown, toRemove, stolen, slips>>
StartsRestoration ==
    /\ Head(queue).kind = "rename" /\ shutdown # "no" /\ current # None
    /\ call' = [kind |-> "rename", step |-> "restore", attempted |-> None,
                previous |-> current, nameBefore |-> currentName]
    /\ Starts(Publisher, "turn")
    /\ UNCHANGED <<current, currentName, leftovers, shutdown, toRemove, stolen, slips>>
HasNothingToRestore ==
    /\ Head(queue).kind = "rename" /\ shutdown # "no" /\ current = None
    /\ leftovers' = {}
    /\ DropsLeftovers
    /\ UNCHANGED <<pc, failed, call, current, currentName, shutdown, toRemove, stolen>>

LEMMA WaysOfTakeUp ==
    ASSUME TakeUp
    PROVE  /\ OwnerUp /\ pc[Publisher] = "idle" /\ queue # <<>> /\ queue' = Tail(queue)
           /\ UNCHANGED <<disk, seen, examined, count, bound, crashed>>
           /\ \/ StartsShutdown \/ ThrowsAtOnce \/ (\E name : StartsPublication(name))
              \/ StartsRestoration \/ HasNothingToRestore
BY DEF TakeUp, StartsShutdown, ThrowsAtOnce, StartsPublication, StartsRestoration,
       HasNothingToRestore

LEMMA PublicationNames ==
    ASSUME OwnerOK, queue # <<>>, NEW name, StartsPublication(name)
    PROVE  name \in Names /\ call' \in Publication
<1>1. name \in Names
  BY NextOfQueue DEF StartsPublication, OwnerOK
<1>2. current \in Names \cup {None} /\ currentName \in Names
  BY DEF OwnerOK
<1> QED
  BY <1>1, <1>2 DEF StartsPublication, Publication

LEMMA TakeUpIInv ==
    ASSUME IInv, TakeUp
    PROVE  IInv'
<1>1. /\ OwnerOK /\ CallSound /\ Owner \notin crashed /\ pc[Publisher] = "idle"
      /\ queue # <<>> /\ queue' = Tail(queue)
      /\ UNCHANGED <<disk, seen, examined, count, crashed>>
      /\ pc \in [Workers -> Steps]
  BY WaysOfTakeUp DEF IInv, OwnerUp, WorkersOK
<1>2. queue' \in Seq(Queued) /\ call = NoCall
  BY <1>1, NextOfQueue DEF CallSound
<1>3. CASE StartsShutdown
  <2>1. RecordsToRemove \subseteq Names
    BY <1>1, NamesAssumption DEF RecordsToRemove, OwnerOK
  <2>2. OwnerOK'
    BY <1>1, <1>2, <1>3, <2>1 DEF StartsShutdown, OwnerOK
  <2>3. CallSound'
    BY <1>1, <1>2, <1>3, Processes, Absences DEF StartsShutdown, Starts, CallSound, Resting
  <2> QED
    BY <1>1, <1>3, <2>2, <2>3, OwnerSets DEF StartsShutdown, Starts
<1>4. CASE ThrowsAtOnce
  <2>1. OwnerOK' /\ CallSound'
    BY <1>1, <1>2, <1>4 DEF ThrowsAtOnce, OwnerOK, CallSound
  <2> QED
    BY <1>1, <1>4, <2>1, OwnerSets DEF ThrowsAtOnce
<1>5. ASSUME NEW name, StartsPublication(name) PROVE IInv'
  <2>1. name \in Names /\ call' \in Publication
    BY <1>1, <1>5, PublicationNames
  <2>2. OwnerOK'
    BY <1>1, <1>2, <1>5, <2>1 DEF StartsPublication, OwnerOK
  <2>3. CallSound'
    BY <1>1, <1>5, <2>1, Processes DEF StartsPublication, Starts, CallSound, Resting
  <2> QED
    BY <1>1, <1>5, <2>2, <2>3, OwnerSets DEF StartsPublication, Starts
<1>6. CASE StartsRestoration
  <2>1. current \in Names /\ currentName \in Names
    BY <1>1, <1>6 DEF OwnerOK, StartsRestoration
  <2>2. call' \in Publication
    BY <1>6, <2>1 DEF StartsRestoration, Publication
  <2>3. OwnerOK'
    BY <1>1, <1>2, <1>6, <2>2 DEF StartsRestoration, OwnerOK
  <2>4. CallSound'
    BY <1>1, <1>6, <2>1, <2>2, Processes DEF StartsRestoration, Starts, CallSound, Resting
  <2> QED
    BY <1>1, <1>6, <2>3, <2>4, OwnerSets DEF StartsRestoration, Starts
<1>7. CASE HasNothingToRestore
  <2>1. OwnerOK' /\ CallSound'
    BY <1>1, <1>2, <1>7 DEF HasNothingToRestore, OwnerOK, CallSound
  <2> QED
    BY <1>1, <1>7, <2>1, OwnerSets DEF HasNothingToRestore
<1> QED
  BY <1>3, <1>4, <1>5, <1>6, <1>7, WaysOfTakeUp

\* The ways in which a call of the publisher comes back.
PublishWorks ==
    /\ call.step = "publish" /\ ~failed[Publisher]
    /\ current' = call.attempted /\ leftovers' = {}
    /\ Finishes /\ UNCHANGED <<currentName, slips>>
RenewalFails ==
    /\ call.step = "publish" /\ failed[Publisher] /\ call.kind = "renew"
    /\ DropsLeftovers
    /\ Finishes /\ UNCHANGED <<current, leftovers, currentName>>
RenameFails(to) ==
    /\ call.step = "publish" /\ failed[Publisher] /\ call.kind = "rename"
    /\ currentName' = call.nameBefore
    /\ DropsLeftovers
    /\ \/ call.previous # None /\ call' = [call EXCEPT !.step = "restore"] /\ to = "turn"
       \/ call.previous = None /\ call' = [call EXCEPT !.step = "undo"] /\ to = "look"
    /\ Starts(Publisher, to)
    /\ UNCHANGED <<current, leftovers>>

LEMMA WaysOfPublisherReturns ==
    ASSUME PublisherReturns
    PROVE  /\ pc[Publisher] = "returned"
           /\ UNCHANGED <<disk, seen, examined, queue, shutdown, toRemove, count, crashed, stolen>>
           /\ \/ PublishWorks \/ RenewalFails \/ (\E to \in {"turn", "look"} : RenameFails(to))
              \/ RestorationReturned
<1>1. ASSUME PublishReturned
      PROVE  PublishWorks \/ RenewalFails \/ (\E to \in {"turn", "look"} : RenameFails(to))
  BY <1>1 DEF PublishReturned, PublishWorks, RenewalFails, RenameFails
<1> QED
  BY <1>1 DEF PublisherReturns

LEMMA PublisherReturnsIInv ==
    ASSUME IInv, PublisherReturns
    PROVE  IInv'
<1>1. /\ OwnerOK /\ CallSound /\ pc[Publisher] = "returned"
      /\ UNCHANGED <<disk, seen, examined, queue, shutdown, toRemove, count, crashed, stolen>>
      /\ pc \in [Workers -> Steps] /\ failed \in [Workers -> BOOLEAN]
  BY WaysOfPublisherReturns DEF IInv, WorkersOK
<1>2. Owner \notin crashed /\ call \in Publication
  BY <1>1, Processes DEF IInv, Locking, CallSound, Resting
<1>3. CASE PublishWorks
  <2>1. OwnerOK' /\ CallSound'
    BY <1>1, <1>3, Processes, Absences
    DEF PublishWorks, Finishes, OwnerOK, CallSound, Resting
  <2> QED
    BY <1>1, <1>2, <1>3, <2>1, OwnerSets DEF PublishWorks, Finishes
<1>4. CASE RenewalFails
  <2>1. OwnerOK' /\ CallSound'
    BY <1>1, <1>4, Processes, Absences
    DEF RenewalFails, Finishes, OwnerOK, CallSound, Resting
  <2> QED
    BY <1>1, <1>2, <1>4, <2>1, OwnerSets DEF RenewalFails, Finishes
<1>5. ASSUME NEW to \in {"turn", "look"}, RenameFails(to) PROVE IInv'
  <2>1. /\ call' \in Publication /\ call'.attempted = call.attempted
        /\ call'.previous = call.previous /\ call.nameBefore \in Names
        /\ \/ call.previous # None /\ call'.step = "restore" /\ to = "turn"
           \/ call.previous = None /\ call'.step = "undo" /\ to = "look"
    BY <1>2, <1>5 DEF RenameFails, Publication
  <2>2. call.attempted \in Names /\ call.previous \in Names \cup {None}
    BY <1>1, <1>2, <1>5 DEF RenameFails, CallSound, Publication
  <2>3. OwnerOK'
    BY <1>1, <1>5, <2>1 DEF RenameFails, OwnerOK
  <2>4. CallSound'
    BY <1>1, <1>5, <2>1, <2>2, Processes DEF RenameFails, Starts, CallSound, Resting
  <2> QED
    BY <1>1, <1>2, <1>5, <2>3, <2>4, OwnerSets DEF RenameFails, Starts
<1>6. CASE RestorationReturned
  <2>1. /\ call.attempted \in Names \cup {None} /\ call.previous \in Names \cup {None}
    BY <1>2 DEF Publication
  <2>2. OwnerOK' /\ CallSound'
    BY <1>1, <1>6, <2>1, Processes, Absences
    DEF RestorationReturned, Finishes, OwnerOK, CallSound, Resting
  <2> QED
    BY <1>1, <1>2, <1>6, <2>2, OwnerSets DEF RestorationReturned, Finishes
<1> QED
  BY <1>3, <1>4, <1>5, <1>6, WaysOfPublisherReturns

LEMMA RemoverReturnsIInv ==
    ASSUME IInv, RemoverReturns
    PROVE  IInv'
<1>1. /\ OwnerOK /\ CallSound /\ pc[Remover] = "returned" /\ pc \in [Workers -> Steps]
      /\ UNCHANGED <<disk, seen, examined, failed, queue, call, currentName, count, history>>
  BY DEF RemoverReturns, IInv, WorkersOK
<1>2. Owner \notin crashed
  BY <1>1, Processes DEF IInv, Locking
<1>3. PICK to \in {"over", "look"} : pc' = [pc EXCEPT ![Remover] = to]
  BY DEF RemoverReturns
<1>4. /\ toRemove' \subseteq toRemove /\ leftovers' \subseteq leftovers
      /\ current' \in {current, None} /\ shutdown' \in {"failed", "done", shutdown}
  BY DEF RemoverReturns
<1>5. OwnerOK'
  BY <1>1, <1>4 DEF OwnerOK
<1>6. CallSound'
  BY <1>1, <1>3, Processes DEF CallSound, Resting
<1> QED
  BY <1>1, <1>2, <1>3, <1>5, <1>6, OwnerSets DEF history

\* What is asked of the owner is queued, or noted.
LEMMA OwnerCallsIInv ==
    ASSUME IInv, CallRenew \/ CallShutdown \/ ShutdownWaits \/ \E n \in Names : CallRename(n)
    PROVE  IInv'
<1> USE DEF disk, worker, owner, history
<1>1. /\ UNCHANGED <<disk, worker, call, current, currentName, leftovers, toRemove, count>>
      /\ crashed' = crashed /\ stolen' = stolen
      /\ shutdown' \in {shutdown, "requested", "waiting"}
      /\ queue' = queue \/ \E c \in Queued : queue' = Append(queue, c)
  <2>1. [kind |-> "renew"] \in Queued /\ [kind |-> "barrier"] \in Queued
        /\ \A n \in Names : [kind |-> "rename", name |-> n] \in Queued
    BY DEF Queued
  <2>2. CASE CallRenew
    BY <2>1, <2>2 DEF CallRenew, Enqueued
  <2>3. CASE CallShutdown
    BY <2>3 DEF CallShutdown
  <2>4. CASE ShutdownWaits
    BY <2>1, <2>4 DEF ShutdownWaits, Enqueued
  <2>5. ASSUME NEW n \in Names, CallRename(n) PROVE <1>1!:
    BY <2>1, <2>5 DEF CallRename, Enqueued
  <2> QED
    BY <2>2, <2>3, <2>4, <2>5
<1>2. queue' \in Seq(Queued)
  BY <1>1, AppendProperties DEF IInv, OwnerOK
<1>3. OwnerOK'
  BY <1>1, <1>2 DEF IInv, OwnerOK
<1>4. DiskOK' /\ WorkersOK' /\ Locking' /\ LookedAt' /\ CallSound'
  BY <1>1 DEF IInv, DiskOK, WorkersOK, Locking, LookedAt, CallSound
<1> QED
  BY <1>3, <1>4 DEF IInv

LEMMA CrashIInv ==
    ASSUME IInv, NEW p, Crash(p)
    PROVE  IInv'
<1> USE DEF disk, owner
<1>1. /\ \A w \in Workers : pc'[w] = IF ProcessOf(w) = p THEN "dead" ELSE pc[w]
      /\ pc' \in [Workers -> Steps]
      /\ crashed' = crashed \cup {p} /\ stolen' = stolen
      /\ UNCHANGED <<disk, seen, examined, failed, owner, count>>
  BY DEF Crash, IInv, WorkersOK, Steps
<1>2. DiskOK' /\ OwnerOK'
  BY <1>1 DEF IInv, DiskOK, OwnerOK
<1>3. WorkersOK'
  BY <1>1 DEF IInv, WorkersOK
<1>4. Locking'
  BY <1>1 DEF IInv, Locking, HasLock
<1>5. LookedAt'
  BY <1>1 DEF IInv, LookedAt
<1>6. CallSound'
  BY <1>1, Processes DEF IInv, CallSound, Resting
<1> QED
  BY <1>2, <1>3, <1>4, <1>5, <1>6 DEF IInv

LEMMA NextIInv == IInv /\ [Next]_vars => IInv'
<1> SUFFICES ASSUME IInv, [Next]_vars PROVE IInv'
  OBVIOUS
<1>1. ASSUME NEW w \in Workers, Step(w) \/ PeerLooks(w) PROVE IInv'
  BY <1>1, WorkerGoesOn, AcquireIInv, ExamineIInv, ReclaimIInv, UnlockIInv, UnlinkIInv DEF Step
<1>2. CASE OwnerStep
  <2>1. ASSUME NEW renamed \in BOOLEAN, NEW fails \in BOOLEAN, Publish(renamed, fails)
        PROVE  IInv'
    BY <2>1, PublishIInv
  <2>2. CASE TakeUp
    BY <2>2, TakeUpIInv
  <2>3. CASE PublisherReturns
    BY <2>3, PublisherReturnsIInv
  <2>4. CASE RemoverReturns
    BY <2>4, RemoverReturnsIInv
  <2>5. CASE ShutdownWaits
    BY <2>5, OwnerCallsIInv
  <2> QED
    BY <1>2, <2>1, <2>2, <2>3, <2>4, <2>5 DEF OwnerStep
<1>3. CASE CallRenew \/ CallShutdown \/ \E n \in Names : CallRename(n)
  BY <1>3, OwnerCallsIInv
<1>4. ASSUME NEW p \in Peers \cup {Owner}, Crash(p) PROVE IInv'
  BY <1>4, CrashIInv
<1>5. CASE UNCHANGED vars
  BY <1>5
  DEF vars, disk, worker, owner, history, IInv, DiskOK, WorkersOK, OwnerOK, Locking, LookedAt,
      CallSound
<1> QED
  BY <1>1, <1>2, <1>3, <1>4, <1>5 DEF Next

\* The files, the locks and the calls are in order at every moment.
THEOREM Invariance == Spec => []IInv
<1> QED
  BY InitIInv, NextIInv, PTL DEF Spec

\* Of the calls that a lock admits there is one.
LEMMA OneHolder ==
    ASSUME IInv, ~stolen
    PROVE  Cardinality({w \in Workers : pc[w] \in HasLock}) <= 1
<1> DEFINE H == {w \in Workers : pc[w] \in HasLock}
<1>1. \A v, w \in H : v = w
  BY DEF IInv, Locking
<1>2. H = {} \/ \E w \in H : H = {w}
  BY <1>1
<1> HIDE DEF H
<1>3. Cardinality(H) <= 1
  BY <1>2, FS_EmptySet, FS_Singleton
<1> QED
  BY <1>3 DEF H

\* acquireRegistryRecordLock, reclaimStaleRegistryLock and the release: whatever peers
\* list the room and remove records in it, whatever fails and whoever crashes, two calls
\* are between a lock's acquisition and its release at once only after a crash.
THEOREM ExclusionAlways == Spec => []Exclusion
<1>1. IInv => Exclusion
  <2> SUFFICES ASSUME IInv PROVE Exclusion
    OBVIOUS
  <2>1. file # NoFile => file.name \in Names /\ file.stat \in 1 .. count.files
    BY DEF IInv, DiskOK
  <2>2. lock # NoLock => lock.by \in Workers /\ lock.id \in 1 .. count.locks
    BY DEF IInv, DiskOK
  <2> QED
    BY <2>1, <2>2, OneHolder DEF Exclusion, IInv, OwnerOK, Locking
<1> QED
  BY <1>1, Invariance, PTL

\* Who takes the record away.
LEMMA OnlyUnlinkRemoves ==
    ASSUME IInv, [Next]_vars, file # NoFile, file' = NoFile
    PROVE  \E w \in Workers : pc[w] = "unlink"
<1> SUFFICES ASSUME file' # file, \A w \in Workers : ~Unlink(w) PROVE FALSE
  BY DEF Unlink, Goes
<1>1. ASSUME NEW w \in Workers, Step(w) \/ PeerLooks(w) PROVE FALSE
  BY <1>1
  DEF Step, EnterTurn, Acquire, AcquireFails, Examine, Reclaim, Release, Unlock, Look, Recheck,
      PeerReturns, PeerLooks, disk
<1>2. ASSUME NEW renamed \in BOOLEAN, NEW fails \in BOOLEAN, Publish(renamed, fails) PROVE FALSE
  <2>1. count.files \in Nat
    BY DEF IInv, DiskOK
  <2>2. file'.stat = count.files + 1
    BY <1>2 DEF Publish
  <2> QED
    BY <2>1, <2>2, Absences
<1>3. CASE TakeUp \/ PublisherReturns \/ RemoverReturns \/ ShutdownWaits
  BY <1>3 DEF TakeUp, PublisherReturns, RemoverReturns, ShutdownWaits, disk
<1>4. CASE CallRenew \/ CallShutdown \/ \E n \in Names : CallRename(n)
  BY <1>4 DEF CallRenew, CallShutdown, CallRename, disk
<1>5. ASSUME NEW p \in Peers \cup {Owner}, Crash(p) PROVE FALSE
  BY <1>5 DEF Crash, disk
<1>6. CASE UNCHANGED vars
  BY <1>6 DEF vars, disk
<1> QED
  BY <1>1, <1>2, <1>3, <1>4, <1>5, <1>6 DEF Next, OwnerStep

\* removeRuntimeRecord and removeCandidateIfUnchanged: the record that is unlinked is the
\* very file that the call examined under the lock; one written meanwhile under the same
\* path stays, unless the lock was stolen.
THEOREM OnlyExaminedRecordsGoAlways == Spec => OnlyExaminedRecordsGo
<1>1. ASSUME IInv, [Next]_vars, file # NoFile, file' = NoFile
      PROVE  stolen \/ \E w \in Workers : pc[w] = "unlink" /\ seen[w] = file.stat
  <2>1. PICK w \in Workers : pc[w] = "unlink"
    BY <1>1, OnlyUnlinkRemoves
  <2> QED
    BY <1>1, <2>1 DEF IInv, LookedAt, Locking
<1> QED
  BY <1>1, Invariance, PTL DEF Spec, OnlyExaminedRecordsGo

-----------------------------------------------------------------------------
(* The record of the owner. *)

LEMMA RemoversExpectation ==
    /\ toRemove # {} => Expected(Remover) \subseteq toRemove
    /\ toRemove' = toRemove => Expected(Remover)' = Expected(Remover)
    /\ Expected(Publisher) = {call.attempted}
BY Processes DEF Expected

\* What is no more in the queue, and what comes into it.
LEMMA Barriers ==
    ASSUME OwnerOK
    PROVE  /\ queue # <<>> =>
                /\ Len(Tail(queue)) = Len(queue) - 1 /\ Len(queue) \in Nat
                /\ \A i \in DOMAIN Tail(queue) : i + 1 \in DOMAIN queue /\ Tail(queue)[i] = queue[i + 1]
                /\ 1 \in DOMAIN queue /\ Head(queue) = queue[1]
           /\ \A c \in Queued : \A i \in DOMAIN Append(queue, c) :
                \/ i \in DOMAIN queue /\ Append(queue, c)[i] = queue[i]
                \/ i = Len(Append(queue, c)) /\ Append(queue, c)[i] = c
<1>1. queue \in Seq(Queued) /\ Len(queue) \in Nat /\ DOMAIN queue = 1 .. Len(queue)
  BY LenProperties DEF OwnerOK
<1>2. ASSUME queue # <<>>
      PROVE  /\ Len(Tail(queue)) = Len(queue) - 1
             /\ \A i \in DOMAIN Tail(queue) :
                  i + 1 \in DOMAIN queue /\ Tail(queue)[i] = queue[i + 1]
             /\ 1 \in DOMAIN queue /\ Head(queue) = queue[1]
  <2>1. Tail(queue) \in Seq(Queued) /\ Len(Tail(queue)) = Len(queue) - 1 /\ Len(queue) >= 1
    BY <1>1, <1>2, HeadTailProperties, EmptySeq
  <2>2. DOMAIN Tail(queue) = 1 .. (Len(queue) - 1)
    BY <2>1, LenProperties
  <2>3. \A i \in 1 .. (Len(queue) - 1) : Tail(queue)[i] = queue[i + 1]
    BY <1>1, <1>2, HeadTailProperties
  <2>4. Head(queue) = queue[1]
    BY <1>1, <1>2, HeadTailProperties
  <2> QED
    BY <1>1, <2>1, <2>2, <2>3, <2>4
<1>3. ASSUME NEW c \in Queued, NEW i \in DOMAIN Append(queue, c)
      PROVE  \/ i \in DOMAIN queue /\ Append(queue, c)[i] = queue[i]
             \/ i = Len(Append(queue, c)) /\ Append(queue, c)[i] = c
  <2>1. Append(queue, c) \in Seq(Queued) /\ Len(Append(queue, c)) = Len(queue) + 1
        /\ DOMAIN Append(queue, c) = 1 .. (Len(queue) + 1)
    BY <1>1, AppendProperties, LenProperties
  <2>2. \A j \in 1 .. Len(queue) : Append(queue, c)[j] = queue[j]
    BY <1>1, AppendProperties
  <2>3. Append(queue, c)[Len(queue) + 1] = c
    BY <1>1, AppendProperties
  <2> QED
    BY <1>1, <1>3, <2>1, <2>2, <2>3
<1> QED
  BY <1>1, <1>2, <1>3

LEMMA InitRecord == Init => RecordInv
<1> SUFFICES ASSUME Init PROVE RecordInv
  OBVIOUS
<1>1. /\ pc[Publisher] = "idle" /\ pc[Remover] = "idle" /\ file = NoFile /\ call = NoCall
      /\ current = None /\ currentName = InitialName /\ leftovers = {} /\ queue = <<>>
      /\ shutdown = "no"
  BY Processes DEF Init
<1>2. ShutdownOrder /\ NameAgrees
  BY <1>1, Absences DEF ShutdownOrder, NameAgrees, Resting
<1>3. LeftoversKnown
  BY <1>1, Absences DEF LeftoversKnown, FileIn
<1>4. RemovalComplete
  BY <1>1 DEF RemovalComplete
<1> QED
  BY <1>2, <1>3, <1>4 DEF RecordInv

\* Whatever peers do, a file that goes disturbs nothing.
LEMMA FileFades ==
    ASSUME RecordInv,
           UNCHANGED <<owner, slips>>, file' \in {file, NoFile},
           \A w \in {Publisher, Remover} :
              pc'[w] = pc[w] /\ failed'[w] = failed[w] /\ seen'[w] = seen[w],
           crashed \subseteq crashed'
    PROVE  RecordInv'
<1> SUFFICES ASSUME Owner \notin crashed' PROVE (ShutdownOrder /\ NameAgrees
                                  /\ (slips = {} => LeftoversKnown /\ RemovalComplete))'
  BY DEF RecordInv
<1> USE DEF owner
<1>1. ShutdownOrder /\ NameAgrees /\ (slips = {} => LeftoversKnown /\ RemovalComplete)
  BY DEF RecordInv
<1>2. \A S : FileIn(S) => FileIn(S)'
  BY DEF FileIn
<1>3. ShutdownOrder'
  BY <1>1 DEF ShutdownOrder
<1>4. NameAgrees'
  BY <1>1 DEF NameAgrees, FileIn
<1>5. slips = {} => LeftoversKnown'
  BY <1>1 DEF LeftoversKnown, FileIn, Known
<1>6. slips = {} => RemovalComplete'
  BY <1>1, RemoversExpectation DEF RemovalComplete, FileIn
<1> QED
  BY <1>3, <1>4, <1>5, <1>6

LEMMA PeersRecord ==
    ASSUME IInv, RecordInv, NEW w \in Peers, Step(w) \/ PeerLooks(w)
    PROVE  RecordInv'
<1>1. w \notin {Publisher, Remover}
  BY Processes
<1>2. UNCHANGED <<owner, slips, crashed>> /\ file' \in {file, NoFile}
  BY DEF Step, EnterTurn, Acquire, AcquireFails, Examine, Reclaim, Release, Unlock, Look, Recheck,
         Unlink, PeerReturns, PeerLooks, disk, history
<1>3. pc \in [Workers -> Steps] /\ failed \in [Workers -> BOOLEAN] /\ seen \in [Workers -> Nat]
  BY DEF IInv, WorkersOK
<1>4. \E to : pc' = [pc EXCEPT ![w] = to]
  BY DEF Step, EnterTurn, Acquire, AcquireFails, Examine, Reclaim, Release, Unlock, Look, Recheck,
         Unlink, PeerReturns, PeerLooks, Goes
<1>5. failed' = failed \/ failed' = [failed EXCEPT ![w] = TRUE]
  BY DEF Step, EnterTurn, Acquire, AcquireFails, Examine, Reclaim, Release, Unlock, Look, Recheck,
         Unlink, PeerReturns, PeerLooks
<1>6. seen' = seen \/ seen' = [seen EXCEPT ![w] = file.stat]
  BY DEF Step, EnterTurn, Acquire, AcquireFails, Examine, Reclaim, Release, Unlock, Look, Recheck,
         Unlink, PeerReturns, PeerLooks
<1>7. \A v \in {Publisher, Remover} : pc'[v] = pc[v] /\ failed'[v] = failed[v] /\ seen'[v] = seen[v]
  BY <1>1, <1>3, <1>4, <1>5, <1>6, Processes
<1> QED
  BY <1>2, <1>7, FileFades

\* How a call of the owner gets from one step to the next: it goes for the lock,
WaysToLock(w) == pc[w] \in BeforeWrite /\ pc'[w] \in BeforeWrite
                 /\ UNCHANGED <<file, failed[w], seen[w]>>
\* does not get it or cannot unlink,
Fails(w) == /\ pc[w] \in BeforeWrite \cup {"unlink"} /\ pc'[w] \in Afterwards /\ failed'[w]
            /\ UNCHANGED <<file, seen[w]>>
\* gives it back,
GivesBack(w) == pc[w] \in {"release", "unlock"} /\ pc'[w] \in {"unlock", "returned"}
                /\ UNCHANGED <<file, failed[w], seen[w]>>
\* looks for the record to remove,
Finds(w) == pc[w] = "look" /\ pc'[w] = "turn" /\ FileIn(Expected(w)) /\ seen'[w] = file.stat
            /\ UNCHANGED <<file, failed[w]>>
Misses(w) == pc[w] = "look" /\ pc'[w] = "returned"
             /\ (file # NoFile => file.name \notin Expected(w))
             /\ UNCHANGED <<file, failed[w]>>
\* looks again, and removes it.
FindsAgain(w) == pc[w] = "critical" /\ pc'[w] = "unlink" /\ UNCHANGED <<file, failed[w], seen[w]>>
MissesNow(w) == pc[w] = "critical" /\ pc'[w] = "release" /\ ~LookAgain(w)
                /\ UNCHANGED <<file, failed[w], seen[w]>>
TakesAway(w) == pc[w] = "unlink" /\ pc'[w] = "release" /\ file' = NoFile /\ UNCHANGED failed[w]

OnItsWay(w) ==
    \/ WaysToLock(w) \/ Fails(w) \/ GivesBack(w) \/ Finds(w) \/ Misses(w)
    \/ (FindsAgain(w) \/ MissesNow(w)) /\ Removes(w)
    \/ TakesAway(w)

LEMMA OwnersSteps ==
    ASSUME IInv, NEW w \in {Publisher, Remover}, Step(w) \/ PeerLooks(w)
    PROVE  /\ OnItsWay(w)
           /\ UNCHANGED <<owner, crashed, slips>>
           /\ \A v \in {Publisher, Remover} : v # w =>
                 pc'[v] = pc[v] /\ failed'[v] = failed[v] /\ seen'[v] = seen[v]
<1> USE DEF disk, history, BeforeWrite, Afterwards
<1> DEFINE Rest == \A v \in {Publisher, Remover} : v # w =>
                      pc'[v] = pc[v] /\ failed'[v] = failed[v] /\ seen'[v] = seen[v]
<1>1. /\ w \in Workers /\ w \notin Peers /\ Publisher \in Workers /\ Remover \in Workers
      /\ pc \in [Workers -> Steps] /\ failed \in [Workers -> BOOLEAN] /\ seen \in [Workers -> Nat]
  BY Processes DEF IInv, WorkersOK
<1>2. CASE EnterTurn(w)
  BY <1>1, <1>2 DEF EnterTurn, Goes, OnItsWay, WaysToLock
<1>3. CASE Acquire(w)
  BY <1>1, <1>3 DEF Acquire, Goes, OnItsWay, WaysToLock
<1>4. CASE AcquireFails(w)
  BY <1>1, <1>4 DEF AcquireFails, Goes, OnItsWay, Fails
<1>5. CASE Examine(w)
  BY <1>1, <1>5 DEF Examine, Goes, OnItsWay, WaysToLock
<1>6. CASE Reclaim(w)
  BY <1>1, <1>6 DEF Reclaim, Goes, OnItsWay, WaysToLock
<1>7. CASE Release(w)
  BY <1>1, <1>7 DEF Release, Goes, OnItsWay, GivesBack
<1>8. CASE Unlock(w)
  BY <1>1, <1>8 DEF Unlock, Goes, OnItsWay, GivesBack
<1>9. CASE Look(w)
  <2>1. CASE file # NoFile /\ file.name \in Expected(w)
    BY <1>1, <1>9, <2>1 DEF Look, Goes, OnItsWay, Finds, FileIn
  <2>2. CASE ~(file # NoFile /\ file.name \in Expected(w))
    BY <1>1, <1>9, <2>2 DEF Look, Goes, OnItsWay, Misses
  <2> QED
    BY <2>1, <2>2
<1>10. CASE Recheck(w)
  <2>1. CASE LookAgain(w)
    BY <1>1, <1>10, <2>1 DEF Recheck, Goes, OnItsWay, FindsAgain
  <2>2. CASE ~LookAgain(w)
    BY <1>1, <1>10, <2>2 DEF Recheck, Goes, OnItsWay, MissesNow
  <2> QED
    BY <2>1, <2>2
<1>11. CASE Unlink(w)
  <2>1. CASE file' = NoFile /\ UNCHANGED <<failed, bound>>
    BY <1>1, <1>11, <2>1 DEF Unlink, Goes, OnItsWay, TakesAway
  <2>2. CASE failed' = [failed EXCEPT ![w] = TRUE] /\ UNCHANGED file
    BY <1>1, <1>11, <2>2 DEF Unlink, Goes, OnItsWay, Fails
  <2> QED
    BY <1>11, <2>1, <2>2 DEF Unlink
<1>12. CASE PeerReturns(w) \/ PeerLooks(w)
  BY <1>1, <1>12 DEF PeerReturns, PeerLooks
<1> QED
  BY <1>2, <1>3, <1>4, <1>5, <1>6, <1>7, <1>8, <1>9, <1>10, <1>11, <1>12 DEF Step

LEMMA PublisherRecord ==
    ASSUME IInv, RecordInv, Step(Publisher) \/ PeerLooks(Publisher)
    PROVE  RecordInv'
<1>1. /\ OnItsWay(Publisher)
      /\ UNCHANGED <<owner, crashed, slips>>
      /\ pc'[Remover] = pc[Remover] /\ failed'[Remover] = failed[Remover]
      /\ seen'[Remover] = seen[Remover]
  BY OwnersSteps, Processes
<1> SUFFICES ASSUME Owner \notin crashed
             PROVE  (ShutdownOrder /\ NameAgrees /\ (slips = {} => LeftoversKnown /\ RemovalComplete))'
  BY <1>1 DEF RecordInv
<1>2. ShutdownOrder /\ NameAgrees /\ (slips = {} => LeftoversKnown /\ RemovalComplete)
  BY DEF RecordInv
<1>3. /\ pc[Publisher] # "idle" /\ pc'[Publisher] # "idle" /\ pc'[Publisher] # "look"
      /\ pc'[Publisher] \notin Resting
  BY <1>1
  DEF OnItsWay, WaysToLock, Fails, GivesBack, Finds, Misses, FindsAgain, MissesNow, TakesAway,
      BeforeWrite, Afterwards, Resting
<1>4. file' \in {file, NoFile}
  BY <1>1
  DEF OnItsWay, WaysToLock, Fails, GivesBack, Finds, Misses, FindsAgain, MissesNow, TakesAway
<1>5. \A S : FileIn(S) => FileIn(S)'
  BY <1>4 DEF FileIn
<1>6. ShutdownOrder'
  BY <1>1, <1>2 DEF ShutdownOrder, owner
<1>7. slips = {} => RemovalComplete'
  BY <1>1, <1>2, <1>3, <1>4, RemoversExpectation DEF RemovalComplete, owner, FileIn
<1>8. /\ pc[Publisher] \in {"look", "unlink"} => call.step = "undo"
      /\ Removes(Publisher) => call.step = "undo"
  BY DEF IInv, CallSound, Removes
<1>9. CASE call.step = "undo"
  <2>1. NameAgrees'
    BY <1>1, <1>2, <1>3, <1>9 DEF NameAgrees, owner
  <2>2. ASSUME slips = {} PROVE LeftoversKnown'
    <3> DEFINE U == /\ pc[Publisher] = "look" => FileIn({InitialName, call.attempted}) /\ ~failed[Publisher]
                    /\ pc[Publisher] \in BeforeWrite \cup {"unlink"} =>
                          /\ FileIn({call.attempted}) /\ ~failed[Publisher]
                          /\ file # NoFile => file.stat = seen[Publisher]
                    /\ pc[Publisher] \in {"release", "unlock"} =>
                          IF failed[Publisher] THEN FileIn({call.attempted}) ELSE file = NoFile
                    /\ pc[Publisher] = "returned" =>
                          IF failed[Publisher] THEN FileIn({call.attempted}) ELSE FileIn({InitialName})
    <3>1. U /\ leftovers = {} /\ call.nameBefore = InitialName /\ current = None
      BY <1>2, <1>9, <2>2 DEF LeftoversKnown
    <3>2. Expected(Publisher) = {call.attempted}
      BY RemoversExpectation
    <3>3. ASSUME WaysToLock(Publisher) PROVE U'
      BY <1>1, <3>1, <3>3 DEF WaysToLock, BeforeWrite, owner, FileIn
    <3>4. ASSUME Fails(Publisher) PROVE U'
      BY <1>1, <3>1, <3>4 DEF Fails, BeforeWrite, Afterwards, owner, FileIn
    <3>5. ASSUME GivesBack(Publisher) PROVE U'
      BY <1>1, <3>1, <3>5 DEF GivesBack, BeforeWrite, Afterwards, owner, FileIn
    <3>6. ASSUME Finds(Publisher) PROVE U'
      BY <1>1, <3>1, <3>2, <3>6 DEF Finds, BeforeWrite, Afterwards, owner, FileIn
    <3>7. ASSUME Misses(Publisher) PROVE U'
      BY <1>1, <3>1, <3>2, <3>7 DEF Misses, BeforeWrite, Afterwards, owner, FileIn
    <3>8. ASSUME FindsAgain(Publisher) PROVE U'
      BY <1>1, <3>1, <3>8 DEF FindsAgain, BeforeWrite, Afterwards, owner, FileIn
    <3>9. ASSUME MissesNow(Publisher) PROVE U'
      BY <1>1, <3>1, <3>9 DEF MissesNow, LookAgain, BeforeWrite, Afterwards, owner, FileIn
    <3>10. ASSUME TakesAway(Publisher) PROVE U'
      BY <1>1, <3>1, <3>10 DEF TakesAway, BeforeWrite, Afterwards, owner, FileIn
    <3>11. U'
      BY <1>1, <3>3, <3>4, <3>5, <3>6, <3>7, <3>8, <3>9, <3>10 DEF OnItsWay
    <3> QED
      BY <1>1, <1>3, <1>9, <3>1, <3>11 DEF LeftoversKnown, owner
  <2> QED
    BY <1>1, <1>6, <1>7, <2>1, <2>2
<1>10. CASE call.step # "undo"
  <2>1. WaysToLock(Publisher) \/ Fails(Publisher) \/ GivesBack(Publisher)
    BY <1>1, <1>8, <1>10 DEF OnItsWay, Finds, Misses, TakesAway, Fails
  <2>2. LeftoversKnown => LeftoversKnown'
    BY <1>1, <1>3, <1>4, <1>10 DEF LeftoversKnown, FileIn, Known, owner
  <2>3. /\ pc'[Publisher] \in BeforeWrite => pc[Publisher] \in BeforeWrite /\ failed'[Publisher] = failed[Publisher]
        /\ pc'[Publisher] \in Afterwards /\ ~failed'[Publisher] =>
              pc[Publisher] \in Afterwards /\ ~failed[Publisher]
    BY <2>1 DEF WaysToLock, Fails, GivesBack, BeforeWrite, Afterwards
  <2>4. NameAgrees'
    BY <1>1, <1>2, <1>3, <1>4, <1>10, <2>3 DEF NameAgrees, FileIn, owner
  <2> QED
    BY <1>1, <1>2, <1>6, <1>7, <2>2, <2>4
<1> QED
  BY <1>9, <1>10

LEMMA RemoverRecord ==
    ASSUME IInv, RecordInv, Step(Remover) \/ PeerLooks(Remover)
    PROVE  RecordInv'
<1>1. /\ OnItsWay(Remover)
      /\ UNCHANGED <<owner, crashed, slips>>
      /\ pc'[Publisher] = pc[Publisher] /\ failed'[Publisher] = failed[Publisher]
      /\ seen'[Publisher] = seen[Publisher]
  BY OwnersSteps, Processes
<1> SUFFICES ASSUME Owner \notin crashed
             PROVE  (ShutdownOrder /\ NameAgrees /\ (slips = {} => LeftoversKnown /\ RemovalComplete))'
  BY <1>1 DEF RecordInv
<1>2. ShutdownOrder /\ NameAgrees /\ (slips = {} => LeftoversKnown /\ RemovalComplete)
  BY DEF RecordInv
<1>3. pc[Remover] \notin Resting
  BY <1>1
  DEF OnItsWay, WaysToLock, Fails, GivesBack, Finds, Misses, FindsAgain, MissesNow, TakesAway,
      BeforeWrite, Afterwards, Resting
<1>4. file' \in {file, NoFile}
  BY <1>1
  DEF OnItsWay, WaysToLock, Fails, GivesBack, Finds, Misses, FindsAgain, MissesNow, TakesAway
<1>5. shutdown = "removing"
  BY <1>2, <1>3 DEF ShutdownOrder
<1>6. ShutdownOrder'
  BY <1>1, <1>2, <1>5 DEF ShutdownOrder, owner
<1>7. NameAgrees'
  BY <1>1, <1>2, <1>4 DEF NameAgrees, FileIn, owner
<1>8. slips = {} => LeftoversKnown'
  BY <1>1, <1>2, <1>4 DEF LeftoversKnown, FileIn, Known, owner
<1>9. ASSUME slips = {} PROVE RemovalComplete'
  <2> DEFINE E == Expected(Remover)
             U == /\ FileIn(toRemove)
                  /\ pc[Remover] = "look" => ~failed[Remover]
                  /\ pc[Remover] \in BeforeWrite \cup {"unlink"} =>
                        /\ FileIn(E) /\ ~failed[Remover]
                        /\ file # NoFile => file.stat = seen[Remover]
                  /\ pc[Remover] \in {"release", "unlock"} /\ ~failed[Remover] => file = NoFile
                  /\ pc[Remover] = "returned" /\ ~failed[Remover] => FileIn(toRemove \ E)
  <2>1. U /\ queue = <<>> /\ pc[Publisher] = "idle" /\ toRemove # {}
    BY <1>2, <1>5, <1>9 DEF RemovalComplete
  <2>2. E' = E /\ toRemove' = toRemove
    BY <1>1, RemoversExpectation DEF owner
  <2> HIDE DEF E
  <2>3. ASSUME WaysToLock(Remover) PROVE U'
    BY <2>1, <2>2, <2>3 DEF WaysToLock, BeforeWrite, FileIn
  <2>4. ASSUME Fails(Remover) PROVE U'
    BY <2>1, <2>2, <2>4 DEF Fails, BeforeWrite, Afterwards, FileIn
  <2>5. ASSUME GivesBack(Remover) PROVE U'
    BY <2>1, <2>2, <2>5 DEF GivesBack, BeforeWrite, FileIn
  <2>6. ASSUME Finds(Remover) PROVE U'
    BY <2>1, <2>2, <2>6 DEF Finds, BeforeWrite, FileIn, E
  <2>7. ASSUME Misses(Remover) PROVE U'
    BY <2>1, <2>2, <2>7 DEF Misses, BeforeWrite, FileIn, E
  <2>8. ASSUME FindsAgain(Remover) PROVE U'
    BY <2>1, <2>2, <2>8 DEF FindsAgain, BeforeWrite, FileIn
  <2>9. ASSUME MissesNow(Remover) PROVE U'
    BY <2>1, <2>2, <2>9 DEF MissesNow, LookAgain, BeforeWrite, FileIn
  <2>10. ASSUME TakesAway(Remover) PROVE U'
    BY <2>1, <2>2, <2>10 DEF TakesAway, BeforeWrite, FileIn
  <2>11. U'
    BY <1>1, <2>3, <2>4, <2>5, <2>6, <2>7, <2>8, <2>9, <2>10 DEF OnItsWay
  <2> QED
    BY <1>1, <1>5, <2>1, <2>11 DEF RemovalComplete, owner, E
<1> QED
  BY <1>1, <1>6, <1>7, <1>8, <1>9

\* The file that is written has the name attempted, or the one to be restored.
LEMMA PublishRecord ==
    ASSUME IInv, RecordInv, NEW renamed \in BOOLEAN, NEW fails \in BOOLEAN, renamed \/ fails,
           Publish(renamed, fails)
    PROVE  RecordInv'
<1> USE DEF owner
<1> SUFFICES ASSUME Owner \notin crashed
             PROVE  (ShutdownOrder /\ NameAgrees /\ (slips = {} => LeftoversKnown /\ RemovalComplete))'
  BY DEF RecordInv, Publish, history
<1>1. ShutdownOrder /\ NameAgrees /\ (slips = {} => LeftoversKnown /\ RemovalComplete)
  BY DEF RecordInv
<1>2. /\ pc[Publisher] = "critical" /\ pc'[Publisher] = "release"
      /\ pc'[Remover] = pc[Remover] /\ failed'[Publisher] = fails
      /\ UNCHANGED <<owner, slips>> /\ (~renamed => file' = file)
      /\ call \in Publication /\ call.step # "undo"
      /\ call.step = "publish" => call.attempted \in Names
      /\ call.step = "restore" => call.previous \in Names
  BY Processes DEF Publish, Goes, IInv, WorkersOK, CallSound, Removes, Resting, history
<1>3. renamed => file'.name = IF call.step = "publish" THEN call.attempted ELSE call.previous
  BY DEF Publish
<1>4. call.step \in {"publish", "restore"}
  BY <1>2 DEF Publication
<1>5. ShutdownOrder'
  BY <1>1, <1>2 DEF ShutdownOrder
<1>6. NameAgrees'
  <2>1. CASE call.step = "publish"
    BY <1>1, <1>2, <1>3, <2>1 DEF NameAgrees, FileIn, BeforeWrite, Afterwards
  <2>2. CASE call.step = "restore"
    BY <1>1, <1>2, <1>3, <2>2 DEF NameAgrees, FileIn, BeforeWrite, Afterwards
  <2> QED
    BY <1>4, <2>1, <2>2
<1>7. slips = {} => LeftoversKnown'
  BY <1>1, <1>2, <1>3, <1>4 DEF LeftoversKnown, FileIn, Known
<1>8. slips = {} => RemovalComplete'
  BY <1>1, <1>2 DEF RemovalComplete
<1> QED
  BY <1>2, <1>5, <1>6, <1>7, <1>8

\* What shutdown sets out to remove, and what the queue then has.
LEMMA TailHasNoBarrier ==
    ASSUME IInv, RemovalComplete, queue # <<>>
    PROVE  /\ shutdown # "waiting" =>
                \A i \in DOMAIN Tail(queue) : Tail(queue)[i].kind # "barrier"
           /\ shutdown = "waiting" =>
                \A i \in DOMAIN Tail(queue) : Tail(queue)[i].kind = "barrier" => i = Len(Tail(queue))
           /\ Head(queue).kind = "barrier" => shutdown = "waiting" /\ Tail(queue) = <<>>
           /\ shutdown # "removing"
<1>1. /\ Len(Tail(queue)) = Len(queue) - 1 /\ Len(queue) \in Nat
      /\ \A i \in DOMAIN Tail(queue) : i + 1 \in DOMAIN queue /\ Tail(queue)[i] = queue[i + 1]
      /\ 1 \in DOMAIN queue /\ Head(queue) = queue[1]
  BY Barriers DEF IInv
<1>2. Tail(queue) \in Seq(Queued)
  BY NextOfQueue DEF IInv
<1>3. \A i \in DOMAIN Tail(queue) : i \in Nat
  BY <1>2, LenProperties
<1>4. Head(queue).kind = "barrier" => shutdown = "waiting" /\ Len(queue) = 1
  BY <1>1 DEF RemovalComplete
<1>5. Len(Tail(queue)) = 0 => Tail(queue) = <<>>
  BY <1>2, EmptySeq
<1>6. shutdown # "waiting" => \A i \in DOMAIN Tail(queue) : Tail(queue)[i].kind # "barrier"
  BY <1>1 DEF RemovalComplete
<1>7. shutdown = "waiting" =>
         \A i \in DOMAIN Tail(queue) : Tail(queue)[i].kind = "barrier" => i = Len(Tail(queue))
  <2> SUFFICES ASSUME shutdown = "waiting", NEW i \in DOMAIN Tail(queue),
                      Tail(queue)[i].kind = "barrier"
               PROVE  i = Len(Tail(queue))
    OBVIOUS
  <2>1. i + 1 = Len(queue)
    BY <1>1 DEF RemovalComplete
  <2> QED
    BY <1>1, <1>3, <2>1
<1> QED
  BY <1>1, <1>4, <1>5, <1>6, <1>7 DEF RemovalComplete

LEMMA TakeUpRecord ==
    ASSUME IInv, RecordInv, TakeUp
    PROVE  RecordInv'
<1>1. /\ OwnerOK /\ Owner \notin crashed /\ pc[Publisher] = "idle" /\ call = NoCall
      /\ queue # <<>> /\ queue' = Tail(queue)
      /\ UNCHANGED <<file, seen, crashed>>
      /\ pc \in [Workers -> Steps] /\ failed \in [Workers -> BOOLEAN]
      /\ Publisher \in Workers /\ Remover \in Workers /\ Publisher # Remover
  BY WaysOfTakeUp, Processes DEF IInv, OwnerUp, WorkersOK, CallSound, disk
<1> SUFFICES (ShutdownOrder /\ NameAgrees /\ (slips = {} => LeftoversKnown /\ RemovalComplete))'
  BY DEF RecordInv
<1>2. ShutdownOrder /\ NameAgrees /\ (slips = {} => LeftoversKnown /\ RemovalComplete)
  BY <1>1 DEF RecordInv
<1>3. slips = {} =>
        /\ shutdown # "waiting" =>
             \A i \in DOMAIN queue' : queue'[i].kind # "barrier"
        /\ shutdown = "waiting" =>
             \A i \in DOMAIN queue' : queue'[i].kind = "barrier" => i = Len(queue')
        /\ Head(queue).kind = "barrier" => shutdown = "waiting" /\ queue' = <<>>
        /\ shutdown # "removing"
  BY <1>1, <1>2, TailHasNoBarrier
<1>4. CASE StartsShutdown
  <2>1. /\ shutdown' = "removing" /\ toRemove' = RecordsToRemove
        /\ pc'[Publisher] = "idle" /\ pc'[Remover] = "look" /\ failed'[Remover] = FALSE
        /\ UNCHANGED <<call, current, currentName, leftovers, slips>>
    BY <1>1, <1>4 DEF StartsShutdown, Starts
  <2>2. ShutdownOrder' /\ NameAgrees'
    BY <1>1, <1>2, <2>1, Absences DEF ShutdownOrder, NameAgrees, FileIn
  <2>3. ASSUME slips' = {} PROVE LeftoversKnown' /\ RemovalComplete'
    <3>1. LeftoversKnown /\ slips = {} /\ shutdown = "waiting" /\ queue' = <<>>
      BY <1>2, <1>3, <1>4, <2>1, <2>3 DEF StartsShutdown
    <3>2. RecordsToRemove # {} /\ FileIn(RecordsToRemove)
      BY <1>1, <1>2, <3>1 DEF RecordsToRemove, LeftoversKnown, NameAgrees, Known
    <3>3. FileIn(toRemove)' /\ toRemove' # {}
      BY <1>1, <2>1, <3>2 DEF FileIn
    <3>4. LeftoversKnown'
      BY <1>1, <2>1, <3>1, Absences DEF LeftoversKnown, FileIn, Known
    <3> QED
      BY <2>1, <3>1, <3>3, <3>4 DEF RemovalComplete, BeforeWrite
  <2> QED
    BY <2>2, <2>3
<1>5. CASE ThrowsAtOnce
  <2>1. UNCHANGED <<pc, failed, call, current, currentName, leftovers, shutdown, toRemove, slips>>
    BY <1>5 DEF ThrowsAtOnce
  <2>2. ShutdownOrder' /\ NameAgrees' /\ (LeftoversKnown => LeftoversKnown')
    BY <1>1, <1>2, <2>1 DEF ShutdownOrder, NameAgrees, LeftoversKnown, FileIn, Known
  <2>3. slips = {} => RemovalComplete'
    BY <1>1, <1>2, <1>3, <2>1 DEF RemovalComplete
  <2> QED
    BY <1>2, <2>1, <2>2, <2>3
<1>6. ASSUME NEW name, StartsPublication(name)
      PROVE  (ShutdownOrder /\ NameAgrees /\ (slips = {} => LeftoversKnown /\ RemovalComplete))'
  <2>1. /\ shutdown = "no" /\ name \in Names
        /\ call'.step = "publish" /\ call'.attempted = name /\ call'.previous = current
        /\ call'.nameBefore = currentName /\ call'.kind \in {"renew", "rename"}
        /\ call'.kind = "renew" => name = currentName
        /\ currentName' = name
        /\ pc'[Publisher] = "turn" /\ pc'[Remover] = pc[Remover] /\ ~failed'[Publisher]
        /\ UNCHANGED <<current, leftovers, shutdown, toRemove, slips>>
    BY <1>1, <1>6, PublicationNames DEF StartsPublication, Starts
  <2>2. ShutdownOrder'
    BY <1>2, <2>1 DEF ShutdownOrder
  <2>3. NameAgrees'
    BY <1>1, <1>2, <2>1 DEF NameAgrees, FileIn, Afterwards
  <2>4. slips = {} => LeftoversKnown'
    BY <1>1, <1>2, <2>1 DEF LeftoversKnown, FileIn, Known
  <2>5. slips = {} => RemovalComplete'
    BY <1>3, <2>1 DEF RemovalComplete
  <2> QED
    BY <2>1, <2>2, <2>3, <2>4, <2>5
<1>7. CASE StartsRestoration
  <2>1. /\ shutdown # "no" /\ current # None
        /\ call'.step = "restore" /\ call'.attempted = None /\ call'.previous = current
        /\ call'.nameBefore = currentName /\ call'.kind = "rename"
        /\ pc'[Publisher] = "turn" /\ pc'[Remover] = pc[Remover] /\ ~failed'[Publisher]
        /\ UNCHANGED <<current, currentName, leftovers, shutdown, toRemove, slips>>
    BY <1>1, <1>7 DEF StartsRestoration, Starts
  <2>2. ShutdownOrder'
    BY <1>2, <2>1 DEF ShutdownOrder
  <2>3. NameAgrees'
    BY <1>1, <1>2, <2>1 DEF NameAgrees, FileIn, Afterwards
  <2>4. slips = {} => LeftoversKnown'
    BY <1>1, <1>2, <2>1 DEF LeftoversKnown, FileIn, Known
  <2>5. slips = {} => RemovalComplete'
    BY <1>2, <1>3, <2>1 DEF RemovalComplete
  <2> QED
    BY <2>1, <2>2, <2>3, <2>4, <2>5
<1>8. CASE HasNothingToRestore
  <2>1. /\ slips' = {} => slips = {} /\ leftovers = {}
        /\ leftovers' = {} /\ current = None
        /\ UNCHANGED <<pc, failed, call, current, currentName, shutdown, toRemove>>
    BY <1>8 DEF HasNothingToRestore, DropsLeftovers
  <2>2. ShutdownOrder' /\ NameAgrees'
    BY <1>1, <1>2, <2>1 DEF ShutdownOrder, NameAgrees, FileIn
  <2>3. slips' = {} => LeftoversKnown'
    BY <1>1, <1>2, <2>1 DEF LeftoversKnown, FileIn, Known
  <2>4. slips' = {} => RemovalComplete'
    BY <1>1, <1>2, <1>3, <2>1 DEF RemovalComplete
  <2> QED
    BY <2>2, <2>3, <2>4
<1> QED
  BY <1>4, <1>5, <1>6, <1>7, <1>8, WaysOfTakeUp

LEMMA PublisherReturnsRecord ==
    ASSUME IInv, RecordInv, PublisherReturns
    PROVE  RecordInv'
<1>1. /\ OwnerOK /\ pc[Publisher] = "returned" /\ call \in Publication /\ Owner \notin crashed
      /\ UNCHANGED <<file, seen, queue, shutdown, toRemove, crashed>>
      /\ pc \in [Workers -> Steps] /\ failed \in [Workers -> BOOLEAN]
      /\ Publisher \in Workers /\ Remover \in Workers /\ Publisher # Remover
  BY WaysOfPublisherReturns, Processes DEF IInv, WorkersOK, CallSound, Locking, Resting, disk
<1> SUFFICES (ShutdownOrder /\ NameAgrees /\ (slips = {} => LeftoversKnown /\ RemovalComplete))'
  BY DEF RecordInv
<1>2. ShutdownOrder /\ NameAgrees /\ (slips = {} => LeftoversKnown /\ RemovalComplete)
  BY <1>1 DEF RecordInv
<1>3. /\ call.step = "publish" => call.attempted \in Names
      /\ call.step = "restore" => call.previous \in Names
      /\ call.step = "undo" => call.attempted \in Names /\ call.previous = None
      /\ None \notin Names
  BY NamesAssumption DEF IInv, CallSound
<1>4. slips = {} => shutdown \notin {"removing", "done"}
  BY <1>1, <1>2 DEF RemovalComplete
<1>5. file # NoFile => file.name \in Names
  BY DEF IInv, DiskOK
<1>6. CASE PublishWorks
  <2>1. /\ call.step = "publish" /\ ~failed[Publisher] /\ current' = call.attempted /\ leftovers' = {}
        /\ pc'[Publisher] = "idle" /\ pc'[Remover] = pc[Remover] /\ call' = NoCall
        /\ failed' = failed /\ currentName' = currentName /\ slips' = slips
    BY <1>1, <1>6 DEF PublishWorks, Finishes
  <2>2. FileIn({call.attempted}) /\ currentName = call.attempted
    BY <1>1, <1>2, <2>1 DEF NameAgrees, Afterwards
  <2>3. ShutdownOrder'
    BY <1>1, <1>2, <2>1, Absences DEF ShutdownOrder
  <2>4. NameAgrees'
    BY <1>1, <2>1, <2>2, Absences DEF NameAgrees, FileIn
  <2>5. LeftoversKnown'
    BY <1>3, <2>1, Absences DEF LeftoversKnown
  <2>6. slips = {} => RemovalComplete'
    BY <1>1, <1>2, <1>4, <2>1 DEF RemovalComplete
  <2> QED
    BY <2>1, <2>3, <2>4, <2>5, <2>6
<1>7. CASE RenewalFails
  <2>1. /\ call.step = "publish" /\ failed[Publisher] /\ call.kind = "renew"
        /\ pc'[Publisher] = "idle" /\ pc'[Remover] = pc[Remover] /\ call' = NoCall
        /\ slips' = {} => slips = {} /\ leftovers = {}
        /\ UNCHANGED <<failed, current, leftovers, currentName>>
    BY <1>1, <1>7 DEF RenewalFails, Finishes, DropsLeftovers
  <2>2. /\ current = call.previous /\ currentName = call.attempted
        /\ call.attempted = call.nameBefore
        /\ call.previous # None => call.previous = call.nameBefore
                                   /\ FileIn({call.attempted, call.previous})
    BY <1>2, <2>1 DEF NameAgrees
  <2>3. ShutdownOrder'
    BY <1>1, <1>2, <2>1, Absences DEF ShutdownOrder
  <2>4. NameAgrees'
    BY <1>1, <2>1, <2>2, Absences DEF NameAgrees, FileIn
  <2>5. slips' = {} => LeftoversKnown'
    BY <1>1, <1>2, <2>1, <2>2, Absences DEF LeftoversKnown, FileIn, Known
  <2>6. slips' = {} => RemovalComplete'
    BY <1>1, <1>2, <1>4, <2>1 DEF RemovalComplete
  <2> QED
    BY <2>3, <2>4, <2>5, <2>6
<1>8. ASSUME NEW to \in {"turn", "look"}, RenameFails(to)
      PROVE  (ShutdownOrder /\ NameAgrees /\ (slips = {} => LeftoversKnown /\ RemovalComplete))'
  <2>1. /\ call.step = "publish" /\ call.kind = "rename" /\ currentName' = call.nameBefore
        /\ call'.kind = "rename" /\ call'.attempted = call.attempted
        /\ call'.previous = call.previous /\ call'.nameBefore = call.nameBefore
        /\ \/ call.previous # None /\ call'.step = "restore" /\ to = "turn"
           \/ call.previous = None /\ call'.step = "undo" /\ to = "look"
        /\ pc'[Publisher] = to /\ pc'[Remover] = pc[Remover] /\ ~failed'[Publisher]
        /\ failed'[Remover] = failed[Remover]
        /\ slips' = {} => slips = {} /\ leftovers = {}
        /\ UNCHANGED <<current, leftovers>>
    BY <1>1, <1>8 DEF RenameFails, Starts, DropsLeftovers, Publication
  <2>2. /\ current = call.previous
        /\ call.previous # None => call.previous = call.nameBefore
                                   /\ FileIn({call.attempted, call.previous})
    BY <1>2, <2>1 DEF NameAgrees
  <2>3. ShutdownOrder'
    BY <1>1, <1>2, <2>1 DEF ShutdownOrder
  <2>4. NameAgrees'
    BY <1>1, <2>1, <2>2 DEF NameAgrees, FileIn, Afterwards
  <2>5. slips' = {} => LeftoversKnown'
    BY <1>1, <1>2, <2>1, <2>2 DEF LeftoversKnown, FileIn, Known, BeforeWrite
  <2>6. slips' = {} => RemovalComplete'
    BY <1>1, <1>2, <1>4, <2>1 DEF RemovalComplete
  <2> QED
    BY <2>3, <2>4, <2>5, <2>6
<1>9. CASE RestorationReturned
  <2>1. /\ call.step \in {"restore", "undo"}
        /\ failed[Publisher] => current' = None /\ leftovers' = {call.attempted, call.previous} \ {None}
        /\ ~failed[Publisher] => current' = call.previous /\ leftovers' = {}
        /\ pc'[Publisher] = "idle" /\ pc'[Remover] = pc[Remover] /\ call' = NoCall
        /\ UNCHANGED <<failed, currentName, slips>>
    BY <1>1, <1>9 DEF RestorationReturned, Finishes
  <2>2. ShutdownOrder'
    BY <1>1, <1>2, <2>1, Absences DEF ShutdownOrder
  <2>3. NameAgrees'
    BY <1>1, <1>2, <1>3, <2>1, Absences DEF NameAgrees, FileIn, Afterwards
  <2>4. slips' = {} => LeftoversKnown'
    <3>1. CASE failed[Publisher]
      BY <1>1, <1>2, <1>3, <1>5, <2>1, <3>1, Absences
      DEF LeftoversKnown, NameAgrees, FileIn, Known, BeforeWrite
    <3>2. CASE ~failed[Publisher]
      BY <1>1, <1>2, <1>3, <1>5, <2>1, <3>2, Absences
      DEF LeftoversKnown, NameAgrees, FileIn, Known, BeforeWrite
    <3> QED
      BY <3>1, <3>2
  <2>5. slips' = {} => RemovalComplete'
    BY <1>1, <1>2, <1>4, <2>1 DEF RemovalComplete
  <2> QED
    BY <2>2, <2>3, <2>4, <2>5
<1> QED
  BY <1>6, <1>7, <1>8, <1>9, WaysOfPublisherReturns

LEMMA RemoverReturnsRecord ==
    ASSUME IInv, RecordInv, RemoverReturns
    PROVE  RecordInv'
<1>1. /\ pc[Remover] = "returned" /\ Owner \notin crashed
      /\ UNCHANGED <<file, seen, failed, queue, call, currentName, slips, crashed>>
      /\ pc \in [Workers -> Steps]
      /\ Publisher \in Workers /\ Remover \in Workers /\ Publisher # Remover
  BY Processes DEF RemoverReturns, IInv, WorkersOK, Locking, disk, history
<1> SUFFICES (ShutdownOrder /\ NameAgrees /\ (slips = {} => LeftoversKnown /\ RemovalComplete))'
  BY DEF RecordInv
<1>2. ShutdownOrder /\ NameAgrees /\ (slips = {} => LeftoversKnown /\ RemovalComplete)
  BY <1>1 DEF RecordInv
<1>3. shutdown = "removing"
  BY <1>1, <1>2 DEF ShutdownOrder, Resting
<1>4. call.step # "publish"
  BY <1>2, <1>3 DEF ShutdownOrder
<1>5. slips = {} =>
         /\ queue = <<>> /\ pc[Publisher] = "idle"
         /\ ~failed[Remover] => FileIn(toRemove \ Expected(Remover))
  BY <1>1, <1>2, <1>3 DEF RemovalComplete
<1>6. CASE failed[Remover]
  <2>1. /\ shutdown' = "failed" /\ pc'[Remover] = "over" /\ pc'[Publisher] = pc[Publisher]
        /\ UNCHANGED <<toRemove, current, leftovers>>
    BY <1>1, <1>6 DEF RemoverReturns
  <2>2. ShutdownOrder' /\ NameAgrees'
    BY <1>1, <1>2, <1>4, <2>1 DEF ShutdownOrder, NameAgrees, FileIn, Resting
  <2>3. slips = {} => LeftoversKnown' /\ RemovalComplete'
    BY <1>1, <1>2, <1>3, <1>5, <2>1 DEF LeftoversKnown, RemovalComplete, FileIn, Known
  <2> QED
    BY <1>1, <2>2, <2>3
<1>7. CASE ~failed[Remover] /\ toRemove \ Expected(Remover) # {}
  <2>1. /\ toRemove' = toRemove \ Expected(Remover)
        /\ pc'[Remover] = "look" /\ pc'[Publisher] = pc[Publisher]
        /\ UNCHANGED <<shutdown, current, leftovers>>
    BY <1>1, <1>7 DEF RemoverReturns
  <2>2. ShutdownOrder' /\ NameAgrees'
    BY <1>1, <1>2, <1>3, <1>4, <2>1 DEF ShutdownOrder, NameAgrees, FileIn
  <2>3. slips = {} => LeftoversKnown'
    BY <1>1, <1>2, <1>3, <2>1 DEF LeftoversKnown, FileIn, Known
  <2>4. slips = {} => FileIn(toRemove)'
    BY <1>1, <1>5, <1>7, <2>1 DEF FileIn
  <2>5. slips = {} => RemovalComplete'
    BY <1>1, <1>3, <1>5, <1>7, <2>1, <2>4 DEF RemovalComplete, BeforeWrite
  <2> QED
    BY <1>1, <2>2, <2>3, <2>5
<1>8. CASE ~failed[Remover] /\ toRemove \ Expected(Remover) = {}
  <2>1. /\ shutdown' = "done" /\ current' = None /\ leftovers' = {}
        /\ pc'[Remover] = "over" /\ pc'[Publisher] = pc[Publisher]
    BY <1>1, <1>8 DEF RemoverReturns
  <2>2. slips = {} => file = NoFile
    BY <1>5, <1>8 DEF FileIn
  <2>3. ShutdownOrder' /\ NameAgrees'
    BY <1>1, <1>2, <1>4, <2>1 DEF ShutdownOrder, NameAgrees, FileIn, Resting
  <2>4. slips = {} => LeftoversKnown' /\ RemovalComplete'
    BY <1>1, <1>2, <1>3, <1>4, <1>5, <2>1, <2>2
    DEF LeftoversKnown, RemovalComplete, FileIn, Known
  <2> QED
    BY <1>1, <2>3, <2>4
<1> QED
  BY <1>6, <1>7, <1>8

LEMMA OwnerCallsRecord ==
    ASSUME IInv, RecordInv,
           CallRenew \/ CallShutdown \/ ShutdownWaits \/ \E n \in Names : CallRename(n)
    PROVE  RecordInv'
<1> USE DEF disk, worker, owner, history
<1>1. /\ UNCHANGED <<file, worker, call, current, currentName, leftovers, toRemove, crashed>>
      /\ Owner \notin crashed
  BY DEF CallRenew, CallShutdown, CallRename, ShutdownWaits, OwnerUp
<1> SUFFICES (ShutdownOrder /\ NameAgrees /\ (slips = {} => LeftoversKnown /\ RemovalComplete))'
  BY DEF RecordInv
<1>2. ShutdownOrder /\ NameAgrees /\ (slips = {} => LeftoversKnown /\ RemovalComplete)
  BY <1>1 DEF RecordInv
<1>3. NameAgrees'
  BY <1>1, <1>2 DEF NameAgrees, FileIn
<1>4. \A c \in Queued : \A i \in DOMAIN Append(queue, c) :
         \/ i \in DOMAIN queue /\ Append(queue, c)[i] = queue[i]
         \/ i = Len(Append(queue, c)) /\ Append(queue, c)[i] = c
  BY Barriers DEF IInv
<1>5. [kind |-> "renew"] \in Queued /\ [kind |-> "barrier"] \in Queued
      /\ \A n \in Names : [kind |-> "rename", name |-> n] \in Queued
  BY DEF Queued
<1>6. CASE CallRenew
  <2>1. shutdown = "no" /\ queue' = Append(queue, [kind |-> "renew"])
        /\ shutdown' = shutdown /\ slips' = slips
    BY <1>6 DEF CallRenew, Enqueued
  <2>2. ShutdownOrder' /\ (LeftoversKnown => LeftoversKnown')
    BY <1>1, <1>2, <2>1 DEF ShutdownOrder, LeftoversKnown, FileIn, Known
  <2>3. slips = {} => RemovalComplete'
    BY <1>1, <1>2, <1>4, <1>5, <2>1 DEF RemovalComplete
  <2> QED
    BY <1>2, <1>3, <2>1, <2>2, <2>3
<1>7. ASSUME NEW n \in Names, CallRename(n)
      PROVE  (ShutdownOrder /\ NameAgrees /\ (slips = {} => LeftoversKnown /\ RemovalComplete))'
  <2>1. queue' = Append(queue, [kind |-> "rename", name |-> n]) /\ shutdown' = shutdown
        /\ (slips' = {} => slips = {} /\ shutdown \notin {"waiting", "removing"})
    BY <1>7 DEF CallRename, Enqueued
  <2>2. ShutdownOrder' /\ (LeftoversKnown => LeftoversKnown')
    BY <1>1, <1>2, <2>1 DEF ShutdownOrder, LeftoversKnown, FileIn, Known
  <2>3. slips' = {} => RemovalComplete'
    BY <1>1, <1>2, <1>4, <1>5, <2>1 DEF RemovalComplete
  <2> QED
    BY <1>2, <1>3, <2>1, <2>2, <2>3
<1>8. CASE CallShutdown
  <2>1. shutdown = "no" /\ shutdown' = "requested" /\ UNCHANGED <<queue, slips>>
    BY <1>8 DEF CallShutdown
  <2>2. ShutdownOrder' /\ (LeftoversKnown => LeftoversKnown') /\ (RemovalComplete => RemovalComplete')
    BY <1>1, <1>2, <2>1 DEF ShutdownOrder, LeftoversKnown, RemovalComplete, FileIn, Known
  <2> QED
    BY <1>2, <1>3, <2>1, <2>2
<1>9. CASE ShutdownWaits
  <2>1. shutdown = "requested" /\ queue' = Append(queue, [kind |-> "barrier"])
        /\ shutdown' = "waiting" /\ slips' = slips
    BY <1>9 DEF ShutdownWaits, Enqueued
  <2>2. ShutdownOrder' /\ (LeftoversKnown => LeftoversKnown')
    BY <1>1, <1>2, <2>1 DEF ShutdownOrder, LeftoversKnown, FileIn, Known
  <2>3. slips = {} => RemovalComplete'
    BY <1>1, <1>2, <1>4, <1>5, <2>1 DEF RemovalComplete
  <2> QED
    BY <1>2, <1>3, <2>1, <2>2, <2>3
<1> QED
  BY <1>6, <1>7, <1>8, <1>9

LEMMA CrashRecord ==
    ASSUME IInv, RecordInv, NEW p \in Peers \cup {Owner}, Crash(p)
    PROVE  RecordInv'
<1>1. crashed' = crashed \cup {p} /\ UNCHANGED <<owner, slips, file, failed, seen>>
  BY DEF Crash, disk
<1>2. CASE p = Owner
  BY <1>1, <1>2 DEF RecordInv
<1>3. CASE p # Owner
  <2>1. \A w \in {Publisher, Remover} : pc'[w] = pc[w]
    BY <1>3, Processes DEF Crash
  <2> QED
    BY <1>1, <2>1, FileFades
<1> QED
  BY <1>2, <1>3

LEMMA NextRecord == IInv /\ RecordInv /\ [Next]_vars => RecordInv'
<1> SUFFICES ASSUME IInv, RecordInv, [Next]_vars PROVE RecordInv'
  OBVIOUS
<1>1. ASSUME NEW w \in Workers, Step(w) \/ PeerLooks(w) PROVE RecordInv'
  BY <1>1, Processes, PeersRecord, PublisherRecord, RemoverRecord
<1>2. CASE OwnerStep
  <2>1. ASSUME NEW renamed \in BOOLEAN, NEW fails \in BOOLEAN, renamed \/ fails,
               Publish(renamed, fails)
        PROVE  RecordInv'
    BY <2>1, PublishRecord
  <2> QED
    BY <1>2, <2>1, TakeUpRecord, PublisherReturnsRecord, RemoverReturnsRecord, OwnerCallsRecord
    DEF OwnerStep
<1>3. CASE CallRenew \/ CallShutdown \/ \E n \in Names : CallRename(n)
  BY <1>3, OwnerCallsRecord
<1>4. ASSUME NEW p \in Peers \cup {Owner}, Crash(p) PROVE RecordInv'
  BY <1>4, CrashRecord
<1>5. CASE UNCHANGED vars
  <2>1. UNCHANGED <<owner, slips, file, pc, failed, seen, crashed>>
    BY <1>5 DEF vars, disk, worker, history
  <2> QED
    BY <2>1, FileFades
<1> QED
  BY <1>1, <1>2, <1>3, <1>4, <1>5 DEF Next

\* updateNetworkName, restorePreviousPublication and shutdown: between two calls the record
\* has the name that its owner says it has, and after a shutdown that succeeded there is no
\* record, but for the slips.
THEOREM OwnersRecordAlways == Spec => []OwnersRecord
<1>1. RecordInv => OwnersRecord
  BY DEF RecordInv, NameAgrees, RemovalComplete, OwnersRecord, FileIn
<1>2. Spec => []RecordInv
  BY InitRecord, NextRecord, Invariance, PTL DEF Spec
<1> QED
  BY <1>1, <1>2, PTL
=============================================================================
