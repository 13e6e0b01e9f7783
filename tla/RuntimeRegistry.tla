--------------------------- MODULE RuntimeRegistry ---------------------------
(***************************************************************************)
(* discovery/registry.ts: the record file of one runtime, in the room's    *)
(* directory that all processes share.  Its owner, a RuntimeRegistry,      *)
(* publishes it (renewals and renames, one after the other) and removes it *)
(* on shutdown; peers that list the room or cannot connect remove it when  *)
(* its lease has expired or its endpoint is gone.  Whoever writes or       *)
(* removes it holds a lock file, which peers reclaim after a crash.        *)
(*                                                                         *)
(* Abstractions.  Of a record the name is kept: its room, session and      *)
(* endpoint do not change, and what a peer finds wrong with it is not      *)
(* modelled (it may always try to remove it).  A `stat' (inode, size,      *)
(* mtime) identifies a file.  A lock is written within the two minutes     *)
(* after which it may be reclaimed, and a process id is not used again, so *)
(* a lock can be reclaimed once its process has crashed.  Creating the     *)
(* lock and writing its owner is one step, as is what a call does between  *)
(* two looks at the file system; temporary files, and the directories and  *)
(* their permissions, are left out.                                        *)
(***************************************************************************)
EXTENDS Integers, Sequences, FiniteSets

CONSTANTS Peers,
          Names,
          InitialName,
          None,
          Settings  \* bounds: which peers there are, and how many calls of the owner,
                    \* failures and crashes there may be

ASSUME NamesAssumption == InitialName \in Names /\ None \notin Names
ASSUME SettingsAssumption ==
    Settings \subseteq [peers : SUBSET Peers, calls : Nat, failures : Nat, crashes : Nat]

Owner == "owner"
\* The two calls that the owner's process may have in progress at once.
Publisher == "publisher"
Remover   == "remover"
Workers   == Peers \cup {Publisher, Remover}
ProcessOf(w) == IF w \in {Publisher, Remover} THEN Owner ELSE w

ASSUME PeersAssumption == Peers \cap {Owner, Publisher, Remover} = {}

NoFile == [stat |-> 0]
NoLock == [id |-> 0]
NoCall == [kind |-> "none", step |-> "none"]
Resting == {"idle", "over", "dead"}
\* withWriteLock: in one process one call at a time goes for the lock or has it.
InTurn  == {"open", "reclaim", "critical", "unlink", "release", "unlock"}
HasLock == {"critical", "unlink", "release", "unlock"}

VARIABLES
    file,         \* the record file
    lock,         \* the lock file
    pc,           \* where each worker is
    seen,         \* the stat of the record each worker has looked at
    examined,     \* the lock each worker takes for abandoned
    failed,       \* whether the call of a worker has failed
    queue,        \* pendingPublication: the calls behind the current one
    call,         \* the publication in progress
    current,      \* currentRecord
    currentName,
    leftovers,    \* shutdownCleanupRecords
    shutdown,     \* how far shutdown has got
    toRemove,     \* the records it has yet to remove
    count,        \* files and locks ever made
    bound,        \* what is left of calls, failures and crashes
    crashed,
    stolen,       \* history: a lock was unlinked for another one
    slips         \* history: what may leave a record behind (a rename asked for while
                  \* shutdown removes the record, a failure on top of leftovers)

disk    == <<file, lock>>
worker  == <<pc, seen, examined, failed>>
owner   == <<queue, call, current, currentName, leftovers, shutdown, toRemove>>
history == <<crashed, stolen, slips>>
vars    == <<disk, worker, owner, count, bound, history>>

Init ==
    /\ file = NoFile /\ lock = NoLock
    /\ \E s \in Settings :
          /\ pc = [w \in Workers |-> IF w \in s.peers \cup {Publisher, Remover} THEN "idle" ELSE "over"]
          /\ bound = [calls |-> s.calls, failures |-> s.failures, crashes |-> s.crashes]
    /\ seen = [w \in Workers |-> 0]
    /\ examined = [w \in Workers |-> 0]
    /\ failed = [w \in Workers |-> FALSE]
    /\ queue = <<>> /\ call = NoCall
    /\ current = None /\ currentName = InitialName
    /\ leftovers = {}
    /\ shutdown = "no" /\ toRemove = {}
    /\ count = [files |-> 0, locks |-> 0]
    /\ crashed = {} /\ stolen = FALSE /\ slips = {}

Goes(w, from, to) == pc[w] = from /\ pc' = [pc EXCEPT ![w] = to]
MayFail == bound.failures > 0
Spends(k, n) == bound' = [bound EXCEPT ![k] = @ - n]

-----------------------------------------------------------------------------
(* The lock file: acquireRegistryRecordLock and its release.               *)

EnterTurn(w) ==
    /\ Goes(w, "turn", "open")
    /\ \A v \in Workers \ {w} : ProcessOf(v) = ProcessOf(w) => pc[v] \notin InTurn
    /\ UNCHANGED <<disk, seen, examined, failed, owner, count, bound, history>>

Acquire(w) ==
    /\ Goes(w, "open", "critical")
    /\ lock = NoLock
    /\ lock' = [id |-> count.locks + 1, by |-> w]
    /\ count' = [count EXCEPT !.locks = @ + 1]
    /\ UNCHANGED <<file, seen, examined, failed, owner, bound, history>>

\* The lock cannot be made or written.
AcquireFails(w) ==
    /\ Goes(w, "open", "returned")
    /\ MayFail
    /\ lock = NoLock
    /\ failed' = [failed EXCEPT ![w] = TRUE]
    /\ Spends("failures", 1)
    /\ UNCHANGED <<disk, seen, examined, owner, count, history>>

\* reclaimStaleRegistryLock: up to its second look at the lock, and its unlink,
\* which goes by the path.
LocksStayLocked(l) == FALSE
AnyLockIsStale(l) == l # NoLock
IsStale(l) == l # NoLock /\ ProcessOf(l.by) \in crashed

Examine(w) ==
    /\ Goes(w, "open", "reclaim")
    /\ IsStale(lock)
    /\ examined' = [examined EXCEPT ![w] = lock.id]
    /\ UNCHANGED <<disk, seen, failed, owner, count, bound, history>>

Reclaim(w) ==
    /\ Goes(w, "reclaim", "open")
    /\ lock' = NoLock
    /\ stolen' = (stolen \/ lock.id \notin {0, examined[w]})
    /\ UNCHANGED <<file, seen, examined, failed, owner, count, bound, crashed, slips>>

\* The release looks whether the lock is still its own, and unlinks the path.
Release(w) ==
    /\ \/ Goes(w, "release", "unlock") /\ lock # NoLock /\ lock.by = w
       \/ Goes(w, "release", "returned") /\ ~(lock # NoLock /\ lock.by = w)
    /\ UNCHANGED <<disk, seen, examined, failed, owner, count, bound, history>>

Unlock(w) ==
    /\ Goes(w, "unlock", "returned")
    /\ lock' = NoLock
    /\ stolen' = (stolen \/ (lock # NoLock /\ lock.by # w))
    /\ UNCHANGED <<file, seen, examined, failed, owner, count, bound, crashed, slips>>

-----------------------------------------------------------------------------
(* removeRuntimeRecord, and removeCandidateIfUnchanged of a peer.          *)

\* A record is taken for the expected one by its name.
Expected(w) ==
    CASE w = Remover -> {CHOOSE n \in toRemove : TRUE}
      [] w = Publisher -> {call.attempted}
      [] OTHER -> Names

Look(w) ==
    /\ pc[w] = "look"
    /\ IF file # NoFile /\ file.name \in Expected(w)
       THEN Goes(w, "look", "turn") /\ seen' = [seen EXCEPT ![w] = file.stat]
       ELSE Goes(w, "look", "returned") /\ UNCHANGED seen
    /\ UNCHANGED <<disk, examined, failed, owner, count, bound, history>>

Removes(w) == w # Publisher \/ call.step = "undo"

LookOnce(w) == file # NoFile
LookAgain(w) == file # NoFile /\ file.stat = seen[w]

Recheck(w) ==
    /\ Removes(w)
    /\ IF LookAgain(w) THEN Goes(w, "critical", "unlink") ELSE Goes(w, "critical", "release")
    /\ UNCHANGED <<disk, seen, examined, failed, owner, count, bound, history>>

Unlink(w) ==
    /\ Goes(w, "unlink", "release")
    /\ \/ file' = NoFile /\ UNCHANGED <<failed, bound>>
       \/ /\ MayFail
          /\ failed' = [failed EXCEPT ![w] = TRUE]
          /\ Spends("failures", 1)
          /\ UNCHANGED file
    /\ UNCHANGED <<lock, seen, examined, owner, count, history>>

PeerLooks(w) ==
    /\ w \in Peers
    /\ Goes(w, "idle", "look")
    /\ UNCHANGED <<disk, seen, examined, failed, owner, count, bound, history>>

PeerReturns(w) ==
    /\ w \in Peers
    /\ Goes(w, "returned", "over")
    /\ UNCHANGED <<disk, seen, examined, failed, owner, count, bound, history>>

-----------------------------------------------------------------------------
(* publishRuntimeRecordAtomically, with the lock: the temporary file is     *)
(* renamed, and there are checks before and after that which may fail.     *)

Publish(renamed, fails) ==
    /\ pc[Publisher] = "critical" /\ ~Removes(Publisher)
    /\ Goes(Publisher, "critical", "release")
    /\ fails => MayFail
    /\ file' = IF renamed
               THEN [stat |-> count.files + 1,
                     name |-> IF call.step = "publish" THEN call.attempted ELSE call.previous]
               ELSE file
    /\ failed' = [failed EXCEPT ![Publisher] = fails]
    /\ count' = [count EXCEPT !.files = IF renamed THEN @ + 1 ELSE @]
    /\ Spends("failures", IF fails THEN 1 ELSE 0)
    /\ UNCHANGED <<lock, seen, examined, owner, history>>

-----------------------------------------------------------------------------
(* The owner's calls: renew, updateNetworkName and shutdown.                *)

OwnerUp == Owner \notin crashed

Enqueued(c) == queue' = Append(queue, c)

CallRenew ==
    /\ OwnerUp /\ bound.calls > 0
    /\ shutdown = "no"
    /\ Enqueued([kind |-> "renew"])
    /\ Spends("calls", 1)
    /\ UNCHANGED <<disk, worker, call, current, currentName, leftovers, shutdown, toRemove, count, history>>

CallRename(n) ==
    /\ OwnerUp /\ bound.calls > 0
    /\ Enqueued([kind |-> "rename", name |-> n])
    /\ slips' = slips \cup IF shutdown \in {"waiting", "removing"} THEN {"rename"} ELSE {}
    /\ Spends("calls", 1)
    /\ UNCHANGED <<disk, worker, call, current, currentName, leftovers, shutdown, toRemove,
                   count, crashed, stolen>>

CallShutdown ==
    /\ OwnerUp /\ shutdown = "no"
    /\ shutdown' = "requested"
    /\ UNCHANGED <<disk, worker, queue, call, current, currentName, leftovers, toRemove, count, bound, history>>

\* lease.stop waits for the renewal the lease has under way; then shutdown waits
\* for what is queued at that moment.
RenewalsOver == call.kind # "renew" /\ \A i \in DOMAIN queue : queue[i].kind # "renew"

ShutdownWaits ==
    /\ OwnerUp /\ shutdown = "requested" /\ RenewalsOver
    /\ shutdown' = "waiting"
    /\ Enqueued([kind |-> "barrier"])
    /\ UNCHANGED <<disk, worker, call, current, currentName, leftovers, toRemove, count, bound, history>>

\* What shutdown removes.
RemovesWhatItIsCalled == {currentName}
RecordsToRemove ==
    IF current # None THEN {current} ELSE IF leftovers # {} THEN leftovers ELSE {InitialName}

DropsLeftovers == slips' = slips \cup IF leftovers # {} THEN {"leftovers"} ELSE {}

Starts(w, at) ==
    /\ pc' = [pc EXCEPT ![w] = at]
    /\ failed' = [failed EXCEPT ![w] = FALSE]

\* Between two publications the queue hands over the next one; a publication
\* after the request to shut down throws before it writes anything, and a rename
\* then goes straight to the restoration of what it found.
TakeUp ==
    /\ OwnerUp
    /\ pc[Publisher] = "idle" /\ queue # <<>>
    /\ queue' = Tail(queue)
    /\ LET next == Head(queue) IN
       \/ /\ next.kind = "barrier"
          /\ shutdown' = "removing" /\ toRemove' = RecordsToRemove
          /\ Starts(Remover, "look")
          /\ UNCHANGED <<call, current, currentName, leftovers, stolen, slips>>
       \/ /\ next.kind = "renew" /\ shutdown # "no"
          /\ UNCHANGED <<pc, failed, call, current, currentName, leftovers, shutdown, toRemove,
                         stolen, slips>>
       \/ /\ next.kind \in {"renew", "rename"} /\ shutdown = "no"
          /\ LET name == IF next.kind = "rename" THEN next.name ELSE currentName IN
             /\ call' = [kind |-> next.kind, step |-> "publish", attempted |-> name,
                         previous |-> current, nameBefore |-> currentName]
             /\ currentName' = name
          /\ Starts(Publisher, "turn")
          /\ UNCHANGED <<current, leftovers, shutdown, toRemove, stolen, slips>>
       \/ /\ next.kind = "rename" /\ shutdown # "no" /\ current # None
          /\ call' = [kind |-> "rename", step |-> "restore", attempted |-> None,
                      previous |-> current, nameBefore |-> currentName]
          /\ Starts(Publisher, "turn")
          /\ UNCHANGED <<current, currentName, leftovers, shutdown, toRemove, stolen, slips>>
       \/ /\ next.kind = "rename" /\ shutdown # "no" /\ current = None
          /\ leftovers' = {}
          /\ DropsLeftovers
          /\ UNCHANGED <<pc, failed, call, current, currentName, shutdown, toRemove, stolen>>
    /\ UNCHANGED <<disk, seen, examined, count, bound, crashed>>

Finishes ==
    /\ pc' = [pc EXCEPT ![Publisher] = "idle"]
    /\ call' = NoCall
    /\ UNCHANGED failed

PublishReturned ==
    /\ call.step = "publish"
    /\ \/ /\ ~failed[Publisher]
          /\ current' = call.attempted /\ leftovers' = {}
          /\ Finishes /\ UNCHANGED <<currentName, slips>>
       \/ /\ failed[Publisher] /\ call.kind = "renew"
          /\ DropsLeftovers
          /\ Finishes /\ UNCHANGED <<current, leftovers, currentName>>
       \/ /\ failed[Publisher] /\ call.kind = "rename"
          /\ currentName' = call.nameBefore
          /\ DropsLeftovers
          /\ call' = [call EXCEPT !.step = IF call.previous # None THEN "restore" ELSE "undo"]
          /\ Starts(Publisher, IF call.previous # None THEN "turn" ELSE "look")
          /\ UNCHANGED <<current, leftovers>>

RestorationReturned ==
    /\ call.step \in {"restore", "undo"}
    /\ IF failed[Publisher]
       THEN current' = None /\ leftovers' = {call.attempted, call.previous} \ {None}
       ELSE current' = call.previous /\ leftovers' = {}
    /\ Finishes
    /\ UNCHANGED <<currentName, slips>>

PublisherReturns ==
    /\ pc[Publisher] = "returned"
    /\ \/ PublishReturned
       \/ RestorationReturned
    /\ UNCHANGED <<disk, seen, examined, queue, shutdown, toRemove, count, bound, crashed, stolen>>

\* shutdown removes one record after the other.
RemoverReturns ==
    /\ pc[Remover] = "returned"
    /\ LET left == toRemove \ Expected(Remover) IN
       \/ /\ failed[Remover]
          /\ shutdown' = "failed"
          /\ pc' = [pc EXCEPT ![Remover] = "over"]
          /\ UNCHANGED <<toRemove, current, leftovers>>
       \/ /\ ~failed[Remover] /\ left # {}
          /\ toRemove' = left
          /\ pc' = [pc EXCEPT ![Remover] = "look"]
          /\ UNCHANGED <<shutdown, current, leftovers>>
       \/ /\ ~failed[Remover] /\ left = {}
          /\ toRemove' = {}
          /\ shutdown' = "done" /\ current' = None /\ leftovers' = {}
          /\ pc' = [pc EXCEPT ![Remover] = "over"]
    /\ UNCHANGED <<disk, seen, examined, failed, queue, call, currentName, count, bound, history>>

-----------------------------------------------------------------------------
Crash(p) ==
    /\ p \notin crashed /\ bound.crashes > 0
    /\ crashed' = crashed \cup {p}
    /\ Spends("crashes", 1)
    /\ pc' = [w \in Workers |-> IF ProcessOf(w) = p THEN "dead" ELSE pc[w]]
    /\ UNCHANGED <<disk, seen, examined, failed, owner, count, stolen, slips>>

Step(w) ==
    \/ EnterTurn(w) \/ Acquire(w) \/ AcquireFails(w) \/ Examine(w) \/ Reclaim(w)
    \/ Release(w) \/ Unlock(w) \/ Look(w) \/ Recheck(w) \/ Unlink(w) \/ PeerReturns(w)

OwnerStep ==
    \/ \E renamed, fails \in BOOLEAN : (renamed \/ fails) /\ Publish(renamed, fails)
    \/ TakeUp \/ PublisherReturns \/ RemoverReturns \/ ShutdownWaits

Next ==
    \/ \E w \in Workers : Step(w) \/ PeerLooks(w)
    \/ OwnerStep
    \/ CallRenew \/ CallShutdown
    \/ \E n \in Names : CallRename(n)
    \/ \E p \in Peers \cup {Owner} : Crash(p)

Spec == Init /\ [][Next]_vars /\ WF_vars(OwnerStep) /\ \A w \in Workers : WF_vars(Step(w))

-----------------------------------------------------------------------------
(* Properties.                                                             *)

\* Every variable keeps its type, and the lock does its work: two calls are
\* between its acquisition and its release at once only after a crash, when two
\* processes reclaim the same lock and the second unlinks the first one's.
Exclusion ==
    /\ file # NoFile => file.name \in Names /\ file.stat \in 1 .. count.files
    /\ lock # NoLock => lock.by \in Workers /\ lock.id \in 1 .. count.locks
    /\ current \in Names \cup {None} /\ currentName \in Names
    /\ leftovers \subseteq Names /\ toRemove \subseteq Names
    /\ ~stolen => Cardinality({w \in Workers : pc[w] \in HasLock}) <= 1
    /\ stolen => crashed # {}

\* A record is removed by the call that examined that very file: one written
\* meanwhile under the same path, a renewal or another name, stays.  (After a
\* stolen lock it may go: removeCandidateIfUnchanged unlinks by path.)
OnlyExaminedRecordsGo ==
    [][(file # NoFile /\ file' = NoFile)
          => (stolen \/ \E w \in Workers : pc[w] = "unlink" /\ seen[w] = file.stat)]_vars

\* updateNetworkName is all or nothing, whatever fails in it: between two calls
\* the file, if peers have left it, has the name the owner says it has.  And
\* after a shutdown that succeeded there is no record that nobody would
\* remove, but for the slips.
OwnersRecord ==
    LET quiet == pc[Publisher] = "idle" /\ Owner \notin crashed IN
    /\ (quiet /\ current # None /\ file # NoFile) => file.name = current
    /\ (quiet /\ queue = <<>> /\ shutdown = "done" /\ slips = {}) => file = NoFile

\* Every call comes back, a shutdown too, also when a process has crashed with
\* the lock in its hands.
CallsReturn ==
    /\ \A w \in Workers : pc[w] \notin Resting ~> pc[w] \in Resting
    /\ shutdown = "requested" ~> (shutdown \in {"done", "failed"} \/ Owner \in crashed)
=============================================================================
