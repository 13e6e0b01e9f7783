----------------------------- MODULE DedupeStore -----------------------------
(***************************************************************************)
(* router/dedupe.ts: the record of operations one runtime has admitted, so *)
(* that a retry is answered as the original was and never carried out      *)
(* again.  The router's handlers reserve an operation, carry it out and    *)
(* commit or release it: at once, except for message.notify, whose handler *)
(* (a `caller') awaits between the two.  Operations composes these actions *)
(* with the handlers.                                                      *)
(*                                                                         *)
(* Abstractions.  A key stands for a sender and an operation id, a print   *)
(* for the fingerprint of the canonical operation, which covers its        *)
(* deadline.  Time is the wall clock, taken to run forward; a record's     *)
(* timer is armed as long as the record is kept, and one that fires early  *)
(* is armed again.                                                         *)
(***************************************************************************)
EXTENDS Integers

CONSTANTS Keys,
          Prints,
          Callers,   \* deliveries whose handler awaits
          Results,   \* what a handler may answer, `busy' excluded
          Expiry,    \* the deadline of an operation, by its print
          Grace,     \* retentionGraceMs
          MaxNow     \* bound: the clock stops here

ASSUME ExpiryAssumption == Expiry \in [Prints -> Int]
ASSUME GraceAssumption == Grace \in Nat
ASSUME MaxNowAssumption == MaxNow \in Nat

NoRecord == [kind |-> "none"]
Kept(p)         == [kind |-> "pending", print |-> p]
Done(p, result) == [kind |-> "committed", print |-> p, result |-> result]
Record ==
    {NoRecord} \cup [kind : {"pending"}, print : Prints]
               \cup [kind : {"committed"}, print : Prints, result : Results]

Idle == [kind |-> "idle"]
Reservation(k, p) == [kind |-> "reservation", key |-> k, print |-> p]

VARIABLES
    records,   \* the operation each key stands for
    held,      \* the reservation of each caller
    told,      \* history: <<key, print, result>> as answered to the sender
    now,
    closed

vars == <<records, held, told, now, closed>>

Init ==
    /\ records = [k \in Keys |-> NoRecord]
    /\ held = [c \in Callers |-> Idle]
    /\ told = {}
    /\ now = 0
    /\ closed = FALSE

-----------------------------------------------------------------------------
RetainedUntilExpiry(p) == Expiry[p] - 1
RetainedUntil(p) == Expiry[p] + Grace

Outdated(k) == records[k] # NoRecord /\ RetainedUntil(records[k].print) <= now

\* prune, with which every call begins.
Pruned == [k \in Keys |-> IF Outdated(k) THEN NoRecord ELSE records[k]]

\* A handler takes up an operation, which validation lets through until its
\* deadline: inspect and reserve.
MayTakePending(k, p) == Pruned[k].kind # "committed"
MayTake(k, p) == Pruned[k] = NoRecord

TakeUp(c, k, p) ==
    /\ ~closed
    /\ now < Expiry[p]
    /\ held[c] = Idle
    /\ MayTake(k, p)
    /\ records' = [Pruned EXCEPT ![k] = Kept(p)]
    /\ held' = [held EXCEPT ![c] = Reservation(k, p)]
    /\ UNCHANGED <<told, now, closed>>

\* A handler that does not wait: it takes an operation up, carries it out and
\* commits the result.
CarryOut(k, p, result) ==
    /\ ~closed
    /\ now < Expiry[p]
    /\ MayTake(k, p)
    /\ records' = [Pruned EXCEPT ![k] = Done(p, result)]
    /\ told' = told \cup {<<k, p, result>>}
    /\ UNCHANGED <<held, now, closed>>

\* release: such a handler that cannot carry the operation out takes its
\* reservation back, or it was `busy' and made none.
Released(k, p) == [Pruned EXCEPT ![k] = NoRecord]

Refuse(k, p) ==
    /\ ~closed
    /\ now < Expiry[p]
    /\ MayTake(k, p)
    /\ records' = Released(k, p)
    /\ UNCHANGED <<held, told, now, closed>>

\* existingDecision: another content is rejected, an operation in progress is
\* busy, and only the same, finished one is answered from the record.
Answers(k, p) == Pruned[k].kind = "committed" /\ Pruned[k].print = p

Replay(k, p) ==
    /\ ~closed
    /\ now < Expiry[p]
    /\ Pruned[k] # NoRecord
    /\ records' = Pruned
    /\ told' = IF Answers(k, p) THEN told \cup {<<k, p, Pruned[k].result>>} ELSE told
    /\ UNCHANGED <<held, now, closed>>

\* commit with a result: it is stored in the pending record of the same
\* print, and dropped if that is no longer there.
Commits(k, p) == Pruned[k] = Kept(p)

Commit(c, result) ==
    /\ ~closed
    /\ held[c] # Idle
    /\ LET k == held[c].key
           p == held[c].print
       IN /\ records' = IF Commits(k, p) THEN [Pruned EXCEPT ![k] = Done(p, result)]
                        ELSE Pruned
          /\ told' = told \cup {<<k, p, result>>}
    /\ held' = [held EXCEPT ![c] = Idle]
    /\ UNCHANGED <<now, closed>>

\* A handler that holds a reservation of a closed store gets an exception.
Abandon(c) ==
    /\ closed
    /\ held[c] # Idle
    /\ held' = [held EXCEPT ![c] = Idle]
    /\ UNCHANGED <<records, told, now, closed>>

\* The timer of a record.
TimerSparesPending(k) ==
    /\ ~closed
    /\ Outdated(k)
    /\ records[k].kind = "committed"
    /\ records' = [records EXCEPT ![k] = NoRecord]
    /\ UNCHANGED <<held, told, now, closed>>
TimerFires(k) ==
    /\ ~closed
    /\ Outdated(k)
    /\ records' = [records EXCEPT ![k] = NoRecord]
    /\ UNCHANGED <<held, told, now, closed>>

Close ==
    /\ ~closed
    /\ closed' = TRUE
    /\ records' = [k \in Keys |-> NoRecord]
    /\ UNCHANGED <<held, told, now>>

Tick ==
    /\ now < MaxNow
    /\ now' = now + 1
    /\ UNCHANGED <<records, held, told, closed>>

-----------------------------------------------------------------------------
\* The types of the variables.
RecordsTypeOK ==
    /\ records \in [Keys -> Record]
    /\ held \in [Callers -> {Idle} \cup [kind : {"reservation"}, key : Keys, print : Prints]]
    /\ told \subseteq Keys \X Prints \X Results
    /\ now \in 0..MaxNow
    /\ closed \in BOOLEAN

\* An operation that is in progress is carried out by one handler, and has one
\* result.  However late a retry comes and whenever records are pruned, it is never
\* carried out by two handlers, nor by none, which would make every retry `busy',
\* and whoever is told its result, at once or on a retry, is told the same.
OneExecution ==
    /\ \A c, d \in Callers : held[c] # Idle /\ held[c] = held[d] => c = d
    /\ \A k \in Keys : records[k].kind = "pending" =>
          \E c \in Callers : held[c] = Reservation(k, records[k].print)
    /\ \A one, other \in told : one[1] = other[1] /\ one[2] = other[2] => one = other

\* As long as a retry would be let through, the answered operation is known.
AnsweredIsKnown ==
    \A t \in told : now < Expiry[t[2]] /\ ~closed => records[t[1]] = Done(t[2], t[3])

\* Nothing is retained for ever, not even a reservation whose handler hangs.
EverythingForgotten ==
    \A k \in Keys : records[k] # NoRecord ~> records[k] = NoRecord
=============================================================================
