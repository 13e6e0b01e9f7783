--------------------------- MODULE OperationsProofs ---------------------------
(***************************************************************************)
(* What the operations between two runtimes guarantee, for all sets of ids *)
(* and of handlers, deadlines, retention times and clocks: first what the  *)
(* actions of the dedupe store keep, then what its use by the router adds. *)
(***************************************************************************)
EXTENDS Operations, TLAPS

Reservations == {Reservation(k, p) : k \in Keys, p \in Prints}

\* The types of the store, except that a result is whatever a handler answered.
StoreTypeOK ==
    /\ records = [k \in Keys |-> records[k]]
    /\ \A k \in Keys : \/ records[k] = NoRecord
                       \/ \E p \in Prints : records[k] \in {Kept(p), Done(p, records[k].result)}
    /\ held \in [Callers -> {Idle} \cup Reservations]
    /\ \A t \in told : t = <<t[1], t[2], t[3]>> /\ t[1] \in Keys /\ t[2] \in Prints
    /\ now \in Nat
    /\ closed \in BOOLEAN

\* An operation in progress is some handler's, a finished one has been told.
PendingIsHeld ==
    \A k \in Keys, p \in Prints :
        records[k] = Kept(p) => \E c \in Callers : held[c] = Reservation(k, p)
DoneIsTold ==
    \A k \in Keys, p \in Prints :
        records[k] = Done(p, records[k].result) => <<k, p, records[k].result>> \in told

\* The reservation of a handler is its own, and is there as long as a record of it is
\* retained, and nobody has been told a result of it.
HeldOnce ==
    \A c, d \in Callers, k \in Keys, p \in Prints :
        held[c] = Reservation(k, p) /\ held[d] = Reservation(k, p) => c = d
HeldIsKept ==
    \A c \in Callers, k \in Keys, p \in Prints :
        held[c] = Reservation(k, p) /\ ~closed /\ now < RetainedUntil(p) => records[k] = Kept(p)
HeldIsUntold ==
    \A c \in Callers, t \in told : held[c] # Reservation(t[1], t[2])

\* A result is the only one.
ToldOnce == \A s, t \in told : s[1] = t[1] /\ s[2] = t[2] => s = t

\* A closed store has no records.
ClosedIsEmpty == closed => \A k \in Keys : records[k] = NoRecord

\* The inductive invariant of the dedupe store.
StoreInv ==
    /\ StoreTypeOK
    /\ PendingIsHeld /\ DoneIsTold /\ HeldOnce /\ HeldIsKept /\ HeldIsUntold /\ ToldOnce
    /\ AnsweredIsKnown /\ ClosedIsEmpty

-----------------------------------------------------------------------------
\* Records of different kinds, prints or results are different, and so are
\* reservations of different operations.
LEMMA RecordsDiffer ==
    ASSUME NEW p, NEW q, NEW r, NEW s, NEW k, NEW j
    PROVE  /\ Kept(p) # NoRecord /\ Done(p, r) # NoRecord /\ Kept(p) # Done(q, s)
           /\ Kept(p) = Kept(q) => p = q
           /\ Done(p, r) = Done(q, s) => p = q /\ r = s
           /\ Kept(p).print = p /\ Done(p, r).print = p /\ Done(p, r).result = r
           /\ Kept(p).kind = "pending" /\ Done(p, r).kind = "committed"
           /\ NoRecord.kind = "none"
           /\ Reservation(k, p) # Idle
           /\ Reservation(k, p) = Reservation(j, q) => k = j /\ p = q
           /\ Reservation(k, p).key = k /\ Reservation(k, p).print = p
<1>1. /\ Kept(p).kind = "pending" /\ Done(p, r).kind = "committed" /\ NoRecord.kind = "none"
      /\ Done(q, s).kind = "committed"
      /\ Kept(p).print = p /\ Done(p, r).print = p /\ Done(p, r).result = r
      /\ Kept(q).print = q /\ Done(q, s).print = q /\ Done(q, s).result = s
  BY DEF Kept, Done, NoRecord
<1>2. /\ Reservation(k, p).kind = "reservation" /\ Idle.kind = "idle"
      /\ Reservation(k, p).key = k /\ Reservation(k, p).print = p
      /\ Reservation(j, q).key = j /\ Reservation(j, q).print = q
  BY DEF Reservation, Idle
<1> QED
  BY <1>1, <1>2

\* Pruning forgets a record, or leaves it, and only when its time is over
\* (prune, retainedUntil).
LEMMA PrunedFacts ==
    ASSUME StoreTypeOK
    PROVE  /\ Pruned = [k \in Keys |-> Pruned[k]]
           /\ \A k \in Keys : Pruned[k] \in {NoRecord, records[k]}
           /\ \A k \in Keys, p \in Prints : now < RetainedUntil(p) =>
                 /\ records[k] = Kept(p) => Pruned[k] = Kept(p)
                 /\ \A r : records[k] = Done(p, r) => Pruned[k] = Done(p, r)
           /\ \A p \in Prints : now < Expiry[p] => now < RetainedUntil(p)
<1>1. \A k \in Keys, p \in Prints : now < RetainedUntil(p) /\ records[k].print = p => ~Outdated(k)
  BY ExpiryAssumption, GraceAssumption DEF Outdated, RetainedUntil, StoreTypeOK
<1>2. \A p \in Prints : now < Expiry[p] => now < RetainedUntil(p)
  BY ExpiryAssumption, GraceAssumption DEF RetainedUntil, StoreTypeOK
<1> QED
  BY <1>1, <1>2, RecordsDiffer DEF Pruned

\* The store's promises follow from its invariant.
LEMMA StoreInvImplies == ASSUME StoreInv PROVE OneExecution
<1>1. ASSUME NEW c \in Callers, NEW d \in Callers, held[c] # Idle, held[c] = held[d]
      PROVE  c = d
  <2>1. held[c] \in Reservations
    BY <1>1 DEF StoreInv, StoreTypeOK
  <2>2. PICK k \in Keys, p \in Prints : held[c] = Reservation(k, p)
    BY <2>1 DEF Reservations
  <2> QED
    BY <1>1, <2>2 DEF StoreInv, HeldOnce
<1>2. ASSUME NEW k \in Keys, records[k].kind = "pending"
      PROVE  \E c \in Callers : held[c] = Reservation(k, records[k].print)
  <2>1. records[k] = NoRecord \/ \E p \in Prints : records[k] \in {Kept(p), Done(p, records[k].result)}
    BY DEF StoreInv, StoreTypeOK
  <2>2. PICK p \in Prints : records[k] = Kept(p)
    BY <1>2, <2>1, RecordsDiffer
  <2>3. records[k].print = p
    BY <2>2 DEF Kept
  <2> QED
    BY <2>2, <2>3 DEF StoreInv, PendingIsHeld
<1>3. \A s, t \in told : s[1] = t[1] /\ s[2] = t[2] => s = t
  BY DEF StoreInv, ToldOnce
<1> QED
  BY <1>1, <1>2, <1>3 DEF OneExecution

\* Pruning, and whatever else only forgets records whose time is over, keeps the
\* invariant: timers, retries and refusals.
LEMMA ForgettingKeepsStoreInv ==
    ASSUME StoreInv, ~closed,
           records' = [k \in Keys |-> records'[k]],
           \A k \in Keys : records'[k] = records[k] \/ (records'[k] = NoRecord /\ Outdated(k)),
           UNCHANGED <<held, told, now, closed>>
    PROVE  StoreInv'
<1> USE DEF StoreInv, StoreTypeOK
<1>1. \A k \in Keys, p \in Prints : now < RetainedUntil(p) /\ records[k].print = p => ~Outdated(k)
  BY ExpiryAssumption, GraceAssumption DEF Outdated, RetainedUntil
<1>2. \A k \in Keys, p \in Prints : now < RetainedUntil(p) =>
          /\ records[k] = Kept(p) => records'[k] = Kept(p)
          /\ \A r : records[k] = Done(p, r) => records'[k] = Done(p, r)
  <2>1. \A p : Kept(p).print = p /\ \A r : Done(p, r).print = p
    BY DEF Kept, Done
  <2> QED
    BY <1>1, <2>1
<1>3. StoreTypeOK'
  <2>1. \A k \in Keys : records'[k] = NoRecord \/
            \E p \in Prints : records'[k] \in {Kept(p), Done(p, records'[k].result)}
    OBVIOUS
  <2> QED
    BY <2>1
<1>4. \A k \in Keys, p \in Prints :
          /\ records'[k] = Kept(p) => records[k] = Kept(p)
          /\ records'[k] = Done(p, records'[k].result) => records'[k] = records[k]
  BY RecordsDiffer
<1>6. PendingIsHeld'
  BY <1>4 DEF PendingIsHeld
<1>7. DoneIsTold'
  BY <1>4 DEF DoneIsTold
<1>8. HeldOnce' /\ HeldIsUntold' /\ ToldOnce'
  BY DEF HeldOnce, HeldIsUntold, ToldOnce
<1>9. HeldIsKept'
  BY <1>2 DEF HeldIsKept, RetainedUntil
<1>5. AnsweredIsKnown'
  <2>1. \A p \in Prints : now < Expiry[p] => now < RetainedUntil(p)
    BY PrunedFacts
  <2> QED
    BY <1>2, <2>1 DEF AnsweredIsKnown
<1> QED
  BY <1>3, <1>5, <1>6, <1>7, <1>8, <1>9 DEF ClosedIsEmpty

\* An operation that a handler may take up is nobody's, and nobody has been told a
\* result of it; what others have and know stays known (inspect, reserve).
LEMMA FreshFacts ==
    ASSUME StoreInv, NEW k \in Keys, NEW p \in Prints, ~closed, now < Expiry[p], MayTake(k, p)
    PROVE  /\ \A c \in Callers : held[c] # Reservation(k, p)
           /\ \A t \in told : ~(t[1] = k /\ t[2] = p)
           /\ \A c \in Callers, q \in Prints :
                 held[c] = Reservation(k, q) => ~(now < RetainedUntil(q))
           /\ \A t \in told : t[1] = k => ~(now < Expiry[t[2]])
<1>0. StoreTypeOK /\ Pruned[k] = NoRecord
  BY DEF StoreInv, MayTake
<1>1. now < RetainedUntil(p)
  BY <1>0, PrunedFacts
<1>2. ASSUME NEW c \in Callers, NEW q \in Prints, held[c] = Reservation(k, q),
             now < RetainedUntil(q)
      PROVE  FALSE
  <2>1. records[k] = Kept(q)
    BY <1>2 DEF StoreInv, HeldIsKept
  <2>2. Pruned[k] = Kept(q)
    BY <1>0, <1>2, <2>1, PrunedFacts
  <2> QED
    BY <1>0, <2>2, RecordsDiffer
<1>3. ASSUME NEW t \in told, t[1] = k, now < Expiry[t[2]]
      PROVE  FALSE
  <2>1. records[k] = Done(t[2], t[3]) /\ t[2] \in Prints
    BY <1>0, <1>3 DEF StoreInv, AnsweredIsKnown, StoreTypeOK
  <2>2. Pruned[k] = Done(t[2], t[3])
    BY <1>0, <1>3, <2>1, PrunedFacts
  <2> QED
    BY <1>0, <2>2, RecordsDiffer
<1> QED
  BY <1>1, <1>2, <1>3

\* A call that sets one record leaves the others, but for what pruning forgets.
LEMMA SetRecordFacts ==
    ASSUME StoreTypeOK, NEW k \in Keys, NEW x, records' = [Pruned EXCEPT ![k] = x]
    PROVE  /\ records' = [j \in Keys |-> records'[j]]
           /\ records'[k] = x
           /\ \A j \in Keys \ {k} : records'[j] \in {NoRecord, records[j]}
           /\ \A j \in Keys \ {k}, q \in Prints : now < RetainedUntil(q) =>
                 /\ records[j] = Kept(q) => records'[j] = Kept(q)
                 /\ \A r : records[j] = Done(q, r) => records'[j] = Done(q, r)
           /\ \A q \in Prints : now < Expiry[q] => now < RetainedUntil(q)
<1>1. Pruned = [j \in Keys |-> Pruned[j]]
  BY PrunedFacts
<1>2. records' = [j \in Keys |-> records'[j]] /\ records'[k] = x
      /\ \A j \in Keys \ {k} : records'[j] = Pruned[j]
  BY <1>1
<1> QED
  BY <1>2, PrunedFacts

\* A handler that takes up an operation is the only one that has it.
LEMMA TakeUpKeepsStoreInv ==
    ASSUME StoreInv, NEW c \in Callers, NEW k \in Keys, NEW p \in Prints, TakeUp(c, k, p)
    PROVE  StoreInv'
<1>0. /\ ~closed /\ now < Expiry[p] /\ held[c] = Idle /\ MayTake(k, p)
      /\ records' = [Pruned EXCEPT ![k] = Kept(p)]
      /\ held' = [held EXCEPT ![c] = Reservation(k, p)]
      /\ UNCHANGED <<told, now, closed>>
      /\ StoreTypeOK
  BY DEF TakeUp, StoreInv
<1>1. /\ records' = [j \in Keys |-> records'[j]] /\ records'[k] = Kept(p)
      /\ \A j \in Keys \ {k} : records'[j] \in {NoRecord, records[j]}
      /\ \A j \in Keys \ {k}, q \in Prints : now < RetainedUntil(q) =>
            /\ records[j] = Kept(q) => records'[j] = Kept(q)
            /\ \A r : records[j] = Done(q, r) => records'[j] = Done(q, r)
      /\ \A q \in Prints : now < Expiry[q] => now < RetainedUntil(q)
  BY <1>0, SetRecordFacts
<1>2. /\ \A d \in Callers : held[d] # Reservation(k, p)
      /\ \A t \in told : ~(t[1] = k /\ t[2] = p)
      /\ \A d \in Callers, q \in Prints : held[d] = Reservation(k, q) => ~(now < RetainedUntil(q))
      /\ \A t \in told : t[1] = k => ~(now < Expiry[t[2]])
  BY <1>0, FreshFacts
<1>3. /\ held'[c] = Reservation(k, p)
      /\ \A d \in Callers \ {c} : held'[d] = held[d]
      /\ held' \in [Callers -> {Idle} \cup Reservations]
  BY <1>0 DEF StoreTypeOK, Reservations
<1>4. StoreTypeOK'
  <2>1. \A j \in Keys : records'[j] = NoRecord \/
            \E q \in Prints : records'[j] \in {Kept(q), Done(q, records'[j].result)}
    BY <1>0, <1>1 DEF StoreTypeOK
  <2> QED
    BY <1>0, <1>1, <1>3, <2>1 DEF StoreTypeOK
<1>5. \A q \in Prints : Kept(p) = Kept(q) => p = q
  BY RecordsDiffer
<1>6. PendingIsHeld'
  <2>1. ASSUME NEW j \in Keys, NEW q \in Prints, records'[j] = Kept(q)
        PROVE  \E d \in Callers : held'[d] = Reservation(j, q)
    <3>1. CASE j = k
      BY <1>1, <1>3, <1>5, <2>1, <3>1
    <3>2. CASE j # k
      <4>1. records[j] = Kept(q)
        BY <1>1, <2>1, <3>2, RecordsDiffer
      <4>2. PICK d \in Callers : held[d] = Reservation(j, q)
        BY <4>1 DEF StoreInv, PendingIsHeld
      <4>3. d # c
        BY <1>0, <4>2, RecordsDiffer
      <4> QED
        BY <1>3, <4>2, <4>3
    <3> QED
      BY <3>1, <3>2
  <2> QED
    BY <2>1 DEF PendingIsHeld
<1>7. DoneIsTold'
  <2>1. ASSUME NEW j \in Keys, NEW q \in Prints, records'[j] = Done(q, records'[j].result)
        PROVE  records'[j] = records[j]
    BY <1>1, <2>1, RecordsDiffer
  <2> QED
    BY <1>0, <2>1 DEF StoreInv, DoneIsTold
<1>8. \A j \in Keys, q \in Prints : Reservation(k, p) = Reservation(j, q) => j = k /\ p = q
  BY RecordsDiffer
<1>9. HeldOnce'
  BY <1>2, <1>3, <1>8 DEF StoreInv, HeldOnce
<1>10. HeldIsKept'
  <2>1. ASSUME NEW d \in Callers, NEW j \in Keys, NEW q \in Prints,
               held'[d] = Reservation(j, q), now < RetainedUntil(q)
        PROVE  records'[j] = Kept(q)
    <3>1. CASE d = c
      BY <1>1, <1>3, <1>8, <2>1, <3>1
    <3>2. CASE d # c
      <4>1. held[d] = Reservation(j, q) /\ records[j] = Kept(q)
        BY <1>0, <1>3, <2>1, <3>2 DEF StoreInv, HeldIsKept
      <4>2. j # k
        BY <1>2, <2>1, <4>1
      <4> QED
        BY <1>1, <2>1, <4>1, <4>2
    <3> QED
      BY <3>1, <3>2
  <2> QED
    BY <1>0, <2>1 DEF HeldIsKept, RetainedUntil
<1>11. HeldIsUntold'
  <2>1. \A t \in told : t[1] \in Keys /\ t[2] \in Prints
    BY <1>0 DEF StoreTypeOK
  <2> QED
    BY <1>0, <1>2, <1>3, <1>8, <2>1 DEF StoreInv, HeldIsUntold
<1>12. ToldOnce'
  BY <1>0 DEF StoreInv, ToldOnce
<1>13. AnsweredIsKnown'
  <2>1. ASSUME NEW t \in told, now < Expiry[t[2]]
        PROVE  records'[t[1]] = Done(t[2], t[3])
    <3>1. t[1] \in Keys /\ t[2] \in Prints /\ records[t[1]] = Done(t[2], t[3])
      BY <1>0, <2>1 DEF StoreInv, StoreTypeOK, AnsweredIsKnown
    <3>2. t[1] # k
      BY <1>2, <2>1
    <3> QED
      BY <1>1, <2>1, <3>1, <3>2
  <2> QED
    BY <1>0, <2>1 DEF AnsweredIsKnown
<1> QED
  BY <1>0, <1>4, <1>6, <1>7, <1>9, <1>10, <1>11, <1>12, <1>13 DEF StoreInv, ClosedIsEmpty

\* Telling the result of an operation that nobody has been told of, and nobody has any
\* more, keeps the invariant, if the result is recorded or no retry can come in time.
LEMMA TellingKeepsStoreInv ==
    ASSUME StoreInv, NEW k \in Keys, NEW p \in Prints, NEW result,
           ~closed, UNCHANGED <<now, closed>>,
           told' = told \cup {<<k, p, result>>},
           held' \in [Callers -> {Idle} \cup Reservations],
           \A d \in Callers : held'[d] = held[d] \/ (held'[d] = Idle /\ held[d] = Reservation(k, p)),
           \A d \in Callers : held'[d] # Reservation(k, p),
           \A t \in told : ~(t[1] = k /\ t[2] = p),
           \/ /\ records' = [Pruned EXCEPT ![k] = Done(p, result)]
              /\ \A d \in Callers, q \in Prints :
                    held'[d] = Reservation(k, q) => ~(now < RetainedUntil(q))
              /\ \A t \in told : t[1] = k => ~(now < Expiry[t[2]])
           \/ /\ records' = Pruned
              /\ records'[k] # Kept(p)
              /\ ~(now < RetainedUntil(p))
    PROVE  StoreInv'
<1> DEFINE fresh == <<k, p, result>>
<1>0. StoreTypeOK
  BY DEF StoreInv
<1>1. fresh[1] = k /\ fresh[2] = p /\ fresh[3] = result
  OBVIOUS
<1>t. told' = told \cup {fresh}
  OBVIOUS
<1> HIDE DEF fresh
<1>2. /\ records' = [j \in Keys |-> records'[j]]
      /\ \A j \in Keys : records'[j] \in {NoRecord, records[j]} \/ (j = k /\ records'[j] = Done(p, result))
      /\ records'[k] # Kept(p)
      /\ \A q \in Prints : now < Expiry[q] => now < RetainedUntil(q)
  BY <1>0, SetRecordFacts, PrunedFacts, RecordsDiffer
<1>3. \A j \in Keys, q \in Prints : now < RetainedUntil(q) /\ (j = k => records' = Pruned) =>
            /\ records[j] = Kept(q) => records'[j] = Kept(q)
            /\ \A r : records[j] = Done(q, r) => records'[j] = Done(q, r)
  BY <1>0, SetRecordFacts, PrunedFacts
<1>4. StoreTypeOK'
  <2>1. \A j \in Keys : records'[j] = NoRecord \/
            \E q \in Prints : records'[j] \in {Kept(q), Done(q, records'[j].result)}
    <3>1. Done(p, result) = Done(p, Done(p, result).result)
      BY RecordsDiffer
    <3> QED
      BY <1>0, <1>2, <3>1 DEF StoreTypeOK
  <2>2. \A t \in told' : t = <<t[1], t[2], t[3]>> /\ t[1] \in Keys /\ t[2] \in Prints
    BY <1>0, <1>1, <1>t DEF StoreTypeOK, fresh
  <2>3. held' \in [Callers -> {Idle} \cup Reservations] /\ now' \in Nat /\ closed' \in BOOLEAN
    BY <1>0 DEF StoreTypeOK
  <2> QED
    BY <1>2, <2>1, <2>2, <2>3 DEF StoreTypeOK, Reservations
<1>5. PendingIsHeld'
  <2>1. ASSUME NEW j \in Keys, NEW q \in Prints, records'[j] = Kept(q)
        PROVE  \E d \in Callers : held'[d] = Reservation(j, q)
    <3>1. records[j] = Kept(q)
      BY <1>2, <2>1, RecordsDiffer
    <3>2. PICK d \in Callers : held[d] = Reservation(j, q)
      BY <3>1 DEF StoreInv, PendingIsHeld
    <3>3. held[d] # Reservation(k, p)
      BY <1>2, <2>1, <3>2, RecordsDiffer
    <3> QED
      BY <3>2, <3>3
  <2> QED
    BY <2>1 DEF PendingIsHeld
<1>6. DoneIsTold'
  <2>1. ASSUME NEW j \in Keys, NEW q \in Prints, NEW r, r = records'[j].result,
               records'[j] = Done(q, r)
        PROVE  <<j, q, r>> \in told'
    <3>1. CASE records'[j] = records[j]
      <4>1. records[j] = Done(q, records[j].result) /\ r = records[j].result
        BY <2>1, <3>1
      <4>2. <<j, q, records[j].result>> \in told
        BY <4>1 DEF StoreInv, DoneIsTold
      <4>3. <<j, q, records[j].result>> = <<j, q, r>>
        BY <4>1
      <4> QED
        BY <1>t, <4>2, <4>3
    <3>2. CASE j = k /\ records'[j] = Done(p, result)
      <4>0. Done(q, r) = Done(p, result) => q = p /\ r = result
        BY RecordsDiffer
      <4>1. q = p /\ r = result
        BY <2>1, <3>2, <4>0
      <4>2. <<j, q, r>> = fresh
        BY <3>2, <4>1 DEF fresh
      <4> QED
        BY <1>t, <4>2
    <3>3. records'[j] # NoRecord
      BY <2>1, RecordsDiffer
    <3> QED
      BY <1>2, <3>1, <3>2, <3>3
  <2> QED
    BY <2>1 DEF DoneIsTold
<1>7. \A d \in Callers, j \in Keys, q \in Prints :
          held'[d] = Reservation(j, q) => held[d] = Reservation(j, q)
  BY RecordsDiffer
<1>8. HeldOnce'
  BY <1>7 DEF StoreInv, HeldOnce
<1>9. HeldIsKept'
  <2>1. ASSUME NEW d \in Callers, NEW j \in Keys, NEW q \in Prints,
               held'[d] = Reservation(j, q), ~closed, now < RetainedUntil(q)
        PROVE  records'[j] = Kept(q)
    <3>1. records[j] = Kept(q)
      BY <1>7, <2>1 DEF StoreInv, HeldIsKept
    <3> QED
      BY <1>3, <2>1, <3>1
  <2> QED
    BY <2>1 DEF HeldIsKept, RetainedUntil
<1>10. HeldIsUntold'
  <2>1. ASSUME NEW d \in Callers, NEW t \in told' PROVE held'[d] # Reservation(t[1], t[2])
    <3>1. CASE t \in told
      <4>1. t[1] \in Keys /\ t[2] \in Prints /\ held[d] # Reservation(t[1], t[2])
        BY <1>0, <3>1 DEF StoreTypeOK, StoreInv, HeldIsUntold
      <4> QED
        BY <1>7, <4>1
    <3>2. CASE t = fresh
      BY <1>1, <3>2
    <3> QED
      BY <1>t, <3>1, <3>2
  <2> QED
    BY <2>1 DEF HeldIsUntold
<1>11. ToldOnce'
  <2>1. ASSUME NEW s \in told', NEW t \in told', s[1] = t[1], s[2] = t[2] PROVE s = t
    BY <1>1, <1>t, <2>1 DEF StoreInv, ToldOnce
  <2> QED
    BY <2>1 DEF ToldOnce
<1>12. AnsweredIsKnown'
  <2>1. ASSUME NEW t \in told', now < Expiry[t[2]], ~closed
        PROVE  records'[t[1]] = Done(t[2], t[3])
    <3>1. CASE t \in told
      <4>1. t[1] \in Keys /\ t[2] \in Prints /\ records[t[1]] = Done(t[2], t[3])
        BY <1>0, <2>1, <3>1 DEF StoreInv, StoreTypeOK, AnsweredIsKnown
      <4>2. now < RetainedUntil(t[2])
        BY <1>2, <2>1, <4>1
      <4> QED
        BY <1>3, <2>1, <3>1, <4>1, <4>2
    <3>2. CASE t = fresh
      <4>1. now < RetainedUntil(p)
        BY <1>1, <1>2, <2>1, <3>2
      <4>2. records' = [Pruned EXCEPT ![k] = Done(p, result)]
        BY <4>1
      <4>3. records'[k] = Done(p, result)
        BY <1>0, <4>2, SetRecordFacts
      <4> QED
        BY <1>1, <3>2, <4>3
    <3> QED
      BY <1>t, <2>1, <3>1, <3>2
  <2> QED
    BY <2>1 DEF AnsweredIsKnown
<1> QED
  BY <1>4, <1>5, <1>6, <1>8, <1>9, <1>10, <1>11, <1>12 DEF StoreInv, ClosedIsEmpty

\* A handler that does not wait answers an operation that is nobody's and not answered.
LEMMA CarryOutKeepsStoreInv ==
    ASSUME StoreInv, NEW k \in Keys, NEW p \in Prints, NEW result, CarryOut(k, p, result)
    PROVE  StoreInv'
<1>1. /\ ~closed /\ now < Expiry[p] /\ MayTake(k, p)
      /\ records' = [Pruned EXCEPT ![k] = Done(p, result)]
      /\ told' = told \cup {<<k, p, result>>}
      /\ UNCHANGED <<held, now, closed>>
  BY DEF CarryOut
<1>2. /\ \A d \in Callers : held[d] # Reservation(k, p)
      /\ \A t \in told : ~(t[1] = k /\ t[2] = p)
      /\ \A d \in Callers, q \in Prints : held[d] = Reservation(k, q) => ~(now < RetainedUntil(q))
      /\ \A t \in told : t[1] = k => ~(now < Expiry[t[2]])
  BY <1>1, FreshFacts
<1>3. /\ held' \in [Callers -> {Idle} \cup Reservations]
      /\ \A d \in Callers : held'[d] = held[d]
  BY <1>1 DEF StoreInv, StoreTypeOK
<1>4. \A d \in Callers : held'[d] # Reservation(k, p)
  BY <1>2, <1>3
<1>5. /\ records' = [Pruned EXCEPT ![k] = Done(p, result)]
      /\ \A d \in Callers, q \in Prints : held'[d] = Reservation(k, q) => ~(now < RetainedUntil(q))
      /\ \A t \in told : t[1] = k => ~(now < Expiry[t[2]])
  BY <1>1, <1>2, <1>3
<1> QED
  BY <1>1, <1>2, <1>3, <1>4, <1>5, TellingKeepsStoreInv

\* The handler of a reservation answers once, and its record is there to keep the
\* answer unless its time is over.
LEMMA CommitKeepsStoreInv ==
    ASSUME StoreInv, NEW c \in Callers, NEW result, Commit(c, result)
    PROVE  StoreInv'
<1>0. StoreTypeOK /\ held[c] \in Reservations /\ ~closed
  BY DEF Commit, StoreInv, StoreTypeOK
<1>1. PICK k \in Keys, p \in Prints : held[c] = Reservation(k, p)
  BY <1>0 DEF Reservations
<1>2. held[c].key = k /\ held[c].print = p
  BY <1>1, RecordsDiffer DEF Reservation
<1>3. /\ records' = IF Commits(k, p) THEN [Pruned EXCEPT ![k] = Done(p, result)] ELSE Pruned
      /\ told' = told \cup {<<k, p, result>>}
      /\ held' = [held EXCEPT ![c] = Idle]
      /\ UNCHANGED <<now, closed>>
  BY <1>2 DEF Commit
<1>4. /\ held' \in [Callers -> {Idle} \cup Reservations]
      /\ \A d \in Callers : held'[d] = held[d] \/ (held'[d] = Idle /\ held[d] = Reservation(k, p))
      /\ \A d \in Callers \ {c} : held'[d] = held[d]
      /\ held'[c] = Idle
  BY <1>0, <1>1, <1>3 DEF StoreTypeOK
<1>5. \A d \in Callers : held'[d] # Reservation(k, p)
  <2>1. Idle # Reservation(k, p)
    BY RecordsDiffer
  <2> QED
    BY <1>1, <1>4, <2>1 DEF StoreInv, HeldOnce
<1>6. \A t \in told : ~(t[1] = k /\ t[2] = p)
  BY <1>1 DEF StoreInv, HeldIsUntold
<1>7. told' = told \cup {<<k, p, result>>} /\ ~closed /\ UNCHANGED <<now, closed>>
  BY <1>0, <1>3
<1>8. /\ held' \in [Callers -> {Idle} \cup Reservations]
      /\ \A d \in Callers : held'[d] = held[d] \/ (held'[d] = Idle /\ held[d] = Reservation(k, p))
  BY <1>4
<1>9. CASE Commits(k, p)
  <2>1. records' = [Pruned EXCEPT ![k] = Done(p, result)] /\ records[k] = Kept(p)
    <3>1. Kept(p) # NoRecord
      BY RecordsDiffer
    <3>2. Pruned[k] \in {NoRecord, records[k]}
      BY <1>0, PrunedFacts
    <3> QED
      BY <1>3, <1>9, <3>1, <3>2 DEF Commits
  <2>2. ASSUME NEW d \in Callers, NEW q \in Prints, held'[d] = Reservation(k, q),
               now < RetainedUntil(q)
        PROVE  FALSE
    <3>0. held'[d] # Idle
      BY <2>2, RecordsDiffer
    <3>1. held[d] = Reservation(k, q) /\ q # p
      BY <1>4, <1>5, <2>2, <3>0
    <3>2. records[k] = Kept(q)
      BY <1>0, <2>2, <3>1 DEF StoreInv, HeldIsKept
    <3>3. Kept(p) = Kept(q) => p = q
      BY RecordsDiffer
    <3> QED
      BY <2>1, <3>1, <3>2, <3>3
  <2>3. ASSUME NEW t \in told, t[1] = k, now < Expiry[t[2]]
        PROVE  FALSE
    <3>1. records[k] = Done(t[2], t[3])
      BY <1>0, <2>3 DEF StoreInv, AnsweredIsKnown
    <3>2. Kept(p) # Done(t[2], t[3])
      BY RecordsDiffer
    <3> QED
      BY <2>1, <3>1, <3>2
  <2>4. /\ records' = [Pruned EXCEPT ![k] = Done(p, result)]
        /\ \A d \in Callers, q \in Prints :
              held'[d] = Reservation(k, q) => ~(now < RetainedUntil(q))
        /\ \A t \in told : t[1] = k => ~(now < Expiry[t[2]])
    BY <2>1, <2>2, <2>3
  <2> QED
    BY <1>5, <1>6, <1>7, <1>8, <2>4, TellingKeepsStoreInv
<1>10. CASE ~Commits(k, p)
  <2>1. records' = Pruned /\ records'[k] # Kept(p)
    BY <1>3, <1>10 DEF Commits
  <2>2. ~(now < RetainedUntil(p))
    BY <1>0, <1>1, <1>10, PrunedFacts DEF Commits, StoreInv, HeldIsKept
  <2> QED
    BY <1>5, <1>6, <1>7, <1>8, <2>1, <2>2, TellingKeepsStoreInv
<1> QED
  BY <1>9, <1>10

\* A retry changes nothing but what pruning forgets: its answer has been given before.
LEMMA RetryKeepsStoreInv ==
    ASSUME StoreInv, NEW k \in Keys, NEW p \in Prints, Refuse(k, p) \/ Replay(k, p)
    PROVE  StoreInv' /\ told' = told
<1>0. StoreTypeOK /\ ~closed
  BY DEF StoreInv, Refuse, Replay
<1>1. told' = told
  <2>1. CASE Replay(k, p) /\ Answers(k, p)
    <3>1. PICK q \in Prints : Pruned[k] \in {NoRecord, Kept(q), Done(q, Pruned[k].result)}
      BY <1>0, PrunedFacts DEF StoreTypeOK
    <3>2. Pruned[k] = Done(p, Pruned[k].result)
      BY <2>1, <3>1, RecordsDiffer DEF Answers
    <3>3. records[k] = Pruned[k]
      BY <1>0, <3>2, PrunedFacts, RecordsDiffer
    <3>4. <<k, p, records[k].result>> \in told
      BY <3>2, <3>3 DEF StoreInv, DoneIsTold
    <3> QED
      BY <2>1, <3>3, <3>4 DEF Replay
  <2> QED
    BY <2>1 DEF Replay, Refuse
<1>2. records' = Pruned
  <2>1. Refuse(k, p) => records' = Pruned
    BY <1>0, PrunedFacts DEF Refuse, Released, MayTake
  <2> QED
    BY <2>1 DEF Replay
<1>3. /\ records' = [j \in Keys |-> records'[j]]
      /\ \A j \in Keys : records'[j] = records[j] \/ (records'[j] = NoRecord /\ Outdated(j))
  BY <1>2 DEF Pruned
<1>4. UNCHANGED <<held, told, now, closed>>
  BY <1>1 DEF Refuse, Replay
<1> QED
  BY <1>0, <1>3, <1>4, ForgettingKeepsStoreInv

\* A timer forgets, close forgets everything, and a handler that comes back to a closed
\* store gets nothing.
LEMMA EndingKeepsStoreInv ==
    ASSUME StoreInv, (\E k \in Keys : TimerFires(k)) \/ (\E c \in Callers : Abandon(c)) \/ Close
    PROVE  StoreInv' /\ told' = told
<1> USE DEF StoreInv
<1>1. CASE \E k \in Keys : TimerFires(k)
  <2>1. PICK k \in Keys : TimerFires(k)
    BY <1>1
  <2>2. /\ records' = [j \in Keys |-> records'[j]]
        /\ \A j \in Keys : records'[j] = records[j] \/ (records'[j] = NoRecord /\ Outdated(j))
        /\ ~closed /\ UNCHANGED <<held, told, now, closed>>
    BY <2>1 DEF TimerFires, StoreTypeOK
  <2> QED
    BY <2>2, ForgettingKeepsStoreInv
<1>2. CASE \E c \in Callers : Abandon(c)
  <2>1. PICK c \in Callers : Abandon(c)
    BY <1>2
  <2>2. /\ closed /\ UNCHANGED <<records, told, now, closed>>
        /\ held' = [held EXCEPT ![c] = Idle]
    BY <2>1 DEF Abandon
  <2>3. StoreTypeOK'
    BY <2>2 DEF StoreTypeOK, Reservations
  <2>4. \A d \in Callers, j \in Keys, q \in Prints :
            held'[d] = Reservation(j, q) => held[d] = Reservation(j, q)
    BY <2>2, RecordsDiffer DEF StoreTypeOK
  <2>5. \A k \in Keys, p \in Prints : records[k] # Kept(p)
    BY <2>2, RecordsDiffer DEF ClosedIsEmpty
  <2>6. PendingIsHeld' /\ DoneIsTold' /\ HeldIsKept' /\ ToldOnce' /\ AnsweredIsKnown' /\ ClosedIsEmpty'
    BY <2>2, <2>5 DEF ClosedIsEmpty, PendingIsHeld, DoneIsTold, HeldIsKept, ToldOnce, AnsweredIsKnown
  <2>7. HeldOnce'
    BY <2>4 DEF HeldOnce
  <2>8. HeldIsUntold'
    BY <2>2, <2>4 DEF HeldIsUntold, StoreTypeOK
  <2> QED
    BY <2>2, <2>3, <2>6, <2>7, <2>8
<1>3. CASE Close
  <2>1. /\ records' = [k \in Keys |-> NoRecord] /\ closed' = TRUE
        /\ UNCHANGED <<held, told, now>>
    BY <1>3 DEF Close
  <2>2. StoreTypeOK'
    BY <2>1 DEF StoreTypeOK, Reservations
  <2>3. \A k \in Keys, p \in Prints : records'[k] # Kept(p) /\ \A r : records'[k] # Done(p, r)
    BY <2>1, RecordsDiffer
  <2>4. PendingIsHeld' /\ DoneIsTold'
    BY <2>3 DEF PendingIsHeld, DoneIsTold
  <2>5. HeldOnce' /\ HeldIsKept' /\ HeldIsUntold' /\ ToldOnce' /\ AnsweredIsKnown' /\ ClosedIsEmpty'
    BY <2>1 DEF HeldOnce, HeldIsKept, HeldIsUntold, ToldOnce, AnsweredIsKnown, ClosedIsEmpty
  <2> QED
    BY <2>1, <2>2, <2>4, <2>5
<1> QED
  BY <1>1, <1>2, <1>3

\* Time only ends promises.
LEMMA TickKeepsStoreInv == ASSUME StoreInv, Tick PROVE StoreInv' /\ told' = told
<1> USE DEF StoreInv
<1>1. now' = now + 1 /\ now \in Nat /\ UNCHANGED <<records, held, told, closed>>
  BY DEF Tick, StoreTypeOK
<1>2. StoreTypeOK'
  BY <1>1 DEF StoreTypeOK, Reservations
<1>3. PendingIsHeld' /\ DoneIsTold' /\ HeldOnce' /\ HeldIsUntold' /\ ToldOnce' /\ ClosedIsEmpty'
  BY <1>1 DEF PendingIsHeld, DoneIsTold, HeldOnce, HeldIsUntold, ToldOnce, ClosedIsEmpty
<1>4. \A p \in Prints : /\ now' < RetainedUntil(p)' => now < RetainedUntil(p)
                        /\ now' < Expiry[p] => now < Expiry[p]
  BY <1>1, ExpiryAssumption, GraceAssumption DEF RetainedUntil
<1>5. HeldIsKept'
  BY <1>1, <1>4 DEF HeldIsKept
<1>6. AnsweredIsKnown'
  BY <1>1, <1>4 DEF AnsweredIsKnown, StoreTypeOK
<1> QED
  BY <1>1, <1>2, <1>3, <1>5, <1>6

-----------------------------------------------------------------------------
(* The operations. *)

\* The fields of an envelope that a router builds and other routers receive, and what
\* they have to do with each other and with the time.
Fields(senders) ==
    [protocolVersion : {"1.0"}, operation : OperationNames \ {"message.reply"},
     operationId : AskerIds, requestId : AskerIds \cup {Missing}, sender : senders,
     recipientRuntimeId : {Answerer}, roomId : {Room}, createdAt : Int, expiresAt : Int,
     parentOperationId : {Missing}, payload : Payloads]

Sound(e) ==
    /\ \E n \in 0..LastBuild : n <= now /\ e.createdAt = n + offset
    /\ e.expiresAt - e.createdAt \in 1..MaxTtl(e.operation)
    /\ e.operation = "message.request" =>
          e.requestId = e.operationId /\ e.payload.content = "text"
    /\ e.operation \in {"task.status", "task.cancel"} => e.requestId \in AskerIds \ {e.operationId}
    /\ e.operation \in {"peer.describe", "message.notify"} => e.requestId = Missing
    /\ e.operation = "message.notify" => e.payload.content \in {"text", "json"}

SentOK ==
    /\ setting \in Settings
    /\ \A e \in sent : e \in Fields({Asker}) /\ Sound(e)

\* A task record, with its requester.
TaskRecord ==
    [requestId : AskerIds, state : TaskState, requester : {Asker, Stranger},
     contract : {"schema", Missing}, createdAt : Int, updatedAt : Int, expiresAt : Int,
     requestedAt : Int \cup {Missing}, content : Contents \cup {Missing}, error : Errors \cup {Missing}]

TasksOK ==
    /\ tasks = [id \in AskerIds |-> tasks[id]]
    /\ \A id \in AskerIds : tasks[id] = NoTask \/ tasks[id] \in TaskRecord

\* Cancellations are of tasks there are, until the router closes.
CancelledOK ==
    /\ \A t \in told : t[2].operation = "task.cancel" =>
          t[2].requestId \in AskerIds /\ (~closed => tasks[t[2].requestId] # NoTask)
    /\ closed => \A id \in AskerIds : tasks[id] = NoTask

\* The invariant of the tasks, and of who was told what about stopping them.
TaskInv == TasksOK /\ CancelledOK /\ OnlyTheRequesterStops

\* The handlers that await are those of notifications.
HeldOK ==
    \A c \in Callers, k \in Keys, p \in Prints :
        held[c] = Reservation(k, p) => p.operation = "message.notify"

\* The inductive invariant of the operations.
OpsInv == StoreInv /\ SentOK /\ TaskInv /\ HeldOK

-----------------------------------------------------------------------------
\* The clocks of two runtimes differ by no more than the tolerance, and a stranger is the
\* only other sender.
LEMMA SettingFacts ==
    ASSUME setting \in Settings
    PROVE  /\ offset \in -MaxSkew..MaxSkew
           /\ setting.senders \subseteq {Asker, Stranger}
           /\ \A operation : MaxTtl(operation) \in Nat \ {0}
           /\ MaxSkew \in Nat
<1>1. setting \in Setting
  BY SettingsAssumption
<1> QED
  BY <1>1, LimitsAssumption DEF Setting, offset, MaxTtl

\* What a router builds is sound when it is built (buildRequestEnvelope and the like).
LEMMA BuildFacts ==
    ASSUME SentOK, now \in Nat, NEW id \in AskerIds, Build(id)
    PROVE  \E e \in Fields({Asker}) : Sound(e) /\ sent' = sent \cup {e}
<1>0. /\ AskerNow \in Int /\ offset \in Int /\ now \in 0..LastBuild
      /\ \A operation : MaxTtl(operation) \in Nat \ {0}
      /\ Missing \notin Int
  BY SettingFacts, BuildsAssumption, LimitsAssumption, MarksAssumption DEF SentOK, AskerNow, Build
<1>1. \A wish \in Wishes : \A operation :
         /\ Deadline(operation, wish, AskerNow) \in Int
         /\ Deadline(operation, wish, AskerNow) - AskerNow \in 1..MaxTtl(operation)
  <2>1. ASSUME NEW wish \in Wishes, NEW operation
        PROVE  Deadline(operation, wish, AskerNow) \in {AskerNow + 1, AskerNow + MaxTtl(operation)}
    BY DEF Wishes, Deadline
  <2> QED
    BY <1>0, <2>1
<1>2. \A operation : /\ Deadline(operation, Missing, AskerNow) \in Int
                     /\ Deadline(operation, Missing, AskerNow) - AskerNow \in 1..MaxTtl(operation)
  BY <1>0 DEF Deadline
<1>3. \E n \in 0..LastBuild : n <= now /\ AskerNow = n + offset
  BY <1>0 DEF AskerNow
<1>4. PICK e \in Asked(id) \cup Notifications(id) \cup Controls(id)
                \cup {DescribeEnvelope(id, Asker, Answerer, AskerNow)} : sent' = sent \cup {e}
  BY DEF Build
<1>5. setting.contracts \subseteq {Missing, "schema"}
  BY SettingsAssumption DEF Setting, SentOK
<1>6. CASE e \in Asked(id)
  <2>1. PICK wish \in Wishes, contract \in setting.contracts :
           e = Envelope("message.request", id, id, Asker, Answerer, wish, Question(contract), AskerNow)
    BY <1>6 DEF Asked, RequestEnvelope
  <2>2. Question(contract) \in Payloads /\ Question(contract).content = "text"
    BY <1>5 DEF Payloads, EmptyPayload, Question
  <2> QED
    BY <1>0, <1>1, <1>3, <1>4, <2>1, <2>2 DEF Envelope, Fields, Sound, OperationNames, Control
<1>7. CASE e \in Notifications(id)
  <2>1. PICK wish \in Wishes, content \in {"text", "json"} :
           e = Envelope("message.notify", id, Missing, Asker, Answerer, wish,
                        [EmptyPayload EXCEPT !.content = content], AskerNow)
    BY <1>7 DEF Notifications, NotifyEnvelope
  <2>2. [EmptyPayload EXCEPT !.content = content] \in Payloads
    BY DEF Payloads, EmptyPayload
  <2> QED
    BY <1>0, <1>1, <1>3, <1>4, <2>1, <2>2
    DEF Envelope, Fields, Sound, OperationNames, Control, EmptyPayload
<1>8. CASE e \in Controls(id)
  <2>1. PICK operation \in {"task.status", "task.cancel"}, target \in AskerIds \ {id},
             wish \in Wishes :
           e = Envelope(operation, id, target, Asker, Answerer, wish, EmptyPayload, AskerNow)
    BY <1>8 DEF Controls, ControlEnvelope
  <2>2. EmptyPayload \in Payloads
    BY DEF Payloads, EmptyPayload
  <2> QED
    BY <1>0, <1>1, <1>3, <1>4, <2>1, <2>2
    DEF Envelope, Fields, Sound, OperationNames, Control
<1>9. CASE e = DescribeEnvelope(id, Asker, Answerer, AskerNow)
  <2>1. EmptyPayload \in Payloads
    BY DEF Payloads, EmptyPayload
  <2> QED
    BY <1>0, <1>2, <1>3, <1>4, <1>9, <2>1
    DEF DescribeEnvelope, Envelope, Fields, Sound, OperationNames, Control
<1> QED
  BY <1>4, <1>6, <1>7, <1>8, <1>9

\* What arrives has a key and a print, whoever sends it.
LEMMA IncomingFacts ==
    ASSUME SentOK, NEW e \in Incoming
    PROVE  /\ Key(e) \in Keys /\ Key(e)[1] = e.sender
           /\ FingerprintOf(e) \in Prints
           /\ FingerprintOf(e).operation = e.operation
           /\ FingerprintOf(e).requestId = e.requestId
           /\ e.sender \in {Asker, Stranger}
           /\ e.createdAt \in Int /\ e.expiresAt \in Int
           /\ e.payload \in Payloads
           /\ e.operation \in {"message.request", "task.status", "task.cancel"} =>
                 e.requestId \in AskerIds
<1>1. PICK built \in sent, from \in setting.senders : e = [built EXCEPT !.sender = from]
  BY DEF Incoming
<1>2. built \in Fields({Asker}) /\ Sound(built) /\ from \in {Asker, Stranger}
  BY SettingFacts DEF SentOK
<1>3. /\ e \in Fields({Asker, Stranger}) /\ e.sender = from
      /\ e.operation = built.operation /\ e.operationId = built.operationId
      /\ e.requestId = built.requestId /\ e.createdAt = built.createdAt
      /\ e.expiresAt = built.expiresAt /\ e.payload = built.payload
  BY <1>1, <1>2 DEF Fields
<1>4. /\ e.operation \in OperationNames /\ e.operationId \in AskerIds
      /\ e.requestId \in AskerIds \cup {Missing}
      /\ e.createdAt \in Int /\ e.expiresAt \in Int /\ e.payload \in Payloads
  BY <1>3 DEF Fields
<1>5. PICK n \in 0..LastBuild : e.createdAt = n + offset
  BY <1>2, <1>3 DEF Sound
<1>6. Key(e) \in Keys /\ Key(e)[1] = e.sender
  BY <1>2, <1>3, <1>4, NamesAssumption DEF Key
<1>7. FingerprintOf(e) \in Prints
  <2> DEFINE ttl == e.expiresAt - e.createdAt
  <2>1. ttl \in 1..MaxTtl(e.operation)
    BY <1>2, <1>3 DEF Sound
  <2>2. setting \in Settings /\ offset = setting.offset
    BY DEF SentOK, offset
  <2>3. [operation : {e.operation}, requestId : AskerIds \cup {Missing},
         createdAt : {n + setting.offset}, expiresAt : {n + setting.offset + ttl},
         content : {"text", "json", Missing}, contract : {"schema", Missing}] \subseteq Prints
    BY <1>4, <2>1, <2>2, PrintsAssumption
  <2>4. e.createdAt = n + setting.offset /\ e.expiresAt = n + setting.offset + ttl
    BY <1>4, <1>5, <2>2, SettingFacts
  <2>5. e.payload.content \in {"text", "json", Missing} /\ e.payload.contract \in {"schema", Missing}
    BY <1>4 DEF Payloads
  <2> HIDE DEF ttl
  <2> QED
    BY <1>4, <2>3, <2>4, <2>5 DEF FingerprintOf
<1>8. e.operation \in {"message.request", "task.status", "task.cancel"} => e.requestId \in AskerIds
  BY <1>2, <1>3, <1>4 DEF Sound
<1> QED
  BY <1>2, <1>3, <1>4, <1>6, <1>7, <1>8 DEF FingerprintOf

\* What was sound stays so.
LEMMA SentStays ==
    ASSUME SentOK, now \in Nat, now' \in Nat, now <= now', UNCHANGED <<setting, sent>>
    PROVE  SentOK'
<1>1. ASSUME NEW e, Sound(e) PROVE Sound(e)'
  BY <1>1 DEF Sound, offset
<1> QED
  BY <1>1 DEF SentOK

-----------------------------------------------------------------------------
\* No task is a record of one, and `cancelled' does not ask for a stop by itself.
LEMMA TaskFacts ==
    /\ NoTask \notin TaskRecord
    /\ ~IsActive(NoTask.state) /\ NoTask.state # "cancelled"
    /\ \A t \in TaskRecord : t.state \in TaskState
<1>1. NoTask.state = Absent
  BY DEF NoTask
<1>2. \A t \in TaskRecord : t.state \in TaskState
  BY DEF TaskRecord
<1>3. Absent \notin TaskState /\ Absent \notin ActiveStates /\ Absent # "cancelled"
  BY DEF TaskState, ActiveStates, TerminalOutcomes, Absent
<1> QED
  BY <1>1, <1>2, <1>3 DEF IsActive

\* What happens to a task leaves it its requester's, and only a cancellation has it
\* stopped (nextUpdatedAt, expireIfDue, completeTask and its like, nextCancellation).
Same(t, u) == u \in TaskRecord /\ u.requester = t.requester /\ u.requestedAt = t.requestedAt

LEMMA MovedFacts ==
    ASSUME NEW t \in TaskRecord, now \in Nat
    PROVE  /\ \A to \in TaskState : Same(t, Moved(t, to))
           /\ Same(t, UpToDate(t))
           /\ \A u \in Endings(t) : Same(t, u)
           /\ Stopped(t) \in TaskRecord /\ Stopped(t).requester = t.requester
<1>0. Stamp(t) \in Int
  BY DEF Stamp, TaskRecord
<1>1. ASSUME NEW to \in TaskState
      PROVE  /\ Moved(t, to) \in TaskRecord /\ Moved(t, to).requester = t.requester
             /\ Moved(t, to).requestedAt = t.requestedAt
  BY <1>0, <1>1 DEF Moved, TaskRecord
<1>2. {"expired", "completed", "failed", "rejected", "cancelled", "cancelling"} \subseteq TaskState
  BY DEF TaskState, TerminalOutcomes, ActiveStates
<1>3. ASSUME NEW u \in TaskRecord, NEW error \in Errors
      PROVE  LET v == [u EXCEPT !.error = error]
             IN v \in TaskRecord /\ v.requester = u.requester /\ v.requestedAt = u.requestedAt
  BY <1>3 DEF TaskRecord
<1>4. ASSUME NEW u \in TaskRecord, NEW content \in Contents
      PROVE  LET v == [u EXCEPT !.content = content]
             IN v \in TaskRecord /\ v.requester = u.requester /\ v.requestedAt = u.requestedAt
  BY <1>4 DEF TaskRecord
<1>5. ASSUME NEW u \in TaskRecord
      PROVE  LET v == [u EXCEPT !.requestedAt = now]
             IN v \in TaskRecord /\ v.requester = u.requester
  BY <1>5 DEF TaskRecord
<1>6. {ProtocolError(code) : code \in {"expired", "internal", "cancelled"}} \subseteq Errors
  BY DEF Errors, ErrorCodes
<1>7. Same(t, UpToDate(t))
  <2>1. CASE UpToDate(t) = t
    BY <2>1 DEF Same
  <2>2. CASE UpToDate(t) = [Moved(t, "expired") EXCEPT !.error = ProtocolError("expired")]
    BY <1>1, <1>2, <1>3, <1>6, <2>2 DEF Same
  <2> QED
    BY <2>1, <2>2 DEF UpToDate
<1>8. ASSUME NEW u \in Endings(t) PROVE Same(t, u)
  <2>1. CASE \E content \in Contents : u = [Moved(t, "completed") EXCEPT !.content = content]
    BY <1>1, <1>2, <1>4, <2>1 DEF Same
  <2>2. CASE \E outcome \in {"failed", "rejected"} :
                u = [Moved(t, outcome) EXCEPT !.error = ProtocolError("internal")]
    BY <1>1, <1>2, <1>3, <1>6, <2>2 DEF Same
  <2>3. CASE u = [Moved(t, "cancelled") EXCEPT !.error = ProtocolError("cancelled")]
    BY <1>1, <1>2, <1>3, <1>6, <2>3 DEF Same
  <2> QED
    BY <2>1, <2>2, <2>3 DEF Endings
<1>9. Stopped(t) \in TaskRecord /\ Stopped(t).requester = t.requester
  <2>1. CancelTarget(t.state) \in TaskState
    BY <1>2 DEF CancelTarget
  <2> QED
    BY <1>1, <1>5, <2>1 DEF Stopped
<1> QED
  BY <1>1, <1>7, <1>8, <1>9 DEF Same

\* A task that moves on stays its requester's, and is not stopped by that.
LEMMA MoveKeepsTaskInv ==
    ASSUME TaskInv, NEW id \in AskerIds, tasks[id] \in TaskRecord, NEW u, Same(tasks[id], u),
           tasks' = [tasks EXCEPT ![id] = u], UNCHANGED <<told, closed>>
    PROVE  TaskInv'
<1>1. /\ u \in TaskRecord /\ u.requester = tasks[id].requester
      /\ u.requestedAt = tasks[id].requestedAt
      /\ u # NoTask /\ tasks[id] # NoTask
  BY TaskFacts DEF Same
<1>2. tasks' = [i \in AskerIds |-> tasks'[i]] /\ tasks'[id] = u
      /\ \A i \in AskerIds \ {id} : tasks'[i] = tasks[i]
  BY DEF TaskInv, TasksOK
<1>3. TasksOK'
  BY <1>1, <1>2 DEF TaskInv, TasksOK
<1>4. CancelledOK'
  BY <1>1, <1>2 DEF TaskInv, CancelledOK
<1>5. \A t \in told : t[2].operation = "task.cancel" => t[2].requestId \in AskerIds
  BY DEF TaskInv, CancelledOK
<1>6. OnlyTheRequesterStops'
  BY <1>1, <1>2, <1>5 DEF TaskInv, OnlyTheRequesterStops
<1> QED
  BY <1>3, <1>4, <1>6 DEF TaskInv

\* A request that is new makes a task that nobody has asked to stop.
LEMMA CreateKeepsTaskInv ==
    ASSUME TaskInv, ~closed, UNCHANGED closed, NEW id \in AskerIds, tasks[id] = NoTask,
           NEW u \in TaskRecord, u.requestedAt = Missing, tasks' = [tasks EXCEPT ![id] = u],
           NEW k, NEW p, NEW result, p.operation # "task.cancel",
           told' = told \cup {<<k, p, result>>}
    PROVE  TaskInv'
<1>1. u # NoTask
  BY TaskFacts
<1>2. tasks' = [i \in AskerIds |-> tasks'[i]] /\ tasks'[id] = u
      /\ \A i \in AskerIds \ {id} : tasks'[i] = tasks[i]
  BY DEF TaskInv, TasksOK
<1>3. TasksOK'
  BY <1>1, <1>2 DEF TaskInv, TasksOK
<1>4. \A t \in told' : t[2].operation = "task.cancel" => t \in told
  OBVIOUS
<1>5. \A t \in told : t[2].operation = "task.cancel" =>
          t[2].requestId \in AskerIds /\ tasks[t[2].requestId] # NoTask /\ t[2].requestId # id
  BY DEF TaskInv, CancelledOK
<1>6. CancelledOK'
  BY <1>1, <1>2, <1>4, <1>5 DEF CancelledOK
<1>7. OnlyTheRequesterStops'
  <2>1. ASSUME NEW i \in AskerIds, tasks'[i] # NoTask, tasks'[i].requestedAt # Missing
        PROVE  \E t \in told' : /\ t[1][1] = tasks'[i].requester
                                /\ t[2].operation = "task.cancel" /\ t[2].requestId = i
    <3>1. i # id /\ tasks'[i] = tasks[i]
      BY <1>2, <2>1
    <3>2. \E t \in told : /\ t[1][1] = tasks[i].requester
                          /\ t[2].operation = "task.cancel" /\ t[2].requestId = i
      BY <2>1, <3>1 DEF TaskInv, OnlyTheRequesterStops
    <3> QED
      BY <3>1, <3>2
  <2>2. ASSUME NEW t \in told', t[2].operation = "task.cancel"
        PROVE  t[1][1] = tasks'[t[2].requestId].requester
    BY <1>2, <1>4, <1>5, <2>2 DEF TaskInv, OnlyTheRequesterStops
  <2> QED
    BY <2>1, <2>2 DEF OnlyTheRequesterStops
<1> QED
  BY <1>3, <1>6, <1>7 DEF TaskInv

\* Answers to anything but cancellations say nothing about stopping.
LEMMA AnswerKeepsTaskInv ==
    ASSUME TaskInv, UNCHANGED <<closed, tasks>>,
           NEW k, NEW p, NEW result, p.operation # "task.cancel",
           told' = told \cup {<<k, p, result>>}
    PROVE  TaskInv'
<1>1. \A t \in told' : t[2].operation = "task.cancel" => t \in told
  OBVIOUS
<1>2. TasksOK'
  BY DEF TaskInv, TasksOK
<1>3. CancelledOK'
  BY <1>1 DEF TaskInv, CancelledOK
<1>4. OnlyTheRequesterStops'
  BY <1>1 DEF TaskInv, OnlyTheRequesterStops
<1> QED
  BY <1>2, <1>3, <1>4 DEF TaskInv

\* A cancellation of the requester may stop its task.
LEMMA CancelKeepsTaskInv ==
    ASSUME TaskInv, ~closed, UNCHANGED closed, NEW id \in AskerIds, tasks[id] \in TaskRecord,
           NEW u \in TaskRecord, u.requester = tasks[id].requester,
           tasks' = [tasks EXCEPT ![id] = u],
           NEW k, NEW p, NEW result, p.requestId = id, p.operation = "task.cancel",
           k[1] = tasks[id].requester,
           told' = told \cup {<<k, p, result>>}
    PROVE  TaskInv'
<1> DEFINE fresh == <<k, p, result>>
<1>0. fresh[1] = k /\ fresh[2] = p /\ told' = told \cup {fresh}
  OBVIOUS
<1> HIDE DEF fresh
<1>1. u # NoTask /\ tasks[id] # NoTask
  BY TaskFacts
<1>2. tasks' = [i \in AskerIds |-> tasks'[i]] /\ tasks'[id] = u
      /\ \A i \in AskerIds \ {id} : tasks'[i] = tasks[i]
  BY DEF TaskInv, TasksOK
<1>3. TasksOK'
  BY <1>1, <1>2 DEF TaskInv, TasksOK
<1>4. CancelledOK'
  BY <1>0, <1>1, <1>2 DEF TaskInv, CancelledOK
<1>5. \A t \in told : t[2].operation = "task.cancel" => t[2].requestId \in AskerIds
  BY DEF TaskInv, CancelledOK
<1>6. OnlyTheRequesterStops'
  <2>1. ASSUME NEW i \in AskerIds, tasks'[i] # NoTask, tasks'[i].requestedAt # Missing
        PROVE  \E t \in told' : /\ t[1][1] = tasks'[i].requester
                                /\ t[2].operation = "task.cancel" /\ t[2].requestId = i
    <3>1. CASE i = id
      BY <1>0, <1>2, <3>1
    <3>2. CASE i # id
      <4>1. tasks'[i] = tasks[i]
        BY <1>2, <3>2
      <4>2. \E t \in told : /\ t[1][1] = tasks[i].requester
                            /\ t[2].operation = "task.cancel" /\ t[2].requestId = i
        BY <2>1, <4>1 DEF TaskInv, OnlyTheRequesterStops
      <4> QED
        BY <1>0, <4>1, <4>2
    <3> QED
      BY <3>1, <3>2
  <2>2. ASSUME NEW t \in told', t[2].operation = "task.cancel", tasks'[t[2].requestId] # NoTask
        PROVE  t[1][1] = tasks'[t[2].requestId].requester
    <3>1. CASE t = fresh
      BY <1>0, <1>2, <3>1
    <3>2. CASE t \in told
      <4>1. t[2].requestId \in AskerIds
        BY <1>5, <2>2, <3>2
      <4>2. tasks[t[2].requestId] # NoTask
        BY <1>1, <1>2, <2>2, <4>1
      <4>3. t[1][1] = tasks[t[2].requestId].requester
        BY <2>2, <3>2, <4>2 DEF TaskInv, OnlyTheRequesterStops
      <4> QED
        BY <1>2, <4>1, <4>3
    <3> QED
      BY <1>0, <3>1, <3>2
  <2> QED
    BY <2>1, <2>2 DEF OnlyTheRequesterStops
<1> QED
  BY <1>3, <1>4, <1>6 DEF TaskInv

-----------------------------------------------------------------------------
\* An answerer that has received nothing satisfies the invariant.
LEMMA InitOpsInv == ASSUME OperationsInit PROVE OpsInv
<1> USE DEF OperationsInit, Init
<1>1. StoreTypeOK
  BY DEF StoreTypeOK
<1>2. \A c \in Callers, k \in Keys, p \in Prints : held[c] # Reservation(k, p)
  BY RecordsDiffer
<1>3. \A k \in Keys, p \in Prints : records[k] # Kept(p) /\ \A r : records[k] # Done(p, r)
  BY RecordsDiffer
<1>4. PendingIsHeld /\ DoneIsTold
  BY <1>3 DEF PendingIsHeld, DoneIsTold
<1>5. HeldOnce /\ HeldIsKept /\ HeldIsUntold /\ ToldOnce /\ AnsweredIsKnown /\ ClosedIsEmpty
  BY <1>2 DEF HeldOnce, HeldIsKept, HeldIsUntold, ToldOnce, AnsweredIsKnown, ClosedIsEmpty
<1>6. SentOK
  BY DEF SentOK
<1>7. TaskInv
  BY DEF TaskInv, TasksOK, CancelledOK, OnlyTheRequesterStops
<1> QED
  BY <1>1, <1>2, <1>4, <1>5, <1>6, <1>7 DEF OpsInv, StoreInv, HeldOK

\* What sends nothing and does not turn the clock back keeps what was sent sound.
LEMMA QuietKeepsSentOK ==
    ASSUME OpsInv, UNCHANGED <<setting, sent, now>>
    PROVE  SentOK'
BY SentStays DEF OpsInv, StoreInv, StoreTypeOK

\* What changes no task and answers nothing keeps the tasks.
LEMMA QuietKeepsTaskInv ==
    ASSUME OpsInv, UNCHANGED <<tasks, told, closed>>
    PROVE  TaskInv'
BY DEF OpsInv, TaskInv, TasksOK, CancelledOK, OnlyTheRequesterStops

\* What takes nothing up keeps the reservations those of notifications.
LEMMA QuietKeepsHeldOK ==
    ASSUME OpsInv, \A c \in Callers : held'[c] \in {held[c], Idle}
    PROVE  HeldOK'
BY RecordsDiffer DEF OpsInv, HeldOK

\* The store does not notice what the rest of the router does.
LEMMA QuietKeepsStoreInv ==
    ASSUME OpsInv, UNCHANGED vars
    PROVE  StoreInv'
<1>1. UNCHANGED <<records, held, told, now, closed>>
  BY DEF vars
<1> QED
  BY <1>1 DEF OpsInv, StoreInv, StoreTypeOK, PendingIsHeld, DoneIsTold, HeldOnce, HeldIsKept,
     HeldIsUntold, ToldOnce, AnsweredIsKnown, ClosedIsEmpty, RetainedUntil

LEMMA BuildKeepsOpsInv == ASSUME OpsInv, NEW id \in AskerIds, Build(id) PROVE OpsInv'
<1>1. UNCHANGED <<vars, setting, tasks>> /\ UNCHANGED <<told, closed, now>>
  BY DEF Build, vars
<1>2. PICK e \in Fields({Asker}) : Sound(e) /\ sent' = sent \cup {e}
  BY BuildFacts DEF OpsInv, StoreInv, StoreTypeOK
<1>3. SentOK'
  <2>1. ASSUME NEW built, Sound(built) PROVE Sound(built)'
    BY <1>1, <2>1 DEF Sound, offset
  <2> QED
    BY <1>1, <1>2, <2>1 DEF OpsInv, SentOK
<1> QED
  BY <1>1, <1>3, QuietKeepsTaskInv, QuietKeepsStoreInv, QuietKeepsHeldOK DEF OpsInv, vars

LEMMA RequestKeepsOpsInv ==
    ASSUME OpsInv, NEW e \in Incoming, ReceiveRequest(e) PROVE OpsInv'
<1> DEFINE k == Key(e)
           p == FingerprintOf(e)
<1>1. /\ k \in Keys /\ p \in Prints /\ p.operation = "message.request"
      /\ e.requestId \in AskerIds /\ e.sender \in {Asker, Stranger}
      /\ e.createdAt \in Int /\ e.expiresAt \in Int /\ e.payload.contract \in {"schema", Missing}
  BY IncomingFacts DEF ReceiveRequest, OpsInv, Payloads
<1>2. UNCHANGED <<setting, sent>>
  BY DEF ReceiveRequest
<1> HIDE DEF k, p
<1>3. ASSUME NEW state \in AdmissionStates, NEW result, tasks[e.requestId] = NoTask,
             CarryOut(k, p, result),
             tasks' = [tasks EXCEPT ![e.requestId] = TaskOf(e, state)]
      PROVE  OpsInv'
  <2>1. /\ TaskOf(e, state) \in TaskRecord /\ TaskOf(e, state).requestedAt = Missing
    <3>1. state \in TaskState /\ ProtocolError("expired") \in Errors
      BY DEF AdmissionStates, TaskState, ActiveStates, TerminalOutcomes, Errors, ErrorCodes
    <3> QED
      BY <1>1, <3>1 DEF TaskOf, TaskRecord
  <2>2. told' = told \cup {<<k, p, result>>} /\ ~closed /\ UNCHANGED <<now, closed, held>>
    BY <1>3 DEF CarryOut
  <2>3. TaskInv'
    <3>1. "message.request" # "task.cancel"
      OBVIOUS
    <3> QED
      BY <1>1, <1>3, <2>1, <2>2, <3>1, CreateKeepsTaskInv DEF OpsInv
  <2>4. StoreInv'
    BY <1>1, <1>3, CarryOutKeepsStoreInv DEF OpsInv
  <2> QED
    BY <1>2, <2>2, <2>3, <2>4, QuietKeepsSentOK, QuietKeepsHeldOK DEF OpsInv
<1>4. CASE (Refuse(k, p) \/ Replay(k, p)) /\ UNCHANGED tasks
  <2>1. StoreInv' /\ told' = told
    BY <1>1, <1>4, RetryKeepsStoreInv DEF OpsInv
  <2>2. UNCHANGED <<now, closed, held>>
    BY <1>4 DEF Refuse, Replay
  <2> QED
    BY <1>2, <1>4, <2>1, <2>2, QuietKeepsSentOK, QuietKeepsTaskInv, QuietKeepsHeldOK DEF OpsInv
<1> QED
  BY <1>3, <1>4 DEF ReceiveRequest, k, p

LEMMA NotificationKeepsOpsInv ==
    ASSUME OpsInv, NEW c \in Callers,
           NotificationHandled(c) \/ \E e \in Incoming : ReceiveNotification(c, e)
    PROVE  OpsInv'
<1>1. ASSUME NEW e \in Incoming, ReceiveNotification(c, e) PROVE OpsInv'
  <2>1. Key(e) \in Keys /\ FingerprintOf(e) \in Prints
    BY IncomingFacts DEF OpsInv
  <2>2. UNCHANGED <<setting, sent, tasks>>
    BY <1>1 DEF ReceiveNotification
  <2>3. CASE TakeUp(c, Key(e), FingerprintOf(e))
    <3>1. StoreInv'
      BY <2>1, <2>3, TakeUpKeepsStoreInv DEF OpsInv
    <3>2. UNCHANGED <<told, now, closed>>
      BY <2>3 DEF TakeUp
    <3>3. HeldOK'
      <4>1. FingerprintOf(e).operation = "message.notify"
        BY <1>1 DEF ReceiveNotification, FingerprintOf
      <4>2. \A d \in Callers : held'[d] \in {held[d], Reservation(Key(e), FingerprintOf(e))}
        BY <2>3 DEF TakeUp, OpsInv, StoreInv, StoreTypeOK
      <4>3. \A k \in Keys, p \in Prints :
                Reservation(Key(e), FingerprintOf(e)) = Reservation(k, p) => p = FingerprintOf(e)
        BY RecordsDiffer
      <4> QED
        BY <4>1, <4>2, <4>3 DEF OpsInv, HeldOK
    <3> QED
      BY <2>2, <3>1, <3>2, <3>3, QuietKeepsSentOK, QuietKeepsTaskInv DEF OpsInv
  <2>4. CASE Replay(Key(e), FingerprintOf(e))
    <3>1. StoreInv' /\ told' = told
      BY <2>1, <2>4, RetryKeepsStoreInv DEF OpsInv
    <3>2. UNCHANGED <<now, closed, held>>
      BY <2>4 DEF Replay
    <3> QED
      BY <2>2, <3>1, <3>2, QuietKeepsSentOK, QuietKeepsTaskInv, QuietKeepsHeldOK DEF OpsInv
  <2> QED
    BY <1>1, <2>3, <2>4 DEF ReceiveNotification
<1>2. CASE NotificationHandled(c)
  <2>1. PICK result : Commit(c, result)
    BY <1>2 DEF NotificationHandled
  <2>2. StoreInv'
    BY <2>1, CommitKeepsStoreInv DEF OpsInv
  <2>3. held[c] \in Reservations
    BY <2>1 DEF Commit, OpsInv, StoreInv, StoreTypeOK
  <2>4. PICK k \in Keys, p \in Prints : held[c] = Reservation(k, p)
    BY <2>3 DEF Reservations
  <2>5. p.operation = "message.notify"
    BY <2>4 DEF OpsInv, HeldOK
  <2>6. held[c].key = k /\ held[c].print = p
    BY <2>4, RecordsDiffer DEF Reservation
  <2>7. /\ told' = told \cup {<<k, p, result>>}
        /\ held' = [held EXCEPT ![c] = Idle]
        /\ UNCHANGED <<now, closed>>
    BY <2>1, <2>6 DEF Commit
  <2>8. UNCHANGED <<setting, sent, tasks>>
    BY <1>2 DEF NotificationHandled
  <2>9. TaskInv'
    <3>1. "message.notify" # "task.cancel"
      OBVIOUS
    <3> QED
      BY <2>5, <2>7, <2>8, <3>1, AnswerKeepsTaskInv DEF OpsInv
  <2>10. \A d \in Callers : held'[d] \in {held[d], Idle}
    BY <2>7 DEF OpsInv, StoreInv, StoreTypeOK
  <2> QED
    BY <2>2, <2>7, <2>8, <2>9, <2>10, QuietKeepsSentOK, QuietKeepsHeldOK DEF OpsInv
<1> QED
  BY <1>1, <1>2

LEMMA StatusKeepsOpsInv ==
    ASSUME OpsInv, NEW e \in Incoming, ReceiveStatus(e) PROVE OpsInv'
<1>1. e.requestId \in AskerIds
  BY IncomingFacts DEF ReceiveStatus, OpsInv
<1>2. tasks[e.requestId] \in TaskRecord
  BY <1>1 DEF ReceiveStatus, OpsInv, TaskInv, TasksOK
<1>3. Same(tasks[e.requestId], UpToDate(tasks[e.requestId]))
  BY <1>2, MovedFacts DEF OpsInv, StoreInv, StoreTypeOK
<1>4. /\ tasks' = [tasks EXCEPT ![e.requestId] = UpToDate(tasks[e.requestId])]
      /\ UNCHANGED <<vars, setting, sent>> /\ UNCHANGED <<told, closed, now, held>>
  BY DEF ReceiveStatus, vars
<1>5. TaskInv'
  BY <1>1, <1>2, <1>3, <1>4, MoveKeepsTaskInv DEF OpsInv
<1> QED
  BY <1>4, <1>5, QuietKeepsStoreInv, QuietKeepsSentOK, QuietKeepsHeldOK DEF OpsInv

LEMMA CancelKeepsOpsInv ==
    ASSUME OpsInv, NEW e \in Incoming, ReceiveCancel(e) PROVE OpsInv'
<1> DEFINE k == Key(e)
           p == FingerprintOf(e)
           id == e.requestId
           t == UpToDate(tasks[id])
<1>1. /\ k \in Keys /\ p \in Prints /\ p.operation = "task.cancel" /\ p.requestId = id
      /\ id \in AskerIds /\ k[1] = e.sender
  BY IncomingFacts DEF ReceiveCancel, OpsInv
<1>2. UNCHANGED <<setting, sent>> /\ now \in Nat
  BY DEF ReceiveCancel, OpsInv, StoreInv, StoreTypeOK
<1>3. \/ tasks[id] = NoTask /\ t = NoTask
      \/ tasks[id] \in TaskRecord /\ Same(tasks[id], t)
  <2>1. tasks[id] = NoTask \/ tasks[id] \in TaskRecord
    BY <1>1 DEF OpsInv, TaskInv, TasksOK
  <2>2. UpToDate(NoTask) = NoTask
    BY TaskFacts DEF UpToDate
  <2> QED
    BY <1>2, <2>1, <2>2, MovedFacts
<1>4. \/ \E result : /\ IsRequester(t, e.sender)
                     /\ CarryOut(k, p, result)
                     /\ tasks' \in {[tasks EXCEPT ![id] = Stopped(t)], tasks}
      \/ /\ Refuse(k, p)
         /\ tasks' = [tasks EXCEPT ![id] = t]
      \/ /\ Replay(k, p)
         /\ UNCHANGED tasks
  BY DEF ReceiveCancel
<1> HIDE DEF k, p, t, id
<1>5. ASSUME NEW result, IsRequester(t, e.sender), CarryOut(k, p, result),
             tasks' \in {[tasks EXCEPT ![id] = Stopped(t)], tasks}
      PROVE  OpsInv'
  <2>1. tasks[id] \in TaskRecord /\ t \in TaskRecord /\ tasks[id].requester = e.sender
        /\ t.requester = e.sender
    BY <1>3, <1>5 DEF IsRequester, Same
  <2>2. Stopped(t) \in TaskRecord /\ Stopped(t).requester = e.sender
    BY <1>2, <2>1, MovedFacts
  <2>3. PICK u \in TaskRecord : u.requester = e.sender /\ tasks' = [tasks EXCEPT ![id] = u]
    <3>1. CASE tasks' = tasks
      <4>1. tasks' = [tasks EXCEPT ![id] = tasks[id]]
        BY <1>1, <3>1 DEF OpsInv, TaskInv, TasksOK
      <4> QED
        BY <2>1, <4>1
    <3> QED
      BY <1>5, <2>2, <3>1
  <2>4. told' = told \cup {<<k, p, result>>} /\ ~closed /\ UNCHANGED <<now, closed, held>>
    BY <1>5 DEF CarryOut
  <2>5. TaskInv'
    BY <1>1, <2>1, <2>3, <2>4, CancelKeepsTaskInv DEF OpsInv
  <2>6. StoreInv'
    BY <1>1, <1>5, CarryOutKeepsStoreInv DEF OpsInv
  <2> QED
    BY <1>2, <2>4, <2>5, <2>6, QuietKeepsSentOK, QuietKeepsHeldOK DEF OpsInv
<1>6. ASSUME Refuse(k, p) \/ Replay(k, p), tasks' \in {tasks, [tasks EXCEPT ![id] = t]}
      PROVE  OpsInv'
  <2>1. StoreInv' /\ told' = told
    BY <1>1, <1>6, RetryKeepsStoreInv DEF OpsInv
  <2>2. UNCHANGED <<now, closed, held>>
    BY <1>6 DEF Refuse, Replay
  <2>3. TaskInv'
    <3>1. CASE tasks' = tasks
      BY <2>1, <2>2, <3>1, QuietKeepsTaskInv
    <3>2. CASE tasks' = [tasks EXCEPT ![id] = t] /\ tasks' # tasks
      <4>1. tasks[id] \in TaskRecord /\ Same(tasks[id], t)
        <5>0. tasks = [i \in AskerIds |-> tasks[i]]
          BY DEF OpsInv, TaskInv, TasksOK
        <5>1. t # tasks[id]
          <6>1. tasks = [tasks EXCEPT ![id] = tasks[id]]
            BY <1>1, <5>0
          <6> QED
            BY <3>2, <6>1
        <5> QED
          BY <1>3, <5>1
      <4> QED
        BY <1>1, <2>1, <2>2, <3>2, <4>1, MoveKeepsTaskInv DEF OpsInv
    <3> QED
      BY <1>6, <3>1, <3>2
  <2> QED
    BY <1>2, <2>1, <2>2, <2>3, QuietKeepsSentOK, QuietKeepsHeldOK DEF OpsInv
<1> QED
  BY <1>4, <1>5, <1>6

LEMMA WorkKeepsOpsInv ==
    ASSUME OpsInv, NEW id \in AskerIds, Start(id) \/ Decide(id) \/ Expire(id) PROVE OpsInv'
<1>1. tasks[id] \in TaskRecord
  BY TaskFacts DEF Start, Decide, Expire, OnTime, OpsInv, TaskInv, TasksOK
<1>2. PICK u : Same(tasks[id], u) /\ tasks' = [tasks EXCEPT ![id] = u]
  <2>1. now \in Nat /\ "working" \in TaskState
    BY DEF OpsInv, StoreInv, StoreTypeOK, TaskState, ActiveStates
  <2> QED
    BY <1>1, <2>1, MovedFacts DEF Start, Decide, Expire
<1>3. UNCHANGED vars /\ UNCHANGED <<setting, sent>> /\ UNCHANGED <<told, closed, now, held>>
  BY DEF Start, Decide, Expire, vars
<1>4. TaskInv'
  BY <1>1, <1>2, <1>3, MoveKeepsTaskInv DEF OpsInv
<1> QED
  BY <1>3, <1>4, QuietKeepsStoreInv, QuietKeepsSentOK, QuietKeepsHeldOK DEF OpsInv

LEMMA EndingKeepsOpsInv ==
    ASSUME OpsInv,
           \/ Shutdown \/ TimePasses
           \/ \E c \in Callers : Abandoned(c)
           \/ \E k \in Keys : Forgotten(k)
    PROVE  OpsInv'
<1>1. /\ StoreInv' /\ told' = told
      /\ \A c \in Callers : held'[c] \in {held[c], Idle}
      /\ UNCHANGED <<setting, sent>>
  <2>1. CASE TimePasses
    BY <2>1, TickKeepsStoreInv DEF TimePasses, Tick, OpsInv
  <2>2. CASE Shutdown
    BY <2>2, EndingKeepsStoreInv DEF Shutdown, Close, OpsInv
  <2>3. CASE \E c \in Callers : Abandoned(c)
    <3>1. PICK c \in Callers : Abandon(c) /\ UNCHANGED <<setting, sent>>
      BY <2>3 DEF Abandoned
    <3>2. \A d \in Callers : held'[d] \in {held[d], Idle}
      BY <3>1 DEF Abandon, OpsInv, StoreInv, StoreTypeOK
    <3> QED
      BY <3>1, <3>2, EndingKeepsStoreInv DEF OpsInv
  <2>4. CASE \E k \in Keys : Forgotten(k)
    BY <2>4, EndingKeepsStoreInv DEF Forgotten, TimerFires, OpsInv
  <2> QED
    BY <2>1, <2>2, <2>3, <2>4
<1>2. SentOK'
  <2>1. now \in Nat /\ now' \in Nat /\ now <= now'
    BY <1>1 DEF Shutdown, TimePasses, Abandoned, Forgotten, Close, Tick, Abandon, TimerFires,
       OpsInv, StoreInv, StoreTypeOK
  <2> QED
    BY <1>1, <2>1, SentStays DEF OpsInv
<1>3. TaskInv'
  <2>1. CASE Shutdown
    <3>1. closed' = TRUE /\ tasks' = [id \in AskerIds |-> NoTask] /\ told' = told
      BY <1>1, <2>1 DEF Shutdown, Close
    <3>2. \A t \in told : t[2].operation = "task.cancel" => t[2].requestId \in AskerIds
      BY DEF OpsInv, TaskInv, CancelledOK
    <3> QED
      BY <3>1, <3>2 DEF TaskInv, TasksOK, CancelledOK, OnlyTheRequesterStops
  <2>2. CASE ~Shutdown
    <3>1. UNCHANGED <<tasks, told, closed>>
      BY <1>1, <2>2 DEF TimePasses, Tick, Abandoned, Abandon, Forgotten, TimerFires
    <3> QED
      BY <3>1, QuietKeepsTaskInv
  <2> QED
    BY <2>1, <2>2
<1> QED
  BY <1>1, <1>2, <1>3, QuietKeepsHeldOK DEF OpsInv

\* No envelope, handler, timer or clock breaks the invariant.
LEMMA NextKeepsOpsInv == ASSUME OpsInv, [OperationsNext]_opsVars PROVE OpsInv'
<1>1. ASSUME NEW id \in AskerIds, Build(id) \/ Start(id) \/ Decide(id) \/ Expire(id)
      PROVE  OpsInv'
  BY <1>1, BuildKeepsOpsInv, WorkKeepsOpsInv
<1>2. ASSUME NEW e \in Incoming,
             \/ ReceiveRequest(e)
             \/ \E c \in Callers : ReceiveNotification(c, e)
             \/ ReceiveStatus(e)
             \/ ReceiveCancel(e)
      PROVE  OpsInv'
  BY <1>2, RequestKeepsOpsInv, NotificationKeepsOpsInv, StatusKeepsOpsInv, CancelKeepsOpsInv
<1>3. ASSUME NEW c \in Callers, NotificationHandled(c)
      PROVE  OpsInv'
  BY <1>3, NotificationKeepsOpsInv
<1>4. CASE \/ Shutdown \/ TimePasses
           \/ \E c \in Callers : Abandoned(c)
           \/ \E k \in Keys : Forgotten(k)
  BY <1>4, EndingKeepsOpsInv
<1>5. CASE UNCHANGED opsVars
  <2>1. UNCHANGED <<vars, setting, sent, tasks>> /\ UNCHANGED <<told, closed, now, held>>
    BY <1>5 DEF opsVars, vars
  <2> QED
    BY <2>1, QuietKeepsStoreInv, QuietKeepsTaskInv, QuietKeepsSentOK, QuietKeepsHeldOK DEF OpsInv
<1> QED
  BY <1>1, <1>2, <1>3, <1>4, <1>5 DEF OperationsNext

\* The dedupe store, the envelopes and the tasks belong together at all times.
THEOREM Invariance == OperationsSpec => []OpsInv
<1>1. OperationsInit => OpsInv
  BY InitOpsInv
<1>2. OpsInv /\ [OperationsNext]_opsVars => OpsInv'
  BY NextKeepsOpsInv
<1> QED
  BY <1>1, <1>2, PTL DEF OperationsSpec

\* However often, late and in which order an operation arrives, one handler at most
\* carries it out, and everybody is told the one result.
THEOREM OneExecutionAlways == OperationsSpec => []OneExecution
<1>1. OpsInv => OneExecution
  BY StoreInvImplies DEF OpsInv
<1> QED
  BY <1>1, Invariance, PTL

\* An answered operation is known until no retry of it can be let through.
THEOREM AnsweredIsKnownAlways == OperationsSpec => []AnsweredIsKnown
<1>1. OpsInv => AnsweredIsKnown
  BY DEF OpsInv, StoreInv
<1> QED
  BY <1>1, Invariance, PTL

\* Whoever else sends the same, only the requester of a task has it stopped.
THEOREM OnlyTheRequesterStopsAlways == OperationsSpec => []OnlyTheRequesterStops
<1>1. OpsInv => OnlyTheRequesterStops
  BY DEF OpsInv, TaskInv
<1> QED
  BY <1>1, Invariance, PTL

\* The marks are not among the values of the fields of what a router builds.
LEMMA MarksFacts ==
    ASSUME NEW mark \in {Missing, Malformed}
    PROVE  /\ \A n \in Int : mark # n
           /\ \A id \in AskerIds : mark # id
           /\ mark # Asker /\ mark # Answerer /\ mark # Room
           /\ \A payload \in Payloads : mark # payload
           /\ \A text \in OperationNames \cup {"1.0", "text", "json", "schema"} : mark # text
           /\ Missing # Malformed
<1>1. /\ Missing # Malformed
      /\ mark \notin Int
      /\ mark \notin Ids \cup Runtimes \cup {Room}
      /\ mark \notin OperationNames \cup Contents \cup {"1.0", "schema"}
  BY MarksAssumption
<1>2. \A text \in OperationNames \cup {"1.0", "text", "json", "schema"} : mark # text
  BY <1>1 DEF Contents
<1>3. AskerIds \subseteq Ids /\ Asker \in Runtimes /\ Answerer \in Runtimes /\ mark \notin Payloads
  BY NamesAssumption
<1> QED
  BY <1>1, <1>2, <1>3

\* validateEnvelope of what a router has built, at a router whose clock is off by no more
\* than the tolerance: it expires, and that is all that can be wrong with it.
LEMMA SoundIsUnderstood ==
    ASSUME setting \in Settings, now \in Nat, NEW e \in Fields({Asker}), Sound(e)
    PROVE  /\ AuthorizationIssue(e, Answerer, Asker) = "none"
           /\ Issue(e, now) = IF now < e.expiresAt THEN "none" ELSE "expired"
<1>1. /\ e.protocolVersion = "1.0" /\ e.operation \in OperationNames \ {"message.reply"}
      /\ e.operationId \in AskerIds /\ e.requestId \in AskerIds \cup {Missing}
      /\ e.sender = Asker /\ e.recipientRuntimeId = Answerer /\ e.roomId = Room
      /\ e.createdAt \in Int /\ e.expiresAt \in Int /\ e.parentOperationId = Missing
      /\ e.payload \in Payloads
  BY DEF Fields
<1>2. AuthorizationIssue(e, Answerer, Asker) = "none"
  BY <1>1 DEF AuthorizationIssue
<1>3. \A field \in Required : e[field] # Missing
  <2>1. /\ e.protocolVersion # Missing /\ e.operation # Missing /\ e.operationId # Missing
        /\ e.sender # Missing /\ e.recipientRuntimeId # Missing /\ e.roomId # Missing
        /\ e.createdAt # Missing /\ e.expiresAt # Missing /\ e.payload # Missing
    BY <1>1, MarksFacts
  <2> QED
    BY <2>1 DEF Required
<1>4. WellFormed(e, now)
  <2>1. IdsMatch(e)
    BY <1>1, NamesAssumption DEF IdsMatch, Sound, OperationNames, Control
  <2>2. Dated(e, now)
    <3>1. PICK n \in 0..LastBuild : n <= now /\ e.createdAt = n + offset
      BY DEF Sound
    <3>2. /\ e.createdAt < e.expiresAt
          /\ e.expiresAt - e.createdAt <= MaxTtl(e.operation)
      BY <1>1, SettingFacts DEF Sound
    <3>3. e.createdAt <= now + MaxSkew
      BY <3>1, SettingFacts
    <3> QED
      BY <1>1, <3>2, <3>3 DEF Dated
  <2>3. e.roomId # Malformed
    BY <1>1, MarksFacts
  <2> QED
    BY <1>1, <2>1, <2>2, <2>3, NamesAssumption DEF WellFormed
<1>5. /\ e.protocolVersion # Malformed /\ e.operation # Malformed /\ e.payload # Malformed
  BY <1>1, MarksFacts
<1>6. PayloadIssue(e.operation, e.payload) = "none"
  <2>1. /\ e.payload.option = Missing /\ Missing # Malformed
        /\ e.payload.contract \in {"schema", Missing}
        /\ e.payload.contract # Malformed /\ e.payload.contract # "text"
    BY <1>1, MarksFacts DEF Payloads
  <2>2. ASSUME e.payload.content \in {"text", "json"}
        PROVE  ContentIssue(e.payload.content) = "none"
    BY <2>2, MarksFacts DEF ContentIssue, Contents
  <2>3. CASE e.operation = "message.request"
    BY <2>1, <2>2, <2>3 DEF PayloadIssue, Sound
  <2>4. CASE e.operation = "message.notify"
    BY <2>1, <2>2, <2>4 DEF PayloadIssue, Sound
  <2>5. CASE e.operation = "peer.describe"
    BY <2>1, <2>5 DEF PayloadIssue
  <2>6. CASE e.operation \in {"task.status", "task.cancel"}
    BY <2>1, <2>6 DEF PayloadIssue
  <2> QED
    BY <1>1, <2>3, <2>4, <2>5, <2>6 DEF OperationNames, Control
<1>7. Issue(e, now) = IF now < e.expiresAt THEN "none" ELSE "expired"
  BY <1>1, <1>3, <1>4, <1>5, <1>6 DEF Issue
<1> QED
  BY <1>2, <1>7

\* What a runtime builds is let in by another one until its deadline, whatever their
\* clocks, within the tolerance, and however late it arrives.
THEOREM OursAreUnderstoodAlways == OperationsSpec => []OursAreUnderstood
<1>1. OpsInv => OursAreUnderstood
  <2>1. ASSUME OpsInv, NEW e \in sent
        PROVE  /\ AuthorizationIssue(e, Answerer, Asker) = "none"
               /\ Issue(e, now) = IF now < e.expiresAt THEN "none" ELSE "expired"
    BY <2>1, SoundIsUnderstood DEF OpsInv, SentOK, StoreInv, StoreTypeOK
  <2> QED
    BY <2>1 DEF OursAreUnderstood
<1> QED
  BY <1>1, Invariance, PTL
-----------------------------------------------------------------------------
(* What the asker is told.                                                 *)

\* What may be shown of a task, of the record as of its snapshot: the times are in order,
\* and what is stamped with the time of the answerer is not in the future.
Presentable(s) ==
    /\ s.requestId \in Ids
    /\ s.state \in TaskState
    /\ {s.createdAt, s.updatedAt, s.expiresAt} \subseteq Int
    /\ s.expiresAt - s.createdAt \in 1..MaxRequestTtl
    /\ s.createdAt <= AskerNow
    /\ s.createdAt <= s.updatedAt
    /\ s.updatedAt = s.createdAt \/ s.updatedAt <= now
    /\ s.updatedAt <= s.expiresAt \/ s.state = "expired"
    /\ s.requestedAt # Missing =>
          /\ s.requestedAt \in Int
          /\ s.requestedAt <= now /\ s.requestedAt <= s.expiresAt
          /\ s.createdAt <= s.requestedAt \/ offset > 0
    /\ s.error \in Errors \cup {Missing}
    /\ s.content \in Contents \cup {Missing}
    /\ s.error = Missing \/ s.content = Missing

\* The times of a record are those at which its request was built and something happened.
Stamped(t) ==
    /\ \E n \in 0..LastBuild : t.createdAt = n + offset
    /\ t.updatedAt = t.createdAt \/ t.updatedAt \in 0..MaxNow
    /\ t.requestedAt \in 0..MaxNow \cup {Missing}

\* A task that is not decided has nothing to tell, a cancelled one neither, and a completed
\* one what the contract allows.
TaskSound(t) ==
    /\ Presentable(t) /\ Stamped(t)
    /\ t.state # "created"
    /\ t.content # Missing => t.state = "completed"
    /\ IsActive(t.state) => t.content = Missing /\ t.error = Missing
    /\ t.state = "cancelled" =>
          t.content = Missing /\ t.error \in {Missing, ProtocolError("cancelled")}
    /\ t.state = "completed" => t.content \in Contents /\ Fits(t.content, t.contract)

TasksSound ==
    \A id \in AskerIds, t \in TaskRecord :
        tasks[id] = t => t.requestId = id /\ TaskSound(t)

\* A reply is one that sendTerminalReply builds, which ends with its request.
ReplyRecord ==
    [protocolVersion : {"1.0"}, operation : {"message.reply"}, operationId : {ReplyId},
     requestId : AskerIds, sender : {Answerer}, recipientRuntimeId : {Asker, Stranger},
     roomId : {Room}, createdAt : Int, expiresAt : Int, parentOperationId : AskerIds,
     payload : ReplyPayloads]

ReplyForm(r) ==
    /\ r \in ReplyRecord
    /\ r.createdAt < r.expiresAt
    /\ r.createdAt <= now
    /\ r.expiresAt - r.createdAt <= MaxRequestTtl \/ offset > 0
    /\ PayloadIssue("message.reply", r.payload) = "none"

\* Its task is there, until the router closes, and has the contract that it fits.
ReplySound(r) ==
    /\ ReplyForm(r)
    /\ closed \/ tasks[r.requestId] # NoTask
    /\ tasks[r.requestId] # NoTask /\ r.payload.outcome = "completed" =>
          Fits(r.payload.content, tasks[r.requestId].contract)

RepliesSound == \A r \in replies : ReplySound(r)

\* What anybody was told, and the dedupe store will replay, answers the operation of its
\* print.
ResultSound(k, p, result) ==
    /\ result \in Results
    /\ \/ /\ p.operation = "message.request" /\ p.requestId = k[2]
          /\ \E state \in AdmissionStates :
                /\ result = Admission(k[2], state)
                /\ state = "expired" => p.expiresAt \in Int /\ now + 1 >= p.expiresAt
       \/ p.operation = "message.notify" /\ result \in {Delivered, Failed}
       \/ /\ p.operation = "task.cancel" /\ Presentable(result)
          /\ result.terminalOutcome = IF IsTerminal(result.state) THEN result.state ELSE Missing

ToldSound == \A t \in told : ResultSound(t[1], t[2], t[3])

\* The invariant of the answers.
AnswerInv == now \in 0..MaxNow /\ TasksSound /\ RepliesSound /\ ToldSound

-----------------------------------------------------------------------------
\* The marks are not among the answers, and errors are errors.
LEMMA AnswerFacts ==
    /\ Delivered # Missing
    /\ \A id \in AskerIds, state \in AdmissionStates : Admission(id, state) # Missing
    /\ \A error \in Errors : error # Missing /\ IsError(error)
    /\ \A payload \in ReplyPayloads : payload # Missing /\ payload # Malformed
    /\ \A content \in Contents : content # Missing /\ ContentIssue(content) = "none"
    /\ \A code \in {"expired", "internal", "malformed", "cancelled"} : ProtocolError(code) \in Errors
<1>1. ASSUME NEW code \in ErrorCodes PROVE IsError(ProtocolError(code))
  <2>1. ProtocolError(code) \notin {Missing, Malformed}
    BY AnswersAssumption DEF Errors
  <2>2. /\ ProtocolError(code).code = code
        /\ ProtocolError(code).retryable = Retryable(code)
        /\ ProtocolError(code).retryAfterMs = Missing
    BY DEF ProtocolError
  <2> QED
    BY <2>1, <2>2 DEF IsError
<1>2. \A error \in Errors : error # Missing /\ IsError(error)
  BY <1>1, AnswersAssumption DEF Errors
<1>3. Delivered # Missing
  BY AnswersAssumption
<1>4. \A id \in AskerIds, state \in AdmissionStates : Admission(id, state) # Missing
  BY AnswersAssumption, NamesAssumption
<1>5. \A payload \in ReplyPayloads : payload # Missing /\ payload # Malformed
  BY AnswersAssumption
<1>6. \A content \in Contents : content # Missing /\ ContentIssue(content) = "none"
  BY MarksAssumption DEF ContentIssue
<1>7. \A code \in {"expired", "internal", "malformed", "cancelled"} : ProtocolError(code) \in Errors
  BY DEF Errors, ErrorCodes
<1> QED
  BY <1>2, <1>3, <1>4, <1>5, <1>6, <1>7

\* validateTaskSnapshotInternal of what may be shown of a task, at an asker whose clock is
\* off by no more than the tolerance.
LEMMA PresentableIsUnderstood ==
    ASSUME setting \in Settings, now \in Nat, NEW s, Presentable(s),
           s.terminalOutcome = IF IsTerminal(s.state) THEN s.state ELSE Missing
    PROVE  SnapshotUnderstood(s)
<1>1. /\ AskerNow \in Int /\ now <= AskerNow + MaxSkew /\ MaxSkew \in Nat
      /\ MaxRequestTtl \in Nat
  BY SettingFacts, LimitsAssumption DEF AskerNow
<1>2. /\ s.createdAt \in Int /\ s.updatedAt \in Int /\ s.expiresAt \in Int
      /\ s.createdAt <= s.updatedAt
      /\ s.createdAt < s.expiresAt /\ s.expiresAt - s.createdAt <= MaxRequestTtl
      /\ s.createdAt <= AskerNow + MaxSkew /\ s.updatedAt <= AskerNow + MaxSkew
  BY <1>1 DEF Presentable
<1>3. ~ \/ s.requestId \notin Ids \/ s.state \notin TaskState
        \/ s.updatedAt < s.createdAt
        \/ s.expiresAt <= s.createdAt
        \/ s.expiresAt - s.createdAt > MaxRequestTtl
        \/ s.createdAt > AskerNow + MaxSkew \/ s.updatedAt > AskerNow + MaxSkew
  <2>1. s.requestId \in Ids /\ s.state \in TaskState
    BY DEF Presentable
  <2> QED
    BY <1>1, <1>2, <2>1
<1>4. ~(s.updatedAt > s.expiresAt /\ s.state # "expired")
  BY <1>2 DEF Presentable
<1>5. ~(s.error # Missing /\ (~IsError(s.error) \/ s.content # Missing))
  BY AnswerFacts DEF Presentable
<1>6. ContentIssue(s.content) = "none" \/ s.content = Missing
  BY AnswerFacts DEF Presentable
<1>7. CASE s.requestedAt # Missing /\ offset > 0
  BY <1>7 DEF SnapshotUnderstood
<1>8. CASE ~(s.requestedAt # Missing /\ offset > 0)
  <2>1. s.requestedAt # Missing =>
            /\ s.requestedAt >= s.createdAt /\ s.requestedAt <= AskerNow + MaxSkew
            /\ s.requestedAt <= s.expiresAt
    BY <1>1, <1>2, <1>8 DEF Presentable
  <2>2. ~ \/ s.updatedAt > s.expiresAt /\ s.state # "expired"
          \/ /\ s.requestedAt # Missing
             /\ ~(s.requestedAt >= s.createdAt /\ s.requestedAt <= AskerNow + MaxSkew
                     /\ s.requestedAt <= s.expiresAt)
          \/ s.terminalOutcome # (IF IsTerminal(s.state) THEN s.state ELSE Missing)
          \/ s.error # Missing /\ (~IsError(s.error) \/ s.content # Missing)
    BY <1>4, <1>5, <2>1
  <2>3. CASE AskerNow < s.expiresAt
    <3>1. SnapshotIssue(s, AskerNow, s.requestId) = "none"
      <4>1. ~(s.expiresAt <= AskerNow)
        BY <1>1, <1>2, <2>3
      <4> QED
        BY <1>3, <1>6, <2>2, <4>1 DEF SnapshotIssue
    <3> QED
      BY <2>3, <3>1 DEF SnapshotUnderstood
  <2>4. CASE ~(AskerNow < s.expiresAt)
    <3>1. SnapshotIssue(s, AskerNow, s.requestId) = "expired"
      <4>1. s.expiresAt <= AskerNow
        BY <1>1, <1>2, <2>4
      <4> QED
        BY <1>3, <4>1 DEF SnapshotIssue
    <3> QED
      BY <2>4, <3>1 DEF SnapshotUnderstood
  <2> QED
    BY <2>3, <2>4
<1> QED
  BY <1>7, <1>8

\* A snapshot shows what the record says (buildSnapshot).
LEMMA SnapshotFacts ==
    ASSUME NEW t, Presentable(t)
    PROVE  /\ Presentable(Snapshot(t))
           /\ Snapshot(t).requestId = t.requestId
           /\ Snapshot(t).terminalOutcome =
                 IF IsTerminal(Snapshot(t).state) THEN Snapshot(t).state ELSE Missing
BY DEF Presentable, Snapshot

\* What was sound of a task stays so as time passes.
LEMMA SoundStays ==
    ASSUME setting \in Settings, now \in Nat, now' \in Nat, now <= now', UNCHANGED setting
    PROVE  /\ \A s : Presentable(s) => Presentable(s)'
           /\ \A t : TaskSound(t) => TaskSound(t)'
           /\ \A r : ReplyForm(r) => ReplyForm(r)'
<1>1. /\ AskerNow <= AskerNow' /\ offset' = offset
      /\ AskerNow \in Int /\ AskerNow' \in Int
  BY SettingFacts DEF AskerNow, offset
<1>2. ASSUME NEW s, Presentable(s) PROVE Presentable(s)'
  BY <1>1, <1>2 DEF Presentable
<1>3. ASSUME NEW r, ReplyForm(r) PROVE ReplyForm(r)'
  BY <1>1, <1>3 DEF ReplyForm, ReplyRecord
<1>4. ASSUME NEW t, Stamped(t) PROVE Stamped(t)'
  BY <1>1, <1>4 DEF Stamped
<1> QED
  BY <1>2, <1>3, <1>4 DEF TaskSound

\* A record that is stamped in time keeps its times in order (nextUpdatedAt).
LEMMA MovedIsPresentable ==
    ASSUME setting \in Settings, now \in 0..MaxNow, NEW t \in TaskRecord,
           Presentable(t), Stamped(t), NEW to \in TaskState,
           (now < t.expiresAt /\ t.updatedAt <= t.expiresAt) \/ to = "expired"
    PROVE  LET u == Moved(t, to)
           IN /\ Presentable(u) /\ Stamped(u) /\ u.state = to /\ u \in TaskRecord
              /\ u.requestId = t.requestId /\ u.contract = t.contract
              /\ u.content = t.content /\ u.error = t.error
              /\ u.createdAt = t.createdAt /\ u.expiresAt = t.expiresAt
<1>1. /\ Stamp(t) \in Int /\ Stamp(t) >= t.updatedAt /\ t.updatedAt \in Int /\ t.expiresAt \in Int
      /\ Stamp(t) = t.updatedAt \/ Stamp(t) = now
  BY DEF Stamp, Presentable
<1>2. Moved(t, to) = [t EXCEPT !.state = to, !.updatedAt = Stamp(t)]
  BY DEF Moved
<1>3. Moved(t, to) \in TaskRecord
  BY <1>1, <1>2 DEF TaskRecord
<1>4. /\ Moved(t, to).state = to /\ Moved(t, to).updatedAt = Stamp(t)
      /\ Moved(t, to).requestId = t.requestId /\ Moved(t, to).createdAt = t.createdAt
      /\ Moved(t, to).expiresAt = t.expiresAt /\ Moved(t, to).requestedAt = t.requestedAt
      /\ Moved(t, to).content = t.content /\ Moved(t, to).error = t.error
      /\ Moved(t, to).contract = t.contract
  BY <1>2 DEF TaskRecord
<1>5. /\ Stamp(t) = t.createdAt \/ Stamp(t) <= now
      /\ Stamp(t) <= t.expiresAt \/ to = "expired"
      /\ t.createdAt <= Stamp(t)
  BY <1>1 DEF Presentable
<1>6. Presentable(Moved(t, to)) /\ Stamped(Moved(t, to))
  <2> HIDE DEF Moved
  <2>1. Presentable(Moved(t, to))
    BY <1>1, <1>4, <1>5 DEF Presentable
  <2>2. Stamped(Moved(t, to))
    BY <1>1, <1>4 DEF Stamped
  <2> QED
    BY <2>1, <2>2
<1> QED
  BY <1>3, <1>4, <1>6

\* Whatever happens to a sound record, it stays sound, and what its contract is.
Follows(t, u) == /\ u \in TaskRecord /\ TaskSound(u)
                 /\ u.requestId = t.requestId /\ u.contract = t.contract

LEMMA FollowsFacts ==
    ASSUME setting \in Settings, now \in 0..MaxNow, NEW t \in TaskRecord, TaskSound(t)
    PROVE  /\ Follows(t, UpToDate(t))
           /\ IsActive(UpToDate(t).state) => now < UpToDate(t).expiresAt
           /\ IsActive(t.state) /\ now < t.expiresAt =>
                 /\ Follows(t, Moved(t, "working"))
                 /\ Follows(t, Stopped(t)) /\ Stopped(t).state \in {"cancelling", "cancelled"}
                 /\ \A u \in Endings(t) : Follows(t, u)
<1>0. /\ t.expiresAt \in Int /\ t.updatedAt \in Int
      /\ "completed" \notin ActiveStates /\ "expired" \notin ActiveStates
      /\ {"working", "cancelling", "cancelled", "failed", "rejected", "completed", "expired"}
             \subseteq TaskState
  BY DEF TaskRecord, ActiveStates, TaskState, TerminalOutcomes
<1>1. ASSUME IsActive(t.state), NEW to \in TaskState, now < t.expiresAt \/ to = "expired"
      PROVE  LET u == Moved(t, to)
             IN /\ Presentable(u) /\ Stamped(u) /\ u.state = to /\ u \in TaskRecord
                /\ u.requestId = t.requestId /\ u.contract = t.contract
                /\ u.content = Missing /\ u.error = Missing
                /\ u.createdAt = t.createdAt /\ u.expiresAt = t.expiresAt
  <2>1. Presentable(t) /\ Stamped(t) /\ t.content = Missing /\ t.error = Missing /\ t.state # "expired"
    BY <1>0, <1>1 DEF TaskSound, IsActive
  <2>2. t.updatedAt <= t.expiresAt
    BY <2>1 DEF Presentable
  <2> QED
    BY <1>1, <2>1, <2>2, MovedIsPresentable
<1>2. ASSUME IsActive(t.state), NEW to \in TaskState \ {"completed", "created"},
             now < t.expiresAt \/ to = "expired"
      PROVE  /\ Follows(t, Moved(t, to))
             /\ ~IsActive(to) => \A error \in Errors :
                    (to = "cancelled" => error = ProtocolError("cancelled"))
                        => Follows(t, [Moved(t, to) EXCEPT !.error = error])
  <2> DEFINE u == Moved(t, to)
  <2>1. /\ Presentable(u) /\ Stamped(u) /\ u.state = to /\ u \in TaskRecord
        /\ u.requestId = t.requestId /\ u.contract = t.contract
        /\ u.content = Missing /\ u.error = Missing
    BY <1>1, <1>2
  <2> HIDE DEF u
  <2>2. Follows(t, u)
    BY <1>2, <2>1 DEF Follows, TaskSound
  <2>3. ASSUME ~IsActive(to), NEW error \in Errors,
               to = "cancelled" => error = ProtocolError("cancelled")
        PROVE  Follows(t, [u EXCEPT !.error = error])
    <3> DEFINE v == [u EXCEPT !.error = error]
    <3>1. /\ v \in TaskRecord /\ v.error = error
          /\ v.requestId = u.requestId /\ v.contract = u.contract /\ v.state = u.state
          /\ v.content = u.content /\ v.createdAt = u.createdAt /\ v.updatedAt = u.updatedAt
          /\ v.expiresAt = u.expiresAt /\ v.requestedAt = u.requestedAt
      BY <2>1 DEF TaskRecord
    <3> HIDE DEF v
    <3>2. Presentable(v) /\ Stamped(v)
      BY <2>1, <2>3, <3>1 DEF Presentable, Stamped
    <3>3. TaskSound(v)
      BY <1>2, <2>1, <2>3, <3>1, <3>2 DEF TaskSound
    <3> QED
      BY <2>1, <3>1, <3>3 DEF Follows, v
  <2> QED
    BY <2>2, <2>3 DEF u
<1>3. IsActive(t.state) /\ now < t.expiresAt => \A u \in Endings(t) : Follows(t, u)
  <2> SUFFICES ASSUME IsActive(t.state), now < t.expiresAt, NEW u \in Endings(t)
               PROVE  Follows(t, u)
    OBVIOUS
  <2>1. CASE \E content \in Contents : Fits(content, t.contract)
                /\ u = [Moved(t, "completed") EXCEPT !.content = content]
    <3>1. PICK content \in Contents : Fits(content, t.contract)
                /\ u = [Moved(t, "completed") EXCEPT !.content = content]
      BY <2>1
    <3> DEFINE w == Moved(t, "completed")
    <3>2. /\ Presentable(w) /\ Stamped(w) /\ w.state = "completed" /\ w \in TaskRecord
          /\ w.requestId = t.requestId /\ w.contract = t.contract
          /\ w.content = Missing /\ w.error = Missing
      BY <1>0, <1>1
    <3>3. u = [w EXCEPT !.content = content]
      BY <3>1
    <3> HIDE DEF w
    <3>4. /\ u \in TaskRecord /\ u.content = content
          /\ u.requestId = w.requestId /\ u.contract = w.contract /\ u.state = w.state
          /\ u.error = w.error /\ u.createdAt = w.createdAt /\ u.updatedAt = w.updatedAt
          /\ u.expiresAt = w.expiresAt /\ u.requestedAt = w.requestedAt
      BY <3>2, <3>3 DEF TaskRecord
    <3>5. Presentable(u) /\ Stamped(u)
      BY <3>2, <3>4 DEF Presentable, Stamped
    <3>6. TaskSound(u)
      BY <1>0, <3>1, <3>2, <3>4, <3>5 DEF TaskSound, IsActive
    <3> QED
      BY <3>2, <3>4, <3>6 DEF Follows
  <2>2. CASE \E outcome \in {"failed", "rejected"} :
                u = [Moved(t, outcome) EXCEPT !.error = ProtocolError("internal")]
    <3>1. PICK outcome \in {"failed", "rejected"} :
                u = [Moved(t, outcome) EXCEPT !.error = ProtocolError("internal")]
      BY <2>2
    <3>2. ~IsActive(outcome) /\ ProtocolError("internal") \in Errors
      BY AnswerFacts DEF IsActive, ActiveStates
    <3> QED
      BY <1>0, <1>2, <3>1, <3>2
  <2>3. CASE u = [Moved(t, "cancelled") EXCEPT !.error = ProtocolError("cancelled")]
    <3>1. ~IsActive("cancelled") /\ ProtocolError("cancelled") \in Errors
      BY AnswerFacts DEF IsActive, ActiveStates
    <3> QED
      BY <1>0, <1>2, <2>3, <3>1
  <2> QED
    BY <2>1, <2>2, <2>3 DEF Endings
<1>4. IsActive(t.state) /\ now < t.expiresAt =>
          Follows(t, Stopped(t)) /\ Stopped(t).state \in {"cancelling", "cancelled"}
  <2> SUFFICES ASSUME IsActive(t.state), now < t.expiresAt
               PROVE  Follows(t, Stopped(t)) /\ Stopped(t).state \in {"cancelling", "cancelled"}
    OBVIOUS
  <2>1. PICK to \in {"cancelling", "cancelled"} : Stopped(t) = [Moved(t, to) EXCEPT !.requestedAt = now]
    BY DEF Stopped, CancelTarget
  <2> DEFINE w == Moved(t, to)
             u == Stopped(t)
  <2>2. /\ Presentable(w) /\ Stamped(w) /\ w.state = to /\ w \in TaskRecord
        /\ w.requestId = t.requestId /\ w.contract = t.contract
        /\ w.content = Missing /\ w.error = Missing
        /\ w.createdAt = t.createdAt /\ w.expiresAt = t.expiresAt
    BY <1>0, <1>1
  <2>3. u = [w EXCEPT !.requestedAt = now]
    BY <2>1
  <2> HIDE DEF w, u
  <2>4. /\ u \in TaskRecord /\ u.requestedAt = now
        /\ u.requestId = w.requestId /\ u.contract = w.contract /\ u.state = w.state
        /\ u.content = w.content /\ u.error = w.error /\ u.createdAt = w.createdAt
        /\ u.updatedAt = w.updatedAt /\ u.expiresAt = w.expiresAt
    BY <2>2, <2>3 DEF TaskRecord
  <2>5. /\ now \in Int /\ now <= u.expiresAt
        /\ u.createdAt <= now \/ offset > 0
    <3>1. t.createdAt <= now + offset /\ t.createdAt \in Int /\ offset \in Int
      BY SettingFacts DEF TaskSound, Presentable, AskerNow
    <3> QED
      BY <1>0, <2>2, <2>4, <3>1
  <2>6. Presentable(u) /\ Stamped(u)
    BY <2>2, <2>4, <2>5 DEF Presentable, Stamped
  <2>7. TaskSound(u)
    BY <2>2, <2>4, <2>6 DEF TaskSound
  <2> QED
    BY <2>2, <2>4, <2>7 DEF Follows, u
<1>5. /\ Follows(t, UpToDate(t))
      /\ IsActive(UpToDate(t).state) => now < UpToDate(t).expiresAt
  <2>1. CASE IsActive(t.state) /\ now >= t.expiresAt
    <3>1. UpToDate(t) = [Moved(t, "expired") EXCEPT !.error = ProtocolError("expired")]
      BY <2>1 DEF UpToDate
    <3>2. ~IsActive("expired") /\ ProtocolError("expired") \in Errors
      BY <1>0, AnswerFacts DEF IsActive
    <3>3. Follows(t, UpToDate(t))
      BY <1>0, <1>2, <2>1, <3>1, <3>2
    <3>4. UpToDate(t).state = "expired"
      BY <1>0, <1>1, <2>1, <3>1 DEF TaskRecord
    <3> QED
      BY <3>2, <3>3, <3>4
  <2>2. CASE ~(IsActive(t.state) /\ now >= t.expiresAt)
    BY <1>0, <2>2 DEF UpToDate, Follows
  <2> QED
    BY <2>1, <2>2
<1>6. IsActive(t.state) /\ now < t.expiresAt => Follows(t, Moved(t, "working"))
  BY <1>0, <1>2
<1> QED
  BY <1>3, <1>4, <1>5, <1>6

\* A terminal reply can be sent in the time of its request, says how the task ended, and
\* fits the contract (sendTerminalReply).
LEMMA ReplyFacts ==
    ASSUME setting \in Settings, now \in Nat, NEW t \in TaskRecord, TaskSound(t), NEW r \in ReplyTo(t)
    PROVE  /\ ReplyForm(r) /\ r.requestId = t.requestId
           /\ r.payload.outcome = "completed" => Fits(r.payload.content, t.contract)
<1> DEFINE request == [operationId |-> t.requestId, sender |-> t.requester,
                       recipientRuntimeId |-> Answerer, expiresAt |-> t.expiresAt]
           payload == ReplyPayload(Snapshot(t))
<1>1. IsTerminal(t.state) /\ now < t.expiresAt /\ r = ReplyEnvelope(ReplyId, request, Snapshot(t), now)
  BY DEF ReplyTo
<1>2. /\ t.expiresAt \in Int /\ t.createdAt \in Int /\ t.requestId \in AskerIds
      /\ t.requester \in {Asker, Stranger} /\ t.state \in TerminalOutcomes
  BY <1>1 DEF TaskRecord, IsTerminal
<1>3. SmallerOf(now, request.expiresAt - 1) = now
  BY <1>1, <1>2 DEF SmallerOf
<1>4. /\ Snapshot(t).state = t.state /\ Snapshot(t).content = t.content
      /\ Snapshot(t).error = t.error
  BY DEF Snapshot
<1>5. /\ payload \in ReplyPayloads /\ PayloadIssue("message.reply", payload) = "none"
      /\ payload.outcome = "completed" => Fits(payload.content, t.contract)
  <2>1. CASE t.state = "completed"
    <3>1. t.content \in Contents /\ Fits(t.content, t.contract) /\ t.content # Missing
      BY <2>1, AnswerFacts DEF TaskSound
    <3>2. payload = [EmptyPayload EXCEPT !.outcome = "completed", !.content = t.content]
      BY <1>4, <2>1, <3>1 DEF ReplyPayload
    <3>3. /\ payload.content = t.content /\ payload.outcome = "completed"
          /\ payload.error = Missing /\ payload \in ReplyPayloads
      BY <3>1, <3>2 DEF EmptyPayload, ReplyPayloads, TerminalOutcomes
    <3>4. PayloadIssue("message.reply", payload) = "none"
      <4> HIDE DEF payload
      <4> QED
        BY <3>1, <3>3, AnswerFacts DEF PayloadIssue
    <3> QED
      BY <3>1, <3>3, <3>4
  <2>2. CASE t.state # "completed"
    <3>1. PICK error \in Errors :
              payload = [EmptyPayload EXCEPT !.outcome = t.state, !.error = error]
      <4>1. CASE t.error = Missing
        <5>1. OwnCode(t.state) \in {"expired", "internal", "malformed", "cancelled"}
          BY <1>2, <2>2 DEF OwnCode, TerminalOutcomes
        <5>2. payload = [EmptyPayload EXCEPT !.outcome = t.state, !.error = ProtocolError(OwnCode(t.state))]
          BY <1>4, <2>2, <4>1 DEF ReplyPayload
        <5> QED
          BY <5>1, <5>2, AnswerFacts
      <4>2. CASE t.error # Missing
        <5>1. payload = [EmptyPayload EXCEPT !.outcome = t.state, !.error = t.error]
          BY <1>4, <2>2, <4>2 DEF ReplyPayload
        <5> QED
          BY <4>2, <5>1 DEF TaskRecord
      <4> QED
        BY <4>1, <4>2
    <3>2. /\ payload.content = Missing /\ payload.outcome = t.state
          /\ payload.error = error /\ payload \in ReplyPayloads
      BY <1>2, <3>1 DEF EmptyPayload, ReplyPayloads
    <3>3. PayloadIssue("message.reply", payload) = "none"
      <4> HIDE DEF payload
      <4>1. error # Missing /\ IsError(error)
        BY AnswerFacts
      <4>2. IsRefusal(payload)
        BY <1>2, <3>2, <4>1 DEF IsRefusal
      <4> QED
        BY <2>2, <3>2, <4>2 DEF PayloadIssue
    <3> QED
      BY <2>2, <3>2, <3>3
  <2> QED
    BY <2>1, <2>2
<1> HIDE DEF payload
<1>6. /\ r \in ReplyRecord /\ r.requestId = t.requestId /\ r.payload = payload
      /\ r.createdAt = now /\ r.expiresAt = t.expiresAt
  BY <1>1, <1>2, <1>3, <1>5 DEF ReplyEnvelope, ReplyRecord, payload
<1>7. r.expiresAt - r.createdAt <= MaxRequestTtl \/ offset > 0
  <2>1. /\ t.createdAt <= now + offset /\ offset \in Int
        /\ t.expiresAt - t.createdAt <= MaxRequestTtl /\ MaxRequestTtl \in Nat
    BY SettingFacts, LimitsAssumption DEF TaskSound, Presentable, AskerNow
  <2> QED
    BY <1>2, <1>6, <2>1
<1>8. r.createdAt < r.expiresAt /\ r.createdAt <= now
  BY <1>1, <1>6
<1> QED
  BY <1>5, <1>6, <1>7, <1>8 DEF ReplyForm

\* processMessageReply of such a reply, at an asker whose clock is off by no more than
\* the tolerance.
LEMMA ReplyIsUnderstood ==
    ASSUME setting \in Settings, now \in Nat, NEW r, ReplySound(r), r.recipientRuntimeId = Asker
    PROVE  ReplyUnderstood(r)
<1>1. /\ r.protocolVersion = "1.0" /\ r.operation = "message.reply" /\ r.operationId = ReplyId
      /\ r.requestId \in AskerIds /\ r.sender = Answerer /\ r.roomId = Room
      /\ r.createdAt \in Int /\ r.expiresAt \in Int /\ r.parentOperationId \in AskerIds
      /\ r.payload \in ReplyPayloads
  BY DEF ReplySound, ReplyForm, ReplyRecord
<1>2. AuthorizationIssue(r, Asker, Answerer) = "none"
  BY <1>1 DEF AuthorizationIssue
<1>3. /\ ReplyId \in Ids \ AskerIds /\ AskerIds \subseteq Ids
      /\ {Asker, Answerer} \subseteq Runtimes
  BY NamesAssumption
<1>4. \A field \in Required : r[field] # Missing
  <2>1. /\ r.protocolVersion # Missing /\ r.sender # Missing /\ r.recipientRuntimeId # Missing
        /\ r.roomId # Missing /\ r.createdAt # Missing /\ r.expiresAt # Missing
    BY <1>1, MarksFacts
  <2>2. r.payload # Missing
    BY <1>1, AnswerFacts
  <2>3. r.operation # Missing /\ r.operationId # Missing
    BY <1>1, <1>3, MarksAssumption DEF OperationNames
  <2> QED
    BY <2>1, <2>2, <2>3 DEF Required
<1>5. /\ r.protocolVersion # Malformed /\ r.operation # Malformed /\ r.payload # Malformed
      /\ r.roomId # Malformed
  BY <1>1, MarksFacts, AnswerFacts, MarksAssumption DEF OperationNames
<1>6. CASE r.expiresAt - r.createdAt <= MaxRequestTtl
  <2>1. WellFormed(r, AskerNow)
    <3>1. IdsMatch(r)
      BY <1>1, <1>3 DEF IdsMatch
    <3>2. Dated(r, AskerNow)
      <4>1. r.createdAt <= now /\ r.createdAt < r.expiresAt
        BY DEF ReplySound, ReplyForm
      <4>2. MaxTtl(r.operation) = MaxRequestTtl
        BY <1>1 DEF MaxTtl, Control
      <4>3. r.createdAt <= AskerNow + MaxSkew
        BY <1>1, <4>1, SettingFacts DEF AskerNow
      <4> QED
        BY <1>1, <1>6, <4>1, <4>2, <4>3 DEF Dated
    <3> QED
      BY <1>1, <1>3, <1>5, <3>1, <3>2 DEF WellFormed
  <2>2. PayloadIssue(r.operation, r.payload) = "none"
    BY <1>1 DEF ReplySound, ReplyForm
  <2>3. AskerNow \in Int /\ r.operation \in OperationNames
    BY <1>1, SettingFacts DEF AskerNow, OperationNames
  <2>4. Issue(r, AskerNow) = IF AskerNow < r.expiresAt THEN "none" ELSE "expired"
    BY <1>1, <1>4, <1>5, <2>1, <2>2, <2>3 DEF Issue
  <2> QED
    BY <1>2, <2>4 DEF ReplyUnderstood, ReplySound
<1>7. CASE ~(r.expiresAt - r.createdAt <= MaxRequestTtl)
  <2>1. offset > 0 /\ MaxRequestTtl \in Nat
    BY <1>7, LimitsAssumption DEF ReplySound, ReplyForm
  <2> QED
    BY <1>1, <1>7, <2>1 DEF ReplyUnderstood
<1> QED
  BY <1>6, <1>7

-----------------------------------------------------------------------------
\* What a step may do to the answers: what is told answers its operation, a task follows
\* from what it was, is new, or is dropped by close, and a reply is to its task.
ToldWell == \A t \in told' : t \in told \/ ResultSound(t[1], t[2], t[3])
WorkedWell ==
    \A id \in AskerIds :
        \/ tasks'[id] = tasks[id]
        \/ tasks'[id] = NoTask /\ closed'
        \/ tasks[id] = NoTask /\ ~closed /\ tasks'[id].requestId = id /\ TaskSound(tasks'[id])
        \/ tasks[id] # NoTask /\ Follows(tasks[id], tasks'[id])
RepliedWell ==
    \A r \in replies' :
        \/ r \in replies
        \/ /\ ReplyForm(r) /\ tasks'[r.requestId] # NoTask
           /\ r.payload.outcome = "completed" =>
                 Fits(r.payload.content, tasks'[r.requestId].contract)

LEMMA StepKeepsAnswerInv ==
    ASSUME AnswerInv, TasksOK, setting \in Settings, now \in Nat, now' \in 0..MaxNow,
           now <= now', UNCHANGED setting, closed => closed', ToldWell, WorkedWell, RepliedWell
    PROVE  AnswerInv'
<1>1. TasksSound'
  <2>1. ASSUME NEW id \in AskerIds, NEW t \in TaskRecord, tasks'[id] = t
        PROVE  t.requestId = id /\ TaskSound(t)
    <3>1. tasks[id] # NoTask => /\ tasks[id] \in TaskRecord /\ tasks[id].requestId = id
                                /\ TaskSound(tasks[id])
      BY DEF TasksOK, AnswerInv, TasksSound
    <3> QED
      BY <2>1, <3>1, TaskFacts DEF WorkedWell, Follows
  <2> QED
    BY <2>1, SoundStays DEF TasksSound
<1>2. ToldSound'
  <2>1. ASSUME NEW k, NEW p, NEW result, ResultSound(k, p, result) PROVE ResultSound(k, p, result)'
    BY <2>1, SoundStays DEF ResultSound
  <2>2. \A t \in told' : ResultSound(t[1], t[2], t[3])
    BY DEF ToldWell, AnswerInv, ToldSound
  <2> QED
    BY <2>1, <2>2 DEF ToldSound
<1>3. RepliesSound'
  <2>1. ASSUME NEW r \in replies'
        PROVE  /\ ReplyForm(r)
               /\ closed' \/ tasks'[r.requestId] # NoTask
               /\ tasks'[r.requestId] # NoTask /\ r.payload.outcome = "completed" =>
                     Fits(r.payload.content, tasks'[r.requestId].contract)
    <3>1. CASE r \in replies
      <4>1. ReplySound(r) /\ r.requestId \in AskerIds
        BY <3>1 DEF AnswerInv, RepliesSound, ReplySound, ReplyForm, ReplyRecord
      <4>2. \/ tasks'[r.requestId] = tasks[r.requestId]
            \/ tasks'[r.requestId] = NoTask /\ closed'
            \/ /\ tasks[r.requestId] # NoTask
               /\ tasks'[r.requestId].contract = tasks[r.requestId].contract
               /\ tasks'[r.requestId] # NoTask
        BY <4>1, TaskFacts DEF WorkedWell, ReplySound, Follows
      <4> QED
        BY <4>1, <4>2 DEF ReplySound
    <3>2. CASE r \notin replies
      BY <2>1, <3>2 DEF RepliedWell
    <3> QED
      BY <3>1, <3>2
  <2>2. ASSUME NEW r, ReplyForm(r) PROVE ReplyForm(r)'
    BY <2>2, SoundStays
  <2> QED
    BY <2>1, <2>2 DEF RepliesSound, ReplySound
<1> QED
  BY <1>1, <1>2, <1>3 DEF AnswerInv

\* The task of a request that is let in is sound (createTask).
LEMMA CreatedFacts ==
    ASSUME SentOK, now \in Nat, NEW e \in Incoming, e.operation = "message.request",
           NEW state \in AdmissionStates
    PROVE  /\ TaskSound(TaskOf(e, state)) /\ TaskOf(e, state).requestId = e.requestId
           /\ Key(e)[2] = e.requestId /\ e.requestId \in AskerIds
<1>1. PICK built \in sent, from \in setting.senders : e = [built EXCEPT !.sender = from]
  BY DEF Incoming
<1>2. built \in Fields({Asker}) /\ Sound(built)
  BY DEF SentOK
<1>3. /\ e.operation = built.operation /\ e.operationId = built.operationId
      /\ e.requestId = built.requestId /\ e.createdAt = built.createdAt
      /\ e.expiresAt = built.expiresAt /\ e.payload = built.payload
  BY <1>1, <1>2 DEF Fields
<1>4. /\ e.requestId = e.operationId /\ e.operationId \in AskerIds
      /\ e.createdAt \in Int /\ e.expiresAt \in Int
      /\ e.expiresAt - e.createdAt \in 1..MaxRequestTtl
  BY <1>2, <1>3 DEF Fields, Sound, MaxTtl, Control
<1>5. e.createdAt <= AskerNow
  <2>1. PICK n \in 0..LastBuild : n <= now /\ e.createdAt = n + offset
    BY <1>2, <1>3 DEF Sound
  <2> QED
    BY <2>1, SettingFacts DEF SentOK, AskerNow
<1> DEFINE t == TaskOf(e, state)
<1>6. /\ t.requestId = e.requestId /\ t.state = state
      /\ t.createdAt = e.createdAt /\ t.updatedAt = e.createdAt /\ t.expiresAt = e.expiresAt
      /\ t.requestedAt = Missing /\ t.content = Missing
      /\ t.error = IF state = "expired" THEN ProtocolError("expired") ELSE Missing
  BY DEF TaskOf
<1> HIDE DEF t
<1>7. /\ state \in TaskState /\ state \notin {"completed", "cancelled"}
      /\ state = "expired" => ~IsActive(state)
      /\ ProtocolError("expired") \in Errors
  BY AnswerFacts DEF AdmissionStates, TaskState, ActiveStates, TerminalOutcomes, IsActive
<1>8. Presentable(t)
  <2>1. t.updatedAt <= t.expiresAt
    BY <1>4, <1>6
  <2>2. t.requestId \in Ids
    BY <1>4, <1>6, NamesAssumption
  <2> QED
    BY <1>4, <1>5, <1>6, <1>7, <2>1, <2>2 DEF Presentable
<1>9. TaskSound(t)
  <2>1. \E n \in 0..LastBuild : e.createdAt = n + offset
    BY <1>2, <1>3 DEF Sound
  <2>2. Stamped(t)
    BY <1>6, <2>1 DEF Stamped
  <2>3. state # "created"
    BY DEF AdmissionStates
  <2> QED
    BY <1>6, <1>7, <1>8, <2>2, <2>3 DEF TaskSound
<1> QED
  BY <1>4, <1>6, <1>9 DEF t, Key

\* What carries out, refuses and commits leaves the clock, and tells one result at most.
LEMMA TellingFacts ==
    ASSUME NEW k, NEW p
    PROVE  /\ \A result : CarryOut(k, p, result) =>
                 /\ told' = told \cup {<<k, p, result>>}
                 /\ ~closed /\ UNCHANGED <<now, closed>>
           /\ Refuse(k, p) \/ Replay(k, p) => UNCHANGED <<now, closed>>
BY DEF CarryOut, Refuse, Replay

LEMMA RequestKeepsAnswerInv ==
    ASSUME OpsInv, AnswerInv, NEW e \in Incoming, ReceiveRequest(e) PROVE AnswerInv'
<1> DEFINE k == Key(e)
           p == FingerprintOf(e)
<1>1. /\ k \in Keys /\ p \in Prints /\ p.operation = "message.request"
      /\ p.requestId = e.requestId /\ k[2] = e.requestId /\ e.requestId \in AskerIds
      /\ p.expiresAt = e.expiresAt /\ e.expiresAt \in Int
  BY IncomingFacts, CreatedFacts DEF AdmissionStates, FingerprintOf, ReceiveRequest, OpsInv, StoreInv, StoreTypeOK
<1>2. UNCHANGED <<setting, replies>> /\ e.operation = "message.request"
      /\ now \in 0..MaxNow /\ now \in Nat /\ setting \in Settings /\ TasksOK /\ SentOK
  BY DEF ReceiveRequest, AnswerInv, OpsInv, StoreInv, StoreTypeOK, SentOK, TaskInv
<1> HIDE DEF k, p
<1>3. RepliedWell
  BY <1>2 DEF RepliedWell
<1>4. ASSUME NEW state \in AdmissionStates, Admitted(e, state), tasks[e.requestId] = NoTask,
             CarryOut(k, p, Admission(e.requestId, state)),
             tasks' = [tasks EXCEPT ![e.requestId] = TaskOf(e, state)]
      PROVE  AnswerInv'
  <2>1. /\ told' = told \cup {<<k, p, Admission(e.requestId, state)>>}
        /\ ~closed /\ UNCHANGED <<now, closed>>
    BY <1>4, TellingFacts
  <2>2. ToldWell
    <3>1. ResultSound(k, p, Admission(e.requestId, state))
      <4>1. state = "expired" => p.expiresAt \in Int /\ now + 1 >= p.expiresAt
        BY <1>1, <1>4 DEF Admitted
      <4> QED
        BY <1>1, <4>1, ResultsAssumption DEF ResultSound
    <3> QED
      BY <2>1, <3>1 DEF ToldWell
  <2>3. WorkedWell
    <3>1. TaskSound(TaskOf(e, state)) /\ TaskOf(e, state).requestId = e.requestId
      BY <1>2, CreatedFacts
    <3>2. /\ tasks'[e.requestId] = TaskOf(e, state)
          /\ \A id \in AskerIds \ {e.requestId} : tasks'[id] = tasks[id]
      BY <1>1, <1>2, <1>4 DEF TasksOK
    <3> QED
      BY <1>4, <2>1, <3>1, <3>2 DEF WorkedWell
  <2> QED
    BY <1>2, <1>3, <2>1, <2>2, <2>3, StepKeepsAnswerInv
<1>5. CASE (Refuse(k, p) \/ Replay(k, p)) /\ UNCHANGED tasks
  <2>1. told' = told
    BY <1>1, <1>5, RetryKeepsStoreInv DEF OpsInv
  <2>2. UNCHANGED <<now, closed>>
    BY <1>5, TellingFacts
  <2>3. ToldWell /\ WorkedWell
    BY <1>5, <2>1 DEF ToldWell, WorkedWell
  <2> QED
    BY <1>2, <1>3, <2>2, <2>3, StepKeepsAnswerInv
<1> QED
  BY <1>4, <1>5 DEF ReceiveRequest, k, p

LEMMA NotificationKeepsAnswerInv ==
    ASSUME OpsInv, AnswerInv, NEW c \in Callers,
           NotificationHandled(c) \/ \E e \in Incoming : ReceiveNotification(c, e)
    PROVE  AnswerInv'
<1>1. /\ UNCHANGED <<setting, replies, tasks>>
      /\ now \in 0..MaxNow /\ now \in Nat /\ setting \in Settings /\ TasksOK
  BY DEF AnswerInv, NotificationHandled, ReceiveNotification, OpsInv, StoreInv, StoreTypeOK, SentOK, TaskInv
<1>2. WorkedWell /\ RepliedWell
  BY <1>1 DEF WorkedWell, RepliedWell
<1>3. UNCHANGED <<now, closed>>
  BY DEF NotificationHandled, Commit, ReceiveNotification, TakeUp, Replay
<1>4. ToldWell
  <2>1. CASE \E e \in Incoming : ReceiveNotification(c, e)
    <3>1. PICK e \in Incoming : ReceiveNotification(c, e)
      BY <2>1
    <3>2. Key(e) \in Keys /\ FingerprintOf(e) \in Prints
      BY IncomingFacts DEF OpsInv
    <3>3. told' = told
      BY <3>1, <3>2, RetryKeepsStoreInv DEF ReceiveNotification, TakeUp, OpsInv
    <3> QED
      BY <3>3 DEF ToldWell
  <2>2. CASE NotificationHandled(c)
    <3>1. PICK result \in {Delivered, Failed} : Commit(c, result)
      BY <2>2 DEF NotificationHandled
    <3>2. held[c] \in Reservations
      BY <3>1 DEF Commit, OpsInv, StoreInv, StoreTypeOK
    <3>3. PICK k \in Keys, p \in Prints : held[c] = Reservation(k, p)
      BY <3>2 DEF Reservations
    <3>4. p.operation = "message.notify"
      BY <3>3 DEF OpsInv, HeldOK
    <3>5. held[c].key = k /\ held[c].print = p
      BY <3>3, RecordsDiffer DEF Reservation
    <3>6. told' = told \cup {<<k, p, result>>}
      BY <3>1, <3>5 DEF Commit
    <3>7. ResultSound(k, p, result)
      BY <3>1, <3>4, ResultsAssumption DEF ResultSound
    <3> QED
      BY <3>6, <3>7 DEF ToldWell
  <2> QED
    BY <2>1, <2>2
<1> QED
  BY <1>1, <1>2, <1>3, <1>4, StepKeepsAnswerInv

\* What a cancellation is answered with is the snapshot of a task that has no result, and
\* no error but that it was cancelled.
LEMMA CancellationFacts ==
    ASSUME setting \in Settings, NEW t \in TaskRecord, TaskSound(t),
           t.state \in {"cancelling", "cancelled"}
    PROVE  Snapshot(t) \in Results
<1>1. t.content = Missing /\ t.error \in {Missing, ProtocolError("cancelled")}
  BY DEF TaskSound, IsActive, ActiveStates
<1>2. PICK n \in 0..LastBuild : t.createdAt = n + setting.offset
  BY DEF TaskSound, Stamped, offset
<1> DEFINE ttl == t.expiresAt - t.createdAt
<1>3. ttl \in 1..MaxRequestTtl /\ t.createdAt \in Int /\ t.expiresAt \in Int
  BY DEF TaskSound, Presentable, TaskRecord
<1>4. /\ t.updatedAt \in {n + setting.offset} \cup 0..MaxNow
      /\ t.requestedAt \in 0..MaxNow \cup {Missing}
      /\ t.requestId \in AskerIds
  BY <1>2 DEF TaskSound, Stamped, TaskRecord
<1>5. t.createdAt + ttl = t.expiresAt
  BY <1>3
<1> HIDE DEF ttl
<1>6. [requestId : AskerIds, state : {"cancelling", "cancelled"}, createdAt : {n + setting.offset},
       updatedAt : {n + setting.offset} \cup 0..MaxNow, expiresAt : {n + setting.offset + ttl},
       requestedAt : 0..MaxNow \cup {Missing}, terminalOutcome : {"cancelled", Missing},
       content : {Missing},
       error : {Missing, ProtocolError("cancelled")}] \subseteq Results
  BY <1>3, ResultsAssumption
<1>7. (IF IsTerminal(t.state) THEN t.state ELSE Missing) \in {"cancelled", Missing}
  BY DEF IsTerminal, TerminalOutcomes
<1> QED
  BY <1>1, <1>2, <1>4, <1>5, <1>6, <1>7 DEF Snapshot

\* Work on one task leaves the others.
LEMMA FollowingFacts ==
    ASSUME TasksOK, NEW id \in AskerIds, tasks[id] \in TaskRecord, NEW u, Follows(tasks[id], u),
           tasks' = [tasks EXCEPT ![id] = u]
    PROVE  /\ WorkedWell /\ tasks'[id] = u
           /\ u # NoTask /\ \A i \in AskerIds \ {id} : tasks'[i] = tasks[i]
<1>1. /\ tasks'[id] = u
      /\ \A i \in AskerIds \ {id} : tasks'[i] = tasks[i]
  BY DEF TasksOK
<1>2. u # NoTask /\ tasks[id] # NoTask
  BY TaskFacts DEF Follows
<1> QED
  BY <1>1, <1>2 DEF WorkedWell

\* The terminal reply to a task that has been decided.
LEMMA DecidedFacts ==
    ASSUME setting \in Settings, now \in 0..MaxNow, TasksOK, NEW id \in AskerIds,
           tasks[id] \in TaskRecord, tasks[id].requestId = id, NEW u, Follows(tasks[id], u),
           tasks' = [tasks EXCEPT ![id] = u], replies' = replies \cup ReplyTo(u)
    PROVE  RepliedWell
<1>1. u \in TaskRecord /\ TaskSound(u) /\ u.requestId = id
  BY DEF Follows
<1>2. tasks'[id] = u /\ u # NoTask
  BY FollowingFacts
<1>3. ASSUME NEW r \in ReplyTo(u)
      PROVE  /\ ReplyForm(r) /\ r.requestId = id
             /\ r.payload.outcome = "completed" => Fits(r.payload.content, u.contract)
  BY <1>1, ReplyFacts
<1> QED
  BY <1>2, <1>3 DEF RepliedWell

LEMMA WorkKeepsAnswerInv ==
    ASSUME OpsInv, AnswerInv, NEW id \in AskerIds, Start(id) \/ Decide(id) \/ Expire(id)
    PROVE  AnswerInv'
<1>1. UNCHANGED <<now, closed, told>> /\ UNCHANGED setting
  BY DEF Start, Decide, Expire, vars
<1>2. now \in 0..MaxNow /\ now \in Nat /\ setting \in Settings /\ TasksOK
  BY DEF AnswerInv, OpsInv, StoreInv, StoreTypeOK, SentOK, TaskInv
<1>3. tasks[id] \in TaskRecord /\ tasks[id].requestId = id /\ TaskSound(tasks[id])
  <2>1. tasks[id] \in TaskRecord
    BY <1>2, TaskFacts DEF Start, Decide, Expire, OnTime, TasksOK
  <2> QED
    BY <2>1 DEF AnswerInv, TasksSound
<1>4. PICK u : /\ Follows(tasks[id], u)
               /\ tasks' = [tasks EXCEPT ![id] = u]
               /\ replies' \in {replies, replies \cup ReplyTo(u)}
  BY <1>2, <1>3, FollowsFacts DEF Start, Decide, Expire, OnTime
<1>5. WorkedWell
  BY <1>2, <1>3, <1>4, FollowingFacts
<1>6. RepliedWell
  <2>1. CASE replies' = replies
    BY <2>1 DEF RepliedWell
  <2>2. CASE replies' = replies \cup ReplyTo(u)
    BY <1>2, <1>3, <1>4, <2>2, DecidedFacts
  <2> QED
    BY <1>4, <2>1, <2>2
<1>7. ToldWell
  BY <1>1 DEF ToldWell
<1> QED
  BY <1>1, <1>2, <1>5, <1>6, <1>7, StepKeepsAnswerInv

LEMMA StatusKeepsAnswerInv ==
    ASSUME OpsInv, AnswerInv, NEW e \in Incoming, ReceiveStatus(e) PROVE AnswerInv'
<1> DEFINE id == e.requestId
<1>1. UNCHANGED <<now, closed, told>> /\ UNCHANGED <<setting, replies>>
  BY DEF ReceiveStatus, vars
<1>2. now \in 0..MaxNow /\ now \in Nat /\ setting \in Settings /\ TasksOK
  BY DEF AnswerInv, OpsInv, StoreInv, StoreTypeOK, SentOK, TaskInv
<1>3. id \in AskerIds
  BY IncomingFacts DEF ReceiveStatus, OpsInv
<1>4. tasks[id] \in TaskRecord /\ TaskSound(tasks[id])
  BY <1>2, <1>3 DEF ReceiveStatus, TasksOK, AnswerInv, TasksSound
<1>5. tasks' = [tasks EXCEPT ![id] = UpToDate(tasks[id])]
  BY DEF ReceiveStatus
<1>6. WorkedWell
  BY <1>2, <1>3, <1>4, <1>5, FollowsFacts, FollowingFacts
<1>7. ToldWell /\ RepliedWell
  BY <1>1 DEF ToldWell, RepliedWell
<1> QED
  BY <1>1, <1>2, <1>6, <1>7, StepKeepsAnswerInv

LEMMA CancelKeepsAnswerInv ==
    ASSUME OpsInv, AnswerInv, NEW e \in Incoming, ReceiveCancel(e) PROVE AnswerInv'
<1> DEFINE k == Key(e)
           p == FingerprintOf(e)
           id == e.requestId
           t == UpToDate(tasks[id])
<1>1. /\ k \in Keys /\ p \in Prints /\ p.operation = "task.cancel" /\ id \in AskerIds
  BY IncomingFacts DEF ReceiveCancel, OpsInv
<1>2. /\ UNCHANGED setting
      /\ now \in 0..MaxNow /\ now \in Nat /\ setting \in Settings /\ TasksOK
  BY DEF AnswerInv, ReceiveCancel, OpsInv, StoreInv, StoreTypeOK, SentOK, TaskInv
<1>3. \/ tasks[id] = NoTask /\ t = NoTask
      \/ /\ tasks[id] \in TaskRecord /\ tasks[id].requestId = id /\ TaskSound(tasks[id])
         /\ Follows(tasks[id], t)
         /\ IsActive(t.state) => now < t.expiresAt
  <2>1. tasks[id] = NoTask \/ tasks[id] \in TaskRecord
    BY <1>1, <1>2 DEF TasksOK
  <2>2. UpToDate(NoTask) = NoTask
    BY TaskFacts DEF UpToDate
  <2>3. ASSUME tasks[id] \in TaskRecord
        PROVE  tasks[id].requestId = id /\ TaskSound(tasks[id])
    BY <1>1, <2>3 DEF AnswerInv, TasksSound
  <2> QED
    BY <1>2, <2>1, <2>2, <2>3, FollowsFacts
<1>4. \/ /\ IsRequester(t, e.sender) /\ IsActive(t.state)
         /\ CarryOut(k, p, Snapshot(Stopped(t)))
         /\ tasks' = [tasks EXCEPT ![id] = Stopped(t)]
         /\ replies' = replies \cup ReplyTo(Stopped(t))
      \/ /\ IsRequester(t, e.sender) /\ t.state = "cancelled"
         /\ CarryOut(k, p, Snapshot(t))
         /\ UNCHANGED <<tasks, replies>>
      \/ /\ Refuse(k, p) \/ Replay(k, p)
         /\ tasks' \in {[tasks EXCEPT ![id] = t], tasks}
         /\ UNCHANGED replies
  BY DEF ReceiveCancel
<1> HIDE DEF k, p, t, id
<1>5. ASSUME NEW u \in TaskRecord, TaskSound(u), u.state \in {"cancelling", "cancelled"},
             CarryOut(k, p, Snapshot(u))
      PROVE  ToldWell /\ UNCHANGED <<now, closed>>
  <2>1. /\ Presentable(Snapshot(u))
        /\ Snapshot(u).terminalOutcome =
              IF IsTerminal(Snapshot(u).state) THEN Snapshot(u).state ELSE Missing
    BY <1>5, SnapshotFacts DEF TaskSound
  <2>2. ResultSound(k, p, Snapshot(u))
    <3>1. Snapshot(u) \in Results
      BY <1>2, <1>5, CancellationFacts
    <3> QED
      BY <1>1, <2>1, <3>1 DEF ResultSound
  <2>3. told' = told \cup {<<k, p, Snapshot(u)>>} /\ UNCHANGED <<now, closed>>
    BY <1>5, TellingFacts
  <2> QED
    BY <2>2, <2>3 DEF ToldWell
<1>6. CASE /\ IsRequester(t, e.sender) /\ IsActive(t.state)
           /\ CarryOut(k, p, Snapshot(Stopped(t)))
           /\ tasks' = [tasks EXCEPT ![id] = Stopped(t)]
           /\ replies' = replies \cup ReplyTo(Stopped(t))
  <2>1. /\ tasks[id] \in TaskRecord /\ tasks[id].requestId = id
        /\ t \in TaskRecord /\ TaskSound(t) /\ now < t.expiresAt
        /\ t.requestId = tasks[id].requestId /\ t.contract = tasks[id].contract
    BY <1>3, <1>6 DEF IsRequester, Follows
  <2>2. Follows(t, Stopped(t)) /\ Stopped(t).state \in {"cancelling", "cancelled"}
    BY <1>2, <1>6, <2>1, FollowsFacts
  <2>3. Follows(tasks[id], Stopped(t)) /\ TaskSound(Stopped(t)) /\ Stopped(t) \in TaskRecord
    BY <2>1, <2>2 DEF Follows
  <2>4. ToldWell /\ UNCHANGED <<now, closed>>
    BY <1>5, <1>6, <2>2, <2>3
  <2>5. WorkedWell
    BY <1>1, <1>2, <1>6, <2>1, <2>3, FollowingFacts
  <2>6. RepliedWell
    BY <1>1, <1>2, <1>6, <2>1, <2>3, DecidedFacts
  <2> QED
    BY <1>2, <2>4, <2>5, <2>6, StepKeepsAnswerInv
<1>7. CASE /\ IsRequester(t, e.sender) /\ t.state = "cancelled"
           /\ CarryOut(k, p, Snapshot(t))
           /\ UNCHANGED <<tasks, replies>>
  <2>1. TaskSound(t) /\ t \in TaskRecord
    BY <1>3, <1>7 DEF IsRequester, Follows
  <2>2. ToldWell /\ UNCHANGED <<now, closed>>
    BY <1>5, <1>7, <2>1
  <2>3. WorkedWell /\ RepliedWell
    BY <1>7 DEF WorkedWell, RepliedWell
  <2> QED
    BY <1>2, <2>2, <2>3, StepKeepsAnswerInv
<1>8. CASE /\ Refuse(k, p) \/ Replay(k, p)
           /\ tasks' \in {[tasks EXCEPT ![id] = t], tasks}
           /\ UNCHANGED replies
  <2>1. told' = told
    BY <1>1, <1>8, RetryKeepsStoreInv DEF OpsInv
  <2>2. UNCHANGED <<now, closed>>
    BY <1>8, TellingFacts
  <2>3. ToldWell /\ RepliedWell
    BY <1>8, <2>1 DEF ToldWell, RepliedWell
  <2>4. WorkedWell
    <3>1. CASE tasks' = tasks
      BY <3>1 DEF WorkedWell
    <3>2. CASE tasks' = [tasks EXCEPT ![id] = t]
      <4>1. CASE tasks[id] = NoTask /\ t = NoTask
        <5>1. tasks' = tasks
          BY <1>1, <1>2, <3>2, <4>1 DEF TasksOK
        <5> QED
          BY <5>1 DEF WorkedWell
      <4>2. CASE tasks[id] \in TaskRecord /\ Follows(tasks[id], t)
        BY <1>1, <1>2, <3>2, <4>2, FollowingFacts
      <4> QED
        BY <1>3, <4>1, <4>2
    <3> QED
      BY <1>8, <3>1, <3>2
  <2> QED
    BY <1>2, <2>2, <2>3, <2>4, StepKeepsAnswerInv
<1> QED
  BY <1>4, <1>6, <1>7, <1>8

LEMMA QuietKeepsAnswerInv ==
    ASSUME OpsInv, AnswerInv,
           \/ \E id \in AskerIds : Build(id)
           \/ Shutdown \/ TimePasses
           \/ \E c \in Callers : Abandoned(c)
           \/ \E k \in Keys : Forgotten(k)
           \/ UNCHANGED opsVars
    PROVE  AnswerInv'
<1>1. now \in 0..MaxNow /\ now \in Nat /\ setting \in Settings /\ TasksOK
  BY DEF AnswerInv, OpsInv, StoreInv, StoreTypeOK, SentOK, TaskInv
<1>2. /\ UNCHANGED <<told, replies, setting>>
      /\ now' \in 0..MaxNow /\ now <= now'
      /\ closed => closed'
  BY <1>1, MaxNowAssumption DEF Build, Shutdown, TimePasses, Abandoned, Forgotten, opsVars, vars, Close, Tick,
     Abandon, TimerFires
<1>3. WorkedWell
  <2>1. CASE Shutdown
    <3>1. closed' /\ tasks' = [id \in AskerIds |-> NoTask]
      BY <2>1 DEF Shutdown, Close
    <3> QED
      BY <3>1 DEF WorkedWell
  <2>2. CASE ~Shutdown
    <3>1. tasks' = tasks
      BY <2>2 DEF Build, TimePasses, Abandoned, Forgotten, opsVars
    <3> QED
      BY <3>1 DEF WorkedWell
  <2> QED
    BY <2>1, <2>2
<1>4. ToldWell /\ RepliedWell
  BY <1>2 DEF ToldWell, RepliedWell
<1> QED
  BY <1>1, <1>2, <1>3, <1>4, StepKeepsAnswerInv

LEMMA NextKeepsAnswerInv == ASSUME OpsInv, AnswerInv, [OperationsNext]_opsVars PROVE AnswerInv'
<1>1. ASSUME NEW id \in AskerIds, Start(id) \/ Decide(id) \/ Expire(id)
      PROVE  AnswerInv'
  BY <1>1, WorkKeepsAnswerInv
<1>2. ASSUME NEW e \in Incoming,
             \/ ReceiveRequest(e)
             \/ \E c \in Callers : ReceiveNotification(c, e)
             \/ ReceiveStatus(e)
             \/ ReceiveCancel(e)
      PROVE  AnswerInv'
  BY <1>2, RequestKeepsAnswerInv, NotificationKeepsAnswerInv, StatusKeepsAnswerInv,
     CancelKeepsAnswerInv
<1>3. ASSUME NEW c \in Callers, NotificationHandled(c)
      PROVE  AnswerInv'
  BY <1>3, NotificationKeepsAnswerInv
<1>4. CASE \/ \E id \in AskerIds : Build(id)
           \/ Shutdown \/ TimePasses
           \/ \E c \in Callers : Abandoned(c)
           \/ \E k \in Keys : Forgotten(k)
           \/ UNCHANGED opsVars
  BY <1>4, QuietKeepsAnswerInv
<1> QED
  BY <1>1, <1>2, <1>3, <1>4 DEF OperationsNext

LEMMA InitAnswerInv == ASSUME OperationsInit PROVE AnswerInv
<1>1. told = {} /\ replies = {} /\ \A id \in AskerIds : tasks[id] \notin TaskRecord
  BY TaskFacts DEF OperationsInit, Init
<1>2. now \in 0..MaxNow
  BY MaxNowAssumption DEF OperationsInit, Init
<1> QED
  BY <1>1, <1>2 DEF AnswerInv, TasksSound, RepliesSound, ToldSound

\* What the invariant says of the answers is enough for the asker.
LEMMA AnswerInvImplies == ASSUME OpsInv, AnswerInv PROVE AnswersAreUnderstood
<1>0. now \in Nat /\ setting \in Settings /\ TasksOK /\ StoreTypeOK /\ DoneIsTold
  BY DEF OpsInv, StoreInv, StoreTypeOK, SentOK, TaskInv
<1>1. ASSUME NEW k \in Keys, NEW p, NEW result, ResultSound(k, p, result)
      PROVE  AnswerUnderstood(k[2], p, result)
  <2> USE DEF AnswerUnderstood
  <2> DEFINE answer == [operation |-> p.operation, operationId |-> k[2],
                        result |-> IF result = Failed THEN Missing ELSE result,
                        error |-> IF result = Failed THEN ProtocolError("internal") ELSE Missing]
  <2>1. CASE p.operation = "task.cancel"
    <3>1. /\ Presentable(result)
          /\ result.terminalOutcome = IF IsTerminal(result.state) THEN result.state ELSE Missing
      BY <1>1, <2>1 DEF ResultSound
    <3> QED
      BY <1>0, <2>1, <3>1, PresentableIsUnderstood
  <2>2. CASE p.operation # "task.cancel" /\ result = Failed
    <3>1. /\ answer.result = Missing /\ answer.error = ProtocolError("internal")
      BY <2>2
    <3>2. ProtocolError("internal") # Missing /\ IsError(ProtocolError("internal"))
      BY AnswerFacts
    <3> HIDE DEF answer
    <3>3. ResponseIssue(answer, AskerNow, p.requestId) = "none"
      BY <3>1, <3>2 DEF ResponseIssue
    <3> QED
      BY <2>2, <3>3 DEF answer
  <2>3. CASE p.operation = "message.notify" /\ result # Failed
    <3>1. result = Delivered /\ Delivered # Missing /\ Delivered.delivered = TRUE
      BY <1>1, <2>3, AnswerFacts DEF ResultSound, Delivered
    <3>2. /\ answer.result = Delivered /\ answer.error = Missing
          /\ answer.operation = "message.notify"
      BY <2>3, <3>1
    <3> HIDE DEF answer
    <3>3. ResponseIssue(answer, AskerNow, p.requestId) = "none"
      BY <3>1, <3>2 DEF ResponseIssue, ResultIssue
    <3> QED
      BY <2>3, <3>3 DEF answer
  <2>4. CASE p.operation = "message.request" /\ result # Failed
    <3>1. PICK state \in AdmissionStates :
             /\ result = Admission(k[2], state)
             /\ state = "expired" => now + 1 >= p.expiresAt
      BY <1>1, <2>4 DEF ResultSound
    <3>2. p.requestId = k[2] /\ k[2] \in AskerIds
      BY <1>1, <2>4, NamesAssumption DEF ResultSound
    <3>3. /\ result # Missing /\ result.requestId = k[2] /\ result.state = state
      BY <3>1, <3>2, AnswerFacts DEF Admission
    <3>4. /\ answer.result = result /\ answer.error = Missing
          /\ answer.operation = "message.request" /\ answer.operationId = k[2]
      BY <2>4
    <3> HIDE DEF answer
    <3>5. ResponseIssue(answer, AskerNow, p.requestId) = "none" \/ state = "expired"
      BY <3>2, <3>3, <3>4 DEF ResponseIssue, ResultIssue, AdmissionStates
    <3> QED
      BY <2>4, <3>1, <3>2, <3>5 DEF answer
  <2> QED
    BY <1>1, <2>1, <2>2, <2>3, <2>4 DEF ResultSound
<1>2. ASSUME NEW k \in Keys, records[k].kind = "committed"
      PROVE  ResultSound(k, records[k].print, records[k].result)
  <2>1. PICK p \in Prints : records[k] = Done(p, records[k].result)
    BY <1>0, <1>2, RecordsDiffer DEF StoreTypeOK
  <2>2. <<k, p, records[k].result>> \in told
    BY <1>0, <2>1 DEF DoneIsTold
  <2>3. ResultSound(k, p, records[k].result)
    BY <2>2 DEF AnswerInv, ToldSound
  <2>4. records[k].print = p
    BY <2>1 DEF Done
  <2> QED
    BY <2>3, <2>4
<1>3. ASSUME NEW id \in AskerIds, tasks[id] # NoTask
      PROVE  SnapshotUnderstood(Snapshot(tasks[id]))
  <2>1. Presentable(tasks[id])
    BY <1>0, <1>3 DEF TasksOK, AnswerInv, TasksSound, TaskSound
  <2> QED
    BY <1>0, <2>1, SnapshotFacts, PresentableIsUnderstood
<1>4. \A r \in replies : r.recipientRuntimeId = Asker => ReplyUnderstood(r)
  BY <1>0, ReplyIsUnderstood DEF AnswerInv, RepliesSound
<1> QED
  BY <1>1, <1>2, <1>3, <1>4 DEF AnswersAreUnderstood

\* The answers are in order at all times.
THEOREM AnswersInvariance == OperationsSpec => [](OpsInv /\ AnswerInv)
<1>1. OperationsInit => AnswerInv
  BY InitAnswerInv
<1>2. OpsInv /\ AnswerInv /\ [OperationsNext]_opsVars => AnswerInv'
  BY NextKeepsAnswerInv
<1> QED
  BY <1>1, <1>2, Invariance, PTL DEF OperationsSpec

\* What the answerer tells an asker about its operations, now or on a retry, and the
\* terminal replies that it sends, the asker understands, whatever their clocks within
\* the tolerance, with the three exceptions that the property names (buildSnapshot,
\* sendTerminalReply, validateOperationResponse).
THEOREM AnswersAreUnderstoodAlways == OperationsSpec => []AnswersAreUnderstood
<1>1. OpsInv /\ AnswerInv => AnswersAreUnderstood
  BY AnswerInvImplies
<1> QED
  BY <1>1, AnswersInvariance, PTL

\* Records, reservations and answers of the dedupe store, and task records (createTask,
\* tryTransition), are what the handlers put into them.
THEOREM TypeCorrect == OperationsSpec => []TypeOK
<1>1. ASSUME OpsInv, AnswerInv PROVE TypeOK
  <2>0. StoreTypeOK /\ TasksOK /\ SentOK /\ now \in 0..MaxNow
    BY <1>1 DEF OpsInv, AnswerInv, StoreInv, TaskInv
  <2>1. records \in [Keys -> Record]
    <3>1. ASSUME NEW k \in Keys PROVE records[k] \in Record
      <4>1. CASE records[k] = NoRecord
        BY <4>1 DEF Record
      <4>2. CASE \E p \in Prints : records[k] = Kept(p)
        BY <4>2 DEF Record, Kept
      <4>3. CASE \E p \in Prints : records[k] = Done(p, records[k].result)
        <5>1. PICK p \in Prints : records[k] = Done(p, records[k].result)
          BY <4>3
        <5>2. <<k, p, records[k].result>> \in told
          BY <1>1, <5>1 DEF OpsInv, StoreInv, DoneIsTold
        <5>3. records[k].result \in Results
          BY <1>1, <5>2 DEF AnswerInv, ToldSound, ResultSound
        <5> DEFINE result == records[k].result
        <5>4. records[k] = Done(p, result) /\ result \in Results
          BY <5>1, <5>3
        <5> HIDE DEF result
        <5> QED
          BY <5>4 DEF Record, Done
      <4> QED
        BY <2>0, <4>1, <4>2, <4>3 DEF StoreTypeOK
    <3> QED
      BY <2>0, <3>1 DEF StoreTypeOK
  <2>2. held \in [Callers -> {Idle} \cup [kind : {"reservation"}, key : Keys, print : Prints]]
    <3>1. Reservations \subseteq [kind : {"reservation"}, key : Keys, print : Prints]
      BY DEF Reservations, Reservation
    <3> QED
      BY <2>0, <3>1 DEF StoreTypeOK
  <2>3. told \subseteq Keys \X Prints \X Results
    <3>1. ASSUME NEW t \in told PROVE t \in Keys \X Prints \X Results
      <4>1. t = <<t[1], t[2], t[3]>> /\ t[1] \in Keys /\ t[2] \in Prints /\ t[3] \in Results
        BY <1>1, <2>0 DEF StoreTypeOK, AnswerInv, ToldSound, ResultSound
      <4> QED
        BY <4>1
    <3> QED
      BY <3>1
  <2>4. \A e \in sent : e.sender = Asker /\ e.operationId \in AskerIds
    BY <2>0 DEF SentOK, Fields
  <2>5. ASSUME NEW id \in AskerIds, tasks[id] # NoTask
        PROVE  LET t == tasks[id]
               IN /\ t.requestId = id
                  /\ t.state \in TaskState \ {"created"}
                  /\ t.requester \in {Asker, Stranger}
                  /\ t.createdAt <= t.updatedAt
                  /\ t.state \in {"completed"} <=> t.content # Missing
                  /\ t.content # Missing => t.error = Missing
    <3> DEFINE t == tasks[id]
    <3>1. t \in TaskRecord /\ t.requestId = id /\ TaskSound(t)
      BY <1>1, <2>0, <2>5 DEF TasksOK, AnswerInv, TasksSound
    <3> HIDE DEF t
    <3>2. t.state \in TaskState /\ t.requester \in {Asker, Stranger}
      BY <3>1 DEF TaskRecord
    <3>3. t.createdAt <= t.updatedAt /\ (t.error = Missing \/ t.content = Missing)
      BY <3>1 DEF TaskSound, Presentable
    <3>4. t.state \in {"completed"} <=> t.content # Missing
      BY <3>1, AnswerFacts DEF TaskSound
    <3> QED
      BY <3>1, <3>2, <3>3, <3>4 DEF TaskSound, t
  <2>6. \A r \in replies : r.operationId = ReplyId
    BY <1>1 DEF AnswerInv, RepliesSound, ReplySound, ReplyForm, ReplyRecord
  <2>7. setting \in Settings /\ closed \in BOOLEAN
    BY <2>0 DEF SentOK, StoreTypeOK
  <2> QED
    BY <2>0, <2>1, <2>2, <2>3, <2>4, <2>5, <2>6, <2>7 DEF TypeOK, RecordsTypeOK
<1> QED
  BY <1>1, AnswersInvariance, PTL
=============================================================================
