--------------------------- MODULE LifecycleProofs ---------------------------
(***************************************************************************)
(* The sessions of a process, for any number of runtimes, updates and      *)
(* renewals: what becomes of the cards of each, whatever the host does, and *)
(* that there is one runtime at a time when the host waits for a handler   *)
(* before it emits the next event.                                         *)
(***************************************************************************)
EXTENDS Lifecycle, FiniteSetTheorems, SequenceTheorems, TLAPS

\* The lease: a renewal under way is the first of the queue; the start is the first
\* renewal of all; and a lease runs from its start until it fails or shutdown stops it.
LeaseOK(r) ==
    /\ renewal[r] # "waiting" => renewals[r] # <<>>
    /\ \A i \in DOMAIN renewals[r] : renewals[r][i] = "start" => i = 1 /\ startOf[r] = "pending"
    /\ lease[r] = "idle" => renewals[r] = <<>>
    /\ shutdown[r] = "no" /\ startOf[r] \in {"pending", "done"} => lease[r] = "running"
    /\ shutdown[r] # "no" \/ startOf[r] \in {"failing", "failed"} => lease[r] = "stopped"

\* The cards: what is written is the last card with the change of the publication under way,
\* and shutdown waits for a write under way.
CardsOK(r) ==
    /\ writing[r] # "no" =>
          publications[r] # <<>> /\ metadata[r] = Patched(previous[r], Head(publications[r]))
    /\ writing[r] = "no" => metadata[r] = previous[r]
    /\ card[r] # NoCard => card[r] = previous[r]
    /\ shutdown[r] = "queue" /\ writing[r] # "no" => awaited[r] > 0
    /\ shutdown[r] \in {"removal", "done"} => writing[r] = "no"

\* Of the renewals one at most is in the queue of publications: the one under way.
QueueOK(r) ==
    \A i \in DOMAIN publications[r] : publications[r][i].by = "lease" =>
        /\ renewal[r] = "queued"
        /\ \A j \in DOMAIN publications[r] : publications[r][j].by = "lease" => i = j

\* What a handler waits for is a runtime.
TargetsOK ==
    \A h \in Handlers : handler[h] \in {"bind", "publish", "abort"} => target[h] \in Runtimes

\* Every registry is in order, however many handlers there are.
IInv == TypeOK /\ TargetsOK /\ \A r \in Runtimes : LeaseOK(r) /\ QueueOK(r) /\ CardsOK(r)

\* A runtime that has not been bound.
Fresh(r) ==
    /\ ~bound[r] /\ ~delivery[r]
    /\ lease[r] = "idle" /\ publications[r] = <<>> /\ writing[r] = "no" /\ file[r] = NoCard

\* How far a runtime has come.
StageOf(r) ==
    /\ closing[r] = "no" <=> shutdown[r] = "no"
    /\ closing[r] # "no" => ~delivery[r]
    /\ closing[r] \in {"transport", "closed", "failed"} => shutdown[r] = "done" /\ ~bound[r]
    /\ closing[r] = "no" =>
          r = active \/ (\E h \in Handlers : handler[h] = "publish" /\ target[h] = r) \/ Fresh(r)
    /\ closing[r] = "registry" =>
          \E h \in Handlers : handler[h] \in {"stopOld", "stopLast", "abort"} /\ target[h] = r
    /\ r = active => closing[r] = "no" /\ startOf[r] = "done" /\ bound[r] /\ delivery[r]
    /\ r > generation => closing[r] = "no" /\ Fresh(r)

\* What the handlers are at.
HandlersOK ==
    /\ active # None => stopping = None /\ \A h \in Handlers : handler[h] = "idle"
    /\ stopping # None => closing[stopping] \in {"registry", "transport"}
    /\ \A h \in Handlers :
          /\ handler[h] \in {"bind", "publish"} => closing[target[h]] = "no"
          /\ handler[h] = "bind" => target[h] <= generation
          /\ handler[h] = "publish" => bound[target[h]]
          /\ stopping # None => handler[h] \in {"stopOld", "stopLast"} /\ target[h] = stopping
          /\ handler[h] \notin {"waitToStart", "waitToStop"}

\* With one handler at a time.
SessionInv == HandlersOK /\ \A r \in Runtimes : StageOf(r)

-----------------------------------------------------------------------------
(* Queues. *)

LEMMA AppendFacts ==
    ASSUME NEW S, NEW q \in Seq(S), NEW e \in S
    PROVE  /\ Append(q, e) \in Seq(S) /\ Append(q, e) # <<>>
           /\ Head(Append(q, e)) = IF q = <<>> THEN e ELSE Head(q)
           /\ \A i \in DOMAIN Append(q, e) :
                 \/ i \in DOMAIN q /\ Append(q, e)[i] = q[i]
                 \/ i = Len(q) + 1 /\ Append(q, e)[i] = e
<1>1. /\ Append(q, e) \in Seq(S) /\ Len(Append(q, e)) = Len(q) + 1 /\ Len(q) \in Nat
      /\ DOMAIN Append(q, e) = 1 .. (Len(q) + 1) /\ DOMAIN q = 1 .. Len(q)
  BY AppendProperties, LenProperties
<1>2. \A j \in 1 .. Len(q) : Append(q, e)[j] = q[j]
  BY AppendProperties
<1>3. Append(q, e)[Len(q) + 1] = e
  BY AppendProperties
<1>4. Append(q, e) # <<>>
  BY <1>1, EmptySeq
<1>5. Head(Append(q, e)) = Append(q, e)[1]
  BY <1>1, <1>4, HeadTailProperties
<1>6. CASE q = <<>>
  <2>1. Len(q) = 0
    BY <1>6, EmptySeq
  <2> QED
    BY <1>1, <1>3, <1>4, <1>5, <1>6, <2>1
<1>7. CASE q # <<>>
  <2>1. Head(q) = q[1] /\ Len(q) # 0
    BY <1>7, HeadTailProperties, EmptySeq
  <2>2. Append(q, e)[1] = q[1]
    BY <1>1, <1>2, <2>1
  <2> QED
    BY <1>1, <1>2, <1>3, <1>4, <1>5, <1>7, <2>1, <2>2
<1> QED
  BY <1>6, <1>7

LEMMA TailFacts ==
    ASSUME NEW S, NEW q \in Seq(S), q # <<>>
    PROVE  /\ Tail(q) \in Seq(S) /\ Head(q) \in S /\ Head(q) = q[1] /\ 1 \in DOMAIN q
           /\ \A i \in DOMAIN Tail(q) : i \in Nat /\ i + 1 # 1 /\ i + 1 \in DOMAIN q
                                        /\ Tail(q)[i] = q[i + 1]
<1>1. /\ Tail(q) \in Seq(S) /\ Head(q) \in S /\ Head(q) = q[1] /\ Len(Tail(q)) = Len(q) - 1
      /\ \A i \in 1 .. (Len(q) - 1) : Tail(q)[i] = q[i + 1]
  BY HeadTailProperties
<1>2. Len(q) \in Nat /\ Len(q) # 0 /\ DOMAIN q = 1 .. Len(q)
  BY EmptySeq, LenProperties
<1>3. DOMAIN Tail(q) = 1 .. (Len(q) - 1)
  BY <1>1, LenProperties
<1> QED
  BY <1>1, <1>2, <1>3

-----------------------------------------------------------------------------
(* One registry. *)

\* RegistryTypeOK, in three parts.
LeaseTypes ==
    /\ lease \in [Runtimes -> {"idle", "running", "stopped"}]
    /\ renewals \in [Runtimes -> Seq({"start", "timer"})]
    /\ renewal \in [Runtimes -> {"waiting", "queued", "done", "failed"}]
    /\ startOf \in [Runtimes -> {"no", "pending", "failing", "done", "failed"}]
CardTypes ==
    /\ publications \in [Runtimes -> Seq(Publications)]
    /\ writing \in [Runtimes -> {"no", "temporary", "renamed"}]
    /\ metadata \in [Runtimes -> Metadata]
    /\ previous \in [Runtimes -> Metadata]
    /\ card \in [Runtimes -> Metadata \cup {NoCard}]
    /\ file \in [Runtimes -> Metadata \cup {NoCard}]
ShutdownTypes ==
    /\ shutdown \in [Runtimes -> {"no", "lease", "queue", "removal", "done"}]
    /\ awaited \in [Runtimes -> Nat]

LEMMA RegistryTypes == RegistryTypeOK <=> LeaseTypes /\ CardTypes /\ ShutdownTypes
BY DEF RegistryTypeOK, LeaseTypes, CardTypes, ShutdownTypes

RegistryOK ==
    /\ LeaseTypes /\ CardTypes /\ ShutdownTypes
    /\ \A r \in Runtimes : LeaseOK(r) /\ QueueOK(r) /\ CardsOK(r)

\* What a registry keeps when another one is at work.
SameLease(r) ==
    /\ lease'[r] = lease[r] /\ renewals'[r] = renewals[r] /\ renewal'[r] = renewal[r]
    /\ startOf'[r] = startOf[r] /\ shutdown'[r] = shutdown[r]
SameCards(r) ==
    /\ publications'[r] = publications[r] /\ writing'[r] = writing[r]
    /\ metadata'[r] = metadata[r] /\ previous'[r] = previous[r] /\ card'[r] = card[r]
    /\ shutdown'[r] = shutdown[r] /\ awaited'[r] = awaited[r]

LEMMA Stays ==
    ASSUME NEW r
    PROVE  /\ LeaseOK(r) /\ SameLease(r) => LeaseOK(r)'
           /\ QueueOK(r) /\ publications'[r] = publications[r] /\ renewal'[r] = renewal[r] => QueueOK(r)'
           /\ CardsOK(r) /\ SameCards(r) => CardsOK(r)'
<1>1. LeaseOK(r) /\ SameLease(r) => LeaseOK(r)'
  BY DEF LeaseOK, SameLease
<1>2. CardsOK(r) /\ SameCards(r) => CardsOK(r)'
  BY DEF CardsOK, SameCards, Patched
<1>3. QueueOK(r) /\ publications'[r] = publications[r] /\ renewal'[r] = renewal[r] => QueueOK(r)'
  BY DEF QueueOK
<1> QED
  BY <1>1, <1>2, <1>3

\* It is enough to look at the registry that is at work.
LEMMA OneAtWork ==
    ASSUME RegistryOK, NEW s \in Runtimes,
           LeaseTypes', CardTypes', ShutdownTypes',
           \A r \in Runtimes \ {s} : SameLease(r) /\ SameCards(r),
           LeaseOK(s)', QueueOK(s)', CardsOK(s)'
    PROVE  RegistryOK'
<1>1. ASSUME NEW r \in Runtimes PROVE LeaseOK(r)' /\ QueueOK(r)' /\ CardsOK(r)'
  <2>1. CASE r = s
    BY <2>1
  <2>2. CASE r # s
    BY <2>2, Stays DEF RegistryOK, SameLease, SameCards
  <2> QED
    BY <2>1, <2>2
<1> QED
  BY <1>1 DEF RegistryOK

\* The first start.
LEMMA StartLeaseOK ==
    ASSUME RegistryOK, NEW s \in Runtimes, StartLease(s)
    PROVE  RegistryOK'
<1> USE DEF StartLease, cardVars
<1>1. LeaseTypes /\ CardTypes /\ ShutdownTypes /\ LeaseOK(s) /\ CardsOK(s)
  BY DEF RegistryOK
<1>2. renewals[s] \in Seq({"start", "timer"}) /\ renewals[s] = <<>>
  BY <1>1 DEF LeaseTypes, LeaseOK
<1>3. Append(renewals[s], "start") \in Seq({"start", "timer"})
      /\ \A i \in DOMAIN Append(renewals[s], "start") : i = 1
  BY <1>2, AppendFacts, EmptySeq, LenProperties
<1>4. LeaseTypes'
  BY <1>1, <1>3 DEF LeaseTypes
<1>5. CardTypes' /\ ShutdownTypes'
  BY <1>1 DEF CardTypes, ShutdownTypes
<1>6. \A r \in Runtimes \ {s} : SameLease(r) /\ SameCards(r)
  BY <1>1 DEF LeaseTypes, SameLease, SameCards
<1>7. LeaseOK(s)'
  <2>1. /\ lease'[s] = "running" /\ renewals'[s] = Append(renewals[s], "start")
        /\ startOf'[s] = "pending" /\ renewal'[s] = renewal[s] /\ shutdown'[s] = shutdown[s]
        /\ lease[s] = "idle"
    BY <1>1 DEF LeaseTypes
  <2>2. renewal[s] = "waiting"
    BY <1>1, <1>2 DEF LeaseOK
  <2> QED
    BY <1>1, <1>3, <2>1, <2>2 DEF LeaseOK
<1>8. CardsOK(s)'
  BY <1>1, Stays DEF SameCards
<1>9. QueueOK(s)'
  BY Stays DEF RegistryOK
<1> QED
  BY <1>4, <1>5, <1>6, <1>7, <1>8, <1>9, OneAtWork

LEMMA RenewalTimerTicksOK ==
    ASSUME RegistryOK, NEW s \in Runtimes, RenewalTimerTicks(s)
    PROVE  RegistryOK'
<1> USE DEF RenewalTimerTicks, cardVars
<1>1. LeaseTypes /\ CardTypes /\ ShutdownTypes /\ LeaseOK(s) /\ CardsOK(s)
  BY DEF RegistryOK
<1>2. renewals[s] \in Seq({"start", "timer"})
  BY <1>1 DEF LeaseTypes
<1>3. /\ Append(renewals[s], "timer") \in Seq({"start", "timer"})
      /\ Append(renewals[s], "timer") # <<>>
      /\ \A i \in DOMAIN Append(renewals[s], "timer") :
            Append(renewals[s], "timer")[i] = "start" => i \in DOMAIN renewals[s] /\ renewals[s][i] = "start"
  <2>1. "timer" \in {"start", "timer"} /\ "timer" # "start"
    OBVIOUS
  <2>2. /\ Append(renewals[s], "timer") \in Seq({"start", "timer"})
        /\ Append(renewals[s], "timer") # <<>>
        /\ \A i \in DOMAIN Append(renewals[s], "timer") :
             \/ i \in DOMAIN renewals[s] /\ Append(renewals[s], "timer")[i] = renewals[s][i]
             \/ Append(renewals[s], "timer")[i] = "timer"
    BY <1>2, <2>1, AppendFacts
  <2> QED
    BY <2>1, <2>2
<1>4. LeaseTypes'
  BY <1>1, <1>3 DEF LeaseTypes
<1>5. CardTypes' /\ ShutdownTypes'
  BY <1>1 DEF CardTypes, ShutdownTypes
<1>6. \A r \in Runtimes \ {s} : SameLease(r) /\ SameCards(r)
  BY <1>1 DEF LeaseTypes, SameLease, SameCards
<1>7. LeaseOK(s)'
  <2>1. renewals'[s] = Append(renewals[s], "timer") /\ lease[s] = "running"
    BY <1>1 DEF LeaseTypes
  <2> QED
    BY <1>1, <1>3, <2>1 DEF LeaseOK
<1>8. CardsOK(s)'
  BY <1>1, Stays DEF SameCards
<1>9. QueueOK(s)'
  BY Stays DEF RegistryOK
<1> QED
  BY <1>4, <1>5, <1>6, <1>7, <1>8, <1>9, OneAtWork

\* What is asked for goes behind what there is.
LEMMA AppendPublication ==
    ASSUME RegistryOK, NEW s \in Runtimes, NEW p \in Publications,
           publications' = [publications EXCEPT ![s] = Append(@, p)],
           UNCHANGED <<writing, cardVars, shutdown, awaited>>
    PROVE  /\ CardTypes' /\ ShutdownTypes'
           /\ \A r \in Runtimes \ {s} : SameCards(r)
           /\ CardsOK(s)'
           /\ \A i \in DOMAIN publications'[s] :
                \/ i \in DOMAIN publications[s] /\ publications'[s][i] = publications[s][i]
                \/ i = Len(publications[s]) + 1 /\ publications'[s][i] = p
<1> USE DEF cardVars
<1>1. CardTypes /\ ShutdownTypes /\ CardsOK(s)
  BY DEF RegistryOK
<1>2. publications[s] \in Seq(Publications) /\ publications'[s] = Append(publications[s], p)
  BY <1>1 DEF CardTypes
<1>3. /\ Append(publications[s], p) \in Seq(Publications)
      /\ Append(publications[s], p) # <<>>
      /\ publications[s] # <<>> => Head(Append(publications[s], p)) = Head(publications[s])
      /\ \A i \in DOMAIN Append(publications[s], p) :
            \/ i \in DOMAIN publications[s] /\ Append(publications[s], p)[i] = publications[s][i]
            \/ i = Len(publications[s]) + 1 /\ Append(publications[s], p)[i] = p
  BY <1>2, AppendFacts
<1>4. CardTypes' /\ ShutdownTypes'
  BY <1>1, <1>3 DEF CardTypes, ShutdownTypes
<1>5. \A r \in Runtimes \ {s} : SameCards(r)
  BY <1>1 DEF CardTypes, SameCards
<1>6. CardsOK(s)'
  BY <1>1, <1>2, <1>3 DEF CardsOK, Patched
<1> QED
  BY <1>2, <1>3, <1>4, <1>5, <1>6

LEMMA RenewalTurnOK ==
    ASSUME RegistryOK, NEW s \in Runtimes, RenewalTurn(s)
    PROVE  RegistryOK'
<1> USE DEF RenewalTurn
<1>1. LeaseTypes /\ CardTypes /\ ShutdownTypes /\ LeaseOK(s) /\ CardsOK(s)
  BY DEF RegistryOK
<1>2. LeaseTypes'
  BY <1>1 DEF LeaseTypes
<1>3. \A r \in Runtimes \ {s} : SameLease(r)
  BY <1>1 DEF LeaseTypes, SameLease
<1>4. LeaseOK(s)'
  BY <1>1 DEF LeaseOK
<1>5. CASE publications' = publications
  <2>1. CardTypes' /\ ShutdownTypes' /\ CardsOK(s)' /\ \A r \in Runtimes \ {s} : SameCards(r)
    BY <1>1, <1>5, Stays DEF CardTypes, ShutdownTypes, SameCards, cardVars
  <2>2. renewal[s] = "waiting"
    OBVIOUS
  <2>3. QueueOK(s)'
    BY <1>5, <2>2 DEF RegistryOK, QueueOK
  <2> QED
    BY <1>2, <1>3, <1>4, <2>1, <2>3, OneAtWork
<1>6. CASE publications' = [publications EXCEPT ![s] = Append(@, Renewal)]
  <2>1. Renewal \in Publications
    BY DEF Renewal, Publications
  <2>2. CardTypes' /\ ShutdownTypes' /\ CardsOK(s)' /\ \A r \in Runtimes \ {s} : SameCards(r)
    BY <1>6, <2>1, AppendPublication
  <2>3. \A i \in DOMAIN publications'[s] :
           \/ i \in DOMAIN publications[s] /\ publications'[s][i] = publications[s][i]
           \/ i = Len(publications[s]) + 1 /\ publications'[s][i] = Renewal
    BY <1>6, <2>1, AppendPublication
  <2>4. \A i \in DOMAIN publications[s] : publications[s][i].by # "lease"
    BY DEF RegistryOK, QueueOK
  <2>5. renewal'[s] = "queued"
    <3>1. publications'[s] # publications[s]
      <4>1. publications[s] \in Seq(Publications)
        BY <1>1 DEF CardTypes
      <4>2. Len(Append(publications[s], Renewal)) = Len(publications[s]) + 1 /\ Len(publications[s]) \in Nat
        BY <2>1, <4>1, AppendProperties, LenProperties
      <4> QED
        BY <1>1, <1>6, <4>2 DEF CardTypes
    <3> QED
      BY <1>1, <3>1 DEF LeaseTypes
  <2>6. QueueOK(s)'
    BY <2>3, <2>4, <2>5 DEF QueueOK
  <2> QED
    BY <1>2, <1>3, <1>4, <2>2, <2>6, OneAtWork
<1> QED
  BY <1>5, <1>6

LEMMA UpdateMetadataOK ==
    ASSUME RegistryOK, NEW s \in Runtimes, NEW f \in Fields, NEW v \in Values, UpdateMetadata(s, f, v)
    PROVE  RegistryOK'
<1> USE DEF UpdateMetadata, leaseVars
<1>1. LeaseTypes /\ LeaseOK(s)
  BY DEF RegistryOK
<1>2. LeaseTypes' /\ LeaseOK(s)' /\ \A r \in Runtimes \ {s} : SameLease(r)
  BY <1>1, Stays DEF LeaseTypes, SameLease
<1>3. [by |-> "update", field |-> f, value |-> v] \in Publications
  BY DEF Publications
<1>4. CardTypes' /\ ShutdownTypes' /\ CardsOK(s)' /\ \A r \in Runtimes \ {s} : SameCards(r)
  BY <1>3, AppendPublication
<1>5. \A i \in DOMAIN publications'[s] :
         \/ i \in DOMAIN publications[s] /\ publications'[s][i] = publications[s][i]
         \/ publications'[s][i].by = "update"
  BY <1>3, AppendPublication
<1>6. QueueOK(s)'
  BY <1>5 DEF RegistryOK, QueueOK
<1> QED
  BY <1>2, <1>4, <1>6, OneAtWork

LEMMA RenewalSettlesOK ==
    ASSUME RegistryOK, NEW s \in Runtimes, RenewalSettles(s)
    PROVE  RegistryOK'
<1> USE DEF RenewalSettles, cardVars
<1>1. LeaseTypes /\ CardTypes /\ ShutdownTypes /\ LeaseOK(s) /\ CardsOK(s)
  BY DEF RegistryOK
<1>2. renewals[s] \in Seq({"start", "timer"}) /\ renewals[s] # <<>>
  BY <1>1 DEF LeaseTypes, LeaseOK
<1>3. /\ Tail(renewals[s]) \in Seq({"start", "timer"})
      /\ \A i \in DOMAIN Tail(renewals[s]) :
            i + 1 # 1 /\ i + 1 \in DOMAIN renewals[s] /\ Tail(renewals[s])[i] = renewals[s][i + 1]
      /\ Head(renewals[s]) = renewals[s][1] /\ 1 \in DOMAIN renewals[s]
  BY <1>2, TailFacts
<1>4. LeaseTypes'
  BY <1>1, <1>3 DEF LeaseTypes
<1>5. CardTypes' /\ ShutdownTypes'
  BY <1>1 DEF CardTypes, ShutdownTypes
<1>6. \A r \in Runtimes \ {s} : SameLease(r) /\ SameCards(r)
  BY <1>1 DEF LeaseTypes, SameLease, SameCards
<1>7. LeaseOK(s)'
  <2>1. \A i \in DOMAIN Tail(renewals[s]) : Tail(renewals[s])[i] # "start"
    BY <1>1, <1>3 DEF LeaseOK
  <2>2. /\ renewals'[s] = Tail(renewals[s]) /\ renewal'[s] = "waiting" /\ shutdown'[s] = shutdown[s]
        /\ \/ lease'[s] = lease[s] /\ startOf'[s] = startOf[s]
           \/ lease'[s] = lease[s] /\ startOf'[s] = "done" /\ startOf[s] = "pending"
           \/ lease'[s] = "stopped" /\ startOf'[s] = "failing"
    BY <1>1, <1>3 DEF LeaseTypes, LeaseOK
  <2>3. lease[s] # "idle"
    BY <1>1, <1>2 DEF LeaseOK
  <2> HIDE DEF RenewalSettles
  <2>4. CASE lease'[s] = lease[s] /\ startOf'[s] = startOf[s]
    BY <1>1, <2>1, <2>2, <2>3, <2>4 DEF LeaseOK
  <2>5. CASE lease'[s] = lease[s] /\ startOf'[s] = "done" /\ startOf[s] = "pending"
    BY <1>1, <2>1, <2>2, <2>3, <2>5 DEF LeaseOK
  <2>6. CASE lease'[s] = "stopped" /\ startOf'[s] = "failing"
    BY <1>1, <2>1, <2>2, <2>6 DEF LeaseOK
  <2> QED
    BY <2>2, <2>4, <2>5, <2>6
<1>8. CardsOK(s)'
  BY <1>1, Stays DEF SameCards
<1>9. QueueOK(s)'
  BY DEF RegistryOK, QueueOK
<1> QED
  BY <1>4, <1>5, <1>6, <1>7, <1>8, <1>9, OneAtWork

LEMMA StartFailsOK ==
    ASSUME RegistryOK, NEW s \in Runtimes, StartFails(s)
    PROVE  RegistryOK'
<1> USE DEF StartFails, cardVars
<1>1. LeaseTypes /\ CardTypes /\ ShutdownTypes /\ LeaseOK(s) /\ CardsOK(s)
  BY DEF RegistryOK
<1>2. LeaseTypes' /\ CardTypes' /\ ShutdownTypes'
  BY <1>1 DEF LeaseTypes, CardTypes, ShutdownTypes
<1>3. \A r \in Runtimes \ {s} : SameLease(r) /\ SameCards(r)
  BY <1>1 DEF LeaseTypes, SameLease, SameCards
<1>4. LeaseOK(s)'
  <2>1. /\ renewals[s] = <<>> /\ renewals'[s] = <<>> /\ startOf[s] = "failing" /\ startOf'[s] = "failed"
        /\ lease'[s] = lease[s] /\ renewal'[s] = renewal[s] /\ shutdown'[s] = shutdown[s]
    BY <1>1 DEF LeaseTypes
  <2> QED
    BY <1>1, <2>1 DEF LeaseOK
<1>5. CardsOK(s)'
  BY <1>1, Stays DEF SameCards
<1>6. QueueOK(s)'
  BY Stays DEF RegistryOK
<1> QED
  BY <1>2, <1>3, <1>4, <1>5, <1>6, OneAtWork

\* The publication under way is through: what stays of the queue, and who hears of it.
LEMMA SettledFacts ==
    ASSUME RegistryOK, NEW s \in Runtimes, NEW ok, Settled(s, ok), publications[s] # <<>>,
           UNCHANGED <<lease, renewals, startOf, shutdown>>
    PROVE  /\ publications' \in [Runtimes -> Seq(Publications)]
           /\ writing' \in [Runtimes -> {"no", "temporary", "renamed"}]
           /\ ShutdownTypes' /\ LeaseTypes' /\ LeaseOK(s)' /\ QueueOK(s)'
           /\ writing'[s] = "no"
           /\ \A r \in Runtimes \ {s} :
                /\ SameLease(r)
                /\ publications'[r] = publications[r] /\ writing'[r] = writing[r]
                /\ awaited'[r] = awaited[r]
<1> USE DEF Settled
<1>1. LeaseTypes /\ CardTypes /\ ShutdownTypes /\ LeaseOK(s) /\ CardsOK(s)
  BY DEF RegistryOK
<1>2. publications[s] \in Seq(Publications)
  BY <1>1 DEF CardTypes
<1>3. /\ Tail(publications[s]) \in Seq(Publications) /\ Head(publications[s]) \in Publications
      /\ Head(publications[s]) = publications[s][1] /\ 1 \in DOMAIN publications[s]
      /\ \A i \in DOMAIN Tail(publications[s]) :
            i \in Nat /\ i + 1 # 1 /\ i + 1 \in DOMAIN publications[s]
            /\ Tail(publications[s])[i] = publications[s][i + 1]
  BY <1>2, TailFacts
<1>4. publications' \in [Runtimes -> Seq(Publications)]
      /\ writing' \in [Runtimes -> {"no", "temporary", "renamed"}]
      /\ writing'[s] = "no"
  BY <1>1, <1>3 DEF CardTypes
<1>5. ShutdownTypes'
  <2>1. (IF awaited[s] > 0 THEN awaited[s] - 1 ELSE 0) \in Nat
    BY <1>1 DEF ShutdownTypes
  <2> QED
    BY <1>1, <2>1 DEF ShutdownTypes
<1>6. Head(publications[s]).by \in {"lease", "update"}
  BY <1>3 DEF Publications
<1>7. LeaseTypes'
  BY <1>1 DEF LeaseTypes
<1>8. renewal'[s] # "waiting" => renewals[s] # <<>>
  <2>1. Head(publications[s]).by = "lease" => renewal[s] = "queued"
    BY <1>3 DEF RegistryOK, QueueOK
  <2> QED
    BY <1>1, <1>6, <2>1 DEF LeaseOK, LeaseTypes
<1>9. LeaseOK(s)'
  BY <1>1, <1>8 DEF LeaseOK
<1>10. \A r \in Runtimes \ {s} :
          /\ SameLease(r)
          /\ publications'[r] = publications[r] /\ writing'[r] = writing[r]
          /\ awaited'[r] = awaited[r]
  BY <1>1 DEF LeaseTypes, CardTypes, ShutdownTypes, SameLease
<1>11. QueueOK(s)'
  <2>1. publications'[s] = Tail(publications[s])
    BY <1>1 DEF CardTypes
  <2>2. CASE Head(publications[s]).by = "lease"
    <3>1. \A i \in DOMAIN Tail(publications[s]) : Tail(publications[s])[i].by # "lease"
      BY <1>3, <2>2 DEF RegistryOK, QueueOK
    <3> QED
      BY <2>1, <3>1 DEF QueueOK
  <2>3. CASE Head(publications[s]).by = "update"
    <3>1. renewal' = renewal
      BY <2>3
    <3>2. \A i, j \in DOMAIN Tail(publications[s]) : i + 1 = j + 1 => i = j
      BY <1>3
    <3>3. ASSUME NEW i \in DOMAIN publications'[s], publications'[s][i].by = "lease"
          PROVE  /\ renewal'[s] = "queued"
                 /\ \A j \in DOMAIN publications'[s] : publications'[s][j].by = "lease" => i = j
      <4>1. i \in DOMAIN Tail(publications[s]) /\ publications[s][i + 1].by = "lease"
        BY <1>3, <2>1, <3>3
      <4>2. renewal[s] = "queued"
        BY <1>3, <4>1 DEF RegistryOK, QueueOK
      <4>3. ASSUME NEW j \in DOMAIN publications'[s], publications'[s][j].by = "lease"
            PROVE  i = j
        <5>1. j \in DOMAIN Tail(publications[s]) /\ publications[s][j + 1].by = "lease"
          BY <1>3, <2>1, <4>3
        <5>2. i + 1 = j + 1
          BY <1>3, <4>1, <5>1 DEF RegistryOK, QueueOK
        <5> QED
          BY <3>2, <4>1, <5>1, <5>2
      <4> QED
        BY <3>1, <4>2, <4>3
    <3> QED
      BY <3>3 DEF QueueOK
  <2> QED
    BY <1>6, <2>2, <2>3
<1> QED
  BY <1>4, <1>5, <1>7, <1>9, <1>10, <1>11

\* The metadata with a change.
LEMMA PatchedIsMetadata ==
    ASSUME NEW m \in Metadata, NEW p \in Publications
    PROVE  Patched(m, p) \in Metadata
<1>1. CASE p.by = "update"
  <2>1. p.field \in Fields /\ p.value \in Values
    BY <1>1 DEF Publications
  <2> QED
    BY <1>1, <2>1 DEF Patched, Metadata
<1>2. CASE p.by # "update"
  BY <1>2 DEF Patched
<1> QED
  BY <1>1, <1>2

LEMMA PublicationTurnOK ==
    ASSUME RegistryOK, NEW s \in Runtimes, PublicationTurn(s)
    PROVE  RegistryOK'
<1>1. LeaseTypes /\ CardTypes /\ ShutdownTypes /\ LeaseOK(s) /\ CardsOK(s)
  BY DEF RegistryOK
<1>2. /\ publications[s] # <<>> /\ writing[s] = "no"
      /\ UNCHANGED <<lease, renewals, startOf, card, file, shutdown>>
  BY DEF PublicationTurn
<1>3. CASE Settled(s, FALSE) /\ UNCHANGED <<metadata, previous>>
  <2>1. /\ publications' \in [Runtimes -> Seq(Publications)]
        /\ writing' \in [Runtimes -> {"no", "temporary", "renamed"}]
        /\ ShutdownTypes' /\ LeaseTypes' /\ LeaseOK(s)' /\ QueueOK(s)'
        /\ writing'[s] = "no"
        /\ \A r \in Runtimes \ {s} :
             /\ SameLease(r)
             /\ publications'[r] = publications[r] /\ writing'[r] = writing[r]
             /\ awaited'[r] = awaited[r]
    BY <1>2, <1>3, SettledFacts
  <2>2. CardTypes'
    BY <1>1, <1>2, <1>3, <2>1 DEF CardTypes
  <2>3. \A r \in Runtimes \ {s} : SameCards(r)
    BY <1>2, <1>3, <2>1 DEF SameCards
  <2>4. CardsOK(s)'
    BY <1>1, <1>2, <1>3, <2>1 DEF CardsOK
  <2> QED
    BY <2>1, <2>2, <2>3, <2>4, OneAtWork
<1>4. CASE /\ ~Stopped(s)
           /\ previous' = [previous EXCEPT ![s] = metadata[s]]
           /\ metadata' = [metadata EXCEPT ![s] = Patched(@, Head(publications[s]))]
           /\ writing' = [writing EXCEPT ![s] = "temporary"]
           /\ UNCHANGED <<publications, awaited, renewal>>
  <2>1. publications[s] \in Seq(Publications) /\ metadata[s] \in Metadata
    BY <1>1 DEF CardTypes
  <2>2. Patched(metadata[s], Head(publications[s])) \in Metadata
    BY <1>2, <2>1, TailFacts, PatchedIsMetadata
  <2>3. LeaseTypes' /\ ShutdownTypes'
    BY <1>1, <1>2, <1>4 DEF LeaseTypes, ShutdownTypes
  <2>4. CardTypes'
    BY <1>1, <1>2, <1>4, <2>2 DEF CardTypes
  <2>5. \A r \in Runtimes \ {s} : SameLease(r) /\ SameCards(r)
    BY <1>1, <1>2, <1>4 DEF CardTypes, SameLease, SameCards
  <2>6. LeaseOK(s)' /\ QueueOK(s)'
    BY <1>1, <1>2, <1>4, Stays DEF SameLease, RegistryOK
  <2>7. CardsOK(s)'
    <3>1. /\ metadata'[s] = Patched(metadata[s], Head(publications[s]))
          /\ previous'[s] = metadata[s] /\ writing'[s] = "temporary"
          /\ publications' = publications /\ card' = card /\ shutdown' = shutdown
      BY <1>1, <1>2, <1>4 DEF CardTypes
    <3>2. metadata[s] = previous[s] /\ shutdown[s] = "no"
      BY <1>1, <1>2, <1>4 DEF CardsOK, Stopped
    <3> QED
      BY <1>1, <1>2, <3>1, <3>2 DEF CardsOK, Patched
  <2> QED
    BY <2>3, <2>4, <2>5, <2>6, <2>7, OneAtWork
<1> QED
  BY <1>3, <1>4 DEF PublicationTurn

LEMMA CardRenamedOK ==
    ASSUME RegistryOK, NEW s \in Runtimes, CardRenamed(s)
    PROVE  RegistryOK'
<1> USE DEF CardRenamed, leaseVars
<1>1. LeaseTypes /\ CardTypes /\ ShutdownTypes /\ LeaseOK(s) /\ QueueOK(s) /\ CardsOK(s)
  BY DEF RegistryOK
<1>2. LeaseTypes' /\ CardTypes' /\ ShutdownTypes'
  BY <1>1 DEF LeaseTypes, CardTypes, ShutdownTypes
<1>3. \A r \in Runtimes \ {s} : SameLease(r) /\ SameCards(r)
  BY <1>1 DEF CardTypes, SameLease, SameCards
<1>4. LeaseOK(s)' /\ QueueOK(s)'
  BY <1>1, Stays DEF SameLease
<1>5. CardsOK(s)'
  BY <1>1 DEF CardsOK, CardTypes, Patched
<1> QED
  BY <1>2, <1>3, <1>4, <1>5, OneAtWork

LEMMA PublicationSucceedsOK ==
    ASSUME RegistryOK, NEW s \in Runtimes, PublicationSucceeds(s)
    PROVE  RegistryOK'
<1>1. LeaseTypes /\ CardTypes /\ ShutdownTypes /\ LeaseOK(s) /\ CardsOK(s)
  BY DEF RegistryOK
<1>2. /\ writing[s] = "renamed" /\ Settled(s, TRUE)
      /\ card' = [card EXCEPT ![s] = metadata[s]] /\ previous' = [previous EXCEPT ![s] = metadata[s]]
      /\ UNCHANGED <<lease, renewals, startOf, metadata, file, shutdown>>
  BY DEF PublicationSucceeds
<1>3. publications[s] # <<>>
  BY <1>1, <1>2 DEF CardsOK
<1>4. /\ publications' \in [Runtimes -> Seq(Publications)]
      /\ writing' \in [Runtimes -> {"no", "temporary", "renamed"}]
      /\ ShutdownTypes' /\ LeaseTypes' /\ LeaseOK(s)' /\ QueueOK(s)'
      /\ writing'[s] = "no"
      /\ \A r \in Runtimes \ {s} :
           /\ SameLease(r)
           /\ publications'[r] = publications[r] /\ writing'[r] = writing[r]
           /\ awaited'[r] = awaited[r]
  BY <1>2, <1>3, SettledFacts
<1>5. CardTypes'
  BY <1>1, <1>2, <1>4 DEF CardTypes
<1>6. \A r \in Runtimes \ {s} : SameCards(r)
  BY <1>1, <1>2, <1>4 DEF SameCards, CardTypes
<1>7. CardsOK(s)'
  BY <1>1, <1>2, <1>4 DEF CardsOK, CardTypes
<1> QED
  BY <1>4, <1>5, <1>6, <1>7, OneAtWork

LEMMA PublicationFailsOK ==
    ASSUME RegistryOK, NEW s \in Runtimes, PublicationFails(s)
    PROVE  RegistryOK'
<1>1. LeaseTypes /\ CardTypes /\ ShutdownTypes /\ LeaseOK(s) /\ CardsOK(s)
  BY DEF RegistryOK
<1>2. /\ writing[s] # "no" /\ Settled(s, FALSE)
      /\ metadata' = [metadata EXCEPT ![s] = previous[s]]
      /\ UNCHANGED <<lease, renewals, startOf, previous, card, file, shutdown>>
  BY DEF PublicationFails
<1>3. publications[s] # <<>>
  BY <1>1, <1>2 DEF CardsOK
<1>4. /\ publications' \in [Runtimes -> Seq(Publications)]
      /\ writing' \in [Runtimes -> {"no", "temporary", "renamed"}]
      /\ ShutdownTypes' /\ LeaseTypes' /\ LeaseOK(s)' /\ QueueOK(s)'
      /\ writing'[s] = "no"
      /\ \A r \in Runtimes \ {s} :
           /\ SameLease(r)
           /\ publications'[r] = publications[r] /\ writing'[r] = writing[r]
           /\ awaited'[r] = awaited[r]
  BY <1>2, <1>3, SettledFacts
<1>5. CardTypes'
  BY <1>1, <1>2, <1>4 DEF CardTypes
<1>6. \A r \in Runtimes \ {s} : SameCards(r)
  BY <1>1, <1>2, <1>4 DEF SameCards, CardTypes
<1>7. CardsOK(s)'
  BY <1>1, <1>2, <1>4 DEF CardsOK, CardTypes
<1> QED
  BY <1>4, <1>5, <1>6, <1>7, OneAtWork

\* Shutdown: it goes on only when no write is under way.
LEMMA ShutdownGoesOn ==
    ASSUME RegistryOK, NEW s \in Runtimes,
           shutdown[s] # "no", NEW stage \in {"queue", "removal", "done"},
           shutdown' = [shutdown EXCEPT ![s] = stage],
           awaited' = awaited \/ awaited' = [awaited EXCEPT ![s] = Len(publications[s])],
           card' = card \/ card' = [card EXCEPT ![s] = NoCard],
           file' \in {file, [file EXCEPT ![s] = NoCard]},
           stage = "queue" /\ writing[s] # "no" => awaited'[s] > 0,
           stage \in {"removal", "done"} => writing[s] = "no",
           UNCHANGED <<leaseVars, publications, writing, metadata, previous>>
    PROVE  RegistryOK'
<1> USE DEF leaseVars
<1>1. LeaseTypes /\ CardTypes /\ ShutdownTypes /\ LeaseOK(s) /\ QueueOK(s) /\ CardsOK(s)
  BY DEF RegistryOK
<1>2. LeaseTypes'
  BY <1>1 DEF LeaseTypes
<1>3. ShutdownTypes'
  <2>1. Len(publications[s]) \in Nat
    BY <1>1, LenProperties DEF CardTypes
  <2> QED
    BY <1>1, <2>1 DEF ShutdownTypes
<1>4. CardTypes'
  BY <1>1 DEF CardTypes
<1>5. \A r \in Runtimes \ {s} : SameLease(r) /\ SameCards(r)
  BY <1>1 DEF CardTypes, ShutdownTypes, SameLease, SameCards
<1>6. LeaseOK(s)' /\ QueueOK(s)'
  <2>1. shutdown'[s] # "no"
    BY <1>1 DEF ShutdownTypes
  <2> QED
    BY <1>1, <2>1, Stays DEF LeaseOK
<1>7. CardsOK(s)'
  <2>1. shutdown'[s] = stage /\ (card'[s] = card[s] \/ card'[s] = NoCard)
    BY <1>1 DEF ShutdownTypes, CardTypes
  <2> QED
    BY <1>1, <2>1 DEF CardsOK, Patched
<1> QED
  BY <1>2, <1>3, <1>4, <1>5, <1>6, <1>7, OneAtWork

LEMMA ShutdownStepsOK ==
    ASSUME RegistryOK, NEW s \in Runtimes,
           AwaitPublications(s) \/ PublicationsSettled(s) \/ RemoveCard(s)
    PROVE  RegistryOK'
<1> USE DEF cardVars
<1>1. CardTypes /\ ShutdownTypes /\ CardsOK(s)
  BY DEF RegistryOK
<1>2. CASE AwaitPublications(s)
  <2>1. awaited'[s] = Len(publications[s])
    BY <1>1, <1>2 DEF AwaitPublications, ShutdownTypes
  <2>2. writing[s] # "no" => Len(publications[s]) > 0
    <3>1. publications[s] # <<>> => Len(publications[s]) \in Nat /\ Len(publications[s]) # 0
      BY <1>1, EmptySeq, LenProperties DEF CardTypes
    <3> QED
      BY <1>1, <3>1 DEF CardsOK
  <2> QED
    BY <1>2, <2>1, <2>2, ShutdownGoesOn DEF AwaitPublications
<1>3. CASE PublicationsSettled(s)
  <2>1. writing[s] = "no"
    BY <1>1, <1>3 DEF PublicationsSettled, CardsOK
  <2> QED
    BY <1>3, <2>1, ShutdownGoesOn DEF PublicationsSettled
<1>4. CASE RemoveCard(s)
  <2>1. writing[s] = "no"
    BY <1>1, <1>4 DEF RemoveCard, CardsOK
  <2> QED
    BY <1>4, <2>1, ShutdownGoesOn DEF RemoveCard
<1> QED
  BY <1>2, <1>3, <1>4

LEMMA ShutDownOK ==
    ASSUME RegistryOK, NEW s \in Runtimes, ShutDown(s)
    PROVE  RegistryOK'
<1>1. LeaseTypes /\ CardTypes /\ ShutdownTypes /\ LeaseOK(s) /\ QueueOK(s) /\ CardsOK(s)
  BY DEF RegistryOK
<1>2. CASE shutdown[s] # "no"
  <2>1. UNCHANGED registryVars
    BY <1>2 DEF ShutDown
  <2> QED
    BY <2>1
    DEF registryVars, RegistryOK, LeaseTypes, CardTypes, ShutdownTypes, LeaseOK, QueueOK, CardsOK,
        Patched
<1>3. CASE shutdown[s] = "no"
  <2>1. /\ shutdown' = [shutdown EXCEPT ![s] = "lease"] /\ lease' = [lease EXCEPT ![s] = "stopped"]
        /\ UNCHANGED <<renewals, renewal, startOf, publications, writing, cardVars, awaited>>
    BY <1>3 DEF ShutDown
  <2>2. LeaseTypes' /\ CardTypes' /\ ShutdownTypes'
    BY <1>1, <2>1 DEF LeaseTypes, CardTypes, ShutdownTypes, cardVars
  <2>3. \A r \in Runtimes \ {s} : SameLease(r) /\ SameCards(r)
    BY <1>1, <2>1 DEF LeaseTypes, ShutdownTypes, SameLease, SameCards, cardVars
  <2>4. shutdown'[s] = "lease" /\ lease'[s] = "stopped"
    BY <1>1, <2>1 DEF LeaseTypes, ShutdownTypes
  <2>5. LeaseOK(s)' /\ QueueOK(s)'
    BY <1>1, <2>1, <2>4, Stays DEF LeaseOK
  <2>6. CardsOK(s)'
    BY <1>1, <2>1, <2>4 DEF CardsOK, Patched, cardVars
  <2> QED
    BY <2>2, <2>3, <2>5, <2>6, OneAtWork
<1> QED
  BY <1>2, <1>3

LEMMA RegistryStepOK ==
    ASSUME RegistryOK, NEW s \in Runtimes, RegistryStep(s)
    PROVE  RegistryOK'
BY RenewalTimerTicksOK, RenewalTurnOK, RenewalSettlesOK, StartFailsOK, PublicationTurnOK,
   CardRenamedOK, PublicationSucceedsOK, PublicationFailsOK, ShutdownStepsOK DEF RegistryStep

-----------------------------------------------------------------------------
(* All of the process. *)

\* TypeOK, but for the registries.
SessionTypes ==
    /\ generation \in 0 .. Cardinality(Runtimes)
    /\ active \in Runtimes \cup {None}
    /\ stopping \in Runtimes \cup {None}
CompositionTypes ==
    /\ bound \in [Runtimes -> BOOLEAN]
    /\ delivery \in [Runtimes -> BOOLEAN]
    /\ closing \in [Runtimes -> {"no", "registry", "transport", "closed", "failed"}]
HandlerTypes ==
    /\ handler \in [Handlers -> Stages]
    /\ target \in [Handlers -> Runtimes \cup {None}]
    /\ TargetsOK

LEMMA Parts == IInv <=> RegistryOK /\ SessionTypes /\ CompositionTypes /\ HandlerTypes
BY RegistryTypes
DEF IInv, TypeOK, RegistryOK, SessionTypes, CompositionTypes, HandlerTypes

LEMMA PartsOfNext ==
    ASSUME RegistryOK', SessionTypes', CompositionTypes', HandlerTypes'
    PROVE  IInv'
BY DEF IInv, TypeOK, RegistryTypeOK, RegistryOK, LeaseTypes, CardTypes, ShutdownTypes,
       SessionTypes, CompositionTypes, HandlerTypes

LEMMA RegistryRests ==
    ASSUME RegistryOK, UNCHANGED registryVars
    PROVE  RegistryOK'
BY DEF registryVars, RegistryOK, LeaseTypes, CardTypes, ShutdownTypes, LeaseOK, QueueOK, CardsOK,
       Patched

LEMMA Generations ==
    /\ Cardinality(Runtimes) \in Nat
    /\ \A n \in 0 .. Cardinality(Runtimes) : n < Cardinality(Runtimes) => n + 1 \in Runtimes
BY RuntimesAreGenerations, FS_CardinalityType

LEMMA GotoTypes ==
    ASSUME HandlerTypes, NEW h \in Handlers, NEW stage \in Stages, NEW r \in Runtimes \cup {None},
           Goto(h, stage, r), stage \in {"bind", "publish", "abort"} => r \in Runtimes
    PROVE  HandlerTypes'
<1>1. /\ handler' = [handler EXCEPT ![h] = stage]
      /\ target' = [target EXCEPT ![h] = r]
  BY DEF Goto
<1>2. /\ handler' \in [Handlers -> Stages]
      /\ target' \in [Handlers -> Runtimes \cup {None}]
  BY <1>1 DEF HandlerTypes
<1>3. TargetsOK'
  BY <1>1 DEF HandlerTypes, TargetsOK
<1> QED
  BY <1>2, <1>3 DEF HandlerTypes

LEMMA ShutDownCompositionOK ==
    ASSUME RegistryOK, CompositionTypes, NEW r \in Runtimes, ShutDownComposition(r)
    PROVE  RegistryOK' /\ CompositionTypes'
<1>1. CASE closing[r] # "no"
  <2>1. UNCHANGED <<registryVars, compositionVars>>
    BY <1>1 DEF ShutDownComposition
  <2> QED
    BY <2>1, RegistryRests DEF CompositionTypes, compositionVars
<1>2. CASE closing[r] = "no"
  <2>1. /\ delivery' = [delivery EXCEPT ![r] = FALSE]
        /\ closing' = [closing EXCEPT ![r] = "registry"]
        /\ ShutDown(r) /\ bound' = bound
    BY <1>2 DEF ShutDownComposition
  <2> QED
    BY <2>1, ShutDownOK DEF CompositionTypes
<1> QED
  BY <1>1, <1>2

LEMMA StopTypes ==
    ASSUME IInv, NEW h \in Handlers, NEW stage \in {"stopOld", "stopLast"}, Stop(h, stage)
    PROVE  IInv'
<1>1. RegistryOK /\ SessionTypes /\ CompositionTypes /\ HandlerTypes
  BY Parts
<1>2. active \in Runtimes
  BY <1>1 DEF Stop, SessionTypes
<1>3. RegistryOK' /\ CompositionTypes'
  BY <1>1, <1>2, ShutDownCompositionOK DEF Stop
<1>4. SessionTypes'
  BY <1>1, <1>2 DEF Stop, SessionTypes
<1>5. HandlerTypes'
  <2>1. stage \in Stages
    BY DEF Stages
  <2> QED
    BY <1>1, <1>2, <2>1, GotoTypes DEF Stop
<1> QED
  BY <1>3, <1>4, <1>5, PartsOfNext

LEMMA CreateTypes ==
    ASSUME IInv, NEW h \in Handlers, Create(h)
    PROVE  IInv'
<1>1. RegistryOK /\ SessionTypes /\ CompositionTypes /\ HandlerTypes
  BY Parts
<1>2. RegistryOK' /\ CompositionTypes'
  BY <1>1, RegistryRests DEF Create, compositionVars, CompositionTypes
<1>3. generation + 1 \in Runtimes /\ SessionTypes'
  BY <1>1, Generations DEF Create, SessionTypes
<1>4. HandlerTypes'
  BY <1>1, <1>3, GotoTypes DEF Create, Stages
<1> QED
  BY <1>2, <1>3, <1>4, PartsOfNext

LEMMA WaitForStopTypes ==
    ASSUME IInv, NEW h \in Handlers, NEW stage \in {"waitToStart", "waitToStop"},
           WaitForStop(h, stage)
    PROVE  IInv'
<1>1. RegistryOK /\ SessionTypes /\ CompositionTypes /\ HandlerTypes
  BY Parts
<1>2. RegistryOK' /\ CompositionTypes' /\ SessionTypes'
  BY <1>1, RegistryRests
  DEF WaitForStop, compositionVars, CompositionTypes, SessionTypes
<1>3. HandlerTypes'
  BY <1>1, GotoTypes DEF WaitForStop, Stages, SessionTypes
<1> QED
  BY <1>2, <1>3, PartsOfNext

\* A handler that returns has nothing to wait for.
LEMMA ReturnTypes ==
    ASSUME HandlerTypes, NEW h \in Handlers, Return(h)
    PROVE  HandlerTypes'
BY GotoTypes DEF Return, Stages

LEMMA HandlerStepTypes ==
    ASSUME IInv, NEW h \in Handlers, HandlerStep(h)
    PROVE  IInv'
<1>1. RegistryOK /\ SessionTypes /\ CompositionTypes /\ HandlerTypes
  BY Parts
<1>2. CASE OldIsStopped(h)
  <2>1. CASE Create(h)
    BY <2>1, CreateTypes
  <2>2. CASE WaitForStop(h, "waitToStart")
    BY <2>2, WaitForStopTypes
  <2>3. CASE /\ Return(h)
             /\ UNCHANGED <<registryVars, compositionVars, generation, active, stopping>>
    BY <1>1, <2>3, ReturnTypes, RegistryRests, PartsOfNext
    DEF compositionVars, CompositionTypes, SessionTypes
  <2> QED
    BY <1>2, <2>1, <2>2, <2>3 DEF OldIsStopped
<1>3. ASSUME Binds(h) PROVE IInv'
  <2>1. target[h] \in Runtimes
    BY <1>1, <1>3 DEF Binds, HandlerTypes, TargetsOK
  <2>2. RegistryOK'
    BY <1>1, <1>3, <2>1, StartLeaseOK DEF Binds
  <2>3. SessionTypes' /\ CompositionTypes'
    BY <1>1, <1>3 DEF Binds, SessionTypes, CompositionTypes
  <2>4. HandlerTypes'
    BY <1>1, <1>3, <2>1, GotoTypes DEF Binds, Stages
  <2> QED
    BY <2>2, <2>3, <2>4, PartsOfNext
<1>4. CASE BindFails(h) \/ HandlerReturns(h)
  <2>1. Return(h) /\ UNCHANGED <<registryVars, compositionVars, generation, active, stopping>>
    BY <1>4 DEF BindFails, HandlerReturns
  <2> QED
    BY <1>1, <2>1, ReturnTypes, RegistryRests, PartsOfNext
    DEF compositionVars, CompositionTypes, SessionTypes
<1>5. ASSUME StartSucceeds(h) PROVE IInv'
  <2>1. target[h] \in Runtimes
    BY <1>1, <1>5 DEF StartSucceeds, HandlerTypes, TargetsOK
  <2>2. RegistryOK' /\ HandlerTypes'
    BY <1>1, <1>5, ReturnTypes, RegistryRests DEF StartSucceeds
  <2>3. SessionTypes' /\ CompositionTypes'
    BY <1>1, <1>5, <2>1 DEF StartSucceeds, SessionTypes, CompositionTypes
  <2> QED
    BY <2>2, <2>3, PartsOfNext
<1>6. ASSUME AbortStart(h) PROVE IInv'
  <2>1. target[h] \in Runtimes
    BY <1>1, <1>6 DEF AbortStart, HandlerTypes, TargetsOK
  <2>2. RegistryOK' /\ CompositionTypes'
    BY <1>1, <1>6, <2>1, ShutDownCompositionOK DEF AbortStart
  <2>3. HandlerTypes' /\ SessionTypes'
    BY <1>1, <1>6, <2>1, GotoTypes DEF AbortStart, Stages, SessionTypes
  <2> QED
    BY <2>2, <2>3, PartsOfNext
<1> QED
  BY <1>2, <1>3, <1>4, <1>5, <1>6 DEF HandlerStep

LEMMA InitIInv == Init => IInv
<1> SUFFICES ASSUME Init PROVE IInv
  OBVIOUS
<1> USE DEF Init, RegistryInit
<1>1. metadata \in [Runtimes -> Metadata]
  BY ValuesAssumption DEF Metadata
<1>2. LeaseTypes /\ CardTypes /\ ShutdownTypes
  <2>1. <<>> \in Seq(Publications) /\ <<>> \in Seq({"start", "timer"})
    BY EmptySeq
  <2>2. CardTypes
    BY <1>1, <2>1 DEF CardTypes
  <2>3. LeaseTypes /\ ShutdownTypes
    BY <2>1 DEF LeaseTypes, ShutdownTypes
  <2> QED
    BY <2>2, <2>3
<1>3. \A r \in Runtimes : LeaseOK(r) /\ QueueOK(r) /\ CardsOK(r)
  <2>1. \A i \in DOMAIN <<>> : FALSE
    OBVIOUS
  <2>2. \A r \in Runtimes : LeaseOK(r)
    BY <2>1 DEF LeaseOK
  <2>3. \A r \in Runtimes : QueueOK(r)
    BY <2>1 DEF QueueOK
  <2>4. \A r \in Runtimes : CardsOK(r)
    BY DEF CardsOK
  <2> QED
    BY <2>2, <2>3, <2>4
<1>4. SessionTypes
  BY Generations DEF SessionTypes
<1>5. CompositionTypes /\ HandlerTypes
  BY DEF CompositionTypes, HandlerTypes, TargetsOK, Stages
<1> QED
  BY <1>2, <1>3, <1>4, <1>5, Parts DEF RegistryOK

LEMMA NextIInv == IInv /\ [Next]_vars => IInv'
<1> SUFFICES ASSUME IInv, [Next]_vars PROVE IInv'
  OBVIOUS
<1>1. RegistryOK /\ SessionTypes /\ CompositionTypes /\ HandlerTypes
  BY Parts
<1>2. ASSUME RegistryOK', UNCHANGED <<sessionVars, compositionVars>> PROVE IInv'
  BY <1>1, <1>2, PartsOfNext
  DEF sessionVars, compositionVars, SessionTypes, CompositionTypes, HandlerTypes, TargetsOK
<1>3. ASSUME NEW h \in Handlers, SessionStart(h) PROVE IInv'
  BY <1>3, StopTypes, CreateTypes, WaitForStopTypes DEF SessionStart
<1>4. ASSUME NEW h \in Handlers, SessionShutdown(h) PROVE IInv'
  BY <1>4, StopTypes, WaitForStopTypes DEF SessionShutdown
<1>5. CASE SessionRenamed
  <2>1. PICK v \in Values : UpdateMetadata(active, "displayName", v)
    BY <1>5 DEF SessionRenamed
  <2>2. active \in Runtimes
    BY <1>1, <1>5 DEF SessionRenamed, SessionTypes
  <2>3. RegistryOK'
    BY <1>1, <2>1, <2>2, FieldsAssumption, UpdateMetadataOK
  <2> QED
    BY <1>2, <1>5, <2>3 DEF SessionRenamed
<1>6. ASSUME NEW r \in Runtimes, PresenceChanges(r) PROVE IInv'
  <2>1. PICK v \in Values : UpdateMetadata(r, "state", v)
    BY <1>6 DEF PresenceChanges
  <2>2. RegistryOK'
    BY <1>1, <2>1, FieldsAssumption, UpdateMetadataOK
  <2> QED
    BY <1>2, <1>6, <2>2 DEF PresenceChanges
<1>7. ASSUME NEW r \in Runtimes, CloseTransport(r) \/ CompositionCloses(r) PROVE IInv'
  <2>1. UNCHANGED <<registryVars, generation, active, handler, target, delivery>>
    BY <1>7 DEF CloseTransport, CompositionCloses, sessionVars
  <2>2. RegistryOK' /\ HandlerTypes'
    BY <1>1, <2>1, RegistryRests DEF HandlerTypes, TargetsOK
  <2>3. stopping' \in {stopping, None}
    BY <1>7 DEF CloseTransport, CompositionCloses, sessionVars
  <2>4. SessionTypes' /\ CompositionTypes'
    BY <1>1, <1>7, <2>1, <2>3
    DEF CloseTransport, CompositionCloses, SessionTypes, CompositionTypes
  <2> QED
    BY <2>2, <2>4, PartsOfNext
<1>8. ASSUME NEW r \in Runtimes, RegistryStep(r), UNCHANGED <<sessionVars, compositionVars>>
      PROVE  IInv'
  BY <1>1, <1>2, <1>8, RegistryStepOK
<1>9. CASE UNCHANGED vars
  BY <1>1, <1>2, <1>9, RegistryRests DEF vars
<1> QED
  BY <1>3, <1>4, <1>5, <1>6, <1>7, <1>8, <1>9, HandlerStepTypes DEF Next

\* Whatever the host does, every registry is in order: the lease, the queue of publications,
\* the card being written and shutdown agree with each other.
THEOREM Invariance == Spec => []IInv
BY InitIInv, NextIInv, PTL DEF Spec

-----------------------------------------------------------------------------
(* What becomes of the cards. *)

\* Only a write that is under way, or a removal, touches a card.
LEMMA CardChanges ==
    ASSUME [Next]_vars
    PROVE  \/ UNCHANGED <<card, file>>
           \/ \E s \in Runtimes : CardRenamed(s) \/ PublicationSucceeds(s) \/ RemoveCard(s)
<1>1. ASSUME NEW s \in Runtimes, RegistryStep(s)
      PROVE  \/ UNCHANGED <<card, file>>
             \/ CardRenamed(s) \/ PublicationSucceeds(s) \/ RemoveCard(s)
  BY <1>1
  DEF RegistryStep, RenewalTimerTicks, RenewalTurn, RenewalSettles, StartFails, PublicationTurn,
      PublicationFails, AwaitPublications, PublicationsSettled, cardVars
<1>2. ASSUME NEW r, ShutDownComposition(r) PROVE UNCHANGED <<card, file>>
  BY <1>2 DEF ShutDownComposition, ShutDown, registryVars, cardVars
<1>3. ASSUME UNCHANGED registryVars PROVE UNCHANGED <<card, file>>
  BY <1>3 DEF registryVars
<1>4. ASSUME NEW h \in Handlers, SessionStart(h) \/ SessionShutdown(h) PROVE UNCHANGED <<card, file>>
  BY <1>2, <1>3, <1>4 DEF SessionStart, SessionShutdown, Stop, Create, WaitForStop
<1>5. ASSUME NEW h \in Handlers, HandlerStep(h) PROVE UNCHANGED <<card, file>>
  <2>1. ASSUME NEW r, StartLease(r) PROVE UNCHANGED <<card, file>>
    BY <2>1 DEF StartLease, cardVars
  <2> QED
    BY <1>2, <1>3, <1>5, <2>1
    DEF HandlerStep, OldIsStopped, Binds, BindFails, StartSucceeds, AbortStart, HandlerReturns,
        Create, WaitForStop
<1>6. ASSUME NEW r, NEW f, NEW v, UpdateMetadata(r, f, v) PROVE UNCHANGED <<card, file>>
  BY <1>6 DEF UpdateMetadata, cardVars
<1>7. CASE SessionRenamed \/ \E r \in Runtimes : PresenceChanges(r)
  BY <1>6, <1>7 DEF SessionRenamed, PresenceChanges
<1>8. ASSUME NEW r \in Runtimes, CloseTransport(r) \/ CompositionCloses(r)
      PROVE  UNCHANGED <<card, file>>
  BY <1>3, <1>8 DEF CloseTransport, CompositionCloses
<1>9. CASE UNCHANGED vars
  BY <1>3, <1>9 DEF vars
<1> QED
  BY <1>1, <1>4, <1>5, <1>7, <1>8, <1>9 DEF Next

\* AgentCardRegistry.shutdown: when it is over, no renewal or update that was under way brings
\* the card back.  It waits for the publications that are in the queue when the lease has
\* settled, and those that come later do not write any more.
THEOREM NothingAfterShutdownAlways == Spec => NothingAfterShutdown
<1>1. ASSUME IInv, [Next]_vars, NEW r \in Runtimes, shutdown[r] = "done"
      PROVE  file'[r] \in {file[r], NoCard}
  <2>1. CardTypes /\ CardsOK(r)
    BY <1>1, Parts DEF RegistryOK
  <2>2. ASSUME NEW s \in Runtimes, CardRenamed(s) PROVE file'[r] \in {file[r], NoCard}
    BY <1>1, <2>1, <2>2 DEF CardTypes, CardsOK, CardRenamed
  <2>3. ASSUME NEW s \in Runtimes, PublicationSucceeds(s) PROVE file'[r] \in {file[r], NoCard}
    BY <2>3 DEF PublicationSucceeds
  <2>4. ASSUME NEW s \in Runtimes, RemoveCard(s) PROVE file'[r] \in {file[r], NoCard}
    BY <2>1, <2>4 DEF CardTypes, RemoveCard
  <2> QED
    BY <1>1, <2>2, <2>3, <2>4, CardChanges
<1>2. IInv /\ [Next]_vars =>
        [\A r \in Runtimes : shutdown[r] = "done" => file'[r] \in {file[r], NoCard}]_registryVars
  BY <1>1
<1> QED
  BY <1>2, Invariance, PTL DEF Spec, NothingAfterShutdown

\* AgentCardRegistry.publish with the rollback of a failed publication: what a card says
\* changes only by the update whose publication is under way.
THEOREM OnlyUpdatesChangeCardsAlways == Spec => OnlyUpdatesChangeCards
<1>1. ASSUME IInv, [Next]_vars, NEW r \in Runtimes, card[r] # NoCard, card'[r] # NoCard,
             NEW f \in Fields, card'[r][f] # card[r][f]
      PROVE  Head(publications[r]) = [by |-> "update", field |-> f, value |-> card'[r][f]]
  <2>1. CardTypes /\ CardsOK(r)
    BY <1>1, Parts DEF RegistryOK
  <2>2. card'[r] # card[r]
    BY <1>1
  <2>3. ASSUME NEW s \in Runtimes, CardRenamed(s) \/ RemoveCard(s) PROVE FALSE
    BY <1>1, <2>1, <2>2, <2>3 DEF CardTypes, CardRenamed, RemoveCard
  <2>4. PICK s \in Runtimes : PublicationSucceeds(s)
    BY <1>1, <2>2, <2>3, CardChanges
  <2>5. s = r /\ card'[r] = metadata[r] /\ writing[r] = "renamed"
    BY <2>1, <2>2, <2>4 DEF CardTypes, PublicationSucceeds
  <2>6. /\ publications[r] # <<>> /\ metadata[r] = Patched(card[r], Head(publications[r]))
        /\ card[r] \in Metadata
    BY <1>1, <2>1, <2>5 DEF CardTypes, CardsOK
  <2> DEFINE p == Head(publications[r])
  <2>7. p \in Publications /\ p.by = "update"
    <3>1. publications[r] \in Seq(Publications)
      BY <2>1 DEF CardTypes
    <3> QED
      BY <2>2, <2>5, <2>6, <3>1, TailFacts DEF Patched
  <2>8. /\ p.field \in Fields /\ p.value \in Values
        /\ p = [by |-> "update", field |-> p.field, value |-> p.value]
    BY <2>7 DEF Publications
  <2>9. card'[r] = [card[r] EXCEPT ![p.field] = p.value]
    BY <2>5, <2>6, <2>7 DEF Patched
  <2>10. f = p.field /\ card'[r][f] = p.value
    BY <1>1, <2>6, <2>8, <2>9 DEF Metadata
  <2> QED
    BY <2>8, <2>10
<1>2. IInv /\ [Next]_vars =>
        [\A r \in Runtimes : card[r] # NoCard /\ card'[r] # NoCard =>
            \A f \in Fields : card'[r][f] # card[r][f] =>
                Head(publications[r]) = [by |-> "update", field |-> f, value |-> card'[r][f]]
        ]_registryVars
  BY <1>1
<1> QED
  BY <1>2, Invariance, PTL DEF Spec, OnlyUpdatesChangeCards

-----------------------------------------------------------------------------
(* One handler at a time. *)

Alone(h) == \A g \in Handlers : g = h

\* What nobody notices of the work of a registry.
Kept(r) ==
    /\ shutdown'[r] = "no" <=> shutdown[r] = "no"
    /\ shutdown[r] = "done" => shutdown'[r] = "done"
    /\ startOf[r] = "done" => startOf'[r] = "done"
    /\ Fresh(r) => Fresh(r)'
SameStage(r) ==
    /\ bound'[r] = bound[r] /\ delivery'[r] = delivery[r] /\ closing'[r] = closing[r]

LEMMA KeptStage ==
    ASSUME NEW r \in Runtimes, StageOf(r), Kept(r), UNCHANGED <<sessionVars, compositionVars>>
    PROVE  StageOf(r)'
BY DEF StageOf, Kept, sessionVars, compositionVars

\* A registry that is not under way does nothing.
LEMMA KeptByRegistry ==
    ASSUME RegistryOK, NEW s \in Runtimes, RegistryStep(s), NEW r \in Runtimes, SameStage(r)
    PROVE  Kept(r)
<1>1. LeaseTypes /\ CardTypes /\ ShutdownTypes /\ LeaseOK(s) /\ CardsOK(s)
  BY DEF RegistryOK
<1>2. CASE r # s
  <2>1. /\ lease'[r] = lease[r] /\ publications'[r] = publications[r] /\ writing'[r] = writing[r]
        /\ file'[r] = file[r] /\ shutdown'[r] = shutdown[r] /\ startOf'[r] = startOf[r]
    <3>1. CASE RenewalTimerTicks(s) \/ RenewalTurn(s) \/ RenewalSettles(s) \/ StartFails(s)
      BY <1>1, <1>2, <3>1
      DEF RenewalTimerTicks, RenewalTurn, RenewalSettles, StartFails, cardVars, LeaseTypes, CardTypes
    <3>2. CASE PublicationTurn(s) \/ CardRenamed(s) \/ PublicationSucceeds(s) \/ PublicationFails(s)
      BY <1>1, <1>2, <3>2
      DEF PublicationTurn, CardRenamed, PublicationSucceeds, PublicationFails, Settled, leaseVars,
          CardTypes
    <3>3. CASE AwaitPublications(s) \/ PublicationsSettled(s) \/ RemoveCard(s)
      BY <1>1, <1>2, <3>3
      DEF AwaitPublications, PublicationsSettled, RemoveCard, leaseVars, cardVars, CardTypes,
          ShutdownTypes
    <3> QED
      BY <3>1, <3>2, <3>3 DEF RegistryStep
  <2> QED
    BY <2>1 DEF Kept, Fresh, SameStage
<1>3. ASSUME r = s, Fresh(s) PROVE FALSE
  <2>1. renewals[s] = <<>> /\ renewal[s] = "waiting"
    BY <1>1, <1>3 DEF Fresh, LeaseOK
  <2>2. shutdown[s] = "no" /\ startOf[s] # "failing"
    BY <1>1, <1>3 DEF Fresh, LeaseOK
  <2> QED
    BY <1>3, <2>1, <2>2
    DEF Fresh, RegistryStep, RenewalTimerTicks, RenewalTurn, RenewalSettles, StartFails,
        PublicationTurn, CardRenamed, PublicationSucceeds, PublicationFails, AwaitPublications,
        PublicationsSettled, RemoveCard
<1>4. /\ shutdown'[s] = "no" <=> shutdown[s] = "no"
      /\ shutdown[s] = "done" => shutdown'[s] = "done"
  BY <1>1
  DEF RegistryStep, RenewalTimerTicks, RenewalTurn, RenewalSettles, StartFails, PublicationTurn,
      CardRenamed, PublicationSucceeds, PublicationFails, AwaitPublications, PublicationsSettled,
      RemoveCard, ShutdownTypes
<1>5. startOf[s] = "done" => startOf'[s] = "done"
  <2>1. CASE RenewalSettles(s)
    <3>1. renewals[s] \in Seq({"start", "timer"}) /\ renewals[s] # <<>>
      BY <1>1, <2>1 DEF RenewalSettles, LeaseOK, LeaseTypes
    <3>2. Head(renewals[s]) = "start" => startOf[s] = "pending"
      BY <1>1, <3>1, TailFacts DEF LeaseOK
    <3> QED
      BY <2>1, <3>2 DEF RenewalSettles
  <2>2. CASE ~RenewalSettles(s)
    BY <2>2
    DEF RegistryStep, RenewalTimerTicks, RenewalTurn, StartFails, PublicationTurn, CardRenamed,
        PublicationSucceeds, PublicationFails, AwaitPublications, PublicationsSettled, RemoveCard,
        leaseVars
  <2> QED
    BY <2>1, <2>2
<1> QED
  BY <1>2, <1>3, <1>4, <1>5 DEF Kept

LEMMA UpdateMetadataStage ==
    ASSUME IInv, SessionInv, NEW s \in Runtimes, bound[s], NEW f, NEW v, UpdateMetadata(s, f, v),
           UNCHANGED <<sessionVars, compositionVars>>
    PROVE  SessionInv'
<1>1. CardTypes
  BY Parts DEF RegistryOK
<1>2. ASSUME NEW r \in Runtimes PROVE Kept(r)
  BY <1>1 DEF UpdateMetadata, CardTypes, Kept, Fresh, leaseVars, cardVars, compositionVars
<1>3. \A r \in Runtimes : StageOf(r)'
  BY <1>2, KeptStage DEF SessionInv
<1> QED
  BY <1>3 DEF SessionInv, HandlersOK, sessionVars, compositionVars

LEMMA RegistryStage ==
    ASSUME IInv, SessionInv, NEW s \in Runtimes, RegistryStep(s),
           UNCHANGED <<sessionVars, compositionVars>>
    PROVE  SessionInv'
<1>1. RegistryOK
  BY Parts
<1>2. \A r \in Runtimes : SameStage(r)
  BY DEF SameStage, compositionVars
<1>3. \A r \in Runtimes : StageOf(r)'
  BY <1>1, <1>2, KeptByRegistry, KeptStage DEF SessionInv
<1> QED
  BY <1>3 DEF SessionInv, HandlersOK, sessionVars, compositionVars

\* The first call of shutdown for a runtime, as the others see it.
LEMMA FirstShutDown ==
    ASSUME IInv, SessionInv, NEW s \in Runtimes, closing[s] = "no", ShutDownComposition(s)
    PROVE  /\ closing'[s] = "registry" /\ shutdown'[s] # "no" /\ ~delivery'[s]
           /\ bound' = bound
           /\ \A r \in Runtimes \ {s} :
                 SameStage(r) /\ Kept(r)
<1>1. LeaseTypes /\ CardTypes /\ ShutdownTypes /\ CompositionTypes
  BY Parts DEF RegistryOK
<1>2. shutdown[s] = "no"
  BY DEF SessionInv, StageOf
<1>3. /\ delivery' = [delivery EXCEPT ![s] = FALSE]
      /\ closing' = [closing EXCEPT ![s] = "registry"]
      /\ shutdown' = [shutdown EXCEPT ![s] = "lease"]
      /\ lease' = [lease EXCEPT ![s] = "stopped"]
      /\ UNCHANGED <<bound, startOf, publications, writing, file>>
  BY <1>2 DEF ShutDownComposition, ShutDown, cardVars
<1> QED
  BY <1>1, <1>3 DEF LeaseTypes, ShutdownTypes, CompositionTypes, Kept, SameStage, Fresh

LEMMA Moved ==
    ASSUME IInv, NEW h \in Handlers, Alone(h), NEW stage, NEW r, Goto(h, stage, r)
    PROVE  \A g \in Handlers : g = h /\ handler'[g] = stage /\ target'[g] = r
BY Parts DEF Goto, Alone, HandlerTypes

LEMMA StopStage ==
    ASSUME IInv, SessionInv, NEW h \in Handlers, Alone(h), NEW stage \in {"stopOld", "stopLast"},
           Stop(h, stage)
    PROVE  SessionInv'
<1>1. /\ active \in Runtimes /\ stopping = None /\ handler[h] = "idle"
      /\ closing[active] = "no" /\ ~(active > generation)
  <2>1. active \in Runtimes /\ stopping = None /\ handler[h] = "idle"
    BY Parts DEF Stop, SessionTypes, SessionInv, HandlersOK
  <2>2. closing[active] = "no" /\ ~(active > generation)
    BY <2>1 DEF SessionInv, StageOf, Fresh
  <2> QED
    BY <2>1, <2>2
<1>2. /\ closing'[active] = "registry" /\ shutdown'[active] # "no" /\ ~delivery'[active]
      /\ \A r \in Runtimes \ {active} : SameStage(r) /\ Kept(r)
  BY <1>1, FirstShutDown DEF Stop
<1>3. /\ active' = None /\ stopping' = active /\ generation' = generation
      /\ \A g \in Handlers : g = h /\ handler'[g] = stage /\ target'[g] = active
  BY Moved DEF Stop
<1>4. HandlersOK'
  BY <1>2, <1>3 DEF HandlersOK
<1>5. active' \notin Runtimes
  BY <1>3, NoneAssumption
<1>6. ASSUME NEW r \in Runtimes, r = active PROVE StageOf(r)'
  <2>1. handler'[h] \in {"stopOld", "stopLast", "abort"} /\ target'[h] = r
    BY <1>3, <1>6
  <2> QED
    BY <1>1, <1>2, <1>3, <1>5, <1>6, <2>1 DEF StageOf
<1>7. ASSUME NEW r \in Runtimes \ {active} PROVE StageOf(r)'
  <2>1. StageOf(r) /\ SameStage(r) /\ Kept(r)
    BY <1>2 DEF SessionInv
  <2>2. \A g \in Handlers : handler[g] = "idle"
    BY <1>1, <1>3
  <2>3. closing[r] # "registry" /\ (closing[r] = "no" => Fresh(r))
    BY <2>1, <2>2 DEF StageOf
  <2> QED
    BY <1>3, <1>5, <2>1, <2>3 DEF StageOf, SameStage, Kept
<1> QED
  BY <1>4, <1>6, <1>7 DEF SessionInv

\* No shutdown is under way.
NoShutdown == stopping = None /\ \A r \in Runtimes : closing[r] # "registry"

LEMMA IdleStage ==
    ASSUME IInv, SessionInv, NEW h \in Handlers, Alone(h), handler[h] \notin {"stopOld", "stopLast"},
           handler[h] # "abort"
    PROVE  NoShutdown
<1>1. stopping = None
  BY DEF SessionInv, HandlersOK
<1>2. ASSUME NEW r \in Runtimes PROVE closing[r] # "registry"
  <2>1. StageOf(r)
    BY DEF SessionInv
  <2> QED
    BY <2>1 DEF StageOf, Alone
<1> QED
  BY <1>1, <1>2 DEF NoShutdown

\* What the handler waited for is over.
LEMMA OverStage ==
    ASSUME IInv, SessionInv, NEW h \in Handlers, Alone(h), Over(target[h]),
           handler[h] \in {"stopOld", "stopLast", "abort"}
    PROVE  NoShutdown
<1>1. stopping = None
  BY DEF SessionInv, HandlersOK, Over
<1>2. ASSUME NEW r \in Runtimes PROVE closing[r] # "registry"
  <2>1. StageOf(r)
    BY DEF SessionInv
  <2> QED
    BY <2>1 DEF StageOf, Alone, Over
<1> QED
  BY <1>1, <1>2 DEF NoShutdown

LEMMA ReturnStage ==
    ASSUME IInv, SessionInv, NEW h \in Handlers, Alone(h), NoShutdown, handler[h] # "publish",
           Return(h), UNCHANGED <<registryVars, compositionVars, generation, active, stopping>>
    PROVE  SessionInv'
<1>1. \A g \in Handlers : g = h /\ handler'[g] = "idle"
  BY Moved DEF Return
<1>2. HandlersOK'
  BY <1>1 DEF HandlersOK, NoShutdown
<1>3. ASSUME NEW r \in Runtimes PROVE StageOf(r)'
  <2>1. StageOf(r) /\ closing[r] # "registry"
    BY DEF SessionInv, NoShutdown
  <2>2. closing[r] = "no" => r = active \/ Fresh(r)
    BY <2>1 DEF StageOf, Alone
  <2>3. (Fresh(r) <=> Fresh(r)') /\ SameStage(r) /\ shutdown' = shutdown /\ startOf' = startOf
    BY DEF Fresh, SameStage, registryVars, compositionVars
  <2> QED
    BY <2>1, <2>2, <2>3 DEF StageOf, SameStage
<1> QED
  BY <1>2, <1>3 DEF SessionInv

LEMMA CreateStage ==
    ASSUME IInv, SessionInv, NEW h \in Handlers, Alone(h), NoShutdown, active = None,
           handler[h] # "publish", Create(h)
    PROVE  SessionInv'
<1>1. \A g \in Handlers : g = h /\ handler'[g] = "bind" /\ target'[g] = generation + 1
  BY Moved DEF Create
<1>2. generation + 1 \in Runtimes /\ generation \in Nat
  BY Parts, Generations DEF Create, SessionTypes
<1>3. closing[generation + 1] = "no"
  <2>1. StageOf(generation + 1) /\ generation + 1 > generation
    BY <1>2 DEF SessionInv
  <2> QED
    BY <2>1 DEF StageOf
<1>4. HandlersOK'
  BY <1>1, <1>2, <1>3 DEF Create, HandlersOK, NoShutdown, compositionVars
<1>5. ASSUME NEW r \in Runtimes PROVE StageOf(r)'
  <2>1. StageOf(r) /\ closing[r] # "registry"
    BY DEF SessionInv, NoShutdown
  <2>2. closing[r] = "no" => Fresh(r)
    BY <2>1, NoneAssumption DEF StageOf, Alone
  <2>3. (Fresh(r) <=> Fresh(r)') /\ SameStage(r) /\ shutdown' = shutdown /\ startOf' = startOf
    BY DEF Create, Fresh, SameStage, registryVars, compositionVars
  <2>4. generation' = generation + 1 /\ active' = active /\ (r > generation + 1 => r > generation)
    <3>1. r \in Nat
      BY RuntimesAreGenerations, Generations
    <3> QED
      BY <1>2, <3>1 DEF Create
  <2> QED
    BY <2>1, <2>2, <2>3, <2>4 DEF StageOf, SameStage
<1> QED
  BY <1>4, <1>5 DEF SessionInv

LEMMA BindsStage ==
    ASSUME IInv, SessionInv, NEW h \in Handlers, Alone(h), Binds(h)
    PROVE  SessionInv'
<1>1. target[h] \in Runtimes /\ handler[h] = "bind"
  BY Parts DEF Binds, HandlerTypes, TargetsOK
<1> DEFINE t == target[h]
<1>2. closing[t] = "no" /\ ~(t > generation) /\ NoShutdown /\ active = None
  <2>1. closing[t] = "no" /\ t <= generation /\ active = None
    BY <1>1 DEF SessionInv, HandlersOK
  <2>2. ~(t > generation)
    BY <1>1, <2>1, RuntimesAreGenerations, Parts, Generations DEF SessionTypes
  <2> QED
    BY <1>1, <2>1, <2>2, IdleStage
<1>3. \A g \in Handlers : g = h /\ handler'[g] = "publish" /\ target'[g] = t
  BY <1>1, Moved DEF Binds
<1>4. /\ bound'[t] = TRUE /\ delivery' = delivery /\ closing' = closing /\ shutdown' = shutdown
      /\ \A r \in Runtimes \ {t} : bound'[r] = bound[r] /\ startOf'[r] = startOf[r] /\ lease'[r] = lease[r]
      /\ UNCHANGED <<publications, writing, file>>
  BY <1>1, Parts
  DEF Binds, StartLease, cardVars, CompositionTypes, RegistryOK, LeaseTypes
<1>5. UNCHANGED <<generation, active, stopping>>
  BY DEF Binds
<1>6. HandlersOK'
  BY <1>2, <1>3, <1>4, <1>5 DEF HandlersOK, NoShutdown
<1> HIDE DEF t
<1>7. ASSUME NEW r \in Runtimes PROVE StageOf(r)'
  <2>1. StageOf(r) /\ closing[r] # "registry" /\ r # active
    BY <1>2, NoneAssumption DEF SessionInv, NoShutdown
  <2>2. closing[r] = "no" => Fresh(r)
    BY <1>1, <2>1 DEF StageOf, Alone
  <2>3. CASE r = t
    BY <1>2, <1>3, <1>4, <1>5, <2>1, <2>3 DEF StageOf
  <2>4. CASE r # t
    <3>1. (Fresh(r) <=> Fresh(r)') /\ SameStage(r) /\ startOf'[r] = startOf[r]
      BY <1>4, <2>4 DEF Fresh, SameStage
    <3> QED
      BY <1>4, <1>5, <2>1, <2>2, <3>1 DEF StageOf, SameStage
  <2> QED
    BY <2>3, <2>4
<1> QED
  BY <1>6, <1>7 DEF SessionInv

LEMMA StartSucceedsStage ==
    ASSUME IInv, SessionInv, NEW h \in Handlers, Alone(h), StartSucceeds(h)
    PROVE  SessionInv'
<1> DEFINE t == target[h]
<1>1. t \in Runtimes /\ handler[h] = "publish" /\ startOf[t] = "done"
  BY Parts DEF StartSucceeds, HandlerTypes, TargetsOK
<1>2. closing[t] = "no" /\ bound[t] /\ NoShutdown /\ active = None
  BY <1>1, IdleStage DEF SessionInv, HandlersOK
<1>3. \A g \in Handlers : g = h /\ handler'[g] = "idle"
  BY Moved DEF StartSucceeds, Return
<1>4. /\ active' = t /\ delivery'[t] = TRUE
      /\ \A r \in Runtimes \ {t} : delivery'[r] = delivery[r]
      /\ UNCHANGED <<registryVars, generation, stopping, bound, closing>>
  BY <1>1, Parts DEF StartSucceeds, CompositionTypes
<1>5. HandlersOK'
  BY <1>2, <1>3, <1>4 DEF HandlersOK, NoShutdown
<1>6. UNCHANGED <<lease, publications, writing, file, shutdown, startOf>>
  BY <1>4 DEF registryVars
<1>7. \A g \in Handlers : target[g] = t
  BY DEF Alone
<1> HIDE DEF t
<1>8. ASSUME NEW r \in Runtimes PROVE StageOf(r)'
  <2>1. StageOf(r) /\ closing[r] # "registry" /\ r # active
    BY <1>2, NoneAssumption DEF SessionInv, NoShutdown
  <2>2. CASE r = t
    BY <1>1, <1>2, <1>4, <1>6, <2>1, <2>2 DEF StageOf, Fresh
  <2>3. CASE r # t
    <3>1. closing[r] = "no" => Fresh(r)
      BY <1>7, <2>1, <2>3 DEF StageOf
    <3>2. (Fresh(r) <=> Fresh(r)') /\ SameStage(r)
      BY <1>4, <1>6, <2>3 DEF Fresh, SameStage
    <3> QED
      BY <1>4, <1>6, <2>1, <2>3, <3>1, <3>2 DEF StageOf, SameStage
  <2> QED
    BY <2>2, <2>3
<1> QED
  BY <1>5, <1>8 DEF SessionInv

LEMMA AbortStartStage ==
    ASSUME IInv, SessionInv, NEW h \in Handlers, Alone(h), AbortStart(h)
    PROVE  SessionInv'
<1> DEFINE t == target[h]
<1>1. t \in Runtimes /\ handler[h] = "publish"
  BY Parts DEF AbortStart, HandlerTypes, TargetsOK
<1>2. closing[t] = "no" /\ bound[t] /\ NoShutdown /\ active = None
  BY <1>1, IdleStage DEF SessionInv, HandlersOK
<1>3. /\ closing'[t] = "registry" /\ shutdown'[t] # "no" /\ ~delivery'[t]
      /\ \A r \in Runtimes \ {t} : SameStage(r) /\ Kept(r)
  BY <1>1, <1>2, FirstShutDown DEF AbortStart
<1>4. \A g \in Handlers : g = h /\ handler'[g] = "abort" /\ target'[g] = t
  BY Moved DEF AbortStart
<1>5. UNCHANGED <<generation, active, stopping>>
  BY DEF AbortStart
<1>6. HandlersOK'
  BY <1>2, <1>4, <1>5 DEF HandlersOK, NoShutdown
<1>7. \A g \in Handlers : target[g] = t
  BY DEF Alone
<1> HIDE DEF t
<1>8. ASSUME NEW r \in Runtimes PROVE StageOf(r)'
  <2>1. StageOf(r) /\ closing[r] # "registry" /\ r # active
    BY <1>2, NoneAssumption DEF SessionInv, NoShutdown
  <2>2. CASE r = t
    <3>1. handler'[h] = "abort" /\ target'[h] = r
      BY <1>4, <2>2
    <3>2. ~(r > generation)
      BY <1>2, <2>1, <2>2 DEF StageOf, Fresh
    <3> QED
      BY <1>3, <1>5, <2>1, <2>2, <3>1, <3>2 DEF StageOf
  <2>3. CASE r # t
    <3>1. closing[r] = "no" => Fresh(r)
      BY <1>7, <2>1, <2>3 DEF StageOf
    <3> QED
      BY <1>3, <1>5, <2>1, <2>3, <3>1 DEF StageOf, SameStage, Kept
  <2> QED
    BY <2>2, <2>3
<1> QED
  BY <1>6, <1>8 DEF SessionInv

\* What is closed stays closed; what is being closed is waited for.
LEMMA ClosesStage ==
    ASSUME IInv, SessionInv, NEW s \in Runtimes, CloseTransport(s) \/ CompositionCloses(s)
    PROVE  SessionInv'
<1>1. CompositionTypes
  BY Parts
<1>2. /\ closing[s] \in {"registry", "transport"} /\ shutdown[s] = "done"
      /\ closing'[s] \in {"transport", "closed", "failed"} /\ ~bound'[s]
      /\ stopping' \in {stopping, None}
      /\ stopping' = s => closing'[s] = "transport"
  <2>1. StageOf(s)
    BY DEF SessionInv
  <2> QED
    BY <1>1, <2>1, NoneAssumption
    DEF CloseTransport, CompositionCloses, CompositionTypes, StageOf, sessionVars
<1>3. /\ \A r \in Runtimes \ {s} : closing'[r] = closing[r] /\ bound'[r] = bound[r]
      /\ UNCHANGED <<registryVars, delivery, generation, active, handler, target>>
  BY <1>1 DEF CloseTransport, CompositionCloses, CompositionTypes, sessionVars
<1>4. UNCHANGED <<lease, publications, writing, file, shutdown, startOf>>
  BY <1>3 DEF registryVars
<1>5. HandlersOK'
  <2>1. stopping \in Runtimes \cup {None} /\ HandlerTypes
    BY Parts DEF SessionTypes
  <2>2. ASSUME stopping' # None PROVE closing'[stopping'] \in {"registry", "transport"}
    BY <1>2, <1>3, <2>1, <2>2 DEF SessionInv, HandlersOK
  <2>3. ASSUME NEW h \in Handlers
        PROVE  /\ handler'[h] \in {"bind", "publish"} => closing'[target'[h]] = "no"
               /\ handler'[h] = "bind" => target'[h] <= generation'
               /\ handler'[h] = "publish" => bound'[target'[h]]
               /\ stopping' # None =>
                     handler'[h] \in {"stopOld", "stopLast"} /\ target'[h] = stopping'
               /\ handler'[h] \notin {"waitToStart", "waitToStop"}
    BY <1>2, <1>3, <2>1 DEF SessionInv, HandlersOK, HandlerTypes, TargetsOK
  <2> QED
    BY <1>2, <1>3, <2>2, <2>3 DEF SessionInv, HandlersOK
<1>6. ASSUME NEW r \in Runtimes PROVE StageOf(r)'
  <2>1. StageOf(r)
    BY DEF SessionInv
  <2>2. CASE r = s
    BY <1>2, <1>3, <1>4, <2>1, <2>2 DEF StageOf
  <2>3. CASE r # s
    <3>1. (Fresh(r) <=> Fresh(r)') /\ SameStage(r)
      BY <1>3, <1>4, <2>3 DEF Fresh, SameStage
    <3> QED
      BY <1>3, <1>4, <2>1, <3>1 DEF StageOf, SameStage
  <2> QED
    BY <2>2, <2>3
<1> QED
  BY <1>5, <1>6 DEF SessionInv

LEMMA InitSession == Init => SessionInv
<1> SUFFICES ASSUME Init PROVE SessionInv
  OBVIOUS
<1> USE DEF Init, RegistryInit
<1>1. HandlersOK
  BY DEF HandlersOK
<1>2. \A r \in Runtimes : StageOf(r)
  BY NoneAssumption DEF StageOf, Fresh
<1> QED
  BY <1>1, <1>2 DEF SessionInv

LEMMA NextSession ==
    ASSUME \A g, h \in Handlers : g = h
    PROVE  IInv /\ SessionInv /\ [Next]_vars => SessionInv'
<1> SUFFICES ASSUME IInv, SessionInv, [Next]_vars PROVE SessionInv'
  OBVIOUS
<1>1. \A h \in Handlers : Alone(h)
  BY DEF Alone
<1>2. ASSUME NEW h \in Handlers, SessionStart(h) \/ SessionShutdown(h) PROVE SessionInv'
  <2>1. handler[h] = "idle" /\ NoShutdown
    BY <1>1, <1>2, IdleStage DEF SessionStart, SessionShutdown
  <2> QED
    BY <1>1, <1>2, <2>1, StopStage, CreateStage DEF SessionStart, SessionShutdown, NoShutdown
<1>3. ASSUME NEW h \in Handlers, HandlerStep(h) PROVE SessionInv'
  <2>1. CASE OldIsStopped(h)
    <3>1. handler[h] = "stopOld"
      BY <2>1 DEF OldIsStopped, SessionInv, HandlersOK
    <3>2. NoShutdown /\ active = None
      BY <1>1, <2>1, <3>1, OverStage DEF OldIsStopped, SessionInv, HandlersOK
    <3> QED
      BY <1>1, <2>1, <3>1, <3>2, CreateStage, ReturnStage DEF OldIsStopped, NoShutdown
  <2>2. CASE BindFails(h)
    BY <1>1, <2>2, IdleStage, ReturnStage DEF BindFails
  <2>3. CASE HandlerReturns(h)
    <3>1. handler[h] \in {"stopLast", "abort"}
      BY <2>3 DEF HandlerReturns, SessionInv, HandlersOK
    <3> QED
      BY <1>1, <2>3, <3>1, OverStage, ReturnStage DEF HandlerReturns
  <2> QED
    BY <1>1, <1>3, <2>1, <2>2, <2>3, BindsStage, StartSucceedsStage, AbortStartStage DEF HandlerStep
<1>4. CASE SessionRenamed
  <2>1. active \in Runtimes
    BY <1>4, Parts DEF SessionRenamed, SessionTypes
  <2>2. bound[active]
    BY <2>1 DEF SessionInv, StageOf
  <2> QED
    BY <1>4, <2>1, <2>2, UpdateMetadataStage DEF SessionRenamed
<1>5. ASSUME NEW r \in Runtimes, PresenceChanges(r) PROVE SessionInv'
  BY <1>5, UpdateMetadataStage DEF PresenceChanges
<1>6. ASSUME NEW r \in Runtimes, RegistryStep(r), UNCHANGED <<sessionVars, compositionVars>>
      PROVE  SessionInv'
  BY <1>6, RegistryStage
<1>7. CASE UNCHANGED vars
  BY <1>7
  DEF vars, registryVars, sessionVars, compositionVars, SessionInv, HandlersOK, StageOf, Fresh
<1> QED
  BY <1>2, <1>3, <1>4, <1>5, <1>6, <1>7, ClosesStage DEF Next

\* createPiToPiLifecycle, if the host waits for a handler before it emits the next event: a
\* process has one runtime at a time, and whatever failed on the way, nothing is left of the
\* others when no handler is at work.
THEOREM SoundAlways ==
    ASSUME \A g, h \in Handlers : g = h
    PROVE  Spec => []Sound
<1>1. ASSUME IInv, SessionInv PROVE OneRuntimeOut
  <2>1. ASSUME NEW r \in Runtimes, IsOut(r)
        PROVE  \/ r = active
               \/ \E h \in Handlers :
                     handler[h] \in {"publish", "stopOld", "stopLast", "abort"} /\ target[h] = r
    <3>1. StageOf(r) /\ LeaseOK(r)
      BY <1>1, Parts DEF SessionInv, RegistryOK
    <3>2. closing[r] \in {"no", "registry", "transport", "closed", "failed"}
      BY <1>1, Parts DEF CompositionTypes
    <3>3. closing[r] \in {"no", "registry"} /\ ~Fresh(r)
      BY <2>1, <3>1, <3>2 DEF IsOut, StageOf, LeaseOK, Fresh
    <3> QED
      BY <3>1, <3>3 DEF StageOf
  <2>2. active \in Runtimes => \A h \in Handlers : handler[h] = "idle"
    BY <1>1, NoneAssumption DEF SessionInv, HandlersOK
  <2>3. \A r, s \in Runtimes : IsOut(r) /\ IsOut(s) => r = s
    BY <2>1, <2>2
  <2>4. ASSUME \A h \in Handlers : handler[h] = "idle", NEW r \in Runtimes
        PROVE  IF r = active THEN bound[r] /\ delivery[r] /\ lease[r] = "running"
               ELSE ~IsOut(r) /\ ~delivery[r]
    <3>1. StageOf(r) /\ LeaseOK(r)
      BY <1>1, Parts DEF SessionInv, RegistryOK
    <3>2. r # active => ~IsOut(r)
      BY <2>1, <2>4
    <3> QED
      BY <2>4, <3>1, <3>2 DEF StageOf, LeaseOK, Fresh
  <2> QED
    BY <2>3, <2>4 DEF OneRuntimeOut
<1>2. IInv /\ SessionInv => Sound
  BY <1>1 DEF Sound, IInv
<1>3. Spec => []SessionInv
  BY InitSession, NextSession, Invariance, PTL DEF Spec
<1> QED
  BY <1>2, <1>3, Invariance, PTL
=============================================================================
