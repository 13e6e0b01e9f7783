---------------------------- MODULE RequestLife ----------------------------
(***************************************************************************)
(* What a receiving runtime promises about one logical request, whatever   *)
(* queue, timers and bookkeeping it uses.  A request is admitted at most   *)
(* once, waits or runs, runs at most once, is decided at most once, and at *)
(* most one terminal reply is ever sent for it: the one that states how it *)
(* was decided.  When the runtime closes, what it knew is gone and nothing *)
(* is sent or started any more.  The requests live independently of each   *)
(* other, and one step of the runtime may move several of them.            *)
(***************************************************************************)
CONSTANTS Requests,   \* the logical requests
          Outcomes,   \* the ways to decide one
          NoOutcome   \* not one of them: no outcome, no reply

VARIABLE life   \* how far each request has come

Stages == {"unknown", "waiting", "running", "decided", "gone"}

Life == [stage   : Stages,
         outcome : Outcomes \cup {NoOutcome},
         reply   : Outcomes \cup {NoOutcome}]

Unborn == [stage |-> "unknown", outcome |-> NoOutcome, reply |-> NoOutcome]

\* Where a request may go from a stage, other than staying.
Onwards == { <<"unknown", "waiting">>, <<"unknown", "running">>, <<"unknown", "decided">>,
             <<"waiting", "running">>, <<"waiting", "decided">>,
             <<"running", "decided">> }
           \cup ((Stages \ {"gone"}) \X {"gone"})

MayBecome(before, after) ==
    /\ before.stage = after.stage \/ <<before.stage, after.stage>> \in Onwards
    /\ after.stage = "decided" <=> after.outcome # NoOutcome
    /\ before.stage = "decided" /\ after.stage = "decided" =>
          after.outcome = before.outcome
    /\ before.reply # after.reply =>
          before.reply = NoOutcome /\ after.reply = after.outcome

Init == life = [r \in Requests |-> Unborn]

Next ==
    /\ life' \in [Requests -> Life]
    /\ \A r \in Requests : MayBecome(life[r], life'[r])

Spec == Init /\ [][Next]_life
=============================================================================
