----------------------------- MODULE TaskStates -----------------------------
(***************************************************************************)
(* The task state machine of protocol/task-state.ts, and the decisions the *)
(* task store takes from a state alone.  Everything here is constant: the  *)
(* components that keep task records (TaskStore, InboundRouter) extend it. *)
(***************************************************************************)

\* protocol/task-state.ts TERMINAL_OUTCOMES and TASK_STATES.
TerminalOutcomes == {"completed", "failed", "rejected", "cancelled", "expired"}
ActiveStates     == {"created", "accepted", "queued", "working", "cancelling"}
TaskState        == ActiveStates \cup TerminalOutcomes

\* A request the store has no record of (never created, purged, or disposed).
Absent == "absent"

CancellingForever ==
    UNION { {"created"}    \X {"accepted", "rejected", "expired"},
            {"accepted"}   \X {"queued", "working", "rejected", "cancelling",
                               "cancelled", "expired"},
            {"queued"}     \X {"working", "rejected", "cancelling", "cancelled",
                               "expired"},
            {"working"}    \X {"completed", "failed", "rejected", "cancelling",
                               "expired"},
            {"cancelling"} \X {"cancelled", "completed", "failed"} }

\* TASK_STATE_TRANSITIONS, as the set of its legal <<from, to>> pairs.
LegalTransitions ==
    UNION { {"created"}    \X {"accepted", "rejected", "expired"},
            {"accepted"}   \X {"queued", "working", "rejected", "cancelling",
                               "cancelled", "expired"},
            {"queued"}     \X {"working", "rejected", "cancelling", "cancelled",
                               "expired"},
            {"working"}    \X {"completed", "failed", "rejected", "cancelling",
                               "expired"},
            {"cancelling"} \X {"cancelled", "completed", "failed", "expired"} }

CanTransition(from, to) == <<from, to>> \in LegalTransitions

IsTerminal(s) == s \in TerminalOutcomes

\* The record is there and undecided.
IsActive(s) == s \in ActiveStates

\* The state in which TaskStore.cancelTask asks tryTransition to put an active
\* task: only working work is asked to stop first, anything else (a task that
\* is already cancelling included) is cancelled at once.
AlwaysAskToStop(s) == "cancelling"
CancelTarget(s) == IF s = "working" THEN "cancelling" ELSE "cancelled"

\* The states whose commit aborts the executor's signal.
AbortingStates == {"cancelling", "cancelled", "expired"}
=============================================================================
