-------------------------- MODULE TaskStateMachine --------------------------
(***************************************************************************)
(* The lifecycle of a Task, backend/app/tasks/state_machine.py: the table  *)
(* of allowed transitions, the terminal states, and the status a decision  *)
(* of the Permissions Engine gives a Task.  No state of its own: TaskEngine*)
(* applies it to rows, TaskLifecycle promises it, Orchestrator reads it.   *)
(***************************************************************************)

\* TaskStatus, enums.py.
TaskStatus ==
  {"PENDING", "QUEUED", "WAITING_CONNECTION", "WAITING_PERMISSION",
   "WAITING_CONFIRMATION", "RUNNING", "COMPLETED", "FAILED", "CANCELLED",
   "EXPIRED"}

TerminalTaskStates == {"COMPLETED", "FAILED", "CANCELLED", "EXPIRED"}

\* _ALLOWED_TRANSITIONS.  RUNNING can neither be cancelled nor expire.
AllowedTransitions(status) ==
  CASE status = "PENDING" ->
         {"QUEUED", "WAITING_CONNECTION", "WAITING_PERMISSION",
          "WAITING_CONFIRMATION", "CANCELLED", "EXPIRED"}
    [] status = "QUEUED" ->
         {"RUNNING", "WAITING_CONNECTION", "WAITING_PERMISSION",
          "WAITING_CONFIRMATION", "CANCELLED", "EXPIRED"}
    [] status = "WAITING_CONNECTION" -> {"QUEUED", "CANCELLED", "EXPIRED"}
    [] status = "WAITING_PERMISSION" ->
         {"QUEUED", "WAITING_CONFIRMATION", "CANCELLED", "FAILED", "EXPIRED"}
    [] status = "WAITING_CONFIRMATION" ->
         {"QUEUED", "WAITING_PERMISSION", "CANCELLED", "FAILED", "EXPIRED"}
    [] status = "RUNNING" -> {"COMPLETED", "FAILED"}
    [] OTHER -> {}

IsTerminal(status) == status \in TerminalTaskStates

\* TaskService._initial_state: where a decision that is not a hard denial
\* puts a Task.  "DENY_RESOLVABLE" is a denial whose every reason is in
\* _RESOLVABLE_PERMISSION_REASONS; the hard denial has no state at all.
InitialState(decision) ==
  CASE decision = "ALLOW" -> "QUEUED"
    [] decision = "REQUIRE_CONFIRMATION" -> "WAITING_CONFIRMATION"
    [] decision = "DENY_RESOLVABLE" -> "WAITING_PERMISSION"

CreatingDecisions == {"ALLOW", "REQUIRE_CONFIRMATION", "DENY_RESOLVABLE"}

CreatedStates == {InitialState(d) : d \in CreatingDecisions}
=============================================================================
