------------------------ MODULE MCAutomationEvents ------------------------
(* A rule that undoes changes, rules that answer a change and a comment    *)
(* with a comment, without end but for the depth limit, a daily rule that  *)
(* would comment without an actor, and one after it that only notifies.    *)
EXTENDS AutomationEvents

Undo == [on |-> "task_status_changed", when |-> {"done"}, set |-> "todo", comment |-> FALSE]
Tell == [on |-> "task_status_changed", when |-> {"todo"}, set |-> "keep", comment |-> TRUE]
Echo == [on |-> "comment_added", when |-> {"todo"}, set |-> "keep", comment |-> TRUE]
Remind == [on |-> "schedule_daily", when |-> {"todo"}, set |-> "keep", comment |-> TRUE]
Notify == [on |-> "schedule_daily", when |-> {"todo"}, set |-> "keep", comment |-> FALSE]

Loop == <<Undo, Tell, Echo, Remind, Notify>>
FirstRule == {Undo}
=============================================================================
