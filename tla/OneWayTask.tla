----------------------------- MODULE OneWayTask -----------------------------
(***************************************************************************)
(* What the tasks extension promises the client about the status it polls: *)
(* a task appears once, in working; it may ask for input and go back to    *)
(* work; it finishes at most once and never leaves the status it finished  *)
(* in (TaskStatus, and the docstring of transition_task).                  *)
(***************************************************************************)
CONSTANT Tasks

VARIABLE status

Terminal == {"completed", "failed", "cancelled"}

Init == status = [t \in Tasks |-> "absent"]

Move(t, from, to) ==
  /\ status[t] \in from
  /\ \E s \in to : status' = [status EXCEPT ![t] = s]

Create(t) == Move(t, {"absent"}, {"working"})

AskForInput(t) == Move(t, {"working"}, {"input_required"})

Answer(t) == Move(t, {"input_required"}, {"working"})

Finish(t) == Move(t, {"working", "input_required"}, Terminal)

Next == \E t \in Tasks : Create(t) \/ AskForInput(t) \/ Answer(t) \/ Finish(t)

Spec == Init /\ [][Next]_status
=============================================================================
