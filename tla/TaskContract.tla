----------------------------- MODULE TaskContract -----------------------------
(***************************************************************************)
(* What an async task promises, whatever order an executor runs tasks in   *)
(* (kira_native_bridge/src/runtime_helpers_tasks.inc:1-18,                 *)
(* kira_vm_runtime/src/vm_tasks.zig:1-18): its body is entered once and    *)
(* goes on from where it suspended, never once a cancel was asked for; it  *)
(* finishes at most once; its result is joined at most once, and not if it *)
(* was cancelled or let go.                                                *)
(***************************************************************************)
CONSTANT Tasks

VARIABLES status,   \* of each task
          asked,    \* a cancel was requested while it was pending
          letgo     \* detached while it was pending

vars == <<status, asked, letgo>>

Init == /\ status = [t \in Tasks |-> "unborn"]
        /\ asked = [t \in Tasks |-> FALSE] /\ letgo = asked

Becomes(t, s) == status' = [status EXCEPT ![t] = s] /\ UNCHANGED <<asked, letgo>>

Spawn(t)   == status[t] = "unborn" /\ Becomes(t, "ready")
Enter(t)   == status[t] \in {"ready", "suspended"} /\ ~asked[t] /\ Becomes(t, "running")
Suspend(t) == status[t] = "running" /\ Becomes(t, "suspended")

\* A ready value finishes without running.
Finish(t) ==
  /\ status[t] = "running" \/ (status[t] = "ready" /\ ~asked[t])
  /\ \/ Becomes(t, "dropped")
     \/ ~letgo[t] /\ Becomes(t, "finished")

Join(t) == status[t] = "finished" /\ ~asked[t] /\ ~letgo[t] /\ Becomes(t, "joined")

\* A cancel observed, or a result nobody will join.
Drop(t) ==
  /\ \/ asked[t] /\ status[t] \in {"ready", "suspended", "running", "finished"}
     \/ status[t] = "finished"
  /\ Becomes(t, "dropped")

Pending(t) == status[t] \in {"ready", "running", "suspended"}
Ask(t)   == Pending(t) /\ asked' = [asked EXCEPT ![t] = TRUE] /\ UNCHANGED <<status, letgo>>
LetGo(t) == Pending(t) /\ letgo' = [letgo EXCEPT ![t] = TRUE] /\ UNCHANGED <<status, asked>>

Next == \E t \in Tasks : \/ Spawn(t) \/ Enter(t) \/ Suspend(t) \/ Finish(t)
                         \/ Join(t) \/ Drop(t) \/ Ask(t) \/ LetGo(t)

Spec == Init /\ [][Next]_vars
===============================================================================
