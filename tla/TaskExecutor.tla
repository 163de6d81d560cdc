----------------------------- MODULE TaskExecutor -----------------------------
(***************************************************************************)
(* The cooperative executor of async tasks: the native runtime's           *)
(* kira_native_bridge/src/runtime_helpers_tasks.inc and the VM's           *)
(* vm_tasks.zig and vm_interpreter_tasks.zig, which mirror each other.     *)
(*                                                                         *)
(* One thread.  An await of a run-to-completion body drives other tasks on *)
(* top of its own frame; a body compiled to a state machine suspends       *)
(* instead (kira_ir/src/async_state_machine.zig).  `stack` holds the       *)
(* bodies being driven, the program's main at the bottom.  A state machine *)
(* body may call a function that awaits, yields or sleeps itself: such a   *)
(* helper is not transformed and runs on the body's frame.                 *)
(*                                                                         *)
(* A handle is used only by the function that spawned it (KSEM158).        *)
(***************************************************************************)
EXTENDS Integers, Sequences, FiniteSets, SequencesExt, FiniteSetsExt

CONSTANTS
  Tasks,      \* tasks, 1 .. n, in the order they are spawned
  Main,       \* the program's entrypoint
  None,
  Kinds,      \* of body: "work", "ready", "machine"
  MaxFuel,    \* bound: calls of the runtime one task's body makes
  MainFuel,   \* bound: calls main makes
  MaxClock    \* bound: the latest deadline

ASSUME TaskAssumption ==
  /\ Cardinality(Tasks) \in Nat /\ Tasks = 1 .. Cardinality(Tasks)
  /\ Main \notin Tasks /\ None \notin Tasks \cup {Main}
  /\ Kinds \subseteq {"work", "ready", "machine"}
  /\ MaxFuel \in Nat /\ MainFuel \in Nat /\ MaxClock \in Nat

VARIABLES
  task,    \* KiraTask
  queue,   \* kira_task_queue from its head on
  stack,   \* the bodies being driven, innermost last
  fuel,    \* what each body may still do
  clock,   \* kira_task_now_ns
  trap     \* why the process was aborted, or "exited"

vars == <<task, queue, stack, fuel, clock, trap>>

Unborn == [kind |-> "none", state |-> "UNBORN", cancel |-> FALSE, detached |-> FALSE,
           wake |-> 0, owner |-> None, helper |-> FALSE, parked |-> None,
           started |-> FALSE, joined |-> FALSE]

\* A body on the stack; `until` ends a blocking sleep.
Frame(t) == [task |-> t, helper |-> FALSE, awaits |-> None, until |-> 0]

Init ==
  /\ task = [t \in Tasks |-> Unborn] /\ queue = <<>> /\ stack = <<Frame(Main)>>
  /\ fuel = [t \in Tasks \cup {Main} |-> IF t = Main THEN MainFuel ELSE MaxFuel] /\ clock = 0 /\ trap = "none"

-----------------------------------------------------------------------------
(* What is running.                                                        *)

Top == Last(stack)
IsMachine(t) == t \in Tasks /\ task[t].kind = "machine"
Pending(t) == task[t].state = "PENDING"
OnStack(t) == \E k \in DOMAIN stack : stack[k].task = t

\* The body on top suspends where a helper, main or a work body nests.
Suspends == IsMachine(Top.task) /\ ~Top.helper

\* kira_task_current: set while a state machine body is driven, not cleared
\* for the work bodies it drives in turn.
Current ==
  LET at == {k \in DOMAIN stack : IsMachine(stack[k].task)}
  IN  IF at = {} THEN None ELSE stack[Max(at)].task

\* The program executes: nothing awaited, no blocking sleep.
Runs == trap = "none" /\ stack # <<>> /\ Top.awaits = None /\ Top.until <= clock

Handles == {x \in Tasks : task[x].owner = Top.task /\ task[x].helper = Top.helper}

Spends == fuel[Top.task] > 0 /\ fuel' = [fuel EXCEPT ![Top.task] = @ - 1]
Aborts(reason) == trap' = reason /\ UNCHANGED <<task, queue, stack>>

-----------------------------------------------------------------------------
(* The queue.                                                              *)

\* kira_task_pop_next: the first pending task whose deadline has passed.
IsDue(t) == Pending(t) /\ task[t].wake <= clock

DueAt == {k \in DOMAIN queue : IsDue(queue[k])}
NextDue == queue[Min(DueAt)]

\* Mutant: the head is taken off, whichever task was due.
WithoutHead == Tail(queue)
WithoutNextDue == RemoveAt(queue, Min(DueAt))

\* kira_task_run_one up to the body: the queue without it, and what becomes of
\* it.  A body runs on `below`.  Mutant: a cancelled one is driven.
NeverCancelled(t) == FALSE
IsCancelled(t) == task[t].cancel

\* The result of a detached task is discarded, and by the end-of-run drain any.
Completed(t, drained) == IF task[t].detached \/ drained THEN "CONSUMED" ELSE "COMPLETE"

RunOne(t, below, drained) ==
  /\ queue' = WithoutNextDue
  /\ IF IsCancelled(t)
       THEN task' = [task EXCEPT ![t].state = "CONSUMED"] /\ stack' = below
     ELSE IF task[t].kind = "ready"
       THEN task' = [task EXCEPT ![t].state = Completed(t, drained)] /\ stack' = below
     ELSE /\ task' = [task EXCEPT ![t].wake = 0, ![t].started = TRUE]
          /\ stack' = Append(below, [Frame(t) EXCEPT !.awaits = task[t].parked])

-----------------------------------------------------------------------------
(* Calls of a running body.                                                *)

Spawn(kind) ==
  LET t == Min({x \in Tasks : task[x].state = "UNBORN"}) IN
  /\ Runs /\ Spends /\ \E x \in Tasks : task[x].state = "UNBORN"
  /\ task' = [task EXCEPT ![t] = [Unborn EXCEPT !.kind = kind, !.state = "PENDING",
                                    !.owner = Top.task, !.helper = Top.helper]]
  /\ queue' = Append(queue, t)
  /\ UNCHANGED <<stack, clock, trap>>

Cancel(x) ==
  /\ Runs /\ Spends /\ x \in Handles
  /\ task' = IF Pending(x) THEN [task EXCEPT ![x].cancel = TRUE] ELSE task
  /\ UNCHANGED <<queue, stack, clock, trap>>

Detach(x) ==
  /\ Runs /\ Spends /\ x \in Handles
  /\ task' = IF Pending(x) THEN [task EXCEPT ![x].detached = TRUE]
             ELSE [task EXCEPT ![x].state = "CONSUMED"]
  /\ UNCHANGED <<queue, stack, clock, trap>>

\* A state machine body returns SUSPENDED: back of the queue.
\* Mutant: back to the front.
AtFront(t) == <<t>> \o queue
AtBack(t) == Append(queue, t)

Suspend(wake, parked) ==
  /\ task' = [task EXCEPT ![Top.task].wake = wake, ![Top.task].parked = parked]
  /\ queue' = AtBack(Top.task) /\ stack' = Front(stack)

\* kira_task_sleep; the transform suspends the body after it.  Mutant: a tick late.
LateDeadline(d) == clock + d + 1
Deadline(d) == clock + d

Sleep(d) ==
  /\ Runs /\ Spends /\ clock + d <= MaxClock
  /\ \/ Suspends /\ Suspend(Deadline(d), None)
     \/ /\ ~Suspends /\ Current # None
        /\ task' = [task EXCEPT ![Current].wake = Deadline(d)]
        /\ UNCHANGED <<queue, stack>>
     \/ /\ ~Suspends /\ Current = None
        /\ stack' = [stack EXCEPT ![Len(stack)].until = Deadline(d)]
        /\ UNCHANGED <<task, queue>>
  /\ UNCHANGED <<clock, trap>>

\* kira_task_yield, nested: one other task runs first.
Yield ==
  /\ Runs /\ Spends
  /\ \/ Suspends /\ Suspend(task[Top.task].wake, None)
     \/ ~Suspends /\ DueAt # {} /\ RunOne(NextDue, stack, FALSE)
     \/ ~Suspends /\ DueAt = {} /\ UNCHANGED <<task, queue, stack>>
  /\ UNCHANGED <<clock, trap>>

\* The checks kira_task_await starts with.
Refused(x) ==
  IF task[x].state = "CONSUMED" \/ task[x].detached
    THEN IF task[x].cancel /\ ~task[x].detached THEN "cancelled" ELSE "joined or detached"
  ELSE IF task[x].cancel THEN "cancelled" ELSE "none"

Join(x) ==
  /\ task' = [task EXCEPT ![x].state = "CONSUMED", ![x].joined = TRUE]
  /\ stack' = [stack EXCEPT ![Len(stack)].awaits = None] /\ UNCHANGED <<queue, trap>>

\* kira_task_is_complete, which a suspended join polls.
IsComplete(x) == ~Pending(x) \/ task[x].cancel

\* The transformed await: join a complete task, suspend for a pending one.
PollJoin(x) ==
  \/ ~IsComplete(x) /\ Suspend(task[Top.task].wake, x) /\ UNCHANGED trap
  \/ IsComplete(x) /\ Refused(x) = "none" /\ Join(x)
  \/ IsComplete(x) /\ Refused(x) # "none" /\ Aborts(Refused(x))

Await(x) ==
  /\ Runs /\ Spends /\ x \in Handles
  /\ IF Suspends THEN PollJoin(x)
     ELSE IF Refused(x) # "none" THEN Aborts(Refused(x))
     ELSE /\ stack' = [stack EXCEPT ![Len(stack)].awaits = x]
          /\ UNCHANGED <<task, queue, trap>>
  /\ UNCHANGED clock

\* A state machine body calls a function that is not one, and returns from it;
\* its handles die with it.
CallHelper ==
  /\ Runs /\ Spends /\ Suspends
  /\ stack' = [stack EXCEPT ![Len(stack)].helper = TRUE]
  /\ UNCHANGED <<task, queue, clock, trap>>

Forgets(t, helper) ==
  [x \in Tasks |-> IF task[x].owner = t /\ (helper => task[x].helper)
                     THEN [task[x] EXCEPT !.owner = None, !.helper = FALSE] ELSE task[x]]

LeaveHelper ==
  /\ Runs /\ Top.helper
  /\ stack' = [stack EXCEPT ![Len(stack)].helper = FALSE]
  /\ task' = Forgets(Top.task, TRUE)
  /\ UNCHANGED <<queue, fuel, clock, trap>>

\* The body returns: its task is complete; main goes on to kira_task_drain_all.
Draining == Len(stack) = 2 /\ stack[1].awaits = Main

Return ==
  /\ Runs /\ ~Top.helper
  /\ IF Top.task = Main
       THEN /\ stack' = <<[Top EXCEPT !.awaits = Main]>> /\ task' = Forgets(Main, FALSE)
       ELSE /\ stack' = Front(stack)
            /\ task' = [Forgets(Top.task, FALSE) EXCEPT
                          ![Top.task].state = Completed(Top.task, Draining)]
  /\ UNCHANGED <<queue, fuel, clock, trap>>

-----------------------------------------------------------------------------
(* The loops of kira_task_await and kira_task_drain_all.                   *)

\* The innermost frame waits: for a task, or with Main as its target for all.
Waits == trap = "none" /\ stack # <<>> /\ Top.awaits # None

Drive ==
  /\ Waits /\ ~Suspends
  /\ Top.awaits \in Tasks => Pending(Top.awaits)
  /\ DueAt # {} /\ RunOne(NextDue, stack, Top.awaits = Main)
  /\ UNCHANGED <<fuel, clock, trap>>

JoinDriven ==
  /\ Waits /\ ~Suspends /\ Top.awaits \in Tasks /\ ~Pending(Top.awaits) /\ Join(Top.awaits)
  /\ UNCHANGED <<fuel, clock>>

\* No pending task in the queue: main exits, an await aborts.
Drained ==
  /\ Waits /\ ~Suspends /\ \A k \in DOMAIN queue : ~Pending(queue[k])
  /\ Top.awaits \in Tasks => Pending(Top.awaits)
  /\ Aborts(IF Top.awaits = Main THEN "exited" ELSE "drained")
  /\ UNCHANGED <<fuel, clock>>

PollAgain ==
  /\ Waits /\ Suspends /\ PollJoin(Top.awaits) /\ UNCHANGED <<fuel, clock>>

\* Time passes; it is seen only through deadlines.
Tick ==
  /\ trap = "none" /\ clock < MaxClock
  /\ \/ \E t \in Tasks : Pending(t) /\ task[t].wake > clock
     \/ \E k \in DOMAIN stack : stack[k].until > clock
  /\ clock' = clock + 1 /\ UNCHANGED <<task, queue, stack, fuel, trap>>

-----------------------------------------------------------------------------
Call ==
  \/ \E kind \in Kinds : Spawn(kind)
  \/ \E x \in Tasks : Cancel(x) \/ Detach(x) \/ Await(x)
  \/ \E d \in 0 .. MaxClock : Sleep(d)
  \/ Yield \/ CallHelper \/ LeaveHelper \/ Return

Executor == Drive \/ JoinDriven \/ Drained \/ PollAgain

Next == Call \/ Executor \/ Tick

Spec == Init /\ [][Next]_vars

\* Bodies return (the bound on their calls), the loops go on, time passes.
FairSpec == Spec /\ WF_vars(Return \/ LeaveHelper) /\ WF_vars(Executor) /\ WF_vars(Tick)

-----------------------------------------------------------------------------
(* Properties.                                                             *)

TypeOK ==
  /\ \A t \in Tasks : /\ task[t].state \in {"UNBORN", "PENDING", "COMPLETE", "CONSUMED"}
                      /\ task[t].wake \in 0 .. MaxClock
                      /\ task[t].parked \in Tasks \cup {None}
                      /\ task[t].owner \in Tasks \cup {Main, None}
  /\ ToSet(queue) \subseteq Tasks /\ clock \in 0 .. MaxClock
  /\ trap \in {"none", "exited", "cancelled", "joined or detached", "drained"}

\* A pending task is in one place: queued once, or being driven, whatever was
\* nested, suspended, cancelled or detached meanwhile, and nothing else is in
\* the queue (runtime_helpers_tasks.inc:136-236).  So "task executor queue
\* drained before the awaited task completed" (runtime_helpers_tasks.inc:313,
\* vm_interpreter_tasks.zig:201) never happens.
InOnePlace ==
  /\ IsInjective(queue)
  /\ \A t \in Tasks : trap = "none" =>
       /\ Pending(t) <=> (t \in ToSet(queue) \/ OnStack(t))
       /\ ~(t \in ToSet(queue) /\ OnStack(t))
  /\ \A j, k \in DOMAIN stack : stack[j].task = stack[k].task => j = k
  /\ trap # "drained"

\* "Joining a cancelled or already-consumed (joined/detached) task traps"
\* (vm_interpreter_tasks.zig:174-175): a program that joins each handle once and
\* detaches none is not told "task was already joined or detached".
JoinsAreHonoured ==
  trap = "joined or detached" => \E x \in Tasks : task[x].joined \/ task[x].detached

-----------------------------------------------------------------------------
(* The executor keeps the contract of tasks.                               *)

Status(t) ==
  CASE task[t].state = "UNBORN" -> "unborn"
    [] task[t].state = "PENDING" -> IF OnStack(t) THEN "running"
                                    ELSE IF task[t].started THEN "suspended" ELSE "ready"
    [] task[t].state = "COMPLETE" -> "finished"
    [] task[t].state = "CONSUMED" -> IF task[t].joined THEN "joined" ELSE "dropped"

Contract == INSTANCE TaskContract WITH
  status <- [t \in Tasks |-> Status(t)],
  asked <- [t \in Tasks |-> task[t].cancel],
  letgo <- [t \in Tasks |-> task[t].detached]

\* Every task is run, suspended, cancelled, detached and joined as TaskContract
\* allows, under any nesting of awaits and yields
\* (runtime_helpers_tasks.inc:185-236, 289-345).
KeepsContract == Contract!Spec

\* Every task whose handle was not given up for cancelled ends, and so does
\* the program, unless a join trapped (runtime_helpers_tasks.inc:378-390).
EveryTaskEnds ==
  /\ \A t \in Tasks : Pending(t) ~> ~Pending(t) \/ trap # "none"
  /\ <>(trap # "none")
===============================================================================
