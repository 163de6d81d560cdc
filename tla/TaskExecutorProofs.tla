------------------------- MODULE TaskExecutorProofs -------------------------
(***************************************************************************)
(* Proofs about TaskExecutor, for any number of tasks and any bounds.      *)
(***************************************************************************)
EXTENDS TaskExecutor, TLAPS, WellFoundedInduction, SequenceTheorems

States == {"UNBORN", "PENDING", "COMPLETE", "CONSUMED"}

Task == [kind : {"none", "work", "ready", "machine"}, state : States,
         cancel : BOOLEAN, detached : BOOLEAN, wake : 0 .. MaxClock,
         owner : Tasks \cup {Main, None}, helper : BOOLEAN,
         parked : Tasks \cup {None}, started : BOOLEAN, joined : BOOLEAN]

Body == [task : Tasks \cup {Main}, helper : BOOLEAN,
         awaits : Tasks \cup {Main, None}, until : 0 .. MaxClock]

Types ==
  /\ task \in [Tasks -> Task] /\ queue \in Seq(Tasks) /\ stack \in Seq(Body)

Positions == 1 .. Len(queue)
Depths == 1 .. Len(stack)

\* Main is at the bottom of the stack and no body is on it twice; only a state
\* machine body is inside a helper.
StackShape ==
  /\ Len(stack) >= 1 /\ stack[1].task = Main
  /\ \A j, k \in Depths : stack[j].task = stack[k].task => j = k
  /\ \A k \in Depths : /\ stack[k].awaits = Main => k = 1
                       /\ stack[k].helper => IsMachine(stack[k].task)

\* What the fields of a task record say about each other.
Histories ==
  \A t \in Tasks :
    /\ task[t].state = "UNBORN" => task[t] = Unborn
    /\ task[t].joined => task[t].state = "CONSUMED"
    /\ task[t].kind = "ready" => ~task[t].started
    /\ task[t].parked # None => task[t].kind = "machine"
    /\ \A k \in Depths : stack[k].task = t => task[t].started

\* A pending task is queued once or on the stack, and no other task is.
Places ==
  /\ \A i, j \in Positions : queue[i] = queue[j] => i = j
  /\ \A i \in Positions : Pending(queue[i]) /\ \A k \in Depths : stack[k].task # queue[i]
  /\ \A k \in Depths : stack[k].task \in Tasks => Pending(stack[k].task)
  /\ \A t \in Tasks : Pending(t) => \/ \E i \in Positions : queue[i] = t
                                    \/ \E k \in Depths : stack[k].task = t

\* A task is awaited, or polled by a parked body, through its owner's handle.
AwaitsOwned ==
  /\ \A k \in Depths : stack[k].awaits \in Tasks =>
       /\ task[stack[k].awaits].owner = stack[k].task
       /\ task[stack[k].awaits].helper = stack[k].helper
  /\ \A i \in Positions : task[queue[i]].parked \in Tasks =>
       /\ task[task[queue[i]].parked].owner = queue[i]
       /\ ~task[task[queue[i]].parked].helper

\* The frame at depth k waits in the loop of kira_task_await.
Blocked(k) == /\ stack[k].awaits \in Tasks
              /\ IsMachine(stack[k].task) => stack[k].helper

\* What it waits for can still be joined, and does not wait for it in turn.
AwaitedIsFresh ==
  \A k \in Depths : Blocked(k) =>
    /\ ~task[stack[k].awaits].cancel /\ ~task[stack[k].awaits].detached
    /\ task[stack[k].awaits].state \in {"PENDING", "COMPLETE"}
    /\ \A j \in 1 .. k : stack[j].task # stack[k].awaits

\* The function that holds a handle and cannot suspend is on the stack, below
\* the task if that is there too.
HeldBy(x, k) == /\ stack[k].task = task[x].owner
                /\ task[x].helper => stack[k].helper
                /\ \A j \in 1 .. k : stack[j].task # x
OwnerBelow ==
  \A x \in Tasks : task[x].owner # None /\ (IsMachine(task[x].owner) => task[x].helper) =>
    \E k \in Depths : HeldBy(x, k)

Core == /\ Types /\ StackShape /\ Histories /\ Places
        /\ AwaitsOwned /\ AwaitedIsFresh /\ OwnerBelow

-----------------------------------------------------------------------------
\* A step leaves alone all of a task but its deadline and where it is parked.
Unmoved(y) ==
  /\ task'[y].state = task[y].state /\ task'[y].kind = task[y].kind
  /\ task'[y].cancel = task[y].cancel /\ task'[y].detached = task[y].detached
  /\ task'[y].owner = task[y].owner /\ task'[y].helper = task[y].helper
  /\ task'[y].started = task[y].started /\ task'[y].joined = task[y].joined

\* What the queue, the stack and the task records are made of.
LEMMA Elements ==
  ASSUME Types
  PROVE  /\ Len(queue) \in Nat /\ Len(stack) \in Nat
         /\ \A i \in Positions : queue[i] \in Tasks
         /\ \A k \in Depths : /\ stack[k].task \in Tasks \cup {Main} /\ stack[k].helper \in BOOLEAN
                              /\ stack[k].awaits \in Tasks \cup {Main, None}
         /\ \A t \in Tasks : /\ task[t].state \in States /\ task[t].parked \in Tasks \cup {None}
                             /\ task[t].owner \in Tasks \cup {Main, None}
                             /\ task[t].helper \in BOOLEAN /\ task[t].cancel \in BOOLEAN
                             /\ task[t].detached \in BOOLEAN /\ task[t].joined \in BOOLEAN
                             /\ task[t].started \in BOOLEAN
<1>1. \A k \in Depths : stack[k] \in Body BY DEF Types, Depths
<1>2. \A t \in Tasks : task[t] \in Task BY DEF Types
<1> QED BY <1>1, <1>2 DEF Types, Positions, Depths, Body, Task

\* Nothing moves: deadlines apart, all is as before.
Quiet ==
  /\ queue' = queue /\ Len(stack') = Len(stack)
  /\ \A k \in Depths : /\ stack'[k].task = stack[k].task
                       /\ stack'[k].helper = stack[k].helper
                       /\ stack'[k].awaits = stack[k].awaits
  /\ \A y \in Tasks : /\ Unmoved(y) /\ task'[y].parked = task[y].parked
                      /\ task[y].state = "UNBORN" => task'[y] = task[y]

\* A step that leaves states, owners, queue and stack as they are.
LEMMA QuietKeepsCore ==
  ASSUME Core, Types', Quiet
  PROVE  Core'
<1>1. Depths' = Depths /\ Positions' = Positions BY DEF Quiet, Depths, Positions
<1>2. \A t : IsMachine(t)' <=> IsMachine(t) BY DEF Quiet, Unmoved, IsMachine
<1>3. StackShape' BY <1>1, <1>2 DEF Core, StackShape, Quiet, Depths
<1>4. Histories' BY <1>1 DEF Core, Histories, Quiet, Unmoved
<1>5. Places'
  <2>1. \A y \in Tasks : Pending(y)' <=> Pending(y) BY DEF Quiet, Unmoved, Pending
  <2> QED BY <1>1, <2>1, Elements DEF Core, Places, Quiet
<1>6. AwaitsOwned' BY <1>1, Elements DEF Core, AwaitsOwned, Quiet, Unmoved
<1>7. AwaitedIsFresh'
  <2> SUFFICES ASSUME NEW k \in Depths, Blocked(k)' PROVE
    /\ ~task'[stack'[k].awaits].cancel /\ ~task'[stack'[k].awaits].detached
    /\ task'[stack'[k].awaits].state \in {"PENDING", "COMPLETE"}
    /\ \A j \in 1 .. k : stack'[j].task # stack'[k].awaits
    BY <1>1 DEF AwaitedIsFresh
  <2>1. Blocked(k) BY <1>2 DEF Blocked, Quiet
  <2>2. \A j \in 1 .. k : j \in Depths BY DEF Depths
  <2> QED BY <2>1, <2>2 DEF Core, AwaitedIsFresh, Quiet, Unmoved, Blocked
<1>8. OwnerBelow'
  <2>1. \A x \in Tasks, k \in Depths : HeldBy(x, k) => HeldBy(x, k)'
    <3> SUFFICES ASSUME NEW x \in Tasks, NEW k \in Depths, HeldBy(x, k) PROVE HeldBy(x, k)'
      OBVIOUS
    <3>1. \A j \in 1 .. k : j \in Depths BY DEF Depths
    <3> QED BY <3>1 DEF HeldBy, Quiet, Unmoved
  <2> QED BY <1>1, <1>2, <2>1 DEF Core, OwnerBelow, Quiet, Unmoved
<1> QED BY <1>3, <1>4, <1>5, <1>6, <1>7, <1>8 DEF Core

\* The function that runs uses its handle of x: the task becomes r, and its
\* own frame waits for a.
OwnStep(x, r, a) ==
  /\ queue' = queue /\ Len(stack') = Len(stack)
  /\ \A k \in Depths : /\ stack'[k].task = stack[k].task
                       /\ stack'[k].helper = stack[k].helper
                       /\ stack'[k].awaits = IF k = Len(stack) THEN a ELSE stack[k].awaits
  /\ task' = [task EXCEPT ![x] = r]
  /\ r.kind = task[x].kind /\ r.owner = task[x].owner /\ r.helper = task[x].helper
  /\ r.parked = task[x].parked /\ r.started = task[x].started
  /\ \/ r.state = task[x].state
     \/ task[x].state \in {"COMPLETE", "CONSUMED"} /\ r.state = "CONSUMED"
  /\ r.joined => r.state = "CONSUMED"

\* A handle names a task that was spawned.
LEMMA HandleIsBorn ==
  ASSUME Core, NEW x \in Tasks, task[x].owner # None
  PROVE  task[x].state # "UNBORN"
BY DEF Core, Histories, Unborn

\* A step of the body on top that changes one task it holds a handle of, and
\* what it waits for itself.
LEMMA OwnStepKeepsCore ==
  ASSUME Core, Types', NEW x \in Tasks, NEW r \in Task, NEW a \in {None, x},
         task[x].owner = Top.task, task[x].helper = Top.helper,
         a = x => /\ ~Suspends /\ ~r.cancel /\ ~r.detached
                  /\ r.state \in {"PENDING", "COMPLETE"},
         OwnStep(x, r, a)
  PROVE  Core'
<1> DEFINE n == Len(stack)
<1>0. n \in Nat /\ n >= 1 /\ n \in Depths /\ Top = stack[n]
  BY Elements DEF Core, StackShape, Depths, Top, Last
<1>1. Depths' = Depths /\ Positions' = Positions BY DEF OwnStep, Depths, Positions
<1>2. /\ \A y \in Tasks \ {x} : task'[y] = task[y]
      /\ task'[x] = r
  BY DEF OwnStep, Core, Types
<1>3. \A y \in Tasks : /\ task'[y].kind = task[y].kind /\ task'[y].owner = task[y].owner
                       /\ task'[y].helper = task[y].helper /\ task'[y].parked = task[y].parked
                       /\ task'[y].started = task[y].started
                       /\ Pending(y)' <=> Pending(y)
  BY <1>2 DEF OwnStep, Pending
<1>4. \A y : IsMachine(y)' <=> IsMachine(y) BY <1>3 DEF IsMachine
<1>5. StackShape'
  <2>1. a # Main BY TaskAssumption
  <2> QED BY <1>0, <1>1, <1>4, <2>1 DEF Core, StackShape, OwnStep, Depths
<1>6. Histories'
  <2>1. task[x].state # "UNBORN" BY HandleIsBorn, Elements, <1>0, TaskAssumption DEF Core
  <2>2. r.state # "UNBORN" BY <2>1 DEF OwnStep
  <2>3. \A y \in Tasks : /\ task'[y].state = "UNBORN" => task'[y] = Unborn
                         /\ task'[y].joined => task'[y].state = "CONSUMED"
    BY <1>2, <2>2 DEF Core, Histories, OwnStep
  <2> QED BY <1>1, <1>3, <2>3 DEF Core, Histories, OwnStep
<1>7. Places' BY <1>1, <1>3, Elements DEF Core, Places, OwnStep
<1>8. AwaitsOwned'
  <2>1. ASSUME NEW k \in Depths, stack'[k].awaits \in Tasks
        PROVE  /\ task'[stack'[k].awaits].owner = stack'[k].task
               /\ task'[stack'[k].awaits].helper = stack'[k].helper
    <3>1. CASE k = n BY <3>1, <2>1, <1>0, <1>3, TaskAssumption DEF OwnStep
    <3>2. CASE k # n BY <3>2, <2>1, <1>3 DEF Core, AwaitsOwned, OwnStep
    <3> QED BY <3>1, <3>2
  <2>2. \A i \in Positions : task'[queue[i]].parked \in Tasks =>
           /\ task'[task'[queue[i]].parked].owner = queue[i]
           /\ ~task'[task'[queue[i]].parked].helper
    BY <1>3, Elements DEF Core, AwaitsOwned
  <2> QED BY <1>1, <2>1, <2>2 DEF AwaitsOwned, OwnStep
<1>9. AwaitedIsFresh'
  <2> SUFFICES ASSUME NEW k \in Depths, Blocked(k)' PROVE
    /\ ~task'[stack'[k].awaits].cancel /\ ~task'[stack'[k].awaits].detached
    /\ task'[stack'[k].awaits].state \in {"PENDING", "COMPLETE"}
    /\ \A j \in 1 .. k : stack'[j].task # stack'[k].awaits
    BY <1>1 DEF AwaitedIsFresh
  <2>1. \A j \in 1 .. k : j \in Depths BY <1>0 DEF Depths
  <2>2. CASE k = n
    <3>1. a = x /\ stack'[k].awaits = x BY <2>2, <1>0, TaskAssumption DEF Blocked, OwnStep
    <3>2. IsMachine(Top.task) => Top.helper BY <3>1 DEF Suspends
    <3>3. PICK kk \in Depths : HeldBy(x, kk)
      BY <3>2, <1>0, Elements, TaskAssumption DEF Core, OwnerBelow
    <3>4. kk = n BY <3>3, <1>0 DEF Core, StackShape, HeldBy
    <3> QED BY <2>1, <2>2, <3>1, <3>3, <3>4, <1>2 DEF HeldBy, OwnStep
  <2>3. CASE k # n
    <3>1. stack'[k].awaits = stack[k].awaits /\ stack'[k].task = stack[k].task /\ stack'[k].helper = stack[k].helper
      BY <2>3 DEF OwnStep
    <3>2. Blocked(k) BY <3>1, <1>4 DEF Blocked
    <3>3. stack[k].task # Top.task BY <2>3, <1>0 DEF Core, StackShape
    <3>4. stack[k].awaits # x BY <3>2, <3>3 DEF Core, AwaitsOwned, Blocked
    <3> QED BY <2>1, <3>1, <3>2, <3>4, <1>2 DEF Core, AwaitedIsFresh, Blocked, OwnStep
  <2> QED BY <2>2, <2>3
<1>10. OwnerBelow'
  <2>1. ASSUME NEW y \in Tasks, NEW k \in Depths, HeldBy(y, k) PROVE HeldBy(y, k)'
    <3>1. \A j \in 1 .. k : j \in Depths BY DEF Depths
    <3> QED BY <2>1, <3>1, <1>3 DEF HeldBy, OwnStep
  <2> QED BY <1>1, <1>3, <1>4, <2>1 DEF Core, OwnerBelow
<1> QED BY <1>5, <1>6, <1>7, <1>8, <1>9, <1>10 DEF Core

\* A state machine body calls a helper.
LEMMA CallHelperKeepsCore ==
  ASSUME Core, Types', Suspends, Top.awaits = None, task' = task, queue' = queue,
         Len(stack') = Len(stack),
         \A k \in Depths : /\ stack'[k].task = stack[k].task
                           /\ stack'[k].awaits = stack[k].awaits
                           /\ stack'[k].helper = (k = Len(stack) \/ stack[k].helper)
  PROVE  Core'
<1> DEFINE n == Len(stack)
<1>0. n \in Nat /\ n >= 1 /\ n \in Depths /\ Top = stack[n]
  BY Elements DEF Core, StackShape, Depths, Top, Last
<1>1. Depths' = Depths /\ Positions' = Positions BY DEF Depths, Positions
<1>2. \A y : (IsMachine(y)' <=> IsMachine(y)) /\ (Pending(y)' <=> Pending(y)) BY DEF IsMachine, Pending
<1>3. StackShape'
  <2>1. IsMachine(stack[n].task) BY <1>0 DEF Suspends
  <2>2. \A k \in Depths : stack'[k].helper => IsMachine(stack[k].task) BY <2>1 DEF Core, StackShape
  <2> QED BY <1>0, <1>1, <1>2, <2>2 DEF Core, StackShape, Depths
<1>4. Histories' BY <1>1 DEF Core, Histories
<1>5. Places' BY <1>1, <1>2 DEF Core, Places
<1>6. AwaitsOwned'
  <2>1. \A k \in Depths : stack'[k].awaits \in Tasks => k # n
    BY <1>0, TaskAssumption
  <2> QED BY <1>1, <2>1, Elements DEF Core, AwaitsOwned
<1>7. AwaitedIsFresh'
  <2> SUFFICES ASSUME NEW k \in Depths, Blocked(k)' PROVE
    /\ ~task[stack'[k].awaits].cancel /\ ~task[stack'[k].awaits].detached
    /\ task[stack'[k].awaits].state \in {"PENDING", "COMPLETE"}
    /\ \A j \in 1 .. k : stack'[j].task # stack'[k].awaits
    BY <1>1 DEF AwaitedIsFresh
  <2>1. k # n BY <1>0, TaskAssumption DEF Blocked
  <2>2. Blocked(k) BY <1>2, <2>1, Elements DEF Blocked, Core
  <2>3. \A j \in 1 .. k : j \in Depths BY <1>0 DEF Depths
  <2> QED BY <2>2, <2>3 DEF Core, AwaitedIsFresh
<1>8. OwnerBelow'
  <2>1. ASSUME NEW y \in Tasks, NEW k \in Depths, HeldBy(y, k) PROVE HeldBy(y, k)'
    <3>1. \A j \in 1 .. k : j \in Depths BY <1>0 DEF Depths
    <3> QED BY <2>1, <3>1 DEF HeldBy
  <2> QED BY <1>1, <1>2, <2>1 DEF Core, OwnerBelow
<1> QED BY <1>3, <1>4, <1>5, <1>6, <1>7, <1>8 DEF Core

\* kira_task_suspend: the machine on top leaves the stack and is queued again.
LEMMA SuspendKeepsCore ==
  ASSUME Core, Suspends, Top.awaits = None \/ Top.awaits \in Tasks,
         NEW wake \in 0 .. MaxClock, NEW x \in Tasks \cup {None},
         x \in Tasks => task[x].owner = Top.task /\ ~task[x].helper,
         Suspend(wake, x)
  PROVE  Core'
<1> DEFINE n == Len(stack)  t == stack[n].task
<1>1. n \in Nat /\ n >= 1 /\ t \in Tasks /\ task[t].kind = "machine" /\ ~stack[n].helper /\ n > 1
  BY TaskAssumption DEF Core, Suspends, Types, StackShape, Top, Last, IsMachine, Body
<1>2. /\ task' = [task EXCEPT ![t].wake = wake, ![t].parked = x]
      /\ queue' = Append(queue, t) /\ stack' = SubSeq(stack, 1, n - 1)
  BY DEF Suspend, Top, Last, Front, AtBack
<1>3. /\ stack' \in Seq(Body) /\ Len(stack') = n - 1
      /\ \A k \in 1 .. n - 1 : stack'[k] = stack[k]
  BY <1>1, <1>2 DEF Core, Types
<1>4. /\ queue' \in Seq(Tasks) /\ Len(queue') = Len(queue) + 1
      /\ \A i \in Positions : queue'[i] = queue[i]
      /\ queue'[Len(queue) + 1] = t
  BY <1>1, <1>2 DEF Core, Types, Positions
<1>5. task' \in [Tasks -> Task] /\ \A y \in Tasks \ {t} : task'[y] = task[y]
  <2> DEFINE r == [task[t] EXCEPT !.wake = wake, !.parked = x]
  <2>1. task[t] \in Task BY <1>1 DEF Core, Types
  <2>2. r \in Task BY <2>1 DEF Task
  <2>3. task' = [task EXCEPT ![t] = r] BY <1>2
  <2> QED BY <1>1, <2>2, <2>3 DEF Core, Types
<1>6. /\ task'[t].parked = x
      /\ \A y \in Tasks : Unmoved(y)
  BY <1>1, <1>2 DEF Core, Types, Task, Unmoved
<1> HIDE DEF n, t
<1>7. Types' BY <1>3, <1>4, <1>5 DEF Types
<1>a. Len(stack) = n /\ Len(queue) \in Nat /\ stack[n].task = t BY DEF n, t, Core, Types
<1>b. \A k \in 1 .. n - 1 : k \in 1 .. n /\ k # n BY <1>1
<1>8. StackShape'
  <2>1. 1 \in 1 .. n - 1 BY <1>1
  <2>2. \A k \in 1 .. n - 1 : IsMachine(stack[k].task)' <=> IsMachine(stack[k].task)
    BY <1>3, <1>6 DEF IsMachine, Unmoved
  <2> QED BY <1>a, <1>b, <1>1, <1>3, <2>1, <2>2 DEF Core, StackShape, Depths, IsMachine
<1>9. Histories'
  <2>1. task[t].state = "PENDING" BY <1>1, <1>a DEF Core, Places, Depths, Pending
  <2> SUFFICES ASSUME NEW y \in Tasks
               PROVE  /\ task'[y].state = "UNBORN" => task'[y] = Unborn
                      /\ task'[y].joined => task'[y].state = "CONSUMED"
                      /\ task'[y].kind = "ready" => ~task'[y].started
                      /\ task'[y].parked # None => task'[y].kind = "machine"
                      /\ \A k \in 1 .. n - 1 : stack'[k].task = y => task'[y].started
     BY <1>3 DEF Histories, Depths, Unborn
  <2> QED BY <1>a, <1>b, <1>1, <1>3, <1>5, <1>6, <2>1 DEF Core, Histories, Depths, Unmoved
<1>10. Places' 
  <2>1. \A i, j \in 1 .. Len(queue) + 1 : queue'[i] = queue'[j] => i = j
    BY <1>a, <1>4, <1>1 DEF Core, Places, Positions, Depths
  <2>2. \A i \in 1 .. Len(queue) + 1 : task'[queue'[i]].state = "PENDING" /\ \A k \in 1 .. n - 1 : stack'[k].task # queue'[i]
    <3> SUFFICES ASSUME NEW i \in 1 .. Len(queue) + 1
                 PROVE  task'[queue'[i]].state = "PENDING" /\ \A k \in 1 .. n - 1 : stack'[k].task # queue'[i]
      OBVIOUS
    <3>1. CASE i = Len(queue) + 1
      BY <1>a, <1>b, <1>4, <1>3, <1>1, <1>6, <3>1 DEF Core, Places, Depths, Pending, Unmoved, StackShape
    <3>2. CASE i # Len(queue) + 1
      <4>1. i \in 1 .. Len(queue) /\ queue'[i] = queue[i] /\ queue[i] \in Tasks BY <1>a, <1>4, <3>2 DEF Core, Types, Positions
      <4> QED BY <1>a, <1>b, <4>1, <1>3, <1>1, <1>6 DEF Core, Places, Positions, Depths, Pending, Unmoved
    <3> QED BY <3>1, <3>2
  <2>3. \A k \in 1 .. n - 1 : stack'[k].task \in Tasks => task'[stack'[k].task].state = "PENDING"
    BY <1>a, <1>b, <1>3, <1>1, <1>6 DEF Core, Types, Places, Positions, Depths, Pending, Unmoved, StackShape
  <2>4. ASSUME NEW y \in Tasks, task'[y].state = "PENDING"
        PROVE  \/ \E i \in 1 .. Len(queue) + 1 : queue'[i] = y
               \/ \E k \in 1 .. n - 1 : stack'[k].task = y
    <3>1. CASE y = t BY <1>a, <1>4, <3>1
    <3>2. CASE y # t
      <4>1. \/ \E i \in Positions : queue[i] = y
            \/ \E k \in Depths : stack[k].task = y
        BY <1>6, <2>4 DEF Core, Places, Pending, Unmoved
      <4>2. ASSUME NEW k \in Depths, stack[k].task = y PROVE \E kk \in 1 .. n - 1 : stack'[kk].task = y
        BY <1>a, <1>1, <1>3, <4>2, <3>2 DEF Depths
      <4> QED BY <4>1, <4>2, <1>a, <1>4 DEF Positions
    <3> QED BY <3>1, <3>2
  <2> QED BY <1>3, <1>4, <2>1, <2>2, <2>3, <2>4 DEF Places, Positions, Depths, Pending
<1>11. AwaitsOwned'
  <2>1. ASSUME NEW k \in 1 .. n - 1, stack'[k].awaits \in Tasks
        PROVE  /\ task'[stack'[k].awaits].owner = stack'[k].task
               /\ task'[stack'[k].awaits].helper = stack'[k].helper
    BY <1>a, <1>b, <1>1, <1>3, <1>6, <2>1 DEF Core, AwaitsOwned, Depths, Unmoved
  <2>2. ASSUME NEW i \in 1 .. Len(queue) + 1, task'[queue'[i]].parked \in Tasks
        PROVE  /\ task'[task'[queue'[i]].parked].owner = queue'[i]
               /\ ~task'[task'[queue'[i]].parked].helper
    <3>1. CASE i = Len(queue) + 1
      BY <1>a, <1>4, <1>6, <2>2, <3>1 DEF Unmoved, Top, Last
    <3>2. CASE i # Len(queue) + 1
      <4>1. i \in Positions /\ queue'[i] = queue[i] /\ queue[i] \in Tasks /\ queue[i] # t
        BY <1>a, <1>1, <1>4, <3>2 DEF Core, Types, Positions, Places, Depths
      <4>2. task'[queue[i]] = task[queue[i]] BY <4>1, <1>5
      <4> QED BY <4>1, <4>2, <1>6, <2>2 DEF Core, AwaitsOwned, Unmoved
    <3> QED BY <3>1, <3>2
  <2> QED BY <1>3, <1>4, <2>1, <2>2 DEF AwaitsOwned, Positions, Depths
<1>12. AwaitedIsFresh' BY <1>1, <1>3, <1>6, <1>a, <1>b DEF Core, AwaitedIsFresh, Blocked, IsMachine, Depths, Unmoved
<1>13. OwnerBelow' BY <1>1, <1>3, <1>6 DEF Core, OwnerBelow, HeldBy, IsMachine, Depths, Unmoved, n, t
<1> QED BY <1>7, <1>8, <1>9, <1>10, <1>11, <1>12, <1>13 DEF Core

\* Two records of a task that differ at most in whose it is.
Keeps(r, x) ==
  /\ r.state = x.state /\ r.kind = x.kind /\ r.cancel = x.cancel /\ r.detached = x.detached
  /\ r.parked = x.parked /\ r.started = x.started /\ r.joined = x.joined

\* What forgetting its handle leaves of a task record.
LEMMA ForgottenRecord ==
  ASSUME NEW x \in Task, NEW r, r = [x EXCEPT !.owner = None, !.helper = FALSE]
  PROVE  r \in Task /\ r.owner = None /\ Keeps(r, x)
BY DEF Task, Keeps

\* Forgetting the handles of a body changes nothing but who owns a task.
LEMMA ForgetsMap ==
  ASSUME Core, NEW t, NEW helper \in BOOLEAN
  PROVE  /\ Forgets(t, helper) \in [Tasks -> Task]
         /\ \A y \in Tasks : /\ Keeps(Forgets(t, helper)[y], task[y])
                             /\ IF task[y].owner = t /\ (helper => task[y].helper)
                                  THEN Forgets(t, helper)[y].owner = None
                                  ELSE Forgets(t, helper)[y] = task[y]
<1> DEFINE F == Forgets(t, helper)
<1>1. \A y \in Tasks : task[y] \in Task BY DEF Core, Types
<1>2. \A y \in Tasks : F[y] = IF task[y].owner = t /\ (helper => task[y].helper)
                                THEN [task[y] EXCEPT !.owner = None, !.helper = FALSE] ELSE task[y]
  BY DEF Forgets
<1>3. F = [y \in Tasks |-> F[y]] BY DEF Forgets
<1> HIDE DEF F
<1>4. \A y \in Tasks : /\ F[y] \in Task /\ Keeps(F[y], task[y])
                       /\ IF task[y].owner = t /\ (helper => task[y].helper)
                            THEN F[y].owner = None ELSE F[y] = task[y]
  <2> TAKE y \in Tasks
  <2>1. PICK x \in Task : x = task[y] BY <1>1
  <2>2. PICK r : r = F[y] OBVIOUS
  <2>3. CASE x.owner = t /\ (helper => x.helper)
    <3>1. r = [x EXCEPT !.owner = None, !.helper = FALSE] BY <1>2, <2>1, <2>2, <2>3
    <3>2. r \in Task /\ r.owner = None /\ Keeps(r, x) BY <3>1, ForgottenRecord
    <3> QED BY <2>1, <2>2, <2>3, <3>2
  <2>4. CASE ~(x.owner = t /\ (helper => x.helper))
    <3>1. r = x BY <1>2, <2>1, <2>2, <2>4
    <3>2. Keeps(r, x) BY <3>1 DEF Keeps
    <3> QED BY <2>1, <2>2, <2>4, <3>1, <3>2
  <2> QED BY <2>3, <2>4
<1>5. F \in [Tasks -> Task] BY <1>3, <1>4
<1> QED BY <1>4, <1>5 DEF F

\* The function on top gives up handles: a helper that returns its own, main
\* all of them before it drains.
LEMMA ForgetKeepsCore ==
  ASSUME Core, Types', NEW helper \in BOOLEAN, task' = Forgets(Top.task, helper),
         IF helper THEN IsMachine(Top.task) ELSE Top.task = Main,
         queue' = queue, Len(stack') = Len(stack),
         \A k \in Depths : /\ stack'[k].task = stack[k].task
                           /\ k # Len(stack) => /\ stack'[k].awaits = stack[k].awaits
                                                /\ stack'[k].helper = stack[k].helper,
         ~stack'[Len(stack)].helper,
         stack'[Len(stack)].awaits = IF helper THEN None ELSE Main
  PROVE  Core'
<1> DEFINE n == Len(stack)  t == Top.task
<1>0. n \in Nat /\ n >= 1 /\ n \in Depths /\ stack[n].task = t /\ t \in Tasks \cup {Main}
  BY Elements DEF Core, StackShape, Depths, Top, Last
<1>1. Depths' = Depths /\ Positions' = Positions BY DEF Depths, Positions
<1>2. \A y \in Tasks :
        /\ task'[y].state = task[y].state /\ task'[y].kind = task[y].kind
        /\ task'[y].cancel = task[y].cancel /\ task'[y].detached = task[y].detached
        /\ task'[y].parked = task[y].parked
        /\ task'[y].started = task[y].started /\ task'[y].joined = task[y].joined
        /\ IF task[y].owner = t /\ (helper => task[y].helper)
             THEN task'[y].owner = None
             ELSE task'[y] = task[y]
  BY ForgetsMap DEF Keeps
<1>3. \A y : (IsMachine(y)' <=> IsMachine(y)) BY <1>2 DEF IsMachine
<1>4. \A y \in Tasks : (Pending(y)' <=> Pending(y)) BY <1>2 DEF Pending
<1> HIDE DEF n, t
<1>a. n = Len(stack) BY DEF n
<1>5. StackShape'
  <2>1. \A k \in Depths : stack'[k].helper => IsMachine(stack[k].task)
    BY <1>a DEF Core, StackShape
  <2>2. \A k \in Depths : stack'[k].awaits = Main => k = 1
    <3>1. helper => None # Main BY TaskAssumption
    <3>2. ~helper => n = 1 BY <1>0, <1>a DEF Core, StackShape, Depths, t
    <3> QED BY <1>a, <3>1, <3>2 DEF Core, StackShape
  <2> QED BY <1>0, <1>1, <1>3, <2>1, <2>2 DEF Core, StackShape, Depths
<1>6. Histories'
  <2>1. \A y \in Tasks : task[y].state = "UNBORN" => task'[y] = task[y]
    BY <1>0, <1>2, TaskAssumption DEF Core, Histories, Unborn
  <2> QED BY <1>1, <1>2, <2>1 DEF Core, Histories
<1>7. Places' BY <1>1, <1>4, Elements DEF Core, Places
<1>8. AwaitsOwned'
  <2>1. ASSUME NEW k \in Depths, stack'[k].awaits \in Tasks
        PROVE  /\ task'[stack'[k].awaits].owner = stack'[k].task
               /\ task'[stack'[k].awaits].helper = stack'[k].helper
    <3>1. k # n BY <1>a, <2>1, TaskAssumption
    <3>2. stack[k].task # t BY <3>1, <1>0, <1>a DEF Core, StackShape
    <3>3. /\ stack[k].awaits \in Tasks /\ stack'[k].awaits = stack[k].awaits
          /\ task[stack[k].awaits].owner = stack[k].task
          /\ task[stack[k].awaits].helper = stack[k].helper
      BY <3>1, <1>a, <2>1 DEF Core, AwaitsOwned
    <3> QED BY <3>1, <3>2, <3>3, <1>2, <1>a
  <2>2. ASSUME NEW i \in Positions, task'[queue[i]].parked \in Tasks
        PROVE  /\ task'[task'[queue[i]].parked].owner = queue[i]
               /\ ~task'[task'[queue[i]].parked].helper
    <3>1. queue[i] # t BY <1>0 DEF Core, Places
    <3> QED BY <3>1, <2>2, <1>2, Elements DEF Core, AwaitsOwned
  <2> QED BY <1>1, <2>1, <2>2 DEF AwaitsOwned
<1>9. AwaitedIsFresh'
  <2> SUFFICES ASSUME NEW k \in Depths, Blocked(k)' PROVE
    /\ ~task'[stack'[k].awaits].cancel /\ ~task'[stack'[k].awaits].detached
    /\ task'[stack'[k].awaits].state \in {"PENDING", "COMPLETE"}
    /\ \A j \in 1 .. k : stack'[j].task # stack'[k].awaits
    BY <1>1 DEF AwaitedIsFresh
  <2>1. k # n BY <1>a, TaskAssumption DEF Blocked
  <2>2. stack'[k].awaits = stack[k].awaits /\ Blocked(k) BY <1>3, <1>a, <2>1 DEF Blocked
  <2>3. \A j \in 1 .. k : j \in Depths BY <1>0 DEF Depths
  <2>4. stack[k].awaits \in Tasks BY <2>2 DEF Blocked
  <2> QED BY <2>2, <2>3, <2>4, <1>2 DEF Core, AwaitedIsFresh
<1>10. OwnerBelow'
  <2> SUFFICES ASSUME NEW y \in Tasks, task'[y].owner # None,
                      IsMachine(task'[y].owner) => task'[y].helper
               PROVE  \E k \in Depths : HeldBy(y, k)'
    BY <1>1, <1>3 DEF OwnerBelow
  <2>1. task'[y] = task[y] /\ ~(task[y].owner = t /\ (helper => task[y].helper)) BY <1>2
  <2>2. PICK k \in Depths : HeldBy(y, k) BY <2>1 DEF Core, OwnerBelow
  <2>3. k # n
    <3> SUFFICES ASSUME k = n PROVE FALSE OBVIOUS
    <3>1. task[y].owner = t BY <1>0, <2>2 DEF HeldBy
    <3>2. helper /\ IsMachine(t) /\ ~task[y].helper BY <2>1, <3>1 DEF t
    <3> QED BY <2>1, <3>1, <3>2
  <2>4. \A j \in 1 .. k : j \in Depths BY <1>0 DEF Depths
  <2>5. HeldBy(y, k)' BY <1>a, <2>1, <2>2, <2>3, <2>4 DEF HeldBy
  <2> QED BY <2>5
<1> QED BY <1>5, <1>6, <1>7, <1>8, <1>9, <1>10 DEF Core

\* Taking one element off the queue keeps the others, in their order.
LEMMA RemoveAtKeepsOthers ==
  ASSUME NEW S, NEW q \in Seq(S), NEW i \in 1 .. Len(q)
  PROVE  /\ RemoveAt(q, i) \in Seq(S) /\ Len(RemoveAt(q, i)) = Len(q) - 1
         /\ \A j \in 1 .. Len(q) - 1 :
              RemoveAt(q, i)[j] = q[IF j < i THEN j ELSE j + 1]
<1> DEFINE a == SubSeq(q, 1, i - 1)  b == SubSeq(q, i + 1, Len(q))
<1>0. Len(q) \in Nat /\ i \in Nat /\ 1 <= i /\ i <= Len(q) OBVIOUS
<1>1. a \in Seq(S) /\ Len(a) = i - 1 /\ \A j \in 1 .. i - 1 : a[j] = q[j] BY <1>0
<1>2. b \in Seq(S) /\ Len(b) = Len(q) - i /\ \A j \in 1 .. Len(q) - i : b[j] = q[j + i] BY <1>0
<1> HIDE DEF a, b
<1>3. /\ a \o b \in Seq(S) /\ Len(a \o b) = Len(q) - 1
      /\ \A j \in 1 .. Len(q) - 1 : (a \o b)[j] = IF j <= i - 1 THEN a[j] ELSE b[j - (i - 1)]
  <2>1. a \o b \in Seq(S) /\ Len(a \o b) = Len(a) + Len(b) BY <1>1, <1>2, ConcatProperties
  <2>2. \A j \in 1 .. Len(a) + Len(b) : (a \o b)[j] = IF j <= Len(a) THEN a[j] ELSE b[j - Len(a)]
    BY <1>1, <1>2
  <2> QED BY <1>0, <1>1, <1>2, <2>1, <2>2
<1>4. RemoveAt(q, i) = a \o b BY DEF RemoveAt, a, b
<1>5. ASSUME NEW j \in 1 .. Len(q) - 1 PROVE (a \o b)[j] = q[IF j < i THEN j ELSE j + 1]
  <2>1. CASE j < i
    <3>1. j \in 1 .. i - 1 BY <1>0, <2>1
    <3> QED BY <3>1, <2>1, <1>0, <1>1, <1>3
  <2>2. CASE ~(j < i)
    <3>1. j - (i - 1) \in 1 .. Len(q) - i /\ j - (i - 1) + i = j + 1 BY <1>0, <2>2
    <3> QED BY <3>1, <2>2, <1>0, <1>2, <1>3
  <2> QED BY <2>1, <2>2
<1> QED BY <1>3, <1>4, <1>5

\* Taking one task out of the queue leaves the others in it, each once.
LEMMA Dequeue ==
  ASSUME Core, NEW i \in Positions, queue' = RemoveAt(queue, i)
  PROVE  /\ queue' \in Seq(Tasks)
         /\ \A j \in Positions' : \E h \in Positions : h # i /\ queue'[j] = queue[h]
         /\ \A h \in Positions \ {i} : \E j \in Positions' : queue'[j] = queue[h]
         /\ \A g, j \in Positions' : queue'[g] = queue'[j] => g = j
<1> DEFINE m == Len(queue)  Old(j) == IF j < i THEN j ELSE j + 1
<1>1. m \in Nat /\ i \in 1 .. m BY Elements DEF Core, Positions
<1>2. /\ queue' \in Seq(Tasks) /\ Len(queue') = m - 1
      /\ \A j \in 1 .. m - 1 : queue'[j] = queue[Old(j)]
  <2>1. queue \in Seq(Tasks) BY DEF Core, Types
  <2> QED BY <1>1, <2>1, RemoveAtKeepsOthers
<1>3. Positions' = 1 .. m - 1 BY <1>2 DEF Positions
<1>4. \A j \in 1 .. m - 1 : Old(j) \in 1 .. m /\ Old(j) # i BY <1>1
<1>5. \A g, j \in 1 .. m - 1 : Old(g) = Old(j) => g = j BY <1>1
<1>6. ASSUME NEW h \in 1 .. m, h # i PROVE \E j \in 1 .. m - 1 : Old(j) = h
  <2>1. CASE h < i BY <1>1, <2>1
  <2>2. CASE h > i
    <3>1. h - 1 \in 1 .. m - 1 /\ Old(h - 1) = h BY <1>1, <2>2
    <3> QED BY <3>1
  <2> QED BY <1>1, <1>6, <2>1, <2>2
<1>7. Positions = 1 .. m BY DEF Positions
<1>8. \A g, j \in 1 .. m : queue[g] = queue[j] => g = j BY <1>7 DEF Core, Places
<1> HIDE DEF m, Old
<1> QED BY <1>2, <1>3, <1>4, <1>5, <1>6, <1>7, <1>8

RetireStep(i, t, s) ==
  queue' = RemoveAt(queue, i) /\ task' = [task EXCEPT ![t].state = s] /\ stack' = stack

EnterStep(i, t) ==
  /\ queue' = RemoveAt(queue, i)
  /\ task' = [task EXCEPT ![t].wake = 0, ![t].started = TRUE]
  /\ stack' = Append(stack, [Frame(t) EXCEPT !.awaits = task[t].parked])

\* A task that is not driven leaves the queue: cancelled, or a ready value.
LEMMA RetireKeepsCore ==
  ASSUME Core, Types', NEW i \in Positions, NEW t \in Tasks, t = queue[i],
         NEW s \in {"COMPLETE", "CONSUMED"}, RetireStep(i, t, s),
         s = "CONSUMED" => \A k \in Depths : Blocked(k) => stack[k].awaits # t
  PROVE  Core'
<1>0. task[t].state = "PENDING" /\ ~task[t].joined
  BY Elements DEF Core, Places, Pending, Histories
<1>1. Depths' = Depths /\ stack' = stack BY DEF Depths, RetireStep
<1>2. /\ \A y \in Tasks \ {t} : task'[y] = task[y]
      /\ task'[t].state = s
      /\ \A y \in Tasks : /\ task'[y].kind = task[y].kind
                          /\ task'[y].owner = task[y].owner /\ task'[y].helper = task[y].helper
                          /\ task'[y].parked = task[y].parked /\ task'[y].cancel = task[y].cancel
                          /\ task'[y].detached = task[y].detached
                          /\ task'[y].started = task[y].started /\ task'[y].joined = task[y].joined
  BY <1>0 DEF Core, Types, Task, RetireStep
<1>3. \A y : IsMachine(y)' <=> IsMachine(y) BY <1>2 DEF IsMachine
<1>4. /\ \A j \in Positions' : \E h \in Positions : h # i /\ queue'[j] = queue[h]
      /\ \A h \in Positions \ {i} : \E j \in Positions' : queue'[j] = queue[h]
      /\ \A g, j \in Positions' : queue'[g] = queue'[j] => g = j
  BY Dequeue DEF RetireStep
<1>5. \A h \in Positions : h # i => queue[h] # t BY DEF Core, Places
<1>6. StackShape' BY <1>1, <1>3 DEF Core, StackShape
<1>7. Histories' BY <1>0, <1>1, <1>2 DEF Core, Histories
<1>8. Places'
  <2>1. \A k \in Depths : stack[k].task # t BY DEF Core, Places
  <2>4. ASSUME NEW j \in Positions'
        PROVE  task'[queue'[j]].state = "PENDING" /\ \A k \in Depths : stack[k].task # queue'[j]
    <3>1. PICK h \in Positions : h # i /\ queue'[j] = queue[h] BY <1>4
    <3>2. queue[h] \in Tasks /\ queue[h] # t BY <3>1, <1>5, Elements DEF Core
    <3> QED BY <3>1, <3>2, <1>2 DEF Core, Places, Pending
  <2>5. \A k \in Depths : stack[k].task \in Tasks => task'[stack[k].task].state = "PENDING"
    BY <2>1, <1>2 DEF Core, Places, Pending
  <2>6. ASSUME NEW y \in Tasks, task'[y].state = "PENDING"
        PROVE  (\E j \in Positions' : queue'[j] = y) \/ \E k \in Depths : stack[k].task = y
    <3>1. y # t /\ Pending(y) BY <2>6, <1>2 DEF Pending
    <3>2. (\E h \in Positions : queue[h] = y) \/ \E k \in Depths : stack[k].task = y
      BY <3>1 DEF Core, Places
    <3> QED BY <3>1, <3>2, <1>4
  <2> QED BY <1>1, <1>4, <2>4, <2>5, <2>6 DEF Places, Pending
<1>9. AwaitsOwned'
  <2>1. \A j \in Positions' : task'[queue'[j]].parked \in Tasks =>
           /\ task'[task'[queue'[j]].parked].owner = queue'[j]
           /\ ~task'[task'[queue'[j]].parked].helper
    BY <1>2, <1>4, Elements DEF Core, AwaitsOwned
  <2> QED BY <1>1, <1>2, <2>1 DEF Core, AwaitsOwned
<1>10. AwaitedIsFresh'
  <2> SUFFICES ASSUME NEW k \in Depths, Blocked(k)' PROVE
    /\ ~task'[stack[k].awaits].cancel /\ ~task'[stack[k].awaits].detached
    /\ task'[stack[k].awaits].state \in {"PENDING", "COMPLETE"}
    /\ \A j \in 1 .. k : stack[j].task # stack[k].awaits
    BY <1>1 DEF AwaitedIsFresh
  <2>1. Blocked(k) /\ stack[k].awaits \in Tasks BY <1>1, <1>3 DEF Blocked
  <2>2. stack[k].awaits = t => s = "COMPLETE" BY <2>1
  <2> QED BY <2>1, <2>2, <1>2 DEF Core, AwaitedIsFresh
<1>11. OwnerBelow'
  <2>1. \A y \in Tasks, k \in Depths : HeldBy(y, k) => HeldBy(y, k)' BY <1>1, <1>2 DEF HeldBy
  <2> QED BY <1>1, <1>2, <1>3, <2>1 DEF Core, OwnerBelow
<1> QED BY <1>6, <1>7, <1>8, <1>9, <1>10, <1>11 DEF Core

\* A task leaves the queue and its body is entered.
LEMMA EnterKeepsCore ==
  ASSUME Core, NEW i \in Positions, NEW t \in Tasks, t = queue[i],
         task[t].kind # "ready", EnterStep(i, t)
  PROVE  Core'
<1> DEFINE f == [Frame(t) EXCEPT !.awaits = task[t].parked]
<1>n. PICK n \in Nat : n = Len(stack) BY Elements DEF Core
<1>0. /\ task[t] \in Task /\ task[t].state = "PENDING" /\ n >= 1 /\ t # Main /\ 0 \in 0 .. MaxClock
  BY <1>n, Elements, TaskAssumption DEF Core, Types, Places, Pending, StackShape
<1>1. task' \in [Tasks -> Task] /\ \A y \in Tasks \ {t} : task'[y] = task[y]
  <2> DEFINE r == [task[t] EXCEPT !.wake = 0, !.started = TRUE]
  <2>2. r \in Task BY <1>0 DEF Task
  <2>3. task' = [task EXCEPT ![t] = r] BY DEF EnterStep
  <2> QED BY <1>0, <2>2, <2>3 DEF Core, Types
<1>2. /\ task'[t].started
      /\ \A y \in Tasks : /\ task'[y].kind = task[y].kind /\ task'[y].state = task[y].state
                          /\ task'[y].owner = task[y].owner /\ task'[y].helper = task[y].helper
                          /\ task'[y].parked = task[y].parked /\ task'[y].cancel = task[y].cancel
                          /\ task'[y].detached = task[y].detached
                          /\ task'[y].joined = task[y].joined
  BY <1>0 DEF Core, Types, Task, EnterStep
<1>3. f \in Body /\ f.task = t /\ ~f.helper /\ f.awaits = task[t].parked
  <2>1. task[t].parked \in Tasks \cup {Main, None} BY <1>0 DEF Task
  <2> QED BY <1>0, <2>1 DEF Body, Frame
<1>4. /\ stack' \in Seq(Body) /\ Len(stack') = n + 1 /\ stack'[n + 1] = f
      /\ \A k \in Depths : stack'[k] = stack[k]
  BY <1>n, <1>3 DEF Core, Types, Depths, EnterStep
<1>5. /\ queue' \in Seq(Tasks)
      /\ \A j \in Positions' : \E h \in Positions : h # i /\ queue'[j] = queue[h]
      /\ \A h \in Positions \ {i} : \E j \in Positions' : queue'[j] = queue[h]
      /\ \A g, j \in Positions' : queue'[g] = queue'[j] => g = j
  BY Dequeue DEF EnterStep
<1>6. \A h \in Positions : h # i => queue[h] # t BY DEF Core, Places
<1>7. \A k \in Depths : stack[k].task # t BY DEF Core, Places
<1>8. \A y : (IsMachine(y)' <=> IsMachine(y)) /\ (y \in Tasks => (Pending(y)' <=> Pending(y)))
  BY <1>2 DEF IsMachine, Pending
<1>9. /\ Depths' = 1 .. n + 1 /\ Depths = 1 .. n
      /\ \A k \in Depths' : k = n + 1 \/ (k \in Depths /\ k # n + 1)
  BY <1>n, <1>0, <1>4 DEF Depths
<1>b. task[t].parked \in Tasks \cup {None} /\ ~(Main \in Tasks \cup {None})
  BY <1>0, TaskAssumption DEF Task
<1> HIDE DEF f
<1>10. Types' BY <1>1, <1>4, <1>5 DEF Types
<1>11. StackShape'
  <2>1. \A j, k \in Depths' : stack'[j].task = stack'[k].task => j = k
    BY <1>3, <1>4, <1>7, <1>9 DEF Core, StackShape
  <2>2. ASSUME NEW k \in Depths' PROVE /\ stack'[k].awaits = Main => k = 1
                                       /\ stack'[k].helper => IsMachine(stack[k].task)'
    <3>1. CASE k = n + 1 BY <3>1, <1>3, <1>4, <1>b
    <3>2. CASE k \in Depths BY <3>2, <1>4, <1>8 DEF Core, StackShape
    <3> QED BY <3>1, <3>2, <1>9
  <2>3. Len(stack') >= 1 /\ stack'[1].task = Main
    BY <1>0, <1>4, <1>9 DEF Core, StackShape
  <2> QED BY <2>1, <2>2, <2>3 DEF StackShape
<1>12. Histories'
  <2>1. ASSUME NEW y \in Tasks PROVE
    /\ task'[y].state = "UNBORN" => task'[y] = Unborn
    /\ task'[y].joined => task'[y].state = "CONSUMED"
    /\ task'[y].kind = "ready" => ~task'[y].started
    /\ task'[y].parked # None => task'[y].kind = "machine"
    BY <1>0, <1>1, <1>2 DEF Core, Histories
  <2>2. ASSUME NEW k \in Depths', stack'[k].task \in Tasks PROVE task'[stack'[k].task].started
    <3>1. CASE k = n + 1 BY <3>1, <1>2, <1>3, <1>4
    <3>2. CASE k \in Depths BY <3>2, <2>2, <1>1, <1>4, <1>7 DEF Core, Histories
    <3> QED BY <3>1, <3>2, <1>9
  <2> QED BY <2>1, <2>2 DEF Histories
<1>13. Places'
  <2>1. ASSUME NEW j \in Positions'
        PROVE  task'[queue'[j]].state = "PENDING" /\ \A k \in Depths' : stack'[k].task # queue'[j]
    <3>1. PICK h \in Positions : h # i /\ queue'[j] = queue[h] BY <1>5
    <3>2. queue[h] \in Tasks /\ queue[h] # t BY <3>1, <1>6, Elements DEF Core
    <3> QED BY <3>1, <3>2, <1>2, <1>3, <1>4, <1>9 DEF Core, Places, Pending
  <2>2. ASSUME NEW k \in Depths', stack'[k].task \in Tasks PROVE task'[stack'[k].task].state = "PENDING"
    <3>1. CASE k = n + 1 BY <3>1, <1>0, <1>2, <1>3, <1>4
    <3>2. CASE k \in Depths BY <3>2, <2>2, <1>2, <1>4 DEF Core, Places, Pending
    <3> QED BY <3>1, <3>2, <1>9
  <2>3. ASSUME NEW y \in Tasks, task'[y].state = "PENDING"
        PROVE  (\E j \in Positions' : queue'[j] = y) \/ \E k \in Depths' : stack'[k].task = y
    <3>1. (\E h \in Positions : queue[h] = y) \/ \E k \in Depths : stack[k].task = y
      BY <2>3, <1>2 DEF Core, Places, Pending
    <3>2. n + 1 \in Depths' /\ stack'[n + 1].task = t BY <1>0, <1>3, <1>4, <1>9
    <3>3. \A k \in Depths : k \in Depths' /\ stack'[k].task = stack[k].task BY <1>0, <1>4, <1>9
    <3> QED BY <3>1, <3>2, <3>3, <1>5
  <2> QED BY <1>5, <2>1, <2>2, <2>3 DEF Places, Pending
<1>14. AwaitsOwned'
  <2>1. \A j \in Positions' : task'[queue'[j]].parked \in Tasks =>
           /\ task'[task'[queue'[j]].parked].owner = queue'[j]
           /\ ~task'[task'[queue'[j]].parked].helper
    BY <1>2, <1>5, Elements DEF Core, AwaitsOwned
  <2>2. ASSUME NEW k \in Depths', stack'[k].awaits \in Tasks
        PROVE  /\ task'[stack'[k].awaits].owner = stack'[k].task
               /\ task'[stack'[k].awaits].helper = stack'[k].helper
    <3>1. CASE k = n + 1
      <4>1. task[task[t].parked].owner = t /\ ~task[task[t].parked].helper
        BY <3>1, <2>2, <1>3, <1>4 DEF Core, AwaitsOwned
      <4>2. stack'[k].helper = FALSE /\ task[task[t].parked].helper = FALSE
        BY <4>1, <3>1, <2>2, <1>10, <1>3, <1>4, Elements DEF Core, Body
      <4> QED BY <4>1, <4>2, <3>1, <2>2, <1>2, <1>3, <1>4
    <3>2. CASE k \in Depths BY <3>2, <2>2, <1>2, <1>4 DEF Core, AwaitsOwned
    <3> QED BY <3>1, <3>2, <1>9
  <2> QED BY <2>1, <2>2 DEF AwaitsOwned
<1>15. AwaitedIsFresh'
  <2> SUFFICES ASSUME NEW k \in Depths', Blocked(k)' PROVE
    /\ ~task'[stack'[k].awaits].cancel /\ ~task'[stack'[k].awaits].detached
    /\ task'[stack'[k].awaits].state \in {"PENDING", "COMPLETE"}
    /\ \A j \in 1 .. k : stack'[j].task # stack'[k].awaits
    BY DEF AwaitedIsFresh
  <2>1. k # n + 1
    <3> SUFFICES ASSUME k = n + 1 PROVE FALSE OBVIOUS
    <3>1. task[t].parked \in Tasks /\ ~IsMachine(t) BY <1>3, <1>4, <1>8 DEF Blocked
    <3> QED BY <3>1, <1>0, TaskAssumption DEF Core, Histories, IsMachine
  <2>2. k \in Depths /\ stack'[k] = stack[k] BY <2>1, <1>4, <1>9
  <2>3. Blocked(k) /\ stack[k].awaits \in Tasks BY <1>8, <2>2 DEF Blocked
  <2>4. \A j \in 1 .. k : j \in Depths BY <1>0, <1>9, <2>2
  <2> QED BY <2>2, <2>3, <2>4, <1>2, <1>4 DEF Core, AwaitedIsFresh
<1>16. OwnerBelow'
  <2>1. ASSUME NEW y \in Tasks, NEW k \in Depths, HeldBy(y, k) PROVE HeldBy(y, k)' /\ k \in Depths'
    <3>1. \A j \in 1 .. k : j \in Depths BY <1>0, <1>9
    <3> QED BY <2>1, <3>1, <1>0, <1>2, <1>4, <1>9 DEF HeldBy
  <2> QED BY <1>2, <1>8, <2>1 DEF Core, OwnerBelow
<1> QED BY <1>10, <1>11, <1>12, <1>13, <1>14, <1>15, <1>16 DEF Core

ReturnStep(t, s) ==
  /\ stack' = SubSeq(stack, 1, Len(stack) - 1) /\ queue' = queue
  /\ task' = [Forgets(t, FALSE) EXCEPT ![t].state = s]

\* The body on top returns: its handles die, its task is complete.
LEMMA ReturnKeepsCore ==
  ASSUME Core, NEW t \in Tasks, t = Top.task, Top.awaits \notin Tasks,
         NEW s \in {"COMPLETE", "CONSUMED"}, ReturnStep(t, s),
         s = "CONSUMED" => \A k \in Depths : Blocked(k) => stack[k].awaits # t
  PROVE  Core'
<1>n. PICK n \in Nat : n = Len(stack) BY Elements DEF Core
<1>1. /\ n > 1 /\ n \in Depths /\ stack[n].task = t /\ t # Main /\ t # None
      /\ Depths = 1 .. n /\ \A k \in 1 .. n - 1 : k \in Depths /\ k # n
  BY <1>n, TaskAssumption DEF Core, StackShape, Depths, Top, Last
<1>2. task[t].state = "PENDING" /\ ~task[t].joined
  BY <1>1 DEF Core, Places, Pending, Histories
<1>3. /\ stack' \in Seq(Body) /\ Len(stack') = n - 1 /\ Depths' = 1 .. n - 1
      /\ \A k \in 1 .. n - 1 : stack'[k] = stack[k]
  BY <1>n, <1>1 DEF Core, Types, ReturnStep, Depths
<1>4. queue' = queue /\ Positions' = Positions BY DEF Positions, ReturnStep
<1>5. /\ task' \in [Tasks -> Task] /\ task'[t].state = s
      /\ \A y \in Tasks :
           /\ y # t => task'[y].state = task[y].state
           /\ task'[y].kind = task[y].kind
           /\ task'[y].cancel = task[y].cancel /\ task'[y].detached = task[y].detached
           /\ task'[y].parked = task[y].parked
           /\ task'[y].started = task[y].started /\ task'[y].joined = task[y].joined
           /\ IF task[y].owner = t THEN task'[y].owner = None
              ELSE /\ task'[y].owner = task[y].owner /\ task'[y].helper = task[y].helper
                   /\ y # t => task'[y] = task[y]
  <2> DEFINE F == Forgets(t, FALSE)
  <2>1. /\ F \in [Tasks -> Task]
        /\ \A y \in Tasks :
             /\ F[y].state = task[y].state /\ F[y].kind = task[y].kind
             /\ F[y].cancel = task[y].cancel /\ F[y].detached = task[y].detached
             /\ F[y].parked = task[y].parked
             /\ F[y].started = task[y].started /\ F[y].joined = task[y].joined
             /\ IF task[y].owner = t THEN F[y].owner = None ELSE F[y] = task[y]
    <3>1. PICK h \in BOOLEAN : h = FALSE OBVIOUS
    <3>2. F = Forgets(t, h) BY <3>1
    <3> HIDE DEF F
    <3>3. F \in [Tasks -> Task] BY <3>2, ForgetsMap
    <3>4. \A y \in Tasks : /\ Keeps(F[y], task[y])
                           /\ IF task[y].owner = t /\ (h => task[y].helper)
                                THEN F[y].owner = None ELSE F[y] = task[y]
      BY <3>2, ForgetsMap
    <3> QED BY <3>1, <3>3, <3>4 DEF Keeps
  <2> HIDE DEF F
  <2>2. F[t] \in Task BY <2>1
  <2> DEFINE r == [F[t] EXCEPT !.state = s]
  <2>3. /\ r \in Task /\ r.state = s /\ r.kind = F[t].kind /\ r.cancel = F[t].cancel
        /\ r.detached = F[t].detached /\ r.parked = F[t].parked
        /\ r.started = F[t].started /\ r.joined = F[t].joined
        /\ r.owner = F[t].owner /\ r.helper = F[t].helper
    BY <2>2 DEF Task, States
  <2>4. task' = [F EXCEPT ![t] = r] BY DEF ReturnStep, F
  <2> HIDE DEF r
  <2>5. task' \in [Tasks -> Task] /\ task'[t] = r /\ \A y \in Tasks \ {t} : task'[y] = F[y]
    BY <2>1, <2>3, <2>4
  <2> QED BY <2>1, <2>3, <2>5
<1>6. \A y : IsMachine(y)' <=> IsMachine(y) BY <1>5 DEF IsMachine
<1>7. Types' BY <1>3, <1>4, <1>5 DEF Core, Types
<1>8. StackShape'
  <2>1. 1 \in 1 .. n - 1 BY <1>1
  <2>2. \A k \in 1 .. n - 1 : IsMachine(stack[k].task)' <=> IsMachine(stack[k].task) BY <1>3, <1>6
  <2> QED BY <1>1, <1>3, <2>1, <2>2 DEF Core, StackShape
<1>9. Histories'
  <2> SUFFICES ASSUME NEW y \in Tasks
               PROVE  /\ task'[y].state = "UNBORN" => task'[y] = Unborn
                      /\ task'[y].joined => task'[y].state = "CONSUMED"
                      /\ task'[y].kind = "ready" => ~task'[y].started
                      /\ task'[y].parked # None => task'[y].kind = "machine"
                      /\ \A k \in 1 .. n - 1 : stack'[k].task = y => task'[y].started
     BY <1>3 DEF Histories
  <2>1. CASE y = t BY <2>1, <1>1, <1>2, <1>3, <1>5 DEF Core, Histories
  <2>2. CASE y # t
    <3>1. task[y].state = "UNBORN" => task'[y] = task[y] BY <2>2, <1>1, <1>5 DEF Core, Histories, Unborn
    <3> QED BY <2>2, <3>1, <1>1, <1>3, <1>5 DEF Core, Histories
  <2> QED BY <2>1, <2>2
<1>10. Places'
  <2>1. ASSUME NEW i \in Positions
        PROVE  task'[queue[i]].state = "PENDING" /\ \A k \in 1 .. n - 1 : stack'[k].task # queue[i]
    <3>1. queue[i] \in Tasks /\ queue[i] # t BY <1>1, Elements DEF Core, Places
    <3> QED BY <3>1, <1>1, <1>3, <1>5 DEF Core, Places, Pending
  <2>2. ASSUME NEW k \in 1 .. n - 1, stack'[k].task \in Tasks
        PROVE  task'[stack'[k].task].state = "PENDING"
    <3>1. k \in Depths /\ stack[k].task # t BY <1>1 DEF Core, StackShape
    <3> QED BY <3>1, <2>2, <1>3, <1>5 DEF Core, Places, Pending
  <2>3. ASSUME NEW y \in Tasks, task'[y].state = "PENDING"
        PROVE  (\E i \in Positions : queue[i] = y) \/ \E k \in 1 .. n - 1 : stack'[k].task = y
    <3>1. y # t /\ Pending(y) BY <2>3, <1>5 DEF Pending
    <3>2. (\E i \in Positions : queue[i] = y) \/ \E k \in Depths : stack[k].task = y
      BY <3>1 DEF Core, Places
    <3>3. ASSUME NEW k \in Depths, stack[k].task = y PROVE k \in 1 .. n - 1 /\ stack'[k].task = y
      BY <3>1, <3>3, <1>1, <1>3
    <3> QED BY <3>2, <3>3
  <2>4. \A i, j \in Positions : queue[i] = queue[j] => i = j BY DEF Core, Places
  <2> QED BY <1>3, <1>4, <2>1, <2>2, <2>3, <2>4 DEF Places, Pending
<1>11. AwaitsOwned'
  <2>1. ASSUME NEW k \in 1 .. n - 1, stack'[k].awaits \in Tasks
        PROVE  /\ task'[stack'[k].awaits].owner = stack'[k].task
               /\ task'[stack'[k].awaits].helper = stack'[k].helper
    <3>1. k \in Depths /\ stack[k].task # t BY <1>1 DEF Core, StackShape
    <3> QED BY <3>1, <2>1, <1>3, <1>5 DEF Core, AwaitsOwned
  <2>2. ASSUME NEW i \in Positions, task'[queue[i]].parked \in Tasks
        PROVE  /\ task'[task'[queue[i]].parked].owner = queue[i]
               /\ ~task'[task'[queue[i]].parked].helper
    <3>1. queue[i] \in Tasks /\ queue[i] # t BY <1>1, Elements DEF Core, Places
    <3> QED BY <3>1, <2>2, <1>5 DEF Core, AwaitsOwned
  <2> QED BY <1>3, <1>4, <2>1, <2>2 DEF AwaitsOwned
<1>12. AwaitedIsFresh'
  <2> SUFFICES ASSUME NEW k \in 1 .. n - 1, Blocked(k)' PROVE
    /\ ~task'[stack'[k].awaits].cancel /\ ~task'[stack'[k].awaits].detached
    /\ task'[stack'[k].awaits].state \in {"PENDING", "COMPLETE"}
    /\ \A j \in 1 .. k : stack'[j].task # stack'[k].awaits
    BY <1>3 DEF AwaitedIsFresh
  <2>1. k \in Depths /\ stack'[k] = stack[k] BY <1>1, <1>3
  <2>2. Blocked(k) /\ stack[k].awaits \in Tasks BY <2>1, <1>6 DEF Blocked
  <2>3. \A j \in 1 .. k : j \in 1 .. n - 1 /\ j \in Depths BY <1>1
  <2>4. stack[k].awaits = t => s = "COMPLETE" BY <2>1, <2>2
  <2> QED BY <2>1, <2>2, <2>3, <2>4, <1>3, <1>5 DEF Core, AwaitedIsFresh
<1>13. OwnerBelow'
  <2> SUFFICES ASSUME NEW y \in Tasks, task'[y].owner # None,
                      IsMachine(task'[y].owner) => task'[y].helper
               PROVE  \E k \in 1 .. n - 1 : HeldBy(y, k)'
    BY <1>3, <1>6 DEF OwnerBelow
  <2>1. task[y].owner # t /\ task'[y].owner = task[y].owner /\ task'[y].helper = task[y].helper BY <1>5
  <2>2. PICK k \in Depths : HeldBy(y, k) BY <2>1 DEF Core, OwnerBelow
  <2>3. k \in 1 .. n - 1 BY <1>1, <2>1, <2>2 DEF HeldBy
  <2>4. \A j \in 1 .. k : j \in 1 .. n - 1 BY <1>1, <2>3
  <2>5. HeldBy(y, k)' BY <1>3, <2>1, <2>2, <2>3, <2>4 DEF HeldBy
  <2> QED BY <2>3, <2>5
<1> QED BY <1>7, <1>8, <1>9, <1>10, <1>11, <1>12, <1>13 DEF Core

SpawnStep(t, r) ==
  stack' = stack /\ queue' = Append(queue, t) /\ task' = [task EXCEPT ![t] = r]

\* The function on top spawns a task and holds its handle.
LEMMA SpawnKeepsCore ==
  ASSUME Core, NEW t \in Tasks, NEW r \in Task, task[t].state = "UNBORN",
         r.state = "PENDING", ~r.joined, ~r.started, r.parked = None,
         r.owner = Top.task, r.helper = Top.helper, SpawnStep(t, r)
  PROVE  Core'
<1>n. PICK n \in Nat : n = Len(stack) BY Elements DEF Core
<1>m. PICK m \in Nat : m = Len(queue) BY Elements DEF Core
<1>1. /\ n \in Depths /\ Depths = 1 .. n /\ Top = stack[n]
      /\ Depths' = Depths /\ stack' = stack
  BY <1>n DEF Core, StackShape, Depths, Top, Last, SpawnStep
<1>2. /\ queue' \in Seq(Tasks) /\ Positions = 1 .. m /\ Positions' = 1 .. m + 1
      /\ \A i \in 1 .. m : queue'[i] = queue[i]
      /\ queue'[m + 1] = t
  BY <1>m DEF Core, Types, SpawnStep, Positions
<1>3. /\ task' \in [Tasks -> Task] /\ task'[t] = r /\ \A y \in Tasks \ {t} : task'[y] = task[y]
  BY DEF Core, Types, SpawnStep
<1>4. \A i \in 1 .. m + 1 : i = m + 1 \/ (i \in Positions /\ i # m + 1) BY <1>2
<1>5. /\ \A k \in Depths : stack[k].task # t
      /\ \A i \in Positions : queue[i] # t
  BY DEF Core, Places, Pending
<1>6. task[t] = Unborn /\ task[t].kind = "none" /\ task[t].owner = None
  <2>1. task[t] = Unborn BY DEF Core, Histories
  <2>2. Unborn.kind = "none" /\ Unborn.owner = None BY DEF Unborn
  <2> QED BY <2>1, <2>2
<1>7. /\ \A k \in Depths : stack[k].awaits # t
      /\ \A i \in Positions : task[queue[i]].parked # t
  BY <1>6, Elements, TaskAssumption DEF Core, AwaitsOwned
<1>8. \A y \in Tasks : task[y].owner # t
  BY <1>5, <1>6, TaskAssumption DEF Core, OwnerBelow, HeldBy, IsMachine
<1>9. \A y : y # t => (IsMachine(y)' <=> IsMachine(y)) BY <1>3 DEF IsMachine
<1>10. Types' BY <1>1, <1>2, <1>3 DEF Core, Types
<1>11. StackShape'
  <2>1. \A k \in Depths : IsMachine(stack[k].task)' <=> IsMachine(stack[k].task) BY <1>1, <1>5, <1>9
  <2> QED BY <1>1, <2>1 DEF Core, StackShape
<1>12. Histories' BY <1>1, <1>3, <1>5 DEF Core, Histories
<1>13. Places'
  <2>1. \A i, j \in 1 .. m + 1 : queue'[i] = queue'[j] => i = j
    BY <1>2, <1>4, <1>5 DEF Core, Places
  <2>2. ASSUME NEW i \in 1 .. m + 1
        PROVE  task'[queue'[i]].state = "PENDING" /\ \A k \in Depths : stack[k].task # queue'[i]
    <3>1. CASE i = m + 1 BY <3>1, <1>2, <1>3, <1>5
    <3>2. CASE i \in Positions
      <4>1. queue'[i] = queue[i] /\ queue[i] \in Tasks /\ queue[i] # t BY <3>2, <1>2, <1>5, Elements DEF Core
      <4> QED BY <3>2, <4>1, <1>3 DEF Core, Places, Pending
    <3> QED BY <3>1, <3>2, <1>4
  <2>3. \A k \in Depths : stack[k].task \in Tasks => task'[stack[k].task].state = "PENDING"
    BY <1>3, <1>5 DEF Core, Places, Pending
  <2>4. ASSUME NEW y \in Tasks, task'[y].state = "PENDING"
        PROVE  (\E i \in 1 .. m + 1 : queue'[i] = y) \/ \E k \in Depths : stack[k].task = y
    <3>1. CASE y = t BY <3>1, <1>2
    <3>2. CASE y # t
      <4>1. (\E i \in Positions : queue[i] = y) \/ \E k \in Depths : stack[k].task = y
        BY <3>2, <2>4, <1>3 DEF Core, Places, Pending
      <4>2. \A i \in Positions : i \in 1 .. m + 1 /\ queue'[i] = queue[i] BY <1>2
      <4> QED BY <4>1, <4>2
    <3> QED BY <3>1, <3>2
  <2> QED BY <1>1, <1>2, <2>1, <2>2, <2>3, <2>4 DEF Places, Pending
<1>14. AwaitsOwned'
  <2>1. ASSUME NEW k \in Depths, stack[k].awaits \in Tasks
        PROVE  /\ task'[stack[k].awaits].owner = stack[k].task
               /\ task'[stack[k].awaits].helper = stack[k].helper
    BY <2>1, <1>3, <1>7 DEF Core, AwaitsOwned
  <2>2. ASSUME NEW i \in 1 .. m + 1, task'[queue'[i]].parked \in Tasks
        PROVE  /\ task'[task'[queue'[i]].parked].owner = queue'[i]
               /\ ~task'[task'[queue'[i]].parked].helper
    <3>1. i # m + 1 BY <2>2, <1>2, <1>3, TaskAssumption
    <3>2. i \in Positions /\ queue'[i] = queue[i] /\ queue[i] \in Tasks /\ queue[i] # t
      BY <3>1, <1>2, <1>4, <1>5, Elements DEF Core
    <3> QED BY <3>2, <2>2, <1>3, <1>7 DEF Core, AwaitsOwned
  <2> QED BY <1>1, <1>2, <2>1, <2>2 DEF AwaitsOwned
<1>15. AwaitedIsFresh'
  <2> SUFFICES ASSUME NEW k \in Depths, Blocked(k)' PROVE
    /\ ~task'[stack[k].awaits].cancel /\ ~task'[stack[k].awaits].detached
    /\ task'[stack[k].awaits].state \in {"PENDING", "COMPLETE"}
    /\ \A j \in 1 .. k : stack[j].task # stack[k].awaits
    BY <1>1 DEF AwaitedIsFresh
  <2>1. IsMachine(stack[k].task)' <=> IsMachine(stack[k].task) BY <1>1, <1>5, <1>9
  <2>2. Blocked(k) /\ stack[k].awaits \in Tasks BY <2>1, <1>1 DEF Blocked
  <2> QED BY <2>2, <1>3, <1>7 DEF Core, AwaitedIsFresh
<1>16. OwnerBelow'
  <2> SUFFICES ASSUME NEW y \in Tasks, task'[y].owner # None,
                      IsMachine(task[y].owner)' => task'[y].helper
               PROVE  \E k \in Depths : HeldBy(y, k)'
    BY <1>1 DEF OwnerBelow
  <2>1. CASE y = t
    <3>1. \A j \in 1 .. n : stack[j].task # t BY <1>1, <1>5
    <3>2. HeldBy(y, n)' BY <2>1, <3>1, <1>1, <1>3 DEF HeldBy
    <3> QED BY <3>2, <1>1
  <2>2. CASE y # t
    <3>1. task'[y] = task[y] BY <2>2, <1>3
    <3>2. IsMachine(task[y].owner) => task[y].helper BY <3>1, <1>8, <1>9
    <3>3. PICK k \in Depths : HeldBy(y, k) BY <3>1, <3>2 DEF Core, OwnerBelow
    <3>4. HeldBy(y, k)' BY <3>1, <3>3, <1>1 DEF HeldBy
    <3> QED BY <3>4
  <2> QED BY <2>1, <2>2
<1> QED BY <1>10, <1>11, <1>12, <1>13, <1>14, <1>15, <1>16 DEF Core

-----------------------------------------------------------------------------
(* What the contract sees of a step.                                       *)

Alike(y) ==
  /\ task'[y].state = task[y].state /\ task'[y].started = task[y].started
  /\ task'[y].joined = task[y].joined /\ (OnStack(y)' <=> OnStack(y))
SameRequests(y) ==
  task'[y].cancel = task[y].cancel /\ task'[y].detached = task[y].detached

Allowed == [Contract!Next]_(Contract!vars)

\* The contract's status of a task, read off the executor's state.
LEMMA StatusOf ==
  ASSUME NEW t \in Tasks
  PROVE  /\ task[t].state = "UNBORN" => Status(t) = "unborn"
         /\ Pending(t) /\ OnStack(t) => Status(t) = "running"
         /\ Pending(t) /\ ~OnStack(t) /\ task[t].started => Status(t) = "suspended"
         /\ Pending(t) /\ ~OnStack(t) /\ ~task[t].started => Status(t) = "ready"
         /\ task[t].state = "COMPLETE" => Status(t) = "finished"
         /\ task[t].state = "CONSUMED" /\ task[t].joined => Status(t) = "joined"
         /\ task[t].state = "CONSUMED" /\ ~task[t].joined => Status(t) = "dropped"
BY DEF Status, Pending

\* A task the step leaves alike keeps its status.
LEMMA StatusKept ==
  ASSUME NEW y \in Tasks, Alike(y)
  PROVE  Status(y)' = Status(y)
BY DEF Alike, Status

\* A step that leaves every task alike is a stutter of the contract.
LEMMA StutterAllowed ==
  ASSUME \A y \in Tasks : Alike(y) /\ SameRequests(y)
  PROVE  Allowed
<1>1. \A y \in Tasks : Status(y)' = Status(y) BY StatusKept
<1> QED BY <1>1 DEF Contract!vars, SameRequests, Allowed

\* One task goes from one status to another, in the way the contract names.
LEMMA MoveAllowed ==
  ASSUME NEW t \in Tasks, NEW s, Status(t)' = s,
         \A y \in Tasks \ {t} : Alike(y), \A y \in Tasks : SameRequests(y),
         \/ s = "ready" /\ Status(t) = "unborn"
         \/ s = "running" /\ Status(t) \in {"ready", "suspended"} /\ ~task[t].cancel
         \/ s = "suspended" /\ Status(t) = "running"
         \/ /\ s = "finished" /\ ~task[t].detached
            /\ Status(t) = "running" \/ (Status(t) = "ready" /\ ~task[t].cancel)
         \/ /\ s = "dropped"
            /\ \/ Status(t) \in {"running", "finished"}
               \/ Status(t) = "ready"
               \/ Status(t) = "suspended" /\ task[t].cancel
         \/ s = "joined" /\ Status(t) = "finished" /\ ~task[t].cancel /\ ~task[t].detached
  PROVE  Allowed
<1>1. \A y \in Tasks \ {t} : Status(y)' = Status(y) BY StatusKept
<1>2. Contract!Becomes(t, s) BY <1>1 DEF Contract!Becomes, SameRequests
<1>3. Contract!Next
  <2>1. CASE s = "ready" /\ Status(t) = "unborn"
    <3>1. Contract!Spawn(t) BY <1>2, <2>1 DEF Contract!Spawn
    <3> QED BY <3>1 DEF Contract!Next
  <2>2. CASE s = "running" /\ Status(t) \in {"ready", "suspended"} /\ ~task[t].cancel
    <3>1. Contract!Enter(t) BY <1>2, <2>2 DEF Contract!Enter
    <3> QED BY <3>1 DEF Contract!Next
  <2>3. CASE s = "suspended" /\ Status(t) = "running"
    <3>1. Contract!Suspend(t) BY <1>2, <2>3 DEF Contract!Suspend
    <3> QED BY <3>1 DEF Contract!Next
  <2>4. CASE /\ s = "finished" /\ ~task[t].detached
             /\ Status(t) = "running" \/ (Status(t) = "ready" /\ ~task[t].cancel)
    <3>1. Contract!Finish(t) BY <1>2, <2>4 DEF Contract!Finish
    <3> QED BY <3>1 DEF Contract!Next
  <2>5. CASE /\ s = "dropped"
             /\ \/ Status(t) \in {"running", "finished"}
                \/ Status(t) = "ready"
                \/ Status(t) = "suspended" /\ task[t].cancel
    <3>1. Contract!Finish(t) \/ Contract!Drop(t) BY <1>2, <2>5 DEF Contract!Finish, Contract!Drop
    <3> QED BY <3>1 DEF Contract!Next
  <2>6. CASE s = "joined" /\ Status(t) = "finished" /\ ~task[t].cancel /\ ~task[t].detached
    <3>1. Contract!Join(t) BY <1>2, <2>6 DEF Contract!Join
    <3> QED BY <3>1 DEF Contract!Next
  <2> QED BY <2>1, <2>2, <2>3, <2>4, <2>5, <2>6
<1> QED BY <1>3 DEF Allowed

\* With the same bodies on the stack, a task is alike when its record is.
LEMMA SameStackAlike ==
  ASSUME NEW y \in Tasks, DOMAIN stack' = DOMAIN stack,
         \A k \in DOMAIN stack : stack'[k].task = stack[k].task,
         task'[y].state = task[y].state, task'[y].started = task[y].started,
         task'[y].joined = task[y].joined
  PROVE  Alike(y)
BY DEF Alike, OnStack

\* Cancelling or detaching a pending task is the contract's request.
LEMMA RequestAllowed ==
  ASSUME Core, NEW x \in Tasks, Pending(x), stack' = stack,
         \/ task' = [task EXCEPT ![x].cancel = TRUE]
         \/ task' = [task EXCEPT ![x].detached = TRUE]
  PROVE  Allowed
<1>1. \A y \in Tasks : Status(y)' = Status(y)
  <2>1. task[x] \in Task BY DEF Core, Types
  <2>2. \A y \in Tasks : y # x => task'[y] = task[y] BY DEF Core, Types
  <2>3. \/ task'[x] = [task[x] EXCEPT !.cancel = TRUE]
        \/ task'[x] = [task[x] EXCEPT !.detached = TRUE]
    BY DEF Core, Types
  <2>4. /\ task'[x].state = task[x].state /\ task'[x].started = task[x].started
        /\ task'[x].joined = task[x].joined
    BY <2>1, <2>3 DEF Task
  <2>5. \A y \in Tasks : Alike(y) BY <2>2, <2>4, SameStackAlike
  <2> QED BY <2>5, StatusKept
<1>2. Contract!Pending(x) BY DEF Contract!Pending, Status, Pending
<1>3. Contract!Ask(x) \/ Contract!LetGo(x)
  <2>1. CASE task' = [task EXCEPT ![x].cancel = TRUE]
    <3>1. \A y \in Tasks : /\ task'[y].detached = task[y].detached
                           /\ task'[y].cancel = IF y = x THEN TRUE ELSE task[y].cancel
      BY <2>1 DEF Core, Types, Task
    <3> QED BY <1>1, <1>2, <3>1 DEF Contract!Ask
  <2>2. CASE task' = [task EXCEPT ![x].detached = TRUE]
    <3>1. \A y \in Tasks : /\ task'[y].cancel = task[y].cancel
                           /\ task'[y].detached = IF y = x THEN TRUE ELSE task[y].detached
      BY <2>2 DEF Core, Types, Task
    <3> QED BY <1>1, <1>2, <3>1 DEF Contract!LetGo
  <2> QED BY <2>1, <2>2
<1> QED BY <1>3 DEF Contract!Next, Allowed

-----------------------------------------------------------------------------
(* The actions.                                                            *)

\* There always is a body on top of the stack.
LEMMA TopFacts ==
  ASSUME Core
  PROVE  /\ Len(stack) \in Nat /\ Len(stack) \in Depths /\ DOMAIN stack = Depths
         /\ Top = stack[Len(stack)] /\ Top \in Body
BY DEF Core, Types, StackShape, Depths, Top, Last

\* A change of the body on top.
LEMMA TopChanges ==
  ASSUME Core, NEW f \in Body, stack' = [stack EXCEPT ![Len(stack)] = f]
  PROVE  /\ stack' \in Seq(Body) /\ Len(stack') = Len(stack) /\ DOMAIN stack' = DOMAIN stack
         /\ \A k \in Depths : stack'[k] = IF k = Len(stack) THEN f ELSE stack[k]
BY TopFacts DEF Core, Types, Depths

\* A change of one task's record.
LEMMA TaskChanges ==
  ASSUME Core, NEW t \in Tasks, NEW r \in Task, task' = [task EXCEPT ![t] = r]
  PROVE  /\ task' \in [Tasks -> Task] /\ task'[t] = r
         /\ \A y \in Tasks \ {t} : task'[y] = task[y]
BY DEF Core, Types

\* The order of the natural numbers, as a relation.
LEMMA LessPairs ==
  ASSUME NEW x \in Nat, NEW y \in Nat, y < x
  PROVE  <<y, x>> \in OpToRel(<, Nat)
BY DEF OpToRel

\* A non-empty set of natural numbers has a least element, and Min is it.
LEMMA MinOfNats ==
  ASSUME NEW S \in SUBSET Nat, S # {}
  PROVE  Min(S) \in S /\ \A y \in S : Min(S) <= y
<1>1. PICK x \in S : \A y \in S : ~(<<y, x>> \in OpToRel(<, Nat))
  BY NatLessThanWellFounded, WFMin
<1>2. \A y \in S : x <= y
  <2> SUFFICES ASSUME NEW y \in S PROVE x <= y OBVIOUS
  <2>1. x \in Nat /\ y \in Nat OBVIOUS
  <2>2. ~(y < x) BY <1>1, <2>1, LessPairs
  <2> QED BY <2>1, <2>2
<1> QED BY <1>2 DEF Min

\* kira_task_spawn takes the next free slot and queues it.
LEMMA SpawnHolds ==
  ASSUME Core, NEW kind \in Kinds, Spawn(kind)
  PROVE  Core' /\ Allowed
<1> DEFINE U == {x \in Tasks : task[x].state = "UNBORN"}
           rr == [Unborn EXCEPT !.kind = kind, !.state = "PENDING",
                                !.owner = Top.task, !.helper = Top.helper]
<1>1. U # {} BY DEF Spawn
<1>2. \A x \in Tasks : x \in Nat BY TaskAssumption
<1>3. Min(U) \in U BY <1>1, <1>2, MinOfNats
<1>4. PICK t \in Tasks : t = Min(U) /\ task[t].state = "UNBORN" BY <1>3
<1>5. Top.task \in Tasks \cup {Main} /\ Top.helper \in BOOLEAN BY TopFacts DEF Body
<1>6. PICK r : r = rr OBVIOUS
<1>7. /\ r \in Task /\ r.state = "PENDING" /\ ~r.joined /\ ~r.started /\ r.parked = None
      /\ r.owner = Top.task /\ r.helper = Top.helper /\ r.cancel = FALSE /\ r.detached = FALSE
  <2>1. 0 \in 0 .. MaxClock /\ kind \in {"none", "work", "ready", "machine"} BY TaskAssumption
  <2>2. r = [kind |-> kind, state |-> "PENDING", cancel |-> FALSE, detached |-> FALSE,
             wake |-> 0, owner |-> Top.task, helper |-> Top.helper, parked |-> None,
             started |-> FALSE, joined |-> FALSE]
    BY <1>6 DEF Unborn
  <2> HIDE DEF rr
  <2> QED BY <1>5, <2>1, <2>2 DEF Task, States
<1>8. SpawnStep(t, r) BY <1>4, <1>6 DEF Spawn, SpawnStep
<1> HIDE DEF U, rr
<1>9. Core' BY <1>4, <1>7, <1>8, SpawnKeepsCore
<1>10. task'[t] = r /\ (\A y \in Tasks \ {t} : task'[y] = task[y]) /\ stack' = stack
  BY <1>7, <1>8, TaskChanges DEF SpawnStep
<1>11. task[t].cancel = FALSE /\ task[t].detached = FALSE /\ ~OnStack(t)
  <2>1. task[t] = Unborn BY <1>4 DEF Core, Histories
  <2>2. Unborn.cancel = FALSE /\ Unborn.detached = FALSE BY DEF Unborn
  <2>3. ~OnStack(t) BY <1>4, TopFacts DEF Core, Places, Pending, OnStack
  <2> QED BY <2>1, <2>2, <2>3
<1>12. Status(t) = "unborn" /\ Status(t)' = "ready"
  <2>1. ~OnStack(t)' BY <1>10, <1>11 DEF OnStack
  <2> QED BY <2>1, <1>4, <1>7, <1>10, StatusOf DEF Status, Pending
<1>13. /\ \A y \in Tasks \ {t} : Alike(y)
       /\ \A y \in Tasks : SameRequests(y)
  <2>1. task'[t].cancel = task[t].cancel /\ task'[t].detached = task[t].detached
    BY <1>7, <1>10, <1>11
  <2> QED BY <2>1, <1>10, SameStackAlike DEF SameRequests
<1> QED BY <1>9, <1>12, <1>13, MoveAllowed

\* Taking one task off the queue, and what becomes of it.
LEMMA RunOneHolds ==
  ASSUME Core, DueAt # {}, NEW drained \in BOOLEAN, drained => Top.awaits = Main,
         RunOne(NextDue, stack, drained)
  PROVE  Core' /\ Allowed
<1>1. PICK i \in Positions, t \in Tasks :
        i = Min(DueAt) /\ t = queue[i] /\ t = NextDue
  <2>1. DueAt \in SUBSET Nat BY Elements DEF Core, Types, DueAt
  <2>2. Min(DueAt) \in DueAt BY <2>1, MinOfNats
  <2>3. DOMAIN queue = Positions BY DEF Core, Types, Positions
  <2> QED BY <2>2, <2>3, Elements DEF DueAt, NextDue, Core
<1>2. /\ task[t] \in Task /\ task[t].state = "PENDING" /\ Pending(t) /\ ~task[t].joined
      /\ ~OnStack(t)
  <2>1. task[t] \in Task /\ task[t].state = "PENDING" BY <1>1 DEF Core, Types, Places, Pending
  <2>2. ~OnStack(t) BY <1>1, TopFacts DEF Core, Places, OnStack
  <2>3. ~task[t].joined BY <2>1 DEF Core, Histories
  <2> QED BY <2>1, <2>2, <2>3 DEF Pending
<1>3. queue' = RemoveAt(queue, i) BY <1>1 DEF RunOne, WithoutNextDue
<1>4. ASSUME NEW s \in {"COMPLETE", "CONSUMED"},
             task' = [task EXCEPT ![t].state = s], stack' = stack,
             s = "CONSUMED" => \A k \in Depths : Blocked(k) => stack[k].awaits # t,
             \/ task[t].cancel /\ s = "CONSUMED"
             \/ ~task[t].cancel /\ ~task[t].started /\ (s = "COMPLETE" => ~task[t].detached)
      PROVE  Core' /\ Allowed
  <2>1. PICK r : r = [task[t] EXCEPT !.state = s] OBVIOUS
  <2>2. /\ r \in Task /\ r.state = s /\ r.started = task[t].started /\ r.joined = task[t].joined
        /\ r.cancel = task[t].cancel /\ r.detached = task[t].detached
    BY <1>2, <2>1 DEF Task, States
  <2>3. task' = [task EXCEPT ![t] = r] BY <1>4, <2>1
  <2>4. /\ task' \in [Tasks -> Task] /\ task'[t] = r
        /\ \A y \in Tasks \ {t} : task'[y] = task[y]
    BY <2>2, <2>3, TaskChanges
  <2>5. Types' BY <1>1, <1>3, <1>4, <2>4, Dequeue DEF Core, Types
  <2>6. RetireStep(i, t, s) BY <1>3, <1>4 DEF RetireStep
  <2>7. Core' BY <1>1, <1>4, <2>5, <2>6, RetireKeepsCore
  <2>8. /\ \A y \in Tasks \ {t} : Alike(y)
        /\ \A y \in Tasks : SameRequests(y)
    BY <1>4, <2>2, <2>4, SameStackAlike DEF SameRequests
  <2>9. Status(t) = IF task[t].started THEN "suspended" ELSE "ready" BY <1>2, StatusOf
  <2>10. Status(t)' = IF s = "COMPLETE" THEN "finished" ELSE "dropped"
    BY <1>2, <2>2, <2>4 DEF Status
  <2> QED BY <1>4, <2>7, <2>8, <2>9, <2>10, MoveAllowed
<1>5. CASE task[t].cancel
  <2>1. task' = [task EXCEPT ![t].state = "CONSUMED"] /\ stack' = stack
    BY <1>1, <1>5 DEF RunOne, IsCancelled
  <2>2. \A k \in Depths : Blocked(k) => stack[k].awaits # t
    BY <1>5 DEF Core, AwaitedIsFresh
  <2> QED BY <1>4, <1>5, <2>1, <2>2
<1>6. CASE ~task[t].cancel /\ task[t].kind = "ready"
  <2>1. PICK s : s = Completed(t, drained) OBVIOUS
  <2>2. task' = [task EXCEPT ![t].state = s] /\ stack' = stack
    BY <1>1, <1>6, <2>1 DEF RunOne, IsCancelled
  <2>3. /\ s \in {"COMPLETE", "CONSUMED"} /\ (s = "COMPLETE" => ~task[t].detached)
        /\ s = "CONSUMED" => task[t].detached \/ drained
    BY <2>1 DEF Completed
  <2>4. ASSUME NEW k \in Depths, Blocked(k), s = "CONSUMED" PROVE stack[k].awaits # t
    <3>1. CASE task[t].detached BY <2>4, <3>1 DEF Core, AwaitedIsFresh
    <3>2. CASE drained
      <4>1. Len(stack) = 1 BY <3>2, TopFacts DEF Core, StackShape
      <4>3. k = 1 BY <4>1 DEF Depths
      <4>2. stack[k].awaits = Main BY <3>2, <4>1, <4>3, TopFacts
      <4> QED BY <4>2, TaskAssumption
    <3> QED BY <2>3, <2>4, <3>1, <3>2
  <2>5. ~task[t].started BY <1>6 DEF Core, Histories
  <2> QED BY <1>4, <1>6, <2>2, <2>3, <2>4, <2>5
<1>7. CASE ~task[t].cancel /\ task[t].kind # "ready"
  <2>1. EnterStep(i, t) BY <1>1, <1>3, <1>7 DEF RunOne, IsCancelled, EnterStep
  <2>2. Core' BY <1>1, <1>7, <2>1, EnterKeepsCore
  <2>3. PICK r : r = [task[t] EXCEPT !.wake = 0, !.started = TRUE] OBVIOUS
  <2>4. /\ r \in Task /\ r.state = "PENDING" /\ r.cancel = task[t].cancel
        /\ r.detached = task[t].detached
    <3>1. 0 \in 0 .. MaxClock BY TaskAssumption
    <3> QED BY <1>2, <2>3, <3>1 DEF Task
  <2>5. task' = [task EXCEPT ![t] = r] BY <2>1, <2>3 DEF EnterStep
  <2>6. task'[t] = r /\ \A y \in Tasks \ {t} : task'[y] = task[y]
    BY <2>4, <2>5, TaskChanges
  <2>7. PICK f \in Body : stack' = Append(stack, f) /\ f.task = t
    <3>1. 0 \in 0 .. MaxClock /\ task[t].parked \in Tasks \cup {Main, None} BY <1>2, TaskAssumption DEF Task
    <3>2. [Frame(t) EXCEPT !.awaits = task[t].parked] \in Body BY <3>1 DEF Body, Frame
    <3>3. [Frame(t) EXCEPT !.awaits = task[t].parked].task = t BY DEF Frame
    <3> QED BY <3>2, <3>3, <2>1 DEF EnterStep
  <2>8. /\ DOMAIN stack' = Depths \cup {Len(stack) + 1} /\ stack'[Len(stack) + 1] = f
        /\ \A k \in Depths : stack'[k] = stack[k]
    BY <2>7, TopFacts DEF Core, Types, Depths
  <2>9. OnStack(t)' /\ \A y \in Tasks \ {t} : OnStack(y)' <=> OnStack(y)
    BY <2>7, <2>8, TopFacts DEF OnStack
  <2>10. /\ \A y \in Tasks \ {t} : Alike(y)
         /\ \A y \in Tasks : SameRequests(y)
    BY <2>4, <2>6, <2>9 DEF SameRequests, Alike
  <2>11. Status(t) = IF task[t].started THEN "suspended" ELSE "ready" BY <1>2, StatusOf
  <2>12. Status(t)' = "running" BY <2>4, <2>6, <2>9 DEF Status
  <2> QED BY <1>7, <2>2, <2>10, <2>11, <2>12, MoveAllowed
<1> QED BY <1>5, <1>6, <1>7

\* A handle is of a task that was spawned, by the body that holds it.
LEMMA HandleFacts ==
  ASSUME Core, NEW x \in Handles
  PROVE  /\ x \in Tasks /\ task[x] \in Task /\ task[x].state # "UNBORN"
         /\ task[x].owner = Top.task /\ task[x].helper = Top.helper
<1>1. x \in Tasks /\ task[x] \in Task /\ task[x].owner = Top.task /\ task[x].helper = Top.helper
  BY DEF Handles, Core, Types
<1>2. Top.task # None BY TopFacts, TaskAssumption DEF Body
<1> QED BY <1>1, <1>2, HandleIsBorn

\* kira_task_cancel marks a pending task.
LEMMA CancelHolds ==
  ASSUME Core, NEW x \in Tasks, Cancel(x), Top.awaits = None
  PROVE  Core' /\ Allowed
<1>1. /\ x \in Handles /\ queue' = queue /\ stack' = stack
      /\ task' = IF Pending(x) THEN [task EXCEPT ![x].cancel = TRUE] ELSE task
  BY DEF Cancel
<1>2. /\ task[x] \in Task /\ task[x].owner = Top.task /\ task[x].helper = Top.helper
  BY <1>1, HandleFacts
<1>3. PICK r : r = IF Pending(x) THEN [task[x] EXCEPT !.cancel = TRUE] ELSE task[x] OBVIOUS
<1>4. /\ r \in Task /\ r.kind = task[x].kind /\ r.owner = task[x].owner
      /\ r.helper = task[x].helper /\ r.parked = task[x].parked
      /\ r.started = task[x].started /\ r.state = task[x].state /\ r.joined = task[x].joined
  BY <1>2, <1>3 DEF Task
<1>5. task' = [task EXCEPT ![x] = r] BY <1>1, <1>3 DEF Core, Types
<1>6. Types' BY <1>1, <1>4, <1>5, TaskChanges DEF Core, Types
<1>7. OwnStep(x, r, None)
  <2>1. task[x].joined => task[x].state = "CONSUMED" BY DEF Core, Histories
  <2> QED BY <1>1, <1>4, <1>5, <2>1, TopFacts DEF OwnStep
<1>8. Core'
  <2>1. None # x BY TaskAssumption
  <2> QED BY <1>2, <1>4, <1>6, <1>7, <2>1, OwnStepKeepsCore
<1>9. CASE Pending(x) BY <1>1, <1>8, <1>9, RequestAllowed
<1>10. CASE ~Pending(x)
  <2>1. \A y \in Tasks : Alike(y) /\ SameRequests(y) BY <1>1, <1>10, SameStackAlike DEF SameRequests
  <2> QED BY <1>8, <2>1, StutterAllowed
<1> QED BY <1>9, <1>10

\* kira_task_detach marks a pending task or gives up a finished one.
LEMMA DetachHolds ==
  ASSUME Core, NEW x \in Tasks, Detach(x), Top.awaits = None
  PROVE  Core' /\ Allowed
<1>1. /\ x \in Handles /\ queue' = queue /\ stack' = stack
      /\ task' = IF Pending(x) THEN [task EXCEPT ![x].detached = TRUE]
                 ELSE [task EXCEPT ![x].state = "CONSUMED"]
  BY DEF Detach
<1>2. /\ task[x] \in Task /\ task[x].owner = Top.task /\ task[x].helper = Top.helper
      /\ task[x].state # "UNBORN"
  BY <1>1, HandleFacts
<1>3. PICK r : r = IF Pending(x) THEN [task[x] EXCEPT !.detached = TRUE]
                   ELSE [task[x] EXCEPT !.state = "CONSUMED"] OBVIOUS
<1>4. /\ r \in Task /\ r.kind = task[x].kind /\ r.owner = task[x].owner
      /\ r.helper = task[x].helper /\ r.parked = task[x].parked
      /\ r.started = task[x].started /\ r.joined = task[x].joined /\ r.cancel = task[x].cancel
      /\ ~Pending(x) => r.state = "CONSUMED" /\ r.detached = task[x].detached
      /\ Pending(x) => r.state = task[x].state
  BY <1>2, <1>3 DEF Task, States
<1>5. task' = [task EXCEPT ![x] = r] BY <1>1, <1>3 DEF Core, Types
<1>6. /\ task' \in [Tasks -> Task] /\ task'[x] = r
      /\ \A y \in Tasks \ {x} : task'[y] = task[y]
  BY <1>4, <1>5, TaskChanges
<1>7. Types' BY <1>1, <1>6 DEF Core, Types
<1>8. OwnStep(x, r, None)
  <2>1. task[x].joined => task[x].state = "CONSUMED" BY DEF Core, Histories
  <2>2. ~Pending(x) => task[x].state \in {"COMPLETE", "CONSUMED"} BY <1>2 DEF Task, States, Pending
  <2> QED BY <1>1, <1>4, <1>5, <2>1, <2>2, TopFacts DEF OwnStep
<1>9. Core'
  <2>1. None # x BY TaskAssumption
  <2> QED BY <1>2, <1>4, <1>7, <1>8, <2>1, OwnStepKeepsCore
<1>10. CASE Pending(x) BY <1>1, <1>9, <1>10, RequestAllowed
<1>11. CASE task[x].state = "CONSUMED"
  <2>1. \A y \in Tasks : /\ task'[y].state = task[y].state /\ task'[y].started = task[y].started
                         /\ task'[y].joined = task[y].joined /\ SameRequests(y)
    BY <1>11, <1>4, <1>6 DEF Pending, SameRequests
  <2>2. \A y \in Tasks : Alike(y) BY <2>1, <1>1, SameStackAlike
  <2> QED BY <1>9, <2>1, <2>2, StutterAllowed
<1>12. CASE task[x].state = "COMPLETE"
  <2>1. /\ \A y \in Tasks \ {x} : Alike(y)
        /\ \A y \in Tasks : SameRequests(y)
    BY <1>12, <1>1, <1>4, <1>6, SameStackAlike DEF Pending, SameRequests
  <2>2. ~task[x].joined BY <1>12 DEF Core, Histories
  <2>3. Status(x) = "finished" /\ Status(x)' = "dropped"
    BY <1>12, <1>4, <1>6, <2>2 DEF Status, Pending
  <2> QED BY <1>9, <2>1, <2>3, MoveAllowed
<1> QED BY <1>2, <1>10, <1>11, <1>12 DEF Task, States, Pending

\* The body on top suspends, parked on a task it holds or on none.
LEMMA SuspendHolds ==
  ASSUME Core, Suspends, Top.awaits = None \/ Top.awaits \in Tasks,
         NEW wake \in 0 .. MaxClock, NEW x \in Tasks \cup {None},
         x \in Tasks => task[x].owner = Top.task /\ ~task[x].helper,
         Suspend(wake, x)
  PROVE  Core' /\ Allowed
<1>1. Core' BY SuspendKeepsCore
<1>n. PICK n \in Nat : n = Len(stack) /\ n \in Depths /\ Top = stack[n] BY TopFacts
<1>2. PICK t \in Tasks : t = Top.task BY DEF Suspends, IsMachine
<1>3. /\ DOMAIN stack = 1 .. n /\ DOMAIN stack' = 1 .. n - 1
      /\ \A k \in 1 .. n - 1 : stack'[k] = stack[k]
  BY <1>n, TopFacts DEF Suspend, Front, Core, Types, Depths
<1>4. \A y \in Tasks : Unmoved(y) BY <1>2 DEF Suspend, Core, Types, Task, Unmoved
<1>5. \A y \in Tasks \ {t} : OnStack(y)' <=> OnStack(y)
  <2>1. \A k \in 1 .. n : k = n \/ k \in 1 .. n - 1 BY <1>n
  <2>2. \A k \in 1 .. n - 1 : k \in 1 .. n BY <1>n
  <2> QED BY <1>n, <1>2, <1>3, <2>1, <2>2 DEF OnStack
<1>6. OnStack(t) /\ ~OnStack(t)'
  <2>1. \A k \in 1 .. n - 1 : k \in Depths /\ k # n BY <1>n DEF Depths
  <2> QED BY <1>n, <1>2, <1>3, <2>1, TopFacts DEF OnStack, Core, StackShape
<1>7. Pending(t) /\ task[t].started BY <1>n, <1>2 DEF Core, Places, Histories
<1>8. Status(t) = "running" /\ Status(t)' = "suspended"
  BY <1>4, <1>6, <1>7 DEF Status, Pending, Unmoved
<1>9. /\ \A y \in Tasks \ {t} : Alike(y)
      /\ \A y \in Tasks : SameRequests(y)
  BY <1>4, <1>5 DEF Alike, SameRequests, Unmoved
<1> QED BY <1>1, <1>8, <1>9, MoveAllowed

\* The function on top joins a complete task it holds.
LEMMA JoinHolds ==
  ASSUME Core, NEW x \in Tasks, task[x].owner = Top.task, task[x].helper = Top.helper,
         task[x].state = "COMPLETE", ~task[x].cancel, ~task[x].detached, Join(x)
  PROVE  Core' /\ Allowed
<1>1. /\ task' = [task EXCEPT ![x].state = "CONSUMED", ![x].joined = TRUE]
      /\ stack' = [stack EXCEPT ![Len(stack)].awaits = None] /\ queue' = queue
  BY DEF Join
<1>2. task[x] \in Task BY DEF Core, Types
<1>3. PICK r : r = [task[x] EXCEPT !.state = "CONSUMED", !.joined = TRUE] OBVIOUS
<1>4. /\ r \in Task /\ r.kind = task[x].kind /\ r.owner = task[x].owner
      /\ r.helper = task[x].helper /\ r.parked = task[x].parked
      /\ r.started = task[x].started /\ r.joined /\ r.state = "CONSUMED"
      /\ r.cancel = task[x].cancel /\ r.detached = task[x].detached
  BY <1>2, <1>3 DEF Task, States
<1>5. task' = [task EXCEPT ![x] = r] BY <1>1, <1>3
<1>6. /\ task' \in [Tasks -> Task] /\ task'[x] = r
      /\ \A y \in Tasks \ {x} : task'[y] = task[y]
  BY <1>4, <1>5, TaskChanges
<1>7. PICK f : f = [Top EXCEPT !.awaits = None] OBVIOUS
<1>8. f \in Body /\ f.task = Top.task /\ f.helper = Top.helper /\ f.awaits = None
  BY <1>7, TopFacts DEF Body
<1>9. stack' = [stack EXCEPT ![Len(stack)] = f] BY <1>1, <1>7, TopFacts
<1>10. /\ stack' \in Seq(Body) /\ Len(stack') = Len(stack) /\ DOMAIN stack' = DOMAIN stack
       /\ \A k \in Depths : stack'[k] = IF k = Len(stack) THEN f ELSE stack[k]
  BY <1>8, <1>9, TopChanges
<1>11. Types' BY <1>1, <1>6, <1>10 DEF Core, Types
<1>12. OwnStep(x, r, None)
  <2>1. \A k \in Depths : /\ stack'[k].task = stack[k].task
                          /\ stack'[k].helper = stack[k].helper
                          /\ stack'[k].awaits = IF k = Len(stack) THEN None ELSE stack[k].awaits
    BY <1>8, <1>10, TopFacts
  <2> QED BY <1>1, <1>4, <1>5, <1>10, <2>1 DEF OwnStep
<1>13. Core'
  <2>1. None # x BY TaskAssumption
  <2> QED BY <1>4, <1>11, <1>12, <2>1, OwnStepKeepsCore
<1>14. \A k \in DOMAIN stack : stack'[k].task = stack[k].task BY <1>8, <1>10, TopFacts
<1>15. /\ \A y \in Tasks \ {x} : Alike(y)
       /\ \A y \in Tasks : SameRequests(y)
  BY <1>4, <1>6, <1>10, <1>14, SameStackAlike DEF SameRequests
<1>16. Status(x) = "finished" /\ Status(x)' = "joined" BY <1>4, <1>6 DEF Status
<1> QED BY <1>13, <1>15, <1>16, MoveAllowed

\* A machine's join suspends, consumes the result or traps.
LEMMA PollJoinHolds ==
  ASSUME Core, Suspends, Top.awaits = None \/ Top.awaits \in Tasks, NEW x \in Tasks,
         task[x].owner = Top.task, task[x].helper = Top.helper, PollJoin(x)
  PROVE  /\ Core' /\ Allowed
         /\ trap' \in {trap, "cancelled", "joined or detached"}
<1>1. CASE Suspend(task[Top.task].wake, x) /\ UNCHANGED trap
  <2>1. ~task[x].helper /\ Top.task \in Tasks BY DEF Suspends, IsMachine
  <2>2. task[Top.task].wake \in 0 .. MaxClock BY <2>1 DEF Core, Types, Task
  <2> QED BY <1>1, <2>1, <2>2, SuspendHolds
<1>2. CASE IsComplete(x) /\ Refused(x) = "none" /\ Join(x)
  <2>1. task[x].state # "UNBORN" 
    <3>1. Top.task # None BY TopFacts, TaskAssumption DEF Body
    <3> QED BY <3>1, HandleIsBorn
  <2>2. /\ task[x].state # "CONSUMED" /\ ~task[x].detached /\ ~task[x].cancel
    BY <1>2 DEF Refused
  <2>3. task[x].state = "COMPLETE"
    BY <1>2, <2>1, <2>2, Elements DEF Core, IsComplete, Pending, States
  <2> QED BY <1>2, <2>2, <2>3, JoinHolds DEF Join
<1>3. CASE Refused(x) # "none" /\ Aborts(Refused(x))
  <2>1. task' = task /\ queue' = queue /\ stack' = stack BY <1>3 DEF Aborts
  <2>2. Types' /\ Quiet BY <2>1 DEF Core, Types, Quiet, Unmoved
  <2>3. \A y \in Tasks : Alike(y) /\ SameRequests(y) BY <2>1, SameStackAlike DEF SameRequests
  <2>4. trap' \in {"cancelled", "joined or detached"} BY <1>3 DEF Aborts, Refused
  <2> QED BY <2>2, <2>3, <2>4, QuietKeepsCore, StutterAllowed
<1> QED BY <1>1, <1>2, <1>3 DEF PollJoin

\* Nothing happens but to deadlines, the clock and the trap.
LEMMA NothingMoves ==
  ASSUME Core, task' = task, queue' = queue, stack' = stack
  PROVE  Core' /\ Allowed
<1>1. Types' /\ Quiet BY DEF Core, Types, Quiet, Unmoved
<1>2. \A y \in Tasks : Alike(y) /\ SameRequests(y) BY SameStackAlike DEF SameRequests
<1> QED BY <1>1, <1>2, QuietKeepsCore, StutterAllowed

\* kira_task_await joins, starts to drive the executor, or traps.
LEMMA AwaitHolds ==
  ASSUME Core, NEW x \in Tasks, Await(x), Top.awaits = None
  PROVE  /\ Core' /\ Allowed
         /\ trap' \in {trap, "cancelled", "joined or detached"}
<1>1. x \in Handles BY DEF Await
<1>2. /\ task[x] \in Task /\ task[x].owner = Top.task /\ task[x].helper = Top.helper
      /\ task[x].state # "UNBORN"
  BY <1>1, HandleFacts
<1>3. CASE Suspends
  <2>1. PollJoin(x) BY <1>3 DEF Await
  <2> QED BY <1>2, <1>3, <2>1, PollJoinHolds
<1>4. CASE ~Suspends /\ Refused(x) # "none"
  <2>1. Aborts(Refused(x)) BY <1>4 DEF Await
  <2>2. trap' \in {"cancelled", "joined or detached"} BY <1>4, <2>1 DEF Aborts, Refused
  <2> QED BY <2>1, <2>2, NothingMoves DEF Aborts
<1>5. CASE ~Suspends /\ Refused(x) = "none"
  <2>1. /\ stack' = [stack EXCEPT ![Len(stack)].awaits = x]
        /\ task' = task /\ queue' = queue /\ trap' = trap
    BY <1>5 DEF Await
  <2>2. PICK f : f = [Top EXCEPT !.awaits = x] OBVIOUS
  <2>3. f \in Body /\ f.task = Top.task /\ f.helper = Top.helper /\ f.awaits = x
    BY <2>2, TopFacts DEF Body
  <2>4. stack' = [stack EXCEPT ![Len(stack)] = f] BY <2>1, <2>2, TopFacts
  <2>5. /\ stack' \in Seq(Body) /\ Len(stack') = Len(stack) /\ DOMAIN stack' = DOMAIN stack
        /\ \A k \in Depths : stack'[k] = IF k = Len(stack) THEN f ELSE stack[k]
    BY <2>3, <2>4, TopChanges
  <2>6. Types' BY <2>1, <2>5 DEF Core, Types
  <2>7. /\ ~task[x].cancel /\ ~task[x].detached /\ task[x].state \in {"PENDING", "COMPLETE"}
    BY <1>2, <1>5 DEF Refused, Task, States
  <2>8. PICK r \in Task : r = task[x] BY <1>2
  <2>9. OwnStep(x, r, x)
    <3>1. \A k \in Depths : /\ stack'[k].task = stack[k].task
                            /\ stack'[k].helper = stack[k].helper
                            /\ stack'[k].awaits = IF k = Len(stack) THEN x ELSE stack[k].awaits
      BY <2>3, <2>5, TopFacts
    <3>2. task' = [task EXCEPT ![x] = r] BY <2>1, <2>8 DEF Core, Types
    <3>3. r.joined => r.state = "CONSUMED" BY <2>8 DEF Core, Histories
    <3> QED BY <2>1, <2>5, <2>8, <3>1, <3>2, <3>3 DEF OwnStep
  <2>10. Core' BY <1>2, <1>5, <2>6, <2>7, <2>8, <2>9, OwnStepKeepsCore
  <2>11. \A k \in DOMAIN stack : stack'[k].task = stack[k].task BY <2>3, <2>5, TopFacts
  <2>12. \A y \in Tasks : Alike(y) /\ SameRequests(y)
    BY <2>1, <2>5, <2>11, SameStackAlike DEF SameRequests
  <2> QED BY <2>1, <2>10, <2>12, StutterAllowed
<1> QED BY <1>3, <1>4, <1>5

\* A non-empty set of stack positions has a highest one, and Max is it.
LEMMA MaxOfInterval ==
  ASSUME NEW n \in Nat, NEW S \in SUBSET (1 .. n), S # {}
  PROVE  Max(S) \in S
<1> DEFINE U == {u \in 0 .. n : \A k \in S : k <= u}
<1>1. n \in U /\ U \in SUBSET Nat OBVIOUS
<1>2. PICK m \in U : \A u \in U : m <= u BY <1>1, MinOfNats
<1>3. m \in S
  <2> SUFFICES ASSUME m \notin S PROVE FALSE OBVIOUS
  <2>1. PICK k \in S : TRUE OBVIOUS
  <2>2. m - 1 \in 0 .. n BY <1>2, <2>1
  <2>3. \A h \in S : h <= m - 1 BY <1>2
  <2> QED BY <1>2, <2>2, <2>3
<1>4. \A k \in S : m >= k BY <1>2
<1> QED BY <1>3, <1>4 DEF Max

\* The machine being polled is not finished.
LEMMA CurrentIsPending ==
  ASSUME Core, Current \in Tasks
  PROVE  Pending(Current)
<1> DEFINE at == {k \in DOMAIN stack : IsMachine(stack[k].task)}
<1>1. at # {} BY TaskAssumption DEF Current
<1>2. at \in SUBSET (1 .. Len(stack)) BY TopFacts DEF Depths
<1>3. Max(at) \in at BY <1>1, <1>2, TopFacts, MaxOfInterval
<1>4. Current = stack[Max(at)].task BY <1>1 DEF Current
<1> HIDE DEF at
<1>5. Max(at) \in Depths BY <1>2, <1>3 DEF Depths
<1> QED BY <1>4, <1>5 DEF Core, Places

\* Sleeping suspends a machine; elsewhere it sets the deadline of the machine
\* being polled, or of the body itself.
LEMMA SleepHolds ==
  ASSUME Core, NEW d \in 0 .. MaxClock, Sleep(d), clock \in 0 .. MaxClock, Top.awaits = None
  PROVE  Core' /\ Allowed
<1>0. PICK w \in 0 .. MaxClock : w = Deadline(d)
  <2>1. clock + d \in 0 .. MaxClock BY TaskAssumption DEF Sleep
  <2> QED BY <2>1 DEF Deadline
<1>1. CASE Suspends /\ Suspend(Deadline(d), None)
  <2>1. None \notin Tasks BY TaskAssumption
  <2> QED BY <1>0, <1>1, <2>1, SuspendHolds
<1>2. CASE task' = [task EXCEPT ![Current].wake = Deadline(d)] /\ UNCHANGED <<queue, stack>>
  <2>1. \A y \in Tasks : /\ task'[y] \in Task /\ Unmoved(y) /\ task'[y].parked = task[y].parked
                         /\ y # Current => task'[y] = task[y]
    <3> SUFFICES ASSUME NEW y \in Tasks
                 PROVE  /\ task'[y] \in Task /\ Unmoved(y) /\ task'[y].parked = task[y].parked
                        /\ y # Current => task'[y] = task[y]
      OBVIOUS
    <3>1. task[y] \in Task BY DEF Core, Types
    <3>2. task'[y] = IF y = Current THEN [task[y] EXCEPT !.wake = w] ELSE task[y]
      BY <1>0, <1>2 DEF Core, Types
    <3> QED BY <3>1, <3>2 DEF Task, Unmoved
  <2>2. task' \in [Tasks -> Task]
    <3>1. DOMAIN task' = Tasks /\ task' = [y \in Tasks |-> task'[y]] BY <1>2 DEF Core, Types
    <3> QED BY <2>1, <3>1
  <2>3. Types' BY <1>2, <2>2 DEF Core, Types
  <2>4. Current \in Tasks => Pending(Current)
    <3>1. SUFFICES ASSUME Current \in Tasks PROVE Pending(Current) OBVIOUS
    <3> QED BY <3>1, CurrentIsPending
  <2>5. Quiet BY <1>2, <2>1, <2>4 DEF Quiet, Pending
  <2>6. \A y \in Tasks : Alike(y) /\ SameRequests(y)
    BY <1>2, <2>1, SameStackAlike DEF SameRequests, Unmoved
  <2> QED BY <2>3, <2>5, <2>6, QuietKeepsCore, StutterAllowed
<1>3. CASE stack' = [stack EXCEPT ![Len(stack)].until = Deadline(d)] /\ UNCHANGED <<task, queue>>
  <2>2. PICK f : f = [Top EXCEPT !.until = w] OBVIOUS
  <2>3. f \in Body /\ f.task = Top.task /\ f.helper = Top.helper /\ f.awaits = Top.awaits
    BY <2>2, TopFacts DEF Body
  <2>4. stack' = [stack EXCEPT ![Len(stack)] = f] BY <1>0, <1>3, <2>2, TopFacts
  <2>5. /\ stack' \in Seq(Body) /\ Len(stack') = Len(stack) /\ DOMAIN stack' = DOMAIN stack
        /\ \A k \in Depths : stack'[k] = IF k = Len(stack) THEN f ELSE stack[k]
    BY <2>3, <2>4, TopChanges
  <2>6. Types' BY <1>3, <2>5 DEF Core, Types
  <2>7. \A k \in Depths : /\ stack'[k].task = stack[k].task
                          /\ stack'[k].helper = stack[k].helper
                          /\ stack'[k].awaits = stack[k].awaits
    BY <2>3, <2>5, TopFacts
  <2>8. Quiet BY <1>3, <2>5, <2>7 DEF Quiet, Unmoved
  <2>9. \A y \in Tasks : Alike(y) /\ SameRequests(y)
    BY <1>3, <2>5, <2>7, TopFacts, SameStackAlike DEF SameRequests
  <2> QED BY <2>6, <2>8, <2>9, QuietKeepsCore, StutterAllowed
<1> QED BY <1>1, <1>2, <1>3 DEF Sleep

\* Yielding suspends a machine; any other body runs a due task if there is one.
LEMMA YieldHolds ==
  ASSUME Core, Yield, Top.awaits = None
  PROVE  Core' /\ Allowed
<1>1. CASE Suspends /\ Suspend(task[Top.task].wake, None)
  <2>1. None \notin Tasks BY TaskAssumption
  <2>2. task[Top.task].wake \in 0 .. MaxClock BY <1>1 DEF Suspends, IsMachine, Core, Types, Task
  <2> QED BY <1>1, <2>1, <2>2, SuspendHolds
<1>2. CASE DueAt # {} /\ RunOne(NextDue, stack, FALSE) BY <1>2, RunOneHolds
<1>3. CASE UNCHANGED <<task, queue, stack>> BY <1>3, NothingMoves
<1> QED BY <1>1, <1>2, <1>3 DEF Yield

\* A machine calls a function that cannot suspend.
LEMMA CallHelperHolds ==
  ASSUME Core, CallHelper, Top.awaits = None
  PROVE  Core' /\ Allowed
<1>1. /\ Suspends /\ stack' = [stack EXCEPT ![Len(stack)].helper = TRUE]
      /\ task' = task /\ queue' = queue
  BY DEF CallHelper
<1>2. PICK f : f = [Top EXCEPT !.helper = TRUE] OBVIOUS
<1>3. f \in Body /\ f.task = Top.task /\ f.helper = TRUE /\ f.awaits = Top.awaits
  BY <1>2, TopFacts DEF Body
<1>4. stack' = [stack EXCEPT ![Len(stack)] = f] BY <1>1, <1>2, TopFacts
<1>5. /\ stack' \in Seq(Body) /\ Len(stack') = Len(stack) /\ DOMAIN stack' = DOMAIN stack
      /\ \A k \in Depths : stack'[k] = IF k = Len(stack) THEN f ELSE stack[k]
  BY <1>3, <1>4, TopChanges
<1>6. Types' BY <1>1, <1>5 DEF Core, Types
<1>7. \A k \in Depths : /\ stack'[k].task = stack[k].task
                        /\ stack'[k].awaits = stack[k].awaits
                        /\ stack'[k].helper = (k = Len(stack) \/ stack[k].helper)
  <2> SUFFICES ASSUME NEW k \in Depths
               PROVE  /\ stack'[k].task = stack[k].task /\ stack'[k].awaits = stack[k].awaits
                      /\ stack'[k].helper = (k = Len(stack) \/ stack[k].helper)
    OBVIOUS
  <2>1. stack[k].helper \in BOOLEAN BY Elements DEF Core
  <2>2. CASE k = Len(stack) BY <1>3, <1>5, <2>2, TopFacts
  <2>3. CASE k # Len(stack) BY <1>5, <2>1, <2>3
  <2> QED BY <2>2, <2>3
<1>8. Core' BY <1>1, <1>5, <1>6, <1>7, CallHelperKeepsCore
<1>9. \A y \in Tasks : Alike(y) /\ SameRequests(y)
  BY <1>1, <1>5, <1>7, TopFacts, SameStackAlike DEF SameRequests
<1> QED BY <1>8, <1>9, StutterAllowed

\* What a forgotten handle leaves of a task.
LEMMA ForgetsFacts ==
  ASSUME Core, NEW t, NEW helper \in BOOLEAN, task' = Forgets(t, helper)
  PROVE  /\ task' \in [Tasks -> Task]
         /\ \A y \in Tasks : /\ task'[y].state = task[y].state /\ task'[y].started = task[y].started
                             /\ task'[y].joined = task[y].joined /\ SameRequests(y)
BY ForgetsMap DEF SameRequests, Keeps

\* ... and returns from it; the handles of that call are forgotten.
LEMMA LeaveHelperHolds ==
  ASSUME Core, LeaveHelper, Top.awaits = None
  PROVE  Core' /\ Allowed
<1>1. /\ Top.helper /\ stack' = [stack EXCEPT ![Len(stack)].helper = FALSE]
      /\ task' = Forgets(Top.task, TRUE) /\ queue' = queue
  BY DEF LeaveHelper
<1>2. PICK f : f = [Top EXCEPT !.helper = FALSE] OBVIOUS
<1>3. f \in Body /\ f.task = Top.task /\ f.helper = FALSE /\ f.awaits = None
  BY <1>2, TopFacts DEF Body
<1>4. stack' = [stack EXCEPT ![Len(stack)] = f] BY <1>1, <1>2, TopFacts
<1>5. /\ stack' \in Seq(Body) /\ Len(stack') = Len(stack) /\ DOMAIN stack' = DOMAIN stack
      /\ \A k \in Depths : stack'[k] = IF k = Len(stack) THEN f ELSE stack[k]
  BY <1>3, <1>4, TopChanges
<1>6. /\ task' \in [Tasks -> Task]
      /\ \A y \in Tasks : /\ task'[y].state = task[y].state /\ task'[y].started = task[y].started
                          /\ task'[y].joined = task[y].joined /\ SameRequests(y)
  BY <1>1, ForgetsFacts
<1>7. Types' BY <1>1, <1>5, <1>6 DEF Core, Types
<1>8. /\ IsMachine(Top.task)
      /\ \A k \in Depths : /\ stack'[k].task = stack[k].task
                           /\ k # Len(stack) => /\ stack'[k].awaits = stack[k].awaits
                                                /\ stack'[k].helper = stack[k].helper
      /\ ~stack'[Len(stack)].helper /\ stack'[Len(stack)].awaits = None
  BY <1>1, <1>3, <1>5, TopFacts DEF Core, StackShape
<1>9. Core'
  <2>1. PICK h \in BOOLEAN : h = TRUE OBVIOUS
  <2>2. task' = Forgets(Top.task, h) /\ queue' = queue BY <1>1, <2>1
  <2>3. /\ IF h THEN IsMachine(Top.task) ELSE Top.task = Main
        /\ stack'[Len(stack)].awaits = IF h THEN None ELSE Main
    BY <1>8, <2>1
  <2>4. Len(stack') = Len(stack) BY <1>5
  <2>5. ~stack'[Len(stack)].helper BY <1>8
  <2>6. \A k \in Depths : /\ stack'[k].task = stack[k].task
                          /\ k # Len(stack) => /\ stack'[k].awaits = stack[k].awaits
                                               /\ stack'[k].helper = stack[k].helper
    BY <1>8
  <2> QED BY <1>7, <2>2, <2>3, <2>4, <2>5, <2>6, ForgetKeepsCore
<1>10. \A y \in Tasks : Alike(y)
  <2>1. \A k \in DOMAIN stack : stack'[k].task = stack[k].task BY <1>8, TopFacts
  <2>2. DOMAIN stack' = DOMAIN stack BY <1>5
  <2> QED BY <1>6, <2>1, <2>2, SameStackAlike
<1> QED BY <1>6, <1>9, <1>10, StutterAllowed

\* A body returns: its task is finished, or main begins to drain.
LEMMA ReturnHolds ==
  ASSUME Core, Return, Top.awaits = None
  PROVE  Core' /\ Allowed
<1>n. PICK n \in Nat : n = Len(stack) /\ n \in Depths /\ Top = stack[n] BY TopFacts
<1>1. CASE Top.task = Main
  <2>1. n = 1 BY <1>n, <1>1, TopFacts DEF Core, StackShape, Depths
  <2>2. PICK f : f = [Top EXCEPT !.awaits = Main] OBVIOUS
  <2>3. f \in Body /\ f.task = Top.task /\ f.helper = Top.helper /\ f.awaits = Main
    BY <2>2, TopFacts DEF Body
  <2>4. stack' = <<f>> /\ task' = Forgets(Main, FALSE) /\ queue' = queue /\ ~Top.helper
    BY <1>1, <2>2 DEF Return
  <2>5. /\ stack' \in Seq(Body) /\ Len(stack') = 1 /\ stack'[1] = f /\ DOMAIN stack' = 1 .. 1
    BY <2>3, <2>4
  <2>6. Depths = 1 .. 1 /\ \A k \in Depths : k = 1 BY <1>n, <2>1 DEF Depths
  <2>7. /\ task' \in [Tasks -> Task]
        /\ \A y \in Tasks : /\ task'[y].state = task[y].state /\ task'[y].started = task[y].started
                            /\ task'[y].joined = task[y].joined /\ SameRequests(y)
    BY <2>4, ForgetsFacts
  <2>8. Types' BY <2>4, <2>5, <2>7 DEF Core, Types
  <2>9. /\ \A k \in Depths : stack'[k].task = stack[k].task /\ k = Len(stack)
        /\ ~stack'[Len(stack)].helper /\ stack'[Len(stack)].awaits = Main
    BY <1>n, <2>1, <2>3, <2>4, <2>5, <2>6
  <2>10. Len(stack') = Len(stack) /\ DOMAIN stack' = DOMAIN stack
    BY <1>n, <2>1, <2>5, <2>6, TopFacts
  <2>11. Core' BY <1>1, <2>4, <2>8, <2>9, <2>10, ForgetKeepsCore
  <2>12. \A y \in Tasks : Alike(y) BY <2>7, <2>9, <2>10, TopFacts, SameStackAlike
  <2> QED BY <2>7, <2>11, <2>12, StutterAllowed
<1>2. CASE Top.task # Main
  <2>1. PICK t \in Tasks : t = Top.task BY <1>2, TopFacts DEF Body
  <2>2. PICK s : s = Completed(t, Draining) OBVIOUS
  <2>3. ReturnStep(t, s) BY <1>2, <2>1, <2>2 DEF Return, ReturnStep, Front
  <2>4. /\ s \in {"COMPLETE", "CONSUMED"} /\ (s = "COMPLETE" => ~task[t].detached)
        /\ s = "CONSUMED" => task[t].detached \/ Draining
    BY <2>2 DEF Completed
  <2>5. ASSUME NEW k \in Depths, Blocked(k), s = "CONSUMED" PROVE stack[k].awaits # t
    <3>1. CASE task[t].detached BY <2>5, <3>1 DEF Core, AwaitedIsFresh
    <3>2. CASE Draining
      <4>1. k # n BY <1>n, <2>5, TaskAssumption DEF Blocked
      <4>2. k = 1 BY <1>n, <3>2, <4>1 DEF Draining, Depths
      <4> QED BY <3>2, <4>2, TaskAssumption DEF Draining
    <3> QED BY <2>4, <2>5, <3>1, <3>2
  <2>6. Top.awaits \notin Tasks BY TaskAssumption
  <2>7. Core' BY <2>1, <2>3, <2>4, <2>5, <2>6, ReturnKeepsCore
  <2>8. Pending(t) /\ ~task[t].joined BY <1>n, <2>1 DEF Core, Places, Histories, Pending
  <2>9. /\ DOMAIN stack = 1 .. n /\ DOMAIN stack' = 1 .. n - 1
        /\ \A k \in 1 .. n - 1 : stack'[k] = stack[k]
    BY <1>n, <2>3, TopFacts DEF ReturnStep, Core, Types, Depths
  <2>10. \A y \in Tasks \ {t} : OnStack(y)' <=> OnStack(y)
    <3>1. \A k \in 1 .. n : k = n \/ k \in 1 .. n - 1 BY <1>n
    <3>2. \A k \in 1 .. n - 1 : k \in 1 .. n BY <1>n
    <3> QED BY <1>n, <2>1, <2>9, <3>1, <3>2 DEF OnStack
  <2>11. OnStack(t) BY <1>n, <2>1, TopFacts DEF OnStack
  <2>12. /\ task'[t].state = s /\ task'[t].joined = task[t].joined
         /\ \A y \in Tasks \ {t} : /\ task'[y].state = task[y].state /\ task'[y].started = task[y].started
                                   /\ task'[y].joined = task[y].joined
         /\ \A y \in Tasks : SameRequests(y)
    <3> DEFINE F == Forgets(t, FALSE)
    <3>1. \A y \in Tasks : F[y] = IF task[y].owner = t
                                   THEN [task[y] EXCEPT !.owner = None, !.helper = FALSE] ELSE task[y]
      BY DEF Forgets
    <3>2. /\ F \in [Tasks -> Task]
          /\ \A y \in Tasks :
               /\ F[y].state = task[y].state /\ F[y].started = task[y].started
               /\ F[y].joined = task[y].joined /\ F[y].cancel = task[y].cancel
               /\ F[y].detached = task[y].detached
      <4>1. \A y \in Tasks : task[y] \in Task BY DEF Core, Types
      <4>2. F = [y \in Tasks |-> F[y]] BY DEF Forgets
      <4> HIDE DEF F
      <4>3. \A y \in Tasks :
               /\ F[y] \in Task /\ F[y].state = task[y].state /\ F[y].started = task[y].started
               /\ F[y].joined = task[y].joined /\ F[y].cancel = task[y].cancel
               /\ F[y].detached = task[y].detached
        <5> SUFFICES ASSUME NEW y \in Tasks
                     PROVE  /\ F[y] \in Task /\ F[y].state = task[y].state
                            /\ F[y].started = task[y].started /\ F[y].joined = task[y].joined
                            /\ F[y].cancel = task[y].cancel /\ F[y].detached = task[y].detached
          OBVIOUS
        <5>1. task[y] \in Task BY <4>1
        <5>2. F[y] = [task[y] EXCEPT !.owner = None, !.helper = FALSE] \/ F[y] = task[y] BY <3>1
        <5> QED BY <5>1, <5>2 DEF Task
      <4> QED BY <4>2, <4>3
    <3>3. task' = [F EXCEPT ![t].state = s] BY <2>3 DEF ReturnStep
    <3> HIDE DEF F
    <3> QED BY <3>2, <3>3 DEF Task, SameRequests
  <2>13. \A y \in Tasks \ {t} : Alike(y) BY <2>10, <2>12 DEF Alike
  <2>14. /\ Status(t) = "running"
         /\ Status(t)' = IF s = "COMPLETE" THEN "finished" ELSE "dropped"
    BY <2>4, <2>8, <2>11, <2>12 DEF Status, Pending
  <2> QED BY <2>4, <2>7, <2>12, <2>13, <2>14, MoveAllowed
<1> QED BY <1>1, <1>2

\* A blocked body runs one queued task.
LEMMA DriveHolds ==
  ASSUME Core, Drive
  PROVE  Core' /\ Allowed
<1>1. PICK drained \in BOOLEAN : drained = (Top.awaits = Main) OBVIOUS
<1> QED BY <1>1, RunOneHolds DEF Drive

\* The frame on top waits for a task that can still be joined, whose handle it
\* holds and which is not on the stack.
LEMMA WaitsForFresh ==
  ASSUME Core, ~Suspends, Top.awaits \in Tasks
  PROVE  /\ task[Top.awaits].owner = Top.task /\ task[Top.awaits].helper = Top.helper
         /\ ~task[Top.awaits].cancel /\ ~task[Top.awaits].detached
         /\ task[Top.awaits].state \in {"PENDING", "COMPLETE"}
         /\ \A k \in Depths : stack[k].task # Top.awaits
<1>1. Blocked(Len(stack)) BY TopFacts DEF Blocked, Suspends
<1> QED BY <1>1, TopFacts DEF Core, AwaitedIsFresh, AwaitsOwned, Depths

\* A blocked body takes the result it drove the executor for.
LEMMA JoinDrivenHolds ==
  ASSUME Core, JoinDriven
  PROVE  Core' /\ Allowed
<1>1. /\ ~Suspends /\ Top.awaits \in Tasks /\ ~Pending(Top.awaits) /\ Join(Top.awaits)
  BY DEF JoinDriven
<1>2. PICK x \in Tasks : x = Top.awaits BY <1>1
<1>3. /\ task[x].owner = Top.task /\ task[x].helper = Top.helper
      /\ ~task[x].cancel /\ ~task[x].detached /\ task[x].state = "COMPLETE"
  BY <1>1, <1>2, WaitsForFresh DEF Pending
<1> QED BY <1>1, <1>2, <1>3, JoinHolds

\* A queue without a pending task means no task is awaited.
LEMMA DrainedHolds ==
  ASSUME Core, Drained
  PROVE  Core' /\ Allowed /\ trap' = "exited"
<1>1. Core' /\ Allowed BY NothingMoves DEF Drained, Aborts
<1>2. Top.awaits = Main
  <2> SUFFICES ASSUME Top.awaits # Main PROVE FALSE OBVIOUS
  <2>1. Top.awaits \in Tasks /\ ~Suspends /\ Pending(Top.awaits)
    BY TopFacts DEF Drained, Waits, Body
  <2>2. \A k \in Depths : stack[k].task # Top.awaits BY <2>1, WaitsForFresh
  <2>3. PICK i \in Positions : queue[i] = Top.awaits BY <2>1, <2>2 DEF Core, Places
  <2>4. DOMAIN queue = Positions BY DEF Core, Types, Positions
  <2> QED BY <2>1, <2>3, <2>4 DEF Drained
<1> QED BY <1>1, <1>2 DEF Drained, Aborts

\* A machine polled again finishes the join it suspended in.
LEMMA PollAgainHolds ==
  ASSUME Core, PollAgain
  PROVE  /\ Core' /\ Allowed
         /\ trap' \in {trap, "cancelled", "joined or detached"}
<1>1. Suspends /\ Top.awaits # None /\ PollJoin(Top.awaits) BY DEF PollAgain, Waits
<1>2. Top.awaits # Main
  <2> SUFFICES ASSUME Top.awaits = Main PROVE FALSE OBVIOUS
  <2>1. Len(stack) = 1 BY TopFacts DEF Core, StackShape
  <2> QED BY <1>1, <2>1, TopFacts, TaskAssumption DEF Core, StackShape, Suspends, IsMachine
<1>3. PICK x \in Tasks : x = Top.awaits BY <1>1, <1>2, TopFacts DEF Body
<1>4. task[x].owner = Top.task /\ task[x].helper = Top.helper
  BY <1>3, TopFacts DEF Core, AwaitsOwned
<1> QED BY <1>1, <1>3, <1>4, PollJoinHolds

-----------------------------------------------------------------------------
\* The inductive invariant.
IndInv ==
  /\ Core /\ clock \in 0 .. MaxClock
  /\ trap \in {"none", "exited", "cancelled", "joined or detached"}

\* The executor starts in order and as the contract starts.
LEMMA InitEstablishes == Init => IndInv /\ Contract!Init
<1> SUFFICES ASSUME Init PROVE IndInv /\ Contract!Init OBVIOUS
<1>0. /\ 0 \in 0 .. MaxClock /\ Main # None /\ Main \notin Tasks BY TaskAssumption
<1>1. /\ Unborn \in Task /\ Unborn.owner = None /\ Unborn.state = "UNBORN" /\ ~Unborn.joined
      /\ Unborn.kind = "none" /\ Unborn.parked = None /\ ~Unborn.started
      /\ Unborn.cancel = FALSE /\ Unborn.detached = FALSE
  BY <1>0 DEF Unborn, Task, States
<1>2. /\ Frame(Main) \in Body /\ Frame(Main).task = Main /\ Frame(Main).helper = FALSE
      /\ Frame(Main).awaits = None
  BY <1>0 DEF Frame, Body
<1>3. \A t \in Tasks : task[t] = Unborn BY DEF Init
<1>4. /\ stack \in Seq(Body) /\ Len(stack) = 1 /\ Depths = 1 .. 1 /\ stack[1] = Frame(Main)
      /\ queue \in Seq(Tasks) /\ Len(queue) = 0 /\ Positions = {} /\ \A k \in Depths : k = 1
  <2>1. stack = <<Frame(Main)>> /\ queue = <<>> BY DEF Init
  <2> QED BY <1>2, <2>1 DEF Depths, Positions
<1>5. Types BY <1>1, <1>4 DEF Types, Init
<1>6. StackShape BY <1>0, <1>2, <1>4 DEF StackShape
<1>7. Histories BY <1>0, <1>1, <1>2, <1>3, <1>4 DEF Histories
<1>8. Places BY <1>0, <1>1, <1>2, <1>3, <1>4 DEF Places, Pending
<1>9. AwaitsOwned /\ AwaitedIsFresh
  <2>1. \A k \in Depths : stack[k].awaits \notin Tasks BY <1>2, <1>4, TaskAssumption
  <2> QED BY <1>4, <2>1 DEF AwaitsOwned, AwaitedIsFresh, Blocked
<1>10. OwnerBelow BY <1>1, <1>3 DEF OwnerBelow
<1>11. clock \in 0 .. MaxClock /\ trap = "none" BY <1>0 DEF Init
<1>12. \A t \in Tasks : Status(t) = "unborn" BY <1>1, <1>3 DEF Status
<1>13. Contract!Init BY <1>1, <1>3, <1>12 DEF Contract!Init
<1> QED BY <1>5, <1>6, <1>7, <1>8, <1>9, <1>10, <1>11, <1>13 DEF IndInv, Core

\* Every step keeps the executor in order and is allowed by the contract.
LEMMA NextKeeps ==
  ASSUME IndInv, [Next]_vars
  PROVE  IndInv' /\ Allowed
<1> DEFINE Traps == {"none", "exited", "cancelled", "joined or detached"}
<1>0. Core /\ clock \in 0 .. MaxClock /\ trap \in Traps BY DEF IndInv
<1> SUFFICES Core' /\ Allowed /\ clock' \in 0 .. MaxClock /\ trap' \in Traps BY DEF IndInv
<1>1. ASSUME NEW kind \in Kinds, Spawn(kind)
      PROVE  Core' /\ Allowed /\ clock' \in 0 .. MaxClock /\ trap' \in Traps
  BY <1>0, <1>1, SpawnHolds DEF Spawn
<1>2. ASSUME NEW x \in Tasks, Cancel(x)
      PROVE  Core' /\ Allowed /\ clock' \in 0 .. MaxClock /\ trap' \in Traps
  BY <1>0, <1>2, CancelHolds DEF Cancel, Runs
<1>3. ASSUME NEW x \in Tasks, Detach(x)
      PROVE  Core' /\ Allowed /\ clock' \in 0 .. MaxClock /\ trap' \in Traps
  BY <1>0, <1>3, DetachHolds DEF Detach, Runs
<1>4. ASSUME NEW x \in Tasks, Await(x)
      PROVE  Core' /\ Allowed /\ clock' \in 0 .. MaxClock /\ trap' \in Traps
  BY <1>0, <1>4, AwaitHolds DEF Await, Runs
<1>5. ASSUME NEW d \in 0 .. MaxClock, Sleep(d)
      PROVE  Core' /\ Allowed /\ clock' \in 0 .. MaxClock /\ trap' \in Traps
  BY <1>0, <1>5, SleepHolds DEF Sleep, Runs
<1>6. CASE Yield BY <1>0, <1>6, YieldHolds DEF Yield, Runs
<1>7. CASE CallHelper BY <1>0, <1>7, CallHelperHolds DEF CallHelper, Runs
<1>8. CASE LeaveHelper BY <1>0, <1>8, LeaveHelperHolds DEF LeaveHelper, Runs
<1>9. CASE Return BY <1>0, <1>9, ReturnHolds DEF Return, Runs
<1>10. CASE Drive BY <1>0, <1>10, DriveHolds DEF Drive
<1>11. CASE JoinDriven BY <1>0, <1>11, JoinDrivenHolds DEF JoinDriven, Join
<1>12. CASE Drained BY <1>0, <1>12, DrainedHolds DEF Drained
<1>13. CASE PollAgain BY <1>0, <1>13, PollAgainHolds DEF PollAgain
<1>14. CASE Tick
  <2>1. clock' \in 0 .. MaxClock BY <1>0, <1>14, TaskAssumption DEF Tick
  <2> QED BY <1>0, <1>14, <2>1, NothingMoves DEF Tick
<1>15. CASE UNCHANGED vars BY <1>0, <1>15, NothingMoves DEF vars
<1> QED BY <1>1, <1>2, <1>3, <1>4, <1>5, <1>6, <1>7, <1>8, <1>9, <1>10, <1>11, <1>12, <1>13,
           <1>14, <1>15 DEF Next, Call, Executor

\* The invariant holds throughout.
THEOREM Inductive == Spec => []IndInv
<1>1. Init => IndInv BY InitEstablishes
<1>2. IndInv /\ [Next]_vars => IndInv' BY NextKeeps
<1> QED BY <1>1, <1>2, PTL DEF Spec

\* Records, the queue and the stack keep their types, deadlines their range.
THEOREM TypeCorrect == Spec => []TypeOK
<1>1. IndInv => TypeOK
  <2> SUFFICES ASSUME IndInv PROVE TypeOK OBVIOUS
  <2>1. \A t \in Tasks : task[t] \in Task BY DEF IndInv, Core, Types
  <2>2. ToSet(queue) \subseteq Tasks
    <3>1. queue \in Seq(Tasks) BY DEF IndInv, Core, Types
    <3>2. \A i \in DOMAIN queue : queue[i] \in Tasks BY <3>1
    <3> QED BY <3>2 DEF ToSet
  <2> QED BY <2>1, <2>2 DEF TypeOK, IndInv, Task, States
<1> QED BY <1>1, Inductive, PTL

\* A pending task is queued once or being driven, and no await finds the queue
\* drained before the awaited task completed.
THEOREM EveryTaskInOnePlace == Spec => []InOnePlace
<1>1. IndInv => InOnePlace
  <2> SUFFICES ASSUME IndInv PROVE InOnePlace OBVIOUS
  <2>1. Core /\ DOMAIN queue = Positions /\ DOMAIN stack = Depths
    <3>1. Core BY DEF IndInv
    <3>2. queue \in Seq(Tasks) BY <3>1 DEF Core, Types
    <3>3. DOMAIN queue = Positions BY <3>2 DEF Positions
    <3> QED BY <3>1, <3>3, TopFacts
  <2>2. IsInjective(queue) BY <2>1 DEF IsInjective, Core, Places
  <2>3. \A t \in Tasks : t \in ToSet(queue) <=> \E i \in Positions : queue[i] = t
    BY <2>1 DEF ToSet
  <2>4. \A t \in Tasks : OnStack(t) <=> \E k \in Depths : stack[k].task = t
    BY <2>1 DEF OnStack
  <2>5. \A t \in Tasks : /\ Pending(t) <=> (t \in ToSet(queue) \/ OnStack(t))
                         /\ ~(t \in ToSet(queue) /\ OnStack(t))
    BY <2>1, <2>3, <2>4 DEF Core, Places
  <2>6. \A j, k \in DOMAIN stack : stack[j].task = stack[k].task => j = k
    BY <2>1 DEF Core, StackShape
  <2> QED BY <2>2, <2>5, <2>6 DEF InOnePlace, IndInv
<1> QED BY <1>1, Inductive, PTL

\* The executor implements the contract of tasks.
THEOREM ExecutorKeepsContract == Spec => KeepsContract
<1>1. Init => Contract!Init BY InitEstablishes
<1>2. IndInv /\ [Next]_vars => [Contract!Next]_(Contract!vars) BY NextKeeps DEF Allowed
<1> QED BY <1>1, <1>2, Inductive, PTL DEF Spec, KeepsContract, Contract!Spec
====
