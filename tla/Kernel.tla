-------------------------------- MODULE Kernel --------------------------------
(* The FreeRTOS kernel of the board: freertos/source/tasks.c, queue.c, list.c *)
(* and the AVR32 port, in the configuration of conf/FreeRTOSConfig.h:         *)
(* preemption, mutexes with priority inheritance, task deletion, no task      *)
(* suspension (so that portMAX_DELAY is a time-out like any other).           *)
(*                                                                            *)
(* A step is what the code does in one critical section, or between two       *)
(* points where an interrupt can tell the difference; the interrupts are the  *)
(* tick and one that gives a semaphore.  The kernel's own data is the record  *)
(* k, and each of its functions is an operator from such a record to another. *)
(* A list of the ready tasks of a priority is the sequence of its tasks from  *)
(* the one after pxIndex round to pxIndex itself: vListInsertEnd appends, and *)
(* listGET_OWNER_OF_NEXT_ENTRY turns the sequence by one.                     *)
EXTENDS Integers, Sequences, SequencesExt, FiniteSetsExt

CONSTANTS
  Task,          \* the task control blocks
  Idle,          \* the idle task
  Child,         \* blocks of the task that another one deletes and creates again
  Sem,           \* binary semaphores and mutexes
  Mutex,         \* those which are mutexes
  IsrSem,        \* those given by an interrupt
  BasePriority,  \* the priority each task is created with
  Programs,      \* per set of tasks, the kernel calls each makes over and over
  TickModulus,   \* the tick counter counts modulo this
  MaxMissed,     \* bound: ticks while the scheduler is suspended
  None           \* no task

ASSUME KernelAssumption ==
  /\ IsFiniteSet(Task) /\ None \notin Task
  /\ Child \subseteq Task /\ Idle \in Task \ Child
  /\ IsrSem \subseteq Sem \ Mutex /\ Mutex \subseteq Sem
  /\ BasePriority \in [Task -> Nat]
  /\ TickModulus \in Nat /\ TickModulus > 2 /\ MaxMissed \in Nat

(* A kernel call of a program                                                 *)
KernelCall ==
  [do : {"take", "give"}, sem : Sem]
  \cup [do : {"delay", "until"}, ticks : 1..TickModulus - 1]
  \cup [do : {"delete", "create", "reap"}]

ASSUME ProgramsAssumption ==
  \A p \in Programs :
    /\ Idle \in DOMAIN p /\ DOMAIN p \subseteq Task
    /\ \A t \in DOMAIN p : p[t] \in Seq(KernelCall) \ {<<>>}

(* The mutexes a task of program p has taken and not given before its call i  *)
Held(p, t, i) ==
  {m \in Mutex : \E j \in 1..i - 1 :
                   /\ p[t][j] = [do |-> "take", sem |-> m]
                   /\ \A n \in j + 1..i - 1 : p[t][n] # [do |-> "give", sem |-> m]}

(* What the programs of the board keep to: a mutex is given by the task that  *)
(* has taken it, and not taken twice; only the idle task frees what is left   *)
(* of others, and it does nothing else; a task that may be deleted does       *)
(* nothing but wait for a time.                                               *)
ASSUME DisciplineAssumption ==
  \A p \in Programs : \A t \in DOMAIN p :
    /\ Held(p, t, Len(p[t]) + 1) = {}
    /\ \A i \in 1..Len(p[t]) :
         /\ p[t][i].do = "give" /\ p[t][i].sem \in Mutex => p[t][i].sem \in Held(p, t, i)
         /\ p[t][i].do = "take" => p[t][i].sem \notin Held(p, t, i)
         /\ p[t][i].do = "reap" <=> t = Idle
         /\ p[t][i].do = "create" => Child \subseteq DOMAIN p
         /\ t \in Child => p[t][i].do \in {"delay", "until"}

(* Who holds a mutex does not sleep before it gives it (the link is waited    *)
(* for in a loop, pc_comm_usb.c).  Who takes a mutex while it holds another   *)
(* is the only one ever to take it, and one other task at most is as urgent:  *)
(* comm_task alone takes the mutex of the link, inside that of the            *)
(* configuration or of the interface, and only core_task is more urgent.      *)
ASSUME NestingAssumption ==
  \A p \in Programs : \A t \in DOMAIN p : \A i \in 1..Len(p[t]) :
    Held(p, t, i) # {} =>
      /\ p[t][i].do = "give" \/ (p[t][i].do = "take" /\ p[t][i].sem \in Mutex)
      /\ p[t][i].do = "take" =>
           /\ \A u \in DOMAIN p \ {t} : \A j \in 1..Len(p[u]) : p[u][j] # p[t][i]
           /\ \A u, v \in DOMAIN p \ {t} :
                BasePriority[u] >= BasePriority[t] /\ BasePriority[v] >= BasePriority[t] => u = v

VARIABLES
  program, \* the tasks there are and their calls, one of Programs
  k,       \* the kernel's data
  pc,      \* where each task is in its kernel call
  idx,     \* the call each task makes or is about to make
  after,   \* what a task does once it has resumed the scheduler
  last,    \* pxPreviousWakeTime of the tasks that use vTaskDelayUntil
  child    \* usb_device_tsk: handle of the task created last, or None
vars == <<program, k, pc, idx, after, last, child>>

Priorities == 0..Max({BasePriority[t] : t \in Task})
PcStates == {"call", "suspend", "lock", "check", "place", "unlock",
             "insert", "resume", "yield", "create", "reap"}
Forever == TickModulus - 1   \* portMAX_DELAY

KernelData ==
  [cur : Task, ready : [Priorities -> Seq(Task)], top : Priorities,
   delayed : Seq(Task), overflow : Seq(Task), pending : Seq(Task),
   dying : Seq(Task), tick : 0..TickModulus - 1, missed : 0..MaxMissed,
   suspended : BOOLEAN, missedYield : BOOLEAN,
   prio : [Task -> Priorities], wake : [Task -> 0..TickModulus - 1],
   left : [Task -> 0..Forever], entered : [Task -> 0..TickModulus - 1],
   wrapped : [Task -> BOOLEAN], full : [Sem -> BOOLEAN],
   holder : [Sem -> Task \cup {None}], lock : [Sem -> -1..1],
   waiting : [Sem -> Seq(Task)]]

TypeOK ==
  /\ program \in Programs
  /\ k \in KernelData
  /\ pc \in [Task -> PcStates]
  /\ idx \in [Task -> Nat \ {0}]
  /\ after \in [Task -> {"call", "yield", "fail", "create", "reap"}]
  /\ last \in [Task -> 0..TickModulus - 1]
  /\ child \in Child \cup {None}

-------------------------------------------------------------------------------
(* Lists *)

vListRemove(list, t) == RemoveFirst(list, t)

(* In the order of the key, after the tasks with the same one. *)
vListInsert(list, t, key) ==
  InsertAt(list, Min({i \in 1..Len(list) : key[list[i]] > key[t]} \cup {Len(list) + 1}), t)

AddTaskToReadyQueue(t, s) ==
  [s EXCEPT !.ready[s.prio[t]] = Append(@, t), !.top = Max({@, s.prio[t]})]

(* vListRemove of the generic item, and of the event item, of a task *)
RemoveState(t, s) ==
  [s EXCEPT !.ready = [p \in Priorities |-> vListRemove(@[p], t)],
            !.delayed = vListRemove(@, t), !.overflow = vListRemove(@, t),
            !.wake[t] = 0]
RemoveEvent(t, s) ==
  [s EXCEPT !.pending = vListRemove(@, t),
            !.waiting = [q \in Sem |-> vListRemove(@[q], t)]]

MakeReady(t, s) == AddTaskToReadyQueue(t, RemoveEvent(t, RemoveState(t, s)))

(* Mutant: the tasks that wake after the turn of the counter are not set      *)
(* apart.                                                                     *)
MutantSleep(t, at, s) ==
  LET r == [RemoveState(t, s) EXCEPT !.wake[t] = at]
  IN [r EXCEPT !.delayed = vListInsert(@, t, r.wake)]

(* The delayed list, or the overflow list when the time has turned over. *)
Sleep(t, at, s) ==
  LET r == [RemoveState(t, s) EXCEPT !.wake[t] = at]
  IN IF at < s.tick THEN [r EXCEPT !.overflow = vListInsert(@, t, r.wake)]
                    ELSE [r EXCEPT !.delayed = vListInsert(@, t, r.wake)]

-------------------------------------------------------------------------------
(* The scheduler *)

vTaskSwitchContext(s) ==
  IF s.suspended THEN [s EXCEPT !.missedYield = TRUE]
  ELSE LET top == Max({p \in 0..s.top : s.ready[p] # <<>>})
           next == Head(s.ready[top])
       IN [s EXCEPT !.top = top, !.cur = next, !.ready[top] = Append(Tail(@), next)]

(* Every task of the list in turn *)
MakeAllReady(list, s) ==
  LET after_n[n \in 0..Len(list)] ==
        IF n = 0 THEN s ELSE MakeReady(list[n], after_n[n - 1])
  IN after_n[Len(list)]

CheckDelayedTasks(s) ==
  LET late == {i \in 1..Len(s.delayed) : s.wake[s.delayed[i]] > s.tick}
  IN MakeAllReady(SubSeq(s.delayed, 1, Min(late \cup {Len(s.delayed) + 1}) - 1), s)

vTaskIncrementTick(s) ==
  IF s.suspended THEN [s EXCEPT !.missed = @ + 1]
  ELSE LET next == (s.tick + 1) % TickModulus
           turned == [s EXCEPT !.delayed = s.overflow, !.overflow = s.delayed,
                               !.wrapped = [t \in Task |-> s.left[t] > 0]]
       IN CheckDelayedTasks([IF next = 0 THEN turned ELSE s EXCEPT !.tick = next])

(* The ticks counted while the scheduler was suspended *)
MissedTicks(s) ==
  LET after_n[n \in 0..s.missed] ==
        IF n = 0 THEN s ELSE vTaskIncrementTick(after_n[n - 1])
  IN after_n[s.missed]

(* xTaskResumeAll: the tasks readied and the ticks counted meanwhile *)
YieldRequired(s) ==
  \/ \E i \in 1..Len(s.pending) : s.prio[s.pending[i]] >= s.prio[s.cur]
  \/ s.missed > 0
  \/ s.missedYield
xTaskResumeAll(s) ==
  LET ticked == MissedTicks(MakeAllReady(s.pending, [s EXCEPT !.suspended = FALSE]))
  IN IF YieldRequired(s)
     THEN vTaskSwitchContext([ticked EXCEPT !.missed = 0, !.missedYield = FALSE])
     ELSE ticked

-------------------------------------------------------------------------------
(* Semaphores *)

(* xTaskRemoveFromEventList, and whether it returns pdTRUE *)
Outranks(q, s) == s.waiting[q] # <<>> /\ s.prio[Head(s.waiting[q])] >= s.prio[s.cur]
RemoveFromEventList(q, s) ==
  IF s.waiting[q] = <<>> THEN s
  ELSE LET t == Head(s.waiting[q])
           r == [s EXCEPT !.waiting[q] = Tail(@)]
       IN IF s.suspended THEN [r EXCEPT !.pending = Append(@, t)]
                         ELSE AddTaskToReadyQueue(t, RemoveState(t, r))

(* Mutant: a ready holder stays on the list of its old priority.              *)
MutantPriorityInherit(t, s) ==
  IF t = None \/ s.prio[t] >= s.prio[s.cur] THEN s
  ELSE [s EXCEPT !.prio[t] = s.prio[s.cur]]

vTaskPriorityInherit(t, s) ==
  IF t = None \/ s.prio[t] >= s.prio[s.cur] THEN s
  ELSE LET p == s.prio[t]
           raised == [s EXCEPT !.prio[t] = s.prio[s.cur]]
       IN IF Contains(s.ready[p], t)
          THEN AddTaskToReadyQueue(t, [raised EXCEPT !.ready[p] = vListRemove(@, t)])
          ELSE raised

(* Mutant: the holder keeps the inherited priority.                           *)
MutantPriorityDisinherit(t, s) == s

vTaskPriorityDisinherit(t, s) ==
  IF t = None \/ s.prio[t] = BasePriority[t] THEN s
  ELSE AddTaskToReadyQueue(t, [RemoveState(t, s) EXCEPT !.prio[t] = BasePriority[t]])

(* prvCopyDataToQueue, for items of size 0 *)
CopyDataToQueue(q, s) ==
  [IF q \in Mutex THEN vTaskPriorityDisinherit(s.holder[q], s) ELSE s
   EXCEPT !.holder[q] = None, !.full[q] = TRUE]

(* xQueueGenericSend with no block time *)
GenericSend(q, s) ==
  IF s.full[q] THEN s
  ELSE LET sent == CopyDataToQueue(q, s)
           woken == RemoveFromEventList(q, sent)
       IN IF Outranks(q, sent) THEN vTaskSwitchContext(woken) ELSE woken

(* Mutant: the interrupt returns to the task it interrupted.                  *)
MutantSendFromISR(q, s) ==
  LET sent == CopyDataToQueue(q, s)
  IN IF s.lock[q] # -1 THEN [sent EXCEPT !.lock[q] = @ + 1] ELSE RemoveFromEventList(q, sent)

(* xQueueGenericSendFromISR, and the switch on the way out of the interrupt *)
GenericSendFromISR(q, s) ==
  LET sent == CopyDataToQueue(q, s)
      woken == RemoveFromEventList(q, sent)
  IN IF s.lock[q] # -1 THEN [sent EXCEPT !.lock[q] = @ + 1]
     ELSE IF Outranks(q, sent) THEN vTaskSwitchContext(woken) ELSE woken

(* Mutant: what was given while the queue was locked wakes nobody.            *)
MutantUnlockQueue(q, s) == [s EXCEPT !.lock[q] = -1]

(* prvUnlockQueue: a semaphore holds one token, so it was given once at most; *)
(* no task ever waits to give, so the other lock has nothing to do.           *)
UnlockQueue(q, s) ==
  LET woken == [RemoveFromEventList(q, s) EXCEPT
                  !.missedYield = @ \/ Outranks(q, s)]
  IN [IF s.lock[q] > 0 THEN woken ELSE s EXCEPT !.lock[q] = -1]

(* xTaskCheckForTimeOut *)
Elapsed(t, s) == (s.tick - s.entered[t]) % TickModulus
TimedOut(t, s) ==
  \/ s.wrapped[t] /\ s.tick >= s.entered[t]
  \/ Elapsed(t, s) >= s.left[t]
SetTimeOutState(t, s) == [s EXCEPT !.entered[t] = s.tick, !.wrapped[t] = FALSE]

-------------------------------------------------------------------------------
(* What the running task does next *)

Call(t) == program[t][idx[t]]
NextIdx(t) == (idx[t] % Len(program[t])) + 1
At(t, label) == pc[t] = label
Goto(t, label) == pc' = [pc EXCEPT ![t] = label]
Return(t) == idx' = [idx EXCEPT ![t] = NextIdx(t)] /\ Goto(t, "call")
Calls(t, name) == At(t, "call") /\ Call(t).do = name
Forgotten(t, s) == [s EXCEPT !.left[t] = 0, !.entered[t] = 0, !.wrapped[t] = FALSE]

(* xQueueGenericReceive, block time portMAX_DELAY: the first critical section *)
Take(t) ==
  /\ Calls(t, "take")
  /\ LET q == Call(t).sem
     IN IF k.full[q]
        THEN /\ k' = [Forgotten(t, k) EXCEPT !.full[q] = FALSE,
                        !.holder[q] = IF q \in Mutex THEN t ELSE @]
             /\ Return(t)
        ELSE /\ k' = IF k.left[t] > 0 THEN k
                     ELSE SetTimeOutState(t, [k EXCEPT !.left[t] = Forever])
             /\ Goto(t, "suspend") /\ UNCHANGED idx
  /\ UNCHANGED <<program, after, last, child>>

Suspend(t) ==
  /\ \/ At(t, "suspend")
     \/ Calls(t, "delay") \/ Calls(t, "until") \/ Calls(t, "create")
     \/ Calls(t, "reap") /\ k.dying # <<>>
  /\ k' = [k EXCEPT !.suspended = TRUE]
  /\ Goto(t, IF pc[t] = "suspend" THEN "lock" ELSE "insert")
  /\ UNCHANGED <<program, idx, after, last, child>>

(* prvLockQueue *)
Lock(t) ==
  /\ At(t, "lock")
  /\ k' = [k EXCEPT !.lock[Call(t).sem] = IF @ = -1 THEN 0 ELSE @]
  /\ Goto(t, "check")
  /\ UNCHANGED <<program, idx, after, last, child>>

(* xTaskCheckForTimeOut, then prvIsQueueEmpty *)
Check(t) ==
  /\ At(t, "check")
  /\ IF TimedOut(t, k)
     THEN /\ k' = k /\ Goto(t, "unlock")
          /\ after' = [after EXCEPT ![t] = "fail"]
     ELSE /\ k' = SetTimeOutState(t, [k EXCEPT !.left[t] = @ - Elapsed(t, k)])
          /\ Goto(t, IF k.full[Call(t).sem] THEN "unlock" ELSE "place")
          /\ after' = [after EXCEPT ![t] = IF k.full[Call(t).sem] THEN "call" ELSE "yield"]
  /\ UNCHANGED <<program, idx, last, child>>

(* vTaskPriorityInherit, then vTaskPlaceOnEventList *)
Place(t) ==
  /\ At(t, "place")
  /\ LET q == Call(t).sem
         s == IF q \in Mutex THEN vTaskPriorityInherit(k.holder[q], k) ELSE k
         rank == [u \in Task |-> -s.prio[u]]
     IN k' = Sleep(t, (s.tick + s.left[t]) % TickModulus,
                   [s EXCEPT !.waiting[q] = vListInsert(@, t, rank)])
  /\ Goto(t, "unlock")
  /\ UNCHANGED <<program, idx, after, last, child>>

Unlock(t) ==
  /\ At(t, "unlock")
  /\ k' = UnlockQueue(Call(t).sem, k)
  /\ Goto(t, "resume")
  /\ UNCHANGED <<program, idx, after, last, child>>

(* With the scheduler suspended: vTaskDelay and vTaskDelayUntil leave the     *)
(* ready list, xTaskCreate calls malloc, the idle task looks at the list of   *)
(* the deleted ones.                                                          *)
Wakes(t) == (last[t] + Call(t).ticks) % TickModulus
ShouldDelay(t) ==
  LET over == Wakes(t) < last[t]
  IN IF k.tick < last[t] THEN over /\ Wakes(t) > k.tick
                         ELSE over \/ Wakes(t) > k.tick
Insert(t) ==
  /\ At(t, "insert")
  /\ CASE Call(t).do = "delay" ->
            /\ k' = Sleep(t, (k.tick + Call(t).ticks) % TickModulus, k)
            /\ last' = last
       [] Call(t).do = "until" ->
            /\ k' = IF ShouldDelay(t) THEN Sleep(t, Wakes(t), k) ELSE k
            /\ last' = [last EXCEPT ![t] = Wakes(t)]
       [] OTHER -> UNCHANGED <<k, last>>
  /\ after' = [after EXCEPT ![t] = IF Call(t).do \in {"create", "reap"} THEN Call(t).do ELSE "yield"]
  /\ Goto(t, "resume")
  /\ UNCHANGED <<program, idx, child>>

Delays(t) == Call(t).do \in {"delay", "until"}
Resume(t) ==
  /\ At(t, "resume")
  /\ k' = IF after[t] = "fail" THEN Forgotten(t, xTaskResumeAll(k)) ELSE xTaskResumeAll(k)
  /\ IF after[t] = "yield" /\ ~YieldRequired(k)
     THEN Goto(t, "yield") /\ UNCHANGED <<program, idx, after>>
     ELSE /\ after' = [after EXCEPT ![t] = "call"]
          /\ IF Delays(t) THEN Return(t)
             ELSE /\ Goto(t, IF after[t] \in {"create", "reap"} THEN after[t] ELSE "call")
                  /\ UNCHANGED idx
  /\ UNCHANGED <<program, last, child>>

(* portYIELD_WITHIN_API; a task woken before it got here yields all the same *)
Yield(t) ==
  /\ At(t, "yield")
  /\ k' = vTaskSwitchContext(k)
  /\ after' = [after EXCEPT ![t] = "call"]
  /\ IF Delays(t) THEN Return(t) ELSE Goto(t, "call") /\ UNCHANGED idx
  /\ UNCHANGED <<program, last, child>>

Give(t) ==
  /\ Calls(t, "give")
  /\ k' = GenericSend(Call(t).sem, k)
  /\ Return(t)
  /\ UNCHANGED <<program, after, last, child>>

(* vTaskDelete of the task created last, if there is one; its context is of   *)
(* no use any more.                                                           *)
Delete(t) ==
  /\ Calls(t, "delete")
  /\ IF child = None
     THEN UNCHANGED <<k, after, last>> /\ Return(t)
     ELSE /\ k' = [RemoveEvent(child, RemoveState(child, k)) EXCEPT !.dying = Append(@, child)]
          /\ idx' = [idx EXCEPT ![t] = NextIdx(t), ![child] = 1]
          /\ pc' = [pc EXCEPT ![t] = "call", ![child] = "call"]
          /\ after' = [after EXCEPT ![child] = "call"]
          /\ last' = [last EXCEPT ![child] = 0]
  /\ child' = None
  /\ UNCHANGED program

(* xTaskGenericCreate once malloc has returned: no free block, no task *)
Free(s) == {t \in Child : /\ ~Contains(s.dying, t) /\ ~Contains(s.delayed, t)
                          /\ ~Contains(s.overflow, t)
                          /\ \A p \in Priorities : ~Contains(s.ready[p], t)}
Create(t) ==
  /\ At(t, "create")
  /\ IF Free(k) = {}
     THEN UNCHANGED <<k, last, child>> /\ Return(t)
     ELSE \E c \in Free(k) :
            /\ LET s == AddTaskToReadyQueue(c, k)
               IN k' = IF k.prio[t] < BasePriority[c] THEN vTaskSwitchContext(s) ELSE s
            /\ child' = c
            /\ Return(t)
            /\ last' = [last EXCEPT ![c] = k.tick]
  /\ UNCHANGED <<program, after>>

(* prvCheckTasksWaitingTermination, and its two calls of free *)
Reap(t) ==
  /\ At(t, "reap")
  /\ k' = [k EXCEPT !.dying = Tail(@)]
  /\ Goto(t, "call")
  /\ UNCHANGED <<program, idx, after, last, child>>

-------------------------------------------------------------------------------
(* Interrupts *)

(* Named assumption: no task waits for a mutex for a whole turn of the tick   *)
(* counter, which takes 49 days on the board; its watchdog waits for 2 s.     *)
MutexWaitsAreShort ==
  \A t \in Task : k.left[t] > 0 /\ Call(t).sem \in Mutex =>
     (k.tick + k.missed + 1 - k.entered[t]) % TickModulus < k.left[t]

(* vTick; every return from it to a task switches *)
Tick ==
  /\ k.missed < MaxMissed
  /\ MutexWaitsAreShort
  /\ k' = vTaskSwitchContext(vTaskIncrementTick(k))
  /\ UNCHANGED <<program, pc, idx, after, last, child>>

Interrupt(q) ==
  /\ ~k.full[q]
  /\ k' = GenericSendFromISR(q, k)
  /\ UNCHANGED <<program, pc, idx, after, last, child>>

-------------------------------------------------------------------------------
(* vTaskStartScheduler: every task but the children is ready, the most urgent *)
(* one is current, and the semaphores have just been created, full.           *)
Started == DOMAIN program \ Child

Init ==
  /\ program \in Programs
  /\ k = [cur |-> CHOOSE t \in Started : \A u \in Started : BasePriority[u] <= BasePriority[t],
          ready |-> [p \in Priorities |->
                       SetToSeq({t \in Started : BasePriority[t] = p})],
          top |-> Max(Priorities),
          delayed |-> <<>>, overflow |-> <<>>, pending |-> <<>>, dying |-> <<>>,
          tick |-> 0, missed |-> 0, suspended |-> FALSE, missedYield |-> FALSE,
          prio |-> BasePriority, wake |-> [t \in Task |-> 0],
          left |-> [t \in Task |-> 0], entered |-> [t \in Task |-> 0],
          wrapped |-> [t \in Task |-> FALSE],
          full |-> [q \in Sem |-> TRUE], holder |-> [q \in Sem |-> None],
          lock |-> [q \in Sem |-> -1], waiting |-> [q \in Sem |-> <<>>]]
  /\ pc = [t \in Task |-> "call"]
  /\ idx = [t \in Task |-> 1]
  /\ after = [t \in Task |-> "call"]
  /\ last = [t \in Task |-> 0]
  /\ child = None

Step(t) ==
  \/ Take(t) \/ Suspend(t) \/ Lock(t) \/ Check(t) \/ Place(t) \/ Unlock(t)
  \/ Insert(t) \/ Resume(t) \/ Yield(t)
  \/ Give(t) \/ Delete(t) \/ Create(t) \/ Reap(t)

Next == Step(k.cur) \/ Tick \/ \E q \in IsrSem : Interrupt(q)
Spec == Init /\ [][Next]_vars
-------------------------------------------------------------------------------
(* Properties *)

Sleeping(t) == Contains(k.delayed, t) \/ Contains(k.overflow, t)
Blocked(t, q) == Contains(k.waiting[q], t)

(* Lists, flags and counters keep their types, and                            *)
(* a task is on one list of states and on no other (the ready list of its     *)
(* present priority, a delayed list, the list of the deleted), and it waits   *)
(* for an event only while it sleeps.  An item on two lists, or on the list   *)
(* of a priority its task no longer has, corrupts both: vListRemove trusts    *)
(* the pointers of the item.                                                  *)
EachTaskIsOnOneList ==
  /\ TypeOK
  /\ \A t \in DOMAIN program :
       LET states == {<<"ready", p>> : p \in {p \in Priorities : Contains(k.ready[p], t)}}
                     \cup {<<n, 0>> : n \in {n \in {"delayed", "overflow", "dying"} : Contains(k[n], t)}}
           events == {q \in Sem : Blocked(t, q)} \cup
                     (IF Contains(k.pending, t) THEN {None} ELSE {})
       IN /\ t \notin Free(k) => \E l \in states :
               /\ states = {l}
               /\ l[1] = "ready" => l[2] = k.prio[t]
          /\ Cardinality(events) <= 1
          /\ events # {} => Sleeping(t)

(* Whenever the scheduler is not suspended no ready task is more urgent than  *)
(* the running one: every call and interrupt that readies a task, or lowers   *)
(* the running one, asks for a switch, also when the switch had to be put off *)
(* (xMissedYield, uxMissedTicks, the pending list).                           *)
MostUrgentRuns ==
  ~k.suspended => \A p \in Priorities : p > k.prio[k.cur] => k.ready[p] = <<>>

(* Unless its queue is locked, nobody sleeps on a semaphore that is available *)
(* without a task on its way to take it: an interrupt that gives between the  *)
(* look at an empty queue and the sleep is made up for by prvUnlockQueue.     *)
OnItsWay(t, q) ==
  /\ Call(t).do = "take" /\ Call(t).sem = q
  /\ ~Sleeping(t) \/ Contains(k.pending, t)
NoLostWakeup ==
  \A q \in Sem : k.full[q] /\ k.lock[q] = -1 /\ k.waiting[q] # <<>> =>
     \E t \in DOMAIN program \ Child : OnItsWay(t, q)

(* The delayed list is sorted and lies ahead of the tick counter, the         *)
(* overflow list is sorted and lies behind it, so that the turn of the        *)
(* counter finds nobody left ("If there are any items in pxDelayedTaskList    *)
(* here then there is an error!", tasks.c:1371).                              *)
SleepersAreInOrder ==
  LET Sorted(list) == \A i, j \in 1..Len(list) : i < j => k.wake[list[i]] <= k.wake[list[j]]
  IN /\ Sorted(k.delayed) /\ Sorted(k.overflow)
     /\ \A i \in 1..Len(k.delayed) : k.wake[k.delayed[i]] > k.tick
     /\ \A i \in 1..Len(k.overflow) : k.wake[k.overflow[i]] < k.tick

(* While a task sleeps on a mutex only its holder, or a task at least as      *)
(* urgent as the sleeper, runs; and nobody keeps a priority it inherited once *)
(* it holds no mutex.                                                         *)
InversionIsBounded ==
  /\ \A q \in Mutex : \A i \in 1..Len(k.waiting[q]) :
       k.prio[k.cur] >= k.prio[k.waiting[q][i]] \/ k.holder[q] = k.cur
  /\ \A t \in Task : k.prio[t] # BasePriority[t] => \E q \in Mutex : k.holder[q] = t
===============================================================================
