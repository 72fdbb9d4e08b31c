-------------------------- MODULE RunQueuesProofs --------------------------
(***************************************************************************)
(* For any number of CPUs and any set of tasks: IInv is an inductive       *)
(* invariant of RunQueues, and the invariants and action properties of     *)
(* that module follow from it.                                             *)
(***************************************************************************)
EXTENDS RunQueues, TLAPS

\* Vec::remove on a queue: one element fewer, the others in order.
LEMMA RemoveSlotFacts ==
    ASSUME NEW q \in Seq(Task), NEW i \in DOMAIN q
    PROVE  /\ RemoveSlot(q, i) \in Seq(Task)
           /\ DOMAIN RemoveSlot(q, i) = 1 .. Len(q) - 1
           /\ \A j \in 1 .. Len(q) - 1 :
                RemoveSlot(q, i)[j] = IF j < i THEN q[j] ELSE q[j + 1]
  <1>1. Len(q) \in Nat /\ DOMAIN q = 1 .. Len(q)
    OBVIOUS
  <1>2. Len(q) - 1 \in Nat
    BY <1>1
  <1>3. \A j \in 1 .. Len(q) - 1 : RemoveSlot(q, i)[j] \in Task
    BY <1>1, <1>2 DEF RemoveSlot
  <1>4. QED
    BY <1>1, <1>2, <1>3 DEF RemoveSlot

\* Appending a task adds it as the last slot and moves no other (Vec::push).
LEMMA AppendFacts ==
    ASSUME NEW q \in Seq(Task), NEW t \in Task
    PROVE  /\ Append(q, t) \in Seq(Task)
           /\ DOMAIN q = 1 .. Len(q) /\ Len(q) \in Nat
           /\ DOMAIN Append(q, t) = 1 .. Len(q) + 1
           /\ \A j \in 1 .. Len(q) : Append(q, t)[j] = q[j]
           /\ Append(q, t)[Len(q) + 1] = t
  OBVIOUS

\* Every queue is a function on 1 .. Len.
LEMMA SlotsFacts ==
    ASSUME TypeOK, NEW c \in Cpu
    PROVE  /\ tasks[c] \in Seq(Task)
           /\ Len(tasks[c]) \in Nat
           /\ Slots(c) = 1 .. Len(tasks[c])
           /\ \A i \in Slots(c) : tasks[c][i] \in Task
  BY DEF TypeOK, Slots

\* The removal of a slot other than `current`, by a steal or a reap, keeps every
\* scheduler on its task and every other task in its queue.
LEMMA TakeOutFacts ==
    ASSUME IInv, NEW v \in Cpu, NEW i \in Slots(v), i # current[v], TakeOut(v, i)
    PROVE  /\ tasks' \in [Cpu -> Seq(Task)]
           /\ current' \in [Cpu -> Nat \ {0}]
           /\ CurrentInRange' /\ OneSlot' /\ RootsPinned'
           /\ \A c \in Cpu : Cur(c)' = Cur(c)
           /\ \A t \in Task, c \in Cpu :
                 Queued(t, c)' <=> Queued(t, c) /\ t # tasks[v][i]
           /\ \A c \in Cpu : \A j \in Slots(c)' :
                 /\ tasks'[c][j] \in Task
                 /\ state[tasks'[c][j]] = "Running" => j = current'[c]
  <1> DEFINE Src(c, j) == IF c = v /\ j >= i THEN j + 1 ELSE j
  <1>1. /\ TypeOK /\ CurrentInRange /\ OneSlot /\ RootsPinned /\ RunningIsCurrent
    BY DEF IInv
  <1>2. /\ tasks[v] \in Seq(Task) /\ i \in DOMAIN tasks[v] /\ Len(tasks[v]) \in Nat
        /\ i \in 1 .. Len(tasks[v])
    BY <1>1, SlotsFacts DEF Slots
  <1>3. /\ RemoveSlot(tasks[v], i) \in Seq(Task)
        /\ DOMAIN RemoveSlot(tasks[v], i) = 1 .. Len(tasks[v]) - 1
        /\ \A j \in 1 .. Len(tasks[v]) - 1 :
             RemoveSlot(tasks[v], i)[j] = IF j < i THEN tasks[v][j] ELSE tasks[v][j + 1]
    BY <1>2, RemoveSlotFacts
  <1>4. /\ tasks' \in [Cpu -> Seq(Task)]
        /\ tasks'[v] = RemoveSlot(tasks[v], i)
        /\ \A c \in Cpu : c # v => tasks'[c] = tasks[c]
    BY <1>1, <1>3 DEF TakeOut, TypeOK
  <1>5. /\ current' \in [Cpu -> Nat \ {0}]
        /\ current'[v] = IF i < current[v] THEN current[v] - 1 ELSE current[v]
        /\ \A c \in Cpu : c # v => current'[c] = current[c]
    BY <1>1, <1>2 DEF TakeOut, TypeOK
  <1>6. \A c \in Cpu : \A j \in Slots(c)' :
           /\ j \in Nat \ {0}
           /\ Src(c, j) \in Slots(c)
           /\ tasks'[c][j] = tasks[c][Src(c, j)]
           /\ c = v => Src(c, j) # i
    BY <1>1, <1>2, <1>3, <1>4, SlotsFacts, SMTT(30) DEF Slots
  <1>7. \A c \in Cpu : \A k \in Slots(c) :
           c # v \/ k # i => \E j \in Slots(c)' : Src(c, j) = k
    <2> SUFFICES ASSUME NEW c \in Cpu, NEW k \in Slots(c), c # v \/ k # i
                 PROVE  \E j \in Slots(c)' : Src(c, j) = k
      OBVIOUS
    <2>1. CASE c # v
      BY <2>1, <1>4 DEF Slots
    <2>2. CASE c = v
      <3>1. k \in 1 .. Len(tasks[v])
        BY <2>2, <1>1, SlotsFacts
      <3>2. CASE k < i
        <4>1. k \in Slots(c)'
          BY <2>2, <3>1, <3>2, <1>2, <1>3, <1>4 DEF Slots
        <4>2. Src(c, k) = k
          BY <3>1, <3>2, <1>2
        <4>3. QED BY <4>1, <4>2
      <3>3. CASE k > i
        <4>1. k - 1 \in Slots(c)'
          BY <2>2, <3>1, <3>3, <1>2, <1>3, <1>4 DEF Slots
        <4>2. Src(c, k - 1) = k
          BY <2>2, <3>1, <3>3, <1>2
        <4>3. QED BY <4>1, <4>2
      <3>4. QED BY <2>2, <3>1, <3>2, <3>3, <1>2
    <2>3. QED BY <2>1, <2>2
  <1>8. \A c \in Cpu : current'[c] \in Slots(c)' /\ Src(c, current'[c]) = current[c]
    <2> SUFFICES ASSUME NEW c \in Cpu
                 PROVE  current'[c] \in Slots(c)' /\ Src(c, current'[c]) = current[c]
      OBVIOUS
    <2>1. CASE c # v
      BY <2>1, <1>1, <1>4, <1>5, SMTT(30) DEF Slots, CurrentInRange
    <2>2. CASE c = v
      <3>1. current[v] \in 1 .. Len(tasks[v])
        BY <1>1, SlotsFacts DEF CurrentInRange
      <3>2. QED
        BY <2>2, <3>1, <1>2, <1>3, <1>4, <1>5 DEF Slots
    <2>3. QED BY <2>1, <2>2
  <1>9. \A c \in Cpu : \A j, k \in Slots(c)' : Src(c, j) = Src(c, k) => j = k
    BY <1>2, <1>6
  <1>10. CurrentInRange'
    BY <1>8 DEF CurrentInRange
  <1>11. OneSlot'
    BY <1>1, <1>6, <1>9 DEF OneSlot
  <1>12. RootsPinned'
    <2> SUFFICES ASSUME NEW c \in Cpu, NEW d \in Cpu, NEW j \in Slots(d)',
                        tasks'[d][j] = Root[c]
                 PROVE  d = c /\ j = 1
      BY DEF RootsPinned
    <2>1. d = c /\ Src(d, j) = 1
      BY <1>1, <1>6 DEF RootsPinned
    <2>2. QED
      BY <2>1, <1>2, <1>6
  <1>13. \A c \in Cpu : Cur(c)' = Cur(c)
    BY <1>6, <1>8 DEF Cur
  <1>14. \A t \in Task, c \in Cpu :
            Queued(t, c)' <=> Queued(t, c) /\ t # tasks[v][i]
    <2> TAKE t \in Task, c \in Cpu
    <2>1. ASSUME Queued(t, c)' PROVE Queued(t, c) /\ t # tasks[v][i]
      <3>1. PICK j \in Slots(c)' : tasks'[c][j] = t
        BY <2>1 DEF Queued
      <3>2. Src(c, j) \in Slots(c) /\ tasks[c][Src(c, j)] = t
        BY <3>1, <1>6
      <3>3. t # tasks[v][i]
        BY <3>2, <1>1, <1>6 DEF OneSlot
      <3>4. QED BY <3>2, <3>3 DEF Queued
    <2>2. ASSUME Queued(t, c), t # tasks[v][i] PROVE Queued(t, c)'
      <3>1. PICK k \in Slots(c) : tasks[c][k] = t
        BY <2>2 DEF Queued
      <3>2. PICK j \in Slots(c)' : Src(c, j) = k
        BY <3>1, <2>2, <1>7
      <3>3. tasks'[c][j] = t
        BY <3>1, <3>2, <1>6
      <3>4. QED BY <3>3 DEF Queued
    <2>3. QED BY <2>1, <2>2
  <1>15. \A c \in Cpu : \A j \in Slots(c)' :
            /\ tasks'[c][j] \in Task
            /\ state[tasks'[c][j]] = "Running" => j = current'[c]
    BY <1>1, <1>6, <1>8, <1>9, SlotsFacts DEF RunningIsCurrent
  <1>16. QED
    BY <1>4, <1>5, <1>10, <1>11, <1>12, <1>13, <1>14, <1>15

-----------------------------------------------------------------------------
\* The boot state: one root per CPU, the sentinel behind the boot thread.
LEMMA InitIInv == Init => IInv
  <1> SUFFICES ASSUME Init PROVE IInv
    OBVIOUS
  <1> USE RunQueuesAssumption
  <1>1. 0 \in Cpu
    BY DEF Cpu
  <1>2. TypeOK
    BY <1>1 DEF Init, TypeOK, TaskState
  <1>3. /\ Slots(0) = {1, 2} /\ tasks[0][1] = Root[0] /\ tasks[0][2] = Sentinel
        /\ \A c \in Cpu : c # 0 => Slots(c) = {1} /\ tasks[c][1] = Root[c]
    BY <1>1 DEF Init, Slots
  <1>4. CurrentInRange /\ OneSlot /\ RootsPinned
    BY <1>1, <1>3 DEF Init, CurrentInRange, OneSlot, RootsPinned
  <1>5. RunningIsCurrent
    BY <1>1, <1>3 DEF Init, RunningIsCurrent, RootOf
  <1>6. \A t \in Task : (\E c \in Cpu : Queued(t, c)) <=> RootOf(t) \/ t = Sentinel
    BY <1>1, <1>3 DEF Queued, RootOf
  <1>7. Conserved
    BY <1>6 DEF Init, Conserved
  <1>8. RootsHeld
    BY DEF Init, RootsHeld, RootOf
  <1>9. QED
    BY <1>2, <1>4, <1>5, <1>7, <1>8 DEF IInv

\* Steps that leave the queues alone keep what is only about the queues.
LEMMA SameQueues ==
    ASSUME IInv, UNCHANGED <<tasks, current>>
    PROVE  /\ CurrentInRange' /\ OneSlot' /\ RootsPinned'
           /\ \A c \in Cpu : Slots(c)' = Slots(c)
           /\ \A t, c : Queued(t, c)' <=> Queued(t, c)
  BY DEF IInv, CurrentInRange, OneSlot, RootsPinned, Slots, Queued

\* A step that only rewrites the states of queued tasks, never to Running.
LEMMA MarkFacts ==
    ASSUME IInv, NEW S \in SUBSET Task, NEW s \in {"Ready", "Sleeping", "Dead"},
           \A t \in S : \E c \in Cpu : Queued(t, c),
           state' = [t \in Task |-> IF t \in S THEN s ELSE state[t]],
           UNCHANGED <<tasks, current, flight, locked>>
    PROVE  IInv'
  <1> USE RunQueuesAssumption
  <1>0. /\ TypeOK /\ CurrentInRange /\ OneSlot /\ Conserved
        /\ RunningIsCurrent /\ RootsPinned /\ RootsHeld
    BY DEF IInv
  <1>1. TypeOK'
    BY <1>0 DEF TypeOK, TaskState
  <1>2. /\ CurrentInRange' /\ OneSlot' /\ RootsPinned'
        /\ \A d \in Cpu : Slots(d)' = Slots(d)
        /\ \A x, d : Queued(x, d)' <=> Queued(x, d)
    BY SameQueues
  <1>3. Conserved'
    BY <1>0, <1>2 DEF Conserved
  <1>4. RunningIsCurrent'
    BY <1>0, <1>2, SlotsFacts DEF RunningIsCurrent
  <1>5. RootsHeld'
    BY <1>0 DEF RootsHeld
  <1>6. QED BY <1>1, <1>2, <1>3, <1>4, <1>5 DEF IInv

\* A step that moves no task keeps IInv.
LEMMA IdleStep ==
    ASSUME IInv, UNCHANGED <<tasks, current, state, flight>>, TypeOK'
    PROVE  IInv'
  <1>1. CurrentInRange' /\ OneSlot'
    BY DEF IInv, CurrentInRange, OneSlot, Slots
  <1>2. Conserved'
    BY DEF IInv, Conserved, Slots, Queued
  <1>3. RunningIsCurrent'
    BY DEF IInv, RunningIsCurrent, Slots, Queued
  <1>4. RootsPinned' /\ RootsHeld'
    BY DEF IInv, RootsPinned, RootsHeld, Slots, Queued
  <1>5. QED BY <1>1, <1>2, <1>3, <1>4 DEF IInv

\* IInv is inductive: one step per critical section of src/task/mod.rs.
LEMMA NextIInv == IInv /\ [Next]_vars => IInv'
  <1> SUFFICES ASSUME IInv, [Next]_vars PROVE IInv'
    OBVIOUS
  <1> USE RunQueuesAssumption
  <1>0. /\ TypeOK /\ CurrentInRange /\ OneSlot /\ Conserved
        /\ RunningIsCurrent /\ RootsPinned /\ RootsHeld
    BY DEF IInv
  <1>1. ASSUME NEW t \in Task, Create(t) PROVE IInv'
    <2>1. TypeOK'
      BY <1>0, <1>1 DEF TypeOK, Create, TaskState
    <2>2. /\ CurrentInRange' /\ OneSlot' /\ RootsPinned'
          /\ \A c \in Cpu : Slots(c)' = Slots(c)
          /\ \A x, c : Queued(x, c)' <=> Queued(x, c)
      BY <1>1, SameQueues DEF Create
    <2>3. Conserved'
      BY <1>0, <1>1, <2>2 DEF Conserved, Create, TypeOK
    <2>4. RunningIsCurrent'
      BY <1>0, <1>1, <2>2, SlotsFacts DEF RunningIsCurrent, Create, TypeOK
    <2>5. RootsHeld'
      BY <1>0, <1>1 DEF RootsHeld, Create, TypeOK
    <2>6. QED BY <2>1, <2>2, <2>3, <2>4, <2>5 DEF IInv
  <1>2. ASSUME NEW t \in Task, NEW c \in Cpu, Insert(t, c) PROVE IInv'
    <2>1. /\ Append(tasks[c], t) \in Seq(Task)
          /\ DOMAIN tasks[c] = 1 .. Len(tasks[c]) /\ Len(tasks[c]) \in Nat
          /\ DOMAIN Append(tasks[c], t) = 1 .. Len(tasks[c]) + 1
          /\ \A j \in 1 .. Len(tasks[c]) : Append(tasks[c], t)[j] = tasks[c][j]
          /\ Append(tasks[c], t)[Len(tasks[c]) + 1] = t
      BY <1>0, AppendFacts DEF TypeOK
    <2>2. /\ tasks'[c] = Append(tasks[c], t)
          /\ \A d \in Cpu : d # c => tasks'[d] = tasks[d]
          /\ current' = current /\ state' = state /\ flight' = flight \ {t}
          /\ t \in flight
      BY <1>0, <1>2 DEF Insert, TypeOK
    <2>3. TypeOK'
      BY <1>0, <1>2, <2>1 DEF TypeOK, Insert
    <2>4. \A d \in Cpu : \A i \in Slots(d)' :
             \/ i \in Slots(d) /\ tasks'[d][i] = tasks[d][i]
             \/ d = c /\ i = Len(tasks[c]) + 1 /\ tasks'[d][i] = t
      BY <2>1, <2>2 DEF Slots
    <2>5. /\ \A d \in Cpu : \A i \in Slots(d) : i \in Slots(d)' /\ tasks'[d][i] = tasks[d][i]
          /\ Len(tasks[c]) + 1 \in Slots(c)' /\ tasks'[c][Len(tasks[c]) + 1] = t
      BY <2>1, <2>2, SMTT(30) DEF Slots
    <2>6. \A d \in Cpu : ~Queued(t, d)
      BY <1>0, <2>2 DEF Conserved
    <2>7. \A x \in Task, d \in Cpu : Queued(x, d)' <=> Queued(x, d) \/ (x = t /\ d = c)
      BY <2>4, <2>5 DEF Queued
    <2>8. CurrentInRange'
      BY <1>0, <2>2, <2>5 DEF CurrentInRange
    <2>9. OneSlot'
      BY <1>0, <2>4, <2>6 DEF OneSlot, Queued
    <2>10. Conserved'
      BY <1>0, <2>2, <2>7 DEF Conserved
    <2>11. RunningIsCurrent'
      BY <1>0, <2>2, <2>4 DEF RunningIsCurrent, Conserved
    <2>12. RootsPinned'
      BY <1>0, <2>2, <2>4 DEF RootsPinned, RootsHeld
    <2>13. RootsHeld'
      BY <1>0, <2>2 DEF RootsHeld
    <2>14. QED BY <2>3, <2>8, <2>9, <2>10, <2>11, <2>12, <2>13 DEF IInv
  <1>3. ASSUME NEW v \in Cpu, NEW i \in Slots(v), Steal(v, i) PROVE IInv'
    <2>1. /\ i # current[v] /\ TakeOut(v, i) /\ i # 1
          /\ flight' = flight \cup {tasks[v][i]} /\ state' = state /\ locked' = locked
          /\ state[tasks[v][i]] = "Ready"
      BY <1>3 DEF Steal
    <2>2. /\ tasks' \in [Cpu -> Seq(Task)]
          /\ current' \in [Cpu -> Nat \ {0}]
          /\ CurrentInRange' /\ OneSlot' /\ RootsPinned'
          /\ \A x \in Task, c \in Cpu :
                Queued(x, c)' <=> Queued(x, c) /\ x # tasks[v][i]
      BY <2>1, TakeOutFacts
    <2>9. \A c \in Cpu : \A j \in Slots(c)' :
             /\ tasks'[c][j] \in Task
             /\ state[tasks'[c][j]] = "Running" => j = current'[c]
      BY <2>1, TakeOutFacts
    <2>3. tasks[v][i] \in Task
      BY <1>0, SlotsFacts
    <2>4. TypeOK'
      BY <1>0, <2>1, <2>2, <2>3 DEF TypeOK
    <2>5. Conserved'
      <3> SUFFICES ASSUME NEW t \in Task
                   PROVE  /\ (\E c \in Cpu : Queued(t, c)') <=>
                                state'[t] \notin {"Unborn", "Reaped"} /\ t \notin flight'
                          /\ t \in flight' => state'[t] = "Ready"
        BY DEF Conserved
      <3>1. CASE t = tasks[v][i]
        BY <3>1, <2>1, <2>2
      <3>2. CASE t # tasks[v][i]
        <4>1. (\E c \in Cpu : Queued(t, c)') <=> (\E c \in Cpu : Queued(t, c))
          BY <3>2, <2>2
        <4>2. QED BY <4>1, <3>2, <1>0, <2>1 DEF Conserved
      <3>3. QED BY <3>1, <3>2
    <2>6. RunningIsCurrent'
      BY <2>1, <2>9 DEF RunningIsCurrent
    <2>7. RootsHeld'
      BY <1>0, <2>1 DEF RootsHeld, RootsPinned
    <2>8. QED BY <2>2, <2>4, <2>5, <2>6, <2>7 DEF IInv
  <1>4. ASSUME NEW c \in Cpu, NEW i \in Slots(c), Switch(c, i) PROVE IInv'
    <2>1. /\ i # current[c] /\ current[c] \in Slots(c) /\ i \in Nat \ {0}
          /\ Cur(c) \in Task /\ tasks[c][i] \in Task /\ tasks[c][i] # Cur(c)
      BY <1>0, <1>4, SlotsFacts DEF Switch, CurrentInRange, OneSlot, Cur
    <2>2. /\ state'[tasks[c][i]] = "Running"
          /\ state'[Cur(c)] = IF state[Cur(c)] = "Running" THEN "Ready" ELSE state[Cur(c)]
          /\ \A x \in Task \ {Cur(c), tasks[c][i]} : state'[x] = state[x]
          /\ state[tasks[c][i]] = "Ready"
          /\ tasks' = tasks /\ flight' = flight /\ locked' = locked
          /\ current' = [current EXCEPT ![c] = i]
      BY <1>0, <1>4, <2>1 DEF Switch, TypeOK
    <2>3. TypeOK'
      <3>1. state' \in [Task -> TaskState]
        BY <1>0, <1>4, <2>1, ZenonT(30) DEF Switch, TypeOK, TaskState
      <3>2. current' \in [Cpu -> Nat \ {0}]
        BY <1>0, <2>1, <2>2 DEF TypeOK
      <3>3. QED BY <1>0, <2>2, <3>1, <3>2 DEF TypeOK
    <2>4. /\ \A d \in Cpu : Slots(d)' = Slots(d)
          /\ \A x, d : Queued(x, d)' <=> Queued(x, d)
      BY <2>2 DEF Slots, Queued
    <2>5. CurrentInRange'
      BY <1>0, <2>2, <2>4 DEF CurrentInRange, TypeOK
    <2>6. OneSlot' /\ RootsPinned'
      BY <1>0, <2>2, <2>4 DEF OneSlot, RootsPinned
    <2>7. \A x \in Task : /\ state'[x] \in {"Unborn", "Reaped"} <=> state[x] \in {"Unborn", "Reaped"}
                          /\ state[x] = "Unborn" <=> state'[x] = "Unborn"
      BY <2>1, <2>2
    <2>8. tasks[c][i] \notin flight /\ Cur(c) \notin flight
      BY <1>0, <2>1, ZenonT(30) DEF Conserved, Queued, Cur
    <2>9. Conserved'
      BY <1>0, <2>1, <2>2, <2>4, <2>7, <2>8 DEF Conserved
    <2>10. RunningIsCurrent'
      <3> SUFFICES ASSUME NEW d \in Cpu, NEW j \in Slots(d), state'[tasks[d][j]] = "Running"
                   PROVE  j = current'[d]
        BY <2>2, <2>4 DEF RunningIsCurrent
      <3>1. tasks[d][j] \in Task
        BY <1>0, SlotsFacts
      <3>2. CASE tasks[d][j] = tasks[c][i]
        BY <1>0, <3>2, <2>2 DEF OneSlot, TypeOK
      <3>3. CASE tasks[d][j] = Cur(c)
        BY <3>3, <2>2
      <3>4. CASE tasks[d][j] # tasks[c][i] /\ tasks[d][j] # Cur(c)
        <4>1. state[tasks[d][j]] = "Running"
          BY <3>1, <3>4, <2>2
        <4>2. j = current[d]
          BY <1>0, <4>1 DEF RunningIsCurrent
        <4>3. d # c
          BY <4>2, <3>4 DEF Cur
        <4>4. QED BY <1>0, <4>2, <4>3, <2>2 DEF TypeOK
      <3>5. QED BY <3>2, <3>3, <3>4
    <2>11. RootsHeld'
      BY <1>0, <2>2, <2>7 DEF RootsHeld
    <2>12. QED BY <2>3, <2>5, <2>6, <2>9, <2>10, <2>11 DEF IInv
  <1>5. ASSUME NEW c \in Cpu, NEW i \in Slots(c), ReapOne(c, i) PROVE IInv'
    <2>1. /\ i # current[c] /\ TakeOut(c, i) /\ flight' = flight /\ locked' = locked
          /\ state' = [state EXCEPT ![tasks[c][i]] = "Reaped"]
          /\ state[tasks[c][i]] = "Dead"
      BY <1>5 DEF ReapOne
    <2>2. /\ tasks' \in [Cpu -> Seq(Task)]
          /\ current' \in [Cpu -> Nat \ {0}]
          /\ CurrentInRange' /\ OneSlot' /\ RootsPinned'
          /\ \A x \in Task, d \in Cpu :
                Queued(x, d)' <=> Queued(x, d) /\ x # tasks[c][i]
      BY <2>1, TakeOutFacts
    <2>9. \A d \in Cpu : \A j \in Slots(d)' :
             /\ tasks'[d][j] \in Task
             /\ state[tasks'[d][j]] = "Running" => j = current'[d]
      BY <2>1, TakeOutFacts
    <2>3. tasks[c][i] \in Task
      BY <1>0, SlotsFacts
    <2>4. TypeOK'
      BY <1>0, <2>1, <2>2, <2>3 DEF TypeOK, TaskState
    <2>5. Conserved'
      <3> SUFFICES ASSUME NEW t \in Task
                   PROVE  /\ (\E d \in Cpu : Queued(t, d)') <=>
                                state'[t] \notin {"Unborn", "Reaped"} /\ t \notin flight'
                          /\ t \in flight' => state'[t] = "Ready"
        BY DEF Conserved
      <3>1. CASE t = tasks[c][i]
        <4>1. t \notin flight
          BY <3>1, <1>0, <2>1 DEF Conserved
        <4>2. state'[t] = "Reaped"
          BY <3>1, <2>1, <1>0 DEF TypeOK
        <4>3. QED BY <3>1, <4>1, <4>2, <2>1, <2>2
      <3>2. CASE t # tasks[c][i]
        <4>1. (\E d \in Cpu : Queued(t, d)') <=> (\E d \in Cpu : Queued(t, d))
          BY <3>2, <2>2
        <4>2. state'[t] = state[t]
          BY <3>2, <2>1, <1>0 DEF TypeOK
        <4>3. QED BY <4>1, <4>2, <1>0, <2>1 DEF Conserved
      <3>3. QED BY <3>1, <3>2
    <2>6. RunningIsCurrent'
      BY <1>0, <2>1, <2>3, <2>9 DEF RunningIsCurrent, TypeOK
    <2>7. RootsHeld'
      BY <1>0, <2>1 DEF RootsHeld, TypeOK
    <2>8. QED BY <2>2, <2>4, <2>5, <2>6, <2>7 DEF IInv
  <1>6. ASSUME NEW c \in Cpu, NEW s \in {"Sleeping", "Dead"}, MarkCurrent(c, s) PROVE IInv'
    <2> DEFINE S == {Cur(c)}
    <2>1. Cur(c) \in Task /\ Queued(Cur(c), c)
      BY <1>0, SlotsFacts DEF CurrentInRange, Cur, Queued
    <2>2. state' = [t \in Task |-> IF t \in S THEN s ELSE state[t]]
      BY <1>0, <1>6, <2>1, ZenonT(30) DEF MarkCurrent, TypeOK
    <2>3. /\ S \in SUBSET Task /\ s \in {"Ready", "Sleeping", "Dead"}
          /\ \A t \in S : \E d \in Cpu : Queued(t, d)
      BY <2>1
    <2>4. UNCHANGED <<tasks, current, flight, locked>>
      BY <1>6 DEF MarkCurrent
    <2> HIDE DEF S
    <2>5. QED BY <2>2, <2>3, <2>4, MarkFacts
  <1>7. ASSUME NEW c \in Cpu, NEW W \in SUBSET Task, Wake(c, W) PROVE IInv'
    BY <1>7, MarkFacts DEF Wake
  <1>8. ASSUME NEW t \in Task, NEW c \in Cpu, Kill(t, c) PROVE IInv'
    <2> DEFINE S == {t}
    <2>1. state' = [x \in Task |-> IF x \in S THEN "Dead" ELSE state[x]]
      BY <1>0, <1>8, ZenonT(30) DEF Kill, TypeOK
    <2>2. /\ S \in SUBSET Task /\ \A x \in S : \E d \in Cpu : Queued(x, d)
          /\ UNCHANGED <<tasks, current, flight, locked>>
      BY <1>8 DEF Kill
    <2> HIDE DEF S
    <2>3. QED BY <2>1, <2>2, MarkFacts
  <1>9. ASSUME NEW c \in Cpu, ReapLock(c) \/ ReapUnlock(c) PROVE IInv'
    <2>1. UNCHANGED <<tasks, current, state, flight>>
      BY <1>9 DEF ReapLock, ReapUnlock
    <2>2. locked' \in [Cpu -> BOOLEAN]
      BY <1>0, <1>9, ZenonT(30) DEF ReapLock, ReapUnlock, TypeOK
    <2>3. TypeOK'
      BY <1>0, <2>1, <2>2 DEF TypeOK
    <2>4. QED BY <1>0, <2>1, <2>3, IdleStep
  <1>10. CASE UNCHANGED vars
    <2>1. UNCHANGED <<tasks, current, state, flight, locked>>
      BY <1>10 DEF vars
    <2>2. TypeOK'
      BY <1>0, <2>1 DEF TypeOK
    <2>3. QED BY <1>0, <2>1, <2>2, IdleStep
  <1>11. QED
    BY <1>1, <1>2, <1>3, <1>4, <1>5, <1>6, <1>7, <1>8, <1>9, <1>10 DEF Next

\* The inductive invariant holds in every reachable state.
THEOREM Inductive == Spec => []IInv
  BY InitIInv, NextIInv, PTL DEF Spec

\* Type correctness of the schedulers.
THEOREM TypeCorrect == Spec => []TypeOK
  <1>1. IInv => TypeOK
    BY DEF IInv
  <1>2. QED BY Inductive, <1>1, PTL

\* No spawn, steal, kill, wake-up or reap, in any order on any number of CPUs,
\* loses or duplicates a task or puts it in two slots.
THEOREM TasksConserved == Spec => [](Conserved /\ OneSlot)
  <1>1. IInv => Conserved /\ OneSlot
    BY DEF IInv
  <1>2. QED BY Inductive, <1>1, PTL

\* tasks[current] is always defined, and only the task there may be Running.
THEOREM CurrentSound == Spec => [](CurrentInRange /\ RunningIsCurrent)
  <1>1. IInv => CurrentInRange /\ RunningIsCurrent
    BY DEF IInv
  <1>2. QED BY Inductive, <1>1, PTL

\* Root tasks never leave slot 0 of their CPU.
THEOREM RootsStay == Spec => []RootsPinned
  <1>1. IInv => RootsPinned
    BY DEF IInv
  <1>2. QED BY Inductive, <1>1, PTL

-----------------------------------------------------------------------------
\* What one step may do to the task a CPU is on, to a queued user task and to
\* the set of reaped tasks.
StepKeeps ==
    /\ \A c \in Cpu :
         Cur(c)' # Cur(c) =>
            /\ state[Cur(c)'] = "Ready" /\ state'[Cur(c)'] = "Running"
            /\ tasks' = tasks
    /\ \A t \in User, c \in Cpu :
         Queued(t, c) => Queued(t, c)' \/ state'[t] = "Reaped"
    /\ \A t \in Task :
         state[t] # "Reaped" /\ state'[t] = "Reaped" =>
            state[t] = "Dead" /\ \A c \in Cpu : t # Cur(c)

\* Every step of every critical section keeps them.
LEMMA NextKeeps == IInv /\ [Next]_vars => StepKeeps
  <1> SUFFICES ASSUME IInv, [Next]_vars PROVE StepKeeps
    OBVIOUS
  <1> USE RunQueuesAssumption
  <1>0. TypeOK /\ CurrentInRange /\ OneSlot /\ Conserved
    BY DEF IInv
  <1>1. ASSUME UNCHANGED <<tasks, current>>,
               \A t \in Task : state'[t] = "Reaped" => state[t] = "Reaped"
        PROVE  StepKeeps
    BY <1>1 DEF StepKeeps, Cur, Queued, Slots
  <1>2. ASSUME NEW t \in Task, Create(t) PROVE StepKeeps
    BY <1>0, <1>1, <1>2 DEF Create, TypeOK
  <1>3. ASSUME NEW t \in Task, NEW c \in Cpu, Insert(t, c) PROVE StepKeeps
    <2>1. \A d \in Cpu : \A i \in Slots(d) : i \in Slots(d)' /\ tasks'[d][i] = tasks[d][i]
      BY <1>0, <1>3, AppendFacts DEF Insert, TypeOK, Slots
    <2>2. UNCHANGED <<current, state>>
      BY <1>3 DEF Insert
    <2>3. \A d \in Cpu : Cur(d)' = Cur(d)
      BY <1>0, <2>1, <2>2 DEF Cur, CurrentInRange
    <2>4. \A x \in Task, d \in Cpu : Queued(x, d) => Queued(x, d)'
      BY <2>1 DEF Queued
    <2>5. QED BY <2>2, <2>3, <2>4 DEF StepKeeps
  <1>4. ASSUME NEW v \in Cpu, NEW i \in Slots(v), Steal(v, i) PROVE StepKeeps
    <2>1. i # current[v] /\ TakeOut(v, i) /\ state' = state /\ tasks[v][i] \notin User
      BY <1>4 DEF Steal
    <2>2. /\ \A c \in Cpu : Cur(c)' = Cur(c)
          /\ \A x \in Task, c \in Cpu :
                Queued(x, c)' <=> Queued(x, c) /\ x # tasks[v][i]
      BY <2>1, TakeOutFacts
    <2>3. QED BY <2>1, <2>2 DEF StepKeeps
  <1>5. ASSUME NEW c \in Cpu, NEW i \in Slots(c), Switch(c, i) PROVE StepKeeps
    <2>1. /\ Cur(c) \in Task /\ tasks[c][i] \in Task /\ tasks[c][i] # Cur(c)
          /\ tasks' = tasks /\ current' = [current EXCEPT ![c] = i]
          /\ state[tasks[c][i]] = "Ready"
      BY <1>0, <1>5, SlotsFacts DEF Switch, CurrentInRange, OneSlot, Cur
    <2>2. /\ state'[tasks[c][i]] = "Running"
          /\ \A x \in Task : state'[x] = "Reaped" => state[x] = "Reaped"
      BY <1>0, <1>5, <2>1 DEF Switch, TypeOK
    <2>3. \A d \in Cpu : Cur(d)' = IF d = c THEN tasks[c][i] ELSE Cur(d)
      BY <1>0, <2>1 DEF Cur, TypeOK
    <2>4. \A x, d : Queued(x, d)' <=> Queued(x, d)
      BY <2>1 DEF Queued, Slots
    <2>5. QED BY <2>1, <2>2, <2>3, <2>4 DEF StepKeeps
  <1>6. ASSUME NEW c \in Cpu, NEW i \in Slots(c), ReapOne(c, i) PROVE StepKeeps
    <2>1. /\ i # current[c] /\ TakeOut(c, i) /\ state[tasks[c][i]] = "Dead"
          /\ state' = [state EXCEPT ![tasks[c][i]] = "Reaped"]
      BY <1>6 DEF ReapOne
    <2>2. /\ \A d \in Cpu : Cur(d)' = Cur(d)
          /\ \A x \in Task, d \in Cpu :
                Queued(x, d)' <=> Queued(x, d) /\ x # tasks[c][i]
      BY <2>1, TakeOutFacts
    <2>3. tasks[c][i] \in Task /\ \A d \in Cpu : tasks[c][i] # Cur(d)
      BY <1>0, <2>1, SlotsFacts DEF OneSlot, CurrentInRange, Cur
    <2>4. /\ state'[tasks[c][i]] = "Reaped"
          /\ \A x \in Task : x # tasks[c][i] => state'[x] = state[x]
      BY <1>0, <2>1, <2>3 DEF TypeOK
    <2>5. QED BY <2>1, <2>2, <2>3, <2>4 DEF StepKeeps
  <1>7. ASSUME NEW c \in Cpu, NEW s \in {"Sleeping", "Dead"}, MarkCurrent(c, s) PROVE StepKeeps
    BY <1>0, <1>1, <1>7 DEF MarkCurrent, TypeOK
  <1>8. ASSUME NEW c \in Cpu, NEW W \in SUBSET Task, Wake(c, W) PROVE StepKeeps
    BY <1>1, <1>8 DEF Wake
  <1>9. ASSUME NEW t \in Task, NEW c \in Cpu, Kill(t, c) PROVE StepKeeps
    BY <1>0, <1>1, <1>9 DEF Kill, TypeOK
  <1>10. ASSUME NEW c \in Cpu, ReapLock(c) \/ ReapUnlock(c) PROVE StepKeeps
    BY <1>1, <1>10 DEF ReapLock, ReapUnlock
  <1>11. CASE UNCHANGED vars
    BY <1>1, <1>11 DEF vars
  <1>12. QED
    BY <1>2, <1>3, <1>4, <1>5, <1>6, <1>7, <1>8, <1>9, <1>10, <1>11 DEF Next

\* No step but a switch of that CPU moves a CPU to another task, however many
\* CPUs steal from, reap in and insert into its queue.
THEOREM CurrentNeverShifts == Spec => CurrentKept
  <1>1. IInv /\ [Next]_vars =>
          [\A c \in Cpu :
             Cur(c)' # Cur(c) =>
                /\ state[Cur(c)'] = "Ready" /\ state'[Cur(c)'] = "Running"
                /\ tasks' = tasks]_vars
    BY NextKeeps DEF StepKeeps
  <1>2. QED BY Inductive, <1>1, PTL DEF Spec, CurrentKept

\* User tasks are never migrated between CPUs.
THEOREM UsersNeverMigrate == Spec => UsersStay
  <1>1. IInv /\ [Next]_vars =>
          [\A t \in User, c \in Cpu :
             Queued(t, c) => Queued(t, c)' \/ state'[t] = "Reaped"]_vars
    BY NextKeeps DEF StepKeeps
  <1>2. QED BY Inductive, <1>1, PTL DEF Spec, UsersStay

\* Only dead tasks that are current nowhere are ever freed.
THEOREM ReapSound == Spec => ReapOnlyIdleDead
  <1>1. IInv /\ [Next]_vars =>
          [\A t \in Task :
             state[t] # "Reaped" /\ state'[t] = "Reaped" =>
                state[t] = "Dead" /\ \A c \in Cpu : t # Cur(c)]_vars
    BY NextKeeps DEF StepKeeps
  <1>2. QED BY Inductive, <1>1, PTL DEF Spec, ReapOnlyIdleDead
=============================================================================
