-------------------------------- MODULE Serial --------------------------------
(***************************************************************************)
(* Serial output (src/drivers/serial.rs): every CPU prints into its own    *)
(* ring, the boot CPU drains all rings to the UART from its main loop and  *)
(* from its timer interrupt; the panic handler of src/main.rs.             *)
(*                                                                         *)
(* A context is a kernel task that may move between CPUs while interrupts  *)
(* are enabled, the shell (pinned to CPU 0) or the timer interrupt of CPU  *)
(* 0.  A message is MsgLen bytes; a byte is known by its printer, message  *)
(* number and place, so that loss, repetition and mixing show.  Message 0  *)
(* of a context is what it prints when it panics.                          *)
(***************************************************************************)
EXTENDS Integers, Sequences, FiniteSets

CONSTANTS
  N,         \* CPUs online
  Worker,    \* migrating kernel tasks
  Shell,     \* the shell, root task of CPU 0
  Isr,       \* the timer interrupt of CPU 0
  NoCtx,     \* a CPU in its idle loop
  Size,      \* SERIAL_BUF_SIZE
  MsgLen,    \* bytes per message
  MaxMsgs,   \* messages each printer prints (bound): a function
  CanPanic,  \* the contexts that may panic
  Marker,    \* the notice "[DROPPED]"
  Silence    \* nothing: the UART before the first byte, a slot never written

Cpu == 0 .. N - 1
Ctx == Worker \union {Shell, Isr}
Printer == Worker \union {Shell}
Byte == UNION {[by : {x}, msg : 0 .. MaxMsgs[x], i : 1 .. MsgLen] : x \in Printer}

ASSUME SerialAssumption ==
  /\ N \in Nat \ {0} /\ Size \in Nat \ {0} /\ MsgLen \in Nat \ {0}
  /\ MaxMsgs \in [Printer -> Nat]
  /\ Shell \notin Worker /\ Isr \notin Printer /\ NoCtx \notin Ctx
  /\ Silence \notin Byte

VARIABLES
  head, tail, data, dropped, ringLock,  \* SERIAL_BUFFERS
  uartLock,   \* the flag of SERIAL1
  ready,      \* PERCPU_SERIAL_READY
  run,        \* what each CPU executes
  inIsr,      \* CPU 0 is in its timer interrupt
  pc,         \* where each context is
  reg,        \* its locals: buffer index, message and byte reached, byte read
  panicking,  \* PANICKING
  wire,       \* the last thing the UART sent
  sent,       \* the bytes sent from each ring
  direct,     \* the bytes sent without a ring
  lost        \* the bytes each ring refused

rings == <<head, tail, data, dropped, ringLock>>
ghosts == <<sent, direct, lost>>
vars == <<rings, uartLock, ready, run, inIsr, pc, reg, panicking, wire, ghosts>>

Succ(k) == (k + 1) % Size

\* The contents of ring c, oldest byte first.
Queue(c) ==
  [j \in 1 .. (tail[c] - head[c] + Size) % Size |-> data[c][(head[c] + j - 1) % Size]]

TheByte(x) == [by |-> x, msg |-> reg[x].msg, i |-> reg[x].i]

\* Variant: try_lock leaves interrupts enabled.
MaskedPrinting(x) ==
  x # NoCtx /\ (pc[x] \in {"spin", "check", "write", "store", "unlock", "d_spin", "d_send"} \/ reg[x].panic)

\* RFLAGS.IF is clear: holding or waiting for a Spinlock, or panicking.
Masked(x) ==
  x # NoCtx /\ (pc[x] \notin {"idle", "captured", "d_call", "f_check", "f_try"} \/ reg[x].panic)

\* x is executing on CPU c.
Executes(x, c) ==
  IF x = Isr THEN c = 0 /\ inIsr ELSE run[c] = x /\ ~ (c = 0 /\ inIsr)
At(x, l) == pc[x] = l /\ \E c \in Cpu : Executes(x, c)
Where(x) == CHOOSE c \in Cpu : Executes(x, c)

Goto(x, l) == pc' = [pc EXCEPT ![x] = l]

-----------------------------------------------------------------------------
Init ==
  /\ head = [c \in Cpu |-> 0]
  /\ tail = [c \in Cpu |-> 0]
  /\ data = [c \in Cpu |-> [k \in 0 .. Size - 1 |-> Silence]]
  /\ dropped = [c \in Cpu |-> 0]
  /\ ringLock = [c \in Cpu |-> FALSE]
  /\ uartLock = FALSE
  /\ ready = FALSE
  /\ run = [c \in Cpu |-> IF c = 0 THEN Shell ELSE NoCtx]
  /\ inIsr = FALSE
  /\ pc = [x \in Ctx |-> "idle"]
  /\ reg = [x \in Ctx |-> [cpu |-> 0, msg |-> 1, i |-> 1, byte |-> Silence, panic |-> FALSE]]
  /\ panicking = FALSE
  /\ wire = Silence
  /\ sent = [c \in Cpu |-> {}]
  /\ direct = {}
  /\ lost = [c \in Cpu |-> {}]

\* The scheduler, seen from here: any CPU with interrupts enabled may put its
\* context aside for another, and a worker put aside may go on elsewhere.
Resched(c) ==
  /\ ~ Masked(run[c]) /\ ~ (c = 0 /\ inIsr)
  /\ \E x \in (Worker \union {NoCtx} \union (IF c = 0 THEN {Shell} ELSE {})) :
       /\ x # run[c] /\ \A d \in Cpu : x # NoCtx => run[d] # x
       /\ run' = [run EXCEPT ![c] = x]
  /\ UNCHANGED <<rings, uartLock, ready, inIsr, pc, reg, panicking, wire, ghosts>>

\* enable_percpu_buffering, called by the boot CPU after the APs are released.
Enable ==
  /\ At(Shell, "idle") /\ ~ ready
  /\ ready' = TRUE
  /\ UNCHANGED <<rings, uartLock, run, inIsr, pc, reg, panicking, wire, ghosts>>

-----------------------------------------------------------------------------
\* _print: which way, and the number of the CPU.
PrintCall(x) ==
  /\ At(x, "idle") /\ reg[x].msg \in 1 .. MaxMsgs[x]
  /\ Goto(x, IF ready THEN "captured" ELSE "d_call")
  /\ reg' = [reg EXCEPT ![x].cpu = Where(x)]
  /\ UNCHANGED <<rings, uartLock, ready, run, inIsr, panicking, wire, ghosts>>

\* Variant: the ring is written without its lock.
NoTakeLock(x) ==
  /\ At(x, "captured")
  /\ Goto(x, "check")
  /\ UNCHANGED <<rings, uartLock, ready, run, inIsr, reg, panicking, wire, ghosts>>

\* buf.lock.lock(): interrupts go off first, then the flag is tried.
TakeLock(x) ==
  LET c == reg[x].cpu IN
  /\ At(x, "captured") \/ (At(x, "spin") /\ ~ ringLock[c])
  /\ IF ringLock[c] THEN Goto(x, "spin") /\ UNCHANGED ringLock
     ELSE Goto(x, "check") /\ ringLock' = [ringLock EXCEPT ![c] = TRUE]
  /\ UNCHANGED <<head, tail, data, dropped, uartLock, ready, run, inIsr, reg, panicking, wire, ghosts>>

\* On to the next byte of the message, or out of write_fmt.
NextByte(x) ==
  IF reg[x].i = MsgLen THEN Goto(x, "unlock") /\ UNCHANGED reg
  ELSE Goto(x, "check") /\ reg' = [reg EXCEPT ![x].i = @ + 1]

\* push_byte finds the ring full: one slot always stays empty.
Full(c) == Succ(tail[c]) = head[c]

PushCheck(x) ==
  LET c == reg[x].cpu IN
  /\ At(x, "check")
  /\ IF Full(c)
     THEN /\ dropped' = [dropped EXCEPT ![c] = @ + 1]
          /\ lost' = [lost EXCEPT ![c] = @ \union {TheByte(x)}]
          /\ NextByte(x)
     ELSE Goto(x, "write") /\ UNCHANGED <<dropped, lost, reg>>
  /\ UNCHANGED <<head, tail, data, ringLock, uartLock, ready, run, inIsr, panicking, wire, sent, direct>>

PushWrite(x) ==
  /\ At(x, "write")
  /\ data' = [data EXCEPT ![reg[x].cpu][tail[reg[x].cpu]] = TheByte(x)]
  /\ Goto(x, "store")
  /\ UNCHANGED <<head, tail, dropped, ringLock, uartLock, ready, run, inIsr, reg, panicking, wire, ghosts>>

PushStore(x) ==
  /\ At(x, "store")
  /\ tail' = [tail EXCEPT ![reg[x].cpu] = Succ(@)]
  /\ NextByte(x)
  /\ UNCHANGED <<head, data, dropped, ringLock, uartLock, ready, run, inIsr, panicking, wire, ghosts>>

\* The guard is dropped; a panicking context halts with interrupts disabled.
Unlock(x) ==
  /\ At(x, "unlock")
  /\ ringLock' = [ringLock EXCEPT ![reg[x].cpu] = FALSE]
  /\ Goto(x, IF reg[x].panic THEN "halted" ELSE "idle")
  /\ reg' = [reg EXCEPT ![x].cpu = 0, ![x].i = 1,
                            ![x].msg = IF reg[x].panic THEN @ ELSE @ + 1]
  /\ UNCHANGED <<head, tail, data, dropped, uartLock, ready, run, inIsr, panicking, wire, ghosts>>

\* Before the rings are enabled: SERIAL1.lock() and straight to the UART.
DirectLock(x) ==
  /\ At(x, "d_call") \/ (At(x, "d_spin") /\ ~ uartLock)
  /\ IF uartLock THEN Goto(x, "d_spin") /\ UNCHANGED uartLock
     ELSE Goto(x, "d_send") /\ uartLock' = TRUE
  /\ UNCHANGED <<rings, ready, run, inIsr, reg, panicking, wire, ghosts>>

DirectSend(x) ==
  /\ At(x, "d_send")
  /\ wire' = TheByte(x)
  /\ direct' = direct \union {TheByte(x)}
  /\ IF reg[x].i = MsgLen
     THEN /\ uartLock' = FALSE
          /\ Goto(x, IF reg[x].panic THEN "halted" ELSE "idle")
          /\ reg' = [reg EXCEPT ![x].cpu = 0, ![x].i = 1,
                            ![x].msg = IF reg[x].panic THEN @ ELSE @ + 1]
     ELSE reg' = [reg EXCEPT ![x].i = @ + 1] /\ UNCHANGED <<uartLock, pc>>
  /\ UNCHANGED <<rings, ready, run, inIsr, panicking, sent, lost>>

-----------------------------------------------------------------------------
\* The timer interrupt of CPU 0 reaches serial_flush_all.
IsrEnter ==
  /\ ~ inIsr /\ ~ Masked(run[0])
  /\ inIsr' = TRUE
  /\ Goto(Isr, "f_check")
  /\ UNCHANGED <<rings, uartLock, ready, run, reg, panicking, wire, ghosts>>

\* The main loop calls serial_flush_all.
FlushCall ==
  /\ At(Shell, "idle")
  /\ Goto(Shell, "f_check")
  /\ UNCHANGED <<rings, uartLock, ready, run, inIsr, reg, panicking, wire, ghosts>>

\* serial_flush_all returns.
FlushReturn(f) ==
  /\ Goto(f, "idle")
  /\ inIsr' = (inIsr /\ f # Isr)

\* Nothing to do before buffering is enabled or while all rings are empty.
FlushCheck(f) ==
  /\ At(f, "f_check")
  /\ IF ready /\ \E c \in Cpu : head[c] # tail[c]
     THEN Goto(f, "f_try") /\ UNCHANGED inIsr
     ELSE FlushReturn(f)
  /\ UNCHANGED <<rings, uartLock, ready, run, reg, panicking, wire, ghosts>>

\* SERIAL1.try_lock(): busy means skip this time.
FlushTry(f) ==
  /\ At(f, "f_try")
  /\ IF uartLock THEN FlushReturn(f) /\ UNCHANGED <<uartLock, reg>>
     ELSE /\ uartLock' = TRUE
          /\ Goto(f, "f_drop")
          /\ reg' = [reg EXCEPT ![f].cpu = 0]
          /\ UNCHANGED inIsr
  /\ UNCHANGED <<rings, ready, run, panicking, wire, ghosts>>

\* take_dropped, and the notice.
FlushDropped(f) ==
  LET c == reg[f].cpu IN
  /\ At(f, "f_drop")
  /\ dropped' = [dropped EXCEPT ![c] = 0]
  /\ wire' = IF dropped[c] > 0 THEN Marker ELSE wire
  /\ Goto(f, "f_load")
  /\ UNCHANGED <<head, tail, data, ringLock, uartLock, ready, run, inIsr, reg, panicking, ghosts>>

\* pop_byte compares the indices; an empty ring ends its turn.
FlushLoad(f) ==
  LET c == reg[f].cpu IN
  /\ At(f, "f_load")
  /\ IF head[c] # tail[c] THEN Goto(f, "f_read") /\ UNCHANGED reg
     ELSE IF c + 1 < N THEN Goto(f, "f_drop") /\ reg' = [reg EXCEPT ![f].cpu = c + 1]
     ELSE Goto(f, "f_done") /\ reg' = [reg EXCEPT ![f].cpu = 0]
  /\ UNCHANGED <<rings, uartLock, ready, run, inIsr, panicking, wire, ghosts>>

FlushRead(f) ==
  /\ At(f, "f_read")
  /\ reg' = [reg EXCEPT ![f].byte = data[reg[f].cpu][head[reg[f].cpu]]]
  /\ Goto(f, "f_store")
  /\ UNCHANGED <<rings, uartLock, ready, run, inIsr, panicking, wire, ghosts>>

\* Variant: everything in the ring is freed at once.
FlushSkips(f) ==
  LET c == reg[f].cpu IN
  /\ At(f, "f_store")
  /\ head' = [head EXCEPT ![c] = tail[c]]
  /\ wire' = reg[f].byte
  /\ sent' = [sent EXCEPT ![c] = @ \union {reg[f].byte}]
  /\ Goto(f, "f_load")
  /\ UNCHANGED <<tail, data, dropped, ringLock, uartLock, ready, run, inIsr, reg, panicking, direct, lost>>

\* pop_byte frees the slot, and the byte goes to the UART.
FlushStore(f) ==
  LET c == reg[f].cpu IN
  /\ At(f, "f_store")
  /\ head' = [head EXCEPT ![c] = Succ(@)]
  /\ wire' = reg[f].byte
  /\ sent' = [sent EXCEPT ![c] = @ \union {reg[f].byte}]
  /\ Goto(f, "f_load")
  /\ reg' = [reg EXCEPT ![f].byte = Silence]
  /\ UNCHANGED <<tail, data, dropped, ringLock, uartLock, ready, run, inIsr, panicking, direct, lost>>

\* Variant: the lock is left taken.
FlushKeepsLock(f) ==
  /\ At(f, "f_done")
  /\ FlushReturn(f)
  /\ UNCHANGED <<rings, uartLock, ready, run, reg, panicking, wire, ghosts>>

FlushDone(f) ==
  /\ At(f, "f_done")
  /\ uartLock' = FALSE
  /\ FlushReturn(f)
  /\ UNCHANGED <<rings, ready, run, reg, panicking, wire, ghosts>>

-----------------------------------------------------------------------------
\* The panic handler: interrupts off, a second panic halts at once, the locks
\* of the devices are opened by force, then the message is printed.
Panic(x) ==
  /\ x \in CanPanic /\ ~ reg[x].panic
  /\ \E l \in {"idle", "check", "d_send"} : At(x, l)
  /\ panicking' = TRUE
  /\ IF panicking THEN Goto(x, "halted") /\ UNCHANGED uartLock
     ELSE Goto(x, IF ready THEN "captured" ELSE "d_call") /\ uartLock' = FALSE
  /\ reg' = [reg EXCEPT ![x] = [@ EXCEPT !.panic = TRUE, !.msg = 0, !.i = 1, !.cpu = Where(x)]]
  /\ UNCHANGED <<rings, ready, run, inIsr, wire, ghosts>>

Printing(x) ==
  \/ PrintCall(x) \/ TakeLock(x) \/ PushCheck(x) \/ PushWrite(x) \/ PushStore(x)
  \/ Unlock(x) \/ DirectLock(x) \/ DirectSend(x)

Flush(f) ==
  \/ FlushCheck(f) \/ FlushTry(f) \/ FlushDropped(f) \/ FlushLoad(f) \/ FlushRead(f)
  \/ FlushStore(f) \/ FlushDone(f)

Next ==
  \/ Enable \/ IsrEnter \/ FlushCall
  \/ \E c \in Cpu : Resched(c)
  \/ \E x \in Printer : Printing(x) \/ Panic(x)
  \/ \E f \in {Shell, Isr} : Flush(f)

Spec == Init /\ [][Next]_vars

\* What is started goes on, a worker gets its turn (the scheduler's business),
\* and the timer interrupt of CPU 0 keeps coming when it is not masked.
Fairness ==
  /\ SF_vars(IsrEnter)
  /\ \A f \in {Shell, Isr} : WF_vars(Flush(f))
  /\ SF_vars(Flush(Isr))
  /\ \A x \in Printer : SF_vars(Printing(x))

FairSpec == Spec /\ Fairness

-----------------------------------------------------------------------------
TypeOK ==
  /\ head \in [Cpu -> 0 .. Size - 1] /\ tail \in [Cpu -> 0 .. Size - 1]
  /\ \A c \in Cpu, k \in 0 .. Size - 1 : data[c][k] \in Byte \union {Silence}
  /\ \A c \in Cpu : dropped[c] \in 0 .. Cardinality(Byte)
  /\ ringLock \in [Cpu -> BOOLEAN] /\ {uartLock, ready, inIsr, panicking} \subseteq BOOLEAN
  /\ run \in [Cpu -> Printer \union {NoCtx}]
  /\ wire \in Byte \union {Marker, Silence}

\* Every ring is a lossy queue of Size - 1 bytes, whoever prints into it and
\* whichever context drains it, although the two sides share no lock.
Fifo == INSTANCE LossyFifo WITH
  Ring <- Cpu, Capacity <- Size - 1, queue <- [c \in Cpu |-> Queue(c)]
RingsAreFifos == Fifo!Spec

\* Of the two places that drain, never both are between the lock of SERIAL1 and
\* its release ("Only the BSP flusher reads from `head`", serial.rs:146), also
\* when a fault on another CPU has opened the lock by force.
Draining(f) == pc[f] \in {"f_drop", "f_load", "f_read", "f_store", "f_done"}
OneFlusher == ~ (Draining(Shell) /\ Draining(Isr))

\* No byte vanishes or appears twice: what a context has printed so far is
\* in a ring, sent, or refused by a full ring, and in one of these only (until a
\* panic abandons the message it interrupts).
Printed(x) ==
  {b \in Byte : b.by = x /\ \/ b.msg \in 1 .. reg[x].msg - 1
                            \/ /\ b.msg = reg[x].msg
                               /\ b.i < reg[x].i + (IF pc[x] = "unlock" THEN 1 ELSE 0)}
Queued(c) == {Queue(c)[j] : j \in DOMAIN Queue(c)}
Accounted ==
  ~ panicking =>
    /\ UNION {Printed(x) : x \in Printer} =
         direct \union UNION {Queued(c) \union sent[c] \union lost[c] : c \in Cpu}
    /\ \A c \in Cpu : Queued(c) \intersect (sent[c] \union lost[c]) = {}

\* "Only the owning CPU writes to `tail` and `data[tail]`" (serial.rs:145).
OwnerWrites ==
  \A x \in Printer : pc[x] \in {"write", "store"} => \A c \in Cpu : run[c] = x => c = reg[x].cpu

\* INV-S1: a complete message is not mixed byte by byte with another one.
MessagesWhole ==
  [][wire' # wire /\ wire \in Byte /\ wire.i < MsgLen =>
       wire' = [wire EXCEPT !.i = @ + 1]]_vars

\* INV-S2: the panic path bypasses the rings and writes to the port at once.
PanicIsWritten ==
  [][\A x \in Printer : pc'[x] = "halted" /\ pc[x] # "halted" /\ pc[x] # "idle" /\ reg[x].panic =>
       \E i \in 1 .. MsgLen : [by |-> x, msg |-> 0, i |-> i] \in direct']_vars

\* The panic handler opens the locks of the output devices "in case panic
\* occurred inside print!" (main.rs:302), so that it is not blocked itself.
PanicNotBlocked ==
  \A x \in Printer : reg[x].panic /\ pc[x] = "spin" =>
    \E y \in Ctx \ {x} : pc[y] \in {"check", "write", "store", "unlock"} /\ reg[y].cpu = reg[x].cpu

\* Everything accepted is sent in the end: printing comes to an end (MaxMsgs)
\* and the timer interrupt goes on draining, unless a panic has halted a CPU.
Drained == <>[](ready /\ ~ panicking => \A c \in Cpu : head[c] = tail[c])
=============================================================================
