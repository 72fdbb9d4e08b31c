---------------------------- MODULE SerialProofs ----------------------------
(***************************************************************************)
(* Theorems about module Serial, for any number of CPUs, of migrating      *)
(* tasks and of messages and any size of the rings: the main loop and the  *)
(* timer interrupt never drain at the same time, every ring is a bounded   *)
(* queue although producer and consumer share no lock, and no byte is lost *)
(* without being counted.                                                  *)
(***************************************************************************)
EXTENDS Serial, TLAPS

Labels == {"idle", "captured", "spin", "check", "write", "store", "unlock", "d_call", "d_spin",
           "d_send", "f_check", "f_try", "f_drop", "f_load", "f_read", "f_store", "f_done", "halted"}
Regs == [cpu : Cpu, msg : Nat, i : 1 .. MsgLen, byte : Byte \union {Silence}, panic : BOOLEAN]

Types ==
  /\ head \in [Cpu -> 0 .. Size - 1] /\ tail \in [Cpu -> 0 .. Size - 1]
  /\ data \in [Cpu -> [0 .. Size - 1 -> Byte \union {Silence}]]
  /\ dropped \in [Cpu -> Nat] /\ ringLock \in [Cpu -> BOOLEAN]
  /\ run \in [Cpu -> Printer \union {NoCtx}]
  /\ pc \in [Ctx -> Labels] /\ reg \in [Ctx -> Regs]
  /\ sent \in [Cpu -> SUBSET (Byte \union {Silence})] /\ lost \in [Cpu -> SUBSET Byte]
  /\ inIsr \in BOOLEAN /\ panicking \in BOOLEAN

\* Where contexts may be: a context is on one CPU, the shell on CPU 0; the timer
\* interrupt came while interrupts were enabled, and the shell drains with
\* interrupts disabled, so without leaving its CPU.
Placed ==
  /\ \A c, d \in Cpu : run[c] = run[d] /\ run[c] # NoCtx => c = d
  /\ \A c \in Cpu : run[c] = Shell => c = 0
  /\ inIsr => ~ Masked(run[0])
  /\ pc[Isr] # "idle" <=> inIsr
  /\ Draining(Shell) => run[0] = Shell

\* A context prints a message it has.
Msgs == \A x \in Printer :
  pc[x] \in {"captured", "spin", "check", "write", "store", "unlock", "d_call", "d_spin", "d_send"} =>
    reg[x].msg \in 0 .. MaxMsgs[x]

-----------------------------------------------------------------------------
\* CPU 0 exists, the shell and the interrupt are contexts, and a context is no
\* other thing.
LEMMA Constants ==
  /\ 0 \in Cpu /\ Shell \in Printer /\ Printer \subseteq Ctx
  /\ Isr \in Ctx /\ Isr # Shell /\ \A x \in Printer : x # Isr /\ x # NoCtx
  BY SerialAssumption DEF Cpu, Ctx, Printer

\* A context that executes does so on one CPU, which is not in the interrupt
\* unless the context is the interrupt.
LEMMA OnCpu ==
  ASSUME Types, Placed, NEW x \in Ctx, NEW l, At(x, l)
  PROVE  /\ pc[x] = l /\ Where(x) \in Cpu
         /\ x = Isr => inIsr
         /\ x # Isr /\ inIsr => run[0] # x
         /\ x = Shell => run[0] = Shell /\ ~ inIsr
  <1>1. PICK c \in Cpu : Executes(x, c)
    BY Zenon DEF At
  <1>2. Where(x) \in Cpu
    BY <1>1, Zenon DEF Where
  <1>3. x # Isr => run[c] = x /\ ~ (c = 0 /\ inIsr)
    BY <1>1, Zenon DEF Executes
  <1>4. x # Isr => x \in Printer /\ x # NoCtx
    BY Constants, Zenon DEF Ctx, Printer
  <1>5. x # Isr /\ inIsr => run[0] # x
    BY <1>3, <1>4, Constants, Zenon DEF Placed
  <1>6. x = Shell => run[0] = Shell /\ ~ inIsr
    BY <1>3, Constants, Zenon DEF Placed
  <1>7. QED BY <1>1, <1>2, <1>5, <1>6, Zenon DEF At, Executes

\* A byte of the message a context is printing.
LEMMA ByteOf ==
  ASSUME Types, Msgs, NEW x \in Printer,
         pc[x] \in {"captured", "spin", "check", "write", "store", "unlock", "d_call", "d_spin", "d_send"}
  PROVE  TheByte(x) \in Byte
  <1>1. reg[x].i \in 1 .. MsgLen /\ reg[x].msg \in 0 .. MaxMsgs[x]
    BY Constants, Zenon DEF Types, Regs, Msgs
  <1>2. TheByte(x) \in [by : {x}, msg : 0 .. MaxMsgs[x], i : 1 .. MsgLen]
    BY <1>1, Zenon DEF TheByte
  <1>3. QED BY <1>2, Zenon DEF Byte

-----------------------------------------------------------------------------
\* At boot nothing is printed and every CPU but the first is idle.
LEMMA InitPlaced == Init => Types /\ Placed /\ Msgs
  <1> SUFFICES ASSUME Init PROVE Types /\ Placed /\ Msgs
    BY Zenon
  <1> USE SerialAssumption, Constants DEF Init
  <1>1. reg \in [Ctx -> Regs]
    BY DEF Regs
  <1>2. run \in [Cpu -> Printer \union {NoCtx}]
    BY Zenon
  <1>3. data \in [Cpu -> [0 .. Size - 1 -> Byte \union {Silence}]]
    BY Zenon
  <1>4. Types
    <2>1. head \in [Cpu -> 0 .. Size - 1] /\ tail \in [Cpu -> 0 .. Size - 1]
      OBVIOUS
    <2>2. dropped \in [Cpu -> Nat] /\ ringLock \in [Cpu -> BOOLEAN] /\ pc \in [Ctx -> Labels]
      BY Zenon DEF Labels
    <2>3. /\ sent \in [Cpu -> SUBSET (Byte \union {Silence})] /\ lost \in [Cpu -> SUBSET Byte]
          /\ inIsr \in BOOLEAN /\ panicking \in BOOLEAN
      BY Zenon
    <2> HIDE SerialAssumption, Constants DEF Init
    <2>4. QED BY <1>1, <1>2, <1>3, <2>1, <2>2, <2>3, Zenon DEF Types
  <1>5. Placed
    BY Zenon DEF Placed, Draining, Cpu
  <1>6. Msgs
    BY Zenon DEF Msgs
  <1>7. QED BY <1>4, <1>5, <1>6, Zenon

\* A context's locals when it goes on to the next message or the next byte, and when
\* it panics.
LEMMA RegsNext ==
  ASSUME NEW g \in [Ctx -> Regs], NEW x \in Ctx, NEW c \in Cpu, NEW i \in 1 .. MsgLen, NEW m \in Nat
  PROVE  [g EXCEPT ![x].cpu = c, ![x].i = i, ![x].msg = m] \in [Ctx -> Regs]
  BY ZenonT(30) DEF Regs

LEMMA RegsByte ==
  ASSUME NEW g \in [Ctx -> Regs], NEW x \in Ctx, NEW i \in 1 .. MsgLen
  PROVE  [g EXCEPT ![x].i = i] \in [Ctx -> Regs]
  BY Zenon DEF Regs

LEMMA RegsSet ==
  ASSUME NEW r \in Regs, NEW c \in Cpu, NEW m \in Nat, NEW i \in 1 .. MsgLen
  PROVE  [r EXCEPT !.panic = TRUE, !.msg = m, !.i = i, !.cpu = c] \in Regs
  BY Zenon DEF Regs

\* The steps of _print and of the panic handler keep the types.
LEMMA PrintTypes ==
  ASSUME Types, Placed, Msgs, NEW x \in Printer, Printing(x) \/ Panic(x)
  PROVE  Types'
  <1> USE Constants, SerialAssumption
  <1>1. x \in Ctx /\ pc \in [Ctx -> Labels] /\ reg \in [Ctx -> Regs] /\ reg[x].cpu \in Cpu
        /\ reg[x].i \in 1 .. MsgLen /\ reg[x].msg \in Nat
    BY Zenon DEF Types, Regs
  <1>2. CASE PrintCall(x)
    <2>1. Where(x) \in Cpu
      BY <1>2, <1>1, OnCpu, Zenon DEF PrintCall
    <2>2. reg' \in [Ctx -> Regs]
      BY <1>2, <1>1, <2>1 DEF PrintCall, Regs
    <2>3. pc' \in [Ctx -> Labels]
      BY <1>2, <1>1, Zenon DEF PrintCall, Goto, Labels
    <2>4. QED BY <1>2, <2>2, <2>3, Zenon DEF PrintCall, Types, rings, ghosts
  <1>3. CASE TakeLock(x)
    <2>1. pc' \in [Ctx -> Labels] /\ ringLock' \in [Cpu -> BOOLEAN]
      BY <1>3, <1>1, ZenonT(30) DEF TakeLock, Goto, Labels, Types
    <2>2. QED BY <1>3, <2>1, Zenon DEF TakeLock, Types, ghosts
  <1>4. NextByte(x) => pc' \in [Ctx -> Labels] /\ reg' \in [Ctx -> Regs]
    <2>1. ASSUME NextByte(x), reg[x].i # MsgLen PROVE reg' \in [Ctx -> Regs]
      <3>1. reg[x].i + 1 \in 1 .. MsgLen
        BY <2>1, <1>1
      <3>2. reg' = [reg EXCEPT ![x].i = reg[x].i + 1]
        BY <2>1, Zenon DEF NextByte
      <3>3. QED BY <1>1, <3>1, <3>2, RegsByte, Zenon
    <2>2. QED BY <2>1, <1>1, Zenon DEF NextByte, Goto, Labels
  <1>5. CASE PushCheck(x)
    <2>1. pc' \in [Ctx -> Labels] /\ reg' \in [Ctx -> Regs]
      BY <1>5, <1>4, <1>1, Zenon DEF PushCheck, Goto, Labels
    <2>2. dropped' \in [Cpu -> Nat]
      <3>1. \/ dropped' = dropped
            \/ dropped' = [dropped EXCEPT ![reg[x].cpu] = dropped[reg[x].cpu] + 1]
        BY <1>5, Zenon DEF PushCheck
      <3>2. dropped \in [Cpu -> Nat] /\ reg[x].cpu \in Cpu
        BY <1>1, Zenon DEF Types
      <3>3. QED BY <3>1, <3>2
    <2>3. TheByte(x) \in Byte
      BY <1>5, ByteOf, Zenon DEF PushCheck, At
    <2>4. lost' \in [Cpu -> SUBSET Byte]
      <3>1. \/ lost' = lost
            \/ lost' = [lost EXCEPT ![reg[x].cpu] = lost[reg[x].cpu] \union {TheByte(x)}]
        BY <1>5, Zenon DEF PushCheck
      <3>2. lost \in [Cpu -> SUBSET Byte] /\ reg[x].cpu \in Cpu
        BY <1>1, Zenon DEF Types
      <3>3. QED BY <2>3, <3>1, <3>2
    <2>5. QED BY <1>5, <2>1, <2>2, <2>4, Zenon DEF PushCheck, Types
  <1>6. CASE PushWrite(x)
    <2>1. TheByte(x) \in Byte
      BY <1>6, ByteOf, Zenon DEF PushWrite, At
    <2>2. data' \in [Cpu -> [0 .. Size - 1 -> Byte \union {Silence}]]
      BY <1>6, <1>1, <2>1, ZenonT(30) DEF PushWrite, Types
    <2>3. pc' \in [Ctx -> Labels]
      BY <1>6, <1>1, Zenon DEF PushWrite, Goto, Labels
    <2>4. QED BY <1>6, <2>2, <2>3, ZenonT(30) DEF PushWrite, Types, ghosts
  <1>7. CASE PushStore(x)
    <2>1. \A k \in 0 .. Size - 1 : Succ(k) \in 0 .. Size - 1
      BY DEF Succ
    <2>2. tail' \in [Cpu -> 0 .. Size - 1]
      BY <1>7, <1>1, <2>1, Zenon DEF PushStore, Types
    <2>3. QED BY <1>7, <1>4, <2>2, Zenon DEF PushStore, Types, ghosts
  <1>8. CASE Unlock(x)
    <2>1. reg' \in [Ctx -> Regs]
      <3> DEFINE m == IF reg[x].panic THEN reg[x].msg ELSE reg[x].msg + 1
      <3>1. reg' = [reg EXCEPT ![x].cpu = 0, ![x].i = 1, ![x].msg = m]
        BY <1>8, <1>1, Zenon DEF Unlock
      <3>2. m \in Nat /\ 1 \in 1 .. MsgLen
        BY <1>1
      <3> HIDE DEF m
      <3>3. QED BY <1>1, <3>1, <3>2, RegsNext, Zenon
    <2>2. pc' \in [Ctx -> Labels]
      BY <1>8, <1>1, Zenon DEF Unlock, Goto, Labels
    <2>3. ringLock' \in [Cpu -> BOOLEAN]
      BY <1>8, <1>1, Zenon DEF Unlock, Types
    <2>4. QED BY <1>8, <2>1, <2>2, <2>3, ZenonT(30) DEF Unlock, Types, ghosts
  <1>9. CASE DirectLock(x)
    <2>1. pc' \in [Ctx -> Labels]
      BY <1>9, <1>1, Zenon DEF DirectLock, Goto, Labels
    <2>2. QED BY <1>9, <2>1, Zenon DEF DirectLock, Types, rings, ghosts
  <1>10. CASE DirectSend(x)
    <2>1. reg' \in [Ctx -> Regs]
      <3>1. CASE reg[x].i = MsgLen
        BY <1>10, <1>1, <3>1 DEF DirectSend, Regs
      <3>2. CASE reg[x].i # MsgLen
        BY <1>10, <1>1, <3>2 DEF DirectSend, Regs
      <3>3. QED BY <3>1, <3>2, Zenon
    <2>2. pc' \in [Ctx -> Labels]
      BY <1>10, <1>1 DEF DirectSend, Goto, Labels
    <2>3. QED BY <1>10, <2>1, <2>2, Zenon DEF DirectSend, Types, rings
  <1>11. CASE Panic(x)
    <2>1. Where(x) \in Cpu
      BY <1>11, <1>1, OnCpu, Zenon DEF Panic
    <2>2. reg' \in [Ctx -> Regs]
      <3>1. [reg[x] EXCEPT !.panic = TRUE, !.msg = 0, !.i = 1, !.cpu = Where(x)] \in Regs
        <4>1. reg[x] \in Regs /\ 0 \in Nat /\ 1 \in 1 .. MsgLen
          BY <1>1
        <4>2. QED BY <2>1, <4>1, RegsSet, Zenon
      <3>2. QED BY <1>11, <1>1, <3>1, Zenon DEF Panic
    <2>3. pc' \in [Ctx -> Labels]
      BY <1>11, <1>1 DEF Panic, Goto, Labels
    <2>4. QED BY <1>11, <2>2, <2>3, Zenon DEF Panic, Types, rings, ghosts
  <1>12. QED BY <1>2, <1>3, <1>5, <1>6, <1>7, <1>8, <1>9, <1>10, <1>11, Zenon DEF Printing

\* So do the steps of serial_flush_all.
LEMMA FlushTypes ==
  ASSUME Types, Placed, NEW f \in {Shell, Isr}, Flush(f)
  PROVE  Types'
  <1> USE Constants, SerialAssumption
  <1>1. f \in Ctx /\ pc \in [Ctx -> Labels] /\ reg \in [Ctx -> Regs] /\ reg[f].cpu \in Cpu
    BY ZenonT(30) DEF Types, Regs
  <1>2. FlushReturn(f) => pc' \in [Ctx -> Labels] /\ inIsr' \in BOOLEAN
    BY <1>1, Zenon DEF FlushReturn, Goto, Labels
  <1>3. CASE FlushCheck(f)
    <2>1. pc' \in [Ctx -> Labels] /\ inIsr' \in BOOLEAN
      BY <1>3, <1>1, <1>2, Zenon DEF FlushCheck, Goto, Labels, Types
    <2>2. QED BY <1>3, <2>1, Zenon DEF FlushCheck, Types, rings, ghosts
  <1>4. CASE FlushTry(f)
    <2>1. pc' \in [Ctx -> Labels] /\ inIsr' \in BOOLEAN
      BY <1>4, <1>1, <1>2, Zenon DEF FlushTry, Goto, Labels, Types
    <2>2. reg' \in [Ctx -> Regs]
      BY <1>4, <1>1 DEF FlushTry, Regs
    <2>3. QED BY <1>4, <2>1, <2>2, Zenon DEF FlushTry, Types, rings, ghosts
  <1>5. CASE FlushDropped(f)
    <2>1. pc' \in [Ctx -> Labels] /\ dropped' \in [Cpu -> Nat]
      BY <1>5, <1>1, Zenon DEF FlushDropped, Goto, Labels, Types
    <2>2. QED BY <1>5, <2>1, Zenon DEF FlushDropped, Types, ghosts
  <1>6. CASE FlushLoad(f)
    <2>1. pc' \in [Ctx -> Labels]
      BY <1>6, <1>1 DEF FlushLoad, Goto, Labels
    <2>2. reg[f].cpu + 1 < N => reg[f].cpu + 1 \in Cpu
      BY <1>1 DEF Cpu
    <2>3. reg' \in [Ctx -> Regs]
      BY <1>6, <1>1, <2>2 DEF FlushLoad, Regs
    <2>4. QED BY <1>6, <2>1, <2>3, Zenon DEF FlushLoad, Types, rings, ghosts
  <1>7. CASE FlushRead(f)
    <2>1. pc' \in [Ctx -> Labels]
      BY <1>7, <1>1, Zenon DEF FlushRead, Goto, Labels
    <2>2. data[reg[f].cpu][head[reg[f].cpu]] \in Byte \union {Silence}
      BY <1>1 DEF Types
    <2>3. reg' \in [Ctx -> Regs]
      BY <1>7, <1>1, <2>2 DEF FlushRead, Regs
    <2>4. QED BY <1>7, <2>1, <2>3, Zenon DEF FlushRead, Types, rings, ghosts
  <1>8. CASE FlushStore(f)
    <2>1. pc' \in [Ctx -> Labels]
      BY <1>8, <1>1, Zenon DEF FlushStore, Goto, Labels
    <2>2. \A k \in 0 .. Size - 1 : Succ(k) \in 0 .. Size - 1
      BY DEF Succ
    <2>3. head' \in [Cpu -> 0 .. Size - 1]
      BY <1>8, <1>1, <2>2, ZenonT(30) DEF FlushStore, Types
    <2>4. reg[f].byte \in Byte \union {Silence}
      BY <1>1, Zenon DEF Regs
    <2>5. sent' \in [Cpu -> SUBSET (Byte \union {Silence})]
      BY <1>8, <1>1, <2>4, ZenonT(30) DEF FlushStore, Types
    <2>6. reg' \in [Ctx -> Regs]
      BY <1>8, <1>1 DEF FlushStore, Regs
    <2>7. QED BY <1>8, <2>1, <2>3, <2>5, <2>6, ZenonT(30) DEF FlushStore, Types
  <1>9. CASE FlushDone(f)
    <2>1. pc' \in [Ctx -> Labels] /\ inIsr' \in BOOLEAN
      BY <1>9, <1>2, Zenon DEF FlushDone
    <2>2. QED BY <1>9, <2>1, Zenon DEF FlushDone, Types, rings, ghosts
  <1>10. QED BY <1>3, <1>4, <1>5, <1>6, <1>7, <1>8, <1>9, Zenon DEF Flush

\* And everything else.
LEMMA OtherTypes ==
  ASSUME Types, Placed, Enable \/ IsrEnter \/ FlushCall \/ \E c \in Cpu : Resched(c)
  PROVE  Types'
  <1> USE Constants
  <1>1. CASE Enable
    BY <1>1, Zenon DEF Enable, Types, rings, ghosts
  <1>2. CASE IsrEnter
    <2>1. pc' \in [Ctx -> Labels]
      BY <1>2, Zenon DEF IsrEnter, Goto, Types, Labels
    <2>2. QED BY <1>2, <2>1, Zenon DEF IsrEnter, Types, rings, ghosts
  <1>3. CASE FlushCall
    <2>1. pc' \in [Ctx -> Labels]
      BY <1>3, Zenon DEF FlushCall, Goto, Types, Labels
    <2>2. QED BY <1>3, <2>1, Zenon DEF FlushCall, Types, rings, ghosts
  <1>4. ASSUME NEW c \in Cpu, Resched(c) PROVE Types'
    <2>1. run' \in [Cpu -> Printer \union {NoCtx}]
      BY <1>4 DEF Resched, Types, Printer
    <2>2. QED BY <1>4, <2>1, Zenon DEF Resched, Types, rings, ghosts
  <1>5. QED BY <1>1, <1>2, <1>3, <1>4, Zenon

-----------------------------------------------------------------------------
\* What printing, or a panic, of context x leaves alone, and where it leads.
Talking == {"captured", "spin", "check", "write", "store", "unlock", "d_call", "d_spin", "d_send"}
Talks(x) ==
  /\ \A y \in Ctx \ {x} : pc'[y] = pc[y] /\ reg'[y] = reg[y]
  /\ pc[x] \in Talking \union {"idle"}
  /\ pc'[x] \in Talking \union {"idle", "halted"}
  /\ pc'[x] \in Talking => reg'[x].msg \in 0 .. MaxMsgs[x]
  /\ UNCHANGED <<run, inIsr, head, sent>> /\ (inIsr => run[0] # x)

LEMMA PrintingTalks ==
  ASSUME Types, Placed, Msgs, NEW x \in Printer, Printing(x) \/ Panic(x)
  PROVE  Talks(x)
  <1> USE Constants DEF Talking
  <1>1. x \in Ctx /\ pc \in [Ctx -> Labels] /\ reg \in [Ctx -> Regs] /\ MaxMsgs[x] \in Nat
    BY SerialAssumption, Zenon DEF Types
  <1>2. \A l : At(x, l) => pc[x] = l /\ (inIsr => run[0] # x)
    BY <1>1, OnCpu, Zenon
  <1>3. reg[x] \in Regs
    BY <1>1, Zenon
  <1>4. CASE PrintCall(x)
    BY <1>4, <1>1, <1>2, <1>3 DEF PrintCall, Goto, Talks, rings, ghosts, Regs
  <1>5. CASE TakeLock(x)
    BY <1>5, <1>1, <1>2, Zenon DEF TakeLock, Goto, Talks, ghosts, Msgs
  <1>6. CASE PushCheck(x)
    BY <1>6, <1>1, <1>2, <1>3 DEF PushCheck, NextByte, Goto, Talks, Msgs, Regs
  <1>7. CASE PushWrite(x)
    BY <1>7, <1>1, <1>2, Zenon DEF PushWrite, Goto, Talks, ghosts, Msgs
  <1>8. CASE PushStore(x)
    BY <1>8, <1>1, <1>2, <1>3 DEF PushStore, NextByte, Goto, Talks, ghosts, Msgs, Regs
  <1>9. CASE Unlock(x)
    BY <1>9, <1>1, <1>2, Zenon DEF Unlock, Goto, Talks, ghosts
  <1>10. CASE DirectLock(x)
    BY <1>10, <1>1, <1>2, Zenon DEF DirectLock, Goto, Talks, rings, ghosts, Msgs
  <1>11. CASE DirectSend(x)
    BY <1>11, <1>1, <1>2, <1>3 DEF DirectSend, Goto, Talks, rings, Msgs, Regs
  <1>12. CASE Panic(x)
    BY <1>12, <1>1, <1>2, <1>3 DEF Panic, Goto, Talks, rings, ghosts, Regs
  <1>13. QED BY <1>4, <1>5, <1>6, <1>7, <1>8, <1>9, <1>10, <1>11, <1>12, Zenon DEF Printing

\* What draining leaves alone: the producers' side of every ring.
Emptying == {"f_check", "f_try", "f_drop", "f_load", "f_read", "f_store", "f_done"}
Drains(f) ==
  /\ \A y \in Ctx \ {f} : pc'[y] = pc[y] /\ reg'[y] = reg[y]
  /\ pc[f] \in Emptying /\ pc'[f] \in Emptying \union {"idle"}
  /\ reg'[f].msg = reg[f].msg /\ reg'[f].i = reg[f].i /\ reg'[f].panic = reg[f].panic
  /\ UNCHANGED <<run, tail, data, ringLock, lost, panicking, direct>>
  /\ f = Shell => run[0] = Shell /\ ~ inIsr /\ ~ inIsr'
  /\ f = Isr => inIsr /\ (inIsr' <=> pc'[f] # "idle")

LEMMA FlushDrains ==
  ASSUME Types, Placed, NEW f \in {Shell, Isr}, Flush(f)
  PROVE  Drains(f)
  <1> USE Constants DEF Emptying
  <1>1. f \in Ctx /\ pc \in [Ctx -> Labels] /\ reg \in [Ctx -> Regs] /\ inIsr \in BOOLEAN
    BY Zenon DEF Types
  <1>2. \A l : At(f, l) => /\ pc[f] = l /\ (f = Isr => inIsr)
                           /\ f = Shell => run[0] = Shell /\ ~ inIsr
    BY <1>1, OnCpu, Zenon
  <1>3. reg[f] \in Regs
    BY <1>1, Zenon
  <1>4. CASE FlushCheck(f)
    BY <1>4, <1>1, <1>2, Zenon DEF FlushCheck, FlushReturn, Goto, Drains, rings, ghosts
  <1>5. CASE FlushTry(f)
    <2>1. CASE uartLock
      BY <1>5, <1>1, <1>2, <2>1, Zenon DEF FlushTry, FlushReturn, Goto, Drains, rings, ghosts
    <2>2. CASE ~ uartLock
      BY <1>5, <1>1, <1>2, <1>3, <2>2 DEF FlushTry, Goto, Drains, rings, ghosts, Regs
    <2>3. QED BY <2>1, <2>2, Zenon
  <1>6. CASE FlushDropped(f)
    BY <1>6, <1>1, <1>2, Zenon DEF FlushDropped, Goto, Drains, ghosts
  <1>7. CASE FlushLoad(f)
    BY <1>7, <1>1, <1>2, <1>3 DEF FlushLoad, Goto, Drains, rings, ghosts, Regs
  <1>8. CASE FlushRead(f)
    BY <1>8, <1>1, <1>2, <1>3, Zenon DEF FlushRead, Goto, Drains, rings, ghosts, Regs
  <1>9. CASE FlushStore(f)
    BY <1>9, <1>1, <1>2, <1>3, Zenon DEF FlushStore, Goto, Drains, Regs
  <1>10. CASE FlushDone(f)
    BY <1>10, <1>1, <1>2, Zenon DEF FlushDone, FlushReturn, Goto, Drains, rings, ghosts
  <1>11. QED BY <1>4, <1>5, <1>6, <1>7, <1>8, <1>9, <1>10, Zenon DEF Flush

\* Masking depends on the context's own program point and registers.
LEMMA SameMask ==
  ASSUME NEW x \in Printer \union {NoCtx}, x # NoCtx => pc'[x] = pc[x] /\ reg'[x] = reg[x]
  PROVE  Masked(x)' <=> Masked(x)
  BY Zenon DEF Masked

\* Every step keeps contexts where they may be.
LEMMA PlacedKept ==
  ASSUME Types, Placed, Msgs, Next
  PROVE  Placed' /\ Msgs'
  <1> USE Constants
  <1>1. run \in [Cpu -> Printer \union {NoCtx}] /\ inIsr \in BOOLEAN /\ run[0] \in Printer \union {NoCtx}
        /\ pc \in [Ctx -> Labels]
    BY Zenon DEF Types
  <1>2. ASSUME NEW x \in Printer, Printing(x) \/ Panic(x) PROVE Placed' /\ Msgs'
    <2>1. Talks(x)
      BY <1>2, PrintingTalks, Zenon
    <2>2. inIsr' => ~ Masked(run[0])'
      <3> SUFFICES ASSUME inIsr' PROVE ~ Masked(run[0])'
        BY Zenon
      <3>1. PICK y \in Printer \union {NoCtx} : y = run[0]
        BY <1>1, Zenon
      <3>2. run[0]' = y /\ ~ Masked(y) /\ y # x
        BY <2>1, <3>1, Zenon DEF Talks, Placed
      <3>3. ~ Masked(y)'
        BY <3>2, <2>1, SameMask, Zenon DEF Talks
      <3>4. QED BY <3>2, <3>3, Zenon
    <2>3. Draining(Shell)' => run'[0] = Shell
      BY <2>1, Zenon DEF Talks, Placed, Draining, Talking
    <2>4. Placed'
      BY <2>1, <2>2, <2>3, Zenon DEF Talks, Placed
    <2>5. Msgs'
      BY <2>1, Zenon DEF Talks, Msgs, Talking
    <2>6. QED BY <2>4, <2>5, Zenon
  <1>3. ASSUME NEW f \in {Shell, Isr}, Flush(f) PROVE Placed' /\ Msgs'
    <2>1. Drains(f)
      BY <1>3, FlushDrains, Zenon
    <2>2. inIsr' => ~ Masked(run[0])'
      <3> SUFFICES ASSUME inIsr' PROVE ~ Masked(run[0])'
        BY Zenon
      <3>1. PICK y \in Printer \union {NoCtx} : y = run[0]
        BY <1>1, Zenon
      <3>2. f = Isr /\ run[0]' = y /\ ~ Masked(y)
        BY <2>1, <3>1, Zenon DEF Drains, Placed
      <3>3. ~ Masked(y)'
        BY <3>2, <2>1, SameMask, Zenon DEF Drains
      <3>4. QED BY <3>2, <3>3, Zenon
    <2>3. Draining(Shell)' => run'[0] = Shell
      BY <2>1, Zenon DEF Drains, Placed, Draining
    <2>4. Placed'
      BY <2>1, <2>2, <2>3, Zenon DEF Drains, Placed
    <2>5. Msgs'
      BY <2>1, Zenon DEF Drains, Msgs, Emptying
    <2>6. QED BY <2>4, <2>5, Zenon
  <1>4. CASE Enable
    BY <1>4, Zenon DEF Enable, Placed, Masked, Draining, Msgs
  <1>5. CASE IsrEnter
    <2>1. PICK y \in Printer \union {NoCtx} : y = run[0]
      BY <1>1, Zenon
    <2>2. run[0]' = y /\ ~ Masked(y) /\ (\A z \in Printer : pc'[z] = pc[z]) /\ reg' = reg
          /\ pc'[Isr] = "f_check"
      BY <1>5, <2>1, <1>1, Zenon DEF IsrEnter, Goto
    <2>3. ~ Masked(y)'
      BY <2>2, SameMask, Zenon
    <2>4. Placed'
      BY <1>5, <2>2, <2>3, Zenon DEF IsrEnter, Placed, Draining
    <2>5. QED BY <2>2, <2>4, Zenon DEF Msgs
  <1>6. CASE FlushCall
    <2>1. ~ inIsr /\ run' = run /\ inIsr' = inIsr /\ reg' = reg
          /\ pc' = [pc EXCEPT ![Shell] = "f_check"]
      BY <1>6, OnCpu, Zenon DEF FlushCall, Goto
    <2>2. Placed'
      BY <2>1, <1>1, Zenon DEF Placed, Draining
    <2>3. QED BY <2>1, <2>2, <1>1, Zenon DEF Msgs
  <1>7. ASSUME NEW c \in Cpu, Resched(c) PROVE Placed' /\ Msgs'
    <2>1. PICK x \in Worker \union {NoCtx} \union (IF c = 0 THEN {Shell} ELSE {}) :
            /\ x # run[c] /\ \A d \in Cpu : x # NoCtx => run[d] # x
            /\ run' = [run EXCEPT ![c] = x]
      BY <1>7, Zenon DEF Resched
    <2>2. UNCHANGED <<inIsr, pc, reg>> /\ ~ Masked(run[c]) /\ ~ (c = 0 /\ inIsr)
      BY <1>7, Zenon DEF Resched
    <2>3. x = Shell => c = 0
      BY <2>1, SerialAssumption, Zenon DEF Ctx
    <2>4. Draining(Shell) => c # 0
      BY <2>2, Zenon DEF Draining, Placed, Masked
    <2>5. inIsr' => ~ Masked(run[0])'
      BY <2>1, <2>2, <1>1, Zenon DEF Placed, Masked
    <2>6. Placed'
      BY <2>1, <2>2, <2>3, <2>4, <2>5, <1>1, Zenon DEF Placed, Draining
    <2>7. QED BY <2>2, <2>6, Zenon DEF Msgs
  <1>8. QED BY <1>2, <1>3, <1>4, <1>5, <1>6, <1>7, Zenon DEF Next

\* The two places that drain never overlap.
LEMMA PlacedApart == Types /\ Placed => OneFlusher
  <1> SUFFICES ASSUME Types, Placed, Draining(Shell), Draining(Isr) PROVE FALSE
    BY Zenon DEF OneFlusher
  <1>1. inIsr /\ run[0] = Shell
    BY Zenon DEF Placed, Draining
  <1>2. Masked(Shell)
    BY Constants, Zenon DEF Draining, Masked
  <1>3. QED BY <1>1, <1>2, Zenon DEF Placed

-----------------------------------------------------------------------------
\* The ring with its remainders worked out: how many bytes from h to t, where the
\* k-th slot behind h is, the bytes in between.
Idx == 0 .. Size - 1
Steps(h, t) == IF t >= h THEN t - h ELSE t - h + Size
Wrap(k) == IF k < Size THEN k ELSE k - Size
Ring(h, t, d) == [j \in 1 .. Steps(h, t) |-> d[Wrap(h + j - 1)]]

LEMMA Remainder ==
  ASSUME NEW a \in Nat, a < Size + Size
  PROVE  a % Size = Wrap(a)
  BY SerialAssumption DEF Wrap

\* push_byte's and pop_byte's next index.
LEMMA SuccIs ==
  ASSUME NEW k \in Idx
  PROVE  Succ(k) = (IF k = Size - 1 THEN 0 ELSE k + 1) /\ Succ(k) \in Idx
  BY SerialAssumption DEF Succ, Idx

\* Different indices have different successors.
LEMMA SuccOnce ==
  ASSUME NEW k \in Idx, NEW l \in Idx, Succ(k) = Succ(l)
  PROVE  k = l
  BY SuccIs, SerialAssumption DEF Idx

LEMMA StepsIn ==
  ASSUME NEW h \in Idx, NEW t \in Idx
  PROVE  /\ Steps(h, t) \in 0 .. Size - 1
         /\ \A j \in 1 .. Steps(h, t) : /\ h + j - 1 \in Nat /\ h + j - 1 < Size + Size
                                        /\ Wrap(h + j - 1) \in Idx /\ Wrap(h + j - 1) # t
         /\ Succ(t) = h <=> Steps(h, t) = Size - 1
         /\ h = t <=> Steps(h, t) = 0
  BY SuccIs, SerialAssumption DEF Steps, Wrap, Idx

\* Queue(c) is that ring.
LEMMA QueueIs ==
  ASSUME NEW h \in Idx, NEW t \in Idx, NEW d
  PROVE  [j \in 1 .. (t - h + Size) % Size |-> d[(h + j - 1) % Size]] = Ring(h, t, d)
  <1>1. (t - h + Size) % Size = Steps(h, t)
    <2>1. t - h + Size \in Nat /\ t - h + Size < Size + Size
      BY SerialAssumption DEF Idx
    <2>2. (t - h + Size) % Size = Wrap(t - h + Size)
      BY <2>1, Remainder, Zenon
    <2>3. QED BY <2>2, SerialAssumption DEF Idx, Wrap, Steps
  <1>2. \A j \in 1 .. Steps(h, t) : (h + j - 1) % Size = Wrap(h + j - 1)
    BY StepsIn, Remainder, Zenon
  <1>3. [j \in 1 .. Steps(h, t) |-> d[(h + j - 1) % Size]]
           = [j \in 1 .. Steps(h, t) |-> d[Wrap(h + j - 1)]]
    BY <1>2, Zenon
  <1>4. QED BY <1>1, <1>3, Zenon DEF Ring

\* The ring is a sequence, empty exactly when the indices meet.
LEMMA RingLen ==
  ASSUME NEW h \in Idx, NEW t \in Idx, NEW d
  PROVE  /\ Len(Ring(h, t, d)) = Steps(h, t) /\ DOMAIN Ring(h, t, d) = 1 .. Steps(h, t)
         /\ Ring(h, t, d) \in Seq({d[k] : k \in Idx})
         /\ Succ(t) = h <=> Len(Ring(h, t, d)) = Size - 1
         /\ Succ(t) # h <=> Len(Ring(h, t, d)) < Size - 1
  <1>1. Steps(h, t) \in Nat /\ Steps(h, t) <= Size - 1
    BY StepsIn, SerialAssumption
  <1>2. Ring(h, t, d) \in [1 .. Steps(h, t) -> {d[k] : k \in Idx}]
    BY StepsIn DEF Ring
  <1>3. Len(Ring(h, t, d)) = Steps(h, t) /\ DOMAIN Ring(h, t, d) = 1 .. Steps(h, t)
        /\ Ring(h, t, d) \in Seq({d[k] : k \in Idx})
    BY <1>1, <1>2
  <1>4. Succ(t) = h <=> Steps(h, t) = Size - 1
    BY StepsIn, Zenon
  <1>5. QED BY <1>1, <1>3, <1>4, SerialAssumption

\* push_byte appends the byte in the slot tail points at.
LEMMA RingPush ==
  ASSUME NEW h \in Idx, NEW t \in Idx, NEW d, Succ(t) # h
  PROVE  Ring(h, Succ(t), d) = Append(Ring(h, t, d), d[t])
  <1>1. Succ(t) \in Idx /\ Steps(h, Succ(t)) = Steps(h, t) + 1
    BY SuccIs, SerialAssumption DEF Steps, Idx
  <1>2. Wrap(h + Steps(h, t)) = t
    BY SerialAssumption DEF Steps, Wrap, Idx
  <1>3. Steps(h, t) \in Nat
    BY StepsIn
  <1> DEFINE n == Steps(h, t)
             s == Ring(h, t, d)
  <1>4. Len(s) = n /\ s \in Seq({d[k] : k \in Idx})
    BY RingLen
  <1>5. Append(s, d[t]) = [j \in 1 .. n + 1 |-> IF j = n + 1 THEN d[t] ELSE s[j]]
    BY <1>3, <1>4
  <1>6. \A j \in 1 .. n : s[j] = d[Wrap(h + j - 1)]
    BY Zenon DEF Ring
  <1>7. \A j \in 1 .. n + 1 : (IF j = n + 1 THEN d[t] ELSE s[j]) = d[Wrap(h + j - 1)]
    <2> TAKE j \in 1 .. n + 1
    <2>1. CASE j = n + 1
      <3>1. h + j - 1 = h + n
        BY <2>1, <1>3 DEF Idx
      <3>2. QED BY <2>1, <3>1, <1>2, Zenon
    <2>2. CASE j # n + 1
      <3>1. j \in 1 .. n
        BY <2>2, <1>3
      <3>2. QED BY <2>2, <3>1, <1>6, Zenon
    <2>3. QED BY <2>1, <2>2, Zenon
  <1>8. Ring(h, Succ(t), d) = [j \in 1 .. n + 1 |-> d[Wrap(h + j - 1)]]
    BY <1>1, Zenon DEF Ring
  <1> HIDE DEF n, s
  <1>9. QED BY <1>5, <1>7, <1>8, Zenon DEF n, s

\* Until then the slot is outside of the ring.
AgreeBut(t, d, e) == \A k \in Idx : k # t => e[k] = d[k]

LEMMA RingWrite ==
  ASSUME NEW h \in Idx, NEW t \in Idx, NEW d, NEW e, AgreeBut(t, d, e)
  PROVE  Ring(h, t, e) = Ring(h, t, d)
  <1>1. \A j \in 1 .. Steps(h, t) : Wrap(h + j - 1) \in Idx /\ Wrap(h + j - 1) # t
    BY StepsIn
  <1>2. QED BY <1>1, Zenon DEF Ring, AgreeBut

\* The ring is full when the next index would meet the head.
LEMMA RingFull ==
  ASSUME NEW h \in Idx, NEW t \in Idx, NEW d, Succ(t) = h
  PROVE  Len(Ring(h, t, d)) = Size - 1
  <1>1. Len(Ring(h, t, d)) = Steps(h, t)
    BY RingLen, ZenonT(30)
  <1>2. Steps(h, t) = Size - 1
    BY StepsIn, Zenon
  <1>3. QED BY <1>1, <1>2, Zenon

\* What is left of a sequence without its first element.
LEMMA TailIs ==
  ASSUME NEW S, NEW s \in Seq(S), s # <<>>
  PROVE  /\ Tail(s) \in Seq(S) /\ Len(Tail(s)) = Len(s) - 1
         /\ \A j \in 1 .. Len(s) - 1 : Tail(s)[j] = s[j + 1]
  OBVIOUS

LEMMA RingSeq ==
  ASSUME NEW h \in Idx, NEW t \in Idx, NEW d
  PROVE  Ring(h, t, d) \in Seq({d[k] : k \in Idx}) /\ Len(Ring(h, t, d)) = Steps(h, t)
  BY RingLen

\* pop_byte takes the first byte off.
LEMMA RingPop ==
  ASSUME NEW h \in Idx, NEW t \in Idx, NEW d, h # t
  PROVE  /\ Ring(h, t, d) # <<>> /\ Head(Ring(h, t, d)) = d[h]
         /\ Ring(Succ(h), t, d) = Tail(Ring(h, t, d))
  <1> DEFINE n == Steps(h, t)
             s == Ring(h, t, d)
  <1>1. Succ(h) \in Idx /\ Steps(Succ(h), t) = n - 1 /\ n \in Nat \ {0}
    BY SuccIs, StepsIn, SerialAssumption DEF Steps, Idx
  <1>2. Len(s) = n /\ s \in Seq({d[k] : k \in Idx})
    BY RingLen
  <1>3. \A j \in 1 .. n : s[j] = d[Wrap(h + j - 1)]
    BY Zenon DEF Ring
  <1>4. Wrap(h + 1 - 1) = h
    BY SerialAssumption DEF Wrap, Idx
  <1>5. Head(s) = d[h] /\ s # <<>>
    BY <1>1, <1>2, <1>3, <1>4
  <1>6. \A j \in 1 .. n - 1 : Wrap(Succ(h) + j - 1) = Wrap(h + (j + 1) - 1)
    BY SuccIs, <1>1, StepsIn, SerialAssumption DEF Wrap, Idx, Steps
  <1> DEFINE D == {d[k] : k \in Idx}
             r == Ring(Succ(h), t, d)
  <1>7. r \in Seq(D) /\ Len(r) = n - 1 /\ \A j \in 1 .. n - 1 : r[j] = d[Wrap(Succ(h) + j - 1)]
    <2>1. r \in Seq(D) /\ Len(r) = Steps(Succ(h), t)
      <3>1. Succ(h) \in Idx
        BY <1>1, Zenon
      <3>2. QED BY <3>1, RingSeq, Zenon
    <2>2. \A j \in 1 .. Steps(Succ(h), t) : r[j] = d[Wrap(Succ(h) + j - 1)]
      BY Zenon DEF Ring
    <2> HIDE DEF n, s, r, D
    <2>3. QED BY <1>1, <2>1, <2>2, Zenon
  <1> HIDE DEF n, s, r, D
  <1>8. /\ Tail(s) \in Seq(D) /\ Len(Tail(s)) = n - 1
        /\ \A j \in 1 .. n - 1 : Tail(s)[j] = s[j + 1]
    <2>1. s \in Seq(D)
      BY <1>2, Zenon DEF D
    <2>2. QED BY <1>2, <1>5, <2>1, TailIs, Zenon
  <1>9. \A j \in 1 .. n - 1 : r[j] = Tail(s)[j]
    <2> SUFFICES ASSUME NEW j \in 1 .. n - 1 PROVE r[j] = Tail(s)[j]
      BY Zenon
    <2>1. j + 1 \in 1 .. n
      BY <1>1
    <2>2. QED BY <2>1, <1>3, <1>6, <1>7, <1>8, Zenon
  <1>10. r = Tail(s)
    BY <1>7, <1>8, <1>9
  <1>11. QED BY <1>5, <1>10, Zenon DEF s, r

-----------------------------------------------------------------------------
\* A context between buf.lock.lock() and the guard's drop holds the lock of its
\* ring, alone.
Filling == {"check", "write", "store", "unlock"}
Exclusive ==
  /\ \A x \in Printer : pc[x] \in Filling => ringLock[reg[x].cpu]
  /\ \A x, y \in Printer :
       pc[x] \in Filling /\ pc[y] \in Filling /\ reg[x].cpu = reg[y].cpu => x = y

\* What push_byte and pop_byte have found out stays true until they act on it: the
\* ring that was not full has room, the slot at tail keeps what was written, the
\* ring that was not empty has its first byte.
Filled(x) ==
  /\ pc[x] \in {"write", "store"} => ~ Full(reg[x].cpu)
  /\ pc[x] = "store" => data[reg[x].cpu][tail[reg[x].cpu]] = TheByte(x)
Fetched(f) ==
  /\ pc[f] \in {"f_read", "f_store"} => head[reg[f].cpu] # tail[reg[f].cpu]
  /\ pc[f] = "f_store" => reg[f].byte = data[reg[f].cpu][head[reg[f].cpu]]
Found == (\A x \in Printer : Filled(x)) /\ (\A f \in {Shell, Isr} : Fetched(f))

IInv == Types /\ Placed /\ Msgs /\ Exclusive /\ Found

\* Locks are taken by one and given back by their holder, or never again after a
\* panic in the middle of a print.
LEMMA ExclusiveKept ==
  ASSUME Types, Placed, Msgs, Exclusive, Next
  PROVE  Exclusive'
  <1> USE Constants DEF Filling
  <1>1. pc \in [Ctx -> Labels] /\ reg \in [Ctx -> Regs] /\ ringLock \in [Cpu -> BOOLEAN]
        /\ \A x \in Ctx : reg[x].cpu \in Cpu
    BY ZenonT(30) DEF Types, Regs
  <1>2. ASSUME NEW x \in Printer, Printing(x) \/ Panic(x) PROVE Exclusive'
    <2>1. Talks(x)
      BY <1>2, PrintingTalks, Zenon
    <2>2. \A y \in Printer \ {x} : pc'[y] = pc[y] /\ reg'[y] = reg[y]
      BY <2>1, Zenon DEF Talks
    <2>3. CASE /\ ringLock' = ringLock
               /\ pc'[x] \in Filling => pc[x] \in Filling /\ reg'[x].cpu = reg[x].cpu
      BY <2>2, <2>3 DEF Exclusive
    <2>4. CASE TakeLock(x)
      <3>1. CASE ringLock[reg[x].cpu]
        <4>1. ringLock' = ringLock /\ pc'[x] = "spin"
          BY <2>4, <3>1, <1>1, Zenon DEF TakeLock, Goto
        <4>2. QED BY <2>3, <4>1, Zenon
      <3>2. CASE ~ ringLock[reg[x].cpu]
        <4>1. ringLock' = [ringLock EXCEPT ![reg[x].cpu] = TRUE] /\ reg' = reg
          BY <2>4, <3>2, Zenon DEF TakeLock
        <4>2. \A y \in Printer : pc[y] \in Filling => reg[y].cpu # reg[x].cpu
          BY <3>2, ZenonT(30) DEF Exclusive
        <4>3. QED BY <4>1, <4>2, <2>2, <1>1 DEF Exclusive
      <3>3. QED BY <3>1, <3>2, Zenon
    <2>5. CASE Unlock(x)
      <3>1. ringLock' = [ringLock EXCEPT ![reg[x].cpu] = FALSE] /\ pc[x] = "unlock"
            /\ pc'[x] \notin Filling
        BY <2>5, <1>1, ZenonT(30) DEF Unlock, Goto, At
      <3>2. \A y \in Printer \ {x} : pc[y] \in Filling => reg[y].cpu # reg[x].cpu
        BY <3>1, Zenon DEF Exclusive
      <3>3. QED BY <3>1, <3>2, <2>2, <1>1 DEF Exclusive
    <2>6. CASE Panic(x)
      BY <2>6, <2>3, <1>1, Zenon DEF Panic, Goto, rings
    <2>7. CASE PrintCall(x) \/ DirectLock(x) \/ DirectSend(x)
      <3>1. ringLock' = ringLock /\ pc'[x] \notin Filling
        BY <2>7, <1>1 DEF PrintCall, DirectLock, DirectSend, At, Goto, rings
      <3>2. QED BY <3>1, <2>3, Zenon
    <2>8. CASE PushCheck(x) \/ PushWrite(x) \/ PushStore(x)
      <3>1. ringLock' = ringLock /\ pc[x] \in Filling
        BY <2>8, Zenon DEF PushCheck, PushWrite, PushStore, At
      <3>2. reg'[x].cpu = reg[x].cpu
        BY <2>8, <1>1, ZenonT(30) DEF PushCheck, PushWrite, PushStore, NextByte, Regs
      <3>3. QED BY <3>1, <3>2, <2>3, ZenonT(30)
    <2>9. QED BY <1>2, <2>4, <2>5, <2>6, <2>7, <2>8, Zenon DEF Printing
  <1>3. ASSUME NEW f \in {Shell, Isr}, Flush(f) PROVE Exclusive'
    <2>1. Drains(f)
      BY <1>3, FlushDrains, Zenon
    <2>2. \A y \in Printer : pc'[y] \in Filling => pc[y] \in Filling /\ reg'[y] = reg[y]
      BY <2>1, Zenon DEF Drains, Emptying
    <2>3. QED BY <2>1, <2>2 DEF Exclusive, Drains
  <1>4. CASE Enable \/ IsrEnter \/ FlushCall \/ \E c \in Cpu : Resched(c)
    <2>1. reg' = reg /\ ringLock' = ringLock
      BY <1>4, Zenon DEF Enable, IsrEnter, FlushCall, Resched, rings
    <2>2. \A y \in Printer : pc'[y] \in Filling => pc[y] \in Filling
      BY <1>4, <1>1, Zenon DEF Enable, IsrEnter, FlushCall, Resched, Goto
    <2>3. QED BY <2>1, <2>2, Zenon DEF Exclusive
  <1>5. QED BY <1>2, <1>3, <1>4, Zenon DEF Next

\* Every CPU has indices in its ring; the next index is another one for another one.
LEMMA Indices ==
  ASSUME Types, NEW c \in Cpu
  PROVE  /\ head[c] \in Idx /\ tail[c] \in Idx /\ Succ(head[c]) \in Idx /\ Succ(tail[c]) \in Idx
         /\ data[c] \in [Idx -> Byte \union {Silence}]
         /\ Succ(tail[c]) = Succ(head[c]) => tail[c] = head[c]
  <1>1. head[c] \in Idx /\ tail[c] \in Idx /\ data[c] \in [Idx -> Byte \union {Silence}]
    BY Zenon DEF Types, Idx
  <1>2. QED BY <1>1, SuccIs, SuccOnce, Zenon

\* What a context has found stays found while its ring, its place and its locals do.
LEMMA SameFilled ==
  ASSUME NEW y, Filled(y), pc'[y] = pc[y], reg'[y] = reg[y], head'[reg[y].cpu] = head[reg[y].cpu],
         tail'[reg[y].cpu] = tail[reg[y].cpu], data'[reg[y].cpu] = data[reg[y].cpu]
  PROVE  Filled(y)'
  BY Zenon DEF Filled, Full, TheByte

LEMMA SameFetched ==
  ASSUME NEW f, Fetched(f), pc'[f] = pc[f], reg'[f] = reg[f], head'[reg[f].cpu] = head[reg[f].cpu],
         tail'[reg[f].cpu] = tail[reg[f].cpu], data'[reg[f].cpu] = data[reg[f].cpu]
  PROVE  Fetched(f)'
  BY Zenon DEF Fetched

\* What printing does to what the two sides have found.
LEMMA PrintFound ==
  ASSUME Types, Placed, Msgs, Exclusive, Found, NEW x \in Printer, Printing(x) \/ Panic(x)
  PROVE  Found'
  <1> USE Constants
  <1>1. pc \in [Ctx -> Labels] /\ reg \in [Ctx -> Regs] /\ \A y \in Ctx : reg[y].cpu \in Cpu
    BY ZenonT(30) DEF Types, Regs
  <1>2. /\ \A y \in Ctx \ {x} : pc'[y] = pc[y] /\ reg'[y] = reg[y]
        /\ pc'[x] \in Talking \union {"idle", "halted"} /\ head' = head
    BY PrintingTalks, Zenon DEF Talks
  <1>3. Fetched(x)'
    BY <1>2, Zenon DEF Talking, Fetched
  <1> DEFINE c == reg[x].cpu
  <1>4. c \in Cpu
    BY <1>1, Zenon
  <1>5. ASSUME UNCHANGED <<tail, data>>, Filled(x)' PROVE Found'
    <2>1. \A y \in Printer \ {x} : Filled(y)'
      BY <1>5, <1>2, SameFilled, ZenonT(30) DEF Found
    <2>2. \A f \in {Shell, Isr} \ {x} : Fetched(f)'
      BY <1>5, <1>2, SameFetched, Zenon DEF Found
    <2>3. QED BY <1>3, <1>5, <2>1, <2>2, Zenon DEF Found
  <1>6. pc'[x] \notin {"write", "store"} => Filled(x)'
    BY Zenon DEF Filled
  <1>7. CASE PushCheck(x)
    <2>1. UNCHANGED <<tail, data>>
      BY <1>7, Zenon DEF PushCheck
    <2>2. CASE Full(c)
      <3>1. pc'[x] \notin {"write", "store"}
        BY <1>7, <2>2, <1>1, Zenon DEF PushCheck, NextByte, Goto
      <3>2. QED BY <2>1, <3>1, <1>5, <1>6, Zenon
    <2>3. CASE ~ Full(c)
      <3>1. reg' = reg /\ pc'[x] = "write"
        BY <1>7, <2>3, <1>1, ZenonT(30) DEF PushCheck, Goto
      <3>2. Filled(x)'
        BY <1>2, <2>1, <2>3, <3>1, Zenon DEF Filled, Full
      <3>3. QED BY <2>1, <3>2, <1>5, Zenon
    <2>4. QED BY <2>2, <2>3, Zenon
  <1>8. CASE PushWrite(x)
    <2>1. /\ UNCHANGED <<tail, reg>> /\ pc'[x] = "store" /\ pc[x] = "write"
          /\ data' = [data EXCEPT ![c][tail[c]] = TheByte(x)]
      BY <1>8, <1>1, Zenon DEF PushWrite, Goto, At
    <2>2. data'[c] = [data[c] EXCEPT ![tail[c]] = TheByte(x)] /\ \A d \in Cpu \ {c} : data'[d] = data[d]
      BY <2>1, <1>4, ZenonT(30) DEF Types
    <2>3. tail[c] \in Idx /\ data[c] \in [Idx -> Byte \union {Silence}] /\ head[c] \in Idx
      BY <1>4, Indices, ZenonT(30)
    <2>4. data'[c][tail[c]] = TheByte(x) /\ (head[c] # tail[c] => data'[c][head[c]] = data[c][head[c]])
      BY <2>2, <2>3, Zenon
    <2>5. Filled(x)
      BY ZenonT(30) DEF Found
    <2>6. Filled(x)'
      BY <1>2, <2>1, <2>4, <2>5 DEF Filled, Full, TheByte
    <2>7. ASSUME NEW y \in Printer \ {x} PROVE Filled(y)'
      <3>1. CASE reg[y].cpu # c
        BY <3>1, <2>1, <2>2, <1>1, <1>2, SameFilled, ZenonT(30) DEF Found
      <3>2. CASE reg[y].cpu = c
        <4>1. pc[y] \notin {"write", "store"}
          BY <3>2, <2>1 DEF Exclusive, Filling
        <4>2. QED BY <4>1, <1>2, Zenon DEF Filled
      <3>3. QED BY <3>1, <3>2, ZenonT(30)
    <2>8. ASSUME NEW f \in {Shell, Isr} \ {x} PROVE Fetched(f)'
      <3>1. CASE reg[f].cpu # c
        BY <3>1, <2>1, <2>2, <1>1, <1>2, SameFetched, ZenonT(30) DEF Found
      <3>2. CASE reg[f].cpu = c
        <4>1. Fetched(f)
          BY Zenon DEF Found
        <4>2. QED BY <4>1, <3>2, <1>2, <2>1, <2>4 DEF Fetched
      <3>3. QED BY <3>1, <3>2, ZenonT(30)
    <2>9. QED BY <2>6, <2>7, <2>8, <1>3, ZenonT(30) DEF Found
  <1>9. CASE PushStore(x)
    <2>1. /\ data' = data /\ tail' = [tail EXCEPT ![c] = Succ(tail[c])] /\ pc[x] = "store"
          /\ pc'[x] \notin {"write", "store"}
      BY <1>9, <1>1, ZenonT(30) DEF PushStore, NextByte, Goto, At
    <2>2. tail'[c] = Succ(tail[c]) /\ \A d \in Cpu \ {c} : tail'[d] = tail[d]
      BY <2>1, <1>4, ZenonT(30) DEF Types
    <2>3. Succ(tail[c]) # head[c]
      BY <2>1 DEF Found, Filled, Full
    <2>4. ASSUME NEW y \in Printer \ {x} PROVE Filled(y)'
      <3>1. CASE reg[y].cpu # c
        BY <3>1, <2>1, <2>2, <1>1, <1>2, SameFilled, Zenon DEF Found
      <3>2. CASE reg[y].cpu = c
        <4>1. pc[y] \notin {"write", "store"}
          BY <3>2, <2>1, ZenonT(30) DEF Exclusive, Filling
        <4>2. QED BY <4>1, <1>2 DEF Filled
      <3>3. QED BY <3>1, <3>2
    <2>5. ASSUME NEW f \in {Shell, Isr} \ {x} PROVE Fetched(f)'
      <3>1. CASE reg[f].cpu # c
        BY <3>1, <2>1, <2>2, <1>1, <1>2, SameFetched DEF Found
      <3>2. CASE reg[f].cpu = c
        <4>1. Fetched(f)
          BY DEF Found
        <4>2. pc'[f] = pc[f] /\ reg'[f] = reg[f] /\ head' = head /\ data' = data
          BY <1>2, <2>1, Zenon
        <4>3. tail'[c] # head'[c]
          BY <4>2, <2>2, <2>3, Zenon
        <4>4. QED BY <4>1, <4>2, <4>3, <3>2, Zenon DEF Fetched
      <3>3. QED BY <3>1, <3>2
    <2>6. QED BY <2>1, <2>4, <2>5, <1>3, <1>6, Zenon DEF Found
  <1>10. CASE PrintCall(x) \/ TakeLock(x) \/ Unlock(x) \/ DirectLock(x) \/ DirectSend(x) \/ Panic(x)
    <2>1. UNCHANGED <<tail, data>>
      BY <1>10, Zenon DEF PrintCall, TakeLock, Unlock, DirectLock, DirectSend, Panic, rings
    <2>2. pc'[x] \notin {"write", "store"}
      BY <1>10, <1>1 DEF PrintCall, TakeLock, Unlock, DirectLock, DirectSend, Panic, Goto, At
    <2>3. QED BY <2>1, <2>2, <1>5, <1>6
  <1>11. QED BY <1>7, <1>8, <1>9, <1>10, Zenon DEF Printing

\* What draining does to what the two sides have found.
LEMMA FlushFound ==
  ASSUME Types, Placed, Msgs, Exclusive, Found, NEW f \in {Shell, Isr}, Flush(f)
  PROVE  Found'
  <1> USE Constants
  <1>1. pc \in [Ctx -> Labels] /\ reg \in [Ctx -> Regs] /\ \A y \in Ctx : reg[y].cpu \in Cpu
    BY ZenonT(30) DEF Types, Regs
  <1>2. /\ \A y \in Ctx \ {f} : pc'[y] = pc[y] /\ reg'[y] = reg[y]
        /\ pc[f] \in Emptying /\ pc'[f] \in Emptying \union {"idle"} /\ UNCHANGED <<tail, data>>
    BY FlushDrains, ZenonT(30) DEF Drains
  <1>3. Filled(f)'
    BY <1>2, Zenon DEF Emptying, Filled
  <1> DEFINE c == reg[f].cpu
  <1>4. c \in Cpu
    BY <1>1
  <1>5. CASE head' = head
    <2>1. \A y \in Printer \ {f} : Filled(y)'
      BY <1>5, <1>2, SameFilled, ZenonT(30) DEF Found
    <2>2. \A g \in {Shell, Isr} \ {f} : Fetched(g)'
      BY <1>5, <1>2, SameFetched DEF Found
    <2>3. Fetched(f)'
      <3>1. CASE pc'[f] \notin {"f_read", "f_store"}
        BY <3>1, Zenon DEF Fetched
      <3>2. CASE FlushLoad(f)
        BY <3>2, <1>1, <1>2, <1>5, ZenonT(30) DEF FlushLoad, Goto, Fetched
      <3>3. CASE FlushRead(f)
        <4>1. pc[f] = "f_read" /\ reg' = [reg EXCEPT ![f].byte = data[c][head[c]]]
          BY <3>3, Zenon DEF FlushRead, At
        <4>2. reg'[f].cpu = c /\ reg'[f].byte = data[c][head[c]]
          BY <4>1, <1>1 DEF Regs
        <4>3. Fetched(f)
          BY Zenon DEF Found
        <4>4. QED BY <4>1, <4>2, <4>3, <1>2, <1>5, Zenon DEF Fetched
      <3>4. pc'[f] \in {"f_read", "f_store"} => FlushLoad(f) \/ FlushRead(f)
        BY <1>1, Zenon DEF Flush, FlushCheck, FlushTry, FlushDropped, FlushStore, FlushDone, FlushReturn, Goto
      <3>5. QED BY <3>1, <3>2, <3>3, <3>4, ZenonT(30)
    <2>4. QED BY <2>1, <2>2, <2>3, <1>3, ZenonT(30) DEF Found
  <1>6. CASE FlushStore(f)
    <2>1. /\ head' = [head EXCEPT ![c] = Succ(head[c])] /\ pc[f] = "f_store" /\ pc'[f] = "f_load"
      BY <1>6, <1>1, ZenonT(30) DEF FlushStore, Goto, At
    <2>2. head'[c] = Succ(head[c]) /\ \A d \in Cpu \ {c} : head'[d] = head[d]
      BY <2>1, <1>4, ZenonT(30) DEF Types
    <2>3. Succ(tail[c]) # Succ(head[c])
      BY <2>1, <1>4, Indices DEF Found, Fetched
    <2>4. ASSUME NEW y \in Printer \ {f} PROVE Filled(y)'
      <3>1. CASE reg[y].cpu # c
        BY <3>1, <2>1, <2>2, <1>1, <1>2, SameFilled, ZenonT(30) DEF Found
      <3>2. CASE reg[y].cpu = c
        <4>1. Filled(y)
          BY ZenonT(30) DEF Found
        <4>2. QED BY <4>1, <3>2, <1>2, <2>2, <2>3 DEF Filled, Full, TheByte
      <3>3. QED BY <3>1, <3>2, ZenonT(30)
    <2>5. \A g \in {Shell, Isr} : Fetched(g)'
      <3>1. OneFlusher
        BY PlacedApart, ZenonT(30)
      <3>2. \A g \in {Shell, Isr} : pc'[g] \notin {"f_read", "f_store"}
        BY <3>1, <2>1, <1>2, ZenonT(30) DEF OneFlusher, Draining
      <3>3. QED BY <3>2, Zenon DEF Fetched
    <2>6. QED BY <2>4, <2>5, <1>3 DEF Found
  <1>7. head' = head \/ FlushStore(f)
    BY Zenon DEF Flush, FlushCheck, FlushTry, FlushDropped, FlushLoad, FlushRead, FlushDone, rings
  <1>8. QED BY <1>5, <1>6, <1>7, Zenon

\* The inductive invariant.
LEMMA InitIInv == Init => IInv
  <1> SUFFICES ASSUME Init PROVE IInv
    BY Zenon
  <1>1. Types /\ Placed /\ Msgs
    BY InitPlaced, Zenon
  <1>2. \A x \in Ctx : pc[x] = "idle"
    BY ZenonT(30) DEF Init
  <1>3. Exclusive /\ Found
    BY <1>2, Constants, Zenon DEF Exclusive, Found, Filled, Fetched, Filling
  <1>4. QED BY <1>1, <1>3, Zenon DEF IInv

LEMMA StepIInv == IInv /\ [Next]_vars => IInv'
  <1> SUFFICES ASSUME IInv, [Next]_vars PROVE IInv'
    BY ZenonT(30)
  <1> USE DEF IInv
  <1>1. CASE UNCHANGED vars
    <2>1. UNCHANGED <<head, tail, data, pc, reg>>
      BY <1>1, ZenonT(30) DEF vars, rings
    <2>2. Found'
      BY <2>1, SameFilled, SameFetched, Zenon DEF Found
    <2>3. QED
      BY <1>1, <2>2, Zenon DEF vars, rings, ghosts, Types, Placed, Masked, Draining, Msgs, Exclusive
  <1>2. CASE Next
    <2>1. Placed' /\ Msgs' /\ Exclusive'
      BY <1>2, PlacedKept, ExclusiveKept, Zenon
    <2>2. Types'
      BY <1>2, PrintTypes, FlushTypes, OtherTypes DEF Next
    <2>3. ASSUME Enable \/ IsrEnter \/ FlushCall \/ \E c \in Cpu : Resched(c) PROVE Found'
      <3>1. UNCHANGED <<head, tail, data, reg>>
        BY <2>3, ZenonT(30) DEF Enable, IsrEnter, FlushCall, Resched, rings
      <3>2. \A y \in Ctx : pc'[y] = pc[y] \/ pc'[y] = "f_check"
        BY <2>3, Zenon DEF Enable, IsrEnter, FlushCall, Resched, Goto, Types
      <3>3. ASSUME NEW y \in Printer PROVE Filled(y)'
        <4>1. CASE pc'[y] = pc[y]
          BY <3>1, <4>1, SameFilled, Zenon DEF Found
        <4>2. CASE pc'[y] = "f_check"
          BY <4>2, Zenon DEF Filled
        <4>3. QED BY <3>2, <4>1, <4>2, Constants, ZenonT(30)
      <3>4. ASSUME NEW y \in {Shell, Isr} PROVE Fetched(y)'
        <4>1. CASE pc'[y] = pc[y]
          BY <3>1, <4>1, SameFetched, Zenon DEF Found
        <4>2. CASE pc'[y] = "f_check"
          BY <4>2, Zenon DEF Fetched
        <4>3. QED BY <3>2, <4>1, <4>2, Constants, Zenon
      <3>5. QED BY <3>3, <3>4, ZenonT(30) DEF Found
    <2>4. Found'
      BY <1>2, <2>3, PrintFound, FlushFound DEF Next
    <2>5. QED BY <2>1, <2>2, <2>4, Zenon
  <1>3. QED BY <1>1, <1>2, Zenon

\* IInv holds in every state that printing, flushing and panicking reach.
THEOREM Inductive == Spec => []IInv
BY InitIInv, StepIInv, PTL DEF Spec

\* The main loop and the timer interrupt never drain at the same time, although the
\* panic handler opens SERIAL1 by force (serial_flush_all, serial.rs).
THEOREM FlushersApart == Spec => []OneFlusher
<1>1. IInv => OneFlusher
  BY PlacedApart, Zenon DEF IInv
<1>2. QED BY <1>1, Inductive, PTL

-----------------------------------------------------------------------------
\* What a step does to the rings, seen as queues: push_byte appends or refuses,
\* pop_byte takes the first byte, nothing else touches them.
Same(c) == Queue(c)' = Queue(c)
Still == UNCHANGED <<sent, lost>> /\ \A d \in Cpu : Same(d)
Pushed(c, b) == /\ UNCHANGED <<sent, lost>> /\ Len(Queue(c)) < Size - 1
                /\ Queue(c)' = Append(Queue(c), b) /\ \A d \in Cpu \ {c} : Same(d)
Refused(c, b) == /\ UNCHANGED sent /\ lost' = [lost EXCEPT ![c] = @ \union {b}]
                 /\ Len(Queue(c)) = Size - 1 /\ \A d \in Cpu : Same(d)
Popped(c) == /\ UNCHANGED lost /\ sent' = [sent EXCEPT ![c] = @ \union {Head(Queue(c))}]
             /\ Queue(c) # <<>> /\ Queue(c)' = Tail(Queue(c)) /\ \A d \in Cpu \ {c} : Same(d)

\* A ring whose indices and slots stay is the same queue.
LEMMA SameRing ==
  ASSUME NEW c \in Cpu, head'[c] = head[c], tail'[c] = tail[c], data'[c] = data[c]
  PROVE  Same(c)
  BY Zenon DEF Same, Queue

\* Queue(c) and what it becomes, without remainders.
LEMMA QueueRing ==
  ASSUME Types, NEW c \in Cpu
  PROVE  Queue(c) = Ring(head[c], tail[c], data[c])
  BY Indices, QueueIs, ZenonT(30) DEF Queue

LEMMA QueueRingNext ==
  ASSUME Types', NEW c \in Cpu
  PROVE  Queue(c)' = Ring(head'[c], tail'[c], data'[c])
  <1>1. head'[c] \in Idx /\ tail'[c] \in Idx
    BY DEF Types, Idx
  <1>2. QED BY <1>1, QueueIs, Zenon DEF Queue

\* The steps of _print and of a panic.
LEMMA PrintQueues ==
  ASSUME IInv, Types', NEW x \in Printer, Printing(x) \/ Panic(x)
  PROVE  \E c \in Cpu : /\ c = reg[x].cpu
                        /\ \/ PushStore(x) /\ Pushed(c, TheByte(x))
                           \/ PushCheck(x) /\ Full(c) /\ Refused(c, TheByte(x))
                           \/ ~ PushStore(x) /\ ~ (PushCheck(x) /\ Full(c)) /\ Still
  <1> USE Constants DEF IInv
  <1>1. PICK c \in Cpu : c = reg[x].cpu
    BY ZenonT(30) DEF Types, Regs
  <1>2. /\ head[c] \in Idx /\ tail[c] \in Idx /\ data[c] \in [Idx -> Byte \union {Silence}]
        /\ Queue(c) = Ring(head[c], tail[c], data[c])
    BY Indices, QueueRing, ZenonT(30)
  <1>3. CASE PushStore(x)
    <2>1. /\ UNCHANGED <<head, data, sent, lost>> /\ tail' = [tail EXCEPT ![c] = Succ(tail[c])]
          /\ pc[x] = "store"
      BY <1>1, <1>3, ZenonT(30) DEF PushStore, At, ghosts
    <2>2. tail'[c] = Succ(tail[c]) /\ \A d \in Cpu \ {c} : tail'[d] = tail[d]
      BY <2>1, Zenon DEF Types
    <2>3. Succ(tail[c]) # head[c] /\ data[c][tail[c]] = TheByte(x)
      BY <2>1, <1>1, Zenon DEF Found, Filled, Full
    <2>4. Queue(c)' = Ring(head[c], Succ(tail[c]), data[c])
      BY <2>1, <2>2, QueueRingNext
    <2>5. Queue(c)' = Append(Queue(c), TheByte(x))
      <3>1. Ring(head[c], Succ(tail[c]), data[c])
              = Append(Ring(head[c], tail[c], data[c]), data[c][tail[c]])
        BY <1>2, <2>3, RingPush, Zenon
      <3>2. QED BY <1>2, <2>3, <2>4, <3>1, Zenon
    <2>6. Len(Queue(c)) < Size - 1
      BY <2>3, <1>2, RingLen, ZenonT(30)
    <2>7. \A d \in Cpu \ {c} : Same(d)
      BY <2>1, <2>2, SameRing
    <2>8. QED BY <1>1, <1>3, <2>1, <2>5, <2>6, <2>7, ZenonT(30) DEF Pushed
  <1>4. CASE PushCheck(x) /\ Full(c)
    <2>1. /\ UNCHANGED <<head, tail, data, sent>> /\ lost' = [lost EXCEPT ![c] = @ \union {TheByte(x)}]
      BY <1>1, <1>4, Zenon DEF PushCheck
    <2>2. Len(Queue(c)) = Size - 1
      <3>1. Succ(tail[c]) = head[c]
        BY <1>4 DEF Full
      <3>2. Len(Ring(head[c], tail[c], data[c])) = Size - 1
        BY <1>2, <3>1, RingFull, ZenonT(30)
      <3>3. QED BY <1>2, <3>2, Zenon
    <2>3. QED BY <1>1, <1>4, <2>1, <2>2, SameRing, ZenonT(30) DEF Refused
  <1>5. CASE PushWrite(x)
    <2>1. /\ UNCHANGED <<head, tail, sent, lost>> /\ pc[x] = "write"
          /\ data' = [data EXCEPT ![c][tail[c]] = TheByte(x)]
      BY <1>1, <1>5, ZenonT(30) DEF PushWrite, At, ghosts
    <2>2. data'[c] = [data[c] EXCEPT ![tail[c]] = TheByte(x)] /\ \A d \in Cpu \ {c} : data'[d] = data[d]
      BY <2>1 DEF Types
    <2>3. Queue(c)' = Ring(head[c], tail[c], data'[c])
      BY <2>1, QueueRingNext, Zenon
    <2>4. Same(c)
      <3>1. AgreeBut(tail[c], data[c], data'[c])
        BY <1>2, <2>2, ZenonT(30) DEF AgreeBut
      <3>2. head[c] \in Idx /\ tail[c] \in Idx
        BY <1>2, ZenonT(30)
      <3>3. Ring(head[c], tail[c], data'[c]) = Ring(head[c], tail[c], data[c])
        BY <3>1, <3>2, RingWrite, SMTT(30)
      <3>4. QED BY <1>2, <2>3, <3>3, ZenonT(30) DEF Same
    <2>5. \A d \in Cpu \ {c} : Same(d)
      BY <2>1, <2>2, SameRing, ZenonT(30)
    <2>6. ~ PushStore(x) /\ ~ PushCheck(x)
      BY <2>1, Zenon DEF PushStore, PushCheck, At
    <2>7. QED BY <1>1, <2>1, <2>4, <2>5, <2>6, ZenonT(30) DEF Still
  <1>6. CASE ~ PushStore(x) /\ ~ PushWrite(x) /\ ~ (PushCheck(x) /\ Full(c))
    <2>1. UNCHANGED <<head, tail, data, sent, lost>>
      BY <1>1, <1>6, ZenonT(30) DEF Printing, PrintCall, TakeLock, PushCheck, Unlock, DirectLock, DirectSend,
         Panic, rings, ghosts
    <2>2. QED BY <1>1, <1>6, <2>1, SameRing, ZenonT(30) DEF Still
  <1>7. QED BY <1>3, <1>4, <1>5, <1>6, Zenon

\* The steps of serial_flush_all.
LEMMA FlushQueues ==
  ASSUME IInv, Types', NEW f \in {Shell, Isr}, Flush(f)
  PROVE  \E c \in Cpu : Popped(c) \/ Still
  <1> USE Constants DEF IInv
  <1>1. PICK c \in Cpu : c = reg[f].cpu
    BY ZenonT(30) DEF Types, Regs
  <1>2. /\ head[c] \in Idx /\ tail[c] \in Idx
        /\ Queue(c) = Ring(head[c], tail[c], data[c])
    BY Indices, QueueRing, Zenon
  <1>3. CASE FlushStore(f)
    <2>1. /\ UNCHANGED <<tail, data, lost>> /\ head' = [head EXCEPT ![c] = Succ(head[c])]
          /\ pc[f] = "f_store"
          /\ sent' = [sent EXCEPT ![c] = @ \union {reg[f].byte}]
      BY <1>1, <1>3, ZenonT(30) DEF FlushStore, At
    <2>2. head'[c] = Succ(head[c]) /\ \A d \in Cpu \ {c} : head'[d] = head[d]
      BY <2>1, Zenon DEF Types
    <2>3. head[c] # tail[c] /\ reg[f].byte = data[c][head[c]]
      BY <2>1, <1>1, Zenon DEF Found, Fetched
    <2>4. Queue(c)' = Ring(Succ(head[c]), tail[c], data[c])
      BY <2>1, <2>2, QueueRingNext, Zenon
    <2>5. Queue(c) # <<>> /\ Head(Queue(c)) = data[c][head[c]] /\ Queue(c)' = Tail(Queue(c))
      <3>1. /\ Ring(head[c], tail[c], data[c]) # <<>>
            /\ Head(Ring(head[c], tail[c], data[c])) = data[c][head[c]]
            /\ Ring(Succ(head[c]), tail[c], data[c]) = Tail(Ring(head[c], tail[c], data[c]))
        BY <1>2, <2>3, RingPop, ZenonT(30)
      <3>2. QED BY <1>2, <2>4, <3>1, Zenon
    <2>6. \A d \in Cpu \ {c} : Same(d)
      BY <2>1, <2>2, SameRing, Zenon
    <2>7. QED BY <2>1, <2>3, <2>5, <2>6, Zenon DEF Popped
  <1>4. CASE ~ FlushStore(f)
    <2>1. UNCHANGED <<head, tail, data, sent, lost>>
      BY <1>4, Zenon DEF Flush, FlushCheck, FlushTry, FlushDropped, FlushLoad, FlushRead, FlushDone,
         rings, ghosts
    <2>2. QED BY <2>1, SameRing, Zenon DEF Still
  <1>5. QED BY <1>3, <1>4, Zenon

\* The four kinds of steps are steps of LossyFifo.
LEMMA QueueSteps ==
  ASSUME NEW c \in Cpu, NEW b \in Byte, Still \/ Pushed(c, b) \/ Refused(c, b) \/ Popped(c)
  PROVE  [Fifo!Next]_(Fifo!vars)
  <1> DEFINE q == [d \in Cpu |-> Queue(d)]
  <1>1. q' = [d \in Cpu |-> Queue(d)']
    BY Zenon
  <1>2. CASE Still
    <2>1. q' = q
      BY <1>1, <1>2, Zenon DEF Still, Same
    <2>2. QED BY <1>2, <2>1, Zenon DEF Still, Fifo!vars
  <1>3. CASE Pushed(c, b)
    <2>1. q' = [q EXCEPT ![c] = Append(@, b)] /\ q[c] = Queue(c)
      BY <1>1, <1>3, ZenonT(30) DEF Pushed, Same
    <2>2. Fifo!Accept(c, b)
      BY <1>3, <2>1, Zenon DEF Pushed, Fifo!Accept
    <2>3. QED BY <2>2, Zenon DEF Fifo!Next
  <1>4. CASE Refused(c, b)
    <2>1. q' = q /\ q[c] = Queue(c)
      BY <1>1, <1>4, Zenon DEF Refused, Same
    <2>2. Fifo!Refuse(c, b)
      BY <1>4, <2>1, Zenon DEF Refused, Fifo!Refuse
    <2>3. QED BY <2>2, Zenon DEF Fifo!Next
  <1>5. CASE Popped(c)
    <2>1. q' = [q EXCEPT ![c] = Tail(@)] /\ q[c] = Queue(c)
      BY <1>1, <1>5, ZenonT(30) DEF Popped, Same
    <2>2. Fifo!Take(c)
      BY <1>5, <2>1, Zenon DEF Popped, Fifo!Take
    <2>3. QED BY <2>2, Zenon DEF Fifo!Next
  <1>6. QED BY <1>2, <1>3, <1>4, <1>5, Zenon

\* Every step of the system is one of the rings' specification, or none.
LEMMA StepFifo == IInv /\ IInv' /\ [Next]_vars => [Fifo!Next]_(Fifo!vars)
  <1> SUFFICES ASSUME IInv, IInv', [Next]_vars PROVE [Fifo!Next]_(Fifo!vars)
    BY ZenonT(30)
  <1> USE Constants
  <1>1. [by |-> Shell, msg |-> 0, i |-> 1] \in Byte
    <2>1. [by |-> Shell, msg |-> 0, i |-> 1] \in [by : {Shell}, msg : 0 .. MaxMsgs[Shell], i : 1 .. MsgLen]
      BY SerialAssumption, SMTT(30)
    <2>2. QED BY <2>1, Zenon DEF Byte
  <1>2. CASE Still
    BY <1>1, <1>2, QueueSteps, Zenon
  <1>3. ASSUME NEW x \in Printer, Printing(x) \/ Panic(x) PROVE [Fifo!Next]_(Fifo!vars)
    <2>1. PICK c \in Cpu : /\ c = reg[x].cpu
                           /\ \/ PushStore(x) /\ Pushed(c, TheByte(x))
                              \/ PushCheck(x) /\ Full(c) /\ Refused(c, TheByte(x))
                              \/ ~ PushStore(x) /\ ~ (PushCheck(x) /\ Full(c)) /\ Still
      BY <1>3, PrintQueues, ZenonT(30) DEF IInv
    <2>2. CASE PushStore(x) \/ PushCheck(x)
      <3>1. PICK b \in Byte : b = TheByte(x)
        BY <2>2, ByteOf, Zenon DEF IInv, PushStore, PushCheck, At
      <3>2. Pushed(c, b) \/ Refused(c, b) \/ Still
        BY <2>1, <3>1, ZenonT(30)
      <3>3. QED BY <3>2, QueueSteps, Zenon
    <2>3. QED BY <2>1, <2>2, <1>2, Zenon
  <1>4. ASSUME NEW f \in {Shell, Isr}, Flush(f) PROVE [Fifo!Next]_(Fifo!vars)
    <2>1. PICK c \in Cpu : Popped(c) \/ Still
      BY <1>4, FlushQueues, Zenon DEF IInv
    <2>2. QED BY <2>1, <1>1, QueueSteps, Zenon
  <1>5. CASE Enable \/ IsrEnter \/ FlushCall \/ (\E c \in Cpu : Resched(c)) \/ UNCHANGED vars
    <2>1. UNCHANGED <<head, tail, data, sent, lost>>
      BY <1>5, ZenonT(30) DEF Enable, IsrEnter, FlushCall, Resched, vars, rings, ghosts
    <2>2. QED BY <2>1, <1>2, SameRing, ZenonT(30) DEF Still
  <1>6. QED BY <1>3, <1>4, <1>5, Zenon DEF Next

\* All rings are empty at boot.
LEMMA InitFifo == Init => Fifo!Init
  <1> SUFFICES ASSUME Init PROVE Fifo!Init
    OBVIOUS
  <1>1. ASSUME NEW c \in Cpu PROVE Queue(c) = <<>>
    <2>1. head[c] = 0 /\ tail[c] = 0 /\ 0 \in Idx
      BY SerialAssumption DEF Init, Idx
    <2>2. Queue(c) = Ring(0, 0, data[c])
      <3>1. Queue(c) = Ring(head[c], tail[c], data[c])
        BY InitPlaced, QueueRing, Zenon
      <3>2. QED BY <2>1, <3>1, Zenon
    <2>3. Steps(0, 0) = 0
      BY DEF Steps
    <2>4. QED BY <2>2, <2>3, SMTT(30) DEF Ring
  <1>2. [c \in Cpu |-> Queue(c)] = [c \in Cpu |-> <<>>]
    BY <1>1, Zenon
  <1>3. QED BY <1>2, Zenon DEF Init, Fifo!Init

\* Every ring is a bounded queue: what push_byte accepted leaves in its order, once,
\* although producer and consumer share no lock and the producer may have left the
\* CPU the ring belongs to (push_byte and pop_byte, serial.rs).
THEOREM RingsRefine == Spec => RingsAreFifos
<1>1. Init => Fifo!Init
  BY InitFifo, Zenon
<1>2. IInv /\ IInv' /\ [Next]_vars => [Fifo!Next]_(Fifo!vars)
  BY StepFifo, ZenonT(30)
<1>3. QED BY <1>1, <1>2, Inductive, PTL DEF Spec, RingsAreFifos, Fifo!Spec

-----------------------------------------------------------------------------
\* Accounted, byte by byte, and what makes it inductive: no ring holds a byte twice,
\* a printer at the end of its message has pushed its last byte, and messages of
\* contexts that have not panicked are numbered from 1.
Said(b) == \E x \in Printer : b \in Printed(x)
Held(b) == b \in direct \/ \E c \in Cpu : b \in Queued(c) \/ b \in sent[c] \/ b \in lost[c]
Once(s) == \A j, k \in DOMAIN s : s[j] = s[k] => j = k
Balance ==
  /\ \A b : Said(b) <=> Held(b)
  /\ \A c \in Cpu : Once(Queue(c)) /\ \A b \in Queued(c) : b \notin sent[c] /\ b \notin lost[c]
Books ==
  /\ \A x \in Printer : reg[x].panic => panicking
  /\ \A x \in Printer : ~ reg[x].panic => reg[x].msg # 0
  /\ \A x \in Printer : pc[x] = "unlock" => reg[x].i = MsgLen
  /\ ~ panicking => Balance

LEMMA BooksAccounted == Books => Accounted
  <1> SUFFICES ASSUME Books, ~ panicking
               PROVE  /\ UNION {Printed(x) : x \in Printer} =
                           direct \union UNION {Queued(c) \union sent[c] \union lost[c] : c \in Cpu}
                      /\ \A c \in Cpu : Queued(c) \intersect (sent[c] \union lost[c]) = {}
    BY Zenon DEF Accounted
  <1>1. Balance
    BY Zenon DEF Books
  <1> DEFINE L == UNION {Printed(x) : x \in Printer}
             R == direct \union UNION {Queued(c) \union sent[c] \union lost[c] : c \in Cpu}
  <1>2. \A b : b \in L <=> Said(b)
    BY Zenon DEF Said
  <1>3. \A b : b \in R <=> Held(b)
    <2> DEFINE H(c) == Queued(c) \union sent[c] \union lost[c]
    <2>1. \A b, c : b \in H(c) <=> b \in Queued(c) \/ b \in sent[c] \/ b \in lost[c]
      BY Zenon
    <2>2. R = direct \union UNION {H(c) : c \in Cpu}
      BY Zenon
    <2> HIDE DEF H, R
    <2>3. \A b : b \in R <=> b \in direct \/ \E c \in Cpu : b \in H(c)
      BY <2>2, ZenonT(30)
    <2>4. QED BY <2>1, <2>3, Zenon DEF Held
  <1>4. \A b : b \in L <=> b \in R
    BY <1>1, <1>2, <1>3, Zenon DEF Balance
  <1> HIDE DEF L, R
  <1>5. L = R
    BY <1>4, ZenonT(30)
  <1>6. \A c \in Cpu : Queued(c) \intersect (sent[c] \union lost[c]) = {}
    BY <1>1, ZenonT(30) DEF Balance
  <1>7. QED BY <1>5, <1>6, ZenonT(30) DEF L, R

\* Appending a new byte and taking the first one off, to a sequence without
\* repetitions.
LEMMA OnceAppend ==
  ASSUME NEW S, NEW s \in Seq(S), NEW b \in S, Once(s), \A j \in DOMAIN s : s[j] # b
  PROVE  /\ Once(Append(s, b))
         /\ \A e : (\E j \in DOMAIN Append(s, b) : Append(s, b)[j] = e)
                     <=> e = b \/ \E j \in DOMAIN s : s[j] = e
  <1>1. /\ Len(s) \in Nat /\ DOMAIN s = 1 .. Len(s) /\ DOMAIN Append(s, b) = 1 .. Len(s) + 1
        /\ Append(s, b)[Len(s) + 1] = b /\ \A j \in 1 .. Len(s) : Append(s, b)[j] = s[j]
    OBVIOUS
  <1>2. QED BY <1>1 DEF Once

LEMMA OnceTail ==
  ASSUME NEW S, NEW s \in Seq(S), s # <<>>, Once(s)
  PROVE  /\ Once(Tail(s))
         /\ \A e : (\E j \in DOMAIN Tail(s) : Tail(s)[j] = e)
                     <=> e # Head(s) /\ \E j \in DOMAIN s : s[j] = e
  <1>1. /\ Len(s) \in Nat \ {0} /\ DOMAIN s = 1 .. Len(s) /\ DOMAIN Tail(s) = 1 .. Len(s) - 1
        /\ Head(s) = s[1] /\ \A j \in 1 .. Len(s) - 1 : Tail(s)[j] = s[j + 1]
    OBVIOUS
  <1>2. \A j \in 2 .. Len(s) : j - 1 \in 1 .. Len(s) - 1 /\ Tail(s)[j - 1] = s[j]
    BY <1>1
  <1>3. \A j \in 1 .. Len(s) : s[j] = s[1] => j = 1
    BY <1>1 DEF Once
  <1>4. Once(Tail(s))
    BY <1>1 DEF Once
  <1>5. ASSUME NEW e, NEW j \in DOMAIN Tail(s), Tail(s)[j] = e
        PROVE  e # Head(s) /\ \E k \in DOMAIN s : s[k] = e
    BY <1>5, <1>1, <1>3, SMTT(30)
  <1>6. ASSUME NEW e, e # Head(s), NEW j \in DOMAIN s, s[j] = e
        PROVE  \E k \in DOMAIN Tail(s) : Tail(s)[k] = e
    <2>1. j \in 2 .. Len(s)
      BY <1>1, <1>6
    <2>2. j - 1 \in DOMAIN Tail(s) /\ Tail(s)[j - 1] = e
      BY <1>1, <1>2, <1>6, <2>1, ZenonT(30)
    <2>3. QED BY <2>2, Zenon
  <1>7. QED BY <1>4, <1>5, <1>6, Zenon

\* What each kind of step does to what a ring holds.
LEMMA QueuedIs ==
  ASSUME Types, NEW c \in Cpu
  PROVE  /\ Queue(c) \in Seq(Byte \union {Silence})
         /\ \A b : b \in Queued(c) <=> \E j \in DOMAIN Queue(c) : Queue(c)[j] = b
  <1>1. /\ head[c] \in Idx /\ tail[c] \in Idx /\ data[c] \in [Idx -> Byte \union {Silence}]
        /\ Queue(c) = Ring(head[c], tail[c], data[c])
    BY Indices, QueueRing, ZenonT(30)
  <1>2. Queue(c) \in Seq({data[c][k] : k \in Idx})
    BY <1>1, RingLen, SMTT(30)
  <1>3. {data[c][k] : k \in Idx} \subseteq Byte \union {Silence}
    BY <1>1, Zenon
  <1>4. Queue(c) \in Seq(Byte \union {Silence})
    BY <1>2, <1>3, SMTT(30)
  <1>5. QED BY <1>4, ZenonT(30) DEF Queued

LEMMA SameQueued ==
  ASSUME NEW c \in Cpu, Same(c)
  PROVE  Queued(c)' = Queued(c) /\ (Once(Queue(c))' <=> Once(Queue(c)))
  BY ZenonT(30) DEF Same, Queued, Once

LEMMA PushedQueued ==
  ASSUME Types, NEW c \in Cpu, NEW b \in Byte, Pushed(c, b), Once(Queue(c)), b \notin Queued(c)
  PROVE  Queued(c)' = Queued(c) \union {b} /\ Once(Queue(c))'
  <1>1. Queue(c) \in Seq(Byte \union {Silence}) /\ \A j \in DOMAIN Queue(c) : Queue(c)[j] # b
    BY QueuedIs, Zenon
  <1>2. Queue(c)' = Append(Queue(c), b)
    BY ZenonT(30) DEF Pushed
  <1> DEFINE s == Queue(c)
             r == Append(s, b)
  <1>3. Once(r) /\ \A e : (\E j \in DOMAIN r : r[j] = e) <=> e = b \/ \E j \in DOMAIN s : s[j] = e
    <2> DEFINE S == Byte \union {Silence}
    <2>1. b \in S
      BY Zenon
    <2>2. s \in Seq(S)
      BY <1>1, Zenon
    <2>3. Once(s)
      BY Zenon
    <2>4. \A j \in DOMAIN s : s[j] # b
      BY <1>1, Zenon
    <2>5. r = Append(s, b)
      BY Zenon
    <2> HIDE DEF s, S, r
    <2>6. QED BY <2>1, <2>2, <2>3, <2>4, <2>5, OnceAppend, SMTT(10)
  <1>4. Queued(c)' = {r[j] : j \in DOMAIN r}
    BY <1>2, Zenon DEF Queued
  <1>5. Queued(c) = {s[j] : j \in DOMAIN s}
    BY ZenonT(30) DEF Queued
  <1>6. Once(Queue(c))' <=> Once(r)
    BY <1>2, ZenonT(30) DEF Once
  <1> HIDE DEF r, s
  <1>7. \A e : e \in {r[j] : j \in DOMAIN r} <=> e \in {s[j] : j \in DOMAIN s} \union {b}
    BY <1>3, ZenonT(30)
  <1>8. {r[j] : j \in DOMAIN r} = {s[j] : j \in DOMAIN s} \union {b}
    BY <1>7, ZenonT(30)
  <1>9. QED BY <1>3, <1>4, <1>5, <1>6, <1>8, ZenonT(30)

LEMMA PoppedQueued ==
  ASSUME Types, NEW c \in Cpu, Popped(c), Once(Queue(c))
  PROVE  /\ Queued(c)' = Queued(c) \ {Head(Queue(c))} /\ Once(Queue(c))'
         /\ Head(Queue(c)) \in Queued(c)
  <1>1. Queue(c) \in Seq(Byte \union {Silence}) /\ Queue(c) # <<>> /\ Queue(c)' = Tail(Queue(c))
    BY QueuedIs, ZenonT(30) DEF Popped
  <1> DEFINE s == Queue(c)
             r == Tail(s)
  <1>2. Once(r) /\ \A e : (\E j \in DOMAIN r : r[j] = e) <=> e # Head(s) /\ \E j \in DOMAIN s : s[j] = e
    BY <1>1, OnceTail, ZenonT(30)
  <1>3. Queued(c)' = {r[j] : j \in DOMAIN r}
    BY <1>1, Zenon DEF Queued
  <1>4. Queued(c) = {s[j] : j \in DOMAIN s}
    BY ZenonT(30) DEF Queued
  <1>5. Once(Queue(c))' <=> Once(r)
    BY <1>1, Zenon DEF Once
  <1>6. 1 \in DOMAIN s /\ Head(s) = s[1]
    BY <1>1, SMTT(30)
  <1> HIDE DEF r, s
  <1>7. \A e : e \in {r[j] : j \in DOMAIN r} <=> e \in {s[j] : j \in DOMAIN s} \ {Head(s)}
    BY <1>2, ZenonT(30)
  <1>8. {r[j] : j \in DOMAIN r} = {s[j] : j \in DOMAIN s} \ {Head(s)}
    BY <1>7, ZenonT(30)
  <1>9. Head(s) \in {s[j] : j \in DOMAIN s}
    BY <1>6, Zenon
  <1>10. QED BY <1>2, <1>3, <1>4, <1>5, <1>8, <1>9, ZenonT(30) DEF s

-----------------------------------------------------------------------------
\* The bytes of a context are known by message and place.
LEMMA ByteFields ==
  ASSUME NEW b \in Byte
  PROVE  /\ b.msg \in Nat /\ b.i \in 1 .. MsgLen /\ b.by \in Printer
         /\ b = [by |-> b.by, msg |-> b.msg, i |-> b.i]
  <1>1. PICK x \in Printer : b \in [by : {x}, msg : 0 .. MaxMsgs[x], i : 1 .. MsgLen]
    BY Zenon DEF Byte
  <1>2. MaxMsgs[x] \in Nat
    BY SerialAssumption, ZenonT(30)
  <1>3. QED BY <1>1, <1>2, SMTT(30)

\* A context that stays at its byte has printed what it had.
Quiet(x) == Printed(x)' = Printed(x)
LEMMA QuietStays ==
  ASSUME NEW x \in Printer, reg'[x].msg = reg[x].msg, reg'[x].i = reg[x].i,
         pc'[x] = "unlock" <=> pc[x] = "unlock"
  PROVE  Quiet(x)
  BY ZenonT(30) DEF Quiet, Printed

\* The guard's drop goes on to the next message.
LEMMA QuietUnlocks ==
  ASSUME Types, NEW x \in Printer, Unlock(x), ~ reg[x].panic, reg[x].i = MsgLen, reg[x].msg # 0
  PROVE  Quiet(x)
  <1> DEFINE m == reg[x].msg
  <1>1. /\ pc[x] = "unlock" /\ pc'[x] = "idle" /\ reg'[x].msg = m + 1 /\ reg'[x].i = 1 /\ m \in Nat \ {0}
    <2>1. reg \in [Ctx -> Regs] /\ pc \in [Ctx -> Labels] /\ x \in Ctx
      BY Constants, ZenonT(30) DEF Types
    <2>2. QED BY <2>1, ZenonT(30) DEF Unlock, At, Goto, Regs
  <1>2. Printed(x) = {b \in Byte : b.by = x /\ (b.msg \in 1 .. m - 1 \/ (b.msg = m /\ b.i < MsgLen + 1))}
    BY <1>1, ZenonT(30) DEF Printed
  <1>3. Printed(x)' = {b \in Byte : b.by = x /\ (b.msg \in 1 .. m + 1 - 1 \/ (b.msg = m + 1 /\ b.i < 1 + 0))}
    BY <1>1, SMTT(30) DEF Printed
  <1> HIDE DEF m
  <1>4. ASSUME NEW b \in Byte
        PROVE  (b.msg \in 1 .. m - 1 \/ (b.msg = m /\ b.i < MsgLen + 1))
                 <=> (b.msg \in 1 .. m + 1 - 1 \/ (b.msg = m + 1 /\ b.i < 1 + 0))
    BY <1>1, ByteFields, SerialAssumption, SMTT(30) DEF m
  <1>5. QED BY <1>2, <1>3, <1>4, Zenon DEF Quiet

\* The printer goes past a byte.
Says(x, e) == Printed(x)' = Printed(x) \union {e} /\ e \in Byte /\ e \notin Printed(x)

\* To the next byte of the message, or to its end.
LEMMA SaysNext ==
  ASSUME Types, Msgs, NEW x \in Printer, pc[x] \in {"check", "store"}, NextByte(x)
  PROVE  Says(x, TheByte(x))
  <1> DEFINE m == reg[x].msg
             n == reg[x].i
  <1>1. reg \in [Ctx -> Regs] /\ pc \in [Ctx -> Labels] /\ x \in Ctx
    BY Constants, Zenon DEF Types
  <1>2. m \in Nat /\ n \in 1 .. MsgLen
    BY <1>1, ZenonT(30) DEF Regs
  <1>3. TheByte(x) = [by |-> x, msg |-> m, i |-> n] /\ TheByte(x) \in Byte
    BY ByteOf, ZenonT(30) DEF TheByte
  <1>4. reg'[x].msg = m /\ reg'[x].i + (IF pc'[x] = "unlock" THEN 1 ELSE 0) = n + 1
    <2>1. CASE n = MsgLen
      BY <2>1, <1>1, <1>2, Zenon DEF NextByte, Goto
    <2>2. CASE n # MsgLen
      BY <2>2, <1>1, <1>2, SMTT(30) DEF NextByte, Goto, Regs
    <2>3. QED BY <2>1, <2>2, Zenon
  <1>5. Printed(x) = {b \in Byte : b.by = x /\ (b.msg \in 1 .. m - 1 \/ (b.msg = m /\ b.i < n + 0))}
    BY ZenonT(30) DEF Printed
  <1>6. Printed(x)' = {b \in Byte : b.by = x /\ (b.msg \in 1 .. m - 1 \/ (b.msg = m /\ b.i < n + 1))}
    BY <1>4, ZenonT(30) DEF Printed
  <1> HIDE DEF m, n
  <1>7. ASSUME NEW b \in Byte
        PROVE  b.by = x /\ (b.msg \in 1 .. m - 1 \/ (b.msg = m /\ b.i < n + 1))
                 <=> \/ b.by = x /\ (b.msg \in 1 .. m - 1 \/ (b.msg = m /\ b.i < n + 0))
                     \/ b = TheByte(x)
    BY <1>2, <1>3, ByteFields, SMTT(30)
  <1>8. TheByte(x) \notin Printed(x)
    BY <1>2, <1>3, <1>5
  <1>9. Printed(x)' = Printed(x) \union {TheByte(x)}
    BY <1>3, <1>5, <1>6, <1>7, ZenonT(30)
  <1>10. QED BY <1>3, <1>8, <1>9, ZenonT(30) DEF Says

\* A byte straight to the UART.
LEMMA SaysDirect ==
  ASSUME Types, Msgs, NEW x \in Printer, DirectSend(x), ~ reg[x].panic, reg[x].msg # 0
  PROVE  Says(x, TheByte(x))
  <1> DEFINE m == reg[x].msg
             n == reg[x].i
  <1>1. reg \in [Ctx -> Regs] /\ pc \in [Ctx -> Labels] /\ x \in Ctx
    BY Constants, Zenon DEF Types
  <1>2. m \in Nat \ {0} /\ n \in 1 .. MsgLen /\ pc[x] = "d_send" /\ pc'[x] # "unlock"
    BY <1>1, ZenonT(30) DEF Regs, DirectSend, At, Goto
  <1>3. TheByte(x) = [by |-> x, msg |-> m, i |-> n] /\ TheByte(x) \in Byte
    BY <1>2, ByteOf, Zenon DEF TheByte
  <1>4. /\ n = MsgLen => reg'[x].msg = m + 1 /\ reg'[x].i = 1
        /\ n # MsgLen => reg'[x].msg = m /\ reg'[x].i = n + 1
    BY <1>1, <1>2, SMTT(30) DEF DirectSend, Regs
  <1>5. Printed(x) = {b \in Byte : b.by = x /\ (b.msg \in 1 .. m - 1 \/ (b.msg = m /\ b.i < n + 0))}
    BY <1>2, ZenonT(30) DEF Printed
  <1>6. TheByte(x) \notin Printed(x)
    BY <1>2, <1>3, <1>5, SMTT(30)
  <1>7. CASE n # MsgLen
    <2>1. Printed(x)' = {b \in Byte : b.by = x /\ (b.msg \in 1 .. m - 1 \/ (b.msg = m /\ b.i < n + 1 + 0))}
      BY <1>7, <1>2, <1>4, ZenonT(30) DEF Printed
    <2> HIDE DEF m, n
    <2>2. ASSUME NEW b \in Byte
          PROVE  b.by = x /\ (b.msg \in 1 .. m - 1 \/ (b.msg = m /\ b.i < n + 1 + 0))
                   <=> \/ b.by = x /\ (b.msg \in 1 .. m - 1 \/ (b.msg = m /\ b.i < n + 0))
                       \/ b = TheByte(x)
      BY <1>2, <1>3, ByteFields, SMTT(30)
    <2>3. Printed(x)' = Printed(x) \union {TheByte(x)}
      BY <1>3, <1>5, <2>1, <2>2, ZenonT(30)
    <2>4. QED BY <1>3, <1>6, <2>3, ZenonT(30) DEF Says
  <1>8. CASE n = MsgLen
    <2>1. Printed(x)' = {b \in Byte : b.by = x /\ (b.msg \in 1 .. m + 1 - 1 \/ (b.msg = m + 1 /\ b.i < 1 + 0))}
      BY <1>8, <1>2, <1>4, SMTT(30) DEF Printed
    <2> HIDE DEF m, n
    <2>2. ASSUME NEW b \in Byte
          PROVE  b.by = x /\ (b.msg \in 1 .. m + 1 - 1 \/ (b.msg = m + 1 /\ b.i < 1 + 0))
                   <=> \/ b.by = x /\ (b.msg \in 1 .. m - 1 \/ (b.msg = m /\ b.i < n + 0))
                       \/ b = TheByte(x)
      BY <1>8, <1>2, <1>3, ByteFields, SerialAssumption, SMTT(30)
    <2>3. Printed(x)' = Printed(x) \union {TheByte(x)}
      BY <1>3, <1>5, <2>1, <2>2, Zenon
    <2>4. QED BY <1>3, <1>6, <2>3 DEF Says
  <1>9. QED BY <1>7, <1>8, ZenonT(30)

-----------------------------------------------------------------------------
\* Nothing is printed and nothing moves, or a byte moves from a ring to the UART.
LEMMA BalanceKept ==
  ASSUME Types, Balance, UNCHANGED direct, \A x \in Printer : Quiet(x),
         Still \/ \E c \in Cpu : Popped(c)
  PROVE  Balance'
  <1>1. \A b : Said(b)' <=> Said(b)
    BY Zenon DEF Said, Quiet
  <1>2. CASE Still
    <2>1. \A c \in Cpu : Queued(c)' = Queued(c) /\ (Once(Queue(c))' <=> Once(Queue(c)))
      BY <1>2, SameQueued, Zenon DEF Still
    <2>2. QED BY <1>1, <1>2, <2>1, Zenon DEF Balance, Held, Still
  <1>3. ASSUME NEW c \in Cpu, Popped(c) PROVE Balance'
    <2>1. PICK h : h = Head(Queue(c))
      BY Zenon
    <2>2. Queued(c)' = Queued(c) \ {h} /\ Once(Queue(c))' /\ h \in Queued(c)
      BY <1>3, <2>1, PoppedQueued, ZenonT(30) DEF Balance
    <2>3. \A d \in Cpu \ {c} : Queued(d)' = Queued(d) /\ (Once(Queue(d))' <=> Once(Queue(d)))
      BY <1>3, SameQueued, ZenonT(30) DEF Popped
    <2>4. /\ lost' = lost /\ sent'[c] = sent[c] \union {h} /\ \A d \in Cpu \ {c} : sent'[d] = sent[d]
      BY <1>3, <2>1, ZenonT(30) DEF Popped, Types
    <2>5. \A b : Held(b)' <=> Held(b)
      BY <2>2, <2>3, <2>4, ZenonT(30) DEF Held
    <2>6. \A d \in Cpu : Once(Queue(d))' /\ \A b \in Queued(d)' : b \notin sent'[d] /\ b \notin lost'[d]
      BY <2>2, <2>3, <2>4, ZenonT(30) DEF Balance
    <2>7. QED BY <1>1, <2>5, <2>6, ZenonT(30) DEF Balance
  <1>4. QED BY <1>2, <1>3, Zenon

\* A byte is printed: into a ring, to the count of a full one, or to the UART.
LEMMA BalanceSays ==
  ASSUME Types, Balance, NEW x \in Printer, NEW e, Says(x, e),
         \A y \in Printer \ {x} : Quiet(y), NEW c \in Cpu,
         \/ UNCHANGED direct /\ (Pushed(c, e) \/ Refused(c, e))
         \/ direct' = direct \union {e} /\ Still
  PROVE  Balance'
  <1>1. \A b : Said(b)' <=> Said(b) \/ b = e
    BY Zenon DEF Said, Quiet, Says
  <1>2. ~ Said(e)
    <2>1. \A y \in Printer : e \in Printed(y) => y = x
      <3> SUFFICES ASSUME NEW y \in Printer, e \in Printed(y) PROVE y = x
        BY ZenonT(30)
      <3>1. e.by = y
        BY Zenon DEF Printed
      <3>2. e \in Printed(x)'
        BY ZenonT(30) DEF Says
      <3>3. e.by = x
        BY <3>2 DEF Printed
      <3>4. QED BY <3>1, <3>3, ZenonT(30)
    <2>2. QED BY <2>1 DEF Said, Says
  <1>3. ~ Held(e) /\ e \in Byte
    BY <1>2, Zenon DEF Balance, Says
  <1>4. CASE Pushed(c, e) /\ UNCHANGED direct
    <2>1. Queued(c)' = Queued(c) \union {e} /\ Once(Queue(c))'
      BY <1>3, <1>4, PushedQueued, ZenonT(30) DEF Balance, Held
    <2>2. \A d \in Cpu \ {c} : Queued(d)' = Queued(d) /\ (Once(Queue(d))' <=> Once(Queue(d)))
      BY <1>4, SameQueued, ZenonT(30) DEF Pushed
    <2>3. UNCHANGED <<sent, lost>>
      BY <1>4 DEF Pushed
    <2>4. \A b : Held(b)' <=> Held(b) \/ b = e
      BY <1>4, <2>1, <2>2, <2>3, Zenon DEF Held
    <2>5. \A d \in Cpu : Once(Queue(d))' /\ \A b \in Queued(d)' : b \notin sent'[d] /\ b \notin lost'[d]
      BY <1>3, <2>1, <2>2, <2>3, ZenonT(30) DEF Balance, Held
    <2>6. QED BY <1>1, <2>4, <2>5, Zenon DEF Balance
  <1>5. CASE Refused(c, e) /\ UNCHANGED direct
    <2>1. \A d \in Cpu : Queued(d)' = Queued(d) /\ (Once(Queue(d))' <=> Once(Queue(d)))
      BY <1>5, SameQueued, ZenonT(30) DEF Refused
    <2>2. /\ sent' = sent /\ lost'[c] = lost[c] \union {e} /\ \A d \in Cpu \ {c} : lost'[d] = lost[d]
      BY <1>5 DEF Refused, Types
    <2>3. \A b : Held(b)' <=> Held(b) \/ b = e
      BY <1>5, <2>1, <2>2, Zenon DEF Held
    <2>4. \A d \in Cpu : Once(Queue(d))' /\ \A b \in Queued(d)' : b \notin sent'[d] /\ b \notin lost'[d]
      <3> TAKE d \in Cpu
      <3>1. e \notin Queued(d)
        BY <1>3 DEF Held
      <3>2. Once(Queue(d)) /\ \A b \in Queued(d) : b \notin sent[d] /\ b \notin lost[d]
        BY Zenon DEF Balance
      <3>3. QED BY <2>1, <2>2, <3>1, <3>2, ZenonT(30)
    <2>5. QED BY <1>1, <2>3, <2>4, Zenon DEF Balance
  <1>6. CASE direct' = direct \union {e} /\ Still
    <2>1. \A d \in Cpu : Queued(d)' = Queued(d) /\ (Once(Queue(d))' <=> Once(Queue(d)))
      BY <1>6, SameQueued DEF Still
    <2>2. \A b : Held(b)' <=> Held(b) \/ b = e
      BY <1>6, <2>1, ZenonT(30) DEF Held, Still
    <2>3. QED BY <1>1, <1>6, <2>1, <2>2, ZenonT(30) DEF Balance, Still
  <1>7. QED BY <1>4, <1>5, <1>6, ZenonT(30)

\* Printing keeps the books.
LEMMA PrintBooks ==
  ASSUME IInv, Types', Books, NEW x \in Printer, Printing(x) \/ Panic(x)
  PROVE  Books'
  <1> USE Constants
  <1>1. Types /\ Placed /\ Msgs /\ reg \in [Ctx -> Regs] /\ pc \in [Ctx -> Labels] /\ x \in Ctx
    BY ZenonT(30) DEF IInv, Types
  <1>2. \A y \in Ctx \ {x} : pc'[y] = pc[y] /\ reg'[y] = reg[y]
    BY <1>1, PrintingTalks, Zenon DEF Talks
  <1>3. reg[x] \in Regs
    BY <1>1
  <1>4. /\ reg'[x].panic => panicking'
        /\ ~ reg'[x].panic => reg'[x].msg # 0
        /\ pc'[x] = "unlock" => reg'[x].i = MsgLen
        /\ panicking => panicking'
    <2>1. CASE Panic(x)
      BY <2>1, <1>1, <1>3, Zenon DEF Panic, Goto, Regs
    <2>2. CASE PrintCall(x) \/ TakeLock(x) \/ PushWrite(x) \/ DirectLock(x)
      BY <2>2, <1>1, <1>3 DEF PrintCall, TakeLock, PushWrite, DirectLock, Goto, Books, Regs
    <2>3. CASE PushCheck(x) \/ PushStore(x)
      BY <2>3, <1>1, <1>3 DEF PushCheck, PushStore, NextByte, Goto, Books, Regs
    <2>4. CASE Unlock(x) \/ DirectSend(x)
      BY <2>4, <1>1, <1>3, SMTT(30) DEF Unlock, DirectSend, Goto, At, Books, Regs
    <2>5. QED BY <2>1, <2>2, <2>3, <2>4, Zenon DEF Printing
  <1>5. ASSUME ~ panicking' PROVE Balance'
    <2>1. ~ panicking /\ Balance /\ ~ reg[x].panic /\ reg[x].msg # 0 /\ ~ Panic(x)
      BY <1>4, <1>5, ZenonT(30) DEF Books, Panic
    <2>2. PICK c \in Cpu : /\ c = reg[x].cpu
                           /\ \/ PushStore(x) /\ Pushed(c, TheByte(x))
                              \/ PushCheck(x) /\ Full(c) /\ Refused(c, TheByte(x))
                              \/ ~ PushStore(x) /\ ~ (PushCheck(x) /\ Full(c)) /\ Still
      BY PrintQueues, ZenonT(30)
    <2>3. \A y \in Printer \ {x} : Quiet(y)
      BY <1>2, QuietStays, ZenonT(30)
    <2>4. CASE PushStore(x) \/ (PushCheck(x) /\ Full(c))
      <3>1. NextByte(x) /\ pc[x] \in {"check", "store"} /\ direct' = direct
        BY <2>2, <2>4, Zenon DEF PushStore, PushCheck, At, ghosts
      <3>2. PICK e : e = TheByte(x)
        BY Zenon
      <3>3. Says(x, e)
        BY <3>1, <3>2, <1>1, SaysNext, Zenon
      <3>4. Pushed(c, e) \/ Refused(c, e)
        BY <2>2, <2>4, <3>2, ZenonT(30)
      <3>5. QED BY <3>1, <3>3, <3>4, <2>1, <2>3, <1>1, BalanceSays, Zenon
    <2>5. CASE DirectSend(x)
      <3>1. PICK e : e = TheByte(x)
        OBVIOUS
      <3>2. direct' = direct \union {e} /\ pc[x] = "d_send"
        BY <2>5, <3>1, Zenon DEF DirectSend, At
      <3>3. Still
        BY <2>2, <3>2, ZenonT(30) DEF PushStore, PushCheck, At
      <3>4. Says(x, e)
        BY <2>5, <3>1, <2>1, <1>1, SaysDirect, ZenonT(30)
      <3>5. QED BY <3>2, <3>3, <3>4, <2>1, <2>3, <1>1, BalanceSays, ZenonT(30)
    <2>6. CASE ~ PushStore(x) /\ ~ (PushCheck(x) /\ Full(c)) /\ ~ DirectSend(x)
      <3>1. Still /\ direct' = direct
        BY <2>2, <2>6, <2>1, ZenonT(30) DEF Printing, PrintCall, TakeLock, PushCheck, PushWrite, Unlock,
           DirectLock, ghosts
      <3>2. Quiet(x)
        <4>1. CASE Unlock(x)
          BY <4>1, <2>1, <1>1, QuietUnlocks, ZenonT(30) DEF Books, Unlock, At
        <4>2. CASE ~ Unlock(x)
          <5>1. reg'[x].msg = reg[x].msg /\ reg'[x].i = reg[x].i
            BY <2>1, <2>2, <2>6, <4>2, <1>1, <1>3, ZenonT(30)
               DEF Printing, PrintCall, TakeLock, PushCheck, PushWrite, DirectLock, Regs
          <5>2. pc'[x] # "unlock" /\ pc[x] # "unlock"
            BY <2>1, <2>2, <2>6, <4>2, <1>1, ZenonT(30)
               DEF Printing, PrintCall, TakeLock, PushCheck, PushWrite, DirectLock, Goto, At
          <5>3. QED BY <5>1, <5>2, QuietStays, ZenonT(30)
        <4>3. QED BY <4>1, <4>2, Zenon
      <3>3. QED BY <3>1, <3>2, <2>1, <2>3, <1>1, BalanceKept, ZenonT(30)
    <2>7. QED BY <2>4, <2>5, <2>6, Zenon
  <1>6. QED BY <1>2, <1>4, <1>5, ZenonT(30) DEF Books

\* So does everything else.
LEMMA StepBooks == IInv /\ IInv' /\ Books /\ [Next]_vars => Books'
  <1> SUFFICES ASSUME IInv, IInv', Books, [Next]_vars PROVE Books'
    BY ZenonT(30)
  <1> USE Constants
  <1>1. Types /\ Types' /\ Placed /\ reg \in [Ctx -> Regs] /\ pc \in [Ctx -> Labels]
    BY Zenon DEF IInv, Types
  <1>2. CASE \E x \in Printer : Printing(x) \/ Panic(x)
    BY <1>1, <1>2, PrintBooks
  <1>3. ASSUME NEW f \in {Shell, Isr}, Flush(f) PROVE Books'
    <2>1. Drains(f)
      BY <1>1, <1>3, FlushDrains, ZenonT(30)
    <2>2. /\ UNCHANGED <<panicking, direct>>
          /\ \A y \in Printer : /\ reg'[y].msg = reg[y].msg /\ reg'[y].i = reg[y].i /\ reg'[y].panic = reg[y].panic
                                /\ pc'[y] = "unlock" <=> pc[y] = "unlock"
      BY <2>1 DEF Drains, Emptying
    <2>3. \A y \in Printer : Quiet(y)
      BY <2>2, QuietStays, Zenon
    <2>4. Still \/ \E c \in Cpu : Popped(c)
      BY <1>1, <1>3, FlushQueues, ZenonT(30)
    <2>5. Balance => Balance'
      BY <1>1, <2>2, <2>3, <2>4, BalanceKept, ZenonT(30)
    <2>6. QED BY <2>2, <2>5, Zenon DEF Books
  <1>4. CASE Enable \/ IsrEnter \/ FlushCall \/ (\E c \in Cpu : Resched(c)) \/ UNCHANGED vars
    <2>1. UNCHANGED <<head, tail, data, sent, lost, direct, reg, panicking>>
      BY <1>4, ZenonT(30) DEF Enable, IsrEnter, FlushCall, Resched, vars, rings, ghosts
    <2>2. \A y \in Printer : pc'[y] = pc[y] \/ (pc'[y] = "f_check" /\ pc[y] = "idle")
      BY <1>4, <1>1 DEF Enable, IsrEnter, FlushCall, Resched, vars, Goto, At
    <2>3. \A y \in Printer : Quiet(y)
      BY <2>1, <2>2, QuietStays, Zenon
    <2>4. Still
      BY <2>1, SameRing, ZenonT(30) DEF Still
    <2>5. Balance => Balance'
      BY <1>1, <2>1, <2>3, <2>4, BalanceKept, ZenonT(30)
    <2>6. QED BY <2>1, <2>2, <2>5, ZenonT(30) DEF Books
  <1>5. QED BY <1>2, <1>3, <1>4 DEF Next

\* Nothing is printed yet.
LEMMA InitBooks == Init => Books
  <1> SUFFICES ASSUME Init PROVE Books
    OBVIOUS
  <1>1. \A x \in Printer : reg[x].msg = 1 /\ reg[x].i = 1 /\ pc[x] = "idle" /\ ~ reg[x].panic
    BY Constants, Zenon DEF Init
  <1>2. \A b : ~ Said(b)
    <2> SUFFICES ASSUME NEW x \in Printer, NEW b \in Printed(x) PROVE FALSE
      BY ZenonT(30) DEF Said
    <2>1. b \in Byte /\ (b.msg \in 1 .. 1 - 1 \/ (b.msg = 1 /\ b.i < 1 + 0))
      BY <1>1, Zenon DEF Printed
    <2>2. QED BY <2>1, ByteFields
  <1>3. \A c \in Cpu : Queue(c) = <<>>
    BY InitFifo, Zenon DEF Fifo!Init
  <1>4. \A c \in Cpu : Queued(c) = {} /\ Once(Queue(c))
    BY <1>3, SMTT(30) DEF Queued, Once
  <1>5. \A b : ~ Held(b)
    BY <1>4, ZenonT(30) DEF Held, Init
  <1>6. Balance
    BY <1>2, <1>4, <1>5 DEF Balance
  <1>7. QED BY <1>1, <1>6, SMTT(30) DEF Books

\* As long as nothing panics, every byte printed is in a ring, was sent, or was
\* refused by a full ring and counted, and is in one of these only.
THEOREM BytesAccounted == Spec => []Accounted
<1>1. Init => Books
  BY InitBooks
<1>2. IInv /\ IInv' /\ Books /\ [Next]_vars => Books'
  BY StepBooks, Zenon
<1>3. Books => Accounted
  BY BooksAccounted, Zenon
<1>4. QED BY <1>1, <1>2, <1>3, Inductive, PTL DEF Spec

=============================================================================
