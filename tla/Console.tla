------------------------------ MODULE Console ------------------------------
(***************************************************************************)
(* Console input: the PS/2 keyboard interrupt and its ring KEY_QUEUE       *)
(* (src/drivers/keyboard.rs), the receive side of the serial port, and the *)
(* line editor of the shell (src/shell/mod.rs).  A key is a character, or  *)
(* "bs", "tab" or "nl"; the shift state and the scancode tables are not    *)
(* told apart.  The interrupt handler may run between any two steps of the *)
(* task that drains the ring.                                              *)
(***************************************************************************)
EXTENDS Integers, Sequences

CONSTANTS Char,        \* printable characters
          KeyCap,      \* KEY_BUFFER_CAP
          SerialBatch, \* size of serial_buf
          LineMax,     \* BUFFER_MAX - 1
          Pressed,     \* keys of the keyboard that are pressed
          Received,    \* bytes that come over the serial line
          MaxKeys      \* bound: keys pressed and serial bytes sent

Key == Char \cup {"bs", "tab", "nl"}

ASSUME ConsoleAssumption == /\ Pressed \subseteq Key /\ Received \subseteq Key
                            /\ KeyCap \in Nat \ {0, 1}

VARIABLES ring,        \* KEY_QUEUE: data, head and tail
          uart,        \* bytes in the serial receive FIFO (external)
          batch,       \* serial_buf: bytes read and not yet processed
          line,        \* the shell's line buffer
          waiting,     \* the keys the ring accepted and did not give back, in order
          input        \* keys pressed and bytes sent so far

consoleVars == <<ring, uart, batch, line, waiting, input>>

Slot == 0 .. KeyCap - 1

InitConsole == /\ ring = [data |-> [i \in Slot |-> "nl"], head |-> 0, tail |-> 0]
               /\ uart = <<>> /\ batch = <<>> /\ line = <<>>
               /\ waiting = <<>> /\ input = 0

\* Variant: the full ring is not noticed.
AcceptKeyBlind(k) ==
    LET next == (ring.tail + 1) % KeyCap
    IN  /\ ring' = [ring EXCEPT !.data[ring.tail] = k, !.tail = next]
        /\ waiting' = Append(waiting, k)

\* handle_interrupt on a key: enqueue it, or drop it when the ring is full.
AcceptKey(k) ==
    LET next == (ring.tail + 1) % KeyCap
    IN  IF next # ring.head
        THEN /\ ring' = [ring EXCEPT !.data[ring.tail] = k, !.tail = next]
             /\ waiting' = Append(waiting, k)
        ELSE UNCHANGED <<ring, waiting>>

\* IRQ 1.
KeyInterrupt == /\ input < MaxKeys /\ input' = input + 1
                /\ \E k \in Pressed : AcceptKey(k)
                /\ UNCHANGED <<uart, batch, line>>

\* A byte arrives at the serial port (external).
SerialInput == /\ input < MaxKeys /\ input' = input + 1
               /\ \E k \in Received : uart' = Append(uart, k)
               /\ UNCHANGED <<ring, batch, line, waiting>>

\* process_pending_keys, part 1: read up to SerialBatch bytes.
ReadSerial == LET n == IF Len(uart) < SerialBatch THEN Len(uart) ELSE SerialBatch
              IN  /\ batch' = SubSeq(uart, 1, n)
                  /\ uart' = SubSeq(uart, n + 1, Len(uart))
                  /\ UNCHANGED <<ring, line, waiting, input>>

\* push_char, backspace and the first half of on_enter, which empties the line.
Edit(text, k) == IF k \in Char THEN IF Len(text) < LineMax THEN Append(text, k) ELSE text
                 ELSE IF k = "bs" THEN IF text # <<>> THEN SubSeq(text, 1, Len(text) - 1) ELSE text
                 ELSE IF k = "nl" THEN <<>> ELSE text

\* The next byte of serial_buf goes to the line editor.
FeedSerial == /\ batch # <<>>
              /\ line' = Edit(line, Head(batch))
              /\ batch' = Tail(batch)
              /\ UNCHANGED <<ring, uart, waiting, input>>

RingEmpty == ring.head = ring.tail
NextKey == ring.data[ring.head]

\* process_pending_keys, part 2: the next key of the ring goes to the line
\* editor.
FeedKey == /\ ~RingEmpty
           /\ ring' = [ring EXCEPT !.head = (ring.head + 1) % KeyCap]
           /\ waiting' = Tail(waiting)
           /\ line' = Edit(line, NextKey)
           /\ UNCHANGED <<uart, batch, input>>

-----------------------------------------------------------------------------

\* The ring holds exactly the accepted keys that were not taken, in the order
\* they were pressed: none is lost, repeated or reordered when the interrupt
\* handler fills the ring while the boot task drains it, at a full ring, at the
\* wrap of the indices, and after a tab ends a drain early.
KeysInOrder ==
    waiting = [i \in 1 .. (ring.tail - ring.head) % KeyCap |-> ring.data[(ring.head + i - 1) % KeyCap]]
=============================================================================
