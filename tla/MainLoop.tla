----------------------------- MODULE MainLoop ------------------------------
(***************************************************************************)
(* The interactive loop of the boot task (src/main.rs) with the console    *)
(* and the network stack it serves: it drains the pending keys, runs the   *)
(* command of every line entered (the network commands of                  *)
(* src/shell/mod.rs), polls the card once, and halts until the next        *)
(* interrupt.  Keyboard interrupts, serial bytes and the card go on at any *)
(* point.  The serial output flushed in the loop is module Serial's.       *)
(***************************************************************************)
EXTENDS Console, Net

CONSTANTS Meaning(_),  \* the command a line names: a record with name and dest
          PingGuard    \* bound of the polling loop of ping (100_000)

VARIABLES pc,          \* where the boot task is
          guard,       \* iterations of ping's loop
          expired      \* 200 ticks have passed since ping started to wait

vars == <<nic, sent, wire, netVars, consoleVars, pc, guard, expired>>

Init == /\ InitNet /\ InitConsole
        /\ pc = "halt" /\ guard = 0 /\ expired = FALSE

\* Shell::execute on a submitted line, for the commands that use the network.
Execute(text) ==
    LET cmd == Meaning(text)
    IN  \/ /\ cmd.name = "ping" /\ enabled
           /\ SendPing(cmd.dest)
           /\ pc' = "ping" /\ UNCHANGED <<guard, expired>>
        \/ /\ cmd.name = "udpsend" /\ enabled
           /\ SendUdp(cmd.dest)
           /\ UNCHANGED <<pc, guard, expired>>
        \/ /\ cmd.name \notin {"ping", "udpsend"} \/ ~enabled
           /\ UNCHANGED <<nic, sent, wire, netVars, pc, guard, expired>>

\* The key given to the line editor submits a line that is not empty.
Submits(k) == k = "nl" /\ line # <<>>

\* What a key or byte does beyond the line editor.
Submit(k) == IF Submits(k) THEN Execute(line)
             ELSE UNCHANGED <<nic, sent, wire, netVars, pc, guard, expired>>

\* hlt ends with an interrupt, and process_pending_keys fetches the serial bytes.
Wake == /\ pc = "halt" /\ ReadSerial
        /\ pc' = IF batch' = <<>> THEN "keys" ELSE "bytes"
        /\ UNCHANGED <<nic, sent, wire, netVars, guard, expired>>

\* process_pending_keys: the next serial byte.  The command a line names runs
\* before the next byte is looked at.
SerialByte == /\ pc = "bytes" /\ batch # <<>>
              /\ FeedSerial /\ Submit(Head(batch))

\* process_pending_keys: the serial bytes are done.
SerialDone == /\ pc = "bytes" /\ batch = <<>> /\ pc' = "keys"
              /\ UNCHANGED <<nic, sent, wire, netVars, consoleVars, guard, expired>>

\* process_pending_keys: the next key of the ring.
KeyStep == /\ pc = "keys" /\ ~RingEmpty /\ NextKey # "tab"
           /\ FeedKey /\ Submit(NextKey)

\* Variant: only a tab ends the drain loop.
KeysDoneTab == /\ pc = "keys" /\ ~RingEmpty /\ NextKey = "tab" /\ FeedKey
               /\ Poll /\ pc' = "halt"
               /\ UNCHANGED <<guard, expired>>

\* process_pending_keys ends when the ring is empty and at a tab; net::poll
\* takes one frame, and the task halts.
KeysDone == /\ pc = "keys"
            /\ \/ RingEmpty /\ UNCHANGED consoleVars
               \/ ~RingEmpty /\ NextKey = "tab" /\ FeedKey
            /\ Poll /\ pc' = "halt"
            /\ UNCHANGED <<guard, expired>>

\* Where the task continues after a ping: the rest of the serial bytes, or the
\* ring.
Resume == IF batch # <<>> THEN "bytes" ELSE "keys"

\* Variant: the guard is not counted.
PingTurnStuck == /\ pc = "ping" /\ ~expired /\ guard < PingGuard
                 /\ Poll
                 /\ pc' = IF rtt' # None THEN Resume ELSE "ping"
                 /\ UNCHANGED <<consoleVars, guard, expired>>

\* ping: a turn of the waiting loop polls, and reports the reply if there is a
\* round-trip time now.
PingTurn == /\ pc = "ping" /\ ~expired /\ guard < PingGuard
            /\ Poll
            /\ \/ rtt' # None /\ pc' = Resume /\ guard' = 0
               \/ rtt' = None /\ guard' = guard + 1 /\ UNCHANGED pc
            /\ UNCHANGED <<consoleVars, expired>>

\* ping: the loop ends without a reply.
PingTimeout == /\ pc = "ping" /\ (expired \/ guard = PingGuard)
               /\ pc' = Resume /\ guard' = 0 /\ expired' = FALSE
               /\ stray' = TRUE
               /\ UNCHANGED <<nic, sent, wire, enabled, arp, seq, rtt, outbox, air, told, consoleVars>>

\* The 200 ticks of a waiting ping pass.
Ticks == /\ pc = "ping" /\ outbox = <<>> /\ ~expired /\ expired' = TRUE
         /\ UNCHANGED <<nic, sent, wire, netVars, consoleVars, pc, guard>>

\* A step of the boot task: what the running handler sends goes first.
Task == \/ SendFrame /\ UNCHANGED <<consoleVars, pc, guard, expired>>
        \/ /\ outbox = <<>>
           /\ \/ Wake \/ SerialByte \/ SerialDone \/ KeyStep \/ KeysDone
              \/ PingTurn \/ PingTimeout

\* A step of a device.
Device == \/ (KeyInterrupt \/ SerialInput) /\ UNCHANGED <<nic, sent, wire, netVars, pc, guard, expired>>
          \/ Ticks
          \/ (Arrive \/ Leave) /\ UNCHANGED <<consoleVars, pc, guard, expired>>

Next == Task \/ Device

\* The boot task is scheduled again and again (module Scheduler) and the timer
\* interrupt ends every hlt; nothing is assumed of the devices, nor that ticks
\* are counted while a ping waits.
Spec == Init /\ [][Next]_vars /\ WF_vars(Task)

-----------------------------------------------------------------------------

TypeOK == /\ pc \in {"bytes", "keys", "halt", "ping"}
          /\ guard \in 0 .. PingGuard
          /\ batch # <<>> => pc \in {"bytes", "ping"}

\* handle_icmp compares an echo reply with nothing, yet the round-trip time held
\* is that of the latest request, whose number the shell prints with it, until a
\* ping gives up or the network repeats a reply: one request is out at a time,
\* and what is left of an earlier ping is gone when the next one starts.
ReplyMatches == rtt # None /\ ~stray => rtt.no = seq

\* Every frame in the receive ring is handled in the end: no network command, and
\* no reply that never comes, keeps the boot task from coming round to poll,
\* however many frames and keys come (each up to a bound).
FramesServed == \A i \in RxRing : nic.rx[i] # None ~> nic.rx[i] = None

\* Once the keyboard pauses, every key in the ring is taken: a ping without a
\* reply gives up, whether or not ticks are counted, and a tab only postpones
\* the keys behind it.
KeysServed == ~RingEmpty ~> RingEmpty
=============================================================================
