-------------------------------- MODULE Ipc --------------------------------
(***************************************************************************)
(* The message router of src/task/ipc.rs.  Every operation runs under the  *)
(* IPC_ROUTER lock, so each is one action; SYS_SEND, SYS_RECV and the      *)
(* shell's ipc command are its callers, in any order on any CPU.           *)
(*                                                                         *)
(* accepted and popped are histories: what callers handed to send and were *)
(* told was queued, and what receive returned, per target process.         *)
(***************************************************************************)
EXTENDS Integers, Sequences, FiniteSetsExt, Functions

CONSTANTS Pid,          \* process ids a caller may name, live or not
          Byte,         \* values of a payload byte
          PayloadMax,   \* IPC_PAYLOAD_MAX
          Capacity,     \* MAILBOX_CAPACITY
          MaxData,      \* bound: length of the data a caller passes
          MaxSent       \* bound: messages accepted in a behaviour

ASSUME IpcAssumption ==
    /\ 0 \in Byte
    /\ PayloadMax \in Nat /\ Capacity \in Nat \ {0}
    /\ MaxData \in Nat /\ MaxSent \in Nat

VARIABLES mailboxes,        \* BTreeMap<usize, VecDeque<Message>>: a function on a subset of Pid
          total_sent, total_delivered,
          accepted, popped  \* histories

vars == <<mailboxes, total_sent, total_delivered, accepted, popped>>

\* The slices a caller may pass.
Data == UNION {[1 .. n -> Byte] : n \in 0 .. MaxData}

\* A Message; msg_type is carried along unread and left out.
Message == [sender : Pid, target : Pid, payload : [1 .. PayloadMax -> Byte],
            length : 0 .. PayloadMax]

\* Variant: the cut is off by one.
NewMessageShort(s, t, data) ==
    LET n == IF Len(data) < PayloadMax THEN Len(data) ELSE PayloadMax - 1
    IN  [sender |-> s, target |-> t,
         payload |-> [i \in 1 .. PayloadMax |-> IF i <= n THEN data[i] ELSE 0],
         length |-> n]

\* Message::new: the data cut to PayloadMax bytes, the rest of the array zero.
NewMessage(s, t, data) ==
    LET n == IF Len(data) < PayloadMax THEN Len(data) ELSE PayloadMax
    IN  [sender |-> s, target |-> t,
         payload |-> [i \in 1 .. PayloadMax |-> IF i <= n THEN data[i] ELSE 0],
         length |-> n]

\* pending_count, and the queue behind it: no mailbox is an empty mailbox.
Mailbox(p) == IF p \in DOMAIN mailboxes THEN mailboxes[p] ELSE << >>

Init ==
    /\ mailboxes = << >>
    /\ total_sent = 0 /\ total_delivered = 0
    /\ accepted = [p \in Pid |-> << >>]
    /\ popped = [p \in Pid |-> << >>]

\* mailboxes with the queue of p replaced, and created if there was none.
WithMailbox(p, q) ==
    [x \in DOMAIN mailboxes \cup {p} |-> IF x = p THEN q ELSE mailboxes[x]]

\* Variant: refused messages are counted.
SendCountsRefused(s, t, data) ==
    LET full == Len(Mailbox(t)) >= Capacity IN
    /\ full \/ total_sent < MaxSent
    /\ mailboxes' = WithMailbox(t, IF full THEN Mailbox(t)
                                   ELSE Append(Mailbox(t), NewMessage(s, t, data)))
    /\ total_sent' = total_sent + 1
    /\ accepted' = IF full THEN accepted
                   ELSE [accepted EXCEPT ![t] = Append(@, [sender |-> s, data |-> data])]
    /\ UNCHANGED <<total_delivered, popped>>

\* send_message: get_or_create_mailbox happens even when the message is refused.
Send(s, t, data) ==
    LET full == Len(Mailbox(t)) >= Capacity IN
    /\ full \/ total_sent < MaxSent
    /\ mailboxes' = WithMailbox(t, IF full THEN Mailbox(t)
                                   ELSE Append(Mailbox(t), NewMessage(s, t, data)))
    /\ total_sent' = IF full THEN total_sent ELSE total_sent + 1
    /\ accepted' = IF full THEN accepted
                   ELSE [accepted EXCEPT ![t] = Append(@, [sender |-> s, data |-> data])]
    /\ UNCHANGED <<total_delivered, popped>>

\* Variant: pop_back.
ReceiveLast(p) ==
    /\ p \in DOMAIN mailboxes
    /\ mailboxes[p] # << >>
    /\ mailboxes' = [mailboxes EXCEPT ![p] = SubSeq(@, 1, Len(@) - 1)]
    /\ total_delivered' = total_delivered + 1
    /\ popped' = [popped EXCEPT ![p] = Append(@, mailboxes[p][Len(mailboxes[p])])]
    /\ UNCHANGED <<total_sent, accepted>>

\* receive_message: pop_front of the caller's own mailbox, if there is one.
Receive(p) ==
    /\ p \in DOMAIN mailboxes
    /\ mailboxes[p] # << >>
    /\ mailboxes' = [mailboxes EXCEPT ![p] = Tail(@)]
    /\ total_delivered' = total_delivered + 1
    /\ popped' = [popped EXCEPT ![p] = Append(@, Head(mailboxes[p]))]
    /\ UNCHANGED <<total_sent, accepted>>

\* receive_message finding nothing.
ReceiveNone(p) ==
    /\ Mailbox(p) = << >>
    /\ UNCHANGED vars

Next ==
    \/ \E s, t \in Pid, data \in Data : Send(s, t, data)
    \/ \E p \in Pid : Receive(p) \/ ReceiveNone(p)

Spec == Init /\ [][Next]_vars

-----------------------------------------------------------------------------
Accepted == [sender : Pid, data : Data]

TypeOK ==
    /\ DOMAIN mailboxes \in SUBSET Pid
    /\ mailboxes \in [DOMAIN mailboxes -> Seq(Message)]
    /\ total_sent \in Nat /\ total_delivered \in Nat
    /\ popped \in [Pid -> Seq(Message)]
    /\ accepted \in [Pid -> Seq(Accepted)]

\* No mailbox ever holds more than MAILBOX_CAPACITY messages.
Bounded == \A p \in DOMAIN mailboxes : Len(mailboxes[p]) <= Capacity

\* What receive returned and what is still queued are, in order and without
\* loss, duplication or misrouting, the messages send accepted for that target.
InOrder ==
    \A p \in Pid :
        /\ Len(accepted[p]) = Len(popped[p]) + Len(Mailbox(p))
        /\ \A i \in 1 .. Len(accepted[p]) :
             (popped[p] \o Mailbox(p))[i] =
                NewMessage(accepted[p][i].sender, p, accepted[p][i].data)

\* A delivered message carries exactly the first `length` bytes its sender
\* passed, and length says how many of them survived the cut.
PayloadIntact ==
    \A p \in Pid : \A i \in 1 .. Len(popped[p]) :
        LET m == popped[p][i]
            d == accepted[p][i].data
        IN  /\ m.length = IF Len(d) <= PayloadMax THEN Len(d) ELSE PayloadMax
            /\ SubSeq(m.payload, 1, m.length) = SubSeq(d, 1, m.length)

\* The two counters of stats() differ by what is queued over all mailboxes.
CountsBalance ==
    total_sent = total_delivered
                 + FoldFunction(LAMBDA q, n : Len(q) + n, 0, mailboxes)
=============================================================================
