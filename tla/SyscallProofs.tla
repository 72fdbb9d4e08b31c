--------------------------- MODULE SyscallProofs ---------------------------
(***************************************************************************)
(* Theorems about modules Ipc and Syscall.  For any set of processes, any  *)
(* capacity and any payload size mailboxes are bounded, and delivery is in *)
(* order, complete and to the right process.  The three static words of    *)
(* the entry stub are enough on one CPU, whatever the number of tasks, and *)
(* on any number of CPUs the calls only use the router as module Ipc says, *)
(* so that the theorems about the router hold of the system.  The balance  *)
(* of its counters is a sum over the mailboxes, computed by a fold: such a *)
(* fold exists and counts the places taken, by induction on their number.  *)
(***************************************************************************)
EXTENDS Syscall, TLAPS, SequenceTheorems, FiniteSetTheorems

IInv == TypeOK /\ Bounded /\ InOrder

\* Message::new builds a well-formed message from any data.
LEMMA NewMessageType ==
    ASSUME NEW s \in Pid, NEW t \in Pid, NEW data \in Data
    PROVE  NewMessage(s, t, data) \in Message
  <1> USE IpcAssumption
  <1>1. PICK n \in 0 .. MaxData : data \in [1 .. n -> Byte]
    BY Zenon DEF Data
  <1>2. n \in Nat /\ Len(data) = n /\ \A i \in 1 .. n : data[i] \in Byte
    BY <1>1
  <1>3. QED
    BY <1>2 DEF NewMessage, Message

\* The queue of any process is a bounded sequence of messages.
LEMMA MailboxType ==
    ASSUME TypeOK, NEW p \in Pid
    PROVE  Mailbox(p) \in Seq(Message)
  BY DEF TypeOK, Mailbox

\* Replacing one queue leaves the others as they are.
LEMMA WithMailboxFacts ==
    ASSUME TypeOK, NEW p \in Pid, NEW q \in Seq(Message),
           mailboxes' = WithMailbox(p, q)
    PROVE  /\ DOMAIN mailboxes' \in SUBSET Pid
           /\ mailboxes' \in [DOMAIN mailboxes' -> Seq(Message)]
           /\ Mailbox(p)' = q
           /\ \A x \in Pid : x # p => Mailbox(x)' = Mailbox(x)
  BY Zenon DEF TypeOK, WithMailbox, Mailbox

\* Popping the head of the queue moves it to the history without changing the
\* concatenation of the two.
LEMMA MoveHead ==
    ASSUME NEW S, NEW a \in Seq(S), NEW b \in Seq(S), b # << >>
    PROVE  Append(a, Head(b)) \o Tail(b) = a \o b
  <1>1. /\ Head(b) \in S /\ Tail(b) \in Seq(S) /\ b = <<Head(b)>> \o Tail(b)
    BY HeadTailProperties
  <1>2. Append(a, Head(b)) = a \o <<Head(b)>>
    BY <1>1
  <1>3. (a \o <<Head(b)>>) \o Tail(b) = a \o (<<Head(b)>> \o Tail(b))
    BY <1>1, ConcatAssociative, SMTT(30)
  <1>4. QED BY <1>1, <1>2, <1>3, Zenon

\* The empty router satisfies the invariant.
LEMMA InitIInv == Init => IInv
  <1> SUFFICES ASSUME Init PROVE IInv
    BY Zenon
  <1>1. TypeOK
    BY DEF Init, TypeOK
  <1>2. Bounded /\ InOrder
    BY IpcAssumption DEF Init, Bounded, InOrder, Mailbox
  <1>3. QED BY <1>1, <1>2, Zenon DEF IInv

\* IInv is inductive.
LEMMA NextIInv == IInv /\ [Next]_vars => IInv'
  <1> SUFFICES ASSUME IInv, [Next]_vars PROVE IInv'
    BY Zenon
  <1> USE IpcAssumption
  <1>0. TypeOK /\ Bounded /\ InOrder
    BY Zenon DEF IInv
  <1>1. ASSUME NEW s \in Pid, NEW t \in Pid, NEW data \in Data, Send(s, t, data)
        PROVE  IInv'
    <2> DEFINE full == Len(Mailbox(t)) >= Capacity
               m == NewMessage(s, t, data)
               a == [sender |-> s, data |-> data]
    <2>1. /\ Mailbox(t) \in Seq(Message) /\ m \in Message
          /\ a \in Accepted
          /\ accepted[t] \in Seq(Accepted)
          /\ popped[t] \in Seq(Message)
      BY <1>0, MailboxType, NewMessageType, ZenonT(30) DEF TypeOK, Accepted
    <2>2. CASE full
      <3>1. /\ mailboxes' = WithMailbox(t, Mailbox(t))
            /\ UNCHANGED <<total_sent, total_delivered, accepted, popped>>
        BY <1>1, <2>2, Zenon DEF Send
      <3>2. /\ DOMAIN mailboxes' \in SUBSET Pid
            /\ mailboxes' \in [DOMAIN mailboxes' -> Seq(Message)]
            /\ \A x \in Pid : Mailbox(x)' = Mailbox(x)
        BY <1>0, <2>1, <3>1, WithMailboxFacts, Zenon
      <3>3. TypeOK'
        BY <1>0, <3>1, <3>2, Zenon DEF TypeOK
      <3>4. Bounded'
        BY <1>0, <3>1 DEF Bounded, WithMailbox, Mailbox
      <3>5. InOrder'
        <4>1. ASSUME NEW x \in Pid
              PROVE  accepted'[x] = accepted[x] /\ popped'[x] = popped[x] /\ Mailbox(x)' = Mailbox(x)
          BY <3>1, <3>2, Zenon
        <4>2. ASSUME NEW x \in Pid
              PROVE  /\ Len(accepted'[x]) = Len(popped'[x]) + Len(Mailbox(x)')
                     /\ \A i \in 1 .. Len(accepted'[x]) : (popped'[x] \o Mailbox(x)')[i]
                          = NewMessage(accepted'[x][i].sender, x, accepted'[x][i].data)
          <5>1. /\ Len(accepted[x]) = Len(popped[x]) + Len(Mailbox(x))
                /\ \A i \in 1 .. Len(accepted[x]) : (popped[x] \o Mailbox(x))[i]
                     = NewMessage(accepted[x][i].sender, x, accepted[x][i].data)
            BY <1>0, Zenon DEF InOrder
          <5>2. QED BY <4>1, <5>1, Zenon
        <4>3. QED BY <4>2, Zenon DEF InOrder, NewMessage
      <3>6. QED BY <3>3, <3>4, <3>5, Zenon DEF IInv
    <2>3. CASE ~full
      <3>1. /\ mailboxes' = WithMailbox(t, Append(Mailbox(t), m))
            /\ total_sent' = total_sent + 1
            /\ accepted' = [accepted EXCEPT ![t] = Append(@, a)]
            /\ UNCHANGED <<total_delivered, popped>>
        BY <1>1, <2>3, Zenon DEF Send
      <3>2. Append(Mailbox(t), m) \in Seq(Message)
        BY <2>1
      <3>3. /\ DOMAIN mailboxes' \in SUBSET Pid
            /\ mailboxes' \in [DOMAIN mailboxes' -> Seq(Message)]
            /\ Mailbox(t)' = Append(Mailbox(t), m)
            /\ \A x \in Pid : x # t => Mailbox(x)' = Mailbox(x)
        BY <1>0, <3>1, <3>2, WithMailboxFacts, ZenonT(30)
      <3>4. TypeOK'
        <4>1. Append(accepted[t], a) \in Seq(Accepted)
          <5> HIDE DEF a
          <5>1. QED BY <2>1
        <4>2. accepted' \in [Pid -> Seq(Accepted)]
          <5> HIDE DEF a
          <5>1. QED BY <1>0, <3>1, <4>1 DEF TypeOK
        <4>3. total_sent' \in Nat /\ total_delivered' \in Nat
          BY <1>0, <3>1, SMTT(30) DEF TypeOK
        <4>4. popped' \in [Pid -> Seq(Message)]
          BY <1>0, <3>1, Zenon DEF TypeOK
        <4>5. QED
          BY <3>3, <4>2, <4>3, <4>4 DEF TypeOK
      <3>5. Bounded'
        <4>1. Len(Mailbox(t)) < Capacity
          BY <2>1, <2>3
        <4>2. QED
          BY <1>0, <2>1, <3>1, <4>1 DEF Bounded, WithMailbox
      <3>6. InOrder'
        <4> SUFFICES ASSUME NEW p \in Pid
                     PROVE  /\ Len(accepted'[p]) = Len(popped'[p]) + Len(Mailbox(p)')
                            /\ \A i \in 1 .. Len(accepted'[p]) :
                                 (popped'[p] \o Mailbox(p)')[i] =
                                   NewMessage(accepted'[p][i].sender, p, accepted'[p][i].data)
          BY DEF InOrder, NewMessage
        <4>1. CASE p # t
          BY <1>0, <4>1, <3>1, <3>3, ZenonT(30) DEF InOrder, TypeOK
        <4>2. CASE p = t
          <5> DEFINE A == accepted[t]
                     P == popped[t]
                     B == Mailbox(t)
          <5>1. /\ Len(A) = Len(P) + Len(B)
                /\ \A i \in 1 .. Len(A) :
                     (P \o B)[i] = NewMessage(A[i].sender, t, A[i].data)
            BY <1>0, ZenonT(30) DEF InOrder
          <5>2. /\ A \in Seq(Accepted) /\ P \in Seq(Message)
                /\ B \in Seq(Message)
            BY <2>1, Zenon
          <5>3. accepted'[p] = Append(A, a) /\ popped'[p] = P /\ Mailbox(p)' = Append(B, m)
            BY <1>0, <4>2, <3>1, <3>3, Zenon DEF TypeOK
          <5> HIDE DEF A, P, B, m, a
          <5>4. Len(Append(A, a)) = Len(P) + Len(Append(B, m))
            <6>1. Len(Append(A, a)) = Len(A) + 1 /\ Len(Append(B, m)) = Len(B) + 1
              BY <2>1, <5>2
            <6>2. Len(P) \in Nat /\ Len(B) \in Nat
              BY <5>2
            <6>3. QED BY <5>1, <6>1, <6>2
          <5>5. \A i \in 1 .. Len(A) : /\ Append(A, a)[i] = A[i]
                                      /\ (P \o Append(B, m))[i] = (P \o B)[i]
            BY <2>1, <5>1, <5>2, SMTT(30)
          <5>6. /\ Append(A, a)[Len(A) + 1] = a
                /\ (P \o Append(B, m))[Len(A) + 1] = m
            <6>1. Append(A, a)[Len(A) + 1] = a
              BY <2>1, <5>2
            <6>2. Len(Append(B, m)) = Len(B) + 1 /\ Append(B, m)[Len(B) + 1] = m
              BY <2>1, <5>2
            <6>3. /\ Append(B, m) \in Seq(Message)
                  /\ Len(P) \in Nat /\ Len(B) \in Nat
              BY <2>1, <5>2
            <6>4. (P \o Append(B, m))[Len(P) + (Len(B) + 1)] = Append(B, m)[Len(B) + 1]
              BY <5>2, <6>2, <6>3
            <6>5. Len(A) + 1 = Len(P) + (Len(B) + 1)
              BY <5>1, <6>3
            <6>6. QED BY <6>1, <6>2, <6>4, <6>5
          <5>7. m = NewMessage(a.sender, t, a.data)
            BY Zenon DEF m, a
          <5>8. \A i \in 1 .. Len(Append(A, a)) : i \in 1 .. Len(A) \/ i = Len(A) + 1
            BY <2>1, <5>2
          <5>9. \A i \in 1 .. Len(Append(A, a)) :
                   (P \o Append(B, m))[i] =
                      NewMessage(Append(A, a)[i].sender, t, Append(A, a)[i].data)
            BY <5>1, <5>5, <5>6, <5>7, <5>8, ZenonT(30)
          <5>10. QED BY <4>2, <5>3, <5>4, <5>9, ZenonT(30)
        <4>3. QED BY <4>1, <4>2, Zenon
      <3>7. QED BY <3>4, <3>5, <3>6 DEF IInv
    <2>4. QED BY <2>2, <2>3, Zenon
  <1>2. ASSUME NEW p \in Pid, Receive(p) PROVE IInv'
    <2>1. /\ p \in DOMAIN mailboxes /\ mailboxes[p] \in Seq(Message) /\ mailboxes[p] # << >>
          /\ Mailbox(p) = mailboxes[p] /\ popped[p] \in Seq(Message)
      BY <1>0, <1>2 DEF Receive, TypeOK, Mailbox
    <2>2. /\ Head(mailboxes[p]) \in Message /\ Tail(mailboxes[p]) \in Seq(Message)
          /\ Len(Tail(mailboxes[p])) = Len(mailboxes[p]) - 1
          /\ Len(mailboxes[p]) \in Nat
      BY <2>1
    <2>3. /\ mailboxes' = [mailboxes EXCEPT ![p] = Tail(@)]
          /\ total_delivered' = total_delivered + 1
          /\ popped' = [popped EXCEPT ![p] = Append(@, Head(mailboxes[p]))]
          /\ UNCHANGED <<total_sent, accepted>>
      BY <1>2, Zenon DEF Receive
    <2>4. /\ Mailbox(p)' = Tail(mailboxes[p])
          /\ \A x \in Pid : x # p => Mailbox(x)' = Mailbox(x)
      BY <1>0, <2>1, <2>3, Zenon DEF Mailbox, TypeOK
    <2>5. TypeOK'
      <3>1. /\ DOMAIN mailboxes' = DOMAIN mailboxes
            /\ mailboxes' \in [DOMAIN mailboxes -> Seq(Message)]
        BY <1>0, <2>1, <2>2, <2>3 DEF TypeOK
      <3>2. Append(popped[p], Head(mailboxes[p])) \in Seq(Message)
        BY <2>1, <2>2
      <3>3. popped' \in [Pid -> Seq(Message)]
        BY <1>0, <2>3, <3>2, Zenon DEF TypeOK
      <3>4. /\ total_sent' \in Nat /\ total_delivered' \in Nat
            /\ accepted' \in [Pid -> Seq(Accepted)]
        <4>1. accepted' = accepted /\ total_sent' = total_sent
          BY <2>3, Zenon
        <4>2. total_delivered \in Nat /\ total_delivered' = total_delivered + 1
          BY <1>0, <2>3, Zenon DEF TypeOK
        <4>3. total_sent \in Nat /\ accepted \in [Pid -> Seq(Accepted)]
          BY <1>0, Zenon DEF TypeOK
        <4>4. QED BY <4>1, <4>2, <4>3
      <3>5. QED
        BY <1>0, <3>1, <3>3, <3>4, ZenonT(30) DEF TypeOK
    <2>6. Bounded'
      BY <1>0, <2>1, <2>2, <2>3 DEF Bounded, TypeOK
    <2>7. InOrder'
      <3>1. Append(popped[p], Head(mailboxes[p])) \o Tail(mailboxes[p]) = popped[p] \o mailboxes[p]
        BY <2>1, MoveHead, Zenon
      <3>2. popped'[p] \o Mailbox(p)' = popped[p] \o Mailbox(p)
        BY <1>0, <2>1, <2>3, <2>4, <3>1, ZenonT(30) DEF TypeOK
      <3>3. Len(popped'[p]) + Len(Mailbox(p)') = Len(popped[p]) + Len(Mailbox(p))
        BY <1>0, <2>1, <2>2, <2>3, <2>4 DEF TypeOK
      <3>4. \A x \in Pid : x # p => popped'[x] = popped[x] /\ Mailbox(x)' = Mailbox(x)
        BY <1>0, <2>3, <2>4, Zenon DEF TypeOK
      <3>5. SUFFICES ASSUME NEW x \in Pid
                     PROVE  /\ Len(accepted'[x]) = Len(popped'[x]) + Len(Mailbox(x)')
                            /\ \A i \in 1 .. Len(accepted'[x]) :
                                 (popped'[x] \o Mailbox(x)')[i] =
                                   NewMessage(accepted'[x][i].sender, x, accepted'[x][i].data)
        BY Zenon DEF InOrder, NewMessage
      <3>6. accepted'[x] = accepted[x]
        BY <2>3, Zenon
      <3>7. /\ popped'[x] \o Mailbox(x)' = popped[x] \o Mailbox(x)
            /\ Len(popped'[x]) + Len(Mailbox(x)') = Len(popped[x]) + Len(Mailbox(x))
        BY <3>2, <3>3, <3>4, ZenonT(30)
      <3>8. QED
        BY <1>0, <3>6, <3>7, Zenon DEF InOrder
    <2>8. QED BY <2>5, <2>6, <2>7 DEF IInv
  <1>3. CASE UNCHANGED vars
    <2>1. UNCHANGED <<mailboxes, total_sent, total_delivered, accepted, popped>>
      BY <1>3, Zenon DEF vars
    <2>2. TypeOK' /\ Bounded'
      BY <1>0, <2>1, Zenon DEF TypeOK, Bounded
    <2>3. InOrder'
      <3>1. \A p \in Pid : Mailbox(p)' = Mailbox(p)
        BY <2>1, Zenon DEF Mailbox
      <3>2. SUFFICES ASSUME NEW p \in Pid
                     PROVE  /\ Len(accepted'[p]) = Len(popped'[p]) + Len(Mailbox(p)')
                            /\ \A i \in 1 .. Len(accepted'[p]) :
                                 (popped'[p] \o Mailbox(p)')[i] =
                                   NewMessage(accepted'[p][i].sender, p, accepted'[p][i].data)
        BY ZenonT(30) DEF InOrder, NewMessage
      <3>3. QED
        BY <1>0, <2>1, <3>1, Zenon DEF InOrder
    <2>4. QED BY <2>2, <2>3, Zenon DEF IInv
  <1>4. QED
    BY <1>1, <1>2, <1>3, Zenon DEF Next, ReceiveNone

\* The inductive invariant holds in every reachable state.
THEOREM Inductive == Spec => []IInv
  BY InitIInv, NextIInv, PTL DEF Spec

\* Type correctness of the router.
THEOREM TypeCorrect == Spec => []TypeOK
  <1>1. IInv => TypeOK
    BY Zenon DEF IInv
  <1>2. QED BY Inductive, <1>1, PTL

\* No mailbox exceeds its capacity.
THEOREM MailboxesBounded == Spec => []Bounded
  <1>1. IInv => Bounded
    BY Zenon DEF IInv
  <1>2. QED BY Inductive, <1>1, PTL

\* Delivery is FIFO per target, without loss, duplication or misrouting.
THEOREM DeliveryInOrder == Spec => []InOrder
  <1>1. IInv => InOrder
    BY DEF IInv
  <1>2. QED BY Inductive, <1>1, PTL

\* A delivered message carries the bytes its sender passed, cut to PayloadMax.
THEOREM PayloadsIntact == Spec => []PayloadIntact
  <1>1. IInv => PayloadIntact
    <2> SUFFICES ASSUME IInv, NEW p \in Pid, NEW i \in 1 .. Len(popped[p])
                 PROVE  LET m == popped[p][i]
                            d == accepted[p][i].data
                        IN  /\ m.length = IF Len(d) <= PayloadMax THEN Len(d) ELSE PayloadMax
                            /\ SubSeq(m.payload, 1, m.length) = SubSeq(d, 1, m.length)
      BY ZenonT(30) DEF PayloadIntact
    <2> DEFINE d == accepted[p][i].data
               n == IF Len(d) < PayloadMax THEN Len(d) ELSE PayloadMax
               pay == [j \in 1 .. PayloadMax |-> IF j <= n THEN d[j] ELSE 0]
    <2>1. /\ TypeOK /\ InOrder /\ PayloadMax \in Nat
          /\ Mailbox(p) \in Seq(Message) /\ popped[p] \in Seq(Message)
          /\ accepted[p] \in Seq(Accepted)
      BY MailboxType, IpcAssumption, Zenon DEF IInv, TypeOK
    <2>2. /\ Len(accepted[p]) = Len(popped[p]) + Len(Mailbox(p))
          /\ \A j \in 1 .. Len(accepted[p]) :
               (popped[p] \o Mailbox(p))[j] =
                  NewMessage(accepted[p][j].sender, p, accepted[p][j].data)
      BY <2>1, Zenon DEF InOrder
    <2>3. i \in 1 .. Len(accepted[p]) /\ (popped[p] \o Mailbox(p))[i] = popped[p][i]
      BY <2>1, <2>2
    <2>4. popped[p][i] = NewMessage(accepted[p][i].sender, p, d)
      BY <2>2, <2>3, Zenon
    <2>5. popped[p][i].length = n /\ popped[p][i].payload = pay
      BY <2>4 DEF NewMessage
    <2>6. d \in Data
      <3>1. accepted[p][i] \in Accepted
        BY <2>1, <2>3
      <3>2. QED BY <3>1, Zenon DEF Accepted
    <2>7. Len(d) \in Nat
      BY <2>6, IpcAssumption DEF Data
    <2> HIDE DEF d
    <2>8. n \in Nat /\ n <= PayloadMax
      BY <2>1, <2>7
    <2>9. \A j \in 1 .. n : pay[j] = d[j]
      BY <2>1, <2>8
    <2> HIDE DEF n, pay
    <2>10. SubSeq(pay, 1, n) = SubSeq(d, 1, n)
      BY <2>8, <2>9
    <2>11. n = IF Len(d) <= PayloadMax THEN Len(d) ELSE PayloadMax
      BY <2>1, <2>7 DEF n
    <2>12. QED
      BY <2>5, <2>10, <2>11, ZenonT(30) DEF d
  <1>2. QED BY Inductive, <1>1, PTL

-----------------------------------------------------------------------------
\* The numbers in their order.
Below == {p \in Nat \X Nat : p[1] < p[2]}

\* A non-empty set of numbers has a least element.
LEMMA Least ==
  ASSUME NEW S, S \subseteq Nat, S # {}
  PROVE  \E x \in S : \A y \in S : x <= y
<1>1. IsWellFoundedOn(Below, Nat)
  BY NatLessThanWellFounded, Zenon DEF NatLessThanWellFounded, OpToRel, Below
<1>2. PICK x \in S : \A y \in S : ~ (<<y, x>> \in Below)
  BY <1>1, WFMin, Zenon DEF WFMin
<1>3. SUFFICES ASSUME NEW y \in S PROVE x <= y
  BY <1>2, Zenon
<1>4. x \in Nat /\ y \in Nat
  BY <1>2, <1>3, Zenon
<1>5. y < x => <<y, x>> \in Below
  BY <1>4, Zenon DEF Below
<1> QED
  BY <1>2, <1>3, <1>4, <1>5

\* Induction, with the property as a set.
LEMMA Induction ==
  ASSUME NEW S, 0 \in S, \A n \in Nat : n \in S => n + 1 \in S
  PROVE  \A n \in Nat : n \in S
<1> DEFINE T == {n \in Nat : n \notin S}
<1>1. SUFFICES ASSUME T # {} PROVE FALSE
  BY Zenon
<1>2. T \subseteq Nat
  BY Zenon
<1> HIDE DEF T
<1>3. PICK x \in T : \A y \in T : x <= y
  BY <1>1, <1>2, Least, ZenonT(30)
<1>4. x \in Nat \ {0} /\ x \notin S
  BY <1>3, Zenon DEF T
<1>5. x - 1 \in Nat /\ x - 1 + 1 = x /\ ~ (x <= x - 1)
  BY <1>4
<1>6. x - 1 \notin T
  BY <1>3, <1>5, Zenon
<1>7. x - 1 \in S
  BY <1>5, <1>6, Zenon DEF T
<1> QED
  BY <1>4, <1>5, <1>7, Zenon

\* it sums f over the sets of a family F, as MapThenSumSet does.
Sums(it, F, f) ==
  it = [s \in F |-> IF s = {} THEN 0
                    ELSE f[CHOOSE x \in s : TRUE] + it[s \ {CHOOSE x \in s : TRUE}]]

\* The subsets with at most n elements.
Small(I, n) == {s \in SUBSET I : Cardinality(s) <= n}

\* Taking an element away makes a finite set smaller by one.
LEMMA OneLess ==
  ASSUME NEW I, IsFiniteSet(I), NEW s \in SUBSET I, s # {}
  PROVE  LET x == CHOOSE y \in s : TRUE
         IN  /\ x \in s /\ s \ {x} \in SUBSET I
             /\ Cardinality(s) \in Nat \ {0} /\ Cardinality(s \ {x}) = Cardinality(s) - 1
<1> DEFINE x == CHOOSE y \in s : TRUE
<1>1. x \in s
  BY Zenon
<1>2. IsFiniteSet(s)
  BY FS_Subset, Zenon
<1> HIDE DEF x
<1>3. Cardinality(s) \in Nat /\ Cardinality(s) # 0
  BY <1>2, FS_CardinalityType, FS_EmptySet, ZenonT(30)
<1>4. Cardinality(s \ {x}) = Cardinality(s) - 1
  BY <1>1, <1>2, FS_RemoveElement, ZenonT(30)
<1>5. s \ {x} \in SUBSET I
  BY Zenon
<1> QED
  BY <1>1, <1>3, <1>4, <1>5, Zenon DEF x

\* Only the empty set has no elements.
LEMMA NoneLeft ==
  ASSUME NEW I, IsFiniteSet(I), NEW s \in SUBSET I
  PROVE  Cardinality(s) \in Nat /\ (Cardinality(s) <= 0 <=> s = {})
<1>1. IsFiniteSet(s)
  BY FS_Subset, Zenon
<1>2. Cardinality(s) \in Nat /\ (Cardinality(s) = 0 <=> s = {})
  BY <1>1, FS_CardinalityType, FS_EmptySet, Zenon
<1> QED
  BY <1>2

\* There is a function that sums f.
LEMMA SumExists ==
  ASSUME NEW I, IsFiniteSet(I), NEW f
  PROVE  \E it : Sums(it, SUBSET I, f)
<1> DEFINE P == {n \in Nat : \E it : Sums(it, Small(I, n), f)}
<1>1. 0 \in P
  <2> DEFINE it == [s \in Small(I, 0) |-> 0]
  <2>1. ASSUME NEW s \in Small(I, 0) PROVE s = {}
    <3>1. s \in SUBSET I /\ Cardinality(s) <= 0
      BY Zenon DEF Small
    <3> QED
      BY <3>1, NoneLeft, Zenon
  <2>2. Sums(it, Small(I, 0), f)
    BY <2>1, Zenon DEF Sums
  <2> QED
    BY <2>2, Zenon
<1>2. ASSUME NEW n \in Nat, n \in P PROVE n + 1 \in P
  <2>1. PICK it : Sums(it, Small(I, n), f)
    BY <1>2, Zenon
  <2> DEFINE jt == [s \in Small(I, n + 1) |->
                      IF s = {} THEN 0
                      ELSE f[CHOOSE x \in s : TRUE] + it[s \ {CHOOSE x \in s : TRUE}]]
             Body(s) == IF s = {} THEN 0
                        ELSE f[CHOOSE x \in s : TRUE] + jt[s \ {CHOOSE x \in s : TRUE}]
  <2>2. ASSUME NEW s \in Small(I, n + 1) PROVE jt[s] = Body(s)
    <3>1. CASE s = {}
      BY <3>1, Zenon
    <3>2. CASE s # {}
      <4> DEFINE x == CHOOSE y \in s : TRUE
                 t == s \ {x}
      <4>1. s \in SUBSET I /\ Cardinality(s) <= n + 1
        BY Zenon DEF Small
      <4>2. t \in SUBSET I /\ Cardinality(s) \in Nat /\ Cardinality(t) = Cardinality(s) - 1
        BY <3>2, <4>1, OneLess, Zenon
      <4> HIDE DEF t
      <4>3. Cardinality(t) <= n /\ Cardinality(t) <= n + 1
        BY <4>1, <4>2
      <4>4. t \in Small(I, n) /\ t \in Small(I, n + 1)
        BY <4>2, <4>3, Zenon DEF Small
      <4>5. it[t] = IF t = {} THEN 0
                    ELSE f[CHOOSE y \in t : TRUE] + it[t \ {CHOOSE y \in t : TRUE}]
        BY <2>1, <4>4, Zenon DEF Sums
      <4>6. jt[t] = it[t]
        BY <4>4, <4>5, Zenon
      <4>7. jt[s] = f[x] + it[t]
        BY <3>2, Zenon DEF t
      <4> QED
        BY <3>2, <4>6, <4>7, Zenon DEF t
    <3> QED
      BY <3>1, <3>2
  <2>3. jt = [s \in Small(I, n + 1) |-> Body(s)]
    BY <2>2, ZenonT(90)
  <2>4. Sums(jt, Small(I, n + 1), f)
    BY <2>3, Zenon DEF Sums
  <2>5. n + 1 \in Nat
    OBVIOUS
  <2> QED
    BY <2>4, <2>5, Zenon
<1> HIDE DEF P
<1>3. \A n \in Nat : n \in P
  BY <1>1, <1>2, Induction
<1>4. Cardinality(I) \in Nat
  BY FS_CardinalityType
<1>5. Small(I, Cardinality(I)) = SUBSET I
  <2>1. ASSUME NEW s \in SUBSET I PROVE Cardinality(s) <= Cardinality(I)
    BY FS_Subset, Zenon
  <2> QED
    BY <2>1, Zenon DEF Small
<1> QED
  BY <1>3, <1>4, <1>5, ZenonT(30) DEF P

\* The bytes, or other items, of the members of s.
All(B, s) == UNION {B[i] : i \in s}

\* The sum of the sizes of sets that have nothing in common is the size of
\* their union.
LEMMA SumIsCardinality ==
  ASSUME NEW I, IsFiniteSet(I), NEW f, NEW it, Sums(it, SUBSET I, f), NEW B,
         \A i \in I : IsFiniteSet(B[i]) /\ Cardinality(B[i]) = f[i],
         \A i, j \in I : i # j => B[i] \cap B[j] = {}
  PROVE  IsFiniteSet(All(B, I)) /\ it[I] = Cardinality(All(B, I))
<1> DEFINE Right(s) == IsFiniteSet(All(B, s)) /\ it[s] = Cardinality(All(B, s))
           P == {n \in Nat : \A s \in SUBSET I : Cardinality(s) = n => Right(s)}
<1>0. \A s \in SUBSET I :
        it[s] = IF s = {} THEN 0
                ELSE f[CHOOSE x \in s : TRUE] + it[s \ {CHOOSE x \in s : TRUE}]
  BY Zenon DEF Sums
<1>1. 0 \in P
  <2>1. ASSUME NEW s \in SUBSET I, Cardinality(s) = 0 PROVE Right(s)
    <3>1. s = {}
      BY <2>1, NoneLeft
    <3>2. All(B, s) = {}
      BY <3>1, Zenon DEF All
    <3> QED
      BY <1>0, <3>1, <3>2, FS_EmptySet, Zenon
  <2> QED
    BY <2>1
<1>2. ASSUME NEW n \in Nat, n \in P PROVE n + 1 \in P
  <2>1. ASSUME NEW s \in SUBSET I, Cardinality(s) = n + 1 PROVE Right(s)
    <3> DEFINE x == CHOOSE y \in s : TRUE
               t == s \ {x}
    <3>1. s # {}
      BY <2>1, NoneLeft
    <3>2. /\ x \in s /\ t \in SUBSET I
          /\ Cardinality(s) \in Nat /\ Cardinality(t) = Cardinality(s) - 1
      BY <3>1, OneLess, Zenon
    <3>3. it[s] = f[x] + it[t]
      BY <1>0, <3>1, ZenonT(30)
    <3>4. x \in I /\ s = t \union {x} /\ x \notin t
      BY <3>2, Zenon
    <3> HIDE DEF x, t
    <3>5. Right(t)
      <4>1. Cardinality(t) = n
        BY <2>1, <3>2
      <4> QED
        BY <1>2, <3>2, <4>1, ZenonT(30)
    <3>6. All(B, s) = All(B, t) \union B[x] /\ All(B, t) \cap B[x] = {}
      <4>1. \A y : y \in All(B, s) <=> y \in All(B, t) \/ y \in B[x]
        BY <3>4, Zenon DEF All
      <4>2. \A i \in t : B[i] \cap B[x] = {}
        BY <3>2, <3>4, Zenon
      <4>3. \A y \in All(B, t) : y \notin B[x]
        BY <4>2, Zenon DEF All
      <4> QED
        BY <4>1, <4>3, Zenon
    <3>7. IsFiniteSet(B[x]) /\ Cardinality(B[x]) = f[x]
      BY <3>4, Zenon
    <3>8. /\ IsFiniteSet(All(B, s))
          /\ Cardinality(All(B, s)) =
               Cardinality(All(B, t)) + Cardinality(B[x]) - Cardinality({})
      <4>1. IsFiniteSet(All(B, t))
        BY <3>5, Zenon
      <4>2. /\ IsFiniteSet(All(B, t) \union B[x])
            /\ Cardinality(All(B, t) \union B[x]) =
                 Cardinality(All(B, t)) + Cardinality(B[x])
                   - Cardinality(All(B, t) \cap B[x])
        BY <3>7, <4>1, FS_Union, Zenon
      <4> QED
        BY <3>6, <4>2, Zenon
    <3>9. Cardinality(All(B, t)) \in Nat /\ Cardinality(B[x]) \in Nat /\ Cardinality({}) = 0
      BY <3>5, <3>7, FS_CardinalityType, FS_EmptySet, ZenonT(30)
    <3> QED
      BY <3>3, <3>5, <3>7, <3>8, <3>9, SMTT(30)
  <2> QED
    BY <2>1, SMTT(30)
<1>3. \A n \in Nat : n \in P
  <2> HIDE DEF P
  <2> QED
    BY <1>1, <1>2, Induction, Zenon
<1>4. Cardinality(I) \in Nat
  BY FS_CardinalityType, Zenon
<1> QED
  BY <1>3, <1>4

\* The places of the messages that wait in the mailboxes.
Places == [p \in DOMAIN mailboxes |-> {p} \X (1 .. Len(mailboxes[p]))]
Waiting == All(Places, DOMAIN mailboxes)

\* The counters differ by the number of messages that wait.
Balance ==
  /\ IsFiniteSet(DOMAIN mailboxes)
  /\ total_sent = total_delivered + Cardinality(Waiting)

\* What waits, place by place.
LEMMA WaitingIs ==
  \A y : y \in Waiting <=> \E p \in DOMAIN mailboxes : y \in {p} \X (1 .. Len(mailboxes[p]))
BY Zenon DEF Waiting, All, Places

\* The sum over the mailboxes that stats() is compared with is the number of
\* messages that wait.
LEMMA QueuedIs ==
  ASSUME TypeOK, IsFiniteSet(DOMAIN mailboxes)
  PROVE  /\ IsFiniteSet(Waiting)
         /\ FoldFunction(LAMBDA q, n : Len(q) + n, 0, mailboxes) = Cardinality(Waiting)
<1> DEFINE I == DOMAIN mailboxes
           f == [p \in I |-> Len(mailboxes[p])]
           Is(it) == it = [s \in SUBSET I |->
                             IF s = {} THEN 0
                             ELSE Len(mailboxes[CHOOSE x \in s : TRUE])
                                    + it[s \ {CHOOSE x \in s : TRUE}]]
           it == CHOOSE g : Is(g)
<1>1. IsFiniteSet(I)
  BY Zenon
<1>2. \A g : Sums(g, SUBSET I, f) <=> Is(g)
  <2>1. ASSUME NEW s \in SUBSET I, s # {}
        PROVE  f[CHOOSE x \in s : TRUE] = Len(mailboxes[CHOOSE x \in s : TRUE])
    <3>1. (CHOOSE x \in s : TRUE) \in I
      BY <2>1, Zenon
    <3> QED
      BY <3>1, Zenon
  <2> QED
    BY <2>1, Zenon DEF Sums
<1>3. FoldFunction(LAMBDA q, n : Len(q) + n, 0, mailboxes) = it[I]
  BY Zenon DEF FoldFunction, FoldFunctionOnSet, MapThenFoldSet
<1> HIDE DEF I, f, it, Is
<1>4. Sums(it, SUBSET I, f)
  <2>1. PICK g : Sums(g, SUBSET I, f)
    BY <1>1, SumExists, Zenon
  <2>2. Is(g)
    BY <1>2, <2>1, Zenon
  <2>3. Is(it)
    BY <2>2, Zenon DEF it
  <2> QED
    BY <1>2, <2>3, Zenon
<1>5. ASSUME NEW p \in I
      PROVE  IsFiniteSet(Places[p]) /\ Cardinality(Places[p]) = f[p]
  <2>1. Places[p] = {p} \X (1 .. Len(mailboxes[p])) /\ f[p] = Len(mailboxes[p])
    BY Zenon DEF Places, f, I
  <2>2. Len(mailboxes[p]) \in Nat
    BY DEF TypeOK, I
  <2>3. IsFiniteSet({p}) /\ Cardinality({p}) = 1
    BY FS_Singleton, Zenon
  <2>4. IsFiniteSet(1 .. Len(mailboxes[p])) /\ Cardinality(1 .. Len(mailboxes[p])) = Len(mailboxes[p])
    BY <2>2, FS_Interval, SMTT(30)
  <2>5. /\ IsFiniteSet({p} \X (1 .. Len(mailboxes[p])))
        /\ Cardinality({p} \X (1 .. Len(mailboxes[p]))) = 1 * Len(mailboxes[p])
    BY <2>3, <2>4, FS_Product, ZenonT(90)
  <2> QED
    BY <2>1, <2>2, <2>5
<1>6. ASSUME NEW p \in I, NEW q \in I, p # q PROVE Places[p] \cap Places[q] = {}
  <2>1. /\ Places[p] = {p} \X (1 .. Len(mailboxes[p]))
        /\ Places[q] = {q} \X (1 .. Len(mailboxes[q]))
    BY Zenon DEF Places, I
  <2> QED
    BY <1>6, <2>1
<1>7. IsFiniteSet(All(Places, I)) /\ it[I] = Cardinality(All(Places, I))
  BY <1>1, <1>4, <1>5, <1>6, SumIsCardinality
<1> QED
  BY <1>3, <1>7, Zenon DEF I, Waiting

\* The counters start level.
LEMMA BalanceInit == Init => Balance
<1> SUFFICES ASSUME Init PROVE Balance
  OBVIOUS
<1>1. DOMAIN mailboxes = {} /\ total_sent = 0 /\ total_delivered = 0
  BY DEF Init
<1>2. Waiting = {}
  BY <1>1, WaitingIs, Zenon
<1> QED
  BY <1>1, <1>2, FS_EmptySet DEF Balance

\* A message that is accepted takes a place and is counted; one that is refused
\* takes none and is not (send_message).
LEMMA BalanceSend ==
  ASSUME TypeOK, Balance, NEW s \in Pid, NEW t \in Pid, NEW data \in Data, Send(s, t, data)
  PROVE  Balance'
<1> DEFINE m == NewMessage(s, t, data)
           q == Mailbox(t)
           full == Len(q) >= Capacity
           new == <<t, Len(q) + 1>>
<1>1. q \in Seq(Message) \/ q = << >>
  BY Zenon DEF TypeOK, Mailbox
<1>2. Len(q) \in Nat /\ Len(Append(q, m)) = Len(q) + 1
  BY <1>1
<1>3. /\ mailboxes' = WithMailbox(t, IF full THEN q ELSE Append(q, m))
      /\ total_sent' = IF full THEN total_sent ELSE total_sent + 1
      /\ total_delivered' = total_delivered
  BY Zenon DEF Send
<1> HIDE DEF m, full
<1>4. /\ DOMAIN mailboxes' = DOMAIN mailboxes \union {t}
      /\ Len(mailboxes'[t]) = Len(q) + (IF full THEN 0 ELSE 1)
      /\ \A x \in DOMAIN mailboxes : x # t => mailboxes'[x] = mailboxes[x]
  BY <1>2, <1>3 DEF WithMailbox
<1>5. IsFiniteSet(DOMAIN mailboxes') /\ IsFiniteSet(Waiting)
  BY <1>4, FS_AddElement, QueuedIs, Zenon DEF Balance
<1>6. \A x : x \in {t} \X (1 .. Len(q)) => x \in Waiting
  <2>1. t \notin DOMAIN mailboxes => Len(q) = 0
    BY Zenon DEF Mailbox
  <2>2. t \in DOMAIN mailboxes => q = mailboxes[t]
    BY Zenon DEF Mailbox
  <2>3. Len(q) = 0 => {t} \X (1 .. Len(q)) = {}
    OBVIOUS
  <2> QED
    BY <2>1, <2>2, <2>3, WaitingIs, ZenonT(30)
<1>7. \A x : x \in Waiting /\ x \in {t} \X Nat => x \in {t} \X (1 .. Len(q))
  <2>1. t \in DOMAIN mailboxes => q = mailboxes[t]
    BY DEF Mailbox
  <2> QED
    BY <2>1, WaitingIs
<1>8. Waiting' = IF full THEN Waiting ELSE Waiting \union {new}
  <2> DEFINE n == Len(q) + (IF full THEN 0 ELSE 1)
  <2>1. \A y : y \in Waiting' <=>
                \E p \in DOMAIN mailboxes' : y \in {p} \X (1 .. Len(mailboxes'[p]))
    BY Zenon DEF Waiting, All, Places
  <2>2. \A y : y \in Waiting' <=>
               \/ y \in {t} \X (1 .. n)
               \/ \E p \in DOMAIN mailboxes \ {t} : y \in {p} \X (1 .. Len(mailboxes[p]))
    BY <1>4, <2>1, Zenon
  <2>3. \A y : y \in Waiting <=>
               \/ y \in {t} \X (1 .. Len(q))
               \/ \E p \in DOMAIN mailboxes \ {t} : y \in {p} \X (1 .. Len(mailboxes[p]))
    <3>1. t \in DOMAIN mailboxes => q = mailboxes[t]
      BY DEF Mailbox
    <3> QED
      BY <1>6, <3>1, WaitingIs, Zenon
  <2>4. \A y : y \in {t} \X (1 .. n) <=>
               y \in {t} \X (1 .. Len(q)) \/ (~ full /\ y = new)
    BY <1>2
  <2> QED
    BY <2>2, <2>3, <2>4, Zenon
<1>9. new \notin Waiting
  <2>1. new \in {t} \X Nat /\ new \notin {t} \X (1 .. Len(q))
    BY <1>2
  <2> QED
    BY <1>7, <2>1, Zenon
<1>10. Cardinality(Waiting') = Cardinality(Waiting) + (IF full THEN 0 ELSE 1)
  <2>1. CASE full
    BY <1>5, <1>8, <2>1, FS_CardinalityType
  <2>2. CASE ~ full
    BY <1>5, <1>8, <1>9, <2>2, FS_AddElement, ZenonT(30)
  <2> QED
    BY <2>1, <2>2, Zenon
<1>11. Cardinality(Waiting) \in Nat /\ total_sent \in Nat /\ total_delivered \in Nat
  BY <1>5, FS_CardinalityType, Zenon DEF TypeOK
<1>12. total_sent = total_delivered + Cardinality(Waiting)
  BY Zenon DEF Balance
<1>13. total_sent' = total_delivered' + Cardinality(Waiting')
  BY <1>3, <1>10, <1>11, <1>12
<1> QED
  BY <1>5, <1>13, Zenon DEF Balance

\* A message that is received gives its place up (receive_message).
LEMMA BalanceReceive ==
  ASSUME TypeOK, Balance, NEW t \in Pid, Receive(t)
  PROVE  Balance'
<1> DEFINE q == mailboxes[t]
           old == <<t, Len(q)>>
<1>1. t \in DOMAIN mailboxes /\ q \in Seq(Message) /\ q # << >>
  BY Zenon DEF TypeOK, Receive
<1>2. Len(q) \in Nat \ {0} /\ Len(Tail(q)) = Len(q) - 1
  BY <1>1
<1>3. /\ DOMAIN mailboxes' = DOMAIN mailboxes
      /\ Len(mailboxes'[t]) = Len(q) - 1
      /\ \A x \in DOMAIN mailboxes : x # t => mailboxes'[x] = mailboxes[x]
      /\ total_sent' = total_sent /\ total_delivered' = total_delivered + 1
  BY <1>1, <1>2, Zenon DEF Receive
<1>4. IsFiniteSet(DOMAIN mailboxes') /\ IsFiniteSet(Waiting)
  BY <1>3, QueuedIs, Zenon DEF Balance
<1>5. Waiting' = Waiting \ {old} /\ old \in Waiting
  <2>1. \A y : y \in Waiting' <=>
                \E p \in DOMAIN mailboxes' : y \in {p} \X (1 .. Len(mailboxes'[p]))
    BY Zenon DEF Waiting, All, Places
  <2>2. \A y : y \in Waiting' <=>
               \/ y \in {t} \X (1 .. Len(q) - 1)
               \/ \E p \in DOMAIN mailboxes \ {t} : y \in {p} \X (1 .. Len(mailboxes[p]))
    BY <1>1, <1>3, <2>1, Zenon
  <2>3. \A y : y \in Waiting <=>
               \/ y \in {t} \X (1 .. Len(q))
               \/ \E p \in DOMAIN mailboxes \ {t} : y \in {p} \X (1 .. Len(mailboxes[p]))
    BY <1>1, WaitingIs, Zenon
  <2>4. \A y : y \in {t} \X (1 .. Len(q) - 1) <=> y \in {t} \X (1 .. Len(q)) /\ y # old
    BY <1>2
  <2>5. old \in {t} \X (1 .. Len(q))
    BY <1>2
  <2>6. \A p \in DOMAIN mailboxes \ {t} : old \notin {p} \X (1 .. Len(mailboxes[p]))
    OBVIOUS
  <2> HIDE DEF old
  <2> QED
    BY <2>2, <2>3, <2>4, <2>5, <2>6, ZenonT(30)
<1>6. Cardinality(Waiting') = Cardinality(Waiting) - 1
  BY <1>4, <1>5, FS_RemoveElement, ZenonT(30)
<1>7. Cardinality(Waiting) \in Nat /\ total_sent \in Nat /\ total_delivered \in Nat
  BY <1>4, FS_CardinalityType DEF TypeOK
<1>8. total_sent = total_delivered + Cardinality(Waiting)
  BY Zenon DEF Balance
<1>9. total_sent' = total_delivered' + Cardinality(Waiting')
  BY <1>3, <1>6, <1>7, <1>8
<1> QED
  BY <1>4, <1>9, Zenon DEF Balance

\* Every operation of the router keeps the balance.
LEMMA BalanceNext == TypeOK /\ Balance /\ [Next]_vars => Balance'
<1> SUFFICES ASSUME TypeOK, Balance, [Next]_vars PROVE Balance'
  BY Zenon
<1>1. ASSUME NEW s \in Pid, NEW t \in Pid, NEW data \in Data, Send(s, t, data) PROVE Balance'
  BY <1>1, BalanceSend
<1>2. ASSUME NEW p \in Pid, Receive(p) PROVE Balance'
  BY <1>2, BalanceReceive
<1>3. CASE UNCHANGED vars
  BY <1>3, Zenon DEF vars, Balance, Waiting, All, Places
<1>4. ASSUME NEW p \in Pid, ReceiveNone(p) PROVE UNCHANGED vars
  BY <1>4, Zenon DEF ReceiveNone
<1> QED
  BY <1>1, <1>2, <1>3, <1>4, Zenon DEF Next

\* stats() is consistent: what was sent and not delivered is what waits in all
\* the mailboxes, however sends are refused and receives find nothing.
THEOREM CountersBalance == Spec => []CountsBalance
<1>1. TypeOK /\ Balance => CountsBalance
  BY QueuedIs, Zenon DEF Balance, CountsBalance
<1> QED
  BY <1>1, BalanceInit, BalanceNext, TypeCorrect, PTL DEF Spec

-----------------------------------------------------------------------------
\* The system calls.

Label == {"running", "stack", "push", "number", "dispatch", "return", "dead"}

WordsTyped ==
    /\ current \in [Cpu -> Pid] /\ \A c \in Cpu : Home[current[c]] = c
    /\ at \in [Pid -> Label]
    /\ rax \in [User -> Number \cup {Done}]
    /\ rsp \in [User -> User] /\ frame \in [User -> User]

\* Between the syscall instruction and the dispatcher a task keeps its CPU, whose
\* kernel stack word is set for it, so the words hold what the task put there.
StubInv ==
    /\ WordsTyped
    /\ \A c \in Cpu : current[c] \in User => kernelRsp = current[c]
    /\ \A p \in Pid :
         /\ at[p] # "running" => p \in User
         /\ at[p] \in {"stack", "push", "number", "dispatch"} => current[Home[p]] = p
         /\ at[p] \in {"stack", "push"} => userRsp = p
    /\ CallIntact

\* The root task of a CPU makes no system calls.
LEMMA RootsAreNoUsers ==
    /\ \A p \in Pid : Home[p] \in Cpu
    /\ \A c \in Cpu : Root[c] \in Pid /\ Root[c] \notin User
    /\ User \subseteq Pid
  BY SyscallAssumption, ZenonT(30) DEF User

\* The static words start unused, with every CPU in its root task.
LEMMA BootStub == Boot => StubInv
  <1> SUFFICES ASSUME Boot PROVE StubInv
    OBVIOUS
  <1>1. WordsTyped
    BY SyscallAssumption, RootsAreNoUsers, ZenonT(30) DEF Boot, WordsTyped, Label
  <1>2. QED
    BY <1>1, RootsAreNoUsers, ZenonT(30) DEF Boot, StubInv, CallIntact

\* On one CPU, a switch of tasks by the task that runs there keeps the words of
\* the stub: no other task is inside it.
LEMMA SwitchStub ==
    ASSUME \A c, d \in Cpu : c = d, StubInv, NEW p \in Pid, NEW l \in {"running", "return", "dead"},
           current[Home[p]] = p, l # "running" => p \in User,
           at[p] \in {"running", "dispatch"},
           at[p] = "running" => l = "running",
           Leave(p) \/ Stay, at' = [at EXCEPT ![p] = l],
           rax' = rax \/ (p \in User /\ rax' = [rax EXCEPT ![p] = Done]),
           UNCHANGED <<userRsp, nr, rsp, frame>>
    PROVE  StubInv'
  <1> USE RootsAreNoUsers DEF StubInv, WordsTyped
  <1>1. \A q \in Pid : current[Home[q]] = q => q = p
    OBVIOUS
  <1>2. PICK q \in Pid : /\ Home[q] = Home[p]
                         /\ current' = [current EXCEPT ![Home[q]] = q]
                         /\ q \in User => kernelRsp' = q
    <2>1. CASE Leave(p)
      <3>1. PICK q \in Others(p) : SwitchTo(q)
        BY <2>1, Zenon DEF Leave
      <3>2. QED BY <3>1, ZenonT(30) DEF Others, SwitchTo
    <2>2. CASE Stay
      <3>1. current' = [current EXCEPT ![Home[p]] = p]
        BY <2>2, SMTT(30) DEF Stay
      <3>2. p \in User => kernelRsp' = p
        BY <2>2, SMTT(30) DEF Stay
      <3>3. QED BY <3>1, <3>2, ZenonT(30)
    <2>3. QED BY <2>1, <2>2, Zenon
  <1>3. WordsTyped'
    BY <1>2 DEF Label, Number
  <1>4. \A x \in Pid : x # p => at[x] \in {"running", "return", "dead"} /\ at'[x] = at[x]
    BY <1>1 DEF Label
  <1>5. at'[p] = l
    OBVIOUS
  <1>6. \A c \in Cpu : current'[c] \in User => kernelRsp' = current'[c]
    BY <1>2
  <1>7. \A x \in Pid :
          /\ at'[x] # "running" => x \in User
          /\ at'[x] \notin {"stack", "push", "number", "dispatch"}
    BY <1>4, <1>5, Zenon
  <1>8. CallIntact'
    <2> SUFFICES ASSUME NEW x \in User
                 PROVE  at'[x] = "return" => rsp'[x] = x /\ frame'[rsp'[x]] = x
      BY <1>7, Zenon DEF CallIntact
    <2>1. CASE x = p
      BY <2>1, <1>5, Zenon DEF CallIntact
    <2>2. CASE x # p
      BY <2>2, <1>4, Zenon DEF CallIntact
    <2>3. QED BY <2>1, <2>2, Zenon
  <1>9. QED
    BY <1>3, <1>6, <1>7, <1>8, ZenonT(30)

\* On one CPU, every step keeps the words of the stub.
LEMMA StepStub ==
    ASSUME \A c, d \in Cpu : c = d, StubInv, [Step]_all
    PROVE  StubInv'
  <1> USE RootsAreNoUsers
  <1>1. CASE UNCHANGED all
    BY <1>1, Zenon DEF all, StubInv, WordsTyped, CallIntact
  <1> SUFFICES ASSUME Step PROVE StubInv'
    BY <1>1, ZenonT(30)
  <1>2. PICK p \in Pid : \/ Enter(p) \/ LoadStack(p) \/ PushUser(p) \/ SaveNumber(p)
                         \/ Serve(p) \/ SysRet(p) \/ Preempt(p) \/ ShellIpc(p)
    BY Zenon DEF Step
  <1>3. current[Home[p]] = p
    BY <1>2, ZenonT(30) DEF Enter, LoadStack, PushUser, SaveNumber, Serve, SysRet, Preempt, ShellIpc, At
  <1>4. \A q \in Pid \ {p} : at[q] \in {"running", "return", "dead"}
    BY <1>3, SMTT(30) DEF StubInv, WordsTyped, Label
  <1>5. CASE Enter(p)
    <2> USE <1>5, <1>3, <1>4 DEF Enter, At, Goto
    <2>1. WordsTyped'
      BY SMTT(30) DEF StubInv, WordsTyped, Label
    <2>2. CallIntact'
      BY ZenonT(30) DEF StubInv, WordsTyped, CallIntact
    <2>3. QED BY <2>1, <2>2, SMTT(30) DEF StubInv, WordsTyped
  <1>6. CASE LoadStack(p)
    <2> USE <1>6, <1>3, <1>4 DEF LoadStack, At, Goto
    <2>1. p \in User /\ kernelRsp = p
      BY DEF StubInv
    <2>2. WordsTyped'
      BY <2>1, Zenon DEF StubInv, WordsTyped, Label
    <2>3. CallIntact'
      BY <2>1, SMTT(30) DEF StubInv, WordsTyped, CallIntact
    <2>4. QED BY <2>1, <2>2, <2>3, SMTT(30) DEF StubInv, WordsTyped
  <1>7. CASE PushUser(p)
    <2> USE <1>7, <1>3, <1>4 DEF PushUser, At, Goto
    <2>1. p \in User /\ userRsp = p /\ rsp[p] = p
      BY Zenon DEF StubInv, CallIntact
    <2>2. WordsTyped'
      BY <2>1, Zenon DEF StubInv, WordsTyped, Label
    <2>3. CallIntact'
      BY <2>1, ZenonT(30) DEF StubInv, WordsTyped, CallIntact
    <2>4. QED BY <2>1, <2>2, <2>3, SMTT(30) DEF StubInv, WordsTyped
  <1>8. CASE SaveNumber(p)
    <2> USE <1>8, <1>3, <1>4 DEF SaveNumber, At, Goto
    <2>1. p \in User
      BY Zenon DEF StubInv
    <2>2. WordsTyped'
      BY <2>1, Zenon DEF StubInv, WordsTyped, Label
    <2>3. CallIntact'
      BY <2>1 DEF StubInv, WordsTyped, CallIntact
    <2>4. QED BY <2>1, <2>2, <2>3, SMTT(30) DEF StubInv, WordsTyped
  <1>9. CASE Serve(p)
    <2>1. p \in User /\ at[p] = "dispatch"
      BY <1>9, ZenonT(30) DEF Serve, At, StubInv
    <2>2. /\ Leave(p) \/ Stay
          /\ Goto(p, "return") \/ Goto(p, "dead")
          /\ rax' = [rax EXCEPT ![p] = Done]
          /\ UNCHANGED <<userRsp, nr, rsp, frame>>
      BY <1>9, SMTT(30) DEF Serve
    <2>3. CASE Goto(p, "return")
      BY <1>3, <2>1, <2>2, <2>3, SwitchStub, ZenonT(30) DEF Goto
    <2>4. CASE Goto(p, "dead")
      BY <1>3, <2>1, <2>2, <2>4, SwitchStub, ZenonT(30) DEF Goto
    <2>5. QED BY <2>2, <2>3, <2>4, ZenonT(30)
  <1>10. CASE SysRet(p)
    <2> USE <1>10, <1>3, <1>4 DEF SysRet, At, Goto
    <2>1. WordsTyped'
      BY Zenon DEF StubInv, WordsTyped, Label
    <2>2. CallIntact'
      BY DEF StubInv, WordsTyped, CallIntact
    <2>3. QED BY <2>1, <2>2, SMTT(30) DEF StubInv, WordsTyped
  <1>11. CASE Preempt(p) \/ ShellIpc(p)
    <2>1. /\ at[p] = "running" /\ at' = at /\ rax' = rax
          /\ Leave(p) \/ Stay
          /\ UNCHANGED <<userRsp, nr, rsp, frame>>
      BY <1>11, Zenon DEF Preempt, ShellIpc, At
    <2>2. at' = [at EXCEPT ![p] = "running"]
      BY <2>1 DEF StubInv, WordsTyped
    <2>3. QED BY <1>3, <2>1, <2>2, SwitchStub, ZenonT(30)
  <1>12. QED
    BY <1>2, <1>5, <1>6, <1>7, <1>8, <1>9, <1>10, <1>11, Zenon

\* On one CPU the entry stub of syscall.rs carries every call through: it runs on
\* its caller's kernel stack, serves the call that was asked for and returns to
\* its caller's user stack, for any number of tasks that yield inside their calls.
THEOREM CallsIntact ==
    ASSUME \A c, d \in Cpu : c = d
    PROVE  Behaviour => []CallIntact
  <1>1. StubInv /\ [Step]_all => StubInv'
    BY StepStub, Zenon
  <1>2. StubInv => CallIntact
    BY Zenon DEF StubInv
  <1>3. QED BY BootStub, <1>1, <1>2, PTL DEF Behaviour

\* Every step of the system is a step of the router or leaves it alone: SYS_SEND,
\* SYS_RECV and the shell's ipc command reach it only through send_message and
\* receive_message, whatever the tasks and CPUs do in between.
THEOREM CallsUseRouter == Behaviour => Spec
  <1>1. Boot => Init
    BY Zenon DEF Boot
  <1>2. [Step]_all => [Next]_vars
    <2> SUFFICES ASSUME [Step]_all PROVE [Next]_vars
      BY Zenon
    <2>1. CASE UNCHANGED all
      BY <2>1, Zenon DEF all, router, vars
    <2>2. CASE Step
      <3>1. PICK p \in Pid : \/ Enter(p) \/ LoadStack(p) \/ PushUser(p) \/ SaveNumber(p)
                             \/ Serve(p) \/ SysRet(p) \/ Preempt(p) \/ ShellIpc(p)
        BY <2>2, ZenonT(30) DEF Step
      <3>2. UNCHANGED router \/ SysSend(p) \/ SysRecv(p)
        BY <3>1 DEF Enter, LoadStack, PushUser, SaveNumber, Serve, SysRet, Preempt, ShellIpc
      <3>3. CASE UNCHANGED router
        BY <3>3 DEF router, vars
      <3>4. CASE SysSend(p) \/ SysRecv(p)
        BY <3>4 DEF SysSend, SysRecv, Next
      <3>5. QED BY <3>2, <3>3, <3>4, ZenonT(30)
    <2>3. QED BY <2>1, <2>2, Zenon
  <1>3. QED BY <1>1, <1>2, PTL DEF Behaviour, Spec

\* So messages arrive in order, once and unchanged in the whole system, also when
\* preempted and yielding tasks on several CPUs send and receive at will; and the
\* counters account for all of them.
THEOREM SystemDelivers == Behaviour => []InOrder /\ []PayloadIntact /\ []CountsBalance
  BY CallsUseRouter, DeliveryInOrder, PayloadsIntact, CountersBalance, PTL
=============================================================================
