--------------------------- MODULE MainLoopProofs ---------------------------
(***************************************************************************)
(* Theorems about module MainLoop, for every size of the descriptor rings  *)
(* and of the key ring, every network and everything typed: the driver and *)
(* the card never disagree about a receive descriptor, frames leave in the *)
(* order they were sent, keys are neither lost nor reordered, and the ARP  *)
(* table and ping tell the truth.                                          *)
(***************************************************************************)
EXTENDS MainLoop, SequenceTheorems, TLAPS

\* What the card, and a handler through the driver, may do to the rings.
CardStep == \/ \E f : SendPacket(f)
            \/ HasPacket /\ ReceivePacket /\ UNCHANGED <<sent, wire>>
            \/ \E f : f # None /\ HwReceive(f)
            \/ HwTransmit

\* The rings are functions and the registers and cursors index them.
Rings == /\ nic = [rx |-> nic.rx, rdh |-> nic.rdh, rdt |-> nic.rdt, rxcur |-> nic.rxcur,
                   tx |-> nic.tx, tdh |-> nic.tdh, tdt |-> nic.tdt, txcur |-> nic.txcur]
         /\ nic.rx = [i \in RxRing |-> nic.rx[i]] /\ nic.tx = [i \in TxRing |-> nic.tx[i]]
         /\ nic.rdh \in RxRing /\ nic.rdt \in RxRing /\ nic.rxcur \in RxRing
         /\ nic.tdh \in TxRing /\ nic.tdt \in TxRing /\ nic.txcur = nic.tdt
         /\ sent \in Nat /\ wire \in Nat

-----------------------------------------------------------------------------
\* Arithmetic on the indices of a ring of n slots.
After(n, a) == IF a = n - 1 THEN 0 ELSE a + 1
Before(n, a) == IF a = 0 THEN n - 1 ELSE a - 1
Steps(n, a, b) == IF b >= a THEN b - a ELSE b - a + n

-----------------------------------------------------------------------------
\* RxWindow, with the remainders worked out.
RxSound == /\ \A i \in RxRing : (nic.rx[i] # None) <=>
                Steps(RxCount, nic.rxcur, i) < Steps(RxCount, nic.rxcur, nic.rdh)
           /\ nic.rdt = Before(RxCount, nic.rxcur)

\* The transmit descriptors the card owns hold the frames sent last, in order.
TxQueue == /\ \A i \in TxRing :
                Steps(TxCount, nic.tdh, i) < Steps(TxCount, nic.tdh, nic.tdt) =>
                  nic.tx[i].no = sent + 1 - Steps(TxCount, i, nic.tdt)
           /\ wire + Steps(TxCount, nic.tdh, nic.tdt) <= sent

CardInv == Rings /\ RxSound /\ TxQueue

\* What the remainders taken by the driver and the keyboard handler are.
LEMMA Remainders ==
    ASSUME NEW n \in Nat \ {0}, NEW a \in 0 .. n - 1, NEW b \in 0 .. n - 1
    PROVE  /\ (a + 1) % n = After(n, a) /\ After(n, a) \in 0 .. n - 1
           /\ (a - 1) % n = Before(n, a) /\ Before(n, a) \in 0 .. n - 1
           /\ (b - a) % n = Steps(n, a, b) /\ Steps(n, a, b) \in 0 .. n - 1
  BY DEF After, Before, Steps

\* The window from a to b loses its first slot.
LEMMA WindowShrinks ==
    ASSUME NEW n \in Nat \ {0}, NEW a \in 0 .. n - 1, NEW b \in 0 .. n - 1, a # b,
           NEW i \in 0 .. n - 1
    PROVE  /\ Steps(n, After(n, a), i) < Steps(n, After(n, a), b)
               <=> i # a /\ Steps(n, a, i) < Steps(n, a, b)
           /\ Steps(n, After(n, a), b) = Steps(n, a, b) - 1
           /\ Before(n, After(n, a)) = a
  BY DEF After, Before, Steps

\* The window from a to b gains the slot b.
LEMMA WindowGrows ==
    ASSUME NEW n \in Nat \ {0}, NEW a \in 0 .. n - 1, NEW b \in 0 .. n - 1,
           After(n, b) # a, NEW i \in 0 .. n - 1
    PROVE  /\ Steps(n, a, i) < Steps(n, a, After(n, b))
               <=> i = b \/ Steps(n, a, i) < Steps(n, a, b)
           /\ Steps(n, a, After(n, b)) = Steps(n, a, b) + 1
           /\ Steps(n, b, After(n, b)) = 1
           /\ i # b /\ Steps(n, a, i) < Steps(n, a, b) => Steps(n, i, After(n, b)) = Steps(n, i, b) + 1
  BY DEF After, Steps

-----------------------------------------------------------------------------
\* E1000::init leaves the rings in order.
LEMMA InitCard == InitNic => CardInv
  <1> SUFFICES ASSUME InitNic PROVE CardInv
    BY ZenonT(30)
  <1> USE E1000Assumption DEF InitNic, InitRings
  <1>1. Rings
    BY DEF Rings, RxRing, TxRing
  <1>2. RxSound
    BY DEF RxSound, Steps, Before, RxRing
  <1>3. TxQueue
    BY DEF TxQueue, TxRing, Steps
  <1>4. QED BY <1>1, <1>2, <1>3, ZenonT(30) DEF CardInv

\* receive_packet gives the first descriptor of the window back to the card.
LEMMA TakeKeepsCard ==
    ASSUME CardInv, HasPacket, ReceivePacket, UNCHANGED <<sent, wire>>
    PROVE  CardInv'
  <1> DEFINE n == RxCount
  <1>1. n \in Nat \ {0} /\ RxRing = 0 .. n - 1 /\ Rings
    BY E1000Assumption, ZenonT(30) DEF RxRing, CardInv
  <1>2. nic.rxcur \in 0 .. n - 1 /\ nic.rdh \in 0 .. n - 1
    BY <1>1 DEF Rings
  <1>3. (nic.rxcur + 1) % n = After(n, nic.rxcur) /\ After(n, nic.rxcur) \in 0 .. n - 1
    BY <1>1, <1>2, Remainders, ZenonT(30)
  <1>4. /\ nic'.rx = [nic.rx EXCEPT ![nic.rxcur] = None] /\ nic'.rdh = nic.rdh
        /\ nic'.rdt = nic.rxcur /\ nic'.rxcur = After(n, nic.rxcur)
        /\ nic'.tx = nic.tx /\ nic'.tdh = nic.tdh /\ nic'.tdt = nic.tdt /\ nic'.txcur = nic.txcur
    BY <1>1, <1>3, ZenonT(30) DEF ReceivePacket, Rings
  <1>5. Rings'
    <2>1. nic' = [rx |-> nic'.rx, rdh |-> nic'.rdh, rdt |-> nic'.rdt, rxcur |-> nic'.rxcur,
                  tx |-> nic'.tx, tdh |-> nic'.tdh, tdt |-> nic'.tdt, txcur |-> nic'.txcur]
      BY <1>1, ZenonT(30) DEF ReceivePacket, Rings
    <2>2. nic'.rx = [i \in RxRing |-> nic'.rx[i]]
      BY <1>1, <1>4, ZenonT(30) DEF Rings
    <2>3. QED BY <1>1, <1>2, <1>3, <1>4, <2>1, <2>2, SMTT(30) DEF Rings
  <1>6. TxQueue'
    BY <1>4, ZenonT(30) DEF CardInv, TxQueue
  <1>7. RxSound'
    <2>1. \A i \in RxRing : (nic.rx[i] # None) <=> Steps(n, nic.rxcur, i) < Steps(n, nic.rxcur, nic.rdh)
      BY Zenon DEF CardInv, RxSound
    <2>2. nic.rdh # nic.rxcur
      BY <1>1, <1>2, <2>1, SMTT(30) DEF HasPacket, Steps
    <2>3. \A i \in RxRing : nic'.rx[i] = IF i = nic.rxcur THEN None ELSE nic.rx[i]
      BY <1>1, <1>4, SMTT(30) DEF Rings
    <2>4. \A i \in RxRing : (nic'.rx[i] # None) <=>
             Steps(n, After(n, nic.rxcur), i) < Steps(n, After(n, nic.rxcur), nic.rdh)
      BY <1>1, <1>2, <2>1, <2>2, <2>3, WindowShrinks, ZenonT(30)
    <2>5. nic.rxcur = Before(n, After(n, nic.rxcur))
      BY <1>1, <1>2, <2>2, WindowShrinks, ZenonT(30)
    <2>6. QED BY <1>4, <2>4, <2>5, ZenonT(30) DEF RxSound
  <1>8. QED BY <1>5, <1>6, <1>7, ZenonT(30) DEF CardInv

\* The card fills the descriptor after the window.
LEMMA FillKeepsCard ==
    ASSUME CardInv, NEW f, f # None, HwReceive(f)
    PROVE  CardInv'
  <1> DEFINE n == RxCount
  <1>1. n \in Nat \ {0} /\ RxRing = 0 .. n - 1 /\ Rings
    BY E1000Assumption, ZenonT(30) DEF RxRing, CardInv
  <1>2. nic.rxcur \in 0 .. n - 1 /\ nic.rdh \in 0 .. n - 1
    BY <1>1 DEF Rings
  <1>3. (nic.rdh + 1) % n = After(n, nic.rdh) /\ After(n, nic.rdh) \in 0 .. n - 1
    BY <1>1, <1>2, Remainders, ZenonT(30)
  <1>4. /\ nic'.rx = [nic.rx EXCEPT ![nic.rdh] = f] /\ nic'.rdh = After(n, nic.rdh)
        /\ nic'.rdt = nic.rdt /\ nic'.rxcur = nic.rxcur
        /\ nic'.tx = nic.tx /\ nic'.tdh = nic.tdh /\ nic'.tdt = nic.tdt /\ nic'.txcur = nic.txcur
        /\ UNCHANGED <<sent, wire>>
    BY <1>1, <1>3, ZenonT(30) DEF HwReceive, Rings
  <1>5. Rings'
    <2>1. nic' = [rx |-> nic'.rx, rdh |-> nic'.rdh, rdt |-> nic'.rdt, rxcur |-> nic'.rxcur,
                  tx |-> nic'.tx, tdh |-> nic'.tdh, tdt |-> nic'.tdt, txcur |-> nic'.txcur]
      BY <1>1, ZenonT(30) DEF HwReceive, Rings
    <2>2. nic'.rx = [i \in RxRing |-> nic'.rx[i]]
      BY <1>1, <1>4, ZenonT(30) DEF Rings
    <2>3. QED BY <1>1, <1>2, <1>3, <1>4, <2>1, <2>2, SMTT(30) DEF Rings
  <1>6. TxQueue'
    BY <1>4, ZenonT(30) DEF CardInv, TxQueue
  <1>7. RxSound'
    <2>1. /\ \A i \in RxRing : (nic.rx[i] # None) <=> Steps(n, nic.rxcur, i) < Steps(n, nic.rxcur, nic.rdh)
          /\ nic.rdt = Before(n, nic.rxcur)
      BY DEF CardInv, RxSound
    <2>2. After(n, nic.rdh) # nic.rxcur
      BY <1>1, <1>2, <2>1, SMTT(30) DEF HwReceive, After, Before
    <2>3. \A i \in RxRing : nic'.rx[i] = IF i = nic.rdh THEN f ELSE nic.rx[i]
      BY <1>1, <1>4, SMTT(30) DEF Rings
    <2>4. \A i \in RxRing : (nic'.rx[i] # None) <=>
             Steps(n, nic.rxcur, i) < Steps(n, nic.rxcur, After(n, nic.rdh))
      BY <1>1, <1>2, <2>1, <2>2, <2>3, WindowGrows, ZenonT(30)
    <2>5. QED BY <1>4, <2>1, <2>4, SMTT(30) DEF RxSound
  <1>8. QED BY <1>5, <1>6, <1>7, ZenonT(30) DEF CardInv

\* send_packet appends to the transmit window, or laps the card and empties it.
LEMMA SendKeepsCard ==
    ASSUME CardInv, NEW f, SendPacket(f)
    PROVE  CardInv'
  <1> DEFINE n == TxCount
             e == [no |-> sent + 1, frame |-> f]
  <1>1. n \in Nat \ {0} /\ TxRing = 0 .. n - 1 /\ Rings
    BY E1000Assumption, ZenonT(30) DEF TxRing, CardInv
  <1>2. nic.tdt \in 0 .. n - 1 /\ nic.tdh \in 0 .. n - 1 /\ nic.txcur = nic.tdt /\ sent \in Nat /\ wire \in Nat
    BY <1>1 DEF Rings
  <1>3. (nic.tdt + 1) % n = After(n, nic.tdt) /\ After(n, nic.tdt) \in 0 .. n - 1
    BY <1>1, <1>2, Remainders, ZenonT(30)
  <1>4. /\ nic'.tx = [nic.tx EXCEPT ![nic.tdt] = e] /\ nic'.tdh = nic.tdh
        /\ nic'.tdt = After(n, nic.tdt) /\ nic'.txcur = After(n, nic.tdt)
        /\ nic'.rx = nic.rx /\ nic'.rdh = nic.rdh /\ nic'.rdt = nic.rdt /\ nic'.rxcur = nic.rxcur
        /\ sent' = sent + 1 /\ wire' = wire
    BY <1>1, <1>2, <1>3, ZenonT(30) DEF SendPacket, Rings
  <1>5. Rings'
    <2>1. nic' = [rx |-> nic'.rx, rdh |-> nic'.rdh, rdt |-> nic'.rdt, rxcur |-> nic'.rxcur,
                  tx |-> nic'.tx, tdh |-> nic'.tdh, tdt |-> nic'.tdt, txcur |-> nic'.txcur]
      BY <1>1, ZenonT(30) DEF SendPacket, Rings
    <2>2. nic'.tx = [i \in TxRing |-> nic'.tx[i]]
      BY <1>1, <1>4, ZenonT(30) DEF Rings
    <2>3. QED BY <1>1, <1>2, <1>3, <1>4, <2>1, <2>2, SMTT(30) DEF Rings
  <1>6. RxSound'
    BY <1>4, Zenon DEF CardInv, RxSound
  <1>7. TxQueue'
    <2>1. /\ \A i \in TxRing : Steps(n, nic.tdh, i) < Steps(n, nic.tdh, nic.tdt) =>
                nic.tx[i].no = sent + 1 - Steps(n, i, nic.tdt)
          /\ wire + Steps(n, nic.tdh, nic.tdt) <= sent
      BY Zenon DEF CardInv, TxQueue
    <2>2. \A i \in TxRing : nic'.tx[i] = IF i = nic.tdt THEN e ELSE nic.tx[i]
      BY <1>1, <1>4, Zenon DEF Rings
    <2>3. /\ \A i \in TxRing : Steps(n, nic.tdh, i) < Steps(n, nic.tdh, After(n, nic.tdt)) =>
                nic'.tx[i].no = sent + 2 - Steps(n, i, After(n, nic.tdt))
          /\ wire + Steps(n, nic.tdh, After(n, nic.tdt)) <= sent + 1
      <3>1. CASE After(n, nic.tdt) = nic.tdh
        <4>1. Steps(n, nic.tdh, After(n, nic.tdt)) = 0 /\ Steps(n, nic.tdh, nic.tdt) \in Nat
          BY <1>1, <1>2, <3>1, SMTT(30) DEF Steps
        <4>2. \A i \in TxRing : ~(Steps(n, nic.tdh, i) < 0)
          BY <1>1, <1>2, SMTT(30) DEF Steps
        <4>3. QED BY <1>2, <2>1, <4>1, <4>2, SMTT(30)
      <3>2. CASE After(n, nic.tdt) # nic.tdh
        <4>1. Steps(n, nic.tdh, After(n, nic.tdt)) = Steps(n, nic.tdh, nic.tdt) + 1
          BY <1>1, <1>2, <3>2, WindowGrows, Zenon
        <4>2. ASSUME NEW i \in TxRing, Steps(n, nic.tdh, i) < Steps(n, nic.tdh, After(n, nic.tdt))
              PROVE  nic'.tx[i].no = sent + 2 - Steps(n, i, After(n, nic.tdt))
          <5>1. i = nic.tdt \/ Steps(n, nic.tdh, i) < Steps(n, nic.tdh, nic.tdt)
            BY <1>1, <1>2, <3>2, <4>2, WindowGrows, Zenon
          <5>2. CASE i = nic.tdt
            <6>1. Steps(n, i, After(n, nic.tdt)) = 1
              BY <1>1, <1>2, <3>2, <5>2, WindowGrows, Zenon
            <6>2. QED BY <1>2, <2>2, <5>2, <6>1, SMTT(30)
          <5>3. CASE i # nic.tdt /\ Steps(n, nic.tdh, i) < Steps(n, nic.tdh, nic.tdt)
            <6>1. Steps(n, i, After(n, nic.tdt)) = Steps(n, i, nic.tdt) + 1
              BY <1>1, <1>2, <3>2, <5>3, WindowGrows, ZenonT(30)
            <6>2. Steps(n, i, nic.tdt) \in Nat
              BY <1>1, <1>2, Remainders, SMTT(30)
            <6>3. QED BY <1>2, <2>1, <2>2, <5>3, <6>1, <6>2, SMTT(30)
          <5>4. QED BY <5>1, <5>2, <5>3, Zenon
        <4>3. Steps(n, nic.tdh, nic.tdt) \in Nat
          BY <1>1, <1>2, Remainders, SMTT(30)
        <4>4. QED BY <1>2, <2>1, <4>1, <4>2, <4>3, SMTT(30)
      <3>3. QED BY <3>1, <3>2, Zenon
    <2>4. sent' + 1 = sent + 2
      BY <1>2, <1>4, SMTT(30)
    <2>5. \A i \in TxRing : Steps(n, nic'.tdh, i) < Steps(n, nic'.tdh, nic'.tdt) =>
            nic'.tx[i].no = sent' + 1 - Steps(n, i, nic'.tdt)
      <3>1. SUFFICES ASSUME NEW i \in TxRing, Steps(n, nic'.tdh, i) < Steps(n, nic'.tdh, nic'.tdt)
                     PROVE  nic'.tx[i].no = sent' + 1 - Steps(n, i, nic'.tdt)
        BY Zenon
      <3>2. Steps(n, nic.tdh, i) < Steps(n, nic.tdh, After(n, nic.tdt))
        BY <1>4, <3>1, ZenonT(30)
      <3>3. nic'.tx[i].no = sent + 2 - Steps(n, i, After(n, nic.tdt))
        BY <2>3, <3>2, Zenon
      <3>4. Steps(n, i, After(n, nic.tdt)) \in Nat
        BY <1>1, <1>3, <3>1, Remainders, SMTT(30)
      <3>5. nic'.tx[i].no = sent' + 1 - Steps(n, i, After(n, nic.tdt))
        BY <1>2, <1>4, <3>3, <3>4, SMTT(30)
      <3>6. QED BY <1>4, <3>5, ZenonT(30)
    <2>6. wire' + Steps(n, nic'.tdh, nic'.tdt) <= sent'
      <3>1. wire + Steps(n, nic.tdh, After(n, nic.tdt)) <= sent + 1
        BY <2>3, Zenon
      <3>2. QED BY <1>4, <3>1, ZenonT(30)
    <2>7. QED BY <2>5, <2>6, ZenonT(30) DEF TxQueue
  <1>8. QED BY <1>5, <1>6, <1>7, ZenonT(30) DEF CardInv

\* HwTransmit: the frame that leaves was sent after every frame that left before.
LEMMA TransmitKeepsCard ==
    ASSUME CardInv, HwTransmit
    PROVE  CardInv' /\ wire' > wire /\ nic'.tdh # nic.tdh
  <1> DEFINE n == TxCount
             w == Steps(n, nic.tdh, nic.tdt)
  <1>1. n \in Nat \ {0, 1} /\ TxRing = 0 .. n - 1 /\ Rings
    BY E1000Assumption, Zenon DEF TxRing, CardInv
  <1>2. nic.tdt \in 0 .. n - 1 /\ nic.tdh \in 0 .. n - 1 /\ nic.txcur = nic.tdt /\ sent \in Nat /\ wire \in Nat
    BY <1>1 DEF Rings
  <1>3. (nic.tdh + 1) % n = After(n, nic.tdh) /\ After(n, nic.tdh) \in 0 .. n - 1
    BY <1>1, <1>2, Remainders, ZenonT(30)
  <1>4. /\ nic'.tx = [nic.tx EXCEPT ![nic.tdh] = Idle] /\ nic'.tdh = After(n, nic.tdh)
        /\ nic'.tdt = nic.tdt /\ nic'.txcur = nic.txcur
        /\ nic'.rx = nic.rx /\ nic'.rdh = nic.rdh /\ nic'.rdt = nic.rdt /\ nic'.rxcur = nic.rxcur
        /\ sent' = sent /\ wire' = nic.tx[nic.tdh].no /\ nic.tdh # nic.tdt
    BY <1>1, <1>2, <1>3, ZenonT(30) DEF HwTransmit, Rings, Outgoing
  <1>5. /\ \A i \in TxRing : Steps(n, nic.tdh, i) < w => nic.tx[i].no = sent + 1 - Steps(n, i, nic.tdt)
        /\ wire + w <= sent
    BY ZenonT(30) DEF CardInv, TxQueue
  <1>6. Steps(n, nic.tdh, nic.tdh) = 0 /\ w \in Nat \ {0}
    BY <1>1, <1>2, <1>4, SMTT(30) DEF Steps
  <1>7. wire' = sent + 1 - w /\ wire' \in Nat /\ wire' > wire
    <2> HIDE DEF w
    <2>1. nic.tx[nic.tdh].no = sent + 1 - w
      BY <1>1, <1>2, <1>5, <1>6, SMTT(30) DEF w
    <2>2. QED BY <1>2, <1>4, <1>5, <1>6, <2>1, SMTT(30)
  <1>8. Rings'
    <2>1. nic' = [rx |-> nic'.rx, rdh |-> nic'.rdh, rdt |-> nic'.rdt, rxcur |-> nic'.rxcur,
                  tx |-> nic'.tx, tdh |-> nic'.tdh, tdt |-> nic'.tdt, txcur |-> nic'.txcur]
      BY <1>1, ZenonT(30) DEF HwTransmit, Rings
    <2>2. nic'.tx = [i \in TxRing |-> nic'.tx[i]]
      BY <1>1, <1>4, ZenonT(30) DEF Rings
    <2>3. QED BY <1>1, <1>2, <1>3, <1>4, <1>7, <2>1, <2>2, ZenonT(30) DEF Rings
  <1>9. RxSound'
    BY <1>4, Zenon DEF CardInv, RxSound
  <1>10. TxQueue'
    <2>1. ASSUME NEW i \in TxRing, Steps(n, nic'.tdh, i) < Steps(n, nic'.tdh, nic'.tdt)
          PROVE  nic'.tx[i].no = sent' + 1 - Steps(n, i, nic'.tdt)
      <3>1. Steps(n, After(n, nic.tdh), i) < Steps(n, After(n, nic.tdh), nic.tdt)
        BY <1>4, <2>1, ZenonT(30)
      <3>2. i # nic.tdh /\ Steps(n, nic.tdh, i) < w
        BY <1>1, <1>2, <1>4, <3>1, WindowShrinks, ZenonT(30)
      <3>3. nic'.tx[i] = nic.tx[i]
        BY <1>1, <1>4, <3>2, ZenonT(30) DEF Rings
      <3>4. nic'.tx[i].no = sent + 1 - Steps(n, i, nic.tdt)
        BY <1>5, <3>2, <3>3, ZenonT(30)
      <3>5. QED BY <1>4, <3>4, ZenonT(30)
    <2>2. wire' + Steps(n, nic'.tdh, nic'.tdt) <= sent'
      <3>1. Steps(n, After(n, nic.tdh), nic.tdt) = w - 1
        BY <1>1, <1>2, <1>4, SMTT(30) DEF Steps, After
      <3>2. wire' + (w - 1) <= sent
        <4> HIDE DEF w
        <4>1. QED BY <1>2, <1>6, <1>7, SMTT(30)
      <3>3. QED BY <1>4, <3>1, <3>2, ZenonT(30)
    <2>3. QED BY <2>1, <2>2, ZenonT(30) DEF TxQueue
  <1>11. nic'.tdh # nic.tdh
    BY <1>1, <1>2, <1>4, SMTT(30) DEF After
  <1>12. QED BY <1>7, <1>8, <1>9, <1>10, <1>11, Zenon DEF CardInv

\* The two ways to say who owns the receive descriptors agree.
LEMMA SoundWindow == CardInv => RxWindow
  <1>1. SUFFICES ASSUME CardInv PROVE RxWindow
    BY ZenonT(30)
  <1>2. RxCount \in Nat \ {0} /\ RxRing = 0 .. RxCount - 1 /\ nic.rdh \in RxRing /\ nic.rxcur \in RxRing
    BY <1>1, E1000Assumption, ZenonT(30) DEF CardInv, Rings, RxRing
  <1>3. ASSUME NEW i \in RxRing
        PROVE  /\ (i - nic.rxcur) % RxCount = Steps(RxCount, nic.rxcur, i)
               /\ (nic.rdh - nic.rxcur) % RxCount = Steps(RxCount, nic.rxcur, nic.rdh)
    BY <1>2, Remainders, ZenonT(30)
  <1>4. (nic.rxcur - 1) % RxCount = Before(RxCount, nic.rxcur)
    BY <1>2, Remainders, ZenonT(30)
  <1>5. \A i \in RxRing : i \in Filled <=> Steps(RxCount, nic.rxcur, i) < Steps(RxCount, nic.rxcur, nic.rdh)
    BY <1>3, ZenonT(30) DEF Filled
  <1>6. QED BY <1>1, <1>4, <1>5, Zenon DEF CardInv, RxSound, RxWindow

-----------------------------------------------------------------------------
\* What a step of the system is to the card, and to the frames on their way.
NicStep == \/ UNCHANGED <<nic, sent, wire, air>>
           \/ UNCHANGED air /\ \E f : SendPacket(f)
           \/ UNCHANGED <<air, sent, wire>> /\ HasPacket /\ ReceivePacket
           \/ air' \subseteq air /\ \E f \in air : HwReceive(f)
           \/ HwTransmit /\ air' = air \cup Answers(Outgoing.frame)

\* poll takes a frame that is there, or does nothing.
LEMMA PollMoves == Poll => NicStep
  BY ZenonT(30) DEF Poll, NicStep, netVars

\* No command touches the card before its frames are sent.
LEMMA SubmitMoves == \A k : Submit(k) => UNCHANGED <<nic, sent, wire, air>>
  BY ZenonT(30) DEF Submit, Execute, SendPing, SendUdp, netVars

\* Every step of the system is one of the card's five.
LEMMA NextMoves == [Next]_vars => NicStep
  <1>1. ASSUME SendFrame PROVE NicStep
    BY <1>1, ZenonT(30) DEF SendFrame, NicStep
  <1>2. ASSUME Wake \/ SerialDone \/ PingTimeout PROVE NicStep
    BY <1>2, ZenonT(30) DEF Wake, SerialDone, PingTimeout, NicStep, netVars
  <1>3. ASSUME SerialByte \/ KeyStep PROVE NicStep
    BY <1>3, SubmitMoves, ZenonT(30) DEF SerialByte, KeyStep, NicStep
  <1>4. ASSUME KeysDone \/ PingTurn PROVE NicStep
    BY <1>4, PollMoves, ZenonT(30) DEF KeysDone, PingTurn
  <1>5. ASSUME Task PROVE NicStep
    BY <1>1, <1>2, <1>3, <1>4, <1>5, ZenonT(30) DEF Task
  <1>6. ASSUME Arrive PROVE NicStep
    BY <1>6, ZenonT(30) DEF Arrive, NicStep, netVars
  <1>7. ASSUME Leave PROVE NicStep
    BY <1>7, ZenonT(30) DEF Leave, NicStep
  <1>8. ASSUME UNCHANGED <<nic, sent, wire, netVars>> PROVE NicStep
    BY <1>8, ZenonT(30) DEF NicStep, netVars
  <1>9. ASSUME Device PROVE NicStep
    BY <1>6, <1>7, <1>8, <1>9, ZenonT(30) DEF Device, Ticks
  <1>10. QED BY <1>5, <1>8, <1>9, ZenonT(30) DEF Next, vars

\* The rings stay sound, and frames leave in order, whatever the step.
LEMMA StepKeepsCard ==
    ASSUME CardInv, None \notin air, NicStep
    PROVE  CardInv' /\ (nic'.tdh # nic.tdh => wire' > wire)
  <1>1. ASSUME UNCHANGED <<nic, sent, wire>> PROVE CardInv'
    BY <1>1 DEF CardInv, Rings, RxSound, TxQueue
  <1>2. ASSUME NEW f, SendPacket(f) PROVE CardInv' /\ nic'.tdh = nic.tdh
    BY <1>2, SendKeepsCard, ZenonT(30) DEF SendPacket, CardInv, Rings
  <1>3. ASSUME HasPacket, ReceivePacket, UNCHANGED <<sent, wire>> PROVE CardInv' /\ nic'.tdh = nic.tdh
    BY <1>3, TakeKeepsCard, SMTT(30) DEF ReceivePacket, CardInv, Rings
  <1>4. ASSUME NEW f \in air, HwReceive(f) PROVE CardInv' /\ nic'.tdh = nic.tdh
    BY <1>4, FillKeepsCard, ZenonT(30) DEF HwReceive, CardInv, Rings
  <1>5. ASSUME HwTransmit PROVE CardInv' /\ wire' > wire
    BY <1>5, TransmitKeepsCard, SMTT(30)
  <1>6. QED BY <1>1, <1>2, <1>3, <1>4, <1>5, ZenonT(30) DEF NicStep

\* The invariant of the card and the network: None stays no frame.
NicInv == CardInv /\ None \notin air

\* The invariant of the card holds always, if no answer is the missing frame.
LEMMA CardAlways ==
    ASSUME \A f : None \notin Answers(f)
    PROVE  Spec => []NicInv
  <1>1. Init => NicInv
    BY InitCard, NetAssumption, ZenonT(30) DEF Init, InitNet, NicInv
  <1>2. ASSUME NicInv, [Next]_vars PROVE NicInv'
    <2>1. NicStep
      BY <1>2, NextMoves, ZenonT(30)
    <2>2. None \notin air'
      BY <1>2, <2>1, SMTT(30) DEF NicStep, NicInv
    <2>3. QED BY <1>2, <2>1, <2>2, StepKeepsCard, ZenonT(30) DEF NicInv
  <1>3. QED BY <1>1, <1>2, PTL DEF Spec

\* The driver and the card agree about every receive descriptor, whatever the
\* size of the ring and whatever the network sends: receive_packet neither
\* misses nor repeats a frame.
THEOREM ReceiveSound ==
    ASSUME \A f : None \notin Answers(f)
    PROVE  Spec => []RxWindow
  BY CardAlways, SoundWindow, PTL DEF NicInv

\* Frames leave in the order send_packet was given them, none twice, whatever
\* the size of the ring and however far the card is behind.
THEOREM TransmitOrdered ==
    ASSUME \A f : None \notin Answers(f)
    PROVE  Spec => TxInOrder
  <1>1. ASSUME NicInv, [Next]_vars
        PROVE  [nic'.tdh # nic.tdh => wire' > wire]_<<nic, sent, wire>>
    BY <1>1, NextMoves, StepKeepsCard, ZenonT(30) DEF NicInv
  <1>2. QED BY <1>1, CardAlways, PTL DEF Spec, TxInOrder

-----------------------------------------------------------------------------
\* The slot i places behind the head of a ring of n slots.
Place(n, h, i) == IF h + i - 1 >= n THEN h + i - 1 - n ELSE h + i - 1

\* KeysInOrder, with the remainders worked out.
RingInv == /\ ring = [data |-> ring.data, head |-> ring.head, tail |-> ring.tail]
           /\ ring.data \in [Slot -> Key] /\ ring.head \in Slot /\ ring.tail \in Slot
           /\ waiting \in Seq(Key)
           /\ Len(waiting) = Steps(KeyCap, ring.head, ring.tail)
           /\ \A i \in 1 .. Len(waiting) : waiting[i] = ring.data[Place(KeyCap, ring.head, i)]

\* Where the places of a ring are.
LEMMA Places ==
    ASSUME NEW n \in Nat \ {0}, NEW h \in 0 .. n - 1, NEW t \in 0 .. n - 1,
           NEW i \in 1 .. Steps(n, h, t) + 1
    PROVE  Place(n, h, i) \in 0 .. n - 1 /\ (Place(n, h, i) = t <=> i = Steps(n, h, t) + 1)
  BY DEF Place, Steps

\* The remainder taken to index the ring.
LEMMA PlaceIs ==
    ASSUME NEW n \in Nat \ {0}, NEW h \in 0 .. n - 1, NEW t \in 0 .. n - 1,
           NEW i \in 1 .. Steps(n, h, t)
    PROVE  (h + i - 1) % n = Place(n, h, i)
  BY DEF Place, Steps

\* The places seen from a head that has moved on.
LEMMA NextPlace ==
    ASSUME NEW n \in Nat \ {0}, NEW h \in 0 .. n - 1, NEW t \in 0 .. n - 1,
           NEW i \in 1 .. Steps(n, h, t) - 1
    PROVE  Place(n, After(n, h), i) = Place(n, h, i + 1)
  BY DEF Place, Steps, After

\* The interrupt handler adds a key behind the others, or drops it.
LEMMA AcceptKeepsRing ==
    ASSUME RingInv, NEW k \in Key, AcceptKey(k)
    PROVE  RingInv'
  <1> DEFINE n == KeyCap
             len == Steps(n, ring.head, ring.tail)
  <1>1. n \in Nat \ {0} /\ Slot = 0 .. n - 1
    BY ConsoleAssumption, ZenonT(30) DEF Slot
  <1>2. ring.head \in 0 .. n - 1 /\ ring.tail \in 0 .. n - 1 /\ ring.data \in [Slot -> Key]
    BY <1>1, SMTT(30) DEF RingInv
  <1>3. (ring.tail + 1) % n = After(n, ring.tail) /\ After(n, ring.tail) \in 0 .. n - 1
        /\ len \in 0 .. n - 1
    BY <1>1, <1>2, Remainders, ZenonT(30)
  <1>4. CASE UNCHANGED <<ring, waiting>>
    BY <1>4, ZenonT(30) DEF RingInv
  <1>5. CASE After(n, ring.tail) # ring.head
    <2>1. ring' = [ring EXCEPT !.data[ring.tail] = k, !.tail = After(n, ring.tail)]
          /\ waiting' = Append(waiting, k)
      BY <1>3, <1>5, ZenonT(30) DEF AcceptKey
    <2>2. /\ ring' = [data |-> ring'.data, head |-> ring'.head, tail |-> ring'.tail]
          /\ ring'.data = [ring.data EXCEPT ![ring.tail] = k]
          /\ ring'.head = ring.head /\ ring'.tail = After(n, ring.tail)
      BY <2>1, ZenonT(30) DEF RingInv
    <2>3. ring'.data \in [Slot -> Key]
      BY <1>1, <1>2, <2>2, ZenonT(30)
    <2>4. waiting \in Seq(Key) /\ Len(waiting) = len
      BY ZenonT(30) DEF RingInv
    <2>5. waiting' \in Seq(Key) /\ Len(waiting') = len + 1
      BY <2>1, <2>4, SMTT(30)
    <2>6. Steps(n, ring.head, After(n, ring.tail)) = len + 1
      BY <1>1, <1>2, <1>5, SMTT(30) DEF Steps, After
    <2>7. ASSUME NEW i \in 1 .. len + 1 PROVE waiting'[i] = ring'.data[Place(n, ring.head, i)]
      <3>1. /\ Place(n, ring.head, i) \in Slot
            /\ Place(n, ring.head, i) = ring.tail <=> i = len + 1
        <4>1. Place(n, ring.head, i) \in 0 .. n - 1
          BY <1>1, <1>2, <2>7, Places, ZenonT(30)
        <4>2. Place(n, ring.head, i) = ring.tail <=> i = len + 1
          BY <1>1, <1>2, <2>7, SMTT(30) DEF Place, Steps
        <4>3. QED BY <1>1, <4>1, <4>2, ZenonT(30)
      <3>2. CASE i = len + 1
        <4>1. waiting'[i] = k
          BY <2>1, <2>4, <3>2, SMTT(30)
        <4>2. QED BY <1>1, <1>2, <2>2, <3>1, <3>2, <4>1, Zenon
      <3>3. CASE i # len + 1
        <4>1. i \in 1 .. len /\ waiting'[i] = waiting[i]
          BY <1>3, <2>1, <2>4, <3>3, SMTT(30)
        <4>2. ring'.data[Place(n, ring.head, i)] = ring.data[Place(n, ring.head, i)]
          BY <1>1, <1>2, <2>2, <3>1, <3>3, ZenonT(30)
        <4>3. waiting[i] = ring.data[Place(n, ring.head, i)]
          BY <2>4, <4>1, ZenonT(30) DEF RingInv
        <4>4. QED BY <4>1, <4>2, <4>3, ZenonT(30)
      <3>4. QED BY <3>2, <3>3, SMTT(30)
    <2>8. /\ Len(waiting') = Steps(KeyCap, ring'.head, ring'.tail)
          /\ \A i \in 1 .. Len(waiting') : waiting'[i] = ring'.data[Place(KeyCap, ring'.head, i)]
      BY <2>2, <2>5, <2>6, <2>7, ZenonT(30)
    <2>9. ring'.head \in Slot /\ ring'.tail \in Slot
      BY <1>1, <1>2, <1>3, <2>2, ZenonT(30)
    <2>10. QED BY <2>2, <2>3, <2>5, <2>8, <2>9, SMTT(30) DEF RingInv
  <1>6. QED BY <1>3, <1>4, <1>5, ZenonT(30) DEF AcceptKey

\* process_pending_keys takes the oldest key.
LEMMA FeedKeepsRing ==
    ASSUME RingInv, FeedKey
    PROVE  RingInv'
  <1> DEFINE n == KeyCap
             len == Steps(n, ring.head, ring.tail)
  <1>1. n \in Nat \ {0} /\ Slot = 0 .. n - 1
    BY ConsoleAssumption, ZenonT(30) DEF Slot
  <1>2. ring.head \in 0 .. n - 1 /\ ring.tail \in 0 .. n - 1 /\ ring.data \in [Slot -> Key]
        /\ ring.head # ring.tail
    BY <1>1, ZenonT(30) DEF RingInv, FeedKey, RingEmpty
  <1>3. (ring.head + 1) % n = After(n, ring.head) /\ After(n, ring.head) \in 0 .. n - 1
        /\ len \in 0 .. n - 1
    BY <1>1, <1>2, Remainders, ZenonT(30)
  <1>4. /\ ring' = [data |-> ring'.data, head |-> ring'.head, tail |-> ring'.tail]
        /\ ring'.data = ring.data /\ ring'.head = After(n, ring.head) /\ ring'.tail = ring.tail
        /\ waiting' = Tail(waiting)
    BY <1>3, ZenonT(30) DEF FeedKey, RingInv
  <1>5. waiting \in Seq(Key) /\ Len(waiting) = len
    BY ZenonT(30) DEF RingInv
  <1>6. len \in Nat \ {0} /\ Steps(n, After(n, ring.head), ring.tail) = len - 1
    BY <1>1, <1>2, SMTT(30) DEF Steps, After
  <1>7. /\ waiting' \in Seq(Key) /\ Len(waiting') = len - 1
        /\ \A i \in 1 .. len - 1 : waiting'[i] = waiting[i + 1]
    <2> HIDE DEF len
    <2>1. waiting # <<>>
      BY <1>5, <1>6, ZenonT(30)
    <2>2. QED BY <1>4, <1>5, <1>6, <2>1, SMTT(30)
  <1>8. ASSUME NEW i \in 1 .. len - 1 PROVE waiting'[i] = ring.data[Place(n, After(n, ring.head), i)]
    <2>1. i + 1 \in 1 .. len + 1 /\ i + 1 \in 1 .. len /\ i + 1 > 1 /\ (i + 1) - 1 = i
      <3> HIDE DEF len
      <3>1. QED BY <1>6, SMTT(30)
    <2>2. Place(n, After(n, ring.head), i) = Place(n, ring.head, i + 1)
      BY <1>1, <1>2, NextPlace, ZenonT(30)
    <2>3. waiting[i + 1] = ring.data[Place(n, ring.head, i + 1)]
      BY <1>5, <2>1, ZenonT(30) DEF RingInv
    <2>4. QED BY <1>7, <2>2, <2>3, ZenonT(30)
  <1>9. /\ Len(waiting') = Steps(KeyCap, ring'.head, ring'.tail)
        /\ \A i \in 1 .. Len(waiting') : waiting'[i] = ring'.data[Place(KeyCap, ring'.head, i)]
    BY <1>4, <1>6, <1>7, <1>8, ZenonT(30)
  <1>10. ring'.head \in Slot /\ ring'.tail \in Slot /\ ring'.data \in [Slot -> Key]
    BY <1>1, <1>2, <1>3, <1>4, ZenonT(30)
  <1>11. QED BY <1>4, <1>7, <1>9, <1>10, ZenonT(30) DEF RingInv

\* The two ways to say what the ring holds agree.
LEMMA RingOrder == RingInv => KeysInOrder
  <1> SUFFICES ASSUME RingInv PROVE KeysInOrder
    OBVIOUS
  <1> DEFINE len == Steps(KeyCap, ring.head, ring.tail)
  <1>1. KeyCap \in Nat \ {0} /\ ring.head \in 0 .. KeyCap - 1 /\ ring.tail \in 0 .. KeyCap - 1
    BY ConsoleAssumption, ZenonT(30) DEF RingInv, Slot
  <1>2. (ring.tail - ring.head) % KeyCap = len /\ len \in Nat
    <2>1. (ring.tail - ring.head) % KeyCap = len /\ len \in 0 .. KeyCap - 1
      BY <1>1, Remainders, ZenonT(30)
    <2> HIDE DEF len
    <2>2. QED BY <1>1, <2>1, SMTT(30)
  <1>3. ASSUME NEW i \in 1 .. len PROVE (ring.head + i - 1) % KeyCap = Place(KeyCap, ring.head, i)
    BY <1>1, <1>3, PlaceIs, ZenonT(30)
  <1>4. waiting \in Seq(Key) /\ Len(waiting) = len
        /\ \A i \in 1 .. len : waiting[i] = ring.data[Place(KeyCap, ring.head, i)]
    BY ZenonT(30) DEF RingInv
  <1> HIDE DEF len
  <1>5. waiting = [i \in 1 .. len |-> ring.data[Place(KeyCap, ring.head, i)]]
    BY <1>2, <1>4, SMTT(30)
  <1>6. [i \in 1 .. len |-> ring.data[Place(KeyCap, ring.head, i)]]
          = [i \in 1 .. len |-> ring.data[(ring.head + i - 1) % KeyCap]]
    BY <1>3, ZenonT(30)
  <1>7. QED BY <1>2, <1>5, <1>6, ZenonT(30) DEF KeysInOrder

\* What a step of the system is to the key ring.
RingStep == \/ UNCHANGED <<ring, waiting>>
            \/ \E k \in Key : AcceptKey(k)
            \/ FeedKey

\* Every step of the system is one of the ring's three.
LEMMA NextFeeds == [Next]_vars => RingStep
  <1>1. ASSUME Task PROVE RingStep
    BY <1>1, ZenonT(30) DEF Task, Wake, SerialByte, SerialDone, KeyStep, KeysDone, PingTurn, PingTimeout,
                ReadSerial, FeedSerial, consoleVars, RingStep
  <1>2. ASSUME Device PROVE RingStep
    BY <1>2, ConsoleAssumption, ZenonT(30) DEF Device, KeyInterrupt, SerialInput, Ticks, consoleVars, RingStep
  <1>3. ASSUME UNCHANGED vars PROVE RingStep
    BY <1>3 DEF vars, consoleVars, RingStep
  <1>4. QED BY <1>1, <1>2, <1>3, ZenonT(30) DEF Next

\* No key is lost, repeated or reordered between the keyboard interrupt and the
\* boot task, whatever the capacity of the ring, the keys and the commands run.
THEOREM KeysKeptInOrder == Spec => []KeysInOrder
  <1>1. Init => RingInv
    <2> SUFFICES ASSUME Init PROVE RingInv
      OBVIOUS
    <2>1. KeyCap \in Nat \ {0, 1} /\ Slot = 0 .. KeyCap - 1 /\ 0 \in Slot
      BY ConsoleAssumption, SMTT(30) DEF Slot
    <2>2. ring = [data |-> [i \in Slot |-> "nl"], head |-> 0, tail |-> 0] /\ waiting = <<>>
      BY Zenon DEF Init, InitConsole
    <2>3. ring.data \in [Slot -> Key]
      BY <2>2, Zenon DEF Key
    <2>4. QED BY <2>1, <2>2, <2>3, SMTT(30) DEF RingInv, Steps
  <1>2. RingInv /\ [Next]_vars => RingInv'
    <2> SUFFICES ASSUME RingInv, [Next]_vars PROVE RingInv'
      BY Zenon
    <2>1. CASE UNCHANGED <<ring, waiting>>
      BY <2>1, Zenon DEF RingInv
    <2>2. QED BY <2>1, NextFeeds, AcceptKeepsRing, FeedKeepsRing, Zenon DEF RingStep
  <1>3. QED BY <1>1, <1>2, RingOrder, PTL DEF Spec

-----------------------------------------------------------------------------
\* The frames a handler sends are at most two, and an echo request is the last.
Outbox == \/ outbox = <<>>
          \/ \E f : outbox = <<f>>
          \/ \E f, g : outbox = <<f, g>> /\ f.kind # "echo"

\* Where a ping may be: its request waits for the driver or for the card, its reply
\* is on the way or waits for poll.
Due == IF outbox = <<>> THEN {} ELSE {f \in {outbox[Len(outbox)]} : f.kind = "echo"}
Queued == {i \in TxRing : nic.tx[i].no > 0 /\ nic.tx[i].frame.kind = "echo"}
Coming == {f \in air : f.kind = "echo_reply"}
Come == {i \in RxRing : nic.rx[i] # None /\ nic.rx[i].kind = "echo_reply"}

\* The latest ping is in one of these places, with its number, or in none.
Quiet == Due = {} /\ Queued = {} /\ Coming = {} /\ Come = {}
Asking == (\E f : Due = {f} /\ f.no = seq) /\ Queued = {} /\ Coming = {} /\ Come = {}
Asked == Due = {} /\ (\E i : Queued = {i} /\ nic.tx[i].frame.no = seq) /\ Coming = {} /\ Come = {}
Answered == Due = {} /\ Queued = {} /\ (\E f : Coming = {f} /\ f.no = seq) /\ Come = {}
Arrived == Due = {} /\ Queued = {} /\ Coming = {} /\ (\E i : Come = {i} /\ nic.rx[i].no = seq)
OnePlace == Quiet \/ Asking \/ Asked \/ Answered \/ Arrived

\* ReplyMatches, strengthened: while no reply can be stray, the latest ping is in one
\* place as long as the shell waits for it, and in none afterwards.
EchoInv == /\ Outbox
           /\ pc = "ping" => rtt = None
           /\ ~stray => /\ OnePlace
                        /\ pc # "ping" => Quiet
                        /\ rtt # None => rtt.no = seq

\* The network answers an echo request with one reply, which carries its number, and
\* nothing else with an echo reply.
Answering == \A f : /\ None \notin Answers(f)
                    /\ \A g \in Answers(f) : g.kind = "echo_reply" =>
                         /\ f.kind = "echo" /\ g.no = f.no
                         /\ \A h \in Answers(f) : h.kind = "echo_reply" => h = g

\* The shape of what a handler sends: at most an ARP request before the packet.
LEMMA Ipv4Shape ==
    ASSUME NEW dest, NEW packet
    PROVE  LET fs == Ipv4Frames(dest, packet)
           IN  \E m : \/ fs = <<Frame(m, packet.kind, dest, packet.no)>>
                      \/ fs = <<ArpRequest(NextHop(dest)), Frame(m, packet.kind, dest, packet.no)>>
  BY ZenonT(30) DEF Ipv4Frames

\* An outbox made by Ipv4Frames holds an echo request exactly when the packet is one.
LEMMA Ipv4Due ==
    ASSUME NEW dest, NEW packet, outbox' = Ipv4Frames(dest, packet)
    PROVE  /\ Outbox'
           /\ packet.kind # "echo" => Due' = {}
           /\ packet.kind = "echo" => \E f : Due' = {f} /\ f.no = packet.no
  <1>1. PICK m : \/ outbox' = <<Frame(m, packet.kind, dest, packet.no)>>
                 \/ outbox' = <<ArpRequest(NextHop(dest)), Frame(m, packet.kind, dest, packet.no)>>
    BY Ipv4Shape, ZenonT(30)
  <1> DEFINE g == Frame(m, packet.kind, dest, packet.no)
             a == ArpRequest(NextHop(dest))
  <1>2. g.kind = packet.kind /\ g.no = packet.no
    BY ZenonT(30) DEF Frame
  <1>3. a.kind # "echo"
    BY ZenonT(30) DEF ArpRequest, Frame
  <1>4. outbox' = <<g>> \/ outbox' = <<a, g>>
    BY <1>1, ZenonT(30)
  <1> HIDE DEF g, a
  <1>5. outbox' # <<>> /\ outbox'[Len(outbox')] = g
    BY <1>4, SMTT(30)
  <1>6. Due' = {f \in {g} : f.kind = "echo"}
    BY <1>5, ZenonT(30) DEF Due
  <1>7. Outbox'
    BY <1>3, <1>4, ZenonT(30) DEF Outbox
  <1>8. QED BY <1>2, <1>6, <1>7, ZenonT(30)

\* send_packet puts a frame into the transmit ring, where it takes the place of what
\* was there.
LEMMA SendFills ==
    ASSUME CardInv, NEW f, SendPacket(f)
    PROVE  /\ Queued' = IF f.kind = "echo" THEN Queued \cup {nic.txcur} ELSE Queued \ {nic.txcur}
           /\ nic'.tx[nic.txcur].frame = f
           /\ \A i \in TxRing \ {nic.txcur} : nic'.tx[i] = nic.tx[i]
           /\ nic'.rx = nic.rx
  <1> DEFINE new == [no |-> sent + 1, frame |-> f]
             cur == nic.txcur
  <1>1. cur \in TxRing /\ sent \in Nat /\ nic.tx = [i \in TxRing |-> nic.tx[i]]
    BY ZenonT(30) DEF CardInv, Rings
  <1>2. new.no > 0 /\ new.frame = f
    BY <1>1, SMTT(10)
  <1>3. nic'.tx = [nic.tx EXCEPT ![cur] = new] /\ nic'.rx = nic.rx
    BY SMTT(10) DEF SendPacket, CardInv, Rings
  <1> HIDE DEF new, cur
  <1>4. nic'.tx[cur] = new /\ \A i \in TxRing \ {cur} : nic'.tx[i] = nic.tx[i]
    BY <1>1, <1>3, ZenonT(30)
  <1>5. Queued' = {i \in TxRing : nic'.tx[i].no > 0 /\ nic'.tx[i].frame.kind = "echo"}
    BY ZenonT(30) DEF Queued, TxRing
  <1>6. \A i \in TxRing \ {cur} : i \in Queued' <=> i \in Queued
    BY <1>4, <1>5, ZenonT(30) DEF Queued
  <1>7. cur \in Queued' <=> f.kind = "echo"
    BY <1>1, <1>2, <1>4, <1>5, ZenonT(30)
  <1>8. Queued' \subseteq TxRing /\ Queued \subseteq TxRing
    BY <1>5, ZenonT(30) DEF Queued
  <1>9. Queued' = IF f.kind = "echo" THEN Queued \cup {cur} ELSE Queued \ {cur}
    BY <1>1, <1>6, <1>7, <1>8, ZenonT(30)
  <1>10. QED BY <1>2, <1>3, <1>4, <1>9, ZenonT(30) DEF cur

\* send_frame takes the first frame of the outbox: the echo request, if it is the last
\* one left, or another frame.
LEMMA SendTakes ==
    ASSUME Outbox, SendFrame
    PROVE  \E f : /\ SendPacket(f) /\ Outbox'
                  /\ \/ f.kind = "echo" /\ Due = {f} /\ Due' = {}
                     \/ f.kind # "echo" /\ Due' = Due
  <1>1. outbox # <<>> /\ SendPacket(Head(outbox)) /\ outbox' = Tail(outbox)
    BY ZenonT(30) DEF SendFrame
  <1>2. ASSUME NEW f, outbox = <<f>>
        PROVE  \E x : /\ SendPacket(x) /\ Outbox'
                      /\ \/ x.kind = "echo" /\ Due = {x} /\ Due' = {}
                         \/ x.kind # "echo" /\ Due' = Due
    <2>1. Head(outbox) = f /\ Tail(outbox) = <<>> /\ outbox[Len(outbox)] = f
      BY <1>2, SMTT(10)
    <2>2. Due = {x \in {f} : x.kind = "echo"} /\ Due' = {} /\ Outbox'
      BY <1>1, <2>1, ZenonT(30) DEF Due, Outbox
    <2>3. QED BY <1>1, <2>1, <2>2, ZenonT(30)
  <1>3. ASSUME NEW f, NEW g, outbox = <<f, g>>, f.kind # "echo"
        PROVE  \E x : /\ SendPacket(x) /\ Outbox'
                      /\ \/ x.kind = "echo" /\ Due = {x} /\ Due' = {}
                         \/ x.kind # "echo" /\ Due' = Due
    <2>1. Head(outbox) = f /\ Tail(outbox) = <<g>> /\ outbox[Len(outbox)] = g
      BY <1>3, SMTT(10)
    <2>2. outbox' = <<g>> /\ outbox' # <<>> /\ outbox'[Len(outbox')] = g
      BY <1>1, <2>1, SMTT(10)
    <2>3. Due' = Due /\ Outbox'
      BY <1>1, <2>1, <2>2, ZenonT(30) DEF Due, Outbox
    <2>4. QED BY <1>1, <1>3, <2>1, <2>3, ZenonT(30)
  <1>4. QED BY <1>1, <1>2, <1>3, ZenonT(30) DEF Outbox

\* Each place depends on one variable: the air holds the replies on their way.
LEMMA SameAir == air' = air => Coming' = Coming
  BY ZenonT(30) DEF Coming
\* The receive ring holds the replies that have come.
LEMMA SameRx == nic'.rx = nic.rx => Come' = Come
  BY ZenonT(30) DEF Come, RxRing
\* The transmit ring holds the requests the card has not sent.
LEMMA SameTx == nic'.tx = nic.tx => Queued' = Queued
  BY ZenonT(30) DEF Queued, TxRing
\* The outbox holds the request of a running handler.
LEMMA SameOut == outbox' = outbox => Due' = Due /\ (Outbox => Outbox')
  BY ZenonT(30) DEF Due, Outbox

\* A step that touches neither the network nor the card, and neither starts nor ends a
\* ping.
LEMMA RestKeepsEcho ==
    ASSUME EchoInv, UNCHANGED <<nic, netVars>>, pc' = pc \/ (pc # "ping" /\ pc' # "ping")
    PROVE  EchoInv'
  <1>1. UNCHANGED <<nic, outbox, air, stray, rtt, seq>>
    BY ZenonT(30) DEF netVars
  <1>2. Coming' = Coming /\ Come' = Come /\ Queued' = Queued /\ Due' = Due /\ Outbox'
    BY <1>1, SameAir, SameRx, SameTx, SameOut, ZenonT(30) DEF EchoInv
  <1>3. /\ Quiet => Quiet'
        /\ Asking => Asking'
        /\ Asked => Asked'
        /\ Answered => Answered'
        /\ Arrived => Arrived'
    BY <1>1, <1>2, ZenonT(30) DEF Quiet, Asking, Asked, Answered, Arrived
  <1>4. QED BY <1>1, <1>2, <1>3, ZenonT(30) DEF EchoInv, OnePlace

\* A frame that is sent moves the latest ping on, leaves it alone or, put over a request
\* the card has not sent, ends it.
LEMMA SendKeepsEcho ==
    ASSUME EchoInv, CardInv, SendFrame, pc' = pc
    PROVE  EchoInv'
  <1>1. PICK f : /\ SendPacket(f) /\ Outbox'
                 /\ \/ f.kind = "echo" /\ Due = {f} /\ Due' = {}
                    \/ f.kind # "echo" /\ Due' = Due
    BY SendTakes, ZenonT(30) DEF EchoInv
  <1> DEFINE cur == nic.txcur
  <1>2. /\ Queued' = IF f.kind = "echo" THEN Queued \cup {cur} ELSE Queued \ {cur}
        /\ nic'.tx[cur].frame = f
        /\ \A i \in TxRing \ {cur} : nic'.tx[i] = nic.tx[i]
        /\ nic'.rx = nic.rx
    BY <1>1, SendFills, ZenonT(30)
  <1> HIDE DEF cur
  <1>3. UNCHANGED <<seq, rtt, air, stray>>
    BY ZenonT(30) DEF SendFrame
  <1>4. Coming' = Coming /\ Come' = Come
    BY <1>2, <1>3, SameAir, SameRx, ZenonT(30)
  <1>5. Quiet => Quiet'
    BY <1>1, <1>2, <1>4, ZenonT(30) DEF Quiet
  <1>6. Asking => OnePlace'
    BY <1>1, <1>2, <1>3, <1>4, ZenonT(30) DEF Asking, Asked, OnePlace
  <1>7. Asked => OnePlace'
    <2> SUFFICES ASSUME Asked PROVE OnePlace'
      BY ZenonT(30)
    <2>1. PICK i : Queued = {i} /\ nic.tx[i].frame.no = seq
      BY ZenonT(30) DEF Asked
    <2>2. i \in TxRing
      BY <2>1, ZenonT(30) DEF Queued
    <2>3. Due = {} /\ Coming = {} /\ Come = {} /\ f.kind # "echo"
      BY <1>1, ZenonT(30) DEF Asked
    <2>4. Due' = {} /\ Coming' = {} /\ Come' = {} /\ Queued' = {i} \ {cur}
      BY <1>1, <1>2, <1>4, <2>1, <2>3, ZenonT(30)
    <2>5. CASE i = cur
      BY <2>4, <2>5, ZenonT(30) DEF OnePlace, Quiet
    <2>6. CASE i # cur
      <3>1. Queued' = {i} /\ nic'.tx[i] = nic.tx[i]
        BY <1>2, <2>2, <2>4, <2>6, ZenonT(30)
      <3>2. QED BY <1>3, <2>1, <2>4, <3>1, ZenonT(30) DEF OnePlace, Asked
    <2>7. QED BY <2>5, <2>6, ZenonT(30)
  <1>8. Answered => OnePlace'
    BY <1>1, <1>2, <1>3, <1>4, ZenonT(30) DEF Answered, OnePlace
  <1>9. Arrived => OnePlace'
    BY <1>1, <1>2, <1>3, <1>4, ZenonT(30) DEF Arrived, OnePlace
  <1>10. OnePlace => OnePlace'
    BY <1>5, <1>6, <1>7, <1>8, <1>9, ZenonT(30) DEF OnePlace
  <1>11. QED BY <1>1, <1>3, <1>5, <1>10, ZenonT(30) DEF EchoInv

\* poll clears the descriptor it takes a frame from; what its handler sends is no echo
\* request, and only an echo reply sets the round-trip time.
LEMMA PollTakes ==
    ASSUME CardInv, outbox = <<>>, enabled, HasPacket, Poll
    PROVE  LET f == nic.rx[nic.rxcur]
           IN  /\ Outbox' /\ Due' = {} /\ Coming' = Coming /\ Queued' = Queued
               /\ Come' = Come \ {nic.rxcur}
               /\ \A i \in RxRing \ {nic.rxcur} : nic'.rx[i] = nic.rx[i]
               /\ nic'.tx = nic.tx
               /\ IF f.kind = "echo_reply" THEN nic.rxcur \in Come /\ rtt' = f
                  ELSE nic.rxcur \notin Come /\ rtt' = rtt
               /\ f # None /\ UNCHANGED <<seq, stray, air>>
  <1> DEFINE cur == nic.rxcur
             f == nic.rx[cur]
  <1>1. /\ IsArp(f) => HandleArp(f)
        /\ IsIpv4(f) => HandleIpv4(f)
        /\ ~IsArp(f) /\ ~IsIpv4(f) => UNCHANGED <<arp, told, outbox, rtt>>
        /\ ReceivePacket /\ UNCHANGED <<sent, wire, enabled, seq, air, stray>> /\ f # None
    BY ZenonT(30) DEF Poll, HasPacket
  <1>2. cur \in RxRing /\ nic.rx = [i \in RxRing |-> nic.rx[i]]
    BY ZenonT(30) DEF CardInv, Rings
  <1>3. nic'.rx = [nic.rx EXCEPT ![cur] = None] /\ nic'.tx = nic.tx
    BY <1>1, SMTT(10) DEF ReceivePacket, CardInv, Rings
  <1>4. nic'.rx[cur] = None /\ \A i \in RxRing \ {cur} : nic'.rx[i] = nic.rx[i]
    BY <1>2, <1>3, ZenonT(30)
  <1>5. Come' = Come \ {cur}
    <2> HIDE DEF cur
    <2>1. Come' = {i \in RxRing : nic'.rx[i] # None /\ nic'.rx[i].kind = "echo_reply"}
      BY ZenonT(30) DEF Come, RxRing
    <2>2. \A i \in RxRing \ {cur} : i \in Come' <=> i \in Come
      BY <1>4, <2>1, ZenonT(30) DEF Come
    <2>3. cur \notin Come' /\ Come' \subseteq RxRing /\ Come \subseteq RxRing
      BY <1>4, <2>1, ZenonT(30) DEF Come
    <2>4. QED BY <2>2, <2>3, ZenonT(30)
  <1>6. cur \in Come <=> f.kind = "echo_reply"
    BY <1>1, <1>2, ZenonT(30) DEF Come
  <1> HIDE DEF cur
  <1>7. CASE IsArp(f)
    <2>1. \/ outbox' = <<ArpReply(f.mac, f.ip)>> \/ outbox' = <<>>
      BY <1>1, <1>7, ZenonT(30) DEF HandleArp
    <2>2. rtt' = rtt /\ f.kind # "echo_reply"
      BY <1>1, <1>7, ZenonT(30) DEF HandleArp, IsArp
    <2>3. ArpReply(f.mac, f.ip).kind # "echo"
      BY ZenonT(30) DEF ArpReply, Frame
    <2>4. ASSUME NEW r, outbox' = <<r>>, r.kind # "echo" PROVE Outbox' /\ Due' = {}
      <3>1. outbox'[Len(outbox')] = r
        BY <2>4, SMTT(10)
      <3>2. QED BY <2>4, <3>1, ZenonT(30) DEF Outbox, Due
    <2>5. Outbox' /\ Due' = {}
      BY <2>1, <2>3, <2>4, ZenonT(30) DEF Outbox, Due
    <2>6. QED BY <1>1, <1>3, <1>4, <1>5, <1>6, <2>2, <2>5, SameAir, SameTx, ZenonT(30) DEF cur
  <1>8. CASE IsIpv4(f) /\ f.kind = "echo"
    <2>1. outbox' = Ipv4Frames(f.ip, EchoReply(f.no)) /\ rtt' = rtt
      BY <1>1, <1>8, ZenonT(30) DEF HandleIpv4, HandleIcmp, IsIcmp
    <2>2. EchoReply(f.no).kind # "echo"
      BY ZenonT(30) DEF EchoReply
    <2>3. Outbox' /\ Due' = {}
      BY <2>1, <2>2, Ipv4Due, ZenonT(30)
    <2>4. f.kind # "echo_reply"
      BY <1>8, ZenonT(30)
    <2>5. QED BY <1>1, <1>3, <1>4, <1>5, <1>6, <2>1, <2>3, <2>4, SameAir, SameTx, ZenonT(30) DEF cur
  <1>9. CASE IsIpv4(f) /\ f.kind = "echo_reply"
    <2>1. outbox' = outbox /\ rtt' = f
      BY <1>1, <1>9, ZenonT(30) DEF HandleIpv4, HandleIcmp, IsIcmp
    <2>2. Outbox' /\ Due' = {}
      BY <2>1, ZenonT(30) DEF Outbox, Due
    <2>3. QED BY <1>1, <1>3, <1>4, <1>5, <1>6, <1>9, <2>1, <2>2, SameAir, SameTx, ZenonT(30) DEF cur
  <1>10. CASE (IsIpv4(f) /\ f.kind \notin {"echo", "echo_reply"}) \/ (~IsArp(f) /\ ~IsIpv4(f))
    <2>1. UNCHANGED <<outbox, rtt>>
      BY <1>1, <1>10, ZenonT(30) DEF HandleIpv4, HandleUdp, IsIpv4, IsIcmp
    <2>2. Outbox' /\ Due' = {}
      BY <2>1, ZenonT(30) DEF Outbox, Due
    <2>3. f.kind # "echo_reply"
      BY <1>10, ZenonT(30) DEF IsIpv4, IsIcmp
    <2>4. QED BY <1>1, <1>3, <1>4, <1>5, <1>6, <2>1, <2>2, <2>3, SameAir, SameTx, ZenonT(30) DEF cur
  <1>11. QED BY <1>7, <1>8, <1>9, <1>10, ZenonT(30)

\* A poll outside a ping finds no echo reply, and one inside a ping finds its own, unless
\* replies may be stray.
LEMMA PollKeepsEcho ==
    ASSUME EchoInv, CardInv, outbox = <<>>, Poll,
           pc' = "ping" => pc = "ping" /\ rtt' = None,
           pc' # "ping" => pc # "ping" \/ rtt' # None
    PROVE  EchoInv'
  <1>1. CASE ~(enabled /\ HasPacket)
    <2>1. UNCHANGED <<nic, outbox, air, seq, rtt, stray>>
      BY <1>1, ZenonT(30) DEF Poll, netVars
    <2>2. Due' = Due /\ Outbox' /\ Coming' = Coming /\ Queued' = Queued /\ Come' = Come
      BY <2>1, SameAir, SameOut, SameRx, SameTx, ZenonT(30) DEF EchoInv
    <2>3. (Quiet => Quiet') /\ (OnePlace => OnePlace')
      BY <2>1, <2>2, ZenonT(30) DEF OnePlace, Quiet, Asking, Asked, Answered, Arrived
    <2>4. pc = "ping" => rtt' = None
      BY <2>1, ZenonT(30) DEF EchoInv
    <2>5. pc' # "ping" => pc # "ping"
      BY <2>4, ZenonT(30)
    <2>6. QED BY <2>1, <2>2, <2>3, <2>5, ZenonT(30) DEF EchoInv
  <1>2. CASE enabled /\ HasPacket
    <2> DEFINE cur == nic.rxcur
               f == nic.rx[cur]
    <2>1. /\ Outbox' /\ Due' = {} /\ Coming' = Coming /\ Queued' = Queued
          /\ Come' = Come \ {cur}
          /\ \A i \in RxRing \ {cur} : nic'.rx[i] = nic.rx[i]
          /\ nic'.tx = nic.tx
          /\ IF f.kind = "echo_reply" THEN cur \in Come /\ rtt' = f ELSE cur \notin Come /\ rtt' = rtt
          /\ f # None /\ UNCHANGED <<seq, stray, air>>
      BY <1>2, PollTakes, ZenonT(30)
    <2>2. Due = {}
      BY ZenonT(30) DEF Due
    <2>3. CASE f.kind = "echo_reply"
      <3>1. cur \in Come /\ rtt' = f /\ rtt' # None
        BY <2>1, <2>3, ZenonT(30)
      <3> HIDE DEF f, cur
      <3>2. ASSUME OnePlace PROVE Quiet' /\ f.no = seq
        <4>1. Arrived
          BY <3>1, <3>2, ZenonT(30) DEF OnePlace, Quiet, Asking, Asked, Answered
        <4>2. Come = {cur} /\ nic.rx[cur].no = seq
          BY <3>1, <4>1, ZenonT(30) DEF Arrived
        <4>3. QED BY <2>1, <2>2, <4>1, <4>2, ZenonT(30) DEF Quiet, Arrived, f
      <3>3. QED BY <2>1, <3>1, <3>2, ZenonT(30) DEF EchoInv, OnePlace
    <2>4. CASE f.kind # "echo_reply"
      <3>1. Come' = Come /\ rtt' = rtt /\ cur \notin Come
        BY <2>1, <2>4, ZenonT(30)
      <3> HIDE DEF f, cur
      <3>2. Quiet => Quiet'
        BY <2>1, <2>2, <3>1, ZenonT(30) DEF Quiet
      <3>3. Arrived => Arrived'
        <4> SUFFICES ASSUME Arrived PROVE Arrived'
          BY ZenonT(30)
        <4>1. PICK i : Come = {i} /\ nic.rx[i].no = seq
          BY ZenonT(30) DEF Arrived
        <4>2. i \in RxRing \ {cur}
          BY <3>1, <4>1, ZenonT(30) DEF Come
        <4>3. QED BY <2>1, <3>1, <4>1, <4>2, ZenonT(30) DEF Arrived
      <3>4. (Asked => Asked') /\ (Answered => Answered') /\ ~Asking
        BY <2>1, <2>2, <3>1, ZenonT(30) DEF Asked, Answered, Asking
      <3>5. OnePlace => OnePlace'
        BY <3>2, <3>3, <3>4, ZenonT(30) DEF OnePlace
      <3>6. pc = "ping" => rtt' = None
        BY <3>1, ZenonT(30) DEF EchoInv
      <3>7. pc' # "ping" => pc # "ping"
        BY <3>6, ZenonT(30)
      <3>8. QED BY <2>1, <3>1, <3>2, <3>5, <3>7, ZenonT(30) DEF EchoInv
    <2>5. QED BY <2>3, <2>4, ZenonT(30)
  <1>3. QED BY <1>1, <1>2, ZenonT(30)

\* A frame that reaches the card is no echo reply, makes replies stray, or is the only
\* reply there is and comes for the last time.
LEMMA ArriveKeepsEcho ==
    ASSUME EchoInv, NicInv, Arrive, pc' = pc
    PROVE  EchoInv'
  <1>1. PICK f \in air :
          /\ HwReceive(f)
          /\ \/ f.kind # "echo_reply" /\ UNCHANGED <<air, stray>>
             \/ f.kind = "echo_reply" /\ UNCHANGED air /\ stray' = TRUE
             \/ f.kind = "echo_reply" /\ air' = air \ {f} /\ UNCHANGED stray
    BY ZenonT(30) DEF Arrive
  <1>2. UNCHANGED <<seq, rtt, outbox>>
    BY ZenonT(30) DEF Arrive
  <1>3. f # None /\ nic.rdh \in RxRing /\ nic.rx = [i \in RxRing |-> nic.rx[i]]
    BY ZenonT(30) DEF NicInv, CardInv, Rings
  <1> DEFINE cur == nic.rdh
  <1>4. nic'.rx = [nic.rx EXCEPT ![cur] = f] /\ nic'.tx = nic.tx
    BY <1>1, SMTT(10) DEF HwReceive, NicInv, CardInv, Rings
  <1>5. nic'.rx[cur] = f /\ \A i \in RxRing \ {cur} : nic'.rx[i] = nic.rx[i]
    BY <1>3, <1>4, ZenonT(30)
  <1>6. cur \in RxRing
    BY <1>3, ZenonT(30)
  <1> HIDE DEF cur
  <1>7. Come' = {i \in RxRing : nic'.rx[i] # None /\ nic'.rx[i].kind = "echo_reply"}
    BY ZenonT(30) DEF Come, RxRing
  <1>8. \A i \in RxRing \ {cur} : i \in Come' <=> i \in Come
    BY <1>5, <1>7, ZenonT(30) DEF Come
  <1>9. Come' \subseteq RxRing /\ Come \subseteq RxRing /\ (cur \in Come' <=> f.kind = "echo_reply")
    BY <1>3, <1>5, <1>6, <1>7, ZenonT(30) DEF Come
  <1>10. Due' = Due /\ Outbox' /\ Queued' = Queued
    BY <1>2, <1>4, SameOut, SameTx, ZenonT(30) DEF EchoInv
  <1>11. CASE f.kind # "echo_reply"
    <2>1. UNCHANGED <<air, stray>> /\ Coming' = Coming
      BY <1>1, <1>11, SameAir, ZenonT(30)
    <2>2. Come' = Come \ {cur}
      BY <1>8, <1>9, <1>11, ZenonT(30)
    <2>3. Quiet => Quiet'
      BY <1>10, <2>1, <2>2, ZenonT(30) DEF Quiet
    <2>4. Arrived => OnePlace'
      <3> SUFFICES ASSUME Arrived PROVE OnePlace'
        BY ZenonT(30)
      <3>1. PICK i : Come = {i} /\ nic.rx[i].no = seq
        BY ZenonT(30) DEF Arrived
      <3>2. Due' = {} /\ Queued' = {} /\ Coming' = {} /\ Come' = {i} \ {cur}
        BY <1>10, <2>1, <2>2, <3>1, ZenonT(30) DEF Arrived
      <3>3. CASE i = cur
        BY <3>2, <3>3, ZenonT(30) DEF OnePlace, Quiet
      <3>4. CASE i # cur
        <4>1. Come' = {i} /\ nic'.rx[i] = nic.rx[i]
          BY <1>5, <1>9, <3>1, <3>2, <3>4, ZenonT(30)
        <4>2. QED BY <1>2, <3>1, <3>2, <4>1, ZenonT(30) DEF OnePlace, Arrived
      <3>5. QED BY <3>3, <3>4, ZenonT(30)
    <2>5. (Asking => Asking') /\ (Asked => Asked') /\ (Answered => Answered')
      BY <1>2, <1>4, <1>10, <2>1, <2>2, ZenonT(30) DEF Asking, Asked, Answered
    <2>6. OnePlace => OnePlace'
      BY <2>3, <2>4, <2>5, ZenonT(30) DEF OnePlace
    <2>7. QED BY <1>2, <1>10, <2>1, <2>3, <2>6, ZenonT(30) DEF EchoInv
  <1>12. CASE f.kind = "echo_reply"
    <2>1. CASE stray'
      BY <1>2, <1>10, <2>1, ZenonT(30) DEF EchoInv
    <2>2. CASE ~stray'
      <3>1. air' = air \ {f} /\ ~stray
        <4>1. stray' # TRUE
          BY <2>2, ZenonT(30)
        <4>2. air' = air \ {f} /\ stray' = stray
          BY <1>1, <1>12, <4>1, ZenonT(30)
        <4>3. QED BY <2>2, <4>2, ZenonT(30)
      <3>2. f \in Coming
        BY <1>12, ZenonT(30) DEF Coming
      <3>3. Answered /\ pc = "ping"
        BY <3>1, <3>2, ZenonT(30) DEF EchoInv, OnePlace, Quiet, Asking, Asked, Arrived
      <3>4. Coming = {f} /\ f.no = seq /\ Come = {} /\ Due = {} /\ Queued = {}
        BY <3>2, <3>3, ZenonT(30) DEF Answered
      <3>5. Coming' = {}
        BY <3>1, <3>4, ZenonT(30) DEF Coming
      <3>6. Come' = {cur} /\ nic'.rx[cur].no = seq
        BY <1>5, <1>6, <1>8, <1>9, <1>12, <3>4, ZenonT(30)
      <3>7. Arrived'
        BY <1>2, <1>10, <3>4, <3>5, <3>6, ZenonT(30) DEF Arrived
      <3>8. QED BY <1>2, <1>10, <3>1, <3>3, <3>7, ZenonT(30) DEF EchoInv, OnePlace
    <2>3. QED BY <2>1, <2>2, ZenonT(30)
  <1>13. QED BY <1>11, <1>12, ZenonT(30)

\* The card sends the request of the latest ping and the network makes it a reply, or it
\* sends something else.
LEMMA LeaveKeepsEcho ==
    ASSUME Answering, EchoInv, NicInv, Leave, pc' = pc
    PROVE  EchoInv'
  <1> DEFINE cur == nic.tdh
             f == nic.tx[cur].frame
             replies == {g \in Answers(f) : g.kind = "echo_reply"}
  <1>1. HwTransmit /\ air' = air \cup Answers(f)
    BY ZenonT(30) DEF Leave, Outgoing
  <1>2. UNCHANGED <<seq, rtt, outbox, stray>>
    BY ZenonT(30) DEF Leave
  <1>3. cur \in TxRing /\ nic.tdh # nic.tdt /\ nic.tx = [i \in TxRing |-> nic.tx[i]]
    BY <1>1, ZenonT(30) DEF NicInv, CardInv, Rings, HwTransmit
  <1>4. nic.tx[cur].no > 0
    <2>1. wire' > wire /\ wire \in Nat /\ wire' \in Nat
      BY <1>1, TransmitKeepsCard, ZenonT(30) DEF NicInv, CardInv, Rings
    <2>2. nic.tx[cur].no = wire'
      BY <1>1, ZenonT(30) DEF HwTransmit, Outgoing
    <2>3. wire' > 0
      BY <2>1, SMTT(20)
    <2>4. QED BY <2>2, <2>3, ZenonT(30)
  <1>5. nic'.tx = [nic.tx EXCEPT ![cur] = Idle] /\ nic'.rx = nic.rx
    BY <1>1, SMTT(10) DEF HwTransmit, NicInv, CardInv, Rings
  <1>6. nic'.tx[cur] = Idle /\ \A i \in TxRing \ {cur} : nic'.tx[i] = nic.tx[i]
    BY <1>3, <1>5, ZenonT(30)
  <1>7. cur \in Queued <=> f.kind = "echo"
    BY <1>3, <1>4, ZenonT(30) DEF Queued
  <1>8. Coming' = Coming \cup replies
    BY <1>1, ZenonT(30) DEF Coming
  <1>9. \A g \in replies : f.kind = "echo" /\ g.no = f.no /\ replies = {g}
    <2> SUFFICES ASSUME NEW g \in replies
                 PROVE  f.kind = "echo" /\ g.no = f.no /\ replies = {g}
      BY ZenonT(30)
    <2>1. g \in Answers(f) /\ g.kind = "echo_reply"
      BY ZenonT(30)
    <2>2. f.kind = "echo" /\ g.no = f.no /\ \A h \in Answers(f) : h.kind = "echo_reply" => h = g
      BY <2>1, ZenonT(30) DEF Answering
    <2>3. \A h \in replies : h = g
      BY <2>2, ZenonT(30)
    <2> HIDE DEF replies, f
    <2>4. QED BY <2>2, <2>3, ZenonT(30)
  <1> HIDE DEF cur, replies
  <1>10. ~(Idle.no > 0)
    BY SMTT(10) DEF Idle
  <1>11. Queued' = {i \in TxRing : nic'.tx[i].no > 0 /\ nic'.tx[i].frame.kind = "echo"}
    BY ZenonT(30) DEF Queued, TxRing
  <1>12. \A i \in TxRing \ {cur} : i \in Queued' <=> i \in Queued
    BY <1>6, <1>11, ZenonT(30) DEF Queued
  <1>13. cur \notin Queued' /\ Queued' \subseteq TxRing /\ Queued \subseteq TxRing
    BY <1>6, <1>10, <1>11, ZenonT(30) DEF Queued
  <1>14. Queued' = Queued \ {cur}
    BY <1>12, <1>13, ZenonT(30)
  <1>15. Due' = Due /\ Outbox' /\ Come' = Come
    BY <1>2, <1>5, SameOut, SameRx, ZenonT(30) DEF EchoInv
  <1>16. CASE cur \notin Queued
    <2>1. Coming' = Coming /\ Queued' = Queued
      BY <1>7, <1>8, <1>9, <1>14, <1>16, ZenonT(30)
    <2>2. Asked => Asked'
      <3> SUFFICES ASSUME Asked PROVE Asked'
        BY ZenonT(30)
      <3>1. PICK i : Queued = {i} /\ nic.tx[i].frame.no = seq
        BY ZenonT(30) DEF Asked
      <3>2. nic'.tx[i] = nic.tx[i]
        BY <1>6, <1>13, <1>16, <3>1, ZenonT(30)
      <3>3. QED BY <1>2, <1>15, <2>1, <3>1, <3>2, ZenonT(30) DEF Asked
    <2>3. (Quiet => Quiet') /\ (Asking => Asking') /\ (Answered => Answered') /\ (Arrived => Arrived')
      BY <1>2, <1>5, <1>15, <2>1, ZenonT(30) DEF Quiet, Asking, Answered, Arrived
    <2>4. QED BY <1>2, <1>15, <2>2, <2>3, ZenonT(30) DEF EchoInv, OnePlace
  <1>17. CASE cur \in Queued
    <2>1. ASSUME OnePlace PROVE pc = "ping" \/ ~Quiet
      BY <1>17, ZenonT(30) DEF Quiet
    <2>2. ASSUME OnePlace PROVE OnePlace'
      <3>1. Asked
        BY <1>17, <2>2, ZenonT(30) DEF OnePlace, Quiet, Asking, Answered, Arrived
      <3>2. Queued = {cur} /\ f.no = seq /\ Due = {} /\ Coming = {} /\ Come = {}
        BY <1>17, <3>1, ZenonT(30) DEF Asked
      <3>3. Queued' = {} /\ Coming' = replies /\ Due' = {} /\ Come' = {}
        BY <1>8, <1>14, <1>15, <3>2, ZenonT(30)
      <3>4. CASE replies = {}
        BY <3>3, <3>4, ZenonT(30) DEF OnePlace, Quiet
      <3>5. CASE replies # {}
        <4>1. PICK g : g \in replies
          BY <3>5, ZenonT(30)
        <4>2. replies = {g} /\ g.no = seq
          BY <1>9, <3>2, <4>1, ZenonT(30)
        <4>3. QED BY <1>2, <3>3, <4>2, ZenonT(30) DEF OnePlace, Answered
      <3>6. QED BY <3>4, <3>5, ZenonT(30)
    <2>3. QED BY <1>2, <1>15, <2>1, <2>2, ZenonT(30) DEF EchoInv
  <1>18. QED BY <1>16, <1>17, ZenonT(30)

\* A submitted line starts a ping, whose request is then the only one and whose round-trip
\* time is forgotten, or leaves the latest ping alone.
LEMMA SubmitKeepsEcho ==
    ASSUME EchoInv, outbox = <<>>, pc # "ping", NEW k, Submit(k)
    PROVE  EchoInv'
  <1>1. Due = {}
    BY ZenonT(30) DEF Due
  <1>2. ASSUME NEW d, SendPing(d), pc' = "ping" PROVE EchoInv'
    <2>1. /\ UNCHANGED <<nic, air, stray>> /\ rtt' = None
          /\ outbox' = Ipv4Frames(d, EchoRequest(seq'))
      BY <1>2, ZenonT(30) DEF SendPing
    <2>2. EchoRequest(seq').kind = "echo" /\ EchoRequest(seq').no = seq'
      BY ZenonT(30) DEF EchoRequest
    <2>3. Outbox' /\ \E f : Due' = {f} /\ f.no = seq'
      BY <2>1, <2>2, Ipv4Due, ZenonT(30)
    <2>4. Coming' = Coming /\ Come' = Come /\ Queued' = Queued
      BY <2>1, SameAir, SameRx, SameTx, ZenonT(30)
    <2>5. ~stray => Asking'
      BY <2>3, <2>4, ZenonT(30) DEF EchoInv, Quiet, Asking
    <2>6. QED BY <1>2, <2>1, <2>3, <2>5, ZenonT(30) DEF EchoInv, OnePlace
  <1>3. ASSUME NEW d, SendUdp(d), pc' = pc PROVE EchoInv'
    <2>1. UNCHANGED <<nic, air, stray, seq, rtt>> /\ outbox' = Ipv4Frames(d, Datagram)
      BY <1>3, ZenonT(30) DEF SendUdp
    <2>2. Datagram.kind # "echo"
      BY ZenonT(30) DEF Datagram
    <2>3. Outbox' /\ Due' = {}
      BY <2>1, <2>2, Ipv4Due, ZenonT(30)
    <2>4. Coming' = Coming /\ Come' = Come /\ Queued' = Queued
      BY <2>1, SameAir, SameRx, SameTx, ZenonT(30)
    <2>5. ~stray => Quiet'
      BY <2>3, <2>4, ZenonT(30) DEF EchoInv, Quiet
    <2>6. QED BY <1>3, <2>1, <2>3, <2>5, ZenonT(30) DEF EchoInv, OnePlace
  <1>4. ASSUME UNCHANGED <<nic, netVars, pc>> PROVE EchoInv'
    BY <1>4, RestKeepsEcho, ZenonT(30)
  <1>5. QED BY <1>2, <1>3, <1>4, ZenonT(30) DEF Submit, Execute

\* The boot task's own steps.
LEMMA TaskKeepsEcho ==
    ASSUME EchoInv, CardInv, Task
    PROVE  EchoInv'
  <1>1. CASE SendFrame /\ UNCHANGED pc
    BY <1>1, SendKeepsEcho, ZenonT(30)
  <1>2. ASSUME outbox = <<>>, Wake PROVE EchoInv'
    <2>1. UNCHANGED <<nic, netVars>> /\ pc # "ping" /\ pc' # "ping"
      BY <1>2, ZenonT(30) DEF Wake
    <2>2. QED BY <2>1, RestKeepsEcho, ZenonT(30)
  <1>3. ASSUME outbox = <<>>, SerialByte PROVE EchoInv'
    BY <1>3, SubmitKeepsEcho, ZenonT(30) DEF SerialByte
  <1>4. ASSUME outbox = <<>>, SerialDone PROVE EchoInv'
    <2>1. UNCHANGED <<nic, netVars>> /\ pc # "ping" /\ pc' # "ping"
      BY <1>4, ZenonT(30) DEF SerialDone
    <2>2. QED BY <2>1, RestKeepsEcho, ZenonT(30)
  <1>5. ASSUME outbox = <<>>, KeyStep PROVE EchoInv'
    BY <1>5, SubmitKeepsEcho, ZenonT(30) DEF KeyStep
  <1>6. ASSUME outbox = <<>>, KeysDone PROVE EchoInv'
    <2>1. Poll /\ pc # "ping" /\ pc' # "ping"
      BY <1>6, ZenonT(30) DEF KeysDone
    <2>2. QED BY <1>6, <2>1, PollKeepsEcho, ZenonT(30)
  <1>7. ASSUME outbox = <<>>, PingTurn PROVE EchoInv'
    <2>1. Poll /\ pc = "ping" /\ (rtt' # None \/ pc' = "ping") /\ (pc' = "ping" => rtt' = None)
      BY <1>7, ZenonT(30) DEF PingTurn, Resume
    <2>2. QED BY <1>7, <2>1, PollKeepsEcho, ZenonT(30)
  <1>8. ASSUME outbox = <<>>, PingTimeout PROVE EchoInv'
    <2>1. stray' = TRUE /\ pc' # "ping" /\ UNCHANGED outbox
      BY <1>8, ZenonT(30) DEF PingTimeout, Resume
    <2>2. QED BY <2>1, SameOut, ZenonT(30) DEF EchoInv
  <1>9. QED BY <1>1, <1>2, <1>3, <1>4, <1>5, <1>6, <1>7, <1>8, ZenonT(30) DEF Task

\* The round-trip time the shell reads belongs to the ping it waits for, whatever the
\* sizes of the rings, the bound on the sequence numbers and the commands, until a
\* ping gives up or the network repeats a reply.
THEOREM RepliesMatch == ASSUME Answering PROVE Spec => []ReplyMatches
  <1>1. Init => EchoInv
    <2> SUFFICES ASSUME Init PROVE EchoInv
      BY ZenonT(30)
    <2>1. /\ outbox = <<>> /\ rtt = None /\ stray = FALSE /\ air = Ambient /\ pc = "halt"
          /\ nic.tx = [i \in TxRing |-> Idle] /\ nic.rx = [i \in RxRing |-> None]
      BY ZenonT(30) DEF Init, InitNet, InitNic, InitRings
    <2>2. ~(Idle.no > 0)
      BY SMTT(10) DEF Idle
    <2>3. Quiet
      BY <2>1, <2>2, NetAssumption, ZenonT(30) DEF Quiet, Due, Queued, Coming, Come
    <2>4. QED BY <2>1, <2>3, ZenonT(30) DEF EchoInv, OnePlace, Outbox
  <1>2. EchoInv /\ NicInv /\ [Next]_vars => EchoInv'
    <2> SUFFICES ASSUME EchoInv, NicInv, [Next]_vars PROVE EchoInv'
      BY ZenonT(30)
    <2>1. CASE Task
      BY <2>1, TaskKeepsEcho, ZenonT(30) DEF NicInv
    <2>2. UNCHANGED <<nic, netVars>> /\ pc' = pc => EchoInv'
      BY RestKeepsEcho, ZenonT(30)
    <2>3. CASE Device
      <3>1. CASE (KeyInterrupt \/ SerialInput) /\ UNCHANGED <<nic, sent, wire, netVars, pc, guard, expired>>
        BY <2>2, <3>1, ZenonT(30)
      <3>2. CASE Ticks
        BY <2>2, <3>2, ZenonT(30) DEF Ticks
      <3>3. CASE (Arrive \/ Leave) /\ UNCHANGED <<consoleVars, pc, guard, expired>>
        BY <3>3, ArriveKeepsEcho, LeaveKeepsEcho, ZenonT(30)
      <3>4. QED BY <2>3, <3>1, <3>2, <3>3, ZenonT(30) DEF Device
    <2>4. UNCHANGED vars => UNCHANGED <<nic, netVars>> /\ pc' = pc
      BY ZenonT(30) DEF vars
    <2>5. QED BY <2>1, <2>2, <2>3, <2>4, ZenonT(30) DEF Next
  <1>3. EchoInv => ReplyMatches
    BY ZenonT(30) DEF EchoInv, ReplyMatches
  <1>4. \A f : None \notin Answers(f)
    BY ZenonT(30) DEF Answering
  <1>5. Spec => []NicInv
    BY <1>4, CardAlways, ZenonT(30)
  <1>6. QED BY <1>1, <1>2, <1>3, <1>5, PTL DEF Spec

-----------------------------------------------------------------------------
\* The ARP table has one entry for an address, the one it was told last.
ArpInv == /\ \E S : arp \in Seq(S)
          /\ \A i, j \in DOMAIN arp : arp[i].ip = arp[j].ip => i = j
          /\ \A ip \in DOMAIN told : \E i \in DOMAIN arp : arp[i].ip = ip /\ arp[i].mac = told[ip]

\* ArpTable::lookup finds the only entry.
LEMMA LookupFresh == ArpInv => ArpFresh
  <1> SUFFICES ASSUME ArpInv, NEW ip \in DOMAIN told PROVE Lookup(ip) = told[ip]
    BY ZenonT(30) DEF ArpFresh
  <1>1. PICK S : arp \in Seq(S)
    BY ZenonT(30) DEF ArpInv
  <1>2. PICK i \in DOMAIN arp : arp[i].ip = ip /\ arp[i].mac = told[ip]
    BY ZenonT(30) DEF ArpInv
  <1>3. {j \in DOMAIN arp : arp[j].ip = ip} = {i}
    BY <1>2, SMTT(30) DEF ArpInv
  <1>4. i <= i
    BY <1>1, SMTT(30)
  <1>5. Min({i}) = i
    BY <1>4, Zenon DEF Min
  <1>6. QED BY <1>2, <1>3, <1>5, ZenonT(30) DEF Lookup

\* ArpTable::insert keeps one entry for each address.
LEMMA InsertKeepsArp ==
    ASSUME ArpInv, NEW ip, NEW mac, Insert(ip, mac),
           told' = [x \in DOMAIN told \cup {ip} |-> IF x = ip THEN mac ELSE told[x]]
    PROVE  ArpInv'
  <1> DEFINE e == [ip |-> ip, mac |-> mac]
  <1>1. PICK S : arp \in Seq(S)
    BY Zenon DEF ArpInv
  <1>2. e.ip = ip /\ e.mac = mac
    BY Zenon
  <1>3. DOMAIN arp = 1 .. Len(arp) /\ Len(arp) \in Nat
    BY <1>1, SMTT(30)
  <1>4. CASE \E i \in DOMAIN arp : arp[i].ip = ip
    <2>1. arp' = [i \in DOMAIN arp |-> IF arp[i].ip = ip THEN e ELSE arp[i]]
      BY <1>4, Zenon DEF Insert
    <2> HIDE DEF e
    <2>2. arp' \in [1 .. Len(arp) -> S \cup {e}]
      BY <1>1, <1>3, <2>1, SMTT(30)
    <2>3. arp' \in Seq(S \cup {e})
      BY <1>3, <2>2, SeqDef, ZenonT(30)
    <2>4. DOMAIN arp' = DOMAIN arp /\ \A i \in DOMAIN arp : arp'[i].ip = arp[i].ip
      BY <1>2, <2>1, ZenonT(30)
    <2>5. \A i \in DOMAIN arp : arp'[i].mac = IF arp[i].ip = ip THEN mac ELSE arp[i].mac
      BY <1>2, <2>1, ZenonT(30)
    <2>6. \A x \in DOMAIN told' : \E i \in DOMAIN arp' : arp'[i].ip = x /\ arp'[i].mac = told'[x]
      <3>1. ASSUME NEW x \in DOMAIN told, x # ip
            PROVE  \E i \in DOMAIN arp' : arp'[i].ip = x /\ arp'[i].mac = told'[x]
        <4>1. PICK i \in DOMAIN arp : arp[i].ip = x /\ arp[i].mac = told[x]
          BY <3>1, ZenonT(30) DEF ArpInv
        <4>2. told'[x] = told[x]
          BY <3>1, ZenonT(30)
        <4>3. QED BY <2>4, <2>5, <3>1, <4>1, <4>2, ZenonT(30)
      <3>2. \E i \in DOMAIN arp' : arp'[i].ip = ip /\ arp'[i].mac = told'[ip]
        <4>1. PICK i \in DOMAIN arp : arp[i].ip = ip
          BY <1>4, ZenonT(30)
        <4>2. told'[ip] = mac
          BY ZenonT(30)
        <4>3. QED BY <2>4, <2>5, <4>1, <4>2, ZenonT(30)
      <3>3. QED BY <3>1, <3>2, ZenonT(30)
    <2>7. \A i, j \in DOMAIN arp' : arp'[i].ip = arp'[j].ip => i = j
      BY <2>4 DEF ArpInv
    <2>8. QED BY <2>3, <2>6, <2>7, ZenonT(30) DEF ArpInv
  <1>5. CASE ~ \E i \in DOMAIN arp : arp[i].ip = ip
    <2>1. arp' = Append(arp, e)
      BY <1>5, ZenonT(30) DEF Insert
    <2> HIDE DEF e
    <2>2. arp \in Seq(S \cup {e})
      BY <1>1, <1>3, SeqDef, SMTT(30)
    <2>3. arp' \in Seq(S \cup {e}) /\ DOMAIN arp' = 1 .. Len(arp) + 1
      BY <2>1, <2>2, SMTT(30)
    <2>4. arp'[Len(arp) + 1] = e /\ \A i \in DOMAIN arp : i \in DOMAIN arp' /\ arp'[i] = arp[i]
      BY <1>3, <2>1, <2>2, <2>3, SMTT(30)
    <2>5. \A i \in DOMAIN arp' : i \in DOMAIN arp \/ i = Len(arp) + 1
      BY <1>3, <2>3, SMTT(30)
    <2>6. Len(arp) + 1 \in DOMAIN arp'
      BY <1>3, <2>3, SMTT(30)
    <2>7. \A x \in DOMAIN told' : \E i \in DOMAIN arp' : arp'[i].ip = x /\ arp'[i].mac = told'[x]
      <3>1. ASSUME NEW x \in DOMAIN told, x # ip
            PROVE  \E i \in DOMAIN arp' : arp'[i].ip = x /\ arp'[i].mac = told'[x]
        <4>1. PICK i \in DOMAIN arp : arp[i].ip = x /\ arp[i].mac = told[x]
          BY <3>1 DEF ArpInv
        <4>2. told'[x] = told[x]
          BY <3>1
        <4>3. QED BY <2>4, <4>1, <4>2, ZenonT(30)
      <3>2. told'[ip] = mac
        OBVIOUS
      <3>3. QED BY <1>2, <2>4, <2>6, <3>1, <3>2, Zenon
    <2>8. \A i, j \in DOMAIN arp' : arp'[i].ip = arp'[j].ip => i = j
      <3>1. \A i \in DOMAIN arp : arp'[i].ip # ip
        BY <1>5, <2>4, ZenonT(30)
      <3>2. \A i, j \in DOMAIN arp : arp'[i].ip = arp'[j].ip => i = j
        BY <2>4, ZenonT(30) DEF ArpInv
      <3>3. arp'[Len(arp) + 1].ip = ip
        BY <1>2, <2>4, ZenonT(30)
      <3>4. QED BY <2>5, <3>1, <3>2, <3>3, ZenonT(30)
    <2>9. QED BY <2>3, <2>7, <2>8, ZenonT(30) DEF ArpInv
  <1>6. QED BY <1>4, <1>5, Zenon

\* What a step of the system is to the ARP table.
ArpStep == \/ UNCHANGED <<arp, told>>
           \/ \E f : HandleArp(f)

\* Every step of the system leaves the table alone or handles an ARP packet.
LEMMA NextLearns == [Next]_vars => ArpStep
  <1>1. ASSUME Poll PROVE ArpStep
    BY <1>1, ZenonT(30) DEF Poll, HandleIpv4, HandleIcmp, HandleUdp, IsIpv4, netVars, ArpStep
  <1>2. ASSUME NEW k, Submit(k) PROVE ArpStep
    BY <1>2, ZenonT(30) DEF Submit, Execute, SendPing, SendUdp, netVars, ArpStep
  <1>3. ASSUME SerialByte \/ KeyStep \/ KeysDone \/ PingTurn PROVE ArpStep
    BY <1>1, <1>2, <1>3, ZenonT(30) DEF SerialByte, KeyStep, KeysDone, PingTurn
  <1>4. ASSUME SendFrame \/ Wake \/ SerialDone \/ PingTimeout PROVE ArpStep
    BY <1>4, ZenonT(30) DEF SendFrame, Wake, SerialDone, PingTimeout, netVars, ArpStep
  <1>5. ASSUME Device PROVE ArpStep
    BY <1>5, ZenonT(30) DEF Device, Ticks, Arrive, Leave, netVars, ArpStep
  <1>6. ASSUME UNCHANGED vars PROVE ArpStep
    BY <1>6, ZenonT(30) DEF vars, netVars, ArpStep
  <1>7. QED BY <1>3, <1>4, <1>5, <1>6, ZenonT(30) DEF Next, Task

\* A packet for a host that announced itself goes to the MAC it gave last,
\* whatever table the stack starts from and whatever the network sends.
THEOREM ArpKeptFresh == Spec => []ArpFresh
  <1>1. Init => ArpInv
    <2> SUFFICES ASSUME Init PROVE ArpInv
      OBVIOUS
    <2>1. arp = Seed \/ arp = <<>>
      BY Zenon DEF Init, InitNet
    <2>2. \E S : arp \in Seq(S)
      <3>1. CASE arp = Seed
        BY <3>1, NetAssumption, ZenonT(30)
      <3>2. CASE arp = <<>>
        <4>1. arp \in Seq(Range(Seed))
          BY <3>2, SMTT(30)
        <4>2. QED BY <4>1, ZenonT(30)
      <3>3. QED BY <2>1, <3>1, <3>2, SMTT(30)
    <2>3. \A i, j \in DOMAIN arp : arp[i].ip = arp[j].ip => i = j
      BY <2>1, NetAssumption, SMTT(30)
    <2>4. ASSUME NEW ip \in DOMAIN told
          PROVE  \E i \in DOMAIN arp : arp[i].ip = ip /\ arp[i].mac = told[ip]
      <3> DEFINE P(e) == e.ip = ip
                 c == CHOOSE e \in Range(arp) : P(e)
      <3>1. (\E e \in Range(arp) : P(e)) /\ told[ip] = c.mac
        BY <2>4, ZenonT(30) DEF Init, InitNet
      <3>2. c \in Range(arp) /\ P(c)
        BY <3>1, ZenonT(30)
      <3>3. PICK i \in DOMAIN arp : arp[i] = c
        BY <3>2, ZenonT(30) DEF Range
      <3>4. QED BY <3>1, <3>2, <3>3, ZenonT(30)
    <2>5. QED BY <2>2, <2>3, <2>4, ZenonT(30) DEF ArpInv
  <1>2. ArpInv /\ [Next]_vars => ArpInv'
    <2> SUFFICES ASSUME ArpInv, [Next]_vars PROVE ArpInv'
      OBVIOUS
    <2>1. CASE UNCHANGED <<arp, told>>
      BY <2>1, ZenonT(30) DEF ArpInv
    <2>2. ASSUME NEW f, HandleArp(f) PROVE ArpInv'
      BY <2>2, InsertKeepsArp, ZenonT(30) DEF HandleArp
    <2>3. QED BY <2>1, <2>2, NextLearns, ZenonT(30) DEF ArpStep
  <1>3. QED BY <1>1, <1>2, LookupFresh, PTL DEF Spec
=============================================================================
