------------------------------- MODULE E1000 -------------------------------
(***************************************************************************)
(* The Intel e1000 driver (src/drivers/e1000.rs) and the network card it   *)
(* shares its two descriptor rings with.  The driver and the card run at   *)
(* the same time and agree through four registers: the card owns the       *)
(* descriptors from RDH up to RDT (receive) and from TDH up to TDT         *)
(* (transmit).  A receive descriptor holds None while its DD status bit is *)
(* clear, a transmit descriptor Idle while its DD bit is set.  Frames are  *)
(* sent with their send number, so that what leaves the card can be        *)
(* compared with what was handed to the driver.                            *)
(***************************************************************************)
EXTENDS Integers

CONSTANTS RxCount,     \* RX_DESC_COUNT
          TxCount,     \* TX_DESC_COUNT
          None         \* no frame

ASSUME E1000Assumption == /\ RxCount \in Nat \ {0, 1}
                          /\ TxCount \in Nat \ {0, 1}

VARIABLES nic,         \* registers, rings and the driver's two cursors
          sent,        \* number of frames handed to send_packet
          wire         \* send number of the last frame the card transmitted

RxRing == 0 .. RxCount - 1
TxRing == 0 .. TxCount - 1

\* A transmit descriptor whose DD status bit is set: it holds no frame to send.
Idle == [no |-> 0, frame |-> None]

\* The rings as E1000::init leaves them: every receive descriptor empty and
\* all but the last given to the card, the transmit ring empty.
InitRings == [rx |-> [i \in RxRing |-> None], rdh |-> 0, rdt |-> RxCount - 1, rxcur |-> 0,
              tx |-> [i \in TxRing |-> Idle], tdh |-> 0, tdt |-> 0, txcur |-> 0]

InitNic == nic = InitRings /\ sent = 0 /\ wire = 0

\* Variant: the frame is put behind the descriptor that is announced.
SendPacketBehind(frame) ==
    LET next == (nic.txcur + 1) % TxCount
    IN  /\ nic' = [nic EXCEPT !.tx[next] = [no |-> sent + 1, frame |-> frame],
                              !.txcur = next, !.tdt = next]
        /\ sent' = sent + 1
        /\ UNCHANGED wire

\* send_packet: fill the current descriptor, advance, tell the card.  The DD
\* bit of the descriptor is not looked at.
SendPacket(frame) ==
    LET next == (nic.txcur + 1) % TxCount
    IN  /\ nic' = [nic EXCEPT !.tx[nic.txcur] = [no |-> sent + 1, frame |-> frame],
                              !.txcur = next, !.tdt = next]
        /\ sent' = sent + 1
        /\ UNCHANGED wire

\* receive_packet finds a frame: the current descriptor's DD bit is set.
HasPacket == nic.rx[nic.rxcur] # None

\* Variant: the descriptor after the current one is given back.
ReceivePacketNext ==
    nic' = [nic EXCEPT !.rx[nic.rxcur] = None,
                       !.rdt = (nic.rxcur + 1) % RxCount,
                       !.rxcur = (nic.rxcur + 1) % RxCount]

\* receive_packet: clear the status, give the descriptor back, advance.
ReceivePacket ==
    nic' = [nic EXCEPT !.rx[nic.rxcur] = None,
                       !.rdt = nic.rxcur,
                       !.rxcur = (nic.rxcur + 1) % RxCount]

\* The card stores a frame in the descriptor at RDH; a frame that comes while
\* RDH = RDT is dropped by the card.
HwReceive(frame) ==
    /\ nic.rdh # nic.rdt
    /\ nic' = [nic EXCEPT !.rx[nic.rdh] = frame, !.rdh = (nic.rdh + 1) % RxCount]
    /\ UNCHANGED <<sent, wire>>

\* The frame the card transmits next.
Outgoing == nic.tx[nic.tdh]

\* The card transmits the descriptor at TDH.
HwTransmit ==
    /\ nic.tdh # nic.tdt
    /\ nic' = [nic EXCEPT !.tx[nic.tdh] = Idle, !.tdh = (nic.tdh + 1) % TxCount]
    /\ wire' = Outgoing.no
    /\ UNCHANGED sent

-----------------------------------------------------------------------------

\* The receive descriptors that hold a frame the driver has not taken: those
\* from the driver's cursor up to the card's.
Filled == {i \in RxRing : (i - nic.rxcur) % RxCount < (nic.rdh - nic.rxcur) % RxCount}

\* The driver and the card agree on who owns each receive descriptor: the
\* frames waiting are exactly the ones between the driver's cursor and RDH,
\* so the DD test of receive_packet neither misses a frame nor reads one
\* twice, and the card is never given a descriptor that still holds a frame.
RxWindow == /\ \A i \in RxRing : (nic.rx[i] # None) <=> i \in Filled
            /\ nic.rdt = (nic.rxcur - 1) % RxCount

\* The card transmits frames in the order they were handed to send_packet and
\* none of them twice, also when more frames are queued than the transmit ring
\* holds and some are lost.
TxInOrder == [][nic'.tdh # nic.tdh => wire' > wire]_<<nic, sent, wire>>
=============================================================================
