-------------------------------- MODULE Net --------------------------------
(***************************************************************************)
(* The network stack (src/net) on top of the e1000 driver: ARP, IPv4, ICMP *)
(* echo and UDP.  A frame is a record whose fields are the header fields   *)
(* the stack decides on; everything a parser rejects is a frame of kind    *)
(* "junk".  The frames a handler sends wait in outbox and go to the driver *)
(* one at a time, so that the card may work between two of them.  The      *)
(* network beyond the card (external) is the set air of frames that other  *)
(* hosts have sent: each may arrive late, several times or never.  stray   *)
(* records that a reply to an earlier ping may still be on its way.        *)
(***************************************************************************)
EXTENDS E1000, Sequences, FiniteSetsExt, Functions

CONSTANTS OurIp, OurMac, Gateway, Broadcast, BroadcastMac,
          Seed,        \* the table NetworkManager::init starts from
          Local,       \* addresses whose first three octets are ours
          Ambient,     \* frames other hosts send on their own account
          MaxSeq       \* last_ping_seq counts modulo MaxSeq + 1 (u16)

ASSUME NetAssumption == /\ Seed \in Seq(Range(Seed))
                        /\ \A i, j \in DOMAIN Seed : Seed[i].ip = Seed[j].ip => i = j
                        /\ None \notin Ambient
                        /\ \A f \in Ambient : f.kind # "echo_reply"

VARIABLES enabled,     \* is_enabled: the card was found
          arp,         \* ArpTable::entries
          seq,         \* last_ping_seq
          rtt,         \* last_ping_rtt_ms: None, or the reply it was taken from
          outbox,      \* frames the running handler still has to send
          air,         \* frames on their way to us
          told,        \* address -> MAC of the last ARP packet handled for it
          stray        \* a ping gave up, or the network repeated an echo reply

netVars == <<enabled, arp, seq, rtt, outbox, air, told, stray>>

\* ArpTable::lookup: the first entry for the address.
Lookup(ip) == LET hits == {i \in DOMAIN arp : arp[i].ip = ip}
              IN  IF hits = {} THEN None ELSE arp[Min(hits)].mac

\* Variant: an entry is added whether or not the address has one.
InsertPush(ip, mac) == arp' = Append(arp, [ip |-> ip, mac |-> mac])

\* ArpTable::insert: update the entry of the address, or add one.
Insert(ip, mac) ==
    IF \E i \in DOMAIN arp : arp[i].ip = ip
    THEN arp' = [i \in DOMAIN arp |-> IF arp[i].ip = ip THEN [ip |-> ip, mac |-> mac] ELSE arp[i]]
    ELSE arp' = Append(arp, [ip |-> ip, mac |-> mac])

\* An Ethernet frame as it is sent: addressed MAC, kind, the host it names and a
\* number.
Frame(to, kind, ip, no) == [to |-> to, kind |-> kind, ip |-> ip, no |-> no]

\* build_arp_request and build_arp_reply, in their frames.
ArpRequest(ip) == Frame(BroadcastMac, "arp_request", ip, 0)
ArpReply(mac, ip) == Frame(mac, "arp_reply", ip, 0)

\* The packets given to send_ipv4: build_echo_request, build_echo_reply and
\* UdpPacket::new.
EchoRequest(no) == [kind |-> "echo", no |-> no]
EchoReply(no) == [kind |-> "echo_reply", no |-> no]
Datagram == [kind |-> "udp", no |-> 0]

\* What the parsers make of a frame that came in.
IsArp(f) == f.kind \in {"arp_request", "arp_reply"}
IsIcmp(f) == f.kind \in {"echo", "echo_reply"}
IsUdp(f) == f.kind = "udp"
IsIpv4(f) == IsIcmp(f) \/ IsUdp(f)

\* The address whose MAC send_ipv4 needs.
NextHop(dest) == IF dest = Broadcast \/ dest \in Local THEN dest ELSE Gateway

\* send_ipv4: the frames it hands to send_frame.  An unknown next hop costs an
\* ARP request, and the packet itself is broadcast.
Ipv4Frames(dest, packet) ==
    LET hop == NextHop(dest)
        mac == IF dest = Broadcast THEN BroadcastMac ELSE Lookup(hop)
        To(m) == Frame(m, packet.kind, dest, packet.no)
    IN  IF mac # None THEN <<To(mac)>> ELSE <<ArpRequest(hop), To(BroadcastMac)>>

InitNet == /\ InitNic
           /\ enabled \in BOOLEAN
           /\ arp = IF enabled THEN Seed ELSE <<>>
           /\ seq = 0 /\ rtt = None /\ outbox = <<>> /\ stray = FALSE
           /\ air = Ambient
           /\ told = [ip \in {e.ip : e \in Range(arp)} |->
                         (CHOOSE e \in Range(arp) : e.ip = ip).mac]

\* send_frame: hand the next frame of the running handler to the driver.
SendFrame == /\ outbox # <<>>
             /\ SendPacket(Head(outbox))
             /\ outbox' = Tail(outbox)
             /\ UNCHANGED <<enabled, arp, seq, rtt, air, told, stray>>

\* Variant: the previous round-trip time is kept.
SendPingKeep(dest) ==
    /\ seq' = (seq + 1) % (MaxSeq + 1)
    /\ outbox' = Ipv4Frames(dest, EchoRequest(seq'))
    /\ UNCHANGED <<nic, sent, wire, enabled, arp, rtt, air, told, stray>>

\* send_ping: a new sequence number, the round-trip time forgotten, the request.
SendPing(dest) ==
    /\ seq' = (seq + 1) % (MaxSeq + 1)
    /\ rtt' = None
    /\ outbox' = Ipv4Frames(dest, EchoRequest(seq'))
    /\ UNCHANGED <<nic, sent, wire, enabled, arp, air, told, stray>>

\* send_udp.
SendUdp(dest) == /\ outbox' = Ipv4Frames(dest, Datagram)
                 /\ UNCHANGED <<nic, sent, wire, enabled, arp, seq, rtt, air, told, stray>>

\* handle_arp: learn the sender, answer a request for our address.
HandleArp(f) ==
    /\ Insert(f.ip, f.mac)
    /\ told' = [ip \in DOMAIN told \cup {f.ip} |-> IF ip = f.ip THEN f.mac ELSE told[ip]]
    /\ outbox' = IF f.kind = "arp_request" /\ f.target = OurIp
                 THEN <<ArpReply(f.mac, f.ip)>> ELSE <<>>
    /\ UNCHANGED rtt

\* handle_icmp: answer an echo request; take the round-trip time from an echo
\* reply, whichever request it answers.
HandleIcmp(f) ==
    /\ f.kind = "echo" => /\ outbox' = Ipv4Frames(f.ip, EchoReply(f.no))
                          /\ UNCHANGED rtt
    /\ f.kind = "echo_reply" => rtt' = f /\ UNCHANGED outbox
    /\ UNCHANGED <<arp, told>>

\* handle_udp reports the datagram on the serial line.
HandleUdp == UNCHANGED <<arp, told, outbox, rtt>>

\* handle_ipv4.
HandleIpv4(f) == /\ IsIcmp(f) => HandleIcmp(f)
                 /\ IsUdp(f) => HandleUdp

\* poll: take one frame from the driver and hand it to its handler.
Poll == \/ /\ enabled /\ HasPacket
           /\ LET f == nic.rx[nic.rxcur]
              IN  /\ IsArp(f) => HandleArp(f)
                  /\ IsIpv4(f) => HandleIpv4(f)
                  /\ ~IsArp(f) /\ ~IsIpv4(f) => UNCHANGED <<arp, told, outbox, rtt>>
           /\ ReceivePacket
           /\ UNCHANGED <<sent, wire, enabled, seq, air, stray>>
        \/ /\ ~(enabled /\ HasPacket)
           /\ UNCHANGED <<nic, sent, wire, netVars>>

-----------------------------------------------------------------------------

CONSTANT Answers(_)    \* external: the frames other hosts answer a frame with

\* A frame reaches the card.  It may come again, unless this was the last copy of
\* an echo reply.
Arrive == /\ enabled
          /\ \E f \in air :
               /\ HwReceive(f)
               /\ \/ f.kind # "echo_reply" /\ UNCHANGED <<air, stray>>
                  \/ f.kind = "echo_reply" /\ UNCHANGED air /\ stray' = TRUE
                  \/ f.kind = "echo_reply" /\ air' = air \ {f} /\ UNCHANGED stray
          /\ UNCHANGED <<enabled, arp, seq, rtt, outbox, told>>

\* The card transmits a frame and the hosts that see it answer.
Leave == /\ enabled
         /\ HwTransmit
         /\ air' = air \cup Answers(Outgoing.frame)
         /\ UNCHANGED <<enabled, arp, seq, rtt, outbox, told, stray>>

-----------------------------------------------------------------------------

\* A packet for a known host goes to the MAC the host gave last: the table has
\* one entry per address and lookup returns the MAC of the last ARP packet
\* handled for it, whichever order announcements and replies came in.
ArpFresh == \A ip \in DOMAIN told : Lookup(ip) = told[ip]
=============================================================================
