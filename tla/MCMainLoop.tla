---------------------------- MODULE MCMainLoop -----------------------------
(***************************************************************************)
(* MainLoop for TLC: a gateway known from the start, a host on the local   *)
(* network that has to be resolved, and a host behind the gateway.         *)
(***************************************************************************)
EXTENDS MainLoop, TLC

CONSTANTS MaxArrivals  \* bound: frames that reach the card

VARIABLE arrivals

MCSeed == <<[ip |-> "gw", mac |-> "mgw"]>>
MCLocal == {"us", "gw", "host"}

Arp(kind, ip, mac, target) == [kind |-> kind, ip |-> ip, mac |-> mac, target |-> target]
Echo(kind, ip, no) == [kind |-> kind, ip |-> ip, no |-> no]

\* The gateway asks for our address from a new MAC; the host pings us; a frame
\* that no parser accepts.
MCAmbient == {Arp("arp_request", "gw", "mnew", "us"), Echo("echo", "host", 0), [kind |-> "junk"]}

\* "p" pings the host, "pp" sends a datagram behind the gateway.
MCMeaning(text) == IF text = <<"p">> THEN [name |-> "ping", dest |-> "host"]
                   ELSE [name |-> "udpsend", dest |-> "far"]

MCAnswers(f) == IF f = None THEN {}
                ELSE IF f.kind = "arp_request" THEN {Arp("arp_reply", f.ip, "mhost", "us")}
                ELSE IF f.kind = "echo" THEN {Echo("echo_reply", f.ip, f.no)}
                ELSE {}

MCInit == Init /\ arrivals = 0

MCNext == \/ Next /\ arrivals' = arrivals + (IF nic'.rdh # nic.rdh THEN 1 ELSE 0)
                  /\ arrivals' <= MaxArrivals

MCSpec == MCInit /\ [][MCNext]_<<vars, arrivals>> /\ WF_<<vars, arrivals>>(Task /\ UNCHANGED arrivals)
=============================================================================
