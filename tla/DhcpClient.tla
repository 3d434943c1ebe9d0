----------------------------- MODULE DhcpClient -----------------------------
(***************************************************************************)
(* The DHCP test utility (src/apps/dhcp_bitbanger.c) against the network   *)
(* it reads raw frames from.                                               *)
(*                                                                         *)
(* main gets the MAC address, sends a DISCOVER built by fill, and reads    *)
(* frames until one is addressed to UDP port 68, taking its yiaddr and     *)
(* siaddr.  It then sends a REQUEST for that address and reads frames      *)
(* until one is addressed to port 68 again, printing its yiaddr as         *)
(* "ACK returns".  Neither loop looks at the xid or the DHCP message type, *)
(* and nothing is ever sent again.                                         *)
(*                                                                         *)
(* The environment: DHCP servers that each answer a DISCOVER with an OFFER *)
(* and a REQUEST with an ACK for the address they offered or a NAK for     *)
(* any other (RFC 2131 4.3), frames for other ports on the same interface, *)
(* and a network that reorders frames (the channels are sets) and loses    *)
(* them.  A frame is an abstract record; only the fields the code reads or *)
(* writes are kept, and the ones it writes as constants are left out.     *)
(***************************************************************************)
EXTENDS Integers, Sequences, SequencesExt

CONSTANTS
  Servers,     \* DHCP servers on the link (model values)
  Addrs,       \* addresses a server may offer (model values)
  NoAddr,      \* 0.0.0.0: the yiaddr of a NAK
  OtherPorts,  \* destination ports of unrelated traffic on the interface
  MaxStray     \* bound on unrelated frames

ASSUME /\ NoAddr \notin Addrs
       /\ 68 \notin OtherPorts

VARIABLES
  pc,         \* where main is: "start", "discover", "request_wait", "request", "ack_wait", "done", "exit"
  yiaddr,     \* main's yiaddr and siaddr locals
  siaddr,
  toServer,   \* frames the client has written, in flight to the servers
  toClient,   \* frames in flight to the client's interface
  offered,    \* the address each server offered, NoAddr before it does
  replied,    \* the kinds of reply each server has sent
  acked,      \* addresses some server has ACKed (history)
  strays      \* unrelated frames sent so far

vars == <<pc, yiaddr, siaddr, toServer, toClient, offered, replied, acked, strays>>

-----------------------------------------------------------------------------
(* fill and calculate_ipv4_checksum                                        *)

\* sizeof ipv4_packet, udp_packet and dhcp_packet (packed).
IpHeaderLen == 20
UdpHeaderLen == 8
DhcpHeaderLen == 240

\* The ten 16-bit words of the IP header fill writes, as ntohs reads them
\* back: version/ihl and dscp, length, ident 1, flags 0, ttl 0x40 and
\* protocol 17, checksum 0, source 0.0.0.0, destination 255.255.255.255.
\* htons on write and ntohs on read cancel, so each word is the host value.
IpHeaderWords(payloadSize) ==
  << \h4500, IpHeaderLen + UdpHeaderLen + DhcpHeaderLen + payloadSize,
     1, 0, \h4011, 0, 0, 0, \hFFFF, \hFFFF >>

\* calculate_ipv4_checksum: a 32-bit sum of the words, one fold of the
\* carry, and the complement of the low 16 bits.
Ipv4Checksum(words) ==
  LET sum   == FoldSeq(+, 0, words)
      fold  == IF sum > \hFFFF THEN (sum \div 2^16) + (sum % 2^16) ELSE sum
  IN  \hFFFF - (fold % 2^16)

\* RFC 1071: the one's complement of the one's-complement sum, the carries
\* folded back in until none is left.
RECURSIVE EndAroundCarry(_)
EndAroundCarry(n) == IF n < 2^16 THEN n ELSE EndAroundCarry((n \div 2^16) + (n % 2^16))

Rfc1071Checksum(words) == \hFFFF - EndAroundCarry(FoldSeq(+, 0, words))

\* fill(it, payload_size) for the two frames main sends: UDP 68 to 67, its
\* IP header checksummed.
Fill(type, payloadSize) ==
  [type |-> type, ciaddr |-> NoAddr, siaddr |-> NoAddr,
   checksum |-> Ipv4Checksum(IpHeaderWords(payloadSize))]

\* The headers fill builds carry the checksum RFC 1071 gives them.
ASSUME \A n \in {8, 14} :
         Ipv4Checksum(IpHeaderWords(n)) = Rfc1071Checksum(IpHeaderWords(n))

-----------------------------------------------------------------------------
(* main                                                                    *)

\* socket, open("/dev/net/<if>") and ioctl(netdev, 0x12340001, &mac_addr);
\* only the ioctl's failure is checked, and main returns 1.
GetMacAddress ==
  /\ pc = "start"
  /\ pc' \in {"discover", "exit"}
  /\ UNCHANGED <<yiaddr, siaddr, toServer, toClient, offered, replied, acked, strays>>

\* fill(&thething, 8) with the DISCOVER options, and write.
SendDiscover ==
  /\ pc = "discover"
  /\ toServer' = toServer \cup {Fill("DISCOVER", 8)}
  /\ pc' = "request_wait"
  /\ UNCHANGED <<yiaddr, siaddr, toClient, offered, replied, acked, strays>>

\* One pass of a read loop: read takes frame f off the interface; a frame
\* not for port 68 is skipped ("not what I was expecting") and the loop
\* reads again; else yiaddr and siaddr are taken and the loop breaks to
\* exitPc.  A read returning rsize <= 0 changes nothing and is a stutter.
ReadLoop(f, exitPc) ==
  /\ toClient' = toClient \ {f}
  /\ IF f.dport # 68
       THEN UNCHANGED <<pc, yiaddr, siaddr>>
       ELSE /\ yiaddr' = f.yiaddr
            /\ siaddr' = f.siaddr
            /\ pc' = exitPc
  /\ UNCHANGED <<toServer, offered, replied, acked, strays>>

\* The first loop: "Response from DHCP Discover".
ReadOffer(f) == pc = "request_wait" /\ ReadLoop(f, "request")

\* fill(&thething, 14) with options 53 (REQUEST) and 50 (yiaddr), then
\* ciaddr = yiaddr and siaddr = siaddr, and write.
SendRequest ==
  /\ pc = "request"
  /\ toServer' = toServer \cup {[Fill("REQUEST", 14) EXCEPT !.ciaddr = yiaddr, !.siaddr = siaddr]}
  /\ pc' = "ack_wait"
  /\ UNCHANGED <<yiaddr, siaddr, toClient, offered, replied, acked, strays>>

\* The second loop: "ACK returns", then return 0.
ReadAck(f) == pc = "ack_wait" /\ ReadLoop(f, "done")

-----------------------------------------------------------------------------
(* The network and the servers (environment)                               *)

Reply(kind, addr, s) == [dport |-> 68, kind |-> kind, yiaddr |-> addr, siaddr |-> s]

\* A server answers the broadcast DISCOVER once, with an address of its pool.
ServerOffer(s) ==
  /\ \E d \in toServer : d.type = "DISCOVER"
  /\ "OFFER" \notin replied[s]
  /\ \E a \in Addrs :
       /\ offered' = [offered EXCEPT ![s] = a]
       /\ toClient' = toClient \cup {Reply("OFFER", a, s)}
  /\ replied' = [replied EXCEPT ![s] = @ \cup {"OFFER"}]
  /\ UNCHANGED <<pc, yiaddr, siaddr, toServer, acked, strays>>

\* A server answers the broadcast REQUEST once: an ACK when it asks for the
\* address this server offered, else a NAK.
ServerReply(s) ==
  /\ "OFFER" \in replied[s]
  /\ "REPLY" \notin replied[s]
  /\ \E r \in toServer :
       /\ r.type = "REQUEST"
       /\ IF r.ciaddr = offered[s]
            THEN /\ toClient' = toClient \cup {Reply("ACK", r.ciaddr, s)}
                 /\ acked' = acked \cup {r.ciaddr}
            ELSE /\ toClient' = toClient \cup {Reply("NAK", NoAddr, s)}
                 /\ UNCHANGED acked
  /\ replied' = [replied EXCEPT ![s] = @ \cup {"REPLY"}]
  /\ UNCHANGED <<pc, yiaddr, siaddr, toServer, offered, strays>>

\* Unrelated traffic arrives on the interface.
Stray ==
  /\ strays < MaxStray
  /\ \E p \in OtherPorts :
       toClient' = toClient \cup {[dport |-> p, kind |-> "OTHER", yiaddr |-> NoAddr, siaddr |-> NoAddr]}
  /\ strays' = strays + 1
  /\ UNCHANGED <<pc, yiaddr, siaddr, toServer, offered, replied, acked>>

\* The network drops a frame in either direction.
Lose ==
  /\ \/ \E f \in toClient : toClient' = toClient \ {f} /\ UNCHANGED toServer
     \/ \E f \in toServer : toServer' = toServer \ {f} /\ UNCHANGED toClient
  /\ UNCHANGED <<pc, yiaddr, siaddr, offered, replied, acked, strays>>

-----------------------------------------------------------------------------
Init ==
  /\ pc = "start"
  /\ yiaddr = NoAddr
  /\ siaddr = NoAddr
  /\ toServer = {}
  /\ toClient = {}
  /\ offered = [s \in Servers |-> NoAddr]
  /\ replied = [s \in Servers |-> {}]
  /\ acked = {}
  /\ strays = 0

Next ==
  \/ GetMacAddress \/ SendDiscover \/ SendRequest
  \/ \E f \in toClient : ReadOffer(f) \/ ReadAck(f)
  \/ \E s \in Servers : ServerOffer(s) \/ ServerReply(s)
  \/ Stray \/ Lose

Spec == Init /\ [][Next]_vars

-----------------------------------------------------------------------------
(* Properties                                                              *)

\* The address main prints after "ACK returns" is one a DHCP server has
\* acknowledged to it: the second read loop must not take an OFFER, a NAK
\* or another server's frame for the ACK.
ReportedAddressIsAcked == pc = "done" => yiaddr \in acked

=============================================================================
