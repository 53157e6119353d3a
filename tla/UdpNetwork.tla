----------------------------- MODULE UdpNetwork -----------------------------
(***************************************************************************)
(* The UDP sockets between the low latency servicers, as the code in       *)
(* src/src/client/low_latency.rs, src/src/server/low_latency.rs and        *)
(* src/src/util.rs uses them (external: the operating system's sockets).   *)
(*                                                                         *)
(* A datagram stays in its set for ever.  Receiving one leaves it there,   *)
(* so a datagram may be delivered late, out of order, many times or never. *)
(* A client process is its UDP socket address.                             *)
(***************************************************************************)
VARIABLES uplink,    \* datagrams sent by clients:  [src, packet]
          downlink   \* datagrams sent by the server: [dst, body]

networkVars == <<uplink, downlink>>

NetworkInit == uplink = {} /\ downlink = {}

\* UdpSocket::send_to, at a client and at the server.
SendToServer(src, packet) ==
  /\ uplink' = uplink \cup {[src |-> src, packet |-> packet]}
  /\ UNCHANGED downlink

SendToClients(datagrams) ==
  /\ downlink' = downlink \cup datagrams
  /\ UNCHANGED uplink

\* The bodies that UdpSocket::recv may return to the client at an address.
Deliverable(dst) == {d.body : d \in {e \in downlink : e.dst = dst}}
=============================================================================
