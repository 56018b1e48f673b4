---------------------------- MODULE MCXdpReceiver ----------------------------
(***************************************************************************)
(* A small UMEM for TLC: fewer frames than two polls return, so that the   *)
(* frames go round through both rings.  The interface sees a datagram of   *)
(* the flow and frames that differ from it in one respect each.            *)
(***************************************************************************)
EXTENDS XdpReceiver

\* 20 bytes of IPv4 header, 8 of UDP header and 4 of payload
Datagram == [len |-> 46, tagged |-> FALSE, ethertype |-> "IPv4", version |-> 4, ihl |-> 20,
             total |-> 32, fragment |-> FALSE, protocol |-> "UDP", udp_len |-> 12,
             dst_port |-> 1, dst_ip |-> 1]

MCWire == {Datagram,
           [Datagram EXCEPT !.tagged = TRUE, !.len = 50],
           [Datagram EXCEPT !.ihl = 24, !.udp_len = 8],
           [Datagram EXCEPT !.len = 60],
           [Datagram EXCEPT !.len = 45],
           [Datagram EXCEPT !.total = 27],
           [Datagram EXCEPT !.udp_len = 13],
           [Datagram EXCEPT !.version = 6],
           [Datagram EXCEPT !.fragment = TRUE],
           [Datagram EXCEPT !.protocol = "other"],
           [Datagram EXCEPT !.dst_port = 2],
           [Datagram EXCEPT !.dst_ip = 2]}
=============================================================================
