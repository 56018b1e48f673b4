------------------------------ MODULE UdpFrames ------------------------------
(***************************************************************************)
(* Ethernet frames as the two programs that look at their headers see      *)
(* them: the XDP program that redirects a flow to the socket               *)
(* (xdp_udp_filter.bpf.c), and the validation of a redirected frame        *)
(* (packet.hpp).  A frame is the fields they read and its length.          *)
(***************************************************************************)
EXTENDS Integers

CONSTANTS Port,         \* destination port of the flow
          Group,        \* its destination address, or AnyAddress
          AnyAddress

EthHeader == 14
VlanTag == 4
IpHeader == 20    \* without options
UdpHeader == 8

\* where the IPv4 header starts
L3(w) == EthHeader + IF w.tagged THEN VlanTag ELSE 0

\* A parser that trusts the length the IPv4 header gives.
ParseTrusting(w) ==
    IF w.len < L3(w) + IpHeader THEN "kTruncated"
    ELSE IF w.ethertype # "IPv4" THEN "kNotIpv4"
    ELSE IF w.version # 4 \/ w.ihl < IpHeader THEN "kBadIpHeader"
    ELSE IF w.total < w.ihl + UdpHeader THEN "kTruncated"
    ELSE IF w.fragment THEN "kFragment"
    ELSE IF w.protocol # "UDP" THEN "kNotUdp"
    ELSE IF w.udp_len < UdpHeader \/ w.udp_len > w.total - w.ihl THEN "kBadUdpLength"
    ELSE "kOk"

\* parse_udp_frame.  The frame may be longer than the datagram, never shorter.
ParseUdpFrame(w) ==
    IF w.len < L3(w) THEN "kTruncated"
    ELSE IF w.ethertype # "IPv4" THEN "kNotIpv4"
    ELSE IF w.len < L3(w) + IpHeader THEN "kTruncated"
    ELSE IF w.version # 4 \/ w.ihl < IpHeader THEN "kBadIpHeader"
    ELSE IF w.total < w.ihl \/ w.len < L3(w) + w.total THEN "kTruncated"
    ELSE IF w.fragment THEN "kFragment"
    ELSE IF w.protocol # "UDP" THEN "kNotUdp"
    ELSE IF w.total < w.ihl + UdpHeader THEN "kTruncated"
    ELSE IF w.udp_len < UdpHeader \/ w.udp_len > w.total - w.ihl THEN "kBadUdpLength"
    ELSE "kOk"

IsDatagram(w) == ParseUdpFrame(w) = "kOk"

\* what parse_udp_frame returns of a datagram: the bytes of its payload
Payload(w) == LET first == L3(w) + w.ihl + UdpHeader
              IN  first .. first + (w.udp_len - UdpHeader) - 1

InFlow(w) == w.dst_port = Port /\ (Group = AnyAddress \/ w.dst_ip = Group)

\* xdp_udp_filter: what goes to the socket.  It checks what it reads and no more.
Redirects(w) ==
    /\ w.len >= L3(w) /\ w.ethertype = "IPv4"
    /\ w.len >= L3(w) + IpHeader
    /\ w.ihl >= IpHeader /\ w.protocol = "UDP"
    /\ ~w.fragment
    /\ w.len >= L3(w) + w.ihl + UdpHeader
    /\ InFlow(w)
=============================================================================
