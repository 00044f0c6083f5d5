----------------------------- MODULE PacketTool -----------------------------
(***************************************************************************)
(* What the programs read out of a received frame                          *)
(* (l2fwd/libsashstore/packettool.c).                                      *)
(*                                                                         *)
(* The bytes after the Ethernet header are a sequence ip of 32-bit words:  *)
(* every offset of the source falls on a word.  ip[1] holds the version    *)
(* and the header length, ip[3] the protocol, ip[4] and ip[5] the          *)
(* addresses; the header ends after ihl words, IP options included.        *)
(***************************************************************************)
EXTENDS Integers, Sequences

CONSTANT FlowHash   \* FNV-1 of addresses, protocol and ports, in this order

\* Mutant: the ports are expected behind a header without options.
FirstAfterHeaderFixed(ip) == 6

\* The first word behind the IPv4 header: ETH_HEADER_LEN + v4len.
FirstAfterHeader(ip) == ip[1].ihl + 1

\* The word that starts the payload of a UDP packet behind its 8 byte header,
\* 0 (NULL) if the frame is not IPv4 or not UDP.
get_udp_payload(ip) ==
    IF ip[1].version # 4 \/ ip[3].proto # 17 THEN 0 ELSE FirstAfterHeader(ip) + 2

\* The flow hash; 0 for anything but TCP and UDP over IPv4.
flowhash(ip) ==
    IF ip[1].version # 4 \/ ip[3].proto \notin {6, 17} THEN 0
    ELSE FlowHash[<<ip[4], ip[5], ip[3].proto, ip[FirstAfterHeader(ip)]>>]

=============================================================================
