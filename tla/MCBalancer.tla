----------------------------- MODULE MCBalancer -----------------------------
(* A small instance of Balancer for TLC.                                    *)
EXTENDS Balancer

\* A connection is addresses, protocol and ports.
ConnA == <<"srcA", "dst", 17, "portsA">>
ConnB == <<"srcA", "dst", 17, "portsB">>
ConnICMP == <<"srcA", "dst", 1, "type">>

\* A frame of connection c with some IP options.
Ip(version, c, options) ==
    <<[version |-> version, ihl |-> 5 + Len(options)], "id", [proto |-> c[3]], c[1], c[2]>>
    \o options \o <<c[4], "rest">>

\* Two connections, one of them with and without options, and a protocol that
\* is not hashed.
SomeFrames ==
    {[conn |-> ConnA, ip |-> Ip(4, ConnA, <<>>)],
     [conn |-> ConnA, ip |-> Ip(4, ConnA, <<"option">>)],
     [conn |-> ConnB, ip |-> Ip(4, ConnB, <<>>)],
     [conn |-> ConnICMP, ip |-> Ip(4, ConnICMP, <<>>)]}

\* The hash of everything a frame's words could be read as.
SomeFlowHash ==
    [t \in {"srcA"} \X {"dst"} \X {17} \X {"portsA", "portsB", "option"} |->
        CASE t[4] = "portsA" -> 1 [] t[4] = "portsB" -> 2 [] OTHER -> 3]

SomeBackends == <<7, 8, 9>>

=============================================================================
