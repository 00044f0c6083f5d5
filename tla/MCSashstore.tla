---------------------------- MODULE MCSashstore ----------------------------
(* A small instance of Sashstore for TLC.                                   *)
EXTENDS Sashstore

\* A frame with the given version, protocol, IP options and payload.
Frame(version, proto, options, payload) ==
    <<[version |-> version, ihl |-> 5 + Len(options)], "id", [proto |-> proto], "src", "dst">>
    \o options \o <<"ports", "length", payload>>

Request(m, k, v) == [mode |-> m, key |-> k, value |-> v]

Payloads ==
    {Request("set ", k, v) : k \in Keys, v \in Values}
    \cup {Request("get ", k, 1) : k \in Keys}
    \cup {Request("del ", "a", 1)}

\* Every request, GETs behind IP options, and packets that are not UDP over
\* IPv4.
SomeRequests ==
    {Frame(4, 17, IF p.mode = "get " THEN <<"option">> ELSE <<>>, p) : p \in Payloads}
    \cup {Frame(v, t, <<>>, Request("del ", "a", 1)) : <<v, t>> \in {<<6, 17>>, <<4, 6>>}}

\* Two keys collide in the last slot, the third follows them.
SomeHash == [k \in Keys |-> CASE k = "a" -> 1 [] k = "b" -> 1 [] k = "c" -> 2 [] OTHER -> 7]

=============================================================================
