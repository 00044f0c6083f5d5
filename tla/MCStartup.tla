----------------------------- MODULE MCStartup -----------------------------
(* Small instances of Startup for TLC.                                      *)
EXTENDS Startup

Opt(o, a) == [opt |-> o, arg |-> a]

ModeOptions == {Opt("m", w) : w \in {"maglev", "sashstore", "dramblast", "none"}}
PortOptions == {Opt("p", s) : s \in SUBSET Devices}
QueueOptions == {Opt("q", n) : n \in 0 .. 2}
CapacityOptions == {Opt("c", n) : n \in {0, 1, 2, 3, 4, 8, 16, 32, 64}}
OtherOptions == {Opt("T", 5), Opt("no-mac-updating", 0), Opt("x", 0), Opt("m", "mag")}

\* Two modes in any order; every mask and queue count; repeated capacities;
\* stray options.
SomeCommandLines ==
    {<<a, b, c>> : a \in ModeOptions, b \in ModeOptions, c \in CapacityOptions}
    \cup {<<a, b>> : a \in PortOptions, b \in QueueOptions}
    \cup {<<a, b>> : a \in CapacityOptions, b \in CapacityOptions \cup OtherOptions}
    \cup {<<Opt("m", "dramblast"), a, b>> : a \in PortOptions, b \in CapacityOptions}

\* The example of l2fwd/README.md: two ports, one worker.
ReadmeExample ==
    {<<Opt("p", Devices), Opt("no-mac-updating", 0), Opt("m", "dramblast"), Opt("c", 8)>>}

=============================================================================
