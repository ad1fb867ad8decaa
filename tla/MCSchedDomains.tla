--------------------------- MODULE MCSchedDomains ---------------------------
(***************************************************************************)
(* Instances of SchedDomains: three CPUs; samples with four.               *)
(***************************************************************************)
EXTENDS SchedDomains

Level(mask, flags, overlap, far) ==
    [mask |-> mask, flags |-> flags, overlap |-> overlap, far |-> far]

\* CPUs 0 and 1 are threads of a core.
Core(c) == IF c = 2 THEN {2} ELSE {0, 1}

\* Threads, a cache of the same span, and the package.
Package == <<Level([c \in CPU |-> Core(c)], {"SHARE_CPUCAPACITY", "SHARE_PKG"}, FALSE, FALSE),
             Level([c \in CPU |-> Core(c)], {"SHARE_PKG"}, FALSE, FALSE),
             Level([c \in CPU |-> CPU], {}, FALSE, FALSE)>>

\* Three nodes in a line: CPU 1 is near to all, 0 and 2 are far from each other.
Near(c) == {d \in CPU : d - c \in -1 .. 1}
Line == <<Level([c \in CPU |-> {c}], {}, FALSE, FALSE),
          Level([c \in CPU |-> Near(c)], {"NUMA"}, TRUE, FALSE),
          Level([c \in CPU |-> CPU], {"NUMA"}, TRUE, TRUE)>>

\* Every way to connect four nodes; the distances are the numbers of hops.
Nodes == 0 .. 3
Links == {pair \in SUBSET Nodes : Cardinality(pair) = 2}
Within(links, c) ==
    LET ball[hops \in 0 .. 3] ==
            IF hops = 0 THEN {c}
            ELSE {d \in Nodes : d \in ball[hops - 1] \/ \E b \in ball[hops - 1] : {b, d} \in links}
    IN  ball
Hops(links) ==
    LET within == [c \in Nodes |-> Within(links, c)]
        far == CHOOSE h \in 1 .. 3 : /\ \A c \in Nodes : within[c][h] = Nodes
                                     /\ \E c \in Nodes : within[c][h - 1] # Nodes
    IN  [l \in 1 .. far + 1 |->
            Level([c \in Nodes |-> within[c][l - 1]], IF l = 1 THEN {} ELSE {"NUMA"},
                  l > 1, l > 2)]
FourNodes == {Hops(links) : links \in {s \in SUBSET Links : Within(s, 0)[3] = Nodes}}

TwoTopologies == {Package, Line}

TwoPartitions == {{{0, 1}, {2}}, {{1, 2}}}
=============================================================================
