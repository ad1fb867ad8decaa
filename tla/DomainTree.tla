----------------------------- MODULE DomainTree -----------------------------
(***************************************************************************)
(* What build_sched_domains() of core.c builds for a set of CPUs before it *)
(* attaches anything: the tree of scheduling domains of every CPU, the     *)
(* rings of groups of every domain, and which of the objects allocated for *)
(* them are in use.  The loops of the code are sets and functions here.    *)
(*                                                                         *)
(* A topology is the sequence sched_domain_topology, lowest level first;   *)
(* a level has a mask for each CPU, its flags, whether its groups overlap  *)
(* (SDTL_OVERLAP) and whether it is farther than RECLAIM_DISTANCE.         *)
(*                                                                         *)
(* An object is named by its kind, the build it was allocated in, its      *)
(* level and its CPU; a group of an overlapping domain also by the CPU it  *)
(* was made for.                                                           *)
(***************************************************************************)
EXTENDS Integers, Sequences, FiniteSets

CONSTANTS CPU, NULL

Object(kind, g, l, c) == <<kind, g, l, c, -1>>
OverlapGroup(g, l, c, i) == <<"sg", g, l, c, i>>
RootDomain(g) == <<"rd", g, 0, 0, -1>>

KindOf(o) == o[1]
BuildOf(o) == o[2]

cpumask_first(S) == CHOOSE c \in S : \A d \in S : c <= d
cpumask_last(S) == CHOOSE c \in S : \A d \in S : c >= d

\* The CPU after c in S, and after the last one the first: the order in which
\* for_each_cpu() links groups to a ring.
After(S, c) ==
    LET later == {d \in S : d > c}
    IN  cpumask_first(IF later = {} THEN S ELSE later)

-----------------------------------------------------------------------------
\* The spans of the domains of map: tree[c][l], empty where no domain of c is
\* built because a lower one spans map already.
Tree(levels, map) ==
    [c \in map |->
        LET span[l \in DOMAIN levels] ==
                (map \cap levels[l].mask[c]) \cup (IF l = 1 THEN {} ELSE span[l - 1])
            full == {l \in DOMAIN levels : span[l] = map}
        IN  [l \in DOMAIN levels |->
                IF \E k \in full : k < l THEN {} ELSE span[l]]]

Linked(tree, l, c) == tree[c][l] # {}

\* The CPUs of the group that is made for c at level l: the span of the child.
group_span(tree, l, c) ==
    IF l > 1 /\ Linked(tree, l, c) THEN tree[c][l - 1] ELSE {c}

\* Mutant of get_group(): not the first CPU of the child.
GroupOfSelf(tree, l, c) == c

\* get_group(): the CPU in whose name c's group is.
get_group(tree, l, c) == cpumask_first(group_span(tree, l, c))

\* The flags a domain is born with; BALANCE stands for those that need two
\* groups.
sd_init(level) ==
    LET shares == level.flags \cap {"SHARE_CPUCAPACITY", "SHARE_PKG"} # {}
    IN
    {"BALANCE"} \cup level.flags
    \cup (CASE shares -> {"WAKE_AFFINE"}
            [] ~ shares /\ "NUMA" \in level.flags ->
                  {"SERIALIZE"} \cup IF level.far THEN {} ELSE {"WAKE_AFFINE"}
            [] OTHER -> {"WAKE_AFFINE", "PREFER_SIBLING"})
    \cup IF level.overlap THEN {"OVERLAP"} ELSE {}

-----------------------------------------------------------------------------
(***************************************************************************)
(* build_sched_groups(): groups in common                                  *)
(***************************************************************************)

\* The CPUs that name the groups of span.
GroupRing(tree, l, span) == {get_group(tree, l, c) : c \in span}

\* The spans whose first CPU puts the group of x into a ring.
RingsOf(tree, l, x) ==
    {span \in {tree[c][l] : c \in DOMAIN tree} \ {{}} :
        \E c \in span : get_group(tree, l, c) = x}

\* sdd->sg of CPU x, with its reference count: the domains whose own it is.
build_sched_groups(tree, g, l, x) ==
    LET rings == RingsOf(tree, l, x) IN
    [cpus |-> {c \in UNION rings : get_group(tree, l, c) = x},
     next |-> Object("sg", g, l,
                     IF rings = {} THEN x
                     ELSE After(GroupRing(tree, l, CHOOSE s \in rings : TRUE), x)),
     sgc |-> IF rings = {} THEN NULL ELSE Object("sgc", g, l, x),
     ref |-> Cardinality({c \in DOMAIN tree : /\ Linked(tree, l, c)
                                              /\ get_group(tree, l, c) = x})]

-----------------------------------------------------------------------------
(***************************************************************************)
(* build_overlap_sched_groups(): private groups                            *)
(***************************************************************************)
\* Does the domain of i at this level include i?
Includes(tree, l, i) == i \in tree[i][l]

\* The CPUs for which the domain of c gets a group: the first one, and each
\* later one that no group before it covers.
OverlapRing(tree, l, c) ==
    LET top == cpumask_last(tree[c][l])
        Covered(i, done) == \E k \in done : i \in group_span(tree, l, k)
        ring[n \in 0 .. top + 1] ==
            IF n = 0 THEN {}
            ELSE ring[n - 1] \cup {i \in {n - 1} \cap tree[c][l] :
                                    ~ Covered(i, ring[n - 1]) /\ Includes(tree, l, i)}
    IN  IF tree[c][l] = {} THEN {} ELSE ring[top + 1]

\* The domains that use the capacity of i.
CapacityUsers(tree, l, i) ==
    {c \in DOMAIN tree : Linked(tree, l, c) /\ i \in OverlapRing(tree, l, c)}

\* build_group_mask(), by the first of them.
build_group_mask(tree, l, i) ==
    {k \in tree[cpumask_first(CapacityUsers(tree, l, i))][l] : Includes(tree, l, k)}

group_balance_cpu(tree, l, i) ==
    cpumask_first(group_span(tree, l, i) \cap build_group_mask(tree, l, i))

\* sd->groups: a group with c in it, best one that c balances for.
OverlapFirst(tree, g, l, c) ==
    LET ring == OverlapRing(tree, l, c)
        mine == {i \in ring : c \in group_span(tree, l, i)}
        best == {i \in ring : group_balance_cpu(tree, l, i) = c}
    IN  CASE best # {} -> OverlapGroup(g, l, c, cpumask_last(best))
          [] best = {} /\ mine # {} -> OverlapGroup(g, l, c, cpumask_first(mine))
          [] OTHER -> NULL

build_overlap_group(tree, g, l, c, i) ==
    [cpus |-> group_span(tree, l, i),
     next |-> OverlapGroup(g, l, c, After(OverlapRing(tree, l, c), i)),
     sgc |-> Object("sgc", g, l, i),
     ref |-> 0]

-----------------------------------------------------------------------------
(***************************************************************************)
(* All of it                                                               *)
(***************************************************************************)
OverlapGroups(levels, tree, g) ==
    UNION {{OverlapGroup(g, l, c, i) : i \in OverlapRing(tree, l, c)} :
            l \in {k \in DOMAIN levels : levels[k].overlap}, c \in DOMAIN tree}

\* What __sdt_alloc() puts into the slots of every level.
Slots(levels, map, g) ==
    {Object(kind, g, l, c) : kind \in {"sd", "sg", "sgc"},
                             l \in DOMAIN levels, c \in map}

build_sched_domain(levels, tree, g, l, c) ==
    IF ~ Linked(tree, l, c)
    THEN [span |-> {}, parent |-> NULL, child |-> NULL, flags |-> {}, groups |-> NULL]
    ELSE [span |-> tree[c][l],
          parent |-> IF l < Len(levels) /\ Linked(tree, l + 1, c)
                     THEN Object("sd", g, l + 1, c) ELSE NULL,
          child |-> IF l > 1 THEN Object("sd", g, l - 1, c) ELSE NULL,
          flags |-> sd_init(levels[l]),
          groups |-> IF levels[l].overlap THEN OverlapFirst(tree, g, l, c)
                     ELSE Object("sg", g, l, get_group(tree, l, c))]

build_capacity(levels, tree, l, x) ==
    [ref |-> IF levels[l].overlap THEN Cardinality(CapacityUsers(tree, l, x))
             ELSE IF RingsOf(tree, l, x) = {} THEN 0 ELSE 1]

\* A group of a level with overlap stays as it was allocated.
empty_group(g, l, x) ==
    [cpus |-> {}, next |-> Object("sg", g, l, x), sgc |-> NULL, ref |-> 0]

\* The memory after the groups are built.
Built(levels, tree, g) ==
    [o \in Slots(levels, DOMAIN tree, g) \cup OverlapGroups(levels, tree, g) |->
        LET l == o[3]
            c == o[4]
        IN  CASE o[1] = "sd" -> build_sched_domain(levels, tree, g, l, c)
              [] o[1] = "sgc" -> build_capacity(levels, tree, l, c)
              [] o[1] = "sg" /\ o[5] # -1 -> build_overlap_group(tree, g, l, c, o[5])
              [] o[1] = "sg" /\ o[5] = -1 /\ levels[l].overlap -> empty_group(g, l, c)
              [] OTHER -> build_sched_groups(tree, g, l, c)]

\* claim_allocations(): the slots that stay behind, for __sdt_free().
Unclaimed(tree, built) ==
    {o \in DOMAIN built :
        /\ KindOf(o) # "rd" /\ o[5] = -1
        /\ \/ ~ Linked(tree, o[3], o[4])
           \/ o[1] # "sd" /\ built[o].ref = 0}
=============================================================================
