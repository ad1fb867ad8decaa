---------------------------- MODULE SchedDomains ----------------------------
(***************************************************************************)
(* The life of scheduling domains and root domains (core.c, CONFIG_SMP):   *)
(* partition_sched_domains() takes the domains of CPUs away and gives them *)
(* new ones, CPU by CPU, while other CPUs walk them without a lock; RCU    *)
(* frees what is no longer used, by reference counts; any allocation may   *)
(* fail; CPUs come and go.                                                 *)
(*                                                                         *)
(* The callers hold the hotplug lock and sched_domains_mutex: there is one *)
(* writer.  Until it attaches them its objects are its own, so a build is  *)
(* one step (DomainTree); each attachment is two.  A reader holds a domain *)
(* it found in a run queue or in one of the cached pointers, under         *)
(* rcu_read_lock(), or a root domain, under rcu_read_lock_sched(), which   *)
(* is a flavour of its own.                                                *)
(***************************************************************************)
EXTENDS DomainTree, SequencesExt, FiniteSetsExt

CONSTANTS
    Topologies,     \* sequences of levels
    Partitions,     \* the arguments of partition_sched_domains
    Builds,         \* bounds memory: a build whose objects find no name free
                    \* among these fails
    Unplugged,      \* the CPUs that may go off line
    Reader,         \* who reads domains or root domains ...
    Watched,        \* ... of these CPUs
    WRITER,         \* the writer as a reader of domains
    Samples         \* more topologies, of which domains are built and looked at

ASSUME DomainsAssumption ==
    /\ CPU \subseteq Nat /\ IsFiniteSet(CPU) /\ Unplugged \cup Watched \subseteq CPU
    /\ \A topology \in Topologies : \A l \in DOMAIN topology, c \in CPU :
          /\ c \in topology[l].mask[c] /\ topology[l].mask[c] \subseteq CPU
          /\ ~ topology[l].overlap => \A d \in CPU :
                \/ topology[l].mask[c] = topology[l].mask[d]
                \/ topology[l].mask[c] \cap topology[l].mask[d] = {}
    /\ \A doms \in Partitions : \A m, n \in doms : m # n => m \cap n = {}
    /\ Builds \subseteq Nat /\ WRITER \notin Reader

VARIABLES
    topology,   \* sched_domain_topology
    mem,        \* the objects that are allocated
    rq,         \* rq->sd, rq->rd, rq->online, and the cached pointers to domains
    doms_cur,   \* the current partition
    active,     \* cpu_active_mask
    work,       \* what the writer is doing
    reader,     \* what each reader holds
    rcu,        \* the objects given to call_rcu, with the readers they wait for
    fault,      \* has something been freed twice, or a BUG_ON fired?
    unbuilt     \* history: the masks of doms_cur whose build failed

vars == <<topology, mem, rq, doms_cur, active, work, reader, rcu, fault, unbuilt>>

def_root_domain == RootDomain(-1)

\* lost is what the builds of this partition have allocated and nobody points to.
\* Nothing can happen to it any more, so that no account is kept of earlier ones.
Idle == [pc |-> "idle", detach |-> {}, build |-> {}, doms |-> {}, cpus |-> {},
         g |-> -1, left |-> {}, lost |-> {}, cpu |-> NULL, after |-> "idle"]

NoSection == [at |-> NULL, stale |-> FALSE, loop |-> FALSE]

Name == {"sd", "sg", "sgc", "rd"} \X Int \X Int \X Int \X Int

Live == DOMAIN mem

\* Is the writer in the loop of detach_destroy_domains() or of
\* build_sched_domains() that attaches domains?
Attaching == work.pc \in {"attach", "top"}

\* sched_init_smp(): init_sched_domains() is about to build the first domains.
Init ==
    /\ topology \in Topologies
    /\ mem = [o \in {def_root_domain} |->
                [refcount |-> Cardinality(CPU) + 1, span |-> CPU, online |-> CPU]]
    /\ rq = [c \in CPU |-> [sd |-> NULL, rd |-> def_root_domain, online |-> TRUE,
                            top |-> {}]]
    /\ doms_cur = {}
    /\ active = CPU
    /\ work = [Idle EXCEPT !.pc = "next", !.doms = {CPU}, !.build = {CPU}]
    /\ reader = [r \in Reader |-> NoSection]
    /\ rcu = <<>>
    /\ fault = FALSE
    /\ unbuilt = {}

-----------------------------------------------------------------------------
(***************************************************************************)
(* RCU and memory                                                          *)
(***************************************************************************)
InSection(o) ==
    LET Flavour(r) == KindOf(reader[r].at) = "rd" <=> KindOf(o) = "rd" IN
    {r \in Reader : reader[r] # NoSection /\ Flavour(r)}
        \cup {w \in {WRITER} : Attaching /\ KindOf(o) = "sd"}

\* call_rcu() and call_rcu_sched(): what they wait for.
call_rcu(objects) == rcu @@ [o \in objects |-> InSection(o)]

\* A reader leaves its section.
Unlock(r) == [o \in DOMAIN rcu |-> rcu[o] \ {r}]

Without(m, objects) == [o \in DOMAIN m \ objects |-> m[o]]

\* The ring of groups that starts at sg.
Ring(m, sg) ==
    LET ring[s \in Name] ==
            {s} \cup IF s \notin DOMAIN m \/ m[s].next = sg THEN {} ELSE ring[m[s].next]
    IN  ring[sg]

\* Mutant of Counted(): every group of the ring loses a user.
CountedByRing(m, sd) ==
    IF "OVERLAP" \in m[sd].flags THEN {m[s].sgc : s \in Ring(m, m[sd].groups)}
    ELSE Ring(m, m[sd].groups) \cap DOMAIN m

\* The groups a domain counts a user of: all of its private ones, by their
\* capacities, or the one it shares.
Counted(m, sd) ==
    IF "OVERLAP" \in m[sd].flags THEN {m[s].sgc : s \in Ring(m, m[sd].groups)}
    ELSE {m[sd].groups}

\* free_sched_domain(): what is freed with sd ...
free_sched_domain(m, sd) ==
    LET last == {o \in Counted(m, sd) : m[o].ref = 1} IN
    {sd} \cup IF "OVERLAP" \in m[sd].flags
             THEN Ring(m, m[sd].groups) \cup last
             ELSE last \cup {m[s].sgc : s \in last}

\* ... and the references that are dropped.
drop_references(m, sd) ==
    [o \in DOMAIN m |-> IF o \in Counted(m, sd) THEN [m[o] EXCEPT !.ref = @ - 1]
                       ELSE m[o]]

\* The callback for o; bad tells whether it frees what is free.
callback(o, acc) ==
    LET freed == IF KindOf(o) = "rd" THEN {o} ELSE free_sched_domain(acc.m, o)
        m == IF KindOf(o) = "rd" THEN acc.m ELSE drop_references(acc.m, o)
    IN  [m |-> Without(m, freed), bad |-> acc.bad \/ ~ (freed \subseteq DOMAIN acc.m)]

\* Grace periods are over.  The callbacks that are ready run one after the
\* other; in which order makes no difference, and if some of them were late more
\* of the memory would be there.
RcuDoBatch ==
    LET ready == {o \in DOMAIN rcu : rcu[o] = {}}
        done == FoldSet(callback, [m |-> mem, bad |-> fault], ready)
    IN
    /\ ready # {}
    /\ mem' = done.m
    /\ fault' = done.bad
    /\ rcu' = Without(rcu, ready)
    /\ UNCHANGED <<topology, rq, doms_cur, active, work, reader, unbuilt>>

\* rcu_read_lock(), and the domains of c are found in its run queue ...
ReadDomains(r, c) ==
    /\ reader[r] = NoSection /\ rq[c].sd # NULL
    /\ reader' = [reader EXCEPT ![r] =
                    [at |-> rq[c].sd, stale |-> FALSE, loop |-> Attaching]]
    /\ UNCHANGED <<topology, mem, rq, doms_cur, active, work, rcu, fault, unbuilt>>

\* ... or through a cached pointer, which is stale for the time between the
\* two halves of an attachment.
ReadCached(r, c) ==
    /\ reader[r] = NoSection
    /\ \E sd \in rq[c].top :
          reader' = [reader EXCEPT ![r] =
                        [at |-> sd, loop |-> Attaching,
                         stale |-> work.pc = "top" /\ c = Min(work.cpus)]]
    /\ UNCHANGED <<topology, mem, rq, doms_cur, active, work, rcu, fault, unbuilt>>

\* rcu_read_lock_sched(), and the root domain of c.
ReadRoot(r, c) ==
    /\ reader[r] = NoSection
    /\ reader' = [reader EXCEPT ![r] =
                    [at |-> rq[c].rd, stale |-> FALSE, loop |-> FALSE]]
    /\ UNCHANGED <<topology, mem, rq, doms_cur, active, work, rcu, fault, unbuilt>>

\* The section ends.
ReadUnlock(r) ==
    /\ reader[r] # NoSection
    /\ reader' = [reader EXCEPT ![r] = NoSection]
    /\ rcu' = Unlock(r)
    /\ UNCHANGED <<topology, mem, rq, doms_cur, active, work, fault, unbuilt>>

-----------------------------------------------------------------------------
(***************************************************************************)
(* cpu_attach_domain()                                                     *)
(***************************************************************************)
NeedGroups == {"BALANCE", "SHARE_CPUCAPACITY", "SHARE_PKG", "SHARE_POWERDOMAIN"}

OneGroup(m, sd) == m[m[sd].groups].next = m[sd].groups

sd_degenerate(m, sd) ==
    \/ Cardinality(m[sd].span) = 1
    \/ /\ m[sd].flags \cap NeedGroups # {} => OneGroup(m, sd)
       /\ "WAKE_AFFINE" \notin m[sd].flags

\* SD_SERIALIZE counts: there is more than one node wherever it is set.
sd_parent_degenerate(m, sd, parent) ==
    \/ sd_degenerate(m, parent)
    \/ /\ m[sd].span = m[parent].span
       /\ m[parent].flags \
            (IF OneGroup(m, parent) THEN NeedGroups \cup {"PREFER_SIBLING"} ELSE {})
          \subseteq m[sd].flags

\* The chain of domains from sd upwards, sd first.
Chain(m, sd) ==
    LET up[o \in Name \cup {NULL}] ==
            IF o = NULL THEN <<>>
            ELSE <<o>> \o IF o \in DOMAIN m THEN up[m[o].parent] ELSE <<>>
    IN  up[sd]

\* Takes parent out, above tmp.
bypass(m, tmp, parent) ==
    LET p == m[parent].parent
        n == [m EXCEPT ![tmp].parent = p,
                       ![tmp].flags = @ \cup (m[parent].flags \cap {"PREFER_SIBLING"})]
    IN  IF p = NULL THEN n ELSE [n EXCEPT ![p].child = tmp]

\* The domains above sd that do not contribute are taken out ...
prune_parents(m, sd) ==
    FoldLeft(LAMBDA acc, parent :
                IF sd_parent_degenerate(acc.m, acc.tmp, parent)
                THEN [acc EXCEPT !.m = bypass(acc.m, acc.tmp, parent),
                                 !.gone = @ \cup {parent}]
                ELSE [acc EXCEPT !.tmp = parent],
             [m |-> m, tmp |-> sd, gone |-> {}], Tail(Chain(m, sd)))

\* ... and so may be sd itself.  Returns the memory, what to attach and what
\* to destroy.
prune(m, sd) ==
    LET up == prune_parents(m, sd)
        p == up.m[sd].parent    \* read only if there is an sd
        n == IF p = NULL THEN up.m ELSE [up.m EXCEPT ![p].child = NULL]
    IN
    CASE sd = NULL -> [m |-> m, sd |-> NULL, gone |-> {}]
      [] sd # NULL /\ sd_degenerate(up.m, sd) ->
            [m |-> n, sd |-> p, gone |-> up.gone \cup {sd}]
      [] OTHER -> [m |-> up.m, sd |-> sd, gone |-> up.gone]

\* set_rq_online() and set_rq_offline(): what they make of the root domain, given
\* rq->online, which they set and clear.
set_rq_online(m, rd, c, online) ==
    IF online THEN m ELSE [m EXCEPT ![rd].online = @ \cup {c}]
set_rq_offline(m, rd, c, online) ==
    IF online THEN [m EXCEPT ![rd].online = @ \ {c}] ELSE m

\* rq_attach_root() sets a run queue off line that its old root domain has on
\* line; this one it leaves alone.
KeptOnline(m, c) == rq[c].online /\ c \notin m[rq[c].rd].online

\* Mutant of leave_root(): the old root domain keeps the CPU in its span.
LeaveKeepsSpan(m, old, c) ==
    [set_rq_offline(m, old, c, rq[c].online) EXCEPT ![old].refcount = @ - 1]

\* rq_attach_root(): c leaves a root domain, and enters another.
leave_root(m, old, c) ==
    [set_rq_offline(m, old, c, rq[c].online) EXCEPT ![old].span = @ \ {c},
                                                    ![old].refcount = @ - 1]

rq_attach_root(m, c, rd) ==
    LET left == leave_root(m, rq[c].rd, c)
        joined == [left EXCEPT ![rd].refcount = @ + 1, ![rd].span = @ \cup {c}]
    IN  IF c \in active THEN set_rq_online(joined, rd, c, KeptOnline(m, c)) ELSE joined

\* Mutant of FreedRoot(): every CPU that leaves has it freed.
FreedByEach(m, c) == {rq[c].rd} \ {def_root_domain}

\* Is the root domain that c leaves to be freed?
FreedRoot(m, c) == {o \in {rq[c].rd} : m[o].refcount = 0}

\* cpu_attach_domain() for the next CPU of a loop of the writer, up to the
\* publication of the new domain; the old ones are given to RCU.
AttachDomain ==
    LET c == Min(work.cpus)
        new == work.g # -1
        pruned == prune(mem, IF new THEN Object("sd", work.g, 1, c) ELSE NULL)
        rd == IF new THEN RootDomain(work.g) ELSE def_root_domain
        m == rq_attach_root(pruned.m, c, rd)
        gone == pruned.gone \cup Range(Chain(pruned.m, rq[c].sd)) \cup FreedRoot(m, c)
    IN
    /\ work.pc = "attach" /\ work.cpus # {}
    /\ mem' = m
    /\ rq' = [rq EXCEPT ![c].sd = pruned.sd, ![c].rd = rd,
                        ![c].online = c \in active \/ KeptOnline(mem, c)]
    /\ rcu' = call_rcu(gone)
    /\ work' = [work EXCEPT !.pc = "top"]
    /\ fault' = (fault \/ gone \cap DOMAIN rcu # {})
    /\ UNCHANGED <<topology, doms_cur, active, reader, unbuilt>>

\* highest_flag_domain(), lowest_flag_domain(): the domain or none.
highest_flag_domain(c, flag) ==
    LET chain == Chain(mem, rq[c].sd)
        up == {i \in DOMAIN chain : \A k \in 1 .. i : flag \in mem[chain[k]].flags}
    IN  IF up = {} THEN {} ELSE {chain[Max(up)]}
lowest_flag_domain(c, flag) ==
    LET chain == Chain(mem, rq[c].sd)
        has == {i \in DOMAIN chain : flag \in mem[chain[i]].flags}
    IN  IF has = {} THEN {} ELSE {chain[Min(has)]}

\* update_top_cache_domain(): sd_llc, sd_busy, sd_numa, sd_asym; and the loop
\* goes on.
UpdateTopCacheDomain ==
    LET c == Min(work.cpus)
        sd_llc == highest_flag_domain(c, "SHARE_PKG")
        sd_busy == {mem[sd].parent : sd \in sd_llc} \ {NULL}
    IN
    /\ work.pc = "top"
    /\ rq' = [rq EXCEPT ![c].top = sd_llc \cup sd_busy \cup lowest_flag_domain(c, "NUMA")
                                     \cup highest_flag_domain(c, "ASYM_PACKING")]
    /\ work' = [work EXCEPT !.pc = "attach", !.cpus = @ \ {c}]
    /\ UNCHANGED <<topology, mem, doms_cur, active, reader, rcu, fault, unbuilt>>

\* __free_domain_allocs() after the loop.
free_domain_allocs ==
    work.left \cup {o \in {RootDomain(work.g)} : work.g # -1 /\ mem[o].refcount = 0}

\* The loop is over: rcu_read_unlock(), and what was not needed is freed.
LoopDone ==
    /\ work.pc = "attach" /\ work.cpus = {}
    /\ mem' = Without(mem, free_domain_allocs)
    /\ rcu' = Unlock(WRITER)
    /\ work' = [work EXCEPT !.pc = "next", !.left = {}, !.g = -1]
    /\ fault' = (fault \/ ~ (free_domain_allocs \subseteq Live))
    /\ UNCHANGED <<topology, rq, doms_cur, active, reader, unbuilt>>

-----------------------------------------------------------------------------
(***************************************************************************)
(* build_sched_domains()                                                   *)
(***************************************************************************)

new_rootdomain == [refcount |-> 0, span |-> {}, online |-> {}]

\* The members of a root domain, in the order init_rootdomain() allocates them.
rootdomain_parts == <<"span", "online", "dlo_mask", "rto_mask", "cpudl", "cpupri">>

PartsBefore(part) ==
    LET i == CHOOSE k \in DOMAIN rootdomain_parts : rootdomain_parts[k] = part
    IN  {rootdomain_parts[k] : k \in 1 .. i - 1}

\* init_rootdomain() could not allocate this one: what it has allocated before, and
\* the label it jumps to does not free.  It has the labels of the member before for
\* the last two.
init_rootdomain_loses(failed) ==
    LET label == CASE failed = "cpudl" -> "rto_mask"
                   [] failed = "cpupri" -> "cpudl"
                   [] OTHER -> failed
    IN  PartsBefore(failed) \ PartsBefore(label)

\* What a build makes, before anything is attached: all objects, and those that
\* __sdt_free() will find in their slots.  (With @@, TLC tabulates it once.)
Blueprint ==
    <<>> @@
    [t \in Topologies, map \in (SUBSET CPU) \ {{}}, g \in Builds |->
        LET tree == Tree(t, map)
            built == Built(t, tree, g)
        IN  [memory |-> built @@ [o \in {RootDomain(g)} |-> new_rootdomain],
             left |-> Unclaimed(tree, built)]]

\* The groups of overlapping domains are allocated last: CPU by CPU, for each
\* its domains from below, for each a ring.
IsOverlapGroup(o) == KindOf(o) = "sg" /\ o[5] # -1
SameRing(o, p) == IsOverlapGroup(o) /\ IsOverlapGroup(p) /\ o[3] = p[3] /\ o[4] = p[4]
Before(o, p) ==
    /\ IsOverlapGroup(o)
    /\ \/ o[4] < p[4]
       \/ o[4] = p[4] /\ o[3] < p[3]
       \/ SameRing(o, p) /\ o[5] < p[5]

\* Mutant of groups_freed(): no free_sched_groups() where it fails.
ForgetsUnfinished(memory, groups, failed) ==
    {o \in groups : ~ SameRing(o, failed) /\ memory[Object("sd", o[2], o[3], o[4])].groups # NULL}

\* The failure of an allocation of a group: which of the groups so far are freed,
\* by __sdt_free() from sd->groups or, of the domain that was being given its
\* ring and has no sd->groups yet, by build_overlap_sched_groups() itself.
groups_freed(memory, groups, failed) ==
    {o \in groups : SameRing(o, failed) \/ memory[Object("sd", o[2], o[3], o[4])].groups # NULL}

FreeBuilds == Builds \ {BuildOf(o) : o \in Live}

BuildStarts(map) ==
    /\ work.pc = "next" /\ work.detach = {} /\ map \in work.build
    /\ UNCHANGED <<topology, rq, doms_cur, active, reader, rcu, fault>>

\* -ENOMEM, which partition_sched_domains() does not look at.
BuildFails(map, lost) ==
    /\ BuildStarts(map)
    /\ work' = [work EXCEPT !.build = @ \ {map}, !.lost = @ \cup lost]
    /\ unbuilt' = unbuilt \cup {map}

\* __visit_domain_allocation_hell(): __sdt_alloc(), alloc_percpu() or the kmalloc()
\* of alloc_rootdomain() fails.  What there is is in the slots and is freed.
AllocationFails(map) == BuildFails(map, {}) /\ UNCHANGED mem

\* init_rootdomain() fails; the slots are freed.
RootDomainFails(map) ==
    /\ \E failed \in Range(rootdomain_parts) :
          BuildFails(map, init_rootdomain_loses(failed))
    /\ UNCHANGED mem

\* build_overlap_sched_groups() fails; the slots and the root domain are freed.
OverlapFails(plan, map) ==
    LET memory == plan[topology, map, Min(FreeBuilds)].memory IN
    /\ BuildFails(map, {}) /\ FreeBuilds # {}
    /\ \E failed \in {o \in DOMAIN memory : IsOverlapGroup(o)} :
          LET groups == {o \in DOMAIN memory : Before(o, failed)}
              leak == groups \ groups_freed(memory, groups, failed)
          IN  mem' = mem @@ [o \in leak |-> memory[o]]

\* The domains are ready to be attached.
BuildSchedDomains(plan, map) ==
    LET g == Min(FreeBuilds)
        blueprint == plan[topology, map, g]
    IN
    /\ BuildStarts(map) /\ FreeBuilds # {}
    /\ mem' = mem @@ blueprint.memory
    /\ work' = [work EXCEPT !.build = @ \ {map}, !.pc = "attach", !.cpus = map,
                            !.g = g, !.left = blueprint.left]
    /\ UNCHANGED unbuilt

\* detach_destroy_domains().
DetachDestroyDomains(map) ==
    /\ work.pc = "next" /\ map \in work.detach
    /\ work' = [work EXCEPT !.detach = @ \ {map}, !.pc = "attach", !.cpus = map]
    /\ unbuilt' = unbuilt \ {map}
    /\ UNCHANGED <<topology, mem, rq, doms_cur, active, reader, rcu, fault>>

-----------------------------------------------------------------------------
(***************************************************************************)
(* partition_sched_domains() and its callers                               *)
(***************************************************************************)

\* Mutant of Matches(): cpumask_subset() for cpumask_equal().
MatchesPart(m, doms) == \E n \in doms : n \subseteq m

\* Is a mask in a partition?
Matches(m, doms) == \E n \in doms : m = n

\* With force (doms_new is NULL) nothing is left as it is.  The callbacks that
\* are ready run before: a bound on what piles up.
StartPartition(doms, force, after, c) ==
    /\ \A o \in DOMAIN rcu : rcu[o] # {}
    /\ work' = [Idle EXCEPT
                   !.pc = "next", !.doms = doms, !.after = after, !.cpu = c,
                   !.detach = {m \in doms_cur : force \/ ~ Matches(m, doms)},
                   !.build = {m \in doms : force \/ ~ Matches(m, doms_cur)}]

\* The CPU sets changed; the masks come from the CPUs that are active.
PartitionSchedDomains(doms) ==
    /\ work.pc = "idle"
    /\ StartPartition({m \cap active : m \in doms} \ {{}}, FALSE, "idle", NULL)
    /\ UNCHANGED <<topology, mem, rq, doms_cur, active, reader, rcu, fault, unbuilt>>

\* partition_sched_domains(1, NULL, NULL): no memory for the masks; or
\* CPU_DOWN_PREPARE was refused because the deadline bandwidth does not fit, and
\* CPU_DOWN_FAILED made the CPU active again and built all domains anew.
FallbackDomain ==
    /\ work.pc = "idle"
    /\ StartPartition({active}, TRUE, "idle", NULL)
    /\ UNCHANGED <<topology, mem, rq, doms_cur, active, reader, rcu, fault, unbuilt>>

\* "Remember the new sched domains"; a CPU on its way down or up goes on.
PartitionDone ==
    /\ work.pc = "next" /\ work.detach = {} /\ work.build = {}
    /\ doms_cur' = work.doms
    /\ work' = [Idle EXCEPT !.pc = work.after, !.cpu = work.cpu]
    /\ UNCHANGED <<topology, mem, rq, active, reader, rcu, fault, unbuilt>>

\* CPU_DOWN_PREPARE: sched_cpu_inactive(), then cpuset_cpu_inactive().
CpuDownPrepare(c) ==
    /\ work.pc = "idle" /\ c \in active \cap Unplugged
    /\ active' = active \ {c}
    /\ StartPartition({active'}, TRUE, "dying", c)
    /\ UNCHANGED <<topology, mem, rq, doms_cur, reader, rcu, fault, unbuilt>>

\* CPU_DYING in migration_call().
CpuDying ==
    LET c == work.cpu IN
    /\ work.pc = "dying"
    /\ mem' = set_rq_offline(mem, rq[c].rd, c, rq[c].online)
    /\ rq' = [rq EXCEPT ![c].online = FALSE]
    /\ fault' = (fault \/ c \notin mem[rq[c].rd].span)
    /\ work' = Idle
    /\ UNCHANGED <<topology, doms_cur, active, reader, rcu, unbuilt>>

\* CPU_DOWN_FAILED: sched_cpu_active(), then cpuset_cpu_active().
CpuDownFailed ==
    /\ work.pc = "dying"
    /\ active' = active \cup {work.cpu}
    /\ StartPartition({active'}, TRUE, "idle", NULL)
    /\ UNCHANGED <<topology, mem, rq, doms_cur, reader, rcu, fault, unbuilt>>

\* CPU_ONLINE: a CPU that came up is active.  cpuset_cpu_active() has the higher
\* priority, and builds the domains before ...
CpuOnlinePartition(c) ==
    /\ work.pc = "idle" /\ c \notin active
    /\ active' = active \cup {c}
    /\ StartPartition({active'}, TRUE, "online", c)
    /\ UNCHANGED <<topology, mem, rq, doms_cur, reader, rcu, fault, unbuilt>>

\* ... migration_call() sets the run queue on line, if it is not yet.
CpuOnline ==
    LET c == work.cpu IN
    /\ work.pc = "online"
    /\ mem' = set_rq_online(mem, rq[c].rd, c, rq[c].online)
    /\ rq' = [rq EXCEPT ![c].online = TRUE]
    /\ fault' = (fault \/ c \notin mem[rq[c].rd].span)
    /\ work' = Idle
    /\ UNCHANGED <<topology, doms_cur, active, reader, rcu, unbuilt>>

-----------------------------------------------------------------------------
Build(plan) ==
    \E map \in work.build :
        \/ AllocationFails(map) \/ RootDomainFails(map)
        \/ OverlapFails(plan, map) \/ BuildSchedDomains(plan, map)

Next ==
    \/ \E r \in Reader, c \in Watched : ReadDomains(r, c) \/ ReadCached(r, c) \/ ReadRoot(r, c)
    \/ \E r \in Reader : ReadUnlock(r)
    \/ RcuDoBatch
    \/ AttachDomain \/ UpdateTopCacheDomain \/ LoopDone
    \/ Build(Blueprint)
    \/ \E map \in work.detach : DetachDestroyDomains(map)
    \/ \E doms \in Partitions : PartitionSchedDomains(doms)
    \/ FallbackDomain \/ PartitionDone
    \/ \E c \in CPU : CpuDownPrepare(c) \/ CpuOnlinePartition(c)
    \/ CpuDying \/ CpuDownFailed \/ CpuOnline

Spec == Init /\ [][Next]_vars

-----------------------------------------------------------------------------
(***************************************************************************)
(* Properties                                                              *)
(***************************************************************************)

\* The fields have their types.
TypeOK ==
    /\ topology \in Topologies
    /\ \A o \in Live :
          CASE KindOf(o) = "sd" -> /\ mem[o].span \subseteq CPU
                                   /\ {mem[o].parent, mem[o].child, mem[o].groups}
                                        \subseteq Name \cup {NULL}
            [] KindOf(o) = "sg" -> mem[o].cpus \subseteq CPU /\ mem[o].ref \in Nat
            [] KindOf(o) = "sgc" -> mem[o].ref \in Nat
            [] KindOf(o) = "rd" -> /\ mem[o].refcount \in Nat
                                   /\ mem[o].span \cup mem[o].online \subseteq CPU
    /\ \A c \in CPU : /\ rq[c].sd \in Name \cup {NULL} /\ rq[c].rd \in Name
                      /\ rq[c].top \subseteq Name /\ rq[c].online \in BOOLEAN
    /\ doms_cur \subseteq SUBSET CPU
    /\ active \subseteq CPU
    /\ work.pc \in {"idle", "next", "attach", "top", "dying", "online"}
    /\ unbuilt \subseteq SUBSET CPU
    /\ \A r \in Reader : reader[r].at \in Name \cup {NULL}
    /\ \A o \in DOMAIN rcu : rcu[o] \subseteq Reader \cup {WRITER}

\* What can be reached from the objects in S.
Reach(S) ==
    LET Next1(o) ==
            CASE o \notin Live -> {}
              [] o \in Live /\ KindOf(o) = "sd" -> {mem[o].parent, mem[o].child, mem[o].groups}
              [] o \in Live /\ KindOf(o) = "sg" -> {mem[o].next, mem[o].sgc}
              [] OTHER -> {}
    IN  FoldLeft(LAMBDA seen, k : seen \cup (UNION {Next1(o) : o \in seen} \ {NULL}),
                 S \ {NULL}, [k \in 1 .. (Len(topology) + Cardinality(CPU) + 1) |-> k])

\* What a domain has for itself: the domains above it, and of each the group it
\* is counted a user of.
Own(sd) ==
    LET up == Range(Chain(mem, sd)) IN
    IF sd \notin Live \/ KindOf(sd) # "sd" THEN {sd} \ {NULL}
    ELSE up \cup {mem[o].groups : o \in up \cap Live}

\* No object is freed twice or given to RCU twice, none is freed that a run
\* queue points to, and the BUG_ONs of migration_call() do not fire.
NothingDangles ==
    /\ ~ fault
    /\ \A c \in CPU : ({rq[c].sd, rq[c].rd} \ {NULL}) \subseteq Live
    /\ ~ Attaching => \A c \in CPU : rq[c].top \subseteq Live

\* A reader that found a domain in a run queue can climb it, and look at the
\* groups the CPU is in, to the end of its section.  If its section began while
\* nothing was being attached, that holds for all it can reach: the whole ring
\* of groups, although they belong to domains of other CPUs.
NoUseAfterFree ==
    \A r \in {x \in Reader : ~ reader[x].stale} :
        /\ Own(reader[r].at) \subseteq Live
        /\ ~ reader[r].loop => Reach({reader[r].at}) \subseteq Live

\* When the writer and RCU are done, what is in memory is what the run queues
\* use: no domain, group or root domain has leaked, whichever allocation failed on
\* the way.  Of a root domain that could not be initialised, two members may be
\* lost, because the labels of init_rootdomain() leave them out; no others are.
NoLeak ==
    /\ work.pc = "idle" /\ rcu = <<>> =>
          Live \ {def_root_domain} =
             Reach({rq[c].sd : c \in CPU} \cup ({rq[c].rd : c \in CPU} \ {def_root_domain}))
    /\ work.lost \subseteq {"rto_mask", "cpudl"}

\* A root domain spans the CPUs that are attached to it, counts them, and has
\* those of them on line whose run queue is.
RootDomainsExact ==
    \A o \in {p \in Live : KindOf(p) = "rd"} :
        LET users == {c \in CPU : rq[c].rd = o} IN
        /\ mem[o].span = users
        /\ mem[o].online = {c \in users : rq[c].online}
        /\ mem[o].refcount = Cardinality(users) + IF o = def_root_domain THEN 1 ELSE 0

\* sched_domain_debug_one(): the errors it would report of domain sd of c.  The
\* groups of an overlapping domain may have CPUs that are not in its span when
\* nodes have more than two distances (exact is FALSE); the code reports it.
DebugErrors(m, c, sd, exact) ==
    LET groups == Ring(m, m[sd].groups)
        cpus == UNION {m[s].cpus : s \in groups}
    IN  \/ c \notin m[sd].span
        \/ c \notin m[m[sd].groups].cpus
        \/ \E s \in groups : m[s].cpus = {}
        \/ "OVERLAP" \notin m[sd].flags
              /\ \E s, t \in groups : s # t /\ m[s].cpus \cap m[t].cpus # {}
        \/ ~ (m[sd].span \subseteq cpus)
        \/ (exact \/ "OVERLAP" \notin m[sd].flags) /\ cpus # m[sd].span
        \/ m[sd].parent # NULL /\ ~ (cpus \subseteq m[m[sd].parent].span)

\* The domains of c from first upwards, in a topology t.
WellFormed(m, t, c, first) ==
    LET chain == Chain(m, first)
        below(i) == IF i = 1 THEN NULL ELSE chain[i - 1]
        exact == Cardinality({l \in DOMAIN t : t[l].overlap}) <= 2
    IN  \A i \in DOMAIN chain : LET sd == m[chain[i]] IN
            /\ ~ DebugErrors(m, c, chain[i], exact)
            /\ sd.child = below(i)
            /\ i > 1 /\ "OVERLAP" \notin sd.flags =>
                  m[below(i)].span \subseteq m[sd.groups].cpus

\* What is built for the samples, with the domains that do not contribute taken out.
SamplesWellFormed ==
    \A t \in Samples :
        LET map == DOMAIN t[1].mask
            built == <<>> @@ Built(t, Tree(t, map), 0)
        IN  \A c \in map :
                LET pruned == prune(built, Object("sd", 0, 1, c))
                IN  WellFormed(pruned.m, t, c, pruned.sd)

\* The domains that are attached pass the tests of sched_domain_debug(), each is
\* the child of its parent, however many between them were taken out, and the
\* first group of a domain, unless groups overlap, has all the CPUs that its child
\* balances.  So would those that are built for the samples.
DomainsWellFormed ==
    /\ \A c \in CPU : WellFormed(mem, topology, c, rq[c].sd)
    /\ SamplesWellFormed

\* "We should setup one sched domain for each mask": all CPUs of a mask are in
\* one root domain, which has no others, and the top domain of each spans the
\* mask; or none of them has any domain, if memory ran out when they were to be
\* built, and only then; a CPU that is in no mask has none.
PartitionInForce ==
    work.pc = "idle" =>
        /\ \A m \in doms_cur :
              \/ /\ m \in unbuilt
                 /\ \A c \in m : rq[c].sd = NULL /\ rq[c].rd = def_root_domain
              \/ \E rd \in Live \ {def_root_domain} :
                    /\ KindOf(rd) = "rd" /\ mem[rd].span = m
                    /\ \A c \in m :
                          IF Cardinality(m) = 1 THEN rq[c].sd = NULL
                          ELSE /\ rq[c].sd # NULL
                               /\ mem[Last(Chain(mem, rq[c].sd))].span = m
        /\ \A c \in CPU \ UNION doms_cur : rq[c].sd = NULL /\ rq[c].rd = def_root_domain
=============================================================================
