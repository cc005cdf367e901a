------------------------------ MODULE PodCgroup ------------------------------
(***************************************************************************)
(* Finding the cgroup the capture programs attach to: the candidate        *)
(* derived from /proc/self/cgroup (cmd/aksh-proxy/cgroup.go), the bounded  *)
(* search by inode for a private cgroup namespace                          *)
(* (internal/dataplane/capture/cgroup_discover.go) and the assertions V1   *)
(* to V6 on the result (cgroup.go).  V7 and V8 only warn.                  *)
(*                                                                         *)
(* A host is a record: its cgroup directories, each a sequence of names    *)
(* (the mount is <<>>); their inodes; the cgroup the proxy runs in, and the *)
(* path its namespace shows for it (<<>> in a private namespace); the      *)
(* directories that are not cgroups; whether the mounts are cgroup2.       *)
(* "gone" is the set of directories that can no longer be read when the    *)
(* search comes to them.                                                   *)
(***************************************************************************)
EXTENDS Naturals, Sequences, FiniteSets

CONSTANTS MaxWalkDepth, MaxWalkDirs, MinPodCgroupDepth

Error(code) == [err |-> code, path |-> <<>>]
Found(path) == [err |-> "none", path |-> path]

\* filepath.Dir.
Dir(p) == SubSeq(p, 1, Len(p) - 1)

\* d lies strictly below p.
IsBelow(p, d) == Len(p) < Len(d) /\ SubSeq(d, 1, Len(p)) = p

Below(host, p) == {d \in host.dirs : IsBelow(p, d)}

\* The directories with others below: only they can hide something.
Inner(host) == {d \in host.dirs : Below(host, d) # {}}

\* A walk that would meet more directories, or deeper ones, than it may.
WalkLimit(met, p) ==
    Cardinality(met) > MaxWalkDirs \/ \E d \in met : Len(d) - Len(p) > MaxWalkDepth

\* The directories a search of the mount meets: a directory that cannot be
\* read hides the ones below it.
WalkMeets(host, gone) ==
    {d \in Below(host, <<>>) : \A a \in gone : ~IsBelow(a, d)}

\* The search by inode.  An unreadable mount is an error.  A search over the
\* limit answers nothing, unless two matches ended it before; either way the
\* start is refused.
WalkForInode(host, gone, target) ==
    LET met == WalkMeets(host, gone)
    IN  IF <<>> \in gone THEN [err |-> "E_CGROUPNS_OPAQUE", matches |-> {}]
        ELSE IF WalkLimit(met, <<>>) THEN [err |-> "E_CGROUP_WALK_LIMIT", matches |-> {}]
        ELSE [err |-> "none", matches |-> {d \in met : host.ino[d] = target}]

\* The proxy's own cgroup found on the host mount: exactly one directory may
\* have the inode of the namespace-local mount.
DiscoverByInode(host, gone) ==
    LET walk == WalkForInode(host, gone, host.ino[host.own])
    IN  IF walk.err # "none" THEN Error(walk.err)
        ELSE IF walk.matches = {} THEN Error("E_CGROUPNS_OPAQUE")
        ELSE IF Cardinality(walk.matches) > 1 THEN Error("E_AMBIGUOUS_CGROUP")
        ELSE Found(CHOOSE d \in walk.matches : TRUE)

\* Mutant of ValidateProxyPresence: V6 is left out.
ValidateProxyPresenceSkipped(host, pod) == {"none"}

\* V6: the proxy's pid is in some directory below, met within the bounds.  The
\* answers the walk may give: over the limit, its order decides which; and a
\* directory that cannot be read ends it.
ValidateProxyPresence(host, pod) ==
    (IF host.own \in Below(host, pod) THEN {"none"} ELSE {"E_AMBIGUOUS_CGROUP"})
        \cup {"E_CGROUP_SCOPE"}
        \cup (IF WalkLimit(Below(host, pod), pod) THEN {"E_CGROUP_WALK_LIMIT"} ELSE {})

\* V1 to V5: a cgroup2 directory, not the mount, strictly below it, deep
\* enough, and a real cgroup.
ValidateScope(host, pod) ==
    /\ host.host2 /\ pod \in host.dirs
    /\ pod # <<>>
    /\ Len(pod) >= MinPodCgroupDepth
    /\ pod \notin host.stray

\* The results this and the next operators may give, as sets.
ResolvePodCgroup(host, pod) ==
    IF ~ValidateScope(host, pod) THEN {Error("E_CGROUP_SCOPE")}
    ELSE {IF v6 # "none" THEN Error(v6) ELSE Found(pod) : v6 \in ValidateProxyPresence(host, pod)}

\* The cgroup v2 line of /proc/self/cgroup, as the process sees it.
UnifiedRelPath(host) == host.seen

\* The parent of the path shown, or, when that is the root of the namespace,
\* of the directory found by inode.
DiscoverPodCgroup(host, gone) ==
    IF ~host.unified \/ ~host.local2 THEN {Error("E_NO_CGROUP2")}
    ELSE LET rel  == UnifiedRelPath(host)
             cand == IF rel # <<>> THEN Found(rel) ELSE DiscoverByInode(host, gone)
         IN  IF cand.err # "none" THEN {cand} ELSE ResolvePodCgroup(host, Dir(cand.path))

\* The parent of the container's cgroup; a path of fewer than two names has
\* no pod parent.
DerivePodCgroupCandidate(host) ==
    IF ~host.unified THEN Error("no v2 hierarchy")
    ELSE LET rel == UnifiedRelPath(host)
         IN  IF Len(rel) < 2 THEN Error("no pod parent") ELSE Found(Dir(rel))

\* The resolution in run(): the candidate validated, or the search when the
\* namespace hides it; any other failure ends the start.
PodCgroup(host, gone) ==
    LET cand == DerivePodCgroupCandidate(host)
    IN  IF cand.err = "none" THEN ResolvePodCgroup(host, cand.path)
        ELSE IF cand.err = "no pod parent" THEN DiscoverPodCgroup(host, gone)
        ELSE {cand}
=============================================================================
