------------------------------ MODULE MCSidecar ------------------------------
(***************************************************************************)
(* Instances of Sidecar for TLC: hosts with and without a private cgroup   *)
(* namespace, the container's capabilities as the injector sets them.      *)
(***************************************************************************)
EXTENDS Sidecar, TLC

Slice == <<"kubepods">>
Pod == <<"kubepods", "pod">>
Proxy == <<"kubepods", "pod", "proxy">>
Other == <<"kubepods", "other">>
OtherApp == <<"kubepods", "other", "app">>
Dirs == {<<>>, Slice, Pod, Proxy, Other, OtherApp}

\* The inodes are distinct, but for the ambiguous host.
Inodes == (<<>> :> 1) @@ (Slice :> 2) @@ (Pod :> 3) @@ (Proxy :> 4) @@ (Other :> 5) @@ (OtherApp :> 6)

Plain == [dirs |-> Dirs, ino |-> Inodes, own |-> Proxy, seen |-> Proxy, stray |-> {},
          unified |-> TRUE, local2 |-> TRUE, host2 |-> TRUE]
Private == [Plain EXCEPT !.seen = <<>>]
Ambiguous == [Private EXCEPT !.ino[OtherApp] = 4]
Shifted == [Plain EXCEPT !.seen = OtherApp]
Shallow == [Plain EXCEPT !.own = Pod, !.seen = Pod, !.dirs = {<<>>, Slice, Pod}]
\* A pod of a class of its own slice: its container lies one deeper.
Nested == <<"kubepods", "burstable", "pod", "proxy">>
NestedPath == {SubSeq(Nested, 1, n) : n \in 0 .. 4}
NestedDirs == NestedPath \cup {<<"kubepods", "burstable", "other">>}
Deep == [Private EXCEPT !.own = Nested, !.dirs = NestedDirs,
                        !.ino = [d \in NestedDirs |-> IF d \in NestedPath THEN Len(d) ELSE 9]]
Hybrid == [Private EXCEPT !.local2 = FALSE]
Legacy == [Plain EXCEPT !.unified = FALSE]

MCHosts == {Plain, Private, Ambiguous, Shifted, Shallow, Deep, Hybrid, Legacy}
GoodHosts == {Plain}

GoodEnv == [cgo |-> FALSE, kernel |-> 5, floor |-> 5, bpffs |-> FALSE, mountBPFFS |-> TRUE,
            mountWorks |-> TRUE, caps |-> {"BPF", "NET_ADMIN"}, memlock |-> TRUE]
MCEnvs == {GoodEnv, [GoodEnv EXCEPT !.kernel = 4], [GoodEnv EXCEPT !.mountWorks = FALSE]}
GoodEnvs == {GoodEnv}

Granted == {"BPF", "NET_ADMIN", "SETGID", "SETUID", "SETPCAP"}
\* The injected container: user 1774 with the file capabilities of the image;
\* and the design's: user 0.
Injected == [uid |-> 1774, gid |-> 1774, groups |-> {1774}, permitted |-> Granted,
             effective |-> Granted, bounding |-> Granted, keepcaps |-> FALSE, nnp |-> FALSE]
MCStartCreds == {Injected, [Injected EXCEPT !.uid = 0, !.gid = 0, !.groups = {0}]}
GoodCreds == {Injected}

MCDropConfig == [uid |-> 1774, gid |-> 1774, groups |-> {}, keep |-> {"BPF"}, nnp |-> TRUE]
=============================================================================
