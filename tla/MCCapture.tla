------------------------------ MODULE MCCapture ------------------------------
(***************************************************************************)
(* The capture on 4-bit addresses: loopback is 12..15, and a bypass prefix *)
(* needs 2 bits.                                                           *)
(***************************************************************************)
EXTENDS CaptureDatapath, TLC

Ext == [fam |-> "4", addr |-> 2, port |-> 443]
Mesh == [fam |-> "4", addr |-> 5, port |-> 443]
DNS == [fam |-> "4", addr |-> 9, port |-> 53]
Self == [fam |-> "4", addr |-> 12, port |-> 151]
Ext6 == [fam |-> "6", addr |-> 2, port |-> 443]
Slots == Permutations(Socks)
MCDests == {Ext, Mesh, DNS, Self, Ext6}

\* The defaults: the required texts, the pod's path and the proxy's uid are
\* missing, and nothing is blocked or probed.
MCDefaults ==
    [missing |-> {"TenantID"}, negative |-> {}, https |-> TRUE, listener |-> Self, podPath |-> FALSE,
     uid |-> 0, ipv6 |-> FALSE, blockNonTCP |-> FALSE, runProbe |-> FALSE, unsafe |-> FALSE,
     interval |-> 0, mapEntries |-> 0, maxAge |-> 0, pinLinks |-> FALSE, pinRoot |-> FALSE,
     dns |-> Unset, bypass |-> {}]

\* What the deployment sets, in the file or in the environment.
Needed == [missing |-> {}, podPath |-> TRUE, uid |-> ProxyUID, blockNonTCP |-> TRUE, runProbe |-> TRUE]
Names == "dns" :> DNS

P(f, a, b) == [fam |-> f, addr |-> a, bits |-> b]
Lists == {{P("4", 4, 2)}, {P("mapped", 4, 3)}, {P("4", 0, 0)}, {P("4", 0, 1)}, {P("4", 5, 2)},
          {P("mapped", 4, 8)}, {P("6", 4, 3)}, {P("4", 4, 2), P("4", 2, 4)},
          {P("4", 4, 2), P("4", 2, 4), P("4", 9, 4)}, {Garbled}}

\* One more setting, and the layer it is made in.
Changes ==
    {"bypass" :> l : l \in Lists}
    \cup {"dns" :> d : d \in {Garbled, Ext6, [DNS EXCEPT !.port = 0], [DNS EXCEPT !.addr = 0],
                              [DNS EXCEPT !.fam = "mapped"]}}
    \cup {"listener" :> l : l \in {Garbled, Ext, Ext6, [Self EXCEPT !.fam = "mapped"]}}
    \cup {"interval" :> x : x \in {9, 10, 60, 61, Bad}}
    \cup {"mapEntries" :> x : x \in {1023, 1024, 65537}}
    \cup {"maxAge" :> x : x \in {120, 121}}
    \cup {"pinLinks" :> TRUE, "pinLinks" :> TRUE @@ "pinRoot" :> TRUE, "blockNonTCP" :> FALSE,
          "blockNonTCP" :> FALSE @@ "unsafe" :> TRUE, "runProbe" :> FALSE, "uid" :> 0, "uid" :> AgentUID, "ipv6" :> TRUE,
          "https" :> FALSE, "negative" :> {"Resync"}, "unknown" :> TRUE}

MCLayers ==
    {[yaml |-> <<>>, env |-> <<>>], [yaml |-> Needed, env |-> <<>>]}
    \cup {[yaml |-> Needed @@ Names, env |-> c] : c \in {d \in Changes : "unknown" \notin DOMAIN d}}
    \cup {[yaml |-> c @@ Needed, env |-> Names] : c \in Changes}
=============================================================================
