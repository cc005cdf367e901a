---------------------------- MODULE CaptureConfig ----------------------------
(***************************************************************************)
(* From the configuration to the maps of the capture programs: the layers  *)
(* of a setting and the validation (internal/config/config.go), the        *)
(* capture options and their own validation (options.go, bypass.go), and   *)
(* the image written into aksh_config (preflight.go), the last three in    *)
(* internal/dataplane/capture.                                             *)
(*                                                                         *)
(* A configuration is a record.  Addresses are numbers of Width bits; the  *)
(* loopback network is the upper quarter of them.  A prefix is a family    *)
(* ("4", "mapped" for the IPv6 spelling of an IPv4 one, "6"), an address   *)
(* and a length; an endpoint a family, an address and a port.  Unset is an *)
(* absent value and Garbled a text that does not parse.                    *)
(***************************************************************************)
EXTENDS Naturals, FiniteSets

CONSTANTS Width, MinBypassBits, MaxBypassCIDRs, Unset, Garbled, Bad

Addrs == 0 .. 2 ^ Width - 1
IsLoopback(a) == a \div 2 ^ (Width - 2) = 3
Is4(x) == x.fam \in {"4", "mapped"}

(* A layer of settings is a function from the names it sets; Bad is a text *)
(* that does not parse as its field's type.                                *)

\* The file: an absent key leaves the default, a key that is present replaces
\* it (a zero included), and an unknown key or a bad value fails the load.
ApplyYAML(c, yaml) ==
    IF ~(DOMAIN yaml \subseteq DOMAIN c) \/ \E f \in DOMAIN yaml : yaml[f] = Bad THEN Bad
    ELSE [f \in DOMAIN c |-> IF f \in DOMAIN yaml THEN yaml[f] ELSE c[f]]

\* The environment: a variable that is not empty replaces what the file said.
ApplyEnv(c, env) ==
    IF \E f \in DOMAIN env : env[f] = Bad THEN Bad
    ELSE [f \in DOMAIN c |-> IF f \in DOMAIN env THEN env[f] ELSE c[f]]

LoadFrom(defaults, yaml, env) ==
    LET c == ApplyYAML(defaults, yaml)
    IN  IF c = Bad THEN Bad ELSE ApplyEnv(c, env)

Bounded(x, lo, hi) == x \in lo .. hi

\* A bypass list parses as a whole or not at all; an empty one is no prefix.
ParseBypassCIDRs(list) == IF Garbled \in list THEN Garbled ELSE list

\* The capture section: a zero number is "use the default", except the uid.
ValidateCapture(c) ==
    /\ c.podPath /\ c.uid # 0 /\ ~c.ipv6
    /\ c.blockNonTCP \/ c.unsafe
    /\ c.runProbe \/ c.unsafe
    /\ c.interval = 0 \/ Bounded(c.interval, 10, 60)
    /\ c.mapEntries = 0 \/ Bounded(c.mapEntries, 1024, 65536)
    /\ c.maxAge = 0 \/ Bounded(c.maxAge, 1, 120)
    /\ c.pinLinks => c.pinRoot
    /\ c.dns # Garbled
    /\ ParseBypassCIDRs(c.bypass) # Garbled

ValidateLoopbackAddress(addr) == addr # Garbled /\ Is4(addr) /\ IsLoopback(addr.addr)

\* The whole configuration: the required texts, an https authority, a loopback
\* listener, no negative number, and the capture section.
Validate(c) ==
    /\ c.missing = {} /\ c.https
    /\ ValidateLoopbackAddress(c.listener)
    /\ c.negative = {}
    /\ ValidateCapture(c)

\* The capture defaults with the non-zero numbers laid over them; the Booleans
\* are copied, and what does not parse is left out.
CaptureOptionsFromConfig(c) ==
    LET Over(default, x) == IF x = 0 THEN default ELSE x
    IN  [podPath |-> c.podPath, uid |-> Over(1774, c.uid), ipv6 |-> c.ipv6,
         blockNonTCP |-> c.blockNonTCP, runProbe |-> c.runProbe, unsafe |-> c.unsafe,
         interval |-> Over(30, c.interval), pinLinks |-> c.pinLinks, pinRoot |-> TRUE,
         mapEntries |-> Over(16384, c.mapEntries), maxAge |-> Over(15, c.maxAge),
         listener |-> IF c.listener = Garbled THEN [fam |-> "4", addr |-> 2 ^ Width - 1, port |-> 1]
                      ELSE c.listener,
         dns |-> IF c.dns = Garbled THEN Unset ELSE c.dns,
         bypass |-> IF ParseBypassCIDRs(c.bypass) = Garbled THEN {} ELSE c.bypass]

\* The address without the bits after the prefix.
Masked(a, bits) == (a \div 2 ^ (Width - bits)) * 2 ^ (Width - bits)

\* Mutant of CanonicalBypassPrefix: the length is not bounded from below.
CanonicalBypassPrefixAnyLength(p) ==
    Is4(p) /\ p.bits \in 0 .. Width /\ Masked(p.addr, p.bits) = p.addr

\* An IPv4 prefix, in either spelling, long enough and without host bits.
CanonicalBypassPrefix(p) ==
    /\ Is4(p) /\ p.bits \in 0 .. Width
    /\ p.bits >= MinBypassBits
    /\ Masked(p.addr, p.bits) = p.addr

ValidateBypassCIDRs(list) ==
    Cardinality(list) <= MaxBypassCIDRs /\ \A p \in list : CanonicalBypassPrefix(p)

\* Options.Validate: here a zero interval is refused.
ValidateOptions(o) ==
    /\ o.podPath /\ o.uid # 0 /\ ~o.ipv6
    /\ o.blockNonTCP \/ o.unsafe
    /\ o.runProbe \/ o.unsafe
    /\ Bounded(o.interval, 10, 60)
    /\ o.pinLinks => o.pinRoot
    /\ Is4(o.listener) /\ IsLoopback(o.listener.addr)
    /\ o.dns = Unset \/ (Is4(o.dns) /\ o.dns.port # 0)
    /\ ValidateBypassCIDRs(o.bypass)
    /\ o.mapEntries = 0 \/ Bounded(o.mapEntries, 1024, 65536)
    /\ o.maxAge = 0 \/ Bounded(o.maxAge, 1, 120)

\* The value of aksh_config: Garbled where an address has no IPv4 form.  A DNS
\* address of zero switches the exception off.
BuildConfigImage(o) ==
    IF ~Is4(o.listener) \/ (o.dns # Unset /\ ~Is4(o.dns)) THEN Garbled
    ELSE [uid |-> o.uid, enabled |-> TRUE, blockNonTCP |-> o.blockNonTCP, denyIPv6 |-> ~o.ipv6,
          listener |-> [addr |-> o.listener.addr, port |-> o.listener.port],
          dns |-> IF o.dns = Unset THEN [addr |-> 0, port |-> 0]
                  ELSE [addr |-> o.dns.addr, port |-> o.dns.port]]

\* The keys of bypass_cidr4, and the longest-prefix match of a whole address.
BypassKeyFor(p) == [addr |-> p.addr, bits |-> p.bits]
Bypassed4(keys, a) == \E k \in keys : Masked(a, k.bits) = k.addr
=============================================================================
