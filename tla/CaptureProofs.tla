---------------------------- MODULE CaptureProofs ----------------------------
(***************************************************************************)
(* Proofs about the captured connection (CaptureDatapath), for every       *)
(* configuration that loads, every number of sockets and ports and every   *)
(* order of the hooks, the map's losses and the resolver.  The inductive   *)
(* invariant is CaptureInv; each action is shown to preserve its parts     *)
(* that it can disturb.                                                    *)
(***************************************************************************)
EXTENDS CaptureDatapath, TLAPS

(***************************************************************************)
(* The configuration.                                                      *)
(***************************************************************************)

\* What passes both validations (config.Validate, Options.Validate) has an image
\* (BuildConfigImage) that captures, denies IPv6, exempts only the uid
\* and the DNS endpoint of the options, and bypass keys that are the canonical
\* prefixes of the options.
LEMMA ConfigureConfig ==
    ASSUME ConfigInv, Configure
    PROVE  ConfigInv'
<1> DEFINE c == LoadFrom(Defaults, cfg.yaml, cfg.env)
           o == CaptureOptionsFromConfig(c)
<1> HIDE DEF c
<1>2. CASE ~(c # Bad /\ Validate(c) /\ ValidateOptions(o) /\ o.maxAge > 0)
  <2>1. phase' = "refused" /\ UNCHANGED <<sock, opened, sent>>
    BY <1>2 DEF Configure, c, listening, maps
  <2>2. opened = 0 /\ sent = Unset /\ sock = [s \in Socks |-> Closed]
    BY DEF ConfigInv, Configure
  <2> QED
    BY <2>1, <2>2 DEF ConfigInv, Closed
<1>3. CASE c # Bad /\ Validate(c) /\ ValidateOptions(o) /\ o.maxAge > 0
  <2>1. /\ phase' = "live"
        /\ opts' = [uid |-> o.uid, dns |-> o.dns, bypass |-> o.bypass, blockNonTCP |-> o.blockNonTCP]
        /\ image' = BuildConfigImage(o)
        /\ keys' = {BypassKeyFor(p) : p \in o.bypass}
    BY <1>3 DEF Configure, c
  <2>4. ~o.ipv6
    BY <1>3 DEF ValidateOptions
  <2>5. ~(~Is4(o.listener) \/ (o.dns # Unset /\ ~Is4(o.dns)))
    BY <1>3 DEF ValidateOptions
  <2>6. \A p \in o.bypass : CanonicalBypassPrefix(p)
    BY <1>3 DEF ValidateOptions, ValidateBypassCIDRs
  <2> HIDE DEF o
  <2>7. image' = [uid |-> o.uid, enabled |-> TRUE, blockNonTCP |-> o.blockNonTCP, denyIPv6 |-> ~o.ipv6,
                  listener |-> [addr |-> o.listener.addr, port |-> o.listener.port],
                  dns |-> IF o.dns = Unset THEN [addr |-> 0, port |-> 0]
                          ELSE [addr |-> o.dns.addr, port |-> o.dns.port]]
    BY <2>1, <2>5 DEF BuildConfigImage
  <2>8. (image').uid = (opts').uid
    BY <2>1, <2>7
  <2>9. (image').enabled = TRUE /\ (image').blockNonTCP = (opts').blockNonTCP
    BY <2>1, <2>7
  <2>10. (image').denyIPv6 = TRUE
    BY <2>4, <2>7, Zenon
  <2>11. (image').dns.addr # 0 =>
           /\ (opts').dns # Unset
           /\ (image').dns.addr = (opts').dns.addr /\ (image').dns.port = (opts').dns.port
    <3>1. (opts').dns = o.dns
      BY <2>1
    <3>2. (image').dns = IF o.dns = Unset THEN [addr |-> 0, port |-> 0]
                         ELSE [addr |-> o.dns.addr, port |-> o.dns.port]
      BY <2>7
    <3> QED
      BY <3>1, <3>2
  <2>12. \A k \in keys' : \E b \in (opts').bypass : CanonicalBypassPrefix(b) /\ k = BypassKeyFor(b)
    BY <2>1, <2>6
  <2> QED
    BY <2>1, <2>8, <2>9, <2>10, <2>11, <2>12 DEF ConfigInv
<1> QED
  BY <1>2, <1>3

\* No other step touches the configuration, and while there is none no socket is
\* opened and nothing is sent.
LEMMA ConfigFrame ==
    ASSUME ConfigInv, UNCHANGED config,
           phase = "live" \/ UNCHANGED <<opened, sent, sock>>
    PROVE  ConfigInv'
  BY DEF ConfigInv, config, Closed

\* The sockets that exist were opened by running programs.
LEMMA OpenIsLive ==
    ASSUME ConfigInv, NEW s \in Socks, sock[s].st # "closed"
    PROVE  phase = "live"
  BY DEF ConfigInv, Closed

(***************************************************************************)
(* The records.                                                            *)
(***************************************************************************)

\* The maps may lose entries and sockets may be opened: a record is still in one
\* place (cookie_orig_dst, pair_orig_dst or given to a handler).
LEMMA RecordFrame ==
    ASSUME RecordInv, opened \in Nat, opened' \in Nat, opened' >= opened,
           cookie' \in [Socks -> {cookie[s] : s \in Socks} \cup {Unset}],
           pair' \in [Ports -> {pair[p] : p \in Ports} \cup {Unset}],
           \A s \in Socks : cookie'[s] \in {cookie[s], Unset},
           \A p \in Ports : pair'[p] \in {pair[p], Unset},
           given' = given
    PROVE  RecordInv'
<1>1. Records \subseteq Records'
  BY DEF Records
<1>2. /\ cookie' \in [Socks -> Records' \cup {Unset}] /\ pair' \in [Ports -> Records' \cup {Unset}]
  BY <1>1 DEF RecordInv
<1>3. /\ \A s, t \in Socks : cookie'[s] # Unset /\ cookie'[t] # Unset /\ cookie'[s].id = cookie'[t].id => s = t
      /\ \A p, q \in Ports : pair'[p] # Unset /\ pair'[q] # Unset /\ pair'[p].id = pair'[q].id => p = q
      /\ \A s \in Socks, p \in Ports : cookie'[s] # Unset /\ pair'[p] # Unset => cookie'[s].id # pair'[p].id
  BY DEF RecordInv
<1>4. \A g \in given :
        /\ g.rec.id \in 1 .. opened'
        /\ \A s \in Socks : cookie'[s] # Unset => cookie'[s].id # g.rec.id
        /\ \A p \in Ports : pair'[p] # Unset => pair'[p].id # g.rec.id
  BY DEF RecordInv
<1> QED
  BY <1>2, <1>3, <1>4, Zenon DEF RecordInv

\* The proofs below name what CaptureInv consists of.
LEMMA CaptureParts ==
    ASSUME CaptureInv
    PROVE  /\ ConfigInv /\ SockInv /\ RecordInv /\ OwnInv /\ DatagramInv
           /\ OnlyExemptUncaptured /\ OwnDestination /\ DatagramsOnlyToDNS
           /\ opened \in Nat
  BY DEF CaptureInv, SockInv

\* What a step leaves alone when it touches no socket.
LEMMA SockFrame ==
    ASSUME CaptureInv, UNCHANGED config, UNCHANGED <<sock, opened>>, UNCHANGED sent
    PROVE  ConfigInv' /\ SockInv' /\ DatagramInv' /\ OnlyExemptUncaptured' /\ DatagramsOnlyToDNS'
<1>1. ConfigInv'
  BY ConfigFrame, CaptureParts
<1>2. SockInv'
  BY CaptureParts DEF SockInv
<1>3. opts' = opts
  BY DEF config
<1>4. DatagramInv'
  BY <1>3, CaptureParts DEF DatagramInv
<1>5. OnlyExemptUncaptured'
  BY <1>3, CaptureParts DEF OnlyExemptUncaptured, Exempt
<1>6. DatagramsOnlyToDNS'
  BY <1>3, CaptureParts DEF DatagramsOnlyToDNS
<1> QED
  BY <1>1, <1>2, <1>4, <1>5, <1>6

\* What Resolve has answered is settled: a record that is lost later changes
\* nothing for the better.
LEMMA GivenFrame ==
    ASSUME OwnDestination, given' = given, lost \subseteq lost'
    PROVE  OwnDestination'
  BY DEF OwnDestination

\* Age, EvictPair and EvictCookie.
LEMMA LossKeeps ==
    ASSUME CaptureInv,
           Age \/ (\E p \in Ports : EvictPair(p)) \/ (\E s \in Socks : EvictCookie(s))
    PROVE  CaptureInv'
<1>1. UNCHANGED <<sock, opened, sent, backlog, handlers, given>> /\ UNCHANGED config
  BY DEF Age, EvictPair, EvictCookie, listening
<1>2. lost \subseteq lost'
  BY DEF Age, EvictPair, EvictCookie
<1>3. /\ cookie' \in [Socks -> {cookie[s] : s \in Socks} \cup {Unset}]
      /\ \A s \in Socks : cookie'[s] = cookie[s] \/ (cookie'[s] = Unset /\ sock[s].id \in lost')
  BY CaptureParts DEF Age, EvictPair, EvictCookie, RecordInv
<1>4. /\ pair' \in [Ports -> {pair[p] : p \in Ports} \cup {Unset}]
      /\ \A p \in Ports : pair'[p] = pair[p] \/ pair'[p] = Unset
  BY CaptureParts DEF Age, EvictPair, EvictCookie, RecordInv
<1>5. RecordInv'
  BY <1>1, <1>3, <1>4, RecordFrame, CaptureParts
<1>6. OwnInv'
  <2>1. Calls' = Calls
    BY <1>1 DEF Calls
  <2>2. \A s \in Socks : sock[s].st \in {"redirected", "sent"} => sock[s].port \in Ports
    BY CaptureParts DEF SockInv
  <2> QED
    BY <1>1, <1>2, <1>3, <1>4, <2>1, <2>2, CaptureParts DEF OwnInv
<1>7. OwnDestination'
  BY <1>1, <1>2, GivenFrame, CaptureParts
<1> QED
  BY <1>1, <1>5, <1>6, <1>7, SockFrame DEF CaptureInv

\* The listener accepts, and hands the connection to a handler or closes it: who
\* calls is among those who called.
LEMMA AcceptKeeps ==
    ASSUME CaptureInv, Accept \/ AcceptAndClose
    PROVE  CaptureInv'
<1> DEFINE CallSet == [id : Nat, port : Ports, redirected : BOOLEAN]
<1>1. UNCHANGED <<sock, opened, sent, cookie, pair, lost, given>> /\ UNCHANGED config
  BY DEF Accept, AcceptAndClose, maps
<1>2. /\ backlog # <<>> /\ backlog' = Tail(backlog)
      /\ handlers' \subseteq handlers \cup {Head(backlog)}
  BY DEF Accept, AcceptAndClose
<1>3. backlog \in Seq(CallSet)
  BY CaptureParts DEF OwnInv
<1>4. Calls' \subseteq Calls
  <2> HIDE DEF CallSet
  <2>1. Len(backlog) > 0 /\ Head(backlog) = backlog[1]
    BY <1>2, <1>3
  <2>2. \A i \in DOMAIN (backlog') : i + 1 \in DOMAIN backlog /\ backlog'[i] = backlog[i + 1]
    BY <1>2, <1>3
  <2>3. 1 \in DOMAIN backlog
    BY <1>3, <2>1
  <2> QED
    BY <1>2, <2>1, <2>2, <2>3 DEF Calls
<1>5. backlog' \in Seq(CallSet)
  <2> HIDE DEF CallSet
  <2> QED
    BY <1>2, <1>3
<1>6. OwnInv'
  BY <1>1, <1>4, <1>5, CaptureParts DEF OwnInv
<1>7. RecordInv'
  BY <1>1, CaptureParts DEF RecordInv, Records
<1>8. OwnDestination'
  BY <1>1, GivenFrame, CaptureParts
<1> QED
  BY <1>1, <1>6, <1>7, <1>8, SockFrame DEF CaptureInv

\* Resolve takes the record out of the map before it checks it, so no other
\* handler gets it; a connection that is still open owns its port, so the record
\* there is its own or, when its own was dropped, one that an earlier owner of the
\* port left.
LEMMA ResolveKeeps ==
    ASSUME CaptureInv, PortInv, NEW c \in handlers, Resolve(c)
    PROVE  CaptureInv'
<1>1. UNCHANGED <<sock, opened, sent, cookie, lost, backlog>> /\ UNCHANGED config
  BY DEF Resolve
<1>2. c \in Calls
  BY DEF Calls
<1>3. c.port \in Ports
  BY <1>2, CaptureParts DEF OwnInv
<1>4. pair \in [Ports -> Records \cup {Unset}]
  BY CaptureParts DEF RecordInv
<1>5. /\ pair' = [pair EXCEPT ![c.port] = Unset]
      /\ pair'[c.port] = Unset
      /\ \A p \in Ports : p # c.port => pair'[p] = pair[p]
  BY <1>3, <1>4 DEF Resolve
<1>6. Calls' \subseteq Calls
  BY <1>1, Zenon DEF Resolve, Calls
<1>7. OwnInv'
  <2>1. \A s \in Socks : sock[s].st \in {"redirected", "sent"} => sock[s].port \in Ports
    BY CaptureParts, Zenon DEF SockInv
  <2>2. \A s \in Socks : sock[s].st = "sent" /\ sock[s].id \notin lost =>
          pair'[sock[s].port] = Unset \/ pair'[sock[s].port].id = sock[s].id
    BY <1>5, <2>1, CaptureParts DEF OwnInv
  <2> QED
    BY <1>1, <1>6, <2>2, CaptureParts DEF OwnInv
<1>8. CASE given' = given
  <2>1. RecordInv'
    <3>1. pair' \in [Ports -> {pair[p] : p \in Ports} \cup {Unset}]
      BY <1>4, <1>5, Zenon
    <3>2. cookie' \in [Socks -> {cookie[s] : s \in Socks} \cup {Unset}]
      BY <1>1, CaptureParts DEF RecordInv
    <3> QED
      BY <1>1, <1>5, <1>8, <3>1, <3>2, RecordFrame, CaptureParts
  <2>2. OwnDestination'
    BY <1>1, <1>8, GivenFrame, CaptureParts
  <2> QED
    BY <1>1, <1>7, <2>1, <2>2, SockFrame DEF CaptureInv
<1>9. CASE given' # given
  <2> DEFINE rec == pair[c.port]
             g == [id |-> c.id, port |-> c.port, rec |-> rec, live |-> Live(c),
                   old |-> rec.id \in stale, redirected |-> c.redirected]
  <2>1. given' = given \cup {g} /\ rec # Unset /\ rec.id \notin stale
    BY <1>9 DEF Resolve, Admissible
  <2>2. rec \in Records /\ rec.id \in 1 .. opened
    BY <1>3, <1>4, <2>1, Zenon DEF Records
  <2>3. \A h \in given : h.rec.id # rec.id
    BY <1>3, <2>1, CaptureParts, Zenon DEF RecordInv
  <2>4. /\ g.rec = rec /\ g.id = c.id /\ g.port = c.port
        /\ (g.live <=> Live(c)) /\ (g.redirected = c.redirected)
    OBVIOUS
  <2>5. ~g.old /\ g.rec.port = g.port
    BY <1>3, <2>1, Zenon DEF PortInv
  <2>6. g.live /\ g.redirected => g.rec.id = g.id \/ (g.id \in lost /\ g.rec.id < g.id)
    <3> SUFFICES ASSUME Live(c), c.redirected
                 PROVE  rec.id = c.id \/ (c.id \in lost /\ rec.id < c.id)
      BY <2>4
    <3>1. PICK s \in Socks : sock[s].id = c.id
      BY DEF Live
    <3>2. sock[s].st = "sent" /\ sock[s].port = c.port
      BY <1>2, <3>1, CaptureParts DEF OwnInv
    <3>3. c.id \notin lost => rec.id = c.id
      BY <2>1, <3>1, <3>2, CaptureParts, Zenon DEF OwnInv
    <3>4. rec.id <= c.id
      BY <1>3, <2>1, <3>1, <3>2, Zenon DEF PortInv
    <3>5. c.id \in 1 .. opened
      BY <1>2, CaptureParts, Zenon DEF OwnInv
    <3> HIDE DEF rec
    <3> QED
      BY <2>2, <3>3, <3>4, <3>5, CaptureParts
  <2> HIDE DEF g, rec
  <2>7. OwnDestination'
    <3>1. lost' = lost
      BY <1>1
    <3>2. \A a, b \in given' : a.rec.id = b.rec.id => a = b
      BY <2>1, <2>3, <2>4, CaptureParts DEF OwnDestination
    <3>3. \A a \in given' :
            /\ ~a.old /\ a.rec.port = a.port
            /\ a.live /\ a.redirected => a.rec.id = a.id \/ (a.id \in lost /\ a.rec.id < a.id)
      BY <2>1, <2>5, <2>6, CaptureParts, Zenon DEF OwnDestination
    <3> QED
      BY <3>1, <3>2, <3>3, Zenon DEF OwnDestination
  <2>8. RecordInv'
    <3>1. Records' = Records
      BY <1>1 DEF Records
    <3>2. pair' \in [Ports -> Records \cup {Unset}]
      BY <1>4, <1>5, Zenon
    <3>3. \A s \in Socks : cookie[s] # Unset => cookie[s].id # rec.id
      BY <1>3, <2>1, CaptureParts, Zenon DEF RecordInv, rec
    <3>4. \A p \in Ports : pair'[p] # Unset => pair'[p] = pair[p] /\ pair[p].id # rec.id
      BY <1>3, <1>5, <2>1, CaptureParts, Zenon DEF RecordInv, rec
    <3>5. /\ \A p, q \in Ports : pair'[p] # Unset /\ pair'[q] # Unset /\ pair'[p].id = pair'[q].id => p = q
          /\ \A s \in Socks, p \in Ports : cookie[s] # Unset /\ pair'[p] # Unset => cookie[s].id # pair'[p].id
      BY <3>4, CaptureParts DEF RecordInv
    <3>6. \A a \in given' :
            /\ a.rec.id \in 1 .. opened
            /\ \A s \in Socks : cookie[s] # Unset => cookie[s].id # a.rec.id
            /\ \A p \in Ports : pair'[p] # Unset => pair'[p].id # a.rec.id
      <4> SUFFICES ASSUME NEW a \in given'
                   PROVE  /\ a.rec.id \in 1 .. opened
                          /\ \A s \in Socks : cookie[s] # Unset => cookie[s].id # a.rec.id
                          /\ \A p \in Ports : pair'[p] # Unset => pair'[p].id # a.rec.id
        OBVIOUS
      <4>1. CASE a = g
        BY <2>2, <2>4, <3>3, <3>4, <4>1
      <4>2. CASE a \in given
        BY <3>4, <4>2, CaptureParts DEF RecordInv
      <4> QED
        BY <2>1, <4>1, <4>2
    <3>7. cookie' = cookie /\ opened' = opened
      BY <1>1
    <3>8. cookie' \in [Socks -> Records' \cup {Unset}] /\ pair' \in [Ports -> Records' \cup {Unset}]
      BY <3>1, <3>2, <3>7, CaptureParts DEF RecordInv
    <3>9. \A s, t \in Socks : cookie'[s] # Unset /\ cookie'[t] # Unset /\ cookie'[s].id = cookie'[t].id => s = t
      BY <3>7, CaptureParts DEF RecordInv
    <3>10. \A a \in given' :
            /\ a.rec.id \in 1 .. opened'
            /\ \A s \in Socks : cookie'[s] # Unset => cookie'[s].id # a.rec.id
            /\ \A p \in Ports : pair'[p] # Unset => pair'[p].id # a.rec.id
      BY <3>6, <3>7
    <3>11. \A s \in Socks, p \in Ports : cookie'[s] # Unset /\ pair'[p] # Unset => cookie'[s].id # pair'[p].id
      BY <3>5, <3>7
    <3> QED
      BY <3>5, <3>8, <3>9, <3>10, <3>11, Zenon DEF RecordInv
  <2> QED
    BY <1>1, <1>7, <2>7, <2>8, SockFrame, Zenon DEF CaptureInv
<1> QED
  BY <1>8, <1>9

(***************************************************************************)
(* The sockets.                                                            *)
(***************************************************************************)

\* A step of a socket that touches neither map nor listener leaves the records
\* where they are.
LEMMA SocketFrame ==
    ASSUME CaptureInv, opened' \in Nat, opened' >= opened, UNCHANGED maps, UNCHANGED listening
    PROVE  RecordInv' /\ OwnDestination' /\ Calls' = Calls
<1>1. UNCHANGED <<cookie, pair, lost, given, backlog, handlers>>
  BY DEF maps, listening
<1>2. /\ cookie' \in [Socks -> {cookie[s] : s \in Socks} \cup {Unset}]
      /\ pair' \in [Ports -> {pair[p] : p \in Ports} \cup {Unset}]
  BY <1>1, CaptureParts DEF RecordInv
<1>3. RecordInv'
  BY <1>1, <1>2, RecordFrame, CaptureParts
<1>4. OwnDestination'
  BY <1>1, GivenFrame, CaptureParts, Zenon
<1> QED
  BY <1>1, <1>3, <1>4 DEF Calls

\* Sockets that are closed, or are not TCP, own no record.
LEMMA OwnFrame ==
    ASSUME CaptureInv, opened' \in Nat, opened' >= opened, UNCHANGED maps, UNCHANGED listening,
           \A t \in Socks :
               \/ sock'[t] = sock[t]
               \/ /\ sock'[t].st \notin {"redirected", "direct", "sent"}
                  /\ \A c \in Calls : ~(sock'[t].id = c.id /\ c.redirected)
    PROVE  OwnInv'
<1>1. UNCHANGED <<cookie, pair, lost, backlog>> /\ Calls' = Calls
  BY SocketFrame DEF maps, listening
<1>2. \A t \in Socks : sock'[t].st \in {"redirected", "direct", "sent"} => sock'[t] = sock[t]
  BY Zenon
<1>3. /\ \A t \in Socks : sock'[t].st \in {"redirected", "direct"} /\ cookie[t] # Unset =>
            cookie[t].id = sock'[t].id
      /\ \A t \in Socks : sock'[t].st = "redirected" => cookie[t] # Unset \/ sock'[t].id \in lost
      /\ \A t \in Socks : sock'[t].st = "sent" /\ sock'[t].id \notin lost =>
            pair[sock'[t].port] = Unset \/ pair[sock'[t].port].id = sock'[t].id
  BY <1>2, CaptureParts, Zenon DEF OwnInv
<1>4. \A c \in Calls :
        /\ c.id \in 1 .. opened' /\ c.port \in Ports
        /\ \A t \in Socks : sock'[t].id = c.id /\ c.redirected => sock'[t].st = "sent" /\ sock'[t].port = c.port
  <2> SUFFICES ASSUME NEW c \in Calls
               PROVE  /\ c.id \in 1 .. opened' /\ c.port \in Ports
                      /\ \A t \in Socks : sock'[t].id = c.id /\ c.redirected =>
                            sock'[t].st = "sent" /\ sock'[t].port = c.port
    OBVIOUS
  <2>1. c.id \in 1 .. opened' /\ c.port \in Ports
    BY CaptureParts DEF OwnInv
  <2>2. \A t \in Socks : sock'[t].id = c.id /\ c.redirected => sock'[t] = sock[t]
    OBVIOUS
  <2> QED
    BY <2>1, <2>2, CaptureParts DEF OwnInv
<1> QED
  BY <1>1, <1>3, <1>4, CaptureParts DEF OwnInv

\* The DNS endpoint the programs know (aksh_config) is the one of the options.
LEMMA DNSConfigured ==
    ASSUME ConfigInv, phase = "live", NEW to, IsDNS(to)
    PROVE  opts.dns # Unset /\ to.addr = opts.dns.addr /\ to.port = opts.dns.port
  BY DEF ConfigInv, IsDNS

\* sendmsg4, sendmsg6 and the sockets that were connected before: a packet of the
\* agent has a destination the programs allow.
LEMMA SendKeeps ==
    ASSUME CaptureInv, NEW s \in Socks, NEW to \in Dests, Send(s, to)
    PROVE  CaptureInv'
<1>1. UNCHANGED config /\ UNCHANGED <<sock, opened>> /\ UNCHANGED maps /\ UNCHANGED listening
  BY DEF Send
<1>2. phase = "live"
  BY OpenIsLive, CaptureParts DEF Send
<1>3. ConfigInv'
  BY <1>1, <1>2, ConfigFrame, CaptureParts
<1>4. SockInv'
  BY <1>1, CaptureParts DEF SockInv
<1>5. opts' = opts
  BY <1>1, Zenon DEF config
<1>6. DatagramInv' /\ OnlyExemptUncaptured'
  BY <1>1, <1>5, CaptureParts DEF DatagramInv, OnlyExemptUncaptured, Exempt
<1>7. RecordInv' /\ OwnDestination' /\ Calls' = Calls
  BY <1>1, SocketFrame, CaptureParts
<1>8. OwnInv'
  BY <1>1, <1>7, CaptureParts, Zenon DEF OwnInv, maps, listening
<1>9. DatagramsOnlyToDNS'
  <2> SUFFICES ASSUME (sent').uid # opts.uid
               PROVE  /\ opts.blockNonTCP => /\ opts.dns # Unset
                                             /\ (sent').to.addr = opts.dns.addr
                                             /\ (sent').to.port = opts.dns.port
                      /\ (sent').kind = "udp" => (sent').to.fam = "4"
    BY <1>5, Zenon DEF DatagramsOnlyToDNS
  <2>1. (sent').uid = sock[s].uid /\ (sent').kind = sock[s].st /\ (sent').to = to
    BY DEF Send
  <2>2. sock[s].uid # opts.uid
    BY <2>1
  <2>3. image.uid = opts.uid /\ image.denyIPv6 = TRUE /\ image.blockNonTCP = opts.blockNonTCP
    BY <1>2, CaptureParts, Zenon DEF ConfigInv
  <2>4. to # Unset /\ (to.fam # "6" => to.fam = "4")
    BY DatapathAssumption, Zenon
  <2>5. CASE sock[s].st = "other"
    <3>1. ~opts.blockNonTCP
      BY <2>2, <2>5, CaptureParts, Zenon DEF DatagramInv
    <3> QED
      BY <2>1, <2>5, <3>1, Zenon
  <2>6. CASE sock[s].st = "udp" /\ sock[s].to = to
    BY <2>1, <2>2, <2>4, <2>6, CaptureParts DEF DatagramInv
  <2>7. CASE sock[s].st = "udp" /\ to.fam = "6" /\ SendMsg6(sock[s].uid)
    BY <2>2, <2>3, <2>7 DEF SendMsg6
  <2>8. CASE sock[s].st = "udp" /\ to.fam # "6" /\ SendMsg4(sock[s].uid, to)
    <3>1. opts.blockNonTCP => IsDNS(to)
      BY <2>2, <2>3, <2>8 DEF SendMsg4
    <3> QED
      BY <1>2, <2>1, <2>4, <2>8, <3>1, DNSConfigured, CaptureParts
  <2> QED
    BY <2>5, <2>6, <2>7, <2>8 DEF Send
<1> QED
  BY <1>3, <1>4, <1>6, <1>7, <1>8, <1>9 DEF CaptureInv

\* The application closes a socket: its connection, if it was established, calls
\* from a port that is nobody's until it is used again.
LEMMA CloseKeeps ==
    ASSUME CaptureInv, NEW s \in Socks, Close(s)
    PROVE  CaptureInv'
<1>1. UNCHANGED config /\ UNCHANGED opened /\ UNCHANGED maps /\ UNCHANGED listening /\ UNCHANGED sent
  BY DEF Close
<1>2. sock'[s] = Closed /\ \A t \in Socks : t # s => sock'[t] = sock[t]
  BY CaptureParts DEF Close, SockInv
<1>3. /\ Closed.st = "closed" /\ Closed.id = 0 /\ Closed.port = Unset /\ Closed.uid = 0
      /\ Closed \in [st : {"closed", "redirected", "direct", "sent", "called", "udp", "other"},
                     id : 0 .. opened, uid : {0, AgentUID, ProxyUID},
                     to : Dests \cup {Unset}, port : Ports \cup {Unset}]
  BY CaptureParts DEF Closed
<1> HIDE DEF Closed
<1>4. phase = "live"
  BY OpenIsLive, CaptureParts DEF Close
<1>5. ConfigInv'
  BY <1>1, <1>4, ConfigFrame, CaptureParts, Zenon
<1>6. SockInv'
  BY <1>1, <1>2, <1>3, CaptureParts DEF SockInv, Close
<1>7. opts' = opts
  BY <1>1 DEF config
<1>8. DatagramInv' /\ OnlyExemptUncaptured' /\ DatagramsOnlyToDNS'
  <2>1. DatagramInv'
    BY <1>1, <1>2, <1>3, <1>7, CaptureParts DEF DatagramInv
  <2>2. OnlyExemptUncaptured'
    BY <1>2, <1>3, <1>7, CaptureParts, Zenon DEF OnlyExemptUncaptured, Exempt
  <2>3. DatagramsOnlyToDNS'
    BY <1>1, <1>7, CaptureParts DEF DatagramsOnlyToDNS
  <2> QED
    BY <2>1, <2>2, <2>3, Zenon
<1>9. RecordInv' /\ OwnDestination' /\ Calls' = Calls
  BY <1>1, SocketFrame, CaptureParts
<1>10. OwnInv'
  <2>1. \A c \in Calls : c.id # 0
    BY CaptureParts DEF OwnInv
  <2> QED
    BY <1>1, <1>2, <1>3, <2>1, OwnFrame, CaptureParts
<1> QED
  BY <1>5, <1>6, <1>8, <1>9, <1>10 DEF CaptureInv

\* sock_create lets the agent make no raw socket while non-TCP is blocked.
LEMMA CreateKeeps ==
    ASSUME CaptureInv, NEW s \in Socks, NEW uid \in {AgentUID, ProxyUID},
           NEW kind \in {"udp", "other"}, Create(s, uid, kind)
    PROVE  CaptureInv'
<1> DEFINE new == [Closed EXCEPT !.st = kind, !.id = opened + 1, !.uid = uid]
           SockSet == [st : {"closed", "redirected", "direct", "sent", "called", "udp", "other"},
                       id : 0 .. opened', uid : {0, AgentUID, ProxyUID},
                       to : Dests \cup {Unset}, port : Ports \cup {Unset}]
<1>1. UNCHANGED config /\ opened' = opened + 1 /\ UNCHANGED maps /\ UNCHANGED listening /\ UNCHANGED sent
  BY DEF Create
<1>2. phase = "live" /\ opened \in Nat /\ opened' \in Nat /\ opened' >= opened
  BY <1>1, CaptureParts DEF Create, Slot
<1>3. sock'[s] = new /\ \A t \in Socks : t # s => sock'[t] = sock[t]
  BY CaptureParts DEF Create, SockInv
<1>4. new.st = kind /\ new.id = opened + 1 /\ new.uid = uid /\ new.to = Unset /\ new.port = Unset
  BY DEF Closed
<1>5. new \in SockSet
  <2>1. Closed \in SockSet
    BY <1>2 DEF Closed
  <2>2. opened + 1 \in 0 .. opened'
    BY <1>1, <1>2
  <2> QED
    BY <2>1, <2>2, Zenon
<1> HIDE DEF new
<1>6. ConfigInv'
  BY <1>1, <1>2, ConfigFrame, CaptureParts, Zenon
<1>7. SockInv'
  <2>1. sock' \in [Socks -> SockSet]
    BY <1>1, <1>2, <1>3, <1>5, CaptureParts DEF Create, SockInv, new
  <2>2. \A t \in Socks : sock[t].id \in 0 .. opened
    BY CaptureParts, Zenon DEF SockInv
  <2> HIDE DEF SockSet
  <2>3. \A t \in Socks : sock'[t].st = "closed" <=> sock'[t].id = 0
    BY <1>2, <1>3, <1>4, CaptureParts DEF SockInv
  <2>4. \A t, u \in Socks : sock'[t].id = sock'[u].id /\ sock'[t].id # 0 => t = u
    BY <1>2, <1>3, <1>4, <2>2, CaptureParts DEF SockInv
  <2>5. /\ \A t \in Socks : sock'[t].st \in {"redirected", "sent"} => sock'[t].port \in Ports
        /\ \A t, u \in Socks : sock'[t].port = sock'[u].port /\ sock'[t].port # Unset => t = u
    BY <1>3, <1>4, CaptureParts DEF SockInv
  <2> QED
    BY <1>2, <2>1, <2>3, <2>4, <2>5 DEF SockInv, SockSet
<1>8. opts' = opts
  BY <1>1, Zenon DEF config
<1>9. DatagramInv'
  <2>1. kind = "other" /\ uid # opts.uid => ~opts.blockNonTCP
    <3>1. image.uid = opts.uid /\ image.blockNonTCP = opts.blockNonTCP
      BY <1>2, CaptureParts, Zenon DEF ConfigInv
    <3> QED
      BY <3>1, Zenon DEF Create, SockCreate
  <2> QED
    BY <1>3, <1>4, <1>8, <2>1, CaptureParts DEF DatagramInv
<1>10. OnlyExemptUncaptured'
  BY <1>3, <1>4, <1>8, CaptureParts, Zenon DEF OnlyExemptUncaptured, Exempt
<1>11. DatagramsOnlyToDNS'
  BY <1>1, <1>8, CaptureParts DEF DatagramsOnlyToDNS
<1>12. RecordInv' /\ OwnDestination'
  BY <1>1, <1>2, SocketFrame, Zenon
<1>13. OwnInv'
  <2>1. \A c \in Calls : c.id # opened + 1
    BY <1>2, CaptureParts DEF OwnInv
  <2> QED
    BY <1>1, <1>2, <1>3, <1>4, <2>1, OwnFrame, Zenon
<1> QED
  BY <1>6, <1>7, <1>9, <1>10, <1>11, <1>12, <1>13 DEF CaptureInv

\* connect4 and connect6 answer a datagram socket as sendmsg4 and sendmsg6 would:
\* a connected one, which sendmsg does not see again, is no way around them.
LEMMA UDPConnectKeeps ==
    ASSUME CaptureInv, NEW s \in Socks, NEW to \in Dests, UDPConnect(s, to)
    PROVE  CaptureInv'
<1>1. UNCHANGED config /\ UNCHANGED opened /\ UNCHANGED maps /\ UNCHANGED listening /\ UNCHANGED sent
  BY DEF UDPConnect
<1>2. phase = "live" /\ opened \in Nat /\ sock[s].st = "udp"
  BY OpenIsLive, CaptureParts DEF UDPConnect
<1>3. /\ sock'[s] = [sock[s] EXCEPT !.to = to] /\ \A t \in Socks : t # s => sock'[t] = sock[t]
      /\ DOMAIN (sock') = Socks
  BY CaptureParts DEF UDPConnect, SockInv
<1>4. /\ sock'[s].st = "udp" /\ sock'[s].id = sock[s].id /\ sock'[s].uid = sock[s].uid
      /\ sock'[s].to = to /\ sock'[s].port = sock[s].port
  BY <1>2, <1>3, CaptureParts DEF SockInv
<1>5. ConfigInv'
  BY <1>1, <1>2, ConfigFrame, CaptureParts, Zenon
<1>6. SockInv'
  <2>1. sock' \in [Socks -> [st : {"closed", "redirected", "direct", "sent", "called", "udp", "other"},
                             id : 0 .. opened, uid : {0, AgentUID, ProxyUID},
                             to : Dests \cup {Unset}, port : Ports \cup {Unset}]]
    BY CaptureParts DEF UDPConnect, SockInv
  <2>2. \A t \in Socks : sock'[t].st = sock[t].st /\ sock'[t].id = sock[t].id /\ sock'[t].port = sock[t].port
    BY <1>2, <1>3, <1>4, Zenon
  <2> QED
    BY <1>1, <2>1, <2>2, CaptureParts DEF SockInv
<1>7. opts' = opts
  BY <1>1, Zenon DEF config
<1>8. DatagramInv'
  <2>1. sock[s].uid # opts.uid =>
          to.fam = "4" /\ (opts.blockNonTCP => /\ opts.dns # Unset
                                               /\ to.addr = opts.dns.addr /\ to.port = opts.dns.port)
    <3>1. image.uid = opts.uid /\ image.denyIPv6 = TRUE /\ image.blockNonTCP = opts.blockNonTCP
      BY <1>2, CaptureParts, Zenon DEF ConfigInv
    <3>2. to.fam # "6" => to.fam = "4"
      BY DatapathAssumption
    <3>3. sock[s].uid # opts.uid => to.fam # "6" /\ (opts.blockNonTCP => IsDNS(to))
      BY <3>1 DEF UDPConnect, Connect6, Connect4UDP
    <3> QED
      BY <1>2, <3>2, <3>3, DNSConfigured, CaptureParts
  <2>2. \A t \in Socks : sock'[t].st # "udp" \/ t # s => sock'[t] = sock[t]
    BY <1>3, <1>4, Zenon
  <2>3. sock'[s].st = "udp" /\ sock'[s].uid = sock[s].uid /\ sock'[s].to = to
    BY <1>4
  <2> QED
    BY <1>7, <2>1, <2>2, <2>3, CaptureParts DEF DatagramInv
<1>9. OnlyExemptUncaptured'
  <2>1. \A t \in Socks : sock'[t].st = "direct" => sock'[t] = sock[t]
    BY <1>3, <1>4, Zenon
  <2> QED
    BY <1>7, <2>1, CaptureParts, Zenon DEF OnlyExemptUncaptured, Exempt
<1>10. DatagramsOnlyToDNS'
  BY <1>1, <1>7, CaptureParts DEF DatagramsOnlyToDNS
<1>11. RecordInv' /\ OwnDestination'
  BY <1>1, <1>2, SocketFrame
<1>12. OwnInv'
  <2>1. \A c \in Calls : ~(sock'[s].id = c.id /\ c.redirected)
    BY <1>2, <1>4, CaptureParts DEF OwnInv
  <2>2. \A t \in Socks :
           \/ sock'[t] = sock[t]
           \/ /\ sock'[t].st \notin {"redirected", "direct", "sent"}
              /\ \A c \in Calls : ~(sock'[t].id = c.id /\ c.redirected)
    BY <1>3, <1>4, <2>1, Zenon
  <2>3. opened' \in Nat /\ opened' >= opened
    BY <1>1, <1>2
  <2> QED
    BY <1>1, <2>2, <2>3, OwnFrame
<1> QED
  BY <1>5, <1>6, <1>8, <1>9, <1>10, <1>11, <1>12 DEF CaptureInv

\* sock_ops at ACTIVE_ESTABLISHED: the record moves from the cookie to the port,
\* over whatever an earlier user of the port left there, or it is lost; the port
\* is of no other open socket.
LEMMA EstablishedKeeps ==
    ASSUME CaptureInv, NEW s \in Socks, Established(s)
    PROVE  CaptureInv'
<1> DEFINE p == sock[s].port
           call == [id |-> sock[s].id, port |-> p, redirected |-> sock[s].st = "redirected"]
           CallSet == [id : Nat, port : Ports, redirected : BOOLEAN]
<1>1. /\ UNCHANGED config /\ UNCHANGED <<opened, sent, handlers, given>>
      /\ backlog' = Append(backlog, call)
      /\ sock[s].st \in {"redirected", "direct"} /\ p # Unset
      /\ cookie' = [cookie EXCEPT ![s] = Unset]
      /\ lost \subseteq lost'
  BY Zenon DEF Established
<1>2. phase = "live" /\ opened \in Nat
  BY <1>1, OpenIsLive, CaptureParts, Zenon
<1>3. p \in Ports /\ sock[s].id \in 1 .. opened
  BY <1>1, CaptureParts DEF SockInv
<1>4. sock'[s] = [sock[s] EXCEPT !.st = IF @ = "direct" THEN "called" ELSE "sent"]
      /\ \A t \in Socks : t # s => sock'[t] = sock[t]
  BY CaptureParts DEF Established, SockInv
<1>5. /\ sock'[s].st = (IF sock[s].st = "direct" THEN "called" ELSE "sent")
      /\ sock'[s].id = sock[s].id /\ sock'[s].uid = sock[s].uid
      /\ sock'[s].to = sock[s].to /\ sock'[s].port = p
  BY <1>4, CaptureParts DEF SockInv
<1>6. cookie'[s] = Unset /\ \A t \in Socks : t # s => cookie'[t] = cookie[t]
  BY <1>1, CaptureParts DEF RecordInv
<1>7. \/ /\ cookie[s] # Unset
         /\ pair' = [pair EXCEPT ![p] = cookie[s]] /\ lost' = lost
      \/ /\ cookie[s] # Unset /\ pair' = pair /\ sock[s].id \in lost'
      \/ cookie[s] = Unset /\ pair' = pair /\ lost' = lost
  BY Zenon DEF Established
<1>8. call.id = sock[s].id /\ call.port = p /\ (call.redirected <=> sock[s].st = "redirected")
      /\ call \in CallSet
  <2>1. call.id = sock[s].id /\ call.port = p
    OBVIOUS
  <2>2. call.redirected <=> sock[s].st = "redirected"
    BY Zenon
  <2>3. (sock[s].st = "redirected") \in BOOLEAN /\ sock[s].id \in Nat
    BY <1>2, <1>3
  <2>4. call \in CallSet
    BY <1>3, <2>3, Zenon
  <2> QED
    BY <2>1, <2>2, <2>4, Zenon
<1> HIDE DEF p, call
<1>9. ConfigInv'
  BY <1>1, <1>2, ConfigFrame, CaptureParts, Zenon
<1>10. SockInv'
  <2>1. sock' \in [Socks -> [st : {"closed", "redirected", "direct", "sent", "called", "udp", "other"},
                             id : 0 .. opened, uid : {0, AgentUID, ProxyUID},
                             to : Dests \cup {Unset}, port : Ports \cup {Unset}]]
    <3> DEFINE SockSet == [st : {"closed", "redirected", "direct", "sent", "called", "udp", "other"},
                           id : 0 .. opened, uid : {0, AgentUID, ProxyUID},
                           to : Dests \cup {Unset}, port : Ports \cup {Unset}]
    <3>1. sock \in [Socks -> SockSet]
      BY CaptureParts DEF SockInv
    <3>2. PICK w \in {"called", "sent"} : sock'[s] = [sock[s] EXCEPT !.st = w]
      BY <1>4
    <3>3. sock'[s] \in SockSet
      BY <3>1, <3>2
    <3>4. sock' = [sock EXCEPT ![s] = sock'[s]]
      BY <3>1 DEF Established
    <3> HIDE DEF SockSet
    <3>5. sock' \in [Socks -> SockSet]
      BY <3>1, <3>3, <3>4
    <3> QED
      BY <3>5 DEF SockSet
  <2>2. \A t \in Socks : sock'[t].id = sock[t].id /\ sock'[t].port = sock[t].port
    BY <1>4, <1>5, Zenon DEF p
  <2>3. \A t \in Socks : sock'[t].st = "closed" <=> sock[t].st = "closed"
    BY <1>1, <1>4, <1>5, Zenon
  <2>4. \A t \in Socks : sock'[t].st \in {"redirected", "sent"} => sock'[t].port \in Ports
    BY <1>3, <1>4, <1>5, CaptureParts DEF SockInv
  <2> QED
    BY <1>1, <2>1, <2>2, <2>3, <2>4, CaptureParts DEF SockInv
<1>11. opts' = opts
  BY <1>1, Zenon DEF config
<1>12. DatagramInv'
  <2>1. \A t \in Socks : sock'[t].st \in {"udp", "other"} => sock'[t] = sock[t]
    BY <1>4, <1>5, Zenon
  <2> QED
    BY <1>11, <2>1, CaptureParts DEF DatagramInv
<1>13. OnlyExemptUncaptured'
  <2>1. \A t \in Socks : sock'[t].st = "direct" => sock'[t] = sock[t]
    BY <1>4, <1>5, Zenon
  <2> QED
    BY <1>11, <2>1, CaptureParts DEF OnlyExemptUncaptured, Exempt
<1>14. DatagramsOnlyToDNS'
  BY <1>1, <1>11, CaptureParts DEF DatagramsOnlyToDNS
<1>15. OwnDestination'
  BY <1>1, GivenFrame, CaptureParts
<1>16. RecordInv'
  <2>1. cookie' \in [Socks -> {cookie[t] : t \in Socks} \cup {Unset}]
    BY <1>1, CaptureParts DEF RecordInv
  <2>2. CASE pair' = pair
    <3>1. pair' \in [Ports -> {pair[q] : q \in Ports} \cup {Unset}]
      BY <2>2, CaptureParts DEF RecordInv
    <3> QED
      BY <1>1, <1>2, <1>6, <2>1, <2>2, <3>1, RecordFrame, CaptureParts
  <2>3. CASE cookie[s] # Unset /\ pair' = [pair EXCEPT ![p] = cookie[s]]
    <3>1. pair'[p] = cookie[s] /\ \A q \in Ports : q # p => pair'[q] = pair[q]
      BY <1>3, <2>3, CaptureParts, Zenon DEF RecordInv
    <3>2. Records' = Records
      BY <1>1, Zenon DEF Records
    <3>3. cookie' \in [Socks -> Records' \cup {Unset}] /\ pair' \in [Ports -> Records' \cup {Unset}]
      BY <1>1, <1>3, <2>3, <3>2, CaptureParts, Zenon DEF RecordInv
    <3>4. \A t, u \in Socks : cookie'[t] # Unset /\ cookie'[u] # Unset /\ cookie'[t].id = cookie'[u].id => t = u
      BY <1>6, CaptureParts DEF RecordInv
    <3>5. \A q, r \in Ports : pair'[q] # Unset /\ pair'[r] # Unset /\ pair'[q].id = pair'[r].id => q = r
      BY <2>3, <3>1, CaptureParts, Zenon DEF RecordInv
    <3>6. \A t \in Socks, q \in Ports : cookie'[t] # Unset /\ pair'[q] # Unset => cookie'[t].id # pair'[q].id
      BY <1>6, <2>3, <3>1, CaptureParts DEF RecordInv
    <3>7. \A g \in given' :
            /\ g.rec.id \in 1 .. opened'
            /\ \A t \in Socks : cookie'[t] # Unset => cookie'[t].id # g.rec.id
            /\ \A q \in Ports : pair'[q] # Unset => pair'[q].id # g.rec.id
      BY <1>1, <1>6, <2>3, <3>1, CaptureParts, Zenon DEF RecordInv
    <3> QED
      BY <3>3, <3>4, <3>5, <3>6, <3>7, Zenon DEF RecordInv
  <2> QED
    BY <1>7, <2>2, <2>3, Zenon
<1>17. OwnInv'
  <2>1. backlog' \in Seq(CallSet)
    <3>1. backlog \in Seq(CallSet)
      BY CaptureParts, Zenon DEF OwnInv
    <3> HIDE DEF CallSet
    <3> QED
      BY <1>1, <1>8, <3>1
  <2>2. Calls' \subseteq Calls \cup {call}
    <3>1. backlog \in Seq(CallSet)
      BY CaptureParts DEF OwnInv
    <3> HIDE DEF CallSet
    <3>2. \A i \in DOMAIN (backlog') : backlog'[i] = call \/ (i \in DOMAIN backlog /\ backlog'[i] = backlog[i])
      BY <1>1, <1>8, <3>1
    <3> QED
      BY <1>1, <3>2, Zenon DEF Calls
  <2>3. \A t \in Socks : sock'[t].st \in {"redirected", "direct"} => t # s
    BY <1>5
  <2>4. /\ \A t \in Socks : sock'[t].st \in {"redirected", "direct"} /\ cookie'[t] # Unset =>
             cookie'[t].id = sock'[t].id
        /\ \A t \in Socks : sock'[t].st = "redirected" => cookie'[t] # Unset \/ sock'[t].id \in lost'
    BY <1>1, <1>4, <1>6, <2>3, CaptureParts, Zenon DEF OwnInv
  <2>5. ASSUME NEW t \in Socks, sock'[t].st = "sent", sock'[t].id \notin lost'
        PROVE  pair'[sock'[t].port] = Unset \/ pair'[sock'[t].port].id = sock'[t].id
    <3>1. CASE t # s
      <4>1. sock'[t] = sock[t] /\ sock[t].st = "sent" /\ sock[t].id \notin lost
        BY <1>1, <1>4, <2>5, <3>1
      <4>2. sock[t].port \in Ports /\ sock[t].port # p
        BY <1>1, <3>1, <4>1, CaptureParts DEF SockInv, p
      <4>3. pair'[sock[t].port] = pair[sock[t].port]
        BY <1>3, <1>7, <4>2, CaptureParts, Zenon DEF RecordInv
      <4> QED
        BY <4>1, <4>3, CaptureParts DEF OwnInv
    <3>2. CASE t = s
      <4>1. sock[s].st = "redirected" /\ sock[s].id \notin lost' /\ sock[s].id \notin lost
        BY <1>1, <1>5, <2>5, <3>2, Zenon
      <4>2. cookie[s] # Unset /\ cookie[s].id = sock[s].id
        BY <4>1, CaptureParts, Zenon DEF OwnInv
      <4>3. pair'[p] = cookie[s]
        BY <1>3, <1>7, <4>1, <4>2, CaptureParts DEF RecordInv
      <4> QED
        BY <1>5, <3>2, <4>2, <4>3
    <3> QED
      BY <3>1, <3>2
  <2>6. ASSUME NEW c \in Calls \cup {call}
        PROVE  /\ c.id \in 1 .. opened /\ c.port \in Ports
               /\ \A t \in Socks : sock'[t].id = c.id /\ c.redirected =>
                     sock'[t].st = "sent" /\ sock'[t].port = c.port
    <3>1. CASE c = call
      <4>1. \A t \in Socks : sock'[t].id = sock[s].id => t = s
        BY <1>3, <1>4, <1>5, CaptureParts DEF SockInv
      <4> QED
        BY <1>3, <1>5, <1>8, <3>1, <4>1, Zenon
    <3>2. CASE c \in Calls
      <4>1. /\ c.id \in 1 .. opened /\ c.port \in Ports
            /\ \A t \in Socks : sock[t].id = c.id /\ c.redirected =>
                  sock[t].st = "sent" /\ sock[t].port = c.port
        BY <3>2, CaptureParts DEF OwnInv
      <4>2. sock[s].id = c.id => ~c.redirected
        BY <1>1, <4>1
      <4> QED
        BY <1>4, <1>5, <4>1, <4>2, Zenon
    <3> QED
      BY <3>1, <3>2, Zenon
  <2>7. opened' = opened
    BY <1>1
  <2> QED
    BY <2>1, <2>2, <2>4, <2>5, <2>6, <2>7, Zenon DEF OwnInv
<1> QED
  BY <1>9, <1>10, <1>12, <1>13, <1>14, <1>15, <1>16, <1>17 DEF CaptureInv

\* connect4 and connect6 for a TCP socket: what is not redirected is made by
\* the configured proxyUID or goes where the configuration allows; what is, goes
\* out of the pod by IPv4.
LEMMA ConnectWays ==
    ASSUME ConfigInv, phase = "live", NEW uid, NEW to \in Dests,
           IF to.fam = "6" THEN Connect6(uid) ELSE TRUE,
           NEW way, way = IF to.fam = "6" THEN "direct" ELSE Connect4(uid, to)
    PROVE  /\ way \in {"direct", "redirected"}
           /\ way = "redirected" => to.fam = "4" /\ ~IsLoopback(to.addr)
           /\ way = "direct" /\ uid # opts.uid => Exempt(to)
<1>1. /\ image.uid = opts.uid /\ image.enabled = TRUE /\ image.denyIPv6 = TRUE
      /\ \A k \in keys : \E b \in opts.bypass : CanonicalBypassPrefix(b) /\ k = BypassKeyFor(b)
  BY Zenon DEF ConfigInv
<1>2. to.fam # "6" => to.fam = "4"
  BY DatapathAssumption, Zenon
<1>3. CASE to.fam = "6"
  <2>1. way = "direct" /\ uid = opts.uid
    BY <1>1, <1>3, Zenon DEF Connect6
  <2> QED
    BY <2>1
<1>4. CASE to.fam # "6"
  <2>1. way = IF \/ ~image.enabled
                 \/ uid = image.uid
                 \/ IsLoopback(to.addr)
                 \/ IsDNS(to)
                 \/ Bypassed4(keys, to.addr)
              THEN "direct" ELSE "redirected"
    BY <1>4, Zenon DEF Connect4
  <2>2. CASE way = "redirected"
    BY <1>1, <1>2, <1>4, <2>1, <2>2, Zenon
  <2>3. CASE way = "direct" /\ uid # opts.uid
    <3>1. IsLoopback(to.addr) \/ IsDNS(to) \/ Bypassed4(keys, to.addr)
      BY <1>1, <2>1, <2>3, Zenon
    <3>2. CASE IsDNS(to)
      BY <1>2, <1>4, <2>3, <3>2, DNSConfigured, Zenon DEF Exempt
    <3>3. CASE Bypassed4(keys, to.addr)
      <4>1. PICK k \in keys : Masked(to.addr, k.bits) = k.addr
        BY <3>3 DEF Bypassed4
      <4>2. PICK b \in opts.bypass : CanonicalBypassPrefix(b) /\ k = BypassKeyFor(b)
        BY <1>1
      <4>3. k.bits = b.bits /\ k.addr = b.addr
        BY <4>2, Zenon DEF BypassKeyFor
      <4>4. Configured(to, b)
        BY <4>1, <4>2, <4>3 DEF Configured, CanonicalBypassPrefix
      <4> QED
        BY <1>2, <1>4, <2>3, <4>4, Zenon DEF Exempt
    <3> QED
      BY <1>2, <1>4, <2>3, <3>1, <3>2, <3>3, Zenon DEF Exempt
  <2> QED
    BY <2>1, <2>2, <2>3
<1> QED
  BY <1>3, <1>4

\* A connect that fails, because its record could not be written, only uses up a
\* number.
LEMMA FailedConnectKeeps ==
    ASSUME CaptureInv, phase = "live", UNCHANGED config, opened' = opened + 1, UNCHANGED sock,
           UNCHANGED maps, UNCHANGED listening, UNCHANGED sent
    PROVE  CaptureInv'
<1>1. opened \in Nat /\ opened' \in Nat /\ opened' >= opened
  BY CaptureParts
<1>2. ConfigInv'
  BY ConfigFrame, CaptureParts, Zenon
<1>3. SockInv'
  <2>1. 0 .. opened \subseteq 0 .. opened'
    BY <1>1
  <2>2. sock' \in [Socks -> [st : {"closed", "redirected", "direct", "sent", "called", "udp", "other"},
                             id : 0 .. opened', uid : {0, AgentUID, ProxyUID},
                             to : Dests \cup {Unset}, port : Ports \cup {Unset}]]
    BY <2>1, CaptureParts DEF SockInv
  <2> QED
    BY <1>1, <2>2, CaptureParts DEF SockInv
<1>4. opts' = opts
  BY Zenon DEF config
<1>5. DatagramInv'
  BY <1>4, CaptureParts, Zenon DEF DatagramInv
<1>6. OnlyExemptUncaptured'
  BY <1>4, CaptureParts, Zenon DEF OnlyExemptUncaptured, Exempt
<1>7. DatagramsOnlyToDNS'
  BY <1>4, CaptureParts DEF DatagramsOnlyToDNS
<1>8. RecordInv' /\ OwnDestination'
  BY <1>1, SocketFrame, Zenon
<1>9. OwnInv'
  BY <1>1, OwnFrame
<1> QED
  BY <1>2, <1>3, <1>5, <1>6, <1>7, <1>8, <1>9 DEF CaptureInv

\* The sockets after connect(2) on s: the new number and the port are s's alone.
LEMMA ConnectSocks ==
    ASSUME SockInv, opened' = opened + 1, NEW s \in Socks, NEW p, \A t \in Socks : sock[t].port # p,
           sock'[s].st \in {"direct", "redirected"}, sock'[s].id = opened + 1,
           sock'[s].port \in {p, Unset}, sock'[s].st = "redirected" => sock'[s].port \in Ports,
           \A t \in Socks : t # s => sock'[t] = sock[t]
    PROVE  /\ \A t \in Socks : sock'[t].st = "closed" <=> sock'[t].id = 0
           /\ \A t \in Socks : sock'[t].st \in {"redirected", "sent"} => sock'[t].port \in Ports
           /\ \A t, u \in Socks : sock'[t].id = sock'[u].id /\ sock'[t].id # 0 => t = u
           /\ \A t, u \in Socks : sock'[t].port = sock'[u].port /\ sock'[t].port # Unset => t = u
<1>1. /\ sock'[s].st # "closed" /\ sock'[s].st # "sent" /\ sock'[s].id # 0
      /\ \A t \in Socks : sock[t].id # sock'[s].id
  BY DEF SockInv
<1>2. \A t \in Socks : sock'[s].port # Unset => sock[t].port # sock'[s].port
  BY Zenon
<1>3. \A t \in Socks : sock'[t].st = "closed" <=> sock'[t].id = 0
  BY <1>1 DEF SockInv
<1>4. \A t \in Socks : sock'[t].st \in {"redirected", "sent"} => sock'[t].port \in Ports
  BY <1>1, Zenon DEF SockInv
<1>5. ASSUME NEW t \in Socks, NEW u \in Socks, sock'[t].id = sock'[u].id, sock'[t].id # 0 PROVE t = u
  BY <1>1, <1>5 DEF SockInv
<1>6. ASSUME NEW t \in Socks, NEW u \in Socks, sock'[t].port = sock'[u].port, sock'[t].port # Unset PROVE t = u
  BY <1>2, <1>6 DEF SockInv
<1> QED
  BY <1>3, <1>4, <1>5, <1>6, Zenon

\* The records after it: a new one has a number that no other has.
LEMMA ConnectRecords ==
    ASSUME RecordInv, opened \in Nat, opened' = opened + 1, NEW s \in Socks,
           NEW new, new # Unset => new \in Records' /\ new.id = opened + 1,
           cookie' = [cookie EXCEPT ![s] = new], UNCHANGED <<pair, given>>
    PROVE  /\ RecordInv'
           /\ cookie'[s] = new /\ \A t \in Socks : t # s => cookie'[t] = cookie[t]
<1>1. Records \subseteq Records'
  <2>1. 1 .. opened \subseteq 1 .. opened'
    OBVIOUS
  <2> QED
    BY <2>1 DEF Records
<1>2. /\ cookie \in [Socks -> Records' \cup {Unset}] /\ pair' = pair /\ given' = given
      /\ pair' \in [Ports -> Records' \cup {Unset}]
  BY <1>1 DEF RecordInv
<1>3. \A r \in Records : r.id \in 1 .. opened
  BY DEF Records
<1>4. \A r \in Records : r.id # opened + 1
  BY <1>3
<1>5. \A t \in Socks : cookie[t] # Unset => cookie[t] \in Records
  BY Zenon DEF RecordInv
<1>6. \A q \in Ports : pair[q] # Unset => pair[q] \in Records
  BY DEF RecordInv
<1>7. \A g \in given : g.rec.id \in 1 .. opened' /\ g.rec.id # opened + 1
  <2>1. \A g \in given : g.rec.id \in 1 .. opened
    BY DEF RecordInv
  <2> QED
    BY <2>1
<1> DEFINE R == Records'
<1>8. cookie'[s] = new /\ (\A t \in Socks : t # s => cookie'[t] = cookie[t])
      /\ cookie' \in [Socks -> R \cup {Unset}]
  <2>1. new \in R \cup {Unset} /\ cookie \in [Socks -> R \cup {Unset}]
    BY <1>2
  <2> HIDE DEF R
  <2> QED
    BY <2>1
<1>9. \A t, u \in Socks : cookie'[t] # Unset /\ cookie'[u] # Unset /\ cookie'[t].id = cookie'[u].id => t = u
  BY <1>4, <1>5, <1>8, Zenon DEF RecordInv
<1>10. \A q, r \in Ports : pair'[q] # Unset /\ pair'[r] # Unset /\ pair'[q].id = pair'[r].id => q = r
  BY <1>2 DEF RecordInv
<1>11. \A t \in Socks, q \in Ports : cookie'[t] # Unset /\ pair'[q] # Unset => cookie'[t].id # pair'[q].id
  BY <1>2, <1>4, <1>6, <1>8 DEF RecordInv
<1>12. \A g \in given' :
        /\ g.rec.id \in 1 .. opened'
        /\ \A t \in Socks : cookie'[t] # Unset => cookie'[t].id # g.rec.id
        /\ \A q \in Ports : pair'[q] # Unset => pair'[q].id # g.rec.id
  BY <1>2, <1>7, <1>8 DEF RecordInv
<1> QED
  BY <1>2, <1>8, <1>9, <1>10, <1>11, <1>12, Zenon DEF RecordInv

\* Whose the records are after it: the new one is of the new connection, and
\* nobody can have called from its port yet.
LEMMA ConnectOwn ==
    ASSUME OwnInv, opened \in Nat, opened' = opened + 1, NEW s \in Socks,
           sock'[s].st \in {"direct", "redirected"}, sock'[s].id = opened + 1,
           cookie'[s] # Unset => cookie'[s].id = opened + 1,
           sock'[s].st = "redirected" => cookie'[s] # Unset,
           \A t \in Socks : t # s => sock'[t] = sock[t] /\ cookie'[t] = cookie[t],
           UNCHANGED <<backlog, handlers, pair, lost>>
    PROVE  OwnInv'
<1>1. Calls' = Calls /\ backlog' = backlog /\ pair' = pair /\ lost' = lost
  BY Zenon DEF Calls
<1>2. \A t \in Socks : sock'[t].st = "sent" => t # s
  BY Zenon
<1>3. \A c \in Calls : c.id \in 1 .. opened' /\ c.id # opened + 1
  <2>1. \A c \in Calls : c.id \in 1 .. opened
    BY Zenon DEF OwnInv
  <2> QED
    BY <2>1
<1>4. \A t \in Socks : sock'[t].st \in {"redirected", "direct"} /\ cookie'[t] # Unset =>
          cookie'[t].id = sock'[t].id
  BY Zenon DEF OwnInv
<1>5. \A t \in Socks : sock'[t].st = "redirected" => cookie'[t] # Unset \/ sock'[t].id \in lost'
  BY <1>1, Zenon DEF OwnInv
<1>6. \A t \in Socks : sock'[t].st = "sent" /\ sock'[t].id \notin lost' =>
          pair'[sock'[t].port] = Unset \/ pair'[sock'[t].port].id = sock'[t].id
  BY <1>1, <1>2 DEF OwnInv
<1>7. \A c \in Calls' :
        /\ c.id \in 1 .. opened' /\ c.port \in Ports
        /\ \A t \in Socks : sock'[t].id = c.id /\ c.redirected => sock'[t].st = "sent" /\ sock'[t].port = c.port
  <2>1. \A c \in Calls : sock'[s].id # c.id
    BY <1>3
  <2> QED
    BY <1>1, <1>3, <2>1 DEF OwnInv
<1>8. backlog' \in Seq([id : Nat, port : Ports, redirected : BOOLEAN])
  BY <1>1, Zenon DEF OwnInv
<1> QED
  BY <1>4, <1>5, <1>6, <1>7, <1>8, Zenon DEF OwnInv

\* connect(2) on a TCP socket: a new number, a port no open socket has, and for a
\* redirected one a record under the cookie.
LEMMA ConnectKeeps ==
    ASSUME CaptureInv, NEW s \in Socks, NEW uid \in {AgentUID, ProxyUID}, NEW to \in Dests,
           NEW p \in Ports, Connect(s, uid, to, p)
    PROVE  CaptureInv'
<1> DEFINE way == IF to.fam = "6" THEN "direct" ELSE Connect4(uid, to)
           port == IF way = "redirected" \/ Listening(to) THEN p ELSE Unset
           new == [st |-> way, id |-> opened + 1, uid |-> uid, to |-> to, port |-> port]
           SockSet == [st : {"closed", "redirected", "direct", "sent", "called", "udp", "other"},
                       id : 0 .. opened', uid : {0, AgentUID, ProxyUID},
                       to : Dests \cup {Unset}, port : Ports \cup {Unset}]
<1>1. /\ UNCHANGED config /\ opened' = opened + 1 /\ UNCHANGED <<pair, stale, lost>>
      /\ UNCHANGED listening /\ UNCHANGED sent
      /\ phase = "live" /\ sock[s].st = "closed" /\ FreePort(p)
  BY Zenon DEF Connect, Slot
<1>2. opened \in Nat /\ opened' \in Nat /\ opened' >= opened /\ opened' = opened + 1
  BY <1>1, CaptureParts
<1>3. /\ way \in {"direct", "redirected"}
      /\ way = "redirected" => to.fam = "4" /\ ~IsLoopback(to.addr)
      /\ way = "direct" /\ uid # opts.uid => Exempt(to)
  <2>1. IF to.fam = "6" THEN Connect6(uid) ELSE TRUE
    BY DEF Connect
  <2> HIDE DEF way
  <2>2. way = IF to.fam = "6" THEN "direct" ELSE Connect4(uid, to)
    BY Zenon DEF way
  <2> QED
    BY <1>1, <2>1, <2>2, ConnectWays, CaptureParts, Zenon
<1>4. \/ /\ sock' = [sock EXCEPT ![s] = new]
         /\ cookie' = [cookie EXCEPT ![s] = IF way = "redirected" THEN new ELSE Unset]
      \/ sock' = sock /\ cookie' = cookie
  BY DEF Connect
<1> HIDE DEF way
<1>5. CASE sock' = sock /\ cookie' = cookie
  <2>1. UNCHANGED maps
    BY <1>1, <1>5 DEF maps
  <2> QED
    BY <1>1, <1>5, <2>1, FailedConnectKeeps, Zenon
<1>6. CASE /\ sock' = [sock EXCEPT ![s] = new]
           /\ cookie' = [cookie EXCEPT ![s] = IF way = "redirected" THEN new ELSE Unset]
  <2>1. /\ port \in {p, Unset} /\ (way = "redirected" => port = p)
    BY Zenon
  <2> HIDE DEF port
  <2>2. new.st = way /\ new.id = opened + 1 /\ new.uid = uid /\ new.to = to /\ new.port = port
    OBVIOUS
  <2>3. new \in SockSet
    <3>1. opened + 1 \in 0 .. opened'
      BY <1>2
    <3> QED
      BY <1>3, <2>1, <3>1, Zenon
  <2>4. way = "redirected" => new \in Records' /\ new # Unset
    <3>1. opened + 1 \in 1 .. opened' /\ opened + 1 \in Nat
      BY <1>2
    <3> HAVE way = "redirected"
    <3>2. new \in Records'
      BY <1>3, <2>1, <3>1, Zenon DEF Records
    <3>3. new \in [st : {"redirected"}, id : Nat, uid : {AgentUID, ProxyUID}, to : Dests, port : Ports]
      BY <2>1, <3>1
    <3> QED
      BY <3>2, <3>3, DatapathAssumption
  <2> HIDE DEF new
  <2>5. /\ sock'[s] = new /\ \A t \in Socks : t # s => sock'[t] = sock[t]
        /\ sock' \in [Socks -> SockSet]
    <3>1. 0 .. opened \subseteq 0 .. opened'
      BY <1>2
    <3>2. sock \in [Socks -> SockSet]
      BY <3>1, CaptureParts DEF SockInv
    <3> HIDE DEF SockSet
    <3> QED
      BY <1>6, <2>3, <3>2
  <2>8. SockInv'
    <3>1. \A t \in Socks : sock[t].port # p
      BY <1>1 DEF FreePort
    <3>2. sock'[s].st \in {"direct", "redirected"} /\ sock'[s].port \in {p, Unset}
          /\ (sock'[s].st = "redirected" => sock'[s].port \in Ports)
      BY <1>3, <2>1, <2>2, <2>5, Zenon
    <3>3. SockInv /\ opened' = opened + 1 /\ opened' \in Nat /\ sock'[s].id = opened + 1
      BY <1>2, <2>2, <2>5, CaptureParts, Zenon
    <3>4. /\ \A t \in Socks : sock'[t].st = "closed" <=> sock'[t].id = 0
          /\ \A t \in Socks : sock'[t].st \in {"redirected", "sent"} => sock'[t].port \in Ports
          /\ \A t, u \in Socks : sock'[t].id = sock'[u].id /\ sock'[t].id # 0 => t = u
          /\ \A t, u \in Socks : sock'[t].port = sock'[u].port /\ sock'[t].port # Unset => t = u
      <4> HIDE DEF SockSet
      <4> QED
        BY <2>5, <3>1, <3>2, <3>3, ConnectSocks, Zenon
    <3> QED
      BY <2>5, <3>3, <3>4, Zenon DEF SockInv
  <2>6. /\ RecordInv'
        /\ cookie'[s] = (IF way = "redirected" THEN new ELSE Unset)
        /\ \A t \in Socks : t # s => cookie'[t] = cookie[t]
    <3> DEFINE rec == IF way = "redirected" THEN new ELSE Unset
    <3>1. rec # Unset => rec \in Records' /\ rec.id = opened + 1
      BY <2>2, <2>4, Zenon
    <3>2. UNCHANGED <<pair, given>>
      BY <1>1 DEF listening
    <3>3. cookie' = [cookie EXCEPT ![s] = rec]
      BY <1>6, Zenon
    <3> HIDE DEF rec
    <3>4. RecordInv' /\ cookie'[s] = rec /\ \A t \in Socks : t # s => cookie'[t] = cookie[t]
      BY <1>2, <3>1, <3>2, <3>3, ConnectRecords, CaptureParts, Zenon
    <3> QED
      BY <3>4, Zenon DEF rec
  <2>7. ConfigInv'
    BY <1>1, ConfigFrame, CaptureParts
  <2>9. opts' = opts
    BY <1>1, Zenon DEF config
  <2>10. DatagramInv'
    <3>1. \A t \in Socks : sock'[t].st \in {"udp", "other"} => sock'[t] = sock[t]
      <4>1. new.st \notin {"udp", "other"}
        BY <1>3, <2>2
      <4> QED
        BY <2>5, <4>1, Zenon
    <3> QED
      BY <2>9, <3>1, CaptureParts, Zenon DEF DatagramInv
  <2>11. OnlyExemptUncaptured'
    BY <1>3, <2>2, <2>5, <2>9, CaptureParts, Zenon DEF OnlyExemptUncaptured, Exempt
  <2>12. DatagramsOnlyToDNS'
    BY <1>1, <2>9, CaptureParts, Zenon DEF DatagramsOnlyToDNS
  <2>13. OwnDestination'
    BY <1>1, GivenFrame, CaptureParts, Zenon DEF listening
  <2>15. OwnInv'
    <3>1. UNCHANGED <<backlog, handlers, pair, lost>>
      BY <1>1 DEF listening
    <3>2. /\ cookie'[s] # Unset => cookie'[s].id = opened + 1
          /\ sock'[s].st = "redirected" => cookie'[s] # Unset
          /\ sock'[s].st \in {"direct", "redirected"} /\ sock'[s].id = opened + 1
      BY <1>3, <2>2, <2>4, <2>5, <2>6, Zenon
    <3> QED
      BY <1>2, <2>5, <2>6, <3>1, <3>2, ConnectOwn, CaptureParts, Zenon
  <2> QED
    BY <2>6, <2>7, <2>8, <2>10, <2>11, <2>12, <2>13, <2>15, Zenon DEF CaptureInv
<1> QED
  BY <1>4, <1>5, <1>6, Zenon

(***************************************************************************)
(* The ports.                                                              *)
(***************************************************************************)

\* Entries that the maps lose, and sockets that are closed or change without a
\* record (close, socket, connect of a datagram socket): what is under a port is
\* still older than who has the port.
LEMMA PortFrame ==
    ASSUME PortInv, UNCHANGED <<sock>> \/ \E u \in Socks : /\ \A t \in Socks : t # u => sock'[t] = sock[t]
                                                           /\ sock'[u].st \notin {"redirected", "direct"}
                                                           /\ sock'[u].port = Unset,
           \A s \in Socks : cookie'[s] \in {cookie[s], Unset},
           \A p \in Ports : pair'[p] \in {pair[p], Unset}
    PROVE  PortInv'
<1>1. \A p \in Ports : pair'[p] # Unset => pair'[p] = pair[p]
  OBVIOUS
<1>2. \A s \in Socks : cookie'[s] # Unset => cookie'[s] = cookie[s]
  OBVIOUS
<1>3. \A t \in Socks : \/ sock'[t] = sock[t]
                       \/ sock'[t].st \notin {"redirected", "direct"} /\ sock'[t].port = Unset
  BY Zenon
<1>4. \A p \in Ports : p # Unset
  BY DatapathAssumption
<1> QED
  BY <1>1, <1>2, <1>3, <1>4, Zenon DEF PortInv

\* sock_ops puts the record of a connection under the port it has.
LEMMA PortEstablished ==
    ASSUME CaptureInv, PortInv, NEW s \in Socks, Established(s)
    PROVE  PortInv'
<1>1. /\ sock[s].st \in {"redirected", "direct"} /\ sock[s].port # Unset
      /\ sock' = [sock EXCEPT ![s].st = IF @ = "direct" THEN "called" ELSE "sent"]
      /\ cookie' = [cookie EXCEPT ![s] = Unset]
      /\ \/ cookie[s] # Unset /\ pair' = [pair EXCEPT ![sock[s].port] = cookie[s]]
         \/ pair' = pair
  BY Zenon DEF Established
<1>2. /\ \A t \in Socks : sock[t].port \in Ports \cup {Unset}
      /\ \A t \in Socks : sock[t].id \in 0 .. opened
      /\ \A t \in Socks : sock[t].port = sock[s].port => t = s
      /\ opened \in Nat
  BY <1>1, CaptureParts DEF SockInv
<1>3. \A t \in Socks : /\ sock'[t].port = sock[t].port /\ sock'[t].id = sock[t].id
                       /\ t # s => sock'[t] = sock[t]
  BY <1>1, CaptureParts DEF SockInv
<1>4. sock'[s].st \notin {"redirected", "direct"}
  BY <1>1, CaptureParts DEF SockInv
<1>5. \A t \in Socks : cookie'[t] # Unset => t # s /\ cookie'[t] = cookie[t]
  BY <1>1, CaptureParts DEF RecordInv
<1>6. \A t \in Socks : sock'[t].st \in {"redirected", "direct"} /\ cookie'[t] # Unset =>
          cookie'[t].port = sock'[t].port
  BY <1>3, <1>4, <1>5, Zenon DEF PortInv
<1>7. CASE pair' = pair
  BY <1>3, <1>6, <1>7, Zenon DEF PortInv
<1>8. CASE cookie[s] # Unset /\ pair' = [pair EXCEPT ![sock[s].port] = cookie[s]]
  <2>1. cookie[s].port = sock[s].port /\ cookie[s].id = sock[s].id
    BY <1>1, <1>8, CaptureParts, Zenon DEF PortInv, OwnInv
  <2>2. \A p \in Ports : pair'[p] = IF p = sock[s].port THEN cookie[s] ELSE pair[p]
    BY <1>8, CaptureParts DEF RecordInv
  <2>3. \A p \in Ports : pair'[p] # Unset => pair'[p].port = p
    BY <2>1, <2>2, Zenon DEF PortInv
  <2>4. sock[s].id <= sock[s].id
    BY <1>2
  <2>5. \A t \in Socks, p \in Ports : sock'[t].port = p /\ pair'[p] # Unset => pair'[p].id <= sock'[t].id
    BY <1>2, <1>3, <2>1, <2>2, <2>4, Zenon DEF PortInv
  <2> QED
    BY <1>6, <2>3, <2>5, Zenon DEF PortInv
<1> QED
  BY <1>1, <1>7, <1>8, Zenon

\* connect(2) gives its socket a number above those of all records.
LEMMA PortConnect ==
    ASSUME CaptureInv, PortInv, NEW s \in Socks, NEW uid \in {AgentUID, ProxyUID}, NEW to \in Dests,
           NEW p \in Ports, Connect(s, uid, to, p)
    PROVE  PortInv'
<1>1. pair' = pair
  BY Zenon DEF Connect
<1>2. CASE sock' = sock /\ cookie' = cookie
  BY <1>1, <1>2, PortFrame
<1>3. CASE ~(sock' = sock /\ cookie' = cookie)
  <2>1. PICK new : /\ sock' = [sock EXCEPT ![s] = new] /\ new.id = opened + 1
                   /\ \E w : cookie' = [cookie EXCEPT ![s] = w] /\ w \in {new, Unset}
    BY <1>3 DEF Connect
  <2>2. sock'[s] = new /\ \A t \in Socks : t # s => sock'[t] = sock[t]
    BY <2>1, CaptureParts DEF SockInv
  <2>3. cookie'[s] \in {new, Unset} /\ \A t \in Socks : t # s => cookie'[t] = cookie[t]
    BY <2>1, CaptureParts DEF RecordInv
  <2>4. \A q \in Ports : pair[q] # Unset => pair[q].id <= new.id
    <3>1. \A q \in Ports : pair[q] # Unset => pair[q] \in Records
      BY CaptureParts DEF RecordInv
    <3>2. \A r \in Records : r.id <= opened + 1
      BY CaptureParts DEF Records
    <3> QED
      BY <2>1, <3>1, <3>2, Zenon
  <2> QED
    BY <1>1, <2>2, <2>3, <2>4, Zenon DEF PortInv
<1> QED
  BY <1>2, <1>3

\* Every step keeps the records under the ports they were made for.
LEMMA PortStep ==
    ASSUME CaptureInv, PortInv, [Next]_vars
    PROVE  PortInv'
<1>1. ASSUME NEW s \in Socks, NEW uid \in {AgentUID, ProxyUID}, NEW to \in Dests, NEW p \in Ports,
             Connect(s, uid, to, p)
      PROVE  PortInv'
  BY <1>1, PortConnect
<1>2. ASSUME NEW s \in Socks, Established(s)
      PROVE  PortInv'
  BY <1>2, PortEstablished
<1>3. ASSUME NEW s \in Socks, Close(s)
      PROVE  PortInv'
  <2>1. /\ UNCHANGED <<cookie, pair>>
        /\ sock'[s] = Closed /\ \A t \in Socks : t # s => sock'[t] = sock[t]
    BY <1>3, CaptureParts DEF Close, SockInv, maps
  <2>2. Closed.st = "closed" /\ Closed.port = Unset
    BY DEF Closed
  <2> QED
    BY <2>1, <2>2, PortFrame
<1>4. ASSUME NEW s \in Socks, NEW uid \in {AgentUID, ProxyUID}, NEW kind \in {"udp", "other"},
             Create(s, uid, kind)
      PROVE  PortInv'
  <2>1. /\ UNCHANGED <<cookie, pair>>
        /\ sock'[s] = [Closed EXCEPT !.st = kind, !.id = opened + 1, !.uid = uid]
        /\ \A t \in Socks : t # s => sock'[t] = sock[t]
    BY <1>4, CaptureParts DEF Create, SockInv, maps
  <2>2. sock'[s].st = kind /\ sock'[s].port = Unset
    BY <2>1 DEF Closed
  <2> QED
    BY <2>1, <2>2, PortFrame
<1>5. ASSUME NEW s \in Socks, NEW to \in Dests, UDPConnect(s, to)
      PROVE  PortInv'
  <2>1. /\ UNCHANGED <<cookie, pair>> /\ sock' = [sock EXCEPT ![s].to = to]
    BY <1>5 DEF UDPConnect, maps
  <2>2. \A t \in Socks : sock'[t].port = sock[t].port /\ sock'[t].id = sock[t].id /\ sock'[t].st = sock[t].st
    BY <2>1, CaptureParts DEF SockInv
  <2> QED
    BY <2>1, <2>2, Zenon DEF PortInv
<1>6. ASSUME NEW s \in Socks, NEW to \in Dests, Send(s, to)
      PROVE  PortInv'
  BY <1>6, PortFrame DEF Send, maps
<1>7. CASE \/ Configure \/ Accept \/ AcceptAndClose \/ Over \/ UNCHANGED vars
  <2>1. UNCHANGED <<sock, cookie, pair>>
    BY <1>7, Zenon DEF Configure, Accept, AcceptAndClose, Over, vars, maps
  <2> QED
    BY <2>1, PortFrame
<1>8. CASE Age \/ (\E p \in Ports : EvictPair(p)) \/ (\E s \in Socks : EvictCookie(s))
  <2>1. UNCHANGED sock
    BY <1>8 DEF Age, EvictPair, EvictCookie
  <2>2. /\ \A s \in Socks : cookie'[s] \in {cookie[s], Unset}
        /\ \A p \in Ports : pair'[p] \in {pair[p], Unset}
    BY <1>8, CaptureParts DEF Age, EvictPair, EvictCookie, RecordInv
  <2> QED
    BY <2>1, <2>2, PortFrame
<1>9. ASSUME NEW c \in handlers, Resolve(c)
      PROVE  PortInv'
  <2>1. UNCHANGED <<sock, cookie>> /\ pair' = [pair EXCEPT ![c.port] = Unset]
    BY <1>9 DEF Resolve
  <2>2. \A p \in Ports : pair'[p] \in {pair[p], Unset}
    BY <2>1, CaptureParts DEF RecordInv
  <2> QED
    BY <2>1, <2>2, PortFrame
<1> QED
  BY <1>1, <1>2, <1>3, <1>4, <1>5, <1>6, <1>7, <1>8, <1>9, Zenon DEF Next

(***************************************************************************)
(* The theorems.                                                           *)
(***************************************************************************)

\* The invariant of the captured connection: configuration, sockets, records and
\* their owners, and what connect4, sendmsg and Resolve have answered so far.
THEOREM CaptureInvariance == Spec => []DatapathInv
<1>1. Init => DatapathInv
  <2> SUFFICES ASSUME Init
               PROVE  DatapathInv
    OBVIOUS
  <2>1. \A s \in Socks : sock[s] = Closed
    BY Zenon DEF Init
  <2>2. Closed.st = "closed" /\ Closed.id = 0 /\ Closed.port = Unset
    BY DEF Closed
  <2>3. ConfigInv
    BY Zenon DEF Init, ConfigInv
  <2>4. SockInv
    <3>1. sock \in [Socks -> [st : {"closed", "redirected", "direct", "sent", "called", "udp", "other"},
                              id : 0 .. opened, uid : {0, AgentUID, ProxyUID},
                              to : Dests \cup {Unset}, port : Ports \cup {Unset}]]
      BY DEF Init, Closed
    <3> QED
      BY <2>1, <2>2, <3>1, Zenon DEF Init, SockInv
  <2>5. RecordInv
    BY Zenon DEF Init, RecordInv
  <2>6. OwnInv
    <3>1. Calls = {} /\ backlog \in Seq([id : Nat, port : Ports, redirected : BOOLEAN])
      BY DEF Init, Calls
    <3> QED
      BY <2>1, <2>2, <3>1 DEF OwnInv
  <2>7. DatagramInv /\ OnlyExemptUncaptured
    BY <2>1, <2>2, Zenon DEF DatagramInv, OnlyExemptUncaptured, Exempt
  <2>8. OwnDestination /\ DatagramsOnlyToDNS
    BY DEF Init, OwnDestination, DatagramsOnlyToDNS
  <2>9. PortInv
    BY <2>1, <2>2, Zenon DEF Init, PortInv
  <2> QED
    BY <2>3, <2>4, <2>5, <2>6, <2>7, <2>8, <2>9 DEF CaptureInv, DatapathInv
<1>2. DatapathInv /\ [Next]_vars => DatapathInv'
  <2> SUFFICES ASSUME CaptureInv, PortInv, [Next]_vars
               PROVE  CaptureInv'
    BY PortStep, Zenon DEF DatapathInv
  <2>1. CASE Configure
    <3>1. UNCHANGED <<sock, opened, sent>> /\ UNCHANGED maps /\ UNCHANGED listening
      BY <2>1, Zenon DEF Configure
    <3>2. ConfigInv'
      BY <2>1, ConfigureConfig, CaptureParts, Zenon
    <3>3. \A s \in Socks : sock[s].st = "closed"
      BY <2>1, CaptureParts DEF ConfigInv, Configure, Closed
    <3>4. SockInv'
      BY <3>1, CaptureParts, Zenon DEF SockInv
    <3>5. DatagramInv' /\ OnlyExemptUncaptured'
      BY <3>1, <3>3, Zenon DEF DatagramInv, OnlyExemptUncaptured, Exempt
    <3>6. sent = Unset
      BY <2>1, CaptureParts, Zenon DEF ConfigInv, Configure
    <3>7. DatagramsOnlyToDNS'
      BY <3>1, <3>6 DEF DatagramsOnlyToDNS
    <3>8. RecordInv' /\ OwnDestination'
      BY <3>1, SocketFrame, CaptureParts
    <3>9. OwnInv'
      BY <3>1, OwnFrame, CaptureParts
    <3> QED
      BY <3>2, <3>4, <3>5, <3>7, <3>8, <3>9 DEF CaptureInv
  <2>2. ASSUME NEW s \in Socks, NEW uid \in {AgentUID, ProxyUID}, NEW to \in Dests, NEW p \in Ports,
               Connect(s, uid, to, p)
        PROVE  CaptureInv'
    BY <2>2, ConnectKeeps
  <2>3. ASSUME NEW s \in Socks, Established(s)
        PROVE  CaptureInv'
    BY <2>3, EstablishedKeeps
  <2>4. ASSUME NEW s \in Socks, Close(s)
        PROVE  CaptureInv'
    BY <2>4, CloseKeeps
  <2>5. ASSUME NEW s \in Socks, NEW uid \in {AgentUID, ProxyUID}, NEW kind \in {"udp", "other"},
               Create(s, uid, kind)
        PROVE  CaptureInv'
    BY <2>5, CreateKeeps
  <2>6. ASSUME NEW s \in Socks, NEW to \in Dests, UDPConnect(s, to)
        PROVE  CaptureInv'
    BY <2>6, UDPConnectKeeps
  <2>7. ASSUME NEW s \in Socks, NEW to \in Dests, Send(s, to)
        PROVE  CaptureInv'
    BY <2>7, SendKeeps
  <2>8. CASE Age \/ (\E p \in Ports : EvictPair(p)) \/ (\E s \in Socks : EvictCookie(s))
    BY <2>8, LossKeeps
  <2>9. CASE Accept \/ AcceptAndClose
    BY <2>9, AcceptKeeps
  <2>10. ASSUME NEW c \in handlers, Resolve(c)
         PROVE  CaptureInv'
    BY <2>10, ResolveKeeps, Zenon
  <2>11. CASE Over \/ UNCHANGED vars
    <3>1. /\ UNCHANGED config /\ UNCHANGED <<sock, opened>> /\ UNCHANGED sent
          /\ UNCHANGED maps /\ UNCHANGED listening
      BY <2>11 DEF Over, vars
    <3>2. RecordInv' /\ OwnDestination'
      BY <3>1, SocketFrame, CaptureParts
    <3>3. OwnInv'
      BY <3>1, OwnFrame, CaptureParts
    <3> QED
      BY <3>1, <3>2, <3>3, SockFrame, Zenon DEF CaptureInv
  <2> QED
    BY <2>1, <2>2, <2>3, <2>4, <2>5, <2>6, <2>7, <2>8, <2>9, <2>10, <2>11, Zenon DEF Next
<1> QED
  BY <1>1, <1>2, PTL DEF Spec

\* A TCP connection that connect4 and connect6 leave alone goes to the pod, to the
\* configured DNS endpoint or into a prefix the deployer named, for every
\* configuration that passes config.Validate and Options.Validate and every user
\* but the one it names in proxyUID.
THEOREM OnlyExemptUncapturedHolds == Spec => []OnlyExemptUncaptured
<1>1. CaptureInv => OnlyExemptUncaptured
  BY Zenon DEF CaptureInv
<1> QED
  BY <1>1, CaptureInvariance, PTL DEF DatapathInv

\* Resolve gives a record to one connection only, none older than DestMaxAge, and
\* to a redirected connection that is still open its own, whatever ports were used
\* before; if its own was dropped on the way to pair_orig_dst, none or that of an
\* earlier connection from the same port.
THEOREM OwnDestinationHolds == Spec => []OwnDestination
<1>1. CaptureInv => OwnDestination
  BY DEF CaptureInv
<1> QED
  BY <1>1, CaptureInvariance, PTL DEF DatapathInv

\* With non-TCP blocked a packet of a user other than the configured proxyUID
\* leaves only for the configured DNS
\* endpoint, whether the socket was connected before or sendmsg names the
\* destination; and no datagram leaves by IPv6.
THEOREM DatagramsOnlyToDNSHolds == Spec => []DatagramsOnlyToDNS
<1>1. CaptureInv => DatagramsOnlyToDNS
  BY DEF CaptureInv
<1> QED
  BY <1>1, CaptureInvariance, PTL DEF DatapathInv
=============================================================================
