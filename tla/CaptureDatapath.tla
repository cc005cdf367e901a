--------------------------- MODULE CaptureDatapath ---------------------------
(***************************************************************************)
(* The captured connection: the programs of                                *)
(* internal/dataplane/bpf/aksh_capture.c in the kernel, and the resolver   *)
(* that recovers the destination for the listener (resolver_linux.go).     *)
(* First a configuration goes through both validations; if they accept it, *)
(* the programs run with its image.  Then sockets of the agent and of the  *)
(* proxy connect, are established, accepted and resolved in any order,     *)
(* source ports are used again, and the LRU maps drop entries.             *)
(***************************************************************************)
EXTENDS CaptureConfig, Sequences

CONSTANTS
    Defaults,        \* the built-in configuration
    Layers,          \* the files and environments tried: [yaml, env]
    Socks, Ports,    \* slots for the agent's and the proxy's sockets; source ports
    Dests,           \* destinations [fam, addr, port]
    AgentUID,
    MaxSockets,      \* bound on the sockets opened
    UpdateFails      \* BOOLEAN: the map update of sock_ops may fail

VARIABLES
    phase,     \* "config", "refused", "live"
    cfg,       \* the file and the environment, until they are read
    opts,      \* the options the running capture depends on
    image,     \* aksh_config
    keys,      \* bypass_cidr4
    sock,      \* the client sockets
    cookie,    \* cookie_orig_dst, by socket
    pair,      \* pair_orig_dst, by source port
    opened,    \* sockets opened; a socket and its record carry this number
    stale,     \* the records older than DestMaxAge
    lost,      \* the records that never reached pair_orig_dst
    backlog,   \* established connections the listener has not accepted
    handlers,  \* accepted connections whose handler has not resolved them
    given,     \* the destinations resolved: [id, port, rec, live, old, redirected]
    sent       \* the packet that last left by another way than TCP

config == <<phase, cfg, opts, image, keys>>
maps == <<cookie, pair, stale, lost>>
listening == <<backlog, handlers, given>>
vars == <<config, sock, maps, opened, listening, sent>>

\* The uid the proxy runs with after it has dropped its privileges: a constant
\* of orchestrator.go, which nothing compares with the configured one.
ProxyUID == 1774

ASSUME DatapathAssumption ==
    /\ MaxSockets \in Nat
    /\ Unset \notin Ports
    /\ Unset \notin Dests /\ \A d \in Dests : d.fam \in {"4", "6"}
    /\ Unset \notin [st : {"redirected"}, id : Nat, uid : {AgentUID, ProxyUID}, to : Dests, port : Ports]

Closed == [st |-> "closed", id |-> 0, uid |-> 0, to |-> Unset, port |-> Unset]

Init ==
    /\ phase = "config" /\ cfg \in Layers
    /\ opts = Unset /\ image = Unset /\ keys = {}
    /\ sock = [s \in Socks |-> Closed]
    /\ cookie = [s \in Socks |-> Unset] /\ pair = [p \in Ports |-> Unset]
    /\ stale = {} /\ lost = {} /\ opened = 0
    /\ backlog = <<>> /\ handlers = {} /\ given = {} /\ sent = Unset

\* run(): the configuration, the options, the image and the bypass map; the
\* resolver wants a positive DestMaxAge.
Configure ==
    /\ phase = "config"
    /\ LET c == LoadFrom(Defaults, cfg.yaml, cfg.env)
           o == CaptureOptionsFromConfig(c)
       IN  IF c # Bad /\ Validate(c) /\ ValidateOptions(o) /\ o.maxAge > 0
           THEN /\ phase' = "live"
                /\ opts' = [uid |-> o.uid, dns |-> o.dns, bypass |-> o.bypass,
                            blockNonTCP |-> o.blockNonTCP]
                /\ image' = BuildConfigImage(o)
                /\ keys' = {BypassKeyFor(p) : p \in o.bypass}
                /\ cfg' = Unset
           ELSE phase' = "refused" /\ cfg' = Unset /\ UNCHANGED <<opts, image, keys>>
    /\ UNCHANGED <<sock, maps, opened, listening, sent>>

-----------------------------------------------------------------------------
(* The programs: what each hook answers.                                   *)

IsDNS(to) == image.dns.addr # 0 /\ to.addr = image.dns.addr /\ to.port = image.dns.port

\* connect4 for a TCP socket: where the connection goes.
Connect4(uid, to) ==
    IF \/ ~image.enabled
       \/ uid = image.uid
       \/ IsLoopback(to.addr)
       \/ IsDNS(to)
       \/ Bypassed4(keys, to.addr)
    THEN "direct" ELSE "redirected"

\* Mutant of Connect4UDP: a datagram socket may be connected anywhere.
Connect4UDPAny(uid, to) == TRUE

\* connect4 for a datagram socket, and sendmsg4, which answers the same.
Connect4UDP(uid, to) == ~image.blockNonTCP \/ uid = image.uid \/ IsDNS(to)

SendMsg4(uid, to) == ~image.blockNonTCP \/ uid = image.uid \/ IsDNS(to)

Connect6(uid) == ~image.denyIPv6 \/ uid = image.uid

SendMsg6(uid) == (~image.blockNonTCP /\ ~image.denyIPv6) \/ uid = image.uid

\* sock_create, by the kind of socket: "tcp", "udp" or "other".
SockCreate(uid, kind) == ~image.blockNonTCP \/ uid = image.uid \/ kind \in {"tcp", "udp"}

-----------------------------------------------------------------------------
(* The sockets of the pod.                                                 *)

Listening(to) == to.fam = "4" /\ to.addr = image.listener.addr /\ to.port = image.listener.port

\* The kernel gives a source port to one connection to the listener at a time.
FreePort(p) == \A s \in Socks : sock[s].port # p

Slot(s) == phase = "live" /\ sock[s].st = "closed" /\ opened < MaxSockets

\* A TCP connect: a redirected one leaves its record under the cookie of the
\* socket, and fails if it cannot.
Connect(s, uid, to, p) ==
    /\ Slot(s) /\ FreePort(p) /\ SockCreate(uid, "tcp")
    /\ IF to.fam = "6" THEN Connect6(uid) ELSE TRUE
    /\ LET way == IF to.fam = "6" THEN "direct" ELSE Connect4(uid, to)
           new == [st |-> way, id |-> opened + 1, uid |-> uid, to |-> to,
                   port |-> IF way = "redirected" \/ Listening(to) THEN p ELSE Unset]
       IN  \/ /\ sock' = [sock EXCEPT ![s] = new]
              /\ cookie' = [cookie EXCEPT ![s] = IF way = "redirected" THEN new ELSE Unset]
           \/ way = "redirected" /\ UNCHANGED <<sock, cookie>>
    /\ opened' = opened + 1
    /\ UNCHANGED <<config, pair, stale, lost, listening, sent>>

\* Mutant of Established: a record already under the port is kept.
EstablishedNoOverwrite(s) ==
    /\ sock[s].st \in {"redirected", "direct"} /\ sock[s].port # Unset
    /\ sock' = [sock EXCEPT ![s].st = IF @ = "direct" THEN "called" ELSE "sent"]
    /\ backlog' = Append(backlog, [id |-> sock[s].id, port |-> sock[s].port,
                                   redirected |-> sock[s].st = "redirected"])
    /\ IF cookie[s] = Unset THEN UNCHANGED pair
       ELSE pair' = [pair EXCEPT ![sock[s].port] = IF @ = Unset THEN cookie[s] ELSE @]
    /\ cookie' = [cookie EXCEPT ![s] = Unset]
    /\ UNCHANGED <<config, stale, lost, opened, handlers, given, sent>>

\* sock_ops at ACTIVE_ESTABLISHED: the record moves under the source port; the
\* connection waits to be accepted.
Established(s) ==
    /\ sock[s].st \in {"redirected", "direct"} /\ sock[s].port # Unset
    /\ sock' = [sock EXCEPT ![s].st = IF @ = "direct" THEN "called" ELSE "sent"]
    /\ backlog' = Append(backlog, [id |-> sock[s].id, port |-> sock[s].port,
                                   redirected |-> sock[s].st = "redirected"])
    /\ \/ /\ cookie[s] # Unset
          /\ pair' = [pair EXCEPT ![sock[s].port] = cookie[s]] /\ UNCHANGED lost
       \/ /\ cookie[s] # Unset /\ UpdateFails
          /\ lost' = lost \cup {sock[s].id} /\ UNCHANGED pair
       \/ cookie[s] = Unset /\ UNCHANGED <<pair, lost>>
    /\ cookie' = [cookie EXCEPT ![s] = Unset]
    /\ UNCHANGED <<config, stale, opened, handlers, given, sent>>

\* The application closes; its connection may still be in the backlog.
Close(s) ==
    /\ sock[s].st # "closed"
    /\ sock' = [sock EXCEPT ![s] = Closed]
    /\ UNCHANGED <<config, maps, opened, listening, sent>>

\* Sockets that are not TCP: created, perhaps connected, and sent from.  A
\* connected datagram socket is not seen by sendmsg again.
Create(s, uid, kind) ==
    /\ Slot(s) /\ kind # "tcp" /\ SockCreate(uid, kind)
    /\ sock' = [sock EXCEPT ![s] = [Closed EXCEPT !.st = kind, !.id = opened + 1, !.uid = uid]]
    /\ opened' = opened + 1
    /\ UNCHANGED <<config, maps, listening, sent>>

UDPConnect(s, to) ==
    /\ sock[s].st = "udp" /\ sock[s].to = Unset
    /\ IF to.fam = "6" THEN Connect6(sock[s].uid) ELSE Connect4UDP(sock[s].uid, to)
    /\ sock' = [sock EXCEPT ![s].to = to]
    /\ UNCHANGED <<config, maps, opened, listening, sent>>

Send(s, to) ==
    /\ \/ sock[s].st = "other"
       \/ /\ sock[s].st = "udp"
          /\ \/ sock[s].to = to
             \/ IF to.fam = "6" THEN SendMsg6(sock[s].uid) ELSE SendMsg4(sock[s].uid, to)
    /\ sent' = [uid |-> sock[s].uid, kind |-> sock[s].st, to |-> to]
    /\ UNCHANGED <<config, sock, maps, opened, listening>>

-----------------------------------------------------------------------------
(* The maps' own losses, and time.                                         *)

EvictCookie(s) ==
    /\ sock[s].st = "redirected" /\ cookie[s] # Unset
    /\ cookie' = [cookie EXCEPT ![s] = Unset]
    /\ lost' = lost \cup {sock[s].id}
    /\ UNCHANGED <<config, sock, pair, stale, opened, listening, sent>>

EvictPair(p) ==
    /\ pair[p] # Unset
    /\ pair' = [pair EXCEPT ![p] = Unset]
    /\ UNCHANGED <<config, sock, cookie, stale, lost, opened, listening, sent>>

\* More than DestMaxAge passes.
Age ==
    /\ stale # 1 .. opened
    /\ stale' = 1 .. opened
    /\ UNCHANGED <<config, sock, cookie, pair, lost, opened, listening, sent>>

-----------------------------------------------------------------------------
(* The listener and the resolver.                                          *)

Accept ==
    /\ backlog # <<>>
    /\ backlog' = Tail(backlog)
    /\ handlers' = handlers \cup {Head(backlog)}
    /\ UNCHANGED <<config, sock, maps, opened, given, sent>>

\* The accept probe, the handshake limiter, a full semaphore or a drain closes
\* the connection without resolving it.
AcceptAndClose ==
    /\ backlog # <<>>
    /\ backlog' = Tail(backlog)
    /\ UNCHANGED <<config, sock, maps, opened, handlers, given, sent>>

Live(c) == \E s \in Socks : sock[s].id = c.id

\* The checks on a record after it is taken out of the map: not the proxy's
\* own, not older than DestMaxAge, not of this pod, and a real port.
Admissible(rec) ==
    /\ rec.uid # opts.uid
    /\ rec.id \notin stale
    /\ ~IsLoopback(rec.to.addr)
    /\ rec.to.port # 0

\* Resolve: look up and delete by the peer's port, then check the record; the
\* clock may be unreadable, which refuses it.
Resolve(c) ==
    /\ c \in handlers
    /\ handlers' = handlers \ {c}
    /\ pair' = [pair EXCEPT ![c.port] = Unset]
    /\ LET rec == pair[c.port]
       IN  \/ /\ rec # Unset /\ Admissible(rec)
              /\ given' = given \cup {[id |-> c.id, port |-> c.port, rec |-> rec, live |-> Live(c),
                                       old |-> rec.id \in stale, redirected |-> c.redirected]}
           \/ UNCHANGED given
    /\ UNCHANGED <<config, sock, cookie, stale, lost, opened, backlog, sent>>

-----------------------------------------------------------------------------
Over ==
    /\ phase = "refused" \/ (phase = "live" /\ opened = MaxSockets)
    /\ UNCHANGED vars

Next ==
    \/ Configure
    \/ \E s \in Socks, uid \in {AgentUID, ProxyUID}, to \in Dests, p \in Ports : Connect(s, uid, to, p)
    \/ \E s \in Socks : Established(s) \/ Close(s) \/ EvictCookie(s)
    \/ \E s \in Socks, uid \in {AgentUID, ProxyUID}, kind \in {"udp", "other"} : Create(s, uid, kind)
    \/ \E s \in Socks, to \in Dests : UDPConnect(s, to) \/ Send(s, to)
    \/ \E p \in Ports : EvictPair(p)
    \/ Age
    \/ Accept \/ AcceptAndClose
    \/ \E c \in handlers : Resolve(c)
    \/ Over

Spec == Init /\ [][Next]_vars

-----------------------------------------------------------------------------
(* Properties.                                                             *)

Configured(to, p) == Is4(p) /\ p.bits >= MinBypassBits /\ Masked(to.addr, p.bits) = p.addr

\* What may be reached uncaptured: the pod itself, the one configured DNS
\* endpoint, and a prefix the deployer named, of at least the minimum length.
Exempt(to) ==
    /\ to.fam = "4"
    /\ \/ IsLoopback(to.addr)
       \/ opts.dns # Unset /\ to.addr = opts.dns.addr /\ to.port = opts.dns.port
       \/ \E p \in opts.bypass : Configured(to, p)

\* Whatever configuration passes the two validations (config.Validate and
\* Options.Validate), a TCP connection that connect4 or connect6 leaves alone
\* goes to an exempt destination, unless it is made by the user that the
\* configuration names in proxyUID.  Whether that is the proxy's user is not
\* said here: see UidsAgree.
OnlyExemptUncaptured ==
    \A s \in Socks : sock[s].st = "direct" /\ sock[s].uid # opts.uid => Exempt(sock[s].to)

\* What Resolve answers: a record is given to one connection only, is not older
\* than DestMaxAge and was made for the connection's source port; and a
\* redirected connection that is still open gets the destination its own
\* connect asked for, whatever ports were used before and in whatever order
\* handlers run.  The one exception is a connection whose own record the maps
\* dropped on the way to pair_orig_dst: it may get that of an earlier user of
\* the port (see NeverInherited), and never that of a later one.
OwnDestination ==
    /\ \A g, h \in given : g.rec.id = h.rec.id => g = h
    /\ \A g \in given :
        /\ ~g.old /\ g.rec.port = g.port
        /\ g.live /\ g.redirected =>
              \/ g.rec.id = g.id
              \/ g.id \in lost /\ g.rec.id < g.id

\* With non-TCP blocked, a packet of any user but the configured proxyUID leaves
\* only for the configured DNS endpoint, in whatever order sockets are created,
\* connected and sent from; without, still no datagram leaves by IPv6.
DatagramsOnlyToDNS ==
    sent # Unset /\ sent.uid # opts.uid =>
        /\ opts.blockNonTCP =>
              opts.dns # Unset /\ sent.to.addr = opts.dns.addr /\ sent.to.port = opts.dns.port
        /\ sent.kind = "udp" => sent.to.fam = "4"
-----------------------------------------------------------------------------
(* Statements of the comments and the design that the code does not keep.  *)

\* aksh_capture.c:20-23 calls the divergence of the proxy's uid from that of the
\* programs, "a silent capture loop or a silent capture bypass", "exactly the
\* defect this removes".  A configuration may name any user but root: with
\* another than ProxyUID the proxy's connections are redirected to itself and
\* those of the user named are not captured.
UidsAgree ==
    /\ \A rec \in {cookie[s] : s \in Socks} \cup {pair[p] : p \in Ports} :
          rec # Unset => rec.uid # ProxyUID
    /\ \A s \in Socks : sock[s].st = "direct" /\ sock[s].uid # ProxyUID => Exempt(sock[s].to)

\* aksh_capture.c:342-343: "a stale record cannot be inherited by a later
\* connection".  sock_ops touches pair_orig_dst only when it finds the record
\* under the cookie: when that was evicted, an earlier record stays.
NeverInherited == \A g \in given : g.live /\ g.redirected => g.rec.id = g.id
-----------------------------------------------------------------------------
(* Why they hold: the inductive invariant.                                 *)

\* A record of the destination maps is a redirected socket as connect4 saw it.
Records == [st : {"redirected"}, id : 1 .. opened, uid : {AgentUID, ProxyUID},
            to : {d \in Dests : d.fam = "4" /\ ~IsLoopback(d.addr)}, port : Ports]

Calls == {backlog[i] : i \in DOMAIN backlog} \cup handlers

\* What the two validations and the image leave of a configuration.
ConfigInv ==
    /\ phase = "config" => cfg \in Layers
    /\ phase # "live" => opened = 0 /\ sent = Unset /\ sock = [s \in Socks |-> Closed]
    /\ phase = "live" =>
        /\ image.uid = opts.uid
        /\ image.enabled = TRUE /\ image.denyIPv6 = TRUE /\ image.blockNonTCP = opts.blockNonTCP
        /\ image.dns.addr # 0 =>
              /\ opts.dns # Unset
              /\ image.dns.addr = opts.dns.addr /\ image.dns.port = opts.dns.port
        /\ \A k \in keys : \E b \in opts.bypass : CanonicalBypassPrefix(b) /\ k = BypassKeyFor(b)

\* An open socket has a number and, while it has one, a port of its own.
SockInv ==
    /\ opened \in Nat
    /\ sock \in [Socks -> [st : {"closed", "redirected", "direct", "sent", "called", "udp", "other"},
                           id : 0 .. opened, uid : {0, AgentUID, ProxyUID},
                           to : Dests \cup {Unset}, port : Ports \cup {Unset}]]
    /\ \A s \in Socks : sock[s].st = "closed" <=> sock[s].id = 0
    /\ \A s \in Socks : sock[s].st \in {"redirected", "sent"} => sock[s].port \in Ports
    /\ \A s, t \in Socks : sock[s].id = sock[t].id /\ sock[s].id # 0 => s = t
    /\ \A s, t \in Socks : sock[s].port = sock[t].port /\ sock[s].port # Unset => s = t

\* A record is in one place: under a cookie, under a port, or given away.
RecordInv ==
    /\ cookie \in [Socks -> Records \cup {Unset}] /\ pair \in [Ports -> Records \cup {Unset}]
    /\ \A s, t \in Socks : cookie[s] # Unset /\ cookie[t] # Unset /\ cookie[s].id = cookie[t].id => s = t
    /\ \A p, q \in Ports : pair[p] # Unset /\ pair[q] # Unset /\ pair[p].id = pair[q].id => p = q
    /\ \A s \in Socks, p \in Ports : cookie[s] # Unset /\ pair[p] # Unset => cookie[s].id # pair[p].id
    /\ \A g \in given :
        /\ g.rec.id \in 1 .. opened
        /\ \A s \in Socks : cookie[s] # Unset => cookie[s].id # g.rec.id
        /\ \A p \in Ports : pair[p] # Unset => pair[p].id # g.rec.id

\* The record of an open connection is under its cookie until it is established
\* and then, if anything is, under its port; and who calls from that port is it.
OwnInv ==
    /\ backlog \in Seq([id : Nat, port : Ports, redirected : BOOLEAN])
    /\ \A s \in Socks : sock[s].st \in {"redirected", "direct"} /\ cookie[s] # Unset =>
          cookie[s].id = sock[s].id
    /\ \A s \in Socks : sock[s].st = "redirected" => cookie[s] # Unset \/ sock[s].id \in lost
    /\ \A s \in Socks : sock[s].st = "sent" /\ sock[s].id \notin lost =>
          pair[sock[s].port] = Unset \/ pair[sock[s].port].id = sock[s].id
    /\ \A c \in Calls :
        /\ c.id \in 1 .. opened /\ c.port \in Ports
        /\ \A s \in Socks : sock[s].id = c.id /\ c.redirected => sock[s].st = "sent" /\ sock[s].port = c.port

\* A socket of an ordinary user that is not TCP could only be made, or connected, where
\* its packets may go.
DatagramInv ==
    \A s \in Socks : sock[s].st \in {"udp", "other"} /\ sock[s].uid # opts.uid =>
        /\ sock[s].st = "other" => ~opts.blockNonTCP
        /\ sock[s].st = "udp" /\ sock[s].to # Unset =>
            /\ sock[s].to.fam = "4"
            /\ opts.blockNonTCP => /\ opts.dns # Unset
                                   /\ sock[s].to.addr = opts.dns.addr /\ sock[s].to.port = opts.dns.port

\* A record under a port was made for it, and not by a later connection than the
\* one that has the port.
PortInv ==
    /\ \A p \in Ports : pair[p] # Unset => pair[p].port = p
    /\ \A s \in Socks : sock[s].st \in {"redirected", "direct"} /\ cookie[s] # Unset =>
          cookie[s].port = sock[s].port
    /\ \A s \in Socks, p \in Ports : sock[s].port = p /\ pair[p] # Unset => pair[p].id <= sock[s].id

CaptureInv ==
    /\ ConfigInv /\ SockInv /\ RecordInv /\ OwnInv /\ DatagramInv
    /\ OnlyExemptUncaptured /\ OwnDestination /\ DatagramsOnlyToDNS

DatapathInv == CaptureInv /\ PortInv
=============================================================================
