--------------------------------- MODULE Front ---------------------------------
(***************************************************************************)
(* What stands in front of the server on the tailnet: the certificates of  *)
(* the three strategies (edge/cert.go), and the reverse proxy with the     *)
(* identities it injects (edge/proxy.go).                                  *)
(***************************************************************************)
EXTENDS Settings

CONSTANTS
    Conns,          \* TLS handshakes and proxied requests
    Addresses,      \* of the tailnet
    Life,           \* how long a certificate is good for
    RenewBefore,    \* certRenewBefore
    PeerTtl,        \* peerCacheTTL
    Funnel          \* FunnelPeer

ASSUME FrontAssumption ==
    /\ Life \in Nat /\ RenewBefore \in Nat /\ RenewBefore < Life
    /\ PeerTtl \in Nat /\ Funnel \notin Addresses

VARIABLES
    now,
    node,           \* the node's MagicDNS name, and who has which address; history: when
                    \* a peer last lost an address
    certs,          \* the certificate provider
    peers,          \* whoisResolver.cache
    conns

frontVars == <<now, node, certs, peers, conns>>

NoCert == [name |-> None, until |-> 0]
NoPeer == [who |-> Funnel, until |-> 0, seen |-> 0]
NoConn == [at |-> "idle", want |-> None, got |-> NoCert, own |-> FALSE, addr |-> None, since |-> 0,
           peer |-> NoPeer, when |-> 0, secret |-> "none"]
\* own: history, the daemon gave the certificate to this very handshake.

FrontInit(strategy) ==
    /\ now = 0
    /\ node = [name |-> "n1", who |-> [a \in Addresses |-> a], lost |-> {}]
    /\ certs = [by |-> strategy, at |-> "built", cur |-> NoCert, renews |-> FALSE]
    /\ peers = [a \in Addresses |-> NoPeer]
    /\ conns = [c \in Conns |-> NoConn]

---------------------------------------------------------------------------
(* The provider. *)

\* TLSConfig, for the listener: dns01 obtains first, and not for ever; its cache
\* renews from then on.
TlsConfig ==
    /\ certs.at = "built"
    /\ certs' = [certs EXCEPT !.at = IF certs.by = "dns01" THEN "obtaining" ELSE "serving",
                              !.renews = certs.by = "dns01"]
    /\ UNCHANGED <<now, node, peers, conns>>

\* ManageSync, refreshExpiry.
Obtained ==
    /\ certs.at = "obtaining"
    /\ certs' = [certs EXCEPT !.at = "serving",
                              !.cur = [name |-> node.name, until |-> now + Life]]
    /\ UNCHANGED <<now, node, peers, conns>>

\* It fails, or its ten minutes are over; the edge closes the instance.
ObtainFails ==
    /\ certs.at = "obtaining"
    /\ certs' = [certs EXCEPT !.at = "closed", !.renews = FALSE]
    /\ UNCHANGED <<now, node, peers, conns>>

\* The maintenance of certmagic, until Close.
Renewed ==
    /\ certs.renews /\ certs.at = "serving" /\ now + RenewBefore >= certs.cur.until
    /\ certs' = [certs EXCEPT !.cur = [name |-> @.name, until |-> now + Life]]
    /\ UNCHANGED <<now, node, peers, conns>>

Fresh(cert) == now + RenewBefore < cert.until

\* certMatches: VerifyHostname.
Matches(cert, name) == cert.name = name

\* The connection is served with what the daemon gave it.
Serves(c, cert) ==
    [conns EXCEPT ![c] = [@ EXCEPT !.at = "open", !.got = cert, !.own = TRUE, !.when = now]]

\* getCertificate, up to the daemon: a client that sends no name gets the node's.
Handshake(c) ==
    /\ conns[c].at = "idle" /\ certs.at = "serving" /\ certs.by # "external-proxy"
    /\ Spend("user")
    /\ \E name \in {node.name, None}, a \in Addresses :
          LET want  == IF name = None THEN node.name ELSE name
              asked == [NoConn EXCEPT !.at = "asking", !.want = want, !.addr = a]
          IN conns' = IF certs.by = "dns01" \/ (Fresh(certs.cur) /\ Matches(certs.cur, want))
                      THEN [conns EXCEPT ![c] = [asked EXCEPT !.at = "open", !.got = certs.cur,
                                                              !.when = now]]
                      ELSE [conns EXCEPT ![c] = asked]
    /\ UNCHANGED <<now, node, certs, peers>>

\* A fronting proxy opens plain connections.
PlainOpens(c) ==
    /\ conns[c].at = "idle" /\ certs.at = "serving" /\ certs.by = "external-proxy"
    /\ Spend("user")
    /\ \E a \in Addresses :
          conns' = [conns EXCEPT ![c] = [NoConn EXCEPT !.at = "open", !.addr = a]]
    /\ UNCHANGED <<now, node, certs, peers>>

\* The daemon's CertPair: for the name asked, which it knows only while it is
\* the node's own, a certificate of whatever life is left to it, which is kept
\* and served as it is; or none, or nothing that parses.
CertPair(c) ==
    /\ conns[c].at = "asking"
    /\ \/ /\ conns[c].want = node.name
          /\ \E life \in {0, RenewBefore, Life} :
                LET cert == [name |-> conns[c].want, until |-> now + life]
                IN certs' = [certs EXCEPT !.cur = cert] /\ conns' = Serves(c, cert)
       \/ conns' = [conns EXCEPT ![c] = NoConn] /\ UNCHANGED certs
    /\ UNCHANGED <<now, node, peers>>

---------------------------------------------------------------------------
(* The proxy. *)

\* Peer: what is in the cache and has not run out.
Cached(c) ==
    IF now < peers[conns[c].addr].until THEN peers[conns[c].addr] ELSE NoPeer

\* ServeHTTP: headers are taken off first; then Peer, up to WhoIs.
Request(c) ==
    /\ conns[c].at = "open"
    /\ LET hit == Cached(c)
       IN conns' = [conns EXCEPT ![c] =
                      [@ EXCEPT !.at = IF hit = NoPeer THEN "whois" ELSE "forward",
                                !.peer = hit, !.since = now, !.when = now]]
    /\ UNCHANGED <<now, node, certs, peers>>

\* peerIdentity, or the fallback; kept from when it was asked.
WhoIs(c) ==
    /\ conns[c].at = "whois"
    /\ \E who \in {node.who[conns[c].addr], Funnel} :
          LET entry == [who |-> who, until |-> conns[c].since + PeerTtl, seen |-> now]
          IN /\ peers' = [peers EXCEPT ![conns[c].addr] = entry]
             /\ conns' = [conns EXCEPT ![c] = [@ EXCEPT !.at = "forward", !.peer = entry,
                                                        !.when = now]]
    /\ UNCHANGED <<now, node, certs>>

\* Rewrite: whatever the client sent, the secret is the edge's.
Forward(c) ==
    /\ conns[c].at = "forward"
    /\ conns' = [conns EXCEPT ![c] = [@ EXCEPT !.at = "upstream", !.secret = "edge"]]
    /\ UNCHANGED <<now, node, certs, peers>>

\* The server's answer; ErrorHandler's 503, or nothing to a client that left.
Upstream(c) ==
    /\ conns[c].at = "upstream"
    /\ conns' = [conns EXCEPT ![c] = NoConn]
    /\ UNCHANGED <<now, node, certs, peers>>

---------------------------------------------------------------------------
(* Around it. *)

\* Bound: faults.  The time; the node gets another name; an address another peer.
Tick ==
    /\ Spend("faults") /\ now' = now + 1
    /\ UNCHANGED <<node, certs, peers, conns>>

Renamed ==
    /\ Spend("faults")
    /\ node' = [node EXCEPT !.name = IF @ = "n1" THEN "n2" ELSE "n1"]
    /\ UNCHANGED <<now, certs, peers, conns>>

Lost(a) == [addr |-> a, who |-> node.who[a], at |-> now]

Readdressed ==
    /\ Spend("faults")
    /\ \E a, b \in Addresses :
          /\ a # b
          /\ node' = [node EXCEPT !.who[a] = node.who[b], !.who[b] = node.who[a],
                                  !.lost = @ \cup {Lost(a), Lost(b)}]
    /\ UNCHANGED <<now, certs, peers, conns>>

\* Close: stops the renewals that certmagic started.
CloseFront ==
    /\ certs.at = "serving" /\ Spend("faults")
    /\ certs' = [certs EXCEPT !.at = "closed", !.renews = FALSE]
    /\ UNCHANGED <<now, node, peers, conns>>

FrontNext ==
    \/ \/ TlsConfig \/ Obtained \/ ObtainFails \/ Renewed
       \/ \E c \in Conns : CertPair(c) \/ Request(c) \/ WhoIs(c) \/ Forward(c) \/ Upstream(c)
       /\ UNCHANGED spent
    \/ \E c \in Conns : Handshake(c) \/ PlainOpens(c)
    \/ Tick \/ Renamed \/ Readdressed \/ CloseFront

---------------------------------------------------------------------------
(* Properties. *)

\* What the control plane's strategy serves is for the name that was asked for,
\* whatever the node is called meanwhile and whoever fills the cache (certMatches:
\* "serving the previous tailnet's certificate would fail in the client"); and
\* one that is not good for a day more comes from the daemon at that very
\* handshake, never from the cache.  The daemon's own answer is not looked at.
ServedCertificateFits ==
    \A c \in Conns : conns[c].got # NoCert /\ certs.by = "control-plane" =>
        /\ conns[c].got.name = conns[c].want
        /\ conns[c].at = "open" /\ ~conns[c].own => conns[c].when + RenewBefore < conns[c].got.until

\* A peer that a request is said to come from has the address, or lost it no
\* longer ago than the time to live, however slow the lookups that filled the
\* cache and in whatever order they ended; otherwise it is the fallback.  And
\* the secret that goes with it is the edge's.
PeerIsRecent ==
    \A c \in Conns : conns[c].at \in {"forward", "upstream"} =>
        /\ LET who == conns[c].peer.who
               a   == conns[c].addr
           IN \/ who \in {Funnel, node.who[a]}
              \/ \E l \in node.lost : l.addr = a /\ l.who = who /\ conns[c].when <= l.at + PeerTtl
        /\ conns[c].at = "upstream" => conns[c].secret = "edge"

\* The two together: what stands in front of the server can be relied on.
FrontHolds == ServedCertificateFits /\ PeerIsRecent
=============================================================================
