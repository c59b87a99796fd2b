------------------------------- MODULE Listeners -------------------------------
(***************************************************************************)
(* The server's listeners on the local network: the encrypted one, the     *)
(* plaintext ones that the operator's switch makes, the certificate that   *)
(* net/lanPublisher.ts issues again when the machine's address changes,    *)
(* and the address and fingerprint that are given to devices.              *)
(*                                                                         *)
(* A bind is awaited, and the variable that holds the plaintext listener   *)
(* is assigned when it is done: two calls of setLanPlaintext can overlap.  *)
(***************************************************************************)
EXTENDS Host

CONSTANTS
    MaxPlain,       \* bound: plaintext listeners made
    MaxMoves        \* bound: times the machine's address changes

ASSUME ListenersAssumption == MaxPlain \in Nat \ {0} /\ MaxMoves \in Nat

VARIABLES
    plain,          \* the plaintext listeners: made, binding, open, closed
    net,            \* config.lan, the encrypted listener, plaintextServer, lanFailure
    pref,           \* shareOnLanUnencrypted, as the operator left it
    pub,            \* the machine's address, and LanPublisher
    disk,           \* lan-key.pem and lan-cert.pem
    crossed,        \* history: the switch was used while a bind was pending
    unissued        \* history: a certificate that could not be written, or not be adopted

lanVars == <<plain, net, pref, pub, disk, crossed, unissued>>

Listening == 1 .. MaxPlain
Addresses == 0 .. 2                         \* the machine's IPv4 address; 0: none
Name == 3                                   \* its hostname
Hosts == 1 .. 3
NoCert == [fp |-> 0, covers |-> {}, host |-> 0]

\* lan: config.lan; asked: shareOnLanUnencrypted at boot; stored: what is in
\* the two files: none, a pair, or the halves of two; named: the hostname is
\* one that a certificate can carry.
LanInit(lan, asked, stored, named) ==
    /\ plain = [l \in Listening |-> IF l = 1 /\ lan /\ asked THEN "made" ELSE "none"]
    /\ net = [lan |-> lan, secure |-> IF lan THEN "closed" ELSE "none",
              ref |-> IF lan /\ asked THEN 1 ELSE 0, failed |-> FALSE]
    /\ pref = asked
    /\ pub = [addr |-> 1, moves |-> 0, sig |-> 0, named |-> named, cert |-> NoCert,
              presented |-> 0, made |-> 2]
    /\ disk = stored
    /\ crossed = FALSE /\ unissued = {}

Binding == \E l \in Listening : plain[l] = "binding"

---------------------------------------------------------------------------
(* The certificate. *)

StaleUsable(addr) == disk.key = disk.cert /\ disk.cert # 0   \* mutant: the SAN is not looked at

\* defaultSanHosts: the hostname, and the address if there is one.
SanHosts(addr) == (IF addr = 0 THEN {} ELSE {addr}) \cup (IF pub.named THEN {Name} ELSE {})

\* publishHostFrom: the address; without one the hostname; or none.
PublishHost(addr) == IF addr # 0 THEN addr ELSE IF pub.named THEN Name ELSE 0

\* loadLanCertificate: the pair belongs together and covers every host.
Usable(addr) ==
    /\ disk.key = disk.cert /\ disk.cert # 0
    /\ SanHosts(addr) \subseteq disk.covers

\* ensureLanCertificate: the stored pair, or a new one, the key written first.
\* presented: what the listener has then.
Ensure(addr, presented) ==
    IF Usable(addr)
    THEN /\ pub' = [pub EXCEPT !.sig = addr, !.presented = presented,
                       !.cert = [fp |-> disk.cert, covers |-> disk.covers,
                                 host |-> PublishHost(addr)]]
         /\ UNCHANGED disk
    ELSE LET fp == pub.made + 1
         IN /\ pub' = [pub EXCEPT !.sig = addr, !.presented = presented, !.made = fp,
                          !.cert = [fp |-> fp, covers |-> SanHosts(addr),
                                    host |-> PublishHost(addr)]]
            /\ disk' = [key |-> fp, cert |-> fp, covers |-> SanHosts(addr)]

Issued(addr) == IF Usable(addr) THEN disk.cert ELSE pub.made + 1

\* The first certificate is issued in createServer, and the listener made with
\* it; a failure there is a failure to start.
CreateServer ==
    IF net.lan THEN Ensure(pub.addr, Issued(pub.addr)) ELSE UNCHANGED <<pub, disk>>

Watches == phase \in {"listening", "up", "stopping"} /\ net.lan

KnownIsKept == pub.sig = 0              \* mutant: only the first address is looked for

\* refresh: the candidates' signature is not the one of the last time.
Changed == pub.sig # pub.addr

Replaced == Issued(pub.addr) # pub.cert.fp

\* refresh, by the interval or at the operator's click: a certificate that is
\* another is put on the listener.
Refresh ==
    /\ Watches /\ Changed
    /\ Ensure(pub.addr, IF Replaced THEN Issued(pub.addr) ELSE pub.presented)
    /\ unissued' = IF Replaced THEN unissued \ {"adopted"} ELSE unissued
    /\ UNCHANGED <<plain, net, pref, crossed, phase, spent>>

\* setSecureContext throws: this is logged, the listener presents what it did,
\* and the publisher goes on with the new one.
RefreshNotAdopted ==
    /\ Watches /\ Changed /\ Replaced /\ Spend("faults")
    /\ Ensure(pub.addr, pub.presented)
    /\ unissued' = unissued \cup {"adopted"}
    /\ UNCHANGED <<plain, net, pref, crossed, phase>>

\* The files cannot be written: the signature is the new one by then, and the
\* interval swallows the error.
RefreshFails ==
    /\ Watches /\ Changed /\ ~Usable(pub.addr) /\ Spend("faults")
    /\ pub' = [pub EXCEPT !.sig = pub.addr, !.made = @ + 1]
    /\ disk' \in {disk, [disk EXCEPT !.key = pub.made + 1]}
    /\ unissued' = unissued \cup {"written"}
    /\ UNCHANGED <<plain, net, pref, crossed, phase>>

\* The machine gets another address, or loses its network.
Move(a) ==
    /\ Alive /\ net.lan /\ pub.moves < MaxMoves /\ a # pub.addr
    /\ pub' = [pub EXCEPT !.addr = a, !.moves = @ + 1]
    /\ UNCHANGED <<plain, net, pref, disk, crossed, unissued, phase, spent>>

---------------------------------------------------------------------------
(* listen *)

\* The two listeners are bound one after the other; if the first cannot be,
\* the second is not tried, and the reason is kept.
BindSecure ==
    /\ phase = "listening" /\ net.secure = "closed" /\ ~net.failed
    /\ net' = [net EXCEPT !.secure = "open"]
    /\ UNCHANGED <<plain, pref, pub, disk, crossed, unissued, phase, spent>>

BindFirst ==
    /\ phase = "listening" /\ net.secure # "closed" /\ ~net.failed
    /\ net.ref = 1 /\ plain[1] = "made"
    /\ plain' = [plain EXCEPT ![1] = "open"]
    /\ UNCHANGED <<net, pref, pub, disk, crossed, unissued, phase, spent>>

LanFailure == [net EXCEPT !.failed = TRUE]

Bound == net.failed \/ (net.secure # "closed" /\ (net.ref = 1 => plain[1] = "open"))

BindFails ==
    /\ phase = "listening" /\ ~Bound /\ Spend("faults")
    /\ net' = LanFailure
    /\ UNCHANGED <<plain, pref, pub, disk, crossed, unissued, phase>>

---------------------------------------------------------------------------
(* setLanEncrypted of main/index.ts: the preference is stored, and the      *)
(* server's setLanPlaintext called.                                         *)

SwitchOn ==
    /\ phase = "up" /\ Spend("user")
    /\ pref' = TRUE
    /\ crossed' = (crossed \/ Binding)
    /\ IF net.lan /\ net.ref = 0
       THEN \E l \in Listening :
               /\ plain[l] = "none" /\ \A j \in 1 .. l - 1 : plain[j] # "none"
               /\ plain' = [plain EXCEPT ![l] = "binding"]
       ELSE UNCHANGED plain
    /\ UNCHANGED <<net, pub, disk, unissued, phase>>

SwitchOff ==
    /\ phase = "up" /\ Spend("user")
    /\ pref' = FALSE
    /\ crossed' = (crossed \/ Binding)
    /\ IF net.lan /\ net.ref # 0
       THEN net' = [net EXCEPT !.ref = 0] /\ plain' = [plain EXCEPT ![net.ref] = "closed"]
       ELSE UNCHANGED <<net, plain>>
    /\ UNCHANGED <<pub, disk, unissued, phase>>

PlainBound(l) ==
    /\ Alive /\ plain[l] = "binding"
    /\ plain' = [plain EXCEPT ![l] = "open"]
    /\ net' = [net EXCEPT !.ref = l]
    /\ UNCHANGED <<pref, pub, disk, crossed, unissued, phase, spent>>

PlainFails(l) ==
    /\ Alive /\ plain[l] = "binding" /\ Spend("faults")
    /\ plain' = [plain EXCEPT ![l] = "closed"]
    /\ net' = LanFailure
    /\ UNCHANGED <<pref, pub, disk, crossed, unissued, phase>>

\* dispose closes what it knows of.
CloseListeners ==
    /\ plain' = IF net.ref = 0 THEN plain ELSE [plain EXCEPT ![net.ref] = "closed"]
    /\ net' = [net EXCEPT !.secure = IF @ = "open" THEN "closed" ELSE @]
    /\ UNCHANGED <<pref, pub, disk, crossed, unissued>>

LanNext ==
    \/ Refresh \/ RefreshNotAdopted \/ RefreshFails \/ BindSecure \/ BindFirst \/ BindFails
    \/ SwitchOn \/ SwitchOff
    \/ \E a \in Addresses : Move(a)
    \/ \E l \in Listening : PlainBound(l) \/ PlainFails(l)

---------------------------------------------------------------------------
(* What devices and the panel are told. *)

PlainOpen == net.ref # 0 /\ plain[net.ref] = "open"
NoEndpoint == [scheme |-> "none", host |-> 0, fp |-> 0]

\* currentLanEndpoint: plaintext wins when it is bound.
Endpoint ==
    CASE pub.cert.host = 0 -> NoEndpoint
      [] pub.cert.host # 0 /\ PlainOpen ->
            [scheme |-> "http", host |-> pub.cert.host, fp |-> 0]
      [] pub.cert.host # 0 /\ ~PlainOpen /\ net.secure = "open" ->
            [scheme |-> "https", host |-> pub.cert.host, fp |-> pub.cert.fp]
      [] OTHER -> NoEndpoint

\* currentLanStatus
LanState ==
    CASE ~net.lan -> "off"
      [] net.lan /\ net.failed /\ net.secure # "open" -> "failed"
      [] net.lan /\ ~(net.failed /\ net.secure # "open") /\ pub.cert.host = 0 -> "no-address"
      [] OTHER -> "listening"

---------------------------------------------------------------------------
(* Properties. *)

\* An encrypted address that is given out (in a QR code, for a client to pin)
\* is covered by the certificate that comes with it, and its fingerprint is the
\* one the bound listener presents: through changes of the address, the loss of
\* it, certificates that could not be written and halves of a pair left by a
\* crash.  Not so from the time the listener refused a certificate until it has
\* adopted another: the fingerprint is of the one that was refused.
PublishedIsPresented ==
    Alive /\ Endpoint.scheme = "https" =>
        /\ Endpoint.fp = pub.presented \/ "adopted" \in unissued
        /\ Endpoint.host \in pub.cert.covers

\* The panel is not told that the network is served while it is not, and with
\* sharing off nothing is (LanStatus).  That it failed is told, too, where the
\* plaintext listener was opened after the encrypted one could not be.
StatusIsTrue ==
    phase = "up" =>
        /\ LanState = "listening" => Endpoint # NoEndpoint
        /\ LanState = "off" => \A l \in Listening : plain[l] # "open"

\* With no bind pending, the plaintext listener is open exactly if the
\* operator wants it, and there is one at most - unless a bind has failed, or
\* the switch was used while a bind was pending (see SwitchIsObeyed).
PreferenceIsServed ==
    phase = "up" /\ ~crossed /\ ~net.failed /\ ~Binding =>
        LET open == {l \in Listening : plain[l] = "open"}
        IN /\ open # {} <=> (pref /\ net.lan)
           /\ Cardinality(open) <= 1

\* Used while a bind is pending or not, the switch is obeyed: with no bind
\* pending and none failed, nothing is open that the operator has switched off
\* ("The stored value is the user's decision; the listener is only its
\* consequence", main/index.ts:311).  Not so: setLanPlaintext assigns
\* plaintextServer when the bind is done, and finds nothing to close before.
SwitchIsObeyed ==
    phase = "up" /\ ~net.failed /\ ~Binding /\ ~pref =>
        \A l \in Listening : plain[l] # "open"

\* The three of them.
LanIsAsTold == PublishedIsPresented /\ StatusIsTrue /\ PreferenceIsServed

\* The address the machine has now, or its name, is the one that is published
\* before long, unless a certificate could not be written when it changed: that
\* change is not tried again, though the log says "will retry"
\* (lanPublisher.ts:96): the signature is the new one by then.
AddressIsPublished ==
    (phase = "up" /\ net.lan) ~>
        (pub.cert.host = PublishHost(pub.addr) \/ "written" \in unissued \/ phase # "up")
=============================================================================
