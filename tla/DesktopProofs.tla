----------------------------- MODULE DesktopProofs -----------------------------
(***************************************************************************)
(* What the parts of the desktop application promise, for any scenarios    *)
(* and bounds, while the application starts, runs and quits: the helper    *)
(* that is installed, the listeners and the certificate on the local       *)
(* network, and the one sidecar that is wanted and shown.                  *)
(***************************************************************************)
EXTENDS Desktop, FiniteSetTheorems, TLAPS

---------------------------------------------------------------------------
(* The helper. *)

\* What the user has been shown is a file; a window that moves the partial file
\* into place has a digest of it that was confirmed, and one that downloads is
\* alone, unless two have downloaded at once.
HelperInv ==
  /\ fetches \in [Windows -> [at: {"idle", "fetching", "shown", "moving"},
                              got: Files \cup {"none"}, digest: Files \cup {"none"}]]
  /\ \A w \in Windows : fetches[w].at = "shown" => fetches[w].got \in Files
  /\ mixed \in BOOLEAN
  /\ mixed \/
     /\ helper.file = helper.digest
     /\ \A w \in Windows : fetches[w].at = "moving" => part \in {fetches[w].digest, "none"}
     /\ \A w \in Windows : fetches[w].at = "fetching" =>
           /\ part \in {"piece", "none"}
           /\ \A v \in Windows \ {w} : fetches[v].at \notin {"fetching", "moving"}


\* Nothing was downloaded at first.
LEMMA HelperInit == Init => HelperInv
<1> SUFFICES ASSUME NEW a, NEW b, PreInit(a, b) PROVE HelperInv
  BY DEF Init
<1>1. NoFetch \in [at: {"idle", "fetching", "shown", "moving"},
                   got: Files \cup {"none"}, digest: Files \cup {"none"}]
  BY DEF NoFetch
<1>2. fetches \in [Windows -> [at: {"idle", "fetching", "shown", "moving"},
                               got: Files \cup {"none"}, digest: Files \cup {"none"}]]
  BY <1>1 DEF PreInit
<1>3. \A w \in Windows : fetches[w].at = "idle"
  BY DEF PreInit, NoFetch
<1> QED
  BY <1>2, <1>3 DEF PreInit, HelperInv

\* What one window does.
LEMMA HelperStep ==
  ASSUME HelperInv, NEW w \in Windows,
         Install(w) \/ FetchFails(w) \/ Confirm(w) \/ MoveIntoPlace(w)
           \/ \E file \in Files : Fetched(w, file)
  PROVE  HelperInv'
<1>0. "none" \notin Files /\ "piece" \notin Files
  BY DEF Files
<1>1. CASE Install(w)
  BY <1>1 DEF Install, Outcome, Begins, NoFetch, HelperInv
<1>2. CASE FetchFails(w)
  BY <1>2 DEF FetchFails, Outcome, NoFetch, HelperInv
<1>3. CASE Confirm(w)
  <2>1. fetches[w].got \in Files /\ fetches[w].got # "none"
    BY <1>0, <1>3 DEF Confirm, HelperInv
  <2>2. CASE part = "none"
    <3>1. /\ Outcome(w, [at |-> "fetching", got |-> "none", digest |-> fetches[w].got])
          /\ part' = "piece" /\ Begins(w) /\ helper' = helper
      BY <1>3, <2>1, <2>2 DEF Confirm
    <3> QED
      BY <2>1, <3>1 DEF Outcome, Begins, HelperInv
  <2>3. CASE part = fetches[w].got
    <3>1. /\ Outcome(w, [fetches[w] EXCEPT !.at = "moving", !.digest = fetches[w].got])
          /\ part' = part /\ mixed' = mixed /\ helper' = helper
      BY <1>3, <2>1, <2>3 DEF Confirm
    <3>2. \A v \in Windows : fetches[v].at = "fetching" => mixed
      BY <1>0, <2>1, <2>3 DEF HelperInv
    <3> QED
      BY <2>1, <2>3, <3>1, <3>2 DEF Outcome, HelperInv
  <2>4. CASE part # "none" /\ part # fetches[w].got
    <3>1. /\ Outcome(w, NoFetch)
          /\ part' = "none" /\ mixed' = mixed /\ helper' = helper
      BY <1>3, <2>4 DEF Confirm
    <3> QED
      BY <3>1 DEF Outcome, NoFetch, HelperInv
  <2> QED
    BY <2>2, <2>3, <2>4
<1>4. CASE MoveIntoPlace(w)
  BY <1>4 DEF MoveIntoPlace, Outcome, NoFetch, HelperInv
<1>5. ASSUME NEW file \in Files, Fetched(w, file)
      PROVE  HelperInv'
  <2>1. CASE fetches[w].digest = "none"
    BY <1>5, <2>1 DEF Fetched, Outcome, HelperInv
  <2>2. CASE fetches[w].digest # "none" /\ fetches[w].digest = file
    BY <1>5, <2>2 DEF Fetched, Outcome, HelperInv
  <2>3. CASE fetches[w].digest # "none" /\ fetches[w].digest # file
    BY <1>5, <2>3 DEF Fetched, Outcome, NoFetch, HelperInv
  <2> QED
    BY <2>1, <2>2, <2>3
<1> QED
  BY <1>1, <1>2, <1>3, <1>4, <1>5

\* The rest of the application touches neither the partial file nor the helper.
LEMMA HelperFrame ==
  ASSUME [Next]_vars
  PROVE  \/ UNCHANGED fetchVars
         \/ \E w \in Windows :
               \/ Install(w) \/ FetchFails(w) \/ Confirm(w) \/ MoveIntoPlace(w)
               \/ \E file \in Files : Fetched(w, file)
<1>1. CASE Shell
  BY <1>1 DEF Shell, Acquire, Retry, RetryOver, OtherLeaves, KeepOther, ReplaceOther, Report,
              StartServer, ServerFails, Up, CloseWizard, QuitNow, EdgeStopped, Dispose, Uncaught,
              Exits, PromptNext, PromptListed, Answer, PanelDecides, Claim, Rest, parts, preVars,
              fetchVars
<1>2. CASE PreNext
  BY <1>2 DEF PreNext, Detect, WindowChecks, CheckAgain, RunCommand, CommandEnds
<1>3. CASE SupAlone \/ LanAlone \/ UNCHANGED vars
  BY <1>3 DEF SupAlone, LanAlone, vars, preVars, fetchVars
<1> QED
  BY <1>1, <1>2, <1>3 DEF Next

\* Every step keeps what was confirmed.
LEMMA HelperNext == HelperInv /\ [Next]_vars => HelperInv'
<1> SUFFICES ASSUME HelperInv, [Next]_vars PROVE HelperInv'
  OBVIOUS
<1>1. CASE UNCHANGED fetchVars
  BY <1>1 DEF fetchVars, HelperInv
<1> QED
  BY <1>1, HelperFrame, HelperStep

\* "The bytes installed are the bytes the user looked at", as long as one window
\* downloads at a time.
THEOREM InstalledAsConfirmed == Spec => []InstalledIsConfirmed
<1>1. HelperInv => InstalledIsConfirmed
  BY DEF HelperInv, InstalledIsConfirmed
<1> QED
  BY HelperInit, HelperNext, <1>1, PTL DEF Spec

---------------------------------------------------------------------------
(* The local network. *)

\* The application has not begun to quit.
Before == {"lock", "retry", "ask", "again", "checking", "parked", "server", "listening"}

PubType ==
  [addr: Addresses, moves: Nat, sig: Addresses, named: BOOLEAN, presented: Nat, made: Nat,
   cert: [fp: Nat, covers: SUBSET Hosts, host: Hosts \cup {0}]]
DiskType == [key: Nat, cert: Nat, covers: SUBSET Hosts]

LanType ==
  /\ plain \in [Listening -> {"none", "made", "binding", "open", "closed"}]
  /\ net \in [lan: BOOLEAN, secure: {"none", "closed", "open"}, ref: 0 .. MaxPlain, failed: BOOLEAN]
  /\ pref \in BOOLEAN /\ crossed \in BOOLEAN
  /\ pub \in PubType /\ disk \in DiskType
  /\ unissued \subseteq {"written", "adopted"}

\* The certificate that is given out is presented, unless the listener has
\* refused it, and covers its address.
CertInv ==
  /\ pub.cert.fp = pub.presented \/ "adopted" \in unissued
  /\ pub.cert.host # 0 => pub.cert.host \in pub.cert.covers

\* Without a local network nothing listens; with one the encrypted listener was
\* bound, or a bind has failed, before the application is up.
BoundInv ==
  /\ net.lan <=> net.secure # "none"
  /\ ~net.lan => net.ref = 0 /\ \A l \in Listening : plain[l] = "none"
  /\ phase = "up" => net.failed \/ net.secure # "closed"

\* The listener that is known is the only one that is open, and one is bound
\* only while none is known: until a bind fails or the switch is used meanwhile.
SwitchInv ==
  net.lan /\ ~crossed /\ ~net.failed /\ phase \in Before \cup {"up"} =>
    /\ pref <=> net.ref # 0 \/ Binding
    /\ \A l \in Listening : plain[l] = "open" => l = net.ref
    /\ \A l \in Listening : plain[l] = "binding" =>
          /\ net.ref = 0 /\ phase = "up"
          /\ \A j \in Listening : plain[j] = "binding" => j = l
    /\ phase = "up" /\ net.ref # 0 => plain[net.ref] = "open"
    /\ phase # "up" => net.ref \in {0, 1}

LanInv == LanType /\ CertInv /\ BoundInv /\ SwitchInv


\* Nothing listens at first.
LEMMA LanBegins ==
  ASSUME NEW lan \in BOOLEAN, NEW asked \in BOOLEAN,
         NEW stored \in DiskType, NEW named \in BOOLEAN,
         LanInit(lan, asked, stored, named), phase = "lock"
  PROVE  LanInv
<1>0. MaxPlain \in Nat /\ 1 \in Listening /\ 0 \in 0 .. MaxPlain /\ 1 \in 0 .. MaxPlain
  BY ListenersAssumption DEF Listening
<1>1. plain \in [Listening -> {"none", "made", "binding", "open", "closed"}]
  BY DEF LanInit
<1>2. /\ net \in [lan: BOOLEAN, secure: {"none", "closed", "open"}, ref: 0 .. MaxPlain, failed: BOOLEAN]
      /\ net.lan = lan /\ net.secure = (IF lan THEN "closed" ELSE "none")
      /\ net.ref = IF lan /\ asked THEN 1 ELSE 0
  <2>1. PICK secure \in {"none", "closed"} : secure = IF lan THEN "closed" ELSE "none"
    OBVIOUS
  <2>2. PICK ref \in {0, 1} : ref = IF lan /\ asked THEN 1 ELSE 0
    OBVIOUS
  <2>3. net = [lan |-> lan, secure |-> secure, ref |-> ref, failed |-> FALSE]
    BY <2>1, <2>2, Zenon DEF LanInit
  <2> QED
    BY <1>0, <2>1, <2>2, <2>3
<1>3. pub \in PubType /\ pub.cert.host = 0 /\ pub.cert.fp = pub.presented
  BY DEF LanInit, NoCert, Addresses, PubType
<1>4. /\ pref = asked /\ pref \in BOOLEAN /\ crossed \in BOOLEAN /\ disk = stored
      /\ unissued = {}
  BY DEF LanInit
<1>5. \A l \in Listening : plain[l] = IF l = 1 /\ lan /\ asked THEN "made" ELSE "none"
  BY DEF LanInit
<1>6. LanType /\ CertInv
  BY <1>1, <1>2, <1>3, <1>4 DEF LanType, CertInv
<1>7. BoundInv
  BY <1>2, <1>5 DEF BoundInv
<1>8. SwitchInv
  BY <1>2, <1>4, <1>5 DEF SwitchInv, Binding
<1> QED
  BY <1>6, <1>7, <1>8 DEF LanInv

\* The certificate that is loaded or issued covers the host that is published
\* with it.
LEMMA EnsureCert ==
  ASSUME LanType, NEW addr \in Addresses, NEW presented \in Nat, Ensure(addr, presented)
  PROVE  /\ pub' \in PubType /\ disk' \in DiskType
         /\ pub'.presented = presented /\ pub'.cert.fp = Issued(addr)
         /\ pub'.cert.host # 0 => pub'.cert.host \in pub'.cert.covers
<1>1. PICK hosts \in SUBSET Hosts, host \in Hosts \cup {0} :
        /\ hosts = SanHosts(addr) /\ host = PublishHost(addr)
        /\ host # 0 => host \in hosts
  <2>1. SanHosts(addr) \in SUBSET Hosts
    BY DEF SanHosts, Hosts, Addresses, Name
  <2>2. PublishHost(addr) \in Hosts \cup {0}
    BY DEF PublishHost, Hosts, Addresses, Name
  <2>3. PublishHost(addr) # 0 => PublishHost(addr) \in SanHosts(addr)
    BY DEF PublishHost, SanHosts, Name
  <2> QED
    BY <2>1, <2>2, <2>3
<1>2. CASE Usable(addr)
  <2>1. PICK fp \in Nat, covers \in SUBSET Hosts : fp = disk.cert /\ covers = disk.covers
    BY DEF LanType, DiskType
  <2>2. /\ pub' = [pub EXCEPT !.sig = addr, !.presented = presented,
                              !.cert = [fp |-> fp, covers |-> covers, host |-> host]]
        /\ disk' = disk /\ hosts \subseteq covers /\ Issued(addr) = fp
    BY <1>1, <1>2, <2>1 DEF Ensure, Usable, Issued
  <2> QED
    BY <1>1, <2>1, <2>2 DEF LanType, PubType
<1>3. CASE ~Usable(addr)
  <2>1. PICK fp \in Nat : fp = pub.made + 1
    BY DEF LanType, PubType
  <2>2. /\ pub' = [pub EXCEPT !.sig = addr, !.presented = presented, !.made = fp,
                              !.cert = [fp |-> fp, covers |-> hosts, host |-> host]]
        /\ disk' = [key |-> fp, cert |-> fp, covers |-> hosts] /\ Issued(addr) = fp
    BY <1>1, <1>3, <2>1 DEF Ensure, Issued
  <2> QED
    BY <1>1, <2>1, <2>2 DEF LanType, PubType, DiskType
<1> QED
  BY <1>2, <1>3

\* Its number is one.
LEMMA IssuedIsNat == ASSUME LanType PROVE Issued(pub.addr) \in Nat /\ pub.addr \in Addresses
BY DEF LanType, PubType, DiskType, Issued

\* Steps of the certificate.
LEMMA CertStep ==
  ASSUME LanInv, Refresh \/ RefreshNotAdopted \/ RefreshFails \/ \E a \in Addresses : Move(a)
  PROVE  LanInv'
<1>0. LanType /\ CertInv /\ pub.presented \in Nat /\ pub.addr \in Addresses
  BY DEF LanInv, LanType, PubType
<1>1. /\ pub' \in PubType /\ disk' \in DiskType /\ unissued' \subseteq {"written", "adopted"}
      /\ CertInv'
  <2>1. CASE Refresh
    <3>1. CASE Replaced
      <4>1. Ensure(pub.addr, Issued(pub.addr)) /\ unissued' = unissued \ {"adopted"}
        BY <2>1, <3>1 DEF Refresh
      <4> QED
        BY <1>0, <4>1, EnsureCert, IssuedIsNat DEF LanType, CertInv
    <3>2. CASE ~Replaced
      <4>1. Ensure(pub.addr, pub.presented) /\ unissued' = unissued
        BY <2>1, <3>2 DEF Refresh
      <4> QED
        BY <1>0, <3>2, <4>1, EnsureCert DEF Replaced, LanType, CertInv
    <3> QED
      BY <3>1, <3>2
  <2>2. CASE RefreshNotAdopted
    <3>1. Ensure(pub.addr, pub.presented) /\ unissued' = unissued \cup {"adopted"}
      BY <2>2 DEF RefreshNotAdopted
    <3> QED
      BY <1>0, <3>1, EnsureCert DEF LanType, CertInv
  <2>3. CASE RefreshFails
    <3>1. PICK fp \in Nat : fp = pub.made + 1
      BY <1>0 DEF LanType, PubType
    <3>2. /\ pub' = [pub EXCEPT !.sig = pub.addr, !.made = fp]
          /\ disk' \in {disk, [disk EXCEPT !.key = fp]}
          /\ unissued' = unissued \cup {"written"}
      BY <2>3, <3>1 DEF RefreshFails
    <3>3. pub' \in PubType /\ pub'.cert = pub.cert /\ pub'.presented = pub.presented
      BY <1>0, <3>1, <3>2 DEF LanType, PubType
    <3>4. disk' \in DiskType
      BY <1>0, <3>1, <3>2, ZenonT(60) DEF LanType, DiskType
    <3> QED
      BY <1>0, <3>2, <3>3, <3>4 DEF LanType, CertInv
  <2>4. ASSUME NEW a \in Addresses, Move(a)
        PROVE  /\ pub' \in PubType /\ disk' \in DiskType
               /\ unissued' \subseteq {"written", "adopted"} /\ CertInv'
    <3>1. PICK n \in Nat : n = pub.moves + 1
      BY <1>0 DEF LanType, PubType
    <3>2. pub' = [pub EXCEPT !.addr = a, !.moves = n] /\ disk' = disk /\ unissued' = unissued
      BY <2>4, <3>1 DEF Move
    <3> QED
      BY <1>0, <3>1, <3>2 DEF LanType, PubType, CertInv
  <2> QED
    BY <2>1, <2>2, <2>3, <2>4
<1>2. UNCHANGED <<plain, net, pref, crossed, phase>>
  BY DEF Refresh, RefreshNotAdopted, RefreshFails, Move
<1> QED
  BY <1>1, <1>2 DEF LanInv, LanType, BoundInv, SwitchInv, Binding

\* The listeners of the boot are bound, or cannot be.
LEMMA BindStep ==
  ASSUME LanInv, BindSecure \/ BindFirst \/ BindFails
  PROVE  LanInv'
<1>0. MaxPlain \in Nat /\ 1 \in Listening
  BY ListenersAssumption DEF Listening
<1>1. CASE BindSecure
  BY <1>1 DEF BindSecure, LanInv, LanType, CertInv, BoundInv, SwitchInv, Binding
<1>2. CASE BindFirst
  BY <1>0, <1>2 DEF BindFirst, LanInv, LanType, CertInv, BoundInv, SwitchInv, Binding
<1>3. CASE BindFails
  BY <1>3 DEF BindFails, LanFailure, LanInv, LanType, CertInv, BoundInv, SwitchInv, Binding
<1> QED
  BY <1>1, <1>2, <1>3

\* The operator's switch, and what comes of it.
LEMMA SwitchStep ==
  ASSUME LanInv, SwitchOn \/ SwitchOff \/ \E l \in Listening : PlainBound(l) \/ PlainFails(l)
  PROVE  LanInv'
<1>0. MaxPlain \in Nat /\ Listening \subseteq 0 .. MaxPlain /\ 0 \notin Listening
  BY ListenersAssumption DEF Listening
<1>1. CASE SwitchOn
  <2>1. crossed' \in BOOLEAN /\ (~crossed' => ~crossed /\ ~Binding)
    BY <1>1, Zenon DEF SwitchOn, LanInv, LanType, Binding
  <2>2. CASE net.lan /\ net.ref = 0
    <3>1. PICK l \in Listening : plain[l] = "none" /\ plain' = [plain EXCEPT ![l] = "binding"]
      BY <1>1, <2>2 DEF SwitchOn
    <3> QED
      BY <1>0, <1>1, <2>1, <2>2, <3>1 DEF SwitchOn, LanInv, LanType, CertInv, BoundInv, SwitchInv, Binding
  <2>3. CASE ~(net.lan /\ net.ref = 0)
    <3>1. plain' = plain
      BY <1>1, <2>3 DEF SwitchOn
    <3> QED
      BY <1>1, <2>1, <2>3, <3>1 DEF SwitchOn, LanInv, LanType, CertInv, BoundInv, SwitchInv, Binding
  <2> QED
    BY <2>2, <2>3
<1>2. CASE SwitchOff
  <2>1. crossed' \in BOOLEAN /\ (~crossed' => ~crossed /\ ~Binding)
    BY <1>2, Zenon DEF SwitchOff, LanInv, LanType, Binding
  <2>2. CASE net.lan /\ net.ref # 0
    <3>1. /\ net' = [net EXCEPT !.ref = 0] /\ plain' = [plain EXCEPT ![net.ref] = "closed"]
          /\ net.ref \in Listening /\ pref' = FALSE
          /\ UNCHANGED <<pub, disk, unissued, phase>>
      BY <1>0, <1>2, <2>2 DEF SwitchOff, LanInv, LanType, Listening
    <3>2. \A l \in Listening : plain'[l] = IF l = net.ref THEN "closed" ELSE plain[l]
      BY <3>1 DEF LanInv, LanType
    <3>3. net'.ref = 0 /\ net'.lan = net.lan /\ net'.failed = net.failed /\ net'.secure = net.secure
      BY <3>1 DEF LanInv, LanType
    <3>4. LanType'
      <4>1. plain' \in [Listening -> {"none", "made", "binding", "open", "closed"}]
        BY <3>1 DEF LanInv, LanType
      <4>2. net' \in [lan: BOOLEAN, secure: {"none", "closed", "open"}, ref: 0 .. MaxPlain, failed: BOOLEAN]
        BY <1>0, <3>1 DEF LanInv, LanType
      <4> QED
        BY <2>1, <3>1, <4>1, <4>2 DEF LanInv, LanType
    <3>5. CertInv' /\ BoundInv'
      BY <2>2, <3>1, <3>3 DEF LanInv, CertInv, BoundInv
    <3>6. SwitchInv'
      BY <1>0, <2>1, <3>1, <3>2, <3>3 DEF LanInv, SwitchInv, Binding
    <3> QED
      BY <3>4, <3>5, <3>6 DEF LanInv
  <2>3. CASE ~(net.lan /\ net.ref # 0)
    <3>1. plain' = plain /\ net' = net
      BY <1>2, <2>3 DEF SwitchOff
    <3> QED
      BY <1>2, <2>1, <2>3, <3>1 DEF SwitchOff, LanInv, LanType, CertInv, BoundInv, SwitchInv, Binding
  <2> QED
    BY <2>2, <2>3
<1>3. ASSUME NEW l \in Listening, PlainBound(l)
      PROVE  LanInv'
  BY <1>0, <1>3 DEF PlainBound, LanInv, LanType, CertInv, BoundInv, SwitchInv, Binding
<1>4. ASSUME NEW l \in Listening, PlainFails(l)
      PROVE  LanInv'
  BY <1>0, <1>4 DEF PlainFails, LanFailure, LanInv, LanType, CertInv, BoundInv, SwitchInv, Binding
<1> QED
  BY <1>1, <1>2, <1>3, <1>4


\* The rest of the application leaves the listeners as they are, but for what
\* starts it and what it does last.
LanUntouched == UNCHANGED lanVars

\* The steps of the application that the listeners see.
LEMMA LanShell ==
  ASSUME LanInv, Shell
  PROVE  LanInv'
<1>0. LanInv /\ MaxPlain \in Nat /\ Listening = 1 .. MaxPlain
  BY ListenersAssumption DEF Listening
<1>1. CASE StartServer
  <2>1. CASE net.lan
    <3>1. LanType /\ Ensure(pub.addr, Issued(pub.addr))
      BY <1>1, <2>1 DEF StartServer, CreateServer, LanInv
    <3>2. pub' \in PubType /\ disk' \in DiskType /\ CertInv'
      BY <3>1, EnsureCert, IssuedIsNat DEF CertInv
    <3> QED
      BY <1>1, <3>2 DEF StartServer, LanInv, LanType, BoundInv, SwitchInv, Binding, Before
  <2>2. CASE ~net.lan
    BY <1>1, <2>2 DEF StartServer, CreateServer, LanInv, LanType, CertInv, BoundInv, SwitchInv
  <2> QED
    BY <2>1, <2>2
<1>2. CASE Up
  <2>1. LanUntouched /\ phase = "listening" /\ phase' = "up" /\ Bound
    BY <1>2 DEF Up, lanVars, LanUntouched
  <2>2. net.ref = 1 /\ ~net.failed => plain[net.ref] = "open"
    BY <2>1 DEF Bound
  <2> QED
    BY <2>1, <2>2 DEF Bound, LanUntouched, lanVars, LanInv, LanType, CertInv, BoundInv, SwitchInv, Binding, Before
<1>3. CASE Dispose
  <2>1. /\ phase' = "gone" /\ UNCHANGED <<pref, pub, disk, crossed, unissued>>
        /\ plain' = IF net.ref = 0 THEN plain ELSE [plain EXCEPT ![net.ref] = "closed"]
        /\ net' = [net EXCEPT !.secure = IF @ = "open" THEN "closed" ELSE @]
    BY <1>3 DEF Dispose, CloseListeners
  <2>2. plain' \in [Listening -> {"none", "made", "binding", "open", "closed"}]
    BY <2>1 DEF LanInv, LanType
  <2>3. /\ net' \in [lan: BOOLEAN, secure: {"none", "closed", "open"}, ref: 0 .. MaxPlain, failed: BOOLEAN]
        /\ net'.lan = net.lan /\ net'.ref = net.ref /\ (net'.secure = "none" <=> net.secure = "none")
    BY <2>1 DEF LanInv, LanType
  <2>4. BoundInv'
    BY <2>1, <2>3 DEF LanInv, BoundInv
  <2> QED
    BY <2>1, <2>2, <2>3, <2>4 DEF LanInv, LanType, CertInv, SwitchInv, Before
<1>4. CASE ~(StartServer \/ Up \/ Dispose)
  <2>1. /\ LanUntouched
        /\ phase' \in Before => phase \in Before
        /\ phase' = "up" => phase = "up"
    BY <1>4 DEF Shell, Acquire, Retry, RetryOver, OtherLeaves, KeepOther, ReplaceOther, Report,
                ServerFails, CloseWizard, QuitNow, Quit, EdgeStopped, Uncaught, RequestLock,
                Exits, PromptNext, PromptListed, Answer, PanelDecides, Claim, Rest, parts, preVars,
                hostVars, lanVars, LanUntouched, Before
  <2>2. SwitchInv'
    BY <2>1 DEF LanUntouched, lanVars, LanInv, BoundInv, SwitchInv, Binding, Before
  <2> QED
    BY <2>1, <2>2 DEF LanUntouched, lanVars, LanInv, LanType, CertInv, BoundInv
<1> QED
  BY <1>1, <1>2, <1>3, <1>4

\* Every step keeps the local network in order.
LEMMA LanNextKeeps == LanInv /\ [Next]_vars => LanInv'
<1> SUFFICES ASSUME LanInv, [Next]_vars PROVE LanInv'
  OBVIOUS
<1>1. CASE Shell
  BY <1>1, LanShell
<1>2. CASE LanNext
  BY <1>2, CertStep, BindStep, SwitchStep DEF LanNext
<1>3. CASE (SupNext /\ SupAlone) \/ (PreNext /\ PreAlone) \/ UNCHANGED vars
  <2>1. LanUntouched
    BY <1>3 DEF SupAlone, PreAlone, vars, lanVars, LanUntouched
  <2>2. phase' = phase
    BY <1>3 DEF SupNext, PanelStarts, PanelStops, TimerFires, Calls, CallAnswered, CallReturns,
                CallFails, StartFails, Spawn, Writes, HearLine, Crash, Goes, Exit, Deadline,
                PreNext, Detect, WindowChecks, CheckAgain, RunCommand, CommandEnds, Install,
                FetchFails, Confirm, MoveIntoPlace, Fetched, hostVars, vars
  <2> QED
    BY <2>1, <2>2 DEF LanUntouched, lanVars, LanInv, LanType, CertInv, BoundInv, SwitchInv, Binding
<1> QED
  BY <1>1, <1>2, <1>3 DEF Next

\* The listeners are in order at first, in every scenario.
LEMMA LanInitially == Init => LanInv
<1> SUFFICES ASSUME NEW s \in Scenarios, phase = "lock", LanInit(s.lan, s.plaintext, s.stored, s.named)
             PROVE  LanInv
  BY DEF Init
<1>1. s.lan \in BOOLEAN /\ s.plaintext \in BOOLEAN /\ s.stored \in DiskType /\ s.named \in BOOLEAN
  BY DesktopAssumption DEF DiskType
<1> QED
  BY <1>1, LanBegins

\* What is given out, shown and stored about the local network is so, but for
\* what the history names: an encrypted address is covered by its certificate
\* and comes with the fingerprint that is presented (until the listener refuses
\* a certificate), the panel is told of a network that is served, and the
\* operator's switch is served (until a bind fails, or the switch is used while
\* one is pending).
THEOREM LanAsTold == Spec => []LanIsAsTold
<1>1. LanInv => PublishedIsPresented
  BY DEF LanInv, CertInv, PublishedIsPresented, Endpoint, NoEndpoint
<1>2. LanInv => StatusIsTrue
  BY DEF LanInv, LanType, BoundInv, StatusIsTrue, LanState, Endpoint, NoEndpoint, PlainOpen
<1>3. LanInv => PreferenceIsServed
  <2> SUFFICES ASSUME LanInv, phase = "up", ~crossed, ~net.failed, ~Binding,
                      NEW open, open = {l \in Listening : plain[l] = "open"}
               PROVE  (open # {} <=> (pref /\ net.lan)) /\ Cardinality(open) <= 1
    BY DEF PreferenceIsServed
  <2>1. open = {} \/ open = {net.ref}
    BY DEF LanInv, BoundInv, SwitchInv
  <2>2. open # {} <=> (pref /\ net.lan)
    <3>1. CASE ~net.lan
      BY <3>1 DEF LanInv, BoundInv
    <3>2. CASE net.lan
      <4>1. (pref <=> net.ref # 0) /\ (net.ref # 0 => plain[net.ref] = "open")
        BY <3>2 DEF LanInv, SwitchInv
      <4>2. net.ref \in 0 .. MaxPlain
        BY DEF LanInv, LanType
      <4>3. net.ref # 0 => net.ref \in Listening
        BY <4>2, ListenersAssumption DEF Listening
      <4>4. 0 \notin Listening
        BY DEF Listening
      <4> QED
        BY <2>1, <3>2, <4>1, <4>3, <4>4
    <3> QED
      BY <3>1, <3>2
  <2>3. Cardinality(open) <= 1
    <3>1. Cardinality({}) = 0
      BY FS_EmptySet, Zenon
    <3>2. Cardinality({net.ref}) = 1
      BY FS_Singleton, Zenon
    <3> QED
      BY <2>1, <3>1, <3>2
  <2> QED
    BY <2>2, <2>3
<1> QED
  BY LanInitially, LanNextKeeps, <1>1, <1>2, <1>3, PTL DEF Spec, LanIsAsTold

---------------------------------------------------------------------------
(* The sidecar. *)

KidType ==
  [life: {"none", "up", "going", "dead"}, n: Nat, lines: Seq(Nat), seen: BOOLEAN]

ShownStatus == [state: {"stopped", "starting", "live", "error"}, of: 0 .. MaxKids, n: Nat]
SupRec ==
  [child: 0 .. MaxKids, port: 0 .. MaxKids, timer: BOOLEAN, stopping: BOOLEAN, status: ShownStatus]

SupType ==
  /\ sup \in SupRec
  /\ kid \in [Kids -> KidType]
  /\ starts \subseteq Callers /\ stops \subseteq Kids
  /\ call \in [at: {"idle", "sent", "answered"}, kid: 0 .. MaxKids, n: Nat]
  /\ wanted \in BOOLEAN /\ raced \subseteq {"start", "stop", "line", "answer"}

\* The lines of a process that nobody has read yet are its last ones; an answer
\* tells no more than was written.
LinesInv ==
  /\ \A k \in Kids :
       /\ kid[k].life = "none" => ~kid[k].seen /\ kid[k].n = 0 /\ kid[k].lines = <<>>
       /\ kid[k].seen => kid[k].life = "dead"
       /\ \A i \in 1 .. Len(kid[k].lines) : kid[k].lines[i] + Len(kid[k].lines) = kid[k].n + i
  /\ call.at # "idle" => call.kid # 0
  /\ call.at = "answered" => call.n <= kid[call.kid].n

\* Nothing was started.
Idle == starts = {} /\ ~sup.timer /\ \A k \in Kids : kid[k].life = "none"

\* The process whose exit was not heard of is #child, and a start() awaits its
\* port only while there is none.
SingleInv ==
  "start" \notin raced =>
    /\ \A k \in Kids : kid[k].life # "none" /\ ~kid[k].seen => sup.child = k
    /\ starts # {} => sup.child = 0
    /\ \A a, b \in starts : a = b

Quits == {"stopping", "crashing", "disposing", "gone"}

\* A start() that awaits its port is wanted; what runs and is not wanted goes;
\* and when the application quits, what runs is waited for.
WantedInv ==
  raced \cap {"start", "stop"} = {} =>
    /\ starts # {} => wanted
    /\ ~wanted => \A k \in Kids : kid[k].life # "up"
    /\ phase \in Quits =>
         /\ starts = {} /\ ~sup.timer
         /\ \A k \in Kids : Runs(k) => k \in stops
         /\ sup.stopping \/ \A k \in Kids : kid[k].life = "none"
         /\ phase \in {"disposing", "gone"} => \A k \in Kids : ~Runs(k)

\* The status is of #child, and newer than all that was heard of it.
StatusInv ==
  raced = {} =>
    /\ sup.child = 0 => sup.status.state \in {"stopped", "error"}
    /\ sup.child # 0 =>
         /\ sup.status.state \in {"starting", "live"} /\ sup.status.of = sup.child
         /\ sup.status.n <= kid[sup.child].n
         /\ kid[sup.child].n <= sup.status.n + Len(kid[sup.child].lines)

SupCore == SupType /\ LinesInv /\ SingleInv /\ WantedInv /\ StatusInv

WorldType ==
  world \in [other: {"none", "running", "leaving", "gone"}, deaf: BOOLEAN, remote: BOOLEAN,
             setup: BOOLEAN, reach: BOOLEAN, told: BOOLEAN,
             said: {"none", "keep", "replace", "refused"}]

SupInv ==
  /\ WorldType /\ SupCore
  /\ phase \in Before \/ ~world.remote => Idle

\* A process is not 0, which is none.
LEMMA KidsAreNot0 == MaxKids \in Nat /\ 0 \notin Kids /\ Kids \subseteq 0 .. MaxKids /\ 0 \in 0 .. MaxKids
BY SupervisorAssumption DEF Kids

\* start(), asked for or by the timer, up to the await of its port.
LEMMA StartKeeps ==
  ASSUME SupCore, NEW who \in Callers, Start(who), UNCHANGED <<kid, stops, call>>,
         phase' \in Quits => phase' = phase /\ sup.timer
  PROVE  SupCore'
<1>1. PICK b \in BOOLEAN : b = IF who = "timer" THEN FALSE ELSE sup.timer
  <2>1. (IF who = "timer" THEN FALSE ELSE sup.timer) \in BOOLEAN
    BY DEF SupCore, SupType, SupRec
  <2> QED
    BY <2>1, Zenon
<1>2. LinesInv'
  BY DEF SupCore, LinesInv
<1>3. CASE Running
  <2>1. sup' = [sup EXCEPT !.timer = b] /\ UNCHANGED <<starts, raced>> /\ wanted' = TRUE
    BY <1>1, <1>3 DEF Start
  <2>2. /\ sup' \in SupRec /\ sup'.child = sup.child /\ sup'.status = sup.status
        /\ sup'.stopping = sup.stopping /\ sup'.timer = b
    BY <2>1 DEF SupCore, SupType, SupRec
  <2>3. SupType' /\ SingleInv' /\ StatusInv'
    BY <2>1, <2>2 DEF SupCore, SupType, SingleInv, StatusInv
  <2>4. WantedInv'
    BY <2>1, <2>2 DEF SupCore, WantedInv, Runs
  <2> QED
    BY <1>2, <2>3, <2>4 DEF SupCore
<1>4. CASE ~Running
  <2>1. /\ sup' = [[sup EXCEPT !.timer = b] EXCEPT !.stopping = FALSE]
        /\ starts' = starts \cup {who} /\ wanted' = TRUE
        /\ raced' = IF starts = {} THEN raced ELSE raced \cup {"start"}
    BY <1>1, <1>4, Zenon DEF Start
  <2>2. /\ sup' \in SupRec /\ sup'.child = sup.child /\ sup'.status = sup.status
        /\ sup.child = 0
    BY <1>4, <2>1 DEF SupCore, SupType, SupRec, Running
  <2>3. SupType'
    BY <2>1, <2>2 DEF SupCore, SupType
  <2>4. SingleInv'
    BY <2>1, <2>2 DEF SupCore, SingleInv
  <2>5. WantedInv'
    BY <2>1 DEF SupCore, WantedInv
  <2>6. StatusInv'
    BY <2>1, <2>2 DEF SupCore, StatusInv
  <2> QED
    BY <1>2, <2>3, <2>4, <2>5, <2>6 DEF SupCore
<1> QED
  BY <1>3, <1>4

\* stop(), by the panel, by will-quit or by the handler of an error.
LEMMA StopKeeps ==
  ASSUME SupCore, AskStop, phase' \notin {"disposing", "gone"}
  PROVE  SupCore'
<1>0. 0 \notin Kids /\ (sup.child # 0 => sup.child \in Kids)
  BY KidsAreNot0 DEF SupCore, SupType, SupRec, Kids
<1>1. sup' = [sup EXCEPT !.stopping = TRUE, !.timer = FALSE] /\ starts' = starts /\ call' = call
  BY DEF AskStop
<1>2. /\ sup' \in SupRec /\ sup'.child = sup.child /\ sup'.status = sup.status
      /\ sup'.stopping = TRUE /\ sup'.timer = FALSE
  BY <1>1 DEF SupCore, SupType, SupRec
<1>3. /\ wanted' = FALSE
      /\ raced' = IF starts = {} THEN raced ELSE raced \cup {"stop"}
  BY DEF AskStop
<1>4. /\ kid' \in [Kids -> KidType] /\ stops' \subseteq Kids
      /\ \A k \in Kids :
           /\ kid'[k].n = kid[k].n /\ kid'[k].lines = kid[k].lines /\ kid'[k].seen = kid[k].seen
           /\ kid'[k].life = IF k = sup.child /\ kid[k].life = "up" THEN "going" ELSE kid[k].life
      /\ sup.child # 0 => sup.child \in stops'
      /\ stops \subseteq stops'
  <2>1. CASE Running
    <3>1. /\ kid' = [kid EXCEPT ![sup.child].life = IF @ = "up" THEN "going" ELSE @]
          /\ stops' = stops \cup {sup.child} /\ sup.child \in Kids
      BY <1>0, <2>1 DEF AskStop, Running
    <3> QED
      BY <3>1 DEF SupCore, SupType, KidType
  <2>2. CASE ~Running
    BY <1>0, <2>2 DEF AskStop, Running, SupCore, SupType
  <2> QED
    BY <2>1, <2>2
<1>5. SupType'
  BY <1>1, <1>2, <1>3, <1>4 DEF SupCore, SupType
<1>6. LinesInv'
  <2>1. call.at # "idle" => call.kid \in Kids
    BY DEF SupCore, SupType, LinesInv, Kids
  <2>2. \A k \in Kids :
          /\ kid'[k].life = "none" => kid[k].life = "none"
          /\ kid[k].life = "dead" => kid'[k].life = "dead"
    BY <1>4
  <2> QED
    BY <1>1, <1>4, <2>1, <2>2 DEF SupCore, LinesInv
<1>7. SingleInv'
  BY <1>1, <1>2, <1>3, <1>4 DEF SupCore, SingleInv
<1>8. WantedInv'
  <2> SUFFICES ASSUME raced' \cap {"start", "stop"} = {} PROVE
        /\ starts' = {}
        /\ \A k \in Kids : kid'[k].life # "up"
        /\ \A k \in Kids : Runs(k)' => k \in stops'
    BY <1>2, <1>3 DEF WantedInv
  <2>1. starts = {} /\ raced' = raced /\ "start" \notin raced
    BY <1>3
  <2>2. \A k \in Kids : Runs(k) => sup.child = k
    BY <2>1 DEF SupCore, SingleInv, LinesInv, Runs
  <2>3. \A k \in Kids : Runs(k)' => Runs(k)
    BY <1>4 DEF Runs
  <2> QED
    BY <1>0, <1>1, <1>4, <2>1, <2>2, <2>3 DEF Runs
<1>9. StatusInv'
  BY <1>0, <1>2, <1>3, <1>4 DEF SupCore, StatusInv
<1> QED
  BY <1>5, <1>6, <1>7, <1>8, <1>9 DEF SupCore

\* A sum grows with its terms.
LEMMA BothGrow ==
  ASSUME NEW a \in Nat, NEW b \in Nat, NEW c \in Nat, NEW i \in Nat, a + c = b + i
  PROVE  a + (c + 1) = (b + 1) + i
OBVIOUS

\* The process of a request is a process.
LEMMA CallKid == SupCore /\ call.at # "idle" => call.kid \in Kids
BY DEF SupCore, SupType, LinesInv, Kids

\* The process of a start() that awaits its port is spawned.
LEMMA SpawnKeeps ==
  ASSUME SupCore, NEW who \in Callers, NEW k \in Kids, Spawn(who, k)
  PROVE  SupCore'
<1>0. k # 0 /\ k \in 0 .. MaxKids /\ 0 \in Nat
  BY KidsAreNot0
<1>1. /\ kid' \in [Kids -> KidType]
      /\ \A j \in Kids : j # k => kid'[j] = kid[j]
      /\ kid'[k].life = "up" /\ kid'[k].n = 0 /\ kid'[k].lines = <<>> /\ ~kid'[k].seen
      /\ kid[k].life = "none" /\ kid[k].n = 0 /\ ~kid[k].seen
  <2>1. kid[k] \in KidType /\ kid[k].life = "none" /\ kid[k].n = 0 /\ kid[k].lines = <<>> /\ kid[k].seen = FALSE
    BY DEF Spawn, SupCore, SupType, LinesInv, KidType
  <2>2. kid' = [kid EXCEPT ![k] = [kid[k] EXCEPT !.life = "up"]]
    BY DEF Spawn, SupCore, SupType
  <2>3. ASSUME NEW r \in KidType, NEW t, t = [r EXCEPT !.life = "up"]
        PROVE  t \in KidType /\ t.life = "up" /\ t.n = r.n /\ t.lines = r.lines /\ t.seen = r.seen
    BY <2>3 DEF KidType
  <2> QED
    BY <2>1, <2>2, <2>3 DEF SupCore, SupType
<1>2. /\ sup' \in SupRec /\ sup'.child = k /\ sup'.status = Status("starting", k, 0)
      /\ sup'.timer = sup.timer /\ sup'.stopping = sup.stopping
  <2>1. Status("starting", k, 0) \in ShownStatus
    BY <1>0 DEF Status, ShownStatus
  <2> QED
    BY <1>0, <2>1 DEF Spawn, SupCore, SupType, SupRec
<1>3. starts' = starts \ {who} /\ who \in starts /\ UNCHANGED <<stops, call, wanted, raced, phase>>
  BY DEF Spawn, hostVars
<1>4. SupType'
  BY <1>1, <1>2, <1>3 DEF SupCore, SupType
<1>5. LinesInv'
  BY <1>1, <1>3, CallKid DEF SupCore, LinesInv
<1>6. SingleInv'
  <2> SUFFICES ASSUME "start" \notin raced
               PROVE  starts' = {} /\ \A j \in Kids : kid'[j].life # "none" /\ ~kid'[j].seen => j = k
    BY <1>2, <1>3 DEF SingleInv
  <2>1. sup.child = 0 /\ starts' = {}
    BY <1>3 DEF SupCore, SingleInv
  <2>2. \A j \in Kids : ~(kid[j].life # "none" /\ ~kid[j].seen)
    BY <2>1, KidsAreNot0 DEF SupCore, SingleInv
  <2> QED
    BY <1>1, <2>1, <2>2
<1>7. WantedInv'
  BY <1>3 DEF SupCore, SingleInv, WantedInv
<1>8. StatusInv'
  BY <1>0, <1>1, <1>2, <1>3 DEF SupCore, StatusInv, Status
<1> QED
  BY <1>4, <1>5, <1>6, <1>7, <1>8 DEF SupCore

\* There is no port, or no binary.
LEMMA StartFailsKeeps ==
  ASSUME SupCore, NEW who \in Callers, StartFails(who)
  PROVE  SupCore'
<1>1. PICK b \in BOOLEAN : b = (sup.timer \/ who = "timer")
  <2>1. (sup.timer \/ who = "timer") \in BOOLEAN
    OBVIOUS
  <2> QED
    BY <2>1, Zenon
<1>2. sup' = [sup EXCEPT !.timer = b]
  BY <1>1, Zenon DEF StartFails
<1>3. /\ sup' \in SupRec /\ sup'.child = sup.child /\ sup'.status = sup.status
      /\ sup'.stopping = sup.stopping
  BY <1>2 DEF SupCore, SupType, SupRec
<1>4. /\ starts' = starts \ {who} /\ who \in starts /\ UNCHANGED <<kid, stops, call, raced, phase>>
  BY DEF StartFails
<1>5. wanted' \in BOOLEAN
  BY Zenon DEF StartFails
<1>6. SupType' /\ LinesInv' /\ SingleInv' /\ StatusInv'
  BY <1>3, <1>4, <1>5 DEF SupCore, SupType, LinesInv, SingleInv, StatusInv
<1>7. WantedInv'
  <2> SUFFICES ASSUME raced \cap {"start", "stop"} = {} PROVE
        /\ starts' = {} /\ \A k \in Kids : kid[k].life # "up"
        /\ phase \notin Quits
    BY <1>4 DEF WantedInv
  <2>1. starts' = {} /\ sup.child = 0 /\ phase \notin Quits
    BY <1>4 DEF SupCore, SingleInv, WantedInv
  <2>2. \A k \in Kids : kid[k].life # "up"
    BY <2>1, KidsAreNot0 DEF SupCore, SingleInv, LinesInv
  <2> QED
    BY <2>1, <2>2
<1> QED
  BY <1>6, <1>7 DEF SupCore

\* A process writes, and crashes or goes: nothing is heard of it yet.
LEMMA ProcessKeeps ==
  ASSUME SupCore, NEW k \in Kids, Writes(k) \/ Crash(k) \/ Goes(k) \/ Deadline(k)
  PROVE  SupCore'
<1>0. k # 0 /\ MaxStatus \in Nat
  BY KidsAreNot0, SupervisorAssumption
<1>1. kid[k] \in KidType /\ kid[k].n \in Nat /\ kid[k].lines \in Seq(Nat) /\ kid[k].life \in {"up", "going"} /\ kid[k].seen \in BOOLEAN
  BY DEF SupCore, SupType, KidType, Writes, Crash, Goes, Deadline, Runs
<1>2. /\ UNCHANGED <<sup, starts, call, wanted, raced, phase>>
      /\ stops' \subseteq stops
      /\ \A j \in Kids : j # k /\ j \in stops => j \in stops'
  BY DEF Writes, Crash, Goes, Deadline, hostVars
<1>3. CASE Writes(k)
  <2>1. PICK n \in Nat : n = kid[k].n + 1
    BY <1>1
  <2> DEFINE lines == Append(kid[k].lines, n)
  <2>2. lines \in Seq(Nat)
    BY <1>1, <2>1
  <2>3. /\ Len(lines) = Len(kid[k].lines) + 1 /\ Len(kid[k].lines) \in Nat
        /\ \A i \in 1 .. Len(lines) :
              lines[i] = IF i = Len(lines) THEN n ELSE kid[k].lines[i]
    BY <1>1, <2>1, <2>2
  <2>4. kid' = [kid EXCEPT ![k] = [kid[k] EXCEPT !.n = n, !.lines = lines]]
    BY <1>3, <2>1, <2>2 DEF Writes, SupCore, SupType
  <2> HIDE DEF lines
  <2>5. /\ kid' \in [Kids -> KidType] /\ \A j \in Kids : j # k => kid'[j] = kid[j]
        /\ kid'[k].n = n /\ kid'[k].lines = lines
        /\ kid'[k].life = kid[k].life /\ kid'[k].seen = kid[k].seen
    BY <1>1, <2>1, <2>2, <2>4 DEF SupCore, SupType, KidType
  <2>6. SupType'
    BY <1>2, <2>5 DEF SupCore, SupType
  <2>7. LinesInv'
    <3>1. \A i \in 1 .. Len(kid[k].lines) : kid[k].lines[i] + Len(kid[k].lines) = kid[k].n + i
      BY DEF SupCore, LinesInv
    <3>2. \A i \in 1 .. Len(lines) : lines[i] + Len(lines) = n + i
      <4> SUFFICES ASSUME NEW i \in 1 .. Len(lines) PROVE lines[i] + Len(lines) = n + i
        OBVIOUS
      <4>1. CASE i = Len(lines)
        BY <2>1, <2>3, <4>1
      <4>2. CASE i # Len(lines)
        <5>1. i \in 1 .. Len(kid[k].lines)
          BY <1>1, <2>3, <4>2
        <5>2. kid[k].lines[i] \in Nat
          BY <1>1, <5>1
        <5>3. lines[i] = kid[k].lines[i]
          BY <2>3, <4>2
        <5>4. kid[k].lines[i] + Len(kid[k].lines) = kid[k].n + i
          BY <3>1, <5>1
        <5>5. PICK a \in Nat, b \in Nat, c \in Nat :
                 a = kid[k].lines[i] /\ b = kid[k].n /\ c = Len(kid[k].lines)
          BY <1>1, <2>3, <5>2
        <5>6. i \in Nat /\ a + c = b + i
          BY <2>3, <5>1, <5>4, <5>5
        <5>7. a + (c + 1) = (b + 1) + i
          BY <5>6, BothGrow
        <5> QED
          BY <2>1, <2>3, <5>3, <5>5, <5>7
      <4> QED
        BY <4>1, <4>2
    <3>3. call.at = "answered" => call.n <= kid'[call.kid].n
      <4>1. call.n \in Nat
        BY DEF SupCore, SupType
      <4> QED
        BY <1>1, <2>1, <2>5, <4>1, CallKid DEF SupCore, LinesInv
    <3>4. \A j \in Kids : \A i \in 1 .. Len(kid'[j].lines) :
             kid'[j].lines[i] + Len(kid'[j].lines) = kid'[j].n + i
      BY <2>5, <3>2 DEF SupCore, LinesInv
    <3> QED
      BY <1>1, <1>2, <2>5, <3>3, <3>4 DEF SupCore, LinesInv
  <2>8. SingleInv'
    BY <1>2, <2>5 DEF SupCore, SingleInv
  <2>9. WantedInv'
    <3>1. \A j \in Kids : kid'[j].life = kid[j].life
      BY <2>5
    <3>2. stops' = stops
      BY <1>3 DEF Writes
    <3> QED
      BY <1>2, <3>1, <3>2 DEF SupCore, WantedInv, Runs
  <2>10. StatusInv'
    <3>1. sup.status.n \in Nat /\ (sup.child # 0 => sup.child \in Kids)
      BY DEF SupCore, SupType, SupRec, ShownStatus, Kids
    <3>2. CASE sup.child = k
      <4> SUFFICES ASSUME raced = {}
                   PROVE  sup.status.n <= n /\ n <= sup.status.n + Len(lines)
        BY <1>0, <1>2, <2>5, <3>2 DEF SupCore, StatusInv
      <4>1. sup.status.n <= kid[k].n /\ kid[k].n <= sup.status.n + Len(kid[k].lines)
        BY <1>0, <3>2 DEF SupCore, StatusInv
      <4>2. PICK a \in Nat, b \in Nat, c \in Nat :
               a = sup.status.n /\ b = kid[k].n /\ c = Len(kid[k].lines)
        BY <1>1, <2>3, <3>1
      <4>3. a <= b /\ b <= a + c
        BY <4>1, <4>2
      <4>4. a <= b + 1 /\ b + 1 <= a + (c + 1)
        BY <4>3
      <4> QED
        BY <2>1, <2>3, <4>2, <4>4
    <3>3. CASE sup.child # k
      BY <1>2, <2>5, <3>1, <3>3 DEF SupCore, StatusInv
    <3> QED
      BY <3>2, <3>3
  <2> QED
    BY <2>6, <2>7, <2>8, <2>9, <2>10 DEF SupCore
<1>4. CASE Crash(k) \/ Goes(k) \/ Deadline(k)
  <2>1. kid' = [kid EXCEPT ![k] = [kid[k] EXCEPT !.life = "dead"]]
    BY <1>4 DEF Crash, Goes, Deadline, SupCore, SupType
  <2>2. /\ kid' \in [Kids -> KidType] /\ \A j \in Kids : j # k => kid'[j] = kid[j]
        /\ kid'[k].n = kid[k].n /\ kid'[k].lines = kid[k].lines
        /\ kid'[k].life = "dead" /\ kid'[k].seen = kid[k].seen
    BY <1>1, <2>1 DEF SupCore, SupType, KidType
  <2>3. SupType'
    BY <1>2, <2>2 DEF SupCore, SupType
  <2>4. LinesInv'
    BY <1>2, <2>2, CallKid DEF SupCore, LinesInv
  <2>5. SingleInv'
    BY <1>1, <1>2, <2>2 DEF SupCore, SingleInv
  <2>6. WantedInv'
    <3>1. \A j \in Kids : Runs(j)' => Runs(j) /\ j # k
      BY <2>2 DEF Runs
    <3>2. \A j \in Kids : kid'[j].life = "up" => kid[j].life = "up"
      BY <2>2
    <3> QED
      BY <1>1, <1>2, <3>1, <3>2 DEF SupCore, WantedInv
  <2>7. StatusInv'
    <3>1. sup.child # 0 => sup.child \in Kids
      BY DEF SupCore, SupType, SupRec, Kids
    <3> QED
      BY <1>2, <2>2, <3>1 DEF SupCore, StatusInv
  <2> QED
    BY <2>3, <2>4, <2>5, <2>6, <2>7 DEF SupCore
<1> QED
  BY <1>3, <1>4

\* The first of the lines that wait is heard of.
LEMMA LineKeeps ==
  ASSUME SupCore, NEW k \in Kids, HearLine(k)
  PROVE  SupCore'
<1> DEFINE old == kid[k].lines
           lines == Tail(kid[k].lines)
<1>0. k # 0 /\ k \in 0 .. MaxKids
  BY KidsAreNot0
<1>1. kid[k] \in KidType /\ kid[k].n \in Nat /\ old \in Seq(Nat) /\ old # <<>>
  BY DEF SupCore, SupType, KidType, HearLine
<1>2. /\ lines \in Seq(Nat) /\ Len(lines) \in Nat /\ Len(old) = Len(lines) + 1
      /\ Head(old) = old[1] /\ old[1] \in Nat
      /\ \A i \in 1 .. Len(lines) : lines[i] = old[i + 1] /\ i + 1 \in 1 .. Len(old) /\ old[i + 1] \in Nat
  BY <1>1, SMTT(30)
<1>3. /\ UNCHANGED <<starts, stops, call, wanted, phase>>
      /\ raced' = IF sup.child = k THEN raced ELSE raced \cup {"line"}
      /\ kid' = [kid EXCEPT ![k] = [kid[k] EXCEPT !.lines = lines]]
      /\ sup' = [sup EXCEPT !.status = Status("live", k, old[1])]
  BY <1>2 DEF HearLine, hostVars, SupCore, SupType
<1>4. old[1] + Len(old) = kid[k].n + 1
      /\ \A i \in 1 .. Len(lines) : old[i + 1] + Len(old) = kid[k].n + (i + 1)
  <2>1. \A i \in 1 .. Len(old) : old[i] + Len(old) = kid[k].n + i
    BY DEF SupCore, LinesInv
  <2>2. 1 \in 1 .. Len(old)
    BY <1>2
  <2> QED
    BY <1>2, <2>1, <2>2
<1> HIDE DEF old, lines
<1>5. /\ kid' \in [Kids -> KidType] /\ \A j \in Kids : j # k => kid'[j] = kid[j]
      /\ kid'[k].n = kid[k].n /\ kid'[k].lines = lines
      /\ kid'[k].life = kid[k].life /\ kid'[k].seen = kid[k].seen
  BY <1>1, <1>2, <1>3 DEF SupCore, SupType, KidType
<1>6. /\ sup' \in SupRec /\ sup'.child = sup.child /\ sup'.status = Status("live", k, old[1])
      /\ sup'.timer = sup.timer /\ sup'.stopping = sup.stopping
  <2>1. Status("live", k, old[1]) \in ShownStatus
    BY <1>0, <1>2 DEF Status, ShownStatus
  <2> QED
    BY <1>3, <2>1 DEF SupCore, SupType, SupRec
<1>7. SupType'
  BY <1>3, <1>5, <1>6 DEF SupCore, SupType
<1>8. LinesInv'
  <2>1. \A i \in 1 .. Len(lines) : lines[i] + Len(lines) = kid[k].n + i
    <3> SUFFICES ASSUME NEW i \in 1 .. Len(lines) PROVE lines[i] + Len(lines) = kid[k].n + i
      OBVIOUS
    <3>1. /\ i \in Nat /\ lines[i] \in Nat
          /\ lines[i] + (Len(lines) + 1) = kid[k].n + (i + 1)
      BY <1>2, <1>4
    <3>2. PICK a \in Nat, b \in Nat, c \in Nat : a = lines[i] /\ b = kid[k].n /\ c = Len(lines)
      BY <1>1, <1>2, <3>1
    <3>3. a + (c + 1) = b + (i + 1)
      BY <3>1, <3>2
    <3>4. a + c = b + i
      BY <3>1, <3>3
    <3> QED
      BY <3>2, <3>4
  <2>2. \A j \in Kids : \A i \in 1 .. Len(kid'[j].lines) :
           kid'[j].lines[i] + Len(kid'[j].lines) = kid'[j].n + i
    BY <1>5, <2>1 DEF SupCore, LinesInv
  <2>3. \A j \in Kids : kid'[j].life = "none" => kid'[j].lines = <<>>
    <3>1. kid[k].life # "none"
      BY <1>1 DEF SupCore, LinesInv, old
    <3> QED
      BY <1>5, <3>1 DEF SupCore, LinesInv
  <2> QED
    BY <1>3, <1>5, <2>2, <2>3, CallKid DEF SupCore, LinesInv
<1>9. SingleInv'
  BY <1>3, <1>5, <1>6 DEF SupCore, SingleInv
<1>10. WantedInv'
  <2>1. \A j \in Kids : kid'[j].life = kid[j].life
    BY <1>5
  <2> QED
    BY <1>3, <1>6, <2>1 DEF SupCore, WantedInv, Runs
<1>11. StatusInv'
  <2> SUFFICES ASSUME raced' = {}
               PROVE  /\ sup'.child = k /\ old[1] <= kid[k].n
                      /\ kid[k].n <= old[1] + Len(lines)
    BY <1>0, <1>5, <1>6 DEF StatusInv, Status
  <2>1. PICK a \in Nat, b \in Nat, c \in Nat : a = old[1] /\ b = kid[k].n /\ c = Len(lines)
    BY <1>1, <1>2
  <2>2. a + (c + 1) = b + 1
    BY <1>2, <1>4, <2>1
  <2>3. a <= b /\ b <= a + c
    BY <2>2
  <2> QED
    BY <1>3, <1>6, <2>1, <2>3
<1> QED
  BY <1>7, <1>8, <1>9, <1>10, <1>11 DEF SupCore

\* The exit of a process is heard of.
LEMMA ExitKeeps ==
  ASSUME SupCore, NEW k \in Kids, Exit(k)
  PROVE  SupCore'
<1>0. k # 0 /\ 0 \in 0 .. MaxKids /\ 0 \in Nat
  BY KidsAreNot0
<1>1. /\ kid[k] \in KidType /\ kid[k].life = "dead" /\ ~kid[k].seen
      /\ UNCHANGED <<starts, call, wanted, raced, phase>>
      /\ stops' = stops \ {k} /\ sup' = AfterExit(k)
      /\ kid' = [kid EXCEPT ![k] = [kid[k] EXCEPT !.seen = TRUE]]
  BY DEF Exit, hostVars, SupCore, SupType
<1>2. /\ kid' \in [Kids -> KidType] /\ \A j \in Kids : j # k => kid'[j] = kid[j]
      /\ kid'[k].n = kid[k].n /\ kid'[k].lines = kid[k].lines
      /\ kid'[k].life = "dead" /\ kid'[k].seen = TRUE
  BY <1>1 DEF SupCore, SupType, KidType
<1>3. /\ sup' \in SupRec /\ sup'.child = 0 /\ sup'.stopping = sup.stopping
      /\ sup'.status.state \in {"stopped", "error"}
      /\ sup.stopping => sup'.timer = sup.timer
  <2>1. CASE sup.stopping
    <3>1. Status("stopped", 0, 0) \in ShownStatus /\ Status("stopped", 0, 0).state = "stopped"
      BY <1>0 DEF Status, ShownStatus
    <3>2. sup' = [[sup EXCEPT !.child = 0, !.port = 0] EXCEPT !.status = Status("stopped", 0, 0)]
      BY <1>1, <2>1 DEF AfterExit
    <3> QED
      BY <1>0, <3>1, <3>2 DEF SupCore, SupType, SupRec
  <2>2. CASE ~sup.stopping
    <3>1. PICK t : t = [sup.status EXCEPT !.state = "error"]
      OBVIOUS
    <3>2. t \in ShownStatus /\ t.state = "error"
      BY <3>1 DEF SupCore, SupType, SupRec, ShownStatus
    <3>3. sup' = [[sup EXCEPT !.child = 0, !.port = 0] EXCEPT !.status = t, !.timer = TRUE]
      BY <1>1, <2>2, <3>1 DEF AfterExit, SupCore, SupType, SupRec
    <3> QED
      BY <1>0, <2>2, <3>2, <3>3 DEF SupCore, SupType, SupRec
  <2> QED
    BY <2>1, <2>2
<1>4. SupType'
  BY <1>1, <1>2, <1>3 DEF SupCore, SupType
<1>5. LinesInv'
  BY <1>1, <1>2, CallKid DEF SupCore, LinesInv
<1>6. SingleInv'
  BY <1>0, <1>1, <1>2, <1>3 DEF SupCore, SingleInv
<1>7. WantedInv'
  <2>1. \A j \in Kids : (Runs(j)' <=> Runs(j)) /\ kid'[j].life = kid[j].life
    BY <1>1, <1>2 DEF Runs
  <2>2. ~Runs(k)
    BY <1>1 DEF Runs
  <2> QED
    BY <1>1, <1>3, <2>1, <2>2 DEF SupCore, WantedInv
<1>8. StatusInv'
  BY <1>3 DEF StatusInv
<1> QED
  BY <1>4, <1>5, <1>6, <1>7, <1>8 DEF SupCore

\* A request to the control API, its answer and what the answer sets.
LEMMA CallKeeps ==
  ASSUME SupCore, Calls \/ CallAnswered \/ CallReturns \/ CallFails
  PROVE  SupCore'
<1>0. 0 \in 0 .. MaxKids /\ 0 \in Nat /\ 0 \notin Kids
  BY KidsAreNot0
<1>1. UNCHANGED <<kid, starts, stops, wanted, phase>>
  BY DEF Calls, CallAnswered, CallReturns, CallFails, hostVars
<1>2. CASE Calls \/ CallAnswered \/ CallFails
  <2>1. UNCHANGED <<sup, raced>>
    BY <1>2 DEF Calls, CallAnswered, CallFails
  <2>2. /\ call' \in [at: {"idle", "sent", "answered"}, kid: 0 .. MaxKids, n: Nat]
        /\ call'.at # "idle" => call'.kid # 0
        /\ call'.at = "answered" => call'.n <= kid[call'.kid].n
    <3>1. CASE Calls
      BY <1>0, <3>1 DEF Calls, SupCore, SupType, SupRec
    <3>2. CASE CallAnswered
      <4>1. call.kid \in Kids
        BY <3>2, CallKid DEF CallAnswered
      <4>2. PICK n \in Nat : n = kid[call.kid].n
        BY <4>1 DEF SupCore, SupType, KidType
      <4>3. call' = [call EXCEPT !.at = "answered", !.n = n]
        BY <3>2, <4>2 DEF CallAnswered
      <4>4. call'.n = n /\ call'.kid = call.kid /\ call'.at = "answered"
        BY <4>3 DEF SupCore, SupType
      <4>5. call' \in [at: {"idle", "sent", "answered"}, kid: 0 .. MaxKids, n: Nat]
        BY <4>3 DEF SupCore, SupType
      <4> QED
        BY <1>0, <4>1, <4>2, <4>4, <4>5
    <3>3. CASE CallFails
      BY <1>0, <3>3 DEF CallFails, NoCall
    <3> QED
      BY <1>2, <3>1, <3>2, <3>3
  <2> QED
    BY <1>1, <2>1, <2>2 DEF SupCore, SupType, LinesInv, SingleInv, WantedInv, StatusInv, Runs
<1>3. CASE CallReturns
  <2>1. /\ call' = NoCall /\ call.at = "answered" /\ call.kid \in Kids /\ call.n \in Nat
        /\ sup' = [sup EXCEPT !.status = Status("live", call.kid, call.n)]
        /\ raced' = IF /\ sup.child = call.kid
                       /\ sup.status.of = call.kid /\ sup.status.n <= call.n
                    THEN raced ELSE raced \cup {"answer"}
    BY <1>3, CallKid DEF CallReturns, SupCore, SupType
  <2>2. /\ sup' \in SupRec /\ sup'.child = sup.child /\ sup'.status = Status("live", call.kid, call.n)
        /\ sup'.timer = sup.timer /\ sup'.stopping = sup.stopping
    <3>1. Status("live", call.kid, call.n) \in ShownStatus
      BY <2>1 DEF Status, ShownStatus, Kids
    <3> QED
      BY <2>1, <3>1 DEF SupCore, SupType, SupRec
  <2>3. SupType'
    BY <1>0, <1>1, <2>1, <2>2 DEF SupCore, SupType, NoCall
  <2>4. LinesInv'
    BY <1>1, <2>1 DEF SupCore, LinesInv, NoCall
  <2>5. SingleInv' /\ WantedInv'
    BY <1>1, <2>1, <2>2 DEF SupCore, SingleInv, WantedInv, Runs
  <2>6. StatusInv'
    <3> SUFFICES ASSUME raced' = {}
                 PROVE  /\ sup.child = call.kid
                        /\ call.n <= kid[call.kid].n
                        /\ kid[call.kid].n <= call.n + Len(kid[call.kid].lines)
      BY <1>0, <1>1, <2>1, <2>2 DEF StatusInv, Status
    <3>1. /\ sup.child = call.kid /\ sup.child # 0 /\ raced = {} /\ sup.status.n <= call.n
      BY <1>0, <2>1
    <3>2. PICK a \in Nat, b \in Nat, c \in Nat, d \in Nat :
             a = sup.status.n /\ b = kid[call.kid].n /\ c = Len(kid[call.kid].lines) /\ d = call.n
      BY <2>1, SMTT(30) DEF SupCore, SupType, SupRec, ShownStatus, KidType
    <3>3. b <= a + c /\ a <= d /\ d <= b
      BY <2>1, <3>1, <3>2 DEF SupCore, StatusInv, LinesInv
    <3>4. b <= d + c
      BY <3>3
    <3> QED
      BY <3>1, <3>2, <3>3, <3>4
  <2> QED
    BY <2>3, <2>4, <2>5, <2>6 DEF SupCore
<1> QED
  BY <1>2, <1>3

\* Nothing was started at first.
LEMMA SupInitially == Init => SupInv
<1> SUFFICES ASSUME NEW s \in Scenarios, phase = "lock", SupInit,
                    world = [other |-> s.other, deaf |-> s.deaf, remote |-> s.remote,
                             setup |-> s.setup, reach |-> s.reach, told |-> FALSE, said |-> "none"]
             PROVE  SupInv
  BY DEF Init
<1>0. 0 \in 0 .. MaxKids /\ 0 \in Nat /\ 0 \notin Kids
  BY KidsAreNot0
<1>1. WorldType
  <2>1. /\ s.other \in {"none", "running"} /\ s.deaf \in BOOLEAN /\ s.remote \in BOOLEAN
        /\ s.setup \in BOOLEAN /\ s.reach \in BOOLEAN
    BY DesktopAssumption
  <2> QED
    BY <2>1 DEF WorldType
<1>2. sup \in SupRec /\ sup.child = 0 /\ sup.status.state = "stopped" /\ sup.timer = FALSE
  <2>1. Status("stopped", 0, 0) \in ShownStatus /\ Status("stopped", 0, 0).state = "stopped"
    BY <1>0 DEF Status, ShownStatus
  <2> QED
    BY <1>0, <2>1 DEF SupInit, SupRec
<1>3. /\ kid \in [Kids -> KidType]
      /\ \A k \in Kids : kid[k].life = "none" /\ kid[k].n = 0 /\ kid[k].lines = <<>> /\ kid[k].seen = FALSE
  BY DEF SupInit, KidType
<1>4. starts = {} /\ stops = {} /\ call = NoCall /\ wanted = FALSE /\ raced = {}
  BY DEF SupInit
<1>5. SupType
  BY <1>0, <1>2, <1>3, <1>4 DEF SupType, NoCall
<1>6. LinesInv
  BY <1>3, <1>4 DEF LinesInv, NoCall
<1>7. SingleInv /\ WantedInv /\ StatusInv /\ Idle
  BY <1>2, <1>3, <1>4 DEF SingleInv, WantedInv, StatusInv, Idle, Quits
<1> QED
  BY <1>1, <1>5, <1>6, <1>7 DEF SupInv, SupCore

\* The supervisor's own steps.
LEMMA SupKeeps ==
  ASSUME SupInv, SupNext, SupAlone
  PROVE  SupInv'
<1>1. world.remote /\ world' = world
  BY DEF SupAlone, deskVars
<1>2. phase' = phase
  BY DEF SupNext, PanelStarts, PanelStops, TimerFires, Calls, CallAnswered, CallReturns,
         CallFails, StartFails, Spawn, Writes, HearLine, Crash, Goes, Exit, Deadline, hostVars
<1>3. SupCore'
  <2>1. CASE PanelStarts
    BY <2>1, StartKeeps DEF PanelStarts, AskStart, SupInv, Callers, Quits
  <2>2. CASE PanelStops
    BY <2>2, StopKeeps DEF PanelStops, SupInv
  <2>3. CASE TimerFires
    BY <2>3, StartKeeps DEF TimerFires, SupInv, Callers, hostVars
  <2>4. CASE Calls \/ CallAnswered \/ CallReturns \/ CallFails
    BY <2>4, CallKeeps DEF SupInv
  <2>5. CASE \E who \in Callers : StartFails(who) \/ \E k \in Kids : Spawn(who, k)
    BY <2>5, StartFailsKeeps, SpawnKeeps DEF SupInv
  <2>6. CASE \E k \in Kids : Writes(k) \/ HearLine(k) \/ Crash(k) \/ Goes(k) \/ Exit(k) \/ Deadline(k)
    BY <2>6, ProcessKeeps, LineKeeps, ExitKeeps DEF SupInv
  <2> QED
    BY <2>1, <2>2, <2>3, <2>4, <2>5, <2>6 DEF SupNext
<1>4. ASSUME phase \in Before
      PROVE  Idle'
  <2>1. Idle /\ LinesInv /\ SupType /\ phase # "up"
    BY <1>4 DEF SupInv, SupCore, Before
  <2>2. CASE PanelStarts \/ PanelStops \/ TimerFires \/ Calls
    BY <2>1, <2>2 DEF PanelStarts, PanelStops, TimerFires, Calls, Idle
  <2>3. CASE CallAnswered \/ CallReturns \/ CallFails
    BY <2>1, <2>3 DEF CallAnswered, CallReturns, CallFails, Idle, SupType, SupRec
  <2>4. CASE \E who \in Callers : StartFails(who) \/ \E k \in Kids : Spawn(who, k)
    BY <2>1, <2>4 DEF StartFails, Spawn, Idle
  <2>5. CASE \E k \in Kids : Writes(k) \/ HearLine(k) \/ Crash(k) \/ Goes(k) \/ Exit(k) \/ Deadline(k)
    BY <2>1, <2>5 DEF Writes, HearLine, Crash, Goes, Exit, Deadline, Runs, Idle, LinesInv
  <2> QED
    BY <2>2, <2>3, <2>4, <2>5 DEF SupNext
<1> QED
  BY <1>1, <1>2, <1>3, <1>4 DEF SupInv, WorldType

\* Steps that leave the sidecar as it is, while the application is what it was,
\* or begins or ends with nothing started.
LEMMA SupUntouched ==
  ASSUME SupInv, UNCHANGED supVars, WorldType', world'.remote = world.remote,
         \/ phase' = phase
         \/ Idle /\ (phase' \in Before => phase \in Before)
         \/ phase' \in Quits /\ phase \in Quits
              /\ (phase' \in {"disposing", "gone"} => phase \in {"disposing", "gone"} \/ stops = {})
  PROVE  SupInv'
<1>1. SupType' /\ LinesInv' /\ SingleInv' /\ StatusInv'
  BY DEF supVars, SupInv, SupCore, SupType, LinesInv, SingleInv, StatusInv
<1>2. Idle' <=> Idle
  BY DEF Idle, supVars
<1>3. \A k \in Kids : Runs(k)' <=> Runs(k)
  BY DEF Runs, supVars
<1>4. WantedInv'
  <2>1. CASE phase' = phase
    BY <1>3, <2>1 DEF supVars, SupInv, SupCore, WantedInv
  <2>2. CASE Idle
    BY <1>3, <2>2 DEF supVars, SupInv, SupCore, WantedInv, Idle, Runs
  <2>3. CASE phase' \in Quits /\ phase \in Quits
              /\ (phase' \in {"disposing", "gone"} => phase \in {"disposing", "gone"} \/ stops = {})
    BY <1>3, <2>3 DEF supVars, SupInv, SupCore, WantedInv
  <2> QED
    BY <2>1, <2>2, <2>3
<1>5. phase' \in Before \/ ~world'.remote => Idle'
  BY <1>2 DEF SupInv, Quits, Before
<1> QED
  BY <1>1, <1>4, <1>5 DEF SupInv, SupCore

\* The scenario stays what it is.
LEMMA WorldStays ==
  ASSUME WorldType, Shell
  PROVE  WorldType' /\ world'.remote = world.remote
<1>1. CASE Acquire \/ Retry
  <2>1. PICK o \in {"none", "running", "leaving", "gone"} : o = Hello
    BY DEF Hello, WorldType
  <2>2. world' = [world EXCEPT !.other = o]
    BY <1>1, <2>1 DEF Acquire, Retry, RequestLock
  <2> QED
    BY <2>1, <2>2 DEF WorldType
<1>2. CASE OtherLeaves \/ KeepOther \/ ReplaceOther \/ ServerFails
  BY <1>2 DEF OtherLeaves, KeepOther, ReplaceOther, ServerFails, WorldType
<1>3. CASE ~(Acquire \/ Retry \/ OtherLeaves \/ KeepOther \/ ReplaceOther \/ ServerFails)
  <2>1. world' = world
    BY <1>3 DEF Shell, RetryOver, Report, StartServer, Up, CloseWizard, QuitNow, EdgeStopped,
                Dispose, Uncaught, Exits, PromptNext, PromptListed, Answer, PanelDecides, Claim,
                Rest, deskVars
  <2> QED
    BY <2>1 DEF WorldType
<1> QED
  BY <1>1, <1>2, <1>3

\* The steps of the application that the supervisor sees.
LEMMA SupShell ==
  ASSUME SupInv, Shell
  PROVE  SupInv'
<1>0. WorldType' /\ world'.remote = world.remote /\ SupCore
  BY WorldStays DEF SupInv
<1>1. CASE Up
  <2>1. CASE world.remote
    BY <1>0, <1>1, <2>1, StartKeeps DEF Up, AskStart, Callers, Quits, Before, SupInv
  <2>2. CASE ~world.remote
    <3>1. UNCHANGED supVars /\ Idle /\ phase' = "up"
      BY <1>1, <2>2 DEF Up, SupInv
    <3> QED
      BY <1>0, <3>1, SupUntouched DEF Before
  <2> QED
    BY <2>1, <2>2
<1>2. CASE QuitNow
  <2>1. CASE world.remote /\ phase = "up"
    <3>1. AskStop /\ phase' = "stopping"
      BY <1>2, <2>1 DEF QuitNow, Quit
    <3>2. SupCore'
      BY <1>0, <3>1, StopKeeps
    <3> QED
      BY <1>0, <2>1, <3>1, <3>2 DEF SupInv, Before
  <2>2. CASE ~(world.remote /\ phase = "up")
    <3>1. UNCHANGED supVars /\ Idle /\ phase' \notin Before
      BY <1>2, <2>2 DEF QuitNow, Quit, SupInv, Before
    <3> QED
      BY <1>0, <3>1, SupUntouched
  <2> QED
    BY <2>1, <2>2
<1>3. CASE Uncaught
  <2>1. AskStop /\ phase' = "crashing" /\ world.remote
    BY <1>3 DEF Uncaught
  <2>2. SupCore'
    BY <1>0, <2>1, StopKeeps
  <2> QED
    BY <1>0, <2>1, <2>2 DEF SupInv, Before
<1>4. CASE EdgeStopped \/ Dispose \/ Exits
  <2>1. /\ UNCHANGED supVars /\ phase' \in Quits /\ phase \in Quits
        /\ phase' \in {"disposing", "gone"} => phase \in {"disposing", "gone"} \/ stops = {}
    BY <1>4 DEF EdgeStopped, Dispose, Exits, parts, Quits
  <2> QED
    BY <1>0, <2>1, SupUntouched
<1>5. CASE ~(Up \/ QuitNow \/ Uncaught \/ EdgeStopped \/ Dispose \/ Exits)
  <2>1. UNCHANGED supVars
    BY <1>5 DEF Shell, Acquire, Retry, RetryOver, OtherLeaves, KeepOther, ReplaceOther, Report,
                StartServer, ServerFails, CloseWizard, PromptNext, PromptListed, Answer,
                PanelDecides, Claim, Rest, parts
  <2>2. phase' = phase \/ phase \in Before
    BY <1>5 DEF Shell, Acquire, Retry, RetryOver, OtherLeaves, KeepOther, ReplaceOther, Report,
                StartServer, ServerFails, CloseWizard, PromptNext, PromptListed, Answer,
                PanelDecides, Claim, Rest, hostVars, Before
  <2> QED
    BY <1>0, <2>1, <2>2, SupUntouched DEF SupInv
<1> QED
  BY <1>1, <1>2, <1>3, <1>4, <1>5

\* Every step keeps the sidecar in order.
LEMMA SupNextKeeps == SupInv /\ [Next]_vars => SupInv'
<1> SUFFICES ASSUME SupInv, [Next]_vars PROVE SupInv'
  OBVIOUS
<1>1. CASE Shell
  BY <1>1, SupShell
<1>2. CASE SupNext /\ SupAlone
  BY <1>2, SupKeeps
<1>3. CASE (LanNext /\ LanAlone) \/ (PreNext /\ PreAlone) \/ UNCHANGED vars
  <2>1. UNCHANGED <<supVars, world>>
    BY <1>3 DEF LanAlone, PreAlone, vars, deskVars
  <2>2. phase' = phase
    BY <1>3 DEF LanNext, Refresh, RefreshNotAdopted, RefreshFails, BindSecure, BindFirst, BindFails, SwitchOn,
                SwitchOff, Move, PlainBound, PlainFails,
                PreNext, Detect, WindowChecks, CheckAgain, RunCommand, CommandEnds, Install,
                FetchFails, Confirm, MoveIntoPlace, Fetched, hostVars, vars
  <2>3. WorldType'
    BY <2>1 DEF SupInv, WorldType
  <2> QED
    BY <2>1, <2>2, <2>3, SupUntouched
<1> QED
  BY <1>1, <1>2, <1>3 DEF Next

\* One sidecar at most runs, none that is not wanted but those that go, none
\* when the application has gone; and the status that is shown is that of the
\* one that runs - but for what the history names.
THEOREM SidecarIsTheOne == Spec => []SidecarHolds
<1>1. SupInv => OneSidecar
  <2> SUFFICES ASSUME SupInv PROVE OneSidecar
    OBVIOUS
  <2>1. ASSUME "start" \notin raced
        PROVE  Cardinality({k \in Kids : Runs(k)}) <= 1
    <3>1. \A k \in Kids : Runs(k) => k = sup.child
      BY <2>1 DEF SupInv, SupCore, SingleInv, LinesInv, Runs
    <3>2. {k \in Kids : Runs(k)} = {} \/ {k \in Kids : Runs(k)} = {sup.child}
      BY <3>1
    <3>3. Cardinality({}) = 0
      BY FS_EmptySet, Zenon
    <3>4. Cardinality({sup.child}) = 1
      BY FS_Singleton, Zenon
    <3> QED
      BY <3>2, <3>3, <3>4
  <2> QED
    BY <2>1 DEF OneSidecar, SupInv, SupCore, WantedInv, Alive, Quits
<1>2. SupInv => ShownIsTheProcess
  <2> SUFFICES ASSUME SupInv, raced = {}, \A k \in Kids : kid[k].lines = <<>>
               PROVE  IF sup.child = 0 THEN sup.status.state \in {"stopped", "error"}
                      ELSE /\ sup.status.of = sup.child /\ sup.status.n = kid[sup.child].n
                           /\ sup.status.state \in {"starting", "live"}
    BY DEF ShownIsTheProcess
  <2>1. CASE sup.child # 0
    <3>1. sup.child \in Kids
      BY <2>1 DEF SupInv, SupCore, SupType, SupRec, Kids
    <3>2. sup.status.n \in Nat /\ kid[sup.child].n \in Nat /\ Len(kid[sup.child].lines) = 0
      BY <3>1 DEF SupInv, SupCore, SupType, SupRec, ShownStatus, KidType
    <3>3. /\ sup.status.state \in {"starting", "live"} /\ sup.status.of = sup.child
          /\ sup.status.n <= kid[sup.child].n
          /\ kid[sup.child].n <= sup.status.n + Len(kid[sup.child].lines)
      BY <2>1 DEF SupInv, SupCore, StatusInv
    <3> QED
      BY <2>1, <3>2, <3>3
  <2>2. CASE sup.child = 0
    BY <2>2 DEF SupInv, SupCore, StatusInv
  <2> QED
    BY <2>1, <2>2
<1> QED
  BY SupInitially, SupNextKeeps, <1>1, <1>2, PTL DEF Spec, SidecarHolds
=============================================================================
