----------------------------- MODULE EdgeProofs -----------------------------
(***************************************************************************)
(* What the tray is told of the tailnet node is true of the one there is,  *)
(* for any calls, configurations and bounds.                               *)
(***************************************************************************)
EXTENDS Edge, FiniteSetTheorems, TLAPS

\* Calls that hold the lock; the generation they launch is the one in force, and
\* the one before it has been retired.
Holds(k) == calls[k].step \in {"stopping", "launching"}

CallInv ==
    \A k \in Calls :
        /\ Holds(k) <=> mu = k
        /\ calls[k].step \in {"waiting", "stopping", "launching", "saving"} => calls[k].cfg \in Configs
        /\ calls[k].step \in {"asking", "telling"} => calls[k].gen \in Gens
        /\ Holds(k) => calls[k].gen = gen /\ gen \in Gens
        /\ exit.step = "no" /\ calls[k].step = "stopping" => inst # gen
        /\ exit.step = "no" /\ calls[k].step = "launching" => inst = NoGen

\* There is a generation left for every call that has asked for one.
Reserved == IF exit.step = "no" THEN MaxStops ELSE 0
RoomInv ==
    /\ IsFiniteSet(Replacing)
    /\ gen + Cardinality(Replacing) + Reserved <= MaxGenerations

\* Until the process is told to exit, the goroutines of the generation in force
\* are those of the node there is, no other node is open, and no later
\* generation has begun.
GenInv ==
    exit.step = "no" =>
        /\ inst <= gen
        /\ \A g \in Gens :
              /\ g > gen => boot[g] = "none" /\ watch[g].at = "off"
              /\ g = gen /\ boot[g] # "none" => inst = g
              /\ g = gen /\ watch[g].at # "off" => inst = g /\ g \in listening
              /\ On(g) => g = inst

\* Only a node without a key has a sign-in link.
LinkInv == \A g \in Gens : node[g].link => node[g].state = "needs-login"

StatusInv == ConnectedIsServing /\ ShownIsCurrent

Inv == TypeOK /\ LinkInv /\ CallInv /\ RoomInv /\ GenInv /\ StatusInv

---------------------------------------------------------------------------
(* What the goroutines of a generation do. *)

\* A status of another generation changes nothing; one of the generation in force
\* names that generation, and says "connected" only of a node that serves.
Says(g) ==
    \/ status' = status
    \/ /\ g = gen
       /\ status'.host \in {None, status.host, of[g]}
       /\ status'.link \in {NoGen, status.link, g}
       /\ status'.link # NoGen => \/ status'.state = "login-required"
                                  \/ status'.state = status.state /\ status'.link = status.link
       /\ status'.state = "connected" =>
             /\ status'.host = of[g]
             /\ \/ status.state = "connected"
                \/ boot[g] # "none" /\ g \in listening'
                \/ watch[g].at # "off"

\* What the goroutines of generation g may leave.
GoroutineDoes(g) ==
    /\ UNCHANGED <<gen, mu, inst, cfg, saved, of, cancelled, calls, quiet, exit>>
    /\ status' \in Status /\ node' \in [Gens -> Node] /\ LinkInv'
    /\ boot' \in [Gens -> Booting \cup {"none", "serving", "returned"}]
    /\ listening' \in SUBSET Gens /\ watch' \in [Gens -> Watch] /\ spent' \in 0..MaxTroubles
    /\ \A h \in Gens :
          /\ node'[h].state # "off" => node[h].state # "off"
          /\ boot'[h] # "none" => boot[h] # "none"
          /\ watch'[h].at # "off" => \/ watch[h].at # "off"
                                     \/ h = g /\ boot[g] # "none" /\ g \in listening'
    /\ listening \subseteq listening'
    /\ Says(g)

LEMMA Bounds == MaxTroubles \in Nat /\ MaxGenerations \in Nat /\ NoGen \notin Gens
BY EdgeAssumption DEF NoGen, Gens

LEMMA SpendType ==
  ASSUME TypeOK, Spend \/ UNCHANGED spent
  PROVE  spent' \in 0..MaxTroubles
BY Bounds DEF TypeOK, Spend

\* The state of a node.
LEMMA BecomesLemma ==
  ASSUME TypeOK, LinkInv, NEW g \in Gens,
         NEW st \in {"off", "starting", "needs-login", "running"},
         NEW l \in BOOLEAN, NEW a \in BOOLEAN, l => st = "needs-login", Becomes(g, st, l, a)
  PROVE  /\ node' \in [Gens -> Node] /\ LinkInv'
         /\ node'[g].state = st
         /\ \A h \in Gens \ {g} : node'[h] = node[h]
<1> DEFINE r == [state |-> st, link |-> l, asked |-> a]
<1>1. r.state = st /\ (r.link => st = "needs-login")
  OBVIOUS
<1>2. r \in Node
  BY Zenon DEF Node
<1>3. node' = [node EXCEPT ![g] = r] /\ node \in [Gens -> Node]
  BY Zenon DEF Becomes, TypeOK
<1> HIDE DEF r
<1>4. node'[g] = r /\ \A h \in Gens \ {g} : node'[h] = node[h]
  BY <1>3
<1>5. LinkInv'
  BY <1>1, <1>4 DEF LinkInv
<1> QED
  BY <1>1, <1>2, <1>3, <1>4, <1>5

LEMMA NodeType ==
  ASSUME TypeOK, NEW g \in Gens
  PROVE  node[g].link \in BOOLEAN /\ node[g].asked \in BOOLEAN
<1>1. node[g] \in Node
  BY DEF TypeOK
<1> QED
  BY <1>1, Zenon DEF Node

\* A status that is entered.
LEMMA EnteredLemma ==
  ASSUME TypeOK, NEW to \in EdgeStates
  PROVE  /\ Entered(to) \in Status /\ Entered(to).state = to
         /\ Entered(to).host \in {None, status.host}
         /\ Entered(to).link \in {NoGen, status.link}
         /\ Entered(to).link # NoGen => to = "login-required"
BY DEF Entered, TypeOK, Status

LEMMA TransitionLemma ==
  ASSUME TypeOK, NEW next \in Status, Transition(next)
  PROVE  status' = status \/ status' = next
BY DEF Transition

LEMMA PublishLemma ==
  ASSUME TypeOK, NEW g \in Gens, NEW next \in Status, Publish(g, next)
  PROVE  /\ status' \in Status
         /\ status' = status \/ (g = gen /\ status' = next)
<1>1. status \in Status
  BY DEF TypeOK
<1> QED
  BY <1>1 DEF Publish, Transition

\* A state that is entered without a name to it.
LEMMA SaysEntered ==
  ASSUME TypeOK, NEW g \in Gens, NEW to \in EdgeStates \ {"connected"}, Publish(g, Entered(to))
  PROVE  Says(g) /\ status' \in Status
<1>1. Entered(to) \in Status
  BY EnteredLemma
<1>2. status' \in Status /\ (status' = status \/ (g = gen /\ status' = Entered(to)))
  BY <1>1, PublishLemma
<1> QED
  BY <1>2, EnteredLemma DEF Says

LEMMA SaysLogin ==
  ASSUME TypeOK, NEW g \in Gens, Publish(g, LoginRequired(g))
  PROVE  Says(g) /\ status' \in Status
<1>1. LoginRequired(g) = [Entered("login-required") EXCEPT !.link = g]
  BY DEF LoginRequired
<1>2. "login-required" \in EdgeStates
  BY DEF EdgeStates
<1>3. Entered("login-required") \in Status /\ Entered("login-required").state = "login-required"
      /\ Entered("login-required").host \in {None, status.host}
  BY <1>2, EnteredLemma
<1>4. /\ LoginRequired(g) \in Status /\ LoginRequired(g).state = "login-required"
      /\ LoginRequired(g).host \in {None, status.host} /\ LoginRequired(g).link = g
  BY <1>1, <1>3 DEF Status
<1>5. status' \in Status /\ (status' = status \/ (g = gen /\ status' = LoginRequired(g)))
  BY <1>4, PublishLemma
<1> QED
  BY <1>4, <1>5 DEF Says

\* A status with the generation's own host.
LEMMA HostedLemma ==
  ASSUME TypeOK, NEW g \in Gens, NEW s \in Status
  PROVE  /\ [s EXCEPT !.host = of[g]] \in Status /\ [s EXCEPT !.host = of[g]].host = of[g]
         /\ [s EXCEPT !.host = of[g]].state = s.state /\ [s EXCEPT !.host = of[g]].link = s.link
BY DEF TypeOK, Status

LEMMA SaysConnected ==
  ASSUME TypeOK, NEW g \in Gens, Publish(g, Connected(g)),
         \/ boot[g] # "none" /\ g \in listening'
         \/ watch[g].at # "off"
  PROVE  Says(g) /\ status' \in Status
<1>1. "connected" \in EdgeStates
  BY DEF EdgeStates
<1>2. /\ Connected(g) \in Status /\ Connected(g).state = "connected" /\ Connected(g).host = of[g]
      /\ Connected(g).link = NoGen
  BY <1>1, EnteredLemma, HostedLemma DEF Connected
<1>3. status' \in Status /\ (status' = status \/ (g = gen /\ status' = Connected(g)))
  BY <1>2, PublishLemma
<1> QED
  BY <1>2, <1>3 DEF Says

LEMMA NodeStepShape ==
  ASSUME TypeOK, LinkInv, NEW g \in Gens, NodeStep(g)
  PROVE  GoroutineDoes(g)
<1>1. UNCHANGED <<gen, mu, inst, cfg, saved, of, boot, cancelled, listening, watch, calls, quiet, exit>>
  BY DEF NodeStep
<1>2. ASSUME node' \in [Gens -> Node], LinkInv', status' \in Status, Says(g), spent' \in 0..MaxTroubles,
             \A h \in Gens : node'[h].state # "off" => node[h].state # "off"
      PROVE  GoroutineDoes(g)
  BY <1>1, <1>2 DEF GoroutineDoes, TypeOK
<1>3. ASSUME NEW st \in {"needs-login", "running"}, NEW l \in BOOLEAN, NEW a \in BOOLEAN, l => st = "needs-login",
             Becomes(g, st, l, a), node[g].state # "off", UNCHANGED status, Spend \/ UNCHANGED spent
      PROVE  GoroutineDoes(g)
  <2>1. node' \in [Gens -> Node] /\ LinkInv' /\ \A h \in Gens \ {g} : node'[h] = node[h]
    BY <1>3, BecomesLemma
  <2>2. spent' \in 0..MaxTroubles
    BY <1>3, SpendType
  <2> QED
    BY <1>2, <1>3, <2>1, <2>2 DEF Says, TypeOK
<1>4. CASE NeedsLogin(g)
  BY <1>3, <1>4 DEF NeedsLogin
<1>5. CASE OffersLink(g)
  BY <1>3, <1>5 DEF OffersLink
<1>6. CASE Runs(g)
  <2>1. node[g].link => node[g].state # "off"
    BY DEF LinkInv
  <2> QED
    BY <1>3, <1>6, <2>1 DEF Runs
<1>7. CASE KeyExpires(g)
  BY <1>3, <1>7 DEF KeyExpires
<1>8. CASE LogLine(g)
  <2>1. Says(g) /\ status' \in Status
    BY <1>8, SaysLogin DEF LogLine
  <2>2. spent' \in 0..MaxTroubles /\ node' = node
    BY <1>8, SpendType DEF LogLine
  <2>3. LinkInv'
    BY <2>2 DEF LinkInv
  <2> QED
    BY <1>2, <2>1, <2>2, <2>3 DEF TypeOK
<1> QED
  BY <1>4, <1>5, <1>6, <1>7, <1>8 DEF NodeStep

\* A bring-up that goes on.
LEMMA BootsLemma ==
  ASSUME TypeOK, NEW g \in Gens, boot[g] # "none",
         NEW to \in Booting \cup {"serving", "returned"}, Boots(g, to)
  PROVE  /\ boot' \in [Gens -> Booting \cup {"none", "serving", "returned"}]
         /\ \A h \in Gens : boot'[h] # "none" => boot[h] # "none"
BY DEF TypeOK, Boots, Booting

LEMMA BootStepShape ==
  ASSUME TypeOK, LinkInv, NEW g \in Gens, BootStep(g)
  PROVE  GoroutineDoes(g)
<1>1. UNCHANGED <<gen, mu, inst, cfg, saved, of, cancelled, calls, quiet, exit>>
  BY DEF BootStep
<1> DEFINE BootTypes == /\ boot' \in [Gens -> Booting \cup {"none", "serving", "returned"}]
                        /\ \A h \in Gens : boot'[h] # "none" => boot[h] # "none"
<1>2. ASSUME BootTypes, status' \in Status, Says(g), UNCHANGED <<node, listening, watch>>,
             spent' \in 0..MaxTroubles
      PROVE  GoroutineDoes(g)
  <2>1. LinkInv'
    BY <1>2 DEF LinkInv
  <2> QED
    BY <1>1, <1>2, <2>1 DEF GoroutineDoes, TypeOK
<1>3. /\ "polling" \in Booting /\ "prompted" \in Booting /\ "issuing" \in Booting
      /\ "listening" \in Booting
  BY DEF Booting
<1>4. boot[g] \in Booting => boot[g] # "none"
  BY DEF Booting
<1>5. UNCHANGED spent => spent' \in 0..MaxTroubles
  BY SpendType
<1>6. UNCHANGED status => Says(g) /\ status' \in Status
  BY DEF Says, TypeOK
<1>7. UNCHANGED boot => BootTypes
  BY DEF TypeOK
<1> HIDE DEF BootTypes
<1>8. ASSUME NEW to \in Booting \cup {"serving", "returned"}, Boots(g, to), boot[g] # "none"
      PROVE  BootTypes
  BY <1>8, BootsLemma DEF BootTypes
<1>9. CASE BootBegins(g)
  <2>1. Says(g) /\ status' \in Status
    BY <1>9, SaysEntered DEF BootBegins, EdgeStates
  <2>2. BootTypes
    BY <1>3, <1>8, <1>9 DEF BootBegins
  <2> QED
    BY <1>2, <1>5, <1>9, <2>1, <2>2 DEF BootBegins
<1>10. CASE BootSeesLink(g)
  <2>1. Says(g) /\ status' \in Status
    BY <1>10, SaysLogin DEF BootSeesLink
  <2> QED
    BY <1>2, <1>5, <1>7, <1>10, <2>1 DEF BootSeesLink
<1>11. CASE BootNudges(g)
  <2>1. BootTypes
    BY <1>3, <1>8, <1>11 DEF BootNudges
  <2>2. /\ node' \in [Gens -> Node] /\ LinkInv'
        /\ \A h \in Gens \ {g} : node'[h] = node[h]
    BY <1>11, BecomesLemma DEF BootNudges
  <2>3. UNCHANGED <<status, listening, watch, spent>> /\ node[g].state # "off"
    BY <1>11 DEF BootNudges
  <2> QED
    BY <1>1, <1>5, <1>6, <2>1, <2>2, <2>3 DEF GoroutineDoes, TypeOK, BootTypes
<1>12. CASE BootSeesRunning(g)
  <2>1. boot[g] # "none" /\ UNCHANGED <<node, listening, watch, spent>>
    BY <1>12 DEF BootSeesRunning, Polling
  <2>2. ASSUME Boots(g, "issuing"), Publish(g, [Entered("obtaining-certificate") EXCEPT !.host = of[g]])
        PROVE  GoroutineDoes(g)
    <3> DEFINE e == Entered("obtaining-certificate")
               n == [e EXCEPT !.host = of[g]]
    <3>1. "obtaining-certificate" \in EdgeStates
      BY DEF EdgeStates
    <3>2. /\ e \in Status /\ e.state = "obtaining-certificate" /\ e.link = NoGen
      BY <3>1, EnteredLemma
    <3>3. /\ n \in Status /\ n.host = of[g] /\ n.state = "obtaining-certificate" /\ n.link = NoGen
      BY <3>2, HostedLemma
    <3>4. status' \in Status /\ (status' = status \/ (g = gen /\ status' = n))
      BY <2>2, <3>3, PublishLemma
    <3> HIDE DEF n, e
    <3>5. Says(g)
      BY <3>3, <3>4 DEF Says
    <3>6. BootTypes
      BY <1>3, <1>8, <2>1, <2>2
    <3> QED
      BY <1>2, <1>5, <2>1, <3>4, <3>5, <3>6
  <2>3. ASSUME Boots(g, "listening"), Publish(g, [status EXCEPT !.host = of[g]])
        PROVE  GoroutineDoes(g)
    <3> DEFINE n == [status EXCEPT !.host = of[g]]
    <3>1. /\ n \in Status /\ n.host = of[g] /\ n.state = status.state /\ n.link = status.link
      BY HostedLemma DEF TypeOK
    <3>2. status' \in Status /\ (status' = status \/ (g = gen /\ status' = n))
      BY <2>3, <3>1, PublishLemma
    <3> HIDE DEF n
    <3>3. Says(g)
      BY <3>1, <3>2 DEF Says
    <3>4. BootTypes
      BY <1>3, <1>8, <2>1, <2>3
    <3> QED
      BY <1>2, <1>5, <2>1, <3>2, <3>3, <3>4
  <2> QED
    BY <1>12, <2>2, <2>3 DEF BootSeesRunning
<1>13. CASE BootIssued(g)
  <2>1. BootTypes
    <3>1. CASE g = gen
      BY <1>3, <1>8, <1>13, <3>1 DEF BootIssued
    <3>2. CASE g # gen
      BY <1>8, <1>13, <3>2 DEF BootIssued
    <3> QED
      BY <3>1, <3>2
  <2> QED
    BY <1>2, <1>5, <1>6, <1>13, <2>1 DEF BootIssued
<1>14. CASE BootServes(g)
  <2>1. BootTypes /\ boot[g] # "none"
    BY <1>8, <1>14 DEF BootServes
  <2>2. listening' = listening \cup {g} /\ node' = node /\ spent' = spent
        /\ watch' = [watch EXCEPT ![g].at = "waiting"]
    BY <1>14 DEF BootServes
  <2>3. Says(g) /\ status' \in Status
    BY <1>14, <2>1, <2>2, SaysConnected DEF BootServes
  <2>4. /\ watch' \in [Gens -> Watch] /\ listening' \in SUBSET Gens
        /\ \A h \in Gens \ {g} : watch'[h] = watch[h]
    BY <2>2, SMTT(30) DEF TypeOK, Watch
  <2>5. LinkInv'
    BY <2>2 DEF LinkInv
  <2> QED
    BY <1>1, <1>5, <2>1, <2>2, <2>3, <2>4, <2>5 DEF GoroutineDoes, TypeOK, BootTypes
<1>15. CASE BootFails(g)
  <2>1. BootTypes
    BY <1>4, <1>8, <1>15 DEF BootFails
  <2>2. Says(g) /\ status' \in Status
    BY <1>15, SaysEntered DEF BootFails, EdgeStates
  <2>3. spent' \in 0..MaxTroubles
    BY <1>15, SpendType DEF BootFails
  <2> QED
    BY <1>2, <1>15, <2>1, <2>2, <2>3 DEF BootFails
<1>16. CASE BootCancelled(g)
  <2>1. BootTypes
    BY <1>4, <1>8, <1>16 DEF BootCancelled
  <2> QED
    BY <1>2, <1>5, <1>6, <1>16, <2>1 DEF BootCancelled
<1> QED
  BY <1>9, <1>10, <1>11, <1>12, <1>13, <1>14, <1>15, <1>16 DEF BootStep

LEMMA WatchStepShape ==
  ASSUME TypeOK, LinkInv, NEW g \in Gens, WatchStep(g)
  PROVE  GoroutineDoes(g)
<1>1. UNCHANGED <<gen, mu, inst, cfg, saved, of, boot, cancelled, listening, calls, quiet, exit, spent>>
  BY DEF WatchStep
<1> DEFINE WatchTypes == /\ watch' \in [Gens -> Watch]
                         /\ \A h \in Gens : watch'[h].at # "off" => watch[h].at # "off"
           NodeTypes == /\ node' \in [Gens -> Node] /\ LinkInv'
                        /\ \A h \in Gens : node'[h].state # "off" => node[h].state # "off"
<1>2. ASSUME WatchTypes, NodeTypes, Says(g), status' \in Status
      PROVE  GoroutineDoes(g)
  BY <1>1, <1>2, SpendType DEF GoroutineDoes, TypeOK
<1>3. UNCHANGED node => NodeTypes
  <2> SUFFICES ASSUME UNCHANGED node PROVE NodeTypes
    OBVIOUS
  <2>1. LinkInv'
    BY DEF LinkInv
  <2> QED
    BY <2>1 DEF TypeOK
<1>4. UNCHANGED status => Says(g) /\ status' \in Status
  BY DEF Says, TypeOK
<1>5. ASSUME watch[g].at # "off", NEW ep \in SUBSET {"active", "owned", "sawNoURL", "nudged"}, Remembers(g, ep)
      PROVE  WatchTypes
  BY <1>5 DEF Remembers, TypeOK, Watch
<1> HIDE DEF WatchTypes, NodeTypes
<1>6. CASE WatchReads(g)
  <2>1. PICK saw \in {"nothing", "no-link", "link", "running"} :
          watch' = [watch EXCEPT ![g].at = "read", ![g].saw = saw]
    <3> DEFINE c == CASE node[g].link -> "link"
                      [] ~node[g].link /\ node[g].state = "needs-login" -> "no-link"
                      [] OTHER -> "running"
    <3>1. c \in {"nothing", "no-link", "link", "running"}
      OBVIOUS
    <3>2. watch' = [watch EXCEPT ![g].at = "read", ![g].saw = c]
      BY <1>6, Zenon DEF WatchReads
    <3> QED
      BY <3>1, <3>2
  <2>2. watch[g].at = "waiting" /\ UNCHANGED <<status, node>>
    BY <1>6 DEF WatchReads
  <2>3. WatchTypes
    <3> DEFINE w == [watch[g] EXCEPT !.at = "read", !.saw = saw]
    <3>1. watch \in [Gens -> Watch]
      BY DEF TypeOK
    <3>2. watch' = [watch EXCEPT ![g] = w]
      BY <2>1
    <3>3. w \in Watch
      BY <3>1 DEF Watch
    <3> HIDE DEF w
    <3> QED
      BY <2>2, <3>1, <3>2, <3>3 DEF WatchTypes
  <2> QED
    BY <1>2, <1>3, <1>4, <2>2, <2>3
<1>7. CASE watch[g].at = "read" /\ SeesSignedOut(g)
  <2>1. Episode(g) \in SUBSET {"active", "owned", "sawNoURL", "nudged"}
    BY DEF Episode, TypeOK, Watch
  <2>2. \A e : Episode(g) \cup {e} \in SUBSET {"active", "owned", "sawNoURL", "nudged"}
               <=> e \in {"active", "owned", "sawNoURL", "nudged"}
    BY <2>1
  <2>3. WatchTypes
    <3>1. Remembers(g, Episode(g)) \/ Remembers(g, Episode(g) \cup {"sawNoURL"})
          \/ Remembers(g, Episode(g) \cup {"nudged"})
      BY <1>7 DEF SeesSignedOut
    <3> QED
      BY <1>5, <1>7, <2>1, <2>2, <3>1
  <2>4. Says(g) /\ status' \in Status
    <3>1. UNCHANGED status \/ Publish(g, LoginRequired(g)) \/ Publish(g, Entered("login-required"))
      BY <1>7 DEF SeesSignedOut
    <3> QED
      BY <1>4, <3>1, SaysLogin, SaysEntered DEF EdgeStates
  <2>5. NodeTypes
    <3>1. UNCHANGED node \/ (node[g].state = "needs-login" /\ Becomes(g, "needs-login", node[g].link, TRUE))
      BY <1>7 DEF SeesSignedOut
    <3>2. CASE node[g].state = "needs-login" /\ Becomes(g, "needs-login", node[g].link, TRUE)
      <4>1. /\ node' \in [Gens -> Node] /\ LinkInv'
            /\ \A h \in Gens \ {g} : node'[h] = node[h]
        BY <3>2, NodeType, BecomesLemma
      <4> QED
        BY <3>2, <4>1 DEF NodeTypes
    <3> QED
      BY <1>3, <3>1, <3>2
  <2> QED
    BY <1>2, <2>3, <2>4, <2>5
<1>8. CASE watch[g].at = "read" /\ SeesRunning(g)
  <2>1. WatchTypes /\ NodeTypes
    BY <1>3, <1>5, <1>8 DEF SeesRunning
  <2>2. Says(g) /\ status' \in Status
    <3>1. UNCHANGED status \/ Publish(g, Connected(g))
      BY <1>8 DEF SeesRunning
    <3> QED
      BY <1>4, <1>8, <3>1, SaysConnected
  <2> QED
    BY <1>2, <2>1, <2>2
<1>9. CASE WatchEnds(g)
  <2>1. WatchTypes
    BY <1>9 DEF WatchEnds, NoWatch, TypeOK, Watch, WatchTypes
  <2> QED
    BY <1>2, <1>3, <1>4, <1>9, <2>1 DEF WatchEnds
<1> QED
  BY <1>6, <1>7, <1>8, <1>9 DEF WatchStep, WatchActs

\* Calls, locks and the room for generations are not the goroutines' affair.
LEMMA CallsUntouched ==
  ASSUME CallInv, RoomInv, UNCHANGED <<gen, mu, inst, calls, exit>>
  PROVE  CallInv' /\ RoomInv'
<1>1. Replacing' = Replacing /\ Reserved' = Reserved
  BY DEF Replacing, Reserved
<1>2. \A k \in Calls : Holds(k)' <=> Holds(k)
  BY DEF Holds
<1> QED
  BY <1>1, <1>2 DEF CallInv, RoomInv

\* What a goroutine does keeps the invariant.
LEMMA GoroutineStep ==
  ASSUME Inv, NEW g \in Gens, GoroutineDoes(g)
  PROVE  Inv'
<1>1. UNCHANGED <<gen, mu, inst, cfg, saved, of, cancelled, calls, quiet, exit>>
  BY DEF GoroutineDoes
<1>2. TypeOK'
  BY <1>1 DEF GoroutineDoes, Inv, TypeOK
<1>3. CallInv' /\ RoomInv' /\ LinkInv'
  BY <1>1, CallsUntouched DEF Inv, GoroutineDoes
<1>4. /\ \A h \in Gens :
          /\ node'[h].state # "off" => node[h].state # "off"
          /\ boot'[h] # "none" => boot[h] # "none"
          /\ watch'[h].at # "off" => \/ watch[h].at # "off"
                                     \/ h = g /\ boot[g] # "none" /\ g \in listening'
      /\ listening \subseteq listening'
  BY DEF GoroutineDoes
<1>5. CASE exit.step # "no"
  <2>1. exit'.step # "no"
    BY <1>1, <1>5
  <2>2. GenInv' /\ StatusInv'
    BY <2>1 DEF GenInv, StatusInv, ConnectedIsServing, ShownIsCurrent
  <2> QED
    BY <1>2, <1>3, <2>2 DEF Inv
<1>6. CASE exit.step = "no"
  <2>1. /\ inst <= gen
        /\ \A h \in Gens :
              /\ h > gen => boot[h] = "none" /\ watch[h].at = "off"
              /\ h = gen /\ boot[h] # "none" => inst = h
              /\ h = gen /\ watch[h].at # "off" => inst = h /\ h \in listening
              /\ node[h].state # "off" => h = inst
    BY <1>6 DEF Inv, GenInv, On
  <2>2. GenInv'
    BY <1>1, <1>4, <2>1 DEF GenInv, On
  <2>3. /\ status.state = "connected" => inst = gen /\ gen \in listening /\ status.host = of[gen]
        /\ status.host # None => status.host = of[gen]
        /\ status.link # NoGen => status.link = gen /\ status.state = "login-required"
    BY <1>6 DEF Inv, StatusInv, ConnectedIsServing, ShownIsCurrent
  <2>4. /\ status'.state = "connected" => inst = gen /\ gen \in listening' /\ status'.host = of[gen]
        /\ status'.host # None => status'.host = of[gen]
        /\ status'.link # NoGen => status'.link = gen /\ status'.state = "login-required"
    <3>1. CASE status' = status
      <4>1. listening \subseteq listening'
        BY <1>4
      <4> QED
        BY <2>3, <3>1, <4>1
    <3>2. CASE status' # status
      <4>1. /\ g = gen
            /\ status'.host \in {None, status.host, of[g]}
            /\ status'.link \in {NoGen, status.link, g}
            /\ status'.link # NoGen => \/ status'.state = "login-required"
                                       \/ status'.state = status.state /\ status'.link = status.link
            /\ status'.state = "connected" =>
                  /\ status'.host = of[g]
                  /\ \/ status.state = "connected"
                     \/ boot[g] # "none" /\ g \in listening'
                     \/ watch[g].at # "off"
        BY <3>2 DEF GoroutineDoes, Says
      <4>2. status'.state = "connected" => inst = gen /\ gen \in listening' /\ status'.host = of[gen]
        BY <1>4, <2>1, <2>3, <4>1
      <4>3. status'.host # None => status'.host = of[gen]
        BY <2>3, <4>1
      <4>4. status'.link # NoGen => status'.link = gen /\ status'.state = "login-required"
        BY <2>3, <4>1
      <4> QED
        BY <4>2, <4>3, <4>4
    <3> QED
      BY <3>1, <3>2
  <2>5. StatusInv'
    <3>1. inst' = inst /\ gen' = gen /\ of' = of
      BY <1>1
    <3> QED
      BY <2>4, <3>1, Zenon DEF StatusInv, ConnectedIsServing, ShownIsCurrent
  <2> QED
    BY <1>2, <1>3, <2>2, <2>5 DEF Inv
<1> QED
  BY <1>5, <1>6

---------------------------------------------------------------------------
(* What a handler does. *)

\* A handler that holds the lock may move the generation; the other handlers
\* see no change.
LEMMA OneCall ==
  ASSUME TypeOK, CallInv, NEW k \in Calls, NEW c \in Call, Goes(k, c), exit' = exit,
         c.step \in {"waiting", "stopping", "launching", "saving"} => c.cfg \in Configs,
         c.step \in {"asking", "telling"} => c.gen \in Gens,
         c.step \in {"stopping", "launching"} <=> mu' = k,
         c.step \in {"stopping", "launching"} => c.gen = gen' /\ gen' \in Gens,
         exit.step = "no" /\ c.step = "stopping" => inst' # gen',
         exit.step = "no" /\ c.step = "launching" => inst' = NoGen,
         \/ UNCHANGED <<mu, gen, inst>>
         \/ mu \in {None, k} /\ mu' \in {None, k}
  PROVE  calls' \in [Calls -> Call] /\ CallInv'
<1>1. calls \in [Calls -> Call] /\ calls' = [calls EXCEPT ![k] = c]
  BY DEF TypeOK, Goes
<1>2. calls' \in [Calls -> Call] /\ calls'[k] = c /\ \A j \in Calls \ {k} : calls'[j] = calls[j]
  BY <1>1
<1>3. None \notin Calls
  BY EdgeAssumption
<1>4. ASSUME NEW j \in Calls
      PROVE  /\ calls'[j].step \in {"stopping", "launching"} <=> mu' = j
             /\ calls'[j].step \in {"waiting", "stopping", "launching", "saving"} => calls'[j].cfg \in Configs
             /\ calls'[j].step \in {"asking", "telling"} => calls'[j].gen \in Gens
             /\ calls'[j].step \in {"stopping", "launching"} => calls'[j].gen = gen' /\ gen' \in Gens
             /\ exit'.step = "no" /\ calls'[j].step = "stopping" => inst' # gen'
             /\ exit'.step = "no" /\ calls'[j].step = "launching" => inst' = NoGen
  <2>1. CASE j = k
    BY <1>2, <2>1
  <2>2. CASE j # k
    <3>1. calls'[j] = calls[j] /\ (mu' = j <=> mu = j) /\ (mu = j => UNCHANGED <<gen, inst>>)
      BY <1>2, <1>3, <2>2
    <3>2. /\ calls[j].step \in {"stopping", "launching"} <=> mu = j
          /\ calls[j].step \in {"waiting", "stopping", "launching", "saving"} => calls[j].cfg \in Configs
          /\ calls[j].step \in {"asking", "telling"} => calls[j].gen \in Gens
          /\ calls[j].step \in {"stopping", "launching"} => calls[j].gen = gen /\ gen \in Gens
          /\ exit.step = "no" /\ calls[j].step = "stopping" => inst # gen
          /\ exit.step = "no" /\ calls[j].step = "launching" => inst = NoGen
      BY DEF CallInv, Holds
    <3> QED
      BY <3>1, <3>2
  <2> QED
    BY <2>1, <2>2
<1> QED
  BY <1>2, <1>4 DEF CallInv, Holds

LEMMA ReplacingLemma ==
  ASSUME TypeOK, NEW k \in Calls, NEW c \in Call, Goes(k, c)
  PROVE  Replacing' = IF c.step = "waiting" THEN Replacing \cup {k} ELSE Replacing \ {k}
<1>1. calls'[k] = c /\ \A j \in Calls \ {k} : calls'[j] = calls[j]
  BY DEF TypeOK, Goes
<1> QED
  BY <1>1 DEF Replacing

\* A generation is taken only by a call that has asked for it.
LEMMA RoomLemma ==
  ASSUME TypeOK, RoomInv, NEW k \in Calls, NEW c \in Call, Goes(k, c), exit' = exit,
         \/ gen' = gen /\ c.step = "waiting" /\ Room
         \/ gen' = gen /\ c.step # "waiting"
         \/ gen' = gen + 1 /\ k \in Replacing /\ c.step # "waiting"
  PROVE  RoomInv'
<1> DEFINE R == Replacing
<1>1. IsFiniteSet(R) /\ gen + Cardinality(R) + Reserved <= MaxGenerations
  BY DEF RoomInv
<1>2. Cardinality(R) \in Nat /\ MaxStops \in Nat /\ Reserved \in Nat /\ gen \in Nat /\ MaxGenerations \in Nat
      /\ Reserved <= MaxStops
  BY <1>1, FS_CardinalityType, EdgeAssumption DEF Reserved, TypeOK, Gens, NoGen
<1>3. IsFiniteSet(R \cup {k}) /\ Cardinality(R \cup {k}) = IF k \in R THEN Cardinality(R) ELSE Cardinality(R) + 1
  BY <1>1, FS_AddElement
<1>4. IsFiniteSet(R \ {k}) /\ Cardinality(R \ {k}) = IF k \in R THEN Cardinality(R) - 1 ELSE Cardinality(R)
  BY <1>1, FS_RemoveElement
<1>5. Reserved' = Reserved
  BY DEF Reserved
<1>6. Room <=> gen + Cardinality(R) + MaxStops < MaxGenerations
  BY DEF Room
<1>7. CASE gen' = gen /\ c.step = "waiting" /\ Room
  <2>1. Replacing' = R \cup {k}
    BY <1>7, ReplacingLemma
  <2>2. gen + Cardinality(R \cup {k}) + Reserved <= MaxGenerations
    BY <1>2, <1>3, <1>6, <1>7
  <2> QED
    BY <1>3, <1>5, <1>7, <2>1, <2>2 DEF RoomInv
<1>8. CASE c.step # "waiting"
  <2>1. Replacing' = R \ {k}
    BY <1>8, ReplacingLemma
  <2>2. gen' + Cardinality(R \ {k}) + Reserved <= MaxGenerations
    BY <1>1, <1>2, <1>4, <1>8
  <2> QED
    BY <1>4, <1>5, <2>1, <2>2 DEF RoomInv
<1> QED
  BY <1>7, <1>8

\* What is said of the generation in force does not change.
LEMMA SameGeneration ==
  ASSUME Inv, UNCHANGED <<gen, inst, status, exit, of, boot, watch, listening>>,
         \A g \in Gens : node'[g].state # "off" => node[g].state # "off"
  PROVE  GenInv' /\ StatusInv'
<1>1. StatusInv'
  <2>1. /\ gen' = gen /\ inst' = inst /\ status' = status /\ exit' = exit /\ of' = of
        /\ listening' = listening
    OBVIOUS
  <2> QED
    BY <2>1 DEF Inv, StatusInv, ConnectedIsServing, ShownIsCurrent
<1>2. GenInv'
  BY DEF Inv, GenInv, On
<1> QED
  BY <1>1, <1>2

\* A handler that begins, or is done.
LEMMA IdleLemma ==
  ASSUME TypeOK
  PROVE  /\ Idle \in Call /\ Idle.step = "none"
         /\ \A k \in Calls : calls[k] = Idle => calls[k].step = "none"
BY DEF Idle, Call, NoGen

LEMMA CallTypes ==
  ASSUME TypeOK, NEW k \in Calls,
         NEW s \in {"none", "waiting", "stopping", "launching", "saving", "asking", "telling"}
  PROVE  /\ [calls[k] EXCEPT !.step = s] \in Call
         /\ [calls[k] EXCEPT !.step = s].step = s
         /\ [calls[k] EXCEPT !.step = s].cfg = calls[k].cfg
         /\ [calls[k] EXCEPT !.step = s].gen = calls[k].gen
<1> DEFINE c == calls[k]
<1>1. c \in Call
  BY DEF TypeOK
<1> HIDE DEF c
<1>2. /\ [c EXCEPT !.step = s] \in Call /\ [c EXCEPT !.step = s].step = s
      /\ [c EXCEPT !.step = s].cfg = c.cfg /\ [c EXCEPT !.step = s].gen = c.gen
  BY <1>1 DEF Call
<1> QED
  BY <1>2 DEF c

LEMMA ApplyBeginsKeeps ==
  ASSUME Inv, NEW k \in Calls, NEW c \in Configs, ApplyBegins(k, c), exit' = exit
  PROVE  Inv'
<1> DEFINE r == [kind |-> "apply", step |-> "waiting", cfg |-> c, gen |-> NoGen]
<1>1. /\ calls[k] = Idle /\ Room /\ Goes(k, r)
      /\ UNCHANGED <<gen, mu, inst, cfg, saved, status, of, node, boot, cancelled, listening, watch, quiet, spent>>
  BY DEF ApplyBegins, Free, generations
<1>2. r \in Call /\ r.step = "waiting" /\ r.cfg = c
  BY DEF Call, NoGen
<1>3. mu # k
  BY <1>1, IdleLemma DEF Inv, CallInv, Holds
<1> HIDE DEF r
<1>4. calls' \in [Calls -> Call] /\ CallInv'
  BY <1>1, <1>2, <1>3, OneCall DEF Inv
<1>5. RoomInv'
  BY <1>1, <1>2, RoomLemma DEF Inv
<1>6. TypeOK' /\ LinkInv'
  BY <1>1, <1>4 DEF Inv, TypeOK, LinkInv
<1>7. GenInv' /\ StatusInv'
  BY <1>1, SameGeneration
<1> QED
  BY <1>4, <1>5, <1>6, <1>7 DEF Inv

LEMMA RestartBeginsKeeps ==
  ASSUME Inv, NEW k \in Calls, RestartBegins(k), exit' = exit
  PROVE  Inv'
<1> DEFINE r == [kind |-> "restart", step |-> "waiting", cfg |-> cfg, gen |-> NoGen]
<1>1. /\ calls[k] = Idle /\ Room /\ Goes(k, r)
      /\ UNCHANGED <<gen, mu, inst, cfg, saved, status, of, node, boot, cancelled, listening, watch, quiet, spent>>
  BY DEF RestartBegins, Free, generations
<1>2. r \in Call /\ r.step = "waiting" /\ r.cfg \in Configs
  BY DEF Call, NoGen, Inv, TypeOK
<1>3. mu # k
  BY <1>1, IdleLemma DEF Inv, CallInv, Holds
<1> HIDE DEF r
<1>4. calls' \in [Calls -> Call] /\ CallInv'
  BY <1>1, <1>2, <1>3, OneCall DEF Inv
<1>5. RoomInv'
  BY <1>1, <1>2, RoomLemma DEF Inv
<1>6. TypeOK' /\ LinkInv'
  BY <1>1, <1>4 DEF Inv, TypeOK, LinkInv
<1>7. GenInv' /\ StatusInv'
  BY <1>1, SameGeneration
<1> QED
  BY <1>4, <1>5, <1>6, <1>7 DEF Inv

\* The number that is taken is one that no generation has had: nothing of it has
\* begun, and nothing can be said of it.
LEMMA RetiresKeeps ==
  ASSUME Inv, NEW k \in Calls, Retires(k), exit' = exit
  PROVE  Inv'
<1> DEFINE r == [calls[k] EXCEPT !.gen = gen + 1,
                                !.step = IF inst = NoGen THEN "launching" ELSE "stopping"]
<1>1. /\ calls[k].step = "waiting" /\ mu = None /\ mu' = k /\ gen' = gen + 1
      /\ of' = [of EXCEPT ![gen + 1] = calls[k].cfg]
      /\ Transition(Entered("starting")) /\ Goes(k, r)
      /\ cancelled' = IF inst = NoGen THEN cancelled ELSE cancelled \cup {inst}
      /\ UNCHANGED <<inst, cfg, saved, node, boot, listening, watch, quiet, spent>>
  BY DEF Retires
<1>2. k \in Replacing /\ gen + 1 \in Gens
  <2>1. k \in Replacing
    BY <1>1 DEF Replacing
  <2>2. IsFiniteSet(Replacing) /\ gen + Cardinality(Replacing) + Reserved <= MaxGenerations
    BY DEF Inv, RoomInv
  <2>3. Cardinality(Replacing) # 0
    BY <2>1, <2>2, FS_EmptySet
  <2>4. Cardinality(Replacing) \in Nat /\ Reserved \in Nat /\ gen \in Nat /\ MaxGenerations \in Nat
    BY <2>2, FS_CardinalityType, EdgeAssumption DEF Reserved, Inv, TypeOK, Gens, NoGen
  <2> HIDE DEF Replacing
  <2> QED
    BY <2>1, <2>2, <2>3, <2>4 DEF Gens
<1>3. /\ calls[k].cfg \in Configs /\ calls[k] \in Call /\ inst \in Gens \cup {NoGen} /\ gen \in Nat
  BY <1>1, EdgeAssumption DEF Inv, CallInv, TypeOK, Gens, NoGen
<1>4. /\ r \in Call /\ r.cfg \in Configs /\ r.gen = gen + 1
      /\ r.step = IF inst = NoGen THEN "launching" ELSE "stopping"
  BY <1>2, <1>3 DEF Call
<1> HIDE DEF r
<1>5. exit.step = "no" => inst # gen + 1
  BY <1>3, Bounds DEF Inv, GenInv, Gens, NoGen
<1>6. calls' \in [Calls -> Call] /\ CallInv'
  BY <1>1, <1>2, <1>4, <1>5, OneCall DEF Inv
<1>7. RoomInv'
  BY <1>1, <1>2, <1>4, RoomLemma DEF Inv
<1>8. "starting" \in EdgeStates /\ Entered("starting").host = None /\ Entered("starting").link = NoGen
  BY DEF EdgeStates, Entered
<1>9. Entered("starting") \in Status /\ Entered("starting").state = "starting"
  BY <1>8, EnteredLemma DEF Inv
<1>10. status' = Entered("starting")
  BY <1>1, <1>9 DEF Transition, CanTransition
<1>11. LinkInv' /\ TypeOK'
  <2>1. of' \in [Gens -> Configs \cup {None}] /\ cancelled' \in SUBSET Gens
    BY <1>1, <1>3 DEF Inv, TypeOK
  <2>2. gen' \in Gens \cup {NoGen} /\ mu' \in Calls \cup {None} /\ status' \in Status
    BY <1>1, <1>2, <1>9, <1>10
  <2>3. LinkInv'
    BY <1>1 DEF Inv, LinkInv
  <2> QED
    BY <1>1, <1>6, <2>1, <2>2, <2>3 DEF Inv, TypeOK
<1>12. StatusInv'
  BY <1>8, <1>9, <1>10 DEF StatusInv, ConnectedIsServing, ShownIsCurrent
<1>13. GenInv'
  <2> SUFFICES ASSUME exit.step = "no" PROVE GenInv'
    BY DEF GenInv
  <2>1. inst <= gen /\ \A g \in Gens : g \in Nat
    BY EdgeAssumption DEF Inv, GenInv, Gens
  <2>2. \A g \in Gens :
              /\ g > gen => boot[g] = "none" /\ watch[g].at = "off"
              /\ node[g].state # "off" => g = inst
    BY DEF Inv, GenInv, On
  <2>3. inst \in Nat
    BY <1>3, <2>1 DEF NoGen
  <2>4. \A g \in Gens : g > gen + 1 \/ g = gen + 1 => g > gen
    BY <1>3, <2>1
  <2> QED
    BY <1>1, <1>3, <2>1, <2>2, <2>3, <2>4 DEF GenInv, On
<1> QED
  BY <1>6, <1>7, <1>11, <1>12, <1>13 DEF Inv

LEMMA StopsKeeps ==
  ASSUME Inv, NEW k \in Calls, Stops(k), exit' = exit
  PROVE  Inv'
<1> DEFINE r == [calls[k] EXCEPT !.step = "launching"]
<1>1. /\ calls[k].step = "stopping" /\ inst' = NoGen /\ Goes(k, r)
      /\ listening' = listening \ {inst} /\ node' = [node EXCEPT ![inst] = Off]
      /\ UNCHANGED <<gen, mu, cfg, saved, status, of, boot, cancelled, watch, quiet, spent>>
  BY DEF Stops, Closes, Steps
<1>2. mu = k /\ calls[k].gen = gen /\ gen \in Gens /\ calls[k].cfg \in Configs
      /\ (exit.step = "no" => inst # gen)
  BY <1>1 DEF Inv, CallInv, Holds
<1>3. r \in Call /\ r.step = "launching" /\ r.gen = calls[k].gen /\ r.cfg = calls[k].cfg
  BY CallTypes DEF Inv
<1> HIDE DEF r
<1>4. calls' \in [Calls -> Call] /\ CallInv'
  BY <1>1, <1>2, <1>3, OneCall DEF Inv
<1>5. RoomInv'
  BY <1>1, <1>3, RoomLemma DEF Inv
<1>6. Off \in Node /\ Off.state = "off" /\ Off.link = FALSE
  BY DEF Off, Node
<1>7. /\ node' \in [Gens -> Node]
      /\ \A g \in Gens : node'[g] = IF g = inst THEN Off ELSE node[g]
  BY <1>1, <1>6 DEF Inv, TypeOK
<1>8. TypeOK' /\ LinkInv'
  <2>1. LinkInv'
    BY <1>6, <1>7 DEF Inv, LinkInv
  <2> QED
    BY <1>1, <1>4, <1>7, <2>1 DEF Inv, TypeOK
<1>9. ASSUME exit.step = "no" PROVE GenInv' /\ StatusInv'
  <2>1. /\ gen \in Nat /\ inst <= gen
        /\ \A g \in Gens :
              /\ g > gen => boot[g] = "none" /\ watch[g].at = "off"
              /\ g = gen /\ boot[g] # "none" => inst = g
              /\ g = gen /\ watch[g].at # "off" => inst = g
              /\ node[g].state # "off" => g = inst
    BY <1>2, <1>9, EdgeAssumption DEF Inv, GenInv, On, Gens
  <2>2. GenInv'
    BY <1>1, <1>2, <1>6, <1>7, <2>1 DEF GenInv, On, NoGen
  <2>3. /\ status.state # "connected"
        /\ status.host # None => status.host = of[gen]
        /\ status.link # NoGen => status.link = gen /\ status.state = "login-required"
    BY <1>2, <1>9 DEF Inv, StatusInv, ConnectedIsServing, ShownIsCurrent
  <2>4. gen' = gen /\ status' = status /\ of' = of
    BY <1>1
  <2>5. StatusInv'
    BY <2>3, <2>4 DEF StatusInv, ConnectedIsServing, ShownIsCurrent
  <2> QED
    BY <2>2, <2>5
<1>10. exit.step # "no" => GenInv' /\ StatusInv'
  BY DEF GenInv, StatusInv, ConnectedIsServing, ShownIsCurrent
<1> QED
  BY <1>4, <1>5, <1>8, <1>9, <1>10 DEF Inv

\* The new node is the only one that is open.
LEMMA LaunchesKeeps ==
  ASSUME Inv, NEW k \in Calls, Launches(k), exit' = exit
  PROVE  Inv'
<1> DEFINE g == calls[k].gen
<1>1. /\ calls[k].step = "launching" /\ cfg' = calls[k].cfg /\ mu' = None
      /\ UNCHANGED <<gen, saved, of, cancelled, listening, watch, quiet>>
  BY DEF Launches
<1>2. /\ mu = k /\ g = gen /\ gen \in Gens /\ g \in Gens /\ calls[k].cfg \in Configs
      /\ (exit.step = "no" => inst = NoGen)
  BY <1>1 DEF Inv, CallInv, Holds
<1>3. k # None
  BY EdgeAssumption
<1>4. ASSUME NEW c \in Call, Goes(k, c), c.step \in {"none", "saving"}, c.cfg \in Configs \/ c.step = "none"
      PROVE  calls' \in [Calls -> Call] /\ CallInv' /\ RoomInv'
  <2>1. calls' \in [Calls -> Call] /\ CallInv'
    BY <1>1, <1>2, <1>3, <1>4, OneCall DEF Inv
  <2>2. RoomInv'
    BY <1>1, <1>4, RoomLemma DEF Inv
  <2> QED
    BY <2>1, <2>2
<1>5. CASE /\ inst' = g /\ Becomes(g, "starting", FALSE, FALSE) /\ Boots(g, "begun")
           /\ IF calls[k].kind = "apply" THEN Steps(k, "saving") ELSE Goes(k, Idle)
           /\ UNCHANGED <<status, spent>>
  <2>1. calls' \in [Calls -> Call] /\ CallInv' /\ RoomInv'
    <3>1. CASE Steps(k, "saving")
      <4> DEFINE c == [calls[k] EXCEPT !.step = "saving"]
      <4>1. c \in Call /\ c.step = "saving" /\ c.cfg = calls[k].cfg
        BY CallTypes DEF Inv
      <4>2. Goes(k, c)
        BY <3>1 DEF Steps
      <4> HIDE DEF c
      <4> QED
        BY <1>2, <1>4, <4>1, <4>2
    <3>2. CASE Goes(k, Idle)
      BY <1>4, <3>2, IdleLemma DEF Inv
    <3> QED
      BY <1>5, <3>1, <3>2
  <2>2. /\ node' \in [Gens -> Node] /\ LinkInv'
        /\ \A h \in Gens \ {g} : node'[h] = node[h]
    BY <1>2, <1>5, BecomesLemma DEF Inv
  <2>3. /\ boot' \in [Gens -> Booting \cup {"none", "serving", "returned"}]
        /\ \A h \in Gens \ {g} : boot'[h] = boot[h]
    BY <1>2, <1>5 DEF Boots, Inv, TypeOK, Booting
  <2>4. TypeOK'
    BY <1>1, <1>2, <1>5, <2>1, <2>2, <2>3 DEF Inv, TypeOK
  <2>5. ASSUME exit.step = "no" PROVE GenInv' /\ StatusInv'
    <3>1. /\ inst = NoGen /\ gen \in Nat
          /\ \A h \in Gens :
              /\ h \in Nat /\ h # NoGen
              /\ h > gen => boot[h] = "none" /\ watch[h].at = "off"
              /\ h = gen /\ watch[h].at # "off" => inst = h
              /\ node[h].state # "off" => h = inst
      BY <1>2, <2>5, EdgeAssumption DEF Inv, GenInv, On, Gens, NoGen
    <3>2. inst' = gen /\ gen' = gen /\ inst' <= gen'
      BY <1>1, <1>2, <1>5, <3>1
    <3>3. \A h \in Gens : /\ node'[h].state # "off" => h = gen
                          /\ h > gen => boot'[h] = "none" /\ watch'[h].at = "off"
                          /\ h = gen => watch'[h].at = "off"
      BY <1>1, <1>2, <2>2, <2>3, <3>1
    <3>4. GenInv'
      BY <3>2, <3>3 DEF GenInv, On
    <3>5. status' = status /\ of' = of
      BY <1>1, <1>5
    <3>6. /\ status.state # "connected"
          /\ status.host # None => status.host = of[gen]
          /\ status.link # NoGen => status.link = gen /\ status.state = "login-required"
      <4>1. inst # gen
        BY <1>2, <3>1
      <4> QED
        BY <2>5, <4>1 DEF Inv, StatusInv, ConnectedIsServing, ShownIsCurrent
    <3>7. StatusInv'
      BY <3>2, <3>5, <3>6 DEF StatusInv, ConnectedIsServing, ShownIsCurrent
    <3> QED
      BY <3>4, <3>7
  <2>6. exit.step # "no" => GenInv' /\ StatusInv'
    BY DEF GenInv, StatusInv, ConnectedIsServing, ShownIsCurrent
  <2> QED
    BY <2>1, <2>2, <2>4, <2>5, <2>6 DEF Inv
<1>6. CASE /\ Spend /\ Publish(g, Entered("error")) /\ Goes(k, Idle)
           /\ UNCHANGED <<inst, node, boot>>
  <2>1. calls' \in [Calls -> Call] /\ CallInv' /\ RoomInv'
    BY <1>4, <1>6, IdleLemma DEF Inv
  <2>2. Says(g) /\ status' \in Status
    BY <1>2, <1>6, SaysEntered DEF Inv, EdgeStates
  <2>3. spent' \in 0..MaxTroubles
    BY <1>6, SpendType DEF Inv
  <2>4. TypeOK' /\ LinkInv'
    BY <1>1, <1>2, <1>6, <2>1, <2>2, <2>3 DEF Inv, TypeOK, LinkInv
  <2>5. ASSUME exit.step = "no" PROVE GenInv' /\ StatusInv'
    <3>1. GenInv'
      BY <1>1, <1>6 DEF Inv, GenInv, On
    <3>2. /\ status.host # None => status.host = of[gen]
          /\ status.link # NoGen => status.link = gen /\ status.state = "login-required"
          /\ status.state # "connected"
      <4>1. inst # gen
        BY <1>2, <2>5, Bounds
      <4> QED
        BY <2>5, <4>1 DEF Inv, StatusInv, ConnectedIsServing, ShownIsCurrent
    <3>3. status' = status \/ status' = Entered("error")
      BY <1>6, EnteredLemma, PublishLemma, <1>2 DEF Inv, EdgeStates
    <3>4. Entered("error").state = "error" /\ Entered("error").host = status.host /\ Entered("error").link = NoGen
      BY DEF Entered
    <3>5. /\ status'.host # None => status'.host = of[gen]
          /\ status'.link # NoGen => status'.link = gen /\ status'.state = "login-required"
          /\ status'.state # "connected"
      BY <3>2, <3>3, <3>4
    <3>6. gen' = gen /\ of' = of
      BY <1>1
    <3>7. StatusInv'
      BY <3>5, <3>6 DEF StatusInv, ConnectedIsServing, ShownIsCurrent
    <3> QED
      BY <3>1, <3>7
  <2>6. exit.step # "no" => GenInv' /\ StatusInv'
    BY DEF GenInv, StatusInv, ConnectedIsServing, ShownIsCurrent
  <2> QED
    BY <2>1, <2>4, <2>5, <2>6 DEF Inv
<1> QED
  BY <1>5, <1>6 DEF Launches

\* A handler that neither holds the lock nor asks for a generation.
LEMMA LooseCall ==
  ASSUME Inv, NEW k \in Calls, NEW c \in Call, Goes(k, c), ~Holds(k), UNCHANGED <<gen, mu, inst, exit>>,
         c.step = "none" \/ (c.step \in {"asking", "telling"} /\ c.gen \in Gens)
  PROVE  calls' \in [Calls -> Call] /\ CallInv' /\ RoomInv'
<1>1. mu' # k /\ exit' = exit /\ gen' = gen /\ mu' = mu /\ inst' = inst
  BY DEF Inv, CallInv
<1>2. calls' \in [Calls -> Call] /\ CallInv'
  BY <1>1, OneCall DEF Inv
<1>3. RoomInv'
  BY <1>1, RoomLemma DEF Inv
<1> QED
  BY <1>2, <1>3

LEMMA SavesKeeps ==
  ASSUME Inv, NEW k \in Calls, Saves(k), exit' = exit
  PROVE  Inv'
<1>1. /\ calls[k].step = "saving" /\ saved' = calls[k].cfg /\ Goes(k, Idle)
      /\ UNCHANGED <<gen, mu, inst, cfg, status, of, node, boot, cancelled, listening, watch, quiet, spent>>
  BY DEF Saves, generations
<1>2. ~Holds(k) /\ calls[k].cfg \in Configs
  BY <1>1 DEF Holds, Inv, CallInv
<1>3. calls' \in [Calls -> Call] /\ CallInv' /\ RoomInv'
  BY <1>1, <1>2, LooseCall, IdleLemma DEF Inv
<1>4. TypeOK' /\ LinkInv'
  BY <1>1, <1>2, <1>3 DEF Inv, TypeOK, LinkInv
<1>5. GenInv' /\ StatusInv'
  BY <1>1, SameGeneration
<1> QED
  BY <1>3, <1>4, <1>5 DEF Inv

LEMMA SignOutBeginsKeeps ==
  ASSUME Inv, NEW k \in Calls, SignOutBegins(k), exit' = exit
  PROVE  Inv'
<1> DEFINE r == [kind |-> "logout", step |-> "asking", cfg |-> None, gen |-> inst]
<1>1. /\ calls[k] = Idle /\ inst # NoGen /\ Spend /\ Goes(k, r)
      /\ UNCHANGED <<gen, mu, inst, cfg, saved, status, of, node, boot, cancelled, listening, watch, quiet>>
  BY DEF SignOutBegins, Free, generations
<1>2. ~Holds(k) /\ inst \in Gens
  BY <1>1, IdleLemma DEF Holds, Inv, TypeOK
<1>3. r \in Call /\ r.step = "asking" /\ r.gen \in Gens
  BY <1>2 DEF Call
<1> HIDE DEF r
<1>4. calls' \in [Calls -> Call] /\ CallInv' /\ RoomInv'
  BY <1>1, <1>2, <1>3, LooseCall
<1>5. spent' \in 0..MaxTroubles
  BY <1>1, SpendType DEF Inv
<1>6. TypeOK' /\ LinkInv'
  BY <1>1, <1>4, <1>5 DEF Inv, TypeOK, LinkInv
<1>7. GenInv' /\ StatusInv'
  BY <1>1, SameGeneration
<1> QED
  BY <1>4, <1>6, <1>7 DEF Inv

\* A node that has been closed stays closed.
LEMMA SignsOutKeeps ==
  ASSUME Inv, NEW k \in Calls, SignsOut(k), exit' = exit
  PROVE  Inv'
<1> DEFINE g == calls[k].gen
<1>1. /\ calls[k].step = "asking"
      /\ UNCHANGED <<gen, mu, inst, cfg, saved, status, of, boot, cancelled, listening, watch, spent>>
  BY DEF SignsOut
<1>2. ~Holds(k) /\ g \in Gens
  BY <1>1 DEF Holds, Inv, CallInv
<1>3. CASE /\ On(g) /\ Becomes(g, "needs-login", FALSE, FALSE) /\ quiet' = quiet \cup {g}
           /\ Steps(k, "telling")
  <2> DEFINE c == [calls[k] EXCEPT !.step = "telling"]
  <2>1. c \in Call /\ c.step = "telling" /\ c.gen = g
    BY CallTypes DEF Inv
  <2>2. Goes(k, c)
    BY <1>3 DEF Steps
  <2> HIDE DEF c
  <2>3. calls' \in [Calls -> Call] /\ CallInv' /\ RoomInv'
    BY <1>1, <1>2, <2>1, <2>2, LooseCall
  <2>4. /\ node' \in [Gens -> Node] /\ LinkInv'
        /\ \A h \in Gens \ {g} : node'[h] = node[h]
    BY <1>2, <1>3, BecomesLemma DEF Inv
  <2>5. TypeOK'
    BY <1>1, <1>2, <1>3, <2>3, <2>4 DEF Inv, TypeOK
  <2>6. GenInv' /\ StatusInv'
    <3>1. \A h \in Gens : node'[h].state # "off" => node[h].state # "off"
      BY <1>3, <2>4 DEF On
    <3> QED
      BY <1>1, <3>1, SameGeneration
  <2> QED
    BY <2>3, <2>4, <2>5, <2>6 DEF Inv
<1>4. CASE ~On(g) /\ Goes(k, Idle) /\ UNCHANGED <<node, quiet>>
  <2>1. calls' \in [Calls -> Call] /\ CallInv' /\ RoomInv'
    BY <1>1, <1>2, <1>4, LooseCall, IdleLemma DEF Inv
  <2>2. TypeOK' /\ LinkInv'
    BY <1>1, <1>4, <2>1 DEF Inv, TypeOK, LinkInv
  <2>3. GenInv' /\ StatusInv'
    BY <1>1, <1>4, SameGeneration
  <2> QED
    BY <2>1, <2>2, <2>3 DEF Inv
<1> QED
  BY <1>3, <1>4 DEF SignsOut

\* The status may be told of a generation that has come since: it names none.
LEMMA SignOutTellsKeeps ==
  ASSUME Inv, NEW k \in Calls, SignOutTells(k), exit' = exit
  PROVE  Inv'
<1>1. /\ calls[k].step = "telling" /\ Transition(Entered("login-required")) /\ Goes(k, Idle)
      /\ UNCHANGED <<gen, mu, inst, cfg, saved, of, node, boot, cancelled, listening, watch, quiet, spent>>
  BY DEF SignOutTells, generations
<1>2. ~Holds(k)
  BY <1>1 DEF Holds
<1>3. calls' \in [Calls -> Call] /\ CallInv' /\ RoomInv'
  BY <1>1, <1>2, LooseCall, IdleLemma DEF Inv
<1>4. Entered("login-required") \in Status
  BY EnteredLemma DEF Inv, EdgeStates
<1>5. /\ Entered("login-required").state = "login-required" /\ Entered("login-required").host = status.host
      /\ Entered("login-required").link = status.link
  BY DEF Entered
<1>6. status' \in Status /\ (status' = status \/ status' = Entered("login-required"))
  BY <1>1, <1>4, TransitionLemma DEF Inv, TypeOK
<1>7. TypeOK' /\ LinkInv'
  BY <1>1, <1>3, <1>6 DEF Inv, TypeOK, LinkInv
<1>8. GenInv'
  BY <1>1 DEF Inv, GenInv, On
<1>9. StatusInv'
  <2>1. CASE exit.step = "no"
    <3>1. /\ status.state = "connected" => inst = gen /\ gen \in listening /\ status.host = of[gen]
          /\ status.host # None => status.host = of[gen]
          /\ status.link # NoGen => status.link = gen /\ status.state = "login-required"
      BY <2>1 DEF Inv, StatusInv, ConnectedIsServing, ShownIsCurrent
    <3>2. /\ status'.state = "connected" => inst = gen /\ gen \in listening /\ status'.host = of[gen]
          /\ status'.host # None => status'.host = of[gen]
          /\ status'.link # NoGen => status'.link = gen /\ status'.state = "login-required"
      BY <1>5, <1>6, <3>1
    <3>3. gen' = gen /\ inst' = inst /\ of' = of /\ listening' = listening
      BY <1>1
    <3> QED
      BY <3>2, <3>3 DEF StatusInv, ConnectedIsServing, ShownIsCurrent
  <2>2. CASE exit.step # "no"
    BY <2>2 DEF StatusInv, ConnectedIsServing, ShownIsCurrent
  <2> QED
    BY <2>1, <2>2
<1> QED
  BY <1>3, <1>7, <1>8, <1>9 DEF Inv

LEMMA LoginBeginsKeeps ==
  ASSUME Inv, NEW k \in Calls, LoginBegins(k), exit' = exit
  PROVE  Inv'
<1> DEFINE r == [kind |-> "login", step |-> "asking", cfg |-> None, gen |-> inst]
<1>1. /\ calls[k] = Idle /\ inst # NoGen /\ Spend /\ Goes(k, r) /\ quiet' = quiet \ {inst}
      /\ UNCHANGED <<gen, mu, inst, cfg, saved, status, of, boot, cancelled, listening, watch>>
  BY DEF LoginBegins, Free
<1>2. ~Holds(k) /\ inst \in Gens
  BY <1>1, IdleLemma DEF Holds, Inv, TypeOK
<1>3. r \in Call /\ r.step = "asking" /\ r.gen \in Gens
  BY <1>2 DEF Call
<1> HIDE DEF r
<1>4. calls' \in [Calls -> Call] /\ CallInv' /\ RoomInv'
  BY <1>1, <1>2, <1>3, LooseCall
<1>5. spent' \in 0..MaxTroubles
  BY <1>1, SpendType DEF Inv
<1>6. /\ node' \in [Gens -> Node] /\ LinkInv'
      /\ \A h \in Gens : node'[h].state # "off" => node[h].state # "off"
  <2>1. CASE node[inst].state = "needs-login" /\ Becomes(inst, "needs-login", node[inst].link, TRUE)
    <3>1. /\ node' \in [Gens -> Node] /\ LinkInv' /\ \A h \in Gens \ {inst} : node'[h] = node[h]
      BY <1>2, <2>1, NodeType, BecomesLemma DEF Inv
    <3> QED
      BY <2>1, <3>1
  <2>2. CASE UNCHANGED node
    BY <2>2 DEF Inv, TypeOK, LinkInv
  <2> QED
    BY <2>1, <2>2 DEF LoginBegins
<1>7. TypeOK'
  BY <1>1, <1>4, <1>5, <1>6 DEF Inv, TypeOK
<1>8. GenInv' /\ StatusInv'
  BY <1>1, <1>6, SameGeneration
<1> QED
  BY <1>4, <1>6, <1>7, <1>8 DEF Inv

\* The link of a generation that was replaced meanwhile is not shown.
LEMMA LoginEndsKeeps ==
  ASSUME Inv, NEW k \in Calls, LoginEnds(k), exit' = exit
  PROVE  Inv'
<1> DEFINE g == calls[k].gen
<1>1. /\ calls[k].step = "asking" /\ Goes(k, Idle)
      /\ Publish(g, LoginRequired(g)) \/ UNCHANGED status
      /\ UNCHANGED <<gen, mu, inst, cfg, saved, of, node, boot, cancelled, listening, watch, quiet, spent>>
  BY DEF LoginEnds, generations
<1>2. ~Holds(k) /\ g \in Gens
  BY <1>1 DEF Holds, Inv, CallInv
<1>3. calls' \in [Calls -> Call] /\ CallInv' /\ RoomInv'
  BY <1>1, <1>2, LooseCall, IdleLemma DEF Inv
<1>4. Entered("login-required") \in Status
  BY EnteredLemma DEF Inv, EdgeStates
<1>5. /\ LoginRequired(g).state = "login-required" /\ LoginRequired(g).host = status.host
      /\ LoginRequired(g).link = g /\ LoginRequired(g) \in Status
  <2>1. Entered("login-required").state = "login-required" /\ Entered("login-required").host = status.host
    BY DEF Entered
  <2> QED
    BY <1>2, <1>4, <2>1 DEF LoginRequired, Status
<1>6. status' \in Status /\ (status' = status \/ (g = gen /\ status' = LoginRequired(g)))
  <2>1. status \in Status
    BY DEF Inv, TypeOK
  <2> QED
    BY <1>1, <1>2, <1>5, <2>1, PublishLemma DEF Inv
<1>7. TypeOK' /\ LinkInv'
  BY <1>1, <1>3, <1>6 DEF Inv, TypeOK, LinkInv
<1>8. GenInv'
  BY <1>1 DEF Inv, GenInv, On
<1>9. StatusInv'
  <2>1. CASE exit.step = "no"
    <3>1. /\ status.state = "connected" => inst = gen /\ gen \in listening /\ status.host = of[gen]
          /\ status.host # None => status.host = of[gen]
          /\ status.link # NoGen => status.link = gen /\ status.state = "login-required"
      BY <2>1 DEF Inv, StatusInv, ConnectedIsServing, ShownIsCurrent
    <3>2. /\ status'.state = "connected" => inst = gen /\ gen \in listening /\ status'.host = of[gen]
          /\ status'.host # None => status'.host = of[gen]
          /\ status'.link # NoGen => status'.link = gen /\ status'.state = "login-required"
      BY <1>5, <1>6, <3>1
    <3>3. gen' = gen /\ inst' = inst /\ of' = of /\ listening' = listening
      BY <1>1
    <3> QED
      BY <3>2, <3>3 DEF StatusInv, ConnectedIsServing, ShownIsCurrent
  <2>2. CASE exit.step # "no"
    BY <2>2 DEF StatusInv, ConnectedIsServing, ShownIsCurrent
  <2> QED
    BY <2>1, <2>2
<1> QED
  BY <1>3, <1>7, <1>8, <1>9 DEF Inv

LEMMA CallStepKeeps ==
  ASSUME Inv, NEW k \in Calls, CallStep(k)
  PROVE  Inv'
<1>1. exit' = exit
  BY DEF CallStep
<1> QED
  BY <1>1, ApplyBeginsKeeps, RestartBeginsKeeps, RetiresKeeps, StopsKeeps, LaunchesKeeps, SavesKeeps,
     SignOutBeginsKeeps, SignsOutKeeps, SignOutTellsKeeps, LoginBeginsKeeps, LoginEndsKeeps DEF CallStep

---------------------------------------------------------------------------
(* The process is told to exit. *)

LEMMA StopBeginsKeeps ==
  ASSUME Inv, StopBegins
  PROVE  Inv'
<1>1. /\ MaxStops = 1 /\ exit.step = "no" /\ mu = None /\ gen' = gen + 1 /\ inst' = NoGen
      /\ cancelled' = IF inst = NoGen THEN cancelled ELSE cancelled \cup {inst}
      /\ exit' = [step |-> "stopping", gen |-> inst]
      /\ UNCHANGED <<mu, cfg, saved, status, of, node, boot, listening, watch, calls, quiet, spent>>
  BY DEF StopBegins
<1>2. exit'.step = "stopping" /\ exit' \in [step: {"no", "stopping", "gone"}, gen: Gens \cup {NoGen}]
  BY <1>1 DEF Inv, TypeOK
<1>3. /\ IsFiniteSet(Replacing) /\ gen + Cardinality(Replacing) + 1 <= MaxGenerations
      /\ Cardinality(Replacing) \in Nat
  BY <1>1, FS_CardinalityType DEF Inv, RoomInv, Reserved
<1>4. gen + 1 \in Gens /\ gen \in Nat /\ MaxGenerations \in Nat
  <2>1. gen \in Nat /\ MaxGenerations \in Nat
    BY EdgeAssumption DEF Inv, TypeOK, Gens, NoGen
  <2> QED
    BY <1>3, <2>1 DEF Gens
<1>5. RoomInv'
  <2>1. Replacing' = Replacing /\ Reserved' = 0
    BY <1>1, <1>2 DEF Replacing, Reserved
  <2>2. gen + 1 + Cardinality(Replacing) + 0 <= MaxGenerations
    BY <1>3, <1>4
  <2> QED
    BY <1>1, <1>3, <2>1, <2>2 DEF RoomInv
<1>6. CallInv'
  <2>1. \A k \in Calls : ~Holds(k)
    BY <1>1, EdgeAssumption DEF Inv, CallInv
  <2>2. \A k \in Calls : Holds(k)' <=> Holds(k)
    BY <1>1 DEF Holds
  <2>3. None \notin Calls
    BY EdgeAssumption
  <2> QED
    BY <1>1, <1>2, <2>1, <2>2, <2>3 DEF Inv, CallInv
<1>7. TypeOK' /\ LinkInv'
  <2>1. inst' \in Gens \cup {NoGen} /\ cancelled' \in SUBSET Gens
    BY <1>1 DEF Inv, TypeOK
  <2> QED
    BY <1>1, <1>2, <1>4, <2>1 DEF Inv, TypeOK, LinkInv
<1>8. GenInv' /\ StatusInv'
  BY <1>2 DEF GenInv, StatusInv, ConnectedIsServing, ShownIsCurrent
<1> QED
  BY <1>5, <1>6, <1>7, <1>8 DEF Inv

LEMMA StopEndsKeeps ==
  ASSUME Inv, StopEnds
  PROVE  Inv'
<1>1. /\ exit' = [step |-> "gone", gen |-> NoGen] /\ mu' = None /\ inst' = NoGen
      /\ of' = [g \in Gens |-> None] /\ node' = [g \in Gens |-> Off]
      /\ boot' = [g \in Gens |-> "none"] /\ watch' = [g \in Gens |-> NoWatch]
      /\ calls' = [k \in Calls |-> Idle]
      /\ cancelled' = {} /\ listening' = {} /\ quiet' = {}
      /\ gen' = gen /\ cfg' = cfg /\ saved' = saved /\ spent' = spent
      /\ exit.step = "stopping" /\ Transition(Entered("stopped"))
  BY DEF StopEnds
<1>2. /\ exit'.step = "gone" /\ exit' \in [step: {"no", "stopping", "gone"}, gen: Gens \cup {NoGen}]
      /\ Off \in Node /\ Off.link = FALSE /\ NoWatch \in Watch
  BY <1>1 DEF Off, Node, NoWatch, Watch
<1>3. \A k \in Calls : calls'[k] = Idle
  BY <1>1
<1>4. Idle \in Call /\ Idle.step = "none"
  BY IdleLemma DEF Inv
<1>5. status' \in Status
  <2>1. Entered("stopped") \in Status
    BY EnteredLemma DEF Inv, EdgeStates
  <2> QED
    BY <1>1, <2>1 DEF Transition, Inv, TypeOK
<1>6. TypeOK'
  <2>1. gen \in Gens \cup {NoGen} /\ cfg \in Configs /\ saved \in Configs /\ spent \in 0..MaxTroubles
    BY DEF Inv, TypeOK
  <2>2. /\ of' \in [Gens -> Configs \cup {None}] /\ node' \in [Gens -> Node]
        /\ boot' \in [Gens -> Booting \cup {"none", "serving", "returned"}]
        /\ watch' \in [Gens -> Watch] /\ calls' \in [Calls -> Call]
    BY <1>1, <1>2, <1>4
  <2> QED
    BY <1>1, <1>2, <1>5, <2>1, <2>2 DEF TypeOK
<1>7. LinkInv'
  BY <1>1, <1>2 DEF LinkInv
<1>8. CallInv'
  BY <1>1, <1>3, <1>4, EdgeAssumption DEF CallInv, Holds
<1>9. RoomInv'
  <2>1. Replacing' = {} /\ Reserved' = 0
    BY <1>2, <1>3, <1>4 DEF Replacing, Reserved
  <2>2. IsFiniteSet({}) /\ Cardinality({}) = 0
    BY FS_EmptySet
  <2>3. /\ IsFiniteSet(Replacing) /\ gen + Cardinality(Replacing) + Reserved <= MaxGenerations
        /\ Cardinality(Replacing) \in Nat /\ Reserved \in Nat /\ gen \in Nat /\ MaxGenerations \in Nat
    BY FS_CardinalityType, EdgeAssumption DEF Inv, RoomInv, Reserved, TypeOK, Gens, NoGen
  <2>4. gen + 0 + 0 <= MaxGenerations
    BY <2>3
  <2> QED
    BY <1>1, <2>1, <2>2, <2>4 DEF RoomInv
<1>10. GenInv' /\ StatusInv'
  BY <1>2 DEF GenInv, StatusInv, ConnectedIsServing, ShownIsCurrent
<1> QED
  BY <1>6, <1>7, <1>8, <1>9, <1>10 DEF Inv

---------------------------------------------------------------------------
LEMMA InvInit ==
  ASSUME Init
  PROVE  Inv
<1>1. /\ gen = NoGen /\ inst = NoGen /\ mu = None /\ cfg = FirstConfig /\ saved = FirstConfig
      /\ status = [state |-> "stopped", host |-> None, link |-> NoGen]
      /\ of = [g \in Gens |-> None] /\ node = [g \in Gens |-> Off]
      /\ boot = [g \in Gens |-> "none"] /\ watch = [g \in Gens |-> NoWatch]
      /\ calls = [k \in Calls |-> Idle] /\ cancelled = {} /\ listening = {} /\ quiet = {}
      /\ exit = [step |-> "no", gen |-> NoGen] /\ spent = 0
  BY DEF Init
<1>2. /\ Off \in Node /\ Off.link = FALSE /\ Off.state = "off" /\ NoWatch \in Watch /\ NoWatch.at = "off"
      /\ Idle \in Call /\ Idle.step = "none"
  BY DEF Off, Node, NoWatch, Watch, Idle, Call
<1>3. /\ status \in Status /\ status.state = "stopped" /\ status.host = None /\ status.link = NoGen
      /\ exit \in [step: {"no", "stopping", "gone"}, gen: Gens \cup {NoGen}] /\ exit.step = "no"
  BY <1>1 DEF Status, EdgeStates
<1>4. TypeOK
  <2>1. /\ of \in [Gens -> Configs \cup {None}] /\ node \in [Gens -> Node]
        /\ boot \in [Gens -> Booting \cup {"none", "serving", "returned"}]
        /\ watch \in [Gens -> Watch] /\ calls \in [Calls -> Call]
    BY <1>1, <1>2
  <2>2. cfg \in Configs /\ saved \in Configs /\ spent \in 0..MaxTroubles
    BY <1>1, EdgeAssumption
  <2> QED
    BY <1>1, <1>3, <2>1, <2>2 DEF TypeOK
<1>5. LinkInv
  BY <1>1, <1>2 DEF LinkInv
<1>6. CallInv
  BY <1>1, <1>2, EdgeAssumption DEF CallInv, Holds
<1>7. RoomInv
  <2>1. Replacing = {}
    BY <1>1, <1>2 DEF Replacing
  <2>2. IsFiniteSet({}) /\ Cardinality({}) = 0
    BY FS_EmptySet
  <2>3. gen + 0 + Reserved <= MaxGenerations
    BY <1>1, <1>3, EdgeAssumption DEF Reserved, NoGen
  <2> QED
    BY <2>1, <2>2, <2>3 DEF RoomInv
<1>8. GenInv
  BY <1>1, <1>2, Bounds DEF GenInv, On, NoGen
<1>9. StatusInv
  BY <1>3 DEF StatusInv, ConnectedIsServing, ShownIsCurrent
<1> QED
  BY <1>4, <1>5, <1>6, <1>7, <1>8, <1>9 DEF Inv

LEMMA InvStep ==
  ASSUME Inv, [Next]_vars
  PROVE  Inv'
<1>1. ASSUME NEW g \in Gens, NodeStep(g) \/ BootStep(g) \/ WatchStep(g)
      PROVE  Inv'
  <2>1. GoroutineDoes(g)
    BY <1>1, NodeStepShape, BootStepShape, WatchStepShape DEF Inv
  <2> QED
    BY <2>1, GoroutineStep
<1>2. CASE UNCHANGED vars
  <2>1. /\ UNCHANGED <<gen, mu, inst, cfg, saved, status, calls, quiet, exit, spent>>
        /\ UNCHANGED <<of, node, boot, cancelled, listening, watch>>
    BY <1>2 DEF vars, generations
  <2>2. TypeOK'
    BY <2>1 DEF Inv, TypeOK
  <2>3. LinkInv'
    BY <2>1 DEF Inv, LinkInv
  <2>4. CallInv' /\ RoomInv'
    BY <2>1, CallsUntouched DEF Inv
  <2>5. GenInv' /\ StatusInv'
    BY <2>1, SameGeneration
  <2> QED
    BY <2>2, <2>3, <2>4, <2>5 DEF Inv
<1> QED
  BY <1>1, <1>2, CallStepKeeps, StopBeginsKeeps, StopEndsKeeps DEF Next

LEMMA InvAlways == Spec => []Inv
<1>1. Init => Inv
  BY InvInit
<1>2. Inv /\ [Next]_vars => Inv'
  BY InvStep
<1> QED
  BY <1>1, <1>2, PTL DEF Spec

\* Whatever the generation, no more than the node there is is open.
LEMMA OneOpen ==
  ASSUME Inv
  PROVE  OneNodeAtATime
<1> SUFFICES ASSUME exit.step = "no" PROVE Cardinality({g \in Gens : On(g)}) <= 1
  BY DEF OneNodeAtATime
<1>1. {g \in Gens : On(g)} \subseteq {inst}
  BY DEF Inv, GenInv
<1>2. IsFiniteSet({inst}) /\ Cardinality({inst}) = 1
  BY FS_Singleton
<1> QED
  BY <1>1, <1>2, FS_Subset

\* "Connected", an address and a sign-in link are shown only of the generation in
\* force, whatever the goroutines of the ones before it still do (publish), and
\* no two tailnet servers are open at once (replace, instance.stop).
THEOREM NodeAsTold == Spec => []EdgeHolds
<1>1. Inv => EdgeHolds
  BY OneOpen DEF Inv, StatusInv, EdgeHolds
<1> QED
  BY <1>1, InvAlways, PTL
=============================================================================
