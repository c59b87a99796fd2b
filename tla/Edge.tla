-------------------------------- MODULE Edge --------------------------------
(***************************************************************************)
(* The tailnet node of the netedge sidecar (native/netedge): Edge replaces *)
(* one generation of the node by the next inside the running process, the  *)
(* goroutines of a generation publish what they see to one StatusStore,    *)
(* and the handlers of the control API run beside each other.              *)
(*                                                                         *)
(* A generation is numbered, and a number is never used again.  Its node   *)
(* is the tsnet server (external); boot is its bring-up goroutine and      *)
(* watch the goroutine that follows the node once it serves.               *)
(***************************************************************************)
EXTENDS Naturals, FiniteSets

CONSTANTS
    Calls,              \* handlers of the control API that may be running
    Configs,            \* network configurations: a mode, an exposure, a strategy
    FirstConfig,        \* the one in the file when the process starts
    Certified,          \* those that obtain a certificate of their own
    None,               \* no configuration, no generation, no call
    MaxGenerations,     \* bound: generations
    MaxTroubles,        \* bound: keys that expire, launches and bring-ups that
                        \* fail, calls of POST /edge/logout and /edge/login
    MaxStops            \* bound: 1 when the process may be told to exit

ASSUME EdgeAssumption ==
    /\ Certified \subseteq Configs /\ FirstConfig \in Configs
    /\ MaxGenerations \in Nat /\ MaxTroubles \in Nat
    /\ MaxStops \in {0, 1} /\ MaxStops <= MaxGenerations
    /\ None \notin Configs /\ None \notin Calls

VARIABLES
    gen,        \* Edge.gen, the generation the process is trying to run
    mu,         \* the call that holds Edge.mu
    inst,       \* Edge.inst
    cfg,        \* Edge.cfg
    saved,      \* the configuration file
    status,     \* the StatusStore
    of,         \* the configuration each generation was launched with
    node,       \* the tsnet server of each generation
    boot,       \* the bring-up goroutine of each generation
    cancelled,  \* generations whose context is cancelled
    listening,  \* generations whose listener is open
    watch,      \* the watch goroutine of each generation
    calls,      \* what each handler is doing
    quiet,      \* history: signed out by the user, no link asked for since
    exit,       \* main on its way out: in Stop of which generation, or gone
    spent       \* troubles so far

generations == <<of, node, boot, cancelled, listening, watch>>
vars == <<gen, mu, inst, cfg, saved, status, generations, calls, quiet, exit, spent>>

Gens == 1..MaxGenerations
NoGen == 0

EdgeStates == {"stopped", "starting", "login-required", "connecting",
               "obtaining-certificate", "connected", "error"}

\* host names the configuration whose address is shown, link the generation
\* whose control server gave the sign-in link.
Status == [state: EdgeStates, host: Configs \cup {None}, link: Gens \cup {NoGen}]

\* asked: a sign-in link has been asked for and the control server owes one.
Node == [state: {"off", "starting", "needs-login", "running"},
         link: BOOLEAN, asked: BOOLEAN]

Watch == [at: {"off", "waiting", "read"},
          saw: {"nothing", "no-link", "link", "running"},
          episode: SUBSET {"active", "owned", "sawNoURL", "nudged"}]

Call == [kind: {"idle", "apply", "restart", "login", "logout"},
         step: {"none", "waiting", "stopping", "launching", "saving",
                "asking", "telling"},
         cfg: Configs \cup {None}, gen: Gens \cup {NoGen}]

\* prompted: polling, with loginStarted set.
Booting == {"begun", "polling", "prompted", "issuing", "listening"}
Polling(g) == boot[g] \in {"polling", "prompted"}

TypeOK ==
    /\ gen \in Gens \cup {NoGen} /\ inst \in Gens \cup {NoGen}
    /\ mu \in Calls \cup {None}
    /\ cfg \in Configs /\ saved \in Configs
    /\ status \in Status
    /\ of \in [Gens -> Configs \cup {None}]
    /\ node \in [Gens -> Node]
    /\ boot \in [Gens -> Booting \cup {"none", "serving", "returned"}]
    /\ cancelled \in SUBSET Gens /\ listening \in SUBSET Gens
    /\ watch \in [Gens -> Watch]
    /\ calls \in [Calls -> Call]
    /\ quiet \in SUBSET Gens
    /\ exit \in [step: {"no", "stopping", "gone"}, gen: Gens \cup {NoGen}]
    /\ spent \in 0..MaxTroubles

Idle == [kind |-> "idle", step |-> "none", cfg |-> None, gen |-> NoGen]
Off == [state |-> "off", link |-> FALSE, asked |-> FALSE]
NoWatch == [at |-> "off", saw |-> "nothing", episode |-> {}]

Init ==
    /\ gen = NoGen /\ inst = NoGen /\ mu = None
    /\ cfg = FirstConfig /\ saved = FirstConfig
    /\ status = [state |-> "stopped", host |-> None, link |-> NoGen]
    /\ of = [g \in Gens |-> None]
    /\ node = [g \in Gens |-> Off]
    /\ boot = [g \in Gens |-> "none"]
    /\ cancelled = {} /\ listening = {}
    /\ watch = [g \in Gens |-> NoWatch]
    /\ calls = [k \in Calls |-> Idle]
    /\ quiet = {} /\ exit = [step |-> "no", gen |-> NoGen]
    /\ spent = 0

Spend == spent < MaxTroubles /\ spent' = spent + 1

\* The process has not exited.
Alive == exit.step # "gone"

---------------------------------------------------------------------------
(* The StatusStore. *)

LegalTransitions ==
    [s \in EdgeStates |->
        CASE s = "starting" -> {"login-required", "connecting"}
          [] s = "login-required" -> {"connecting", "obtaining-certificate", "connected"}
          [] s = "connecting" -> {"login-required", "obtaining-certificate", "connected"}
          [] s = "obtaining-certificate" -> {"connected", "login-required"}
          [] s = "connected" -> {"obtaining-certificate", "connecting", "login-required"}
          [] OTHER -> {}]

CanTransitionBlind(from, to) ==         \* mutant: connected keeps its green dot
    \/ from = to
    \/ to \in {"error", "stopped", "starting"}
    \/ to \in LegalTransitions[from] \ (IF from = "connected" THEN {"login-required"} ELSE {})

CanTransition(from, to) ==
    \/ from = to
    \/ to \in {"error", "stopped", "starting"}
    \/ to \in LegalTransitions[from]

\* clearStaleFields
Entered(to) ==
    [state |-> to,
     host |-> IF to \in {"stopped", "starting"} THEN None ELSE status.host,
     link |-> IF to = "login-required" THEN status.link ELSE NoGen]

LoginRequired(g) == [Entered("login-required") EXCEPT !.link = g]
Connected(g) == [Entered("connected") EXCEPT !.host = of[g]]

\* Transition: what the table does not allow changes nothing.
Transition(next) ==
    status' = IF CanTransition(status.state, next.state) THEN next ELSE status

PublishAny(g, next) ==                  \* mutant: no generation guard
    Transition(next)

\* publish: dropped when the generation has been retired.
Publish(g, next) ==
    IF g = gen THEN Transition(next) ELSE UNCHANGED status

---------------------------------------------------------------------------
(* The node, as netedge sees it (external). *)

On(g) == node[g].state # "off"
Becomes(g, state, link, asked) ==
    node' = [node EXCEPT ![g] = [state |-> state, link |-> link, asked |-> asked]]

\* The node has no key and tsnet asks for a sign-in link by itself.
NeedsLogin(g) ==
    /\ node[g].state = "starting"
    /\ Becomes(g, "needs-login", FALSE, TRUE)
    /\ UNCHANGED <<spent, status>>

OffersLink(g) ==
    /\ node[g].state = "needs-login" /\ node[g].asked /\ ~node[g].link
    /\ Becomes(g, "needs-login", TRUE, TRUE)
    /\ UNCHANGED <<spent, status>>

\* The user signs in, or a stored key is still good.
Runs(g) ==
    /\ node[g].state = "starting" \/ node[g].link
    /\ Becomes(g, "running", FALSE, FALSE)
    /\ UNCHANGED <<spent, status>>

\* The key of a running node expires; the daemon may or may not ask for a link.
KeyExpires(g) ==
    /\ node[g].state = "running"
    /\ Spend
    /\ \E asked \in BOOLEAN : Becomes(g, "needs-login", FALSE, asked)
    /\ UNCHANGED status

\* tsnetLogf: a line with the sign-in link passes through the log.
LogLine(g) ==
    /\ node[g].link
    /\ Publish(g, LoginRequired(g))
    /\ UNCHANGED <<node, spent>>

NodeStep(g) ==
    /\ Alive
    /\ NeedsLogin(g) \/ OffersLink(g) \/ Runs(g) \/ KeyExpires(g) \/ LogLine(g)
    /\ UNCHANGED <<gen, mu, inst, cfg, saved, of, boot, cancelled, listening,
                   watch, calls, quiet, exit>>

---------------------------------------------------------------------------
(* bringUp, the slow half of a generation's start. *)

Boots(g, to) == boot' = [boot EXCEPT ![g] = to]

BootBegins(g) ==
    /\ boot[g] = "begun"
    /\ Boots(g, "polling")
    /\ Publish(g, Entered("connecting"))
    /\ UNCHANGED <<node, listening, watch, spent>>

\* waitForRunning sees a link, and publishes it.
BootSeesLink(g) ==
    /\ Polling(g) /\ node[g].link
    /\ Publish(g, LoginRequired(g))
    /\ UNCHANGED <<boot, node, listening, watch, spent>>

\* waitForRunning has seen no link for ten seconds and asks for one.
BootNudges(g) ==
    /\ boot[g] = "polling"
    /\ node[g].state = "needs-login" /\ ~node[g].link
    /\ Boots(g, "prompted")
    /\ Becomes(g, "needs-login", FALSE, TRUE)
    /\ UNCHANGED <<status, listening, watch, spent>>

\* waitForRunning returns the host, which is shown while the certificate is
\* being obtained.
BootSeesRunning(g) ==
    LET hosted == [status EXCEPT !.host = of[g]] IN
    /\ Polling(g) /\ node[g].state = "running"
    /\ \/ /\ of[g] \in Certified
          /\ Boots(g, "issuing")
          /\ Publish(g, [Entered("obtaining-certificate") EXCEPT !.host = of[g]])
       \/ /\ of[g] \notin Certified
          /\ Boots(g, "listening")
          /\ Publish(g, hosted)
    /\ UNCHANGED <<node, listening, watch, spent>>

\* The certificate is there; a generation that was replaced meanwhile stops.
BootIssued(g) ==
    /\ boot[g] = "issuing"
    /\ Boots(g, IF g = gen THEN "listening" ELSE "returned")
    /\ UNCHANGED <<status, node, listening, watch, spent>>

\* The listener is opened and served, the node published, the watch begun.
\* (A server that has been closed serves nobody.)
BootServes(g) ==
    /\ boot[g] = "listening" /\ On(g)
    /\ Boots(g, "serving")
    /\ listening' = listening \cup {g}
    /\ Publish(g, Connected(g))
    /\ watch' = [watch EXCEPT ![g].at = "waiting"]
    /\ UNCHANGED <<node, spent>>

\* The daemon does not answer, or is stopped; no certificate; no listener.
BootFails(g) ==
    /\ boot[g] \in Booting \ {"begun"}
    /\ g \notin cancelled
    /\ Spend
    /\ Boots(g, "returned")
    /\ Publish(g, Entered("error"))
    /\ UNCHANGED <<node, listening, watch>>

\* The goroutine notices that its context is cancelled.
BootCancelled(g) ==
    /\ boot[g] \in Booting /\ g \in cancelled
    /\ Boots(g, "returned")
    /\ UNCHANGED <<status, node, listening, watch, spent>>

BootStep(g) ==
    /\ Alive
    /\ \/ BootBegins(g) \/ BootSeesLink(g) \/ BootNudges(g) \/ BootSeesRunning(g)
       \/ BootIssued(g) \/ BootServes(g) \/ BootFails(g) \/ BootCancelled(g)
    /\ UNCHANGED <<gen, mu, inst, cfg, saved, of, cancelled, calls, quiet, exit>>

---------------------------------------------------------------------------
(* watch, which keeps the status true while the generation serves. *)

\* The daemon is asked where it is.
WatchReads(g) ==
    /\ watch[g].at = "waiting" /\ g \notin cancelled /\ On(g)
    /\ watch' = [watch EXCEPT ![g].at = "read",
                             ![g].saw = CASE node[g].link -> "link"
                                          [] ~node[g].link /\ node[g].state = "needs-login" -> "no-link"
                                          [] OTHER -> "running"]
    /\ UNCHANGED <<status, node>>

Remembers(g, episode) ==
    watch' = [watch EXCEPT ![g] = [at |-> "waiting", saw |-> "nothing",
                                   episode |-> episode]]

\* Who publishes that the node is signed out first owns the episode.
Episode(g) ==
    IF "active" \in watch[g].episode THEN watch[g].episode
    ELSE {"active"} \cup (IF status.state # "login-required" THEN {"owned"} ELSE {})

\* reconcileAuth: signed out.
SeesSignedOut(g) ==
    LET episode == Episode(g) IN
    \/ /\ "owned" \notin episode
       /\ Remembers(g, episode)
       /\ UNCHANGED <<status, node>>
    \/ /\ "owned" \in episode /\ watch[g].saw = "link"
       /\ Remembers(g, episode)
       /\ Publish(g, LoginRequired(g))
       /\ UNCHANGED node
    \/ /\ "owned" \in episode /\ watch[g].saw = "no-link"
       /\ IF status.state # "login-required"
          THEN Publish(g, Entered("login-required"))
          ELSE UNCHANGED status
       /\ IF "sawNoURL" \notin episode
          THEN Remembers(g, episode \cup {"sawNoURL"}) /\ UNCHANGED node
          ELSE /\ Remembers(g, episode \cup {"nudged"})
               /\ IF "nudged" \notin episode /\ node[g].state = "needs-login"
                  THEN Becomes(g, "needs-login", node[g].link, TRUE)
                  ELSE UNCHANGED node

\* reconcileAuth: running.
SeesRunning(g) ==
    /\ Remembers(g, {})
    /\ IF status.state = "login-required"
       THEN Publish(g, Connected(g))
       ELSE UNCHANGED status
    /\ UNCHANGED node

WatchActs(g) ==
    /\ watch[g].at = "read"
    /\ \/ watch[g].saw \in {"no-link", "link"} /\ SeesSignedOut(g)
       \/ watch[g].saw = "running" /\ SeesRunning(g)

WatchEnds(g) ==
    /\ watch[g].at = "waiting" /\ g \in cancelled
    /\ watch' = [watch EXCEPT ![g] = NoWatch]
    /\ UNCHANGED <<status, node>>

WatchStep(g) ==
    /\ Alive
    /\ WatchReads(g) \/ WatchActs(g) \/ WatchEnds(g)
    /\ UNCHANGED <<gen, mu, inst, cfg, saved, of, boot, cancelled, listening,
                   calls, quiet, exit, spent>>

---------------------------------------------------------------------------
(* The handlers: Apply, Restart, Login, Logout. *)

Goes(k, call) == calls' = [calls EXCEPT ![k] = call]
Steps(k, step) == Goes(k, [calls[k] EXCEPT !.step = step])

\* Calls that will replace the generation (room is kept for them, so that no
\* call waits for ever because of the bound).
Replacing == {k \in Calls : calls[k].step = "waiting"}
Room == gen + Cardinality(Replacing) + MaxStops < MaxGenerations

\* A handler that is free, while the control API accepts requests.
Free(k) == calls[k] = Idle /\ exit.step = "no"

ApplyBegins(k, c) ==
    /\ Free(k) /\ Room
    /\ Goes(k, [kind |-> "apply", step |-> "waiting", cfg |-> c, gen |-> NoGen])
    /\ UNCHANGED <<gen, mu, inst, cfg, saved, status, generations, quiet, spent>>

\* Restart, and Start of main: the configuration is read, the lock released.
RestartBegins(k) ==
    /\ Free(k) /\ Room /\ mu = None
    /\ Goes(k, [kind |-> "restart", step |-> "waiting", cfg |-> cfg, gen |-> NoGen])
    /\ UNCHANGED <<gen, mu, inst, cfg, saved, status, generations, quiet, spent>>

\* replace takes the lock, retires the generation, says so, and cancels it, in
\* one step: until "starting" is published nothing can be said of the one that
\* was retired and nothing of the new one has begun, so all that the instant
\* between them (edge.go:392 and 402) shows is the former status.
Retires(k) ==
    /\ calls[k].step = "waiting" /\ mu = None
    /\ mu' = k
    /\ gen' = gen + 1
    /\ of' = [of EXCEPT ![gen + 1] = calls[k].cfg]
    /\ Transition(Entered("starting"))
    /\ cancelled' = IF inst = NoGen THEN cancelled ELSE cancelled \cup {inst}
    /\ Goes(k, [calls[k] EXCEPT !.gen = gen + 1,
                               !.step = IF inst = NoGen THEN "launching" ELSE "stopping"])
    /\ UNCHANGED <<inst, cfg, saved, node, boot, listening, watch, quiet, spent>>

\* instance.stop has waited as long as it will, and closes what there is.
Closes(g) ==
    /\ listening' = listening \ {g}
    /\ node' = [node EXCEPT ![g] = Off]

Stops(k) ==
    /\ calls[k].step = "stopping"
    /\ Closes(inst)
    /\ inst' = NoGen
    /\ Steps(k, "launching")
    /\ UNCHANGED <<gen, mu, cfg, saved, status, of, boot, cancelled, watch, quiet, spent>>

LaunchesLocked(k) ==                \* mutant: a failure keeps the lock
    LET g == calls[k].gen IN
    /\ calls[k].step = "launching"
    /\ cfg' = calls[k].cfg
    /\ \/ /\ mu' = None /\ inst' = g
          /\ Becomes(g, "starting", FALSE, FALSE)
          /\ Boots(g, "begun")
          /\ IF calls[k].kind = "apply" THEN Steps(k, "saving") ELSE Goes(k, Idle)
          /\ UNCHANGED <<status, spent>>
       \/ /\ Spend
          /\ Publish(g, Entered("error"))
          /\ Goes(k, Idle)
          /\ UNCHANGED <<mu, inst, node, boot>>
    /\ UNCHANGED <<gen, saved, of, cancelled, listening, watch, quiet>>

\* launch, and the way out of replace.
Launches(k) ==
    LET g == calls[k].gen IN
    /\ calls[k].step = "launching"
    /\ cfg' = calls[k].cfg
    /\ mu' = None
    /\ \/ /\ inst' = g
          /\ Becomes(g, "starting", FALSE, FALSE)
          /\ Boots(g, "begun")
          /\ IF calls[k].kind = "apply" THEN Steps(k, "saving") ELSE Goes(k, Idle)
          /\ UNCHANGED <<status, spent>>
       \/ /\ Spend
          /\ Publish(g, Entered("error"))
          /\ Goes(k, Idle)
          /\ UNCHANGED <<inst, node, boot>>
    /\ UNCHANGED <<gen, saved, of, cancelled, listening, watch, quiet>>

\* persistingController: what the edge has accepted goes to the file.
Saves(k) ==
    /\ calls[k].step = "saving"
    /\ saved' = calls[k].cfg
    /\ Goes(k, Idle)
    /\ UNCHANGED <<gen, mu, inst, cfg, status, generations, quiet, spent>>

\* Logout: the node is asked first, the status told afterwards, by nobody's
\* generation.
SignOutBegins(k) ==
    /\ Free(k) /\ mu = None /\ inst # NoGen
    /\ Spend
    /\ Goes(k, [kind |-> "logout", step |-> "asking", cfg |-> None, gen |-> inst])
    /\ UNCHANGED <<gen, mu, inst, cfg, saved, status, generations, quiet>>

SignsOut(k) ==
    LET g == calls[k].gen IN
    /\ calls[k].kind = "logout" /\ calls[k].step = "asking"
    /\ \/ /\ On(g)
          /\ Becomes(g, "needs-login", FALSE, FALSE)
          /\ quiet' = quiet \cup {g}
          /\ Steps(k, "telling")
       \/ /\ ~On(g)
          /\ Goes(k, Idle)
          /\ UNCHANGED <<node, quiet>>
    /\ UNCHANGED <<gen, mu, inst, cfg, saved, status, of, boot, cancelled,
                   listening, watch, spent>>

SignOutTells(k) ==
    /\ calls[k].step = "telling"
    /\ Transition(Entered("login-required"))
    /\ Goes(k, Idle)
    /\ UNCHANGED <<gen, mu, inst, cfg, saved, generations, quiet, spent>>

\* Login asks for a link (a node that is running has none to give) ...
LoginBegins(k) ==
    /\ Free(k) /\ mu = None /\ inst # NoGen /\ On(inst)
    /\ Spend
    /\ Goes(k, [kind |-> "login", step |-> "asking", cfg |-> None, gen |-> inst])
    /\ quiet' = quiet \ {inst}
    /\ IF node[inst].state = "needs-login"
       THEN Becomes(inst, "needs-login", node[inst].link, TRUE)
       ELSE UNCHANGED node
    /\ UNCHANGED <<gen, mu, inst, cfg, saved, status, of, boot, cancelled,
                   listening, watch>>

\* ... and publishes it, or gives up: its deadline, its client, another link.
LoginEnds(k) ==
    LET g == calls[k].gen IN
    /\ calls[k].kind = "login" /\ calls[k].step = "asking"
    /\ \/ node[g].link /\ Publish(g, LoginRequired(g))
       \/ UNCHANGED status
    /\ Goes(k, Idle)
    /\ UNCHANGED <<gen, mu, inst, cfg, saved, generations, quiet, spent>>

CallStep(k) ==
    /\ Alive
    /\ \/ \E c \in Configs : ApplyBegins(k, c)
       \/ RestartBegins(k) \/ Retires(k) \/ Stops(k) \/ Launches(k) \/ Saves(k)
       \/ SignOutBegins(k) \/ SignsOut(k) \/ SignOutTells(k)
       \/ LoginBegins(k) \/ LoginEnds(k)
    /\ UNCHANGED exit

---------------------------------------------------------------------------
(* Stop, called by main when the process is told to exit.  The handlers had  *)
(* their time to finish, and may not have used it.                           *)

StopBegins ==
    /\ MaxStops = 1 /\ exit.step = "no" /\ mu = None
    /\ gen' = gen + 1
    /\ inst' = NoGen
    /\ cancelled' = IF inst = NoGen THEN cancelled ELSE cancelled \cup {inst}
    /\ exit' = [step |-> "stopping", gen |-> inst]
    /\ UNCHANGED <<mu, cfg, saved, status, of, node, boot, listening, watch,
                   calls, quiet, spent>>

\* The last status is told, and everything that was in memory goes with the
\* process.
StopEnds ==
    /\ exit.step = "stopping"
    /\ Transition(Entered("stopped"))
    /\ exit' = [step |-> "gone", gen |-> NoGen]
    /\ mu' = None
    /\ of' = [g \in Gens |-> None]
    /\ node' = [g \in Gens |-> Off]
    /\ boot' = [g \in Gens |-> "none"]
    /\ watch' = [g \in Gens |-> NoWatch]
    /\ calls' = [k \in Calls |-> Idle]
    /\ cancelled' = {} /\ listening' = {} /\ quiet' = {} /\ inst' = NoGen
    /\ UNCHANGED <<gen, cfg, saved, spent>>

---------------------------------------------------------------------------
Next ==
    \/ \E g \in Gens : NodeStep(g)
    \/ \E g \in Gens : BootStep(g)
    \/ \E g \in Gens : WatchStep(g)
    \/ \E k \in Calls : CallStep(k)
    \/ StopBegins
    \/ StopEnds

Spec == Init /\ [][Next]_vars

\* Every await of a handler is bounded, the goroutines of the generation in
\* force are scheduled, and a certificate is obtained or refused in the end.
CallMoves(k) == Retires(k) \/ Stops(k) \/ Launches(k) \/ Saves(k) \/ SignsOut(k)
                \/ SignOutTells(k) \/ LoginEnds(k)

FairSpec ==
    /\ Spec
    /\ \A k \in Calls : WF_vars(Alive /\ CallMoves(k) /\ UNCHANGED exit)
    /\ WF_vars(\E g \in {inst} \ {NoGen} : BootStep(g))
    /\ WF_vars(\E g \in {inst} \ {NoGen} : WatchStep(g))

---------------------------------------------------------------------------
(* Properties. *)

\* "Connected" is shown only while the generation it was said of is the one in
\* force and its listener is open: the tray never stays green for a node the
\* user has switched away from.  (Stop says "stopped" only once it is done.)
ConnectedIsServing ==
    status.state = "connected" /\ exit.step = "no" =>
        /\ inst = gen /\ gen \in listening
        /\ status.host = of[gen]

\* Neither an address nor a sign-in link of a generation that was replaced is
\* shown, whatever its goroutines go on to do.
ShownIsCurrent ==
    exit.step = "no" =>
        /\ status.host # None => status.host = of[gen]
        /\ status.link # NoGen => status.link = gen /\ status.state = "login-required"

\* "Two tsnet servers must never hold the same state directory": the next one
\* is started when the one before has been closed, while the process stays.
OneNodeAtATime == exit.step = "no" => Cardinality({g \in Gens : On(g)}) <= 1

NodeIs(state) == inst # NoGen /\ node[inst].state = state

\* A node that has lost its key is not shown as connected for ever.
SignedOutIsShown ==
    (status.state = "connected" /\ NodeIs("needs-login"))
        ~> (status.state # "connected" \/ ~NodeIs("needs-login"))

\* A node that runs is shown as connected in the end, whatever was shown while
\* it was not signed in, unless its bring-up has failed.
RunningIsShown ==
    NodeIs("running") ~> (status.state \in {"connected", "error"} \/ ~NodeIs("running"))

\* Every handler answers: no switch is hostage to the bring-up it replaces.
CallsReturn ==
    \A k \in Calls : calls[k] # Idle ~> (calls[k] = Idle \/ exit.step = "gone")

\* A user who has signed out is not sent a new link until one is asked for.  (Not
\* so: a bring-up that still polls asks for one by itself, edge.go:687.)
SignOutStaysQuiet == \A g \in quiet : ~node[g].asked

\* What the tray is told of the node is true of the one there is: the goroutines
\* of a generation that was replaced say nothing more (edge.go, publish).
EdgeHolds == TypeOK /\ ConnectedIsServing /\ ShownIsCurrent /\ OneNodeAtATime

\* What happens to the node reaches the tray (edge.go, watch and waitForRunning).
NodeIsShown == SignedOutIsShown /\ RunningIsShown
=============================================================================
