-------------------------------- MODULE Desktop --------------------------------
(***************************************************************************)
(* The desktop application: how one copy of it becomes the only one        *)
(* (singleInstance.ts), the gate of the prerequisites, the server and the  *)
(* sidecar it starts, its windows, the dialog that asks the operator about *)
(* a device (pairingPrompt.ts), and how it quits.  Composes Supervisor,    *)
(* Listeners and Prerequisites, each of which goes on by itself meanwhile. *)
(***************************************************************************)
EXTENDS Supervisor, Listeners, Prerequisites

CONSTANTS
    Scenarios,      \* how the machine is when the application is started
    Devs            \* devices that may claim a code

\* other: "none", "running", "leaving", "gone", a copy that holds the lock;
\* deaf: it does not know the handshake, or is as new.  remote: the feature
\* is built in and on.  stored: what is in the two files of the certificate;
\* named: the machine's name can be written into one.
ASSUME DesktopAssumption ==
    Scenarios \subseteq
        [other: {"none", "running"}, deaf: BOOLEAN, inOrder: BOOLEAN, printing: BOOLEAN,
         remote: BOOLEAN, lan: BOOLEAN, plaintext: BOOLEAN,
         stored: [key: Nat, cert: Nat, covers: SUBSET Hosts], named: BOOLEAN,
         setup: BOOLEAN, reach: BOOLEAN]

VARIABLES
    world,          \* the scenario: the other copy, and what is configured
    wizard,         \* the wizard's window and the panel's
    quitting,
    row,            \* the devices' rows, as the prompt and the panel see them
    prompt          \* pairingPrompt: chain, and the dialog that is open

deskVars == <<world, wizard, quitting, row, prompt>>
vars == <<hostVars, supVars, lanVars, preVars, deskVars>>

NoBox == [dev |-> 0, at |-> "none"]

\* told: the user has been told why this copy goes.
\* said: how the user has answered, or what the system has refused.
Init ==
    \E s \in Scenarios :
        /\ phase = "lock" /\ spent = [user |-> 0, faults |-> 0]
        /\ SupInit
        /\ LanInit(s.lan, s.plaintext, s.stored, s.named)
        /\ PreInit(s.inOrder, s.printing)
        /\ world = [other |-> s.other, deaf |-> s.deaf, remote |-> s.remote,
                    setup |-> s.setup, reach |-> s.reach, told |-> FALSE, said |-> "none"]
        /\ wizard = FALSE
        /\ quitting = FALSE
        /\ row = [d \in Devs |-> "none"]
        /\ prompt = [chain |-> <<>>, box |-> NoBox, asked |-> {}]

parts == <<supVars, lanVars, preVars>>

---------------------------------------------------------------------------
(* The instance lock. *)

Held == world.other \in {"running", "leaving"}

\* requestLock: a copy that holds it and knows the handshake is older here,
\* and starts to quit.
Hello == IF world.other = "running" /\ ~world.deaf THEN "leaving" ELSE world.other

RequestLock(waits) ==
    /\ phase' = IF Held THEN waits ELSE "checking"
    /\ world' = [world EXCEPT !.other = Hello]
    /\ pre' = IF Held THEN pre ELSE Join(pre, "boot")

Acquire ==
    /\ phase = "lock"
    /\ RequestLock("retry")
    /\ UNCHANGED <<supVars, lanVars, fixed, fetchVars, wizard, quitting, row, prompt, spent>>

\* A try within the time that the holder is given.
Retry ==
    /\ phase \in {"retry", "again"} /\ ~Held
    /\ RequestLock(phase)
    /\ UNCHANGED <<supVars, lanVars, fixed, fetchVars, wizard, quitting, row, prompt, spent>>

\* That time is over.
RetryOver ==
    /\ phase \in {"retry", "again"} /\ Held
    /\ phase' = IF phase = "retry" THEN "ask" ELSE "gone"
    /\ phase = "again" => world.said = "refused"    \* one that was killed is gone by then
    /\ UNCHANGED <<parts, deskVars, spent>>

OtherLeaves ==
    /\ world.other = "leaving"
    /\ world' = [world EXCEPT !.other = "gone"]
    /\ UNCHANGED <<hostVars, parts, wizard, quitting, row, prompt>>

KeepOther ==
    /\ phase = "ask"
    /\ phase' = "gone"
    /\ world' = [world EXCEPT !.said = "keep", !.told = TRUE]
    /\ UNCHANGED <<parts, wizard, quitting, row, prompt, spent>>

\* Its processes are killed, with their children, unless they are another user's.
ReplaceOther ==
    /\ phase = "ask" /\ phase' = "again"
    /\ \/ /\ world' = [world EXCEPT !.other = "gone", !.said = "replace"]
          /\ UNCHANGED spent
       \/ /\ Spend("faults")
          /\ world' = [world EXCEPT !.said = "refused"]
    /\ UNCHANGED <<parts, wizard, quitting, row, prompt>>

---------------------------------------------------------------------------
(* bootstrap *)

\* A run of the detectors is over.  Bootstrap goes on, or opens the wizard and
\* parks; parked, it goes on with the first report that lets it.
Report ==
    /\ Alive /\ pre.flight \in {"good", "bad"}
    /\ pre' = Reported
    /\ LET go == pre.flight = "good"
       IN CASE phase = "checking" ->
                 /\ phase' = IF go THEN "server" ELSE "parked"
                 /\ wizard' = ~go
            [] phase = "parked" -> phase' = (IF go THEN "server" ELSE phase) /\ UNCHANGED wizard
            [] OTHER -> UNCHANGED <<phase, wizard>>
    /\ UNCHANGED <<supVars, lanVars, fixed, fetchVars, world, quitting, row, prompt, spent>>

\* The keyring, the database, the first certificate: startServer up to listen.
StartServer ==
    /\ phase = "server" /\ phase' = "listening"
    /\ CreateServer
    /\ UNCHANGED <<supVars, plain, net, pref, crossed, unissued, preVars, deskVars, spent>>

\* No encrypted storage, no server build, no disk: said in a dialog.
ServerFails ==
    /\ phase = "server" /\ Spend("faults")
    /\ phase' = "gone"
    /\ world' = [world EXCEPT !.told = TRUE]
    /\ UNCHANGED <<parts, wizard, quitting, row, prompt>>

\* The rest of bootstrap: the sidecar is started and not waited for; the
\* wizard stays or comes, or makes room for the panel.
Up ==
    /\ phase = "listening" /\ Bound
    /\ phase' = "up"
    /\ IF world.remote THEN AskStart ELSE UNCHANGED supVars
    /\ wizard' = ~world.setup
    /\ UNCHANGED <<lanVars, preVars, world, quitting, row, prompt, spent>>

---------------------------------------------------------------------------
(* Windows, and quitting. *)

Quit == quitting' = TRUE /\ phase' = IF phase = "up" THEN "stopping" ELSE "gone"

\* The wizard is closed: parked, this means to give up; else the tray, or the
\* panel, is what remains.
CloseWizard ==
    /\ wizard /\ phase \in {"parked", "server", "listening", "up"} /\ Spend("user")
    /\ wizard' = FALSE
    /\ IF phase = "parked" THEN quitting' = TRUE /\ phase' = "gone"
                           ELSE UNCHANGED <<phase, quitting>>
    /\ UNCHANGED <<parts, world, row, prompt>>

\* The tray's Quit; or a second copy that is newer.  With nothing started the
\* process ends; else will-quit stops the sidecar first.
QuitNow ==
    /\ phase \in {"checking", "parked", "server", "listening", "up"} /\ Spend("user")
    /\ Quit
    /\ IF world.remote /\ phase = "up" THEN AskStop ELSE UNCHANGED supVars
    /\ UNCHANGED <<lanVars, preVars, world, wizard, row, prompt>>

EdgeStopped ==
    /\ phase = "stopping" /\ stops = {}
    /\ phase' = "disposing"
    /\ UNCHANGED <<parts, deskVars, spent>>

Dispose ==
    /\ phase = "disposing" /\ phase' = "gone"
    /\ CloseListeners
    /\ UNCHANGED <<supVars, preVars, deskVars, spent>>

\* uncaughtException: with a sidecar it is stopped, and the process ends;
\* without, the handler ends nothing.
Uncaught ==
    /\ phase = "up" /\ world.remote /\ Spend("faults")
    /\ phase' = "crashing"
    /\ AskStop
    /\ UNCHANGED <<lanVars, preVars, deskVars>>

Exits ==
    /\ phase = "crashing" /\ stops = {}
    /\ phase' = "gone"
    /\ UNCHANGED <<parts, deskVars, spent>>

---------------------------------------------------------------------------
(* The dialog about a device. *)

Rest == <<hostVars, parts, world, wizard, quitting>>

\* A claim: the row is pending, and its event reaches the prompt, which asks
\* about one device at a time.
Claim(d) ==
    /\ phase = "up" /\ world.reach /\ row[d] = "none" /\ Spend("user")
    /\ row' = [row EXCEPT ![d] = "pending"]
    /\ prompt' = [prompt EXCEPT !.chain = Append(@, d)]
    /\ UNCHANGED <<parts, world, wizard, quitting, phase>>

\* The next link of the chain runs: the list is asked for.
PromptNext ==
    /\ phase = "up" /\ prompt.box = NoBox /\ prompt.chain # <<>>
    /\ prompt' = [prompt EXCEPT !.box = [dev |-> Head(prompt.chain), at |-> "listing"],
                                !.chain = Tail(@)]
    /\ UNCHANGED <<Rest, row>>

\* One that the list does not show is asked about all the same.
Worth(d, listed) == listed => row[d] = "pending"

PromptListed ==
    /\ phase = "up" /\ prompt.box.at = "listing"
    /\ \E listed \in BOOLEAN :
          /\ IF listed THEN UNCHANGED spent ELSE Spend("faults")
          /\ prompt' = IF Worth(prompt.box.dev, listed)
                       THEN [prompt EXCEPT !.box.at = "open", !.asked = @ \cup {prompt.box.dev}]
                       ELSE [prompt EXCEPT !.box = NoBox]
    /\ UNCHANGED <<parts, world, wizard, quitting, phase, row>>

\* approve refuses a device that is closed; reject closes any.
Approved(d) == [row EXCEPT ![d] = IF @ = "revoked" THEN @ ELSE "active"]
Rejected(d) == [row EXCEPT ![d] = "revoked"]

Answer(yes) ==
    /\ phase = "up" /\ prompt.box.at = "open"
    /\ LET d == prompt.box.dev
       IN row' = IF yes THEN Approved(d) ELSE Rejected(d)
    /\ prompt' = [prompt EXCEPT !.box = NoBox]
    /\ UNCHANGED Rest

\* The devices screen of the panel.
PanelDecides(d, yes) ==
    /\ phase = "up" /\ row[d] = "pending" /\ Spend("user")
    /\ row' = IF yes THEN Approved(d) ELSE Rejected(d)
    /\ UNCHANGED <<parts, world, wizard, quitting, prompt, phase>>

---------------------------------------------------------------------------
Shell ==
    \/ Acquire \/ Retry \/ RetryOver \/ OtherLeaves \/ KeepOther \/ ReplaceOther
    \/ Report \/ StartServer \/ ServerFails \/ Up
    \/ CloseWizard
    \/ QuitNow \/ EdgeStopped \/ Dispose \/ Uncaught \/ Exits
    \/ PromptNext \/ PromptListed
    \/ \E yes \in BOOLEAN : Answer(yes) \/ \E d \in Devs : PanelDecides(d, yes)
    \/ \E d \in Devs : Claim(d)

SupAlone == world.remote /\ UNCHANGED <<lanVars, preVars, deskVars>>
LanAlone == UNCHANGED <<supVars, preVars, deskVars>>
PreAlone == UNCHANGED <<supVars, lanVars, deskVars>>

Next ==
    \/ Shell
    \/ SupNext /\ SupAlone
    \/ LanNext /\ LanAlone
    \/ PreNext /\ PreAlone

\* The application's own steps are taken, a timer fires, a port is found, what
\* a process writes and its exit are heard of; the operator answers a dialog,
\* and goes on looking whether a prerequisite is in order.
Fairness ==
    /\ WF_vars(Acquire) /\ WF_vars(Retry) /\ WF_vars(RetryOver) /\ WF_vars(OtherLeaves)
    /\ WF_vars(KeepOther \/ ReplaceOther)
    /\ WF_vars(Report) /\ WF_vars(StartServer) /\ WF_vars(Up)
    /\ WF_vars(PromptNext) /\ WF_vars(PromptListed)
    /\ WF_vars(\E yes \in BOOLEAN : Answer(yes))
    /\ WF_vars(Detect /\ PreAlone) /\ SF_vars(CheckAgain /\ PreAlone)
    /\ WF_vars((Refresh \/ BindSecure \/ BindFirst) /\ LanAlone)
    /\ WF_vars(TimerFires /\ SupAlone)
    /\ WF_vars((\E who \in {"asked", "timer"}, k \in Kids : Spawn(who, k)) /\ SupAlone)
    /\ WF_vars((\E k \in Kids : Exit(k) \/ Deadline(k)) /\ SupAlone)

Spec == Init /\ [][Next]_vars /\ Fairness

---------------------------------------------------------------------------
(* Properties. *)

\* A copy that is started becomes the one that runs, whatever copy held the
\* lock, unless the user wants to keep that one or the system protects it; and
\* once what was missing is there, it does not stay parked, whatever report
\* was cached or under way (acquireInstance, runPreflight).  (One that the
\* system refuses goes, and without a word: NeverQuitsSilently.)
StartsUp ==
    /\ phase = "lock" ~> \/ phase \notin {"lock", "retry", "ask", "again", "gone"}
                         \/ world.said \in {"keep", "refused"}
    /\ phase = "parked" /\ fixed ~> phase # "parked"

\* A device that claims a code is asked about, or decided on, however many do
\* and whether or not they can be listed (createPairingPrompt).
EveryoneIsAsked ==
    \A d \in Devs : row[d] = "pending" ~> \/ d \in prompt.asked \/ row[d] # "pending"
                                            \/ phase # "up"

\* A copy that gives way has said so: "If even that fails (another user's
\* session, a permissions boundary) it says so, in words, and only then quits.
\* Nothing on this path is silent" (singleInstance.ts:27-30).  Not so: the last
\* retry that is lost is written to the log only, and the application quits.
NeverQuitsSilently ==
    phase = "gone" /\ ~quitting /\ world.said = "refused" => world.told

\* A start of the application gets through, and the sidecar that is wanted comes
\* back.
ComesUp == StartsUp /\ ComesBack

\* What has come up while the application runs - another address, a device that
\* waits - is taken care of.
NothingIsDropped == AddressIsPublished /\ EveryoneIsAsked

---------------------------------------------------------------------------
(* Instances of Desktop for TLC. *)

\* One thing at a time: a copy in the tray that steps aside or does not, the
\* first prerequisite broken; the sidecar; the local network; the helper.
Plain == [other |-> "none", deaf |-> FALSE, inOrder |-> TRUE, printing |-> FALSE,
          remote |-> FALSE, lan |-> FALSE, plaintext |-> FALSE,
          stored |-> [key |-> 0, cert |-> 0, covers |-> {}], named |-> TRUE,
          setup |-> TRUE, reach |-> FALSE]
Pair == [key |-> 1, cert |-> 1, covers |-> {2, Name}]
Halves == [key |-> 2, cert |-> 1, covers |-> {1, Name}]

Some ==
    { [Plain EXCEPT !.remote = TRUE],
      [Plain EXCEPT !.lan = TRUE, !.reach = TRUE, !.stored = Pair],
      [Plain EXCEPT !.lan = TRUE, !.plaintext = TRUE, !.stored = Halves, !.named = FALSE],
      [Plain EXCEPT !.inOrder = FALSE, !.setup = FALSE],
      [Plain EXCEPT !.inOrder = FALSE, !.other = "running"],
      [Plain EXCEPT !.other = "running", !.deaf = TRUE],
      [Plain EXCEPT !.printing = TRUE] }
=============================================================================
