---------------------------------- MODULE Setup ----------------------------------
(***************************************************************************)
(* The first run.  The wizard stands behind the check of what the app      *)
(* needs: one report, kept by the main process and shared by everyone who  *)
(* asks while it is made; remedies that announce themselves and report     *)
(* back; and a screen that steps aside only when nothing is left that      *)
(* blocks and what degrades was accepted.  Then a folder, the sign-in      *)
(* where there is one, and the first device.  The same hook serves the     *)
(* strip in the panel, and both windows can be open: what is announced of  *)
(* a remedy goes to every window, what came of it to the one that asked.   *)
(* Then, in the settings of the panel, the app's own update.               *)
(***************************************************************************)
EXTENDS Panel

CONSTANTS Blocking, Degrading   \* prerequisites, by what their lack does

Needs == Blocking \cup Degrading

VARIABLES
    needs,          \* which are in order
    check,          \* run.ts: cached, inFlight, and what awaits it
    mail,           \* answers and announcements on the way to the window, in order
    jobs,           \* remedies at work in the main process
    hook,           \* usePreflight of one window: the wizard's first screen, or the strip
    wizard

setupVars == <<needs, check, mail, jobs, hook, wizard>>

NoHook == [in |-> "none", report |-> <<>>, phase |-> "checking", busy |-> "none",
           accepted |-> {}, threw |-> {},
           foreign |-> {}]                  \* history: rows last announced by another window's remedy

\* A run that has not looked yet.
Unseen == [rows |-> [n \in Needs |-> "checking"], proceed |-> FALSE, all |-> FALSE]

HookInit(in) ==
    /\ hook = [NoHook EXCEPT !.in = in]
    /\ check = [cached |-> <<>>, flight |-> <<Unseen>>, waits |-> <<"none">>]
    /\ mail = <<>> /\ jobs = {}

\* A preload that lacks the bridge: nothing is asked, and nothing is heard.
NoBridge(in) ==
    /\ hook = [NoHook EXCEPT !.in = in, !.phase = "unavailable"]
    /\ check = [cached |-> <<>>, flight |-> <<>>, waits |-> <<>>]
    /\ mail = <<>> /\ jobs = {}

\* STEPS: the sign-in only where remote access is in the build.
WizardInit(remote) ==
    wizard = [steps |-> IF remote THEN <<"folder", "sign-in", "pairing">> ELSE <<"folder", "pairing">>,
              at |-> 0, way |-> "none", pick |-> "idle", chosen |-> {}, done |-> FALSE]

Step == IF wizard.at = 0 THEN "prerequisites" ELSE wizard.steps[wizard.at]

---------------------------------------------------------------------------
(* runPreflight, and who waits for it. *)

\* summarise
Summarise(rows) ==
    [rows |-> rows, proceed |-> \A n \in Blocking : rows[n] = "ok",
     all  |-> \A n \in Needs : rows[n] = "ok"]
AnswerTo(tag, r) == [kind |-> "answer", tag |-> tag, got |-> r]
Outcome(n, threw) == [kind |-> "outcome", tag |-> n, got |-> threw]
Progress(n, foreign) == [kind |-> "progress", tag |-> n, got |-> foreign]

\* A window asks; a cached report answers at once, a run under way is shared.
AsksFor(tag, force, post) ==
    LET c == IF force THEN [check EXCEPT !.cached = <<>>] ELSE check
    IN IF c.cached # <<>>
       THEN check' = c /\ mail' = Append(post, AnswerTo(tag, c.cached[1]))
       ELSE /\ mail' = post
            /\ check' = [c EXCEPT !.waits = Append(@, tag),
                                  !.flight = IF @ = <<>> THEN <<Unseen>> ELSE @]

\* The detectors look.
Detects ==
    /\ check.flight = <<Unseen>>
    /\ check' = [check EXCEPT !.flight =
                    <<Summarise([n \in Needs |-> IF needs[n] THEN "ok" ELSE "missing"])>>]
    /\ UNCHANGED <<needs, mail, jobs, hook, wizard>>

\* The report is kept, and everyone who waits has it; a remedy that waited for
\* it says how it went.
Reports ==
    /\ check.flight \notin {<<>>, <<Unseen>>}
    /\ LET r == check.flight[1]
       IN /\ check' = [cached |-> <<r>>, flight |-> <<>>, waits |-> <<>>]
          /\ mail' = mail \o [i \in DOMAIN check.waits |-> AnswerTo(check.waits[i], r)]
          /\ jobs' = {IF j.at = "report" THEN [j EXCEPT !.at = "told"] ELSE j : j \in jobs}
    /\ UNCHANGED <<needs, hook, wizard>>

\* What came of it goes to the window that asked; another one asks for the
\* report again, unless it threw.
ComesOut(j, threw) ==
    IF j.by = "here" THEN mail' = Append(mail, Outcome(j.n, threw)) /\ UNCHANGED check
    ELSE /\ check' = [check EXCEPT !.flight = IF ~threw /\ check.cached = <<>> /\ @ = <<>>
                                             THEN <<Unseen>> ELSE @]
         /\ UNCHANGED mail

Tells(j) ==
    /\ j.at = "told" /\ jobs' = jobs \ {j} /\ ComesOut(j, FALSE)
    /\ UNCHANGED <<needs, hook, wizard>>

\* runCommand and install: mended or not.  A command always has the report made
\* again, an install that failed does not; one that could not be started, or
\* is not allowed, throws.
JobEnds(j) ==
    /\ j.at = "run"
    /\ \E well, throws, again \in BOOLEAN :
          /\ throws => ~well /\ ~again
          /\ well => again
          /\ needs' = [needs EXCEPT ![j.n] = @ \/ well]
          /\ IF again
             THEN /\ check' = [check EXCEPT !.cached = <<>>,
                                            !.flight = IF @ = <<>> THEN <<Unseen>> ELSE @]
                  /\ jobs' = (jobs \ {j}) \cup {[j EXCEPT !.at = "report"]}
                  /\ UNCHANGED mail
             ELSE jobs' = jobs \ {j} /\ ComesOut(j, throws)
    /\ UNCHANGED <<hook, wizard>>

---------------------------------------------------------------------------
(* usePreflight *)

\* A report, an announcement, or what came of a remedy: after which the report
\* is asked for again, unless it threw.  A hook that is gone hears nothing.
Told ==
    /\ mail # <<>>
    /\ LET m == Head(mail)
           h == IF hook.in = "none" THEN hook
                ELSE CASE m.kind = "answer" ->
                        [hook EXCEPT !.report = <<m.got>>, !.phase = "ready", !.foreign = {},
                                     !.busy = IF m.tag = "none" THEN @ ELSE "none"]
                  [] m.kind = "refusal" -> [hook EXCEPT !.phase = "error"]
                  [] m.kind = "progress" ->
                        [hook EXCEPT !.report = IF @ = <<>> THEN @
                                                ELSE <<[@[1] EXCEPT !.rows[m.tag] = "installing"]>>,
                                     !.foreign = IF m.got THEN @ \cup {m.tag} ELSE @ \ {m.tag}]
                  [] OTHER -> [hook EXCEPT !.busy = IF m.got THEN "none" ELSE @,
                                           !.threw = IF m.got THEN @ \cup {m.tag} ELSE @ \ {m.tag}]
       IN /\ hook' = h
          /\ IF m.kind = "outcome" /\ ~m.got /\ hook.in # "none"
             THEN AsksFor(m.tag, FALSE, Tail(mail))
             ELSE mail' = Tail(mail) /\ UNCHANGED check
    /\ UNCHANGED <<needs, jobs, wizard>>

RowStatus(n) == IF hook.report = <<>> THEN "unknown" ELSE hook.report[1].rows[n]
Drawn  == /\ hook.in # "none" /\ hook.phase = "ready"
          /\ hook.in = "panel" => \E n \in Degrading : RowStatus(n) = "missing"

\* "Check again".
ChecksAgain ==
    /\ Drawn \/ (hook.in = "wizard" /\ hook.phase = "error")
    /\ hook.in = "wizard" /\ Pay("clicks") /\ AsksFor("none", TRUE, mail)
    /\ UNCHANGED <<needs, jobs, hook, wizard, world, shown, reads, pushes, acts, panel>>

\* The strip shows what degrades only; a card is locked while it is the one
\* that is busy.  Bounds: one remedy of a row runs at a time, and announces
\* itself once.
Remedies(n) ==
    /\ Drawn /\ RowStatus(n) = "missing" /\ hook.busy # n /\ (hook.in = "panel" => n \in Degrading)
    /\ (\A j \in jobs : j.n = n => j.at # "run") /\ Pay("clicks")
    /\ hook' = [hook EXCEPT !.busy = n]
    /\ jobs' = jobs \cup {[n |-> n, at |-> "run", by |-> "here"]}
    /\ mail' = Append(mail, Progress(n, FALSE))
    /\ UNCHANGED <<needs, check, wizard, world, shown, reads, pushes, acts, panel>>

\* The same in the other window, the strip over against the wizard or the
\* wizard over against the strip, of what is missing; this window only hears
\* it announced.
RemediesElsewhere(n) ==
    /\ ~needs[n] /\ (hook.in = "wizard" => n \in Degrading)
    /\ hook.phase # "unavailable" /\ (\A j \in jobs : j.n = n => j.at # "run") /\ Pay("clicks")
    /\ jobs' = jobs \cup {[n |-> n, at |-> "run", by |-> "elsewhere"]}
    /\ mail' = Append(mail, Progress(n, TRUE))
    /\ UNCHANGED <<needs, check, hook, wizard, world, shown, reads, pushes, acts, panel>>

\* A check that does not come back: for one who waits.
CheckFails ==
    /\ check.waits # <<>> /\ Pay("faults")
    /\ check' = [check EXCEPT !.waits = Tail(@)]
    /\ mail' = Append(mail, [kind |-> "refusal", tag |-> "none", got |-> FALSE])
    /\ UNCHANGED <<needs, jobs, hook, wizard, world, shown, reads, pushes, acts, panel>>

SetupWork ==
    /\ Detects \/ Reports \/ Told \/ \E j \in jobs : JobEnds(j) \/ Tells(j)
    /\ UNCHANGED panelVars

CheckNext ==
    /\ SetupWork \/ ChecksAgain \/ CheckFails
       \/ \E n \in Needs : Remedies(n) \/ RemediesElsewhere(n)
    /\ UNCHANGED inviteVars

---------------------------------------------------------------------------
(* The wizard. *)

Outstanding == {n \in Needs : RowStatus(n) = "missing"}

ClearedEarly ==                         \* mutant: it does not wait for what is being installed
    /\ hook.phase = "ready" /\ hook.report[1].proceed
    /\ Outstanding \subseteq hook.accepted

\* cleared: nothing can be asked; all in order; or nothing that blocks, nothing
\* at work, and all the rest accepted.
Cleared ==
    \/ hook.phase = "unavailable"
    \/ hook.phase = "ready" /\ hook.report[1].all
    \/ /\ hook.phase = "ready" /\ hook.report[1].proceed
       /\ \A n \in Needs : RowStatus(n) # "installing"
       /\ Outstanding \subseteq hook.accepted

\* The screen steps aside, and its hook is gone.
Passes(way) ==
    /\ wizard' = [wizard EXCEPT !.at = 1, !.way = way]
    /\ hook' = [hook EXCEPT !.in = "none"]
    /\ UNCHANGED <<needs, check, mail, jobs, inviteVars>>

StepsAside ==
    /\ hook.in = "wizard" /\ Cleared
    /\ Passes(IF hook.phase = "unavailable" THEN "unknown" ELSE "cleared") /\ UNCHANGED panelVars

\* Offered under an error only: a check that cannot run says nothing.
Skips ==
    /\ hook.in = "wizard" /\ hook.phase = "error" /\ Pay("clicks") /\ Passes("skipped")
    /\ UNCHANGED <<world, shown, reads, pushes, acts, panel>>

Accepts(n) ==
    /\ hook.in = "wizard" /\ Drawn /\ hook.report[1].proceed
    /\ n \in Degrading /\ RowStatus(n) = "missing" /\ n \notin hook.accepted /\ Pay("clicks")
    /\ hook' = [hook EXCEPT !.accepted = @ \cup {n}]
    /\ UNCHANGED <<needs, check, mail, jobs, wizard, inviteVars,
                   world, shown, reads, pushes, acts, panel>>

Rest == UNCHANGED <<needs, check, mail, jobs, hook>>

\* The next step; the last one asks for a code as it comes.
Advances(w) ==
    /\ wizard' = [w EXCEPT !.at = @ + 1]
    /\ IF w.steps[w.at + 1] = "pairing"
       THEN Opened("wizard") ELSE UNCHANGED <<invite, mints>>
    /\ UNCHANGED codes /\ Rest

\* The dialogue, then folders.add; meanwhile "Later" is not locked.
Picks ==
    /\ Step = "folder" /\ wizard.pick = "idle" /\ Pay("clicks")
    /\ wizard' = [wizard EXCEPT !.pick = "adding"]
    /\ Rest /\ UNCHANGED <<inviteVars, world, shown, reads, pushes, acts, panel>>

Added ==
    /\ wizard.pick = "adding"
    /\ \E f \in {g \in Shares : world.share[g] = "no"} \cup {"none"} :
          /\ wizard' = [wizard EXCEPT !.pick = "idle",
                            !.chosen = IF f = "none" \/ Step # "folder" THEN @ ELSE {f}]
          /\ world' = IF f = "none" THEN world ELSE [world EXCEPT !.share[f] = "on"]
    /\ Rest /\ UNCHANGED <<inviteVars, shown, reads, pushes, acts, panel, moves>>

FolderDone == Step = "folder" /\ Advances(wizard) /\ UNCHANGED panelVars

\* The status stream says that the sign-in took.
SignInTook ==
    /\ Step = "sign-in" /\ shown["status"].data = <<"on">>
    /\ Advances(wizard) /\ UNCHANGED panelVars

\* finish
WizardEnds ==
    /\ Step = "pairing" /\ ~wizard.done /\ Pay("clicks")
    /\ wizard' = [wizard EXCEPT !.done = TRUE]
    /\ Rest /\ UNCHANGED <<inviteVars, world, shown, reads, pushes, acts, panel>>

AsksForIt == Step = "pairing" /\ AsksAtOnce(wizard.chosen) /\ UNCHANGED setupVars

WizardNext ==
    \/ StepsAside \/ Skips \/ Picks \/ Added \/ FolderDone \/ SignInTook \/ WizardEnds \/ AsksForIt
    \/ \E n \in Degrading : Accepts(n)

---------------------------------------------------------------------------
(* Properties. *)

\* A wizard that went on by itself over a report left nothing behind that
\* blocks, and of what degrades only what the operator accepted, whatever was
\* being repaired, in whichever window, and however old the report was
\* (PreflightStep.tsx: "no amount of local acceptance moves the wizard on").
\* Without the bridge it goes on with nothing known, and this says nothing.
OnlyInOrderIsPassed ==
    wizard.way = "cleared" => \A n \in Needs : needs[n] \/ (n \in Degrading /\ n \in hook.accepted)

\* No row of a window keeps a progress bar over a job that is over, but for one
\* whose own command could not be started, and for one that another window's
\* remedy announced after the last report (usePreflight.ts: "a row that skipped
\* this would keep a progress bar moving over a job that is already over").
NoRowStaysBusy ==
    hook.in # "none" /\ jobs = {} /\ mail = <<>> /\ check.waits = <<>> /\ hook.phase = "ready" =>
        \A n \in Needs : RowStatus(n) = "installing" => n \in hook.threw \/ n \in hook.foreign

\* Not so: the same of every row.  Only the window that asked for a remedy asks
\* for the report after it; the others have the announcement, and no more.
NoRowStaysBusyAnywhere ==
    hook.in # "none" /\ jobs = {} /\ mail = <<>> /\ check.waits = <<>> /\ hook.phase = "ready" =>
        \A n \in Needs : RowStatus(n) = "installing" => n \in hook.threw

---------------------------------------------------------------------------
(***************************************************************************)
(* The app's own updates (main/updates.ts) and the card that asks for them *)
(* (UpdatePanel.tsx).  Nothing is asked of GitHub before the operator      *)
(* does; an installer runs only when it is the file that the release's     *)
(* SHA256SUMS names.                                                       *)
(*                                                                         *)
(* A card that goes and comes again does not know of a download that goes  *)
(* on, and may begin another; both write the same file.                    *)
(***************************************************************************)

VARIABLES
    app,            \* its version, whether it is the portable build, what it has launched
    release,        \* the latest on GitHub: its version, and what it publishes
    card,           \* the mounted card
    tasks,          \* calls of check and install
    target,         \* the installer in the temporary folder
    overlap,        \* history: a download began while another wrote
    left            \* bound: clicks, faults, changes

updateVars == <<app, release, card, tasks, target, overlap, left>>

\* What a release may lack: the installer, the checksums, the line for the
\* installer; or its installer is not the file that the line names.
Assets == {"whole", "noInstaller", "noSums", "noEntry", "wrong"}
Release(v, has) == [version |-> v, has |-> has]

NoCard == [state |-> "none", checking |-> FALSE, busy |-> FALSE, error |-> FALSE]

UpdateInit(version, portable, r, budget) ==
    /\ app = [version |-> version, portable |-> portable, ran |-> <<>>]
    /\ release = r /\ card = NoCard /\ tasks = {} /\ target = "none"
    /\ overlap = FALSE /\ left = budget

Part(v, i) == IF i <= Len(v) THEN v[i] ELSE [word |-> FALSE, n |-> 0]

\* A number above a word: a prerelease is below the release it is one of.
Above(x, y) == IF x.word = y.word THEN x.n > y.n ELSE y.word

\* isNewer: the first part that differs decides, and a missing one is zero.
IsNewer(latest, current) ==
    \E i \in 1 .. (Len(latest) + Len(current)) :
        /\ Above(Part(latest, i), Part(current, i))
        /\ \A k \in 1 .. (i - 1) : Part(latest, k) = Part(current, k)

Takes(what) == left[what] > 0 /\ left' = [left EXCEPT ![what] = @ - 1]
Task(do, n) == [do |-> do, at |-> "ask", n |-> n, of |-> release, live |-> TRUE]

(* The card. *)

Check ==
    /\ ~card.checking /\ ~card.busy /\ Takes("clicks")
    /\ card' = [card EXCEPT !.checking = TRUE, !.error = FALSE]
    /\ tasks' = tasks \cup {Task("check", left.clicks)}
    /\ UNCHANGED <<app, release, target, overlap>>

Install ==
    /\ card.state = "installable" /\ ~card.checking /\ ~card.busy /\ Takes("clicks")
    /\ card' = [card EXCEPT !.busy = TRUE, !.error = FALSE]
    /\ tasks' = tasks \cup {Task("install", left.clicks)}
    /\ UNCHANGED <<app, release, target, overlap>>

\* The section is left and opened again.
Remounted ==
    /\ Takes("clicks") /\ card' = NoCard /\ tasks' = {[t EXCEPT !.live = FALSE] : t \in tasks}
    /\ UNCHANGED <<app, release, target, overlap>>

Shows(t, c) == card' = IF t.live THEN c ELSE card
Leaves(t)   == tasks' = tasks \ {t}
Moves(t, u) == tasks' = (tasks \ {t}) \cup {u}

\* checkForUpdate: the button is there only for a build that can be replaced.
CheckEnds(t) ==
    /\ t.do = "check" /\ Leaves(t)
    /\ Shows(t, [card EXCEPT !.checking = FALSE, !.state =
            CASE ~IsNewer(release.version, app.version)             -> "current"
              [] /\ IsNewer(release.version, app.version)
                 /\ app.portable \/ release.has = "noInstaller"     -> "byHand"
              [] OTHER                                              -> "installable"])
    /\ UNCHANGED <<app, release, target, overlap, left>>

---------------------------------------------------------------------------
(* downloadAndInstall *)

Refuses(t) == Leaves(t) /\ Shows(t, [card EXCEPT !.busy = FALSE, !.error = TRUE])

\* The release is asked for again, then its checksums; what was there goes.
Resolves(t) ==
    /\ t.do = "install" /\ t.at = "ask"
    /\ IF release.has \in {"noInstaller", "noSums", "noEntry"}
       THEN Refuses(t) /\ UNCHANGED target
       ELSE /\ Moves(t, [t EXCEPT !.at = "get", !.of = release])
            /\ target' = "none" /\ UNCHANGED card
    /\ UNCHANGED <<app, release, overlap, left>>

\* The stream opens the file anew.
Begins(t) ==
    /\ t.at = "get"
    /\ Moves(t, [t EXCEPT !.at = "write"]) /\ target' = "part"
    /\ overlap' = (overlap \/ \E u \in tasks \ {t} : u.at \in {"write", "check"})
    /\ UNCHANGED <<app, release, card, left>>

Wrote(t) ==
    /\ t.at = "write"
    /\ Moves(t, [t EXCEPT !.at = "check"])
    /\ target' = IF t.of.has = "wrong" THEN "other" ELSE "published"
    /\ UNCHANGED <<app, release, card, overlap, left>>

\* The digest is of what was received; the file is run, and the app quits.
Launches(t) ==
    /\ t.at = "check"
    /\ IF t.of.has = "wrong" \/ target = "none"
       THEN Refuses(t) /\ target' = "none" /\ UNCHANGED app
       ELSE /\ app' = [app EXCEPT !.ran = <<target>>]
            /\ tasks' = {} /\ card' = NoCard /\ UNCHANGED target
    /\ UNCHANGED <<release, overlap, left>>

\* GitHub does not answer, or the stream breaks and leaves what it wrote.
TaskFails(t) ==
    /\ Takes("faults") /\ t.at # "check" /\ Leaves(t)
    /\ Shows(t, [card EXCEPT !.checking = FALSE, !.busy = FALSE, !.error = t.do = "install",
                             !.state = IF t.do = "check" THEN "error" ELSE @])
    /\ UNCHANGED <<app, release, target, overlap>>

\* Another release is published.
Publishes(r) ==
    /\ Takes("changes") /\ release' = r
    /\ UNCHANGED <<app, card, tasks, target, overlap>>

UpdateNext(rs) ==
    /\ app.ran = <<>>
    /\ \/ Check \/ Install \/ Remounted
       \/ \E t \in tasks : CheckEnds(t) \/ Resolves(t) \/ Begins(t) \/ Wrote(t) \/ Launches(t) \/ TaskFails(t)
       \/ \E r \in rs : Publishes(r)

\* What is run is the file whose digest the release publishes, whatever was
\* published meanwhile, unless two downloads wrote the file at once; and the
\* portable build runs none (downloadAndInstall).
LaunchedIsPublished ==
    app.ran # <<>> => ~app.portable /\ (overlap \/ app.ran = <<"published">>)

\* Not so: the same without that exception (updates.ts: "Refusing is the whole
\* point - the alternative is running an unverified executable").  The digest
\* is of what one download received, the file what both wrote.
NothingUnverifiedRuns == app.ran # <<>> => app.ran = <<"published">>
=============================================================================
