---------------------------------- MODULE Phone ----------------------------------
(***************************************************************************)
(* The phone's application: its screens (App, the routes) over the client  *)
(* it is given (ClientProvider, createClient), the library (OfflineLibrary)*)
(* and the service worker (Worker).  The first part is the pairing screen  *)
(* (PairRoute): the camera and the timer that samples it (useQrScanner),   *)
(* the link it may have been opened with, the code typed by hand, and the  *)
(* claim each of them makes.                                               *)
(***************************************************************************)
EXTENDS OfflineLibrary

CONSTANTS
    Effects         \* runs of the scanner's effect

VARIABLES
    phase,          \* scanning, manual, claiming, waiting, done; or off: not mounted
    busy,           \* the ref that onScan looks at
    claims,         \* pairings under way: how each was begun, and how far it is
    link,           \* fromLink
    cam,            \* each run of the scanner's effect
    blocked,        \* the camera's status is denied, unavailable or error
    runs            \* runs of the effect so far

pairVars == <<phase, busy, claims, link, cam, blocked, runs>>

\* live: not cleaned up; at: what it waits for; lit: its stream; timer: it samples.
NoCam == [live |-> FALSE, at |-> "none", lit |-> FALSE, timer |-> FALSE]

PairInit(l) ==
    /\ phase = "off" /\ busy = FALSE /\ claims = <<>> /\ link = l
    /\ cam = [e \in Effects |-> NoCam] /\ blocked = FALSE /\ runs = 0

---------------------------------------------------------------------------
(* useQrScanner. *)

Enabled(ph) == ph = "scanning"

\* The cleanup: the timer, if it is there yet, and the stream.
Cleaned(c) == [c EXCEPT !.live = FALSE, !.lit = FALSE,
                        !.timer = IF c.live THEN FALSE ELSE @]

\* The effect runs when `enabled' changes.
Scanner(ph) ==
    IF Enabled(ph) = Enabled(phase)
    THEN UNCHANGED <<cam, runs, blocked>>
    ELSE /\ runs' = IF Enabled(ph) THEN runs + 1 ELSE runs
         /\ blocked' = FALSE
         /\ cam' = [e \in Effects |->
                      IF Enabled(ph) /\ e = runs + 1
                      THEN [NoCam EXCEPT !.live = TRUE, !.at = "asks"] ELSE Cleaned(cam[e])]

Room == runs < Cardinality(Effects)

\* getUserMedia: a stream that comes too late is stopped there and then.
CameraComes(e) ==
    /\ cam[e].at = "asks"
    /\ cam' = [cam EXCEPT ![e].at = IF cam[e].live THEN "plays" ELSE "none",
                          ![e].lit = cam[e].live]
    /\ UNCHANGED <<phase, busy, claims, link, blocked, runs>>

CameraRefused(e) ==
    /\ cam[e].at = "asks" /\ Costs("faults")
    /\ cam' = [cam EXCEPT ![e].at = "none"]
    /\ blocked' = (blocked \/ cam[e].live)
    /\ UNCHANGED <<phase, busy, claims, link, runs>>

\* The picture plays: the timer is set, by a run that may be over.
SetsTimer(e) ==
    /\ cam[e].at = "plays"
    /\ cam' = [cam EXCEPT ![e].at = "none", ![e].timer = TRUE]
    /\ UNCHANGED <<phase, busy, claims, link, blocked, runs>>

---------------------------------------------------------------------------
(* PairRoute. *)

Goes(ph) == phase' = ph /\ Scanner(ph)

Claim(how) == [how |-> how, at |-> "claims"]

\* onScan, with a code that can be read.
OnScan(how) ==
    /\ ~busy
    /\ busy' = TRUE
    /\ claims' = Append(claims, Claim(how))
    /\ Goes("claiming")
    /\ UNCHANGED link

\* A timer samples the picture on the screen, whoever set it.
Samples(e) ==
    /\ cam[e].timer /\ phase = "scanning" /\ (\E f \in Effects : cam[f].lit)
    /\ OnScan("scan")

ShowManual == phase = "manual" \/ (phase = "scanning" /\ blocked)

TypesCode ==
    /\ phase = "scanning" /\ ~blocked
    /\ Goes("manual") /\ UNCHANGED <<busy, claims, link>>

UsesCamera ==
    /\ phase = "manual" /\ Room
    /\ Goes("scanning") /\ UNCHANGED <<busy, claims, link>>

\* submitManual: `busy' is not looked at, nor set.
SubmitsManual ==
    /\ ShowManual
    /\ claims' = Append(claims, Claim("manual"))
    /\ Goes("claiming") /\ UNCHANGED <<busy, link>>

\* The name is edited: onScan is another function, and the link's effect runs.
EditsName ==
    /\ ShowManual /\ link
    /\ OnScan("link")

\* The screen is mounted; with a link it claims at once.
Mounts ==
    /\ phase = "off" /\ Room
    /\ IF link
       THEN /\ phase' = "claiming" /\ busy' = TRUE /\ claims' = Append(claims, Claim("link"))
            /\ UNCHANGED <<cam, blocked, runs>>
       ELSE Goes("scanning") /\ UNCHANGED <<busy, claims>>
    /\ UNCHANGED link

Rest(i) == SubSeq(claims, 1, i - 1) \o SubSeq(claims, i + 1, Len(claims))

\* The host takes the claim, and somebody there is asked.
Claimed(i) ==
    /\ claims[i].at = "claims" /\ up # {}
    /\ dot' = Succeeded(dot)
    /\ claims' = [claims EXCEPT ![i].at = "waits"]
    /\ IF phase = "claiming" THEN Goes("waiting") ELSE UNCHANGED <<phase, cam, blocked, runs>>
    /\ UNCHANGED <<busy, link>>

\* Refused, too late, or not reached: back to where it began.
ClaimFails(i) ==
    /\ Costs("faults") /\ Room
    /\ dot' \in {Succeeded(dot), Failed(dot)}
    /\ claims' = Rest(i)
    /\ busy' = IF claims[i].how = "manual" THEN busy ELSE FALSE
    /\ IF phase = "off" THEN UNCHANGED <<phase, cam, blocked, runs>>
       ELSE Goes(IF claims[i].how = "manual" THEN "manual" ELSE "scanning")
    /\ UNCHANGED link

\* Approved: the session is adopted, and the library is next.
Approved(i) ==
    /\ claims[i].at = "waits"
    /\ dot' = Succeeded(dot)
    /\ claims' = Rest(i)
    /\ phase' = "off" /\ busy' = FALSE /\ link' = FALSE
    /\ Scanner("off")

---------------------------------------------------------------------------
(* What the pairing screen keeps. *)

\* The camera of the phone is on only for the run of the scanner that is there
\* to look at it, however late the permission came (useQrScanner).
CameraIsOff == \A e \in Effects : cam[e].lit => cam[e].live

\* One scan, link or code is one claim: while it is out, nothing else of the
\* screen makes another, though the timer samples five times a second and the
\* link's effect runs at every edit of the name (PairRoute: `busy').
OneClaim == Len(claims) <= 1

---------------------------------------------------------------------------
(* The application. *)

CONSTANTS
    Scenarios       \* bound: which parts move, from where

\* A phone that is opened with a pairing link has no session yet.
ASSUME ScenariosAssumption ==
    \A s \in Scenarios : /\ s.session \in 0..MaxTokens /\ s.cache \in [v : Nat, at : Nat]
                         /\ s.link => s.session = 0

VARIABLES
    ready,          \* the stored session has been read
    leaving,        \* «unpair»: signOut is called, and not waited for
    route,          \* the screen
    may,            \* bound: what may happen in this scenario
    player          \* PlayerRoute: how far, and who fetches the video's bytes

here == <<ready, leaving, route, may, player>>
phoneVars == <<reachVars, shelfVars, workerVars, pairVars, here>>

NoPlayer == [at |-> "none", by |-> "none"]

PhoneInit ==
    \E s \in Scenarios :
        /\ ReachInit(s.session, s.alts, s.up, s.budget)
        /\ ShelfInit(s.cache) /\ WorkerInit(0) /\ PairInit(s.link)
        /\ ready = FALSE /\ leaving = FALSE /\ may = s.may /\ player = NoPlayer
        /\ route = IF s.link THEN "pair" ELSE s.route

SameShelf  == UNCHANGED shelfVars
SameRest   == UNCHANGED <<workerVars, pairVars, here>>
SameReach  == UNCHANGED reachVars

---------------------------------------------------------------------------
(* The screens.  Of one that is left nothing is shown, nor asked for. *)

\* OfflineRoute reads the cache, and nothing else.
FromCache ==
    LET verdict == Verdict(cache)
    IN IF verdict \in {"fresh", "stale-ok"}
       THEN Shows(cache.v, verdict = "stale-ok", now - cache.at) ELSE screen' = EmptyList

ListAt(r) ==
    /\ Drops
    /\ IF r = "library"
       THEN load' = [NoLoad EXCEPT !.at = "reads"] /\ screen' = [EmptyList EXCEPT !.loading = TRUE]
       ELSE load' = NoLoad /\ (IF r = "offline" THEN FromCache ELSE screen' = EmptyList)

FolderAt(r) ==
    IF r = "folder" THEN OpensFolder(1) ELSE pages' = NoPages /\ calls' = {}

Enters(r) ==
    /\ route' = r
    /\ ListAt(r) /\ FolderAt(r)
    /\ player' = IF r = "play" THEN [NoPlayer EXCEPT !.at = "meta"] ELSE NoPlayer
    /\ UNCHANGED <<lib, cache, news, ready, may>>

Same == UNCHANGED <<alts, up, active, now>>

\* load(): the session of the store, and the screen that the address names.
Loads ==
    /\ ~ready
    /\ ready' = TRUE
    /\ ListAt(route) /\ FolderAt(route)
    /\ player' = IF route = "play" THEN [NoPlayer EXCEPT !.at = "meta"] ELSE NoPlayer
    /\ IF session # 0 THEN Starts ELSE UNCHANGED stream
    /\ Same /\ UNCHANGED <<session, dot, budget, lib, cache, news, leaving, route, may,
                           workerVars, pairVars>>

\* App's effect: who has no session pairs, who has one does not.
Gates ==
    /\ ready /\ (session = 0) # (route = "pair")
    /\ Enters(IF session = 0 THEN "pair" ELSE "library")
    /\ IF session = 0 THEN UNCHANGED <<phase, cam, blocked, runs>>
       ELSE phase' = "off" /\ Scanner("off")
    /\ Same /\ UNCHANGED <<session, stream, dot, budget, leaving, busy, claims, link, workerVars>>

Visits(r) ==
    /\ ready /\ session # 0 /\ "library" \in may /\ r # route /\ route # "pair" /\ Costs("user")
    /\ Enters(r)
    /\ Same /\ UNCHANGED <<session, stream, dot, leaving, workerVars, pairVars>>

---------------------------------------------------------------------------
(* The session. *)

\* Another access token.  'session-changed' is another session to the provider's
\* effect, which stops the stream and starts it before it has stopped.
Renews ==
    /\ ready /\ session \in 1..(MaxTokens - 1) /\ Costs("user")
    /\ session' = session + 1
    /\ LeftOff /\ net' = [net EXCEPT !["events"] = <<>>]
    /\ Same /\ UNCHANGED dot /\ SameShelf /\ SameRest

\* «Unpair» of ServersRoute: the screen does not wait.
Unpairs ==
    /\ ready /\ route = "servers" /\ session # 0 /\ ~leaving /\ Costs("user")
    /\ leaving' = TRUE
    /\ Enters("pair")
    /\ Same /\ UNCHANGED <<session, stream, dot, workerVars, pairVars>>

\* signOut; or the server says that the device is closed.  What was saved of the
\* library goes, too; and no token is known to be good (history).
SignsOut ==
    /\ session # 0 /\ ready
    /\ IF leaving THEN UNCHANGED budget ELSE "close" \in may /\ Costs("faults")
    /\ leaving' = FALSE
    /\ Forgets
    /\ cache' = Nowhere
    /\ media' = [s \in Seeks |-> [media[s] EXCEPT !.known = FALSE]]
    /\ UNCHANGED <<up, now, lib, screen, load, late, news, pages, calls, expired, memo, reading,
                   shell, pairVars, ready, route, may, player>>

---------------------------------------------------------------------------
(* Requests, and the library. *)

List == SameShelf /\ SameRest

ListReached ==
    /\ Reached("list") /\ ListAnswers
    /\ UNCHANGED <<session, alts, up, stream, now, budget, lib, pages, calls>> /\ SameRest

ListUnreached ==
    /\ Unreached("list") /\ ListFails
    /\ UNCHANGED <<lib, pages, calls>> /\ SameRest

Requests(a) ==
    \/ TriesNext(a) /\ List
    \/ a = "events" /\ StreamOpens /\ List
    \/ a = "me" /\ MeAnswers /\ List
    \/ a # "list" /\ Unreached(a) /\ List
    \/ a = "list" /\ (ListReached \/ ListUnreached)

\* ServersRoute asks for /me when it is mounted; OfflineRoute probes, by itself.
AsksMeHere == ready /\ route = "servers" /\ AsksMe /\ List

Probes ==
    /\ ready /\ session # 0 /\ route = "offline" /\ dot.state # "connected" /\ ~Out("me")
    /\ SetsOut("me")
    /\ UNCHANGED <<session, alts, up, active, stream, dot, now, budget>> /\ List

CacheIsRead ==
    /\ ReadsCache
    /\ UNCHANGED <<session, alts, up, active, stream, dot, now, budget, lib, pages, calls>> /\ SameRest

Writes ==
    /\ WritesList \/ LateWrites
    /\ SameReach /\ UNCHANGED <<lib, pages, calls>> /\ SameRest

\* The button of an empty or a failed list.
Retries ==
    /\ ready /\ route = "library" /\ ~screen.loading /\ screen.v = 0 /\ Costs("user")
    /\ Runs
    /\ Same /\ UNCHANGED <<session, stream, dot, lib, cache, news, pages, calls>> /\ SameRest

\* The host opens or closes a folder, and says so to the streams that are open.
ServerChanges(seen) ==
    /\ "change" \in may /\ Costs("user")
    /\ Changes(seen)
    /\ IF stream.at # 0 /\ stream.at \in up /\ ready /\ route = "library" THEN Refetches
       ELSE UNCHANGED <<listVars, net>>
    /\ Same /\ UNCHANGED <<session, stream, dot, pages, calls>> /\ SameRest

\* A folder: another, or again; its pages.
Folder ==
    /\ "folder" \in may /\ ready /\ route = "folder"
    /\ \/ \E k \in Keys : Costs("user") /\ OpensFolder(k) /\ UNCHANGED dot
       \/ LoadsMore /\ UNCHANGED <<dot, budget>>
       \/ \E c \in calls : (FirstPage(c) \/ MorePages(c)) /\ dot' = Succeeded(dot) /\ UNCHANGED budget
       \/ \E c \in calls : PageFails(c) /\ Costs("faults") /\ dot' = Failed(dot)
    /\ UNCHANGED <<session, alts, up, active, net, stream, now, lib, listVars>> /\ SameRest

---------------------------------------------------------------------------
(* The player, and its worker. *)

\* Its meta data come; a ticket is asked for, and only when there is none do the
\* bytes come through the worker.
Plays ==
    /\ ready /\ route = "play"
    /\ \/ player.at = "meta" /\ player' = [player EXCEPT !.at = "ticket"] /\ UNCHANGED budget
       \/ player.at = "ticket" /\ player' = [at |-> "plays", by |-> "ticket"] /\ UNCHANGED budget
       \/ player.at = "ticket" /\ player' = [at |-> "plays", by |-> "worker"] /\ Costs("faults")
    /\ Same /\ UNCHANGED <<session, net, stream, dot, workerVars, ready, leaving, route, may, pairVars>>
    /\ SameShelf

Seeking(s) ==
    /\ player.by = "worker" /\ media[s].at \in {"idle", "played"}
    /\ media' = [media EXCEPT ![s] = [NoSeek EXCEPT !.at = "asked"]]
    /\ UNCHANGED <<expired, memo, reading, shell>>

OfWorker ==
    /\ \/ \E s \in Seeks : Seeking(s) \/ AsksToken(s) \/ Answers401(s) \/ WorkerAnswers(s)
       \/ SeesStore \/ ReadEnds \/ MemoAges
    /\ SameReach /\ SameShelf /\ UNCHANGED <<pairVars, here>>

TokenExpires ==
    /\ route = "play" /\ Expires
    /\ Same /\ UNCHANGED <<session, net, stream, dot>> /\ SameShelf /\ UNCHANGED <<pairVars, here>>

OfShell ==
    /\ "shell" \in may
    /\ \/ \E got \in SUBSET Assets :
             Installs(got) /\ IF got = Assets THEN UNCHANGED budget ELSE Costs("faults")
       \/ (Activates \/ Navigates \/ \E a \in Assets : FetchesAsset(a)) /\ UNCHANGED budget
    /\ Same /\ UNCHANGED <<session, net, stream, dot, expired, memo, reading, media, pairVars, here>>
    /\ SameShelf

---------------------------------------------------------------------------
(* Pairing. *)

\* Effects run before anything is clicked, or sampled.
Settled == ready /\ (session = 0) = (route = "pair")

InPair == Same /\ UNCHANGED <<net, here, workerVars>> /\ SameShelf

Pairs ==
    \/ /\ ready /\ route = "pair" /\ Mounts /\ UNCHANGED <<session, stream, dot, budget>> /\ InPair
    \/ /\ \E e \in Effects : CameraComes(e) \/ SetsTimer(e) \/ (Settled /\ Samples(e))
       /\ UNCHANGED <<session, stream, dot, budget>> /\ InPair
    \/ /\ \E e \in Effects : CameraRefused(e)
       /\ UNCHANGED <<session, stream, dot>> /\ InPair
    \/ /\ Settled /\ (TypesCode \/ UsesCamera \/ SubmitsManual)
       /\ UNCHANGED <<session, stream, dot, budget>> /\ InPair
    \/ /\ Settled /\ EditsName /\ Costs("user") /\ UNCHANGED <<session, stream, dot>> /\ InPair
    \/ /\ \E i \in 1..Len(claims) :
             \/ Claimed(i) /\ UNCHANGED budget
             \/ ClaimFails(i)
       /\ UNCHANGED <<session, stream>> /\ InPair

\* The session is adopted: stored, and told; the library is next.
Adopts ==
    /\ \E i \in 1..Len(claims) : Approved(i)
    /\ session' = MaxTokens /\ Starts
    /\ Enters("library")
    /\ Same /\ UNCHANGED <<budget, leaving, workerVars>>

---------------------------------------------------------------------------
(* What happens around it. *)

Around ==
    /\ \/ "offline" \in may /\ Moves({})
       \/ "move" \in may /\ \E o \in Origins : Moves({o})
       \/ "edge" \in may /\ \E edge \in Edges : HearsEdge(edge)
       \/ Ticks
    /\ SameShelf /\ SameRest

PhoneNext ==
    \/ Loads \/ Gates \/ Unpairs \/ SignsOut \/ Renews
    \/ \E r \in {"library", "servers", "offline"} : Visits(r)
    \/ \E a \in Asks : Requests(a)
    \/ Reconnects /\ List
    \/ StreamEnds /\ List
    \/ AsksMeHere \/ Probes \/ CacheIsRead \/ Writes \/ Retries
    \/ \E seen \in BOOLEAN : ServerChanges(seen)
    \/ Folder \/ Plays \/ OfWorker \/ TokenExpires \/ OfShell
    \/ Pairs \/ Adopts \/ Around

\* Requests end: they are answered, or time out; IndexedDB answers; the loop of
\* the event stream tries again; and effects run.
Fairness ==
    /\ \A a \in Asks : WF_phoneVars(Requests(a) /\ UNCHANGED budget)
    /\ WF_phoneVars(Reconnects /\ List)
    /\ WF_phoneVars(StreamEnds /\ List)
    /\ WF_phoneVars(CacheIsRead)
    /\ WF_phoneVars(Writes)
    /\ WF_phoneVars(Loads)
    /\ WF_phoneVars(Gates)

---------------------------------------------------------------------------
(* Properties. *)

\* A change of the library that the phone has heard of is on its screen in the
\* end, or the screen says that it could not be had, unless a load that had
\* already been answered then wrote its older list over (LibraryRoute: "Refetch
\* the moment the operator changes what this device may see").
ChangeIsShown ==
    []<>(\/ route # "library" \/ session = 0 \/ news.raced
         \/ screen.v >= news.v \/ screen.stale \/ screen.error)

\* Without the exception.  (Not so: an older list is written over it.)
EveryChangeIsShown ==
    []<>(\/ route # "library" \/ session = 0
         \/ screen.v >= news.v \/ screen.stale \/ screen.error)

\* What the phone shows and asks for, together: the library it shows is the
\* server's or says it is old, a folder's pages are in order, a film goes on with
\* the token in the store, the camera is off when nothing looks at it, and a code
\* is claimed once (useAsync, useEntryPages, sw/media.ts, useQrScanner, PairRoute).
PhoneHolds == HonestListing /\ PagesInOrder /\ GoodTokenIsUsed /\ CameraIsOff /\ OneClaim

\* And what it comes to: the client follows the server to where it is, and the
\* library follows the server's changes (origin-failover.ts, LibraryRoute).
PhoneCatchesUp == FollowsTheServer /\ ChangeIsShown
=============================================================================
