--------------------------------- MODULE Console ---------------------------------
(***************************************************************************)
(* The operator's windows together: the panel with its pairing screen and  *)
(* its settings, which come and go with the section; the wizard before it; *)
(* the popover of the tray; and, behind the settings, the sidecar's        *)
(* configuration and what it puts in front of the server.  In a scenario   *)
(* one part of them moves, and what it is made of.                         *)
(***************************************************************************)
EXTENDS Setup, Front

VARIABLES
    part            \* bound: the part that moves in this scenario

desktopVars == <<inviteVars, setupVars>>
remoteVars  == <<setVars, frontVars, spent>>

\* What stands still where nothing of it moves.
NoSetup == /\ needs = [n \in Needs |-> TRUE]
           /\ check = [cached |-> <<>>, flight |-> <<>>, waits |-> <<>>]
           /\ mail = <<>> /\ jobs = {} /\ hook = NoHook
           /\ WizardInit(FALSE)

\* NavRail: the pairing screen and the form of the settings are mounted with
\* their section, and what they had asked for goes on without them.
Navigated(section) ==
    /\ Navigate(section)
    /\ Opened(IF section = "pairing" THEN "pairing" ELSE "none")
    /\ CASE section = "settings"       -> Mounted
         [] panel.section = "settings" -> Unmounted
         [] OTHER                      -> UNCHANGED <<form, calls>>
    /\ UNCHANGED <<codes, setupVars, spent, row, edge, raced, frontVars, updateVars>>

PanelPart ==
    /\ part \in {"panel", "invite"}
    /\ \/ PanelNext /\ UNCHANGED <<desktopVars, remoteVars, updateVars>>
       \/ part = "invite" /\ InviteNext /\ UNCHANGED <<setupVars, remoteVars, updateVars>>
       \/ \E s \in Sections : Navigated(s)

SetupPart ==
    /\ part = "setup"
    /\ \/ CheckNext \/ WizardNext
       \/ InviteNext /\ UNCHANGED setupVars
       \/ (PanelWork \/ WorldMoves) /\ UNCHANGED desktopVars
    /\ UNCHANGED <<remoteVars, updateVars>>

SettingsPart ==
    /\ part = "settings"
    /\ \/ SettingsNext /\ UNCHANGED <<panelVars, inviteVars, setupVars, frontVars, updateVars>>
       \/ \E s \in {"settings", "hosting"} : Navigated(s)

FrontPart ==
    /\ part = "front" /\ FrontNext
    /\ UNCHANGED <<panelVars, desktopVars, row, edge, form, calls, raced, updateVars>>

UpdatePart(rs) ==
    /\ part = "update" /\ UpdateNext(rs)
    /\ UNCHANGED <<panelVars, desktopVars, remoteVars>>

ConsoleNext(rs) ==
    /\ PanelPart \/ SetupPart \/ SettingsPart \/ FrontPart \/ UpdatePart(rs)
    /\ UNCHANGED part

consoleVars == <<part, panelVars, desktopVars, remoteVars, updateVars>>

\* What the panel does of itself, when nothing else of the console moves.
Alone(A) ==
    /\ part \in {"panel", "invite", "setup"} /\ A
    /\ UNCHANGED <<part, desktopVars, remoteVars, updateVars>>

\* Calls are answered, answers are shown, and the timers go on.
ConsoleFair ==
    /\ WF_consoleVars(Alone(Pushed \/ ActWork)) /\ WF_consoleVars(part # "setup" /\ Alone(Poll))
    /\ \A r \in Resources : WF_consoleVars(Alone(ReadWork(r)))
    /\ WF_consoleVars(part = "settings" /\ (\E c \in calls : CallStep(c))
                        /\ UNCHANGED <<part, panelVars, desktopVars, frontVars, updateVars>>)

---------------------------------------------------------------------------
(* Properties. *)

\* What is in front of the server and what the settings say of it can be relied
\* on, and so can the first code that a screen asks for (SettingsScreen.tsx,
\* edge/cert.go, edge/proxy.go, PairingScreen.tsx).
ConsoleHolds == SettingsHold /\ FrontHolds /\ FirstCodeIsWhole

\* The wizard goes on only when all is in order or accepted, no row stays busy
\* over a job that is over, and an update that is run is the one that was
\* published (PreflightStep.tsx, usePreflight.ts, updates.ts).
SetupHolds == OnlyInOrderIsPassed /\ NoRowStaysBusy /\ LaunchedIsPublished

\* Nothing that the operator does loses a stored secret, the panel comes to
\* show what is, and no button stays locked (operatorNetwork.ts, library.tsx,
\* shell.tsx, SettingsScreen.tsx).
ConsoleAnswers == SecretsAreKept /\ PanelCatchesUp /\ ButtonsComeBack

---------------------------------------------------------------------------
(* The operator's windows, a scenario for each part that moves. *)

\* The world: a phone that is paired, or none yet; a folder shared, one not.
Quiet0 ==
    [phone |-> [d \in Phones |-> "no"], share |-> [f \in Shares |-> IF f = "f1" THEN "on" ELSE "no"],
     grants |-> [d \in Phones |-> NoGrants], feed |-> 0, plays |-> FALSE, edge |-> "off",
     lan |-> "http", wall |-> "blocked"]
Paired == [Quiet0 EXCEPT !.phone = [d \in Phones |-> "active"]]

Budget(c, f, e) == [clicks |-> c, faults |-> f, changes |-> e]

\* The rows of network_config: default, custom with a key, dns01 with a token.
Row0 == [Defaults EXCEPT !.host = "h1"]
RowC == [Row0 EXCEPT !.mode = "custom", !.url = "good", !.cert = "external-proxy",
                     !.domain = "dom", !.key = "old"]
RowD == [Row0 EXCEPT !.cert = "dns01", !.domain = "dom", !.provider = "dns", !.token = "old"]

Number(n) == [word |-> FALSE, n |-> n]
Word(n)   == [word |-> TRUE, n |-> n]
Version1  == <<Number(1), Number(10)>>
Version2  == <<Number(2), Number(0)>>
Candidate == <<Number(2), Number(0), Word(1)>>
SomeReleases == {Release(v, has) : v \in {Version2, <<Number(1), Number(2)>>}, has \in Assets}

NoUpdates == UpdateInit(Version1, FALSE, Release(Version1, "whole"), Budget(0, 0, 0))
Still(p)  == part = p /\ (p # "update" => NoUpdates)
NoPanel   == PanelInit(Quiet0, {}, "hosting", Budget(0, 0, 0)) /\ InviteInit("none")
NoRemote(u, f) == SettingsInit(Row0) /\ FrontInit("control-plane") /\ spent = [user |-> u, faults |-> f]

\* Of the phone's grants: a folder that is shared, and one that is not.
Granted == [Paired EXCEPT !.grants = [d \in Phones |-> [NoGrants EXCEPT !["f1"] = "full"]]]

PanelScenario ==
    /\ Still("panel") /\ NoSetup /\ NoRemote(0, 0) /\ InviteInit("none")
    /\ \/ PanelInit(Paired, {"folders"}, "folders", Budget(2, 1, 0))
       \/ \E w \in {Paired, Quiet0} :
             \/ PanelInit(w, {"devices"}, "devices", Budget(2, 0, 1))
             \/ PanelInit(w, {"devices", "activity"}, "devices", Budget(1, 0, 1))
       \/ PanelInit(Quiet0, {"status"}, "hosting", Budget(2, 1, 2))
       \/ PanelInit(Quiet0, {"status"}, "tray", Budget(1, 1, 1))
       \/ PanelInit(Quiet0, {"info", "firewall"}, "pairing", Budget(2, 1, 1))
       \/ PanelInit(Quiet0, {"streams"}, "folders", Budget(2, 0, 1))
       \/ PanelInit(Granted, {"folders", "devices"}, "folders", Budget(2, 0, 0))

\* A panel that opens on the pairing screen, and the tray's.
InviteScenario ==
    /\ Still("invite") /\ NoSetup /\ NoRemote(0, 0)
    /\ \/ PanelInit(Quiet0, {"folders"}, "hosting", Budget(2, 1, 1)) /\ InviteInit("none")
       \/ PanelInit(Quiet0, {}, "tray", Budget(1, 1, 1)) /\ InviteInit("tray")

SetupScenario ==
    /\ Still("setup") /\ NoRemote(0, 0) /\ InviteInit("none")
    /\ \/ /\ HookInit("wizard") /\ needs \in {[n \in Needs |-> n = "e"], [n \in Needs |-> n = "b"]}
          /\ PanelInit(Quiet0, {}, "hosting", Budget(2, 1, 0))
          /\ WizardInit(FALSE)
       \/ /\ NoBridge("wizard") /\ needs = [n \in Needs |-> n = "e"] /\ WizardInit(FALSE)
          /\ PanelInit(Quiet0, {}, "hosting", Budget(1, 0, 0))
       \/ /\ HookInit("wizard") /\ needs = [n \in Needs |-> n # "b"] /\ \E remote \in BOOLEAN : WizardInit(remote)
          /\ PanelInit(Quiet0, {"status"}, "hosting", Budget(2, 0, 2))

\* The strip in the panel, for what the wizard was told to do without.
BannerScenario ==
    /\ Still("setup") /\ NoRemote(0, 0) /\ InviteInit("none") /\ HookInit("panel")
    /\ needs = [n \in Needs |-> n # "d"] /\ WizardInit(FALSE)
    /\ PanelInit(Quiet0, {}, "hosting", Budget(2, 1, 1))

SettingsScenario ==
    /\ Still("settings") /\ NoSetup /\ InviteInit("none")
    /\ FrontInit("control-plane")
    /\ \E r \in {Row0, RowC, RowD} : SettingsInit(r)
    /\ spent = [user |-> 3, faults |-> 1]
    /\ PanelInit(Quiet0, {}, "hosting", Budget(2, 0, 0))

FrontScenario ==
    /\ Still("front") /\ NoSetup /\ NoPanel /\ SettingsInit(Row0)
    /\ spent = [user |-> 2, faults |-> 2]
    /\ \E s \in Strategies : FrontInit(s)

UpdateScenario ==
    /\ Still("update") /\ NoSetup /\ NoPanel /\ NoRemote(0, 0)
    /\ \E v \in {Version1, Version2, Candidate}, portable \in BOOLEAN, r \in SomeReleases :
          UpdateInit(v, portable, r, Budget(5, 1, 1))

MCInit ==
    \/ PanelScenario \/ InviteScenario \/ SetupScenario \/ BannerScenario
    \/ SettingsScenario \/ FrontScenario \/ UpdateScenario

MCNext == ConsoleNext(SomeReleases)

Spec == MCInit /\ [][MCNext]_consoleVars /\ ConsoleFair
=============================================================================
