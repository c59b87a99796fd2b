---------------------------------- MODULE Panel ----------------------------------
(***************************************************************************)
(* The operator's panel: what it shows of the server, and what it asks of  *)
(* it.  The lists are read on demand and after what the server says        *)
(* (state/library.tsx), the sidecar's status is pushed, with a first read  *)
(* that must not undo a push (state/shell.tsx), the addresses and the live *)
(* streams are polled, and the firewall is read when the card comes up.    *)
(* Every read and every write is awaited, and answers may come in any      *)
(* order; the last to come is what is shown.                               *)
(***************************************************************************)
EXTENDS Integers, Sequences, FiniteSets

CONSTANTS Phones, Shares, Levels      \* devices, folders, and what a device may do in one
ASSUME PanelAssumption == IsFiniteSet(Shares) /\ "unset" \notin Levels

VARIABLES
    world,          \* the server, the sidecar and Windows, as they are; feed: what an event announces of it
    shown,          \* of each resource: what is on the screen, which read it is from, the last one asked
    reads,          \* under way, answered or not
    pushes,         \* from the main process to the window, in order
    acts,           \* handlers that wait for their answer
    panel,          \* the section, the resources of the scenario, whether a status was pushed
    moves           \* bound: clicks, faults, changes

panelVars == <<world, shown, reads, pushes, acts, panel, moves>>

Listed   == {"folders", "devices", "activity"}
Polled   == {"info", "streams"}
Resources == Listed \cup Polled \cup {"status", "firewall"}
Sections == {"hosting", "folders", "devices", "pairing", "settings"}

AccessModes == Levels \cup {"none"}
NoGrants == [f \in Shares |-> "none"]

\* A folder that is shared again is another one.
IsShared(f) == world.share[f] \notin {"no", "removed"}

\* A rejected device is kept for its phone to read the answer, and not listed.
View(r) ==
    CASE r = "folders"  -> [f \in {g \in Shares : IsShared(g)} |-> world.share[f]]
      [] r = "devices"  -> [phone |-> [d \in Phones |-> IF world.phone[d] = "rejected" THEN "no"
                                                        ELSE world.phone[d]],
                            grants |-> world.grants]
      [] r = "activity" -> world.feed
      [] r = "status"   -> world.edge
      [] r = "info"     -> world.lan
      [] r = "firewall" -> world.wall
      [] OTHER          -> world.plays

ShownFolders == IF shown["folders"].data = <<>> THEN <<>> ELSE shown["folders"].data[1]

Pay(what) == moves[what] > 0 /\ moves' = [moves EXCEPT ![what] = @ - 1]

\* useAsync.reload: a further read; the number tells which one the screen has.
Asked(sh, S) == [r \in Resources |->
    IF r \in S THEN [sh[r] EXCEPT !.loading = TRUE, !.asked = IF r \in Polled THEN 0 ELSE @ + 1]
    ELSE sh[r]]
NewReads(sh, S) == {[res |-> r, n |-> Asked(sh, S)[r].asked, got |-> <<>>] : r \in S}

Reload(S) == LET T == S \cap panel.with
             IN shown' = Asked(shown, T) /\ reads' = reads \cup NewReads(shown, T)

\* What a window reads as it opens; the streams belong to the list of devices.
PanelInit(w, resources, section, budget) ==
    LET none == [r \in Resources |-> [data |-> <<>>, loading |-> FALSE, of |-> 0, asked |-> 0]]
        S    == resources \ {"firewall", IF section = "devices" THEN "" ELSE "streams"}
    IN /\ world = w /\ shown = Asked(none, S) /\ reads = NewReads(none, S)
       /\ pushes = <<>> /\ acts = {} /\ moves = budget
       /\ panel = [section |-> section, with |-> resources, pushed |-> FALSE]

---------------------------------------------------------------------------
(* Reads. *)

\* The server, the main process, PowerShell answer with what is then.
ReadAnswered(rd) ==
    /\ rd.got = <<>>
    /\ reads' = (reads \ {rd}) \cup {[rd EXCEPT !.got = <<rd.res, View(rd.res)>>]}
    /\ UNCHANGED <<world, shown, pushes, acts, panel, moves>>

\* The first status counts only where none was pushed before it.
DropsAnswer(rd) == rd.res = "status" /\ panel.pushed

\* The card reads the firewall when it sees the LAN come on, and forgets what
\* an earlier effect asked for.
CardComes(rd) ==
    /\ rd.res = "info" /\ "firewall" \in panel.with /\ panel.section = "pairing"
    /\ rd.got[2] # "off"
    /\ shown["info"].data = <<>> \/ shown["info"].data = <<"off">>

Applied(rd) ==
    /\ rd.got # <<>>
    /\ LET now == IF DropsAnswer(rd) THEN shown
                  ELSE [shown EXCEPT ![rd.res] = [@ EXCEPT !.data = <<rd.got[2]>>, !.loading = FALSE,
                                                           !.of = rd.n]]
           S   == IF CardComes(rd) THEN {"firewall"} ELSE {}
       IN /\ shown' = Asked(now, S)
          /\ reads' = {x \in reads \ {rd} : x.res \notin S} \cup NewReads(now, S)
    /\ UNCHANGED <<world, pushes, acts, panel, moves>>

\* The list stays as it was, under the error.
ReadFails(rd) ==
    /\ Pay("faults")
    /\ reads' = reads \ {rd} /\ shown' = [shown EXCEPT ![rd.res].loading = FALSE]
    /\ UNCHANGED <<world, pushes, acts, panel>>

\* The five-second and the two-second timers; bound: one read of each.
Poll ==
    /\ \E r \in Polled \cap panel.with :
          /\ r = "streams" => panel.section = "devices"
          /\ \A rd \in reads : rd.res # r
          /\ Reload({r})
    /\ UNCHANGED <<world, pushes, acts, panel, moves>>

---------------------------------------------------------------------------
(* What is pushed. *)

DeafToScans(event) ==                   \* mutant: a folder's event is not listened to
    IF event = "folder" THEN {} ELSE {"devices", "activity"}

\* LibraryProvider: what each of the server's events makes it read again.
Reloads(event) == IF event = "folder" THEN {"folders"} ELSE {"devices", "activity"}

Pushed ==
    /\ pushes # <<>> /\ pushes' = Tail(pushes)
    /\ IF Head(pushes).type = "status"
       THEN /\ shown' = [shown EXCEPT !["status"] = [@ EXCEPT !.data = <<Head(pushes).is>>]]
            /\ panel' = [panel EXCEPT !.pushed = TRUE]
            /\ UNCHANGED reads
       ELSE Reload(Reloads(Head(pushes).type)) /\ UNCHANGED panel
    /\ UNCHANGED <<world, acts, moves>>

Says(type) == pushes' = Append(pushes, [type |-> type, is |-> ""])
SaysEdge(e) == pushes' = Append(pushes, [type |-> "status", is |-> e])

\* What happens without the operator: a phone asks to be paired; a disk is
\* unplugged, and plugged in again; a film starts or ends; the sidecar
\* connects or loses its connection; the address moves.
WorldMoves ==
    /\ Pay("changes")
    /\ \/ \E d \in Phones :
             /\ "devices" \in panel.with /\ world.phone[d] = "no"
             /\ world' = [world EXCEPT !.phone[d] = "pending", !.feed = @ + 1] /\ Says("device")
       \/ \E f \in Shares :
             /\ "folders" \in panel.with /\ world.share[f] \in {"on", "gone"}
             /\ world' = [world EXCEPT !.share[f] = IF @ = "on" THEN "gone" ELSE "on"]
             /\ Says("folder")
       \/ /\ "streams" \in panel.with
          /\ world' = [world EXCEPT !.plays = ~@] /\ UNCHANGED pushes
       \/ /\ "status" \in panel.with
          /\ LET e == IF world.edge = "on" THEN "off" ELSE "on"
             IN world' = [world EXCEPT !.edge = e] /\ SaysEdge(e)
       \/ /\ "info" \in panel.with
          /\ world' = [world EXCEPT !.lan = IF @ = "off" THEN "http" ELSE "off"]
          /\ UNCHANGED pushes
    /\ UNCHANGED <<shown, reads, acts, panel>>

---------------------------------------------------------------------------
(* What the operator asks for. *)

Act(do, on, list) == [do |-> do, on |-> on, list |-> list, at |-> "asked", live |-> TRUE]

\* The buttons that are locked while theirs is awaited.
Locking == {"add", "start", "stop", "allow", "encrypt", "refresh"}
Locked  == \E a \in acts : a.live /\ a.do \in Locking

\* withPermission: the device's whole list as it is shown, one cell swapped.
OneCell(d, f, mode) ==
    [(shown["devices"].data[1].grants[d]) EXCEPT ![f] = mode]

RowOf(d) == shown["devices"].data # <<>> /\ shown["devices"].data[1].phone[d] # "no"
IsShown(d, status) == RowOf(d) /\ shown["devices"].data[1].phone[d] = status

\* A click, by what is on the screen.
Click(a) ==
    CASE a.do = "add"     -> panel.section = "folders" /\ ~Locked
      [] a.do \in {"patch", "reindex", "drop"} ->
              panel.section = "folders" /\ a.on \in DOMAIN ShownFolders
      [] a.do \in {"approve", "reject"} -> panel.section = "devices" /\ IsShown(a.on, "pending")
      [] a.do = "revoke"  -> panel.section = "devices" /\ IsShown(a.on, "active")
      [] a.do = "remove"  -> panel.section = "devices" /\ IsShown(a.on, "revoked")
      [] a.do = "mode"    -> panel.section = "devices" /\ RowOf(a.on)
      [] a.do = "start"   -> panel.section \in {"hosting", "tray"} /\ ~Locked /\ shown["status"].data # <<"on">>
      [] a.do = "stop"    -> panel.section = "hosting" /\ ~Locked /\ shown["status"].data = <<"on">>
      [] OTHER            -> /\ panel.section = "pairing" /\ ~Locked
                             /\ shown["info"].data # <<>> /\ shown["info"].data # <<"off">>

Handlers ==
    {Act("add", f, NoGrants) : f \in IF "folders" \in panel.with THEN Shares ELSE {}}
    \cup {Act(x, f, NoGrants) : x \in {"patch", "reindex", "drop"}, f \in DOMAIN ShownFolders}
    \cup {Act(x, d, NoGrants) : x \in {"approve", "reject", "revoke", "remove"},
                                d \in {e \in Phones : RowOf(e)}}
    \cup {Act("mode", d, OneCell(d, f, m)) : d \in {e \in Phones : RowOf(e)},
                                             f \in DOMAIN ShownFolders, m \in AccessModes}
    \cup {Act(x, "", NoGrants) : x \in (IF "status" \in panel.with THEN {"start", "stop"} ELSE {})
            \cup (IF "info" \in panel.with THEN {"encrypt", "refresh"} ELSE {})
            \cup (IF "firewall" \in panel.with THEN {"allow"} ELSE {})}

Clicked ==
    /\ \E a \in Handlers \ acts : Click(a) /\ acts' = acts \cup {a}
    /\ Pay("clicks")
    /\ UNCHANGED <<world, shown, reads, pushes, panel>>

\* operator.ts: a row that is gone, a status that does not fit, are refused.
CallRefused(a) ==
    CASE a.do = "add"     -> world.share[a.on] # "no"
      [] a.do \in {"patch", "reindex", "drop"} -> ~IsShared(a.on)
      [] a.do = "approve" -> world.phone[a.on] \in {"no", "revoked", "rejected"}
      [] a.do \in {"reject", "revoke", "remove"} -> world.phone[a.on] = "no"
      [] a.do = "mode"    -> \/ world.phone[a.on] = "no"
                             \/ \E f \in Shares : a.list[f] # "none" /\ ~IsShared(f)
      [] OTHER            -> FALSE

\* allowThroughFirewall: the rule is there afterwards, unless UAC was declined.
AllowsThrough == \E w \in {"allowed", world.wall} : world' = [world EXCEPT !.wall = w]

\* What the server, the sidecar or Windows does of it, and tells every window.
\* A rescan finds the disk or does not.
Effect(a) ==
    CASE a.do = "add"     -> world' = [world EXCEPT !.share[a.on] = "on"] /\ Says("folder")
      [] a.do = "patch"   -> /\ world' = [world EXCEPT !.share[a.on] = IF @ = "off" THEN "on" ELSE "off"]
                             /\ UNCHANGED pushes
      [] a.do = "reindex" -> UNCHANGED world /\ Says("folder")
      [] a.do = "drop"    -> /\ world' = [world EXCEPT !.share[a.on] = "removed",
                                   !.grants = [d \in Phones |-> [@[d] EXCEPT ![a.on] = "none"]]]
                             /\ UNCHANGED pushes
      [] a.do \in {"approve", "reject", "revoke"} ->
              /\ world' = [world EXCEPT !.feed = @ + 1, !.phone[a.on] =
                    CASE a.do = "approve" -> "active"
                      [] a.do = "revoke" \/ (a.do = "reject" /\ @ = "active") -> "revoked"
                      [] OTHER -> "rejected"]
              /\ Says("device")
      [] a.do = "remove"  -> /\ world' = [world EXCEPT !.phone[a.on] = "no", !.grants[a.on] = NoGrants]
                             /\ UNCHANGED pushes
      [] a.do = "mode"    -> /\ world' = [world EXCEPT !.grants[a.on] = a.list, !.feed = @ + 1]
                             /\ Says("permissions")
      [] a.do = "start"   -> world' = [world EXCEPT !.edge = "on"] /\ SaysEdge("on")
      [] a.do = "stop"    -> world' = [world EXCEPT !.edge = "off"] /\ SaysEdge("off")
      [] a.do = "allow"   -> AllowsThrough /\ UNCHANGED pushes
      [] a.do = "encrypt" -> /\ world' = [world EXCEPT !.lan = CASE @ = "http"  -> "https"
                                                                 [] @ = "https" -> "http"
                                                                 [] OTHER       -> @]
                             /\ UNCHANGED pushes
      [] OTHER            -> UNCHANGED <<world, pushes>>

ServerDoes(a) ==
    /\ a.at = "asked"
    /\ IF CallRefused(a)
       THEN acts' = (acts \ {a}) \cup {[a EXCEPT !.at = "failed"]} /\ UNCHANGED <<world, pushes>>
       ELSE acts' = (acts \ {a}) \cup {[a EXCEPT !.at = "done"]} /\ Effect(a)
    /\ UNCHANGED <<shown, reads, panel, moves>>

\* What a handler reads again once its answer is there.
ThenReads(a) ==
    CASE a.do \in {"add", "patch", "reindex", "drop"} -> {"folders"}
      [] a.do \in {"approve", "reject", "revoke", "remove", "mode"} -> {"devices"}
      [] OTHER -> {}

\* The toast of a failure; or the list again.  refreshInfo starts its effect
\* anew, and what the old one had asked for is dropped; the firewall's answer
\* is shown as it comes.
Returned(a) ==
    /\ a.at \in {"done", "failed"} /\ acts' = acts \ {a}
    /\ CASE a.at = "failed" \/ (a.do = "allow" /\ ~a.live) -> UNCHANGED <<shown, reads>>
         [] a.at = "done" /\ a.do \in {"encrypt", "refresh"} ->
               /\ shown' = Asked(shown, {"info"})
               /\ reads' = {x \in reads : x.res # "info"} \cup NewReads(shown, {"info"})
         [] a.at = "done" /\ a.do = "allow" /\ a.live ->
               /\ shown' = [shown EXCEPT !["firewall"] = [@ EXCEPT !.data = <<world.wall>>,
                                              !.asked = @ + 1, !.of = shown["firewall"].asked + 1]]
               /\ UNCHANGED reads
         [] OTHER -> Reload(ThenReads(a))
    /\ UNCHANGED <<world, pushes, panel, moves>>

\* The call does not come through.
ActFails(a) ==
    /\ a.at = "asked" /\ Pay("faults")
    /\ acts' = (acts \ {a}) \cup {[a EXCEPT !.at = "failed"]}
    /\ UNCHANGED <<world, shown, reads, pushes, panel>>

\* NavRail: the screen is unmounted, with its locks and with what only it had.
Navigate(section) ==
    /\ panel.section # section /\ panel.section # "tray" /\ Pay("clicks")
    /\ panel' = [panel EXCEPT !.section = section]
    /\ acts' = {[a EXCEPT !.live = FALSE] : a \in acts}
    /\ LET own  == {"streams", "firewall"}
           bare == [r \in Resources |-> IF r \in own THEN [shown[r] EXCEPT !.data = <<>>]
                                        ELSE shown[r]]
           S    == {r \in own \cap panel.with :
                      IF r = "streams" THEN section = "devices"
                      ELSE section = "pairing" /\ shown["info"].data \notin {<<>>, <<"off">>}}
       IN /\ shown' = Asked(bare, S)
          /\ reads' = {x \in reads : x.res \notin own} \cup NewReads(bare, S)
    /\ UNCHANGED <<world, pushes>>

---------------------------------------------------------------------------
ReadWork(r) == \E rd \in reads : rd.res = r /\ (ReadAnswered(rd) \/ Applied(rd))
ActWork     == \E a \in acts : ServerDoes(a) \/ Returned(a)
PanelWork   == Pushed \/ ActWork \/ \E r \in Resources : ReadWork(r)

PanelNext ==
    \/ PanelWork \/ Poll \/ WorldMoves \/ Clicked
    \/ \E rd \in reads : ReadFails(rd)
    \/ \E a \in acts : ActFails(a)

---------------------------------------------------------------------------
(* Properties. *)

\* What is on the screen is what is; of a device, in the folders that are
\* listed.  A status that never came is not claimed.
Fits(r) ==
    CASE r = "devices" /\ shown[r].data # <<>> ->
              /\ shown[r].data[1].phone = View(r).phone
              /\ \A d \in Phones, f \in DOMAIN View("folders") :
                    shown[r].data[1].grants[d][f] = world.grants[d][f]
      [] r = "status"  -> shown[r].data \in {<<>>, <<View(r)>>}
      [] r = "firewall" -> shown[r].data \in {<<>>, <<View(r)>>}
      [] r = "streams" -> panel.section = "devices" => shown[r].data = <<View(r)>>
      [] OTHER         -> shown[r].data = <<View(r)>>

\* Once nothing changes any more, the panel comes to show what is, of every
\* resource whose last answer was to the last read asked: an event or a
\* handler's own reload follows every change of the lists, a push every change
\* of the sidecar whenever the first read of it comes, and a timer the rest
\* (library.tsx: "the panel learns of a phone the moment it asks";
\* shell.tsx: "a pushed frame always wins over the initial fetch").
PanelCatchesUp ==
    <>[](\A r \in panel.with : shown[r].of = shown[r].asked => Fits(r))

---------------------------------------------------------------------------
(***************************************************************************)
(* Where an operator asks for a pairing code: the pairing screen, which    *)
(* seeds the grants of a new device from the folders and asks for the      *)
(* first code itself, the popover of the tray, and the last step of the    *)
(* wizard.  A code is minted, then drawn; both are awaited, and the screen *)
(* may have gone meanwhile.                                                *)
(*                                                                         *)
(* An effect runs with the values of the render it belongs to: what        *)
(* another effect of that commit sets is seen in the next one.             *)
(***************************************************************************)

VARIABLES
    invite,         \* the screen that asks: its defaults, what it has asked for and shows
    mints,          \* requests under way
    codes           \* what was minted, and from which list of folders

inviteVars == <<invite, mints, codes>>

NoDefaults == [f \in Shares |-> "unset"]
NoInvite == [place |-> "none", defaults |-> NoDefaults, from |-> {}, seeded |-> FALSE,
             requested |-> FALSE, busy |-> FALSE, minted |-> <<>>, dead |-> FALSE, error |-> FALSE,
             early |-> FALSE]               \* history: an access was chosen before the seeding

Full(S) == [f \in Shares |-> IF f \in S THEN "full" ELSE "unset"]
Set(g)  == {f \in Shares : g[f] # "unset"}

\* useLibrary: folders is empty until there is a list; loading is of both lists.
Folders == DOMAIN ShownFolders
Loading == shown["folders"].loading \/ shown["devices"].loading

\* A screen comes; what an earlier one had asked for is minted all the same.
Opened(place) ==
    /\ invite' = [NoInvite EXCEPT !.place = place]
    /\ mints' = {[m EXCEPT !.live = FALSE] : m \in mints}

InviteInit(place) == invite = [NoInvite EXCEPT !.place = place] /\ mints = {} /\ codes = {}

---------------------------------------------------------------------------
MintsFor(grants, from, first) ==
    mints' = mints \cup {[grants |-> grants, from |-> from, first |-> first, live |-> TRUE,
                          early |-> invite.early,
                          at |-> IF invite.place = "tray" THEN "list" ELSE "mint"]}

\* defaultsReady
Ready == ~Loading /\ (Folders = {} \/ Cardinality(Set(invite.defaults)) >= Cardinality(Folders))

\* The effects of a render of the pairing screen: the seeding, and the first code.
Seeds == ~invite.seeded /\ ~Loading
AsksFirst  == ~invite.requested /\ Ready

Committed ==
    /\ invite.place = "pairing" /\ (Seeds \/ AsksFirst)
    /\ invite' = [invite EXCEPT
           !.seeded = @ \/ Seeds, !.requested = @ \/ AsksFirst, !.busy = @ \/ AsksFirst,
           !.error = @ /\ ~AsksFirst,
           !.defaults = IF Seeds THEN Full(Folders) ELSE @,
           !.from = IF Seeds THEN Folders ELSE @]
    /\ IF AsksFirst THEN MintsFor(invite.defaults, invite'.from, TRUE) ELSE UNCHANGED mints
    /\ UNCHANGED <<codes, panelVars>>

\* The tray asks at once for every folder there is, the wizard for the one
\* that was chosen, or for none.
AsksAtOnce(chosen) ==
    /\ invite.place \in {"tray", "wizard"} /\ ~invite.requested
    /\ invite' = [invite EXCEPT !.requested = TRUE, !.from = chosen]
    /\ MintsFor(Full(chosen), chosen, TRUE)
    /\ UNCHANGED <<codes, panelVars>>

\* "Regenerate": on the pairing screen whenever nothing is awaited; in the
\* wizard under a code that has run out.
Regenerate ==
    /\ \/ invite.place = "pairing" /\ ~invite.busy
       \/ invite.place = "wizard" /\ invite.minted # <<>> /\ invite.dead
    /\ Pay("clicks")
    /\ invite' = [invite EXCEPT !.busy = invite.place = "pairing", !.error = FALSE]
    /\ MintsFor(IF invite.place = "pairing" THEN invite.defaults ELSE Full(invite.from),
           invite.from, FALSE)
    /\ UNCHANGED <<codes, world, shown, reads, pushes, acts, panel>>

\* AccessModeSelector: a code that was minted already keeps its grants.
Choose(f, mode) ==
    /\ invite.place = "pairing" /\ f \in Folders /\ mode # invite.defaults[f] /\ Pay("clicks")
    /\ invite' = [invite EXCEPT !.defaults[f] = mode, !.early = @ \/ ~invite.seeded]
    /\ UNCHANGED <<mints, codes, world, shown, reads, pushes, acts, panel>>

There == {f \in Shares : IsShared(f)}

\* listFolders of the tray; the mint; the picture of the code.
MintGoesOn(m) ==
    /\ CASE m.at = "list" ->
              /\ mints' = (mints \ {m}) \cup
                           {[m EXCEPT !.at = "mint", !.grants = Full(There), !.from = There]}
              /\ UNCHANGED <<invite, codes>>
         [] m.at = "mint" ->
              /\ mints' = (mints \ {m}) \cup {[m EXCEPT !.at = "draw"]}
              /\ codes' = codes \cup {[grants |-> m.grants, from |-> m.from, first |-> m.first,
                                         early |-> m.early]}
              /\ UNCHANGED invite
         [] OTHER ->
              /\ mints' = mints \ {m}
              /\ invite' = IF m.live
                           THEN [invite EXCEPT !.minted = <<m.grants>>, !.dead = FALSE, !.busy = FALSE]
                           ELSE invite
              /\ UNCHANGED codes
    /\ UNCHANGED panelVars

\* The screen says so; a code that it shows stays.
MintFails(m) ==
    /\ Pay("faults")
    /\ mints' = mints \ {m}
    /\ invite' = IF m.live THEN [invite EXCEPT !.error = TRUE, !.busy = FALSE] ELSE invite
    /\ UNCHANGED <<codes, world, shown, reads, pushes, acts, panel>>

\* The timer that counts the five minutes down.
RunsOut ==
    /\ invite.minted # <<>> /\ ~invite.dead /\ Pay("changes")
    /\ invite' = [invite EXCEPT !.dead = TRUE]
    /\ UNCHANGED <<mints, codes, world, shown, reads, pushes, acts, panel>>

InviteWork ==
    \/ Committed
    \/ invite.place = "tray" /\ AsksAtOnce({})
    \/ \E m \in mints : MintGoesOn(m)

InviteNext ==
    \/ InviteWork \/ Regenerate \/ RunsOut
    \/ \E f \in Shares, mode \in AccessModes : Choose(f, mode)
    \/ \E m \in mints : MintFails(m)

---------------------------------------------------------------------------
(* Properties. *)

\* The code that a screen asks for itself has an entry for every folder the
\* screen was seeded with, full or what the operator chose since, "none"
\* included (PairingScreen.tsx: "the very first QR code, the one every new
\* device is paired with, carried no permissions at all"), unless an access was
\* chosen before the lists had come: defaultsReady counts the entries and does
\* not ask whose they are, and the folders may be others by then.  A list that
\* could not be read seeds no folder, and such a code still carries nothing.
FirstCodeIsWhole == \A c \in codes : c.first /\ ~c.early => c.from \subseteq Set(c.grants)
=============================================================================
