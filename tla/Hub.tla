----------------------------------- MODULE Hub -----------------------------------
(***************************************************************************)
(* The servers the desktop client knows: the row of each (ServerRegistry), *)
(* its session (SessionVault, SessionManager), its client and connection   *)
(* (ClientHub), the window's list of them (bridge.tsx, ServersScreen and   *)
(* its dialogs), and the requests of a video that wait for a token         *)
(* (mediaAuth.ts).  The calls of the window are ipc.ts's.                  *)
(***************************************************************************)
EXTENDS Naturals, FiniteSets

CONSTANTS
    Rows,           \* the servers, by the id their host gives them
    Nothing         \* no row, no list

ASSUME HubAssumption == Nothing \notin [Rows -> {"none", "needs-pairing", "paired", "offline"}]

VARIABLES
    left,           \* bound: what is left of clicks, faults and moves
    list,           \* servers.json, and the registry's copy
    vault,          \* sessions.json: the rows that have a session there
    entries,        \* #entries, and the client of each
    orphans,        \* clients of removed rows whose refresh is still out
    ipc,            \* calls of the window, under way
    video,          \* a request that onBeforeSendHeaders holds
    win,            \* the servers' screen
    stray           \* history: a session outlived its row, or the row was lost

hubVars == <<left, list, vault, entries, orphans, ipc, video, win, stray>>

Pays(what) == left[what] > 0 /\ left' = [left EXCEPT ![what] = @ - 1]

\* held: the session in memory; stream: the event loop; asked: a refresh is out.
NoClient == [in |-> FALSE, held |-> FALSE, paired |-> FALSE, started |-> FALSE,
             stream |-> FALSE, asked |-> FALSE, conn |-> "offline"]

\* SessionVault.read: a session that cannot be decrypted is none.
HasSession(r) == r \in vault

\* #ensure, of a row that has no entry.
Fresh(r) == [NoClient EXCEPT !.in = TRUE, !.held = HasSession(r), !.paired = HasSession(r)]

\* #summarise: state, and what the dot says of it.
Summary(e) ==
    CASE ~e.in                                     -> "none"
      [] e.in /\ ~e.paired                         -> "needs-pairing"
      [] e.in /\ e.paired /\ e.started /\ e.conn # "offline" -> "paired"
      [] OTHER                                     -> "offline"

Summaries(es) == [r \in Rows |-> Summary(es[r])]

NoServers == [r \in Rows |-> "none"]

\* useServers; the dialogs; busyId.  What the window asked for may come late.
NewWindow == [rows |-> NoServers, answer |-> Nothing, push |-> Nothing, asked |-> TRUE,
              raced |-> FALSE, busy |-> Nothing, pairing |-> Nothing, waiting |-> FALSE]

Started(l, v) ==
    /\ list = l /\ vault = v /\ stray = FALSE
    /\ entries = [r \in Rows |-> IF r \in l THEN Fresh(r) ELSE NoClient]
    /\ orphans = {} /\ ipc = {} /\ video = [row |-> Nothing, at |-> "idle"]
    /\ win = NewWindow

---------------------------------------------------------------------------
(* The two files.  Each is written whole, to a file of its own that is renamed. *)

\* SessionVault.write, and clear: the sessions of the other rows are kept.
Stores(r) == vault \cup {r}

Clears(r) == vault \ {r}

\* ServerRegistry.add: known or new, under the id that its host gives it.
Entered(r) == list \cup {r}

Struck(r) == list \ {r}

\* #read: a file that is gone, or makes no sense, has no servers.
ReadBack == {list, {}}

---------------------------------------------------------------------------
(* What is pushed, and what is asked for. *)

\* #emit: the window is sent the whole list; one that was asked for and has not
\* come yet is older.
Emits(es, w) == win' = [w EXCEPT !.push = Summaries(es), !.raced = @ \/ w.answer # Nothing]

\* list(): the handler's answer is what there is, its reply goes its own way.
AnswersList ==
    /\ win.asked
    /\ win' = [win EXCEPT !.asked = FALSE, !.answer = Summaries(entries)]
    /\ UNCHANGED <<left, list, vault, entries, orphans, ipc, video, stray>>

HearsAnswer ==
    /\ win.answer # Nothing
    /\ win' = [win EXCEPT !.rows = win.answer, !.answer = Nothing]
    /\ UNCHANGED <<left, list, vault, entries, orphans, ipc, video, stray>>

HearsPush ==
    /\ win.push # Nothing
    /\ win' = [win EXCEPT !.rows = win.push, !.push = Nothing]
    /\ UNCHANGED <<left, list, vault, entries, orphans, ipc, video, stray>>

\* The screen is mounted again: another useServers.
Remounts(w) == [NewWindow EXCEPT !.push = w.push]

---------------------------------------------------------------------------
(* The client of a row. *)

\* signOut, and what hangs on 'signed-out': the stream stops, the dot resets.
ClosedOf(e) == [e EXCEPT !.held = FALSE, !.paired = FALSE, !.stream = FALSE, !.conn = "connecting"]

Becomes(r, e) == entries' = [entries EXCEPT ![r] = e]

\* A request finds the token old, and refreshes.
Refreshes(r) ==
    /\ entries[r].in /\ entries[r].held /\ ~entries[r].asked /\ Pays("moves")
    /\ Becomes(r, [entries[r] EXCEPT !.asked = TRUE])
    /\ UNCHANGED <<list, vault, orphans, ipc, video, win, stray>>

\* performRefresh: stored and in memory, whatever was signed out meanwhile; a row
\* that is still there is told by 'session-changed', the window by nobody.
Refreshed(r) ==
    /\ entries[r].asked
    /\ Becomes(r, [entries[r] EXCEPT !.asked = FALSE, !.held = TRUE, !.paired = TRUE])
    /\ vault' = Stores(r)
    /\ stray' = (stray \/ ~entries[r].held)
    /\ UNCHANGED <<left, list, orphans, ipc, video, win>>

\* The client of a row that was removed still stores what it gets.
OrphanStores(r) ==
    /\ r \in orphans
    /\ orphans' = orphans \ {r}
    /\ vault' = Stores(r) /\ stray' = TRUE
    /\ UNCHANGED <<left, list, entries, ipc, video, win>>

RefreshFails(r) ==
    /\ entries[r].asked /\ Pays("faults")
    /\ Becomes(r, [entries[r] EXCEPT !.asked = FALSE])
    /\ UNCHANGED <<list, vault, orphans, ipc, video, win, stray>>

\* The refresh is told that the device is closed; or another call is, and the
\* refresh, which nobody waits for any more, is still out.
RowSignedOut(r) ==
    /\ entries[r].in /\ entries[r].held /\ Pays("faults")
    /\ \E asked \in {FALSE, entries[r].asked} :
          LET es == [entries EXCEPT ![r] = [ClosedOf(@) EXCEPT !.asked = asked]]
          IN entries' = es /\ Emits(es, win)
    /\ vault' = Clears(r)
    /\ UNCHANGED <<list, orphans, ipc, video, stray>>

\* connection.subscribe.
DotMoves(r) ==
    /\ entries[r].in /\ entries[r].stream /\ Pays("moves")
    /\ \E to \in {"connected", "connecting", "offline"} \ {entries[r].conn} :
          LET es == [entries EXCEPT ![r].conn = to] IN entries' = es /\ Emits(es, win)
    /\ UNCHANGED <<list, vault, orphans, ipc, video, stray>>

---------------------------------------------------------------------------
(* The calls: connect, pair, forget, remove and add. *)

Calls(kind, r, at) == [kind |-> kind, row |-> r, at |-> at]

\* connect, up to me(): without a session it ends there.
Connecting(r, es, w, calls) ==
    LET e    == es[r]
        next == [es EXCEPT ![r] = [e EXCEPT !.started = TRUE, !.paired = e.paired /\ e.held,
                                            !.stream = e.stream \/ e.held]]
    IN /\ entries' = next
       /\ IF e.held
          THEN ipc' = calls \cup {Calls("connect", r, "me")} /\ win' = w
          ELSE ipc' = calls /\ Emits(next, [w EXCEPT !.busy = Nothing])

\* Its end, when me() is answered, or fails.
Connected(c) ==
    /\ c.kind = "connect"
    /\ LET es == [entries EXCEPT ![c.row].paired = entries[c.row].held]
       IN entries' = es /\ Emits(es, [win EXCEPT !.busy = Nothing])
    /\ ipc' = ipc \ {c}
    /\ UNCHANGED <<left, list, vault, orphans, video, stray>>

\* runPairing is at its end: the operator has approved.  The session is adopted,
\* the stream started; and the window connects.  If the row has gone meanwhile
\* the session is stored all the same, and the dialog stays as it is.
PairEnds(c) ==
    /\ c.kind = "pair"
    /\ vault' = Stores(c.row)
    /\ IF entries[c.row].in
       THEN LET es == [entries EXCEPT ![c.row] =
                         [@ EXCEPT !.held = TRUE, !.paired = TRUE, !.started = TRUE, !.stream = TRUE]]
            IN /\ entries' = es /\ stray' = stray
               /\ Emits(es, [win EXCEPT !.waiting = FALSE, !.pairing = Nothing])
               /\ ipc' = (ipc \ {c}) \cup {Calls("connect", c.row, "me")}
       ELSE ipc' = ipc \ {c} /\ stray' = TRUE /\ UNCHANGED <<entries, win>>
    /\ UNCHANGED <<left, list, orphans, video>>

\* Refused, or too late: the dialog says so and stays.
PairFails(c) ==
    /\ c.kind = "pair" /\ Pays("faults")
    /\ ipc' = ipc \ {c}
    /\ win' = [win EXCEPT !.waiting = FALSE]
    /\ UNCHANGED <<list, vault, entries, orphans, video, stray>>

\* forget: signed out, and the row as it was when it was added.
AsAdded(e) == [ClosedOf(e) EXCEPT !.started = FALSE, !.conn = "offline"]

\* forget and remove, once the stream has stopped.
Ending(kind, r, calls) ==
    /\ LET e  == entries[r]
           es == [entries EXCEPT ![r] = IF kind = "remove" THEN NoClient ELSE AsAdded(e)]
       IN /\ entries' = es /\ Emits(es, [win EXCEPT !.busy = Nothing])
          /\ orphans' = IF kind = "remove" /\ e.asked THEN orphans \cup {r} ELSE orphans
    /\ vault' = Clears(r)
    /\ list' = IF kind = "remove" THEN Struck(r) ELSE list
    /\ ipc' = calls

Ended(c) ==
    /\ c.kind \in {"forget", "remove"}
    /\ Ending(c.kind, c.row, ipc \ {c})
    /\ UNCHANGED <<left, video, stray>>

---------------------------------------------------------------------------
(* The servers' screen: what a row offers, and the dialogs over it. *)

NoDialog == win.pairing = Nothing

\* ServerRow, and «pair with a code» of the header.
Offers(r, kind) ==
    CASE kind = "pair"    -> win.rows[r] = "needs-pairing"
      [] kind = "connect" -> win.rows[r] = "offline" /\ win.busy # r
      [] kind = "forget"  -> win.rows[r] \in {"offline", "paired"}
      [] kind = "remove"  -> win.rows[r] # "none"

\* withBusy, of the buttons that call.
Connects(r) ==
    /\ IF entries[r].in THEN Connecting(r, entries, [win EXCEPT !.busy = r], ipc)
                        ELSE UNCHANGED <<entries, ipc, win>>
    /\ UNCHANGED <<list, vault, orphans>>

OpensPairing(r) ==
    /\ win' = [win EXCEPT !.pairing = r]
    /\ UNCHANGED <<list, vault, entries, orphans, ipc>>

\* forget and remove wait for a stream that runs.
Leaves(r, kind) ==
    /\ Calls(kind, r, "stop") \notin ipc
    /\ IF entries[r].stream
       THEN /\ Becomes(r, [entries[r] EXCEPT !.stream = FALSE])
            /\ ipc' = ipc \cup {Calls(kind, r, "stop")}
            /\ win' = [win EXCEPT !.busy = r]
            /\ UNCHANGED <<list, vault, orphans>>
       ELSE entries[r].in /\ Ending(kind, r, ipc)

ClicksRow(r, kind) ==
    /\ NoDialog /\ Offers(r, kind) /\ Pays("clicks")
    /\ CASE kind = "connect"              -> Connects(r)
         [] kind = "pair"                 -> OpensPairing(r)
         [] kind \in {"forget", "remove"} -> Leaves(r, kind)
    /\ UNCHANGED <<video, stray>>

\* AddServerDialog: the row, known or not, and straight into pairing, even where
\* its dialog was closed meanwhile.
Adds(r) ==
    /\ NoDialog /\ Pays("clicks")
    /\ LET es == [entries EXCEPT ![r] = IF @.in THEN @ ELSE Fresh(r)]
       IN entries' = es /\ Emits(es, [win EXCEPT !.pairing = r])
    /\ list' = Entered(r)
    /\ UNCHANGED <<vault, orphans, ipc, video, stray>>

\* PairDialog: a code of four is submitted; while that is out, it cannot close.
Submits ==
    /\ win.pairing # Nothing /\ ~win.waiting /\ entries[win.pairing].in
    /\ Pays("clicks")
    /\ ipc' = ipc \cup {Calls("pair", win.pairing, "waits")}
    /\ win' = [win EXCEPT !.waiting = TRUE]
    /\ UNCHANGED <<list, vault, entries, orphans, video, stray>>

ClosesDialog ==
    /\ win.pairing # Nothing /\ ~win.waiting
    /\ win' = [win EXCEPT !.pairing = Nothing]
    /\ UNCHANGED <<left, list, vault, entries, orphans, ipc, video, stray>>

\* Quit or killed, and started again: bootstrap connects every row that has a
\* session.  The registry's file may be gone; the id is derived from the host.
Restarts ==
    /\ Pays("faults")
    /\ list' \in ReadBack
    /\ entries' = [r \in Rows |->
                     IF r \in list'
                     THEN LET e == Fresh(r) IN [e EXCEPT !.started = e.held, !.stream = e.held]
                     ELSE NoClient]
    /\ orphans' = {}
    /\ ipc' = {Calls("connect", r, "me") : r \in list' \cap vault}
    /\ video' = [row |-> Nothing, at |-> "idle"]
    /\ win' = NewWindow
    /\ stray' = (stray \/ list' # list)
    /\ UNCHANGED vault

---------------------------------------------------------------------------
(* A video asks for its bytes. *)

\* serverForUrl: a server this machine holds a session for.
Vouches(r) == entries[r].in /\ entries[r].paired

\* onBeforeSendHeaders: of a row with a session, the request is held.
AsksForBytes(r) ==
    /\ video.at = "idle" /\ Pays("moves")
    /\ video' = [row |-> r, at |-> IF Vouches(r) THEN "held" ELSE "bare"]
    /\ UNCHANGED <<list, vault, entries, orphans, ipc, win, stray>>

HeldForGood == FALSE                \* mutant: a failed refresh calls nothing back

\* ensureFresh has no session to give, or has failed.
GoesBare == TRUE

\* callback: with the token, when there is no refresh to wait for.
SendsVideo ==
    /\ video.at = "held" /\ ~entries[video.row].asked
    /\ entries[video.row].held \/ GoesBare
    /\ video' = [video EXCEPT !.at = IF entries[video.row].held THEN "signed" ELSE "bare"]
    /\ UNCHANGED <<left, list, vault, entries, orphans, ipc, win, stray>>

VideoEnds ==
    /\ video.at \in {"signed", "bare"}
    /\ video' = [row |-> Nothing, at |-> "idle"]
    /\ UNCHANGED <<left, list, vault, entries, orphans, ipc, win, stray>>

---------------------------------------------------------------------------
Kinds == {"connect", "pair", "forget", "remove"}

CallEnds(c) == Connected(c) \/ Ended(c)

Hears == AnswersList \/ HearsAnswer \/ HearsPush

HubNext ==
    \/ Hears \/ Submits \/ ClosesDialog \/ Restarts
    \/ \E r \in Rows :
          \/ \E kind \in Kinds : ClicksRow(r, kind)
          \/ Adds(r) \/ AsksForBytes(r)
          \/ Refreshes(r) \/ Refreshed(r) \/ OrphanStores(r) \/ RefreshFails(r) \/ RowSignedOut(r) \/ DotMoves(r)
    \/ \E c \in ipc : CallEnds(c) \/ PairEnds(c) \/ PairFails(c)
    \/ SendsVideo \/ VideoEnds

---------------------------------------------------------------------------
(* Properties. *)

\* When no call is on its way, a row says that it is paired, its client holds the
\* session and the vault has it, all three or none; and what is in the vault belongs
\* to a row (ClientHub, SessionVault).  Except once a session has come late, for a
\* row that was signed out or removed meanwhile (session.ts:211, RemovedTakesAll), or
\* the file of the rows was lost: `stray'.
SessionsHaveRows ==
    \A r \in Rows : ipc = {} /\ ~entries[r].asked /\ ~stray =>
        /\ entries[r].in => (entries[r].paired <=> entries[r].held) /\ (r \in vault <=> entries[r].held)
        /\ r \in vault => r \in list
        /\ r \in list <=> entries[r].in

\* The window shows what the hub has, when nothing is on its way to it, unless
\* the list it first asked for came after a newer one, or a session came back
\* (bridge.tsx: "a patch stream is the usual way a UI ends up disagreeing with
\* the thing it describes").
RowsAreShown ==
    win.push = Nothing /\ win.answer = Nothing /\ ~win.asked /\ ~win.raced /\ ~stray /\ ipc = {}
        => win.rows = Summaries(entries)

\* No request of a video is held for ever (mediaAuth.ts: "Electron holds the
\* request until it does, so a throw here is not a failed request but a frozen
\* one").
VideoIsNeverFrozen == video.at = "held" ~> video.at # "held"

\* "takes only the removed server's session with it" (hub.test.ts): no session is
\* stored for a server that is not in the list.  (Not so: a refresh that was out when
\* the row was removed stores what it gets, and so does a pairing that is approved
\* then.)
RemovedTakesAll ==
    [][\A r \in Rows : r \in vault' => r \in vault \/ r \in list]_hubVars

\* bridge.tsx: "The server list, kept live."  (Not so: the answer to the first list()
\* may come after a newer list that was pushed.)
RowsAreLive ==
    win.push = Nothing /\ win.answer = Nothing /\ ~win.asked /\ ~stray /\ ipc = {}
        => win.rows = Summaries(entries)
=============================================================================
