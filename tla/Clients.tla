--------------------------------- MODULE Clients ---------------------------------
(***************************************************************************)
(* The two client applications: the phone's (Phone), and the desktop's     *)
(* servers and window (Hub, Window; its queue is Downloads).  In a         *)
(* scenario one of them moves; the window moves among the servers it       *)
(* shows.                                                                  *)
(***************************************************************************)
EXTENDS Phone, Window

VARIABLES
    moving          \* bound: what moves in this scenario

clientVars == <<moving, phoneVars, hubVars, windowVars>>

OnPhone == moving = "phone" /\ PhoneNext /\ UNCHANGED <<moving, hubVars, windowVars>>
OnHub   == moving = "hub" /\ HubNext /\ UNCHANGED <<moving, phoneVars, windowVars>>

\* The servers' screen is the one that is there, where the window moves.
WindowMoves == \/ WindowNext
         \/ /\ \/ Hears
               \/ \E r \in Rows : \/ RowSignedOut(r)
                                  \/ where.at = "servers" /\ ClicksRow(r, "remove")
               \/ \E c \in ipc : CallEnds(c)
            /\ UNCHANGED windowVars

OnWindow == moving = "window" /\ WindowMoves /\ UNCHANGED <<moving, phoneVars>>

ClientsNext == OnPhone \/ OnHub \/ OnWindow

Rests == UNCHANGED <<moving, phoneVars, windowVars>>
Keeps == UNCHANGED <<moving, phoneVars, list, vault, entries, orphans, ipc, video, win, stray>>

\* The desktop's requests are answered, or time out; what the effects of its
\* window have asked for comes.
ClientsFair ==
    /\ WF_clientVars(moving = "hub" /\ (\E r \in Rows : Refreshed(r)) /\ Rests)
    /\ WF_clientVars(moving = "hub" /\ SendsVideo /\ Rests)
    /\ WF_clientVars(moving = "window" /\ (\E a \in asks : Arrives(a)) /\ Keeps)
    /\ \A u \in UploadIds :
          WF_clientVars(moving = "window" /\ (Sends(u) \/ NotCounted(u) \/ FileSent(u)) /\ Keeps)

---------------------------------------------------------------------------
(* What the runs check of the desktop client. *)

\* A session belongs to a row and a row is shown as the hub has it; what the
\* screens show and play is what was chosen (ClientHub, bridge.tsx,
\* LibraryScreen, PlayerScreen).
DesktopHolds == SessionsHaveRows /\ RowsAreShown /\ WindowHolds

\* Nothing the window waits for is waited for for ever: a video's request, a
\* listing, an upload (mediaAuth.ts, LibraryScreen, uploads.ts).
DesktopGoesOn == VideoIsNeverFrozen /\ NothingSpinsOn

---------------------------------------------------------------------------
(* Instances of Clients for TLC. *)

\* The phone, one part at a time: the origins, the dot and the list; a folder's
\* pages; the player and its tokens; the shell; the pairing screen, with a link
\* and without.
Base == [session |-> 3, alts |-> <<>>, cache |-> [v |-> 1, at |-> 0], link |-> FALSE,
         route |-> "library", up |-> {1}, may |-> {},
         budget |-> [user |-> 2, faults |-> 0, ticks |-> 0]]

Some ==
    { [Base EXCEPT !.route = "servers", !.may = {"offline", "move"},
                   !.budget = [user |-> 1, faults |-> 2, ticks |-> 0]],
      [Base EXCEPT !.alts = <<2>>, !.up = {2}, !.may = {"move", "edge"},
                   !.budget = [user |-> 1, faults |-> 3, ticks |-> 1]],
      [Base EXCEPT !.may = {"change", "library", "offline"},
                   !.budget = [user |-> 2, faults |-> 1, ticks |-> 1]],
      [Base EXCEPT !.may = {"move", "offline", "library"}, !.up = {},
                   !.budget = [user |-> 1, faults |-> 2, ticks |-> 2]],
      [Base EXCEPT !.session = 2, !.may = {"change", "close"},
                   !.budget = [user |-> 2, faults |-> 1, ticks |-> 0]],
      [Base EXCEPT !.may = {"folder"}, !.route = "folder",
                   !.budget = [user |-> 2, faults |-> 1, ticks |-> 0]],
      [Base EXCEPT !.session = 1, !.route = "play",
                   !.budget = [user |-> 3, faults |-> 1, ticks |-> 0]],
      [Base EXCEPT !.route = "offline", !.may = {"shell"},
                   !.budget = [user |-> 3, faults |-> 1, ticks |-> 0]],
      [Base EXCEPT !.session = 0, !.cache = [v |-> 0, at |-> 0],
                   !.budget = [user |-> 2, faults |-> 1, ticks |-> 0]],
      [Base EXCEPT !.session = 0, !.cache = [v |-> 0, at |-> 0], !.link = TRUE,
                   !.budget = [user |-> 2, faults |-> 1, ticks |-> 0]] }

\* A phone on which nothing happens: it waits for a code.
StillPhone ==
    /\ ReachInit(0, <<>>, {1}, [user |-> 0, faults |-> 0, ticks |-> 0])
    /\ ShelfInit([v |-> 0, at |-> 0]) /\ WorkerInit(0) /\ PairInit(FALSE)
    /\ ready = TRUE /\ leaving = FALSE /\ route = "pair" /\ may = {} /\ player = NoPlayer

\* Two folders, the first full and with a directory in it.
PlaceFolder == [p \in Places |-> IF p = "b" THEN "b" ELSE "a"]

Budget(c, f, m) == left = [clicks |-> c, faults |-> f, moves |-> m]

\* A server that is paired and connected.
Connected1 == [NoClient EXCEPT !.in = TRUE, !.held = TRUE, !.paired = TRUE,
                               !.started = TRUE, !.stream = TRUE, !.conn = "connected"]

ASSUME RowAssumption == "s1" \in Rows

DesktopScenario ==
    /\ StillPhone /\ WindowInit("servers")
    /\ \/ /\ moving = "hub"
          /\ \/ Budget(4, 0, 0) /\ Started({}, {})
             \/ Budget(2, 1, 2) /\ \E v \in SUBSET {"s1"} : Started(Rows, v)
       \/ /\ moving = "window" /\ (Budget(4, 1, 0) \/ Budget(5, 0, 0) \/ Budget(4, 0, 3))
          /\ list = {"s1"} /\ vault = {"s1"} /\ stray = FALSE /\ orphans = {} /\ ipc = {}
          /\ entries = [r \in Rows |-> IF r = "s1" THEN Connected1 ELSE NoClient]
          /\ video = [row |-> Nothing, at |-> "idle"] /\ win = NewWindow

MCInit ==
    \/ /\ moving = "phone" /\ PhoneInit
       /\ Budget(0, 0, 0) /\ Started({}, {}) /\ WindowInit("servers")
    \/ DesktopScenario

ClientsSpec == MCInit /\ [][ClientsNext]_clientVars /\ Fairness /\ ClientsFair
=============================================================================
