---------------------------------- MODULE Window ----------------------------------
(***************************************************************************)
(* The desktop client's window beside its servers' screen: the library     *)
(* (LibraryScreen), the player (PlayerScreen), the way between the three   *)
(* (App), and the uploads that a library starts (UploadManager).  A render *)
(* and the effects it sets off are part of the action they follow; the     *)
(* answer to what an effect asked for is an action of its own.             *)
(***************************************************************************)
EXTENDS Hub

CONSTANTS
    Places,         \* a shared folder, or a directory in one
    FolderOf,       \* the folder that a place is in
    FullMode,       \* the folders of mode full, that are written to as well
    Words,          \* what may be searched for
    UploadIds,      \* files that may be uploaded
    Chunks          \* the length of a file, in chunks

ASSUME PlacesAssumption == /\ FolderOf \in [Places -> Places] /\ FullMode \subseteq Places
                           /\ Nothing \notin Places /\ Chunks \in Nat \ {0}

VARIABLES
    where,          \* route: the screen, its server, and the film of the player
    page,            \* the state of LibraryScreen
    asks,           \* requests of the effects that are out; live: not cleaned up
    uploads         \* #jobs, and what the window's row says of each

windowVars == <<where, page, asks, uploads>>

NoWord  == "no word"
NoRows  == [of |-> Nothing, word |-> NoWord]        \* entries, by what they answer

\* behind: history, the selection could not be listed and `folder` is an older one.
NewLibrary == [sel |-> Nothing, folder |-> Nothing, rows |-> NoRows, query |-> NoWord,
               loading |-> TRUE, searching |-> FALSE, error |-> FALSE, behind |-> FALSE]

Ask(kind, place, word) == [kind |-> kind, place |-> place, word |-> word, live |-> TRUE]

AtServers == [at |-> "servers", row |-> Nothing, film |-> Nothing, folder |-> Nothing,
              playable |-> FALSE, dav |-> Nothing, media |-> Nothing, refused |-> FALSE]

NoUpload == [at |-> "none", folder |-> Nothing, sent |-> 0, shown |-> "none"]

WindowInit(place) ==
    /\ where = [AtServers EXCEPT !.at = place]
    /\ page = NewLibrary /\ asks = {}
    /\ uploads = [u \in UploadIds |-> NoUpload]

\* Only the window moves.
Still == UNCHANGED <<list, vault, entries, orphans, ipc, video, win, stray>>

---------------------------------------------------------------------------
(* The route. *)

\* LibraryScreen is mounted: its folders are asked for, its rows start empty.
EntersLibrary(r) ==
    /\ where' = [AtServers EXCEPT !.at = "library", !.row = r]
    /\ page' = NewLibrary
    /\ asks' = {Ask("folders", Nothing, NoWord)}
    /\ uploads' = [u \in UploadIds |-> [uploads[u] EXCEPT !.shown = "none"]]

OpensServer(r) ==
    /\ where.at = "servers" /\ NoDialog /\ win.rows[r] = "paired" /\ Pays("clicks")
    /\ EntersLibrary(r) /\ Still

\* Unmounted, nothing that was asked for is heard any more.
LeavesForServers ==
    /\ where' = AtServers /\ page' = NewLibrary /\ asks' = {}
    /\ win' = Remounts(win)
    /\ UNCHANGED <<list, vault, entries, orphans, ipc, video, stray, uploads>>

BackToServers == where.at = "library" /\ Pays("clicks") /\ LeavesForServers

\* The effect of App: the server of the screen is no longer in the list.
SentBack ==
    /\ where.at # "servers" /\ win.rows[where.row] = "none"
    /\ LeavesForServers /\ UNCHANGED left

---------------------------------------------------------------------------
(* LibraryScreen. *)

\* The effects that hang on selection and query are cleaned up, and run again:
\* an answer that is out is stale, a timer is cleared.
Lists(place, word, out) ==
    LET stale == {[a EXCEPT !.live = a.kind = "folders"] : a \in {x \in out : x.kind # "timer"}}
        at    == [page EXCEPT !.sel = place, !.query = word, !.searching = word # NoWord]
    IN CASE word # NoWord    -> page' = at /\ asks' = stale \cup {Ask("timer", place, word)}
         [] word = NoWord /\ place = Nothing -> page' = at /\ asks' = stale
         [] OTHER -> /\ page' = [at EXCEPT !.loading = TRUE, !.error = FALSE]
                     /\ asks' = stale \cup {Ask("list", place, NoWord)}

\* FolderTree, a directory among the entries, and one level up.
Selects(p) ==
    /\ where.at = "library" /\ page.sel # Nothing /\ Pays("clicks")
    /\ Lists(p, NoWord, asks)
    /\ Still /\ UNCHANGED <<where, uploads>>

Types(word) ==
    /\ where.at = "library" /\ word # page.query /\ Pays("clicks")
    /\ Lists(page.sel, word, asks)
    /\ Still /\ UNCHANGED <<where, uploads>>

\* 250 ms after the last letter.
TimerFires(a) ==
    /\ a.kind = "timer"
    /\ asks' = (asks \ {a}) \cup {Ask("search", a.place, a.word)}
    /\ Still /\ UNCHANGED <<left, where, page, uploads>>

\* mutant: an effect does not look whether it was cleaned up
HeedsAll(a) == TRUE

Heeds(a) == a.live

\* setFolders and setSelection: the first that is there, if any.
FoldersCome(a) ==
    /\ a.kind = "folders"
    /\ \/ page' = [page EXCEPT !.loading = FALSE] /\ asks' = asks \ {a}
       \/ \E f \in {FolderOf[p] : p \in Places} : Lists(f, page.query, asks \ {a})
    /\ UNCHANGED where

\* The entries of the selection, with the folder they are in; the results of a
\* search leave `loading` and `folder` as they are.
RowsCome(a) ==
    /\ a.kind \in {"list", "search"}
    /\ page' = IF ~Heeds(a) THEN page
              ELSE IF a.kind = "list"
              THEN [page EXCEPT !.folder = FolderOf[a.place], !.loading = FALSE, !.behind = FALSE,
                               !.rows = [of |-> a.place, word |-> NoWord]]
              ELSE [page EXCEPT !.error = FALSE, !.rows = [of |-> a.place, word |-> a.word]]
    /\ asks' = asks \ {a}
    /\ UNCHANGED where

\* A request of the library fails: a listing leaves no rows, a search the old ones.
LibraryFails(a) ==
    /\ a.kind \in {"folders", "list", "search"} /\ Pays("faults")
    /\ page' = IF ~Heeds(a) THEN page
              ELSE CASE a.kind = "folders" -> [page EXCEPT !.error = TRUE, !.loading = FALSE]
                     [] a.kind = "list"    -> [page EXCEPT !.error = TRUE, !.loading = FALSE,
                                                          !.rows = NoRows, !.behind = TRUE]
                     [] a.kind = "search"  -> [page EXCEPT !.error = TRUE]
    /\ asks' = asks \ {a}
    /\ Still /\ UNCHANGED <<where, uploads>>

---------------------------------------------------------------------------
(* PlayerScreen. *)

\* A film of the rows, with the folder of the last listing; the effects ask for
\* both its addresses, or for the one of the player outside.
OpensFilm(playable) ==
    /\ where.at = "library" /\ ~page.loading /\ ~page.error
    /\ page.rows.of # Nothing /\ page.folder # Nothing /\ Pays("clicks")
    /\ where' = [where EXCEPT !.at = "player", !.film = page.rows.of, !.folder = page.folder,
                              !.playable = playable]
    /\ asks' = {Ask("dav", page.folder, NoWord)}
                  \cup (IF playable THEN {Ask("media", page.rows.of, NoWord)} ELSE {})
    /\ Still /\ UNCHANGED <<page, uploads>>

AddressComes(a) ==
    /\ a.kind \in {"dav", "media"} /\ Heeds(a)
    /\ where' = IF a.kind = "dav" THEN [where EXCEPT !.dav = a.place]
                                  ELSE [where EXCEPT !.media = a.place]
    /\ asks' = asks \ {a}
    /\ UNCHANGED page

\* Without an address the player gives up on the film; and so it does when its
\* engine cannot read it (onError, play()).
PlayerFails(a) ==
    /\ a.kind \in {"dav", "media"} /\ Pays("faults")
    /\ where' = [where EXCEPT !.refused = @ \/ a.kind = "media"]
    /\ asks' = asks \ {a}
    /\ Still /\ UNCHANGED <<page, uploads>>

EngineRefuses ==
    /\ where.at = "player" /\ where.media # Nothing /\ ~where.refused /\ Pays("faults")
    /\ where' = [where EXCEPT !.refused = TRUE]
    /\ Still /\ UNCHANGED <<page, asks, uploads>>

BackToLibrary ==
    /\ where.at = "player" /\ Pays("clicks")
    /\ EntersLibrary(where.row) /\ Still

Arrives(a) ==
    \/ TimerFires(a)
    \/ /\ FoldersCome(a) \/ RowsCome(a) \/ AddressComes(a)
       /\ Still /\ UNCHANGED <<left, uploads>>

---------------------------------------------------------------------------
(* UploadManager: one file each.  The dialog that picks it is modal to the  *)
(* window, and the folder was read before it opened.                        *)

CanUpload == where.at = "library" /\ page.folder \in FullMode

Upload(u, job) ==
    /\ uploads' = [uploads EXCEPT ![u] = job]
    /\ Still /\ UNCHANGED <<where, page, asks>>

StartsUpload(u) ==
    /\ CanUpload /\ uploads[u].at = "none" /\ Pays("clicks")
    /\ \E at \in {"uploading", "error"} :                   \* error: the file is gone
          Upload(u, [NoUpload EXCEPT !.at = at, !.folder = page.folder])

\* One turn of the loop of #send: the server has counted the chunk.
Sends(u) ==
    /\ uploads[u].at = "uploading" /\ uploads[u].sent < Chunks
    /\ Upload(u, [uploads[u] EXCEPT !.sent = @ + 1]) /\ UNCHANGED left

\* The handle is closed.  A cancel that came while it was is not heard: the file
\* is on the server.
FileSent(u) ==
    /\ uploads[u].at \in {"uploading", "stopping"} /\ uploads[u].sent = Chunks
    /\ Upload(u, [uploads[u] EXCEPT !.at = "done"]) /\ UNCHANGED left

\* It has not counted it: the same bytes are not sent again; or the request failed.
NotCounted(u) ==
    /\ uploads[u].at = "uploading" /\ Pays("faults")
    /\ Upload(u, [uploads[u] EXCEPT !.at = "error"])

UploadShown(u) ==
    /\ where.at = "library" /\ uploads[u].shown # uploads[u].at
    /\ Upload(u, [uploads[u] EXCEPT !.shown = uploads[u].at]) /\ UNCHANGED left

\* TransferQueue offers it of a row that it shows as under way.  One that runs is
\* aborted; any other is only marked.
CancelsUpload(u) ==
    /\ where.at = "library" /\ uploads[u].shown = "uploading" /\ Pays("clicks")
    /\ Upload(u, [uploads[u] EXCEPT !.at = IF @ = "uploading" THEN "stopping" ELSE "cancelled"])

UploadStops(u) ==
    /\ uploads[u].at = "stopping" /\ uploads[u].sent < Chunks
    /\ Upload(u, [uploads[u] EXCEPT !.at = "cancelled"]) /\ UNCHANGED left

---------------------------------------------------------------------------
WindowNext ==
    \/ BackToServers \/ SentBack \/ EngineRefuses \/ BackToLibrary
    \/ \E r \in Rows : OpensServer(r)
    \/ \E p \in Places : Selects(p)
    \/ \E word \in Words \cup {NoWord} : Types(word)
    \/ \E playable \in BOOLEAN : OpensFilm(playable)
    \/ \E a \in asks : Arrives(a) \/ LibraryFails(a) \/ PlayerFails(a)
    \/ \E u \in UploadIds : \/ StartsUpload(u) \/ Sends(u) \/ NotCounted(u) \/ UploadShown(u)
                            \/ CancelsUpload(u) \/ UploadStops(u) \/ FileSent(u)

---------------------------------------------------------------------------
(* Properties. *)

\* The rows on the screen are those of the place and the word on the screen,
\* whatever answers came late, and their folder is the one of the place
\* (LibraryScreen's `live`).
ListingIsTheSelection ==
    where.at = "library" /\ page.sel # Nothing /\ ~page.loading /\ ~page.error
        /\ (\A a \in asks : ~a.live)
    => /\ page.rows = [of |-> page.sel, word |-> page.query]
       /\ page.folder = FolderOf[page.sel] \/ page.behind

\* The player's address for another player is that of the film, unless its
\* folder could not be listed; and a film for which nothing is out can be
\* played here or is offered to another player (PlayerScreen: "the handoff
\* button has to be ready the moment the engine gives up").
HandoffIsTheFilm ==
    where.at = "player" =>
        /\ where.folder = FolderOf[where.film] \/ page.behind
        /\ where.dav \in {Nothing, where.folder} /\ where.media \in {Nothing, where.film}
        /\ asks = {} => where.media # Nothing \/ where.refused \/ ~where.playable

WindowHolds == ListingIsTheSelection /\ HandoffIsTheFilm

\* What the window waits for ends: a listing, unless a word is typed meanwhile;
\* and an upload, which does not send the same bytes for ever (uploads.ts: "at
\* the speed of the link").
NothingSpinsOn ==
    /\ (where.at = "library" /\ page.loading /\ page.query = NoWord)
          ~> (where.at # "library" \/ ~page.loading \/ page.query # NoWord)
    /\ \A u \in UploadIds : uploads[u].at = "uploading" ~> uploads[u].at # "uploading"
=============================================================================
