------------------------------- MODULE Library -------------------------------
(***************************************************************************)
(* A shared folder of the server: what is on the disk, the `files` table   *)
(* the Indexer walks it into, the folder's row, and a device that lists    *)
(* the folder page by page while all of these change.                      *)
(*                                                                         *)
(* A path is a number, and numbers are the order of the names.  What is at *)
(* a path is its (size, mtime) and whether it is a directory: a kind.      *)
(***************************************************************************)
EXTENDS Naturals, FiniteSets

CONSTANTS
    Paths,          \* names below the shared folder, in the order of ASC
    Parent,         \* the directory of each path
    PageSize,       \* query.limit
    MaxChanges,     \* bound: changes on the disk
    MaxUnplugs,     \* bound: times the drive is taken out
    MaxPlays,       \* bound: films played
    MaxPasses,      \* bound: passes of the indexer
    MaxEvents       \* bound: all of these together

Root == 0
Top == {p \in Paths : Parent[p] = Root}

\* What the constants have to be: see FilesAssumption.
LibraryAssumption ==
    /\ Paths \subseteq Nat \ {Root} /\ IsFiniteSet(Paths) /\ Parent \in [Paths -> Paths \cup {Root}]
    /\ \A p \in Paths : Parent[p] < p       \* its path begins with its directory's
    /\ PageSize \in Nat \ {0}
    /\ MaxChanges \in Nat /\ MaxUnplugs \in Nat /\ MaxPlays \in Nat /\ MaxPasses \in Nat
    /\ MaxEvents \in Nat

VARIABLES
    disk,           \* what is at each path
    plugged,        \* the drive is there
    folder,         \* the row of shared_folders
    files,          \* the rows of `files`
    pass,           \* #inFlight: the pass that runs
    playing,        \* streams.count() > 0
    listing,        \* the device's listing
    spent           \* counters behind the bounds

vars == <<disk, plugged, folder, files, pass, playing, listing, spent>>

Kinds == {"none", "file", "changed", "dir"}
Nothing == [p \in Paths |-> "none"]
Present(tree) == {p \in Paths : tree[p] # "none"}

\* dirs: directories still to be read; walked: what the walk has seen;
\* existing: the rows as reconcile found them; todo: entries still to be
\* written; quiet (history): nothing has changed on the disk since the start.
NoPass == [at |-> "none", dirs |-> {}, walked |-> Nothing, existing |-> Nothing,
           todo |-> {}, quiet |-> TRUE]

\* cursor: the last entry of the last page; times: on how many pages each entry
\* was; steady (history): rows that were there, and of one kind, all the time.
NoListing == [at |-> "none", cursor |-> Root, cursorIsDir |-> FALSE,
              times |-> [p \in Paths |-> 0], steady |-> {}]

TypeOK ==
    /\ disk \in [Paths -> Kinds] /\ files \in [Paths -> Kinds]
    /\ plugged \in BOOLEAN /\ playing \in BOOLEAN
    /\ folder \in [shared: BOOLEAN, available: BOOLEAN, enabled: BOOLEAN]
    /\ pass \in [at: {"none", "walking", "writing"}, dirs: SUBSET (Paths \cup {Root}),
                 walked: [Paths -> Kinds], existing: [Paths -> Kinds],
                 todo: SUBSET Paths, quiet: BOOLEAN]
    /\ listing \in [at: {"none", "paging", "done", "refused"}, cursor: Paths \cup {Root},
                    cursorIsDir: BOOLEAN, times: [Paths -> Nat], steady: SUBSET Paths]

\* A folder that is shared and was indexed before, with all of its first paths.
Init ==
    /\ disk \in {[p \in Paths |-> IF p \in Top THEN IF p \in d THEN "dir" ELSE "file"
                                  ELSE "none"] : d \in SUBSET Top}
    /\ files = disk
    /\ plugged = TRUE /\ playing = FALSE
    /\ folder = [shared |-> TRUE, available |-> TRUE, enabled |-> TRUE]
    /\ pass = NoPass /\ listing = NoListing
    /\ spent = [changes |-> 0, unplugs |-> 0, plays |-> 0, passes |-> 0]

Spend(what, max) ==
    /\ spent[what] < max
    /\ spent.changes + spent.unplugs + spent.plays + spent.passes < MaxEvents
    /\ spent' = [spent EXCEPT ![what] = @ + 1]

---------------------------------------------------------------------------
(* The disk, and the films that are played from it. *)

Changed == pass' = [pass EXCEPT !.quiet = FALSE]

\* The path, and all that is in it when it is a directory.
Below(p) == {q \in Paths : \A S \in SUBSET Paths :
                p \in S /\ (\A r \in Paths : Parent[r] \in S => r \in S) => q \in S}

\* Something is written, replaced or removed; a directory goes with what is
\* in it.
DiskChanges(p) ==
    /\ plugged
    /\ Parent[p] # Root => disk[Parent[p]] = "dir"
    /\ Spend("changes", MaxChanges)
    /\ \E kind \in Kinds \ {disk[p]} :
           disk' = [q \in Paths |-> IF q = p THEN kind
                                    ELSE IF q \in Below(p) THEN "none" ELSE disk[q]]
    /\ Changed
    /\ UNCHANGED <<plugged, folder, files, playing, listing>>

Unplug ==
    /\ plugged
    /\ Spend("unplugs", MaxUnplugs)
    /\ plugged' = FALSE /\ Changed
    /\ UNCHANGED <<disk, folder, files, playing, listing>>

Plug ==
    /\ ~plugged
    /\ plugged' = TRUE /\ Changed
    /\ UNCHANGED <<disk, folder, files, playing, listing, spent>>

Play ==
    /\ ~playing
    /\ Spend("plays", MaxPlays)
    /\ playing' = TRUE
    /\ UNCHANGED <<disk, plugged, folder, files, pass, listing>>

\* The response is closed, or its source is (StreamMonitor.track).
PlayEnds ==
    /\ playing
    /\ playing' = FALSE
    /\ UNCHANGED <<disk, plugged, folder, files, pass, listing, spent>>

---------------------------------------------------------------------------
(* The operator. *)

\* PATCH /folders/:id
SetEnabled ==
    /\ folder.shared
    /\ folder' = [folder EXCEPT !.enabled = ~@]
    /\ UNCHANGED <<disk, plugged, files, pass, playing, listing, spent>>

\* What the device's listing can still count on after the rows changed.
Watching(rows) ==
    listing' = [listing EXCEPT !.steady =
                   {p \in @ : /\ rows[p] # "none"
                              /\ rows[p] = "dir" <=> files[p] = "dir"}]

\* DELETE /folders/:id, and the rows that go with the folder.
RemoveFolder ==
    /\ folder.shared
    /\ folder' = [folder EXCEPT !.shared = FALSE]
    /\ files' = Nothing /\ Watching(Nothing)
    /\ UNCHANGED <<disk, plugged, pass, playing, spent>>

---------------------------------------------------------------------------
(* The Indexer. *)

\* indexFolder, asked for by the operator or at the start.  Asked for again
\* while a pass runs, it is that pass.  A folder that is not there is marked
\* unavailable, and its rows are kept.
IndexFolder ==
    /\ folder.shared /\ pass.at = "none"
    /\ Spend("passes", MaxPasses)
    /\ \/ /\ plugged
          /\ pass' = [NoPass EXCEPT !.at = "walking", !.dirs = {Root}]
          /\ UNCHANGED folder
       \/ /\ ~plugged
          /\ folder' = [folder EXCEPT !.available = FALSE]
          /\ UNCHANGED pass
    /\ UNCHANGED <<disk, plugged, files, playing, listing>>

PassEnds == pass' = NoPass      \* .finally: nothing is in flight

\* A directory of the walk that is a file by now: reading it is ENOTDIR.
FileByNow(dir) == plugged /\ dir # Root /\ disk[dir] \in {"file", "changed"}

\* walk: one directory is read; what is not there any more is passed over.
ReadDir(dir) ==
    /\ pass.at = "walking" /\ dir \in pass.dirs /\ ~FileByNow(dir)
    /\ LET readable == plugged /\ (dir = Root \/ disk[dir] = "dir")
           found == {p \in Present(disk) : readable /\ Parent[p] = dir}
       IN pass' = [pass EXCEPT
                     !.dirs = (@ \ {dir}) \cup {p \in found : disk[p] = "dir"},
                     !.walked = [p \in Paths |-> IF p \in found THEN disk[p] ELSE @[p]]]
    /\ UNCHANGED <<disk, plugged, folder, files, playing, listing, spent>>

\* walk throws: the folder counts as unavailable, and nothing is written.
WalkFails(dir) ==
    /\ pass.at = "walking" /\ dir \in pass.dirs /\ FileByNow(dir)
    /\ PassEnds
    /\ folder' = IF folder.shared THEN [folder EXCEPT !.available = FALSE] ELSE folder
    /\ UNCHANGED <<disk, plugged, files, playing, listing, spent>>

\* reconcile begins: the rows as they are.
Reconcile ==
    /\ pass.at = "walking" /\ pass.dirs = {}
    /\ pass' = [pass EXCEPT !.at = "writing", !.existing = files,
                            !.todo = Present(pass.walked)]
    /\ UNCHANGED <<disk, plugged, folder, files, playing, listing, spent>>

InsertThrows == PassEnds        \* the folder the new row refers to is gone

\* applyBatch, one entry at a time (batchSize is a test seam) in the order of
\* the names, while nothing plays.  A row that is as the walk saw it is left
\* alone.  A row that is new needs its folder: without it the insert throws,
\* and the pass is over.
ApplyBatch(p) ==
    /\ pass.at = "writing" /\ ~playing
    /\ p \in pass.todo /\ \A q \in pass.todo : p <= q
    /\ LET prior == pass.existing[p]
           seen == pass.walked[p]
           written == [files EXCEPT ![p] = seen]
           rows == IF prior = seen \/ ~folder.shared THEN files ELSE written
       IN /\ files' = rows /\ Watching(rows)
          /\ IF prior = "none" /\ ~folder.shared THEN InsertThrows
             ELSE pass' = [pass EXCEPT !.todo = @ \ {p}]
    /\ UNCHANGED <<disk, plugged, folder, playing, spent>>

FinishKeepingAll ==             \* mutant: what has gone is not removed
    /\ pass.at = "writing" /\ pass.todo = {}
    /\ folder' = [folder EXCEPT !.available = TRUE]
    /\ PassEnds
    /\ UNCHANGED <<disk, plugged, files, playing, listing, spent>>

\* finish: rows that were not seen go, and the folder is available.
Finish ==
    /\ pass.at = "writing" /\ pass.todo = {}
    /\ LET gone == Present(pass.existing) \ Present(pass.walked)
           rows == [p \in Paths |-> IF p \in gone THEN "none" ELSE files[p]]
       IN files' = rows /\ Watching(rows)
    /\ folder' = IF folder.shared THEN [folder EXCEPT !.available = TRUE] ELSE folder
    /\ PassEnds
    /\ UNCHANGED <<disk, plugged, playing, spent>>

---------------------------------------------------------------------------
(* GET /folders/:id/entries, page after page. *)

IsDir(p) == files[p] = "dir"

\* ORDER BY is_dir DESC, name ASC
Before(p, q) == IF IsDir(p) <=> IsDir(q) THEN p < q ELSE IsDir(p)

AfterName(p) == listing.cursor = Root \/ p > listing.cursor     \* mutant: name > ?

\* The rows after the cursor.
After(p) ==
    \/ listing.cursor = Root
    \/ listing.cursorIsDir /\ ~IsDir(p)
    \/ (listing.cursorIsDir <=> IsDir(p)) /\ p > listing.cursor

Rows == {p \in Top : p \in Present(files) /\ After(p)}

\* rows.slice(0, query.limit)
Page == {p \in Rows : Cardinality({q \in Rows : Before(q, p)}) < PageSize}

\* The permission and the folder are asked about for every page.
ListPage ==
    /\ listing.at \in {"none", "paging"}
    /\ \/ /\ ~(folder.shared /\ folder.enabled)
          /\ listing' = [listing EXCEPT !.at = "refused"]
       \/ /\ folder.shared /\ folder.enabled
          /\ \E last \in Page \cup {Root} :
                /\ IF Page = {} THEN last = Root
                   ELSE last \in Page /\ \A p \in Page : p = last \/ Before(p, last)
                /\ listing' =
                     [at |-> IF Page = Rows THEN "done" ELSE "paging",
                      cursor |-> IF last = Root THEN listing.cursor ELSE last,
                      cursorIsDir |-> IF last = Root THEN listing.cursorIsDir ELSE IsDir(last),
                      times |-> [p \in Paths |-> listing.times[p] + IF p \in Page THEN 1 ELSE 0],
                      steady |-> IF listing.at = "none" THEN Present(files) ELSE listing.steady]
    /\ UNCHANGED <<disk, plugged, folder, files, pass, playing, spent>>

---------------------------------------------------------------------------
Next ==
    \/ \E p \in Paths : DiskChanges(p) \/ ApplyBatch(p)
    \/ Unplug \/ Plug \/ Play \/ PlayEnds
    \/ SetEnabled \/ RemoveFolder
    \/ IndexFolder \/ Reconcile \/ Finish
    \/ \E dir \in Paths \cup {Root} : ReadDir(dir) \/ WalkFails(dir)
    \/ ListPage

\* The pass runs on, and films end.
Fairness ==
    /\ \A p \in Paths : WF_vars(ApplyBatch(p))
    /\ \A dir \in Paths \cup {Root} : WF_vars(ReadDir(dir) \/ WalkFails(dir))
    /\ WF_vars(Reconcile) /\ WF_vars(Finish) /\ WF_vars(PlayEnds)

Spec == Init /\ [][Next]_vars /\ Fairness

---------------------------------------------------------------------------
(* Properties. *)

\* A listing that reached its end holds every entry that was there all along,
\* once, however many rows the indexer wrote and removed between two pages:
\* "keyset, not offset" (encodeCursor, GET /folders/:id/entries).
ListingIsWhole ==
    listing.at = "done" => \A p \in listing.steady \cap Top : listing.times[p] = 1

\* A pass during which nothing changed on the disk leaves the table as the
\* disk is, whatever the table was, and however often it was paused
\* (reconcile).
IndexIsTheDisk ==
    [][pass.at = "writing" /\ pass'.at = "none" /\ pass.quiet /\ folder.shared
           => files' = disk]_vars

\* A pass comes to its end: it is paused while something plays, never for
\* good, and a folder that is removed under it does not leave it in flight
\* (indexFolder, shouldPause).
EveryPassEnds == pass.at # "none" ~> pass.at = "none"

\* A drive that is taken out costs no row: "an unplugged drive marks the
\* folder unavailable and keeps every row" (indexer.ts:137).  (Not so of one taken
\* out during the walk: its directories are gone one by one, and their rows go.)
UnpluggedKeepsRows ==
    [][~plugged /\ folder.shared /\ folder'.shared => Present(files) \subseteq Present(files')]_vars
=============================================================================
