------------------------------ MODULE ClientsProofs ------------------------------
(***************************************************************************)
(* Proofs about the client applications: what the phone shows and asks for *)
(* (PhoneHolds), and what the desktop client's window shows of its servers *)
(* and plays (DesktopHolds), in every run of Clients, for every value of   *)
(* the constants.  A chapter each for the phone's list, a folder's pages,  *)
(* the worker's tokens, the camera, the claims, the hub and the window.    *)
(***************************************************************************)
EXTENDS Clients, SequenceTheorems, TLAPS

---------------------------------------------------------------------------
(* The inductive invariants. *)

\* The list: what every load works with are versions and moments.
Loading == [at : {"none", "reads", "fetches", "writes"}, v : Nat]
Screens == [v : Nat, stale : BOOLEAN, error : BOOLEAN, loading : BOOLEAN, age : Int]

ListTypes ==
    /\ now \in Nat
    /\ cache \in [v : Nat, at : Nat]
    /\ lib \in [v : Nat, seen : BOOLEAN]
    /\ load \in Loading
    /\ late \in Nat
    /\ screen \in Screens

ListInv == ListTypes /\ HonestListing

\* The pages: the folders a list may be of.
AnyKey == Keys \cup {0, 1}

PageList == [key : AnyKey, rows : Seq([key : AnyKey, page : Nat]), cursor : Nat,
             complete : BOOLEAN, loading : BOOLEAN, more : BOOLEAN, overtaken : BOOLEAN]

PageTypes ==
    /\ pages \in PageList
    /\ calls \subseteq [kind : {"first", "more"}, key : AnyKey, page : Nat]

\* What is out is the effect's request of this folder, once, and one loadMore, of
\* which the flag says that it is out.
CallsInv ==
    /\ \A c \in calls : c.kind = "first" => c.key = pages.key /\ c.page = 1
    /\ \A c \in calls : c.kind = "more" => pages.more
    /\ \A c, d \in calls : c.kind = d.kind => c = d

\* In a list that was not overtaken, the cursor is the next page, and the request
\* that is out is of this folder and this cursor.
CursorInv ==
    ~pages.overtaken =>
        /\ pages.cursor \in {0, Len(pages.rows) + 1}
        /\ \A c \in calls : c.kind = "first" => pages.rows = <<>> /\ pages.cursor = 0
        /\ \A c \in calls : c.kind = "more" =>
              c.key = pages.key /\ c.page = pages.cursor /\ c.page # 0

PagesInv == PageTypes /\ CallsInv /\ CursorInv /\ PagesInOrder

\* The worker: no token is newer than the session's, while there is one.
Requested == [at : {"idle", "asked", "waits", "sent", "waits again", "sent again", "played", "refused"},
              token : 0..MaxTokens, known : BOOLEAN]

TokenTypes ==
    /\ session \in 0..MaxTokens /\ expired \in 0..MaxTokens /\ memo \in 0..None
    /\ reading \in [out : BOOLEAN, seen : 0..None]
    /\ media \in [Seeks -> Requested]

TokensInv ==
    /\ session # 0 =>
          /\ memo # None => memo <= session
          /\ reading.seen # None => reading.seen <= session
          /\ \A s \in Seeks : media[s].token <= session
    /\ ~reading.out => reading.seen = None

\* A request that is known to have a good token in the store waits for a read that
\* began after its own was refused, and goes on with what that read sees.
GoesOnWell(m) ==
    m.known =>
        /\ m.at \in {"waits again", "sent again", "played"}
        /\ m.at = "waits again" =>
              /\ m.token <= expired /\ expired < session /\ reading.out
              /\ reading.seen # None => expired < reading.seen
        /\ m.at = "sent again" => Good(m.token)

WorkerInv == TokenTypes /\ TokensInv /\ (\A s \in Seeks : GoesOnWell(media[s]))

\* The camera, of each run of the scanner's effect.
CamRun == [live : BOOLEAN, at : {"none", "asks", "plays"}, lit : BOOLEAN, timer : BOOLEAN]

CamInv ==
    /\ cam \in [Effects -> CamRun]
    /\ CameraIsOff

\* The claims: one, of a phone without a session, and the screen waits for it; a
\* link is of a phone without a session; and the pairing screen has its address.
Claims == [how : {"scan", "link", "manual"}, at : {"claims", "waits"}]

ClaimInv ==
    /\ claims \in Seq(Claims)
    /\ OneClaim
    /\ claims # <<>> => phase \in {"claiming", "waiting"} /\ session = 0
    /\ link => session = 0
    /\ phase # "off" => route = "pair"

PhoneInv == ListInv /\ PagesInv /\ WorkerInv /\ CamInv /\ ClaimInv

\* The hub.
Says == {"none", "needs-pairing", "paired", "offline"}

Client == [in : BOOLEAN, held : BOOLEAN, paired : BOOLEAN, started : BOOLEAN, stream : BOOLEAN,
           asked : BOOLEAN, conn : {"connected", "connecting", "offline"}]

Shown == [Rows -> Says]

ServersScreen ==
    [rows : Shown, answer : Shown \cup {Nothing}, push : Shown \cup {Nothing}, asked : BOOLEAN,
     raced : BOOLEAN, busy : Rows \cup {Nothing}, pairing : Rows \cup {Nothing}, waiting : BOOLEAN]

Called == [kind : Kinds, row : Rows, at : {"me", "waits", "stop"}]

HubTypes ==
    /\ ipc \subseteq Called
    /\ win \in ServersScreen

\* A row's client is there when the row is, and says that it is paired when it
\* holds a session; the vault has it, too, unless it came back.
RowInv(r) ==
    /\ r \in list <=> entries[r].in
    /\ entries[r].paired <=> entries[r].held
    /\ entries[r].held => entries[r].in
    /\ entries[r].stream => entries[r].in
    /\ entries[r].asked => entries[r].in
    /\ ~stray => (r \in vault <=> entries[r].held)

\* While no call that changes a row is out, what is on its way to the window is
\* what the hub has, and if nothing is, it has come.
Quiet == \A c \in ipc : c.kind = "pair"

WayInv ==
    ~stray /\ Quiet =>
        /\ win.push # Nothing => win.push = Summaries(entries)
        /\ ~win.raced /\ win.answer # Nothing => win.answer = Summaries(entries)
        /\ ~win.raced /\ ~win.asked /\ win.push = Nothing /\ win.answer = Nothing
              => win.rows = Summaries(entries)

RowsHold == entries \in [Rows -> Client] /\ list \subseteq Rows /\ \A r \in Rows : RowInv(r)

HubInv == RowsHold /\ HubTypes /\ WayInv

\* The window.
SomePlace == Places \cup {Nothing}
AnyWord   == Words \cup {NoWord}

Route == [at : {"servers", "library", "player"}, row : Rows \cup {Nothing},
          film : SomePlace, folder : SomePlace, playable : BOOLEAN,
          dav : SomePlace, media : SomePlace, refused : BOOLEAN]

Library == [sel : SomePlace, folder : SomePlace, rows : [of : SomePlace, word : AnyWord],
            query : AnyWord, loading : BOOLEAN, searching : BOOLEAN, error : BOOLEAN,
            behind : BOOLEAN]

Asked == [kind : {"folders", "list", "search", "timer", "dav", "media"},
          place : SomePlace, word : AnyWord, live : BOOLEAN]

WindowTypes == where \in Route /\ page \in Library /\ asks \subseteq Asked

\* What a library has out: its folders, until one is selected; and of what is not
\* cleaned up, only requests of the selection and the word.
LibraryAsk(a) ==
    /\ a.kind \in {"folders", "list", "search", "timer"}
    /\ a.kind = "folders" => a = Ask("folders", Nothing, NoWord) /\ page.sel = Nothing /\ page.loading
    /\ a.kind = "timer" => a.live
    /\ a.live /\ a.kind # "folders" => a.place = page.sel /\ a.word = page.query
    /\ a.live /\ a.kind = "list" => a.word = NoWord /\ a.place # Nothing

\* The rows are of the selection as soon as nothing loads, and of the word, too,
\* when nothing is out; and the folder is the one of the selection.
RowsInv ==
    /\ page.sel = Nothing => page.rows.of = Nothing
    /\ ~page.loading => page.rows.of \in {Nothing, page.sel}
    /\ page.sel # Nothing /\ ~page.loading => page.folder = FolderOf[page.sel] \/ page.behind
    /\ page.sel # Nothing /\ ~page.error /\ (\A a \in asks : ~a.live)
          => page.rows = [of |-> page.sel, word |-> page.query]

LibraryInv ==
    /\ where.dav = Nothing /\ where.media = Nothing
    /\ \A a \in asks : LibraryAsk(a)
    /\ RowsInv

\* What the player has out are the film's addresses: the one it plays from until it
\* comes or fails.
PlayerAsk(a) == \/ a.kind = "dav" /\ a.place = where.folder
                \/ a.kind = "media" /\ a.place = where.film

PlayerInv ==
    /\ \A a \in asks : PlayerAsk(a)
    /\ where.film # Nothing
    /\ where.folder = FolderOf[where.film] \/ page.behind
    /\ where.dav \in {Nothing, where.folder} /\ where.media \in {Nothing, where.film}
    /\ where.playable /\ where.media = Nothing /\ ~where.refused
          => \E a \in asks : a.kind = "media"

WindowInv ==
    /\ WindowTypes
    /\ where.at = "servers" => asks = {}
    /\ where.at = "library" => LibraryInv
    /\ where.at = "player" => PlayerInv

DesktopInv == HubInv /\ WindowInv

---------------------------------------------------------------------------
(* The phone's list. *)

\* What useAsync shows of an answer is as old as it says.
LEMMA ShownIsHonest ==
    ASSUME NEW v \in Nat, NEW old \in BOOLEAN, NEW age \in Int, Shows(v, old, age),
           v # 0 => IF old THEN age <= MaxStale ELSE age < Ttl
    PROVE  screen' \in Screens /\ HonestListing'
BY DEF Shows, Screens, HonestListing

\* A list that shows nothing.
LEMMA NothingShown ==
    ASSUME NEW error \in BOOLEAN, NEW loading \in BOOLEAN,
           screen' = [v |-> 0, stale |-> FALSE, error |-> error, loading |-> loading, age |-> 0]
    PROVE  screen' \in Screens /\ HonestListing'
BY DEF Screens, HonestListing

LEMMA EmptyShown ==
    /\ screen' = EmptyList => screen' \in Screens /\ HonestListing'
    /\ screen' = [EmptyList EXCEPT !.loading = TRUE] => screen' \in Screens /\ HonestListing'
    /\ screen' = [EmptyList EXCEPT !.error = TRUE] => screen' \in Screens /\ HonestListing'
<1>1. /\ [EmptyList EXCEPT !.loading = TRUE]
            = [v |-> 0, stale |-> FALSE, error |-> FALSE, loading |-> TRUE, age |-> 0]
      /\ [EmptyList EXCEPT !.error = TRUE]
            = [v |-> 0, stale |-> FALSE, error |-> TRUE, loading |-> FALSE, age |-> 0]
  <2>1. PICK yes, no : yes = TRUE /\ no = FALSE  OBVIOUS
  <2>2. EmptyList = [v |-> 0, stale |-> no, error |-> no, loading |-> no, age |-> 0]
    BY <2>1, Zenon DEF EmptyList
  <2>3. /\ [EmptyList EXCEPT !.loading = yes]
              = [v |-> 0, stale |-> no, error |-> no, loading |-> yes, age |-> 0]
        /\ [EmptyList EXCEPT !.error = yes]
              = [v |-> 0, stale |-> no, error |-> yes, loading |-> no, age |-> 0]
    BY <2>2
  <2> QED  BY <2>1, <2>3, Zenon
<1>2. FALSE \in BOOLEAN /\ TRUE \in BOOLEAN  OBVIOUS
<1> QED  BY <1>1, <1>2, NothingShown DEF EmptyList

\* OfflineRoute: the cache, when the verdict is that it may be shown.
LEMMA FromCacheIsHonest ==
    ASSUME ListInv, FromCache
    PROVE  screen' \in Screens /\ HonestListing'
<1>1. /\ now \in Nat /\ cache.at \in Nat /\ cache.v \in Nat
      /\ Ttl \in Nat \ {0} /\ MaxStale \in Nat
  BY ShelfAssumption DEF ListInv, ListTypes
<1> DEFINE age == now - cache.at
<1>2. age \in Int  BY <1>1
<1>3. CASE Verdict(cache) = "fresh"
  <2>1. age < Ttl  BY <1>1, <1>3 DEF Verdict
  <2>2. Shows(cache.v, FALSE, age)
    <3>1. (Verdict(cache) = "stale-ok") = FALSE  BY <1>3
    <3> QED  BY <1>3, <3>1 DEF FromCache
  <2> QED  BY <1>1, <1>2, <2>1, <2>2, ShownIsHonest
<1>4. CASE Verdict(cache) = "stale-ok"
  <2>1. age <= MaxStale  BY <1>1, <1>4 DEF Verdict
  <2>2. Shows(cache.v, TRUE, age)
    <3>1. (Verdict(cache) = "stale-ok") = TRUE  BY <1>4
    <3> QED  BY <1>4, <3>1 DEF FromCache
  <2> QED  BY <1>1, <1>2, <2>1, <2>2, ShownIsHonest
<1>5. CASE Verdict(cache) \notin {"fresh", "stale-ok"}
  BY <1>5, EmptyShown DEF FromCache
<1> QED  BY <1>3, <1>4, <1>5

\* A load that is no longer live leaves a version to write.
LEMMA DropsKeeps ==
    ASSUME ListInv, Drops
    PROVE  late' \in Nat
BY DEF ListInv, ListTypes, Loading, Drops

\* A screen is entered.
LEMMA ListAtKeeps ==
    ASSUME ListInv, NEW r, ListAt(r), UNCHANGED <<lib, cache, now>>
    PROVE  ListInv'
<1>1. late' \in Nat  BY DropsKeeps DEF ListAt
<1>2. load' \in Loading
  <2>1. CASE r = "library"
    BY <2>1 DEF ListAt, NoLoad, Loading
  <2>2. CASE r # "library"
    BY <2>2 DEF ListAt, NoLoad, Loading
  <2> QED  BY <2>1, <2>2
<1>3. screen' \in Screens /\ HonestListing'
  <2>1. CASE r = "library"  BY <2>1, EmptyShown DEF ListAt
  <2>2. CASE r = "offline"  BY <2>2, FromCacheIsHonest DEF ListAt
  <2>3. CASE r \notin {"library", "offline"}  BY <2>3, EmptyShown DEF ListAt
  <2> QED  BY <2>1, <2>2, <2>3
<1>4. ListTypes'
  <2>1. now' \in Nat /\ cache' \in [v : Nat, at : Nat] /\ lib' \in [v : Nat, seen : BOOLEAN]
    BY DEF ListInv, ListTypes
  <2> QED  BY <2>1, <1>1, <1>2, <1>3 DEF ListTypes, Screens
<1> QED  BY <1>3, <1>4 DEF ListInv

\* signOut: what was saved is gone.
LEMMA ForgottenListKeeps ==
    ASSUME ListInv, cache' = Nowhere, UNCHANGED <<lib, screen, load, late, now>>
    PROVE  ListInv'
<1>1. cache' \in [v : Nat, at : Nat]  BY DEF Nowhere
<1>2. ListTypes'  BY <1>1 DEF ListInv, ListTypes
<1>3. HonestListing'  BY DEF ListInv, HonestListing
<1> QED  BY <1>2, <1>3 DEF ListInv

\* The server's answer.
LEMMA ListAnswersKeeps ==
    ASSUME ListInv, ListAnswers, UNCHANGED <<lib, now>>
    PROVE  ListInv'
<1>1. UNCHANGED <<cache, late>>  BY DEF ListAnswers
<1>2. CASE lib.seen
  <2>1. load' = [load EXCEPT !.at = "writes", !.v = lib.v] /\ screen' = screen
    BY <1>2 DEF ListAnswers
  <2>2. load' \in Loading  BY <2>1 DEF Loading, ListInv, ListTypes
  <2> QED  BY <1>1, <2>1, <2>2 DEF ListInv, ListTypes, HonestListing
<1>3. CASE ~lib.seen
  <2>1. screen' = [EmptyList EXCEPT !.error = TRUE] /\ load' = NoLoad
    BY <1>3 DEF ListAnswers, Refused
  <2>2. load' \in Loading  BY <2>1 DEF Loading, NoLoad
  <2> QED  BY <1>1, <2>1, <2>2, EmptyShown DEF ListInv, ListTypes, Screens
<1> QED  BY <1>2, <1>3

\* Nothing was reached.
LEMMA ListFailsKeeps ==
    ASSUME ListInv, ListFails, UNCHANGED <<lib, now>>
    PROVE  ListInv'
<1>1. UNCHANGED <<cache, late>> /\ load' = NoLoad  BY DEF ListFails
<1>2. load' \in Loading  BY <1>1 DEF Loading, NoLoad
<1>3. screen' \in Screens /\ HonestListing'
  <2>1. CASE FallsBack
    <3>1. Shows(cache.v, TRUE, now - cache.at)  BY <2>1 DEF ListFails
    <3>2. cache.v \in Nat /\ now - cache.at \in Int /\ now - cache.at <= MaxStale
      BY <2>1 DEF FallsBack, ListInv, ListTypes
    <3> QED  BY <3>1, <3>2, ShownIsHonest
  <2>2. CASE ~FallsBack  BY <2>2, EmptyShown DEF ListFails
  <2> QED  BY <2>1, <2>2
<1> QED  BY <1>1, <1>2, <1>3 DEF ListInv, ListTypes, Screens

\* The cache is read.
LEMMA ReadsCacheKeeps ==
    ASSUME ListInv, ReadsCache, UNCHANGED <<lib, now>>
    PROVE  ListInv'
<1>1. UNCHANGED <<cache, late>>  BY DEF ReadsCache
<1>2. CASE Verdict(cache) = "fresh"
  <2>1. Shows(cache.v, FALSE, now - cache.at) /\ load' = NoLoad  BY <1>2 DEF ReadsCache
  <2>2. load' \in Loading  BY <2>1 DEF Loading, NoLoad
  <2>3. cache.v \in Nat /\ now - cache.at \in Int /\ now - cache.at < Ttl
    BY <1>2, ShelfAssumption DEF Verdict, ListInv, ListTypes
  <2>4. screen' \in Screens /\ HonestListing'  BY <2>1, <2>3, ShownIsHonest
  <2> QED  BY <1>1, <2>2, <2>4 DEF ListInv, ListTypes, Screens
<1>3. CASE Verdict(cache) # "fresh"
  <2>1. load' = [load EXCEPT !.at = "fetches"] /\ screen' = screen  BY <1>3 DEF ReadsCache
  <2>2. load' \in Loading  BY <2>1 DEF Loading, ListInv, ListTypes
  <2> QED  BY <1>1, <2>1, <2>2 DEF ListInv, ListTypes, HonestListing
<1> QED  BY <1>2, <1>3

\* An answer is written: what is shown of it is new.
LEMMA WritesListKeeps ==
    ASSUME ListInv, WritesList \/ LateWrites, UNCHANGED <<lib, now>>
    PROVE  ListInv'
<1>1. CASE WritesList
  <2>1. /\ cache' = [v |-> load.v, at |-> now] /\ late' = late
        /\ Shows(load.v, FALSE, 0) /\ load' = NoLoad
    BY <1>1 DEF WritesList
  <2>2. load' \in Loading  BY <2>1 DEF Loading, NoLoad
  <2>3. load.v \in Nat /\ now \in Nat /\ 0 < Ttl
    BY ShelfAssumption DEF ListInv, ListTypes, Loading
  <2>4. cache' \in [v : Nat, at : Nat]  BY <2>1, <2>3
  <2>5. /\ 0 \in Int /\ FALSE \in BOOLEAN
        /\ load.v # 0 => IF FALSE THEN 0 <= MaxStale ELSE 0 < Ttl
    BY <2>3
  <2>6. screen' \in Screens /\ HonestListing'  BY <2>1, <2>3, <2>5, ShownIsHonest, Zenon
  <2> QED  BY <2>1, <2>2, <2>4, <2>6 DEF ListInv, ListTypes, Screens
<1>2. CASE LateWrites
  <2>1. cache' = [v |-> late, at |-> now] /\ late' = 0 /\ UNCHANGED <<screen, load>>
    BY <1>2 DEF LateWrites
  <2>2. cache' \in [v : Nat, at : Nat] /\ late' \in Nat  BY <2>1 DEF ListInv, ListTypes
  <2> QED  BY <2>1, <2>2 DEF ListInv, ListTypes, HonestListing
<1> QED  BY <1>1, <1>2

\* The effect runs.
LEMMA RunsKeeps ==
    ASSUME ListInv, Runs, lib'.v \in Nat, lib'.seen \in BOOLEAN, lib' = [v |-> lib'.v, seen |-> lib'.seen],
           cache' \in [v : Nat, at : Nat], now' = now
    PROVE  ListInv'
<1>1. late' \in Nat  BY DropsKeeps DEF Runs
<1>2. load' \in Loading  BY DEF Loading, Runs, NoLoad
<1>3. screen' = [screen EXCEPT !.loading = TRUE, !.error = FALSE]  BY DEF Runs
<1>4. screen' \in Screens  BY <1>3 DEF ListInv, ListTypes, Screens
<1>5. HonestListing'  BY <1>3 DEF ListInv, ListTypes, HonestListing
<1>6. lib' \in [v : Nat, seen : BOOLEAN]  OBVIOUS
<1> QED  BY <1>1, <1>2, <1>4, <1>5, <1>6 DEF ListInv, ListTypes, Screens

\* The server's list changes.
LEMMA ChangesKeeps ==
    ASSUME ListInv, NEW seen \in BOOLEAN, Changes(seen), Refetches \/ UNCHANGED listVars, now' = now
    PROVE  ListInv'
<1>1. /\ lib'.v \in Nat /\ lib'.seen \in BOOLEAN /\ lib' = [v |-> lib'.v, seen |-> lib'.seen]
  BY DEF Changes, ListInv, ListTypes
<1>2. CASE Refetches
  <2>1. Runs /\ cache' = Nowhere  BY <1>2 DEF Refetches
  <2>2. cache' \in [v : Nat, at : Nat]  BY <2>1 DEF Nowhere
  <2> QED  BY <1>1, <2>1, <2>2, RunsKeeps
<1>3. CASE UNCHANGED listVars
  <2>1. UNCHANGED <<cache, screen, load, late>>  BY <1>3 DEF listVars
  <2>2. lib' \in [v : Nat, seen : BOOLEAN]  BY <1>1
  <2> QED  BY <2>1, <2>2 DEF ListInv, ListTypes, HonestListing
<1> QED  BY <1>2, <1>3

\* Time goes on.
LEMMA TicksKeepList ==
    ASSUME ListInv, now' = now + 1, UNCHANGED <<lib, cache, screen, load, late>>
    PROVE  ListInv'
BY DEF ListInv, ListTypes, HonestListing

---------------------------------------------------------------------------
(* The pages of a folder. *)

\* No folder is shown.
LEMMA NoFolderKeeps ==
    ASSUME pages' = NoPages, calls' = {}
    PROVE  PagesInv'
<1>1. pages' \in PageList
  <2>1. <<>> \in Seq([key : AnyKey, page : Nat])  OBVIOUS
  <2> QED  BY <2>1 DEF NoPages, AnyKey, PageList
<1>2. Len(pages'.rows) = 0 /\ pages'.cursor = 0  BY DEF NoPages
<1>3. PageTypes'  BY <1>1 DEF PageTypes
<1>4. CallsInv'  BY DEF CallsInv
<1>5. CursorInv'  BY <1>2 DEF CursorInv
<1>6. PagesInOrder'  BY <1>2 DEF PagesInOrder
<1> QED  BY <1>3, <1>4, <1>5, <1>6 DEF PagesInv

\* A folder is opened, or again: a loadMore that is out overtakes its list.
LEMMA OpensFolderKeeps ==
    ASSUME PagesInv, NEW k \in AnyKey, OpensFolder(k)
    PROVE  PagesInv'
<1> DEFINE first == [kind |-> "first", key |-> k, page |-> 1]
<1>1. PICK yes, no, m : yes = TRUE /\ no = FALSE /\ m = pages.more  OBVIOUS
<1>2. m \in BOOLEAN /\ yes \in BOOLEAN /\ no \in BOOLEAN  BY <1>1 DEF PagesInv, PageTypes, PageList
<1>3. pages' = [key |-> k, rows |-> <<>>, cursor |-> 0, complete |-> no, loading |-> yes,
                more |-> m, overtaken |-> m]
  <2>1. NoPages = [key |-> 0, rows |-> <<>>, cursor |-> 0, complete |-> no, loading |-> no,
                   more |-> no, overtaken |-> no]
    BY <1>1, Zenon DEF NoPages
  <2>2. pages' = [NoPages EXCEPT !.key = k, !.loading = yes, !.more = m, !.overtaken = m]
    BY <1>1, Zenon DEF OpensFolder
  <2> QED  BY <2>1, <2>2
<1>4. /\ pages'.key = k /\ pages'.rows = <<>> /\ pages'.cursor = 0
      /\ pages'.more = m /\ pages'.overtaken = m
  BY <1>3
<1>5. \A c : c \in calls' <=> (c \in calls /\ c.kind = "more") \/ c = first
  BY DEF OpensFolder
<1>6. first.kind = "first" /\ first.key = k /\ first.page = 1  OBVIOUS
<1>7. PageTypes'
  <2>1. <<>> \in Seq([key : AnyKey, page : Nat])  OBVIOUS
  <2>2. pages' \in PageList  BY <1>2, <1>3, <2>1 DEF PageList
  <2>3. first \in [kind : {"first", "more"}, key : AnyKey, page : Nat]  OBVIOUS
  <2>4. calls' \subseteq [kind : {"first", "more"}, key : AnyKey, page : Nat]
    BY <1>5, <2>3, Zenon DEF PagesInv, PageTypes
  <2> QED  BY <2>2, <2>4 DEF PageTypes
<1> HIDE DEF first
<1>8. CallsInv'
  <2>1. \A c \in calls' : c.kind = "first" => c = first  BY <1>5
  <2>2. \A c \in calls' : c.kind = "more" => c \in calls  BY <1>5, <1>6
  <2>3. \A c \in calls' : c.kind = "first" \/ c.kind = "more"  BY <1>5, <1>6
  <2>4. \A c \in calls' : c.kind = "first" => c.key = pages'.key /\ c.page = 1
    BY <2>1, <1>4, <1>6
  <2>5. \A c \in calls' : c.kind = "more" => pages'.more
    BY <2>2, <1>4, <1>1, Zenon DEF PagesInv, CallsInv
  <2>6. \A c, d \in calls' : c.kind = d.kind => c = d
    BY <2>1, <2>2, <2>3 DEF PagesInv, CallsInv
  <2> QED  BY <2>4, <2>5, <2>6 DEF CallsInv
<1>9. CursorInv'
  <2> SUFFICES ASSUME ~pages'.overtaken
               PROVE  /\ pages'.cursor \in {0, Len(pages'.rows) + 1}
                      /\ \A c \in calls' : c.kind = "first" => pages'.rows = <<>> /\ pages'.cursor = 0
                      /\ \A c \in calls' : c.kind = "more" =>
                            c.key = pages'.key /\ c.page = pages'.cursor /\ c.page # 0
    BY DEF CursorInv
  <2>1. ~pages.more  BY <1>1, <1>4, Zenon
  <2>2. \A c \in calls' : c.kind # "more"
    BY <2>1, <1>5, <1>6 DEF PagesInv, CallsInv
  <2> QED  BY <1>4, <2>2
<1>10. PagesInOrder'
  <2>1. Len(pages'.rows) = 0  BY <1>4
  <2> QED  BY <2>1 DEF PagesInOrder
<1> QED  BY <1>7, <1>8, <1>9, <1>10 DEF PagesInv

\* The first page comes: of a list that was not overtaken, nothing else is out.
LEMMA FirstPageKeeps ==
    ASSUME PagesInv, NEW c, FirstPage(c)
    PROVE  PagesInv'
<1> DEFINE row == [key |-> c.key, page |-> 1]
           cur == IF Pages > 1 THEN 2 ELSE 0
<1>1. c \in calls /\ c.kind = "first" /\ calls' = calls \ {c}  BY DEF FirstPage
<1>2. c.key \in AnyKey /\ c.key = pages.key  BY <1>1 DEF PagesInv, PageTypes, CallsInv
<1>3. PICK no, done : no = FALSE /\ done = (Pages = 1)  OBVIOUS
<1>4. no \in BOOLEAN /\ done \in BOOLEAN  BY <1>3
<1>5. pages' = [pages EXCEPT !.loading = no, !.rows = <<row>>, !.cursor = cur, !.complete = done]
  BY <1>3, Zenon DEF FirstPage
<1>6. pages \in PageList  BY DEF PagesInv, PageTypes
<1>7. row \in [key : AnyKey, page : Nat]  BY <1>2
<1>8. <<row>> \in Seq([key : AnyKey, page : Nat]) /\ Len(<<row>>) = 1 /\ <<row>>[1] = row
  BY <1>7
<1>9. cur \in Nat /\ cur \in {0, 2}  OBVIOUS
<1>10. row.key = pages.key /\ row.page = 1  BY <1>2
<1> HIDE DEF row, cur
<1>11. /\ pages' \in PageList
       /\ pages'.key = pages.key /\ pages'.rows = <<row>> /\ pages'.cursor = cur
       /\ pages'.more = pages.more /\ pages'.overtaken = pages.overtaken
  BY <1>4, <1>5, <1>6, <1>8, <1>9 DEF PageList
<1>12. PageTypes'
  BY <1>1, <1>11, Zenon DEF PagesInv, PageTypes
<1>13. CallsInv'
  BY <1>1, <1>11, Zenon DEF PagesInv, CallsInv
<1>14. \A d \in calls' : d.kind # "first"
  BY <1>1 DEF PagesInv, CallsInv
<1>15. ~pages.overtaken => \A d \in calls' : d.kind # "more"
  BY <1>1 DEF PagesInv, CursorInv, PageTypes
<1>16. CursorInv'
  <2> SUFFICES ASSUME ~pages'.overtaken
               PROVE  /\ pages'.cursor \in {0, Len(pages'.rows) + 1}
                      /\ \A d \in calls' : d.kind = "first" => pages'.rows = <<>> /\ pages'.cursor = 0
                      /\ \A d \in calls' : d.kind = "more" =>
                            d.key = pages'.key /\ d.page = pages'.cursor /\ d.page # 0
    BY DEF CursorInv
  <2>1. pages'.cursor \in {0, Len(pages'.rows) + 1}  BY <1>8, <1>9, <1>11
  <2>2. ~pages.overtaken  BY <1>11, Zenon
  <2> QED  BY <2>1, <2>2, <1>14, <1>15
<1>17. PagesInOrder'
  <2> SUFFICES ASSUME NEW i \in 1..Len(pages'.rows)
               PROVE  pages'.rows[i] = [key |-> pages'.key, page |-> i]
    BY DEF PagesInOrder
  <2>1. i = 1  BY <1>8, <1>11
  <2>2. row = [key |-> pages.key, page |-> 1]  BY <1>2 DEF row
  <2> QED  BY <1>8, <1>11, <2>1, <2>2
<1> QED  BY <1>12, <1>13, <1>16, <1>17 DEF PagesInv

\* More is asked for: nothing more was, and the first page has come.
LEMMA LoadsMoreKeeps ==
    ASSUME PagesInv, LoadsMore
    PROVE  PagesInv'
<1> DEFINE more == [kind |-> "more", key |-> pages.key, page |-> pages.cursor]
<1>1. pages.cursor # 0 /\ ~pages.more  BY DEF LoadsMore, MayLoadMore
<1>2. PICK yes : yes = TRUE  OBVIOUS
<1>3. pages' = [pages EXCEPT !.more = yes]  BY <1>2, Zenon DEF LoadsMore
<1>4. pages \in PageList  BY DEF PagesInv, PageTypes
<1>5. yes \in BOOLEAN  BY <1>2
<1>6. /\ pages' \in PageList /\ pages'.more = yes
      /\ pages'.key = pages.key /\ pages'.rows = pages.rows /\ pages'.cursor = pages.cursor
      /\ pages'.overtaken = pages.overtaken
  BY <1>3, <1>4, <1>5 DEF PageList
<1>7. \A c : c \in calls' <=> c \in calls \/ c = more  BY DEF LoadsMore
<1>8. /\ more.kind = "more" /\ more.key = pages.key /\ more.page = pages.cursor
      /\ more \in [kind : {"first", "more"}, key : AnyKey, page : Nat]
  BY <1>4 DEF PageList
<1> HIDE DEF more
<1>9. PageTypes'
  <2>1. calls' \subseteq [kind : {"first", "more"}, key : AnyKey, page : Nat]
    BY <1>7, <1>8, Zenon DEF PagesInv, PageTypes
  <2> QED  BY <1>6, <2>1 DEF PageTypes
<1>10. \A c \in calls : c.kind = "first"
  BY <1>1 DEF PagesInv, PageTypes, CallsInv
<1>11. CallsInv'
  <2>1. \A c \in calls' : c.kind = "first" => c \in calls  BY <1>7, <1>8
  <2>2. \A c \in calls' : c.kind = "more" => c = more  BY <1>7, <1>10
  <2>3. \A c \in calls' : c.kind = "first" \/ c.kind = "more"  BY <1>7, <1>8, <1>10
  <2>4. \A c \in calls' : c.kind = "first" => c.key = pages'.key /\ c.page = 1
    BY <2>1, <1>6 DEF PagesInv, CallsInv
  <2>5. pages'.more  BY <1>2, <1>6, Zenon
  <2>6. \A c, d \in calls' : c.kind = d.kind => c = d
    BY <2>1, <2>2, <2>3 DEF PagesInv, CallsInv
  <2> QED  BY <2>4, <2>5, <2>6 DEF CallsInv
<1>12. CursorInv'
  <2> SUFFICES ASSUME ~pages'.overtaken
               PROVE  /\ pages'.cursor \in {0, Len(pages'.rows) + 1}
                      /\ \A c \in calls' : c.kind = "first" => pages'.rows = <<>> /\ pages'.cursor = 0
                      /\ \A c \in calls' : c.kind = "more" =>
                            c.key = pages'.key /\ c.page = pages'.cursor /\ c.page # 0
    BY DEF CursorInv
  <2>1. ~pages.overtaken  BY <1>6, Zenon
  <2>2. pages'.cursor \in {0, Len(pages'.rows) + 1}  BY <2>1, <1>6 DEF PagesInv, CursorInv
  <2>3. \A c \in calls' : c.kind = "first" => pages'.rows = <<>> /\ pages'.cursor = 0
    BY <2>1, <1>6, <1>7, <1>8 DEF PagesInv, CursorInv
  <2>4. \A c \in calls' : c.kind = "more" => c = more  BY <1>7, <1>10
  <2> QED  BY <2>2, <2>3, <2>4, <1>1, <1>6, <1>8
<1>13. PagesInOrder'
  <2>1. pages'.overtaken <=> pages.overtaken  BY <1>6, Zenon
  <2> QED  BY <2>1, <1>6 DEF PagesInv, PagesInOrder
<1> QED  BY <1>9, <1>11, <1>12, <1>13 DEF PagesInv

\* More comes: the next page, of the list that it was asked for.
LEMMA MorePagesKeeps ==
    ASSUME PagesInv, NEW c, MorePages(c)
    PROVE  PagesInv'
<1> DEFINE row == [key |-> c.key, page |-> c.page]
           cur == IF c.page < Pages THEN c.page + 1 ELSE 0
<1>1. c \in calls /\ c.kind = "more" /\ calls' = calls \ {c}  BY DEF MorePages
<1>2. c.key \in AnyKey /\ c.page \in Nat  BY <1>1 DEF PagesInv, PageTypes
<1>3. PICK no, done : no = FALSE /\ done = (c.page = Pages)  OBVIOUS
<1>4. no \in BOOLEAN /\ done \in BOOLEAN  BY <1>3
<1>5. pages' = [pages EXCEPT !.rows = Append(pages.rows, row), !.cursor = cur, !.complete = done,
                             !.more = no]
  BY <1>3, Zenon DEF MorePages
<1>6. pages \in PageList  BY DEF PagesInv, PageTypes
<1>7. row \in [key : AnyKey, page : Nat]  BY <1>2
<1>8. pages.rows \in Seq([key : AnyKey, page : Nat])  BY <1>6 DEF PageList
<1>9. /\ Append(pages.rows, row) \in Seq([key : AnyKey, page : Nat])
      /\ Len(Append(pages.rows, row)) = Len(pages.rows) + 1
      /\ \A i \in 1..Len(pages.rows) : Append(pages.rows, row)[i] = pages.rows[i]
      /\ Append(pages.rows, row)[Len(pages.rows) + 1] = row
      /\ Len(pages.rows) \in Nat
  BY <1>7, <1>8
<1>10. cur \in Nat /\ cur \in {0, c.page + 1}  BY <1>2, ShelfAssumption
<1> HIDE DEF cur
<1>11. /\ pages' \in PageList
       /\ pages'.key = pages.key /\ pages'.rows = Append(pages.rows, row) /\ pages'.cursor = cur
       /\ pages'.overtaken = pages.overtaken
  BY <1>4, <1>5, <1>6, <1>9, <1>10 DEF PageList
<1>12. PageTypes'
  BY <1>1, <1>11, Zenon DEF PagesInv, PageTypes
<1>13. \A d \in calls' : d \in calls /\ d.kind # "more"
  BY <1>1 DEF PagesInv, CallsInv
<1>14. CallsInv'
  BY <1>13, <1>11 DEF PagesInv, CallsInv
<1>15. ~pages.overtaken => /\ \A d \in calls' : d.kind # "first"
                           /\ c.key = pages.key /\ c.page = Len(pages.rows) + 1
  BY <1>1, <1>13 DEF PagesInv, CursorInv
<1>16. CursorInv'
  <2> SUFFICES ASSUME ~pages'.overtaken
               PROVE  /\ pages'.cursor \in {0, Len(pages'.rows) + 1}
                      /\ \A d \in calls' : d.kind = "first" => pages'.rows = <<>> /\ pages'.cursor = 0
                      /\ \A d \in calls' : d.kind = "more" =>
                            d.key = pages'.key /\ d.page = pages'.cursor /\ d.page # 0
    BY DEF CursorInv
  <2>1. ~pages.overtaken  BY <1>11, Zenon
  <2>2. pages'.cursor \in {0, Len(pages'.rows) + 1}  BY <2>1, <1>9, <1>10, <1>11, <1>15
  <2> QED  BY <2>1, <2>2, <1>13, <1>15
<1>17. PagesInOrder'
  <2> SUFFICES ASSUME ~pages'.overtaken, NEW i \in 1..Len(pages'.rows)
               PROVE  pages'.rows[i] = [key |-> pages'.key, page |-> i]
    BY DEF PagesInOrder
  <2>1. ~pages.overtaken  BY <1>11, Zenon
  <2>2. CASE i \in 1..Len(pages.rows)
    BY <2>1, <2>2, <1>9, <1>11 DEF PagesInv, PagesInOrder
  <2>3. CASE i = Len(pages.rows) + 1
    BY <2>1, <2>3, <1>9, <1>11, <1>15
  <2>4. i \in 1..Len(pages.rows) \/ i = Len(pages.rows) + 1  BY <1>9, <1>11
  <2> QED  BY <2>2, <2>3, <2>4
<1> QED  BY <1>12, <1>14, <1>16, <1>17 DEF PagesInv

\* A request fails: the list is as it was.
LEMMA PageFailsKeeps ==
    ASSUME PagesInv, NEW c, PageFails(c)
    PROVE  PagesInv'
<1>1. c \in calls /\ calls' = calls \ {c}  BY DEF PageFails
<1>2. PICK m, l : /\ m = IF c.kind = "more" THEN FALSE ELSE pages.more
                  /\ l = IF c.kind = "first" THEN FALSE ELSE pages.loading
  OBVIOUS
<1>3. pages' = [pages EXCEPT !.more = m, !.loading = l]
  BY <1>2, Zenon DEF PageFails
<1>4. pages \in PageList  BY DEF PagesInv, PageTypes
<1>5. m \in BOOLEAN /\ l \in BOOLEAN  BY <1>2, <1>4 DEF PageList
<1>6. /\ pages' \in PageList
      /\ pages'.key = pages.key /\ pages'.rows = pages.rows /\ pages'.cursor = pages.cursor
      /\ pages'.overtaken = pages.overtaken /\ pages'.more = m
  BY <1>3, <1>4, <1>5 DEF PageList
<1>7. PageTypes'  BY <1>1, <1>6, Zenon DEF PagesInv, PageTypes
<1>8. CallsInv'
  <2>1. \A d \in calls' : d \in calls /\ d # c  BY <1>1
  <2>2. \A d \in calls' : d.kind = "more" => pages'.more
    <3> SUFFICES ASSUME NEW d \in calls', d.kind = "more" PROVE pages'.more  OBVIOUS
    <3>1. d \in calls /\ c.kind # "more" /\ pages.more  BY <2>1, <1>1 DEF PagesInv, CallsInv
    <3>2. m = pages.more  BY <3>1, <1>2
    <3> QED  BY <3>1, <3>2, <1>6, Zenon
  <2> QED  BY <2>1, <2>2, <1>6 DEF PagesInv, CallsInv
<1>9. CursorInv'
  <2>1. pages'.overtaken <=> pages.overtaken  BY <1>6, Zenon
  <2> QED  BY <2>1, <1>1, <1>6 DEF PagesInv, CursorInv
<1>10. PagesInOrder'
  <2>1. pages'.overtaken <=> pages.overtaken  BY <1>6, Zenon
  <2> QED  BY <2>1, <1>6 DEF PagesInv, PagesInOrder
<1> QED  BY <1>7, <1>8, <1>9, <1>10 DEF PagesInv

---------------------------------------------------------------------------
(* The tokens of the phone's worker. *)

LEMMA NoneIsNoToken == None \in Nat /\ MaxTokens \in Nat /\ \A t \in 0..MaxTokens : t # None /\ t \in Nat
BY WorkerAssumption DEF None

\* One request moves, and at most a read begins, or the memo is dropped.
LEMMA SeekMoves ==
    ASSUME WorkerInv, NEW s \in Seeks, NEW m \in Requested, media' = [media EXCEPT ![s] = m],
           UNCHANGED <<session, expired>>, memo' \in {memo, None},
           reading' \in [out : BOOLEAN, seen : 0..None], reading'.seen = reading.seen,
           reading.out => reading'.out, ~reading'.out => reading'.seen = None,
           session # 0 => m.token <= session,
           GoesOnWell(media[s])'
    PROVE  WorkerInv'
<1>1. media \in [Seeks -> Requested] /\ memo \in 0..None  BY DEF WorkerInv, TokenTypes
<1>2. /\ media' \in [Seeks -> Requested]
      /\ media'[s] = m /\ \A x \in Seeks : x # s => media'[x] = media[x]
  BY <1>1
<1>3. memo' \in 0..None  BY <1>1, NoneIsNoToken
<1>4. TokenTypes'
  BY <1>2, <1>3 DEF WorkerInv, TokenTypes, None
<1>5. TokensInv'
  BY <1>2 DEF WorkerInv, TokensInv, None
<1>6. \A x \in Seeks : GoesOnWell(media[x])'
  <2> SUFFICES ASSUME NEW x \in Seeks PROVE GoesOnWell(media[x])'  OBVIOUS
  <2>1. CASE x = s  BY <2>1
  <2>2. CASE x # s
    <3>1. GoesOnWell(media[x])  BY DEF WorkerInv
    <3>2. media'[x] = media[x]  BY <1>2, <2>2
    <3> QED  BY <3>1, <3>2 DEF GoesOnWell, Good, None
  <2> QED  BY <2>1, <2>2
<1> QED  BY <1>4, <1>5, <1>6 DEF WorkerInv

\* A range is asked for.
LEMMA SeekingKeeps ==
    ASSUME WorkerInv, NEW s \in Seeks, Seeking(s), UNCHANGED session
    PROVE  WorkerInv'
<1> DEFINE m == [NoSeek EXCEPT !.at = "asked"]
<1>1. media' = [media EXCEPT ![s] = m] /\ UNCHANGED <<expired, memo, reading>>  BY DEF Seeking
<1>2. PICK no : no = FALSE  OBVIOUS
<1>3. NoSeek = [at |-> "idle", token |-> 0, known |-> no]  BY <1>2, Zenon DEF NoSeek
<1>4. m = [at |-> "asked", token |-> 0, known |-> no]  BY <1>3
<1>5. m \in Requested
  <2>1. no \in BOOLEAN  BY <1>2, Zenon
  <2>2. 0 \in 0..MaxTokens  BY WorkerAssumption
  <2> QED  BY <2>1, <2>2, <1>4 DEF Requested
<1>6. m.token = 0 /\ m.known = no  BY <1>4
<1>7. ~m.known  BY <1>2, <1>6, Zenon
<1> HIDE DEF m
<1>8. GoesOnWell(media[s])'
  <2>1. media'[s] = m  BY <1>1 DEF WorkerInv, TokenTypes
  <2> QED  BY <2>1, <1>7 DEF GoesOnWell
<1>9. session \in 0..MaxTokens /\ reading \in [out : BOOLEAN, seen : 0..None]
  BY DEF WorkerInv, TokenTypes
<1>10. ~reading.out => reading.seen = None  BY DEF WorkerInv, TokensInv
<1>11. session # 0 => m.token <= session  BY <1>6, <1>9
<1>12. reading' \in [out : BOOLEAN, seen : 0..None]  BY <1>1, <1>9
<1> QED  BY <1>1, <1>5, <1>8, <1>10, <1>11, <1>12, SeekMoves

\* A token is asked for: the memo, or a read.
LEMMA AsksTokenKeeps ==
    ASSUME WorkerInv, NEW s \in Seeks, AsksToken(s), UNCHANGED session
    PROVE  WorkerInv'
<1>1. media \in [Seeks -> Requested] /\ media[s] \in Requested /\ media[s].at = "asked"
  BY DEF WorkerInv, TokenTypes, AsksToken, GetsToken
<1>2. ~media[s].known  BY <1>1 DEF WorkerInv, GoesOnWell
<1>3. session \in 0..MaxTokens /\ reading \in [out : BOOLEAN, seen : 0..None] /\ memo \in 0..None
  BY DEF WorkerInv, TokenTypes
<1>4. ~reading.out => reading.seen = None  BY DEF WorkerInv, TokensInv
<1>5. UNCHANGED <<expired, memo>>  BY DEF AsksToken, GetsToken
<1>6. CASE memo # None
  <2> DEFINE m == [media[s] EXCEPT !.at = "sent", !.token = memo]
  <2>1. media' = [media EXCEPT ![s].at = "sent", ![s].token = memo] /\ reading' = reading
    BY <1>6 DEF AsksToken, GetsToken
  <2>2. media' = [media EXCEPT ![s] = m]  BY <2>1, <1>1
  <2>3. memo \in 0..MaxTokens  BY <1>3, <1>6, WorkerAssumption DEF None
  <2>4. m \in Requested /\ m.token = memo /\ m.known = media[s].known
    BY <1>1, <2>3 DEF Requested
  <2>5. session # 0 => memo <= session  BY <1>6 DEF WorkerInv, TokensInv
  <2>6. ~m.known  BY <2>4, <1>2, Zenon
  <2> HIDE DEF m
  <2>7. GoesOnWell(media[s])'
    <3>1. media'[s] = m  BY <2>2, <1>1
    <3> QED  BY <3>1, <2>6 DEF GoesOnWell
  <2> QED  BY <1>3, <1>4, <1>5, <2>1, <2>2, <2>4, <2>5, <2>7, SeekMoves
<1>7. CASE memo = None
  <2> DEFINE m == [media[s] EXCEPT !.at = "waits"]
  <2>1. media' = [media EXCEPT ![s].at = "waits"] /\ reading' = [reading EXCEPT !.out = TRUE]
    BY <1>7 DEF AsksToken, GetsToken
  <2>2. media' = [media EXCEPT ![s] = m]  BY <2>1, <1>1
  <2>3. m \in Requested /\ m.token = media[s].token /\ m.known = media[s].known
    BY <1>1 DEF Requested
  <2>4. session # 0 => m.token <= session  BY <2>3 DEF WorkerInv, TokensInv
  <2>5. ~m.known  BY <2>3, <1>2, Zenon
  <2> HIDE DEF m
  <2>6. GoesOnWell(media[s])'
    <3>1. media'[s] = m  BY <2>2, <1>1
    <3> QED  BY <3>1, <2>5 DEF GoesOnWell
  <2>7. PICK yes : yes = TRUE  OBVIOUS
  <2>8. reading' = [reading EXCEPT !.out = yes]  BY <2>1, <2>7, Zenon
  <2>9. /\ reading' \in [out : BOOLEAN, seen : 0..None]
        /\ reading'.seen = reading.seen /\ reading'.out = yes
    BY <2>7, <2>8, <1>3
  <2>10. reading'.out  BY <2>7, <2>9, Zenon
  <2> QED  BY <1>5, <2>2, <2>3, <2>4, <2>6, <2>9, <2>10, SeekMoves
<1> QED  BY <1>6, <1>7

\* 401: the token is read again.  Of a session that is good, and of a read that
\* begins only now, it is known that it will do.
LEMMA Answers401Keeps ==
    ASSUME WorkerInv, NEW s \in Seeks, Answers401(s), UNCHANGED session
    PROVE  WorkerInv'
<1>1. PICK k, yes : k = (Good(session) /\ ~reading.out) /\ yes = TRUE  OBVIOUS
<1> DEFINE m == [media[s] EXCEPT !.at = "waits again", !.known = k]
<1>2. media \in [Seeks -> Requested] /\ media[s] \in Requested /\ ~Good(media[s].token)
  BY DEF WorkerInv, TokenTypes, Answers401
<1>3. /\ session \in 0..MaxTokens /\ expired \in 0..MaxTokens
      /\ reading \in [out : BOOLEAN, seen : 0..None]
  BY DEF WorkerInv, TokenTypes
<1>4. media' = [media EXCEPT ![s].at = "waits again", ![s].known = k]
  BY <1>1, Zenon DEF Answers401
<1>5. media' = [media EXCEPT ![s] = m]  BY <1>2, <1>4
<1>6. k \in BOOLEAN  BY <1>1, Zenon
<1>7. m \in Requested /\ m.token = media[s].token /\ m.known = k /\ m.at = "waits again"
  BY <1>2, <1>6 DEF Requested
<1>8. session # 0 => media[s].token <= session  BY DEF WorkerInv, TokensInv
<1>9. UNCHANGED expired /\ memo' = None /\ reading' = [reading EXCEPT !.out = yes]
  BY <1>1, Zenon DEF Answers401, Forgotten
<1>10. /\ reading' \in [out : BOOLEAN, seen : 0..None]
       /\ reading'.seen = reading.seen /\ reading'.out = yes
  BY <1>1, <1>3, <1>9
<1>11. reading'.out  BY <1>1, <1>10, Zenon
<1> HIDE DEF m
<1>12. GoesOnWell(media[s])'
  <2>0. media'[s] = m  BY <1>2, <1>5
  <2> SUFFICES ASSUME m.known
               PROVE  /\ m.token <= expired /\ expired < session
                      /\ reading'.seen = None
    BY <2>0, <1>7, <1>9, <1>11 DEF GoesOnWell, None
  <2>1. k  BY <1>7, Zenon
  <2>2. Good(session) /\ ~reading.out  BY <1>1, <2>1, Zenon
  <2>3. expired < session  BY <2>2 DEF Good
  <2>4. reading.seen = None  BY <2>2 DEF WorkerInv, TokensInv
  <2>5. media[s].token <= session  BY <2>3, <1>3, <1>8
  <2>6. media[s].token \in Nat  BY <1>2, NoneIsNoToken DEF Requested
  <2>7. media[s].token <= expired  BY <1>2, <1>3, <2>5, <2>6 DEF Good
  <2> QED  BY <1>7, <1>10, <2>3, <2>4, <2>7
<1> QED  BY <1>5, <1>7, <1>8, <1>9, <1>10, <1>11, <1>12, SeekMoves

\* The server answers the request, or refuses it for good.
LEMMA WorkerAnswersKeeps ==
    ASSUME WorkerInv, NEW s \in Seeks, WorkerAnswers(s), UNCHANGED session
    PROVE  WorkerInv'
<1> DEFINE ends == IF Good(media[s].token) THEN "played" ELSE "refused"
           m == [media[s] EXCEPT !.at = ends]
<1>1. media \in [Seeks -> Requested] /\ media[s] \in Requested
  BY DEF WorkerInv, TokenTypes
<1>2. media' = [media EXCEPT ![s].at = ends] /\ UNCHANGED <<expired, memo, reading>>
  BY DEF WorkerAnswers
<1>3. ends \in {"played", "refused"}  OBVIOUS
<1>4. ends = "refused" => ~Good(media[s].token)  OBVIOUS
<1> HIDE DEF ends
<1>5. media' = [media EXCEPT ![s] = m]  BY <1>1, <1>2
<1>6. m \in Requested /\ m.token = media[s].token /\ m.known = media[s].known /\ m.at = ends
  BY <1>1, <1>3 DEF Requested
<1>7. session # 0 => media[s].token <= session  BY DEF WorkerInv, TokensInv
<1>8. session \in 0..MaxTokens /\ reading \in [out : BOOLEAN, seen : 0..None]
  BY DEF WorkerInv, TokenTypes
<1>9. ~reading.out => reading.seen = None  BY DEF WorkerInv, TokensInv
<1> HIDE DEF m
<1>10. GoesOnWell(media[s])'
  <2>0. media'[s] = m  BY <1>1, <1>5
  <2> SUFFICES ASSUME m.known PROVE ends = "played"
    BY <2>0, <1>3, <1>6 DEF GoesOnWell
  <2>1. media[s].known  BY <1>6, Zenon
  <2>2. GoesOnWell(media[s])  BY DEF WorkerInv
  <2>3. media[s].at \in {"sent", "sent again"}  BY DEF WorkerAnswers
  <2>4. Good(media[s].token)  BY <2>1, <2>2, <2>3 DEF GoesOnWell
  <2> QED  BY <1>3, <1>4, <2>4
<1> QED  BY <1>2, <1>5, <1>6, <1>7, <1>8, <1>9, <1>10, SeekMoves

\* The store is read.
LEMMA SeesStoreKeeps ==
    ASSUME WorkerInv, SeesStore, UNCHANGED session
    PROVE  WorkerInv'
<1>1. reading.out /\ reading.seen = None /\ UNCHANGED <<expired, memo, media>>
      /\ reading' = [reading EXCEPT !.seen = session]
  BY DEF SeesStore
<1>2. session \in 0..MaxTokens /\ reading \in [out : BOOLEAN, seen : 0..None]
  BY DEF WorkerInv, TokenTypes
<1>3. session \in 0..None  BY <1>2, WorkerAssumption DEF None
<1>4. /\ reading' \in [out : BOOLEAN, seen : 0..None]
      /\ reading'.seen = session /\ reading'.out = reading.out
  BY <1>1, <1>2, <1>3
<1>5. reading'.out  BY <1>1, <1>4, Zenon
<1>6. TokenTypes'  BY <1>1, <1>4 DEF WorkerInv, TokenTypes, None
<1>7. TokensInv'  BY <1>1, <1>2, <1>4, <1>5 DEF WorkerInv, TokensInv, None
<1>8. \A s \in Seeks : GoesOnWell(media[s])'
  <2> SUFFICES ASSUME NEW s \in Seeks PROVE GoesOnWell(media[s])'  OBVIOUS
  <2>1. GoesOnWell(media[s])  BY DEF WorkerInv
  <2> QED  BY <2>1, <1>1, <1>4, <1>5 DEF GoesOnWell, Good, None
<1> QED  BY <1>6, <1>7, <1>8 DEF WorkerInv

\* What fetchMedia makes of a token: one that is known to be good is sent.
LEMMA GoesOnIsWell ==
    ASSUME WorkerInv, NEW s \in Seeks, reading.seen # None
    PROVE  /\ GoesOn(media[s], reading.seen) \in Requested
           /\ session # 0 => GoesOn(media[s], reading.seen).token <= session
           /\ GoesOn(media[s], reading.seen).known =>
                 /\ GoesOn(media[s], reading.seen).at \in {"sent again", "played"}
                 /\ GoesOn(media[s], reading.seen).at = "sent again"
                       => Good(GoesOn(media[s], reading.seen).token)
<1> DEFINE m == media[s]
           token == reading.seen
<1>1. m \in Requested  BY DEF WorkerInv, TokenTypes
<1>2. token \in 0..MaxTokens
  BY WorkerAssumption DEF WorkerInv, TokenTypes, None
<1>3. session # 0 => m.token <= session /\ token <= session  BY DEF WorkerInv, TokensInv
<1>4. GoesOnWell(m)  BY DEF WorkerInv
<1>5. session \in 0..MaxTokens /\ expired \in 0..MaxTokens /\ MaxTokens \in Nat
  BY WorkerAssumption DEF WorkerInv, TokenTypes
<1>6. m.known /\ m.at = "waits again" =>
          expired < token /\ m.token <= expired /\ expired < session
  BY <1>4 DEF GoesOnWell
<1>7. m.token \in 0..MaxTokens  BY <1>1 DEF Requested
<1>8. m.known => m.at \in {"waits again", "sent again", "played"}  BY <1>4 DEF GoesOnWell
<1>9. m.known /\ m.at = "sent again" => Good(m.token)  BY <1>4 DEF GoesOnWell
<1> HIDE DEF m, token
<1>10. CASE m.at = "waits"
  <2> DEFINE n == [m EXCEPT !.at = "sent", !.token = token]
  <2>1. GoesOn(m, token) = n  BY <1>10 DEF GoesOn
  <2>2. n \in Requested /\ n.token = token /\ n.known = m.known  BY <1>1, <1>2 DEF Requested
  <2>3. ~m.known  BY <1>8, <1>10
  <2>4. ~n.known  BY <2>2, <2>3, Zenon
  <2> HIDE DEF n
  <2>5. n \in Requested /\ (session # 0 => n.token <= session) /\ ~n.known  BY <2>2, <2>4, <1>3
  <2> QED  BY <2>1, <2>5 DEF m, token
<1>11. CASE m.at = "waits again" /\ token \notin {0, m.token}
  <2> DEFINE n == [m EXCEPT !.at = "sent again", !.token = token]
  <2>1. GoesOn(m, token) = n  BY <1>11 DEF GoesOn
  <2>2. n \in Requested /\ n.token = token /\ n.known = m.known /\ n.at = "sent again"
    BY <1>1, <1>2 DEF Requested
  <2> HIDE DEF n
  <2>3. n.known => Good(n.token)
    <3> SUFFICES ASSUME n.known PROVE Good(token)  BY <2>2
    <3>1. m.known  BY <2>2, Zenon
    <3>2. expired < token /\ expired < session  BY <3>1, <1>11, <1>6, Zenon
    <3> QED  BY <3>2, <1>2, <1>3, <1>5 DEF Good
  <2>4. /\ n \in Requested /\ (session # 0 => n.token <= session)
        /\ n.known => n.at \in {"sent again", "played"} /\ (n.at = "sent again" => Good(n.token))
    BY <2>2, <2>3, <1>3
  <2> QED  BY <2>1, <2>4 DEF m, token
<1>12. CASE m.at = "waits again" /\ token \in {0, m.token}
  <2> DEFINE n == [m EXCEPT !.at = "refused"]
  <2>1. GoesOn(m, token) = n  BY <1>12 DEF GoesOn
  <2>2. n \in Requested /\ n.token = m.token /\ n.known = m.known  BY <1>1 DEF Requested
  <2>3. ~m.known
    <3> SUFFICES ASSUME m.known PROVE FALSE  OBVIOUS
    <3>1. expired < token /\ m.token <= expired  BY <1>6, <1>12, Zenon
    <3>2. token = 0 \/ token = m.token  BY <1>12
    <3>3. expired \in Nat /\ token \in Nat /\ m.token \in Nat  BY <1>2, <1>5, <1>7
    <3> QED  BY <3>1, <3>2, <3>3
  <2>4. ~n.known  BY <2>2, <2>3, Zenon
  <2> HIDE DEF n
  <2>5. n \in Requested /\ (session # 0 => n.token <= session) /\ ~n.known  BY <2>2, <2>4, <1>3
  <2> QED  BY <2>1, <2>5 DEF m, token
<1>13. CASE m.at \notin {"waits", "waits again"}
  <2>1. GoesOn(m, token) = m  BY <1>13 DEF GoesOn
  <2>2. /\ m \in Requested /\ (session # 0 => m.token <= session)
        /\ m.known => m.at \in {"sent again", "played"} /\ (m.at = "sent again" => Good(m.token))
    BY <1>1, <1>3, <1>8, <1>9, <1>13
  <2> QED  BY <2>1, <2>2 DEF m, token
<1> QED  BY <1>10, <1>11, <1>12, <1>13

\* The read is over.
LEMMA ReadEndsKeeps ==
    ASSUME WorkerInv, ReadEnds, UNCHANGED session
    PROVE  WorkerInv'
<1>1. /\ reading.seen # None /\ reading' = Unread /\ memo' = reading.seen /\ UNCHANGED expired
      /\ media' = [s \in Seeks |-> GoesOn(media[s], reading.seen)]
  BY DEF ReadEnds
<1>2. \A s \in Seeks : media'[s] = GoesOn(media[s], reading.seen)  BY <1>1
<1>3. media' \in [Seeks -> Requested]  BY <1>1, GoesOnIsWell
<1>4. PICK no : no = FALSE  OBVIOUS
<1>5. reading' = [out |-> no, seen |-> None]  BY <1>1, <1>4, Zenon DEF Unread
<1>6. reading' \in [out : BOOLEAN, seen : 0..None] /\ reading'.seen = None
  <2>1. no \in BOOLEAN  BY <1>4, Zenon
  <2>2. None \in 0..None  BY NoneIsNoToken
  <2> QED  BY <2>1, <2>2, <1>5
<1>7. TokenTypes'  BY <1>1, <1>3, <1>6 DEF WorkerInv, TokenTypes, None
<1>8. TokensInv'
  <2>1. \A s \in Seeks : session # 0 => media'[s].token <= session  BY <1>1, <1>2, GoesOnIsWell
  <2>2. session # 0 => reading.seen <= session  BY <1>1 DEF WorkerInv, TokensInv
  <2> QED  BY <1>1, <1>6, <2>1, <2>2 DEF TokensInv, None
<1>9. \A s \in Seeks : GoesOnWell(media[s])'
  <2> SUFFICES ASSUME NEW s \in Seeks PROVE GoesOnWell(media[s])'  OBVIOUS
  <2> DEFINE n == media'[s]
  <2>1. n.known => /\ n.at \in {"sent again", "played"}
                   /\ n.at = "sent again" => Good(n.token)
    BY <1>1, <1>2, GoesOnIsWell
  <2> QED  BY <2>1, <1>1 DEF GoesOnWell, Good, None
<1> QED  BY <1>7, <1>8, <1>9 DEF WorkerInv

\* Two seconds later.
LEMMA MemoAgesKeeps ==
    ASSUME WorkerInv, MemoAges, UNCHANGED session
    PROVE  WorkerInv'
<1>1. memo' = None /\ UNCHANGED <<session, expired, reading, media>>  BY DEF MemoAges
<1>2. TokenTypes'  BY <1>1, NoneIsNoToken DEF WorkerInv, TokenTypes, None
<1>3. TokensInv'  BY <1>1 DEF WorkerInv, TokensInv, None
<1>4. \A s \in Seeks : GoesOnWell(media[s])'  BY <1>1 DEF WorkerInv, GoesOnWell, Good, None
<1> QED  BY <1>2, <1>3, <1>4 DEF WorkerInv

\* No request is known to have a good token any more: the tokens expire, or the
\* session is given up.
LEMMA ForgetsKnown ==
    ASSUME WorkerInv, media' = [s \in Seeks |-> [media[s] EXCEPT !.known = FALSE]]
    PROVE  /\ media' \in [Seeks -> Requested]
           /\ \A s \in Seeks : media'[s].token = media[s].token /\ ~media'[s].known
<1>1. PICK no : no = FALSE  OBVIOUS
<1>2. media' = [s \in Seeks |-> [media[s] EXCEPT !.known = no]]  BY <1>1, Zenon
<1>3. media \in [Seeks -> Requested]  BY DEF WorkerInv, TokenTypes
<1>4. \A s \in Seeks : /\ media'[s] \in Requested /\ media'[s].token = media[s].token
                       /\ media'[s].known = no
  BY <1>1, <1>2, <1>3, ZenonT(60) DEF Requested
<1>5. media' \in [Seeks -> Requested]  BY <1>2, <1>4
<1>6. \A s \in Seeks : ~media'[s].known  BY <1>1, <1>4, Zenon
<1> QED  BY <1>4, <1>5, <1>6

LEMMA ExpiresKeeps ==
    ASSUME WorkerInv, Expires, UNCHANGED session
    PROVE  WorkerInv'
<1>1. /\ expired' = session /\ UNCHANGED <<session, memo, reading>>
      /\ media' = [s \in Seeks |-> [media[s] EXCEPT !.known = FALSE]]
  BY DEF Expires
<1>2. /\ media' \in [Seeks -> Requested]
      /\ \A s \in Seeks : media'[s].token = media[s].token /\ ~media'[s].known
  BY <1>1, ForgetsKnown
<1>3. TokenTypes'  BY <1>1, <1>2 DEF WorkerInv, TokenTypes, None
<1>4. TokensInv'  BY <1>1, <1>2 DEF WorkerInv, TokensInv, None
<1>5. \A s \in Seeks : GoesOnWell(media[s])'  BY <1>2 DEF GoesOnWell
<1> QED  BY <1>3, <1>4, <1>5 DEF WorkerInv

\* The session's token is another: a newer one, or that of a session just adopted.
LEMMA NewTokenKeeps ==
    ASSUME WorkerInv, session' \in 0..MaxTokens, session # 0 => session <= session',
           session = 0 => session' = MaxTokens, UNCHANGED <<expired, memo, reading, media>>
    PROVE  WorkerInv'
<1>1. TokenTypes'  BY DEF WorkerInv, TokenTypes, None
<1>2. MaxTokens \in Nat /\ session \in 0..MaxTokens /\ expired \in 0..MaxTokens
      /\ memo \in 0..None /\ reading.seen \in 0..None
      /\ \A s \in Seeks : media[s].token \in 0..MaxTokens
  BY WorkerAssumption DEF WorkerInv, TokenTypes, Requested
<1>3. TokensInv'
  <2>1. CASE session = 0
    BY <2>1, <1>2 DEF WorkerInv, TokensInv, None
  <2>2. CASE session # 0
    BY <2>2, <1>2 DEF WorkerInv, TokensInv, None
  <2> QED  BY <2>1, <2>2
<1>4. \A s \in Seeks : GoesOnWell(media[s])'
  <2> SUFFICES ASSUME NEW s \in Seeks, media[s].known PROVE GoesOnWell(media[s])'
    BY DEF GoesOnWell
  <2>1. GoesOnWell(media[s])  BY DEF WorkerInv
  <2>2. session <= session'  BY <1>2
  <2>3. media[s].at \in {"waits again", "sent again", "played"}  BY <2>1 DEF GoesOnWell
  <2>4. media[s].at = "waits again" => /\ media[s].token <= expired /\ expired < session
                                       /\ reading.out
                                       /\ reading.seen # None => expired < reading.seen
    BY <2>1 DEF GoesOnWell
  <2>5. media[s].at = "sent again" => expired < media[s].token /\ media[s].token <= session
    BY <2>1, <1>2 DEF GoesOnWell, Good
  <2>6. expired < session => expired < session'  BY <2>2, <1>2
  <2>7. media[s].token <= session => media[s].token <= session'  BY <2>2, <1>2
  <2>8. expired < media[s].token => media[s].token > expired  BY <1>2
  <2> QED  BY <2>3, <2>4, <2>5, <2>6, <2>7, <2>8 DEF GoesOnWell, Good, None
<1> QED  BY <1>1, <1>3, <1>4 DEF WorkerInv

\* The session is given up.
LEMMA GivenUpKeeps ==
    ASSUME WorkerInv, session' = 0, UNCHANGED <<expired, memo, reading>>,
           media' = [s \in Seeks |-> [media[s] EXCEPT !.known = FALSE]]
    PROVE  WorkerInv'
<1>1. /\ media' \in [Seeks -> Requested]
      /\ \A s \in Seeks : media'[s].token = media[s].token /\ ~media'[s].known
  BY ForgetsKnown
<1>2. session' \in 0..MaxTokens  BY WorkerAssumption
<1>3. TokenTypes'  BY <1>1, <1>2 DEF WorkerInv, TokenTypes, None
<1>4. TokensInv'  BY <1>1 DEF WorkerInv, TokensInv, None
<1>5. \A s \in Seeks : GoesOnWell(media[s])'  BY <1>1 DEF GoesOnWell
<1> QED  BY <1>3, <1>4, <1>5 DEF WorkerInv

---------------------------------------------------------------------------
(* The camera of the pairing screen. *)

\* The effect runs, or is cleaned up: no run has a stream.
LEMMA ScannerKeeps ==
    ASSUME CamInv, NEW ph, Scanner(ph)
    PROVE  CamInv'
<1>1. CASE Enabled(ph) = Enabled(phase)
  BY <1>1 DEF Scanner, CamInv, CameraIsOff
<1>2. CASE Enabled(ph) # Enabled(phase)
  <2>1. PICK yes, no : yes = TRUE /\ no = FALSE  OBVIOUS
  <2>2. yes \in BOOLEAN /\ no \in BOOLEAN  BY <2>1, Zenon
  <2> DEFINE new == [NoCam EXCEPT !.live = TRUE, !.at = "asks"]
  <2>3. cam' = [e \in Effects |-> IF Enabled(ph) /\ e = runs + 1 THEN new ELSE Cleaned(cam[e])]
    BY <1>2 DEF Scanner
  <2>4. new \in CamRun /\ new.lit = no
    <3>1. NoCam = [live |-> no, at |-> "none", lit |-> no, timer |-> no]  BY <2>1, Zenon DEF NoCam
    <3>2. new = [NoCam EXCEPT !.live = yes, !.at = "asks"]  BY <2>1, Zenon
    <3> HIDE DEF new
    <3>3. NoCam \in CamRun /\ NoCam.lit = no  BY <2>2, <3>1 DEF CamRun
    <3>4. [NoCam EXCEPT !.live = yes, !.at = "asks"] \in CamRun
      BY <2>2, <3>3 DEF CamRun
    <3>5. [NoCam EXCEPT !.live = yes, !.at = "asks"].lit = no  BY <3>3 DEF CamRun
    <3> QED  BY <3>2, <3>4, <3>5, Zenon
  <2>5. ASSUME NEW e \in Effects
        PROVE  Cleaned(cam[e]) \in CamRun /\ Cleaned(cam[e]).lit = no
    <3>1. cam[e] \in CamRun  BY DEF CamInv
    <3>2. PICK t : t = IF cam[e].live THEN FALSE ELSE cam[e].timer  OBVIOUS
    <3>3. t \in BOOLEAN  BY <3>1, <3>2 DEF CamRun
    <3>4. Cleaned(cam[e]) = [cam[e] EXCEPT !.live = no, !.lit = no, !.timer = t]
      BY <2>1, <3>2, Zenon DEF Cleaned
    <3> QED  BY <2>2, <3>1, <3>3, <3>4 DEF CamRun
  <2> HIDE DEF new
  <2>6. \A e \in Effects : cam'[e] \in CamRun /\ cam'[e].lit = no  BY <2>3, <2>4, <2>5
  <2>7. cam' \in [Effects -> CamRun]  BY <2>3, <2>6
  <2>8. CameraIsOff'  BY <2>1, <2>6, Zenon DEF CameraIsOff
  <2> QED  BY <2>7, <2>8 DEF CamInv
<1> QED  BY <1>1, <1>2

\* One run moves: it has a stream only while it is live.
LEMMA CamMoves ==
    ASSUME CamInv, NEW e \in Effects, NEW c \in CamRun, cam' = [cam EXCEPT ![e] = c],
           c.lit => c.live
    PROVE  CamInv'
<1>1. cam \in [Effects -> CamRun]  BY DEF CamInv
<1>2. /\ cam' \in [Effects -> CamRun]
      /\ cam'[e] = c /\ \A x \in Effects : x # e => cam'[x] = cam[x]
  BY <1>1
<1>3. CameraIsOff'
  <2> SUFFICES ASSUME NEW x \in Effects, cam'[x].lit PROVE cam'[x].live
    BY DEF CameraIsOff
  <2>1. CASE x = e  BY <2>1, <1>2
  <2>2. CASE x # e  BY <2>2, <1>2, Zenon DEF CamInv, CameraIsOff
  <2> QED  BY <2>1, <2>2
<1> QED  BY <1>2, <1>3 DEF CamInv

\* The stream comes, perhaps too late.
LEMMA CameraComesKeeps ==
    ASSUME CamInv, NEW e \in Effects, CameraComes(e)
    PROVE  CamInv'
<1>1. cam \in [Effects -> CamRun] /\ cam[e] \in CamRun  BY DEF CamInv
<1>2. PICK l : l = cam[e].live  OBVIOUS
<1> DEFINE at == IF cam[e].live THEN "plays" ELSE "none"
           c == [cam[e] EXCEPT !.at = at, !.lit = l]
<1>3. at \in {"none", "plays"}  OBVIOUS
<1>4. cam' = [cam EXCEPT ![e].at = at, ![e].lit = l]  BY <1>2, Zenon DEF CameraComes
<1> HIDE DEF at
<1>5. cam' = [cam EXCEPT ![e] = c]  BY <1>1, <1>4
<1>6. l \in BOOLEAN  BY <1>1, <1>2 DEF CamRun
<1>7. c \in CamRun /\ c.lit = l /\ c.live = cam[e].live  BY <1>1, <1>3, <1>6 DEF CamRun
<1>8. c.lit => c.live  BY <1>2, <1>7, Zenon
<1> QED  BY <1>5, <1>7, <1>8, CamMoves

\* It is refused; the timer is set.
LEMMA CamGoesOn ==
    ASSUME CamInv, NEW e \in Effects, CameraRefused(e) \/ SetsTimer(e)
    PROVE  CamInv'
<1>1. cam \in [Effects -> CamRun] /\ cam[e] \in CamRun  BY DEF CamInv
<1>2. cam[e].lit => cam[e].live  BY DEF CamInv, CameraIsOff
<1>3. CASE CameraRefused(e)
  <2> DEFINE c == [cam[e] EXCEPT !.at = "none"]
  <2>1. cam' = [cam EXCEPT ![e].at = "none"]  BY <1>3 DEF CameraRefused
  <2>2. cam' = [cam EXCEPT ![e] = c]  BY <1>1, <2>1
  <2>3. c \in CamRun /\ c.lit = cam[e].lit /\ c.live = cam[e].live  BY <1>1 DEF CamRun
  <2>4. c.lit => c.live  BY <1>2, <2>3, Zenon
  <2> QED  BY <2>2, <2>3, <2>4, CamMoves
<1>4. CASE SetsTimer(e)
  <2>1. PICK yes : yes = TRUE  OBVIOUS
  <2> DEFINE c == [cam[e] EXCEPT !.at = "none", !.timer = yes]
  <2>2. cam' = [cam EXCEPT ![e].at = "none", ![e].timer = yes]  BY <1>4, <2>1, Zenon DEF SetsTimer
  <2>3. cam' = [cam EXCEPT ![e] = c]  BY <1>1, <2>2
  <2>4. yes \in BOOLEAN  BY <2>1, Zenon
  <2>5. c \in CamRun /\ c.lit = cam[e].lit /\ c.live = cam[e].live  BY <1>1, <2>4 DEF CamRun
  <2>6. c.lit => c.live  BY <1>2, <2>5, Zenon
  <2> QED  BY <2>3, <2>5, <2>6, CamMoves
<1> QED  BY <1>3, <1>4

---------------------------------------------------------------------------
(* The claims of the pairing screen. *)

LEMMA ClaimsOfOne ==
    ASSUME ClaimInv
    PROVE  /\ Len(claims) \in {0, 1}
           /\ claims = <<>> <=> Len(claims) = 0
<1>1. claims \in Seq(Claims) /\ Len(claims) <= 1  BY DEF ClaimInv, OneClaim
<1>2. Len(claims) \in Nat  BY <1>1
<1>3. claims = <<>> <=> Len(claims) = 0  BY <1>1, EmptySeq
<1>4. Len(claims) \in {0, 1}
  <2> DEFINE n == Len(claims)
  <2>1. n \in Nat /\ n <= 1  BY <1>1, <1>2
  <2> HIDE DEF n
  <2>2. n \in {0, 1}  BY <2>1
  <2> QED  BY <2>2 DEF n
<1> QED  BY <1>3, <1>4, Zenon

LEMMA OneIsOut ==
    ASSUME ClaimInv, NEW i \in 1..Len(claims)
    PROVE  claims # <<>> /\ claims \in Seq(Claims) /\ Len(claims) = 1 /\ i = 1
<1> DEFINE n == Len(claims)
<1>1. n \in {0, 1} /\ i \in 1..n  BY ClaimsOfOne, Zenon
<1> HIDE DEF n
<1>2. n = 1 /\ i = 1  BY <1>1
<1>3. Len(claims) # 0  BY <1>2 DEF n
<1> QED  BY <1>2, <1>3, ClaimsOfOne DEF n, ClaimInv

\* A claim is begun, by a screen that has none, of a phone without a session.
LEMMA BeginsClaim ==
    ASSUME ClaimInv, claims = <<>>, NEW how \in {"scan", "link", "manual"},
           claims' = Append(claims, Claim(how)), phase' = "claiming", session = 0, route = "pair",
           UNCHANGED <<session, route>>
    PROVE  ClaimInv'
<1>1. Claim(how) \in Claims  BY DEF Claim, Claims
<1>2. claims' \in Seq(Claims) /\ Len(claims') = 1  BY <1>1 DEF ClaimInv
<1>3. OneClaim'  BY <1>2 DEF OneClaim
<1> QED  BY <1>2, <1>3 DEF ClaimInv

\* A claim is over: none is left.
LEMMA NoneIsLeft ==
    ASSUME ClaimInv, NEW i \in 1..Len(claims), claims' = Rest(i)
    PROVE  claims' = <<>>
<1>1. claims \in Seq(Claims) /\ Len(claims) = 1 /\ i = 1
  BY OneIsOut
<1>2. SubSeq(claims, 1, 0) = <<>>  BY <1>1
<1>3. SubSeq(claims, 2, 1) = <<>>  BY <1>1
<1>4. claims' = SubSeq(claims, 1, 0) \o SubSeq(claims, 2, 1)  BY <1>1 DEF Rest
<1> QED  BY <1>2, <1>3, <1>4

\* The screen is mounted, or goes from the camera to the code and back.
LEMMA MountsKeeps ==
    ASSUME ClaimInv, Mounts, route = "pair", UNCHANGED <<session, route>>
    PROVE  ClaimInv'
<1>1. phase = "off" /\ link' = link  BY DEF Mounts
<1>2. claims = <<>>  BY <1>1 DEF ClaimInv
<1>3. CASE link
  <2>1. phase' = "claiming" /\ claims' = Append(claims, Claim("link"))  BY <1>3 DEF Mounts
  <2>2. session = 0  BY <1>3 DEF ClaimInv
  <2> QED  BY <1>2, <2>1, <2>2, BeginsClaim
<1>4. CASE ~link
  <2>1. claims' = claims  BY <1>4 DEF Mounts
  <2> QED  BY <1>1, <1>2, <2>1 DEF ClaimInv, OneClaim
<1> QED  BY <1>3, <1>4

LEMMA ScreenTurns ==
    ASSUME ClaimInv, TypesCode \/ UsesCamera, UNCHANGED <<session, route>>
    PROVE  ClaimInv'
<1>1. phase \in {"scanning", "manual"} /\ UNCHANGED <<claims, link>>
  BY DEF TypesCode, UsesCamera
<1>2. claims = <<>> /\ route = "pair"  BY <1>1 DEF ClaimInv
<1> QED  BY <1>1, <1>2 DEF ClaimInv, OneClaim

\* A code is seen, typed, or the link's effect runs again.
LEMMA ScansKeeps ==
    ASSUME ClaimInv, Settled, UNCHANGED <<session, route>>,
           (\E e \in Effects : Samples(e)) \/ EditsName \/ SubmitsManual
    PROVE  ClaimInv'
<1>1. /\ phase \in {"scanning", "manual"} /\ phase' = "claiming"
      /\ \E how \in {"scan", "link", "manual"} : claims' = Append(claims, Claim(how))
  BY DEF Samples, EditsName, SubmitsManual, OnScan, Goes, ShowManual
<1>2. claims = <<>> /\ route = "pair"  BY <1>1 DEF ClaimInv
<1>3. session = 0  BY <1>2 DEF Settled
<1> QED  BY <1>1, <1>2, <1>3, BeginsClaim

\* The host takes a claim, or refuses it.
LEMMA ClaimAnsweredKeeps ==
    ASSUME ClaimInv, NEW i \in 1..Len(claims), Claimed(i) \/ ClaimFails(i),
           UNCHANGED <<session, route>>
    PROVE  ClaimInv'
<1>1. claims # <<>> /\ claims \in Seq(Claims) /\ Len(claims) = 1 /\ i = 1
  BY OneIsOut
<1>2. phase \in {"claiming", "waiting"} /\ session = 0 /\ route = "pair"  BY <1>1 DEF ClaimInv
<1>3. CASE Claimed(i)
  <2>1. claims' = [claims EXCEPT ![i].at = "waits"] /\ link' = link /\ phase' \in {"claiming", "waiting"}
    BY <1>2, <1>3 DEF Claimed, Goes
  <2>2. claims[1] \in Claims  BY <1>1
  <2>3. [claims[1] EXCEPT !.at = "waits"] \in Claims  BY <2>2 DEF Claims
  <2>4. claims' = [claims EXCEPT ![1] = [claims[1] EXCEPT !.at = "waits"]]  BY <2>1, <1>1
  <2>5. claims' \in Seq(Claims) /\ Len(claims') = 1  BY <1>1, <2>3, <2>4
  <2>6. OneClaim'  BY <2>5 DEF OneClaim
  <2> QED  BY <1>2, <2>1, <2>5, <2>6 DEF ClaimInv
<1>4. CASE ClaimFails(i)
  <2>1. claims' = Rest(i) /\ link' = link  BY <1>4 DEF ClaimFails
  <2>2. claims' = <<>>  BY <2>1, NoneIsLeft
  <2>3. OneClaim' /\ claims' \in Seq(Claims)  BY <2>2 DEF OneClaim
  <2> QED  BY <1>2, <2>1, <2>2, <2>3 DEF ClaimInv
<1> QED  BY <1>3, <1>4

\* The claim is approved, and its session adopted.
LEMMA ApprovedKeeps ==
    ASSUME ClaimInv, NEW i \in 1..Len(claims), Approved(i)
    PROVE  ClaimInv'
<1>1. claims' = Rest(i) /\ phase' = "off" /\ link' = FALSE  BY DEF Approved
<1>2. claims' = <<>>  BY <1>1, NoneIsLeft
<1>3. OneClaim' /\ claims' \in Seq(Claims)  BY <1>2 DEF OneClaim
<1> QED  BY <1>1, <1>2, <1>3 DEF ClaimInv

\* What the pairing screen does not do: another session, or another screen.
LEMMA ElsewhereKeepsClaims ==
    ASSUME ClaimInv, UNCHANGED <<claims, link>>,
           session' \in {session, 0} \/ session # 0,
           \/ phase' = phase /\ (route' = route \/ route' = "pair" \/ phase = "off" \/ route # "pair")
           \/ phase' = "off" /\ session # 0
    PROVE  ClaimInv'
BY DEF ClaimInv, OneClaim

---------------------------------------------------------------------------
(* The phone's steps. *)

\* What each of the invariants is about.
listing == <<lib, cache, screen, load, late, now>>
paging  == <<pages, calls>>
tokens  == <<session, expired, memo, reading, media>>
pairing == <<phase, claims, link, session, route>>

LEMMA OthersStay ==
    ASSUME PhoneInv
    PROVE  /\ UNCHANGED listing => ListInv'
           /\ UNCHANGED paging => PagesInv'
           /\ UNCHANGED tokens => WorkerInv'
           /\ UNCHANGED cam => CamInv'
           /\ UNCHANGED pairing => ClaimInv'
<1>1. UNCHANGED listing => ListInv'
  BY Zenon DEF PhoneInv, listing, ListInv, ListTypes, HonestListing
<1>2. UNCHANGED paging => PagesInv'
  BY Zenon DEF PhoneInv, paging, PagesInv, PageTypes, CallsInv, CursorInv, PagesInOrder
<1>3. UNCHANGED tokens => WorkerInv'
  BY Zenon DEF PhoneInv, tokens, WorkerInv, TokenTypes, TokensInv, GoesOnWell, Good, None
<1>4. UNCHANGED cam => CamInv'
  BY Zenon DEF PhoneInv, CamInv, CameraIsOff
<1>5. UNCHANGED pairing => ClaimInv'
  <2> SUFFICES ASSUME UNCHANGED pairing PROVE ClaimInv'  OBVIOUS
  <2>1. claims' = claims /\ phase' = phase /\ link' = link /\ session' = session /\ route' = route
    BY Zenon DEF pairing
  <2> QED  BY <2>1 DEF PhoneInv, ClaimInv, OneClaim
<1> QED  BY <1>1, <1>2, <1>3, <1>4, <1>5

LEMMA FolderAtKeeps ==
    ASSUME PhoneInv, NEW r, FolderAt(r)
    PROVE  PagesInv'
<1>1. 1 \in AnyKey  BY DEF AnyKey
<1>2. CASE r = "folder"
  BY <1>1, <1>2, OpensFolderKeeps DEF FolderAt, PhoneInv
<1>3. CASE r # "folder"
  BY <1>3, NoFolderKeeps DEF FolderAt, PhoneInv
<1> QED  BY <1>2, <1>3

\* A screen is entered: its list, or its folder, is loaded.
LEMMA EntersKeeps ==
    ASSUME PhoneInv, NEW r, Enters(r), Same
    PROVE  ListInv' /\ PagesInv' /\ route' = r
<1>1. ListAt(r) /\ FolderAt(r) /\ UNCHANGED <<lib, cache, now>> /\ route' = r
  BY DEF Enters, Same
<1> QED  BY <1>1, ListAtKeeps, FolderAtKeeps DEF PhoneInv

LEMMA LoadsKeeps ==
    ASSUME PhoneInv, Loads
    PROVE  PhoneInv'
<1>1. /\ ListAt(route) /\ FolderAt(route) /\ UNCHANGED <<lib, cache, now>>
      /\ UNCHANGED tokens /\ UNCHANGED cam /\ UNCHANGED pairing
  BY Zenon DEF Loads, Same, workerVars, pairVars, tokens, pairing
<1> QED  BY <1>1, ListAtKeeps, FolderAtKeeps, OthersStay DEF PhoneInv

LEMMA GatesKeeps ==
    ASSUME PhoneInv, Gates
    PROVE  PhoneInv'
<1>1. /\ UNCHANGED tokens /\ UNCHANGED <<session, claims, link>>
      /\ Same /\ Enters(IF session = 0 THEN "pair" ELSE "library")
  BY Zenon DEF Gates, workerVars, tokens
<1>2. ListInv' /\ PagesInv' /\ route' = IF session = 0 THEN "pair" ELSE "library"
  BY <1>1, EntersKeeps
<1>3. CASE session = 0
  <2>1. phase' = phase /\ cam' = cam /\ route' = "pair"  BY <1>2, <1>3 DEF Gates
  <2>2. ClaimInv'  BY <1>1, <2>1, ElsewhereKeepsClaims DEF PhoneInv
  <2> QED  BY <1>1, <1>2, <2>1, <2>2, OthersStay DEF PhoneInv
<1>4. CASE session # 0
  <2>1. phase' = "off" /\ Scanner("off")  BY <1>4 DEF Gates
  <2>2. ClaimInv'  BY <1>1, <1>4, <2>1, ElsewhereKeepsClaims DEF PhoneInv
  <2>3. CamInv'  BY <2>1, ScannerKeeps DEF PhoneInv
  <2> QED  BY <1>1, <1>2, <2>2, <2>3, OthersStay DEF PhoneInv
<1> QED  BY <1>3, <1>4

LEMMA VisitsKeeps ==
    ASSUME PhoneInv, NEW r, Visits(r)
    PROVE  PhoneInv'
<1>1. /\ UNCHANGED tokens /\ UNCHANGED cam /\ UNCHANGED <<session, claims, link, phase>>
      /\ Same /\ Enters(r) /\ route # "pair"
  BY Zenon DEF Visits, workerVars, pairVars, tokens
<1>2. ListInv' /\ PagesInv' /\ route' = r  BY <1>1, EntersKeeps
<1>3. ClaimInv'  BY <1>1, <1>2, ElsewhereKeepsClaims DEF PhoneInv
<1> QED  BY <1>1, <1>2, <1>3, OthersStay DEF PhoneInv

LEMMA UnpairsKeeps ==
    ASSUME PhoneInv, Unpairs
    PROVE  PhoneInv'
<1>1. /\ UNCHANGED tokens /\ UNCHANGED cam /\ UNCHANGED <<session, claims, link, phase>>
      /\ Same /\ Enters("pair")
  BY Zenon DEF Unpairs, workerVars, pairVars, tokens
<1>2. ListInv' /\ PagesInv' /\ route' = "pair"  BY <1>1, EntersKeeps
<1>3. ClaimInv'  BY <1>1, <1>2, ElsewhereKeepsClaims DEF PhoneInv
<1> QED  BY <1>1, <1>2, <1>3, OthersStay DEF PhoneInv

LEMMA SignsOutKeeps ==
    ASSUME PhoneInv, SignsOut
    PROVE  PhoneInv'
<1>1. /\ session' = 0 /\ cache' = Nowhere /\ UNCHANGED <<lib, screen, load, late, now>>
      /\ UNCHANGED paging /\ UNCHANGED cam /\ UNCHANGED <<expired, memo, reading>>
      /\ UNCHANGED <<phase, claims, link, route>>
      /\ media' = [s \in Seeks |-> [media[s] EXCEPT !.known = FALSE]]
  BY Zenon DEF SignsOut, Forgets, pairVars, paging
<1>2. ListInv'  BY <1>1, ForgottenListKeeps DEF PhoneInv
<1>3. WorkerInv'  BY <1>1, GivenUpKeeps DEF PhoneInv
<1>4. ClaimInv'  BY <1>1, ElsewhereKeepsClaims DEF PhoneInv
<1> QED  BY <1>1, <1>2, <1>3, <1>4, OthersStay DEF PhoneInv

LEMMA RenewsKeeps ==
    ASSUME PhoneInv, Renews
    PROVE  PhoneInv'
<1>1. /\ UNCHANGED listing /\ UNCHANGED paging /\ UNCHANGED cam
      /\ UNCHANGED <<expired, memo, reading, media, phase, claims, link, route>>
  BY Zenon DEF Renews, Same, SameShelf, SameRest, shelfVars, workerVars, pairVars, here,
               listing, paging
<1>2. session \in 1..(MaxTokens - 1) /\ session' = session + 1  BY DEF Renews
<1>3. session # 0 /\ session' \in 0..MaxTokens /\ session <= session'
  BY <1>2, WorkerAssumption
<1>4. WorkerInv'  BY <1>1, <1>3, NewTokenKeeps DEF PhoneInv
<1>5. ClaimInv'  BY <1>1, <1>3, ElsewhereKeepsClaims DEF PhoneInv
<1> QED  BY <1>1, <1>4, <1>5, OthersStay DEF PhoneInv

LEMMA AdoptsKeeps ==
    ASSUME PhoneInv, Adopts
    PROVE  PhoneInv'
<1>1. PICK i \in 1..Len(claims) : Approved(i)  BY DEF Adopts
<1>2. Enters("library") /\ Same /\ session' = MaxTokens
      /\ UNCHANGED <<expired, memo, reading, media>>
  BY Zenon DEF Adopts, workerVars
<1>3. ListInv' /\ PagesInv'  BY <1>2, EntersKeeps
<1>4. WorkerInv'
  <2>1. session \in 0..MaxTokens /\ MaxTokens \in Nat
    BY WorkerAssumption DEF PhoneInv, WorkerInv, TokenTypes
  <2>2. session' \in 0..MaxTokens /\ session <= session'  BY <1>2, <2>1
  <2> QED  BY <1>2, <2>2, NewTokenKeeps DEF PhoneInv
<1>5. CamInv'
  <2>1. Scanner("off")  BY <1>1 DEF Approved
  <2> QED  BY <2>1, ScannerKeeps DEF PhoneInv
<1>6. ClaimInv'  BY <1>1, ApprovedKeeps DEF PhoneInv
<1> QED  BY <1>3, <1>4, <1>5, <1>6 DEF PhoneInv

\* Requests, and the list's answers.
LEMMA RequestsKeep ==
    ASSUME PhoneInv, NEW a, Requests(a)
    PROVE  PhoneInv'
<1>1. CASE ListReached
  <2>1. /\ ListAnswers /\ UNCHANGED <<lib, now>>
        /\ UNCHANGED paging /\ UNCHANGED tokens /\ UNCHANGED cam /\ UNCHANGED pairing
    BY <1>1, Zenon DEF ListReached, SameRest, workerVars, pairVars, here, paging, tokens, pairing
  <2> QED  BY <2>1, ListAnswersKeeps, OthersStay DEF PhoneInv
<1>2. CASE ListUnreached
  <2>1. /\ ListFails /\ UNCHANGED <<lib, now>>
        /\ UNCHANGED paging /\ UNCHANGED tokens /\ UNCHANGED cam /\ UNCHANGED pairing
    BY <1>2, Zenon DEF ListUnreached, Unreached, SameRest, workerVars, pairVars, here,
                       paging, tokens, pairing
  <2> QED  BY <2>1, ListFailsKeeps, OthersStay DEF PhoneInv
<1>3. CASE List /\ (TriesNext(a) \/ StreamOpens \/ MeAnswers \/ Unreached(a))
  <2>1. /\ UNCHANGED listing /\ UNCHANGED paging /\ UNCHANGED tokens /\ UNCHANGED cam
        /\ UNCHANGED pairing
    BY <1>3, Zenon DEF List, TriesNext, StreamOpens, MeAnswers, Unreached, SameShelf, SameRest,
                       shelfVars, workerVars, pairVars, here, listing, paging, tokens, pairing
  <2> QED  BY <2>1, OthersStay DEF PhoneInv
<1> QED  BY <1>1, <1>2, <1>3 DEF Requests

\* What is neither of the list's nor of a folder's, and of no token, camera or claim.
LEMMA RestKeeps ==
    ASSUME PhoneInv,
           \/ Reconnects /\ List
           \/ StreamEnds /\ List
           \/ AsksMeHere \/ Probes \/ Plays \/ OfShell
    PROVE  PhoneInv'
<1>1. /\ UNCHANGED listing /\ UNCHANGED paging /\ UNCHANGED tokens /\ UNCHANGED cam
      /\ UNCHANGED pairing
  <2>1. CASE (Reconnects \/ StreamEnds) /\ List
    BY <2>1, Zenon DEF Reconnects, StreamEnds, List, SameShelf, SameRest,
                       shelfVars, workerVars, pairVars, here, listing, paging, tokens, pairing
  <2>2. CASE AsksMeHere \/ Probes
    BY <2>2, Zenon DEF AsksMeHere, AsksMe, Probes, List, SameShelf, SameRest,
                       shelfVars, workerVars, pairVars, here, listing, paging, tokens, pairing
  <2>3. CASE Plays
    BY <2>3, Zenon DEF Plays, Same, SameShelf, shelfVars, workerVars, pairVars,
                       listing, paging, tokens, pairing
  <2>4. CASE OfShell
    BY <2>4, Zenon DEF OfShell, Same, SameShelf, shelfVars, pairVars, here,
                       listing, paging, tokens, pairing
  <2> QED  BY <2>1, <2>2, <2>3, <2>4
<1> QED  BY <1>1, OthersStay DEF PhoneInv

\* The list's cache, its loads, and the events that start one.
LEMMA ListKeeps ==
    ASSUME PhoneInv,
           CacheIsRead \/ Writes \/ Retries \/ (\E seen \in BOOLEAN : ServerChanges(seen)) \/ Around
    PROVE  PhoneInv'
<1>1. /\ UNCHANGED paging /\ UNCHANGED tokens /\ UNCHANGED cam /\ UNCHANGED pairing
  <2>1. CASE CacheIsRead
    BY <2>1, Zenon DEF CacheIsRead, SameRest, workerVars, pairVars, here, paging, tokens, pairing
  <2>2. CASE Writes
    BY <2>2, Zenon DEF Writes, SameReach, SameRest, reachVars, workerVars, pairVars, here,
                       paging, tokens, pairing
  <2>3. CASE Retries
    BY <2>3, Zenon DEF Retries, SameRest, workerVars, pairVars, here, paging, tokens, pairing
  <2>4. CASE \E seen \in BOOLEAN : ServerChanges(seen)
    BY <2>4, Zenon DEF ServerChanges, SameRest, workerVars, pairVars, here, paging, tokens, pairing
  <2>5. CASE Around
    BY <2>5, Zenon DEF Around, Moves, HearsEdge, Ticks, SameShelf, SameRest, shelfVars, workerVars,
                       pairVars, here, paging, tokens, pairing
  <2> QED  BY <2>1, <2>2, <2>3, <2>4, <2>5
<1>2. ListInv'
  <2>1. CASE CacheIsRead
    BY <2>1, ReadsCacheKeeps DEF CacheIsRead, PhoneInv
  <2>2. CASE Writes
    BY <2>2, WritesListKeeps DEF Writes, SameReach, reachVars, PhoneInv
  <2>3. CASE Retries
    <3>1. Runs /\ UNCHANGED <<lib, cache, now>>  BY <2>3, Zenon DEF Retries, Same
    <3>2. /\ lib'.v \in Nat /\ lib'.seen \in BOOLEAN /\ lib' = [v |-> lib'.v, seen |-> lib'.seen]
          /\ cache' \in [v : Nat, at : Nat]
      BY <3>1 DEF PhoneInv, ListInv, ListTypes
    <3> QED  BY <3>1, <3>2, RunsKeeps DEF PhoneInv
  <2>4. CASE \E seen \in BOOLEAN : ServerChanges(seen)
    <3>1. PICK seen \in BOOLEAN : ServerChanges(seen)  BY <2>4
    <3>2. Changes(seen) /\ (Refetches \/ UNCHANGED listVars) /\ now' = now
      BY <3>1, Zenon DEF ServerChanges, Same
    <3> QED  BY <3>2, ChangesKeeps DEF PhoneInv
  <2>5. CASE Around
    <3>1. UNCHANGED <<lib, cache, screen, load, late>> /\ (now' = now \/ now' = now + 1)
      BY <2>5, Zenon DEF Around, Moves, HearsEdge, Ticks, SameShelf, shelfVars
    <3>2. UNCHANGED listing \/ now' = now + 1  BY <3>1, Zenon DEF listing
    <3> QED  BY <3>1, <3>2, TicksKeepList, OthersStay DEF PhoneInv
  <2> QED  BY <2>1, <2>2, <2>3, <2>4, <2>5
<1> QED  BY <1>1, <1>2, OthersStay DEF PhoneInv

\* A folder.
LEMMA FolderKeeps ==
    ASSUME PhoneInv, Folder
    PROVE  PhoneInv'
<1>1. /\ UNCHANGED listing /\ UNCHANGED tokens /\ UNCHANGED cam /\ UNCHANGED pairing
  BY Zenon DEF Folder, SameRest, listVars, workerVars, pairVars, here, listing, tokens, pairing
<1>2. PagesInv'
  <2>1. \/ \E k \in Keys : OpensFolder(k)
        \/ LoadsMore
        \/ \E c \in calls : FirstPage(c) \/ MorePages(c) \/ PageFails(c)
    BY Zenon DEF Folder
  <2>2. \A k \in Keys : k \in AnyKey  BY DEF AnyKey
  <2> QED
    BY <2>1, <2>2, OpensFolderKeeps, LoadsMoreKeeps, FirstPageKeeps, MorePagesKeeps, PageFailsKeeps
       DEF PhoneInv
<1> QED  BY <1>1, <1>2, OthersStay DEF PhoneInv

\* The worker, and the server's clock.
LEMMA WorkerKeeps ==
    ASSUME PhoneInv, OfWorker \/ TokenExpires
    PROVE  PhoneInv'
<1>1. /\ UNCHANGED listing /\ UNCHANGED paging /\ UNCHANGED cam /\ UNCHANGED pairing
      /\ UNCHANGED session
  <2>1. CASE OfWorker
    BY <2>1, Zenon DEF OfWorker, SameReach, SameShelf, reachVars, shelfVars, pairVars, here,
                       listing, paging, pairing
  <2>2. CASE TokenExpires
    BY <2>2, Zenon DEF TokenExpires, Same, SameShelf, shelfVars, pairVars, here,
                       listing, paging, pairing
  <2> QED  BY <2>1, <2>2
<1>2. WorkerInv'
  <2>1. \/ \E s \in Seeks : Seeking(s) \/ AsksToken(s) \/ Answers401(s) \/ WorkerAnswers(s)
        \/ SeesStore \/ ReadEnds \/ MemoAges \/ Expires
    BY Zenon DEF OfWorker, TokenExpires
  <2> QED
    BY <2>1, <1>1, SeekingKeeps, AsksTokenKeeps, Answers401Keeps, WorkerAnswersKeeps,
       SeesStoreKeeps, ReadEndsKeeps, MemoAgesKeeps, ExpiresKeeps
       DEF PhoneInv
<1> QED  BY <1>1, <1>2, OthersStay DEF PhoneInv

\* The pairing screen.
LEMMA PairsKeeps ==
    ASSUME PhoneInv, Pairs
    PROVE  PhoneInv'
<1>1. /\ UNCHANGED listing /\ UNCHANGED paging /\ UNCHANGED tokens
      /\ UNCHANGED <<session, route>>
  BY Zenon DEF Pairs, InPair, Same, SameShelf, here, workerVars, shelfVars, listing, paging, tokens
<1>2. CamInv'
  <2>1. \/ \E ph : Scanner(ph)
        \/ UNCHANGED cam
        \/ \E e \in Effects : CameraComes(e) \/ CameraRefused(e) \/ SetsTimer(e)
    BY Zenon DEF Pairs, Mounts, Goes, Samples, OnScan, TypesCode, UsesCamera, SubmitsManual,
                 EditsName, Claimed, ClaimFails
  <2> QED  BY <2>1, ScannerKeeps, CameraComesKeeps, CamGoesOn, OthersStay DEF PhoneInv
<1>3. ClaimInv'
  <2>1. \/ Mounts /\ route = "pair"
        \/ \E e \in Effects : CameraComes(e) \/ CameraRefused(e) \/ SetsTimer(e)
        \/ TypesCode \/ UsesCamera
        \/ Settled /\ ((\E e \in Effects : Samples(e)) \/ EditsName \/ SubmitsManual)
        \/ \E i \in 1..Len(claims) : Claimed(i) \/ ClaimFails(i)
    BY Zenon DEF Pairs
  <2>2. CASE \E e \in Effects : CameraComes(e) \/ CameraRefused(e) \/ SetsTimer(e)
    <3>1. UNCHANGED pairing
      BY <1>1, <2>2, Zenon DEF CameraComes, CameraRefused, SetsTimer, pairing
    <3> QED  BY <3>1, OthersStay
  <2> QED
    BY <1>1, <2>1, <2>2, MountsKeeps, ScreenTurns, ScansKeeps, ClaimAnsweredKeeps DEF PhoneInv
<1> QED  BY <1>1, <1>2, <1>3, OthersStay DEF PhoneInv

LEMMA PhoneKept ==
    ASSUME PhoneInv, PhoneNext
    PROVE  PhoneInv'
<1>1. \/ Loads \/ Gates \/ Unpairs \/ SignsOut \/ Renews \/ Adopts
      \/ \E r : Visits(r)
      \/ \E a \in Asks : Requests(a)
      \/ \/ Reconnects /\ List
         \/ StreamEnds /\ List
         \/ AsksMeHere \/ Probes \/ Plays \/ OfShell
      \/ CacheIsRead \/ Writes \/ Retries \/ (\E seen \in BOOLEAN : ServerChanges(seen)) \/ Around
      \/ Folder \/ OfWorker \/ TokenExpires \/ Pairs
  BY Zenon DEF PhoneNext
<1> QED
  BY <1>1, LoadsKeeps, GatesKeeps, UnpairsKeeps, SignsOutKeeps, RenewsKeeps, AdoptsKeeps,
     VisitsKeeps, RequestsKeep, RestKeeps, ListKeeps, FolderKeeps, WorkerKeeps, PairsKeeps

LEMMA PhoneRests ==
    ASSUME PhoneInv, UNCHANGED phoneVars
    PROVE  PhoneInv'
<1>1. /\ UNCHANGED listing /\ UNCHANGED paging /\ UNCHANGED tokens /\ UNCHANGED cam
      /\ UNCHANGED pairing
  BY Zenon DEF phoneVars, reachVars, shelfVars, workerVars, pairVars, here,
               listing, paging, tokens, pairing
<1> QED  BY <1>1, OthersStay DEF PhoneInv

\* How a phone starts: of a session and a cached list that may be there.
LEMMA PhoneStarts ==
    ASSUME NEW s \in 0..MaxTokens, NEW c \in [v : Nat, at : Nat], NEW l,
           session = s, now = 0, ShelfInit(c), WorkerInit(0), PairInit(l), l => s = 0
    PROVE  PhoneInv
<1>1. ListInv
  <2>1. screen = EmptyList /\ load = NoLoad /\ late = 0 /\ cache = c /\ lib = [v |-> 1, seen |-> TRUE]
    BY DEF ShelfInit
  <2>2. PICK no, yes : no = FALSE /\ yes = TRUE  OBVIOUS
  <2>3. no \in BOOLEAN /\ yes \in BOOLEAN  BY <2>2, Zenon
  <2>4. screen = [v |-> 0, stale |-> no, error |-> no, loading |-> no, age |-> 0]
    BY <2>1, <2>2, Zenon DEF EmptyList
  <2>5. screen \in Screens /\ screen.v = 0 /\ screen.error = no  BY <2>3, <2>4 DEF Screens
  <2>6. ~screen.error  BY <2>2, <2>5, Zenon
  <2>7. lib = [v |-> 1, seen |-> yes]  BY <2>1, <2>2, Zenon
  <2>8. lib \in [v : Nat, seen : BOOLEAN]  BY <2>3, <2>7
  <2>9. load \in Loading  BY <2>1 DEF NoLoad, Loading
  <2> QED  BY <2>1, <2>5, <2>6, <2>8, <2>9 DEF ListInv, ListTypes, HonestListing
<1>2. PagesInv
  <2>1. pages = NoPages /\ calls = {}  BY DEF ShelfInit
  <2>2. <<>> \in Seq([key : AnyKey, page : Nat])  OBVIOUS
  <2>3. PageTypes  BY <2>1, <2>2 DEF PageTypes, PageList, NoPages, AnyKey
  <2>4. Len(pages.rows) = 0 /\ pages.cursor = 0  BY <2>1 DEF NoPages
  <2> QED  BY <2>1, <2>3, <2>4 DEF PagesInv, CallsInv, CursorInv, PagesInOrder
<1>3. WorkerInv
  <2>1. /\ expired = 0 /\ memo = None /\ reading = Unread
        /\ media = [x \in Seeks |-> NoSeek]
    BY DEF WorkerInit
  <2>2. PICK no : no = FALSE  OBVIOUS
  <2>3. no \in BOOLEAN  BY <2>2, Zenon
  <2>4. 0 \in 0..MaxTokens /\ None \in 0..None  BY WorkerAssumption DEF None
  <2>5. reading = [out |-> no, seen |-> None]  BY <2>1, <2>2, Zenon DEF Unread
  <2>6. reading \in [out : BOOLEAN, seen : 0..None] /\ reading.seen = None  BY <2>3, <2>4, <2>5
  <2>7. NoSeek = [at |-> "idle", token |-> 0, known |-> no]  BY <2>2, Zenon DEF NoSeek
  <2>8. NoSeek \in Requested /\ NoSeek.token = 0 /\ NoSeek.known = no
    BY <2>3, <2>4, <2>7 DEF Requested
  <2>9. media \in [Seeks -> Requested] /\ \A x \in Seeks : media[x] = NoSeek  BY <2>1, <2>8
  <2>10. ~NoSeek.known  BY <2>2, <2>8, Zenon
  <2>11. TokenTypes  BY <2>1, <2>4, <2>6, <2>9 DEF TokenTypes
  <2>12. TokensInv  BY <2>1, <2>6, <2>8, <2>9 DEF TokensInv
  <2>13. \A x \in Seeks : GoesOnWell(media[x])  BY <2>9, <2>10 DEF GoesOnWell
  <2> QED  BY <2>11, <2>12, <2>13 DEF WorkerInv
<1>4. CamInv
  <2>1. cam = [e \in Effects |-> NoCam]  BY DEF PairInit
  <2>2. PICK no : no = FALSE  OBVIOUS
  <2>3. no \in BOOLEAN  BY <2>2, Zenon
  <2>4. NoCam = [live |-> no, at |-> "none", lit |-> no, timer |-> no]  BY <2>2, Zenon DEF NoCam
  <2>5. NoCam \in CamRun /\ NoCam.lit = no  BY <2>3, <2>4 DEF CamRun
  <2>6. ~NoCam.lit  BY <2>2, <2>5, Zenon
  <2> QED  BY <2>1, <2>5, <2>6 DEF CamInv, CameraIsOff
<1>5. ClaimInv
  <2>1. claims = <<>> /\ phase = "off" /\ link = l  BY DEF PairInit
  <2> QED  BY <2>1 DEF ClaimInv, OneClaim
<1> QED  BY <1>1, <1>2, <1>3, <1>4, <1>5 DEF PhoneInv

LEMMA PhoneIsGood ==
    ASSUME PhoneInv
    PROVE  PhoneHolds
<1>1. HonestListing /\ PagesInOrder /\ CameraIsOff /\ OneClaim
  BY Zenon DEF PhoneInv, ListInv, PagesInv, CamInv, ClaimInv
<1>2. GoodTokenIsUsed
  <2> SUFFICES ASSUME NEW s \in Seeks, media[s].at = "refused", media[s].known PROVE FALSE
    BY DEF GoodTokenIsUsed
  <2>1. GoesOnWell(media[s])  BY DEF PhoneInv, WorkerInv
  <2> QED  BY <2>1 DEF GoesOnWell
<1> QED  BY <1>1, <1>2 DEF PhoneHolds

---------------------------------------------------------------------------
(* The servers of the desktop client. *)

LEMMA SummariesAreShown ==
    ASSUME NEW es \in [Rows -> Client]
    PROVE  Summaries(es) \in Shown /\ Summaries(es) # Nothing
<1>1. \A r \in Rows : Summary(es[r]) \in Says  BY DEF Summary, Says
<1>2. Summaries(es) \in [Rows -> Says]  BY <1>1 DEF Summaries
<1>3. Nothing \notin [Rows -> Says]  BY HubAssumption DEF Says
<1> QED  BY <1>2, <1>3 DEF Shown

\* A client that says the same is summed up the same.
LEMMA SameSummary ==
    ASSUME NEW e, NEW f, e.in <=> f.in, e.paired <=> f.paired, e.started <=> f.started,
           e.conn = f.conn
    PROVE  Summary(e) = Summary(f)
BY DEF Summary

LEMMA SummariesStay ==
    ASSUME NEW es \in [Rows -> Client], NEW r \in Rows, NEW e \in Client,
           Summary(e) = Summary(es[r])
    PROVE  Summaries([es EXCEPT ![r] = e]) = Summaries(es)
BY DEF Summaries

\* What is sent to the window is what there is; an answer that is on its way is older.
LEMMA EmitsWay ==
    ASSUME entries' \in [Rows -> Client], NEW w \in ServersScreen, Emits(entries', w)
    PROVE  win' \in ServersScreen /\ WayInv'
<1>1. PICK raced : raced = (w.raced \/ w.answer # Nothing)  OBVIOUS
<1>2. raced \in BOOLEAN  BY <1>1, Zenon
<1> DEFINE all == Summaries(entries')
<1>3. win' = [w EXCEPT !.push = all, !.raced = raced]  BY <1>1, Zenon DEF Emits
<1>4. all \in Shown /\ all # Nothing  BY SummariesAreShown
<1> HIDE DEF all
<1>5. /\ win' \in ServersScreen
      /\ win'.push = all /\ win'.raced = raced /\ win'.answer = w.answer
  BY <1>2, <1>3, <1>4 DEF ServersScreen
<1>6. win'.raced \/ win'.answer = Nothing  BY <1>1, <1>5, Zenon
<1> QED  BY <1>4, <1>5, <1>6 DEF WayInv, all

\* Nothing is said, and nothing has changed that the window shows.
LEMMA WayStays ==
    ASSUME WayInv, Summaries(entries)' = Summaries(entries), stray => stray', Quiet' => Quiet,
           win'.rows = win.rows, win'.answer = win.answer, win'.push = win.push,
           win'.asked = win.asked, win'.raced = win.raced
    PROVE  WayInv'
BY Zenon DEF WayInv

\* One row changes, with its session.
LEMMA RowMoves ==
    ASSUME HubInv, NEW r \in Rows, NEW e \in Client, entries' = [entries EXCEPT ![r] = e],
           list' \subseteq Rows,
           \A x \in Rows \ {r} : (x \in list' <=> x \in list) /\ (x \in vault' <=> x \in vault),
           stray => stray', r \in list' <=> e.in,
           e.paired <=> e.held, e.held => e.in, e.stream => e.in, e.asked => e.in,
           ~stray' => (r \in vault' <=> e.held)
    PROVE  RowsHold'
<1>1. entries \in [Rows -> Client]  BY DEF HubInv, HubTypes, RowsHold
<1>2. /\ entries' \in [Rows -> Client]
      /\ entries'[r] = e /\ \A x \in Rows : x # r => entries'[x] = entries[x]
  BY <1>1
<1>3. ASSUME NEW x \in Rows PROVE RowInv(x)'
  <2>1. CASE x = r  BY <2>1, <1>2, Zenon DEF RowInv
  <2>2. CASE x # r
    <3>1. RowInv(x) /\ entries'[x] = entries[x]  BY <1>2, <2>2, Zenon DEF HubInv, RowsHold
    <3>2. (x \in list' <=> x \in list) /\ (x \in vault' <=> x \in vault)  BY <2>2
    <3> QED  BY <3>1, <3>2, Zenon DEF RowInv
  <2> QED  BY <2>1, <2>2
<1> QED  BY <1>2, <1>3 DEF RowsHold

\* No row changes.
LEMMA RowsStay ==
    ASSUME HubInv, entries' = entries, list' = list,
           (vault' = vault /\ (stray => stray')) \/ stray'
    PROVE  RowsHold'
<1>1. entries' \in [Rows -> Client] /\ list' \subseteq Rows  BY DEF HubInv, HubTypes, RowsHold
<1>2. ASSUME NEW x \in Rows PROVE RowInv(x)'
  <2>1. RowInv(x)  BY Zenon DEF HubInv, RowsHold
  <2> QED  BY <2>1, Zenon DEF RowInv
<1> QED  BY <1>1, <1>2 DEF RowsHold

LEMMA NoClientIs ==
    /\ NoClient \in Client
    /\ ~NoClient.in /\ ~NoClient.held /\ ~NoClient.paired /\ ~NoClient.stream /\ ~NoClient.asked
<1>1. PICK no : no = FALSE  OBVIOUS
<1>2. no \in BOOLEAN  BY <1>1, Zenon
<1>3. NoClient = [in |-> no, held |-> no, paired |-> no, started |-> no, stream |-> no,
                  asked |-> no, conn |-> "offline"]
  BY <1>1, Zenon DEF NoClient
<1>4. /\ NoClient \in Client
      /\ NoClient.in = no /\ NoClient.held = no /\ NoClient.paired = no /\ NoClient.stream = no
      /\ NoClient.asked = no
  BY <1>2, <1>3 DEF Client
<1> QED  BY <1>1, <1>4, Zenon

LEMMA FreshIs ==
    ASSUME NEW r
    PROVE  /\ Fresh(r) \in Client
           /\ Fresh(r).in /\ ~Fresh(r).stream /\ ~Fresh(r).asked
           /\ Fresh(r).held <=> r \in vault
           /\ Fresh(r).paired <=> Fresh(r).held
<1>1. PICK yes, h : yes = TRUE /\ h = HasSession(r)  OBVIOUS
<1>2. yes \in BOOLEAN /\ h \in BOOLEAN
  <2>1. yes \in BOOLEAN  BY <1>1, Zenon
  <2>2. HasSession(r) \in BOOLEAN  BY DEF HasSession
  <2> QED  BY <1>1, <2>1, <2>2, Zenon
<1> DEFINE f == [NoClient EXCEPT !.in = yes, !.held = h, !.paired = h]
<1>3. Fresh(r) = f  BY <1>1, Zenon DEF Fresh
<1>4. /\ f \in Client /\ f.in = yes /\ f.held = h /\ f.paired = h
      /\ f.stream = NoClient.stream /\ f.asked = NoClient.asked
  BY <1>2, NoClientIs DEF Client
<1> HIDE DEF f
<1>5. h <=> r \in vault  BY <1>1, Zenon DEF HasSession
<1> QED  BY <1>1, <1>3, <1>4, <1>5, NoClientIs, Zenon

LEMMA ClosedIs ==
    ASSUME NEW e \in Client
    PROVE  /\ ClosedOf(e) \in Client
           /\ ~ClosedOf(e).held /\ ~ClosedOf(e).paired /\ ~ClosedOf(e).stream
           /\ ClosedOf(e).in = e.in /\ ClosedOf(e).asked = e.asked
<1>1. PICK no : no = FALSE  OBVIOUS
<1>2. no \in BOOLEAN  BY <1>1, Zenon
<1> DEFINE f == [e EXCEPT !.held = no, !.paired = no, !.stream = no, !.conn = "connecting"]
<1>3. ClosedOf(e) = f  BY <1>1, Zenon DEF ClosedOf
<1>4. /\ f \in Client /\ f.held = no /\ f.paired = no /\ f.stream = no
      /\ f.in = e.in /\ f.asked = e.asked
  BY <1>2 DEF Client
<1> HIDE DEF f
<1> QED  BY <1>1, <1>3, <1>4, Zenon

\* The window hears the list that it asked for, or is sent one.
LEMMA HearsKeeps ==
    ASSUME HubInv, Hears
    PROVE  HubInv'
<1>1. UNCHANGED <<list, vault, entries, ipc, stray>>
  BY Zenon DEF Hears, AnswersList, HearsAnswer, HearsPush
<1>2. RowsHold'  BY <1>1, RowsStay
<1> DEFINE all == Summaries(entries)
<1>3. all \in Shown /\ all # Nothing /\ Summaries(entries)' = all
  BY <1>1, SummariesAreShown DEF HubInv, HubTypes, RowsHold
<1>4. PICK no : no = FALSE  OBVIOUS
<1>5. no \in BOOLEAN  BY <1>4, Zenon
<1>6. win \in ServersScreen  BY DEF HubInv, HubTypes, RowsHold
<1>7. ~stray' /\ Quiet' => ~stray /\ Quiet  BY <1>1, Zenon DEF Quiet
<1> HIDE DEF all
<1>8. win' \in ServersScreen /\ WayInv'
  <2>1. CASE AnswersList
    <3>1. win' = [win EXCEPT !.asked = no, !.answer = all]
      BY <2>1, <1>4, Zenon DEF AnswersList, all
    <3>2. /\ win' \in ServersScreen /\ win'.answer = all /\ win'.push = win.push
          /\ win'.raced = win.raced
      BY <3>1, <1>3, <1>5, <1>6 DEF ServersScreen
    <3> QED  BY <3>2, <1>3, <1>7, Zenon DEF HubInv, WayInv, all
  <2>2. CASE HearsAnswer
    <3>1. win' = [win EXCEPT !.rows = win.answer, !.answer = Nothing] /\ win.answer # Nothing
      BY <2>2 DEF HearsAnswer
    <3>2. /\ win' \in ServersScreen /\ win'.answer = Nothing /\ win'.push = win.push
          /\ win'.raced = win.raced /\ win'.rows = win.answer /\ win'.asked = win.asked
      BY <3>1, <1>6 DEF ServersScreen
    <3> QED  BY <3>1, <3>2, <1>3, <1>7, Zenon DEF HubInv, WayInv, all
  <2>3. CASE HearsPush
    <3>1. win' = [win EXCEPT !.rows = win.push, !.push = Nothing] /\ win.push # Nothing
      BY <2>3 DEF HearsPush
    <3>2. /\ win' \in ServersScreen /\ win'.answer = win.answer /\ win'.push = Nothing
          /\ win'.raced = win.raced /\ win'.rows = win.push /\ win'.asked = win.asked
      BY <3>1, <1>6 DEF ServersScreen
    <3> QED  BY <3>1, <3>2, <1>3, <1>7, Zenon DEF HubInv, WayInv, all
  <2> QED  BY <2>1, <2>2, <2>3 DEF Hears
<1> QED  BY <1>1, <1>2, <1>8 DEF HubInv, HubTypes, RowsHold

\* The window alone moves: what it shows, and what is on its way, is as it was.
LEMMA ScreenMoves ==
    ASSUME HubInv, UNCHANGED <<list, vault, entries, stray>>, win' \in ServersScreen,
           ipc' \subseteq Called,
           \A c \in ipc : c.kind # "pair" => c \in ipc',
           win'.rows = win.rows, win'.answer = win.answer, win'.push = win.push,
           win'.asked = win.asked, win'.raced = win.raced
    PROVE  HubInv'
<1>1. RowsHold'  BY RowsStay
<1>2. Quiet' => Quiet  BY Zenon DEF Quiet
<1>3. WayInv'  BY <1>2, WayStays DEF HubInv
<1> QED  BY <1>1, <1>3 DEF HubInv, HubTypes, RowsHold

\* The dialogs.
LEMMA DialogKeeps ==
    ASSUME HubInv, Submits \/ ClosesDialog \/ \E c \in ipc : PairFails(c)
    PROVE  HubInv'
<1>1. UNCHANGED <<list, vault, entries, stray>>
  BY Zenon DEF Submits, ClosesDialog, PairFails
<1>2. win \in ServersScreen /\ ipc \subseteq Called
  BY DEF HubInv, HubTypes, RowsHold
<1>3. PICK yes, no : yes = TRUE /\ no = FALSE  OBVIOUS
<1>4. yes \in BOOLEAN /\ no \in BOOLEAN  BY <1>3, Zenon
<1>5. CASE Submits
  <2>1. /\ win' = [win EXCEPT !.waiting = yes] /\ win.pairing # Nothing
        /\ ipc' = ipc \cup {Calls("pair", win.pairing, "waits")}
    BY <1>3, <1>5, Zenon DEF Submits
  <2>2. Calls("pair", win.pairing, "waits")
            \in Called
    BY <1>2, <2>1 DEF Calls, Called, Kinds, ServersScreen
  <2>3. /\ win' \in ServersScreen
        /\ win'.rows = win.rows /\ win'.answer = win.answer /\ win'.push = win.push
        /\ win'.asked = win.asked /\ win'.raced = win.raced
    BY <1>2, <1>4, <2>1 DEF ServersScreen
  <2> QED  BY <1>1, <1>2, <2>1, <2>2, <2>3, ScreenMoves
<1>6. CASE ClosesDialog
  <2>1. win' = [win EXCEPT !.pairing = Nothing] /\ ipc' = ipc  BY <1>6 DEF ClosesDialog
  <2>2. /\ win' \in ServersScreen
        /\ win'.rows = win.rows /\ win'.answer = win.answer /\ win'.push = win.push
        /\ win'.asked = win.asked /\ win'.raced = win.raced
    BY <1>2, <2>1 DEF ServersScreen
  <2> QED  BY <1>1, <1>2, <2>1, <2>2, ScreenMoves
<1>7. CASE \E c \in ipc : PairFails(c)
  <2>1. PICK c \in ipc : PairFails(c)  BY <1>7
  <2>2. win' = [win EXCEPT !.waiting = no] /\ ipc' = ipc \ {c} /\ c.kind = "pair"
    BY <1>3, <2>1, Zenon DEF PairFails
  <2>3. /\ win' \in ServersScreen
        /\ win'.rows = win.rows /\ win'.answer = win.answer /\ win'.push = win.push
        /\ win'.asked = win.asked /\ win'.raced = win.raced
    BY <1>2, <1>4, <2>2 DEF ServersScreen
  <2> QED  BY <1>1, <1>2, <2>2, <2>3, ScreenMoves
<1> QED  BY <1>5, <1>6, <1>7

\* What a step leaves to be shown: the rows, and the way to the window.
LEMMA StepKeeps ==
    ASSUME RowsHold', ipc' \subseteq Called, win' \in ServersScreen, WayInv'
    PROVE  HubInv'
BY DEF HubInv, HubTypes

\* The window is sent the list that the step leaves.
LEMMA EmitStep ==
    ASSUME RowsHold', ipc' \subseteq Called, NEW w \in ServersScreen, Emits(entries', w)
    PROVE  HubInv'
<1>1. entries' \in [Rows -> Client]  BY DEF RowsHold
<1>2. win' \in ServersScreen /\ WayInv'  BY <1>1, EmitsWay
<1> QED  BY <1>2, StepKeeps

\* A call that changes a row is out after the step; or a session has outlived its row.
LEMMA LoudStep ==
    ASSUME RowsHold', ipc' \subseteq Called, win' \in ServersScreen,
           (\E c \in ipc' : c.kind # "pair") \/ stray'
    PROVE  HubInv'
<1>1. WayInv'  BY Zenon DEF WayInv, Quiet
<1> QED  BY <1>1, StepKeeps

\* A row's session comes and goes, and what the window shows of it is the same.
LEMMA SilentStep ==
    ASSUME HubInv, RowsHold', NEW r \in Rows, NEW e \in Client,
           entries' = [entries EXCEPT ![r] = e], ipc' = ipc, win' = win, stray => stray',
           ~stray' => /\ e.in <=> entries[r].in
                      /\ e.paired <=> entries[r].paired
                      /\ e.started <=> entries[r].started
                      /\ e.conn = entries[r].conn
    PROVE  HubInv'
<1>1. ipc \subseteq Called /\ win \in ServersScreen /\ entries \in [Rows -> Client]
  BY DEF HubInv, HubTypes, RowsHold
<1>2. ASSUME ~stray' PROVE Summaries(entries)' = Summaries(entries)
  <2>1. Summary(e) = Summary(entries[r])  BY <1>2, SameSummary
  <2>2. Summaries(entries') = Summaries(entries)  BY <1>1, <2>1, SummariesStay
  <2> QED  BY <2>2
<1>3. Quiet' => Quiet  BY Zenon DEF Quiet
<1>4. WayInv'  BY <1>2, <1>3, Zenon DEF HubInv, WayInv
<1> QED  BY <1>1, <1>4, StepKeeps

\* The refreshes of a row.
LEMMA RefreshKeeps ==
    ASSUME HubInv, NEW r \in Rows, Refreshes(r) \/ Refreshed(r) \/ RefreshFails(r)
    PROVE  HubInv'
<1>1. PICK yes, no : yes = TRUE /\ no = FALSE  OBVIOUS
<1>2. yes \in BOOLEAN /\ no \in BOOLEAN  BY <1>1, Zenon
<1>3. entries[r] \in Client /\ RowInv(r)  BY DEF HubInv, RowsHold
<1> DEFINE e == entries[r]
<1>4. CASE Refreshes(r)
  <2> DEFINE f == [entries[r] EXCEPT !.asked = yes]
  <2>1. /\ entries' = [entries EXCEPT ![r] = f] /\ entries[r].in
        /\ UNCHANGED <<list, vault, ipc, win, stray>>
    BY <1>1, <1>4, Zenon DEF Refreshes, Becomes
  <2>2. /\ f \in Client /\ f.in = entries[r].in /\ f.held = entries[r].held
        /\ f.paired = entries[r].paired /\ f.started = entries[r].started
        /\ f.stream = entries[r].stream /\ f.conn = entries[r].conn /\ f.asked = yes
    BY <1>2, <1>3 DEF Client
  <2> HIDE DEF f
  <2>3. RowsHold'
    <3>1. /\ list' \subseteq Rows
         /\ \A x \in Rows \ {r} : (x \in list' <=> x \in list) /\ (x \in vault' <=> x \in vault)
      BY <2>1 DEF HubInv, RowsHold
    <3>2. /\ r \in list' <=> f.in
          /\ f.paired <=> f.held
          /\ f.held => f.in
          /\ f.stream => f.in
          /\ f.asked => f.in
          /\ ~stray' => (r \in vault' <=> f.held)
      BY <1>3, <2>1, <2>2, Zenon DEF RowInv
    <3> QED  BY <2>1, <2>2, <3>1, <3>2, RowMoves, Zenon
  <2> QED  BY <2>1, <2>2, <2>3, SilentStep
<1>5. CASE RefreshFails(r)
  <2> DEFINE f == [entries[r] EXCEPT !.asked = no]
  <2>1. /\ entries' = [entries EXCEPT ![r] = f]
        /\ UNCHANGED <<list, vault, ipc, win, stray>>
    BY <1>1, <1>5, Zenon DEF RefreshFails, Becomes
  <2>2. /\ f \in Client /\ f.in = entries[r].in /\ f.held = entries[r].held
        /\ f.paired = entries[r].paired /\ f.started = entries[r].started
        /\ f.stream = entries[r].stream /\ f.conn = entries[r].conn /\ f.asked = no
    BY <1>2, <1>3 DEF Client
  <2> HIDE DEF f
  <2>3. RowsHold'
    <3>1. /\ list' \subseteq Rows
         /\ \A x \in Rows \ {r} : (x \in list' <=> x \in list) /\ (x \in vault' <=> x \in vault)
      BY <2>1 DEF HubInv, RowsHold
    <3>2. /\ r \in list' <=> f.in
          /\ f.paired <=> f.held
          /\ f.held => f.in
          /\ f.stream => f.in
          /\ f.asked => f.in
          /\ ~stray' => (r \in vault' <=> f.held)
      BY <1>1, <1>3, <2>1, <2>2, Zenon DEF RowInv
    <3> QED  BY <2>1, <2>2, <3>1, <3>2, RowMoves, Zenon
  <2> QED  BY <2>1, <2>2, <2>3, SilentStep
<1>6. CASE Refreshed(r)
  <2> DEFINE f == [entries[r] EXCEPT !.asked = no, !.held = yes, !.paired = yes]
  <2>1. /\ entries' = [entries EXCEPT ![r] = f] /\ entries[r].asked
        /\ vault' = vault \cup {r} /\ UNCHANGED <<list, ipc, win>>
        /\ (stray => stray') /\ (~entries[r].held => stray')
    BY <1>1, <1>6, Zenon DEF Refreshed, Becomes, Stores
  <2>2. /\ f \in Client /\ f.in = entries[r].in /\ f.held = yes
        /\ f.paired = yes /\ f.started = entries[r].started
        /\ f.stream = entries[r].stream /\ f.conn = entries[r].conn /\ f.asked = no
    BY <1>2, <1>3 DEF Client
  <2> HIDE DEF f
  <2>3. RowsHold'
    <3>1. /\ list' \subseteq Rows
         /\ \A x \in Rows \ {r} : (x \in list' <=> x \in list) /\ (x \in vault' <=> x \in vault)
      BY <2>1 DEF HubInv, RowsHold
    <3>2. r \in vault'  BY <2>1
    <3>3. /\ r \in list' <=> f.in
          /\ f.paired <=> f.held
          /\ f.held => f.in
          /\ f.stream => f.in
          /\ f.asked => f.in
          /\ ~stray' => (r \in vault' <=> f.held)
      BY <1>1, <1>3, <2>1, <2>2, <3>2, Zenon DEF RowInv
    <3> QED  BY <2>1, <2>2, <3>1, <3>3, RowMoves, Zenon
  <2>4. /\ f.in <=> entries[r].in
        /\ f.started <=> entries[r].started
        /\ f.conn = entries[r].conn
        /\ ~stray' => (f.paired <=> entries[r].paired)
    BY <1>1, <1>3, <2>1, <2>2, Zenon DEF RowInv
  <2> QED  BY <2>1, <2>2, <2>3, <2>4, SilentStep
<1> QED  BY <1>4, <1>5, <1>6

\* The client of a row that was removed.
LEMMA OrphanKeeps ==
    ASSUME HubInv, NEW r \in Rows, OrphanStores(r)
    PROVE  HubInv'
<1>1. UNCHANGED <<list, entries, ipc, win>> /\ stray'  BY Zenon DEF OrphanStores
<1>2. RowsHold'  BY <1>1, RowsStay
<1>3. ipc' \subseteq Called /\ win' \in ServersScreen  BY <1>1 DEF HubInv, HubTypes
<1> QED  BY <1>1, <1>2, <1>3, LoudStep

\* A row is signed out, or its dot moves.
LEMMA SignedOutKeeps ==
    ASSUME HubInv, NEW r \in Rows, RowSignedOut(r)
    PROVE  HubInv'
<1>3. entries[r] \in Client /\ RowInv(r) /\ entries \in [Rows -> Client]  BY DEF HubInv, RowsHold
<1>1. PICK no \in {FALSE, entries[r].asked} :
         LET es == [entries EXCEPT ![r] = [ClosedOf(entries[r]) EXCEPT !.asked = no]]
         IN entries' = es /\ Emits(es, win)
  BY DEF RowSignedOut
<1>2. no \in BOOLEAN /\ (no => entries[r].in)
  BY <1>1, <1>3, Zenon DEF Client, RowInv, RowSignedOut
<1> DEFINE c == ClosedOf(entries[r])
           f == [c EXCEPT !.asked = no]
<1>4. /\ c \in Client /\ ~c.held /\ ~c.paired /\ ~c.stream /\ c.in = entries[r].in
  BY <1>3, ClosedIs
<1>5. /\ entries' = [entries EXCEPT ![r] = f]
      /\ Emits(entries', win)
      /\ vault' = vault \ {r} /\ UNCHANGED <<list, ipc, stray>>
  BY <1>1, <1>3, Zenon DEF RowSignedOut, Clears
<1> HIDE DEF c
<1>6. /\ f \in Client /\ f.in = c.in /\ f.held = c.held /\ f.paired = c.paired
      /\ f.stream = c.stream /\ f.asked = no
  BY <1>2, <1>4 DEF Client
<1> HIDE DEF f
<1>7. RowsHold'
  <2>1. /\ list' \subseteq Rows
       /\ \A x \in Rows \ {r} : (x \in list' <=> x \in list) /\ (x \in vault' <=> x \in vault)
    BY <1>5 DEF HubInv, RowsHold
  <2>2. r \notin vault'  BY <1>5
  <2>3. /\ r \in list' <=> f.in
        /\ f.paired <=> f.held
        /\ f.held => f.in
        /\ f.stream => f.in
        /\ f.asked => f.in
        /\ ~stray' => (r \in vault' <=> f.held)
    BY <1>2, <1>3, <1>4, <1>5, <1>6, <2>2, Zenon DEF RowInv
  <2> QED  BY <1>5, <1>6, <2>1, <2>3, RowMoves, Zenon
<1>8. ipc' \subseteq Called /\ win \in ServersScreen  BY <1>5 DEF HubInv, HubTypes
<1> QED  BY <1>5, <1>7, <1>8, EmitStep

LEMMA DotKeeps ==
    ASSUME HubInv, NEW r \in Rows, DotMoves(r)
    PROVE  HubInv'
<1>3. entries[r] \in Client /\ RowInv(r) /\ entries \in [Rows -> Client]  BY DEF HubInv, RowsHold
<1>4. PICK to \in {"connected", "connecting", "offline"} :
          /\ entries' = [entries EXCEPT ![r].conn = to]
          /\ Emits(entries', win)
  BY Zenon DEF DotMoves
<1> DEFINE f == [entries[r] EXCEPT !.conn = to]
<1>5. entries' = [entries EXCEPT ![r] = f]  BY <1>4
<1>6. /\ f \in Client /\ f.in = entries[r].in /\ f.held = entries[r].held
      /\ f.paired = entries[r].paired /\ f.stream = entries[r].stream /\ f.asked = entries[r].asked
  BY <1>3 DEF Client
<1> HIDE DEF f
<1>7. UNCHANGED <<list, vault, ipc, stray>>  BY Zenon DEF DotMoves
<1>8. RowsHold'
  <2>1. /\ list' \subseteq Rows
       /\ \A x \in Rows \ {r} : (x \in list' <=> x \in list) /\ (x \in vault' <=> x \in vault)
    BY <1>7 DEF HubInv, RowsHold
  <2>2. /\ r \in list' <=> f.in
        /\ f.paired <=> f.held
        /\ f.held => f.in
        /\ f.stream => f.in
        /\ f.asked => f.in
        /\ ~stray' => (r \in vault' <=> f.held)
    BY <1>3, <1>6, <1>7, Zenon DEF RowInv
  <2> QED  BY <1>5, <1>6, <1>7, <2>1, <2>2, RowMoves, Zenon
<1>9. ipc' \subseteq Called /\ win \in ServersScreen  BY <1>7 DEF HubInv, HubTypes
<1> QED  BY <1>4, <1>8, <1>9, EmitStep

\* The calls of a click: connect.
LEMMA ConnectsKeeps ==
    ASSUME HubInv, NEW r \in Rows, Connects(r), stray' = stray
    PROVE  HubInv'
<1>1. /\ entries[r] \in Client /\ RowInv(r) /\ entries \in [Rows -> Client]
      /\ ipc \subseteq Called /\ win \in ServersScreen
  BY DEF HubInv, HubTypes, RowsHold
<1>2. CASE ~entries[r].in
  <2>1. UNCHANGED <<list, vault, entries, ipc, win>>  BY <1>2, Zenon DEF Connects
  <2>2. RowsHold'  BY <2>1, RowsStay
  <2> QED  BY <2>1, <2>2, Zenon DEF HubInv, HubTypes, WayInv, Quiet
<1>3. CASE entries[r].in
  <2> DEFINE yes == TRUE
             pd  == entries[r].paired /\ entries[r].held
             sd  == entries[r].stream \/ entries[r].held
  <2>1. /\ yes = TRUE
        /\ pd <=> entries[r].paired /\ entries[r].held
        /\ sd <=> entries[r].stream \/ entries[r].held
    OBVIOUS
  <2>2. yes \in BOOLEAN /\ pd \in BOOLEAN /\ sd \in BOOLEAN  BY <2>1, Zenon
  <2> DEFINE f == [entries[r] EXCEPT !.started = yes, !.paired = pd, !.stream = sd]
             clicked == [win EXCEPT !.busy = r]
  <2>3. /\ entries' = [entries EXCEPT ![r] = f]
        /\ UNCHANGED <<list, vault>>
        /\ \/ ipc' = ipc \cup {Calls("connect", r, "me")} /\ win' = clicked
           \/ ipc' = ipc /\ Emits(entries', [clicked EXCEPT !.busy = Nothing])
    <3>1. Connecting(r, entries, clicked, ipc) /\ UNCHANGED <<list, vault>>
      BY <1>3, Zenon DEF Connects
    <3>2. entries' = [entries EXCEPT ![r] = f]
      BY <3>1, Zenon DEF Connecting
    <3>3. IF entries[r].held THEN ipc' = ipc \cup {Calls("connect", r, "me")} /\ win' = clicked
                             ELSE ipc' = ipc /\ Emits(entries', [clicked EXCEPT !.busy = Nothing])
      BY <3>1, Zenon DEF Connecting
    <3> QED  BY <3>1, <3>2, <3>3, Zenon
  <2> HIDE DEF yes, pd, sd
  <2>4. /\ f \in Client /\ f.in = entries[r].in /\ f.held = entries[r].held
        /\ f.paired = pd /\ f.stream = sd /\ f.asked = entries[r].asked
    BY <1>1, <2>2 DEF Client
  <2>5. clicked \in ServersScreen /\ [clicked EXCEPT !.busy = Nothing] \in ServersScreen
    BY <1>1 DEF ServersScreen
  <2> HIDE DEF f, clicked
  <2>6. RowsHold'
    <3>1. /\ list' \subseteq Rows
          /\ \A x \in Rows \ {r} : (x \in list' <=> x \in list) /\ (x \in vault' <=> x \in vault)
      BY <2>3 DEF HubInv, RowsHold
    <3>2. /\ r \in list' <=> f.in
          /\ f.paired <=> f.held
          /\ f.held => f.in
          /\ f.stream => f.in
          /\ f.asked => f.in
          /\ ~stray' => (r \in vault' <=> f.held)
      BY <1>1, <1>3, <2>1, <2>3, <2>4, Zenon DEF RowInv
    <3> QED  BY <2>3, <2>4, <3>1, <3>2, RowMoves, Zenon
  <2>7. CASE ipc' = ipc \cup {Calls("connect", r, "me")} /\ win' = clicked
    <3>1. /\ Calls("connect", r, "me") \in Called /\ Calls("connect", r, "me").kind # "pair"
      BY DEF Calls, Called, Kinds
    <3>2. /\ ipc' \subseteq Called /\ win' \in ServersScreen
          /\ \E c \in ipc' : c.kind # "pair"
      BY <1>1, <2>5, <2>7, <3>1
    <3> QED  BY <2>6, <3>2, LoudStep
  <2>8. CASE ipc' = ipc /\ Emits(entries', [clicked EXCEPT !.busy = Nothing])
    <3>1. ipc' \subseteq Called  BY <1>1, <2>8
    <3> QED  BY <2>5, <2>6, <2>8, <3>1, EmitStep
  <2> QED  BY <2>3, <2>7, <2>8
<1> QED  BY <1>2, <1>3

\* me() is answered, or fails.
LEMMA ConnectedKeeps ==
    ASSUME HubInv, NEW c \in ipc, Connected(c)
    PROVE  HubInv'
<1> DEFINE r == c.row
<1>1. r \in Rows  BY DEF HubInv, HubTypes, Called
<1>2. /\ entries[r] \in Client /\ RowInv(r) /\ entries \in [Rows -> Client]
      /\ ipc \subseteq Called /\ win \in ServersScreen
  BY <1>1 DEF HubInv, HubTypes, RowsHold
<1> DEFINE f == [entries[r] EXCEPT !.paired = entries[r].held]
           w == [win EXCEPT !.busy = Nothing]
<1>3. /\ entries' = [entries EXCEPT ![r] = f] /\ Emits(entries', w)
      /\ UNCHANGED <<list, vault, stray>> /\ ipc' = ipc \ {c}
  BY Zenon DEF Connected
<1>4. /\ f \in Client /\ f.in = entries[r].in /\ f.held = entries[r].held
      /\ f.paired = entries[r].held /\ f.stream = entries[r].stream /\ f.asked = entries[r].asked
  BY <1>2 DEF Client
<1>5. w \in ServersScreen  BY <1>2 DEF ServersScreen
<1>6. ipc' \subseteq Called  BY <1>2, <1>3
<1> HIDE DEF f, w, r
<1>7. RowsHold'
  <2>1. /\ list' \subseteq Rows
        /\ \A x \in Rows \ {r} : (x \in list' <=> x \in list) /\ (x \in vault' <=> x \in vault)
    BY <1>3 DEF HubInv, RowsHold
  <2>2. /\ r \in list' <=> f.in
        /\ f.paired <=> f.held
        /\ f.held => f.in
        /\ f.stream => f.in
        /\ f.asked => f.in
        /\ ~stray' => (r \in vault' <=> f.held)
    BY <1>2, <1>3, <1>4, Zenon DEF RowInv
  <2> QED  BY <1>1, <1>3, <1>4, <2>1, <2>2, RowMoves, Zenon
<1> QED  BY <1>3, <1>5, <1>6, <1>7, EmitStep

\* A pairing ends, with a session.
LEMMA PairEndsKeeps ==
    ASSUME HubInv, NEW c \in ipc, PairEnds(c)
    PROVE  HubInv'
<1> DEFINE r == c.row
<1>1. r \in Rows  BY DEF HubInv, HubTypes, Called
<1>2. /\ entries[r] \in Client /\ RowInv(r) /\ entries \in [Rows -> Client]
      /\ ipc \subseteq Called /\ win \in ServersScreen
  BY <1>1 DEF HubInv, HubTypes, RowsHold
<1>3. PICK yes, no : yes = TRUE /\ no = FALSE  OBVIOUS
<1>4. yes \in BOOLEAN /\ no \in BOOLEAN  BY <1>3, Zenon
<1>5. vault' = vault \cup {r} /\ list' = list  BY Zenon DEF PairEnds, Stores
<1>6. CASE entries[r].in
  <2> DEFINE f == [entries[r] EXCEPT !.held = yes, !.paired = yes, !.started = yes, !.stream = yes]
             w == [win EXCEPT !.waiting = no, !.pairing = Nothing]
             d == Calls("connect", r, "me")
  <2>1. /\ entries' = [entries EXCEPT ![r] = f] /\ Emits(entries', w)
        /\ stray' = stray /\ ipc' = (ipc \ {c}) \cup {d}
    BY <1>3, <1>6, Zenon DEF PairEnds
  <2>2. /\ f \in Client /\ f.in = entries[r].in /\ f.held = yes
        /\ f.paired = yes /\ f.stream = yes /\ f.asked = entries[r].asked
    BY <1>2, <1>4 DEF Client
  <2>3. w \in ServersScreen  BY <1>2, <1>4 DEF ServersScreen
  <2>4. d \in Called  BY <1>1 DEF Calls, Called, Kinds
  <2> HIDE DEF f, w, d, r
  <2>5. ipc' \subseteq Called  BY <1>2, <2>1, <2>4
  <2>6. RowsHold'
    <3>1. /\ list' \subseteq Rows
          /\ \A x \in Rows \ {r} : (x \in list' <=> x \in list) /\ (x \in vault' <=> x \in vault)
      BY <1>5 DEF HubInv, RowsHold
    <3>2. r \in vault'  BY <1>5
    <3>3. /\ r \in list' <=> f.in
          /\ f.paired <=> f.held
          /\ f.held => f.in
          /\ f.stream => f.in
          /\ f.asked => f.in
          /\ ~stray' => (r \in vault' <=> f.held)
      BY <1>2, <1>3, <1>5, <1>6, <2>1, <2>2, <3>2, Zenon DEF RowInv
    <3>4. stray => stray'  BY <2>1
    <3> QED  BY <1>1, <2>1, <2>2, <3>1, <3>3, <3>4, RowMoves, Zenon
  <2> QED  BY <2>1, <2>3, <2>5, <2>6, EmitStep
<1>7. CASE ~entries[r].in
  <2>1. UNCHANGED <<entries, win>> /\ stray' /\ ipc' = ipc \ {c}
    BY <1>7, Zenon DEF PairEnds
  <2>2. RowsHold'  BY <1>5, <2>1, RowsStay
  <2>3. ipc' \subseteq Called /\ win' \in ServersScreen  BY <1>2, <2>1
  <2> QED  BY <2>1, <2>2, <2>3, LoudStep
<1> QED  BY <1>6, <1>7

\* forget and remove, when the stream has stopped.
LEMMA EndingKeeps ==
    ASSUME HubInv, NEW r \in Rows, NEW kind, NEW out, out \subseteq Called,
           Ending(kind, r, out), stray' = stray
    PROVE  HubInv'
<1>1. /\ entries[r] \in Client /\ RowInv(r) /\ entries \in [Rows -> Client]
      /\ win \in ServersScreen
  BY DEF HubInv, HubTypes, RowsHold
<1> DEFINE w == [win EXCEPT !.busy = Nothing]
<1>2. w \in ServersScreen  BY <1>1 DEF ServersScreen
<1>3. /\ Emits(entries', w) /\ vault' = vault \ {r} /\ ipc' = out
  BY Zenon DEF Ending, Clears
<1> HIDE DEF w
<1>4. ipc' \subseteq Called /\ r \notin vault'  BY <1>3
<1>5. \A x \in Rows \ {r} : x \in vault' <=> x \in vault  BY <1>3
<1>6. CASE kind = "remove"
  <2>1. entries' = [entries EXCEPT ![r] = NoClient] /\ list' = list \ {r}
    BY <1>6, Zenon DEF Ending, Struck
  <2>2. /\ list' \subseteq Rows
        /\ \A x \in Rows \ {r} : (x \in list' <=> x \in list) /\ (x \in vault' <=> x \in vault)
        /\ r \notin list'
    BY <1>5, <2>1 DEF HubInv, RowsHold
  <2>3. RowsHold'
    <3>1. /\ r \in list' <=> NoClient.in
          /\ NoClient.paired <=> NoClient.held
          /\ NoClient.held => NoClient.in
          /\ NoClient.stream => NoClient.in
          /\ NoClient.asked => NoClient.in
          /\ ~stray' => (r \in vault' <=> NoClient.held)
      BY <1>4, <2>2, NoClientIs, Zenon
    <3> QED  BY <2>1, <2>2, <3>1, NoClientIs, RowMoves, Zenon
  <2> QED  BY <1>2, <1>3, <1>4, <2>3, EmitStep
<1>7. CASE kind # "remove"
  <2> DEFINE c == ClosedOf(entries[r])
             no == FALSE
             f == [c EXCEPT !.started = no, !.conn = "offline"]
  <2>1. entries' = [entries EXCEPT ![r] = f] /\ list' = list
    BY <1>7, Zenon DEF Ending, AsAdded
  <2>2. no \in BOOLEAN  BY Zenon
  <2>3. c \in Client /\ ~c.held /\ ~c.paired /\ ~c.stream /\ c.in = entries[r].in
        /\ c.asked = entries[r].asked
    BY <1>1, ClosedIs
  <2> HIDE DEF no, c
  <2>4. /\ f \in Client /\ f.in = c.in /\ f.held = c.held /\ f.paired = c.paired
        /\ f.stream = c.stream /\ f.asked = c.asked
    BY <2>2, <2>3 DEF Client
  <2> HIDE DEF f
  <2>5. /\ list' \subseteq Rows
        /\ \A x \in Rows \ {r} : (x \in list' <=> x \in list) /\ (x \in vault' <=> x \in vault)
    BY <1>5, <2>1 DEF HubInv, RowsHold
  <2>6. RowsHold'
    <3>1. /\ r \in list' <=> f.in
          /\ f.paired <=> f.held
          /\ f.held => f.in
          /\ f.stream => f.in
          /\ f.asked => f.in
          /\ ~stray' => (r \in vault' <=> f.held)
      BY <1>1, <1>4, <2>1, <2>3, <2>4, Zenon DEF RowInv
    <3> QED  BY <2>1, <2>4, <2>5, <3>1, RowMoves, Zenon
  <2> QED  BY <1>2, <1>3, <1>4, <2>6, EmitStep
<1> QED  BY <1>6, <1>7

LEMMA EndedKeeps ==
    ASSUME HubInv, NEW c \in ipc, Ended(c)
    PROVE  HubInv'
<1>1. c.row \in Rows /\ ipc \ {c} \subseteq Called  BY DEF HubInv, HubTypes, Called
<1>2. Ending(c.kind, c.row, ipc \ {c}) /\ stray' = stray  BY Zenon DEF Ended
<1> QED  BY <1>1, <1>2, EndingKeeps

LEMMA LeavesKeeps ==
    ASSUME HubInv, NEW r \in Rows, NEW kind \in {"forget", "remove"}, Leaves(r, kind),
           stray' = stray
    PROVE  HubInv'
<1>1. /\ entries[r] \in Client /\ RowInv(r) /\ entries \in [Rows -> Client]
      /\ ipc \subseteq Called /\ win \in ServersScreen
  BY DEF HubInv, HubTypes, RowsHold
<1>2. CASE ~entries[r].stream
  <2>1. Ending(kind, r, ipc)  BY <1>2, Zenon DEF Leaves
  <2> QED  BY <1>1, <2>1, EndingKeeps
<1>3. CASE entries[r].stream
  <2> DEFINE no == FALSE
             f == [entries[r] EXCEPT !.stream = no]
             d == Calls(kind, r, "stop")
  <2>1. /\ entries' = [entries EXCEPT ![r] = f] /\ ipc' = ipc \cup {d}
        /\ win' = [win EXCEPT !.busy = r] /\ UNCHANGED <<list, vault>>
    BY <1>3, Zenon DEF Leaves, Becomes
  <2>2. no \in BOOLEAN /\ ~no  BY Zenon
  <2> HIDE DEF no
  <2>3. /\ f \in Client /\ f.in = entries[r].in /\ f.held = entries[r].held
        /\ f.paired = entries[r].paired /\ f.stream = no /\ f.asked = entries[r].asked
    BY <1>1, <2>2 DEF Client
  <2>4. d \in Called /\ d.kind # "pair"  BY DEF Calls, Called, Kinds
  <2>5. win' \in ServersScreen  BY <1>1, <2>1 DEF ServersScreen
  <2> HIDE DEF f, d
  <2>6. /\ list' \subseteq Rows
        /\ \A x \in Rows \ {r} : (x \in list' <=> x \in list) /\ (x \in vault' <=> x \in vault)
    BY <2>1 DEF HubInv, RowsHold
  <2>7. RowsHold'
    <3>1. /\ r \in list' <=> f.in
          /\ f.paired <=> f.held
          /\ f.held => f.in
          /\ f.stream => f.in
          /\ f.asked => f.in
          /\ ~stray' => (r \in vault' <=> f.held)
      BY <1>1, <2>1, <2>2, <2>3, Zenon DEF RowInv
    <3> QED  BY <2>1, <2>3, <2>6, <3>1, RowMoves, Zenon
  <2>8. ipc' \subseteq Called /\ \E c \in ipc' : c.kind # "pair"  BY <1>1, <2>1, <2>4
  <2> QED  BY <2>5, <2>7, <2>8, LoudStep
<1> QED  BY <1>2, <1>3

LEMMA OpensPairingKeeps ==
    ASSUME HubInv, NEW r \in Rows, OpensPairing(r), stray' = stray
    PROVE  HubInv'
<1>1. win \in ServersScreen /\ ipc \subseteq Called  BY DEF HubInv, HubTypes
<1>2. win' = [win EXCEPT !.pairing = r] /\ UNCHANGED <<list, vault, entries, ipc>>
  BY DEF OpensPairing
<1>3. /\ win' \in ServersScreen
      /\ win'.rows = win.rows /\ win'.answer = win.answer /\ win'.push = win.push
      /\ win'.asked = win.asked /\ win'.raced = win.raced
  BY <1>1, <1>2 DEF ServersScreen
<1>4. UNCHANGED <<list, vault, entries, stray>> /\ ipc' \subseteq Called
      /\ \A c \in ipc : c.kind # "pair" => c \in ipc'
  BY <1>1, <1>2
<1> QED  BY <1>3, <1>4, ScreenMoves

LEMMA ClicksRowKeeps ==
    ASSUME HubInv, NEW r \in Rows, NEW kind \in Kinds, ClicksRow(r, kind)
    PROVE  HubInv'
<1>1. stray' = stray  BY Zenon DEF ClicksRow
<1>2. CASE kind = "connect"
  <2>1. Connects(r)  BY <1>2 DEF ClicksRow
  <2> QED  BY <1>1, <2>1, ConnectsKeeps
<1>3. CASE kind = "pair"
  <2>1. OpensPairing(r)  BY <1>3 DEF ClicksRow
  <2> QED  BY <1>1, <2>1, OpensPairingKeeps
<1>4. CASE kind \in {"forget", "remove"}
  <2>1. Leaves(r, kind)  BY <1>4 DEF ClicksRow
  <2> QED  BY <1>1, <1>4, <2>1, LeavesKeeps
<1> QED  BY <1>2, <1>3, <1>4 DEF Kinds

\* A row is added, or it was known.
LEMMA AddsKeeps ==
    ASSUME HubInv, NEW r \in Rows, Adds(r)
    PROVE  HubInv'
<1>1. /\ entries[r] \in Client /\ RowInv(r) /\ entries \in [Rows -> Client]
      /\ ipc \subseteq Called /\ win \in ServersScreen
  BY DEF HubInv, HubTypes, RowsHold
<1> DEFINE f == IF entries[r].in THEN entries[r] ELSE Fresh(r)
           w == [win EXCEPT !.pairing = r]
<1>2. /\ entries' = [entries EXCEPT ![r] = f] /\ Emits(entries', w)
      /\ list' = list \cup {r} /\ UNCHANGED <<vault, ipc, stray>>
  BY Zenon DEF Adds, Entered
<1>3. /\ f \in Client /\ f.in
      /\ f.paired <=> f.held
      /\ ~stray => (r \in vault <=> f.held)
  <2>1. CASE entries[r].in  BY <1>1, <2>1, Zenon DEF RowInv
  <2>2. CASE ~entries[r].in  BY <2>2, FreshIs, Zenon
  <2> QED  BY <2>1, <2>2
<1>4. w \in ServersScreen  BY <1>1 DEF ServersScreen
<1> HIDE DEF f, w
<1>5. /\ list' \subseteq Rows /\ r \in list'
      /\ \A x \in Rows \ {r} : (x \in list' <=> x \in list) /\ (x \in vault' <=> x \in vault)
  BY <1>2 DEF HubInv, RowsHold
<1>6. RowsHold'
  <2>1. /\ r \in list' <=> f.in
        /\ f.paired <=> f.held
        /\ f.held => f.in
        /\ f.stream => f.in
        /\ f.asked => f.in
        /\ ~stray' => (r \in vault' <=> f.held)
    BY <1>2, <1>3, <1>5, Zenon
  <2> QED  BY <1>2, <1>3, <1>5, <2>1, RowMoves, Zenon
<1>7. ipc' \subseteq Called  BY <1>1, <1>2
<1> QED  BY <1>2, <1>4, <1>6, <1>7, EmitStep

\* A window that is opened, whatever is pushed to it.
LEMMA NewWindowIs ==
    ASSUME NEW push \in Shown \cup {Nothing}, NEW w, w = [NewWindow EXCEPT !.push = push]
    PROVE  w \in ServersScreen /\ w.answer = Nothing /\ w.push = push /\ w.asked
<1> DEFINE yes == TRUE
           no  == FALSE
<1>1. yes \in BOOLEAN /\ no \in BOOLEAN /\ yes  BY Zenon
<1>2. NewWindow = [rows |-> NoServers, answer |-> Nothing, push |-> Nothing, asked |-> yes,
                   raced |-> no, busy |-> Nothing, pairing |-> Nothing, waiting |-> no]
  BY Zenon DEF NewWindow
<1>3. NoServers \in Shown  BY DEF NoServers, Shown, Says
<1> HIDE DEF yes, no
<1>4. w \in ServersScreen /\ w.answer = Nothing /\ w.push = push /\ w.asked = yes
  BY <1>1, <1>2, <1>3 DEF ServersScreen
<1> QED  BY <1>1, <1>4, Zenon

LEMMA FirstWindowIs ==
    /\ NewWindow \in ServersScreen
    /\ NewWindow.answer = Nothing /\ NewWindow.push = Nothing /\ NewWindow.asked
<1> DEFINE yes == TRUE
           no  == FALSE
<1>1. NewWindow = [rows |-> NoServers, answer |-> Nothing, push |-> Nothing, asked |-> yes,
                   raced |-> no, busy |-> Nothing, pairing |-> Nothing, waiting |-> no]
  BY Zenon DEF NewWindow
<1> HIDE DEF yes, no
<1>2. NewWindow = [NewWindow EXCEPT !.push = Nothing]  BY <1>1
<1> QED  BY <1>2, NewWindowIs, Zenon

\* The client starts again, and bootstrap connects.
LEMMA RestartsKeeps ==
    ASSUME HubInv, Restarts
    PROVE  HubInv'
<1> DEFINE Again(r) == LET e == Fresh(r) IN [e EXCEPT !.started = e.held, !.stream = e.held]
<1>1. /\ entries' = [r \in Rows |-> IF r \in list' THEN Again(r) ELSE NoClient]
      /\ list' \in {list, {}} /\ vault' = vault /\ win' = NewWindow
      /\ (stray => stray') /\ (list' # list => stray')
      /\ ipc' = {Calls("connect", r, "me") : r \in list' \cap vault}
  BY Zenon DEF Restarts, ReadBack
<1>2. ASSUME NEW r
      PROVE  /\ Again(r) \in Client /\ Again(r).in /\ ~Again(r).asked
             /\ Again(r).paired <=> Again(r).held
             /\ Again(r).held <=> r \in vault
  <2> DEFINE e == Fresh(r)
             f == [e EXCEPT !.started = e.held, !.stream = e.held]
  <2>1. /\ e \in Client /\ e.in /\ ~e.asked
        /\ e.held <=> r \in vault
        /\ e.paired <=> e.held
    BY FreshIs
  <2> HIDE DEF e
  <2>2. /\ f \in Client /\ f.in = e.in /\ f.asked = e.asked /\ f.paired = e.paired
        /\ f.held = e.held
    BY <2>1 DEF Client
  <2>3. Again(r) = f  BY DEF e
  <2> HIDE DEF f
  <2> QED  BY <2>1, <2>2, <2>3, Zenon
<1> HIDE DEF Again
<1>3. list \subseteq Rows /\ list' \subseteq Rows  BY <1>1 DEF HubInv, RowsHold
<1>4. entries' \in [Rows -> Client]  BY <1>1, <1>2, NoClientIs
<1>5. ASSUME NEW r \in Rows PROVE RowInv(r)'
  <2>1. CASE r \in list'
    <3>1. entries'[r] = Again(r)  BY <1>1, <2>1
    <3>2. r \in vault' <=> r \in vault  BY <1>1
    <3> QED  BY <1>2, <2>1, <3>1, <3>2, Zenon DEF RowInv
  <2>2. CASE r \notin list'
    <3>1. entries'[r] = NoClient  BY <1>1, <2>2
    <3>2. ASSUME ~stray' PROVE r \notin vault'
      <4>1. list' = list /\ ~stray  BY <1>1, <3>2
      <4>2. RowInv(r)  BY DEF HubInv, RowsHold
      <4> QED  BY <1>1, <2>2, <4>1, <4>2, Zenon DEF RowInv
    <3> QED  BY <2>2, <3>1, <3>2, NoClientIs, Zenon DEF RowInv
  <2> QED  BY <2>1, <2>2
<1>6. RowsHold'  BY <1>3, <1>4, <1>5 DEF RowsHold
<1>7. ipc' \subseteq Called
  <2>1. \A r \in Rows : Calls("connect", r, "me") \in Called  BY DEF Calls, Called, Kinds
  <2> QED  BY <1>1, <1>3, <2>1
<1>8. win' \in ServersScreen /\ WayInv'  BY <1>1, FirstWindowIs, Zenon DEF WayInv
<1> QED  BY <1>6, <1>7, <1>8, StepKeeps

\* The screen is mounted again.
LEMMA RemountKeeps ==
    ASSUME HubInv, win' = Remounts(win), UNCHANGED <<list, vault, entries, ipc, stray>>
    PROVE  HubInv'
<1>1. win \in ServersScreen /\ ipc \subseteq Called  BY DEF HubInv, HubTypes
<1>2. win.push \in Shown \cup {Nothing}  BY <1>1 DEF ServersScreen
<1>3. win.push # Nothing /\ ~stray' /\ Quiet' => win.push = Summaries(entries')
  BY Zenon DEF HubInv, WayInv, Quiet
<1>4. /\ win' \in ServersScreen /\ win'.answer = Nothing /\ win'.push = win.push
      /\ win'.asked
  BY <1>2, NewWindowIs, Zenon DEF Remounts
<1>5. WayInv'  BY <1>3, <1>4, Zenon DEF WayInv
<1>6. RowsHold'  BY RowsStay
<1> QED  BY <1>1, <1>4, <1>5, <1>6, StepKeeps

\* The hub's variables are as they were.
LEMMA HubStays ==
    ASSUME HubInv, UNCHANGED <<list, vault, entries, ipc, win, stray>>
    PROVE  HubInv'
<1>1. RowsHold'  BY RowsStay
<1>2. WayInv'  BY Zenon DEF HubInv, WayInv, Quiet
<1>3. ipc' \subseteq Called /\ win' \in ServersScreen  BY DEF HubInv, HubTypes
<1> QED  BY <1>1, <1>2, <1>3, StepKeeps

\* Each of the hub's steps.
LEMMA HubKeeps ==
    ASSUME HubInv, HubNext
    PROVE  HubInv'
<1>1. CASE Hears  BY <1>1, HearsKeeps
<1>2. CASE Submits \/ ClosesDialog  BY <1>2, DialogKeeps
<1>3. CASE Restarts  BY <1>3, RestartsKeeps
<1>4. ASSUME NEW r \in Rows, NEW kind \in Kinds, ClicksRow(r, kind) PROVE HubInv'
  BY <1>4, ClicksRowKeeps
<1>5. ASSUME NEW r \in Rows,
             \/ Adds(r) \/ AsksForBytes(r)
             \/ Refreshes(r) \/ Refreshed(r) \/ OrphanStores(r) \/ RefreshFails(r)
             \/ RowSignedOut(r) \/ DotMoves(r)
      PROVE  HubInv'
  <2>1. CASE Adds(r)  BY <2>1, AddsKeeps
  <2>2. CASE AsksForBytes(r)  BY <2>2, HubStays, Zenon DEF AsksForBytes
  <2>3. CASE Refreshes(r) \/ Refreshed(r) \/ RefreshFails(r)  BY <2>3, RefreshKeeps
  <2>4. CASE OrphanStores(r)  BY <2>4, OrphanKeeps
  <2>5. CASE RowSignedOut(r)  BY <2>5, SignedOutKeeps
  <2>6. CASE DotMoves(r)  BY <2>6, DotKeeps
  <2> QED  BY <1>5, <2>1, <2>2, <2>3, <2>4, <2>5, <2>6
<1>6. ASSUME NEW c \in ipc, CallEnds(c) \/ PairEnds(c) \/ PairFails(c) PROVE HubInv'
  <2>1. CASE CallEnds(c)  BY <2>1, ConnectedKeeps, EndedKeeps DEF CallEnds
  <2>2. CASE PairEnds(c)  BY <2>2, PairEndsKeeps
  <2>3. CASE PairFails(c)  BY <2>3, DialogKeeps
  <2> QED  BY <1>6, <2>1, <2>2, <2>3
<1>7. CASE SendsVideo \/ VideoEnds  BY <1>7, HubStays, Zenon DEF SendsVideo, VideoEnds
<1> QED  BY <1>1, <1>2, <1>3, <1>4, <1>5, <1>6, <1>7, Zenon DEF HubNext

\* The clients that the applications start with.
LEMMA StartedIs ==
    ASSUME NEW l, NEW v, l \subseteq Rows, v \subseteq l, Started(l, v)
    PROVE  HubInv
<1>1. /\ entries = [r \in Rows |-> IF r \in list THEN Fresh(r) ELSE NoClient]
      /\ list = l /\ vault = v /\ ipc = {} /\ win = NewWindow
  BY Zenon DEF Started
<1>2. entries \in [Rows -> Client]  BY <1>1, FreshIs, NoClientIs
<1>3. ASSUME NEW r \in Rows PROVE RowInv(r)
  <2>1. CASE r \in list
    <3>1. entries[r] = Fresh(r)  BY <1>1, <2>1
    <3> QED  BY <2>1, <3>1, FreshIs, Zenon DEF RowInv
  <2>2. CASE r \notin list
    <3>1. entries[r] = NoClient /\ r \notin vault  BY <1>1, <2>2
    <3> QED  BY <2>2, <3>1, NoClientIs, Zenon DEF RowInv
  <2> QED  BY <2>1, <2>2
<1>4. RowsHold  BY <1>1, <1>2, <1>3 DEF RowsHold
<1>5. HubTypes /\ WayInv
  <2>1. ipc \subseteq Called  BY <1>1
  <2> QED  BY <1>1, <2>1, FirstWindowIs, Zenon DEF HubTypes, WayInv
<1> QED  BY <1>4, <1>5 DEF HubInv

LEMMA HubStarts == MCInit => HubInv
<1> SUFFICES ASSUME MCInit PROVE HubInv  OBVIOUS
<1>1. CASE \E v \in SUBSET {"s1"} : Started({}, {}) \/ Started(Rows, v)
  <2>1. PICK v \in SUBSET {"s1"} : Started({}, {}) \/ Started(Rows, v)  BY <1>1
  <2>2. v \subseteq Rows  BY RowAssumption
  <2> QED  BY <2>1, <2>2, StartedIs
<1>2. CASE /\ list = {"s1"} /\ vault = {"s1"} /\ ipc = {} /\ win = NewWindow
           /\ entries = [r \in Rows |-> IF r = "s1" THEN Connected1 ELSE NoClient]
  <2> DEFINE yes == TRUE
             f == [NoClient EXCEPT !.in = yes, !.held = yes, !.paired = yes, !.started = yes,
                                   !.stream = yes, !.conn = "connected"]
  <2>1. Connected1 = f  BY Zenon DEF Connected1
  <2>2. yes \in BOOLEAN /\ yes  BY Zenon
  <2> HIDE DEF yes
  <2>3. /\ f \in Client /\ f.in = yes /\ f.held = yes /\ f.paired = yes
        /\ f.stream = yes /\ f.asked = NoClient.asked
    BY <2>2, NoClientIs DEF Client
  <2> HIDE DEF f
  <2>4. entries \in [Rows -> Client]  BY <1>2, <2>1, <2>3, NoClientIs
  <2>5. ASSUME NEW r \in Rows PROVE RowInv(r)
    <3>1. CASE r = "s1"
      <4>1. entries[r] = f /\ r \in list /\ r \in vault  BY <1>2, <2>1, <3>1
      <4> QED  BY <2>2, <2>3, <4>1, NoClientIs, Zenon DEF RowInv
    <3>2. CASE r # "s1"
      <4>1. entries[r] = NoClient /\ r \notin list /\ r \notin vault  BY <1>2, <3>2
      <4> QED  BY <4>1, NoClientIs, Zenon DEF RowInv
    <3> QED  BY <3>1, <3>2
  <2>6. list \subseteq Rows  BY <1>2, RowAssumption
  <2>7. RowsHold  BY <2>4, <2>5, <2>6 DEF RowsHold
  <2>8. HubTypes /\ WayInv
    <3>1. ipc \subseteq Called  BY <1>2
    <3> QED  BY <1>2, <3>1, FirstWindowIs, Zenon DEF HubTypes, WayInv
  <2> QED  BY <2>7, <2>8 DEF HubInv
<1> QED  BY <1>1, <1>2, Zenon DEF MCInit, DesktopScenario

---------------------------------------------------------------------------
(* The desktop client's window. *)

LEMMA AskIs ==
    ASSUME NEW kind \in {"folders", "list", "search", "timer", "dav", "media"},
           NEW place \in SomePlace, NEW word \in AnyWord
    PROVE  /\ Ask(kind, place, word) \in Asked /\ Ask(kind, place, word).live
           /\ Ask(kind, place, word).kind = kind /\ Ask(kind, place, word).place = place
           /\ Ask(kind, place, word).word = word
<1> DEFINE yes == TRUE
           a == [kind |-> kind, place |-> place, word |-> word, live |-> yes]
<1>1. Ask(kind, place, word) = a  BY Zenon DEF Ask
<1>2. yes \in BOOLEAN /\ yes  BY Zenon
<1> HIDE DEF yes
<1>3. a \in Asked /\ a.live = yes /\ a.kind = kind /\ a.place = place /\ a.word = word
  BY <1>2 DEF Asked
<1> HIDE DEF a
<1> QED  BY <1>1, <1>2, <1>3, Zenon

LEMMA NewLibraryIs ==
    /\ NewLibrary \in Library
    /\ NewLibrary.sel = Nothing /\ NewLibrary.loading /\ NewLibrary.rows.of = Nothing
<1> DEFINE yes == TRUE
           no  == FALSE
           l == [sel |-> Nothing, folder |-> Nothing, rows |-> NoRows, query |-> NoWord,
                 loading |-> yes, searching |-> no, error |-> no, behind |-> no]
<1>1. NewLibrary = l  BY Zenon DEF NewLibrary
<1>2. yes \in BOOLEAN /\ no \in BOOLEAN /\ yes  BY Zenon
<1>3. NoRows \in [of : SomePlace, word : AnyWord] /\ NoRows.of = Nothing
  BY DEF NoRows, SomePlace, AnyWord
<1> HIDE DEF yes, no
<1>4. l \in Library /\ l.sel = Nothing /\ l.loading = yes /\ l.rows = NoRows
  BY <1>2, <1>3 DEF Library, SomePlace, AnyWord
<1> HIDE DEF l
<1> QED  BY <1>1, <1>2, <1>3, <1>4, Zenon

LEMMA AtServersIs ==
    /\ AtServers \in Route /\ AtServers.at = "servers"
    /\ AtServers.dav = Nothing /\ AtServers.media = Nothing
<1> DEFINE no == FALSE
           l == [at |-> "servers", row |-> Nothing, film |-> Nothing, folder |-> Nothing,
                 playable |-> no, dav |-> Nothing, media |-> Nothing, refused |-> no]
<1>1. AtServers = l  BY Zenon DEF AtServers
<1>2. no \in BOOLEAN  BY Zenon
<1> HIDE DEF no
<1>3. l \in Route /\ l.at = "servers" /\ l.dav = Nothing /\ l.media = Nothing
  BY <1>2 DEF Route, SomePlace
<1> HIDE DEF l
<1> QED  BY <1>1, <1>3, Zenon

\* What is left to be shown of a step on each screen.
LEMMA LibraryStep ==
    ASSUME where' \in Route, where'.at = "library", page' \in Library, asks' \subseteq Asked,
           LibraryInv'
    PROVE  WindowInv'
BY DEF WindowInv, WindowTypes

LEMMA PlayerStep ==
    ASSUME where' \in Route, where'.at = "player", page' \in Library, asks' \subseteq Asked,
           PlayerInv'
    PROVE  WindowInv'
BY DEF WindowInv, WindowTypes

\* A library is entered, or left for the servers.
LEMMA EntersLibraryKeeps ==
    ASSUME NEW r \in Rows \cup {Nothing}, EntersLibrary(r)
    PROVE  WindowInv'
<1> DEFINE f == Ask("folders", Nothing, NoWord)
<1>1. /\ where' = [AtServers EXCEPT !.at = "library", !.row = r]
      /\ page' = NewLibrary /\ asks' = {f}
  BY DEF EntersLibrary
<1>2. /\ where' \in Route /\ where'.at = "library" /\ where'.dav = Nothing
      /\ where'.media = Nothing
  BY <1>1, AtServersIs DEF Route
<1>3. f \in Asked /\ f.kind = "folders"  BY AskIs DEF SomePlace, AnyWord
<1>4. ASSUME NEW a \in asks' PROVE LibraryAsk(a)'
  <2>1. a = f  BY <1>1
  <2>2. a.kind = "folders" /\ page'.sel = Nothing /\ page'.loading
    BY <1>1, <1>3, <2>1, NewLibraryIs
  <2> QED  BY <2>1, <2>2 DEF LibraryAsk
<1> HIDE DEF f
<1>5. RowsInv'  BY <1>1, NewLibraryIs, Zenon DEF RowsInv
<1>6. LibraryInv'  BY <1>2, <1>4, <1>5 DEF LibraryInv
<1> QED  BY <1>1, <1>2, <1>3, <1>6, NewLibraryIs, LibraryStep

LEMMA LeavesForServersKeeps ==
    ASSUME LeavesForServers
    PROVE  WindowInv'
<1>1. where' = AtServers /\ page' = NewLibrary /\ asks' = {}  BY DEF LeavesForServers
<1> QED  BY <1>1, AtServersIs, NewLibraryIs DEF WindowInv, WindowTypes

\* The effects of the library are cleaned up and run again.
LEMMA ListsKeep ==
    ASSUME WindowInv, where.at = "library", where' = where,
           NEW place \in SomePlace, NEW word \in AnyWord, NEW out, out \subseteq asks,
           Lists(place, word, out),
           place = Nothing => page.sel = Nothing,
           place # Nothing => \A a \in out : a.kind # "folders",
           word # NoWord => place = page.sel \/ page.loading
    PROVE  WindowInv'
<1>1. /\ where \in Route /\ page \in Library /\ asks \subseteq Asked /\ LibraryInv
  BY DEF WindowInv, WindowTypes
<1> DEFINE Stale(a) == [a EXCEPT !.live = a.kind = "folders"]
           stale == {Stale(a) : a \in {x \in out : x.kind # "timer"}}
           yes == TRUE
           no == FALSE
           seeks == word # NoWord
           at == [page EXCEPT !.sel = place, !.query = word, !.searching = seeks]
<1>2. ASSUME NEW b \in stale
      PROVE  /\ b \in Asked
             /\ b.kind \in {"folders", "list", "search"}
             /\ b.kind = "folders" => b = Ask("folders", Nothing, NoWord) /\ b \in out
             /\ b.live => b.kind = "folders"
  <2>1. PICK a \in out : b = Stale(a) /\ a.kind # "timer"  OBVIOUS
  <2> DEFINE lives == a.kind = "folders"
  <2>2. b = [a EXCEPT !.live = lives]  BY <2>1, Zenon
  <2>3. lives \in BOOLEAN  BY Zenon
  <2>4. a \in Asked /\ LibraryAsk(a)  BY <1>1 DEF LibraryInv
  <2>5. lives <=> a.kind = "folders"  OBVIOUS
  <2>6. a.kind = "folders" => a = Ask("folders", Nothing, NoWord)  BY <2>4 DEF LibraryAsk
  <2> HIDE DEF lives, stale, Stale
  <2>7. b \in Asked /\ b.kind = a.kind /\ b.live = lives  BY <2>2, <2>3, <2>4 DEF Asked
  <2>8. a.kind = "folders" => b = a
    <3>1. SUFFICES ASSUME a.kind = "folders" PROVE b = a  OBVIOUS
    <3>2. a.live
      <4>1. Ask("folders", Nothing, NoWord).live  BY AskIs DEF SomePlace, AnyWord
      <4> QED  BY <2>6, <3>1, <4>1
    <3>3. a.live = lives
      <4>1. a.live \in BOOLEAN  BY <2>4 DEF Asked
      <4> QED  BY <2>3, <2>5, <3>1, <3>2, <4>1, Zenon
    <3> QED  BY <2>2, <2>4, <3>3 DEF Asked
  <2>9. a.kind \in {"folders", "list", "search"}  BY <2>1, <2>4 DEF LibraryAsk
  <2> QED  BY <2>5, <2>6, <2>7, <2>8, <2>9
<1>3. /\ at \in Library /\ at.sel = place /\ at.query = word /\ at.rows = page.rows
      /\ at.loading = page.loading /\ at.folder = page.folder /\ at.behind = page.behind
  <2>1. seeks \in BOOLEAN  BY Zenon
  <2> HIDE DEF seeks
  <2> QED  BY <1>1, <2>1 DEF Library
<1>4. yes \in BOOLEAN /\ no \in BOOLEAN /\ yes  BY Zenon
<1>5. \/ word # NoWord /\ page' = at /\ asks' = stale \cup {Ask("timer", place, word)}
      \/ word = NoWord /\ place = Nothing /\ page' = at /\ asks' = stale
      \/ /\ word = NoWord /\ place # Nothing
         /\ page' = [at EXCEPT !.loading = yes, !.error = no]
         /\ asks' = stale \cup {Ask("list", place, NoWord)}
  BY DEF Lists
<1>6. /\ page' \in Library /\ page'.sel = place /\ page'.query = word
      /\ page'.rows = page.rows /\ page'.folder = page.folder /\ page'.behind = page.behind
      /\ word = NoWord /\ place # Nothing => page'.loading
      /\ word # NoWord \/ place = Nothing => page'.loading = page.loading
  <2> HIDE DEF at, yes, no, stale
  <2> QED  BY <1>3, <1>4, <1>5 DEF Library
<1>7. /\ Ask("timer", place, word) \in Asked /\ Ask("timer", place, word).live
      /\ Ask("timer", place, word).kind = "timer"
      /\ Ask("timer", place, word).place = place /\ Ask("timer", place, word).word = word
      /\ Ask("list", place, NoWord) \in Asked /\ Ask("list", place, NoWord).live
      /\ Ask("list", place, NoWord).kind = "list"
      /\ Ask("list", place, NoWord).place = place /\ Ask("list", place, NoWord).word = NoWord
  BY AskIs DEF AnyWord
<1> HIDE DEF stale, at
<1>8. asks' \subseteq Asked  BY <1>2, <1>5, <1>7
<1>9. \A a \in out : a.kind = "folders" => page.sel = Nothing /\ page.loading
  BY <1>1 DEF LibraryInv, LibraryAsk
<1>10. ASSUME NEW b \in asks' PROVE LibraryAsk(b)'
  <2>1. CASE b \in stale
    <3>1. b.kind = "folders" => page'.sel = Nothing /\ page'.loading
      BY <1>2, <1>6, <1>9, <2>1
    <3> QED  BY <1>2, <2>1, <3>1 DEF LibraryAsk
  <2>2. CASE b = Ask("timer", place, word)
    BY <1>6, <1>7, <2>2 DEF LibraryAsk
  <2>3. CASE b = Ask("list", place, NoWord) /\ word = NoWord /\ place # Nothing
    BY <1>6, <1>7, <2>3 DEF LibraryAsk
  <2> QED  BY <1>5, <2>1, <2>2, <2>3
<1>11. RowsInv'
  <2>1. page'.sel = Nothing => page'.rows.of = Nothing
    BY <1>1, <1>6 DEF LibraryInv, RowsInv
  <2>2. ~page'.loading => page'.rows.of \in {Nothing, page'.sel}
    BY <1>1, <1>6 DEF LibraryInv, RowsInv
  <2>3. page'.sel # Nothing /\ ~page'.loading => page'.folder = FolderOf[page'.sel] \/ page'.behind
    BY <1>1, <1>6 DEF LibraryInv, RowsInv
  <2>4. page'.sel # Nothing => \E a \in asks' : a.live
    BY <1>5, <1>6, <1>7
  <2> QED  BY <2>1, <2>2, <2>3, <2>4 DEF RowsInv
<1>12. LibraryInv'  BY <1>1, <1>10, <1>11 DEF LibraryInv
<1> QED  BY <1>1, <1>6, <1>8, <1>12, LibraryStep

\* A place is selected, or a word is typed.
LEMMA SelectsKeeps ==
    ASSUME WindowInv, NEW p \in Places, Selects(p)
    PROVE  WindowInv'
<1>1. /\ where.at = "library" /\ page.sel # Nothing /\ where' = where
      /\ Lists(p, NoWord, asks)
  BY DEF Selects
<1>2. \A a \in asks : a.kind # "folders"
  BY <1>1 DEF WindowInv, LibraryInv, LibraryAsk
<1>3. p \in SomePlace /\ p # Nothing /\ NoWord \in AnyWord
  BY PlacesAssumption DEF SomePlace, AnyWord
<1> QED  BY <1>1, <1>2, <1>3, ListsKeep

LEMMA TypesKeeps ==
    ASSUME WindowInv, NEW word \in AnyWord, Types(word)
    PROVE  WindowInv'
<1>1. where.at = "library" /\ where' = where /\ Lists(page.sel, word, asks)  BY DEF Types
<1>2. page.sel # Nothing => \A a \in asks : a.kind # "folders"
  BY <1>1 DEF WindowInv, LibraryInv, LibraryAsk
<1>3. page.sel \in SomePlace  BY DEF WindowInv, WindowTypes, Library
<1> QED  BY <1>1, <1>2, <1>3, ListsKeep

\* What is out is of the screen that is there.
LEMMA AskedWhere ==
    ASSUME WindowInv, NEW a \in asks
    PROVE  /\ a \in Asked /\ where.at \in {"library", "player"}
           /\ a.kind \in {"folders", "list", "search", "timer"} =>
                 where.at = "library" /\ LibraryInv /\ LibraryAsk(a)
           /\ a.kind \in {"dav", "media"} => where.at = "player" /\ PlayerInv /\ PlayerAsk(a)
BY DEF WindowInv, WindowTypes, Route, LibraryInv, LibraryAsk, PlayerInv, PlayerAsk

\* The library's answers.
LEMMA TimerKeeps ==
    ASSUME WindowInv, NEW a \in asks, TimerFires(a)
    PROVE  WindowInv'
<1> DEFINE b == Ask("search", a.place, a.word)
<1>1. a.kind = "timer" /\ asks' = (asks \ {a}) \cup {b} /\ UNCHANGED <<where, page>>
  BY DEF TimerFires
<1>2. a \in Asked /\ where.at = "library" /\ LibraryInv /\ LibraryAsk(a)  BY <1>1, AskedWhere
<1>3. a.place \in SomePlace /\ a.word \in AnyWord  BY <1>2 DEF Asked
<1>4. b \in Asked /\ b.kind = "search" /\ b.live /\ b.place = a.place /\ b.word = a.word
  BY <1>3, AskIs
<1> HIDE DEF b
<1>5. a.live /\ a.place = page.sel /\ a.word = page.query  BY <1>1, <1>2 DEF LibraryAsk
<1>6. ASSUME NEW c \in asks' PROVE LibraryAsk(c)'
  <2>1. CASE c = b  BY <1>1, <1>4, <1>5, <2>1 DEF LibraryAsk
  <2>2. CASE c \in asks
    <3>1. LibraryAsk(c)  BY <1>2, <2>2 DEF LibraryInv
    <3> QED  BY <1>1, <3>1 DEF LibraryAsk
  <2> QED  BY <1>1, <2>1, <2>2
<1>7. b \in asks'  BY <1>1
<1>8. RowsInv'  BY <1>1, <1>2, <1>4, <1>7 DEF LibraryInv, RowsInv
<1>9. LibraryInv'  BY <1>1, <1>2, <1>6, <1>8 DEF LibraryInv
<1>10. where \in Route /\ page \in Library /\ asks \subseteq Asked  BY DEF WindowInv, WindowTypes
<1>11. asks' \subseteq Asked  BY <1>1, <1>4, <1>10
<1> QED  BY <1>1, <1>2, <1>9, <1>10, <1>11, LibraryStep

\* One is answered, of which nothing is out any more.
LEMMA AnswerStep ==
    ASSUME WindowInv, where.at = "library", NEW a \in asks, where' = where, asks' = asks \ {a},
           page' \in Library, page'.sel = page.sel, page'.query = page.query,
           page'.loading = page.loading \/ \A b \in asks \ {a} : b.kind # "folders",
           RowsInv'
    PROVE  WindowInv'
<1>1. /\ where \in Route /\ page \in Library /\ asks \subseteq Asked /\ LibraryInv
  BY DEF WindowInv, WindowTypes
<1>2. ASSUME NEW b \in asks' PROVE LibraryAsk(b)'
  <2>1. LibraryAsk(b) /\ b \in asks \ {a}  BY <1>1 DEF LibraryInv
  <2> QED  BY <2>1 DEF LibraryAsk
<1>3. LibraryInv'  BY <1>1, <1>2 DEF LibraryInv
<1>4. asks' \subseteq Asked  BY <1>1
<1> QED  BY <1>1, <1>3, <1>4, LibraryStep

\* An answer of a request that was cleaned up changes nothing.
LEMMA StaleAnswer ==
    ASSUME WindowInv, where.at = "library", NEW a \in asks, ~a.live, where' = where,
           asks' = asks \ {a}, page' = page
    PROVE  WindowInv'
<1>1. page \in Library /\ LibraryInv  BY DEF WindowInv, WindowTypes
<1>2. (\A b \in asks' : ~b.live) => \A b \in asks : ~b.live  OBVIOUS
<1>3. RowsInv'  BY <1>1, <1>2 DEF LibraryInv, RowsInv
<1> QED  BY <1>1, <1>3, AnswerStep

LEMMA FoldersKeeps ==
    ASSUME WindowInv, NEW a \in asks, FoldersCome(a)
    PROVE  WindowInv'
<1>1. a.kind = "folders" /\ where' = where  BY DEF FoldersCome
<1>2. a \in Asked /\ where.at = "library" /\ LibraryInv /\ LibraryAsk(a)  BY <1>1, AskedWhere
<1>3. /\ page.sel = Nothing /\ page.loading /\ page.rows.of = Nothing
      /\ \A b \in asks \ {a} : b.kind # "folders"
  BY <1>1, <1>2 DEF LibraryInv, LibraryAsk, RowsInv
<1>4. page \in Library  BY DEF WindowInv, WindowTypes
<1>5. CASE page' = [page EXCEPT !.loading = FALSE] /\ asks' = asks \ {a}
  <2> DEFINE no == FALSE
  <2>1. page' = [page EXCEPT !.loading = no]  BY <1>5, Zenon
  <2>2. no \in BOOLEAN  BY Zenon
  <2> HIDE DEF no
  <2>3. /\ page' \in Library /\ page'.sel = page.sel /\ page'.query = page.query
        /\ page'.rows = page.rows
    BY <1>4, <2>1, <2>2 DEF Library
  <2>4. RowsInv'  BY <1>3, <2>3, Zenon DEF RowsInv
  <2> QED  BY <1>1, <1>2, <1>3, <1>5, <2>3, <2>4, AnswerStep
<1>6. CASE \E f \in {FolderOf[p] : p \in Places} : Lists(f, page.query, asks \ {a})
  <2>1. PICK f \in {FolderOf[p] : p \in Places} : Lists(f, page.query, asks \ {a})  BY <1>6
  <2>2. f \in Places /\ f \in SomePlace /\ f # Nothing  BY PlacesAssumption DEF SomePlace
  <2>3. page.query \in AnyWord  BY <1>4 DEF Library
  <2> QED  BY <1>1, <1>2, <1>3, <2>1, <2>2, <2>3, ListsKeep
<1> QED  BY <1>5, <1>6 DEF FoldersCome

LEMMA RowsComeKeeps ==
    ASSUME WindowInv, NEW a \in asks, RowsCome(a)
    PROVE  WindowInv'
<1>1. a.kind \in {"list", "search"} /\ where' = where /\ asks' = asks \ {a}  BY DEF RowsCome
<1>2. a \in Asked /\ where.at = "library" /\ LibraryInv /\ LibraryAsk(a)  BY <1>1, AskedWhere
<1>3. page \in Library  BY DEF WindowInv, WindowTypes
<1>4. CASE ~a.live
  <2>1. page' = page  BY <1>4, Zenon DEF RowsCome, Heeds
  <2> QED  BY <1>1, <1>2, <1>4, <2>1, StaleAnswer
<1> DEFINE no == FALSE
<1>5. no \in BOOLEAN  BY Zenon
<1>6. ~no  OBVIOUS
<1>7. a.live => a.place = page.sel /\ a.word = page.query  BY <1>1, <1>2 DEF LibraryAsk
<1>8. CASE a.live /\ a.kind = "list"
  <2> DEFINE got == [of |-> a.place, word |-> NoWord]
  <2>1. page' = [page EXCEPT !.folder = FolderOf[a.place], !.loading = no, !.behind = no,
                             !.rows = got]
    BY <1>8, Zenon DEF RowsCome, Heeds
  <2>2. a.place # Nothing /\ a.word = NoWord  BY <1>2, <1>8 DEF LibraryAsk
  <2>3. a.place \in Places  BY <1>2, <2>2 DEF Asked, SomePlace
  <2>4. FolderOf[a.place] \in SomePlace  BY <2>3, PlacesAssumption DEF SomePlace
  <2>5. got \in [of : SomePlace, word : AnyWord] /\ got.of = a.place
    BY <2>3 DEF SomePlace, AnyWord
  <2>6. got = [of |-> page.sel, word |-> page.query]  BY <1>7, <1>8, <2>2
  <2> HIDE DEF no, got
  <2>7. /\ page' \in Library /\ page'.sel = page.sel /\ page'.query = page.query
        /\ page'.rows = got /\ page'.folder = FolderOf[a.place] /\ page'.loading = no
    BY <1>3, <1>5, <2>1, <2>4, <2>5 DEF Library
  <2>8. \A b \in asks : b.kind # "folders"
    BY <1>2, <1>7, <1>8, <2>2 DEF LibraryInv, LibraryAsk
  <2>9. RowsInv'
    <3>1. page'.sel = a.place /\ page'.sel # Nothing  BY <1>7, <1>8, <2>2, <2>7
    <3>2. page'.rows.of = page'.sel  BY <2>5, <2>7, <3>1
    <3> QED  BY <2>6, <2>7, <3>1, <3>2, Zenon DEF RowsInv
  <2> QED  BY <1>1, <1>2, <2>7, <2>8, <2>9, AnswerStep
<1>9. CASE a.live /\ a.kind = "search"
  <2> DEFINE got == [of |-> a.place, word |-> a.word]
  <2>1. page' = [page EXCEPT !.error = no, !.rows = got]
    BY <1>9, Zenon DEF RowsCome, Heeds
  <2>2. got \in [of : SomePlace, word : AnyWord] /\ got.of = a.place
    BY <1>2 DEF Asked
  <2>3. got = [of |-> page.sel, word |-> page.query]  BY <1>7, <1>9
  <2> HIDE DEF no, got
  <2>4. /\ page' \in Library /\ page'.sel = page.sel /\ page'.query = page.query
        /\ page'.rows = got /\ page'.folder = page.folder /\ page'.loading = page.loading
        /\ page'.behind = page.behind
    BY <1>3, <1>5, <2>1, <2>2 DEF Library
  <2>5. page'.rows.of = page'.sel  BY <1>7, <1>9, <2>2, <2>4
  <2>6. RowsInv'  BY <1>2, <2>3, <2>4, <2>5, Zenon DEF RowsInv, LibraryInv
  <2> QED  BY <1>1, <1>2, <2>4, <2>6, AnswerStep
<1> QED  BY <1>1, <1>4, <1>8, <1>9

LEMMA LibraryFailsKeeps ==
    ASSUME WindowInv, NEW a \in asks, LibraryFails(a)
    PROVE  WindowInv'
<1>1. a.kind \in {"folders", "list", "search"} /\ where' = where /\ asks' = asks \ {a}
  BY DEF LibraryFails
<1>2. a \in Asked /\ where.at = "library" /\ LibraryInv /\ LibraryAsk(a)  BY <1>1, AskedWhere
<1>3. page \in Library  BY DEF WindowInv, WindowTypes
<1>4. CASE ~a.live
  <2>1. page' = page  BY <1>4, Zenon DEF LibraryFails, Heeds
  <2> QED  BY <1>1, <1>2, <1>4, <2>1, StaleAnswer
<1> DEFINE no  == FALSE
           yes == TRUE
<1>5. no \in BOOLEAN /\ yes \in BOOLEAN /\ yes  BY Zenon
<1>6. CASE a.live /\ a.kind = "folders"
  <2>1. page' = [page EXCEPT !.error = yes, !.loading = no]
    BY <1>6, Zenon DEF LibraryFails, Heeds
  <2>2. /\ page.sel = Nothing /\ page.rows.of = Nothing
        /\ \A b \in asks \ {a} : b.kind # "folders"
    BY <1>2, <1>6 DEF LibraryInv, LibraryAsk, RowsInv
  <2> HIDE DEF no, yes
  <2>3. /\ page' \in Library /\ page'.sel = page.sel /\ page'.query = page.query
        /\ page'.rows = page.rows
    BY <1>3, <1>5, <2>1 DEF Library
  <2>4. RowsInv'  BY <2>2, <2>3, Zenon DEF RowsInv
  <2> QED  BY <1>1, <1>2, <2>2, <2>3, <2>4, AnswerStep
<1>7. CASE a.live /\ a.kind = "list"
  <2>1. page' = [page EXCEPT !.error = yes, !.loading = no, !.rows = NoRows, !.behind = yes]
    BY <1>7, Zenon DEF LibraryFails, Heeds
  <2>2. a.place = page.sel /\ a.place # Nothing  BY <1>2, <1>7 DEF LibraryAsk
  <2>3. \A b \in asks : b.kind # "folders"  BY <1>2, <2>2 DEF LibraryInv, LibraryAsk
  <2>4. NoRows \in [of : SomePlace, word : AnyWord] /\ NoRows.of = Nothing
    BY DEF NoRows, SomePlace, AnyWord
  <2> HIDE DEF no, yes
  <2>5. /\ page' \in Library /\ page'.sel = page.sel /\ page'.query = page.query
        /\ page'.rows = NoRows /\ page'.error = yes /\ page'.behind = yes
    BY <1>3, <1>5, <2>1, <2>4 DEF Library
  <2>6. page'.rows.of = Nothing  BY <2>4, <2>5
  <2>7. RowsInv'  BY <1>5, <2>5, <2>6 DEF RowsInv
  <2> QED  BY <1>1, <1>2, <2>3, <2>5, <2>7, AnswerStep
<1>8. CASE a.live /\ a.kind = "search"
  <2>1. page' = [page EXCEPT !.error = yes]
    BY <1>8 DEF LibraryFails, Heeds
  <2> HIDE DEF no, yes
  <2>2. /\ page' \in Library /\ page'.sel = page.sel /\ page'.query = page.query
        /\ page'.rows = page.rows /\ page'.folder = page.folder /\ page'.loading = page.loading
        /\ page'.behind = page.behind /\ page'.error = yes
    BY <1>3, <1>5, <2>1 DEF Library
  <2>3. RowsInv'  BY <1>2, <1>5, <2>2, Zenon DEF RowsInv, LibraryInv
  <2> QED  BY <1>1, <1>2, <2>2, <2>3, AnswerStep
<1> QED  BY <1>1, <1>4, <1>6, <1>7, <1>8

\* A film is opened: of the selection, since nothing loads.
LEMMA OpensFilmKeeps ==
    ASSUME WindowInv, NEW playable \in BOOLEAN, OpensFilm(playable)
    PROVE  WindowInv'
<1>1. /\ where.at = "library" /\ ~page.loading
      /\ page.rows.of # Nothing /\ page.folder # Nothing
      /\ where' = [where EXCEPT !.at = "player", !.film = page.rows.of, !.folder = page.folder,
                                !.playable = playable]
      /\ asks' = {Ask("dav", page.folder, NoWord)}
                    \cup (IF playable THEN {Ask("media", page.rows.of, NoWord)} ELSE {})
      /\ page' = page
  BY DEF OpensFilm
<1>2. where \in Route /\ page \in Library /\ LibraryInv  BY <1>1 DEF WindowInv, WindowTypes
<1>3. page.rows.of \in SomePlace /\ page.folder \in SomePlace /\ page.behind \in BOOLEAN
  BY <1>2 DEF Library
<1>4. /\ where' \in Route /\ where'.at = "player" /\ where'.film = page.rows.of
      /\ where'.folder = page.folder /\ where'.playable = playable
      /\ where'.dav = where.dav /\ where'.media = where.media
  BY <1>1, <1>2, <1>3 DEF Route
<1> DEFINE d == Ask("dav", page.folder, NoWord)
           m == Ask("media", page.rows.of, NoWord)
<1>5. /\ d \in Asked /\ d.kind = "dav" /\ d.place = page.folder
      /\ m \in Asked /\ m.kind = "media" /\ m.place = page.rows.of
  BY <1>3, AskIs DEF AnyWord
<1>6. asks' = {d} \cup (IF playable THEN {m} ELSE {})  BY <1>1
<1> HIDE DEF d, m
<1>7. asks' \subseteq Asked  BY <1>5, <1>6
<1>8. \A a \in asks' : PlayerAsk(a)'  BY <1>4, <1>5, <1>6 DEF PlayerAsk
<1>9. page.folder = FolderOf[page.rows.of] \/ page.behind
  BY <1>1, <1>2 DEF LibraryInv, RowsInv
<1>10. playable => \E a \in asks' : a.kind = "media"  BY <1>5, <1>6
<1>11. PlayerInv'
  <2>1. where'.film # Nothing  BY <1>1, <1>4
  <2>2. where'.folder = FolderOf[where'.film] \/ page'.behind  BY <1>1, <1>4, <1>9
  <2>3. where'.dav = Nothing /\ where'.media = Nothing  BY <1>2, <1>4 DEF LibraryInv
  <2>4. where'.playable => \E a \in asks' : a.kind = "media"  BY <1>4, <1>10
  <2> QED  BY <1>8, <2>1, <2>2, <2>3, <2>4 DEF PlayerInv
<1> QED  BY <1>1, <1>2, <1>4, <1>7, <1>11, PlayerStep

\* The player's answers.
LEMMA AddressKeeps ==
    ASSUME WindowInv, NEW a \in asks, AddressComes(a)
    PROVE  WindowInv'
<1>1. /\ a.kind \in {"dav", "media"} /\ asks' = asks \ {a} /\ page' = page
      /\ where' = IF a.kind = "dav" THEN [where EXCEPT !.dav = a.place]
                                    ELSE [where EXCEPT !.media = a.place]
  BY DEF AddressComes
<1>2. a \in Asked /\ where.at = "player" /\ PlayerInv /\ PlayerAsk(a)  BY <1>1, AskedWhere
<1>3. where \in Route /\ page \in Library /\ asks \subseteq Asked  BY DEF WindowInv, WindowTypes
<1>4. a.place \in SomePlace  BY <1>2 DEF Asked
<1>5. /\ where' \in Route /\ where'.at = "player" /\ where'.film = where.film
      /\ where'.folder = where.folder /\ where'.playable = where.playable
      /\ where'.refused = where.refused
      /\ a.kind = "dav" => where'.dav = a.place /\ where'.media = where.media
      /\ a.kind = "media" => where'.media = a.place /\ where'.dav = where.dav
  BY <1>1, <1>2, <1>3, <1>4 DEF Route
<1>6. PlayerInv'
  <2>1. \A b \in asks' : PlayerAsk(b)'
    BY <1>1, <1>2, <1>5 DEF PlayerInv, PlayerAsk
  <2>2. /\ where'.film # Nothing
        /\ where'.folder = FolderOf[where'.film] \/ page'.behind
    BY <1>1, <1>2, <1>5 DEF PlayerInv
  <2>3. where'.dav \in {Nothing, where'.folder} /\ where'.media \in {Nothing, where'.film}
    BY <1>1, <1>2, <1>5 DEF PlayerInv, PlayerAsk
  <2>4. where'.playable /\ where'.media = Nothing /\ ~where'.refused
           => \E b \in asks' : b.kind = "media"
    <3>1. CASE a.kind = "media"
      BY <1>2, <1>5, <2>2, <3>1 DEF PlayerAsk
    <3>2. CASE a.kind = "dav"
      BY <1>1, <1>2, <1>5, <3>2 DEF PlayerInv
    <3> QED  BY <1>1, <3>1, <3>2
  <2> QED  BY <2>1, <2>2, <2>3, <2>4 DEF PlayerInv
<1>7. asks' \subseteq Asked  BY <1>1, <1>3
<1> QED  BY <1>1, <1>3, <1>5, <1>6, <1>7, PlayerStep

LEMMA PlayerFailsKeeps ==
    ASSUME WindowInv, (\E a \in asks : PlayerFails(a)) \/ EngineRefuses
    PROVE  WindowInv'
<1>1. PICK gone :
          /\ where.at = "player" /\ page' = page /\ asks' = asks \ gone
          /\ \/ where' = [where EXCEPT !.refused = TRUE]
             \/ where' = where /\ \A a \in gone : a.kind # "media"
  <2>1. CASE EngineRefuses
    <3>1. asks' = asks \ {}  BY <2>1 DEF EngineRefuses
    <3> QED  BY <2>1, <3>1 DEF EngineRefuses
  <2>2. CASE \E a \in asks : PlayerFails(a)
    <3>1. PICK a \in asks : PlayerFails(a)  BY <2>2
    <3>2. a.kind \in {"dav", "media"} /\ asks' = asks \ {a} /\ page' = page
      BY <3>1, Zenon DEF PlayerFails
    <3>3. where.at = "player" /\ where \in Route
      BY <3>2, AskedWhere DEF WindowInv, WindowTypes
    <3>4. CASE a.kind = "media"
      <4>1. (where.refused \/ a.kind = "media") = TRUE  BY <3>4, Zenon
      <4>2. where' = [where EXCEPT !.refused = where.refused \/ a.kind = "media"]
        BY <3>1, Zenon DEF PlayerFails
      <4>3. where' = [where EXCEPT !.refused = TRUE]  BY <4>1, <4>2, Zenon
      <4> QED  BY <3>2, <3>3, <4>3, Zenon
    <3>5. CASE a.kind = "dav"
      <4> DEFINE gives == where.refused \/ a.kind = "media"
      <4>1. where' = [where EXCEPT !.refused = gives]  BY <3>1, Zenon DEF PlayerFails
      <4>2. where.refused \in BOOLEAN  BY <3>3 DEF Route
      <4>3. gives = where.refused  BY <3>5, <4>2
      <4> HIDE DEF gives
      <4>4. where' = where  BY <3>3, <4>1, <4>3 DEF Route
      <4>5. \A b \in {a} : b.kind # "media"  BY <3>5
      <4> DEFINE gone == {a}
      <4>6. asks' = asks \ gone /\ \A b \in gone : b.kind # "media"  BY <3>2, <4>5, Zenon
      <4> HIDE DEF gone
      <4> QED  BY <3>2, <3>3, <4>4, <4>6, Zenon
    <3> QED  BY <3>2, <3>4, <3>5
  <2> QED  BY <2>1, <2>2
<1>2. where \in Route /\ page \in Library /\ asks \subseteq Asked /\ PlayerInv
  BY <1>1 DEF WindowInv, WindowTypes
<1> DEFINE yes == TRUE
<1>3. yes \in BOOLEAN /\ yes  BY Zenon
<1>4. \/ where' = [where EXCEPT !.refused = yes]
      \/ where' = where /\ \A a \in gone : a.kind # "media"
  BY <1>1
<1> HIDE DEF yes
<1>5. /\ where' \in Route /\ where'.at = "player" /\ where'.film = where.film
      /\ where'.folder = where.folder /\ where'.playable = where.playable
      /\ where'.dav = where.dav /\ where'.media = where.media
      /\ \/ where'.refused = yes
         \/ where' = where /\ \A a \in gone : a.kind # "media"
  BY <1>1, <1>2, <1>3, <1>4 DEF Route
<1>6. PlayerInv'
  <2>1. \A b \in asks' : PlayerAsk(b)'  BY <1>1, <1>2, <1>5 DEF PlayerInv, PlayerAsk
  <2>2. /\ where'.film # Nothing
        /\ where'.folder = FolderOf[where'.film] \/ page'.behind
        /\ where'.dav \in {Nothing, where'.folder} /\ where'.media \in {Nothing, where'.film}
    BY <1>1, <1>2, <1>5 DEF PlayerInv
  <2>3. where'.playable /\ where'.media = Nothing /\ ~where'.refused
           => \E b \in asks' : b.kind = "media"
    BY <1>1, <1>2, <1>3, <1>5 DEF PlayerInv
  <2> QED  BY <2>1, <2>2, <2>3 DEF PlayerInv
<1>7. asks' \subseteq Asked  BY <1>1, <1>2
<1> QED  BY <1>1, <1>2, <1>5, <1>6, <1>7, PlayerStep

\* The window's variables are as they were.
LEMMA WindowStays ==
    ASSUME WindowInv, UNCHANGED <<where, page, asks>>
    PROVE  WindowInv'
<1>1. (\A a \in asks : LibraryAsk(a)) => \A a \in asks' : LibraryAsk(a)'
  BY DEF LibraryAsk
<1>2. LibraryInv => LibraryInv'  BY <1>1 DEF LibraryInv, RowsInv
<1>3. PlayerInv => PlayerInv'  BY DEF PlayerInv, PlayerAsk
<1> QED  BY <1>2, <1>3 DEF WindowInv, WindowTypes

\* Each of the window's steps.
LEMMA WindowKeeps ==
    ASSUME HubInv, WindowInv, WindowNext
    PROVE  HubInv' /\ WindowInv'
<1>1. where \in Route /\ where.row \in Rows \cup {Nothing}
  BY DEF WindowInv, WindowTypes, Route
<1>2. Still => HubInv'  BY HubStays, Zenon DEF Still
<1>3. LeavesForServers => HubInv' /\ WindowInv'
  <2>1. LeavesForServers => HubInv'
    BY RemountKeeps, Zenon DEF LeavesForServers
  <2> QED  BY <2>1, LeavesForServersKeeps
<1>4. CASE BackToServers \/ SentBack  BY <1>3, <1>4, Zenon DEF BackToServers, SentBack
<1>5. CASE EngineRefuses
  <2>1. Still  BY <1>5, Zenon DEF EngineRefuses
  <2> QED  BY <1>2, <1>5, <2>1, PlayerFailsKeeps
<1>6. CASE BackToLibrary
  <2>1. Still /\ EntersLibrary(where.row)  BY <1>6, Zenon DEF BackToLibrary
  <2> QED  BY <1>1, <1>2, <2>1, EntersLibraryKeeps
<1>7. ASSUME NEW r \in Rows, OpensServer(r) PROVE HubInv' /\ WindowInv'
  <2>1. Still /\ EntersLibrary(r)  BY <1>7, Zenon DEF OpensServer
  <2> QED  BY <1>2, <2>1, EntersLibraryKeeps
<1>8. ASSUME NEW p \in Places, Selects(p) PROVE HubInv' /\ WindowInv'
  <2>1. Still  BY <1>8, Zenon DEF Selects
  <2> QED  BY <1>2, <1>8, <2>1, SelectsKeeps
<1>9. ASSUME NEW word \in Words \cup {NoWord}, Types(word) PROVE HubInv' /\ WindowInv'
  <2>1. Still  BY <1>9, Zenon DEF Types
  <2>2. word \in AnyWord  BY DEF AnyWord
  <2> QED  BY <1>2, <1>9, <2>1, <2>2, TypesKeeps
<1>10. ASSUME NEW playable \in BOOLEAN, OpensFilm(playable) PROVE HubInv' /\ WindowInv'
  <2>1. Still  BY <1>10, Zenon DEF OpensFilm
  <2> QED  BY <1>2, <1>10, <2>1, OpensFilmKeeps
<1>11. ASSUME NEW a \in asks, Arrives(a) \/ LibraryFails(a) \/ PlayerFails(a)
       PROVE  HubInv' /\ WindowInv'
  <2>1. Still  BY <1>11, Zenon DEF Arrives, TimerFires, LibraryFails, PlayerFails
  <2>2. CASE TimerFires(a)  BY <1>2, <2>1, <2>2, TimerKeeps
  <2>3. CASE FoldersCome(a)  BY <1>2, <2>1, <2>3, FoldersKeeps
  <2>4. CASE RowsCome(a)  BY <1>2, <2>1, <2>4, RowsComeKeeps
  <2>5. CASE AddressComes(a)  BY <1>2, <2>1, <2>5, AddressKeeps
  <2>6. CASE LibraryFails(a)  BY <1>2, <2>1, <2>6, LibraryFailsKeeps
  <2>7. CASE PlayerFails(a)  BY <1>2, <2>1, <2>7, PlayerFailsKeeps
  <2> QED  BY <1>11, <2>2, <2>3, <2>4, <2>5, <2>6, <2>7, Zenon DEF Arrives
<1>12. ASSUME NEW u \in UploadIds,
              \/ StartsUpload(u) \/ Sends(u) \/ NotCounted(u) \/ UploadShown(u)
              \/ CancelsUpload(u) \/ UploadStops(u) \/ FileSent(u)
       PROVE  HubInv' /\ WindowInv'
  <2>1. Still /\ UNCHANGED <<where, page, asks>>
    BY <1>12, Zenon DEF StartsUpload, Sends, NotCounted, UploadShown, CancelsUpload, UploadStops,
                        FileSent, Upload
  <2> QED  BY <1>2, <2>1, WindowStays
<1> QED  BY <1>4, <1>5, <1>6, <1>7, <1>8, <1>9, <1>10, <1>11, <1>12, Zenon DEF WindowNext

\* A desktop client that starts, and every step of one.
LEMMA DesktopStarts == MCInit => DesktopInv
<1> SUFFICES ASSUME MCInit PROVE DesktopInv  OBVIOUS
<1>1. HubInv  BY HubStarts
<1>2. /\ where = [AtServers EXCEPT !.at = "servers"] /\ page = NewLibrary /\ asks = {}
  BY Zenon DEF MCInit, DesktopScenario, WindowInit
<1>3. where \in Route /\ where.at = "servers"  BY <1>2, AtServersIs DEF Route
<1>4. WindowInv  BY <1>2, <1>3, NewLibraryIs DEF WindowInv, WindowTypes
<1> QED  BY <1>1, <1>4 DEF DesktopInv

LEMMA DesktopKeeps == DesktopInv /\ [ClientsNext]_clientVars => DesktopInv'
<1> SUFFICES ASSUME DesktopInv, [ClientsNext]_clientVars PROVE DesktopInv'  OBVIOUS
<1>1. HubInv /\ WindowInv  BY DEF DesktopInv
<1>2. CASE HubNext /\ UNCHANGED <<where, page, asks>>
  BY <1>1, <1>2, HubKeeps, WindowStays DEF DesktopInv
<1>3. CASE WindowNext  BY <1>1, <1>3, WindowKeeps DEF DesktopInv
<1>4. CASE UNCHANGED <<list, vault, entries, ipc, win, stray, where, page, asks>>
  BY <1>1, <1>4, HubStays, WindowStays DEF DesktopInv
<1>5. CASE OnPhone  BY <1>4, <1>5, Zenon DEF OnPhone, hubVars, windowVars
<1>6. CASE OnHub  BY <1>2, <1>6, Zenon DEF OnHub, windowVars
<1>7. CASE OnWindow
  <2>1. CASE WindowNext  BY <1>3, <2>1
  <2>2. CASE ~WindowNext
    <3>1. /\ \/ Hears
             \/ \E r \in Rows : RowSignedOut(r) \/ ClicksRow(r, "remove")
             \/ \E c \in ipc : CallEnds(c)
          /\ UNCHANGED <<where, page, asks>>
      BY <1>7, <2>2, Zenon DEF OnWindow, WindowMoves, windowVars
    <3>2. "remove" \in Kinds  BY DEF Kinds
    <3>3. HubNext  BY <3>1, <3>2, Zenon DEF HubNext
    <3> QED  BY <1>2, <3>1, <3>3
  <2> QED  BY <2>1, <2>2
<1>8. CASE UNCHANGED clientVars
  BY <1>4, <1>8, Zenon DEF clientVars, hubVars, windowVars
<1> QED  BY <1>5, <1>6, <1>7, <1>8 DEF ClientsNext

\* What the runs check of the desktop client follows.
LEMMA DesktopIsGood == DesktopInv => DesktopHolds
<1> SUFFICES ASSUME HubInv, WindowInv PROVE DesktopHolds  BY DEF DesktopInv
<1>1. SessionsHaveRows
  <2>1. ASSUME NEW r \in Rows PROVE RowInv(r)  BY DEF HubInv, RowsHold
  <2> QED  BY <2>1, Zenon DEF RowInv, SessionsHaveRows
<1>2. RowsAreShown
  <2>1. ipc = {} => Quiet  BY DEF Quiet
  <2> QED  BY <2>1, Zenon DEF HubInv, WayInv, RowsAreShown
<1>3. ListingIsTheSelection
  BY DEF WindowInv, LibraryInv, RowsInv, ListingIsTheSelection
<1>4. HandoffIsTheFilm
  <2>1. SUFFICES ASSUME where.at = "player" PROVE HandoffIsTheFilm  BY DEF HandoffIsTheFilm
  <2>2. PlayerInv  BY <2>1 DEF WindowInv
  <2>3. asks = {} => where.media # Nothing \/ where.refused \/ ~where.playable
    BY <2>2 DEF PlayerInv
  <2> QED  BY <2>2, <2>3 DEF PlayerInv, HandoffIsTheFilm
<1> QED  BY <1>1, <1>2, <1>3, <1>4 DEF DesktopHolds, WindowHolds

---------------------------------------------------------------------------
(* What holds of every run of the client applications. *)

LEMMA PhoneOfClientsStarts == MCInit => PhoneInv
<1> SUFFICES ASSUME MCInit PROVE PhoneInv  OBVIOUS
<1>1. CASE PhoneInit
  <2>1. PICK s \in Scenarios : /\ ReachInit(s.session, s.alts, s.up, s.budget)
                               /\ ShelfInit(s.cache) /\ WorkerInit(0) /\ PairInit(s.link)
    BY <1>1 DEF PhoneInit
  <2>2. /\ s.session \in 0..MaxTokens /\ s.cache \in [v : Nat, at : Nat]
        /\ s.link => s.session = 0
    BY ScenariosAssumption
  <2>3. session = s.session /\ now = 0  BY <2>1 DEF ReachInit
  <2> QED  BY <2>1, <2>2, <2>3, PhoneStarts
<1>2. CASE StillPhone
  <2>1. /\ session = 0 /\ now = 0 /\ ShelfInit([v |-> 0, at |-> 0]) /\ WorkerInit(0)
        /\ PairInit(FALSE)
    BY <1>2 DEF StillPhone, ReachInit
  <2>2. 0 \in 0..MaxTokens /\ [v |-> 0, at |-> 0] \in [v : Nat, at : Nat]
    BY WorkerAssumption
  <2>3. FALSE => 0 = 0  OBVIOUS
  <2> QED  BY <2>1, <2>2, <2>3, PhoneStarts
<1> QED  BY <1>1, <1>2, Zenon DEF MCInit, DesktopScenario

LEMMA PhoneOfClientsKept == PhoneInv /\ [ClientsNext]_clientVars => PhoneInv'
<1> SUFFICES ASSUME PhoneInv, [ClientsNext]_clientVars PROVE PhoneInv'  OBVIOUS
<1>1. PhoneNext \/ UNCHANGED phoneVars
  BY Zenon DEF ClientsNext, OnPhone, OnHub, OnWindow, clientVars
<1> QED  BY <1>1, PhoneKept, PhoneRests

\* In every run of the client applications what the phone shows of the library is
\* the server's, or says how old it is; a folder's pages are in order; a video goes
\* on with the token that is in the store; the camera is on only for the run of the
\* scanner that looks at it; and a code is claimed once (useAsync, useEntryPages,
\* sw/media.ts, useQrScanner, PairRoute).
THEOREM PhoneHoldsAlways == ClientsSpec => []PhoneHolds
<1>1. MCInit => PhoneInv  BY PhoneOfClientsStarts
<1>2. PhoneInv /\ [ClientsNext]_clientVars => PhoneInv'  BY PhoneOfClientsKept
<1>3. PhoneInv => PhoneHolds  BY PhoneIsGood
<1> QED  BY <1>1, <1>2, <1>3, PTL DEF ClientsSpec

\* In every run of the client applications a row that says it is paired has its
\* session, in memory and in the vault, and a session has its row, when no call is on
\* its way, and until a session has come late for a row that was signed out or
\* removed meanwhile, or the file of the rows was lost (`stray': RemovedTakesAll is
\* the claim without it); the window shows the rows that the hub has; and what the
\* screens list and play is what was chosen (ClientHub, SessionVault, bridge.tsx,
\* LibraryScreen, PlayerScreen).
THEOREM DesktopHoldsAlways == ClientsSpec => []DesktopHolds
<1>1. MCInit => DesktopInv  BY DesktopStarts
<1>2. DesktopInv /\ [ClientsNext]_clientVars => DesktopInv'  BY DesktopKeeps
<1>3. DesktopInv => DesktopHolds  BY DesktopIsGood
<1> QED  BY <1>1, <1>2, <1>3, PTL DEF ClientsSpec
=============================================================================
