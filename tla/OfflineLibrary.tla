------------------------------ MODULE OfflineLibrary ------------------------------
(***************************************************************************)
(* What the phone shows of the library, and how it comes by it: the        *)
(* addresses at which the client knows its server (OriginFailoverTransport;*)
(* the session keeps the alternates that /me names), the requests it       *)
(* makes, and the dot that says whether there is a server                  *)
(* (ConnectionMonitor); the list of folders, through the offline cache     *)
(* (OfflineCache.withCache, useAsync, LibraryRoute); and the pages of one  *)
(* folder (useEntryPages).                                                 *)
(***************************************************************************)
EXTENDS Naturals, Sequences, SequencesExt, FiniteSets

CONSTANTS
    Origins,        \* the addresses at which a server may be
    Primary,        \* the one the application came from
    Asks,           \* "events", "list", "me": what asks, one request of each at a time
    Threshold,      \* failureThreshold: 3 in the code
    Window          \* failureWindowMs

ASSUME ReachAssumption == Primary \in Origins /\ {"events", "list", "me"} = Asks

VARIABLES
    session,        \* the access token of the stored session, by its number; 0: none
    alts,           \* altBaseUrls of the session
    up,             \* where the server is
    active,         \* #active: the origin that answered last
    net,            \* each request: the addresses it has still to try, none when it is not out
    stream,         \* the event stream: whether its loop runs, and where it is open, or 0
    dot,            \* the monitor: failures, first, ever, edge, state
    now,            \* the clock
    budget          \* bound: what is left of user, faults and ticks

reachVars == <<session, alts, up, active, net, stream, dot, now, budget>>

Costs(what) == budget[what] > 0 /\ budget' = [budget EXCEPT ![what] = @ - 1]

Edges == {"none", "connected", "connecting", "error"}

NewDot == [failures |-> 0, first |-> 0, ever |-> FALSE, edge |-> "none", state |-> "connecting"]

ReachInit(s, a, u, b) ==
    /\ session = s /\ alts = a /\ up = u /\ budget = b
    /\ active = Primary /\ now = 0
    /\ net = [ask \in Asks |-> <<>>]
    /\ stream = [on |-> FALSE, at |-> 0]
    /\ dot = NewDot

---------------------------------------------------------------------------
(* ConnectionMonitor.  What is computed is computed when something is noted:    *)
(* time alone changes nothing.                                                  *)

\* #compute: some failures, or long enough since the first of them, are an outage.
State(d) ==
    CASE d.failures > 0 ->
            IF d.failures >= Threshold \/ now - d.first >= Window THEN "offline" ELSE "connecting"
      [] d.failures = 0 /\ d.edge # "none" -> IF d.edge = "error" THEN "offline" ELSE d.edge
      [] OTHER -> IF d.ever THEN "connected" ELSE "connecting"

Recomputed(d) == [d EXCEPT !.state = State(d)]

Succeeded(d) == Recomputed([d EXCEPT !.failures = 0, !.ever = TRUE])

\* The count is of use up to the threshold.
Failed(d) ==
    Recomputed([d EXCEPT !.failures = IF @ < Threshold THEN @ + 1 ELSE @,
                         !.first = IF d.failures = 0 THEN now ELSE @])

NoteServerState(d, edge) == Recomputed([d EXCEPT !.edge = edge])

Online == dot.state # "offline"

---------------------------------------------------------------------------
(* OriginFailoverTransport. *)

NeverBack == <<active>> \o SelectSeq(alts, LAMBDA o : o # active)   \* mutant: primary is left out

\* #candidates: active first, then the alternates, then primary, each once.
Candidates ==
    LET rest == SelectSeq(alts, LAMBDA o : o # active)
    IN <<active>> \o rest
         \o (IF Primary \in ToSet(rest) \cup {active} THEN <<>> ELSE <<Primary>>)

Known == ToSet(alts) \cup {active, Primary}

\* A request sets out.  The addresses are those of this moment.
SetsOut(a) == net' = [net EXCEPT ![a] = Candidates]

Out(a) == net[a] # <<>>

\* An address does not answer, and there is another to try.
TriesNext(a) ==
    /\ Len(net[a]) > 1 /\ Head(net[a]) \notin up
    /\ net' = [net EXCEPT ![a] = Tail(@)]
    /\ UNCHANGED <<session, alts, up, active, stream, dot, now, budget>>

\* #adopt, and the outcome: noteSuccess, whatever the server says.
Reached(a) ==
    /\ Out(a) /\ Head(net[a]) \in up
    /\ active' = Head(net[a])
    /\ net' = [net EXCEPT ![a] = <<>>]
    /\ dot' = Succeeded(dot)

\* None has answered, or the last of them was too late.
Unreached(a) ==
    /\ Len(net[a]) = 1
    /\ IF Head(net[a]) \in up THEN Costs("faults") ELSE UNCHANGED budget
    /\ net' = [net EXCEPT ![a] = <<>>]
    /\ dot' = Failed(dot)
    /\ UNCHANGED <<session, alts, up, active, stream, now>>

---------------------------------------------------------------------------
(* The event stream (EventClient, whose loop and resumption are EventStream's): *)
(* while its loop runs, a request that is made again when it ends.              *)

Reconnects ==
    /\ stream.on /\ stream.at = 0 /\ ~Out("events")
    /\ SetsOut("events")
    /\ UNCHANGED <<session, alts, up, active, stream, dot, now, budget>>

StreamOpens ==
    /\ Reached("events")
    /\ stream' = [stream EXCEPT !.at = active']
    /\ UNCHANGED <<session, alts, up, now, budget>>

\* The server has gone from where it was: 'error' of the lifecycle.
StreamEnds ==
    /\ stream.at # 0 /\ stream.at \notin up
    /\ stream' = [stream EXCEPT !.at = 0]
    /\ dot' = Failed(dot)
    /\ UNCHANGED <<session, alts, up, active, net, now, budget>>

\* A `connection` event of the stream.
HearsEdge(edge) ==
    /\ stream.at # 0 /\ edge # dot.edge /\ edge # "none" /\ Costs("faults")
    /\ dot' = NoteServerState(dot, edge)
    /\ UNCHANGED <<session, alts, up, active, net, stream, now>>

\* client.start, and stop: a loop that is stopped ends when it next waits.
Starts  == stream' = [stream EXCEPT !.on = TRUE]
LeftOff == stream' = [on |-> FALSE, at |-> 0]

---------------------------------------------------------------------------
(* /me: the addresses of the server, as it knows them. *)

\* updateAlternates: those that are not the session's own.
Alternates == SetToSeq(up \ {Primary})

AsksMe ==
    /\ session # 0 /\ ~Out("me") /\ Costs("user")
    /\ SetsOut("me")
    /\ UNCHANGED <<session, alts, up, active, stream, dot, now>>

MeAnswers ==
    /\ Reached("me")
    /\ alts' = IF session # 0 THEN Alternates ELSE alts
    /\ UNCHANGED <<session, up, stream, now, budget>>

---------------------------------------------------------------------------
(* What happens around it. *)

Moves(u) ==
    /\ u # up /\ Costs("faults")
    /\ up' = u
    /\ UNCHANGED <<session, alts, active, net, stream, dot, now>>

Ticks ==
    /\ Costs("ticks")
    /\ now' = now + 1
    /\ UNCHANGED <<session, alts, up, active, net, stream, dot>>

\* 'signed-out': the stream stops, the transport and the dot forget what they learnt.
Forgets ==
    /\ session' = 0 /\ alts' = <<>>
    /\ active' = Primary
    /\ LeftOff
    /\ net' = [net EXCEPT !["events"] = <<>>]
    /\ dot' = NewDot

---------------------------------------------------------------------------
\* While the server is at an address the session knows, the stream opens there,
\* whatever address answered before, and over however many moves; and the dot is
\* green when nothing has failed since, unless the server itself says otherwise
\* (origin-failover.ts: "so an address that came back is found again";
\* connection.ts: "slow to go red, immediate to go green").
FollowsTheServer ==
    []<>(\/ ~stream.on \/ up \cap Known = {}
         \/ /\ stream.at \in up
            /\ dot.failures = 0 => dot.state = "connected" \/ dot.edge \notin {"none", "connected"})

\* The dot, whatever has failed since the stream opened.  (Not so: a failure that
\* came after the stream opened leaves it at "connecting" while the stream is well.)
DotFollows ==
    []<>(~stream.on \/ up \cap Known = {} \/ dot.state = "connected" \/ dot.edge \notin {"none", "connected"})

---------------------------------------------------------------------------
(* The list of folders, and the pages of one. *)

CONSTANTS
    Ttl,            \* ttlMs of "folders" and "entries"
    MaxStale,       \* maxStaleMs
    Keys,           \* folder and path, of a list of entries
    Pages           \* pages of each

ASSUME ShelfAssumption == Ttl \in Nat \ {0} /\ MaxStale \in Nat /\ Pages \in Nat \ {0}

VARIABLES
    lib,            \* the server's list: its version, and whether this device may see it
    cache,          \* the cached list: its version (0: none), and storedAt
    screen,         \* useAsync's state: v (0: null), stale, error, loading; age is history
    load,           \* the load of the effect's last run: how far, with what answer
    late,           \* the list that a load that is no longer live has still to write
    news,           \* history: the last version heard of, and whether a load raced it
    pages,          \* useEntryPages' state
    calls           \* requests of loadMore, and of the effect, under way

shelfVars == <<lib, cache, screen, load, late, news, pages, calls>>
listVars  == <<cache, screen, load, late, news>>

Nowhere   == [v |-> 0, at |-> 0]
EmptyList == [v |-> 0, stale |-> FALSE, error |-> FALSE, loading |-> FALSE, age |-> 0]
NoLoad    == [at |-> "none", v |-> 0]
NoPages   == [key |-> 0, rows |-> <<>>, cursor |-> 0, complete |-> FALSE, loading |-> FALSE,
              more |-> FALSE, overtaken |-> FALSE]

ShelfInit(c) ==
    /\ lib = [v |-> 1, seen |-> TRUE] /\ cache = c
    /\ screen = EmptyList /\ load = NoLoad
    /\ late = 0 /\ news = [v |-> 0, raced |-> FALSE]
    /\ pages = NoPages /\ calls = {}

---------------------------------------------------------------------------
(* OfflineCache. *)

\* evaluate, of "folders".
Verdict(c) ==
    LET age == now - c.at
    IN CASE c.v = 0                           -> "miss"
         [] c.v # 0 /\ age < Ttl              -> "fresh"
         [] c.v # 0 /\ age >= Ttl /\ ~Online /\ age <= MaxStale -> "stale-ok"
         [] OTHER                             -> "expired"

\* #staleFallback: whatever the dot says.
FallsBack == cache.v # 0 /\ now - cache.at <= MaxStale

\* An earlier run's load is not live: its request is aborted, and what it shows
\* comes to nothing; what it has been answered, it still writes.
Drops ==
    /\ late' = IF load.at = "writes" THEN load.v ELSE late
    /\ net' = [net EXCEPT !["list"] = <<>>]

\* The effect runs.
Runs ==
    /\ Drops
    /\ load' = [NoLoad EXCEPT !.at = "reads"]
    /\ screen' = [screen EXCEPT !.loading = TRUE, !.error = FALSE]

\* setState, when the run is live.
Shows(v, stale, age) ==
    screen' = [v |-> v, stale |-> stale, error |-> FALSE, loading |-> FALSE, age |-> age]

\* withCache reads; what is fresh is the answer.
ReadsCache ==
    /\ load.at = "reads"
    /\ IF Verdict(cache) = "fresh"
       THEN Shows(cache.v, FALSE, now - cache.at) /\ load' = NoLoad /\ UNCHANGED net
       ELSE load' = [load EXCEPT !.at = "fetches"] /\ SetsOut("list") /\ UNCHANGED screen
    /\ UNCHANGED <<cache, late, news>>

\* The server answers the request: with its list, or that it may not be seen.
Refused == screen' = [EmptyList EXCEPT !.error = TRUE] /\ load' = NoLoad

ListAnswers ==
    /\ load.at = "fetches"
    /\ IF lib.seen
       THEN load' = [load EXCEPT !.at = "writes", !.v = lib.v] /\ UNCHANGED screen
       ELSE Refused
    /\ UNCHANGED <<cache, late, news>>

\* The answer is written, then shown.
WritesList ==
    /\ load.at = "writes"
    /\ cache' = [v |-> load.v, at |-> now]
    /\ Shows(load.v, FALSE, 0) /\ load' = NoLoad
    /\ UNCHANGED <<late, news>>

LateWrites ==
    /\ late # 0
    /\ cache' = [v |-> late, at |-> now] /\ late' = 0
    /\ UNCHANGED <<screen, load, news>>

\* Nothing was reached: a stale copy, or the error.
ListFails ==
    /\ load.at = "fetches"
    /\ load' = NoLoad
    /\ IF FallsBack THEN Shows(cache.v, TRUE, now - cache.at)
                    ELSE screen' = [EmptyList EXCEPT !.error = TRUE]
    /\ UNCHANGED <<cache, late, news>>

---------------------------------------------------------------------------
(* The events of the list: 'permissions', 'device' and 'folder'. *)

\* The server's list changes, and is heard of where the stream is open.
Changes(seen) ==
    /\ lib' = [v |-> lib.v + 1, seen |-> seen]

\* refetchFolders: the copy is dropped, then the list is loaded again.  A load
\* that has been answered may still write what it has.
Refetches ==
    /\ cache' = Nowhere
    /\ news' = [v |-> lib'.v, raced |-> news.raced \/ load.at = "writes" \/ late # 0]
    /\ Runs

---------------------------------------------------------------------------
(* useEntryPages. *)

\* The effect: of a folder, or again; what it asked for before is aborted.  A
\* loadMore is not.
OpensFolder(k) ==
    /\ pages' = [NoPages EXCEPT !.key = k, !.loading = TRUE, !.more = pages.more,
                                !.overtaken = pages.more]
    /\ calls' = {c \in calls : c.kind = "more"} \cup
                {[kind |-> "first", key |-> k, page |-> 1]}

FirstPage(c) ==
    /\ c \in calls /\ c.kind = "first"
    /\ calls' = calls \ {c}
    /\ pages' = [pages EXCEPT !.loading = FALSE, !.rows = <<[key |-> c.key, page |-> 1]>>,
                              !.cursor = IF Pages > 1 THEN 2 ELSE 0,
                              !.complete = Pages = 1]

Unguarded == pages.key # 0 /\ pages.cursor # 0      \* mutant: inFlight is not looked at

\* The guard of loadMore.
MayLoadMore == pages.key # 0 /\ pages.cursor # 0 /\ ~pages.more

LoadsMore ==
    /\ MayLoadMore
    /\ pages' = [pages EXCEPT !.more = TRUE]
    /\ calls' = calls \cup {[kind |-> "more", key |-> pages.key, page |-> pages.cursor]}

\* What comes is appended, to whatever list is there.
MorePages(c) ==
    /\ c \in calls /\ c.kind = "more"
    /\ calls' = calls \ {c}
    /\ pages' = [pages EXCEPT !.rows = Append(@, [key |-> c.key, page |-> c.page]),
                              !.cursor = IF c.page < Pages THEN c.page + 1 ELSE 0,
                              !.complete = c.page = Pages, !.more = FALSE]

PageFails(c) ==
    /\ c \in calls
    /\ calls' = calls \ {c}
    /\ pages' = [pages EXCEPT !.more = IF c.kind = "more" THEN FALSE ELSE @,
                              !.loading = IF c.kind = "first" THEN FALSE ELSE @]

---------------------------------------------------------------------------
(* Properties. *)

\* What the library shows, when it shows it, is the server's of less than a time-to-live ago, or it
\* is marked as old and is no older than the cache may be; and a list the server
\* has refused is not shown from the cache (offline.ts: "would show a folder an
\* operator has just closed").
HonestListing ==
    /\ screen.v # 0 => IF screen.stale THEN screen.age <= MaxStale ELSE screen.age < Ttl
    /\ screen.error => screen.v = 0

\* The pages of a folder are shown once each, in their order, unless the list was
\* started again while more of it was asked for (useEntryPages: "both would ask
\* for the same cursor and the page would appear twice").
PagesInOrder ==
    ~pages.overtaken =>
        \A i \in 1..Len(pages.rows) : pages.rows[i] = [key |-> pages.key, page |-> i]

\* useEntryPages, without the exception.  (Not so: the exception happens.)
PagesAlwaysInOrder ==
    \A i \in 1..Len(pages.rows) : pages.rows[i] = [key |-> pages.key, page |-> i]

---------------------------------------------------------------------------
(***************************************************************************)
(* The service worker of the phone: the token it adds to a video's         *)
(* requests (media.ts), of which it keeps a memo, and the shell it caches  *)
(* (appShell.ts, sw.ts).                                                   *)
(***************************************************************************)

CONSTANTS
    Seeks,          \* requests of a video for a range of its file, at once
    MaxTokens       \* bound: access tokens

ASSUME WorkerAssumption == MaxTokens \in Nat \ {0}

VARIABLES
    expired,        \* access tokens up to this one are refused by the server
    memo,           \* cached: a token, or none (0 is the token of no session)
    reading,        \* inFlight: whether a read is out, and what it has seen of the store
    media,          \* each request: how far, with which token; known is history
    shell           \* the shell's caches, and the page they gave

workerVars == <<expired, memo, reading, media, shell>>

None == MaxTokens + 1
Unread == [out |-> FALSE, seen |-> None]
NoSeek == [at |-> "idle", token |-> 0, known |-> FALSE]

\* The shell of an older build is cached, and the worker of a newer one comes.
NewShell == [old |-> TRUE, assets |-> {}, index |-> FALSE, worker |-> "installing", page |-> "none"]
Assets == {"script", "style"}

WorkerInit(e) ==
    /\ expired = e /\ memo = None /\ reading = Unread
    /\ media = [s \in Seeks |-> NoSeek]
    /\ shell = NewShell

---------------------------------------------------------------------------
(* createTokenReader. *)

\* invalidateToken: a read that is out is not called off.
Forgotten == memo' = None

\* getToken, of a request that is at `from': the memo, or the one read that is out.
GetsToken(s, from, to) ==
    /\ media[s].at = from
    /\ IF memo # None
       THEN /\ media' = [media EXCEPT ![s].at = to[2], ![s].token = memo]
            /\ UNCHANGED reading
       ELSE /\ media' = [media EXCEPT ![s].at = to[1]]
            /\ reading' = [reading EXCEPT !.out = TRUE]
    /\ UNCHANGED <<expired, memo, shell>>

\* The store is read, at some moment of the read.
SeesStore ==
    /\ reading.out /\ reading.seen = None
    /\ reading' = [reading EXCEPT !.seen = session]
    /\ UNCHANGED <<expired, memo, media, shell>>

\* fetchMedia goes on with a token: its first request, or its only other one.
GoesOn(m, token) ==
    CASE m.at = "waits"                                        -> [m EXCEPT !.at = "sent", !.token = token]
      [] m.at = "waits again" /\ token \notin {0, m.token}     -> [m EXCEPT !.at = "sent again", !.token = token]
      [] m.at = "waits again" /\ token \in {0, m.token}        -> [m EXCEPT !.at = "refused"]
      [] OTHER                                                 -> m

\* The read is over: all who waited for it have its token.
ReadEnds ==
    /\ reading.seen # None
    /\ reading' = Unread
    /\ memo' = reading.seen
    /\ media' = [s \in Seeks |-> GoesOn(media[s], reading.seen)]
    /\ UNCHANGED <<expired, shell>>

\* Two seconds later.
MemoAges ==
    /\ memo # None
    /\ memo' = None
    /\ UNCHANGED <<expired, reading, media, shell>>

---------------------------------------------------------------------------
(* fetchMedia. *)

Good(token) == token > expired /\ token <= session

AsksToken(s) == GetsToken(s, "asked", <<"waits", "sent">>)

\* 401: the memo is dropped and the token read again, once.
Answers401(s) ==
    /\ media[s].at = "sent" /\ ~Good(media[s].token)
    /\ Forgotten
    /\ media' = [media EXCEPT ![s].at = "waits again",
                              ![s].known = Good(session) /\ ~reading.out]
    /\ reading' = [reading EXCEPT !.out = TRUE]
    /\ UNCHANGED <<expired, shell>>

WorkerAnswers(s) ==
    /\ \/ media[s].at = "sent" /\ Good(media[s].token)
       \/ media[s].at = "sent again"
    /\ media' = [media EXCEPT ![s].at = IF Good(media[s].token) THEN "played" ELSE "refused"]
    /\ UNCHANGED <<expired, memo, reading, shell>>

\* The server's clock: a token is not good for ever.
Expires ==
    /\ expired < session /\ Costs("user")
    /\ expired' = session
    /\ media' = [s \in Seeks |-> [media[s] EXCEPT !.known = FALSE]]
    /\ UNCHANGED <<memo, reading, shell>>

---------------------------------------------------------------------------
(* The shell. *)

\* precache: what cannot be fetched is left out; skipWaiting all the same.
Installs(got) ==
    /\ shell.worker = "installing"
    /\ shell' = [shell EXCEPT !.worker = "activating", !.assets = got]

\* dropStaleCaches, and claim.
Activates ==
    /\ shell.worker = "activating"
    /\ shell' = [shell EXCEPT !.worker = "active", !.old = FALSE]

\* navigate: the network first, and what it gave is the shell from then on.
Navigates ==
    /\ shell.worker = "active"
    /\ shell' = IF up # {} THEN [shell EXCEPT !.index = TRUE, !.page = "index"]
                ELSE [shell EXCEPT !.page = IF shell.index THEN "index" ELSE "sorry"]

\* staticAsset: the cache first, and the network fills it.
FetchesAsset(a) ==
    /\ shell.page = "index" /\ a \notin shell.assets
    /\ up # {}
    /\ shell' = [shell EXCEPT !.assets = @ \cup {a}]

---------------------------------------------------------------------------
(* Properties. *)

\* A video's request that is refused is asked for again with the token that is
\* in the store, when it is another and a good one, unless a read of the store
\* was already out, or the session is given up meanwhile: a token that was renewed
\* does not stop the film (media.ts: "forgets what it had memoised and reads the
\* store again").
GoodTokenIsUsed == \A s \in Seeks : media[s].at = "refused" => ~media[s].known

\* Without the exception.  (Not so: a read that was out fills the memo again.)
GoodTokenIsAlwaysUsed ==
    \A s \in Seeks : media[s].at = "refused" => ~Good(session)
=============================================================================
