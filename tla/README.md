# LocalCast in TLA+

LocalCast shares folders of a home computer with phones and other computers. This directory
holds a model of it: modules that follow the source of `src/`, runs of TLC on small instances,
and proofs checked by TLAPS.

## The system

| part | keeps | is asked to | what is hard |
|---|---|---|---|
| server, pairing (`apps/server/src/auth`) | codes, devices, sessions, grants | claim, approve, reject, revoke, remove, refresh, poll, prune | scrypt and signatures are awaited between the look at a row and the change of it |
| server, files (`modules/uploads`, `library`, `http/range.ts`, `modules/webdav`) | upload rows and their files, the `files` table, open streams | create, append, abort, sweep; index; list; serve | handlers outlive their clients; the disk changes under a pass; files change between `stat` and `read` |
| server, events (`events/bus.ts`, `http/routes/events.ts`) | a ring buffer and subscribers | publish, replay | lost connections, restarts, grants that change |
| server, printing (`modules/print`) | jobs | queue, cancel, watch | Windows says little, late, or nothing |
| server, network (`index.ts`, `net/`) | listeners, certificate, published address | listen, switch, re-issue | binds are awaited while addresses change |
| desktop shell (`apps/desktop/src/main`) | the lock of the only copy, the sidecar, prerequisites, the pairing prompt | start, supervise, repair, ask, quit | two copies, two windows, crashes of the sidecar |
| operator windows (`apps/desktop/src/renderer`) | what was read from the server, forms, a wizard | show, save, test, repair | reloads and pushes that cross with edits |
| netedge (`native/netedge`) | the node, its generation, a status | apply, restart, log in and out | goroutines of a node that was replaced |
| client library (`packages/client-core`) | session, stream, addresses, cache | request, refresh, reconnect, fail over | lost answers, several requests at once |
| phone (`apps/pwa/src`) | screens, service worker, camera | list, play, upload, pair | answers that come late |
| desktop client (`apps/desktop-client/src`) | servers, sessions, downloads, uploads | connect, fetch, play, send | crashes, names that are taken, files that change |

The server talks to the operator windows and to devices over HTTP and the event stream; the
desktop shell hosts the server in its process and supervises netedge as a child; clients reach
the server at one of several addresses through `client-core`. Everything but netedge is
single-threaded: what interleaves is what runs between two awaits, and an action here is the code
between two of them. In netedge an action is what a goroutine does under one lock.

The hazards this makes are listed in `PROJECT.json`, each at its line, with the properties for it.

## Modules

| module | models | state and actions |
|---|---|---|
| `Pairing` | `auth/pairing.ts`, `auth/tokens.ts` | rows of the database, and a record for each call between its awaits (`claims`, `approving`, `issues`) |
| `Uploads` | `modules/uploads`, both uploaders | upload rows, the bytes and place of each file, handlers in flight (`patches`), uploaders |
| `Library` | `library/indexer.ts`, listing in `http/routes/device.ts` | disk, table, one pass, one listing |
| `Files` | composes the two | in a scenario one of them moves: the indexer does not look at uploads |
| `EventLog` | nothing: what the stream promises | a log and a reader; implemented by `EventStream` |
| `EventStream` | `events/bus.ts`, `http/routes/events.ts`, `client-core/events.ts` | bus, wire, loop of the client |
| `ClientSession` | `client-core/session.ts`, `api.ts` | session in memory and store, refreshes in flight |
| `ClientCore` | `client-core/index.ts`, `ClientProvider.tsx` | composes the two |
| `Serving` | `http/range.ts`, `modules/webdav`, `resolver.ts` | requests at each door, the file, the grant, the remembered password |
| `PrintQueue` | `modules/print` | jobs, the printer's queue in Windows, the loop that works them off |
| `Host`, `Supervisor`, `Listeners`, `Prerequisites`, `Desktop` | `apps/desktop/src/main`, `net/`, `index.ts` | the process from its start to its end; `Desktop` composes the others |
| `Edge` | `native/netedge` | generations of the node, status store, handlers |
| `Downloads` | `desktop-client/main/downloads.ts` | rows, the queue file, partial files, the folder |
| `Transfers` | composes `Serving` and `Downloads` | one end of a file's way moves |
| `OfflineLibrary` | `client-core` origins, connection and cache, the lists and the service worker of the phone | addresses, the dot, requests out, listings and pages, the tokens of a film |
| `Phone` | the pairing screen and the routes | the camera, the claim, the screen; composes `OfflineLibrary` with them |
| `Hub`, `Window` | the desktop client | servers and sessions in the main process; library, player and uploads in the window |
| `Clients` | composes `Phone`, `Hub`, `Window` | one of them moves in a scenario |
| `Panel` | the operator's windows (`useAsync`, the screens, the first pairing code) | one record per resource: what it shows, the reads on their way; the world behind them |
| `Settings` | the network form, `modules/edge`, the sidecar behind it | the form, the row of `network_config`, the process, calls between their awaits |
| `Front` | what stands before the server on the tailnet: `edge/cert.go`, `edge/proxy.go` | a certificate by age, the handshakes and proxied requests |
| `Setup` | the wizard and the preflight check, the application's own update | the hook of one window and what it hears of another's, the run of checks, the remedies; the release, the card, the installer |
| `Console` | composes the last four | a scenario for each `part` |
| `ServerProofs`, `DesktopProofs`, `DownloadsProofs`, `EdgeProofs`, `ClientCoreProofs`, `FilesProofs`, `ConsoleProofs`, `ClientsProofs` | - | theorems about the modules they extend |

What a `.cfg` cannot write (a length per version, a folder per place, the first states of a run's
scenarios) stands at the end of the module that is run
or of one it composes. A definition named in a comment `mutant:` is a plausible bug; it is used by no
specification. `history` in a comment marks a variable or a field the code does not have: it
remembers what a property is about.

A composition lets one of its components move in a behaviour where the code lets them run side
by side without shared state (`moving`, `part`): the product of components that do not touch each
other shows nothing new and cannot be searched.

## Runs

Every run is `tlc -config X.cfg M`. Bounds are constants; the table gives their values and what
makes them enough. Deadlock is not checked: each system stops when its bounded troubles are spent
and everybody has what he asked for.

| run | bounds | why these | fairness |
|---|---|---|---|
| `pairing` | 1 code, 2 devices, 2 calls at once, 2 wrong secrets lock, 1 closing, restart and edit | a race needs two calls between their awaits, and a second device that must not profit | approvals finish, a poll that waits takes its answer, signing ends |
| `files` | 2 uploads of the same name (one of each uploader), size 2 in chunks of 1, 2 free names, 2 attempts, 1 lost request or answer, 1 abort, restart or sweep; or 3 paths (one in a directory), pages of 1, 2 changes, 1 pass, unplugging and film, at most 3 of these together | two handlers of one upload and two uploads of one name meet; a page boundary lies between any two entries | handlers and clients that are alive go on, the person resumes; a pass goes on, films end |
| `client_core` | buffer of 2 with 3 events, 2 calls, 1 device, 3 tokens, one trouble of each kind, 1 update of the origins, 1 sign-out; the stream, the session, or both | the buffer overflows; a token is replaced while two calls hold the old one; an update reads the session before a refresh is written | requests are answered or fail, timers fire, the store writes |
| `hosting` | 7 scenarios, 3 clicks, 1 fault, 2 processes, 2 plain listeners, 2 changes of address, a machine with a name or without | an old and a new process, or bind, are both under way; the address goes and only the name is left | timers and calls of the operating system end; a window answers; the check is pressed again when it failed (strong) |
| `edge` | 2 calls, 2 configurations, 3 generations, 1 trouble, 1 stop | one generation replaces another that was already replaced | goroutines are scheduled while their node runs |
| `print` | 2 jobs, 2 troubles, 2 document numbers, 2 looks that cannot be read are too many | a number is used again; one job waits behind the other; a cancel comes during each await | the loop and the calls to Windows go on; the deadline is met in the end (strong: the loop passes by it at every turn) |
| `transfers` | the server: 2 requests, file of up to 2 bytes, 1 replacement, 1 switch by the operator; or the client: 3 jobs (symmetric) of one name, 2 transfers, files of 3 bytes and, once changed, of 2, any 2 troubles | ranges of every form, before, in and after the file; the remembered password of one request serves the other, before or after it is replaced; one job waits, two fight for a name; a part is longer than the changed file, as long, or shorter, and then bytes of it are appended | none: what is checked of waiting is an invariant |
| `clients` | 10 scenarios of the phone; the hub with 4 clicks, or 2 with a fault and 2 moves; the window with 4 or 5 clicks | each part with what can cross it | requests are answered, timers fire, effects run |
| `panel` | a scenario per resource, invite, wizard, banner, settings, front, update; at most 3 clicks (5 for the update), 1 or 2 faults, 2 changes; a second window that runs remedies; certificates of no, short and full life from the daemon | a read crosses a push, a click, and another read | reads, pushes and actions are answered; the poll (not in the setup part); calls of the settings |
| `pairing_reopen`, `downloads_versions` | the least that shows the disagreement | see Findings | none: a step is enough |
| `stream_restart` | the least that shows the disagreement | see Findings | as `client_core` |

Symmetry is used where the run has no liveness property. In `pairing` the action constraint
`FirstUnused` takes the slots for calls in their order, which are interchangeable.

What each run shows is its `about` in `PROJECT.json`, and each of its properties has a comment at
its definition and a mutant that breaks it.

## Proofs

`tlapm M.tla` checks each proof module. The theorems hold for all values of the constants that
satisfy the named assumptions (`PairingAssumption`, `UploadsAssumption`, `FilesAssumption`,
`StreamAssumption`, `SessionAssumption`, `NullAssumption`, `ScenarioAssumption`,
`ServingAssumption`, `PrintAssumption`, `DesktopAssumption`, `SupervisorAssumption`,
`ListenersAssumption`, `HostAssumption`, `DownloadsAssumption`, `EdgeAssumption`,
`PanelAssumption`, `SettingsAssumption`, `FrontAssumption`, `ShelfAssumption`,
`WorkerAssumption`, `ReachAssumption`, `ScenariosAssumption`, `HubAssumption`,
`PlacesAssumption`, `RowAssumption`). These say what sort of value a constant is: the bounds are
numbers, null values are none of the values they are null for, sets of slots are finite where the
code counts them, a folder is a place, and of a folder's paths that a directory's comes before what
is in it. Three say something of the scenarios: `ScenarioAssumption` (more than one token) is used
by the session that may be refreshed, `RowAssumption` names the server the desktop's window starts
at, and `ScenariosAssumption` says that a phone that is opened with a pairing link has no session
yet. A phone that has one and is opened with a link starts a claim before the effect of the
application takes it to the library; that is not modelled.

| module | theorem | of | the inductive invariant |
|---|---|---|---|
| `ServerProofs` (pairing) | `TypeCorrect`, `OneDevice`, `DeadIsDead`, `ClosedStaysClosed`, `ClosedSessionsAreRefused` | `TypeInv`, `OneDevicePerCode`, `DeadCodeStaysDead`, `ClosedForGood`, `ClosedSessionsDie` | types of tables and calls; a code is locked exactly when its failures are at the limit; each device has one code it came from; a session carries the version of the device it was issued for |
| | `Deliveries` | `DeliveriesHold` | `PasswordInv`: approvals of a device are ordered, and the password that waits is that of the last; `GrantInv`: grants come from an invitation of the device's own code or an edit, for folders that are there |
| `ServerProofs` (printing) | `NothingIsLeft`, `FinishedStays` | `JobsLeaveNothing`, `FinishedIsFinal` | what the row of a job is at each step of the loop that works it, and that a job in the chain is not finished |
| `ServerProofs` (serving) | `Access`, `Bytes` | `AccessHolds`, `BytesHold` | what a request knows at the stage it is at (credential, grant, version, size), and that the remembered password was verified |
| `DesktopProofs` | `InstalledAsConfirmed`, `LanAsTold`, `SidecarIsTheOne` | `InstalledIsConfirmed`, `LanIsAsTold`, `SidecarHolds` | the file a window has downloaded and the digest it showed; which listener is known while a bind is pending; `#child`, the calls of `start` and `stop`, and the lines not yet read |
| `DownloadsProofs` | `NoneWaits`, `Folder`, `Fetched` | `NoneWaitsInVain`, `DownloadsHold`, `FetchedIsKept` | queue and rows agree; a name belongs to one job; a part holds the first bytes of its job's file, each in its place, of one version while the file has not changed; what was renamed was as long as some version |
| `EdgeProofs` | `NodeAsTold` | `EdgeHolds` | what the holder of the lock knows of the generation it replaces; the goroutines in force are those of the node there is; a number is left for each call that asked for one |
| `ClientCoreProofs` | `Stream` | `StreamHolds` | `BusInv` numbers the buffer, `WireInv` orders the frames behind the resume point, `CursorInv` bounds it, `CoverInv`: what is not read is on the wire or in the buffer |
| | `StreamImplementsLog` | `StreamKeepsItsWord` | the refinement of `EventLog`: a publication is an append, a restart a lapse, a frame read is a delivery or is passed over, all else stutters |
| | `Session` | `SessionHolds` | which session the store, memory and the operations queued for the store hold, and that one flight at a time carries it |
| `FilesProofs` | `UploadsAreWhole`, `NamesAreKept` | `UploadsHold`, `LibraryKept` | `PatchInv`: what a handler may rely on at each of its awaits; `CountInv`, `PlaceInv`, `ClientInv`, `LitterInv`: offset and bytes, status and place, client and server, reservations and their handlers |
| | `Listing` | `ListingIsWhole` | an entry that was there all along was on no page while it is after the cursor, on one otherwise. `PageCut` says what the cursor cuts |
| | `TableIsTheDisk` | `Index!IndexIsTheDisk`, the safety half of `IndexCatchesUp` | what the walk has not seen is in a directory it will read or has not seen; rows are as seen but for those still to be written. `NoneAbove`: paths closed under their directories are none, since one would be first |
| `ConsoleProofs` | `ConsoleHoldsAlways` | `ConsoleHolds` | `InviteInv`: a mint under way asks for the folders the screen was seeded with (`ListsInv` says what the lists it reads may hold); `SettingsInv`: while no two saves crossed, row, sidecar and form say the same but for the calls on their way; `FrontInv`: a request that is passed on has a certificate of the name it asked, from the cache only with time left, and a peer that has the address or lost it within the time to live, at each of its stages |
| | `SetupHoldsAlways` | `SetupHolds` | `SetupInv`: every report of the preflight, kept, under way, in a message or on the screen, is honest (`HonestInv`); for a row whose progress bar is on and whose remedy this window asked for, something that takes it off is still to come (`BarInv`). `UpdateInv`: one task at a time writes the installer unless two have overlapped (history), and until then a check that passed is of what was published |
| | `StoredSecretsAreKept` | the action property `SecretsAreKept`: no save loses a stored secret that the form left alone | `SecretsInv`: the form and every call on its way carry a secret or leave it out |
| `ClientsProofs` | `PhoneHoldsAlways` | `PhoneHolds` | `ListInv`: every load and the cache hold a version and a moment there were; `PagesInv`: at most one request of a kind is out, and while no list overtook another it is of this folder and the next page; `WorkerInv`: no token is newer than the session's, and a request whose good token is stored waits for a read that began after its refusal; `CamInv`; `ClaimInv`: a claim is out only of a phone without a session and while the screen waits for it |
| | `DesktopHoldsAlways` | `DesktopHolds` | `HubInv`: a row has its client, its client its session, and the vault the session (`RowInv`); what is on its way to the window is what the hub has while no call that changes a row is out (`WayInv`). `WindowInv`: of the requests that are out, those not cleaned up are of the selection and the word on the screen (`LibraryInv`), or of the film (`PlayerInv`) |

Each safety theorem goes the same way: the invariant holds at the start, every action keeps it (a
step for each), it implies the property, and one temporal step combines these. The invariants were
checked by TLC before they were proved. Most are needed because the property is about the end of a
call and the reason for it is what was read before an await.

Two attempts at a proof found that a property said too much, where TLC's instances did not reach.
`FirstCodeIsWhole` does not hold of an access that is chosen before the folders have been seeded: the
first code waits for "one entry per folder" (`PairingScreen.tsx`:73), and `defaultsReady` counts entries
without looking whose they are (the field `early`). `GoodTokenIsUsed` does not hold when the session is
given up between the refusal of the worker's request and its read of the store: the good token is
gone by then (`SignsOut`).

Proofs changed models, without changing what they say of the code: the names an upload may take are
numbered up to `MaxNames` and the first free one is described (`FirstFree`), the page of a listing is
the set of rows with fewer than `PageSize` before them, and the step of a removed directory takes
all that is below it (`Below`), where the children were enough for the instance TLC searches.

Only model-checked:

- liveness: `AllArrives`, `EveryPassEnds`, `ChangesArrive`, `ComesUp`, `NothingIsDropped`,
  `NodeIsShown`, `CallsReturn`, `WaitingIsServed`, `EveryJobSettles`,
  `PhoneCatchesUp`, `DesktopGoesOn`, `ConsoleAnswers`. The provers have no rule for fairness and
  ENABLED here.

Every state invariant of a passing run is stated by a theorem.

## Findings and divergences

Three runs show a disagreement between the code and what is said of it (`findings` in
`PROJECT.json` quote the sentence):

- `pairing_reopen`: `approve` re-opens a device that was revoked while its password was hashed.
- `stream_restart`: a refreshed token can leave the phone's event stream off.
- `downloads_versions`: a resumed download puts the rest of the new file behind the beginning of the
  old one.

The definitions of the next table state a sentence of the repository too, and the code does not keep
it. They have no run of their own, so that the runs stay few: TLC finds each of them violated in the
configuration of the passing run of its module (put it there as an INVARIANT or PROPERTY;
`EveryStreamEnds` with `Serving` alone, its `LiveServingSpec`, and `MaxReplaced` and `MaxSwitches` 0).
Where a passing property comes near one of them it has an exception for it, by a variable or a field
whose comment says history.

| definition | says | what the code does |
|---|---|---|
| `LockedCodeIsDead` | "Five wrong secrets and the code is dead" (`pairing.ts`:27) | a claim that read the count of failures before the others failed writes a lower one, with `locked_at = NULL` (`:277-281`), and the code can pair |
| `CancelIsFinal` | "Nothing has been handed to Windows yet, so this is final immediately" (`jobs.ts`:174) | a job that is cancelled while it is copied or checked is set to printing all the same (`:269`) |
| `EveryStreamEnds` (of `LiveServingSpec`) | a stream stays alive "unless it is destroyed when the response closes" (`range.ts`:214) | a client that left before the listener was put there (`:226`) leaves the file open |
| `NeverQuitsSilently` | "Nothing on this path is silent" (`singleInstance.ts`:30) | the last retry for the lock fails: only the log says so (`:87`) |
| `SwitchIsObeyed` | "The stored value is the user's decision; the listener is only its consequence" (`main/index.ts`:310) | the plain listener is switched off while it binds, and opens (`apps/server/src/index.ts`:605-609) |
| `RefreshIsNeverStale` | "signed out despite having done nothing wrong" is what `session.ts`:46-47 prevents | the update of the origins that follows `/me` writes the session it read over a refresh (`:118`); the next refresh is refused |
| `RemovedTakesAll` | "takes only the removed server's session with it" (`hub.test.ts`:215) | a refresh or a pairing that was out stores its session after the removal (`hub.ts`:200-210) |
| `NoRowStaysBusyAnywhere` | no row keeps "a progress bar moving over a job that is already over" (`usePreflight.ts`:122-124) | progress is told to every window (`ipc.ts`:91), and only the one that asked checks again |
| `GreenIsOfTheDraft` | no green "tested and works" beside a changed field (`SettingsScreen.tsx`:280) | an edit clears the result that is there, not the one that is still to come |
| `NothingUnverifiedRuns` | "the alternative is running an unverified executable" (`updates.ts`:117) | two downloads write one installer, and each takes the digest of the bytes it received (`:141-161`) |

What else was met while modelling follows from the code and is written into the models. A property
holds "except" for these, by the history that names them, or is not claimed. The definitions named
here are in the modules with a comment that begins "Not so"; TLC finds these violated as well:

- Pairing: overlapping claims with wrong secrets lose failures (`pairing.ts:223`), so more guesses
  than the limit can be under way. What remains is `DeadCodeStaysDead`: a code is consumed once, and
  a locked one only after a claim that was in flight took the lock off. `SessionMountsDav` fails when
  a device is approved twice, `RefreshRedeemedOnce` because the signature is awaited between the
  check of the token and its change.
- Session: after a second pairing while an old refresh is in flight two refreshes run, and an update
  of the origins may cross a refresh; `Settled` (the store holds what memory holds) is of a device
  paired once and up to such a crossing. By the same races `StoreNeverGoesBack` and
  `SignedOutUntilPaired` fail. A refresh uses the raw transport to the primary address only
  (`origin-failover.ts:33`). Claiming by link repeats for each edit of the name (`PairRoute`:104). The
  place in a film is never saved (`PlayerRoute`:180-197).
- Stream: a stream that is lost before its first frame has no id to resume from
  (`NothingMissedOnceOpen`).
- Uploads and index: `ArrivedIsFinished` fails (`sessions.ts:209`): when the end of an upload fails
  after its last byte, the client finds that nothing is left to send, and nothing finishes it.
  `UnpluggedKeepsRows` fails (`indexer.ts:137`): a drive taken out during a pass reads as an empty
  folder, and the rows go.
- Downloads: cancelling a row that is already cancelled removes another job's partial file, and a
  resumed transfer then writes at an offset into an empty file (`downloads.ts:229`, `:376`;
  `TransferQueue.tsx:123-131`); two may then write one name (`NoTwoWriters`). A name can be taken
  between the look and the rename, and what the user has there is replaced (`NeverOverwrites`).
- Print: a cancel that is noted is forgotten when the job has no number yet, when the submit fails,
  and when the loop has left the job for its cleaning (`jobs.ts:384-391`), or when it comes during the
  last look (`:402`); an unreadable queue lets another program's document be taken for ours (`:266`).
- Serving: the mount answers a multi-range GET, or one with a stale If-Range, with the whole file
  also in a folder for playback (`webdav/index.ts:345-349`); a file replaced between `stat` and the
  opening (`range.ts:206-226`) is served with the old one's length (`late`, which
  `NoSplice` excepts).
- netedge: `SignOutStaysQuiet` fails: a sign-out can be followed by a late status of the old node
  (`edge.go:687`, `:904`).
- Desktop shell: a start that meets a child a `stop` still waits for is dropped (`netedge.ts:125`); a
  new certificate the listener refuses is not adopted until the address changes again, and the
  fingerprint published is still the old one's or the refused one's; a certificate that
  cannot be written is logged with "will retry" (`net/lanPublisher.ts:96`), but the signature is the
  new one by then and the next look finds nothing changed. `LanStatus.url` is "Null unless
  `listening`" (`apps/server/src/index.ts:99`), and the state is `failed` with a plain address open
  when the certificate cannot be used. `usePreflight` says "One at a time, deliberately"
  (`usePreflight.ts:42`) and two can run; a repair's report joins a check that began before it and
  keeps "missing"; a tool that cannot be spawned leaves its row "installing"; a stored DNS token is
  refused by the test (`SettingsScreen.tsx:202`); the sidecar is never supplied again with secrets
  (`protocol.go:184`). The front hands out what the daemon returns: a certificate for the name that
  was asked, of whatever life is left (`cert.go:179-206`).
- Panel: of two quick clicks on a device's folders the first is lost (`DevicesScreen`:155-166), a stale
  list with a removed folder is refused whole (`operator.ts:445-455`), answers of two reads in the
  wrong order leave the older shown, deleting a device sends no event (`operator.ts:328-344`). When
  the list of folders could not be read, the first code carries nothing (`PairingScreen.tsx:66-73`).
- Phone: a folder that is opened again while its next page is asked for shows that page twice or of
  the wrong folder (`useEntryPages.ts:83-97`; `PagesAlwaysInOrder`); an older list that comes late is
  written over a newer one (`EveryChangeIsShown`); a read of the store that was
  out fills the worker's memo with the old token again (`GoodTokenIsAlwaysUsed`); a request that fails
  after the stream has opened leaves the dot at "connecting" (`DotFollows`).
- Desktop client: the answer to the first `list()` may come after a newer list that was pushed
  (`RowsAreLive`); a query typed during a listing leaves `loading` on; a cancel on a stale row marks a
  finished upload cancelled; a refresh during "forget" brings the session back.

One step of a model joins two of the code: `Edge.Retires` is the retirement of a generation
(`edge.go:392`) and the publication of `starting` (`:402`). The caller holds the lock meanwhile, the
old generation can no longer say anything and the new one has not begun; all that is lost is that
the old status is seen for a moment longer.

Remote access and printing are off in the build's flags (`REMOTE_ACCESS_ENABLED`,
`PRINTING_ENABLED`); they are modelled as they are when on.

## Not modelled

The rate limiter before pairing, renaming a device, the audit log; search, thumbnails and film
metadata; the XML of PROPFIND; the exchange with an ACME server; layout,
copy, icons and the schemas both sides share; gestures, and leaving the pairing screen by the back
gesture; the cache of the service worker that a failed precache leaves. In `Setup` one remedy of a
row runs at a time. `PROJECT.json` lists every part with what is left out.

## Plan

1. The action properties that liveness rests on (a call that is in flight stays answerable).
2. The violation runs become passing ones as the code is changed, and the exceptions of the passing
   runs go with them; of the definitions without a run, `UnpluggedKeepsRows` and
   `GoodTokenIsAlwaysUsed` first.
3. A phone that has a session and is sent a pairing link; two remedies of a row at once.
