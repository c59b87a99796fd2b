---------------------------- MODULE EventStream ----------------------------
(***************************************************************************)
(* The event stream of one device: the bus of events/bus.ts, the route GET *)
(* /events of http/routes/events.ts, the client of client-core/events.ts   *)
(* and what the web app does with that client when the session changes     *)
(* (pwa/client/ClientProvider.tsx).                                        *)
(*                                                                         *)
(* The route replays and subscribes in one synchronous handler.  What is   *)
(* asynchronous is the wire, the connection, which may be lost with every  *)
(* frame on it, the client's loop, and the server, which may restart and   *)
(* then numbers its events from 1 again.                                   *)
(***************************************************************************)
EXTENDS Naturals, Sequences, FiniteSets

CONSTANTS
    NoId,           \* the client holds no Last-Event-ID
    BufferSize,     \* bufferSize of the bus
    MaxEvents,      \* bound: events published
    MaxBeats,       \* bound: heartbeats on one connection
    MaxLosses,      \* bound: connections lost
    MaxRestarts,    \* bound: restarts of the server
    MaxGrants,      \* bound: changes of the folder's grant
    MaxChanges      \* bound: changes of the client's session

ASSUME StreamAssumption ==
    /\ NoId \notin Nat
    /\ BufferSize \in Nat \ {0}
    /\ MaxEvents \in Nat /\ MaxBeats \in Nat /\ MaxLosses \in Nat
    /\ MaxRestarts \in Nat /\ MaxGrants \in Nat /\ MaxChanges \in Nat

VARIABLES
    log,        \* history: the kind of every event published
    nextId,     \* the id of the next event, 1 after every start of the server
    buffer,     \* the replay buffer: ids, and places in log
    granted,    \* the folder is granted to this device
    lastSentId, \* the connection's lastSentId
    wire,       \* frames written and not yet read
    beats,      \* counter behind MaxBeats
    phase,      \* where the loop of the client is; "off" when there is none
    stopping,   \* the loop's stopper has been aborted
    signedIn,   \* the web app holds a session
    lastEventId,\* the client's resume point
    got,        \* history: the places in log delivered to listeners
    cursor,     \* history: the place in log of the last frame read
    joinedAt,   \* history: places in log when the first frame was read from
                \* the server as it runs now ...
    openedAt,   \* history: ... and when a stream was first open
    spent       \* counters behind the bounds on losses, restarts, ...

server == <<log, nextId, buffer, granted>>
connection == <<lastSentId, wire, beats>>
client == <<phase, stopping, signedIn, lastEventId>>
history == <<got, cursor, joinedAt, openedAt>>
vars == <<server, connection, client, history, spent>>

Kinds == {"own", "folder", "other"}
Stored == [id: Nat, at: Nat]

\* at is the place in log of an event, 0 for a heartbeat; upTo the place the
\* reader has caught up with once it has read the frame.
Frame == [id: Nat, at: Nat, upTo: Nat]

TypeOK ==
    /\ log \in Seq(Kinds)
    /\ nextId \in Nat \ {0}
    /\ buffer \in Seq(Stored) /\ Len(buffer) <= BufferSize
    /\ granted \in BOOLEAN
    /\ lastSentId \in Nat
    /\ wire \in Seq(Frame)
    /\ beats \in 0..MaxBeats
    /\ phase \in {"off", "ready", "asking", "open", "waiting"}
    /\ stopping \in BOOLEAN /\ signedIn \in BOOLEAN
    /\ lastEventId \in Nat \cup {NoId}
    /\ got \in Seq(Nat)
    /\ cursor \in Nat
    /\ joinedAt \in Nat \cup {NoId}
    /\ openedAt \in Nat \cup {NoId}
    /\ spent \in [losses: 0..MaxLosses, restarts: 0..MaxRestarts,
                  grants: 0..MaxGrants, changes: 0..MaxChanges]

Init ==
    /\ log = <<>> /\ nextId = 1 /\ buffer = <<>>
    /\ granted = TRUE
    /\ lastSentId = 0 /\ wire = <<>> /\ beats = 0
    /\ phase = "ready" /\ stopping = FALSE /\ signedIn = TRUE
    /\ lastEventId = NoId
    /\ got = <<>> /\ cursor = 0 /\ joinedAt = NoId /\ openedAt = NoId
    /\ spent = [losses |-> 0, restarts |-> 0, grants |-> 0, changes |-> 0]

---------------------------------------------------------------------------
(* The bus. *)

\* isVisibleTo for this device, which reads the tables as they are now.
Visible(kind) == kind = "own" \/ (kind = "folder" /\ granted)

\* currentId()
CurrentId == nextId - 1

BufferedOneLess(e) ==               \* mutant: >= for > in the length test
    LET all == Append(buffer, e) IN
    IF Len(all) >= BufferSize THEN Tail(all) ELSE all

\* push, then shift when the buffer is over its size.
Buffered(e) ==
    LET all == Append(buffer, e) IN
    IF Len(all) > BufferSize THEN Tail(all) ELSE all

\* publish, for an event that is not a heartbeat.
Publish(kind) ==
    LET at == Len(log) + 1 IN
    /\ at <= MaxEvents
    /\ log' = Append(log, kind)
    /\ nextId' = nextId + 1
    /\ buffer' = Buffered([id |-> nextId, at |-> at])
    /\ IF phase = "open" /\ Visible(kind)
       THEN /\ lastSentId' = nextId
            /\ wire' = Append(wire, [id |-> nextId, at |-> at, upTo |-> at])
       ELSE UNCHANGED <<lastSentId, wire>>
    /\ UNCHANGED <<granted, beats, client, history, spent>>

\* The elements of s at the positions I, in their order (Array.filter; a
\* SelectSeq that is not recursive).
Chosen(s, I) ==
    [n \in 1..Cardinality(I) |->
        s[CHOOSE i \in I : Cardinality({j \in I : j <= i}) = n]]

ReplayFrom(id) ==                   \* mutant: >= for > in the comparison
    Chosen(buffer, {i \in DOMAIN buffer : buffer[i].id >= id /\ Visible(log[buffer[i].at])})

\* replay: the buffered events after an id that this device may see.
Replay(id) ==
    Chosen(buffer, {i \in DOMAIN buffer : buffer[i].id > id /\ Visible(log[buffer[i].at])})

ChangeGrant ==
    /\ spent.grants < MaxGrants
    /\ granted' = ~granted
    /\ spent' = [spent EXCEPT !.grants = @ + 1]
    /\ UNCHANGED <<log, nextId, buffer, connection, client, history>>

---------------------------------------------------------------------------
(* The route. *)

Frames(stored) ==
    [i \in DOMAIN stored |-> [id |-> stored[i].id, at |-> stored[i].at,
                              upTo |-> stored[i].at]]

ServeNoReplay ==                    \* mutant: Last-Event-ID is not looked at
    /\ wire' = <<>>
    /\ lastSentId' = CurrentId

\* The handler: replay what follows the resume point, then subscribe.
Serve ==
    /\ wire' = IF lastEventId = NoId THEN <<>> ELSE Frames(Replay(lastEventId))
    /\ lastSentId' = CurrentId

Opens ==
    /\ phase = "asking"
    /\ Serve
    /\ phase' = "open"
    /\ beats' = 0
    /\ openedAt' = IF openedAt = NoId THEN Len(log) ELSE openedAt
    /\ UNCHANGED <<server, stopping, signedIn, lastEventId, got, cursor, joinedAt, spent>>

\* The place in log of an id of this server's numbering.
PlaceOf(id) == Len(log) + 1 + id - nextId

\* The timer of the connection.  The frame repeats the last id sent.
Heartbeat ==
    /\ phase = "open"
    /\ beats < MaxBeats
    /\ beats' = beats + 1
    /\ wire' = Append(wire, [id |-> lastSentId, at |-> 0, upTo |-> PlaceOf(lastSentId)])
    /\ UNCHANGED <<server, lastSentId, client, history, spent>>

---------------------------------------------------------------------------
(* The client's loop. *)

\* authorize, then the request with the resume point in its headers.
Asks ==
    /\ phase = "ready" /\ ~stopping
    /\ phase' = "asking"
    /\ UNCHANGED <<server, connection, stopping, signedIn, lastEventId, history, spent>>

\* #consume: the id becomes the resume point, the event goes to listeners.
Reads ==
    /\ phase = "open" /\ wire # <<>>
    /\ LET f == Head(wire) IN
       /\ lastEventId' = f.id
       /\ got' = IF f.at = 0 THEN got ELSE Append(got, f.at)
       /\ cursor' = f.upTo
       /\ joinedAt' = IF joinedAt = NoId THEN f.upTo ELSE joinedAt
    /\ wire' = Tail(wire)
    /\ UNCHANGED <<server, lastSentId, beats, phase, stopping, signedIn, openedAt, spent>>

\* The request fails, or the stream ends, with whatever was on the wire.
Loses ==
    /\ phase \in {"asking", "open"}
    /\ spent.losses < MaxLosses
    /\ spent' = [spent EXCEPT !.losses = @ + 1]
    /\ phase' = "waiting"
    /\ wire' = <<>>
    /\ UNCHANGED <<server, lastSentId, beats, stopping, signedIn, lastEventId, history>>

\* The sleep between two attempts ends.
Wakes ==
    /\ phase = "waiting" /\ ~stopping
    /\ phase' = "ready"
    /\ UNCHANGED <<server, connection, stopping, signedIn, lastEventId, history, spent>>

\* Every await of the loop rejects once the stopper is aborted.
LoopEnds ==
    /\ phase # "off" /\ stopping
    /\ phase' = "off"
    /\ wire' = <<>>
    /\ UNCHANGED <<server, lastSentId, beats, stopping, signedIn, lastEventId, history, spent>>

Restart ==
    /\ spent.restarts < MaxRestarts
    /\ spent' = [spent EXCEPT !.restarts = @ + 1]
    /\ nextId' = 1
    /\ buffer' = <<>>
    /\ phase' = IF phase \in {"asking", "open"} THEN "waiting" ELSE phase
    /\ wire' = <<>>
    /\ joinedAt' = NoId
    /\ UNCHANGED <<log, granted, lastSentId, beats, stopping, signedIn, lastEventId,
                   got, cursor, openedAt>>

---------------------------------------------------------------------------
(* The session of the web app.  When it changes, the effect of             *)
(* ClientProvider is cleaned up with stop() and, if there is a session,    *)
(* run again with start(), in one commit.                                  *)

\* start(): a loop that is there, even one being stopped, is left as it is.
Start(isStopping) ==
    IF phase = "off"
    THEN phase' = "ready" /\ stopping' = FALSE
    ELSE phase' = phase /\ stopping' = isStopping

Changes == spent.changes < MaxChanges /\ spent' = [spent EXCEPT !.changes = @ + 1]

AnotherSession ==
    /\ signedIn
    /\ Start(TRUE)
    /\ UNCHANGED <<server, connection, signedIn, lastEventId, history>>

NoSession ==
    /\ signedIn
    /\ signedIn' = FALSE
    /\ stopping' = (phase # "off")
    /\ UNCHANGED <<server, connection, phase, lastEventId, history>>

SessionThere ==
    /\ ~signedIn
    /\ signedIn' = TRUE
    /\ Start(stopping)
    /\ UNCHANGED <<server, connection, lastEventId, history>>

SessionRefreshed == AnotherSession /\ Changes
SignedOut        == NoSession /\ Changes

\* Pairing again takes a person, so the loop has long ended.
PairedAgain == phase = "off" /\ SessionThere /\ UNCHANGED spent

---------------------------------------------------------------------------
ServerStep ==
    \/ \E kind \in Kinds : Publish(kind)
    \/ ChangeGrant
    \/ Opens
    \/ Heartbeat
    \/ Restart

ClientStep ==
    \/ Asks
    \/ Reads
    \/ Loses
    \/ Wakes
    \/ LoopEnds
    \/ SessionRefreshed
    \/ SignedOut
    \/ PairedAgain

Next == ServerStep \/ ClientStep

---------------------------------------------------------------------------
(* Properties. *)

OnTheWire(k) == \E i \in DOMAIN wire : wire[i].at = k

\* The next connection, with the resume point the client now holds, brings it.
WillBeReplayed(k) ==
    /\ phase # "open"
    /\ lastEventId # NoId
    /\ \E i \in DOMAIN buffer : buffer[i].at = k /\ buffer[i].id > lastEventId

Delivered(k) == \E i \in DOMAIN got : got[i] = k

Pending(k) == Delivered(k) \/ OnTheWire(k) \/ WillBeReplayed(k)

Recent(k) == k \in DOMAIN log /\ log[k] = "own" /\ k + BufferSize > Len(log)

\* Once the client has read a frame of the server as it runs now, none of the
\* last BufferSize events is lost to it: each is delivered, on the wire, or
\* replayed at the next connection.
NothingMissedOnceJoined ==
    joinedAt # NoId =>
        \A k \in DOMAIN log : k > joinedAt /\ Recent(k) => Pending(k)

\* The same from the moment the stream first opened: "so a print job that
\* finished while the phone was in a lift is still delivered rather than
\* silently lost".  (Not so of a stream that is lost before its first frame: the
\* client has no id to resume from.)
NothingMissedOnceOpen ==
    openedAt # NoId =>
        \A k \in DOMAIN log : k > openedAt /\ Recent(k) => Pending(k)

\* What is written to a connection was visible to the device when it was
\* written, replays of older events included.
NothingHiddenIsWritten ==
    [][\A i \in DOMAIN wire' :
          LET k == wire'[i].at IN
          k # 0 /\ (\A j \in DOMAIN wire : wire[j].at # k) => Visible(log'[k])]_vars

\* The stream keeps the promise of EventLog, restarts of the server included.
Abstract == INSTANCE EventLog
    WITH Window <- BufferSize, joined <- (joinedAt # NoId)

KeepsEventLog == Abstract!ELSpec

\* An event of this device that is still in the buffer reaches it, once the
\* connection stops being lost, while the client's loop runs and the server
\* stays up.
EventuallyDelivered ==
    \A k \in 1..MaxEvents :
        (Recent(k) /\ joinedAt # NoId /\ k > joinedAt)
            ~> (Delivered(k) \/ ~Recent(k) \/ phase = "off" \/ joinedAt = NoId)

\* While the app holds a session its stream is up or coming up: the client
\* "reconnects for ever, which is what a running app wants".
StreamComesBack == (signedIn /\ phase = "off") ~> (phase # "off" \/ ~signedIn)
=============================================================================
