----------------------------- MODULE ClientCore -----------------------------
(***************************************************************************)
(* The client of client-core/index.ts as the web app runs it: the event    *)
(* stream (EventStream) and the session (ClientSession).  The stream asks  *)
(* the session for a token, and every change of the session that is        *)
(* announced stops the stream or starts it.  In a scenario either moves    *)
(* alone, against all its faults, or both move together.                   *)
(***************************************************************************)
EXTENDS EventStream, ClientSession

VARIABLES
    moving          \* bound: "stream", "session" or "both"

coreVars == <<moving, vars, sessionVars>>

---------------------------------------------------------------------------
\* authorize: ensureFresh is done, with a session or without one.
Authorized == IF Held THEN <<session.device, session.token>> \notin expired ELSE TRUE

\* A device that was closed is refused, and so is one without a token.
Refused == IF Held THEN session.device \in closed ELSE TRUE

Denied ==
    /\ phase = "asking" /\ Refused
    /\ phase' = "waiting"
    /\ UNCHANGED <<server, connection, stopping, signedIn, lastEventId, history, spent>>

\* (One event is enough here.)
StreamRuns ==
    \/ log = <<>> /\ \E kind \in Kinds : Publish(kind)
    \/ Heartbeat \/ Reads \/ Wakes \/ LoopEnds \/ Denied
    \/ Authorized /\ Asks
    \/ ~Refused /\ Opens

\* session-changed, and signed-out: what the store has done is announced.
Announced ==
    /\ StoreDone
    /\ LET after == Head(pending).after
       IN \/ after = "alternates" /\ UNCHANGED vars
          \/ after = "signed-out" /\ ~signedIn /\ UNCHANGED vars
          \/ after = "signed-out" /\ NoSession /\ UNCHANGED spent
          \/ /\ after \in {"refreshed", "adopted"}
             /\ AnotherSession \/ SessionThere
             /\ UNCHANGED spent

Together ==
    \/ StreamRuns /\ UNCHANGED sessionVars
    \/ (RemoteStep \/ Quietly) /\ UNCHANGED vars
    \/ Announced

CoreNext ==
    /\ \/ moving = "stream" /\ Next /\ UNCHANGED sessionVars
       \/ moving = "session" /\ SessionNext /\ UNCHANGED vars
       \/ moving = "both" /\ Together
    /\ UNCHANGED moving

\* The loop, the route and the wire keep going; losses, restarts and changes of
\* session need not happen.  A client that holds a session keeps asking the
\* server things, the server answers, and the store works.
MayAsk  == moving = "stream" \/ Authorized
MayOpen == moving = "stream" \/ ~Refused
OfStream == moving # "session" /\ UNCHANGED <<moving, sessionVars>>
OfSession == moving # "stream" /\ UNCHANGED moving

CoreFair ==
    /\ WF_coreVars(OfStream /\ MayAsk /\ Asks)
    /\ WF_coreVars(OfStream /\ MayOpen /\ Opens)
    /\ WF_coreVars(OfStream /\ Reads)
    /\ WF_coreVars(OfStream /\ Wakes)
    /\ WF_coreVars(OfStream /\ LoopEnds)
    /\ WF_coreVars(OfSession /\ Load /\ UNCHANGED vars)
    /\ WF_coreVars(OfSession /\ (Announced \/ (moving = "session" /\ StoreDone /\ UNCHANGED vars)))
    /\ WF_coreVars(OfSession /\ (\E f \in flights : RefreshGranted(f) \/ RefreshRefused(f))
                             /\ UNCHANGED vars)
    /\ WF_coreVars(OfSession /\ (\E f \in flights : RefreshAnswered(f)) /\ UNCHANGED vars)
    /\ WF_coreVars(OfSession /\ (\E r \in requests : Answered(r)) /\ UNCHANGED vars)
    /\ WF_coreVars(OfSession /\ requests = {} /\ (\E k \in Calls : Send(k)) /\ UNCHANGED vars)

---------------------------------------------------------------------------
(* Properties. *)

\* What is written to the stream was allowed, and the device's own events come
\* in order, once each, as EventLog says (events/bus.ts, http/routes/events.ts).
StreamKeepsItsWord == KeepsEventLog /\ NothingHiddenIsWritten

\* Nothing is lost to a client that has joined, whatever connection was lost and
\* wherever the server was started again (events.ts, "send Last-Event-ID on every
\* reconnect").
StreamHolds == TypeOK /\ NothingMissedOnceJoined

\* One refresh at a time, none of them with a token that another has replaced,
\* and the store has what memory has (client-core/session.ts: "at most one
\* refresh is ever in flight"), also while the origins are updated or the user
\* signs out - unless two of these meet, as Settled says.
SessionHolds ==
    SessionTypeOK /\ OneRefreshInFlight /\ NeverSignedOutByOwnRefresh /\ MemoryIsStored

\* A client whose device was closed ends without a session and without a stream,
\* whatever refresh was in flight (createClient: on 'signed-out').
ClosedGoesQuiet ==
    \A d \in Devices :
        d \in closed ~> IF Held THEN session.device # d ELSE phase = "off"

\* An event of this device reaches it in the end, and a device that was closed
\* falls silent in the end (events.ts #loop, session.ts noteError).
ChangesArrive == EventuallyDelivered /\ ClosedGoesQuiet

---------------------------------------------------------------------------
(* Instances of ClientCore for TLC. *)

\* The stream alone: no device, no session.
NoSessionMoves == SessionInit

\* The session alone: the stream is off.
NoStreamMoves ==
    /\ log = <<>> /\ nextId = 1 /\ buffer = <<>> /\ granted = TRUE
    /\ lastSentId = 0 /\ wire = <<>> /\ beats = 0
    /\ phase = "off" /\ stopping = FALSE /\ signedIn = FALSE
    /\ lastEventId = NoId
    /\ got = <<>> /\ cursor = 0 /\ joinedAt = NoId /\ openedAt = NoId
    /\ spent = [losses |-> 0, restarts |-> 0, grants |-> 0, changes |-> 0]

\* A client that was never paired; the network, the process, the user and the
\* server may each do to it what the bounds allow.
SessionScenario ==
    /\ issued = [d \in Devices |-> 0] /\ accepted = issued
    /\ closed = {} /\ expired = {}
    /\ session = Unread /\ gate = None /\ flights = {} /\ requests = {}
    /\ store = None /\ pending = <<>>
    /\ used = [losses |-> 0, updates |-> 0, signOuts |-> 0, crashes |-> 0, crossed |-> FALSE]

\* (The client that was paired may refresh its tokens once more.)
ASSUME ScenarioAssumption == MaxTokens > 1

\* Both: a client that was paired, its stream off, and no more faults.
Paired ==
    \E d \in Devices :
        /\ issued = [x \in Devices |-> IF x = d THEN MaxTokens - 1 ELSE 0]
        /\ accepted = issued /\ closed = {} /\ expired = {}
        /\ store = [device |-> d, token |-> MaxTokens - 1, alternates |-> FALSE]
        /\ session = store /\ gate = None /\ flights = {} /\ requests = {}
        /\ pending = <<>>
        /\ used = [losses |-> MaxLost, updates |-> MaxUpdates,
                   signOuts |-> MaxSignOuts, crashes |-> MaxCrashes, crossed |-> FALSE]

PairedStream ==
    /\ log = <<>> /\ nextId = 1 /\ buffer = <<>> /\ granted = TRUE
    /\ lastSentId = 0 /\ wire = <<>> /\ beats = 0
    /\ phase = "ready" /\ stopping = FALSE /\ signedIn = TRUE
    /\ lastEventId = NoId
    /\ got = <<>> /\ cursor = 0 /\ joinedAt = NoId /\ openedAt = NoId
    /\ spent = [losses |-> MaxLosses, restarts |-> MaxRestarts,
                grants |-> MaxGrants, changes |-> 0]

MCInit ==
    \/ moving = "stream" /\ Init /\ NoSessionMoves
    \/ moving = "session" /\ SessionScenario /\ NoStreamMoves
    \/ moving = "both" /\ Paired /\ PairedStream

CoreSpec == MCInit /\ [][CoreNext]_coreVars /\ CoreFair
=============================================================================
