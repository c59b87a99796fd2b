--------------------------- MODULE ClientSession ---------------------------
(***************************************************************************)
(* The session of a client: SessionManager of client-core/session.ts over  *)
(* a token store, the authorised requests of client-core/api.ts that drive *)
(* it, and the server as they see it, one refresh token accepted per       *)
(* device and replaced by every refresh.                                   *)
(*                                                                         *)
(* The manager awaits the network and the store.  Store operations take    *)
(* effect in the order they are called, and the code after the await runs  *)
(* when the operation has taken effect; the code before it has run long    *)
(* since.                                                                  *)
(***************************************************************************)
EXTENDS Naturals, Sequences, FiniteSets

CONSTANTS
    Calls,          \* requests and refreshes that may be in flight at once
    Devices,        \* device rows this client may be paired as, in turn
    None,           \* null: no session, no refresh in flight
    Unread,         \* undefined: the store has not been read yet
    MaxTokens,      \* bound: pairs of tokens issued to one device
    MaxLost,      \* bound: refreshes lost on the network
    MaxUpdates,     \* bound: calls of updateAlternates that change something
    MaxSignOuts,    \* bound: times the user signs out
    MaxCrashes      \* bound: times the app is killed and started again

ASSUME SessionAssumption ==
    /\ MaxTokens \in Nat /\ MaxLost \in Nat /\ MaxUpdates \in Nat
    /\ MaxSignOuts \in Nat /\ MaxCrashes \in Nat

VARIABLES
    issued,     \* server: pairs of tokens issued to each device
    accepted,   \* server: the refresh token each device row accepts, 0 for none
    closed,     \* server: devices closed by the operator
    expired,    \* access tokens that have expired, as <<device, token>>
    session,    \* #session
    gate,       \* #refreshing
    flights,    \* refreshes in flight, with the session each one knows
    requests,   \* authorised requests in flight, with the token each carries
    store,      \* the token store
    pending,    \* store operations called and not yet done
    used        \* counters behind the bounds; crossed, two changes that met

remote == <<issued, accepted, closed, expired>>
manager == <<session, gate, flights, requests>>
sessionVars == <<remote, manager, store, pending, used>>

\* A session is a pair of tokens, numbered together, and the other origins the
\* server said it answers on.
StoredSession == [device: Devices, token: Nat \ {0}, alternates: BOOLEAN]

Flight == [call: Calls, known: StoredSession,
           stage: {"sent", "granted", "refused", "failed", "writing", "clearing"},
           next: StoredSession \cup {None}]
Request == [call: Calls, device: Devices, token: Nat \ {0}]

\* after names what follows the await: of a refresh, of its sign-out, ...
Operation == [value: StoredSession \cup {None}, call: Calls \cup {None},
              after: {"refreshed", "alternates", "adopted", "signed-out"}]

\* What is null is not a session and not a call.
ASSUME NullAssumption ==
    /\ None \notin StoredSession \cup Calls
    /\ Unread \notin StoredSession \cup {None}

SessionTypeOK ==
    /\ issued \in [Devices -> 0..MaxTokens]
    /\ accepted \in [Devices -> 0..MaxTokens]
    /\ closed \in SUBSET Devices
    /\ expired \in SUBSET (Devices \X (1..MaxTokens))
    /\ session \in StoredSession \cup {None, Unread}
    /\ gate \in Calls \cup {None}
    /\ flights \in SUBSET Flight
    /\ requests \in SUBSET Request
    /\ store \in StoredSession \cup {None}
    /\ pending \in Seq(Operation)
    /\ used \in [losses: 0..MaxLost, updates: 0..MaxUpdates, signOuts: 0..MaxSignOuts,
                  crashes: 0..MaxCrashes, crossed: BOOLEAN]

SessionInit ==
    /\ issued = [d \in Devices |-> 0]
    /\ accepted = [d \in Devices |-> 0]
    /\ closed = {} /\ expired = {}
    /\ session = Unread /\ gate = None /\ flights = {} /\ requests = {}
    /\ store = None /\ pending = <<>>
    /\ used = [losses |-> 0, updates |-> 0, signOuts |-> 0, crashes |-> 0, crossed |-> FALSE]

Held == session \notin {None, Unread}
Unused(k) == \A x \in flights \cup requests : x.call # k
Call(value, call, after) ==
    Append(pending, [value |-> value, call |-> call, after |-> after])
Spend(what, max) == used[what] < max /\ used' = [used EXCEPT ![what] = @ + 1]

\* What updateAlternates read before its write is written over what happens in
\* between, and what is on its way is written over a sign-out (history).
Updating == \E i \in DOMAIN pending : pending[i].after = "alternates"
Crossed(b) == [used EXCEPT !.crossed = @ \/ b]

---------------------------------------------------------------------------
(* The server and the clock. *)

\* (The last pair the bound allows never expires: no refresh waits for ever
\* because of the bound.)
Expire(d, t) ==
    /\ t \in 1..issued[d] /\ t < MaxTokens
    /\ expired' = expired \cup {<<d, t>>}
    /\ UNCHANGED <<issued, accepted, closed, manager, store, pending, used>>

\* The operator revokes or rejects the device.
Close(d) ==
    /\ issued[d] > 0
    /\ closed' = closed \cup {d}
    /\ accepted' = [accepted EXCEPT ![d] = 0]
    /\ UNCHANGED <<issued, expired, manager, store, pending, used>>

Advance(f, stage, next) ==
    flights' = (flights \ {f}) \cup {[f EXCEPT !.stage = stage, !.next = next]}

Grants(f) ==
    /\ f.stage = "sent"
    /\ f.known.token = accepted[f.known.device]

\* POST /token/refresh, answered with a new pair.
RefreshGranted(f) ==
    LET d == f.known.device
        n == issued[d] + 1 IN
    /\ Grants(f)
    /\ issued' = [issued EXCEPT ![d] = n]
    /\ accepted' = [accepted EXCEPT ![d] = n]
    /\ Advance(f, "granted", [f.known EXCEPT !.token = n])
    /\ UNCHANGED <<closed, expired, session, gate, requests, store, pending, used>>

\* POST /token/refresh, answered 401 or 403: closed, or another token holds.
RefreshRefused(f) ==
    /\ f.stage = "sent"
    /\ f.known.token # accepted[f.known.device]
    /\ Advance(f, "refused", None)
    /\ UNCHANGED <<remote, session, gate, requests, store, pending, used>>

\* The request is lost on its way, or the answer on its way back.
RefreshLost(f) ==
    /\ f.stage \in {"sent", "granted"}
    /\ Spend("losses", MaxLost)
    /\ Advance(f, "failed", None)
    /\ UNCHANGED <<remote, session, gate, requests, store, pending>>

---------------------------------------------------------------------------
(* SessionManager. *)

\* load(): the first read of the store.
Load ==
    /\ session = Unread
    /\ session' = store
    /\ UNCHANGED <<remote, gate, flights, requests, store, pending, used>>

\* #refresh without the gate.
RefreshUngated(k) ==                \* mutant: the gate is not looked at
    /\ Unused(k)
    /\ flights' = flights \cup {[call |-> k, known |-> session, stage |-> "sent",
                                 next |-> None]}
    /\ gate' = k

\* #refresh: behind the gate, one refresh for everyone who asks.
Refresh(k) ==
    /\ gate = None
    /\ Unused(k)
    /\ flights' = flights \cup {[call |-> k, known |-> session, stage |-> "sent",
                                 next |-> None]}
    /\ gate' = k

\* ensureFresh() finds the access token about to expire.
EnsureFresh(k) ==
    /\ Held
    /\ <<session.device, session.token>> \in expired
    /\ Refresh(k)
    /\ UNCHANGED <<remote, session, requests, store, pending, used>>

\* What the answer to performRefresh leads to: the write of the new session,
\* the sign-out of a device the server will not have, or an error.
RefreshAnswered(f) ==
    /\ \/ /\ f.stage = "granted"
          /\ pending' = Call(f.next, f.call, "refreshed")
          /\ Advance(f, "writing", f.next)
          /\ UNCHANGED <<session, gate, used>>
       \/ /\ f.stage = "refused"
          /\ session' = None
          /\ used' = Crossed(Updating)
          /\ gate' = None
          /\ pending' = Call(None, f.call, "signed-out")
          /\ Advance(f, "clearing", None)
       \/ /\ f.stage = "failed"
          /\ gate' = None
          /\ flights' = flights \ {f}
          /\ UNCHANGED <<session, pending, used>>
    /\ UNCHANGED <<remote, requests, store>>

\* signOut(), called for the user, or by noteError for a closed device.
SignOut ==
    /\ session' = None
    /\ gate' = None
    /\ pending' = Call(None, None, "signed-out")

UserSignsOut ==
    /\ Held
    /\ used.signOuts < MaxSignOuts
    /\ used' = [Crossed(flights # {} \/ pending # <<>>) EXCEPT !.signOuts = @ + 1]
    /\ SignOut
    /\ UNCHANGED <<remote, flights, requests, store>>

\* updateAlternates(), with a list that differs from the one held.
UpdateAlternates ==
    /\ Held /\ ~session.alternates
    /\ used.updates < MaxUpdates
    /\ used' = [Crossed(pending # <<>>) EXCEPT !.updates = @ + 1]
    /\ pending' = Call([session EXCEPT !.alternates = TRUE], None, "alternates")
    /\ UNCHANGED <<remote, manager, store>>

\* A pairing has succeeded and its session is adopted.  The pairing screen is
\* shown to a client that has no session.
Adopt(d) ==
    /\ session = None
    /\ pending = <<>>
    /\ issued[d] = 0
    /\ issued' = [issued EXCEPT ![d] = 1]
    /\ accepted' = [accepted EXCEPT ![d] = 1]
    /\ pending' = Call([device |-> d, token |-> 1, alternates |-> FALSE], None, "adopted")
    /\ UNCHANGED <<closed, expired, manager, store, used>>

\* performRefresh after its write, and the finally of the gate, which opens it
\* whoever holds it by now.
Refreshed(op) ==
    /\ session' = op.value
    /\ flights' = {f \in flights : f.call # op.call}
    /\ gate' = None

\* The oldest store operation takes effect and its caller goes on.
StoreDone ==
    /\ pending # <<>>
    /\ pending' = Tail(pending)
    /\ LET op == Head(pending) IN
       /\ store' = op.value
       /\ \/ op.after = "refreshed" /\ Refreshed(op)
          \/ /\ op.after \in {"alternates", "adopted"}
             /\ session' = op.value
             /\ UNCHANGED <<flights, gate>>
          \/ /\ op.after = "signed-out"
             /\ UNCHANGED session
             /\ flights' = {f \in flights : f.call # op.call}
             /\ gate' = IF op.call = None THEN gate ELSE None
    /\ UNCHANGED <<remote, requests, used>>

---------------------------------------------------------------------------
(* Authorised requests (#authed). *)

Send(k) ==
    /\ Held /\ Unused(k)
    /\ requests' = requests \cup {[call |-> k, device |-> session.device,
                                   token |-> session.token]}
    /\ UNCHANGED <<remote, session, gate, flights, store, pending, used>>

\* refreshAfter(): refresh unless the token has moved on since.
RefreshAfter(r) ==
    IF Held /\ gate = None /\ session.device = r.device /\ session.token = r.token
    THEN /\ flights' = flights \cup {[call |-> r.call, known |-> session,
                                      stage |-> "sent", next |-> None]}
         /\ gate' = r.call
    ELSE UNCHANGED <<flights, gate>>

\* noteError() for a revocation.
NoteError(r) == SignOut

\* The answer: a revocation, an expired token, or success.
Answered(r) ==
    /\ requests' = requests \ {r}
    /\ \/ /\ r.device \in closed
          /\ NoteError(r)
          /\ used' = Crossed(Updating)
          /\ UNCHANGED flights
       \/ /\ r.device \notin closed /\ <<r.device, r.token>> \in expired
          /\ RefreshAfter(r)
          /\ UNCHANGED <<session, pending, used>>
       \/ /\ r.device \notin closed /\ <<r.device, r.token>> \notin expired
          /\ UNCHANGED <<session, gate, flights, pending, used>>
    /\ UNCHANGED <<remote, store>>

\* The app is killed: what was in memory is gone, the store is not.
Crash ==
    /\ Spend("crashes", MaxCrashes)
    /\ session' = Unread /\ gate' = None /\ flights' = {} /\ requests' = {}
    /\ pending' = <<>>
    /\ UNCHANGED <<remote, store>>

---------------------------------------------------------------------------
RemoteStep ==
    \/ \E d \in Devices, t \in 1..MaxTokens : Expire(d, t)
    \/ \E d \in Devices : Close(d)
    \/ \E f \in flights : RefreshGranted(f)
    \/ \E f \in flights : RefreshRefused(f)
    \/ \E f \in flights : RefreshLost(f)

\* Of these, nothing is announced.
Quietly ==
    \/ Load
    \/ \E k \in Calls : EnsureFresh(k)
    \/ \E f \in flights : RefreshAnswered(f)
    \/ UserSignsOut
    \/ UpdateAlternates
    \/ \E d \in Devices : Adopt(d)
    \/ \E k \in Calls : Send(k)
    \/ \E r \in requests : Answered(r)

ManagerStep == Quietly \/ StoreDone \/ Crash

SessionNext == RemoteStep \/ ManagerStep

---------------------------------------------------------------------------
(* Properties. *)

\* The client was paired as one device at most.
PairedOnce == \A d, e \in Devices : issued[d] > 0 /\ issued[e] > 0 => d = e

\* No pairing has followed another (a refresh still in flight when its device was
\* closed and the client paired again runs beside those of the new device), the
\* origins were not updated while a write was on its way, and no sign-out met an
\* update, nor the user's a refresh.  What happens then: StoreNeverGoesBack,
\* SignedOutUntilPaired, RefreshIsNeverStale.
Settled == ~used.crossed /\ PairedOnce

\* "at most one refresh is ever in flight", however many requests meet an
\* expired token together, whatever is lost or killed.
OneRefreshInFlight == Settled => Cardinality(flights) <= 1

\* The server never refuses a refresh token because it has replaced it: the
\* device would be "signed out despite having done nothing wrong".  (An answer
\* that is lost, and a crash before the write, lose the token: the rotation of
\* the server has no grace.)
NeverSignedOutByOwnRefresh ==
    Settled /\ used.losses + used.crashes = 0 =>
        \A f \in flights : f.stage = "refused" => f.known.device \in closed

\* When nothing is in flight, the store holds what the next start needs: the
\* session held in memory, of any device the server still knows, whatever was
\* lost or killed.
MemoryIsStored ==
    Settled /\ flights = {} /\ pending = <<>> /\ session # Unread
        => store = session \/ (Held /\ session.device \in closed)

\* A device that refreshes one at a time never presents "a token that was just
\* invalidated" (session.ts:44-50), whatever else the client does, as long as
\* nothing is lost or killed and nobody signs out.  (Not so: updateAlternates reads
\* the session, a refresh is written, and the old tokens are written over it.)
RefreshIsNeverStale ==
    used.losses + used.crashes + used.signOuts = 0 /\ PairedOnce =>
        \A f \in flights : f.stage = "refused" => f.known.device \in closed

\* An older refresh token is never written over a newer one of the same device.
\* (Not so: by the same race.)
StoreNeverGoesBack ==
    [][store # None /\ store' # None /\ store'.device = store.device
        => store'.token >= store.token]_store

\* A client that has signed out holds no session until it is paired again.
\* (Not so: a refresh in flight brings the session back.)
SignedOutUntilPaired ==
    [][session = None => session' = None \/ \E d \in Devices :
            issued[d] = 1 /\ session' = [device |-> d, token |-> 1,
                                         alternates |-> FALSE]]_session
=============================================================================
