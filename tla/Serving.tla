--------------------------------- MODULE Serving ---------------------------------
(***************************************************************************)
(* Requests for a file: over the API with a bearer token or a playback     *)
(* ticket in the URL (http/range.ts), and over the WebDAV mount with the   *)
(* device's password (modules/webdav), while the operator changes what the *)
(* device may do and the file is replaced.                                 *)
(*                                                                         *)
(* There is one file in one shared folder, and one device.  A credential   *)
(* is the number of the token version or of the password it was made for.  *)
(***************************************************************************)
EXTENDS Integers, Sequences, FiniteSets, FiniteSetsExt

CONSTANTS
    Reqs,
    Asks,           \* what the requests may ask for: sets of [Reqs -> Forms]
    MaxSize,        \* bytes of the file at most
    MaxReplaced,    \* bound: times the file is replaced
    MaxSwitches     \* bound: changes the operator makes

VARIABLES
    ask,        \* what each request asks for
    file,       \* the file on disk
    grant,      \* the row of folder_permissions
    enabled,    \* of the shared folder
    device,     \* the row of the device
    cache,      \* the password the mount has verified last
    req,        \* where each request is
    switches    \* changes the operator has made

servingVars == <<ask, file, grant, enabled, device, cache, req, switches>>

GrantModes == {"full", "stream", "none"}
Doors == {"rest", "ticket", "dav"}

\* A range header: none, one range, several, or what is no range at all; a
\* number of the range may be missing.  ifRange: the version the client has
\* part of (0: no such header).  Listings are asked of the mount only.
Blank == -1
Ranges == [kind: {"none", "one", "many", "junk"}, first: {Blank} \cup 0..MaxSize,
           last: {Blank} \cup 0..MaxSize + 1]
Headers == {h \in Ranges : h.kind # "one" => h.first = Blank /\ h.last = Blank}
Forms == {a \in [door: Doors, cred: 1..MaxSwitches + 1,
                 method: {"none", "GET", "HEAD", "PROPFIND"}, attach: BOOLEAN,
                 range: Headers, ifRange: 0..MaxReplaced + 1] :
             a.method = "PROPFIND" => a.door = "dav"}

ASSUME ServingAssumption ==
    /\ MaxSize \in Nat \ {0} /\ MaxReplaced \in Nat /\ MaxSwitches \in Nat
    /\ \A f \in Asks : f \in [Reqs -> Forms]

Files == [size: 0..MaxSize, version: 1..MaxReplaced + 1]

\* body: the version whose bytes are sent; late: the file was replaced between
\* its stat and its opening; orphan: the client had gone before anyone listened
\* for that.  modes, good: the modes of the folder since the request came, and
\* whether its credential was good since (history).
Req == [at: {"idle", "verify", "resolve", "serve", "open", "sending", "over"},
        row: Nat, found: Files, status: Nat, start: Int, end: Int,
        fd: BOOLEAN, body: 0..MaxReplaced + 1, late: BOOLEAN, closed: BOOLEAN,
        orphan: BOOLEAN, modes: SUBSET GrantModes, good: BOOLEAN]

ServingTypeOK ==
    /\ file \in Files /\ grant \in GrantModes /\ enabled \in BOOLEAN
    /\ device \in [active: BOOLEAN, tv: Nat \ {0}, pw: Nat \ {0}]
    /\ cache \in [hash: Nat, pass: Nat] /\ req \in [Reqs -> Req]

ServingInit ==
    /\ ask \in Asks
    /\ file \in [size: 0..MaxSize, version: {1}]
    /\ grant \in GrantModes /\ enabled = TRUE
    /\ device = [active |-> TRUE, tv |-> 1, pw |-> 1]
    /\ cache = [hash |-> 0, pass |-> 0]
    /\ req = [r \in Reqs |->
          [at |-> "idle", row |-> 0, found |-> file, status |-> 0, start |-> 0,
           end |-> 0, fd |-> FALSE, body |-> 0, late |-> FALSE, closed |-> FALSE,
           orphan |-> FALSE, modes |-> {}, good |-> FALSE]]
    /\ switches = 0

Rests == UNCHANGED <<ask, file, grant, enabled, device, switches>>

\* modeFor, can.
Mode == IF enabled THEN grant ELSE "none"
Can(op) == CASE op = "list" -> Mode # "none"
             [] op = "stream" -> Mode # "none"
             [] op = "download" -> Mode = "full"

Cred(r) == ask[r].cred
Good(r, d) == d.active /\ Cred(r) = IF ask[r].door = "dav" THEN d.pw ELSE d.tv

\* Moves request r to a stage, or answers it with nothing but a status.
Set(r, e) == req' = [req EXCEPT ![r] = e]
Moves(r, s) == Set(r, [req[r] EXCEPT !.at = s])
Answered(e, status) == [e EXCEPT !.at = "over", !.status = status]
Refuse(r, status) == Set(r, Answered(req[r], status))

-------------------------------------------------------------------------------
(* Who asks. *)

\* The result of the scrypt is kept for the hash and the password it was for.
KnownByName(e, r) == cache.hash # 0
Known(e, r) == cache.hash = e.row /\ cache.pass = Cred(r)

\* assertVisible: the mount looks at the folder before it looks for the file.
Enters(e, r) ==
    IF ask[r].door = "dav" /\ ~Can("list") THEN Answered(e, 404)
    ELSE [e EXCEPT !.at = "resolve"]

\* A ticket is verified at once, a token when its signature is, a password
\* when it is known or its scrypt has run.
Arrive(r) ==
    /\ req[r].at = "idle" /\ ask[r].method # "none"
    /\ LET e == [req[r] EXCEPT !.row = device.pw, !.modes = {Mode}, !.good = Good(r, device)] IN
       Set(r, CASE ask[r].door = "rest" -> [e EXCEPT !.at = "verify"]
                [] ask[r].door = "ticket" -> IF Good(r, device) THEN Enters(e, r)
                                             ELSE Answered(e, 401)
                [] ask[r].door = "dav" /\ ~device.active -> Answered(e, 401)
                [] ask[r].door = "dav" /\ device.active ->
                      IF Known(e, r) THEN Enters(e, r) ELSE [e EXCEPT !.at = "verify"])
    /\ Rests /\ UNCHANGED cache

\* verifyAccessToken reads the row after the signature.
VerifyToken(r) ==
    /\ req[r].at = "verify" /\ ask[r].door = "rest"
    /\ Set(r, IF Good(r, device) THEN Enters(req[r], r) ELSE Answered(req[r], 401))
    /\ Rests /\ UNCHANGED cache

\* verifyDavPassword, against the row that was read before.
VerifyPassword(r) ==
    /\ req[r].at = "verify" /\ ask[r].door = "dav"
    /\ IF Cred(r) = req[r].row
       THEN /\ Set(r, Enters(req[r], r))
            /\ cache' = [hash |-> req[r].row, pass |-> Cred(r)]
       ELSE Refuse(r, 401) /\ cache' = [hash |-> 0, pass |-> 0]
    /\ Rests

-------------------------------------------------------------------------------
(* What is sent. *)

\* The file's stat; what follows it runs later.
Resolve(r) ==
    /\ req[r].at = "resolve"
    /\ Set(r, [req[r] EXCEPT !.at = "serve", !.found = file])
    /\ Rests /\ UNCHANGED cache

\* parseRangeHeader: one range is a slice of the file, cannot be satisfied, or
\* is ignored.  The two doors differ about a range that runs backwards.
Suffix(h) == h.first = Blank
Ignored(h, door) ==
    \/ h.kind = "junk" \/ (h.first = Blank /\ h.last = Blank)
    \/ door = "dav" /\ ~Suffix(h) /\ h.last # Blank /\ h.last < h.first
Unsatisfiable(h, size) ==
    IF Suffix(h) THEN size = 0 \/ h.last = 0
    ELSE h.first >= size \/ (h.last # Blank /\ h.last < h.first)
FromUncut(h, size) == IF Suffix(h) THEN size - h.last ELSE h.first
From(h, size) == IF Suffix(h) THEN Max({0, size - h.last}) ELSE h.first
To(h, size) == IF Suffix(h) \/ h.last = Blank THEN size - 1 ELSE Min({h.last, size - 1})

Parsed(h, door, size) ==
    CASE h.kind = "none" -> "none" [] h.kind = "many" -> "many"
      [] h.kind \in {"one", "junk"} ->
            IF door = "dav" /\ ~Suffix(h) /\ h.kind = "one" /\ h.first >= size
            THEN "unsatisfiable"
            ELSE IF Ignored(h, door) THEN "none"
            ELSE IF Unsatisfiable(h, size) THEN "unsatisfiable" ELSE "range"

\* A range of a file that the client has another version of becomes all of it.
Kind(r) ==
    LET k == Parsed(ask[r].range, ask[r].door, req[r].found.size)
    IN IF k = "range" /\ ask[r].ifRange \notin {0, req[r].found.version} THEN "none" ELSE k

\* What the folder must allow: a range, or no body, is playback.
Ranged(r) == IF ask[r].door = "dav" THEN ask[r].range.kind # "none" /\ ask[r].range.kind # "junk"
             ELSE ask[r].range.kind # "none"
Operation(r) ==
    IF ask[r].method = "HEAD" \/ (Ranged(r) /\ ~ask[r].attach) THEN "stream" ELSE "download"

\* serveFile refuses the rest of the ways to take a copy where the folder is
\* for playback: it looks again when it has parsed the range.
TakesCopy(r) ==
    /\ ask[r].door # "dav" /\ Mode = "stream" /\ ask[r].method # "HEAD"
    /\ ask[r].attach \/ Kind(r) \in {"none", "many"}

\* serveFile, serveRange: the status and what is sent; the body is opened when
\* there is one, and from then on the end of the response closes it.
Serves(r) ==
    LET e == req[r]
        h == ask[r].range
        size == e.found.size
        one == Kind(r) = "range"
        start == IF one THEN From(h, size) ELSE 0
        end == IF one THEN To(h, size) ELSE size - 1
    IN IF Kind(r) = "unsatisfiable" THEN Answered(e, 416)
       ELSE [e EXCEPT !.status = IF one THEN 206 ELSE 200, !.start = start, !.end = end,
                      !.at = IF ask[r].method = "HEAD" \/ size = 0 THEN "over" ELSE "open",
                      !.orphan = e.closed]

\* A listing looks at the folder only before it looks for the file.
PropfindTarget(r) == Answered(req[r], 207)

Serve(r) ==
    /\ req[r].at = "serve"
    /\ Set(r, CASE ask[r].method = "PROPFIND" -> PropfindTarget(r)
                [] ask[r].method # "PROPFIND" ->
                      CASE ~Can("list") -> Answered(req[r], 404)
                        [] Can("list") /\ (~Can(Operation(r)) \/ TakesCopy(r)) ->
                              Answered(req[r], 403)
                        [] OTHER -> Serves(r))
    /\ Rests /\ UNCHANGED cache

\* The read stream opens the file, and reads that one whatever happens to its name.
Open(r) ==
    /\ req[r].at = "open"
    /\ Set(r, IF req[r].closed /\ ~req[r].orphan THEN [req[r] EXCEPT !.at = "over"]
              ELSE [req[r] EXCEPT !.at = "sending", !.fd = TRUE, !.body = file.version,
                                  !.late = file.version # req[r].found.version])
    /\ Rests /\ UNCHANGED cache

\* The last byte, or a read that fails: the stream closes itself, and the
\* response is over.
StreamEnds(r) ==
    /\ req[r].at = "sending" /\ req[r].fd /\ ~req[r].closed
    /\ Set(r, [req[r] EXCEPT !.at = "over", !.fd = FALSE, !.closed = TRUE])
    /\ Rests /\ UNCHANGED cache

\* The listener of the response's end destroys the stream; one that is put there
\* after the end is never called.
Cleanup(r) ==
    /\ req[r].at = "sending" /\ req[r].fd /\ req[r].closed /\ ~req[r].orphan
    /\ Set(r, [req[r] EXCEPT !.at = "over", !.fd = FALSE])
    /\ Rests /\ UNCHANGED cache

-------------------------------------------------------------------------------
(* Around the server. *)

\* The client abandons the request, as a player does that seeks.
Abandons(r) ==
    /\ req[r].at \notin {"idle", "over"} /\ ~req[r].closed
    /\ Set(r, [req[r] EXCEPT !.closed = TRUE])
    /\ Rests /\ UNCHANGED cache

InFlight(r) == req[r].at \notin {"idle", "over"}

\* The operator: what requests that are under way have seen is noted.
Switch ==
    /\ switches < MaxSwitches /\ switches' = switches + 1
    /\ req' = [r \in Reqs |->
          IF ~InFlight(r) THEN req[r]
          ELSE [req[r] EXCEPT !.modes = @ \cup {IF enabled' THEN grant' ELSE "none"},
                              !.good = @ \/ Good(r, device')]]
    /\ UNCHANGED <<ask, file, cache>>

SetPermissions(m) == grant # m /\ grant' = m /\ UNCHANGED <<enabled, device>> /\ Switch
SetEnabled == enabled' = ~enabled /\ UNCHANGED <<grant, device>> /\ Switch
RevokeDevice ==
    /\ device.active /\ device' = [device EXCEPT !.active = FALSE, !.tv = @ + 1]
    /\ UNCHANGED <<grant, enabled>> /\ Switch
\* Approving anew gives a new password.
Approve ==
    /\ device.active /\ device' = [device EXCEPT !.pw = @ + 1]
    /\ UNCHANGED <<grant, enabled>> /\ Switch

Replace ==
    /\ file.version <= MaxReplaced
    /\ \E s \in 0..MaxSize : file' = [size |-> s, version |-> file.version + 1]
    /\ UNCHANGED <<ask, grant, enabled, device, cache, req, switches>>

ServingNext ==
    \/ \E r \in Reqs : \/ Arrive(r) \/ VerifyToken(r) \/ VerifyPassword(r) \/ Resolve(r)
                       \/ Serve(r) \/ Open(r) \/ StreamEnds(r) \/ Cleanup(r) \/ Abandons(r)
    \/ \E m \in GrantModes : SetPermissions(m)
    \/ SetEnabled \/ RevokeDevice \/ Approve \/ Replace

ServingSpec == ServingInit /\ [][ServingNext]_servingVars

\* The end of a response is told to who listens for it.
LiveServingSpec == ServingSpec /\ \A r \in Reqs : WF_servingVars(Open(r)) /\ WF_servingVars(Cleanup(r))

-------------------------------------------------------------------------------

Content(r) == req[r].status \in {200, 206, 207}
Body(r) == ask[r].method = "GET" /\ req[r].status \in {200, 206}

\* "revoking access in the panel takes effect on the next request": what is
\* answered was asked with a credential that was good, for a folder that was
\* open, while the request was under way (verifyAccessToken and authenticate
\* read the row of every request, modeFor the grant).
RefusedOnNextRequest ==
    \A r \in Reqs : Content(r) => req[r].good /\ req[r].modes # {"none"}

\* Where the folder was for playback all along, a plain GET takes no copy at
\* any door; the API answers nothing but one range there ("a plain GET, an
\* explicit attachment, and a multi-range request" are refused).
PlaybackOnly ==
    \A r \in Reqs :
        Body(r) /\ "full" \notin req[r].modes =>
            /\ ask[r].range.kind \notin {"none", "junk"}
            /\ ask[r].door # "dav" => req[r].status = 206 /\ ~ask[r].attach

\* No request is answered to whom it should not be, nor with more than it may have.
AccessHolds == ServingTypeOK /\ RefusedOnNextRequest /\ PlaybackOnly

\* The bytes that a range asks for, by their offsets.
Wanted(h, size) ==
    {i \in 0..size - 1 : IF h.first = Blank THEN i >= size - h.last
                         ELSE i >= h.first /\ (h.last = Blank \/ i <= h.last)}

\* A 206 carries exactly the bytes that were asked for of the file that was
\* found, a 416 says that there are none, a 200 carries all (parseRangeHeader
\* of both doors).
RangeIsExact ==
    \A r \in Reqs :
        LET h == ask[r].range
            size == req[r].found.size
        IN /\ req[r].status = 206 =>
                 /\ req[r].start..req[r].end = Wanted(h, size)
                 /\ Wanted(h, size) # {}
           /\ req[r].status = 416 => Wanted(h, size) = {}
           /\ req[r].status = 200 => req[r].start..req[r].end = 0..size - 1

\* "The file changed under the client. Serving the requested slice would splice
\* old and new bytes together": a slice for a client that has part of a version
\* is of that version, and so is every byte that is sent, unless the file is
\* replaced between its stat and its opening.
NoSplice ==
    \A r \in Reqs :
        req[r].status = 206 =>
            /\ ask[r].ifRange # 0 => req[r].found.version = ask[r].ifRange
            /\ req[r].fd /\ ~req[r].late => req[r].body = req[r].found.version

\* The bytes of a response are the ones it says they are.
BytesHold == RangeIsExact /\ NoSplice

\* "each one leaves a read stream - and its file descriptor - alive unless it is
\* destroyed when the response closes": no response that has ended leaves a file
\* open.  (Not so of a client that left before the stream was made: the listener
\* comes after the event it listens for.)
EveryStreamEnds ==
    \A r \in Reqs : (req[r].closed /\ req[r].fd) ~> ~req[r].fd

---------------------------------------------------------------------------
(* The instance of Serving that TLC checks. *)

Header(k, f, l) == [kind |-> k, first |-> f, last |-> l]
Plain == Header("none", Blank, Blank)

\* One request for anything, where what the code looks at on its own is varied
\* on its own; or two of the mount that come with any password.
Anything == {a \in Forms :
           /\ a.method # "none" /\ a.ifRange <= 1 /\ a.cred <= 2
           /\ a.door = "dav" => ~a.attach
           /\ a.method = "PROPFIND" => a.range = Plain
           /\ a.range.kind # "one" => a.ifRange = 0
           /\ a.cred > 1 => a.range = Header("one", 1, Blank) /\ a.ifRange = 0
           /\ a.door = "ticket" => ~a.attach /\ a.range = Header("one", 1, Blank) /\ a.ifRange = 0
           /\ a.attach => a.ifRange = 0
           /\ a.method = "HEAD" \/ a.attach => a.range \in {Plain, Header("one", 1, Blank)}
           /\ a.method = "HEAD" => ~a.attach /\ a.ifRange = 0}
Mount == {a \in Anything : /\ a.door = "dav" /\ a.method = "GET"
                           /\ a.range = Header("one", 0, 0) /\ a.ifRange = 0}
Silent == [door |-> "dav", cred |-> 1, method |-> "none", attach |-> FALSE,
           range |-> Plain, ifRange |-> 0]

TwoAsks == {[r \in Reqs |-> IF r = 1 THEN a ELSE Silent] : a \in Anything}
           \cup [Reqs -> Mount]
=============================================================================
