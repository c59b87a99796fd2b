------------------------------ MODULE Pairing ------------------------------
(***************************************************************************)
(* Pairing of devices with the server and the life of their sessions       *)
(* (PairingService, TokenService and the operator's device routes).        *)
(*                                                                         *)
(* The database is written in synchronous steps; what is read before an    *)
(* await (the scrypt of a secret or a password, the signature of a token)  *)
(* and used after it travels in a record of the call in flight: claims,    *)
(* approving, issues.                                                      *)
(***************************************************************************)
EXTENDS Naturals

CONSTANTS
    Codes,          \* pairing codes, each minted once
    Devices,        \* device ids, each drawn once
    Folders,        \* shared folders there are at first
    Modes,          \* modes of a grant
    Calls,          \* requests in flight at once, of each kind
    NoDevice, NoCode,
    MaxFailed,      \* MAX_FAILED_ATTEMPTS
    ClientTimeout,  \* PAIRING_TIMEOUT_MS, in ages of a device's row
    RejectedGrace,  \* REJECTED_GRACE_MS
    PendingGrace,   \* PENDING_GRACE_MS
    MaxAge,         \* bound: ages of a row
    MaxApprovals,   \* bound: approvals begun
    MaxRefresh,     \* bound: refresh tokens redeemed
    MaxClosings,    \* bound: times one device is closed
    MaxRestarts,    \* bound: restarts of the server
    MaxEdits        \* bound: grants and folders the operator edits

ASSUME PairingAssumption ==
    /\ NoDevice \notin Devices /\ NoCode \notin Codes
    /\ "unset" \notin Modes
    /\ MaxFailed \in Nat \ {0} /\ ClientTimeout \in Nat
    /\ RejectedGrace \in Nat /\ PendingGrace \in Nat /\ MaxAge \in Nat
    /\ MaxApprovals \in Nat /\ MaxRefresh \in Nat /\ MaxClosings \in Nat
    /\ MaxRestarts \in Nat /\ MaxEdits \in Nat
    /\ ClientTimeout <= RejectedGrace /\ RejectedGrace <= PendingGrace

VARIABLES
    codes,      \* the table pairing_tokens
    devices,    \* the table devices
    perms,      \* the table folder_permissions
    folders,    \* the table shared_folders
    stash,      \* #pendingDavPasswords, in memory
    claims,     \* claims whose secret is being verified
    approving,  \* approvals whose password is being hashed, of each device
    issues,     \* sessions whose token is being signed
    sessions,   \* sessions that were answered, by their access token
    origin,     \* history: the code a device was claimed with
    closings,   \* history: how often a device was closed
    edited,     \* history: the grants the operator has set
    spent       \* counters behind the bounds

tables == <<codes, devices, perms, folders>>
calls == <<claims, approving, issues>>
history == <<origin, closings, edited>>
vars == <<tables, stash, calls, sessions, history, spent>>

Grants == [Folders -> Modes \cup {"unset"}]
NoGrants == [f \in Folders |-> "unset"]

\* A code is a row from when it is minted until a later mint clears it out.
Code == [life: {"unminted", "live", "expired", "cleared"}, failed: 0..MaxFailed,
         locked: BOOLEAN, consumed: BOOLEAN, by: Devices \cup {NoDevice}, grants: Grants]

\* davs: the approvals so far, and the password that the row holds the hash of
\* (0: none); refresh: the session whose refresh token it holds the hash of.
Device == [status: {"unborn", "pending", "active", "revoked", "deleted"}, age: 0..MaxAge,
           version: Nat, davs: Nat, issued: Nat, refresh: Nat]

\* The one-time password of an approval, until the next poll takes it.
NoStash == [dav |-> 0, stale |-> FALSE]
Stash == [dav: Nat, stale: BOOLEAN]

\* failed: failed_attempts as the claim has read it; good: the secret is right.
Claim == [call: Calls, code: Codes, failed: 0..(MaxFailed - 1), good: BOOLEAN]

\* version: token_version as the call has read it; dav: what a poll has taken.
Issue == [call: Calls, device: Devices, version: Nat, closed: Nat, dav: Nat]
Session == [device: Devices, version: Nat, closed: Nat, dav: Nat, refresh: Nat]

\* Types.
TypeOK ==
    /\ codes \in [Codes -> Code] /\ devices \in [Devices -> Device]
    /\ perms \in [Devices -> Grants] /\ folders \subseteq Folders
    /\ stash \in [Devices -> Stash]
    /\ claims \subseteq Claim /\ issues \subseteq Issue /\ sessions \subseteq Session
    /\ approving \in [Devices -> Nat]
    /\ origin \in [Devices -> Codes \cup {NoCode}] /\ closings \in [Devices -> Nat]
    /\ edited \subseteq Devices \X Folders
    /\ spent \in [{"approvals", "refreshes", "restarts", "edits"} -> Nat]

Init ==
    /\ codes = [c \in Codes |-> [life |-> "unminted", failed |-> 0, locked |-> FALSE,
                                 consumed |-> FALSE, by |-> NoDevice, grants |-> NoGrants]]
    /\ devices = [d \in Devices |-> [status |-> "unborn", age |-> 0, version |-> 1,
                                     davs |-> 0, issued |-> 0, refresh |-> 0]]
    /\ perms = [d \in Devices |-> NoGrants] /\ folders = Folders
    /\ stash = [d \in Devices |-> NoStash]
    /\ claims = {} /\ issues = {} /\ sessions = {}
    /\ approving = [d \in Devices |-> 0]
    /\ origin = [d \in Devices |-> NoCode] /\ closings = [d \in Devices |-> 0]
    /\ edited = {}
    /\ spent = [what \in {"approvals", "refreshes", "restarts", "edits"} |-> 0]

Spend(what, max) ==
    /\ spent[what] < max
    /\ spent' = [spent EXCEPT ![what] = @ + 1]

Free(k, S) == \A x \in S : x.call # k
HasRow(d) == devices[d].status \in {"pending", "active", "revoked"}
Sets(d, status) == devices' = [devices EXCEPT ![d].status = status]

---------------------------------------------------------------------------
(* Codes: mint and claim. *)

ClaimableIgnoringLock(c) ==             \* mutant: locked_at is not looked at
    codes[c].life = "live" /\ ~codes[c].consumed

Claimable(c) == codes[c].life = "live" /\ ~codes[c].consumed /\ ~codes[c].locked

\* What the UPDATE of the claim's transaction matches.  It compares expires_at with
\* the moment the claim came in: one that has run out since is consumed all the same.
RowThere(c) == codes[c].life \in {"live", "expired"}

StillConsumableTwice(c) ==              \* mutant: consumed_at IS NULL is left out
    RowThere(c) /\ ~codes[c].locked

StillConsumableLocked(c) ==             \* mutant: locked_at IS NULL is left out
    RowThere(c) /\ ~codes[c].consumed

StillConsumable(c) == RowThere(c) /\ ~codes[c].consumed /\ ~codes[c].locked

\* mint: codes that were used or ran out a day ago are cleared out first.
Cleared(old) == [c \in Codes |-> IF c \in old
                                 THEN [codes[c] EXCEPT !.life = "cleared", !.by = NoDevice]
                                 ELSE codes[c]]
Old == {c \in Codes : codes[c].life = "expired"}

Mint(c) ==
    /\ codes[c].life = "unminted"
    /\ \E grants \in Grants, old \in SUBSET Old :
          codes' = [Cleared(old) EXCEPT ![c] = [codes[c] EXCEPT !.life = "live", !.grants = grants]]
    /\ UNCHANGED <<devices, perms, folders, stash, calls, sessions, history, spent>>

\* A mint of a code that nobody claims: what it clears out is all there is to it.
MintUnclaimed ==
    /\ \E old \in SUBSET Old : old # {} /\ codes' = Cleared(old)
    /\ UNCHANGED <<devices, perms, folders, stash, calls, sessions, history, spent>>

CodeAges(c) ==
    /\ codes[c].life = "live"
    /\ codes' = [codes EXCEPT ![c].life = "expired"]
    /\ UNCHANGED <<devices, perms, folders, stash, calls, sessions, history, spent>>

\* A claim that brings a secret awaits its verification.  (One that brings none
\* goes on at once: one of the interleavings of a good one.)
ClaimBegins(k, c, good) ==
    /\ Free(k, claims) /\ Claimable(c)
    /\ claims' = claims \cup {[call |-> k, code |-> c, failed |-> codes[c].failed, good |-> good]}
    /\ UNCHANGED <<tables, stash, approving, issues, sessions, history, spent>>

\* registerFailure, from the count the claim has read; the row may be gone.
RegisterFailure(x) ==
    codes' = IF codes[x.code].life = "cleared" THEN codes
             ELSE [codes EXCEPT ![x.code].failed = x.failed + 1,
                                ![x.code].locked = x.failed + 1 >= MaxFailed]

ClaimFails(x) ==
    /\ ~x.good
    /\ RegisterFailure(x)
    /\ claims' = claims \ {x}
    /\ UNCHANGED <<devices, perms, folders, stash, approving, issues, sessions, history, spent>>

ClaimConsumes(x, d) ==
    /\ x.good /\ StillConsumable(x.code)
    /\ devices[d].status = "unborn"
    /\ codes' = [codes EXCEPT ![x.code].consumed = TRUE, ![x.code].by = d]
    /\ Sets(d, "pending")
    /\ origin' = [origin EXCEPT ![d] = x.code]
    /\ claims' = claims \ {x}
    /\ UNCHANGED <<perms, folders, stash, approving, issues, sessions, closings, edited, spent>>

ClaimRefused(x) ==
    /\ x.good /\ ~StillConsumable(x.code)
    /\ claims' = claims \ {x}
    /\ UNCHANGED <<tables, stash, approving, issues, sessions, history, spent>>

---------------------------------------------------------------------------
(* The operator's answers. *)

ApproveBeginsAnyRow(d) ==               \* mutant: a revoked device is approved
    /\ HasRow(d)
    /\ Spend("approvals", MaxApprovals)
    /\ approving' = [approving EXCEPT ![d] = @ + 1]
    /\ UNCHANGED <<tables, stash, claims, issues, sessions, history>>

ApproveBegins(d) ==
    /\ HasRow(d) /\ devices[d].status # "revoked"
    /\ Spend("approvals", MaxApprovals)
    /\ approving' = [approving EXCEPT ![d] = @ + 1]
    /\ UNCHANGED <<tables, stash, claims, issues, sessions, history>>

\* defaultPermissionsFor: the snapshot of the code that names the device.
InvitedMode(d, f) ==
    IF origin[d] # NoCode /\ codes[origin[d]].by = d THEN codes[origin[d]].grants[f] ELSE "unset"

\* The transaction: status, password and grants, of the folders there are.  The
\* row's status is not looked at again.
Activate(d) ==
    /\ devices' = [devices EXCEPT ![d].status = "active", ![d].davs = @ + 1]
    /\ perms' = [perms EXCEPT ![d] = [f \in Folders |->
                    IF f \in folders /\ InvitedMode(d, f) # "unset" THEN InvitedMode(d, f)
                    ELSE perms[d][f]]]

\* A row that has been deleted meanwhile is not matched; the password is kept all
\* the same.
ApproveApplies(d) ==
    /\ approving[d] > 0
    /\ approving' = [approving EXCEPT ![d] = @ - 1]
    /\ IF HasRow(d) THEN Activate(d) ELSE UNCHANGED <<devices, perms>>
    /\ stash' = [stash EXCEPT ![d] = [dav |-> devices[d].davs + 1, stale |-> FALSE]]
    /\ UNCHANGED <<codes, folders, claims, issues, sessions, history, spent>>

CloseRowSameVersion(d, status) ==       \* mutant: token_version stays
    /\ devices' = [devices EXCEPT ![d].status = status, ![d].refresh = 0]
    /\ closings' = [closings EXCEPT ![d] = @ + 1]

\* TokenService.revoke.
CloseRow(d, status) ==
    /\ devices' = [devices EXCEPT ![d].status = status, ![d].refresh = 0,
                                  ![d].version = @ + 1]
    /\ closings' = [closings EXCEPT ![d] = @ + 1]

Reject(d) ==
    /\ HasRow(d) /\ closings[d] < MaxClosings
    /\ CloseRow(d, "revoked")
    /\ stash' = [stash EXCEPT ![d] = NoStash]
    /\ UNCHANGED <<codes, perms, folders, calls, sessions, origin, edited, spent>>

Revoke(d) ==
    /\ HasRow(d) /\ closings[d] < MaxClosings
    /\ CloseRow(d, "revoked")
    /\ UNCHANGED <<codes, perms, folders, stash, calls, sessions, origin, edited, spent>>

\* Deleted rows take their grants with them, and their code names no device.
DropRows(gone) ==
    /\ perms' = [d \in Devices |-> IF d \in gone THEN NoGrants ELSE perms[d]]
    /\ codes' = [c \in Codes |-> IF codes[c].by \in gone THEN [codes[c] EXCEPT !.by = NoDevice]
                                 ELSE codes[c]]

Delete(d) ==
    /\ HasRow(d) /\ closings[d] < MaxClosings
    /\ CloseRow(d, "deleted")
    /\ DropRows({d})
    /\ UNCHANGED <<folders, stash, calls, sessions, origin, edited, spent>>

AbandonedOrClosed(d) ==                 \* mutant: the password's hash is not looked at
    \/ devices[d].status = "pending" /\ devices[d].age > PendingGrace
    \/ devices[d].status = "revoked" /\ devices[d].age > RejectedGrace

\* pruneAbandoned: nobody answered, or rejected and never approved.
Abandoned(d) ==
    \/ devices[d].status = "pending" /\ devices[d].age > PendingGrace
    \/ devices[d].status = "revoked" /\ devices[d].davs = 0 /\ devices[d].age > RejectedGrace

ListDevices ==
    LET gone == {d \in Devices : Abandoned(d)} IN
    /\ gone # {}
    /\ devices' = [d \in Devices |-> IF d \in gone THEN [devices[d] EXCEPT !.status = "deleted"]
                                     ELSE devices[d]]
    /\ DropRows(gone)
    /\ UNCHANGED <<folders, stash, calls, sessions, history, spent>>

DeviceAges(d) ==
    /\ HasRow(d) /\ devices[d].age < MaxAge
    /\ devices' = [devices EXCEPT ![d].age = @ + 1]
    /\ UNCHANGED <<codes, perms, folders, stash, calls, sessions, history, spent>>

\* applyPermissions, of one grant.
SetPermission(d, f, mode) ==
    /\ HasRow(d) /\ f \in folders
    /\ Spend("edits", MaxEdits)
    /\ perms' = [perms EXCEPT ![d][f] = mode]
    /\ edited' = edited \cup {<<d, f>>}
    /\ UNCHANGED <<codes, devices, folders, stash, calls, sessions, origin, closings>>

RemoveFolder(f) ==
    /\ f \in folders
    /\ Spend("edits", MaxEdits)
    /\ folders' = folders \ {f}
    /\ perms' = [d \in Devices |-> [perms[d] EXCEPT ![f] = "unset"]]
    /\ UNCHANGED <<codes, devices, stash, calls, sessions, history>>

---------------------------------------------------------------------------
(* The device's polls and its sessions. *)

\* The phone polls for as long as its timeout allows.
Polling(d) == HasRow(d) /\ devices[d].age <= ClientTimeout

Begins(k, d, dav) ==
    /\ Free(k, issues)
    /\ issues' = issues \cup {[call |-> k, device |-> d, version |-> devices[d].version,
                               closed |-> closings[d], dav |-> dav]}

PollTakesLate(k, d) ==                  \* mutant: the password stays until it is sent
    /\ devices[d].status = "active" /\ stash[d].dav # 0 /\ ~stash[d].stale
    /\ Begins(k, d, stash[d].dav)
    /\ UNCHANGED <<tables, stash, claims, approving, sessions, history, spent>>

\* status of an active device: the password is taken before the token is signed.
PollTakes(k, d) ==
    /\ devices[d].status = "active" /\ stash[d].dav # 0 /\ ~stash[d].stale
    /\ Begins(k, d, stash[d].dav)
    /\ stash' = [stash EXCEPT ![d] = NoStash]
    /\ UNCHANGED <<tables, claims, approving, sessions, history, spent>>

\* A password that waited for an hour is taken and not sent: "pair again".
PollFindsStale(d) ==
    /\ devices[d].status = "active" /\ stash[d].stale
    /\ stash' = [stash EXCEPT ![d] = NoStash]
    /\ UNCHANGED <<tables, calls, sessions, history, spent>>

StashAges(d) ==
    /\ stash[d].dav # 0 /\ ~stash[d].stale /\ ~Polling(d)
    /\ stash' = [stash EXCEPT ![d].stale = TRUE]
    /\ UNCHANGED <<tables, calls, sessions, history, spent>>

\* redeemRefreshToken, up to the signature.
RedeemBegins(k, s) ==
    /\ devices[s.device].status = "active" /\ devices[s.device].refresh = s.refresh
    /\ Spend("refreshes", MaxRefresh)
    /\ Begins(k, s.device, 0)
    /\ UNCHANGED <<tables, stash, claims, approving, sessions, history>>

\* issueSession: the new refresh token replaces whatever the row holds by now.
SessionIssued(x) ==
    LET d == x.device
        n == devices[d].issued + 1
    IN /\ devices' = [devices EXCEPT ![d].issued = n,
                                     ![d].refresh = IF HasRow(d) THEN n ELSE 0]
       /\ sessions' = sessions \cup {[device |-> d, version |-> x.version, closed |-> x.closed,
                                      dav |-> x.dav, refresh |-> n]}
       /\ issues' = issues \ {x}
       /\ UNCHANGED <<codes, perms, folders, stash, claims, approving, history, spent>>

\* verifyAccessToken, on every request.
Accepts(s) ==
    /\ devices[s.device].status = "active"
    /\ devices[s.device].version = s.version

\* The server restarts: what is in memory is gone.
Restart ==
    /\ Spend("restarts", MaxRestarts)
    /\ stash' = [d \in Devices |-> NoStash]
    /\ claims' = {} /\ issues' = {}
    /\ approving' = [d \in Devices |-> 0]
    /\ UNCHANGED <<tables, sessions, history>>

---------------------------------------------------------------------------
CodeStep(c) ==
    \/ Mint(c)
    \/ CodeAges(c)
    \/ \E k \in Calls, good \in BOOLEAN : ClaimBegins(k, c, good)

DeviceStep(d) ==
    \/ ApproveBegins(d)
    \/ ApproveApplies(d)
    \/ Reject(d)
    \/ Revoke(d)
    \/ Delete(d)
    \/ DeviceAges(d)
    \/ \E f \in Folders, mode \in Modes : SetPermission(d, f, mode)
    \/ \E k \in Calls : PollTakes(k, d)
    \/ PollFindsStale(d)
    \/ StashAges(d)

Next ==
    \/ \E c \in Codes : CodeStep(c)
    \/ MintUnclaimed
    \/ \E x \in claims : ClaimFails(x) \/ ClaimRefused(x) \/ \E d \in Devices : ClaimConsumes(x, d)
    \/ \E d \in Devices : DeviceStep(d)
    \/ ListDevices
    \/ \E f \in Folders : RemoveFolder(f)
    \/ \E k \in Calls, s \in sessions : RedeemBegins(k, s)
    \/ \E x \in issues : SessionIssued(x)
    \/ Restart

Spec == Init /\ [][Next]_vars

\* The server finishes what it has begun, and the phone polls.
FairSpec ==
    /\ Spec
    /\ \A d \in Devices : WF_vars(ApproveApplies(d)) /\ WF_vars(\E k \in Calls : PollTakes(k, d))
    /\ WF_vars(\E x \in issues : SessionIssued(x))

---------------------------------------------------------------------------
(* Properties. *)

\* A code is locked exactly when its failures have reached the limit, however the
\* claims that failed have overlapped (registerFailure writes both).
LockMatchesCount ==
    \A c \in Codes : codes[c].locked <=> codes[c].failed >= MaxFailed

\* Types, and the lock; a count above the limit would be a claim that went on
\* although the code was locked.
TypeInv == TypeOK /\ LockMatchesCount

\* "two claims racing on the same code must not both end up with a pending device"
OneDevicePerCode ==
    \A d, e \in Devices : origin[d] # NoCode /\ origin[d] = origin[e] => d = e

\* "Five wrong secrets and the code is dead."  (Not so: a claim that read the count
\* before the others failed writes its own count and locked_at = NULL over theirs.)
LockedCodeIsDead ==
    [][\A c \in Codes : codes[c].locked =>
          codes'[c].locked /\ codes'[c].consumed = codes[c].consumed]_vars

\* The claims whose failure would write a count below the limit.
Overlooks(x, c) == x.code = c /\ ~x.good /\ x.failed + 1 < MaxFailed

\* What does hold of it: once no such claim is in flight, a locked code is dead for
\* ever; claims that come see the lock, and those with the right secret that were
\* being verified when it was set do not consume it (registerFailure, consume).
Dead(c) == codes[c].locked /\ ~(\E x \in claims : Overlooks(x, c))
DeadCodeStaysDead ==
    [][\A c \in Codes : Dead(c) =>
          Dead(c)' /\ codes'[c].consumed = codes[c].consumed]_vars

\* A session that was begun before its device was closed is not accepted after
\* it, also when its token was signed after it, and when the device is approved anew.
ClosedSessionsDie ==
    \A s \in sessions : Accepts(s) => s.closed = closings[s.device]

\* The password of an approval is answered to one poll, and not kept after it.
DavDeliveredOnce ==
    /\ \A x \in issues, s \in sessions :
          x.dav # 0 /\ x.device = s.device => x.dav # s.dav
    /\ \A x, y \in issues : x.dav # 0 /\ x.device = y.device /\ x.dav = y.dav => x = y
    /\ \A s, t \in sessions : s.dav # 0 /\ s.device = t.device /\ s.dav = t.dav => s = t
    /\ \A x \in issues \cup sessions : x.dav # 0 => x.dav # stash[x.device].dav

\* What a device may see was in its invitation, "so later default changes do not
\* widen it", or was set by the operator; and never is of a folder that is gone.
GrantsFromInvitation ==
    \A d \in Devices, f \in Folders : perms[d][f] # "unset" =>
        /\ f \in folders
        /\ <<d, f>> \in edited \/ (origin[d] # NoCode /\ perms[d][f] = codes[origin[d]].grants[f])

\* What an approval hands out: one password, to one poll, and the invited grants.
DeliveriesHold == DavDeliveredOnce /\ GrantsFromInvitation

\* A device that was closed stays so, unless an approval was under way.
Shut(d) == devices[d].status \in {"revoked", "deleted"} /\ approving[d] = 0
ClosedForGood == [][\A d \in Devices : Shut(d) => Shut(d)']_vars

\* "Device access has been closed": a revoked device is not approved.  (Not so:
\* the row may be revoked while its password is hashed.)
RevokedStaysClosed ==
    [][\A d \in Devices : devices[d].status = "revoked" => devices'[d].status # "active"]_vars

\* A session that brings a password brings the one that opens WebDAV.  (Not so
\* when the device is approved twice.)
SessionMountsDav ==
    \A s \in sessions : s.dav # 0 /\ Accepts(s) => s.dav = devices[s.device].davs

\* "the moment a new refresh token exists the old one is dead": no two calls redeem
\* one.  (Not so: the signature is awaited between the check and the change.)
RefreshRedeemedOnce ==
    \A x, y \in issues : x.dav = 0 /\ y.dav = 0 /\ x.device = y.device => x = y

\* The listing drops no row whose phone still polls, or that was ever approved.
PruneSparesTheWaiting ==
    [][ListDevices => \A d \in Devices : HasRow(d) /\ ~HasRow(d)' =>
                          ~Polling(d) /\ devices[d].davs = 0]_vars

\* An approval reaches the phone while it polls, unless the server restarts or
\* the device is closed.
ApprovedIsDelivered ==
    \A d \in Devices, r \in 0..MaxRestarts :
        approving[d] > 0 /\ spent["restarts"] = r ~>
            \/ \E s \in sessions : s.device = d /\ s.dav # 0
            \/ spent["restarts"] > r
            \/ ~Polling(d)
            \/ devices[d].status \in {"revoked", "deleted"}

\* A phone that waits for its approval keeps its row and gets its answer.
WaitingIsServed == PruneSparesTheWaiting /\ ApprovedIsDelivered

---------------------------------------------------------------------------
(* For TLC: devices and calls are drawn fresh, so which of the unused ones is *)
(* drawn makes no difference: the first is.  (A symmetry set would be unsound *)
(* for liveness.)                                                             *)

FirstUnused ==
    /\ \A d \in Devices :
          devices[d].status = "unborn" /\ devices'[d].status # "unborn" =>
              d = CHOOSE e \in Devices : devices[e].status = "unborn"
    /\ \A x \in claims' \ claims :
          x.call = CHOOSE k \in Calls : Free(k, claims)
    /\ \A x \in issues' \ issues :
          x.call = CHOOSE k \in Calls : Free(k, issues)
=============================================================================
