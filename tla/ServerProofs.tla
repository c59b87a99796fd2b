------------------------------ MODULE ServerProofs ------------------------------
(***************************************************************************)
(* What the server promises its operator and its devices, whatever the     *)
(* number of codes, devices, jobs and requests and whatever the bounds, in *)
(* three chapters that share nothing but the server they are about:        *)
(* Pairing (who is let in), PrintQueue (what is printed) and Serving (what *)
(* is sent).  Each has an inductive invariant of its own.                  *)
(***************************************************************************)
EXTENDS Pairing, PrintQueue, Serving, TLAPS

---------------------------------------------------------------------------
(***************************************************************************)
(* Pairing.                                                                *)
(* The types and the lock of a code, one device for a code, no pairing     *)
(* with a locked one, a closed device that stays closed, closed sessions   *)
(* that are refused, passwords that are sent once and grants that come     *)
(* from the invitation or the operator.                                    *)
(***************************************************************************)

vSpent == {"approvals", "refreshes", "restarts", "edits"}

---------------------------------------------------------------------------
(* Types and the lock. *)

\* A counter that is spent is still a counter.
LEMMA SpendType ==
  ASSUME TypeInv, NEW what \in vSpent, NEW max, Spend(what, max)
  PROVE  spent' \in [vSpent -> Nat]
BY DEF TypeInv, TypeOK, Spend, vSpent

\* The types and the lock hold at first.
LEMMA TypeInit == Init => TypeInv
<1> SUFFICES ASSUME Init PROVE TypeInv
  OBVIOUS
<1>0. NoGrants \in Grants /\ 0 \in 0..MaxFailed /\ 0 \in 0..MaxAge
  BY PairingAssumption DEF Grants, NoGrants
<1>1. codes \in [Codes -> Code] /\ devices \in [Devices -> Device] /\ perms \in [Devices -> Grants]
  BY <1>0 DEF Init, Code, Device
<1>2. stash \in [Devices -> Stash]
  BY DEF Init, Stash, NoStash
<1>3. LockMatchesCount
  <2> SUFFICES ASSUME NEW c \in Codes PROVE codes[c].locked <=> codes[c].failed >= MaxFailed
    BY DEF LockMatchesCount
  <2>1. codes[c].locked = FALSE /\ codes[c].failed = 0
    BY DEF Init
  <2> QED
    BY <2>1, PairingAssumption
<1> QED
  BY <1>1, <1>2, <1>3 DEF Init, TypeInv, TypeOK

\* Cleared codes are codes, and are as locked as they were.
LEMMA ClearedType ==
  ASSUME TypeInv, NEW old \in SUBSET Codes
  PROVE  /\ Cleared(old) \in [Codes -> Code]
         /\ \A c \in Codes : /\ Cleared(old)[c].locked = codes[c].locked
                             /\ Cleared(old)[c].failed = codes[c].failed
                             /\ Cleared(old)[c].consumed = codes[c].consumed
                             /\ Cleared(old)[c].grants = codes[c].grants
                             /\ Cleared(old)[c].by \in {codes[c].by, NoDevice}
<1>1. ASSUME NEW r \in Code, NEW s, s = [r EXCEPT !.life = "cleared", !.by = NoDevice]
      PROVE  /\ s \in Code /\ s.by = NoDevice
             /\ s.locked = r.locked /\ s.failed = r.failed
             /\ s.consumed = r.consumed /\ s.grants = r.grants
  BY <1>1 DEF Code
<1>2. ASSUME NEW c \in Codes
      PROVE  /\ Cleared(old)[c] \in Code
             /\ Cleared(old)[c].locked = codes[c].locked
             /\ Cleared(old)[c].failed = codes[c].failed
             /\ Cleared(old)[c].consumed = codes[c].consumed
             /\ Cleared(old)[c].grants = codes[c].grants
             /\ Cleared(old)[c].by \in {codes[c].by, NoDevice}
  <2>1. codes[c] \in Code
    BY DEF TypeInv, TypeOK
  <2>2. CASE c \in old
    <3>1. Cleared(old)[c] = [codes[c] EXCEPT !.life = "cleared", !.by = NoDevice]
      BY <2>2, Zenon DEF Cleared
    <3> QED
      BY <1>1, <2>1, <3>1
  <2>3. CASE c \notin old
    BY <2>1, <2>3, Zenon DEF Cleared
  <2> QED
    BY <2>2, <2>3
<1>3. Cleared(old) \in [Codes -> Code]
  <2>1. Cleared(old) = [c \in Codes |-> Cleared(old)[c]]
    BY Zenon DEF Cleared
  <2> QED
    BY <1>2, <2>1
<1> QED
  BY <1>2, <1>3

\* A code that is minted is an open one.
LEMMA MintType ==
  ASSUME TypeInv, NEW c \in Codes, Mint(c)
  PROVE  /\ codes' \in [Codes -> Code]
         /\ \A o \in Codes : /\ codes'[o].locked = codes[o].locked
                             /\ codes'[o].failed = codes[o].failed
                             /\ codes'[o].consumed = codes[o].consumed
                             /\ codes'[o].by \in {codes[o].by, NoDevice}
                             /\ o # c => codes'[o].grants = codes[o].grants
<1>1. PICK grants \in Grants, old \in SUBSET Old :
         codes' = [Cleared(old) EXCEPT ![c] = [codes[c] EXCEPT !.life = "live", !.grants = grants]]
  BY DEF Mint
<1>2. old \in SUBSET Codes /\ codes \in [Codes -> Code]
  BY DEF Old, TypeInv, TypeOK
<1>3. [codes[c] EXCEPT !.life = "live", !.grants = grants] \in Code
  BY <1>2 DEF Code
<1> QED
  BY <1>1, <1>2, <1>3, ClearedType DEF Code

\* Steps of a code.
LEMMA TypeCode ==
  ASSUME TypeInv, NEW c \in Codes, CodeStep(c)
  PROVE  TypeInv'
<1>1. CASE Mint(c)
  BY <1>1, MintType DEF Mint, TypeInv, TypeOK, LockMatchesCount, calls, history
<1>2. CASE CodeAges(c)
  BY <1>2 DEF CodeAges, TypeInv, TypeOK, LockMatchesCount, Code, calls, history
<1>3. CASE \E k \in Calls, good \in BOOLEAN : ClaimBegins(k, c, good)
  <2>1. codes[c] \in Code /\ ~(codes[c].failed >= MaxFailed)
    BY <1>3 DEF ClaimBegins, Claimable, TypeInv, TypeOK, LockMatchesCount
  <2>2. codes[c].failed \in 0..(MaxFailed - 1)
    BY <2>1, PairingAssumption DEF Code
  <2>3. claims' \subseteq Claim
    BY <1>3, <2>2 DEF ClaimBegins, TypeInv, TypeOK, Claim
  <2> QED
    BY <1>3, <2>3 DEF ClaimBegins, TypeInv, TypeOK, LockMatchesCount, tables, history
<1> QED
  BY <1>1, <1>2, <1>3 DEF CodeStep

\* A claim in flight has read a code that could be claimed, so that its failure
\* counts to the limit at most.
LEMMA TypeFails ==
  ASSUME TypeInv, NEW x \in claims, ClaimFails(x)
  PROVE  TypeInv'
<1> DEFINE c == x.code
<1>0. x \in Claim /\ x.failed + 1 \in 0..MaxFailed
  BY PairingAssumption DEF TypeInv, TypeOK, Claim
<1>1. PICK n \in 0..MaxFailed : n = x.failed + 1
  BY <1>0
<1>2. c \in Codes
  BY <1>0 DEF Claim
<1>3. CASE codes[c].life = "cleared"
  BY <1>3 DEF ClaimFails, RegisterFailure, TypeInv, TypeOK, LockMatchesCount, history
<1>4. CASE codes[c].life # "cleared"
  <2>1. PICK b \in BOOLEAN : b = (n >= MaxFailed)
    <3>1. (n >= MaxFailed) \in BOOLEAN
      OBVIOUS
    <3> QED
      BY <3>1, Zenon
  <2>2. codes' = [codes EXCEPT ![c].failed = n, ![c].locked = b]
    BY <1>1, <1>4, <2>1, Zenon DEF ClaimFails, RegisterFailure
  <2>3. codes' = [codes EXCEPT ![c] = [codes[c] EXCEPT !.failed = n, !.locked = b]]
    BY <1>2, <2>2 DEF TypeInv, TypeOK, Code
  <2>4. ASSUME NEW r \in Code, NEW s, s = [r EXCEPT !.failed = n, !.locked = b]
        PROVE  s \in Code /\ s.failed = n /\ s.locked = b
    BY <2>4 DEF Code
  <2>5. codes' \in [Codes -> Code] /\ codes'[c].failed = n /\ codes'[c].locked = b
    BY <1>2, <2>3, <2>4 DEF TypeInv, TypeOK
  <2>6. \A o \in Codes : o # c => codes'[o] = codes[o]
    BY <1>2, <2>3 DEF TypeInv, TypeOK
  <2>7. LockMatchesCount'
    BY <2>1, <2>5, <2>6 DEF TypeInv, LockMatchesCount
  <2> QED
    BY <2>5, <2>7 DEF ClaimFails, TypeInv, TypeOK, history
<1> QED
  BY <1>3, <1>4

\* A claim that consumes its code makes a device of it.
LEMMA ConsumesType ==
  ASSUME TypeInv, NEW x \in claims, NEW d \in Devices, ClaimConsumes(x, d)
  PROVE  /\ codes' \in [Codes -> Code] /\ devices' \in [Devices -> Device]
         /\ x.code \in Codes
         /\ \A o \in Codes : /\ codes'[o].locked = codes[o].locked
                             /\ codes'[o].failed = codes[o].failed
                             /\ codes'[o].grants = codes[o].grants
         /\ codes'[x.code].consumed
         /\ \A o \in Codes : o # x.code => codes'[o] = codes[o]
<1> DEFINE c == x.code
<1>1. c \in Codes
  BY DEF TypeInv, TypeOK, Claim
<1>2. codes' = [codes EXCEPT ![c] = [codes[c] EXCEPT !.consumed = TRUE, !.by = d]]
  BY <1>1 DEF ClaimConsumes, TypeInv, TypeOK
<1>3. ASSUME NEW r \in Code, NEW s, s = [r EXCEPT !.consumed = TRUE, !.by = d]
      PROVE  /\ s \in Code /\ s.locked = r.locked /\ s.failed = r.failed
             /\ s.grants = r.grants /\ s.consumed = TRUE
  BY <1>3 DEF Code
<1>4. codes[c] \in Code
  BY <1>1 DEF TypeInv, TypeOK
<1>5. devices' \in [Devices -> Device]
  BY SMTT(30) DEF ClaimConsumes, Sets, TypeInv, TypeOK, Device
<1> QED
  BY <1>1, <1>2, <1>3, <1>4, <1>5 DEF TypeInv, TypeOK

\* A row that is closed is a row.
LEMMA CloseRowType ==
  ASSUME TypeInv, NEW d \in Devices, NEW status \in {"revoked", "deleted"}, CloseRow(d, status)
  PROVE  /\ devices' \in [Devices -> Device] /\ closings' \in [Devices -> Nat]
BY DEF CloseRow, TypeInv, TypeOK, Device

\* Dropped rows leave codes and grants.
LEMMA DropRowsType ==
  ASSUME TypeInv, NEW gone \in SUBSET Devices, DropRows(gone)
  PROVE  /\ perms' \in [Devices -> Grants] /\ codes' \in [Codes -> Code]
         /\ \A c \in Codes : /\ codes'[c].locked = codes[c].locked
                             /\ codes'[c].failed = codes[c].failed
                             /\ codes'[c].consumed = codes[c].consumed
                             /\ codes'[c].grants = codes[c].grants
                             /\ codes'[c].by \in {codes[c].by, NoDevice}
<1>1. perms' \in [Devices -> Grants]
  BY DEF DropRows, TypeInv, TypeOK, Grants, NoGrants
<1>2. ASSUME NEW r \in Code, NEW s, s = [r EXCEPT !.by = NoDevice]
      PROVE  /\ s \in Code /\ s.by = NoDevice
             /\ s.locked = r.locked /\ s.failed = r.failed
             /\ s.consumed = r.consumed /\ s.grants = r.grants
  BY <1>2 DEF Code
<1>3. ASSUME NEW c \in Codes
      PROVE  /\ codes'[c] \in Code
             /\ codes'[c].locked = codes[c].locked
             /\ codes'[c].failed = codes[c].failed
             /\ codes'[c].consumed = codes[c].consumed
             /\ codes'[c].grants = codes[c].grants
             /\ codes'[c].by \in {codes[c].by, NoDevice}
  <2>1. codes[c] \in Code
    BY DEF TypeInv, TypeOK
  <2>2. codes'[c] = IF codes[c].by \in gone THEN [codes[c] EXCEPT !.by = NoDevice] ELSE codes[c]
    BY Zenon DEF DropRows
  <2> QED
    BY <1>2, <2>1, <2>2
<1>4. codes' \in [Codes -> Code]
  <2>1. codes' = [c \in Codes |-> codes'[c]]
    BY Zenon DEF DropRows
  <2> QED
    BY <1>3, <2>1
<1> QED
  BY <1>1, <1>3, <1>4

\* An approval gives a device the invited modes.
LEMMA ActivateType ==
  ASSUME TypeInv, NEW d \in Devices, Activate(d)
  PROVE  /\ devices' \in [Devices -> Device] /\ perms' \in [Devices -> Grants]
<1>1. devices' \in [Devices -> Device]
  BY DEF Activate, TypeInv, TypeOK, Device
<1>2. \A f \in Folders : InvitedMode(d, f) \in Modes \cup {"unset"}
  BY DEF InvitedMode, TypeInv, TypeOK, Code, Grants
<1>3. perms' \in [Devices -> Grants]
  BY <1>2 DEF Activate, TypeInv, TypeOK, Grants
<1> QED
  BY <1>1, <1>3

\* A call that begins is a call.
LEMMA BeginsType ==
  ASSUME TypeInv, NEW k \in Calls, NEW d \in Devices, NEW dav \in Nat, Begins(k, d, dav)
  PROVE  issues' \subseteq Issue
BY DEF Begins, TypeInv, TypeOK, Issue, Device

\* Steps of a device.
LEMMA TypeDevice ==
  ASSUME TypeInv, NEW d \in Devices, DeviceStep(d)
  PROVE  TypeInv'
<1>1. CASE ApproveBegins(d)
  BY <1>1, SpendType DEF vSpent, ApproveBegins, TypeInv, TypeOK, LockMatchesCount, tables, history
<1>2. CASE ApproveApplies(d)
  <2>1. devices' \in [Devices -> Device] /\ perms' \in [Devices -> Grants]
    BY <1>2, ActivateType DEF ApproveApplies, TypeInv, TypeOK
  <2>2. stash' \in [Devices -> Stash]
    BY <1>2 DEF ApproveApplies, TypeInv, TypeOK, Stash, Device
  <2> QED
    BY <1>2, <2>1, <2>2 DEF ApproveApplies, TypeInv, TypeOK, LockMatchesCount, history
<1>3. CASE Reject(d)
  BY <1>3, CloseRowType DEF Reject, TypeInv, TypeOK, LockMatchesCount, calls, Stash, NoStash
<1>4. CASE Revoke(d)
  BY <1>4, CloseRowType DEF Revoke, TypeInv, TypeOK, LockMatchesCount, calls
<1>5. CASE Delete(d)
  <2>1. {d} \in SUBSET Devices
    OBVIOUS
  <2> QED
    BY <1>5, <2>1, CloseRowType, DropRowsType DEF Delete, TypeInv, TypeOK, LockMatchesCount, calls
<1>6. CASE DeviceAges(d)
  <2>1. devices' \in [Devices -> Device]
    BY <1>6, PairingAssumption, SMTT(30) DEF DeviceAges, TypeInv, TypeOK, Device
  <2> QED
    BY <1>6, <2>1 DEF DeviceAges, TypeInv, TypeOK, LockMatchesCount, calls, history
<1>7. CASE \E f \in Folders, mode \in Modes : SetPermission(d, f, mode)
  BY <1>7, SpendType DEF vSpent, SetPermission, TypeInv, TypeOK, LockMatchesCount, calls, Grants
<1>8. CASE \E k \in Calls : PollTakes(k, d)
  BY <1>8, BeginsType DEF PollTakes, TypeInv, TypeOK, LockMatchesCount, tables, history, Stash, NoStash
<1>9. CASE PollFindsStale(d)
  BY <1>9 DEF PollFindsStale, TypeInv, TypeOK, LockMatchesCount, tables, calls, history, Stash, NoStash
<1>10. CASE StashAges(d)
  BY <1>10 DEF StashAges, TypeInv, TypeOK, LockMatchesCount, tables, calls, history, Stash
<1> QED
  BY <1>1, <1>2, <1>3, <1>4, <1>5, <1>6, <1>7, <1>8, <1>9, <1>10 DEF DeviceStep

\* A session is issued for a row.
LEMMA TypeIssued ==
  ASSUME TypeInv, NEW x \in issues, SessionIssued(x)
  PROVE  TypeInv'
<1>1. x \in Issue
  BY DEF TypeInv, TypeOK
<1>2. x.device \in Devices /\ devices[x.device].issued + 1 \in Nat
  BY <1>1 DEF Issue, TypeInv, TypeOK, Device
<1>3. devices' \in [Devices -> Device]
  BY <1>2, SMTT(30) DEF SessionIssued, TypeInv, TypeOK, Device
<1>4. sessions' \subseteq Session
  BY <1>1, <1>2 DEF SessionIssued, TypeInv, TypeOK, Session, Issue
<1> QED
  BY <1>3, <1>4 DEF SessionIssued, TypeInv, TypeOK, LockMatchesCount, history

\* Every step keeps the types and the lock.
LEMMA TypeNext == TypeInv /\ [Next]_vars => TypeInv'
<1> SUFFICES ASSUME TypeInv, [Next]_vars PROVE TypeInv'
  OBVIOUS
<1>1. CASE \E c \in Codes : CodeStep(c)
  BY <1>1, TypeCode
<1>2. CASE MintUnclaimed
  <2>1. PICK old \in SUBSET Old : codes' = Cleared(old)
    BY <1>2 DEF MintUnclaimed
  <2>2. old \in SUBSET Codes
    BY DEF Old
  <2> QED
    BY <1>2, <2>1, <2>2, ClearedType DEF MintUnclaimed, TypeInv, TypeOK, LockMatchesCount, calls, history
<1>3. CASE \E x \in claims : ClaimFails(x) \/ ClaimRefused(x) \/ \E d \in Devices : ClaimConsumes(x, d)
  <2>1. CASE \E x \in claims : ClaimFails(x)
    BY <2>1, TypeFails
  <2>2. CASE \E x \in claims : ClaimRefused(x)
    BY <2>2 DEF ClaimRefused, TypeInv, TypeOK, LockMatchesCount, tables, history
  <2>3. CASE \E x \in claims, d \in Devices : ClaimConsumes(x, d)
    <3>1. PICK x \in claims, d \in Devices : ClaimConsumes(x, d)
      BY <2>3
    <3> QED
      BY <3>1, ConsumesType, ZenonT(30) DEF ClaimConsumes, TypeInv, TypeOK, LockMatchesCount
  <2> QED
    BY <1>3, <2>1, <2>2, <2>3
<1>4. CASE \E d \in Devices : DeviceStep(d)
  BY <1>4, TypeDevice
<1>5. CASE ListDevices
  <2>1. devices' \in [Devices -> Device]
    BY <1>5, SMTT(30) DEF ListDevices, TypeInv, TypeOK, Device
  <2>2. {d \in Devices : Abandoned(d)} \in SUBSET Devices
    OBVIOUS
  <2> QED
    BY <1>5, <2>1, <2>2, DropRowsType DEF ListDevices, TypeInv, TypeOK, LockMatchesCount, calls, history
<1>6. CASE \E f \in Folders : RemoveFolder(f)
  BY <1>6, SpendType DEF vSpent, RemoveFolder, TypeInv, TypeOK, LockMatchesCount, calls, history, Grants
<1>7. CASE \E k \in Calls, s \in sessions : RedeemBegins(k, s)
  <2>1. PICK k \in Calls, s \in sessions : RedeemBegins(k, s)
    BY <1>7
  <2>2. s.device \in Devices /\ 0 \in Nat
    BY DEF TypeInv, TypeOK, Session
  <2>3. issues' \subseteq Issue
    BY <2>1, <2>2, BeginsType DEF RedeemBegins
  <2> QED
    BY <2>1, <2>3, SpendType DEF vSpent, RedeemBegins, TypeInv, TypeOK, LockMatchesCount, tables, history
<1>8. CASE \E x \in issues : SessionIssued(x)
  BY <1>8, TypeIssued
<1>9. CASE Restart
  BY <1>9, SpendType DEF vSpent, Restart, TypeInv, TypeOK, LockMatchesCount, tables, history, Stash, NoStash
<1>10. CASE UNCHANGED vars
  BY <1>10 DEF vars, tables, calls, history, TypeInv, TypeOK, LockMatchesCount
<1> QED
  BY <1>1, <1>2, <1>3, <1>4, <1>5, <1>6, <1>7, <1>8, <1>9, <1>10 DEF Next

\* The tables and the calls in flight are what their columns and records say, and
\* a code is locked exactly when its failures have reached the limit.
THEOREM TypeCorrect == Spec => []TypeInv
BY TypeInit, TypeNext, PTL DEF Spec

---------------------------------------------------------------------------
(* Codes that are used up. *)

\* Nobody pairs: no code is used up, and every device comes from where it came.
NobodyPairs ==
  /\ \A c \in Codes : codes'[c].consumed = codes[c].consumed
  /\ origin' = origin

\* Steps of a device pair nobody.
LEMMA DevicesPairNobody ==
  ASSUME TypeInv, NEW d \in Devices, DeviceStep(d)
  PROVE  NobodyPairs
<1>1. CASE Delete(d)
  <2>1. {d} \in SUBSET Devices
    OBVIOUS
  <2> QED
    BY <1>1, <2>1, DropRowsType DEF Delete, NobodyPairs
<1>2. CASE ~Delete(d)
  BY <1>2 DEF DeviceStep, ApproveBegins, ApproveApplies, Reject, Revoke, DeviceAges, SetPermission,
              PollTakes, PollFindsStale, StashAges, NobodyPairs, tables, calls, history
<1> QED
  BY <1>1, <1>2

\* Only a claim uses a code up, or says where a device comes from.
LEMMA OnlyClaimsPair ==
  ASSUME TypeInv, [Next]_vars
  PROVE  NobodyPairs \/ \E x \in claims, d \in Devices : ClaimConsumes(x, d)
<1>1. CASE \E c \in Codes : CodeStep(c)
  <2>1. PICK c \in Codes : CodeStep(c)
    BY <1>1
  <2>2. CASE Mint(c)
    BY <2>2, MintType DEF Mint, NobodyPairs, history
  <2>3. CASE CodeAges(c)
    BY <2>3 DEF CodeAges, NobodyPairs, history, TypeInv, TypeOK, Code
  <2>4. CASE \E k \in Calls, good \in BOOLEAN : ClaimBegins(k, c, good)
    BY <2>4 DEF ClaimBegins, NobodyPairs, tables, history
  <2> QED
    BY <2>1, <2>2, <2>3, <2>4 DEF CodeStep
<1>2. CASE MintUnclaimed
  <2>1. PICK old \in SUBSET Old : codes' = Cleared(old)
    BY <1>2 DEF MintUnclaimed
  <2>2. old \in SUBSET Codes
    BY DEF Old
  <2> QED
    BY <1>2, <2>1, <2>2, ClearedType DEF MintUnclaimed, NobodyPairs, history
<1>3. CASE \E x \in claims : ClaimFails(x) \/ ClaimRefused(x) \/ \E d \in Devices : ClaimConsumes(x, d)
  <2>1. ASSUME NEW x \in claims, ClaimFails(x)
        PROVE  NobodyPairs
    <3>1. x.code \in Codes
      BY DEF TypeInv, TypeOK, Claim
    <3> QED
      BY <2>1, <3>1 DEF ClaimFails, RegisterFailure, NobodyPairs, history, TypeInv, TypeOK, Code
  <2>2. ASSUME NEW x \in claims, ClaimRefused(x)
        PROVE  NobodyPairs
    BY <2>2 DEF ClaimRefused, NobodyPairs, tables, history
  <2> QED
    BY <1>3, <2>1, <2>2
<1>4. CASE \E d \in Devices : DeviceStep(d)
  BY <1>4, DevicesPairNobody
<1>5. CASE ListDevices
  <2>1. {d \in Devices : Abandoned(d)} \in SUBSET Devices
    OBVIOUS
  <2> QED
    BY <1>5, <2>1, DropRowsType DEF ListDevices, NobodyPairs, history
<1>6. CASE \/ \E f \in Folders : RemoveFolder(f)
           \/ \E k \in Calls, s \in sessions : RedeemBegins(k, s)
           \/ \E x \in issues : SessionIssued(x)
           \/ Restart
           \/ UNCHANGED vars
  BY <1>6 DEF RemoveFolder, RedeemBegins, SessionIssued, Restart, vars, NobodyPairs, tables, history
<1> QED
  BY <1>1, <1>2, <1>3, <1>4, <1>5, <1>6 DEF Next

\* Where devices come from: used codes, and no two of them from one.
OriginInv ==
  /\ \A d \in Devices : origin[d] # NoCode => codes[origin[d]].consumed
  /\ OneDevicePerCode

\* No device comes from anywhere at first.
LEMMA OriginInit == Init => OriginInv
BY DEF Init, OriginInv, OneDevicePerCode

\* The device a claim makes comes from a code that no other one comes from.
LEMMA OriginNext == TypeInv /\ OriginInv /\ [Next]_vars => OriginInv'
<1> SUFFICES ASSUME TypeInv, OriginInv, [Next]_vars PROVE OriginInv'
  OBVIOUS
<1>1. CASE NobodyPairs
  BY <1>1 DEF NobodyPairs, OriginInv, OneDevicePerCode, TypeInv, TypeOK
<1>2. CASE \E x \in claims, d \in Devices : ClaimConsumes(x, d)
  <2>1. PICK x \in claims, d \in Devices : ClaimConsumes(x, d)
    BY <1>2
  <2>2. /\ x.code \in Codes /\ codes'[x.code].consumed
        /\ \A o \in Codes : o # x.code => codes'[o] = codes[o]
    BY <2>1, ConsumesType
  <2>3. ~codes[x.code].consumed /\ origin' = [origin EXCEPT ![d] = x.code]
    BY <2>1 DEF ClaimConsumes, StillConsumable
  <2>4. \A e \in Devices : origin[e] # x.code
    BY <2>2, <2>3, PairingAssumption DEF OriginInv
  <2>5. \A e \in Devices : origin'[e] = IF e = d THEN x.code ELSE origin[e]
    BY <2>3 DEF TypeInv, TypeOK
  <2>6. \A e \in Devices : origin[e] \in Codes \cup {NoCode}
    BY DEF TypeInv, TypeOK
  <2> QED
    BY <2>2, <2>4, <2>5, <2>6 DEF OriginInv, OneDevicePerCode
<1> QED
  BY <1>1, <1>2, OnlyClaimsPair

\* "two claims racing on the same code must not both end up with a pending device"
THEOREM OneDevice == Spec => []OneDevicePerCode
<1>1. TypeInv /\ OriginInv /\ [Next]_vars => (TypeInv /\ OriginInv)'
  BY TypeNext, OriginNext
<1>2. OriginInv => OneDevicePerCode
  BY DEF OriginInv
<1> QED
  BY TypeInit, OriginInit, <1>1, <1>2, PTL DEF Spec

\* The lock of a code and the claims that overlook it stay as they are.
LocksStay(c) ==
  /\ codes'[c].locked = codes[c].locked
  /\ \A x \in claims' : x \in claims \/ x.code # c

\* Steps of a device leave the locks, and claims in flight are not their business.
LEMMA DevicesKeepLocks ==
  ASSUME TypeInv, NEW d \in Devices, DeviceStep(d), NEW c \in Codes
  PROVE  LocksStay(c)
<1>1. CASE Delete(d)
  <2>1. {d} \in SUBSET Devices
    OBVIOUS
  <2> QED
    BY <1>1, <2>1, DropRowsType DEF Delete, LocksStay, calls
<1>2. CASE ~Delete(d)
  BY <1>2 DEF DeviceStep, ApproveBegins, ApproveApplies, Reject, Revoke, DeviceAges, SetPermission,
              PollTakes, PollFindsStale, StashAges, LocksStay, tables, calls
<1> QED
  BY <1>1, <1>2

\* A code that is locked gets no claims, and only a failed claim writes its lock.
LEMMA OnlyFailuresUnlock ==
  ASSUME TypeInv, [Next]_vars, NEW c \in Codes, codes[c].locked
  PROVE  LocksStay(c) \/ \E x \in claims : ClaimFails(x) /\ x.code = c
<1>1. CASE \E e \in Codes : CodeStep(e)
  <2>1. PICK e \in Codes : CodeStep(e)
    BY <1>1
  <2>2. CASE Mint(e)
    BY <2>2, MintType DEF Mint, LocksStay, calls
  <2>3. CASE CodeAges(e)
    BY <2>3 DEF CodeAges, LocksStay, calls, TypeInv, TypeOK, Code
  <2>4. CASE \E k \in Calls, good \in BOOLEAN : ClaimBegins(k, e, good)
    <3>1. PICK k \in Calls, good \in BOOLEAN : ClaimBegins(k, e, good)
      BY <2>4
    <3>2. /\ e # c /\ codes' = codes
          /\ claims' = claims \cup {[call |-> k, code |-> e, failed |-> codes[e].failed,
                                    good |-> good]}
      BY <3>1 DEF ClaimBegins, Claimable, tables
    <3>3. ASSUME NEW x \in claims', x \notin claims
          PROVE  x.code # c
      BY <3>2, <3>3
    <3> QED
      BY <3>2, <3>3 DEF LocksStay
  <2> QED
    BY <2>1, <2>2, <2>3, <2>4 DEF CodeStep
<1>2. CASE MintUnclaimed
  <2>1. PICK old \in SUBSET Old : codes' = Cleared(old)
    BY <1>2 DEF MintUnclaimed
  <2>2. old \in SUBSET Codes
    BY DEF Old
  <2> QED
    BY <1>2, <2>1, <2>2, ClearedType DEF MintUnclaimed, LocksStay, calls
<1>3. CASE \E x \in claims : ClaimFails(x) \/ ClaimRefused(x) \/ \E d \in Devices : ClaimConsumes(x, d)
  <2>1. ASSUME NEW x \in claims, ClaimFails(x), x.code # c
        PROVE  LocksStay(c)
    <3>1. x.code \in Codes
      BY DEF TypeInv, TypeOK, Claim
    <3> QED
      BY <2>1, <3>1 DEF ClaimFails, RegisterFailure, LocksStay, TypeInv, TypeOK, Code
  <2>2. ASSUME NEW x \in claims, ClaimRefused(x)
        PROVE  LocksStay(c)
    BY <2>2 DEF ClaimRefused, LocksStay, tables
  <2>3. ASSUME NEW x \in claims, NEW d \in Devices, ClaimConsumes(x, d)
        PROVE  LocksStay(c)
    BY <2>3, ConsumesType DEF ClaimConsumes, LocksStay
  <2> QED
    BY <1>3, <2>1, <2>2, <2>3
<1>4. CASE \E d \in Devices : DeviceStep(d)
  BY <1>4, DevicesKeepLocks
<1>5. CASE ListDevices
  <2>1. {d \in Devices : Abandoned(d)} \in SUBSET Devices
    OBVIOUS
  <2> QED
    BY <1>5, <2>1, DropRowsType DEF ListDevices, LocksStay, calls
<1>6. CASE \/ \E f \in Folders : RemoveFolder(f)
           \/ \E k \in Calls, s \in sessions : RedeemBegins(k, s)
           \/ \E x \in issues : SessionIssued(x)
           \/ Restart
           \/ UNCHANGED vars
  BY <1>6 DEF RemoveFolder, RedeemBegins, SessionIssued, Restart, vars, LocksStay, tables, calls
<1> QED
  BY <1>1, <1>2, <1>3, <1>4, <1>5, <1>6 DEF Next

\* A locked code that no claim in flight overlooks is dead for ever: it is neither
\* opened by a late failure nor used up by a late success.
THEOREM DeadIsDead == Spec => DeadCodeStaysDead
<1>1. ASSUME TypeInv, [Next]_vars, NEW c \in Codes, Dead(c)
      PROVE  Dead(c)'
  <2>1. codes[c].locked /\ ~(\E x \in claims : Overlooks(x, c))
    BY <1>1 DEF Dead
  <2>2. CASE LocksStay(c)
    BY <2>1, <2>2 DEF LocksStay, Dead, Overlooks
  <2>3. ASSUME NEW x \in claims, ClaimFails(x), x.code = c
        PROVE  Dead(c)'
    <3>1. x \in Claim /\ ~(x.failed + 1 < MaxFailed)
      BY <1>1, <2>1, <2>3 DEF Overlooks, ClaimFails, TypeInv, TypeOK
    <3>2. x.failed + 1 >= MaxFailed
      BY <3>1, PairingAssumption DEF Claim
    <3>3. codes'[c].locked
      BY <1>1, <2>1, <2>3, <3>2 DEF ClaimFails, RegisterFailure, TypeInv, TypeOK, Code
    <3>4. claims' \subseteq claims
      BY <2>3 DEF ClaimFails
    <3> QED
      BY <2>1, <3>3, <3>4 DEF Dead, Overlooks
  <2> QED
    BY <1>1, <2>1, <2>2, <2>3, OnlyFailuresUnlock
<1>2. ASSUME TypeInv, [Next]_vars, NEW c \in Codes, Dead(c)
      PROVE  codes'[c].consumed = codes[c].consumed
  <2>1. CASE NobodyPairs
    BY <2>1 DEF NobodyPairs
  <2>2. CASE \E x \in claims, d \in Devices : ClaimConsumes(x, d)
    <3>1. PICK x \in claims, d \in Devices : ClaimConsumes(x, d)
      BY <2>2
    <3>2. c # x.code
      BY <1>2, <3>1 DEF ClaimConsumes, StillConsumable, Dead
    <3> QED
      BY <1>2, <3>1, <3>2, ConsumesType
  <2> QED
    BY <1>2, <2>1, <2>2, OnlyClaimsPair
<1>3. TypeInv /\ [Next]_vars =>
          [\A c \in Codes : Dead(c) => Dead(c)' /\ codes'[c].consumed = codes[c].consumed]_vars
  BY <1>1, <1>2
<1> QED
  BY TypeInit, TypeNext, <1>3, PTL DEF Spec, DeadCodeStaysDead

---------------------------------------------------------------------------
(* Devices that are closed. *)

\* A step of another device, or of this one, leaves a device shut.
LEMMA ShutDevice ==
  ASSUME TypeInv, NEW d \in Devices, Shut(d), NEW e \in Devices, DeviceStep(e)
  PROVE  Shut(d)'
<1>1. CASE ApproveBegins(e)
  BY <1>1 DEF ApproveBegins, HasRow, Shut, tables, TypeInv, TypeOK
<1>2. CASE ApproveApplies(e)
  BY <1>2 DEF ApproveApplies, Activate, Shut, TypeInv, TypeOK
<1>3. CASE Reject(e) \/ Revoke(e) \/ Delete(e)
  <2>1. /\ approving' = approving
        /\ \E status \in {"revoked", "deleted"} : CloseRow(e, status)
    BY <1>3 DEF Reject, Revoke, Delete, calls
  <2>2. devices'[d].status \in {"revoked", "deleted"}
    BY <2>1 DEF CloseRow, Shut, TypeInv, TypeOK, Device
  <2> QED
    BY <2>1, <2>2 DEF Shut
<1>4. CASE DeviceAges(e)
  BY <1>4 DEF DeviceAges, Shut, calls, TypeInv, TypeOK, Device
<1>5. CASE \/ \E f \in Folders, mode \in Modes : SetPermission(e, f, mode)
           \/ \E k \in Calls : PollTakes(k, e)
           \/ PollFindsStale(e) \/ StashAges(e)
  BY <1>5 DEF SetPermission, PollTakes, PollFindsStale, StashAges, Shut, tables, calls
<1> QED
  BY <1>1, <1>2, <1>3, <1>4, <1>5 DEF DeviceStep

\* A device that was closed stays so, unless an approval was under way.
THEOREM ClosedStaysClosed == Spec => ClosedForGood
<1>1. TypeInv /\ [Next]_vars => [\A d \in Devices : Shut(d) => Shut(d)']_vars
  <2> SUFFICES ASSUME TypeInv, [Next]_vars, NEW d \in Devices, Shut(d)
               PROVE  Shut(d)'
    OBVIOUS
  <2>1. CASE \E c \in Codes : CodeStep(c)
    BY <2>1 DEF CodeStep, Mint, CodeAges, ClaimBegins, Shut, tables, calls
  <2>2. CASE MintUnclaimed \/ \E f \in Folders : RemoveFolder(f)
    BY <2>2 DEF MintUnclaimed, RemoveFolder, Shut, tables, calls
  <2>3. CASE \E x \in claims : ClaimFails(x) \/ ClaimRefused(x)
    BY <2>3 DEF ClaimFails, ClaimRefused, Shut, tables
  <2>4. CASE \E x \in claims, e \in Devices : ClaimConsumes(x, e)
    BY <2>4 DEF ClaimConsumes, Sets, Shut, TypeInv, TypeOK
  <2>5. CASE \E e \in Devices : DeviceStep(e)
    BY <2>5, ShutDevice
  <2>6. CASE ListDevices
    BY <2>6 DEF ListDevices, Shut, calls, TypeInv, TypeOK, Device
  <2>7. CASE \E k \in Calls, s \in sessions : RedeemBegins(k, s)
    BY <2>7 DEF RedeemBegins, Shut, tables
  <2>8. CASE \E x \in issues : SessionIssued(x)
    <3>1. PICK x \in issues : SessionIssued(x)
      BY <2>8
    <3>2. devices'[d].status = devices[d].status
      BY <3>1 DEF SessionIssued, TypeInv, TypeOK, Device
    <3> QED
      BY <3>1, <3>2 DEF SessionIssued, Shut
  <2>9. CASE Restart
    BY <2>9 DEF Restart, Shut, tables
  <2>10. CASE UNCHANGED vars
    BY <2>10 DEF vars, tables, calls, Shut
  <2> QED
    BY <2>1, <2>2, <2>3, <2>4, <2>5, <2>6, <2>7, <2>8, <2>9, <2>10 DEF Next
<1> QED
  BY TypeInit, TypeNext, <1>1, PTL DEF Spec, ClosedForGood

---------------------------------------------------------------------------
(* Sessions that are closed. *)

\* token_version counts the closings, and a call or a session holds both as they
\* were when its device was read.
VersionInv ==
  /\ \A d \in Devices : devices[d].version = closings[d] + 1
  /\ \A x \in issues : x.version = x.closed + 1
  /\ \A s \in sessions : s.version = s.closed + 1

\* No device was closed at first.
LEMMA VersionInit == Init => VersionInv
BY DEF Init, VersionInv

\* A row that is closed counts it.
LEMMA VersionCloses ==
  ASSUME TypeInv, VersionInv, NEW d \in Devices, NEW status \in {"revoked", "deleted"},
         CloseRow(d, status)
  PROVE  \A e \in Devices : devices'[e].version = closings'[e] + 1
BY DEF CloseRow, VersionInv, TypeInv, TypeOK, Device

\* A call that begins holds what its device is.
LEMMA VersionBegins ==
  ASSUME TypeInv, VersionInv, NEW k \in Calls, NEW d \in Devices, NEW dav \in Nat, Begins(k, d, dav)
  PROVE  \A x \in issues' : x.version = x.closed + 1
BY DEF Begins, VersionInv

\* Steps of a device keep the count.
LEMMA VersionDevice ==
  ASSUME TypeInv, VersionInv, NEW d \in Devices, DeviceStep(d)
  PROVE  VersionInv'
<1>1. CASE ApproveApplies(d)
  <2>1. \A e \in Devices : devices'[e].version = devices[e].version
    BY <1>1 DEF ApproveApplies, Activate, TypeInv, TypeOK, Device
  <2> QED
    BY <1>1, <2>1 DEF ApproveApplies, VersionInv, history
<1>2. CASE Reject(d) \/ Revoke(d) \/ Delete(d)
  BY <1>2, VersionCloses DEF Reject, Revoke, Delete, VersionInv, calls
<1>3. CASE DeviceAges(d)
  <2>1. \A e \in Devices : devices'[e].version = devices[e].version
    BY <1>3 DEF DeviceAges, TypeInv, TypeOK, Device
  <2> QED
    BY <1>3, <2>1 DEF DeviceAges, VersionInv, history, calls
<1>4. CASE \E k \in Calls : PollTakes(k, d)
  <2>1. PICK k \in Calls : PollTakes(k, d)
    BY <1>4
  <2>2. stash[d].dav \in Nat
    BY DEF TypeInv, TypeOK, Stash
  <2> QED
    BY <2>1, <2>2, VersionBegins DEF PollTakes, VersionInv, tables, history
<1>5. CASE ApproveBegins(d) \/ PollFindsStale(d) \/ StashAges(d)
  BY <1>5 DEF ApproveBegins, PollFindsStale, StashAges, VersionInv, tables, calls, history
<1>6. CASE \E f \in Folders, mode \in Modes : SetPermission(d, f, mode)
  BY <1>6 DEF SetPermission, VersionInv, calls
<1> QED
  BY <1>1, <1>2, <1>3, <1>4, <1>5, <1>6 DEF DeviceStep

\* Every step keeps the count.
LEMMA VersionNext == TypeInv /\ VersionInv /\ [Next]_vars => VersionInv'
<1> SUFFICES ASSUME TypeInv, VersionInv, [Next]_vars PROVE VersionInv'
  OBVIOUS
<1>1. CASE \E c \in Codes : CodeStep(c)
  BY <1>1 DEF CodeStep, Mint, CodeAges, ClaimBegins, VersionInv, tables, calls, history
<1>2. CASE MintUnclaimed \/ \E f \in Folders : RemoveFolder(f)
  BY <1>2 DEF MintUnclaimed, RemoveFolder, VersionInv, calls, history
<1>3. CASE \E x \in claims : ClaimFails(x) \/ ClaimRefused(x)
  BY <1>3 DEF ClaimFails, ClaimRefused, VersionInv, tables, history
<1>4. CASE \E x \in claims, d \in Devices : ClaimConsumes(x, d)
  <2>1. \A e \in Devices : devices'[e].version = devices[e].version
    BY <1>4 DEF ClaimConsumes, Sets, TypeInv, TypeOK, Device
  <2> QED
    BY <1>4, <2>1 DEF ClaimConsumes, VersionInv
<1>5. CASE \E d \in Devices : DeviceStep(d)
  BY <1>5, VersionDevice
<1>6. CASE ListDevices
  <2>1. \A e \in Devices : devices'[e].version = devices[e].version
    BY <1>6 DEF ListDevices, TypeInv, TypeOK, Device
  <2> QED
    BY <1>6, <2>1 DEF ListDevices, VersionInv, calls, history
<1>7. CASE \E k \in Calls, s \in sessions : RedeemBegins(k, s)
  <2>1. PICK k \in Calls, s \in sessions : RedeemBegins(k, s)
    BY <1>7
  <2>2. s.device \in Devices /\ 0 \in Nat
    BY DEF TypeInv, TypeOK, Session
  <2> QED
    BY <2>1, <2>2, VersionBegins DEF RedeemBegins, VersionInv, tables, history
<1>8. CASE \E x \in issues : SessionIssued(x)
  <2>1. PICK x \in issues : SessionIssued(x)
    BY <1>8
  <2>2. x.device \in Devices
    BY DEF TypeInv, TypeOK, Issue
  <2>3. \A e \in Devices : devices'[e].version = devices[e].version
    BY <2>1, <2>2 DEF SessionIssued, TypeInv, TypeOK, Device
  <2>4. \A s \in sessions' : s.version = s.closed + 1
    BY <2>1 DEF SessionIssued, VersionInv
  <2> QED
    BY <2>1, <2>3, <2>4 DEF SessionIssued, VersionInv, history
<1>9. CASE Restart
  BY <1>9 DEF Restart, VersionInv, tables, history
<1>10. CASE UNCHANGED vars
  BY <1>10 DEF vars, tables, calls, history, VersionInv
<1> QED
  BY <1>1, <1>2, <1>3, <1>4, <1>5, <1>6, <1>7, <1>8, <1>9, <1>10 DEF Next

\* A session that was begun before its device was closed is not accepted after it.
THEOREM ClosedSessionsAreRefused == Spec => []ClosedSessionsDie
<1>1. TypeInv /\ VersionInv => ClosedSessionsDie
  <2> SUFFICES ASSUME TypeInv, VersionInv, NEW s \in sessions, Accepts(s)
               PROVE  s.closed = closings[s.device]
    BY DEF ClosedSessionsDie
  <2>1. s.device \in Devices /\ s.closed \in Nat
    BY DEF TypeInv, TypeOK, Session
  <2>2. closings[s.device] \in Nat
    BY <2>1 DEF TypeInv, TypeOK
  <2>3. s.closed + 1 = closings[s.device] + 1
    BY <2>1 DEF VersionInv, Accepts
  <2> QED
    BY <2>1, <2>2, <2>3
<1>2. TypeInv /\ VersionInv /\ [Next]_vars => (TypeInv /\ VersionInv)'
  BY TypeNext, VersionNext
<1> QED
  BY TypeInit, VersionInit, <1>1, <1>2, PTL DEF Spec

---------------------------------------------------------------------------
(* The password of an approval. *)

\* A row that was not made yet has no password and no approval; the password of
\* a device that has a row is that of its last approval or an earlier one, and
\* so is every one that was taken.
PasswordInv ==
  /\ \A d \in Devices : devices[d].status = "unborn" => approving[d] = 0 /\ stash[d].dav = 0
  /\ \A d \in Devices : HasRow(d) => stash[d].dav <= devices[d].davs
  /\ \A x \in issues \cup sessions : x.dav <= devices[x.device].davs
  /\ DavDeliveredOnce

\* No password is made or sent; one may be dropped, and a call be lost.
PasswordsKept ==
  /\ issues' \subseteq issues /\ sessions' = sessions
  /\ \A d \in Devices :
       /\ devices'[d].davs = devices[d].davs
       /\ stash'[d].dav \in {stash[d].dav, 0}
       /\ devices'[d].status = "unborn" =>
            devices[d].status = "unborn" /\ approving'[d] \in {approving[d], 0}
       /\ HasRow(d)' => HasRow(d) \/ devices[d].status = "unborn"

\* No password was made at first.
LEMMA PasswordInit == Init => PasswordInv
BY DEF Init, PasswordInv, DavDeliveredOnce, HasRow, NoStash

\* What keeps the passwords keeps the invariant.
LEMMA PasswordStays ==
  ASSUME TypeInv, PasswordInv, PasswordsKept
  PROVE  PasswordInv'
<1>1. \A d \in Devices : stash[d].dav \in Nat /\ devices[d].davs \in Nat
  BY DEF TypeInv, TypeOK, Stash, Device
<1>2. \A x \in issues \cup sessions : x.device \in Devices /\ x.dav \in Nat
  BY DEF TypeInv, TypeOK, Issue, Session
<1>3. DavDeliveredOnce'
  BY <1>2 DEF PasswordInv, PasswordsKept, DavDeliveredOnce
<1>4. \A d \in Devices : HasRow(d)' => stash'[d].dav <= devices'[d].davs
  BY <1>1 DEF PasswordInv, PasswordsKept
<1>5. \A x \in (issues \cup sessions)' : x.dav <= devices'[x.device].davs
  BY <1>2 DEF PasswordInv, PasswordsKept
<1> QED
  BY <1>3, <1>4, <1>5 DEF PasswordInv, PasswordsKept

\* The password of an approval is a new one.
LEMMA PasswordApplies ==
  ASSUME TypeInv, PasswordInv, NEW d \in Devices, ApproveApplies(d)
  PROVE  PasswordInv'
<1> DEFINE n == devices[d].davs + 1
<1>1. \A e \in Devices : devices[e] \in Device /\ devices[e].davs \in Nat /\ stash[e].dav \in Nat
  BY DEF TypeInv, TypeOK, Device, Stash
<1>2. \A x \in issues \cup sessions : x.device \in Devices /\ x.dav \in Nat
  BY DEF TypeInv, TypeOK, Issue, Session
<1>3. devices[d].status # "unborn"
  BY DEF ApproveApplies, PasswordInv, TypeInv, TypeOK
<1>4. /\ devices'[d].davs = IF HasRow(d) THEN n ELSE devices[d].davs
      /\ HasRow(d)' <=> HasRow(d)
      /\ devices'[d].status # "unborn"
      /\ \A e \in Devices : e # d => devices'[e] = devices[e]
  BY <1>3 DEF ApproveApplies, Activate, HasRow, TypeInv, TypeOK, Device
<1>5. /\ stash'[d].dav = n
      /\ \A e \in Devices : e # d => stash'[e] = stash[e] /\ approving'[e] = approving[e]
  BY DEF ApproveApplies, TypeInv, TypeOK
<1>6. issues' = issues /\ sessions' = sessions
  BY DEF ApproveApplies
<1>7. \A x \in issues \cup sessions : x.device = d => x.dav # n
  BY <1>1, <1>2 DEF PasswordInv
<1>8. DavDeliveredOnce'
  BY <1>2, <1>5, <1>6, <1>7 DEF PasswordInv, DavDeliveredOnce
<1>9. \A x \in issues \cup sessions : x.dav <= devices'[x.device].davs
  BY <1>1, <1>2, <1>4 DEF PasswordInv
<1>10. \A e \in Devices : HasRow(e)' => stash'[e].dav <= devices'[e].davs
  BY <1>1, <1>4, <1>5 DEF PasswordInv, HasRow
<1> QED
  BY <1>4, <1>5, <1>6, <1>8, <1>9, <1>10 DEF PasswordInv

\* The poll that takes a password is the only one that has it.
LEMMA PasswordTaken ==
  ASSUME TypeInv, PasswordInv, NEW k \in Calls, NEW d \in Devices, PollTakes(k, d)
  PROVE  PasswordInv'
<1>1. PICK x : x = [call |-> k, device |-> d, version |-> devices[d].version,
                    closed |-> closings[d], dav |-> stash[d].dav]
  OBVIOUS
<1>2. issues' = issues \cup {x} /\ x.device = d /\ x.dav = stash[d].dav
  BY <1>1 DEF PollTakes, Begins
<1>3. /\ devices' = devices /\ sessions' = sessions /\ approving' = approving
      /\ stash'[d].dav = 0 /\ \A e \in Devices : e # d => stash'[e] = stash[e]
  BY DEF PollTakes, tables, TypeInv, TypeOK, NoStash
<1>4. HasRow(d) /\ stash[d].dav # 0 /\ devices[d].davs \in Nat
  BY DEF PollTakes, HasRow, TypeInv, TypeOK, Device
<1>5. \A y \in issues \cup sessions : y.device \in Devices
  BY DEF TypeInv, TypeOK, Issue, Session
<1>6. \A y \in issues \cup sessions : y.device = d /\ y.dav # 0 => y.dav # x.dav
  BY <1>2 DEF PasswordInv, DavDeliveredOnce
<1>7. DavDeliveredOnce'
  BY <1>2, <1>3, <1>5, <1>6 DEF PasswordInv, DavDeliveredOnce
<1>8. \A y \in (issues \cup sessions)' : y.dav <= devices'[y.device].davs
  BY <1>2, <1>3, <1>4 DEF PasswordInv
<1>9. \A e \in Devices : HasRow(e)' => stash'[e].dav <= devices'[e].davs
  BY <1>3, <1>4 DEF PasswordInv, HasRow
<1> QED
  BY <1>3, <1>4, <1>7, <1>8, <1>9 DEF PasswordInv, HasRow

\* A refresh has no password.
LEMMA PasswordRedeemed ==
  ASSUME TypeInv, PasswordInv, NEW k \in Calls, NEW s \in sessions, RedeemBegins(k, s)
  PROVE  PasswordInv'
<1> DEFINE d == s.device
<1>1. PICK x : x = [call |-> k, device |-> d, version |-> devices[d].version,
                    closed |-> closings[d], dav |-> 0]
  OBVIOUS
<1>2. issues' = issues \cup {x} /\ x.device = d /\ x.dav = 0
  BY <1>1 DEF RedeemBegins, Begins
<1>3. devices' = devices /\ sessions' = sessions /\ approving' = approving /\ stash' = stash
  BY DEF RedeemBegins, tables
<1>4. d \in Devices /\ devices[d].davs \in Nat
  BY DEF TypeInv, TypeOK, Session, Device
<1>5. DavDeliveredOnce'
  BY <1>2, <1>3 DEF PasswordInv, DavDeliveredOnce
<1>6. \A y \in (issues \cup sessions)' : y.dav <= devices'[y.device].davs
  BY <1>2, <1>3, <1>4 DEF PasswordInv
<1> QED
  BY <1>3, <1>5, <1>6 DEF PasswordInv, HasRow

\* The password of a call becomes that of its session.
LEMMA PasswordIssued ==
  ASSUME TypeInv, PasswordInv, NEW x \in issues, SessionIssued(x)
  PROVE  PasswordInv'
<1> DEFINE d == x.device
           n == devices[d].issued + 1
<1>0. x.device \in Devices
  BY DEF TypeInv, TypeOK, Issue
<1>1. PICK t : t = [device |-> d, version |-> x.version, closed |-> x.closed, dav |-> x.dav, refresh |-> n]
  OBVIOUS
<1>2. sessions' = sessions \cup {t} /\ t.device = x.device /\ t.dav = x.dav
  BY <1>1 DEF SessionIssued
<1>3. issues' = issues \ {x} /\ stash' = stash /\ approving' = approving
  BY DEF SessionIssued
<1>4. \A e \in Devices : devices'[e].davs = devices[e].davs /\ devices'[e].status = devices[e].status
  BY <1>0 DEF SessionIssued, TypeInv, TypeOK, Device
<1>5. \A y \in issues \cup sessions : y.device \in Devices
  BY DEF TypeInv, TypeOK, Issue, Session
<1>6. DavDeliveredOnce'
  BY <1>2, <1>3, <1>5 DEF PasswordInv, DavDeliveredOnce
<1>7. \A y \in (issues \cup sessions)' : y.dav <= devices'[y.device].davs
  BY <1>2, <1>3, <1>4, <1>5 DEF PasswordInv
<1> QED
  BY <1>3, <1>4, <1>6, <1>7 DEF PasswordInv, HasRow

\* Steps of a device that make and send no password.
LEMMA PasswordDevice ==
  ASSUME TypeInv, PasswordInv, NEW d \in Devices, DeviceStep(d)
  PROVE  PasswordInv'
<1>1. CASE ApproveBegins(d)
  BY <1>1, PasswordStays DEF ApproveBegins, PasswordsKept, HasRow, tables, TypeInv, TypeOK
<1>2. CASE ApproveApplies(d)
  BY <1>2, PasswordApplies
<1>3. CASE Reject(d) \/ Revoke(d) \/ Delete(d)
  <2>1. PICK status \in {"revoked", "deleted"} : HasRow(d) /\ CloseRow(d, status)
    BY <1>3 DEF Reject, Revoke, Delete
  <2>2. \A e \in Devices :
          /\ devices'[e].davs = devices[e].davs
          /\ devices'[e].status = "unborn" => devices[e].status = "unborn"
          /\ HasRow(e)' => HasRow(e)
    BY <2>1 DEF CloseRow, HasRow, TypeInv, TypeOK, Device
  <2>3. \A e \in Devices : stash'[e].dav \in {stash[e].dav, 0}
    BY <1>3 DEF Reject, Revoke, Delete, TypeInv, TypeOK, NoStash
  <2> QED
    BY <1>3, <2>2, <2>3, PasswordStays DEF Reject, Revoke, Delete, PasswordsKept, calls
<1>4. CASE DeviceAges(d)
  <2>1. \A e \in Devices : devices'[e].davs = devices[e].davs /\ devices'[e].status = devices[e].status
    BY <1>4 DEF DeviceAges, TypeInv, TypeOK, Device
  <2> QED
    BY <1>4, <2>1, PasswordStays DEF DeviceAges, PasswordsKept, HasRow, calls
<1>5. CASE \E f \in Folders, mode \in Modes : SetPermission(d, f, mode)
  BY <1>5, PasswordStays DEF SetPermission, PasswordsKept, HasRow, calls
<1>6. CASE \E k \in Calls : PollTakes(k, d)
  BY <1>6, PasswordTaken
<1>7. CASE PollFindsStale(d)
  BY <1>7, PasswordStays DEF PollFindsStale, PasswordsKept, HasRow, tables, calls, NoStash, TypeInv, TypeOK
<1>8. CASE StashAges(d)
  BY <1>8, PasswordStays DEF StashAges, PasswordsKept, HasRow, tables, calls, Stash, TypeInv, TypeOK
<1> QED
  BY <1>1, <1>2, <1>3, <1>4, <1>5, <1>6, <1>7, <1>8 DEF DeviceStep

\* Every step sends a password once at most.
LEMMA PasswordNext == TypeInv /\ PasswordInv /\ [Next]_vars => PasswordInv'
<1> SUFFICES ASSUME TypeInv, PasswordInv, [Next]_vars PROVE PasswordInv'
  OBVIOUS
<1>1. CASE \E c \in Codes : CodeStep(c)
  BY <1>1, PasswordStays DEF CodeStep, Mint, CodeAges, ClaimBegins, PasswordsKept, HasRow, tables, calls
<1>2. CASE MintUnclaimed \/ \E f \in Folders : RemoveFolder(f)
  BY <1>2, PasswordStays DEF MintUnclaimed, RemoveFolder, PasswordsKept, HasRow, calls
<1>3. CASE \E x \in claims : ClaimFails(x) \/ ClaimRefused(x)
  BY <1>3, PasswordStays DEF ClaimFails, ClaimRefused, PasswordsKept, HasRow, tables
<1>4. CASE \E x \in claims, d \in Devices : ClaimConsumes(x, d)
  <2>1. PICK x \in claims, d \in Devices : ClaimConsumes(x, d)
    BY <1>4
  <2>2. \A e \in Devices :
          /\ devices'[e].davs = devices[e].davs
          /\ devices'[e].status = "unborn" => devices[e].status = "unborn"
          /\ HasRow(e)' => HasRow(e) \/ devices[e].status = "unborn"
    BY <2>1 DEF ClaimConsumes, Sets, HasRow, TypeInv, TypeOK, Device
  <2> QED
    BY <2>1, <2>2, PasswordStays DEF ClaimConsumes, PasswordsKept
<1>5. CASE \E d \in Devices : DeviceStep(d)
  BY <1>5, PasswordDevice
<1>6. CASE ListDevices
  <2>1. \A e \in Devices :
          /\ devices'[e].davs = devices[e].davs
          /\ devices'[e].status = "unborn" => devices[e].status = "unborn"
          /\ HasRow(e)' => HasRow(e)
    BY <1>6 DEF ListDevices, HasRow, TypeInv, TypeOK, Device
  <2> QED
    BY <1>6, <2>1, PasswordStays DEF ListDevices, PasswordsKept, calls
<1>7. CASE \E k \in Calls, s \in sessions : RedeemBegins(k, s)
  BY <1>7, PasswordRedeemed
<1>8. CASE \E x \in issues : SessionIssued(x)
  BY <1>8, PasswordIssued
<1>9. CASE Restart
  BY <1>9, PasswordStays DEF Restart, PasswordsKept, HasRow, tables, NoStash
<1>10. CASE UNCHANGED vars
  BY <1>10, PasswordStays DEF vars, tables, calls, PasswordsKept, HasRow
<1> QED
  BY <1>1, <1>2, <1>3, <1>4, <1>5, <1>6, <1>7, <1>8, <1>9, <1>10 DEF Next

---------------------------------------------------------------------------
(* What a device may see. *)

\* Nothing was invited or set for a device that has no row yet, and the code a
\* device comes from was minted.
GrantInv ==
  /\ \A d \in Devices : devices[d].status = "unborn" => \A f \in Folders : perms[d][f] = "unset"
  /\ \A d \in Devices : origin[d] # NoCode => codes[origin[d]].life # "unminted"
  /\ GrantsFromInvitation

\* A code that was minted stays so, and keeps its invitation.
CodesKept ==
  \A c \in Codes : codes[c].life # "unminted" =>
     codes'[c].life # "unminted" /\ codes'[c].grants = codes[c].grants

\* Nothing is granted, and no device comes from anywhere.
GrantsKept ==
  /\ CodesKept
  /\ origin' = origin /\ folders' = folders /\ edited \subseteq edited'
  /\ \A d \in Devices :
       /\ devices'[d].status = "unborn" => devices[d].status = "unborn"
       /\ \A f \in Folders : perms'[d][f] \in {perms[d][f], "unset"}

\* Nothing was granted at first.
LEMMA GrantInit == Init => GrantInv
BY DEF Init, GrantInv, GrantsFromInvitation, NoGrants

\* What keeps the grants keeps the invariant.
LEMMA GrantStays ==
  ASSUME TypeInv, GrantInv, GrantsKept
  PROVE  GrantInv'
<1>1. \A d \in Devices : origin[d] # NoCode => origin[d] \in Codes
  BY DEF TypeInv, TypeOK
<1>2. ASSUME NEW d \in Devices, NEW f \in Folders, perms'[d][f] # "unset"
      PROVE  /\ f \in folders'
             /\ \/ <<d, f>> \in edited'
                \/ origin'[d] # NoCode /\ perms'[d][f] = codes'[origin'[d]].grants[f]
  <2>1. perms'[d][f] = perms[d][f] /\ perms[d][f] # "unset"
    BY <1>2 DEF GrantsKept
  <2>2. /\ f \in folders
        /\ <<d, f>> \in edited \/ (origin[d] # NoCode /\ perms[d][f] = codes[origin[d]].grants[f])
    BY <2>1 DEF GrantInv, GrantsFromInvitation
  <2>3. origin[d] # NoCode => codes'[origin[d]].grants = codes[origin[d]].grants
    BY <1>1 DEF GrantInv, GrantsKept, CodesKept
  <2> QED
    BY <2>1, <2>2, <2>3 DEF GrantsKept
<1>3. GrantsFromInvitation'
  BY <1>2 DEF GrantsFromInvitation
<1>4. \A d \in Devices : origin'[d] # NoCode => codes'[origin'[d]].life # "unminted"
  BY <1>1 DEF GrantInv, GrantsKept, CodesKept
<1>5. \A d \in Devices : devices'[d].status = "unborn" => \A f \in Folders : perms'[d][f] = "unset"
  BY DEF GrantInv, GrantsKept
<1> QED
  BY <1>3, <1>4, <1>5 DEF GrantInv

\* Codes that are cleared keep what they invited to.
LEMMA ClearedKept ==
  ASSUME TypeInv, NEW old \in SUBSET Codes, NEW c \in Codes
  PROVE  /\ Cleared(old)[c].life \in {codes[c].life, "cleared"}
         /\ Cleared(old)[c].grants = codes[c].grants
<1>1. Cleared(old)[c] = IF c \in old THEN [codes[c] EXCEPT !.life = "cleared", !.by = NoDevice]
                        ELSE codes[c]
  BY Zenon DEF Cleared
<1> QED
  BY <1>1, ClearedType DEF TypeInv, TypeOK, Code

\* So do codes whose device is dropped.
LEMMA DropRowsKept ==
  ASSUME TypeInv, NEW gone \in SUBSET Devices, DropRows(gone)
  PROVE  /\ CodesKept
         /\ \A d \in Devices : \A f \in Folders : perms'[d][f] \in {perms[d][f], "unset"}
<1>1. ASSUME NEW c \in Codes
      PROVE  codes'[c].life = codes[c].life /\ codes'[c].grants = codes[c].grants
  <2>1. codes'[c] = IF codes[c].by \in gone THEN [codes[c] EXCEPT !.by = NoDevice] ELSE codes[c]
    BY Zenon DEF DropRows
  <2> QED
    BY <2>1 DEF TypeInv, TypeOK, Code
<1>2. \A d \in Devices : \A f \in Folders : perms'[d][f] \in {perms[d][f], "unset"}
  BY DEF DropRows, NoGrants
<1> QED
  BY <1>1, <1>2 DEF CodesKept

\* An approval grants what the device's code invited to.
LEMMA GrantApplies ==
  ASSUME TypeInv, GrantInv, NEW d \in Devices, ApproveApplies(d), devices[d].status # "unborn"
  PROVE  GrantInv'
<1>1. CASE ~HasRow(d)
  BY <1>1, GrantStays DEF ApproveApplies, GrantsKept, CodesKept, history
<1>2. CASE HasRow(d)
  <2>1. /\ perms' = [perms EXCEPT ![d] = [f \in Folders |->
                      IF f \in folders /\ InvitedMode(d, f) # "unset" THEN InvitedMode(d, f)
                      ELSE perms[d][f]]]
        /\ codes' = codes /\ folders' = folders /\ origin' = origin /\ edited' = edited
    BY <1>2 DEF ApproveApplies, Activate, history
  <2>2. \A e \in Devices : devices'[e].status = "unborn" => devices[e].status = "unborn"
    BY <1>2 DEF ApproveApplies, Activate, TypeInv, TypeOK, Device
  <2>3. \A f \in Folders : InvitedMode(d, f) # "unset" =>
           origin[d] # NoCode /\ InvitedMode(d, f) = codes[origin[d]].grants[f]
    BY DEF InvitedMode
  <2>4. \A e \in Devices : e # d => perms'[e] = perms[e]
    BY <2>1 DEF TypeInv, TypeOK
  <2>5. \A f \in Folders :
          perms'[d][f] = IF f \in folders /\ InvitedMode(d, f) # "unset" THEN InvitedMode(d, f)
                         ELSE perms[d][f]
    BY <2>1 DEF TypeInv, TypeOK
  <2>6. ASSUME NEW f \in Folders, perms'[d][f] # "unset"
        PROVE  /\ f \in folders
               /\ <<d, f>> \in edited \/ (origin[d] # NoCode /\ perms'[d][f] = codes[origin[d]].grants[f])
    <3>1. CASE f \in folders /\ InvitedMode(d, f) # "unset"
      BY <2>3, <2>5, <3>1
    <3>2. CASE ~(f \in folders /\ InvitedMode(d, f) # "unset")
      <4>1. perms'[d][f] = perms[d][f]
        BY <2>5, <3>2
      <4> QED
        BY <2>6, <4>1 DEF GrantInv, GrantsFromInvitation
    <3> QED
      BY <3>1, <3>2
  <2>7. GrantsFromInvitation'
    BY <2>1, <2>4, <2>6 DEF GrantInv, GrantsFromInvitation
  <2>8. devices'[d].status # "unborn"
    BY <1>2 DEF ApproveApplies, Activate, TypeInv, TypeOK, Device
  <2> QED
    BY <2>1, <2>2, <2>4, <2>7, <2>8 DEF GrantInv
<1> QED
  BY <1>1, <1>2

\* The operator sets a grant of a folder there is.
LEMMA GrantSet ==
  ASSUME TypeInv, GrantInv, NEW d \in Devices, NEW f \in Folders, NEW mode \in Modes,
         SetPermission(d, f, mode)
  PROVE  GrantInv'
<1>1. /\ codes' = codes /\ devices' = devices /\ folders' = folders /\ origin' = origin
      /\ edited' = edited \cup {<<d, f>>} /\ f \in folders /\ devices[d].status # "unborn"
  BY DEF SetPermission, HasRow
<1>2. \A e \in Devices, g \in Folders : <<e, g>> # <<d, f>> => perms'[e][g] = perms[e][g]
  BY DEF SetPermission, TypeInv, TypeOK, Grants
<1>3. GrantsFromInvitation'
  BY <1>1, <1>2 DEF GrantInv, GrantsFromInvitation
<1>4. \A e \in Devices : devices[e].status = "unborn" => \A g \in Folders : perms'[e][g] = "unset"
  BY <1>1, <1>2 DEF GrantInv
<1> QED
  BY <1>1, <1>3, <1>4 DEF GrantInv

\* A folder that is removed takes its grants with it.
LEMMA GrantRemoved ==
  ASSUME TypeInv, GrantInv, NEW f \in Folders, RemoveFolder(f)
  PROVE  GrantInv'
<1>1. /\ codes' = codes /\ devices' = devices /\ folders' = folders \ {f} /\ origin' = origin
      /\ edited' = edited
  BY DEF RemoveFolder, history
<1>2. \A e \in Devices, g \in Folders : perms'[e][g] = IF g = f THEN "unset" ELSE perms[e][g]
  BY DEF RemoveFolder, TypeInv, TypeOK, Grants
<1>3. GrantsFromInvitation'
  BY <1>1, <1>2 DEF GrantInv, GrantsFromInvitation
<1> QED
  BY <1>1, <1>2, <1>3 DEF GrantInv

\* A device that comes from a code has no grants yet.
LEMMA GrantConsumes ==
  ASSUME TypeInv, GrantInv, NEW x \in claims, NEW d \in Devices, ClaimConsumes(x, d)
  PROVE  GrantInv'
<1>1. /\ x.code \in Codes /\ codes[x.code].life # "unminted"
      /\ perms' = perms /\ folders' = folders /\ edited' = edited
      /\ devices[d].status = "unborn"
  BY DEF ClaimConsumes, StillConsumable, RowThere, TypeInv, TypeOK, Claim
<1>2. \A e \in Devices : origin'[e] = IF e = d THEN x.code ELSE origin[e]
  BY DEF ClaimConsumes, TypeInv, TypeOK
<1>3. \A c \in Codes : codes'[c].life = codes[c].life /\ codes'[c].grants = codes[c].grants
  BY DEF ClaimConsumes, TypeInv, TypeOK, Code
<1>4. \A e \in Devices : devices'[e].status = "unborn" => devices[e].status = "unborn"
  BY DEF ClaimConsumes, Sets, TypeInv, TypeOK, Device
<1>5. \A e \in Devices : origin[e] # NoCode => origin[e] \in Codes
  BY DEF TypeInv, TypeOK
<1>6. GrantsFromInvitation'
  <2> SUFFICES ASSUME NEW e \in Devices, NEW f \in Folders, perms[e][f] # "unset"
               PROVE  /\ f \in folders
                      /\ \/ <<e, f>> \in edited
                         \/ origin'[e] # NoCode /\ perms[e][f] = codes'[origin'[e]].grants[f]
    BY <1>1 DEF GrantsFromInvitation
  <2>1. e # d
    BY <1>1 DEF GrantInv
  <2> QED
    BY <1>2, <1>3, <1>5, <2>1 DEF GrantInv, GrantsFromInvitation
<1>7. \A e \in Devices : origin'[e] # NoCode => codes'[origin'[e]].life # "unminted"
  BY <1>1, <1>2, <1>3, <1>5 DEF GrantInv
<1> QED
  BY <1>1, <1>4, <1>6, <1>7 DEF GrantInv

\* Steps of a code.
LEMMA GrantCode ==
  ASSUME TypeInv, GrantInv, NEW c \in Codes, CodeStep(c)
  PROVE  GrantInv'
<1>1. CASE Mint(c)
  <2>1. PICK grants \in Grants, old \in SUBSET Old :
           codes' = [Cleared(old) EXCEPT ![c] = [codes[c] EXCEPT !.life = "live", !.grants = grants]]
    BY <1>1 DEF Mint
  <2>2. old \in SUBSET Codes /\ codes[c].life = "unminted"
    BY <1>1 DEF Old, Mint
  <2>3. \A o \in Codes : o # c => codes'[o] = Cleared(old)[o]
    BY <2>1, <2>2, ClearedType
  <2>4. CodesKept
    BY <2>2, <2>3, ClearedKept DEF CodesKept
  <2> QED
    BY <1>1, <2>4, GrantStays DEF Mint, GrantsKept, history
<1>2. CASE CodeAges(c)
  <2>1. CodesKept
    BY <1>2 DEF CodeAges, CodesKept, TypeInv, TypeOK, Code
  <2> QED
    BY <1>2, <2>1, GrantStays DEF CodeAges, GrantsKept, history
<1>3. CASE \E k \in Calls, good \in BOOLEAN : ClaimBegins(k, c, good)
  BY <1>3, GrantStays DEF ClaimBegins, GrantsKept, CodesKept, tables, history
<1> QED
  BY <1>1, <1>2, <1>3 DEF CodeStep

\* Steps of a device.
LEMMA GrantDevice ==
  ASSUME TypeInv, PasswordInv, GrantInv, NEW d \in Devices, DeviceStep(d)
  PROVE  GrantInv'
<1>1. CASE ApproveApplies(d)
  <2>1. devices[d].status # "unborn"
    BY <1>1 DEF ApproveApplies, PasswordInv, TypeInv, TypeOK
  <2> QED
    BY <1>1, <2>1, GrantApplies
<1>2. CASE Reject(d) \/ Revoke(d)
  <2>1. \A e \in Devices : devices'[e].status = "unborn" => devices[e].status = "unborn"
    BY <1>2 DEF Reject, Revoke, CloseRow, TypeInv, TypeOK, Device
  <2> QED
    BY <1>2, <2>1, GrantStays DEF Reject, Revoke, GrantsKept, CodesKept
<1>3. CASE Delete(d)
  <2>1. \A e \in Devices : devices'[e].status = "unborn" => devices[e].status = "unborn"
    BY <1>3 DEF Delete, CloseRow, TypeInv, TypeOK, Device
  <2>2. {d} \in SUBSET Devices
    OBVIOUS
  <2> QED
    BY <1>3, <2>1, <2>2, DropRowsKept, GrantStays DEF Delete, GrantsKept
<1>4. CASE DeviceAges(d)
  <2>1. \A e \in Devices : devices'[e].status = devices[e].status
    BY <1>4 DEF DeviceAges, TypeInv, TypeOK, Device
  <2> QED
    BY <1>4, <2>1, GrantStays DEF DeviceAges, GrantsKept, CodesKept, history
<1>5. CASE \E f \in Folders, mode \in Modes : SetPermission(d, f, mode)
  BY <1>5, GrantSet
<1>6. CASE ApproveBegins(d) \/ PollFindsStale(d) \/ StashAges(d) \/ \E k \in Calls : PollTakes(k, d)
  BY <1>6, GrantStays DEF ApproveBegins, PollFindsStale, StashAges, PollTakes, GrantsKept, CodesKept,
                          tables, history
<1> QED
  BY <1>1, <1>2, <1>3, <1>4, <1>5, <1>6 DEF DeviceStep

\* Every step grants what was invited or set.
LEMMA GrantNext == TypeInv /\ PasswordInv /\ GrantInv /\ [Next]_vars => GrantInv'
<1> SUFFICES ASSUME TypeInv, PasswordInv, GrantInv, [Next]_vars PROVE GrantInv'
  OBVIOUS
<1>1. CASE \E c \in Codes : CodeStep(c)
  BY <1>1, GrantCode
<1>2. CASE MintUnclaimed
  <2>1. PICK old \in SUBSET Old : codes' = Cleared(old)
    BY <1>2 DEF MintUnclaimed
  <2>2. old \in SUBSET Codes
    BY DEF Old
  <2>3. CodesKept
    BY <2>1, <2>2, ClearedKept DEF CodesKept
  <2> QED
    BY <1>2, <2>3, GrantStays DEF MintUnclaimed, GrantsKept, history
<1>3. CASE \E x \in claims : ClaimFails(x)
  <2>1. PICK x \in claims : ClaimFails(x)
    BY <1>3
  <2>2. x.code \in Codes
    BY DEF TypeInv, TypeOK, Claim
  <2>3. CodesKept
    BY <2>1, <2>2 DEF ClaimFails, RegisterFailure, CodesKept, TypeInv, TypeOK, Code
  <2> QED
    BY <2>1, <2>3, GrantStays DEF ClaimFails, GrantsKept, history
<1>4. CASE \E x \in claims : ClaimRefused(x)
  BY <1>4, GrantStays DEF ClaimRefused, GrantsKept, CodesKept, tables, history
<1>5. CASE \E x \in claims, d \in Devices : ClaimConsumes(x, d)
  BY <1>5, GrantConsumes
<1>6. CASE \E d \in Devices : DeviceStep(d)
  BY <1>6, GrantDevice
<1>7. CASE ListDevices
  <2>1. PICK gone \in SUBSET Devices : DropRows(gone)
    BY <1>7 DEF ListDevices
  <2>2. \A e \in Devices : devices'[e].status = "unborn" => devices[e].status = "unborn"
    BY <1>7 DEF ListDevices, TypeInv, TypeOK, Device
  <2> QED
    BY <1>7, <2>1, <2>2, DropRowsKept, GrantStays DEF ListDevices, GrantsKept, history
<1>8. CASE \E f \in Folders : RemoveFolder(f)
  BY <1>8, GrantRemoved
<1>9. CASE \E k \in Calls, s \in sessions : RedeemBegins(k, s)
  BY <1>9, GrantStays DEF RedeemBegins, GrantsKept, CodesKept, tables, history
<1>10. CASE \E x \in issues : SessionIssued(x)
  <2>1. PICK x \in issues : SessionIssued(x)
    BY <1>10
  <2>2. \A e \in Devices : devices'[e].status = devices[e].status
    BY <2>1 DEF SessionIssued, TypeInv, TypeOK, Device, Issue
  <2> QED
    BY <2>1, <2>2, GrantStays DEF SessionIssued, GrantsKept, CodesKept, history
<1>11. CASE Restart
  BY <1>11, GrantStays DEF Restart, GrantsKept, CodesKept, tables, history
<1>12. CASE UNCHANGED vars
  BY <1>12, GrantStays DEF vars, GrantsKept, CodesKept, tables, history
<1> QED
  BY <1>1, <1>2, <1>3, <1>4, <1>5, <1>6, <1>7, <1>8, <1>9, <1>10, <1>11, <1>12 DEF Next

\* The password of an approval is answered to one poll, and a device may see
\* what its code invited to or the operator has set.
THEOREM Deliveries == Spec => []DeliveriesHold
<1>1. PasswordInv /\ GrantInv => DeliveriesHold
  BY DEF PasswordInv, GrantInv, DeliveriesHold
<1>2. TypeInv /\ PasswordInv /\ GrantInv /\ [Next]_vars => (TypeInv /\ PasswordInv /\ GrantInv)'
  BY TypeNext, PasswordNext, GrantNext
<1> QED
  BY TypeInit, PasswordInit, GrantInit, <1>1, <1>2, PTL DEF Spec

---------------------------------------------------------------------------
(***************************************************************************)
(* PrintQueue.                                                             *)
(* A finished job leaves neither a note nor a copy behind, and it stays    *)
(* finished.  Neither is inductive.  Both rest on where a job's row is while *)
(* it waits in the chain: queued or cancelled until its turn, printing from *)
(* the hand-over on, and never finished before it has left the chain.      *)
(***************************************************************************)

(* The inductive invariant. *)

\* A job waits once.
WaitsOnce == \A i, k \in DOMAIN chain : chain[i] = chain[k] => i = k

\* What waits is queued, or was cancelled while it waited; the job whose turn
\* it is may be printing, and is from the hand-over on.
Waiting == {"queued", "cancelled"}
RowsOfTheChain ==
    \A i \in DOMAIN chain :
        \/ rows[chain[i]] \in Waiting /\ (i = 1 => run.at \notin {"handing", "watching", "looking"})
        \/ i = 1 /\ rows[chain[i]] = "printing" /\ run.at \in {"handing", "watching", "looking", "cleaning"}

\* A job that is printing is the one that runs, unless the server is going.
PrintingRuns ==
    \A j \in Jobs : rows[j] = "printing" => disposed \/ (run.at # "idle" /\ Job = j)

\* Only a server that is going leaves a job as printing.
LeftOnlyInTheEnd == run.outcome = "printing" => disposed

QueueInv ==
    /\ PrintTypeOK /\ numbered \in 0..MaxNumbers
    /\ WaitsOnce /\ RowsOfTheChain /\ PrintingRuns /\ LeftOnlyInTheEnd
    /\ NotesAreOfTheRun /\ NoCopyIsLeft

---------------------------------------------------------------------------
(* The chain. *)

\* The job whose turn it is.
LEMMA HeadOfTheChain ==
  ASSUME PrintTypeOK, chain # <<>>
  PROVE  /\ Head(chain) \in Jobs /\ 1 \in DOMAIN chain
         /\ chain[1] = Head(chain) /\ Head(chain) \in InChain
<1>1. chain \in Seq(Jobs) /\ Len(chain) \in Nat \ {0} /\ DOMAIN chain = 1..Len(chain)
  BY DEF PrintTypeOK
<1>2. 1 \in DOMAIN chain /\ chain[1] \in Jobs /\ Head(chain) = chain[1]
  BY <1>1
<1> QED
  BY <1>2 DEF InChain

\* What is left of the chain when a turn is over: all but that job.
LEMMA TailOfTheChain ==
  ASSUME PrintTypeOK, WaitsOnce, chain # <<>>, chain' = Tail(chain)
  PROVE  /\ chain' \in Seq(Jobs) /\ WaitsOnce'
         /\ \A i \in DOMAIN chain' : /\ i + 1 \in DOMAIN chain /\ i + 1 # 1
                                     /\ chain'[i] = chain[i + 1]
                                     /\ chain'[i] # Head(chain)
         /\ InChain \subseteq InChain' \cup {Head(chain)}
<1>1. chain \in Seq(Jobs) /\ Len(chain) \in Nat \ {0} /\ DOMAIN chain = 1..Len(chain)
  BY DEF PrintTypeOK
<1>2. chain' \in Seq(Jobs) /\ DOMAIN chain' = 1..(Len(chain) - 1)
  BY <1>1
<1>3. ASSUME NEW i \in DOMAIN chain'
      PROVE  /\ i + 1 \in DOMAIN chain /\ i + 1 # 1 /\ i \in Nat
             /\ chain'[i] = chain[i + 1] /\ chain'[i] # Head(chain)
  <2>1. i + 1 \in DOMAIN chain /\ i + 1 # 1 /\ i \in Nat /\ chain'[i] = chain[i + 1]
    BY <1>1, <1>2
  <2>2. chain[i + 1] # chain[1] /\ chain[1] = Head(chain)
    BY <1>1, <2>1, HeadOfTheChain DEF WaitsOnce
  <2> QED
    BY <2>1, <2>2
<1>4. WaitsOnce'
  <2> SUFFICES ASSUME NEW i \in DOMAIN chain', NEW k \in DOMAIN chain', chain'[i] = chain'[k]
               PROVE  i = k
    BY DEF WaitsOnce
  <2>1. i + 1 = k + 1
    BY <1>3 DEF WaitsOnce
  <2> QED
    BY <1>3, <2>1
<1>5. InChain \subseteq InChain' \cup {Head(chain)}
  <2> SUFFICES ASSUME NEW i \in DOMAIN chain, chain[i] # Head(chain)
               PROVE  chain[i] \in InChain'
    BY DEF InChain
  <2>1. i # 1 /\ i \in 1..Len(chain)
    BY <1>1, HeadOfTheChain
  <2>2. i - 1 \in DOMAIN chain' /\ (i - 1) + 1 = i
    BY <1>1, <1>2, <2>1
  <2> QED
    BY <1>3, <2>2 DEF InChain
<1> QED
  BY <1>2, <1>3, <1>4, <1>5

---------------------------------------------------------------------------
(* The first state. *)

\* Nothing waits, runs or is copied at first.
LEMMA QueueInvInit == PrintInit => QueueInv
<1> SUFFICES ASSUME PrintInit PROVE QueueInv
  OBVIOUS
<1>1. run \in Run
  BY PrintAssumption DEF PrintInit, IdleRun, Run, Stages, Statuses, NoNumber
<1>2. PrintTypeOK
  BY <1>1 DEF PrintInit, PrintTypeOK, Statuses, IdleRun
<1>3. DOMAIN chain = {}
  BY DEF PrintInit
<1>4. WaitsOnce /\ RowsOfTheChain
  BY <1>3 DEF WaitsOnce, RowsOfTheChain
<1>5. PrintingRuns /\ LeftOnlyInTheEnd /\ NotesAreOfTheRun /\ NoCopyIsLeft
  BY DEF PrintInit, PrintingRuns, LeftOnlyInTheEnd, NotesAreOfTheRun, NoCopyIsLeft, IdleRun
<1>6. numbered \in 0..MaxNumbers
  BY PrintAssumption DEF PrintInit
<1> QED
  BY <1>2, <1>4, <1>5, <1>6 DEF QueueInv

---------------------------------------------------------------------------
(* Steps that move the run of one job and touch nothing else of ours. *)

\* The job stays the one whose turn it is, its row fits where the run is now,
\* and only a server that is going will leave it as printing.
LEMMA RunMoves ==
  ASSUME QueueInv, chain # <<>>,
         UNCHANGED <<printer, rows, chain, asked, spool, unlinking, disposed>>,
         run' \in Run, run'.at # "idle", run'.job = Head(chain),
         \/ rows[Head(chain)] \in Waiting /\ run'.at \notin {"handing", "watching", "looking"}
         \/ rows[Head(chain)] = "printing" /\ run'.at \in {"handing", "watching", "looking", "cleaning"},
         run'.outcome = "printing" => disposed,
         viewer' \subseteq Jobs, numbered' \in 0..MaxNumbers,
         windows' \subseteq [number: 1..MaxNumbers, of: Jobs \cup {Other}]
  PROVE  QueueInv'
<1>0. PrintTypeOK /\ chain[1] = Head(chain) /\ (run.at # "idle" => Job = Head(chain))
  BY HeadOfTheChain DEF QueueInv, PrintTypeOK, Job
<1>1. PrintTypeOK'
  BY DEF QueueInv, PrintTypeOK
<1>2. WaitsOnce' /\ NoCopyIsLeft' /\ LeftOnlyInTheEnd'
  BY DEF QueueInv, WaitsOnce, NoCopyIsLeft, InChain, LeftOnlyInTheEnd
<1>3. RowsOfTheChain'
  BY <1>0 DEF QueueInv, RowsOfTheChain, Waiting
<1>4. PrintingRuns' /\ NotesAreOfTheRun'
  BY <1>0 DEF QueueInv, PrintingRuns, NotesAreOfTheRun, Job
<1> QED
  BY <1>1, <1>2, <1>3, <1>4 DEF QueueInv

\* The head of the chain while its run is on.
LEMMA RunOfTheHead ==
  ASSUME QueueInv, run.at # "idle"
  PROVE  /\ chain # <<>> /\ Job = Head(chain) /\ Job \in Jobs /\ Job \in InChain
         /\ run \in Run /\ 1 \in DOMAIN chain /\ chain[1] = Job
         /\ \/ rows[Job] \in Waiting /\ run.at \notin {"handing", "watching", "looking"}
            \/ rows[Job] = "printing" /\ run.at \in {"handing", "watching", "looking", "cleaning"}
<1>1. chain # <<>> /\ Job = Head(chain) /\ run \in Run
  BY DEF QueueInv, PrintTypeOK, Job
<1>2. Head(chain) \in Jobs /\ 1 \in DOMAIN chain /\ chain[1] = Head(chain) /\ Head(chain) \in InChain
  BY <1>1, HeadOfTheChain DEF QueueInv
<1>3. \/ rows[chain[1]] \in Waiting /\ run.at \notin {"handing", "watching", "looking"}
      \/ rows[chain[1]] = "printing" /\ run.at \in {"handing", "watching", "looking", "cleaning"}
  BY <1>2 DEF QueueInv, RowsOfTheChain
<1> QED
  BY <1>1, <1>2, <1>3

\* An idle run has no outcome.
LEMMA InvStart == ASSUME QueueInv, Start PROVE QueueInv'
<1>1. Head(chain) \in Jobs /\ 1 \in DOMAIN chain /\ chain[1] = Head(chain)
  BY HeadOfTheChain DEF Start, QueueInv
<1>2. /\ run' \in Run /\ run'.at \in {"copying", "dropping"} /\ run'.job = Head(chain)
      /\ run'.outcome = run.outcome
  BY <1>1 DEF Start, QueueInv, PrintTypeOK, Run, Stages
<1>3. rows[Head(chain)] \in Waiting
  BY <1>1 DEF Start, QueueInv, RowsOfTheChain
<1> QED
  BY <1>2, <1>3, RunMoves DEF Start, Outside, QueueInv, PrintTypeOK, LeftOnlyInTheEnd

\* What Windows can do is found out, or it is not and the job fails.
LEMMA InvCheck == ASSUME QueueInv, Check PROVE QueueInv'
<1>1. run.at # "idle" /\ rows[Job] \in Waiting
  BY RunOfTheHead DEF Check
<1>2. /\ run' \in Run /\ run'.at \in {"listing", "cleaning"} /\ run'.job = Job
      /\ run'.outcome \in {run.outcome, "error"}
  BY <1>1, RunOfTheHead DEF Check, Run, Stages, Job, Statuses
<1> QED
  BY <1>1, <1>2, RunOfTheHead, RunMoves DEF Check, Outside, QueueInv, PrintTypeOK, LeftOnlyInTheEnd

\* The submission ends.
LEMMA InvSubmit == ASSUME QueueInv, Submit PROVE QueueInv'
<1>1. run.at = "handing" /\ rows[Job] = "printing"
  BY RunOfTheHead DEF Submit, Waiting
<1>2. /\ run' \in Run /\ run'.at = "handing" /\ run'.job = Job
      /\ run'.outcome = run.outcome
  BY <1>1, RunOfTheHead DEF Submit, Run, Stages, Job, Statuses
<1>3. viewer' \subseteq Jobs
  BY <1>1, RunOfTheHead DEF Submit, QueueInv, PrintTypeOK
<1> QED
  BY <1>1, <1>2, <1>3, RunOfTheHead, RunMoves DEF Submit, QueueInv, PrintTypeOK, LeftOnlyInTheEnd

\* A look for the number finds one of Windows, or is counted.
LEMMA InvDiscover == ASSUME QueueInv, Discover PROVE QueueInv'
<1>1. run.at = "handing" /\ rows[Job] = "printing" /\ run \in Run
  BY RunOfTheHead DEF Discover, Waiting
<1>2. Fresh \subseteq 1..MaxNumbers
  BY DEF Fresh, Numbers, QueueInv, PrintTypeOK
<1>3. run' \in Run /\ run'.at = "handing" /\ run'.job = Job /\ run'.outcome = run.outcome
  <2>1. CASE \E n \in Fresh : run' = [run EXCEPT !.found = TRUE, !.number = n]
    <3>1. PICK n \in Fresh : run' = [run EXCEPT !.found = TRUE, !.number = n]
      BY <2>1, Zenon
    <3>2. n \in 0..MaxNumbers
      BY <1>2
    <3> QED
      BY <1>1, <3>1, <3>2 DEF Run, Job
  <2>2. CASE run' = [run EXCEPT !.looks = @ + 1, !.found = run.looks + 1 >= Attempts]
    <3>1. PICK b \in BOOLEAN : b = (run.looks + 1 >= Attempts)
      <4>1. (run.looks + 1 >= Attempts) \in BOOLEAN
        OBVIOUS
      <4> QED
        BY <4>1, Zenon
    <3>2. PICK n \in Nat : n = run.looks + 1
      BY <1>1 DEF Run
    <3>3. run' = [run EXCEPT !.looks = n, !.found = b]
      BY <2>2, <3>1, <3>2, Zenon
    <3> QED
      BY <1>1, <3>3 DEF Run, Job
  <2> QED
    BY <2>1, <2>2 DEF Discover
<1> QED
  BY <1>1, <1>3, RunOfTheHead, RunMoves
  DEF Discover, Outside, QueueInv, PrintTypeOK, LeftOnlyInTheEnd

\* What was handed over and found is watched, the rest is over.
LEMMA InvHanded == ASSUME QueueInv, Handed PROVE QueueInv'
<1>1. run.at = "handing" /\ rows[Job] = "printing" /\ run \in Run /\ Job \in Jobs
  BY RunOfTheHead DEF Handed, Waiting
<1>2. PICK at \in {"cleaning", "watching"}, outcome \in {"error", "done", "none"} :
        run' = [IdleRun EXCEPT !.job = Job, !.number = run.number, !.at = at, !.outcome = outcome]
  BY DEF Handed
<1>3. run' \in Run /\ run'.at = at /\ run'.job = Job /\ run'.outcome = outcome
  BY <1>1, <1>2 DEF IdleRun, Run, Stages, Statuses
<1> QED
  BY <1>1, <1>3, RunOfTheHead, RunMoves DEF Handed, Outside, QueueInv, PrintTypeOK

\* A watch that ends settles with an outcome, and as printing only at the end
\* of the server.
LEMMA SettleMoves ==
  ASSUME QueueInv, run.at \in {"watching", "looking"}, NEW s \in Statuses, Settle(s),
         s = "printing" => disposed,
         UNCHANGED <<printer, unlinking, disposed, viewer, numbered>>, windows' \subseteq windows
  PROVE  QueueInv'
<1>1. rows[Job] = "printing" /\ Job \in Jobs
  BY RunOfTheHead DEF Waiting
<1>2. run' \in Run /\ run'.at = "cleaning" /\ run'.job = Job /\ run'.outcome = s
  <2>1. run' = [at |-> "cleaning", job |-> Job, helper |-> FALSE, handed |-> "no",
                before |-> {}, looks |-> 0, found |-> FALSE, number |-> 0,
                unread |-> 0, outcome |-> s]
    BY DEF Settle, IdleRun, NoNumber
  <2> QED
    BY <1>1, <2>1, PrintAssumption DEF Run, Stages
<1>3. viewer' \subseteq Jobs /\ numbered' \in 0..MaxNumbers
  BY DEF QueueInv, PrintTypeOK
<1>4. windows' \subseteq [number: 1..MaxNumbers, of: Jobs \cup {Other}]
  BY Zenon DEF QueueInv, PrintTypeOK
<1> QED
  BY <1>1, <1>2, <1>3, <1>4, RunOfTheHead, RunMoves DEF Settle

\* Looks that could not read are counted in a watch that goes on.
LEMMA UnreadMoves ==
  ASSUME QueueInv, run.at = "looking", NEW n \in Nat, Waits(n), Outside
  PROVE  QueueInv'
<1>1. rows[Job] = "printing" /\ run \in Run
  BY RunOfTheHead DEF Waiting
<1>2. run' \in Run /\ run'.at = "watching" /\ run'.job = Job /\ run'.outcome = run.outcome
  BY <1>1 DEF Waits, Run, Job, Stages
<1> QED
  BY <1>1, <1>2, RunOfTheHead, RunMoves DEF Waits, Outside, QueueInv, PrintTypeOK, LeftOnlyInTheEnd

\* A look begins.
LEMMA InvLookBegins == ASSUME QueueInv, LookBegins PROVE QueueInv'
<1>1. run.at = "watching" /\ rows[Job] = "printing" /\ run \in Run
  BY RunOfTheHead DEF LookBegins, Waiting
<1>2. run' \in Run /\ run'.at = "looking" /\ run'.job = Job /\ run'.outcome = run.outcome
  BY <1>1 DEF LookBegins, Steps, At, Run, Job, Stages
<1> QED
  BY <1>1, <1>2, RunOfTheHead, RunMoves
  DEF LookBegins, Steps, Outside, QueueInv, PrintTypeOK, LeftOnlyInTheEnd

\* Every way a watch can go on or end.
LEMMA InvWatch ==
  ASSUME QueueInv, DropsNumber \/ Look \/ LookFails \/ TimesOut
  PROVE  QueueInv'
<1>1. run.at \in {"watching", "looking"} /\ run \in Run /\ run.unread \in Nat
  BY RunOfTheHead DEF DropsNumber, Look, LookFails, TimesOut, Run
<1>2. CASE DropsNumber
  BY <1>1, <1>2, SettleMoves DEF DropsNumber, Statuses
<1>3. CASE Look
  BY <1>1, <1>3, SettleMoves, UnreadMoves DEF Look, Outside, Statuses
<1>4. CASE LookFails
  <2>1. CASE Settle("error") \/ (disposed /\ Settle("printing"))
    BY <1>1, <1>4, <2>1, SettleMoves DEF LookFails, Outside, Statuses
  <2>2. CASE Waits(run.unread + 1)
    BY <1>1, <1>4, <2>2, UnreadMoves DEF LookFails
  <2> QED
    BY <1>4, <2>1, <2>2 DEF LookFails
<1>5. CASE TimesOut
  BY <1>1, <1>5, SettleMoves DEF TimesOut, Outside, Statuses
<1> QED
  BY <1>2, <1>3, <1>4, <1>5

---------------------------------------------------------------------------
(* Steps of the run that change more. *)

\* A copy is made for a job that is still in the chain.
LEMMA InvCopy == ASSUME QueueInv, Copy PROVE QueueInv'
<1>1. /\ rows[Job] \in Waiting /\ run \in Run /\ Job \in Jobs /\ Job \in InChain
      /\ chain # <<>> /\ Job = Head(chain) /\ chain[1] = Job
  BY RunOfTheHead DEF Copy
<1>2. /\ run' \in Run /\ run'.at \in {"checking", "cleaning"} /\ run'.job = Job
      /\ run'.outcome \in {run.outcome, "error"} /\ run.at = "copying"
      /\ spool' \subseteq spool \cup {Job}
  BY <1>1 DEF Copy, At, Run, Stages, Job, Statuses
<1>3. PrintTypeOK'
  BY <1>1, <1>2 DEF Copy, Outside, QueueInv, PrintTypeOK
<1>4. WaitsOnce' /\ RowsOfTheChain' /\ LeftOnlyInTheEnd' /\ numbered' \in 0..MaxNumbers
  BY <1>1, <1>2 DEF Copy, Outside, QueueInv, WaitsOnce, RowsOfTheChain, LeftOnlyInTheEnd
<1>5. PrintingRuns' /\ NotesAreOfTheRun'
  BY <1>1, <1>2 DEF Copy, Outside, QueueInv, PrintingRuns, NotesAreOfTheRun, Job
<1>6. NoCopyIsLeft'
  <2>1. InChain' = InChain /\ rows' = rows /\ unlinking' = unlinking
    BY DEF Copy, Outside, InChain
  <2> QED
    BY <1>1, <1>2, <2>1 DEF QueueInv, NoCopyIsLeft, Waiting, Alive
<1> QED
  BY <1>3, <1>4, <1>5, <1>6 DEF QueueInv

\* The job is printing from here on, also one that was cancelled meanwhile.
LEMMA InvListBefore == ASSUME QueueInv, ListBefore PROVE QueueInv'
<1>1. /\ rows[Job] \in Waiting /\ run \in Run /\ Job \in Jobs /\ Job \in InChain
      /\ chain # <<>> /\ Job = Head(chain) /\ chain[1] = Job
  BY RunOfTheHead DEF ListBefore
<1>2. Numbers \subseteq 1..MaxNumbers
  BY DEF Numbers, QueueInv, PrintTypeOK
<1>3. /\ run' \in Run /\ run'.at = "handing" /\ run'.job = Job
      /\ run'.outcome = run.outcome /\ run.at = "listing"
  <2>1. PICK seen \in SUBSET (1..MaxNumbers) :
           run' = [run EXCEPT !.at = "handing", !.before = seen, !.handed = "busy"]
    BY <1>2 DEF ListBefore
  <2> QED
    BY <1>1, <2>1 DEF ListBefore, Run, Stages, Job
<1>4. rows \in [Jobs -> Statuses] /\ rows' = [rows EXCEPT ![Job] = "printing"]
  BY DEF ListBefore, Transition, QueueInv, PrintTypeOK
<1>5. PrintTypeOK'
  BY <1>1, <1>3, <1>4 DEF ListBefore, Outside, QueueInv, PrintTypeOK, Statuses
<1>6. WaitsOnce' /\ LeftOnlyInTheEnd' /\ numbered' \in 0..MaxNumbers
  BY <1>3 DEF ListBefore, Outside, QueueInv, WaitsOnce, LeftOnlyInTheEnd
<1>7. RowsOfTheChain'
  <2> SUFFICES ASSUME NEW i \in DOMAIN chain
               PROVE  \/ rows'[chain[i]] \in Waiting /\ i # 1
                      \/ i = 1 /\ rows'[chain[i]] = "printing"
    BY <1>3 DEF ListBefore, RowsOfTheChain
  <2>1. CASE i = 1
    BY <1>1, <1>4, <2>1
  <2>2. CASE i # 1
    <3>1. chain[i] # Job /\ chain[i] \in Jobs
      BY <1>1, <2>2, HeadOfTheChain DEF QueueInv, WaitsOnce, PrintTypeOK
    <3> QED
      BY <1>4, <2>2, <3>1 DEF QueueInv, RowsOfTheChain
  <2> QED
    BY <2>1, <2>2
<1>8. PrintingRuns' /\ NotesAreOfTheRun'
  BY <1>1, <1>3, <1>4 DEF ListBefore, Outside, QueueInv, PrintingRuns, NotesAreOfTheRun, Job
<1>9. NoCopyIsLeft'
  BY <1>1, <1>4 DEF ListBefore, Outside, QueueInv, NoCopyIsLeft, InChain, Alive, PrintTypeOK
<1> QED
  BY <1>5, <1>6, <1>7, <1>8, <1>9 DEF QueueInv

\* The end of a turn: the copy of the job is gone and nobody waits for it.
LEMMA TurnOver ==
  ASSUME QueueInv, chain # <<>>, NEW j, j = Head(chain), Over,
         rows' \in [Jobs -> Statuses], \A o \in Jobs \ {j} : rows'[o] = rows[o],
         rows'[j] = "printing" => disposed,
         asked' \subseteq asked, j \in asked' => disposed /\ rows'[j] = "printing",
         spool' \subseteq spool, j \notin spool',
         Outside
  PROVE  QueueInv'
<1>1. j \in Jobs /\ chain[1] = j /\ (run.at # "idle" => Job = j)
  BY HeadOfTheChain DEF QueueInv, PrintTypeOK, Job
<1>2. run' \in Run /\ run'.at = "idle" /\ run'.outcome = "none"
  BY PrintAssumption DEF Over, IdleRun, Run, Stages, Statuses, NoNumber
<1>3. /\ chain' \in Seq(Jobs) /\ WaitsOnce'
      /\ \A i \in DOMAIN chain' : /\ i + 1 \in DOMAIN chain /\ i + 1 # 1
                                  /\ chain'[i] = chain[i + 1] /\ chain'[i] # j
      /\ InChain \subseteq InChain' \cup {j}
  BY TailOfTheChain DEF Over, QueueInv
<1>4. PrintTypeOK'
  BY <1>2, <1>3 DEF Outside, QueueInv, PrintTypeOK
<1>5. RowsOfTheChain'
  <2> SUFFICES ASSUME NEW i \in DOMAIN chain' PROVE rows'[chain'[i]] \in Waiting
    BY <1>2 DEF RowsOfTheChain
  <2>1. chain'[i] \in Jobs \ {j} /\ rows[chain'[i]] \in Waiting
    BY <1>3 DEF QueueInv, RowsOfTheChain
  <2> QED
    BY <2>1
<1>6. PrintingRuns' /\ NotesAreOfTheRun' /\ LeftOnlyInTheEnd'
  BY <1>1, <1>2 DEF Outside, QueueInv, PrintTypeOK, PrintingRuns, NotesAreOfTheRun, LeftOnlyInTheEnd
<1>7. NoCopyIsLeft'
  BY <1>1, <1>3, ZenonT(30) DEF Outside, QueueInv, PrintTypeOK, NoCopyIsLeft
<1> QED
  BY <1>3, <1>4, <1>5, <1>6, <1>7 DEF QueueInv, Outside

\* A job that is not wanted any more loses its copy and its turn.
LEMMA InvDrop == ASSUME QueueInv, Drop PROVE QueueInv'
<1>1. rows[Job] \in Waiting /\ chain # <<>> /\ Job = Head(chain)
  BY RunOfTheHead DEF Drop
<1>2. Job \in asked => FALSE
  BY <1>1 DEF QueueInv, NotesAreOfTheRun, Waiting
<1>3. rows' \in [Jobs -> Statuses] /\ rows' = rows /\ asked' = asked
  BY DEF Drop, QueueInv, PrintTypeOK
<1>4. spool' \subseteq spool /\ Job \notin spool' /\ Over /\ Outside
  BY DEF Drop
<1> QED
  BY <1>1, <1>2, <1>3, <1>4, TurnOver DEF Waiting

\* The copy goes.
LEMMA InvCleanUp == ASSUME QueueInv, CleanUp PROVE QueueInv'
<1>1. InChain' = InChain
  BY DEF CleanUp, InChain
<1> QED
  BY <1>1
  DEF CleanUp, Outside, QueueInv, PrintTypeOK, WaitsOnce, RowsOfTheChain, PrintingRuns,
      LeftOnlyInTheEnd, NotesAreOfTheRun, NoCopyIsLeft, Job

\* The end is told, and the next job has its turn.
LEMMA InvSettled == ASSUME QueueInv, Settled PROVE QueueInv'
<1>1. chain # <<>> /\ Job = Head(chain) /\ Job \in Jobs /\ run.outcome \in Statuses
  BY RunOfTheHead DEF Settled, Run
<1>2. rows' = [rows EXCEPT ![Job] = run.outcome] /\ asked' = asked \ {Job}
  BY DEF Settled, FinishJob, Transition
<1>3. rows' \in [Jobs -> Statuses] /\ (\A o \in Jobs \ {Job} : rows'[o] = rows[o])
      /\ rows'[Job] = run.outcome
  BY <1>1, <1>2 DEF QueueInv, PrintTypeOK
<1>4. spool' = spool /\ Job \notin spool' /\ Over /\ Outside
  BY DEF Settled
<1>5. rows'[Job] = "printing" => disposed
  BY <1>3 DEF QueueInv, LeftOnlyInTheEnd
<1> QED
  BY <1>1, <1>2, <1>3, <1>4, <1>5, TurnOver

---------------------------------------------------------------------------
(* Steps of the devices, the operator, the server and Windows. *)

\* Steps that leave the jobs alone.
LEMMA QueueAround ==
  ASSUME QueueInv, UNCHANGED <<rows, chain, asked, run, unlinking>>,
         printer' \in {"absent", "shown", "hidden"}, spool' \subseteq spool,
         disposed => disposed', viewer' \subseteq Jobs, numbered' \in 0..MaxNumbers,
         windows' \subseteq [number: 1..MaxNumbers, of: Jobs \cup {Other}]
  PROVE  QueueInv'
<1>1. InChain' = InChain
  BY DEF InChain
<1>2. PrintTypeOK'
  BY DEF QueueInv, PrintTypeOK
<1>3. WaitsOnce' /\ RowsOfTheChain' /\ NoCopyIsLeft'
  BY <1>1 DEF QueueInv, WaitsOnce, RowsOfTheChain, NoCopyIsLeft
<1>4. PrintingRuns' /\ LeftOnlyInTheEnd' /\ NotesAreOfTheRun'
  BY DEF QueueInv, PrintingRuns, LeftOnlyInTheEnd, NotesAreOfTheRun, Job
<1> QED
  BY <1>2, <1>3, <1>4 DEF QueueInv

\* The table of printers.
LEMMA InvPrinters ==
  ASSUME QueueInv, SyncPrinters \/ \E p \in {"shown", "hidden"} : SetPrinterEnabled(p)
  PROVE  QueueInv'
BY QueueAround DEF SyncPrinters, SetPrinterEnabled, QueueInv, PrintTypeOK

\* The server is going.
LEMMA InvDispose == ASSUME QueueInv, DisposeQueue PROVE QueueInv'
BY QueueAround DEF DisposeQueue, QueueInv, PrintTypeOK

\* A document of Windows comes or goes.
LEMMA InvWindows ==
  ASSUME QueueInv, \/ \E o \in Jobs \cup {Other} : Numbered(o)
               \/ \E w \in windows : Leaves(w)
  PROVE  QueueInv'
<1>1. viewer' \subseteq Jobs /\ printer' \in {"absent", "shown", "hidden"}
  BY DEF Numbered, Leaves, QueueInv, PrintTypeOK, ours
<1>2. numbered' \in 0..MaxNumbers
  BY PrintAssumption DEF Numbered, Leaves, QueueInv
<1>3. windows' \subseteq [number: 1..MaxNumbers, of: Jobs \cup {Other}]
  <2>1. ASSUME NEW o \in Jobs \cup {Other}, Numbered(o)
        PROVE  windows' \subseteq [number: 1..MaxNumbers, of: Jobs \cup {Other}]
    <3>1. numbered + 1 \in 1..MaxNumbers
      BY <2>1, PrintAssumption DEF Numbered, QueueInv
    <3> QED
      BY <2>1, <3>1 DEF Numbered, QueueInv, PrintTypeOK
  <2> QED
    BY <2>1 DEF Leaves, QueueInv, PrintTypeOK
<1> QED
  BY <1>1, <1>2, <1>3, QueueAround DEF Numbered, Leaves, ours

\* A job that did not wait gets a row that says so.
LEMMA InvAccept == ASSUME QueueInv, NEW j \in Jobs, Accept(j) PROVE QueueInv'
<1>1. /\ rows[j] = "none" /\ rows \in [Jobs -> Statuses]
      /\ rows' = [rows EXCEPT ![j] = "resolving"]
  BY DEF Accept, QueueInv, PrintTypeOK
<1>2. PrintTypeOK'
  BY <1>1 DEF Accept, QueueInv, PrintTypeOK, Statuses
<1>3. RowsOfTheChain'
  BY <1>1 DEF Accept, QueueInv, RowsOfTheChain, Waiting, PrintTypeOK
<1>4. InChain' = InChain
  BY DEF Accept, InChain
<1>5. NoCopyIsLeft' /\ NotesAreOfTheRun' /\ PrintingRuns'
  BY <1>1, <1>4
  DEF Accept, QueueInv, NoCopyIsLeft, NotesAreOfTheRun, PrintingRuns, Job, Alive, PrintTypeOK
<1> QED
  BY <1>2, <1>3, <1>5 DEF Accept, QueueInv, WaitsOnce, LeftOnlyInTheEnd

\* It waits from here on.
LEMMA InvEnqueue == ASSUME QueueInv, NEW j \in Jobs, EnqueueJob(j) PROVE QueueInv'
<1>1. /\ rows[j] = "resolving" /\ rows \in [Jobs -> Statuses]
      /\ rows' = [rows EXCEPT ![j] = "queued"]
  BY DEF EnqueueJob, QueueInv, PrintTypeOK
<1>2. /\ chain \in Seq(Jobs) /\ chain' = Append(chain, j) /\ chain' \in Seq(Jobs)
      /\ DOMAIN chain = 1..Len(chain) /\ DOMAIN chain' = 1..(Len(chain) + 1)
      /\ \A i \in DOMAIN chain : i \in DOMAIN chain' /\ chain'[i] = chain[i]
      /\ chain'[Len(chain) + 1] = j /\ Len(chain) \in Nat
  BY DEF EnqueueJob, QueueInv, PrintTypeOK
<1>3. \A i \in DOMAIN chain : chain[i] \in Jobs /\ chain[i] # j
  BY <1>1, <1>2 DEF QueueInv, RowsOfTheChain, Waiting
<1>4. chain # <<>> => chain' # <<>> /\ Head(chain') = Head(chain)
  BY <1>2
<1>5. PrintTypeOK'
  BY <1>1, <1>2, <1>4 DEF EnqueueJob, QueueInv, PrintTypeOK, Statuses
<1>6. WaitsOnce'
  BY <1>2, <1>3 DEF QueueInv, WaitsOnce
<1>7. RowsOfTheChain'
  <2> SUFFICES ASSUME NEW i \in DOMAIN chain'
               PROVE  \/ rows'[chain'[i]] \in Waiting /\ (i = 1 => run.at \notin {"handing", "watching", "looking"})
                      \/ /\ i = 1 /\ rows'[chain'[i]] = "printing"
                         /\ run.at \in {"handing", "watching", "looking", "cleaning"}
    BY DEF EnqueueJob, RowsOfTheChain
  <2>1. CASE i \in DOMAIN chain
    BY <1>1, <1>2, <1>3, <2>1 DEF QueueInv, RowsOfTheChain
  <2>2. CASE i \notin DOMAIN chain
    <3>1. i = Len(chain) + 1 /\ rows'[chain'[i]] = "queued"
      BY <1>1, <1>2, <2>2
    <3>2. i = 1 => run.at = "idle"
      BY <1>2, <3>1 DEF QueueInv, PrintTypeOK
    <3> QED
      BY <3>1, <3>2 DEF Waiting
  <2> QED
    BY <2>1, <2>2
<1>8. PrintingRuns' /\ NotesAreOfTheRun' /\ LeftOnlyInTheEnd'
  BY <1>1 DEF EnqueueJob, QueueInv, PrintingRuns, NotesAreOfTheRun, LeftOnlyInTheEnd, Job, PrintTypeOK
<1>9. NoCopyIsLeft'
  <2>1. InChain \subseteq InChain'
    BY <1>2 DEF InChain
  <2> QED
    BY <1>1, <2>1 DEF EnqueueJob, QueueInv, NoCopyIsLeft, Alive, PrintTypeOK
<1> QED
  BY <1>5, <1>6, <1>7, <1>8, <1>9 DEF EnqueueJob, QueueInv

\* What is queued is cancelled, and of what is printing it is noted.
LEMMA InvCancel == ASSUME QueueInv, NEW j \in Jobs, CancelJob(j) PROVE QueueInv'
<1>0. rows \in [Jobs -> Statuses] /\ InChain' = InChain
  BY DEF CancelJob, QueueInv, PrintTypeOK, InChain
<1>1. CASE rows[j] = "queued"
  <2>1. /\ rows' = [rows EXCEPT ![j] = "cancelled"] /\ asked' = asked \ {j}
        /\ unlinking' = unlinking \cup {j}
    BY <1>1 DEF CancelJob, FinishJob, Transition
  <2>2. PrintTypeOK'
    BY <1>0, <2>1 DEF CancelJob, QueueInv, PrintTypeOK, Statuses
  <2>3. RowsOfTheChain'
    BY <1>0, <1>1, <2>1 DEF CancelJob, QueueInv, RowsOfTheChain, Waiting
  <2>4. PrintingRuns' /\ NotesAreOfTheRun' /\ NoCopyIsLeft'
    BY <1>0, <1>1, <2>1
    DEF CancelJob, QueueInv, PrintTypeOK, PrintingRuns, NotesAreOfTheRun, NoCopyIsLeft, Job, Alive
  <2> QED
    BY <2>2, <2>3, <2>4 DEF CancelJob, QueueInv, WaitsOnce, LeftOnlyInTheEnd
<1>2. CASE rows[j] = "printing" /\ asked' = asked \cup {j} /\ UNCHANGED <<rows, unlinking>>
  <2>1. PrintTypeOK'
    BY <1>2 DEF CancelJob, QueueInv, PrintTypeOK
  <2>2. RowsOfTheChain' /\ PrintingRuns' /\ NotesAreOfTheRun' /\ NoCopyIsLeft'
    BY <1>0, <1>2
    DEF CancelJob, QueueInv, RowsOfTheChain, PrintingRuns, NotesAreOfTheRun, NoCopyIsLeft, Job
  <2> QED
    BY <2>1, <2>2 DEF CancelJob, QueueInv, WaitsOnce, LeftOnlyInTheEnd
<1> QED
  BY <1>1, <1>2 DEF CancelJob

\* A copy is removed together with the promise to remove it.
LEMMA InvUnlinks == ASSUME QueueInv, NEW j \in Jobs, Unlinks(j) PROVE QueueInv'
<1>1. InChain' = InChain
  BY DEF Unlinks, InChain
<1> QED
  BY <1>1
  DEF Unlinks, QueueInv, PrintTypeOK, WaitsOnce, RowsOfTheChain, PrintingRuns,
      LeftOnlyInTheEnd, NotesAreOfTheRun, NoCopyIsLeft, Job

\* The next start closes what was open.
LEMMA InvRestart == ASSUME QueueInv, RestartQueue PROVE QueueInv'
<1>1. run' \in Run /\ run'.at = "idle" /\ run'.outcome = "none"
  BY PrintAssumption DEF RestartQueue, IdleRun, Run, Stages, Statuses, NoNumber
<1>2. /\ rows' \in [Jobs -> Statuses]
      /\ \A j \in Jobs : rows'[j] # "printing"
  BY DEF RestartQueue, QueueInv, PrintTypeOK, Statuses, Alive
<1>3. DOMAIN chain' = {} /\ chain' \in Seq(Jobs)
  BY DEF RestartQueue
<1>4. PrintTypeOK'
  BY <1>1, <1>2, <1>3 DEF RestartQueue, QueueInv, PrintTypeOK
<1>5. WaitsOnce' /\ RowsOfTheChain'
  BY <1>3 DEF WaitsOnce, RowsOfTheChain
<1>6. PrintingRuns' /\ NotesAreOfTheRun' /\ NoCopyIsLeft' /\ LeftOnlyInTheEnd'
  BY <1>1, <1>2 DEF RestartQueue, PrintingRuns, NotesAreOfTheRun, NoCopyIsLeft, LeftOnlyInTheEnd
<1> QED
  BY <1>4, <1>5, <1>6 DEF RestartQueue, QueueInv

---------------------------------------------------------------------------
(* All steps. *)

\* Every step keeps the invariant.
LEMMA QueueInvNext == QueueInv /\ [PrintNext]_printVars => QueueInv'
<1> SUFFICES ASSUME QueueInv, [PrintNext]_printVars PROVE QueueInv'
  OBVIOUS
<1>1. CASE SyncPrinters \/ \E p \in {"shown", "hidden"} : SetPrinterEnabled(p)
  BY <1>1, InvPrinters
<1>2. ASSUME NEW j \in Jobs, Accept(j) \/ EnqueueJob(j) \/ CancelJob(j) \/ Unlinks(j)
      PROVE  QueueInv'
  BY <1>2, InvAccept, InvEnqueue, InvCancel, InvUnlinks
<1>3. CASE RunNext
  BY <1>3, InvStart, InvDrop, InvCopy, InvCheck, InvListBefore, InvSubmit, InvDiscover,
     InvHanded, InvLookBegins, InvWatch, InvCleanUp, InvSettled
  DEF RunNext
<1>4. CASE DisposeQueue \/ RestartQueue
  BY <1>4, InvDispose, InvRestart
<1>5. CASE (\E o \in Jobs \cup {Other} : Numbered(o)) \/ (\E w \in windows : Leaves(w))
  BY <1>5, InvWindows
<1>6. CASE UNCHANGED printVars
  <2>1. /\ UNCHANGED <<printer, rows, chain, asked, run, spool, unlinking, disposed>>
        /\ UNCHANGED <<viewer, windows, numbered>>
    BY <1>6 DEF printVars, ours
  <2> QED
    BY <2>1, QueueAround DEF QueueInv, PrintTypeOK
<1> QED
  BY <1>1, <1>2, <1>3, <1>4, <1>5, <1>6 DEF PrintNext

\* A finished job leaves nothing behind: no note that it is to be cancelled outlives
\* the run it is for, acted on or not, and no copy of its document is left that
\* nobody removes (run() forgets and cleans up on every way out, and so does
\* cancel()).
THEOREM NothingIsLeft == PrintSpec => []JobsLeaveNothing
<1>1. QueueInv => JobsLeaveNothing
  BY DEF QueueInv, JobsLeaveNothing
<1> QED
  BY <1>1, QueueInvInit, QueueInvNext, PTL DEF PrintSpec

\* No step changes the row of a finished job: it is in no chain, cancel()
\* refuses it and a restart closes only what is open.
LEMMA FinishedStep ==
  ASSUME QueueInv, [PrintNext]_printVars, NEW j \in Jobs, rows[j] \in Final
  PROVE  rows'[j] = rows[j]
<1>0. rows \in [Jobs -> Statuses]
  BY DEF QueueInv, PrintTypeOK
<1>1. ASSUME run.at # "idle", NEW s, rows' = [rows EXCEPT ![Job] = s]
      PROVE  rows'[j] = rows[j]
  <2>1. Job # j
    BY <1>1, RunOfTheHead DEF Final, Waiting
  <2> QED
    BY <1>0, <1>1, <2>1
<1>2. CASE RunNext
  <2>1. CASE ListBefore
    BY <1>1, <2>1 DEF ListBefore, Transition
  <2>2. CASE Settled
    BY <1>1, <2>2 DEF Settled, FinishJob, Transition
  <2>3. CASE ~ListBefore /\ ~Settled
    BY <1>2, <2>3
    DEF RunNext, Start, Drop, Copy, Check, Submit, Discover, Handed, DropsNumber, LookBegins,
        Steps, Look, LookFails, Waits, TimesOut, CleanUp, Settle
  <2> QED
    BY <2>1, <2>2, <2>3
<1>3. ASSUME NEW k \in Jobs, Accept(k) \/ EnqueueJob(k) \/ CancelJob(k) \/ Unlinks(k)
      PROVE  rows'[j] = rows[j]
  BY <1>0, <1>3 DEF Accept, EnqueueJob, CancelJob, FinishJob, Transition, Unlinks, Final
<1>4. CASE RestartQueue
  BY <1>0, <1>4 DEF RestartQueue, Final, Alive
<1>5. CASE \/ SyncPrinters \/ (\E p \in {"shown", "hidden"} : SetPrinterEnabled(p)) \/ DisposeQueue
           \/ (\E o \in Jobs \cup {Other} : Numbered(o)) \/ (\E w \in windows : Leaves(w))
           \/ UNCHANGED printVars
  BY <1>5 DEF SyncPrinters, SetPrinterEnabled, DisposeQueue, Numbered, Leaves, printVars, ours
<1> QED
  BY <1>2, <1>3, <1>4, <1>5 DEF PrintNext

\* A job that was withdrawn while it waited is not taken up: run() looks at its row
\* when its turn comes, and a step of another job's run does not reach it.
LEMMA WithdrawnStep ==
  ASSUME QueueInv, [PrintNext]_printVars, NEW j \in Jobs, Withdrawn(j)
  PROVE  Withdrawn(j)'
<1>0. /\ rows \in [Jobs -> Statuses] /\ rows[j] = "cancelled" /\ NoJob # j
      /\ Job = j => run.at \in {"idle", "dropping"}
  BY PrintAssumption DEF QueueInv, PrintTypeOK, Withdrawn
<1>1. CASE RunNext
  <2>1. CASE Start
    BY <1>0, <2>1 DEF Start, Withdrawn, Job, QueueInv, PrintTypeOK, Run
  <2>2. CASE Drop
    BY <1>0, <2>2 DEF Drop, Over, IdleRun, Withdrawn, Job
  <2>3. CASE ~Start /\ ~Drop
    <3>1. run.at \notin {"idle", "dropping"} /\ run \in Run
      BY <1>1, <2>3
      DEF RunNext, Copy, Check, ListBefore, Submit, Discover, Handed, DropsNumber, LookBegins,
          Look, LookFails, TimesOut, CleanUp, Settled, QueueInv, PrintTypeOK
    <3>2. Job # j
      BY <1>0, <3>1
    <3>3. rows'[j] = rows[j]
      <4>1. CASE ListBefore
        BY <1>0, <3>2, <4>1 DEF ListBefore, Transition
      <4>2. CASE Settled
        BY <1>0, <3>2, <4>2 DEF Settled, FinishJob, Transition
      <4>3. CASE ~ListBefore /\ ~Settled
        BY <1>1, <2>3, <4>3
        DEF RunNext, Copy, Check, Submit, Discover, Handed, DropsNumber, LookBegins,
            Steps, Look, LookFails, Waits, TimesOut, CleanUp, Settle
      <4> QED
        BY <4>1, <4>2, <4>3
    <3>4. run'.job \in {run.job, NoJob}
      <4>1. CASE Copy \/ Check \/ ListBefore \/ Submit \/ Discover \/ LookBegins \/ CleanUp
        BY <3>1, <4>1
        DEF Copy, At, Check, ListBefore, Submit, Discover, LookBegins, Steps, CleanUp, Run
      <4>2. CASE Handed
        <5>1. PICK at \in {"cleaning", "watching"}, outcome \in {"error", "done", "none"} :
                run' = [IdleRun EXCEPT !.job = Job, !.number = run.number, !.at = at, !.outcome = outcome]
          BY <4>2 DEF Handed
        <5> QED
          BY <5>1 DEF IdleRun, Job
      <4>4. CASE DropsNumber \/ TimesOut
        BY <4>4 DEF DropsNumber, TimesOut, Settle, IdleRun, Job
      <4>5. CASE Settled
        BY <4>5 DEF Settled, Over, IdleRun
      <4>3. CASE Look \/ LookFails
        <5>1. (\E s \in Statuses : Settle(s)) \/ (\E n : Waits(n))
          BY <4>3 DEF Look, LookFails, Statuses
        <5> QED
          BY <3>1, <5>1 DEF Settle, Waits, IdleRun, Job, Run
      <4> QED
        BY <1>1, <2>3, <4>1, <4>2, <4>3, <4>4, <4>5 DEF RunNext
    <3> QED
      BY <1>0, <3>2, <3>3, <3>4 DEF Withdrawn, Job
  <2> QED
    BY <2>1, <2>2, <2>3
<1>2. ASSUME NEW k \in Jobs, Accept(k) \/ EnqueueJob(k) \/ CancelJob(k) \/ Unlinks(k)
      PROVE  Withdrawn(j)'
  BY <1>0, <1>2 DEF Accept, EnqueueJob, CancelJob, FinishJob, Transition, Unlinks, Withdrawn, Job
<1>3. CASE RestartQueue
  BY <1>0, <1>3 DEF RestartQueue, Alive, IdleRun, Withdrawn, Job
<1>4. CASE \/ SyncPrinters \/ (\E p \in {"shown", "hidden"} : SetPrinterEnabled(p)) \/ DisposeQueue
           \/ (\E o \in Jobs \cup {Other} : Numbered(o)) \/ (\E w \in windows : Leaves(w))
           \/ UNCHANGED printVars
  BY <1>0, <1>4
  DEF SyncPrinters, SetPrinterEnabled, DisposeQueue, Numbered, Leaves, printVars, ours, Withdrawn, Job
<1> QED
  BY <1>1, <1>2, <1>3, <1>4 DEF PrintNext

\* A job that has printed or failed stays what it is, through cancellations,
\* late steps of its own run and restarts; one that was cancelled while it waited
\* stays so when its turn comes.
THEOREM FinishedStays == PrintSpec => FinishedIsFinal
<1>1. QueueInv /\ [PrintNext]_printVars =>
        [\A j \in Jobs : /\ rows[j] \in Final => rows'[j] = rows[j]
                         /\ Withdrawn(j) => Withdrawn(j)']_printVars
  BY FinishedStep, WithdrawnStep
<1> QED
  BY <1>1, QueueInvInit, QueueInvNext, PTL DEF PrintSpec, FinishedIsFinal

---------------------------------------------------------------------------
(***************************************************************************)
(* Serving.                                                                *)
(* Who is refused, what is for playback only, and that the bytes of a      *)
(* response are the ones it says they are.                                 *)
(* The promises are about what was good or open while a request was under  *)
(* way, and the code looks at it at moments of its own; the invariant says *)
(* what a request that has come to a stage knows, and that the password the *)
(* mount remembers is one that was verified.                               *)
(***************************************************************************)

(* The numbers of a range. *)

\* The greater and the smaller of two numbers.
LEMMA MaxOfTwo ==
  ASSUME NEW a \in Int, NEW b \in Int
  PROVE  Max({a, b}) = IF a >= b THEN a ELSE b
<1>1. PICK m \in {a, b} : \A y \in {a, b} : m >= y
  OBVIOUS
<1>2. Max({a, b}) \in {a, b} /\ \A y \in {a, b} : Max({a, b}) >= y
  BY <1>1, Zenon DEF Max
<1> QED
  BY <1>2

LEMMA MinOfTwo ==
  ASSUME NEW a \in Int, NEW b \in Int
  PROVE  Min({a, b}) = IF a <= b THEN a ELSE b
<1>1. PICK m \in {a, b} : \A y \in {a, b} : m <= y
  OBVIOUS
<1>2. Min({a, b}) \in {a, b} /\ \A y \in {a, b} : Min({a, b}) <= y
  BY <1>1, Zenon DEF Min
<1> QED
  BY <1>2

\* A range that is parsed as one is exactly what was asked for; one that cannot
\* be satisfied asks for nothing (parseRangeHeader of both doors, with a suffix
\* longer than the file, an end beyond it, and a range that runs backwards).
LEMMA RangesAreExact ==
  ASSUME NEW h \in Headers, NEW door \in Doors, NEW size \in 0..MaxSize
  PROVE  /\ Parsed(h, door, size) \in {"none", "many", "unsatisfiable", "range"}
         /\ Parsed(h, door, size) = "range" =>
               /\ From(h, size) \in Int /\ To(h, size) \in Int
               /\ From(h, size)..To(h, size) = Wanted(h, size)
               /\ Wanted(h, size) # {}
         /\ Parsed(h, door, size) = "unsatisfiable" => Wanted(h, size) = {}
<1>0. /\ h.kind \in {"none", "one", "many", "junk"}
      /\ h.first \in {Blank} \cup 0..MaxSize /\ h.last \in {Blank} \cup 0..MaxSize + 1
      /\ h.kind # "one" => h.first = Blank /\ h.last = Blank
      /\ Blank = -1 /\ size \in Nat /\ MaxSize \in Nat
  BY ServingAssumption DEF Headers, Ranges, Blank
<1>1. h.first \in Int /\ h.last \in Int /\ h.first >= -1 /\ h.last >= -1
  BY <1>0
<1>2. Parsed(h, door, size) \in {"none", "many", "unsatisfiable", "range"}
  BY <1>0 DEF Parsed
<1>3. ASSUME Parsed(h, door, size) = "range"
      PROVE  ~Ignored(h, door) /\ ~Unsatisfiable(h, size)
  BY <1>0, <1>3 DEF Parsed
<1>4. ASSUME Parsed(h, door, size) = "unsatisfiable"
      PROVE  \/ ~Suffix(h) /\ h.first >= size
             \/ ~Ignored(h, door) /\ Unsatisfiable(h, size)
  BY <1>0, <1>4 DEF Parsed
<1>5. ASSUME Parsed(h, door, size) = "unsatisfiable"
      PROVE  Wanted(h, size) = {}
  <2> SUFFICES ASSUME NEW i \in Wanted(h, size) PROVE FALSE
    OBVIOUS
  <2>1. /\ i \in Int /\ i >= 0 /\ i <= size - 1
        /\ IF h.first = -1 THEN i >= size - h.last
           ELSE i >= h.first /\ (h.last = -1 \/ i <= h.last)
    BY <1>0 DEF Wanted
  <2>2. CASE Suffix(h)
    <3>1. h.first = -1 /\ h.last # -1 /\ (size = 0 \/ h.last = 0)
      BY <1>0, <1>4, <1>5, <2>2 DEF Suffix, Ignored, Unsatisfiable
    <3> QED
      BY <1>0, <1>1, <2>1, <3>1
  <2>3. CASE ~Suffix(h)
    <3>1. h.first # -1 /\ (h.first >= size \/ (h.last # -1 /\ h.last < h.first))
      BY <1>0, <1>4, <1>5, <2>3 DEF Suffix, Unsatisfiable
    <3> QED
      BY <1>0, <1>1, <2>1, <3>1
  <2> QED
    BY <2>2, <2>3
<1>6. ASSUME Parsed(h, door, size) = "range"
      PROVE  /\ From(h, size) \in Int /\ To(h, size) \in Int
             /\ From(h, size)..To(h, size) = Wanted(h, size)
             /\ Wanted(h, size) # {}
  <2>1. CASE Suffix(h)
    <3>1. h.first = -1 /\ h.last >= 1 /\ size >= 1
      BY <1>0, <1>1, <1>3, <1>6, <2>1 DEF Suffix, Ignored, Unsatisfiable
    <3>2. From(h, size) = (IF 0 >= size - h.last THEN 0 ELSE size - h.last) /\ To(h, size) = size - 1
      BY <1>0, <1>1, <2>1, MaxOfTwo DEF From, To
    <3>3. size - 1 \in Wanted(h, size)
      BY <1>0, <1>1, <3>1 DEF Wanted
    <3>4. From(h, size)..To(h, size) = Wanted(h, size)
      BY <1>0, <1>1, <3>1, <3>2 DEF Wanted
    <3> QED
      BY <1>0, <1>1, <3>2, <3>3, <3>4
  <2>2. CASE ~Suffix(h)
    <3>1. h.first >= 0 /\ h.first < size /\ (h.last = -1 \/ h.last >= h.first)
      BY <1>0, <1>1, <1>3, <1>6, <2>2 DEF Suffix, Unsatisfiable
    <3>2. /\ From(h, size) = h.first
          /\ To(h, size) = IF h.last = -1 \/ h.last > size - 1 THEN size - 1 ELSE h.last
      BY <1>0, <1>1, <2>2, <3>1, MinOfTwo DEF From, To
    <3>3. h.first \in Wanted(h, size)
      BY <1>0, <1>1, <3>1 DEF Wanted
    <3>4. From(h, size)..To(h, size) = Wanted(h, size)
      BY <1>0, <1>1, <3>1, <3>2 DEF Wanted
    <3> QED
      BY <1>0, <1>1, <3>2, <3>3, <3>4
  <2> QED
    BY <2>1, <2>2
<1> QED
  BY <1>2, <1>5, <1>6

---------------------------------------------------------------------------
(* The inductive invariant. *)

\* What is said of request r when its record is e.

\* A request that is under way knows the mode the folder has now, and that its
\* credential is good if it is now.
Sees(e, r) ==
    e.at \notin {"idle", "over"} => Mode \in e.modes /\ (Good(r, device) => e.good)

\* Who has come past the look at its credential had a good one, and who came
\* over the mount found the folder open.
Verified(e, r) ==
    /\ e.at = "verify" /\ ask[r].door = "dav" /\ Cred(r) = e.row => e.good
    /\ e.at \in {"resolve", "serve", "open", "sending"} => e.good
    /\ e.at \in {"resolve", "serve"} /\ ask[r].door = "dav" => e.modes \ {"none"} # {}

\* What is answered, and to whom.
Answers(e, r) ==
    /\ e.at \in {"idle", "verify", "resolve", "serve"} => e.status = 0
    /\ e.status \in {200, 206, 207} => e.good /\ e.modes \ {"none"} # {}
    /\ ask[r].method = "GET" /\ e.status \in {200, 206} /\ "full" \notin e.modes =>
          /\ ask[r].range.kind \notin {"none", "junk"}
          /\ ask[r].door # "dav" => e.status = 206 /\ ~ask[r].attach

\* The bytes that are sent, and of what.
Exact(e, r) ==
    /\ e.status = 206 => /\ e.start..e.end = Wanted(ask[r].range, e.found.size)
                         /\ Wanted(ask[r].range, e.found.size) # {}
                         /\ ask[r].ifRange # 0 => e.found.version = ask[r].ifRange
    /\ e.status = 416 => Wanted(ask[r].range, e.found.size) = {}
    /\ e.status = 200 => e.start..e.end = 0..e.found.size - 1

\* A file that is open is the one that was found, or is known not to be.
OpenFile(e) ==
    /\ e.fd => e.at = "sending"
    /\ e.fd /\ ~e.late => e.body = e.found.version

Sound(e, r) ==
    /\ e \in Req /\ Sees(e, r) /\ Verified(e, r) /\ Answers(e, r) /\ Exact(e, r) /\ OpenFile(e)

\* What the mount remembers is a password that belonged to its hash.
CacheIsTrue == cache.hash # 0 => cache.pass = cache.hash

ServingInv ==
    /\ ServingTypeOK /\ ask \in [Reqs -> Forms] /\ CacheIsTrue
    /\ \A r \in Reqs : Sound(req[r], r)

---------------------------------------------------------------------------
(* The first state. *)

\* Nothing is asked and nothing is answered at first.
LEMMA ServingInvInit == ServingInit => ServingInv
<1> SUFFICES ASSUME ServingInit PROVE ServingInv
  OBVIOUS
<1>0. MaxSize \in Nat \ {0} /\ MaxReplaced \in Nat /\ MaxSwitches \in Nat
  BY ServingAssumption
<1>1. file \in Files /\ grant \in GrantModes
  BY <1>0 DEF ServingInit, Files
<1>2. device \in [active: BOOLEAN, tv: Nat \ {0}, pw: Nat \ {0}] /\ cache \in [hash: Nat, pass: Nat]
  BY DEF ServingInit
<1>3. ask \in [Reqs -> Forms]
  BY ServingAssumption DEF ServingInit
<1> DEFINE first == [at |-> "idle", row |-> 0, found |-> file, status |-> 0, start |-> 0,
                     end |-> 0, fd |-> FALSE, body |-> 0, late |-> FALSE, closed |-> FALSE,
                     orphan |-> FALSE, modes |-> {}, good |-> FALSE]
<1>4. first \in Req
  BY <1>0, <1>1 DEF Req
<1>5. req = [r \in Reqs |-> first]
  BY DEF ServingInit
<1>6. ASSUME NEW r \in Reqs PROVE Sound(req[r], r)
  <2>1. req[r] = first
    BY <1>5
  <2> QED
    BY <1>4, <2>1 DEF Sound, Sees, Verified, Answers, Exact, OpenFile
<1>7. ServingTypeOK
  BY <1>1, <1>2, <1>4, <1>5 DEF ServingInit, ServingTypeOK
<1>8. CacheIsTrue
  BY DEF ServingInit, CacheIsTrue
<1> QED
  BY <1>3, <1>6, <1>7, <1>8 DEF ServingInv

---------------------------------------------------------------------------
(* Steps of one request. *)

\* A step that moves one request keeps the invariant when what it leaves of
\* that request is sound, and what the mount remembers is true.
LEMMA OneMoves ==
  ASSUME ServingInv, NEW r \in Reqs, NEW e, Set(r, e), Rests, Sound(e, r),
         cache' \in [hash: Nat, pass: Nat], CacheIsTrue'
  PROVE  ServingInv'
<1>1. e \in Req /\ req \in [Reqs -> Req] /\ req' = [req EXCEPT ![r] = e]
  BY DEF Sound, Set, ServingInv, ServingTypeOK
<1>2. ServingTypeOK' /\ ask' \in [Reqs -> Forms]
  BY <1>1 DEF Rests, ServingInv, ServingTypeOK
<1>3. Mode' = Mode
  BY DEF Mode, Rests
<1>4. ASSUME NEW o \in Reqs PROVE Sound(req[o], o)'
  <2>1. req'[o] = IF o = r THEN e ELSE req[o]
    BY <1>1
  <2>2. Sound(req'[o], o)
    BY <2>1 DEF ServingInv
  <2> QED
    BY <1>3, <2>2
    DEF Rests, Sound, Sees, Good, Verified, Answers, Exact, OpenFile, Cred
<1> QED
  BY <1>2, <1>4 DEF ServingInv

\* The same for a step that leaves what the mount remembers.
LEMMA OneMovesOnly ==
  ASSUME ServingInv, NEW r \in Reqs, NEW e, Set(r, e), Rests, UNCHANGED cache, Sound(e, r)
  PROVE  ServingInv'
<1>1. cache' \in [hash: Nat, pass: Nat] /\ CacheIsTrue'
  BY DEF ServingInv, ServingTypeOK, CacheIsTrue
<1> QED
  BY <1>1, OneMoves

\* An answer that has nothing in it is sound.
LEMMA NothingAnswered ==
  ASSUME NEW r \in Reqs, NEW e \in Req, NEW status \in {401, 403, 404}, ~e.fd
  PROVE  Sound(Answered(e, status), r)
<1>0. status \in Nat
  OBVIOUS
<1>1. Answered(e, status) \in Req
  BY <1>0 DEF Answered, Req
<1>2. /\ Answered(e, status).at = "over"
      /\ Answered(e, status).status = status /\ Answered(e, status).fd = e.fd
  BY DEF Answered, Req
<1> QED
  BY <1>1, <1>2 DEF Sound, Sees, Verified, Answers, Exact, OpenFile

\* Who comes in with a good credential is sound: it finds the file next, or it
\* came over the mount and the folder is closed.
LEMMA EntersSound ==
  ASSUME NEW r \in Reqs, NEW e \in Req, e.good, e.status = 0, ~e.fd, Mode \in e.modes
  PROVE  Sound(Enters(e, r), r)
<1>1. CASE ask[r].door = "dav" /\ ~Can("list")
  BY <1>1, NothingAnswered DEF Enters
<1>2. CASE ~(ask[r].door = "dav" /\ ~Can("list"))
  <2>1. Enters(e, r) = [e EXCEPT !.at = "resolve"]
    BY <1>2 DEF Enters
  <2>2. /\ Enters(e, r) \in Req /\ Enters(e, r).at = "resolve" /\ Enters(e, r).status = 0
        /\ Enters(e, r).good = e.good /\ Enters(e, r).fd = e.fd /\ Enters(e, r).modes = e.modes
    BY <2>1 DEF Req
  <2>3. ask[r].door = "dav" => e.modes \ {"none"} # {}
    BY <1>2 DEF Can
  <2> QED
    BY <2>2, <2>3 DEF Sound, Sees, Verified, Answers, Exact, OpenFile
<1> QED
  BY <1>1, <1>2

\* A request comes: its ticket or its known password is looked at at once.
LEMMA InvArrive == ASSUME ServingInv, NEW r \in Reqs, Arrive(r) PROVE ServingInv'
<1>0. /\ req[r] \in Req /\ req[r].at = "idle" /\ req[r].status = 0 /\ ~req[r].fd
      /\ device.pw \in Nat \ {0} /\ ask[r] \in Forms
  BY DEF Arrive, ServingInv, ServingTypeOK, Sound, Answers, OpenFile
<1>1. PICK good \in BOOLEAN : good = Good(r, device)
  <2>1. Good(r, device) \in BOOLEAN
    BY DEF Good
  <2> QED
    BY <2>1, Zenon
<1> DEFINE e == [req[r] EXCEPT !.row = device.pw, !.modes = {Mode}, !.good = good]
<1>2. Mode \in GrantModes
  BY DEF Mode, GrantModes, ServingInv, ServingTypeOK
<1>3. /\ e \in Req /\ e.at = "idle" /\ e.status = 0 /\ ~e.fd /\ e.row = device.pw
      /\ e.modes = {Mode} /\ e.good = good
  BY <1>0, <1>2 DEF Req
<1>4. Set(r, CASE ask[r].door = "rest" -> [e EXCEPT !.at = "verify"]
               [] ask[r].door = "ticket" -> IF good THEN Enters(e, r) ELSE Answered(e, 401)
               [] ask[r].door = "dav" /\ ~device.active -> Answered(e, 401)
               [] ask[r].door = "dav" /\ device.active ->
                     IF Known(e, r) THEN Enters(e, r) ELSE [e EXCEPT !.at = "verify"])
  BY <1>1, Zenon DEF Arrive
<1>5. Rests /\ UNCHANGED cache
  BY DEF Arrive
<1> HIDE DEF e
<1>6. Sound(Answered(e, 401), r)
  BY <1>3, NothingAnswered
<1>7. good => Sound(Enters(e, r), r)
  BY <1>3, EntersSound
<1>8. ASSUME ask[r].door = "dav" => device.active
      PROVE  Sound([e EXCEPT !.at = "verify"], r)
  <2> DEFINE f == [e EXCEPT !.at = "verify"]
  <2>1. /\ f \in Req /\ f.at = "verify" /\ f.status = 0 /\ ~f.fd /\ f.row = device.pw
        /\ f.modes = {Mode} /\ f.good = good
    BY <1>3 DEF Req
  <2>2. /\ ask[r].door = "dav" /\ Cred(r) = f.row => f.good
        /\ Good(r, device) => f.good
    BY <1>1, <1>8, <2>1 DEF Good, Cred
  <2> HIDE DEF f
  <2>3. Sound(f, r)
    BY <2>1, <2>2 DEF Sound, Sees, Verified, Answers, Exact, OpenFile
  <2> QED
    BY <2>3 DEF f
<1>9. ask[r].door = "dav" /\ device.active /\ Known(e, r) => good
  BY <1>0, <1>1, <1>3 DEF Good, Known, Cred, ServingInv, CacheIsTrue
<1>10. ask[r].door \in {"rest", "ticket", "dav"}
  BY <1>0 DEF Forms, Doors
<1>11. CASE ask[r].door = "rest"
  BY <1>4, <1>5, <1>8, <1>11, OneMovesOnly
<1>12. CASE ask[r].door = "ticket"
  BY <1>4, <1>5, <1>6, <1>7, <1>12, OneMovesOnly
<1>13. CASE ask[r].door = "dav"
  BY <1>4, <1>5, <1>6, <1>7, <1>8, <1>9, <1>13, OneMovesOnly
<1> QED
  BY <1>10, <1>11, <1>12, <1>13

\* The row of the device is read for every request, after its signature.
LEMMA InvVerifyToken == ASSUME ServingInv, NEW r \in Reqs, VerifyToken(r) PROVE ServingInv'
<1>0. /\ req[r] \in Req /\ req[r].at = "verify" /\ req[r].status = 0 /\ ~req[r].fd
      /\ Mode \in req[r].modes /\ ask[r].door = "rest" /\ (Good(r, device) => req[r].good)
  BY DEF VerifyToken, ServingInv, ServingTypeOK, Sound, Sees, Answers, OpenFile
<1>1. CASE ~Good(r, device)
  <2>1. Set(r, Answered(req[r], 401)) /\ Rests /\ UNCHANGED cache
    BY <1>1 DEF VerifyToken
  <2> QED
    BY <1>0, <2>1, NothingAnswered, OneMovesOnly
<1>2. CASE Good(r, device)
  <2>1. Set(r, Enters(req[r], r)) /\ Rests /\ UNCHANGED cache
    BY <1>2 DEF VerifyToken
  <2>2. Sound(Enters(req[r], r), r)
    BY <1>0, <1>2, EntersSound
  <2> QED
    BY <2>1, <2>2, OneMovesOnly
<1> QED
  BY <1>1, <1>2

\* A password is compared with the row as it was when the request came; what
\* matches is remembered for that row.
LEMMA InvVerifyPassword == ASSUME ServingInv, NEW r \in Reqs, VerifyPassword(r) PROVE ServingInv'
<1>0. /\ req[r] \in Req /\ req[r].at = "verify" /\ req[r].status = 0 /\ ~req[r].fd
      /\ Mode \in req[r].modes /\ ask[r].door = "dav" /\ ask[r] \in Forms
      /\ Cred(r) = req[r].row => req[r].good
  BY DEF VerifyPassword, ServingInv, ServingTypeOK, Sound, Sees, Verified, Answers, OpenFile
<1>1. Cred(r) \in Nat /\ req[r].row \in Nat
  BY <1>0, ServingAssumption DEF Cred, Forms, Req
<1>2. CASE Cred(r) = req[r].row
  <2>1. Set(r, Enters(req[r], r)) /\ Rests /\ cache' = [hash |-> req[r].row, pass |-> Cred(r)]
    BY <1>2 DEF VerifyPassword
  <2>2. Sound(Enters(req[r], r), r)
    BY <1>0, <1>2, EntersSound
  <2>3. cache' \in [hash: Nat, pass: Nat] /\ CacheIsTrue'
    BY <1>1, <1>2, <2>1 DEF CacheIsTrue
  <2> QED
    BY <2>1, <2>2, <2>3, OneMoves
<1>3. CASE Cred(r) # req[r].row
  <2>1. Set(r, Answered(req[r], 401)) /\ Rests /\ cache' = [hash |-> 0, pass |-> 0]
    BY <1>3 DEF VerifyPassword, Refuse
  <2>2. cache' \in [hash: Nat, pass: Nat] /\ CacheIsTrue'
    BY <2>1 DEF CacheIsTrue
  <2> QED
    BY <1>0, <2>1, <2>2, NothingAnswered, OneMoves
<1> QED
  BY <1>2, <1>3

\* The file is found before anything is said of it.
LEMMA InvResolve == ASSUME ServingInv, NEW r \in Reqs, Resolve(r) PROVE ServingInv'
<1>0. req[r] \in Req /\ req[r].at = "resolve" /\ Sound(req[r], r) /\ file \in Files
  BY DEF Resolve, ServingInv, ServingTypeOK
<1>1. PICK e : e = [req[r] EXCEPT !.at = "serve", !.found = file]
  OBVIOUS
<1>2. /\ e \in Req /\ e.at = "serve" /\ e.status = req[r].status /\ e.fd = req[r].fd
      /\ e.modes = req[r].modes /\ e.good = req[r].good
  BY <1>0, <1>1 DEF Req
<1>3. Sound(e, r)
  BY <1>0, <1>2 DEF Sound, Sees, Verified, Answers, Exact, OpenFile
<1> QED
  BY <1>1, <1>3, OneMovesOnly DEF Resolve

\* A request that goes on, with an answer, is a request.
LEMMA ReqAnswered ==
  ASSUME NEW q \in Req, NEW status \in Nat
  PROVE  [q EXCEPT !.at = "over", !.status = status] \in Req
<1>1. PICK e : e = [q EXCEPT !.at = "over", !.status = status]
  OBVIOUS
<1>2. e = [at |-> "over", row |-> q.row, found |-> q.found, status |-> status,
           start |-> q.start, end |-> q.end, fd |-> q.fd, body |-> q.body, late |-> q.late,
           closed |-> q.closed, orphan |-> q.orphan, modes |-> q.modes, good |-> q.good]
  BY <1>1 DEF Req
<1>3. /\ q.row \in Nat /\ q.found \in Files /\ q.start \in Int /\ q.end \in Int
      /\ q.body \in 0..MaxReplaced + 1 /\ q.modes \in SUBSET GrantModes
  BY DEF Req
<1>4. /\ q.fd \in BOOLEAN /\ q.late \in BOOLEAN /\ q.closed \in BOOLEAN
      /\ q.orphan \in BOOLEAN /\ q.good \in BOOLEAN
  BY DEF Req
<1>5. e \in Req
  BY <1>2, <1>3, <1>4, Zenon DEF Req
<1> QED
  BY <1>1, <1>5

\* What was found is served as it was asked for: the slice, all of it, or the
\* word that there is none; and a folder for playback gives a GET no more than
\* a range, at the API one range only.
LEMMA ServesSound ==
  ASSUME ServingInv, NEW r \in Reqs, req[r].at = "serve", ask[r].method # "PROPFIND",
         Can("list"), Can(Operation(r)), ~TakesCopy(r)
  PROVE  Sound(Serves(r), r)
<1> DEFINE h == ask[r].range
           door == ask[r].door
           size == req[r].found.size
<1>0. /\ req[r] \in Req /\ Mode \in req[r].modes /\ req[r].good /\ ~req[r].fd
      /\ ask[r] \in Forms /\ Mode # "none" /\ Mode \in GrantModes
  BY DEF ServingInv, ServingTypeOK, Sound, Sees, Verified, OpenFile, Can, Mode, GrantModes
<1>1. /\ h \in Headers /\ door \in Doors /\ size \in 0..MaxSize /\ size \in Int
      /\ ask[r].method \in {"none", "GET", "HEAD"} /\ req[r].found \in Files
  BY <1>0 DEF Forms, Req, Files
<1>2. /\ Kind(r) \in {"none", "many", "unsatisfiable", "range"}
      /\ Kind(r) = "range" => /\ Parsed(h, door, size) = "range"
                              /\ ask[r].ifRange \in {0, req[r].found.version}
      /\ Kind(r) = "unsatisfiable" => Parsed(h, door, size) = "unsatisfiable"
  <2>1. Parsed(h, door, size) \in {"none", "many", "unsatisfiable", "range"}
    BY <1>1, RangesAreExact
  <2> QED
    BY <2>1 DEF Kind
<1>3. /\ Kind(r) = "range" =>
            /\ From(h, size) \in Int /\ To(h, size) \in Int
            /\ From(h, size)..To(h, size) = Wanted(h, size) /\ Wanted(h, size) # {}
      /\ Kind(r) = "unsatisfiable" => Wanted(h, size) = {}
  BY <1>1, <1>2, RangesAreExact
<1>4. ASSUME ask[r].method = "GET", Mode # "full"
      PROVE  /\ h.kind \notin {"none", "junk"}
             /\ door # "dav" => ~ask[r].attach /\ Kind(r) \notin {"none", "many"}
  <2>1. Mode = "stream" /\ Operation(r) # "download"
    BY <1>0, <1>4 DEF Can, GrantModes
  <2>2. Ranged(r) /\ ~ask[r].attach
    BY <1>4, <2>1 DEF Operation
  <2>3. CASE door = "dav"
    BY <2>2, <2>3 DEF Ranged
  <2>4. CASE door # "dav"
    <3>1. Kind(r) \notin {"none", "many"} /\ h.kind # "none"
      BY <1>4, <2>1, <2>2, <2>4 DEF TakesCopy, Ranged
    <3>2. h.kind = "junk" => Kind(r) = "none"
      BY <2>4 DEF Kind, Parsed, Ignored
    <3> QED
      BY <2>2, <3>1, <3>2
  <2> QED
    BY <2>3, <2>4
<1>5. CASE Kind(r) = "unsatisfiable"
  <2>1. PICK e : e = [req[r] EXCEPT !.at = "over", !.status = 416]
    OBVIOUS
  <2>2. e \in Req
    <3>1. req[r] \in Req /\ 416 \in Nat
      BY <1>0
    <3> QED
      BY <2>1, <3>1, ReqAnswered, ZenonT(60)
  <2>3. e.at = "over" /\ e.status = 416 /\ e.fd = req[r].fd /\ e.found = req[r].found
    BY <1>0, <2>1 DEF Req
  <2>4. Serves(r) = e
    BY <1>5, <2>1 DEF Serves, Answered
  <2> QED
    BY <1>0, <1>3, <1>5, <2>2, <2>3, <2>4 DEF Sound, Sees, Verified, Answers, Exact, OpenFile
<1>6. CASE Kind(r) # "unsatisfiable"
  <2>1. PICK at \in {"over", "open"} :
          at = IF ask[r].method = "HEAD" \/ size = 0 THEN "over" ELSE "open"
    OBVIOUS
  <2>2. PICK status \in {200, 206} : status = IF Kind(r) = "range" THEN 206 ELSE 200
    OBVIOUS
  <2>3. PICK start \in Int, end \in Int :
          /\ start = IF Kind(r) = "range" THEN From(h, size) ELSE 0
          /\ end = IF Kind(r) = "range" THEN To(h, size) ELSE size - 1
    BY <1>1, <1>3
  <2>4. PICK e : e = [req[r] EXCEPT !.status = status, !.start = start, !.end = end,
                                    !.at = at, !.orphan = req[r].closed]
    OBVIOUS
  <2>5. Serves(r) = e
    BY <1>6, <2>1, <2>2, <2>3, <2>4, ZenonT(30) DEF Serves
  <2>6. status \in Nat /\ req[r].closed \in BOOLEAN
    BY <1>0 DEF Req
  <2>7. /\ e \in Req /\ e.at = at /\ e.status = status /\ e.start = start /\ e.end = end
        /\ e.fd = req[r].fd /\ e.found = req[r].found /\ e.good = req[r].good
        /\ e.modes = req[r].modes
    BY <1>0, <2>4, <2>6 DEF Req
  <2>8. Sees(e, r) /\ Verified(e, r) /\ OpenFile(e)
    BY <1>0, <2>1, <2>7 DEF Sees, Verified, OpenFile
  <2>9. Answers(e, r)
    <3>1. e.modes \ {"none"} # {}
      BY <1>0, <2>7
    <3>2. "full" \notin e.modes => Mode # "full"
      BY <1>0, <2>7
    <3> QED
      BY <1>0, <1>2, <1>4, <1>6, <2>1, <2>2, <2>7, <3>1, <3>2 DEF Answers
  <2>10. Exact(e, r)
    BY <1>2, <1>3, <2>2, <2>3, <2>7 DEF Exact
  <2> QED
    BY <2>5, <2>7, <2>8, <2>9, <2>10 DEF Sound
<1> QED
  BY <1>5, <1>6

\* The folder is looked at again before anything is sent; a listing of the
\* mount is what was asked for when it came in.
LEMMA InvServe == ASSUME ServingInv, NEW r \in Reqs, Serve(r) PROVE ServingInv'
<1>0. /\ req[r] \in Req /\ req[r].at = "serve" /\ req[r].good /\ ~req[r].fd
      /\ ask[r] \in Forms /\ (ask[r].door = "dav" => req[r].modes \ {"none"} # {})
  BY DEF Serve, ServingInv, ServingTypeOK, Sound, Verified, OpenFile
<1>1. Rests /\ UNCHANGED cache
  BY DEF Serve
<1>2. CASE ask[r].method = "PROPFIND"
  <2>1. PICK e : e = [req[r] EXCEPT !.at = "over", !.status = 207]
    OBVIOUS
  <2>2. e \in Req
    BY <1>0, <2>1, ReqAnswered, ZenonT(60)
  <2>3. /\ e.at = "over" /\ e.status = 207 /\ e.fd = req[r].fd /\ e.good = req[r].good
        /\ e.modes = req[r].modes
    BY <1>0, <2>1 DEF Req
  <2>4. ask[r].door = "dav"
    BY <1>0, <1>2 DEF Forms
  <2>5. Sound(e, r)
    BY <1>0, <2>2, <2>3, <2>4 DEF Sound, Sees, Verified, Answers, Exact, OpenFile
  <2>6. Set(r, e)
    BY <1>2, <2>1 DEF Serve, PropfindTarget, Answered
  <2> QED
    BY <1>1, <2>5, <2>6, OneMovesOnly
<1>3. CASE ask[r].method # "PROPFIND" /\ ~Can("list")
  <2>1. Set(r, Answered(req[r], 404))
    BY <1>3 DEF Serve
  <2> QED
    BY <1>0, <1>1, <2>1, NothingAnswered, OneMovesOnly
<1>4. CASE ask[r].method # "PROPFIND" /\ Can("list") /\ (~Can(Operation(r)) \/ TakesCopy(r))
  <2>1. Set(r, Answered(req[r], 403))
    BY <1>4 DEF Serve
  <2> QED
    BY <1>0, <1>1, <2>1, NothingAnswered, OneMovesOnly
<1>5. CASE ask[r].method # "PROPFIND" /\ Can("list") /\ Can(Operation(r)) /\ ~TakesCopy(r)
  <2>1. Set(r, Serves(r))
    BY <1>5 DEF Serve
  <2> QED
    BY <1>0, <1>1, <1>5, <2>1, ServesSound, OneMovesOnly
<1> QED
  BY <1>2, <1>3, <1>4, <1>5

\* The file is opened: it is the one that was found, or it is known not to be.
LEMMA InvOpen == ASSUME ServingInv, NEW r \in Reqs, Open(r) PROVE ServingInv'
<1>0. /\ req[r] \in Req /\ req[r].at = "open" /\ ~req[r].fd /\ Sound(req[r], r)
      /\ file.version \in 0..MaxReplaced + 1
  BY ServingAssumption DEF Open, ServingInv, ServingTypeOK, Sound, OpenFile, Files
<1>1. CASE req[r].closed /\ ~req[r].orphan
  <2>1. PICK e : e = [req[r] EXCEPT !.at = "over"]
    OBVIOUS
  <2>2. /\ e \in Req /\ e.at = "over" /\ e.status = req[r].status /\ e.start = req[r].start
        /\ e.end = req[r].end /\ e.found = req[r].found /\ e.fd = req[r].fd
        /\ e.modes = req[r].modes /\ e.good = req[r].good
    BY <1>0, <2>1 DEF Req
  <2>3. Sound(e, r)
    BY <1>0, <2>2 DEF Sound, Sees, Verified, Answers, Exact, OpenFile
  <2>4. Set(r, e)
    BY <1>1, <2>1 DEF Open
  <2> QED
    BY <2>3, <2>4, OneMovesOnly DEF Open
<1>2. CASE ~(req[r].closed /\ ~req[r].orphan)
  <2>1. PICK late \in BOOLEAN : late = (file.version # req[r].found.version)
    <3>1. (file.version # req[r].found.version) \in BOOLEAN
      OBVIOUS
    <3> QED
      BY <3>1, Zenon
  <2>2. PICK e : e = [req[r] EXCEPT !.at = "sending", !.fd = TRUE, !.body = file.version,
                                    !.late = late]
    OBVIOUS
  <2>3. /\ e \in Req /\ e.at = "sending" /\ e.status = req[r].status /\ e.start = req[r].start
        /\ e.end = req[r].end /\ e.found = req[r].found /\ e.body = file.version
        /\ e.late = late /\ e.modes = req[r].modes /\ e.good = req[r].good
    BY <1>0, <2>2 DEF Req
  <2>4. Sees(e, r) /\ Verified(e, r) /\ Answers(e, r) /\ Exact(e, r)
    BY <1>0, <2>3 DEF Sound, Sees, Verified, Answers, Exact
  <2>5. OpenFile(e)
    BY <2>1, <2>3 DEF OpenFile
  <2>6. Set(r, e)
    BY <1>2, <2>1, <2>2, Zenon DEF Open
  <2> QED
    BY <2>3, <2>4, <2>5, <2>6, OneMovesOnly DEF Open, Sound
<1> QED
  BY <1>1, <1>2

\* The end of a response, from either side.
LEMMA InvEnds ==
  ASSUME ServingInv, NEW r \in Reqs, StreamEnds(r) \/ Cleanup(r) \/ Abandons(r)
  PROVE  ServingInv'
<1>0. req[r] \in Req /\ Sound(req[r], r)
  BY DEF ServingInv, ServingTypeOK
<1>1. PICK at \in {req[r].at, "over"}, fd \in BOOLEAN, closed \in BOOLEAN :
         /\ Set(r, [req[r] EXCEPT !.at = at, !.fd = fd, !.closed = closed])
         /\ fd => req[r].fd /\ at = req[r].at
         /\ at = "over" => req[r].at \in {"sending", "over"}
  <2>1. CASE StreamEnds(r)
    <3>1. Set(r, [req[r] EXCEPT !.at = "over", !.fd = FALSE, !.closed = TRUE])
      BY <2>1, Zenon DEF StreamEnds
    <3> QED
      BY <2>1, <3>1 DEF StreamEnds
  <2>2. CASE Cleanup(r)
    <3>1. req[r] = [req[r] EXCEPT !.closed = req[r].closed]
      BY <1>0 DEF Req
    <3>2. [req[r] EXCEPT !.at = "over", !.fd = FALSE] =
          [req[r] EXCEPT !.at = "over", !.fd = FALSE, !.closed = req[r].closed]
      BY <1>0 DEF Req
    <3>3. Set(r, [req[r] EXCEPT !.at = "over", !.fd = FALSE, !.closed = req[r].closed])
      BY <2>2, <3>2, Zenon DEF Cleanup
    <3> QED
      BY <1>0, <2>2, <3>3 DEF Cleanup, Req
  <2>3. CASE Abandons(r)
    <3>1. [req[r] EXCEPT !.closed = TRUE] =
          [req[r] EXCEPT !.at = req[r].at, !.fd = req[r].fd, !.closed = TRUE]
      BY <1>0 DEF Req
    <3>2. Set(r, [req[r] EXCEPT !.at = req[r].at, !.fd = req[r].fd, !.closed = TRUE])
      BY <2>3, <3>1, Zenon DEF Abandons
    <3> QED
      BY <1>0, <2>3, <3>2 DEF Abandons, Req
  <2> QED
    BY <2>1, <2>2, <2>3
<1>2. PICK e : e = [req[r] EXCEPT !.at = at, !.fd = fd, !.closed = closed]
  OBVIOUS
<1>3. /\ e \in Req /\ e.at = at /\ e.status = req[r].status /\ e.start = req[r].start
      /\ e.end = req[r].end /\ e.found = req[r].found /\ e.body = req[r].body
      /\ e.late = req[r].late /\ e.modes = req[r].modes /\ e.good = req[r].good
      /\ e.row = req[r].row /\ e.fd = fd
  BY <1>0, <1>2 DEF Req
<1>4. Sees(e, r) /\ Verified(e, r) /\ Answers(e, r) /\ Exact(e, r)
  BY <1>0, <1>1, <1>3 DEF Sound, Sees, Verified, Answers, Exact
<1>5. OpenFile(e)
  BY <1>0, <1>1, <1>3 DEF Sound, OpenFile
<1> QED
  BY <1>1, <1>2, <1>3, <1>4, <1>5, OneMovesOnly DEF StreamEnds, Cleanup, Abandons, Sound

---------------------------------------------------------------------------
(* Steps of the operator and of the disk. *)

\* A change by the operator: requests that are under way have seen the new mode
\* and whether their credential is good now.
LEMMA InvSwitch ==
  ASSUME ServingInv, Switch, grant' \in GrantModes, enabled' \in BOOLEAN,
         device' \in [active: BOOLEAN, tv: Nat \ {0}, pw: Nat \ {0}]
  PROVE  ServingInv'
<1>0. PICK mode \in GrantModes : mode = Mode' /\ mode = IF enabled' THEN grant' ELSE "none"
  BY DEF Mode, GrantModes
<1>1. ASSUME NEW r \in Reqs PROVE Sound(req[r], r)' /\ req'[r] \in Req
  <2>0. req[r] \in Req /\ Sound(req[r], r)
    BY DEF ServingInv, ServingTypeOK
  <2>1. CASE ~InFlight(r)
    <3>1. req'[r] = req[r] /\ ask' = ask
      BY <2>1, Zenon DEF Switch
    <3> QED
      BY <2>0, <2>1, <3>1 DEF InFlight, Sound, Sees, Verified, Answers, Exact, OpenFile, Cred
  <2>2. CASE InFlight(r)
    <3>1. PICK good \in BOOLEAN : good = (req[r].good \/ Good(r, device'))
      <4>1. (req[r].good \/ Good(r, device')) \in BOOLEAN
        OBVIOUS
      <4> QED
        BY <4>1, Zenon
    <3>0. PICK modes \in SUBSET GrantModes : modes = req[r].modes \cup {mode}
      BY <2>0 DEF Req
    <3>2. ask' = ask /\ req'[r] = [req[r] EXCEPT !.modes = modes, !.good = good]
      BY <1>0, <2>2, <3>1, <3>0, Zenon DEF Switch
    <3>3. /\ req'[r] \in Req /\ req'[r].at = req[r].at /\ req'[r].status = req[r].status
          /\ req'[r].start = req[r].start /\ req'[r].end = req[r].end
          /\ req'[r].found = req[r].found /\ req'[r].body = req[r].body
          /\ req'[r].late = req[r].late /\ req'[r].row = req[r].row /\ req'[r].fd = req[r].fd
          /\ req'[r].modes = modes /\ req'[r].good = good
      BY <2>0, <3>2, ZenonT(60) DEF Req
    <3>4. Good(r, device)' => good
      BY <3>1, <3>2 DEF Good, Cred
    <3>5. Sees(req[r], r)' /\ Verified(req[r], r)'
      BY <1>0, <2>0, <3>1, <3>0, <3>2, <3>3, <3>4 DEF Sound, Sees, Verified, Cred
    <3>6. Answers(req[r], r)'
      <4>1. req[r].modes \ {"none"} # {} => modes \ {"none"} # {}
        BY <3>0
      <4>2. "full" \notin modes => "full" \notin req[r].modes
        BY <3>0
      <4>3. req[r].good => good
        BY <3>1
      <4>4. Answers(req[r], r)
        BY <2>0 DEF Sound
      <4> QED
        BY <3>2, <3>3, <4>1, <4>2, <4>3, <4>4 DEF Answers
    <3>7. Exact(req[r], r)' /\ OpenFile(req[r])'
      BY <2>0, <3>2, <3>3 DEF Sound, Exact, OpenFile
    <3> QED
      BY <3>3, <3>5, <3>6, <3>7 DEF Sound
  <2> QED
    BY <2>1, <2>2
<1>2. req' \in [Reqs -> Req]
  <2>1. req' = [r \in Reqs |-> req'[r]]
    BY Zenon DEF Switch
  <2> QED
    BY <1>1, <2>1
<1>3. ServingTypeOK'
  BY <1>2 DEF Switch, ServingInv, ServingTypeOK
<1> QED
  BY <1>1, <1>3 DEF Switch, ServingInv, CacheIsTrue

\* Every change the operator can make.
LEMMA InvOperator ==
  ASSUME ServingInv, \/ \E m \in GrantModes : SetPermissions(m)
               \/ SetEnabled \/ RevokeDevice \/ Approve
  PROVE  ServingInv'
<1>0. /\ grant \in GrantModes /\ enabled \in BOOLEAN
      /\ device \in [active: BOOLEAN, tv: Nat \ {0}, pw: Nat \ {0}]
  BY DEF ServingInv, ServingTypeOK
<1>1. CASE \E m \in GrantModes : SetPermissions(m)
  BY <1>0, <1>1, InvSwitch DEF SetPermissions
<1>2. CASE SetEnabled
  <2>1. enabled' \in BOOLEAN
    BY <1>0, <1>2 DEF SetEnabled
  <2> QED
    BY <1>0, <1>2, <2>1, InvSwitch DEF SetEnabled
<1>3. CASE RevokeDevice \/ Approve
  <2>1. device' \in [active: BOOLEAN, tv: Nat \ {0}, pw: Nat \ {0}]
    <3>1. PICK tv \in Nat \ {0}, pw \in Nat \ {0} : tv = device.tv + 1 /\ pw = device.pw + 1
      BY <1>0
    <3>2. CASE RevokeDevice
      <4>1. device' = [device EXCEPT !.active = FALSE, !.tv = tv]
        BY <3>1, <3>2, Zenon DEF RevokeDevice
      <4> QED
        BY <1>0, <4>1
    <3>3. CASE Approve
      <4>1. device' = [device EXCEPT !.pw = pw]
        BY <3>1, <3>3, Zenon DEF Approve
      <4> QED
        BY <1>0, <4>1
    <3> QED
      BY <1>3, <3>2, <3>3
  <2>2. grant' \in GrantModes /\ enabled' \in BOOLEAN /\ Switch
    BY <1>0, <1>3, Zenon DEF RevokeDevice, Approve
  <2> QED
    BY <2>1, <2>2, InvSwitch
<1> QED
  BY <1>1, <1>2, <1>3

\* Steps that leave the requests alone.
LEMMA ServingAround ==
  ASSUME ServingInv, UNCHANGED <<ask, grant, enabled, device, cache, req>>, file' \in Files
  PROVE  ServingInv'
<1>1. Mode' = Mode
  BY DEF Mode
<1>2. ASSUME NEW r \in Reqs PROVE Sound(req[r], r)'
  <2>1. ask' = ask /\ req' = req /\ device' = device /\ Sound(req[r], r)
    BY DEF ServingInv
  <2> QED
    BY <1>1, <2>1 DEF Sound, Sees, Good, Verified, Answers, Exact, OpenFile, Cred
<1> QED
  BY <1>2 DEF ServingInv, ServingTypeOK, CacheIsTrue

---------------------------------------------------------------------------
(* All steps. *)

\* Every step keeps the invariant.
LEMMA ServingInvNext == ServingInv /\ [ServingNext]_servingVars => ServingInv'
<1> SUFFICES ASSUME ServingInv, [ServingNext]_servingVars PROVE ServingInv'
  OBVIOUS
<1>1. ASSUME NEW r \in Reqs,
             \/ Arrive(r) \/ VerifyToken(r) \/ VerifyPassword(r) \/ Resolve(r)
             \/ Serve(r) \/ Open(r) \/ StreamEnds(r) \/ Cleanup(r) \/ Abandons(r)
      PROVE  ServingInv'
  BY <1>1, InvArrive, InvVerifyToken, InvVerifyPassword, InvResolve, InvServe, InvOpen, InvEnds
<1>2. CASE (\E m \in GrantModes : SetPermissions(m)) \/ SetEnabled \/ RevokeDevice \/ Approve
  BY <1>2, InvOperator
<1>3. CASE Replace
  <2>1. file' \in Files
    <3>1. PICK s \in 0..MaxSize : file' = [size |-> s, version |-> file.version + 1]
      BY <1>3 DEF Replace
    <3>2. file.version + 1 \in 1..MaxReplaced + 1
      BY <1>3, ServingAssumption DEF Replace, ServingInv, ServingTypeOK, Files
    <3> QED
      BY <3>1, <3>2 DEF Files
  <2> QED
    BY <1>3, <2>1, ServingAround DEF Replace
<1>4. CASE UNCHANGED servingVars
  BY <1>4, ServingAround DEF servingVars, ServingInv, ServingTypeOK
<1> QED
  BY <1>1, <1>2, <1>3, <1>4 DEF ServingNext

\* What is answered was asked with a credential that was good, for a folder that
\* was open, while the request was under way; and where the folder was for
\* playback all along, a GET takes no copy (verifyAccessToken, authenticate and
\* modeFor read the rows of every request, serveFile looks at the range).
THEOREM Access == ServingSpec => []AccessHolds
<1>1. ServingInv => AccessHolds
  <2> SUFFICES ASSUME ServingInv PROVE AccessHolds
    OBVIOUS
  <2>1. ASSUME NEW r \in Reqs PROVE Answers(req[r], r)
    BY DEF ServingInv, Sound
  <2>2. RefusedOnNextRequest
    BY <2>1 DEF RefusedOnNextRequest, Content, Answers
  <2>3. PlaybackOnly
    BY <2>1 DEF PlaybackOnly, Body, Answers
  <2> QED
    BY <2>2, <2>3 DEF ServingInv, AccessHolds
<1> QED
  BY <1>1, ServingInvInit, ServingInvNext, PTL DEF ServingSpec

\* A 206 carries exactly the bytes that were asked for, of the version the
\* client has part of; a 416 says that there are none; a 200 carries all; and
\* every byte is of the file that was found unless it was replaced in between.
THEOREM Bytes == ServingSpec => []BytesHold
<1>1. ServingInv => BytesHold
  <2> SUFFICES ASSUME ServingInv PROVE BytesHold
    OBVIOUS
  <2>1. ASSUME NEW r \in Reqs PROVE Exact(req[r], r) /\ OpenFile(req[r])
    BY DEF ServingInv, Sound
  <2>2. RangeIsExact
    BY <2>1, SMTT(30) DEF RangeIsExact, Exact
  <2>3. NoSplice
    BY <2>1 DEF NoSplice, Exact, OpenFile
  <2> QED
    BY <2>2, <2>3 DEF BytesHold
<1> QED
  BY <1>1, ServingInvInit, ServingInvNext, PTL DEF ServingSpec
==============================================================================
