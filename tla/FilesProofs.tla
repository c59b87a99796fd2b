---------------------------- MODULE FilesProofs ----------------------------
(***************************************************************************)
(* A file in the library is whole, under one name and keeps it, for any    *)
(* number of uploads, requests, names and bytes.                           *)
(***************************************************************************)
EXTENDS Files, FiniteSetTheorems, WellFoundedInduction, TLAPS

---------------------------------------------------------------------------
(* The invariant. *)

Finalizing == {"resolving", "reserving", "renaming", "stamping"}

\* What a handler of PATCH can rely on where it stands.
Handled(p) ==
    /\ row[p.upload].status # "none"
    /\ p.stage = "writing" =>
          \A i \in Positions : i < p.received => i \in content[p.upload]
    /\ p.stage \in Finalizing => Positions \subseteq content[p.upload]
    /\ p.stage = "renaming" => p.name \in Names /\ library[p.name] = Reserved
    /\ p.stage = "stamping" => place[p.upload] = "library"

PatchInv ==
    /\ \A p \in patches : Handled(p)
    /\ \A p, q \in patches :
          p.stage = "renaming" /\ q.stage = "renaming" /\ p.name = q.name => p = q

\* The bytes a row counts are in the file.
CountInv ==
    \A u \in Uploads : \A i \in Positions : i < row[u].received => i \in content[u]

\* Where the file is, and under which names.
PlaceInv ==
    \A u \in Uploads :
        /\ place[u] = "library" =>
              /\ Positions \subseteq content[u]
              /\ \E n \in Names : \A m \in Names : library[m] = u <=> m = n
        /\ place[u] # "library" => \A n \in Names : library[n] # u
        /\ row[u].status = "complete" => place[u] = "library"

ClientInv ==
    \A u \in Uploads :
        /\ client[u].phase = "idle" => place[u] = "nowhere"
        /\ client[u].phase # "idle" => row[u].status # "none"
        /\ client[u].phase \notin {"failed", "done"} => client[u].attempt < MaxAttempts
        /\ client[u].call # NoCall => client[u].phase = "patching"

LitterInv == NoLitter /\ spent.restarts <= spent.troubles

UploadsInv == TypeOK /\ PatchInv /\ CountInv /\ PlaceInv /\ ClientInv /\ LitterInv

---------------------------------------------------------------------------
(* Records, and what a step leaves alone. *)

Stages == {"sent", "writing", "resolving", "reserving", "renaming", "stamping",
           "mismatch", "error"} \cup Statuses

LEMMA PatchFields ==
  ASSUME NEW p \in Patch
  PROVE  /\ p.call \in Calls /\ p.upload \in Uploads
         /\ p.offset \in Nat /\ p.offset <= Size /\ p.received \in Nat /\ p.received <= Size
         /\ p.end \in Nat /\ p.end <= Size /\ p.stage \in Stages
  BY UploadsAssumption DEF Patch, Stages

LEMMA StageFields ==
  ASSUME NEW p \in Patch, NEW stage \in Stages
  PROVE  LET q == [p EXCEPT !.stage = stage]
         IN  /\ q \in Patch /\ q.stage = stage /\ q.upload = p.upload
             /\ q.received = p.received /\ q.name = p.name
  BY DEF Patch, Stages

\* The handler p, elsewhere and with another count; the row r with another count.
At(p, stage, n) == [p EXCEPT !.stage = stage, !.received = n]
Counting(r, n) == [r EXCEPT !.received = n, !.old = FALSE]

Row == [status: Statuses \cup {"none"}, received: 0..Size, old: BOOLEAN]

LEMMA CountingFields ==
  ASSUME NEW r \in Row, NEW n \in 0..Size
  PROVE  /\ Counting(r, n) \in Row /\ Counting(r, n).status = r.status
         /\ Counting(r, n).received = n
  BY DEF Row, Counting

LEMMA ReceivedFields ==
  ASSUME NEW p \in Patch, NEW stage \in Stages, NEW n \in 0..Size
  PROVE  /\ At(p, stage, n) \in Patch /\ At(p, stage, n).stage = stage
         /\ At(p, stage, n).upload = p.upload /\ At(p, stage, n).received = n
  BY DEF Patch, Stages, At

LEMMA NameFields ==
  ASSUME NEW p \in Patch, NEW n \in Names
  PROVE  LET q == [p EXCEPT !.stage = "renaming", !.name = n]
         IN  q \in Patch /\ q.stage = "renaming" /\ q.upload = p.upload /\ q.name = n
  BY DEF Patch

\* Files and rows only gain.
Gains ==
    /\ \A u \in Uploads : content[u] \subseteq content'[u]
    /\ \A u \in Uploads : place[u] = "library" => place'[u] = "library"
    /\ \A u \in Uploads : row[u].status # "none" => row'[u].status # "none"

\* p is out, q is in.
Replaced(p, q) ==
    /\ patches' \subseteq (patches \ {p}) \cup {q}
    /\ \A r \in patches \ {p} : r.stage = "renaming" => library'[r.name] = library[r.name]
    /\ q.stage = "renaming" => \A r \in patches \ {p} : r.stage = "renaming" => r.name # q.name

LEMMA OldHandled ==
  ASSUME TypeOK, Gains, NEW r \in Patch, Handled(r),
         r.stage = "renaming" => library'[r.name] = library[r.name]
  PROVE  Handled(r)'
  BY PatchFields DEF Handled, Gains

LEMMA PatchesReplaced ==
  ASSUME TypeOK, PatchInv, Gains, NEW p, NEW q, Replaced(p, q), Handled(q)'
  PROVE  PatchInv'
<1>1. ASSUME NEW r \in patches' PROVE Handled(r)'
  <2>1. CASE r = q
    BY <2>1
  <2>2. CASE r \in patches \ {p}
    BY <2>2, OldHandled DEF PatchInv, Replaced, TypeOK
  <2> QED
    BY <2>1, <2>2 DEF Replaced
<1>2. ASSUME NEW r \in patches', NEW s \in patches', r.stage = "renaming",
             s.stage = "renaming", r.name = s.name
      PROVE  r = s
  BY <1>2 DEF PatchInv, Replaced
<1> QED
  BY <1>1, <1>2 DEF PatchInv

LEMMA PatchesFewer ==
  ASSUME TypeOK, PatchInv, Gains, patches' \subseteq patches,
         \A r \in patches : r.stage = "renaming" => library'[r.name] = library[r.name]
  PROVE  PatchInv'
<1>1. ASSUME NEW r \in patches' PROVE Handled(r)'
  BY OldHandled DEF PatchInv, TypeOK
<1> QED
  BY <1>1 DEF PatchInv

\* The reservations and the handlers behind them stay.
LEMMA LitterKept ==
  ASSUME LitterInv, spent'.restarts = spent.restarts, spent'.restarts <= spent'.troubles,
         \A n \in Names : library'[n] = Reserved => library[n] = Reserved,
         \A r \in patches : r.stage = "renaming" => r \in patches'
  PROVE  LitterInv'
  BY DEF LitterInv, NoLitter

\* A step that leaves the files where they are.
LEMMA PlaceKept ==
  ASSUME PlaceInv, UNCHANGED <<place, library>>,
         \A u \in Uploads : content[u] \subseteq content'[u],
         \A u \in Uploads : row'[u].status = "complete" =>
              row[u].status = "complete" \/ place[u] = "library"
  PROVE  PlaceInv'
  BY DEF PlaceInv

LEMMA ClientKept ==
  ASSUME ClientInv, client' = client,
         \A u \in Uploads : place[u] = "nowhere" => place'[u] = "nowhere",
         \A u \in Uploads : row[u].status # "none" => row'[u].status # "none"
  PROVE  ClientInv'
  BY DEF ClientInv

---------------------------------------------------------------------------
(* The handler of PATCH. *)

LEMMA ArrivesStep ==
  ASSUME UploadsInv, NEW p \in patches, Arrives(p)
  PROVE  UploadsInv'
<1> USE DEF UploadsInv
<1>1. /\ p.stage = "sent" /\ Append(p) /\ p \in Patch
      /\ UNCHANGED <<row, content, place, library, writable, aborting, sweeping, client, spent>>
  BY DEF Arrives, server, disk, TypeOK
<1>2. p.upload \in Uploads /\ p.offset \in 0..Size
  BY <1>1, PatchFields DEF Patch
<1>3. PICK q \in Patch : /\ patches' = (patches \ {p}) \cup {q} /\ q.upload = p.upload
                         /\ q.stage \notin Finalizing
                         /\ q.stage = "writing" => q.received = row[p.upload].received
  <2>1. \A stage \in {"error", "mismatch"} : To(p, stage) =>
            \E q \in Patch : /\ patches' = (patches \ {p}) \cup {q} /\ q.upload = p.upload
                             /\ q.stage \notin Finalizing /\ q.stage # "writing"
    BY <1>1, StageFields DEF To, Becomes, Stages, Finalizing
  <2>2. ASSUME Becomes(p, [p EXCEPT !.stage = "writing", !.received = p.offset])
        PROVE  \E q \in Patch : /\ patches' = (patches \ {p}) \cup {q} /\ q.upload = p.upload
                                /\ q.stage = "writing" /\ q.received = p.offset
    <3> DEFINE q == At(p, "writing", p.offset)
    <3>1. "writing" \in Stages
      BY DEF Stages
    <3>2. q \in Patch /\ q.upload = p.upload /\ q.stage = "writing" /\ q.received = p.offset
      BY <1>1, <1>2, <3>1, ReceivedFields
    <3> QED
      BY <2>2, <3>2 DEF Becomes, At
  <2> QED
    BY <1>1, <2>1, <2>2 DEF Append, Finalizing
<1>4. Replaced(p, q) /\ Gains /\ Handled(q)'
  BY <1>1, <1>2, <1>3 DEF Replaced, Gains, Handled, PatchInv, CountInv, Finalizing
<1>5. PatchInv'
  BY <1>4, PatchesReplaced
<1>6. TypeOK'
  BY <1>1, <1>3 DEF TypeOK
<1>7. CountInv' /\ PlaceInv' /\ ClientInv'
  BY <1>1, PlaceKept, ClientKept DEF CountInv
<1>8. LitterInv'
  BY <1>1, <1>3, LitterKept DEF LitterInv
<1> QED
  BY <1>5, <1>6, <1>7, <1>8

LEMMA WritesStep ==
  ASSUME UploadsInv, NEW p \in patches, Writes(p)
  PROVE  UploadsInv'
<1> USE DEF UploadsInv
<1>1. /\ p.stage = "writing" /\ p.received < p.end /\ p \in Patch
      /\ content' = [content EXCEPT ![p.upload] = @ \cup {p.received}]
      /\ UNCHANGED <<row, place, library, writable, aborting, sweeping, client, spent>>
  BY DEF Writes, TypeOK
<1>2. /\ p.upload \in Uploads /\ p.received \in Nat /\ p.received < Size
      /\ p.received \in Positions /\ p.received + 1 \in 0..Size
  BY <1>1, PatchFields, UploadsAssumption DEF Positions
<1>3. PICK q \in Patch : /\ patches' = (patches \ {p}) \cup {q} /\ q.upload = p.upload
                         /\ q.stage = "writing" /\ q.received = p.received + 1
  <2> DEFINE q == [p EXCEPT !.received = @ + 1]
  <2>1. q \in Patch /\ q.upload = p.upload /\ q.stage = "writing" /\ q.received = p.received + 1
    BY <1>1, <1>2 DEF Patch
  <2> QED
    BY <2>1 DEF Writes, Becomes
<1>4. /\ content'[p.upload] = content[p.upload] \cup {p.received}
      /\ \A u \in Uploads : content[u] \subseteq content'[u]
      /\ content' \in [Uploads -> SUBSET Positions]
  BY <1>1, <1>2 DEF TypeOK
<1>5. Handled(q)'
  <2>1. ASSUME NEW i \in Positions, i < p.received + 1 PROVE i \in content'[p.upload]
    BY <1>1, <1>2, <1>4, <2>1, UploadsAssumption DEF PatchInv, Handled, Positions
  <2> QED
    BY <1>1, <1>3, <2>1 DEF Handled, PatchInv, Finalizing
<1>6. Replaced(p, q) /\ Gains
  BY <1>1, <1>3, <1>4 DEF Replaced, Gains
<1>7. PatchInv'
  BY <1>5, <1>6, PatchesReplaced
<1>8. TypeOK'
  BY <1>1, <1>3, <1>4 DEF TypeOK
<1>9. CountInv' /\ PlaceInv' /\ ClientInv'
  BY <1>1, <1>4, PlaceKept, ClientKept DEF CountInv
<1>10. LitterInv'
  BY <1>1, <1>3, LitterKept DEF LitterInv
<1> QED
  BY <1>7, <1>8, <1>9, <1>10

\* What the handler has written is counted.
LEMMA PersistRow ==
  ASSUME UploadsInv, NEW p \in patches, p.stage = "writing", row' = PersistUpload(p)
  PROVE  /\ row' \in [Uploads -> Row]
         /\ \A u \in Uploads : row'[u].status = row[u].status
         /\ \A u \in Uploads, i \in Positions : i < row'[u].received => i \in content[u]
<1> USE DEF UploadsInv
<1>1. p \in Patch /\ p.upload \in Uploads /\ p.received \in 0..Size
  BY PatchFields DEF TypeOK, Patch
<1>2. row \in [Uploads -> Row]
  BY DEF TypeOK, Row
<1>3. CASE row' = row
  BY <1>2, <1>3 DEF CountInv
<1>4. CASE row' = Stored(p.upload, p.received)
  <2>1. row' = [row EXCEPT ![p.upload] = Counting(row[p.upload], p.received)]
    BY <1>4 DEF Stored, Counting
  <2>2. row[p.upload] \in Row
    BY <1>1, <1>2
  <2>3. /\ Counting(row[p.upload], p.received) \in Row
        /\ Counting(row[p.upload], p.received).status = row[p.upload].status
        /\ Counting(row[p.upload], p.received).received = p.received
    BY <1>1, <2>2, CountingFields
  <2>4. row' \in [Uploads -> Row] /\ \A u \in Uploads : row'[u].status = row[u].status
    BY <1>1, <1>2, <2>1, <2>3
  <2>5. row'[p.upload].received = p.received /\ \A u \in Uploads \ {p.upload} : row'[u] = row[u]
    BY <1>1, <1>2, <2>1, <2>3
  <2> QED
    BY <1>1, <2>4, <2>5 DEF PatchInv, Handled, CountInv
<1> QED
  BY <1>3, <1>4 DEF PersistUpload

LEMMA BodyEndsStep ==
  ASSUME UploadsInv, NEW p \in patches, BodyEnds(p)
  PROVE  UploadsInv'
<1> USE DEF UploadsInv
<1>1. /\ p.stage = "writing" /\ row' = PersistUpload(p) /\ p \in Patch /\ p.upload \in Uploads
      /\ UNCHANGED <<content, place, library, writable, aborting, sweeping, client, spent>>
  BY PatchFields DEF BodyEnds, disk, TypeOK
<1>2. /\ row' \in [Uploads -> Row]
      /\ \A u \in Uploads : row'[u].status = row[u].status
      /\ \A u \in Uploads, i \in Positions : i < row'[u].received => i \in content[u]
  BY <1>1, PersistRow
<1>3. row'[p.upload].status \in Statuses /\ row'[p.upload].received \in 0..Size
  <2>1. row'[p.upload].status # "none"
    BY <1>1, <1>2 DEF PatchInv, Handled
  <2> QED
    BY <1>1, <1>2, <2>1 DEF Row
<1>4. PICK q \in Patch : /\ patches' = (patches \ {p}) \cup {q} /\ q.upload = p.upload
                         /\ \/ q.stage = "resolving" /\ row'[p.upload].received >= Size
                            \/ q.stage \in Statuses
  <2>1. ASSUME row'[p.upload].received >= Size, To(p, "resolving")
        PROVE  \E q \in Patch : /\ patches' = (patches \ {p}) \cup {q} /\ q.upload = p.upload
                                /\ q.stage = "resolving"
    BY <1>1, <2>1, StageFields DEF To, Becomes, Stages
  <2>2. ASSUME UploadAnswers(p, row'[p.upload])
        PROVE  \E q \in Patch : /\ patches' = (patches \ {p}) \cup {q} /\ q.upload = p.upload
                                /\ q.stage \in Statuses
    <3> DEFINE r == row'[p.upload]
               a == At(p, r.status, r.received)
    <3>1. r.status \in Stages
      BY <1>3 DEF Stages
    <3>2. a \in Patch /\ a.upload = p.upload /\ a.stage = r.status
      BY <1>1, <1>3, <3>1, ReceivedFields
    <3> QED
      BY <1>3, <2>2, <3>2 DEF UploadAnswers, Becomes, At
  <2> QED
    BY <2>1, <2>2 DEF BodyEnds
<1>5. q.stage = "resolving" => Positions \subseteq content[p.upload]
  BY <1>1, <1>2, <1>3, <1>4, UploadsAssumption DEF Positions, Statuses
<1>6. Handled(q)'
  BY <1>1, <1>3, <1>4, <1>5 DEF Handled, Statuses, Finalizing
<1>7. Replaced(p, q) /\ Gains
  BY <1>1, <1>2, <1>4 DEF Replaced, Gains, Statuses
<1>8. PatchInv'
  BY <1>6, <1>7, PatchesReplaced
<1>9. TypeOK'
  BY <1>1, <1>2, <1>4 DEF TypeOK, Row
<1>10. CountInv' /\ PlaceInv' /\ ClientInv'
  BY <1>1, <1>2, PlaceKept, ClientKept DEF CountInv
<1>11. LitterInv'
  BY <1>1, <1>4, LitterKept DEF LitterInv
<1> QED
  BY <1>8, <1>9, <1>10, <1>11

LEMMA BodyCutStep ==
  ASSUME UploadsInv, NEW p \in patches, BodyCut(p)
  PROVE  UploadsInv'
<1> USE DEF UploadsInv
<1>1. /\ p.stage = "writing" /\ row' = PersistUpload(p) /\ patches' = patches \ {p}
      /\ UNCHANGED <<content, place, library, writable, aborting, sweeping, client, spent>>
  BY DEF BodyCut, disk
<1>2. /\ row' \in [Uploads -> Row]
      /\ \A u \in Uploads : row'[u].status = row[u].status
      /\ \A u \in Uploads, i \in Positions : i < row'[u].received => i \in content[u]
  BY <1>1, PersistRow
<1>3. PatchInv'
  BY <1>1, <1>2, PatchesFewer DEF Gains
<1>4. TypeOK'
  BY <1>1, <1>2 DEF TypeOK, Row
<1>5. CountInv' /\ PlaceInv' /\ ClientInv'
  BY <1>1, <1>2, PlaceKept, ClientKept DEF CountInv
<1>6. LitterInv'
  BY <1>1, LitterKept DEF LitterInv
<1> QED
  BY <1>3, <1>4, <1>5, <1>6

---------------------------------------------------------------------------
(* finalize. *)

LEMMA ResolvesStep ==
  ASSUME UploadsInv, NEW p \in patches, Resolves(p)
  PROVE  UploadsInv'
<1> USE DEF UploadsInv
<1>1. /\ p.stage = "resolving" /\ p \in Patch /\ p.upload \in Uploads
      /\ UNCHANGED <<row, content, place, library, writable, aborting, sweeping, client, spent>>
  BY PatchFields DEF Resolves, server, disk, TypeOK
<1>2. PICK stage \in {"reserving", "error"} : To(p, stage)
  BY DEF Resolves
<1>3. PICK q \in Patch : /\ patches' = (patches \ {p}) \cup {q} /\ q.upload = p.upload
                         /\ q.stage = stage
  <2>1. stage \in Stages
    BY DEF Stages
  <2> QED
    BY <1>1, <1>2, <2>1, StageFields DEF To, Becomes
<1>4. Replaced(p, q) /\ Gains /\ Handled(q)'
  BY <1>1, <1>3 DEF Replaced, Gains, Handled, PatchInv, Finalizing
<1>5. PatchInv'
  BY <1>4, PatchesReplaced
<1>6. TypeOK'
  BY <1>1, <1>3 DEF TypeOK
<1>7. CountInv' /\ PlaceInv' /\ ClientInv'
  BY <1>1, PlaceKept, ClientKept DEF CountInv
<1>8. LitterInv'
  BY <1>1, <1>3, LitterKept DEF LitterInv
<1> QED
  BY <1>5, <1>6, <1>7, <1>8

LEMMA ReservesStep ==
  ASSUME UploadsInv, NEW p \in patches, Reserves(p)
  PROVE  UploadsInv'
<1> USE DEF UploadsInv
<1>1. /\ p.stage = "reserving" /\ p \in Patch /\ p.upload \in Uploads
      /\ UNCHANGED <<row, content, place, writable, aborting, sweeping, client, spent>>
  BY PatchFields DEF Reserves, TypeOK
<1>2. Gains /\ CountInv' /\ ClientInv'
  BY <1>1, ClientKept DEF Gains, CountInv
<1>3. ASSUME NEW n \in Names, library[n] = Free,
             Becomes(p, [p EXCEPT !.stage = "renaming", !.name = n]),
             library' = [library EXCEPT ![n] = Reserved]
      PROVE  UploadsInv'
  <2>1. PICK q \in Patch : /\ patches' = (patches \ {p}) \cup {q} /\ q.upload = p.upload
                           /\ q.stage = "renaming" /\ q.name = n
    BY <1>1, <1>3, NameFields DEF Becomes
  <2>2. /\ library'[n] = Reserved /\ \A m \in Names \ {n} : library'[m] = library[m]
        /\ library' \in [Names -> Uploads \cup {Free, Reserved}]
    BY <1>3 DEF TypeOK
  <2>3. \A r \in patches : r.stage = "renaming" =>
            r.name \in Names /\ r.name # n /\ library'[r.name] = library[r.name]
    BY <1>3, <2>2, UploadsAssumption DEF PatchInv, Handled
  <2>4. Handled(q)'
    BY <1>1, <2>1, <2>2 DEF Handled, PatchInv, Finalizing
  <2>5. Replaced(p, q)
    BY <2>1, <2>3 DEF Replaced
  <2>6. PatchInv'
    BY <1>2, <2>4, <2>5, PatchesReplaced
  <2>7. TypeOK'
    BY <1>1, <2>1, <2>2 DEF TypeOK
  <2>8. PlaceInv'
    <3>1. \A u \in Uploads, m \in Names : library'[m] = u <=> library[m] = u
      BY <1>3, <2>2, UploadsAssumption
    <3> QED
      BY <1>1, <3>1 DEF PlaceInv
  <2>9. LitterInv'
    BY <1>1, <2>1, <2>2 DEF LitterInv, NoLitter
  <2> QED
    BY <1>2, <2>6, <2>7, <2>8, <2>9
<1>4. ASSUME To(p, "error"), UNCHANGED library
      PROVE  UploadsInv'
  <2>1. PICK q \in Patch : /\ patches' = (patches \ {p}) \cup {q} /\ q.upload = p.upload
                           /\ q.stage = "error"
    <3>1. "error" \in Stages
      BY DEF Stages
    <3> QED
      BY <1>1, <1>4, <3>1, StageFields DEF To, Becomes
  <2>2. Replaced(p, q) /\ Handled(q)'
    BY <1>1, <1>4, <2>1 DEF Replaced, Handled, PatchInv, Finalizing
  <2>3. PatchInv'
    BY <1>2, <2>2, PatchesReplaced
  <2>4. TypeOK' /\ PlaceInv'
    BY <1>1, <1>4, <2>1, PlaceKept DEF TypeOK
  <2>5. LitterInv'
    BY <1>1, <1>4, <2>1, LitterKept DEF LitterInv
  <2> QED
    BY <1>2, <2>3, <2>4, <2>5
<1> QED
  BY <1>3, <1>4 DEF Reserves, Reserve, FirstFree, FreeNames

LEMMA RenamesStep ==
  ASSUME UploadsInv, NEW p \in patches, Renames(p)
  PROVE  UploadsInv'
<1> USE DEF UploadsInv
<1>1. /\ p.stage = "renaming" /\ p \in Patch /\ p.upload \in Uploads
      /\ p.name \in Names /\ library[p.name] = Reserved
      /\ Positions \subseteq content[p.upload] /\ row[p.upload].status # "none"
      /\ UNCHANGED <<row, content, writable, aborting, sweeping, client, spent>>
  BY PatchFields DEF Renames, TypeOK, PatchInv, Handled, Finalizing
<1>2. CountInv'
  BY <1>1 DEF CountInv
<1>3. \A r \in patches \ {p} : r.stage = "renaming" => r.name \in Names /\ r.name # p.name
  BY <1>1 DEF PatchInv, Handled
<1>4. CASE place[p.upload] = "temp"
  <2>1. /\ place' = [place EXCEPT ![p.upload] = "library"]
        /\ library' = [library EXCEPT ![p.name] = p.upload]
        /\ To(p, "stamping")
    BY <1>4 DEF Renames, Rename
  <2>2. PICK q \in Patch : /\ patches' = (patches \ {p}) \cup {q} /\ q.upload = p.upload
                           /\ q.stage = "stamping"
    <3>1. "stamping" \in Stages
      BY DEF Stages
    <3> QED
      BY <1>1, <2>1, <3>1, StageFields DEF To, Becomes
  <2>3. /\ library'[p.name] = p.upload /\ \A m \in Names \ {p.name} : library'[m] = library[m]
        /\ library' \in [Names -> Uploads \cup {Free, Reserved}]
        /\ place'[p.upload] = "library" /\ \A u \in Uploads \ {p.upload} : place'[u] = place[u]
        /\ place' \in [Uploads -> {"nowhere", "temp", "library"}]
    BY <1>1, <2>1 DEF TypeOK
  <2>4. Gains /\ Replaced(p, q) /\ Handled(q)'
    BY <1>1, <1>3, <2>2, <2>3 DEF Gains, Replaced, Handled, Finalizing
  <2>5. PatchInv'
    BY <2>4, PatchesReplaced
  <2>6. TypeOK'
    BY <1>1, <2>2, <2>3 DEF TypeOK
  <2>7. PlaceInv'
    <3>1. ASSUME NEW u \in Uploads, u # p.upload
          PROVE  \A m \in Names : library'[m] = u <=> library[m] = u
      BY <1>1, <2>3, <3>1, UploadsAssumption
    <3>2. \A m \in Names : library'[m] = p.upload <=> m = p.name
      BY <1>1, <1>4, <2>3 DEF PlaceInv
    <3>3. ASSUME NEW u \in Uploads, u # p.upload
          PROVE  /\ place'[u] = "library" =>
                       /\ Positions \subseteq content'[u]
                       /\ \E n \in Names : \A m \in Names : library'[m] = u <=> m = n
                 /\ place'[u] # "library" => \A n \in Names : library'[n] # u
                 /\ row'[u].status = "complete" => place'[u] = "library"
      BY <1>1, <2>3, <3>1, <3>3 DEF PlaceInv
    <3>4. Positions \subseteq content'[p.upload]
      BY <1>1
    <3> QED
      BY <1>1, <2>3, <3>2, <3>3, <3>4 DEF PlaceInv
  <2>8. ClientInv'
    BY <1>1, <1>4, <2>3 DEF ClientInv
  <2>9. LitterInv'
    BY <1>1, <2>2, <2>3, UploadsAssumption DEF LitterInv, NoLitter
  <2> QED
    BY <1>2, <2>5, <2>6, <2>7, <2>8, <2>9
<1>5. CASE place[p.upload] # "temp"
  <2>1. /\ library' = [library EXCEPT ![p.name] = Free] /\ To(p, "error") /\ place' = place
    BY <1>5 DEF Renames, Rename
  <2>2. PICK q \in Patch : /\ patches' = (patches \ {p}) \cup {q} /\ q.upload = p.upload
                           /\ q.stage = "error"
    <3>1. "error" \in Stages
      BY DEF Stages
    <3> QED
      BY <1>1, <2>1, <3>1, StageFields DEF To, Becomes
  <2>3. /\ library'[p.name] = Free /\ \A m \in Names \ {p.name} : library'[m] = library[m]
        /\ library' \in [Names -> Uploads \cup {Free, Reserved}]
    BY <1>1, <2>1 DEF TypeOK
  <2>4. Gains /\ Replaced(p, q) /\ Handled(q)'
    BY <1>1, <1>3, <2>1, <2>2, <2>3 DEF Gains, Replaced, Handled, Finalizing
  <2>5. PatchInv'
    BY <2>4, PatchesReplaced
  <2>6. TypeOK'
    BY <1>1, <2>1, <2>2, <2>3 DEF TypeOK
  <2>7. PlaceInv'
    <3>1. \A u \in Uploads, m \in Names : library'[m] = u <=> library[m] = u
      BY <1>1, <2>3, UploadsAssumption
    <3> QED
      BY <1>1, <2>1, <3>1 DEF PlaceInv
  <2>8. ClientInv'
    BY <1>1, <2>1, ClientKept
  <2>9. LitterInv'
    BY <1>1, <2>2, <2>3, UploadsAssumption DEF LitterInv, NoLitter
  <2> QED
    BY <1>2, <2>5, <2>6, <2>7, <2>8, <2>9
<1> QED
  BY <1>4, <1>5

LEMMA CompletesStep ==
  ASSUME UploadsInv, NEW p \in patches, Completes(p)
  PROVE  UploadsInv'
<1> USE DEF UploadsInv
<1> DEFINE done == [status |-> "complete", received |-> Size, old |-> FALSE]
<1>1. /\ p.stage = "stamping" /\ p \in Patch /\ p.upload \in Uploads
      /\ Positions \subseteq content[p.upload] /\ place[p.upload] = "library"
      /\ row' = [row EXCEPT ![p.upload] = done] /\ UploadAnswers(p, row'[p.upload])
      /\ UNCHANGED <<content, place, library, writable, aborting, sweeping, client, spent>>
  BY PatchFields DEF Completes, disk, TypeOK, PatchInv, Handled, Finalizing
<1>2. done \in Row /\ done.status = "complete" /\ done.received = Size /\ Size \in 0..Size
  BY UploadsAssumption DEF Row, Statuses
<1> HIDE DEF done
<1>3. /\ row'[p.upload] = done /\ \A u \in Uploads \ {p.upload} : row'[u] = row[u]
      /\ row' \in [Uploads -> Row]
  BY <1>1, <1>2 DEF TypeOK, Row
<1>4. PICK q \in Patch : /\ patches' = (patches \ {p}) \cup {q} /\ q.upload = p.upload
                         /\ q.stage = "complete"
  <2> DEFINE q == At(p, "complete", Size)
  <2>1. "complete" \in Stages
    BY DEF Stages, Statuses
  <2>2. q \in Patch /\ q.upload = p.upload /\ q.stage = "complete"
    BY <1>1, <1>2, <2>1, ReceivedFields
  <2>3. patches' = (patches \ {p}) \cup {q}
    BY <1>1, <1>2, <1>3 DEF UploadAnswers, Becomes, At
  <2> QED
    BY <2>2, <2>3
<1>5. \A u \in Uploads : row[u].status # "none" => row'[u].status # "none"
  BY <1>2, <1>3
<1>6. Gains /\ Replaced(p, q) /\ Handled(q)'
  BY <1>1, <1>2, <1>3, <1>4, <1>5 DEF Gains, Replaced, Handled, Finalizing
<1>7. PatchInv'
  BY <1>6, PatchesReplaced
<1>8. TypeOK'
  BY <1>1, <1>3, <1>4 DEF TypeOK, Row
<1>9. CountInv'
  BY <1>1, <1>3 DEF CountInv
<1>10. PlaceInv' /\ ClientInv'
  <2>1. \A u \in Uploads : row'[u].status = "complete" =>
            row[u].status = "complete" \/ place[u] = "library"
    BY <1>1, <1>3
  <2> QED
    BY <1>1, <1>5, <2>1, PlaceKept, ClientKept
<1>11. LitterInv'
  BY <1>1, <1>4, LitterKept DEF LitterInv
<1> QED
  BY <1>7, <1>8, <1>9, <1>10, <1>11

\* A request that is gone changes nothing else.
LEMMA DroppedStep ==
  ASSUME UploadsInv, NEW p \in patches, patches' = patches \ {p}, p.stage \notin Finalizing,
         UNCHANGED <<row, content, place, library, writable, aborting, sweeping, spent>>,
         client' \in [Uploads -> Client]
  PROVE  TypeOK' /\ PatchInv' /\ CountInv' /\ PlaceInv' /\ LitterInv'
<1> USE DEF UploadsInv
<1>1. PatchInv'
  BY PatchesFewer DEF Gains
<1>2. CountInv' /\ PlaceInv'
  BY PlaceKept DEF CountInv
<1>3. LitterInv'
  BY LitterKept DEF LitterInv, Finalizing
<1>4. TypeOK'
  BY DEF TypeOK
<1> QED
  BY <1>1, <1>2, <1>3, <1>4

LEMMA HandlerStep ==
  ASSUME UploadsInv, NEW p \in patches, Handler(p)
  PROVE  UploadsInv'
<1>1. CASE AnswerDropped(p)
  <2>1. /\ patches' = patches \ {p} /\ p.stage \notin Finalizing
        /\ UNCHANGED <<row, content, place, library, writable, aborting, sweeping, client, spent>>
    BY <1>1 DEF AnswerDropped, server, disk, Answered, Finalizing, Statuses
  <2>2. client' \in [Uploads -> Client] /\ ClientInv'
    BY <2>1, ClientKept DEF UploadsInv, TypeOK
  <2> QED
    BY <2>1, <2>2, DroppedStep DEF UploadsInv
<1> QED
  BY <1>1, ArrivesStep, WritesStep, BodyEndsStep, BodyCutStep, ResolvesStep, ReservesStep,
     RenamesStep, CompletesStep DEF Handler

---------------------------------------------------------------------------
(* Aborts, the sweep, the operator and restarts. *)

\* A row that is given up.
Given(r) == [r EXCEPT !.status = "aborted", !.old = FALSE]

LEMMA GivenFields ==
  ASSUME NEW r \in Row
  PROVE  Given(r) \in Row /\ Given(r).status = "aborted" /\ Given(r).received = r.received
  BY DEF Row, Given, Statuses

LEMMA TroubleFields ==
  ASSUME TypeOK, LitterInv, NEW n \in {0, 1}, Trouble(n)
  PROVE  /\ spent' \in [losses: 0..MaxLosses, troubles: 0..MaxTroubles, restarts: 0..MaxTroubles]
         /\ spent'.restarts = spent.restarts + n /\ spent'.restarts <= spent'.troubles
         /\ spent.restarts \in Nat
<1>1. /\ spent \in [losses: 0..MaxLosses, troubles: 0..MaxTroubles, restarts: 0..MaxTroubles]
      /\ spent.troubles < MaxTroubles /\ spent.restarts <= spent.troubles
      /\ spent' = [spent EXCEPT !.troubles = spent.troubles + 1, !.restarts = spent.restarts + n]
  BY DEF TypeOK, LitterInv, Trouble
<1>2. /\ spent.troubles \in Nat /\ spent.restarts \in Nat /\ spent.losses \in 0..MaxLosses
  BY <1>1, UploadsAssumption
<1>3. /\ spent' = [losses |-> spent.losses, troubles |-> spent.troubles + 1,
                   restarts |-> spent.restarts + n]
  BY <1>1
<1> QED
  BY <1>1, <1>2, <1>3, UploadsAssumption

\* Rows change, and what is on the disk and in the requests does not.
LEMMA RowsStep ==
  ASSUME UploadsInv, row' \in [Uploads -> Row],
         UNCHANGED <<content, place, library, writable, patches, client, spent>>,
         aborting' \in [Uploads -> {"no", "checked", "removed"}], sweeping' \in BOOLEAN,
         \A u \in Uploads : row'[u].received = row[u].received,
         \A u \in Uploads : row'[u].status = row[u].status \/ row'[u].status = "aborted"
  PROVE  UploadsInv'
<1> USE DEF UploadsInv
<1>1. TypeOK'
  BY DEF TypeOK, Row
<1>2. \A u \in Uploads : row[u].status # "none" => row'[u].status # "none"
  OBVIOUS
<1>3. PatchInv'
  BY <1>2, PatchesFewer DEF Gains
<1>4. CountInv'
  BY DEF CountInv
<1>5. PlaceInv' /\ ClientInv'
  BY <1>2, PlaceKept, ClientKept
<1>6. LitterInv'
  BY LitterKept DEF LitterInv
<1> QED
  BY <1>1, <1>3, <1>4, <1>5, <1>6

\* Temporary files go, or nothing does.
LEMMA FilesStep ==
  ASSUME UploadsInv, TypeOK', UNCHANGED <<row, content, library, client>>,
         patches' \subseteq patches,
         \A u \in Uploads : \/ place'[u] = place[u]
                            \/ place[u] = "temp" /\ place'[u] = "nowhere",
         LitterInv'
  PROVE  UploadsInv'
<1> USE DEF UploadsInv
<1>1. PatchInv'
  BY PatchesFewer DEF Gains
<1>2. CountInv'
  BY DEF CountInv
<1>3. PlaceInv'
  BY DEF PlaceInv
<1>4. ClientInv'
  BY ClientKept
<1> QED
  BY <1>1, <1>2, <1>3, <1>4

LEMMA AbortStep ==
  ASSUME UploadsInv, NEW u \in Uploads,
         AbortBegins(u) \/ AbortRemoves(u) \/ AbortEnds(u)
  PROVE  UploadsInv'
<1> USE DEF UploadsInv
<1>1. row \in [Uploads -> Row]
  BY DEF TypeOK, Row
<1>2. CASE AbortBegins(u)
  <2>1. Trouble(0) /\ UNCHANGED <<row, content, place, library, writable, sweeping, patches, client>>
    BY <1>2 DEF AbortBegins, disk
  <2>2. spent'.restarts = spent.restarts /\ spent'.restarts <= spent'.troubles
    BY <2>1, TroubleFields
  <2>3. TypeOK'
    BY <1>2, <2>1, TroubleFields DEF AbortBegins, TypeOK
  <2>4. LitterInv'
    BY <2>1, <2>2, LitterKept
  <2> QED
    BY <2>1, <2>3, <2>4, FilesStep
<1>3. CASE AbortRemoves(u)
  <2>1. /\ UNCHANGED <<row, content, library, writable, sweeping, patches, client, spent>>
        /\ aborting' = [aborting EXCEPT ![u] = "removed"]
        /\ place' = [place EXCEPT ![u] = IF @ = "temp" THEN "nowhere" ELSE @]
    BY <1>3 DEF AbortRemoves, Remove
  <2>2. \A v \in Uploads : place'[v] = place[v] \/ (place[v] = "temp" /\ place'[v] = "nowhere")
    BY <2>1 DEF TypeOK
  <2>3. TypeOK'
    BY <2>1 DEF TypeOK
  <2>4. LitterInv'
    BY <2>1, LitterKept DEF LitterInv
  <2> QED
    BY <2>1, <2>2, <2>3, <2>4, FilesStep
<1>4. CASE AbortEnds(u)
  <2>1. /\ row' = [row EXCEPT ![u] = Given(row[u])]
        /\ aborting' = [aborting EXCEPT ![u] = "no"]
        /\ UNCHANGED <<content, place, library, writable, sweeping, patches, client, spent>>
    BY <1>4 DEF AbortEnds, disk, Given
  <2>2. /\ row' \in [Uploads -> Row]
        /\ row'[u].status = "aborted" /\ row'[u].received = row[u].received
        /\ \A v \in Uploads \ {u} : row'[v] = row[v]
    BY <1>1, <2>1, GivenFields
  <2>3. aborting' \in [Uploads -> {"no", "checked", "removed"}] /\ sweeping' \in BOOLEAN
    BY <2>1 DEF TypeOK
  <2> QED
    BY <2>1, <2>2, <2>3, RowsStep
<1> QED
  BY <1>2, <1>3, <1>4

LEMMA GrowsOldStep ==
  ASSUME UploadsInv, NEW u \in Uploads, GrowsOld(u)
  PROVE  UploadsInv'
<1> DEFINE aged == [row[u] EXCEPT !.old = TRUE]
<1>1. /\ row' = [row EXCEPT ![u] = aged] /\ row \in [Uploads -> Row]
      /\ UNCHANGED <<content, place, library, writable, aborting, sweeping, patches, client, spent>>
  BY DEF GrowsOld, disk, UploadsInv, TypeOK, Row
<1>2. aged \in Row /\ aged.status = row[u].status /\ aged.received = row[u].received
  <2>1. row[u] \in Row
    BY <1>1
  <2> QED
    BY <2>1 DEF Row
<1> HIDE DEF aged
<1>3. /\ row' \in [Uploads -> Row] /\ row'[u] = aged
      /\ \A v \in Uploads \ {u} : row'[v] = row[v]
  BY <1>1, <1>2
<1> QED
  BY <1>1, <1>2, <1>3, RowsStep DEF UploadsInv, TypeOK

LEMMA SweepStep ==
  ASSUME UploadsInv, Sweep
  PROVE  UploadsInv'
<1>1. /\ \A u \in Uploads : row'[u] = row[u] \/ row'[u] = Given(row[u])
      /\ row' = [u \in Uploads |-> row'[u]] /\ row \in [Uploads -> Row]
      /\ sweeping' = FALSE
      /\ UNCHANGED <<content, place, library, writable, aborting, patches, client, spent>>
  BY DEF Sweep, disk, Given, UploadsInv, TypeOK, Row
<1>2. \A u \in Uploads :
          /\ row'[u] \in Row /\ row'[u].received = row[u].received
          /\ row'[u].status = row[u].status \/ row'[u].status = "aborted"
  BY <1>1, GivenFields
<1>3. row' \in [Uploads -> Row]
  BY <1>1, <1>2
<1> QED
  BY <1>1, <1>2, <1>3, RowsStep DEF UploadsInv, TypeOK

LEMMA RestartStep ==
  ASSUME UploadsInv, Restart
  PROVE  UploadsInv'
<1> USE DEF UploadsInv
<1>1. /\ Trouble(1) /\ patches' = {} /\ sweeping' = TRUE
      /\ place' = [u \in Uploads |-> IF place[u] = "temp" THEN "nowhere" ELSE place[u]]
      /\ aborting' = [u \in Uploads |-> "no"]
      /\ UNCHANGED <<row, content, library, writable, client>>
  BY DEF Restart
<1>2. TypeOK'
  BY <1>1, TroubleFields DEF TypeOK
<1>3. LitterInv'
  <2>1. spent'.restarts # 0 /\ spent'.restarts <= spent'.troubles
    BY <1>1, TroubleFields
  <2> QED
    BY <2>1 DEF LitterInv, NoLitter
<1>4. \A u \in Uploads : place'[u] = place[u] \/ (place[u] = "temp" /\ place'[u] = "nowhere")
  BY <1>1
<1> QED
  BY <1>1, <1>2, <1>3, <1>4, FilesStep

LEMMA ToggleStep ==
  ASSUME UploadsInv, ToggleWritable
  PROVE  UploadsInv'
<1> USE DEF UploadsInv
<1>1. /\ Trouble(0) /\ writable' = ~writable
      /\ UNCHANGED <<row, content, place, library, aborting, sweeping, patches, client>>
  BY DEF ToggleWritable, disk
<1>2. spent'.restarts = spent.restarts /\ spent'.restarts <= spent'.troubles
  BY <1>1, TroubleFields
<1>3. TypeOK'
  BY <1>1, TroubleFields DEF TypeOK
<1>4. LitterInv'
  BY <1>1, <1>2, LitterKept
<1> QED
  BY <1>1, <1>3, <1>4, FilesStep

LEMMA ServerMoves ==
  ASSUME UploadsInv, ServerStep
  PROVE  UploadsInv'
  BY HandlerStep, AbortStep, GrowsOldStep, SweepStep, RestartStep, ToggleStep DEF ServerStep

---------------------------------------------------------------------------
(* The uploaders. *)

LEMMA ClientFields ==
  ASSUME UploadsInv, NEW u \in Uploads
  PROVE  /\ client[u] \in Client /\ client[u].attempt \in Nat /\ client[u].attempt <= MaxAttempts
         /\ client[u].received \in 0..Size /\ client[u].status \in Statuses \cup {"none"}
         /\ client[u].phase # "idle" => row[u].status # "none"
         /\ client[u].phase \notin {"failed", "done"} => client[u].attempt < MaxAttempts
         /\ client[u].call # NoCall => client[u].phase = "patching"
<1>1. client[u] \in Client
  BY DEF UploadsInv, TypeOK
<1> QED
  BY <1>1, UploadsAssumption DEF Client, UploadsInv, ClientInv

Phases == {"idle", "loop", "patching", "asking", "failed", "done"}

\* The uploader r in another phase, with another attempt or request.
In(r, phase, attempt, call) ==
    [r EXCEPT !.call = call, !.attempt = attempt, !.phase = phase]

LEMMA InFields ==
  ASSUME NEW r \in Client, NEW phase \in Phases, NEW attempt \in 0..MaxAttempts,
         NEW call \in Calls \cup {NoCall}
  PROVE  /\ In(r, phase, attempt, call) \in Client /\ In(r, phase, attempt, call).phase = phase
         /\ In(r, phase, attempt, call).attempt = attempt
         /\ In(r, phase, attempt, call).call = call
  BY DEF Client, In, Phases

\* An uploader that has begun goes on to c.
LEMMA GoesOn ==
  ASSUME UploadsInv, NEW u \in Uploads, NEW c \in Client, client[u].phase # "idle",
         client' = [client EXCEPT ![u] = c], row' = row, place' = place,
         c.phase # "idle", c.phase \notin {"failed", "done"} => c.attempt < MaxAttempts,
         c.call # NoCall => c.phase = "patching"
  PROVE  client' \in [Uploads -> Client] /\ ClientInv'
<1>1. /\ client' \in [Uploads -> Client] /\ client'[u] = c
      /\ \A v \in Uploads \ {u} : client'[v] = client[v]
  BY DEF UploadsInv, TypeOK
<1> QED
  BY <1>1 DEF UploadsInv, ClientInv

LEMMA TriesAgainMoves ==
  ASSUME UploadsInv, NEW u \in Uploads, client[u].phase = "patching", TriesAgain(u),
         row' = row, place' = place
  PROVE  client' \in [Uploads -> Client] /\ ClientInv'
<1> DEFINE n == client[u].attempt + 1
           ph == IF u \in Desktop \/ n >= MaxAttempts THEN "failed" ELSE "asking"
           c == In(client[u], ph, n, NoCall)
<1>1. /\ client[u] \in Client /\ n \in 0..MaxAttempts /\ ph \in Phases
      /\ ph # "idle" /\ (ph \notin {"failed", "done"} => n < MaxAttempts)
  BY ClientFields, UploadsAssumption DEF Phases
<1>2. client' = [client EXCEPT ![u] = c]
  BY DEF TriesAgain, In
<1> HIDE DEF n, ph
<1>3. c \in Client /\ c.phase = ph /\ c.attempt = n /\ c.call = NoCall
  BY <1>1, InFields
<1> HIDE DEF c
<1> QED
  BY <1>1, <1>2, <1>3, GoesOn

LEMMA GivesUpMoves ==
  ASSUME UploadsInv, NEW u \in Uploads, client[u].phase # "idle", GivesUp(u),
         row' = row, place' = place
  PROVE  client' \in [Uploads -> Client] /\ ClientInv'
<1> DEFINE c == [client[u] EXCEPT !.call = NoCall, !.phase = "failed"]
<1>1. client[u] \in Client /\ client' = [client EXCEPT ![u] = c]
  BY ClientFields DEF GivesUp
<1>2. c \in Client /\ c.phase = "failed" /\ c.call = NoCall
  BY <1>1 DEF Client
<1> HIDE DEF c
<1> QED
  BY <1>1, <1>2, GoesOn

LEMMA LosesFields ==
  ASSUME UploadsInv, Loses \/ UNCHANGED spent
  PROVE  /\ spent' \in [losses: 0..MaxLosses, troubles: 0..MaxTroubles, restarts: 0..MaxTroubles]
         /\ spent'.restarts = spent.restarts /\ spent'.restarts <= spent'.troubles
<1>1. /\ spent \in [losses: 0..MaxLosses, troubles: 0..MaxTroubles, restarts: 0..MaxTroubles]
      /\ spent.restarts <= spent.troubles
  BY DEF UploadsInv, TypeOK, LitterInv
<1>2. CASE UNCHANGED spent
  BY <1>1, <1>2
<1>3. CASE Loses
  <2>1. spent.losses < MaxLosses /\ spent.losses \in Nat /\ MaxLosses \in Nat
        /\ spent' = [spent EXCEPT !.losses = spent.losses + 1]
    BY <1>1, <1>3, UploadsAssumption DEF Loses
  <2>2. spent.losses + 1 \in 0..MaxLosses
    BY <2>1
  <2> QED
    BY <1>1, <2>1, <2>2
<1> QED
  BY <1>2, <1>3

\* Only the uploader moves.
LEMMA OnlyClient ==
  ASSUME UploadsInv, UNCHANGED <<server, patches>>, Loses \/ UNCHANGED spent,
         client' \in [Uploads -> Client], ClientInv'
  PROVE  UploadsInv'
<1> USE DEF UploadsInv
<1>1. UNCHANGED <<row, content, place, library, writable, aborting, sweeping, patches>>
  BY DEF server, disk
<1>2. PatchInv'
  BY <1>1, PatchesFewer DEF Gains
<1>3. CountInv' /\ PlaceInv'
  BY <1>1, PlaceKept DEF CountInv
<1>4. LitterInv'
  BY <1>1, LosesFields, LitterKept
<1>5. TypeOK'
  BY <1>1, LosesFields DEF TypeOK
<1> QED
  BY <1>2, <1>3, <1>4, <1>5

LEMMA CreateStep ==
  ASSUME UploadsInv, NEW u \in Uploads, Create(u)
  PROVE  UploadsInv'
<1> USE DEF UploadsInv
<1> DEFINE fresh == [status |-> "active", received |-> 0, old |-> FALSE]
           c == [client[u] EXCEPT !.phase = "loop", !.status = "active"]
<1>1. /\ client[u].phase = "idle" /\ row' = [row EXCEPT ![u] = fresh]
      /\ place' = [place EXCEPT ![u] = "temp"] /\ client' = [client EXCEPT ![u] = c]
      /\ UNCHANGED <<content, library, writable, patches, aborting, sweeping, spent>>
  BY DEF Create
<1>2. /\ c \in Client /\ c.phase = "loop" /\ c.attempt < MaxAttempts
      /\ c.call = NoCall
  <2>1. client[u] \in Client /\ client[u].attempt < MaxAttempts /\ client[u].call = NoCall
    BY <1>1, ClientFields
  <2> QED
    BY <2>1 DEF Client, Statuses
<1>3. /\ fresh \in Row /\ fresh.status = "active" /\ fresh.received = 0
      /\ fresh.status # "none" /\ fresh.status # "complete"
  BY UploadsAssumption DEF Row, Statuses
<1>4. place[u] = "nowhere"
  BY <1>1 DEF ClientInv
<1> HIDE DEF fresh, c
<1>5. /\ row' \in [Uploads -> Row] /\ row'[u] = fresh
      /\ \A v \in Uploads \ {u} : row'[v] = row[v]
      /\ place'[u] = "temp" /\ \A v \in Uploads \ {u} : place'[v] = place[v]
      /\ place' \in [Uploads -> {"nowhere", "temp", "library"}]
      /\ client' \in [Uploads -> Client] /\ client'[u] = c
      /\ \A v \in Uploads \ {u} : client'[v] = client[v]
  BY <1>1, <1>2, <1>3 DEF TypeOK, Row
<1>6. TypeOK'
  BY <1>1, <1>5 DEF TypeOK, Row
<1>7. PatchInv'
  <2>1. Gains
    BY <1>1, <1>3, <1>4, <1>5 DEF Gains
  <2> QED
    BY <1>1, <2>1, PatchesFewer
<1>8. CountInv'
  BY <1>1, <1>3, <1>5 DEF CountInv, Positions
<1>9. PlaceInv'
  <2>1. \A n \in Names : library'[n] # u
    BY <1>1, <1>4 DEF PlaceInv
  <2>2. ASSUME NEW v \in Uploads, v # u
        PROVE  /\ place'[v] = "library" =>
                     /\ Positions \subseteq content'[v]
                     /\ \E n \in Names : \A m \in Names : library'[m] = v <=> m = n
               /\ place'[v] # "library" => \A n \in Names : library'[n] # v
               /\ row'[v].status = "complete" => place'[v] = "library"
    BY <1>1, <1>5, <2>2 DEF PlaceInv
  <2> QED
    BY <1>3, <1>5, <2>1, <2>2 DEF PlaceInv
<1>10. ClientInv'
  BY <1>2, <1>3, <1>5 DEF ClientInv
<1>11. LitterInv'
  BY <1>1, LitterKept DEF LitterInv
<1> QED
  BY <1>6, <1>7, <1>8, <1>9, <1>10, <1>11

LEMMA SendsChunkStep ==
  ASSUME UploadsInv, NEW u \in Uploads, NEW k \in Calls, SendsChunk(u, k)
  PROVE  UploadsInv'
<1> USE DEF UploadsInv
<1> DEFINE at == client[u].received
           end == IF at + ChunkSize < Size THEN at + ChunkSize ELSE Size
           chunk == [call |-> k, upload |-> u, offset |-> at, received |-> at, name |-> 0,
                     end |-> end, stage |-> "sent"]
           c == [client[u] EXCEPT !.phase = "patching", !.call = k]
<1>1. /\ client[u].phase = "loop" /\ patches' = patches \cup {chunk}
      /\ client' = [client EXCEPT ![u] = c]
      /\ UNCHANGED <<row, content, place, library, writable, aborting, sweeping, spent>>
  BY DEF SendsChunk, server, disk
<1>2. /\ client[u] \in Client /\ at \in 0..Size /\ row[u].status # "none"
      /\ client[u].attempt < MaxAttempts
  BY <1>1, ClientFields
<1>3. end \in 0..Size
  BY <1>2, UploadsAssumption
<1>4. chunk \in Patch /\ chunk.stage = "sent" /\ chunk.upload = u
  BY <1>2, <1>3 DEF Patch
<1>5. c \in Client /\ c.phase = "patching" /\ c.attempt < MaxAttempts
  BY <1>2 DEF Client
<1> HIDE DEF chunk, c
<1>6. PICK q \in Patch : patches' = patches \cup {q} /\ q.stage = "sent" /\ q.upload = u
  BY <1>1, <1>4
<1>7. client' \in [Uploads -> Client] /\ ClientInv'
  BY <1>1, <1>5, GoesOn
<1>8. Replaced(q, q) /\ Gains /\ Handled(q)'
  BY <1>6, <1>1, <1>2 DEF Replaced, Gains, Handled, Finalizing
<1>9. PatchInv'
  BY <1>8, PatchesReplaced
<1>10. TypeOK'
  BY <1>6, <1>1, <1>7 DEF TypeOK
<1>11. CountInv' /\ PlaceInv'
  BY <1>1, PlaceKept DEF CountInv
<1>12. LitterInv'
  BY <1>6, <1>1, LitterKept DEF LitterInv
<1> QED
  BY <1>7, <1>9, <1>10, <1>11, <1>12

LEMMA GetsAnswerStep ==
  ASSUME UploadsInv, NEW u \in Uploads, NEW p \in patches, GetsAnswer(u, p)
  PROVE  UploadsInv'
<1>1. /\ client[u].call = p.call /\ Answered(p) /\ patches' = patches \ {p} /\ p \in Patch
      /\ UNCHANGED <<row, content, place, library, writable, aborting, sweeping, spent>>
  BY DEF GetsAnswer, server, disk, UploadsInv, TypeOK
<1>2. client[u].phase = "patching" /\ p.received \in 0..Size
  BY <1>1, PatchFields, ClientFields, UploadsAssumption
<1>3. p.stage \notin Finalizing
  BY <1>1 DEF Answered, Finalizing, Statuses
<1>4. client' \in [Uploads -> Client] /\ ClientInv'
  <2> DEFINE c == [phase |-> "loop", received |-> p.received, status |-> p.stage,
                   attempt |-> 0, call |-> NoCall]
  <2>1. TriesAgain(u) \/ GivesUp(u)
        \/ (p.stage \in Statuses /\ client' = [client EXCEPT ![u] = c])
    BY <1>1 DEF GetsAnswer, Answered, Statuses
  <2>2. ASSUME p.stage \in Statuses, client' = [client EXCEPT ![u] = c]
        PROVE  client' \in [Uploads -> Client] /\ ClientInv'
    <3>1. c \in Client /\ c.phase = "loop" /\ c.attempt < MaxAttempts /\ c.call = NoCall
      BY <1>2, <2>2, UploadsAssumption DEF Client
    <3> HIDE DEF c
    <3> QED
      BY <1>1, <1>2, <2>2, <3>1, GoesOn
  <2> QED
    BY <1>1, <1>2, <2>1, <2>2, TriesAgainMoves, GivesUpMoves
<1> QED
  BY <1>1, <1>3, <1>4, DroppedStep DEF UploadsInv

LEMMA LoopEndsStep ==
  ASSUME UploadsInv, NEW u \in Uploads, LoopEnds(u)
  PROVE  UploadsInv'
<1> DEFINE ph == IF client[u].status = "complete" THEN "done" ELSE "failed"
           c == [client[u] EXCEPT !.phase = ph]
<1>1. /\ client[u].phase = "loop" /\ client[u] \in Client /\ client[u].call = NoCall
      /\ client' = [client EXCEPT ![u] = c] /\ UNCHANGED <<server, patches, spent>>
      /\ UNCHANGED <<row, place>>
  BY ClientFields DEF LoopEnds, server, disk
<1>2. ph \in {"done", "failed"}
  OBVIOUS
<1> HIDE DEF ph
<1>3. c \in Client /\ c.phase = ph /\ c.call = NoCall
  BY <1>1, <1>2 DEF Client
<1> HIDE DEF c
<1> QED
  BY <1>1, <1>2, <1>3, GoesOn, OnlyClient

LEMMA LosesPatchStep ==
  ASSUME UploadsInv, NEW u \in Uploads, LosesPatch(u)
  PROVE  UploadsInv'
<1>1. /\ client[u].phase = "patching" /\ TriesAgain(u) /\ (Loses \/ UNCHANGED spent)
      /\ UNCHANGED <<server, patches>> /\ UNCHANGED <<row, place>>
  BY DEF LosesPatch, server, disk
<1> QED
  BY <1>1, TriesAgainMoves, OnlyClient

LEMMA LosesAskStep ==
  ASSUME UploadsInv, NEW u \in Uploads, LosesAsk(u)
  PROVE  UploadsInv'
<1>1. /\ client[u].phase = "asking" /\ GivesUp(u) /\ Loses
      /\ UNCHANGED <<server, patches>> /\ UNCHANGED <<row, place>>
  BY DEF LosesAsk, server, disk
<1> QED
  BY <1>1, GivesUpMoves, OnlyClient

LEMMA LearnsStep ==
  ASSUME UploadsInv, NEW u \in Uploads, Learns(u)
  PROVE  UploadsInv'
<1> DEFINE c == [client[u] EXCEPT !.phase = "loop", !.received = row[u].received,
                                  !.status = row[u].status]
<1>1. /\ client[u].phase = "asking" /\ client[u] \in Client /\ client[u].call = NoCall
      /\ client[u].attempt < MaxAttempts
      /\ client' = [client EXCEPT ![u] = c] /\ UNCHANGED <<server, patches, spent>>
      /\ UNCHANGED <<row, place>>
  BY ClientFields DEF Learns, Asks, server, disk
<1>2. row[u].received \in 0..Size /\ row[u].status \in Statuses \cup {"none"}
  BY DEF UploadsInv, TypeOK
<1>3. c \in Client /\ c.phase = "loop" /\ c.call = NoCall /\ c.attempt < MaxAttempts
  BY <1>1, <1>2 DEF Client
<1> HIDE DEF c
<1> QED
  BY <1>1, <1>3, GoesOn, OnlyClient

LEMMA ResumeStep ==
  ASSUME UploadsInv, NEW u \in Uploads, ResumeUpload(u)
  PROVE  UploadsInv'
<1> DEFINE c == [client[u] EXCEPT !.phase = "asking", !.attempt = 0]
<1>1. /\ client[u].phase = "failed" /\ client[u] \in Client /\ client[u].call = NoCall
      /\ client' = [client EXCEPT ![u] = c] /\ UNCHANGED <<server, patches, spent>>
      /\ UNCHANGED <<row, place>>
  BY ClientFields DEF ResumeUpload, server, disk
<1>2. 0 \in 0..MaxAttempts /\ 0 < MaxAttempts
  BY UploadsAssumption
<1>3. c \in Client /\ c.phase = "asking" /\ c.call = NoCall /\ c.attempt < MaxAttempts
  BY <1>1, <1>2 DEF Client
<1> HIDE DEF c
<1> QED
  BY <1>1, <1>3, GoesOn, OnlyClient

LEMMA UploadsStep ==
  ASSUME UploadsInv, [Next]_vars
  PROVE  UploadsInv'
<1>1. CASE UNCHANGED vars
  <2>1. UNCHANGED <<server, patches, client, spent>>
    BY <1>1 DEF vars
  <2>2. client' \in [Uploads -> Client] /\ ClientInv'
    BY <2>1, ClientKept DEF UploadsInv, TypeOK, server, disk
  <2> QED
    BY <2>1, <2>2, OnlyClient
<1>2. CASE ServerStep
  BY <1>2, ServerMoves
<1>3. CASE ClientStep
  BY <1>3, CreateStep, SendsChunkStep, GetsAnswerStep, LoopEndsStep, LosesPatchStep,
     LosesAskStep, LearnsStep, ResumeStep DEF ClientStep, Uploader
<1> QED
  BY <1>1, <1>2, <1>3 DEF Next

---------------------------------------------------------------------------
(* The theorems. *)

LEMMA UploadsStart == FilesInit => UploadsInv
<1> SUFFICES ASSUME FilesInit PROVE UploadsInv
  OBVIOUS
<1> USE DEF FilesInit, Init
<1>1. NoRecord \in Row /\ NoRecord.status = "none" /\ NoRecord.received = 0
  BY UploadsAssumption DEF NoRecord, Row
<1>2. /\ Idle \in Client /\ Idle.phase = "idle" /\ Idle.attempt < MaxAttempts
      /\ Idle.call = NoCall
  <2>1. 0 \in 0..MaxAttempts /\ 0 < MaxAttempts /\ 0 \in 0..Size
    BY UploadsAssumption
  <2> QED
    BY <2>1 DEF Idle, Client
<1>3. TypeOK
  <2>1. spent \in [losses: 0..MaxLosses, troubles: 0..MaxTroubles, restarts: 0..MaxTroubles]
    BY UploadsAssumption
  <2>2. row \in [Uploads -> Row] /\ client \in [Uploads -> Client]
    BY <1>1, <1>2
  <2>3. /\ content \in [Uploads -> SUBSET Positions]
        /\ library \in [Names -> Uploads \cup {Free, Reserved}]
        /\ patches \subseteq Patch
    OBVIOUS
  <2>4. /\ place \in [Uploads -> {"nowhere", "temp", "library"}]
        /\ aborting \in [Uploads -> {"no", "checked", "removed"}]
        /\ writable \in BOOLEAN /\ sweeping \in BOOLEAN
    OBVIOUS
  <2> QED
    BY <2>1, <2>2, <2>3, <2>4 DEF TypeOK, Row
<1>4. PatchInv
  BY DEF PatchInv
<1>5. CountInv
  BY <1>1 DEF CountInv, Positions
<1>6. PlaceInv
  BY <1>1, UploadsAssumption DEF PlaceInv
<1>7. ClientInv
  BY <1>1, <1>2 DEF ClientInv
<1>8. LitterInv
  BY UploadsAssumption DEF LitterInv, NoLitter
<1> QED
  BY <1>3, <1>4, <1>5, <1>6, <1>7, <1>8 DEF UploadsInv

LEMMA UploadsInvariant == FilesSpec => []UploadsInv
<1>1. UploadsInv /\ [FilesNext]_filesVars => UploadsInv'
  BY UploadsStep DEF FilesNext, filesVars
<1> QED
  BY <1>1, UploadsStart, PTL DEF FilesSpec

\* Whatever requests and answers are lost, handlers overlap, aborts and restarts
\* come between: a file under a name of the library is whole, an upload said to
\* be complete is there once, and a reservation goes with the handler that made
\* it (append, finalize and abort of uploads/sessions.ts).
THEOREM UploadsAreWhole == FilesSpec => []UploadsHold
<1>1. UploadsInv => UploadsHold
  <2> SUFFICES ASSUME UploadsInv PROVE UploadsHold
    OBVIOUS
  <2>1. WholeInLibrary
    <3>1. \A u \in Uploads : content[u] \subseteq Positions
      BY DEF UploadsInv, TypeOK
    <3>2. \A u \in Uploads : place[u] = "library" => Positions \subseteq content[u]
      BY DEF UploadsInv, PlaceInv
    <3> QED
      BY <3>1, <3>2 DEF WholeInLibrary
  <2>2. CompleteIsThere
    <3> SUFFICES ASSUME NEW u \in Uploads, row[u].status = "complete"
                 PROVE  Cardinality({n \in Names : library[n] = u}) = 1
      BY DEF CompleteIsThere
    <3>1. PICK n \in Names : \A m \in Names : library[m] = u <=> m = n
      BY DEF UploadsInv, PlaceInv
    <3>2. {m \in Names : library[m] = u} = {n}
      BY <3>1
    <3> QED
      BY <3>2, FS_Singleton
  <2> QED
    BY <2>1, <2>2 DEF UploadsInv, LitterInv, UploadsHold
<1> QED
  BY <1>1, UploadsInvariant, PTL

\* A name that holds a file keeps that file: the name is reserved by an exclusive
\* creation, and only the handler that made the reservation renames over it
\* (reserveFreeName of uploads/paths.ts, finalize).
THEOREM NamesAreKept == FilesSpec => LibraryKept
<1>1. UploadsInv /\ [FilesNext]_filesVars =>
        [\A n \in Names : library[n] \in Uploads => library'[n] = library[n]]_vars
  <2> SUFFICES ASSUME UploadsInv, FilesNext \/ UNCHANGED filesVars,
                      NEW n \in Names, library[n] \in Uploads, library' # library
               PROVE  library'[n] = library[n]
    BY DEF vars, server, disk
  <2>1. Next
    BY DEF FilesNext, filesVars, vars, server, disk
  <2>2. PICK p \in patches : Reserves(p) \/ Renames(p)
    BY <2>1 DEF Next, ServerStep, ClientStep, Uploader, Handler, Arrives, Writes, BodyEnds,
       BodyCut, Resolves, Completes, AnswerDropped, AbortBegins, AbortRemoves, AbortEnds,
       GrowsOld, Sweep, Restart, ToggleWritable, Create, SendsChunk, LoopEnds, Learns, ResumeUpload,
       GetsAnswer, LosesPatch, LosesAsk, server, disk
  <2>3. CASE Reserves(p)
    BY <2>3, UploadsAssumption DEF Reserves, Reserve, FirstFree, FreeNames, UploadsInv, TypeOK
  <2>4. CASE Renames(p)
    <3>1. p.name \in Names /\ library[p.name] = Reserved
      BY <2>4 DEF Renames, UploadsInv, PatchInv, Handled
    <3> QED
      BY <2>4, <3>1, UploadsAssumption DEF Renames, Rename, UploadsInv, TypeOK
  <2> QED
    BY <2>2, <2>3, <2>4
<1> QED
  BY <1>1, UploadsInvariant, PTL DEF FilesSpec, LibraryKept

---------------------------------------------------------------------------
(* The listing: an entry that was there all along is on no page while it   *)
(* comes after the cursor, and on one when it does not.                    *)

ListingInv ==
    /\ listing.at = "none" =>
          listing.cursor = Index!Root /\ \A p \in Paths : listing.times[p] = 0
    /\ listing.at = "paging" =>
          \A p \in listing.steady \cap Index!Top :
              /\ files[p] # "none"
              /\ listing.times[p] = IF Index!After(p) THEN 0 ELSE 1
    /\ listing.at = "done" =>
          \A p \in listing.steady \cap Index!Top : listing.times[p] = 1

IndexInv == Index!TypeOK /\ ListingInv

Listings == [at: {"none", "paging", "done", "refused"}, cursor: Paths \cup {Index!Root},
             cursorIsDir: BOOLEAN, times: [Paths -> Nat], steady: SUBSET Paths]
Passes == [at: {"none", "walking", "writing"}, dirs: SUBSET (Paths \cup {Index!Root}),
           walked: [Paths -> Index!Kinds], existing: [Paths -> Index!Kinds],
           todo: SUBSET Paths, quiet: BOOLEAN]
Shares == [shared: BOOLEAN, available: BOOLEAN, enabled: BOOLEAN]

LEMMA IndexTypes ==
  Index!TypeOK <=>
    /\ tree \in [Paths -> Index!Kinds] /\ files \in [Paths -> Index!Kinds]
    /\ plugged \in BOOLEAN /\ playing \in BOOLEAN
    /\ folder \in Shares /\ pass \in Passes /\ listing \in Listings
  BY DEF Index!TypeOK, Listings, Passes, Shares, Index!Root

\* Library's finite sets are those of FiniteSets.
LEMMA FiniteSetsAre ==
  /\ \A S : Index!IsFiniteSet(S) <=> IsFiniteSet(S)
  /\ \A S : Index!Cardinality(S) = Cardinality(S)
<1>1. \A S : Index!IsFiniteSet(S) <=> IsFiniteSet(S)
  BY DEF Index!IsFiniteSet, IsFiniteSet
<1>2. \A S : Index!Cardinality(S) = Cardinality(S)
  BY DEF Index!Cardinality, Cardinality
<1> QED
  BY <1>1, <1>2

LEMMA PathsAre ==
  /\ Paths \subseteq Nat /\ Index!Root = 0 /\ Index!Root \notin Paths /\ IsFiniteSet(Paths)
  /\ Index!Top \subseteq Paths /\ PageSize \in Nat
<1>1. /\ Paths \subseteq Nat \ {Index!Root} /\ IsFiniteSet(Paths) /\ PageSize \in Nat \ {0}
  BY FilesAssumption, FiniteSetsAre DEF Index!LibraryAssumption
<1>2. Index!Root = 0 /\ Index!Top \subseteq Paths
  BY DEF Index!Root, Index!Top
<1> QED
  BY <1>1, <1>2

LEMMA NoPassTyped == Index!NoPass \in Passes
  BY DEF Index!NoPass, Passes, Index!Nothing, Index!Kinds

\* Fewer entries may be steady, and those that are have kept their rows.
LEMMA ListingKept ==
  ASSUME IndexInv, NEW steady \in SUBSET listing.steady,
         listing' = [listing EXCEPT !.steady = steady],
         \A p \in steady :
             /\ files'[p] # "none"
             /\ files'[p] = "dir" <=> files[p] = "dir"
  PROVE  ListingInv' /\ listing' \in Listings
<1>1. listing \in Listings
  BY IndexTypes DEF IndexInv
<1>2. /\ listing' \in Listings /\ listing'.at = listing.at /\ listing'.cursor = listing.cursor
      /\ listing'.cursorIsDir = listing.cursorIsDir /\ listing'.times = listing.times
      /\ listing'.steady = steady
  BY <1>1 DEF Listings
<1>3. \A p \in steady : Index!IsDir(p)' <=> Index!IsDir(p)
  BY DEF Index!IsDir
<1>4. \A p \in steady : Index!After(p)' <=> Index!After(p)
  BY <1>2, <1>3 DEF Index!After
<1> QED
  BY <1>2, <1>4 DEF IndexInv, ListingInv

LEMMA ListingUnchanged ==
  ASSUME IndexInv, UNCHANGED <<files, listing>>
  PROVE  ListingInv'
<1>1. \A p \in Paths : Index!After(p)' <=> Index!After(p)
  BY DEF Index!After, Index!IsDir
<1> QED
  BY <1>1, PathsAre DEF IndexInv, ListingInv

LEMMA WatchingStep ==
  ASSUME IndexInv, NEW rows, files' = rows, Index!Watching(rows)
  PROVE  ListingInv' /\ listing' \in Listings
<1> DEFINE steady == {p \in listing.steady : /\ rows[p] # "none"
                                             /\ rows[p] = "dir" <=> files[p] = "dir"}
<1>1. listing' = [listing EXCEPT !.steady = steady]
  BY DEF Index!Watching
<1>2. PICK st \in SUBSET listing.steady : st = steady
  OBVIOUS
<1>3. \A p \in st : files'[p] # "none" /\ (files'[p] = "dir" <=> files[p] = "dir")
  BY <1>2
<1> QED
  BY <1>1, <1>2, <1>3, ListingKept

\* What is on the page is no more after the cursor, and what is not on it still
\* is, if it was.
LEMMA PageCut ==
  ASSUME IndexInv, NEW last \in Index!Page,
         \A p \in Index!Page : p = last \/ Index!Before(p, last),
         NEW p \in Index!Top, files[p] # "none"
  PROVE  LET past == \/ Index!IsDir(last) /\ ~Index!IsDir(p)
                     \/ (Index!IsDir(last) <=> Index!IsDir(p)) /\ p > last
         IN  /\ p \in Index!Page => ~past
             /\ p \notin Index!Page /\ Index!After(p) => past
             /\ ~Index!After(p) => p \notin Index!Page /\ ~past
<1> DEFINE B(x) == {q \in Index!Rows : Index!Before(q, x)}
<1>1. /\ Index!Rows \subseteq Paths /\ IsFiniteSet(Index!Rows)
      /\ last \in Index!Rows /\ Cardinality(B(last)) < PageSize
  <2>1. Index!Rows \subseteq Paths
    BY PathsAre DEF Index!Rows
  <2>2. IsFiniteSet(Index!Rows)
    BY <2>1, PathsAre, FS_Subset
  <2>3. last \in Index!Rows /\ Cardinality(B(last)) < PageSize
    BY FiniteSetsAre DEF Index!Page
  <2> QED
    BY <2>1, <2>2, <2>3
<1>2. p \in Nat /\ last \in Nat /\ listing.cursor \in Nat /\ Index!Rows \subseteq Nat
  <2>1. listing.cursor \in Paths \cup {Index!Root}
    BY IndexTypes DEF IndexInv, Listings
  <2>2. Paths \subseteq Nat /\ Index!Root \in Nat
    BY PathsAre
  <2>3. p \in Paths /\ last \in Paths /\ Index!Rows \subseteq Paths
    BY <1>1, PathsAre
  <2> QED
    BY <2>1, <2>2, <2>3
<1>3. p \in Index!Rows <=> Index!After(p)
  BY PathsAre, IndexTypes DEF IndexInv, Index!Rows, Index!Present
<1>4. p \in Index!Page => p \in Index!Rows
  BY DEF Index!Page
<1>5. CASE p \in Index!Page
  BY <1>2, <1>3, <1>4, <1>5 DEF Index!Before
<1>6. CASE p \notin Index!Page /\ Index!After(p)
  <2>1. ~(Cardinality(B(p)) < PageSize)
    BY <1>3, <1>6, FiniteSetsAre DEF Index!Page
  <2>2. p # last
    BY <1>6
  <2>3. ~Index!Before(p, last)
    <3> SUFFICES ASSUME Index!Before(p, last) PROVE FALSE
      OBVIOUS
    <3>1. B(p) \subseteq B(last)
      <4> SUFFICES ASSUME NEW q \in Index!Rows, Index!Before(q, p)
                   PROVE  Index!Before(q, last)
        OBVIOUS
      <4>1. q \in Nat
        BY <1>2
      <4> QED
        BY <1>2, <4>1 DEF Index!Before, Index!IsDir
    <3>2. IsFiniteSet(B(last)) /\ IsFiniteSet(B(p)) /\ Cardinality(B(p)) <= Cardinality(B(last))
      <4>1. B(last) \subseteq Index!Rows
        OBVIOUS
      <4>2. IsFiniteSet(B(last))
        BY <1>1, <4>1, FS_Subset
      <4> QED
        BY <3>1, <4>2, FS_Subset
    <3>3. Cardinality(B(p)) \in Nat /\ Cardinality(B(last)) \in Nat
      BY <3>2, FS_CardinalityType
    <3> HIDE DEF B
    <3> QED
      BY <1>1, <2>1, <3>2, <3>3, PathsAre
  <2> QED
    BY <1>2, <1>6, <2>2, <2>3 DEF Index!Before
<1>7. CASE ~Index!After(p)
  <2>1. Index!After(last)
    BY <1>1 DEF Index!Rows
  <2>2. listing.cursorIsDir \in BOOLEAN
    BY IndexTypes DEF IndexInv, Listings
  <2> QED
    BY <1>2, <1>3, <1>4, <1>7, <2>1, <2>2 DEF Index!After, Index!IsDir
<1> QED
  BY <1>5, <1>6, <1>7

LEMMA ListPageStep ==
  ASSUME IndexInv, Index!ListPage
  PROVE  ListingInv' /\ listing' \in Listings
<1>1. listing \in Listings /\ files' = files
  BY IndexTypes DEF IndexInv, Index!ListPage
<1>2. CASE listing' = [listing EXCEPT !.at = "refused"]
  BY <1>1, <1>2 DEF ListingInv, Listings
<1>3. CASE ~(listing' = [listing EXCEPT !.at = "refused"])
  <2> DEFINE Counted(last, page, all, isDir) ==
               [at |-> IF page = all THEN "done" ELSE "paging",
                cursor |-> IF last = Index!Root THEN listing.cursor ELSE last,
                cursorIsDir |-> IF last = Index!Root THEN listing.cursorIsDir ELSE isDir,
                times |-> [p \in Paths |-> listing.times[p] + IF p \in page THEN 1 ELSE 0],
                steady |-> IF listing.at = "none" THEN Index!Present(files)
                           ELSE listing.steady]
  <2>1. PICK page \in SUBSET Index!Top, all \in SUBSET Index!Top :
               page = Index!Page /\ all = Index!Rows
    BY DEF Index!Page, Index!Rows
  <2>2. PICK last \in page \cup {Index!Root}, isDir \in BOOLEAN :
               /\ IF page = {} THEN last = Index!Root
                  ELSE last \in page /\ \A p \in page : p = last \/ Index!Before(p, last)
               /\ isDir <=> Index!IsDir(last)
               /\ listing' = Counted(last, page, all, isDir)
    BY <1>3, <2>1, ZenonT(90) DEF Index!ListPage, Index!IsDir
  <2>3. listing.at \in {"none", "paging"}
    BY DEF Index!ListPage
  <2>4. last \in Paths \cup {Index!Root} /\ page \subseteq Paths
    BY <2>1, PathsAre
  <2>5. /\ listing' \in Listings
        /\ listing'.at = (IF page = all THEN "done" ELSE "paging")
        /\ listing'.cursor = IF last = Index!Root THEN listing.cursor ELSE last
        /\ \A p \in Paths : listing'.times[p] = listing.times[p] + IF p \in page THEN 1 ELSE 0
        /\ listing'.steady = IF listing.at = "none" THEN Index!Present(files)
                             ELSE listing.steady
    <3>1. Index!Present(files) \subseteq Paths
      BY DEF Index!Present
    <3>2. [p \in Paths |-> listing.times[p] + IF p \in page THEN 1 ELSE 0] \in [Paths -> Nat]
      BY <1>1 DEF Listings
    <3> QED
      BY <1>1, <2>2, <2>4, <3>1, <3>2 DEF Listings
  <2>6. listing'.cursorIsDir <=> IF last = Index!Root THEN listing.cursorIsDir ELSE isDir
    BY <2>2
  <2> HIDE DEF Counted
  \* What was steady is steady, and was on a page unless it is after the cursor.
  <2>7. \A p \in listing'.steady \cap Index!Top :
            files[p] # "none" /\ listing.times[p] = IF Index!After(p) THEN 0 ELSE 1
    <3>1. CASE listing.at = "none"
      <4>1. listing.cursor = Index!Root /\ \A p \in Paths : listing.times[p] = 0
        BY <3>1 DEF IndexInv, ListingInv
      <4>2. \A p \in Paths : Index!After(p)
        BY <4>1 DEF Index!After
      <4>3. \A p \in listing'.steady : p \in Paths /\ files[p] # "none"
        BY <2>5, <3>1 DEF Index!Present
      <4> QED
        BY <4>1, <4>2, <4>3
    <3>2. CASE listing.at = "paging"
      BY <2>5, <3>2 DEF IndexInv, ListingInv
    <3> QED
      BY <2>3, <3>1, <3>2
  \* After the page it is as after any page.
  <2>8. ASSUME NEW p \in listing'.steady \cap Index!Top
        PROVE  listing'.times[p] = IF Index!After(p)' THEN 0 ELSE 1
    <3>1. p \in Paths /\ files[p] # "none"
      BY <2>7, PathsAre
    <3>2. listing'.times[p] = listing.times[p] + IF p \in page THEN 1 ELSE 0
      BY <2>5, <3>1
    <3>3. CASE page = {}
      <4>1. last = Index!Root
        BY <2>2, <3>3
      <4>2. Index!After(p)' <=> Index!After(p)
        BY <1>1, <2>5, <2>6, <4>1 DEF Index!After, Index!IsDir
      <4> QED
        BY <2>7, <3>2, <3>3, <4>2
    <3>4. CASE page # {}
      <4> DEFINE past == \/ Index!IsDir(last) /\ ~Index!IsDir(p)
                         \/ (Index!IsDir(last) <=> Index!IsDir(p)) /\ p > last
      <4>1. last \in Index!Page /\ \A q \in Index!Page : q = last \/ Index!Before(q, last)
        BY <2>1, <2>2, <3>4
      <4>2. last # Index!Root
        BY <2>1, <4>1, PathsAre
      <4>3. /\ p \in page => ~past
            /\ p \notin page /\ Index!After(p) => past
            /\ ~Index!After(p) => p \notin page /\ ~past
        BY <2>1, <3>1, <4>1, PageCut
      <4>4. Index!After(p)' <=> past
        BY <1>1, <2>2, <2>5, <2>6, <4>2 DEF Index!After, Index!IsDir
      <4>5. listing.times[p] = IF Index!After(p) THEN 0 ELSE 1
        BY <2>7
      <4>6. p \in page => Index!After(p)
        BY <2>1 DEF Index!Page, Index!Rows
      <4> QED
        BY <3>2, <4>3, <4>4, <4>5, <4>6
    <3> QED
      BY <3>3, <3>4
  <2>9. ASSUME listing'.at = "done", NEW p \in listing'.steady \cap Index!Top
        PROVE  listing'.times[p] = 1
    <3>1. page = Index!Rows
      BY <2>1, <2>5, <2>9
    <3>2. p \in Paths /\ files[p] # "none"
      BY <2>7, PathsAre
    <3>3. p \in page <=> Index!After(p)
      BY <3>1, <3>2 DEF Index!Rows, Index!Present
    <3> QED
      BY <2>5, <2>7, <3>2, <3>3
  <2>10. listing'.at \in {"done", "paging"}
    BY <2>5
  <2> QED
    BY <1>1, <2>5, <2>7, <2>8, <2>9, <2>10 DEF ListingInv
<1> QED
  BY <1>2, <1>3

\* What the types of the rest of a folder's state rest on.
IndexTyped ==
    /\ tree \in [Paths -> Index!Kinds] /\ files \in [Paths -> Index!Kinds]
    /\ plugged \in BOOLEAN /\ playing \in BOOLEAN /\ folder \in Shares /\ pass \in Passes

LEMMA IndexStep == IndexInv /\ [Index!Next]_(Index!vars) => IndexInv'
<1> SUFFICES ASSUME IndexInv, Index!Next \/ UNCHANGED Index!vars PROVE IndexInv'
  OBVIOUS
<1> DEFINE Goal == IndexTyped' /\ listing' \in Listings /\ ListingInv'
<1> SUFFICES Goal
  BY DEF IndexInv, IndexTyped, Index!TypeOK, Listings, Passes, Shares, Index!Root
<1>1. IndexTyped /\ listing \in Listings
  BY IndexTypes DEF IndexInv, IndexTyped
<1>2. ASSUME UNCHANGED <<files, listing>> PROVE listing' \in Listings /\ ListingInv'
  BY <1>1, <1>2, ListingUnchanged
<1>3. CASE UNCHANGED Index!vars
  BY <1>1, <1>2, <1>3 DEF Index!vars, IndexTyped
<1>4. ASSUME NEW p \in Paths, Index!DiskChanges(p) PROVE Goal
  <2>1. UNCHANGED <<files, listing>>
    BY <1>4 DEF Index!DiskChanges
  <2>2. tree' \in [Paths -> Index!Kinds]
    BY <1>1, <1>4 DEF Index!DiskChanges, IndexTyped, Index!Kinds
  <2>3. pass' \in Passes
    BY <1>1, <1>4 DEF Index!DiskChanges, Index!Changed, IndexTyped, Passes
  <2> QED
    BY <1>1, <1>2, <1>4, <2>1, <2>2, <2>3 DEF Index!DiskChanges, IndexTyped
<1>5. CASE Index!Unplug \/ Index!Plug
  <2>1. pass' \in Passes
    BY <1>1, <1>5 DEF Index!Unplug, Index!Plug, Index!Changed, IndexTyped, Passes
  <2> QED
    BY <1>1, <1>2, <1>5, <2>1 DEF Index!Unplug, Index!Plug, IndexTyped
<1>6. CASE Index!Play \/ Index!PlayEnds
  BY <1>1, <1>2, <1>6 DEF Index!Play, Index!PlayEnds, IndexTyped
<1>7. CASE Index!SetEnabled
  <2>1. folder' \in Shares
    BY <1>1, <1>7 DEF Index!SetEnabled, IndexTyped, Shares
  <2> QED
    BY <1>1, <1>2, <1>7, <2>1 DEF Index!SetEnabled, IndexTyped
<1>8. CASE Index!RemoveFolder
  <2>1. folder' \in Shares
    BY <1>1, <1>8 DEF Index!RemoveFolder, IndexTyped, Shares
  <2>2. files' \in [Paths -> Index!Kinds]
    BY <1>8 DEF Index!RemoveFolder, Index!Nothing, Index!Kinds
  <2>3. ListingInv' /\ listing' \in Listings
    BY <1>8, WatchingStep DEF Index!RemoveFolder
  <2> QED
    BY <1>1, <1>8, <2>1, <2>2, <2>3 DEF Index!RemoveFolder, IndexTyped
<1>9. CASE Index!IndexFolder
  <2>1. pass' \in Passes
    BY <1>1, <1>9, NoPassTyped DEF Index!IndexFolder, IndexTyped, Passes
  <2>2. folder' \in Shares
    BY <1>1, <1>9 DEF Index!IndexFolder, IndexTyped, Shares
  <2> QED
    BY <1>1, <1>2, <1>9, <2>1, <2>2 DEF Index!IndexFolder, IndexTyped
<1>10. ASSUME NEW dir \in Paths \cup {Index!Root}, Index!ReadDir(dir) PROVE Goal
  <2>1. PICK found \in SUBSET Paths :
           pass' = [pass EXCEPT
                      !.dirs = (@ \ {dir}) \cup {p \in found : tree[p] = "dir"},
                      !.walked = [p \in Paths |-> IF p \in found THEN tree[p] ELSE @[p]]]
    BY <1>10 DEF Index!ReadDir, Index!Present
  <2>2. [p \in Paths |-> IF p \in found THEN tree[p] ELSE pass.walked[p]]
            \in [Paths -> Index!Kinds]
    BY <1>1 DEF IndexTyped, Passes
  <2>3. pass' \in Passes
    BY <1>1, <2>1, <2>2 DEF IndexTyped, Passes
  <2> QED
    BY <1>1, <1>2, <1>10, <2>3 DEF Index!ReadDir, IndexTyped
<1>16. ASSUME NEW dir \in Paths \cup {Index!Root}, Index!WalkFails(dir) PROVE Goal
  <2>1. pass' \in Passes
    BY <1>16, NoPassTyped DEF Index!WalkFails, Index!PassEnds
  <2>2. folder' \in Shares
    BY <1>1, <1>16 DEF Index!WalkFails, IndexTyped, Shares
  <2> QED
    BY <1>1, <1>2, <1>16, <2>1, <2>2 DEF Index!WalkFails, IndexTyped
<1>11. CASE Index!Reconcile
  <2>1. pass' \in Passes
    BY <1>1, <1>11 DEF Index!Reconcile, IndexTyped, Passes, Index!Present
  <2> QED
    BY <1>1, <1>2, <1>11, <2>1 DEF Index!Reconcile, IndexTyped
<1>12. ASSUME NEW p \in Paths, Index!ApplyBatch(p) PROVE Goal
  <2>1. PICK rows : /\ rows = files \/ rows = [files EXCEPT ![p] = pass.walked[p]]
                    /\ files' = rows /\ Index!Watching(rows)
    BY <1>12 DEF Index!ApplyBatch
  <2>2. files' \in [Paths -> Index!Kinds]
    BY <1>1, <2>1 DEF IndexTyped, Passes
  <2>3. ListingInv' /\ listing' \in Listings
    BY <2>1, WatchingStep
  <2>4. pass' \in Passes
    BY <1>1, <1>12, NoPassTyped
       DEF Index!ApplyBatch, Index!InsertThrows, Index!PassEnds, IndexTyped, Passes
  <2> QED
    BY <1>1, <1>12, <2>2, <2>3, <2>4 DEF Index!ApplyBatch, IndexTyped
<1>13. CASE Index!Finish
  <2>1. PICK rows : /\ rows \in [Paths -> Index!Kinds]
                    /\ files' = rows /\ Index!Watching(rows)
    BY <1>1, <1>13 DEF Index!Finish, Index!Kinds, IndexTyped
  <2>2. files' \in [Paths -> Index!Kinds]
    BY <2>1
  <2>3. ListingInv' /\ listing' \in Listings
    BY <2>1, WatchingStep
  <2>4. folder' \in Shares
    BY <1>1, <1>13 DEF Index!Finish, IndexTyped, Shares
  <2> QED
    BY <1>1, <1>13, <2>2, <2>3, <2>4, NoPassTyped
       DEF Index!Finish, Index!PassEnds, IndexTyped
<1>14. CASE Index!ListPage
  <2>1. ListingInv' /\ listing' \in Listings
    BY <1>14, ListPageStep
  <2> QED
    BY <1>1, <1>14, <2>1 DEF Index!ListPage, IndexTyped
<1> QED
  BY <1>3, <1>4, <1>5, <1>6, <1>7, <1>8, <1>9, <1>10, <1>11, <1>12, <1>13, <1>14, <1>16
     DEF Index!Next

LEMMA IndexStart == FilesInit => IndexInv
<1> SUFFICES ASSUME FilesInit PROVE IndexInv
  OBVIOUS
<1>1. Index!Init
  BY DEF FilesInit
<1>2. tree \in [Paths -> Index!Kinds] /\ files \in [Paths -> Index!Kinds]
  <2>1. PICK d : tree = [p \in Paths |-> IF p \in Index!Top
                                         THEN IF p \in d THEN "dir" ELSE "file" ELSE "none"]
    BY <1>1 DEF Index!Init
  <2> QED
    BY <1>1, <2>1 DEF Index!Init, Index!Kinds
<1>3. plugged \in BOOLEAN /\ playing \in BOOLEAN /\ folder \in Shares
  BY <1>1 DEF Index!Init, Shares
<1>4. pass \in Passes
  BY <1>1, NoPassTyped DEF Index!Init
<1>5. listing \in Listings /\ ListingInv
  BY <1>1 DEF Index!Init, Index!NoListing, Listings, ListingInv
<1> QED
  BY <1>2, <1>3, <1>4, <1>5, IndexTypes DEF IndexInv

LEMMA IndexInvariant == FilesSpec => []IndexInv
<1>1. IndexInv /\ [FilesNext]_filesVars => IndexInv'
  BY IndexStep DEF FilesNext, filesVars, indexVars, Index!vars
<1> QED
  BY <1>1, IndexStart, PTL DEF FilesSpec

\* However many rows the indexer writes and removes between two pages, and
\* whenever the folder goes: a listing that reached its end has every entry that
\* was there all along, on exactly one page (the cursor of GET
\* /folders/:id/entries).
THEOREM Listing == FilesSpec => []ListingIsWhole
<1>1. IndexInv => ListingIsWhole
  BY DEF IndexInv, ListingInv, ListingIsWhole, Index!ListingIsWhole
<1> QED
  BY <1>1, IndexInvariant, PTL

---------------------------------------------------------------------------
(* A pass on a quiet disk: what the walk has not seen yet is in a directory *)
(* it still has to read, or in one it has not seen either.                  *)

\* What is in a directory is there only with the directory.
TreeInv == \A p \in Index!Present(tree) : Parent[p] # Index!Root => tree[Parent[p]] = "dir"

WalkInv ==
    pass.at = "walking" /\ pass.quiet =>
        /\ plugged
        /\ \A d \in pass.dirs : d = Index!Root \/ tree[d] = "dir"
        /\ \A p \in Paths : pass.walked[p] \in {"none", tree[p]}
        /\ \A p \in Index!Present(tree) :
              \/ pass.walked[p] = tree[p] \/ Parent[p] \in pass.dirs
              \/ Parent[p] # Index!Root /\ pass.walked[Parent[p]] = "none"

\* The rows are as the walk saw them, but for those still to be written and
\* those still to be removed.
WriteInv ==
    pass.at = "writing" =>
        /\ pass.quiet => pass.walked = tree
        /\ \A p \in pass.todo : pass.walked[p] # "none"
        /\ folder.shared =>
              \A p \in Paths :
                 files[p] = IF pass.walked[p] # "none" /\ p \notin pass.todo
                            THEN pass.walked[p] ELSE pass.existing[p]

PassInv == TreeInv /\ WalkInv /\ WriteInv

\* A set of paths that holds the directory of each of its own, and is not that of
\* the shared folder itself, is empty: some path of it would be the first.
LEMMA NoneAbove ==
  ASSUME NEW S \in SUBSET Paths, \A p \in S : Parent[p] \in S
  PROVE  S = {}
<1> SUFFICES ASSUME S # {} PROVE FALSE
  OBVIOUS
<1>1. Paths \subseteq Nat /\ \A p \in Paths : Parent[p] < p
  BY FilesAssumption, PathsAre DEF Index!LibraryAssumption
<1>2. S \subseteq Nat
  BY <1>1
<1>3. PICK p \in S : \A q \in S : ~(<<q, p>> \in OpToRel(<, Nat))
  BY <1>2, NatLessThanWellFounded, WFMin
<1>4. Parent[p] \in S /\ Parent[p] < p
  BY <1>1
<1> QED
  BY <1>2, <1>3, <1>4 DEF OpToRel

LEMMA BelowIs ==
  ASSUME NEW p \in Paths
  PROVE  /\ p \in Index!Below(p) /\ Parent[p] \notin Index!Below(p)
         /\ \A q \in Paths : Parent[q] \in Index!Below(p) => q \in Index!Below(p)
<1>1. /\ Paths \subseteq Nat /\ \A q \in Paths : Parent[q] < q
      /\ Parent \in [Paths -> Paths \cup {Index!Root}] /\ Index!Root = 0
  BY FilesAssumption, PathsAre DEF Index!LibraryAssumption
<1>2. Parent[p] \notin Index!Below(p)
  <2> DEFINE S == {q \in Paths : p <= q}
  <2>1. p \in S /\ Parent[p] \notin S
    <3> HIDE DEF S
    <3>1. p \in Nat /\ Parent[p] \in Nat /\ Parent[p] < p
      <4>1. Parent[p] \in Paths \cup {Index!Root}
        BY <1>1
      <4>2. Paths \cup {Index!Root} \subseteq Nat
        BY <1>1
      <4>3. Parent[p] < p
        BY <1>1
      <4>4. p \in Nat
        BY <1>1
      <4> QED
        BY <4>1, <4>2, <4>3, <4>4
    <3>2. p <= p /\ ~(p <= Parent[p])
      BY <3>1
    <3> QED
      BY <3>2 DEF S
  <2>2. \A r \in Paths : Parent[r] \in S => r \in S
    <3> SUFFICES ASSUME NEW r \in Paths, Parent[r] \in S PROVE p <= r
      OBVIOUS
    <3>1. Parent[r] \in Paths /\ p <= Parent[r]
      OBVIOUS
    <3>2. Parent[r] < r
      BY <1>1
    <3>3. p \in Nat /\ r \in Nat /\ Parent[r] \in Nat
      BY <1>1, <3>1
    <3> HIDE DEF S
    <3> QED
      BY <3>1, <3>2, <3>3
  <2> QED
    BY <2>1, <2>2 DEF Index!Below
<1> QED
  BY <1>2 DEF Index!Below

LEMMA TreeStep ==
  ASSUME IndexInv, TreeInv, NEW p \in Paths, Index!DiskChanges(p)
  PROVE  TreeInv'
<1>1. PICK kind : tree' = [q \in Paths |-> IF q = p THEN kind
                                           ELSE IF q \in Index!Below(p) THEN "none" ELSE tree[q]]
  BY DEF Index!DiskChanges
<1>2. ASSUME NEW q \in Paths, tree'[q] # "none", Parent[q] # Index!Root
      PROVE  tree'[Parent[q]] = "dir"
  <2>1. Parent[q] \in Paths
    BY <1>2, FilesAssumption DEF Index!LibraryAssumption
  <2>2. CASE q = p
    <3>1. tree[Parent[p]] = "dir"
      BY <1>2, <2>2 DEF Index!DiskChanges
    <3>2. Parent[p] # p /\ Parent[p] \notin Index!Below(p)
      BY BelowIs
    <3> QED
      BY <1>1, <2>1, <2>2, <3>1, <3>2
  <2>3. CASE q # p
    <3>1. q \notin Index!Below(p) /\ tree'[q] = tree[q]
      BY <1>1, <1>2, <2>3
    <3>2. Parent[q] \notin Index!Below(p) /\ Parent[q] # p
      BY <3>1, BelowIs
    <3>3. tree[Parent[q]] = "dir"
      BY <1>2, <3>1 DEF TreeInv, Index!Present
    <3> QED
      BY <1>1, <2>1, <3>2, <3>3
  <2> QED
    BY <2>2, <2>3
<1> QED
  BY <1>2 DEF TreeInv, Index!Present

LEMMA WalkStep ==
  ASSUME IndexInv, PassInv, NEW dir \in Paths \cup {Index!Root}, Index!ReadDir(dir)
  PROVE  WalkInv' /\ WriteInv'
<1> DEFINE readable == plugged /\ (dir = Index!Root \/ tree[dir] = "dir")
           found == {p \in Index!Present(tree) : readable /\ Parent[p] = dir}
<1>1. /\ pass \in Passes /\ tree \in [Paths -> Index!Kinds]
      /\ UNCHANGED <<tree, plugged, folder, files>>
  BY IndexTypes DEF IndexInv, Index!ReadDir
<1>2. /\ pass.at = "walking" /\ dir \in pass.dirs
      /\ pass' = [pass EXCEPT
                    !.dirs = (@ \ {dir}) \cup {p \in found : tree[p] = "dir"},
                    !.walked = [p \in Paths |-> IF p \in found THEN tree[p] ELSE @[p]]]
  BY DEF Index!ReadDir
<1>3. PICK fd \in SUBSET Paths : fd = found
  BY DEF Index!Present
<1>4. /\ pass'.at = "walking" /\ (pass'.quiet <=> pass.quiet)
      /\ pass'.dirs = (pass.dirs \ {dir}) \cup {p \in fd : tree[p] = "dir"}
      /\ \A p \in Paths : pass'.walked[p] = IF p \in fd THEN tree[p] ELSE pass.walked[p]
  BY <1>1, <1>2, <1>3 DEF Passes
<1>5. WriteInv'
  BY <1>4 DEF WriteInv
<1>6. WalkInv'
  <2> SUFFICES ASSUME pass.quiet PROVE WalkInv'
    BY <1>4 DEF WalkInv
  <2>1. /\ plugged /\ \A d \in pass.dirs : d = Index!Root \/ tree[d] = "dir"
        /\ \A p \in Paths : pass.walked[p] \in {"none", tree[p]}
    BY <1>2 DEF PassInv, WalkInv
  <2>2. \A p \in Paths : p \in fd <=> tree[p] # "none" /\ Parent[p] = dir
    BY <1>2, <1>3, <2>1 DEF Index!Present
  <2> HIDE DEF readable, found
  <2>3. plugged' /\ \A d \in pass'.dirs : d = Index!Root \/ tree'[d] = "dir"
    BY <1>1, <1>4, <2>1
  <2>4. \A p \in Paths : pass'.walked[p] \in {"none", tree'[p]}
    BY <1>1, <1>4, <2>1
  <2>5. ASSUME NEW p \in Paths, tree[p] # "none"
        PROVE  \/ pass'.walked[p] = tree[p] \/ Parent[p] \in pass'.dirs
               \/ Parent[p] # Index!Root /\ pass'.walked[Parent[p]] = "none"
    <3>1. \/ pass.walked[p] = tree[p] \/ Parent[p] \in pass.dirs
          \/ Parent[p] # Index!Root /\ pass.walked[Parent[p]] = "none"
      BY <1>2, <2>5 DEF PassInv, WalkInv, Index!Present
    <3>2. CASE pass.walked[p] = tree[p]
      BY <1>4, <3>2
    <3>3. CASE Parent[p] \in pass.dirs
      <4>1. CASE Parent[p] = dir
        BY <1>4, <2>2, <2>5, <4>1
      <4>2. CASE Parent[p] # dir
        BY <1>4, <3>3, <4>2
      <4> QED
        BY <4>1, <4>2
    <3>4. CASE Parent[p] # Index!Root /\ pass.walked[Parent[p]] = "none"
      <4>1. Parent[p] \in Paths
        BY <3>4, FilesAssumption DEF Index!LibraryAssumption
      <4>2. CASE Parent[p] \in fd
        <5>1. tree[Parent[p]] = "dir"
          BY <2>5, <3>4 DEF PassInv, TreeInv, Index!Present
        <5> QED
          BY <1>4, <4>2, <5>1
      <4>3. CASE Parent[p] \notin fd
        BY <1>4, <3>4, <4>1, <4>3
      <4> QED
        BY <4>2, <4>3
    <3> QED
      BY <3>1, <3>2, <3>3, <3>4
  <2> QED
    BY <1>1, <2>3, <2>4, <2>5 DEF WalkInv, Index!Present
<1> QED
  BY <1>5, <1>6

LEMMA PassStep == IndexInv /\ PassInv /\ [Index!Next]_(Index!vars) => PassInv'
<1> SUFFICES ASSUME IndexInv, PassInv, Index!Next \/ UNCHANGED Index!vars PROVE PassInv'
  OBVIOUS
<1>1. /\ tree \in [Paths -> Index!Kinds] /\ files \in [Paths -> Index!Kinds]
      /\ folder \in Shares /\ pass \in Passes
  BY IndexTypes DEF IndexInv
<1>2. ASSUME UNCHANGED tree PROVE TreeInv'
  BY <1>2 DEF PassInv, TreeInv, Index!Present
<1>3. ASSUME UNCHANGED <<tree, plugged, folder, files, pass>> PROVE PassInv'
  BY <1>2, <1>3 DEF PassInv, WalkInv, WriteInv, Index!Present
<1>4. CASE \/ UNCHANGED Index!vars
           \/ Index!Play \/ Index!PlayEnds \/ Index!ListPage
  BY <1>3, <1>4 DEF Index!vars, Index!Play, Index!PlayEnds, Index!ListPage
<1>5. ASSUME NEW p \in Paths, Index!DiskChanges(p) PROVE PassInv'
  <2>1. pass' = [pass EXCEPT !.quiet = FALSE] /\ UNCHANGED <<files, folder>>
    BY <1>5 DEF Index!DiskChanges, Index!Changed
  <2>2. WalkInv' /\ WriteInv'
    BY <1>1, <2>1 DEF PassInv, WalkInv, WriteInv, Passes
  <2> QED
    BY <1>5, <2>2, TreeStep DEF PassInv
<1>6. CASE Index!Unplug \/ Index!Plug
  <2>1. pass' = [pass EXCEPT !.quiet = FALSE] /\ UNCHANGED <<tree, files, folder>>
    BY <1>6 DEF Index!Unplug, Index!Plug, Index!Changed
  <2>2. WalkInv' /\ WriteInv'
    BY <1>1, <2>1 DEF PassInv, WalkInv, WriteInv, Passes
  <2> QED
    BY <1>2, <2>1, <2>2 DEF PassInv
<1>7. ASSUME UNCHANGED <<tree, plugged, pass>>,
             folder'.shared => folder.shared /\ UNCHANGED files
      PROVE  PassInv'
  BY <1>2, <1>7 DEF PassInv, WalkInv, WriteInv, Index!Present
<1>8. CASE Index!SetEnabled \/ Index!RemoveFolder
  BY <1>1, <1>7, <1>8 DEF Index!SetEnabled, Index!RemoveFolder, Shares
<1>9. ASSUME pass'.at = "none", UNCHANGED tree PROVE PassInv'
  BY <1>2, <1>9 DEF PassInv, WalkInv, WriteInv
<1>10. CASE Index!IndexFolder
  <2>1. CASE ~plugged
    BY <1>9, <1>10, <2>1 DEF Index!IndexFolder
  <2>2. CASE plugged
    <3>1. pass' = [Index!NoPass EXCEPT !.at = "walking", !.dirs = {Index!Root}]
      BY <1>10, <2>2 DEF Index!IndexFolder
    <3>2. /\ pass'.at = "walking" /\ pass'.dirs = {Index!Root}
          /\ \A p \in Paths : pass'.walked[p] = "none"
      BY <3>1 DEF Index!NoPass, Index!Nothing
    <3>3. \A p \in Paths : Parent[p] \in {Index!Root} \/ pass'.walked[Parent[p]] = "none"
      BY <3>2, FilesAssumption DEF Index!LibraryAssumption
    <3> QED
      BY <1>2, <1>10, <2>2, <3>2, <3>3
         DEF Index!IndexFolder, PassInv, WalkInv, WriteInv, Index!Present
  <2> QED
    BY <2>1, <2>2
<1>11. ASSUME NEW dir \in Paths \cup {Index!Root}, Index!ReadDir(dir) PROVE PassInv'
  BY <1>2, <1>11, WalkStep DEF PassInv, Index!ReadDir
<1>16. ASSUME NEW dir \in Paths \cup {Index!Root}, Index!WalkFails(dir) PROVE PassInv'
  <2>1. pass'.at = "none" /\ UNCHANGED tree
    BY <1>16 DEF Index!WalkFails, Index!PassEnds, Index!NoPass
  <2> QED
    BY <1>2, <2>1 DEF PassInv, WalkInv, WriteInv, TreeInv, Index!Present
<1>12. CASE Index!Reconcile
  <2>1. /\ pass.at = "walking" /\ pass.dirs = {}
        /\ pass'.at = "writing" /\ pass'.walked = pass.walked /\ pass'.existing = files
        /\ pass'.todo = Index!Present(pass.walked) /\ (pass'.quiet <=> pass.quiet)
        /\ UNCHANGED <<tree, folder, files>>
    BY <1>1, <1>12 DEF Index!Reconcile, Passes
  <2>2. ASSUME pass.quiet PROVE pass.walked = tree
    <3> DEFINE unseen == {p \in Paths : tree[p] # "none" /\ pass.walked[p] # tree[p]}
    <3>1. ASSUME NEW p \in unseen PROVE Parent[p] \in unseen
      <4>1. Parent[p] # Index!Root /\ pass.walked[Parent[p]] = "none"
        BY <2>1, <2>2 DEF PassInv, WalkInv, Index!Present
      <4>2. tree[Parent[p]] = "dir"
        BY <4>1 DEF PassInv, TreeInv, Index!Present
      <4> QED
        BY <4>1, <4>2, FilesAssumption DEF Index!LibraryAssumption
    <3>2. unseen = {}
      <4>1. PICK S \in SUBSET Paths : S = unseen
        OBVIOUS
      <4> HIDE DEF unseen
      <4> QED
        BY <3>1, <4>1, NoneAbove
    <3>3. \A p \in Paths : pass.walked[p] = tree[p]
      BY <2>1, <2>2, <3>2 DEF PassInv, WalkInv
    <3> QED
      BY <1>1, <3>3 DEF Passes
  <2>3. WriteInv'
    BY <2>1, <2>2 DEF WriteInv, Index!Present
  <2>4. WalkInv'
    BY <2>1 DEF WalkInv
  <2> QED
    BY <1>2, <2>1, <2>3, <2>4 DEF PassInv
<1>13. ASSUME NEW p \in Paths, Index!ApplyBatch(p) PROVE PassInv'
  <2>1. CASE pass' = Index!NoPass
    BY <1>9, <1>13, <2>1 DEF Index!ApplyBatch, Index!NoPass
  <2>2. CASE pass' # Index!NoPass
    <3>1. /\ pass' = [pass EXCEPT !.todo = @ \ {p}]
          /\ UNCHANGED <<tree, folder>> /\ pass.at = "writing" /\ p \in pass.todo
          /\ folder.shared =>
                files' = IF pass.existing[p] = pass.walked[p] THEN files
                         ELSE [files EXCEPT ![p] = pass.walked[p]]
      BY <1>13, <2>2 DEF Index!ApplyBatch, Index!InsertThrows, Index!PassEnds
    <3>2. /\ pass'.at = "writing" /\ pass'.walked = pass.walked
          /\ pass'.existing = pass.existing /\ pass'.todo = pass.todo \ {p}
          /\ (pass'.quiet <=> pass.quiet)
      BY <1>1, <3>1 DEF Passes
    <3>3. /\ pass.quiet => pass.walked = tree
          /\ \A q \in pass.todo : pass.walked[q] # "none"
          /\ folder.shared =>
                \A q \in Paths :
                   files[q] = IF pass.walked[q] # "none" /\ q \notin pass.todo
                              THEN pass.walked[q] ELSE pass.existing[q]
      BY <3>1 DEF PassInv, WriteInv
    <3>4. ASSUME folder.shared, NEW q \in Paths
          PROVE  files'[q] = IF pass.walked[q] # "none" /\ q \notin pass.todo \ {p}
                             THEN pass.walked[q] ELSE pass.existing[q]
      <4>1. CASE q = p
        <5>1. files'[p] = pass.walked[p]
          BY <1>1, <3>1, <3>3, <3>4
        <5> QED
          BY <3>1, <3>3, <4>1, <5>1
      <4>2. CASE q # p
        <5>1. files'[q] = files[q]
          BY <1>1, <3>1, <3>4, <4>2
        <5> QED
          BY <3>3, <3>4, <4>2, <5>1
      <4> QED
        BY <4>1, <4>2
    <3>5. WriteInv'
      BY <3>1, <3>2, <3>3, <3>4 DEF WriteInv
    <3> QED
      BY <1>2, <3>1, <3>2, <3>5 DEF PassInv, WalkInv
  <2> QED
    BY <2>1, <2>2
<1>14. CASE Index!Finish
  BY <1>9, <1>14 DEF Index!Finish, Index!PassEnds, Index!NoPass
<1> QED
  BY <1>4, <1>5, <1>6, <1>8, <1>10, <1>11, <1>12, <1>13, <1>14, <1>16 DEF Index!Next

LEMMA PassInvariant == FilesSpec => []PassInv
<1>1. FilesInit => PassInv
  <2> SUFFICES ASSUME Index!Init PROVE PassInv
    BY DEF FilesInit
  <2>1. pass.at = "none"
    BY DEF Index!Init, Index!NoPass
  <2>2. \A p \in Paths : tree[p] # "none" => Parent[p] = Index!Root
    BY DEF Index!Init, Index!Top
  <2> QED
    BY <2>1, <2>2 DEF PassInv, TreeInv, WalkInv, WriteInv, Index!Present
<1>2. IndexInv /\ PassInv /\ [FilesNext]_filesVars => PassInv'
  BY PassStep DEF FilesNext, filesVars, indexVars, Index!vars
<1> QED
  BY <1>1, <1>2, IndexInvariant, PTL DEF FilesSpec

\* A pass that meets no change on the disk leaves the table as the disk is: from
\* whatever rows it began, however often it was paused, and whatever was written
\* for it in between (reconcile of library/indexer.ts).
THEOREM TableIsTheDisk == FilesSpec => Index!IndexIsTheDisk
<1>1. IndexInv /\ PassInv /\ [FilesNext]_filesVars =>
        [pass.at = "writing" /\ pass'.at = "none" /\ pass.quiet /\ folder.shared
            => files' = tree]_(Index!vars)
  <2> SUFFICES ASSUME IndexInv, PassInv, FilesNext, ~UNCHANGED Index!vars,
                      pass.at = "writing", pass'.at = "none", pass.quiet, folder.shared
               PROVE  files' = tree
    BY DEF filesVars, indexVars, Index!vars
  <2>1. /\ tree \in [Paths -> Index!Kinds] /\ files \in [Paths -> Index!Kinds]
        /\ pass \in Passes
    BY IndexTypes DEF IndexInv
  <2>2. Index!Next
    BY DEF FilesNext, indexVars, Index!vars
  <2>3. Index!Finish
    <3>1. pass' # pass
      OBVIOUS
    <3>2. ASSUME NEW p \in Paths, Index!ApplyBatch(p) PROVE FALSE
      <4>1. pass' = [pass EXCEPT !.todo = @ \ {p}]
        BY <3>2 DEF Index!ApplyBatch
      <4> QED
        BY <2>1, <4>1 DEF Passes
    <3>3. ASSUME NEW p \in Paths, Index!DiskChanges(p) PROVE FALSE
      BY <2>1, <3>3 DEF Index!DiskChanges, Index!Changed, Passes
    <3>4. ASSUME Index!Unplug \/ Index!Plug PROVE FALSE
      BY <2>1, <3>4 DEF Index!Unplug, Index!Plug, Index!Changed, Passes
    <3> QED
      BY <2>2, <3>1, <3>2, <3>3, <3>4
         DEF Index!Next, Index!Play, Index!PlayEnds, Index!SetEnabled, Index!RemoveFolder,
             Index!IndexFolder, Index!ReadDir, Index!WalkFails, Index!Reconcile, Index!ListPage
  <2>4. /\ pass.walked = tree
        /\ \A p \in Paths : files[p] = IF tree[p] # "none" /\ p \notin pass.todo
                                       THEN tree[p] ELSE pass.existing[p]
    BY DEF PassInv, WriteInv
  <2>5. files' = [p \in Paths |-> IF pass.existing[p] # "none" /\ tree[p] = "none"
                                  THEN "none" ELSE files[p]] /\ pass.todo = {}
    BY <2>3, <2>4 DEF Index!Finish, Index!Present
  <2>6. \A p \in Paths : files'[p] = tree[p]
    BY <2>4, <2>5
  <2> QED
    BY <2>1, <2>5, <2>6
<1> QED
  BY <1>1, IndexInvariant, PassInvariant, PTL DEF FilesSpec, Index!IndexIsTheDisk
=============================================================================
