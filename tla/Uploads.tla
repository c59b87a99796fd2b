------------------------------ MODULE Uploads ------------------------------
(***************************************************************************)
(* Resumable uploads: the sessions of the server (modules/uploads), the    *)
(* uploader of the web app with its resume button (pwa/uploads/uploader.ts *)
(* and routes/UploadRoute.tsx) and the one of the desktop client           *)
(* (desktop-client/main/uploads.ts).                                       *)
(*                                                                         *)
(* Every upload here asks for the same name in one folder, the burst of    *)
(* IMG_0001.jpg that reserveFreeName is there for.  A request and its      *)
(* handler are apart: a client that has given a PATCH up does not stop the *)
(* handler, and its next PATCH may overlap with it.                        *)
(***************************************************************************)
EXTENDS Naturals, FiniteSets

CONSTANTS
    Uploads,        \* uploads
    Desktop,        \* those of the desktop client; the others are the web app's
    Calls,          \* identities of PATCH requests
    NoCall,         \* no request is under way
    Free,           \* a name nobody has
    Reserved,       \* a name with the empty file of a reservation
    Size,           \* units of a file
    ChunkSize,      \* units of a chunk
    MaxAttempts,    \* attempts of one chunk in uploadFile
    MaxNames,       \* names reserveFreeName tries, 999 in the code
    MaxLosses,      \* bound: requests that fail on the network
    MaxTroubles     \* bound: aborts, restarts, changes of the folder

ASSUME UploadsAssumption ==
    /\ Desktop \subseteq Uploads /\ IsFiniteSet(Uploads) /\ IsFiniteSet(Calls)
    /\ NoCall \notin Calls /\ Free # Reserved /\ {Free, Reserved} \cap Uploads = {}
    /\ Size \in Nat \ {0} /\ ChunkSize \in Nat \ {0} /\ MaxAttempts \in Nat \ {0}
    /\ MaxNames \in Nat /\ MaxLosses \in Nat /\ MaxTroubles \in Nat

VARIABLES
    row,            \* the rows of `uploads`
    content,        \* the positions that are written in each upload's file
    place,          \* where that file is
    library,        \* the names in the shared folder
    writable,       \* the folder may be written to
    patches,        \* handlers of PATCH, with what each has read
    aborting,       \* how far an abort of each upload has come
    sweeping,       \* the sweep of this start is still to come
    client,         \* the uploaders
    spent           \* counters behind the bounds

disk == <<content, place, library>>
server == <<row, disk, writable, aborting, sweeping>>
vars == <<server, patches, client, spent>>

Positions == 0 .. Size - 1
Names == 1..MaxNames
Statuses == {"active", "complete", "aborted"}

Patch == [call: Calls, upload: Uploads, offset: 0..Size, received: 0..Size,
          end: 0..Size, name: {0} \cup Names,
          stage: {"sent", "writing", "resolving", "reserving", "renaming", "stamping",
                  "mismatch", "error"} \cup Statuses]
Client == [phase: {"idle", "loop", "patching", "asking", "failed", "done"},
           received: 0..Size, status: Statuses \cup {"none"}, attempt: 0..MaxAttempts,
           call: Calls \cup {NoCall}]

TypeOK ==
    /\ row \in [Uploads -> [status: Statuses \cup {"none"}, received: 0..Size, old: BOOLEAN]]
    /\ content \in [Uploads -> SUBSET Positions]
    /\ place \in [Uploads -> {"nowhere", "temp", "library"}]
    /\ library \in [Names -> Uploads \cup {Free, Reserved}]
    /\ writable \in BOOLEAN
    /\ patches \subseteq Patch
    /\ aborting \in [Uploads -> {"no", "checked", "removed"}]
    /\ sweeping \in BOOLEAN
    /\ client \in [Uploads -> Client]
    /\ spent \in [losses: 0..MaxLosses, troubles: 0..MaxTroubles,
                  restarts: 0..MaxTroubles]

NoRecord == [status |-> "none", received |-> 0, old |-> FALSE]
Idle == [phase |-> "idle", received |-> 0, status |-> "none", attempt |-> 0,
         call |-> NoCall]

Init ==
    /\ row = [u \in Uploads |-> NoRecord]
    /\ content = [u \in Uploads |-> {}]
    /\ place = [u \in Uploads |-> "nowhere"]
    /\ library = [n \in Names |-> Free]
    /\ writable = TRUE
    /\ patches = {}
    /\ aborting = [u \in Uploads |-> "no"]
    /\ sweeping = FALSE
    /\ client = [u \in Uploads |-> Idle]
    /\ spent = [losses |-> 0, troubles |-> 0, restarts |-> 0]

Loses ==
    /\ spent.losses < MaxLosses
    /\ spent' = [spent EXCEPT !.losses = @ + 1]

Trouble(restarts) ==
    /\ spent.troubles < MaxTroubles
    /\ spent' = [spent EXCEPT !.troubles = @ + 1, !.restarts = @ + restarts]

---------------------------------------------------------------------------
(* The server: create, and the handler of PATCH. *)

\* create: the temporary file, then the row.
Create(u) ==
    /\ client[u].phase = "idle"
    /\ writable
    /\ row' = [row EXCEPT ![u] = [status |-> "active", received |-> 0, old |-> FALSE]]
    /\ place' = [place EXCEPT ![u] = "temp"]
    /\ client' = [client EXCEPT ![u] = [@ EXCEPT !.phase = "loop", !.status = "active"]]
    /\ UNCHANGED <<content, library, writable, patches, aborting, sweeping, spent>>

Becomes(p, q) == patches' = (patches \ {p}) \cup {q}
To(p, stage) == Becomes(p, [p EXCEPT !.stage = stage])

\* The answer is the row as it stands now.
UploadAnswers(p, r) == Becomes(p, [p EXCEPT !.stage = r.status, !.received = r.received])
Answered(p) == p.stage \in {"mismatch", "error"} \cup Statuses

\* append, up to its loop over the body.
Append(p) ==
    IF row[p.upload].status # "active" THEN To(p, "error")
    ELSE IF p.offset # row[p.upload].received THEN To(p, "mismatch")
    ELSE IF place[p.upload] # "temp" THEN To(p, "error")
    ELSE Becomes(p, [p EXCEPT !.stage = "writing", !.received = p.offset])

Arrives(p) ==
    /\ p.stage = "sent"
    /\ Append(p)
    /\ UNCHANGED <<server, client, spent>>

\* One unit of the body is written where it belongs.
Writes(p) ==
    /\ p.stage = "writing" /\ p.received < p.end
    /\ content' = [content EXCEPT ![p.upload] = @ \cup {p.received}]
    /\ Becomes(p, [p EXCEPT !.received = @ + 1])
    /\ UNCHANGED <<row, place, library, writable, aborting, sweeping, client, spent>>

Stored(u, r) == [row EXCEPT ![u] = [@ EXCEPT !.received = r, !.old = FALSE]]

\* persistReceived in the finally of the loop, whatever the row has become.
PersistUpload(p) ==
    IF p.received # p.offset THEN Stored(p.upload, p.received) ELSE row

\* The body has been read to its end; the last byte leads to finalize.
BodyEnds(p) ==
    /\ p.stage = "writing" /\ p.received = p.end
    /\ row' = PersistUpload(p)
    /\ IF row'[p.upload].received >= Size THEN To(p, "resolving")
       ELSE UploadAnswers(p, row'[p.upload])
    /\ UNCHANGED <<disk, writable, aborting, sweeping, client, spent>>

Orphan(p) == client[p.upload].call # p.call

\* The connection is cut under a body whose client has given it up.
BodyCut(p) ==
    /\ Orphan(p)
    /\ p.stage = "writing"
    /\ row' = PersistUpload(p)
    /\ patches' = patches \ {p}
    /\ UNCHANGED <<disk, writable, aborting, sweeping, client, spent>>

---------------------------------------------------------------------------
(* finalize. *)

\* resolveWritable, asked again now.
Resolves(p) ==
    /\ p.stage = "resolving"
    /\ To(p, IF writable THEN "reserving" ELSE "error")
    /\ UNCHANGED <<server, client, spent>>

FreeNames == {n \in Names : library[n] = Free}
FirstFree(n) == n \in FreeNames /\ \A m \in FreeNames : n <= m

ReserveChecked(p) ==                \* mutant: an existence check, nothing created
    \E n \in Names :
        /\ FirstFree(n)
        /\ Becomes(p, [p EXCEPT !.stage = "renaming", !.name = n])
        /\ UNCHANGED library

\* reserveFreeName: the exclusive creation of the first name that is free.
Reserve(p) ==
    \E n \in Names :
        /\ FirstFree(n)
        /\ Becomes(p, [p EXCEPT !.stage = "renaming", !.name = n])
        /\ library' = [library EXCEPT ![n] = Reserved]

Reserves(p) ==
    /\ p.stage = "reserving"
    /\ IF FreeNames # {} THEN Reserve(p) ELSE To(p, "error") /\ UNCHANGED library
    /\ UNCHANGED <<row, content, place, writable, aborting, sweeping, client, spent>>

RenameIgnored(p) ==                 \* mutant: its error is swallowed
    /\ place' = [place EXCEPT ![p.upload] = IF @ = "temp" THEN "library" ELSE @]
    /\ library' = [library EXCEPT ![p.name] =
                     IF place[p.upload] = "temp" THEN p.upload ELSE @]
    /\ To(p, "stamping")

\* The rename, over the reservation; when it fails the reservation goes.
Rename(p) ==
    IF place[p.upload] = "temp"
    THEN /\ place' = [place EXCEPT ![p.upload] = "library"]
         /\ library' = [library EXCEPT ![p.name] = p.upload]
         /\ To(p, "stamping")
    ELSE /\ library' = [library EXCEPT ![p.name] = Free]
         /\ To(p, "error")
         /\ UNCHANGED place

Renames(p) ==
    /\ p.stage = "renaming"
    /\ Rename(p)
    /\ UNCHANGED <<row, content, writable, aborting, sweeping, client, spent>>

\* After utimes: the row is complete.
Completes(p) ==
    /\ p.stage = "stamping"
    /\ row' = [row EXCEPT ![p.upload] = [status |-> "complete", received |-> Size,
                                         old |-> FALSE]]
    /\ UploadAnswers(p, row'[p.upload])
    /\ UNCHANGED <<disk, writable, aborting, sweeping, client, spent>>

\* An answer to a client that has given up goes nowhere.
AnswerDropped(p) ==
    /\ Orphan(p)
    /\ p.stage = "sent" \/ Answered(p)
    /\ patches' = patches \ {p}
    /\ UNCHANGED <<server, client, spent>>

---------------------------------------------------------------------------
(* abort, the sweep, the operator, restarts. *)

Remove(u) == place' = [place EXCEPT ![u] = IF @ = "temp" THEN "nowhere" ELSE @]

\* abort(): a complete upload is refused, ...
AbortBegins(u) ==
    /\ row[u].status \in {"active", "aborted"} /\ aborting[u] = "no"
    /\ Trouble(0)
    /\ aborting' = [aborting EXCEPT ![u] = "checked"]
    /\ UNCHANGED <<row, disk, writable, sweeping, patches, client>>

\* ... its temporary file goes, ...
AbortRemoves(u) ==
    /\ aborting[u] = "checked"
    /\ Remove(u)
    /\ aborting' = [aborting EXCEPT ![u] = "removed"]
    /\ UNCHANGED <<row, content, library, writable, sweeping, patches, client, spent>>

\* ... and the row is written, whatever it has become.
AbortEnds(u) ==
    /\ aborting[u] = "removed"
    /\ row' = [row EXCEPT ![u] = [@ EXCEPT !.status = "aborted", !.old = FALSE]]
    /\ aborting' = [aborting EXCEPT ![u] = "no"]
    /\ UNCHANGED <<disk, writable, sweeping, patches, client, spent>>

\* A day passes over an upload nobody touches, longer than a start takes.
GrowsOld(u) ==
    /\ row[u].status = "active" /\ ~row[u].old
    /\ spent.troubles < MaxTroubles /\ ~sweeping
    /\ ~\E p \in patches : p.upload = u
    /\ row' = [row EXCEPT ![u].old = TRUE]
    /\ UNCHANGED <<disk, writable, aborting, sweeping, patches, client, spent>>

\* The server restarts: createServer clears the directory of temporary files and
\* leaves the rows as they were.
Restart ==
    /\ Trouble(1)
    /\ place' = [u \in Uploads |-> IF place[u] = "temp" THEN "nowhere" ELSE place[u]]
    /\ patches' = {}
    /\ aborting' = [u \in Uploads |-> "no"]
    /\ sweeping' = TRUE
    /\ UNCHANGED <<row, content, library, writable, client>>

\* sweepAbandoned, while the server serves again: the files it would remove are
\* gone already, the rows of uploads nobody touched for a day are aborted.
Sweep ==
    /\ sweeping
    /\ row' = [u \in Uploads |->
                 IF row[u].status = "active" /\ row[u].old
                 THEN [row[u] EXCEPT !.status = "aborted", !.old = FALSE] ELSE row[u]]
    /\ sweeping' = FALSE
    /\ UNCHANGED <<disk, writable, aborting, patches, client, spent>>

\* The operator makes the folder read-only, or writable again.
ToggleWritable ==
    /\ Trouble(0)
    /\ writable' = ~writable
    /\ UNCHANGED <<row, disk, aborting, sweeping, patches, client>>

---------------------------------------------------------------------------
(* The uploaders. *)

\* uploadFile and #send: another chunk from where the server says it is.
SendsChunk(u, k) ==
    /\ client[u].phase = "loop"
    /\ client[u].status = "active" /\ client[u].received < Size
    /\ \A p \in patches : p.call # k
    /\ \A v \in Uploads : client[v].call # k
    /\ LET at == client[u].received IN
       patches' = patches \cup
           {[call |-> k, upload |-> u, offset |-> at, received |-> at, name |-> 0,
             end |-> IF at + ChunkSize < Size THEN at + ChunkSize ELSE Size,
             stage |-> "sent"]}
    /\ client' = [client EXCEPT ![u] = [@ EXCEPT !.phase = "patching", !.call = k]]
    /\ UNCHANGED <<server, spent>>

\* The loop ends; only a complete session is a success.
LoopEnds(u) ==
    /\ client[u].phase = "loop"
    /\ client[u].status # "active" \/ client[u].received >= Size
    /\ client' = [client EXCEPT ![u].phase =
                    IF client[u].status = "complete" THEN "done" ELSE "failed"]
    /\ UNCHANGED <<server, patches, spent>>

\* A failure of a chunk: worth another attempt, after a sleep and a look at the
\* session, or the end of this uploadFile.  #send has no other attempt.
TriesAgain(u) ==
    LET n == client[u].attempt + 1 IN
    client' = [client EXCEPT ![u] =
                 [@ EXCEPT !.call = NoCall, !.attempt = n,
                           !.phase = IF u \in Desktop \/ n >= MaxAttempts
                                     THEN "failed" ELSE "asking"]]

GivesUp(u) ==
    client' = [client EXCEPT ![u] = [@ EXCEPT !.call = NoCall, !.phase = "failed"]]

\* The answer to a chunk.  #send stops when the server has not moved on.
GetsAnswer(u, p) ==
    /\ client[u].call = p.call /\ Answered(p)
    /\ patches' = patches \ {p}
    /\ CASE p.stage = "mismatch" -> TriesAgain(u)
         [] p.stage = "error" -> GivesUp(u)
         [] OTHER ->
              IF u \in Desktop /\ p.received <= p.offset THEN GivesUp(u)
              ELSE client' = [client EXCEPT ![u] =
                     [phase |-> "loop", received |-> p.received, status |-> p.stage,
                      attempt |-> 0, call |-> NoCall]]
    /\ UNCHANGED <<server, spent>>

\* The request fails on the network, wherever the server is with it.
LosesPatch(u) ==
    /\ client[u].phase = "patching"
    /\ IF \E p \in patches : p.call = client[u].call
       THEN Loses ELSE UNCHANGED spent
    /\ TriesAgain(u)
    /\ UNCHANGED <<server, patches>>

AsksOwnCount(u) ==                  \* mutant: the session is not read again
    client' = [client EXCEPT ![u].phase = "loop"]

\* GET /uploads/:id: the session as the server has it.
Asks(u) ==
    client' = [client EXCEPT ![u] = [@ EXCEPT !.phase = "loop",
                 !.received = row[u].received, !.status = row[u].status]]

Learns(u) ==
    /\ client[u].phase = "asking"
    /\ Asks(u)
    /\ UNCHANGED <<server, patches, spent>>

\* The GET fails: its error leaves uploadFile, whatever attempts are left.
LosesAsk(u) ==
    /\ client[u].phase = "asking"
    /\ Loses
    /\ GivesUp(u)
    /\ UNCHANGED <<server, patches>>

\* The resume button of the web app: uploadFile again, with the id it kept.
ResumeUpload(u) ==
    /\ u \notin Desktop
    /\ client[u].phase = "failed"
    /\ client' = [client EXCEPT ![u] = [@ EXCEPT !.phase = "asking", !.attempt = 0]]
    /\ UNCHANGED <<server, patches, spent>>

---------------------------------------------------------------------------
Handler(p) ==
    \/ Arrives(p) \/ Writes(p) \/ BodyEnds(p) \/ BodyCut(p)
    \/ Resolves(p) \/ Reserves(p) \/ Renames(p) \/ Completes(p)
    \/ AnswerDropped(p)

ServerStep ==
    \/ \E p \in patches : Handler(p)
    \/ \E u \in Uploads : AbortBegins(u) \/ AbortRemoves(u) \/ AbortEnds(u)
    \/ \E u \in Uploads : GrowsOld(u)
    \/ Sweep
    \/ Restart
    \/ ToggleWritable

Uploader(u) ==
    \/ \E k \in Calls : SendsChunk(u, k)
    \/ LoopEnds(u) \/ Learns(u) \/ ResumeUpload(u)
    \/ \E p \in patches : GetsAnswer(u, p)

ClientStep ==
    \E u \in Uploads : Create(u) \/ Uploader(u) \/ LosesPatch(u) \/ LosesAsk(u)

Next == ServerStep \/ ClientStep

---------------------------------------------------------------------------
(* Properties. *)

\* A file that has a name in the library has every one of its bytes, however
\* often chunks were cut, sent twice, or written by two handlers at once.
WholeInLibrary ==
    \A u \in Uploads : place[u] = "library" => content[u] = Positions

\* "Never overwrite": a file that has a name keeps it.
LibraryKept ==
    [][\A n \in Names : library[n] \in Uploads => library'[n] = library[n]]_vars

\* A complete upload is in the library, under one name.
CompleteIsThere ==
    \A u \in Uploads :
        row[u].status = "complete" =>
            Cardinality({n \in Names : library[n] = u}) = 1

\* The empty file of a reservation goes with the handler that made it, unless
\* a restart came between.
NoLitter ==
    \A n \in Names :
        library[n] = Reserved /\ spent.restarts = 0 =>
            \E p \in patches : p.stage = "renaming" /\ p.name = n

\* On the web app every byte arrives in the end, however many requests are lost,
\* unless a restart or an abort has taken the file, or it has its name already.
AllArrives ==
    \A u \in Uploads \ Desktop :
        row[u].status = "active" ~>
            row[u].status # "active" \/ row[u].received = Size \/ place[u] # "temp"

\* What has arrived is finished: resume "resumes it rather than starting a second
\* copy of a file the server has most of".  (Not so: when the end fails after the
\* last byte, nothing is left to send and nothing finishes it.)
ArrivedIsFinished ==
    \A u \in Uploads \ Desktop :
        row[u].status = "active" /\ row[u].received = Size ~> row[u].status # "active"
=============================================================================
