----------------------------- MODULE Downloads -----------------------------
(***************************************************************************)
(* The download queue of the desktop client (DownloadManager): jobs that   *)
(* fetch a file into a partial file beside its destination, are paused,    *)
(* resumed and cancelled while they do, and are written to a queue file    *)
(* that the next start reads back.                                         *)
(*                                                                         *)
(* All jobs ask for the same file name, the case in which names matter: a  *)
(* destination is the number of its candidate ("film", "film (2)", ...).   *)
(* A file is the sequence of its bytes, and a byte says what it is of.     *)
(***************************************************************************)
EXTENDS Naturals, Sequences, FiniteSets, TLC

CONSTANTS
    Jobs,
    Concurrency,    \* transfers at once
    Length,         \* bytes of a version of a file on the server
    NoFile,         \* no file of that name
    UserFile,       \* a file that is not ours
    MaxNames,       \* bound: candidates for a destination
    MaxFaults,      \* bound: requests that fail, bodies that end early,
                    \* answers with another part of the file
    MaxUntold,      \* bound: answers that do not say how long the file is
    MaxChanges,     \* bound: files that change on the server
    MaxUserFiles,   \* bound: files the user puts into the downloads folder
    MaxRevivals,    \* bound: cancelled jobs that are resumed
    MaxRecancels,   \* bound: cancelled jobs that are cancelled again
    MaxPauses,      \* bound: pauses and cancellations
    MaxCrashes,     \* bound: times the app is killed and started again
    MaxTroubles     \* bound: all of these together

Byte == [job: Jobs, version: 0..MaxChanges, at: Nat \ {0}]

ASSUME DownloadsAssumption ==
    /\ Concurrency \in Nat \ {0} /\ MaxNames \in Nat \ {0}
    /\ MaxFaults \in Nat /\ MaxUntold \in Nat /\ MaxChanges \in Nat /\ MaxUserFiles \in Nat
    /\ MaxRevivals \in Nat /\ MaxRecancels \in Nat /\ MaxPauses \in Nat /\ MaxCrashes \in Nat
    /\ MaxTroubles \in Nat
    /\ Length \in [0..MaxChanges -> Nat \ {0}]
    /\ NoFile # UserFile /\ \A f \in {NoFile, UserFile} : f \notin Seq(Byte)

VARIABLES
    rows,       \* #jobs: the job rows, as the window shows them
    queue,      \* #queue
    runs,       \* #running, and where each transfer is
    part,       \* the .lcpart file of each destination
    disk,       \* the file at each destination
    version,    \* the version of each job's file on the server
    saved,      \* the queue file
    unsaved,    \* #saving: the queue file is about to be written
    spent       \* counters behind the bounds

memory == <<rows, queue, runs>>
files == <<part, disk>>
vars == <<memory, files, version, saved, unsaved, spent>>

Names == 1..MaxNames
NoName == 0

Row == [status: {"none", "queued", "downloading", "paused", "error", "done", "cancelled"},
        dest: Names \cup {NoName}]

\* written: bytes the partial file is believed to hold; version: what the
\* server answered with; told: its headers said how long it is.
Run == [at: {"none", "opening", "reading", "closing"}, written: Nat,
        version: 0..MaxChanges, told: BOOLEAN, paused: BOOLEAN, cancelled: BOOLEAN]

NoRow == [status |-> "none", dest |-> NoName]
NotRunning == [at |-> "none", written |-> 0, version |-> 0, told |-> FALSE,
               paused |-> FALSE, cancelled |-> FALSE]

IsFile(f) == f # NoFile /\ f # UserFile
IsContent(f) ==
    \A i \in DOMAIN f : f[i] \in Byte

TypeOK ==
    /\ rows \in [Jobs -> Row] /\ saved \in [Jobs -> Row]
    /\ \A i \in DOMAIN queue : rows[queue[i]].status = "queued"
    /\ runs \in [Jobs -> Run]
    /\ \A j \in Jobs : runs[j].at # "none" <=> rows[j].status = "downloading"
    /\ \A n \in Names : IsFile(part[n]) => IsContent(part[n])
    /\ \A n \in Names : IsFile(disk[n]) => IsContent(disk[n])
    /\ version \in [Jobs -> 0..MaxChanges]
    /\ unsaved \in BOOLEAN

DownloadsInit ==
    /\ rows = [j \in Jobs |-> NoRow] /\ saved = rows
    /\ queue = <<>>
    /\ runs = [j \in Jobs |-> NotRunning]
    /\ part = [n \in Names |-> NoFile] /\ disk = part
    /\ version = [j \in Jobs |-> 0]
    /\ unsaved = FALSE
    /\ spent = [faults |-> 0, untold |-> 0, changes |-> 0, userFiles |-> 0, revivals |-> 0,
                recancels |-> 0, pauses |-> 0, crashes |-> 0]

Troubles == spent.faults + spent.untold + spent.changes + spent.userFiles + spent.revivals
            + spent.recancels + spent.pauses + spent.crashes

Spend(what, max) ==
    /\ spent[what] < max /\ Troubles < MaxTroubles
    /\ spent' = [spent EXCEPT ![what] = @ + 1]

\* bytesOnDisk
BytesOnDisk(f) == IF IsFile(f) THEN Len(f) ELSE 0

Aborted(j) == runs[j].paused \/ runs[j].cancelled
Running == {j \in Jobs : runs[j].at # "none"}

---------------------------------------------------------------------------
(* #pump and #run, up to the first await. *)

\* The queue gives its oldest jobs to the transfers that are free.  A transfer
\* reads the length of the partial file before it awaits anything.
Pump(nextRows, nextQueue, nextRuns) ==
    LET free == Concurrency - Cardinality({j \in Jobs : nextRuns[j].at # "none"})
        n == IF free < Len(nextQueue) THEN free ELSE Len(nextQueue)
        started == {nextQueue[i] : i \in 1..n}
    IN /\ rows' = [j \in Jobs |-> IF j \in started
                                  THEN [nextRows[j] EXCEPT !.status = "downloading"]
                                  ELSE nextRows[j]]
       /\ runs' = [j \in Jobs |-> IF j \in started
                                  THEN [NotRunning EXCEPT !.at = "opening",
                                            !.written = BytesOnDisk(part'[nextRows[j].dest])]
                                  ELSE nextRuns[j]]
       /\ queue' = SubSeq(nextQueue, n + 1, Len(nextQueue))

PumpNothing(nextRows, nextQueue, nextRuns) ==       \* mutant: finally forgets it
    /\ rows' = nextRows /\ runs' = nextRuns /\ queue' = nextQueue

\* #run's finally: the transfer is over, and the next one begins.
PumpOn(nextRows, nextQueue, nextRuns) == Pump(nextRows, nextQueue, nextRuns)

\* The queue without a job, which is in it at most once.
Without(q, j) ==
    IF \A i \in DOMAIN q : q[i] # j THEN q
    ELSE LET k == CHOOSE i \in DOMAIN q : q[i] = j
         IN [i \in 1..(Len(q) - 1) |-> IF i < k THEN q[i] ELSE q[i + 1]]

Sets(j, status) == [rows EXCEPT ![j].status = status]
Removes(n) == part' = [part EXCEPT ![n] = NoFile]

---------------------------------------------------------------------------
(* What the window asks for. *)

\* #destinationFor: the first candidate that no job claims and no file has.
Claimed == {rows[j].dest : j \in {i \in Jobs : rows[i].status # "cancelled"}}
FreeName(n) == n \notin Claimed /\ disk[n] = NoFile /\ part[n] = NoFile

\* enqueue: written to the queue file only if its transfer begins.
Enqueue(j) ==
    /\ rows[j].status = "none"
    /\ \E n \in Names :
          /\ FreeName(n) /\ \A m \in 1..(n - 1) : ~FreeName(m)
          /\ UNCHANGED part
          /\ Pump([rows EXCEPT ![j] = [status |-> "queued", dest |-> n]],
                  Append(queue, j), runs)
    /\ unsaved' = (unsaved \/ runs' # runs)
    /\ UNCHANGED <<disk, version, saved, spent>>

\* pause of a job that does not run.
PauseAtRest(j) ==
    /\ rows' = Sets(j, "paused")
    /\ queue' = Without(queue, j)
    /\ unsaved' = TRUE
    /\ UNCHANGED runs

Pause(j) ==
    /\ rows[j].status \in {"queued", "downloading"} /\ ~runs[j].paused
    /\ Spend("pauses", MaxPauses)
    /\ \/ /\ j \in Running
          /\ runs' = [runs EXCEPT ![j].paused = TRUE]
          /\ UNCHANGED <<rows, queue, unsaved>>
       \/ j \notin Running /\ PauseAtRest(j)
    /\ UNCHANGED <<files, version, saved>>

ResumableDone(j) ==                     \* mutant: a finished one is run again
    rows[j].status \in {"paused", "error", "cancelled", "done"}

Resumable(j) == rows[j].status \in {"paused", "error", "cancelled"}

\* resume: a job that is still running is answered as it is; a cancelled one
\* comes back to the destination it had.
Resume(j) ==
    /\ Resumable(j)
    /\ IF rows[j].status = "cancelled" THEN Spend("revivals", MaxRevivals)
       ELSE UNCHANGED spent
    /\ UNCHANGED part
    /\ Pump(Sets(j, "queued"), Append(queue, j), runs)
    /\ unsaved' = TRUE
    /\ UNCHANGED <<disk, version, saved>>

\* cancel of a job that does not run.
CancelAtRest(j) ==
    /\ rows' = Sets(j, "cancelled")
    /\ queue' = Without(queue, j)
    /\ Removes(rows[j].dest)
    /\ unsaved' = TRUE
    /\ UNCHANGED runs

\* The window offers it for every row but a finished one: also for one that is
\* cancelled, whose partial file may be another job's by then.
Cancel(j) ==
    /\ rows[j].status \notin {"none", "done"}
    /\ ~runs[j].cancelled
    /\ IF rows[j].status = "cancelled" THEN Spend("recancels", MaxRecancels)
       ELSE Spend("pauses", MaxPauses)
    /\ \/ /\ j \in Running
          /\ runs' = [runs EXCEPT ![j].cancelled = TRUE]
          /\ UNCHANGED <<rows, queue, part, unsaved>>
       \/ j \notin Running /\ CancelAtRest(j)
    /\ UNCHANGED <<disk, version, saved>>

---------------------------------------------------------------------------
(* A transfer. *)

\* #run's catch and finally: cancelled, paused, or an error.
Stops(j) ==
    LET n == rows[j].dest
        status == CASE runs[j].cancelled -> "cancelled"
                    [] runs[j].paused /\ ~runs[j].cancelled -> "paused"
                    [] OTHER -> "error"
    IN /\ IF runs[j].cancelled THEN Removes(n) ELSE UNCHANGED part
       /\ PumpOn(Sets(j, status), queue, [runs EXCEPT ![j] = NotRunning])
       /\ unsaved' = TRUE
       /\ UNCHANGED <<disk, version, saved>>

\* The same after the partial file was found to be of no use.
StopsAnew(j) ==
    /\ Removes(rows[j].dest)
    /\ PumpOn(Sets(j, "error"), queue, [runs EXCEPT ![j] = NotRunning])
    /\ unsaved' = TRUE
    /\ UNCHANGED <<disk, version, saved>>

\* #finish: the partial file takes its name, or is not there to take it.
Finishes(j) ==
    LET n == rows[j].dest IN
    IF part[n] = NoFile THEN Stops(j)
    ELSE /\ disk' = [disk EXCEPT ![n] = part[n]]
         /\ Removes(n)
         /\ PumpOn(Sets(j, "done"), queue, [runs EXCEPT ![j] = NotRunning])
         /\ unsaved' = TRUE
         /\ UNCHANGED <<version, saved>>

\* The request fails, or is aborted while it waits or reads.
Fails(j) ==
    /\ runs[j].at \in {"opening", "reading"}
    /\ IF Aborted(j) THEN UNCHANGED spent ELSE Spend("faults", MaxFaults)
    /\ Stops(j)

\* 416: the partial file reaches the end of the server's, or beyond it.
PastTheEnd(j) ==
    /\ runs[j].at = "opening" /\ ~Aborted(j)
    /\ runs[j].written >= Length[version[j]]
    /\ \/ runs[j].written = Length[version[j]] /\ Finishes(j) /\ UNCHANGED spent
       \/ runs[j].written > Length[version[j]] /\ StopsAnew(j) /\ UNCHANGED spent
       \/ \* The answer does not say where the end is.
          Spend("untold", MaxUntold) /\ StopsAnew(j)

Sinks(j, from, told) ==
    /\ runs' = [runs EXCEPT ![j].at = "reading", ![j].written = from,
                            ![j].version = version[j], ![j].told = told]
    /\ part' = [part EXCEPT ![rows[j].dest] =
                   IF from > 0 /\ @ # NoFile THEN @ ELSE <<>>]

ServedUnchecked(j, from, told) ==       \* mutant: whatever comes is appended
    /\ Sinks(j, from, told)
    /\ UNCHANGED <<rows, queue, disk, version, saved, unsaved>>

\* Bytes arrive, from where the partial file ends, from the beginning, or from
\* elsewhere: then nothing is kept.
Served(j, from, told) ==
    IF from = runs[j].written \/ from = 0
    THEN /\ Sinks(j, from, told)
         /\ UNCHANGED <<rows, queue, disk, version, saved, unsaved>>
    ELSE StopsAnew(j)

Answers(j) ==
    /\ runs[j].at = "opening" /\ ~Aborted(j)
    /\ runs[j].written < Length[version[j]]
    /\ \/ \E from \in 0..(Length[version[j]] - 1) :
             /\ IF from = runs[j].written THEN UNCHANGED spent ELSE Spend("faults", MaxFaults)
             /\ Served(j, from, TRUE)
       \/ \* The headers leave the size out (sizeFromHeaders: null).
          Spend("untold", MaxUntold) /\ Served(j, runs[j].written, FALSE)

\* A chunk is written behind the bytes there are.
ReadsChunk(j) ==
    LET next == runs[j].written + 1
        byte == [job |-> j, version |-> runs[j].version, at |-> next]
    IN /\ runs[j].at = "reading" /\ ~Aborted(j)
       /\ next <= Length[runs[j].version]
       /\ runs' = [runs EXCEPT ![j].written = next]
       /\ part' = [part EXCEPT ![rows[j].dest] =
                      IF @ = NoFile THEN @ ELSE Append(@, byte)]
       /\ UNCHANGED <<rows, queue, disk, version, saved, unsaved, spent>>

\* The body brought everything there is.
Whole(j) == runs[j].written >= Length[runs[j].version]

\* #transfer's end: a body that ended early is no file, if its end was known.
Ends(j) == ~runs[j].told \/ Whole(j)

\* The body ends, early or not, and the sink is closed.
BodyEnds(j) ==
    /\ runs[j].at = "reading" /\ ~Aborted(j)
    /\ IF Whole(j) THEN UNCHANGED spent ELSE Spend("faults", MaxFaults)
    /\ runs' = [runs EXCEPT ![j].at = "closing"]
    /\ UNCHANGED <<rows, queue, files, version, saved, unsaved>>

\* Nobody looks whether the job has been paused or cancelled meanwhile.
SinkCloses(j) ==
    /\ runs[j].at = "closing"
    /\ IF Ends(j) THEN Finishes(j) ELSE Stops(j)
    /\ UNCHANGED spent

Transfer(j) ==
    Fails(j) \/ PastTheEnd(j) \/ Answers(j) \/ ReadsChunk(j) \/ BodyEnds(j) \/ SinkCloses(j)

---------------------------------------------------------------------------
(* The queue file, the machine and the server. *)

\* #persist: the rows as they are when the write begins.
Persist ==
    /\ unsaved
    /\ saved' = rows
    /\ unsaved' = FALSE
    /\ UNCHANGED <<memory, files, version, spent>>

\* The app is killed; load() reads the queue file back.
Crash ==
    /\ Spend("crashes", MaxCrashes)
    /\ rows' = [j \in Jobs |-> IF saved[j].status \in {"queued", "downloading"}
                               THEN [saved[j] EXCEPT !.status = "paused"]
                               ELSE saved[j]]
    /\ queue' = <<>>
    /\ runs' = [j \in Jobs |-> NotRunning]
    /\ unsaved' = FALSE
    /\ UNCHANGED <<files, version, saved>>

UserSaves(n) ==
    /\ disk[n] = NoFile
    /\ Spend("userFiles", MaxUserFiles)
    /\ disk' = [disk EXCEPT ![n] = UserFile]
    /\ UNCHANGED <<memory, part, version, saved, unsaved>>

ServerChanges(j) ==
    /\ rows[j].status # "none"
    /\ Spend("changes", MaxChanges)
    /\ version' = [version EXCEPT ![j] = @ + 1]
    /\ UNCHANGED <<memory, files, saved, unsaved>>

---------------------------------------------------------------------------
Next ==
    \/ \E j \in Jobs : Enqueue(j) \/ Pause(j) \/ Resume(j) \/ Cancel(j)
    \/ \E j \in Jobs : Transfer(j)
    \/ Persist
    \/ Crash
    \/ \E n \in Names : UserSaves(n)
    \/ \E j \in Jobs : ServerChanges(j)

Spec == DownloadsInit /\ [][Next]_vars

---------------------------------------------------------------------------
(* Properties. *)

\* (Not so once a cancelled job is resumed: enqueue does not count its name.)
NoTwoWriters ==
    \A i, j \in Running : i # j => rows[i].dest # rows[j].dest

\* Two jobs never write one partial file, which "would interleave two downloads
\* into a single corrupt file".  (A job that is resumed after it was cancelled
\* does: NoTwoWriters.)
OneWriterPerPart ==
    spent.revivals = 0 => NoTwoWriters

\* A cancelled job that is resumed shares its partial file with the job that has
\* its name by then; one that is cancelled again removes that file, and the other
\* job, when it waits for an answer from where the file ended, puts those bytes
\* first into a new one.  A crash may bring back a job whose cancellation was not
\* written yet.
Undisturbed == spent.revivals + spent.recancels + spent.crashes = 0

\* The bytes of a file of j in their places: of one version, or the first of one
\* and then those of later ones.
InPlace(f, j) ==
    /\ \A i \in DOMAIN f : f[i].at = i /\ f[i].job = j /\ f[i].version <= version[j]
    /\ \A i, k \in DOMAIN f : i <= k => f[i].version <= f[k].version

\* A partial file holds the first bytes of one job's file, each in its place,
\* wherever requests broke off and whatever part of the file the server answered
\* with.  They are of one version if the file has not changed; if it has, bytes of
\* the new version stand behind those of the old one (DoneIsOneVersion).
PartsArePrefixes ==
    Undisturbed =>
        \A n \in Names : IsFile(part[n]) => \E j \in Jobs : InPlace(part[n], j)

\* A job that is done has left a file of its own, as long as the server's is or
\* was, with every byte in its place; it is the server's file if that has not
\* changed.  (An answer that does not say how long the file is may end early and
\* pass for whole: downloads.ts:369, 401.)
DoneIsWhole ==
    Undisturbed /\ spent.untold = 0 =>
        \A j \in Jobs : rows[j].status = "done" =>
            LET f == disk[rows[j].dest] IN
            /\ IsFile(f) /\ InPlace(f, j)
            /\ \E v \in 0..version[j] : Len(f) = Length[v]

\* A cancelled job leaves nothing that another job does not own.
CancelledIsClean ==
    spent.crashes = 0 =>
        \A j \in Jobs : rows[j].status = "cancelled" =>
            \/ part[rows[j].dest] = NoFile
            \/ \E i \in Jobs : rows[i].dest = rows[j].dest /\ rows[i].status # "cancelled"

\* The five of them hold together: what the transfers leave in the downloads
\* folder, whatever is paused, cancelled and resumed while they run.
DownloadsHold == TypeOK /\ OneWriterPerPart /\ PartsArePrefixes /\ DoneIsWhole /\ CancelledIsClean

\* What has been fetched is never replaced by another fetch, as long as the app has
\* not been killed and no cancelled job was resumed.  (A job that was done when the
\* app was killed may be fetched again over its own file, a cancelled one that is
\* resumed over the file of the job that has its name by then.)
FetchedIsKept ==
    [][spent'.revivals + spent'.crashes = 0 =>
        \A n \in Names : IsFile(disk[n]) => disk'[n] = disk[n]]_vars

\* "Never overwrite: the user asked to fetch a copy, not to replace whatever is
\* already sitting in their downloads folder under the same name".  (Not so: the
\* name is looked at when the job is queued, and used when it is done.)
NeverOverwrites ==
    [][\A n \in Names : disk[n] # NoFile => disk'[n] = disk[n]]_vars

\* "appending at the wrong place is silent: the file ends up the right size and the
\* wrong content", so what the answer says is "checked rather than assumed"
\* (downloads.ts): a fetched file is of one version, in what is not disturbed.  (Not
\* so: only the offset is checked.  Nothing about the partial file says which
\* version it was begun from, and no If-Range is sent.)
DoneIsOneVersion ==
    Undisturbed =>
        \A n \in Names : IsFile(disk[n]) =>
            \A i \in DOMAIN disk[n] : disk[n][i].version = disk[n][1].version

\* No job waits while a transfer is free, whatever ended the one before it.
NoneWaitsInVain == queue # <<>> => Cardinality(Running) = Concurrency

---------------------------------------------------------------------------
(* Instances of Downloads for TLC. *)

JobSymmetry == Permutations(Jobs)

\* A file of three bytes, of two when it has been changed: what there is of the
\* old one may be less than the new one, as much, or more.
ThreeThenTwo == [v \in 0..MaxChanges |-> IF v = 0 THEN 3 ELSE 2]
=============================================================================
