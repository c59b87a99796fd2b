------------------------------- MODULE PrintQueue -------------------------------
(***************************************************************************)
(* The print queue of the server (PrintQueue) and the table it prints to:  *)
(* jobs of one printer run one after another; each copies its file, hands  *)
(* the copy to Windows and looks for the number that Windows gave it while *)
(* it does, and then watches that number until it leaves the spooler.      *)
(*                                                                         *)
(* There is one printer.  Its queue in Windows holds our jobs and those of *)
(* other programs; a job there is its number and whose it is.              *)
(***************************************************************************)
EXTENDS Naturals, Sequences, FiniteSets

CONSTANTS
    Jobs,
    NoJob,              \* no job runs
    Other,              \* another program
    Looks,              \* discoverAttempts, with the print helper
    ShellLooks,         \* four times that, without it
    UnreadableLimit,    \* unreadable looks in a row that end a job
    MaxNumbers,         \* bound: numbers that Windows gives
    MaxTroubles         \* bound: looks that cannot read the queue, other calls
                        \* that fail, trouble at the printer, times it is
                        \* hidden, and ends of the server

ASSUME PrintAssumption ==
    /\ NoJob \notin Jobs /\ Other \notin Jobs
    /\ Looks \in Nat \ {0} /\ ShellLooks \in Nat \ {0}
    /\ UnreadableLimit \in Nat \ {0}
    /\ MaxNumbers \in Nat /\ MaxTroubles \in Nat

VARIABLES
    printer,    \* the printer's row: absent, shown or hidden
    rows,       \* print_jobs
    chain,      \* the promise chain of the printer; its head may run
    asked,      \* cancelRequested
    run,        \* where the head of the chain is
    spool,      \* jobs whose copy is in the temporary directory
    unlinking,  \* copies that cancel() removes without waiting
    viewer,     \* jobs that the shell's viewer is about to print
    windows,    \* the spooler's queue
    numbered,   \* numbers that Windows has given
    disposed,
    troubles    \* counter behind the bound of troubles

ours == <<printer, rows, chain, asked, run, spool, unlinking, disposed>>
printVars == <<ours, viewer, windows, numbered, troubles>>

NoNumber == 0

Statuses == {"none", "resolving", "queued", "printing", "done", "error", "cancelled"}
Final == {"done", "error"}
Alive == {"queued", "printing"}

Stages == {"idle", "dropping", "copying", "checking", "listing", "handing",
           "watching", "looking", "cleaning"}

\* handed: of the submission; before: the numbers seen before it; looks: the
\* looks that found nothing after it, then whether the watch has looked; number:
\* what was found; unread: looks in a row that could not read; outcome: what the
\* job is finished with.
Run == [at: Stages, job: Jobs \cup {NoJob}, helper: BOOLEAN,
        handed: {"no", "busy", "ok", "failed"}, before: SUBSET (1..MaxNumbers),
        looks: Nat, found: BOOLEAN, number: 0..MaxNumbers, unread: Nat,
        outcome: Statuses]
IdleRun == [at |-> "idle", job |-> NoJob, helper |-> FALSE, handed |-> "no",
         before |-> {}, looks |-> 0, found |-> FALSE, number |-> NoNumber,
         unread |-> 0, outcome |-> "none"]

PrintTypeOK ==
    /\ printer \in {"absent", "shown", "hidden"}
    /\ rows \in [Jobs -> Statuses] /\ run \in Run
    /\ chain \in Seq(Jobs) /\ asked \subseteq Jobs
    /\ spool \subseteq Jobs /\ unlinking \subseteq Jobs /\ viewer \subseteq Jobs
    /\ windows \subseteq [number: 1..MaxNumbers, of: Jobs \cup {Other}]
    /\ run.at # "idle" => chain # <<>> /\ run.job = Head(chain)

PrintInit ==
    /\ printer = "absent" /\ rows = [j \in Jobs |-> "none"]
    /\ chain = <<>> /\ asked = {} /\ run = IdleRun
    /\ spool = {} /\ unlinking = {} /\ viewer = {}
    /\ windows = {} /\ numbered = 0 /\ disposed = FALSE
    /\ troubles = 0

Trouble == troubles < MaxTroubles /\ troubles' = troubles + 1

Job == run.job
InChain == {chain[i] : i \in DOMAIN chain}
At(s) == run' = [run EXCEPT !.at = s]

-------------------------------------------------------------------------------
(* The table of printers. *)

\* A printer that Windows lists is shown; one that is known keeps its flag.
SyncPrinters ==
    /\ printer = "absent" /\ printer' = "shown"
    /\ UNCHANGED <<rows, chain, asked, run, spool, unlinking, disposed, viewer,
                   windows, numbered, troubles>>

SetPrinterEnabled(p) ==
    /\ printer \notin {"absent", p} /\ printer' = p
    /\ IF p = "hidden" THEN Trouble ELSE UNCHANGED troubles
    /\ UNCHANGED <<rows, chain, asked, run, spool, unlinking, disposed, viewer,
                   windows, numbered>>

-------------------------------------------------------------------------------
(* What devices ask for. *)

\* POST /print looks the printer up, and then awaits the file.
Accept(j) ==
    /\ rows[j] = "none" /\ printer = "shown" /\ ~disposed
    /\ rows' = [rows EXCEPT ![j] = "resolving"]
    /\ UNCHANGED <<printer, chain, asked, run, spool, unlinking, disposed, viewer,
                   windows, numbered, troubles>>

EnqueueJob(j) ==
    /\ rows[j] = "resolving"
    /\ rows' = [rows EXCEPT ![j] = "queued"]
    /\ chain' = Append(chain, j)
    /\ UNCHANGED <<printer, asked, run, spool, unlinking, disposed, viewer,
                   windows, numbered, troubles>>

\* transition(), and finish(), which forgets that the job was to be cancelled.
Transition(j, s) == rows' = [rows EXCEPT ![j] = s]
FinishForgetful(j, s) == Transition(j, s) /\ UNCHANGED asked
FinishJob(j, s) == Transition(j, s) /\ asked' = asked \ {j}

\* What is queued is cancelled at once, the rest by the loop that watches it.
CancelAnything(j) ==
    /\ rows[j] \notin {"none", "resolving", "cancelled"}
    /\ FinishJob(j, "cancelled") /\ unlinking' = unlinking \cup {j}
    /\ UNCHANGED <<printer, chain, run, spool, disposed, viewer, windows, numbered, troubles>>
CancelJob(j) ==
    /\ \/ /\ rows[j] = "queued"
          /\ FinishJob(j, "cancelled") /\ unlinking' = unlinking \cup {j}
       \/ /\ rows[j] = "printing" /\ asked' = asked \cup {j}
          /\ UNCHANGED <<rows, unlinking>>
    /\ UNCHANGED <<printer, chain, run, spool, disposed, viewer, windows, numbered, troubles>>

\* The unlink that nobody waits for.
Unlinks(j) ==
    /\ j \in unlinking /\ unlinking' = unlinking \ {j} /\ spool' = spool \ {j}
    /\ UNCHANGED <<printer, rows, chain, asked, run, disposed, viewer, windows, numbered, troubles>>

-------------------------------------------------------------------------------
(* run(): one job at a time. *)

Outside == UNCHANGED <<printer, unlinking, disposed, viewer, windows, numbered>>
Steps(s) == At(s) /\ UNCHANGED <<rows, chain, asked, spool, troubles>> /\ Outside
Over == run' = IdleRun /\ chain' = Tail(chain)

\* A job that is not wanted any more only loses its copy.
Start ==
    /\ run.at = "idle" /\ chain # <<>>
    /\ LET j == Head(chain) IN
       run' = [run EXCEPT !.job = j,
                          !.at = IF rows[j] = "queued" /\ j \notin asked /\ ~disposed
                                 THEN "copying" ELSE "dropping"]
    /\ UNCHANGED <<rows, chain, asked, spool, troubles>> /\ Outside

\* cleanupSpool, when the job is not finished after it.
Drop ==
    /\ run.at = "dropping" /\ Over /\ spool' = spool \ {Job}
    /\ UNCHANGED <<rows, asked, troubles>> /\ Outside

Copy ==
    /\ run.at = "copying"
    /\ \/ /\ At("checking") /\ spool' = spool \cup {Job} /\ UNCHANGED troubles
       \/ /\ run' = [run EXCEPT !.at = "cleaning", !.outcome = "error"]
          /\ Trouble /\ spool' \in {spool, spool \cup {Job}}
    /\ UNCHANGED <<rows, chain, asked>> /\ Outside

\* The helper takes settings; the shell's verb must do without them, and be
\* there for this type of file.
Check ==
    /\ run.at = "checking"
    /\ \/ \E h \in BOOLEAN : run' = [run EXCEPT !.at = "listing", !.helper = h]
          /\ UNCHANGED troubles
       \/ run' = [run EXCEPT !.at = "cleaning", !.outcome = "error"] /\ Trouble
    /\ UNCHANGED <<rows, chain, asked, spool>> /\ Outside

Numbers == {w.number : w \in windows}

\* A queue that cannot be read has no numbers.
Reads == UNCHANGED troubles

\* The numbers that are there already; then the job is printing, whatever it
\* has become meanwhile.
ListBefore ==
    /\ run.at = "listing"
    /\ \E seen \in {Numbers, {}} :
          /\ (seen = Numbers /\ Reads) \/ (seen # Numbers /\ Trouble)
          /\ run' = [run EXCEPT !.at = "handing", !.before = seen, !.handed = "busy"]
    /\ Transition(Job, "printing")
    /\ UNCHANGED <<chain, asked, spool>> /\ Outside

\* The submission ends.  Without the helper it has only opened a viewer.
Submit ==
    /\ run.at = "handing" /\ run.handed = "busy"
    /\ \/ /\ run' = [run EXCEPT !.handed = "ok"] /\ UNCHANGED troubles
          /\ viewer' = IF run.helper THEN viewer ELSE viewer \cup {Job}
       \/ /\ run' = [run EXCEPT !.handed = "failed"] /\ Trouble /\ UNCHANGED viewer
    /\ UNCHANGED <<printer, rows, chain, asked, spool, unlinking, disposed, windows, numbered>>

\* discoverJobId() beside it: the first number that was not there before, or
\* none after enough looks that came after the submission.
Attempts == IF run.helper THEN Looks ELSE ShellLooks
Fresh == Numbers \ run.before

DiscoverForEver ==
    /\ run.at = "handing" /\ ~run.found
    /\ Fresh # {} /\ \E n \in Fresh : run' = [run EXCEPT !.found = TRUE, !.number = n]
    /\ Reads
    /\ UNCHANGED <<rows, chain, asked, spool>> /\ Outside
Discover ==
    /\ run.at = "handing" /\ ~run.found
    /\ \/ /\ Fresh # {} /\ Reads
          /\ \E n \in Fresh : run' = [run EXCEPT !.found = TRUE, !.number = n]
       \/ /\ run.handed # "busy"
          /\ (Fresh = {} /\ Reads) \/ (Fresh # {} /\ Trouble)
          /\ run' = [run EXCEPT !.looks = @ + 1, !.found = run.looks + 1 >= Attempts]
    /\ UNCHANGED <<rows, chain, asked, spool>> /\ Outside

\* Both have ended: a failure is told, and what was handed over is watched; of
\* what was never seen it is taken that it has printed.
Handed ==
    /\ run.at = "handing" /\ run.handed # "busy" /\ run.found
    /\ run' = [IdleRun EXCEPT !.job = Job, !.number = run.number,
          !.at = IF run.handed = "failed" \/ run.number = NoNumber THEN "cleaning"
                 ELSE "watching",
          !.outcome = CASE run.handed = "failed" -> "error"
                        [] run.handed = "ok" /\ run.number = NoNumber -> "done"
                        [] OTHER -> "none"]
    /\ UNCHANGED <<rows, chain, asked, spool, troubles>> /\ Outside

-------------------------------------------------------------------------------
(* watch(): until the number is gone. *)

Settle(s) ==
    /\ run' = [IdleRun EXCEPT !.job = Job, !.at = "cleaning", !.outcome = s]
    /\ UNCHANGED <<rows, chain, asked, spool>>

\* The spooler is asked to drop the number, and the job is cancelled whatever
\* it answers.
DropsNumber ==
    /\ run.at = "watching" /\ Job \in asked /\ Settle("cancelled")
    /\ \/ windows' = {w \in windows : w.number # run.number} /\ UNCHANGED troubles
       \/ (Trouble /\ UNCHANGED windows)
    /\ UNCHANGED <<printer, unlinking, disposed, viewer, numbered>>

\* The deadline, before a cancellation is looked for; the first look always comes.
TimesOut ==
    /\ run.at = "watching" /\ run.looks > 0
    /\ Settle("error") /\ UNCHANGED troubles /\ Outside

\* Get-PrintJob is asked; a cancellation that is noted from here on waits for the
\* next turn of the loop.
LookBegins ==
    /\ run.at = "watching" /\ Job \notin asked /\ Steps("looking")

Waits(unread) ==
    /\ run' = [run EXCEPT !.at = "watching", !.looks = 1, !.unread = unread]
    /\ UNCHANGED <<rows, chain, asked, spool>>

\* The flags of a number that is there: an error, a deletion, the end, or none
\* of them; a server that is going leaves what is not settled as printing.
Look ==
    /\ run.at = "looking"
    /\ \/ /\ run.number \notin Numbers /\ Settle("done") /\ Reads
       \/ /\ run.number \in Numbers /\ Reads
          /\ Settle("done") \/ (disposed /\ Settle("printing"))
       \/ /\ run.number \in Numbers /\ Trouble
          /\ Settle("error") \/ Settle("cancelled")
       \/ /\ run.number \in Numbers /\ ~disposed /\ Reads /\ Waits(0)
    /\ Outside

LookFails ==
    /\ run.at = "looking" /\ Trouble
    /\ \/ /\ run.unread + 1 >= UnreadableLimit /\ Settle("error")
       \/ /\ run.unread + 1 < UnreadableLimit /\ disposed /\ Settle("printing")
       \/ /\ run.unread + 1 < UnreadableLimit /\ ~disposed
          /\ Waits(run.unread + 1)
    /\ Outside

\* The copy goes before the end is told.
CleanUp ==
    /\ run.at = "cleaning" /\ Job \in spool /\ spool' = spool \ {Job}
    /\ UNCHANGED <<rows, chain, asked, run, troubles>> /\ Outside
Settled ==
    /\ run.at = "cleaning" /\ Job \notin spool
    /\ FinishJob(Job, run.outcome) /\ Over /\ UNCHANGED <<spool, troubles>> /\ Outside

RunNext ==
    \/ Start \/ Drop \/ Copy \/ Check \/ ListBefore \/ Submit \/ Discover \/ Handed
    \/ DropsNumber \/ LookBegins \/ Look \/ LookFails \/ TimesOut \/ CleanUp \/ Settled

-------------------------------------------------------------------------------
(* The end of the server, and its next start. *)

DisposeQueue ==
    /\ ~disposed /\ disposed' = TRUE /\ Trouble
    /\ UNCHANGED <<printer, rows, chain, asked, run, spool, unlinking, viewer, windows, numbered>>

\* The temporary directory is cleaned, and jobs of the process before are closed.
RestartQueue ==
    /\ IF disposed THEN UNCHANGED troubles ELSE Trouble
    /\ disposed' = FALSE
    /\ rows' = [j \in Jobs |-> IF rows[j] \in Alive THEN "error"
                               ELSE IF rows[j] = "resolving" THEN "none" ELSE rows[j]]
    /\ chain' = <<>> /\ asked' = {} /\ run' = IdleRun /\ spool' = {} /\ unlinking' = {}
    /\ UNCHANGED <<printer, viewer, windows, numbered>>

-------------------------------------------------------------------------------
(* Windows. *)

\* A document gets a number: ours from the helper while it hands it over or
\* from the viewer after it, or that of another program (bound: before or in
\* the submission, where it can be taken for ours).
Numbered(o) ==
    /\ numbered < MaxNumbers /\ numbered' = numbered + 1
    /\ \/ o = Other /\ run.at \in {"listing", "handing"} /\ UNCHANGED viewer
       \/ /\ run.at = "handing" /\ run.helper /\ run.handed = "busy" /\ o = Job
          /\ \A w \in windows : w.of # o
          /\ UNCHANGED viewer
       \/ o \in viewer /\ viewer' = viewer \ {o}
    /\ windows' = windows \cup {[number |-> numbered + 1, of |-> o]}
    /\ UNCHANGED <<ours, troubles>>

Leaves(w) ==
    /\ w \in windows /\ windows' = windows \ {w}
    /\ UNCHANGED <<ours, viewer, numbered, troubles>>

-------------------------------------------------------------------------------

PrintNext ==
    \/ SyncPrinters \/ \E p \in {"shown", "hidden"} : SetPrinterEnabled(p)
    \/ \E j \in Jobs : Accept(j) \/ EnqueueJob(j) \/ CancelJob(j) \/ Unlinks(j)
    \/ RunNext \/ DisposeQueue \/ RestartQueue
    \/ \E o \in Jobs \cup {Other} : Numbered(o)
    \/ \E w \in windows : Leaves(w)

PrintSpec == PrintInit /\ [][PrintNext]_printVars

\* Every call of the queue has a time limit, its loops a count or a deadline: one that
\* has passed is found passed at the next turn (so strong, for TimesOut).
LivePrintSpec ==
    /\ PrintSpec
    /\ WF_printVars(Start) /\ WF_printVars(Drop) /\ WF_printVars(Copy) /\ WF_printVars(Check)
    /\ WF_printVars(ListBefore) /\ WF_printVars(Submit) /\ WF_printVars(Discover) /\ WF_printVars(Handed)
    /\ WF_printVars(DropsNumber) /\ WF_printVars(LookBegins) /\ WF_printVars(Look)
    /\ SF_printVars(TimesOut) /\ WF_printVars(CleanUp) /\ WF_printVars(Settled) /\ \A j \in Jobs : WF_printVars(Unlinks(j))

-------------------------------------------------------------------------------

\* No note outlives the run it is for: a cancellation that is noted is of a job that
\* is printing, and its loop runs or the server is going.  That is not to say that it
\* is acted on: a job without a number, one whose submission failed and one that is
\* being cleaned up after end as they would have, and forget it (jobs.ts:384-391).
NotesAreOfTheRun ==
    \A j \in asked : rows[j] = "printing" /\ (disposed \/ (run.at # "idle" /\ Job = j))

\* No second copy of a document outlives its job: one that is there belongs to
\* a job that is not finished, or to one that was cancelled and whose copy is
\* being removed or will be when its turn comes (cleanupSpool on every path).
NoCopyIsLeft ==
    \A j \in spool : \/ rows[j] \in Alive
                     \/ rows[j] = "cancelled" /\ (j \in unlinking \/ j \in InChain)

\* What is finished leaves nothing behind, neither a note nor a copy.
JobsLeaveNothing == PrintTypeOK /\ NotesAreOfTheRun /\ NoCopyIsLeft

\* A job that has printed or failed stays what it is, through cancellations,
\* late steps of its own run and restarts (cancel() refuses it, run() starts
\* only what is queued); and one that was cancelled while it waited for its turn
\* stays so and is not copied or handed over when its turn comes.
Withdrawn(j) ==
    rows[j] = "cancelled" /\ (Job = j => run.at \in {"idle", "dropping"})
FinishedIsFinal ==
    [][\A j \in Jobs : /\ rows[j] \in Final => rows'[j] = rows[j]
                       /\ Withdrawn(j) => Withdrawn(j)']_printVars

\* "Nothing has been handed to Windows yet, so this is final immediately."  Not so:
\* a job that is copied or checked when it is cancelled is set to printing all the
\* same, as its row is not looked at again (jobs.ts:269).
CancelIsFinal ==
    [][\A j \in Jobs : rows[j] = "cancelled" => rows'[j] = "cancelled"]_printVars

\* Every job gets an outcome, however the printer and the spooler behave, or
\* the server goes down (the looks are counted, the watch has a deadline).
EveryJobSettles ==
    \A j \in Jobs : rows[j] \in Alive ~>
                    (rows[j] \in Final \cup {"cancelled"} \/ disposed)
=============================================================================
