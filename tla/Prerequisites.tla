----------------------------- MODULE Prerequisites -----------------------------
(***************************************************************************)
(* main/preflight: the check that stands before everything else, with its  *)
(* cached report and the one run that all callers share; the repair by a   *)
(* command; and the download of a helper whose digest nobody has recorded, *)
(* so that what was computed is confirmed by a person before the file is   *)
(* moved into place.                                                       *)
(*                                                                         *)
(* Each of them awaits: the detectors run before the report is stored, the *)
(* command before the report is forgotten, and the digest of the partial   *)
(* file is computed before that file is renamed.                           *)
(***************************************************************************)
EXTENDS Host

VARIABLES
    fixed,          \* the blocking prerequisite is in order: better-sqlite3 loads
    pre,            \* run.ts: cached, inFlight; who awaits it; a command runs
    part,           \* SumatraPDF.exe.part: what is in it
    helper,         \* SumatraPDF.exe: what was installed, and on which digest
    fetches,        \* the calls of install and confirmAndInstall
    mixed           \* history: a download began while another used the .part

preVars == <<fixed, pre, part, helper, fetches, mixed>>

Windows == {"wizard", "panel"}

\* What a download brings: the publisher's file, or another one.  The digest
\* of a file stands for the file.
Files == {"right", "other"}
NoFetch == [at |-> "idle", got |-> "none", digest |-> "none"]

\* printing: PRINTING_ENABLED, without which no helper is installed.
PreInit(inOrder, printing) ==
    /\ fixed = inOrder
    /\ pre = [cached |-> "none", flight |-> "none", waits |-> {}, command |-> FALSE,
              printing |-> printing]
    /\ part = "none"
    /\ helper = [file |-> "none", digest |-> "none"]
    /\ fetches = [w \in Windows |-> NoFetch]
    /\ mixed = FALSE

fetchVars == <<part, helper, fetches, mixed>>

---------------------------------------------------------------------------
(* runPreflight *)

\* A report that is cached answers at once; a run that is under way is
\* shared, and forcing only forgets the cache.
Join(p, who) == [p EXCEPT !.waits = @ \cup {who},
                          !.flight = IF @ = "none" THEN "asked" ELSE @]
Forgotten(p) == [p EXCEPT !.cached = "none"]

UnforcedRun(p, who) ==                  \* mutant: the cache answers a forced check too
    IF p.cached # "none" THEN p ELSE Join(p, who)

ForcedRun(p, who) == Join(Forgotten(p), who)

\* detectNativeModules: the database is opened for real.
Detect ==
    /\ Alive /\ pre.flight = "asked"
    /\ pre' = [pre EXCEPT !.flight = IF fixed THEN "good" ELSE "bad"]
    /\ UNCHANGED <<fixed, fetchVars, phase, spent>>

\* summarise: a blocking item counts only when it is in order.
Reported == [pre EXCEPT !.cached = pre.flight, !.flight = "none", !.waits = {}]

\* The wizard's own check; a cached report, which was not good, answers at once.
WindowChecks ==
    /\ phase = "parked" /\ "ui" \notin pre.waits
    /\ pre.cached = "none"
    /\ pre' = Join(pre, "ui")
    /\ UNCHANGED <<fixed, fetchVars, phase, spent>>

\* "Check again".
CheckAgain ==
    /\ phase = "parked" /\ "ui" \notin pre.waits
    /\ pre' = ForcedRun(pre, "ui")
    /\ UNCHANGED <<fixed, fetchVars, phase, spent>>

\* runCommand: one of the commands of the table.
RunCommand ==
    /\ phase = "parked" /\ ~pre.command /\ Spend("user")
    /\ pre' = [pre EXCEPT !.command = TRUE]
    /\ UNCHANGED <<fixed, fetchVars, phase>>

\* It is over, and has mended it or not: the report is forgotten, and run.
\* One that could not be started has done nothing.
CommandEnds ==
    /\ Alive /\ pre.command
    /\ \/ /\ fixed' \in {fixed, TRUE}
          /\ pre' = Join(Forgotten([pre EXCEPT !.command = FALSE]), "ui")
          /\ UNCHANGED spent
       \/ /\ Spend("faults")
          /\ pre' = [pre EXCEPT !.command = FALSE]
          /\ UNCHANGED fixed
    /\ UNCHANGED <<fetchVars, phase>>

---------------------------------------------------------------------------
(* The download. *)

Outcome(w, f) == fetches' = [fetches EXCEPT ![w] = f]
Begins(w) == mixed' = (mixed \/ \E v \in Windows \ {w} : fetches[v].at \in {"fetching", "moving"})

\* install: the body is streamed to the .part, and hashed on its way.
Install(w) ==
    /\ phase = "up" /\ pre.printing /\ fetches[w].at \in {"idle", "shown"} /\ Spend("user")
    /\ Outcome(w, [NoFetch EXCEPT !.at = "fetching"])
    /\ part' = "piece" /\ Begins(w)
    /\ UNCHANGED <<fixed, pre, helper, phase>>

\* No digest is recorded: nothing is installed, and the digest is shown.  For
\* a call that repeats a download under a confirmed digest, that one decides.
Fetched(w, file) ==
    /\ Alive /\ fetches[w].at = "fetching"
    /\ LET d == fetches[w].digest
       IN IF d = "none"
          THEN part' = file /\ Outcome(w, [at |-> "shown", got |-> file, digest |-> "none"])
          ELSE IF d = file
               THEN part' = file /\ Outcome(w, [at |-> "moving", got |-> file, digest |-> d])
               ELSE part' = "none" /\ Outcome(w, NoFetch)
    /\ UNCHANGED <<fixed, pre, helper, mixed, phase, spent>>

\* The network fails, the transfer stalls or is too large.
FetchFails(w) ==
    /\ Alive /\ fetches[w].at = "fetching" /\ Spend("faults")
    /\ part' = "none"
    /\ Outcome(w, NoFetch)
    /\ UNCHANGED <<fixed, pre, helper, mixed, phase>>

ConfirmTrusted(w) ==                    \* mutant: what was confirmed is not computed again
    /\ phase = "up" /\ fetches[w].at = "shown" /\ Spend("user")
    /\ Outcome(w, [fetches[w] EXCEPT !.at = "moving", !.digest = fetches[w].got])
    /\ UNCHANGED <<fixed, pre, part, helper, mixed, phase>>

\* confirmAndInstall: the partial file is hashed again; one that has gone is
\* fetched again, under the confirmed digest.
Confirm(w) ==
    /\ phase = "up" /\ fetches[w].at = "shown" /\ Spend("user")
    /\ LET confirmed == fetches[w].got
       IN CASE part = "none" ->
                 /\ Outcome(w, [at |-> "fetching", got |-> "none", digest |-> confirmed])
                 /\ part' = "piece" /\ Begins(w)
            [] part = confirmed ->
                 /\ Outcome(w, [fetches[w] EXCEPT !.at = "moving", !.digest = confirmed])
                 /\ UNCHANGED <<part, mixed>>
            [] OTHER -> part' = "none" /\ Outcome(w, NoFetch) /\ UNCHANGED mixed
    /\ UNCHANGED <<fixed, pre, helper, phase>>

\* moveIntoPlace: what is in the partial file by then.
MoveIntoPlace(w) ==
    /\ Alive /\ fetches[w].at = "moving"
    /\ helper' = IF part = "none" THEN helper
                 ELSE [file |-> part, digest |-> fetches[w].digest]
    /\ part' = "none"
    /\ pre' = IF part = "none" THEN pre ELSE Join(Forgotten(pre), "ui")
    /\ Outcome(w, NoFetch)
    /\ UNCHANGED <<fixed, mixed, phase, spent>>

PreNext ==
    \/ Detect \/ WindowChecks \/ CheckAgain \/ RunCommand \/ CommandEnds
    \/ \E w \in Windows :
          \/ Install(w) \/ FetchFails(w) \/ Confirm(w) \/ MoveIntoPlace(w)
          \/ \E file \in Files : Fetched(w, file)

---------------------------------------------------------------------------
(* Properties. *)

\* "The bytes installed are the bytes the user looked at", as long as one
\* window downloads at a time; and never half a file then (confirmAndInstall:
\* the partial file is one, and its digest is computed before it is moved).
InstalledIsConfirmed == mixed \/ helper.file = helper.digest
=============================================================================
