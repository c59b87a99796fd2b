--------------------------------- MODULE Host ---------------------------------
(***************************************************************************)
(* What the parts of the desktop application share: how far its process    *)
(* has come (main/index.ts), and the bounds on what the operator does and  *)
(* on what fails, which are bounds on all the parts together.              *)
(***************************************************************************)
EXTENDS Naturals, FiniteSets, Sequences

CONSTANTS
    MaxUser,        \* bound: things the operator and the devices do
    MaxFaults       \* bound: things that fail

ASSUME HostAssumption == MaxUser \in Nat /\ MaxFaults \in Nat

VARIABLES phase, spent

hostVars == <<phase, spent>>

\* lock, retry, ask, again: the instance lock is asked for, asked for again,
\* the user is asked, and the lock is asked for a last time.  checking, parked:
\* the prerequisites.  server, listening: startServer.  up.  stopping,
\* disposing: will-quit.  crashing: uncaughtException.  gone: no process.
Phases == {"lock", "retry", "ask", "again", "checking", "parked", "server", "listening",
           "up", "stopping", "disposing", "crashing", "gone"}

Alive == phase # "gone"

Spend(what) ==
    /\ spent[what] < IF what = "user" THEN MaxUser ELSE MaxFaults
    /\ spent' = [spent EXCEPT ![what] = @ + 1]
=============================================================================
