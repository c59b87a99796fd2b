------------------------------ MODULE Supervisor ------------------------------
(***************************************************************************)
(* main/netedge.ts: the supervisor of the sidecar.  start() awaits a free  *)
(* port between its look at #child and the spawn; the lines of a process,  *)
(* its exit and the answers of its control API reach the application when  *)
(* they do; a process that has gone is started again by a timer.           *)
(***************************************************************************)
EXTENDS Host

CONSTANTS
    MaxKids,        \* bound: processes spawned
    MaxStatus       \* bound: status lines of a process

ASSUME SupervisorAssumption == MaxKids \in Nat \ {0} /\ MaxStatus \in Nat

VARIABLES
    sup,            \* #child, #controlPort, #status, #restartTimer, #stopping
    kid,            \* the processes
    starts,         \* the start() calls that await a free port
    stops,          \* the processes whose exit a stop() awaits
    call,           \* a request to the control API
    wanted,         \* history: start() was called and has not failed, stop() not since;
                    \* with #stopping, that start() found the process stop() had not seen off
    raced           \* history: what came in between, see the properties

supVars == <<sup, kid, starts, stops, call, wanted, raced>>

Kids == 1 .. MaxKids
Callers == {"asked", "timer"}
NoCall == [at |-> "idle", kid |-> 0, n |-> 0]

\* of, n: the process a status is of, and how many it had written by then.
Status(state, of, n) == [state |-> state, of |-> of, n |-> n]

\* lines: written, not read; seen: its exit event has been handled.
SupInit ==
    /\ sup = [child |-> 0, port |-> 0, status |-> Status("stopped", 0, 0),
              timer |-> FALSE, stopping |-> FALSE]
    /\ kid = [k \in Kids |-> [life |-> "none", n |-> 0, lines |-> <<>>, seen |-> FALSE]]
    /\ starts = {} /\ stops = {}
    /\ call = NoCall
    /\ wanted = FALSE /\ raced = {}

Runs(k) == kid[k].life \in {"up", "going"}
Running == sup.child # 0

---------------------------------------------------------------------------
(* start *)

StartAnyway(who) ==                     \* mutant: a child is not looked for
    /\ sup' = [sup EXCEPT !.stopping = FALSE, !.timer = IF who = "timer" THEN FALSE ELSE @]
    /\ starts' = starts \cup {who}
    /\ wanted' = TRUE
    /\ raced' = IF starts = {} THEN raced ELSE raced \cup {"start"}

\* Up to the await of freePort.  With a child it returns, and #stopping is
\* what it was: one that stop() has told to go is not followed by another.
Start(who) ==
    LET fired == [sup EXCEPT !.timer = IF who = "timer" THEN FALSE ELSE @]
    IN /\ wanted' = TRUE
       /\ IF Running THEN sup' = fired /\ UNCHANGED <<starts, raced>>
          ELSE /\ sup' = [fired EXCEPT !.stopping = FALSE]
               /\ starts' = starts \cup {who}
               /\ raced' = IF starts = {} THEN raced ELSE raced \cup {"start"}

AskStart ==
    /\ "asked" \notin starts
    /\ Start("asked")
    /\ UNCHANGED <<kid, stops, call>>

TimerFires ==
    /\ Alive /\ sup.timer /\ "timer" \notin starts
    /\ Start("timer")
    /\ UNCHANGED <<kid, stops, call, hostVars>>

\* The port is there, and the process is spawned, whatever has become of
\* #child and #stopping.
Spawn(who, k) ==
    /\ Alive /\ who \in starts
    /\ kid[k].life = "none" /\ \A j \in 1 .. k - 1 : kid[j].life # "none"
    /\ starts' = starts \ {who}
    /\ kid' = [kid EXCEPT ![k].life = "up"]
    /\ sup' = [sup EXCEPT !.child = k, !.port = k, !.status = Status("starting", k, 0)]
    /\ UNCHANGED <<stops, call, wanted, raced, hostVars>>

\* The binary has gone, or there is no port.  The timer's call is made again
\* later, one that was asked for rejects.
StartFails(who) ==
    /\ Alive /\ who \in starts /\ Spend("faults")
    /\ starts' = starts \ {who}
    /\ sup' = [sup EXCEPT !.timer = @ \/ who = "timer"]
    /\ wanted' = (wanted /\ (who = "timer" \/ Running))
    /\ UNCHANGED <<kid, stops, call, raced, phase>>

---------------------------------------------------------------------------
(* The process. *)

\* It writes a status line.  (That of `ready` names the port it was given.)
Writes(k) ==
    /\ Alive /\ Runs(k) /\ kid[k].n < MaxStatus
    /\ kid' = [kid EXCEPT ![k].n = @ + 1, ![k].lines = Append(@, kid[k].n + 1)]
    /\ UNCHANGED <<sup, starts, stops, call, wanted, raced, hostVars>>

\* #handleLine: a line is heard of whenever it is, after the exit too.
HearLine(k) ==
    /\ Alive /\ kid[k].lines # <<>>
    /\ kid' = [kid EXCEPT ![k].lines = Tail(@)]
    /\ sup' = [sup EXCEPT !.status = Status("live", k, Head(kid[k].lines))]
    /\ raced' = IF sup.child = k THEN raced ELSE raced \cup {"line"}
    /\ UNCHANGED <<starts, stops, call, wanted, hostVars>>

Crash(k) ==
    /\ Alive /\ kid[k].life = "up" /\ Spend("faults")
    /\ kid' = [kid EXCEPT ![k].life = "dead"]
    /\ UNCHANGED <<sup, starts, stops, call, wanted, raced, phase>>

\* It goes on SIGTERM.
Goes(k) ==
    /\ Alive /\ kid[k].life = "going"
    /\ kid' = [kid EXCEPT ![k].life = "dead"]
    /\ UNCHANGED <<sup, starts, stops, call, wanted, raced, hostVars>>

\* The exit event.  Nothing asks whether it is #child that has gone.
AfterExit(k) ==
    LET gone == [sup EXCEPT !.child = 0, !.port = 0]
    IN IF sup.stopping THEN [gone EXCEPT !.status = Status("stopped", 0, 0)]
       ELSE [gone EXCEPT !.status.state = "error", !.timer = TRUE]

Exit(k) ==
    /\ Alive /\ kid[k].life = "dead" /\ ~kid[k].seen
    /\ kid' = [kid EXCEPT ![k].seen = TRUE]
    /\ sup' = AfterExit(k)
    /\ stops' = stops \ {k}
    /\ UNCHANGED <<starts, call, wanted, raced, hostVars>>

---------------------------------------------------------------------------
(* stop *)

AskStop ==
    /\ sup' = [sup EXCEPT !.stopping = TRUE, !.timer = FALSE]
    /\ IF Running
       THEN /\ stops' = stops \cup {sup.child}
            /\ kid' = [kid EXCEPT ![sup.child].life = IF @ = "up" THEN "going" ELSE @]
       ELSE UNCHANGED <<stops, kid>>
    /\ wanted' = FALSE
    /\ raced' = IF starts = {} THEN raced ELSE raced \cup {"stop"}
    /\ UNCHANGED <<starts, call>>

\* Five seconds: it is killed, and not waited for.
Deadline(k) ==
    /\ Alive /\ k \in stops /\ kid[k].life = "going"
    /\ kid' = [kid EXCEPT ![k].life = "dead"]
    /\ stops' = stops \ {k}
    /\ UNCHANGED <<sup, starts, call, wanted, raced, hostVars>>

\* IPC edge.start and edge.stop.
PanelStarts == phase = "up" /\ Spend("user") /\ AskStart /\ UNCHANGED phase
PanelStops  == phase = "up" /\ Spend("user") /\ AskStop /\ UNCHANGED phase

---------------------------------------------------------------------------
(* #control: a request for the status, after a new configuration too. *)

Calls ==
    /\ phase = "up" /\ sup.port # 0 /\ call = NoCall /\ Spend("user")
    /\ call' = [at |-> "sent", kid |-> sup.port, n |-> 0]
    /\ UNCHANGED <<sup, kid, starts, stops, wanted, raced, phase>>

CallAnswered ==
    /\ Alive /\ call.at = "sent" /\ Runs(call.kid)
    /\ call' = [call EXCEPT !.at = "answered", !.n = kid[call.kid].n]
    /\ UNCHANGED <<sup, kid, starts, stops, wanted, raced, hostVars>>

\* refreshStatus sets what it was told, whatever has come since.
CallReturns ==
    /\ Alive /\ call.at = "answered"
    /\ call' = NoCall
    /\ sup' = [sup EXCEPT !.status = Status("live", call.kid, call.n)]
    /\ raced' = IF /\ sup.child = call.kid
                   /\ sup.status.of = call.kid /\ sup.status.n <= call.n
                THEN raced ELSE raced \cup {"answer"}
    /\ UNCHANGED <<kid, starts, stops, wanted, hostVars>>

CallFails ==
    /\ Alive /\ call.at = "sent" /\ ~Runs(call.kid)
    /\ call' = NoCall
    /\ UNCHANGED <<sup, kid, starts, stops, wanted, raced, hostVars>>

SupNext ==
    \/ PanelStarts \/ PanelStops \/ TimerFires
    \/ Calls \/ CallAnswered \/ CallReturns \/ CallFails
    \/ \E who \in Callers : StartFails(who) \/ \E k \in Kids : Spawn(who, k)
    \/ \E k \in Kids : Writes(k) \/ HearLine(k) \/ Crash(k) \/ Goes(k) \/ Exit(k) \/ Deadline(k)

---------------------------------------------------------------------------
(* Properties. *)

\* At most one process runs on one state directory, unless a start() was made
\* while another awaited its port; and once stop() was called, and start() not
\* since, none does but those that are going, and none at all when the
\* application has gone - whatever timers and crashes there were - unless a
\* start() was awaiting its port ("an orphaned tsnet node holding the
\* hostname", index.ts).
OneSidecar ==
    /\ "start" \notin raced => Cardinality({k \in Kids : Runs(k)}) <= 1
    /\ ~wanted /\ raced \cap {"start", "stop"} = {} => \A k \in Kids : kid[k].life # "up"
    /\ ~Alive /\ raced \cap {"start", "stop"} = {} => \A k \in Kids : ~Runs(k)

\* When all that was written, and every exit, has been heard of, and nothing
\* is under way, the status that is shown is the last one of the process that
\* runs, or says that none does - unless a line came after the exit of its
\* process, or an answer after a newer line.
ShownIsTheProcess ==
    /\ raced = {} /\ call.at = "idle"
    /\ \A k \in Kids : kid[k].lines = <<>> /\ (kid[k].life = "dead" => kid[k].seen)
    => IF sup.child = 0 THEN sup.status.state \in {"stopped", "error"}
       ELSE /\ sup.status.of = sup.child /\ sup.status.n = kid[sup.child].n
            /\ sup.status.state \in {"starting", "live"}

\* A process that was asked for and is not there is spawned (again), after any
\* crash and any failed try of the timer.  A start() that finds the process a
\* stop() has told to go is dropped, and is not among them: #stopping stays.
ComesBack ==
    wanted /\ ~sup.stopping ~>
        \/ \E k \in Kids : Runs(k)
        \/ ~wanted \/ ~Alive
        \/ \A k \in Kids : kid[k].life # "none"

\* The process that is there is the one that is wanted and shown.
SidecarHolds == OneSidecar /\ ShownIsTheProcess
=============================================================================
