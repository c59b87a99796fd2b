----------------------------- MODULE EventLog ------------------------------
(***************************************************************************)
(* What the event stream promises one device, whatever carries it.  The    *)
(* server appends events to a log.  Once the device has a position in the  *)
(* log, its own events reach it in order and once each; one is passed over *)
(* only after Window later events have been appended.  A restart of the    *)
(* server takes the position away: what is appended before the device has  *)
(* one again may be missed, and nothing is ever delivered twice.           *)
(***************************************************************************)
EXTENDS Naturals, Sequences

CONSTANT Window     \* events a device may be behind before it misses one

VARIABLES
    log,        \* the kind of every event published
    joined,     \* the device has a position
    cursor,     \* that position: the last event delivered or passed over
    got         \* the positions delivered, in order of delivery

elVars == <<log, joined, cursor, got>>

\* "own": an event of this device; "other": of another device; "folder": of a
\* folder, for this device only while the folder is granted to it.
Kinds == {"own", "folder", "other"}

ELInit == log = <<>> /\ joined = FALSE /\ cursor = 0 /\ got = <<>>

Append1(kind) ==
    /\ log' = Append(log, kind)
    /\ UNCHANGED <<joined, cursor, got>>

Passable(k) == log[k] # "own" \/ k + Window <= Len(log)

\* The position moves forward to k over events that may be passed over.
Reach(k) ==
    /\ k \in 0..Len(log)
    /\ joined => k > cursor /\ \A j \in (cursor + 1)..(k - 1) : Passable(j)
    /\ joined' = TRUE
    /\ cursor' = k
    /\ UNCHANGED log

Deliver(k) ==
    /\ Reach(k)
    /\ k > cursor
    /\ log[k] # "other"
    /\ got' = Append(got, k)

PassOver(k) ==
    /\ Reach(k)
    /\ joined => Passable(k)
    /\ UNCHANGED got

\* The log is gone, and with it the promise, until the device has a position
\* again.
Lapse ==
    /\ joined' = FALSE
    /\ UNCHANGED <<log, cursor, got>>

ELNext ==
    \/ Lapse
    \/ \E kind \in Kinds : Append1(kind)
    \/ \E k \in 0..Len(log) : Deliver(k) \/ PassOver(k)

ELSpec == ELInit /\ [][ELNext]_elVars
=============================================================================
