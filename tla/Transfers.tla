------------------------------- MODULE Transfers -------------------------------
(***************************************************************************)
(* A file on its way: the server that sends a range of it at each of its   *)
(* doors (Serving), and the desktop client that puts what it gets in the   *)
(* downloads folder (Downloads).  The two are different programs and share *)
(* nothing but the file: what a download gets is described there, as any   *)
(* answer of any server.  In a behaviour one of them moves.                *)
(***************************************************************************)
EXTENDS Serving, Downloads

VARIABLES
    end             \* bound: which end moves, "server" or "client"

transferVars == <<end, servingVars, vars>>

\* (A server that does not move is asked nothing.)
TransfersInit ==
    /\ end \in {"server", "client"}
    /\ ServingInit /\ DownloadsInit
    /\ end = "client" => ask \in [Reqs -> {Silent}] /\ file.size = 0 /\ grant = "none"

TransfersNext ==
    \/ end = "server" /\ ServingNext /\ UNCHANGED <<end, vars>>
    \/ end = "client" /\ Next /\ UNCHANGED <<end, servingVars>>

TransfersSpec == TransfersInit /\ [][TransfersNext]_transferVars

---------------------------------------------------------------------------
(* The instance of Transfers that TLC checks. *)

AskedOrNot == TwoAsks \cup [Reqs -> {Silent}]
================================================================================
