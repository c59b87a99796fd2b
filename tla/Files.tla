------------------------------- MODULE Files -------------------------------
(***************************************************************************)
(* The shared folders: the files that devices send into them (Uploads),    *)
(* and the table of what is in them (Library).  The indexer never asks     *)
(* what an upload is doing: to it a file that arrives is one more change   *)
(* on the disk.  So in a scenario one of the two moves.                    *)
(***************************************************************************)
EXTENDS Uploads

CONSTANTS
    Paths, Parent, PageSize,
    MaxChanges, MaxUnplugs, MaxPlays, MaxPasses, MaxEvents    \* bounds: see Library

VARIABLES
    tree,           \* what is at each path: Library's disk
    plugged, folder, files, pass, playing, listing,
    indexed,        \* the counters behind the bounds of Library
    moving          \* bound: "uploads" or "index"

indexVars == <<tree, plugged, folder, files, pass, playing, listing, indexed>>
filesVars == <<vars, indexVars, moving>>

Index == INSTANCE Library WITH disk <- tree, spent <- indexed

ASSUME FilesAssumption == Index!LibraryAssumption

\* Beside uploads the folder is one that holds no directory.
FilesInit ==
    /\ Init /\ Index!Init
    /\ \/ moving = "uploads" /\ \A p \in Paths : tree[p] # "dir"
       \/ moving = "index"

FilesNext ==
    /\ \/ moving = "uploads" /\ Next /\ UNCHANGED indexVars
       \/ moving = "index" /\ Index!Next /\ UNCHANGED vars
    /\ UNCHANGED moving

\* Handlers go on, a client whose request is gone notices, and the person at
\* the phone presses resume; a pass of the indexer runs on, and films end.
UploadsMove(A) == moving = "uploads" /\ A /\ UNCHANGED <<indexVars, moving>>
IndexMoves(A)  == moving = "index" /\ A /\ UNCHANGED <<vars, moving>>

FilesFair ==
    /\ \A k \in Calls : WF_filesVars(UploadsMove(\E p \in patches : p.call = k /\ Handler(p)))
    /\ \A u \in Uploads :
          /\ WF_filesVars(UploadsMove(Uploader(u)))
          /\ WF_filesVars(UploadsMove(
                client[u].phase = "patching"
                /\ (\A p \in patches : p.call # client[u].call) /\ LosesPatch(u)))
          /\ WF_filesVars(UploadsMove(AbortRemoves(u)))
          /\ WF_filesVars(UploadsMove(AbortEnds(u)))
    /\ \A p \in Paths : WF_filesVars(IndexMoves(Index!ApplyBatch(p)))
    /\ \A dir \in Paths \cup {Index!Root} : WF_filesVars(IndexMoves(Index!ReadDir(dir) \/ Index!WalkFails(dir)))
    /\ WF_filesVars(IndexMoves(Index!Reconcile))
    /\ WF_filesVars(IndexMoves(Index!Finish))
    /\ WF_filesVars(IndexMoves(Index!PlayEnds))

FilesSpec == FilesInit /\ [][FilesNext]_filesVars /\ FilesFair

---------------------------------------------------------------------------
(* Properties. *)

\* A file in the library is whole and under one name, an upload that is said to
\* be complete is there, and a name that was reserved for nothing is given up.
UploadsHold == TypeOK /\ WholeInLibrary /\ CompleteIsThere /\ NoLitter

\* A listing that was followed to its end, as Library has it.
ListingIsWhole == Index!TypeOK /\ Index!ListingIsWhole

\* A pass on a quiet disk leaves the table as the disk is, and every pass ends.
IndexCatchesUp == Index!IndexIsTheDisk /\ Index!EveryPassEnds

---------------------------------------------------------------------------
(* Instances of Files for TLC. *)

\* The last path is in the first, the others are in the shared folder.
LastInFirst == [p \in Paths |-> IF p = Cardinality(Paths) /\ p > 1 THEN 1 ELSE 0]
=============================================================================
