------------------------------- MODULE Paths -------------------------------
(***************************************************************************)
(* Path names and the working directory: path_merge and cleanup_path of      *)
(* sys/sysutil.c, and do_chdir of sys/systemcall.c, which calls them.  A     *)
(* path is the sequence of its parts between slashes, so that "/a//b" is     *)
(* <<"", "a", "", "b">>.  cleanup_path keeps pointers to the parts in an     *)
(* array of PARTS slots and removes parts by shifting the array; its loop is *)
(* one step per iteration here.                                              *)
(***************************************************************************)
EXTENDS Integers, Sequences

CONSTANTS
    PARTS,      \* slots of the array: 15 in the code
    Names,      \* proper names of files
    Dirs,       \* the directories of the file system, each its names in order
    MaxParts    \* bound: parts of a path given to chdir

ASSUME PartsAssumption == PARTS \in Nat /\ PARTS > 2 /\ MaxParts \in Nat
ASSUME NamesAssumption == Names \cap {"", ".", "..", "NULL"} = {}
ASSUME DirsAssumption == <<>> \in Dirs /\ Dirs \subseteq Seq(Names)

Slots == 0..(PARTS - 1)
NULL == "NULL"
Parts == Names \cup {"", ".", ".."}
Relatives == UNION {[1..n -> Parts] : n \in 1..MaxParts}

VARIABLES
    wd,        \* pcb.wd, which always ends with a slash: its names
    phase,     \* "user", "clean" in cleanup_path, "search" in do_chdir
    merged,    \* what path_merge passed to cleanup_path
    parts,     \* the array
    index,     \* the loop variable
    failed     \* do_chdir returned 1

pathVars == <<wd, phase, merged, parts, index, failed>>

PathInit ==
    /\ wd = <<>>
    /\ phase = "user"
    /\ merged = <<>>
    /\ parts = [s \in Slots |-> NULL]
    /\ index = 0
    /\ failed = FALSE
-----------------------------------------------------------------------------
(* path_merge: an absolute path stands alone (relative is then what follows  *)
(* its first slash); otherwise it is appended to wd, without a leading "./". *)
Undotted(relative) ==
    IF Len(relative) > 1 /\ relative[1] = "." THEN Tail(relative) ELSE relative
path_merge(absolute, relative) ==
    IF absolute THEN <<"">> \o relative ELSE <<"">> \o wd \o Undotted(relative)

(* cleanup_path returns at once for the string "/". *)
IsSlash(path) == path = <<"", "">>

(* do_chdir(path) up to the loop of cleanup_path.  More parts than slots     *)
(* would be stored beyond the array: no such path is given.                  *)
do_chdir(absolute, relative) ==
    LET path == path_merge(absolute, relative) IN
    /\ phase = "user"
    /\ absolute \/ relative[1] # "" \/ Len(relative) = 1
    /\ Len(path) <= PARTS
    /\ merged' = path
    /\ parts' = [s \in Slots |-> IF s < Len(path) THEN path[s + 1] ELSE NULL]
    /\ index' = 0
    /\ phase' = IF IsSlash(path) THEN "search" ELSE "clean"
    /\ failed' = FALSE
    /\ UNCHANGED wd
-----------------------------------------------------------------------------
(* The shifting loops: slots from s on take what is n slots further; the     *)
(* last n slots keep what they have.                                         *)
Shift(s, n) == [j \in Slots |-> IF j >= s /\ j + n < PARTS THEN parts[j + n] ELSE parts[j]]

InLoop == phase = "clean" /\ index < PARTS /\ parts[index] # NULL

(* An empty part or "." is removed. *)
CleanDot ==
    /\ InLoop
    /\ parts[index] \in {"", "."}
    /\ parts' = Shift(index, 1)
    /\ UNCHANGED <<wd, phase, merged, index, failed>>

(* ".." at the root is removed. *)
CleanUpAtRoot ==
    /\ InLoop
    /\ parts[index] = ".." /\ index = 0
    /\ parts' = Shift(0, 1)
    /\ UNCHANGED <<wd, phase, merged, index, failed>>

(* Variant: the loop goes on after the part that moved into the gap. *)
M_CleanUp_skips ==
    /\ InLoop
    /\ parts[index] = ".." /\ index > 0
    /\ parts' = Shift(index - 1, 2)
    /\ index' = index
    /\ UNCHANGED <<wd, phase, merged, failed>>

(* ".." elsewhere is removed with the part before it. *)
CleanUp ==
    /\ InLoop
    /\ parts[index] = ".." /\ index > 0
    /\ parts' = Shift(index - 1, 2)
    /\ index' = index - 1
    /\ UNCHANGED <<wd, phase, merged, failed>>

(* Variant: a name is looked at again. *)
M_CleanName_again ==
    /\ InLoop
    /\ parts[index] \in Names
    /\ UNCHANGED pathVars

CleanName ==
    /\ InLoop
    /\ parts[index] \in Names
    /\ index' = index + 1
    /\ UNCHANGED <<wd, phase, merged, parts, failed>>

CleanDone ==
    /\ phase = "clean" /\ ~InLoop
    /\ phase' = "search"
    /\ UNCHANGED <<wd, merged, parts, index, failed>>

(* The names cleanup_path writes back: the slots before the first NULL.      *)
(* With no NULL the code reads on behind the array.                          *)
Cleaned ==
    LET n == CHOOSE n \in 0..PARTS : /\ n < PARTS => parts[n] = NULL
                                     /\ \A s \in 0..(n - 1) : parts[s] # NULL
    IN  [k \in 1..n |-> parts[k - 1]]

(* Variant: the directory is not looked for. *)
M_Search_unchecked ==
    /\ phase = "search"
    /\ wd' = Cleaned
    /\ failed' = FALSE
    /\ phase' = "user"
    /\ UNCHANGED <<merged, parts, index>>

(* The end of do_chdir: a slash is appended, and search_for_dir looks for    *)
(* the name in the archive.  The string "/" has become "//", which is        *)
(* neither "/" nor in the archive.                                           *)
Search ==
    /\ phase = "search"
    /\ IF ~IsSlash(merged) /\ Cleaned \in Dirs
       THEN wd' = Cleaned /\ failed' = FALSE
       ELSE UNCHANGED wd /\ failed' = TRUE
    /\ phase' = "user"
    /\ UNCHANGED <<merged, parts, index>>

Loop == CleanDot \/ CleanUpAtRoot \/ CleanUp \/ CleanName \/ CleanDone

PathNext ==
    \/ \E absolute \in BOOLEAN, relative \in Relatives : do_chdir(absolute, relative)
    \/ Loop
    \/ Search

PathSpec == PathInit /\ [][PathNext]_pathVars
FairPathSpec == PathSpec /\ WF_pathVars(Loop) /\ WF_pathVars(Search)
-----------------------------------------------------------------------------
(* What a path means: its parts followed from the root. *)
Follow(dir, part) ==
    IF part \in {"", "."} THEN dir
    ELSE IF part = ".." THEN SubSeq(dir, 1, Len(dir) - 1)
    ELSE Append(dir, part)
Followed(path) ==
    LET dir[n \in 0..Len(path)] == IF n = 0 THEN <<>> ELSE Follow(dir[n - 1], path[n])
    IN  dir
Meaning(path) == Followed(path)[Len(path)]

(* CleanedMeansTheSame: cleanup_path, which edits an array in place, yields  *)
(* the names its argument means, for every path that leaves two slots of the *)
(* array free.  (With fewer free slots, the ones the shifts leave behind     *)
(* come back as parts.)                                                      *)
CleanedMeansTheSame ==
    (phase = "search" /\ ~IsSlash(merged) /\ Len(merged) <= PARTS - 2) =>
        Cleaned = Meaning(merged)

(* ChdirAnswers: after do_chdir the working directory is a directory, it is  *)
(* the one the path means if do_chdir succeeded, and a failure means that    *)
(* there is no such directory; except that chdir("/") itself always fails.   *)
ChdirAnswers ==
    /\ wd \in Dirs
    /\ (phase = "user" /\ merged # <<>> /\ Len(merged) <= PARTS - 2) =>
          IF failed THEN IsSlash(merged) \/ Meaning(merged) \notin Dirs
          ELSE wd = Meaning(merged)

(* CleanupEnds: the loop of cleanup_path, which moves its index back as well *)
(* as forth, ends for every path that leaves one slot free.                  *)
CleanupEnds ==
    (phase = "clean" /\ Len(merged) < PARTS) ~> phase = "search"
=============================================================================
