------------------------------ MODULE AtomicFile ------------------------------
(***************************************************************************)
(* The atomic-write idiom of meter-files/src/io.rs when several processes  *)
(* use it on one path: write a temporary file beside it, then rename.  All *)
(* of them use the same temporary name.                                    *)
(*                                                                         *)
(* A writer keeps what it opened, whatever name it has by then: a rename   *)
(* of the temporary file makes another writer's open file the published    *)
(* one.  The single write call of a short document is one step.            *)
(***************************************************************************)
CONSTANTS
    Writers,    \* the processes
    Absent,     \* no such file
    Empty,      \* a file that was opened for writing and not written yet
    Torn        \* a file two writers have written into, that is neither's body

VARIABLES
    disk,       \* what the names "path" and "tmp" hold: a body, Absent, Empty or Torn
    fd          \* each writer's open file, by the name it has now: "gone" when it
                \* has none any more, "closed" when the writer has no open file

Names == {"path", "tmp"}

FileInit(contents) ==
    /\ disk \in [path : contents, tmp : contents]
    /\ fd = [w \in Writers |-> "closed"]

\* read_json: every failure is the same as no file.
Reads(contents, none) == IF contents \in {Absent, Empty, Torn} THEN none ELSE contents

Close(w) == fd' = [fd EXCEPT ![w] = "closed"]

\* Mutant of OpenTmp: the file itself is written, without a rename.
MutOpenPath(w) ==
    /\ disk' = [disk EXCEPT !.path = Empty]
    /\ fd' = [fd EXCEPT ![w] = "path"]

\* fs::write opens the temporary file, truncating what is there.
OpenTmp(w) ==
    /\ disk' = [disk EXCEPT !.tmp = Empty]
    /\ fd' = [fd EXCEPT ![w] = "tmp"]

\* ... and writes it from the start: over another writer's body, a shorter one
\* leaves the other's tail behind.
FillTmp(w, body) ==
    /\ IF fd[w] \in Names
       THEN \E written \in IF disk[fd[w]] \in {Empty, body} THEN {body} ELSE {body, Torn} :
                disk' = [disk EXCEPT ![fd[w]] = written]
       ELSE UNCHANGED disk
    /\ Close(w)

\* The rename, by name: whatever the temporary file holds is published.
RenameTmp ==
    /\ disk.tmp # Absent
    /\ disk' = [path |-> disk.tmp, tmp |-> Absent]
    /\ fd' = [w \in Writers |-> CASE fd[w] = "tmp"  -> "path"
                                  [] fd[w] = "path" -> "gone"
                                  [] OTHER          -> fd[w]]
=============================================================================
