------------------------------ MODULE LogTail ------------------------------
(***************************************************************************)
(* tail-logs and tks-tail-logs (src/pygira/commands/maintenance.py): the   *)
(* device's log files are downloaded again and again, and what is new in   *)
(* each of them is printed.  Only the NUMBER of lines seen is remembered.  *)
(*                                                                         *)
(* Lines are numbered in the order the device writes them; a file that is  *)
(* rotated starts again with no line.                                      *)
(***************************************************************************)
EXTENDS Integers, Sequences, FiniteSets

CONSTANTS
    Files,      \* the names of the log files that --file selects
    MaxLines,   \* bound on the lines the device writes
    History     \* the values of -n/--lines

ASSUME TailBounds == MaxLines \in Nat /\ History \subseteq Nat

VARIABLES
    tail,      \* "start", "following" or "over"
    history,   \* -n of this invocation
    log,       \* the lines of each file on the device
    present,   \* the files that exist on the device
    written,   \* how many lines the device has written
    seen,      \* the dictionary seen: lines seen of each file, Unseen without an entry
    printed,   \* the lines printed of each file
    \* History variables: what the command did, told without its dictionary.
    rotated,   \* the files that were rotated since they were last read
    read,      \* how many lines each file had when it was last read, or Unseen
    skippable  \* the lines that need no printing: history at the first reading of their
               \* file, or written by a rotation over lines that had been seen

tailVars == <<tail, history, log, present, written, seen, printed, rotated, read, skippable>>
device == <<log, present, written, rotated>>
reader == <<seen, printed, read, skippable>>

Unseen == -1

TailInit ==
    /\ tail = "start" /\ history \in History
    /\ log = [n \in Files |-> <<>>] /\ present \in SUBSET Files /\ written = 0
    /\ seen = [n \in Files |-> Unseen]
    /\ printed = [n \in Files |-> <<>>]
    /\ rotated = {} /\ read = seen /\ skippable = {}

-----------------------------------------------------------------------------
(* The device *)

WriteLine(n) ==
    /\ n \in present /\ written < MaxLines
    /\ written' = written + 1
    /\ log' = [log EXCEPT ![n] = Append(@, written + 1)]
    /\ UNCHANGED <<tail, history, present, rotated, reader>>

\* A file is started anew, in its place or with a gap in which it does not exist.
Rotate(n) ==
    /\ n \in present /\ log[n] # <<>>
    /\ log' = [log EXCEPT ![n] = <<>>]
    /\ rotated' = rotated \cup {n}
    /\ present' \in {present, present \ {n}}
    /\ UNCHANGED <<tail, history, written, reader>>

CreateFile(n) ==
    /\ n \notin present
    /\ present' = present \cup {n}
    /\ UNCHANGED <<tail, history, log, written, rotated, reader>>

-----------------------------------------------------------------------------
(* The command *)

\* A member of the ZIP that cannot be read is left out (suppress(Exception)).
TextFiles(unreadable) == present \ unreadable

\* _print_new_lines: from where a file is printed, -n counting at the first download only.
LinesWanted == IF tail = "start" THEN history ELSE 0
FirstNew(n) ==
    IF seen[n] # Unseen THEN seen[n]
    ELSE IF Len(log[n]) > LinesWanted THEN Len(log[n]) - LinesWanted ELSE 0

\* Mistake: the last line seen is printed again.
LastLineAgain(n) == SubSeq(log[n], IF FirstNew(n) = 0 THEN 1 ELSE FirstNew(n), Len(log[n]))

NewLines(n) == SubSeq(log[n], FirstNew(n) + 1, Len(log[n]))

\* Mistake: a file the last download lacked is forgotten: its new lines become history.
SeenInThisPoll(files) == [n \in Files |-> IF n \in files THEN Len(log[n]) ELSE Unseen]

SeenAfter(files) == [n \in Files |-> IF n \in files THEN Len(log[n]) ELSE seen[n]]

\* The lines of a file in this download that need not be printed.
Skippable(n) ==
    {log[n][i] : i \in {j \in DOMAIN log[n] :
        IF read[n] = Unseen THEN j + LinesWanted <= Len(log[n])
        ELSE n \in rotated /\ j <= read[n]}}

Poll(unreadable) ==
    LET files == TextFiles(unreadable)
    IN /\ tail \in {"start", "following"} /\ tail' = "following"
       /\ printed' = [n \in Files |-> printed[n] \o IF n \in files THEN NewLines(n) ELSE <<>>]
       /\ seen' = SeenAfter(files)
       /\ read' = [n \in Files |-> IF n \in files THEN Len(log[n]) ELSE read[n]]
       /\ skippable' = skippable \cup UNION {Skippable(n) : n \in files}
       /\ rotated' = rotated \ files
       /\ UNCHANGED <<history, log, present, written>>

\* A download that fails, or Ctrl-C, ends the command.
DownloadFails ==
    /\ tail # "over" /\ tail' = "over"
    /\ UNCHANGED <<history, device, reader>>

TailNext ==
    \/ \E n \in Files : WriteLine(n) \/ Rotate(n) \/ CreateFile(n)
    \/ \E unreadable \in SUBSET present : Poll(unreadable)
    \/ DownloadFails

TailSpec == TailInit /\ [][TailNext]_tailVars

-----------------------------------------------------------------------------
(* Properties *)

\* Every variable has the shape its declaration says.
TailTypeOK ==
    /\ tail \in {"start", "following", "over"} /\ history \in History
    /\ present \subseteq Files /\ rotated \subseteq Files /\ written \in 0 .. MaxLines
    /\ \A n \in Files :
         /\ log[n] \in Seq(1 .. written) /\ printed[n] \in Seq(1 .. written)
         /\ seen[n] \in Unseen .. written /\ read[n] \in Unseen .. written
    /\ skippable \subseteq 1 .. written

\* The lines of a file are printed in the order in which the device wrote them, and
\* none is printed twice, whatever members a download lacked and whatever was rotated
\* between two downloads (_print_new_lines, maintenance.py:832).
ShownOnceInOrder ==
    \A n \in Files : \A i, j \in DOMAIN printed[n] : i < j => printed[n][i] < printed[n][j]

\* A line that a download held is printed, unless it was history when its file was
\* first read or a rotation wrote it over lines already seen.  A download that could not
\* read the file in between loses nothing (maintenance.py:809, :834).
NothingMissed ==
    \A n \in Files \ rotated : \A i \in DOMAIN log[n] :
        i <= read[n] => \/ log[n][i] \in skippable
                        \/ \E j \in DOMAIN printed[n] : printed[n][j] = log[n][i]
=============================================================================
