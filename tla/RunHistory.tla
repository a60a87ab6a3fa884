----------------------------- MODULE RunHistory -----------------------------
(***************************************************************************)
(* The history file of the Python server (history.py): one line of JSON    *)
(* per run, numbered by a counter that is kept in memory and counted anew  *)
(* from the lines when the file is opened again.  An append may fail, or   *)
(* the process die in it, with nothing written or a part of the line.  The *)
(* text is UTF-8 and not escaped, so that the part may end in the middle   *)
(* of a character: the file can then be searched, but not opened again.    *)
(***************************************************************************)
EXTENDS Naturals, Sequences

CONSTANT Runs
VARIABLES count, lines,
          torn,         (* the last line has no newline                     *)
          undecodable   (* a line was torn in the middle of a character     *)

garbled == [index |-> 0, run |-> 0]
record(r) == [index |-> count + 1, run |-> r]

HistoryInit == count = 0 /\ lines = <<>> /\ torn = FALSE /\ undecodable = FALSE

(* mutant: the counter is not moved *)
append_unnumbered(r) ==
    /\ count' = count /\ torn' = FALSE /\ UNCHANGED undecodable
    /\ lines' = IF torn THEN [lines EXCEPT ![Len(lines)] = garbled]
                ELSE Append(lines, record(r))

(* append: what follows a torn line is garbled with it, and what was torn   *)
(* in the middle of a character stays so.                                   *)
append(r) ==
    /\ count' = count + 1 /\ torn' = FALSE /\ UNCHANGED undecodable
    /\ lines' = IF torn THEN [lines EXCEPT ![Len(lines)] = garbled]
                ELSE Append(lines, record(r))

(* What an append that fails leaves in the file ...                         *)
partly ==
    \/ UNCHANGED <<lines, torn, undecodable>>
    \/ /\ lines' = IF torn THEN lines ELSE Append(lines, garbled)
       /\ torn' = TRUE /\ undecodable' \in {undecodable, TRUE}
appendFails == partly /\ count' = count + 1
dieAppending == partly

(* ... and what opening it again makes of the counter: the lines are read   *)
(* strictly, so that opening fails when one of them is not UTF-8.           *)
reopen ==
    /\ ~undecodable
    /\ count' = Len(lines) /\ UNCHANGED <<lines, torn, undecodable>>

(* What recent finds: it decodes leniently and skips what is not JSON.      *)
readable == {i \in DOMAIN lines : lines[i] # garbled}
=============================================================================
