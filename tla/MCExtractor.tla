---------------------------- MODULE MCExtractor ----------------------------
(***************************************************************************)
(* Initial states for model-checking Extractor.                            *)
(***************************************************************************)
EXTENDS Extractor, TLC

\* PYTHON owns a table with a row that has no cursor.
Owned == [engine |-> "PYTHON", legacy |-> {1}, usable |-> TRUE]

\* KAFKA owns the table, PYTHON may shadow it.
Shadowed == [engine |-> "KAFKA", legacy |-> {}, usable |-> TRUE]

\* A reference table without a usable cursor.
Reference == [engine |-> "PYTHON", legacy |-> {}, usable |-> FALSE]

CursorStarts == {Owned, Shadowed}
AllStarts == {Owned, Shadowed, Reference}

\* KAFKA owns a table with a row that has no cursor.
LegacyShadow == {[Shadowed EXCEPT !.legacy = {1}]}

\* Runs are interchangeable.
RunSymmetry == Permutations(Runs)
=============================================================================
