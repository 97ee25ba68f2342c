---------------------------- MODULE MCChangeLog ----------------------------
(***************************************************************************)
(* An instance of ChangeLog for model checking: all loans begin in one     *)
(* partition and belong to one client, and in a promoted shadow all of     *)
(* them but one are there again.                                           *)
(***************************************************************************)
EXTENDS ChangeLog, TLC

FirstPart == CHOOSE p \in Parts : TRUE
AllAtHome == [l \in Loans |-> FirstPart]
OneClient == [l \in Loans |-> CHOOSE c \in Clients : TRUE]
FirstLoan == CHOOSE l \in Loans : TRUE
OneAway == {[AllAtHome EXCEPT ![FirstLoan] = place] : place \in Places}
=============================================================================
