----------------------------- MODULE MCCapture -----------------------------
(***************************************************************************)
(* Small fleets for model-checking Capture.  A source that is absent stays *)
(* so unless Requests lets it be registered, so that each fleet exercises  *)
(* the requests of the sources it has.                                     *)
(***************************************************************************)
EXTENDS Capture, TLC

Row(g) == [state |-> "ACTIVE", gen |-> g, cluster |-> 1, config |-> 1, forget |-> FALSE]
Has(g, e) == [row |-> Row(g), engine |-> e]
Absent == [row |-> Unregistered, engine |-> "NONE"]

LifeRequests ==
       1 :> {"start_shadow", "cutover", "abort_shadow"}
    @@ 2 :> {"onboard", "register", "reregister"}
    @@ 3 :> {"retire", "recreate", "assign"}
    @@ 4 :> {"lifecycle", "bump", "reregister"}
    @@ 5 :> {}

\* Only source 4 is ever registered without a connection.
LifeOffers == [s \in Sources |-> IF s = 4 THEN {0, 1} ELSE {1}]

Nothing == [s \in Sources |-> IF s = 2 THEN Has(0, "NONE") ELSE Absent]

\* Source 1 moves to KAFKA and back, next to one that is captured.
Moving == [Nothing EXCEPT ![1] = Has(0, "PYTHON"), ![5] = Has(1, "KAFKA")]

\* Source 2 arrives, likewise.
Arriving == [Nothing EXCEPT ![2] = Absent, ![5] = Has(1, "KAFKA")]

\* Source 3 is captured, retired and registered again; also when it has no
\* connection at first.
Leaving == [Nothing EXCEPT ![3] = Has(0, "KAFKA")]
Unreachable == [Leaving EXCEPT ![3].row.config = 0, ![3].engine = "PYTHON"]

\* Source 4 is captured while it is paused, reconfigured and re-snapshot.
Changing == [Nothing EXCEPT ![4] = Has(0, "KAFKA")]

\* Somebody handed tables to a tombstone.
Haunted == [Nothing EXCEPT ![2] = [Has(0, "PYTHON") EXCEPT !.row.state = "RETIRED",
                                                           !.row.forget = TRUE]]

LifeFleets == {Moving, Arriving, Leaving, Unreachable, Changing, Haunted}
\* A captured source is retired and forgotten, and onboarded again.
ReturnRequests == [s \in Sources |-> {"retire", "onboard"}]
ReturnOffers == [s \in Sources |-> {1}]
Returning == {[s \in Sources |-> Has(0, "KAFKA")]}

AllSources == [r \in Reconcilers |-> Sources]
=============================================================================
