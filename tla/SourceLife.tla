----------------------------- MODULE SourceLife -----------------------------
(***************************************************************************)
(* What the registry promises about a source, whoever works on it: a row   *)
(* is created, moves along the lifecycle, is handed tables and gives them  *)
(* up, and is removed when no table is owned under its name.               *)
(***************************************************************************)
EXTENDS Naturals

CONSTANTS
    Sources,
    NoLife,       \* a source without a row
    Transitions,  \* the lifecycle graph
    Entry         \* the states a row may be created in

VARIABLES
    life,   \* life[s]: state and capture generation of the row, or NoLife
    owned   \* owned[s]: some engine owns tables of s

vars == <<life, owned>>

State == DOMAIN Transitions

Init ==
    /\ life \in [Sources -> [state : State, gen : Nat] \cup {NoLife}]
    /\ owned \in [Sources -> BOOLEAN]
    /\ \A s \in Sources : owned[s] => life[s] # NoLife

\* The state after at most two transitions.
Follows(from, to) ==
    \/ to = from
    \/ to \in Transitions[from]
    \/ \E via \in Transitions[from] : to \in Transitions[via]

Becomes(s, state, gen) == life' = [life EXCEPT ![s] = [state |-> state, gen |-> gen]]

Create(s) ==
    /\ life[s] = NoLife
    /\ life'[s] \in [state : Entry, gen : Nat]
    /\ life' = [life EXCEPT ![s] = life'[s]]
    /\ UNCHANGED owned

\* A lifecycle step; it leaves the tables alone.
Advance(s) ==
    /\ life[s] # NoLife
    /\ \E state \in State : Follows(life[s].state, state) /\ Becomes(s, state, life[s].gen)
    /\ UNCHANGED owned

\* A re-snapshot, or tables handed over, which may start one.
HandOver(s) ==
    /\ life[s] # NoLife
    /\ \E gen \in {life[s].gen, life[s].gen + 1} : Becomes(s, life[s].state, gen)
    /\ \E o \in BOOLEAN : owned' = [owned EXCEPT ![s] = o]

\* Retirement takes the tables away in the same step.
Retire(s) ==
    /\ life[s] # NoLife
    /\ Follows(life[s].state, "RETIRED")
    /\ Becomes(s, "RETIRED", life[s].gen)
    /\ owned' = [owned EXCEPT ![s] = FALSE]

Remove(s) ==
    /\ ~owned[s]
    /\ life' = [life EXCEPT ![s] = NoLife]
    /\ UNCHANGED owned

Next == \E s \in Sources : Create(s) \/ Advance(s) \/ HandOver(s) \/ Retire(s) \/ Remove(s)

Spec == Init /\ [][Next]_vars
=============================================================================
