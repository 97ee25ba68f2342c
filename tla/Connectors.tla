----------------------------- MODULE Connectors -----------------------------
(***************************************************************************)
(* What the registry wants of Kafka Connect, and how the reconciler        *)
(* compares it with what it sees: the pure parts of                        *)
(* controlplane/registry.py, connectors.py and reconciler.py.              *)
(*                                                                         *)
(* A source id is its rank in the order of ids, and so is a cluster.  A    *)
(* connector, and the replication slot of the same source and generation,  *)
(* is named by the pair of them.  Everything else a connector is           *)
(* configured with is a number that changes when a value does; NoConfig    *)
(* stands for a row without host, database or user.  Sources labelled      *)
(* synthetic are left out: every loop skips them.                          *)
(***************************************************************************)
EXTENDS Ownership, FiniteSets

CONSTANTS
    Sources,      \* ids, in name order
    Clusters,     \* Kafka Connect clusters, in name order
    Configs,      \* the configurations a registration can give a source
    NoConfig,     \* a registration without host, database or user
    MaxCreates,   \* FBI_RECONCILER_MAX_CREATES
    MaxDeletes    \* FBI_RECONCILER_MAX_DELETES

ASSUME ConnectorsAssumption ==
    /\ Sources \subseteq Nat /\ IsFiniteSet(Sources)
    /\ Clusters \subseteq Nat /\ IsFiniteSet(Clusters)
    /\ NoConfig \in Configs /\ Configs \subseteq Nat
    /\ MaxCreates \in Nat \ {0} /\ MaxDeletes \in Nat \ {0}

-----------------------------------------------------------------------------
(***************************************************************************)
(* registry.py                                                             *)
(***************************************************************************)

LifecycleTransitions ==
    [REQUESTED    |-> {"VALIDATING", "RETIRED"},
     VALIDATING   |-> {"PROVISIONING", "REQUESTED", "RETIRED"},
     PROVISIONING |-> {"ACTIVE", "DEGRADED", "RETIRING"},
     ACTIVE       |-> {"PAUSED", "DEGRADED", "RETIRING"},
     PAUSED       |-> {"ACTIVE", "RETIRING"},
     DEGRADED     |-> {"ACTIVE", "PAUSED", "RETIRING"},
     RETIRING     |-> {"RETIRED"},
     RETIRED      |-> {}]

LifecycleState == DOMAIN LifecycleTransitions
RunningStates == {"PROVISIONING", "ACTIVE", "DEGRADED"}

\* A row of meta.source_registry; forget is the label forget_after_cleanup.
SourceRecord == [state : LifecycleState, gen : Nat, cluster : Clusters,
                 config : Configs, forget : BOOLEAN]
Unregistered == [state |-> "none"]

Registered(registry) == {s \in Sources : registry[s] # Unregistered}

\* set_lifecycle: staying is a no-op, anything else must be in the table.
CanSetLifecycle(from, to) == to = from \/ to \in LifecycleTransitions[from]

\* connector_name, slot_name and source_id_from_connector.
Name(s, g) == <<s, g>>
SourceOf(n) == n[1]

\* build_connector_config, for a row that is not NoConfig.
BuildConnectorConfig(s, x) == [connection |-> x.config, slot |-> Name(s, x.gen)]

\* retire.py: the states retire_source walks through.
LifecyclePath(state) ==
    CASE state = "RETIRED" -> <<>>
      [] state \in {"REQUESTED", "VALIDATING", "RETIRING"} -> <<"RETIRED">>
      [] OTHER -> <<"RETIRING", "RETIRED">>

\* Every step of the path is allowed when it starts in the state now stored.
PathAllowed(path, now) ==
    \A i \in DOMAIN path : CanSetLifecycle(IF i = 1 THEN now ELSE path[i - 1], path[i])

-----------------------------------------------------------------------------
(***************************************************************************)
(* desired_connectors: kafka is the set of sources in which KAFKA is the   *)
(* engine or the shadow engine of a table.                                 *)
(***************************************************************************)

OwnsKafka(o) == o.engine = "KAFKA" \/ o.shadow = "KAFKA"

Candidates(registry, kafka) ==
    {s \in Registered(registry) \cap kafka : registry[s].state \in RunningStates \cup {"PAUSED"}}

\* unknown_sources: those whose configuration cannot be built.
UnknownSources(registry, kafka) ==
    {s \in Candidates(registry, kafka) : registry[s].config = NoConfig}

DesiredConnectors(registry, kafka) ==
    {[name |-> Name(s, registry[s].gen), cluster |-> registry[s].cluster,
      config |-> BuildConnectorConfig(s, registry[s]), paused |-> registry[s].state = "PAUSED"] :
        s \in Candidates(registry, kafka) \ UnknownSources(registry, kafka)}

-----------------------------------------------------------------------------
(***************************************************************************)
(* plan_actions: desired and observed are sets of records, and the plan is *)
(* a set of actions that RunsBefore orders as the code appends them.       *)
(***************************************************************************)

\* observe_cluster of the clusters that answer.
Observed(connectors, reached, mine) ==
    {x \in connectors : x.cluster \in reached /\ SourceOf(x.name) \in mine}

Before(m, n) == m[1] < n[1] \/ (m[1] = n[1] /\ m[2] < n[2])

Seen(observed, d) == {o \in observed : o.cluster = d.cluster /\ o.name = d.name}

Missing(desired, observed) == {d \in desired : Seen(observed, d) = {}}

\* Fault: an existing connector uses up the budget as well.
FaultyCreates(desired, observed) ==
    {d \in Missing(desired, observed) :
        Cardinality({e \in desired : Before(e.name, d.name)}) < MaxCreates}

Creates(desired, observed) ==
    {d \in Missing(desired, observed) :
        Cardinality({e \in Missing(desired, observed) : Before(e.name, d.name)}) < MaxCreates}

\* Fault: a connector the reconciler cannot describe is an orphan.
FaultyOrphans(desired, observed, protected) ==
    {o \in observed : ~\E d \in desired : d.cluster = o.cluster /\ d.name = o.name}

Orphans(desired, observed, protected) ==
    {o \in observed : /\ ~\E d \in desired : d.cluster = o.cluster /\ d.name = o.name
                      /\ o.name \notin protected}

InDeleteOrder(o, p) ==
    o.cluster < p.cluster \/ (o.cluster = p.cluster /\ Before(o.name, p.name))

Deletes(desired, observed, protected) ==
    LET orphans == Orphans(desired, observed, protected)
    IN  {o \in orphans : Cardinality({p \in orphans : InDeleteOrder(p, o)}) < MaxDeletes}

Act(kind, d) == [kind |-> kind, name |-> d.name, cluster |-> d.cluster, config |-> d.config]

\* What plan_actions appends for a desired connector that exists as o.
Repairs(d, o) ==
    {Act(k, d) : k \in
        {k \in {"update", "pause", "resume", "restart_failed"} :
            \/ k = "update" /\ o.config # d.config
            \/ k = "pause" /\ d.paused /\ o.state # "PAUSED"
            \/ k = "resume" /\ ~d.paused /\ o.state = "PAUSED"
            \/ k = "restart_failed" /\ o.state = "FAILED"}}

PlanActions(desired, observed, protected) ==
    (UNION {{Act("create", d)} \cup {Act("pause", e) : e \in {f \in {d} : f.paused}} :
              d \in Creates(desired, observed)})
    \cup (UNION {UNION {Repairs(d, o) : o \in Seen(observed, d)} : d \in desired})
    \cup {Act("delete", o) : o \in Deletes(desired, observed, protected)}

Rank == [create |-> 1, update |-> 2, pause |-> 3, resume |-> 4, restart_failed |-> 5,
         delete |-> 6]

RunsBefore(a, b) ==
    \/ a.kind # "delete" /\ b.kind = "delete"
    \/ a.kind = "delete" /\ b.kind = "delete" /\ InDeleteOrder(a, b)
    \/ /\ a.kind # "delete" /\ b.kind # "delete"
       /\ Before(a.name, b.name) \/ (a.name = b.name /\ Rank[a.kind] < Rank[b.kind])

FirstOf(plan) == CHOOSE a \in plan : \A b \in plan \ {a} : RunsBefore(a, b)

-----------------------------------------------------------------------------
(***************************************************************************)
(* The replication slots in the source databases.                          *)
(***************************************************************************)

\* The slot names a run keeps for s.
SlotsKept(s, desired) == {d.config.slot : d \in {e \in desired : SourceOf(e.name) = s}}

\* Fault: whatever is not desired is stale.
FaultyInspectSlots(s, x, kafka, desired, unknown) ==
    x.config # NoConfig /\ (x.gen # 0 \/ x.state = "RETIRED" \/ SlotsKept(s, desired) # {})

\* slot_cleanup_decision and the generation 0 shortcut of cleanup_stale_slots:
\* is the source row x of s inspected?  desired and unknown were read earlier
\* than x and kafka.
InspectSlots(s, x, kafka, desired, unknown) ==
    /\ x.config # NoConfig
    /\ s \notin unknown
    /\ \/ SlotsKept(s, desired) # {}
       \/ x.state \in {"RETIRING", "RETIRED"}
       \/ s \notin kafka
    /\ SlotsKept(s, desired) = {} /\ x.state # "RETIRED" => x.gen # 0

\* Fault: a slot that something still reads is dropped too.
FaultyStaleSlots(slots, active, s, keep) == {n \in slots : SourceOf(n) = s} \ keep

\* stale_slots
StaleSlots(slots, active, s, keep) ==
    {n \in slots \ active : SourceOf(n) = s} \ keep

\* drop_slots, its last statement: what it could not drop, given the slots now.
Remaining(slots, s, keep) == {n \in slots : SourceOf(n) = s} \ keep

\* slot_check_key
SlotCheckKey(s, x, kafka) == <<x.gen, s \in kafka, x.state>>
=============================================================================
