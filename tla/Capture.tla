------------------------------ MODULE Capture ------------------------------
(***************************************************************************)
(* The life of a CDC source: the registry, the connector reconciler,       *)
(* onboarding and retirement, acting on Kafka Connect and on the           *)
(* replication slots of the source databases.                              *)
(*                                                                         *)
(* Registry and flags are in the warehouse; every transaction on them is   *)
(* one step.  Connect and the source databases are other systems: between  *)
(* what a process read of them and what it does, anything may happen.  A   *)
(* reconciler run lists the registry, reads the owners, observes the       *)
(* clusters, executes its plan action by action and then inspects the      *)
(* slots source by source, all from what it has read on the way.           *)
(*                                                                         *)
(* One flag stands for the tables of a source; only whether KAFKA plays a  *)
(* part in it matters here, so its epoch is not kept, and a cutover needs  *)
(* only a shadow (FeatureFlag has the rest).  A request may come from an   *)
(* administrator, so the guard trigger refuses nothing.  What retirement   *)
(* purges from the warehouse, and meta.connector_state, which nothing      *)
(* reads back, are not here.                                               *)
(***************************************************************************)
EXTENDS Connectors, Sequences

CONSTANTS
    Reconcilers,       \* concurrent runs of reconcile()
    Shard,             \* Shard[r]: the source ids in the shard of r
    First,             \* the runs with shard index 0
    DefaultCluster,    \* connect_cluster of a registration that names none
    Fleets,            \* the rows and engines of the sources at the beginning
    Requests,          \* bound: the requests made for a source
    Offers,            \* bound: the configurations a registration gives a source
    LifecycleTargets,  \* bound: the states asked for with the lifecycle command
    MaxGen,            \* bound: the largest capture generation
    MaxFaults          \* bound: crashes, failed calls and failed tasks

Requestable == {"register", "recreate", "reregister", "onboard", "retire", "lifecycle",
                "bump", "assign", "start_shadow", "cutover", "abort_shadow", "force_assign"}

\* The rows of meta.source_registry, and the lack of one.
Rows == SourceRecord \cup {Unregistered}

ASSUME CaptureAssumption ==
    /\ Shard \in [Reconcilers -> SUBSET Sources]
    /\ First \subseteq Reconcilers
    /\ DefaultCluster \in Clusters
    /\ Fleets \subseteq [Sources -> [row : Rows, engine : Engine]]
    /\ \A fleet \in Fleets, s \in Sources :
         fleet[s].row # Unregistered => fleet[s].row.gen <= MaxGen
    /\ Requests \in [Sources -> SUBSET Requestable]
    /\ Offers \in [Sources -> SUBSET Configs]
    /\ LifecycleTargets \subseteq LifecycleState
    /\ MaxGen \in Nat /\ MaxFaults \in Nat

VARIABLES
    \* the warehouse
    registry,  \* registry[s]: the row of meta.source_registry
    floor,     \* floor[s]: meta.source_generation_floor, 0 when there is no row
    flag,      \* flag[s]: the ownership row, NoFlag before ensure_rows
    checked,   \* checked[s]: the key in meta.slot_check, Due when it has aged
    \* Kafka Connect
    conn,      \* the connectors
    saved,     \* the connector names Connect keeps a log position for
    \* the source databases
    slots,     \* replication slots
    active,    \* the slots something reads
    \* the processes
    rec,       \* rec[r]: what reconciler run r has read and still has to do
    onb,       \* one run of onboard_source
    ret,       \* one run of retire_source
    faults

warehouse == <<registry, floor, flag, checked>>
connect == <<conn, saved>>
sourcedbs == <<slots, active>>
procs == <<rec, onb, ret>>
vars == <<warehouse, connect, sourcedbs, procs, faults>>

Names == Sources \X (0..MaxGen)
Due == <<>>
NoFlag == [engine |-> "none", shadow |-> NoEngine]
Kafka == {s \in Sources : OwnsKafka(flag[s])}

\* A process that is not running.
NoRows == [s \in {} |-> Unregistered]
RecIdle == [pc |-> "idle", rows |-> NoRows, want |-> {}, unknown |-> {}, mine |-> {},
            plan |-> {}, met |-> {}, all |-> TRUE, kafka |-> {}]
OnbIdle == [pc |-> "idle", src |-> 0]
RetIdle == [pc |-> "idle", src |-> 0, row |-> Unregistered, forget |-> FALSE, clean |-> TRUE]

Config == [connection : Configs, slot : Names]
Connector == [name : Names, cluster : Clusters, config : Config,
              state : {"RUNNING", "PAUSED", "FAILED"}]
Desired == [name : Names, cluster : Clusters, config : Config, paused : BOOLEAN]
Action == [name : Names, cluster : Clusters, config : Config, kind : DOMAIN Rank]

TypeOK ==
    /\ registry \in [Sources -> Rows]
    /\ \A s \in Registered(registry) : registry[s].gen <= MaxGen
    /\ floor \in [Sources -> Nat]
    /\ \A s \in Sources : flag[s] \in OwnershipRow({}, {}) \cup {NoFlag}
    /\ \A s \in Sources : checked[s] = Due \/ checked[s] \in Nat \X BOOLEAN \X LifecycleState
    /\ conn \subseteq Connector
    /\ \A x, y \in conn : x.name = y.name /\ x.cluster = y.cluster => x = y
    /\ saved \subseteq Names /\ slots \subseteq Names /\ active \subseteq slots
    /\ \A r \in Reconcilers :
         /\ rec[r].pc \in {"idle", "listed", "read", "act", "cleanup", "forget"}
         /\ rec[r].want \subseteq Desired /\ rec[r].plan \subseteq Action
         /\ DOMAIN rec[r].rows \subseteq Sources
         /\ rec[r].mine \cup rec[r].met \cup rec[r].kafka \cup rec[r].unknown \subseteq Sources
    /\ onb.pc \in {"idle", "checked", "created", "provisioned", "assigned"}
    /\ ret.pc \in {"idle", "read", "connectors", "slots", "forget"}
    /\ ret.row \in Rows
    /\ faults \in 0..MaxFaults

Owned(e) == IF e = "NONE" THEN FreshRow
            ELSE [FreshRow EXCEPT !.engine = e, !.everOwned = TRUE]

Init ==
    /\ \E fleet \in Fleets :
         /\ registry = [s \in Sources |-> fleet[s].row]
         /\ flag = [s \in Sources |-> IF fleet[s].row = Unregistered THEN NoFlag
                                      ELSE Owned(fleet[s].engine)]
    /\ floor = [s \in Sources |-> 0]
    /\ checked = [s \in Sources |-> Due]
    /\ conn = {} /\ saved = {} /\ slots = {} /\ active = {}
    /\ rec = [r \in Reconcilers |-> RecIdle]
    /\ onb = OnbIdle /\ ret = RetIdle
    /\ faults = 0

\* Something goes wrong, as often as MaxFaults allows.
Fault == faults < MaxFaults /\ faults' = faults + 1

-----------------------------------------------------------------------------
(***************************************************************************)
(* Operators: registration, lifecycle and the feature flag.                *)
(***************************************************************************)

\* Fault: a new row starts at generation 0, whatever was retired before.
FaultyFirstGeneration(s) == 0

\* The capture generation upsert inserts.
FirstGeneration(s) == floor[s]

\* Is it a new id, a retired one, or a row that exists?
Registration(s) ==
    IF registry[s] # Unregistered THEN "reregister"
    ELSE IF floor[s] = 0 THEN "register" ELSE "recreate"

\* upsert and ensure_rows: a new row is ACTIVE; an existing one keeps its
\* state and generation and takes the new configuration.
\* Bound: nobody registers a source while its retirement runs.
Upsert(s, config, cluster, forget) ==
    /\ Registration(s) \in Requests[s]
    /\ ret.src # s
    /\ registry' = [registry EXCEPT ![s] =
         IF @ = Unregistered
         THEN [state |-> "ACTIVE", gen |-> FirstGeneration(s), cluster |-> cluster,
               config |-> config, forget |-> FALSE]
         ELSE [@ EXCEPT !.config = config, !.cluster = cluster, !.forget = forget]]
    /\ flag' = [flag EXCEPT ![s] = IF @ = NoFlag THEN FreshRow ELSE @]
    /\ UNCHANGED <<floor, checked, connect, sourcedbs, procs, faults>>

\* register_and_assign, first transaction (the second is MoveFlag): the
\* connection may change with --allow-connection-change, the labels are lost.
Register(s, config, cluster) == Upsert(s, config, cluster, FALSE)

\* ensure_env_source, likewise: the labels are kept, the cluster is not.
EnsureEnvSource(s, config) ==
    Upsert(s, config, DefaultCluster, registry[s] # Unregistered /\ registry[s].forget)

\* cmd_lifecycle
SetLifecycle(s, to) ==
    /\ "lifecycle" \in Requests[s]
    /\ s \in Registered(registry)
    /\ to # registry[s].state /\ CanSetLifecycle(registry[s].state, to)
    /\ registry' = [registry EXCEPT ![s].state = to]
    /\ UNCHANGED <<floor, flag, checked, connect, sourcedbs, procs, faults>>

\* cmd_bump_generation
Bump(s) ==
    /\ "bump" \in Requests[s]
    /\ s \in Registered(registry) /\ registry[s].gen < MaxGen
    /\ registry' = [registry EXCEPT ![s].gen = @ + 1]
    /\ UNCHANGED <<floor, flag, checked, connect, sourcedbs, procs, faults>>

\* The row after one accepted request of the kind.
Moved(o, kind) ==
    CASE kind = "assign"       -> {Assign(o, e) : e \in {e \in Writers : CanAssign(o, e)}}
      [] kind = "start_shadow" -> {StartShadow(o, e, NoOne) :
                                     e \in {e \in Writers : CanStartShadow(o, e)}}
      [] kind = "cutover"      -> {Cutover(p) : p \in {p \in {o} : HasShadow(p)}}
      [] kind = "abort_shadow" -> {AbortShadow(p) : p \in {p \in {o} : CanAbortShadow(p)}}
      [] kind = "force_assign" -> {ForceAssign(o, e) : e \in {e \in Engine : CanForceAssign(o, e)}}
      [] OTHER -> {}

WithoutEpoch(o) ==
    [o EXCEPT !.epoch = 1, !.everOwned = @ \/ o.engine # "NONE"]

\* OwnershipRepository.apply, which starts a generation with a KAFKA shadow.
\* Bound: nobody hands tables to a source that is retired.
MoveFlag(s, kind) ==
    /\ kind \in Requests[s]
    /\ flag[s] # NoFlag /\ registry[s].state # "RETIRED"
    /\ \E new \in Moved(flag[s], kind) :
         LET bumps == kind = "start_shadow" /\ new.shadow = "KAFKA"
         IN  /\ bumps => registry[s].gen < MaxGen
             /\ flag' = [flag EXCEPT ![s] = WithoutEpoch(new)]
             /\ registry' = IF bumps THEN [registry EXCEPT ![s].gen = @ + 1] ELSE registry
    /\ UNCHANGED <<floor, checked, connect, sourcedbs, procs, faults>>

-----------------------------------------------------------------------------
(***************************************************************************)
(* onboard_source: five transactions; any of them may find that somebody   *)
(* else has touched the source meanwhile, and the run ends there.          *)
(***************************************************************************)

OnboardCheck(s) ==
    /\ "onboard" \in Requests[s]
    /\ onb.pc = "idle"
    /\ registry[s] = Unregistered
    /\ onb' = [pc |-> "checked", src |-> s]
    /\ UNCHANGED <<warehouse, connect, sourcedbs, rec, ret, faults>>

\* validate_source connected, so the configuration is complete.
OnboardCreate ==
    LET s == onb.src
    IN  /\ onb.pc = "checked"
        /\ registry[s] = Unregistered
        /\ \E config \in Offers[s] \ {NoConfig}, cluster \in Clusters :
             registry' = [registry EXCEPT ![s] =
               [state |-> "REQUESTED", gen |-> 0, cluster |-> cluster, config |-> config,
                forget |-> FALSE]]
        /\ onb' = [onb EXCEPT !.pc = "created"]
        /\ UNCHANGED <<floor, flag, checked, connect, sourcedbs, rec, ret, faults>>

OnboardProvision ==
    LET s == onb.src
    IN  /\ onb.pc = "created"
        /\ s \in Registered(registry)
        /\ PathAllowed(<<"VALIDATING", "PROVISIONING">>, registry[s].state)
        /\ registry' = [registry EXCEPT ![s].state = "PROVISIONING"]
        /\ flag' = [flag EXCEPT ![s] = IF @ = NoFlag THEN FreshRow ELSE @]
        /\ onb' = [onb EXCEPT !.pc = "provisioned"]
        /\ UNCHANGED <<floor, checked, connect, sourcedbs, rec, ret, faults>>

OnboardAssign ==
    LET s == onb.src
    IN  /\ onb.pc = "provisioned"
        /\ \E e \in Writers :
             flag' = [flag EXCEPT ![s] = IF @.engine # "NONE" THEN @
                                         ELSE WithoutEpoch(Assign(@, e))]
        /\ onb' = [onb EXCEPT !.pc = "assigned"]
        /\ UNCHANGED <<registry, floor, checked, connect, sourcedbs, rec, ret, faults>>

OnboardActivate ==
    LET s == onb.src
    IN  /\ onb.pc = "assigned"
        /\ s \in Registered(registry)
        /\ CanSetLifecycle(registry[s].state, "ACTIVE")
        /\ registry' = [registry EXCEPT ![s].state = "ACTIVE"]
        /\ onb' = OnbIdle
        /\ UNCHANGED <<floor, flag, checked, connect, sourcedbs, rec, ret, faults>>

\* The run dies, or finds what it does not expect and gives up.
OnboardRefused ==
    CASE onb.pc = "checked"     -> registry[onb.src] # Unregistered
      [] onb.pc = "created"     -> \/ onb.src \notin Registered(registry)
                                   \/ ~PathAllowed(<<"VALIDATING", "PROVISIONING">>,
                                                   registry[onb.src].state)
      [] onb.pc = "provisioned" -> FALSE
      [] onb.pc = "assigned"    -> \/ onb.src \notin Registered(registry)
                                   \/ ~CanSetLifecycle(registry[onb.src].state, "ACTIVE")
      [] OTHER -> FALSE

OnboardFail ==
    /\ onb.pc # "idle"
    /\ IF OnboardRefused THEN UNCHANGED faults ELSE Fault
    /\ onb' = OnbIdle
    /\ UNCHANGED <<warehouse, connect, sourcedbs, rec, ret>>

-----------------------------------------------------------------------------
(***************************************************************************)
(* retire_source                                                           *)
(***************************************************************************)

\* The row is read before the transaction.
RetireRead(s, forget) ==
    /\ "retire" \in Requests[s]
    /\ ret.pc = "idle"
    /\ s \in Registered(registry) /\ registry[s].gen < MaxGen
    /\ ret' = [pc |-> "read", src |-> s, row |-> registry[s], forget |-> forget, clean |-> TRUE]
    /\ UNCHANGED <<warehouse, connect, sourcedbs, rec, onb, faults>>

\* The lifecycle path of the row that was read fits the row that is there.
RetireAllowed ==
    LifecyclePath(ret.row.state) # <<>> =>
      /\ ret.src \in Registered(registry)
      /\ PathAllowed(LifecyclePath(ret.row.state), registry[ret.src].state)

\* Floor, lifecycle and ownership in one transaction.
RetireCommit ==
    LET s == ret.src
        next == ret.row.gen + 1
    IN  /\ ret.pc = "read"
        /\ RetireAllowed
        /\ floor' = [floor EXCEPT ![s] = IF @ > next THEN @ ELSE next]
        /\ registry' = [registry EXCEPT ![s].state =
                          IF ret.row.state = "RETIRED" THEN @ ELSE "RETIRED"]
        /\ flag' = [flag EXCEPT ![s] =
                      IF @ = NoFlag THEN @
                      ELSE [FreshRow EXCEPT !.everOwned = flag[s].everOwned]]
        /\ ret' = [ret EXCEPT !.pc = "connectors"]
        /\ UNCHANGED <<checked, connect, sourcedbs, rec, onb, faults>>

\* retire_artifacts: every connector of the source, whatever its generation;
\* a cluster that fails may have deleted some of them.
RetireConnectors ==
    LET ours == {x \in conn : SourceOf(x.name) = ret.src}
    IN  /\ ret.pc = "connectors"
        /\ \/ /\ conn' = conn \ ours
              /\ ret' = [ret EXCEPT !.pc = "slots"]
              /\ UNCHANGED faults
           \/ /\ Fault
              /\ \E gone \in SUBSET ours : conn' = conn \ gone
              /\ ret' = [ret EXCEPT !.pc = "slots", !.clean = FALSE]
        /\ UNCHANGED <<warehouse, saved, sourcedbs, rec, onb>>

\* drop_slots, again and again until nothing remains or the wait is over.
RetireSlots ==
    LET s == ret.src
        stale == StaleSlots(slots, active, s, {})
        left == Remaining(slots \ stale, s, {})
    IN  /\ ret.pc = "slots"
        /\ ret.row.config # NoConfig
        /\ \/ /\ slots' = slots \ stale
              /\ \E over \in BOOLEAN :
                   ret' = [ret EXCEPT !.pc = IF over \/ left = {} THEN "forget" ELSE "slots",
                                      !.clean = @ /\ (over => left = {})]
              /\ UNCHANGED faults
           \/ /\ Fault
              /\ \E gone \in SUBSET stale : slots' = slots \ gone
              /\ ret' = [ret EXCEPT !.pc = "forget", !.clean = FALSE]
        /\ UNCHANGED <<warehouse, connect, active, rec, onb>>

\* A source that was registered without a connection has no slots to drop.
RetireNoSlots ==
    /\ ret.pc = "slots" /\ ret.row.config = NoConfig
    /\ ret' = [ret EXCEPT !.pc = "forget"]
    /\ UNCHANGED <<warehouse, connect, sourcedbs, rec, onb, faults>>

\* trg_source_delete_guard, and what ON DELETE CASCADE takes along.
Unowned(o) == o = NoFlag \/ (o.engine = "NONE" /\ ~HasShadow(o))
OwnsNothing(s) == Unowned(flag[s])

\* Fault: no trigger protects a row whose tables are owned.
FaultyDeleteRow(s) ==
    /\ registry' = [registry EXCEPT ![s] = Unregistered]
    /\ flag' = [flag EXCEPT ![s] = NoFlag]

DeleteRow(s) ==
    /\ OwnsNothing(s)
    /\ registry' = [registry EXCEPT ![s] = Unregistered]
    /\ flag' = [flag EXCEPT ![s] = NoFlag]

\* --forget removes the row when all is clean, otherwise it labels it.
RetireForget ==
    LET s == ret.src
    IN  /\ ret.pc = "forget"
        /\ \/ ~ret.forget /\ UNCHANGED <<registry, flag>>
           \/ ret.forget /\ ret.clean /\ DeleteRow(s)
           \/ /\ ret.forget /\ ~ret.clean
              /\ registry' = [registry EXCEPT ![s] =
                                IF @ = Unregistered THEN @ ELSE [@ EXCEPT !.forget = TRUE]]
              /\ UNCHANGED flag
        /\ ret' = RetIdle
        /\ UNCHANGED <<floor, checked, connect, sourcedbs, rec, onb, faults>>

\* The process dies, or its transaction is refused.
RetireFail ==
    /\ ret.pc # "idle"
    /\ IF ret.pc = "read" /\ ~RetireAllowed THEN UNCHANGED faults ELSE Fault
    /\ ret' = RetIdle
    /\ UNCHANGED <<warehouse, connect, sourcedbs, rec, onb>>

-----------------------------------------------------------------------------
(***************************************************************************)
(* reconcile()                                                             *)
(***************************************************************************)

\* registry.list of the shard, the first statement of desired_connectors.
List(r) ==
    /\ rec[r].pc = "idle"
    /\ rec' = [rec EXCEPT ![r].pc = "listed",
                          ![r].rows = [s \in Shard[r] \cap Registered(registry) |-> registry[s]]]
    /\ UNCHANGED <<warehouse, connect, sourcedbs, onb, ret, faults>>

Listed(r) ==
    [s \in Sources |-> IF s \in DOMAIN rec[r].rows THEN rec[r].rows[s] ELSE Unregistered]

\* kafka_owned_sources and the list of all ids: what the run wants, and whose
\* connectors it may touch.
ReadOwners(r) ==
    /\ rec[r].pc = "listed"
    /\ rec' = [rec EXCEPT
         ![r].pc = "read", ![r].rows = NoRows,
         ![r].want = DesiredConnectors(Listed(r), Kafka),
         ![r].unknown = UnknownSources(Listed(r), Kafka),
         ![r].mine = DOMAIN rec[r].rows
                     \cup {s \in Sources \ Registered(registry) : r \in First}]
    /\ UNCHANGED <<warehouse, connect, sourcedbs, onb, ret, faults>>

\* observe_cluster and plan_actions: a cluster that cannot be observed is left
\* alone, and so are connectors of sources whose configuration is unknown.
Observe(r) ==
    /\ rec[r].pc = "read"
    /\ \E reached \in SUBSET Clusters :
         LET seen == Observed(conn, reached, rec[r].mine)
             reachable == {d \in rec[r].want : d.cluster \in reached}
             protected == {x.name : x \in {y \in seen : SourceOf(y.name) \in rec[r].unknown}}
         IN  /\ IF reached = Clusters THEN UNCHANGED faults ELSE Fault
             /\ rec' = [rec EXCEPT
                  ![r].pc = "act", ![r].mine = {},
                  ![r].plan = PlanActions(reachable, seen, protected),
                  ![r].met = {SourceOf(x.name) : x \in seen},
                  ![r].all = reached = Clusters]
    /\ UNCHANGED <<warehouse, connect, sourcedbs, onb, ret>>

At(a) == {x \in conn : x.name = a.name /\ x.cluster = a.cluster}

\* ConnectClient.execute: PUT config creates what is not there; everything else
\* answers 404 then.
Effect(a) ==
    LET old == At(a)
        put == [name |-> a.name, cluster |-> a.cluster, config |-> a.config,
                state |-> "RUNNING"]
        becomes(st) == {[x EXCEPT !.state = st] : x \in old}
    IN  (conn \ old) \cup
        CASE a.kind \in {"create", "update"} ->
               IF old = {} THEN {put} ELSE {[x EXCEPT !.config = a.config] : x \in old}
          [] a.kind = "pause"  -> becomes("PAUSED")
          [] a.kind = "resume" -> becomes("RUNNING")
          [] a.kind = "restart_failed" ->
               {[x EXCEPT !.state = IF @ = "FAILED" THEN "RUNNING" ELSE @] : x \in old}
          [] a.kind = "delete" -> {}

Execute(r) ==
    /\ rec[r].pc = "act" /\ rec[r].plan # {}
    /\ LET a == FirstOf(rec[r].plan)
       IN  /\ rec' = [rec EXCEPT ![r].plan = @ \ {a}]
           /\ \/ conn' = Effect(a) /\ UNCHANGED faults
              \/ Fault /\ UNCHANGED conn
    /\ UNCHANGED <<warehouse, saved, sourcedbs, onb, ret>>

\* cleanup_stale_slots reads the flags and the registry again.
BeginCleanup(r) ==
    /\ rec[r].pc = "act" /\ rec[r].plan = {}
    /\ rec' = [rec EXCEPT ![r].pc = "cleanup", ![r].kafka = Kafka,
                          ![r].rows = [s \in Shard[r] \cap Registered(registry) |-> registry[s]]]
    /\ UNCHANGED <<warehouse, connect, sourcedbs, onb, ret, faults>>

NextSource(r) == CHOOSE s \in DOMAIN rec[r].rows : \A t \in DOMAIN rec[r].rows : s <= t

Without(rows, s) == [t \in DOMAIN rows \ {s} |-> rows[t]]

\* One source of the loop: skipped, or its slots are dropped and the check is
\* marked, also when dropping failed; a tombstone that is clean goes next.
Inspect(r) ==
    LET s == NextSource(r)
        x == rec[r].rows[s]
        key == SlotCheckKey(s, x, rec[r].kafka)
        keep == SlotsKept(s, rec[r].want)
        stale == StaleSlots(slots, active, s, keep)
        clean == /\ x.state = "RETIRED" /\ x.forget
                 /\ Remaining(slots \ stale, s, keep) = {} /\ s \notin rec[r].met /\ rec[r].all
        due == /\ InspectSlots(s, x, rec[r].kafka, rec[r].want, rec[r].unknown)
               /\ checked[s] # key
    IN  /\ rec[r].pc = "cleanup" /\ DOMAIN rec[r].rows # {}
        /\ \/ /\ ~due
              /\ rec' = [rec EXCEPT ![r].rows = Without(@, s)]
              /\ UNCHANGED <<checked, slots, faults>>
           \/ /\ due
              /\ slots' = slots \ stale
              /\ checked' = [checked EXCEPT ![s] = key]
              /\ rec' = IF clean THEN [rec EXCEPT ![r].pc = "forget"]
                                 ELSE [rec EXCEPT ![r].rows = Without(@, s)]
              /\ UNCHANGED faults
           \/ /\ due /\ Fault
              /\ \E gone \in SUBSET stale : slots' = slots \ gone
              /\ checked' = [checked EXCEPT ![s] = key]
              /\ rec' = [rec EXCEPT ![r].rows = Without(@, s)]
        /\ UNCHANGED <<registry, floor, flag, connect, active, onb, ret>>

\* The tombstone is removed; the guard trigger may end the run instead.
ForgetSource(r) ==
    LET s == NextSource(r)
    IN  /\ rec[r].pc = "forget"
        /\ \/ /\ DeleteRow(s)
              /\ rec' = [rec EXCEPT ![r].pc = "cleanup", ![r].rows = Without(@, s)]
           \/ /\ ~OwnsNothing(s)
              /\ rec' = [rec EXCEPT ![r] = RecIdle]
              /\ UNCHANGED <<registry, flag>>
        /\ UNCHANGED <<floor, checked, connect, sourcedbs, onb, ret, faults>>

Finish(r) ==
    /\ rec[r].pc = "cleanup" /\ DOMAIN rec[r].rows = {}
    /\ rec' = [rec EXCEPT ![r] = RecIdle]
    /\ UNCHANGED <<warehouse, connect, sourcedbs, onb, ret, faults>>

\* execution_timeout, a lost connection, a killed task.
Abort(r) ==
    /\ rec[r].pc # "idle"
    /\ Fault
    /\ rec' = [rec EXCEPT ![r] = RecIdle]
    /\ UNCHANGED <<warehouse, connect, sourcedbs, onb, ret>>

-----------------------------------------------------------------------------
(***************************************************************************)
(* Kafka Connect and the source databases.                                 *)
(***************************************************************************)

Reading(n) == \E x \in conn : x.config.slot = n /\ x.state = "RUNNING"

\* The task of a running connector opens its slot, creating it if need be, and
\* stores its position.
TaskStarts(n) ==
    /\ Reading(n) /\ n \notin active
    /\ slots' = slots \cup {n} /\ active' = active \cup {n}
    /\ saved' = saved \cup {n}
    /\ UNCHANGED <<warehouse, conn, procs, faults>>

\* The server notices that the reader of a slot is gone.
SlotReleased(n) ==
    /\ n \in active /\ ~Reading(n)
    /\ active' = active \ {n}
    /\ UNCHANGED <<warehouse, connect, slots, procs, faults>>

TaskFails(x) ==
    /\ x \in conn /\ x.state = "RUNNING"
    /\ Fault
    /\ conn' = (conn \ {x}) \cup {[x EXCEPT !.state = "FAILED"]}
    /\ UNCHANGED <<warehouse, saved, sourcedbs, procs>>

\* The interval of a slot check has passed.
CheckExpires(s) ==
    /\ checked[s] # Due
    /\ checked' = [checked EXCEPT ![s] = Due]
    /\ UNCHANGED <<registry, floor, flag, connect, sourcedbs, procs, faults>>

-----------------------------------------------------------------------------
Operator(s) ==
    \/ \E config \in Offers[s] \ {NoConfig} : EnsureEnvSource(s, config)
    \/ \E config \in Offers[s], cluster \in Clusters : Register(s, config, cluster)
    \/ \E to \in LifecycleTargets : SetLifecycle(s, to)
    \/ Bump(s)
    \/ \E kind \in Requestable : MoveFlag(s, kind)

Onboarding ==
    \/ \E s \in Sources : OnboardCheck(s)
    \/ OnboardCreate \/ OnboardProvision \/ OnboardAssign \/ OnboardActivate
    \/ OnboardFail

Retirement ==
    \/ \E s \in Sources, forget \in BOOLEAN : RetireRead(s, forget)
    \/ RetireCommit \/ RetireConnectors \/ RetireSlots \/ RetireNoSlots
    \/ RetireForget \/ RetireFail

Reconcile(r) ==
    \/ List(r) \/ ReadOwners(r) \/ Observe(r) \/ Execute(r)
    \/ BeginCleanup(r) \/ Inspect(r) \/ ForgetSource(r) \/ Finish(r)

Next ==
    \/ \E s \in Sources : Operator(s) \/ CheckExpires(s)
    \/ Onboarding \/ Retirement
    \/ \E r \in Reconcilers : Reconcile(r) \/ Abort(r)
    \/ \E n \in Names : TaskStarts(n) \/ SlotReleased(n)
    \/ \E x \in conn : TaskFails(x)

Spec == Init /\ [][Next]_vars

\* The reconciler is scheduled every two minutes, the database server notices
\* a closed connection, and time passes; people and their tools owe nothing.
Fairness ==
    /\ \A r \in Reconcilers : WF_vars(Reconcile(r))
    /\ WF_vars(\E n \in Names : SlotReleased(n))
    /\ \A s \in Sources : WF_vars(CheckExpires(s))

FairSpec == Spec /\ Fairness

-----------------------------------------------------------------------------
(***************************************************************************)
(* Properties.                                                             *)
(***************************************************************************)

\* What the registry asks for at this moment, configured or not.
Wanted(n) == SourceOf(n) \in Candidates(registry, Kafka)
             /\ n = Name(SourceOf(n), registry[SourceOf(n)].gen)

\* A reconciler or a retirement acts on what it read before, and yet it never
\* deletes the connector the registry wants now; also not while the configuration
\* of its source cannot be built.  Two reconcilers around a bump, and a table
\* that returns to KAFKA within a generation, do break it.
WantedConnectorsStay ==
    [][\A x \in conn : Wanted(x.name) /\ registry[SourceOf(x.name)].cluster = x.cluster =>
         \E y \in conn' : y.name = x.name /\ y.cluster = x.cluster]_vars

\* Nobody drops the slot of the generation the registry wants: without it the
\* changes since the saved position are lost.
WantedSlotsStay == [][\A n \in slots : Wanted(n) => n \in slots']_vars

\* A source that is registered again gets a generation above every one that
\* Connect still has a position for ("a re-created source gets a fresh
\* connector name").
FreshGenerations ==
    [][\A s \in Sources : registry[s] = Unregistered /\ registry'[s] # Unregistered =>
         \A n \in saved : SourceOf(n) = s => n[2] < registry'[s].gen]_vars

\* The life of a source as its row and its flag show it: see SourceLife.
LifeOf(x) == IF x = Unregistered THEN Unregistered ELSE [state |-> x.state, gen |-> x.gen]

Life == INSTANCE SourceLife WITH
    NoLife <- Unregistered,
    Transitions <- LifecycleTransitions,
    Entry <- {"REQUESTED", "ACTIVE"},
    life <- [s \in Sources |-> LifeOf(registry[s])],
    owned <- [s \in Sources |-> ~OwnsNothing(s)]

\* However onboarding, retirement, operators and the reconciler interleave, a
\* row moves only along the lifecycle, its generation only grows, retirement
\* takes its tables in the step that retires it, and it is never removed while
\* an engine owns tables under its name.
ImplementsLife == Life!Spec

\* The sources whose slots the reconciler can find: registered with a complete
\* connection; while such a source is at generation 0 and wants no connector
\* its slots are left alone until it is retired.
Inspectable ==
    {s \in Registered(registry) :
        /\ registry[s].config # NoConfig
        /\ registry[s].gen # 0 \/ registry[s].state = "RETIRED"
             \/ s \in Candidates(registry, Kafka)}

\* Connect and the slots match the registry: each wanted connector exists with
\* its configuration and state, no other does, no slot is left that nothing
\* will read, and no tombstone that owns nothing.
Converged ==
    LET want == DesiredConnectors(registry, Kafka)
        unknown == UnknownSources(registry, Kafka)
    IN  /\ {[name |-> x.name, cluster |-> x.cluster, config |-> x.config, state |-> x.state] :
              x \in {y \in conn : SourceOf(y.name) \notin unknown}}
           = {[name |-> d.name, cluster |-> d.cluster, config |-> d.config,
               state |-> IF d.paused THEN "PAUSED" ELSE "RUNNING"] : d \in want}
        /\ \A n \in slots :
             SourceOf(n) \in Inspectable => n \in {d.config.slot : d \in want}
        /\ \A s \in Registered(registry) :
             ~(registry[s].state = "RETIRED" /\ registry[s].forget
               /\ registry[s].config # NoConfig /\ OwnsNothing(s))

\* When the registry and the flags stop changing and things stop failing, the
\* reconciler brings Connect and the slots to what the registry wants, and
\* forgets what it was told to forget.
Converges == <>[][FALSE]_<<registry, flag>> => <>[]Converged
=============================================================================
