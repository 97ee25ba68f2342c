--------------------------- MODULE CaptureProofs ---------------------------
(***************************************************************************)
(* For every set of sources, clusters and reconcilers, every fleet and     *)
(* every value of the bounds: Capture implements SourceLife, it is well    *)
(* typed, and a source that is registered again starts above every         *)
(* position its former self left in Connect.                               *)
(***************************************************************************)
EXTENDS Capture, Extremes, TLAPS

\* The registry as SourceLife sees it.
life == [s \in Sources |-> LifeOf(registry[s])]
owned == [s \in Sources |-> ~OwnsNothing(s)]

(***************************************************************************)
(* The inductive invariant.  A flag exists only next to its row (ON DELETE *)
(* CASCADE, and ensure_rows in the transaction of upsert): without it an   *)
(* assignment could hand tables to a source that is gone.  Onboarding and  *)
(* retirement work on a source; the row a retirement has read is a row.    *)
(***************************************************************************)
LifeInv ==
    /\ registry \in [Sources -> Rows]
    /\ floor \in [Sources -> Nat]
    /\ flag = [s \in Sources |-> flag[s]]
    /\ \A s \in Sources : flag[s] # NoFlag => registry[s] # Unregistered
    /\ DOMAIN onb = DOMAIN OnbIdle /\ DOMAIN ret = DOMAIN RetIdle
    /\ onb.pc # "idle" => onb.src \in Sources
    /\ ret.pc # "idle" => ret.src \in Sources /\ ret.row \in SourceRecord

-----------------------------------------------------------------------------
(***************************************************************************)
(* Rows, and the states the code names.                                    *)
(***************************************************************************)

LEMMA NamedStates ==
    {"REQUESTED", "PROVISIONING", "ACTIVE", "RETIRED"} \subseteq LifecycleState
  BY DEF LifecycleState, LifecycleTransitions

\* No row looks like a missing one.
LEMMA RowsAreRegistered ==
    \A x \in SourceRecord : x # Unregistered /\ LifeOf(x) = [state |-> x.state, gen |-> x.gen]
                            /\ LifeOf(x) # Unregistered
  <1> TAKE x \in SourceRecord
  <1>1. x.state # "none"
    BY DEF SourceRecord, LifecycleState, LifecycleTransitions
  <1>2. x # Unregistered
    BY <1>1 DEF Unregistered
  <1>3. LifeOf(x) = [state |-> x.state, gen |-> x.gen]
    BY <1>2 DEF LifeOf
  <1>4. LifeOf(x).state = x.state
    BY <1>3
  <1>5. LifeOf(x) # Unregistered
    BY <1>1, <1>4 DEF Unregistered
  <1> QED BY <1>2, <1>3, <1>5

\* How SourceLife sees a change of one row, and of one flag.
LEMMA RowChange ==
    ASSUME NEW s \in Sources, NEW x, registry \in [Sources -> Rows],
           registry' = [registry EXCEPT ![s] = x]
    PROVE  life' = [life EXCEPT ![s] = LifeOf(x)]
  BY DEF life

LEMMA FlagChange ==
    ASSUME NEW s \in Sources, NEW o, flag = [t \in Sources |-> flag[t]],
           flag' = [flag EXCEPT ![s] = o],
           NEW b \in BOOLEAN, b <=> ~Unowned(o)
    PROVE  owned' = [owned EXCEPT ![s] = b]
  BY DEF owned, OwnsNothing, Unowned

-----------------------------------------------------------------------------
(***************************************************************************)
(* The steps of SourceLife.                                                *)
(***************************************************************************)

LEMMA CreateStep ==
    ASSUME LifeInv, NEW s \in Sources, registry[s] = Unregistered,
           NEW x \in SourceRecord, x.state \in {"REQUESTED", "ACTIVE"},
           registry' = [registry EXCEPT ![s] = x],
           flag' = flag \/ flag' = [flag EXCEPT ![s] = FreshRow]
    PROVE  Life!Next
  <1>1. flag[s] = NoFlag /\ ~owned[s]
    BY DEF LifeInv, owned, OwnsNothing, Unowned
  <1>2. owned' = owned
    <2>1. CASE flag' = flag
      BY <2>1 DEF owned, OwnsNothing, Unowned
    <2>2. CASE flag' = [flag EXCEPT ![s] = FreshRow]
      <3>1. owned' = [owned EXCEPT ![s] = FALSE]
        <4>1. FALSE <=> ~Unowned(FreshRow)
          BY DEF Unowned, HasShadow, FreshRow
        <4> QED BY <2>2, <4>1, FlagChange DEF LifeInv
      <3> QED BY <3>1, <1>1 DEF owned
    <2> QED BY <2>1, <2>2
  <1>3. life' = [life EXCEPT ![s] = LifeOf(x)]
    BY RowChange DEF LifeInv
  <1>4. life[s] = Unregistered /\ life'[s] = LifeOf(x)
    BY <1>3 DEF life, LifeOf
  <1>5. LifeOf(x) \in [state : {"REQUESTED", "ACTIVE"}, gen : Nat]
    BY RowsAreRegistered DEF SourceRecord
  <1>6. Life!Create(s)
    BY <1>2, <1>3, <1>4, <1>5 DEF Life!Create, life, owned
  <1> QED BY <1>6 DEF Life!Next

LEMMA AdvanceStep ==
    ASSUME LifeInv, NEW s \in Registered(registry), NEW to \in LifecycleState,
           Life!Follows(registry[s].state, to),
           registry' = [registry EXCEPT ![s].state = to],
           UNCHANGED flag \/ flag' = [flag EXCEPT ![s] = IF @ = NoFlag THEN FreshRow ELSE @]
    PROVE  Life!Next
  <1> DEFINE x == [registry[s] EXCEPT !.state = to]
  <1>1. s \in Sources /\ registry[s] \in SourceRecord
    BY DEF LifeInv, Registered, Rows
  <1>2. x \in SourceRecord /\ x.state = to /\ x.gen = registry[s].gen
    BY <1>1 DEF SourceRecord
  <1>3. life' = [life EXCEPT ![s] = LifeOf(x)]
    BY <1>1, RowChange DEF LifeInv
  <1>4. LifeOf(x) = [state |-> to, gen |-> registry[s].gen]
    BY <1>2, RowsAreRegistered
  <1>5. life[s] # Unregistered /\ life[s].state = registry[s].state /\ life[s].gen = registry[s].gen
    BY <1>1, RowsAreRegistered DEF life
  <1>6. owned' = owned
    <2>1. CASE UNCHANGED flag
      BY <2>1 DEF owned, OwnsNothing, Unowned
    <2>2. CASE flag[s] # NoFlag /\ flag' = [flag EXCEPT ![s] = IF @ = NoFlag THEN FreshRow ELSE @]
      <3>1. flag' = flag
        BY <2>2 DEF LifeInv
      <3> QED BY <3>1 DEF owned, OwnsNothing, Unowned
    <2>3. CASE flag[s] = NoFlag /\ flag' = [flag EXCEPT ![s] = IF @ = NoFlag THEN FreshRow ELSE @]
      <3>1. flag' = [flag EXCEPT ![s] = FreshRow]
        BY <2>3 DEF LifeInv
      <3>2. FALSE <=> ~Unowned(FreshRow)
        BY DEF Unowned, HasShadow, FreshRow
      <3>3. owned' = [owned EXCEPT ![s] = FALSE]
        BY <1>1, <3>1, <3>2, FlagChange DEF LifeInv
      <3>4. ~owned[s]
        BY <1>1, <2>3 DEF owned, OwnsNothing, Unowned
      <3> QED BY <3>3, <3>4 DEF owned
    <2> QED BY <2>1, <2>2, <2>3
  <1>7. Life!Becomes(s, to, life[s].gen)
    BY <1>3, <1>4, <1>5 DEF Life!Becomes, life
  <1>8. Life!Advance(s)
    BY <1>5, <1>6, <1>7 DEF Life!Advance, Life!State, LifecycleState, life, owned
  <1> QED BY <1>1, <1>8 DEF Life!Next

\* The flag becomes o; the generation grows by one at most.
LEMMA HandOverStep ==
    ASSUME LifeInv, NEW s \in Registered(registry), NEW o,
           flag' = [flag EXCEPT ![s] = o],
           NEW g \in {registry[s].gen, registry[s].gen + 1},
           registry' = [registry EXCEPT ![s].gen = g]
    PROVE  Life!Next
  <1> DEFINE x == [registry[s] EXCEPT !.gen = g]
  <1>1. s \in Sources /\ registry[s] \in SourceRecord
    BY DEF LifeInv, Registered, Rows
  <1>2. x \in SourceRecord /\ x.state = registry[s].state /\ x.gen = g
    BY <1>1 DEF SourceRecord
  <1>3. life' = [life EXCEPT ![s] = LifeOf(x)]
    BY <1>1, RowChange DEF LifeInv
  <1>4. LifeOf(x) = [state |-> registry[s].state, gen |-> g]
    BY <1>2, RowsAreRegistered
  <1>5. life[s] # Unregistered /\ life[s].state = registry[s].state /\ life[s].gen = registry[s].gen
    BY <1>1, RowsAreRegistered DEF life
  <1>6. PICK b \in BOOLEAN : b <=> ~Unowned(o)
    OBVIOUS
  <1>7. owned' = [owned EXCEPT ![s] = b]
    BY <1>1, <1>6, FlagChange DEF LifeInv
  <1>8. Life!Becomes(s, life[s].state, g)
    BY <1>3, <1>4, <1>5 DEF Life!Becomes, life
  <1>9. g \in {life[s].gen, life[s].gen + 1}
    BY <1>5
  <1>10. Life!HandOver(s)
    BY <1>5, <1>7, <1>8, <1>9 DEF Life!HandOver, life, owned
  <1> QED BY <1>1, <1>10 DEF Life!Next

LEMMA RetireStep ==
    ASSUME LifeInv, NEW s \in Registered(registry),
           Life!Follows(registry[s].state, "RETIRED"),
           registry' = [registry EXCEPT ![s].state = "RETIRED"],
           NEW o, Unowned(o),
           flag' = [flag EXCEPT ![s] = o]
    PROVE  Life!Next
  <1> DEFINE x == [registry[s] EXCEPT !.state = "RETIRED"]
  <1>1. s \in Sources /\ registry[s] \in SourceRecord
    BY DEF LifeInv, Registered, Rows
  <1>2. x \in SourceRecord /\ x.state = "RETIRED" /\ x.gen = registry[s].gen
    BY <1>1, NamedStates DEF SourceRecord
  <1>3. life' = [life EXCEPT ![s] = LifeOf(x)]
    BY <1>1, RowChange DEF LifeInv
  <1>4. LifeOf(x) = [state |-> "RETIRED", gen |-> registry[s].gen]
    BY <1>2, RowsAreRegistered
  <1>5. life[s] # Unregistered /\ life[s].state = registry[s].state /\ life[s].gen = registry[s].gen
    BY <1>1, RowsAreRegistered DEF life
  <1>6. owned' = [owned EXCEPT ![s] = FALSE]
    BY <1>1, FlagChange DEF LifeInv
  <1>7. Life!Becomes(s, "RETIRED", life[s].gen)
    BY <1>3, <1>4, <1>5 DEF Life!Becomes, life
  <1>8. Life!Retire(s)
    BY <1>5, <1>6, <1>7 DEF Life!Retire, life, owned
  <1> QED BY <1>1, <1>8 DEF Life!Next

\* A source that is not one, or has no row, may be removed as well: nothing
\* changes.
LEMMA RemoveStep ==
    ASSUME LifeInv, NEW s, DeleteRow(s)
    PROVE  Life!Next \/ UNCHANGED <<life, owned>>
  <1>1. CASE s \notin Sources
    <2>1. registry' = registry /\ flag' = flag
      BY <1>1 DEF LifeInv, DeleteRow
    <2> QED BY <2>1 DEF life, owned, OwnsNothing, Unowned
  <1>2. CASE s \in Sources
    <2>1. life' = [life EXCEPT ![s] = LifeOf(Unregistered)]
      BY <1>2, RowChange DEF LifeInv, DeleteRow
    <2>2. LifeOf(Unregistered) = Unregistered
      BY DEF LifeOf
    <2>3. FALSE <=> ~Unowned(NoFlag)
      BY DEF Unowned
    <2>4. owned' = [owned EXCEPT ![s] = FALSE]
      BY <1>2, <2>3, FlagChange DEF LifeInv, DeleteRow
    <2>5. ~owned[s]
      BY <1>2 DEF owned, DeleteRow
    <2>6. owned' = owned
      BY <2>4, <2>5 DEF owned
    <2>7. Life!Remove(s)
      BY <2>1, <2>2, <2>5, <2>6 DEF Life!Remove, life, owned
    <2> QED BY <1>2, <2>7 DEF Life!Next
  <1> QED BY <1>1, <1>2


-----------------------------------------------------------------------------
(***************************************************************************)
(* The actions of Capture: each is a step of SourceLife or changes nothing *)
(* SourceLife sees.                                                        *)
(***************************************************************************)

LifeStep == Life!Next \/ UNCHANGED <<life, owned>>

LEMMA Invisible ==
    ASSUME UNCHANGED <<registry, flag>>
    PROVE  LifeStep
  BY DEF LifeStep, life, owned, OwnsNothing, Unowned

LEMMA UpsertIsSeen ==
    ASSUME LifeInv, NEW s \in Sources, NEW config \in Configs, NEW cluster \in Clusters,
           NEW forget \in BOOLEAN, Upsert(s, config, cluster, forget)
    PROVE  LifeStep
  <1>1. CASE registry[s] = Unregistered
    <2> DEFINE x == [state |-> "ACTIVE", gen |-> FirstGeneration(s), cluster |-> cluster,
                     config |-> config, forget |-> FALSE]
    <2>1. x \in SourceRecord
      BY NamedStates DEF LifeInv, FirstGeneration, SourceRecord
    <2>2. registry' = [registry EXCEPT ![s] = x]
      BY <1>1 DEF Upsert
    <2>3. flag[s] = NoFlag
      BY <1>1 DEF LifeInv
    <2>4. flag' = [flag EXCEPT ![s] = FreshRow]
      BY <2>3 DEF Upsert
    <2> QED BY <1>1, <2>1, <2>2, <2>4, CreateStep DEF LifeStep
  <1>2. CASE registry[s] # Unregistered
    <2> DEFINE x == [registry[s] EXCEPT !.config = config, !.cluster = cluster, !.forget = forget]
    <2>1. s \in Registered(registry) /\ registry[s] \in SourceRecord
      BY <1>2 DEF LifeInv, Rows, Registered
    <2>2. x \in SourceRecord /\ x.state = registry[s].state /\ x.gen = registry[s].gen
      BY <2>1 DEF SourceRecord
    <2>3. registry' = [registry EXCEPT ![s] = x]
      BY <1>2 DEF Upsert
    <2>4. life' = [life EXCEPT ![s] = LifeOf(x)]
      BY <2>3, RowChange DEF LifeInv
    <2>5. LifeOf(x) = LifeOf(registry[s])
      BY <2>1, <2>2, RowsAreRegistered
    <2>6. life' = life
      BY <2>4, <2>5 DEF life
    <2>7. owned' = owned
      <3>1. CASE flag[s] # NoFlag
        <4>1. flag' = flag
          BY <3>1 DEF Upsert, LifeInv
        <4> QED BY <4>1 DEF owned, OwnsNothing, Unowned
      <3>2. CASE flag[s] = NoFlag
        <4>1. flag' = [flag EXCEPT ![s] = FreshRow]
          BY <3>2 DEF Upsert
        <4>2. FALSE <=> ~Unowned(FreshRow)
          BY DEF Unowned, HasShadow, FreshRow
        <4>3. owned' = [owned EXCEPT ![s] = FALSE]
          BY <4>1, <4>2, FlagChange DEF LifeInv
        <4>4. ~owned[s]
          BY <3>2 DEF owned, OwnsNothing, Unowned
        <4> QED BY <4>3, <4>4 DEF owned
      <3> QED BY <3>1, <3>2
    <2> QED BY <2>6, <2>7 DEF LifeStep
  <1> QED BY <1>1, <1>2

LEMMA OperatorIsSeen ==
    ASSUME LifeInv, NEW s \in Sources, Operator(s)
    PROVE  LifeStep
  <1>1. ASSUME NEW config \in Offers[s] \ {NoConfig}, EnsureEnvSource(s, config)
        PROVE  LifeStep
    <2>1. config \in Configs /\ DefaultCluster \in Clusters
      BY CaptureAssumption
    <2>2. (registry[s] # Unregistered /\ registry[s].forget) \in BOOLEAN
      OBVIOUS
    <2> QED BY <1>1, <2>1, <2>2, UpsertIsSeen DEF EnsureEnvSource
  <1>2. ASSUME NEW config \in Offers[s], NEW cluster \in Clusters, Register(s, config, cluster)
        PROVE  LifeStep
    <2>1. config \in Configs
      BY CaptureAssumption
    <2> QED BY <1>2, <2>1, UpsertIsSeen DEF Register
  <1>3. ASSUME NEW to \in LifecycleTargets, SetLifecycle(s, to)
        PROVE  LifeStep
    <2>1. to \in LifecycleState
      BY CaptureAssumption
    <2>2. Life!Follows(registry[s].state, to)
      BY <1>3 DEF SetLifecycle, CanSetLifecycle, Life!Follows
    <2> QED BY <1>3, <2>1, <2>2, AdvanceStep DEF SetLifecycle, LifeStep
  <1>4. ASSUME Bump(s)
        PROVE  LifeStep
    <2>1. s \in Registered(registry)
      BY <1>4 DEF Bump
    <2>2. registry' = [registry EXCEPT ![s].gen = registry[s].gen + 1]
      BY <1>4 DEF Bump
    <2>3. flag' = [flag EXCEPT ![s] = flag[s]]
      BY <1>4 DEF Bump, LifeInv
    <2> QED BY <2>1, <2>2, <2>3, HandOverStep DEF LifeStep
  <1>5. ASSUME NEW kind \in Requestable, MoveFlag(s, kind)
        PROVE  LifeStep
    <2>1. s \in Registered(registry)
      BY <1>5 DEF MoveFlag, LifeInv, Registered
    <2>2. PICK new \in Moved(flag[s], kind) :
            LET bumps == kind = "start_shadow" /\ new.shadow = "KAFKA"
            IN  /\ flag' = [flag EXCEPT ![s] = WithoutEpoch(new)]
                /\ registry' = IF bumps THEN [registry EXCEPT ![s].gen = @ + 1] ELSE registry
      BY <1>5 DEF MoveFlag
    <2>3. registry = [registry EXCEPT ![s].gen = registry[s].gen]
      BY <2>1, RowsAreRegistered DEF LifeInv, Registered, Rows, SourceRecord
    <2>4. PICK g \in {registry[s].gen, registry[s].gen + 1} :
            registry' = [registry EXCEPT ![s].gen = g]
      BY <2>2, <2>3
    <2> QED BY <2>1, <2>2, <2>4, HandOverStep DEF LifeStep
  <1> QED BY <1>1, <1>2, <1>3, <1>4, <1>5 DEF Operator


LEMMA OnboardingIsSeen ==
    ASSUME LifeInv, Onboarding
    PROVE  LifeStep
  <1>1. ASSUME NEW s \in Sources, OnboardCheck(s)
        PROVE  LifeStep
    BY <1>1, Invisible DEF OnboardCheck, warehouse
  <1>2. ASSUME OnboardCreate
        PROVE  LifeStep
    <2>1. onb.src \in Sources /\ registry[onb.src] = Unregistered
      BY <1>2 DEF OnboardCreate, LifeInv
    <2>2. PICK config \in Offers[onb.src] \ {NoConfig}, cluster \in Clusters :
            registry' = [registry EXCEPT ![onb.src] =
              [state |-> "REQUESTED", gen |-> 0, cluster |-> cluster, config |-> config,
               forget |-> FALSE]]
      BY <1>2 DEF OnboardCreate
    <2> DEFINE x == [state |-> "REQUESTED", gen |-> 0, cluster |-> cluster, config |-> config,
                     forget |-> FALSE]
    <2>3. x \in SourceRecord
      BY <2>1, NamedStates, CaptureAssumption DEF SourceRecord
    <2>4. flag' = flag
      BY <1>2 DEF OnboardCreate
    <2> QED BY <2>1, <2>2, <2>3, <2>4, CreateStep DEF LifeStep
  <1>3. ASSUME OnboardProvision
        PROVE  LifeStep
    <2> DEFINE path == <<"VALIDATING", "PROVISIONING">>
    <2>1. onb.src \in Registered(registry) /\ PathAllowed(path, registry[onb.src].state)
      BY <1>3 DEF OnboardProvision
    <2>2. DOMAIN path = {1, 2} /\ path[1] = "VALIDATING" /\ path[2] = "PROVISIONING"
      OBVIOUS
    <2>3. /\ CanSetLifecycle(registry[onb.src].state, "VALIDATING")
          /\ CanSetLifecycle("VALIDATING", "PROVISIONING")
      BY <2>1, <2>2 DEF PathAllowed
    <2>4. Life!Follows(registry[onb.src].state, "PROVISIONING")
      BY <2>3 DEF CanSetLifecycle, Life!Follows
    <2>5. registry' = [registry EXCEPT ![onb.src].state = "PROVISIONING"]
      BY <1>3 DEF OnboardProvision
    <2>6. flag' = [flag EXCEPT ![onb.src] = IF @ = NoFlag THEN FreshRow ELSE @]
      BY <1>3 DEF OnboardProvision
    <2> QED BY <2>1, <2>4, <2>5, <2>6, NamedStates, AdvanceStep DEF LifeStep
  <1>4. ASSUME OnboardAssign
        PROVE  LifeStep
    <2>1. onb.src \in Sources
      BY <1>4 DEF OnboardAssign, LifeInv
    <2>2. PICK e \in Writers : flag' = [flag EXCEPT ![onb.src] =
                                 IF @.engine # "NONE" THEN @ ELSE WithoutEpoch(Assign(@, e))]
      BY <1>4 DEF OnboardAssign
    <2>3. CASE registry[onb.src] = Unregistered
      <3>1. flag[onb.src].engine # "NONE"
        BY <2>1, <2>3 DEF LifeInv, NoFlag
      <3>2. flag' = flag
        BY <2>2, <3>1 DEF LifeInv
      <3> QED BY <1>4, <3>2, Invisible DEF OnboardAssign
    <2>4. CASE registry[onb.src] # Unregistered
      <3>1. onb.src \in Registered(registry)
        BY <2>1, <2>4 DEF Registered
      <3>2. PICK o : flag' = [flag EXCEPT ![onb.src] = o]
        BY <2>2
      <3>3. registry' = [registry EXCEPT ![onb.src].gen = registry[onb.src].gen]
        BY <1>4, <3>1, RowsAreRegistered
           DEF OnboardAssign, LifeInv, Registered, Rows, SourceRecord
      <3> QED BY <3>1, <3>2, <3>3, HandOverStep DEF LifeStep
    <2> QED BY <2>3, <2>4
  <1>5. ASSUME OnboardActivate
        PROVE  LifeStep
    <2>1. Life!Follows(registry[onb.src].state, "ACTIVE")
      BY <1>5 DEF OnboardActivate, CanSetLifecycle, Life!Follows
    <2> QED BY <1>5, <2>1, NamedStates, AdvanceStep DEF OnboardActivate, LifeStep
  <1>6. ASSUME OnboardFail
        PROVE  LifeStep
    BY <1>6, Invisible DEF OnboardFail, warehouse
  <1> QED BY <1>1, <1>2, <1>3, <1>4, <1>5, <1>6 DEF Onboarding

LEMMA RetireCommitIsSeen ==
    ASSUME LifeInv, RetireCommit
    PROVE  LifeStep
  <1> DEFINE s == ret.src
             o == IF flag[s] = NoFlag THEN flag[s]
                  ELSE [FreshRow EXCEPT !.everOwned = flag[s].everOwned]
  <1>1. s \in Sources /\ ret.row \in SourceRecord
    BY DEF RetireCommit, LifeInv
  <1>2. flag' = [flag EXCEPT ![s] = o]
    BY DEF RetireCommit
  <1>3. Unowned(o)
    BY DEF Unowned, HasShadow, FreshRow
  <1>4. CASE ret.row.state = "RETIRED"
    <2>1. registry' = registry
      BY <1>1, <1>4 DEF RetireCommit, LifeInv, Rows, SourceRecord, Unregistered
    <2>2. CASE registry[s] = Unregistered
      <3>1. flag' = flag
        BY <1>1, <1>2, <2>2 DEF LifeInv
      <3> QED BY <2>1, <3>1, Invisible
    <2>3. CASE registry[s] # Unregistered
      <3>1. s \in Registered(registry)
        BY <1>1, <2>3 DEF Registered
      <3>2. registry' = [registry EXCEPT ![s].gen = registry[s].gen]
        BY <2>1, <3>1 DEF LifeInv, Registered, Rows, SourceRecord
      <3> QED BY <1>2, <3>1, <3>2, HandOverStep DEF LifeStep
    <2> QED BY <2>2, <2>3
  <1>5. CASE ret.row.state # "RETIRED"
    <2>1. registry' = [registry EXCEPT ![s].state = "RETIRED"]
      BY <1>5 DEF RetireCommit
    <2>2. s \in Registered(registry) /\ PathAllowed(LifecyclePath(ret.row.state), registry[s].state)
      BY <1>5 DEF RetireCommit, RetireAllowed, LifecyclePath
    <2>3. ASSUME ret.row.state \in {"REQUESTED", "VALIDATING", "RETIRING"}
          PROVE  Life!Follows(registry[s].state, "RETIRED")
      <3>1. LifecyclePath(ret.row.state) = <<"RETIRED">>
        BY <1>5, <2>3 DEF LifecyclePath
      <3>2. CanSetLifecycle(registry[s].state, "RETIRED")
        BY <2>2, <3>1 DEF PathAllowed
      <3> QED BY <3>2 DEF CanSetLifecycle, Life!Follows
    <2>4. ASSUME ret.row.state \notin {"REQUESTED", "VALIDATING", "RETIRING"}
          PROVE  Life!Follows(registry[s].state, "RETIRED")
      <3>1. LifecyclePath(ret.row.state) = <<"RETIRING", "RETIRED">>
        BY <1>5, <2>4 DEF LifecyclePath
      <3> DEFINE path == LifecyclePath(ret.row.state)
      <3>2. DOMAIN path = {1, 2} /\ path[1] = "RETIRING" /\ path[2] = "RETIRED"
        BY <3>1
      <3>3. /\ CanSetLifecycle(registry[s].state, "RETIRING")
            /\ CanSetLifecycle("RETIRING", "RETIRED")
        BY <2>2, <3>2 DEF PathAllowed
      <3> QED BY <3>3 DEF CanSetLifecycle, Life!Follows
    <2> QED BY <1>2, <1>3, <2>1, <2>2, <2>3, <2>4, RetireStep DEF LifeStep
  <1> QED BY <1>4, <1>5


LEMMA RetirementIsSeen ==
    ASSUME LifeInv, Retirement
    PROVE  LifeStep
  <1>1. ASSUME NEW s \in Sources, NEW forget \in BOOLEAN, RetireRead(s, forget)
        PROVE  LifeStep
    BY <1>1, Invisible DEF RetireRead, warehouse
  <1>2. CASE RetireCommit
    BY <1>2, RetireCommitIsSeen
  <1>3. CASE RetireConnectors \/ RetireSlots \/ RetireNoSlots \/ RetireFail
    BY <1>3, Invisible
       DEF RetireConnectors, RetireSlots, RetireNoSlots, RetireFail, warehouse
  <1>4. CASE RetireForget
    <2>1. CASE UNCHANGED <<registry, flag>>
      BY <2>1, Invisible
    <2>2. CASE DeleteRow(ret.src)
      BY <2>2, RemoveStep DEF LifeStep
    <2>3. ASSUME registry' = [registry EXCEPT ![ret.src] =
                               IF @ = Unregistered THEN @ ELSE [@ EXCEPT !.forget = TRUE]],
                 UNCHANGED flag
          PROVE  LifeStep
      <3> DEFINE s == ret.src
                 x == IF registry[s] = Unregistered THEN registry[s]
                      ELSE [registry[s] EXCEPT !.forget = TRUE]
      <3>1. s \in Sources
        BY <1>4 DEF RetireForget, LifeInv
      <3>2. LifeOf(x) = LifeOf(registry[s])
        <4>1. CASE registry[s] = Unregistered
          BY <4>1
        <4>2. CASE registry[s] \in SourceRecord
          <5>1. x \in SourceRecord /\ x.state = registry[s].state /\ x.gen = registry[s].gen
            BY <4>2, RowsAreRegistered DEF SourceRecord
          <5> QED BY <4>2, <5>1, RowsAreRegistered
        <4> QED BY <3>1, <4>1, <4>2 DEF LifeInv, Rows
      <3>3. life' = [life EXCEPT ![s] = LifeOf(x)]
        BY <2>3, <3>1, RowChange DEF LifeInv
      <3>4. life' = life
        BY <3>2, <3>3 DEF life
      <3> QED BY <2>3, <3>4 DEF LifeStep, owned, OwnsNothing, Unowned
    <2> QED BY <1>4, <2>1, <2>2, <2>3 DEF RetireForget
  <1> QED BY <1>1, <1>2, <1>3, <1>4 DEF Retirement

LEMMA ReconcileIsSeen ==
    ASSUME LifeInv, NEW r \in Reconcilers, Reconcile(r) \/ Abort(r)
    PROVE  LifeStep
  <1>1. CASE ForgetSource(r)
    <2>1. DeleteRow(NextSource(r)) \/ UNCHANGED <<registry, flag>>
      BY <1>1 DEF ForgetSource
    <2> QED BY <2>1, Invisible, RemoveStep DEF LifeStep
  <1>2. CASE List(r) \/ ReadOwners(r) \/ Observe(r) \/ Execute(r) \/ BeginCleanup(r)
    BY <1>2, Invisible DEF List, ReadOwners, Observe, Execute, BeginCleanup, warehouse
  <1>3. CASE Inspect(r) \/ Finish(r) \/ Abort(r)
    BY <1>3, Invisible DEF Inspect, Finish, Abort, warehouse
  <1> QED BY <1>1, <1>2, <1>3 DEF Reconcile

LEMMA StepIsSeen ==
    ASSUME LifeInv, [Next]_vars
    PROVE  LifeStep
  <1>1. ASSUME NEW s \in Sources, Operator(s)
        PROVE  LifeStep
    BY <1>1, OperatorIsSeen
  <1>2. ASSUME NEW s \in Sources, CheckExpires(s)
        PROVE  LifeStep
    BY <1>2, Invisible DEF CheckExpires
  <1>3. CASE Onboarding
    BY <1>3, OnboardingIsSeen
  <1>4. CASE Retirement
    BY <1>4, RetirementIsSeen
  <1>5. ASSUME NEW r \in Reconcilers, Reconcile(r) \/ Abort(r)
        PROVE  LifeStep
    BY <1>5, ReconcileIsSeen
  <1>6. ASSUME NEW n \in Names, TaskStarts(n) \/ SlotReleased(n)
        PROVE  LifeStep
    BY <1>6, Invisible DEF TaskStarts, SlotReleased, warehouse
  <1>7. ASSUME NEW x \in conn, TaskFails(x)
        PROVE  LifeStep
    BY <1>7, Invisible DEF TaskFails, warehouse
  <1>8. CASE UNCHANGED vars
    BY <1>8, Invisible DEF vars, warehouse
  <1> QED BY <1>1, <1>2, <1>3, <1>4, <1>5, <1>6, <1>7, <1>8 DEF Next


-----------------------------------------------------------------------------
(***************************************************************************)
(* LifeInv is inductive.                                                   *)
(***************************************************************************)

\* Its parts about the warehouse, and about the two tools.
TablesInv ==
    /\ registry \in [Sources -> Rows]
    /\ floor \in [Sources -> Nat]
    /\ flag = [s \in Sources |-> flag[s]]
    /\ \A s \in Sources : flag[s] # NoFlag => registry[s] # Unregistered

ToolsInv ==
    /\ DOMAIN onb = DOMAIN OnbIdle /\ DOMAIN ret = DOMAIN RetIdle
    /\ onb.pc # "idle" => onb.src \in Sources
    /\ ret.pc # "idle" => ret.src \in Sources /\ ret.row \in SourceRecord

LEMMA InitHasLifeInv == Init => LifeInv
  <1> SUFFICES ASSUME Init PROVE LifeInv
    OBVIOUS
  <1>1. PICK fleet \in Fleets :
          /\ registry = [s \in Sources |-> fleet[s].row]
          /\ flag = [s \in Sources |-> IF fleet[s].row = Unregistered THEN NoFlag
                                       ELSE Owned(fleet[s].engine)]
    BY DEF Init
  <1>2. fleet \in [Sources -> [row : Rows, engine : Engine]]
    BY CaptureAssumption
  <1>3. registry \in [Sources -> Rows]
    BY <1>1, <1>2
  <1>4. \A s \in Sources : flag[s] # NoFlag => registry[s] # Unregistered
    BY <1>1
  <1>5. floor \in [Sources -> Nat] /\ onb = OnbIdle /\ ret = RetIdle
    BY DEF Init
  <1> QED BY <1>1, <1>3, <1>4, <1>5 DEF LifeInv, OnbIdle, RetIdle

\* One row and one flag change: a row that exists keeps its flag.
LEMMA OneSourceChanges ==
    ASSUME LifeInv, NEW s \in Sources, NEW x \in Rows, NEW o,
           registry' = [registry EXCEPT ![s] = x],
           flag' = [flag EXCEPT ![s] = o],
           o # NoFlag => x # Unregistered,
           floor' \in [Sources -> Nat]
    PROVE  TablesInv'
  BY DEF LifeInv, TablesInv

LEMMA WarehouseRests ==
    ASSUME LifeInv, UNCHANGED <<registry, flag, floor>>
    PROVE  TablesInv'
  BY DEF LifeInv, TablesInv

\* A row with another state or generation is a row.
LEMMA ChangedRow ==
    ASSUME LifeInv, NEW s \in Registered(registry)
    PROVE  /\ s \in Sources /\ registry[s] \in SourceRecord
           /\ \A to \in LifecycleState :
                [registry[s] EXCEPT !.state = to] \in SourceRecord
           /\ [registry[s] EXCEPT !.gen = @ + 1] \in SourceRecord
  BY DEF LifeInv, Registered, Rows, SourceRecord

LEMMA OperatorKeepsTables ==
    ASSUME LifeInv, NEW s \in Sources, Operator(s)
    PROVE  TablesInv'
  <1>1. ASSUME NEW config \in Configs, NEW cluster \in Clusters, NEW forget \in BOOLEAN,
               Upsert(s, config, cluster, forget)
        PROVE  TablesInv'
    <2> DEFINE x == IF registry[s] = Unregistered
                    THEN [state |-> "ACTIVE", gen |-> FirstGeneration(s), cluster |-> cluster,
                          config |-> config, forget |-> FALSE]
                    ELSE [registry[s] EXCEPT !.config = config, !.cluster = cluster,
                                             !.forget = forget]
               o == IF flag[s] = NoFlag THEN FreshRow ELSE flag[s]
    <2>2. x \in SourceRecord
      <3>1. CASE registry[s] = Unregistered
        BY <3>1, NamedStates DEF LifeInv, FirstGeneration, SourceRecord
      <3>2. CASE registry[s] # Unregistered
        <4>1. registry[s] \in SourceRecord
          BY <3>2 DEF LifeInv, Rows
        <4> QED BY <3>2, <4>1 DEF SourceRecord
      <3> QED BY <3>1, <3>2
    <2>3. registry' = [registry EXCEPT ![s] = x] /\ flag' = [flag EXCEPT ![s] = o]
      BY <1>1 DEF Upsert
    <2>4. floor' \in [Sources -> Nat]
      BY <1>1 DEF Upsert, LifeInv
    <2> QED BY <2>2, <2>3, <2>4, OneSourceChanges, RowsAreRegistered DEF Rows
  <1>2. ASSUME NEW config \in Offers[s] \ {NoConfig}, EnsureEnvSource(s, config)
        PROVE  TablesInv'
    <2>1. config \in Configs /\ DefaultCluster \in Clusters
      BY CaptureAssumption
    <2>2. (registry[s] # Unregistered /\ registry[s].forget) \in BOOLEAN
      OBVIOUS
    <2> QED BY <1>1, <1>2, <2>1, <2>2 DEF EnsureEnvSource
  <1>3. ASSUME NEW config \in Offers[s], NEW cluster \in Clusters, Register(s, config, cluster)
        PROVE  TablesInv'
    <2>1. config \in Configs
      BY CaptureAssumption
    <2> QED BY <1>1, <1>3, <2>1 DEF Register
  <1>4. ASSUME NEW to \in LifecycleTargets, SetLifecycle(s, to)
        PROVE  TablesInv'
    <2>1. to \in LifecycleState /\ s \in Registered(registry)
      BY <1>4, CaptureAssumption DEF SetLifecycle
    <2>2. [registry[s] EXCEPT !.state = to] \in SourceRecord
      BY <2>1, ChangedRow
    <2>3. /\ registry' = [registry EXCEPT ![s] = [registry[s] EXCEPT !.state = to]]
          /\ flag' = [flag EXCEPT ![s] = flag[s]]
          /\ floor' \in [Sources -> Nat]
      BY <1>4 DEF SetLifecycle, LifeInv
    <2> QED BY <2>2, <2>3, OneSourceChanges, RowsAreRegistered DEF Rows
  <1>5. ASSUME Bump(s)
        PROVE  TablesInv'
    <2>1. [registry[s] EXCEPT !.gen = @ + 1] \in SourceRecord
      BY <1>5, ChangedRow DEF Bump
    <2>2. /\ registry' = [registry EXCEPT ![s] = [registry[s] EXCEPT !.gen = @ + 1]]
          /\ flag' = [flag EXCEPT ![s] = flag[s]]
          /\ floor' \in [Sources -> Nat]
      BY <1>5 DEF Bump, LifeInv
    <2> QED BY <2>1, <2>2, OneSourceChanges, RowsAreRegistered DEF Rows
  <1>6. ASSUME NEW kind \in Requestable, MoveFlag(s, kind)
        PROVE  TablesInv'
    <2>1. s \in Registered(registry)
      BY <1>6 DEF MoveFlag, LifeInv, Registered
    <2>2. PICK o : flag' = [flag EXCEPT ![s] = o]
      BY <1>6 DEF MoveFlag
    <2>3. PICK x \in SourceRecord : registry' = [registry EXCEPT ![s] = x]
      <3>1. CASE registry' = registry
        <4>1. registry' = [registry EXCEPT ![s] = registry[s]]
          BY <3>1 DEF LifeInv
        <4> QED BY <2>1, <4>1, ChangedRow
      <3>2. CASE registry' = [registry EXCEPT ![s].gen = @ + 1]
        <4>1. registry' = [registry EXCEPT ![s] = [registry[s] EXCEPT !.gen = @ + 1]]
          BY <3>2
        <4> QED BY <2>1, <4>1, ChangedRow
      <3> QED BY <1>6, <3>1, <3>2 DEF MoveFlag
    <2>4. floor' \in [Sources -> Nat]
      BY <1>6 DEF MoveFlag, LifeInv
    <2> QED BY <2>2, <2>3, <2>4, OneSourceChanges, RowsAreRegistered DEF Rows
  <1> QED BY <1>2, <1>3, <1>4, <1>5, <1>6 DEF Operator


LEMMA OnboardingKeepsTables ==
    ASSUME LifeInv, Onboarding
    PROVE  TablesInv'
  <1>1. CASE (\E s \in Sources : OnboardCheck(s)) \/ OnboardFail
    BY <1>1, WarehouseRests DEF OnboardCheck, OnboardFail, warehouse
  <1>2. CASE OnboardCreate
    <2>1. onb.src \in Sources
      BY <1>2 DEF OnboardCreate, LifeInv
    <2>2. PICK config \in Offers[onb.src] \ {NoConfig}, cluster \in Clusters :
            registry' = [registry EXCEPT ![onb.src] =
              [state |-> "REQUESTED", gen |-> 0, cluster |-> cluster, config |-> config,
               forget |-> FALSE]]
      BY <1>2 DEF OnboardCreate
    <2> DEFINE x == [state |-> "REQUESTED", gen |-> 0, cluster |-> cluster, config |-> config,
                     forget |-> FALSE]
    <2>3. x \in SourceRecord
      BY <2>1, NamedStates, CaptureAssumption DEF SourceRecord
    <2>4. flag' = [flag EXCEPT ![onb.src] = flag[onb.src]] /\ floor' \in [Sources -> Nat]
      BY <1>2 DEF OnboardCreate, LifeInv
    <2> QED BY <2>1, <2>2, <2>3, <2>4, OneSourceChanges, RowsAreRegistered DEF Rows
  <1>3. CASE OnboardProvision \/ OnboardActivate
    <2>1. onb.src \in Registered(registry)
      BY <1>3 DEF OnboardProvision, OnboardActivate
    <2>2. PICK to \in {"PROVISIONING", "ACTIVE"} :
            registry' = [registry EXCEPT ![onb.src] = [registry[onb.src] EXCEPT !.state = to]]
      BY <1>3 DEF OnboardProvision, OnboardActivate
    <2>3. [registry[onb.src] EXCEPT !.state = to] \in SourceRecord
      BY <2>1, NamedStates, ChangedRow
    <2>4. PICK o : flag' = [flag EXCEPT ![onb.src] = o]
      <3>1. CASE OnboardProvision
        BY <3>1 DEF OnboardProvision
      <3>2. CASE OnboardActivate
        <4>1. flag' = [flag EXCEPT ![onb.src] = flag[onb.src]]
          BY <3>2 DEF OnboardActivate, LifeInv
        <4> QED BY <4>1
      <3> QED BY <1>3, <3>1, <3>2
    <2>5. onb.src \in Sources /\ floor' \in [Sources -> Nat]
      BY <1>3, <2>1 DEF OnboardProvision, OnboardActivate, LifeInv, Registered
    <2> QED BY <2>2, <2>3, <2>4, <2>5, OneSourceChanges, RowsAreRegistered DEF Rows
  <1>4. CASE OnboardAssign
    <2>1. onb.src \in Sources
      BY <1>4 DEF OnboardAssign, LifeInv
    <2>2. registry[onb.src] \in Rows
      BY <2>1 DEF LifeInv
    <2>3. /\ registry' = [registry EXCEPT ![onb.src] = registry[onb.src]]
          /\ floor' \in [Sources -> Nat]
      BY <1>4 DEF OnboardAssign, LifeInv
    <2>4. PICK e \in Writers : flag' = [flag EXCEPT ![onb.src] =
                                 IF @.engine # "NONE" THEN @ ELSE WithoutEpoch(Assign(@, e))]
      BY <1>4 DEF OnboardAssign
    <2> DEFINE o == IF flag[onb.src].engine # "NONE" THEN flag[onb.src]
                    ELSE WithoutEpoch(Assign(flag[onb.src], e))
    <2>5. o # NoFlag => registry[onb.src] # Unregistered
      <3>1. CASE flag[onb.src] = NoFlag
        BY <3>1 DEF NoFlag
      <3>2. CASE flag[onb.src] # NoFlag
        BY <2>1, <3>2 DEF LifeInv
      <3> QED BY <3>1, <3>2
    <2>6. flag' = [flag EXCEPT ![onb.src] = o]
      BY <2>4
    <2> QED BY <2>1, <2>2, <2>3, <2>5, <2>6, OneSourceChanges
  <1> QED BY <1>1, <1>2, <1>3, <1>4 DEF Onboarding

LEMMA DeleteRowKeepsTables ==
    ASSUME LifeInv, NEW s, DeleteRow(s), UNCHANGED floor
    PROVE  TablesInv'
  <1>1. CASE s \notin Sources
    <2>1. registry' = registry /\ flag' = flag
      BY <1>1 DEF LifeInv, DeleteRow
    <2> QED BY <2>1, WarehouseRests
  <1>2. CASE s \in Sources
    BY <1>2, OneSourceChanges DEF LifeInv, DeleteRow, Rows
  <1> QED BY <1>1, <1>2

LEMMA RetirementKeepsTables ==
    ASSUME LifeInv, Retirement
    PROVE  TablesInv'
  <1>1. CASE \E s \in Sources, forget \in BOOLEAN : RetireRead(s, forget)
    BY <1>1, WarehouseRests DEF RetireRead, warehouse
  <1>2. CASE RetireConnectors \/ RetireSlots \/ RetireNoSlots \/ RetireFail
    BY <1>2, WarehouseRests
       DEF RetireConnectors, RetireSlots, RetireNoSlots, RetireFail, warehouse
  <1>3. CASE RetireCommit
    <2> DEFINE s == ret.src
               o == IF flag[s] = NoFlag THEN flag[s]
                    ELSE [FreshRow EXCEPT !.everOwned = flag[s].everOwned]
               x == [registry[s] EXCEPT !.state =
                       IF ret.row.state = "RETIRED" THEN @ ELSE "RETIRED"]
    <2>1. s \in Sources /\ ret.row \in SourceRecord
      BY <1>3 DEF RetireCommit, LifeInv
    <2>2. floor' \in [Sources -> Nat]
      <3>1. ret.row.gen + 1 \in Nat
        BY <2>1 DEF SourceRecord
      <3>2. floor' = [floor EXCEPT ![s] = IF @ > ret.row.gen + 1 THEN @ ELSE ret.row.gen + 1]
        BY <1>3 DEF RetireCommit
      <3> QED BY <2>1, <3>1, <3>2 DEF LifeInv
    <2>3. registry' = [registry EXCEPT ![s] = x] /\ flag' = [flag EXCEPT ![s] = o]
      BY <1>3 DEF RetireCommit
    <2>4. x \in Rows /\ (registry[s] # Unregistered => x # Unregistered)
      <3>1. CASE ret.row.state = "RETIRED"
        <4>1. x = registry[s]
          BY <2>1, <3>1 DEF LifeInv, Rows, SourceRecord, Unregistered
        <4> QED BY <2>1, <4>1 DEF LifeInv
      <3>2. CASE ret.row.state # "RETIRED"
        <4>1. s \in Registered(registry)
          BY <1>3, <3>2 DEF RetireCommit, RetireAllowed, LifecyclePath
        <4>2. x \in SourceRecord
          BY <3>2, <4>1, NamedStates, ChangedRow
        <4> QED BY <4>2, RowsAreRegistered DEF Rows
      <3> QED BY <3>1, <3>2
    <2>5. o # NoFlag => x # Unregistered
      BY <2>1, <2>4 DEF LifeInv
    <2> QED BY <2>1, <2>2, <2>3, <2>4, <2>5, OneSourceChanges
  <1>4. CASE RetireForget
    <2>1. UNCHANGED floor
      BY <1>4 DEF RetireForget
    <2>2. CASE UNCHANGED <<registry, flag>>
      BY <2>1, <2>2, WarehouseRests
    <2>3. CASE DeleteRow(ret.src)
      BY <2>1, <2>3, DeleteRowKeepsTables
    <2>4. ASSUME registry' = [registry EXCEPT ![ret.src] =
                               IF @ = Unregistered THEN @ ELSE [@ EXCEPT !.forget = TRUE]],
                 UNCHANGED flag
          PROVE  TablesInv'
      <3> DEFINE s == ret.src
                 x == IF registry[s] = Unregistered THEN registry[s]
                      ELSE [registry[s] EXCEPT !.forget = TRUE]
      <3>1. s \in Sources /\ registry[s] \in Rows
        BY <1>4 DEF RetireForget, LifeInv
      <3>2. registry[s] # Unregistered => x \in SourceRecord
        BY <3>1 DEF Rows, SourceRecord
      <3>3. x \in Rows /\ (registry[s] # Unregistered => x # Unregistered)
        BY <3>1, <3>2, RowsAreRegistered DEF Rows
      <3>4. flag[s] # NoFlag => x # Unregistered
        BY <3>1, <3>3 DEF LifeInv
      <3>5. registry' = [registry EXCEPT ![s] = x] /\ flag' = [flag EXCEPT ![s] = flag[s]]
        BY <2>4 DEF LifeInv
      <3>6. floor' \in [Sources -> Nat]
        BY <2>1 DEF LifeInv
      <3> QED BY <3>1, <3>3, <3>4, <3>5, <3>6, OneSourceChanges
    <2> QED BY <1>4, <2>2, <2>3, <2>4 DEF RetireForget
  <1> QED BY <1>1, <1>2, <1>3, <1>4 DEF Retirement

\* Everybody but the tools themselves leaves their state alone.
LEMMA ToolsKeepTheirSource ==
    ASSUME LifeInv, [Next]_vars
    PROVE  ToolsInv'
  <1> USE DEF ToolsInv, OnbIdle, RetIdle
  <1>1. CASE UNCHANGED <<onb, ret>>
    BY <1>1 DEF LifeInv
  <1>2. CASE Onboarding
    BY <1>2 DEF LifeInv, Onboarding, OnboardCheck, OnboardCreate, OnboardProvision, OnboardAssign,
                OnboardActivate, OnboardFail
  <1>3. CASE Retirement
    <2>1. ASSUME NEW s \in Sources, NEW forget \in BOOLEAN, RetireRead(s, forget)
          PROVE  ToolsInv'
      BY <2>1 DEF LifeInv, RetireRead, Registered, Rows
    <2>2. CASE RetireCommit \/ RetireNoSlots \/ RetireForget \/ RetireFail
      BY <2>2 DEF LifeInv, RetireCommit, RetireNoSlots, RetireForget, RetireFail
    <2>3. CASE RetireConnectors
      BY <2>3 DEF LifeInv, RetireConnectors
    <2>4. CASE RetireSlots
      BY <2>4 DEF LifeInv, RetireSlots
    <2> QED BY <1>3, <2>1, <2>2, <2>3, <2>4 DEF Retirement
  <1>4. ASSUME NEW s \in Sources, Operator(s) \/ CheckExpires(s)
        PROVE  UNCHANGED <<onb, ret>>
    BY <1>4 DEF Operator, EnsureEnvSource, Register, Upsert, SetLifecycle, Bump, MoveFlag,
                CheckExpires, procs
  <1>5. ASSUME NEW r \in Reconcilers, Reconcile(r) \/ Abort(r)
        PROVE  UNCHANGED <<onb, ret>>
    BY <1>5 DEF Reconcile, List, ReadOwners, Observe, Execute, BeginCleanup, Inspect,
                ForgetSource, Finish, Abort
  <1>6. ASSUME \/ \E n \in Names : TaskStarts(n) \/ SlotReleased(n)
               \/ \E x \in conn : TaskFails(x)
        PROVE  UNCHANGED <<onb, ret>>
    BY <1>6 DEF TaskStarts, SlotReleased, TaskFails, procs
  <1>7. CASE UNCHANGED vars
    BY <1>1, <1>7 DEF vars, procs
  <1> QED BY <1>1, <1>2, <1>3, <1>4, <1>5, <1>6, <1>7 DEF Next

LEMMA LifeInvIsInductive == LifeInv /\ [Next]_vars => LifeInv'
  <1> SUFFICES ASSUME LifeInv, [Next]_vars
               PROVE  TablesInv'
    BY ToolsKeepTheirSource DEF TablesInv, ToolsInv, LifeInv
  <1>1. ASSUME NEW s \in Sources, Operator(s)
        PROVE  TablesInv'
    BY <1>1, OperatorKeepsTables
  <1>2. ASSUME NEW s \in Sources, CheckExpires(s)
        PROVE  TablesInv'
    BY <1>2, WarehouseRests DEF CheckExpires
  <1>3. CASE Onboarding
    BY <1>3, OnboardingKeepsTables
  <1>4. CASE Retirement
    BY <1>4, RetirementKeepsTables
  <1>5. ASSUME NEW r \in Reconcilers, ForgetSource(r)
        PROVE  TablesInv'
    <2>1. UNCHANGED floor /\ (DeleteRow(NextSource(r)) \/ UNCHANGED <<registry, flag>>)
      BY <1>5 DEF ForgetSource
    <2> QED BY <2>1, WarehouseRests, DeleteRowKeepsTables
  <1>6. ASSUME NEW r \in Reconcilers,
               \/ List(r) \/ ReadOwners(r) \/ Observe(r) \/ Execute(r)
               \/ BeginCleanup(r) \/ Inspect(r) \/ Finish(r) \/ Abort(r)
        PROVE  TablesInv'
    BY <1>6, WarehouseRests
       DEF List, ReadOwners, Observe, Execute, BeginCleanup, Inspect, Finish, Abort, warehouse
  <1>7. ASSUME \/ \E n \in Names : TaskStarts(n) \/ SlotReleased(n)
               \/ \E x \in conn : TaskFails(x)
        PROVE  TablesInv'
    BY <1>7, WarehouseRests DEF TaskStarts, SlotReleased, TaskFails, warehouse
  <1>8. CASE UNCHANGED vars
    BY <1>8, WarehouseRests DEF vars, warehouse
  <1> QED BY <1>1, <1>2, <1>3, <1>4, <1>5, <1>6, <1>7, <1>8 DEF Next, Reconcile

-----------------------------------------------------------------------------
(***************************************************************************)
(* The theorems.                                                           *)
(***************************************************************************)

\* No ownership row outlives its registration: a reconciler, a retirement or a
\* stale tool never leaves tables under a name nobody holds (the foreign key
\* of meta.ingestion_ownership, and the order in which onboarding writes).
THEOREM FlagsHaveRows ==
    Spec => [](\A s \in Sources : flag[s] # NoFlag => registry[s] # Unregistered)
  <1>1. LifeInv => \A s \in Sources : flag[s] # NoFlag => registry[s] # Unregistered
    BY DEF LifeInv
  <1> QED BY <1>1, InitHasLifeInv, LifeInvIsInductive, PTL DEF Spec

LEMMA InitIsSeen == Init => Life!Init
  <1> SUFFICES ASSUME Init PROVE Life!Init
    OBVIOUS
  <1>1. LifeInv
    BY InitHasLifeInv
  <1>2. ASSUME NEW s \in Sources
        PROVE  LifeOf(registry[s]) \in [state : LifecycleState, gen : Nat] \cup {Unregistered}
    <2>1. CASE registry[s] = Unregistered
      BY <2>1 DEF LifeOf
    <2>2. CASE registry[s] \in SourceRecord
      BY <2>2, RowsAreRegistered DEF SourceRecord
    <2> QED BY <1>1, <2>1, <2>2 DEF LifeInv, Rows
  <1>3. life \in [Sources -> [state : LifecycleState, gen : Nat] \cup {Unregistered}]
    BY <1>2 DEF life
  <1>4. owned \in [Sources -> BOOLEAN]
    BY DEF owned
  <1>5. ASSUME NEW s \in Sources, owned[s]
        PROVE  life[s] # Unregistered
    <2>1. registry[s] # Unregistered
      BY <1>1, <1>5 DEF owned, OwnsNothing, Unowned, LifeInv
    <2>2. registry[s] \in SourceRecord
      BY <1>1, <2>1 DEF LifeInv, Rows
    <2> QED BY <2>2, RowsAreRegistered DEF life
  <1> QED BY <1>3, <1>4, <1>5 DEF Life!Init, Life!State, LifecycleState, life, owned

\* ImplementsLife, for every fleet: whatever the interleaving of operators,
\* onboarding, retirement and reconcilers, each step of the registry and the
\* flags is one SourceLife allows.
THEOREM LifeIsImplemented == Spec => ImplementsLife
  <1>1. LifeInv /\ [Next]_vars => [Life!Next]_(Life!vars)
    BY StepIsSeen DEF LifeStep, Life!vars, life, owned
  <1> QED BY <1>1, InitIsSeen, InitHasLifeInv, LifeInvIsInductive, PTL
          DEF Spec, ImplementsLife, Life!Spec

-----------------------------------------------------------------------------
(***************************************************************************)
(* Types.  The parts of TypeOK are kept by what a run read before: the     *)
(* connectors are as the plan describes them, the plan as the wanted and   *)
(* the observed ones are, and those as the rows were.  That a plan has a   *)
(* first action is not a matter of sets either: any two actions of a plan  *)
(* must have an order, which rests on one wanted connector per source and  *)
(* one existing connector per name and cluster.                            *)
(***************************************************************************)

BoundedRow == {x \in SourceRecord : x.gen <= MaxGen}

\* What registry.list can return.
RowMaps == UNION {[S -> BoundedRow] : S \in SUBSET Sources}

\* At most one connector of a source is wanted.
Wants == {D \in SUBSET Desired :
            \A d, e \in D : SourceOf(d.name) = SourceOf(e.name) => d = e}

\* Of any two actions one runs before the other.
Plans == {P \in SUBSET Action :
            \A a, b \in P : a = b \/ RunsBefore(a, b) \/ RunsBefore(b, a)}

\* At most one connector has a name in a cluster.
Fleet == {C \in SUBSET Connector :
            \A x, y \in C : x.name = y.name /\ x.cluster = y.cluster => x = y}

RecType ==
    [pc : {"idle", "listed", "read", "act", "cleanup", "forget"},
     rows : RowMaps, want : Wants, unknown : SUBSET Sources, mine : SUBSET Sources,
     plan : Plans, met : SUBSET Sources, all : BOOLEAN, kafka : SUBSET Sources]

LEMMA NameParts ==
    \A n \in Names : n = <<n[1], n[2]>> /\ n[1] \in Sources /\ n[1] \in Nat /\ n[2] \in Nat
  <1> TAKE n \in Names
  <1>1. n \in Sources \X (0..MaxGen)
    BY DEF Names
  <1>2. n = <<n[1], n[2]>> /\ n[1] \in Sources /\ n[2] \in 0..MaxGen
    BY <1>1
  <1>3. MaxGen \in Nat /\ Sources \subseteq Nat
    BY ConnectorsAssumption, CaptureAssumption
  <1>4. n[1] \in Nat
    BY <1>2, <1>3
  <1>5. n[2] \in Nat
    BY <1>2, <1>3
  <1> QED BY <1>2, <1>4, <1>5

LEMMA NamesAreOrdered ==
    \A m, n \in Names : m = n \/ Before(m, n) \/ Before(n, m)
  <1> TAKE m, n \in Names
  <1>1. /\ m = <<m[1], m[2]>> /\ m[1] \in Nat /\ m[2] \in Nat
        /\ n = <<n[1], n[2]>> /\ n[1] \in Nat /\ n[2] \in Nat
    BY NameParts
  <1>2. CASE m[1] = n[1] /\ m[2] = n[2]
    BY <1>1, <1>2
  <1>3. CASE m[1] # n[1] \/ m[2] # n[2]
    BY <1>1, <1>3 DEF Before
  <1> QED BY <1>2, <1>3

LEMMA ActionFields ==
    \A a \in Action : /\ a.name \in Names /\ a.cluster \in Clusters /\ a.cluster \in Nat
                      /\ a.config \in Config /\ a.kind \in DOMAIN Rank
                      /\ Rank[a.kind] \in Nat
  <1> TAKE a \in Action
  <1>1. /\ a.name \in Names /\ a.cluster \in Clusters /\ a.config \in Config
        /\ a.kind \in DOMAIN Rank
    BY DEF Action
  <1>2. a.cluster \in Nat
    BY <1>1, ConnectorsAssumption
  <1>3. \A k \in DOMAIN Rank : Rank[k] \in Nat
    BY DEF Rank
  <1> QED BY <1>1, <1>2, <1>3

\* The action a run executes next is one of its plan: among those that are not
\* deletions the least by source, generation and rank, otherwise the least
\* by cluster, source and generation.
LEMMA PlanHasFirst ==
    ASSUME NEW P \in Plans, P # {}
    PROVE  FirstOf(P) \in P
  <1>1. P \subseteq Action /\ \A a, b \in P : a = b \/ RunsBefore(a, b) \/ RunsBefore(b, a)
    BY DEF Plans
  <1>2. \A a \in P : /\ a.name \in Names /\ a.cluster \in Nat /\ Rank[a.kind] \in Nat
                     /\ a.name[1] \in Nat /\ a.name[2] \in Nat
    BY <1>1, ActionFields, NameParts
  <1> SUFFICES \E a \in P : \A b \in P \ {a} : RunsBefore(a, b)
    BY DEF FirstOf
  <1>3. CASE \E a \in P : a.kind # "delete"
    <2> DEFINE N == {a \in P : a.kind # "delete"}
    <2>1. PICK u \in N : \A b \in N : u.name[1] <= b.name[1]
      <3>1. [a \in N |-> a.name[1]] \in [N -> Nat] /\ N # {}
        BY <1>2, <1>3
      <3>2. PICK u \in N : \A b \in N : [a \in N |-> a.name[1]][u] <= [a \in N |-> a.name[1]][b]
        BY <3>1, LeastValue
      <3> QED BY <3>2
    <2> DEFINE M == {a \in N : a.name[1] = u.name[1]}
    <2>2. PICK v \in M : \A b \in M : v.name[2] <= b.name[2]
      <3>1. [a \in M |-> a.name[2]] \in [M -> Nat] /\ M # {}
        BY <1>2, <2>1
      <3>2. PICK v \in M : \A b \in M : [a \in M |-> a.name[2]][v] <= [a \in M |-> a.name[2]][b]
        BY <3>1, LeastValue
      <3> QED BY <3>2
    <2> DEFINE K == {a \in M : a.name = v.name}
    <2>3. PICK w \in K : \A b \in K : Rank[w.kind] <= Rank[b.kind]
      <3>1. [a \in K |-> Rank[a.kind]] \in [K -> Nat] /\ K # {}
        BY <1>2, <2>2
      <3>2. PICK w \in K : \A b \in K : [a \in K |-> Rank[a.kind]][w] <= [a \in K |-> Rank[a.kind]][b]
        BY <3>1, LeastValue
      <3> QED BY <3>2
    <2>4. w \in P /\ w.kind # "delete" /\ w.name = v.name /\ w.name[1] = u.name[1]
      BY <2>3
    <2>5. ASSUME NEW b \in P, b.kind # "delete", RunsBefore(b, w)
          PROVE  FALSE
      <3>1. b \in N /\ u.name[1] <= b.name[1]
        BY <2>1, <2>5
      <3>2. CASE Before(b.name, w.name)
        <4>1. b.name[1] = u.name[1] /\ b.name[2] < w.name[2]
          BY <1>2, <2>4, <3>1, <3>2 DEF Before
        <4>2. b \in M
          BY <3>1, <4>1
        <4> QED BY <1>2, <2>2, <2>4, <4>1, <4>2
      <3>3. CASE b.name = w.name /\ Rank[b.kind] < Rank[w.kind]
        <4>1. b \in K
          BY <2>4, <3>1, <3>3
        <4> QED BY <1>2, <2>3, <2>4, <3>3, <4>1
      <3> QED BY <2>4, <2>5, <3>2, <3>3 DEF RunsBefore
    <2>6. ASSUME NEW b \in P \ {w}
          PROVE  RunsBefore(w, b)
      <3>1. CASE b.kind = "delete"
        BY <2>4, <3>1 DEF RunsBefore
      <3>2. CASE b.kind # "delete"
        BY <1>1, <2>4, <2>5, <3>2
      <3> QED BY <3>1, <3>2
    <2> QED BY <2>4, <2>6
  <1>4. CASE \A a \in P : a.kind = "delete"
    <2>1. PICK u \in P : \A b \in P : u.cluster <= b.cluster
      <3>1. [a \in P |-> a.cluster] \in [P -> Nat]
        BY <1>2
      <3>2. PICK u \in P : \A b \in P : [a \in P |-> a.cluster][u] <= [a \in P |-> a.cluster][b]
        BY <3>1, LeastValue
      <3> QED BY <3>2
    <2> DEFINE N == {a \in P : a.cluster = u.cluster}
    <2>2. PICK v \in N : \A b \in N : v.name[1] <= b.name[1]
      <3>1. [a \in N |-> a.name[1]] \in [N -> Nat] /\ N # {}
        BY <1>2, <2>1
      <3>2. PICK v \in N : \A b \in N : [a \in N |-> a.name[1]][v] <= [a \in N |-> a.name[1]][b]
        BY <3>1, LeastValue
      <3> QED BY <3>2
    <2> DEFINE M == {a \in N : a.name[1] = v.name[1]}
    <2>3. PICK w \in M : \A b \in M : w.name[2] <= b.name[2]
      <3>1. [a \in M |-> a.name[2]] \in [M -> Nat] /\ M # {}
        BY <1>2, <2>2
      <3>2. PICK w \in M : \A b \in M : [a \in M |-> a.name[2]][w] <= [a \in M |-> a.name[2]][b]
        BY <3>1, LeastValue
      <3> QED BY <3>2
    <2>4. w \in P /\ w.cluster = u.cluster /\ w.name[1] = v.name[1]
      BY <2>3
    <2>5. ASSUME NEW b \in P, InDeleteOrder(b, w)
          PROVE  FALSE
      <3>1. b.cluster = w.cluster /\ Before(b.name, w.name)
        BY <1>2, <2>1, <2>4, <2>5 DEF InDeleteOrder
      <3>2. b \in N /\ v.name[1] <= b.name[1]
        BY <2>2, <2>4, <3>1
      <3>3. b.name[1] = v.name[1] /\ b.name[2] < w.name[2]
        BY <1>2, <2>4, <3>1, <3>2 DEF Before
      <3>4. b \in M
        BY <3>2, <3>3
      <3> QED BY <1>2, <2>3, <2>4, <3>3, <3>4
    <2>6. \A b \in P \ {w} : RunsBefore(w, b)
      BY <1>1, <1>4, <2>4, <2>5 DEF RunsBefore
    <2> QED BY <2>4, <2>6
  <1> QED BY <1>3, <1>4

\* A row of which only the generation's bound matters.
LEMMA RowFields ==
    \A x \in BoundedRow : /\ x.state \in LifecycleState /\ x.gen \in 0..MaxGen
                          /\ x.cluster \in Clusters /\ x.config \in Configs
                          /\ x # Unregistered
  <1> TAKE x \in BoundedRow
  <1>1. x \in SourceRecord /\ x.gen <= MaxGen
    BY DEF BoundedRow
  <1>2. /\ x.state \in LifecycleState /\ x.gen \in Nat /\ x.cluster \in Clusters
        /\ x.config \in Configs
    BY <1>1 DEF SourceRecord
  <1>3. MaxGen \in Nat
    BY CaptureAssumption
  <1>4. x.gen \in 0..MaxGen
    BY <1>1, <1>2, <1>3
  <1> QED BY <1>1, <1>2, <1>4, RowsAreRegistered

\* desired_connectors names each source once.
LEMMA DesiredAreWants ==
    ASSUME NEW reg, \A s \in Registered(reg) : reg[s] \in BoundedRow, NEW kafka
    PROVE  DesiredConnectors(reg, kafka) \in Wants
  <1> DEFINE want(s) == [name |-> Name(s, reg[s].gen), cluster |-> reg[s].cluster,
                         config |-> BuildConnectorConfig(s, reg[s]),
                         paused |-> reg[s].state = "PAUSED"]
             S == Candidates(reg, kafka) \ UnknownSources(reg, kafka)
  <1>1. S \subseteq Registered(reg) /\ S \subseteq Sources
    BY DEF Candidates, Registered
  <1>2. DesiredConnectors(reg, kafka) = {want(s) : s \in S}
    BY DEF DesiredConnectors
  <1>3. ASSUME NEW s \in S
        PROVE  want(s) \in Desired /\ SourceOf(want(s).name) = s
    <2>1. s \in Sources /\ reg[s] \in BoundedRow
      BY <1>1
    <2>2. reg[s].gen \in 0..MaxGen /\ reg[s].cluster \in Clusters /\ reg[s].config \in Configs
      BY <2>1, RowFields
    <2>3. Name(s, reg[s].gen) \in Names
      BY <2>1, <2>2 DEF Name, Names
    <2>4. BuildConnectorConfig(s, reg[s]) \in Config
      BY <2>2, <2>3 DEF BuildConnectorConfig, Config
    <2>5. want(s) \in Desired
      BY <2>2, <2>3, <2>4 DEF Desired
    <2> QED BY <2>5 DEF SourceOf, Name
  <1> HIDE DEF want, S
  <1>4. {want(s) : s \in S} \in Wants
    BY <1>3 DEF Wants
  <1> QED BY <1>2, <1>4

LEMMA ConnectorFields ==
    \A x \in Connector : /\ x.name \in Names /\ x.cluster \in Clusters /\ x.cluster \in Nat
                         /\ x.config \in Config /\ SourceOf(x.name) \in Sources
  <1> TAKE x \in Connector
  <1>1. x.name \in Names /\ x.cluster \in Clusters /\ x.config \in Config
    BY DEF Connector
  <1>2. x.cluster \in Nat
    BY <1>1, ConnectorsAssumption
  <1>3. x.name[1] \in Sources
    BY <1>1, NameParts
  <1> QED BY <1>1, <1>2, <1>3 DEF SourceOf

NoDelete == {"create", "update", "pause", "resume", "restart_failed"}

\* plan_actions describes wanted connectors, or deletes existing ones.
LEMMA PlanShape ==
    ASSUME NEW D, NEW O, NEW protected, NEW a \in PlanActions(D, O, protected)
    PROVE  \/ \E d \in D, k \in NoDelete : a = Act(k, d)
           \/ \E o \in O : a = Act("delete", o)
  <1> USE DEF NoDelete
  <1> DEFINE P == PlanActions(D, O, protected)
             made == UNION {{Act("create", d)} \cup {Act("pause", e) : e \in {f \in {d} : f.paused}} :
                              d \in Creates(D, O)}
             mended == UNION {UNION {Repairs(d, o) : o \in Seen(O, d)} : d \in D}
             gone == {Act("delete", o) : o \in Deletes(D, O, protected)}
  <1>1. a \in P /\ P = made \cup mended \cup gone
    BY DEF PlanActions
  <1>2. CASE a \in made
    <2>1. Creates(D, O) \subseteq D
      BY DEF Creates, Missing
    <2> QED BY <1>2, <2>1
  <1>3. CASE a \in mended
    <2>1. PICK d \in D : \E o \in Seen(O, d) : a \in Repairs(d, o)
      BY <1>3
    <2> QED BY <2>1 DEF Repairs
  <1>4. CASE a \in gone
    <2>1. Deletes(D, O, protected) \subseteq O
      BY DEF Deletes, Orphans
    <2> QED BY <1>4, <2>1
  <1> HIDE DEF P, made, mended, gone
  <1> QED BY <1>1, <1>2, <1>3, <1>4

\* plan_actions: any two actions have an order.
LEMMA PlansAreOrdered ==
    ASSUME NEW D \in Wants, NEW O \in Fleet, NEW protected
    PROVE  PlanActions(D, O, protected) \in Plans
  <1> DEFINE P == PlanActions(D, O, protected)
  <1> USE DEF NoDelete
  <1>1. ASSUME NEW a \in P
        PROVE  \/ \E d \in D, k \in NoDelete : a = Act(k, d)
               \/ \E o \in O : a = Act("delete", o)
    BY PlanShape
  <1> HIDE DEF P
  <1>2. \A d \in D : d.name \in Names /\ d.cluster \in Clusters /\ d.config \in Config
    BY DEF Wants, Desired
  <1>3. \A o \in O : o.name \in Names /\ o.cluster \in Clusters /\ o.cluster \in Nat
                     /\ o.config \in Config
    BY ConnectorFields DEF Fleet
  <1>4. DOMAIN Rank = NoDelete \cup {"delete"} /\ \A k, j \in NoDelete : Rank[k] \in Nat /\ (Rank[k] = Rank[j] => k = j)
    BY DEF Rank
  <1>5. ASSUME NEW a \in P
        PROVE  a \in Action
    <2>1. \A k \in DOMAIN Rank, d \in D : Act(k, d) \in Action
      BY <1>2 DEF Act, Action
    <2>2. \A o \in O : Act("delete", o) \in Action
      BY <1>3, <1>4 DEF Act, Action
    <2> QED BY <1>1, <1>4, <2>1, <2>2
  <1>6. ASSUME NEW a \in P, NEW b \in P
        PROVE  a = b \/ RunsBefore(a, b) \/ RunsBefore(b, a)
    <2>1. CASE (\E d \in D, k \in NoDelete : a = Act(k, d)) /\ (\E d \in D, k \in NoDelete : b = Act(k, d))
      <3>1. PICK d \in D, k \in NoDelete : a = Act(k, d)
        BY <2>1
      <3>2. PICK e \in D, j \in NoDelete : b = Act(j, e)
        BY <2>1
      <3>3. /\ a.kind = k /\ a.name = d.name /\ a.kind # "delete"
            /\ b.kind = j /\ b.name = e.name /\ b.kind # "delete"
        BY <3>1, <3>2 DEF Act
      <3>4. CASE d.name = e.name
        <4>1. d = e
          BY <3>4 DEF Wants
        <4>2. CASE k = j
          BY <3>1, <3>2, <4>1, <4>2
        <4>3. CASE k # j
          <5>1. Rank[k] < Rank[j] \/ Rank[j] < Rank[k]
            BY <1>4, <4>3
          <5> QED BY <3>3, <3>4, <5>1 DEF RunsBefore
        <4> QED BY <4>2, <4>3
      <3>5. CASE d.name # e.name
        BY <1>2, <3>3, <3>5, NamesAreOrdered DEF RunsBefore
      <3> QED BY <3>4, <3>5
    <2>2. CASE (\E o \in O : a = Act("delete", o)) /\ (\E o \in O : b = Act("delete", o))
      <3>1. PICK o \in O : a = Act("delete", o)
        BY <2>2
      <3>2. PICK p \in O : b = Act("delete", p)
        BY <2>2
      <3>3. /\ a.kind = "delete" /\ a.name = o.name /\ a.cluster = o.cluster
            /\ b.kind = "delete" /\ b.name = p.name /\ b.cluster = p.cluster
        BY <3>1, <3>2 DEF Act
      <3>4. CASE o.cluster = p.cluster /\ o.name = p.name
        <4>1. o = p
          BY <3>4 DEF Fleet
        <4> QED BY <3>1, <3>2, <4>1
      <3>5. CASE o.cluster # p.cluster
        <4>1. o.cluster < p.cluster \/ p.cluster < o.cluster
          BY <1>3, <3>5
        <4> QED BY <3>3, <4>1 DEF RunsBefore, InDeleteOrder
      <3>6. CASE o.cluster = p.cluster /\ o.name # p.name
        <4>1. Before(o.name, p.name) \/ Before(p.name, o.name)
          BY <1>3, <3>6, NamesAreOrdered
        <4> QED BY <3>3, <3>6, <4>1 DEF RunsBefore, InDeleteOrder
      <3> QED BY <3>4, <3>5, <3>6
    <2>3. \/ (\E d \in D, k \in NoDelete : a = Act(k, d)) /\ (\E o \in O : b = Act("delete", o))
          \/ (\E d \in D, k \in NoDelete : b = Act(k, d)) /\ (\E o \in O : a = Act("delete", o))
          => RunsBefore(a, b) \/ RunsBefore(b, a)
      BY DEF Act, RunsBefore
    <2> QED BY <1>1, <2>1, <2>2, <2>3
  <1>7. P \in Plans
    BY <1>5, <1>6 DEF Plans
  <1> QED BY <1>7 DEF P

\* ConnectClient.execute keeps one connector per name and cluster.
LEMMA EffectKeepsFleet ==
    ASSUME conn \in Fleet, NEW a \in Action
    PROVE  Effect(a) \in Fleet
  <1> DEFINE old == At(a)
             put == [name |-> a.name, cluster |-> a.cluster, config |-> a.config,
                     state |-> "RUNNING"]
  <1>1. ASSUME NEW N \in SUBSET Connector,
               \A x \in N : x.name = a.name /\ x.cluster = a.cluster,
               \A x, y \in N : x = y
        PROVE  (conn \ old) \cup N \in Fleet
    BY <1>1 DEF Fleet, At
  <1>2. old \subseteq Connector /\ \A x, y \in old : x = y
    BY DEF Fleet, At
  <1>3. \A x \in old : x.name = a.name /\ x.cluster = a.cluster
    BY DEF At
  <1>4. put \in Connector
    BY ActionFields DEF Connector
  <1>5. \A x \in old : [x EXCEPT !.config = a.config] \in Connector
    BY <1>2, ActionFields DEF Connector
  <1>6. \A x \in old, st \in {"RUNNING", "PAUSED"} : [x EXCEPT !.state = st] \in Connector
    BY <1>2 DEF Connector
  <1>7. \A x \in old : [x EXCEPT !.state = IF @ = "FAILED" THEN "RUNNING" ELSE @] \in Connector
    BY <1>2 DEF Connector
  <1>8. \A x \in old : DOMAIN x = {"name", "cluster", "config", "state"}
    BY <1>2 DEF Connector
  <1> HIDE DEF old
  <1>9. CASE a.kind \in {"create", "update"}
    <2> DEFINE N == IF old = {} THEN {put} ELSE {[x EXCEPT !.config = a.config] : x \in old}
    <2>1. N \in SUBSET Connector /\ \A x, y \in N : x = y
      BY <1>2, <1>4, <1>5
    <2>2. \A x \in N : x.name = a.name /\ x.cluster = a.cluster
      BY <1>3, <1>8
    <2>3. Effect(a) = (conn \ old) \cup N
      BY <1>9 DEF Effect, old
    <2> HIDE DEF N
    <2> QED BY <1>1, <2>1, <2>2, <2>3
  <1>10. CASE a.kind \in {"pause", "resume"}
    <2> DEFINE st == IF a.kind = "pause" THEN "PAUSED" ELSE "RUNNING"
               N == {[x EXCEPT !.state = st] : x \in old}
    <2>1. N \in SUBSET Connector /\ \A x, y \in N : x = y
      BY <1>2, <1>6
    <2>2. \A x \in N : x.name = a.name /\ x.cluster = a.cluster
      BY <1>3, <1>8
    <2>3. Effect(a) = (conn \ old) \cup N
      BY <1>10 DEF Effect, old
    <2> HIDE DEF N
    <2> QED BY <1>1, <2>1, <2>2, <2>3
  <1>11. CASE a.kind = "restart_failed"
    <2> DEFINE N == {[x EXCEPT !.state = IF @ = "FAILED" THEN "RUNNING" ELSE @] : x \in old}
    <2>1. N \in SUBSET Connector /\ \A x, y \in N : x = y
      BY <1>2, <1>7
    <2>2. \A x \in N : x.name = a.name /\ x.cluster = a.cluster
      BY <1>3, <1>8
    <2>3. Effect(a) = (conn \ old) \cup N
      BY <1>11 DEF Effect, old
    <2> HIDE DEF N
    <2> QED BY <1>1, <2>1, <2>2, <2>3
  <1>12. CASE a.kind = "delete"
    <2>1. Effect(a) = (conn \ old) \cup {}
      BY <1>12 DEF Effect, old
    <2> QED BY <1>1, <2>1
  <1>13. a.kind \in DOMAIN Rank
    BY ActionFields
  <1> QED BY <1>9, <1>10, <1>11, <1>12, <1>13 DEF Rank

-----------------------------------------------------------------------------
(***************************************************************************)
(* The inductive invariant behind TypeOK, part by part.                    *)
(***************************************************************************)

Flags == OwnershipRow({}, {})

Bounded ==
    /\ \A s \in Sources : registry[s] # Unregistered => registry[s].gen <= MaxGen
    /\ \A s \in Sources : floor[s] <= MaxGen
    /\ ret.pc # "idle" => ret.row.gen < MaxGen

FlagTypes == \A s \in Sources : flag[s] \in Flags \cup {NoFlag}

CheckTypes ==
    /\ checked = [s \in Sources |-> checked[s]]
    /\ \A s \in Sources : checked[s] = Due \/ checked[s] \in Nat \X BOOLEAN \X LifecycleState

ConnectTypes ==
    /\ conn \in Fleet
    /\ saved \subseteq Names /\ slots \subseteq Names /\ active \subseteq slots

ToolTypes ==
    /\ onb.pc \in {"idle", "checked", "created", "provisioned", "assigned"}
    /\ ret.pc \in {"idle", "read", "connectors", "slots", "forget"}
    /\ ret.row \in Rows

CaptureInv ==
    /\ LifeInv
    /\ Bounded
    /\ FlagTypes
    /\ CheckTypes
    /\ ConnectTypes
    /\ rec \in [Reconcilers -> RecType]
    /\ ToolTypes
    /\ faults \in 0..MaxFaults

\* A run that has not begun.
LEMMA IdleRun == RecIdle \in RecType
  <1>1. NoRows \in RowMaps
    <2>1. NoRows \in [{} -> BoundedRow] /\ {} \in SUBSET Sources
      BY DEF NoRows
    <2> QED BY <2>1 DEF RowMaps
  <1>2. {} \in Wants /\ {} \in Plans
    BY DEF Wants, Plans
  <1> QED BY <1>1, <1>2 DEF RecIdle, RecType

LEMMA InitHasCaptureInv == Init => CaptureInv
  <1> SUFFICES ASSUME Init PROVE CaptureInv
    OBVIOUS
  <1>1. PICK fleet \in Fleets :
          /\ registry = [s \in Sources |-> fleet[s].row]
          /\ flag = [s \in Sources |-> IF fleet[s].row = Unregistered THEN NoFlag
                                       ELSE Owned(fleet[s].engine)]
    BY DEF Init
  <1>2. \A s \in Sources : registry[s] # Unregistered => registry[s].gen <= MaxGen
    BY <1>1, CaptureAssumption
  <1>3. floor = [s \in Sources |-> 0] /\ ret = RetIdle /\ onb = OnbIdle
    BY DEF Init
  <1>4. Bounded
    BY <1>2, <1>3, CaptureAssumption DEF Bounded, RetIdle
  <1>5. FlagTypes
    <2>1. \A e \in Engine : Owned(e) \in Flags
      BY DEF Owned, FreshRow, Flags, OwnershipRow, CutoverState, Engine
    <2>2. \A s \in Sources : fleet[s].engine \in Engine
      BY CaptureAssumption
    <2> QED BY <1>1, <2>1, <2>2 DEF FlagTypes
  <1>6. CheckTypes
    BY DEF Init, CheckTypes
  <1>7. ConnectTypes
    BY DEF Init, ConnectTypes, Fleet
  <1>8. rec \in [Reconcilers -> RecType]
    BY IdleRun DEF Init
  <1>9. ToolTypes
    BY <1>3 DEF ToolTypes, OnbIdle, RetIdle, Rows
  <1>10. faults \in 0..MaxFaults
    BY CaptureAssumption DEF Init
  <1> QED BY InitHasLifeInv, <1>4, <1>5, <1>6, <1>7, <1>8, <1>9, <1>10 DEF CaptureInv

\* What a step of the tools or of a reconciler leaves alone.
LEMMA WhoWritesChecks ==
    ASSUME [Next]_vars
    PROVE  \/ UNCHANGED checked
           \/ \E s \in Sources : CheckExpires(s)
           \/ \E r \in Reconcilers : Inspect(r)
  <1>1. ASSUME NEW s \in Sources, Operator(s)
        PROVE  UNCHANGED checked
    BY <1>1 DEF Operator, EnsureEnvSource, Register, Upsert, SetLifecycle, Bump, MoveFlag
  <1>2. CASE Onboarding
    BY <1>2 DEF Onboarding, OnboardCheck, OnboardCreate, OnboardProvision, OnboardAssign,
                OnboardActivate, OnboardFail, warehouse
  <1>3. CASE Retirement
    BY <1>3 DEF Retirement, RetireRead, RetireCommit, RetireConnectors, RetireSlots,
                RetireNoSlots, RetireForget, RetireFail, warehouse
  <1>4. ASSUME NEW r \in Reconcilers, Reconcile(r) \/ Abort(r), ~Inspect(r)
        PROVE  UNCHANGED checked
    BY <1>4 DEF Reconcile, List, ReadOwners, Observe, Execute, BeginCleanup,
                ForgetSource, Finish, Abort, warehouse
  <1>5. ASSUME \/ \E n \in Names : TaskStarts(n) \/ SlotReleased(n)
               \/ \E x \in conn : TaskFails(x)
        PROVE  UNCHANGED checked
    BY <1>5 DEF TaskStarts, SlotReleased, TaskFails, warehouse
  <1> QED BY <1>1, <1>2, <1>3, <1>4, <1>5 DEF Next, vars, warehouse

LEMMA WhoWritesConnect ==
    ASSUME [Next]_vars
    PROVE  \/ UNCHANGED <<connect, sourcedbs>>
           \/ RetireConnectors \/ RetireSlots
           \/ \E r \in Reconcilers : Execute(r) \/ Inspect(r)
           \/ \E n \in Names : TaskStarts(n) \/ SlotReleased(n)
           \/ \E x \in conn : TaskFails(x)
  <1>1. ASSUME NEW s \in Sources, Operator(s) \/ CheckExpires(s)
        PROVE  UNCHANGED <<connect, sourcedbs>>
    BY <1>1 DEF Operator, EnsureEnvSource, Register, Upsert, SetLifecycle, Bump, MoveFlag,
                CheckExpires
  <1>2. CASE Onboarding
    BY <1>2 DEF Onboarding, OnboardCheck, OnboardCreate, OnboardProvision, OnboardAssign,
                OnboardActivate, OnboardFail
  <1>3. ASSUME Retirement, ~RetireConnectors, ~RetireSlots
        PROVE  UNCHANGED <<connect, sourcedbs>>
    BY <1>3 DEF Retirement, RetireRead, RetireCommit, RetireNoSlots, RetireForget, RetireFail
  <1>4. ASSUME NEW r \in Reconcilers, Reconcile(r) \/ Abort(r), ~Execute(r), ~Inspect(r)
        PROVE  UNCHANGED <<connect, sourcedbs>>
    BY <1>4 DEF Reconcile, List, ReadOwners, Observe, BeginCleanup, ForgetSource, Finish, Abort
  <1>5. CASE UNCHANGED vars
    BY <1>5 DEF vars
  <1> QED BY <1>1, <1>2, <1>3, <1>4, <1>5 DEF Next

LEMMA WhoWritesRuns ==
    ASSUME [Next]_vars
    PROVE  \/ UNCHANGED rec
           \/ \E r \in Reconcilers : Reconcile(r) \/ Abort(r)
  <1>1. ASSUME NEW s \in Sources, Operator(s) \/ CheckExpires(s)
        PROVE  UNCHANGED rec
    BY <1>1 DEF Operator, EnsureEnvSource, Register, Upsert, SetLifecycle, Bump, MoveFlag,
                CheckExpires, procs
  <1>2. CASE Onboarding
    BY <1>2 DEF Onboarding, OnboardCheck, OnboardCreate, OnboardProvision, OnboardAssign,
                OnboardActivate, OnboardFail
  <1>3. CASE Retirement
    BY <1>3 DEF Retirement, RetireRead, RetireCommit, RetireConnectors, RetireSlots,
                RetireNoSlots, RetireForget, RetireFail
  <1>4. ASSUME \/ \E n \in Names : TaskStarts(n) \/ SlotReleased(n)
               \/ \E x \in conn : TaskFails(x)
        PROVE  UNCHANGED rec
    BY <1>4 DEF TaskStarts, SlotReleased, TaskFails, procs
  <1> QED BY <1>1, <1>2, <1>3, <1>4 DEF Next, vars, procs

\* Nobody counts more faults than there may be.
LEMMA FaultsAreCounted ==
    ASSUME faults \in 0..MaxFaults, [Next]_vars
    PROVE  faults' \in 0..MaxFaults
  <1> USE CaptureAssumption
  <1>1. UNCHANGED faults \/ Fault => faults' \in 0..MaxFaults
    BY DEF Fault
  <1>2. ASSUME NEW s \in Sources, Operator(s) \/ CheckExpires(s)
        PROVE  UNCHANGED faults
    BY <1>2 DEF Operator, EnsureEnvSource, Register, Upsert, SetLifecycle, Bump, MoveFlag,
                CheckExpires
  <1>3. CASE Onboarding
    <2>1. UNCHANGED faults \/ Fault
      BY <1>3 DEF Onboarding, OnboardCheck, OnboardCreate, OnboardProvision, OnboardAssign,
                  OnboardActivate, OnboardFail
    <2> QED BY <1>1, <2>1
  <1>4. CASE Retirement
    <2>1. UNCHANGED faults \/ Fault
      BY <1>4 DEF Retirement, RetireRead, RetireCommit, RetireConnectors, RetireSlots,
                  RetireNoSlots, RetireForget, RetireFail
    <2> QED BY <1>1, <2>1
  <1>5. ASSUME NEW r \in Reconcilers, Reconcile(r) \/ Abort(r)
        PROVE  UNCHANGED faults \/ Fault
    BY <1>5 DEF Reconcile, List, ReadOwners, Observe, Execute, BeginCleanup, Inspect,
                ForgetSource, Finish, Abort
  <1>6. ASSUME \/ \E n \in Names : TaskStarts(n) \/ SlotReleased(n)
               \/ \E x \in conn : TaskFails(x)
        PROVE  UNCHANGED faults \/ Fault
    BY <1>6 DEF TaskStarts, SlotReleased, TaskFails
  <1>7. CASE UNCHANGED vars
    BY <1>1, <1>7 DEF vars
  <1> QED BY <1>1, <1>2, <1>3, <1>4, <1>5, <1>6, <1>7 DEF Next

\* What a run has read are rows of sources.
LEMMA RowsRead ==
    ASSUME NEW f \in RowMaps
    PROVE  /\ DOMAIN f \subseteq Sources
           /\ \A s \in DOMAIN f : f[s] \in BoundedRow
           /\ f = [s \in DOMAIN f |-> f[s]]
  <1>1. PICK S \in SUBSET Sources : f \in [S -> BoundedRow]
    BY DEF RowMaps
  <1> QED BY <1>1

LEMMA PartOfTheRows ==
    ASSUME NEW S \in SUBSET Sources, NEW f, f = [s \in S |-> f[s]],
           \A s \in S : f[s] \in BoundedRow
    PROVE  f \in RowMaps
  <1>1. f \in [S -> BoundedRow]
    OBVIOUS
  <1> QED BY <1>1 DEF RowMaps

\* The loop over the sources has a next one.
LEMMA NextIsThere ==
    ASSUME CaptureInv, NEW r \in Reconcilers, DOMAIN rec[r].rows # {}
    PROVE  /\ NextSource(r) \in DOMAIN rec[r].rows /\ NextSource(r) \in Sources
           /\ rec[r].rows[NextSource(r)] \in BoundedRow
  <1>1. rec[r] \in RecType
    BY DEF CaptureInv
  <1>2. rec[r].rows \in RowMaps
    BY <1>1 DEF RecType
  <1>3. DOMAIN rec[r].rows \subseteq Sources
    BY <1>2, RowsRead
  <1>4. DOMAIN rec[r].rows \in SUBSET Nat
    BY <1>3, ConnectorsAssumption
  <1>5. \E s \in DOMAIN rec[r].rows : \A t \in DOMAIN rec[r].rows : s <= t
    BY <1>4, LeastNatural
  <1>6. NextSource(r) \in DOMAIN rec[r].rows
    BY <1>5 DEF NextSource
  <1> QED BY <1>2, <1>3, <1>6, RowsRead

LEMMA ChecksKeepTypes ==
    ASSUME CaptureInv, [Next]_vars
    PROVE  CheckTypes'
  <1>1. CheckTypes
    BY DEF CaptureInv
  <1>2. CASE UNCHANGED checked
    BY <1>1, <1>2 DEF CheckTypes
  <1>3. ASSUME NEW s \in Sources, CheckExpires(s)
        PROVE  CheckTypes'
    BY <1>1, <1>3 DEF CheckExpires, CheckTypes
  <1>4. ASSUME NEW r \in Reconcilers, Inspect(r)
        PROVE  CheckTypes'
    <2> DEFINE s == NextSource(r)
               key == SlotCheckKey(s, rec[r].rows[s], rec[r].kafka)
    <2>1. s \in Sources /\ rec[r].rows[s] \in BoundedRow
      BY <1>4, NextIsThere DEF Inspect
    <2>2. rec[r].rows[s].gen \in 0..MaxGen /\ rec[r].rows[s].state \in LifecycleState
      BY <2>1, RowFields
    <2>3. rec[r].rows[s].gen \in Nat
      BY <2>2, CaptureAssumption
    <2>4. key \in Nat \X BOOLEAN \X LifecycleState
      <3> DEFINE b == s \in rec[r].kafka
      <3>1. b \in BOOLEAN
        OBVIOUS
      <3>2. key = <<rec[r].rows[s].gen, b, rec[r].rows[s].state>>
        BY DEF SlotCheckKey
      <3> HIDE DEF b, key
      <3> QED BY <2>2, <2>3, <3>1, <3>2
    <2>5. UNCHANGED checked \/ checked' = [checked EXCEPT ![s] = key]
      BY <1>4 DEF Inspect
    <2> HIDE DEF key, s
    <2> QED BY <1>1, <2>1, <2>4, <2>5 DEF CheckTypes
  <1> QED BY <1>2, <1>3, <1>4, WhoWritesChecks

LEMMA ConnectKeepsTypes ==
    ASSUME CaptureInv, [Next]_vars
    PROVE  ConnectTypes'
  <1>1. conn \in Fleet /\ saved \subseteq Names /\ slots \subseteq Names /\ active \subseteq slots
    BY DEF CaptureInv, ConnectTypes
  <1>2. CASE UNCHANGED <<connect, sourcedbs>>
    BY <1>1, <1>2 DEF ConnectTypes, connect, sourcedbs
  <1>3. CASE RetireConnectors
    <2>1. conn' \subseteq conn /\ UNCHANGED <<saved, slots, active>>
      BY <1>3 DEF RetireConnectors, sourcedbs
    <2>2. conn' \in Fleet
      BY <1>1, <2>1 DEF Fleet
    <2> QED BY <1>1, <2>1, <2>2 DEF ConnectTypes
  <1>4. CASE RetireSlots
    <2>1. PICK gone \in SUBSET StaleSlots(slots, active, ret.src, {}) : slots' = slots \ gone
      BY <1>4 DEF RetireSlots
    <2>2. UNCHANGED <<conn, saved, active>>
      BY <1>4 DEF RetireSlots, connect
    <2>3. active' \subseteq slots'
      BY <1>1, <2>1, <2>2 DEF StaleSlots
    <2> QED BY <1>1, <2>1, <2>2, <2>3 DEF ConnectTypes
  <1>5. ASSUME NEW r \in Reconcilers, Inspect(r)
        PROVE  ConnectTypes'
    <2> DEFINE stale == StaleSlots(slots, active, NextSource(r), SlotsKept(NextSource(r), rec[r].want))
    <2>1. PICK gone \in SUBSET stale : slots' = slots \ gone
      <3>1. UNCHANGED slots \/ slots' = slots \ stale \/ \E gone \in SUBSET stale : slots' = slots \ gone
        BY <1>5 DEF Inspect
      <3>2. UNCHANGED slots => slots' = slots \ {}
        OBVIOUS
      <3> HIDE DEF stale
      <3> QED BY <3>1, <3>2
    <2>2. UNCHANGED <<conn, saved, active>>
      BY <1>5 DEF Inspect, connect
    <2>3. active' \subseteq slots'
      BY <1>1, <2>1, <2>2 DEF StaleSlots
    <2> QED BY <1>1, <2>1, <2>2, <2>3 DEF ConnectTypes
  <1>6. ASSUME NEW r \in Reconcilers, Execute(r)
        PROVE  ConnectTypes'
    <2>1. rec[r].plan \in Plans /\ rec[r].plan # {}
      BY <1>6 DEF Execute, CaptureInv, RecType
    <2>2. FirstOf(rec[r].plan) \in Action
      BY <2>1, PlanHasFirst DEF Plans
    <2>3. conn' = Effect(FirstOf(rec[r].plan)) \/ UNCHANGED conn
      BY <1>6 DEF Execute
    <2>4. conn' \in Fleet
      BY <1>1, <2>2, <2>3, EffectKeepsFleet
    <2>5. UNCHANGED <<saved, slots, active>>
      BY <1>6 DEF Execute, sourcedbs
    <2> QED BY <1>1, <2>4, <2>5 DEF ConnectTypes
  <1>7. ASSUME NEW n \in Names, TaskStarts(n)
        PROVE  ConnectTypes'
    BY <1>1, <1>7 DEF TaskStarts, ConnectTypes
  <1>8. ASSUME NEW n \in Names, SlotReleased(n)
        PROVE  ConnectTypes'
    BY <1>1, <1>8 DEF SlotReleased, ConnectTypes, connect
  <1>9. ASSUME NEW x \in conn, TaskFails(x)
        PROVE  ConnectTypes'
    <2>1. x \in Connector
      BY <1>1 DEF Fleet
    <2> DEFINE y == [x EXCEPT !.state = "FAILED"]
    <2>2. y \in Connector /\ y.name = x.name /\ y.cluster = x.cluster
      BY <2>1 DEF Connector
    <2>3. conn' = (conn \ {x}) \cup {y} /\ UNCHANGED <<saved, slots, active>>
      BY <1>9 DEF TaskFails, sourcedbs
    <2> HIDE DEF y
    <2>4. conn \subseteq Connector
          /\ \A u, v \in conn : u.name = v.name /\ u.cluster = v.cluster => u = v
      BY <1>1 DEF Fleet
    <2>5. conn' \subseteq Connector
      BY <2>2, <2>3, <2>4
    <2>6. ASSUME NEW u \in conn', NEW v \in conn', u.name = v.name, u.cluster = v.cluster
          PROVE  u = v
      BY <2>2, <2>3, <2>4, <2>6
    <2>7. conn' \in Fleet
      BY <2>5, <2>6 DEF Fleet
    <2> QED BY <1>1, <2>3, <2>7 DEF ConnectTypes
  <1> QED BY <1>2, <1>3, <1>4, <1>5, <1>6, <1>7, <1>8, <1>9, WhoWritesConnect

\* One run changes.
LEMMA OneRunChanges ==
    ASSUME rec \in [Reconcilers -> RecType], NEW r \in Reconcilers, NEW q \in RecType,
           rec' = [rec EXCEPT ![r] = q]
    PROVE  rec' \in [Reconcilers -> RecType]
  OBVIOUS

LEMMA RegistryRows ==
    ASSUME CaptureInv
    PROVE  \A s \in Registered(registry) : s \in Sources /\ registry[s] \in BoundedRow
  BY DEF CaptureInv, LifeInv, Bounded, Registered, Rows, BoundedRow

LEMMA ListIsRows ==
    ASSUME CaptureInv, NEW r \in Reconcilers
    PROVE  [s \in Shard[r] \cap Registered(registry) |-> registry[s]] \in RowMaps
  <1> DEFINE S == Shard[r] \cap Registered(registry)
             f == [s \in S |-> registry[s]]
  <1>1. S \in SUBSET Sources /\ \A s \in S : f[s] \in BoundedRow
    BY RegistryRows
  <1>2. f = [s \in S |-> f[s]]
    OBVIOUS
  <1> HIDE DEF S, f
  <1>3. f \in RowMaps
    BY <1>1, <1>2, PartOfTheRows
  <1> QED BY <1>3 DEF f, S

LEMMA FewerRows ==
    ASSUME NEW f \in RowMaps, NEW s
    PROVE  Without(f, s) \in RowMaps
  <1> DEFINE S == DOMAIN f \ {s}
             g == Without(f, s)
  <1>1. DOMAIN f \subseteq Sources /\ \A t \in DOMAIN f : f[t] \in BoundedRow
    BY RowsRead
  <1>2. g = [t \in S |-> f[t]]
    BY DEF Without
  <1>3. g = [t \in S |-> g[t]] /\ S \in SUBSET Sources /\ \A t \in S : g[t] \in BoundedRow
    BY <1>1, <1>2
  <1> HIDE DEF S, g
  <1>4. g \in RowMaps
    BY <1>3, PartOfTheRows
  <1> QED BY <1>4 DEF g

LEMMA RunsKeepTypes ==
    ASSUME CaptureInv, [Next]_vars
    PROVE  rec' \in [Reconcilers -> RecType]
  <1>1. rec \in [Reconcilers -> RecType]
    BY DEF CaptureInv
  <1>2. ASSUME NEW r \in Reconcilers, Reconcile(r) \/ Abort(r)
        PROVE  rec' \in [Reconcilers -> RecType]
    <2> DEFINE old == rec[r]
    <2>1. old \in RecType
      BY <1>1
    <2>2. ASSUME NEW q \in RecType, rec' = [rec EXCEPT ![r] = q]
          PROVE  rec' \in [Reconcilers -> RecType]
      BY <1>1, <2>2, OneRunChanges
    <2>3. CASE List(r)
      <3> DEFINE rows == [s \in Shard[r] \cap Registered(registry) |-> registry[s]]
                 q == [old EXCEPT !.pc = "listed", !.rows = rows]
      <3>1. rows \in RowMaps
        BY ListIsRows
      <3>2. rec' = [rec EXCEPT ![r] = q]
        BY <2>3 DEF List
      <3> HIDE DEF rows
      <3>3. q \in RecType
        BY <2>1, <3>1 DEF RecType
      <3> QED BY <2>2, <3>2, <3>3
    <2>4. CASE ReadOwners(r)
      <3> DEFINE want == DesiredConnectors(Listed(r), Kafka)
                 unknown == UnknownSources(Listed(r), Kafka)
                 mine == DOMAIN old.rows \cup {s \in Sources \ Registered(registry) : r \in First}
                 q == [old EXCEPT !.pc = "read", !.rows = NoRows, !.want = want,
                                  !.unknown = unknown, !.mine = mine]
      <3>1. old.rows \in RowMaps
        BY <2>1 DEF RecType
      <3>2. \A s \in Registered(Listed(r)) : Listed(r)[s] \in BoundedRow
        BY <3>1, RowsRead DEF Registered, Listed
      <3>3. want \in Wants
        BY <3>2, DesiredAreWants
      <3>4. unknown \in SUBSET Sources
        BY DEF UnknownSources, Candidates, Registered
      <3>5. mine \in SUBSET Sources
        BY <3>1, RowsRead
      <3>6. NoRows \in RowMaps
        BY IdleRun DEF RecIdle, RecType
      <3>7. rec' = [rec EXCEPT ![r] = q]
        BY <2>4 DEF ReadOwners
      <3> HIDE DEF want, unknown, mine
      <3>8. q \in RecType
        BY <2>1, <3>3, <3>4, <3>5, <3>6 DEF RecType
      <3> QED BY <2>2, <3>7, <3>8
    <2>5. CASE Observe(r)
      <3>1. PICK reached \in SUBSET Clusters :
              LET seen == Observed(conn, reached, rec[r].mine)
                  reachable == {d \in rec[r].want : d.cluster \in reached}
                  protected == {x.name : x \in {y \in seen : SourceOf(y.name) \in rec[r].unknown}}
              IN  rec' = [rec EXCEPT
                    ![r].pc = "act", ![r].mine = {},
                    ![r].plan = PlanActions(reachable, seen, protected),
                    ![r].met = {SourceOf(x.name) : x \in seen},
                    ![r].all = reached = Clusters]
        BY <2>5 DEF Observe
      <3> DEFINE seen == Observed(conn, reached, rec[r].mine)
                 reachable == {d \in rec[r].want : d.cluster \in reached}
                 protected == {x.name : x \in {y \in seen : SourceOf(y.name) \in rec[r].unknown}}
                 plan == PlanActions(reachable, seen, protected)
                 met == {SourceOf(x.name) : x \in seen}
                 all == reached = Clusters
                 q == [old EXCEPT !.pc = "act", !.mine = {}, !.plan = plan, !.met = met, !.all = all]
      <3>2. seen \in Fleet
        BY DEF CaptureInv, ConnectTypes, Fleet, Observed
      <3>3. reachable \in Wants
        BY <2>1 DEF RecType, Wants
      <3>4. plan \in Plans
        <4> HIDE DEF seen, reachable, protected
        <4> QED BY <3>2, <3>3, PlansAreOrdered
      <3>5. met \in SUBSET Sources
        <4> HIDE DEF seen
        <4> QED BY <3>2, ConnectorFields DEF Fleet
      <3>6. rec' = [rec EXCEPT ![r] = q]
        BY <3>1
      <3>7. all \in BOOLEAN
        OBVIOUS
      <3> HIDE DEF plan, met, all
      <3>8. q \in RecType
        BY <2>1, <3>4, <3>5, <3>7 DEF RecType
      <3> QED BY <2>2, <3>6, <3>8
    <2>6. CASE Execute(r)
      <3> DEFINE plan == old.plan \ {FirstOf(old.plan)}
                 q == [old EXCEPT !.plan = plan]
      <3>1. plan \in Plans
        BY <2>1 DEF RecType, Plans
      <3>2. rec' = [rec EXCEPT ![r] = q]
        BY <2>6 DEF Execute
      <3> HIDE DEF plan
      <3>3. q \in RecType
        BY <2>1, <3>1 DEF RecType
      <3> QED BY <2>2, <3>2, <3>3
    <2>7. CASE BeginCleanup(r)
      <3> DEFINE rows == [s \in Shard[r] \cap Registered(registry) |-> registry[s]]
                 q == [old EXCEPT !.pc = "cleanup", !.kafka = Kafka, !.rows = rows]
      <3>1. rows \in RowMaps
        BY ListIsRows
      <3>2. rec' = [rec EXCEPT ![r] = q]
        BY <2>7 DEF BeginCleanup
      <3>3. Kafka \in SUBSET Sources
        BY DEF Kafka
      <3> HIDE DEF rows
      <3>4. q \in RecType
        BY <2>1, <3>1, <3>3 DEF RecType
      <3> QED BY <2>2, <3>2, <3>4
    <2>8. CASE Inspect(r) \/ ForgetSource(r)
      <3> DEFINE rows == Without(old.rows, NextSource(r))
                 p == [old EXCEPT !.pc = "forget"]
                 q == [old EXCEPT !.rows = rows]
                 c == [old EXCEPT !.pc = "cleanup", !.rows = rows]
      <3>1. rows \in RowMaps
        BY <2>1, FewerRows DEF RecType
      <3>2. \/ rec' = [rec EXCEPT ![r] = p] \/ rec' = [rec EXCEPT ![r] = q]
            \/ rec' = [rec EXCEPT ![r] = c] \/ rec' = [rec EXCEPT ![r] = RecIdle]
        BY <2>8 DEF Inspect, ForgetSource
      <3> HIDE DEF rows
      <3>3. p \in RecType /\ q \in RecType /\ c \in RecType
        BY <2>1, <3>1 DEF RecType
      <3> QED BY <2>2, <3>2, <3>3, IdleRun
    <2>9. CASE Finish(r) \/ Abort(r)
      BY <2>2, <2>9, IdleRun DEF Finish, Abort
    <2> QED BY <1>2, <2>3, <2>4, <2>5, <2>6, <2>7, <2>8, <2>9 DEF Reconcile
  <1> QED BY <1>1, <1>2, WhoWritesRuns

LEMMA ToolsKeepTypes ==
    ASSUME CaptureInv, [Next]_vars
    PROVE  ToolTypes'
  <1>1. ToolTypes /\ LifeInv
    BY DEF CaptureInv
  <1> USE DEF ToolTypes, OnbIdle, RetIdle
  <1>2. CASE UNCHANGED <<onb, ret>>
    BY <1>1, <1>2
  <1>3. CASE Onboarding
    BY <1>1, <1>3 DEF LifeInv, Onboarding, OnboardCheck, OnboardCreate, OnboardProvision,
                      OnboardAssign, OnboardActivate, OnboardFail
  <1>4. CASE Retirement
    <2>1. ASSUME NEW s \in Sources, NEW forget \in BOOLEAN, RetireRead(s, forget)
          PROVE  ToolTypes'
      BY <1>1, <2>1 DEF LifeInv, RetireRead
    <2>2. CASE RetireCommit \/ RetireNoSlots \/ RetireForget \/ RetireFail
      BY <1>1, <2>2 DEF LifeInv, RetireCommit, RetireNoSlots, RetireForget, RetireFail, Rows
    <2>3. CASE RetireConnectors
      BY <1>1, <2>3 DEF LifeInv, RetireConnectors
    <2>4. CASE RetireSlots
      BY <1>1, <2>4 DEF LifeInv, RetireSlots
    <2> QED BY <1>4, <2>1, <2>2, <2>3, <2>4 DEF Retirement
  <1>5. ASSUME NEW s \in Sources, Operator(s) \/ CheckExpires(s)
        PROVE  UNCHANGED <<onb, ret>>
    BY <1>5 DEF Operator, EnsureEnvSource, Register, Upsert, SetLifecycle, Bump, MoveFlag,
                CheckExpires, procs
  <1>6. ASSUME NEW r \in Reconcilers, Reconcile(r) \/ Abort(r)
        PROVE  UNCHANGED <<onb, ret>>
    BY <1>6 DEF Reconcile, List, ReadOwners, Observe, Execute, BeginCleanup, Inspect,
                ForgetSource, Finish, Abort
  <1>7. ASSUME \/ \E n \in Names : TaskStarts(n) \/ SlotReleased(n)
               \/ \E x \in conn : TaskFails(x)
        PROVE  UNCHANGED <<onb, ret>>
    BY <1>7 DEF TaskStarts, SlotReleased, TaskFails, procs
  <1>8. CASE UNCHANGED vars
    BY <1>2, <1>8 DEF vars, procs
  <1> QED BY <1>2, <1>3, <1>4, <1>5, <1>6, <1>7, <1>8 DEF Next

\* Who writes the registry, and who the flags.
LEMMA WhoWritesRows ==
    ASSUME [Next]_vars
    PROVE  \/ UNCHANGED <<registry, flag, floor, ret>>
           \/ \E s \in Sources : Operator(s)
           \/ Onboarding \/ Retirement
           \/ \E r \in Reconcilers : ForgetSource(r)
  <1>1. ASSUME NEW s \in Sources, CheckExpires(s)
        PROVE  UNCHANGED <<registry, flag, floor, ret>>
    BY <1>1 DEF CheckExpires, procs
  <1>2. ASSUME NEW r \in Reconcilers, Reconcile(r) \/ Abort(r), ~ForgetSource(r)
        PROVE  UNCHANGED <<registry, flag, floor, ret>>
    BY <1>2 DEF Reconcile, List, ReadOwners, Observe, Execute, BeginCleanup, Inspect, Finish,
                Abort, warehouse
  <1>3. ASSUME \/ \E n \in Names : TaskStarts(n) \/ SlotReleased(n)
               \/ \E x \in conn : TaskFails(x)
        PROVE  UNCHANGED <<registry, flag, floor, ret>>
    BY <1>3 DEF TaskStarts, SlotReleased, TaskFails, warehouse, procs
  <1>4. CASE UNCHANGED vars
    BY <1>4 DEF vars, warehouse, procs
  <1> QED BY <1>1, <1>2, <1>3, <1>4 DEF Next

\* A row may be replaced by one with a bounded generation.
LEMMA RowStaysBounded ==
    ASSUME CaptureInv, NEW s \in Sources, NEW x, x = Unregistered \/ x.gen <= MaxGen,
           registry' = [registry EXCEPT ![s] = x], UNCHANGED floor,
           UNCHANGED ret \/ ret' = RetIdle
    PROVE  Bounded'
  BY DEF CaptureInv, LifeInv, Bounded, RetIdle

LEMMA OperatorStaysBounded ==
    ASSUME CaptureInv, NEW s \in Sources, Operator(s)
    PROVE  Bounded'
  <1>1. UNCHANGED <<floor, ret>>
    BY DEF Operator, EnsureEnvSource, Register, Upsert, SetLifecycle, Bump, MoveFlag, procs
  <1>2. registry \in [Sources -> Rows] /\ floor \in [Sources -> Nat]
    BY DEF CaptureInv, LifeInv
  <1>3. registry[s] # Unregistered => registry[s] \in SourceRecord /\ registry[s].gen <= MaxGen
    BY <1>2 DEF CaptureInv, Bounded, Rows
  <1>4. ASSUME NEW config, NEW cluster, NEW forget, Upsert(s, config, cluster, forget)
        PROVE  Bounded'
    <2> DEFINE new == [state |-> "ACTIVE", gen |-> FirstGeneration(s), cluster |-> cluster,
                       config |-> config, forget |-> FALSE]
               kept == [registry[s] EXCEPT !.config = config, !.cluster = cluster,
                                           !.forget = forget]
               x == IF registry[s] = Unregistered THEN new ELSE kept
    <2>1. new.gen <= MaxGen
      BY DEF FirstGeneration, CaptureInv, Bounded
    <2>2. registry[s] # Unregistered => kept.gen <= MaxGen
      BY <1>3 DEF SourceRecord
    <2>3. registry' = [registry EXCEPT ![s] = x]
      BY <1>4 DEF Upsert
    <2>4. x.gen <= MaxGen
      BY <2>1, <2>2
    <2> HIDE DEF x
    <2> QED BY <1>1, <2>3, <2>4, RowStaysBounded
  <1>5. ASSUME NEW to, SetLifecycle(s, to)
        PROVE  Bounded'
    <2> DEFINE x == [registry[s] EXCEPT !.state = to]
    <2>1. registry' = [registry EXCEPT ![s] = x] /\ registry[s] # Unregistered
      BY <1>5 DEF SetLifecycle, Registered
    <2>2. x.gen <= MaxGen
      BY <1>3, <2>1 DEF SourceRecord
    <2> HIDE DEF x
    <2> QED BY <1>1, <2>1, <2>2, RowStaysBounded
  <1>6. ASSUME registry[s] # Unregistered, registry[s].gen < MaxGen,
               registry' = [registry EXCEPT ![s].gen = @ + 1]
        PROVE  Bounded'
    <2> DEFINE x == [registry[s] EXCEPT !.gen = @ + 1]
    <2>1. registry' = [registry EXCEPT ![s] = x]
      BY <1>6
    <2>2. registry[s].gen \in Nat /\ x.gen = registry[s].gen + 1
      BY <1>3, <1>6 DEF SourceRecord
    <2>3. x.gen <= MaxGen
      BY <1>6, <2>2, CaptureAssumption
    <2> HIDE DEF x
    <2> QED BY <1>1, <2>1, <2>3, RowStaysBounded
  <1>7. CASE Bump(s)
    BY <1>6, <1>7 DEF Bump, Registered
  <1>8. ASSUME NEW kind, MoveFlag(s, kind)
        PROVE  Bounded'
    <2>1. registry[s] # Unregistered
      BY <1>8 DEF MoveFlag, CaptureInv, LifeInv
    <2>2. CASE registry' = registry
      BY <1>1, <2>2 DEF CaptureInv, Bounded
    <2>3. CASE registry[s].gen < MaxGen /\ registry' = [registry EXCEPT ![s].gen = @ + 1]
      BY <1>6, <2>1, <2>3
    <2> QED BY <1>8, <2>2, <2>3 DEF MoveFlag
  <1> QED BY <1>4, <1>5, <1>7, <1>8 DEF Operator, EnsureEnvSource, Register

LEMMA StaysBounded ==
    ASSUME CaptureInv, [Next]_vars
    PROVE  Bounded'
  <1>1. registry \in [Sources -> Rows] /\ floor \in [Sources -> Nat] /\ Bounded
    BY DEF CaptureInv, LifeInv
  <1>2. \A s \in Sources : registry[s] # Unregistered =>
            registry[s] \in SourceRecord /\ registry[s].gen <= MaxGen
    BY <1>1 DEF Bounded, Rows
  <1>3. CASE UNCHANGED <<registry, flag, floor, ret>>
    BY <1>1, <1>3 DEF Bounded
  <1>4. ASSUME NEW s, DeleteRow(s), UNCHANGED floor, UNCHANGED ret \/ ret' = RetIdle
        PROVE  Bounded'
    <2>1. registry' = [registry EXCEPT ![s] = Unregistered]
      BY <1>4 DEF DeleteRow
    <2>2. CASE s \in Sources
      BY <1>4, <2>1, <2>2, RowStaysBounded
    <2>3. CASE s \notin Sources
      BY <1>1, <1>4, <2>1, <2>3 DEF Bounded, RetIdle
    <2> QED BY <2>2, <2>3
  <1>5. ASSUME NEW r \in Reconcilers, ForgetSource(r)
        PROVE  Bounded'
    BY <1>1, <1>4, <1>5 DEF ForgetSource, Bounded
  <1>6. CASE Onboarding
    <2>1. UNCHANGED <<floor, ret>>
      BY <1>6 DEF Onboarding, OnboardCheck, OnboardCreate, OnboardProvision, OnboardAssign,
                  OnboardActivate, OnboardFail, warehouse
    <2>2. CASE UNCHANGED registry
      BY <1>1, <2>1, <2>2 DEF Bounded
    <2>3. CASE OnboardCreate
      <3>1. onb.src \in Sources
        BY <2>3 DEF OnboardCreate, CaptureInv, LifeInv
      <3>2. PICK config, cluster : registry' = [registry EXCEPT ![onb.src] =
               [state |-> "REQUESTED", gen |-> 0, cluster |-> cluster, config |-> config,
                forget |-> FALSE]]
        BY <2>3 DEF OnboardCreate
      <3> DEFINE x == [state |-> "REQUESTED", gen |-> 0, cluster |-> cluster,
                       config |-> config, forget |-> FALSE]
      <3>3. x.gen <= MaxGen /\ registry' = [registry EXCEPT ![onb.src] = x]
        BY <3>2, CaptureAssumption
      <3> HIDE DEF x
      <3> QED BY <2>1, <3>1, <3>3, RowStaysBounded
    <2>4. CASE OnboardProvision \/ OnboardActivate
      <3>1. PICK to : registry' = [registry EXCEPT ![onb.src] = [registry[onb.src] EXCEPT !.state = to]]
        BY <2>4 DEF OnboardProvision, OnboardActivate
      <3>2. onb.src \in Sources /\ registry[onb.src] # Unregistered
        BY <2>4 DEF OnboardProvision, OnboardActivate, Registered
      <3> DEFINE x == [registry[onb.src] EXCEPT !.state = to]
      <3>3. x.gen <= MaxGen /\ registry' = [registry EXCEPT ![onb.src] = x]
        BY <1>2, <3>1, <3>2 DEF SourceRecord
      <3> HIDE DEF x
      <3> QED BY <2>1, <3>2, <3>3, RowStaysBounded
    <2> QED BY <1>6, <2>2, <2>3, <2>4 DEF Onboarding, OnboardCheck, OnboardAssign, OnboardFail,
                                         warehouse
  <1>7. CASE Retirement
    <2>1. ASSUME NEW s \in Sources, NEW forget \in BOOLEAN, RetireRead(s, forget)
          PROVE  Bounded'
      BY <1>1, <2>1 DEF RetireRead, Bounded, warehouse
    <2>2. CASE RetireCommit
      <3>1. ret.src \in Sources /\ ret.row \in SourceRecord /\ ret.row.gen < MaxGen
        BY <2>2 DEF RetireCommit, CaptureInv, LifeInv, Bounded
      <3>2. ret.row.gen \in Nat /\ ret.row.gen + 1 <= MaxGen
        BY <3>1, CaptureAssumption DEF SourceRecord
      <3>3. \A s \in Sources : floor'[s] <= MaxGen
        <4>1. floor' = [floor EXCEPT ![ret.src] =
                          IF @ > ret.row.gen + 1 THEN @ ELSE ret.row.gen + 1]
          BY <2>2 DEF RetireCommit
        <4> QED BY <1>1, <3>2, <4>1 DEF Bounded
      <3>4. PICK to : registry' = [registry EXCEPT ![ret.src] = [registry[ret.src] EXCEPT !.state = to]]
                      /\ (to = registry[ret.src].state \/ registry[ret.src] # Unregistered)
        <4> DEFINE to == IF ret.row.state = "RETIRED" THEN registry[ret.src].state ELSE "RETIRED"
        <4>1. registry' = [registry EXCEPT ![ret.src] = [registry[ret.src] EXCEPT !.state = to]]
          BY <2>2 DEF RetireCommit
        <4>2. ret.row.state # "RETIRED" => registry[ret.src] # Unregistered
          BY <2>2 DEF RetireCommit, RetireAllowed, LifecyclePath, Registered
        <4> QED BY <4>1, <4>2
      <3> DEFINE x == [registry[ret.src] EXCEPT !.state = to]
      <3>5. x = Unregistered \/ x.gen <= MaxGen
        <4>1. CASE registry[ret.src] = Unregistered
          BY <3>4, <4>1 DEF Unregistered
        <4>2. CASE registry[ret.src] # Unregistered
          BY <1>2, <3>1, <4>2 DEF SourceRecord
        <4> QED BY <4>1, <4>2
      <3>6. \A s \in Sources : registry'[s] # Unregistered => registry'[s].gen <= MaxGen
        <4>1. registry' = [registry EXCEPT ![ret.src] = x]
          BY <3>4
        <4> HIDE DEF x
        <4> QED BY <1>1, <1>2, <3>1, <3>5, <4>1
      <3>7. ret'.row = ret.row
        BY <2>2 DEF RetireCommit, CaptureInv, LifeInv, RetIdle
      <3> QED BY <3>1, <3>3, <3>6, <3>7 DEF Bounded
    <2>3. CASE RetireConnectors \/ RetireSlots \/ RetireNoSlots
      <3>1. UNCHANGED <<registry, floor>> /\ ret.pc # "idle"
        BY <2>3 DEF RetireConnectors, RetireSlots, RetireNoSlots, warehouse
      <3>2. ret'.row = ret.row
        <4>1. CASE RetireConnectors
          BY <4>1 DEF RetireConnectors, CaptureInv, LifeInv, RetIdle
        <4>2. CASE RetireSlots
          BY <4>2 DEF RetireSlots, CaptureInv, LifeInv, RetIdle
        <4>3. CASE RetireNoSlots
          BY <4>3 DEF RetireNoSlots, CaptureInv, LifeInv, RetIdle
        <4> QED BY <2>3, <4>1, <4>2, <4>3
      <3> QED BY <1>1, <3>1, <3>2 DEF Bounded
    <2>4. CASE RetireFail
      BY <1>1, <2>4 DEF RetireFail, Bounded, warehouse, RetIdle
    <2>5. CASE RetireForget
      <3>1. UNCHANGED floor /\ ret' = RetIdle /\ ret.src \in Sources
        BY <2>5 DEF RetireForget, CaptureInv, LifeInv
      <3>2. CASE UNCHANGED registry
        BY <1>1, <3>1, <3>2 DEF Bounded, RetIdle
      <3>3. CASE DeleteRow(ret.src)
        BY <1>4, <3>1, <3>3
      <3>4. CASE registry' = [registry EXCEPT ![ret.src] =
                                IF @ = Unregistered THEN @ ELSE [@ EXCEPT !.forget = TRUE]]
        <4> DEFINE x == IF registry[ret.src] = Unregistered THEN Unregistered
                        ELSE [registry[ret.src] EXCEPT !.forget = TRUE]
        <4>1. x = Unregistered \/ x.gen <= MaxGen
          BY <1>2, <3>1 DEF SourceRecord
        <4>2. registry' = [registry EXCEPT ![ret.src] = x]
          BY <3>4
        <4> HIDE DEF x
        <4> QED BY <3>1, <4>1, <4>2, RowStaysBounded
      <3> QED BY <2>5, <3>2, <3>3, <3>4 DEF RetireForget
    <2> QED BY <1>7, <2>1, <2>2, <2>3, <2>4, <2>5 DEF Retirement
  <1> QED BY <1>3, <1>5, <1>6, <1>7, WhoWritesRows, OperatorStaysBounded

LEMMA FreshFlag ==
    /\ FreshRow \in Flags
    /\ \A b \in BOOLEAN : [FreshRow EXCEPT !.everOwned = b] \in Flags
  BY DEF FreshRow, Flags, OwnershipRow, CutoverState, Engine

\* An accepted request returns a row; its epoch is not kept.
LEMMA AssignedFlag ==
    ASSUME NEW o \in Flags, NEW e \in Engine
    PROVE  WithoutEpoch([o EXCEPT !.engine = e, !.state = "STEADY", !.epoch = @ + 1]) \in Flags
  BY DEF WithoutEpoch, Flags, OwnershipRow, CutoverState

LEMMA MovedFlag ==
    ASSUME NEW o \in Flags, NEW kind, NEW new \in Moved(o, kind)
    PROVE  WithoutEpoch(new) \in Flags
  <1>1. CASE kind = "assign"
    <2>1. PICK e \in Writers : new = Assign(o, e)
      BY <1>1 DEF Moved
    <2> QED BY <2>1, AssignedFlag DEF Assign, Engine
  <1>2. CASE kind = "force_assign"
    <2>1. PICK e \in Engine : new = ForceAssign(o, e)
      BY <1>2 DEF Moved
    <2> QED BY <2>1, AssignedFlag DEF ForceAssign
  <1>3. CASE kind = "start_shadow"
    <2>1. PICK e \in Writers : new = StartShadow(o, e, NoOne)
      BY <1>3 DEF Moved
    <2> QED BY <2>1 DEF StartShadow, WithoutEpoch, Flags, OwnershipRow, CutoverState, ShadowState
  <1>4. CASE kind = "cutover"
    <2>1. new = Cutover(o) /\ HasShadow(o)
      BY <1>4 DEF Moved
    <2>2. o.shadow \in Engine
      BY <2>1 DEF HasShadow, Flags, OwnershipRow, Engine
    <2> QED BY <2>1, <2>2 DEF Cutover, WithoutEpoch, Flags, OwnershipRow, CutoverState
  <1>5. CASE kind = "abort_shadow"
    <2>1. new = AbortShadow(o)
      BY <1>5 DEF Moved
    <2> QED BY <2>1 DEF AbortShadow, WithoutEpoch, Flags, OwnershipRow, CutoverState
  <1> QED BY <1>1, <1>2, <1>3, <1>4, <1>5 DEF Moved

LEMMA FlagsKeepTypes ==
    ASSUME CaptureInv, [Next]_vars
    PROVE  FlagTypes'
  <1>1. FlagTypes /\ flag = [s \in Sources |-> flag[s]]
    BY DEF CaptureInv, LifeInv
  <1>2. CASE UNCHANGED flag
    BY <1>1, <1>2 DEF FlagTypes
  <1>3. ASSUME NEW s, NEW o \in Flags \cup {NoFlag}, flag' = [flag EXCEPT ![s] = o]
        PROVE  FlagTypes'
    BY <1>1, <1>3 DEF FlagTypes
  <1>4. ASSUME NEW s, flag' = [flag EXCEPT ![s] = IF @ = NoFlag THEN FreshRow ELSE @]
        PROVE  FlagTypes'
    <2>1. CASE s \notin Sources
      BY <1>1, <1>2, <1>4, <2>1
    <2>2. CASE s \in Sources
      <3> DEFINE o == IF flag[s] = NoFlag THEN FreshRow ELSE flag[s]
      <3>1. o \in Flags \cup {NoFlag}
        BY <1>1, <2>2, FreshFlag DEF FlagTypes
      <3>2. flag' = [flag EXCEPT ![s] = o]
        BY <1>4
      <3> HIDE DEF o
      <3> QED BY <1>3, <3>1, <3>2
    <2> QED BY <2>1, <2>2
  <1>5. ASSUME NEW s, DeleteRow(s)
        PROVE  FlagTypes'
    BY <1>3, <1>5 DEF DeleteRow
  <1>6. ASSUME NEW s \in Sources, Operator(s)
        PROVE  FlagTypes'
    <2>1. ASSUME NEW kind \in Requestable, MoveFlag(s, kind)
          PROVE  FlagTypes'
      <3>1. flag[s] \in Flags
        BY <1>1, <2>1 DEF MoveFlag, FlagTypes
      <3>2. PICK new \in Moved(flag[s], kind) : flag' = [flag EXCEPT ![s] = WithoutEpoch(new)]
        BY <2>1 DEF MoveFlag
      <3>3. WithoutEpoch(new) \in Flags
        BY <3>1, <3>2, MovedFlag
      <3> QED BY <1>3, <3>2, <3>3
    <2>2. ASSUME NEW to \in LifecycleTargets, SetLifecycle(s, to)
          PROVE  FlagTypes'
      BY <1>2, <2>2 DEF SetLifecycle
    <2>3. CASE Bump(s)
      BY <1>2, <2>3 DEF Bump
    <2>4. ASSUME NEW config, NEW cluster, NEW forget, Upsert(s, config, cluster, forget)
          PROVE  FlagTypes'
      BY <1>4, <2>4 DEF Upsert
    <2> QED BY <1>6, <2>1, <2>2, <2>3, <2>4 DEF Operator, EnsureEnvSource, Register
  <1>7. CASE Onboarding
    <2>1. CASE OnboardProvision
      BY <1>4, <2>1 DEF OnboardProvision
    <2>2. CASE OnboardAssign
      <3>1. PICK e \in Writers : flag' = [flag EXCEPT ![onb.src] =
                                   IF @.engine # "NONE" THEN @ ELSE WithoutEpoch(Assign(@, e))]
        BY <2>2 DEF OnboardAssign
      <3> DEFINE o == IF flag[onb.src].engine # "NONE" THEN flag[onb.src]
                      ELSE WithoutEpoch(Assign(flag[onb.src], e))
      <3>2. flag[onb.src] \in Flags \cup {NoFlag}
        BY <1>1, <2>2 DEF FlagTypes, OnboardAssign, CaptureInv, LifeInv
      <3>3. flag[onb.src].engine = "NONE" => flag[onb.src] \in Flags
        BY <3>2 DEF NoFlag
      <3>4. o \in Flags \cup {NoFlag}
        BY <3>2, <3>3, AssignedFlag DEF Assign, Engine
      <3>5. flag' = [flag EXCEPT ![onb.src] = o]
        BY <3>1
      <3> HIDE DEF o
      <3> QED BY <1>3, <3>4, <3>5
    <2> QED BY <1>2, <1>7, <2>1, <2>2
            DEF Onboarding, OnboardCheck, OnboardCreate, OnboardActivate, OnboardFail, warehouse
  <1>8. CASE Retirement
    <2>1. CASE RetireCommit
      <3> DEFINE o == IF flag[ret.src] = NoFlag THEN flag[ret.src]
                      ELSE [FreshRow EXCEPT !.everOwned = flag[ret.src].everOwned]
      <3>1. flag[ret.src] \in Flags \cup {NoFlag}
        BY <1>1, <2>1 DEF FlagTypes, RetireCommit, CaptureInv, LifeInv
      <3>2. flag[ret.src] \in Flags => flag[ret.src].everOwned \in BOOLEAN
        BY DEF Flags, OwnershipRow
      <3>3. o \in Flags \cup {NoFlag}
        BY <3>1, <3>2, FreshFlag
      <3>4. flag' = [flag EXCEPT ![ret.src] = o]
        BY <2>1 DEF RetireCommit
      <3> HIDE DEF o
      <3> QED BY <1>3, <3>3, <3>4
    <2>2. CASE RetireForget
      BY <1>2, <1>5, <2>2 DEF RetireForget
    <2> QED BY <1>2, <1>8, <2>1, <2>2
            DEF Retirement, RetireRead, RetireConnectors, RetireSlots, RetireNoSlots, RetireFail,
                warehouse
  <1>9. ASSUME NEW r \in Reconcilers, ForgetSource(r)
        PROVE  FlagTypes'
    BY <1>2, <1>5, <1>9 DEF ForgetSource
  <1> QED BY <1>2, <1>6, <1>7, <1>8, <1>9, WhoWritesRows

LEMMA CaptureInvIsInductive == CaptureInv /\ [Next]_vars => CaptureInv'
  BY LifeInvIsInductive, StaysBounded, FlagsKeepTypes, ChecksKeepTypes, ConnectKeepsTypes,
     RunsKeepTypes, ToolsKeepTypes, FaultsAreCounted
     DEF CaptureInv

LEMMA CaptureInvHasTypes == CaptureInv => TypeOK
  <1> SUFFICES ASSUME CaptureInv PROVE TypeOK
    OBVIOUS
  <1>1. /\ registry \in [Sources -> Rows] /\ floor \in [Sources -> Nat]
        /\ \A s \in Registered(registry) : registry[s].gen <= MaxGen
    BY DEF CaptureInv, LifeInv, Bounded, Registered
  <1>2. \A s \in Sources : flag[s] \in OwnershipRow({}, {}) \cup {NoFlag}
    BY DEF CaptureInv, FlagTypes, Flags
  <1>3. \A s \in Sources : checked[s] = Due \/ checked[s] \in Nat \X BOOLEAN \X LifecycleState
    BY DEF CaptureInv, CheckTypes
  <1>4. /\ conn \subseteq Connector
        /\ \A x, y \in conn : x.name = y.name /\ x.cluster = y.cluster => x = y
        /\ saved \subseteq Names /\ slots \subseteq Names /\ active \subseteq slots
    BY DEF CaptureInv, ConnectTypes, Fleet
  <1>5. ASSUME NEW r \in Reconcilers
        PROVE  /\ rec[r].pc \in {"idle", "listed", "read", "act", "cleanup", "forget"}
               /\ rec[r].want \subseteq Desired /\ rec[r].plan \subseteq Action
               /\ DOMAIN rec[r].rows \subseteq Sources
               /\ rec[r].mine \cup rec[r].met \cup rec[r].kafka \cup rec[r].unknown \subseteq Sources
    <2>1. rec[r] \in RecType
      BY DEF CaptureInv
    <2>2. rec[r].rows \in RowMaps /\ rec[r].want \in Wants /\ rec[r].plan \in Plans
      BY <2>1 DEF RecType
    <2>3. DOMAIN rec[r].rows \subseteq Sources
      BY <2>2, RowsRead
    <2>4. rec[r].want \subseteq Desired /\ rec[r].plan \subseteq Action
      BY <2>2 DEF Wants, Plans
    <2> QED BY <2>1, <2>3, <2>4 DEF RecType
  <1>6. ToolTypes /\ faults \in 0..MaxFaults
    BY DEF CaptureInv
  <1> QED BY <1>1, <1>2, <1>3, <1>4, <1>5, <1>6 DEF TypeOK, ToolTypes

\* TypeOK: rows, flags, connectors, slots and what the processes carry have
\* their types, generations stay in bounds, no two connectors of a cluster
\* share a name, and no slot that something reads is ever dropped (stale_slots).
THEOREM CaptureTypes == Spec => []TypeOK
  BY InitHasCaptureInv, CaptureInvIsInductive, CaptureInvHasTypes, PTL DEF Spec

-----------------------------------------------------------------------------
(***************************************************************************)
(* FreshGenerations.  What may still become a position that Connect keeps  *)
(* is spread over the processes: a row a run has listed, what it wants,    *)
(* its plan, a connector.  Each such trace must be older than the          *)
(* generation the source returns with, so the invariant relates all of     *)
(* them to the row while there is one, and to the floor once the source is *)
(* about to be forgotten.                                                  *)
(***************************************************************************)

Captured(x) == x.state \in RunningStates \cup {"PAUSED"}

\* Run q may still create the connector n.
RunTrace(q, n) ==
    \/ \E d \in q.want : d.config.slot = n
    \/ \E a \in q.plan : a.config.slot = n
    \/ /\ q.pc = "listed"
       /\ \E s \in DOMAIN q.rows : Captured(q.rows[s]) /\ n = Name(s, q.rows[s].gen)

\* Connect has a position for n, or may still come to have one.
Trace(n) ==
    \/ n \in saved
    \/ \E x \in conn : x.config.slot = n
    \/ \E r \in Reconcilers : RunTrace(rec[r], n)

\* The floor is above everything there is or will be of s.
Settled(s) == \A n \in Names : SourceOf(n) = s /\ Trace(n) => n[2] < floor[s]

Tombstone(x) == x.state = "RETIRED" /\ x.forget

(***************************************************************************)
(* The hypotheses: Shard gives a source to one run at a time; a source     *)
(* that onboarding creates was not retired before (create ignores the      *)
(* floor: run CaptureReturn); only retired rows carry the label at first;  *)
(* and no bump comes between what retire_source reads and its transaction. *)
(***************************************************************************)
DisjointShards == \A q, r \in Reconcilers : q # r => Shard[q] \cap Shard[r] = {}

OnboardedOnce == \A s \in Sources : ~({"onboard", "retire"} \subseteq Requests[s])

LabelledAreRetired ==
    \A fleet \in Fleets, s \in Sources :
        fleet[s].row # Unregistered /\ fleet[s].row.forget => fleet[s].row.state = "RETIRED"

RetiresWhatItRead ==
    ret.pc = "read" /\ registry[ret.src] # Unregistered => registry[ret.src].gen <= ret.row.gen

\* No trace is ahead of its row.
TracesAreOld ==
    \A n \in Names : Trace(n) /\ registry[SourceOf(n)] # Unregistered =>
                       n[2] <= registry[SourceOf(n)].gen

\* What is forgotten, or may be, is settled.
ForgottenIsSettled ==
    \A s \in Sources :
        /\ registry[s] = Unregistered => Settled(s)
        /\ registry[s] # Unregistered /\ registry[s].forget =>
             registry[s].state = "RETIRED" /\ Settled(s)
        /\ "retire" \notin Requests[s] => floor[s] = 0

RetirementSettles ==
    /\ ret.pc # "idle" => "retire" \in Requests[ret.src]
    /\ ret.pc \in {"connectors", "slots", "forget"} => Settled(ret.src)
    /\ ret.pc # "idle" /\ (ret.pc = "read" => ret.row.state = "RETIRED") =>
         registry[ret.src] = Unregistered \/ registry[ret.src].state = "RETIRED"
    /\ onb.pc # "idle" => "onboard" \in Requests[onb.src]

\* A run forgets tombstones, as they were when it read them.
RunsForgetTombstones ==
    \A r \in Reconcilers :
        /\ DOMAIN rec[r].rows \subseteq Shard[r]
        /\ rec[r].pc \in {"cleanup", "forget"} =>
             \A s \in DOMAIN rec[r].rows : Tombstone(rec[r].rows[s]) => Settled(s)
        /\ rec[r].pc = "forget" =>
             /\ NextSource(r) \in DOMAIN rec[r].rows
             /\ Tombstone(rec[r].rows[NextSource(r)])

FreshInv ==
    /\ CaptureInv
    /\ TracesAreOld
    /\ ForgottenIsSettled
    /\ RetirementSettles
    /\ RunsForgetTombstones

\* A step leaves no trace of a source but where a run lists a captured row.
Lists(r, n) ==
    /\ List(r)
    /\ SourceOf(n) \in Shard[r] \cap Registered(registry)
    /\ Captured(registry[SourceOf(n)])
    /\ n[2] = registry[SourceOf(n)].gen

LEMMA EffectConfigs ==
    ASSUME conn \in Fleet, NEW a, NEW x \in Effect(a), a.kind \in DOMAIN Rank
    PROVE  x.config = a.config \/ \E y \in conn : x.config = y.config
  <1>1. \A y \in At(a) : y \in conn /\ y \in Connector
    BY DEF At, Fleet
  <1>2. \A y \in At(a) : DOMAIN y = {"name", "cluster", "config", "state"}
    BY <1>1 DEF Connector
  <1>3. CASE x \in conn \ At(a)
    BY <1>3
  <1>4. CASE x \notin conn \ At(a)
    <2>1. \/ x = [name |-> a.name, cluster |-> a.cluster, config |-> a.config, state |-> "RUNNING"]
          \/ \E y \in At(a) : x = [y EXCEPT !.config = a.config]
          \/ \E y \in At(a) : x = [y EXCEPT !.state = "PAUSED"]
          \/ \E y \in At(a) : x = [y EXCEPT !.state = "RUNNING"]
          \/ \E y \in At(a) : x = [y EXCEPT !.state = IF @ = "FAILED" THEN "RUNNING" ELSE @]
      BY <1>4 DEF Effect, Rank
    <2> QED BY <1>1, <1>2, <2>1
  <1> QED BY <1>3, <1>4

LEMMA RunTraces ==
    ASSUME CaptureInv, NEW r \in Reconcilers, Reconcile(r) \/ Abort(r), NEW n \in Names,
           RunTrace(rec'[r], n)
    PROVE  \/ RunTrace(rec[r], n)
           \/ \E x \in conn : x.config.slot = n
           \/ Lists(r, n)
  <1> DEFINE old == rec[r]
  <1>1. old \in RecType /\ rec \in [Reconcilers -> RecType]
    BY DEF CaptureInv
  <1>2. DOMAIN old = {"pc", "rows", "want", "unknown", "mine", "plan", "met", "all", "kafka"}
    BY <1>1 DEF RecType
  <1>3. CASE List(r)
    <2>1. /\ rec'[r].want = old.want /\ rec'[r].plan = old.plan
          /\ rec'[r].rows = [s \in Shard[r] \cap Registered(registry) |-> registry[s]]
      BY <1>1, <1>2, <1>3 DEF List
    <2>2. CASE \E s \in DOMAIN rec'[r].rows : Captured(rec'[r].rows[s]) /\ n = Name(s, rec'[r].rows[s].gen)
      <3>1. PICK s \in Shard[r] \cap Registered(registry) :
              Captured(registry[s]) /\ n = Name(s, registry[s].gen)
        BY <2>1, <2>2
      <3>2. SourceOf(n) = s /\ n[2] = registry[s].gen
        BY <3>1 DEF Name, SourceOf
      <3> QED BY <1>3, <3>1, <3>2 DEF Lists
    <2>3. CASE (\E d \in old.want : d.config.slot = n) \/ (\E a \in old.plan : a.config.slot = n)
      BY <2>3 DEF RunTrace
    <2> QED BY <2>1, <2>2, <2>3 DEF RunTrace
  <1>4. CASE ReadOwners(r)
    <2>1. /\ rec'[r].want = DesiredConnectors(Listed(r), Kafka) /\ rec'[r].plan = old.plan
          /\ rec'[r].pc # "listed" /\ old.pc = "listed"
      BY <1>1, <1>2, <1>4 DEF ReadOwners
    <2>2. CASE \E d \in DesiredConnectors(Listed(r), Kafka) : d.config.slot = n
      <3>1. PICK s \in Candidates(Listed(r), Kafka) : n = Name(s, Listed(r)[s].gen)
        BY <2>2 DEF DesiredConnectors, BuildConnectorConfig
      <3>2. /\ s \in Sources /\ Listed(r)[s] # Unregistered /\ Captured(Listed(r)[s])
        BY <3>1 DEF Candidates, Registered, Captured
      <3>3. s \in DOMAIN old.rows /\ Listed(r)[s] = old.rows[s]
        BY <3>2 DEF Listed
      <3> QED BY <2>1, <3>1, <3>2, <3>3 DEF RunTrace
    <2> QED BY <2>1, <2>2 DEF RunTrace
  <1>5. CASE Observe(r)
    <2>1. PICK D, O, protected :
            /\ D \subseteq old.want /\ O \subseteq conn
            /\ rec'[r].plan = PlanActions(D, O, protected)
            /\ rec'[r].want = old.want /\ rec'[r].pc # "listed"
      <3>1. PICK reached \in SUBSET Clusters :
              LET seen == Observed(conn, reached, rec[r].mine)
                  reachable == {d \in rec[r].want : d.cluster \in reached}
                  protected == {x.name : x \in {y \in seen : SourceOf(y.name) \in rec[r].unknown}}
              IN  rec' = [rec EXCEPT
                    ![r].pc = "act", ![r].mine = {},
                    ![r].plan = PlanActions(reachable, seen, protected),
                    ![r].met = {SourceOf(x.name) : x \in seen},
                    ![r].all = reached = Clusters]
        BY <1>5 DEF Observe
      <3> DEFINE seen == Observed(conn, reached, rec[r].mine)
                 reachable == {d \in rec[r].want : d.cluster \in reached}
                 protected == {x.name : x \in {y \in seen : SourceOf(y.name) \in rec[r].unknown}}
                 plan == PlanActions(reachable, seen, protected)
      <3>2. rec'[r].plan = plan /\ rec'[r].want = old.want /\ rec'[r].pc = "act"
        <4> DEFINE met == {SourceOf(x.name) : x \in seen}
                   all == reached = Clusters
        <4>1. rec' = [rec EXCEPT ![r] = [old EXCEPT !.pc = "act", !.mine = {}, !.plan = plan,
                                                    !.met = met, !.all = all]]
          BY <3>1
        <4> HIDE DEF plan, met, all
        <4> QED BY <1>1, <1>2, <4>1
      <3>3. reachable \subseteq old.want /\ seen \subseteq conn
        BY DEF Observed
      <3> HIDE DEF seen, reachable, protected
      <3> QED BY <3>2, <3>3
    <2>2. ASSUME NEW a \in PlanActions(D, O, protected), a.config.slot = n
          PROVE  RunTrace(old, n) \/ \E x \in conn : x.config.slot = n
      <3>1. CASE \E d \in D, k \in NoDelete : a = Act(k, d)
        <4>1. PICK d \in D : a.config = d.config
          BY <3>1 DEF Act
        <4> QED BY <2>1, <2>2, <4>1 DEF RunTrace
      <3>2. CASE \E o \in O : a = Act("delete", o)
        <4>1. PICK o \in O : a.config = o.config
          BY <3>2 DEF Act
        <4> QED BY <2>1, <2>2, <4>1
      <3> QED BY <3>1, <3>2, PlanShape
    <2> QED BY <2>1, <2>2 DEF RunTrace
  <1>6. CASE Execute(r)
    <2>1. rec'[r].plan \subseteq old.plan /\ rec'[r].want = old.want /\ rec'[r].pc # "listed"
      BY <1>1, <1>2, <1>6 DEF Execute
    <2> QED BY <2>1 DEF RunTrace
  <1>7. CASE BeginCleanup(r) \/ Inspect(r)
    <2>1. rec'[r].plan = old.plan /\ rec'[r].want = old.want /\ rec'[r].pc # "listed"
      <3>1. CASE BeginCleanup(r)
        BY <1>1, <1>2, <3>1 DEF BeginCleanup
      <3>2. CASE Inspect(r)
        <4>1. \/ rec' = [rec EXCEPT ![r].rows = Without(@, NextSource(r))]
              \/ rec' = [rec EXCEPT ![r].pc = "forget"]
          BY <3>2 DEF Inspect
        <4>2. old.pc = "cleanup"
          BY <3>2 DEF Inspect
        <4> QED BY <1>1, <1>2, <4>1, <4>2
      <3> QED BY <1>7, <3>1, <3>2
    <2> QED BY <2>1 DEF RunTrace
  <1>8. CASE ForgetSource(r)
    <2>1. \/ rec' = [rec EXCEPT ![r].pc = "cleanup", ![r].rows = Without(@, NextSource(r))]
          \/ rec' = [rec EXCEPT ![r] = RecIdle]
      BY <1>8 DEF ForgetSource
    <2>2. \/ rec'[r].plan = old.plan /\ rec'[r].want = old.want /\ rec'[r].pc # "listed"
          \/ rec'[r] = RecIdle
      BY <1>1, <1>2, <2>1
    <2> QED BY <2>2 DEF RunTrace, RecIdle
  <1>9. CASE Finish(r) \/ Abort(r)
    <2>1. rec'[r] = RecIdle
      BY <1>1, <1>9 DEF Finish, Abort
    <2> QED BY <2>1 DEF RunTrace, RecIdle
  <1> QED BY <1>3, <1>4, <1>5, <1>6, <1>7, <1>8, <1>9 DEF Reconcile

LEMMA ConnectTraces ==
    ASSUME CaptureInv, [Next]_vars, NEW n, n \in saved' \/ \E x \in conn' : x.config.slot = n
    PROVE  Trace(n)
  <1>1. conn \in Fleet
    BY DEF CaptureInv, ConnectTypes
  <1>2. CASE saved' = saved /\ \A x \in conn' : \E y \in conn : y.config = x.config
    BY <1>2 DEF Trace
  <1>3. CASE UNCHANGED <<connect, sourcedbs>>
    BY <1>2, <1>3 DEF connect
  <1>4. CASE RetireConnectors
    <2>1. conn' \subseteq conn /\ saved' = saved
      BY <1>4 DEF RetireConnectors
    <2> QED BY <1>2, <2>1
  <1>5. CASE RetireSlots
    BY <1>2, <1>5 DEF RetireSlots, connect
  <1>6. ASSUME NEW r \in Reconcilers, Inspect(r)
        PROVE  Trace(n)
    BY <1>2, <1>6 DEF Inspect, connect
  <1>7. ASSUME NEW r \in Reconcilers, Execute(r)
        PROVE  Trace(n)
    <2> DEFINE a == FirstOf(rec[r].plan)
    <2>1. rec[r].plan \in Plans /\ rec[r].plan # {}
      BY <1>7 DEF Execute, CaptureInv, RecType
    <2>2. a \in rec[r].plan /\ a.kind \in DOMAIN Rank
      BY <2>1, PlanHasFirst, ActionFields DEF Plans
    <2>3. saved' = saved /\ (conn' = Effect(a) \/ conn' = conn)
      BY <1>7 DEF Execute
    <2> HIDE DEF a
    <2>4. \A x \in conn' : x.config = a.config \/ \E y \in conn : x.config = y.config
      BY <1>1, <2>2, <2>3, EffectConfigs
    <2>5. n \in saved \/ n = a.config.slot \/ \E y \in conn : y.config.slot = n
      BY <2>3, <2>4
    <2> QED BY <2>2, <2>5 DEF Trace, RunTrace
  <1>8. ASSUME NEW m \in Names, TaskStarts(m)
        PROVE  Trace(n)
    BY <1>8 DEF TaskStarts, Reading, Trace
  <1>9. ASSUME NEW m \in Names, SlotReleased(m)
        PROVE  Trace(n)
    BY <1>2, <1>9 DEF SlotReleased, connect
  <1>10. ASSUME NEW x \in conn, TaskFails(x)
        PROVE  Trace(n)
    <2>1. x \in Connector
      BY <1>1 DEF Fleet
    <2>2. [x EXCEPT !.state = "FAILED"].config = x.config
      BY <2>1 DEF Connector
    <2> QED BY <1>2, <1>10, <2>2 DEF TaskFails
  <1> QED BY <1>3, <1>4, <1>5, <1>6, <1>7, <1>8, <1>9, <1>10, WhoWritesConnect

LEMMA TracesComeFromRows ==
    ASSUME CaptureInv, [Next]_vars, NEW n \in Names, Trace(n)'
    PROVE  Trace(n) \/ \E r \in Reconcilers : Lists(r, n)
  <1>1. CASE n \in saved' \/ \E x \in conn' : x.config.slot = n
    BY <1>1, ConnectTraces
  <1>2. ASSUME NEW q \in Reconcilers, RunTrace(rec'[q], n)
        PROVE  Trace(n) \/ \E r \in Reconcilers : Lists(r, n)
    <2>1. CASE UNCHANGED rec
      BY <1>2, <2>1 DEF Trace
    <2>2. ASSUME NEW r \in Reconcilers, Reconcile(r) \/ Abort(r)
          PROVE  Trace(n) \/ Lists(r, n)
      <3>1. CASE r = q
        BY <1>2, <2>2, <3>1, RunTraces DEF Trace
      <3>2. CASE r # q
        <4>1. rec'[q] = rec[q]
          BY <2>2, <3>2 DEF CaptureInv, Reconcile, List, ReadOwners, Observe, Execute,
                            BeginCleanup, Inspect, ForgetSource, Finish, Abort
        <4> QED BY <1>2, <4>1 DEF Trace
      <3> QED BY <3>1, <3>2
    <2> QED BY <2>1, <2>2, WhoWritesRuns
  <1>3. \/ n \in saved' \/ \E x \in conn' : x.config.slot = n
        \/ \E r \in Reconcilers : RunTrace(rec'[r], n)
    BY DEF Trace, RunTrace
  <1> QED BY <1>1, <1>2, <1>3

LEMMA FloorsGrow ==
    ASSUME CaptureInv, [Next]_vars
    PROVE  \A s \in Sources :
             /\ floor[s] \in Nat /\ floor'[s] \in Nat /\ floor[s] <= floor'[s]
             /\ floor'[s] # floor[s] => RetireCommit /\ s = ret.src
  <1>1. floor \in [Sources -> Nat]
    BY DEF CaptureInv, LifeInv
  <1>2. CASE UNCHANGED floor
    BY <1>1, <1>2
  <1>3. CASE RetireCommit
    <2>1. ret.src \in Sources /\ ret.row.gen + 1 \in Nat
      BY <1>3 DEF RetireCommit, CaptureInv, LifeInv, SourceRecord
    <2>2. floor' = [floor EXCEPT ![ret.src] = IF @ > ret.row.gen + 1 THEN @ ELSE ret.row.gen + 1]
      BY <1>3 DEF RetireCommit
    <2> QED BY <1>1, <1>3, <2>1, <2>2
  <1>4. ASSUME NEW s \in Sources, Operator(s)
        PROVE  UNCHANGED floor
    BY <1>4 DEF Operator, EnsureEnvSource, Register, Upsert, SetLifecycle, Bump, MoveFlag
  <1>5. CASE Onboarding
    BY <1>2, <1>5 DEF Onboarding, OnboardCheck, OnboardCreate, OnboardProvision, OnboardAssign,
                OnboardActivate, OnboardFail, warehouse
  <1>6. ASSUME Retirement, ~RetireCommit
        PROVE  UNCHANGED floor
    BY <1>6 DEF Retirement, RetireRead, RetireConnectors, RetireSlots, RetireNoSlots,
                RetireForget, RetireFail, warehouse
  <1>7. ASSUME NEW r \in Reconcilers, ForgetSource(r)
        PROVE  UNCHANGED floor
    BY <1>7 DEF ForgetSource
  <1> QED BY <1>2, <1>3, <1>4, <1>5, <1>6, <1>7, WhoWritesRows

\* What is settled stays so, unless a run lists a captured row of the source.
LEMMA StaysSettled ==
    ASSUME CaptureInv, [Next]_vars, NEW s \in Sources, Settled(s),
           ~\E r \in Reconcilers : /\ List(r) /\ s \in Shard[r] \cap Registered(registry)
                                   /\ Captured(registry[s])
    PROVE  Settled(s)'
  <1>1. ASSUME NEW n \in Names, SourceOf(n) = s, Trace(n)'
        PROVE  n[2] < floor'[s]
    <2>1. Trace(n)
      BY <1>1, TracesComeFromRows DEF Lists
    <2>2. n[2] < floor[s] /\ n[2] \in Nat
      BY <1>1, <2>1, NameParts DEF Settled
    <2>3. floor[s] \in Nat /\ floor'[s] \in Nat /\ floor[s] <= floor'[s]
      BY FloorsGrow
    <2> QED BY <2>2, <2>3
  <1>2. \A n \in Names : SourceOf(n) = s /\ Trace(n)' => n[2] < floor'[s]
    BY <1>1
  <1> QED BY <1>2 DEF Settled

\* Retired rows are not captured.
LEMMA RetiredIsNotCaptured == \A x : x.state = "RETIRED" => ~Captured(x)
  BY DEF Captured, RunningStates

LEMMA RetiredIsSettled ==
    ASSUME CaptureInv, [Next]_vars, NEW s \in Sources, Settled(s),
           registry[s] = Unregistered \/ registry[s].state = "RETIRED" \/ registry' # registry
    PROVE  Settled(s)'
  <1>1. ASSUME NEW r \in Reconcilers, List(r), s \in Registered(registry), Captured(registry[s])
        PROVE  FALSE
    BY <1>1, RetiredIsNotCaptured DEF List, warehouse, Registered
  <1> QED BY <1>1, StaysSettled

\* How a row changes in a step.
Kept(x, y) ==
    /\ x # Unregistered /\ y # Unregistered
    /\ x.gen \in Nat /\ y.gen \in Nat /\ x.gen <= y.gen
    /\ x.state = "RETIRED" => y.state = "RETIRED"
    /\ y.forget => x.forget

RowStep(s) ==
    \/ registry'[s] = registry[s]
    \/ Kept(registry[s], registry'[s])
    \/ /\ registry[s] = Unregistered /\ registry'[s] # Unregistered
       /\ registry'[s].gen = floor[s] /\ ~registry'[s].forget /\ ret.src # s /\ UNCHANGED ret
    \/ /\ OnboardCreate /\ onb.src = s
       /\ registry'[s] # Unregistered /\ registry'[s].gen = 0 /\ ~registry'[s].forget
    \/ registry'[s] = Unregistered /\ \E r \in Reconcilers : ForgetSource(r) /\ s = NextSource(r)
    \/ RetireForget /\ s = ret.src /\ (registry'[s] = Unregistered
                                       \/ (/\ registry[s] # Unregistered
                                           /\ registry'[s] # Unregistered
                                           /\ registry'[s].gen = registry[s].gen
                                           /\ registry'[s].state = registry[s].state))

\* The rows of other sources stay.
LEMMA OtherRows ==
    ASSUME LifeInv, NEW s, NEW x, registry' = [registry EXCEPT ![s] = x]
    PROVE  /\ \A t \in Sources : t # s => registry'[t] = registry[t]
           /\ s \in Sources => registry'[s] = x
  BY DEF LifeInv

LEMMA ChangedState ==
    ASSUME CaptureInv, NEW s \in Sources, registry[s] # Unregistered, NEW to \in LifecycleState,
           registry[s].state = "RETIRED" => to = "RETIRED"
    PROVE  Kept(registry[s], [registry[s] EXCEPT !.state = to])
  <1>1. registry[s] \in SourceRecord
    BY DEF CaptureInv, LifeInv, Rows
  <1>2. [registry[s] EXCEPT !.state = to] \in SourceRecord
    BY <1>1 DEF SourceRecord
  <1>3. [registry[s] EXCEPT !.state = to] # Unregistered
    BY <1>2, RowsAreRegistered
  <1> HIDE <1>2
  <1> QED BY <1>1, <1>3 DEF Kept, SourceRecord

LEMMA OperatorRowStep ==
    ASSUME CaptureInv, NEW s \in Sources, Operator(s)
    PROVE  \A t \in Sources : RowStep(t)
  <1>0. LifeInv /\ registry \in [Sources -> Rows]
    BY DEF CaptureInv, LifeInv
  <1>1. ASSUME NEW x, registry' = [registry EXCEPT ![s] = x],
               x = registry[s] \/ Kept(registry[s], x)
               \/ /\ registry[s] = Unregistered /\ x # Unregistered /\ x.gen = floor[s]
                  /\ ~x.forget /\ ret.src # s /\ UNCHANGED ret
        PROVE  \A t \in Sources : RowStep(t)
    <2>1. registry'[s] = x /\ \A t \in Sources : t # s => registry'[t] = registry[t]
      BY <1>0, <1>1, OtherRows
    <2>2. RowStep(s)
      BY <1>1, <2>1 DEF RowStep
    <2>3. \A t \in Sources : t # s => RowStep(t)
      BY <2>1 DEF RowStep
    <2> QED BY <2>2, <2>3
  <1>2. registry[s] # Unregistered => registry[s] \in SourceRecord
    BY <1>0 DEF Rows
  <1>3. ASSUME NEW config \in Configs, NEW cluster \in Clusters, NEW forget \in BOOLEAN,
               forget => registry[s] # Unregistered /\ registry[s].forget,
               Upsert(s, config, cluster, forget)
        PROVE  \A t \in Sources : RowStep(t)
    <2> DEFINE new == [state |-> "ACTIVE", gen |-> FirstGeneration(s), cluster |-> cluster,
                       config |-> config, forget |-> FALSE]
               kept == [registry[s] EXCEPT !.config = config, !.cluster = cluster,
                                           !.forget = forget]
               x == IF registry[s] = Unregistered THEN new ELSE kept
    <2>1. registry' = [registry EXCEPT ![s] = x] /\ ret.src # s /\ UNCHANGED ret
      BY <1>3 DEF Upsert, procs
    <2>2. CASE registry[s] = Unregistered
      <3>1. x = new
        BY <2>2
      <3>2. new.gen = floor[s] /\ ~new.forget
        BY DEF FirstGeneration
      <3>3. new.state # "none"
        OBVIOUS
      <3>4. new # Unregistered
        BY <3>3 DEF Unregistered
      <3> HIDE DEF new, x
      <3> QED BY <1>1, <2>1, <2>2, <3>1, <3>2, <3>4
    <2>3. CASE registry[s] # Unregistered
      <3>1. x = kept /\ registry[s] \in SourceRecord
        BY <1>2, <2>3
      <3>2. kept.state = registry[s].state /\ kept.gen = registry[s].gen /\ kept.forget = forget
        BY <3>1 DEF SourceRecord
      <3>3. registry[s].state # "none" /\ registry[s].gen \in Nat
        BY <3>1 DEF SourceRecord, LifecycleState, LifecycleTransitions
      <3>4. kept # Unregistered
        BY <3>2, <3>3 DEF Unregistered
      <3>5. Kept(registry[s], kept)
        <4> HIDE DEF kept
        <4> QED BY <1>3, <2>3, <3>2, <3>3, <3>4 DEF Kept
      <3> HIDE DEF kept, x
      <3> QED BY <1>1, <2>1, <3>1, <3>5
    <2> QED BY <2>2, <2>3
  <1>4. ASSUME NEW config \in Offers[s] \ {NoConfig}, EnsureEnvSource(s, config)
        PROVE  \A t \in Sources : RowStep(t)
    <2> DEFINE forget == registry[s] # Unregistered /\ registry[s].forget
    <2>1. config \in Configs /\ DefaultCluster \in Clusters /\ forget \in BOOLEAN
      BY CaptureAssumption
    <2>2. Upsert(s, config, DefaultCluster, forget)
      BY <1>4 DEF EnsureEnvSource
    <2>3. forget => registry[s] # Unregistered /\ registry[s].forget
      OBVIOUS
    <2> HIDE DEF forget
    <2> QED BY <1>3, <2>1, <2>2, <2>3
  <1>5. ASSUME NEW config \in Offers[s], NEW cluster \in Clusters, Register(s, config, cluster)
        PROVE  \A t \in Sources : RowStep(t)
    <2>1. config \in Configs
      BY CaptureAssumption
    <2> QED BY <1>3, <1>5, <2>1 DEF Register
  <1>6. ASSUME NEW to \in LifecycleTargets, SetLifecycle(s, to)
        PROVE  \A t \in Sources : RowStep(t)
    <2>1. to \in LifecycleState /\ registry[s] # Unregistered
      BY <1>6, CaptureAssumption DEF SetLifecycle, Registered
    <2>2. registry[s].state # "RETIRED"
      BY <1>6 DEF SetLifecycle, CanSetLifecycle, LifecycleTransitions
    <2>3. registry' = [registry EXCEPT ![s] = [registry[s] EXCEPT !.state = to]]
      BY <1>6 DEF SetLifecycle
    <2> QED BY <1>1, <2>1, <2>2, <2>3, ChangedState
  <1>7. ASSUME registry[s] # Unregistered, registry' = [registry EXCEPT ![s].gen = @ + 1]
        PROVE  \A t \in Sources : RowStep(t)
    <2> DEFINE x == [registry[s] EXCEPT !.gen = @ + 1]
    <2>1. x \in SourceRecord /\ registry[s] \in SourceRecord
      BY <1>2, <1>7 DEF SourceRecord
    <2>2. x # Unregistered
      BY <2>1, RowsAreRegistered
    <2>3. /\ x.gen = registry[s].gen + 1 /\ registry[s].gen \in Nat
          /\ x.state = registry[s].state /\ x.forget = registry[s].forget
      BY <2>1 DEF SourceRecord
    <2>4. registry' = [registry EXCEPT ![s] = x]
      BY <1>7
    <2> HIDE DEF x
    <2>5. Kept(registry[s], x)
      BY <1>7, <2>2, <2>3 DEF Kept
    <2> QED BY <1>1, <2>4, <2>5
  <1>8. CASE Bump(s)
    BY <1>7, <1>8 DEF Bump, Registered
  <1>9. ASSUME NEW kind \in Requestable, MoveFlag(s, kind)
        PROVE  \A t \in Sources : RowStep(t)
    <2>1. registry[s] # Unregistered
      BY <1>0, <1>9 DEF MoveFlag, LifeInv
    <2>2. CASE registry' = registry
      BY <2>2 DEF RowStep
    <2> QED BY <1>7, <1>9, <2>1, <2>2 DEF MoveFlag
  <1> QED BY <1>4, <1>5, <1>6, <1>8, <1>9 DEF Operator

LEMMA RowsStep ==
    ASSUME CaptureInv, [Next]_vars
    PROVE  \A t \in Sources : RowStep(t)
  <1>0. LifeInv /\ registry \in [Sources -> Rows]
    BY DEF CaptureInv, LifeInv
  <1>1. CASE registry' = registry
    BY <1>1 DEF RowStep
  <1>2. ASSUME NEW s, NEW x, registry' = [registry EXCEPT ![s] = x],
               s \in Sources /\ registry'[s] = x => RowStep(s)
        PROVE  \A t \in Sources : RowStep(t)
    <2>1. (s \in Sources => registry'[s] = x) /\ \A t \in Sources : t # s => registry'[t] = registry[t]
      BY <1>0, <1>2, OtherRows
    <2>2. \A t \in Sources : t # s => RowStep(t)
      BY <2>1 DEF RowStep
    <2> QED BY <1>2, <2>1, <2>2
  <1>3. ASSUME NEW s, s \in Sources => registry[s] # Unregistered, NEW to \in LifecycleState,
               s \in Sources /\ registry[s].state = "RETIRED" => to = "RETIRED",
               registry' = [registry EXCEPT ![s] = [registry[s] EXCEPT !.state = to]]
        PROVE  \A t \in Sources : RowStep(t)
    <2> DEFINE x == [registry[s] EXCEPT !.state = to]
    <2>1. s \in Sources => Kept(registry[s], x)
      BY <1>3, ChangedState
    <2>2. registry' = [registry EXCEPT ![s] = x]
      BY <1>3
    <2> HIDE DEF x
    <2>3. s \in Sources /\ registry'[s] = x => RowStep(s)
      BY <2>1 DEF RowStep
    <2> QED BY <1>2, <2>2, <2>3
  <1>4. CASE Onboarding
    <2>1. CASE OnboardCreate
      <3>1. PICK config, cluster : registry' = [registry EXCEPT ![onb.src] =
               [state |-> "REQUESTED", gen |-> 0, cluster |-> cluster, config |-> config,
                forget |-> FALSE]]
        BY <2>1 DEF OnboardCreate
      <3> DEFINE x == [state |-> "REQUESTED", gen |-> 0, cluster |-> cluster,
                       config |-> config, forget |-> FALSE]
      <3>2. x.gen = 0 /\ ~x.forget /\ x.state # "none"
        OBVIOUS
      <3>3. x # Unregistered
        BY <3>2 DEF Unregistered
      <3>4. registry' = [registry EXCEPT ![onb.src] = x]
        BY <3>1
      <3> HIDE DEF x
      <3>5. onb.src \in Sources /\ registry'[onb.src] = x => RowStep(onb.src)
        BY <2>1, <3>2, <3>3 DEF RowStep
      <3> QED BY <1>2, <3>4, <3>5
    <2>2. CASE OnboardProvision
      <3>1. /\ registry[onb.src] # Unregistered /\ registry[onb.src].state # "RETIRED"
            /\ registry' = [registry EXCEPT ![onb.src] =
                              [registry[onb.src] EXCEPT !.state = "PROVISIONING"]]
        BY <2>2 DEF OnboardProvision, PathAllowed, CanSetLifecycle, LifecycleTransitions, Registered
      <3> QED BY <1>3, <3>1, NamedStates
    <2>3. CASE OnboardActivate
      <3>1. /\ registry[onb.src] # Unregistered /\ registry[onb.src].state # "RETIRED"
            /\ registry' = [registry EXCEPT ![onb.src] =
                              [registry[onb.src] EXCEPT !.state = "ACTIVE"]]
        BY <2>3 DEF OnboardActivate, CanSetLifecycle, LifecycleTransitions, Registered
      <3> QED BY <1>3, <3>1, NamedStates
    <2> QED BY <1>1, <1>4, <2>1, <2>2, <2>3
            DEF Onboarding, OnboardCheck, OnboardAssign, OnboardFail, warehouse
  <1>5. CASE Retirement
    <2>1. CASE RetireCommit
      <3>1. CASE ret.row.state = "RETIRED"
        <4>1. ret.src \in Sources
          BY <2>1 DEF RetireCommit, CaptureInv, LifeInv
        <4>2. registry' = [registry EXCEPT ![ret.src] =
                             [registry[ret.src] EXCEPT !.state = registry[ret.src].state]]
          BY <2>1, <3>1 DEF RetireCommit
        <4>3. [registry[ret.src] EXCEPT !.state = registry[ret.src].state] = registry[ret.src]
          BY <1>0, <4>1 DEF Rows, SourceRecord, Unregistered
        <4> QED BY <1>0, <1>1, <4>1, <4>2, <4>3
      <3>2. CASE ret.row.state # "RETIRED"
        <4>1. registry[ret.src] # Unregistered
          BY <2>1, <3>2 DEF RetireCommit, RetireAllowed, LifecyclePath, Registered
        <4>2. registry' = [registry EXCEPT ![ret.src] =
                             [registry[ret.src] EXCEPT !.state = "RETIRED"]]
          BY <2>1, <3>2 DEF RetireCommit
        <4> QED BY <1>3, <4>1, <4>2, NamedStates
      <3> QED BY <3>1, <3>2
    <2>2. CASE RetireForget
      <3>1. CASE DeleteRow(ret.src)
        <4>1. registry' = [registry EXCEPT ![ret.src] = Unregistered]
          BY <3>1 DEF DeleteRow
        <4> QED BY <1>2, <2>2, <4>1 DEF RowStep
      <3>2. CASE registry' = [registry EXCEPT ![ret.src] =
                                IF @ = Unregistered THEN @ ELSE [@ EXCEPT !.forget = TRUE]]
        <4>1. CASE registry[ret.src] = Unregistered
          <5>1. registry' = [registry EXCEPT ![ret.src] = Unregistered]
            BY <3>2, <4>1
          <5> QED BY <1>2, <2>2, <5>1 DEF RowStep
        <4>2. CASE registry[ret.src] # Unregistered
          <5> DEFINE x == [registry[ret.src] EXCEPT !.forget = TRUE]
          <5>1. ret.src \in Sources
            BY <2>2 DEF RetireForget, CaptureInv, LifeInv
          <5>2. registry[ret.src] \in SourceRecord
            BY <1>0, <4>2, <5>1 DEF Rows
          <5>3. /\ x \in SourceRecord
                /\ x.gen = registry[ret.src].gen /\ x.state = registry[ret.src].state
            BY <5>2 DEF SourceRecord
          <5>4. x # Unregistered
            BY <5>3, RowsAreRegistered
          <5>5. registry' = [registry EXCEPT ![ret.src] = x]
            BY <3>2, <4>2
          <5> HIDE DEF x
          <5> QED BY <1>2, <2>2, <4>2, <5>3, <5>4, <5>5 DEF RowStep
        <4> QED BY <4>1, <4>2
      <3> QED BY <1>1, <2>2, <3>1, <3>2 DEF RetireForget
    <2> QED BY <1>1, <1>5, <2>1, <2>2
            DEF Retirement, RetireRead, RetireConnectors, RetireSlots, RetireNoSlots, RetireFail,
                warehouse
  <1>6. ASSUME NEW r \in Reconcilers, ForgetSource(r)
        PROVE  \A t \in Sources : RowStep(t)
    <2>1. CASE DeleteRow(NextSource(r))
      <3>1. registry' = [registry EXCEPT ![NextSource(r)] = Unregistered]
        BY <2>1 DEF DeleteRow
      <3> QED BY <1>2, <1>6, <3>1 DEF RowStep
    <2> QED BY <1>1, <1>6, <2>1 DEF ForgetSource
  <1> QED BY <1>1, <1>4, <1>5, <1>6, WhoWritesRows, OperatorRowStep

LEMMA InitHasFreshInv == Init /\ LabelledAreRetired => FreshInv
  <1> SUFFICES ASSUME Init, LabelledAreRetired PROVE FreshInv
    OBVIOUS
  <1>1. CaptureInv
    BY InitHasCaptureInv
  <1>2. \A n : ~Trace(n)
    BY DEF Init, Trace, RunTrace, RecIdle
  <1>3. \A s : Settled(s)
    BY <1>2 DEF Settled
  <1>4. PICK fleet \in Fleets : registry = [s \in Sources |-> fleet[s].row]
    BY DEF Init
  <1>5. ForgottenIsSettled
    <2>1. \A s \in Sources : registry[s] # Unregistered /\ registry[s].forget =>
                               registry[s].state = "RETIRED"
      BY <1>4 DEF LabelledAreRetired
    <2>2. \A s \in Sources : floor[s] = 0
      BY DEF Init
    <2> QED BY <1>3, <2>1, <2>2 DEF ForgottenIsSettled
  <1>6. RetirementSettles
    BY DEF Init, RetirementSettles, OnbIdle, RetIdle
  <1>7. RunsForgetTombstones
    BY DEF Init, RunsForgetTombstones, RecIdle, NoRows
  <1> QED BY <1>1, <1>2, <1>5, <1>6, <1>7 DEF FreshInv, TracesAreOld

\* A source that returns is ahead of everything that is left of it.
LEMMA ReturnsAhead ==
    ASSUME FreshInv, [Next]_vars, OnboardedOnce, NEW s \in Sources,
           registry[s] = Unregistered, registry'[s] # Unregistered,
           NEW n \in Names, SourceOf(n) = s, Trace(n)
    PROVE  n[2] < registry'[s].gen /\ ~registry'[s].forget
  <1>1. n[2] < floor[s] /\ n[2] \in Nat
    BY NameParts DEF FreshInv, ForgottenIsSettled, Settled
  <1>2. RowStep(s)
    BY RowsStep DEF FreshInv
  <1>3. CASE registry'[s].gen = floor[s] /\ ~registry'[s].forget
    BY <1>1, <1>3
  <1>4. CASE OnboardCreate /\ onb.src = s
    <2>1. "onboard" \in Requests[s]
      BY <1>4 DEF OnboardCreate, FreshInv, RetirementSettles
    <2>2. floor[s] = 0
      BY <2>1 DEF OnboardedOnce, FreshInv, ForgottenIsSettled
    <2> QED BY <1>1, <2>2
  <1> QED BY <1>2, <1>3, <1>4 DEF RowStep, Kept

LEMMA KeepsTracesOld ==
    ASSUME FreshInv, [Next]_vars, OnboardedOnce
    PROVE  TracesAreOld'
  <1>1. ASSUME NEW n \in Names, Trace(n)', registry'[SourceOf(n)] # Unregistered
        PROVE  n[2] <= registry'[SourceOf(n)].gen
    <2> DEFINE s == SourceOf(n)
    <2>1. s \in Sources /\ n[2] \in Nat
      BY NameParts DEF SourceOf
    <2>2. CaptureInv /\ CaptureInv'
      BY CaptureInvIsInductive DEF FreshInv
    <2>3. registry'[s].gen \in Nat
      BY <1>1, <2>1, <2>2 DEF CaptureInv, LifeInv, Rows, SourceRecord
    <2>4. ASSUME NEW r \in Reconcilers, Lists(r, n)
          PROVE  n[2] <= registry'[s].gen
      <3>1. registry' = registry /\ n[2] = registry[s].gen
        BY <2>4 DEF Lists, List, warehouse
      <3> QED BY <2>1, <3>1
    <2>5. CASE Trace(n)
      <3>1. CASE registry[s] = Unregistered
        BY <1>1, <2>1, <2>3, <2>5, <3>1, ReturnsAhead
      <3>2. CASE registry[s] # Unregistered
        <4>1. n[2] <= registry[s].gen
          BY <2>5, <3>2 DEF FreshInv, TracesAreOld
        <4>2. registry[s].gen \in Nat
          BY <2>1, <2>2, <3>2 DEF CaptureInv, LifeInv, Rows, SourceRecord
        <4>3. RowStep(s)
          BY <2>1, <2>2, RowsStep
        <4>4. registry[s].gen <= registry'[s].gen
          <5>1. ~OnboardCreate \/ onb.src # s
            BY <3>2 DEF OnboardCreate
          <5> QED BY <1>1, <2>3, <3>2, <4>2, <4>3, <5>1 DEF RowStep, Kept
        <4> QED BY <2>1, <2>3, <4>1, <4>2, <4>4
      <3> QED BY <3>1, <3>2
    <2> QED BY <1>1, <2>2, <2>4, <2>5, TracesComeFromRows
  <1>2. \A n \in Names : Trace(n)' /\ registry'[SourceOf(n)] # Unregistered =>
                           n[2] <= registry'[SourceOf(n)].gen
    BY <1>1
  <1> QED BY <1>2 DEF TracesAreOld

\* What the next source of a run is, in the state after as in the one before.
LEMMA ForgetsSettled ==
    ASSUME FreshInv, NEW r \in Reconcilers, ForgetSource(r)
    PROVE  Settled(NextSource(r))
  BY DEF FreshInv, RunsForgetTombstones, ForgetSource

LEMMA KeepsForgottenSettled ==
    ASSUME FreshInv, [Next]_vars, OnboardedOnce
    PROVE  ForgottenIsSettled'
  <1>0. CaptureInv /\ ForgottenIsSettled
    BY DEF FreshInv
  <1>1. ASSUME NEW s \in Sources, registry'[s] = Unregistered
        PROVE  Settled(s)'
    <2>1. CASE registry[s] = Unregistered
      BY <1>0, <2>1, RetiredIsSettled DEF ForgottenIsSettled
    <2>2. CASE registry[s] # Unregistered
      <3>1. registry' # registry /\ RowStep(s)
        BY <1>0, <1>1, <2>2, RowsStep
      <3>2. Settled(s)
        <4>1. ASSUME NEW r \in Reconcilers, ForgetSource(r), s = NextSource(r)
              PROVE  Settled(s)
          BY <4>1, ForgetsSettled
        <4>2. CASE RetireForget /\ s = ret.src
          BY <4>2 DEF RetireForget, FreshInv, RetirementSettles
        <4> QED BY <1>1, <2>2, <3>1, <4>1, <4>2 DEF RowStep, Kept
      <3> QED BY <1>0, <3>1, <3>2, RetiredIsSettled
    <2> QED BY <2>1, <2>2
  <1>2. ASSUME NEW s \in Sources, registry'[s] # Unregistered, registry'[s].forget
        PROVE  registry'[s].state = "RETIRED" /\ Settled(s)'
    <2>1. RowStep(s)
      BY <1>0, RowsStep
    <2>2. CASE registry[s] # Unregistered /\ registry[s].forget
      <3>1. registry[s].state = "RETIRED" /\ Settled(s)
        BY <1>0, <2>2 DEF ForgottenIsSettled
      <3>2. registry'[s].state = "RETIRED"
        <4>1. ~OnboardCreate \/ onb.src # s
          BY <2>2 DEF OnboardCreate
        <4> QED BY <1>2, <2>1, <2>2, <3>1, <4>1 DEF RowStep, Kept
      <3> QED BY <1>0, <3>1, <3>2, RetiredIsSettled
    <2>3. CASE RetireForget /\ s = ret.src /\ registry[s] # Unregistered
      <3>1. registry[s].state = "RETIRED" /\ Settled(s)
        BY <2>3 DEF RetireForget, FreshInv, RetirementSettles
      <3>2. registry'[s].state = "RETIRED"
        <4>1. ~OnboardCreate \/ onb.src # s
          BY <2>3 DEF OnboardCreate
        <4> QED BY <1>2, <2>1, <2>3, <3>1, <4>1 DEF RowStep, Kept
      <3> QED BY <1>0, <3>1, <3>2, RetiredIsSettled
    <2> QED BY <1>2, <2>1, <2>2, <2>3 DEF RowStep, Kept
  <1>3. ASSUME NEW s \in Sources, "retire" \notin Requests[s]
        PROVE  floor'[s] = 0
    <2>1. ~RetireCommit \/ s # ret.src
      BY <1>3 DEF RetireCommit, FreshInv, RetirementSettles
    <2> QED BY <1>0, <1>3, <2>1, FloorsGrow DEF ForgottenIsSettled
  <1> QED BY <1>1, <1>2, <1>3 DEF ForgottenIsSettled

\* The source of a retirement past its transaction stays retired or forgotten:
\* nobody registers it meanwhile.
LEMMA StaysRetired ==
    ASSUME FreshInv, [Next]_vars, OnboardedOnce, ret.pc # "idle",
           registry[ret.src] = Unregistered \/ registry[ret.src].state = "RETIRED"
    PROVE  registry'[ret.src] = Unregistered \/ registry'[ret.src].state = "RETIRED"
  <1> DEFINE s == ret.src
  <1>1. s \in Sources /\ "retire" \in Requests[s]
    BY DEF FreshInv, CaptureInv, LifeInv, RetirementSettles
  <1>2. RowStep(s)
    BY <1>1, RowsStep DEF FreshInv
  <1>3. ~(OnboardCreate /\ onb.src = s)
    <2>1. OnboardCreate /\ onb.src = s => "onboard" \in Requests[s]
      BY DEF OnboardCreate, FreshInv, RetirementSettles
    <2> QED BY <1>1, <2>1 DEF OnboardedOnce
  <1> QED BY <1>2, <1>3 DEF RowStep, Kept

LEMMA KeepsRetirementSettled ==
    ASSUME FreshInv, [Next]_vars, OnboardedOnce, RetiresWhatItRead
    PROVE  RetirementSettles'
  <1>0. CaptureInv /\ RetirementSettles /\ LifeInv
    BY DEF FreshInv, CaptureInv
  <1>1. DOMAIN ret = {"pc", "src", "row", "forget", "clean"} /\ DOMAIN onb = {"pc", "src"}
    BY <1>0 DEF LifeInv, OnbIdle, RetIdle
  <1>2. onb'.pc # "idle" => "onboard" \in Requests[onb'.src]
    <2>1. CASE UNCHANGED onb
      BY <1>0, <2>1 DEF RetirementSettles
    <2>2. CASE Onboarding
      BY <1>0, <1>1, <2>2
         DEF RetirementSettles, Onboarding, OnboardCheck, OnboardCreate, OnboardProvision,
             OnboardAssign, OnboardActivate, OnboardFail, OnbIdle
    <2>3. CASE Retirement
      BY <2>1, <2>3 DEF Retirement, RetireRead, RetireCommit, RetireConnectors, RetireSlots,
                        RetireNoSlots, RetireForget, RetireFail
    <2>4. ASSUME NEW s \in Sources, Operator(s) \/ CheckExpires(s)
          PROVE  UNCHANGED onb
      BY <2>4 DEF Operator, EnsureEnvSource, Register, Upsert, SetLifecycle, Bump, MoveFlag,
                  CheckExpires, procs
    <2>5. ASSUME NEW r \in Reconcilers, Reconcile(r) \/ Abort(r)
          PROVE  UNCHANGED onb
      BY <2>5 DEF Reconcile, List, ReadOwners, Observe, Execute, BeginCleanup, Inspect,
                  ForgetSource, Finish, Abort
    <2>6. ASSUME \/ \E n \in Names : TaskStarts(n) \/ SlotReleased(n)
                 \/ \E x \in conn : TaskFails(x)
          PROVE  UNCHANGED onb
      BY <2>6 DEF TaskStarts, SlotReleased, TaskFails, procs
    <2>7. CASE UNCHANGED vars
      BY <2>1, <2>7 DEF vars, procs
    <2> QED BY <2>1, <2>2, <2>3, <2>4, <2>5, <2>6, <2>7 DEF Next
  <1> DEFINE After(s) == \A n \in Names : SourceOf(n) = s /\ Trace(n)' => n[2] < floor'[s]
             Rest == /\ ret'.pc # "idle" => "retire" \in Requests[ret'.src]
                     /\ ret'.pc \in {"connectors", "slots", "forget"} => After(ret'.src)
                     /\ ret'.pc # "idle" /\ (ret'.pc = "read" => ret'.row.state = "RETIRED") =>
                          registry'[ret'.src] = Unregistered \/ registry'[ret'.src].state = "RETIRED"
  <1>3. ASSUME ret.pc # "idle", ret'.src = ret.src, ret'.row = ret.row,
               ret'.pc = "read" <=> ret.pc = "read", ret'.pc # "idle"
        PROVE  Rest
    <2>1. ret.src \in Sources /\ "retire" \in Requests[ret.src]
      BY <1>0, <1>3 DEF LifeInv, RetirementSettles
    <2>2. ret.pc \in {"idle", "read", "connectors", "slots", "forget"}
      BY <1>0 DEF CaptureInv, ToolTypes
    <2>3. (ret.pc = "read" => ret.row.state = "RETIRED") =>
             registry[ret.src] = Unregistered \/ registry[ret.src].state = "RETIRED"
      BY <1>0, <1>3 DEF RetirementSettles
    <2>4. ret.pc # "read" => After(ret.src)
      <3> SUFFICES ASSUME ret.pc # "read" PROVE After(ret.src)
        OBVIOUS
      <3>1. Settled(ret.src) /\ (registry[ret.src] = Unregistered \/ registry[ret.src].state = "RETIRED")
        BY <1>0, <1>3, <2>2, <2>3 DEF RetirementSettles
      <3>2. ASSUME NEW s \in Sources, s = ret.src
            PROVE  After(s)
        <4>1. Settled(s)'
          BY <1>0, <3>1, <3>2, RetiredIsSettled
        <4> QED BY <4>1 DEF Settled
      <3> QED BY <2>1, <3>2
    <2>5. (ret.pc = "read" => ret.row.state = "RETIRED") =>
             registry'[ret.src] = Unregistered \/ registry'[ret.src].state = "RETIRED"
      BY <1>3, <2>3, StaysRetired
    <2> QED BY <1>3, <2>1, <2>4, <2>5
  <1>4. CASE ret'.pc = "idle"
    BY <1>2, <1>4 DEF RetirementSettles
  <1>5. CASE Rest
    <2>1. ret'.pc \in {"connectors", "slots", "forget"} => (Settled(ret.src))'
      BY <1>5 DEF Settled
    <2> QED BY <1>2, <1>5, <2>1 DEF RetirementSettles
  <1>6. CASE UNCHANGED ret
    BY <1>3, <1>4, <1>5, <1>6
  <1>7. CASE Retirement
    <2>1. ASSUME NEW s \in Sources, NEW forget \in BOOLEAN, RetireRead(s, forget)
          PROVE  RetirementSettles'
      <3>1. /\ ret'.pc = "read" /\ ret'.src = s /\ ret'.row = registry[s] /\ registry' = registry
            /\ "retire" \in Requests[s]
        BY <2>1 DEF RetireRead, warehouse
      <3>2. Rest
        BY <3>1
      <3> QED BY <1>5, <3>2
    <2>2. CASE RetireCommit
      <3> DEFINE s == ret.src
      <3>1. /\ ret'.pc = "connectors" /\ ret'.src = s /\ ret.pc = "read"
        BY <1>1, <2>2 DEF RetireCommit
      <3>2. s \in Sources /\ "retire" \in Requests[s] /\ ret.row \in SourceRecord
        BY <1>0, <3>1 DEF LifeInv, RetirementSettles
      <3>3. registry'[s] = Unregistered \/ registry'[s].state = "RETIRED"
        <4>1. CASE ret.row.state = "RETIRED"
          BY <1>0, <3>1, <4>1, StaysRetired DEF RetirementSettles
        <4>2. CASE ret.row.state # "RETIRED"
          <5>1. registry[s] # Unregistered
            BY <2>2, <4>2 DEF RetireCommit, RetireAllowed, LifecyclePath, Registered
          <5>2. registry[s] \in SourceRecord /\ registry \in [Sources -> Rows]
            BY <1>0, <3>2, <5>1 DEF LifeInv, Rows
          <5>3. registry' = [registry EXCEPT ![s] = [registry[s] EXCEPT !.state = "RETIRED"]]
            BY <2>2, <4>2 DEF RetireCommit
          <5>4. registry'[s] = [registry[s] EXCEPT !.state = "RETIRED"]
            BY <3>2, <5>2, <5>3
          <5> QED BY <5>2, <5>4 DEF SourceRecord
        <4> QED BY <4>1, <4>2
      <3>4. ret.row.gen < floor'[s] /\ ret.row.gen \in Nat /\ floor'[s] \in Nat
        <4>1. ret.row.gen \in Nat /\ floor \in [Sources -> Nat]
          BY <1>0, <3>2 DEF SourceRecord, LifeInv
        <4>2. floor' = [floor EXCEPT ![s] = IF @ > ret.row.gen + 1 THEN @ ELSE ret.row.gen + 1]
          BY <2>2 DEF RetireCommit
        <4> QED BY <3>2, <4>1, <4>2
      <3>5. ASSUME NEW n \in Names, SourceOf(n) = s, Trace(n)'
            PROVE  n[2] < floor'[s]
        <4>1. Trace(n)
          <5>1. ~\E r \in Reconcilers : List(r)
            BY <2>2, <1>1 DEF RetireCommit, List
          <5> QED BY <1>0, <3>5, <5>1, TracesComeFromRows DEF Lists
        <4>2. n[2] \in Nat
          BY NameParts
        <4>3. CASE registry[s] = Unregistered
          <5>1. n[2] < floor[s]
            BY <3>2, <3>5, <4>1, <4>3 DEF FreshInv, ForgottenIsSettled, Settled
          <5> QED BY <1>0, <3>2, <4>2, <5>1, FloorsGrow
        <4>4. CASE registry[s] # Unregistered
          <5>1. n[2] <= registry[s].gen
            BY <3>5, <4>1, <4>4 DEF FreshInv, TracesAreOld
          <5>2. registry[s].gen <= ret.row.gen
            BY <3>1, <4>4 DEF RetiresWhatItRead
          <5>3. registry[s].gen \in Nat
            BY <1>0, <3>2, <4>4 DEF LifeInv, Rows, SourceRecord
          <5> QED BY <3>4, <4>2, <5>1, <5>2, <5>3
        <4> QED BY <4>3, <4>4
      <3>6. \A n \in Names : SourceOf(n) = ret'.src /\ Trace(n)' => n[2] < floor'[ret'.src]
        BY <3>1, <3>5
      <3>7. Rest
        BY <3>1, <3>2, <3>3, <3>6
      <3> QED BY <1>5, <3>7
    <2>3. CASE RetireConnectors
      <3>1. ret.pc = "connectors" /\ ret'.pc = "slots" /\ ret'.src = ret.src /\ ret'.row = ret.row
        BY <1>1, <2>3 DEF RetireConnectors
      <3> QED BY <1>3, <1>5, <3>1
    <2>4. CASE RetireSlots
      <3>1. ret.pc = "slots" /\ ret'.pc \in {"slots", "forget"} /\ ret'.src = ret.src /\ ret'.row = ret.row
        BY <1>1, <2>4 DEF RetireSlots
      <3> QED BY <1>3, <1>5, <3>1
    <2>5. CASE RetireNoSlots
      <3>1. ret.pc = "slots" /\ ret'.pc = "forget" /\ ret'.src = ret.src /\ ret'.row = ret.row
        BY <1>1, <2>5 DEF RetireNoSlots
      <3> QED BY <1>3, <1>5, <3>1
    <2>6. CASE RetireForget \/ RetireFail
      BY <1>4, <2>6 DEF RetireForget, RetireFail, RetIdle
    <2> QED BY <1>7, <2>1, <2>2, <2>3, <2>4, <2>5, <2>6 DEF Retirement
  <1>8. CASE Onboarding
    BY <1>6, <1>8 DEF Onboarding, OnboardCheck, OnboardCreate, OnboardProvision, OnboardAssign,
                      OnboardActivate, OnboardFail
  <1>9. ASSUME NEW s \in Sources, Operator(s)
        PROVE  UNCHANGED ret
    BY <1>9 DEF Operator, EnsureEnvSource, Register, Upsert, SetLifecycle, Bump, MoveFlag, procs
  <1>10. ASSUME NEW r \in Reconcilers, ForgetSource(r)
         PROVE  UNCHANGED ret
    BY <1>10 DEF ForgetSource
  <1> QED BY <1>6, <1>7, <1>8, <1>9, <1>10, WhoWritesRows

LEMMA KeepsTombstones ==
    ASSUME FreshInv, [Next]_vars, DisjointShards
    PROVE  RunsForgetTombstones'
  <1> DEFINE After(s) == \A n \in Names : SourceOf(n) = s /\ Trace(n)' => n[2] < floor'[s]
             Next1(q) == CHOOSE s \in DOMAIN q.rows : \A t \in DOMAIN q.rows : s <= t
             Good(r, q) == /\ DOMAIN q.rows \subseteq Shard[r]
                           /\ q.pc \in {"cleanup", "forget"} =>
                                \A s \in DOMAIN q.rows : Tombstone(q.rows[s]) => After(s)
                           /\ q.pc = "forget" => /\ Next1(q) \in DOMAIN q.rows
                                                 /\ Tombstone(q.rows[Next1(q)])
  <1>0. CaptureInv /\ RunsForgetTombstones /\ rec \in [Reconcilers -> RecType]
    BY DEF FreshInv, CaptureInv
  <1>1. (\A r \in Reconcilers : Good(r, rec'[r])) => RunsForgetTombstones'
    BY DEF RunsForgetTombstones, NextSource, Settled
  <1>2. ASSUME NEW r \in Reconcilers
        PROVE  /\ rec[r] \in RecType /\ rec[r].rows \in RowMaps
               /\ DOMAIN rec[r] = {"pc", "rows", "want", "unknown", "mine", "plan", "met", "all", "kafka"}
               /\ DOMAIN rec[r].rows \subseteq Shard[r] /\ DOMAIN rec[r].rows \subseteq Sources
    <2>1. rec[r] \in RecType /\ rec[r].rows \in RowMaps
      BY <1>0 DEF RecType
    <2>2. DOMAIN rec[r] = {"pc", "rows", "want", "unknown", "mine", "plan", "met", "all", "kafka"}
      BY <2>1 DEF RecType
    <2>3. DOMAIN rec[r].rows \subseteq Shard[r]
      BY <1>0 DEF RunsForgetTombstones
    <2> QED BY <2>1, <2>2, <2>3, RowsRead
  <1>3. ASSUME NEW r \in Reconcilers, rec[r].pc \in {"cleanup", "forget"},
               NEW s \in DOMAIN rec[r].rows, Tombstone(rec[r].rows[s])
        PROVE  After(s)
    <2>1. Settled(s) /\ s \in Shard[r] /\ s \in Sources
      BY <1>0, <1>2, <1>3 DEF RunsForgetTombstones
    <2>2. ASSUME NEW q \in Reconcilers, List(q), s \in Shard[q]
          PROVE  FALSE
      BY <1>3, <2>1, <2>2 DEF List, DisjointShards
    <2>3. Settled(s)'
      BY <1>0, <2>1, <2>2, StaysSettled
    <2> QED BY <2>3 DEF Settled
  <1>4. ASSUME NEW r \in Reconcilers
        PROVE  Good(r, rec[r])
    <2>1. rec[r].pc = "forget" => /\ Next1(rec[r]) \in DOMAIN rec[r].rows
                                  /\ Tombstone(rec[r].rows[Next1(rec[r])])
      BY <1>0 DEF RunsForgetTombstones, NextSource
    <2> HIDE DEF After, Next1
    <2> QED BY <1>2, <1>3, <2>1
  <1>7. \A r \in Reconcilers : Good(r, RecIdle)
    BY DEF RecIdle, NoRows
  <1>8. ASSUME NEW r \in Reconcilers, Reconcile(r) \/ Abort(r)
        PROVE  Good(r, rec'[r]) /\ \A q \in Reconcilers : q # r => rec'[q] = rec[q]
    <2> DEFINE old == rec[r]
    <2>1. \A q \in Reconcilers : q # r => rec'[q] = rec[q]
      BY <1>0, <1>8 DEF Reconcile, List, ReadOwners, Observe, Execute,
                        BeginCleanup, Inspect, ForgetSource, Finish, Abort
    <2>2. CASE List(r)
      <3>1. rec'[r].pc = "listed"
            /\ rec'[r].rows = [s \in Shard[r] \cap Registered(registry) |-> registry[s]]
        BY <1>0, <1>2, <2>2 DEF List
      <3> QED BY <2>1, <3>1
    <2>3. CASE ReadOwners(r)
      <3>1. rec'[r].pc = "read" /\ rec'[r].rows = NoRows
        BY <1>0, <1>2, <2>3 DEF ReadOwners
      <3> QED BY <2>1, <3>1 DEF NoRows
    <2>4. CASE Observe(r)
      <3>1. rec'[r].pc = "act" /\ rec'[r].rows = old.rows
        <4>1. PICK reached \in SUBSET Clusters :
                LET seen == Observed(conn, reached, rec[r].mine)
                    reachable == {d \in rec[r].want : d.cluster \in reached}
                    protected == {x.name : x \in {y \in seen : SourceOf(y.name) \in rec[r].unknown}}
                IN  rec' = [rec EXCEPT
                      ![r].pc = "act", ![r].mine = {},
                      ![r].plan = PlanActions(reachable, seen, protected),
                      ![r].met = {SourceOf(x.name) : x \in seen},
                      ![r].all = reached = Clusters]
          BY <2>4 DEF Observe
        <4> DEFINE seen == Observed(conn, reached, rec[r].mine)
                   reachable == {d \in rec[r].want : d.cluster \in reached}
                   protected == {x.name : x \in {y \in seen : SourceOf(y.name) \in rec[r].unknown}}
                   plan == PlanActions(reachable, seen, protected)
                   met == {SourceOf(x.name) : x \in seen}
                   all == reached = Clusters
        <4>2. rec' = [rec EXCEPT ![r] = [old EXCEPT !.pc = "act", !.mine = {}, !.plan = plan,
                                                    !.met = met, !.all = all]]
          BY <4>1
        <4> HIDE DEF plan, met, all
        <4> QED BY <1>0, <1>2, <4>2
      <3> QED BY <1>2, <2>1, <3>1
    <2>5. CASE Execute(r)
      <3>1. rec'[r].pc = "act" /\ rec'[r].rows = old.rows
        BY <1>0, <1>2, <2>5 DEF Execute
      <3> QED BY <1>2, <2>1, <3>1
    <2>6. CASE BeginCleanup(r)
      <3> DEFINE S == Shard[r] \cap Registered(registry)
      <3>1. rec'[r].pc = "cleanup" /\ rec'[r].rows = [s \in S |-> registry[s]]
        BY <1>0, <1>2, <2>6 DEF BeginCleanup
      <3>2. ASSUME NEW s \in S, Tombstone(registry[s])
            PROVE  After(s)
        <4>1. s \in Sources /\ registry[s] # Unregistered /\ registry[s].forget
              /\ registry[s].state = "RETIRED"
          BY <3>2 DEF Registered, Tombstone
        <4>2. Settled(s)
          BY <4>1 DEF FreshInv, ForgottenIsSettled
        <4>3. Settled(s)'
          BY <1>0, <4>1, <4>2, RetiredIsSettled
        <4> QED BY <4>3 DEF Settled
      <3> HIDE DEF After
      <3> QED BY <2>1, <3>1, <3>2
    <2>7. CASE Inspect(r)
      <3> DEFINE s == NextSource(r)
      <3>1. old.pc = "cleanup" /\ DOMAIN old.rows # {}
        BY <2>7 DEF Inspect
      <3>2. CASE rec' = [rec EXCEPT ![r].rows = Without(@, s)]
        <4>1. rec'[r].pc = "cleanup" /\ rec'[r].rows = Without(old.rows, s)
          BY <1>0, <1>2, <3>1, <3>2
        <4>2. DOMAIN rec'[r].rows \subseteq DOMAIN old.rows
              /\ \A t \in DOMAIN rec'[r].rows : rec'[r].rows[t] = old.rows[t]
          BY <4>1 DEF Without
        <4> HIDE DEF After
        <4> QED BY <1>2, <1>3, <2>1, <3>1, <4>1, <4>2
      <3>3. CASE rec' = [rec EXCEPT ![r].pc = "forget"] /\ Tombstone(old.rows[s])
        <4>1. rec'[r].pc = "forget" /\ rec'[r].rows = old.rows
          BY <1>0, <1>2, <3>3
        <4>2. s \in DOMAIN old.rows /\ s = Next1(rec'[r])
          BY <1>0, <3>1, <4>1, NextIsThere DEF NextSource
        <4>3. Next1(rec'[r]) \in DOMAIN rec'[r].rows /\ Tombstone(rec'[r].rows[Next1(rec'[r])])
          BY <3>3, <4>1, <4>2
        <4> HIDE DEF After, Next1
        <4> QED BY <1>2, <1>3, <2>1, <3>1, <4>1, <4>3
      <3> QED BY <2>7, <3>2, <3>3 DEF Inspect, Tombstone
    <2>8. CASE ForgetSource(r)
      <3> DEFINE s == NextSource(r)
      <3>1. old.pc = "forget"
        BY <2>8 DEF ForgetSource
      <3>2. CASE rec' = [rec EXCEPT ![r].pc = "cleanup", ![r].rows = Without(@, s)]
        <4>1. rec'[r].pc = "cleanup" /\ rec'[r].rows = Without(old.rows, s)
          BY <1>0, <1>2, <3>2
        <4>2. DOMAIN rec'[r].rows \subseteq DOMAIN old.rows
              /\ \A t \in DOMAIN rec'[r].rows : rec'[r].rows[t] = old.rows[t]
          BY <4>1 DEF Without
        <4> HIDE DEF After
        <4> QED BY <1>2, <1>3, <2>1, <3>1, <4>1, <4>2
      <3>3. CASE rec' = [rec EXCEPT ![r] = RecIdle]
        BY <1>0, <1>7, <2>1, <3>3
      <3> QED BY <2>8, <3>2, <3>3 DEF ForgetSource
    <2>9. CASE Finish(r) \/ Abort(r)
      <3>1. rec'[r] = RecIdle
        BY <1>0, <2>9 DEF Finish, Abort
      <3> QED BY <1>7, <2>1, <3>1
    <2> QED BY <1>8, <2>2, <2>3, <2>4, <2>5, <2>6, <2>7, <2>8, <2>9 DEF Reconcile
  <1>9. \A r \in Reconcilers : Good(r, rec'[r])
    <2>1. CASE UNCHANGED rec
      BY <1>4, <2>1
    <2>2. ASSUME NEW r \in Reconcilers, Reconcile(r) \/ Abort(r)
          PROVE  \A q \in Reconcilers : Good(q, rec'[q])
      <3> HIDE DEF Good
      <3> QED BY <1>4, <1>8, <2>2
    <2> QED BY <2>1, <2>2, WhoWritesRuns
  <1> QED BY <1>1, <1>9

LEMMA FreshInvIsInductive ==
    DisjointShards /\ OnboardedOnce /\ FreshInv /\ RetiresWhatItRead /\ [Next]_vars => FreshInv'
  <1> SUFFICES ASSUME DisjointShards, OnboardedOnce, FreshInv, RetiresWhatItRead, [Next]_vars
               PROVE  FreshInv'
    OBVIOUS
  <1>1. CaptureInv'
    BY CaptureInvIsInductive DEF FreshInv
  <1> QED BY <1>1, KeepsTracesOld, KeepsForgottenSettled, KeepsRetirementSettled, KeepsTombstones
          DEF FreshInv

\* FreshGenerations: a source that is registered again gets a generation above
\* every one Connect keeps a position for, whatever the reconcilers still carry
\* out meanwhile (meta.source_generation_floor and upsert), under the
\* hypotheses above.
THEOREM GenerationsAreFresh ==
    DisjointShards /\ OnboardedOnce /\ LabelledAreRetired /\ Spec /\ []RetiresWhatItRead
      => FreshGenerations
  <1> DEFINE Step == \A s \in Sources :
                       registry[s] = Unregistered /\ registry'[s] # Unregistered =>
                         \A n \in saved : SourceOf(n) = s => n[2] < registry'[s].gen
  <1>1. OnboardedOnce /\ FreshInv /\ [Next]_vars => [Step]_vars
    <2> SUFFICES ASSUME FreshInv, OnboardedOnce, [Next]_vars, NEW s \in Sources,
                        registry[s] = Unregistered, registry'[s] # Unregistered,
                        NEW n \in saved, SourceOf(n) = s
                 PROVE  n[2] < registry'[s].gen
      OBVIOUS
    <2>1. n \in Names /\ Trace(n)
      BY DEF FreshInv, CaptureInv, ConnectTypes, Trace
    <2> QED BY <2>1, ReturnsAhead
  <1>2. CASE DisjointShards /\ OnboardedOnce /\ LabelledAreRetired
    <2>1. Init => FreshInv
      BY <1>2, InitHasFreshInv
    <2>2. FreshInv /\ RetiresWhatItRead /\ [Next]_vars => FreshInv'
      BY <1>2, FreshInvIsInductive
    <2>3. FreshInv /\ [Next]_vars => [Step]_vars
      BY <1>1, <1>2
    <2>4. Spec /\ []RetiresWhatItRead => [][Step]_vars
      BY <2>1, <2>2, <2>3, PTL DEF Spec
    <2> QED BY <2>4 DEF FreshGenerations
  <1> QED BY <1>2
=============================================================================
