------------------------ MODULE ConfigReloadProofs ------------------------
(***************************************************************************)
(* Theorems about ConfigReload, for any set of calls, any documents and    *)
(* any contents of the file: nothing is assumed of a document but that the *)
(* validator accepted it.                                                  *)
(***************************************************************************)
EXTENDS ConfigReload, TLAPS

-----------------------------------------------------------------------------
(* Validator and resolver agree.                                           *)

\* Every route of a validated configuration without blank names resolves, to providers
\* that do what their slots are for.
LEMMA RouteResolves ==
    ASSUME NEW cfg, Validates(cfg), NoBlankName(cfg),
           NEW s \in DOMAIN cfg.tenants, NEW d, NEW t, s \in Serving(cfg, t)
    PROVE  Resolve(cfg, t, d) # {}
<1> DEFINE routes == cfg.tenants[s]
<1>1. PICK r : r \in Routes(cfg, s, d)
  <2>1. CASE d \in DOMAIN routes
    <3>1. routes[d] \in Routes(cfg, s, d) BY <2>1 DEF Routes
    <3> QED BY <3>1
  <2>2. CASE d \notin DOMAIN routes
    <3>1. "default" \in DOMAIN routes BY DEF Validates, RoutesLead
    <3>2. routes["default"] \in Routes(cfg, s, d) BY <2>2, <3>1 DEF Routes
    <3> QED BY <3>2
  <2> QED BY <2>1, <2>2
<1>2. PICK e \in DOMAIN routes : r = routes[e] BY <1>1 DEF Routes
<1>3. /\ r.pipeline \in DOMAIN cfg.pipelines
      /\ r.context \in DOMAIN cfg.contexts
  BY <1>2 DEF Validates, RoutesLead, NoBlankName
<1>4. \A slot \in DOMAIN cfg.pipelines[r.pipeline] :
         cfg.pipelines[r.pipeline][slot] \in DOMAIN cfg.modes
  BY <1>3 DEF Validates, PipelinesServed
<1>5. Plan(cfg, s, r) \in Resolve(cfg, t, d) BY <1>1, <1>3, <1>4 DEF Resolve
<1> QED BY <1>5

\* What resolve returns is made from a route of the tenants that serve the caller.
LEMMA PlanServed ==
    ASSUME NEW cfg, Validates(cfg), NEW t, NEW d, NEW plan \in Resolve(cfg, t, d),
           NEW slot \in DOMAIN plan.providers
    PROVE  cfg.modes[plan.providers[slot]] = slot
<1>1. PICK s, r : plan = Plan(cfg, s, r) /\ r.pipeline \in DOMAIN cfg.pipelines
  BY DEF Resolve
<1>2. plan.providers = cfg.pipelines[r.pipeline] BY <1>1 DEF Plan
<1> QED BY <1>1, <1>2 DEF Validates, PipelinesServed

\* What the validator accepts, the resolver routes.
LEMMA ValidRoutes ==
    ASSUME NEW cfg, Validates(cfg), NoBlankName(cfg), NEW t, NEW d
    PROVE  Routable(cfg, t, d)
<1> SUFFICES ASSUME t \in DOMAIN cfg.tenants \/ cfg.fallback.policy = "use_tenant"
             PROVE  Resolve(cfg, t, d) # {}
  BY PlanServed DEF Routable
<1>1. PICK s \in DOMAIN cfg.tenants : s \in Serving(cfg, t)
  <2>1. CASE t \in DOMAIN cfg.tenants BY <2>1 DEF Serving
  <2>2. CASE t \notin DOMAIN cfg.tenants
    BY <2>2 DEF Serving, Validates, FallbackKnown
  <2> QED BY <2>1, <2>2
<1> QED BY <1>1, RouteResolves

-----------------------------------------------------------------------------
(* The invariant.                                                          *)

\* What is in service was validated, and was swapped in.
InService == config # None => Loads(config)

\* A session has a version of its own: one that the store has had.
Versioned == \A c \in Calls : session[c] # None => session[c].version \in Nat

IInv == TypeOK /\ InService /\ Versioned /\ SessionsCoherent

\* What a reload does to the store.
LEMMA ReloadKeeps ==
    ASSUME TypeOK, InService, file' = file, Reload
    PROVE  /\ config' \in Documents \cup {None} /\ version' \in Nat /\ valid' \in BOOLEAN
           /\ config' # None => Loads(config')
           /\ \/ version' = version + 1 /\ Loads(config')
              \/ version' = version /\ config' = config
<1>1. CASE Loads(file) /\ Swap(file)
  <2>1. config' = file /\ version' = version + 1 /\ valid' = TRUE BY <1>1 DEF Swap
  <2>2. file \in Documents /\ version \in Nat BY <1>1 DEF Loads, TypeOK
  <2>3. Loads(config') BY <1>1, <2>1
  <2> QED BY <2>1, <2>2, <2>3
<1>2. CASE ~Loads(file) /\ MarkInvalid
  <2>1. config' = config /\ version' = version /\ valid' = FALSE BY <1>2 DEF MarkInvalid
  <2>2. config \in Documents \cup {None} /\ version \in Nat BY DEF TypeOK
  <2>3. config' # None => Loads(config') BY <2>1 DEF InService
  <2> QED BY <2>1, <2>2, <2>3
<1> QED BY <1>1, <1>2 DEF Reload

\* Sessions stay coherent with the store when it is reloaded.
LEMMA ReloadCoherent ==
    ASSUME IInv, Reload, UNCHANGED session
    PROVE  Versioned' /\ SessionsCoherent'
<1> SUFFICES ASSUME NEW c \in Calls, session[c] # None
             PROVE  /\ session[c].version \in Nat /\ session[c].version <= version'
                    /\ session[c].version = version' =>
                          session[c].plan \in Resolve(config', session[c].tenant, session[c].did)
  BY DEF Versioned, SessionsCoherent
<1>1. /\ session[c].version \in Nat /\ session[c].version <= version /\ version \in Nat
      /\ session[c].version = version =>
            session[c].plan \in Resolve(config, session[c].tenant, session[c].did)
  BY DEF IInv, Versioned, SessionsCoherent, TypeOK
<1>2. CASE version' = version + 1 BY <1>1, <1>2
<1>3. CASE version' = version /\ config' = config BY <1>1, <1>3
<1> QED BY <1>2, <1>3 DEF Reload, Swap, MarkInvalid

\* A step that leaves the store and the sessions alone keeps them coherent.
LEMMA StoreKept ==
    ASSUME InService, Versioned, SessionsCoherent, UNCHANGED <<store, session>>
    PROVE  InService' /\ Versioned' /\ SessionsCoherent'
  BY DEF InService, Versioned, SessionsCoherent, Loads, store

LEMMA InitInv == Init => IInv
<1> SUFFICES ASSUME Init PROVE IInv
  OBVIOUS
<1>1. TypeOK
  <2>1. nodes = {} /\ DOMAIN session = Calls BY DEF Init
  <2>2. edits \in 0..MaxEdits BY ConfigReloadAssumption DEF Init
  <2>3. nodes \subseteq UNION {doc.asterisk_nodes : doc \in Documents} BY <2>1
  <2> QED BY <2>1, <2>2, <2>3 DEF Init, TypeOK
<1>2. \A c \in Calls : session[c] = None BY DEF Init
<1>3. InService BY DEF Init, InService
<1> QED BY <1>1, <1>2, <1>3 DEF IInv, Versioned, SessionsCoherent

LEMMA StepInv == IInv /\ [Next]_vars => IInv'
<1> SUFFICES ASSUME IInv, [Next]_vars PROVE IInv'
  OBVIOUS
<1> USE DEF IInv
<1>1. CASE Boot
  <2>1. \/ Reload
        \/ UNCHANGED store
    BY <1>1 DEF Boot
  <2>2. nodes' \subseteq UNION {doc.asterisk_nodes : doc \in Documents}
    <3>1. config' \in Documents \cup {None}
      BY <1>1, <2>1, ReloadKeeps DEF Boot, TypeOK, store
    <3> QED BY <3>1, <1>1 DEF Boot
  <2>3. TypeOK'
    <3>1. config' \in Documents \cup {None} /\ version' \in Nat /\ valid' \in BOOLEAN
      BY <1>1, <2>1, ReloadKeeps DEF Boot, TypeOK, store
    <3> QED BY <1>1, <2>2, <3>1 DEF Boot, TypeOK, watcher
  <2>4. InService' BY <1>1, <2>1, ReloadKeeps DEF Boot, InService, Loads, store
  <2>5. CASE Reload BY <2>5, <2>3, <2>4, <1>1, ReloadCoherent DEF Boot
  <2>6. CASE UNCHANGED store BY <2>6, <2>3, <2>4, <1>1, StoreKept DEF Boot
  <2> QED BY <2>1, <2>5, <2>6
<1>2. CASE Wire
  <2>1. TypeOK' BY <1>2 DEF Wire, TypeOK, store
  <2> QED BY <2>1, <1>2, StoreKept DEF Wire
<1>3. CASE Edit
  <2>1. TypeOK' BY <1>3, ConfigReloadAssumption DEF Edit, TypeOK, store
  <2> QED BY <2>1, <1>3, StoreKept DEF Edit
<1>4. CASE Observe
  <2>1. TypeOK' BY <1>4 DEF Observe, TypeOK, store
  <2> QED BY <2>1, <1>4, StoreKept DEF Observe
<1>5. CASE ScheduleReload
  <2>1. TypeOK' BY <1>5 DEF ScheduleReload, TypeOK, store
  <2> QED BY <2>1, <1>5, StoreKept DEF ScheduleReload
<1>6. CASE TimerFires
  <2>1. TypeOK' BY <1>6 DEF TimerFires, TypeOK, store
  <2> QED BY <2>1, <1>6, StoreKept DEF TimerFires
<1>7. CASE ReloadDue
  <2>1. TypeOK' /\ InService'
    BY <1>7, ReloadKeeps DEF ReloadDue, TypeOK, InService, Loads
  <2> QED BY <2>1, <1>7, ReloadCoherent DEF ReloadDue
<1>8. CASE AdminReload
  <2>1. TypeOK' /\ InService'
    BY <1>8, ReloadKeeps DEF AdminReload, TypeOK, InService, Loads, watcher
  <2> QED BY <2>1, <1>8, ReloadCoherent DEF AdminReload
<1>9. CASE Stop
  <2>1. TypeOK' BY <1>9 DEF Stop, TypeOK, store
  <2> QED BY <2>1, <1>9, StoreKept DEF Stop
<1>10. ASSUME NEW c \in Calls, NEW t \in TenantIds, NEW d \in Dids, Arrive(c, t, d)
       PROVE  IInv'
  <2>1. PICK plan \in Resolve(config, t, d) :
           session' = [session EXCEPT ![c] =
                          [tenant |-> t, did |-> d, version |-> version, plan |-> plan]]
    BY <1>10 DEF Arrive
  <2>2. TypeOK' /\ InService'
    BY <1>10, <2>1 DEF Arrive, TypeOK, InService, Loads, store, watcher
  <2>3. ASSUME NEW b \in Calls, session'[b] # None
        PROVE  /\ session'[b].version \in Nat /\ session'[b].version <= version
               /\ session'[b].version = version =>
                     session'[b].plan \in Resolve(config, session'[b].tenant, session'[b].did)
    <3>1. CASE b = c
      <4>1. session'[b] = [tenant |-> t, did |-> d, version |-> version, plan |-> plan]
        BY <2>1, <3>1 DEF TypeOK
      <4> QED BY <4>1, <2>1 DEF TypeOK
    <3>2. CASE b # c
      <4>1. session'[b] = session[b] BY <2>1, <3>2 DEF TypeOK
      <4> QED BY <4>1, <2>3 DEF Versioned, SessionsCoherent
    <3> QED BY <3>1, <3>2
  <2>4. UNCHANGED <<config, version>> BY <1>10 DEF Arrive, store
  <2>5. Versioned' /\ SessionsCoherent' BY <2>3, <2>4 DEF Versioned, SessionsCoherent
  <2> QED BY <2>2, <2>5
<1>11. CASE UNCHANGED vars
  <2>1. TypeOK' BY <1>11 DEF vars, TypeOK
  <2> QED BY <2>1, <1>11, StoreKept DEF vars, store
<1> QED
  BY <1>1, <1>2, <1>3, <1>4, <1>5, <1>6, <1>7, <1>8, <1>9, <1>10, <1>11 DEF Next

\* IInv is inductive.
THEOREM ConfigInvariant == Spec => []IInv
  BY InitInv, StepInv, PTL DEF Spec

-----------------------------------------------------------------------------
\* Every variable of the configuration store, the watcher and main() keeps its type.
THEOREM ConfigTypeCorrect == Spec => []TypeOK
<1>1. IInv => TypeOK BY DEF IInv
<1> QED BY <1>1, ConfigInvariant, PTL

\* Whatever is in the file and whenever it is read, the configuration in service routes
\* the callers it promises to route (TenantResolver.resolve does not raise for them).
THEOREM ServiceAlwaysRoutes == Spec => []ServiceRoutes
<1>1. IInv => ServiceRoutes BY ValidRoutes DEF IInv, InService, Loads, ServiceRoutes
<1> QED BY <1>1, ConfigInvariant, PTL

\* The version of a call's SessionConfig names the snapshot its plan was made from.
THEOREM SessionsAlwaysCoherent == Spec => []SessionsCoherent
<1>1. IInv => SessionsCoherent BY DEF IInv
<1> QED BY <1>1, ConfigInvariant, PTL

-----------------------------------------------------------------------------
(* What EditsLoaded rests on.                                              *)

\* A reload leaves the store saying what the file holds.
LEMMA ReloadReflects == ASSUME Reload, file' = file PROVE Reflected'
<1>1. Loads(file') <=> Loads(file)
  BY DEF Loads
<1>2. CASE Loads(file) /\ Swap(file)
  BY <1>1, <1>2 DEF Swap, Reflected
<1>3. CASE ~Loads(file) /\ MarkInvalid
  BY <1>1, <1>3 DEF MarkInvalid, Reflected
<1> QED
  BY <1>2, <1>3 DEF Reload

\* The safety part of EditsLoaded: what fairness adds is that the reload on its way comes.
THEOREM EditIsNeverForgotten == Spec => EditNeverForgotten
<1> DEFINE Kept == /\ watching /\ file' # file /\ file' # Missing => Owed'
                   /\ Owed /\ ~Owed' => Reflected' \/ main' = "stopping"
<1>1. IInv /\ [Next]_vars => [Kept]_vars
  <2> SUFFICES ASSUME IInv, Next PROVE Kept
    OBVIOUS
  <2>1. due \in Nat
    BY DEF IInv, TypeOK
  <2>2. CASE Edit
    BY <2>2 DEF Edit, Owed
  <2>3. CASE ReloadDue
    BY <2>3, ReloadReflects DEF ReloadDue
  <2>4. CASE TimerFires
    BY <2>1, <2>4 DEF TimerFires, Owed
  <2>5. CASE Observe \/ ScheduleReload \/ Stop
    BY <2>5 DEF Observe, ScheduleReload, Stop, Owed
  <2>6. CASE Boot \/ Wire \/ AdminReload
    BY <2>6 DEF Boot, Wire, AdminReload, Owed, watcher
  <2>7. ASSUME NEW c \in Calls, NEW t \in TenantIds, NEW d \in Dids, Arrive(c, t, d) PROVE Kept
    BY <2>7 DEF Arrive, Owed, watcher
  <2> QED
    BY <2>2, <2>3, <2>4, <2>5, <2>6, <2>7 DEF Next
<1> QED
  BY <1>1, ConfigInvariant, PTL DEF Spec, EditNeverForgotten

=============================================================================
