---------------------------- MODULE TenantConfig ----------------------------
(***************************************************************************)
(* tenants.yaml as far as the routing of a call is concerned: what the     *)
(* validator of TenantsConfig accepts, and what TenantResolver.resolve     *)
(* makes of it.  The two are written apart in the code and must agree.     *)
(*                                                                         *)
(* A configuration is a record of                                          *)
(*   modes      [provider id -> its mode],                                 *)
(*   pipelines  [pipeline id -> [slot -> provider id]], the slots being    *)
(*              stt, llm and tts, or full_agent alone,                     *)
(*   contexts   [context id -> the name of its audio profile],             *)
(*   profiles   the names of the audio profiles, and defaultProfile,       *)
(*   tenants    [tenant id -> [DID -> [pipeline, context]]],               *)
(*   overrides  [tenant id -> [setting -> value]] for some of the settings *)
(*              of speech detection and interruption, defaults for all,    *)
(*   fallback   [policy, tenant]; a file without one rejects,              *)
(*   asterisk_nodes   the nodes of the ARI pool.                           *)
(* Blank is the empty string, which a missing value or an unset            *)
(* environment variable becomes (loader._sanitize_none, _expand_env).      *)
(***************************************************************************)

Blank == ""
BuiltIn == "built-in"   \* AudioProfileCfg(), the profile of an unknown name

-----------------------------------------------------------------------------
(* TenantsConfig._validate_cross_references                                *)

\* Every slot of a pipeline names a provider of the mode the slot is for.
PipelinesServed(cfg) ==
    \A p \in DOMAIN cfg.pipelines : \A slot \in DOMAIN cfg.pipelines[p] :
        LET ref == cfg.pipelines[p][slot] IN
            ref \in DOMAIN cfg.modes /\ cfg.modes[ref] = slot

\* A name left blank is let through.
RoutesLead(cfg) ==
    \A t \in DOMAIN cfg.tenants :
        /\ "default" \in DOMAIN cfg.tenants[t]
        /\ \A d \in DOMAIN cfg.tenants[t] :
              /\ cfg.tenants[t][d].pipeline \in DOMAIN cfg.pipelines \cup {Blank}
              /\ cfg.tenants[t][d].context \in DOMAIN cfg.contexts \cup {Blank}

ProfilesKnown(cfg) ==
    cfg.profiles # {} =>
        \A c \in DOMAIN cfg.contexts : cfg.contexts[c] \in cfg.profiles \cup {Blank}

FallbackKnown(cfg) ==
    cfg.fallback.policy = "use_tenant" =>
        cfg.fallback.tenant # Blank /\ cfg.fallback.tenant \in DOMAIN cfg.tenants

\* Seeded defect: the fallback is not looked at.
ValidatesNoFallback(cfg) == PipelinesServed(cfg) /\ RoutesLead(cfg) /\ ProfilesKnown(cfg)

Validates(cfg) ==
    PipelinesServed(cfg) /\ RoutesLead(cfg) /\ ProfilesKnown(cfg) /\ FallbackKnown(cfg)

-----------------------------------------------------------------------------
(* TenantResolver.resolve(t, d)                                            *)

\* The tenants that may serve t: itself if it is known, or else the fallback.
Serving(cfg, t) ==
    DOMAIN cfg.tenants \cap
        (IF t \in DOMAIN cfg.tenants THEN {t}
         ELSE IF cfg.fallback.policy = "use_tenant" THEN {cfg.fallback.tenant} ELSE {})

\* The routes that may lead DID d of tenant s: its own, or else the default.
Routes(cfg, s, d) ==
    LET routes == cfg.tenants[s] IN
        {routes[e] : e \in DOMAIN routes \cap (IF d \in DOMAIN routes THEN {d} ELSE {"default"})}

Profile(cfg, context) ==
    LET own == cfg.contexts[context]
        name == IF own = Blank THEN cfg.defaultProfile ELSE own
    IN  IF name \in cfg.profiles THEN name ELSE BuiltIn

\* A setting the tenant does not override has its default.
MergeOverrides(cfg, s) ==
    LET own == cfg.overrides[s] IN
        [k \in DOMAIN cfg.defaults |-> IF k \in DOMAIN own THEN own[k] ELSE cfg.defaults[k]]

\* The SessionConfig; the tenant stands for its transfer settings.
Plan(cfg, s, r) ==
    [tenant |-> s, providers |-> cfg.pipelines[r.pipeline], context |-> r.context,
     profile |-> Profile(cfg, r.context), overrides |-> MergeOverrides(cfg, s)]

\* What resolve returns: one plan, or nothing where it raises, be it on purpose (an
\* unknown tenant or DID) or by a KeyError (an unknown pipeline, context or provider).
Resolve(cfg, t, d) ==
    UNION {{Plan(cfg, s, r) : r \in {r \in Routes(cfg, s, d) :
               /\ r.pipeline \in DOMAIN cfg.pipelines
               /\ r.context \in DOMAIN cfg.contexts
               /\ \A slot \in DOMAIN cfg.pipelines[r.pipeline] :
                     cfg.pipelines[r.pipeline][slot] \in DOMAIN cfg.modes}}
           : s \in Serving(cfg, t)}

-----------------------------------------------------------------------------
\* No route leaves its pipeline or its context blank.
NoBlankName(cfg) ==
    \A t \in DOMAIN cfg.tenants : \A d \in DOMAIN cfg.tenants[t] :
        cfg.tenants[t][d].pipeline # Blank /\ cfg.tenants[t][d].context # Blank

\* Whatever DID they call, the callers of a tenant that is known, and all callers if
\* there is a fallback, get a plan whose providers do what their slots are for.
Routable(cfg, t, d) ==
    t \in DOMAIN cfg.tenants \/ cfg.fallback.policy = "use_tenant" =>
        /\ Resolve(cfg, t, d) # {}
        /\ \A plan \in Resolve(cfg, t, d) :
              \A slot \in DOMAIN plan.providers : cfg.modes[plan.providers[slot]] = slot

=============================================================================
