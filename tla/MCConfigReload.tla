--------------------------- MODULE MCConfigReload ---------------------------
EXTENDS ConfigReload, TLC

Route(p, x) == [pipeline |-> p, context |-> x]

\* Two services, one pipeline of each kind, one tenant with a DID of its own.
Good ==
    [modes |-> "s" :> "stt" @@ "l" :> "llm" @@ "t" :> "tts" @@ "a" :> "full_agent",
     pipelines |-> "mod" :> [stt |-> "s", llm |-> "l", tts |-> "t"]
                @@ "full" :> ("full_agent" :> "a"),
     contexts |-> "x" :> "8k" @@ "y" :> Blank,
     profiles |-> {"8k"}, defaultProfile |-> "8k",
     tenants |-> "acme" :> ("default" :> Route("mod", "x") @@ "100" :> Route("full", "y")),
     defaults |-> [silence_threshold_ms |-> 800, min_words |-> 3],
     overrides |-> "acme" :> [min_words |-> 1],
     fallback |-> [policy |-> "use_tenant", tenant |-> "acme"],
     asterisk_nodes |-> {"pbx"}]

Rerouted == [Good EXCEPT !.tenants["acme"]["100"] = Route("mod", "x"), !.profiles = {}]

\* What is left of a file that an editor has truncated: no tenants, no nodes, and valid.
Empty == [Good EXCEPT !.modes = <<>>, !.pipelines = <<>>, !.contexts = <<>>, !.profiles = {},
                      !.tenants = <<>>, !.overrides = <<>>,
                      !.fallback = [policy |-> "reject", tenant |-> Blank],
                      !.asterisk_nodes = {}]

BlankRoute    == [Good EXCEPT !.tenants["acme"]["100"] = Route(Blank, "x")]
NoDefault     == [Good EXCEPT !.tenants = "acme" :> ("100" :> Route("mod", "x"))]
WrongMode     == [Good EXCEPT !.modes["l"] = "tts"]
LostFallback  == [Good EXCEPT !.fallback.tenant = "nobody"]
UnknownTarget == [Good EXCEPT !.tenants["acme"]["100"] = Route("mod", "z")]

MCDocuments == {Good, Rerouted, Empty, BlankRoute, NoDefault, WrongMode, LostFallback, UnknownTarget}

=============================================================================
