----------------------------- MODULE MCPlatform -----------------------------
(* The components that share no state with each other in one run.  A       *)
(* behaviour is one of one component, chosen at the start; the others keep *)
(* their initial state, so that the state spaces add and do not multiply.  *)
EXTENDS MCIngestion, CorrelationRules, AdapterHealth, Plugins, RedirectChain,
        MonitorDiff, EntityService, RateLimiter

VARIABLE focus

MCTypeOf == "mail" :> "email" @@ "nick" :> "username" @@ "town" :> "city"
              @@ "addr" :> "ip"
MCFindable == ({"nick"} \X EvidenceId)
                \union {<<"mail", "v1">>, <<"addr", "v1">>, <<"owns", "v2">>}

MCRaised == {[name |-> "ValidationError", status |-> 0],
             [name |-> "ClientError", status |-> 404],
             [name |-> "RuntimeError", status |-> 503]}

MCScopes == {{f} : f \in Field}
              \union {{"vulns", "ports"}, {"ip", "asn"}, {"certs", "dns_a"}}

MCTables == {"e1" :> 9 @@ "e2" :> 6 @@ "e3" :> 5,
             "e1" :> 3 @@ "e2" :> 7 @@ "e3" :> 5}

MCLimit == "k1" :> 1 @@ "k2" :> 2

otherVars == <<rulesVars, healthVars, pluginVars, redirectVars, diffVars,
               serviceVars, rateVars>>

\* The component in focus starts anywhere it may, the others in one state.
PlatformInit ==
  /\ focus \in {"ingestion", "rules", "health", "plugins", "redirects",
                "monitor", "entities", "limiter"}
  /\ Init /\ (focus # "ingestion" => database = "sqlite")
  /\ RulesInit
  /\ HealthInit
  /\ PluginInit
  /\ RedirectInit
  /\ focus # "redirects" => /\ answers = [u \in Url |-> "final"]
                            /\ current = CHOOSE u \in Url : TRUE
  /\ DiffInit /\ (focus # "monitor" => scope = {"ip"})
  /\ ServiceInit /\ (focus # "entities" => autoflush)
  /\ RateInit

PlatformNext ==
  \/ focus = "ingestion" /\ Next /\ UNCHANGED <<focus, otherVars>>
  \/ /\ focus = "rules" /\ RulesNext
     /\ UNCHANGED <<focus, vars, healthVars, pluginVars, redirectVars,
                    diffVars, serviceVars, rateVars>>
  \/ /\ focus = "health" /\ HealthNext
     /\ UNCHANGED <<focus, vars, rulesVars, pluginVars, redirectVars,
                    diffVars, serviceVars, rateVars>>
  \/ /\ focus = "plugins" /\ PluginNext
     /\ UNCHANGED <<focus, vars, rulesVars, healthVars, redirectVars,
                    diffVars, serviceVars, rateVars>>
  \/ /\ focus = "redirects" /\ RedirectNext
     /\ UNCHANGED <<focus, vars, rulesVars, healthVars, pluginVars,
                    diffVars, serviceVars, rateVars>>
  \/ /\ focus = "monitor" /\ DiffNext
     /\ UNCHANGED <<focus, vars, rulesVars, healthVars, pluginVars,
                    redirectVars, serviceVars, rateVars>>
  \/ /\ focus = "entities" /\ ServiceNext
     /\ UNCHANGED <<focus, vars, rulesVars, healthVars, pluginVars,
                    redirectVars, diffVars, rateVars>>
  \/ /\ focus = "limiter" /\ RateNext
     /\ UNCHANGED <<focus, vars, rulesVars, healthVars, pluginVars,
                    redirectVars, diffVars, serviceVars>>

PlatformSpec == PlatformInit /\ [][PlatformNext]_<<focus, vars, otherVars>>

PlatformTypeOK ==
  /\ IngestTypeOK /\ RulesTypeOK /\ HealthTypeOK /\ PluginTypeOK
  /\ RedirectTypeOK /\ DiffTypeOK /\ ServiceTypeOK /\ RateTypeOK
=============================================================================
