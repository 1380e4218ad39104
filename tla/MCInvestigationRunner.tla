----------------------- MODULE MCInvestigationRunner -----------------------
(* A bulk request of two targets and one whose first target has no plugin. *)
EXTENDS InvestigationRunner, TLC

CONSTANTS dns, whois, certs, site, mail, bulk, other, first, second, none, third

MCSubmitted == bulk :> <<first, second>> @@ other :> <<none, third>>
MCTargetOf == [i \in Investigation |-> IF i = second THEN mail ELSE site]
MCPluginsOf == first :> {dns, whois, certs} @@ second :> {whois}
                 @@ none :> {} @@ third :> {dns}
=============================================================================
