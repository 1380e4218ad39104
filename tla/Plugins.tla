------------------------------ MODULE Plugins ------------------------------
(***************************************************************************)
(* The plugins of an investigation: src/argus/plugins/*_plugin.py, each    *)
(* one call of its run method.                                             *)
(*                                                                         *)
(* A plugin may refuse its target, then asks outside services in stages,   *)
(* and ends with success or failure; the evidence row of a failure holds   *)
(* its error.  What differs from plugin to plugin is which requests it     *)
(* makes, which answers it can go on without, and what it must have found, *)
(* so a plugin is a value, and one pair of actions runs them all.          *)
(*                                                                         *)
(* What an answer says is abstracted to whether it brought data.  A check  *)
(* function that makes several requests in one try block is one source.    *)
(* Plugins that probe a list of sites are given two of them.  Left out:    *)
(* redirect_chain and email_security, which have modules of their own.     *)
(***************************************************************************)
EXTENDS Naturals, Sequences, FiniteSets

VARIABLES
  plugin,    \* the plugin that runs
  todo,      \* its stages from the current one on
  asked,     \* sources of the current stage that have not answered
  heard,     \* sources that answered, whatever they said
  got,       \* sources that brought data
  verdict    \* PluginResult.success, when the run has ended

pluginVars == <<plugin, todo, asked, heard, got, verdict>>

-----------------------------------------------------------------------------
(* Stages.                                                                 *)

\* A source answers with data, with nothing, with 404, with another status
\* than 200, not at all because no connection can be made, or with any other
\* exception.
Reply == {"data", "empty", "absent", "error", "unreachable", "raised"}

Answered == {"data", "empty"}
Bad == Reply \ Answered

\* Sources asked at once, each in a try block of its own: whatever they answer
\* the plugin goes on.
Optional(S) ==
  [atOnce |-> S, inTurn |-> <<>>, accepts |-> {}, skips |-> {}, ends |-> {}]

\* Sources asked in turn until one gives an answer the plugin accepts.  An
\* answer in skips leads to the next source, if there is one; an answer in
\* ends is the end of the run, with success; any other ends it with failure.
InTurn(q, accepts, skips, ends) ==
  [atOnce |-> {}, inTurn |-> q,
   accepts |-> accepts, skips |-> skips, ends |-> ends]

Required(s) == InTurn(<<s>>, Answered, {}, {})
RequiredData(s) == InTurn(<<s>>, {"data"}, {}, {})
UnlessUnknown(s) == InTurn(<<s>>, Answered, {}, {"absent"})

\* refuses: the plugin checks its target (or its key) and may refuse it;
\* stages: what it asks; needs: it fails unless one of these brought data.
Plugin(name, refuses, stages, needs) ==
  [name |-> name, refuses |-> refuses, stages |-> stages, needs |-> needs]

-----------------------------------------------------------------------------
(* The plugins.  A definition with the name of the next one and a suffix,  *)
(* and no comment of its own, is a faulty variant of it, used to test that *)
(* the property below can fail.                                            *)

AiAnalysisPlugin == Plugin("ai_analysis", TRUE, <<Required("gemini")>>, {})

\* The address is resolved unless the target is one; bgpview is asked for the
\* address, then for the ASN found.
BgpPlugin == Plugin("bgp", FALSE,
  <<InTurn(<<"resolver">>, {"data"}, {}, {}),
    Optional({"bgpview_ip", "ripe_abuse"}),
    Optional({"bgpview_asn"})>>, {})

BlockstreamPlugin == Plugin("blockstream", TRUE,
  <<Required("address"), Optional({"txs"})>>, {})

BlueskyPlugin == Plugin("bluesky", TRUE, <<RequiredData("profile")>>, {})

BreachPlugin == Plugin("breach", FALSE,
  <<Optional({"leakcheck", "emailrep", "domain_breaches"})>>, {})

CertsPlugin == Plugin("certs", FALSE, <<Required("crt.sh")>>, {})

CobaltstrikePlugin == Plugin("cobaltstrike", TRUE,
  <<Optional({"https_uri", "http_uri"})>>, {})

CrossrefPlugin == Plugin("crossref", TRUE, <<Required("works")>>, {})

CryptoTracerPlugin == Plugin("crypto_tracer", TRUE,
  <<Optional({"balance", "transactions"})>>, {})

RecordType == {"A", "AAAA", "MX", "NS", "TXT", "CNAME"}
DnsPluginReportsNothing == Plugin("dns", FALSE, <<Optional(RecordType)>>, {})
DnsPlugin == Plugin("dns", FALSE, <<Optional(RecordType)>>, RecordType)

DnssecPlugin == Plugin("dnssec", FALSE,
  <<Optional({"dnskey", "ds", "rrsig", "validation"})>>, {"dnskey"})

EmailPlugin == Plugin("email", TRUE,
  <<Optional({"mx", "gravatar", "emailrep", "github", "hunter"})>>, {})

EmailAgePlugin == Plugin("email_age", TRUE,
  <<Optional({"hudson_rock", "emailrep", "github_user", "gravatar",
       "leakcheck"})>>, {})

EmailBreachTimelinePlugin == Plugin("breach_timeline", TRUE,
  <<Optional({"leakcheck", "emailrep", "hudson_rock"})>>, {})

\* A domain of the built-in list is not looked up at the registry.
EmailDisposablePlugin == Plugin("email_disposable", TRUE,
  <<Optional({"mx", "rdap"})>>, {})

EmailDomainProfilePlugin == Plugin("email_domain_profile", TRUE,
  <<Optional({"rdap", "mx", "records"})>>, {})

EmailIdentityPlugin == Plugin("email_identity", TRUE,
  <<Optional({"github_code", "github_users", "linkedin", "hudson_rock"})>>,
   {})

EmailPatternPlugin == Plugin("email_patterns", TRUE,
  <<Optional({"google_dorks", "github", "github_users", "gravatar"})>>, {})

EmailReversePlugin == Plugin("email_reverse", TRUE,
  <<Optional({"psbdmp", "duckduckgo", "github_code", "github_users",
       "intelx"})>>, {})

EmailUsernamePlugin == Plugin("email_username", TRUE,
  <<Optional({"variation1", "variation2"})>>, {})

\* Without MX or A records, and when no mail host can be talked to, the answer
\* is a success that says so.
EmailVerifyPlugin == Plugin("email_verify", TRUE,
  <<InTurn(<<"mx_record", "a_record">>, {"data"}, Reply, Reply),
    InTurn(<<"host1", "host2">>, Answered, Bad, Bad)>>, {})

EnsResolverPlugin == Plugin("ens_resolver", TRUE,
  <<Required("metadata")>>, {})

EntityPlugin == Plugin("entity", FALSE,
  <<Optional({"news", "opencorporates", "sec_edgar", "duckduckgo",
       "linkedin", "people_search", "github"})>>, {})

\* With an API key etherscan is asked, and must answer with data; without one
\* a public node.
EtherscanPlugin == Plugin("etherscan", TRUE,
  <<RequiredData("balance"), Optional({"transactions"})>>, {})
PublicRpc == Plugin("etherscan", TRUE,
  <<Required("eth_getBalance"), Optional({"eth_getTransactionCount"})>>, {})

FlightPlugin == Plugin("flight_tracker", TRUE, <<RequiredData("states")>>, {})

GdeltPlugin == Plugin("gdelt", TRUE, <<Required("articles")>>, {})

GithubDorkPlugin == Plugin("github_dorks", FALSE,
  <<Optional({"password", "api_key", "secret", "env", "database_url"})>>, {})

\* One search after the other.
GithubOsintPlugin == Plugin("github_osint", FALSE,
  <<Optional({"code", "repos", "users", "commits", "issues"})>>, {})

GleifPlugin == Plugin("gleif", TRUE, <<Required("lei_records")>>, {})

Dork == {"dork1", "dork2", "dork3"}
GoogleDorkPlugin == Plugin("google_dorks", FALSE, <<Optional(Dork)>>, Dork)

GreyNoisePlugin == Plugin("greynoise", TRUE,
  <<UnlessUnknown("community")>>, {})

\* Any answer will do, whatever its status.  A scheme that cannot be connected
\* to gives way to the next; any other exception ends the run.
HttpPlugin == Plugin("http", TRUE,
  <<InTurn(<<"https", "http">>, Reply \ {"unreachable", "raised"},
       {"unreachable"}, {})>>, {})

\* The check digits are computed; nothing is asked.
IbanPlugin == Plugin("iban", TRUE, <<>>, {})

ImagePlugin == Plugin("image", TRUE, <<RequiredData("file")>>, {})

IpPlugin == Plugin("ip_geo", FALSE,
  <<RequiredData("resolver"), RequiredData("ip-api")>>, {})

JarmPlugin == Plugin("jarm", TRUE, <<Required("handshake")>>, {})

MacLookupPlugin == Plugin("mac_lookup", TRUE, <<Optional({"ieee"})>>, {})

MalwareBazaarPlugin == Plugin("malwarebazaar", TRUE,
  <<Required("samples")>>, {})

MastodonPlugin == Plugin("mastodon", TRUE, <<RequiredData("accounts")>>, {})

NostrPlugin == Plugin("nostr", TRUE, <<RequiredData("profile")>>, {})

OnionCheckerPlugin == Plugin("onion_checker", FALSE,
  <<Optional({"proxy1", "proxy2", "ahmia", "tor66"})>>, {})

OpenAlexPlugin == Plugin("openalex", TRUE, <<Required("works")>>, {})

OpenCorporatesPlugin == Plugin("opencorporates", TRUE,
  <<Required("companies")>>, {})

OpenSanctionsPlugin == Plugin("opensanctions", FALSE,
  <<Required("matches")>>, {})

OtxPlugin == Plugin("otx", FALSE, <<UnlessUnknown("pulses")>>, {})

PassiveDnsPlugin == Plugin("passive_dns", FALSE,
  <<Optional({"history", "reverse_ip", "whois", "nmap", "ip_history",
       "reverse_mx"})>>, {})

PastebinPlugin == Plugin("pastes", FALSE,
  <<Optional({"github_code", "pastebin", "psbdmp", "intelx", "dehashed"})>>,
   {})

PdfMetadataPlugin == Plugin("pdf_metadata", TRUE,
  <<RequiredData("file")>>, {})

\* The number is parsed, then looked up if that works.
PhonePlugin == Plugin("phone", TRUE, <<Optional({"numverify", "hlr"})>>, {})

PortScanPlugin == Plugin("port_scan", FALSE,
  <<Optional({"resolver"}),
    Optional({"internetdb", "nmap"})>>, {"internetdb", "nmap"})

ProfilePlugin == Plugin("profile", FALSE,
  <<Optional({"github", "reddit", "hackernews", "nitter", "devto",
       "keybase"})>>, {})

ReputationPlugin == Plugin("reputation", FALSE,
  <<Optional({"urlhaus", "urlhaus_host", "phishtank", "tor", "spamhaus",
       "abuseipdb"})>>, {})

RobotsSitemapPlugin == Plugin("robots_sitemap", FALSE,
  <<Optional({"robots", "sitemap"})>>, {"robots", "sitemap"})

\* The search twice, then the public feed: the fallback is built as the same
\* address.
SecEdgarPlugin == Plugin("secedgar", TRUE,
  <<InTurn(<<"search", "search_index", "atom">>, Answered, Bad, {})>>, {})

\* A page is accepted unless the server failed; https, then http.
SecretScannerPlugin == Plugin("secret_scanner", TRUE,
  <<InTurn(<<"https", "http">>, Answered \union {"absent"}, Bad \ {"absent"},
       {})>>, {})

ShodanDorkPlugin == Plugin("shodan_dork", FALSE,
  <<Optional({"resolver"}),
    Optional({"internetdb", "hackertarget"})>>,
   {"internetdb", "hackertarget"})

ShodanPlugin == Plugin("shodan", FALSE,
  <<Optional({"resolver"}), Optional({"internetdb", "host_search"})>>, {})

SocialEmailPlugin == Plugin("social_email", FALSE,
  <<Optional({"site1", "site2"})>>, {})

Platform == {"reddit", "github", "hackernews"}
SocialPostsPlugin == Plugin("social_posts", FALSE,
  <<Optional(Platform)>>, Platform)

\* The three records are looked up one after the other, then the selectors.
SpfDmarcPlugin == Plugin("spf_dmarc", FALSE,
  <<Optional({"spf"}),
    Optional({"dmarc"}),
    Optional({"selector1", "selector2"})>>, {})

SslAnalysisPlugin == Plugin("ssl_analysis", FALSE,
  <<RequiredData("certificate"), Optional({"hsts"})>>, {})

StackExchangePlugin == Plugin("stackexchange", TRUE,
  <<Required("users")>>, {})

\* Four services at once, with the brute force of common names.
SubdomainPlugin == Plugin("subdomains", FALSE,
  <<Optional({"hackertarget", "rapiddns", "crt.sh", "common_names"})>>, {})

\* What the page is built with must be recognised; https, then http.
TechnologyPlugin == Plugin("technology", FALSE,
  <<InTurn(<<"https", "http">>, Reply \ {"unreachable", "raised"},
       {"unreachable", "raised"}, {})>>, {"https", "http"})

ThreatFoxPlugin == Plugin("threatfox", FALSE, <<Required("iocs")>>, {})

TyposquatPlugin == Plugin("typosquat", TRUE,
  <<Optional({"variant1", "variant2"})>>, {})

UrlScanPlugin == Plugin("urlscan", FALSE, <<Required("results")>>, {})

UsernamePlugin == Plugin("username", TRUE,
  <<Optional({"platform1", "platform2"})>>, {})

\* The REST service, then the SOAP one.
ViesPlugin == Plugin("vies", TRUE,
  <<InTurn(<<"rest", "soap">>, Answered, Bad, {})>>, {})

VinPlugin == Plugin("vin_decoder", TRUE, <<RequiredData("vpic")>>, {})

VirusTotalPlugin == Plugin("virustotal", TRUE,
  <<UnlessUnknown("report")>>, {})

WaybackPlugin == Plugin("wayback", FALSE,
  <<Optional({"availability", "cdx", "changes"})>>, {})

WhoisPlugin == Plugin("whois", FALSE, <<RequiredData("whois")>>, {})

-----------------------------------------------------------------------------
(* Which plugins an investigation runs.                                    *)

AllPlugins ==
  [domain |->
     {WhoisPlugin, DnsPlugin, CertsPlugin, IpPlugin, HttpPlugin, ShodanPlugin,
      WaybackPlugin, BgpPlugin, ReputationPlugin, SubdomainPlugin,
      PassiveDnsPlugin, PastebinPlugin, GithubOsintPlugin, GoogleDorkPlugin,
      GithubDorkPlugin, RobotsSitemapPlugin, SslAnalysisPlugin, DnssecPlugin,
      SpfDmarcPlugin, ShodanDorkPlugin, PortScanPlugin, TechnologyPlugin,
      EmailPatternPlugin, ThreatFoxPlugin, UrlScanPlugin, VirusTotalPlugin,
      OtxPlugin, TyposquatPlugin, JarmPlugin, CobaltstrikePlugin,
      SecretScannerPlugin, GdeltPlugin, SecEdgarPlugin, GleifPlugin,
      OpenAlexPlugin, CrossrefPlugin, OpenSanctionsPlugin},
   url |->
     {WhoisPlugin, DnsPlugin, CertsPlugin, IpPlugin, HttpPlugin, ShodanPlugin,
      WaybackPlugin, BgpPlugin, ReputationPlugin, SubdomainPlugin,
      PassiveDnsPlugin, GithubOsintPlugin, GoogleDorkPlugin, GithubDorkPlugin,
      RobotsSitemapPlugin, SslAnalysisPlugin, DnssecPlugin, SpfDmarcPlugin,
      ShodanDorkPlugin, PdfMetadataPlugin, PortScanPlugin, TechnologyPlugin,
      EmailPatternPlugin, ThreatFoxPlugin, UrlScanPlugin, VirusTotalPlugin,
      OtxPlugin, JarmPlugin, CobaltstrikePlugin, SecretScannerPlugin},
   ip |->
     {IpPlugin, DnsPlugin, ShodanPlugin, BgpPlugin, ReputationPlugin,
      PassiveDnsPlugin, SslAnalysisPlugin, ShodanDorkPlugin, PortScanPlugin,
      ThreatFoxPlugin, VirusTotalPlugin, GreyNoisePlugin, OtxPlugin, JarmPlugin,
      CobaltstrikePlugin},
   email |->
     {EmailPlugin, BreachPlugin, SocialEmailPlugin, GithubOsintPlugin,
      PastebinPlugin, GoogleDorkPlugin, GithubDorkPlugin, SpfDmarcPlugin,
      EmailVerifyPlugin, EmailPatternPlugin, EmailBreachTimelinePlugin,
      EmailIdentityPlugin, EmailAgePlugin, EmailDomainProfilePlugin,
      EmailUsernamePlugin, EmailDisposablePlugin, EmailReversePlugin,
      ThreatFoxPlugin, OpenSanctionsPlugin, GdeltPlugin},
   username |->
     {UsernamePlugin, ProfilePlugin, GithubOsintPlugin, PastebinPlugin,
      GoogleDorkPlugin, GithubDorkPlugin, SocialPostsPlugin, MastodonPlugin,
      BlueskyPlugin, NostrPlugin, StackExchangePlugin},
   phone |-> {PhonePlugin},
   image |-> {ImagePlugin},
   person |->
     {EntityPlugin, GithubOsintPlugin, OpenSanctionsPlugin, GdeltPlugin,
      SecEdgarPlugin, OpenAlexPlugin, CrossrefPlugin, GleifPlugin},
   company |->
     {EntityPlugin, GithubOsintPlugin, OpenCorporatesPlugin, SecEdgarPlugin,
      GleifPlugin, OpenSanctionsPlugin, GdeltPlugin, OpenAlexPlugin,
      CrossrefPlugin},
   mac |-> {MacLookupPlugin},
   crypto |->
     {CryptoTracerPlugin, BlockstreamPlugin, EtherscanPlugin, PublicRpc},
   vat |-> {ViesPlugin},
   vin |-> {VinPlugin},
   flight |-> {FlightPlugin},
   iban |-> {IbanPlugin},
   hash |-> {MalwareBazaarPlugin, ThreatFoxPlugin},
   npub |-> {NostrPlugin},
   ens |-> {EnsResolverPlugin}]

\* The analysis runs after the plugins of the type; the onion checker is
\* reached by templates only.
Apart == {AiAnalysisPlugin, OnionCheckerPlugin}

\* Registered for a type of which they refuse every target.
AlwaysRefuses(type, p) ==
  <<type, p.name>> \in {<<"email", "email_patterns">>, <<"username", "nostr">>}

-----------------------------------------------------------------------------
(* A run of a plugin.                                                      *)

PluginTypeOK ==
  /\ Len(todo) <= Len(plugin.stages)
  /\ got \subseteq heard
  /\ verdict \in {"none", "running", "success", "failure"}
  /\ asked # {} <=> verdict = "running"

NoPlugin == Plugin("none", FALSE, <<>>, {})

PluginInit ==
  /\ plugin = NoPlugin
  /\ todo = <<>>
  /\ asked = {}
  /\ heard = {}
  /\ got = {}
  /\ verdict = "none"

First(stages) ==
  IF stages = <<>> THEN {}
  ELSE IF Head(stages).inTurn = <<>> THEN Head(stages).atOnce
  ELSE {Head(Head(stages).inTurn)}

Ended(p, found) ==
  IF p.needs = {} \/ p.needs \intersect found # {} THEN "success" ELSE "failure"

\* With stages left the run goes on; otherwise it ends.
GoOn(stages, found) ==
  /\ todo' = stages
  /\ asked' = First(stages)
  /\ verdict' = IF stages = <<>> THEN Ended(plugin', found) ELSE "running"

Stop(v) ==
  /\ todo' = <<>>
  /\ asked' = {}
  /\ verdict' = v

RunStarts(type, p) ==
  /\ verdict = "none"
  /\ plugin' = p
  /\ UNCHANGED <<heard, got>>
  /\ \/ ~AlwaysRefuses(type, p) /\ GoOn(p.stages, {})
     \/ (p.refuses \/ AlwaysRefuses(type, p)) /\ Stop("failure")

\* What is asked with the answer of another source is not asked without it.  A
\* target that is an address itself counts as resolved.
Unasked(s) == \/ s = "internetdb" /\ "resolver" \notin got
              \/ s = "bgpview_asn" /\ "bgpview_ip" \notin got

RequestEnds(s, a) ==
  /\ s \in asked
  /\ Unasked(s) => a = "unreachable"
  /\ heard' = heard \union (IF a \in {"unreachable", "raised"} THEN {} ELSE {s})
  /\ got' = got \union (IF a = "data" THEN {s} ELSE {})
  /\ UNCHANGED plugin

\* One of the sources asked at once has ended, with whatever answer.
OneEnds(s, a) ==
  /\ Head(todo).inTurn = <<>>
  /\ RequestEnds(s, a)
  /\ IF asked = {s}
     THEN GoOn(Tail(todo), got')
     ELSE asked' = asked \ {s} /\ UNCHANGED <<todo, verdict>>

\* The source whose turn it is has answered: the stage is done, the next
\* source is asked, or the run is over.
TurnEnds(s, a) ==
  LET stage == Head(todo)
      more == Tail(stage.inTurn)
  IN  /\ stage.inTurn # <<>>
      /\ RequestEnds(s, a)
      /\ CASE a \in stage.accepts -> GoOn(Tail(todo), got')
           [] a \in stage.skips \ stage.accepts /\ more # <<>> ->
                GoOn(<<[stage EXCEPT !.inTurn = more]>> \o Tail(todo), got')
           [] OTHER -> Stop(IF a \in stage.ends THEN "success" ELSE "failure")

PluginNext ==
  \/ \E type \in DOMAIN AllPlugins :
       \E p \in AllPlugins[type] : RunStarts(type, p)
  \/ \E p \in Apart : RunStarts("any", p)
  \/ \E s \in asked, a \in {"data", "empty", "unreachable"} : OneEnds(s, a)
  \/ \E s \in asked, a \in Reply : TurnEnds(s, a)

PluginSpec == PluginInit /\ [][PluginNext]_pluginVars

-----------------------------------------------------------------------------
(* Properties.                                                             *)

\* Plugins whose result is computed, with lookups as an extra.
Computed == {"iban", "phone", "mac_lookup", "email_disposable", "typosquat"}

\* Plugins that swallow every failed request and then report a success that
\* reads like a search without hits.
Silent ==
  {"bgp", "breach", "cobaltstrike", "crypto_tracer", "email", "email_age",
   "breach_timeline", "email_domain_profile", "email_identity",
   "email_patterns", "email_reverse", "email_username", "email_verify",
   "entity", "github_dorks", "github_osint", "onion_checker", "passive_dns",
   "pastes", "profile", "reputation", "shodan", "social_email", "spf_dmarc",
   "subdomains", "username", "wayback"}

\* A plugin that heard from nobody reports a failure: it is tried once more
\* (retry.py:24-29), its row names the error (runner.py:369), and nothing of it
\* is among the data that is combined and reported (runner.py:384).  The plugins
\* named above, and no others, turn an outage into a success instead.  A monitor
\* cannot tell the two apart: it reads the row of a failure as an empty finding
\* (MonitorDiff).
OutageIsReported ==
  verdict = "success" /\ heard = {} => plugin.name \in Computed \union Silent

=============================================================================
