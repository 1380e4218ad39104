--------------------------- MODULE RedirectChain ---------------------------
(***************************************************************************)
(* The redirect_chain plugin: src/argus/plugins/redirect_chain_plugin.py.  *)
(*                                                                         *)
(* It follows the redirects of a URL by hand, one request at a time, and   *)
(* stops at a final answer, at an exception, at a URL the SSRF guard       *)
(* refuses, at a URL it has been to, or after MaxHops requests.            *)
(***************************************************************************)
EXTENDS Naturals, Sequences

CONSTANTS
  Url,
  RefusedUrl,   \* what is_safe_url refuses
  MaxHops       \* max_hops

ASSUME RedirectAssumption ==
  /\ RefusedUrl \subseteq Url
  /\ MaxHops \in Nat \ {0}
  /\ {"final", "raises"} \cap Url = {}

VARIABLES
  answers,   \* what a request for a URL meets: the URL it redirects to, a
             \* final answer, or an exception
  current,   \* current_url
  visited,
  chain,     \* what the plugin reports of each step
  walk       \* where the run is

redirectVars == <<answers, current, visited, chain, walk>>

Status == {"answered", "LOOP_DETECTED", "BLOCKED_SSRF", "ERROR"}

RedirectTypeOK ==
  /\ answers \in [Url -> Url \union {"final", "raises"}]
  /\ current \in Url
  /\ visited \in SUBSET Url
  /\ chain \in Seq([url : Url, status : Status])
  /\ walk \in {"ready", "walking", "reported", "refused"}

RedirectInit ==
  /\ answers \in [Url -> Url \union {"final", "raises"}]
  /\ current \in Url
  /\ visited = {}
  /\ chain = <<>>
  /\ walk = "ready"

Step(at, outcome) == [url |-> at, status |-> outcome]

-----------------------------------------------------------------------------
(* A definition with the parameters of the next one and no comment of its  *)
(* own is a faulty variant of it, used to test that the property below can *)
(* fail.                                                                   *)

\* run: the guard is asked about the target before anything is requested.
WalkStarts ==
  /\ walk = "ready"
  /\ walk' = IF current \in RefusedUrl THEN "refused" ELSE "walking"
  /\ UNCHANGED <<answers, current, visited, chain>>

VisitsNothing == visited' = visited
\* visited.add(current_url), before the request.
Visits == visited' = visited \union {current}

\* The loop over max_hops looks for a visited URL before it requests one, so
\* the URL the last request led to is looked at by nobody.
FindsLoop ==
  /\ walk = "walking" /\ Len(chain) < MaxHops
  /\ current \in visited
  /\ chain' = Append(chain, Step(current, "LOOP_DETECTED"))
  /\ walk' = "reported"
  /\ UNCHANGED <<answers, current, visited>>

\* A request that redirects.  The answer enters the chain, and the guard's
\* refusal of the URL it leads to is an entry of its own.
Redirected ==
  /\ walk = "walking" /\ Len(chain) < MaxHops
  /\ current \notin visited
  /\ answers[current] \in Url
  /\ Visits
  /\ current' = answers[current]
  /\ LET answered == Append(chain, Step(current, "answered"))
     IN  IF current' \in RefusedUrl
         THEN /\ chain' = Append(answered, Step(current', "BLOCKED_SSRF"))
              /\ walk' = "reported"
         ELSE /\ chain' = answered
              /\ walk' = "walking"
  /\ UNCHANGED answers

\* A request that ends the walk, with an answer or an exception.
Arrives ==
  /\ walk = "walking" /\ Len(chain) < MaxHops
  /\ current \notin visited
  /\ answers[current] \notin Url
  /\ Visits
  /\ chain' = Append(chain, Step(current, IF answers[current] = "final"
                                          THEN "answered" ELSE "ERROR"))
  /\ walk' = "reported"
  /\ UNCHANGED <<answers, current>>

\* max_hops iterations without a break: the result is reported as it stands.
HopsExhausted ==
  /\ walk = "walking" /\ Len(chain) = MaxHops
  /\ walk' = "reported"
  /\ UNCHANGED <<answers, current, visited, chain>>

RedirectNext ==
  WalkStarts \/ FindsLoop \/ Redirected \/ Arrives \/ HopsExhausted

RedirectSpec == RedirectInit /\ [][RedirectNext]_redirectVars

-----------------------------------------------------------------------------
HasLoop == \E i \in DOMAIN chain : chain[i].status = "LOOP_DETECTED"

\* Where n redirects lead from a URL, if that many follow each other and the
\* guard refuses none.
Beyond(url, n) ==
  LET place[k \in 0 .. n] ==
        IF k = 0 THEN url
        ELSE IF place[k - 1] \in Url \ RefusedUrl THEN answers[place[k - 1]]
        ELSE "final"
  IN  place[n]

\* A report says has_loop exactly if the redirects lead back to a URL that was
\* requested in fewer than max_hops steps, wherever in the chain the loop
\* closes; and no URL is requested twice (redirect_chain_plugin.py:47-57).  A
\* loop that only the last request closes is reported as none.
LoopsAreTold ==
  walk = "reported" =>
    LET Requested == {i \in DOMAIN chain : chain[i].status = "answered"}
        start == chain[1].url
    IN  /\ \A i, j \in Requested : chain[i].url = chain[j].url => i = j
        /\ HasLoop <=>
             \E n \in 1 .. MaxHops - 1 : \E m \in 0 .. n - 1 :
               Beyond(start, n) \in Url /\ Beyond(start, n) = Beyond(start, m)
=============================================================================
