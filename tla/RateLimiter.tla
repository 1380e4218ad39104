---------------------------- MODULE RateLimiter ----------------------------
(***************************************************************************)
(* The rate limiter of the API: src/argus/api/rate_limit.py.               *)
(*                                                                         *)
(* A route that changes something admits a number of requests of one       *)
(* client and path in a sliding window.  The times of admitted requests    *)
(* are kept in memory, cleaned up when the next request comes, and lost    *)
(* with the process.  The clock is read once for the cleanup and again for *)
(* the entry, and may advance in between.                                  *)
(*                                                                         *)
(* admitted and refused are ghosts: what happened since the process        *)
(* started, which the limiter itself forgets.                              *)
(***************************************************************************)
EXTENDS SlidingWindow, FiniteSets

CONSTANTS
  ClientPath,   \* keys: "rl:<client>:<path>"
  Limit,        \* the limit of the route a key belongs to
  Window,       \* seconds
  MaxTime       \* bound on the clock

ASSUME RateAssumption ==
  /\ Limit \in [ClientPath -> Nat]
  /\ Window \in Nat
  /\ MaxTime \in Nat

VARIABLES
  requests,  \* _requests; a key without a list has an empty one
  clock,     \* time.monotonic()
  admitted,  \* ghost: the times of all admitted requests
  refused    \* ghost: the times at which requests were refused

rateVars == <<requests, clock, admitted, refused>>

RateTypeOK ==
  /\ requests \in [ClientPath -> Seq(Nat)]
  /\ clock \in Nat
  /\ admitted \in [ClientPath -> Seq(Nat)]
  /\ refused \in [ClientPath -> SUBSET Nat]

NoRequests == [k \in ClientPath |-> <<>>]

RateInit ==
  /\ requests = NoRequests
  /\ clock = 0
  /\ admitted = NoRequests
  /\ refused = [k \in ClientPath |-> {}]

-----------------------------------------------------------------------------
(* A definition with the parameters of the next one and no comment of its  *)
(* own is a faulty variant of it, used to test that the property below can *)
(* fail.                                                                   *)

CleanedInclusive(k) == Within(requests[k], Window, clock)
\* _cleanup: a request exactly a window ago does not count any more.
Cleaned(k) == Within(requests[k], Window, clock + 1)

\* _check_limit allows the request; its time is read after the cleanup.
Admit(k) ==
  /\ Len(Cleaned(k)) < Limit[k]
  /\ \E now \in clock .. MaxTime :
       /\ clock' = now
       /\ requests' = [requests EXCEPT ![k] = Append(Cleaned(k), now)]
       /\ admitted' = [admitted EXCEPT ![k] = Append(@, now)]
  /\ UNCHANGED refused

\* _check_limit does not: the answer is 429, and is not counted.
RefuseRequest(k) ==
  /\ Len(Cleaned(k)) >= Limit[k]
  /\ requests' = [requests EXCEPT ![k] = Cleaned(k)]
  /\ refused' = [refused EXCEPT ![k] = @ \union {clock}]
  /\ UNCHANGED <<clock, admitted>>

ClockTicks ==
  /\ clock < MaxTime
  /\ clock' = clock + 1
  /\ UNCHANGED <<requests, admitted, refused>>

RestartApi ==
  /\ requests' = NoRequests
  /\ admitted' = NoRequests
  /\ refused' = [k \in ClientPath |-> {}]
  /\ UNCHANGED clock

RateNext ==
  \/ \E k \in ClientPath : Admit(k) \/ RefuseRequest(k)
  \/ ClockTicks
  \/ RestartApi

RateSpec == RateInit /\ [][RateNext]_rateVars

-----------------------------------------------------------------------------
\* Between restarts no window ever holds more admitted requests of a key than
\* its limit, and a request is refused only when the window that ends with it
\* holds as many: the times the cleanup drops, and the second reading of the
\* clock, make no difference (rate_limit.py:18-37).
WindowsHoldTheLimit ==
  \A k \in ClientPath :
    /\ \A i \in DOMAIN admitted[k] :
         i + Limit[k] \in DOMAIN admitted[k] =>
           admitted[k][i + Limit[k]] >= admitted[k][i] + Window
    /\ \A t \in refused[k] :
         Cardinality({i \in DOMAIN admitted[k] :
           admitted[k][i] <= t /\ t < admitted[k][i] + Window}) >= Limit[k]
=============================================================================
