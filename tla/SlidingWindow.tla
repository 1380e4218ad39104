--------------------------- MODULE SlidingWindow ---------------------------
(***************************************************************************)
(* The window over a list of times that the rate limiter and the health    *)
(* tracker both keep: src/argus/api/rate_limit.py and                      *)
(* src/argus/canonical/adapters/health.py.                                 *)
(***************************************************************************)
EXTENDS Naturals, Sequences

\* The times that lie at most width before now.  The limiter filters its list;
\* the tracker drops old times from the front, which is the same for times
\* that were appended in the order of the clock.
Within(times, width, now) ==
  LET kept[n \in 0 .. Len(times)] ==
        IF n = 0 THEN <<>>
        ELSE IF times[n] + width >= now THEN Append(kept[n - 1], times[n])
        ELSE kept[n - 1]
  IN  kept[Len(times)]
=============================================================================
