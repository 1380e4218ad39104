---------------------------- MODULE MCIngestion ----------------------------
(* Four calls: a result that is retried, one of the same investigation     *)
(* that repeats itself, and one of another investigation.                  *)
EXTENDS Ingestion, TLC

CONSTANTS host, addr, owner, lists, resolves, owns, first, other, x1, x2, x3,
          call, retry, repeat, rival

MCEnds == lists :> {host, addr} @@ resolves :> {host, addr}
            @@ owns :> {owner, host}

CallResult == [execution |-> x1, investigation |-> first,
               entities |-> <<host, addr>>, relationships |-> <<lists>>]
RepeatResult == [execution |-> x2, investigation |-> first,
                 entities |-> <<host, addr, host>>,
                 relationships |-> <<resolves, owns, resolves>>]
RivalResult == [execution |-> x3, investigation |-> other,
                entities |-> <<host>>, relationships |-> <<lists, owns>>]

MCResult == call :> CallResult @@ retry :> CallResult
              @@ repeat :> RepeatResult @@ rival :> RivalResult

Symmetry == Permutations({call, retry})
=============================================================================
