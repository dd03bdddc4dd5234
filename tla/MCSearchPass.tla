----------------------------- MODULE MCSearchPass -----------------------------
(* Instances of SearchPass for TLC.                                          *)
EXTENDS SearchPass

CONSTANTS t1, t2

\* A list of two queries, and a list of one that is equivalent to the first.
MCQueries == {1, 2, 3}
MCQueryLists == {{1, 2}, {3}}
MCTextOf == [q \in MCQueries |-> IF q = 2 THEN t2 ELSE t1]

\* Exa finds nothing: the answer that is easiest to mistake for none.
MCHitLists == {<<>>}

=============================================================================
