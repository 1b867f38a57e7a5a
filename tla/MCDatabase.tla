----------------------------- MODULE MCDatabase -----------------------------
(* Constants of a small database, for TLC. *)
EXTENDS Database

CONSTANTS a, b, x, y, f, p, v, c, e, not

MCPred == {f, p, v, c, e, not}
MCFf == [q \in MCPred |-> IF q = v THEN 1 ELSE -1]

No(q) == <<not, q>>

MCFact ==
  {<<p, a, a>>, <<p, a, b>>, <<p, <<f, a>>, b>>, No(<<p, a, b>>),
   <<v, a, a>>, <<v, a, b>>, <<v, b, a>>, <<c, a>>, No(<<c, a>>),
   <<e, a>>, <<e, b>>, No(<<e, a>>)}

MCPattern ==
  {<<p, x, y>>, <<p, x, x>>, <<p, <<f, x>>, y>>, No(<<p, a, x>>), <<v, a, x>>,
   <<v, x, y>>, <<c, a>>, No(<<c, x>>), <<e, x>>, <<e, a>>, No(<<e, x>>)}

MCQueries ==
  {<< <<p, x, y>>, <<v, x, y>> >>, << <<v, x, y>>, <<v, y, x>> >>,
   << <<p, x, y>>, No(<<c, x>>) >>, << <<p, x, x>>, <<e, x>> >>,
   << <<p, <<f, x>>, y>>, No(<<p, x, y>>) >>}

\* What the theorems about the database assume holds here.
ASSUME CountsFit
ASSUME UnificationExact

=============================================================================
