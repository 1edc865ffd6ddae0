------------------------------- MODULE MCStore -------------------------------
EXTENDS Store, TLC

CONSTANTS g1, g2, c1, r1, r2, r3

M(k, v) == [key |-> k, value |-> v]
B(call, ms) == [call |-> call, metrics |-> ms]

\* Two batches over the same rows, one of which adds to its counter twice; with
\* Half = 4 their sum is too large.
Batch1 == B("batch", <<M(g1, 1), M(g2, 1), M(c1, 2)>>)
Batch2 == B("batch", <<M(c1, 2), M(g2, 2), M(g1, 3), M(c1, 1), M(g1, 2)>>)

\* Single updates, reads, and requests that the handlers refuse or ignore.
Others ==
  {B("save", <<M(c1, 1)>>), B("save", <<M(g1, 3)>>), B("save", <<M(c1, Missing)>>),
   B("batch", <<M(g1, 0), M(NoName, 1), M(NoType, 1)>>), B("batch", <<>>),
   B("get", <<M(c1, Missing)>>), B("get", <<M(NoType, Missing)>>),
   B("list", <<>>), B("ping", <<>>)}

MCBodies == {Batch1, Batch2, B("save", <<M(c1, 2)>>)} \cup Others

MCOffers == (r1 :> {Batch1}) @@ (r2 :> MCBodies \ (Others \cup {Batch1})) @@ (r3 :> Others)
=============================================================================
