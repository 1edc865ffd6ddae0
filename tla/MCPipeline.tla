----------------------------- MODULE MCPipeline -----------------------------
(* Keys that agree, differ or are missing on one side, and other clients. *)
EXTENDS Pipeline, TLC

CONSTANTS k1, k2, p1, p2

MCConfigs == [agent : {None, k1}, server : {None, k1, k2}, rsa : {None, p1}, private : {None, p1, p2}]

\* A plain client, a large body, and bodies that claim to be gzip, whole, broken,
\* or not at all; signed with a wrong key, or encrypted in name only.
F(gzip, accept, encrypted, key, layers, flaw) ==
  [gzip |-> gzip, accept |-> accept, encrypted |-> encrypted, key |-> key,
   layers |-> layers, flaw |-> flaw]

MCForeign ==
  {F(FALSE, FALSE, FALSE, None, <<>>, None), F(FALSE, TRUE, TRUE, k1, <<>>, "big"),
   F(TRUE, TRUE, FALSE, k1, <<"gzip">>, "corrupt"), F(TRUE, TRUE, FALSE, None, <<>>, None),
   F(FALSE, FALSE, TRUE, k2, <<>>, None)}

Symmetry ==
  Permutations(Requests) \cup Permutations(AgentWriters)
    \cup Permutations(Writers) \cup Permutations(Readers)
=============================================================================
