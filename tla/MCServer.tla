------------------------------ MODULE MCServer ------------------------------
(* Model-checking instance of Server: one user whose key has the limit 1,   *)
(* one read-only key with limit 0, for which the server's limit counts.     *)
(* Two requests run a pipeline, or the first asks for health; the third     *)
(* reads runs.  In phase 3 all runs are routed to the same chain.           *)
EXTENDS Server, TLC

CONSTANTS user, reader, r1, r2, r3, c1

MCApiKeys == {user, reader}
MCRole == user :> "user" @@ reader :> "read-only"
MCRateLimit == user :> 1 @@ reader :> 0
MCAsks == r1 :> Paths \ {"run"} @@ r2 :> {"infer", "stream"} @@ r3 :> {"run"}
MCRouted == [r \in {r1, r2, r3, c1} |-> <<"coder", "synthesizer">>]
=============================================================================
