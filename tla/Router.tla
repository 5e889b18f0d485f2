------------------------------- MODULE Router -------------------------------
(***************************************************************************)
(* The three routers of src/src/chen/core/router.py: which experts of the  *)
(* pool are woken up for a prompt, and in which order.                     *)
(*                                                                         *)
(* The experts are 1..N in the order of available_experts.  What a prompt  *)
(* scores is abstracted to small integers compared with an integer         *)
(* threshold: one score per role (LogisticRouter) and one similarity per   *)
(* expert (CosineRouter), for every weighting and every embedding.  Ties,  *)
(* which Python's stable sort resolves by position, and scores below the   *)
(* threshold all occur.                                                    *)
(***************************************************************************)
EXTENDS Integers, Sequences, SequencesExt, FiniteSets, FiniteSetsExt

CONSTANTS
    N,            \* the number of available experts
    Roles,        \* the roles they may have
    LastRole,     \* force_last_role
    MaxScore,     \* bound: scores are 0..MaxScore
    MaxSize,      \* bound: the penalty for an expert's size is 0..MaxSize
    threshold,
    default_max   \* max_activation of a router that is given none

ASSUME RouterAssumption ==
    /\ N \in Nat \ {0}
    /\ LastRole \in Roles
    /\ MaxScore \in Nat /\ MaxSize \in Nat
    /\ threshold \in Nat
    /\ default_max \in Nat \ {0}

VARIABLES
    role,            \* the role of each expert
    size,            \* the penalty for its size, params_m
    min_activation,
    max_activation,  \* 0 stands for "no cap" in the final truncation
    score,           \* what the prompt scored: by role ...
    similarity,      \* ... and by expert
    router,          \* the router that was asked, "none" before
    selected         \* its answer

pool == <<role, size>>
routeVars == <<pool, min_activation, max_activation, score, similarity, router,
               selected>>

Pool == 1..N

Unscored == [r \in Roles |-> 0]
Unseen == [e \in Pool |-> 0]

RouteInit ==
    /\ role \in [Pool -> Roles]
    /\ size \in [Pool -> 0..MaxSize]
    /\ min_activation \in 1..2
    /\ max_activation \in 0..N
    /\ score = Unscored
    /\ similarity = Unseen
    /\ router = "none"
    /\ selected = <<>>

-----------------------------------------------------------------------------
(* Python's s[:n] *)
Take(s, n) == SubSeq(s, 1, IF n < Len(s) THEN n ELSE Len(s))

(* Python's [e for e in s if e in S], as a recursive function, with which   *)
(* the proofs can deal.                                                     *)
Among(s, S) ==
    LET kept[i \in 0..Len(s)] ==
            IF i = 0 THEN <<>>
            ELSE IF s[i] \in S THEN Append(kept[i - 1], s[i]) ELSE kept[i - 1]
    IN  kept[Len(s)]

(* The elements of a set in a strict order that is total on it. *)
Sorted(S, before(_, _)) ==
    CHOOSE s \in SetToSeqs(S) :
        \A i, j \in DOMAIN s : i < j => before(s[i], s[j])

OfRole(r) == {e \in Pool : role[e] = r}

(* last_role_names: the experts that are to come last *)
Finals == OfRole(LastRole)

(* _score: features of the prompt, weighted for each role; a role without   *)
(* experts is never looked up.                                              *)
RoleScores ==
    {f \in [Roles -> 0..MaxScore] : \A r \in Roles : OfRole(r) = {} => f[r] = 0}

(* Embeddings of the prompt against each expert's prototype, which is       *)
(* registered beforehand or on the way.                                     *)
Similarities == [Pool -> 0..MaxScore]

(* An expert scores what its role scores, less a penalty for its size. *)
Logistic(f, e) == f[role[e]] - size[e]

(* role_best: the best expert of a role, the earliest of equals *)
RoleBest(f, r) ==
    CHOOSE e \in OfRole(r) :
        \A d \in OfRole(r) : \/ Logistic(f, e) > Logistic(f, d)
                             \/ Logistic(f, e) = Logistic(f, d) /\ e <= d

(* The best expert of each role that passes the threshold, best first; the *)
(* dict keeps roles in the order of their first expert.                    *)
Ranked(f) ==
    LET best == {RoleBest(f, r) : r \in {role[e] : e \in Pool}}
        before(a, b) == \/ Logistic(f, a) > Logistic(f, b)
                        \/ /\ Logistic(f, a) = Logistic(f, b)
                           /\ Min(OfRole(role[a])) < Min(OfRole(role[b]))
    IN  Sorted({e \in best : Logistic(f, e) >= threshold}, before)

(* All experts, the most similar first. *)
Scored(g) ==
    LET before(a, b) == g[a] > g[b] \/ (g[a] = g[b] /\ a < b)
    IN  Sorted(Pool, before)

(* Too few passed: the top one alone. *)
EnforceMin(sel, min, ranking) ==
    IF Len(sel) < min /\ ranking # <<>> THEN <<ranking[1]>> ELSE sel

(* Nothing at all: the first expert of the last role, else the first. *)
OrFallback(sel) ==
    IF sel # <<>> THEN sel
    ELSE <<IF Finals # {} THEN Min(Finals) ELSE 1>>

(* Append an expert of the last role if none was selected. *)
AppendLast(sel) ==
    IF Finals # {} /\ Range(sel) \cap Finals = {}
    THEN Append(sel, Min(Finals))
    ELSE sel

(* Mutant: an expert of the last role stays where its score put it. *)
MoveLast_Nowhere(sel) == sel

(* The last selected expert of the last role moves to the end. *)
MoveLast(sel) ==
    LET in_list == Among(sel, Finals)
        last == in_list[Len(in_list)]
    IN  IF in_list = <<>> THEN sel
        ELSE Append(Among(sel, Pool \ {last}), last)

(* Mutant: the second truncation is missing. *)
Cap_Missing(sel, max) == sel

Cap(sel, max) == IF max > 0 THEN Take(sel, max) ELSE sel

Finish(sel, max) == Cap(MoveLast(AppendLast(OrFallback(sel))), max)

(* Mutant: the ranking is capped from the wrong end. *)
LogisticSelection_Tail(f, min, max) ==
    Finish(EnforceMin(Reverse(Take(Reverse(Ranked(f)), max)), min, Ranked(f)),
           max)

LogisticSelection(f, min, max) ==
    Finish(EnforceMin(Take(Ranked(f), max), min, Ranked(f)), max)

CosineSelection(g, min, max) ==
    LET top == Among(Take(Scored(g), max), {e \in Pool : g[e] >= threshold})
    IN  Finish(EnforceMin(top, min, Scored(g)), max)

(* The union of the answers of two routers with default limits, the         *)
(* logistic one first; the rest comes from a set, in no particular order.   *)
HybridOrders(f, g) ==
    LET l_order == LogisticSelection(f, 1, default_max)
        c_selection == Range(CosineSelection(g, 1, default_max))
    IN  {l_order \o rest : rest \in SetToSeqs(c_selection \ Range(l_order))}

(* Mutant: the slot for the last expert is not reserved. *)
HybridAnswer_NoReserve(ordered, max) ==
    IF Finals = {} THEN Cap(ordered, max)
    ELSE LET in_list == Among(ordered, Finals)
             last == IF in_list # <<>> THEN in_list[1] ELSE Min(Finals)
             others == Among(ordered, Pool \ {last})
         IN  Cap(Append(others, last), max)

(* One slot is reserved for the last expert before the others are capped. *)
HybridAnswer(ordered, max) ==
    IF Finals = {} THEN Cap(ordered, max)
    ELSE LET in_list == Among(ordered, Finals)
             last == IF in_list # <<>> THEN in_list[1] ELSE Min(Finals)
             others == Among(ordered, Pool \ {last})
         IN  Append(IF max > 0 THEN Take(others, max - 1) ELSE others, last)

-----------------------------------------------------------------------------
(* router.route of each router, for one prompt. *)
Asked(kind) ==
    /\ router = "none"
    /\ router' = kind
    /\ UNCHANGED <<pool, min_activation, max_activation>>

LogisticRoute ==
    /\ Asked("logistic")
    /\ score' \in RoleScores
    /\ selected' = LogisticSelection(score', min_activation, max_activation)
    /\ UNCHANGED similarity

CosineRoute ==
    /\ Asked("cosine")
    /\ similarity' \in Similarities
    /\ selected' = CosineSelection(similarity', min_activation, max_activation)
    /\ UNCHANGED score

(* HybridRouter has limits of its own, of which only the cap is used; the   *)
(* routers it asks keep the default ones, also those of from_experts.       *)
HybridRoute ==
    /\ Asked("hybrid") /\ min_activation = 1
    /\ score' \in RoleScores
    /\ similarity' \in Similarities
    /\ \E ordered \in HybridOrders(score', similarity') :
           selected' = HybridAnswer(ordered, max_activation)

RouteNext == LogisticRoute \/ CosineRoute \/ HybridRoute

RouteSpec == RouteInit /\ [][RouteNext]_routeVars

-----------------------------------------------------------------------------
Answered == router # "none"

(***************************************************************************)
(* Every router answers with a non-empty list of different experts, which  *)
(* is what RoutingPipeline builds its chain from, and never with more than *)
(* max_activation of them, although the last role is forced in after the   *)
(* first cap and the hybrid router asks two others with other caps.        *)
(***************************************************************************)
AnswerIsAChain ==
    Answered => /\ selected # <<>>
                /\ Cardinality(Range(selected)) = Len(selected)
                /\ max_activation > 0 => Len(selected) <= max_activation

(***************************************************************************)
(* A synthesizer that was selected speaks last: truncation never leaves    *)
(* one in the middle with another role after it (MoveLast before Cap).     *)
(***************************************************************************)
SelectedSynthesizerIsLast ==
    Answered /\ Range(selected) \cap Finals # {}
    => selected[Len(selected)] \in Finals

(***************************************************************************)
(* The best-scoring expert that passes the threshold is always woken up by *)
(* the logistic router: neither forcing the last role nor the second cap   *)
(* pushes it out.                                                          *)
(***************************************************************************)
BestExpertIsSelected ==
    router = "logistic" /\ Ranked(score) # <<>>
    => Ranked(score)[1] \in Range(selected)

(***************************************************************************)
(* The hybrid router keeps the promise of the module's docstring: when the *)
(* pool has a synthesizer, its answer ends with one.                       *)
(***************************************************************************)
HybridEndsWithSynthesizer ==
    router = "hybrid" /\ Finals # {} => selected[Len(selected)] \in Finals
=============================================================================
