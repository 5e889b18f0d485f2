------------------------------- MODULE Access -------------------------------
(***************************************************************************)
(* Who gets in: AuthMiddleware and RateLimitMiddleware of                  *)
(* src/src/chen/server/auth.py, stacked as src/src/chen/server/app.py does *)
(* it.  Starlette puts the middleware that is added last outermost, so a   *)
(* request is counted for metrics, then authenticated, then rate-limited.  *)
(*                                                                         *)
(* Between the arrival of a request and its handler nothing awaits: one    *)
(* action on the event loop decides.  Times are kept as ages, saturated    *)
(* just above the window.                                                  *)
(***************************************************************************)
EXTENDS Naturals, Sequences, FiniteSets, SequencesExt

CONSTANTS
    ApiKeys,         \* the keys in the API key file
    Role,            \* the role of each
    RateLimit,       \* rate_limit_per_minute of each key
    default_limit,   \* the server-wide limit
    Window,          \* the length of the window, in ticks
    Client,          \* the callers without a key: one IP address
    BadKey           \* a key that is not in the file

ASSUME AccessAssumption ==
    /\ RateLimit \in [ApiKeys -> Nat]
    /\ default_limit \in Nat \ {0}
    /\ Window \in Nat
    /\ Client \notin ApiKeys /\ BadKey \notin ApiKeys

VARIABLES
    has_keys,   \* the API key file exists and holds keys
    window,     \* _requests: the ages of the requests of each caller
    admitted    \* history: the ages of all requests ever let through

accessVars == <<has_keys, window, admitted>>

Callers == ApiKeys \cup {Client}

AccessInit ==
    /\ has_keys \in BOOLEAN
    /\ window = [c \in Callers |-> <<>>]
    /\ admitted = [c \in Callers |-> <<>>]

-----------------------------------------------------------------------------
(* PUBLIC_PATHS and the routes, by what the middlewares look at. *)
Paths == {"health", "infer", "stream", "run"}
IsPublic(path) == path = "health"
IsGet(path) == path \in {"health", "run"}

(* Without keys, and on public paths, nobody is asked for one. *)
AuthSkipped(path) == IsPublic(path) \/ ~has_keys

(* _check_permission; none of the routes is an admin endpoint. *)
Permitted(role, path) ==
    \/ role \in {"admin", "user"}
    \/ role = "read-only" /\ IsGet(path)

(* AuthMiddleware: the status it answers with, or 0 to pass the request on. *)
AuthStatus(path, key) ==
    IF AuthSkipped(path) THEN 0
    ELSE IF key \notin ApiKeys THEN 401
    ELSE IF ~Permitted(Role[key], path) THEN 403
    ELSE 0

(* RateLimitMiddleware: whom a request counts for, and how many it may have. *)
Caller(path, key) == IF AuthSkipped(path) THEN Client ELSE key

Limit(c) ==
    IF c = Client \/ RateLimit[c] = 0 THEN default_limit ELSE RateLimit[c]

(* Where the ages within the window are. *)
Alive(ages) == {i \in DOMAIN ages : ages[i] <= Window}

(* popleft until an entry is to stay; what is behind it is not looked at. *)
PopLeft(ages, stay) ==
    IF stay = {} THEN <<>> ELSE SubSeq(ages, Min(stay), Len(ages))

(* Mutant: a request as old as the window no longer counts. *)
Pruned_AtWindow(c) ==
    PopLeft(window[c], {i \in DOMAIN window[c] : window[c][i] < Window})

Pruned(c) == PopLeft(window[c], Alive(window[c]))

(* Mutant: a refused request uses up budget, too. *)
Limited_Counts(c) ==
    /\ Len(Pruned(c)) >= Limit(c)
    /\ window' = [window EXCEPT ![c] = Append(Pruned(c), 0)]
    /\ UNCHANGED <<has_keys, admitted>>

(* 429: the pruned window is full. *)
Limited(c) ==
    /\ Len(Pruned(c)) >= Limit(c)
    /\ window' = [window EXCEPT ![c] = Pruned(c)]
    /\ UNCHANGED <<has_keys, admitted>>

LetThrough(c) ==
    /\ Len(Pruned(c)) < Limit(c)
    /\ window' = [window EXCEPT ![c] = Append(Pruned(c), 0)]
    /\ admitted' = [admitted EXCEPT ![c] = Append(@, 0)]
    /\ UNCHANGED has_keys

Refused == UNCHANGED accessVars

Older(ages) == [i \in DOMAIN ages |-> IF ages[i] <= Window THEN ages[i] + 1
                                                           ELSE ages[i]]

TimePasses ==
    /\ window' = [c \in Callers |-> Older(window[c])]
    /\ admitted' = [c \in Callers |-> Older(admitted[c])]
    /\ UNCHANGED has_keys

-----------------------------------------------------------------------------
(* The number of requests of a caller let through within the window. *)
Recent(c) == Cardinality(Alive(admitted[c]))

(***************************************************************************)
(* "Requests exceeding the limit get HTTP 429": within no window does a    *)
(* caller get more than its limit through, although old entries are only   *)
(* pruned when the caller comes back.                                      *)
(***************************************************************************)
RateBound == \A c \in Callers : Recent(c) <= Limit(c)
=============================================================================
