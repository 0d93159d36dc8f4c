--------------------------- MODULE ModelResolver ---------------------------
(***************************************************************************)
(* lua/e2ee_discovery.lua, resolve_chute_id: from a model name to a chute, *)
(* through a model list that is fetched, cached for MODEL_MAP_TTL_S and    *)
(* shared by all requests of the worker.  A request gives up the worker    *)
(* while its fetch is under way, so fetches overlap, and the list that     *)
(* arrives last is not always the one that was made last.                  *)
(*                                                                         *)
(* A list maps a model to an entry [chute_id, confidential] or to NoEntry. *)
(* The service publishes a new list whenever it likes.                     *)
(***************************************************************************)
EXTENDS Integers

CONSTANTS
    Request,                 \* the requests
    Model,                   \* model names
    Uuid,                    \* model names that are chute ids (is_uuid)
    Chute,                   \* chute ids
    NoEntry, NoChute,
    Lists,                   \* the lists the service may publish
    MODEL_MAP_TTL_S,
    ALLOW_NON_CONFIDENTIAL,
    MaxClock                 \* bound: the clock stops here

Entry == [chute_id : Chute, confidential : BOOLEAN]
List == [Model -> Entry \cup {NoEntry}]

ASSUME ResolverAssumption ==
    /\ Lists \subseteq List /\ NoEntry \notin Entry
    /\ Uuid \subseteq Chute /\ Uuid \cap Model = {}
    /\ NoChute \notin Chute
    /\ MODEL_MAP_TTL_S \in Nat \ {0}
    /\ ALLOW_NON_CONFIDENTIAL \in BOOLEAN
    /\ MaxClock \in Nat

VARIABLES
    clock,              \* ngx.now()
    published,          \* the service's list
    inforce,            \* history: the lists in force at each moment so far
    cached,             \* model_map # nil
    model_map, made,    \* the cached list; history: when the service made it
    model_map_expires,
    pc, model, start,   \* per request: where it is, its model, its local `now`
    reply, replied,     \* per request: the list on its way; when it was made
    result, how, at     \* per request: chute id or NoChute for an error; by which way, when

listVars == <<published, inforce>>
cacheVars == <<cached, model_map, made, model_map_expires>>
resultVars == <<result, how, at>>
resolverVars == <<clock, listVars, cacheVars, pc, model, start, reply, replied, resultVars>>

Time == 0..MaxClock

---------------------------------------------------------------------------
\* Mutant: an entry is taken as it is.
check_confidential_any(entry) == IF entry = NoEntry THEN NoChute ELSE entry.chute_id

check_confidential(entry) ==
    IF entry # NoEntry /\ (entry.confidential \/ ALLOW_NON_CONFIDENTIAL)
    THEN entry.chute_id ELSE NoChute

ResolverInit ==
    /\ clock = 0
    /\ published \in Lists
    /\ inforce = [t \in Time |-> IF t = 0 THEN {published} ELSE {}]
    /\ cached = FALSE
    /\ model_map = [m \in Model |-> NoEntry] /\ made = 0
    /\ model_map_expires = 0
    /\ pc = [r \in Request |-> "idle"]
    /\ model \in [Request -> Model \cup Uuid]
    /\ start = [r \in Request |-> 0]
    /\ reply = [r \in Request |-> model_map] /\ replied = [r \in Request |-> 0]
    /\ result = [r \in Request |-> NoChute]
    /\ how = [r \in Request |-> "none"]
    /\ at = [r \in Request |-> 0]

Return(r, chute, way) ==
    /\ pc' = [pc EXCEPT ![r] = "done"]
    /\ result' = [result EXCEPT ![r] = chute]
    /\ how' = [how EXCEPT ![r] = way]
    /\ at' = [at EXCEPT ![r] = clock]

ReturnUuid(r) ==
    /\ pc[r] = "idle" /\ model[r] \in Uuid
    /\ Return(r, model[r], "uuid")
    /\ UNCHANGED <<clock, listVars, cacheVars, model, start, reply, replied>>

Usable(r) == cached /\ clock < model_map_expires /\ model_map[model[r]] # NoEntry

ReturnCached(r) ==
    /\ pc[r] = "idle" /\ model[r] \in Model
    /\ Usable(r)
    /\ Return(r, check_confidential(model_map[model[r]]), "cache")
    /\ UNCHANGED <<clock, listVars, cacheVars, model, start, reply, replied>>

\* A model that is not in the list is looked up again, however young the list is.
StartFetch(r) ==
    /\ pc[r] = "idle" /\ model[r] \in Model
    /\ ~Usable(r)
    /\ pc' = [pc EXCEPT ![r] = "fetch"]
    /\ start' = [start EXCEPT ![r] = clock]
    /\ UNCHANGED <<clock, listVars, cacheVars, model, reply, replied, resultVars>>

\* The service answers with the list of this moment (environment).
Serve(r) ==
    /\ pc[r] = "fetch"
    /\ pc' = [pc EXCEPT ![r] = "served"]
    /\ reply' = [reply EXCEPT ![r] = published]
    /\ replied' = [replied EXCEPT ![r] = clock]
    /\ UNCHANGED <<clock, listVars, cacheVars, model, start, resultVars>>

\* Mutant: the list is young when it arrives, not when it was asked for.
Expiry_late(r) == clock + MODEL_MAP_TTL_S

Expiry(r) == start[r] + MODEL_MAP_TTL_S

\* The answer arrives: it replaces the cached list, whichever is the newer one.
FetchOk(r) ==
    /\ pc[r] = "served"
    /\ cached' = TRUE
    /\ model_map' = reply[r] /\ made' = replied[r]
    /\ model_map_expires' = Expiry(r)
    /\ Return(r, check_confidential(reply[r][model[r]]), "fetch")
    /\ UNCHANGED <<clock, listVars, model, start, reply, replied>>

\* Mutant: a request whose fetch fails starts over.
FetchFails_again(r) ==
    /\ pc[r] \in {"fetch", "served"}
    /\ pc' = [pc EXCEPT ![r] = "idle"]
    /\ UNCHANGED <<clock, listVars, cacheVars, model, start, reply, replied, resultVars>>

\* The request fails, times out, or its answer is no list: the old list will do.
FetchFails(r) ==
    /\ pc[r] \in {"fetch", "served"}
    /\ \/ /\ cached /\ model_map[model[r]] # NoEntry
          /\ Return(r, check_confidential(model_map[model[r]]), "stale")
       \/ /\ ~cached \/ model_map[model[r]] = NoEntry
          /\ Return(r, NoChute, "error")
    /\ UNCHANGED <<clock, listVars, cacheVars, model, start, reply, replied>>

\* The service replaces its list (environment).
Publish ==
    /\ published' \in Lists
    /\ inforce' = [inforce EXCEPT ![clock] = @ \cup {published'}]
    /\ UNCHANGED <<clock, cacheVars, pc, model, start, reply, replied, resultVars>>

ClockTick ==
    /\ clock < MaxClock
    /\ clock' = clock + 1
    /\ inforce' = [inforce EXCEPT ![clock'] = {published}]
    /\ UNCHANGED <<published, cacheVars, pc, model, start, reply, replied, resultVars>>

Resolve(r) == ReturnUuid(r) \/ ReturnCached(r) \/ StartFetch(r) \/ FetchOk(r) \/ FetchFails(r)

ResolverNext ==
    \/ \E r \in Request : Resolve(r) \/ Serve(r)
    \/ Publish \/ ClockTick

ResolverSpec == ResolverInit /\ [][ResolverNext]_resolverVars

\* The worker runs, and a fetch ends: it has a timeout (MODELS_TIMEOUT_MS).
FairSpec == ResolverSpec /\ \A r \in Request : WF_resolverVars(Resolve(r))

---------------------------------------------------------------------------
\* Type correctness of the cache and of the requests.
ResolverTypeOK ==
    /\ clock \in Time
    /\ published \in Lists
    /\ inforce \in [Time -> SUBSET Lists]
    /\ cached \in BOOLEAN /\ model_map \in List /\ made \in Time
    /\ model_map_expires \in 0..(MaxClock + MODEL_MAP_TTL_S)
    /\ pc \in [Request -> {"idle", "fetch", "served", "done"}]
    /\ model \in [Request -> Model \cup Uuid]
    /\ start \in [Request -> Time] /\ replied \in [Request -> Time]
    /\ reply \in [Request -> List]
    /\ result \in [Request -> Chute \cup {NoChute}]
    /\ how \in [Request -> {"none", "uuid", "cache", "fetch", "stale", "error"}]
    /\ at \in [Request -> Time]
    /\ \A r \in Request : pc[r] \in {"fetch", "served"} => model[r] \in Model

\* At moment t the service listed the request's model as it was resolved.
Listed(r, t) ==
    \E l \in inforce[t] :
        /\ l[model[r]] # NoEntry /\ l[model[r]].chute_id = result[r]
        /\ l[model[r]].confidential \/ ALLOW_NON_CONFIDENTIAL

Oldest(r) == IF how[r] = "fetch" THEN start[r] ELSE at[r] - MODEL_MAP_TTL_S + 1

\* A name that is resolved without a failed fetch is resolved as the service's
\* list had it, confidential, less than MODEL_MAP_TTL_S ago or while the request
\* was waiting, whatever other requests' fetches did to the cache meanwhile.
ResolvedAsListed ==
    \A r \in Request : how[r] \in {"cache", "fetch"} /\ result[r] # NoChute =>
        \E t \in Time : Oldest(r) <= t /\ t <= at[r] /\ Listed(r, t)

\* The list that counts as fresh was made less than MODEL_MAP_TTL_S ago, also when
\* a slow fetch has replaced a newer list by an older one.
CacheFresh == cached /\ clock < model_map_expires => clock - made < MODEL_MAP_TTL_S

\* Every request gets a chute or an error.
EventuallyResolved == \A r \in Request : <>(pc[r] = "done")

\* What ResolvedAsListed and CacheFresh rest on: where the times and lists come from.
CacheInv ==
    /\ cached => /\ made <= clock /\ model_map_expires <= made + MODEL_MAP_TTL_S
                 /\ model_map \in inforce[made]
    /\ \A r \in Request :
          /\ start[r] <= clock /\ at[r] <= clock
          /\ how[r] # "none" <=> pc[r] = "done"
          /\ pc[r] = "served" => /\ start[r] <= replied[r] /\ replied[r] <= clock
                                 /\ reply[r] \in inforce[replied[r]]
    /\ published \in inforce[clock]
===========================================================================
