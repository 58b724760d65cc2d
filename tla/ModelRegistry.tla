--------------------------- MODULE ModelRegistry ---------------------------
(***************************************************************************)
(* The global model registry (internal/registry/model_registry.go).        *)
(*                                                                         *)
(* The registry counts, for every model, the credentials ("clients") that  *)
(* can serve it, overall and per provider, and keeps two kinds of marks on *)
(* a (client, model) pair: "quota exceeded at t", which stops counting     *)
(* after a window, and "suspended", which stays until it is cleared.  The  *)
(* list shown to users is computed from the counters and the marks and     *)
(* cached until the next quota window closes.                              *)
(*                                                                         *)
(* Every exported method holds the registry mutex from start to end, so    *)
(* one method is one action.  What is concurrent is the ORDER in which the *)
(* methods are called: Manager.MarkResult calls them after it has left its *)
(* own lock, so a mark may reach the registry after its client is gone     *)
(* (LateMarks).                                                            *)
(***************************************************************************)
EXTENDS Integers, FiniteSets, FiniteSetsExt

CONSTANTS
  Clients,    \* credential ids
  Models,     \* model ids
  Providers,  \* lower-cased provider names
  Handlers,   \* handler types, the keys of the list cache
  NoProvider, \* the empty provider string
  MaxDup,     \* bound: how often one client's list may repeat a model
  Window,     \* modelQuotaExceededWindow, in ticks
  MaxTime,    \* bound on the clock
  LateMarks   \* TRUE: a mark may arrive for a client that is not bound

ASSUME ConstantsAssumption ==
  /\ IsFiniteSet(Clients)
  /\ NoProvider \notin Providers
  /\ MaxDup \in Nat \ {0}
  /\ Window \in Nat \ {0}
  /\ MaxTime \in Nat
  /\ LateMarks \in BOOLEAN

VARIABLES
  reg,             \* r.models: model -> registration
  clientModels,    \* r.clientModels: client -> model -> times it is listed
  clientProviders, \* r.clientProviders
  cache,           \* r.availableModelsCache: handler -> entry
  now              \* time.Now()

vars == <<reg, clientModels, clientProviders, cache, now>>

NoTime == -1
Time == 0 .. MaxTime
Reasons == {"quota", "other"}     \* the registry tells only "quota" apart
NotSuspended == "none"

Min2(a, b) == IF a < b THEN a ELSE b

-----------------------------------------------------------------------------
(* Registrations.  A registration exists exactly while its count is        *)
(* positive: it is created with count 1 and deleted when the count is 0.   *)

NoRegistration ==
  [count |-> 0,
   prov  |-> [p \in Providers |-> 0],
   info  |-> {},
   quota |-> [c \in Clients |-> NoTime],
   susp  |-> [c \in Clients |-> NotSuspended]]

Exists(r) == r.count > 0

\* n calls of addModelRegistration for provider p.
AddN(r, p, n) ==
  IF n = 0 THEN r
  ELSE [r EXCEPT !.count = @ + n,
                 !.prov  = [q \in Providers |-> @[q] + IF q = p THEN n ELSE 0],
                 !.info  = @ \union ({p} \ {NoProvider})]

\* n of p's slots are given back; the provider disappears with its last slot.
ReleaseProvider(r, p, n) ==
  IF p = NoProvider THEN r
  ELSE [r EXCEPT !.prov = [q \in Providers |->
                             IF q # p THEN @[q]
                             ELSE IF @[q] <= n THEN 0 ELSE @[q] - n],
                 !.info = IF r.prov[p] <= n THEN @ \ {p} ELSE @]

\* Mutant of RemoveN: the suspension mark of the client survives.
RemoveNKeepsSuspension(r, c, p, n) ==
  IF n = 0 THEN r
  ELSE IF r.count <= n THEN NoRegistration
  ELSE [ReleaseProvider(r, p, n) EXCEPT !.count = @ - n, !.quota[c] = NoTime]

\* n calls of removeModelRegistration (or n turns of the unregister loop).
RemoveN(r, c, p, n) ==
  IF n = 0 THEN r
  ELSE IF r.count <= n THEN NoRegistration
  ELSE [ReleaseProvider(r, p, n) EXCEPT !.count = @ - n,
                                        !.quota[c] = NoTime,
                                        !.susp[c]  = NotSuspended]

-----------------------------------------------------------------------------
(* What the registry answers.                                              *)

Listed(c, m) == clientModels[c][m] > 0

\* A client is known while it lists some model.
Known(c) == \E m \in Models : Listed(c, m)

InWindow(r, c, t) == r.quota[c] # NoTime /\ t < r.quota[c] + Window

OverQuota(r, t) == {c \in Clients : InWindow(r, c, t)}

Suspended(r, why) == {c \in Clients : r.susp[c] = why}

\* The rule shared by the two list builders: total clients, those inside
\* their quota window, those suspended for "quota" and for other reasons.
Shown(total, over, cooling, other) ==
  \/ total - Cardinality(over) - Cardinality(other) > 0
  \/ /\ total > 0
     /\ over # {} \/ cooling # {}
     /\ other = {}

Available(m, t) ==
  LET r == reg[m] IN
  /\ Exists(r)
  /\ Shown(r.count, OverQuota(r, t), Suspended(r, "quota"), Suspended(r, "other"))

AvailableModels(t) == {m \in Models : Available(m, t)}

\* The moment the first open quota window closes, over all models.
Recoveries(t) ==
  {reg[mc[1]].quota[mc[2]] + Window :
     mc \in {mc \in Models \X Clients : InWindow(reg[mc[1]], mc[2], t)}}

EarliestRecovery(t) == IF Recoveries(t) = {} THEN NoTime ELSE Min(Recoveries(t))

ClientsOf(p) == {c \in Clients : clientProviders[c] = p}

\* One slot for each time a client of C lists m.
Slots(m, C) == {s \in C \X (1 .. MaxDup) : s[2] <= clientModels[s[1]][m]}

\* Mutant of AvailableByProvider: every suspension counts as a cooldown.
AvailableByProviderAllCooling(p, t) ==
  {m \in Models :
     LET r == reg[m]  C == ClientsOf(p) IN
     /\ Slots(m, C) # {}
     /\ Shown(Cardinality(Slots(m, C)), OverQuota(r, t) \intersect C,
              {c \in C : r.susp[c] # NotSuspended}, {})}

AvailableByProvider(p, t) ==
  {m \in Models :
     LET r == reg[m]  C == ClientsOf(p) IN
     /\ Slots(m, C) # {}
     /\ Shown(Cardinality(Slots(m, C)), OverQuota(r, t) \intersect C,
              Suspended(r, "quota") \intersect C, Suspended(r, "other") \intersect C)}

ModelCount(m, t) ==
  LET r == reg[m]
      n == r.count - Cardinality(OverQuota(r, t))
                   - Cardinality({c \in Clients : r.susp[c] # NotSuspended})
  IN IF n < 0 THEN 0 ELSE n

ModelProviders(m) == {p \in Providers : reg[m].prov[p] > 0}

ModelsForClient(c) == {m \in Models : Listed(c, m)}

-----------------------------------------------------------------------------
(* The methods that change the registry.                                   *)

EmptyList == [m \in Models |-> 0]
NoEntry == [valid |-> FALSE, models |-> {}, expiresAt |-> NoTime]
Invalidate == cache' = [h \in Handlers |-> NoEntry]

Init ==
  /\ reg = [m \in Models |-> NoRegistration]
  /\ clientModels = [c \in Clients |-> EmptyList]
  /\ clientProviders = [c \in Clients |-> NoProvider]
  /\ cache = [h \in Handlers |-> NoEntry]
  /\ now = 0

UnregisterClient(c) ==
  /\ reg' = [m \in Models |->
               RemoveN(reg[m], c, clientProviders[c], clientModels[c][m])]
  /\ clientModels' = [clientModels EXCEPT ![c] = EmptyList]
  /\ clientProviders' = [clientProviders EXCEPT ![c] = NoProvider]
  /\ Invalidate
  /\ UNCHANGED now

\* Mutant of Reconciled: the overlap moves to the new provider at its new size.
ReconciledMovesAll(r, c, op, p, old, new) ==
  LET moved   == op # p /\ old > 0 /\ new > 0
      shifted == IF moved THEN ReleaseProvider(r, op, Min2(old, new)) ELSE r
      shrunk  == IF old > new THEN RemoveN(shifted, c, op, old - new) ELSE shifted
      grown   == IF new > old THEN AddN(shrunk, p, new - old) ELSE shrunk
  IN IF new = 0 THEN shrunk
     ELSE [grown EXCEPT !.quota[c] = NoTime,
                        !.susp[c]  = NotSuspended,
                        !.info = @ \union ({p} \ {NoProvider}),
                        !.prov = [q \in Providers |->
                                    @[q] + IF moved /\ q = p THEN new ELSE 0]]

\* A client already known is reconciled model by model: move the overlap off
\* the old provider, drop what is gone, add what is new, then start the
\* binding afresh (no marks) under the new provider.
Reconciled(r, c, op, p, old, new) ==
  LET moved   == op # p /\ old > 0 /\ new > 0
      shifted == IF moved THEN ReleaseProvider(r, op, Min2(old, new)) ELSE r
      shrunk  == IF old > new THEN RemoveN(shifted, c, op, old - new) ELSE shifted
      grown   == IF new > old THEN AddN(shrunk, p, new - old) ELSE shrunk
      overlap == IF moved THEN Min2(old, new) ELSE 0
  IN IF new = 0 THEN shrunk
     ELSE [grown EXCEPT !.quota[c] = NoTime,
                        !.susp[c]  = NotSuspended,
                        !.info = @ \union ({p} \ {NoProvider}),
                        !.prov = [q \in Providers |->
                                    @[q] + IF q = p THEN overlap ELSE 0]]

RegisterClient(c, p, list) ==
  IF list = EmptyList
  THEN UnregisterClient(c)
  ELSE
    /\ reg' = [m \in Models |->
                 IF Known(c)
                 THEN Reconciled(reg[m], c, clientProviders[c], p,
                                 clientModels[c][m], list[m])
                 ELSE AddN(reg[m], p, list[m])]
    /\ clientModels' = [clientModels EXCEPT ![c] = list]
    /\ clientProviders' = [clientProviders EXCEPT ![c] = p]
    /\ Invalidate
    /\ UNCHANGED now

SetModelQuotaExceeded(c, m) ==
  /\ Exists(reg[m])
  /\ reg' = [reg EXCEPT ![m].quota[c] = now]
  /\ Invalidate
  /\ UNCHANGED <<clientModels, clientProviders, now>>

ClearModelQuotaExceeded(c, m) ==
  /\ Exists(reg[m])
  /\ reg' = [reg EXCEPT ![m].quota[c] = NoTime]
  /\ Invalidate
  /\ UNCHANGED <<clientModels, clientProviders, now>>

\* Mutant of SuspendClientModel: the cached lists are not dropped.
SuspendClientModelKeepsCache(c, m, why) ==
  /\ Exists(reg[m])
  /\ reg[m].susp[c] = NotSuspended
  /\ reg' = [reg EXCEPT ![m].susp[c] = why]
  /\ UNCHANGED <<clientModels, clientProviders, cache, now>>

\* A second suspension keeps the first one's reason.
SuspendClientModel(c, m, why) ==
  /\ Exists(reg[m])
  /\ reg[m].susp[c] = NotSuspended
  /\ reg' = [reg EXCEPT ![m].susp[c] = why]
  /\ Invalidate
  /\ UNCHANGED <<clientModels, clientProviders, now>>

ResumeClientModel(c, m) ==
  /\ Exists(reg[m])
  /\ reg[m].susp[c] # NotSuspended
  /\ reg' = [reg EXCEPT ![m].susp[c] = NotSuspended]
  /\ Invalidate
  /\ UNCHANGED <<clientModels, clientProviders, now>>

Expired(r, c) == r.quota[c] # NoTime /\ now >= r.quota[c] + Window

CleanupExpiredQuotas ==
  /\ \E m \in Models, c \in Clients : Expired(reg[m], c)
  /\ reg' = [m \in Models |->
               [reg[m] EXCEPT !.quota = [c \in Clients |->
                  IF Expired(reg[m], c) THEN NoTime ELSE @[c]]]]
  /\ Invalidate
  /\ UNCHANGED <<clientModels, clientProviders, now>>

Fresh(entry) == entry.valid /\ (entry.expiresAt = NoTime \/ now < entry.expiresAt)

\* A miss: the list is rebuilt and cached.  A hit changes nothing.
GetAvailableModels(h) ==
  /\ ~Fresh(cache[h])
  /\ cache' = [cache EXCEPT ![h] = [valid     |-> TRUE,
                                    models    |-> AvailableModels(now),
                                    expiresAt |-> EarliestRecovery(now)]]
  /\ UNCHANGED <<reg, clientModels, clientProviders, now>>

Tick ==
  /\ now < MaxTime
  /\ now' = now + 1
  /\ UNCHANGED <<reg, clientModels, clientProviders, cache>>

\* A mark comes from a request that was routed to the client, so the client
\* listed the model when the request started.
MayMark(c, m) == LateMarks \/ Listed(c, m)

Next ==
  \/ \E c \in Clients, p \in Providers \union {NoProvider},
        list \in [Models -> 0 .. MaxDup] : RegisterClient(c, p, list)
  \/ \E c \in Clients : UnregisterClient(c)
  \/ \E c \in Clients, m \in Models :
       /\ MayMark(c, m)
       /\ \/ SetModelQuotaExceeded(c, m)
          \/ ClearModelQuotaExceeded(c, m)
          \/ \E why \in Reasons : SuspendClientModel(c, m, why)
          \/ ResumeClientModel(c, m)
  \/ CleanupExpiredQuotas
  \/ \E h \in Handlers : GetAvailableModels(h)
  \/ Tick

Spec == Init /\ [][Next]_vars

-----------------------------------------------------------------------------
(* Properties.                                                             *)

Registration ==
  [count : Nat,
   prov  : [Providers -> Nat],
   info  : SUBSET Providers,
   quota : [Clients -> Time \union {NoTime}],
   susp  : [Clients -> Reasons \union {NotSuspended}]]

Entry == [valid : BOOLEAN, models : SUBSET Models, expiresAt : Nat \union {NoTime}]

\* Every variable has the shape its Go type gives it.
TypeOK ==
  /\ reg \in [Models -> Registration]
  /\ clientModels \in [Clients -> [Models -> 0 .. MaxDup]]
  /\ clientProviders \in [Clients -> Providers \union {NoProvider}]
  /\ cache \in [Handlers -> Entry]
  /\ now \in Time

\* However clients are registered, re-registered with other models, repeated
\* models or another provider, and removed, each model's counter is the number
\* of list slots that name it, and its provider counter the slots of that
\* provider's clients: the incremental bookkeeping of RegisterClient never drifts.
\* A model keeps provider-specific metadata exactly for the providers it counts, so
\* LookupModelInfo never answers for a provider that has left.
CountsMatchBindings ==
  \A m \in Models :
    /\ reg[m].count = Cardinality(Slots(m, Clients))
    /\ \A p \in Providers : reg[m].prov[p] = Cardinality(Slots(m, ClientsOf(p)))
    /\ reg[m].info = ModelProviders(m)

\* An answer the cache would give now is the answer a rebuild would give now,
\* after any sequence of marks, registrations and passing quota windows.
CacheIsCurrent ==
  \A h \in Handlers : Fresh(cache[h]) => cache[h].models = AvailableModels(now)

\* When marks arrive only for bound clients, removing or re-registering a
\* client leaves none of its marks behind: a mark is always on a binding.
MarksOnlyOnBindings ==
  \A m \in Models, c \in Clients :
    (reg[m].quota[c] # NoTime \/ reg[m].susp[c] # NotSuspended) => Listed(c, m)

\* The per-provider list and the global list apply one rule: while all clients
\* of a model belong to one provider the two lists agree on it.
ProviderViewAgrees ==
  \A m \in Models, p \in Providers :
    (Exists(reg[m]) /\ \A c \in Clients : Listed(c, m) => clientProviders[c] = p)
      => (m \in AvailableByProvider(p, now) <=> m \in AvailableModels(now))

\* A client that lists the model and carries no active mark on it.
Unmarked(c, m) ==
  /\ Listed(c, m)
  /\ ~InWindow(reg[m], c, now)
  /\ reg[m].susp[c] = NotSuspended

\* "GetAvailableModels returns all models that have at least one available
\* client" (model_registry.go:762).
HealthyModelIsListed ==
  \A m \in Models : (\E c \in Clients : Unmarked(c, m)) => m \in AvailableModels(now)

\* "GetModelCount returns the number of available clients for a specific
\* model" (model_registry.go:1007): with one slot per client, no fewer than the
\* clients without a mark.
CountCoversHealthyClients ==
  \A m \in Models :
    ModelCount(m, now) >= Cardinality({c \in Clients : Unmarked(c, m)})
=============================================================================
