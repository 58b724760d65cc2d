---------------------------- MODULE AuthScheduler ---------------------------
(***************************************************************************)
(* The incremental scheduler that picks a credential for a request         *)
(* (sdk/cliproxy/auth/scheduler.go).                                       *)
(*                                                                         *)
(* Per provider it keeps the credentials' snapshots and, per model asked   *)
(* for so far, a shard: one entry per supporting credential with the state *)
(* it had when it was last looked at, and views derived from the entries   *)
(* (ready credentials by priority, in id order, with a round-robin cursor; *)
(* blocked ones waiting for their retry time).  Views are rebuilt only     *)
(* when an upsert finds that something they depend on changed.             *)
(*                                                                         *)
(* Every method holds the scheduler mutex throughout: one method is one    *)
(* action.  Here a change of a credential and its upsert are one step;     *)
(* AuthManager separates them.                                             *)
(***************************************************************************)
EXTENDS AuthState, SequencesExt

AnyModel == "any"   \* the empty model key

CONSTANTS
  Auths,      \* credential ids, numbers: views are sorted by id
  Providers,
  Orders,     \* the provider lists of mixed requests, without repetitions
  Priorities, \* numbers, compared
  WsProviders, \* the providers of providerPrefersWebsocketTransport
  Settings,   \* what may be configured for each credential: sets of records
  Asked,      \* the model keys requests ask for, AnyModel for the empty one
  Strategies, \* subset of {"round-robin", "fill-first"}
  Failures,   \* subset of Kinds: the failures that may be reported
  Hints,      \* Retry-After values
  MaxTime,    \* bound on the clock
  NoAuth      \* the nil credential or snapshot

\* Auth, ModelState and QuotaState, and what scheduledAuthMeta keeps beside an Auth.
Quotas == [exceeded : BOOLEAN, recover : Nat, level : 0 .. MaxLevel]
ModelStates == [has : BOOLEAN, error : BOOLEAN, unavail : BOOLEAN, next : Nat,
                quota : Quotas, lastErr : BOOLEAN]
Credentials == [disabled : BOOLEAN, status : {"active", "error", "disabled"},
                unavail : BOOLEAN, next : Nat, quota : Quotas, lastErr : BOOLEAN,
                ms : [Models -> ModelStates]]
Snapshots == [prov : Providers, prio : Priorities, ws : BOOLEAN, supports : SUBSET Models,
              cred : Credentials]

ASSUME SchedulerAssumption ==
  /\ IsFiniteSet(Auths) /\ Auths \subseteq Nat
  /\ IsFiniteSet(Priorities) /\ Priorities \subseteq Int
  /\ Orders \subseteq Seq(Providers)
  /\ \A order \in Orders : \A i, j \in DOMAIN order : order[i] = order[j] => i = j
  /\ Settings \in [Auths -> SUBSET [prov : Providers, prio : Priorities, ws : BOOLEAN,
                                     supports : SUBSET Models]]
  /\ Asked \subseteq Models \union {AnyModel}
  /\ Strategies \subseteq {"round-robin", "fill-first"}
  /\ Failures \subseteq Kinds \ {"request"}
  /\ Hints \subseteq Nat
  /\ MaxTime \in Nat \ {0}
  /\ NoAuth \notin Auths \union Snapshots

VARIABLES
  pool,     \* what the manager and the registry know: id -> snapshot or NoAuth
  strategy, \* s.strategy
  metas,    \* p.auths: provider -> id -> snapshot or NoAuth
  shards,   \* p.modelShards: provider -> key -> shard
  mixed,    \* s.mixedCursors: provider order, key -> next slot
  now

vars == <<pool, strategy, metas, shards, mixed, now>>

Keys == Asked

-----------------------------------------------------------------------------
(* Entries and views.                                                      *)

NoEntry == [in |-> FALSE, state |-> "ready", next |-> ZeroTime]
EmptyView == [flat |-> <<>>, cursor |-> 0]
EmptyBucket == [all |-> EmptyView, ws |-> EmptyView]
NoShard == [made |-> FALSE, entries |-> [a \in Auths |-> NoEntry],
            ready |-> [p \in Priorities |-> EmptyBucket], blocked |-> {}]

Supports(snap, k) == k = AnyModel \/ k \in snap.supports

BlockedAt(snap, k, t) ==
  IF k = AnyModel THEN BlockedAny(snap.cred, t) ELSE BlockedFor(snap.cred, k, t)

\* What isAuthBlockedForModel says of a credential, as an entry.
Judged(snap, k, t) ==
  LET s == IF k = AnyModel THEN snap.cred ELSE snap.cred.ms[k] IN
  IF ~BlockedAt(snap, k, t) THEN [in |-> TRUE, state |-> "ready", next |-> ZeroTime]
  ELSE IF IsDisabled(snap.cred) THEN [in |-> TRUE, state |-> "disabled", next |-> ZeroTime]
  ELSE [in |-> TRUE, state |-> IF s.quota.exceeded THEN "cooldown" ELSE "blocked",
        next |-> ReportedEnd(s, t)]

\* The credentials in id order.
Sorted(ids) ==
  CHOOSE s \in [1 .. Cardinality(ids) -> ids] :
    \A i, j \in 1 .. Cardinality(ids) : i < j => s[i] < s[j]

\* Mutant of View: a shorter view keeps the cursor of the longer one.
ViewKeepsCursor(ids, cursor) ==
  [flat |-> Sorted(ids), cursor |-> IF ids = {} THEN 0 ELSE cursor]

\* buildReadyView with the cursor restored by restoreReadyViewCursors.
View(ids, cursor) ==
  [flat |-> Sorted(ids),
   cursor |-> IF ids = {} THEN 0 ELSE cursor % Cardinality(ids)]

ReadyAt(entries, ms, p) ==
  {a \in Auths : entries[a].in /\ entries[a].state = "ready" /\ ms[a].prio = p}

\* rebuildIndexesLocked: a view that stays non-empty keeps its cursor.
Rebuilt(shard, entries, ms) ==
  [made |-> TRUE, entries |-> entries,
   ready |-> [p \in Priorities |->
     LET ids == ReadyAt(entries, ms, p) IN
     [all |-> View(ids, shard.ready[p].all.cursor),
      ws  |-> View({a \in ids : ms[a].ws}, shard.ready[p].ws.cursor)]],
   blocked |-> {a \in Auths : entries[a].in /\ entries[a].state \in {"cooldown", "blocked"}}]

WithoutEntry(shard, a, ms) ==
  IF ~shard.entries[a].in THEN shard
  ELSE Rebuilt(shard, [shard.entries EXCEPT ![a] = NoEntry], ms)

\* Mutant of SameForViews: a change of priority does not count.
SameForViewsButPriority(old, new, before, after) == old = new /\ before.ws = after.ws

\* An upsert that changes nothing the views depend on does not rebuild them.
SameForViews(old, new, before, after) ==
  old = new /\ before.prio = after.prio /\ before.ws = after.ws

\* upsertEntryLocked, given the provider's snapshots before and after.
WithEntry(shard, a, k, msBefore, ms, t) ==
  LET new == Judged(ms[a], k, t) IN
  IF shard.entries[a].in /\ SameForViews(shard.entries[a], new, msBefore[a], ms[a])
  THEN shard
  ELSE Rebuilt(shard, [shard.entries EXCEPT ![a] = new], ms)

\* promoteExpiredLocked.
Promoted(shard, k, ms, t) ==
  LET due == {a \in shard.blocked : shard.entries[a].next # ZeroTime /\ shard.entries[a].next <= t}
  IN IF due = {} THEN shard
     ELSE Rebuilt(shard, [a \in Auths |-> IF a \in due THEN Judged(ms[a], k, t)
                                          ELSE shard.entries[a]], ms)

\* ensureModelLocked.
Ensured(shard, k, ms, t) ==
  IF shard.made THEN Promoted(shard, k, ms, t)
  ELSE Rebuilt(shard, [a \in Auths |-> IF ms[a] # NoAuth /\ Supports(ms[a], k)
                                       THEN Judged(ms[a], k, t) ELSE NoEntry], ms)

-----------------------------------------------------------------------------
(* Upserts and removals.                                                   *)

AuthProvider(a) == {p \in Providers : metas[p][a] # NoAuth}

\* providerScheduler.removeAuthLocked: <<snapshots, shards>> of one provider.
Dropped(ms, sh, a) ==
  LET ms2 == [ms EXCEPT ![a] = NoAuth] IN
  <<ms2, [k \in Keys |-> WithoutEntry(sh[k], a, ms2)]>>

\* providerScheduler.upsertAuthLocked.
Upserted(ms, sh, a, snap, t) ==
  LET ms2 == [ms EXCEPT ![a] = snap] IN
  <<ms2, [k \in Keys |-> IF ~sh[k].made THEN sh[k]
                         ELSE IF Supports(snap, k) THEN WithEntry(sh[k], a, k, ms, ms2, t)
                         ELSE WithoutEntry(sh[k], a, ms2)]>>

\* authScheduler.removeAuthLocked.
RemoveAuth(a) ==
  LET new == [p \in Providers |-> IF p \in AuthProvider(a)
                THEN Dropped(metas[p], shards[p], a) ELSE <<metas[p], shards[p]>>]
  IN /\ metas' = [p \in Providers |-> new[p][1]]
     /\ shards' = [p \in Providers |-> new[p][2]]

\* authScheduler.upsertAuthLocked: a disabled credential is removed, one that
\* changed provider leaves the old one first.
UpsertAuth(a, snap) ==
  IF snap.cred.disabled THEN RemoveAuth(a)
  ELSE LET new == [p \in Providers |->
                     IF p = snap.prov THEN Upserted(metas[p], shards[p], a, snap, now)
                     ELSE IF p \in AuthProvider(a) THEN Dropped(metas[p], shards[p], a)
                     ELSE <<metas[p], shards[p]>>]
       IN /\ metas' = [p \in Providers |-> new[p][1]]
          /\ shards' = [p \in Providers |-> new[p][2]]

-----------------------------------------------------------------------------
(* Picking.  A candidate is a credential the request has not tried and, if *)
(* it is pinned, the pinned one.                                           *)

Elements(view, cands) == {a \in ToSet(view.flat) : a \in cands}

FirstOf(view, cands) == Min(Elements(view, cands))

\* Position of a credential in a view, counted from the cursor.
Steps(view, a) ==
  LET n == Len(view.flat)
      i == CHOOSE i \in 1 .. n : view.flat[i] = a
  IN (i - 1 + n - (view.cursor % n)) % n

\* Mutant of NextInTurn: the cursor moves one place, not past the pick.
NextInTurnOnePlace(view, cands) ==
  LET n == Len(view.flat)
      a == CHOOSE a \in Elements(view, cands) :
             \A b \in Elements(view, cands) : Steps(view, a) <= Steps(view, b)
  IN <<a, [view EXCEPT !.cursor = (@ % n) + 1]>>

\* pickRoundRobin: <<credential, view with the cursor behind it>>.
NextInTurn(view, cands) ==
  LET n == Len(view.flat)
      a == CHOOSE a \in Elements(view, cands) :
             \A b \in Elements(view, cands) : Steps(view, a) <= Steps(view, b)
  IN <<a, [view EXCEPT !.cursor = (((@ % n) + Steps(view, a)) % n) + 1]>>

Usable(shard, which, cands) ==
  {p \in Priorities : Elements(shard.ready[p][which], cands) # {}}

\* Mutant of BestPriority: websocket credentials win only within the top tier.
BestPriorityTierFirst(shard, preferWs, cands) == Max(Usable(shard, "all", cands))

\* highestReadyPriorityLocked, when some priority has a candidate.
BestPriority(shard, preferWs, cands) ==
  IF preferWs /\ Usable(shard, "ws", cands) # {}
  THEN Max(Usable(shard, "ws", cands)) ELSE Max(Usable(shard, "all", cands))

\* pickReadyAtPriorityLocked: <<credential or NoAuth, shard>>.
PickAt(shard, prio, preferWs, strat, cands) ==
  LET which == IF preferWs /\ Elements(shard.ready[prio].ws, cands) # {} THEN "ws" ELSE "all"
      view  == shard.ready[prio][which]
  IN IF Elements(view, cands) = {} THEN <<NoAuth, shard>>
     ELSE IF strat = "fill-first" THEN <<FirstOf(view, cands), shard>>
     ELSE LET turn == NextInTurn(view, cands)
          IN <<turn[1], [shard EXCEPT !.ready[prio][which] = turn[2]]>>

\* pickSingleWithStrategy on the shard it ensures.
PickSingle(shard, preferWs, strat, cands) ==
  IF Usable(shard, "all", cands) = {} THEN <<NoAuth, shard>>
  ELSE PickAt(shard, BestPriority(shard, preferWs, cands), preferWs, strat, cands)

(* A mixed request asks the shards of several providers, in order.         *)

BestMixed(shs, cands) == Max(UNION {Usable(shs[i], "all", cands) : i \in DOMAIN shs})

Weight(shs, i, prio) == Len(shs[i].ready[prio].all.flat)
SegmentStarts(shs, prio) ==
  LET start[i \in 1 .. Len(shs) + 1] ==
        IF i = 1 THEN 0 ELSE start[i - 1] + Weight(shs, i - 1, prio)
  IN start
SegmentStart(shs, i, prio) == SegmentStarts(shs, prio)[i]
TotalWeight(shs, prio) == SegmentStart(shs, Len(shs) + 1, prio)

StartProvider(shs, prio, slot) ==
  CHOOSE i \in DOMAIN shs : /\ SegmentStart(shs, i, prio) <= slot
                            /\ slot < SegmentStart(shs, i + 1, prio)

\* How many providers after the one the slot falls in.
Hops(shs, prio, slot, i) ==
  (i + Len(shs) - StartProvider(shs, prio, slot)) % Len(shs)

\* Providers that have a candidate at the best priority.
CanServe(shs, prio, cands) ==
  {i \in DOMAIN shs : Elements(shs[i].ready[prio].all, cands) # {}}

\* Mutant of PickMixed: every pick starts a new turn at the first provider.
PickMixedNoCursor(shs, strat, slot, cands) ==
  IF \A i \in DOMAIN shs : Usable(shs[i], "all", cands) = {}
  THEN [auth |-> NoAuth, shs |-> shs, slot |-> slot]
  ELSE LET prio  == BestMixed(shs, cands)
           i     == Min(CanServe(shs, prio, cands))
           taken == PickAt(shs[i], prio, FALSE, strat, cands)
       IN [auth |-> taken[1], shs |-> [shs EXCEPT ![i] = taken[2]], slot |-> 0]

\* pickMixedWithStrategy over the ensured shards: the providers' ready
\* credentials form one ring of slots, a provider's segment being as long as
\* its view; the turn goes to the provider the slot falls in or, if it has no
\* candidate, to the next one that has.
PickMixed(shs, strat, slot, cands) ==
  IF \A i \in DOMAIN shs : Usable(shs[i], "all", cands) = {}
  THEN [auth |-> NoAuth, shs |-> shs, slot |-> slot]
  ELSE LET prio  == BestMixed(shs, cands)
           start == slot % TotalWeight(shs, prio)
           able  == CanServe(shs, prio, cands)
           i     == IF strat = "fill-first" THEN Min(able)
                    ELSE CHOOSE i \in able : \A j \in able :
                           Hops(shs, prio, start, i) <= Hops(shs, prio, start, j)
           taken == PickAt(shs[i], prio, FALSE, strat, cands)
           turn  == IF i = StartProvider(shs, prio, start) THEN start
                    ELSE SegmentStart(shs, i, prio)
       IN [auth |-> taken[1], shs |-> [shs EXCEPT ![i] = taken[2]],
           slot |-> IF strat = "fill-first" THEN slot ELSE turn + 1]

-----------------------------------------------------------------------------
(* The steps.                                                              *)

NoSlots == [x \in Orders \X Keys |-> 0]

Init ==
  /\ pool = [a \in Auths |-> NoAuth]
  /\ strategy \in Strategies
  /\ metas = [p \in Providers |-> [a \in Auths |-> NoAuth]]
  /\ shards = [p \in Providers |-> [k \in Keys |-> NoShard]]
  /\ mixed = NoSlots
  /\ now = 1

\* A credential is loaded, re-registered with other models or settings,
\* disabled or enabled; its state is kept.
Configure(a, set, off) ==
  LET cred == IF pool[a] = NoAuth THEN FreshAuth(off)
              ELSE [pool[a].cred EXCEPT !.disabled = off,
                                        !.status = IF off THEN "disabled" ELSE "active"]
      snap == [prov |-> set.prov, prio |-> set.prio, ws |-> set.ws,
               supports |-> set.supports, cred |-> cred]
  IN /\ pool' = [pool EXCEPT ![a] = snap]
     /\ UpsertAuth(a, snap)
     /\ UNCHANGED <<strategy, mixed, now>>

\* Manager.MarkResult with the credential it leaves.
Report(a, cred) ==
  /\ pool[a] # NoAuth
  /\ LET snap == [pool[a] EXCEPT !.cred = cred] IN
       /\ pool' = [pool EXCEPT ![a] = snap]
       /\ UpsertAuth(a, snap)
  /\ UNCHANGED <<strategy, mixed, now>>

ReportSuccess(a, m) == Report(a, Succeed(pool[a].cred, m, now))
ReportFailure(a, m, kind, hint) == Report(a, Fail(pool[a].cred, m, kind, hint, FALSE, now))

\* Manager.Remove.
Forget(a) ==
  /\ pool[a] # NoAuth
  /\ pool' = [pool EXCEPT ![a] = NoAuth]
  /\ RemoveAuth(a)
  /\ UNCHANGED <<strategy, mixed, now>>

\* setSelector.
SetSelector(s) ==
  /\ s # strategy
  /\ strategy' = s
  /\ mixed' = NoSlots
  /\ UNCHANGED <<pool, metas, shards, now>>

\* syncScheduler: everything is rebuilt from the manager's credentials.
Rebuild ==
  /\ metas' = [p \in Providers |-> [a \in Auths |->
                 IF pool[a] # NoAuth /\ ~pool[a].cred.disabled /\ pool[a].prov = p
                 THEN pool[a] ELSE NoAuth]]
  /\ shards' = [p \in Providers |-> [k \in Keys |-> NoShard]]
  /\ mixed' = NoSlots
  /\ UNCHANGED <<pool, strategy, now>>

\* The shards a request over these providers looks at.
ShardsOf(order, k) == [i \in DOMAIN order |-> Ensured(shards[order[i]][k], k, metas[order[i]], now)]

\* A request for one provider; a pinned credential switches the websocket
\* preference off.
PickOne(p, k, ws, pinned, tried) ==
  LET cands == (IF pinned = NoAuth THEN Auths ELSE {pinned}) \ tried
      prefer == ws /\ p \in WsProviders /\ pinned = NoAuth
  IN /\ shards' = [shards EXCEPT ![p][k] =
           PickSingle(Ensured(@, k, metas[p], now), prefer, strategy, cands)[2]]
     /\ UNCHANGED <<pool, strategy, metas, mixed, now>>

\* A request over several providers.
PickAny(order, k, tried) ==
  LET r == PickMixed(ShardsOf(order, k), strategy, mixed[<<order, k>>], Auths \ tried) IN
  /\ shards' = [p \in Providers |->
                  IF \E i \in DOMAIN order : order[i] = p
                  THEN [shards[p] EXCEPT ![k] = r.shs[CHOOSE i \in DOMAIN order : order[i] = p]]
                  ELSE shards[p]]
  /\ mixed' = [mixed EXCEPT ![<<order, k>>] = r.slot]
  /\ UNCHANGED <<pool, strategy, metas, now>>

\* The same with a pinned credential: only its provider's shard is used.
PickPinned(order, k, pinned, tried) ==
  \E p \in ToSet(order) \intersect AuthProvider(pinned) :
    /\ shards' = [shards EXCEPT ![p][k] =
          PickSingle(Ensured(@, k, metas[p], now), FALSE, strategy, {pinned} \ tried)[2]]
    /\ UNCHANGED <<pool, strategy, metas, mixed, now>>

Tick ==
  /\ now < MaxTime
  /\ now' = now + 1
  /\ UNCHANGED <<pool, strategy, metas, shards, mixed>>

HintsFor(kind) == IF kind = "quota" THEN Hints ELSE {NoHint}

Next ==
  \/ \E a \in Auths :
       \/ \E set \in Settings[a], off \in BOOLEAN : Configure(a, set, off)
       \/ \E m \in Models :
            \/ ReportSuccess(a, m)
            \/ \E kind \in Failures : \E hint \in HintsFor(kind) : ReportFailure(a, m, kind, hint)
       \/ Forget(a)
  \/ \E s \in Strategies : SetSelector(s)
  \/ Rebuild
  \/ \E k \in Keys, tried \in SUBSET Auths :
       \/ \E p \in Providers, ws \in BOOLEAN : PickOne(p, k, ws, NoAuth, tried)
       \/ \E order \in Orders : PickAny(order, k, tried)
  \/ \E k \in Keys, pinned \in Auths : \E tried \in SUBSET {pinned} :
       \/ \E p \in Providers, ws \in BOOLEAN : PickOne(p, k, ws, pinned, tried)
       \/ \E order \in Orders : PickPinned(order, k, pinned, tried)
  \/ Tick

Spec == Init /\ [][Next]_vars

-----------------------------------------------------------------------------
(* Properties.                                                             *)

EntryOK(e) ==
  /\ e.in \in BOOLEAN
  /\ e.state \in {"ready", "cooldown", "blocked", "disabled"}
  /\ e.next \in Nat

ViewOK(v) == v.flat \in Seq(Auths) /\ v.cursor \in 0 .. Len(v.flat)

\* Every variable has the shape its Go type gives it; a cursor is an index
\* into its view or one past it.
TypeOK ==
  /\ pool \in [Auths -> Snapshots \union {NoAuth}]
  /\ \A a \in Auths : pool[a] # NoAuth =>
       [prov |-> pool[a].prov, prio |-> pool[a].prio, ws |-> pool[a].ws,
        supports |-> pool[a].supports] \in Settings[a]
  /\ strategy \in Strategies
  /\ \A p \in Providers, k \in Keys :
       /\ \A a \in Auths : EntryOK(shards[p][k].entries[a])
       /\ \A pr \in Priorities : /\ ViewOK(shards[p][k].ready[pr].all)
                                 /\ ViewOK(shards[p][k].ready[pr].ws)
       /\ shards[p][k].blocked \subseteq Auths
  /\ mixed \in [Orders \X Keys -> Nat]
  /\ now \in 1 .. MaxTime

Members(p, k) == {a \in Auths : metas[p][a] # NoAuth /\ Supports(metas[p][a], k)}

\* Whatever sequence of upserts, removals, promotions and skipped rebuilds led
\* here, the scheduler holds exactly the enabled credentials under their own
\* provider, a shard exactly those that support its model, and its views are
\* what its entries say, in id order, under the priorities the credentials have now.
ViewsFollowCredentials ==
  /\ \A p \in Providers, a \in Auths :
       metas[p][a] = IF pool[a] # NoAuth /\ ~pool[a].cred.disabled /\ pool[a].prov = p
                     THEN pool[a] ELSE NoAuth
  /\ \A p \in Providers, k \in Keys :
       LET s == shards[p][k] IN
       s.made =>
         /\ {a \in Auths : s.entries[a].in} = Members(p, k)
         /\ s.blocked = {a \in Members(p, k) : s.entries[a].state \in {"cooldown", "blocked"}}
         /\ \A pr \in Priorities :
              LET ids == {a \in Members(p, k) : s.entries[a].state = "ready" /\ metas[p][a].prio = pr}
              IN /\ s.ready[pr].all.flat = Sorted(ids)
                 /\ s.ready[pr].ws.flat = Sorted({a \in ids : metas[p][a].ws})

\* Credentials a selector would consider free now, among the candidates.
Free(p, k, cands) == {a \in Members(p, k) \intersect cands : ~BlockedAt(metas[p][a], k, now)}

\* Its quota window is still open although its retry time has passed.
Held(p, k, a) ==
  LET c == metas[p][a].cred IN (IF k = AnyModel THEN c ELSE c.ms[k]).quota.recover > now

\* The shard a request for one provider finds now.
ShardNow(p, k) == Ensured(shards[p][k], k, metas[p], now)

\* A request fails only if each free candidate is still held by an open quota
\* window.  Otherwise it gets a free one, never one that is blocked, disabled, tried
\* before or not registered for the model, however old the shard's entries are, and
\* no free unheld candidate outranks it: by websocket support first if that is
\* asked for, then by priority.
PickIsBest ==
  \A p \in Providers, k \in Keys :
    LET shard  == ShardNow(p, k)
        free   == Free(p, k, Auths)
        unheld == {b \in free : ~Held(p, k, b)}
    IN \A prefer \in BOOLEAN, s \in Strategies, cands \in SUBSET Auths :
         LET a == PickSingle(shard, prefer, s, cands)[1]
             rank(b) == <<prefer /\ metas[p][b].ws, metas[p][b].prio>>
         IN IF a = NoAuth THEN unheld \intersect cands = {}
            ELSE /\ a \in free \intersect cands
                 /\ \A b \in unheld \intersect cands :
                      /\ rank(b)[1] => rank(a)[1]
                      /\ rank(a)[1] = rank(b)[1] => rank(b)[2] <= rank(a)[2]

\* A round-robin pick brings every candidate it passes over closer to its turn
\* and puts the picked one last, whatever candidates the requests have tried:
\* while a view keeps its members nobody in it waits longer than its length.
RoundRobinProgress ==
  \A p \in Providers, k \in Keys, pr \in Priorities, cands \in SUBSET Auths :
    LET v == shards[p][k].ready[pr].all IN
    Elements(v, cands) # {} =>
      LET turn == NextInTurn(v, cands) IN
      /\ Steps(turn[2], turn[1]) = Len(v.flat) - 1
      /\ \A b \in Elements(v, cands) \ {turn[1]} : Steps(turn[2], b) < Steps(v, b)

\* How far a provider's segment is from the slot.
Distance(shs, prio, slot, i) ==
  LET n == TotalWeight(shs, prio) IN
  IF StartProvider(shs, prio, slot % n) = i THEN 0
  ELSE (SegmentStart(shs, i, prio) + n - (slot % n)) % n

\* A mixed request gets a free candidate no free unheld one outranks, fails only
\* if there is none, and its turn brings every other provider that could have
\* served it closer: no provider is starved by another.
MixedPickIsFairAndBest ==
  \A order \in Orders, k \in Keys :
    LET shs   == ShardsOf(order, k)
        free  == UNION {Free(order[i], k, Auths) : i \in DOMAIN order}
        unheld == {a \in free : ~Held(pool[a].prov, k, a)}
    IN \A s \in Strategies, cands \in SUBSET Auths :
         LET r == PickMixed(shs, s, mixed[<<order, k>>], cands) IN
         IF r.auth = NoAuth THEN unheld \intersect cands = {}
         ELSE /\ r.auth \in free \intersect cands
              /\ \A a \in unheld \intersect cands : pool[a].prio <= pool[r.auth].prio
              /\ s = "round-robin" =>
                   LET prio == BestMixed(shs, cands) IN
                   \A i \in CanServe(shs, prio, cands) :
                     order[i] # pool[r.auth].prov =>
                       Distance(shs, prio, r.slot, i) < Distance(shs, prio, mixed[<<order, k>>], i)

\* "selectorStrategy maps a selector implementation to the scheduler semantics
\* it should emulate" (scheduler.go:134): a request the selector would serve
\* is served.
EmulatesSelector ==
  \A p \in Providers, k \in Keys :
    Free(p, k, Auths) # {} => PickSingle(ShardNow(p, k), FALSE, strategy, Auths)[1] # NoAuth
=============================================================================
