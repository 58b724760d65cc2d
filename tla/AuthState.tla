----------------------------- MODULE AuthState -----------------------------
(***************************************************************************)
(* The availability state of one credential (sdk/cliproxy/auth/types.go,   *)
(* Auth and ModelState) and the pure functions Manager applies to it while *)
(* it holds its lock (conductor.go): recording a result, aggregating the   *)
(* per-model states into the credential's own, clearing and restoring a    *)
(* cooldown, and the rule that decides whether a credential is blocked     *)
(* (selector.go, isAuthBlockedForModel).                                   *)
(*                                                                         *)
(* Times are ticks.  0 is Go's zero time, so real times start at 1.  The   *)
(* HTTP status of a failure is abstracted to the branch it selects; texts  *)
(* (status messages, reasons) are left out, an error is present or absent. *)
(***************************************************************************)
EXTENDS Integers, FiniteSets, FiniteSetsExt

CONSTANTS
  Models,          \* model names a credential keeps state for
  QuotaBackoffBase, \* quotaBackoffBase
  QuotaBackoffMax,  \* quotaBackoffMax
  CloudflareMin,    \* the 10 s floor of nextCloudflareCooldown
  MaxLevel,         \* the first level whose cooldown reaches the maximum
  Transient,        \* transientErrorCooldown, 0 when it is disabled
  Medium,           \* 30 min: 401, 402, 403
  Long,             \* 12 h: 404 and unsupported models
  NoHint            \* result.RetryAfter == nil

ASSUME DurationsAssumption ==
  /\ IsFiniteSet(Models)
  /\ QuotaBackoffBase \in Nat \ {0}
  /\ QuotaBackoffMax \in Nat \ {0}
  /\ MaxLevel \in Nat
  /\ \A n \in 0 .. MaxLevel :
       /\ 2^n \in Nat
       /\ QuotaBackoffBase * 2^n >= QuotaBackoffMax <=> n = MaxLevel
  /\ CloudflareMin \in Nat \ {0}
  /\ Transient \in Nat
  /\ Medium \in Nat \ {0}
  /\ Long \in Nat \ {0}
  /\ NoHint \notin Nat

ZeroTime == 0

\* "support" is isModelSupportResultError, "cloudflare" a challenge page,
\* "credential" 401/402/403, "missing" 404, "quota" 429, "transient"
\* 408/500/502/503/504, "other" the default branch, and "request" the
\* request-scoped 404 that leaves the state alone.
Kinds == {"support", "cloudflare", "credential", "missing", "quota",
          "transient", "other", "request"}

NoQuota == [exceeded |-> FALSE, recover |-> ZeroTime, level |-> 0]

\* has: the entry is in the map.  A fresh entry is active and clean.
NoState == [has |-> FALSE, error |-> FALSE, unavail |-> FALSE,
            next |-> ZeroTime, quota |-> NoQuota, lastErr |-> FALSE]
Clean == [NoState EXCEPT !.has = TRUE]

FreshAuth(d) ==
  [disabled |-> d, status |-> IF d THEN "disabled" ELSE "active",
   unavail |-> FALSE, next |-> ZeroTime, quota |-> NoQuota, lastErr |-> FALSE,
   ms |-> [m \in Models |-> NoState]]

IsDisabled(a) == a.disabled \/ a.status = "disabled"
Present(a) == {m \in Models : a.ms[m].has}
MaxOf(x, y) == IF x > y THEN x ELSE y

-----------------------------------------------------------------------------
(* Who is blocked.                                                         *)

Cooling(s, t) == s.unavail /\ s.next > t

\* isAuthBlockedForModel for a named model ...
BlockedFor(a, m, t) == IsDisabled(a) \/ (a.ms[m].has /\ Cooling(a.ms[m], t))

\* ... and for the empty model.
BlockedAny(a, t) == IsDisabled(a) \/ Cooling(a, t)

\* The moment it reports for the end of the block.
ReportedEnd(s, t) == IF s.quota.recover > t THEN s.quota.recover ELSE s.next

-----------------------------------------------------------------------------
(* Cooldown lengths.                                                       *)

\* Mutant of QuotaCooldown: the level keeps growing past the cap.
QuotaCooldownUncapped(level) ==
  LET c == QuotaBackoffBase * 2^level IN
  IF c >= QuotaBackoffMax THEN <<QuotaBackoffMax, level + 1>> ELSE <<c, level + 1>>

\* nextQuotaCooldown: <<length, next level>>.
QuotaCooldown(level) ==
  LET c == QuotaBackoffBase * 2^level IN
  IF c >= QuotaBackoffMax THEN <<QuotaBackoffMax, level>> ELSE <<c, level + 1>>

CloudflareCooldown(level) ==
  <<MaxOf(QuotaCooldown(level)[1], CloudflareMin), QuotaCooldown(level)[2]>>

After(t, d) == IF d = 0 THEN ZeroTime ELSE t + d

\* Mutant of FailedQuota: any failure that is not a quota error starts over.
FailedQuotaForgets(q, kind, hint, off, t) ==
  LET bumped(c) == IF off THEN [exceeded |-> TRUE, recover |-> ZeroTime, level |-> q.level]
                   ELSE [exceeded |-> TRUE, recover |-> t + c[1], level |-> c[2]]
  IN CASE kind = "cloudflare" -> bumped(CloudflareCooldown(q.level))
       [] kind = "quota" -> bumped(IF hint # NoHint THEN <<hint, q.level>>
                                   ELSE QuotaCooldown(q.level))
       [] OTHER -> NoQuota

\* The quota record and retry time of a failure, from the quota record before.
FailedQuota(q, kind, hint, off, t) ==
  LET bumped(c) == IF off THEN [exceeded |-> TRUE, recover |-> ZeroTime, level |-> q.level]
                   ELSE [exceeded |-> TRUE, recover |-> t + c[1], level |-> c[2]]
  IN CASE kind = "cloudflare" -> bumped(CloudflareCooldown(q.level))
       [] kind = "quota" -> bumped(IF hint # NoHint THEN <<hint, q.level>>
                                   ELSE QuotaCooldown(q.level))
       [] OTHER -> q

FailedNext(q, kind, hint, off, t) ==
  CASE kind = "support" -> t + Long
    [] kind \in {"cloudflare", "quota"} -> FailedQuota(q, kind, hint, off, t).recover
    [] kind = "credential" -> IF off THEN ZeroTime ELSE t + Medium
    [] kind = "missing" -> IF off THEN ZeroTime ELSE t + Long
    [] kind = "transient" -> IF off THEN ZeroTime ELSE After(t, Transient)
    [] OTHER -> ZeroTime

-----------------------------------------------------------------------------
(* Aggregation.                                                            *)

Swept(s, t) ==
  IF s.unavail /\ s.next # ZeroTime /\ s.next <= t
  THEN [s EXCEPT !.unavail = FALSE, !.next = ZeroTime] ELSE s

\* updateAggregatedAvailability: sweep the expired cooldowns; the credential is
\* unavailable when every model is, until the first of them recovers.
UpdateAggregated(a, t) ==
  LET ms   == [m \in Models |-> Swept(a.ms[m], t)]
      P    == Present(a)
      over == {m \in P : ms[m].quota.exceeded}
      recs == {ms[m].quota.recover : m \in over} \ {ZeroTime}
      all  == P # {} /\ \A m \in P : Cooling(ms[m], t)
  IN [a EXCEPT
        !.ms = ms,
        !.unavail = all,
        !.next = IF all THEN Min({ms[m].next : m \in P}) ELSE ZeroTime,
        !.quota = IF over = {} THEN NoQuota
                  ELSE [exceeded |-> TRUE,
                        recover |-> IF recs = {} THEN ZeroTime ELSE Min(recs),
                        level |-> Max({ms[m].quota.level : m \in over})]]

HasModelError(a, t) ==
  \E m \in Present(a) :
    \/ a.ms[m].lastErr
    \/ a.ms[m].error /\ a.ms[m].unavail /\ (a.ms[m].next = ZeroTime \/ a.ms[m].next > t)

\* Mutant of Healed: the credential is healed with its model.
HealedAlways(a, t) == [a EXCEPT !.lastErr = FALSE, !.status = "active"]

\* The tail shared by a success and a reconciliation.
Healed(a, t) ==
  IF HasModelError(a, t) THEN a ELSE [a EXCEPT !.lastErr = FALSE, !.status = "active"]

-----------------------------------------------------------------------------
(* Results (the locked section of MarkResult).                             *)

\* Mutant of Succeed: the other models' states are reset as well.
SucceedAll(a, m, t) ==
  Healed(UpdateAggregated([a EXCEPT !.ms = [k \in Models |->
    IF k = m \/ @[k].has THEN Clean ELSE NoState]], t), t)

Succeed(a, m, t) == Healed(UpdateAggregated([a EXCEPT !.ms[m] = Clean], t), t)

\* Mutant of Fail: the aggregate is not recomputed.
FailNoAggregate(a, m, kind, hint, off, t) ==
  IF kind = "request" THEN a
  ELSE [a EXCEPT !.ms[m] = [has |-> TRUE, error |-> TRUE, unavail |-> TRUE, lastErr |-> TRUE,
                            next  |-> FailedNext(@.quota, kind, hint, off, t),
                            quota |-> FailedQuota(@.quota, kind, hint, off, t)],
                 !.status = "error", !.lastErr = TRUE]

Fail(a, m, kind, hint, off, t) ==
  IF kind = "request" THEN a
  ELSE UpdateAggregated(
         [a EXCEPT !.ms[m] = [has |-> TRUE, error |-> TRUE, unavail |-> TRUE, lastErr |-> TRUE,
                              next  |-> FailedNext(@.quota, kind, hint, off, t),
                              quota |-> FailedQuota(@.quota, kind, hint, off, t)],
                   !.status = "error", !.lastErr = TRUE], t)

\* A result that names no model touches the credential alone.
SucceedAuth(a) ==
  [a EXCEPT !.unavail = FALSE, !.status = "active", !.quota = NoQuota,
            !.lastErr = FALSE, !.next = ZeroTime]

\* applyAuthFailureState: as for a model, but an unsupported model has no
\* branch of its own and the default branch leaves the retry time alone.
FailAuth(a, kind, hint, off, t) ==
  IF kind = "request" THEN a
  ELSE [a EXCEPT !.unavail = TRUE, !.status = "error", !.lastErr = TRUE,
                 !.quota = FailedQuota(@, kind, hint, off, t),
                 !.next  = IF kind \in {"support", "other"} THEN @
                           ELSE FailedNext(a.quota, kind, hint, off, t)]

-----------------------------------------------------------------------------
(* Clearing, reconciling and restoring.                                    *)

HasCooldown(s) == s.unavail \/ s.next # ZeroTime \/ s.quota.exceeded \/ s.quota.recover # ZeroTime

Cleared(s) ==
  IF HasCooldown(s) THEN [s EXCEPT !.unavail = FALSE, !.next = ZeroTime, !.quota = NoQuota] ELSE s

\* clearCooldownStateForAuth, and whether it changes anything.
ClearCooldown(a, t) ==
  LET b == [Cleared(a) EXCEPT !.ms = [m \in Models |-> Cleared(a.ms[m])]]
  IN IF Present(a) = {} THEN b ELSE UpdateAggregated(b, t)

ClearChanges(a) == HasCooldown(a) \/ \E m \in Present(a) : HasCooldown(a.ms[m])

\* The locked section of ResetQuota.
ResetQuota(a, t) ==
  LET c == ClearCooldown([a EXCEPT !.ms = [m \in Models |->
                            IF @[m].has THEN Clean ELSE NoState]], t)
  IN IF IsDisabled(c) THEN c ELSE Healed(c, t)

IsClean(s) == s \in {NoState, Clean}

\* The locked section of ReconcileRegistryModelStates.
Reconciled(a, supported, t) ==
  LET ms == [m \in Models |-> IF a.ms[m].has /\ m \in supported THEN Clean ELSE NoState]
  IN IF \E m \in Present(a) : m \notin supported \/ ~IsClean(a.ms[m])
     THEN Healed(UpdateAggregated([a EXCEPT !.ms = ms], t), t)
     ELSE a

AuthLevel == "auth"   \* the record of the credential itself: empty model

RecordOf(s) == [next |-> s.next, quota |-> s.quota, lastErr |-> s.lastErr]
NoRecord == [next |-> ZeroTime, quota |-> NoQuota, lastErr |-> FALSE]

\* cooldownStateRecordsForAuthLocked: what is worth writing to disk now.
CooldownRecords(a, off, t) ==
  LET muted == IsDisabled(a) \/ off IN
  [k \in Models \union {AuthLevel} |->
     IF muted THEN NoRecord
     ELSE IF k = AuthLevel THEN IF Cooling(a, t) THEN RecordOf(a) ELSE NoRecord
     ELSE IF a.ms[k].has /\ Cooling(a.ms[k], t) THEN RecordOf(a.ms[k]) ELSE NoRecord]

RestoredQuota(r) ==
  IF r.quota.exceeded /\ r.quota.recover = ZeroTime
  THEN [r.quota EXCEPT !.recover = r.next] ELSE r.quota

\* Mutant of Restore: the cooling switch is not consulted.
RestoreIgnoresSwitch(a, recs, off, t) ==
  LET live == {k \in DOMAIN recs : recs[k].next > t}
      ms == [m \in Models |->
               IF m \in live
               THEN [has |-> TRUE, error |-> TRUE, unavail |-> TRUE, next |-> recs[m].next,
                     quota |-> RestoredQuota(recs[m]), lastErr |-> recs[m].lastErr]
               ELSE a.ms[m]]
  IN IF IsDisabled(a) THEN a ELSE UpdateAggregated([a EXCEPT !.ms = ms], t)

\* RestoreCooldownStates under the lock: the model records first, then the
\* record of the credential itself.
Restore(a, recs, off, t) ==
  LET live == {k \in DOMAIN recs : recs[k].next > t}
      ms == [m \in Models |->
               IF m \in live
               THEN [has |-> TRUE, error |-> TRUE, unavail |-> TRUE, next |-> recs[m].next,
                     quota |-> RestoredQuota(recs[m]), lastErr |-> recs[m].lastErr]
               ELSE a.ms[m]]
      b == IF live \intersect Models = {} THEN a
           ELSE UpdateAggregated([a EXCEPT !.ms = ms], t)
  IN IF IsDisabled(a) \/ off THEN a
     ELSE IF AuthLevel \notin live THEN b
     ELSE [b EXCEPT !.unavail = TRUE, !.status = "error", !.next = recs[AuthLevel].next,
                    !.quota = RestoredQuota(recs[AuthLevel]),
                    !.lastErr = recs[AuthLevel].lastErr]
=============================================================================
