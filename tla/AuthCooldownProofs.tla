------------------------- MODULE AuthCooldownProofs ------------------------
(***************************************************************************)
(* What holds of a credential's cooldown state for any models, durations,  *)
(* hints and clock bound: its types, that the backoff level stays within   *)
(* the first level that reaches the maximum and falls only by a relief,    *)
(* that while cooling is off nothing blocks but an unsupported model, that *)
(* a result frees or blocks no model but its own, that a store nobody left *)
(* behind is exact once the saves are over, and, while nobody administers, *)
(* that the aggregate and the status say what the models' states do.       *)
(*                                                                         *)
(* Types and bound are proved together: the length of a cooldown is a      *)
(* number because the level it is computed from is bounded (the assumption *)
(* on 2^n covers levels up to MaxLevel), and the level is bounded because  *)
(* comparing that length with the maximum stops it there.                  *)
(***************************************************************************)
EXTENDS AuthCooldown, WellFoundedInduction, TLAPS

-----------------------------------------------------------------------------
(* Numbers.                                                                *)

\* A non-empty set of naturals has a least element, and Min returns it.
LEMMA MinOfNaturals ==
  ASSUME NEW S \in SUBSET Nat, S # {}
  PROVE  /\ Min(S) \in S
         /\ \A x \in S : Min(S) <= x
<1>1. PICK x \in S : \A y \in S : ~(<<y, x>> \in OpToRel(<, Nat))
  <2> DEFINE R == OpToRel(<, Nat)
  <2>1. IsWellFoundedOn(R, Nat)
    BY NatLessThanWellFounded
  <2> HIDE DEF R
  <2>2. \E x \in S : \A y \in S : ~(<<y, x>> \in R)
    BY <2>1, WFMin
  <2> QED
    BY <2>2 DEF R
<1>2. \A y \in S : x <= y
  <2>1. ASSUME NEW y \in S
        PROVE  ~(y < x)
    BY <1>1, Zenon DEF OpToRel
  <2> QED
    BY <2>1
<1> QED
  BY <1>2 DEF Min

\* A non-empty set of naturals up to a bound has a greatest element, and Max
\* returns it.
LEMMA MaxOfBounded ==
  ASSUME NEW n \in Nat, NEW S \in SUBSET (0 .. n), S # {}
  PROVE  /\ Max(S) \in S
         /\ \A x \in S : Max(S) >= x
<1> DEFINE T == {y \in 0 .. n : n - y \in S}
<1>1. ASSUME NEW x \in S
      PROVE  n - x \in T
  <2>1. x \in 0 .. n
    OBVIOUS
  <2>2. n - x \in 0 .. n /\ n - (n - x) = x
    BY <2>1
  <2> QED
    BY <2>2
<1>2. T \in SUBSET Nat /\ T # {}
  <2>1. PICK x \in S : TRUE
    OBVIOUS
  <2>2. n - x \in T
    BY <1>1
  <2>3. \A y \in 0 .. n : y \in Nat
    OBVIOUS
  <2> QED
    BY <2>2, <2>3
<1>3. \A y \in T : y \in 0 .. n /\ n - y \in S
  OBVIOUS
<1> HIDE DEF T
<1>4. /\ Min(T) \in T
      /\ \A z \in T : Min(T) <= z
  BY <1>2, MinOfNaturals
<1>5. n - Min(T) \in S
  BY <1>3, <1>4
<1>6. \A z \in S : n - Min(T) >= z
  <2>1. ASSUME NEW z \in S
        PROVE  Min(T) <= n - z
    BY <1>1, <1>4
  <2>2. \A z \in S : z \in 0 .. n
    OBVIOUS
  <2> QED
    BY <1>3, <1>4, <2>1, <2>2
<1> QED
  BY <1>5, <1>6 DEF Max


-----------------------------------------------------------------------------
(* The types with bounded levels.                                          *)

BQuota == [exceeded : BOOLEAN, recover : Nat, level : 0 .. MaxLevel]
BState == [has : BOOLEAN, error : BOOLEAN, unavail : BOOLEAN, next : Nat,
           quota : BQuota, lastErr : BOOLEAN]
BAuth == [disabled : BOOLEAN, status : {"active", "error", "disabled"}, unavail : BOOLEAN,
          next : Nat, quota : BQuota, lastErr : BOOLEAN, ms : [Models -> BState]]
BRecord == [next : Nat, quota : BQuota, lastErr : BOOLEAN]
BRecords == [Models \union {AuthLevel} -> BRecord]
BSave == [at : {"none", "due", "held"}, records : BRecords, old : BOOLEAN]

\* The saves under way, and what is said of the store.
SavesTyped ==
  /\ save \in [Writers -> BSave]
  /\ stale \in BOOLEAN

IInv ==
  /\ auth \in BAuth
  /\ off \in BOOLEAN
  /\ disk \in BRecords
  /\ SavesTyped
  /\ reload \in [phase : {"idle", "load", "apply"}, records : BRecords]
  /\ why \in [Models -> Reasons]
  /\ now \in 1 .. MaxTime

-----------------------------------------------------------------------------
(* Records keep their types when their fields do.                          *)

\* The constants have their types.
LEMMA Durations ==
  /\ QuotaBackoffBase \in Nat /\ QuotaBackoffMax \in Nat /\ CloudflareMin \in Nat
  /\ MaxLevel \in Nat /\ Transient \in Nat /\ Medium \in Nat /\ Long \in Nat
  /\ \A n \in 0 .. MaxLevel : 2^n \in Nat
  /\ \A n \in 0 .. MaxLevel :
       QuotaBackoffBase * 2^n >= QuotaBackoffMax <=> n = MaxLevel
  BY DurationsAssumption

\* The fields of a quota record and of a model state.
LEMMA Fields ==
  /\ \A q \in BQuota : q.exceeded \in BOOLEAN /\ q.recover \in Nat /\ q.level \in 0 .. MaxLevel
  /\ \A s \in BState : /\ s.has \in BOOLEAN /\ s.error \in BOOLEAN /\ s.unavail \in BOOLEAN
                       /\ s.next \in Nat /\ s.quota \in BQuota /\ s.lastErr \in BOOLEAN
  /\ \A a \in BAuth : /\ a.disabled \in BOOLEAN /\ a.status \in {"active", "error", "disabled"}
                      /\ a.unavail \in BOOLEAN /\ a.next \in Nat /\ a.quota \in BQuota
                      /\ a.lastErr \in BOOLEAN /\ a.ms \in [Models -> BState]
  /\ \A r \in BRecord : r.next \in Nat /\ r.quota \in BQuota /\ r.lastErr \in BOOLEAN
  BY DEF BQuota, BState, BAuth, BRecord

\* The empty quota record, the absent and the clean state.
LEMMA EmptyTypes ==
  NoQuota \in BQuota /\ NoState \in BState /\ Clean \in BState /\ NoRecord \in BRecord
<1>1. NoQuota \in BQuota
  BY Durations DEF NoQuota, BQuota, ZeroTime
<1> QED
  BY <1>1 DEF NoState, Clean, NoRecord, BState, BRecord, ZeroTime

\* A fresh credential.
LEMMA FreshType ==
  ASSUME NEW d \in BOOLEAN
  PROVE  FreshAuth(d) \in BAuth
  BY EmptyTypes DEF FreshAuth, BAuth, ZeroTime

-----------------------------------------------------------------------------
(* Cooldown lengths.                                                       *)

\* nextQuotaCooldown returns a length and a level within the bound.
LEMMA QuotaCooldownType ==
  ASSUME NEW level \in 0 .. MaxLevel
  PROVE  QuotaCooldown(level)[1] \in Nat /\ QuotaCooldown(level)[2] \in 0 .. MaxLevel
<1> DEFINE c == QuotaBackoffBase * 2^level
<1>1. c \in Nat
  <2>1. ASSUME NEW x \in Nat, NEW y \in Nat
        PROVE  x * y \in Nat
    OBVIOUS
  <2> QED
    BY <2>1, Durations
<1>2. c >= QuotaBackoffMax <=> level = MaxLevel
  BY Durations
<1> HIDE DEF c
<1>3. CASE c >= QuotaBackoffMax
  <2>1. QuotaCooldown(level) = <<QuotaBackoffMax, level>>
    BY <1>3 DEF QuotaCooldown, c
  <2> QED
    BY <2>1, Durations
<1>4. CASE ~(c >= QuotaBackoffMax)
  <2>1. QuotaCooldown(level) = <<c, level + 1>>
    BY <1>4 DEF QuotaCooldown, c
  <2>2. level + 1 \in 0 .. MaxLevel
    BY <1>2, <1>4, Durations
  <2> QED
    BY <2>1, <2>2, <1>1
<1> QED
  BY <1>3, <1>4

\* nextCloudflareCooldown likewise.
LEMMA CloudflareCooldownType ==
  ASSUME NEW level \in 0 .. MaxLevel
  PROVE  CloudflareCooldown(level)[1] \in Nat /\ CloudflareCooldown(level)[2] \in 0 .. MaxLevel
<1> DEFINE q == QuotaCooldown(level)
<1>1. q[1] \in Nat /\ q[2] \in 0 .. MaxLevel
  BY QuotaCooldownType
<1> HIDE DEF q
<1>2. CloudflareCooldown(level) = <<MaxOf(q[1], CloudflareMin), q[2]>>
  BY DEF CloudflareCooldown, q
<1>3. MaxOf(q[1], CloudflareMin) \in Nat
  BY <1>1, Durations DEF MaxOf
<1> QED
  BY <1>1, <1>2, <1>3

\* A failure leaves a quota record within the bound.
LEMMA FailedQuotaType ==
  ASSUME NEW q \in BQuota, NEW kind \in Kinds, NEW hint \in HintsFor(kind),
         NEW switch \in BOOLEAN, NEW t \in Nat
  PROVE  FailedQuota(q, kind, hint, switch, t) \in BQuota
<1>1. ASSUME NEW r \in Nat, NEW l \in 0 .. MaxLevel
      PROVE  [exceeded |-> TRUE, recover |-> r, level |-> l] \in BQuota
  BY DEF BQuota
<1>2. q.level \in 0 .. MaxLevel
  BY Fields
<1>3. CASE kind = "cloudflare"
  <2>1. CASE switch
    BY <1>1, <1>2, <1>3, <2>1 DEF FailedQuota, ZeroTime
  <2>2. CASE ~switch
    <3> DEFINE c == CloudflareCooldown(q.level)
    <3>1. c[1] \in Nat /\ c[2] \in 0 .. MaxLevel
      BY <1>2, CloudflareCooldownType
    <3>2. FailedQuota(q, kind, hint, switch, t)
            = [exceeded |-> TRUE, recover |-> t + c[1], level |-> c[2]]
      BY <1>3, <2>2 DEF FailedQuota
    <3> HIDE DEF c
    <3>3. t + c[1] \in Nat
      BY <3>1
    <3> QED
      BY <1>1, <3>1, <3>2, <3>3
  <2> QED
    BY <2>1, <2>2
<1>4. CASE kind = "quota"
  <2>1. CASE switch
    BY <1>1, <1>2, <1>4, <2>1 DEF FailedQuota, ZeroTime
  <2>2. CASE ~switch /\ hint # NoHint
    <3>1. hint \in Nat
      BY <2>2, CooldownAssumption DEF HintsFor
    <3>2. FailedQuota(q, kind, hint, switch, t)
            = [exceeded |-> TRUE, recover |-> t + hint, level |-> q.level]
      BY <1>4, <2>2 DEF FailedQuota
    <3>3. t + hint \in Nat
      BY <3>1
    <3> QED
      BY <1>1, <1>2, <3>2, <3>3
  <2>3. CASE ~switch /\ hint = NoHint
    <3> DEFINE c == QuotaCooldown(q.level)
    <3>1. c[1] \in Nat /\ c[2] \in 0 .. MaxLevel
      BY <1>2, QuotaCooldownType
    <3>2. FailedQuota(q, kind, hint, switch, t)
            = [exceeded |-> TRUE, recover |-> t + c[1], level |-> c[2]]
      BY <1>4, <2>3 DEF FailedQuota
    <3> HIDE DEF c
    <3>3. t + c[1] \in Nat
      BY <3>1
    <3> QED
      BY <1>1, <3>1, <3>2, <3>3
  <2> QED
    BY <2>1, <2>2, <2>3
<1>5. CASE kind \notin {"cloudflare", "quota"}
  <2>1. FailedQuota(q, kind, hint, switch, t) = q
    BY <1>5 DEF FailedQuota
  <2> QED
    BY <2>1
<1> QED
  BY <1>3, <1>4, <1>5

\* A failure leaves a retry time.
LEMMA FailedNextType ==
  ASSUME NEW q \in BQuota, NEW kind \in Kinds, NEW hint \in HintsFor(kind),
         NEW switch \in BOOLEAN, NEW t \in Nat
  PROVE  FailedNext(q, kind, hint, switch, t) \in Nat
<1>1. FailedQuota(q, kind, hint, switch, t).recover \in Nat
  BY FailedQuotaType, Fields
<1>2. /\ t + Long \in Nat /\ t + Medium \in Nat /\ ZeroTime \in Nat
      /\ After(t, Transient) \in Nat
  BY Durations DEF After, ZeroTime
<1> HIDE DEF ZeroTime
<1> QED
  BY <1>1, <1>2 DEF FailedNext, Kinds

-----------------------------------------------------------------------------
(* The functions on a credential keep its types.                           *)

\* A new retry time of a model, without and with a new quota record.
LEMMA SetRetry ==
  ASSUME NEW s \in BState, NEW u \in BOOLEAN, NEW n \in Nat
  PROVE  [s EXCEPT !.unavail = u, !.next = n] \in BState
  BY DEF BState

LEMMA SetRetryAndQuota ==
  ASSUME NEW s \in BState, NEW u \in BOOLEAN, NEW n \in Nat, NEW q \in BQuota
  PROVE  [s EXCEPT !.unavail = u, !.next = n, !.quota = q] \in BState
  BY DEF BState

\* New model states.
LEMMA SetStates ==
  ASSUME NEW a \in BAuth, NEW f \in [Models -> BState]
  PROVE  [a EXCEPT !.ms = f] \in BAuth
  BY DEF BAuth

\* A new aggregate.
LEMMA SetAggregate ==
  ASSUME NEW a \in BAuth, NEW f \in [Models -> BState], NEW u \in BOOLEAN,
         NEW n \in Nat, NEW q \in BQuota
  PROVE  [a EXCEPT !.ms = f, !.unavail = u, !.next = n, !.quota = q] \in BAuth
  BY DEF BAuth

\* A new cooldown of the credential.
LEMMA SetCooldown ==
  ASSUME NEW a \in BAuth, NEW u \in BOOLEAN, NEW n \in Nat, NEW q \in BQuota
  PROVE  [a EXCEPT !.unavail = u, !.next = n, !.quota = q] \in BAuth
  BY DEF BAuth

\* A new status.
LEMMA SetHealth ==
  ASSUME NEW a \in BAuth, NEW e \in BOOLEAN,
         NEW st \in {"active", "error", "disabled"}
  PROVE  [a EXCEPT !.lastErr = e, !.status = st] \in BAuth
  BY DEF BAuth

\* New model states and status.
LEMMA SetFailed ==
  ASSUME NEW a \in BAuth, NEW f \in [Models -> BState],
         NEW st \in {"active", "error", "disabled"}, NEW e \in BOOLEAN
  PROVE  [a EXCEPT !.ms = f, !.status = st, !.lastErr = e] \in BAuth
  BY DEF BAuth

\* A new disabled flag.
LEMMA SetFlag ==
  ASSUME NEW a \in BAuth, NEW d \in BOOLEAN,
         NEW st \in {"active", "error", "disabled"}
  PROVE  [a EXCEPT !.disabled = d, !.status = st] \in BAuth
  BY DEF BAuth

\* A new cooldown and status.
LEMMA SetAll ==
  ASSUME NEW a \in BAuth, NEW u \in BOOLEAN, NEW n \in Nat, NEW q \in BQuota,
         NEW e \in BOOLEAN, NEW st \in {"active", "error", "disabled"}
  PROVE  [[a EXCEPT !.unavail = u, !.next = n, !.quota = q]
           EXCEPT !.lastErr = e, !.status = st] \in BAuth
  BY DEF BAuth

\* An expired cooldown is swept to a state.
LEMMA SweptType ==
  ASSUME NEW s \in BState, NEW t \in Nat
  PROVE  Swept(s, t) \in BState
<1>1. ZeroTime \in Nat
  BY DEF ZeroTime
<1>2. [s EXCEPT !.unavail = FALSE, !.next = ZeroTime] \in BState
  BY <1>1, SetRetry
<1> QED
  BY <1>2 DEF Swept

\* updateAggregatedAvailability.
LEMMA UpdateAggregatedType ==
  ASSUME NEW a \in BAuth, NEW t \in Nat
  PROVE  UpdateAggregated(a, t) \in BAuth
<1> DEFINE ms   == [m \in Models |-> Swept(a.ms[m], t)]
           P    == Present(a)
           over == {m \in P : ms[m].quota.exceeded}
           recs == {ms[m].quota.recover : m \in over} \ {ZeroTime}
           lvls == {ms[m].quota.level : m \in over}
           nxts == {ms[m].next : m \in P}
           all  == P # {} /\ \A m \in P : Cooling(ms[m], t)
           nxt  == IF all THEN Min(nxts) ELSE ZeroTime
           quo  == IF over = {} THEN NoQuota
                   ELSE [exceeded |-> TRUE,
                         recover |-> IF recs = {} THEN ZeroTime ELSE Min(recs),
                         level |-> Max(lvls)]
<1>1. ms \in [Models -> BState]
  BY SweptType, Fields
<1>2. P \subseteq Models
  BY DEF Present
<1>3. UpdateAggregated(a, t) = [a EXCEPT !.ms = ms, !.unavail = all, !.next = nxt, !.quota = quo]
  BY DEF UpdateAggregated
<1>4. over \subseteq P
  OBVIOUS
<1> HIDE DEF ms, P, over
<1>5. \A m \in Models : ms[m].next \in Nat /\ ms[m].quota \in BQuota
  BY <1>1, Fields
<1>6. nxt \in Nat
  <2>1. CASE all
    <3>1. nxts \in SUBSET Nat /\ nxts # {}
      BY <1>2, <1>5, <2>1
    <3> HIDE DEF nxts
    <3> QED
      BY <3>1, <2>1, MinOfNaturals
  <2> QED
    BY <2>1 DEF ZeroTime
<1>7. quo \in BQuota
  <2>1. CASE over = {}
    BY <2>1, EmptyTypes
  <2>2. CASE over # {}
    <3>1. \A m \in over : ms[m].quota.recover \in Nat /\ ms[m].quota.level \in 0 .. MaxLevel
      BY <1>2, <1>4, <1>5, Fields
    <3>2. recs \in SUBSET Nat
      BY <3>1
    <3>3. lvls \in SUBSET (0 .. MaxLevel) /\ lvls # {}
      BY <3>1, <2>2
    <3> HIDE DEF recs, lvls
    <3>4. (IF recs = {} THEN ZeroTime ELSE Min(recs)) \in Nat
      BY <3>2, MinOfNaturals DEF ZeroTime
    <3>5. Max(lvls) \in 0 .. MaxLevel
      BY <3>3, MaxOfBounded, Durations
    <3> QED
      BY <2>2, <3>4, <3>5 DEF BQuota
  <2> QED
    BY <2>1, <2>2
<1>8. all \in BOOLEAN
  OBVIOUS
<1> HIDE DEF nxt, quo, all
<1>9. [a EXCEPT !.ms = ms, !.unavail = all, !.next = nxt, !.quota = quo] \in BAuth
  BY <1>1, <1>6, <1>7, <1>8, SetAggregate
<1> QED
  BY <1>3, <1>9

\* The tail of a success.
LEMMA HealedType ==
  ASSUME NEW a \in BAuth, NEW t \in Nat
  PROVE  Healed(a, t) \in BAuth
  BY SetHealth DEF Healed

\* MarkResult, success.
LEMMA SucceedType ==
  ASSUME NEW a \in BAuth, NEW m \in Models, NEW t \in Nat
  PROVE  Succeed(a, m, t) \in BAuth
<1>1. [a.ms EXCEPT ![m] = Clean] \in [Models -> BState]
  BY Fields, EmptyTypes
<1>2. [a EXCEPT !.ms = [a.ms EXCEPT ![m] = Clean]] \in BAuth
  BY <1>1, SetStates
<1> QED
  BY <1>2, UpdateAggregatedType, HealedType DEF Succeed

\* The state of a model after a failure.
FailedState(s, kind, hint, switch, t) ==
  [has |-> TRUE, error |-> TRUE, unavail |-> TRUE, lastErr |-> TRUE,
   next  |-> FailedNext(s.quota, kind, hint, switch, t),
   quota |-> FailedQuota(s.quota, kind, hint, switch, t)]

\* MarkResult, failure.
LEMMA FailType ==
  ASSUME NEW a \in BAuth, NEW m \in Models, NEW kind \in Kinds, NEW hint \in HintsFor(kind),
         NEW switch \in BOOLEAN, NEW t \in Nat
  PROVE  Fail(a, m, kind, hint, switch, t) \in BAuth
<1> DEFINE s == FailedState(a.ms[m], kind, hint, switch, t)
           b == [a EXCEPT !.ms = [a.ms EXCEPT ![m] = s], !.status = "error", !.lastErr = TRUE]
<1>1. CASE kind = "request"
  BY <1>1 DEF Fail
<1>2. CASE kind # "request"
  <2>1. a.ms[m] \in BState /\ a.ms[m].quota \in BQuota
    BY Fields
  <2>2. s \in BState
    <3>1. /\ FailedNext(a.ms[m].quota, kind, hint, switch, t) \in Nat
          /\ FailedQuota(a.ms[m].quota, kind, hint, switch, t) \in BQuota
      BY <2>1, FailedNextType, FailedQuotaType
    <3> QED
      BY <3>1 DEF FailedState, BState
  <2> HIDE DEF s
  <2>3. [a.ms EXCEPT ![m] = s] \in [Models -> BState]
    BY <2>2, Fields
  <2>4. b \in BAuth
    BY <2>3, SetFailed
  <2>5. Fail(a, m, kind, hint, switch, t) = UpdateAggregated(b, t)
    BY <1>2 DEF Fail, FailedState, s
  <2> QED
    BY <2>4, <2>5, UpdateAggregatedType
<1> QED
  BY <1>1, <1>2

\* Results without a model.
LEMMA SucceedAuthType ==
  ASSUME NEW a \in BAuth
  PROVE  SucceedAuth(a) \in BAuth
<1>1. [[a EXCEPT !.unavail = FALSE, !.next = ZeroTime, !.quota = NoQuota]
         EXCEPT !.lastErr = FALSE, !.status = "active"] \in BAuth
  <2>1. ZeroTime \in Nat
    BY DEF ZeroTime
  <2> QED
    BY <2>1, EmptyTypes, SetAll
<1>2. SucceedAuth(a) = [[a EXCEPT !.unavail = FALSE, !.next = ZeroTime, !.quota = NoQuota]
                          EXCEPT !.lastErr = FALSE, !.status = "active"]
  BY DEF SucceedAuth, BAuth
<1> QED
  BY <1>1, <1>2

LEMMA FailAuthType ==
  ASSUME NEW a \in BAuth, NEW kind \in Kinds, NEW hint \in HintsFor(kind),
         NEW switch \in BOOLEAN, NEW t \in Nat
  PROVE  FailAuth(a, kind, hint, switch, t) \in BAuth
<1> DEFINE q == FailedQuota(a.quota, kind, hint, switch, t)
           n == IF kind \in {"support", "other"} THEN a.next
                ELSE FailedNext(a.quota, kind, hint, switch, t)
           b == [[a EXCEPT !.unavail = TRUE, !.next = n, !.quota = q]
                   EXCEPT !.lastErr = TRUE, !.status = "error"]
<1>1. CASE kind = "request"
  BY <1>1 DEF FailAuth
<1>2. CASE kind # "request"
  <2>1. a.quota \in BQuota /\ a.next \in Nat
    BY Fields
  <2>2. q \in BQuota /\ n \in Nat
    BY <2>1, FailedQuotaType, FailedNextType
  <2>3. FailAuth(a, kind, hint, switch, t)
          = [a EXCEPT !.unavail = TRUE, !.status = "error", !.lastErr = TRUE, !.quota = q, !.next = n]
    BY <1>2 DEF FailAuth
  <2> HIDE DEF q, n
  <2>4. FailAuth(a, kind, hint, switch, t) = b
    BY <2>3 DEF BAuth
  <2>5. b \in BAuth
    BY <2>2, SetAll
  <2> QED
    BY <2>4, <2>5
<1> QED
  BY <1>1, <1>2

\* Clearing a cooldown.
LEMMA ClearedType ==
  ASSUME NEW s \in BState
  PROVE  Cleared(s) \in BState
<1>1. ZeroTime \in Nat
  BY DEF ZeroTime
<1>2. [s EXCEPT !.unavail = FALSE, !.next = ZeroTime, !.quota = NoQuota] \in BState
  BY <1>1, EmptyTypes, SetRetryAndQuota
<1> QED
  BY <1>2 DEF Cleared

LEMMA ClearedAuthType ==
  ASSUME NEW a \in BAuth
  PROVE  Cleared(a) \in BAuth
<1>1. ZeroTime \in Nat
  BY DEF ZeroTime
<1>2. [a EXCEPT !.unavail = FALSE, !.next = ZeroTime, !.quota = NoQuota] \in BAuth
  BY <1>1, EmptyTypes, SetCooldown
<1> QED
  BY <1>2 DEF Cleared

LEMMA ClearCooldownType ==
  ASSUME NEW a \in BAuth, NEW t \in Nat
  PROVE  ClearCooldown(a, t) \in BAuth
<1> DEFINE f == [m \in Models |-> Cleared(a.ms[m])]
           c == Cleared(a)
           b == [c EXCEPT !.ms = f]
<1>1. f \in [Models -> BState]
  BY ClearedType, Fields
<1>2. c \in BAuth
  BY ClearedAuthType
<1>3. ClearCooldown(a, t) = IF Present(a) = {} THEN b ELSE UpdateAggregated(b, t)
  BY DEF ClearCooldown
<1> HIDE DEF f, c
<1>4. b \in BAuth
  BY <1>1, <1>2, SetStates
<1> HIDE DEF b
<1>5. UpdateAggregated(b, t) \in BAuth
  BY <1>4, UpdateAggregatedType
<1> QED
  BY <1>3, <1>4, <1>5

\* ResetQuota.
LEMMA ResetQuotaType ==
  ASSUME NEW a \in BAuth, NEW t \in Nat
  PROVE  ResetQuota(a, t) \in BAuth
<1> DEFINE f == [m \in Models |-> IF a.ms[m].has THEN Clean ELSE NoState]
           b == [a EXCEPT !.ms = f]
           c == ClearCooldown(b, t)
<1>1. f \in [Models -> BState]
  BY EmptyTypes
<1>2. ResetQuota(a, t) = IF IsDisabled(c) THEN c ELSE Healed(c, t)
  BY DEF ResetQuota
<1> HIDE DEF f
<1>3. b \in BAuth
  BY <1>1, SetStates
<1> HIDE DEF b
<1>4. c \in BAuth
  BY <1>3, ClearCooldownType
<1> HIDE DEF c
<1>5. Healed(c, t) \in BAuth
  BY <1>4, HealedType
<1> QED
  BY <1>2, <1>4, <1>5

\* ReconcileRegistryModelStates.
LEMMA ReconciledType ==
  ASSUME NEW a \in BAuth, NEW supported, NEW t \in Nat
  PROVE  Reconciled(a, supported, t) \in BAuth
<1> DEFINE f == [m \in Models |-> IF a.ms[m].has /\ m \in supported THEN Clean ELSE NoState]
           b == [a EXCEPT !.ms = f]
<1>1. f \in [Models -> BState]
  BY EmptyTypes
<1>2. \/ Reconciled(a, supported, t) = a
      \/ Reconciled(a, supported, t) = Healed(UpdateAggregated(b, t), t)
  BY DEF Reconciled
<1> HIDE DEF f
<1>3. b \in BAuth
  BY <1>1, SetStates
<1> HIDE DEF b
<1>4. Healed(UpdateAggregated(b, t), t) \in BAuth
  BY <1>3, UpdateAggregatedType, HealedType
<1> QED
  BY <1>2, <1>4

\* The records written to the store.
LEMMA CooldownRecordsType ==
  ASSUME NEW a \in BAuth, NEW switch, NEW t
  PROVE  CooldownRecords(a, switch, t) \in BRecords
<1>1. RecordOf(a) \in BRecord
  BY Fields DEF RecordOf, BRecord
<1>2. \A m \in Models : RecordOf(a.ms[m]) \in BRecord
  BY Fields DEF RecordOf, BRecord
<1>3. ASSUME NEW k \in Models \union {AuthLevel}
      PROVE  CooldownRecords(a, switch, t)[k] \in BRecord
  <2>1. CASE k = AuthLevel
    BY <1>1, <2>1, EmptyTypes DEF CooldownRecords
  <2>2. CASE k # AuthLevel
    <3>1. k \in Models
      BY <2>2
    <3>2. \/ CooldownRecords(a, switch, t)[k] = NoRecord
          \/ CooldownRecords(a, switch, t)[k] = RecordOf(a.ms[k])
      BY <2>2 DEF CooldownRecords
    <3> QED
      BY <1>2, <3>1, <3>2, EmptyTypes
  <2> QED
    BY <2>1, <2>2
<1>4. CooldownRecords(a, switch, t)
        = [k \in Models \union {AuthLevel} |-> CooldownRecords(a, switch, t)[k]]
  BY DEF CooldownRecords
<1> QED
  BY <1>3, <1>4 DEF BRecords

LEMMA RestoredQuotaType ==
  ASSUME NEW r \in BRecord
  PROVE  RestoredQuota(r) \in BQuota
<1>1. ASSUME NEW q \in BQuota, NEW n \in Nat
      PROVE  [q EXCEPT !.recover = n] \in BQuota
  BY DEF BQuota
<1>2. r.quota \in BQuota /\ r.next \in Nat
  BY Fields
<1>3. [r.quota EXCEPT !.recover = r.next] \in BQuota
  BY <1>1, <1>2
<1> QED
  BY <1>2, <1>3 DEF RestoredQuota

\* RestoreCooldownStates.
LEMMA RestoreType ==
  ASSUME NEW a \in BAuth, NEW recs \in BRecords, NEW switch, NEW t \in Nat
  PROVE  Restore(a, recs, switch, t) \in BAuth
<1> DEFINE live == {k \in DOMAIN recs : recs[k].next > t}
           restored(k) == [has |-> TRUE, error |-> TRUE, unavail |-> TRUE, next |-> recs[k].next,
                           quota |-> RestoredQuota(recs[k]), lastErr |-> recs[k].lastErr]
           f == [m \in Models |-> IF m \in live THEN restored(m) ELSE a.ms[m]]
           g == [a EXCEPT !.ms = f]
           b == IF live \intersect Models = {} THEN a ELSE UpdateAggregated(g, t)
           u == recs[AuthLevel]
           n == u.next
           q == RestoredQuota(u)
           e == u.lastErr
           c == [b EXCEPT !.unavail = TRUE, !.status = "error", !.next = n, !.quota = q, !.lastErr = e]
<1>1. \A k \in Models \union {AuthLevel} : recs[k] \in BRecord
  BY DEF BRecords
<1>2. ASSUME NEW m \in Models
      PROVE  restored(m) \in BState
  <2>1. recs[m].next \in Nat /\ RestoredQuota(recs[m]) \in BQuota /\ recs[m].lastErr \in BOOLEAN
    BY <1>1, Fields, RestoredQuotaType
  <2> QED
    BY <2>1 DEF BState
<1>3. \A m \in Models : a.ms[m] \in BState
  BY Fields
<1> HIDE DEF restored, live
<1>4. f \in [Models -> BState]
  BY <1>2, <1>3
<1>5. /\ n \in Nat /\ q \in BQuota /\ e \in BOOLEAN
  BY <1>1, Fields, RestoredQuotaType
<1>6. \/ Restore(a, recs, switch, t) = a
      \/ Restore(a, recs, switch, t) = b
      \/ Restore(a, recs, switch, t) = c
  BY DEF Restore, live, restored
<1> HIDE DEF f
<1>7. g \in BAuth
  BY <1>4, SetStates
<1> HIDE DEF g
<1>8. b \in BAuth
  BY <1>7, UpdateAggregatedType
<1> HIDE DEF b, u, n, q, e
<1>9. c \in BAuth
  <2>1. [[b EXCEPT !.unavail = TRUE, !.next = n, !.quota = q]
           EXCEPT !.lastErr = e, !.status = "error"] \in BAuth
    BY <1>5, <1>8, SetAll
  <2>2. c = [[b EXCEPT !.unavail = TRUE, !.next = n, !.quota = q]
               EXCEPT !.lastErr = e, !.status = "error"]
    BY <1>8 DEF BAuth
  <2> QED
    BY <2>1, <2>2
<1> QED
  BY <1>6, <1>8, <1>9

-----------------------------------------------------------------------------
(* The invariant.                                                          *)

LEMMA NoRecordsType ==
  /\ NoRecords \in BRecords
  /\ Idle \in [phase : {"idle", "load", "apply"}, records : BRecords]
  /\ NoSave \in BSave
<1>1. NoRecords \in BRecords
  BY EmptyTypes DEF NoRecords, BRecords
<1> QED
  BY <1>1 DEF Idle, NoSave, BSave

\* A call that leaves credential a, and saves or does not.
LEMMA OvertakenType ==
  ASSUME SavesTyped, NEW a, NEW switch
  PROVE  Overtaken(a, switch) \in [Writers -> BSave]
<1>1. ASSUME NEW s \in Writers
      PROVE  [save[s] EXCEPT !.old = save[s].at = "held"] \in BSave
  <2>1. save[s] \in BSave
    BY DEF SavesTyped
  <2> QED
    BY <2>1 DEF BSave
<1> QED
  BY <1>1 DEF Overtaken, SavesTyped

LEMMA SavesType ==
  ASSUME SavesTyped, NEW a, NEW switch, NEW writers,
         SaveBy(writers, a, switch) \/ SaveByNobody(a, switch)
  PROVE  SavesTyped'
<1>1. Overtaken(a, switch) \in [Writers -> BSave]
  BY OvertakenType
<1>2. CASE SaveByNobody(a, switch)
  BY <1>1, <1>2 DEF SaveByNobody, SavesTyped
<1>3. CASE SaveBy(writers, a, switch) /\ Storing
  <2>1. PICK s \in writers : save' = [Overtaken(a, switch) EXCEPT ![s].at = "due"]
    BY <1>3 DEF SaveBy
  <2>2. \A w \in Writers : [Overtaken(a, switch)[w] EXCEPT !.at = "due"] \in BSave
    BY <1>1 DEF BSave
  <2>3. save' \in [Writers -> BSave]
    BY <1>1, <2>1, <2>2
  <2> QED
    BY <1>3, <2>3 DEF SaveBy, SavesTyped
<1>4. CASE SaveBy(writers, a, switch) /\ ~Storing
  BY <1>4 DEF SaveBy, SavesTyped
<1> QED
  BY <1>2, <1>3, <1>4

LEMMA SaveIfChangedType ==
  ASSUME SavesTyped, NEW a, SaveIfChanged(a)
  PROVE  SavesTyped'
<1>1. CASE Changes(a, off)
  BY <1>1, SavesType DEF SaveIfChanged
<1>2. CASE ~Changes(a, off)
  BY <1>2 DEF SaveIfChanged, saves, SavesTyped
<1> QED
  BY <1>1, <1>2

\* The steps of the savers themselves.
LEMMA SavingType ==
  ASSUME IInv, NEW s \in Writers, TakeSnapshot(s) \/ WriteStore(s) \/ WriteFails(s)
  PROVE  IInv'
<1>1. save[s] \in BSave /\ save[s].records \in BRecords /\ save[s].old \in BOOLEAN
  BY DEF IInv, SavesTyped, BSave
<1>2. CASE TakeSnapshot(s)
  <2>1. CooldownRecords(auth, off, now) \in BRecords
    BY CooldownRecordsType DEF IInv
  <2>2. [at |-> "held", records |-> CooldownRecords(auth, off, now), old |-> FALSE] \in BSave
    BY <2>1 DEF BSave
  <2> QED
    BY <1>2, <2>2 DEF TakeSnapshot, IInv, SavesTyped
<1>3. CASE WriteStore(s)
  BY <1>1, <1>3, NoRecordsType DEF WriteStore, IInv, SavesTyped
<1>4. CASE WriteFails(s)
  BY <1>4, NoRecordsType DEF WriteFails, IInv, SavesTyped
<1> QED
  BY <1>2, <1>3, <1>4

\* An Update with a record of the right type.
LEMMA UpdateStep ==
  ASSUME IInv, NEW b \in BAuth, Update(b)
  PROVE  IInv'
<1> DEFINE kept == IF Present(b) = {} /\ ~IsDisabled(auth) /\ ~IsDisabled(b)
                   THEN [b EXCEPT !.ms = auth.ms] ELSE b
           new == IF off \/ IsDisabled(kept) THEN ClearCooldown(kept, now) ELSE kept
<1>1. now \in Nat
  BY CooldownAssumption DEF IInv
<1>2. auth.ms \in [Models -> BState]
  BY Fields DEF IInv
<1>3. kept \in BAuth
  BY <1>2, SetStates
<1>4. /\ auth' = new
      /\ SaveBy(Savers, new, off) \/ SaveByNobody(new, off)
      /\ \/ why' = why
         \/ why' = [m \in Models |-> "reset"]
      /\ UNCHANGED <<off, disk, reload, now>>
  BY DEF Update
<1> HIDE DEF kept
<1>5. new \in BAuth
  BY <1>1, <1>3, ClearCooldownType
<1> HIDE DEF new
<1>6. SavesTyped'
  BY <1>4, SavesType DEF IInv
<1> QED
  BY <1>4, <1>5, <1>6 DEF IInv, Reasons

\* Every step keeps the types and the bound.
LEMMA InvStep ==
  ASSUME IInv, [Next]_vars
  PROVE  IInv'
<1>1. now \in Nat
  BY CooldownAssumption DEF IInv
<1>2. \A a \in BAuth : \A sw : CooldownRecords(a, sw, now) \in BRecords
  BY CooldownRecordsType
<1>3. \A k \in Failures \union AuthFailures : k \in Kinds
  BY CooldownAssumption
<1>4. ASSUME NEW m \in Models, MarkSuccess(m)
      PROVE  IInv'
  <2>1. auth' \in BAuth
    BY <1>1, <1>4, SucceedType DEF IInv, MarkSuccess
  <2>2. SavesTyped'
    BY <1>4, SaveIfChangedType DEF IInv, MarkSuccess
  <2> QED
    BY <1>4, <2>1, <2>2 DEF IInv, MarkSuccess, Reasons
<1>5. ASSUME NEW m \in Models, NEW kind \in Failures, NEW hint \in HintsFor(kind),
             MarkFailure(m, kind, hint)
      PROVE  IInv'
  <2>1. auth' \in BAuth
    BY <1>1, <1>3, <1>5, FailType DEF IInv, MarkFailure
  <2>2. SavesTyped'
    BY <1>5, SaveIfChangedType DEF IInv, MarkFailure
  <2> QED
    BY <1>3, <1>5, <2>1, <2>2 DEF IInv, MarkFailure, Reasons
<1>6. CASE MarkAuthSuccess
  <2>1. auth' \in BAuth
    BY <1>6, SucceedAuthType DEF IInv, MarkAuthSuccess
  <2>2. SavesTyped'
    BY <1>6, SaveIfChangedType DEF IInv, MarkAuthSuccess
  <2> QED
    BY <1>6, <2>1, <2>2 DEF IInv, MarkAuthSuccess
<1>7. ASSUME NEW kind \in AuthFailures, NEW hint \in HintsFor(kind), MarkAuthFailure(kind, hint)
      PROVE  IInv'
  <2>1. auth' \in BAuth
    BY <1>1, <1>3, <1>7, FailAuthType DEF IInv, MarkAuthFailure
  <2>2. SavesTyped'
    BY <1>7, SaveIfChangedType DEF IInv, MarkAuthFailure
  <2> QED
    BY <1>7, <2>1, <2>2 DEF IInv, MarkAuthFailure
<1>8. CASE ResetQuotaCall
  <2>1. auth' \in BAuth
    BY <1>1, <1>8, ResetQuotaType DEF IInv, ResetQuotaCall
  <2>2. SavesTyped'
    BY <1>8, SavesType, SaveIfChangedType DEF IInv, ResetQuotaCall
  <2> QED
    BY <1>8, <2>1, <2>2 DEF IInv, ResetQuotaCall, Reasons
<1>9. ASSUME NEW supported, Reconcile(supported)
      PROVE  IInv'
  <2>1. auth' \in BAuth
    BY <1>1, <1>9, ReconciledType DEF IInv, Reconcile
  <2>2. SavesTyped'
    BY <1>9, SavesType DEF IInv, Reconcile
  <2> QED
    BY <1>9, <2>1, <2>2 DEF IInv, Reconcile, Reasons
<1>10. ASSUME NEW supported, Restart(supported)
       PROVE  IInv'
  <2> DEFINE restored == Restore(FreshAuth(auth.disabled), disk, off, now)
  <2>1. FreshAuth(auth.disabled) \in BAuth
    BY Fields, FreshType DEF IInv
  <2>2. restored \in BAuth
    BY <1>1, <2>1, RestoreType DEF IInv
  <2>3. /\ auth' = Reconciled(restored, supported, now)
        /\ disk' = disk \/ disk' = CooldownRecords(restored, off, now)
        /\ save' = [s \in Writers |-> NoSave] /\ stale' \in BOOLEAN
    BY <1>10 DEF Restart, Booted
  <2> HIDE DEF restored
  <2>4. auth' \in BAuth /\ disk' \in BRecords
    BY <1>1, <1>2, <2>2, <2>3, ReconciledType DEF IInv
  <2>5. SavesTyped'
    BY <2>3, NoRecordsType DEF SavesTyped
  <2> QED
    BY <1>10, <2>4, <2>5, NoRecordsType DEF IInv, Restart, Reasons
<1>11. ASSUME NEW d \in BOOLEAN, PatchDisabled(d)
       PROVE  IInv'
  <2> DEFINE st == IF d THEN "disabled" ELSE "active"
             b == [auth EXCEPT !.disabled = d, !.status = st]
  <2>1. st \in {"active", "error", "disabled"}
    OBVIOUS
  <2>2. Update(b)
    BY <1>11 DEF PatchDisabled
  <2> HIDE DEF st
  <2>3. b \in BAuth
    BY <2>1, SetFlag DEF IInv
  <2> HIDE DEF b
  <2> QED
    BY <2>2, <2>3, UpdateStep
<1>12. ASSUME NEW d \in BOOLEAN, FileChanged(d)
       PROVE  IInv'
  BY <1>12, FreshType, UpdateStep DEF FileChanged
<1>13. ASSUME NEW switch \in BOOLEAN, SetConfig(switch)
       PROVE  IInv'
  <2> DEFINE new == IF switch \/ IsDisabled(auth) THEN ClearCooldown(auth, now) ELSE auth
  <2>1. new \in BAuth
    BY <1>1, ClearCooldownType DEF IInv
  <2>2. /\ auth' = new
        /\ SaveBy({Reloader}, new, switch) \/ SaveByNobody(new, switch)
        /\ why' = why \/ why' = [m \in Models |-> "reset"]
        /\ off' = switch
        /\ reload' = [phase |-> "load", records |-> NoRecords]
        /\ disk' = disk /\ now' = now
    BY <1>13 DEF SetConfig
  <2> HIDE DEF new
  <2>3. SavesTyped'
    BY <2>2, SavesType DEF IInv
  <2> QED
    BY <2>1, <2>2, <2>3, NoRecordsType DEF IInv, Reasons
<1>14. CASE ReloadRead
  BY <1>14, NoRecordsType DEF IInv, ReloadRead, saves, SavesTyped
<1>15. CASE ReloadApply
  <2>1. reload.records \in BRecords
    BY DEF IInv
  <2>2. auth' \in BAuth
    BY <1>1, <1>15, <2>1, RestoreType DEF IInv, ReloadApply
  <2>3. SavesTyped'
    BY <1>15, SavesType DEF IInv, ReloadApply
  <2> QED
    BY <1>15, <2>2, <2>3, NoRecordsType DEF IInv, ReloadApply, Reasons
<1>16. CASE Tick
  BY <1>16, CooldownAssumption DEF IInv, Tick, saves, SavesTyped
<1>17. CASE UNCHANGED vars
  BY <1>17 DEF IInv, vars, saves, SavesTyped
<1>18. CASE Saving
  BY <1>18, SavingType DEF Saving
<1> QED
  BY <1>4, <1>5, <1>6, <1>7, <1>8, <1>9, <1>10, <1>11, <1>12, <1>13, <1>14, <1>15, <1>16, <1>17, <1>18
  DEF Next, Result, MarkOf, AuthResult, Administration

\* The initial credential.
LEMMA InvInit == Init => IInv
<1> SUFFICES ASSUME Init
             PROVE  IInv
  OBVIOUS
<1>1. auth \in BAuth
  BY FreshType DEF Init
<1>2. off \in BOOLEAN /\ disk \in BRecords
      /\ reload \in [phase : {"idle", "load", "apply"}, records : BRecords]
  BY NoRecordsType DEF Init
<1>4. SavesTyped
  BY NoRecordsType DEF Init, SavesTyped
<1>3. why \in [Models -> Reasons] /\ now \in 1 .. MaxTime
  BY CooldownAssumption DEF Init, Reasons
<1> QED
  BY <1>1, <1>2, <1>3, <1>4 DEF IInv

LEMMA InvAlways == Spec => []IInv
  BY InvInit, InvStep, PTL DEF Spec

\* The invariant gives the types without the bound, and the bound.
LEMMA InvMeaning == IInv => TypeOK /\ BackoffLevelBounded
<1> SUFFICES ASSUME IInv
             PROVE  TypeOK /\ BackoffLevelBounded
  OBVIOUS
<1>1. BQuota \subseteq QuotaRecord
  BY Durations DEF BQuota, QuotaRecord
<1>2. BState \subseteq State /\ BRecord \subseteq Record
  BY <1>1 DEF BState, State, BRecord, Record
<1>3. auth \in Auth
  BY <1>1, <1>2 DEF IInv, BAuth, Auth
<1>4. disk \in Records /\ reload \in [phase : {"idle", "load", "apply"}, records : Records]
  BY <1>2 DEF IInv, BRecords, Records
<1>9. save \in [Writers -> Save] /\ stale \in BOOLEAN
  <2>1. BSave \subseteq Save
    BY <1>2 DEF BSave, Save, BRecords, Records
  <2> QED
    BY <2>1 DEF IInv, SavesTyped
<1>5. TypeOK
  BY <1>3, <1>4, <1>9 DEF IInv, TypeOK
<1>6. \A q \in BQuota : q.level <= MaxLevel
  BY Durations DEF BQuota
<1>7. /\ auth.quota \in BQuota /\ \A m \in Models : auth.ms[m].quota \in BQuota
      /\ \A k \in Models \union {AuthLevel} :
           /\ disk[k].quota \in BQuota /\ reload.records[k].quota \in BQuota
           /\ \A s \in Writers : save[s].records[k].quota \in BQuota
  BY Fields DEF IInv, BRecords, SavesTyped, BSave
<1>8. BackoffLevelBounded
  BY <1>6, <1>7 DEF BackoffLevelBounded
<1> QED
  BY <1>5, <1>8

\* The state of a credential, its store and a reload keep the types of
\* types.go through every result, reset, reload and restart.
THEOREM TypeCorrect == Spec => []TypeOK
  BY InvAlways, InvMeaning, PTL

\* For any durations whose first level reaching quotaBackoffMax is MaxLevel, no
\* sequence of failures, reloads and restarts takes a backoff level beyond it.
THEOREM BackoffNeverOverflows == Spec => []BackoffLevelBounded
  BY InvAlways, InvMeaning, PTL

-----------------------------------------------------------------------------
(* With cooling off.                                                       *)

\* What blocks among the models of credential a at time t.
CoolingModels(a, t) == {m \in Present(a) : Cooling(a.ms[m], t)}

\* Aggregating and healing start no cooldown and make up no model.
LEMMA AggregateStartsNothing ==
  ASSUME NEW a \in BAuth, NEW t \in Nat
  PROVE  CoolingModels(UpdateAggregated(a, t), t) \subseteq CoolingModels(a, t)
<1> DEFINE ms == [m \in Models |-> Swept(a.ms[m], t)]
<1>1. UpdateAggregated(a, t).ms = ms
  BY DEF UpdateAggregated, BAuth
<1>2. ASSUME NEW m \in Models, ms[m].has, Cooling(ms[m], t)
      PROVE  a.ms[m].has /\ Cooling(a.ms[m], t)
  <2>1. a.ms[m] \in BState
    BY Fields
  <2> QED
    BY <1>2, <2>1 DEF Swept, Cooling, BState
<1> HIDE DEF ms
<1> QED
  BY <1>1, <1>2 DEF CoolingModels, Present

LEMMA HealingStartsNothing ==
  ASSUME NEW a \in BAuth, NEW t \in Nat
  PROVE  CoolingModels(Healed(a, t), t) = CoolingModels(a, t)
<1>1. Healed(a, t).ms = a.ms
  BY DEF Healed, BAuth
<1> QED
  BY <1>1 DEF CoolingModels, Present

\* A clean state and an absent one do not cool.
LEMMA CleanNeverCools ==
  ASSUME NEW t
  PROVE  ~Cooling(Clean, t) /\ ~Cooling(NoState, t) /\ ~NoState.has
  BY DEF Cooling, Clean, NoState

\* Clearing leaves no cooldown.
LEMMA ClearingLeavesNothing ==
  ASSUME NEW a \in BAuth, NEW t \in Nat
  PROVE  CoolingModels(ClearCooldown(a, t), t) = {}
<1> DEFINE f == [m \in Models |-> Cleared(a.ms[m])]
           c == Cleared(a)
           b == [c EXCEPT !.ms = f]
<1>1. f \in [Models -> BState]
  BY ClearedType, Fields
<1>2. c \in BAuth
  BY ClearedAuthType
<1>3. ClearCooldown(a, t) = IF Present(a) = {} THEN b ELSE UpdateAggregated(b, t)
  BY DEF ClearCooldown
<1>4. ASSUME NEW m \in Models
      PROVE  ~Cooling(f[m], t)
  <2>1. a.ms[m] \in BState
    BY Fields
  <2> QED
    BY <2>1 DEF Cleared, HasCooldown, Cooling, BState, ZeroTime
<1> HIDE DEF f, c
<1>5. b \in BAuth /\ b.ms = f
  BY <1>1, <1>2, SetStates DEF BAuth
<1> HIDE DEF b
<1>6. CoolingModels(b, t) = {}
  BY <1>4, <1>5 DEF CoolingModels, Present
<1>7. CoolingModels(UpdateAggregated(b, t), t) = {}
  BY <1>5, <1>6, AggregateStartsNothing
<1> QED
  BY <1>3, <1>6, <1>7

\* Resetting and reconciling leave no cooldown.
LEMMA ResetLeavesNothing ==
  ASSUME NEW a \in BAuth, NEW t \in Nat
  PROVE  CoolingModels(ResetQuota(a, t), t) = {}
<1> DEFINE f == [m \in Models |-> IF a.ms[m].has THEN Clean ELSE NoState]
           b == [a EXCEPT !.ms = f]
           c == ClearCooldown(b, t)
<1>1. f \in [Models -> BState]
  BY EmptyTypes
<1>2. ResetQuota(a, t) = IF IsDisabled(c) THEN c ELSE Healed(c, t)
  BY DEF ResetQuota
<1> HIDE DEF f
<1>3. b \in BAuth
  BY <1>1, SetStates
<1> HIDE DEF b
<1>4. c \in BAuth /\ CoolingModels(c, t) = {}
  BY <1>3, ClearCooldownType, ClearingLeavesNothing
<1> HIDE DEF c
<1> QED
  BY <1>2, <1>4, HealingStartsNothing

LEMMA ReconcilingLeavesNothing ==
  ASSUME NEW a \in BAuth, NEW supported, NEW t \in Nat
  PROVE  CoolingModels(Reconciled(a, supported, t), t) = {}
<1> DEFINE f == [m \in Models |-> IF a.ms[m].has /\ m \in supported THEN Clean ELSE NoState]
           b == [a EXCEPT !.ms = f]
           dirty == \E m \in Present(a) : m \notin supported \/ ~IsClean(a.ms[m])
<1>1. f \in [Models -> BState]
  BY EmptyTypes
<1>2. CASE dirty
  <2>1. Reconciled(a, supported, t) = Healed(UpdateAggregated(b, t), t)
    BY <1>2 DEF Reconciled
  <2>2. \A m \in Models : ~Cooling(f[m], t)
    BY CleanNeverCools
  <2> HIDE DEF f
  <2>3. b \in BAuth /\ b.ms = f
    BY <1>1, SetStates DEF BAuth
  <2> HIDE DEF b
  <2>4. CoolingModels(b, t) = {}
    BY <2>2, <2>3 DEF CoolingModels, Present
  <2>5. UpdateAggregated(b, t) \in BAuth /\ CoolingModels(UpdateAggregated(b, t), t) = {}
    BY <2>3, <2>4, UpdateAggregatedType, AggregateStartsNothing
  <2> QED
    BY <2>1, <2>5, HealingStartsNothing
<1>3. CASE ~dirty
  <2>1. Reconciled(a, supported, t) = a
    BY <1>3 DEF Reconciled
  <2>2. \A m \in Present(a) : ~Cooling(a.ms[m], t)
    BY <1>3, CleanNeverCools DEF IsClean
  <2> QED
    BY <2>1, <2>2 DEF CoolingModels
<1> QED
  BY <1>2, <1>3

\* A success ends its own cooldown and starts none.
LEMMA SuccessStartsNothing ==
  ASSUME NEW a \in BAuth, NEW m \in Models, NEW t \in Nat
  PROVE  CoolingModels(Succeed(a, m, t), t) \subseteq CoolingModels(a, t) \ {m}
<1> DEFINE f == [a.ms EXCEPT ![m] = Clean]
           b == [a EXCEPT !.ms = f]
<1>1. f \in [Models -> BState]
  BY Fields, EmptyTypes
<1>2. Succeed(a, m, t) = Healed(UpdateAggregated(b, t), t)
  BY DEF Succeed
<1>3. /\ ~Cooling(f[m], t)
      /\ \A k \in Models \ {m} : f[k] = a.ms[k]
  BY CleanNeverCools, Fields
<1> HIDE DEF f
<1>4. b \in BAuth /\ b.ms = f
  BY <1>1, SetStates DEF BAuth
<1> HIDE DEF b
<1>5. CoolingModels(b, t) \subseteq CoolingModels(a, t) \ {m}
  BY <1>3, <1>4 DEF CoolingModels, Present
<1>6. UpdateAggregated(b, t) \in BAuth
  BY <1>4, UpdateAggregatedType
<1> QED
  BY <1>2, <1>4, <1>5, <1>6, AggregateStartsNothing, HealingStartsNothing

\* With cooling off only an unsupported model gets a retry time.
LEMMA NoRetryTimeWithCoolingOff ==
  ASSUME NEW q \in BQuota, NEW kind \in Kinds \ {"support", "request"},
         NEW hint \in HintsFor(kind), NEW t \in Nat, NEW switch \in BOOLEAN, switch
  PROVE  FailedNext(q, kind, hint, switch, t) = ZeroTime
<1>1. CASE kind = "cloudflare"
  <2>1. FailedQuota(q, kind, hint, switch, t).recover = ZeroTime
    BY <1>1 DEF FailedQuota, ZeroTime
  <2> QED
    BY <1>1, <2>1 DEF FailedNext
<1>2. CASE kind = "quota"
  <2>1. FailedQuota(q, kind, hint, switch, t).recover = ZeroTime
    BY <1>2 DEF FailedQuota, ZeroTime
  <2> QED
    BY <1>2, <2>1 DEF FailedNext
<1>3. CASE kind \notin {"cloudflare", "quota"}
  BY <1>3 DEF FailedNext, Kinds
<1> QED
  BY <1>1, <1>2, <1>3

\* With cooling off a failure starts a cooldown only on an unsupported model.
LEMMA FailureWithCoolingOff ==
  ASSUME NEW a \in BAuth, NEW m \in Models, NEW kind \in Kinds \ {"request"},
         NEW hint \in HintsFor(kind), NEW t \in Nat \ {0}
  PROVE  CoolingModels(Fail(a, m, kind, hint, TRUE, t), t)
           \subseteq (CoolingModels(a, t) \ {m}) \union (IF kind = "support" THEN {m} ELSE {})
<1> DEFINE s == FailedState(a.ms[m], kind, hint, TRUE, t)
           f == [a.ms EXCEPT ![m] = s]
           b == [a EXCEPT !.ms = f, !.status = "error", !.lastErr = TRUE]
<1>1. a.ms[m] \in BState /\ a.ms[m].quota \in BQuota
  BY Fields
<1>2. s \in BState
  <2>1. /\ FailedNext(a.ms[m].quota, kind, hint, TRUE, t) \in Nat
        /\ FailedQuota(a.ms[m].quota, kind, hint, TRUE, t) \in BQuota
    BY <1>1, FailedNextType, FailedQuotaType
  <2> QED
    BY <2>1 DEF FailedState, BState
<1>3. kind # "support" => ~Cooling(s, t)
  <2> SUFFICES ASSUME kind # "support"
               PROVE  ~Cooling(s, t)
    OBVIOUS
  <2>1. FailedNext(a.ms[m].quota, kind, hint, TRUE, t) = ZeroTime
    BY <1>1, NoRetryTimeWithCoolingOff
  <2>2. s.next = ZeroTime
    BY <2>1 DEF FailedState
  <2>3. ASSUME NEW x, x.next = ZeroTime
        PROVE  ~Cooling(x, t)
    BY <2>3 DEF Cooling, ZeroTime
  <2> QED
    BY <2>2, <2>3
<1>4. Fail(a, m, kind, hint, TRUE, t) = UpdateAggregated(b, t)
  BY DEF Fail, FailedState
<1> HIDE DEF s
<1>5. /\ f \in [Models -> BState] /\ f[m] = s
      /\ \A k \in Models \ {m} : f[k] = a.ms[k]
  BY <1>2, Fields
<1> HIDE DEF f
<1>6. b \in BAuth /\ b.ms = f
  BY <1>5, SetFailed DEF BAuth
<1> HIDE DEF b
<1>7. CoolingModels(b, t)
        \subseteq (CoolingModels(a, t) \ {m}) \union (IF kind = "support" THEN {m} ELSE {})
  BY <1>3, <1>5, <1>6 DEF CoolingModels, Present
<1> QED
  BY <1>4, <1>6, <1>7, AggregateStartsNothing

OffInv == off => \A m \in CoolingModels(auth, now) : why[m] = "support"

\* Every step keeps it.
LEMMA OffStep ==
  ASSUME IInv, OffInv, [Next]_vars
  PROVE  OffInv'
<1>1. auth \in BAuth /\ now \in Nat \ {0} /\ why \in [Models -> Reasons]
  BY CooldownAssumption DEF IInv
<1>2. \A a, t : CoolingModels(a, t) \subseteq Models
  BY DEF CoolingModels, Present
<1>3. CoolingModels(auth, now)' = CoolingModels(auth', now')
  BY DEF CoolingModels, Present, Cooling
<1>4. ASSUME CoolingModels(auth', now') = {}
      PROVE  OffInv'
  BY <1>3, <1>4 DEF OffInv
<1>5. ASSUME NEW m \in Models, MarkSuccess(m)
      PROVE  OffInv'
  <2>1. CoolingModels(auth', now') \subseteq CoolingModels(auth, now) \ {m}
    BY <1>1, <1>5, SuccessStartsNothing DEF MarkSuccess
  <2>2. off' = off /\ \A k \in Models \ {m} : why'[k] = why[k]
    BY <1>1, <1>5 DEF MarkSuccess
  <2> QED
    BY <1>2, <1>3, <2>1, <2>2 DEF OffInv
<1>6. ASSUME NEW m \in Models, NEW kind \in Failures, NEW hint \in HintsFor(kind),
             MarkFailure(m, kind, hint)
      PROVE  OffInv'
  <2> SUFFICES ASSUME off = TRUE
               PROVE  OffInv'
    BY <1>6 DEF OffInv, MarkFailure, IInv
  <2>1. kind \in Kinds \ {"request"}
    BY CooldownAssumption
  <2>2. auth' = Fail(auth, m, kind, hint, TRUE, now) /\ now' = now
    BY <1>6 DEF MarkFailure
  <2>3. CoolingModels(auth', now')
          \subseteq (CoolingModels(auth, now) \ {m}) \union (IF kind = "support" THEN {m} ELSE {})
    BY <1>1, <2>1, <2>2, FailureWithCoolingOff
  <2>4. /\ why'[m] = kind /\ \A k \in Models \ {m} : why'[k] = why[k]
    BY <1>1, <1>6 DEF MarkFailure
  <2> QED
    BY <1>2, <1>3, <2>3, <2>4 DEF OffInv
<1>7. ASSUME auth'.ms = auth.ms, UNCHANGED <<off, why, now>>
      PROVE  OffInv'
  <2>1. CoolingModels(auth', now') = CoolingModels(auth, now)
    BY <1>7 DEF CoolingModels, Present
  <2>2. off' = off /\ why' = why
    BY <1>7
  <2> QED
    BY <1>3, <2>1, <2>2 DEF OffInv
<1>8. CASE MarkAuthSuccess
  BY <1>1, <1>7, <1>8 DEF MarkAuthSuccess, SucceedAuth, BAuth
<1>9. ASSUME NEW kind \in AuthFailures, NEW hint \in HintsFor(kind), MarkAuthFailure(kind, hint)
      PROVE  OffInv'
  <2>1. auth'.ms = auth.ms
    BY <1>1, <1>9 DEF MarkAuthFailure, FailAuth, BAuth
  <2> QED
    BY <1>7, <1>9, <2>1 DEF MarkAuthFailure
<1>10. CASE ResetQuotaCall
  BY <1>1, <1>4, <1>10, ResetLeavesNothing DEF ResetQuotaCall
<1>11. ASSUME NEW supported, Reconcile(supported)
       PROVE  OffInv'
  BY <1>1, <1>4, <1>11, ReconcilingLeavesNothing DEF Reconcile
<1>12. ASSUME NEW supported, Restart(supported)
       PROVE  OffInv'
  <2> DEFINE restored == Restore(FreshAuth(auth.disabled), disk, off, now)
  <2>1. FreshAuth(auth.disabled) \in BAuth
    BY Fields, FreshType DEF IInv
  <2>2. restored \in BAuth
    BY <1>1, <2>1, RestoreType DEF IInv
  <2>3. auth' = Reconciled(restored, supported, now) /\ now' = now
    BY <1>12 DEF Restart, Booted
  <2> HIDE DEF restored
  <2> QED
    BY <1>1, <1>4, <2>2, <2>3, ReconcilingLeavesNothing
<1>13. ASSUME NEW b \in BAuth, Update(b)
       PROVE  OffInv'
  <2> DEFINE kept == IF Present(b) = {} /\ ~IsDisabled(auth) /\ ~IsDisabled(b)
                     THEN [b EXCEPT !.ms = auth.ms] ELSE b
  <2>1. kept \in BAuth
    BY <1>1, Fields, SetStates
  <2>2. /\ off => auth' = ClearCooldown(kept, now)
        /\ now' = now /\ off' = off
    BY <1>13 DEF Update
  <2> HIDE DEF kept
  <2>3. off => CoolingModels(auth', now') = {}
    BY <1>1, <2>1, <2>2, ClearingLeavesNothing
  <2> QED
    BY <1>3, <2>2, <2>3 DEF OffInv
<1>14. ASSUME NEW d \in BOOLEAN, PatchDisabled(d) \/ FileChanged(d)
       PROVE  OffInv'
  <2> DEFINE st == IF d THEN "disabled" ELSE "active"
             b == [auth EXCEPT !.disabled = d, !.status = st]
  <2>1. Update(b) \/ Update(FreshAuth(d))
    BY <1>14 DEF PatchDisabled, FileChanged
  <2>2. st \in {"active", "error", "disabled"}
    OBVIOUS
  <2> HIDE DEF st
  <2>3. b \in BAuth
    BY <1>1, <2>2, SetFlag
  <2> HIDE DEF b
  <2> QED
    BY <1>13, <2>1, <2>3, FreshType
<1>15. ASSUME NEW switch \in BOOLEAN, SetConfig(switch)
       PROVE  OffInv'
  <2>1. /\ switch => auth' = ClearCooldown(auth, now)
        /\ off' = switch /\ now' = now
    BY <1>15 DEF SetConfig
  <2>2. switch => CoolingModels(auth', now') = {}
    BY <1>1, <2>1, ClearingLeavesNothing
  <2> QED
    BY <1>3, <2>1, <2>2 DEF OffInv
<1>16. CASE ReloadRead
  BY <1>7, <1>16 DEF ReloadRead
<1>17. CASE ReloadApply
  <2> SUFFICES ASSUME off
               PROVE  OffInv'
    BY <1>17 DEF OffInv, ReloadApply
  <2>1. auth' = auth
    BY <1>17 DEF ReloadApply, Restore
  <2>2. why' = why
    BY <1>1, <1>17, <2>1 DEF ReloadApply
  <2> QED
    BY <1>7, <1>17, <2>1, <2>2 DEF ReloadApply
<1>18. CASE Tick
  <2>1. CoolingModels(auth', now') \subseteq CoolingModels(auth, now)
    <3>1. \A m \in Models : auth.ms[m].next \in Nat
      BY <1>1, Fields
    <3> QED
      BY <1>1, <1>18, <3>1 DEF Tick, CoolingModels, Present, Cooling
  <2> QED
    BY <1>3, <1>18, <2>1 DEF OffInv, Tick
<1>19. CASE UNCHANGED vars
  BY <1>7, <1>19 DEF vars
<1>20. CASE Saving
  BY <1>7, <1>20 DEF Saving, TakeSnapshot, WriteStore, WriteFails
<1> QED
  BY <1>5, <1>6, <1>8, <1>9, <1>10, <1>11, <1>12, <1>14, <1>15, <1>16, <1>17, <1>18, <1>19, <1>20
  DEF Next, Result, MarkOf, AuthResult, Administration

\* While cooling is off nothing blocks but an unsupported model, whatever
\* reload or restart raced with the switch.
THEOREM OffIsRespected == Spec => []OffBlocksOnlyUnsupported
<1>1. Init => OffInv
  BY DEF Init, OffInv, CoolingModels, Present, FreshAuth, NoState
<1>2. IInv /\ OffInv /\ [Next]_vars => OffInv'
  BY OffStep
<1>3. OffInv => OffBlocksOnlyUnsupported
  BY DEF OffInv, OffBlocksOnlyUnsupported, CoolingModels
<1> QED
  BY <1>1, <1>2, <1>3, InvAlways, PTL DEF Spec
-----------------------------------------------------------------------------
(* The store.                                                              *)

\* What a record of the store stands for, and when it is worth writing.
StateOf(a, k) == IF k = AuthLevel THEN a ELSE a.ms[k]
Worth(a, switch, k, t) ==
  ~IsDisabled(a) /\ ~switch /\ Cooling(StateOf(a, k), t) /\ (k = AuthLevel \/ a.ms[k].has)

LEMMA RecordsAreWorth ==
  ASSUME NEW a, NEW switch, NEW t, NEW k \in Models \union {AuthLevel}
  PROVE  CooldownRecords(a, switch, t)[k]
           = IF Worth(a, switch, k, t) THEN RecordOf(StateOf(a, k)) ELSE NoRecord
  BY DEF CooldownRecords, Worth, StateOf

\* A state's retry time is a number, and its record has that time.
LEMMA StateOfType ==
  ASSUME NEW a \in BAuth, NEW k \in Models \union {AuthLevel}
  PROVE  StateOf(a, k).next \in Nat /\ RecordOf(StateOf(a, k)).next = StateOf(a, k).next
<1>1. StateOf(a, k).next \in Nat
  BY Fields DEF StateOf
<1> QED
  BY <1>1 DEF RecordOf

\* What is written runs, and runs from then on for as long as the state does.
LEMMA WrittenIsLive ==
  ASSUME NEW a \in BAuth, NEW switch, NEW t \in Nat
  PROVE  LiveRecords(CooldownRecords(a, switch, t), t) = CooldownRecords(a, switch, t)
<1> DEFINE recs == CooldownRecords(a, switch, t)
<1>1. recs = [k \in Models \union {AuthLevel} |-> recs[k]]
  BY DEF CooldownRecords
<1>2. ASSUME NEW k \in Models \union {AuthLevel}
      PROVE  recs[k] = NoRecord \/ recs[k].next > t
  BY RecordsAreWorth, StateOfType DEF Worth, Cooling
<1> HIDE DEF recs
<1>3. ASSUME NEW k \in Models \union {AuthLevel}
      PROVE  (IF recs[k].next > t THEN recs[k] ELSE NoRecord) = recs[k]
  BY <1>2
<1>4. LiveRecords(recs, t) = [k \in Models \union {AuthLevel} |-> IF recs[k].next > t THEN recs[k] ELSE NoRecord]
  BY <1>1 DEF LiveRecords
<1> QED
  BY <1>1, <1>3, <1>4 DEF recs

LEMMA StoreKeepsTime ==
  ASSUME NEW a \in BAuth, NEW recs \in BRecords, NEW switch, NEW t \in Nat,
         LiveRecords(recs, t) = CooldownRecords(a, switch, t)
  PROVE  LiveRecords(recs, t + 1) = CooldownRecords(a, switch, t + 1)
<1>1. \A k \in Models \union {AuthLevel}, u \in Nat :
        LiveRecords(recs, u)[k] = IF recs[k].next > u THEN recs[k] ELSE NoRecord
  BY DEF LiveRecords, BRecords
<1>2. ASSUME NEW k \in Models \union {AuthLevel}
      PROVE  LiveRecords(recs, t + 1)[k] = CooldownRecords(a, switch, t + 1)[k]
  <2> DEFINE s == StateOf(a, k)
             r == recs[k]
  <2>1. s.next \in Nat /\ RecordOf(s).next = s.next /\ NoRecord.next = 0
    BY StateOfType DEF NoRecord, ZeroTime
  <2>2. r.next \in Nat
    BY Fields DEF BRecords
  <2>3. (IF r.next > t THEN r ELSE NoRecord) = IF Worth(a, switch, k, t) THEN RecordOf(s) ELSE NoRecord
    BY <1>1, RecordsAreWorth
  <2>4. Worth(a, switch, k, t + 1) <=> Worth(a, switch, k, t) /\ s.next > t + 1
    BY <2>1 DEF Worth, Cooling
  <2>5. Worth(a, switch, k, t) => s.next > t
    BY DEF Worth, Cooling
  <2>6. t + 1 \in Nat /\ LiveRecords(recs, t + 1)[k] = IF r.next > t + 1 THEN r ELSE NoRecord
    BY <1>1
  <2>7. CooldownRecords(a, switch, t + 1)[k] = IF Worth(a, switch, k, t + 1) THEN RecordOf(s) ELSE NoRecord
    BY <2>6, RecordsAreWorth
  <2> HIDE DEF s, r
  <2>8. (IF r.next > t + 1 THEN r ELSE NoRecord) = IF Worth(a, switch, k, t + 1) THEN RecordOf(s) ELSE NoRecord
    <3>1. CASE Worth(a, switch, k, t)
      <4>1. r = RecordOf(s) /\ r.next > t
        BY <2>1, <2>3, <2>5, <3>1
      <4> QED
        BY <2>1, <2>4, <3>1, <4>1
    <3>2. CASE ~Worth(a, switch, k, t)
      <4>1. ~(r.next > t)
        BY <2>1, <2>2, <2>3, <3>2
      <4> QED
        BY <2>2, <2>4, <3>2, <4>1
    <3> QED
      BY <3>1, <3>2
  <2> QED
    BY <2>6, <2>7, <2>8
<1>3. /\ LiveRecords(recs, t + 1) = [k \in Models \union {AuthLevel} |-> LiveRecords(recs, t + 1)[k]]
      /\ CooldownRecords(a, switch, t + 1)
           = [k \in Models \union {AuthLevel} |-> CooldownRecords(a, switch, t + 1)[k]]
  BY DEF LiveRecords, BRecords, CooldownRecords
<1> QED
  BY <1>2, <1>3

\* These records, read at time t, are the cooldowns of credential a.
Exact(recs, a, switch, t) == LiveRecords(recs, t) = CooldownRecords(a, switch, t)

\* A snapshot in hand is exact until the records change.
HeldExact == \A s \in Writers : save[s].at = "held" /\ ~save[s].old => Exact(save[s].records, auth, off, now)

\* If the store is neither exact nor left behind, a save that makes it exact is
\* under way: its snapshot is still to be taken, or nothing changed since.
StoreInv ==
  /\ HeldExact
  /\ \/ stale
     \/ \E s \in Writers : save[s].at = "due"
     \/ \E s \in Writers : save[s].at = "held" /\ ~save[s].old
     \/ Exact(disk, auth, off, now)

\* A new credential has nothing to be kept.
LEMMA FreshHasNoRecords ==
  ASSUME NEW d, NEW switch, NEW t \in Nat
  PROVE  /\ CooldownRecords(FreshAuth(d), switch, t) = NoRecords
         /\ LiveRecords(NoRecords, t) = NoRecords
<1>1. ASSUME NEW k \in Models \union {AuthLevel}
      PROVE  ~Worth(FreshAuth(d), switch, k, t)
  BY DEF Worth, StateOf, FreshAuth, NoState, Cooling
<1>2. CooldownRecords(FreshAuth(d), switch, t)
        = [k \in Models \union {AuthLevel} |-> CooldownRecords(FreshAuth(d), switch, t)[k]]
  BY DEF CooldownRecords
<1>3. CooldownRecords(FreshAuth(d), switch, t) = NoRecords
  BY <1>1, <1>2, RecordsAreWorth DEF NoRecords
<1>4. LiveRecords(NoRecords, t) = NoRecords
  BY DEF LiveRecords, NoRecords
<1> QED
  BY <1>3, <1>4

\* Nothing to restore leaves the credential as it is.
LEMMA NothingToRestore ==
  ASSUME NEW a, NEW switch, NEW t \in Nat
  PROVE  Restore(a, NoRecords, switch, t) = a
<1>1. {k \in DOMAIN NoRecords : NoRecords[k].next > t} = {}
  BY DEF NoRecords, NoRecord, ZeroTime
<1> QED
  BY <1>1 DEF Restore

\* A call that leaves credential a, and saves or does not.
LEMMA CallKeepsStore ==
  ASSUME IInv, StoreInv, Storing, NEW a, NEW switch, NEW writers \in SUBSET Writers,
         auth' = a, off' = switch, disk' = disk, now' = now,
         \/ SaveBy(writers, a, switch)
         \/ SaveByNobody(a, switch)
         \/ ~Changes(a, switch) /\ UNCHANGED saves
  PROVE  StoreInv'
<1>1. save \in [Writers -> BSave]
  BY DEF IInv, SavesTyped
<1>2. CASE ~Changes(a, switch)
  <2>1. \A recs : Exact(recs, auth, off, now)' <=> Exact(recs, auth, off, now)
    BY <1>2 DEF Changes, Exact
  <2>2. \A recs : Exact(recs, auth', off', now') <=> Exact(recs, auth, off, now)
    BY <1>2 DEF Changes, Exact
  <2>3. CASE UNCHANGED saves \/ SaveByNobody(a, switch)
    <3>1. save' = save /\ stale' = stale
      BY <1>2, <2>3 DEF saves, SaveByNobody, Overtaken, IInv, SavesTyped
    <3> QED
      BY <2>2, <3>1 DEF StoreInv, HeldExact
  <2>4. CASE SaveBy(writers, a, switch)
    <3>1. PICK s \in writers : save' = [save EXCEPT ![s].at = "due"]
      BY <1>2, <2>4 DEF SaveBy, Overtaken
    <3>2. /\ s \in Writers /\ save'[s].at = "due"
          /\ \A w \in Writers \ {s} : save'[w] = save[w]
      BY <1>1, <3>1 DEF BSave
    <3>3. HeldExact'
      BY <2>2, <3>2 DEF StoreInv, HeldExact
    <3> QED
      BY <3>2, <3>3 DEF StoreInv
  <2> QED
    BY <2>3, <2>4
<1>3. CASE Changes(a, switch)
  <2>1. \A w \in Writers : Overtaken(a, switch)[w].at = "held" => Overtaken(a, switch)[w].old
    BY <1>1, <1>3 DEF Overtaken, BSave
  <2>2. CASE SaveByNobody(a, switch)
    <3>1. save' = Overtaken(a, switch) /\ stale'
      BY <1>3, <2>2 DEF SaveByNobody
    <3> QED
      BY <2>1, <3>1 DEF StoreInv, HeldExact
  <2>3. CASE SaveBy(writers, a, switch)
    <3>1. Overtaken(a, switch) \in [Writers -> BSave]
      BY OvertakenType DEF IInv
    <3>2. PICK s \in writers : save' = [Overtaken(a, switch) EXCEPT ![s].at = "due"]
      BY <2>3 DEF SaveBy
    <3>3. /\ s \in Writers /\ save'[s].at = "due"
          /\ \A w \in Writers \ {s} : save'[w] = Overtaken(a, switch)[w]
      BY <3>1, <3>2 DEF BSave
    <3>4. HeldExact'
      BY <2>1, <3>3 DEF HeldExact
    <3> QED
      BY <3>3, <3>4 DEF StoreInv
  <2> QED
    BY <1>3, <2>2, <2>3
<1> QED
  BY <1>2, <1>3

\* A saver takes its snapshot, and writes it or fails.
LEMMA SavingKeepsStore ==
  ASSUME IInv, StoreInv, NEW s \in Writers, TakeSnapshot(s) \/ WriteStore(s) \/ WriteFails(s)
  PROVE  StoreInv'
<1>1. save \in [Writers -> BSave] /\ auth \in BAuth /\ now \in Nat
  BY CooldownAssumption DEF IInv, SavesTyped
<1>2. CASE TakeSnapshot(s)
  <2> DEFINE recs == CooldownRecords(auth, off, now)
  <2>1. Exact(recs, auth, off, now)
    BY <1>1, WrittenIsLive DEF Exact
  <2>2. /\ save'[s] = [at |-> "held", records |-> recs, old |-> FALSE]
        /\ \A w \in Writers \ {s} : save'[w] = save[w]
        /\ UNCHANGED <<auth, off, now>>
    BY <1>1, <1>2 DEF TakeSnapshot
  <2> HIDE DEF recs
  <2>3. HeldExact'
    BY <2>1, <2>2 DEF StoreInv, HeldExact
  <2> QED
    BY <2>2, <2>3 DEF StoreInv
<1>3. CASE WriteStore(s) \/ WriteFails(s)
  <2>1. /\ save'[s] = NoSave
        /\ \A w \in Writers \ {s} : save'[w] = save[w]
        /\ UNCHANGED <<auth, off, now>>
        /\ stale' \/ (disk' = save[s].records /\ save[s].at = "held" /\ ~save[s].old)
    BY <1>1, <1>3 DEF WriteStore, WriteFails
  <2>2. HeldExact'
    BY <2>1 DEF StoreInv, HeldExact, NoSave
  <2>3. stale' \/ Exact(disk', auth', off', now')
    BY <2>1 DEF StoreInv, HeldExact
  <2> QED
    BY <2>2, <2>3 DEF StoreInv
<1> QED
  BY <1>2, <1>3

LEMMA RestartKeepsStore ==
  ASSUME IInv, NEW supported, Restart(supported)
  PROVE  StoreInv'
<1> DEFINE fresh == FreshAuth(auth.disabled)
           restored == Restore(fresh, disk, off, now)
           recs == CooldownRecords(restored, off, now)
<1>1. auth \in BAuth /\ now \in Nat /\ disk \in BRecords
  BY CooldownAssumption DEF IInv
<1>2. fresh \in BAuth
  BY <1>1, Fields, FreshType
<1>3. restored \in BAuth
  BY <1>1, <1>2, RestoreType
<1>4. /\ \A s \in Writers : save'[s] = NoSave
      /\ off' = off /\ now' = now
      /\ \/ stale'
         \/ /\ disk' = IF disk = NoRecords THEN disk ELSE recs
            /\ CooldownRecords(auth', off, now) = recs
  BY DEF Restart, Booted
<1>5. HeldExact'
  BY <1>4 DEF HeldExact, NoSave
<1>6. disk = NoRecords => recs = NoRecords /\ LiveRecords(disk, now) = NoRecords
  BY <1>1, NothingToRestore, FreshHasNoRecords
<1>7. LiveRecords(recs, now) = recs
  BY <1>1, <1>3, WrittenIsLive
<1> HIDE DEF recs
<1>8. stale' \/ Exact(disk', auth', off', now')
  BY <1>4, <1>6, <1>7 DEF Exact
<1> QED
  BY <1>5, <1>8 DEF StoreInv

LEMMA TimeKeepsStore ==
  ASSUME IInv, StoreInv, Tick
  PROVE  StoreInv'
<1>1. /\ auth \in BAuth /\ now \in Nat /\ disk \in BRecords
      /\ \A s \in Writers : save[s].records \in BRecords
  BY CooldownAssumption DEF IInv, SavesTyped, BSave
<1>2. now' = now + 1 /\ UNCHANGED <<auth, off, disk, save, stale>>
  BY DEF Tick, saves
<1>3. \A recs \in BRecords : Exact(recs, auth, off, now) => Exact(recs, auth', off', now')
  BY <1>1, <1>2, StoreKeepsTime DEF Exact
<1> QED
  BY <1>1, <1>2, <1>3 DEF StoreInv, HeldExact

LEMMA StoreStep ==
  ASSUME IInv, Storing, StoreInv, [Next]_vars
  PROVE  StoreInv'
<1>1. Savers \in SUBSET Writers /\ {Reloader} \in SUBSET Writers
  BY DEF Writers
<1>2. ASSUME NEW a, auth' = a, off' = off, disk' = disk, now' = now,
             SaveIfChanged(a) \/ SaveByNobody(a, off)
      PROVE  StoreInv'
  BY <1>1, <1>2, CallKeepsStore DEF SaveIfChanged
<1>3. CASE Result \/ AuthResult \/ ResetQuotaCall
  <2>1. /\ SaveIfChanged(auth') \/ SaveByNobody(auth', off)
        /\ off' = off /\ disk' = disk /\ now' = now
    BY <1>3 DEF Result, MarkOf, MarkSuccess, MarkFailure, AuthResult, MarkAuthSuccess, MarkAuthFailure, ResetQuotaCall
  <2> QED
    BY <1>2, <2>1
<1>4. ASSUME NEW supported, Reconcile(supported)
      PROVE  StoreInv'
  BY <1>2, <1>4 DEF Reconcile
<1>5. ASSUME NEW b, Update(b)
      PROVE  StoreInv'
  <2>1. /\ off' = off /\ disk' = disk /\ now' = now
        /\ SaveBy(Savers, auth', off) \/ SaveByNobody(auth', off)
    BY <1>5 DEF Update
  <2> QED
    BY <1>1, <2>1, CallKeepsStore
<1>6. ASSUME NEW switch, SetConfig(switch)
      PROVE  StoreInv'
  <2>1. /\ off' = switch /\ disk' = disk /\ now' = now
        /\ SaveBy({Reloader}, auth', switch) \/ SaveByNobody(auth', switch)
    BY <1>6 DEF SetConfig
  <2> QED
    BY <1>1, <2>1, CallKeepsStore
<1>7. CASE ReloadApply
  <2>1. /\ off' = off /\ disk' = disk /\ now' = now
        /\ SaveBy({Reloader}, auth', off) \/ SaveByNobody(auth', off)
    BY <1>7 DEF ReloadApply
  <2> QED
    BY <1>1, <2>1, CallKeepsStore
<1>8. CASE UNCHANGED <<auth, off, disk, save, stale, now>>
  BY <1>8 DEF StoreInv, HeldExact
<1>9. CASE ReloadRead \/ UNCHANGED vars
  BY <1>8, <1>9 DEF ReloadRead, vars, saves
<1> QED
  BY <1>3, <1>4, <1>5, <1>6, <1>7, <1>9, SavingKeepsStore, RestartKeepsStore, TimeKeepsStore
  DEF Next, Administration, Saving, PatchDisabled, FileChanged

\* When no save is under way, the store holds exactly the cooldowns that are running,
\* unless a write failed, a snapshot overtaken by a change was written, or a call
\* changed the records without saving, and no later snapshot made up for it.
THEOREM StoreIsExact == Spec => []DiskIsExact
<1>1. Init => StoreInv
  <2> SUFFICES ASSUME Init
               PROVE  StoreInv
    OBVIOUS
  <2>1. Exact(disk, auth, off, now)
    BY FreshHasNoRecords DEF Init, Exact
  <2>2. HeldExact
    BY DEF Init, HeldExact, NoSave
  <2> QED
    BY <2>1, <2>2 DEF StoreInv
<1>2. IInv /\ (Storing => StoreInv) /\ [Next]_vars => (Storing => StoreInv)'
  BY StoreStep
<1>3. (Storing => StoreInv) => DiskIsExact
  BY DEF StoreInv, Exact, DiskIsExact
<1> QED
  BY <1>1, <1>2, <1>3, InvAlways, PTL DEF Spec
-----------------------------------------------------------------------------
(* What one call changes.                                                  *)

\* Sweeping ends an expired cooldown and nothing else.
LEMMA SweepKeeps ==
  ASSUME NEW s \in BState, NEW t \in Nat
  PROVE  LET r == Swept(s, t) IN
         /\ r.has = s.has /\ r.error = s.error /\ r.lastErr = s.lastErr /\ r.quota = s.quota
         /\ Cooling(r, t) = Cooling(s, t)
  BY DEF Swept, Cooling, BState, ZeroTime

LEMMA SweepLeavesEmpty ==
  ASSUME NEW t
  PROVE  Swept(NoState, t) = NoState
  BY DEF Swept, NoState

\* Aggregating sweeps the models and leaves flag, status and error alone.
LEMMA AggregateKeeps ==
  ASSUME NEW a \in BAuth, NEW t \in Nat
  PROVE  LET b == UpdateAggregated(a, t) IN
         /\ b.ms = [m \in Models |-> Swept(a.ms[m], t)]
         /\ b.disabled = a.disabled /\ b.status = a.status /\ b.lastErr = a.lastErr
  BY DEF UpdateAggregated, BAuth

LEMMA HealingKeeps ==
  ASSUME NEW a \in BAuth, NEW t \in Nat
  PROVE  LET b == Healed(a, t) IN
         b.ms = a.ms /\ b.disabled = a.disabled /\ b.status \in {a.status, "active"}
  BY DEF Healed, BAuth

\* A success replaces the state of its model by a clean one, a failure by a failed
\* one; of the others only what has expired is swept.
LEMMA SuccessStates ==
  ASSUME NEW a \in BAuth, NEW m \in Models, NEW t \in Nat
  PROVE  LET b == Succeed(a, m, t) IN
         /\ \A k \in Models : b.ms[k] = Swept(IF k = m THEN Clean ELSE a.ms[k], t)
         /\ b.disabled = a.disabled /\ b.status \in {a.status, "active"}
<1> DEFINE f == [a.ms EXCEPT ![m] = Clean]
           b == [a EXCEPT !.ms = f]
<1>1. f \in [Models -> BState] /\ \A k \in Models : f[k] = IF k = m THEN Clean ELSE a.ms[k]
  BY Fields, EmptyTypes
<1>2. Succeed(a, m, t) = Healed(UpdateAggregated(b, t), t)
  BY DEF Succeed
<1> HIDE DEF f
<1>3. b \in BAuth /\ b.ms = f /\ b.disabled = a.disabled /\ b.status = a.status
  BY <1>1, SetStates DEF BAuth
<1> HIDE DEF b
<1>4. /\ UpdateAggregated(b, t) \in BAuth
      /\ UpdateAggregated(b, t).ms = [k \in Models |-> Swept(f[k], t)]
      /\ UpdateAggregated(b, t).disabled = a.disabled /\ UpdateAggregated(b, t).status = a.status
  BY <1>3, UpdateAggregatedType, AggregateKeeps
<1> QED
  BY <1>1, <1>2, <1>4, HealingKeeps

LEMMA FailureStates ==
  ASSUME NEW a \in BAuth, NEW m \in Models, NEW kind \in Kinds \ {"request"},
         NEW hint \in HintsFor(kind), NEW switch \in BOOLEAN, NEW t \in Nat
  PROVE  LET b == Fail(a, m, kind, hint, switch, t)
             s == FailedState(a.ms[m], kind, hint, switch, t)
         IN
         /\ s \in BState
         /\ \A k \in Models : b.ms[k] = Swept(IF k = m THEN s ELSE a.ms[k], t)
         /\ b.disabled = a.disabled /\ b.status = "error"
<1> DEFINE s == FailedState(a.ms[m], kind, hint, switch, t)
           f == [a.ms EXCEPT ![m] = s]
           b == [a EXCEPT !.ms = f, !.status = "error", !.lastErr = TRUE]
<1>1. s \in BState
  <2>1. a.ms[m] \in BState /\ a.ms[m].quota \in BQuota
    BY Fields
  <2>2. /\ FailedNext(a.ms[m].quota, kind, hint, switch, t) \in Nat
        /\ FailedQuota(a.ms[m].quota, kind, hint, switch, t) \in BQuota
    BY <2>1, FailedNextType, FailedQuotaType
  <2> QED
    BY <2>2 DEF FailedState, BState
<1>2. Fail(a, m, kind, hint, switch, t) = UpdateAggregated(b, t)
  BY DEF Fail, FailedState
<1> HIDE DEF s
<1>3. f \in [Models -> BState] /\ \A k \in Models : f[k] = IF k = m THEN s ELSE a.ms[k]
  BY <1>1, Fields
<1> HIDE DEF f
<1>4. b \in BAuth /\ b.ms = f /\ b.disabled = a.disabled /\ b.status = "error"
  BY <1>3, SetFailed DEF BAuth
<1> HIDE DEF b
<1>5. /\ UpdateAggregated(b, t).ms = [k \in Models |-> Swept(f[k], t)]
      /\ UpdateAggregated(b, t).disabled = a.disabled /\ UpdateAggregated(b, t).status = "error"
  BY <1>4, AggregateKeeps
<1>6. \A k \in Models : UpdateAggregated(b, t).ms[k] = Swept(IF k = m THEN s ELSE a.ms[k], t)
  BY <1>3, <1>5
<1> QED
  BY <1>1, <1>2, <1>5, <1>6 DEF s

-----------------------------------------------------------------------------
(* Nothing left behind.                                                    *)

\* Only a disabled credential says so in its status, and a model without an entry
\* has no trace of one.
Tidy(a) ==
  /\ a.status = "disabled" => a.disabled
  /\ \A m \in Models : ~a.ms[m].has => a.ms[m] = NoState

\* It is enough to know the states, the flag and the status.
LEMMA TidyFrom ==
  ASSUME NEW a \in BAuth, Tidy(a), NEW b,
         b.disabled = a.disabled, b.status \in {a.status, "active", "error"},
         \A m \in Models : ~b.ms[m].has => b.ms[m] = NoState
  PROVE  Tidy(b)
  BY DEF Tidy

\* Sweeping keeps a credential tidy.
LEMMA SweptIsTidy ==
  ASSUME NEW a \in BAuth, Tidy(a), NEW t \in Nat,
         NEW f \in [Models -> BState], \A m \in Models : ~f[m].has => f[m] = NoState,
         NEW b, \A m \in Models : b.ms[m] = Swept(f[m], t),
         b.disabled = a.disabled, b.status \in {a.status, "active", "error"}
  PROVE  Tidy(b)
<1>1. ASSUME NEW m \in Models, ~b.ms[m].has
      PROVE  b.ms[m] = NoState
  <2>1. f[m] \in BState /\ b.ms[m] = Swept(f[m], t)
    OBVIOUS
  <2>2. ~f[m].has
    BY <1>1, <2>1, SweepKeeps
  <2> QED
    BY <2>1, <2>2, SweepLeavesEmpty
<1> QED
  BY <1>1, TidyFrom

LEMMA AggregateIsTidy ==
  ASSUME NEW a \in BAuth, Tidy(a), NEW t \in Nat
  PROVE  Tidy(UpdateAggregated(a, t))
<1> DEFINE f == a.ms
           b == UpdateAggregated(a, t)
<1>1. \A m \in Models : ~f[m].has => f[m] = NoState
  BY DEF Tidy
<1>2. f \in [Models -> BState]
  BY Fields
<1>3. (\A m \in Models : b.ms[m] = Swept(f[m], t)) /\ b.disabled = a.disabled /\ b.status = a.status
  BY AggregateKeeps
<1> HIDE DEF f, b
<1>4. Tidy(b)
  BY <1>1, <1>2, <1>3, SweptIsTidy
<1> QED
  BY <1>4 DEF b

LEMMA HealingIsTidy ==
  ASSUME NEW a \in BAuth, Tidy(a), NEW t \in Nat
  PROVE  Tidy(Healed(a, t))
<1>1. \A m \in Models : ~a.ms[m].has => a.ms[m] = NoState
  BY DEF Tidy
<1> QED
  BY <1>1, HealingKeeps, TidyFrom

\* Results.
LEMMA ResultIsTidy ==
  ASSUME NEW a \in BAuth, Tidy(a), NEW m \in Models, NEW t \in Nat
  PROVE  /\ Tidy(Succeed(a, m, t))
         /\ \A kind \in Kinds \ {"request"} : \A hint \in HintsFor(kind), switch \in BOOLEAN :
              Tidy(Fail(a, m, kind, hint, switch, t))
<1>1. \A k \in Models : a.ms[k] \in BState /\ (~a.ms[k].has => a.ms[k] = NoState)
  BY Fields DEF Tidy
<1>2. ASSUME NEW s \in BState, s.has, NEW b, \A k \in Models : b.ms[k] = Swept(IF k = m THEN s ELSE a.ms[k], t),
             b.disabled = a.disabled, b.status \in {a.status, "active", "error"}
      PROVE  Tidy(b)
  <2> DEFINE f == [k \in Models |-> IF k = m THEN s ELSE a.ms[k]]
  <2>1. f \in [Models -> BState] /\ \A k \in Models : ~f[k].has => f[k] = NoState
    BY <1>1, <1>2
  <2>2. \A k \in Models : b.ms[k] = Swept(f[k], t)
    BY <1>2
  <2> HIDE DEF f
  <2> QED
    BY <1>2, <2>1, <2>2, SweptIsTidy
<1>3. Clean \in BState /\ Clean.has
  BY EmptyTypes DEF Clean, NoState
<1>4. Tidy(Succeed(a, m, t))
  BY <1>2, <1>3, SuccessStates
<1>5. ASSUME NEW kind \in Kinds \ {"request"}, NEW hint \in HintsFor(kind), NEW switch \in BOOLEAN
      PROVE  Tidy(Fail(a, m, kind, hint, switch, t))
  <2>1. FailedState(a.ms[m], kind, hint, switch, t).has
    BY DEF FailedState
  <2> DEFINE s == FailedState(a.ms[m], kind, hint, switch, t)
             b == Fail(a, m, kind, hint, switch, t)
  <2>2. /\ s \in BState /\ \A k \in Models : b.ms[k] = Swept(IF k = m THEN s ELSE a.ms[k], t)
        /\ b.disabled = a.disabled /\ b.status = "error"
    BY FailureStates
  <2> HIDE DEF s, b
  <2>3. Tidy(b)
    BY <1>2, <2>1, <2>2 DEF s
  <2> QED
    BY <2>3 DEF b
<1> QED
  BY <1>4, <1>5

\* Clearing keeps what is there, and leaves alone what has no cooldown.
LEMMA ClearedKeeps ==
  ASSUME NEW s \in BState
  PROVE  /\ Cleared(s).has = s.has
         /\ ~s.has /\ s = NoState => Cleared(s) = NoState
         /\ ~HasCooldown(s) => Cleared(s) = s
<1>1. [s EXCEPT !.unavail = FALSE, !.next = ZeroTime, !.quota = NoQuota].has = s.has
  BY DEF BState
<1>2. ~HasCooldown(NoState)
  BY DEF HasCooldown, NoState, NoQuota
<1> QED
  BY <1>1, <1>2 DEF Cleared

LEMMA ClearingStates ==
  ASSUME NEW a \in BAuth, NEW t \in Nat
  PROVE  LET b == ClearCooldown(a, t) IN
         /\ \A m \in Models : b.ms[m] \in {Cleared(a.ms[m]), Swept(Cleared(a.ms[m]), t)}
         /\ b.disabled = a.disabled /\ b.status = a.status
<1> DEFINE f == [m \in Models |-> Cleared(a.ms[m])]
           c == Cleared(a)
           b == [c EXCEPT !.ms = f]
<1>1. f \in [Models -> BState]
  BY ClearedType, Fields
<1>2. c \in BAuth /\ c.disabled = a.disabled /\ c.status = a.status
  BY ClearedAuthType DEF Cleared, BAuth
<1>3. ClearCooldown(a, t) = IF Present(a) = {} THEN b ELSE UpdateAggregated(b, t)
  BY DEF ClearCooldown
<1>4. \A m \in Models : f[m] = Cleared(a.ms[m])
  OBVIOUS
<1> HIDE DEF c, f
<1>5. b \in BAuth /\ b.ms = f /\ b.disabled = a.disabled /\ b.status = a.status
  BY <1>1, <1>2, SetStates DEF BAuth
<1> HIDE DEF b
<1>6. LET d == UpdateAggregated(b, t) IN
      (\A m \in Models : d.ms[m] = Swept(f[m], t)) /\ d.disabled = a.disabled /\ d.status = a.status
  BY <1>5, AggregateKeeps
<1> QED
  BY <1>3, <1>4, <1>5, <1>6

LEMMA ClearingIsTidy ==
  ASSUME NEW a \in BAuth, Tidy(a), NEW t \in Nat
  PROVE  Tidy(ClearCooldown(a, t))
<1> DEFINE b == ClearCooldown(a, t)
<1>1. /\ \A m \in Models : b.ms[m] \in {Cleared(a.ms[m]), Swept(Cleared(a.ms[m]), t)}
      /\ b.disabled = a.disabled /\ b.status = a.status
  BY ClearingStates
<1> HIDE DEF b
<1>2. ASSUME NEW m \in Models, ~b.ms[m].has
      PROVE  b.ms[m] = NoState
  <2> DEFINE s == Cleared(a.ms[m])
  <2>1. /\ s \in BState /\ b.ms[m] \in {s, Swept(s, t)}
        /\ ~s.has => s = NoState
    BY <1>1, Fields, ClearedType, ClearedKeeps DEF Tidy
  <2> HIDE DEF s
  <2>2. ~s.has
    BY <1>2, <2>1, SweepKeeps
  <2> QED
    BY <2>1, <2>2, SweepLeavesEmpty
<1>3. Tidy(b)
  BY <1>1, <1>2, TidyFrom
<1> QED
  BY <1>3 DEF b

LEMMA ResettingIsTidy ==
  ASSUME NEW a \in BAuth, Tidy(a), NEW t \in Nat
  PROVE  Tidy(ResetQuota(a, t))
<1> DEFINE f == [m \in Models |-> IF a.ms[m].has THEN Clean ELSE NoState]
           b == [a EXCEPT !.ms = f]
           c == ClearCooldown(b, t)
<1>1. f \in [Models -> BState] /\ \A m \in Models : ~f[m].has => f[m] = NoState
  BY EmptyTypes DEF Clean, NoState
<1>2. ResetQuota(a, t) = IF IsDisabled(c) THEN c ELSE Healed(c, t)
  BY DEF ResetQuota
<1> HIDE DEF f
<1>3. b \in BAuth /\ b.ms = f /\ b.disabled = a.disabled /\ b.status = a.status
  BY <1>1, SetStates DEF BAuth
<1> HIDE DEF b
<1>4. Tidy(b)
  BY <1>1, <1>3, TidyFrom
<1>5. c \in BAuth /\ Tidy(c)
  BY <1>3, <1>4, ClearCooldownType, ClearingIsTidy
<1> HIDE DEF c
<1> QED
  BY <1>2, <1>5, HealingIsTidy

LEMMA ReconcilingIsTidy ==
  ASSUME NEW a \in BAuth, Tidy(a), NEW supported, NEW t \in Nat
  PROVE  Tidy(Reconciled(a, supported, t))
<1> DEFINE f == [m \in Models |-> IF a.ms[m].has /\ m \in supported THEN Clean ELSE NoState]
           b == [a EXCEPT !.ms = f]
<1>1. f \in [Models -> BState] /\ \A m \in Models : ~f[m].has => f[m] = NoState
  BY EmptyTypes DEF Clean, NoState
<1>2. \/ Reconciled(a, supported, t) = a
      \/ Reconciled(a, supported, t) = Healed(UpdateAggregated(b, t), t)
  BY DEF Reconciled
<1> HIDE DEF f
<1>3. b \in BAuth /\ b.ms = f /\ b.disabled = a.disabled /\ b.status = a.status
  BY <1>1, SetStates DEF BAuth
<1> HIDE DEF b
<1>4. Tidy(b)
  BY <1>1, <1>3, TidyFrom
<1>5. UpdateAggregated(b, t) \in BAuth /\ Tidy(UpdateAggregated(b, t))
  BY <1>3, <1>4, UpdateAggregatedType, AggregateIsTidy
<1> QED
  BY <1>2, <1>5, HealingIsTidy

LEMMA RestoringIsTidy ==
  ASSUME NEW a \in BAuth, Tidy(a), NEW recs \in BRecords, NEW switch, NEW t \in Nat
  PROVE  Tidy(Restore(a, recs, switch, t))
<1> DEFINE live == {k \in DOMAIN recs : recs[k].next > t}
           restored(k) == [has |-> TRUE, error |-> TRUE, unavail |-> TRUE, next |-> recs[k].next,
                           quota |-> RestoredQuota(recs[k]), lastErr |-> recs[k].lastErr]
           f == [m \in Models |-> IF m \in live THEN restored(m) ELSE a.ms[m]]
           g == [a EXCEPT !.ms = f]
           b == IF live \intersect Models = {} THEN a ELSE UpdateAggregated(g, t)
           u == recs[AuthLevel]
           n == u.next
           q == RestoredQuota(u)
           e == u.lastErr
           c == [b EXCEPT !.unavail = TRUE, !.status = "error", !.next = n, !.quota = q, !.lastErr = e]
<1>1. \A k \in Models \union {AuthLevel} : recs[k] \in BRecord
  BY DEF BRecords
<1>2. ASSUME NEW m \in Models
      PROVE  restored(m) \in BState /\ restored(m).has
  <2>1. recs[m].next \in Nat /\ RestoredQuota(recs[m]) \in BQuota /\ recs[m].lastErr \in BOOLEAN
    BY <1>1, Fields, RestoredQuotaType
  <2> QED
    BY <2>1 DEF BState
<1>3. \A m \in Models : a.ms[m] \in BState
  BY Fields
<1>4. \/ Restore(a, recs, switch, t) = a
      \/ Restore(a, recs, switch, t) = b
      \/ Restore(a, recs, switch, t) = c
  BY DEF Restore
<1> HIDE DEF restored, live
<1>5. f \in [Models -> BState] /\ \A m \in Models : ~f[m].has => f[m] = NoState
  BY <1>2, <1>3 DEF Tidy
<1> HIDE DEF f
<1>6. g \in BAuth /\ g.ms = f /\ g.disabled = a.disabled /\ g.status = a.status
  BY <1>5, SetStates DEF BAuth
<1> HIDE DEF g
<1>7. Tidy(g)
  BY <1>5, <1>6, TidyFrom
<1>8. b \in BAuth /\ Tidy(b)
  BY <1>6, <1>7, UpdateAggregatedType, AggregateIsTidy
<1> HIDE DEF b, u, n, q, e
<1>9. c.ms = b.ms /\ c.disabled = b.disabled /\ c.status = "error"
  BY <1>8 DEF BAuth
<1> HIDE DEF c
<1>10. Tidy(c)
  BY <1>8, <1>9, TidyFrom DEF Tidy
<1> QED
  BY <1>4, <1>8, <1>10
\* The record Update starts from.
Inherited(b) ==
  IF Present(b) = {} /\ ~IsDisabled(auth) /\ ~IsDisabled(b) THEN [b EXCEPT !.ms = auth.ms] ELSE b

\* A credential patched by the operator or read from its file.
LEMMA Administered ==
  ASSUME IInv, Tidy(auth), NEW d \in BOOLEAN, NEW b,
         \/ b = [auth EXCEPT !.disabled = d, !.status = IF d THEN "disabled" ELSE "active"]
         \/ b = FreshAuth(d)
  PROVE  /\ Inherited(b) \in BAuth /\ Tidy(Inherited(b))
         /\ Inherited(b).ms = auth.ms \/ Present(Inherited(b)) = {}
<1> DEFINE st == IF d THEN "disabled" ELSE "active"
           p == [auth EXCEPT !.disabled = d, !.status = st]
           k == Inherited(b)
<1>1. auth \in BAuth /\ auth.ms \in [Models -> BState]
  BY Fields DEF IInv
<1>2. st \in {"active", "error", "disabled"} /\ (st = "disabled" => d)
  OBVIOUS
<1>3. b = p \/ b = FreshAuth(d)
  OBVIOUS
<1> HIDE DEF st
<1>4. p \in BAuth /\ p.ms = auth.ms /\ p.disabled = d /\ p.status = st
  BY <1>1, <1>2, SetFlag DEF BAuth
<1> HIDE DEF p
<1>5. /\ FreshAuth(d) \in BAuth
      /\ FreshAuth(d).disabled = d
      /\ FreshAuth(d).status = "disabled" => d
      /\ \A m \in Models : FreshAuth(d).ms[m] = NoState /\ ~FreshAuth(d).ms[m].has
  BY FreshType DEF FreshAuth, NoState
<1>6. /\ b \in BAuth /\ (b.status = "disabled" => b.disabled)
      /\ b.ms = auth.ms \/ \A m \in Models : b.ms[m] = NoState /\ ~b.ms[m].has
  BY <1>2, <1>3, <1>4, <1>5
<1>7. k = b \/ k = [b EXCEPT !.ms = auth.ms]
  BY DEF Inherited
<1>8. LET c == [b EXCEPT !.ms = auth.ms] IN
      c \in BAuth /\ c.ms = auth.ms /\ c.status = b.status /\ c.disabled = b.disabled
  BY <1>1, <1>6, SetStates DEF BAuth
<1> HIDE DEF k
<1>9. /\ k \in BAuth /\ (k.status = "disabled" => k.disabled)
      /\ k.ms = auth.ms \/ \A m \in Models : k.ms[m] = NoState /\ ~k.ms[m].has
  BY <1>6, <1>7, <1>8
<1>10. Tidy(k)
  BY <1>9 DEF Tidy
<1>11. k.ms = auth.ms \/ Present(k) = {}
  BY <1>9 DEF Present
<1> QED
  BY <1>9, <1>10, <1>11 DEF k

LEMMA UpdateMeans ==
  ASSUME NEW b, Update(b)
  PROVE  LET kept == Inherited(b) IN
         /\ auth' = IF off \/ IsDisabled(kept) THEN ClearCooldown(kept, now) ELSE kept
         /\ why' = IF Present(auth') = {} \/ ((off \/ IsDisabled(kept)) /\ ClearChanges(kept))
                   THEN [m \in Models |-> "reset"] ELSE why
  BY DEF Update, Inherited

LEMMA AdministeredStep ==
  ASSUME NEW d \in BOOLEAN, PatchDisabled(d) \/ FileChanged(d)
  PROVE  \E b : /\ Update(b)
                /\ \/ b = [auth EXCEPT !.disabled = d, !.status = IF d THEN "disabled" ELSE "active"]
                   \/ b = FreshAuth(d)
  BY DEF PatchDisabled, FileChanged

\* Every step keeps the credential tidy.
LEMMA TidyStep ==
  ASSUME IInv, Tidy(auth), [Next]_vars
  PROVE  Tidy(auth')
<1>1. auth \in BAuth /\ now \in Nat /\ disk \in BRecords /\ off \in BOOLEAN /\ reload.records \in BRecords
  BY CooldownAssumption DEF IInv
<1>2. ASSUME NEW m \in Models, MarkSuccess(m)
      PROVE  Tidy(auth')
  BY <1>1, <1>2, ResultIsTidy DEF MarkSuccess
<1>3. ASSUME NEW m \in Models, NEW kind \in Failures, NEW hint \in HintsFor(kind),
             MarkFailure(m, kind, hint)
      PROVE  Tidy(auth')
  <2>1. kind \in Kinds \ {"request"}
    BY CooldownAssumption
  <2> QED
    BY <1>1, <1>3, <2>1, ResultIsTidy DEF MarkFailure
<1>4. ASSUME auth'.ms = auth.ms, auth'.disabled = auth.disabled,
             auth'.status \in {auth.status, "active", "error"}
      PROVE  Tidy(auth')
  BY <1>4 DEF Tidy
<1>5. CASE MarkAuthSuccess
  <2>1. auth'.ms = auth.ms /\ auth'.disabled = auth.disabled /\ auth'.status = "active"
    BY <1>1, <1>5 DEF MarkAuthSuccess, SucceedAuth, BAuth
  <2> QED
    BY <1>4, <2>1
<1>6. ASSUME NEW kind \in AuthFailures, NEW hint \in HintsFor(kind), MarkAuthFailure(kind, hint)
      PROVE  Tidy(auth')
  <2>1. auth'.ms = auth.ms /\ auth'.disabled = auth.disabled /\ auth'.status \in {auth.status, "error"}
    BY <1>1, <1>6 DEF MarkAuthFailure, FailAuth, BAuth
  <2> QED
    BY <1>4, <2>1
<1>7. CASE ResetQuotaCall
  BY <1>1, <1>7, ResettingIsTidy DEF ResetQuotaCall
<1>8. ASSUME NEW supported, Reconcile(supported)
      PROVE  Tidy(auth')
  BY <1>1, <1>8, ReconcilingIsTidy DEF Reconcile
<1>9. ASSUME NEW supported, Restart(supported)
      PROVE  Tidy(auth')
  <2> DEFINE fresh == FreshAuth(auth.disabled)
             restored == Restore(fresh, disk, off, now)
  <2>1. fresh \in BAuth
    BY Fields, FreshType DEF IInv
  <2>2. Tidy(fresh)
    BY <1>1, Fields DEF FreshAuth, Tidy
  <2>3. auth' = Reconciled(restored, supported, now)
    BY <1>9 DEF Restart, Booted
  <2> HIDE DEF fresh
  <2>4. restored \in BAuth /\ Tidy(restored)
    BY <1>1, <2>1, <2>2, RestoreType, RestoringIsTidy
  <2> HIDE DEF restored
  <2> QED
    BY <1>1, <2>3, <2>4, ReconcilingIsTidy
<1>10. ASSUME NEW d \in BOOLEAN, PatchDisabled(d) \/ FileChanged(d)
       PROVE  Tidy(auth')
  <2>1. PICK b : /\ Update(b)
                 /\ \/ b = [auth EXCEPT !.disabled = d, !.status = IF d THEN "disabled" ELSE "active"]
                    \/ b = FreshAuth(d)
    BY <1>10, AdministeredStep
  <2>2. Inherited(b) \in BAuth /\ Tidy(Inherited(b))
    BY <2>1, Administered
  <2>3. auth' = Inherited(b) \/ auth' = ClearCooldown(Inherited(b), now)
    BY <2>1, UpdateMeans
  <2> QED
    BY <1>1, <2>2, <2>3, ClearingIsTidy
<1>11. ASSUME NEW switch \in BOOLEAN, SetConfig(switch)
       PROVE  Tidy(auth')
  <2>1. auth' = auth \/ auth' = ClearCooldown(auth, now)
    BY <1>11 DEF SetConfig
  <2> QED
    BY <1>1, <2>1, ClearingIsTidy
<1>12. CASE ReloadApply
  BY <1>1, <1>12, RestoringIsTidy DEF ReloadApply
<1>13. CASE UNCHANGED auth
  BY <1>13
<1> QED
  BY <1>2, <1>3, <1>5, <1>6, <1>7, <1>8, <1>9, <1>10, <1>11, <1>12, <1>13
  DEF Next, Result, MarkOf, AuthResult, Administration, ReloadRead, Tick, Saving, TakeSnapshot, WriteStore, WriteFails, vars

LEMMA AlwaysTidy == Spec => []Tidy(auth)
<1>1. Init => Tidy(auth)
  BY DEF Init, Tidy, FreshAuth
<1>2. IInv /\ Tidy(auth) /\ [Next]_vars => Tidy(auth)'
  BY TidyStep DEF Tidy
<1> QED
  BY <1>1, <1>2, InvAlways, PTL DEF Spec
-----------------------------------------------------------------------------
(* Backoff levels and verdicts.                                            *)

\* No failure lowers a backoff level.
LEMMA FailureRaises ==
  ASSUME NEW q \in BQuota, NEW kind \in Kinds, NEW hint \in HintsFor(kind),
         NEW switch \in BOOLEAN, NEW t \in Nat
  PROVE  FailedQuota(q, kind, hint, switch, t).level >= q.level
<1>1. q.level \in Nat
  BY Fields, Durations
<1>2. QuotaCooldown(q.level)[2] \in {q.level, q.level + 1}
  BY DEF QuotaCooldown
<1>3. CloudflareCooldown(q.level)[2] = QuotaCooldown(q.level)[2]
  BY DEF CloudflareCooldown
<1>4. FailedQuota(q, kind, hint, switch, t).level
        \in {q.level, QuotaCooldown(q.level)[2], CloudflareCooldown(q.level)[2]}
  <2>1. CASE kind = "cloudflare"
    BY <2>1 DEF FailedQuota
  <2>2. CASE kind = "quota"
    BY <2>2 DEF FailedQuota
  <2>3. CASE kind \notin {"cloudflare", "quota"}
    BY <2>3 DEF FailedQuota
  <2> QED
    BY <2>1, <2>2, <2>3
<1> QED
  BY <1>1, <1>2, <1>3, <1>4

\* Clearing what has no cooldown keeps every quota record.
LEMMA ClearingNothing ==
  ASSUME NEW a \in BAuth, Tidy(a), ~ClearChanges(a), NEW t \in Nat, NEW m \in Models
  PROVE  ClearCooldown(a, t).ms[m].quota = a.ms[m].quota
<1>1. a.ms[m] \in BState
  BY Fields
<1>2. ~HasCooldown(a.ms[m])
  <2>1. CASE a.ms[m].has
    BY <2>1 DEF ClearChanges, Present
  <2>2. CASE ~a.ms[m].has
    <3>1. ~HasCooldown(NoState)
      BY DEF HasCooldown, NoState, NoQuota
    <3> QED
      BY <2>2, <3>1 DEF Tidy
  <2> QED
    BY <2>1, <2>2
<1>3. Cleared(a.ms[m]) = a.ms[m]
  BY <1>1, <1>2, ClearedKeeps
<1>4. ClearCooldown(a, t).ms[m] \in {a.ms[m], Swept(a.ms[m], t)}
  BY <1>3, ClearingStates
<1> QED
  BY <1>1, <1>4, SweepKeeps

\* Clearing makes up no model.
LEMMA ClearingIsPresent ==
  ASSUME NEW a \in BAuth, NEW t \in Nat, Present(a) = {}
  PROVE  Present(ClearCooldown(a, t)) = {}
<1>1. ASSUME NEW m \in Models
      PROVE  ~ClearCooldown(a, t).ms[m].has
  <2> DEFINE s == Cleared(a.ms[m])
  <2>1. s \in BState /\ ~s.has
    BY Fields, ClearedType, ClearedKeeps DEF Present
  <2>2. ClearCooldown(a, t).ms[m] \in {s, Swept(s, t)}
    BY ClearingStates
  <2> HIDE DEF s
  <2> QED
    BY <2>1, <2>2, SweepKeeps
<1> QED
  BY <1>1 DEF Present

Relieved(m) == why'[m] \in {"success", "reset", "restored", "booted"}

\* A level that is lower after a step was relieved in it.
LEMMA BackoffStep ==
  ASSUME IInv, Tidy(auth), [Next]_vars, NEW m \in Models
  PROVE  auth'.ms[m].quota.level < auth.ms[m].quota.level => Relieved(m)
<1> DEFINE old == auth.ms[m].quota.level
           Goal == auth'.ms[m].quota.level < old => Relieved(m)
<1>1. /\ auth \in BAuth /\ now \in Nat /\ why \in [Models -> Reasons] /\ off \in BOOLEAN
      /\ auth.ms[m] \in BState /\ auth.ms[m].quota \in BQuota /\ old \in Nat
  BY CooldownAssumption, Fields, Durations DEF IInv
<1>2. ASSUME auth'.ms[m].quota = auth.ms[m].quota
      PROVE  Goal
  BY <1>1, <1>2
<1>3. ASSUME auth'.ms = auth.ms \/ auth'.ms[m] = auth.ms[m]
       PROVE  Goal
  <2>1. auth'.ms[m].quota = auth.ms[m].quota
    BY <1>3
  <2> QED
    BY <1>2, <2>1
<1>4. ASSUME why'[m] \in {"success", "reset", "restored", "booted"}
      PROVE  Goal
  BY <1>4 DEF Relieved
<1> HIDE DEF Goal
<1> SUFFICES Goal
  BY DEF Goal
<1>5. ASSUME NEW k \in Models, MarkSuccess(k)
      PROVE  Goal
  <2>1. CASE k = m
    <3>1. why'[m] = "success"
      BY <1>1, <1>5, <2>1 DEF MarkSuccess
    <3> QED
      BY <1>4, <3>1
  <2>2. CASE k # m
    <3>1. auth'.ms[m] = Swept(auth.ms[m], now)
      BY <1>1, <1>5, <2>2, SuccessStates DEF MarkSuccess
    <3> QED
      BY <1>1, <1>2, <3>1, SweepKeeps
  <2> QED
    BY <2>1, <2>2
<1>6. ASSUME NEW k \in Models, NEW kind \in Failures, NEW hint \in HintsFor(kind),
             MarkFailure(k, kind, hint)
      PROVE  Goal
  <2> DEFINE s == FailedState(auth.ms[k], kind, hint, off, now)
  <2>1. kind \in Kinds \ {"request"}
    BY CooldownAssumption
  <2>2. s \in BState /\ auth'.ms[m] = Swept(IF m = k THEN s ELSE auth.ms[m], now)
    BY <1>1, <1>6, <2>1, FailureStates DEF MarkFailure
  <2>3. k = m => s.quota.level >= old
    BY <1>1, <2>1, FailureRaises DEF FailedState
  <2> HIDE DEF s
  <2>4. CASE k = m
    <3>1. auth'.ms[m].quota = s.quota /\ s.quota.level \in Nat
      BY <1>1, <2>2, <2>4, SweepKeeps, Fields, Durations
    <3> QED
      BY <1>1, <2>3, <2>4, <3>1 DEF Goal
  <2>5. CASE k # m
    BY <1>1, <1>2, <2>2, <2>5, SweepKeeps
  <2> QED
    BY <2>4, <2>5
<1>7. CASE AuthResult
  <2>1. auth'.ms = auth.ms
    BY <1>1, <1>7 DEF AuthResult, MarkAuthSuccess, MarkAuthFailure, SucceedAuth, FailAuth, BAuth
  <2> QED
    BY <1>3, <2>1
<1>8. CASE ResetQuotaCall
  <2>1. why'[m] = "reset"
    BY <1>8 DEF ResetQuotaCall
  <2> QED
    BY <1>4, <2>1
<1>9. ASSUME NEW supported, Reconcile(supported) \/ Restart(supported)
      PROVE  Goal
  <2>1. why'[m] \in {"reset", "booted"}
    BY <1>9 DEF Reconcile, Restart
  <2> QED
    BY <1>4, <2>1
<1>10. ASSUME NEW d \in BOOLEAN, PatchDisabled(d) \/ FileChanged(d)
      PROVE  Goal
  <2>1. PICK b : /\ Update(b)
                 /\ \/ b = [auth EXCEPT !.disabled = d, !.status = IF d THEN "disabled" ELSE "active"]
                    \/ b = FreshAuth(d)
    BY <1>10, AdministeredStep
  <2> DEFINE kept == Inherited(b)
             cleared == off \/ IsDisabled(kept)
  <2>2. /\ kept \in BAuth /\ Tidy(kept)
        /\ kept.ms = auth.ms \/ Present(kept) = {}
    BY <2>1, Administered
  <2>3. /\ auth' = IF cleared THEN ClearCooldown(kept, now) ELSE kept
        /\ Present(auth') = {} \/ (cleared /\ ClearChanges(kept)) => why' = [k \in Models |-> "reset"]
    BY <2>1, UpdateMeans
  <2> HIDE DEF kept, cleared
  <2>4. CASE Present(auth') = {} \/ (cleared /\ ClearChanges(kept))
    BY <1>4, <2>3, <2>4
  <2>5. CASE Present(auth') # {} /\ ~(cleared /\ ClearChanges(kept))
    <3>1. Present(kept) # {}
      BY <1>1, <2>2, <2>3, <2>5, ClearingIsPresent
    <3>2. auth'.ms[m].quota = kept.ms[m].quota
      BY <1>1, <2>2, <2>3, <2>5, ClearingNothing
    <3> QED
      BY <1>2, <2>2, <3>1, <3>2
  <2> QED
    BY <2>4, <2>5
<1>11. ASSUME NEW switch \in BOOLEAN, SetConfig(switch)
       PROVE  Goal
  <2>1. CASE (switch \/ IsDisabled(auth)) /\ ClearChanges(auth)
    <3>1. why'[m] = "reset"
      BY <1>11, <2>1 DEF SetConfig
    <3> QED
      BY <1>4, <3>1
  <2>2. CASE ~((switch \/ IsDisabled(auth)) /\ ClearChanges(auth))
    <3>1. auth' = auth \/ (auth' = ClearCooldown(auth, now) /\ ~ClearChanges(auth))
      BY <1>11, <2>2 DEF SetConfig
    <3> QED
      BY <1>1, <1>2, <3>1, ClearingNothing
  <2> QED
    BY <2>1, <2>2
<1>12. CASE ReloadApply
  <2>1. CASE auth'.ms[m] = auth.ms[m]
    BY <1>3, <2>1
  <2>2. CASE auth'.ms[m] # auth.ms[m]
    <3>1. why'[m] = "restored"
      BY <1>12, <2>2 DEF ReloadApply
    <3> QED
      BY <1>4, <3>1
  <2> QED
    BY <2>1, <2>2
<1>13. CASE UNCHANGED auth
  <2>1. auth'.ms = auth.ms
    BY <1>13
  <2> QED
    BY <1>3, <2>1
<1> QED
  BY <1>5, <1>6, <1>7, <1>8, <1>9, <1>10, <1>11, <1>12, <1>13
  DEF Next, Result, MarkOf, Administration, ReloadRead, Tick, Saving, TakeSnapshot, WriteStore, WriteFails, vars

\* The backoff level of a model falls only by a success of that model, a reset or an
\* administrator's change of the credential, a reload or a boot: no failure of any kind,
\* no result that names another model or none, and no end of a cooldown starts it over.
THEOREM BackoffNeedsRelief == Spec => BackoffFallsOnlyOnRelief
<1>1. IInv /\ Tidy(auth) /\ [Next]_vars =>
        [\A m \in Models : auth'.ms[m].quota.level < auth.ms[m].quota.level
           => why'[m] \in {"success", "reset", "restored", "booted"}]_vars
  BY BackoffStep DEF Relieved
<1> QED
  BY <1>1, InvAlways, AlwaysTidy, PTL DEF Spec, BackoffFallsOnlyOnRelief

\* A result moves the verdict on its own model only.
LEMMA VerdictKept ==
  ASSUME IInv, Tidy(auth), NEW b, Tidy(b), NEW k \in Models,
         b.disabled = auth.disabled, b.ms[k] = Swept(auth.ms[k], now)
  PROVE  BlockedFor(auth, k, now) = BlockedFor(b, k, now)
<1>1. auth.ms[k] \in BState /\ now \in Nat
  BY CooldownAssumption, Fields DEF IInv
<1>2. b.ms[k].has = auth.ms[k].has /\ Cooling(b.ms[k], now) = Cooling(auth.ms[k], now)
  BY <1>1, SweepKeeps
<1>3. IsDisabled(auth) <=> IsDisabled(b)
  BY DEF IsDisabled, Tidy
<1> QED
  BY <1>2, <1>3 DEF BlockedFor

LEMMA IsolatedStep ==
  ASSUME IInv, Tidy(auth), Tidy(auth'), NEW m \in Models, MarkOf(m), NEW k \in Models \ {m}
  PROVE  BlockedFor(auth', k, now) = BlockedFor(auth, k, now)
<1>1. auth \in BAuth /\ now \in Nat /\ off \in BOOLEAN
  BY CooldownAssumption DEF IInv
<1>2. CASE MarkSuccess(m)
  <2>1. auth'.disabled = auth.disabled /\ auth'.ms[k] = Swept(auth.ms[k], now)
    BY <1>1, <1>2, SuccessStates DEF MarkSuccess
  <2> QED
    BY <2>1, VerdictKept
<1>3. ASSUME NEW kind \in Failures, NEW hint \in HintsFor(kind), MarkFailure(m, kind, hint)
      PROVE  BlockedFor(auth', k, now) = BlockedFor(auth, k, now)
  <2>1. kind \in Kinds \ {"request"}
    BY CooldownAssumption
  <2>2. auth'.disabled = auth.disabled /\ auth'.ms[k] = Swept(auth.ms[k], now)
    BY <1>1, <1>3, <2>1, FailureStates DEF MarkFailure
  <2> QED
    BY <2>2, VerdictKept
<1> QED
  BY <1>2, <1>3 DEF MarkOf

\* A result changes the verdict on its own model at most: sweeping and aggregating
\* neither free nor block any other, whatever was administered before.
THEOREM ResultsStayIsolated == Spec => ResultsAreIsolated
<1>1. IInv /\ Tidy(auth) /\ Tidy(auth)' /\ [Next]_vars =>
        [\A m \in Models : MarkOf(m) =>
           \A k \in Models \ {m} : BlockedFor(auth', k, now) = BlockedFor(auth, k, now)]_vars
  BY IsolatedStep DEF Tidy
<1> QED
  BY <1>1, InvAlways, AlwaysTidy, PTL DEF Spec, ResultsAreIsolated
-----------------------------------------------------------------------------
(* The credential's own state, while only results of models and resets     *)
(* touch it.                                                               *)

\* The credential is unavailable until the first of its models recovers, and only
\* while all of them are.
Follows(a, t) ==
  /\ a.unavail => /\ Present(a) # {}
                  /\ \A m \in Present(a) : a.ms[m].unavail /\ a.next <= a.ms[m].next
                  /\ \E m \in Present(a) : a.next = a.ms[m].next
  /\ ~a.unavail => Present(a) = {} \/ \E m \in Present(a) : ~Cooling(a.ms[m], t)

\* Only failed models carry an error, and the status says whether there is one.
Tells(a) ==
  /\ \A m \in Models : (a.ms[m].error => a.ms[m].lastErr) /\ (a.ms[m].lastErr => a.ms[m].has)
  /\ ~a.disabled
  /\ a.status = IF \E m \in Models : a.ms[m].lastErr THEN "error" ELSE "active"

Honest ==
  /\ Follows(auth, now)
  /\ Tells(auth)
  /\ \A m \in Models : auth.ms[m].lastErr <=> (why[m] \in Kinds)

\* updateAggregatedAvailability makes it follow.
LEMMA AggregateFollows ==
  ASSUME NEW a \in BAuth, NEW t \in Nat
  PROVE  Follows(UpdateAggregated(a, t), t)
<1> DEFINE ms   == [m \in Models |-> Swept(a.ms[m], t)]
           P    == Present(a)
           nxts == {ms[m].next : m \in P}
           all  == P # {} /\ \A m \in P : Cooling(ms[m], t)
           b    == UpdateAggregated(a, t)
<1>1. b.ms = ms /\ b.unavail = all /\ b.next = IF all THEN Min(nxts) ELSE ZeroTime
  BY DEF UpdateAggregated, BAuth
<1>2. ms \in [Models -> BState] /\ \A m \in Models : ms[m].has = a.ms[m].has
  BY SweptType, SweepKeeps, Fields
<1>3. P \subseteq Models
  BY DEF Present
<1> HIDE DEF ms
<1>4. Present(b) = P
  BY <1>1, <1>2 DEF Present
<1> HIDE DEF b, P
<1>5. ASSUME all
      PROVE  Follows(b, t)
  <2>1. nxts \in SUBSET Nat /\ nxts # {}
    BY <1>2, <1>3, <1>5, Fields
  <2>2. Min(nxts) \in nxts /\ \A x \in nxts : Min(nxts) <= x
    BY <2>1, MinOfNaturals
  <2>3. /\ \E m \in P : Min(nxts) = ms[m].next
        /\ \A m \in P : Min(nxts) <= ms[m].next
    BY <2>2
  <2>4. \A m \in P : ms[m].unavail
    BY <1>5 DEF Cooling
  <2> HIDE DEF nxts
  <2> QED
    BY <1>1, <1>4, <1>5, <2>3, <2>4 DEF Follows
<1>6. ASSUME ~all
      PROVE  Follows(b, t)
  <2>1. ~b.unavail /\ (Present(b) = {} \/ \E m \in Present(b) : ~Cooling(b.ms[m], t))
    BY <1>1, <1>4, <1>6
  <2> QED
    BY <2>1 DEF Follows
<1>7. Follows(b, t)
  BY <1>5, <1>6
<1> QED
  BY <1>7 DEF b

LEMMA HealingFollows ==
  ASSUME NEW a \in BAuth, NEW t \in Nat, Follows(a, t)
  PROVE  Follows(Healed(a, t), t)
<1> DEFINE b == Healed(a, t)
<1>1. b.ms = a.ms /\ b.unavail = a.unavail /\ b.next = a.next
  BY DEF Healed, BAuth
<1> HIDE DEF b
<1>2. Present(b) = Present(a)
  BY <1>1 DEF Present
<1>3. Follows(b, t)
  BY <1>1, <1>2 DEF Follows
<1> QED
  BY <1>3 DEF b

\* Time ends cooldowns only.
LEMMA FollowsInTime ==
  ASSUME NEW a \in BAuth, NEW t \in Nat, Follows(a, t)
  PROVE  Follows(a, t + 1)
<1>1. \A m \in Present(a) : a.ms[m].next \in Nat
  BY Fields DEF Present
<1>2. \A m \in Present(a) : ~Cooling(a.ms[m], t) => ~Cooling(a.ms[m], t + 1)
  BY <1>1 DEF Cooling
<1> QED
  BY <1>2 DEF Follows

\* Healing makes the status tell, if it only errs on the side of an error.
LEMMA HealingTells ==
  ASSUME NEW a \in BAuth, NEW t \in Nat, ~a.disabled,
         \A m \in Models : (a.ms[m].error => a.ms[m].lastErr) /\ (a.ms[m].lastErr => a.ms[m].has),
         (\E m \in Models : a.ms[m].lastErr) => a.status = "error"
  PROVE  Tells(Healed(a, t))
<1>1. HasModelError(a, t) <=> \E m \in Models : a.ms[m].lastErr
  BY DEF HasModelError, Present
<1>2. Healed(a, t).ms = a.ms /\ Healed(a, t).disabled = a.disabled
  BY HealingKeeps
<1>3. Healed(a, t).status = IF \E m \in Models : a.ms[m].lastErr THEN "error" ELSE "active"
  BY <1>1 DEF Healed, BAuth
<1> QED
  BY <1>2, <1>3 DEF Tells

LEMMA SuccessIsHonest ==
  ASSUME NEW a \in BAuth, NEW m \in Models, NEW t \in Nat, Tells(a)
  PROVE  LET b == Succeed(a, m, t) IN
         /\ Follows(b, t) /\ Tells(b)
         /\ \A k \in Models : b.ms[k].lastErr <=> (k # m /\ a.ms[k].lastErr)
<1> DEFINE f == [a.ms EXCEPT ![m] = Clean]
           b == [a EXCEPT !.ms = f]
           c == UpdateAggregated(b, t)
<1>1. f \in [Models -> BState] /\ \A k \in Models : f[k] = IF k = m THEN Clean ELSE a.ms[k]
  BY Fields, EmptyTypes
<1>2. Succeed(a, m, t) = Healed(c, t)
  BY DEF Succeed
<1> HIDE DEF f
<1>3. b \in BAuth /\ b.ms = f /\ b.disabled = a.disabled /\ b.status = a.status
  BY <1>1, SetStates DEF BAuth
<1> HIDE DEF b
<1>4. /\ c \in BAuth /\ Follows(c, t)
      /\ \A k \in Models : c.ms[k] = Swept(f[k], t)
      /\ c.disabled = a.disabled /\ c.status = a.status
  <2>1. c \in BAuth /\ Follows(c, t)
    BY <1>3, UpdateAggregatedType, AggregateFollows
  <2>2. c.ms = [k \in Models |-> Swept(b.ms[k], t)] /\ c.disabled = b.disabled /\ c.status = b.status
    BY <1>3, AggregateKeeps
  <2> QED
    BY <1>3, <2>1, <2>2
<1> HIDE DEF c
<1>5. ASSUME NEW k \in Models
      PROVE  /\ c.ms[k].lastErr <=> (k # m /\ a.ms[k].lastErr)
             /\ c.ms[k].error => c.ms[k].lastErr
             /\ c.ms[k].lastErr => c.ms[k].has
  <2>1. /\ a.ms[k].error => a.ms[k].lastErr
        /\ a.ms[k].lastErr => a.ms[k].has
    BY DEF Tells
  <2>2. /\ f[k] \in BState
        /\ c.ms[k].has = f[k].has /\ c.ms[k].error = f[k].error /\ c.ms[k].lastErr = f[k].lastErr
    BY <1>1, <1>4, SweepKeeps
  <2>3. CASE k = m
    <3>1. ~f[k].error /\ ~f[k].lastErr
      BY <1>1, <2>3 DEF Clean, NoState
    <3>2. f[k].lastErr \in BOOLEAN /\ f[k].error \in BOOLEAN
      BY <2>2, Fields
    <3> QED
      BY <2>2, <2>3, <3>1, <3>2
  <2>4. CASE k # m
    <3>1. f[k] = a.ms[k] /\ a.ms[k].lastErr \in BOOLEAN
      BY <1>1, <2>4, Fields
    <3> QED
      BY <2>1, <2>2, <2>4, <3>1
  <2> QED
    BY <2>3, <2>4
<1>6. ~c.disabled /\ ((\E k \in Models : c.ms[k].lastErr) => c.status = "error")
  BY <1>4, <1>5 DEF Tells
<1>7. Tells(Healed(c, t)) /\ Follows(Healed(c, t), t) /\ Healed(c, t).ms = c.ms
  BY <1>4, <1>5, <1>6, HealingTells, HealingFollows, HealingKeeps
<1> QED
  BY <1>2, <1>5, <1>7

LEMMA FailureIsHonest ==
  ASSUME NEW a \in BAuth, NEW m \in Models, NEW kind \in Kinds \ {"request"},
         NEW hint \in HintsFor(kind), NEW switch \in BOOLEAN, NEW t \in Nat, Tells(a)
  PROVE  LET b == Fail(a, m, kind, hint, switch, t) IN
         /\ Follows(b, t) /\ Tells(b)
         /\ \A k \in Models : b.ms[k].lastErr <=> (k = m \/ a.ms[k].lastErr)
<1> DEFINE s == FailedState(a.ms[m], kind, hint, switch, t)
           f == [a.ms EXCEPT ![m] = s]
           c == [a EXCEPT !.ms = f, !.status = "error", !.lastErr = TRUE]
           b == Fail(a, m, kind, hint, switch, t)
<1>1. /\ s \in BState
      /\ \A k \in Models : b.ms[k] = Swept(IF k = m THEN s ELSE a.ms[k], t)
      /\ b.disabled = a.disabled /\ b.status = "error"
  BY FailureStates
<1>2. s.has = TRUE /\ s.lastErr = TRUE
  BY DEF FailedState
<1>3. b = UpdateAggregated(c, t)
  BY DEF Fail, FailedState
<1> HIDE DEF s, b
<1>4. f \in [Models -> BState]
  BY <1>1, Fields
<1> HIDE DEF f
<1>5. c \in BAuth
  BY <1>4, SetFailed
<1> HIDE DEF c
<1>6. Follows(b, t)
  BY <1>3, <1>5, AggregateFollows
<1>7. ASSUME NEW k \in Models
      PROVE  /\ b.ms[k].lastErr <=> (k = m \/ a.ms[k].lastErr)
             /\ b.ms[k].error => b.ms[k].lastErr
             /\ b.ms[k].lastErr => b.ms[k].has
  <2>1. /\ a.ms[k].error => a.ms[k].lastErr
        /\ a.ms[k].lastErr => a.ms[k].has
        /\ a.ms[k] \in BState /\ a.ms[k].lastErr \in BOOLEAN
    BY Fields DEF Tells
  <2>2. CASE k = m
    <3>1. b.ms[k].has = TRUE /\ b.ms[k].lastErr = TRUE
      BY <1>1, <1>2, <2>2, SweepKeeps
    <3> QED
      BY <2>2, <3>1
  <2>3. CASE k # m
    <3>1. b.ms[k].has = a.ms[k].has /\ b.ms[k].error = a.ms[k].error /\ b.ms[k].lastErr = a.ms[k].lastErr
      BY <1>1, <2>1, <2>3, SweepKeeps
    <3> QED
      BY <2>1, <2>3, <3>1
  <2> QED
    BY <2>2, <2>3
<1>8. Tells(b)
  BY <1>1, <1>7 DEF Tells
<1> QED
  BY <1>6, <1>7, <1>8 DEF b

LEMMA ResetIsHonest ==
  ASSUME NEW a \in BAuth, NEW t \in Nat, Tells(a)
  PROVE  LET b == ResetQuota(a, t) IN
         /\ Follows(b, t) /\ Tells(b)
         /\ \A k \in Models : ~b.ms[k].lastErr
<1> DEFINE f == [m \in Models |-> IF a.ms[m].has THEN Clean ELSE NoState]
           g == [m \in Models |-> Cleared(f[m])]
           b == [a EXCEPT !.ms = f]
           d == [Cleared(b) EXCEPT !.ms = g]
           c == ClearCooldown(b, t)
<1>1. ASSUME NEW m \in Models
      PROVE  f[m] \in BState /\ ~f[m].error /\ ~f[m].lastErr /\ ~HasCooldown(f[m])
  BY EmptyTypes DEF Clean, NoState, NoQuota, HasCooldown
<1>2. ResetQuota(a, t) = IF IsDisabled(c) THEN c ELSE Healed(c, t)
  BY DEF ResetQuota
<1>3. f \in [Models -> BState]
  BY <1>1
<1> HIDE DEF f
<1>4. b \in BAuth /\ b.ms = f /\ b.disabled = a.disabled /\ b.status = a.status
  BY <1>3, SetStates DEF BAuth
<1>5. c = IF Present(b) = {} THEN d ELSE UpdateAggregated(d, t)
  BY <1>4 DEF ClearCooldown
<1> HIDE DEF b
<1>6. \A m \in Models : g[m] = f[m]
  BY <1>1, ClearedKeeps
<1>7. Cleared(b) \in BAuth /\ ~Cleared(b).unavail
      /\ Cleared(b).disabled = a.disabled /\ Cleared(b).status = a.status
  BY <1>4, ClearedAuthType DEF Cleared, HasCooldown, BAuth
<1>8. g \in [Models -> BState]
  BY <1>3, <1>6
<1> HIDE DEF g
<1>9. d \in BAuth /\ d.ms = g /\ ~d.unavail /\ d.disabled = a.disabled /\ d.status = a.status
  BY <1>7, <1>8, SetStates DEF BAuth
<1>10. Present(d) = Present(b)
  BY <1>4, <1>6, <1>9 DEF Present
<1> HIDE DEF d, c
<1>11. /\ c \in BAuth /\ Follows(c, t) /\ c.disabled = a.disabled /\ c.status = a.status
       /\ \A m \in Models : ~c.ms[m].error /\ ~c.ms[m].lastErr
  <2>1. CASE Present(b) = {}
    <3>1. c = d
      BY <1>5, <2>1
    <3>2. Follows(d, t)
      BY <1>9, <1>10, <2>1 DEF Follows
    <3> QED
      BY <1>1, <1>6, <1>9, <3>1, <3>2
  <2>2. CASE Present(b) # {}
    <3>1. c = UpdateAggregated(d, t)
      BY <1>5, <2>2
    <3>2. /\ c \in BAuth /\ Follows(c, t) /\ c.disabled = a.disabled /\ c.status = a.status
          /\ \A m \in Models : c.ms[m] = Swept(g[m], t)
      <4>1. c \in BAuth /\ Follows(c, t)
        BY <1>9, <3>1, UpdateAggregatedType, AggregateFollows
      <4>2. c.ms = [m \in Models |-> Swept(d.ms[m], t)] /\ c.disabled = d.disabled /\ c.status = d.status
        BY <1>9, <3>1, AggregateKeeps
      <4> QED
        BY <1>9, <4>1, <4>2
    <3>3. \A m \in Models : ~c.ms[m].error /\ ~c.ms[m].lastErr
      BY <1>1, <1>6, <3>2, SweepKeeps
    <3> QED
      BY <3>2, <3>3
  <2> QED
    BY <2>1, <2>2
<1>12. ~IsDisabled(c)
  BY <1>11 DEF Tells, IsDisabled
<1>13. Tells(Healed(c, t)) /\ Follows(Healed(c, t), t) /\ Healed(c, t).ms = c.ms
  <2>1. ~c.disabled
    BY <1>11 DEF Tells
  <2> QED
    BY <1>11, <2>1, HealingTells, HealingFollows, HealingKeeps
<1> QED
  BY <1>2, <1>11, <1>12, <1>13

LEMMA HonestStep ==
  ASSUME ~Admin, AuthFailures = {}, IInv, Honest, [Next]_vars
  PROVE  Honest'
<1>1. auth \in BAuth /\ now \in Nat /\ off \in BOOLEAN /\ why \in [Models -> Reasons]
  BY CooldownAssumption DEF IInv
<1>2. ASSUME Follows(auth', now'), Tells(auth'),
             \A m \in Models : auth'.ms[m].lastErr <=> (why'[m] \in Kinds)
      PROVE  Honest'
  BY <1>2 DEF Honest, Follows, Tells, Present, Cooling
<1>3. ASSUME NEW m \in Models, MarkSuccess(m)
      PROVE  Honest'
  <2>1. /\ Follows(auth', now) /\ Tells(auth')
        /\ \A k \in Models : auth'.ms[k].lastErr <=> (k # m /\ auth.ms[k].lastErr)
    BY <1>1, <1>3, SuccessIsHonest DEF MarkSuccess, Honest
  <2>2. now' = now /\ why'[m] \notin Kinds /\ \A k \in Models \ {m} : why'[k] = why[k]
    BY <1>1, <1>3 DEF MarkSuccess, Kinds
  <2>3. ASSUME NEW k \in Models
        PROVE  auth'.ms[k].lastErr <=> (why'[k] \in Kinds)
    <3>1. auth'.ms[k].lastErr <=> (k # m /\ auth.ms[k].lastErr)
      BY <2>1
    <3>2. auth.ms[k].lastErr <=> (why[k] \in Kinds)
      BY DEF Honest
    <3>3. k = m => why'[k] \notin Kinds
      BY <2>2
    <3>4. k # m => why'[k] = why[k]
      BY <2>2
    <3> QED
      BY <3>1, <3>3, <3>4, <3>2
  <2> QED
    BY <1>2, <2>1, <2>2, <2>3
<1>4. ASSUME NEW m \in Models, NEW kind \in Failures, NEW hint \in HintsFor(kind),
             MarkFailure(m, kind, hint)
      PROVE  Honest'
  <2>1. kind \in Kinds \ {"request"}
    BY CooldownAssumption
  <2>2. /\ Follows(auth', now) /\ Tells(auth')
        /\ \A k \in Models : auth'.ms[k].lastErr <=> (k = m \/ auth.ms[k].lastErr)
    BY <1>1, <1>4, <2>1, FailureIsHonest DEF MarkFailure, Honest
  <2>3. now' = now /\ why'[m] \in Kinds /\ \A k \in Models \ {m} : why'[k] = why[k]
    BY <1>1, <1>4, <2>1 DEF MarkFailure
  <2>4. ASSUME NEW k \in Models
        PROVE  auth'.ms[k].lastErr <=> (why'[k] \in Kinds)
    <3>1. auth'.ms[k].lastErr <=> (k = m \/ auth.ms[k].lastErr)
      BY <2>2
    <3>2. auth.ms[k].lastErr <=> (why[k] \in Kinds)
      BY DEF Honest
    <3>3. k = m => why'[k] \in Kinds
      BY <2>3
    <3>4. k # m => why'[k] = why[k]
      BY <2>3
    <3> QED
      BY <3>1, <3>3, <3>4, <3>2
  <2> QED
    BY <1>2, <2>2, <2>3, <2>4
<1>5. CASE ResetQuotaCall
  <2>1. /\ Follows(auth', now) /\ Tells(auth')
        /\ \A k \in Models : ~auth'.ms[k].lastErr
    BY <1>1, <1>5, ResetIsHonest DEF ResetQuotaCall, Honest
  <2>2. auth' \in BAuth
    BY <1>1, <1>5, ResetQuotaType DEF ResetQuotaCall
  <2>3. now' = now /\ \A k \in Models : why'[k] \notin Kinds
    BY <1>5 DEF ResetQuotaCall, Kinds
  <2>4. \A k \in Models : auth'.ms[k].lastErr \in BOOLEAN
    BY <2>2, Fields
  <2> QED
    BY <1>2, <2>1, <2>3, <2>4
<1>6. CASE Tick
  <2>1. auth' = auth /\ why' = why /\ now' = now + 1
    BY <1>6 DEF Tick
  <2>2. Follows(auth, now + 1)
    BY <1>1, FollowsInTime DEF Honest
  <2> QED
    BY <1>2, <2>1, <2>2 DEF Honest
<1>7. CASE UNCHANGED vars
  BY <1>2, <1>7 DEF Honest, vars
<1>8. CASE Saving
  <2>1. UNCHANGED <<auth, why, now>>
    BY <1>8 DEF Saving, TakeSnapshot, WriteStore, WriteFails
  <2> QED
    BY <1>2, <2>1 DEF Honest
<1> QED
  BY <1>3, <1>4, <1>5, <1>6, <1>7, <1>8 DEF Next, Result, MarkOf, AuthResult, Administration

LEMMA HonestStarts == Init => Honest
<1> SUFFICES ASSUME Init
             PROVE  Honest
  OBVIOUS
<1>1. auth = FreshAuth(FALSE) /\ \A m \in Models : auth.ms[m] = NoState /\ why[m] = "none"
  BY DEF Init, FreshAuth
<1>2. ~NoState.has /\ NoState.lastErr = FALSE /\ "none" \notin Kinds
  BY DEF NoState, Kinds
<1>3. Present(auth) = {}
  BY <1>1, <1>2 DEF Present
<1>4. Follows(auth, now)
  BY <1>1, <1>3 DEF Follows, FreshAuth
<1>5. Tells(auth)
  BY <1>1 DEF Tells, FreshAuth, NoState
<1>6. \A m \in Models : auth.ms[m].lastErr <=> (why[m] \in Kinds)
  <2> SUFFICES ASSUME NEW m \in Models
               PROVE  auth.ms[m].lastErr <=> (why[m] \in Kinds)
    OBVIOUS
  <2>1. auth.ms[m].lastErr = FALSE /\ why[m] \notin Kinds
    BY <1>1, <1>2
  <2> QED
    BY <2>1
<1> QED
  BY <1>4, <1>5, <1>6 DEF Honest

\* While only results of models, resets and time touch a credential, it is blocked as
\* a whole exactly while each of its models is: what one failure or success aggregates
\* (updateAggregatedAvailability) stays true until the next.
THEOREM AggregateStaysExact ==
  ASSUME ~Admin, AuthFailures = {}
  PROVE  Spec => []AggregateIsExact
<1>1. Init => Honest
  BY HonestStarts
<1>2. IInv /\ Honest /\ [Next]_vars => Honest'
  BY HonestStep
<1>3. IInv /\ Honest => AggregateIsExact
  <2> SUFFICES ASSUME IInv, Honest
               PROVE  AggregateIsExact
    OBVIOUS
  <2>1. auth \in BAuth /\ now \in Nat /\ auth.next \in Nat /\ ~IsDisabled(auth)
    BY CooldownAssumption, Fields DEF IInv, Honest, Tells, IsDisabled
  <2>2. \A m \in Present(auth) : m \in Models /\ auth.ms[m].has /\ auth.ms[m].next \in Nat
    BY <2>1, Fields DEF Present
  <2>3. \A m \in Present(auth) : BlockedFor(auth, m, now) <=> Cooling(auth.ms[m], now)
    BY <2>1, <2>2 DEF BlockedFor
  <2>4. BlockedAny(auth, now) <=> auth.unavail /\ auth.next > now
    BY <2>1 DEF BlockedAny, Cooling
  <2>5. CASE auth.unavail
    <3>1. /\ Present(auth) # {} /\ \A m \in Present(auth) : auth.ms[m].unavail /\ auth.next <= auth.ms[m].next
          /\ \E m \in Present(auth) : auth.next = auth.ms[m].next
      BY <2>5 DEF Honest, Follows
    <3>2. auth.next > now <=> \A m \in Present(auth) : Cooling(auth.ms[m], now)
      BY <2>1, <2>2, <3>1 DEF Cooling
    <3> QED
      BY <2>3, <2>4, <2>5, <3>1, <3>2 DEF AggregateIsExact
  <2>6. CASE ~auth.unavail
    BY <2>3, <2>4, <2>6 DEF Honest, Follows, AggregateIsExact
  <2> QED
    BY <2>5, <2>6
<1> QED
  BY <1>1, <1>2, <1>3, InvAlways, PTL DEF Spec

\* Under the same conditions the credential shows an error exactly while the last
\* result of some model was a failure.
THEOREM StatusStaysTelling ==
  ASSUME ~Admin, AuthFailures = {}
  PROVE  Spec => []StatusTellsErrors
<1>1. Init => Honest
  BY HonestStarts
<1>2. IInv /\ Honest /\ [Next]_vars => Honest'
  BY HonestStep
<1>3. Honest => StatusTellsErrors
  BY DEF Honest, Tells, StatusTellsErrors
<1> QED
  BY <1>1, <1>2, <1>3, InvAlways, PTL DEF Spec
=============================================================================
